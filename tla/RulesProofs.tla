------------------------------ MODULE RulesProofs ------------------------------
(***************************************************************************)
(* Theorems about WindowRules, for any files, any numbers of devices,      *)
(* presets, windows and ids, and any number of edits: the safety           *)
(* properties of the dialog and of the files it writes.                    *)
(*                                                                         *)
(* The form is that of the selected rule whenever a callback begins, so    *)
(* that writing it back changes nothing but a priority that is too high    *)
(* for the form (Shown, Alike).  That saving stores what is shown rests on *)
(* the ids: each is given to one rule of a file, and a rule of the dialog  *)
(* never has that of a rule of another preset.                             *)
(***************************************************************************)
EXTENDS WindowRules, Integers, SequenceTheorems, FiniteSetTheorems, WellFoundedInduction, TLAPS

-----------------------------------------------------------------------------
(***************************************************************************)
(* Going through a sequence.                                               *)
(***************************************************************************)
Before(I, i) == {j \in I : j < i}

\* A set of numbers has a smallest one.
LEMMA Smallest ==
    ASSUME NEW S, S \subseteq Nat, S # {}
    PROVE  \E i \in S : \A j \in S : i <= j
<1>2. PICK i \in S : \A j \in S : ~(<<j, i>> \in OpToRel(<, Nat))
  BY WFMin, NatLessThanWellFounded, Zenon
<1>3. \A j \in S : ~(j < i)
  BY <1>2 DEF OpToRel
<1> QED BY <1>3

\* How many of them are before each: these are the numbers from 0 on, without a gap.
LEMMA Ranks ==
    ASSUME NEW I, I \subseteq Nat, IsFiniteSet(I)
    PROVE  /\ Cardinality(I) \in Nat
           /\ \A i \in I : Cardinality(Before(I, i)) \in 0 .. (Cardinality(I) - 1)
           /\ \A i, k \in I : i < k => Cardinality(Before(I, i)) < Cardinality(Before(I, k))
           /\ \A n \in 1 .. Cardinality(I) : \E i \in I : Cardinality(Before(I, i)) = n - 1
<1> DEFINE rank(i) == Cardinality(Before(I, i))
<1>0. \A i \in I : i \in Nat
  OBVIOUS
<1>1. \A i : Before(I, i) \in SUBSET I
  BY DEF Before
<1>2. \A i : IsFiniteSet(Before(I, i)) /\ rank(i) \in Nat
  BY <1>1, FS_Subset, FS_CardinalityType
<1>3. \A i : /\ IsFiniteSet(Before(I, i) \cup {i})
             /\ i \in I => Cardinality(Before(I, i) \cup {i}) = rank(i) + 1
  <2> TAKE i
  <2>1. i \in I => i \notin Before(I, i)
    BY DEF Before
  <2> QED BY <1>2, <2>1, FS_AddElement
<1>4. ASSUME NEW i \in I PROVE rank(i) < Cardinality(I)
  <2>1. Before(I, i) \cup {i} \in SUBSET I
    BY <1>1
  <2>2. Cardinality(Before(I, i) \cup {i}) <= Cardinality(I)
    BY <2>1, FS_Subset
  <2>3. Cardinality(I) \in Nat
    BY FS_CardinalityType
  <2> QED BY <2>2, <2>3, <1>2, <1>3
<1>5. ASSUME NEW i \in I, NEW k \in I, i < k PROVE rank(i) < rank(k)
  <2>1. Before(I, i) \cup {i} \in SUBSET Before(I, k)
    <3>1. \A j \in I : j < i \/ j = i => j < k
      BY <1>0, <1>5
    <3> QED BY <3>1 DEF Before
  <2>2. Cardinality(Before(I, i) \cup {i}) <= Cardinality(Before(I, k))
    BY <2>1, <1>2, FS_Subset
  <2> QED BY <2>2, <1>2, <1>3
<1>6. Cardinality(I) \in Nat
  BY FS_CardinalityType
<1> DEFINE bad == {n \in 1 .. Cardinality(I) : \A i \in I : rank(i) # n - 1}
<1>7. bad = {}
  <2> SUFFICES ASSUME bad # {} PROVE FALSE
    OBVIOUS
  <2>1. bad \subseteq Nat
    OBVIOUS
  <2> HIDE DEF rank
  <2>2. PICK n \in bad : \A k \in bad : n <= k
    <3> HIDE DEF bad
    <3> QED BY <2>1, Smallest
  <2>3. n \in 1 .. Cardinality(I) /\ \A i \in I : rank(i) # n - 1
    OBVIOUS
  <2>4. CASE n = 1
    <3>1. I # {}
      BY <2>3, <1>6, FS_EmptySet
    <3>2. PICK i \in I : \A j \in I : i <= j
      BY <3>1, Smallest
    <3>3. Before(I, i) = {}
      <4>1. \A j \in I : ~(j < i)
        BY <1>0, <3>2
      <4> QED BY <4>1 DEF Before
    <3>4. rank(i) = 0
      BY <3>3, FS_EmptySet DEF rank
    <3> QED BY <3>4, <2>3, <2>4
  <2>5. CASE n # 1
    <3>1. n - 1 \in 1 .. Cardinality(I) /\ n - 1 \notin bad
      BY <2>2, <2>3, <2>5, <1>6
    <3>2. PICK i \in I : rank(i) = n - 2
      BY <3>1, <2>3, <1>6
    <3> DEFINE after == {k \in I : i < k}
    <3>3. after # {}
      <4> SUFFICES ASSUME after = {} PROVE FALSE
        OBVIOUS
      <4>1. I = Before(I, i) \cup {i}
        <5>1. \A j \in I : j < i \/ j = i
          BY <1>0
        <5> QED BY <5>1 DEF Before
      <4>2. Cardinality(I) = rank(i) + 1
        BY <4>1, <1>3
      <4> QED BY <4>2, <3>2, <2>3, <1>6
    <3>4. PICK k \in after : \A j \in after : k <= j
      <4>1. after \subseteq Nat
        OBVIOUS
      <4> HIDE DEF after
      <4> QED BY <4>1, <3>3, Smallest
    <3>5. Before(I, k) = Before(I, i) \cup {i}
      <4>1. \A j \in I : j < k <=> j < i \/ j = i
        BY <1>0, <3>4
      <4> QED BY <4>1 DEF Before
    <3>6. rank(k) = rank(i) + 1
      BY <3>5, <1>3 DEF rank
    <3> QED BY <3>6, <3>2, <2>3, <1>6
  <2> QED BY <2>4, <2>5
<1>8. ASSUME NEW n \in 1 .. Cardinality(I) PROVE \E i \in I : rank(i) = n - 1
  BY <1>7, <1>2
<1>9. ASSUME NEW i \in I PROVE rank(i) \in 0 .. (Cardinality(I) - 1)
  BY <1>2, <1>4, <1>6
<1> QED BY <1>5, <1>6, <1>8, <1>9

\* What is kept are the elements at I, each of them once and in their order.
LEMMA KeptIs ==
    ASSUME NEW S, NEW s \in Seq(S), NEW I \in SUBSET DOMAIN s
    PROVE  /\ Kept(s, I) \in Seq(S) /\ Cardinality(I) \in Nat
           /\ Len(Kept(s, I)) = Cardinality(I)
           /\ \E at \in [1 .. Cardinality(I) -> I] :
                 /\ \A n \in 1 .. Cardinality(I) : Kept(s, I)[n] = s[at[n]]
                 /\ \A m, n \in 1 .. Cardinality(I) : at[m] = at[n] => m = n
                 /\ \A i \in I : \E n \in 1 .. Cardinality(I) : at[n] = i
<1> DEFINE rank(i) == Cardinality(Before(I, i))
           of(n)   == CHOOSE i \in I : rank(i) = n - 1
           at      == [n \in 1 .. Cardinality(I) |-> of(n)]
<1>1. I \subseteq Nat /\ IsFiniteSet(I) /\ \A i \in I : s[i] \in S
  BY FS_Interval, FS_Subset
<1>2. /\ Cardinality(I) \in Nat
      /\ \A i \in I : rank(i) \in 0 .. (Cardinality(I) - 1)
      /\ \A i, k \in I : i < k => rank(i) < rank(k)
      /\ \A n \in 1 .. Cardinality(I) : \E i \in I : rank(i) = n - 1
  BY <1>1, Ranks
<1>4. Kept(s, I) = [n \in 1 .. Cardinality(I) |-> s[of(n)]]
  BY DEF Kept, Before
<1> HIDE DEF rank
<1>3. \A n \in 1 .. Cardinality(I) : of(n) \in I /\ rank(of(n)) = n - 1
  BY <1>2
<1> HIDE DEF of
<1>5. Kept(s, I) \in Seq(S) /\ Len(Kept(s, I)) = Cardinality(I)
  <2>1. \A n \in 1 .. Cardinality(I) : s[of(n)] \in S
    BY <1>1, <1>3
  <2> QED BY <2>1, <1>2, <1>4
<1>6. at \in [1 .. Cardinality(I) -> I] /\ \A n \in 1 .. Cardinality(I) : at[n] = of(n)
  BY <1>3
<1> HIDE DEF at
<1>7. \A n \in 1 .. Cardinality(I) : Kept(s, I)[n] = s[at[n]]
  BY <1>4, <1>6
<1>8. \A m, n \in 1 .. Cardinality(I) : at[m] = at[n] => m = n
  BY <1>3, <1>6, <1>2
<1>9. ASSUME NEW i \in I
      PROVE  \E n \in 1 .. Cardinality(I) : at[n] = i
  <2> DEFINE n == rank(i) + 1
  <2>1. n \in 1 .. Cardinality(I) /\ n - 1 = rank(i)
    BY <1>2
  <2>2. of(n) \in I /\ rank(of(n)) = rank(i)
    BY <2>1, <1>3
  <2>3. \A k \in I : k # i => rank(k) # rank(i)
    <3>1. \A k \in I : k # i => k < i \/ i < k
      BY <1>1
    <3>2. \A k \in I : rank(k) \in Int
      BY <1>2
    <3> QED BY <3>1, <3>2, <1>2
  <2>4. of(n) = i
    BY <2>2, <2>3
  <2> QED BY <2>1, <2>4, <1>6
<1> QED BY <1>2, <1>5, <1>6, <1>7, <1>8, <1>9

\* Of the first elements only, they are the beginning of the sequence.
LEMMA KeptFirst ==
    ASSUME NEW S, NEW s \in Seq(S), NEW n \in 0 .. Len(s)
    PROVE  Kept(s, 1 .. n) = SubSeq(s, 1, n)
<1>1. n \in Nat /\ 1 .. n \in SUBSET DOMAIN s
  OBVIOUS
<1>2. Cardinality(1 .. n) = n
  BY <1>1, FS_Interval
<1>3. ASSUME NEW m \in 1 .. n
      PROVE  (CHOOSE i \in 1 .. n : Cardinality(Before(1 .. n, i)) = m - 1) = m
  <2>1. ASSUME NEW i \in 1 .. n PROVE Cardinality(Before(1 .. n, i)) = i - 1
    <3>1. Before(1 .. n, i) = 1 .. (i - 1)
      BY DEF Before
    <3> QED BY <3>1, FS_Interval
  <2>2. \A i \in 1 .. n : (Cardinality(Before(1 .. n, i)) = m - 1) <=> i = m
    BY <2>1
  <2> HIDE DEF Before
  <2> QED BY <2>2
<1>4. Kept(s, 1 .. n) = [m \in 1 .. n |->
                           s[CHOOSE i \in 1 .. n : Cardinality(Before(1 .. n, i)) = m - 1]]
  BY <1>2 DEF Kept, Before
<1>5. Kept(s, 1 .. n) = [m \in 1 .. n |-> s[m]]
  BY <1>3, <1>4
<1>6. SubSeq(s, 1, n) = [m \in 1 .. n |-> s[m]]
  BY <1>1
<1> QED BY <1>5, <1>6

\* The elements of a sequence of ours.
LEMMA Elements ==
    ASSUME NEW S, NEW s \in Seq(S)
    PROVE  /\ ToSet(s) \subseteq S
           /\ \A i \in DOMAIN s : s[i] \in ToSet(s)
           /\ \A x \in ToSet(s) : \E i \in DOMAIN s : s[i] = x
BY DEF ToSet

\* An element that is put between the others is the only one that is new.
LEMMA Inserted ==
    ASSUME NEW S, NEW s \in Seq(S), NEW i \in 1 .. Len(s) + 1, NEW e \in S
    PROVE  /\ InsertAt(s, i, e) \in Seq(S)
           /\ Len(InsertAt(s, i, e)) = Len(s) + 1
           /\ InsertAt(s, i, e)[i] = e
           /\ \A j \in DOMAIN s : InsertAt(s, i, e)[IF j < i THEN j ELSE j + 1] = s[j]
           /\ \A k \in DOMAIN InsertAt(s, i, e) \ {i} :
                 InsertAt(s, i, e)[k] = s[IF k < i THEN k ELSE k - 1]
<1>1. Len(s) \in Nat /\ SubSeq(s, 1, i - 1) \in Seq(S) /\ SubSeq(s, i, Len(s)) \in Seq(S)
  OBVIOUS
<1>2. Len(SubSeq(s, 1, i - 1)) = i - 1 /\ Len(SubSeq(s, i, Len(s))) = Len(s) + 1 - i
  BY <1>1
<1>3. /\ \A k \in 1 .. (i - 1) : SubSeq(s, 1, i - 1)[k] = s[k]
      /\ \A k \in 1 .. (Len(s) + 1 - i) : SubSeq(s, i, Len(s))[k] = s[i + k - 1]
  BY <1>1
<1> DEFINE a == SubSeq(s, 1, i - 1)
           b == SubSeq(s, i, Len(s))
           t == InsertAt(s, i, e)
<1>4. t = a \o <<e>> \o b
  BY DEF InsertAt
<1> HIDE DEF a, b, t
<1>5. a \in Seq(S) /\ b \in Seq(S) /\ Len(a) = i - 1 /\ Len(b) = Len(s) + 1 - i
  BY <1>1, <1>2 DEF a, b
<1>6. /\ a \o <<e>> \in Seq(S) /\ Len(a \o <<e>>) = i
      /\ \A k \in 1 .. i : (a \o <<e>>)[k] = IF k < i THEN s[k] ELSE e
  BY <1>5, <1>3 DEF a
<1>7. t \in Seq(S) /\ Len(t) = Len(s) + 1
  <2>1. t \in Seq(S) /\ Len(t) = Len(a \o <<e>>) + Len(b)
    BY <1>4, <1>5, <1>6, ConcatProperties
  <2>2. i \in Int /\ Len(s) \in Int /\ i + (Len(s) + 1 - i) = Len(s) + 1
    BY <1>1
  <2>3. Len(a \o <<e>>) = i /\ Len(b) = Len(s) + 1 - i
    BY <1>5, <1>6
  <2>4. Len(t) = i + (Len(s) + 1 - i)
    BY <2>1, <2>3
  <2> QED BY <2>1, <2>2, <2>4
<1>8. \A k \in 1 .. Len(s) + 1 : t[k] = IF k < i THEN s[k] ELSE IF k = i THEN e ELSE s[k - 1]
  <2>1. \A k \in 1 .. Len(s) + 1 : t[k] = IF k <= i THEN (a \o <<e>>)[k] ELSE b[k - i]
    BY <1>1, <1>4, <1>5, <1>6
  <2>2. \A k \in 1 .. Len(s) + 1 : k > i => b[k - i] = s[k - 1]
    BY <1>1, <1>3 DEF b
  <2> QED BY <2>1, <2>2, <1>6
<1>9. \A j \in DOMAIN s : t[IF j < i THEN j ELSE j + 1] = s[j]
  BY <1>1, <1>8
<1>10. \A k \in DOMAIN t \ {i} : t[k] = s[IF k < i THEN k ELSE k - 1]
  BY <1>1, <1>7, <1>8
<1> QED BY <1>1, <1>7, <1>8, <1>9, <1>10 DEF t

\* What is removed is one element.
LEMMA Removed ==
    ASSUME NEW S, NEW s \in Seq(S), NEW i \in 1 .. Len(s)
    PROVE  /\ RemoveAt(s, i) \in Seq(S)
           /\ Len(RemoveAt(s, i)) = Len(s) - 1
           /\ \A j \in DOMAIN s \ {i} : RemoveAt(s, i)[IF j < i THEN j ELSE j - 1] = s[j]
           /\ \A k \in DOMAIN RemoveAt(s, i) : RemoveAt(s, i)[k] = s[IF k < i THEN k ELSE k + 1]
<1>1. Len(s) \in Nat /\ SubSeq(s, 1, i - 1) \in Seq(S) /\ SubSeq(s, i + 1, Len(s)) \in Seq(S)
  OBVIOUS
<1>2. Len(SubSeq(s, 1, i - 1)) = i - 1 /\ Len(SubSeq(s, i + 1, Len(s))) = Len(s) - i
  BY <1>1
<1>3. /\ \A k \in 1 .. (i - 1) : SubSeq(s, 1, i - 1)[k] = s[k]
      /\ \A k \in 1 .. (Len(s) - i) : SubSeq(s, i + 1, Len(s))[k] = s[i + k]
  BY <1>1
<1> DEFINE a == SubSeq(s, 1, i - 1)
           b == SubSeq(s, i + 1, Len(s))
           t == RemoveAt(s, i)
<1>4. t = a \o b
  BY DEF RemoveAt
<1> HIDE DEF a, b, t
<1>5. a \in Seq(S) /\ b \in Seq(S) /\ Len(a) = i - 1 /\ Len(b) = Len(s) - i
  BY <1>1, <1>2 DEF a, b
<1>7. t \in Seq(S) /\ Len(t) = Len(s) - 1
  <2>1. t \in Seq(S) /\ Len(t) = Len(a) + Len(b)
    BY <1>4, <1>5, ConcatProperties
  <2> QED BY <2>1, <1>1, <1>5
<1>8. \A k \in 1 .. Len(s) - 1 : t[k] = IF k < i THEN s[k] ELSE s[k + 1]
  <2>1. \A k \in 1 .. Len(s) - 1 : t[k] = IF k < i THEN a[k] ELSE b[k - i + 1]
    BY <1>1, <1>4, <1>5
  <2>2. \A k \in 1 .. Len(s) - 1 : k >= i => b[k - i + 1] = s[k + 1]
    BY <1>1, <1>3 DEF b
  <2> QED BY <2>1, <2>2, <1>3 DEF a
<1>9. \A j \in DOMAIN s \ {i} : t[IF j < i THEN j ELSE j - 1] = s[j]
  BY <1>1, <1>8
<1>10. \A k \in DOMAIN t : t[k] = s[IF k < i THEN k ELSE k + 1]
  BY <1>1, <1>7, <1>8
<1> QED BY <1>1, <1>7, <1>8, <1>9, <1>10 DEF t

-----------------------------------------------------------------------------
(***************************************************************************)
(* The form and the list.                                                  *)
(***************************************************************************)
Dialogs == [rules : Seq(Rules), sel : Nat, form : Values]

\* Between two callbacks a row is selected, if there is one, and the form is that of its rule.
Shown(d) == IF d.rules = <<>> THEN d.sel = 0
            ELSE d.sel \in DOMAIN d.rules /\ d.form = Clamped(d.rules[d.sel].values)

\* No two of the rules have the same id.
Unique(rules) == \A i, j \in DOMAIN rules : rules[i].id = rules[j].id => i = j

\* The rules t are those of s, of which some were looked at.
Alike(s, t) == /\ t \in Seq(Rules) /\ DOMAIN t = DOMAIN s
               /\ \A i \in DOMAIN s : t[i] = s[i] \/ t[i] = Seen(s[i])

\* The rules L are all there, at most looked at.
Covers(L, s) == L \subseteq Rules /\ \A r \in L : r \in ToSet(s) \/ Seen(r) \in ToSet(s)

\* What the form can hold, and what a new rule and the rule of a window are.
LEMMA ValuesOfForms ==
    /\ \A form \in Values : Changes(form) \subseteq Values
    /\ \A id : Default(id).id = id /\ Default(id).values \in Values
    /\ \A id \in Ids : Default(id) \in Rules
    /\ \A w \in Windows : AppRule(w) \in AppRules /\ AppRule(w).rule.id = w
    /\ \A v \in Values : /\ [v EXCEPT !.enabled = ~@] \in Values
                         /\ [v EXCEPT !.enabled = FALSE] \in Values
                         /\ ~[v EXCEPT !.enabled = FALSE].enabled
                         /\ \A f \in Fields, t \in Texts \cup {None} :
                               [v EXCEPT !.match[f] = t] \in Values
<1>1. \A v \in Values : /\ [v EXCEPT !.enabled = ~@] \in Values
                        /\ [v EXCEPT !.enabled = FALSE] \in Values
                        /\ ~[v EXCEPT !.enabled = FALSE].enabled
  BY DEF Values
<1>2. \A v \in Values, f \in Fields, t \in Texts \cup {None} : [v EXCEPT !.match[f] = t] \in Values
  BY DEF Values
<1>3. \A form \in Values : Changes(form) \subseteq Values
  <2> TAKE form \in Values
  <2>1. \A p \in {0, MaxPriority} : [form EXCEPT !.priority = p] \in Values
    BY DEF Values, MaxPriority
  <2> SUFFICES ASSUME NEW x \in Changes(form) PROVE x \in Values
    OBVIOUS
  <2>2. \/ x = [form EXCEPT !.enabled = ~@]
        \/ \E p \in {0, MaxPriority} : x = [form EXCEPT !.priority = p]
        \/ \E f \in Fields, t \in Texts \cup {None} : x = [form EXCEPT !.match[f] = t]
    BY DEF Changes
  <2>3. CASE x = [form EXCEPT !.enabled = ~@]
    BY <1>1, <2>3
  <2>4. CASE \E p \in {0, MaxPriority} : x = [form EXCEPT !.priority = p]
    BY <2>1, <2>4
  <2>5. CASE \E f \in Fields, t \in Texts \cup {None} : x = [form EXCEPT !.match[f] = t]
    BY <1>2, <2>5
  <2> QED BY <2>2, <2>3, <2>4, <2>5
<1>4. \A id : Default(id).id = id /\ Default(id).values \in Values
  BY DEF Default, Values
<1>5. \A id \in Ids : Default(id) \in Rules
  BY <1>4 DEF Default, Rules
<1>6. \A w \in Windows : AppRule(w) \in AppRules /\ AppRule(w).rule.id = w
  <2> TAKE w \in Windows
  <2> DEFINE fields == [f \in Fields |-> IF f = "window_class_equals" THEN w ELSE None]
             values == [enabled |-> TRUE, priority |-> BoundPriority, match |-> fields]
  <2>2. AppRule(w) = [rule |-> [id |-> w, values |-> values], profile |-> AppProfile(w)]
    BY DEF AppRule
  <2>5. fields \in [Fields -> Texts \cup {None}]
    BY DEF Texts
  <2> HIDE DEF fields
  <2>1. values \in Values
    BY <2>5 DEF Values, BoundPriority
  <2> HIDE DEF values
  <2>3. w \in Ids \cup Windows \cup Given /\ AppProfile(w) \in Profiles
    BY DEF Profiles
  <2>4. [id |-> w, values |-> values] \in Rules
    BY <2>1, <2>3 DEF Rules
  <2> QED BY <2>2, <2>3, <2>4 DEF AppRules
<1> QED BY <1>1, <1>2, <1>3, <1>4, <1>5, <1>6

\* Other values in a rule: it keeps its id, and the others are as they were.
LEMMA Rewritten ==
    ASSUME NEW d \in Dialogs, NEW i \in DOMAIN d.rules, NEW v \in Values
    PROVE  LET e == [d EXCEPT !.rules[i].values = v]
           IN  /\ e \in Dialogs /\ e.sel = d.sel /\ e.form = d.form
               /\ DOMAIN e.rules = DOMAIN d.rules /\ e.rules[i].values = v
               /\ \A j \in DOMAIN d.rules : e.rules[j].id = d.rules[j].id
               /\ \A j \in DOMAIN d.rules \ {i} : e.rules[j] = d.rules[j]
<1> DEFINE e == [d EXCEPT !.rules[i].values = v]
           r == [d.rules[i] EXCEPT !.values = v]
           s == [d.rules EXCEPT ![i] = r]
<1>1. d.rules \in Seq(Rules) /\ d.rules[i] \in Rules
  BY DEF Dialogs
<1>2. r \in Rules /\ r.id = d.rules[i].id /\ r.values = v
  BY <1>1 DEF Rules
<1>6. e = [d EXCEPT !.rules = s]
  OBVIOUS
<1> HIDE DEF r, s, e
<1>3. /\ e.rules = s /\ e.sel = d.sel /\ e.form = d.form
      /\ e = [rules |-> s, sel |-> d.sel, form |-> d.form]
  BY <1>6 DEF Dialogs
<1>4. s \in Seq(Rules) /\ DOMAIN s = DOMAIN d.rules /\ s[i] = r
      /\ \A j \in DOMAIN d.rules \ {i} : s[j] = d.rules[j]
  BY <1>1, <1>2 DEF s
<1>5. e \in Dialogs
  BY <1>3, <1>4 DEF Dialogs
<1> QED BY <1>2, <1>3, <1>4, <1>5 DEF e

\* The form only lowers priorities, once.
LEMMA ClampedIs ==
    /\ \A v \in Values : Clamped(v) \in Values /\ Clamped(Clamped(v)) = Clamped(v)
    /\ \A rule \in Rules : /\ Seen(rule) \in Rules /\ Seen(rule).id = rule.id
                            /\ Seen(rule).values = Clamped(rule.values)
                            /\ Seen(rule) = [rule EXCEPT !.values = Clamped(rule.values)]
                            /\ Seen(Seen(rule)) = Seen(rule)
<1>1. ASSUME NEW v \in Values PROVE Clamped(v) \in Values /\ Clamped(Clamped(v)) = Clamped(v)
  <2> DEFINE p == IF v.priority > MaxPriority THEN MaxPriority ELSE v.priority
             w == [v EXCEPT !.priority = p]
  <2>1. v.priority \in Nat /\ p \in Nat /\ ~(p > MaxPriority)
    BY DEF Values, MaxPriority
  <2>2. Clamped(v) = w
    BY DEF Clamped
  <2> HIDE DEF p
  <2>3. w \in Values /\ w.priority = p
    BY <2>1 DEF Values
  <2> HIDE DEF w
  <2>4. [w EXCEPT !.priority = p] = w
    BY <2>3 DEF Values
  <2>5. Clamped(w) = [w EXCEPT !.priority = p]
    BY <2>1, <2>3 DEF Clamped
  <2> QED BY <2>2, <2>3, <2>4, <2>5
<1>2. ASSUME NEW rule \in Rules
      PROVE  /\ Seen(rule) \in Rules /\ Seen(rule).id = rule.id
             /\ Seen(rule).values = Clamped(rule.values)
             /\ Seen(rule) = [rule EXCEPT !.values = Clamped(rule.values)]
             /\ Seen(Seen(rule)) = Seen(rule)
  <2> DEFINE v == Clamped(rule.values)
             t == [rule EXCEPT !.values = v]
  <2>1. rule.values \in Values /\ v \in Values /\ Clamped(v) = v
    BY <1>1 DEF Rules
  <2>2. Seen(rule) = t
    BY DEF Seen
  <2> HIDE DEF v
  <2>3. t \in Rules /\ t.id = rule.id /\ t.values = v
    BY <2>1 DEF Rules
  <2>4. Seen(t) = [t EXCEPT !.values = Clamped(t.values)]
    BY DEF Seen
  <2> HIDE DEF t
  <2>5. [t EXCEPT !.values = v] = t
    BY <2>3 DEF Rules
  <2>6. Seen(t) = t
    BY <2>1, <2>3, <2>4, <2>5
  <2> QED BY <2>2, <2>3, <2>6 DEF v, t
<1> QED BY <1>1, <1>2

\* What is typed into the form is what the form shows.
LEMMA ChangesAreSeen ==
    ASSUME NEW v \in Values, v = Clamped(v), NEW form \in Changes(v)
    PROVE  form \in Values /\ form = Clamped(form)
<1>1. form \in Values
  BY ValuesOfForms
<1>2. v.priority \in Nat /\ ~(v.priority > MaxPriority)
  <2>1. v.priority \in Nat
    BY DEF Values
  <2>2. Clamped(v).priority = IF v.priority > MaxPriority THEN MaxPriority ELSE v.priority
    BY DEF Clamped, Values
  <2> QED BY <2>1, <2>2 DEF MaxPriority
<1>3. form.priority \in {0, MaxPriority, v.priority}
  <2>1. \/ form = [v EXCEPT !.enabled = ~@]
        \/ \E p \in {0, MaxPriority} : form = [v EXCEPT !.priority = p]
        \/ \E f \in Fields, t \in Texts \cup {None} : form = [v EXCEPT !.match[f] = t]
    BY DEF Changes
  <2> QED BY <2>1 DEF Values
<1>4. ~(form.priority > MaxPriority)
  BY <1>2, <1>3 DEF MaxPriority
<1>5. Clamped(form) = [form EXCEPT !.priority = form.priority]
  BY <1>4 DEF Clamped
<1> QED BY <1>1, <1>5 DEF Values

\* What looking at rules leaves: their ids, and those that were loaded.
LEMMA AlikeKeeps ==
    ASSUME NEW s \in Seq(Rules), NEW t, Alike(s, t)
    PROVE  /\ \A i \in DOMAIN s : t[i] \in Rules /\ t[i].id = s[i].id
           /\ Unique(s) => Unique(t)
           /\ IdsOf(t) = IdsOf(s)
           /\ \A L : Covers(L, s) => Covers(L, t)
<1>1. t \in Seq(Rules) /\ DOMAIN t = DOMAIN s
      /\ \A i \in DOMAIN s : t[i] = s[i] \/ t[i] = Seen(s[i])
  BY DEF Alike
<1>2. \A i \in DOMAIN s : s[i] \in Rules
  OBVIOUS
<1>3. \A i \in DOMAIN s : t[i] \in Rules /\ t[i].id = s[i].id
  BY <1>1, <1>2, ClampedIs
<1>4. Unique(s) => Unique(t)
  BY <1>1, <1>3 DEF Unique
<1>5. IdsOf(t) = {t[i].id : i \in DOMAIN t} /\ IdsOf(s) = {s[i].id : i \in DOMAIN s}
  BY DEF IdsOf, ToSet
<1>6. ASSUME NEW L, Covers(L, s) PROVE Covers(L, t)
  <2> SUFFICES ASSUME NEW x \in L PROVE x \in ToSet(t) \/ Seen(x) \in ToSet(t)
    BY <1>6 DEF Covers
  <2>1. x \in Rules /\ (x \in ToSet(s) \/ Seen(x) \in ToSet(s))
    BY <1>6 DEF Covers
  <2>2. PICK i \in DOMAIN s : s[i] = x \/ s[i] = Seen(x)
    BY <2>1 DEF ToSet
  <2>3. t[i] = x \/ t[i] = Seen(x)
    BY <1>1, <2>1, <2>2, ClampedIs
  <2>4. t[i] \in ToSet(t)
    BY <1>1 DEF ToSet
  <2> QED BY <2>3, <2>4
<1> QED BY <1>1, <1>3, <1>4, <1>5, <1>6

\* Writing the form back leaves the rules as they are, or looked at.
LEMMA CollectIs ==
    ASSUME NEW d \in Dialogs, Shown(d) \/ d.sel = 0
    PROVE  /\ Collect(d) \in Dialogs /\ Alike(d.rules, Collect(d).rules)
           /\ Collect(d).sel = d.sel /\ Collect(d).form = d.form
           /\ Shown(d) => Shown(Collect(d))
           /\ d.sel = 0 => Collect(d) = d
<1>1. d.rules \in Seq(Rules) /\ d.form \in Values
  BY DEF Dialogs
<1>2. \A i \in DOMAIN d.rules : d.rules[i] \in Rules /\ d.rules[i].values \in Values
  <2>1. \A i \in DOMAIN d.rules : d.rules[i] \in Rules
    BY <1>1
  <2> QED BY <2>1 DEF Rules
<1>3. CASE d.sel \notin DOMAIN d.rules
  BY <1>1, <1>3 DEF Collect, Alike
<1>4. CASE d.sel \in DOMAIN d.rules
  <2> DEFINE i == d.sel
             c == [d EXCEPT !.rules[i].values = d.form]
  <2>1. Collect(d) = c
    BY <1>4 DEF Collect
  <2>2. i # 0 /\ d.rules # <<>>
    BY <1>1, <1>4
  <2>3. Shown(d) /\ d.form = Clamped(d.rules[i].values)
    BY <2>2 DEF Shown
  <2>4. /\ c \in Dialogs /\ c.sel = i /\ c.form = d.form
        /\ DOMAIN c.rules = DOMAIN d.rules /\ c.rules[i].values = d.form
        /\ \A j \in DOMAIN d.rules : c.rules[j].id = d.rules[j].id
        /\ \A j \in DOMAIN d.rules \ {i} : c.rules[j] = d.rules[j]
    BY <1>1, <1>4, Rewritten
  <2> HIDE DEF c
  <2>5. c.rules \in Seq(Rules) /\ c.rules # <<>>
    BY <1>4, <2>4 DEF Dialogs
  <2>6. c.rules[i] = Seen(d.rules[i])
    <3>1. c.rules[i] \in Rules /\ c.rules[i].id = d.rules[i].id
      BY <1>4, <2>4, <2>5
    <3>2. Seen(d.rules[i]) \in Rules /\ Seen(d.rules[i]).id = d.rules[i].id
          /\ Seen(d.rules[i]).values = d.form
      BY <1>2, <1>4, <2>3, ClampedIs
    <3> QED BY <3>1, <3>2, <2>4 DEF Rules
  <2>7. Alike(d.rules, c.rules)
    BY <2>4, <2>5, <2>6 DEF Alike
  <2>8. Shown(c)
    BY <1>2, <1>4, <2>3, <2>4, <2>5, ClampedIs DEF Shown
  <2> QED BY <2>1, <2>2, <2>4, <2>7, <2>8
<1> QED BY <1>3, <1>4

\* Filling the form only changes the form.
LEMMA FillIs ==
    ASSUME NEW d \in Dialogs
    PROVE  /\ Fill(d) \in Dialogs /\ Fill(d).rules = d.rules /\ Fill(d).sel = d.sel
           /\ d.sel \in DOMAIN d.rules => Fill(d).form = Clamped(d.rules[d.sel].values)
<1>1. d.rules \in Seq(Rules)
  BY DEF Dialogs
<1>3. \A i \in DOMAIN d.rules : d.rules[i] \in Rules
  BY <1>1
<1>2. \A i \in DOMAIN d.rules : Clamped(d.rules[i].values) \in Values
  BY <1>3, ClampedIs DEF Rules
<1> QED BY <1>1, <1>2 DEF Fill, Dialogs

\* Selecting a row keeps the rules, if the form shows the selected one or nothing is selected.
LEMMA SelectKeeps ==
    ASSUME NEW d \in Dialogs, Shown(d) \/ d.sel = 0, NEW i \in DOMAIN d.rules
    PROVE  /\ Select(d, i) \in Dialogs /\ Alike(d.rules, Select(d, i).rules)
           /\ Select(d, i).sel = i /\ Shown(Select(d, i))
           /\ d.sel = 0 => Select(d, i).rules = d.rules
<1> DEFINE c == Collect(d)
           e == [c EXCEPT !.sel = i]
<1>1. c \in Dialogs /\ Alike(d.rules, c.rules) /\ (d.sel = 0 => c = d)
  BY CollectIs
<1>2. Select(d, i) = Fill(e)
  BY DEF Select
<1> HIDE DEF c
<1>3. i \in DOMAIN c.rules /\ i \in Nat
  BY <1>1 DEF Alike, Dialogs
<1>4. e \in Dialogs /\ e.rules = c.rules /\ e.sel = i
  BY <1>1, <1>3 DEF Dialogs
<1> HIDE DEF e
<1>5. e.rules # <<>>
  BY <1>3, <1>4
<1>6. /\ Fill(e) \in Dialogs /\ Fill(e).rules = c.rules /\ Fill(e).sel = i
      /\ Fill(e).form = Clamped(c.rules[i].values)
  BY <1>3, <1>4, FillIs
<1> QED BY <1>1, <1>2, <1>3, <1>4, <1>5, <1>6 DEF Shown

\* So does building the list anew, when nothing is selected.
LEMMA RebuildKeeps ==
    ASSUME NEW d \in Dialogs, d.sel = 0
    PROVE  Rebuild(d) \in Dialogs /\ Rebuild(d).rules = d.rules /\ Shown(Rebuild(d))
<1>2. Collect(d) = d
  BY CollectIs
<1>3. Deselect(d) = d
  BY <1>2 DEF Deselect, Dialogs
<1>4. CASE d.rules = <<>>
  BY <1>3, <1>4 DEF Rebuild, Shown
<1>5. CASE d.rules # <<>>
  <2>1. 1 \in DOMAIN d.rules
    BY <1>5 DEF Dialogs
  <2>2. Rebuild(d) = Select(d, 1)
    BY <1>3, <1>5 DEF Rebuild
  <2> QED BY <2>1, <2>2, SelectKeeps
<1> QED BY <1>4, <1>5

-----------------------------------------------------------------------------
(***************************************************************************)
(* The files.                                                              *)
(***************************************************************************)
Tables == [Profiles -> [Devices -> Presets \cup {None}]]
Scopes == Devices \X Presets

\* The rules of the elements that are kept.
LEMMA RulesKept ==
    ASSUME NEW S, \A x \in S : x.rule \in Rules, NEW s \in Seq(S), NEW I \in SUBSET DOMAIN s
    PROVE  LET t == [n \in DOMAIN Kept(s, I) |-> Kept(s, I)[n].rule]
           IN  /\ t \in Seq(Rules)
               /\ \A n \in DOMAIN t : \E i \in I : t[n] = s[i].rule
               /\ \A i \in I : \E n \in DOMAIN t : t[n] = s[i].rule
               /\ Distinct(s) => Unique(t)
<1> DEFINE k == Kept(s, I)
           t == [n \in DOMAIN k |-> k[n].rule]
           C == Cardinality(I)
<1>1. k \in Seq(S) /\ C \in Nat /\ Len(k) = C
  BY KeptIs
<1>2. PICK at \in [1 .. C -> I] :
         /\ \A n \in 1 .. C : k[n] = s[at[n]]
         /\ \A m, n \in 1 .. C : at[m] = at[n] => m = n
         /\ \A i \in I : \E n \in 1 .. C : at[n] = i
  BY KeptIs
<1> HIDE DEF k, C
<1>3. DOMAIN k = 1 .. C /\ \A n \in 1 .. C : k[n].rule \in Rules
  BY <1>1
<1>4. t \in Seq(Rules) /\ DOMAIN t = 1 .. C /\ \A n \in 1 .. C : t[n] = s[at[n]].rule
  BY <1>1, <1>2, <1>3
<1> HIDE DEF t
<1>5. ASSUME Distinct(s) PROVE Unique(t)
  <2> SUFFICES ASSUME NEW m \in 1 .. C, NEW n \in 1 .. C, t[m].id = t[n].id PROVE m = n
    BY <1>4 DEF Unique
  <2>1. at[m] \in DOMAIN s /\ at[n] \in DOMAIN s /\ s[at[m]].rule.id = s[at[n]].rule.id
    BY <1>4
  <2>2. at[m] = at[n]
    BY <1>5, <2>1 DEF Distinct
  <2> QED BY <2>2, <1>2
<1>6. \A n \in DOMAIN t : \E i \in I : t[n] = s[i].rule
  BY <1>4
<1>7. \A i \in I : \E n \in DOMAIN t : t[n] = s[i].rule
  BY <1>2, <1>4
<1> QED BY <1>4, <1>5, <1>6, <1>7 DEF t, k

LEMMA LinesIs ==
    ASSUME NEW old \in Seq(OldRules) \cup {None}
    PROVE  /\ Lines(old) \in Seq(OldRules)
           /\ \A i \in DOMAIN Lines(old) : /\ Lines(old)[i].rule \in Rules
                                           /\ Lines(old)[i].scope \in Scopes
<1>1. Lines(old) \in Seq(OldRules)
  BY DEF Lines
<1>2. \A r \in OldRules : r.rule \in Rules /\ r.scope \in Scopes
  BY DEF OldRules, Scopes
<1> QED BY <1>1, <1>2

LEMMA DocumentIs ==
    ASSUME NEW d \in Documents
    PROVE  /\ d.rules \in Seq(AppRules) /\ d.profiles \in Tables
           /\ \A i \in DOMAIN d.rules : d.rules[i].rule \in Rules /\ d.rules[i].profile \in Profiles
           /\ d = [rules |-> d.rules, profiles |-> d.profiles]
<1>1. d.rules \in Seq(AppRules) /\ d.profiles \in Tables
      /\ d = [rules |-> d.rules, profiles |-> d.profiles]
  BY DEF Documents, Tables
<1>2. \A r \in AppRules : r.rule \in Rules /\ r.profile \in Profiles
  BY DEF AppRules
<1> QED BY <1>1, <1>2

\* What is found for a device and preset: the rules for it, with different ids if the file has
\* them only once.
Finds(d, old, s, found) ==
    /\ found \in Seq(Rules)
    /\ d # None =>
         /\ \A x \in ToSet(found) : \E i \in Targeting(d, s) : x = d.rules[i].rule
         /\ \A i \in Targeting(d, s) : d.rules[i].rule \in ToSet(found)
         /\ Distinct(d.rules) => Unique(found)
    /\ d = None =>
         /\ \A x \in ToSet(found) : \E i \in DOMAIN Lines(old) :
               Lines(old)[i].scope = s /\ x = Lines(old)[i].rule
         /\ \A i \in DOMAIN Lines(old) :
               Lines(old)[i].scope = s => Lines(old)[i].rule \in ToSet(found)
         /\ Distinct(Lines(old)) => Unique(found)

LEMMA RulesForIs ==
    ASSUME NEW d \in Documents \cup {None}, NEW old \in Seq(OldRules) \cup {None}, NEW s \in Scopes
    PROVE  Finds(d, old, s, RulesFor(d, old, s))
<1> DEFINE found == RulesFor(d, old, s)
<1>1. CASE d # None
  <2>1. /\ d.rules \in Seq(AppRules) /\ \A x \in AppRules : x.rule \in Rules
        /\ Targeting(d, s) \in SUBSET DOMAIN d.rules
    BY <1>1, DocumentIs DEF Targeting, AppRules
  <2>2. RulesFor(d, old, s) = [n \in DOMAIN Kept(d.rules, Targeting(d, s)) |->
                                  Kept(d.rules, Targeting(d, s))[n].rule]
    BY <1>1 DEF RulesFor, Profiled
  <2>3. LET t == [n \in DOMAIN Kept(d.rules, Targeting(d, s)) |->
                     Kept(d.rules, Targeting(d, s))[n].rule]
        IN  /\ t \in Seq(Rules)
            /\ \A n \in DOMAIN t : \E i \in Targeting(d, s) : t[n] = d.rules[i].rule
            /\ \A i \in Targeting(d, s) : \E n \in DOMAIN t : t[n] = d.rules[i].rule
            /\ Distinct(d.rules) => Unique(t)
    BY <2>1, RulesKept
  <2>4. /\ found \in Seq(Rules)
        /\ \A n \in DOMAIN found : \E i \in Targeting(d, s) : found[n] = d.rules[i].rule
        /\ \A i \in Targeting(d, s) : \E n \in DOMAIN found : found[n] = d.rules[i].rule
        /\ Distinct(d.rules) => Unique(found)
    BY <2>2, <2>3
  <2> HIDE DEF found
  <2>5. /\ \A i \in Targeting(d, s) : d.rules[i].rule \in ToSet(found)
        /\ \A x \in ToSet(found) : \E i \in Targeting(d, s) : x = d.rules[i].rule
    BY <2>4 DEF ToSet
  <2> QED BY <1>1, <2>4, <2>5 DEF found, Finds
<1>2. CASE d = None
  <2> DEFINE I == {i \in DOMAIN Lines(old) : Lines(old)[i].scope = s}
  <2>1. Lines(old) \in Seq(OldRules) /\ \A x \in OldRules : x.rule \in Rules
    BY LinesIs DEF OldRules
  <2>2. RulesFor(d, old, s) = [n \in DOMAIN Kept(Lines(old), I) |-> Kept(Lines(old), I)[n].rule]
    BY <1>2 DEF RulesFor, Profiled
  <2>3. I \in SUBSET DOMAIN Lines(old)
    OBVIOUS
  <2>4. /\ \A i \in I : i \in DOMAIN Lines(old) /\ Lines(old)[i].scope = s
        /\ \A i \in DOMAIN Lines(old) : Lines(old)[i].scope = s => i \in I
    OBVIOUS
  <2> HIDE DEF I
  <2>5. LET t == [n \in DOMAIN Kept(Lines(old), I) |-> Kept(Lines(old), I)[n].rule]
        IN  /\ t \in Seq(Rules)
            /\ \A n \in DOMAIN t : \E i \in I : t[n] = Lines(old)[i].rule
            /\ \A i \in I : \E n \in DOMAIN t : t[n] = Lines(old)[i].rule
            /\ Distinct(Lines(old)) => Unique(t)
    BY <2>1, <2>3, RulesKept
  <2>6. /\ found \in Seq(Rules)
        /\ \A n \in DOMAIN found : \E i \in I : found[n] = Lines(old)[i].rule
        /\ \A i \in I : \E n \in DOMAIN found : found[n] = Lines(old)[i].rule
        /\ Distinct(Lines(old)) => Unique(found)
    BY <2>2, <2>5
  <2> HIDE DEF found
  <2>7. \A i \in DOMAIN Lines(old) : Lines(old)[i].scope = s => Lines(old)[i].rule \in ToSet(found)
    BY <2>4, <2>6 DEF ToSet
  <2>8. \A x \in ToSet(found) : \E i \in DOMAIN Lines(old) :
           Lines(old)[i].scope = s /\ x = Lines(old)[i].rule
    BY <2>4, <2>6 DEF ToSet
  <2> QED BY <1>2, <2>6, <2>7, <2>8 DEF found, Finds
<1> QED BY <1>1, <1>2

\* The others are those for another device or preset.
LEMMA OthersIs ==
    ASSUME NEW old \in Seq(OldRules) \cup {None}, NEW s \in Scopes
    PROVE  /\ Others(old, s) \in Seq(OldRules)
           /\ \A n \in DOMAIN Others(old, s) :
                 /\ Others(old, s)[n].scope # s
                 /\ \E i \in DOMAIN Lines(old) : Others(old, s)[n] = Lines(old)[i]
           /\ Distinct(Lines(old)) => Distinct(Others(old, s))
<1> DEFINE L == Lines(old)
           I == {i \in DOMAIN L : L[i].scope # s}
           k == Kept(L, I)
           C == Cardinality(I)
<1>0. Others(old, s) = k
  BY DEF Others
<1>1. L \in Seq(OldRules) /\ I \in SUBSET DOMAIN L /\ \A i \in I : L[i].scope # s
  BY LinesIs
<1> HIDE DEF L, I
<1>2. k \in Seq(OldRules) /\ C \in Nat /\ Len(k) = C
  BY <1>1, KeptIs
<1>3. PICK at \in [1 .. C -> I] :
         /\ \A n \in 1 .. C : k[n] = L[at[n]]
         /\ \A m, n \in 1 .. C : at[m] = at[n] => m = n
  BY <1>1, KeptIs
<1> HIDE DEF k, C
<1>4. DOMAIN k = 1 .. C /\ \A n \in 1 .. C : at[n] \in DOMAIN L /\ k[n].scope # s
  BY <1>1, <1>2, <1>3
<1>5. ASSUME Distinct(L) PROVE Distinct(k)
  <2> SUFFICES ASSUME NEW m \in 1 .. C, NEW n \in 1 .. C, k[m].rule.id = k[n].rule.id PROVE m = n
    BY <1>4 DEF Distinct
  <2>1. L[at[m]].rule.id = L[at[n]].rule.id
    BY <1>3
  <2>2. at[m] = at[n]
    BY <1>4, <1>5, <2>1 DEF Distinct
  <2> QED BY <2>2, <1>3
<1>6. \A n \in DOMAIN k : k[n].scope # s /\ \E i \in DOMAIN L : k[n] = L[i]
  BY <1>3, <1>4
<1> QED BY <1>0, <1>2, <1>5, <1>6 DEF L

\* Some profiles get a preset for one device; what they have for the other devices remains.
LEMMA WithIs ==
    ASSUME NEW p \in Tables, NEW names, NEW s \in Scopes
    PROVE  /\ With(p, names, s) \in Tables
           /\ \A n \in names \cap Profiles : With(p, names, s)[n][s[1]] = s[2]
           /\ \A n \in Profiles, dev \in Devices \ {s[1]} : With(p, names, s)[n][dev] = p[n][dev]
<1>1. s[1] \in Devices /\ s[2] \in Presets \cup {None}
  BY DEF Scopes
<1>2. \A n \in Profiles : p[n] \in [Devices -> Presets \cup {None}]
  BY DEF Tables
<1>3. \A n \in Profiles : /\ [p[n] EXCEPT ![s[1]] = s[2]] \in [Devices -> Presets \cup {None}]
                          /\ [p[n] EXCEPT ![s[1]] = s[2]][s[1]] = s[2]
                          /\ \A dev \in Devices \ {s[1]} :
                                [p[n] EXCEPT ![s[1]] = s[2]][dev] = p[n][dev]
  BY <1>1, <1>2
<1>4. \A n \in Profiles :
         With(p, names, s)[n] = IF n \in names THEN [p[n] EXCEPT ![s[1]] = s[2]] ELSE p[n]
  BY DEF With
<1>5. With(p, names, s) \in Tables
  <2>1. \A n \in Profiles : (IF n \in names THEN [p[n] EXCEPT ![s[1]] = s[2]] ELSE p[n])
                               \in [Devices -> Presets \cup {None}]
    BY <1>2, <1>3
  <2> QED BY <2>1 DEF With, Tables
<1> QED BY <1>3, <1>4, <1>5

\* A rule that is in the file keeps its profile.
LEMMA ProfileForIs ==
    ASSUME NEW d \in Documents, NEW r \in Rules
    PROVE  /\ ProfileFor(d, r) \in Profiles
           /\ Distinct(d.rules) => \A i \in DOMAIN d.rules :
                 d.rules[i].rule.id = r.id => ProfileFor(d, r) = d.rules[i].profile
<1>1. \A i \in DOMAIN d.rules : d.rules[i].profile \in Profiles
  BY DocumentIs
<1>2. r.id \in Profiles
  BY DEF Rules, Profiles
<1> QED BY <1>1, <1>2 DEF ProfileFor, Distinct

\* What saving makes of profiles.json.
Updates(d, s, rules, u) ==
    /\ u \in Documents /\ Distinct(u.rules)
    /\ u.profiles = With(d.profiles, {ProfileFor(d, r) : r \in ToSet(rules)}, s)
    /\ \A i \in DOMAIN d.rules :
          /\ i \in DOMAIN u.rules
          /\ u.rules[i].rule.id = d.rules[i].rule.id
          /\ i \in Dropped(d, s, rules) => ~u.rules[i].rule.values.enabled
          /\ d.rules[i].rule.id \notin IdsOf(rules) /\ i \notin Targeting(d, s)
                => u.rules[i] = d.rules[i]
    /\ \A r \in ToSet(rules) : \E k \in DOMAIN u.rules :
          u.rules[k].rule = r /\ u.rules[k].profile = ProfileFor(d, r)

LEMMA UpsertedIs ==
    ASSUME NEW d \in Documents, NEW s \in Scopes, NEW rules \in Seq(Rules),
           Unique(rules), Distinct(d.rules)
    PROVE  Updates(d, s, rules, Upserted(d, s, rules))
<1> DEFINE dropped == Dropped(d, s, rules)
           Edited(r) == {e \in ToSet(rules) : e.id = r.id}
           Update(i) == CASE Edited(d.rules[i].rule) # {} ->
                                [d.rules[i] EXCEPT
                                    !.rule = CHOOSE e \in Edited(d.rules[i].rule) : TRUE]
                          [] i \in dropped -> [d.rules[i] EXCEPT !.rule.values.enabled = FALSE]
                          [] OTHER -> d.rules[i]
           first == [i \in DOMAIN d.rules |-> Update(i)]
           IsNew(r) == \A i \in DOMAIN d.rules : d.rules[i].rule.id # r.id
           I     == {n \in DOMAIN rules : IsNew(rules[n])}
           new   == Kept(rules, I)
           added == [n \in DOMAIN new |-> [rule |-> new[n], profile |-> ProfileFor(d, new[n])]]
           u     == Upserted(d, s, rules)
<1>1. /\ u.rules = first \o added
      /\ u.profiles = With(d.profiles, {ProfileFor(d, r) : r \in ToSet(rules)}, s)
      /\ u = [rules |-> u.rules, profiles |-> u.profiles]
  BY DEF Upserted
<1> HIDE DEF u
<1>2. /\ d.rules \in Seq(AppRules) /\ d.profiles \in Tables
      /\ \A i \in DOMAIN d.rules : /\ d.rules[i] \in AppRules
                                   /\ d.rules[i].rule \in Rules /\ d.rules[i].profile \in Profiles
  BY DocumentIs
<1>3. /\ \A r \in ToSet(rules) : r \in Rules
      /\ \A r, e \in ToSet(rules) : r.id = e.id => r = e
      /\ IdsOf(rules) = {r.id : r \in ToSet(rules)}
  BY Elements DEF Unique, IdsOf
<1>4. ASSUME NEW i \in DOMAIN d.rules
      PROVE  /\ Update(i) \in AppRules
             /\ Update(i).profile = d.rules[i].profile
             /\ Update(i).rule.id = d.rules[i].rule.id
             /\ \A r \in ToSet(rules) : r.id = d.rules[i].rule.id => Update(i).rule = r
             /\ i \in dropped => ~Update(i).rule.values.enabled
             /\ d.rules[i].rule.id \notin IdsOf(rules) /\ i \notin Targeting(d, s)
                   => Update(i) = d.rules[i]
  <2> DEFINE old == d.rules[i]
  <2>1. old \in AppRules /\ old.rule \in Rules /\ old = [rule |-> old.rule, profile |-> old.profile]
    BY <1>2 DEF AppRules
  <2>2. i \in dropped => old.rule.id \notin IdsOf(rules) /\ i \in Targeting(d, s)
    BY DEF Dropped
  <2>3. CASE Edited(old.rule) # {}
    <3> DEFINE e == CHOOSE e \in Edited(old.rule) : TRUE
    <3>1. e \in ToSet(rules) /\ e.id = old.rule.id
      BY <2>3
    <3>4. old.rule.id \in IdsOf(rules)
      BY <3>1, <1>3
    <3>5. i \notin dropped
      BY <2>2, <3>4
    <3> HIDE DEF dropped
    <3>2. Update(i) = [old EXCEPT !.rule = e]
      <4> HIDE DEF Edited
      <4> QED BY <2>3, <3>5
    <3> HIDE DEF e, Update
    <3>3. Update(i) \in AppRules /\ Update(i).rule = e /\ Update(i).profile = old.profile
      BY <1>3, <2>1, <3>1, <3>2 DEF AppRules
    <3> QED BY <1>3, <2>2, <3>1, <3>3, <3>4
  <2>4. CASE Edited(old.rule) = {} /\ i \in dropped
    <3> DEFINE v == [old.rule.values EXCEPT !.enabled = FALSE]
               r == [old.rule EXCEPT !.values = v]
    <3>1. Update(i) = [old EXCEPT !.rule = r]
      BY <2>4
    <3>2. v \in Values /\ ~v.enabled
      BY <2>1, ValuesOfForms DEF Rules
    <3> HIDE DEF v, Update
    <3>3. r \in Rules /\ r.id = old.rule.id /\ r.values = v
      BY <2>1, <3>2 DEF Rules
    <3> HIDE DEF r
    <3>4. Update(i) \in AppRules /\ Update(i).rule = r /\ Update(i).profile = old.profile
      BY <2>1, <3>1, <3>3 DEF AppRules
    <3>5. \A x \in ToSet(rules) : x.id # old.rule.id
      BY <2>4
    <3> QED BY <2>2, <2>4, <3>2, <3>3, <3>4, <3>5
  <2>5. CASE Edited(old.rule) = {} /\ i \notin dropped
    <3>1. Update(i) = old
      BY <2>5
    <3>2. \A x \in ToSet(rules) : x.id # old.rule.id
      BY <2>5
    <3> HIDE DEF Update
    <3> QED BY <2>1, <2>5, <3>1, <3>2
  <2> QED BY <2>3, <2>4, <2>5
<1>5. PICK l \in Nat : l = Len(d.rules) /\ DOMAIN d.rules = 1 .. l
  BY <1>2
<1>6. first \in Seq(AppRules) /\ Len(first) = l /\ \A i \in 1 .. l : first[i] = Update(i)
  <2> HIDE DEF Update
  <2> QED BY <1>4, <1>5
<1>20. I \in SUBSET DOMAIN rules
  OBVIOUS
<1>7. new \in Seq(Rules) /\ Cardinality(I) \in Nat /\ Len(new) = Cardinality(I)
  <2> HIDE DEF I
  <2> QED BY <1>20, KeptIs
<1>8. PICK at \in [1 .. Cardinality(I) -> I] :
         /\ \A n \in 1 .. Cardinality(I) : new[n] = rules[at[n]]
         /\ \A m, n \in 1 .. Cardinality(I) : at[m] = at[n] => m = n
         /\ \A i \in I : \E n \in 1 .. Cardinality(I) : at[n] = i
  <2> HIDE DEF I
  <2> QED BY <1>20, KeptIs
<1> DEFINE c == Cardinality(I)
<1>9. /\ \A n \in 1 .. c : new[n] \in ToSet(rules) /\ IsNew(new[n])
      /\ \A m, n \in 1 .. c : new[m].id = new[n].id => m = n
      /\ \A r \in ToSet(rules) : IsNew(r) => \E n \in 1 .. c : new[n] = r
  <2>1. \A n \in 1 .. c : at[n] \in DOMAIN rules /\ IsNew(rules[at[n]]) /\ new[n] = rules[at[n]]
    <3>1. \A i \in I : i \in DOMAIN rules /\ IsNew(rules[i])
      OBVIOUS
    <3> HIDE DEF I, IsNew, new
    <3> QED BY <1>8, <3>1
  <2>2. \A r \in ToSet(rules) : IsNew(r) => \E i \in I : rules[i] = r
    BY Elements
  <2> HIDE DEF I, IsNew, new
  <2>3. \A m, n \in 1 .. c : new[m].id = new[n].id => m = n
    BY <1>8, <2>1 DEF Unique
  <2>4. \A r \in ToSet(rules) : IsNew(r) => \E n \in 1 .. c : new[n] = r
    BY <1>8, <2>1, <2>2
  <2> QED BY <2>1, <2>3, <2>4, Elements
<1> HIDE DEF I, new
<1>10. /\ added \in Seq(AppRules) /\ Len(added) = c
       /\ \A n \in 1 .. c : added[n].rule = new[n] /\ added[n].profile = ProfileFor(d, new[n])
  <2>1. \A n \in 1 .. c : [rule |-> new[n], profile |-> ProfileFor(d, new[n])] \in AppRules
    BY <1>3, <1>9, ProfileForIs DEF AppRules
  <2>2. DOMAIN new = 1 .. c /\ c \in Nat
    BY <1>7
  <2> HIDE DEF c
  <2> QED BY <2>1, <2>2
<1>11. c \in Nat
  BY <1>7
<1> HIDE DEF first, added, c, Update
<1>12. /\ u.rules \in Seq(AppRules) /\ Len(u.rules) = l + c /\ DOMAIN u.rules = 1 .. l + c
       /\ \A i \in 1 .. l : u.rules[i] = Update(i)
       /\ \A n \in 1 .. c : u.rules[l + n] = added[n]
  <2>1. u.rules \in Seq(AppRules) /\ Len(u.rules) = l + c
    BY <1>1, <1>6, <1>10, ConcatProperties
  <2>2. \A k \in 1 .. l + c : u.rules[k] = IF k <= l THEN first[k] ELSE added[k - l]
    BY <1>1, <1>6, <1>10, ConcatProperties
  <2>3. \A i \in 1 .. l : i \in 1 .. l + c /\ i <= l
    BY <1>11
  <2>4. \A n \in 1 .. c : l + n \in 1 .. l + c /\ ~(l + n <= l) /\ (l + n) - l = n
    BY <1>11
  <2>5. \A i \in 1 .. l : u.rules[i] = Update(i)
    BY <2>2, <2>3, <1>6
  <2>6. \A n \in 1 .. c : u.rules[l + n] = added[n]
    BY <2>2, <2>4
  <2> QED BY <2>1, <2>5, <2>6
<1>13. \A k \in DOMAIN u.rules : k \in 1 .. l \/ \E n \in 1 .. c : k = l + n
  <2> SUFFICES ASSUME NEW k \in 1 .. l + c, k \notin 1 .. l PROVE \E n \in 1 .. c : k = l + n
    BY <1>12
  <2>1. k - l \in 1 .. c /\ k = l + (k - l)
    BY <1>11
  <2> QED BY <2>1
<1>14. u \in Documents
  <2>1. u.profiles \in Tables
    BY <1>1, <1>2, WithIs
  <2>2. u.rules \in Seq(AppRules)
    BY <1>12
  <2> QED BY <1>1, <2>1, <2>2 DEF Documents, Tables
<1>15. Distinct(u.rules)
  <2> SUFFICES ASSUME NEW i \in DOMAIN u.rules, NEW j \in DOMAIN u.rules,
                      u.rules[i].rule.id = u.rules[j].rule.id
               PROVE  i = j
    BY DEF Distinct
  <2>1. \A k \in 1 .. l : u.rules[k].rule.id = d.rules[k].rule.id
    BY <1>4, <1>5, <1>12
  <2>2. \A n \in 1 .. c : u.rules[l + n].rule = new[n]
                             /\ \A k \in 1 .. l : d.rules[k].rule.id # new[n].id
    BY <1>5, <1>9, <1>10, <1>12
  <2>3. CASE i \in 1 .. l /\ j \in 1 .. l
    BY <2>1, <2>3, <1>5 DEF Distinct
  <2>4. CASE i \in 1 .. l /\ j \notin 1 .. l
    BY <2>1, <2>2, <2>4, <1>13
  <2>5. CASE i \notin 1 .. l /\ j \in 1 .. l
    BY <2>1, <2>2, <2>5, <1>13
  <2>6. CASE i \notin 1 .. l /\ j \notin 1 .. l
    BY <2>2, <2>6, <1>9, <1>13
  <2> QED BY <2>3, <2>4, <2>5, <2>6
<1>17. ASSUME NEW r \in ToSet(rules)
       PROVE  \E k \in DOMAIN u.rules : u.rules[k].rule = r /\ u.rules[k].profile = ProfileFor(d, r)
  <2>1. CASE IsNew(r)
    <3>1. PICK n \in 1 .. c : new[n] = r
      BY <2>1, <1>9
    <3>2. l + n \in DOMAIN u.rules
      BY <1>11, <1>12
    <3> QED BY <3>1, <3>2, <1>10, <1>12
  <2>2. CASE ~IsNew(r)
    <3>1. PICK i \in DOMAIN d.rules : d.rules[i].rule.id = r.id
      BY <2>2
    <3>2. i \in DOMAIN u.rules /\ u.rules[i] = Update(i)
      BY <1>5, <1>11, <1>12
    <3>3. Update(i).rule = r /\ Update(i).profile = d.rules[i].profile
      BY <3>1, <1>4
    <3>4. ProfileFor(d, r) = d.rules[i].profile
      BY <3>1, <1>3, ProfileForIs
    <3> QED BY <3>2, <3>3, <3>4
  <2> QED BY <2>1, <2>2
<1>18. \A i \in DOMAIN d.rules : i \in DOMAIN u.rules /\ u.rules[i] = Update(i)
  BY <1>5, <1>11, <1>12
<1> QED BY <1>1, <1>4, <1>14, <1>15, <1>17, <1>18 DEF u, Updates

\* The same for window_rules.json: what it has for the others comes first.
Merges(old, s, rules, m) ==
    LET l == Len(Others(old, s))
    IN  /\ m \in Seq(OldRules) /\ l \in 0 .. Len(m)
        /\ \A k \in 1 .. l : k \in DOMAIN m /\ m[k] = Others(old, s)[k]
        /\ \A n \in DOMAIN rules : /\ l + n \in DOMAIN m /\ l + n \notin 1 .. l
                                   /\ m[l + n].rule = rules[n] /\ m[l + n].scope = s
        /\ \A k \in DOMAIN m \ (1 .. l) : \E n \in DOMAIN rules :
              k = l + n /\ m[k].rule = rules[n] /\ m[k].scope = s

LEMMA MergedIs ==
    ASSUME NEW old \in Seq(OldRules) \cup {None}, NEW s \in Scopes, NEW rules \in Seq(Rules)
    PROVE  Merges(old, s, rules, Merged(old, s, rules))
<1> DEFINE o == Others(old, s)
           r == [i \in DOMAIN rules |-> [rule |-> rules[i], scope |-> s]]
           m == Merged(old, s, rules)
<1>1. o \in Seq(OldRules)
  BY OthersIs
<1>2. r \in Seq(OldRules) /\ Len(r) = Len(rules) /\ DOMAIN r = DOMAIN rules
      /\ \A n \in DOMAIN rules : r[n] = [rule |-> rules[n], scope |-> s]
  <2>1. \A n \in DOMAIN rules : [rule |-> rules[n], scope |-> s] \in OldRules
    BY DEF OldRules, Scopes
  <2> QED BY <2>1
<1>3. m = o \o r
  BY DEF Merged
<1> HIDE DEF o, r, m
<1>4. PICK l \in Nat : l = Len(o)
  BY <1>1
<1>5. m \in Seq(OldRules) /\ Len(m) = l + Len(rules)
      /\ \A k \in 1 .. l + Len(rules) : m[k] = IF k <= l THEN o[k] ELSE r[k - l]
  BY <1>1, <1>2, <1>3, <1>4, ConcatProperties
<1>6. Len(rules) \in Nat /\ DOMAIN rules = 1 .. Len(rules)
  OBVIOUS
<1>7. DOMAIN m = 1 .. l + Len(rules)
  BY <1>5
<1>8. l \in 0 .. Len(m) /\ \A k \in 1 .. l : k \in DOMAIN m /\ m[k] = o[k]
  BY <1>5, <1>6, <1>7
<1>9. \A n \in DOMAIN rules : /\ l + n \in DOMAIN m /\ l + n \notin 1 .. l
                              /\ m[l + n] = [rule |-> rules[n], scope |-> s]
  <2> TAKE n \in DOMAIN rules
  <2>1. l + n \in 1 .. l + Len(rules) /\ l + n \notin 1 .. l /\ ~(l + n <= l) /\ (l + n) - l = n
    BY <1>6
  <2> QED BY <2>1, <1>2, <1>5, <1>7
<1>10. \A k \in DOMAIN m \ (1 .. l) : \E n \in DOMAIN rules : k = l + n
  <2> TAKE k \in DOMAIN m \ (1 .. l)
  <2>1. k - l \in 1 .. Len(rules) /\ k = l + (k - l)
    BY <1>6, <1>7
  <2> QED BY <2>1, <1>6
<1>11. \A n \in DOMAIN rules : m[l + n].rule = rules[n] /\ m[l + n].scope = s
  <2> TAKE n \in DOMAIN rules
  <2>1. m[l + n] = [rule |-> rules[n], scope |-> s]
    BY <1>9
  <2> QED BY <2>1
<1>12. \A k \in DOMAIN m \ (1 .. l) : \E n \in DOMAIN rules :
          k = l + n /\ m[k].rule = rules[n] /\ m[k].scope = s
  BY <1>10, <1>11
<1> QED BY <1>4, <1>5, <1>8, <1>9, <1>11, <1>12 DEF m, o, Merges

\* A rule of old keeps its id when windowd migrates it.
LEMMA MigratedIs ==
    ASSUME NEW old \in Seq(OldRules), Distinct(old)
    PROVE  Migrated(old) \in Documents /\ Distinct(Migrated(old).rules)
<1> DEFINE of(n, dev) == {i \in DOMAIN old : old[i].rule.id = n /\ old[i].scope[1] = dev}
           last(I)    == CHOOSE i \in I : \A j \in I : j <= i
           rules      == [i \in DOMAIN old |-> [rule |-> old[i].rule, profile |-> old[i].rule.id]]
           preset(n, dev) == IF of(n, dev) = {} THEN None ELSE old[last(of(n, dev))].scope[2]
           profiles   == [n \in Profiles |-> [dev \in Devices |-> preset(n, dev)]]
<1>1. Migrated(old) = [rules |-> rules, profiles |-> profiles]
  BY DEF Migrated
<1>2. \A i \in DOMAIN old : old[i].rule \in Rules /\ old[i].scope[2] \in Presets
  <2>1. \A x \in OldRules : x.rule \in Rules /\ x.scope[2] \in Presets
    BY DEF OldRules
  <2> QED BY <2>1
<1>3. \A n, dev : preset(n, dev) \in Presets \cup {None}
  <2> TAKE n, dev
  <2>1. CASE of(n, dev) # {}
    <3>1. PICK i : i \in of(n, dev)
      BY <2>1
    <3>2. \A j \in of(n, dev) : j <= i
      BY <3>1 DEF Distinct
    <3>3. last(of(n, dev)) \in of(n, dev)
      <4> HIDE DEF of
      <4> QED BY <3>1, <3>2
    <3> QED BY <3>3, <1>2
  <2> QED BY <2>1
<1>4. rules \in Seq(AppRules)
  <2>1. \A i \in DOMAIN old : [rule |-> old[i].rule, profile |-> old[i].rule.id] \in AppRules
    BY <1>2 DEF AppRules, Rules, Profiles
  <2> QED BY <2>1
<1>5. profiles \in Tables
  <2> HIDE DEF preset
  <2> QED BY <1>3 DEF Tables
<1>6. Distinct(rules)
  BY DEF Distinct
<1> HIDE DEF rules, profiles
<1> QED BY <1>1, <1>4, <1>5, <1>6 DEF Documents, Tables

\* Binding a preset to a window writes one rule, that of the window.
LEMMA BoundIs ==
    ASSUME NEW d \in Documents, Distinct(d.rules), NEW w \in Windows, NEW s \in Scopes
    PROVE  Bound(d, w, s) \in Documents /\ Distinct(Bound(d, w, s).rules)
<1> DEFINE b == Bound(d, w, s)
           known == {i \in DOMAIN d.rules : d.rules[i].rule.id = w}
<1>1. /\ d.rules \in Seq(AppRules) /\ d.profiles \in Tables
      /\ AppRule(w) \in AppRules /\ AppRule(w).rule.id = w
  BY DocumentIs, ValuesOfForms
<1>2. /\ b.rules = IF known = {} THEN Append(d.rules, AppRule(w))
                   ELSE [i \in DOMAIN d.rules |-> IF i \in known THEN AppRule(w) ELSE d.rules[i]]
      /\ b.profiles = With(d.profiles, {AppProfile(w)}, s)
      /\ b = [rules |-> b.rules, profiles |-> b.profiles]
  BY DEF Bound
<1> HIDE DEF b
<1>3. b.profiles \in Tables
  BY <1>1, <1>2, WithIs
<1>4. b.rules \in Seq(AppRules) /\ Distinct(b.rules)
  <2>1. CASE known = {}
    <3>1. b.rules = Append(d.rules, AppRule(w)) /\ \A i \in DOMAIN d.rules : d.rules[i].rule.id # w
      BY <1>2, <2>1
    <3>2. /\ b.rules \in Seq(AppRules) /\ DOMAIN b.rules = 1 .. Len(d.rules) + 1
          /\ DOMAIN d.rules = 1 .. Len(d.rules) /\ Len(d.rules) \in Nat
          /\ \A i \in DOMAIN d.rules : b.rules[i] = d.rules[i]
          /\ b.rules[Len(d.rules) + 1].rule.id = w
      BY <1>1, <3>1
    <3>3. \A i \in DOMAIN b.rules : i \in DOMAIN d.rules \/ i = Len(d.rules) + 1
      BY <3>2
    <3> QED BY <3>1, <3>2, <3>3 DEF Distinct
  <2>2. CASE known # {}
    <3> DEFINE new(i) == IF i \in known THEN AppRule(w) ELSE d.rules[i]
    <3>1. b.rules = [i \in DOMAIN d.rules |-> new(i)]
      BY <1>2, <2>2
    <3>2. \A i \in DOMAIN d.rules : new(i) \in AppRules /\ new(i).rule.id = d.rules[i].rule.id
      BY <1>1
    <3> HIDE DEF new
    <3> QED BY <1>1, <3>1, <3>2 DEF Distinct
  <2> QED BY <2>1, <2>2
<1> QED BY <1>2, <1>3, <1>4 DEF b, Documents, Tables

LEMMA ExistingIs ==
    ASSUME NEW d \in Documents \cup {None}, d # None => Distinct(d.rules)
    PROVE  Existing(d) \in Documents /\ Distinct(Existing(d).rules)
<1> DEFINE empty == [rules |-> <<>>, profiles |-> [n \in Profiles |-> Unbound]]
<1>1. <<>> \in Seq(AppRules) /\ [n \in Profiles |-> Unbound] \in Tables
  BY DEF Unbound, Tables
<1>2. empty \in Documents /\ Distinct(empty.rules)
  BY <1>1 DEF Documents, Tables, Distinct
<1> HIDE DEF empty
<1>3. Existing(d) = IF d = None THEN empty ELSE d
  BY DEF Existing, empty
<1> QED BY <1>2, <1>3

-----------------------------------------------------------------------------
(***************************************************************************)
(* The invariant.                                                          *)
(***************************************************************************)
TypeOK ==
    /\ doc \in Documents \cup {None} /\ legacy \in Seq(OldRules) \cup {None}
    /\ active \in Scopes
    /\ open \in BOOLEAN /\ (open => scope \in Scopes)
    /\ dialog \in Dialogs

\* The dialog shows its rules, and has those that nobody has touched.
Faithful == open => Shown(dialog) /\ Covers(asLoaded, dialog.rules)

\* An id is that of one rule in each file, and of one in the dialog.  As long as there is no
\* profiles.json, a rule of the dialog never has the id of a rule for another preset.
Identified ==
    /\ doc # None => Distinct(doc.rules)
    /\ Distinct(Lines(legacy))
    /\ open => Unique(dialog.rules)
    /\ open /\ doc = None =>
          \A i \in DOMAIN Lines(legacy) :
             Lines(legacy)[i].scope # scope => Lines(legacy)[i].rule.id \notin IdsOf(dialog.rules)

Inv == TypeOK /\ Faithful /\ Identified

\* Ids of sequences of rules, of which nothing, one more or one fewer is there.
LEMMA SameIds ==
    ASSUME NEW s \in Seq(Rules), NEW t \in Seq(Rules), DOMAIN t = DOMAIN s, Unique(s),
           \A i \in DOMAIN s : t[i].id = s[i].id
    PROVE  Unique(t) /\ IdsOf(t) = IdsOf(s)
<1>1. Unique(t)
  BY DEF Unique
<1>2. IdsOf(t) = {t[i].id : i \in DOMAIN t} /\ IdsOf(s) = {s[i].id : i \in DOMAIN s}
  BY DEF IdsOf, ToSet
<1> QED BY <1>1, <1>2

LEMMA MoreIds ==
    ASSUME NEW s \in Seq(Rules), NEW i \in 1 .. Len(s) + 1, NEW e \in Rules, Unique(s),
           e.id \notin IdsOf(s)
    PROVE  /\ InsertAt(s, i, e) \in Seq(Rules) /\ i \in DOMAIN InsertAt(s, i, e)
           /\ ToSet(s) \subseteq ToSet(InsertAt(s, i, e))
           /\ Unique(InsertAt(s, i, e))
           /\ \A x \in IdsOf(InsertAt(s, i, e)) : x \in IdsOf(s) \/ x = e.id
<1> DEFINE t == InsertAt(s, i, e)
           back(k) == IF k < i THEN k ELSE k - 1
<1>1. /\ t \in Seq(Rules) /\ Len(t) = Len(s) + 1 /\ t[i] = e
      /\ \A j \in DOMAIN s : t[IF j < i THEN j ELSE j + 1] = s[j]
      /\ \A k \in DOMAIN t \ {i} : t[k] = s[back(k)]
  BY Inserted
<1> HIDE DEF t
<1>2. /\ DOMAIN s = 1 .. Len(s) /\ DOMAIN t = 1 .. Len(s) + 1 /\ Len(s) \in Nat /\ i \in DOMAIN t
  BY <1>1
<1>3. \A k \in DOMAIN t \ {i} : back(k) \in DOMAIN s
  BY <1>2
<1>4. \A k, m \in DOMAIN t \ {i} : back(k) = back(m) => k = m
  BY <1>2
<1>5. \A j \in DOMAIN s : (IF j < i THEN j ELSE j + 1) \in DOMAIN t
  BY <1>2
<1>6. ToSet(s) \subseteq ToSet(t)
  BY <1>1, <1>5 DEF ToSet
<1> HIDE DEF back
<1>7. \A j \in DOMAIN s : s[j].id \in IdsOf(s)
  BY DEF IdsOf, ToSet
<1>8. Unique(t)
  <2> SUFFICES ASSUME NEW k \in DOMAIN t, NEW m \in DOMAIN t, t[k].id = t[m].id PROVE k = m
    BY DEF Unique
  <2>1. CASE k # i /\ m # i
    <3>1. back(k) \in DOMAIN s /\ back(m) \in DOMAIN s /\ s[back(k)].id = s[back(m)].id
      BY <1>1, <1>3, <2>1
    <3> QED BY <3>1, <1>4, <2>1 DEF Unique
  <2>2. CASE k = i /\ m # i
    BY <1>1, <1>3, <1>7, <2>2
  <2>3. CASE k # i /\ m = i
    BY <1>1, <1>3, <1>7, <2>3
  <2> QED BY <2>1, <2>2, <2>3
<1>9. \A x \in IdsOf(t) : x \in IdsOf(s) \/ x = e.id
  <2>1. \A k \in DOMAIN t : t[k].id \in IdsOf(s) \/ t[k].id = e.id
    BY <1>1, <1>3, <1>7
  <2> QED BY <2>1 DEF IdsOf, ToSet
<1> QED BY <1>1, <1>2, <1>6, <1>8, <1>9 DEF t

LEMMA FewerIds ==
    ASSUME NEW s \in Seq(Rules), NEW i \in 1 .. Len(s), Unique(s)
    PROVE  /\ RemoveAt(s, i) \in Seq(Rules)
           /\ ToSet(s) \ {s[i]} \subseteq ToSet(RemoveAt(s, i))
           /\ Unique(RemoveAt(s, i))
           /\ IdsOf(RemoveAt(s, i)) \subseteq IdsOf(s)
<1> DEFINE t == RemoveAt(s, i)
           to(k) == IF k < i THEN k ELSE k + 1
<1>1. /\ t \in Seq(Rules) /\ Len(t) = Len(s) - 1
      /\ \A j \in DOMAIN s \ {i} : t[IF j < i THEN j ELSE j - 1] = s[j]
      /\ \A k \in DOMAIN t : t[k] = s[to(k)]
  BY Removed
<1> HIDE DEF t
<1>2. /\ DOMAIN s = 1 .. Len(s) /\ DOMAIN t = 1 .. Len(s) - 1 /\ Len(s) \in Nat
  BY <1>1
<1>3. \A k \in DOMAIN t : to(k) \in DOMAIN s
  BY <1>2
<1>4. \A k, m \in DOMAIN t : to(k) = to(m) => k = m
  BY <1>2
<1>5. \A j \in DOMAIN s \ {i} : (IF j < i THEN j ELSE j - 1) \in DOMAIN t
  BY <1>2
<1>6. ToSet(s) \ {s[i]} \subseteq ToSet(t)
  BY <1>1, <1>5 DEF ToSet
<1> HIDE DEF to
<1>7. Unique(t)
  BY <1>1, <1>3, <1>4 DEF Unique
<1>8. IdsOf(t) \subseteq IdsOf(s)
  BY <1>1, <1>3 DEF IdsOf, ToSet
<1> QED BY <1>1, <1>6, <1>7, <1>8 DEF t

\* A new id is none of those in the dialog and the files.
LEMMA NewIdIsNew ==
    ASSUME Unused # {}
    PROVE  /\ NewId \in Ids /\ NewId \notin IdsOf(dialog.rules)
           /\ \A i \in DOMAIN Lines(legacy) : Lines(legacy)[i].rule.id # NewId
<1>1. NewId \in Unused
  BY DEF NewId
<1> QED BY <1>1 DEF Unused

\* What the user does in the dialog leaves the files alone, and only brings new ids.
LEMMA DialogKeeps ==
    ASSUME Inv, open, UNCHANGED <<files, windowd, active, open, scope>>,
           dialog' \in Dialogs, Shown(dialog'), Covers(asLoaded', dialog'.rules),
           Unique(dialog'.rules),
           \A x \in IdsOf(dialog'.rules) : x \in IdsOf(dialog.rules) \/ (Unused # {} /\ x = NewId)
    PROVE  Inv'
<1>1. TypeOK'
  BY DEF Inv, TypeOK, files
<1>2. Faithful'
  BY DEF Faithful
<1>3. /\ doc' = doc /\ legacy' = legacy /\ open' = open /\ scope' = scope
      /\ Lines(legacy') = Lines(legacy)
  BY DEF files
<1>4. doc = None => \A i \in DOMAIN Lines(legacy) :
          Lines(legacy)[i].scope # scope => Lines(legacy)[i].rule.id \notin IdsOf(dialog'.rules)
  BY NewIdIsNew DEF Inv, Identified
<1>5. Identified'
  BY <1>3, <1>4 DEF Inv, Identified
<1> QED BY <1>1, <1>2, <1>5 DEF Inv

-----------------------------------------------------------------------------
(***************************************************************************)
(* Every step keeps the invariant.                                         *)
(***************************************************************************)
LEMMA InitImpliesInv ==
    ASSUME Init
    PROVE  Inv
<1>1. PICK f \in InitialFiles : doc = f.doc /\ legacy = f.legacy
  BY DEF Init
<1>2. /\ doc \in Documents \cup {None} /\ (doc # None => Distinct(doc.rules))
      /\ legacy \in Seq(OldRules) \cup {None} /\ (legacy # None => Distinct(legacy))
  BY <1>1, RulesAssumption
<1>3. Default(None).values \in Values
  BY ValuesOfForms
<1>4. dialog \in Dialogs
  BY <1>3 DEF Init, Dialogs
<1>5. TypeOK
  BY <1>2, <1>4 DEF Init, TypeOK, Scopes
<1>6. Distinct(Lines(legacy))
  BY <1>2 DEF Lines, Distinct
<1>7. Faithful /\ Identified
  BY <1>2, <1>6 DEF Init, Faithful, Identified
<1> QED BY <1>5, <1>7 DEF Inv

\* The rules that are left when others are touched.
Untouched(rules) == {r \in asLoaded : \A e \in rules : e.id # r.id}

\* The dialog when it is open, and when the form has been written back.
LEMMA OpenDialog ==
    ASSUME Inv, open
    PROVE  /\ dialog \in Dialogs /\ Shown(dialog) /\ dialog.rules \in Seq(Rules)
           /\ Unique(dialog.rules) /\ Covers(asLoaded, dialog.rules)
           /\ dialog.sel # 0 => dialog.sel \in DOMAIN dialog.rules
           /\ \A i \in DOMAIN dialog.rules : /\ dialog.rules[i] \in Rules
                                             /\ dialog.rules[i].values \in Values
<1>1. /\ dialog \in Dialogs /\ Shown(dialog) /\ Unique(dialog.rules)
      /\ Covers(asLoaded, dialog.rules)
  BY DEF Inv, TypeOK, Faithful, Identified
<1>2. dialog.rules \in Seq(Rules)
  BY <1>1 DEF Dialogs
<1>3. \A i \in DOMAIN dialog.rules : dialog.rules[i] \in Rules
  BY <1>2
<1>4. \A r \in Rules : r.values \in Values
  BY DEF Rules
<1> QED BY <1>1, <1>2, <1>3, <1>4 DEF Shown

LEMMA CollectedDialog ==
    ASSUME Inv, open
    PROVE  LET c == Collect(dialog)
           IN  /\ c \in Dialogs /\ Shown(c) /\ c.rules \in Seq(Rules) /\ c.sel = dialog.sel
               /\ Unique(c.rules) /\ Covers(asLoaded, c.rules)
               /\ IdsOf(c.rules) = IdsOf(dialog.rules)
               /\ DOMAIN c.rules = DOMAIN dialog.rules /\ Len(c.rules) = Len(dialog.rules)
               /\ \A i \in DOMAIN dialog.rules : /\ c.rules[i] \in Rules
                                                 /\ c.rules[i].values \in Values
                                                 /\ c.rules[i].id = dialog.rules[i].id
<1> DEFINE c == Collect(dialog)
<1>1. /\ dialog \in Dialogs /\ Shown(dialog) /\ dialog.rules \in Seq(Rules)
      /\ Unique(dialog.rules) /\ Covers(asLoaded, dialog.rules)
  BY OpenDialog
<1>2. c \in Dialogs /\ Alike(dialog.rules, c.rules) /\ c.sel = dialog.sel /\ Shown(c)
  BY <1>1, CollectIs
<1> HIDE DEF c
<1>3. c.rules \in Seq(Rules) /\ DOMAIN c.rules = DOMAIN dialog.rules
  BY <1>2 DEF Alike
<1>4. /\ \A i \in DOMAIN dialog.rules : c.rules[i] \in Rules /\ c.rules[i].id = dialog.rules[i].id
      /\ Unique(c.rules) /\ Covers(asLoaded, c.rules) /\ IdsOf(c.rules) = IdsOf(dialog.rules)
  BY <1>1, <1>2, AlikeKeeps
<1>5. Len(c.rules) = Len(dialog.rules)
  BY <1>1, <1>3
<1>6. \A r \in Rules : r.values \in Values
  BY DEF Rules
<1> QED BY <1>2, <1>3, <1>4, <1>5, <1>6 DEF c

\* New values for one rule spoil no other.
LEMMA RewriteKeeps ==
    ASSUME NEW d \in Dialogs, Unique(d.rules), Covers(asLoaded, d.rules),
           NEW i \in DOMAIN d.rules, NEW v \in Values
    PROVE  LET e == [d EXCEPT !.rules[i].values = v]
           IN  /\ e \in Dialogs /\ e.sel = d.sel /\ e.form = d.form
               /\ DOMAIN e.rules = DOMAIN d.rules /\ e.rules[i].values = v
               /\ Unique(e.rules) /\ IdsOf(e.rules) = IdsOf(d.rules)
               /\ \A x : x.id = d.rules[i].id => Covers(Untouched({x}), e.rules)
<1> DEFINE e == [d EXCEPT !.rules[i].values = v]
<1>1. /\ e \in Dialogs /\ e.sel = d.sel /\ e.form = d.form
      /\ DOMAIN e.rules = DOMAIN d.rules /\ e.rules[i].values = v
      /\ \A j \in DOMAIN d.rules : e.rules[j].id = d.rules[j].id
      /\ \A j \in DOMAIN d.rules \ {i} : e.rules[j] = d.rules[j]
  BY Rewritten
<1> HIDE DEF e
<1>2. e.rules \in Seq(Rules) /\ d.rules \in Seq(Rules)
  BY <1>1 DEF Dialogs
<1>3. Unique(e.rules) /\ IdsOf(e.rules) = IdsOf(d.rules)
  BY <1>1, <1>2, SameIds
<1>4. ASSUME NEW x, x.id = d.rules[i].id PROVE Covers(Untouched({x}), e.rules)
  <2>1. Untouched({x}) \subseteq asLoaded /\ asLoaded \subseteq Rules
    BY DEF Untouched, Covers
  <2> SUFFICES ASSUME NEW r \in Untouched({x})
               PROVE  r \in ToSet(e.rules) \/ Seen(r) \in ToSet(e.rules)
    BY <2>1 DEF Covers
  <2>2. r \in Rules /\ r.id # d.rules[i].id /\ Seen(r).id = r.id
    BY <1>4, <2>1, ClampedIs DEF Untouched
  <2>3. PICK j \in DOMAIN d.rules : d.rules[j] = r \/ d.rules[j] = Seen(r)
    BY <2>1 DEF Covers, ToSet
  <2>4. j # i
    BY <2>2, <2>3
  <2>5. e.rules[j] = d.rules[j] /\ e.rules[j] \in ToSet(e.rules)
    BY <1>1, <2>3, <2>4 DEF ToSet
  <2> QED BY <2>3, <2>5
<1> QED BY <1>1, <1>3, <1>4 DEF e

\* Neither does a new one.
LEMMA InsertKeeps ==
    ASSUME Unused # {}, NEW d \in Dialogs, Unique(d.rules), Covers(asLoaded, d.rules),
           IdsOf(d.rules) = IdsOf(dialog.rules),
           NEW i \in 1 .. Len(d.rules) + 1, NEW e \in Rules, e.id = NewId
    PROVE  LET n == Select(Rebuild(Forget(Insert(d, i, e))), i)
           IN  /\ n \in Dialogs /\ Shown(n) /\ Covers(asLoaded, n.rules) /\ Unique(n.rules)
               /\ \A x \in IdsOf(n.rules) : x \in IdsOf(dialog.rules) \/ x = NewId
<1> DEFINE s == InsertAt(d.rules, i, e)
           f == Forget(Insert(d, i, e))
           b == Rebuild(f)
           n == Select(b, i)
<1>1. d.rules \in Seq(Rules)
  BY DEF Dialogs
<1>2. /\ s \in Seq(Rules) /\ i \in DOMAIN s /\ ToSet(d.rules) \subseteq ToSet(s) /\ Unique(s)
      /\ \A x \in IdsOf(s) : x \in IdsOf(dialog.rules) \/ x = NewId
  BY <1>1, NewIdIsNew, MoreIds
<1>3. f = [[d EXCEPT !.rules = s] EXCEPT !.sel = 0]
  BY DEF Forget, Insert
<1> HIDE DEF s, f
<1>4. f \in Dialogs /\ f.rules = s /\ f.sel = 0
  BY <1>2, <1>3 DEF Dialogs
<1>5. b \in Dialogs /\ b.rules = s /\ Shown(b)
  BY <1>4, RebuildKeeps
<1> HIDE DEF b
<1>6. n \in Dialogs /\ Alike(s, n.rules) /\ Shown(n)
  BY <1>2, <1>5, SelectKeeps
<1> HIDE DEF n
<1>7. Covers(asLoaded, s)
  BY <1>2 DEF Covers
<1>8. Unique(n.rules) /\ IdsOf(n.rules) = IdsOf(s) /\ Covers(asLoaded, n.rules)
  BY <1>2, <1>6, <1>7, AlikeKeeps
<1> QED BY <1>2, <1>6, <1>8 DEF n, b, f

LEMMA SelectRowKeeps ==
    ASSUME Inv, NEW i, SelectRow(i)
    PROVE  Inv'
<1>1. /\ open /\ i \in DOMAIN dialog.rules /\ dialog' = Select(dialog, i) /\ asLoaded' = asLoaded
      /\ UNCHANGED <<files, windowd, active, open, scope>>
  BY DEF SelectRow, InDialog
<1>2. /\ dialog \in Dialogs /\ Shown(dialog) /\ dialog.rules \in Seq(Rules)
      /\ Unique(dialog.rules) /\ Covers(asLoaded, dialog.rules)
  BY <1>1, OpenDialog
<1>3. dialog' \in Dialogs /\ Alike(dialog.rules, dialog'.rules) /\ Shown(dialog')
  BY <1>1, <1>2, SelectKeeps
<1>4. /\ Unique(dialog'.rules) /\ IdsOf(dialog'.rules) = IdsOf(dialog.rules)
      /\ Covers(asLoaded', dialog'.rules)
  BY <1>1, <1>2, <1>3, AlikeKeeps
<1> QED BY <1>1, <1>3, <1>4, DialogKeeps

LEMMA ChangeDetailKeeps ==
    ASSUME Inv, ChangeDetail
    PROVE  Inv'
<1>1. /\ open /\ dialog.sel # 0 /\ asLoaded' = Untouched({Selected})
      /\ UNCHANGED <<files, windowd, active, open, scope>>
  BY DEF ChangeDetail, Edit, InDialog, Untouched
<1>2. PICK form \in Changes(dialog.form) : dialog' = Collect([dialog EXCEPT !.form = form])
  BY DEF ChangeDetail
<1>3. /\ dialog \in Dialogs /\ dialog.sel \in DOMAIN dialog.rules
      /\ Unique(dialog.rules) /\ Covers(asLoaded, dialog.rules)
  BY <1>1, OpenDialog
<1>4. form \in Values /\ form = Clamped(form)
  <2>1. dialog.form \in Values /\ dialog.form = Clamped(dialog.form)
    <3>1. dialog.form = Clamped(Selected.values) /\ Selected.values \in Values
      BY <1>1, <1>3, OpenDialog DEF Shown, Selected
    <3> QED BY <3>1, ClampedIs
  <2> QED BY <1>2, <2>1, ChangesAreSeen
<1> DEFINE d == [dialog EXCEPT !.form = form]
           e == [d EXCEPT !.rules[dialog.sel].values = form]
<1>5. d \in Dialogs /\ d.rules = dialog.rules /\ d.sel = dialog.sel /\ d.form = form
  BY <1>3, <1>4 DEF Dialogs
<1> HIDE DEF d
<1>6. dialog' = e
  BY <1>2, <1>3, <1>5 DEF Collect, d
<1>7. /\ e \in Dialogs /\ e.sel = d.sel /\ e.form = d.form
      /\ DOMAIN e.rules = DOMAIN dialog.rules /\ e.rules[dialog.sel].values = form
      /\ Unique(e.rules) /\ IdsOf(e.rules) = IdsOf(dialog.rules)
      /\ Covers(Untouched({Selected}), e.rules)
  <2>1. PICK i \in DOMAIN d.rules : i = dialog.sel
    BY <1>3, <1>5
  <2>2. Unique(d.rules) /\ Covers(asLoaded, d.rules) /\ Selected.id = d.rules[i].id
    BY <1>3, <1>5, <2>1 DEF Selected
  <2>3. LET n == [d EXCEPT !.rules[i].values = form]
        IN  /\ n \in Dialogs /\ n.sel = d.sel /\ n.form = d.form
            /\ DOMAIN n.rules = DOMAIN d.rules /\ n.rules[i].values = form
            /\ Unique(n.rules) /\ IdsOf(n.rules) = IdsOf(d.rules)
            /\ \A x : x.id = d.rules[i].id => Covers(Untouched({x}), n.rules)
    BY <1>4, <1>5, <2>2, RewriteKeeps
  <2> QED BY <1>5, <2>1, <2>2, <2>3
<1> HIDE DEF e
<1>8. Shown(dialog')
  BY <1>3, <1>4, <1>5, <1>6, <1>7 DEF Shown, Dialogs
<1> QED BY <1>1, <1>6, <1>7, <1>8, DialogKeeps

LEMMA ToggleRowKeeps ==
    ASSUME Inv, NEW i, ToggleRow(i)
    PROVE  Inv'
<1> DEFINE v == [dialog.rules[i].values EXCEPT !.enabled = ~@]
           e == [dialog EXCEPT !.rules[i].values = v]
<1>1. /\ open /\ i \in DOMAIN dialog.rules /\ asLoaded' = Untouched({dialog.rules[i]})
      /\ UNCHANGED <<files, windowd, active, open, scope>>
  BY DEF ToggleRow, Edit, InDialog, Untouched
<1>2. dialog' = Fill(e)
  BY DEF ToggleRow
<1>3. /\ dialog \in Dialogs /\ v \in Values /\ Unique(dialog.rules)
      /\ Covers(asLoaded, dialog.rules)
  BY <1>1, OpenDialog, ValuesOfForms
<1> HIDE DEF v
<1>4. /\ e \in Dialogs /\ e.sel = dialog.sel
      /\ DOMAIN e.rules = DOMAIN dialog.rules
      /\ Unique(e.rules) /\ IdsOf(e.rules) = IdsOf(dialog.rules)
      /\ Covers(Untouched({dialog.rules[i]}), e.rules)
  BY <1>1, <1>3, RewriteKeeps
<1> HIDE DEF e
<1>5. dialog.sel \in DOMAIN dialog.rules
  BY <1>1, OpenDialog DEF Shown
<1>6. /\ dialog' \in Dialogs /\ dialog'.rules = e.rules /\ dialog'.sel = dialog.sel
      /\ dialog'.form = Clamped(e.rules[dialog.sel].values)
  BY <1>2, <1>4, <1>5, FillIs
<1>7. Shown(dialog')
  BY <1>4, <1>5, <1>6 DEF Shown
<1> QED BY <1>1, <1>4, <1>6, <1>7, DialogKeeps

LEMMA CaptureKeeps ==
    ASSUME Inv, NEW w \in Windows, Capture(w)
    PROVE  Inv'
<1> DEFINE i == dialog.sel
           c == Collect(dialog)
           v == [c.rules[i].values EXCEPT !.match["window_class_equals"] = w]
           e == [c EXCEPT !.rules[i].values = v]
<1>1. /\ open /\ i # 0 /\ asLoaded' = Untouched({Selected})
      /\ UNCHANGED <<files, windowd, active, open, scope>>
  BY DEF Capture, Edit, InDialog, Untouched
<1>2. /\ c \in Dialogs /\ c.sel = i /\ Unique(c.rules) /\ Covers(asLoaded, c.rules)
      /\ IdsOf(c.rules) = IdsOf(dialog.rules) /\ i \in DOMAIN c.rules
      /\ c.rules[i].values \in Values /\ c.rules[i].id = Selected.id
  BY <1>1, OpenDialog, CollectedDialog DEF Selected
<1>3. dialog' = Fill(e)
  BY <1>2 DEF Capture
<1> HIDE DEF c
<1>4. v \in Values
  BY <1>2, ValuesOfForms DEF Fields, Texts
<1> HIDE DEF v
<1>5. /\ e \in Dialogs /\ e.sel = i
      /\ DOMAIN e.rules = DOMAIN c.rules
      /\ Unique(e.rules) /\ IdsOf(e.rules) = IdsOf(dialog.rules)
      /\ Covers(Untouched({Selected}), e.rules)
  <2>1. PICK j \in DOMAIN c.rules : j = i
    BY <1>2
  <2>2. LET n == [c EXCEPT !.rules[j].values = v]
        IN  /\ n \in Dialogs /\ n.sel = c.sel
            /\ DOMAIN n.rules = DOMAIN c.rules
            /\ Unique(n.rules) /\ IdsOf(n.rules) = IdsOf(c.rules)
            /\ \A x : x.id = c.rules[j].id => Covers(Untouched({x}), n.rules)
    BY <1>2, <1>4, RewriteKeeps
  <2> QED BY <1>2, <2>1, <2>2
<1> HIDE DEF e
<1>6. /\ dialog' \in Dialogs /\ dialog'.rules = e.rules /\ dialog'.sel = i
      /\ dialog'.form = Clamped(e.rules[i].values)
  BY <1>2, <1>3, <1>5, FillIs
<1>7. Shown(dialog')
  BY <1>2, <1>5, <1>6 DEF Shown
<1> QED BY <1>1, <1>5, <1>6, <1>7, DialogKeeps

LEMMA AddKeeps ==
    ASSUME Inv, Add
    PROVE  Inv'
<1>1. /\ open /\ Unused # {} /\ asLoaded' = asLoaded
      /\ UNCHANGED <<files, windowd, active, open, scope>>
      /\ dialog' = AddRule(dialog, NewId)
  BY DEF Add, Edit, InDialog
<1> DEFINE c == Collect(dialog)
           i == Len(dialog.rules) + 1
           e == Default(NewId)
           n == Select(Rebuild(Forget(Insert(c, i, e))), i)
<1>2. /\ c \in Dialogs /\ c.rules \in Seq(Rules) /\ Unique(c.rules) /\ Covers(asLoaded, c.rules)
      /\ IdsOf(c.rules) = IdsOf(dialog.rules) /\ Len(c.rules) = Len(dialog.rules)
  BY <1>1, CollectedDialog
<1>3. dialog' = n
  BY <1>1 DEF AddRule
<1> HIDE DEF c
<1>4. i \in 1 .. Len(c.rules) + 1 /\ e \in Rules /\ e.id = NewId
  BY <1>1, <1>2, NewIdIsNew, ValuesOfForms
<1> HIDE DEF i, e
<1>5. /\ n \in Dialogs /\ Shown(n) /\ Covers(asLoaded, n.rules) /\ Unique(n.rules)
      /\ \A x \in IdsOf(n.rules) : x \in IdsOf(dialog.rules) \/ x = NewId
  BY <1>1, <1>2, <1>4, InsertKeeps
<1> HIDE DEF n
<1> QED BY <1>1, <1>3, <1>5, DialogKeeps

LEMMA DuplicateKeeps ==
    ASSUME Inv, Duplicate
    PROVE  Inv'
<1>1. /\ open /\ dialog.sel # 0 /\ Unused # {} /\ asLoaded' = asLoaded
      /\ UNCHANGED <<files, windowd, active, open, scope>>
      /\ dialog' = DuplicateRule(dialog, NewId)
  BY DEF Duplicate, Edit, InDialog
<1> DEFINE c == Collect(dialog)
           i == c.sel + 1
           e == [c.rules[c.sel] EXCEPT !.id = NewId]
           n == Select(Rebuild(Forget(Insert(c, i, e))), i)
<1>2. /\ c \in Dialogs /\ c.rules \in Seq(Rules) /\ Unique(c.rules) /\ Covers(asLoaded, c.rules)
      /\ IdsOf(c.rules) = IdsOf(dialog.rules)
      /\ c.sel \in DOMAIN c.rules /\ c.rules[c.sel] \in Rules
  BY <1>1, OpenDialog, CollectedDialog
<1>3. dialog' = n
  BY <1>1 DEF DuplicateRule
<1> HIDE DEF c
<1>4. i \in 1 .. Len(c.rules) + 1
  BY <1>2
<1>5. e \in Rules /\ e.id = NewId
  BY <1>1, <1>2, NewIdIsNew DEF Rules
<1> HIDE DEF i, e
<1>6. /\ n \in Dialogs /\ Shown(n) /\ Covers(asLoaded, n.rules) /\ Unique(n.rules)
      /\ \A x \in IdsOf(n.rules) : x \in IdsOf(dialog.rules) \/ x = NewId
  BY <1>1, <1>2, <1>4, <1>5, InsertKeeps
<1> HIDE DEF n
<1> QED BY <1>1, <1>3, <1>6, DialogKeeps

LEMMA DeleteKeeps ==
    ASSUME Inv, Delete
    PROVE  Inv'
<1>1. /\ open /\ dialog.sel # 0 /\ asLoaded' = Untouched({Selected})
      /\ UNCHANGED <<files, windowd, active, open, scope>>
      /\ dialog' = DeleteRule(dialog)
  BY DEF Delete, Edit, InDialog, Untouched
<1> DEFINE c == Collect(dialog)
           s == RemoveAt(c.rules, c.sel)
           f == [[c EXCEPT !.rules = s] EXCEPT !.sel = 0]
<1>2. /\ c \in Dialogs /\ c.rules \in Seq(Rules) /\ Unique(c.rules) /\ Covers(asLoaded, c.rules)
      /\ IdsOf(c.rules) = IdsOf(dialog.rules)
      /\ c.sel \in DOMAIN c.rules /\ c.rules[c.sel].id = Selected.id
  BY <1>1, OpenDialog, CollectedDialog DEF Selected
<1>3. dialog' = Rebuild(f)
  BY <1>1 DEF DeleteRule, Forget
<1> HIDE DEF c
<1>4. /\ s \in Seq(Rules) /\ ToSet(c.rules) \ {c.rules[c.sel]} \subseteq ToSet(s)
      /\ Unique(s) /\ IdsOf(s) \subseteq IdsOf(dialog.rules)
  <2>1. c.sel \in 1 .. Len(c.rules)
    BY <1>2
  <2> QED BY <2>1, <1>2, FewerIds
<1>5. Covers(Untouched({Selected}), s)
  <2> HIDE DEF s
  <2>1. Untouched({Selected}) \subseteq asLoaded /\ asLoaded \subseteq Rules
    BY <1>2 DEF Untouched, Covers
  <2> SUFFICES ASSUME NEW x \in Untouched({Selected}) PROVE x \in ToSet(s) \/ Seen(x) \in ToSet(s)
    BY <2>1 DEF Covers
  <2>2. x \in Rules /\ x.id # c.rules[c.sel].id /\ Seen(x).id = x.id
    BY <1>2, <2>1, ClampedIs DEF Untouched
  <2>3. x \in ToSet(c.rules) \/ Seen(x) \in ToSet(c.rules)
    BY <1>2, <2>1 DEF Covers
  <2> QED BY <1>4, <2>2, <2>3
<1> HIDE DEF s
<1>6. f \in Dialogs /\ f.rules = s /\ f.sel = 0
  BY <1>2, <1>4 DEF Dialogs
<1> HIDE DEF f
<1>7. dialog' \in Dialogs /\ dialog'.rules = s /\ Shown(dialog')
  BY <1>3, <1>6, RebuildKeeps
<1> QED BY <1>1, <1>4, <1>5, <1>7, DialogKeeps

LEMMA OpenKeeps ==
    ASSUME Inv, Open
    PROVE  Inv'
<1> DEFINE found == RulesFor(doc, legacy, active)
           rules == IF found = <<>> THEN <<Default(NewId)>> ELSE found
           f     == Forget([dialog EXCEPT !.rules = rules])
<1>1. /\ open' = TRUE /\ scope' = active /\ asLoaded' = ToSet(rules)
      /\ found = <<>> => Unused # {}
      /\ dialog' = Rebuild(f)
      /\ doc' = doc /\ legacy' = legacy /\ active' = active
  BY DEF Open, files
<1>2. /\ doc \in Documents \cup {None} /\ legacy \in Seq(OldRules) \cup {None} /\ active \in Scopes
      /\ dialog \in Dialogs
  BY DEF Inv, TypeOK
<1>3. (doc # None => Distinct(doc.rules)) /\ Distinct(Lines(legacy))
  BY DEF Inv, Identified
<1>4. /\ found \in Seq(Rules) /\ Unique(found)
      /\ doc = None => \A x \in ToSet(found) : \E i \in DOMAIN Lines(legacy) :
                          Lines(legacy)[i].scope = active /\ x = Lines(legacy)[i].rule
  <2>1. Finds(doc, legacy, active, found)
    BY <1>2, RulesForIs
  <2> HIDE DEF found
  <2> QED BY <2>1, <1>3 DEF Finds
<1> HIDE DEF found
<1>5. /\ rules \in Seq(Rules) /\ Unique(rules)
      /\ doc = None => \A i \in DOMAIN Lines(legacy) :
            Lines(legacy)[i].scope # active => Lines(legacy)[i].rule.id \notin IdsOf(rules)
  <2>1. CASE found = <<>>
    <3>1. Default(NewId) \in Rules /\ Default(NewId).id = NewId /\ rules = <<Default(NewId)>>
      BY <1>1, <2>1, NewIdIsNew, ValuesOfForms
    <3>2. IdsOf(rules) = {NewId}
      BY <3>1 DEF IdsOf, ToSet
    <3> QED BY <1>1, <2>1, <3>1, <3>2, NewIdIsNew DEF Unique
  <2>2. CASE found # <<>>
    <3>1. rules = found
      BY <2>2
    <3>2. ASSUME doc = None, NEW i \in DOMAIN Lines(legacy), Lines(legacy)[i].scope # active
          PROVE  Lines(legacy)[i].rule.id \notin IdsOf(found)
      <4> SUFFICES ASSUME NEW x \in ToSet(found), x.id = Lines(legacy)[i].rule.id PROVE FALSE
        BY DEF IdsOf
      <4>1. PICK j \in DOMAIN Lines(legacy) :
               Lines(legacy)[j].scope = active /\ x = Lines(legacy)[j].rule
        BY <1>4, <3>2
      <4>2. i = j
        BY <4>1, <1>3 DEF Distinct
      <4> QED BY <4>1, <4>2, <3>2
    <3> QED BY <1>4, <3>1, <3>2
  <2> QED BY <2>1, <2>2
<1>6. f = [[dialog EXCEPT !.rules = rules] EXCEPT !.sel = 0]
  BY DEF Forget
<1> HIDE DEF rules, f
<1>7. f \in Dialogs /\ f.rules = rules /\ f.sel = 0
  BY <1>2, <1>5, <1>6 DEF Dialogs
<1>8. dialog' \in Dialogs /\ dialog'.rules = rules /\ Shown(dialog')
  BY <1>1, <1>7, RebuildKeeps
<1>9. TypeOK'
  BY <1>1, <1>2, <1>8 DEF TypeOK
<1>10. Faithful'
  <2>1. Covers(ToSet(rules), rules)
    BY <1>5, Elements DEF Covers
  <2> QED BY <1>1, <1>8, <2>1 DEF Faithful
<1>11. Identified'
  BY <1>1, <1>3, <1>5, <1>8 DEF Identified, Lines
<1> QED BY <1>9, <1>10, <1>11 DEF Inv

\* A dialog that is hidden.
LEMMA HiddenKeeps ==
    ASSUME NEW d \in Dialogs, Hide(d)
    PROVE  open' = FALSE /\ dialog' \in Dialogs
<1>1. <<>> \in Seq(Rules)
  OBVIOUS
<1>2. [d EXCEPT !.rules = <<>>] \in Dialogs
  BY <1>1 DEF Dialogs
<1> QED BY <1>2 DEF Hide

LEMMA CancelKeeps ==
    ASSUME Inv, Cancel
    PROVE  Inv'
<1>1. /\ Hide(dialog) /\ doc' = doc /\ legacy' = legacy /\ active' = active
  BY DEF Cancel, files
<1>2. open' = FALSE /\ dialog' \in Dialogs
  BY <1>1, HiddenKeeps DEF Inv, TypeOK
<1>3. TypeOK'
  BY <1>1, <1>2 DEF Inv, TypeOK
<1>4. Faithful' /\ Identified'
  BY <1>1, <1>2 DEF Inv, Faithful, Identified, Lines
<1> QED BY <1>3, <1>4 DEF Inv

\* When the rules are saved, the dialog is hidden, and one of the files is written.
LEMMA StoredIs ==
    ASSUME Inv, SaveRules, open' = FALSE
    PROVE  LET rules == Collect(dialog).rules
           IN  /\ scope \in Scopes /\ rules \in Seq(Rules) /\ Unique(rules)
               /\ IdsOf(rules) = IdsOf(dialog.rules)
               /\ Hide(Collect(dialog)) /\ active' = active
               /\ doc # None => doc' = Upserted(doc, scope, rules) /\ legacy' = legacy
               /\ doc = None => legacy' = Merged(legacy, scope, rules) /\ doc' = doc
<1>1. open /\ open' # open
  BY DEF SaveRules
<1>2. /\ Hide(Collect(dialog)) /\ active' = active
      /\ IF Profiled(doc)
         THEN doc' = Upserted(doc, scope, Collect(dialog).rules) /\ UNCHANGED legacy
         ELSE legacy' = Merged(legacy, scope, Collect(dialog).rules) /\ UNCHANGED doc
  BY <1>1 DEF SaveRules
<1> QED BY <1>1, <1>2, CollectedDialog DEF Profiled, Inv, TypeOK

LEMMA SaveRulesKeeps ==
    ASSUME Inv, SaveRules
    PROVE  Inv'
<1> DEFINE c == Collect(dialog)
<1>1. /\ open /\ c \in Dialogs /\ Shown(c) /\ Unique(c.rules) /\ Covers(asLoaded, c.rules)
      /\ IdsOf(c.rules) = IdsOf(dialog.rules)
  BY CollectedDialog DEF SaveRules
<1>2. CASE open' = open
  <2>1. dialog' = c /\ UNCHANGED <<files, open, scope, asLoaded, windowd, active>>
    BY <1>1, <1>2 DEF SaveRules, Hide
  <2> HIDE DEF c
  <2>2. TypeOK'
    BY <1>1, <2>1 DEF Inv, TypeOK, files
  <2>3. Faithful'
    BY <1>1, <2>1 DEF Faithful
  <2>4. Identified'
    BY <1>1, <2>1 DEF Inv, Identified, files, Lines
  <2> QED BY <2>2, <2>3, <2>4 DEF Inv
<1>3. CASE open' # open
  <2>1. open' = FALSE
    BY <1>1, <1>3 DEF SaveRules, Hide
  <2> DEFINE rules == c.rules
  <2>2. /\ scope \in Scopes /\ rules \in Seq(Rules) /\ Unique(rules)
        /\ Hide(c) /\ active' = active
        /\ doc # None => doc' = Upserted(doc, scope, rules) /\ legacy' = legacy
        /\ doc = None => legacy' = Merged(legacy, scope, rules) /\ doc' = doc
    BY <2>1, StoredIs
  <2>3. dialog' \in Dialogs
    BY <1>1, <2>2, HiddenKeeps
  <2> HIDE DEF c
  <2>4. /\ doc \in Documents \cup {None} /\ legacy \in Seq(OldRules) \cup {None}
        /\ doc # None => Distinct(doc.rules)
        /\ Distinct(Lines(legacy))
    BY DEF Inv, TypeOK, Identified
  <2>5. CASE doc # None
    <3>1. doc \in Documents /\ Distinct(doc.rules)
      BY <2>4, <2>5
    <3>2. Updates(doc, scope, rules, doc')
      BY <2>2, <2>5, <3>1, UpsertedIs
    <3>3. doc' \in Documents /\ Distinct(doc'.rules) /\ legacy' = legacy
      BY <2>2, <2>5, <3>2 DEF Updates
    <3> QED BY <2>1, <2>2, <2>3, <2>4, <3>3, RulesAssumption
           DEF Inv, TypeOK, Faithful, Identified, Lines
  <2>6. CASE doc = None
    <3> DEFINE l == Len(Others(legacy, scope))
    <3>8. Merges(legacy, scope, rules, legacy')
      BY <2>2, <2>4, <2>6, MergedIs
    <3>1. /\ legacy' \in Seq(OldRules)
          /\ \A k \in 1 .. l : legacy'[k] = Others(legacy, scope)[k]
          /\ \A k \in DOMAIN legacy' \ (1 .. l) : \E n \in DOMAIN rules :
                k = l + n /\ legacy'[k].rule = rules[n]
      BY <3>8 DEF Merges
    <3>2. /\ Others(legacy, scope) \in Seq(OldRules) /\ Distinct(Others(legacy, scope))
          /\ \A k \in 1 .. l : /\ Others(legacy, scope)[k].scope # scope
                               /\ \E i \in DOMAIN Lines(legacy) :
                                     Others(legacy, scope)[k] = Lines(legacy)[i]
      BY <2>2, <2>4, OthersIs
    <3> HIDE DEF l
    <3>3. \A k \in 1 .. l : legacy'[k].rule.id \notin IdsOf(rules)
      BY <1>1, <2>6, <3>1, <3>2 DEF Inv, Identified
    <3>4. \A k \in DOMAIN legacy' \ (1 .. l) : \E n \in DOMAIN rules :
             k = l + n /\ legacy'[k].rule.id = rules[n].id
      BY <3>1
    <3>5. \A n \in DOMAIN rules : rules[n].id \in IdsOf(rules)
      BY DEF IdsOf, ToSet
    <3>6. Distinct(legacy')
      <4> SUFFICES ASSUME NEW i \in DOMAIN legacy', NEW j \in DOMAIN legacy',
                          legacy'[i].rule.id = legacy'[j].rule.id
                   PROVE  i = j
        BY DEF Distinct
      <4>1. CASE i \in 1 .. l /\ j \in 1 .. l
        <5>1. i \in DOMAIN Others(legacy, scope) /\ j \in DOMAIN Others(legacy, scope)
          BY <3>2, <4>1 DEF l
        <5> QED BY <3>1, <3>2, <4>1, <5>1 DEF Distinct
      <4>2. CASE i \in 1 .. l /\ j \notin 1 .. l
        BY <3>3, <3>4, <3>5, <4>2
      <4>3. CASE i \notin 1 .. l /\ j \in 1 .. l
        BY <3>3, <3>4, <3>5, <4>3
      <4>4. CASE i \notin 1 .. l /\ j \notin 1 .. l
        BY <2>2, <3>4, <4>4 DEF Unique
      <4> QED BY <4>1, <4>2, <4>3, <4>4
    <3>7. Lines(legacy') = legacy'
      BY <3>1, RulesAssumption DEF Lines
    <3> QED BY <2>1, <2>2, <2>3, <2>4, <2>6, <3>1, <3>6, <3>7 DEF Inv, TypeOK, Faithful, Identified
  <2> QED BY <2>5, <2>6
<1> QED BY <1>2, <1>3

\* What windowd does happens to the files, and to the preset that is active.
LEMMA WindowdKeeps ==
    ASSUME Inv, UNCHANGED <<legacy, shown>>, active' \in Scopes,
           \/ doc' = doc
           \/ doc' \in Documents /\ Distinct(doc'.rules)
    PROVE  Inv'
<1>1. /\ open' = open /\ scope' = scope /\ dialog' = dialog /\ asLoaded' = asLoaded
      /\ legacy' = legacy /\ Lines(legacy') = Lines(legacy)
  BY DEF shown
<1>2. doc' \in Documents \cup {None} /\ (doc' # None => Distinct(doc'.rules))
      /\ (doc' = None => doc = None)
  BY RulesAssumption DEF Inv, TypeOK, Identified
<1>3. TypeOK'
  BY <1>1, <1>2 DEF Inv, TypeOK
<1>4. Faithful'
  BY <1>1 DEF Inv, Faithful
<1>5. Identified'
  BY <1>1, <1>2 DEF Inv, Identified
<1> QED BY <1>3, <1>4, <1>5 DEF Inv

LEMMA WindowdStepsKeep ==
    ASSUME Inv, Windowd
    PROVE  Inv'
<1>1. active \in Scopes /\ doc \in Documents \cup {None} /\ (doc # None => Distinct(doc.rules))
      /\ legacy \in Seq(OldRules) \cup {None} /\ Distinct(Lines(legacy))
  BY DEF Inv, TypeOK, Identified
<1>2. CASE WindowdStarts
  <2>1. CASE doc = None /\ legacy # None
    <3>1. legacy \in Seq(OldRules) /\ Distinct(legacy)
      BY <1>1, <2>1 DEF Lines
    <3>2. doc' = Migrated(legacy) /\ UNCHANGED <<legacy, active, shown>>
      BY <1>2, <2>1 DEF WindowdStarts
    <3> QED BY <1>1, <3>1, <3>2, MigratedIs, WindowdKeeps
  <2>2. CASE ~(doc = None /\ legacy # None)
    <3>1. doc' = doc /\ UNCHANGED <<legacy, active, shown>>
      BY <1>2, <2>2 DEF WindowdStarts
    <3> QED BY <1>1, <3>1, WindowdKeeps
  <2> QED BY <2>1, <2>2
<1>3. CASE WindowdEnds
  BY <1>1, <1>3, WindowdKeeps DEF WindowdEnds, files
<1>4. CASE WindowdSaves
  BY <1>1, <1>4, ExistingIs, WindowdKeeps DEF WindowdSaves
<1>5. ASSUME NEW s \in Devices \X Presets, SelectPreset(s) PROVE Inv'
  <2>1. doc' = doc /\ active' = s /\ UNCHANGED <<legacy, shown>>
    BY <1>5 DEF SelectPreset, files
  <2> QED BY <2>1, WindowdKeeps DEF Scopes
<1>6. ASSUME NEW w \in Windows, NEW s \in Bindings, BindPresetToCurrentApp(w, s) PROVE Inv'
  <2>1. doc' = Bound(Existing(doc), w, s) /\ UNCHANGED <<legacy, windowd, active, shown>>
    BY <1>6 DEF BindPresetToCurrentApp
  <2>2. s \in Scopes
    BY RulesAssumption DEF Scopes
  <2>3. Existing(doc) \in Documents /\ Distinct(Existing(doc).rules)
    BY <1>1, ExistingIs
  <2>4. doc' \in Documents /\ Distinct(doc'.rules)
    BY <2>1, <2>2, <2>3, BoundIs
  <2> QED BY <1>1, <2>1, <2>4, WindowdKeeps
<1> QED BY <1>2, <1>3, <1>4, <1>5, <1>6 DEF Windowd

LEMMA NextKeepsInv ==
    ASSUME Inv, [Next]_vars
    PROVE  Inv'
<1>1. CASE User
  BY <1>1, OpenKeeps, ChangeDetailKeeps, AddKeeps, DuplicateKeeps, DeleteKeeps, CancelKeeps,
     SaveRulesKeeps, SelectRowKeeps, ToggleRowKeeps, CaptureKeeps DEF User
<1>2. CASE Windowd
  BY <1>2, WindowdStepsKeep
<1>3. CASE UNCHANGED vars
  <2>1. UNCHANGED <<legacy, shown>> /\ doc' = doc /\ active' = active
    BY <1>3 DEF vars, files
  <2> QED BY <2>1, WindowdKeeps DEF Inv, TypeOK
<1> QED BY <1>1, <1>2, <1>3 DEF Next

LEMMA InvHolds == Spec => []Inv
<1>1. Init => Inv
  BY InitImpliesInv
<1>2. Inv /\ [Next]_vars => Inv'
  BY NextKeepsInv
<1> QED BY <1>1, <1>2, PTL DEF Spec

-----------------------------------------------------------------------------
(***************************************************************************)
(* The theorems.                                                           *)
(***************************************************************************)
\* What is typed into the form reaches the selected rule and no other, however rows are added,
\* removed, selected and switched.
THEOREM EditsStay == Spec => []EditsStayInTheirRule
<1>1. Inv => EditsStayInTheirRule
  BY DEF Inv, Faithful, Covers, Shown, EditsStayInTheirRule, Selected
<1> QED BY <1>1, InvHolds, PTL

LEMMA StoredIsSaved ==
    ASSUME Inv, Stored
    PROVE  SaveRules /\ open' = FALSE
<1>1. SaveRules /\ ~open' /\ open \in BOOLEAN /\ open
  BY DEF Stored, SaveRules, Inv, TypeOK
<1>2. open' = open \/ open' = FALSE
  BY <1>1 DEF SaveRules, Hide
<1> QED BY <1>1, <1>2

\* With a profiles.json, every rule of the dialog is for its preset afterwards, and the ones
\* which it does not have any more are disabled.
LEMMA UpsertedIsStored ==
    ASSUME NEW d \in Documents, Distinct(d.rules), NEW s \in Scopes,
           NEW rules \in Seq(Rules), Unique(rules)
    PROVE  LET u == Upserted(d, s, rules)
           IN  /\ \A r \in ToSet(rules) : \E k \in Targeting(u, s) : u.rules[k].rule = r
               /\ \A i \in Targeting(d, s) : d.rules[i].rule.id \notin IdsOf(rules) =>
                     \A k \in DOMAIN u.rules : u.rules[k].rule.id = d.rules[i].rule.id =>
                        ~u.rules[k].rule.values.enabled
<1> DEFINE u == Upserted(d, s, rules)
           names == {ProfileFor(d, r) : r \in ToSet(rules)}
<1>0. Updates(d, s, rules, u)
  BY UpsertedIs
<1> HIDE DEF u
<1>1. /\ u \in Documents /\ Distinct(u.rules) /\ u.profiles = With(d.profiles, names, s)
      /\ \A i \in DOMAIN d.rules :
            /\ i \in DOMAIN u.rules /\ u.rules[i].rule.id = d.rules[i].rule.id
            /\ i \in Dropped(d, s, rules) => ~u.rules[i].rule.values.enabled
      /\ \A r \in ToSet(rules) : \E k \in DOMAIN u.rules :
            u.rules[k].rule = r /\ u.rules[k].profile = ProfileFor(d, r)
  BY <1>0 DEF Updates
<1>2. \A n \in names \cap Profiles : u.profiles[n][s[1]] = s[2]
  BY <1>1, DocumentIs, WithIs
<1>3. ASSUME NEW r \in ToSet(rules) PROVE \E k \in Targeting(u, s) : u.rules[k].rule = r
  <2>1. PICK k \in DOMAIN u.rules : u.rules[k].rule = r /\ u.rules[k].profile = ProfileFor(d, r)
    BY <1>1
  <2>2. u.rules[k].profile \in names \cap Profiles
    BY <1>1, <2>1, DocumentIs
  <2>3. k \in Targeting(u, s)
    BY <1>2, <2>2 DEF Targeting, PresetOf
  <2> QED BY <2>1, <2>3
<1>4. ASSUME NEW i \in Targeting(d, s), d.rules[i].rule.id \notin IdsOf(rules),
             NEW k \in DOMAIN u.rules, u.rules[k].rule.id = d.rules[i].rule.id
      PROVE  ~u.rules[k].rule.values.enabled
  <2>1. i \in DOMAIN d.rules /\ i \in Dropped(d, s, rules)
    BY <1>4 DEF Dropped, Targeting
  <2>2. k = i
    BY <1>1, <1>4, <2>1 DEF Distinct
  <2> QED BY <1>1, <2>1, <2>2
<1> QED BY <1>3, <1>4 DEF u

\* Whoever opens the dialog again finds what was saved, and what was deleted is disabled.
THEOREM SavingStoresTheRules == Spec => SavedIsStored
<1> DEFINE before == ToSet(RulesFor(doc, legacy, scope))
           after  == ToSet(RulesFor(doc', legacy', scope))
           Kind   == /\ ToSet(Collect(dialog).rules) \subseteq after
                     /\ \A r \in before : r.id \notin IdsOf(dialog.rules) =>
                           \A s \in after : s.id = r.id => ~s.values.enabled
<1>1. ASSUME Inv, Stored PROVE Kind
  <2> DEFINE rules == Collect(dialog).rules
  <2>1. /\ scope \in Scopes /\ rules \in Seq(Rules) /\ Unique(rules)
        /\ IdsOf(rules) = IdsOf(dialog.rules)
        /\ doc # None => doc' = Upserted(doc, scope, rules) /\ legacy' = legacy
        /\ doc = None => legacy' = Merged(legacy, scope, rules) /\ doc' = doc
    BY <1>1, StoredIsSaved, StoredIs
  <2>6. IdsOf(rules) = IdsOf(dialog.rules) /\ ToSet(Collect(dialog).rules) = ToSet(rules)
    BY <2>1
  <2> HIDE DEF rules
  <2>2. /\ doc \in Documents \cup {None} /\ legacy \in Seq(OldRules) \cup {None}
        /\ doc # None => Distinct(doc.rules)
        /\ doc' \in Documents \cup {None} /\ legacy' \in Seq(OldRules) \cup {None}
    <3>1. Inv'
      BY <1>1, StoredIsSaved, SaveRulesKeeps
    <3> QED BY <1>1, <3>1 DEF Inv, TypeOK, Identified
  <2>3. /\ Finds(doc, legacy, scope, RulesFor(doc, legacy, scope))
        /\ Finds(doc', legacy', scope, RulesFor(doc', legacy', scope))
    BY <2>1, <2>2, RulesForIs
  <2>4. CASE doc # None
    <3> DEFINE u == Upserted(doc, scope, rules)
    <3>1. doc \in Documents /\ Distinct(doc.rules) /\ doc' = u
      BY <2>1, <2>2, <2>4
    <3>2. u \in Documents
      BY <2>1, <3>1, UpsertedIs DEF Updates
    <3>3. /\ \A r \in ToSet(rules) : \E k \in Targeting(u, scope) : u.rules[k].rule = r
          /\ \A i \in Targeting(doc, scope) : doc.rules[i].rule.id \notin IdsOf(rules) =>
                \A k \in DOMAIN u.rules : u.rules[k].rule.id = doc.rules[i].rule.id =>
                   ~u.rules[k].rule.values.enabled
      BY <2>1, <3>1, UpsertedIsStored
    <3> HIDE DEF u
    <3>4. doc' # None
      BY <3>1, <3>2, RulesAssumption
    <3>5. \A r \in before : \E i \in Targeting(doc, scope) : r = doc.rules[i].rule
      BY <2>3, <2>4 DEF Finds
    <3>6. \A r \in after : \E i \in Targeting(u, scope) : r = u.rules[i].rule
      BY <2>3, <3>1, <3>4 DEF Finds
    <3>7. \A i \in Targeting(u, scope) : i \in DOMAIN u.rules /\ u.rules[i].rule \in after
      BY <2>3, <3>1, <3>4 DEF Finds, Targeting
    <3> HIDE DEF before, after
    <3> QED BY <2>6, <3>3, <3>5, <3>6, <3>7
  <2>5. CASE doc = None
    <3> DEFINE l == Len(Others(legacy, scope))
    <3>9. Merges(legacy, scope, rules, legacy')
      BY <2>1, <2>2, <2>5, MergedIs
    <3>1. /\ legacy' \in Seq(OldRules)
          /\ \A k \in 1 .. l : k \in DOMAIN legacy' /\ legacy'[k] = Others(legacy, scope)[k]
          /\ \A n \in DOMAIN rules :
                /\ l + n \in DOMAIN legacy'
                /\ legacy'[l + n].rule = rules[n] /\ legacy'[l + n].scope = scope
          /\ \A k \in DOMAIN legacy' \ (1 .. l) : \E n \in DOMAIN rules :
                k = l + n /\ legacy'[k].rule = rules[n]
      BY <3>9 DEF Merges
    <3>2. \A k \in 1 .. l : Others(legacy, scope)[k].scope # scope
      <4>1. /\ Others(legacy, scope) \in Seq(OldRules)
            /\ \A k \in DOMAIN Others(legacy, scope) : Others(legacy, scope)[k].scope # scope
        BY <2>1, <2>2, OthersIs
      <4> QED BY <4>1
    <3> HIDE DEF l
    <3>3. Lines(legacy') = legacy' /\ doc' = None
      BY <2>1, <2>5, <3>1, RulesAssumption DEF Lines
    <3>4. \A r \in after : \E i \in DOMAIN legacy' : legacy'[i].scope = scope /\ r = legacy'[i].rule
      BY <2>3, <3>3 DEF Finds
    <3>5. \A i \in DOMAIN legacy' : legacy'[i].scope = scope => legacy'[i].rule \in after
      BY <2>3, <3>3 DEF Finds
    <3> HIDE DEF before, after
    <3>6. ASSUME NEW r \in after PROVE r \in ToSet(rules)
      <4>1. PICK i \in DOMAIN legacy' : legacy'[i].scope = scope /\ r = legacy'[i].rule
        BY <3>4
      <4>2. i \notin 1 .. l
        BY <3>1, <3>2, <4>1
      <4>3. PICK n \in DOMAIN rules : legacy'[i].rule = rules[n]
        BY <3>1, <4>2
      <4> QED BY <4>1, <4>3 DEF ToSet
    <3>7. ASSUME NEW r \in ToSet(rules) PROVE r \in after
      <4>1. PICK n \in DOMAIN rules : rules[n] = r
        BY DEF ToSet
      <4>2. l + n \in DOMAIN legacy' /\ legacy'[l + n].scope = scope /\ legacy'[l + n].rule = r
        BY <3>1, <4>1
      <4> QED BY <3>5, <4>2
    <3>8. \A r \in ToSet(rules) : r.id \in IdsOf(rules)
      BY DEF IdsOf
    <3> QED BY <2>6, <3>6, <3>7, <3>8
  <2> QED BY <2>4, <2>5
<1>2. Inv /\ [Next]_vars => [Stored => Kind]_vars
  BY <1>1
<1>3. Spec => [][Stored => Kind]_vars
  BY <1>2, InvHolds, PTL DEF Spec
<1> QED BY <1>3 DEF SavedIsStored

\* Saving leaves alone what is neither in the dialog nor for its device and preset.
THEOREM SavingKeepsTheRest == Spec => UnrelatedAreKept
<1> DEFINE Kind ==
              IF doc = None
              THEN Others(legacy', scope) = Others(legacy, scope)
              ELSE /\ \A i \in DOMAIN doc.rules \ Targeting(doc, scope) :
                        doc.rules[i].rule.id \notin IdsOf(dialog.rules) =>
                           doc'.rules[i] = doc.rules[i]
                   /\ \A n \in Profiles, d \in Devices \ {scope[1]} :
                        doc'.profiles[n][d] = doc.profiles[n][d]
<1>1. ASSUME Inv, Stored PROVE Kind
  <2> DEFINE rules == Collect(dialog).rules
  <2>1. /\ scope \in Scopes /\ rules \in Seq(Rules) /\ Unique(rules)
        /\ IdsOf(rules) = IdsOf(dialog.rules)
        /\ doc # None => doc' = Upserted(doc, scope, rules) /\ legacy' = legacy
        /\ doc = None => legacy' = Merged(legacy, scope, rules) /\ doc' = doc
    BY <1>1, StoredIsSaved, StoredIs
  <2>6. IdsOf(rules) = IdsOf(dialog.rules) /\ ToSet(Collect(dialog).rules) = ToSet(rules)
    BY <2>1
  <2> HIDE DEF rules
  <2>2. /\ doc \in Documents \cup {None} /\ legacy \in Seq(OldRules) \cup {None}
        /\ doc # None => Distinct(doc.rules)
    BY <1>1 DEF Inv, TypeOK, Identified
  <2>3. CASE doc # None
    <3> DEFINE u == Upserted(doc, scope, rules)
               names == {ProfileFor(doc, r) : r \in ToSet(rules)}
    <3>1. doc \in Documents /\ Distinct(doc.rules) /\ doc' = u
      BY <2>1, <2>2, <2>3
    <3>4. Updates(doc, scope, rules, u)
      BY <2>1, <3>1, UpsertedIs
    <3> HIDE DEF u
    <3>2. /\ u.profiles = With(doc.profiles, names, scope)
          /\ \A i \in DOMAIN doc.rules :
                doc.rules[i].rule.id \notin IdsOf(rules) /\ i \notin Targeting(doc, scope)
                   => u.rules[i] = doc.rules[i]
      BY <3>4 DEF Updates
    <3>3. \A n \in Profiles, d \in Devices \ {scope[1]} : u.profiles[n][d] = doc.profiles[n][d]
      BY <2>1, <3>1, <3>2, DocumentIs, WithIs
    <3> QED BY <2>3, <2>6, <3>1, <3>2, <3>3
  <2>4. CASE doc = None
    <3> DEFINE o == Others(legacy, scope)
               l == Len(o)
               I == {k \in DOMAIN legacy' : legacy'[k].scope # scope}
    <3>11. Merges(legacy, scope, rules, legacy')
      BY <2>1, <2>2, <2>4, MergedIs
    <3>1. /\ legacy' \in Seq(OldRules) /\ l \in 0 .. Len(legacy')
          /\ \A k \in 1 .. l : k \in DOMAIN legacy' /\ legacy'[k] = o[k]
          /\ \A k \in DOMAIN legacy' \ (1 .. l) : legacy'[k].scope = scope
      BY <3>11 DEF Merges
    <3>2. o \in Seq(OldRules) /\ \A k \in 1 .. l : o[k].scope # scope
      BY <2>1, <2>2, OthersIs
    <3>3. Lines(legacy') = legacy'
      BY <3>1, RulesAssumption DEF Lines
    <3> HIDE DEF o, l
    <3>4. I = 1 .. l
      BY <3>1, <3>2
    <3>5. Others(legacy', scope) = Kept(legacy', 1 .. l)
      BY <3>3, <3>4 DEF Others
    <3>7. Kept(legacy', 1 .. l) = SubSeq(legacy', 1, l)
      BY <3>1, KeptFirst
    <3>8. SubSeq(legacy', 1, l) = [k \in 1 .. l |-> legacy'[k]]
      BY <3>1
    <3>9. o = [k \in 1 .. l |-> o[k]]
      BY <3>2 DEF l
    <3>10. [k \in 1 .. l |-> legacy'[k]] = [k \in 1 .. l |-> o[k]]
      BY <3>1
    <3> QED BY <2>4, <3>5, <3>7, <3>8, <3>9, <3>10 DEF o
  <2> QED BY <2>3, <2>4
<1>2. Inv /\ [Next]_vars => [Stored => Kind]_vars
  BY <1>1
<1>3. Spec => [][Stored => Kind]_vars
  BY <1>2, InvHolds, PTL DEF Spec
<1> QED BY <1>3 DEF UnrelatedAreKept
=============================================================================
