------------------------- MODULE WindowDaemonProofs -------------------------
(***************************************************************************)
(* Theorems about WindowDaemon, for all windows, devices and contents of   *)
(* profiles.json.                                                          *)
(***************************************************************************)
EXTENDS WindowDaemon, SequenceTheorems, WellFoundedInduction, TLAPS

-----------------------------------------------------------------------------
(* What is remembered of the devices.                                      *)

Memories ==
    [applied : [Devices -> Presets \cup {None}], managed : SUBSET Devices,
     automation : [Devices -> BOOLEAN], injecting : [Devices -> Presets \cup {None}],
     touched : SUBSET Devices]

\* Only devices with automation are managed, only those that are managed have a preset
\* applied, and what is applied is injected unless others took the device.
Sound(s) ==
    /\ s \in Memories
    /\ \A dev \in s.managed : s.automation[dev]
    /\ \A dev \in Devices :
          s.applied[dev] # None =>
              dev \in s.managed /\ (dev \notin s.touched => s.injecting[dev] = s.applied[dev])

HasDesktop(d) == d \in Documents /\ Desktop \in DOMAIN d.profiles

TypeOK ==
    /\ window \in Windows \cup {NoWindow}
    /\ {debounce, grace, unread} \subseteq BOOLEAN
    /\ HasDesktop(doc)

\* The grace timer only runs while no window has the focus.
GraceMeansNoWindow == grace => window = NoWindow

\* With no timer running and the file unchanged, every device that no call failed for has
\* what _apply_profile would give it.
Reconciled ==
    Settled /\ (window # NoWindow \/ managed # {}) =>
        \A dev \in Devices \ Disturbed :
            applied[dev] = Wanted(doc, TargetProfile(doc, window), Now, dev)

Inv == TypeOK /\ Sound(Now) /\ GraceMeansNoWindow /\ Reconciled

-----------------------------------------------------------------------------
\* Of numbered things with a priority, one comes before all others: otherwise there would be
\* a least n such that none of those up to n does.
LEMMA AFirstExists ==
    ASSUME NEW m \in Nat, NEW H \in SUBSET (1..m), H # {}, NEW priority \in [H -> Nat]
    PROVE  \E i \in H : \A j \in H : \/ priority[i] > priority[j]
                                     \/ priority[i] = priority[j] /\ i <= j
<1> DEFINE First(i, j) == priority[i] > priority[j] \/ (priority[i] = priority[j] /\ i <= j)
           UpTo(n) == {i \in H : i <= n}
           Has(n) == \E i \in UpTo(n) : \A j \in UpTo(n) : First(i, j)
           bad == {n \in Nat : UpTo(n) # {} /\ ~Has(n)}
<1>1. /\ \A i \in H : i \in Nat /\ i > 0 /\ i <= m /\ priority[i] \in Nat
      /\ \A n \in Nat : n \in bad <=> UpTo(n) # {} /\ ~Has(n)
      /\ bad \subseteq Nat
  OBVIOUS
<1>2. \A n \in Nat : \A i : i \in UpTo(n) <=> i \in H /\ i <= n
  OBVIOUS
<1>3. \A n : Has(n) <=> \E i \in UpTo(n) : \A j \in UpTo(n) : First(i, j)
  OBVIOUS
<1>4. /\ \A i \in H : First(i, i)
      /\ \A i, j, k \in H : First(i, j) /\ First(j, k) => First(i, k)
      /\ \A i, j \in H : First(i, j) \/ First(j, i)
  <2>1. ASSUME NEW i \in H, NEW j \in H, NEW k \in H
        PROVE  /\ First(i, i) /\ (First(i, j) \/ First(j, i))
               /\ First(i, j) /\ First(j, k) => First(i, k)
    <3>1. /\ i \in Nat /\ j \in Nat /\ k \in Nat
          /\ priority[i] \in Nat /\ priority[j] \in Nat /\ priority[k] \in Nat
      BY <1>1
    <3> QED BY <3>1
  <2> HIDE DEF First
  <2> QED BY <2>1
<1>5. UpTo(m) = H
  BY <1>1
<1> HIDE DEF bad, UpTo, Has, First
<1>6. bad = {}
  <2> SUFFICES ASSUME bad # {} PROVE FALSE
    OBVIOUS
  <2>1. PICK n \in bad : \A k \in bad : ~(<<k, n>> \in OpToRel(<, Nat))
    BY <1>1, WFMin, NatLessThanWellFounded
  <2>2. n \in Nat /\ \A k \in bad : k \in Nat /\ ~(k < n)
    BY <1>1, <2>1 DEF OpToRel
  <2>3. UpTo(n) # {} /\ ~Has(n)
    BY <1>1, <2>2
  <2>4. n # 0
    <3>1. PICK i : i \in UpTo(n)
      BY <2>3
    <3>2. i \in H /\ i <= n /\ i \in Nat /\ i > 0
      BY <1>1, <1>2, <2>2, <3>1
    <3> QED BY <2>2, <3>2
  <2>5. n - 1 \in Nat /\ (UpTo(n - 1) = {} \/ Has(n - 1))
    BY <1>1, <2>2, <2>4
  <2>6. \A i : i \in UpTo(n) <=> i \in UpTo(n - 1) \/ (i = n /\ n \in H)
    <3> TAKE i
    <3>1. i \in H => (i <= n <=> i <= n - 1 \/ i = n)
      BY <1>1, <2>2
    <3>2. n \in H => n <= n
      BY <2>2
    <3> QED BY <1>2, <2>2, <2>5, <3>1, <3>2
  <2>7. CASE UpTo(n - 1) = {}
    <3>1. n \in UpTo(n) /\ n \in H /\ \A j \in UpTo(n) : j = n
      BY <2>3, <2>6, <2>7
    <3> QED BY <1>3, <1>4, <2>3, <3>1
  <2>8. CASE Has(n - 1)
    <3>1. PICK i \in UpTo(n - 1) : \A j \in UpTo(n - 1) : First(i, j)
      BY <1>3, <2>8
    <3>2. UpTo(n - 1) \subseteq H
      BY <1>2, <2>5
    <3>3. CASE n \notin H \/ First(i, n)
      BY <1>3, <2>3, <2>6, <3>1, <3>3
    <3>4. CASE n \in H /\ ~First(i, n)
      <4>1. First(n, i) /\ First(n, n)
        BY <1>4, <3>1, <3>2, <3>4
      <4>2. \A j \in UpTo(n - 1) : First(n, j)
        BY <1>4, <3>1, <3>2, <3>4, <4>1
      <4> QED BY <1>3, <2>3, <2>6, <3>4, <4>1, <4>2
    <3> QED BY <3>3, <3>4
  <2> QED BY <2>5, <2>7, <2>8
<1>7. Has(m)
  BY <1>1, <1>5, <1>6
<1> QED BY <1>3, <1>5, <1>7 DEF First

Before(d, i, j) == \/ d.rules[i].priority > d.rules[j].priority
                   \/ d.rules[i].priority = d.rules[j].priority /\ i <= j

\* A document with a rule for the window has one that comes before all others.
LEMMA ABestRuleExists ==
    ASSUME NEW d \in Documents, NEW w, Hits(d, w) # {}
    PROVE  \E i \in Hits(d, w) : \A j \in Hits(d, w) : Before(d, i, j)
<1> DEFINE priority == [i \in Hits(d, w) |-> d.rules[i].priority]
<1>1. /\ Len(d.rules) \in Nat /\ Hits(d, w) \subseteq 1..Len(d.rules)
      /\ \A i \in Hits(d, w) : d.rules[i].priority \in Nat
  <2>1. d.rules \in Seq(RuleSet)
    BY DEF Documents
  <2>2. DOMAIN d.rules = 1..Len(d.rules) /\ Len(d.rules) \in Nat
    BY <2>1
  <2>3. \A i \in DOMAIN d.rules : d.rules[i] \in RuleSet
    BY <2>1, <2>2
  <2> QED BY <2>2, <2>3 DEF Hits, RuleSet
<1>2. priority \in [Hits(d, w) -> Nat]
  BY <1>1
<1>3. PICK i \in Hits(d, w) :
        \A j \in Hits(d, w) : \/ priority[i] > priority[j]
                              \/ priority[i] = priority[j] /\ i <= j
  <2> HIDE DEF priority
  <2>1. Hits(d, w) \in SUBSET (1..Len(d.rules)) /\ Len(d.rules) \in Nat /\ Hits(d, w) # {}
    BY <1>1
  <2> HIDE DEF Hits
  <2> QED BY <1>2, <2>1, AFirstExists, Zenon
<1> QED BY <1>3 DEF Before

USE WindowDaemonAssumption

-----------------------------------------------------------------------------
(* The documents.                                                          *)

LEMMA EntryType ==
    ASSUME NEW d, HasDesktop(d), NEW p, NEW dev \in Devices
    PROVE  Entry(d, p, dev) \in Presets \cup {Blank, None}
<1>1. \A q \in DOMAIN d.profiles : d.profiles[q] \in Entries
  BY DEF HasDesktop, Documents
<1> QED BY <1>1 DEF HasDesktop, Entry, Entries

LEMMA WantedType ==
    ASSUME NEW d, HasDesktop(d), NEW p, NEW s, NEW dev \in Devices
    PROVE  Wanted(d, p, s, dev) \in Presets \cup {None}
<1> QED BY EntryType DEF Wanted

\* A document with other profiles is one.
LEMMA ProfilesType ==
    ASSUME NEW S \in SUBSET ProfileNames, NEW f \in [S -> Entries]
    PROVE  f \in UNION {[T -> Entries] : T \in SUBSET ProfileNames}
<1> QED OBVIOUS

\* Binding an application leaves a document.
LEMMA BoundType ==
    ASSUME NEW d, HasDesktop(d), NEW w \in Windows, NEW dev \in Devices,
           NEW preset \in Presets \cup {Blank}
    PROVE  HasDesktop(Bound(d, w, dev, preset))
<1> DEFINE entry == IF w \in DOMAIN d.profiles THEN d.profiles[w] ELSE [x \in Devices |-> None]
           rule  == [id |-> SlugOf[w], matches |-> {w}, profile |-> w,
                     enabled |-> TRUE, priority |-> 1000]
           same  == {i \in DOMAIN d.rules : d.rules[i].id = rule.id}
           first == CHOOSE i \in same : \A j \in same : i <= j
           names == DOMAIN d.profiles \cup {w}
           bound == [n \in names |->
                        IF n = w THEN [entry EXCEPT ![dev] = preset] ELSE d.profiles[n]]
           rules == IF same = {} THEN Append(d.rules, rule) ELSE [d.rules EXCEPT ![first] = rule]
<1>1. /\ names \in SUBSET ProfileNames
      /\ \A q \in DOMAIN d.profiles : d.profiles[q] \in Entries
      /\ Desktop \in names
  BY DEF HasDesktop, Documents, ProfileNames
<1>2. entry \in Entries
  BY <1>1 DEF Entries
<1>3. bound \in [names -> Entries]
  BY <1>1, <1>2 DEF Entries
<1>4. bound \in UNION {[T -> Entries] : T \in SUBSET ProfileNames}
  BY <1>1, <1>3, ProfilesType
<1>5. rule \in RuleSet
  BY DEF RuleSet, RuleIds, ProfileNames
<1>6. rules \in Seq(RuleSet)
  <2>1. d.rules \in Seq(RuleSet)
    BY DEF HasDesktop, Documents
  <2> HIDE DEF rule, first, same
  <2>2. Append(d.rules, rule) \in Seq(RuleSet)
    BY <1>5, <2>1
  <2>3. [d.rules EXCEPT ![first] = rule] \in Seq(RuleSet)
    <3>1. Len(d.rules) \in Nat /\ d.rules \in [1..Len(d.rules) -> RuleSet]
      BY <2>1
    <3>2. [d.rules EXCEPT ![first] = rule] \in [1..Len(d.rules) -> RuleSet]
      BY <1>5, <3>1
    <3> QED BY <3>1, <3>2, SeqDef
  <2> QED BY <2>2, <2>3
<1>7. Bound(d, w, dev, preset)
        = [d EXCEPT !.switching = TRUE, !.profiles = bound, !.rules = rules]
  BY DEF Bound
<1> HIDE DEF bound, rules
<1>8. [d EXCEPT !.switching = TRUE, !.profiles = bound, !.rules = rules] \in Documents
  BY <1>4, <1>6 DEF HasDesktop, Documents
<1>9. DOMAIN bound = names
  BY <1>3
<1>10. [d EXCEPT !.switching = TRUE, !.profiles = bound, !.rules = rules].profiles = bound
  BY DEF HasDesktop, Documents
<1> QED BY <1>1, <1>7, <1>8, <1>9, <1>10 DEF HasDesktop

-----------------------------------------------------------------------------
(* _apply_profile.                                                         *)

\* It keeps the memory sound, gives every undisturbed device what the profile wants for
\* it, and only touches devices with automation.
LEMMA ApplyEffect ==
    ASSUME NEW d, HasDesktop(d), NEW p, NEW s, Sound(s), Apply(d, p, s)
    PROVE  /\ Sound(Now)'
           /\ automation' = s.automation
           /\ \A dev \in Devices \ Disturbed : applied'[dev] = Wanted(d, p, s, dev)
           /\ \A dev \in Devices : injecting'[dev] # s.injecting[dev] => s.automation[dev]
<1> DEFINE W(dev) == Wanted(d, p, s, dev)
           stops  == {dev \in Changing(d, p, s) : s.applied[dev] # None}
           starts == {dev \in Changing(d, p, s) : W(dev) # None}
<1>1. PICK stop \in [stops -> StopOutcomes], start \in [starts -> StartOutcomes] :
        /\ OnlyDisturbedFail(stop) /\ OnlyDisturbedFail(start)
        /\ managed' = Targets(d, p, s)
        /\ automation' = s.automation
        /\ applied' = [dev \in Devices |->
              IF dev \in starts /\ AnswersTrue(start[dev]) THEN W(dev)
              ELSE IF dev \in stops \cup starts THEN None ELSE s.applied[dev]]
        /\ touched' = s.touched \ (stops \cup starts)
        /\ injecting' = [dev \in Devices |->
              IF dev \in starts
              THEN AfterStart(IF dev \in stops THEN AfterStop(s.injecting[dev], stop[dev])
                                               ELSE s.injecting[dev], W(dev), start[dev])
              ELSE IF dev \in stops THEN AfterStop(s.injecting[dev], stop[dev])
                                    ELSE s.injecting[dev]]
  <2>1. s \in Memories
    BY DEF Sound
  <2> QED BY <2>1 DEF Apply, Remember, Memories
<1>2. /\ Targets(d, p, s) \subseteq Devices
      /\ \A dev \in Targets(d, p, s) : s.automation[dev]
      /\ \A dev \in Devices : W(dev) # None => dev \in Targets(d, p, s)
  BY DEF Targets, Wanted
<1>3. \A dev \in Devices : W(dev) \in Presets \cup {None}
  BY WantedType
<1>4. /\ s.applied \in [Devices -> Presets \cup {None}] /\ s.managed \subseteq Devices
      /\ s.automation \in [Devices -> BOOLEAN]
      /\ s.injecting \in [Devices -> Presets \cup {None}] /\ s.touched \subseteq Devices
      /\ \A dev \in s.managed : s.automation[dev]
      /\ \A dev \in Devices :
            s.applied[dev] # None =>
                dev \in s.managed /\ (dev \notin s.touched => s.injecting[dev] = s.applied[dev])
  BY DEF Sound, Memories
<1>5. \A dev \in Devices :
        dev \in Changing(d, p, s)
          <=> dev \in Targets(d, p, s) \cup s.managed /\ s.applied[dev] # W(dev)
  BY <1>2, <1>4 DEF Changing
<1> HIDE DEF W
<1>6. ASSUME NEW dev \in Devices
      PROVE  /\ applied'[dev] \in Presets \cup {None}
             /\ injecting'[dev] \in Presets \cup {None}
             /\ applied'[dev] # None
                  => /\ dev \in Targets(d, p, s)
                     /\ dev \notin touched' => injecting'[dev] = applied'[dev]
             /\ dev \notin Disturbed => applied'[dev] = W(dev)
             /\ injecting'[dev] # s.injecting[dev] => s.automation[dev]
  <2>1. CASE dev \in starts
    <3>1. start[dev] \in StartOutcomes /\ (dev \notin Disturbed => start[dev] = "done")
      BY <1>1, <2>1 DEF OnlyDisturbedFail
    <3>2. dev \in stops => stop[dev] \in StopOutcomes
      BY <1>1
    <3> QED BY <1>1, <1>2, <1>3, <1>4, <1>5, <2>1, <3>1, <3>2
            DEF AnswersTrue, AfterStart, AfterStop, StartOutcomes
  <2>2. CASE dev \in stops \ starts
    <3>1. applied'[dev] = None /\ W(dev) = None
      BY <1>1, <2>2
    <3>2. injecting'[dev] = AfterStop(s.injecting[dev], stop[dev])
      BY <1>1, <2>2
    <3>3. s.automation[dev]
      BY <1>4, <2>2
    <3> QED BY <1>4, <3>1, <3>2, <3>3 DEF AfterStop
  <2>3. CASE dev \notin stops \cup starts
    <3>1. /\ applied'[dev] = s.applied[dev] /\ injecting'[dev] = s.injecting[dev]
          /\ dev \in touched' <=> dev \in s.touched
      BY <1>1, <2>3
    <3>2. s.applied[dev] = W(dev)
      BY <1>2, <1>4, <1>5, <2>3
    <3> QED BY <1>2, <1>4, <3>1, <3>2
  <2> QED BY <2>1, <2>2, <2>3
<1>7. /\ applied' \in [Devices -> Presets \cup {None}]
      /\ injecting' \in [Devices -> Presets \cup {None}]
  BY <1>1, <1>6
<1>8. Sound(Now)'
  <2>1. Now' \in Memories
    BY <1>1, <1>2, <1>4, <1>7 DEF Now, Memories
  <2> QED BY <1>1, <1>2, <1>6, <2>1 DEF Now, Sound
<1> QED BY <1>1, <1>6, <1>8 DEF W

-----------------------------------------------------------------------------
(* The steps.                                                              *)

\* Wanted looks at the automation only.
LEMMA SameWish ==
    ASSUME NEW d, NEW p, NEW s, NEW r, s.automation = r.automation, NEW dev
    PROVE  Wanted(d, p, s, dev) = Wanted(d, p, r, dev)
<1> QED BY DEF Wanted, Targets

\* After windowd applied the profile of the window, all devices have it.
LEMMA AppliedIsReconciled ==
    ASSUME NEW d, HasDesktop(d), NEW s, Sound(s), window' = window, doc' = d,
           Apply(d, TargetProfile(d, window), s)
    PROVE  Reconciled'
<1>1. automation' = s.automation
  BY ApplyEffect
<1>2. Now'.automation = s.automation
  BY <1>1 DEF Now
<1>3. ASSUME NEW dev \in Devices \ Disturbed
      PROVE  applied'[dev] = Wanted(doc', TargetProfile(doc', window'), Now', dev)
  <2>1. applied'[dev] = Wanted(d, TargetProfile(d, window), s, dev)
    BY <1>3, ApplyEffect
  <2>2. Wanted(d, TargetProfile(d, window), s, dev)
          = Wanted(d, TargetProfile(d, window), Now', dev)
    BY <1>2, SameWish
  <2> QED BY <2>1, <2>2
<1> QED BY <1>3 DEF Reconciled

\* windowd's part of a step: s is its memory before it reconciles.
LEMMA ReconcileEffect ==
    ASSUME NEW d, HasDesktop(d), NEW s, Sound(s), NEW graceRuns \in BOOLEAN,
           graceRuns => window = NoWindow,
           Reconcile(d, graceRuns, s), window' = window, doc' = d
    PROVE  /\ Sound(Now)' /\ Reconciled' /\ GraceMeansNoWindow'
           /\ unread' = FALSE /\ grace' \in BOOLEAN
           /\ \A dev \in Devices :
                 injecting'[dev] # s.injecting[dev] => s.automation[dev]
<1>1. CASE window = NoWindow
  <2>1. /\ unread' = FALSE
        /\ grace' = (graceRuns \/ s.managed # {})
        /\ Remember(s)
    BY <1>1 DEF Reconcile
  <2>2. Now' = s
    BY <2>1 DEF Remember, Now, Sound, Memories
  <2>3. Sound(Now')
    BY <2>2
  <2>4. Reconciled'
    BY <1>1, <2>1 DEF Remember, Reconciled, Settled
  <2>5. GraceMeansNoWindow'
    BY <1>1 DEF GraceMeansNoWindow
  <2> QED BY <2>1, <2>3, <2>4, <2>5 DEF Remember
<1>2. CASE window # NoWindow
  <2>1. unread' = FALSE /\ grace' = FALSE /\ Apply(d, TargetProfile(d, window), s)
    BY <1>2 DEF Reconcile
  <2> QED BY <2>1, ApplyEffect, AppliedIsReconciled DEF GraceMeansNoWindow
<1> QED BY <1>1, <1>2

\* A step of windowd leaves the devices alone that have no automation.
LeftAlone ==
    \A dev \in Devices : injecting'[dev] # injecting[dev] => automation[dev] \/ automation'[dev]

\* A setter that leaves a document.
LEMMA SaveStep ==
    ASSUME Inv, NEW d, HasDesktop(d), doc' = d, Evaluate(d, Now), UNCHANGED window
    PROVE  Inv' /\ LeftAlone
<1>1. Sound(Now) /\ Reconcile(d, FALSE, Now) /\ debounce' = FALSE
  BY DEF Inv, Evaluate
<1>2. /\ Sound(Now)' /\ Reconciled' /\ GraceMeansNoWindow'
      /\ unread' = FALSE /\ grace' \in BOOLEAN
      /\ \A dev \in Devices : injecting'[dev] # Now.injecting[dev] => Now.automation[dev]
  BY <1>1, ReconcileEffect
<1>3. TypeOK'
  BY <1>1, <1>2 DEF Inv, TypeOK
<1> QED BY <1>2, <1>3 DEF Inv, LeftAlone, Now

\* A device that is given up is stopped.
LEMMA AutomationSetType ==
    ASSUME Sound(Now), NEW dev \in Devices, NEW enabled \in BOOLEAN,
           NEW s \in AutomationSet(dev, enabled)
    PROVE  /\ Sound(s)
           /\ \A e \in Devices \ {dev} : s.automation[e] = automation[e]
           /\ \A e \in Devices : s.injecting[e] # injecting[e] => automation[e]
<1> DEFINE set == [Now EXCEPT !.automation[dev] = enabled]
<1>1. /\ Now \in Memories
      /\ \A e \in managed : automation[e]
      /\ \A e \in Devices :
            applied[e] # None => e \in managed /\ (e \notin touched => injecting[e] = applied[e])
  BY DEF Sound, Now
<1>2. /\ applied \in [Devices -> Presets \cup {None}] /\ managed \subseteq Devices
      /\ touched \subseteq Devices
      /\ automation \in [Devices -> BOOLEAN]
      /\ injecting \in [Devices -> Presets \cup {None}]
  BY <1>1 DEF Now, Memories
<1>3. CASE enabled
  <2>1. s = [applied |-> applied, managed |-> managed,
             automation |-> [automation EXCEPT ![dev] = enabled], injecting |-> injecting,
             touched |-> touched]
    BY <1>3 DEF AutomationSet, Now
  <2>2. s \in Memories
    BY <1>2, <2>1 DEF Memories
  <2>3. \A e \in Devices : automation[e] => s.automation[e]
    BY <1>2, <1>3, <2>1
  <2>4. /\ s.managed = managed /\ s.applied = applied /\ s.injecting = injecting
        /\ s.touched = touched
    BY <2>1
  <2>5. \A e \in Devices \ {dev} : s.automation[e] = automation[e]
    BY <1>2, <2>1
  <2> QED BY <1>1, <1>2, <2>2, <2>3, <2>4, <2>5 DEF Sound
<1>4. CASE ~enabled
  <2>1. PICK o \in StopOutcomes :
          s = [applied |-> [applied EXCEPT ![dev] = None], managed |-> managed \ {dev},
               automation |-> [automation EXCEPT ![dev] = enabled],
               injecting |-> [injecting EXCEPT ![dev] =
                                IF applied[dev] = None THEN @ ELSE AfterStop(@, o)],
               touched |-> touched \ {dev}]
    <3>1. set = [applied |-> applied, managed |-> managed,
                 automation |-> [automation EXCEPT ![dev] = enabled], injecting |-> injecting,
                 touched |-> touched]
      BY <1>2 DEF Now
    <3>2. PICK o \in StopOutcomes :
            s = [set EXCEPT !.managed = @ \ {dev},
                            !.applied[dev] = None,
                            !.touched = @ \ {dev},
                            !.injecting[dev] = IF applied[dev] = None THEN @
                                               ELSE AfterStop(@, o)]
      BY <1>4 DEF AutomationSet
    <3> HIDE DEF set
    <3>3. set.managed = managed /\ set.applied = applied /\ set.injecting = injecting
          /\ set.automation = [automation EXCEPT ![dev] = enabled] /\ set.touched = touched
      BY <3>1
    <3>4. s = [applied |-> [set.applied EXCEPT ![dev] = None], managed |-> set.managed \ {dev},
               automation |-> set.automation,
               injecting |-> [set.injecting EXCEPT ![dev] =
                                IF applied[dev] = None THEN set.injecting[dev]
                                ELSE AfterStop(set.injecting[dev], o)],
               touched |-> set.touched \ {dev}]
      BY <3>1, <3>2
    <3> QED BY <3>3, <3>4, Zenon
  <2>2. (IF applied[dev] = None THEN injecting[dev] ELSE AfterStop(injecting[dev], o))
          \in Presets \cup {None}
    BY <1>2 DEF AfterStop
  <2>3. s \in Memories
    BY <1>2, <2>1, <2>2 DEF Memories
  <2>4. \A e \in s.managed : s.automation[e]
    BY <1>1, <1>2, <2>1
  <2>5. \A e \in Devices :
          s.applied[e] # None =>
              e \in s.managed /\ (e \notin s.touched => s.injecting[e] = s.applied[e])
    BY <1>1, <1>2, <2>1
  <2> QED BY <1>1, <1>2, <2>1, <2>3, <2>4, <2>5 DEF Sound
<1> QED BY <1>3, <1>4

\* windowd starts with nothing applied.
LEMMA InitInv == Init => Inv
<1> SUFFICES ASSUME Init PROVE Inv
  OBVIOUS
<1>1. TypeOK /\ GraceMeansNoWindow /\ Reconciled
  BY DEF Init, TypeOK, HasDesktop, GraceMeansNoWindow, Reconciled, Settled
<1>2. Sound(Now)
  <2>1. Now \in Memories
    BY DEF Init, Now, Memories
  <2> QED BY <2>1 DEF Init, Now, Sound
<1> QED BY <1>1, <1>2 DEF Inv

\* The invariant is inductive, and a step, if it is not one of others, leaves the
\* devices without automation alone.
LEMMA InvStep ==
    ASSUME Inv, [Next]_vars
    PROVE  Inv' /\ (UNCHANGED daemonVars \/ LeftAlone)
<1> TypeOK /\ Sound(Now) /\ GraceMeansNoWindow /\ Reconciled
  BY DEF Inv
<1>0. /\ applied \in [Devices -> Presets \cup {None}] /\ managed \subseteq Devices
      /\ automation \in [Devices -> BOOLEAN]
      /\ injecting \in [Devices -> Presets \cup {None}]
      /\ \A dev \in managed : automation[dev]
      /\ touched \subseteq Devices
      /\ \A dev \in Devices :
            applied[dev] # None =>
                dev \in managed /\ (dev \notin touched => injecting[dev] = applied[dev])
  BY DEF Sound, Memories, Now
<1>1. ASSUME NEW w \in Windows \cup {NoWindow}, NotifyWindow(w)
      PROVE  Inv' /\ LeftAlone
  <2>1. TypeOK' /\ GraceMeansNoWindow' /\ Reconciled' /\ LeftAlone
    BY <1>1 DEF NotifyWindow, OnWindowChanged, TypeOK, GraceMeansNoWindow, Reconciled,
                Settled, LeftAlone
  <2>2. Sound(Now)'
    BY <1>1 DEF NotifyWindow, OnWindowChanged, Sound, Now
  <2> QED BY <2>1, <2>2 DEF Inv
<1>2. CASE Debounced
  <2>1. /\ HasDesktop(doc) /\ grace \in BOOLEAN /\ (grace => window = NoWindow)
        /\ Reconcile(doc, grace, Now) /\ UNCHANGED <<window, doc>> /\ debounce' = FALSE
    BY <1>2 DEF Debounced, TypeOK, GraceMeansNoWindow
  <2>2. /\ Sound(Now)' /\ Reconciled' /\ GraceMeansNoWindow'
        /\ unread' = FALSE /\ grace' \in BOOLEAN
        /\ \A dev \in Devices : injecting'[dev] # Now.injecting[dev] => Now.automation[dev]
    BY <2>1, ReconcileEffect
  <2>3. TypeOK'
    BY <2>1, <2>2 DEF TypeOK
  <2> QED BY <2>2, <2>3 DEF Inv, LeftAlone, Now
<1>3. CASE GraceElapsed
  <2>1. /\ HasDesktop(doc) /\ window = NoWindow /\ grace' = FALSE
        /\ Apply(doc, TargetProfile(doc, window), Now)
        /\ UNCHANGED <<window, debounce, doc, unread>>
    BY <1>3 DEF GraceElapsed, TypeOK, GraceMeansNoWindow
  <2>2. /\ Sound(Now)' /\ automation' = Now.automation
        /\ \A dev \in Devices : injecting'[dev] # Now.injecting[dev] => Now.automation[dev]
    BY <2>1, ApplyEffect
  <2>3. Reconciled'
    BY <2>1, AppliedIsReconciled
  <2>4. TypeOK' /\ GraceMeansNoWindow'
    BY <2>1 DEF TypeOK, GraceMeansNoWindow
  <2> QED BY <2>2, <2>3, <2>4 DEF Inv, LeftAlone, Now
<1>4. CASE EditProfiles
  <2>1. TypeOK' /\ GraceMeansNoWindow' /\ Reconciled' /\ LeftAlone
    BY <1>4 DEF EditProfiles, TypeOK, HasDesktop, GraceMeansNoWindow, Reconciled, Settled,
                LeftAlone
  <2>2. Sound(Now)'
    BY <1>4 DEF EditProfiles, Sound, Now
  <2> QED BY <2>1, <2>2 DEF Inv
<1>5. CASE EvaluateNow
  BY <1>5, SaveStep DEF EvaluateNow, TypeOK
<1>6. ASSUME NEW p \in Profiles, SetActiveProfile(p)
      PROVE  Inv' /\ LeftAlone
  <2>1. HasDesktop([doc EXCEPT !.active = p])
    BY DEF TypeOK, HasDesktop, Documents, ProfileNames
  <2> QED BY <1>6, <2>1, SaveStep DEF SetActiveProfile, SaveAndEvaluate
<1>7. ASSUME NEW b \in BOOLEAN, SetProfileSwitchingEnabled(b)
      PROVE  Inv' /\ LeftAlone
  <2>1. HasDesktop([doc EXCEPT !.switching = b])
    BY DEF TypeOK, HasDesktop, Documents
  <2> QED BY <1>7, <2>1, SaveStep DEF SetProfileSwitchingEnabled, SaveAndEvaluate
<1>8. ASSUME NEW p \in Profiles \cup {None}, SetPersistentProfile(p)
      PROVE  Inv' /\ LeftAlone
  <2> DEFINE d == IF p = None \/ p \in DOMAIN doc.profiles
                  THEN [doc EXCEPT !.persistent = p] ELSE doc
  <2>1. HasDesktop(d)
    BY DEF TypeOK, HasDesktop, Documents, ProfileNames
  <2>2. doc' = d /\ Evaluate(d, Now) /\ UNCHANGED window
    BY <1>8 DEF SetPersistentProfile, SaveAndEvaluate
  <2> HIDE DEF d
  <2> QED BY <2>1, <2>2, SaveStep
<1>9. ASSUME NEW dev \in Devices, NEW preset \in Presets \cup {Blank},
             BindPresetToCurrentApp(dev, preset)
      PROVE  Inv' /\ LeftAlone
  <2>1. window \in Windows
    BY <1>9 DEF BindPresetToCurrentApp, TypeOK
  <2>2. HasDesktop(Bound(doc, window, dev, preset))
    BY <2>1, BoundType DEF TypeOK
  <2> QED BY <1>9, <2>2, SaveStep DEF BindPresetToCurrentApp, SaveAndEvaluate
<1>10. ASSUME NEW dev \in Devices, NEW b \in BOOLEAN, SetDeviceAutomation(dev, b)
       PROVE  Inv' /\ LeftAlone
  <2>1. PICK s \in AutomationSet(dev, b) : Evaluate(doc, s)
    BY <1>10 DEF SetDeviceAutomation
  <2>2. /\ Sound(s)
        /\ \A e \in Devices \ {dev} : s.automation[e] = automation[e]
        /\ \A e \in Devices : s.injecting[e] # injecting[e] => automation[e]
    BY AutomationSetType
  <2>3. /\ HasDesktop(doc) /\ UNCHANGED <<window, doc>>
        /\ Reconcile(doc, FALSE, s) /\ debounce' = FALSE
    BY <1>10, <2>1 DEF SetDeviceAutomation, Evaluate, TypeOK
  <2>4. /\ Sound(Now)' /\ Reconciled' /\ GraceMeansNoWindow'
        /\ unread' = FALSE /\ grace' \in BOOLEAN
        /\ \A e \in Devices : injecting'[e] # s.injecting[e] => s.automation[e]
    BY <2>2, <2>3, ReconcileEffect
  <2>5. automation' = s.automation
    <3>1. CASE window = NoWindow
      BY <2>3, <3>1 DEF Reconcile, Remember
    <3>2. CASE window # NoWindow
      BY <2>2, <2>3, <3>2, ApplyEffect DEF Reconcile
    <3> QED BY <3>1, <3>2
  <2>6. TypeOK'
    BY <2>3, <2>4 DEF TypeOK
  <2> QED BY <2>2, <2>4, <2>5, <2>6 DEF Inv, LeftAlone
<1>11. CASE Quit
  <2>1. PICK stop \in [{dev \in Devices : applied[dev] # None} -> StopOutcomes] :
          injecting' = [dev \in Devices |->
              IF applied[dev] # None THEN AfterStop(injecting[dev], stop[dev])
                                     ELSE injecting[dev]]
    BY <1>11 DEF Quit
  <2>2. injecting' \in [Devices -> Presets \cup {None}]
    BY <1>0, <2>1 DEF AfterStop
  <2>3. /\ applied' = [dev \in Devices |-> None] /\ managed' = {}
        /\ automation' \in [Devices -> BOOLEAN]
        /\ window' = NoWindow /\ unread' = TRUE /\ debounce' = FALSE /\ grace' = FALSE
        /\ touched' = {} /\ UNCHANGED doc
    BY <1>11 DEF Quit
  <2>4. Sound(Now)'
    <3>1. Now' \in Memories
      BY <2>2, <2>3 DEF Now, Memories
    <3> QED BY <2>3, <3>1 DEF Now, Sound
  <2>5. TypeOK' /\ GraceMeansNoWindow' /\ Reconciled'
    BY <2>3 DEF TypeOK, GraceMeansNoWindow, Reconciled, Settled
  <2>6. LeftAlone
    BY <1>0, <2>1 DEF LeftAlone
  <2> QED BY <2>4, <2>5, <2>6 DEF Inv
<1>12. CASE OthersInject \/ SystemDaemonRestarts
  <2>1. /\ injecting' \in [Devices -> Presets \cup {None}] /\ touched' \subseteq Devices
        /\ \A e \in Devices :
              applied[e] # None /\ e \notin touched' => e \notin touched /\ injecting'[e] = injecting[e]
    <3>1. CASE OthersInject
      <4>1. PICK dev \in Disturbed, preset \in Presets \cup {None} :
              /\ injecting' = [injecting EXCEPT ![dev] = preset]
              /\ touched' = touched \cup {e \in {dev} : applied[e] # None}
        BY <3>1 DEF OthersInject
      <4> QED BY <1>0, <4>1
    <3>2. CASE SystemDaemonRestarts
      BY <1>0, <3>2 DEF SystemDaemonRestarts
    <3> QED BY <1>12, <3>1, <3>2
  <2>2. UNCHANGED <<window, debounce, grace, applied, managed, automation, doc, unread>>
    BY <1>12 DEF OthersInject, SystemDaemonRestarts, daemonVars
  <2>3. Sound(Now)'
    <3>1. Now' \in Memories
      BY <1>0, <2>1, <2>2 DEF Now, Memories
    <3> QED BY <1>0, <2>1, <2>2, <3>1 DEF Now, Sound
  <2>4. TypeOK' /\ GraceMeansNoWindow'
    BY <2>2 DEF TypeOK, GraceMeansNoWindow
  <2>5. Reconciled'
    <3>1. \A e, p : Wanted(doc, p, Now, e) = Wanted(doc, p, Now', e)
      BY <2>2, SameWish DEF Now
    <3> QED BY <2>2, <3>1 DEF Reconciled, Settled
  <2> QED BY <2>2, <2>3, <2>4, <2>5 DEF Inv, daemonVars
<1>13. CASE Killed
  <2>1. /\ applied' = [dev \in Devices |-> None] /\ managed' = {}
        /\ automation' \in [Devices -> BOOLEAN]
        /\ window' = NoWindow /\ unread' = TRUE /\ debounce' = FALSE /\ grace' = FALSE
        /\ touched' = {} /\ UNCHANGED <<doc, injecting>>
    BY <1>13 DEF Killed
  <2>2. Sound(Now)'
    <3>1. Now' \in Memories
      BY <1>0, <2>1 DEF Now, Memories
    <3> QED BY <2>1, <3>1 DEF Now, Sound
  <2>3. TypeOK' /\ GraceMeansNoWindow' /\ Reconciled' /\ LeftAlone
    BY <2>1 DEF TypeOK, GraceMeansNoWindow, Reconciled, Settled, LeftAlone
  <2> QED BY <2>2, <2>3 DEF Inv
<1>14. CASE UNCHANGED vars
  <2>1. Now' = Now
    BY <1>14 DEF daemonVars, vars, Now
  <2>2. Sound(Now)'
    BY <2>1
  <2>3. TypeOK' /\ GraceMeansNoWindow' /\ Reconciled' /\ LeftAlone
    BY <1>14, <2>1 DEF vars, daemonVars, TypeOK, GraceMeansNoWindow, Reconciled, Settled, LeftAlone
  <2> QED BY <2>2, <2>3 DEF Inv
<1> QED BY <1>1, <1>2, <1>3, <1>4, <1>5, <1>6, <1>7, <1>8, <1>9, <1>10, <1>11, <1>12, <1>13,
           <1>14 DEF Next

\* Whatever the windows, the rules and the calls that fail: what windowd remembers is
\* injected, and a device is only behind its target while a timer will look again.
THEOREM Invariance == Spec => []Inv
<1> QED BY InitInv, InvStep, PTL DEF Spec

\* What windowd remembers as applied is injected, even when calls fail and windowd is
\* killed, so that it is right to skip a device that has its preset: except for a device
\* that somebody else has started or stopped since windowd last did.
THEOREM AppliedIsInjected == Spec => []AppliedIsTrue
<1>1. Inv => AppliedIsTrue
  BY DEF Inv, Sound, Now, AppliedIsTrue
<1> QED BY <1>1, Invariance, PTL

\* windowd only starts and stops injections of devices that are, or were until this very
\* step, left to it.
THEOREM OnlyManagedAreTouched == Spec => ManualIsLeftAlone
<1>1. ASSUME Inv, [Next]_vars
      PROVE  [\A dev \in Devices :
                 injecting'[dev] # injecting[dev] => automation[dev] \/ automation'[dev]]_
                 daemonVars
  BY <1>1, InvStep DEF LeftAlone
<1> QED BY <1>1, Invariance, PTL DEF Spec, ManualIsLeftAlone

-----------------------------------------------------------------------------
(* What the documents promise is what _apply_profile wants.                *)

\* A device with automation gets what the document promises it.
LEMMA WantedIsPromised ==
    ASSUME NEW d, HasDesktop(d), NEW w \in Windows \cup {NoWindow}, NEW s,
           NEW dev \in Devices, s.automation[dev]
    PROVE  Promises(d, w, dev, Wanted(d, TargetProfile(d, w), s, dev))
<1> DEFINE Gives(p) == Wanted(d, TargetProfile(d, w), s, dev)
                           = (IF Entry(d, p, dev) = Blank THEN None ELSE Entry(d, p, dev))
<1>1. \A p : Wanted(d, p, s, dev) = IF Entry(d, p, dev) = Blank THEN None ELSE Entry(d, p, dev)
  BY DEF Wanted, Targets
<1>2. Gives(TargetProfile(d, w))
  BY <1>1
<1>3. d.persistent \in DOMAIN d.profiles => d.persistent # None
  BY DEF HasDesktop, Documents, ProfileNames
<1> DEFINE Rules == IF w = NoWindow THEN {} ELSE {d.rules[i] : i \in Hits(d, w)}
<1>4. CASE d.persistent \in DOMAIN d.profiles \/ ~d.switching
  <2>1. TargetProfile(d, w) = IF d.persistent \in DOMAIN d.profiles THEN d.persistent
                              ELSE d.active
    BY <1>4 DEF TargetProfile
  <2> QED BY <1>2, <1>3, <1>4, <2>1 DEF Promises
<1>5. CASE /\ d.persistent \notin DOMAIN d.profiles /\ d.switching
           /\ w = NoWindow \/ Hits(d, w) = {}
  <2>1. TargetProfile(d, w) = Desktop
    BY <1>5 DEF TargetProfile, BestRule
  <2>2. Rules = {}
    BY <1>5
  <2> QED BY <1>2, <1>5, <2>1, <2>2 DEF Promises, Hits
<1>6. CASE /\ d.persistent \notin DOMAIN d.profiles /\ d.switching
           /\ w # NoWindow /\ Hits(d, w) # {}
  <2> DEFINE i == BestRule(d, w)
  <2>1. i \in Hits(d, w) /\ \A j \in Hits(d, w) : Before(d, i, j)
    <3>1. \E k \in Hits(d, w) : \A j \in Hits(d, w) : Before(d, k, j)
      BY <1>6, ABestRuleExists DEF HasDesktop
    <3>2. i = CHOOSE k \in Hits(d, w) : \A j \in Hits(d, w) : Before(d, k, j)
      BY <1>6 DEF BestRule, Before
    <3> QED BY <3>1, <3>2
  <2>2. /\ i # 0
        /\ \A j \in Hits(d, w) : d.rules[j].priority \in Nat
    <3>1. d.rules \in Seq(RuleSet)
      BY DEF HasDesktop, Documents
    <3>2. DOMAIN d.rules = 1..Len(d.rules) /\ Len(d.rules) \in Nat
      BY <3>1
    <3>3. \A j \in DOMAIN d.rules : d.rules[j] \in RuleSet
      BY <3>1, <3>2
    <3> QED BY <2>1, <3>2, <3>3 DEF Hits, RuleSet
  <2>3. \A j \in Hits(d, w) : d.rules[j].priority <= d.rules[i].priority
    BY <2>1, <2>2 DEF Before
  <2>4. Entry(d, TargetProfile(d, w), dev) = Entry(d, d.rules[i].profile, dev)
    <3> HIDE DEF i
    <3>1. TargetProfile(d, w) = IF d.rules[i].profile \in DOMAIN d.profiles
                                THEN d.rules[i].profile ELSE Desktop
      BY <1>6, <2>2 DEF TargetProfile, i
    <3> QED BY <3>1 DEF Entry
  <2> HIDE DEF i
  <2>5. Gives(d.rules[i].profile)
    BY <1>2, <2>4
  <2>6. /\ Rules # {} /\ d.rules[i] \in Rules
        /\ \A o \in Rules : o.priority <= d.rules[i].priority
    BY <1>6, <2>1, <2>3
  <2>7. \E r \in Rules : Gives(r.profile) /\ \A o \in Rules : o.priority <= r.priority
    BY <2>5, <2>6
  <2> QED BY <1>6, <2>6, <2>7 DEF Promises, Hits
<1> QED BY <1>4, <1>5, <1>6

\* Once the timers have run out, every undisturbed device with automation has what the
\* profiles promise, for every document, any number of windows and every order of events.
THEOREM PromisesAreKept == Spec => []PromisesAreApplied
<1>1. ASSUME Inv, Settled, window # NoWindow \/ managed # {},
             NEW dev \in Devices \ Disturbed, automation[dev]
      PROVE  Promises(doc, window, dev, applied[dev])
  <2>1. applied[dev] = Wanted(doc, TargetProfile(doc, window), Now, dev)
    BY <1>1 DEF Inv, Reconciled
  <2>2. Now.automation[dev] /\ HasDesktop(doc) /\ window \in Windows \cup {NoWindow}
    BY <1>1 DEF Inv, TypeOK, Now
  <2> QED BY <2>1, <2>2, WantedIsPromised
<1>2. Inv => PromisesAreApplied
  BY <1>1 DEF PromisesAreApplied
<1> QED BY <1>2, Invariance, PTL
=============================================================================
