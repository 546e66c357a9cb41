--------------------------- MODULE PresetStoreProofs ---------------------------
(***************************************************************************)
(* What the GUI keeps of presets: the names in other files, the mapping    *)
(* that is shown and the file that is written, for any number of groups,   *)
(* presets and mappings, and for any number of messages that wait.         *)
(***************************************************************************)
EXTENDS PresetStore, SequenceTheorems, WellFoundedInduction, TLAPS

Keys == Combos \cup {Empty}

\* What a file holds.
FileContents == {m \in Contents : Empty \notin DOMAIN m}

State ==
    [files : [Models -> [Presets -> FileContents \cup {None}]],
     group : Groups \cup {None}, preset : Presets \cup {None},
     mappings : Contents, saved : FileContents, active : Keys \cup {None},
     queue : Seq(SUBSET Keys), tuned : BOOLEAN, failed : BOOLEAN]

\* What every step of an operation keeps.
Held(s) ==
    /\ s \in State
    /\ s.group = None => s.preset = None
    /\ s.preset = None => s.mappings = NoMappings
    /\ s.active # None => s.active \in DOMAIN s.mappings

\* The preset that is loaded has a file.
HasFile(s) == s.preset # None => s.files[Model[s.group]][s.preset] # None

\* If no mapping is shown although there are some, then the message that shows one of them
\* is the last of those that wait: an exception before it cannot make it get lost.
WillBeShown(s) ==
    DOMAIN s.mappings # {} /\ s.active = None =>
        s.queue # <<>> /\ s.queue[Len(s.queue)] = DOMAIN s.mappings

Sound(s) == Held(s) /\ HasFile(s) /\ WillBeShown(s)

\* The file holds what is believed to be in it, and all edits but those of thresholds.
Synced(s) ==
    s.preset # None =>
        /\ s.files[Model[s.group]][s.preset] = s.saved
        /\ ~s.tuned => Savable(s.mappings) = s.saved

\* No message is about mappings that the preset does not have.
Own(s) == \A i \in DOMAIN s.queue : s.queue[i] = DOMAIN s.mappings

\* Messages change no more than what is shown.
Same(s, t) ==
    /\ t.files = s.files /\ t.group = s.group /\ t.preset = s.preset
    /\ t.mappings = s.mappings /\ t.saved = s.saved /\ t.tuned = s.tuned

\* No file is removed.
FilesStay(s, t) ==
    \A d \in Models, p \in Presets : s.files[d][p] # None => t.files[d][p] # None

-----------------------------------------------------------------------------
\* Every group has a folder.
LEMMA ModelType == \A g \in Groups : Model[g] \in Models
BY StoreAssumption

(* The contents of files.                                                  *)

LEMMA ContentsIs ==
    /\ \A m \in Contents : /\ DOMAIN m \in SUBSET Keys
                           /\ m \in [DOMAIN m -> Outputs \cup {Unset}]
                           /\ m # None
    /\ \A S \in SUBSET Keys : [S -> Outputs \cup {Unset}] \subseteq Contents
<1>1. ASSUME NEW m \in Contents
      PROVE  /\ DOMAIN m \in SUBSET Keys
             /\ m \in [DOMAIN m -> Outputs \cup {Unset}]
             /\ m # None
  <2>1. PICK S \in SUBSET Keys : m \in [S -> Outputs \cup {Unset}]
    BY DEF Contents, Keys
  <2>2. m # None
    BY StoreAssumption
  <2> QED BY <2>1, <2>2
<1>2. ASSUME NEW S \in SUBSET Keys
      PROVE  [S -> Outputs \cup {Unset}] \subseteq Contents
  BY DEF Contents, Keys
<1> QED BY <1>1, <1>2

LEMMA NoMappingsType ==
    NoMappings \in Contents /\ NoMappings \in FileContents /\ DOMAIN NoMappings = {}
    /\ NoMappings # None
<1>1. NoMappings \in [{} -> Outputs \cup {Unset}] /\ DOMAIN NoMappings = {}
  BY DEF NoMappings
<1>2. NoMappings \in Contents
  BY <1>1, ContentsIs
<1> QED BY <1>1, <1>2, ContentsIs DEF FileContents

\* Only mappings without an input are left out.
LEMMA SavableType ==
    ASSUME NEW m \in Contents
    PROVE  Savable(m) \in FileContents /\ (m \in FileContents => Savable(m) = m)
<1>1. DOMAIN m \in SUBSET Keys /\ m \in [DOMAIN m -> Outputs \cup {Unset}]
  BY ContentsIs
<1>2. Savable(m) \in [DOMAIN m \ {Empty} -> Outputs \cup {Unset}]
  BY <1>1 DEF Savable
<1>3. DOMAIN m \ {Empty} \in SUBSET Keys
  BY <1>1
<1>4. Savable(m) \in Contents
  BY <1>2, <1>3, ContentsIs
<1>5. m \in FileContents => Savable(m) = m
  BY <1>1 DEF Savable, FileContents
<1> QED BY <1>2, <1>4, <1>5 DEF FileContents

-----------------------------------------------------------------------------
(* Messages.                                                               *)

LEMMA MinIsLeast ==
    ASSUME NEW n \in Nat, NEW S \in SUBSET (1..n), S # {}
    PROVE  Min(S) \in S /\ \A j \in S : Min(S) <= j
<1>1. S \subseteq Nat
  OBVIOUS
<1>2. PICK i \in S : \A j \in S : ~(<<j, i>> \in OpToRel(<, Nat))
  BY <1>1, WFMin, NatLessThanWellFounded
<1>3. \A j \in S : ~(j < i)
  BY <1>1, <1>2 DEF OpToRel
<1>4. \A j \in S : i <= j
  BY <1>1, <1>3
<1> QED BY <1>4 DEF Min

LEMMA MaxIsIn ==
    ASSUME NEW n \in Nat, NEW S \in SUBSET (1..n), S # {}
    PROVE  Max(S) \in S
<1> DEFINE T == {n + 1 - i : i \in S}
<1>1. T \in SUBSET (1..n) /\ T # {}
  <2>1. \A i \in S : n + 1 - i \in 1..n
    OBVIOUS
  <2> QED BY <2>1
<1>2. Min(T) \in T /\ \A j \in T : Min(T) <= j
  <2> HIDE DEF T
  <2> QED BY <1>1, MinIsLeast
<1>3. PICK i \in S : Min(T) = n + 1 - i
  BY <1>2
<1>4. \A j \in S : i >= j
  <2> TAKE j \in S
  <2>1. n + 1 - j \in T
    OBVIOUS
  <2>2. n + 1 - i <= n + 1 - j
    BY <1>2, <1>3, <2>1
  <2>3. i \in Int /\ j \in Int
    OBVIOUS
  <2> HIDE DEF T
  <2> QED BY <2>2, <2>3
<1> QED BY <1>4 DEF Max

\* The listener of a "preset" message.
LEMMA LoadFirstEffect ==
    ASSUME NEW s, Held(s), NEW combos \in SUBSET Keys
    PROVE  /\ ~s.failed /\ ~LoadFirst(s, combos).failed /\ combos # {} =>
                First(combos) \in DOMAIN s.mappings
           /\ ~s.failed /\ combos = DOMAIN s.mappings => ~LoadFirst(s, combos).failed
<1> DEFINE f == First(combos)
           t == [s EXCEPT !.active = f]
<1>1. combos # {} => f \in combos
  BY DEF First
<1>2. s \in State /\ (s.preset = None => DOMAIN s.mappings = {})
  BY NoMappingsType DEF Held
<1>3. LoadFirst(s, combos) = IF combos = {} THEN s
                             ELSE IF s.preset # None /\ f \in DOMAIN s.mappings THEN t
                             ELSE Fails(s)
  BY DEF LoadFirst
<1> HIDE DEF f
<1>4. t.failed = s.failed
  BY <1>2 DEF State
<1>5. Fails(s).failed = TRUE
  BY <1>2 DEF Fails, State
<1>6. Fails(s).failed
  BY <1>5, Zenon
<1> HIDE DEF t
<1>7. ASSUME ~s.failed, ~LoadFirst(s, combos).failed, combos # {}
      PROVE  f \in DOMAIN s.mappings
  BY <1>3, <1>6, <1>7
<1>8. ASSUME ~s.failed, combos = DOMAIN s.mappings
      PROVE  ~LoadFirst(s, combos).failed
  <2>1. LoadFirst(s, combos) = s \/ LoadFirst(s, combos) = t
    BY <1>1, <1>2, <1>3, <1>8
  <2>2. ~t.failed
    BY <1>4, <1>8
  <2> QED BY <1>8, <2>1, <2>2
<1> QED BY <1>7, <1>8 DEF f

LEMMA SendAllEffect ==
    ASSUME NEW s, Held(s)
    PROVE  LET t == SendAll(s)
           IN  /\ Held(t) /\ Same(s, t)
               /\ WillBeShown(s) => WillBeShown(t)
               /\ s.failed => t = s
               /\ ~s.failed /\ Own(s) => ~t.failed /\ t.queue = <<>>
<1> DEFINE q == s.queue
           t == SendAll(s)
           raising == {i \in DOMAIN q : LoadFirst(s, q[i]).failed}
           stop == IF raising = {} THEN Len(q) ELSE Min(raising)
           heard == {i \in 1..stop : i \notin raising /\ q[i] # {}}
           active0 == IF heard = {} THEN s.active ELSE First(q[Max(heard)])
           queue0 == SubSeq(q, stop + 1, Len(q))
           failed0 == (raising # {})
<1>1. /\ s \in State /\ q \in Seq(SUBSET Keys) /\ Len(q) \in Nat /\ DOMAIN q = 1..Len(q)
      /\ DOMAIN s.mappings \in SUBSET Keys
  BY ContentsIs DEF Held, State
<1>2. CASE s.failed
  <2>1. t = s
    BY <1>2 DEF SendAll
  <2> HIDE DEF t
  <2> QED BY <1>2, <2>1 DEF Same, t
<1>3. CASE ~s.failed
  <2>1. t = [s EXCEPT !.active = active0, !.queue = queue0, !.failed = failed0]
    BY <1>3 DEF SendAll
  <2>2. /\ stop \in Nat /\ stop <= Len(q)
        /\ raising # {} => stop \in raising
    <3>1. raising \in SUBSET (1..Len(q))
      BY <1>1
    <3> HIDE DEF raising
    <3>2. raising # {} => Min(raising) \in raising /\ Min(raising) \in 1..Len(q)
      BY <1>1, <3>1, MinIsLeast
    <3> HIDE DEF q
    <3>3. CASE raising = {}
      BY <1>1, <3>3
    <3>4. CASE raising # {}
      BY <1>1, <3>2, <3>4
    <3> QED BY <3>3, <3>4
  <2>3. heard # {} => active0 \in DOMAIN s.mappings
    <3>1. ASSUME heard # {} PROVE Max(heard) \in heard
      <4>1. heard \in SUBSET (1..stop)
        OBVIOUS
      <4> HIDE DEF heard, stop
      <4> QED BY <2>2, <3>1, <4>1, MaxIsIn
    <3>2. ASSUME NEW i \in heard
          PROVE  First(q[i]) \in DOMAIN s.mappings
      <4>1. i \in DOMAIN q /\ q[i] # {} /\ ~LoadFirst(s, q[i]).failed /\ q[i] \in SUBSET Keys
        <5>1. i \in 1..stop /\ i \notin raising /\ q[i] # {}
          OBVIOUS
        <5> HIDE DEF stop
        <5>2. i \in DOMAIN q
          BY <1>1, <2>2, <5>1
        <5> QED BY <1>1, <5>1, <5>2
      <4> HIDE DEF heard, q
      <4> QED BY <1>3, <4>1, LoadFirstEffect
    <3> HIDE DEF heard
    <3> QED BY <3>1, <3>2
  <2>4. queue0 \in Seq(SUBSET Keys) /\ Len(queue0) = Len(q) - stop
        /\ (stop < Len(q) => queue0 # <<>> /\ queue0[Len(queue0)] = q[Len(q)])
    <3> HIDE DEF stop
    <3>1. \A i \in (stop + 1)..Len(q) : q[i] \in SUBSET Keys
      BY <1>1, <2>2
    <3>2. /\ queue0 \in Seq(SUBSET Keys)
          /\ Len(queue0) = IF stop + 1 <= Len(q) THEN Len(q) - (stop + 1) + 1 ELSE 0
          /\ \A i \in 1..(Len(q) - (stop + 1) + 1) : queue0[i] = q[stop + 1 + i - 1]
      BY <1>1, <2>2, <3>1, SubSeqProperties
    <3> HIDE DEF queue0, q
    <3>3. Len(queue0) = Len(q) - stop
      <4>1. Len(q) \in Nat /\ stop \in Nat /\ stop <= Len(q)
        BY <1>1, <2>2
      <4>2. CASE stop + 1 <= Len(q)
        BY <3>2, <4>1, <4>2
      <4>3. CASE ~(stop + 1 <= Len(q))
        BY <3>2, <4>1, <4>3
      <4> QED BY <4>2, <4>3
    <3>4. stop < Len(q) => queue0 # <<>> /\ queue0[Len(queue0)] = q[Len(q)]
      <4> HAVE stop < Len(q)
      <4>1. Len(queue0) \in 1..(Len(q) - (stop + 1) + 1)
        BY <1>1, <2>2, <3>3
      <4>2. queue0[Len(queue0)] = q[stop + 1 + Len(queue0) - 1]
        BY <3>2, <4>1
      <4>3. stop + 1 + Len(queue0) - 1 = Len(q)
        BY <1>1, <2>2, <3>3
      <4>4. queue0 # <<>>
        BY <3>2, <4>1
      <4> QED BY <4>2, <4>3, <4>4
    <3> QED BY <3>2, <3>3, <3>4
  <2>5. failed0 \in BOOLEAN /\ active0 \in Keys \cup {None}
        /\ (active0 # None => active0 \in DOMAIN s.mappings)
    <3>1. s.active \in Keys \cup {None} /\ (s.active # None => s.active \in DOMAIN s.mappings)
      BY DEF Held, State
    <3> HIDE DEF heard
    <3> QED BY <1>1, <2>3, <3>1
  <2>6. ASSUME DOMAIN s.mappings # {}, active0 = None, WillBeShown(s)
        PROVE  queue0 # <<>> /\ queue0[Len(queue0)] = DOMAIN s.mappings
    <3>1. heard = {} /\ s.active = None
      <4>1. None \notin DOMAIN s.mappings
        BY <1>1, StoreAssumption DEF Keys
      <4> HIDE DEF heard
      <4> QED BY <2>3, <2>6, <4>1
    <3>2. q # <<>> /\ q[Len(q)] = DOMAIN s.mappings
      BY <2>6, <3>1 DEF WillBeShown
    <3>3. Len(q) \in DOMAIN q /\ q[Len(q)] \in SUBSET Keys
      BY <1>1, <3>2
    <3>4. Len(q) \notin raising
      <4>1. ~LoadFirst(s, q[Len(q)]).failed
        <5> HIDE DEF q
        <5> QED BY <1>3, <3>2, <3>3, LoadFirstEffect
      <4> QED BY <4>1
    <3>5. Len(q) \notin heard
      BY <3>1
    <3>6. stop # Len(q)
      BY <1>1, <2>6, <3>2, <3>3, <3>4, <3>5
    <3>7. stop < Len(q)
      <4> HIDE DEF stop
      <4> QED BY <1>1, <2>2, <3>6
    <3> QED BY <2>4, <3>2, <3>7
  <2>7. Own(s) => raising = {} /\ queue0 = <<>>
    <3> HAVE Own(s)
    <3>1. raising = {}
      BY <1>1, <1>3, LoadFirstEffect DEF Own
    <3>2. Len(queue0) = 0
      BY <1>1, <2>4, <3>1
    <3> HIDE DEF queue0
    <3> QED BY <2>4, <3>1, <3>2
  <2> HIDE DEF active0, queue0, failed0, t
  <2>8. /\ t \in State /\ t.active = active0 /\ t.queue = queue0 /\ t.failed = failed0
        /\ Same(s, t)
    BY <1>1, <2>1, <2>4, <2>5 DEF State, Same
  <2>9. Held(t)
    BY <2>5, <2>8 DEF Held, Same
  <2>10. WillBeShown(s) => WillBeShown(t)
    BY <2>6, <2>8 DEF WillBeShown, Same
  <2>11. Own(s) => ~t.failed /\ t.queue = <<>>
    <3>1. Own(s) => failed0 = FALSE
      BY <2>7 DEF failed0
    <3> QED BY <2>7, <2>8, <3>1, Zenon
  <2> QED BY <1>3, <2>8, <2>9, <2>10, <2>11 DEF t
<1> QED BY <1>2, <1>3

\* In the course of an operation, no message waits but those that it sent itself, from a
\* dialog.
Calm(s) == ~s.failed /\ Own(s) /\ (Idle => s.queue = <<>>)

LEMMA SendEffect ==
    ASSUME NEW s, Held(s)
    PROVE  LET t == Send(s)
           IN  /\ Held(t) /\ Same(s, t)
               /\ WillBeShown(s) => WillBeShown(t)
               /\ ~s.failed /\ Own(s) => Calm(t)
<1>1. CASE asking = None
  <2> DEFINE t == SendAll(s)
  <2>1. Send(s) = t
    BY <1>1 DEF Send
  <2>2. /\ Held(t) /\ Same(s, t)
        /\ WillBeShown(s) => WillBeShown(t)
        /\ ~s.failed /\ Own(s) => ~t.failed /\ t.queue = <<>>
    BY SendAllEffect
  <2> HIDE DEF t
  <2>3. t.queue = <<>> => Own(t)
    BY DEF Own
  <2> QED BY <2>1, <2>2, <2>3 DEF Calm
<1>2. CASE asking # None
  BY <1>2 DEF Send, Same, Calm, Idle
<1> QED BY <1>1, <1>2

LEMMA PublishEffect ==
    ASSUME NEW s, Held(s)
    PROVE  LET t == Publish(s)
           IN  /\ Held(t) /\ Same(s, t)
               /\ WillBeShown(s) => WillBeShown(t)
               /\ Calm(s) => Calm(t)
<1>1. CASE s.failed
  BY <1>1 DEF Publish, Same
<1>2. CASE ~s.failed
  BY <1>2, SendEffect DEF Publish, Calm
<1> QED BY <1>1, <1>2

LEMMA SameKeeps ==
    ASSUME NEW s, NEW t, Same(s, t)
    PROVE  /\ HasFile(s) => HasFile(t)
           /\ Synced(s) => Synced(t)
           /\ FilesStay(s, t)
<1> QED BY DEF Same, HasFile, Synced, FilesStay

\* The new message takes care of the mapping that is shown.
LEMMA PublishPresetEffect ==
    ASSUME NEW s, Held(s)
    PROVE  LET t == PublishPreset(s)
           IN  /\ Held(t) /\ Same(s, t)
               /\ ~s.failed \/ WillBeShown(s) => WillBeShown(t)
               /\ Calm(s) => Calm(t)
<1> DEFINE queue0 == Append(s.queue, DOMAIN s.mappings)
           u == [s EXCEPT !.queue = queue0]
<1>1. CASE s.failed
  BY <1>1 DEF PublishPreset, Same, Calm
<1>2. CASE ~s.failed
  <2>1. s \in State /\ DOMAIN s.mappings \in SUBSET Keys /\ s.queue \in Seq(SUBSET Keys)
    BY ContentsIs DEF Held, State
  <2>2. /\ queue0 \in Seq(SUBSET Keys) /\ queue0 # <<>> /\ Len(queue0) = Len(s.queue) + 1
        /\ \A i \in 1..Len(s.queue) : queue0[i] = s.queue[i]
        /\ queue0[Len(queue0)] = DOMAIN s.mappings
    BY <2>1, AppendProperties
  <2> HIDE DEF queue0
  <2>3. /\ u \in State /\ u.queue = queue0 /\ u.active = s.active /\ u.failed = s.failed
        /\ Same(s, u)
    BY <2>1, <2>2 DEF State, Same
  <2> HIDE DEF u
  <2>4. Held(u) /\ WillBeShown(u)
    BY <2>2, <2>3 DEF Held, WillBeShown, Same
  <2>5. Own(s) => Own(u)
    <3> HAVE Own(s)
    <3> SUFFICES ASSUME NEW i \in DOMAIN queue0 PROVE queue0[i] = DOMAIN s.mappings
      BY <2>3 DEF Own, Same
    <3>1. i \in 1..Len(s.queue) \/ i = Len(queue0)
      BY <2>1, <2>2
    <3>2. \A j \in 1..Len(s.queue) : s.queue[j] = DOMAIN s.mappings
      BY <2>1 DEF Own
    <3> QED BY <2>2, <3>1, <3>2
  <2> DEFINE t == Send(u)
  <2>6. /\ Held(t) /\ Same(u, t) /\ WillBeShown(t)
        /\ ~u.failed /\ Own(u) => Calm(t)
    BY <2>4, SendEffect
  <2>7. PublishPreset(s) = t
    BY <1>2 DEF PublishPreset, u, queue0
  <2> HIDE DEF t
  <2>8. Same(s, t) /\ (Calm(s) => Calm(t))
    BY <1>2, <2>3, <2>5, <2>6 DEF Same, Calm
  <2> QED BY <2>6, <2>7, <2>8
<1> QED BY <1>1, <1>2

LEMMA FailsEffect ==
    ASSUME NEW s, Held(s)
    PROVE  LET t == Fails(s)
           IN  /\ Held(t) /\ Same(s, t) /\ t.failed
               /\ t.active = s.active /\ t.queue = s.queue
               /\ WillBeShown(s) => WillBeShown(t)
<1> DEFINE t == Fails(s)
<1>1. s \in State /\ t = [s EXCEPT !.failed = TRUE]
  BY DEF Held, Fails
<1> HIDE DEF t
<1>2. /\ t \in State /\ Same(s, t) /\ t.active = s.active /\ t.queue = s.queue
      /\ t.failed = TRUE
  BY <1>1 DEF State, Same
<1>3. t.failed
  BY <1>2, Zenon
<1> QED BY <1>2, <1>3 DEF Held, WillBeShown, Same, t

-----------------------------------------------------------------------------
(* Presets are saved and loaded.                                           *)

LEMMA ReadType ==
    ASSUME NEW content \in FileContents \cup {None}
    PROVE  Read(content) \in FileContents /\ (content # None => Read(content) = content)
<1> QED BY NoMappingsType DEF Read

\* Preset.save, if what is believed to be in the file is in it.
LEMMA SaveEffect ==
    ASSUME NEW s, Held(s), ~s.failed, s.preset # None
    PROVE  LET t == Save(s)
           IN  /\ Held(t) /\ HasFile(t) /\ FilesStay(s, t)
               /\ WillBeShown(s) => WillBeShown(t)
               /\ Calm(s) => Calm(t)
               /\ s.saved = Read(s.files[Model[s.group]][s.preset]) => Synced(t)
               /\ t.group = s.group /\ t.preset = s.preset /\ t.mappings = s.mappings
               /\ t.active = s.active /\ t.queue = s.queue /\ ~t.failed
<1> DEFINE t == Save(s)
           same == s.mappings = s.saved
           content == IF same THEN Read(s.files[Model[s.group]][s.preset]) ELSE Savable(s.mappings)
           saved0 == IF same THEN s.saved ELSE Savable(s.mappings)
           files0 == [s.files EXCEPT ![Model[s.group]] =
                          [s.files[Model[s.group]] EXCEPT ![s.preset] = content]]
<1>1. /\ s \in State /\ s.group \in Groups /\ s.preset \in Presets
      /\ s.files[Model[s.group]][s.preset] \in FileContents \cup {None}
      /\ s.mappings \in Contents /\ s.saved \in FileContents
  BY ModelType DEF Held, State
<1>2. content \in FileContents /\ saved0 \in FileContents /\ content # None
  BY <1>1, ReadType, SavableType, ContentsIs DEF FileContents
<1>3. t = [s EXCEPT !.files = files0, !.saved = saved0, !.tuned = FALSE]
  <2>1. CASE same
    <3>1. t = [s EXCEPT !.files[Model[s.group]][s.preset] = Read(@), !.tuned = FALSE]
      BY <2>1 DEF Save
    <3>2. files0 = [s.files EXCEPT ![Model[s.group]][s.preset] = Read(@)] /\ saved0 = s.saved
      BY <2>1
    <3> QED BY ModelType, <1>1, <3>1, <3>2 DEF State
  <2>2. CASE ~same
    BY <1>1, <2>2 DEF Save, State
  <2> QED BY <2>1, <2>2
<1>4. /\ files0 \in [Models -> [Presets -> FileContents \cup {None}]]
      /\ files0[Model[s.group]][s.preset] = content
      /\ \A d \in Models, p \in Presets :
            files0[d][p] = IF d = Model[s.group] /\ p = s.preset THEN content ELSE s.files[d][p]
  <2> HIDE DEF content
  <2> QED BY ModelType, <1>1, <1>2 DEF State
<1>5. Savable(s.mappings) = saved0
  BY <1>1, SavableType
<1>6. s.saved = Read(s.files[Model[s.group]][s.preset]) => content = saved0
  OBVIOUS
<1> HIDE DEF t, content, saved0, files0
<1>7. /\ t \in State /\ t.files = files0 /\ t.saved = saved0 /\ t.tuned = FALSE
      /\ t.group = s.group /\ t.preset = s.preset /\ t.mappings = s.mappings
      /\ t.active = s.active /\ t.queue = s.queue /\ t.failed = s.failed
  BY <1>1, <1>2, <1>3, <1>4 DEF State
<1>8. Held(t) /\ (WillBeShown(s) => WillBeShown(t))
  BY <1>7 DEF Held, WillBeShown
<1>9. HasFile(t) /\ FilesStay(s, t)
  BY <1>2, <1>4, <1>7 DEF HasFile, FilesStay
<1>10. s.saved = Read(s.files[Model[s.group]][s.preset]) => Synced(t)
  BY <1>4, <1>5, <1>6, <1>7 DEF Synced
<1>11. (Calm(s) => Calm(t)) /\ ~t.failed
  BY <1>7 DEF Calm, Own
<1> QED BY <1>7, <1>8, <1>9, <1>10, <1>11 DEF t

\* Another preset is held, with what its file has.
LEMMA HoldingEffect ==
    ASSUME NEW s, s \in State, NEW p \in Presets \cup {None}, NEW content \in FileContents,
           p = None => content = NoMappings, p # None => s.group # None
    PROVE  LET t == Holding(s, p, content)
           IN  /\ Held(t) /\ t.preset = p /\ t.group = s.group /\ t.files = s.files
               /\ t.mappings = content /\ t.saved = content /\ t.active = None
               /\ t.queue = s.queue /\ t.failed = s.failed
<1> DEFINE t == Holding(s, p, content)
<1>1. t = [s EXCEPT !.preset = p, !.active = None, !.mappings = content, !.saved = content,
                    !.tuned = FALSE]
  BY DEF Holding
<1>2. content \in Contents
  BY DEF FileContents
<1> HIDE DEF t
<1>3. /\ t \in State /\ t.preset = p /\ t.group = s.group /\ t.files = s.files
      /\ t.mappings = content /\ t.saved = content /\ t.active = None
      /\ t.queue = s.queue /\ t.failed = s.failed
  BY <1>1, <1>2 DEF State
<1> QED BY <1>3 DEF Held, t

\* DataManager.load_preset
LEMMA LoadPresetEffect ==
    ASSUME NEW s, Sound(s), s.group # None, NEW p \in Presets
    PROVE  LET t == LoadPreset(s, p)
           IN  /\ Sound(t) /\ t.files = s.files /\ t.group = s.group
               /\ t.preset \in {p, s.preset}
               /\ Calm(s) /\ s.queue = <<>> /\ s.files[Model[s.group]][p] # None =>
                    Calm(t) /\ Synced(t) /\ ~t.failed
               /\ s.failed \/ s.files[Model[s.group]][p] = None => t = Fails(s)
<1> DEFINE t == LoadPreset(s, p)
           content == s.files[Model[s.group]][p]
           h == Holding(s, p, content)
<1>1. s \in State /\ s.group \in Groups /\ content \in FileContents \cup {None}
  BY ModelType DEF Sound, Held, State
<1>2. CASE s.failed \/ content = None
  <2>1. t = Fails(s)
    BY <1>2 DEF LoadPreset
  <2>2. Sound(Fails(s)) /\ Same(s, Fails(s))
    BY FailsEffect, SameKeeps DEF Sound
  <2> HIDE DEF t
  <2> QED BY <1>2, <2>1, <2>2 DEF Same, Calm, t
<1>3. CASE ~s.failed /\ content # None
  <2>1. t = PublishPreset(h)
    BY <1>3 DEF LoadPreset
  <2>2. /\ Held(h) /\ h.preset = p /\ h.group = s.group /\ h.files = s.files
        /\ h.mappings = content /\ h.saved = content /\ h.queue = s.queue
        /\ h.failed = s.failed
    BY <1>1, <1>3, HoldingEffect, StoreAssumption
  <2> HIDE DEF h
  <2>3. Synced(h) /\ HasFile(h)
    <3>1. content \in Contents => Savable(content) = content
      BY <1>1, <1>3, SavableType
    <3> QED BY <1>1, <1>3, <2>2, <3>1 DEF Synced, HasFile, FileContents
  <2>4. Calm(s) /\ s.queue = <<>> => Calm(h)
    BY <2>2 DEF Calm, Own
  <2>5. /\ Held(t) /\ Same(h, t) /\ WillBeShown(t) /\ (Calm(h) => Calm(t))
    BY <1>3, <2>1, <2>2, PublishPresetEffect
  <2> HIDE DEF t
  <2>6. HasFile(t) /\ Synced(t)
    BY <2>3, <2>5, SameKeeps
  <2> QED BY <1>3, <2>2, <2>4, <2>5, <2>6 DEF Sound, Same, Calm, t
<1> QED BY <1>2, <1>3

\* DataManager.create_preset
LEMMA CreatePresetEffect ==
    ASSUME NEW s, Sound(s), s.group # None, NEW p \in Presets
    PROVE  LET t == CreatePreset(s, p)
           IN  /\ Sound(t) /\ FilesStay(s, t) /\ t.group = s.group /\ t.preset = s.preset
               /\ Calm(s) /\ s.queue = <<>> => Calm(t)
               /\ Calm(s) => t.files[Model[s.group]][p] # None
               /\ s.queue = <<>> => t.queue = <<>>
<1> DEFINE t == CreatePreset(s, p)
           files0 == [s.files EXCEPT ![Model[s.group]] =
                          [s.files[Model[s.group]] EXCEPT ![p] = NoMappings]]
           u == [s EXCEPT !.files = files0]
<1>1. s \in State /\ s.group \in Groups
  BY DEF Sound, Held, State
<1>2. CASE s.failed
  BY <1>2 DEF CreatePreset, FilesStay, Calm
<1>3. CASE ~s.failed
  <2>1. t = Publish(u)
    BY <1>1, <1>3 DEF CreatePreset, State
  <2>2. /\ files0 \in [Models -> [Presets -> FileContents \cup {None}]]
        /\ \A d \in Models, r \in Presets :
              files0[d][r] = IF d = Model[s.group] /\ r = p THEN NoMappings ELSE s.files[d][r]
    BY <1>1, NoMappingsType DEF State
  <2> HIDE DEF files0
  <2>3. /\ u \in State /\ u.files = files0 /\ u.group = s.group /\ u.preset = s.preset
        /\ u.mappings = s.mappings /\ u.active = s.active /\ u.queue = s.queue
        /\ u.failed = s.failed
    BY <1>1, <2>2 DEF State
  <2> HIDE DEF u
  <2>4. Held(u) /\ WillBeShown(u) /\ (Calm(s) => Calm(u))
    BY <2>3 DEF Sound, Held, WillBeShown, Calm, Own
  <2>5. HasFile(u) /\ FilesStay(s, u)
    <3>1. s.preset \in Presets \cup {None}
      BY <1>1 DEF State
    <3> QED BY ModelType, <1>1, <2>2, <2>3, <3>1, NoMappingsType DEF Sound, HasFile, FilesStay
  <2>6. Held(t) /\ Same(u, t) /\ WillBeShown(t) /\ (Calm(u) => Calm(t))
    BY <2>1, <2>4, PublishEffect
  <2>7. s.queue = <<>> => t.queue = <<>>
    <3>1. u.queue = <<>> => Own(u)
      BY DEF Own
    <3>2. ~u.failed
      BY <1>3, <2>3
    <3>3. u.queue = <<>> /\ asking = None => SendAll(u).queue = <<>>
      BY <2>4, <3>1, <3>2, SendAllEffect
    <3> QED BY <2>1, <2>3, <3>2, <3>3 DEF Publish, Send
  <2> HIDE DEF t
  <2>8. HasFile(t) /\ FilesStay(u, t)
    BY <2>5, <2>6, SameKeeps
  <2>9. FilesStay(s, t) /\ t.files[Model[s.group]][p] # None
    BY ModelType, <1>1, <2>2, <2>3, <2>5, <2>6, NoMappingsType DEF FilesStay, Same
  <2> QED BY <2>3, <2>4, <2>6, <2>7, <2>8, <2>9 DEF Sound, Same, t
<1> QED BY <1>2, <1>3

\* Controller.get_a_preset, when none is loaded.
LEMMA LoadAPresetEffect ==
    ASSUME NEW s, Sound(s), s.group # None, NEW t \in LoadAPreset(s)
    PROVE  /\ Sound(t) /\ FilesStay(s, t) /\ t.group = s.group
           /\ Calm(s) /\ s.queue = <<>> => Calm(t) /\ Synced(t)
<1>1. CASE s.failed
  BY <1>1 DEF LoadAPreset, FilesStay, Calm
<1>2. CASE ~s.failed /\ Existing(s) # {}
  <2>1. PICK p \in Existing(s) : t = LoadPreset(s, p)
    BY <1>2 DEF LoadAPreset
  <2>2. p \in Presets /\ s.files[Model[s.group]][p] # None
    BY DEF Existing
  <2> QED BY <2>1, <2>2, LoadPresetEffect DEF FilesStay
<1>3. CASE ~s.failed /\ Existing(s) = {}
  <2>1. PICK p \in Presets : t = LoadPreset(CreatePreset(s, p), p)
    BY <1>3 DEF LoadAPreset
  <2> DEFINE c == CreatePreset(s, p)
  <2>2. /\ Sound(c) /\ FilesStay(s, c) /\ c.group = s.group
        /\ Calm(s) /\ s.queue = <<>> => Calm(c)
        /\ Calm(s) => c.files[Model[c.group]][p] # None
        /\ s.queue = <<>> => c.queue = <<>>
    BY CreatePresetEffect
  <2> HIDE DEF c
  <2>3. /\ Sound(t) /\ t.files = c.files /\ t.group = c.group
        /\ Calm(c) /\ c.queue = <<>> /\ c.files[Model[c.group]][p] # None => Calm(t) /\ Synced(t)
    BY <2>1, <2>2, LoadPresetEffect DEF c
  <2> QED BY <2>2, <2>3 DEF FilesStay
<1> QED BY <1>1, <1>2, <1>3

-----------------------------------------------------------------------------
(* The operations.                                                         *)

\* Between two operations, and the names that other files know.
Inv ==
    /\ Sound(Now)
    /\ last \in [Groups -> Presets \cup {None}]
    /\ rules \subseteq Groups \X Presets
    /\ asking # None => preset # None

\* As long as windowd applies nothing while a dialog is open, messages do not fail, and no
\* edit is left unsaved because of that.
Quiet == ~Meanwhile /\ Synced(Now) /\ queue = <<>>

LEMMA NowFields ==
    /\ Now.files = files /\ Now.group = group /\ Now.preset = preset
    /\ Now.mappings = mappings /\ Now.saved = saved /\ Now.active = active
    /\ Now.queue = queue /\ Now.tuned = tuned /\ Now.failed = FALSE /\ ~Now.failed
<1>1. Now.failed = FALSE
  BY DEF Now
<1>2. ~Now.failed
  BY <1>1, Zenon
<1> QED BY <1>2 DEF Now

LEMMA QuietIsCalm == Quiet => Calm(Now) /\ Now.queue = <<>>
BY NowFields DEF Quiet, Calm, Own

LEMMA NowTypes ==
    ASSUME Inv
    PROVE  /\ Held(Now) /\ Now \in State /\ HasFile(Now) /\ WillBeShown(Now)
           /\ files \in [Models -> [Presets -> FileContents \cup {None}]]
           /\ group \in Groups \cup {None} /\ preset \in Presets \cup {None}
           /\ preset # None => group # None /\ group \in Groups /\ files[Model[group]][preset] # None
           /\ mappings \in Contents /\ saved \in FileContents /\ active \in Keys \cup {None}
<1>1. Held(Now) /\ Now \in State /\ HasFile(Now) /\ WillBeShown(Now)
  BY DEF Inv, Sound, Held
<1>2. preset # None => group # None /\ files[Model[group]][preset] # None
  BY <1>1, NowFields DEF Held, HasFile
<1>3. /\ files \in [Models -> [Presets -> FileContents \cup {None}]]
      /\ group \in Groups \cup {None} /\ preset \in Presets \cup {None}
      /\ mappings \in Contents /\ saved \in FileContents /\ active \in Keys \cup {None}
  BY <1>1, NowFields DEF State
<1> QED BY <1>1, <1>2, <1>3

\* An operation is done: what the record says is so.
LEMMA BecomesKeeps ==
    ASSUME NEW r, Sound(r), Becomes(r)
    PROVE  /\ Sound(Now)'
           /\ ~Meanwhile /\ Synced(r) /\ r.queue = <<>> => Quiet'
           /\ files' = r.files /\ group' = r.group /\ preset' = r.preset
<1>1. r \in State
  BY DEF Sound, Held
<1> DEFINE n == [files |-> r.files, group |-> r.group, preset |-> r.preset,
                 mappings |-> r.mappings, saved |-> r.saved, active |-> r.active,
                 queue |-> r.queue, tuned |-> r.tuned, failed |-> FALSE]
<1>2. Now' = n
  BY DEF Becomes, Now
<1>3. n \in State
  BY <1>1 DEF State
<1>4. /\ n.files = r.files /\ n.group = r.group /\ n.preset = r.preset
      /\ n.mappings = r.mappings /\ n.saved = r.saved /\ n.active = r.active
      /\ n.queue = r.queue /\ n.tuned = r.tuned
  OBVIOUS
<1> HIDE DEF n
<1>5. Sound(n) /\ (Synced(r) => Synced(n))
  BY <1>3, <1>4 DEF Sound, Held, HasFile, WillBeShown, Synced
<1>6. Sound(Now)' <=> Sound(n)
  BY <1>2 DEF Sound, Held, HasFile, WillBeShown
<1>7. Synced(Now)' <=> Synced(n)
  BY <1>2 DEF Synced
<1> QED BY <1>5, <1>6, <1>7 DEF Becomes, Quiet

\* What a step may make of the rules.
RulesStep ==
    \A r \in Dangling' \ Dangling : r[1] # group /\ Model[r[1]] = Model[group]

LEMMA RulesStay ==
    ASSUME Inv, NEW s, FilesStay(Now, s), files' = s.files, UNCHANGED rules
    PROVE  RulesStep
<1> SUFFICES ASSUME NEW r \in Dangling' PROVE r \in Dangling
  BY DEF RulesStep
<1>1. r \in rules /\ s.files[Model[r[1]]][r[2]] = None
  BY DEF Dangling
<1>2. Model[r[1]] \in Models /\ r[2] \in Presets
  BY <1>1, StoreAssumption DEF Inv
<1>3. files[Model[r[1]]][r[2]] = None
  BY <1>1, <1>2, NowFields DEF FilesStay
<1> QED BY <1>1, <1>3 DEF Dangling

\* What most operations have to make of a state.
Keeps(r) ==
    /\ Sound(r) /\ FilesStay(Now, r)
    /\ Quiet => Synced(r) /\ r.queue = <<>>

LEMMA OperationKeeps ==
    ASSUME Inv, NEW r, Keeps(r), Becomes(r), last' \in [Groups -> Presets \cup {None}],
           UNCHANGED rules, asking' # None => preset' # None
    PROVE  Inv' /\ (Quiet => Quiet') /\ RulesStep
<1>1. /\ Sound(Now)' /\ files' = r.files
      /\ ~Meanwhile /\ Synced(r) /\ r.queue = <<>> => Quiet'
  BY BecomesKeeps DEF Keeps
<1>2. RulesStep
  BY <1>1, RulesStay DEF Keeps
<1>3. (rules \subseteq Groups \X Presets)'
  BY DEF Inv
<1> QED BY <1>1, <1>2, <1>3 DEF Inv, Keeps, Quiet

LEMMA LastType ==
    ASSUME Inv, NEW r, r \in State, SetLastActivePreset(r)
    PROVE  last' \in [Groups -> Presets \cup {None}]
<1> QED BY DEF Inv, SetLastActivePreset, State

\* What Calm says of an operation that is not run from a dialog.
LEMMA CalmEnds ==
    ASSUME NEW r, Calm(r), Idle
    PROVE  r.queue = <<>>
<1> QED BY DEF Calm

LEMMA PublishKeeps ==
    ASSUME Inv
    PROVE  /\ Sound(Publish(Now)) /\ Same(Now, Publish(Now)) /\ FilesStay(Now, Publish(Now))
           /\ Quiet /\ Idle => Synced(Publish(Now)) /\ Publish(Now).queue = <<>>
<1> DEFINE t == Publish(Now)
<1>1. Held(t) /\ Same(Now, t) /\ WillBeShown(t) /\ (Calm(Now) => Calm(t))
  BY NowTypes, PublishEffect
<1> HIDE DEF t
<1>2. HasFile(t) /\ (Synced(Now) => Synced(t)) /\ FilesStay(Now, t)
  BY <1>1, NowTypes, SameKeeps
<1>3. Quiet /\ Idle => t.queue = <<>>
  BY <1>1, QuietIsCalm, CalmEnds
<1> QED BY <1>1, <1>2, <1>3 DEF Sound, Quiet, t

LEMMA LoadGroupStep ==
    ASSUME Inv, NEW g \in Groups, LoadGroup(g)
    PROVE  Inv' /\ (Quiet => Quiet') /\ RulesStep
<1> DEFINE h == Holding(Now, None, NoMappings)
           u == [h EXCEPT !.group = g]
           left == Publish(u)
           before == last[g]
           again == IF before = None THEN Fails(left) ELSE LoadPreset(left, before)
<1>1. /\ Idle /\ UNCHANGED <<asking, autoload, rules>>
      /\ \E s \in IF again.failed /\ ~left.failed THEN LoadAPreset(left) ELSE {again} :
            Becomes(s) /\ SetLastActivePreset(s)
  BY DEF LoadGroup
<1>2. /\ Held(h) /\ h.preset = None /\ h.files = files /\ h.mappings = NoMappings
      /\ h.active = None /\ h.queue = queue /\ h.failed = FALSE
  <2>1. /\ Held(h) /\ h.preset = None /\ h.files = Now.files /\ h.mappings = NoMappings
        /\ h.active = None /\ h.queue = Now.queue /\ h.failed = Now.failed
    BY NowTypes, NoMappingsType, HoldingEffect
  <2> HIDE DEF h
  <2> QED BY <2>1, NowFields
<1> HIDE DEF h
<1>3. h \in State /\ g # None /\ before \in Presets \cup {None}
  BY <1>2, StoreAssumption DEF Held, Inv
<1>4. /\ u \in State /\ u.preset = None /\ u.files = files /\ u.mappings = NoMappings
      /\ u.active = None /\ u.queue = queue /\ u.failed = FALSE /\ u.group = g
  BY <1>2, <1>3 DEF State
<1>5. ~u.failed
  BY <1>4, Zenon
<1> HIDE DEF u
<1>6. Held(u) /\ HasFile(u) /\ WillBeShown(u) /\ (Quiet => Calm(u))
  BY <1>4, <1>5, NoMappingsType DEF Held, HasFile, WillBeShown, Quiet, Calm, Own
<1>7. Held(left) /\ Same(u, left) /\ WillBeShown(left) /\ (Calm(u) => Calm(left))
  BY <1>6, PublishEffect
<1> HIDE DEF left
<1>8. HasFile(left)
  BY <1>6, <1>7, SameKeeps
<1>9. /\ Sound(left) /\ left.group = g /\ left.group # None /\ left.files = files
      /\ Quiet => Calm(left) /\ left.queue = <<>>
  BY <1>1, <1>3, <1>4, <1>6, <1>7, <1>8, CalmEnds DEF Sound, Same
<1>10. /\ Sound(again) /\ again.files = files
       /\ Calm(left) /\ left.queue = <<>> /\ ~again.failed => Calm(again) /\ Synced(again)
  <2>1. /\ Held(Fails(left)) /\ Same(left, Fails(left)) /\ WillBeShown(Fails(left))
        /\ Fails(left).failed /\ HasFile(Fails(left))
    BY <1>9, FailsEffect, SameKeeps DEF Sound
  <2>2. CASE before = None
    BY <1>9, <2>1, <2>2 DEF Sound, Same
  <2>3. CASE before # None
    <3> DEFINE t == LoadPreset(left, before)
    <3>1. /\ Sound(t) /\ t.files = left.files
          /\ Calm(left) /\ left.queue = <<>> /\ left.files[Model[left.group]][before] # None =>
                Calm(t) /\ Synced(t)
          /\ left.failed \/ left.files[Model[left.group]][before] = None => t = Fails(left)
      BY <1>3, <1>9, <2>3, LoadPresetEffect
    <3> HIDE DEF t
    <3>2. again = t
      BY <2>3 DEF t
    <3> HIDE DEF again
    <3> QED BY <1>9, <2>1, <3>1, <3>2
  <2> QED BY <2>2, <2>3
<1> HIDE DEF again
<1>11. PICK s \in IF again.failed /\ ~left.failed THEN LoadAPreset(left) ELSE {again} :
            Becomes(s) /\ SetLastActivePreset(s)
  BY <1>1
<1>12. Keeps(s)
  <2>1. CASE again.failed /\ ~left.failed
    <3>1. s \in LoadAPreset(left)
      BY <1>11, <2>1
    <3>2. /\ Sound(s) /\ FilesStay(left, s)
          /\ Calm(left) /\ left.queue = <<>> => Calm(s) /\ Synced(s)
      BY <1>9, <3>1, LoadAPresetEffect
    <3> QED BY <1>1, <1>9, <3>2, CalmEnds, NowFields DEF Keeps, FilesStay
  <2>2. CASE ~(again.failed /\ ~left.failed)
    <3>1. s = again
      BY <1>11, <2>2
    <3>2. Quiet => Calm(s) /\ Synced(s)
      BY <1>9, <1>10, <2>2, <3>1 DEF Calm
    <3> QED BY <1>1, <1>10, <3>1, <3>2, CalmEnds, NowFields DEF Keeps, FilesStay
  <2> QED BY <2>1, <2>2
<1>13. last' \in [Groups -> Presets \cup {None}]
  BY <1>11, <1>12, LastType DEF Keeps, Sound, Held
<1>14. asking' # None => preset' # None
  BY <1>1 DEF Idle
<1> QED BY <1>1, <1>11, <1>12, <1>13, <1>14, OperationKeeps

\* A preset is loaded.
LEMMA LoadStep ==
    ASSUME Inv, NEW p \in Presets, group # None, Quiet => Idle,
           Becomes(LoadPreset(Now, p)), SetLastActivePreset(LoadPreset(Now, p)),
           UNCHANGED <<asking, rules>>
    PROVE  Inv' /\ (Quiet => Quiet') /\ RulesStep
<1> DEFINE t == LoadPreset(Now, p)
<1>1. /\ Sound(t) /\ t.files = files /\ t.preset \in {p, preset}
      /\ Calm(Now) /\ Now.queue = <<>> /\ files[Model[group]][p] # None => Calm(t) /\ Synced(t)
      /\ files[Model[group]][p] = None => t = Fails(Now)
  BY NowFields, LoadPresetEffect DEF Inv
<1>2. Fails(Now).queue = queue /\ (Synced(Now) => Synced(Fails(Now)))
  BY NowTypes, NowFields, FailsEffect, SameKeeps
<1> HIDE DEF t
<1>3. Quiet => Synced(t) /\ t.queue = <<>>
  <2>1. CASE files[Model[group]][p] = None
    BY <1>1, <1>2, <2>1 DEF Quiet
  <2>2. CASE files[Model[group]][p] # None
    BY <1>1, <2>2, QuietIsCalm, CalmEnds
  <2> QED BY <2>1, <2>2
<1>4. Keeps(t)
  BY <1>1, <1>3, NowFields DEF Keeps, FilesStay
<1>5. Becomes(t) /\ SetLastActivePreset(t)
  BY DEF t
<1>6. last' \in [Groups -> Presets \cup {None}]
  BY <1>1, <1>5, LastType DEF Sound, Held
<1>7. asking' # None => preset' # None
  <2>1. preset' = t.preset
    BY <1>5 DEF Becomes
  <2>2. p # None
    BY StoreAssumption
  <2> QED BY <1>1, <2>1, <2>2 DEF Inv
<1> QED BY <1>4, <1>5, <1>6, <1>7, OperationKeeps

LEMMA SelectPresetStep ==
    ASSUME Inv, NEW p \in Presets, SelectPreset(p) \/ FollowActive(p)
    PROVE  Inv' /\ (Quiet => Quiet') /\ RulesStep
<1>1. CASE SelectPreset(p)
  BY <1>1, NowTypes, LoadStep DEF SelectPreset, Editing
<1>2. CASE FollowActive(p)
  BY <1>2, LoadStep DEF FollowActive, Quiet
<1> QED BY <1>1, <1>2

LEMMA AddPresetStep ==
    ASSUME Inv, NEW p \in Presets, AddPreset(p)
    PROVE  Inv' /\ (Quiet => Quiet') /\ RulesStep
<1> DEFINE c == CreatePreset(Now, p)
           t == LoadPreset(c, p)
<1>1. Idle /\ group # None /\ Becomes(t) /\ UNCHANGED <<asking, autoload, last, rules>>
  BY DEF AddPreset, KeepsNames, nameVars
<1>2. /\ Sound(c) /\ FilesStay(Now, c) /\ c.group = group
      /\ Calm(Now) /\ Now.queue = <<>> => Calm(c)
      /\ Calm(Now) => c.files[Model[group]][p] # None
      /\ Now.queue = <<>> => c.queue = <<>>
  BY <1>1, NowFields, CreatePresetEffect DEF Inv
<1> HIDE DEF c
<1>3. /\ Sound(t) /\ t.files = c.files
      /\ Calm(c) /\ c.queue = <<>> /\ c.files[Model[c.group]][p] # None => Calm(t) /\ Synced(t)
  BY <1>1, <1>2, LoadPresetEffect
<1> HIDE DEF t
<1>4. Keeps(t)
  BY <1>1, <1>2, <1>3, QuietIsCalm, CalmEnds DEF Keeps, FilesStay
<1>5. last' \in [Groups -> Presets \cup {None}] /\ (asking' # None => preset' # None)
  BY <1>1 DEF Inv, Idle
<1> QED BY <1>1, <1>4, <1>5, OperationKeeps

\* The preset gets another file.
LEMMA MovedEffect ==
    ASSUME NEW s, Held(s), s.group # None, NEW p \in Presets
    PROVE  LET t == MovedTo(s, p)
           IN  /\ Held(t) /\ t.preset = p /\ t.group = s.group /\ t.files = s.files
               /\ t.saved = Read(s.files[Model[s.group]][p]) /\ t.mappings = s.mappings
               /\ t.tuned = s.tuned
               /\ WillBeShown(s) => WillBeShown(t)
               /\ Calm(s) => Calm(t)
               /\ t.failed = s.failed
<1> DEFINE t == MovedTo(s, p)
           saved0 == Read(s.files[Model[s.group]][p])
<1>1. s \in State /\ s.files[Model[s.group]][p] \in FileContents \cup {None} /\ p # None
  BY StoreAssumption DEF Held, State
<1>2. saved0 \in FileContents
  BY <1>1, ReadType
<1>3. t = [s EXCEPT !.preset = p, !.saved = saved0]
  BY DEF MovedTo
<1> HIDE DEF t, saved0
<1>4. /\ t \in State /\ t.preset = p /\ t.saved = saved0 /\ t.group = s.group
      /\ t.files = s.files /\ t.mappings = s.mappings /\ t.tuned = s.tuned
      /\ t.active = s.active /\ t.queue = s.queue /\ t.failed = s.failed
  BY <1>1, <1>2, <1>3 DEF State
<1>5. Held(t)
  BY <1>1, <1>4 DEF Held
<1> QED BY <1>4, <1>5 DEF WillBeShown, Calm, Own, t, saved0

LEMMA CopyPresetStep ==
    ASSUME Inv, NEW p \in Presets, CopyPreset(p)
    PROVE  Inv' /\ (Quiet => Quiet') /\ RulesStep
<1> DEFINE m == MovedTo(Now, p)
           w == Save(m)
           v == Publish(w)
           t == PublishPreset(v)
<1>1. Editing /\ Becomes(t) /\ UNCHANGED <<asking, autoload, last, rules>>
  BY DEF CopyPreset, KeepsNames, nameVars
<1>2. group # None /\ p # None
  BY <1>1, NowTypes, StoreAssumption DEF Editing
<1>3. /\ Held(m) /\ m.preset = p /\ m.group = group /\ m.files = files
      /\ m.saved = Read(m.files[Model[m.group]][m.preset]) /\ WillBeShown(m)
      /\ Calm(Now) => Calm(m)
      /\ ~m.failed
  <2>1. /\ Held(m) /\ m.preset = p /\ m.group = group /\ m.files = files
        /\ m.saved = Read(files[Model[group]][p]) /\ WillBeShown(m)
        /\ Calm(Now) => Calm(m)
        /\ m.failed = FALSE
    BY <1>2, NowTypes, NowFields, MovedEffect
  <2> HIDE DEF m
  <2>2. ~m.failed
    BY <2>1, Zenon
  <2> QED BY <2>1, <2>2
<1> HIDE DEF m
<1>4. /\ Held(w) /\ HasFile(w) /\ FilesStay(m, w) /\ WillBeShown(w)
      /\ (Calm(m) => Calm(w)) /\ Synced(w) /\ ~w.failed
  BY <1>2, <1>3, SaveEffect
<1> HIDE DEF w
<1>5. Held(v) /\ Same(w, v) /\ WillBeShown(v) /\ (Calm(w) => Calm(v))
  BY <1>4, PublishEffect
<1> HIDE DEF v
<1>6. Held(t) /\ Same(v, t) /\ WillBeShown(t) /\ (Calm(v) => Calm(t))
  BY <1>5, PublishPresetEffect
<1> HIDE DEF t
<1>7. Same(w, t)
  BY <1>5, <1>6 DEF Same
<1>8. HasFile(t) /\ Synced(t) /\ FilesStay(w, t)
  BY <1>4, <1>7, SameKeeps
<1>9. Quiet => t.queue = <<>>
  BY <1>1, <1>3, <1>4, <1>5, <1>6, QuietIsCalm, CalmEnds DEF Editing
<1>10. Keeps(t)
  BY <1>3, <1>4, <1>6, <1>8, <1>9, NowFields DEF Keeps, Sound, FilesStay
<1>11. last' \in [Groups -> Presets \cup {None}] /\ (asking' # None => preset' # None)
  BY <1>1 DEF Inv, Editing, Idle
<1> QED BY <1>1, <1>10, <1>11, OperationKeeps

LEMMA RenamePresetStep ==
    ASSUME Inv, NEW p \in Presets, RenamePreset(p)
    PROVE  Inv' /\ (Quiet => Quiet') /\ RulesStep
<1> DEFINE content == files[Model[group]][preset]
           folder == [files[Model[group]] EXCEPT ![preset] = None, ![p] = content]
           files0 == [files EXCEPT ![Model[group]] = folder]
           moved == [Now EXCEPT !.files = files0]
           m == MovedTo(moved, p)
           v == Publish(m)
           t == PublishPreset(v)
<1>1. /\ preset # None /\ p \in Available /\ content # None
      /\ rules' = RulesFollow(p) /\ UNCHANGED <<asking, last>>
      /\ Becomes(PublishPreset(Publish(MovedTo(
            [Now EXCEPT !.files[Model[group]][preset] = None, !.files[Model[group]][p] = content], p))))
  BY DEF RenamePreset, Editing
<1>2. /\ preset \in Presets /\ group # None /\ group \in Groups /\ p # preset
      /\ files[Model[group]][p] = None /\ p # None /\ Now \in State
      /\ files \in [Models -> [Presets -> FileContents \cup {None}]]
      /\ content \in FileContents
  BY <1>1, NowTypes, NowFields, StoreAssumption DEF Available, Existing
<1>3. [Now EXCEPT !.files[Model[group]][preset] = None, !.files[Model[group]][p] = content] = moved
  BY ModelType, <1>2, NowFields DEF State
<1>4. Becomes(t)
  BY <1>1, <1>3
<1>5. /\ files0 \in [Models -> [Presets -> FileContents \cup {None}]]
      /\ files0[Model[group]][p] = content /\ files0[Model[group]][preset] = None
      /\ \A d \in Models, q \in Presets :
            d # Model[group] \/ (q # p /\ q # preset) => files0[d][q] = files[d][q]
  BY ModelType, <1>2
<1> HIDE DEF files0, content
<1>6. /\ moved \in State /\ moved.files = files0 /\ moved.group = group
      /\ moved.preset = preset /\ moved.mappings = mappings /\ moved.saved = saved
      /\ moved.active = active /\ moved.queue = queue /\ moved.tuned = tuned
      /\ moved.failed = FALSE
  <2>1. /\ moved \in State /\ moved.files = files0 /\ moved.group = Now.group
        /\ moved.preset = Now.preset /\ moved.mappings = Now.mappings
        /\ moved.saved = Now.saved /\ moved.active = Now.active
        /\ moved.queue = Now.queue /\ moved.tuned = Now.tuned /\ moved.failed = Now.failed
    BY <1>2, <1>5 DEF State
  <2> HIDE DEF moved
  <2> QED BY <2>1, NowFields
<1> HIDE DEF moved
<1>7. Held(moved) /\ WillBeShown(moved) /\ (Quiet => Calm(moved))
  <2>1. ~moved.failed
    BY <1>6, Zenon
  <2> QED BY <1>6, <2>1, NowTypes, NowFields DEF Held, WillBeShown, Quiet, Calm, Own
<1>8. /\ Held(m) /\ m.preset = p /\ m.group = group /\ m.files = files0
      /\ m.saved = content /\ m.mappings = mappings /\ m.tuned = tuned
      /\ WillBeShown(m) /\ (Quiet => Calm(m))
  <2>1. /\ Held(m) /\ m.preset = p /\ m.group = moved.group /\ m.files = moved.files
        /\ m.saved = Read(moved.files[Model[moved.group]][p]) /\ m.mappings = moved.mappings
        /\ m.tuned = moved.tuned /\ WillBeShown(m) /\ (Calm(moved) => Calm(m))
    BY <1>2, <1>6, <1>7, MovedEffect
  <2>2. Read(content) = content
    BY <1>1, <1>2, ReadType DEF content
  <2> HIDE DEF m
  <2> QED BY <1>5, <1>6, <1>7, <2>1, <2>2
<1> HIDE DEF m
<1>9. HasFile(m) /\ (Quiet => Synced(m))
  <2>1. content # None
    BY <1>1 DEF content
  <2>2. Quiet => content = saved /\ (~tuned => Savable(mappings) = saved)
    BY <1>1, NowFields DEF Quiet, Synced, content
  <2> QED BY <1>5, <1>8, <2>1, <2>2 DEF HasFile, Synced
<1>10. Held(v) /\ Same(m, v) /\ WillBeShown(v) /\ (Calm(m) => Calm(v))
  BY <1>8, PublishEffect
<1> HIDE DEF v
<1>11. Held(t) /\ Same(v, t) /\ WillBeShown(t) /\ (Calm(v) => Calm(t))
  BY <1>10, PublishPresetEffect
<1> HIDE DEF t
<1>12. Same(m, t)
  BY <1>10, <1>11 DEF Same
<1>13. Sound(t) /\ (Quiet => Synced(t) /\ t.queue = <<>>)
  <2>1. HasFile(t) /\ (Quiet => Synced(t))
    BY <1>9, <1>12, SameKeeps
  <2>2. Quiet => t.queue = <<>>
    BY <1>8, <1>10, <1>11, CalmEnds DEF RenamePreset, Editing
  <2> QED BY <1>11, <2>1, <2>2 DEF Sound
<1>14. Sound(Now)' /\ (Quiet => Quiet') /\ files' = files0
  BY <1>4, <1>8, <1>12, <1>13, BecomesKeeps DEF Quiet, Same
<1>15. rules' \subseteq Groups \X Presets
  <2> SUFFICES ASSUME NEW r \in rules' PROVE r \in Groups \X Presets
    OBVIOUS
  <2>1. PICK old \in rules : r = IF old = <<group, preset>> THEN <<group, p>> ELSE old
    BY <1>1 DEF RulesFollow
  <2> QED BY <1>2, <2>1 DEF Inv
<1>16. RulesStep
  <2> SUFFICES ASSUME NEW r \in Dangling', r \notin Dangling
               PROVE  r[1] # group /\ Model[r[1]] = Model[group]
    BY DEF RulesStep
  <2>1. r \in rules' /\ files0[Model[r[1]]][r[2]] = None
    BY <1>14 DEF Dangling
  <2>2. PICK old \in rules : r = IF old = <<group, preset>> THEN <<group, p>> ELSE old
    BY <1>1, <2>1 DEF RulesFollow
  <2>3. content # None
    BY <1>1 DEF content
  <2>4. old # <<group, preset>>
    <3> SUFFICES ASSUME old = <<group, preset>> PROVE FALSE
      OBVIOUS
    <3>1. r[1] = group /\ r[2] = p
      BY <2>2
    <3> QED BY <1>5, <2>1, <2>3, <3>1
  <2>5. r \in rules /\ r # <<group, preset>>
    BY <2>2, <2>4
  <2>6. r \in Groups \X Presets /\ files[Model[r[1]]][r[2]] # None
    BY <2>5 DEF Inv, Dangling
  <2>7. Model[r[1]] \in Models /\ r[2] \in Presets /\ r = <<r[1], r[2]>>
    BY <2>6, StoreAssumption
  <2>8. Model[r[1]] = Model[group] /\ (r[2] = p \/ r[2] = preset)
    BY <1>5, <2>1, <2>6, <2>7
  <2>9. r[2] # p
    BY <1>5, <2>1, <2>3, <2>8
  <2> QED BY <2>5, <2>7, <2>8, <2>9
<1>17. asking' # None => preset' # None
  BY <1>1 DEF RenamePreset, Editing, Idle
<1> QED BY <1>1, <1>14, <1>15, <1>17, <1>16 DEF Inv

\* Nothing but messages: what refers to presets may change.
LEMMA SetAutoloadStep ==
    ASSUME Inv, NEW status \in BOOLEAN, SetAutoload(status)
    PROVE  Inv' /\ (Quiet => Quiet') /\ RulesStep
<1> DEFINE t == PublishPreset(Now)
<1>1. Editing /\ Becomes(t) /\ UNCHANGED <<asking, last, rules>>
  BY DEF SetAutoload
<1>2. Held(t) /\ Same(Now, t) /\ WillBeShown(t) /\ (Calm(Now) => Calm(t))
  BY NowTypes, PublishPresetEffect
<1> HIDE DEF t
<1>3. HasFile(t) /\ FilesStay(Now, t) /\ (Synced(Now) => Synced(t))
  BY <1>2, NowTypes, SameKeeps
<1>4. Keeps(t)
  BY <1>1, <1>2, <1>3, QuietIsCalm, CalmEnds DEF Keeps, Sound, Quiet, Editing
<1>5. last' \in [Groups -> Presets \cup {None}] /\ (asking' # None => preset' # None)
  BY <1>1 DEF Inv, Editing, Idle
<1> QED BY <1>1, <1>4, <1>5, OperationKeeps

LEMMA SaveWindowRulesStep ==
    ASSUME Inv, NEW some \in BOOLEAN, SaveWindowRules(some)
    PROVE  Inv' /\ (Quiet => Quiet') /\ RulesStep
<1> DEFINE t == Publish(Now)
<1>1. /\ Editing /\ Becomes(t) /\ UNCHANGED <<asking, autoload, last>>
      /\ rules' \subseteq rules \cup {<<group, preset>>}
  BY DEF SaveWindowRules
<1>2. /\ Sound(t) /\ Same(Now, t)
      /\ Quiet /\ Idle => Synced(t) /\ t.queue = <<>>
  BY PublishKeeps
<1> HIDE DEF t
<1>3. Sound(Now)' /\ (Quiet => Quiet') /\ files' = files
  BY <1>1, <1>2, NowFields, BecomesKeeps DEF Quiet, Same, Editing
<1>4. group \in Groups /\ preset \in Presets /\ files[Model[group]][preset] # None
  BY <1>1, NowTypes DEF Editing
<1>5. rules' \subseteq Groups \X Presets
  BY <1>1, <1>4 DEF Inv
<1>6. RulesStep
  BY <1>1, <1>3, <1>4 DEF RulesStep, Dangling
<1>7. asking' # None => preset' # None
  BY <1>1 DEF Editing, Idle
<1> QED BY <1>1, <1>3, <1>5, <1>7, <1>6 DEF Inv

-----------------------------------------------------------------------------
(* Questions.                                                              *)

LEMMA AskStep ==
    ASSUME Inv, AskToDeletePreset \/ AskToDeleteMapping
    PROVE  Inv' /\ (Quiet => Quiet') /\ RulesStep
<1> DEFINE t == Publish(Now)
<1>1. Editing /\ Becomes(t) /\ UNCHANGED <<autoload, last, rules>>
  BY DEF AskToDeletePreset, AskToDeleteMapping, KeepsNames, nameVars
<1>2. Keeps(t) /\ Same(Now, t)
  BY <1>1, PublishKeeps DEF Keeps, Editing
<1> HIDE DEF t
<1>3. last' \in [Groups -> Presets \cup {None}] /\ (asking' # None => preset' # None)
  BY <1>1, <1>2, NowFields DEF Inv, Editing, Becomes, Same
<1> QED BY <1>1, <1>2, <1>3, OperationKeeps

LEMMA CancelStep ==
    ASSUME Inv, Cancel
    PROVE  Inv' /\ (Quiet => Quiet') /\ RulesStep
<1> DEFINE t == SendAll(Now)
<1>1. asking' = None /\ Becomes(t) /\ UNCHANGED <<autoload, last, rules>>
  BY DEF Cancel, KeepsNames, nameVars
<1>2. /\ Held(t) /\ Same(Now, t) /\ WillBeShown(t)
      /\ ~Now.failed /\ Own(Now) => t.queue = <<>>
  BY NowTypes, SendAllEffect
<1> HIDE DEF t
<1>3. HasFile(t) /\ FilesStay(Now, t) /\ (Synced(Now) => Synced(t))
  BY <1>2, NowTypes, SameKeeps
<1>4. Keeps(t)
  BY <1>2, <1>3, QuietIsCalm DEF Keeps, Sound, Quiet, Calm
<1>5. last' \in [Groups -> Presets \cup {None}] /\ (asking' # None => preset' # None)
  BY <1>1 DEF Inv
<1> QED BY <1>1, <1>4, <1>5, OperationKeeps

\* The rules of the preset go with it.
LEMMA DeletePresetStep ==
    ASSUME Inv, DeletePreset
    PROVE  Inv' /\ (Quiet => Quiet') /\ RulesStep
<1> DEFINE h == Holding(Now, None, NoMappings)
           files0 == [files EXCEPT ![Model[group]] = [files[Model[group]] EXCEPT ![preset] = None]]
           gone == [h EXCEPT !.files = files0]
<1>1. /\ asking # None /\ asking' = None /\ rules' = RulesFollow(None)
      /\ UNCHANGED <<autoload, last>>
      /\ \E s \in LoadAPreset([h EXCEPT !.files[Model[group]][preset] = None]) : Becomes(SendAll(s))
  BY DEF DeletePreset
<1>2. /\ preset # None /\ preset \in Presets /\ group \in Groups /\ group # None
      /\ files \in [Models -> [Presets -> FileContents \cup {None}]]
  BY <1>1, NowTypes DEF Inv
<1>3. /\ Held(h) /\ h \in State /\ h.preset = None /\ h.group = group /\ h.files = files
      /\ h.mappings = NoMappings /\ h.active = None /\ h.queue = queue /\ h.failed = FALSE
  <2>1. /\ Held(h) /\ h.preset = None /\ h.group = Now.group /\ h.files = Now.files
        /\ h.mappings = NoMappings /\ h.active = None /\ h.queue = Now.queue
        /\ h.failed = Now.failed
    BY NowTypes, NoMappingsType, HoldingEffect
  <2> HIDE DEF h
  <2> QED BY <2>1, NowFields DEF Held
<1> HIDE DEF h
<1>4. [h EXCEPT !.files[Model[group]][preset] = None] = gone
  BY <1>2, <1>3 DEF State
<1>5. /\ files0 \in [Models -> [Presets -> FileContents \cup {None}]]
      /\ files0[Model[group]][preset] = None
      /\ \A d \in Models, q \in Presets :
            d # Model[group] \/ q # preset => files0[d][q] = files[d][q]
  BY ModelType, <1>2
<1> HIDE DEF files0
<1>6. /\ gone \in State /\ gone.files = files0 /\ gone.group = group /\ gone.preset = None
      /\ gone.mappings = NoMappings /\ gone.active = None /\ gone.queue = queue
      /\ gone.failed = FALSE
  BY <1>3, <1>5 DEF State
<1>7. ~gone.failed
  BY <1>6, Zenon
<1>8. PICK s \in LoadAPreset(gone) : Becomes(SendAll(s))
  BY <1>1, <1>4
<1> HIDE DEF gone
<1>9. Sound(gone) /\ (Quiet => Calm(gone) /\ gone.queue = <<>>)
  BY <1>1, <1>6, <1>7, NoMappingsType
     DEF Sound, Held, HasFile, WillBeShown, Quiet, Calm, Own
<1>10. /\ Sound(s) /\ FilesStay(gone, s)
       /\ Calm(gone) /\ gone.queue = <<>> => Calm(s) /\ Synced(s)
  BY <1>2, <1>6, <1>8, <1>9, LoadAPresetEffect
<1> DEFINE t == SendAll(s)
<1>11. /\ Held(t) /\ Same(s, t) /\ WillBeShown(t)
       /\ ~s.failed /\ Own(s) => t.queue = <<>>
  BY <1>10, SendAllEffect DEF Sound
<1> HIDE DEF t
<1>12. Sound(t) /\ (Quiet => Synced(t) /\ t.queue = <<>>)
  BY <1>9, <1>10, <1>11, SameKeeps DEF Sound, Calm
<1>13. Becomes(t)
  BY <1>8 DEF t
<1>14. Sound(Now)' /\ (Quiet => Quiet') /\ files' = s.files
  BY <1>11, <1>12, <1>13, BecomesKeeps DEF Quiet, Same
<1>15. rules' \subseteq rules \ {<<group, preset>>}
  <2> SUFFICES ASSUME NEW r \in rules' PROVE r \in rules \ {<<group, preset>>}
    OBVIOUS
  <2>1. r # <<group, None>> /\ \E old \in rules :
            r = IF old = <<group, preset>> THEN <<group, None>> ELSE old
    BY <1>1 DEF RulesFollow
  <2> QED BY <2>1
<1>16. RulesStep
  <2> SUFFICES ASSUME NEW r \in Dangling', r \notin Dangling
               PROVE  r[1] # group /\ Model[r[1]] = Model[group]
    BY DEF RulesStep
  <2>1. r \in rules /\ r # <<group, preset>> /\ s.files[Model[r[1]]][r[2]] = None
    BY <1>14, <1>15 DEF Dangling
  <2>2. r \in Groups \X Presets /\ files[Model[r[1]]][r[2]] # None
    BY <2>1 DEF Inv, Dangling
  <2>3. Model[r[1]] \in Models /\ r[2] \in Presets /\ r = <<r[1], r[2]>>
    BY <2>2, StoreAssumption
  <2>4. files0[Model[r[1]]][r[2]] = None
    BY <1>6, <1>10, <2>1, <2>3 DEF FilesStay
  <2>5. Model[r[1]] = Model[group] /\ r[2] = preset
    BY <1>5, <2>2, <2>3, <2>4
  <2> QED BY <2>1, <2>3, <2>5
<1> QED BY <1>1, <1>14, <1>15, <1>16 DEF Inv

-----------------------------------------------------------------------------
(* The mappings of the preset.                                             *)

\* What is believed to be in the file is in it.
Fresh(s) == s.preset # None => s.files[Model[s.group]][s.preset] = s.saved

\* Preset.save, whatever came before it.
LEMMA SaveAnyEffect ==
    ASSUME NEW s, Sound(s)
    PROVE  LET t == Save(s)
           IN  /\ Sound(t) /\ FilesStay(s, t)
               /\ Calm(s) => Calm(t)
               /\ Fresh(s) /\ ~s.failed => Synced(t)
               /\ t.queue = s.queue
<1>1. CASE s.failed \/ s.preset = None
  BY <1>1 DEF Save, FilesStay, Synced
<1>2. CASE ~s.failed /\ s.preset # None
  <2>1. Held(s) /\ WillBeShown(s) /\ s.files[Model[s.group]][s.preset] # None
        /\ s.saved \in FileContents
    BY <1>2 DEF Sound, HasFile, Held, State
  <2>2. Fresh(s) => s.saved = Read(s.files[Model[s.group]][s.preset])
    BY <1>2, <2>1 DEF Fresh, Read
  <2> QED BY <1>2, <2>1, <2>2, SaveEffect DEF Sound
<1> QED BY <1>1, <1>2

\* Nothing but the mappings and which one is shown is changed: others are told, and the
\* preset may be saved.
LEMMA EditEffect ==
    ASSUME Inv, Editing, NEW u, u \in State, ~u.failed,
           u.files = files, u.group = group, u.preset = preset, u.saved = saved,
           u.queue = queue, u.active \in DOMAIN u.mappings
    PROVE  /\ Keeps(Save(Publish(u)))
           /\ (Quiet => Synced(u)) => Keeps(Publish(u))
<1> DEFINE v == Publish(u)
           w == Save(v)
<1>1. u.active # None
  <2>1. DOMAIN u.mappings \in SUBSET Keys
    BY ContentsIs DEF State
  <2> QED BY <2>1, StoreAssumption DEF Keys
<1>2. preset # None /\ group # None /\ files[Model[group]][preset] # None
  BY NowTypes DEF Editing
<1>3. Held(u) /\ HasFile(u) /\ WillBeShown(u)
  BY <1>1, <1>2 DEF Held, HasFile, WillBeShown
<1>4. Quiet => Calm(u) /\ Fresh(u)
  BY NowFields DEF Quiet, Calm, Own, Synced, Fresh
<1>5. Held(v) /\ Same(u, v) /\ WillBeShown(v) /\ (Calm(u) => Calm(v))
  BY <1>3, PublishEffect
<1> HIDE DEF v
<1>6. HasFile(v) /\ (Synced(u) => Synced(v)) /\ FilesStay(u, v)
  BY <1>3, <1>5, SameKeeps
<1>7. Quiet => Calm(v) /\ Fresh(v) /\ ~v.failed /\ v.queue = <<>>
  BY <1>4, <1>5, CalmEnds DEF Fresh, Same, Calm, Editing
<1>8. Sound(v) /\ FilesStay(Now, v)
  BY <1>5, <1>6, NowFields DEF Sound, FilesStay
<1>9. /\ Sound(w) /\ FilesStay(v, w) /\ w.queue = v.queue
      /\ Fresh(v) /\ ~v.failed => Synced(w)
  BY <1>8, SaveAnyEffect
<1> HIDE DEF w
<1>10. Keeps(w)
  BY <1>7, <1>8, <1>9 DEF Keeps, FilesStay
<1>11. (Quiet => Synced(u)) => Keeps(v)
  BY <1>6, <1>7, <1>8 DEF Keeps
<1> QED BY <1>10, <1>11 DEF v, w

\* What the operations on mappings have in common: they touch no names, and no dialog.
LEMMA EditKeeps ==
    ASSUME Inv, Editing, NEW r, Keeps(r), Becomes(r), UNCHANGED asking, KeepsNames
    PROVE  Inv' /\ (Quiet => Quiet') /\ RulesStep
<1>1. UNCHANGED <<last, rules>>
  BY DEF KeepsNames, nameVars
<1>2. last' \in [Groups -> Presets \cup {None}] /\ (asking' # None => preset' # None)
  BY <1>1 DEF Inv, Editing, Idle
<1> QED BY <1>1, <1>2, OperationKeeps

\* The start of an operation that changes the mappings.
Changed(m0, a0, b0) == [Now EXCEPT !.mappings = m0, !.active = a0, !.tuned = b0]

LEMMA ChangedFields ==
    ASSUME Inv, NEW m0 \in Contents, NEW a0 \in Keys \cup {None}, NEW b0 \in BOOLEAN
    PROVE  LET u == Changed(m0, a0, b0)
           IN  /\ u \in State /\ ~u.failed /\ u.mappings = m0 /\ u.active = a0
               /\ u.tuned = b0 /\ u.files = files /\ u.group = group /\ u.preset = preset
               /\ u.saved = saved /\ u.queue = queue
<1> DEFINE u == Changed(m0, a0, b0)
<1>1. Now \in State
  BY NowTypes
<1>2. /\ u \in State /\ u.mappings = m0 /\ u.active = a0 /\ u.tuned = b0
      /\ u.files = Now.files /\ u.group = Now.group /\ u.preset = Now.preset
      /\ u.saved = Now.saved /\ u.queue = Now.queue /\ u.failed = Now.failed
  BY <1>1 DEF State, Changed
<1> HIDE DEF u
<1>3. u.failed = FALSE
  BY <1>2, NowFields
<1>4. ~u.failed
  BY <1>3, Zenon
<1> QED BY <1>2, <1>4, NowFields DEF u

LEMMA SelectMappingStep ==
    ASSUME Inv, NEW c \in Combos \cup {Empty}, SelectMapping(c)
    PROVE  Inv' /\ (Quiet => Quiet') /\ RulesStep
<1> DEFINE u == Changed(mappings, c, tuned)
<1>1. /\ Editing /\ c \in DOMAIN mappings /\ UNCHANGED asking /\ KeepsNames
      /\ Becomes(Publish([Now EXCEPT !.active = c]))
  BY DEF SelectMapping
<1>2. /\ Now \in State /\ mappings \in Contents /\ tuned \in BOOLEAN
  BY NowTypes, NowFields DEF State
<1>3. [Now EXCEPT !.active = c] = u
  BY <1>2, NowFields DEF State, Changed
<1>4. /\ u \in State /\ ~u.failed /\ u.mappings = mappings /\ u.active = c
      /\ u.tuned = tuned /\ u.files = files /\ u.group = group /\ u.preset = preset
      /\ u.saved = saved /\ u.queue = queue
  BY <1>2, ChangedFields DEF Keys
<1> HIDE DEF u
<1>5. Quiet => Synced(u)
  BY <1>4, NowFields DEF Quiet, Synced
<1>6. Keeps(Publish(u))
  BY <1>1, <1>4, <1>5, EditEffect
<1> QED BY <1>1, <1>3, <1>6, EditKeeps

LEMMA UpdateMappingStep ==
    ASSUME Inv, NEW o \in Outputs, UpdateMapping(o)
    PROVE  Inv' /\ (Quiet => Quiet') /\ RulesStep
<1> DEFINE m0 == [mappings EXCEPT ![active] = o]
           u == Changed(m0, active, tuned)
<1>1. /\ Editing /\ active # None /\ UNCHANGED asking /\ KeepsNames
      /\ Becomes(Save(Publish([Now EXCEPT !.mappings[active] = o])))
  BY DEF UpdateMapping
<1>2. /\ Now \in State /\ mappings \in Contents /\ tuned \in BOOLEAN
      /\ active \in DOMAIN mappings /\ active \in Keys
  BY <1>1, NowTypes, NowFields DEF State, Held
<1>3. [Now EXCEPT !.mappings[active] = o] = u
  BY <1>2, NowFields DEF State, Changed
<1>4. DOMAIN m0 = DOMAIN mappings /\ m0 \in Contents
  <2>1. DOMAIN mappings \in SUBSET Keys /\ mappings \in [DOMAIN mappings -> Outputs \cup {Unset}]
    BY <1>2, ContentsIs
  <2>2. m0 \in [DOMAIN mappings -> Outputs \cup {Unset}]
    BY <2>1
  <2> HIDE DEF m0
  <2> QED BY <2>1, <2>2, ContentsIs
<1> HIDE DEF m0
<1>5. /\ u \in State /\ ~u.failed /\ u.mappings = m0 /\ u.active = active
      /\ u.files = files /\ u.group = group /\ u.preset = preset
      /\ u.saved = saved /\ u.queue = queue
  BY <1>2, <1>4, ChangedFields
<1> HIDE DEF u
<1>6. Keeps(Save(Publish(u)))
  BY <1>1, <1>2, <1>4, <1>5, EditEffect
<1> QED BY <1>1, <1>3, <1>6, EditKeeps

\* UIMapping.__setattr__: if the combination is free, the mapping moves there.
LEMMA RenamedEffect ==
    ASSUME Inv, active # None, NEW c \in Combos, NEW b0 \in BOOLEAN
    PROVE  LET u == [Renamed(Now, c) EXCEPT !.tuned = b0]
           IN  ~Renamed(Now, c).failed =>
                /\ u \in State /\ ~u.failed /\ u.active \in DOMAIN u.mappings /\ u.tuned = b0
                /\ u.files = files /\ u.group = group /\ u.preset = preset
                /\ u.saved = saved /\ u.queue = queue
                /\ b0 = tuned => u = Renamed(Now, c)
<1> DEFINE u == [Renamed(Now, c) EXCEPT !.tuned = b0]
           m0 == [d \in (DOMAIN mappings \ {active}) \cup {c} |->
                     IF d = c THEN mappings[active] ELSE mappings[d]]
           x == Changed(m0, c, b0)
<1>1. /\ Now \in State /\ mappings \in Contents /\ tuned \in BOOLEAN
      /\ active \in DOMAIN mappings
  BY NowTypes, NowFields DEF State, Held
<1>2. CASE c \in DOMAIN mappings
  <2>1. Renamed(Now, c) = Fails(Now)
    BY <1>2, NowFields DEF Renamed
  <2> QED BY <2>1, NowTypes, FailsEffect
<1>3. CASE c \notin DOMAIN mappings
  <2>1. Renamed(Now, c) = [Now EXCEPT !.mappings = m0, !.active = c]
    BY <1>1, <1>3, NowFields DEF Renamed, State
  <2>2. m0 \in Contents /\ c \in DOMAIN m0
    <3>1. DOMAIN mappings \in SUBSET Keys
          /\ mappings \in [DOMAIN mappings -> Outputs \cup {Unset}]
      BY <1>1, ContentsIs
    <3>2. /\ m0 \in [(DOMAIN mappings \ {active}) \cup {c} -> Outputs \cup {Unset}]
          /\ (DOMAIN mappings \ {active}) \cup {c} \in SUBSET Keys
      BY <1>1, <3>1 DEF Keys
    <3> QED BY <3>2, ContentsIs
  <2> HIDE DEF m0
  <2>3. u = x /\ (b0 = tuned => x = Renamed(Now, c))
    BY <1>1, <2>1, NowFields DEF State, Changed
  <2>4. /\ x \in State /\ ~x.failed /\ x.mappings = m0 /\ x.active = c
        /\ x.tuned = b0 /\ x.files = files /\ x.group = group /\ x.preset = preset
        /\ x.saved = saved /\ x.queue = queue
    BY <2>2, ChangedFields DEF Keys
  <2> HIDE DEF u, x
  <2> QED BY <2>2, <2>3, <2>4 DEF u
<1> QED BY <1>2, <1>3

LEMMA UpdateCombinationStep ==
    ASSUME Inv, NEW c \in Combos, UpdateCombination(c) \/ UpdateInputConfig(c)
    PROVE  Inv' /\ (Quiet => Quiet') /\ RulesStep
<1>1. /\ Editing /\ active # None /\ UNCHANGED asking /\ KeepsNames
  BY DEF UpdateCombination, UpdateInputConfig
<1>2. /\ Now \in State /\ tuned \in BOOLEAN /\ active \in DOMAIN mappings
  BY <1>1, NowTypes, NowFields DEF State, Held
<1>3. Keeps(Publish(Now)) /\ Keeps(Save(Publish(Now)))
  BY <1>1, <1>2, NowFields, EditEffect DEF Quiet
<1>4. CASE UpdateCombination(c)
  <2>1. Becomes(IF c = active THEN Save(Publish(Now))
                ELSE IF Renamed(Now, c).failed THEN Publish(Now)
                ELSE Save(Publish(Renamed(Now, c))))
    BY <1>4 DEF UpdateCombination
  <2>2. ~Renamed(Now, c).failed => Keeps(Save(Publish(Renamed(Now, c))))
    <3> DEFINE u == [Renamed(Now, c) EXCEPT !.tuned = tuned]
    <3> HAVE ~Renamed(Now, c).failed
    <3>1. /\ u \in State /\ ~u.failed /\ u.active \in DOMAIN u.mappings
          /\ u.files = files /\ u.group = group /\ u.preset = preset
          /\ u.saved = saved /\ u.queue = queue /\ u = Renamed(Now, c)
      BY <1>1, <1>2, RenamedEffect
    <3> HIDE DEF u
    <3> QED BY <1>1, <3>1, EditEffect
  <2> QED BY <1>1, <1>3, <2>1, <2>2, EditKeeps
<1>5. CASE UpdateInputConfig(c)
  <2> DEFINE u == [Renamed(Now, c) EXCEPT !.tuned = TRUE]
  <2>1. Becomes(IF Renamed(Now, c).failed THEN Publish(Now) ELSE Publish(u))
    BY <1>5 DEF UpdateInputConfig
  <2>2. ~Renamed(Now, c).failed => Keeps(Publish(u))
    <3> HAVE ~Renamed(Now, c).failed
    <3>1. /\ u \in State /\ ~u.failed /\ u.active \in DOMAIN u.mappings
          /\ u.files = files /\ u.group = group /\ u.preset = preset
          /\ u.saved = saved /\ u.queue = queue /\ u.tuned = TRUE
      BY <1>1, RenamedEffect
    <3> HIDE DEF u
    <3>2. u.tuned
      BY <3>1, Zenon
    <3>3. Quiet => Synced(u)
      BY <3>1, <3>2, NowFields DEF Quiet, Synced
    <3> QED BY <1>1, <3>1, <3>3, EditEffect
  <2> HIDE DEF u
  <2> QED BY <1>1, <1>3, <2>1, <2>2, EditKeeps
<1> QED BY <1>4, <1>5

\* The new mapping is not saved, and need not be.
LEMMA CreateMappingStep ==
    ASSUME Inv, CreateMapping
    PROVE  Inv' /\ (Quiet => Quiet') /\ RulesStep
<1> DEFINE m0 == [c \in DOMAIN mappings \cup {Empty} |->
                     IF c = Empty THEN Unset ELSE mappings[c]]
           added == Changed(m0, active, tuned)
           told == PublishPreset(added)
           u == [told EXCEPT !.active = Empty]
           v == Publish(u)
           r == IF told.failed THEN told ELSE v
<1>1. Now \in State /\ mappings \in Contents /\ tuned \in BOOLEAN /\ active \in Keys \cup {None}
  BY NowTypes, NowFields DEF State
<1>2. [Now EXCEPT !.mappings = [c \in DOMAIN @ \cup {Empty} |->
                                   IF c = Empty THEN Unset ELSE @[c]]] = added
  BY <1>1, NowFields DEF State, Changed
<1>3. Editing /\ Empty \notin DOMAIN mappings /\ UNCHANGED asking /\ KeepsNames /\ Becomes(r)
  BY <1>2 DEF CreateMapping
<1>4. /\ m0 \in Contents /\ DOMAIN m0 = DOMAIN mappings \cup {Empty}
      /\ Savable(m0) = Savable(mappings)
  <2>1. DOMAIN mappings \in SUBSET Keys /\ mappings \in [DOMAIN mappings -> Outputs \cup {Unset}]
    BY <1>1, ContentsIs
  <2>2. /\ DOMAIN m0 = DOMAIN mappings \cup {Empty}
        /\ \A c \in DOMAIN m0 : m0[c] = IF c \in DOMAIN mappings THEN mappings[c] ELSE Unset
        /\ m0 \in [DOMAIN mappings \cup {Empty} -> Outputs \cup {Unset}]
    BY <1>3, <2>1
  <2> HIDE DEF m0
  <2>3. DOMAIN mappings \cup {Empty} \in SUBSET Keys
    BY <2>1 DEF Keys
  <2>4. Savable(m0) = Savable(mappings)
    BY <2>2 DEF Savable
  <2> QED BY <2>2, <2>3, <2>4, ContentsIs
<1> HIDE DEF m0
<1>5. /\ added \in State /\ ~added.failed /\ added.mappings = m0 /\ added.active = active
      /\ added.tuned = tuned /\ added.files = files /\ added.group = group
      /\ added.preset = preset /\ added.saved = saved /\ added.queue = queue
  BY <1>1, <1>4, ChangedFields
<1> HIDE DEF added
<1>6. Held(added) /\ HasFile(added)
  BY <1>3, <1>4, <1>5, NowTypes, NowFields DEF Held, HasFile, Editing
<1>7. Quiet => Calm(added) /\ Synced(added)
  BY <1>4, <1>5, NowFields DEF Quiet, Calm, Own, Synced
<1>8. Held(told) /\ Same(added, told) /\ WillBeShown(told) /\ (Calm(added) => Calm(told))
  BY <1>5, <1>6, PublishPresetEffect
<1> HIDE DEF told
<1>9. /\ HasFile(told) /\ FilesStay(Now, told)
      /\ Quiet => Synced(told) /\ Calm(told)
  BY <1>5, <1>6, <1>7, <1>8, SameKeeps, NowFields DEF FilesStay
<1>10. told \in State
  BY <1>8 DEF Held
<1>11. /\ u \in State /\ u.active = Empty /\ Same(told, u) /\ u.queue = told.queue
       /\ u.failed = told.failed
  BY <1>10 DEF State, Same, Keys
<1> HIDE DEF u
<1>12. Held(u) /\ WillBeShown(u) /\ (Calm(told) => Calm(u))
  <2>1. Empty \in DOMAIN u.mappings /\ Empty # None
    BY <1>4, <1>5, <1>8, <1>11, StoreAssumption DEF Same
  <2>2. Held(u) /\ WillBeShown(u)
    BY <1>8, <1>11, <2>1 DEF Held, WillBeShown, Same
  <2> QED BY <1>11, <2>2 DEF Calm, Own, Same
<1>13. Held(v) /\ Same(u, v) /\ WillBeShown(v) /\ (Calm(u) => Calm(v))
  BY <1>12, PublishEffect
<1> HIDE DEF v
<1>14. Same(told, v)
  BY <1>11, <1>13 DEF Same
<1>15. HasFile(v) /\ FilesStay(told, v) /\ (Synced(told) => Synced(v))
  BY <1>9, <1>14, SameKeeps
<1>16. Keeps(r)
  <2>1. Keeps(told)
    BY <1>3, <1>8, <1>9, CalmEnds DEF Keeps, Sound, Editing
  <2>2. Keeps(v)
    BY <1>3, <1>9, <1>12, <1>13, <1>15, CalmEnds DEF Keeps, Sound, FilesStay, Editing
  <2> QED BY <2>1, <2>2
<1> HIDE DEF r
<1> QED BY <1>3, <1>16, EditKeeps

\* The answer of a dialog: messages that it sends are heard when the dialog is closed.
LEMMA DeleteMappingStep ==
    ASSUME Inv, DeleteMapping
    PROVE  Inv' /\ (Quiet => Quiet') /\ RulesStep
<1> DEFINE m0 == [c \in DOMAIN mappings \ {active} |-> mappings[c]]
           u == Changed(m0, None, tuned)
           v == PublishPreset(u)
           w == Save(v)
           r == IF active = None THEN Now ELSE w
           t == SendAll(r)
<1>1. Now \in State /\ mappings \in Contents /\ tuned \in BOOLEAN
  BY NowTypes, NowFields DEF State
<1>2. [Now EXCEPT !.mappings = [c \in DOMAIN @ \ {active} |-> @[c]], !.active = None] = u
  BY <1>1, NowFields DEF State, Changed
<1>3. asking # None /\ asking' = None /\ UNCHANGED <<last, rules>> /\ Becomes(t)
  BY <1>2 DEF DeleteMapping, KeepsNames, nameVars
<1>4. m0 \in Contents
  <2>1. DOMAIN mappings \in SUBSET Keys /\ mappings \in [DOMAIN mappings -> Outputs \cup {Unset}]
    BY <1>1, ContentsIs
  <2>2. /\ m0 \in [DOMAIN mappings \ {active} -> Outputs \cup {Unset}]
        /\ DOMAIN mappings \ {active} \in SUBSET Keys
    BY <2>1
  <2> QED BY <2>2, ContentsIs
<1> HIDE DEF m0
<1>5. /\ u \in State /\ ~u.failed /\ u.mappings = m0 /\ u.active = None
      /\ u.files = files /\ u.group = group /\ u.preset = preset
      /\ u.saved = saved /\ u.queue = queue
  BY <1>1, <1>4, ChangedFields
<1> HIDE DEF u
<1>6. preset # None /\ group # None /\ files[Model[group]][preset] # None
  BY <1>3, NowTypes DEF Inv
<1>7. Held(u) /\ HasFile(u) /\ (Quiet => Calm(u) /\ Fresh(u))
  BY <1>3, <1>5, <1>6, NowFields
     DEF Held, HasFile, Quiet, Calm, Own, Idle, Synced, Fresh
<1>8. Held(v) /\ Same(u, v) /\ WillBeShown(v) /\ (Calm(u) => Calm(v))
  BY <1>5, <1>7, PublishPresetEffect
<1> HIDE DEF v
<1>9. /\ Sound(v) /\ FilesStay(Now, v)
      /\ Quiet => Calm(v) /\ Fresh(v) /\ ~v.failed
  <2>1. HasFile(v)
    BY <1>7, <1>8, SameKeeps
  <2> QED BY <1>5, <1>7, <1>8, <2>1, NowFields DEF Sound, FilesStay, Same, Fresh, Calm
<1>10. /\ Sound(w) /\ FilesStay(v, w) /\ (Calm(v) => Calm(w))
       /\ Fresh(v) /\ ~v.failed => Synced(w)
  BY <1>9, SaveAnyEffect
<1> HIDE DEF w
<1>11. Sound(r) /\ FilesStay(Now, r) /\ (Quiet => Calm(r) /\ Synced(r))
  <2>1. Sound(Now) /\ FilesStay(Now, Now) /\ (Quiet => Calm(Now) /\ Synced(Now))
    BY QuietIsCalm DEF Inv, FilesStay, Quiet
  <2>2. FilesStay(Now, w)
    BY <1>9, <1>10 DEF FilesStay
  <2> QED BY <1>9, <1>10, <2>1, <2>2
<1> HIDE DEF r
<1>12. /\ Held(t) /\ Same(r, t) /\ WillBeShown(t)
       /\ ~r.failed /\ Own(r) => t.queue = <<>>
  BY <1>11, SendAllEffect DEF Sound
<1> HIDE DEF t
<1>13. HasFile(t) /\ FilesStay(r, t) /\ (Synced(r) => Synced(t))
  BY <1>11, <1>12, SameKeeps DEF Sound
<1>14. Keeps(t)
  BY <1>11, <1>12, <1>13 DEF Keeps, Sound, FilesStay, Calm
<1>15. last' \in [Groups -> Presets \cup {None}] /\ (asking' # None => preset' # None)
  BY <1>3 DEF Inv
<1> QED BY <1>3, <1>14, <1>15, OperationKeeps

LEMMA CloseStep ==
    ASSUME Inv, Close
    PROVE  Inv' /\ (Quiet => Quiet') /\ RulesStep
<1> DEFINE w == Save(Now)
           h == Holding(w, None, NoMappings)
           t == [h EXCEPT !.group = None, !.queue = <<>>]
<1>1. Idle /\ Becomes(t) /\ UNCHANGED <<asking, last, rules>>
  BY DEF Close, KeepsNames, nameVars
<1>2. Sound(w) /\ FilesStay(Now, w)
  BY SaveAnyEffect DEF Inv
<1> HIDE DEF w
<1>3. /\ Held(h) /\ h.preset = None /\ h.files = w.files /\ h.mappings = NoMappings
      /\ h.active = None
  BY <1>2, NoMappingsType, HoldingEffect DEF Sound, Held
<1> HIDE DEF h
<1>4. /\ t \in State /\ t.preset = None /\ t.files = w.files /\ t.mappings = NoMappings
      /\ t.active = None /\ t.queue = <<>>
  <2>1. h \in State /\ <<>> \in Seq(SUBSET Keys)
    BY <1>3 DEF Held
  <2> QED BY <1>3, <2>1 DEF State
<1> HIDE DEF t
<1>5. Keeps(t)
  BY <1>2, <1>4, NoMappingsType
     DEF Keeps, Sound, Held, HasFile, WillBeShown, Synced, FilesStay
<1>6. last' \in [Groups -> Presets \cup {None}] /\ (asking' # None => preset' # None)
  BY <1>1 DEF Inv, Idle
<1> QED BY <1>1, <1>5, <1>6, OperationKeeps

-----------------------------------------------------------------------------
(* The theorems.                                                           *)

LEMMA InitInv == Init => Inv /\ (~Meanwhile => Quiet)
<1> SUFFICES ASSUME Init PROVE Inv /\ (~Meanwhile => Quiet)
  OBVIOUS
<1>1. /\ files \in [Models -> [Presets -> FileContents \cup {None}]]
      /\ group = None /\ preset = None /\ mappings = NoMappings /\ saved = NoMappings
      /\ active = None /\ queue = <<>> /\ asking = None /\ rules = {}
      /\ tuned = FALSE
      /\ last \in [Groups -> Presets \cup {None}]
  BY DEF Init
<1>2. Now \in State
  <2>1. <<>> \in Seq(SUBSET Keys) /\ FALSE \in BOOLEAN
    OBVIOUS
  <2> QED BY <1>1, <2>1, NoMappingsType DEF Now, State
<1>3. Sound(Now)
  BY <1>1, <1>2, NowFields, NoMappingsType DEF Sound, Held, HasFile, WillBeShown
<1>4. Synced(Now)
  BY <1>1, NowFields DEF Synced
<1> QED BY <1>1, <1>3, <1>4 DEF Inv, Quiet

LEMMA StutterKeeps ==
    ASSUME Inv, UNCHANGED vars
    PROVE  Inv' /\ (Quiet => Quiet') /\ RulesStep
<1>1. /\ Now' = Now /\ UNCHANGED <<files, group, preset, queue, asking, last, rules>>
  BY DEF vars, nameVars, Now
<1>2. Sound(Now)' /\ (Synced(Now) => Synced(Now)')
  BY <1>1 DEF Inv, Sound, Held, HasFile, WillBeShown, Synced
<1>3. RulesStep
  BY <1>1 DEF RulesStep, Dangling
<1> QED BY <1>1, <1>2, <1>3 DEF Inv, Quiet

LEMMA NextInv == Inv /\ [Next]_vars => Inv' /\ (Quiet => Quiet') /\ RulesStep
<1> SUFFICES ASSUME Inv, [Next]_vars PROVE Inv' /\ (Quiet => Quiet') /\ RulesStep
  OBVIOUS
<1>1. ASSUME NEW g \in Groups, LoadGroup(g) PROVE Inv' /\ (Quiet => Quiet') /\ RulesStep
  BY <1>1, LoadGroupStep
<1>2. ASSUME NEW p \in Presets,
             \/ SelectPreset(p) \/ FollowActive(p) \/ RenamePreset(p)
             \/ CopyPreset(p) \/ AddPreset(p)
      PROVE  Inv' /\ (Quiet => Quiet') /\ RulesStep
  BY <1>2, SelectPresetStep, RenamePresetStep, CopyPresetStep, AddPresetStep
<1>3. ASSUME NEW b \in BOOLEAN, SetAutoload(b) \/ SaveWindowRules(b)
      PROVE  Inv' /\ (Quiet => Quiet') /\ RulesStep
  BY <1>3, SetAutoloadStep, SaveWindowRulesStep
<1>4. CASE AskToDeletePreset \/ AskToDeleteMapping
  BY <1>4, AskStep
<1>5. CASE DeletePreset
  BY <1>5, DeletePresetStep
<1>6. CASE DeleteMapping
  BY <1>6, DeleteMappingStep
<1>7. CASE Cancel
  BY <1>7, CancelStep
<1>8. CASE CreateMapping
  BY <1>8, CreateMappingStep
<1>9. ASSUME NEW c \in Combos \cup {Empty}, SelectMapping(c)
      PROVE  Inv' /\ (Quiet => Quiet') /\ RulesStep
  BY <1>9, SelectMappingStep
<1>10. ASSUME NEW o \in Outputs, UpdateMapping(o) PROVE Inv' /\ (Quiet => Quiet') /\ RulesStep
  BY <1>10, UpdateMappingStep
<1>11. ASSUME NEW c \in Combos, UpdateCombination(c) \/ UpdateInputConfig(c)
       PROVE  Inv' /\ (Quiet => Quiet') /\ RulesStep
  BY <1>11, UpdateCombinationStep
<1>12. CASE Close
  BY <1>12, CloseStep
<1>13. CASE UNCHANGED vars
  BY <1>13, StutterKeeps
<1> QED BY <1>1, <1>2, <1>3, <1>4, <1>5, <1>6, <1>7, <1>8, <1>9, <1>10, <1>11, <1>12, <1>13
        DEF Next

\* Whatever the user does and whatever windowd applies meanwhile, what the GUI holds fits
\* together: a loaded preset has a file, the mapping that is shown is one of the preset's,
\* and if none is shown the message that will show one is not lost.
THEOREM StoreInvariance == Spec => []Inv
<1>1. Init => Inv
  BY InitInv
<1>2. Inv /\ [Next]_vars => Inv'
  BY NextInv
<1> QED BY <1>1, <1>2, PTL DEF Spec

\* Whatever is renamed, deleted, copied or followed: a rule of the group that is shown never
\* comes to name a preset that does not exist, since renaming and deleting update the rules
\* in the same operation (data_manager.py:411, 486); only rules of similar devices, which
\* share the files, are left behind.
THEOREM RulesAreNamed == Spec => RulesNamePresets
<1>1. Inv /\ [Next]_vars => [RulesStep]_vars
  BY NextInv
<1> QED BY <1>1, StoreInvariance, PTL DEF Spec, RulesNamePresets, RulesStep

\* A preset that has mappings shows one of them when no message waits and no dialog is
\* open, although messages wait behind dialogs and exceptions leave them there.
THEOREM AlwaysOneShown == Spec => []AMappingIsShown
<1>1. Inv => AMappingIsShown
  BY NowTypes, NowFields DEF AMappingIsShown, WillBeShown
<1> QED BY <1>1, StoreInvariance, PTL

\* "Changes are saved automatically": the file of the preset holds what is shown but for
\* thresholds that were edited, as long as windowd does not apply another preset while a
\* dialog is open (with that the property does not hold).
THEOREM EditsReachTheFile ==
    ASSUME Meanwhile = FALSE
    PROVE  Spec => []EditsAreSaved
<1> DEFINE QInv == Inv /\ Quiet
<1>1. Init => QInv
  <2>1. ~Meanwhile
    BY Zenon
  <2> QED BY <2>1, InitInv
<1>2. QInv /\ [Next]_vars => QInv'
  BY NextInv
<1>3. QInv => EditsAreSaved
  BY NowFields DEF Quiet, Synced, EditsAreSaved
<1> HIDE DEF QInv
<1> QED BY <1>1, <1>2, <1>3, PTL DEF Spec
=============================================================================
