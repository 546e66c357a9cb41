--------------------------- MODULE PipelineProofs ---------------------------
(***************************************************************************)
(* What is safe in the pipeline of an injection process.                   *)
(*                                                                         *)
(* KeyPipeline, for every preset, every set of keys and every number of    *)
(* devices, whichever of them lose events: no output of keys that are not  *)
(* lost gets stuck and no press vanishes.  No forwarded key gets stuck,    *)
(* provided that the inputs of one combination have different codes: the   *)
(* handler finds a pending release by code, without the device.            *)
(*                                                                         *)
(* MacroTasks, for every set of macros and every number of events: the     *)
(* head start of macros is enough, and the keys that wait for the only     *)
(* mod_tap keep their order.                                               *)
(***************************************************************************)
EXTENDS KeyPipeline, MacroTasks, Integers, FiniteSetTheorems, SequenceTheorems,
        WellFoundedInduction, TLAPS

CodesTellApart ==
    \A m \in Mappings : \A j, k \in ComboKeys(m) : CodeOf[j] = CodeOf[k] => j = k

-----------------------------------------------------------------------------
(* The inductive invariant.                                                *)

\* A forwarded key of a reliable device is held, and every handler that sees its release
\* will let it pass.
ForwardedInv ==
    \A k \in fwdDown :
        Reliable(k) => k \in held /\ \A m \in MappingsOf(k) : CodeOf[k] \in requiresRelease[m]

\* The handlers believe a key of a reliable device to be down only when it is.
PressedInv == \A m \in Mappings : \A k \in pressed[m] : Reliable(k) => k \in held

\* A combination is active only while all of its keys are believed to be down.
ActiveInv == \A m \in Mappings : outActive[m] => Activated(m, pressed[m])

\* An output is down only on behalf of an active mapping that injects it.
OutputInv ==
    \A o \in outDown : \E m \in Mappings :
        Preset[m].output = o /\ Preset[m].sub = "key" /\ outActive[m]

\* Without a reader the handlers are reset, and without a process there is no reader and
\* no forwarded device.
ReadersInv ==
    /\ injecting \/ (readers = {} /\ fwdDown = {})
    /\ readers = {} => \A m \in Mappings : pressed[m] = {}

\* What the handlers know of the keys and the outputs, whatever the codes are.
HandlersInv ==
    /\ TypeOK
    /\ PressedInv
    /\ ActiveInv
    /\ OutputInv
    /\ ReadersInv

IInv == HandlersInv /\ (readers = Devices => ForwardedInv)

-----------------------------------------------------------------------------
(* The combinations are sets of keys, and a handled event keeps the types.   *)

LEMMA ComboKeysType == \A m \in Mappings : ComboKeys(m) \subseteq Keys
  BY PresetAssumption DEF ComboKeys

LEMMA CombosNonEmpty == \A m \in Mappings : ComboKeys(m) # {}
<1> TAKE m \in Mappings
<1>1. Preset[m].combo \in Seq(Keys) /\ Preset[m].combo # <<>>
  BY PresetAssumption
<1>2. 1 \in DOMAIN Preset[m].combo
  BY <1>1
<1> QED BY <1>2 DEF ComboKeys

LEMMA ForwardReleasesType ==
    \A m \in Mappings : \A k \in Keys :
        /\ ForwardReleases(m, k) \subseteq ComboKeys(m)
        /\ ForwardReleases(m, k) \subseteq Keys
  BY ComboKeysType DEF ForwardReleases, ComboKeys

LEMMA RequiresType ==
    TypeOK => \A m \in Mappings : \A k \in Keys : RequiresAfterPress(m, k) \in SUBSET Codes
  BY KeysAssumption DEF TypeOK, RequiresAfterPress, Codes

\* Every action keeps the type invariant.
LEMMA TypeStep == TypeOK /\ [Next]_vars => TypeOK'
<1> SUFFICES ASSUME TypeOK, [Next]_vars PROVE TypeOK'
  OBVIOUS
<1> USE DEF TypeOK
<1>1. ASSUME NEW k \in Keys, Press(k) PROVE TypeOK'
  <2>1. UNION {ForwardReleases(m, k) : m \in {n \in MappingsOf(k) : Fires(n, k)}} \subseteq Keys
    BY ForwardReleasesType DEF MappingsOf
  <2>2. requiresRelease' \in [Mappings -> SUBSET Codes]
    BY <1>1, RequiresType DEF Press, HandlePress
  <2>3. pressed' \in [Mappings -> SUBSET Keys] /\ outActive' \in [Mappings -> BOOLEAN]
    BY <1>1 DEF Press, HandlePress
  <2>4. outDown' \subseteq Outputs
    BY <1>1 DEF Press, HandlePress, Outputs, MappingsOf
  <2>5. fwdDown' \subseteq Keys
    BY <1>1 DEF Press, HandlePress
  <2> QED BY <1>1, <2>2, <2>3, <2>4, <2>5 DEF Press
<1>2. ASSUME NEW k \in Keys, Release(k) PROVE TypeOK'
  BY <1>2 DEF Release, HandleRelease
<1>3. ASSUME NEW k \in Keys, DropEvent(k) PROVE TypeOK'
  BY <1>3 DEF DropEvent, handlerVars
<1>4. ASSUME NEW k \in Keys, MoveUngrabbed(k) PROVE TypeOK'
  BY <1>4 DEF MoveUngrabbed, handlerVars
<1>5. ASSUME NEW d \in Devices, Unplug(d) PROVE TypeOK'
  BY <1>5 DEF Unplug, ResetHandlers
<1>6. CASE Stop
  BY <1>6 DEF Stop, ResetHandlers, handlerVars
<1>7. CASE Start
  BY <1>7 DEF Start
<1>8. CASE UNCHANGED vars
  BY <1>8 DEF vars, handlerVars
<1> QED BY <1>1, <1>2, <1>3, <1>4, <1>5, <1>6, <1>7, <1>8 DEF Next

\* Type correctness, with no assumption about presets or devices.
THEOREM TypeCorrect == Spec => []TypeOK
<1>1. Init => TypeOK
  BY DEF Init, TypeOK
<1>2. QED BY <1>1, TypeStep, PTL DEF Spec

-----------------------------------------------------------------------------
(* A press.                                                                *)

\* A press activates a combination, or changes nothing.
LEMMA ChangedIsActivated ==
    ASSUME HandlersInv, NEW k \in Keys, NEW m \in MappingsOf(k), Changed(m, pressed[m] \cup {k})
    PROVE  m \in Mappings /\ Activated(m, pressed[m] \cup {k}) /\ ~outActive[m]
<1>1. m \in Mappings /\ outActive[m] \in BOOLEAN
  BY DEF MappingsOf, HandlersInv, TypeOK
<1>2. outActive[m] => Activated(m, pressed[m] \cup {k})
  BY <1>1 DEF HandlersInv, ActiveInv, Activated
<1> QED BY <1>1, <1>2 DEF Changed, Activated

\* No handler of a reliable key takes its press for a duplicate: the key was not down.
LEMMA PressIsFresh ==
    ASSUME HandlersInv, NEW k \in Keys, Reliable(k), k \notin held, NEW m \in MappingsOf(k)
    PROVE  /\ ~outActive[m]
           /\ HandlesPress(m, k) => Changed(m, pressed[m] \cup {k})
<1>1. m \in Mappings /\ k \in ComboKeys(m)
  BY DEF MappingsOf
<1>2. k \notin pressed[m]
  BY <1>1 DEF HandlersInv, PressedInv
<1>3. ~Activated(m, pressed[m])
  BY <1>1, <1>2 DEF Activated
<1>4. outActive[m] = FALSE
  BY <1>1, <1>3 DEF HandlersInv, ActiveInv, TypeOK
<1> QED BY <1>4 DEF HandlesPress

\* A press that no handler takes care of is forwarded, and all of the handlers
\* of the key remember that it requires a release.
LEMMA UnhandledIsRemembered ==
    ASSUME HandlersInv, NEW k \in Keys, Reliable(k), k \notin held,
           \A n \in MappingsOf(k) : ~HandlesPress(n, k),
           NEW m \in MappingsOf(k)
    PROVE  CodeOf[k] \in RequiresAfterPress(m, k)
<1>1. ~Suppressed(m, k)
  BY DEF Suppressed
<1>2. ~outActive[m]
  BY PressIsFresh
<1>3. CASE Changed(m, pressed[m] \cup {k})
  <2>1. ~SubHandles(m)
    BY <1>3 DEF HandlesPress
  <2> QED BY <1>1, <1>3, <2>1 DEF RequiresAfterPress
<1>4. CASE ~Changed(m, pressed[m] \cup {k})
  BY <1>2, <1>4 DEF RequiresAfterPress
<1> QED BY <1>3, <1>4

\* The press of k leaves the pending release of another key j alone, unless the
\* combination released j itself.
LEMMA OthersAreRemembered ==
    ASSUME CodesTellApart, HandlersInv, NEW k \in Keys, NEW j \in Keys, j # k,
           NEW m \in MappingsOf(k), m \in MappingsOf(j),
           CodeOf[j] \in requiresRelease[m],
           Fires(m, k) => j \notin ForwardReleases(m, k)
    PROVE  CodeOf[j] \in RequiresAfterPress(m, k)
<1>1. m \in Mappings /\ k \in ComboKeys(m) /\ j \in ComboKeys(m)
  BY DEF MappingsOf
<1>2. CodeOf[j] # CodeOf[k]
  BY <1>1 DEF CodesTellApart
<1>3. ASSUME Fires(m, k)
      PROVE  CodeOf[j] \notin {CodeOf[i] : i \in ForwardReleases(m, k)}
  <2> SUFFICES ASSUME NEW i \in ForwardReleases(m, k), CodeOf[i] = CodeOf[j]
               PROVE FALSE
    OBVIOUS
  <2>1. i \in ComboKeys(m)
    BY <1>1, ForwardReleasesType
  <2>2. i = j
    BY <1>1, <2>1 DEF CodesTellApart
  <2> QED BY <1>3, <2>2
<1> QED BY <1>2, <1>3 DEF RequiresAfterPress, Fires

LEMMA PressKeepsHandlers ==
    ASSUME HandlersInv, NEW k \in Keys, Press(k)
    PROVE  HandlersInv'
<1> DEFINE fired == {m \in MappingsOf(k) : Fires(m, k)}
<1>1. k \notin held /\ held' = held \cup {k} /\ readers' = readers /\ readers # {}
  BY DEF Press
<1>2. TypeOK'
  BY TypeStep DEF HandlersInv, Next
<1>3. \A m \in fired : m \in Mappings /\ Activated(m, pressed[m] \cup {k})
  BY ChangedIsActivated DEF Fires
<1>4. /\ pressed' = [m \in Mappings |->
            IF m \in MappingsOf(k) THEN pressed[m] \cup {k} ELSE pressed[m]]
      /\ outActive' = [m \in Mappings |-> IF m \in fired THEN TRUE ELSE outActive[m]]
  BY DEF Press, HandlePress
<1>5. PressedInv'
  BY <1>1, <1>4 DEF HandlersInv, PressedInv, Reliable
<1>6. ActiveInv'
  <2> SUFFICES ASSUME NEW m \in Mappings, outActive'[m]
               PROVE  Activated(m, pressed'[m])
    BY DEF ActiveInv, Activated, ComboKeys
  <2>1. CASE m \in fired
    BY <1>3, <1>4, <2>1
  <2>2. CASE m \notin fired
    BY <1>4, <2>2 DEF HandlersInv, ActiveInv, Activated
  <2> QED BY <2>1, <2>2
<1>7. OutputInv'
  <2> SUFFICES ASSUME NEW o \in outDown'
               PROVE  \E m \in Mappings :
                        Preset[m].output = o /\ Preset[m].sub = "key" /\ outActive'[m]
    BY DEF OutputInv
  <2>1. CASE o \in outDown
    BY <1>4, <2>1 DEF HandlersInv, OutputInv
  <2>2. CASE o \notin outDown
    <3>1. PICK m \in fired : Preset[m].sub = "key" /\ Preset[m].output = o
      BY <2>2 DEF Press, HandlePress
    <3> QED BY <1>3, <1>4, <3>1
  <2> QED BY <2>1, <2>2
<1>8. ReadersInv'
  BY <1>1 DEF Press, HandlersInv, ReadersInv
<1> QED BY <1>1, <1>2, <1>5, <1>6, <1>7, <1>8 DEF HandlersInv

LEMMA PressKeepsForwarded ==
    ASSUME CodesTellApart, IInv, readers = Devices, NEW k \in Keys, Press(k)
    PROVE  ForwardedInv'
<1> DEFINE fired == {m \in MappingsOf(k) : Fires(m, k)}
<1>1. k \notin held /\ held' = held \cup {k} /\ HandlersInv /\ ForwardedInv
  BY DEF Press, IInv
<1>2. requiresRelease' = [m \in Mappings |->
            IF m \in MappingsOf(k) THEN RequiresAfterPress(m, k) ELSE requiresRelease[m]]
  BY DEF Press, HandlePress
<1> SUFFICES ASSUME NEW j \in fwdDown', Reliable(j)
             PROVE  /\ j \in held'
                    /\ \A m \in MappingsOf(j) : CodeOf[j] \in requiresRelease'[m]
  BY DEF ForwardedInv, MappingsOf, ComboKeys, Reliable
<1>3. CASE j = k
  <2>1. k \notin fwdDown
    BY <1>1, <1>3 DEF ForwardedInv
  <2>2. \A n \in MappingsOf(k) : ~HandlesPress(n, k)
    BY <1>3, <2>1 DEF Press, HandlePress
  <2>3. \A m \in MappingsOf(k) : CodeOf[k] \in RequiresAfterPress(m, k)
    BY <1>1, <1>3, <2>2, UnhandledIsRemembered
  <2> QED BY <1>1, <1>2, <1>3, <2>3 DEF MappingsOf
<1>4. CASE j # k
  <2>1. j \in fwdDown /\ j \notin UNION {ForwardReleases(m, k) : m \in fired}
    BY <1>4 DEF Press, HandlePress
  <2>2. j \in held /\ j \in Keys
    BY <1>1, <2>1 DEF HandlersInv, ForwardedInv, TypeOK
  <2>3. ASSUME NEW m \in MappingsOf(j) PROVE CodeOf[j] \in requiresRelease'[m]
    <3>1. m \in Mappings /\ CodeOf[j] \in requiresRelease[m]
      BY <1>1, <2>1 DEF ForwardedInv, MappingsOf
    <3>2. CASE m \in MappingsOf(k)
      <4>1. Fires(m, k) => j \notin ForwardReleases(m, k)
        BY <2>1, <3>2
      <4>2. CodeOf[j] \in RequiresAfterPress(m, k)
        BY <1>1, <1>4, <2>2, <3>1, <3>2, <4>1, OthersAreRemembered
      <4> QED BY <1>2, <3>1, <3>2, <4>2
    <3>3. CASE m \notin MappingsOf(k)
      BY <1>2, <3>1, <3>3
    <3> QED BY <3>2, <3>3
  <2> QED BY <1>1, <2>2, <2>3
<1> QED BY <1>3, <1>4

-----------------------------------------------------------------------------
(* A release, and the steps of the injection process.                      *)

LEMMA ReleaseKeepsHandlers ==
    ASSUME HandlersInv, NEW k \in Keys, Release(k)
    PROVE  HandlersInv'
<1> DEFINE undone == {m \in MappingsOf(k) : Changed(m, pressed[m] \ {k})}
<1>1. held' = held \ {k} /\ readers' = readers /\ readers # {}
  BY DEF Release
<1>2. TypeOK'
  BY TypeStep DEF HandlersInv, Next
<1>3. /\ pressed' = [m \in Mappings |-> pressed[m] \ {k}]
      /\ outActive' = [m \in Mappings |-> IF m \in undone THEN FALSE ELSE outActive[m]]
  BY DEF Release, HandleRelease
<1>4. PressedInv'
  BY <1>1, <1>3 DEF HandlersInv, PressedInv, Reliable
<1>5. ActiveInv'
  <2> SUFFICES ASSUME NEW m \in Mappings, outActive'[m]
               PROVE  Activated(m, pressed'[m])
    BY DEF ActiveInv, Activated, ComboKeys
  <2>1. m \notin undone /\ outActive[m]
    BY <1>3
  <2>2. Activated(m, pressed[m]) /\ outActive[m] = TRUE
    BY <2>1 DEF HandlersInv, ActiveInv, TypeOK
  <2>3. CASE m \in MappingsOf(k)
    BY <1>3, <2>1, <2>2, <2>3 DEF Changed, Activated
  <2>4. CASE m \notin MappingsOf(k)
    BY <1>3, <2>2, <2>4 DEF MappingsOf, Activated
  <2> QED BY <2>3, <2>4
<1>6. OutputInv'
  <2> SUFFICES ASSUME NEW o \in outDown'
               PROVE  \E m \in Mappings :
                        Preset[m].output = o /\ Preset[m].sub = "key" /\ outActive'[m]
    BY DEF OutputInv
  <2>1. PICK m \in Mappings :
            Preset[m].output = o /\ Preset[m].sub = "key" /\ outActive[m]
    BY DEF Release, HandleRelease, HandlersInv, OutputInv
  <2>2. m \notin undone
    BY <2>1 DEF Release, HandleRelease
  <2> QED BY <1>3, <2>1, <2>2
<1>7. ReadersInv'
  BY <1>1 DEF Release, HandlersInv, ReadersInv
<1> QED BY <1>1, <1>2, <1>4, <1>5, <1>6, <1>7 DEF HandlersInv

LEMMA ReleaseKeepsForwarded ==
    ASSUME CodesTellApart, IInv, readers = Devices, NEW k \in Keys, Release(k)
    PROVE  ForwardedInv'
<1> SUFFICES ASSUME NEW j \in fwdDown', Reliable(j)
             PROVE  /\ j \in held'
                    /\ \A m \in MappingsOf(j) : CodeOf[j] \in requiresRelease'[m]
  BY DEF ForwardedInv, MappingsOf, ComboKeys, Reliable
<1>1. held' = held \ {k} /\ j \in fwdDown
  BY DEF Release, HandleRelease
<1>2. /\ j \in held /\ j \in Keys
      /\ \A m \in MappingsOf(j) : CodeOf[j] \in requiresRelease[m]
  BY <1>1 DEF IInv, ForwardedInv, HandlersInv, TypeOK
<1>3. j # k
  BY <1>2 DEF Release, HandleRelease, LetsReleasePass
<1>4. ASSUME NEW m \in MappingsOf(j) PROVE CodeOf[j] \in requiresRelease'[m]
  <2>1. m \in Mappings /\ j \in ComboKeys(m)
    BY DEF MappingsOf
  <2>2. m \in MappingsOf(k) => CodeOf[j] # CodeOf[k]
    BY <1>3, <2>1 DEF CodesTellApart, MappingsOf
  <2> QED BY <1>2, <2>1, <2>2 DEF Release, HandleRelease
<1> QED BY <1>1, <1>2, <1>3, <1>4

\* Context.reset leaves nothing behind on the target uinputs.
LEMMA ResetClears == HandlersInv /\ ResetHandlers => outDown' = {}
  BY DEF HandlersInv, OutputInv, ResetHandlers

\* While no device is read, no handler believes a key to be down or is active.
LEMMA NoReaderNoKeys ==
    HandlersInv /\ readers = {} =>
        \A m \in Mappings : pressed[m] = {} /\ outActive[m] = FALSE
<1> SUFFICES ASSUME HandlersInv, readers = {}, NEW m \in Mappings
             PROVE  pressed[m] = {} /\ outActive[m] = FALSE
  OBVIOUS
<1>1. pressed[m] \subseteq Keys /\ outActive[m] \in BOOLEAN
  BY DEF HandlersInv, TypeOK
<1>3. pressed[m] = {}
  BY DEF HandlersInv, ReadersInv
<1>4. ~outActive[m]
  BY <1>3, CombosNonEmpty DEF HandlersInv, ActiveInv, Activated
<1> QED BY <1>1, <1>3, <1>4

LEMMA OthersKeepHandlers ==
    ASSUME HandlersInv,
           \/ \E k \in Keys : DropEvent(k) \/ MoveUngrabbed(k)
           \/ \E d \in Devices : Unplug(d)
           \/ Stop
           \/ Start
           \/ UNCHANGED vars
    PROVE  HandlersInv'
<1>1. TypeOK'
  BY TypeStep DEF HandlersInv, Next
<1>2. ASSUME NEW k \in Keys, DropEvent(k) PROVE HandlersInv'
  <2>1. ~Reliable(k)
    BY <1>2 DEF DropEvent, Reliable
  <2>2. \A j \in Keys : Reliable(j) => (j \in held' <=> j \in held)
    BY <1>2, <2>1 DEF DropEvent
  <2>3. PressedInv'
    BY <1>2, <2>2 DEF DropEvent, handlerVars, HandlersInv, TypeOK, PressedInv, Reliable
  <2> QED
    BY <1>1, <1>2, <2>3 DEF DropEvent, handlerVars, HandlersInv, ActiveInv, OutputInv,
                            ReadersInv, Activated
<1>3. ASSUME NEW k \in Keys, MoveUngrabbed(k) PROVE HandlersInv'
  <2>1. readers = {} /\ fwdDown = {} /\ (\A m \in Mappings : pressed[m] = {})
    BY <1>3 DEF MoveUngrabbed, HandlersInv, ReadersInv
  <2> QED
    BY <1>1, <1>3, <2>1 DEF MoveUngrabbed, handlerVars, HandlersInv, PressedInv, ActiveInv,
                            OutputInv, ReadersInv, Activated
<1>4. ASSUME NEW d \in Devices, Unplug(d) PROVE HandlersInv'
  <2>1. injecting'
    BY <1>4 DEF Unplug, HandlersInv, ReadersInv
  <2>2. outDown' = {}
    BY <1>4, ResetClears DEF Unplug
  <2> QED
    BY <1>1, <1>4, <2>1, <2>2 DEF Unplug, ResetHandlers, HandlersInv, PressedInv, ActiveInv,
                                  OutputInv, ReadersInv
<1>5. CASE Stop
  <2>1. readers' = {} /\ fwdDown' = {} /\ \A m \in Mappings : pressed'[m] = {}
    BY <1>5, NoReaderNoKeys DEF Stop, ResetHandlers, handlerVars
  <2>2. PressedInv' /\ ReadersInv'
    BY <2>1 DEF PressedInv, ReadersInv
  <2>3. OutputInv' /\ ActiveInv'
    <3>1. CASE readers # {}
      <4>1. outDown' = {} /\ \A m \in Mappings : ~outActive'[m]
        BY <1>5, <3>1, ResetClears DEF Stop, ResetHandlers
      <4> QED BY <4>1 DEF OutputInv, ActiveInv
    <3>2. CASE readers = {}
      BY <1>5, <3>2 DEF Stop, handlerVars, HandlersInv, OutputInv, ActiveInv, Activated
    <3> QED BY <3>1, <3>2
  <2> QED BY <1>1, <2>1, <2>2, <2>3 DEF HandlersInv
<1>6. CASE Start
  <2>1. outDown = {}
    <3>1. readers = {}
      BY <1>6 DEF Start, HandlersInv, ReadersInv
    <3> QED BY <3>1, NoReaderNoKeys DEF HandlersInv, OutputInv
  <2> QED
    BY <1>1, <1>6, <2>1 DEF Start, HandlersInv, PressedInv, ActiveInv,
                            OutputInv, ReadersInv
<1>7. CASE UNCHANGED vars
  BY <1>1, <1>7 DEF vars, handlerVars, HandlersInv, PressedInv, ActiveInv,
                    OutputInv, ReadersInv, Activated
<1> QED BY <1>2, <1>3, <1>4, <1>5, <1>6, <1>7

LEMMA OthersKeepForwarded ==
    ASSUME IInv, readers' = Devices,
           \/ \E k \in Keys : DropEvent(k) \/ MoveUngrabbed(k)
           \/ \E d \in Devices : Unplug(d)
           \/ Stop
           \/ Start
           \/ UNCHANGED vars
    PROVE  ForwardedInv'
<1>1. ReadersInv /\ fwdDown \subseteq Keys /\ (readers = Devices => ForwardedInv)
  BY DEF IInv, HandlersInv, TypeOK
<1>2. ASSUME NEW k \in Keys, DropEvent(k) PROVE ForwardedInv'
  <2>1. /\ ForwardedInv /\ UNCHANGED <<requiresRelease, fwdDown>>
        /\ \A j \in Keys : Reliable(j) => (j \in held' <=> j \in held)
    BY <1>1, <1>2 DEF DropEvent, handlerVars, Reliable
  <2> QED BY <1>1, <2>1 DEF ForwardedInv, Reliable
<1>3. CASE (\E k \in Keys : MoveUngrabbed(k)) \/ Stop \/ Start
  <2>1. fwdDown' = {}
    BY <1>1, <1>3 DEF MoveUngrabbed, Stop, Start, ReadersInv
  <2> QED BY <2>1 DEF ForwardedInv
<1>4. ASSUME NEW d \in Devices, Unplug(d) PROVE ForwardedInv'
  BY <1>4 DEF Unplug
<1>5. CASE UNCHANGED vars
  BY <1>1, <1>5 DEF vars, handlerVars, ForwardedInv, Reliable
<1> QED BY <1>2, <1>3, <1>4, <1>5

\* What the handlers believe is true for every preset: the keys they take for pressed are
\* held, active combinations are pressed as a whole, and outputs that are down are theirs.
THEOREM HandlersAreRight == Spec => []HandlersInv
<1>1. Init => HandlersInv
  BY DEF Init, HandlersInv, TypeOK, PressedInv, ActiveInv, OutputInv, ReadersInv
<1>2. HandlersInv /\ [Next]_vars => HandlersInv'
  BY PressKeepsHandlers, ReleaseKeepsHandlers, OthersKeepHandlers DEF Next
<1>3. QED BY <1>1, <1>2, PTL DEF Spec

\* The inductive invariant holds for every preset whose codes tell its inputs apart.
THEOREM Inductive ==
    ASSUME CodesTellApart
    PROVE  Spec => []IInv
<1>1. Init => ForwardedInv
  BY DEF Init, ForwardedInv
<1>2. IInv /\ HandlersInv' /\ [Next]_vars => IInv'
  <2> SUFFICES ASSUME IInv, HandlersInv', [Next]_vars, readers' = Devices
               PROVE  ForwardedInv'
    BY DEF IInv
  <2>1. ASSUME NEW k \in Keys, Press(k) \/ Release(k) PROVE ForwardedInv'
    <3>1. readers = Devices
      BY <2>1 DEF Press, Release
    <3> QED BY <2>1, <3>1, PressKeepsForwarded, ReleaseKeepsForwarded
  <2> QED BY <2>1, OthersKeepForwarded DEF Next
<1>3. HandlersInv /\ ForwardedInv => IInv
  BY DEF IInv
<1>4. QED BY <1>1, <1>2, <1>3, HandlersAreRight, PTL DEF Spec

\* No key gets stuck on a forwarded device: the bookkeeping of pending releases
\* in the CombinationHandlers never swallows the release of a forwarded key.
THEOREM ForwardedKeysAreReleased ==
    ASSUME CodesTellApart
    PROVE  Spec => []NoStuckForwardedKey
<1>1. IInv => NoStuckForwardedKey
  BY DEF IInv, ForwardedInv, NoStuckForwardedKey
<1> QED BY <1>1, Inductive, PTL

\* No output gets stuck on a target uinput, whatever the preset: an output is down only
\* while one of its combinations is held as a whole.
THEOREM OutputsAreReleased == Spec => []NoStuckOutput
<1>1. HandlersInv => NoStuckOutput
  <2> SUFFICES ASSUME HandlersInv, NEW o \in outDown
               PROVE  \E m \in Mappings : /\ Preset[m].output = o
                                          /\ outActive[m]
                                          /\ \A k \in ComboKeys(m) : Reliable(k) => k \in held
    BY DEF NoStuckOutput
  <2>1. PICK m \in Mappings : Preset[m].output = o /\ outActive[m]
    BY DEF HandlersInv, OutputInv
  <2>2. ComboKeys(m) \subseteq pressed[m]
    BY <2>1 DEF HandlersInv, ActiveInv, Activated
  <2>3. \A k \in pressed[m] : Reliable(k) => k \in held
    BY DEF HandlersInv, PressedInv
  <2> QED BY <2>1, <2>2, <2>3
<1> QED BY <1>1, HandlersAreRight, PTL

-----------------------------------------------------------------------------
(* The order of the handlers.                                              *)

\* Only a press activates combinations: those that fire.
LEMMA OnlyPressesFire ==
    ASSUME TypeOK, [Next]_vars, NEW m \in Mappings, ~outActive[m], outActive'[m]
    PROVE  \E k \in Keys : Press(k) /\ m \in MappingsOf(k) /\ Fires(m, k)
<1>1. ASSUME NEW k \in Keys, Press(k) PROVE m \in MappingsOf(k) /\ Fires(m, k)
  BY <1>1 DEF Press, HandlePress
<1>2. ASSUME NEW k \in Keys, Release(k) PROVE FALSE
  BY <1>2 DEF Release, HandleRelease
<1>3. ASSUME NEW k \in Keys, DropEvent(k) \/ MoveUngrabbed(k) PROVE FALSE
  BY <1>3 DEF DropEvent, MoveUngrabbed, handlerVars
<1>4. ASSUME NEW d \in Devices, Unplug(d) PROVE FALSE
  BY <1>4 DEF Unplug, ResetHandlers
<1>5. CASE Stop
  BY <1>5 DEF Stop, ResetHandlers, handlerVars
<1>6. CASE Start
  BY <1>6 DEF Start
<1>7. CASE UNCHANGED vars
  BY <1>7 DEF vars, handlerVars
<1> QED BY <1>1, <1>2, <1>3, <1>4, <1>5, <1>6, <1>7 DEF Next

\* A combination that fires and can be injected handles the press: what comes after it is
\* suppressed.
LEMMA FiredHandles ==
    ASSUME NEW k \in Keys, NEW m \in Mappings, Fires(m, k), SubHandles(m)
    PROVE  HandlesPress(m, k)
  BY DEF Fires, HandlesPress

\* What the order goes by are numbers.
LEMMA RankType ==
    ASSUME NEW k \in Keys, NEW o \in MappingsOf(k)
    PROVE  o \in Nat /\ Size(o) \in Nat /\ IndexOf(k, o) \in Nat
<1>1. o \in Mappings /\ o \in Nat /\ Preset[o].combo \in Seq(Keys)
  BY PresetAssumption DEF MappingsOf
<1>2. DOMAIN Preset[o].combo = 1..Len(Preset[o].combo) /\ Len(Preset[o].combo) \in Nat
  BY <1>1
<1> DEFINE at == {i \in DOMAIN Preset[o].combo : Preset[o].combo[i] = k}
<1>3. at # {} /\ at \subseteq Nat
  BY <1>2 DEF MappingsOf, ComboKeys
<1>4. PICK i \in at : \A j \in at : i <= j
  <2>1. PICK i \in at : \A j \in at : ~(<<j, i>> \in OpToRel(<, Nat))
    BY <1>3, WFMin, NatLessThanWellFounded
  <2>2. \A j \in at : j \in Nat /\ i \in Nat /\ ~(j < i)
    BY <1>3, <2>1 DEF OpToRel
  <2> QED BY <2>2
<1>5. IndexOf(k, o) \in DOMAIN Preset[o].combo
  BY <1>4 DEF IndexOf
<1> QED BY <1>1, <1>2, <1>5 DEF Size

\* Of two mappings of a key, one comes before the other, and what comes before a mapping
\* comes before what comes after it.
LEMMA OrderIsTotal ==
    ASSUME NEW k \in Keys
    PROVE  /\ \A m, n \in MappingsOf(k) : m # n => Outranks(m, n, k) \/ Outranks(n, m, k)
           /\ \A m, n \in MappingsOf(k) : Outranks(m, n, k) => ~Outranks(n, m, k)
           /\ \A m, n, o \in MappingsOf(k) :
                 ~Outranks(n, m, k) /\ ~Outranks(o, n, k) => ~Outranks(o, m, k)
<1>1. ASSUME NEW m \in MappingsOf(k), NEW n \in MappingsOf(k)
      PROVE  /\ m # n => Outranks(m, n, k) \/ Outranks(n, m, k)
             /\ Outranks(m, n, k) => ~Outranks(n, m, k)
  BY RankType DEF Outranks
<1>2. ASSUME NEW m \in MappingsOf(k), NEW n \in MappingsOf(k), NEW o \in MappingsOf(k)
      PROVE  ~Outranks(n, m, k) /\ ~Outranks(o, n, k) => ~Outranks(o, m, k)
  BY RankType DEF Outranks
<1> QED BY <1>1, <1>2

\* A preset is finite, so that of some mappings of a key one comes first: otherwise there
\* would be a least n such that none of those up to n does.
LEMMA AFirstExists ==
    ASSUME NEW last \in Nat, Mappings \subseteq 0..last,
           NEW k \in Keys, NEW some \in SUBSET MappingsOf(k), some # {}
    PROVE  \E m \in some : \A n \in some : ~Outranks(n, m, k)
<1> DEFINE UpTo(i) == {m \in some : m <= i}
           Has(i) == \E m \in UpTo(i) : \A n \in UpTo(i) : ~Outranks(n, m, k)
           bad == {i \in Nat : UpTo(i) # {} /\ ~Has(i)}
<1>1. /\ \A m \in some : m \in Nat /\ m <= last /\ m \in MappingsOf(k)
      /\ bad \subseteq Nat /\ \A i \in Nat : i \in bad <=> UpTo(i) # {} /\ ~Has(i)
  BY DEF MappingsOf
<1>2. \A i \in Nat : \A m : m \in UpTo(i) <=> m \in some /\ m <= i
  OBVIOUS
<1>3. \A i : Has(i) <=> \E m \in UpTo(i) : \A n \in UpTo(i) : ~Outranks(n, m, k)
  OBVIOUS
<1>4. UpTo(last) = some
  BY <1>1
<1> HIDE DEF bad, UpTo, Has
<1>5. bad = {}
  <2> SUFFICES ASSUME bad # {} PROVE FALSE
    OBVIOUS
  <2>1. PICK i \in bad : \A j \in bad : ~(<<j, i>> \in OpToRel(<, Nat))
    BY <1>1, WFMin, NatLessThanWellFounded
  <2>2. i \in Nat /\ (\A j \in bad : j \in Nat /\ ~(j < i)) /\ UpTo(i) # {} /\ ~Has(i)
    BY <1>1, <2>1 DEF OpToRel
  <2>3. i = 0 \/ (i - 1 \in Nat /\ (UpTo(i - 1) = {} \/ Has(i - 1)))
    BY <1>1, <2>2
  <2>4. i # 0 => \A m : m \in UpTo(i) <=> m \in UpTo(i - 1) \/ (m = i /\ i \in some)
    <3> SUFFICES ASSUME i # 0, NEW m
                 PROVE  m \in UpTo(i) <=> m \in UpTo(i - 1) \/ (m = i /\ i \in some)
      OBVIOUS
    <3>1. m \in some => (m <= i <=> m <= i - 1 \/ m = i)
      BY <1>1, <2>2
    <3>2. i - 1 \in Nat /\ i <= i
      BY <2>2
    <3> QED BY <1>2, <2>2, <3>1, <3>2
  <2>5. CASE i = 0 \/ UpTo(i - 1) = {}
    <3>1. i \in UpTo(i) /\ i \in some /\ \A m \in UpTo(i) : m = i
      <4>1. CASE i = 0
        <5>1. \A m \in UpTo(i) : m \in some /\ m = i
          BY <1>1, <1>2, <2>2, <4>1
        <5> QED BY <2>2, <5>1
      <4>2. CASE i # 0
        BY <2>2, <2>4, <2>5, <4>2
      <4> QED BY <4>1, <4>2
    <3> QED BY <1>1, <1>3, <2>2, <3>1, OrderIsTotal
  <2>6. CASE i # 0 /\ Has(i - 1)
    <3>1. PICK m \in UpTo(i - 1) : \A n \in UpTo(i - 1) : ~Outranks(n, m, k)
      BY <1>3, <2>6
    <3>2. \A n \in UpTo(i - 1) : n \in some /\ n \in MappingsOf(k)
      BY <1>1, <1>2, <2>3, <2>6
    <3>3. CASE i \notin some \/ ~Outranks(i, m, k)
      BY <1>3, <2>2, <2>4, <2>6, <3>1, <3>3
    <3>4. CASE i \in some /\ Outranks(i, m, k)
      <4>1. ~Outranks(i, i, k) /\ ~Outranks(m, i, k)
        BY <1>1, <3>1, <3>2, <3>4, OrderIsTotal
      <4>2. \A n \in UpTo(i - 1) : ~Outranks(n, i, k)
        BY <1>1, <3>1, <3>2, <3>4, <4>1, OrderIsTotal
      <4> QED BY <1>3, <2>2, <2>4, <2>6, <3>4, <4>1, <4>2
    <3> QED BY <3>3, <3>4
  <2> QED BY <2>3, <2>5, <2>6
<1>6. Has(last)
  BY <1>1, <1>4, <1>5
<1> QED BY <1>3, <1>4, <1>6

\* Only the first handler that takes care of a press executes it, whatever the preset.
THEOREM PressHasOneOutput == Spec => OneOutputPerPress
<1>1. ASSUME TypeOK, [Next]_vars,
             NEW m \in Mappings, ~outActive[m], outActive'[m], SubHandles(m),
             NEW n \in Mappings, ~outActive[n], outActive'[n], SubHandles(n)
      PROVE  m = n
  <2>1. PICK k \in Keys : Press(k) /\ m \in MappingsOf(k) /\ Fires(m, k)
    BY <1>1, OnlyPressesFire
  <2>2. n \in MappingsOf(k) /\ Fires(n, k)
    BY <1>1, <2>1 DEF Press, HandlePress
  <2>3. HandlesPress(m, k) /\ HandlesPress(n, k)
    BY <1>1, <2>1, <2>2, FiredHandles
  <2>4. ~Outranks(m, n, k) /\ ~Outranks(n, m, k)
    BY <2>1, <2>2, <2>3 DEF Fires, Suppressed
  <2> QED BY <2>1, <2>2, <2>4, OrderIsTotal
<1>2. TypeOK /\ [Next]_vars => [OneOutput]_vars
  BY <1>1 DEF OneOutput
<1> QED BY <1>2, TypeCorrect, PTL DEF Spec, OneOutputPerPress

\* A combination never starts with a press that completes a longer one that can be
\* injected, whatever the preset.
THEOREM LongestWins == Spec => LongestCombinationWins
<1>1. ASSUME TypeOK, [Next]_vars,
             NEW m \in Mappings, NEW n \in Mappings, NEW k \in held' \ held,
             k \in ComboKeys(m) \cap ComboKeys(n), ~outActive[m], outActive'[m],
             Size(n) > Size(m), ComboKeys(n) \subseteq pressed'[n], SubHandles(n)
      PROVE  FALSE
  <2>1. PICK j \in Keys : Press(j) /\ m \in MappingsOf(j) /\ Fires(m, j)
    BY <1>1, OnlyPressesFire
  <2>2. j = k
    BY <1>1, <2>1 DEF Press
  <2>3. n \in MappingsOf(k)
    BY <1>1 DEF MappingsOf
  <2>4. Activated(n, pressed[n] \cup {k})
    BY <1>1, <2>1, <2>2, <2>3 DEF Press, HandlePress, Activated
  <2>5. HandlesPress(n, k)
    BY <1>1, <2>4 DEF HandlesPress, Changed, TypeOK
  <2>6. Outranks(n, m, k)
    BY <1>1 DEF Outranks
  <2> QED BY <2>1, <2>2, <2>3, <2>5, <2>6 DEF Fires, Suppressed
<1>2. TypeOK /\ [Next]_vars => [LongestStarts]_vars
  BY <1>1 DEF LongestStarts
<1> QED BY <1>2, TypeCorrect, PTL DEF Spec, LongestCombinationWins

-----------------------------------------------------------------------------
(* Every press does something.                                             *)

\* The first handler that takes care of a press executes it.
LEMMA HandledIsActive ==
    ASSUME NEW last \in Nat, Mappings \subseteq 0..last,
           HandlersInv, NEW k \in Keys, Press(k), Reliable(k),
           \E m \in MappingsOf(k) : HandlesPress(m, k)
    PROVE  \E m \in MappingsOf(k) : outActive'[m] /\ SubHandles(m)
<1> DEFINE some == {m \in MappingsOf(k) : HandlesPress(m, k)}
<1>1. PICK m \in some : \A n \in some : ~Outranks(n, m, k)
  <2>1. some # {} /\ some \in SUBSET MappingsOf(k)
    OBVIOUS
  <2> HIDE DEF some
  <2> QED BY <2>1, AFirstExists
<1>2. m \in MappingsOf(k) /\ HandlesPress(m, k) /\ ~Suppressed(m, k)
  BY <1>1 DEF Suppressed
<1>3. Changed(m, pressed[m] \cup {k})
  BY <1>2, PressIsFresh DEF Press
<1>4. Fires(m, k) /\ SubHandles(m)
  BY <1>2, <1>3 DEF Fires, HandlesPress
<1>5. outActive'[m]
  <2>1. m \in Mappings
    BY <1>2 DEF MappingsOf
  <2> QED BY <1>2, <1>4, <2>1 DEF Press, HandlePress
<1> QED BY <1>2, <1>4, <1>5

\* A press that a reader handles is forwarded, or one of the mappings of its key is active
\* and can be injected, for every finite preset, whatever the codes of the keys, the events
\* that other devices lose and the devices that are unplugged.
THEOREM NoPressVanishes ==
    ASSUME NEW last \in Nat, Mappings \subseteq 0..last
    PROVE  Spec => PressNeverVanishes
<1> DEFINE Visible == \A k \in held' \ held :
                          injecting /\ DeviceOf[k] \in readers /\ Reliable(k) =>
                              \/ k \in fwdDown'
                              \/ \E m \in MappingsOf(k) : outActive'[m] /\ SubHandles(m)
<1>1. ASSUME HandlersInv, [Next]_vars, NEW k \in held' \ held,
             injecting, DeviceOf[k] \in readers, Reliable(k)
      PROVE  \/ k \in fwdDown'
             \/ \E m \in MappingsOf(k) : outActive'[m] /\ SubHandles(m)
  <2>1. k \in Keys /\ Press(k)
    <3>1. ASSUME NEW j \in Keys, Press(j) PROVE j = k
      BY <1>1, <3>1 DEF Press
    <3>2. ASSUME NEW j \in Keys, DropEvent(j) PROVE FALSE
      BY <1>1, <3>2 DEF DropEvent, Reliable
    <3>3. ~(\E j \in Keys : Release(j) \/ MoveUngrabbed(j)) /\ ~(\E d \in Devices : Unplug(d))
          /\ ~Stop /\ ~Start /\ ~UNCHANGED vars
      BY <1>1 DEF Release, MoveUngrabbed, Unplug, Stop, Start, vars
    <3> QED BY <1>1, <3>1, <3>2, <3>3 DEF Next
  <2>2. CASE \E m \in MappingsOf(k) : HandlesPress(m, k)
    BY <1>1, <2>1, <2>2, HandledIsActive
  <2>3. CASE ~\E m \in MappingsOf(k) : HandlesPress(m, k)
    BY <2>1, <2>3 DEF Press, HandlePress
  <2> QED BY <2>2, <2>3
<1>2. HandlersInv /\ [Next]_vars => [Visible]_vars
  BY <1>1
<1> QED BY <1>2, HandlersAreRight, PTL DEF Spec, PressNeverVanishes

-----------------------------------------------------------------------------
(* The macros.                                                             *)

Listeners == [macro : Macros, run : Nat]
Entries   == [task : Macros \cup Nat, hops : 0 .. HeadStart, new : BOOLEAN]
Stages    == {"new", "called", "jammed", "handled"}
Events    == [key : OtherKeys \cup Macros, down : BOOLEAN]

\* Where a macro is when it has a turn to come, or sleeps.
Turns == Sleeping \cup {"starting", "waking", "released", "timed_out", "cancelled"}
Places == Turns \cup Until \cup {"idle", "deciding", "tap_up"}

LoopTypeOK ==
    /\ kind \in [Macros -> Kinds]
    /\ read \in Seq(Events)
    /\ stage \in Seq(Stages) /\ Len(stage) = Len(read)
    /\ left \in Seq(SUBSET Listeners) /\ Len(left) = Len(read)
    /\ ready \in Seq(Entries)
    /\ listeners \in SUBSET Listeners
    /\ pc \in [Macros -> Places]
    /\ run \in [Macros -> Nat]
    /\ holds \in [Macros -> BOOLEAN]
    /\ jam \in [Macros -> Seq(Nat)]

\* An entry of an event says that it is new, or was called and does not wait; one of a macro
\* that it is where it has a turn to come.
EventCan(e) ==
    \/ e = Nothing
    \/ /\ e.task \in DOMAIN read /\ ~e.new
       /\ (stage[e.task] = "new" /\ e.hops = 0) \/ stage[e.task] = "called"
MacroCan(e) == IF e.new THEN e.hops = 0 ELSE pc[e.task] \in Turns
Can(e) == (e.task \in Nat /\ EventCan(e)) \/ (e.task \in Macros /\ MacroCan(e))

AllCan == \A p \in DOMAIN ready : Can(ready[p])

\* Everybody waits once, but for tasks that did not start.
WaitsOnce ==
    \A p, q \in DOMAIN ready :
        /\ ready[p].task = ready[q].task /\ ready[p].task # 0
        /\ ~ready[p].new /\ ~ready[q].new
        => p = q

\* Events that wait for a macro wait for it only, and once.
JamsWait ==
    /\ \A n \in Macros : \A k \in DOMAIN jam[n] :
          jam[n][k] \in DOMAIN read /\ stage[jam[n][k]] = "jammed"
    /\ \A n, o \in Macros : \A k \in DOMAIN jam[n], h \in DOMAIN jam[o] :
          jam[n][k] = jam[o][h] => n = o /\ k = h

\* An event that is not handled and does not wait for a macro waits for its turn.
NoneIsForgotten ==
    \A i \in DOMAIN read : stage[i] \in {"new", "called"} =>
        \E p \in DOMAIN ready : ready[p].task = i

LoopInv == LoopTypeOK /\ AllCan /\ WaitsOnce /\ JamsWait /\ NoneIsForgotten

USE MacroTasksAssumption

-----------------------------------------------------------------------------
(* The queue.                                                              *)

\* s is r without the first d entries, and with n others at the end.
IsAfter(s, r, d, n) ==
    /\ s \in Seq(Entries)
    /\ Len(s) = Len(r) - d + n
    /\ \A p \in 1 .. Len(r) - d : s[p] = r[p + d]

\* How many entries Rest takes.
Taken == IF ready = <<>> THEN 0 ELSE 1

LEMMA RestIs ==
    ASSUME ready \in Seq(Entries)
    PROVE  /\ IsAfter(Rest, ready, Taken, 0)
           /\ Taken \in {0, 1} /\ Taken <= Len(ready) /\ Len(ready) \in Nat
           /\ ready # <<>> => Taken = 1 /\ Head(ready) = ready[1] /\ 1 \in DOMAIN ready
<1>1. CASE ready = <<>>
  BY <1>1 DEF Rest, Taken, IsAfter
<1>2. CASE ready # <<>>
  <2>1. /\ Tail(ready) \in Seq(Entries) /\ Len(Tail(ready)) = Len(ready) - 1
        /\ \A p \in 1 .. Len(ready) - 1 : Tail(ready)[p] = ready[p + 1]
    BY <1>2, HeadTailProperties
  <2>2. Head(ready) = ready[1] /\ 1 \in DOMAIN ready
    BY <1>2
  <2> QED BY <1>2, <2>1, <2>2 DEF Rest, Taken, IsAfter
<1> QED BY <1>1, <1>2

\* One more entry.
LEMMA AppendIs ==
    ASSUME NEW s \in Seq(Entries), NEW e \in Entries
    PROVE  /\ Append(s, e) \in Seq(Entries) /\ Len(Append(s, e)) = Len(s) + 1
           /\ Append(s, e)[Len(s) + 1] = e
           /\ \A p \in 1 .. Len(s) : Append(s, e)[p] = s[p]
           /\ Len(s) \in Nat
<1> QED BY AppendProperties

\* The queues that steps leave.
LEMMA QueuesAre ==
    ASSUME ready \in Seq(Entries)
    PROVE  LET o == Len(ready) - Taken IN
           /\ IsAfter(Rest, ready, Taken, 0)
           /\ \A e \in Entries :
                 /\ IsAfter(Append(Rest, e), ready, Taken, 1) /\ Append(Rest, e)[o + 1] = e
                 /\ IsAfter(Append(ready, e), ready, 0, 1)
                 /\ Append(ready, e)[Len(ready) + 1] = e
           /\ \A e, f \in Entries :
                 /\ IsAfter(Append(Append(Rest, e), f), ready, Taken, 2)
                 /\ Append(Append(Rest, e), f)[o + 1] = e
                 /\ Append(Append(Rest, e), f)[o + 2] = f
<1> DEFINE o == Len(ready) - Taken
<1>1. o \in Nat /\ IsAfter(Rest, ready, Taken, 0) /\ Taken \in {0, 1} /\ Len(ready) \in Nat
  BY RestIs
<1>2. /\ Rest \in Seq(Entries) /\ Len(Rest) = o
      /\ \A p \in 1 .. o : Rest[p] = ready[p + Taken]
  BY <1>1 DEF IsAfter
<1>3. ASSUME NEW e \in Entries
      PROVE  IsAfter(Append(Rest, e), ready, Taken, 1) /\ Append(Rest, e)[o + 1] = e
  BY <1>1, <1>2, AppendIs DEF IsAfter
<1>4. ASSUME NEW e \in Entries, NEW f \in Entries
      PROVE  /\ IsAfter(Append(Append(Rest, e), f), ready, Taken, 2)
             /\ Append(Append(Rest, e), f)[o + 1] = e
             /\ Append(Append(Rest, e), f)[o + 2] = f
  <2> DEFINE s == Append(Rest, e)
  <2>1. /\ s \in Seq(Entries) /\ Len(s) = o + 1 /\ s[o + 1] = e
        /\ \A p \in 1 .. o : s[p] = ready[p + Taken]
    BY <1>2, AppendIs
  <2> HIDE DEF s
  <2>2. /\ Append(s, f) \in Seq(Entries) /\ Len(Append(s, f)) = o + 1 + 1
        /\ Append(s, f)[o + 1 + 1] = f
        /\ \A p \in 1 .. o + 1 : Append(s, f)[p] = s[p]
    BY <2>1, AppendIs
  <2> QED BY <2>1, <2>2, <1>1 DEF s, IsAfter
<1>5. ASSUME NEW e \in Entries
      PROVE  IsAfter(Append(ready, e), ready, 0, 1) /\ Append(ready, e)[Len(ready) + 1] = e
  BY AppendIs DEF IsAfter
<1> QED BY <1>1, <1>3, <1>4, <1>5

\* What is left after the first d entries of the queue.
Stays(e, d) == \E p \in DOMAIN ready : p > d /\ ready[p] = e

\* A step keeps what is true of the queue if it does of what stays and what is added.
LEMMA QueueKeeps ==
    ASSUME LoopInv, LoopTypeOK', NEW s, s = ready',
           NEW d \in {0, 1}, d <= Len(ready), NEW n \in 0 .. 2, IsAfter(s, ready, d, n),
           \A e \in Entries : Stays(e, d) \/ (\E p \in DOMAIN s : p > Len(ready) - d /\ s[p] = e)
                                 => Can(e)',
           \A p, q \in DOMAIN s : /\ p > Len(ready) - d /\ q > Len(ready) - d
                                  /\ s[p].task = s[q].task /\ s[p].task # 0
                                  /\ ~s[p].new /\ ~s[q].new
                                  => p = q,
           \A p \in DOMAIN s, e \in Entries :
              p > Len(ready) - d /\ Stays(e, d) /\ ~s[p].new /\ ~e.new /\ s[p].task # 0
                 => e.task # s[p].task,
           \A i \in DOMAIN read' : stage'[i] \in {"new", "called"} =>
              \/ \E e \in Entries : Stays(e, d) /\ e.task = i
              \/ \E p \in DOMAIN s : p > Len(ready) - d /\ s[p].task = i
    PROVE  (AllCan /\ WaitsOnce /\ NoneIsForgotten)'
<1> DEFINE o == Len(ready) - d
<1>1. /\ o \in Nat /\ s \in Seq(Entries) /\ Len(s) = o + n /\ DOMAIN s = 1 .. Len(s)
      /\ DOMAIN ready = 1 .. Len(ready) /\ Len(ready) \in Nat /\ ready \in Seq(Entries)
      /\ \A p \in 1 .. o : s[p] = ready[p + d]
  BY DEF IsAfter, LoopInv, LoopTypeOK
<1>2. /\ \A p \in DOMAIN s : s[p] \in Entries
      /\ \A p \in DOMAIN ready : ready[p] \in Entries
  BY <1>1
<1>3. ASSUME NEW p \in DOMAIN s
      PROVE  \/ p > o
             \/ p <= o /\ p + d \in DOMAIN ready /\ s[p] = ready[p + d] /\ Stays(s[p], d)
  <2>1. CASE p <= o
    <3>1. p + d \in DOMAIN ready /\ s[p] = ready[p + d] /\ p + d > d
      BY <2>1, <1>1
    <3> QED BY <3>1, <2>1 DEF Stays
  <2> QED BY <2>1, <1>1
<1>4. ASSUME NEW e \in Entries, Stays(e, d)
      PROVE  \E p \in DOMAIN s : s[p] = e
  <2>1. PICK q \in DOMAIN ready : q > d /\ ready[q] = e
    BY <1>4 DEF Stays
  <2>2. q - d \in 1 .. o /\ q - d \in DOMAIN s /\ (q - d) + d = q
    BY <2>1, <1>1
  <2>3. s[q - d] = e
    BY <2>1, <2>2, <1>1
  <2> QED BY <2>2, <2>3
<1>5. AllCan'
  <2>1. ASSUME NEW p \in DOMAIN s
        PROVE  Can(s[p])'
    <3>1. s[p] \in Entries
      BY <1>2
    <3>2. Stays(s[p], d) \/ \E q \in DOMAIN s : q > o /\ s[q] = s[p]
      BY <1>3
    <3> QED BY <3>1, <3>2
  <2> QED BY <2>1 DEF AllCan
<1>6. WaitsOnce'
  <2> SUFFICES ASSUME NEW p \in DOMAIN s, NEW q \in DOMAIN s,
                      s[p].task = s[q].task, s[p].task # 0, ~s[p].new, ~s[q].new
               PROVE  p = q
    BY DEF WaitsOnce
  <2>1. CASE p > o /\ q > o
    BY <2>1
  <2>2. CASE ~(p > o) /\ ~(q > o)
    <3>1. /\ p + d \in DOMAIN ready /\ s[p] = ready[p + d]
          /\ q + d \in DOMAIN ready /\ s[q] = ready[q + d]
      BY <2>2, <1>3
    <3>2. p + d = q + d
      BY <3>1 DEF LoopInv, WaitsOnce
    <3> QED BY <3>2, <1>1
  <2>3. CASE p > o /\ ~(q > o)
    BY <2>3, <1>2, <1>3
  <2>4. CASE ~(p > o) /\ q > o
    BY <2>4, <1>2, <1>3
  <2> QED BY <2>1, <2>2, <2>3, <2>4
<1>7. NoneIsForgotten'
  <2> SUFFICES ASSUME NEW i \in DOMAIN read', stage'[i] \in {"new", "called"}
               PROVE  \E p \in DOMAIN s : s[p].task = i
    BY DEF NoneIsForgotten
  <2> QED BY <1>4
<1> QED BY <1>5, <1>6, <1>7

LEMMA EntriesAre ==
    /\ \A t \in Macros \cup Nat, h \in 0 .. 5 :
          /\ Wake(t, h) \in Entries /\ Wake(t, h).task = t /\ Wake(t, h).hops = h
          /\ ~Wake(t, h).new
    /\ \A n \in Macros : /\ NewTask(n) \in Entries /\ NewTask(n).new
                         /\ NewTask(n).task = n /\ NewTask(n).hops = 0
    /\ Nothing \in Entries /\ Nothing.task = 0 /\ ~Nothing.new
    /\ HeadStart = 5
<1> QED BY DEF Entries, HeadStart, Wake, NewTask, Nothing

\* The task that has its turn is not queued any more, unless it did not start.
LEMMA TurnIsOver ==
    ASSUME LoopInv, NEW t \in Macros \cup Nat, t # 0, NEW e \in Entries, Stays(e, Taken), ~e.new,
           ready # <<>> => Head(ready).task = t /\ ~Head(ready).new
    PROVE  e.task # t
<1>1. PICK p \in DOMAIN ready : p > Taken /\ ready[p] = e
  BY DEF Stays
<1>2. /\ ready # <<>> /\ ready \in Seq(Entries)
  BY <1>1 DEF LoopInv, LoopTypeOK
<1>3. Taken = 1 /\ Head(ready) = ready[1] /\ 1 \in DOMAIN ready
  BY <1>2, RestIs
<1> QED BY <1>1, <1>2, <1>3 DEF LoopInv, WaitsOnce

\* A turn of a macro that leaves the events alone.
Moves(m) ==
    /\ MacroTurn(m)
    /\ \E place \in Places :
          /\ pc' = [pc EXCEPT ![m] = place]
          /\ \/ ready' = Rest
             \/ place \in Turns /\ \E h \in {0, 2} : ready' = Append(Rest, Wake(m, h))
    /\ UNCHANGED <<kind, read, stage, left, run, holds>>
    /\ listeners' \subseteq listeners \cup {Listener(m)}
    /\ jam' = jam \/ jam' = [jam EXCEPT ![m] = <<>>]

LEMMA MacroMoves ==
    ASSUME LoopInv, NEW m \in Macros, Moves(m)
    PROVE  LoopInv'
<1>1. PICK place \in Places :
          /\ pc' = [pc EXCEPT ![m] = place]
          /\ \/ ready' = Rest
             \/ place \in Turns /\ \E h \in {0, 2} : ready' = Append(Rest, Wake(m, h))
  BY DEF Moves
<1>2. PICK n \in {0, 1} :
          /\ IsAfter(ready', ready, Taken, n)
          /\ n = 1 => /\ place \in Turns
                      /\ \E h \in {0, 2} : ready'[Len(ready) - Taken + 1] = Wake(m, h)
  <2>1. ready \in Seq(Entries)
    BY DEF LoopInv, LoopTypeOK
  <2>2. CASE ready' = Rest
    <3>1. IsAfter(ready', ready, Taken, 0)
      BY <2>1, <2>2, QueuesAre
    <3>2. 0 \in {0, 1} /\ 0 # 1
      OBVIOUS
    <3> QED BY <3>1, <3>2
  <2>3. CASE place \in Turns /\ \E h \in {0, 2} : ready' = Append(Rest, Wake(m, h))
    <3>1. PICK h \in {0, 2} : ready' = Append(Rest, Wake(m, h))
      BY <2>3
    <3>2. Wake(m, h) \in Entries
      BY EntriesAre
    <3> QED BY <2>1, <2>3, <3>1, <3>2, QueuesAre
  <2> QED BY <1>1, <2>2, <2>3
<1>3. LoopTypeOK'
  <2>1. Listener(m) \in Listeners
    BY DEF Listener, Listeners, LoopInv, LoopTypeOK
  <2>2. listeners' \in SUBSET Listeners
    BY <2>1 DEF Moves, LoopInv, LoopTypeOK
  <2>3. pc' \in [Macros -> Places]
    BY <1>1 DEF LoopInv, LoopTypeOK
  <2>4. jam' \in [Macros -> Seq(Nat)]
    <3>1. <<>> \in Seq(Nat) /\ jam \in [Macros -> Seq(Nat)]
      BY DEF LoopInv, LoopTypeOK
    <3>2. [jam EXCEPT ![m] = <<>>] \in [Macros -> Seq(Nat)]
      BY <3>1
    <3> QED BY <3>1, <3>2 DEF Moves
  <2>5. ready' \in Seq(Entries)
    BY <1>2 DEF IsAfter
  <2> QED BY <2>2, <2>3, <2>4, <2>5 DEF Moves, LoopInv, LoopTypeOK
<1>4. /\ \A p \in DOMAIN ready' : p > Len(ready) - Taken =>
            /\ n = 1 /\ p = Len(ready) - Taken + 1 /\ place \in Turns
            /\ ready'[p].task = m /\ ~ready'[p].new
      /\ Len(ready) - Taken \in Nat /\ Taken \in {0, 1} /\ Taken <= Len(ready)
      /\ DOMAIN ready' = 1 .. Len(ready')
  <2>1. /\ Len(ready) - Taken \in Nat /\ Taken \in {0, 1} /\ Taken <= Len(ready)
    BY RestIs DEF LoopInv, LoopTypeOK
  <2>2. Len(ready') = Len(ready) - Taken + n /\ DOMAIN ready' = 1 .. Len(ready')
    BY <1>2, <1>3 DEF IsAfter, LoopTypeOK
  <2> QED BY <2>1, <2>2, <1>2, EntriesAre
<1>5. ready # <<>> => Head(ready).task = m /\ ~Head(ready).new
  BY EntriesAre DEF Moves, MacroTurn
<1>6. \A e \in Entries : Stays(e, Taken) => Can(e) /\ (~e.new => e.task # m)
  <2> SUFFICES ASSUME NEW e \in Entries, Stays(e, Taken)
               PROVE  Can(e) /\ (~e.new => e.task # m)
    OBVIOUS
  <2>1. Can(e)
    BY DEF Stays, LoopInv, AllCan
  <2>2. m # 0
    OBVIOUS
  <2> QED BY <2>1, <2>2, <1>5, TurnIsOver
<1>7. \A e \in Entries :
          Stays(e, Taken) \/ (\E p \in DOMAIN ready' : p > Len(ready) - Taken /\ ready'[p] = e)
             => Can(e)'
  <2> TAKE e \in Entries
  <2>1. ASSUME Stays(e, Taken) PROVE Can(e)'
    <3>1. Can(e) /\ (~e.new => e.task # m)
      BY <1>6, <2>1
    <3> QED BY <3>1, <1>1 DEF Can, EventCan, MacroCan, Moves, Entries, LoopInv, LoopTypeOK
  <2>2. ASSUME NEW p \in DOMAIN ready', p > Len(ready) - Taken, ready'[p] = e PROVE Can(e)'
    <3>1. e.task = m /\ ~e.new /\ place \in Turns
      BY <2>2, <1>4
    <3> QED BY <3>1, <1>1 DEF Can, MacroCan, LoopInv, LoopTypeOK
  <2> QED BY <2>1, <2>2
<1>8. \A i \in DOMAIN read' : stage'[i] \in {"new", "called"} =>
          \E e \in Entries : Stays(e, Taken) /\ e.task = i
  <2> SUFFICES ASSUME NEW i \in DOMAIN read, stage[i] \in {"new", "called"}
               PROVE  \E e \in Entries : Stays(e, Taken) /\ e.task = i
    BY DEF Moves
  <2>1. PICK p \in DOMAIN ready : ready[p].task = i
    BY DEF LoopInv, NoneIsForgotten
  <2>2. i \in Nat /\ ready \in Seq(Entries)
    BY DEF LoopInv, LoopTypeOK
  <2>3. ready # <<>> /\ ready[p] \in Entries
    BY <2>1, <2>2
  <2>4. Taken = 1 /\ Head(ready) = ready[1]
    BY <2>2, <2>3, RestIs
  <2>5. p # 1
    BY <2>1, <2>2, <2>3, <2>4, <1>5
  <2>6. p > Taken
    BY <2>2, <2>4, <2>5
  <2> QED BY <2>1, <2>3, <2>6 DEF Stays
<1>9. (AllCan /\ WaitsOnce /\ NoneIsForgotten)'
  <2>1. \A p, q \in DOMAIN ready' :
            p > Len(ready) - Taken /\ q > Len(ready) - Taken => p = q
    BY <1>4
  <2>2. \A p \in DOMAIN ready', e \in Entries :
            p > Len(ready) - Taken /\ Stays(e, Taken) /\ ~e.new => e.task # ready'[p].task
    BY <1>4, <1>6
  <2>3. n \in 0 .. 2
    OBVIOUS
  <2> HIDE MacroTasksAssumption
  <2> QED BY <1>2, <1>3, <1>4, <1>7, <1>8, <2>1, <2>2, <2>3, QueueKeeps
<1>10. JamsWait'
  <2>1. jam \in [Macros -> Seq(Nat)] /\ JamsWait /\ read' = read /\ stage' = stage
    BY DEF Moves, LoopInv, LoopTypeOK
  <2>2. \A o \in Macros : jam'[o] = jam[o] \/ jam'[o] = <<>>
    BY <2>1 DEF Moves
  <2>3. \A o \in Macros : \A k \in DOMAIN jam'[o] : jam'[o] = jam[o] /\ k \in DOMAIN jam[o]
    BY <2>2
  <2> QED BY <2>1, <2>3 DEF JamsWait
<1> QED BY <1>3, <1>9, <1>10 DEF LoopInv

\* Where a macro needs its listener.
Attentive == {"deciding", "waking", "draining"}
Listening(m) == pc[m] \in Attentive

\* Turns of macros that do not listen.
Quiet(m) ==
    \/ StartIfTap(m) \/ StartHold(m) \/ HoldMacro(m) \/ Toggle(m) \/ Repeat(m) \/ Modify(m)
    \/ HoldKeys(m) \/ IfTapDecides(m) \/ TapUp(m) \/ KeyUp(m) \/ End(m) \/ Cancelled(m)

LEMMA QuietMoves ==
    ASSUME LoopTypeOK, NEW m \in Macros, Quiet(m)
    PROVE  /\ Moves(m) /\ ~Listening(m) /\ ~Listening(m)'
           /\ UNCHANGED <<listeners, jam, decidedBy, kind, read, stage, left, run, holds>>
           /\ \E place \in Places : pc' = [pc EXCEPT ![m] = place]
<1> DEFINE Place(place) == /\ place \in Places \ Attentive
                           /\ pc' = [pc EXCEPT ![m] = place]
                           /\ \/ ready' = Rest
                              \/ place \in Turns /\ ready' = Append(Rest, Wake(m, 0))
<1>0. Turns \subseteq Places
  BY DEF Places
<1>1. ASSUME NEW place \in Turns \ Attentive, Goto(m, place), KeycodePause(m) PROVE Place(place)
  BY <1>1, <1>0 DEF Goto, KeycodePause
<1>2. ASSUME NEW place \in Places \ Attentive, Goto(m, place), ready' = Rest PROVE Place(place)
  BY <1>2 DEF Goto
<1>3. TapKey(m) => Place("tapping")
  <2>1. "tapping" \in Turns \ Attentive
    BY DEF Turns, Sleeping, Attentive
  <2> QED BY <2>1, <1>1 DEF TapKey
<1>4. Stops(m) => Place("idle")
  <2>1. "idle" \in Places \ Attentive
    BY DEF Attentive, Places
  <2> QED BY <2>1, <1>2 DEF Stops
<1>5. {"tapping", "ending", "pressing", "releasing", "modifying", "unmodifying"} \subseteq Turns \ Attentive
  BY DEF Turns, Sleeping, Attentive
<1>6. {"until_release", "idle", "resting", "tap_down", "tap_up"} \subseteq Places \ Attentive
  BY DEF Attentive, Places, Until, Turns, Sleeping
<1>7. "starting" \notin Attentive /\ "resting" \notin Attentive /\ "ending" \notin Attentive
      /\ "modifying" \notin Attentive /\ "unmodifying" \notin Attentive
      /\ "pressing" \notin Attentive /\ "releasing" \notin Attentive /\ "released" \notin Attentive
      /\ "timed_out" \notin Attentive /\ "tapping" \notin Attentive /\ "cancelled" \notin Attentive
  BY DEF Attentive
<1> DEFINE Done == /\ MacroTurn(m) /\ pc[m] \notin Attentive /\ \E place : Place(place)
                   /\ UNCHANGED <<listeners, jam, decidedBy, kind, read, stage, left, run, holds>>
<1> HIDE DEF Place
<1>8. Done
  <2>1. CASE StartIfTap(m)
    BY <2>1, <1>2, <1>6, <1>7 DEF StartIfTap, inputVars, eventVars
  <2>2. CASE StartHold(m)
    BY <2>2, <1>2, <1>6, <1>7 DEF StartHold, inputVars, eventVars
  <2>3. CASE HoldMacro(m)
    BY <2>3, <1>2, <1>3, <1>4, <1>6, <1>7 DEF HoldMacro, inputVars, eventVars
  <2>4. CASE Toggle(m)
    BY <2>4, <1>3, <1>4, <1>7 DEF Toggle, inputVars, eventVars
  <2>5. CASE Repeat(m)
    BY <2>5, <1>3, <1>4, <1>7 DEF Repeat, inputVars, eventVars
  <2>6. CASE Modify(m)
    BY <2>6, <1>1, <1>3, <1>4, <1>5, <1>7 DEF Modify, inputVars, eventVars
  <2>7. CASE HoldKeys(m)
    BY <2>7, <1>1, <1>2, <1>4, <1>5, <1>6, <1>7 DEF HoldKeys, inputVars, eventVars
  <2>8. CASE IfTapDecides(m)
    BY <2>8, <1>3, <1>7 DEF IfTapDecides, inputVars, eventVars
  <2>9. CASE TapUp(m)
    BY <2>9, <1>1, <1>5, <1>7 DEF TapUp, inputVars, eventVars
  <2>10. CASE KeyUp(m)
    BY <2>10, <1>1, <1>2, <1>5, <1>6, <1>7 DEF KeyUp, inputVars, eventVars
  <2>11. CASE End(m)
    BY <2>11, <1>2, <1>6, <1>7 DEF End, inputVars, eventVars
  <2>12. CASE Cancelled(m)
    BY <2>12, <1>2, <1>6, <1>7 DEF Cancelled, inputVars, eventVars
  <2> QED BY <2>1, <2>2, <2>3, <2>4, <2>5, <2>6, <2>7, <2>8, <2>9, <2>10, <2>11, <2>12 DEF Quiet
<1>9. PICK place : Place(place)
  BY <1>8
<1>10. /\ place \in Places /\ place \notin Attentive /\ pc' = [pc EXCEPT ![m] = place]
       /\ ready' = Rest \/ (place \in Turns /\ ready' = Append(Rest, Wake(m, 0)))
  BY <1>9 DEF Place
<1>11. Moves(m)
  BY <1>8, <1>10 DEF Moves
<1>12. pc'[m] = place
  BY <1>10 DEF LoopTypeOK
<1> QED BY <1>8, <1>10, <1>11, <1>12 DEF Listening

\* The turns in which a macro begins to listen, decides, and ends to listen.
LEMMA ListenersMove ==
    ASSUME LoopTypeOK, NEW m \in Macros,
           StartListening(m) \/ IfSingleDecides(m) \/ ModTapDecides(m) \/ StopListening(m)
    PROVE  Moves(m)
<1> DEFINE Place(place, h) == /\ pc' = [pc EXCEPT ![m] = place]
                              /\ ready' = Rest \/ (place \in Turns /\ ready' = Append(Rest, Wake(m, h)))
<1>1. /\ {"tapping", "draining", "waking", "ending"} \subseteq Turns
      /\ {"tapping", "draining", "waking", "ending", "deciding", "until_release"} \subseteq Places
  BY DEF Turns, Sleeping, Places, Until
<1>2. ASSUME NEW place \in Places, NEW h \in {0, 2}, Place(place, h),
             MacroTurn(m), UNCHANGED <<kind, read, stage, left, run, holds>>,
             listeners' \subseteq listeners \cup {Listener(m)},
             jam' = jam \/ jam' = [jam EXCEPT ![m] = <<>>]
      PROVE  Moves(m)
  BY <1>2 DEF Moves
<1>3. CASE StartListening(m)
  <2>1. Place("deciding", 2) \/ Place("waking", 2)
    BY <1>1, <1>3 DEF StartListening, Goto
  <2> HIDE DEF Place
  <2> QED BY <1>1, <1>2, <1>3, <2>1 DEF StartListening, inputVars, eventVars
<1>4. CASE IfSingleDecides(m)
  <2>1. Place("tapping", 0)
    BY <1>1, <1>4 DEF IfSingleDecides, TapKey, KeycodePause, Goto
  <2> HIDE DEF Place
  <2> QED BY <1>1, <1>2, <1>4, <2>1 DEF IfSingleDecides, inputVars, eventVars
<1>5. CASE ModTapDecides(m)
  <2>1. Place("draining", 0)
    BY <1>1, <1>5 DEF ModTapDecides, KeycodePause, Goto
  <2> HIDE DEF Place
  <2> QED BY <1>1, <1>2, <1>5, <2>1 DEF ModTapDecides, inputVars, eventVars
<1>6. CASE StopListening(m)
  <2>1. Place("until_release", 0) \/ Place("ending", 0)
    BY <1>1, <1>6 DEF StopListening, KeycodePause, Goto
  <2> HIDE DEF Place
  <2> QED BY <1>1, <1>2, <1>6, <2>1 DEF StopListening, inputVars, eventVars
<1> QED BY <1>3, <1>4, <1>5, <1>6

\* The turn of an event.
LEMMA EventsTurn ==
    ASSUME LoopInv, NEW i \in DOMAIN read, EventTurn(i)
    PROVE  /\ ready # <<>> /\ Taken = 1 /\ Head(ready) = Wake(i, 0) /\ ready[1] = Wake(i, 0)
           /\ stage[i] \in {"new", "called"} /\ i \in Nat /\ i # 0
           /\ i \in DOMAIN stage /\ i \in DOMAIN left /\ DOMAIN stage = DOMAIN read
           /\ Len(ready) - 1 \in Nat /\ ready \in Seq(Entries) /\ 1 \in DOMAIN ready
           /\ \A e \in Entries : Stays(e, 1) => Can(e) /\ (~e.new => e.task # i)
<1>1. /\ ready \in Seq(Entries) /\ ready # <<>> /\ Head(ready) = Wake(i, 0)
      /\ i \in Nat /\ i # 0 /\ DOMAIN stage = DOMAIN read /\ DOMAIN left = DOMAIN read
  BY DEF LoopInv, LoopTypeOK, EventTurn
<1>2. Taken = 1 /\ Head(ready) = ready[1] /\ 1 \in DOMAIN ready /\ Len(ready) - 1 \in Nat
  BY <1>1, RestIs
<1>3. ready[1].task = i /\ ~ready[1].new /\ ready[1] # Nothing
  BY <1>1, <1>2, EntriesAre
<1>4. Can(ready[1])
  BY <1>2 DEF LoopInv, AllCan
<1>5. stage[i] \in {"new", "called"}
  BY <1>1, <1>3, <1>4 DEF Can, EventCan
<1>6. ASSUME NEW e \in Entries, Stays(e, 1)
      PROVE  Can(e) /\ (~e.new => e.task # i)
  <2>1. PICK p \in DOMAIN ready : p > 1 /\ ready[p] = e
    BY <1>6 DEF Stays
  <2>2. Can(e)
    BY <2>1 DEF LoopInv, AllCan
  <2>3. ~e.new => e.task # i
    BY <1>1, <1>2, <1>3, <1>6, TurnIsOver
  <2> QED BY <2>2, <2>3
<1> QED BY <1>1, <1>2, <1>5, <1>6

\* All events but that of the first entry are still queued.
LEMMA OthersWait ==
    ASSUME LoopInv, ready # <<>>, NEW i \in DOMAIN read, i # Head(ready).task,
           stage[i] \in {"new", "called"}
    PROVE  \E e \in Entries : Stays(e, 1) /\ e.task = i
<1>1. PICK p \in DOMAIN ready : ready[p].task = i
  BY DEF LoopInv, NoneIsForgotten
<1>2. ready \in Seq(Entries)
  BY DEF LoopInv, LoopTypeOK
<1>3. p # 1 /\ p \in 1 .. Len(ready) /\ ready[p] \in Entries
  BY <1>1, <1>2
<1>4. p > 1
  BY <1>3
<1> QED BY <1>1, <1>3, <1>4 DEF Stays

LEMMA InitIsRight ==
    ASSUME MacroInit
    PROVE  LoopInv
<1>1. kind \in [Macros -> Kinds]
  BY DEF MacroInit
<1>2. "idle" \in Places
  BY DEF Places
<1>3. LoopTypeOK
  BY <1>1, <1>2 DEF MacroInit, LoopTypeOK
<1> QED BY <1>3 DEF MacroInit, LoopInv, AllCan, WaitsOnce, JamsWait, NoneIsForgotten

LEMMA ReadKeeps ==
    ASSUME LoopInv, Read
    PROVE  /\ LoopInv'
           /\ Len(read') = Len(read) + 1 /\ DOMAIN read' = 1 .. Len(read) + 1
           /\ stage'[Len(read) + 1] = "new"
           /\ \A i \in DOMAIN read : /\ i \in DOMAIN read' /\ i # Len(read) + 1
                                     /\ read'[i] = read[i] /\ stage'[i] = stage[i]
                                     /\ left'[i] = left[i]
           /\ IsAfter(ready', ready, 0, 1) /\ ready'[Len(ready) + 1] = Wake(Len(read) + 1, 0)
<1> DEFINE n == Len(read) + 1
<1>1. PICK k \in OtherKeys \cup {m \in Macros : kind[m] # "none"} :
          read' = Append(read, [key |-> k, down |-> ~IsDown(k)])
  BY DEF Read
<1>2. /\ read \in Seq(Events) /\ stage \in Seq(Stages) /\ left \in Seq(SUBSET Listeners)
      /\ Len(stage) = Len(read) /\ Len(left) = Len(read) /\ Len(read) \in Nat
      /\ ready \in Seq(Entries)
  BY DEF LoopInv, LoopTypeOK
<1>3. [key |-> k, down |-> ~IsDown(k)] \in Events
  BY DEF Events, IsDown
<1>4. /\ read' \in Seq(Events) /\ Len(read') = n /\ \A i \in 1 .. Len(read) : read'[i] = read[i]
  BY <1>1, <1>2, <1>3, AppendProperties
<1>5. /\ stage' \in Seq(Stages) /\ Len(stage') = n
      /\ \A i \in 1 .. Len(read) : stage'[i] = stage[i]
      /\ stage'[n] = "new"
  BY <1>2, AppendProperties DEF Read, Stages
<1>6. /\ left' \in Seq(SUBSET Listeners) /\ Len(left') = n
      /\ \A i \in 1 .. Len(read) : left'[i] = left[i]
  <2>1. {} \in SUBSET Listeners
    OBVIOUS
  <2> QED BY <1>2, <2>1, AppendProperties DEF Read
<1>7. /\ Wake(n, 0) \in Entries /\ ready' = Append(ready, Wake(n, 0))
      /\ Wake(n, 0).task = n /\ Wake(n, 0).hops = 0 /\ ~Wake(n, 0).new
  <2>1. n \in Macros \cup Nat /\ 0 \in 0 .. 5 /\ ready' = Append(ready, Wake(n, 0))
    BY <1>2 DEF Read
  <2> HIDE DEF n
  <2> QED BY <2>1, EntriesAre
<1>8. IsAfter(ready', ready, 0, 1) /\ ready'[Len(ready) + 1] = Wake(n, 0)
  BY <1>2, <1>7, QueuesAre
<1>9. LoopTypeOK'
  BY <1>2, <1>4, <1>5, <1>6, <1>8 DEF LoopInv, LoopTypeOK, Read, macroVars, IsAfter
<1>10. DOMAIN read = 1 .. Len(read) /\ DOMAIN read' = 1 .. n
  BY <1>2, <1>4
<1>11. UNCHANGED <<pc, jam>>
  BY DEF Read, macroVars
<1>12. ASSUME NEW e \in Entries, Stays(e, 0)
       PROVE  Can(e)' /\ e.task # n
  <2>1. Can(e)
    BY <1>12 DEF Stays, LoopInv, AllCan
  <2>2. CASE e.task \in Nat
    <3>1. e = Nothing \/ (e.task \in DOMAIN read /\ EventCan(e))
      BY <2>1, <2>2 DEF Can, EventCan
    <3>2. CASE e = Nothing
      <4>1. n # 0
        BY <1>2
      <4> QED BY <4>1, <3>2, <2>2, EntriesAre DEF Can, EventCan
    <3>3. CASE e.task \in DOMAIN read /\ EventCan(e)
      BY <3>3, <2>2, <1>4, <1>5, <1>10 DEF Can, EventCan
    <3> QED BY <3>1, <3>2, <3>3
  <2>3. CASE e.task \notin Nat
    BY <2>1, <2>3, <1>2, <1>11 DEF Can, MacroCan
  <2> QED BY <2>2, <2>3
<1>13. ASSUME NEW e \in Entries, e = Wake(n, 0) PROVE Can(e)'
  <2>1. e.task = n /\ e.hops = 0 /\ ~e.new /\ n \in DOMAIN read' /\ n \in Nat
    BY <1>13, <1>7, <1>10, <1>2
  <2> QED BY <2>1, <1>5 DEF Can, EventCan
<1>14. /\ Len(ready') = Len(ready) + 1 /\ DOMAIN ready' = 1 .. Len(ready') /\ Len(ready) \in Nat
       /\ \A p \in DOMAIN ready' : p > Len(ready) - 0 => p = Len(ready) + 1
  BY <1>2, <1>8 DEF IsAfter
<1>15. ASSUME NEW i \in DOMAIN read', stage'[i] \in {"new", "called"}
       PROVE  \/ \E e \in Entries : Stays(e, 0) /\ e.task = i
              \/ \E p \in DOMAIN ready' : p > Len(ready) - 0 /\ ready'[p].task = i
  <2>1. CASE i = n
    <3>1. Len(ready) + 1 \in DOMAIN ready' /\ Len(ready) + 1 > Len(ready) - 0
      BY <1>14
    <3> QED BY <3>1, <2>1, <1>7, <1>8
  <2>2. CASE i # n
    <3>1. i \in DOMAIN read /\ stage[i] \in {"new", "called"}
      BY <2>2, <1>2, <1>5, <1>10, <1>15
    <3>2. PICK p \in DOMAIN ready : ready[p].task = i
      BY <3>1 DEF LoopInv, NoneIsForgotten
    <3>3. p > 0 /\ ready[p] \in Entries
      BY <1>2
    <3> QED BY <3>2, <3>3 DEF Stays
  <2> QED BY <2>1, <2>2
<1>16. (AllCan /\ WaitsOnce /\ NoneIsForgotten)'
  <2>1. \A e \in Entries :
            Stays(e, 0) \/ (\E p \in DOMAIN ready' : p > Len(ready) - 0 /\ ready'[p] = e) => Can(e)'
    <3> SUFFICES ASSUME NEW e \in Entries,
                        Stays(e, 0) \/ (\E p \in DOMAIN ready' : p > Len(ready) - 0 /\ ready'[p] = e)
                 PROVE  Can(e)'
      OBVIOUS
    <3>1. CASE Stays(e, 0)
      BY <3>1, <1>12
    <3>2. CASE e = Wake(n, 0)
      BY <3>2, <1>13
    <3> QED BY <3>1, <3>2, <1>8, <1>14
  <2>2. \A p, q \in DOMAIN ready' : p > Len(ready) - 0 /\ q > Len(ready) - 0 => p = q
    BY <1>14
  <2>3. \A p \in DOMAIN ready', e \in Entries :
            p > Len(ready) - 0 /\ Stays(e, 0) => e.task # ready'[p].task
    BY <1>7, <1>8, <1>12, <1>14
  <2>4. 0 \in {0, 1} /\ 1 \in 0 .. 2 /\ 0 <= Len(ready)
    BY <1>2
  <2> HIDE MacroTasksAssumption
  <2> QED BY <1>8, <1>9, <1>15, <2>1, <2>2, <2>3, <2>4, QueueKeeps
<1>17. JamsWait'
  BY <1>5, <1>10, <1>2, <1>11 DEF LoopInv, JamsWait
<1> QED BY <1>2, <1>4, <1>5, <1>6, <1>8, <1>9, <1>10, <1>16, <1>17 DEF LoopInv

\* What may be queued in the turn of event i: the event itself if it was called, a macro that
\* it wakes, or a new task.
Queues(i, e) ==
    \/ e.task = i /\ ~e.new /\ stage'[i] = "called"
    \/ e.task \in Macros /\ e.new /\ e.hops = 0
    \/ e.task \in Macros /\ ~e.new /\ pc[e.task] \notin Turns /\ pc'[e.task] \in Turns

LEMMA EventMoves ==
    ASSUME LoopInv, NEW i \in DOMAIN read, EventTurn(i), LoopTypeOK', JamsWait',
           NEW how \in {"called", "jammed", "handled"}, stage' = [stage EXCEPT ![i] = how],
           UNCHANGED <<kind, read>>,
           \A m \in Macros : pc'[m] = pc[m] \/ pc[m] \notin Turns,
           NEW n \in 0 .. 2, IsAfter(ready', ready, 1, n),
           \A p \in DOMAIN ready' : p > Len(ready) - 1 => Queues(i, ready'[p]),
           \A p, q \in DOMAIN ready' :
              /\ p > Len(ready) - 1 /\ q > Len(ready) - 1
              /\ ready'[p].task = ready'[q].task /\ ~ready'[p].new /\ ~ready'[q].new
              => p = q,
           how = "called" => \E p \in DOMAIN ready' : p > Len(ready) - 1 /\ ready'[p].task = i
    PROVE  LoopInv'
<1>1. /\ ready # <<>> /\ Head(ready) = Wake(i, 0) /\ i \in Nat /\ i # 0
      /\ stage[i] \in {"new", "called"} /\ i \in DOMAIN stage /\ DOMAIN stage = DOMAIN read
      /\ \A e \in Entries : Stays(e, 1) => Can(e) /\ (~e.new => e.task # i)
      /\ Len(ready) - 1 \in Nat
  BY EventsTurn
<1>2. ASSUME NEW e \in Entries, Stays(e, 1) PROVE Can(e)'
  <2>1. Can(e) /\ (~e.new => e.task # i)
    BY <1>1, <1>2
  <2>2. CASE e.task \in Nat
    <3>1. e = Nothing \/ (e.task \in DOMAIN read /\ EventCan(e) /\ ~e.new)
      BY <2>1, <2>2 DEF Can, EventCan
    <3>2. e = Nothing \/ (e.task # i /\ stage'[e.task] = stage[e.task])
      BY <1>1, <2>1, <3>1
    <3> QED BY <2>2, <3>1, <3>2, EntriesAre DEF Can, EventCan
  <2>3. CASE e.task \in Macros
    <3>1. MacroCan(e)
      BY <2>1, <2>3 DEF Can
    <3> QED BY <3>1, <2>3 DEF Can, MacroCan
  <2> QED BY <2>2, <2>3 DEF Entries
<1>3. ASSUME NEW p \in DOMAIN ready', p > Len(ready) - 1, NEW e \in Entries, ready'[p] = e
      PROVE  Can(e)'
  <2>1. Queues(i, e)
    BY <1>3
  <2>2. CASE e.task = i /\ ~e.new /\ stage'[i] = "called"
    BY <2>2, <1>1 DEF Can, EventCan
  <2>3. CASE e.task \in Macros /\ e.new /\ e.hops = 0
    BY <2>3 DEF Can, MacroCan
  <2>4. CASE e.task \in Macros /\ ~e.new /\ pc'[e.task] \in Turns
    BY <2>4 DEF Can, MacroCan
  <2> QED BY <2>1, <2>2, <2>3, <2>4 DEF Queues
<1>4. \A e \in Entries :
          Stays(e, 1) \/ (\E p \in DOMAIN ready' : p > Len(ready) - 1 /\ ready'[p] = e) => Can(e)'
  BY <1>2, <1>3
<1>5. ASSUME NEW p \in DOMAIN ready', NEW e \in Entries, p > Len(ready) - 1, Stays(e, 1),
             ~ready'[p].new, ~e.new
      PROVE  e.task # ready'[p].task
  <2>1. Can(e) /\ e.task # i
    BY <1>1, <1>5
  <2>2. Queues(i, ready'[p])
    BY <1>5
  <2>3. CASE ready'[p].task = i
    BY <2>1, <2>3
  <2>4. CASE ready'[p].task \in Macros /\ pc[ready'[p].task] \notin Turns
    BY <2>1, <2>4, <1>5 DEF Can, MacroCan
  <2> QED BY <2>2, <2>3, <2>4, <1>5 DEF Queues
<1>6. ASSUME NEW j \in DOMAIN read', stage'[j] \in {"new", "called"}
      PROVE  \/ \E e \in Entries : Stays(e, 1) /\ e.task = j
             \/ \E p \in DOMAIN ready' : p > Len(ready) - 1 /\ ready'[p].task = j
  <2>1. CASE j = i
    <3>1. how = "called"
      BY <1>1, <1>6, <2>1
    <3> QED BY <3>1, <2>1
  <2>2. CASE j # i
    <3>1. j \in DOMAIN read /\ stage[j] \in {"new", "called"} /\ j # Head(ready).task
      BY <1>1, <1>6, <2>2, EntriesAre
    <3> QED BY <3>1, <1>1, OthersWait
  <2> QED BY <2>1, <2>2
<1>7. 1 \in {0, 1} /\ 1 <= Len(ready)
  BY <1>1 DEF LoopInv, LoopTypeOK
<1>8. (AllCan /\ WaitsOnce /\ NoneIsForgotten)'
  <2>1. \A p, q \in DOMAIN ready' :
              /\ p > Len(ready) - 1 /\ q > Len(ready) - 1
              /\ ready'[p].task = ready'[q].task /\ ready'[p].task # 0
              /\ ~ready'[p].new /\ ~ready'[q].new
              => p = q
    OBVIOUS
  <2>2. \A p \in DOMAIN ready', e \in Entries :
              p > Len(ready) - 1 /\ Stays(e, 1) /\ ~ready'[p].new /\ ~e.new /\ ready'[p].task # 0
                 => e.task # ready'[p].task
    BY <1>5
  <2> HIDE MacroTasksAssumption
  <2> QED BY <1>4, <1>6, <1>7, <2>1, <2>2, QueueKeeps
<1> QED BY <1>8 DEF LoopInv

\* The event is in no jam, so that it is none of the events that wait when it goes on.
LEMMA TurnJams ==
    ASSUME LoopInv, NEW i \in DOMAIN read, EventTurn(i), NEW how,
           stage' = [stage EXCEPT ![i] = how], read' = read, jam' = jam
    PROVE  JamsWait' /\ \A m \in Macros : \A k \in DOMAIN jam[m] : jam[m][k] # i
<1>1. stage[i] \in {"new", "called"} /\ DOMAIN stage = DOMAIN read
  BY EventsTurn
<1>2. \A m \in Macros : \A k \in DOMAIN jam[m] : jam[m][k] # i /\ jam[m][k] \in DOMAIN stage
  BY <1>1 DEF LoopInv, JamsWait
<1> QED BY <1>1, <1>2 DEF LoopInv, JamsWait

LEMMA StageKeeps ==
    ASSUME LoopInv, NEW i \in DOMAIN read, NEW how \in Stages, NEW ls \in SUBSET Listeners
    PROVE  /\ [stage EXCEPT ![i] = how] \in Seq(Stages)
           /\ Len([stage EXCEPT ![i] = how]) = Len(read)
           /\ [left EXCEPT ![i] = ls] \in Seq(SUBSET Listeners)
           /\ Len([left EXCEPT ![i] = ls]) = Len(read)
<1>1. /\ stage \in Seq(Stages) /\ left \in Seq(SUBSET Listeners) /\ read \in Seq(Events)
      /\ Len(stage) = Len(read) /\ Len(left) = Len(read)
  BY DEF LoopInv, LoopTypeOK
<1>2. i \in 1 .. Len(stage) /\ i \in 1 .. Len(left)
  BY <1>1
<1> QED BY <1>1, <1>2, ExceptSeq

LEMMA ToCallIs ==
    ASSUME LoopInv, NEW i \in DOMAIN read
    PROVE  ToCall(i) \in SUBSET Listeners
<1>1. left \in Seq(SUBSET Listeners) /\ Len(left) = Len(read) /\ read \in Seq(Events)
  BY DEF LoopInv, LoopTypeOK
<1>2. left[i] \in SUBSET Listeners
  BY <1>1
<1> QED BY <1>2 DEF ToCall, LoopInv, LoopTypeOK

\* What the listener of a mod_tap does.
LEMMA CallModTapKeeps ==
    ASSUME LoopInv, NEW i \in DOMAIN read, EventTurn(i), NEW l \in ToCall(i), CallModTap(i, l),
           UNCHANGED <<inputVars, listeners, run, holds, keysDown, count, known>>
    PROVE  /\ LoopInv' /\ l.macro \in Macros /\ l \in Listeners
           /\ left' = [left EXCEPT ![i] = ToCall(i) \ {l}]
           /\ \/ /\ read[i].key = l.macro
                 /\ stage' = [stage EXCEPT ![i] = "called"] /\ jam' = jam
                 /\ IsAfter(ready', ready, 1, 1) /\ ready'[Len(ready)] = Wake(i, 4)
              \/ /\ read[i].key # l.macro
                 /\ stage' = [stage EXCEPT ![i] = "jammed"]
                 /\ IsAfter(ready', ready, 1, 0)
                 /\ jam' = IF Live(l) THEN [jam EXCEPT ![l.macro] = Append(@, i)] ELSE jam
<1> DEFINE m == l.macro
<1>1. /\ ready # <<>> /\ Taken = 1 /\ stage[i] \in {"new", "called"} /\ i \in Nat /\ i # 0
      /\ Len(ready) - 1 \in Nat /\ ready \in Seq(Entries) /\ i \in DOMAIN stage
      /\ DOMAIN stage = DOMAIN read
  BY EventsTurn
<1>2. ToCall(i) \ {l} \in SUBSET Listeners /\ l \in Listeners /\ m \in Macros
  BY ToCallIs DEF Listeners
<1>3. left' = [left EXCEPT ![i] = ToCall(i) \ {l}] /\ UNCHANGED <<pc, decidedBy, kind, read>>
  BY DEF CallModTap, Called, inputVars
<1>4. CASE read[i].key = m
  <2>1. stage' = [stage EXCEPT ![i] = "called"] /\ jam' = jam
    BY <1>4 DEF CallModTap, Called
  <2>2. Wake(i, 4) \in Entries /\ ready' = Append(Rest, Wake(i, 4))
    BY <1>4, <1>1, EntriesAre DEF CallModTap, HeadStart
  <2>3. IsAfter(ready', ready, 1, 1) /\ ready'[Len(ready) - 1 + 1] = Wake(i, 4)
    BY <1>1, <2>2, QueuesAre
  <2>4. JamsWait'
    BY <2>1, <1>3, TurnJams
  <2>5. "called" \in Stages
    BY DEF Stages
  <2>6. LoopTypeOK'
    BY <1>2, <1>3, <2>1, <2>3, <2>5, StageKeeps DEF LoopInv, LoopTypeOK, IsAfter
  <2>7. /\ Len(ready) \in DOMAIN ready' /\ Len(ready) > Len(ready) - 1
        /\ \A p \in DOMAIN ready' : p > Len(ready) - 1 => p = Len(ready)
        /\ ready'[Len(ready)] = Wake(i, 4) /\ Wake(i, 4).task = i /\ ~Wake(i, 4).new
        /\ stage'[i] = "called"
    BY <1>1, <2>1, <2>3, EntriesAre DEF IsAfter
  <2>8. LoopInv'
    <3>1. \A p \in DOMAIN ready' : p > Len(ready) - 1 => Queues(i, ready'[p])
      BY <2>7 DEF Queues
    <3>2. \E p \in DOMAIN ready' : p > Len(ready) - 1 /\ ready'[p].task = i
      BY <2>7
    <3>3. \A p, q \in DOMAIN ready' : p > Len(ready) - 1 /\ q > Len(ready) - 1 => p = q
      BY <2>7
    <3>4. "called" \in {"called", "jammed", "handled"} /\ 1 \in 0 .. 2
      OBVIOUS
    <3> HIDE MacroTasksAssumption
    <3> QED BY <1>3, <2>1, <2>3, <2>4, <2>6, <3>1, <3>2, <3>3, <3>4, EventMoves
  <2> QED BY <1>2, <1>3, <1>4, <2>1, <2>3, <2>7, <2>8
<1>5. CASE read[i].key # m
  <2>1. /\ stage' = [stage EXCEPT ![i] = "jammed"] /\ ready' = Rest
        /\ jam' = IF Live(l) THEN [jam EXCEPT ![m] = Append(@, i)] ELSE jam
    BY <1>5 DEF CallModTap, Called
  <2>2. IsAfter(ready', ready, 1, 0)
    BY <1>1, <2>1, QueuesAre
  <2>3. \A n \in Macros : \A k \in DOMAIN jam[n] : jam[n][k] # i /\ jam[n][k] \in DOMAIN read
    BY <1>1 DEF LoopInv, JamsWait
  <2>4. \A n \in Macros : jam[n] \in Seq(Nat)
    BY DEF LoopInv, LoopTypeOK
  <2>5. jam' \in [Macros -> Seq(Nat)]
    BY <1>1, <1>2, <2>1, <2>4, AppendProperties DEF LoopInv, LoopTypeOK
  <2>6. \A n \in Macros : \A k \in DOMAIN jam'[n] :
            \/ k \in DOMAIN jam[n] /\ jam'[n][k] = jam[n][k]
            \/ n = m /\ k = Len(jam[m]) + 1 /\ jam'[n][k] = i
    <3> TAKE n \in Macros
    <3>1. CASE jam'[n] = jam[n]
      BY <3>1
    <3>2. CASE n = m /\ jam'[m] = Append(jam[m], i)
      BY <1>1, <2>4, <3>2, AppendProperties
    <3> QED BY <1>2, <2>1, <3>1, <3>2 DEF LoopInv, LoopTypeOK
  <2>7. JamsWait'
    <3>1. \A n \in Macros : \A k \in DOMAIN jam'[n] :
              jam'[n][k] \in DOMAIN read' /\ stage'[jam'[n][k]] = "jammed"
      BY <1>1, <1>3, <2>1, <2>3, <2>6 DEF LoopInv, JamsWait
    <3>2. \A n, o \in Macros : \A k \in DOMAIN jam'[n], h \in DOMAIN jam'[o] :
              jam'[n][k] = jam'[o][h] => n = o /\ k = h
      BY <2>3, <2>6 DEF LoopInv, JamsWait
    <3> QED BY <3>1, <3>2 DEF JamsWait
  <2>8. "jammed" \in Stages
    BY DEF Stages
  <2>9. LoopTypeOK'
    BY <1>2, <1>3, <2>1, <2>2, <2>5, <2>8, StageKeeps DEF LoopInv, LoopTypeOK, IsAfter
  <2>10. LoopInv'
    <3>1. \A p \in DOMAIN ready' : ~(p > Len(ready) - 1)
      BY <1>1, <2>2 DEF IsAfter
    <3>2. "jammed" \in {"called", "jammed", "handled"} /\ "jammed" # "called" /\ 0 \in 0 .. 2
      OBVIOUS
    <3> HIDE MacroTasksAssumption
    <3> QED BY <1>3, <2>1, <2>2, <2>7, <2>9, <3>1, <3>2, EventMoves
  <2> QED BY <1>2, <1>3, <1>5, <2>1, <2>2, <2>10
<1> QED BY <1>4, <1>5

\* ... and that of an if_single.
LEMMA CallIfSingleKeeps ==
    ASSUME LoopInv, NEW i \in DOMAIN read, EventTurn(i), NEW l \in ToCall(i), CallIfSingle(i, l),
           UNCHANGED <<inputVars, listeners, run, holds, keysDown, count, known>>
    PROVE  /\ LoopInv' /\ l.macro \in Macros /\ kind[l.macro] = "if_single"
           /\ \/ /\ pc[l.macro] = "deciding"
                 /\ pc' = [pc EXCEPT ![l.macro] = "waking"]
                 /\ decidedBy' = [decidedBy EXCEPT ![l.macro] = {i}]
                 /\ IsAfter(ready', ready, 1, 2)
                 /\ ready'[Len(ready)] = Wake(l.macro, 2) /\ ready'[Len(ready) + 1] = Wake(i, 4)
              \/ /\ UNCHANGED <<pc, decidedBy>>
                 /\ IsAfter(ready', ready, 1, 1) /\ ready'[Len(ready)] = Wake(i, 4)
<1> DEFINE m == l.macro
<1>1. /\ ready # <<>> /\ Taken = 1 /\ stage[i] \in {"new", "called"} /\ i \in Nat /\ i # 0
      /\ Len(ready) - 1 \in Nat /\ ready \in Seq(Entries) /\ i \in DOMAIN stage
      /\ DOMAIN stage = DOMAIN read
  BY EventsTurn
<1>2. ToCall(i) \ {l} \in SUBSET Listeners /\ l \in Listeners /\ m \in Macros
  BY ToCallIs DEF Listeners
<1>3. /\ left' = [left EXCEPT ![i] = ToCall(i) \ {l}] /\ UNCHANGED <<jam, kind, read>>
      /\ stage' = [stage EXCEPT ![i] = "called"] /\ kind[m] = "if_single"
  BY DEF CallIfSingle, Called, inputVars
<1>4. JamsWait' /\ "called" \in Stages /\ stage'[i] = "called"
  BY <1>1, <1>3, TurnJams DEF Stages
<1>5. /\ Wake(i, 4) \in Entries /\ Wake(m, 2) \in Entries /\ ~Wake(i, 4).new /\ ~Wake(m, 2).new
      /\ Wake(i, 4).task = i /\ Wake(m, 2).task = m
  BY <1>1, <1>2, EntriesAre
<1>6. i # m
  BY <1>1, <1>2
<1>7. "called" \in {"called", "jammed", "handled"} /\ 1 \in 0 .. 2 /\ 2 \in 0 .. 2
  OBVIOUS
<1>8. CASE pc[m] = "deciding" /\ pc' = [pc EXCEPT ![m] = "waking"]
           /\ decidedBy' = [decidedBy EXCEPT ![m] = {i}]
           /\ ready' = Append(Append(Rest, Wake(m, 2)), Wake(i, 4))
  <2>1. /\ IsAfter(ready', ready, 1, 2)
        /\ ready'[Len(ready) - 1 + 1] = Wake(m, 2) /\ ready'[Len(ready) - 1 + 2] = Wake(i, 4)
    <3> DEFINE e == Wake(m, 2) f == Wake(i, 4)
    <3>1. e \in Entries /\ f \in Entries /\ ready' = Append(Append(Rest, e), f)
      BY <1>5, <1>8
    <3> HIDE DEF e, f
    <3>2. /\ IsAfter(Append(Append(Rest, e), f), ready, Taken, 2)
          /\ Append(Append(Rest, e), f)[Len(ready) - Taken + 1] = e
          /\ Append(Append(Rest, e), f)[Len(ready) - Taken + 2] = f
      BY <1>1, <3>1, QueuesAre
    <3> QED BY <3>1, <3>2, <1>1 DEF e, f
  <2>2. /\ "waking" \in Places /\ "waking" \in Turns /\ "deciding" \notin Turns
    BY DEF Places, Turns, Sleeping
  <2>3. LoopTypeOK'
    BY <1>2, <1>3, <1>4, <1>8, <2>1, <2>2, StageKeeps DEF LoopInv, LoopTypeOK, IsAfter
  <2>4. /\ Len(ready) + 1 \in DOMAIN ready' /\ Len(ready) + 1 > Len(ready) - 1
        /\ \A p \in DOMAIN ready' : p > Len(ready) - 1 => p = Len(ready) \/ p = Len(ready) + 1
        /\ ready'[Len(ready)] = Wake(m, 2) /\ ready'[Len(ready) + 1] = Wake(i, 4)
    BY <1>1, <2>1 DEF IsAfter
  <2>5. /\ pc'[m] \in Turns /\ pc[m] \notin Turns
        /\ \A n \in Macros : pc'[n] = pc[n] \/ pc[n] \notin Turns
    BY <1>2, <1>8, <2>2 DEF LoopInv, LoopTypeOK
  <2>6. \A p \in DOMAIN ready' : p > Len(ready) - 1 => Queues(i, ready'[p])
    BY <1>2, <1>4, <1>5, <2>4, <2>5 DEF Queues
  <2>7. \E p \in DOMAIN ready' : p > Len(ready) - 1 /\ ready'[p].task = i
    BY <1>5, <2>4
  <2>8. \A p, q \in DOMAIN ready' :
            p > Len(ready) - 1 /\ q > Len(ready) - 1 /\ ready'[p].task = ready'[q].task => p = q
    BY <1>5, <1>6, <2>4
  <2>9. LoopInv'
    <3> HIDE MacroTasksAssumption
    <3> QED BY <1>3, <1>4, <1>7, <2>1, <2>3, <2>5, <2>6, <2>7, <2>8, EventMoves
  <2> QED BY <1>2, <1>3, <1>8, <2>1, <2>4, <2>9
<1>9. CASE UNCHANGED <<pc, decidedBy>> /\ ready' = Append(Rest, Wake(i, 4))
  <2>1. IsAfter(ready', ready, 1, 1) /\ ready'[Len(ready) - 1 + 1] = Wake(i, 4)
    BY <1>1, <1>5, <1>9, QueuesAre
  <2>2. LoopTypeOK'
    BY <1>2, <1>3, <1>4, <1>9, <2>1, StageKeeps DEF LoopInv, LoopTypeOK, IsAfter
  <2>3. /\ Len(ready) \in DOMAIN ready' /\ Len(ready) > Len(ready) - 1
        /\ \A p \in DOMAIN ready' : p > Len(ready) - 1 => p = Len(ready)
        /\ ready'[Len(ready)] = Wake(i, 4)
    BY <1>1, <2>1 DEF IsAfter
  <2>4. \A p \in DOMAIN ready' : p > Len(ready) - 1 => Queues(i, ready'[p])
    BY <1>4, <1>5, <2>3 DEF Queues
  <2>5. \E p \in DOMAIN ready' : p > Len(ready) - 1 /\ ready'[p].task = i
    BY <1>5, <2>3
  <2>6. \A p, q \in DOMAIN ready' : p > Len(ready) - 1 /\ q > Len(ready) - 1 => p = q
    BY <2>3
  <2>7. LoopInv'
    <3> HIDE MacroTasksAssumption
    <3> QED BY <1>3, <1>4, <1>7, <1>9, <2>1, <2>2, <2>4, <2>5, <2>6, EventMoves
  <2> QED BY <1>2, <1>3, <1>9, <2>1, <2>3, <2>7
<1> QED BY <1>8, <1>9 DEF CallIfSingle, HeadStart

\* Where the trigger makes a difference.
Notice == {"deciding", "tap_up"} \cup Until

LEMMA HandToHandlersKeeps ==
    ASSUME LoopInv, NEW i \in DOMAIN read, HandToHandlers(i)
    PROVE  /\ LoopInv'
           /\ stage' = [stage EXCEPT ![i] = "handled"]
           /\ \A m \in Macros :
                 \/ pc'[m] = pc[m]
                 \/ pc[m] = "deciding" /\ pc'[m] = "waking"
                 \/ pc[m] \in Notice /\ ~Listening(m) /\ pc'[m] \in {"tap_down", "released"}
           /\ Len(ready') >= Len(ready) - 1 /\ IsAfter(ready', ready, 1, Len(ready') - Len(ready) + 1)
           /\ \A p \in DOMAIN ready' : p > Len(ready) - 1 =>
                 /\ ready'[p].task \in Macros
                 /\ ready'[p].new \/ pc[ready'[p].task] \in Notice
<1> DEFINE key == read[i].key
<1>1. /\ ready # <<>> /\ Taken = 1 /\ stage[i] \in {"new", "called"} /\ i \in Nat /\ i # 0
      /\ Len(ready) - 1 \in Nat /\ ready \in Seq(Entries) /\ i \in DOMAIN stage
      /\ DOMAIN stage = DOMAIN read /\ EventTurn(i)
  BY EventsTurn DEF HandToHandlers
<1>2. /\ stage' = [stage EXCEPT ![i] = "handled"]
      /\ UNCHANGED <<kind, read, left, listeners, run, jam, decidedBy>>
  BY DEF HandToHandlers, inputVars
<1>3. JamsWait' /\ "handled" \in Stages
  BY <1>1, <1>2, TurnJams DEF Stages
<1>4. \E n \in {0, 1} :
         /\ IsAfter(ready', ready, 1, n)
         /\ n = 1 => /\ ready'[Len(ready)].task \in Macros
                     /\ ready'[Len(ready)].new => ready'[Len(ready)].hops = 0
                     /\ ~ready'[Len(ready)].new =>
                            /\ pc[ready'[Len(ready)].task] \in {"deciding"} \cup Until
                            /\ pc'[ready'[Len(ready)].task] \in {"waking", "released"}
         /\ holds' \in [Macros -> BOOLEAN]
         /\ pc' = pc \/ /\ key \in Macros
                        /\ \/ pc[key] = "deciding" /\ pc' = [pc EXCEPT ![key] = "waking"]
                           \/ pc[key] \in Until /\ pc' = [pc EXCEPT ![key] = "released"]
                           \/ pc[key] = "tap_up" /\ pc' = [pc EXCEPT ![key] = "tap_down"]
  <2> DEFINE Ok(n) == n = 1 =>
                        /\ ready'[Len(ready)].task \in Macros
                        /\ ready'[Len(ready)].new => ready'[Len(ready)].hops = 0
                        /\ ~ready'[Len(ready)].new =>
                            /\ pc[ready'[Len(ready)].task] \in {"deciding"} \cup Until
                            /\ pc'[ready'[Len(ready)].task] \in {"waking", "released"}
  <2>1. ASSUME ready' = Rest PROVE IsAfter(ready', ready, 1, 0) /\ Ok(0)
    BY <2>1, <1>1, QueuesAre
  <2>2. ASSUME NEW e \in Entries, ready' = Append(Rest, e)
        PROVE  IsAfter(ready', ready, 1, 1) /\ ready'[Len(ready)] = e
    <3>1. IsAfter(ready', ready, 1, 1) /\ ready'[Len(ready) - 1 + 1] = e
      BY <2>2, <1>1, QueuesAre
    <3> QED BY <3>1, <1>1
  <2>3. holds \in [Macros -> BOOLEAN] /\ pc \in [Macros -> Places]
    BY DEF LoopInv, LoopTypeOK
  <2>4. 0 \in {0, 1} /\ 1 \in {0, 1}
    OBVIOUS
  <2>5. CASE key \in OtherKeys /\ ready' = Rest /\ UNCHANGED <<holds, pc>>
    BY <2>1, <2>3, <2>4, <2>5
  <2>6. CASE key \in Macros /\ PressMacro(key)
    <3>1. /\ holds' \in [Macros -> BOOLEAN]
          /\ pc' = pc \/ (pc[key] = "tap_up" /\ pc' = [pc EXCEPT ![key] = "tap_down"])
      BY <2>3, <2>6 DEF PressMacro, PressTrigger
    <3>2. CASE pc[key] = "idle"
      <4>1. NewTask(key) \in Entries /\ ready' = Append(Rest, NewTask(key))
        BY <2>6, <3>2, EntriesAre DEF PressMacro
      <4>2. IsAfter(ready', ready, 1, 1) /\ ready'[Len(ready)] = NewTask(key)
        BY <4>1, <2>2
      <4>3. Ok(1)
        BY <4>2, <2>6, EntriesAre
      <4> HIDE DEF Ok
      <4>4. /\ IsAfter(ready', ready, 1, 1) /\ Ok(1) /\ 1 \in {0, 1}
        BY <4>2, <4>3
      <4> QED BY <4>4, <3>1, <2>6 DEF Ok
    <3>3. CASE pc[key] # "idle"
      <4>1. IsAfter(ready', ready, 1, 0) /\ Ok(0)
        BY <2>1, <2>6, <3>3 DEF PressMacro
      <4> QED BY <4>1, <3>1, <2>4, <2>6
    <3> QED BY <3>2, <3>3
  <2>7. CASE key \in Macros /\ ReleaseMacro(key)
    <3>1. holds' \in [Macros -> BOOLEAN]
      BY <2>3, <2>7 DEF ReleaseMacro
    <3>2. CASE /\ pc[key] = "deciding" /\ pc' = [pc EXCEPT ![key] = "waking"]
               /\ ready' = Append(Rest, Wake(key, 2))
      <4>1. Wake(key, 2) \in Entries
        BY <2>7, EntriesAre
      <4>2. IsAfter(ready', ready, 1, 1) /\ ready'[Len(ready)] = Wake(key, 2)
        BY <4>1, <3>2, <2>2
      <4>3. Ok(1)
        BY <4>2, <2>3, <2>7, <3>2, EntriesAre
      <4> HIDE DEF Ok
      <4>4. /\ IsAfter(ready', ready, 1, 1) /\ Ok(1) /\ 1 \in {0, 1}
        BY <4>2, <4>3
      <4> QED BY <4>4, <3>1, <2>7, <3>2 DEF Ok
    <3>3. CASE /\ pc[key] \in Until /\ pc' = [pc EXCEPT ![key] = "released"]
               /\ ready' = Append(Rest, Wake(key, 0))
      <4>1. Wake(key, 0) \in Entries
        BY <2>7, EntriesAre
      <4>2. IsAfter(ready', ready, 1, 1) /\ ready'[Len(ready)] = Wake(key, 0)
        BY <4>1, <3>3, <2>2
      <4>3. Ok(1)
        BY <4>2, <2>3, <2>7, <3>3, EntriesAre
      <4> HIDE DEF Ok
      <4>4. /\ IsAfter(ready', ready, 1, 1) /\ Ok(1) /\ 1 \in {0, 1}
        BY <4>2, <4>3
      <4> QED BY <4>4, <3>1, <2>7, <3>3 DEF Ok
    <3>4. CASE ready' = Rest /\ pc' = pc
      BY <2>1, <2>4, <3>1, <3>4
    <3> QED BY <2>7, <3>2, <3>3, <3>4 DEF ReleaseMacro
  <2> QED BY <2>5, <2>6, <2>7 DEF HandToHandlers
<1>5. PICK n \in {0, 1} :
         /\ IsAfter(ready', ready, 1, n)
         /\ n = 1 => /\ ready'[Len(ready)].task \in Macros
                     /\ ready'[Len(ready)].new => ready'[Len(ready)].hops = 0
                     /\ ~ready'[Len(ready)].new =>
                            /\ pc[ready'[Len(ready)].task] \in {"deciding"} \cup Until
                            /\ pc'[ready'[Len(ready)].task] \in {"waking", "released"}
         /\ holds' \in [Macros -> BOOLEAN]
         /\ pc' = pc \/ /\ key \in Macros
                        /\ \/ pc[key] = "deciding" /\ pc' = [pc EXCEPT ![key] = "waking"]
                           \/ pc[key] \in Until /\ pc' = [pc EXCEPT ![key] = "released"]
                           \/ pc[key] = "tap_up" /\ pc' = [pc EXCEPT ![key] = "tap_down"]
  BY <1>4
<1> HIDE DEF key
<1>6. /\ {"waking", "released", "tap_down"} \subseteq Places /\ {"waking", "released"} \subseteq Turns
      /\ ({"deciding", "tap_up"} \cup Until) \cap Turns = {}
      /\ Until \cap Attentive = {} /\ "tap_up" \notin Attentive
  BY DEF Places, Turns, Sleeping, Until, Attentive
<1>7. pc' \in [Macros -> Places] /\ pc \in [Macros -> Places]
  <2>1. pc \in [Macros -> Places]
    BY DEF LoopInv, LoopTypeOK
  <2>2. {"waking", "released", "tap_down"} \subseteq Places
    BY <1>6
  <2>3. \E place \in {"waking", "released", "tap_down"} :
            pc' = pc \/ (key \in Macros /\ pc' = [pc EXCEPT ![key] = place])
    BY <1>5
  <2> QED BY <2>1, <2>2, <2>3
<1>8. \A m \in Macros :
         \/ pc'[m] = pc[m]
         \/ pc[m] = "deciding" /\ pc'[m] = "waking"
         \/ pc[m] \in Notice /\ ~Listening(m) /\ pc'[m] \in {"tap_down", "released"}
  BY <1>5, <1>6, <1>7 DEF Notice, Listening
<1>9. LoopTypeOK'
  <2>1. left[i] \in SUBSET Listeners /\ [stage EXCEPT ![i] = "handled"] \in Seq(Stages)
        /\ Len([stage EXCEPT ![i] = "handled"]) = Len(read)
    <3>1. {} \in SUBSET Listeners /\ left \in Seq(SUBSET Listeners) /\ i \in 1 .. Len(left)
      BY DEF LoopInv, LoopTypeOK
    <3> QED BY <3>1, <1>3, StageKeeps
  <2> QED BY <1>2, <1>5, <1>7, <2>1 DEF LoopInv, LoopTypeOK, IsAfter
<1>10. /\ \A p \in DOMAIN ready' : p > Len(ready) - 1 => n = 1 /\ p = Len(ready)
       /\ Len(ready') = Len(ready) - 1 + n
  BY <1>1, <1>5, <1>9 DEF IsAfter, LoopTypeOK
<1>11. \A p \in DOMAIN ready' : p > Len(ready) - 1 => Queues(i, ready'[p])
  BY <1>5, <1>6, <1>10 DEF Queues
<1>12. LoopInv'
  <2>1. \A m \in Macros : pc'[m] = pc[m] \/ pc[m] \notin Turns
    BY <1>6, <1>8 DEF Notice
  <2>2. \A p, q \in DOMAIN ready' : p > Len(ready) - 1 /\ q > Len(ready) - 1 => p = q
    BY <1>10
  <2>3. "handled" \in {"called", "jammed", "handled"} /\ "handled" # "called" /\ n \in 0 .. 2
    OBVIOUS
  <2> HIDE MacroTasksAssumption
  <2> QED BY <1>1, <1>2, <1>3, <1>5, <1>9, <1>11, <2>1, <2>2, <2>3, EventMoves
<1>13. Len(ready') - Len(ready) + 1 = n /\ Len(ready') >= Len(ready) - 1
  BY <1>10, <1>1
<1>14. \A p \in DOMAIN ready' : p > Len(ready) - 1 =>
          ready'[p].task \in Macros /\ (ready'[p].new \/ pc[ready'[p].task] \in Notice)
  BY <1>5, <1>10 DEF Notice
<1> QED BY <1>2, <1>5, <1>8, <1>12, <1>13, <1>14

\* An event that waited for a macro may go on.
LEMMA LetGoKeeps ==
    ASSUME LoopInv, NEW m \in Macros, LetGo(m)
    PROVE  /\ LoopInv'
           /\ \E i \in DOMAIN read :
                 /\ 1 \in DOMAIN jam[m] /\ jam[m][1] = i /\ stage[i] = "jammed"
                 /\ stage' = [stage EXCEPT ![i] = "called"]
                 /\ IsAfter(ready', ready, Taken, 1)
                 /\ ready'[Len(ready) - Taken + 1] = Wake(i, 5)
           /\ \A n \in Macros : n # m => jam'[n] = jam[n]
           /\ Len(jam[m]) \in Nat /\ DOMAIN jam[m] = 1 .. Len(jam[m])
           /\ DOMAIN jam'[m] = 1 .. Len(jam[m]) - 1
           /\ \A k \in DOMAIN jam'[m] : k + 1 \in DOMAIN jam[m] /\ jam'[m][k] = jam[m][k + 1]
<1> DEFINE i == jam[m][1]
<1>1. /\ jam \in [Macros -> Seq(Nat)] /\ jam[m] \in Seq(Nat) /\ jam[m] # <<>>
      /\ jam' = [jam EXCEPT ![m] = Tail(jam[m])]
      /\ UNCHANGED <<kind, read, left, listeners, pc, run, holds>>
  BY DEF LetGo, LoopInv, LoopTypeOK, inputVars
<1>2. /\ Head(jam[m]) = i /\ 1 \in DOMAIN jam[m]
      /\ Tail(jam[m]) \in Seq(Nat) /\ Len(Tail(jam[m])) = Len(jam[m]) - 1
      /\ \A k \in 1 .. Len(jam[m]) - 1 : Tail(jam[m])[k] = jam[m][k + 1]
      /\ Len(jam[m]) \in Nat /\ DOMAIN jam[m] = 1 .. Len(jam[m])
      /\ DOMAIN Tail(jam[m]) = 1 .. Len(jam[m]) - 1
  BY <1>1, HeadTailProperties
<1>3. /\ i \in DOMAIN read /\ stage[i] = "jammed" /\ DOMAIN stage = DOMAIN read /\ i \in Nat
  BY <1>2 DEF LoopInv, JamsWait, LoopTypeOK
<1>4. stage' = [stage EXCEPT ![i] = "called"] /\ ready' = Append(Rest, Wake(i, 5))
  BY <1>2, EntriesAre DEF LetGo
<1>5. jam'[m] = Tail(jam[m]) /\ \A n \in Macros : n # m => jam'[n] = jam[n]
  BY <1>1
<1>6. \A k \in DOMAIN jam'[m] : k + 1 \in DOMAIN jam[m] /\ jam'[m][k] = jam[m][k + 1] /\ k + 1 # 1
  BY <1>2, <1>5
<1> HIDE DEF i
<1>7. i # 0
  BY <1>3 DEF LoopInv, LoopTypeOK
<1>8. /\ Wake(i, 5) \in Entries /\ Wake(i, 5).task = i /\ ~Wake(i, 5).new
      /\ ready \in Seq(Entries)
  BY <1>3, EntriesAre DEF LoopInv, LoopTypeOK
<1>9. IsAfter(ready', ready, Taken, 1) /\ ready'[Len(ready) - Taken + 1] = Wake(i, 5)
  BY <1>4, <1>8, QueuesAre
<1>10. \A n \in Macros : \A k \in DOMAIN jam'[n] : jam'[n][k] # i
  <2> TAKE n \in Macros
  <2> TAKE k \in DOMAIN jam'[n]
  <2>1. CASE n # m
    BY <2>1, <1>2, <1>5 DEF LoopInv, JamsWait, i
  <2>2. CASE n = m
    BY <2>2, <1>2, <1>5, <1>6 DEF LoopInv, JamsWait, i
  <2> QED BY <2>1, <2>2
<1>11. JamsWait'
  <2>1. \A n \in Macros : \A k \in DOMAIN jam'[n] :
            /\ k \in Nat
            /\ jam'[n][k] \in DOMAIN read' /\ stage'[jam'[n][k]] = "jammed"
    <3> SUFFICES ASSUME NEW n \in Macros, NEW k \in DOMAIN jam'[n]
                 PROVE  /\ k \in Nat
                        /\ jam'[n][k] \in DOMAIN read' /\ stage'[jam'[n][k]] = "jammed"
      OBVIOUS
    <3>1. k \in Nat /\ \E h \in DOMAIN jam[n] : jam'[n][k] = jam[n][h]
      <4>1. CASE n = m
        BY <4>1, <1>2, <1>5, <1>6
      <4>2. CASE n # m
        BY <4>2, <1>1, <1>5
      <4> QED BY <4>1, <4>2
    <3>2. PICK h \in DOMAIN jam[n] : jam'[n][k] = jam[n][h]
      BY <3>1
    <3>3. jam[n][h] \in DOMAIN read /\ stage[jam[n][h]] = "jammed"
      BY DEF LoopInv, JamsWait
    <3>4. jam'[n][k] # i
      BY <3>1, <1>10
    <3> QED BY <3>1, <3>2, <3>3, <3>4, <1>1, <1>3, <1>4
  <2>2. ASSUME NEW n \in Macros, NEW o \in Macros, NEW k \in DOMAIN jam'[n], NEW h \in DOMAIN jam'[o],
               jam'[n][k] = jam'[o][h]
        PROVE  n = o /\ k = h
    <3> DEFINE K == IF n = m THEN k + 1 ELSE k
               H == IF o = m THEN h + 1 ELSE h
    <3>1. K \in DOMAIN jam[n] /\ jam[n][K] = jam'[n][k] /\ H \in DOMAIN jam[o] /\ jam[o][H] = jam'[o][h]
      BY <1>5, <1>6
    <3>2. n = o /\ K = H
      BY <3>1, <2>2 DEF LoopInv, JamsWait
    <3> QED BY <3>2, <2>1
  <2> QED BY <2>1, <2>2 DEF JamsWait
<1>12. LoopTypeOK'
  <2>1. "called" \in Stages /\ jam' \in [Macros -> Seq(Nat)]
    BY <1>1, <1>2 DEF Stages
  <2>2. /\ [stage EXCEPT ![i] = "called"] \in Seq(Stages)
        /\ Len([stage EXCEPT ![i] = "called"]) = Len(read)
    <3>1. {} \in SUBSET Listeners
      OBVIOUS
    <3> QED BY <3>1, <2>1, <1>3, StageKeeps
  <2> QED BY <1>1, <1>4, <1>9, <2>1, <2>2 DEF LoopInv, LoopTypeOK, IsAfter
<1>13. /\ Len(ready) - Taken \in Nat /\ Taken \in {0, 1} /\ Taken <= Len(ready)
       /\ Len(ready) - Taken + 1 \in DOMAIN ready'
       /\ \A p \in DOMAIN ready' : p > Len(ready) - Taken => p = Len(ready) - Taken + 1
  <2>1. /\ Len(ready) - Taken \in Nat /\ Taken \in {0, 1} /\ Taken <= Len(ready)
    BY <1>8, RestIs
  <2> QED BY <2>1, <1>9 DEF IsAfter
<1>14. ASSUME NEW e \in Entries, Stays(e, Taken)
       PROVE  Can(e)' /\ e.task # i
  <2>1. Can(e)
    BY <1>14 DEF Stays, LoopInv, AllCan
  <2>2. CASE e.task \in Nat
    <3>1. e = Nothing \/ (e.task \in DOMAIN read /\ EventCan(e) /\ ~e.new)
      BY <2>1, <2>2 DEF Can, EventCan
    <3>2. e = Nothing \/ (e.task # i /\ stage'[e.task] = stage[e.task])
      BY <1>3, <1>4, <2>1, <3>1 DEF EventCan
    <3> QED BY <2>2, <3>1, <3>2, <1>1, <1>7, EntriesAre DEF Can, EventCan
  <2>3. CASE e.task \in Macros
    <3>1. MacroCan(e)
      BY <2>1, <2>3 DEF Can
    <3> QED BY <3>1, <2>3, <1>1, <1>3 DEF Can, MacroCan
  <2> QED BY <2>2, <2>3 DEF Entries
<1>15. ASSUME NEW e \in Entries, e = Wake(i, 5) PROVE Can(e)'
  BY <1>15, <1>1, <1>3, <1>4, <1>8 DEF Can, EventCan
<1>16. ASSUME NEW j \in DOMAIN read', stage'[j] \in {"new", "called"}
       PROVE  \/ \E e \in Entries : Stays(e, Taken) /\ e.task = j
              \/ \E p \in DOMAIN ready' : p > Len(ready) - Taken /\ ready'[p].task = j
  <2>1. CASE j = i
    BY <2>1, <1>8, <1>9, <1>13
  <2>2. CASE j # i
    <3>1. j \in DOMAIN read /\ stage[j] \in {"new", "called"} /\ j \in Nat
      BY <2>2, <1>1, <1>3, <1>4, <1>16 DEF LoopInv, LoopTypeOK
    <3>2. ready # <<>>
      <4>1. PICK p \in DOMAIN ready : TRUE
        BY <3>1 DEF LoopInv, NoneIsForgotten
      <4> QED BY <4>1
    <3>3. Head(ready) = Wake(m, 0)
      BY <3>2 DEF LetGo, MacroTurn
    <3>4. j # Head(ready).task
      BY <3>1, <3>3, EntriesAre
    <3>5. Taken = 1
      BY <3>2 DEF Taken
    <3> QED BY <3>1, <3>2, <3>4, <3>5, OthersWait
  <2> QED BY <2>1, <2>2
<1>17. (AllCan /\ WaitsOnce /\ NoneIsForgotten)'
  <2>1. \A e \in Entries :
          Stays(e, Taken) \/ (\E p \in DOMAIN ready' : p > Len(ready) - Taken /\ ready'[p] = e)
             => Can(e)'
    BY <1>9, <1>13, <1>14, <1>15
  <2>2. \A p, q \in DOMAIN ready' :
            p > Len(ready) - Taken /\ q > Len(ready) - Taken => p = q
    BY <1>13
  <2>3. \A p \in DOMAIN ready', e \in Entries :
            p > Len(ready) - Taken /\ Stays(e, Taken) => e.task # ready'[p].task
    BY <1>8, <1>9, <1>13, <1>14
  <2>4. 1 \in 0 .. 2
    OBVIOUS
  <2> HIDE MacroTasksAssumption
  <2> QED BY <1>9, <1>12, <1>13, <1>16, <2>1, <2>2, <2>3, <2>4, QueueKeeps
<1> QED BY <1>2, <1>3, <1>4, <1>5, <1>6, <1>9, <1>11, <1>12, <1>17 DEF LoopInv, i

LEMMA TermEndsKeeps ==
    ASSUME LoopInv, NEW m \in Macros, TermEnds(m)
    PROVE  /\ LoopInv'
           /\ \/ pc[m] = "deciding" /\ pc' = [pc EXCEPT ![m] = "waking"]
              \/ pc[m] \in {"tap_up", "tap_down"} /\ pc' = [pc EXCEPT ![m] = "timed_out"]
           /\ IsAfter(ready', ready, 0, 1)
           /\ \E h \in {0, 1} : ready'[Len(ready) + 1] = Wake(m, h)
<1>1. /\ UNCHANGED <<kind, read, stage, left, listeners, run, holds, jam>>
      /\ ready \in Seq(Entries) /\ Len(ready) \in Nat /\ 0 <= Len(ready)
  BY DEF TermEnds, inputVars, eventVars, LoopInv, LoopTypeOK
<1>2. PICK h \in {0, 1} : ready' = Append(ready, Wake(m, h))
  BY DEF TermEnds
<1>3. \/ pc[m] = "deciding" /\ pc' = [pc EXCEPT ![m] = "waking"]
      \/ pc[m] \in {"tap_up", "tap_down"} /\ pc' = [pc EXCEPT ![m] = "timed_out"]
  BY DEF TermEnds, Goto
<1>4. Wake(m, h) \in Entries /\ Wake(m, h).task = m /\ ~Wake(m, h).new
  BY EntriesAre
<1>5. IsAfter(ready', ready, 0, 1) /\ ready'[Len(ready) + 1] = Wake(m, h)
  BY <1>1, <1>2, <1>4, QueuesAre
<1>6. /\ {"waking", "timed_out"} \subseteq Places /\ {"waking", "timed_out"} \subseteq Turns
      /\ {"deciding", "tap_up", "tap_down"} \cap Turns = {}
  BY DEF Places, Turns, Sleeping
<1>7. pc \in [Macros -> Places]
  BY DEF LoopInv, LoopTypeOK
<1>8. /\ pc' \in [Macros -> Places] /\ pc'[m] \in Turns /\ pc[m] \notin Turns
      /\ \A n \in Macros : n # m => pc'[n] = pc[n]
  BY <1>3, <1>6, <1>7
<1>9. LoopTypeOK'
  BY <1>1, <1>5, <1>8 DEF LoopInv, LoopTypeOK, IsAfter
<1>10. \A p \in DOMAIN ready' : p > Len(ready) - 0 => p = Len(ready) + 1
  BY <1>1, <1>5 DEF IsAfter
<1>11. ASSUME NEW e \in Entries, Stays(e, 0)
       PROVE  Can(e)' /\ (~e.new => e.task # m)
  <2>1. Can(e)
    BY <1>11 DEF Stays, LoopInv, AllCan
  <2>2. ~e.new => e.task # m
    BY <2>1, <1>8 DEF Can, MacroCan
  <2> QED BY <2>1, <2>2, <1>1, <1>8 DEF Can, EventCan, MacroCan
<1>12. ASSUME NEW e \in Entries, e = Wake(m, h) PROVE Can(e)'
  BY <1>12, <1>4, <1>8 DEF Can, MacroCan
<1>13. \A i \in DOMAIN read' : stage'[i] \in {"new", "called"} =>
          \E e \in Entries : Stays(e, 0) /\ e.task = i
  <2> SUFFICES ASSUME NEW i \in DOMAIN read, stage[i] \in {"new", "called"}
               PROVE  \E e \in Entries : Stays(e, 0) /\ e.task = i
    BY <1>1
  <2>1. PICK p \in DOMAIN ready : ready[p].task = i
    BY DEF LoopInv, NoneIsForgotten
  <2>2. p > 0 /\ ready[p] \in Entries
    BY <1>1
  <2> QED BY <2>1, <2>2 DEF Stays
<1>14. (AllCan /\ WaitsOnce /\ NoneIsForgotten)'
  <2>1. \A e \in Entries :
          Stays(e, 0) \/ (\E p \in DOMAIN ready' : p > Len(ready) - 0 /\ ready'[p] = e) => Can(e)'
    BY <1>5, <1>10, <1>11, <1>12
  <2>2. \A p, q \in DOMAIN ready' : p > Len(ready) - 0 /\ q > Len(ready) - 0 => p = q
    BY <1>10
  <2>3. \A p \in DOMAIN ready', e \in Entries :
            p > Len(ready) - 0 /\ Stays(e, 0) /\ ~e.new => e.task # ready'[p].task
    BY <1>4, <1>5, <1>10, <1>11
  <2>4. 1 \in 0 .. 2 /\ 0 \in {0, 1}
    OBVIOUS
  <2> HIDE MacroTasksAssumption
  <2> QED BY <1>1, <1>5, <1>9, <1>13, <2>1, <2>2, <2>3, <2>4, QueueKeeps
<1>15. JamsWait'
  BY <1>1 DEF LoopInv, JamsWait
<1> QED BY <1>3, <1>5, <1>9, <1>14, <1>15 DEF LoopInv

\* An entry that is skipped is none that anybody waits for.
LEMMA SkipKeeps ==
    ASSUME LoopInv, ready # <<>>, Head(ready) = Nothing \/ Head(ready).new, ready' = Rest,
           UNCHANGED <<kind, read, stage, left, listeners, run, holds, jam, pc>>
    PROVE  LoopInv' /\ IsAfter(ready', ready, 1, 0) /\ Taken = 1
<1>1. /\ ready \in Seq(Entries) /\ Len(ready) \in Nat /\ 1 <= Len(ready) /\ Taken = 1
      /\ Head(ready) = ready[1] /\ 1 \in DOMAIN ready
  BY RestIs DEF LoopInv, LoopTypeOK
<1>2. IsAfter(ready', ready, 1, 0)
  BY <1>1, QueuesAre
<1>3. LoopTypeOK'
  BY <1>2 DEF LoopInv, LoopTypeOK, IsAfter
<1>4. \A p \in DOMAIN ready' : ~(p > Len(ready) - 1)
  BY <1>1, <1>2 DEF IsAfter
<1>5. ASSUME NEW e \in Entries, Stays(e, 1) PROVE Can(e)'
  <2>1. Can(e)
    BY <1>5 DEF Stays, LoopInv, AllCan
  <2> QED BY <2>1 DEF Can, EventCan, MacroCan
<1>6. \A i \in DOMAIN read' : stage'[i] \in {"new", "called"} =>
          \E e \in Entries : Stays(e, 1) /\ e.task = i
  <2> SUFFICES ASSUME NEW i \in DOMAIN read, stage[i] \in {"new", "called"}
               PROVE  \E e \in Entries : Stays(e, 1) /\ e.task = i
    OBVIOUS
  <2>1. i \in Nat /\ i # 0
    BY DEF LoopInv, LoopTypeOK
  <2>2. Can(ready[1])
    BY <1>1 DEF LoopInv, AllCan
  <2>3. i # Head(ready).task
    BY <1>1, <2>1, <2>2, EntriesAre DEF Can, EventCan
  <2> QED BY <2>3, OthersWait
<1>7. (AllCan /\ WaitsOnce /\ NoneIsForgotten)'
  <2>1. \A e \in Entries :
          Stays(e, 1) \/ (\E p \in DOMAIN ready' : p > Len(ready) - 1 /\ ready'[p] = e) => Can(e)'
    BY <1>4, <1>5
  <2>2. 0 \in 0 .. 2 /\ 1 \in {0, 1}
    OBVIOUS
  <2> HIDE MacroTasksAssumption
  <2> QED BY <1>1, <1>2, <1>3, <1>4, <1>6, <2>1, <2>2, QueueKeeps
<1>8. JamsWait'
  BY DEF LoopInv, JamsWait
<1> QED BY <1>1, <1>2, <1>3, <1>7, <1>8 DEF LoopInv

LEMMA HopKeeps ==
    ASSUME LoopInv, Hop
    PROVE  /\ LoopInv' /\ ready # <<>> /\ Taken = 1 /\ ready[1].hops > 0 /\ ~ready[1].new
           /\ IsAfter(ready', ready, 1, 1)
           /\ ready'[Len(ready)] = [ready[1] EXCEPT !.hops = ready[1].hops - 1]
<1>1. /\ ready \in Seq(Entries) /\ Len(ready) \in Nat /\ 1 <= Len(ready) /\ Taken = 1
      /\ Head(ready) = ready[1] /\ 1 \in DOMAIN ready /\ ready # <<>> /\ ready[1].hops > 0
      /\ Rest = Tail(ready)
  BY RestIs DEF LoopInv, LoopTypeOK, Hop, Rest
<1> DEFINE f == [ready[1] EXCEPT !.hops = ready[1].hops - 1]
<1>2. ready' = Append(Rest, f)
  BY <1>1 DEF Hop
<1>3. /\ f \in Entries /\ f.task = ready[1].task /\ f.new = ready[1].new /\ ready[1] \in Entries
  <2>1. ready[1] \in Entries
    BY <1>1
  <2>2. ready[1].hops \in 0 .. 5 /\ ready[1].hops - 1 \in 0 .. 5
    BY <1>1, <2>1 DEF Entries, HeadStart
  <2> QED BY <2>1, <2>2 DEF Entries, HeadStart
<1>4. Can(ready[1])
  BY <1>1 DEF LoopInv, AllCan
<1>5. /\ ~ready[1].new /\ ready[1] # Nothing
      /\ ready[1].task \in Nat => ready[1].task \in DOMAIN read /\ stage[ready[1].task] = "called"
      /\ ready[1].task \in Macros => pc[ready[1].task] \in Turns
  BY <1>1, <1>3, <1>4 DEF Can, EventCan, MacroCan, Nothing
<1>6. UNCHANGED <<kind, read, stage, left, listeners, run, holds, jam, pc>>
  BY DEF Hop, inputVars, eventVars, macroVars
<1> HIDE DEF f
<1>7. IsAfter(ready', ready, 1, 1) /\ ready'[Len(ready)] = f
  <2>1. IsAfter(ready', ready, 1, 1) /\ ready'[Len(ready) - 1 + 1] = f
    BY <1>1, <1>2, <1>3, QueuesAre
  <2> QED BY <2>1, <1>1
<1>8. LoopTypeOK'
  BY <1>6, <1>7 DEF LoopInv, LoopTypeOK, IsAfter
<1>9. /\ \A p \in DOMAIN ready' : p > Len(ready) - 1 => p = Len(ready)
      /\ Len(ready) \in DOMAIN ready'
  BY <1>1, <1>7 DEF IsAfter
<1>10. ready[1].task # 0
  <2>1. 0 \notin DOMAIN read
    BY DEF LoopInv, LoopTypeOK
  <2> QED BY <1>5, <2>1
<1>11. ASSUME NEW e \in Entries, Stays(e, 1)
       PROVE  Can(e)' /\ (~e.new => e.task # ready[1].task)
  <2>1. Can(e)
    BY <1>11 DEF Stays, LoopInv, AllCan
  <2>2. ~e.new => e.task # ready[1].task
    BY <1>1, <1>3, <1>5, <1>10, <1>11, TurnIsOver DEF Entries
  <2> QED BY <2>1, <2>2, <1>6 DEF Can, EventCan, MacroCan
<1>12. ASSUME NEW e \in Entries, e = f PROVE Can(e)'
  <2>1. e.task = ready[1].task /\ ~e.new /\ (e.task \in Nat \/ e.task \in Macros)
    BY <1>3, <1>5, <1>12 DEF Entries
  <2> QED BY <2>1, <1>5, <1>6 DEF Can, EventCan, MacroCan
<1>13. \A i \in DOMAIN read' : stage'[i] \in {"new", "called"} =>
          \/ \E e \in Entries : Stays(e, 1) /\ e.task = i
          \/ \E p \in DOMAIN ready' : p > Len(ready) - 1 /\ ready'[p].task = i
  <2> SUFFICES ASSUME NEW i \in DOMAIN read, stage[i] \in {"new", "called"}
               PROVE  \/ \E e \in Entries : Stays(e, 1) /\ e.task = i
                      \/ \E p \in DOMAIN ready' : p > Len(ready) - 1 /\ ready'[p].task = i
    BY <1>6
  <2>1. CASE i = ready[1].task
    <3>1. Len(ready) > Len(ready) - 1
      BY <1>1
    <3> QED BY <2>1, <3>1, <1>3, <1>7, <1>9
  <2>2. CASE i # ready[1].task
    BY <2>2, <1>1, OthersWait
  <2> QED BY <2>1, <2>2
<1>14. (AllCan /\ WaitsOnce /\ NoneIsForgotten)'
  <2>1. \A e \in Entries :
          Stays(e, 1) \/ (\E p \in DOMAIN ready' : p > Len(ready) - 1 /\ ready'[p] = e) => Can(e)'
    BY <1>7, <1>9, <1>11, <1>12
  <2>2. \A p, q \in DOMAIN ready' : p > Len(ready) - 1 /\ q > Len(ready) - 1 => p = q
    BY <1>9
  <2>3. \A p \in DOMAIN ready', e \in Entries :
            p > Len(ready) - 1 /\ Stays(e, 1) /\ ~e.new => e.task # ready'[p].task
    BY <1>3, <1>7, <1>9, <1>11
  <2>4. 1 \in 0 .. 2 /\ 1 \in {0, 1}
    OBVIOUS
  <2> HIDE MacroTasksAssumption
  <2> QED BY <1>1, <1>7, <1>8, <1>13, <2>1, <2>2, <2>3, <2>4, QueueKeeps
<1>15. JamsWait'
  BY <1>6 DEF LoopInv, JamsWait
<1> QED BY <1>1, <1>5, <1>7, <1>8, <1>14, <1>15 DEF LoopInv, f

LEMMA AllOfThemCan ==
    ASSUME NEW s, s = ready', \A p \in DOMAIN s : \A e : e = s[p] => Can(e)'
    PROVE  AllCan'
<1>1. ASSUME NEW p \in DOMAIN s PROVE Can(s[p])'
  OBVIOUS
<1> QED BY <1>1 DEF AllCan

\* The task of a macro starts in its turn, and goes on in it.
LEMMA StartRunKeeps ==
    ASSUME LoopInv, NEW m \in Macros, StartRun(m)
    PROVE  /\ LoopInv' /\ ready # <<>> /\ Taken = 1 /\ ready[1] = NewTask(m)
           /\ UNCHANGED <<kind, read, stage, left, listeners, holds, jam, decidedBy>>
           /\ \/ /\ IsAfter(ready', ready, 1, 0) /\ UNCHANGED <<pc, run>> /\ pc[m] # "idle"
              \/ /\ pc[m] = "idle" /\ pc' = [pc EXCEPT ![m] = "starting"]
                 /\ run' = [run EXCEPT ![m] = @ + 1]
                 /\ Len(ready') = Len(ready) /\ ready'[1] = Wake(m, 0)
                 /\ \A p \in DOMAIN ready : p > 1 => ready'[p] = ready[p]
<1>1. /\ ready \in Seq(Entries) /\ Len(ready) \in Nat /\ 1 <= Len(ready) /\ Taken = 1
      /\ Head(ready) = ready[1] /\ 1 \in DOMAIN ready /\ ready # <<>> /\ ready[1] = NewTask(m)
  BY RestIs DEF LoopInv, LoopTypeOK, StartRun
<1>2. UNCHANGED <<kind, read, stage, left, listeners, holds, jam, decidedBy>>
  BY DEF StartRun, inputVars, eventVars
<1>3. Head(ready).new /\ ready[1].task = m /\ ready[1].new /\ Wake(m, 0) \in Entries
      /\ Wake(m, 0).task = m /\ ~Wake(m, 0).new
  BY <1>1, EntriesAre
<1>4. CASE pc[m] # "idle"
  <2>1. ready' = Rest /\ UNCHANGED <<pc, run>>
    BY <1>4 DEF StartRun
  <2>2. LoopInv' /\ IsAfter(ready', ready, 1, 0)
    BY <1>1, <1>2, <1>3, <2>1, SkipKeeps
  <2> QED BY <1>1, <1>2, <1>4, <2>1, <2>2
<1>5. CASE pc[m] = "idle"
  <2>1. /\ pc' = [pc EXCEPT ![m] = "starting"] /\ run' = [run EXCEPT ![m] = @ + 1]
        /\ ready' = <<Wake(m, 0)>> \o Rest
    BY <1>5 DEF StartRun, Goto
  <2>2. /\ Rest \in Seq(Entries) /\ Len(Rest) = Len(ready) - 1
        /\ \A p \in 1 .. Len(ready) - 1 : Rest[p] = ready[p + 1]
    BY <1>1, RestIs DEF IsAfter
  <2>3. /\ ready' \in Seq(Entries) /\ Len(ready') = Len(ready) /\ ready'[1] = Wake(m, 0)
        /\ \A p \in DOMAIN ready : p > 1 => ready'[p] = ready[p]
        /\ DOMAIN ready' = DOMAIN ready /\ DOMAIN ready = 1 .. Len(ready)
    <3> DEFINE e == Wake(m, 0)
               s == Rest
    <3> HIDE DEF e, s
    <3>1. /\ s \in Seq(Entries) /\ e \in Entries /\ Len(s) = Len(ready) - 1
          /\ \A p \in 1 .. Len(ready) - 1 : s[p] = ready[p + 1]
      BY <1>3, <2>2 DEF e, s
    <3>2. /\ <<e>> \in Seq(Entries) /\ Len(<<e>>) = 1 /\ <<e>>[1] = e
      BY <3>1
    <3>3. /\ <<e>> \o s \in Seq(Entries) /\ Len(<<e>> \o s) = 1 + Len(s)
          /\ \A p \in 1 .. 1 + Len(s) : (<<e>> \o s)[p] = IF p <= 1 THEN <<e>>[p] ELSE s[p - 1]
      BY <3>1, <3>2, ConcatProperties
    <3>4. ready' = <<e>> \o s
      BY <2>1 DEF e, s
    <3>5. ready' \in Seq(Entries) /\ Len(ready') = Len(ready) /\ ready'[1] = e
      BY <3>1, <3>2, <3>3, <3>4, <1>1
    <3>6. \A p \in 1 .. Len(ready) : p > 1 => ready'[p] = ready[p]
      <4> SUFFICES ASSUME NEW p \in 1 .. Len(ready), p > 1 PROVE ready'[p] = ready[p]
        OBVIOUS
      <4>1. p - 1 \in 1 .. Len(ready) - 1 /\ (p - 1) + 1 = p /\ p \in 1 .. 1 + Len(s) /\ ~(p <= 1)
        BY <1>1, <3>1
      <4> QED BY <4>1, <3>1, <3>3, <3>4
    <3> QED BY <1>1, <3>5, <3>6 DEF e
  <2>4. /\ "starting" \in Turns /\ "starting" \in Places /\ "idle" \notin Turns
    BY DEF Turns, Sleeping, Places, Until
  <2>5. /\ pc' \in [Macros -> Places] /\ run' \in [Macros -> Nat] /\ pc'[m] = "starting"
        /\ \A n \in Macros : n # m => pc'[n] = pc[n]
    BY <2>1, <2>4 DEF LoopInv, LoopTypeOK
  <2>6. LoopTypeOK'
    BY <1>2, <2>3, <2>5 DEF LoopInv, LoopTypeOK
  <2>7. ASSUME NEW p \in DOMAIN ready, p > 1, NEW e, e = ready[p]
        PROVE  Can(e)' /\ (~e.new => e.task # m)
    <3>1. Can(e)
      BY <2>7 DEF LoopInv, AllCan
    <3>2. ~e.new => e.task # m
      BY <3>1, <1>5, <2>4 DEF Can, MacroCan
    <3> QED BY <3>1, <3>2, <1>2, <2>4, <2>5 DEF Can, EventCan, MacroCan
  <2>8. AllCan'
    <3>1. ASSUME NEW e, e = Wake(m, 0) PROVE Can(e)'
      BY <3>1, <1>3, <2>4, <2>5 DEF Can, MacroCan
    <3>2. ASSUME NEW p \in DOMAIN ready', NEW e, e = ready'[p] PROVE Can(e)'
      <4>1. CASE p = 1
        BY <4>1, <3>1, <3>2, <2>3
      <4>2. CASE p # 1
        <5>1. p \in DOMAIN ready /\ p > 1
          BY <4>2, <2>3, <1>1
        <5> QED BY <5>1, <3>2, <2>3, <2>7
      <4> QED BY <4>1, <4>2
    <3> QED BY <3>2, AllOfThemCan
  <2>9. WaitsOnce'
    <3> SUFFICES ASSUME NEW p \in DOMAIN ready', NEW q \in DOMAIN ready',
                        ready'[p].task = ready'[q].task, ready'[p].task # 0,
                        ~ready'[p].new, ~ready'[q].new
                 PROVE  p = q
      BY DEF WaitsOnce
    <3>1. \A h \in DOMAIN ready' : h = 1 \/ (h > 1 /\ ready'[h] = ready[h] /\ h \in DOMAIN ready)
      BY <1>1, <2>3
    <3> QED BY <3>1, <2>3, <2>7, <1>3 DEF LoopInv, WaitsOnce
  <2>10. NoneIsForgotten'
    <3> SUFFICES ASSUME NEW i \in DOMAIN read, stage[i] \in {"new", "called"}
                 PROVE  \E p \in DOMAIN ready' : ready'[p].task = i
      BY <1>2 DEF NoneIsForgotten
    <3>1. PICK p \in DOMAIN ready : ready[p].task = i
      BY DEF LoopInv, NoneIsForgotten
    <3>2. i \in Nat
      BY DEF LoopInv, LoopTypeOK
    <3>3. p # 1
      BY <3>1, <3>2, <1>3
    <3> QED BY <3>1, <3>3, <2>3, <1>1
  <2>11. JamsWait'
    BY <1>2 DEF LoopInv, JamsWait
  <2> QED BY <1>1, <1>2, <1>5, <2>1, <2>3, <2>6, <2>8, <2>9, <2>10, <2>11 DEF LoopInv
<1> QED BY <1>4, <1>5

\* Entries of different macros can be put into some order.
LEMMA SomeOrderIs ==
    ASSUME NEW S \in SUBSET Entries, \A e \in S : e.task \in Macros,
           \A e, f \in S : e.task = f.task => e = f
    PROVE  /\ SetToSeq(S) \in Seq(S) /\ SetToSeq(S) \in Seq(Entries)
           /\ \A p, q \in DOMAIN SetToSeq(S) : SetToSeq(S)[p] = SetToSeq(S)[q] => p = q
<1> DEFINE g == [e \in S |-> e.task]
<1>1. g \in Injection(S, Macros)
  <2>1. g \in [S -> Macros] /\ \A a, b \in S : g[a] = g[b] => a = b
    OBVIOUS
  <2> HIDE DEF g
  <2> QED BY <2>1 DEF Injection, IsInjective
<1>2. IsFiniteSet(S)
  <2> HIDE DEF g
  <2> QED BY <1>1, FS_Injection, MacroTasksAssumption
<1>3. Cardinality(S) \in Nat /\ ExistsBijection(1 .. Cardinality(S), S)
  BY <1>2, FS_CardinalityType
<1>4. PICK f \in [1 .. Cardinality(S) -> S] : IsInjective(f)
  BY <1>3 DEF ExistsBijection, Bijection, Injection
<1>5. SetToSeq(S) \in [1 .. Cardinality(S) -> S] /\ IsInjective(SetToSeq(S))
  BY <1>4 DEF SetToSeq
<1>6. SetToSeq(S) \in Seq(S)
  BY <1>3, <1>5
<1>7. DOMAIN SetToSeq(S) = 1 .. Cardinality(S)
  BY <1>5
<1>8. SetToSeq(S) \in Seq(Entries)
  BY <1>3, <1>5
<1> QED BY <1>5, <1>6, <1>7, <1>8 DEF IsInjective

\* What a reset changes: macros leave the places where they have no turn to come, and entries
\* are only added for those that have none.
ResetTo(n) == {pc[n], "cancelled"} \cup IF pc[n] = "deciding" THEN {"waking"}
                                        ELSE IF pc[n] \in Until THEN {"released"} ELSE {}
Resets ==
    /\ UNCHANGED <<kind, read, stage, left, listeners, run, jam, decidedBy>>
    /\ holds' \in [Macros -> BOOLEAN] /\ pc' \in [Macros -> Places]
    /\ \A n \in Macros : pc'[n] \in ResetTo(n)
    /\ ready' \in Seq(Entries) /\ Len(ready') >= Len(ready)
    /\ \A p \in DOMAIN ready :
          /\ ready'[p] # ready[p] => ready'[p] = Nothing /\ ready[p].task \in Macros
          /\ ready'[p] # ready[p] /\ ~ready[p].new => pc'[ready[p].task] = "cancelled"
    /\ \A p \in DOMAIN ready' : p > Len(ready) =>
          /\ ready'[p].task \in Macros /\ ~ready'[p].new
          /\ pc'[ready'[p].task] \in {"cancelled", "waking", "released"}
          /\ \A q \in DOMAIN ready' : ready'[q].task = ready'[p].task => ready'[q].new \/ q = p

LEMMA ResetIs ==
    ASSUME LoopInv, Reset
    PROVE  Resets
<1> DEFINE started   == Macros \ {ready[i].task : i \in {j \in DOMAIN ready : ready[j].new}}
           cancelled == {m \in started : known[m]}
           freed     == {m \in Macros \ cancelled : holds[m]}
           newest(i) == ready[i].new /\ \A j \in DOMAIN ready : j > i => ready[j] # ready[i]
           gone(i)   == \/ newest(i) /\ known[ready[i].task]
                        \/ ready[i].task \in cancelled /\ ready[i].hops > 0
           woken1    == {Wake(m, 0) : m \in {n \in cancelled : \A i \in DOMAIN ready :
                                                                  ready[i] # Wake(n, 0)}}
           woken2    == {Wake(m, 2) : m \in {n \in freed : pc[n] = "deciding"}}
           woken3    == {Wake(m, 0) : m \in {n \in freed : pc[n] \in Until}}
           woken     == woken1 \cup woken2 \cup woken3
           old       == [i \in DOMAIN ready |-> IF gone(i) THEN Nothing ELSE ready[i]]
           order     == SetToSeq(woken)
<1>1. /\ pc' = [m \in Macros |-> CASE m \in cancelled -> "cancelled"
                                   [] m \in freed /\ pc[m] = "deciding" -> "waking"
                                   [] m \in freed /\ pc[m] \in Until -> "released"
                                   [] OTHER -> pc[m]]
      /\ ready' = old \o order
      /\ holds' = [m \in Macros |-> FALSE]
      /\ UNCHANGED <<kind, read, stage, left, listeners, run, jam, decidedBy>>
  BY DEF Reset, inputVars, eventVars
<1>2. /\ ready \in Seq(Entries) /\ Len(ready) \in Nat /\ DOMAIN ready = 1 .. Len(ready)
      /\ pc \in [Macros -> Places]
      /\ \A p \in DOMAIN ready : ready[p] \in Entries
  BY DEF LoopInv, LoopTypeOK
<1>3. cancelled \subseteq Macros /\ freed \subseteq Macros /\ cancelled \cap freed = {}
  OBVIOUS
<1>4. \A p \in DOMAIN ready : gone(p) => ready[p].task \in Macros
  <2> SUFFICES ASSUME NEW p \in DOMAIN ready, gone(p) PROVE ready[p].task \in Macros
    OBVIOUS
  <2>1. Can(ready[p])
    BY DEF LoopInv, AllCan
  <2>2. ready[p].new \/ ready[p].task \in cancelled
    OBVIOUS
  <2> HIDE DEF cancelled, gone
  <2> QED BY <1>3, <2>1, <2>2, EntriesAre DEF Can, EventCan
<1>5. /\ \A p \in DOMAIN ready : gone(p) /\ ~ready[p].new => ready[p].task \in cancelled
      /\ \A p \in DOMAIN ready : ready[p].task \in cancelled /\ ready[p].hops > 0 => gone(p)
  OBVIOUS
<1>6. /\ old \in Seq(Entries) /\ Len(old) = Len(ready)
      /\ \A p \in DOMAIN ready : old[p] = IF gone(p) THEN Nothing ELSE ready[p]
  <2> HIDE DEF gone
  <2> QED BY <1>2, EntriesAre
<1>7. \A n \in Macros :
         /\ pc'[n] = pc[n] \/ pc'[n] = "cancelled" \/ (pc[n] = "deciding" /\ pc'[n] = "waking")
            \/ (pc[n] \in Until /\ pc'[n] = "released")
         /\ n \in cancelled => pc'[n] = "cancelled"
         /\ n \in freed /\ pc[n] = "deciding" => pc'[n] = "waking"
         /\ n \in freed /\ pc[n] \in Until => pc'[n] = "released"
  <2>1. "deciding" \notin Until
    BY DEF Until
  <2> HIDE DEF cancelled, freed
  <2> QED BY <1>1, <1>3, <2>1
<1>8. pc' \in [Macros -> Places]
  <2>1. {"cancelled", "waking", "released"} \subseteq Places
    BY DEF Places, Turns
  <2>2. \A n \in Macros : pc'[n] \in Places
    BY <1>2, <1>7, <2>1
  <2>3. pc' = [n \in Macros |-> pc'[n]]
    BY <1>1
  <2> QED BY <2>2, <2>3
<1>9. ASSUME NEW e \in woken
      PROVE  /\ e \in Entries /\ e.task \in Macros /\ ~e.new
             /\ \/ e \in woken1 /\ e = Wake(e.task, 0) /\ e.task \in cancelled
                   /\ \A p \in DOMAIN ready : ready[p] # Wake(e.task, 0)
                \/ e \in woken2 /\ e = Wake(e.task, 2) /\ e.task \in freed /\ pc[e.task] = "deciding"
                \/ e \in woken3 /\ e = Wake(e.task, 0) /\ e.task \in freed /\ pc[e.task] \in Until
  <2>1. CASE e \in woken1
    <3>1. PICK n \in cancelled : (\A p \in DOMAIN ready : ready[p] # Wake(n, 0)) /\ e = Wake(n, 0)
      BY <2>1
    <3>2. n \in Macros /\ e.task = n /\ e \in Entries /\ ~e.new
      BY <1>3, <3>1, EntriesAre
    <3> QED BY <2>1, <3>1, <3>2
  <2>2. CASE e \in woken2
    <3>1. PICK n \in freed : pc[n] = "deciding" /\ e = Wake(n, 2)
      BY <2>2
    <3>2. n \in Macros /\ e.task = n /\ e \in Entries /\ ~e.new
      BY <1>3, <3>1, EntriesAre
    <3> QED BY <2>2, <3>1, <3>2
  <2>3. CASE e \in woken3
    <3>1. PICK n \in freed : pc[n] \in Until /\ e = Wake(n, 0)
      BY <2>3
    <3>2. n \in Macros /\ e.task = n /\ e \in Entries /\ ~e.new
      BY <1>3, <3>1, EntriesAre
    <3> QED BY <2>3, <3>1, <3>2
  <2> QED BY <2>1, <2>2, <2>3
<1>10. \A e, f \in woken : e.task = f.task => e = f
  <2>1. "deciding" \notin Until
    BY DEF Until
  <2> HIDE DEF woken, woken1, woken2, woken3, cancelled, freed
  <2> QED BY <1>3, <1>9, <2>1
<1>11. /\ order \in Seq(woken) /\ order \in Seq(Entries) /\ Len(order) \in Nat
       /\ DOMAIN order = 1 .. Len(order)
       /\ \A p, q \in DOMAIN order : order[p] = order[q] => p = q
       /\ \A p \in DOMAIN order : order[p] \in woken
  <2> HIDE DEF woken
  <2>1. woken \in SUBSET Entries
    BY <1>9
  <2>2. /\ order \in Seq(woken) /\ order \in Seq(Entries)
        /\ \A p, q \in DOMAIN order : order[p] = order[q] => p = q
    BY <1>9, <1>10, <2>1, SomeOrderIs
  <2> HIDE DEF order
  <2> QED BY <2>2
<1> HIDE DEF order, old
<1>12. /\ ready' \in Seq(Entries) /\ Len(ready') = Len(ready) + Len(order)
       /\ \A p \in DOMAIN ready : ready'[p] = old[p]
       /\ \A p \in DOMAIN ready' : p > Len(ready) =>
             /\ p - Len(ready) \in DOMAIN order /\ ready'[p] = order[p - Len(ready)]
  <2>1. /\ old \o order \in Seq(Entries) /\ Len(old \o order) = Len(old) + Len(order)
        /\ \A p \in 1 .. Len(old) + Len(order) :
              (old \o order)[p] = IF p <= Len(old) THEN old[p] ELSE order[p - Len(old)]
    <3>1. old \in Seq(Entries) /\ order \in Seq(Entries)
      BY <1>6, <1>11
    <3> QED BY <3>1, ConcatProperties
  <2> QED BY <1>1, <1>2, <1>6, <1>11, <2>1
<1>13. ASSUME NEW p \in DOMAIN ready
       PROVE  /\ ready'[p] # ready[p] => ready'[p] = Nothing /\ ready[p].task \in Macros
              /\ ready'[p] # ready[p] /\ ~ready[p].new => pc'[ready[p].task] = "cancelled"
  <2> HIDE DEF gone, cancelled
  <2> QED BY <1>3, <1>4, <1>5, <1>6, <1>7, <1>12
<1>14. ASSUME NEW p \in DOMAIN ready', p > Len(ready), NEW q \in DOMAIN ready', ~(q > Len(ready)),
              ready'[q].task = ready'[p].task
       PROVE  ready'[q].new
  <2> DEFINE e == ready'[p]
  <2>1. e \in woken
    BY <1>11, <1>12, <1>14
  <2>2. q \in DOMAIN ready /\ ready'[q] = IF gone(q) THEN Nothing ELSE ready[q]
    <3> HIDE DEF gone
    <3>1. q \in DOMAIN ready
      BY <1>2, <1>12, <1>14
    <3> QED BY <3>1, <1>6, <1>12
  <2>3. e.task \in Macros /\ e.task # 0 /\ e.task \notin Nat
    <3> HIDE DEF woken
    <3> QED BY <1>9, <2>1
  <2> HIDE DEF e, woken, woken1, woken2, woken3
  <2>4. ~gone(q) /\ ready'[q] = ready[q]
    <3> HIDE DEF gone
    <3> QED BY <1>14, <2>2, <2>3, EntriesAre DEF e
  <2>5. Can(ready[q]) /\ ready[q] \in Entries
    BY <1>2, <2>2 DEF LoopInv, AllCan
  <2>6. ready[q].task = e.task
    BY <2>4, <1>14 DEF e
  <2>7. SUFFICES ASSUME ~ready[q].new PROVE FALSE
    BY <2>4
  <2>8. pc[e.task] \in Turns
    BY <2>3, <2>5, <2>6, <2>7 DEF Can, MacroCan
  <2>9. "deciding" \notin Turns /\ Until \cap Turns = {}
    BY DEF Turns, Sleeping, Until
  <2>10. e.task \in cancelled /\ ready[q] # Wake(e.task, 0)
    BY <1>9, <2>1, <2>2, <2>8, <2>9
  <2>11. ready[q].hops # 0
    BY <2>5, <2>6, <2>7, <2>10 DEF Entries, Wake
  <2>12. ready[q].hops \in 0 .. 5
    BY <2>5 DEF Entries, HeadStart
  <2>13. ready[q].hops > 0
    BY <2>11, <2>12
  <2> QED BY <1>5, <2>2, <2>4, <2>6, <2>10, <2>13
<1>15. ASSUME NEW p \in DOMAIN ready', p > Len(ready)
       PROVE  /\ ready'[p].task \in Macros /\ ~ready'[p].new
              /\ pc'[ready'[p].task] \in {"cancelled", "waking", "released"}
              /\ \A q \in DOMAIN ready' : ready'[q].task = ready'[p].task => ready'[q].new \/ q = p
  <2>1. ready'[p] \in woken
    BY <1>11, <1>12, <1>15
  <2> HIDE DEF woken, woken1, woken2, woken3, cancelled, freed
  <2>2. /\ ready'[p].task \in Macros /\ ~ready'[p].new
        /\ pc'[ready'[p].task] \in {"cancelled", "waking", "released"}
    BY <1>7, <1>9, <2>1
  <2>3. ASSUME NEW q \in DOMAIN ready', q > Len(ready), ready'[q].task = ready'[p].task PROVE q = p
    <3>1. ready'[q] \in woken
      BY <1>11, <1>12, <2>3
    <3>2. ready'[q] = ready'[p]
      BY <1>10, <2>1, <2>3, <3>1
    <3>3. p - Len(ready) = q - Len(ready)
      BY <3>2, <1>11, <1>12, <1>15, <2>3
    <3>4. p \in Nat /\ q \in Nat
      BY <1>12
    <3> QED BY <1>2, <3>3, <3>4
  <2> QED BY <1>14, <1>15, <2>2, <2>3
<1>16. holds' \in [Macros -> BOOLEAN]
  BY <1>1
<1>17. Len(ready') >= Len(ready)
  BY <1>2, <1>11, <1>12
<1>18. \A n \in Macros : pc'[n] \in ResetTo(n)
  <2>1. "deciding" \notin Until
    BY DEF Until
  <2> HIDE DEF cancelled, freed
  <2> QED BY <1>7, <2>1 DEF ResetTo
<1> QED BY <1>1, <1>8, <1>12, <1>13, <1>15, <1>16, <1>17, <1>18 DEF Resets

LEMMA ResetKeeps ==
    ASSUME LoopInv, Resets
    PROVE  LoopInv'
<1>1. /\ ready \in Seq(Entries) /\ Len(ready) \in Nat /\ DOMAIN ready = 1 .. Len(ready)
      /\ ready' \in Seq(Entries) /\ Len(ready') \in Nat /\ DOMAIN ready' = 1 .. Len(ready')
      /\ Len(ready') >= Len(ready) /\ DOMAIN ready \subseteq DOMAIN ready'
      /\ UNCHANGED <<kind, read, stage, left, listeners, run, jam>>
      /\ \A p \in DOMAIN ready' : p > Len(ready) \/ p \in DOMAIN ready
  BY DEF Resets, LoopInv, LoopTypeOK
<1>2. LoopTypeOK'
  BY DEF Resets, LoopInv, LoopTypeOK
<1>3. ASSUME NEW n \in Macros
      PROVE  /\ pc[n] \in Turns => pc'[n] \in Turns
             /\ pc'[n] \in {"cancelled", "waking", "released"} => pc'[n] \in Turns
  <2>1. {"cancelled", "waking", "released"} \subseteq Turns
    BY DEF Turns
  <2> QED BY <2>1 DEF Resets, ResetTo
<1>4. ASSUME NEW e, Can(e) PROVE Can(e)'
  BY <1>1, <1>3, <1>4 DEF Can, EventCan, MacroCan
<1>5. AllCan'
  <2>1. ASSUME NEW p \in DOMAIN ready', NEW e, e = ready'[p] PROVE Can(e)'
    <3>1. CASE p > Len(ready)
      <4>1. e.task \in Macros /\ ~e.new /\ pc'[e.task] \in Turns
        BY <1>3, <2>1, <3>1 DEF Resets
      <4> QED BY <4>1 DEF Can, MacroCan
    <3>2. CASE p \in DOMAIN ready
      <4>1. e = ready[p] \/ e = Nothing
        BY <2>1, <3>2 DEF Resets
      <4>2. Can(ready[p])
        BY <3>2 DEF LoopInv, AllCan
      <4>3. Can(Nothing)
        BY EntriesAre DEF Can, EventCan
      <4> QED BY <1>4, <4>1, <4>2, <4>3
    <3> QED BY <1>1, <3>1, <3>2
  <2> QED BY <2>1, AllOfThemCan
<1>6. WaitsOnce'
  <2> SUFFICES ASSUME NEW p \in DOMAIN ready', NEW q \in DOMAIN ready',
                      ready'[p].task = ready'[q].task, ready'[p].task # 0,
                      ~ready'[p].new, ~ready'[q].new
               PROVE  p = q
    BY DEF WaitsOnce
  <2>1. CASE p > Len(ready)
    BY <2>1 DEF Resets
  <2>2. CASE q > Len(ready)
    BY <2>2 DEF Resets
  <2>3. CASE p \in DOMAIN ready /\ q \in DOMAIN ready
    <3>1. ready'[p] = ready[p] /\ ready'[q] = ready[q]
      BY <2>3, EntriesAre DEF Resets
    <3> QED BY <2>3, <3>1 DEF LoopInv, WaitsOnce
  <2> QED BY <1>1, <2>1, <2>2, <2>3
<1>7. NoneIsForgotten'
  <2> SUFFICES ASSUME NEW i \in DOMAIN read, stage[i] \in {"new", "called"}
               PROVE  \E p \in DOMAIN ready' : ready'[p].task = i
    BY <1>1 DEF NoneIsForgotten
  <2>1. PICK p \in DOMAIN ready : ready[p].task = i
    BY DEF LoopInv, NoneIsForgotten
  <2>2. i \in Nat
    BY DEF LoopInv, LoopTypeOK
  <2>3. ready'[p] = ready[p]
    BY <2>1, <2>2 DEF Resets
  <2> QED BY <1>1, <2>1, <2>3
<1>8. JamsWait'
  BY <1>1 DEF LoopInv, JamsWait
<1> QED BY <1>2, <1>5, <1>6, <1>7, <1>8 DEF LoopInv

\* Every step of the loop, by the case that the proofs tell apart.
LEMMA LoopStepKeeps ==
    ASSUME LoopInv, [MacroNext]_taskVars
    PROVE  LoopInv'
<1>1. CASE Read
  BY <1>1, ReadKeeps
<1>2. CASE Hop
  BY <1>2, HopKeeps
<1>3. CASE Skip
  BY <1>3, SkipKeeps DEF Skip, inputVars, eventVars, macroVars
<1>4. ASSUME NEW i \in DOMAIN read, CallListener(i) PROVE LoopInv'
  <2>1. PICK l \in ToCall(i) : CallModTap(i, l) \/ CallIfSingle(i, l)
    BY <1>4 DEF CallListener
  <2> QED BY <1>4, <2>1, CallModTapKeeps, CallIfSingleKeeps DEF CallListener
<1>5. ASSUME NEW i \in DOMAIN read, HandToHandlers(i) PROVE LoopInv'
  BY <1>5, HandToHandlersKeeps
<1>6. ASSUME NEW m \in Macros, RunMacro(m) PROVE LoopInv'
  <2>1. Quiet(m) \/ (StartListening(m) \/ IfSingleDecides(m) \/ ModTapDecides(m) \/ StopListening(m))
        \/ LetGo(m) \/ StartRun(m)
    BY <1>6 DEF RunMacro, Quiet
  <2>2. LoopTypeOK
    BY DEF LoopInv
  <2> QED BY <2>1, <2>2, QuietMoves, ListenersMove, MacroMoves, LetGoKeeps, StartRunKeeps
<1>7. ASSUME NEW m \in Macros, TermEnds(m) PROVE LoopInv'
  BY <1>7, TermEndsKeeps
<1>8. CASE Reset
  BY <1>8, ResetIs, ResetKeeps
<1>9. CASE UNCHANGED taskVars
  BY <1>9 DEF taskVars, inputVars, eventVars, macroVars, LoopInv, LoopTypeOK, AllCan, WaitsOnce,
              JamsWait, NoneIsForgotten, Can, EventCan, MacroCan
<1> QED BY <1>1, <1>2, <1>3, <1>4, <1>5, <1>6, <1>7, <1>8, <1>9 DEF MacroNext, HandleEvents

LEMMA LoopIsRight == MacroSpec => []LoopInv
<1>1. MacroInit => LoopInv
  BY InitIsRight
<1>2. LoopInv /\ [MacroNext]_taskVars => LoopInv'
  BY LoopStepKeeps
<1> QED BY <1>1, <1>2, PTL DEF MacroSpec

-----------------------------------------------------------------------------
(* An if_single that was woken by an event has its turn before the event.  *)

\* The p-th entry has its turn before the q-th.
Sooner(p, q) ==
    \/ ready[p].hops < ready[q].hops
    \/ ready[p].hops = ready[q].hops /\ p < q

First(n, i) ==
    \E p \in DOMAIN ready :
        /\ ready[p].task = n /\ ~ready[p].new
        /\ \A q \in DOMAIN ready : ready[q].task = i => Sooner(p, q)

DecidesFirst ==
    /\ decidedBy \in [Macros -> SUBSET (DOMAIN read)]
    /\ \A n \in Macros : \A i \in decidedBy[n] :
          /\ kind[n] = "if_single" /\ pc[n] # "deciding"
          /\ pc[n] = "waking" => First(n, i)

LEMMA FirstIsBefore ==
    ASSUME LoopInv, NEW n, NEW i \in Nat, First(n, i)
    PROVE  ~(ready # <<>> /\ ready[1] = Wake(i, 0))
<1> SUFFICES ASSUME ready # <<>>, ready[1] = Wake(i, 0) PROVE FALSE
  OBVIOUS
<1>1. /\ ready \in Seq(Entries) /\ 1 \in DOMAIN ready /\ DOMAIN ready = 1 .. Len(ready)
      /\ \A p \in DOMAIN ready : ready[p] \in Entries
  BY DEF LoopInv, LoopTypeOK
<1>2. ready[1].task = i /\ ready[1].hops = 0
  BY EntriesAre
<1>3. PICK p \in DOMAIN ready : Sooner(p, 1)
  BY <1>1, <1>2 DEF First
<1>4. ready[p].hops \in 0 .. 5
  BY <1>1 DEF Entries, HeadStart
<1> QED BY <1>1, <1>2, <1>3, <1>4 DEF Sooner

\* It stays so in a step that does not end its waiting, and queues the event for its sleeps.
LEMMA FirstStays ==
    ASSUME LoopInv, LoopTypeOK', NEW d \in {0, 1}, d <= Len(ready), NEW k \in Nat,
           NEW s, s = ready', IsAfter(s, ready, d, k),
           NEW n, NEW i, First(n, i),
           \A p \in DOMAIN ready : p <= d => ready[p].task # n \/ ready[p].new,
           \A q \in DOMAIN s : q > Len(ready) - d /\ s[q].task = i => s[q].hops = 5
    PROVE  First(n, i)'
<1>1. /\ ready \in Seq(Entries) /\ DOMAIN ready = 1 .. Len(ready) /\ Len(ready) \in Nat
      /\ s \in Seq(Entries) /\ DOMAIN s = 1 .. Len(ready) - d + k
      /\ \A p \in 1 .. Len(ready) - d : s[p] = ready[p + d]
      /\ \A p \in DOMAIN ready : ready[p].hops \in 0 .. 5
  <2>1. /\ ready \in Seq(Entries) /\ DOMAIN ready = 1 .. Len(ready) /\ Len(ready) \in Nat
        /\ s \in Seq(Entries) /\ DOMAIN s = 1 .. Len(ready) - d + k
        /\ \A p \in 1 .. Len(ready) - d : s[p] = ready[p + d]
    BY DEF LoopInv, LoopTypeOK, IsAfter
  <2>2. \A p \in DOMAIN ready : ready[p] \in Entries
    BY <2>1
  <2> QED BY <2>1, <2>2 DEF Entries, HeadStart
<1>2. PICK p \in DOMAIN ready :
        /\ ready[p].task = n /\ ~ready[p].new
        /\ \A q \in DOMAIN ready : ready[q].task = i => Sooner(p, q)
  BY DEF First
<1>3. p > d /\ p - d \in 1 .. Len(ready) - d /\ p - d \in DOMAIN s /\ (p - d) + d = p
  BY <1>1, <1>2
<1>4. s[p - d] = ready[p]
  BY <1>1, <1>3
<1>5. ASSUME NEW q \in DOMAIN s, s[q].task = i
      PROVE  \/ s[p - d].hops < s[q].hops
             \/ s[p - d].hops = s[q].hops /\ p - d < q
  <2>1. CASE q > Len(ready) - d
    <3>1. s[q].hops = 5 /\ p - d < q
      BY <1>1, <1>3, <1>5, <2>1
    <3> QED BY <1>1, <1>4, <3>1
  <2>2. CASE ~(q > Len(ready) - d)
    <3>1. q + d \in DOMAIN ready /\ s[q] = ready[q + d]
      BY <1>1, <2>2
    <3>2. Sooner(p, q + d)
      BY <1>2, <1>5, <3>1
    <3> QED BY <1>1, <1>3, <1>4, <3>1, <3>2 DEF Sooner
  <2> QED BY <2>1, <2>2
<1> QED BY <1>2, <1>3, <1>4, <1>5 DEF First, Sooner

\* ... and when somebody's sleep gets shorter, too.
LEMMA FirstHops ==
    ASSUME LoopInv, Hop, NEW n \in Macros, NEW i, i \notin Macros, First(n, i)
    PROVE  First(n, i)'
<1> DEFINE l == Len(ready)
           s == ready'
           f == s[l]
<1>1. /\ LoopInv' /\ ready # <<>> /\ ready[1].hops > 0 /\ ~ready[1].new
      /\ IsAfter(s, ready, 1, 1)
      /\ f = [ready[1] EXCEPT !.hops = ready[1].hops - 1]
  BY HopKeeps
<1>2. /\ ready \in Seq(Entries) /\ DOMAIN ready = 1 .. l /\ l \in Nat /\ 1 \in DOMAIN ready
      /\ \A p \in DOMAIN ready : ready[p] \in Entries
      /\ s \in Seq(Entries) /\ DOMAIN s = 1 .. l
      /\ \A p \in 1 .. l - 1 : s[p] = ready[p + 1]
  BY <1>1 DEF LoopInv, LoopTypeOK, IsAfter
<1>3. \A p \in DOMAIN ready : ready[p].hops \in 0 .. 5
  BY <1>2 DEF Entries, HeadStart
<1>4. f.task = ready[1].task /\ f.new = ready[1].new /\ f.hops = ready[1].hops - 1
  BY <1>1, <1>2 DEF Entries
<1>5. PICK p \in DOMAIN ready :
        /\ ready[p].task = n /\ ~ready[p].new
        /\ \A q \in DOMAIN ready : ready[q].task = i => Sooner(p, q)
  BY DEF First
<1> HIDE DEF s, f
<1>6. CASE p = 1
  <2>1. ASSUME NEW q \in DOMAIN s, s[q].task = i
        PROVE  f.hops < s[q].hops
    <3>1. q # l
      BY <1>4, <1>5, <1>6, <2>1 DEF f
    <3>2. q + 1 \in DOMAIN ready /\ s[q] = ready[q + 1]
      BY <1>2, <3>1
    <3>3. Sooner(1, q + 1)
      BY <1>5, <1>6, <2>1, <3>2
    <3> QED BY <1>2, <1>3, <1>4, <3>2, <3>3 DEF Sooner
  <2>2. l \in DOMAIN s /\ s[l].task = n /\ ~s[l].new
    BY <1>2, <1>4, <1>5, <1>6 DEF f
  <2> QED BY <2>1, <2>2 DEF First, Sooner, s, f
<1>7. CASE p # 1
  <2>1. p - 1 \in 1 .. l - 1 /\ p - 1 \in DOMAIN s /\ (p - 1) + 1 = p
    BY <1>2, <1>7
  <2>2. s[p - 1] = ready[p]
    BY <1>2, <2>1
  <2>3. ASSUME NEW q \in DOMAIN s, s[q].task = i
        PROVE  \/ s[p - 1].hops < s[q].hops
               \/ s[p - 1].hops = s[q].hops /\ p - 1 < q
    <3>1. CASE q = l
      <4>1. Sooner(p, 1)
        BY <1>2, <1>4, <1>5, <2>3, <3>1 DEF f
      <4>2. ready[p].hops < ready[1].hops
        BY <1>2, <4>1 DEF Sooner
      <4>3. s[q].hops = ready[1].hops - 1 /\ p - 1 < q
        BY <1>2, <1>4, <2>1, <3>1 DEF f
      <4> QED BY <1>2, <1>3, <2>2, <4>2, <4>3
    <3>2. CASE q # l
      <4>1. q + 1 \in DOMAIN ready /\ s[q] = ready[q + 1]
        BY <1>2, <3>2
      <4>2. Sooner(p, q + 1)
        BY <1>5, <2>3, <4>1
      <4> QED BY <1>2, <2>1, <2>2, <4>1, <4>2 DEF Sooner
    <3> QED BY <3>1, <3>2
  <2> QED BY <1>5, <2>1, <2>2, <2>3 DEF First, Sooner, s
<1> QED BY <1>6, <1>7

\* The queue after the turn of a macro.
LEMMA MovesQueue ==
    ASSUME LoopInv, NEW m \in Macros, Moves(m)
    PROVE  /\ Taken \in {0, 1} /\ Taken <= Len(ready)
           /\ \E k \in {0, 1} : IsAfter(ready', ready, Taken, k)
           /\ \A p \in DOMAIN ready : p <= Taken => ready[p] = Wake(m, 0)
           /\ \A q \in DOMAIN ready' : q > Len(ready) - Taken =>
                 ready'[q].task = m /\ ~ready'[q].new
<1>1. /\ ready \in Seq(Entries) /\ Len(ready) \in Nat
      /\ Taken \in {0, 1} /\ Taken <= Len(ready)
      /\ ready # <<>> => Taken = 1 /\ Head(ready) = ready[1]
  BY RestIs DEF LoopInv, LoopTypeOK
<1>2. ready # <<>> => Head(ready) = Wake(m, 0)
  BY DEF Moves, MacroTurn
<1>3. \A p \in DOMAIN ready : p <= Taken => ready[p] = Wake(m, 0)
  <2> SUFFICES ASSUME NEW p \in DOMAIN ready, p <= Taken PROVE ready[p] = Wake(m, 0)
    OBVIOUS
  <2>1. ready # <<>> /\ p = 1
    BY <1>1
  <2> QED BY <1>1, <1>2, <2>1
<1>4. CASE ready' = Rest
  <2>1. IsAfter(ready', ready, Taken, 0)
    BY <1>1, <1>4, QueuesAre
  <2>2. \A q \in DOMAIN ready' : ~(q > Len(ready) - Taken)
    BY <1>1, <2>1 DEF IsAfter
  <2> QED BY <1>1, <1>3, <2>1, <2>2
<1>5. CASE \E h \in {0, 2} : ready' = Append(Rest, Wake(m, h))
  <2>1. PICK h \in {0, 2} : ready' = Append(Rest, Wake(m, h))
    BY <1>5
  <2>2. Wake(m, h) \in Entries /\ Wake(m, h).task = m /\ ~Wake(m, h).new
    BY EntriesAre
  <2>3. IsAfter(ready', ready, Taken, 1) /\ ready'[Len(ready) - Taken + 1] = Wake(m, h)
    BY <1>1, <2>1, <2>2, QueuesAre
  <2>4. \A q \in DOMAIN ready' : q > Len(ready) - Taken => q = Len(ready) - Taken + 1
    BY <1>1, <2>3 DEF IsAfter
  <2> QED BY <1>1, <1>3, <2>2, <2>3, <2>4
<1> QED BY <1>4, <1>5 DEF Moves

LEMMA MovesKeepFirst ==
    ASSUME LoopInv, LoopInv', NEW m \in Macros, Moves(m),
           NEW n \in Macros, n # m, NEW i \in Nat, First(n, i)
    PROVE  First(n, i)'
<1>1. /\ Taken \in {0, 1} /\ Taken <= Len(ready)
      /\ \A p \in DOMAIN ready : p <= Taken => ready[p] = Wake(m, 0)
      /\ \A q \in DOMAIN ready' : q > Len(ready) - Taken => ready'[q].task = m
  BY MovesQueue
<1>2. PICK k \in {0, 1} : IsAfter(ready', ready, Taken, k)
  BY MovesQueue
<1>3. \A p \in DOMAIN ready : p <= Taken => ready[p].task # n
  BY <1>1, EntriesAre
<1>4. \A q \in DOMAIN ready' : q > Len(ready) - Taken => ready'[q].task # i
  BY <1>1
<1>5. LoopTypeOK' /\ k \in Nat
  BY DEF LoopInv
<1> HIDE MacroTasksAssumption
<1> QED BY <1>1, <1>2, <1>3, <1>4, <1>5, FirstStays

\* Turns of macros that do not listen, and do not begin to.
LEMMA MovesDecideFirst ==
    ASSUME LoopInv, LoopInv', NEW m \in Macros, Moves(m), DecidesFirst,
           pc'[m] \notin {"deciding", "waking"}, decidedBy' = decidedBy
    PROVE  DecidesFirst'
<1>1. ASSUME NEW n \in Macros, NEW i \in decidedBy[n], n # m, First(n, i) PROVE First(n, i)'
  <2>1. i \in Nat
    BY DEF DecidesFirst, LoopInv, LoopTypeOK
  <2> QED BY <1>1, <2>1, MovesKeepFirst
<1>2. \A n \in Macros : n # m => pc'[n] = pc[n]
  BY DEF Moves
<1>3. read' = read /\ kind' = kind
  BY DEF Moves
<1>4. ASSUME NEW n \in Macros, NEW i \in decidedBy[n]
      PROVE  /\ kind'[n] = "if_single" /\ pc'[n] # "deciding"
             /\ pc'[n] = "waking" => First(n, i)'
  BY <1>1, <1>2, <1>3 DEF DecidesFirst
<1> QED BY <1>3, <1>4 DEF DecidesFirst

\* The turn of an event: what it queues is not another event.
LEMMA EventKeepsFirst ==
    ASSUME LoopInv, LoopInv', NEW i \in DOMAIN read, EventTurn(i), NEW k \in Nat,
           IsAfter(ready', ready, 1, k),
           \A q \in DOMAIN ready' : q > Len(ready) - 1 =>
              ready'[q].task \in Macros \/ ready'[q].task = i,
           NEW n \in Macros, NEW j \in Nat, First(n, j)
    PROVE  First(n, j)'
<1>1. ready # <<>> /\ ready[1] = Wake(i, 0) /\ 1 <= Len(ready) /\ i \in Nat /\ i \notin Macros
  <2>1. i \in Nat /\ ready # <<>> /\ ready[1] = Wake(i, 0) /\ Len(ready) - 1 \in Nat
        /\ ready \in Seq(Entries)
    BY EventsTurn
  <2> QED BY <2>1
<1>2. j # i
  BY <1>1, FirstIsBefore
<1>3. \A p \in DOMAIN ready : p <= 1 => ready[p].task # n
  <2>1. \A p \in DOMAIN ready : p <= 1 => p = 1
    BY DEF LoopInv, LoopTypeOK
  <2> QED BY <1>1, <2>1, EntriesAre
<1>4. \A q \in DOMAIN ready' : q > Len(ready) - 1 => ready'[q].task # j
  BY <1>2
<1>5. LoopTypeOK' /\ 1 \in {0, 1}
  BY DEF LoopInv
<1> HIDE MacroTasksAssumption
<1> QED BY <1>1, <1>3, <1>4, <1>5, FirstStays

\* A step that wakes nobody.
LEMMA DecidedStays ==
    ASSUME LoopInv, DecidesFirst, UNCHANGED <<kind, decidedBy>>,
           DOMAIN read \subseteq DOMAIN read',
           \A n \in Macros : kind[n] = "if_single" =>
              \/ pc'[n] \notin {"deciding", "waking"}
              \/ pc[n] = "deciding"
              \/ pc'[n] = pc[n] /\ \A i \in decidedBy[n] : First(n, i) => First(n, i)'
    PROVE  DecidesFirst'
<1>1. ASSUME NEW n \in Macros, NEW i \in decidedBy[n]
      PROVE  /\ kind'[n] = "if_single" /\ pc'[n] # "deciding"
             /\ pc'[n] = "waking" => First(n, i)'
  BY DEF DecidesFirst
<1>2. decidedBy' \in [Macros -> SUBSET (DOMAIN read')]
  BY DEF DecidesFirst
<1> QED BY <1>1, <1>2 DEF DecidesFirst

LEMMA CallDecidesFirst ==
    ASSUME LoopInv, DecidesFirst, NEW i \in DOMAIN read, CallListener(i)
    PROVE  DecidesFirst'
<1>1. PICK l \in ToCall(i) : CallModTap(i, l) \/ CallIfSingle(i, l)
  BY DEF CallListener
<1>2. EventTurn(i) /\ UNCHANGED <<inputVars, listeners, run, holds, keysDown, count, known>>
      /\ read' = read /\ kind' = kind
  BY DEF CallListener, inputVars
<1>3. /\ ready # <<>> /\ Taken = 1 /\ i \in Nat /\ Len(ready) - 1 \in Nat
      /\ ready \in Seq(Entries) /\ Len(ready) \in Nat
      /\ \A e \in Entries : Stays(e, 1) => Can(e) /\ (~e.new => e.task # i)
  BY <1>2, EventsTurn
<1>4. decidedBy \in [Macros -> SUBSET (DOMAIN read)] /\ DOMAIN read \subseteq Nat
  BY DEF DecidesFirst, LoopInv, LoopTypeOK
<1>5. \A h \in 0 .. 5 : Wake(i, h).task = i
  BY <1>3, EntriesAre
<1>6. ASSUME LoopInv', UNCHANGED <<pc, decidedBy>>, NEW k \in {0, 1}, IsAfter(ready', ready, 1, k),
             k = 1 => ready'[Len(ready)] = Wake(i, 4)
      PROVE  DecidesFirst'
  <2>1. \A q \in DOMAIN ready' : q > Len(ready) - 1 => k = 1 /\ q = Len(ready)
    BY <1>3, <1>6 DEF IsAfter
  <2>2. \A q \in DOMAIN ready' : q > Len(ready) - 1 => ready'[q].task = i
    BY <1>5, <1>6, <2>1
  <2>3. ASSUME NEW n \in Macros, NEW j \in decidedBy[n], First(n, j) PROVE First(n, j)'
    <3>1. j \in Nat /\ k \in Nat
      BY <1>4
    <3> QED BY <1>2, <1>6, <2>2, <2>3, <3>1, EventKeepsFirst
  <2> QED BY <1>2, <1>6, <2>3, DecidedStays
<1>7. CASE CallModTap(i, l)
  <2>1. /\ LoopInv'
        /\ \/ IsAfter(ready', ready, 1, 1) /\ ready'[Len(ready)] = Wake(i, 4)
           \/ IsAfter(ready', ready, 1, 0)
    BY <1>1, <1>2, <1>7, CallModTapKeeps
  <2>2. UNCHANGED <<pc, decidedBy>>
    BY <1>7 DEF CallModTap
  <2>3. 0 \in {0, 1} /\ 1 \in {0, 1} /\ 0 # 1
    OBVIOUS
  <2> QED BY <1>6, <2>1, <2>2, <2>3
<1>8. CASE CallIfSingle(i, l)
  <2> DEFINE m == l.macro
  <2>1. /\ LoopInv' /\ m \in Macros /\ kind[m] = "if_single"
        /\ \/ /\ pc[m] = "deciding"
              /\ pc' = [pc EXCEPT ![m] = "waking"]
              /\ decidedBy' = [decidedBy EXCEPT ![m] = {i}]
              /\ IsAfter(ready', ready, 1, 2)
              /\ ready'[Len(ready)] = Wake(m, 2) /\ ready'[Len(ready) + 1] = Wake(i, 4)
           \/ /\ UNCHANGED <<pc, decidedBy>>
              /\ IsAfter(ready', ready, 1, 1) /\ ready'[Len(ready)] = Wake(i, 4)
    BY <1>1, <1>2, <1>8, CallIfSingleKeeps
  <2> HIDE DEF m
  <2>2. CASE UNCHANGED <<pc, decidedBy>> /\ IsAfter(ready', ready, 1, 1)
             /\ ready'[Len(ready)] = Wake(i, 4)
    <3>1. 1 \in {0, 1}
      OBVIOUS
    <3> QED BY <1>6, <2>1, <2>2, <3>1
  <2>3. CASE /\ pc[m] = "deciding"
             /\ pc' = [pc EXCEPT ![m] = "waking"]
             /\ decidedBy' = [decidedBy EXCEPT ![m] = {i}]
             /\ IsAfter(ready', ready, 1, 2)
             /\ ready'[Len(ready)] = Wake(m, 2) /\ ready'[Len(ready) + 1] = Wake(i, 4)
    <3>1. /\ Wake(m, 2).task = m /\ Wake(i, 4).task = i
          /\ ~Wake(m, 2).new /\ Wake(m, 2).hops = 2 /\ Wake(i, 4).hops = 4
      BY <1>3, <2>1, EntriesAre
    <3>2. /\ ready' \in Seq(Entries) /\ DOMAIN ready' = 1 .. Len(ready) + 1
          /\ \A p \in 1 .. Len(ready) - 1 : ready'[p] = ready[p + 1]
      BY <1>3, <2>3 DEF IsAfter
    <3>3. \A q \in DOMAIN ready' : q > Len(ready) - 1 => q = Len(ready) \/ q = Len(ready) + 1
      BY <1>3, <3>2
    <3>4. \A q \in DOMAIN ready' : q > Len(ready) - 1 =>
             ready'[q].task \in Macros \/ ready'[q].task = i
      BY <2>1, <2>3, <3>1, <3>3
    <3>5. ASSUME NEW n \in Macros, NEW j \in decidedBy[n], First(n, j) PROVE First(n, j)'
      <4>1. j \in Nat /\ 2 \in Nat
        BY <1>4
      <4> QED BY <1>2, <2>1, <2>3, <3>4, <3>5, <4>1, EventKeepsFirst
    <3>6. \A q \in DOMAIN ready' : ready'[q].task = i => q = Len(ready) + 1
      <4> SUFFICES ASSUME NEW q \in DOMAIN ready', ready'[q].task = i PROVE q = Len(ready) + 1
        OBVIOUS
      <4>1. CASE q > Len(ready) - 1
        BY <1>3, <2>1, <2>3, <3>1, <3>3, <4>1
      <4>2. CASE ~(q > Len(ready) - 1)
        <5>1. q + 1 \in DOMAIN ready /\ ready'[q] = ready[q + 1] /\ q + 1 > 1
          BY <1>3, <3>2, <4>2
        <5>2. ready[q + 1] \in Entries /\ Stays(ready[q + 1], 1)
          BY <1>3, <5>1 DEF Stays
        <5>3. Can(ready[q + 1]) /\ ready[q + 1].new
          BY <1>3, <5>1, <5>2
        <5>4. i # 0
          BY <1>2, EventsTurn
        <5> QED BY <1>3, <5>1, <5>3, <5>4, EntriesAre DEF Can, EventCan
      <4> QED BY <4>1, <4>2
    <3>7. First(m, i)'
      <4> DEFINE s == ready'
      <4>1. Len(ready) \in DOMAIN s /\ s[Len(ready)] = Wake(m, 2)
            /\ s[Len(ready) + 1] = Wake(i, 4)
        BY <1>3, <2>3, <3>2
      <4>2. \A q \in DOMAIN s : s[q].task = i => s[Len(ready)].hops < s[q].hops
        BY <3>1, <3>6, <4>1
      <4>3. \E p \in DOMAIN s : /\ s[p].task = m /\ ~s[p].new
                                /\ \A q \in DOMAIN s : s[q].task = i =>
                                      \/ s[p].hops < s[q].hops
                                      \/ s[p].hops = s[q].hops /\ p < q
        BY <3>1, <4>1, <4>2
      <4> QED BY <4>3 DEF First, Sooner
    <3>8. ASSUME NEW n \in Macros, NEW j \in decidedBy'[n]
          PROVE  /\ kind[n] = "if_single" /\ pc'[n] # "deciding"
                 /\ pc'[n] = "waking" => First(n, j)'
      <4>1. CASE n = m
        <5>1. j = i /\ pc'[n] = "waking"
          BY <1>4, <2>3, <4>1 DEF LoopInv, LoopTypeOK
        <5> QED BY <2>1, <3>7, <4>1, <5>1
      <4>2. CASE n # m
        <5>1. j \in decidedBy[n] /\ pc'[n] = pc[n]
          BY <1>4, <2>3, <3>8, <4>2 DEF LoopInv, LoopTypeOK
        <5> QED BY <3>5, <5>1 DEF DecidesFirst
      <4> QED BY <4>1, <4>2
    <3>9. decidedBy' \in [Macros -> SUBSET (DOMAIN read)]
      BY <1>4, <2>1, <2>3
    <3> QED BY <1>2, <3>8, <3>9 DEF DecidesFirst
  <2> QED BY <2>1, <2>2, <2>3
<1> QED BY <1>1, <1>7, <1>8

LEMMA StartRunKeepsFirst ==
    ASSUME LoopInv, NEW m \in Macros, StartRun(m), NEW n \in Macros, NEW i \in Nat, First(n, i)
    PROVE  First(n, i)'
<1>1. /\ LoopInv' /\ ready # <<>> /\ ready[1] = NewTask(m)
      /\ \/ IsAfter(ready', ready, 1, 0)
         \/ /\ Len(ready') = Len(ready) /\ ready'[1] = Wake(m, 0)
            /\ \A p \in DOMAIN ready : p > 1 => ready'[p] = ready[p]
  BY StartRunKeeps
<1>2. /\ ready \in Seq(Entries) /\ ready' \in Seq(Entries) /\ Len(ready) \in Nat
      /\ DOMAIN ready = 1 .. Len(ready) /\ 1 <= Len(ready)
      /\ \A p \in DOMAIN ready : p <= 1 => p = 1
  BY <1>1 DEF LoopInv, LoopTypeOK
<1>3. \A p \in DOMAIN ready : p <= 1 => ready[p].new
  BY <1>1, <1>2, EntriesAre
<1>4. CASE IsAfter(ready', ready, 1, 0)
  <2>1. \A q \in DOMAIN ready' : ~(q > Len(ready) - 1)
    BY <1>2, <1>4 DEF IsAfter
  <2>2. LoopTypeOK' /\ 1 \in {0, 1} /\ 0 \in Nat
    BY <1>1 DEF LoopInv
  <2> HIDE MacroTasksAssumption
  <2> QED BY <1>2, <1>3, <1>4, <2>1, <2>2, FirstStays
<1>5. CASE /\ Len(ready') = Len(ready) /\ ready'[1] = Wake(m, 0)
           /\ \A p \in DOMAIN ready : p > 1 => ready'[p] = ready[p]
  <2>1. PICK p \in DOMAIN ready :
          /\ ready[p].task = n /\ ~ready[p].new
          /\ \A q \in DOMAIN ready : ready[q].task = i => Sooner(p, q)
    BY DEF First
  <2>2. p > 1 /\ ready'[p] = ready[p] /\ p \in DOMAIN ready'
    BY <1>2, <1>3, <1>5, <2>1
  <2>3. ready'[1].task \in Macros
    BY <1>5, EntriesAre
  <2>4. \A q \in DOMAIN ready' : ready'[q].task = i =>
           q \in DOMAIN ready /\ ready'[q] = ready[q]
    BY <1>2, <1>5, <2>3
  <2> QED BY <2>1, <2>2, <2>4 DEF First, Sooner
<1> QED BY <1>1, <1>4, <1>5

LEMMA ResetKeepsFirst ==
    ASSUME LoopInv, Resets, NEW n \in Macros, NEW i \in Nat, i # 0, First(n, i),
           pc'[n] # "cancelled"
    PROVE  First(n, i)'
<1>1. /\ ready \in Seq(Entries) /\ Len(ready) \in Nat /\ DOMAIN ready = 1 .. Len(ready)
      /\ ready' \in Seq(Entries) /\ Len(ready') \in Nat /\ DOMAIN ready' = 1 .. Len(ready')
      /\ Len(ready') >= Len(ready)
  BY DEF Resets, LoopInv, LoopTypeOK
<1>2. PICK p \in DOMAIN ready :
        /\ ready[p].task = n /\ ~ready[p].new
        /\ \A q \in DOMAIN ready : ready[q].task = i => Sooner(p, q)
  BY DEF First
<1>3. ready'[p] = ready[p] /\ p \in DOMAIN ready'
  BY <1>1, <1>2 DEF Resets
<1>4. ASSUME NEW q \in DOMAIN ready', ready'[q].task = i
      PROVE  q \in DOMAIN ready /\ ready'[q] = ready[q]
  <2>1. ~(q > Len(ready))
    BY <1>4 DEF Resets
  <2>2. q \in DOMAIN ready
    BY <1>1, <2>1
  <2> QED BY <1>4, <2>2, EntriesAre DEF Resets
<1> QED BY <1>2, <1>3, <1>4 DEF First, Sooner

LEMMA StepDecidesFirst ==
    ASSUME LoopInv, DecidesFirst, [MacroNext]_taskVars
    PROVE  DecidesFirst'
<1>0. LoopInv' /\ LoopTypeOK /\ LoopTypeOK'
  BY LoopStepKeeps DEF LoopInv
<1>1. /\ ready \in Seq(Entries) /\ Len(ready) \in Nat
      /\ pc \in [Macros -> Places]
      /\ \A n \in Macros : \A i \in decidedBy[n] : i \in Nat /\ i # 0 /\ i \in DOMAIN read /\ i \notin Macros
  <2>1. \A n \in Macros : \A i \in decidedBy[n] : i \in DOMAIN read
    BY DEF DecidesFirst
  <2> QED BY <2>1 DEF LoopInv, LoopTypeOK
<1>2. CASE Read
  <2>1. /\ IsAfter(ready', ready, 0, 1) /\ ready'[Len(ready) + 1] = Wake(Len(read) + 1, 0)
        /\ \A i \in DOMAIN read : i \in DOMAIN read' /\ i # Len(read) + 1
    BY <1>2, ReadKeeps
  <2>2. \A q \in DOMAIN ready' : q > Len(ready) - 0 => q = Len(ready) + 1
    BY <1>1, <2>1 DEF IsAfter
  <2>3. ASSUME NEW n \in Macros, NEW i \in decidedBy[n], First(n, i) PROVE First(n, i)'
    <3>1. Len(read) + 1 \in Nat
      BY <1>0 DEF LoopTypeOK
    <3>2. \A q \in DOMAIN ready' : q > Len(ready) - 0 => ready'[q].task # i
      BY <1>1, <2>1, <2>2, <3>1, EntriesAre
    <3>3. \A p \in DOMAIN ready : ~(p <= 0)
      BY <1>1
    <3>4. 0 \in {0, 1} /\ 1 \in Nat /\ 0 <= Len(ready)
      BY <1>1
    <3> HIDE MacroTasksAssumption
    <3> QED BY <1>0, <2>1, <2>3, <3>2, <3>3, <3>4, FirstStays
  <2>4. UNCHANGED <<kind, decidedBy, pc>> /\ DOMAIN read \subseteq DOMAIN read'
    BY <1>2, <2>1 DEF Read, macroVars
  <2> QED BY <2>3, <2>4, DecidedStays
<1>3. CASE Hop
  <2>1. \A n \in Macros : \A i \in decidedBy[n] : First(n, i) => First(n, i)'
    BY <1>1, <1>3, FirstHops
  <2>2. UNCHANGED <<kind, decidedBy, pc, read>>
    BY <1>3 DEF Hop, inputVars, macroVars
  <2> QED BY <2>1, <2>2, DecidedStays
<1>4. CASE Skip
  <2>1. UNCHANGED <<kind, decidedBy, pc, read>>
    BY <1>4 DEF Skip, inputVars, macroVars
  <2>2. IsAfter(ready', ready, 1, 0) /\ ready # <<>> /\ Head(ready) = Nothing
    BY <1>4, SkipKeeps DEF Skip, inputVars, eventVars, macroVars
  <2>3. \A q \in DOMAIN ready' : ~(q > Len(ready) - 1)
    BY <1>1, <2>2 DEF IsAfter
  <2>4. 1 <= Len(ready) /\ \A p \in DOMAIN ready : p <= 1 => ready[p].task = 0
    <3>1. 1 <= Len(ready) /\ Head(ready) = ready[1] /\ \A p \in DOMAIN ready : p <= 1 => p = 1
      BY <1>1, <2>2
    <3> QED BY <2>2, <3>1, EntriesAre
  <2>5. ASSUME NEW n \in Macros, NEW i \in decidedBy[n], First(n, i) PROVE First(n, i)'
    <3>1. \A p \in DOMAIN ready : p <= 1 => ready[p].task # n
      BY <2>4
    <3>2. 1 \in {0, 1} /\ 0 \in Nat
      OBVIOUS
    <3> HIDE MacroTasksAssumption
    <3> QED BY <1>0, <2>2, <2>3, <2>4, <2>5, <3>1, <3>2, FirstStays
  <2> QED BY <2>1, <2>5, DecidedStays
<1>5. ASSUME NEW i \in DOMAIN read, CallListener(i) PROVE DecidesFirst'
  BY <1>5, CallDecidesFirst
<1>6. ASSUME NEW i \in DOMAIN read, HandToHandlers(i) PROVE DecidesFirst'
  <2>1. /\ \A m \in Macros :
              \/ pc'[m] = pc[m]
              \/ pc[m] = "deciding" /\ pc'[m] = "waking"
              \/ pc'[m] \in {"tap_down", "released"}
        /\ Len(ready') >= Len(ready) - 1 /\ IsAfter(ready', ready, 1, Len(ready') - Len(ready) + 1)
        /\ \A p \in DOMAIN ready' : p > Len(ready) - 1 => ready'[p].task \in Macros
    BY <1>6, HandToHandlersKeeps
  <2>2. EventTurn(i) /\ UNCHANGED <<kind, decidedBy, read>>
    BY <1>6 DEF HandToHandlers, inputVars
  <2>3. Len(ready') - Len(ready) + 1 \in Nat
    BY <1>0, <1>1, <2>1 DEF LoopTypeOK
  <2>4. ASSUME NEW n \in Macros, NEW j \in decidedBy[n], First(n, j) PROVE First(n, j)'
    <3>1. j \in Nat
      BY <1>1
    <3> HIDE MacroTasksAssumption
    <3> QED BY <1>0, <2>1, <2>2, <2>3, <2>4, <3>1, EventKeepsFirst
  <2> QED BY <2>1, <2>2, <2>4, DecidedStays
<1>7. ASSUME NEW m \in Macros, Quiet(m) PROVE DecidesFirst'
  <2>1. Moves(m) /\ ~Listening(m)' /\ decidedBy' = decidedBy
    BY <1>0, <1>7, QuietMoves
  <2>2. pc'[m] \notin {"deciding", "waking"}
    BY <2>1 DEF Listening, Attentive
  <2> QED BY <1>0, <2>1, <2>2, MovesDecideFirst
<1>8. ASSUME NEW m \in Macros, IfSingleDecides(m) \/ ModTapDecides(m) \/ StopListening(m)
      PROVE  DecidesFirst'
  <2>1. Moves(m)
    BY <1>0, <1>8, ListenersMove
  <2>2. decidedBy' = decidedBy /\ pc'[m] \notin {"deciding", "waking"}
    BY <1>1, <1>8 DEF IfSingleDecides, TapKey, ModTapDecides, StopListening, Goto
  <2> QED BY <1>0, <2>1, <2>2, MovesDecideFirst
<1>9. ASSUME NEW m \in Macros, StartListening(m) PROVE DecidesFirst'
  <2>1. Moves(m)
    BY <1>0, <1>9, ListenersMove
  <2>2. /\ decidedBy' = [decidedBy EXCEPT ![m] = {}] /\ read' = read /\ kind' = kind
        /\ \A n \in Macros : n # m => pc'[n] = pc[n]
    BY <1>1, <1>9, <2>1 DEF StartListening, Moves
  <2>3. decidedBy' \in [Macros -> SUBSET (DOMAIN read)]
        /\ \A n \in Macros : decidedBy'[n] = IF n = m THEN {} ELSE decidedBy[n]
    BY <2>2 DEF DecidesFirst
  <2>4. ASSUME NEW n \in Macros, NEW i \in decidedBy'[n]
        PROVE  /\ kind[n] = "if_single" /\ pc'[n] # "deciding"
               /\ pc'[n] = "waking" => First(n, i)'
    <3>1. n # m /\ i \in decidedBy[n] /\ i \in Nat
      BY <1>1, <2>3, <2>4
    <3>2. First(n, i) => First(n, i)'
      BY <1>0, <2>1, <3>1, MovesKeepFirst
    <3> QED BY <2>2, <3>1, <3>2 DEF DecidesFirst
  <2> QED BY <2>2, <2>3, <2>4 DEF DecidesFirst
<1>10. ASSUME NEW m \in Macros, LetGo(m) PROVE DecidesFirst'
  <2>1. PICK i \in DOMAIN read : /\ IsAfter(ready', ready, Taken, 1)
                                 /\ ready'[Len(ready) - Taken + 1] = Wake(i, 5)
    BY <1>10, LetGoKeeps
  <2>2. UNCHANGED <<kind, decidedBy, read, pc>> /\ pc[m] = "draining" /\ MacroTurn(m)
        /\ kind[m] = "mod_tap"
    BY <1>10 DEF LetGo, inputVars
  <2>3. /\ Taken \in {0, 1} /\ Taken <= Len(ready)
        /\ ready # <<>> => Taken = 1 /\ Head(ready) = ready[1]
    BY <1>1, RestIs
  <2>4. \A p \in DOMAIN ready : p <= Taken => ready[p].task = m
    <3> SUFFICES ASSUME NEW p \in DOMAIN ready, p <= Taken PROVE ready[p].task = m
      OBVIOUS
    <3>1. ready # <<>> /\ p = 1
      BY <1>1, <2>3
    <3> QED BY <2>2, <2>3, <3>1, EntriesAre DEF MacroTurn
  <2>5. \A q \in DOMAIN ready' : q > Len(ready) - Taken => q = Len(ready) - Taken + 1
    BY <1>1, <2>1, <2>3 DEF IsAfter
  <2>6. i \in Nat
    BY <1>0 DEF LoopTypeOK
  <2>7. \A q \in DOMAIN ready' : q > Len(ready) - Taken => ready'[q].hops = 5
    BY <2>1, <2>5, <2>6, EntriesAre
  <2>8. ASSUME NEW n \in Macros, kind[n] = "if_single", NEW j \in decidedBy[n], First(n, j)
        PROVE  First(n, j)'
    <3>1. n # m
      BY <2>2, <2>8
    <3>2. \A p \in DOMAIN ready : p <= Taken => ready[p].task # n
      BY <2>4, <3>1
    <3>3. 1 \in Nat
      OBVIOUS
    <3> HIDE MacroTasksAssumption
    <3> QED BY <1>0, <2>1, <2>3, <2>7, <2>8, <3>2, <3>3, FirstStays
  <2> QED BY <2>2, <2>8, DecidedStays
<1>11. ASSUME NEW m \in Macros, StartRun(m) PROVE DecidesFirst'
  <2>1. \A n \in Macros : \A i \in decidedBy[n] : First(n, i) => First(n, i)'
    BY <1>1, <1>11, StartRunKeepsFirst
  <2>2. UNCHANGED <<kind, decidedBy, read>>
        /\ \A n \in Macros : pc'[n] = pc[n] \/ pc'[n] = "starting"
    BY <1>1, <1>11, StartRunKeeps
  <2> QED BY <2>1, <2>2, DecidedStays
<1>12. ASSUME NEW m \in Macros, TermEnds(m) PROVE DecidesFirst'
  <2>1. /\ \/ pc[m] = "deciding" /\ pc' = [pc EXCEPT ![m] = "waking"]
           \/ pc[m] \in {"tap_up", "tap_down"} /\ pc' = [pc EXCEPT ![m] = "timed_out"]
        /\ IsAfter(ready', ready, 0, 1)
        /\ \E h \in {0, 1} : ready'[Len(ready) + 1] = Wake(m, h)
    BY <1>12, TermEndsKeeps
  <2>2. UNCHANGED <<kind, decidedBy, read>>
    BY <1>12 DEF TermEnds, inputVars
  <2>3. /\ pc[m] = "deciding" \/ pc'[m] \notin {"deciding", "waking"}
        /\ \A n \in Macros : n # m => pc'[n] = pc[n]
    BY <1>1, <2>1
  <2>4. \A q \in DOMAIN ready' : q > Len(ready) - 0 => q = Len(ready) + 1
    BY <1>1, <2>1 DEF IsAfter
  <2>5. \A q \in DOMAIN ready' : q > Len(ready) - 0 => ready'[q].task = m
    BY <2>1, <2>4, EntriesAre
  <2>6. ASSUME NEW n \in Macros, NEW i \in decidedBy[n], First(n, i) PROVE First(n, i)'
    <3>1. \A q \in DOMAIN ready' : q > Len(ready) - 0 => ready'[q].task # i
      BY <1>1, <2>5
    <3>2. \A p \in DOMAIN ready : ~(p <= 0)
      BY <1>1
    <3>3. 0 \in {0, 1} /\ 1 \in Nat /\ 0 <= Len(ready)
      BY <1>1
    <3> HIDE MacroTasksAssumption
    <3> QED BY <1>0, <2>1, <2>6, <3>1, <3>2, <3>3, FirstStays
  <2> QED BY <2>2, <2>3, <2>6, DecidedStays
<1>13. CASE Reset
  <2>1. Resets
    BY <1>13, ResetIs
  <2>2. ASSUME NEW n \in Macros, kind[n] = "if_single"
        PROVE  \/ pc'[n] \notin {"deciding", "waking"}
               \/ pc[n] = "deciding"
               \/ pc'[n] = pc[n] /\ \A i \in decidedBy[n] : First(n, i) => First(n, i)'
    <3>1. pc'[n] \in {"cancelled", "released"} \/ pc[n] = "deciding" \/ pc'[n] = pc[n]
      BY <2>1 DEF Resets, ResetTo
    <3>2. CASE pc'[n] = pc[n] /\ pc'[n] # "cancelled"
      BY <1>1, <2>1, <3>2, ResetKeepsFirst
    <3> QED BY <3>1, <3>2
  <2>3. UNCHANGED <<kind, decidedBy, read>>
    BY <2>1 DEF Resets
  <2> QED BY <2>2, <2>3, DecidedStays
<1>14. CASE UNCHANGED taskVars
  BY <1>14 DEF taskVars, inputVars, macroVars, DecidesFirst, First, Sooner
<1>15. ASSUME NEW m \in Macros, RunMacro(m) PROVE DecidesFirst'
  <2>1. Quiet(m) \/ (IfSingleDecides(m) \/ ModTapDecides(m) \/ StopListening(m))
        \/ StartListening(m) \/ LetGo(m) \/ StartRun(m)
    BY <1>15 DEF RunMacro, Quiet
  <2> QED BY <2>1, <1>7, <1>8, <1>9, <1>10, <1>11
<1> QED BY <1>2, <1>3, <1>4, <1>5, <1>6, <1>12, <1>13, <1>14, <1>15 DEF MacroNext, HandleEvents

\* "Running macros have priority": no key that makes an if_single decide is handed to the
\* handlers before that macro did what it decided, whatever other macros there are, and
\* whatever is reset; the five sleeps after each listener are enough.
THEOREM MacrosHavePriority == MacroSpec => HeadStartIsEnough
<1> DEFINE Priority == \A i \in DOMAIN read, m \in Macros :
                          stage[i] # "handled" /\ stage'[i] = "handled"
                             => ~(pc[m] = "waking" /\ i \in decidedBy[m])
<1>1. MacroInit => DecidesFirst
  BY DEF MacroInit, DecidesFirst
<1>2. LoopInv /\ DecidesFirst /\ [MacroNext]_taskVars => DecidesFirst'
  BY StepDecidesFirst
<1>3. ASSUME LoopInv, DecidesFirst, [MacroNext]_taskVars, NEW i \in DOMAIN read,
             stage[i] # "handled", stage'[i] = "handled"
      PROVE  EventTurn(i)
  <2>1. stage \in Seq(Stages) /\ DOMAIN stage = DOMAIN read
    BY <1>3 DEF LoopInv, LoopTypeOK
  <2>2. CASE Read
    BY <1>3, <2>2, ReadKeeps
  <2>3. ASSUME NEW j \in DOMAIN read, CallListener(j) PROVE FALSE
    <3>1. stage' = [stage EXCEPT ![j] = "called"] \/ stage' = [stage EXCEPT ![j] = "jammed"]
      BY <2>3 DEF CallListener, CallModTap, CallIfSingle, Called
    <3> QED BY <1>3, <2>1, <3>1
  <2>4. ASSUME NEW j \in DOMAIN read, HandToHandlers(j) PROVE EventTurn(i)
    <3>1. stage' = [stage EXCEPT ![j] = "handled"] /\ EventTurn(j)
      BY <2>4 DEF HandToHandlers
    <3>2. i = j
      BY <1>3, <2>1, <3>1
    <3> QED BY <3>1, <3>2
  <2>5. ASSUME NEW m \in Macros, RunMacro(m) PROVE FALSE
    <3>1. Quiet(m) \/ (StartListening(m) \/ IfSingleDecides(m) \/ ModTapDecides(m) \/ StopListening(m))
          \/ LetGo(m) \/ StartRun(m)
      BY <2>5 DEF RunMacro, Quiet
    <3>2. CASE LetGo(m)
      <4>1. PICK j \in DOMAIN read : stage' = [stage EXCEPT ![j] = "called"]
        BY <1>3, <3>2, LetGoKeeps
      <4> QED BY <1>3, <2>1, <4>1
    <3>3. CASE StartRun(m)
      BY <1>3, <3>3, StartRunKeeps
    <3>4. CASE Moves(m)
      BY <1>3, <3>4 DEF Moves
    <3>5. LoopTypeOK
      BY <1>3 DEF LoopInv
    <3> QED BY <3>1, <3>2, <3>3, <3>4, <3>5, QuietMoves, ListenersMove
  <2>6. CASE Hop \/ Skip \/ Reset \/ UNCHANGED taskVars \/ \E m \in Macros : TermEnds(m)
    BY <1>3, <2>6 DEF Hop, Skip, Reset, TermEnds, taskVars, eventVars
  <2> QED BY <2>2, <2>3, <2>4, <2>5, <2>6, <1>3 DEF MacroNext, HandleEvents
<1>4. LoopInv /\ DecidesFirst /\ [MacroNext]_taskVars => Priority
  <2> SUFFICES ASSUME LoopInv, DecidesFirst, [MacroNext]_taskVars, NEW i \in DOMAIN read,
                      NEW m \in Macros, stage[i] # "handled", stage'[i] = "handled",
                      pc[m] = "waking", i \in decidedBy[m]
               PROVE  FALSE
    OBVIOUS
  <2>1. EventTurn(i)
    BY <1>3
  <2>2. i \in Nat /\ ready # <<>> /\ ready[1] = Wake(i, 0)
    BY <2>1, EventsTurn
  <2>3. First(m, i)
    BY DEF DecidesFirst
  <2> QED BY <2>2, <2>3, FirstIsBefore
<1>5. MacroSpec => []DecidesFirst
  BY <1>1, <1>2, LoopIsRight, PTL DEF MacroSpec
<1>6. Priority => [Priority]_taskVars
  OBVIOUS
<1>7. MacroSpec => [][Priority]_taskVars
  <2> HIDE DEF Priority
  <2> QED BY <1>4, <1>5, LoopIsRight, PTL DEF MacroSpec
<1> QED BY <1>7, PTL DEF HeadStartIsEnough

-----------------------------------------------------------------------------
(* The order of the events.                                                *)

\* Events have their first turn in the order in which they were read.
NewAreLast ==
    /\ \A i, j \in DOMAIN read : i < j /\ stage[i] = "new" => stage[j] = "new"
    /\ \A p, q \in DOMAIN ready :
          /\ ready[p].task \in DOMAIN read /\ ready[q].task \in DOMAIN read
          /\ ready[p].task < ready[q].task /\ stage[ready[p].task] = "new"
          => p < q

LEMMA OldestFirst ==
    ASSUME LoopInv, NewAreLast, NEW i \in DOMAIN read, EventTurn(i),
           NEW j \in DOMAIN read, j < i
    PROVE  stage[j] # "new"
<1> SUFFICES ASSUME stage[j] = "new" PROVE FALSE
  OBVIOUS
<1>1. ready # <<>> /\ ready[1] = Wake(i, 0) /\ i \in Nat /\ 1 \in DOMAIN ready
  BY EventsTurn
<1>2. PICK p \in DOMAIN ready : ready[p].task = j
  BY DEF LoopInv, NoneIsForgotten
<1>3. p < 1
  BY <1>1, <1>2, EntriesAre DEF NewAreLast
<1> QED BY <1>3 DEF LoopInv, LoopTypeOK

\* A step that queues no new event.
LEMMA NewStay ==
    ASSUME LoopInv, LoopTypeOK', NewAreLast, NEW d \in {0, 1}, d <= Len(ready), NEW k \in Nat,
           NEW s, s = ready', IsAfter(s, ready, d, k), read' = read,
           \A i \in DOMAIN read : stage'[i] = "new" => stage[i] = "new",
           \A i, j \in DOMAIN read : i < j /\ stage'[i] = "new" => stage'[j] = "new",
           \A q \in DOMAIN s : q > Len(ready) - d /\ s[q].task \in DOMAIN read =>
              stage'[s[q].task] # "new"
    PROVE  NewAreLast'
<1>1. /\ ready \in Seq(Entries) /\ DOMAIN ready = 1 .. Len(ready) /\ Len(ready) \in Nat
      /\ s \in Seq(Entries) /\ DOMAIN s = 1 .. Len(ready) - d + k
      /\ \A p \in 1 .. Len(ready) - d : s[p] = ready[p + d]
  BY DEF LoopInv, LoopTypeOK, IsAfter
<1>2. ASSUME NEW p \in DOMAIN s, NEW q \in DOMAIN s, s[p].task \in DOMAIN read,
             s[q].task \in DOMAIN read, s[p].task < s[q].task, stage'[s[p].task] = "new"
      PROVE  p < q
  <2>1. ~(p > Len(ready) - d)
    BY <1>2
  <2>2. p + d \in DOMAIN ready /\ s[p] = ready[p + d]
    <3>1. p \in 1 .. Len(ready) - d
      BY <1>1, <2>1
    <3> QED BY <1>1, <3>1
  <2>3. CASE q > Len(ready) - d
    BY <1>1, <2>1, <2>3
  <2>4. CASE ~(q > Len(ready) - d)
    <3>1. q + d \in DOMAIN ready /\ s[q] = ready[q + d]
      BY <1>1, <2>4
    <3>2. p + d < q + d
      BY <1>2, <2>2, <3>1 DEF NewAreLast
    <3> QED BY <1>1, <3>2
  <2> QED BY <2>3, <2>4
<1> QED BY <1>2 DEF NewAreLast

\* A step that leaves the events where they are.
LEMMA NewStayInPlace ==
    ASSUME NewAreLast, UNCHANGED <<read, stage>>,
           NEW s, s = ready',
           \A p \in DOMAIN s : s[p].task \in DOMAIN read => p \in DOMAIN ready /\ s[p] = ready[p]
    PROVE  NewAreLast'
<1>1. ASSUME NEW p \in DOMAIN s, NEW q \in DOMAIN s, s[p].task \in DOMAIN read,
             s[q].task \in DOMAIN read, s[p].task < s[q].task, stage[s[p].task] = "new"
      PROVE  p < q
  BY <1>1 DEF NewAreLast
<1> QED BY <1>1 DEF NewAreLast

\* The turn of an event.
LEMMA NewStayInTurns ==
    ASSUME LoopInv, LoopInv', NewAreLast, NEW i \in DOMAIN read, EventTurn(i),
           NEW how \in {"called", "jammed", "handled"}, stage' = [stage EXCEPT ![i] = how],
           read' = read, NEW k \in Nat, IsAfter(ready', ready, 1, k),
           \A q \in DOMAIN ready' : q > Len(ready) - 1 =>
              ready'[q].task \in Macros \/ ready'[q].task = i
    PROVE  NewAreLast'
<1>1. /\ i \in DOMAIN stage /\ DOMAIN stage = DOMAIN read /\ Len(ready) - 1 \in Nat /\ i \in Nat
      /\ ready \in Seq(Entries)
  BY EventsTurn
<1>2. stage'[i] = how /\ how # "new" /\ \A j \in DOMAIN read : j # i => stage'[j] = stage[j]
  BY <1>1
<1>3. \A j \in DOMAIN read : j < i => stage[j] # "new"
  BY OldestFirst
<1>4. \A h, j \in DOMAIN read : h < j /\ stage'[h] = "new" => stage'[j] = "new"
  BY <1>2, <1>3 DEF NewAreLast
<1>5. \A q \in DOMAIN ready' : q > Len(ready) - 1 /\ ready'[q].task \in DOMAIN read =>
         stage'[ready'[q].task] # "new"
  <2>1. DOMAIN read \cap Macros = {}
    BY DEF LoopInv, LoopTypeOK
  <2> QED BY <1>2, <2>1
<1>6. \A j \in DOMAIN read : stage'[j] = "new" => stage[j] = "new"
  BY <1>2
<1>7. 1 \in {0, 1} /\ 1 <= Len(ready) /\ LoopTypeOK'
  BY <1>1 DEF LoopInv
<1> HIDE MacroTasksAssumption
<1> QED BY <1>4, <1>5, <1>6, <1>7, NewStay

\* Other turns, and timers.
LEMMA NewStayElsewhere ==
    ASSUME LoopInv, LoopInv', NewAreLast, NEW d \in {0, 1}, d <= Len(ready), NEW k \in Nat,
           IsAfter(ready', ready, d, k), UNCHANGED <<read, stage>>,
           \A q \in DOMAIN ready' : q > Len(ready) - d => ready'[q].task \in Macros
    PROVE  NewAreLast'
<1>1. DOMAIN read \cap Macros = {} /\ LoopTypeOK'
  BY DEF LoopInv, LoopTypeOK
<1>2. \A q \in DOMAIN ready' : q > Len(ready) - d => ready'[q].task \notin DOMAIN read
  BY <1>1
<1>3. \A i, j \in DOMAIN read : i < j /\ stage'[i] = "new" => stage'[j] = "new"
  BY DEF NewAreLast
<1> HIDE MacroTasksAssumption
<1> QED BY <1>1, <1>2, <1>3, NewStay

LEMMA StepNewAreLast ==
    ASSUME LoopInv, NewAreLast, [MacroNext]_taskVars
    PROVE  NewAreLast'
<1>0. LoopInv' /\ LoopTypeOK /\ LoopTypeOK'
  BY LoopStepKeeps DEF LoopInv
<1>1. /\ ready \in Seq(Entries) /\ Len(ready) \in Nat /\ DOMAIN ready = 1 .. Len(ready)
      /\ DOMAIN stage = DOMAIN read /\ stage \in Seq(Stages) /\ DOMAIN read \cap Macros = {}
      /\ Len(read) \in Nat /\ DOMAIN read = 1 .. Len(read)
      /\ 0 \notin DOMAIN read
  BY <1>0 DEF LoopTypeOK
<1>2. CASE Read
  <2> DEFINE s == ready'
             n == Len(read) + 1
  <2>1. /\ IsAfter(s, ready, 0, 1) /\ s[Len(ready) + 1] = Wake(n, 0)
        /\ \A i \in DOMAIN read : i # n /\ stage'[i] = stage[i]
        /\ stage'[n] = "new" /\ DOMAIN read' = 1 .. n
    BY <1>2, ReadKeeps
  <2>2. /\ DOMAIN s = 1 .. Len(ready) + 1 /\ \A p \in 1 .. Len(ready) : s[p] = ready[p]
    BY <1>1, <2>1 DEF IsAfter
  <2>3. s[Len(ready) + 1].task = n /\ n \in Nat
    BY <1>1, <2>1, EntriesAre
  <2> HIDE DEF s
  <2>4. \A i \in DOMAIN read' : i = n \/ (i \in DOMAIN read /\ i < n)
    BY <1>1, <2>1
  <2>5. ASSUME NEW i \in DOMAIN read', NEW j \in DOMAIN read', i < j, stage'[i] = "new"
        PROVE  stage'[j] = "new"
    BY <1>1, <2>1, <2>4, <2>5 DEF NewAreLast
  <2>6. ASSUME NEW p \in DOMAIN s, NEW q \in DOMAIN s, s[p].task \in DOMAIN read',
               s[q].task \in DOMAIN read', s[p].task < s[q].task, stage'[s[p].task] = "new"
        PROVE  p < q
    <3>1. p # Len(ready) + 1
      BY <1>1, <2>1, <2>3, <2>4, <2>6
    <3>2. p \in DOMAIN ready /\ s[p] = ready[p]
      BY <1>1, <2>2, <3>1
    <3>3. ready[p].task \in DOMAIN read
      BY <1>1, <2>4, <2>6, <3>2
    <3>4. CASE q = Len(ready) + 1
      BY <1>1, <3>2, <3>4
    <3>5. CASE q # Len(ready) + 1
      <4>1. q \in DOMAIN ready /\ s[q] = ready[q]
        BY <1>1, <2>2, <3>5
      <4>2. ASSUME ready[q].task = n PROVE FALSE
        <5>1. Can(ready[q])
          BY <4>1 DEF LoopInv, AllCan
        <5>2. n \notin DOMAIN read /\ n \notin Macros /\ n # 0
          BY <1>1, <2>1, <2>3
        <5> QED BY <4>2, <5>1, <5>2, EntriesAre DEF Can, EventCan
      <4>3. ready[q].task \in DOMAIN read
        BY <2>4, <2>6, <4>1, <4>2
      <4> QED BY <2>1, <2>6, <3>2, <3>3, <4>1, <4>3 DEF NewAreLast
    <3> QED BY <3>4, <3>5
  <2> QED BY <2>5, <2>6 DEF NewAreLast, s
<1>3. CASE Hop
  <2>1. /\ IsAfter(ready', ready, 1, 1) /\ ready # <<>> /\ ready[1].hops > 0
        /\ ready'[Len(ready)] = [ready[1] EXCEPT !.hops = ready[1].hops - 1]
    BY <1>3, HopKeeps
  <2>2. UNCHANGED <<read, stage>>
    BY <1>3 DEF Hop, inputVars, eventVars
  <2>3. \A q \in DOMAIN ready' : q > Len(ready) - 1 => q = Len(ready)
    BY <1>1, <2>1 DEF IsAfter
  <2>4. 1 \in DOMAIN ready /\ ready[1] \in Entries /\ Can(ready[1]) /\ 1 <= Len(ready)
    BY <1>1, <2>1 DEF LoopInv, AllCan
  <2>5. [ready[1] EXCEPT !.hops = ready[1].hops - 1].task = ready[1].task
    BY <2>4 DEF Entries
  <2>6. ready[1].task \in DOMAIN read => stage[ready[1].task] # "new"
    BY <1>1, <2>1, <2>4, EntriesAre DEF Can, EventCan
  <2>7. \A q \in DOMAIN ready' : q > Len(ready) - 1 /\ ready'[q].task \in DOMAIN read =>
           stage'[ready'[q].task] # "new"
    BY <2>1, <2>2, <2>3, <2>5, <2>6
  <2>8. \A i, j \in DOMAIN read : i < j /\ stage'[i] = "new" => stage'[j] = "new"
    BY <2>2 DEF NewAreLast
  <2>9. 1 \in {0, 1} /\ 1 \in Nat
    OBVIOUS
  <2> HIDE MacroTasksAssumption
  <2> QED BY <1>0, <2>1, <2>2, <2>4, <2>7, <2>8, <2>9, NewStay
<1>4. CASE Skip
  <2>1. IsAfter(ready', ready, 1, 0) /\ UNCHANGED <<read, stage>> /\ 1 <= Len(ready)
    BY <1>1, <1>4, SkipKeeps DEF Skip, inputVars, eventVars, macroVars
  <2>2. \A q \in DOMAIN ready' : ~(q > Len(ready) - 1)
    BY <1>1, <2>1 DEF IsAfter
  <2>3. 1 \in {0, 1} /\ 0 \in Nat
    OBVIOUS
  <2> HIDE MacroTasksAssumption
  <2> QED BY <1>0, <2>1, <2>2, <2>3, NewStayElsewhere
<1>5. ASSUME NEW i \in DOMAIN read, CallListener(i) PROVE NewAreLast'
  <2>1. EventTurn(i) /\ read' = read
        /\ UNCHANGED <<inputVars, listeners, run, holds, keysDown, count, known>>
    BY <1>5 DEF CallListener, inputVars
  <2>2. PICK l \in ToCall(i) : CallModTap(i, l) \/ CallIfSingle(i, l)
    BY <1>5 DEF CallListener
  <2>3. i \in Nat /\ 1 <= Len(ready) /\ Wake(i, 4).task = i
    <3>1. i \in Nat /\ Len(ready) - 1 \in Nat
      BY <2>1, EventsTurn
    <3> QED BY <1>1, <3>1, EntriesAre
  <2>4. ASSUME NEW how \in {"called", "jammed"}, stage' = [stage EXCEPT ![i] = how],
               NEW k \in {0, 1, 2}, IsAfter(ready', ready, 1, k),
               k = 1 => ready'[Len(ready)] = Wake(i, 4),
               k = 2 => ready'[Len(ready)].task \in Macros /\ ready'[Len(ready) + 1] = Wake(i, 4)
        PROVE  NewAreLast'
    <3>1. \A q \in DOMAIN ready' : q > Len(ready) - 1 =>
             (k = 1 /\ q = Len(ready)) \/ (k = 2 /\ (q = Len(ready) \/ q = Len(ready) + 1))
      BY <1>1, <2>3, <2>4 DEF IsAfter
    <3>2. \A q \in DOMAIN ready' : q > Len(ready) - 1 =>
             ready'[q].task \in Macros \/ ready'[q].task = i
      BY <2>3, <2>4, <3>1
    <3>3. k \in Nat /\ how \in {"called", "jammed", "handled"}
      OBVIOUS
    <3> HIDE MacroTasksAssumption
    <3> QED BY <1>0, <2>1, <2>4, <3>2, <3>3, NewStayInTurns
  <2>5. CASE CallModTap(i, l)
    <3>1. \/ /\ stage' = [stage EXCEPT ![i] = "called"]
             /\ IsAfter(ready', ready, 1, 1) /\ ready'[Len(ready)] = Wake(i, 4)
          \/ stage' = [stage EXCEPT ![i] = "jammed"] /\ IsAfter(ready', ready, 1, 0)
      BY <2>1, <2>5, CallModTapKeeps
    <3>2. 0 \in {0, 1, 2} /\ 1 \in {0, 1, 2} /\ 0 # 1 /\ 0 # 2 /\ 1 # 2
      OBVIOUS
    <3> QED BY <2>4, <3>1, <3>2
  <2>6. CASE CallIfSingle(i, l)
    <3>1. \/ /\ IsAfter(ready', ready, 1, 2) /\ l.macro \in Macros
             /\ ready'[Len(ready)] = Wake(l.macro, 2) /\ ready'[Len(ready) + 1] = Wake(i, 4)
          \/ IsAfter(ready', ready, 1, 1) /\ ready'[Len(ready)] = Wake(i, 4)
      BY <2>1, <2>6, CallIfSingleKeeps
    <3>2. stage' = [stage EXCEPT ![i] = "called"]
      BY <2>6 DEF CallIfSingle, Called
    <3>3. 2 \in {0, 1, 2} /\ 1 \in {0, 1, 2} /\ 1 # 2
          /\ \A n \in Macros : Wake(n, 2).task = n
      BY EntriesAre
    <3> QED BY <2>4, <3>1, <3>2, <3>3
  <2> QED BY <2>2, <2>5, <2>6
<1>6. ASSUME NEW i \in DOMAIN read, HandToHandlers(i) PROVE NewAreLast'
  <2>1. /\ stage' = [stage EXCEPT ![i] = "handled"]
        /\ Len(ready') >= Len(ready) - 1 /\ IsAfter(ready', ready, 1, Len(ready') - Len(ready) + 1)
        /\ \A p \in DOMAIN ready' : p > Len(ready) - 1 => ready'[p].task \in Macros
    BY <1>6, HandToHandlersKeeps
  <2>2. EventTurn(i) /\ read' = read
    BY <1>6 DEF HandToHandlers, inputVars
  <2>3. Len(ready') - Len(ready) + 1 \in Nat
    BY <1>0, <1>1, <2>1 DEF LoopTypeOK
  <2>4. "handled" \in {"called", "jammed", "handled"}
    OBVIOUS
  <2> HIDE MacroTasksAssumption
  <2> QED BY <1>0, <2>1, <2>2, <2>3, <2>4, NewStayInTurns
<1>7. ASSUME NEW m \in Macros, Moves(m) PROVE NewAreLast'
  <2>1. /\ Taken \in {0, 1} /\ Taken <= Len(ready)
        /\ \A q \in DOMAIN ready' : q > Len(ready) - Taken => ready'[q].task = m
    BY <1>7, MovesQueue
  <2>2. PICK k \in {0, 1} : IsAfter(ready', ready, Taken, k)
    BY <1>7, MovesQueue
  <2>3. UNCHANGED <<read, stage>> /\ k \in Nat
    BY <1>7 DEF Moves
  <2> HIDE MacroTasksAssumption
  <2> QED BY <1>0, <2>1, <2>2, <2>3, NewStayElsewhere
<1>8. ASSUME NEW m \in Macros, LetGo(m) PROVE NewAreLast'
  <2>1. PICK i \in DOMAIN read :
           /\ stage[i] = "jammed" /\ stage' = [stage EXCEPT ![i] = "called"]
           /\ IsAfter(ready', ready, Taken, 1) /\ ready'[Len(ready) - Taken + 1] = Wake(i, 5)
    BY <1>8, LetGoKeeps
  <2>2. Taken \in {0, 1} /\ Taken <= Len(ready) /\ read' = read
    BY <1>1, <1>8, RestIs DEF LetGo, inputVars
  <2>3. stage'[i] = "called" /\ \A j \in DOMAIN read : j # i => stage'[j] = stage[j]
    BY <1>1, <2>1
  <2>4. \A q \in DOMAIN ready' : q > Len(ready) - Taken => ready'[q].task = i
    <3>1. \A q \in DOMAIN ready' : q > Len(ready) - Taken => q = Len(ready) - Taken + 1
      BY <1>1, <2>1, <2>2 DEF IsAfter
    <3>2. i \in Nat
      BY <1>1
    <3> QED BY <2>1, <3>1, <3>2, EntriesAre
  <2>5. \A j, h \in DOMAIN read : j < h /\ stage'[j] = "new" => stage'[h] = "new"
    BY <2>1, <2>3 DEF NewAreLast
  <2>6. \A j \in DOMAIN read : stage'[j] = "new" => stage[j] = "new"
    BY <2>3
  <2>7. \A q \in DOMAIN ready' : q > Len(ready) - Taken => stage'[ready'[q].task] # "new"
    BY <2>3, <2>4
  <2>8. 1 \in Nat
    OBVIOUS
  <2> HIDE MacroTasksAssumption
  <2> QED BY <1>0, <2>1, <2>2, <2>5, <2>6, <2>7, <2>8, NewStay
<1>9. ASSUME NEW m \in Macros, StartRun(m) PROVE NewAreLast'
  <2>1. /\ ready # <<>> /\ UNCHANGED <<read, stage>>
        /\ \/ IsAfter(ready', ready, 1, 0)
           \/ /\ Len(ready') = Len(ready) /\ ready'[1] = Wake(m, 0)
              /\ \A p \in DOMAIN ready : p > 1 => ready'[p] = ready[p]
    BY <1>9, StartRunKeeps
  <2>2. CASE IsAfter(ready', ready, 1, 0)
    <3>1. 1 \in {0, 1} /\ 0 \in Nat /\ 1 <= Len(ready)
      BY <1>1, <2>1
    <3>2. \A q \in DOMAIN ready' : ~(q > Len(ready) - 1)
      BY <1>1, <2>2 DEF IsAfter
    <3> HIDE MacroTasksAssumption
    <3> QED BY <1>0, <2>1, <2>2, <3>1, <3>2, NewStayElsewhere
  <2>3. CASE /\ Len(ready') = Len(ready) /\ ready'[1] = Wake(m, 0)
             /\ \A p \in DOMAIN ready : p > 1 => ready'[p] = ready[p]
    <3>1. \A p \in DOMAIN ready' : p = 1 \/ (p > 1 /\ p \in DOMAIN ready)
      BY <1>0, <1>1, <2>3 DEF LoopTypeOK
    <3>2. ready'[1].task \notin DOMAIN read
      BY <1>1, <2>3, EntriesAre
    <3> QED BY <2>1, <2>3, <3>1, <3>2, NewStayInPlace
  <2> QED BY <2>1, <2>2, <2>3
<1>10. ASSUME NEW m \in Macros, TermEnds(m) PROVE NewAreLast'
  <2>1. /\ IsAfter(ready', ready, 0, 1)
        /\ \E h \in {0, 1} : ready'[Len(ready) + 1] = Wake(m, h)
    BY <1>10, TermEndsKeeps
  <2>2. UNCHANGED <<read, stage>>
    BY <1>10 DEF TermEnds, inputVars, eventVars
  <2>3. \A q \in DOMAIN ready' : q > Len(ready) - 0 => q = Len(ready) + 1
    BY <1>1, <2>1 DEF IsAfter
  <2>4. \A q \in DOMAIN ready' : q > Len(ready) - 0 => ready'[q].task \in Macros
    BY <2>1, <2>3, EntriesAre
  <2>5. 0 \in {0, 1} /\ 1 \in Nat /\ 0 <= Len(ready)
    BY <1>1
  <2> HIDE MacroTasksAssumption
  <2> QED BY <1>0, <2>1, <2>2, <2>4, <2>5, NewStayElsewhere
<1>11. CASE Reset
  <2>1. Resets
    BY <1>11, ResetIs
  <2>2. \A p \in DOMAIN ready' : ready'[p].task \in DOMAIN read =>
           p \in DOMAIN ready /\ ready'[p] = ready[p]
    <3> SUFFICES ASSUME NEW p \in DOMAIN ready', ready'[p].task \in DOMAIN read
                 PROVE  p \in DOMAIN ready /\ ready'[p] = ready[p]
      OBVIOUS
    <3>1. ~(p > Len(ready))
      BY <1>1, <2>1 DEF Resets
    <3>2. p \in DOMAIN ready
      BY <1>0, <1>1, <3>1 DEF LoopTypeOK
    <3> QED BY <1>1, <2>1, <3>2, EntriesAre DEF Resets
  <2>3. UNCHANGED <<read, stage>>
    BY <2>1 DEF Resets
  <2> QED BY <2>2, <2>3, NewStayInPlace
<1>12. CASE UNCHANGED taskVars
  BY <1>12 DEF taskVars, inputVars, eventVars, NewAreLast
<1>13. ASSUME NEW m \in Macros, RunMacro(m) PROVE NewAreLast'
  <2>1. Quiet(m) \/ (StartListening(m) \/ IfSingleDecides(m) \/ ModTapDecides(m) \/ StopListening(m))
        \/ LetGo(m) \/ StartRun(m)
    BY <1>13 DEF RunMacro, Quiet
  <2> QED BY <1>0, <2>1, <1>7, <1>8, <1>9, QuietMoves, ListenersMove
<1> QED BY <1>2, <1>3, <1>4, <1>5, <1>6, <1>10, <1>11, <1>12, <1>13 DEF MacroNext, HandleEvents

\* No macro but m makes events wait, and no if_single is there.
OnlyModTap(m) == \A n \in Macros : kind[n] # "if_single" /\ (kind[n] = "mod_tap" => n = m)

\* The listeners that nobody will remove, and which make events wait for ever.
Dead == {l \in listeners : ~Live(l)}

\* The listeners are those of the runs of m; the run that needs one has it.
ListenersAre(m) ==
    /\ \A l \in listeners : l.macro = m /\ kind[m] = "mod_tap" /\ l.run <= run[m]
    /\ pc[m] = "starting" => \A l \in listeners : l.run < run[m]
    /\ Listening(m) => Listener(m) \in listeners

LEMMA DeadIs ==
    ASSUME NEW m \in Macros, ListenersAre(m)
    PROVE  Dead = IF Listening(m) THEN listeners \ {Listener(m)} ELSE listeners
<1>1. \A l \in listeners : Live(l) <=> l = Listener(m) /\ Listening(m)
  BY DEF ListenersAre, Live, Listening, Attentive
<1> QED BY <1>1 DEF Dead

\* A step that leaves the listeners, and the macro where it needs one or not.
LEMMA ListenersSame ==
    ASSUME NEW m \in Macros, ListenersAre(m), UNCHANGED <<kind, listeners>>, run'[m] = run[m],
           Listening(m)' <=> Listening(m), pc'[m] = "starting" => pc[m] = "starting"
    PROVE  ListenersAre(m)' /\ Dead' = Dead
<1>1. ListenersAre(m)'
  BY DEF ListenersAre, Listener
<1>2. \A l \in listeners : Live(l)' <=> Live(l)
  BY <1>1 DEF ListenersAre, Live, Listening, Attentive, Listener
<1> QED BY <1>1, <1>2 DEF Dead

\* What steps do to the listeners.
Same(m)   == Dead' = Dead /\ (Listening(m)' <=> Listening(m))
Begins(m) == StartListening(m) /\ Dead' = Dead /\ ~Listening(m) /\ jam'[m] = <<>>
Ends(m)   == StopListening(m) /\ Dead' = Dead /\ ~Listening(m)' /\ jam[m] = <<>> /\ jam' = jam
Kills(m)  == Reset /\ Listening(m) /\ ~Listening(m)' /\ Dead \subseteq Dead' /\ Dead' # {}

LEMMA StepListenersAre ==
    ASSUME LoopInv, NEW m \in Macros, OnlyModTap(m), ListenersAre(m), [MacroNext]_taskVars
    PROVE  ListenersAre(m)' /\ (Same(m) \/ Begins(m) \/ Ends(m) \/ Kills(m))
<1>1. /\ pc \in [Macros -> Places] /\ run \in [Macros -> Nat] /\ LoopTypeOK
      /\ kind \in [Macros -> Kinds] /\ listeners \in SUBSET Listeners
      /\ jam \in [Macros -> Seq(Nat)]
  BY DEF LoopInv, LoopTypeOK
<1>2. ASSUME UNCHANGED <<kind, listeners, run>>,
             pc'[m] = pc[m] \/ ((Listening(m)' <=> Listening(m)) /\ pc'[m] # "starting")
      PROVE  ListenersAre(m)' /\ Same(m)
  <2>1. Listening(m)' <=> Listening(m)
    BY <1>2 DEF Listening
  <2> QED BY <1>2, <2>1, ListenersSame DEF Same
<1>3. CASE Read
  BY <1>2, <1>3 DEF Read, macroVars
<1>4. CASE Hop \/ Skip \/ UNCHANGED taskVars
  BY <1>2, <1>4 DEF Hop, Skip, taskVars, inputVars, macroVars
<1>5. ASSUME NEW i \in DOMAIN read, CallListener(i) PROVE ListenersAre(m)' /\ Same(m)
  <2>1. PICK l \in ToCall(i) : CallModTap(i, l) \/ CallIfSingle(i, l)
    BY <1>5 DEF CallListener
  <2>2. EventTurn(i) /\ UNCHANGED <<inputVars, listeners, run, holds, keysDown, count, known>>
    BY <1>5 DEF CallListener
  <2>3. ~CallIfSingle(i, l)
    BY <2>1, <2>2, CallIfSingleKeeps DEF OnlyModTap
  <2>4. UNCHANGED <<kind, listeners, run, pc>>
    BY <2>1, <2>2, <2>3 DEF CallModTap, inputVars
  <2> QED BY <1>2, <2>4
<1>6. ASSUME NEW i \in DOMAIN read, HandToHandlers(i) PROVE ListenersAre(m)' /\ Same(m)
  <2>1. \/ pc'[m] = pc[m]
        \/ pc[m] = "deciding" /\ pc'[m] = "waking"
        \/ ~Listening(m) /\ pc'[m] \in {"tap_down", "released"}
    BY <1>6, HandToHandlersKeeps
  <2>2. UNCHANGED <<kind, listeners, run>>
    BY <1>6 DEF HandToHandlers, inputVars
  <2> QED BY <1>2, <2>1, <2>2 DEF Listening, Attentive
<1>7. ASSUME NEW n \in Macros, Quiet(n) PROVE ListenersAre(m)' /\ Same(m)
  <2>1. /\ ~Listening(n) /\ ~Listening(n)' /\ UNCHANGED <<listeners, kind, run>>
        /\ \E place \in Places : pc' = [pc EXCEPT ![n] = place]
    BY <1>1, <1>7, QuietMoves
  <2>2. n # m => pc'[m] = pc[m]
    BY <1>1, <2>1
  <2>3. n = m => pc'[m] # "starting"
    BY <1>1, <1>7 DEF Quiet, StartIfTap, StartHold, HoldMacro, Toggle, Repeat, Modify, HoldKeys,
                      IfTapDecides, TapUp, KeyUp, End, Cancelled, TapKey, Stops, Goto
  <2> QED BY <1>2, <2>1, <2>2, <2>3
<1>8. ASSUME NEW n \in Macros, IfSingleDecides(n) PROVE FALSE
  BY <1>8 DEF IfSingleDecides, OnlyModTap
<1>9. ASSUME NEW n \in Macros, ModTapDecides(n) PROVE ListenersAre(m)' /\ Same(m)
  <2>1. UNCHANGED <<kind, listeners, run>> /\ pc[n] = "waking" /\ pc' = [pc EXCEPT ![n] = "draining"]
    BY <1>9 DEF ModTapDecides, inputVars, Goto
  <2>2. pc'[m] = pc[m] \/ (pc[m] = "waking" /\ pc'[m] = "draining")
    BY <1>1, <2>1
  <2> QED BY <1>2, <2>1, <2>2 DEF Listening, Attentive
<1>10. ASSUME NEW n \in Macros, LetGo(n) PROVE ListenersAre(m)' /\ Same(m)
  BY <1>2, <1>10 DEF LetGo, inputVars
<1>11. ASSUME NEW n \in Macros, TermEnds(n) PROVE ListenersAre(m)' /\ Same(m)
  <2>1. \/ pc[n] = "deciding" /\ pc' = [pc EXCEPT ![n] = "waking"]
        \/ pc[n] \in {"tap_up", "tap_down"} /\ pc' = [pc EXCEPT ![n] = "timed_out"]
    BY <1>11, TermEndsKeeps
  <2>2. UNCHANGED <<kind, listeners, run>>
    BY <1>11 DEF TermEnds, inputVars
  <2>3. \/ pc'[m] = pc[m]
        \/ pc[m] = "deciding" /\ pc'[m] = "waking"
        \/ pc[m] \in {"tap_up", "tap_down"} /\ pc'[m] = "timed_out"
    BY <1>1, <2>1
  <2> QED BY <1>2, <2>2, <2>3 DEF Listening, Attentive
<1>12. ASSUME NEW n \in Macros, StartRun(n) PROVE ListenersAre(m)' /\ Same(m)
  <2>1. /\ UNCHANGED <<kind, listeners>>
        /\ \/ UNCHANGED <<pc, run>>
           \/ /\ pc[n] = "idle" /\ pc' = [pc EXCEPT ![n] = "starting"]
              /\ run' = [run EXCEPT ![n] = @ + 1]
    BY <1>12, StartRunKeeps
  <2>2. CASE pc'[m] = pc[m] /\ run'[m] = run[m]
    BY <2>1, <2>2, ListenersSame DEF Same, Listening
  <2>3. CASE pc[m] = "idle" /\ pc'[m] = "starting" /\ run'[m] = run[m] + 1
    <3>1. ~Listening(m) /\ ~Listening(m)'
      BY <2>3 DEF Listening, Attentive
    <3>2. \A l \in listeners : l.run \in Nat /\ l.run < run'[m] /\ l.run <= run'[m]
      BY <1>1, <2>3 DEF ListenersAre, Listeners
    <3>3. ListenersAre(m)'
      BY <2>1, <2>3, <3>1, <3>2 DEF ListenersAre
    <3>4. \A l \in listeners : l.macro = m
      BY DEF ListenersAre
    <3>5. \A l \in listeners : ~Live(l) /\ ~Live(l)'
      BY <3>1, <3>4 DEF Live, Listening, Attentive
    <3>6. Dead' = Dead
      BY <2>1, <3>5 DEF Dead
    <3> QED BY <3>1, <3>3, <3>6 DEF Same
  <2> QED BY <1>1, <2>1, <2>2, <2>3
<1>13. ASSUME NEW n \in Macros, StartListening(n) PROVE ListenersAre(m)' /\ Begins(m)
  <2>1. n = m
    BY <1>13 DEF StartListening, OnlyModTap
  <2>2. /\ pc[m] = "starting" /\ kind[m] \in {"mod_tap", "if_single"} /\ UNCHANGED <<kind, run>>
        /\ listeners' = listeners \cup {Listener(m)} /\ jam' = [jam EXCEPT ![m] = <<>>]
    BY <1>13, <2>1 DEF StartListening, inputVars
  <2>3. pc'[m] \in {"deciding", "waking"}
    BY <1>1, <1>13, <2>1 DEF StartListening, Goto
  <2>4. kind[m] = "mod_tap"
    BY <2>2 DEF OnlyModTap
  <2>5. ~Listening(m) /\ Listening(m)' /\ pc'[m] # "starting" /\ Listener(m)' = Listener(m)
    BY <2>2, <2>3 DEF Listening, Attentive, Listener
  <2>6. Listener(m).macro = m /\ Listener(m).run = run[m] /\ run[m] <= run[m]
    BY <1>1 DEF Listener
  <2>7. ListenersAre(m)'
    BY <2>2, <2>4, <2>5, <2>6 DEF ListenersAre
  <2>8. \A l \in listeners : l.macro = m /\ l # Listener(m)
    BY <1>1, <2>2, <2>6 DEF ListenersAre, Listeners
  <2>9. \A l \in listeners : ~Live(l) /\ ~Live(l)'
    BY <2>5, <2>8 DEF Live, Listening, Attentive
  <2>10. ASSUME NEW l, l = Listener(m) PROVE Live(l)'
    BY <2>5, <2>6, <2>10 DEF Live, Listening, Attentive
  <2>11. Dead' = Dead
    BY <2>2, <2>9, <2>10 DEF Dead
  <2> QED BY <1>1, <1>13, <2>1, <2>2, <2>5, <2>7, <2>11 DEF Begins
<1>14. ASSUME NEW n \in Macros, StopListening(n) PROVE ListenersAre(m)' /\ Ends(m)
  <2>1. n = m
    BY <1>14 DEF StopListening, OnlyModTap
  <2>2. /\ pc[m] = "draining" /\ UNCHANGED <<kind, run, jam>> /\ jam[m] = <<>>
        /\ listeners' = listeners \ {Listener(m)}
    BY <1>14, <2>1 DEF StopListening, inputVars
  <2>3. pc'[m] \in {"until_release", "ending"}
    BY <1>1, <1>14, <2>1 DEF StopListening, Goto
  <2>4. Listening(m) /\ ~Listening(m)' /\ pc'[m] # "starting"
    BY <2>2, <2>3 DEF Listening, Attentive
  <2>5. ListenersAre(m)'
    BY <2>2, <2>4 DEF ListenersAre
  <2>6. Dead = listeners \ {Listener(m)}
    BY <2>4, DeadIs
  <2>7. \A l \in listeners' : ~Live(l)'
    BY <2>2, <2>4 DEF ListenersAre, Live, Listening, Attentive
  <2>8. Dead' = Dead
    BY <2>2, <2>6, <2>7 DEF Dead
  <2> QED BY <1>14, <2>1, <2>2, <2>4, <2>5, <2>8 DEF Ends
<1>15. CASE Reset
  <2>1. pc'[m] \in ResetTo(m) /\ UNCHANGED <<kind, listeners, run>>
    BY <1>15, ResetIs DEF Resets
  <2>2. CASE Listening(m) /\ pc'[m] = "cancelled"
    <3>1. ~Listening(m)' /\ pc'[m] # "starting"
      BY <2>2 DEF Listening, Attentive
    <3>2. ListenersAre(m)'
      BY <2>1, <3>1 DEF ListenersAre
    <3>3. \A l \in listeners : ~Live(l)'
      BY <2>1, <3>1 DEF ListenersAre, Live, Listening, Attentive
    <3>4. Dead' = listeners /\ Dead \subseteq listeners /\ listeners # {}
      BY <2>1, <2>2, <3>3 DEF Dead, ListenersAre
    <3> QED BY <1>15, <2>2, <3>1, <3>2, <3>4 DEF Kills
  <2>3. CASE ~(Listening(m) /\ pc'[m] = "cancelled")
    BY <1>2, <2>1, <2>3 DEF ResetTo, Listening, Attentive, Until
  <2> QED BY <2>2, <2>3
<1>16. ASSUME NEW n \in Macros, RunMacro(n)
       PROVE  ListenersAre(m)' /\ (Same(m) \/ Begins(m) \/ Ends(m))
  <2>1. Quiet(n) \/ StartListening(n) \/ IfSingleDecides(n) \/ ModTapDecides(n) \/ StopListening(n)
        \/ LetGo(n) \/ StartRun(n)
    BY <1>16 DEF RunMacro, Quiet
  <2> QED BY <2>1, <1>7, <1>8, <1>9, <1>10, <1>12, <1>13, <1>14
<1> QED BY <1>3, <1>4, <1>5, <1>6, <1>11, <1>15, <1>16 DEF MacroNext, HandleEvents

\* The events that wait for m, those that a listener which nobody calls will keep, and those
\* that only wait for their turn.
Follower(m, i) == read[i].key # m
Queued(m, i)   == Listening(m) /\ \E k \in DOMAIN jam[m] : jam[m][k] = i
Lost(m, i)     == stage[i] = "jammed" /\ ~Queued(m, i)
Flying(i)      == stage[i] = "called" /\ left[i] = {}
Doomed(m, i) ==
    \/ stage[i] = "new" /\ Dead # {}
    \/ Lost(m, i)
    \/ stage[i] \in {"called", "jammed"} /\ left[i] \cap Dead # {}

JamIsSorted(m) ==
    \A k \in DOMAIN jam[m] :
        /\ Follower(m, jam[m][k])
        /\ \A h \in DOMAIN jam[m] : k < h => jam[m][k] < jam[m][h]

\* Who waited for m has the dead ones to call, and no other.
LeftAreDead(m) ==
    \A i \in DOMAIN read : Follower(m, i) =>
        /\ stage[i] = "called" => left[i] \subseteq Dead
        /\ Queued(m, i) => left[i] = Dead

\* If an event waits for ever, those after it do.
DoomSpreads(m) ==
    \A i \in DOMAIN read : Follower(m, i) /\ Doomed(m, i) =>
        /\ Dead # {}
        /\ \A j \in DOMAIN read : i < j /\ Follower(m, j) => Doomed(m, j)

NoneOvertakes(m) ==
    \A i, j \in DOMAIN read :
        /\ i < j /\ Follower(m, i) /\ Follower(m, j)
        /\ stage[j] = "handled" \/ Flying(j)
        => stage[i] = "handled"

\* The loop has nothing to do for m until all that is ready has had its turn.
Drains(m) == pc[m] = "draining" /\ \A p \in DOMAIN ready : ready[p].task = m => ready[p].new

LetGoOneByOne(m) ==
    \A i \in DOMAIN read : Follower(m, i) /\ Flying(i) => Dead # {} \/ Drains(m)

EventsInv(m) == JamIsSorted(m) /\ LeftAreDead(m) /\ DoomSpreads(m) /\ NoneOvertakes(m)

\* A step that leaves the events where they are, and who waits for m.
LEMMA CalmKeeps ==
    ASSUME NEW m \in Macros, EventsInv(m), UNCHANGED <<read, stage, left>>, Dead' = Dead,
           \A i \in DOMAIN read : Queued(m, i)' <=> Queued(m, i),
           jam'[m] = jam[m] \/ jam'[m] = <<>>
    PROVE  EventsInv(m)'
<1>1. JamIsSorted(m)'
  <2>1. DOMAIN <<>> = {}
    OBVIOUS
  <2> QED BY <2>1 DEF EventsInv, JamIsSorted, Follower
<1>2. LeftAreDead(m)'
  BY DEF EventsInv, LeftAreDead, Follower
<1>3. \A i \in DOMAIN read : Doomed(m, i)' <=> Doomed(m, i)
  BY DEF Doomed, Lost
<1>4. DoomSpreads(m)'
  BY <1>3 DEF EventsInv, DoomSpreads, Follower
<1>5. NoneOvertakes(m)'
  BY DEF EventsInv, NoneOvertakes, Follower, Flying
<1> QED BY <1>1, <1>2, <1>4, <1>5 DEF EventsInv

\* The macro is cancelled while others wait for it: those that do, or will, wait for ever.
LEMMA KillsKeeps ==
    ASSUME LoopInv, NEW m \in Macros, EventsInv(m), Kills(m), Resets
    PROVE  EventsInv(m)'
<1>1. /\ UNCHANGED <<read, stage, left, jam>> /\ ~Listening(m)' /\ Dead \subseteq Dead' /\ Dead' # {}
      /\ DOMAIN read \subseteq Nat
  BY DEF Kills, Resets, LoopInv, LoopTypeOK
<1>2. \A i \in DOMAIN read : ~Queued(m, i)'
  BY <1>1 DEF Queued
<1>3. JamIsSorted(m)'
  BY <1>1 DEF EventsInv, JamIsSorted, Follower
<1>4. LeftAreDead(m)'
  BY <1>1, <1>2 DEF EventsInv, LeftAreDead, Follower
<1>5. ASSUME NEW i \in DOMAIN read, Follower(m, i)
      PROVE  Doomed(m, i)' <=> stage[i] # "handled" /\ ~Flying(i)
  <2>1. stage[i] \in Stages
    BY DEF LoopInv, LoopTypeOK
  <2>2. stage[i] = "called" => left[i] \subseteq Dead'
    BY <1>1, <1>5 DEF EventsInv, LeftAreDead
  <2>3. CASE stage[i] = "called"
    BY <1>1, <2>2, <2>3 DEF Doomed, Lost, Flying
  <2>4. CASE stage[i] # "called"
    BY <1>1, <1>2, <2>1, <2>4 DEF Doomed, Lost, Flying, Stages
  <2> QED BY <2>3, <2>4
<1>6. DoomSpreads(m)'
  <2> SUFFICES ASSUME NEW i \in DOMAIN read, Follower(m, i), Doomed(m, i)',
                      NEW j \in DOMAIN read, i < j, Follower(m, j)
               PROVE  Doomed(m, j)'
    BY <1>1 DEF DoomSpreads, Follower
  <2>1. stage[i] # "handled"
    BY <1>5
  <2>2. ~(stage[j] = "handled" \/ Flying(j))
    BY <2>1 DEF EventsInv, NoneOvertakes
  <2> QED BY <1>5, <2>2
<1>7. NoneOvertakes(m)'
  BY <1>1 DEF EventsInv, NoneOvertakes, Follower, Flying
<1> QED BY <1>3, <1>4, <1>6, <1>7 DEF EventsInv

LEMMA ReadKeepsOrder ==
    ASSUME LoopInv, NEW m \in Macros, EventsInv(m), ListenersAre(m), Read
    PROVE  EventsInv(m)'
<1> DEFINE n == Len(read) + 1
<1>1. /\ DOMAIN read' = 1 .. n /\ DOMAIN read = 1 .. Len(read) /\ Len(read) \in Nat
      /\ stage'[n] = "new"
      /\ \A i \in DOMAIN read : /\ i \in DOMAIN read' /\ i < n /\ i # n
                                /\ read'[i] = read[i] /\ stage'[i] = stage[i]
                                /\ left'[i] = left[i]
      /\ \A i \in DOMAIN read' : i = n \/ i \in DOMAIN read
  <2>1. DOMAIN read = 1 .. Len(read) /\ Len(read) \in Nat
    BY DEF LoopInv, LoopTypeOK
  <2> QED BY <2>1, ReadKeeps
<1>2. UNCHANGED macroVars
  BY DEF Read
<1>3. Dead' = Dead /\ \A i : Queued(m, i)' <=> Queued(m, i)
  BY <1>2 DEF macroVars, Dead, Live, Listener, Queued, Listening
<1>4. \A i \in DOMAIN read : /\ Follower(m, i)' <=> Follower(m, i)
                             /\ Doomed(m, i)' <=> Doomed(m, i)
                             /\ Flying(i)' <=> Flying(i)
  BY <1>1, <1>3 DEF Follower, Doomed, Lost, Flying
<1>5. \A k \in DOMAIN jam[m] : jam[m][k] \in DOMAIN read
  BY DEF LoopInv, JamsWait
<1>6. JamIsSorted(m)'
  BY <1>2, <1>4, <1>5 DEF macroVars, EventsInv, JamIsSorted
<1>7. ~Queued(m, n)
  BY <1>1, <1>5 DEF Queued
<1>8. LeftAreDead(m)'
  BY <1>1, <1>3, <1>4, <1>7 DEF EventsInv, LeftAreDead
<1>9. ASSUME NEW j, j = n PROVE Doomed(m, j)' <=> Dead # {}
  BY <1>1, <1>3, <1>9 DEF Doomed, Lost
<1>10. DoomSpreads(m)'
  <2> SUFFICES ASSUME NEW i \in DOMAIN read', Follower(m, i)', Doomed(m, i)'
               PROVE  /\ Dead # {}
                      /\ \A j \in DOMAIN read' : i < j /\ Follower(m, j)' => Doomed(m, j)'
    BY <1>3 DEF DoomSpreads
  <2>1. CASE i = n
    <3>1. \A j \in DOMAIN read' : ~(i < j)
      BY <1>1, <2>1
    <3> QED BY <1>9, <2>1, <3>1
  <2>2. CASE i \in DOMAIN read
    <3>1. Dead # {} /\ \A j \in DOMAIN read : i < j /\ Follower(m, j) => Doomed(m, j)
      BY <1>4, <2>2 DEF EventsInv, DoomSpreads
    <3> QED BY <1>1, <1>4, <1>9, <3>1
  <2> QED BY <1>1, <2>1, <2>2
<1>11. NoneOvertakes(m)'
  <2> SUFFICES ASSUME NEW i \in DOMAIN read', NEW j \in DOMAIN read', i < j,
                      Follower(m, i)', Follower(m, j)', stage'[j] = "handled" \/ Flying(j)'
               PROVE  stage'[i] = "handled"
    BY DEF NoneOvertakes
  <2>1. j \in DOMAIN read
    BY <1>1 DEF Flying
  <2>2. i \in DOMAIN read
    BY <1>1, <2>1
  <2> QED BY <1>1, <1>4, <2>1, <2>2 DEF EventsInv, NoneOvertakes
<1> QED BY <1>6, <1>8, <1>10, <1>11 DEF EventsInv

\* A step of one event.
LEMMA OneEventKeeps ==
    ASSUME NEW m \in Macros, EventsInv(m), read' = read, Dead' = Dead, JamIsSorted(m)',
           NEW i \in DOMAIN read,
           \A j \in DOMAIN read : j # i => /\ stage'[j] = stage[j] /\ left'[j] = left[j]
                                           /\ Queued(m, j)' <=> Queued(m, j),
           Follower(m, i) =>
              /\ stage'[i] = "called" => left'[i] \subseteq Dead
              /\ Queued(m, i)' => left'[i] = Dead
              /\ Doomed(m, i)' <=> Doomed(m, i)
              /\ stage[i] # "handled"
              /\ stage'[i] = "handled" \/ Flying(i)' =>
                    \A j \in DOMAIN read : j < i /\ Follower(m, j) => stage[j] = "handled"
    PROVE  EventsInv(m)'
<1>1. \A j \in DOMAIN read : j # i => /\ Doomed(m, j)' <=> Doomed(m, j)
                                      /\ Flying(j)' <=> Flying(j)
  BY DEF Doomed, Lost, Flying
<1>2. \A j \in DOMAIN read : Follower(m, j)' <=> Follower(m, j)
  BY DEF Follower
<1>3. LeftAreDead(m)'
  <2> SUFFICES ASSUME NEW j \in DOMAIN read, Follower(m, j)
               PROVE  /\ stage'[j] = "called" => left'[j] \subseteq Dead
                      /\ Queued(m, j)' => left'[j] = Dead
    BY <1>2 DEF LeftAreDead
  <2> QED BY DEF EventsInv, LeftAreDead
<1>4. \A j \in DOMAIN read : Follower(m, j) => (Doomed(m, j)' <=> Doomed(m, j))
  BY <1>1
<1>5. DoomSpreads(m)'
  BY <1>2, <1>4 DEF EventsInv, DoomSpreads
<1>6. NoneOvertakes(m)'
  <2> SUFFICES ASSUME NEW h \in DOMAIN read, NEW j \in DOMAIN read, h < j, Follower(m, h),
                      Follower(m, j), stage'[j] = "handled" \/ Flying(j)'
               PROVE  stage'[h] = "handled"
    BY <1>2 DEF NoneOvertakes
  <2>1. stage[h] = "handled"
    <3>1. CASE j = i
      BY <3>1
    <3>2. CASE j # i
      BY <1>1, <3>2 DEF EventsInv, NoneOvertakes
    <3> QED BY <3>1, <3>2
  <2>2. h # i
    BY <2>1
  <2> QED BY <2>1, <2>2
<1> QED BY <1>3, <1>5, <1>6 DEF EventsInv

LEMMA CallKeepsOrder ==
    ASSUME LoopInv, NewAreLast, NEW m \in Macros, OnlyModTap(m), ListenersAre(m), EventsInv(m),
           NEW i \in DOMAIN read, CallListener(i), Same(m)
    PROVE  EventsInv(m)'
<1>1. EventTurn(i) /\ UNCHANGED <<inputVars, listeners, run, holds, keysDown, count, known>>
      /\ read' = read
  BY DEF CallListener, inputVars
<1>2. PICK l \in ToCall(i) : CallModTap(i, l) \/ CallIfSingle(i, l)
  BY DEF CallListener
<1>3. CallModTap(i, l)
  BY <1>1, <1>2, CallIfSingleKeeps DEF OnlyModTap
<1>4. /\ l.macro \in Macros /\ l \in Listeners
      /\ left' = [left EXCEPT ![i] = ToCall(i) \ {l}]
      /\ \/ /\ read[i].key = l.macro
            /\ stage' = [stage EXCEPT ![i] = "called"] /\ jam' = jam
         \/ /\ read[i].key # l.macro
            /\ stage' = [stage EXCEPT ![i] = "jammed"]
            /\ jam' = IF Live(l) THEN [jam EXCEPT ![l.macro] = Append(@, i)] ELSE jam
  BY <1>1, <1>2, <1>3, CallModTapKeeps
<1>5. l.macro = m
  BY <1>3, <1>4 DEF CallModTap, OnlyModTap
<1>6. /\ stage[i] \in {"new", "called"} /\ i \in DOMAIN stage /\ i \in DOMAIN left /\ i \in Nat
      /\ DOMAIN stage = DOMAIN read /\ DOMAIN left = DOMAIN read
  <2>1. DOMAIN left = DOMAIN read
    BY DEF LoopInv, LoopTypeOK
  <2> QED BY <1>1, <2>1, EventsTurn
<1>7. /\ Dead' = Dead /\ (Listening(m)' <=> Listening(m))
      /\ \A j \in DOMAIN read : j # i => stage'[j] = stage[j] /\ left'[j] = left[j]
      /\ left'[i] = ToCall(i) \ {l}
  BY <1>4, <1>6 DEF Same
<1>8. /\ \A k \in DOMAIN jam[m] : jam[m][k] \in DOMAIN read /\ jam[m][k] # i
                                  /\ stage[jam[m][k]] = "jammed"
      /\ jam \in [Macros -> Seq(Nat)]
  BY <1>6 DEF LoopInv, LoopTypeOK, JamsWait
<1>9. CASE read[i].key = m
  <2>1. jam' = jam /\ ~Follower(m, i)
    BY <1>4, <1>5, <1>9 DEF Follower
  <2>2. JamIsSorted(m)' /\ \A j : Queued(m, j)' <=> Queued(m, j)
    BY <1>1, <1>7, <2>1 DEF EventsInv, JamIsSorted, Follower, Queued
  <2> QED BY <1>1, <1>7, <2>1, <2>2, OneEventKeeps
<1>10. CASE read[i].key # m /\ ~Live(l)
  <2>1. jam' = jam /\ stage'[i] = "jammed" /\ Follower(m, i)
    BY <1>4, <1>5, <1>6, <1>10 DEF Follower
  <2>2. JamIsSorted(m)' /\ \A j : Queued(m, j)' <=> Queued(m, j)
    BY <1>1, <1>7, <2>1 DEF EventsInv, JamIsSorted, Follower, Queued
  <2>3. ~Queued(m, i)
    BY <1>8 DEF Queued
  <2>4. l \in Dead /\ Doomed(m, i)
    <3>1. CASE stage[i] = "new"
      BY <1>10, <3>1 DEF ToCall, Dead, Doomed
    <3>2. CASE stage[i] # "new"
      <4>1. stage[i] = "called" /\ l \in left[i]
        BY <1>6, <3>2 DEF ToCall
      <4>2. left[i] \subseteq Dead
        BY <2>1, <4>1 DEF EventsInv, LeftAreDead
      <4> QED BY <4>1, <4>2 DEF Doomed
    <3> QED BY <3>1, <3>2
  <2>5. Doomed(m, i)' /\ ~Flying(i)'
    BY <2>1, <2>2, <2>3 DEF Doomed, Lost, Flying
  <2> QED BY <1>1, <1>6, <1>7, <2>1, <2>2, <2>3, <2>4, <2>5, OneEventKeeps
<1>11. CASE read[i].key # m /\ Live(l)
  <2>1. jam' = [jam EXCEPT ![m] = Append(jam[m], i)] /\ stage'[i] = "jammed" /\ Follower(m, i)
    BY <1>4, <1>5, <1>6, <1>11 DEF Follower
  <2>2. stage[i] = "new"
    <3> SUFFICES ASSUME stage[i] # "new" PROVE FALSE
      OBVIOUS
    <3>1. stage[i] = "called" /\ l \in left[i]
      BY <1>6 DEF ToCall
    <3>2. l \in Dead
      BY <2>1, <3>1 DEF EventsInv, LeftAreDead
    <3> QED BY <1>11, <3>2 DEF Dead
  <2>3. Listening(m) /\ l = Listener(m)
    BY <1>5, <1>11 DEF Live, Listening, Attentive
  <2>4. left'[i] = Dead
    BY <1>7, <2>2, <2>3, DeadIs DEF ToCall
  <2> DEFINE J == jam[m]
             K == jam'[m]
  <2>5. /\ J \in Seq(Nat) /\ K = Append(J, i) /\ Len(J) \in Nat
        /\ DOMAIN J = 1 .. Len(J) /\ DOMAIN K = 1 .. Len(J) + 1
        /\ K[Len(J) + 1] = i /\ \A k \in DOMAIN J : K[k] = J[k]
    <3>1. J \in Seq(Nat) /\ K = Append(J, i)
      BY <1>8, <2>1
    <3> HIDE DEF J, K
    <3>2. /\ Append(J, i) \in Seq(Nat) /\ Len(Append(J, i)) = Len(J) + 1
          /\ Append(J, i)[Len(J) + 1] = i
          /\ \A p \in 1 .. Len(J) : Append(J, i)[p] = J[p]
      BY <1>6, <3>1, AppendProperties
    <3> QED BY <3>1, <3>2
  <2>6. \A k \in DOMAIN K : k = Len(J) + 1 \/ k \in DOMAIN J
    BY <2>5
  <2>7. \A k \in DOMAIN J : J[k] < i
    <3> SUFFICES ASSUME NEW k \in DOMAIN J PROVE J[k] < i
      OBVIOUS
    <3>1. J[k] \in DOMAIN read /\ J[k] # i /\ stage[J[k]] = "jammed" /\ J[k] \in Nat
      BY <1>8, <2>5
    <3>2. ~(i < J[k])
      BY <2>2, <3>1 DEF NewAreLast
    <3> QED BY <1>6, <3>1, <3>2
  <2>8. JamIsSorted(m)'
    <3>1. ASSUME NEW k \in DOMAIN K
          PROVE  /\ Follower(m, K[k])
                 /\ \A h \in DOMAIN K : k < h => K[k] < K[h]
      <4>1. CASE k = Len(J) + 1
        BY <2>1, <2>5, <4>1
      <4>2. CASE k \in DOMAIN J
        <5>1. Follower(m, J[k]) /\ \A h \in DOMAIN J : k < h => J[k] < J[h]
          BY <4>2 DEF EventsInv, JamIsSorted
        <5> HIDE DEF J, K
        <5> QED BY <2>5, <2>6, <2>7, <4>2, <5>1
      <4> QED BY <2>6, <3>1, <4>1, <4>2
    <3>2. \A k \in DOMAIN K : read'[K[k]].key # m
      BY <1>1, <3>1 DEF Follower
    <3> QED BY <3>1, <3>2 DEF JamIsSorted, Follower
  <2>9. ASSUME NEW j \in DOMAIN read, j # i PROVE Queued(m, j)' <=> Queued(m, j)
    <3>1. (\E k \in DOMAIN K : K[k] = j) <=> (\E k \in DOMAIN J : J[k] = j)
      <4> HIDE DEF J, K
      <4>1. DOMAIN J \subseteq DOMAIN K
        BY <2>5
      <4> QED BY <2>5, <2>6, <2>9, <4>1
    <3> QED BY <1>7, <3>1 DEF Queued
  <2>10. Queued(m, i)'
    <3>1. Len(J) + 1 \in DOMAIN K
      BY <2>5
    <3> QED BY <1>7, <2>3, <2>5, <3>1 DEF Queued
  <2>11. Doomed(m, i)' <=> Doomed(m, i)
    BY <1>7, <2>1, <2>2, <2>4, <2>10 DEF Doomed, Lost
  <2>12. ~Flying(i)'
    BY <2>1 DEF Flying
  <2> QED BY <1>1, <1>6, <1>7, <2>1, <2>4, <2>8, <2>9, <2>11, <2>12, OneEventKeeps
<1> QED BY <1>9, <1>10, <1>11

LEMMA HandKeepsOrder ==
    ASSUME LoopInv, NewAreLast, NEW m \in Macros, ListenersAre(m), EventsInv(m),
           LetGoOneByOne(m), NEW i \in DOMAIN read, HandToHandlers(i), Same(m)
    PROVE  EventsInv(m)'
<1>1. EventTurn(i) /\ ToCall(i) = {} /\ UNCHANGED <<read, left, jam>>
  BY DEF HandToHandlers, inputVars
<1>2. stage' = [stage EXCEPT ![i] = "handled"]
  BY HandToHandlersKeeps
<1>3. /\ stage[i] \in {"new", "called"} /\ DOMAIN stage = DOMAIN read /\ stage \in Seq(Stages)
      /\ i \in DOMAIN stage /\ stage'[i] = "handled"
      /\ \A j \in DOMAIN read : j # i => stage'[j] = stage[j]
      /\ \A j \in DOMAIN read : stage[j] \in Stages
  <2>1. stage[i] \in {"new", "called"} /\ DOMAIN stage = DOMAIN read
    BY <1>1, EventsTurn
  <2>2. stage \in Seq(Stages)
    BY DEF LoopInv, LoopTypeOK
  <2> QED BY <1>2, <2>1, <2>2
<1>4. Dead' = Dead /\ \A j : Queued(m, j)' <=> Queued(m, j)
  BY <1>1 DEF Same, Queued
<1>5. JamIsSorted(m)'
  BY <1>1 DEF EventsInv, JamIsSorted, Follower
<1>6. ~Queued(m, i) /\ ~Flying(i)'
  BY <1>3 DEF Queued, LoopInv, JamsWait, Flying
<1>7. stage[i] = "new" => listeners = {} /\ Dead = {} /\ ~Listening(m)
  BY <1>1 DEF ToCall, Dead, ListenersAre
<1>8. ~Doomed(m, i) /\ ~Doomed(m, i)'
  BY <1>1, <1>3, <1>7 DEF Doomed, Lost, ToCall
<1>9. ASSUME NEW j \in DOMAIN read, j < i, Follower(m, j), Follower(m, i)
      PROVE  stage[j] = "handled"
  <2>1. CASE stage[i] = "called"
    <3>1. Flying(i)
      BY <1>1, <2>1 DEF Flying, ToCall
    <3> QED BY <1>9, <3>1 DEF EventsInv, NoneOvertakes
  <2>2. CASE stage[i] = "new"
    <3>1. Dead = {} /\ ~Listening(m)
      BY <1>7, <2>2
    <3>2. stage[j] # "new"
      BY <1>1, <1>9, OldestFirst
    <3>3. stage[j] # "jammed"
      <4> SUFFICES ASSUME stage[j] = "jammed" PROVE FALSE
        OBVIOUS
      <4>1. Doomed(m, j)
        BY <3>1 DEF Doomed, Lost, Queued
      <4> QED BY <1>9, <3>1, <4>1 DEF EventsInv, DoomSpreads
    <3>4. stage[j] # "called"
      <4> SUFFICES ASSUME stage[j] = "called" PROVE FALSE
        OBVIOUS
      <4>1. left[j] \subseteq Dead
        BY <1>9 DEF EventsInv, LeftAreDead
      <4>2. Flying(j)
        BY <3>1, <4>1 DEF Flying
      <4> QED BY <1>9, <3>1, <4>2 DEF LetGoOneByOne, Drains, Listening, Attentive
    <3> QED BY <1>3, <3>2, <3>3, <3>4 DEF Stages
  <2> QED BY <1>3, <2>1, <2>2
<1> QED BY <1>1, <1>3, <1>4, <1>5, <1>6, <1>8, <1>9, OneEventKeeps

LEMMA LetGoKeepsOrder ==
    ASSUME LoopInv, NewAreLast, NEW m \in Macros, ListenersAre(m), EventsInv(m),
           LetGoOneByOne(m), LetGo(m), Same(m)
    PROVE  EventsInv(m)'
<1>1. PICK i \in DOMAIN read : /\ 1 \in DOMAIN jam[m] /\ jam[m][1] = i /\ stage[i] = "jammed"
                               /\ stage' = [stage EXCEPT ![i] = "called"]
  BY LetGoKeeps
<1>2. /\ Len(jam[m]) \in Nat /\ DOMAIN jam[m] = 1 .. Len(jam[m])
      /\ DOMAIN jam'[m] = 1 .. Len(jam[m]) - 1
      /\ \A k \in DOMAIN jam'[m] : k + 1 \in DOMAIN jam[m] /\ jam'[m][k] = jam[m][k + 1]
  BY LetGoKeeps
<1>3. /\ pc[m] = "draining" /\ MacroTurn(m) /\ UNCHANGED <<read, left>>
  BY DEF LetGo, inputVars
<1>4. /\ DOMAIN stage = DOMAIN read /\ stage'[i] = "called" /\ i \in Nat
      /\ \A j \in DOMAIN read : stage[j] \in Stages /\ (j # i => stage'[j] = stage[j])
  BY <1>1 DEF LoopInv, LoopTypeOK
<1>5. Listening(m) /\ Listening(m)' /\ Dead' = Dead
  BY <1>3 DEF Same, Listening, Attentive
<1>6. \A k \in DOMAIN jam[m] : k = 1 \/ (k - 1 \in DOMAIN jam'[m] /\ jam'[m][k - 1] = jam[m][k])
  <2> SUFFICES ASSUME NEW k \in DOMAIN jam[m], k # 1
               PROVE  k - 1 \in DOMAIN jam'[m] /\ jam'[m][k - 1] = jam[m][k]
    OBVIOUS
  <2>1. k - 1 \in DOMAIN jam'[m] /\ (k - 1) + 1 = k
    BY <1>2
  <2> QED BY <1>2, <2>1
<1>7. ASSUME NEW j \in DOMAIN read, j # i PROVE Queued(m, j)' <=> Queued(m, j)
  <2>1. Queued(m, j) => Queued(m, j)'
    BY <1>1, <1>5, <1>6, <1>7 DEF Queued
  <2>2. Queued(m, j)' => Queued(m, j)
    BY <1>2, <1>5 DEF Queued
  <2> QED BY <2>1, <2>2
<1>8. ~Queued(m, i)'
  <2> SUFFICES ASSUME NEW k \in DOMAIN jam'[m], jam'[m][k] = i PROVE FALSE
    BY DEF Queued
  <2>1. k + 1 \in DOMAIN jam[m] /\ jam[m][k + 1] = jam[m][1]
    BY <1>1, <1>2
  <2>2. k + 1 = 1
    BY <1>1, <2>1 DEF LoopInv, JamsWait
  <2> QED BY <1>2, <2>2
<1>9. JamIsSorted(m)'
  <2> SUFFICES ASSUME NEW k \in DOMAIN jam'[m]
               PROVE  /\ read'[jam'[m][k]].key # m
                      /\ \A h \in DOMAIN jam'[m] : k < h => jam'[m][k] < jam'[m][h]
    BY DEF JamIsSorted, Follower
  <2>1. /\ k + 1 \in DOMAIN jam[m] /\ jam'[m][k] = jam[m][k + 1]
        /\ \A h \in DOMAIN jam'[m] : k < h => /\ h + 1 \in DOMAIN jam[m] /\ k + 1 < h + 1
                                              /\ jam'[m][h] = jam[m][h + 1]
    BY <1>2
  <2> QED BY <1>3, <2>1 DEF EventsInv, JamIsSorted, Follower
<1>10. Follower(m, i) /\ Queued(m, i) /\ left[i] = Dead
  <2>1. Follower(m, i) /\ Queued(m, i)
    BY <1>1, <1>5 DEF EventsInv, JamIsSorted, Queued
  <2> QED BY <2>1 DEF EventsInv, LeftAreDead
<1>11. Doomed(m, i)' <=> Doomed(m, i)
  BY <1>1, <1>3, <1>4, <1>5, <1>10 DEF Doomed, Lost
<1>12. ASSUME Flying(i)', NEW j \in DOMAIN read, j < i, Follower(m, j)
       PROVE  stage[j] = "handled"
  <2>1. Dead = {}
    BY <1>3, <1>10, <1>12 DEF Flying
  <2>2. stage[j] # "new"
    BY <1>1, <1>12 DEF NewAreLast
  <2>3. stage[j] # "jammed"
    <3> SUFFICES ASSUME stage[j] = "jammed" PROVE FALSE
      OBVIOUS
    <3>1. Queued(m, j)
      BY <1>12, <2>1 DEF EventsInv, DoomSpreads, Doomed, Lost
    <3>2. PICK k \in DOMAIN jam[m] : jam[m][k] = j
      BY <3>1 DEF Queued
    <3>3. j \in Nat
      BY DEF LoopInv, LoopTypeOK
    <3>4. k # 1
      BY <1>1, <1>4, <1>12, <3>2, <3>3
    <3>5. 1 < k
      BY <1>2, <3>4
    <3>6. i < j
      BY <1>1, <3>2, <3>5 DEF EventsInv, JamIsSorted
    <3> QED BY <1>4, <1>12, <3>3, <3>6
  <2>4. stage[j] # "called"
    <3> SUFFICES ASSUME stage[j] = "called" PROVE FALSE
      OBVIOUS
    <3>1. left[j] \subseteq Dead
      BY <1>12 DEF EventsInv, LeftAreDead
    <3>2. Flying(j)
      BY <2>1, <3>1 DEF Flying
    <3>3. Drains(m)
      BY <1>12, <2>1, <3>2 DEF LetGoOneByOne
    <3>4. PICK p \in DOMAIN ready : ready[p].task = j
      BY DEF LoopInv, NoneIsForgotten
    <3>5. ready # <<>> /\ ready \in Seq(Entries) /\ 1 \in DOMAIN ready /\ Head(ready) = ready[1]
      <4>1. ready # <<>> /\ ready \in Seq(Entries)
        BY <3>4 DEF LoopInv, LoopTypeOK
      <4> QED BY <4>1
    <3>6. ready[1] = Wake(m, 0)
      BY <1>3, <3>5 DEF MacroTurn
    <3> QED BY <3>3, <3>5, <3>6, EntriesAre DEF Drains
  <2> QED BY <1>4, <2>2, <2>3, <2>4 DEF Stages
<1> QED BY <1>1, <1>3, <1>4, <1>5, <1>7, <1>8, <1>9, <1>10, <1>11, <1>12, OneEventKeeps

\* A step that leaves m where it is, and queues nothing for its run.
LEMMA DrainsStay ==
    ASSUME LoopInv, LoopInv', NEW m \in Macros, Drains(m), pc'[m] = pc[m],
           NEW d \in {0, 1}, d <= Len(ready), NEW k \in Nat, IsAfter(ready', ready, d, k),
           \A p \in DOMAIN ready' : p > Len(ready) - d /\ ready'[p].task = m => ready'[p].new
    PROVE  Drains(m)'
<1> SUFFICES ASSUME NEW p \in DOMAIN ready', ready'[p].task = m PROVE ready'[p].new
  BY DEF Drains
<1>1. /\ ready \in Seq(Entries) /\ Len(ready) \in Nat /\ DOMAIN ready = 1 .. Len(ready)
      /\ ready' \in Seq(Entries)
  BY DEF LoopInv, LoopTypeOK
<1>2. CASE p > Len(ready) - d
  BY <1>2
<1>3. CASE ~(p > Len(ready) - d)
  <2>1. p \in 1 .. Len(ready) - d /\ p + d \in DOMAIN ready
    BY <1>1, <1>3
  <2>2. ready'[p] = ready[p + d]
    BY <2>1 DEF IsAfter
  <2> QED BY <2>1, <2>2 DEF Drains
<1> QED BY <1>2, <1>3

\* While m sleeps with the keys still waiting, it stays asleep until the queue is empty.
LEMMA DrainsOn ==
    ASSUME LoopInv, NEW m \in Macros, OnlyModTap(m), ListenersAre(m), Drains(m), ready # <<>>,
           [MacroNext]_taskVars
    PROVE  Drains(m)' \/ Dead' # {}
<1>0. LoopInv' /\ LoopTypeOK /\ LoopTypeOK'
  BY LoopStepKeeps DEF LoopInv
<1>1. /\ ready \in Seq(Entries) /\ Len(ready) \in Nat /\ DOMAIN ready = 1 .. Len(ready)
      /\ 1 \in DOMAIN ready /\ Head(ready) = ready[1] /\ 1 <= Len(ready) /\ Taken = 1
      /\ pc[m] = "draining" /\ pc \in [Macros -> Places] /\ Len(read) \in Nat
      /\ DOMAIN read \subseteq Nat /\ Macros \cap Nat = {}
  <2>1. ready \in Seq(Entries) /\ pc[m] = "draining"
    BY <1>0 DEF LoopTypeOK, Drains
  <2> QED BY <1>0, <2>1 DEF LoopTypeOK, Taken
<1>2. ready[1].task = m => ready[1].new
  BY <1>1 DEF Drains
<1>3. ~MacroTurn(m)
  BY <1>1, <1>2, EntriesAre DEF MacroTurn
<1>4. 0 \in {0, 1} /\ 1 \in {0, 1} /\ 0 \in Nat /\ 1 \in Nat /\ 0 <= Len(ready)
  BY <1>1
<1>5. CASE Read
  <2>1. IsAfter(ready', ready, 0, 1) /\ ready'[Len(ready) + 1] = Wake(Len(read) + 1, 0)
    BY <1>5, ReadKeeps
  <2>2. pc'[m] = pc[m]
    BY <1>5 DEF Read, macroVars
  <2>3. \A p \in DOMAIN ready' : p > Len(ready) - 0 => p = Len(ready) + 1
    BY <1>1, <2>1 DEF IsAfter
  <2>4. Wake(Len(read) + 1, 0).task # m
    BY <1>1, EntriesAre
  <2> HIDE MacroTasksAssumption
  <2> QED BY <1>0, <1>4, <2>1, <2>2, <2>3, <2>4, DrainsStay
<1>6. CASE Hop
  <2>1. /\ IsAfter(ready', ready, 1, 1) /\ ready[1].hops > 0 /\ ~ready[1].new
        /\ ready'[Len(ready)] = [ready[1] EXCEPT !.hops = ready[1].hops - 1]
    BY <1>6, HopKeeps
  <2>2. pc'[m] = pc[m]
    BY <1>6 DEF Hop, macroVars
  <2>3. \A p \in DOMAIN ready' : p > Len(ready) - 1 => p = Len(ready)
    BY <1>1, <2>1 DEF IsAfter
  <2>4. ready[1] \in Entries
    BY <1>1
  <2>5. [ready[1] EXCEPT !.hops = ready[1].hops - 1].task # m
    BY <1>2, <2>1, <2>4 DEF Entries
  <2> HIDE MacroTasksAssumption
  <2> QED BY <1>0, <1>1, <1>4, <2>1, <2>2, <2>3, <2>5, DrainsStay
<1>7. CASE Skip
  <2>1. IsAfter(ready', ready, 1, 0)
    BY <1>7, SkipKeeps DEF Skip, inputVars, eventVars, macroVars
  <2>2. pc'[m] = pc[m]
    BY <1>7 DEF Skip, macroVars
  <2>3. \A p \in DOMAIN ready' : ~(p > Len(ready) - 1)
    BY <1>1, <2>1 DEF IsAfter
  <2> HIDE MacroTasksAssumption
  <2> QED BY <1>0, <1>1, <1>4, <2>1, <2>2, <2>3, DrainsStay
<1>8. ASSUME NEW i \in DOMAIN read, CallListener(i) PROVE Drains(m)'
  <2>1. EventTurn(i) /\ UNCHANGED <<inputVars, listeners, run, holds, keysDown, count, known>>
    BY <1>8 DEF CallListener
  <2>2. PICK l \in ToCall(i) : CallModTap(i, l) \/ CallIfSingle(i, l)
    BY <1>8 DEF CallListener
  <2>3. CallModTap(i, l)
    BY <2>1, <2>2, CallIfSingleKeeps DEF OnlyModTap
  <2>4. pc'[m] = pc[m]
    BY <2>3 DEF CallModTap
  <2>5. \/ IsAfter(ready', ready, 1, 1) /\ ready'[Len(ready)] = Wake(i, 4)
        \/ IsAfter(ready', ready, 1, 0)
    BY <2>1, <2>2, <2>3, CallModTapKeeps
  <2>6. Wake(i, 4).task # m
    BY <1>1, EntriesAre
  <2>7. \A p \in DOMAIN ready' : p > Len(ready) - 1 =>
           p = Len(ready) /\ ready'[Len(ready)] = Wake(i, 4)
    <3>1. CASE IsAfter(ready', ready, 1, 0)
      BY <1>1, <3>1 DEF IsAfter
    <3>2. CASE IsAfter(ready', ready, 1, 1) /\ ready'[Len(ready)] = Wake(i, 4)
      BY <1>1, <3>2 DEF IsAfter
    <3> QED BY <2>5, <3>1, <3>2
  <2> HIDE MacroTasksAssumption
  <2> QED BY <1>0, <1>1, <1>4, <2>4, <2>5, <2>6, <2>7, DrainsStay
<1>9. ASSUME NEW i \in DOMAIN read, HandToHandlers(i) PROVE Drains(m)'
  <2> DEFINE k == Len(ready') - Len(ready) + 1
  <2>1. /\ pc'[m] = pc[m]
        /\ Len(ready') >= Len(ready) - 1 /\ IsAfter(ready', ready, 1, k)
        /\ \A p \in DOMAIN ready' : p > Len(ready) - 1 =>
              ready'[p].new \/ pc[ready'[p].task] \in Notice
    BY <1>1, <1>9, HandToHandlersKeeps DEF Listening, Attentive
  <2>2. k \in Nat
    BY <1>0, <1>1, <2>1 DEF LoopTypeOK
  <2>3. pc[m] \notin Notice
    BY <1>1 DEF Notice, Until
  <2> HIDE MacroTasksAssumption DEF k
  <2> QED BY <1>0, <1>1, <1>4, <2>1, <2>2, <2>3, DrainsStay
<1>10. ASSUME NEW n \in Macros, Moves(n) PROVE Drains(m)'
  <2>1. n # m
    BY <1>3, <1>10 DEF Moves
  <2>2. pc'[m] = pc[m]
    BY <1>1, <1>10, <2>1 DEF Moves
  <2>3. /\ \E k \in {0, 1} : IsAfter(ready', ready, 1, k)
        /\ \A q \in DOMAIN ready' : q > Len(ready) - 1 => ready'[q].task = n
    BY <1>1, <1>10, MovesQueue
  <2> HIDE MacroTasksAssumption
  <2> QED BY <1>0, <1>1, <1>4, <2>1, <2>2, <2>3, DrainsStay
<1>11. ASSUME NEW n \in Macros, LetGo(n) PROVE FALSE
  BY <1>3, <1>11 DEF LetGo, OnlyModTap
<1>12. ASSUME NEW n \in Macros, TermEnds(n) PROVE Drains(m)'
  <2>1. /\ pc[n] \in {"deciding", "tap_up", "tap_down"}
        /\ \E place \in Places : pc' = [pc EXCEPT ![n] = place]
        /\ IsAfter(ready', ready, 0, 1)
    BY <1>12, TermEndsKeeps DEF Places, Turns, Until
  <2>2. PICK h \in {0, 1} : ready'[Len(ready) + 1] = Wake(n, h)
    BY <1>12, TermEndsKeeps
  <2>3. n # m /\ pc'[m] = pc[m]
    BY <1>1, <2>1
  <2>4. \A p \in DOMAIN ready' : p > Len(ready) - 0 => p = Len(ready) + 1
    BY <1>1, <2>1 DEF IsAfter
  <2>5. Wake(n, h).task # m
    BY <2>3, EntriesAre
  <2> HIDE MacroTasksAssumption
  <2> QED BY <1>0, <1>4, <2>1, <2>2, <2>3, <2>4, <2>5, DrainsStay
<1>13. ASSUME NEW n \in Macros, StartRun(n) PROVE Drains(m)'
  <2>1. CASE IsAfter(ready', ready, 1, 0) /\ UNCHANGED <<pc, run>>
    <3>1. \A p \in DOMAIN ready' : ~(p > Len(ready) - 1)
      BY <1>1, <2>1 DEF IsAfter
    <3> HIDE MacroTasksAssumption
    <3> QED BY <1>0, <1>1, <1>4, <2>1, <3>1, DrainsStay
  <2>2. CASE /\ pc[n] = "idle" /\ pc' = [pc EXCEPT ![n] = "starting"]
             /\ Len(ready') = Len(ready) /\ ready'[1] = Wake(n, 0)
             /\ \A p \in DOMAIN ready : p > 1 => ready'[p] = ready[p]
    <3>1. n # m /\ pc'[m] = pc[m]
      BY <1>1, <2>2
    <3>2. ready'[1].task # m
      BY <2>2, <3>1, EntriesAre
    <3>3. ASSUME NEW p \in DOMAIN ready' PROVE p = 1 \/ (p \in DOMAIN ready /\ ready'[p] = ready[p])
      <4>1. DOMAIN ready' = DOMAIN ready
        BY <1>0, <1>1, <2>2 DEF LoopTypeOK
      <4>2. p = 1 \/ p > 1
        BY <1>1, <4>1
      <4> QED BY <2>2, <4>1, <4>2
    <3> QED BY <3>1, <3>2, <3>3 DEF Drains
  <2> QED BY <1>13, <2>1, <2>2, StartRunKeeps
<1>14. CASE Reset
  <2>1. Resets
    BY <1>14, ResetIs
  <2>2. pc'[m] \in {"draining", "cancelled"}
    BY <1>1, <2>1 DEF Resets, ResetTo, Until
  <2>3. CASE pc'[m] = "cancelled"
    <3>1. Listening(m) /\ ~Listening(m)'
      BY <1>1, <2>3 DEF Listening, Attentive
    <3>2. ~Begins(m)
      BY <3>1 DEF Begins
    <3>3. ~Ends(m)
      BY <1>3 DEF Ends, StopListening
    <3> QED BY <3>1, <3>2, <3>3, StepListenersAre DEF Same, Kills
  <2>4. CASE pc'[m] = "draining"
    <3>1. ASSUME NEW p \in DOMAIN ready', ready'[p].task = m PROVE ready'[p].new
      <4>1. ~(p > Len(ready))
        BY <2>1, <2>4, <3>1 DEF Resets
      <4>2. p \in DOMAIN ready
        BY <1>0, <1>1, <4>1 DEF LoopTypeOK
      <4>3. ready'[p] = ready[p]
        <5>1. Nothing.task # m
          BY <1>1, EntriesAre
        <5> QED BY <2>1, <3>1, <4>2, <5>1 DEF Resets
      <4> QED BY <3>1, <4>2, <4>3 DEF Drains
    <3> QED BY <2>4, <3>1 DEF Drains
  <2> QED BY <2>2, <2>3, <2>4
<1>15. CASE UNCHANGED taskVars
  BY <1>15 DEF taskVars, macroVars, Drains
<1>16. ASSUME NEW n \in Macros, RunMacro(n) PROVE Drains(m)'
  <2>1. Quiet(n) \/ (StartListening(n) \/ IfSingleDecides(n) \/ ModTapDecides(n) \/ StopListening(n))
        \/ LetGo(n) \/ StartRun(n)
    BY <1>16 DEF RunMacro, Quiet
  <2> QED BY <1>0, <2>1, <1>10, <1>11, <1>13, QuietMoves, ListenersMove
<1> QED BY <1>5, <1>6, <1>7, <1>8, <1>9, <1>12, <1>14, <1>15, <1>16 DEF MacroNext, HandleEvents

\* No second key is let go before the one before it was handled.
LEMMA StepLetsGo ==
    ASSUME LoopInv, NEW m \in Macros, OnlyModTap(m), ListenersAre(m), LetGoOneByOne(m),
           [MacroNext]_taskVars
    PROVE  LetGoOneByOne(m)'
<1>0. LoopInv' /\ LoopTypeOK /\ LoopTypeOK'
  BY LoopStepKeeps DEF LoopInv
<1>1. /\ ready \in Seq(Entries) /\ Len(ready) \in Nat /\ DOMAIN ready = 1 .. Len(ready)
      /\ ready' \in Seq(Entries) /\ Macros \cap Nat = {}
      /\ DOMAIN stage = DOMAIN read /\ DOMAIN left = DOMAIN read
      /\ stage \in Seq(Stages) /\ left \in Seq(SUBSET Listeners)
  BY <1>0 DEF LoopTypeOK
<1>2. CASE LetGo(m)
  <2>1. PICK i \in DOMAIN read : /\ IsAfter(ready', ready, Taken, 1)
                                 /\ ready'[Len(ready) - Taken + 1] = Wake(i, 5)
    BY <1>2, LetGoKeeps
  <2>2. /\ pc[m] = "draining" /\ pc' = pc /\ Taken \in {0, 1} /\ i \in Nat
        /\ ready # <<>> => Head(ready).task = m /\ ~Head(ready).new
    BY <1>0, <1>1, <1>2, RestIs, EntriesAre DEF LetGo, MacroTurn, LoopTypeOK
  <2>3. Wake(i, 5).task # m
    BY <1>1, <2>2, EntriesAre
  <2>4. ASSUME NEW p \in DOMAIN ready', ready'[p].task = m PROVE ready'[p].new
    <3>1. p # Len(ready) - Taken + 1
      BY <2>1, <2>3, <2>4
    <3>2. p \in 1 .. Len(ready) - Taken /\ p + Taken \in DOMAIN ready /\ p + Taken > Taken
      BY <1>1, <2>1, <2>2, <3>1 DEF IsAfter
    <3>3. ready'[p] = ready[p + Taken]
      BY <2>1, <3>2 DEF IsAfter
    <3>4. Stays(ready'[p], Taken) /\ ready'[p] \in Entries
      BY <1>1, <3>2, <3>3 DEF Stays
    <3>5. m \in Macros \cup Nat /\ m # 0
      BY <1>1
    <3> QED BY <2>2, <2>4, <3>4, <3>5, TurnIsOver
  <2> QED BY <2>2, <2>4 DEF LetGoOneByOne, Drains
<1>3. CASE ~LetGo(m)
  <2> SUFFICES ASSUME NEW i \in DOMAIN read', Follower(m, i)', Flying(i)', Dead' = {}
               PROVE  Drains(m)'
    BY DEF LetGoOneByOne
  <2>1. Dead = {}
    BY StepListenersAre DEF Same, Begins, Ends, Kills
  <2>2. i \in DOMAIN read /\ read'[i] = read[i] /\ Flying(i)
    <3>1. UNCHANGED <<read, stage, left>> => i \in DOMAIN read /\ read'[i] = read[i] /\ Flying(i)
      BY DEF Flying
    <3>2. CASE Read
      <4>1. i # Len(read) + 1
        BY <3>2, ReadKeeps DEF Flying
      <4>2. i \in DOMAIN read
        BY <1>0, <3>2, <4>1, ReadKeeps DEF LoopTypeOK
      <4> QED BY <3>2, <4>2, ReadKeeps DEF Flying
    <3>3. ASSUME NEW j \in DOMAIN read, CallListener(j)
          PROVE  i \in DOMAIN read /\ read'[i] = read[i] /\ Flying(i)
      <4>1. EventTurn(j) /\ UNCHANGED <<inputVars, listeners, run, holds, keysDown, count, known>>
            /\ read' = read
        BY <3>3 DEF CallListener, inputVars
      <4>2. PICK l \in ToCall(j) : CallModTap(j, l) \/ CallIfSingle(j, l)
        BY <3>3 DEF CallListener
      <4>3. CallModTap(j, l)
        BY <4>1, <4>2, CallIfSingleKeeps DEF OnlyModTap
      <4>4. /\ l.macro \in Macros /\ left' = [left EXCEPT ![j] = ToCall(j) \ {l}]
            /\ \/ read[j].key = l.macro /\ stage' = [stage EXCEPT ![j] = "called"]
               \/ stage' = [stage EXCEPT ![j] = "jammed"]
        BY <4>1, <4>2, <4>3, CallModTapKeeps
      <4>5. l.macro = m
        BY <4>3, <4>4 DEF CallModTap, OnlyModTap
      <4>6. i # j
        BY <1>1, <4>1, <4>4, <4>5 DEF Follower, Flying
      <4> QED BY <1>1, <4>1, <4>4, <4>6 DEF Flying
    <3>4. ASSUME NEW j \in DOMAIN read, HandToHandlers(j)
          PROVE  i \in DOMAIN read /\ read'[i] = read[i] /\ Flying(i)
      <4>1. stage' = [stage EXCEPT ![j] = "handled"] /\ UNCHANGED <<read, left>>
        BY <3>4, HandToHandlersKeeps DEF HandToHandlers, inputVars
      <4> QED BY <1>1, <4>1 DEF Flying
    <3>5. ASSUME NEW n \in Macros, RunMacro(n) PROVE UNCHANGED <<read, stage, left>>
      <4>1. Quiet(n)
            \/ (StartListening(n) \/ IfSingleDecides(n) \/ ModTapDecides(n) \/ StopListening(n))
            \/ LetGo(n) \/ StartRun(n)
        BY <3>5 DEF RunMacro, Quiet
      <4>2. ~LetGo(n)
        BY <1>3 DEF LetGo, OnlyModTap
      <4>3. CASE Moves(n)
        BY <4>3 DEF Moves
      <4> QED BY <1>0, <4>1, <4>2, <4>3, QuietMoves, ListenersMove, StartRunKeeps
    <3>6. CASE Hop \/ Skip \/ Reset \/ UNCHANGED taskVars \/ \E n \in Macros : TermEnds(n)
      BY <3>1, <3>6 DEF Hop, Skip, Reset, TermEnds, taskVars, inputVars, eventVars
    <3> QED BY <3>1, <3>2, <3>3, <3>4, <3>5, <3>6 DEF MacroNext, HandleEvents
  <2>3. Drains(m)
    BY <2>1, <2>2 DEF LetGoOneByOne, Follower
  <2>4. ready # <<>>
    <3>1. \E p \in DOMAIN ready : ready[p].task = i
      BY <2>2 DEF LoopInv, NoneIsForgotten, Flying
    <3> QED BY <1>1, <3>1
  <2> QED BY <2>3, <2>4, DrainsOn
<1> QED BY <1>2, <1>3

\* Each step by what it does to the listeners, then by what it does to the events.
LEMMA StepKeepsOrder ==
    ASSUME LoopInv, NewAreLast, NEW m \in Macros, OnlyModTap(m), ListenersAre(m), EventsInv(m),
           LetGoOneByOne(m), [MacroNext]_taskVars
    PROVE  EventsInv(m)'
<1>1. Same(m) \/ Begins(m) \/ Ends(m) \/ Kills(m)
  BY StepListenersAre
<1>2. LoopTypeOK /\ DOMAIN <<>> = {}
  BY DEF LoopInv
<1>3. CASE Kills(m)
  BY <1>3, ResetIs, KillsKeeps DEF Kills
<1>4. CASE Begins(m)
  <2>1. UNCHANGED <<read, stage, left>> /\ Dead' = Dead /\ ~Listening(m) /\ jam'[m] = <<>>
    BY <1>4 DEF Begins, StartListening, inputVars, eventVars
  <2>2. \A i \in DOMAIN read : ~Queued(m, i) /\ ~Queued(m, i)'
    BY <1>2, <2>1 DEF Queued
  <2> QED BY <2>1, <2>2, CalmKeeps
<1>5. CASE Ends(m)
  <2>1. UNCHANGED <<read, stage, left, jam>> /\ Dead' = Dead /\ jam[m] = <<>>
    BY <1>5 DEF Ends, StopListening, inputVars, eventVars
  <2>2. \A i \in DOMAIN read : ~Queued(m, i) /\ ~Queued(m, i)'
    BY <1>2, <2>1 DEF Queued
  <2> QED BY <2>1, <2>2, CalmKeeps
<1>6. CASE Same(m)
  <2>1. ASSUME UNCHANGED <<read, stage, left, jam>> PROVE EventsInv(m)'
    <3>1. \A i \in DOMAIN read : Queued(m, i)' <=> Queued(m, i)
      BY <1>6, <2>1 DEF Same, Queued
    <3> QED BY <1>6, <2>1, <3>1, CalmKeeps DEF Same
  <2>2. CASE Read
    BY <2>2, ReadKeepsOrder
  <2>3. ASSUME NEW i \in DOMAIN read, CallListener(i) PROVE EventsInv(m)'
    BY <1>6, <2>3, CallKeepsOrder
  <2>4. ASSUME NEW i \in DOMAIN read, HandToHandlers(i) PROVE EventsInv(m)'
    BY <1>6, <2>4, HandKeepsOrder
  <2>5. ASSUME NEW n \in Macros, RunMacro(n) PROVE EventsInv(m)'
    <3>1. Quiet(n) \/ StartListening(n) \/ IfSingleDecides(n) \/ ModTapDecides(n)
          \/ StopListening(n) \/ LetGo(n) \/ StartRun(n)
      BY <2>5 DEF RunMacro, Quiet
    <3>2. CASE StartListening(n)
      <4>1. n = m /\ pc[m] = "starting"
        BY <3>2 DEF StartListening, OnlyModTap
      <4>2. pc'[m] \in {"deciding", "waking"}
        BY <1>2, <3>2, <4>1 DEF StartListening, Goto, LoopTypeOK
      <4> QED BY <1>6, <4>1, <4>2 DEF Same, Listening, Attentive
    <3>3. CASE LetGo(n)
      <4>1. n = m
        BY <3>3 DEF LetGo, OnlyModTap
      <4> QED BY <1>6, <3>3, <4>1, LetGoKeepsOrder
    <3>4. CASE IfSingleDecides(n) \/ ModTapDecides(n) \/ StopListening(n)
      BY <2>1, <3>4 DEF IfSingleDecides, ModTapDecides, StopListening, inputVars, eventVars
    <3>5. CASE Quiet(n) \/ StartRun(n)
      BY <1>2, <2>1, <3>5, QuietMoves, StartRunKeeps
    <3> QED BY <3>1, <3>2, <3>3, <3>4, <3>5
  <2>6. CASE Hop \/ Skip \/ Reset \/ UNCHANGED taskVars \/ \E n \in Macros : TermEnds(n)
    BY <2>1, <2>6 DEF Hop, Skip, Reset, TermEnds, taskVars, inputVars, eventVars, macroVars
  <2> QED BY <2>2, <2>3, <2>4, <2>5, <2>6 DEF MacroNext, HandleEvents
<1> QED BY <1>1, <1>3, <1>4, <1>5, <1>6

\* The preset does not change.
LEMMA KindStays ==
    ASSUME LoopInv, [MacroNext]_taskVars
    PROVE  kind' = kind
<1>1. ASSUME NEW n \in Macros, RunMacro(n) PROVE kind' = kind
  <2>1. Quiet(n)
        \/ (StartListening(n) \/ IfSingleDecides(n) \/ ModTapDecides(n) \/ StopListening(n))
        \/ LetGo(n) \/ StartRun(n)
    BY <1>1 DEF RunMacro, Quiet
  <2>2. CASE Moves(n)
    BY <2>2 DEF Moves
  <2>3. CASE LetGo(n) \/ StartRun(n)
    BY <2>3 DEF LetGo, StartRun, inputVars
  <2>4. LoopTypeOK
    BY DEF LoopInv
  <2> QED BY <2>1, <2>2, <2>3, <2>4, QuietMoves, ListenersMove
<1>2. CASE Read \/ Hop \/ Skip \/ Reset \/ UNCHANGED taskVars \/ \E n \in Macros : TermEnds(n)
  BY <1>2 DEF Read, Hop, Skip, Reset, TermEnds, taskVars, inputVars
<1>3. ASSUME NEW i \in DOMAIN read, CallListener(i) \/ HandToHandlers(i) PROVE kind' = kind
  BY <1>3 DEF CallListener, HandToHandlers, inputVars
<1> QED BY <1>1, <1>2, <1>3 DEF MacroNext, HandleEvents

\* What is true of the only mod_tap.
OrderInv(m) == ListenersAre(m) /\ EventsInv(m) /\ LetGoOneByOne(m)

\* The order of the keys is kept when a preset has one mod_tap at most, as the docs of its task
\* say: those that wait for it get to the handlers in the order in which they were read, however
\* other macros, the end of the term and a reset of the context come in between, and with any
\* sleep between two keys or none (ModTapTask.run, EventReader.handle).
THEOREM EventsKeepTheirOrder ==
    ASSUME Macros # {},
           \A s \in Setups : \A n, o \in Macros : s[n] = "mod_tap" /\ s[o] = "mod_tap" => n = o
    PROVE  MacroSpec => []OrderIsKept
<1> DEFINE Inv == /\ kind \in Setups
                  /\ \A m \in Macros : OnlyModTap(m) => OrderInv(m)
<1>1. ASSUME MacroInit PROVE NewAreLast /\ Inv
  <2>1. DOMAIN read = {} /\ DOMAIN ready = {} /\ listeners = {} /\ kind \in Setups
    BY <1>1 DEF MacroInit
  <2>2. \A m \in Macros : pc[m] = "idle" /\ DOMAIN jam[m] = {}
    BY <1>1 DEF MacroInit
  <2>3. NewAreLast
    BY <2>1 DEF NewAreLast
  <2>4. ASSUME NEW m \in Macros PROVE OrderInv(m)
    BY <2>1, <2>2 DEF OrderInv, ListenersAre, Listening, Attentive, EventsInv, JamIsSorted,
                      LeftAreDead, DoomSpreads, NoneOvertakes, LetGoOneByOne
  <2> QED BY <2>1, <2>3, <2>4
<1>2. ASSUME LoopInv, NewAreLast, Inv, [MacroNext]_taskVars PROVE NewAreLast' /\ Inv'
  <2>1. kind' = kind
    BY <1>2, KindStays
  <2>2. ASSUME NEW m \in Macros, OnlyModTap(m)' PROVE OrderInv(m)'
    <3>1. OnlyModTap(m)
      BY <2>1, <2>2 DEF OnlyModTap
    <3>2. ListenersAre(m) /\ EventsInv(m) /\ LetGoOneByOne(m)
      BY <1>2, <3>1 DEF OrderInv
    <3> QED BY <1>2, <3>1, <3>2, StepListenersAre, StepLetsGo, StepKeepsOrder DEF OrderInv
  <2> QED BY <1>2, <2>1, <2>2, StepNewAreLast
<1>3. ASSUME LoopInv, Inv PROVE OrderIsKept
  <2> SUFFICES ASSUME \A n \in Macros : kind[n] # "if_single",
                      NEW i \in DOMAIN read, NEW j \in DOMAIN read, i < j,
                      read[i].key \in OtherKeys, read[j].key \in OtherKeys, stage[j] = "handled"
               PROVE  stage[i] = "handled"
    BY DEF OrderIsKept
  <2>1. PICK m \in Macros : OnlyModTap(m)
    <3>1. CASE \E n \in Macros : kind[n] = "mod_tap"
      BY <1>3, <3>1 DEF OnlyModTap
    <3>2. CASE ~\E n \in Macros : kind[n] = "mod_tap"
      BY <3>2 DEF OnlyModTap
    <3> QED BY <3>1, <3>2
  <2>2. NoneOvertakes(m)
    BY <1>3, <2>1 DEF OrderInv, EventsInv
  <2>3. Follower(m, i) /\ Follower(m, j)
    BY DEF Follower
  <2> QED BY <2>2, <2>3 DEF NoneOvertakes
<1>4. MacroSpec => [](NewAreLast /\ Inv)
  <2> HIDE DEF Inv
  <2> QED BY <1>1, <1>2, LoopIsRight, PTL DEF MacroSpec
<1> HIDE DEF Inv
<1> QED BY <1>3, <1>4, LoopIsRight, PTL
=============================================================================
