----------------------------- MODULE KeyPipeline -----------------------------
(***************************************************************************)
(* The event pipeline of one injection process, for EV_KEY input and       *)
(* mappings to keys: EventReader.handle, the HierarchyHandler and the      *)
(* CombinationHandlers that MappingParser put behind every input, and the  *)
(* KeyHandler / NullHandler at the end of each of them.                    *)
(*                                                                         *)
(* Without a running macro there is no listener, send_to_listeners never   *)
(* suspends, and the handle() tasks run one after the other: handling one  *)
(* event is one step.  The kernel drops an EV_KEY event that repeats the   *)
(* state of a key, so a virtual device is the set of its keys that are     *)
(* down.                                                                   *)
(***************************************************************************)
EXTENDS Naturals, Sequences

CONSTANTS
    Keys,        \* the physical keys, an input_match_hash each
    DeviceOf,    \* [Keys -> devices]: origin_hash
    CodeOf,      \* [Keys -> codes]: type_and_code, shared by equal keys of two devices
    Preset,      \* the mappings in the order Preset iterates over them
    Unpluggable, \* the devices that may be unplugged while they are read
    Lagging      \* the devices whose reader may lag: the kernel drops events (SYN_DROPPED)

Devices  == {DeviceOf[k] : k \in Keys}
Codes    == {CodeOf[k] : k \in Keys}
Mappings == DOMAIN Preset
Outputs  == {Preset[m].output : m \in Mappings}

\* What notify of the sub-handler does: inject the key, swallow the event
\* (output "disable"), or fail because no uinput can emit the output.
SubHandlers == {"key", "disable", "unavailable"}

ASSUME KeysAssumption ==
    /\ DeviceOf \in [Keys -> Devices]
    /\ CodeOf \in [Keys -> Codes]
    /\ Unpluggable \subseteq Devices
    /\ Lagging \subseteq Devices

\* InputCombination is a non-empty tuple.
ASSUME PresetAssumption ==
    /\ Mappings \subseteq Nat
    /\ \A m \in Mappings :
          /\ Preset[m].combo \in Seq(Keys)
          /\ Preset[m].combo # <<>>
          /\ Preset[m].release \in BOOLEAN
          /\ Preset[m].sub \in SubHandlers

VARIABLES
    held,            \* the keys that are physically down
    injecting,       \* the injection process is running
    readers,         \* the devices whose EventReader is in its read_loop
    pressed,         \* CombinationHandler._pressed_keys, the keys that are True
    requiresRelease, \* CombinationHandler._requires_a_release, the codes that are True
    outActive,       \* CombinationHandler._output_previously_active
    fwdDown,         \* the keys that are down on the forwarded devices
    outDown          \* the outputs that are down on the target uinputs

handlerVars == <<pressed, requiresRelease, outActive>>
vars == <<held, injecting, readers, handlerVars, fwdDown, outDown>>

-----------------------------------------------------------------------------
(* MappingParser: which handlers an input reaches, and in which order.     *)

ComboKeys(m) == {Preset[m].combo[i] : i \in DOMAIN Preset[m].combo}
Size(m)      == Len(Preset[m].combo)
MappingsOf(k) == {m \in Mappings : k \in ComboKeys(m)}

\* tuple.index: the first position of k in the combination of m.
IndexOf(k, m) ==
    CHOOSE i \in DOMAIN Preset[m].combo :
        /\ Preset[m].combo[i] = k
        /\ \A j \in DOMAIN Preset[m].combo : Preset[m].combo[j] = k => i <= j

\* Mutant: the sorted combinations are not reversed.
OutranksNotReversed(n, m, k) ==
    \/ Size(n) < Size(m)
    \/ Size(n) = Size(m) /\ IndexOf(k, n) < IndexOf(k, m)
    \/ Size(n) = Size(m) /\ IndexOf(k, n) = IndexOf(k, m) /\ n < m

\* n comes before m in the HierarchyHandler of k: stable sorts by length and by
\* the position of k, then reversed.
Outranks(n, m, k) ==
    \/ Size(n) > Size(m)
    \/ Size(n) = Size(m) /\ IndexOf(k, n) > IndexOf(k, m)
    \/ Size(n) = Size(m) /\ IndexOf(k, n) = IndexOf(k, m) /\ n > m

-----------------------------------------------------------------------------
(* CombinationHandler.notify.                                              *)

Activated(m, keys) == ComboKeys(m) \subseteq keys
Changed(m, keys)   == Activated(m, keys) # outActive[m]
SubHandles(m)      == Preset[m].sub # "unavailable"

\* Mutant: the result of the sub-handler is ignored.
HandlesPressAlways(m, k) == Changed(m, pressed[m] \cup {k}) \/ outActive[m]

\* What an unsuppressed notify of m returns for the press of k.
HandlesPress(m, k) ==
    IF Changed(m, pressed[m] \cup {k}) THEN SubHandles(m) ELSE outActive[m]

\* Mutant: nobody suppresses.
SuppressedNever(m, k) == FALSE

\* HierarchyHandler: a handler before m already took care of the press.
Suppressed(m, k) ==
    \E n \in MappingsOf(k) : Outranks(n, m, k) /\ HandlesPress(n, k)

\* _handle_freshly_activated gets past its check of suppress.
Fires(m, k) ==
    Changed(m, pressed[m] \cup {k}) /\ ~Suppressed(m, k)

\* _forward_release: of the pressed keys of the combination, those that still
\* require a release; an entry is deleted with the first key that has its code.
ForwardReleases(m, k) ==
    LET combo  == Preset[m].combo
        isHeld(i) == combo[i] \in pressed[m] \cup {k}
    IN  IF (\E i \in Keys : ComboKeys(m) = {i}) \/ ~Preset[m].release
        THEN {}
        ELSE {combo[i] : i \in {j \in DOMAIN combo :
                  /\ isHeld(j)
                  /\ CodeOf[combo[j]] \in requiresRelease[m]
                  /\ \A h \in 1..(j - 1) :
                        isHeld(h) => CodeOf[combo[h]] # CodeOf[combo[j]]}}

\* _require_release_later and the deletions of _forward_release.
RequiresAfterPress(m, k) ==
    IF Changed(m, pressed[m] \cup {k})
    THEN IF Suppressed(m, k)
         THEN requiresRelease[m]
         ELSE LET left == requiresRelease[m] \ {CodeOf[j] : j \in ForwardReleases(m, k)}
              IN  IF SubHandles(m) THEN left \ {CodeOf[k]} ELSE left \cup {CodeOf[k]}
    ELSE IF outActive[m]
         THEN requiresRelease[m] \ {CodeOf[k]}
         ELSE requiresRelease[m] \cup {CodeOf[k]}

\* The press of k reaches EventReader.handle.
HandlePress(k) ==
    LET fired   == {m \in MappingsOf(k) : Fires(m, k)}
        handled == \E m \in MappingsOf(k) : HandlesPress(m, k)
    IN  /\ pressed' = [m \in Mappings |->
              IF m \in MappingsOf(k) THEN pressed[m] \cup {k} ELSE pressed[m]]
        /\ requiresRelease' = [m \in Mappings |->
              IF m \in MappingsOf(k) THEN RequiresAfterPress(m, k) ELSE requiresRelease[m]]
        /\ outActive' = [m \in Mappings |-> IF m \in fired THEN TRUE ELSE outActive[m]]
        /\ outDown' = outDown \cup
              {Preset[m].output : m \in {n \in fired : Preset[n].sub = "key"}}
        /\ fwdDown' = (fwdDown \ UNION {ForwardReleases(m, k) : m \in fired})
                        \cup (IF handled THEN {} ELSE {k})

\* Mutant: a release that deactivates a combination is consumed, whatever was
\* forwarded before.
LetsReleasePassIfUnchanged(m, k) == ~Changed(m, pressed[m] \ {k})

\* _should_release_event: m lets the EventReader forward the release of k.
LetsReleasePass(m, k) == CodeOf[k] \in requiresRelease[m]

\* The release of k reaches EventReader.handle.  A suppressed release is treated
\* like any other, so the order of the handlers does not matter.
HandleRelease(k) ==
    LET undone  == {m \in MappingsOf(k) : Changed(m, pressed[m] \ {k})}
        handled == \E m \in MappingsOf(k) : ~LetsReleasePass(m, k)
    IN  /\ pressed' = [m \in Mappings |-> pressed[m] \ {k}]
        /\ requiresRelease' = [m \in Mappings |->
              IF m \in MappingsOf(k) THEN requiresRelease[m] \ {CodeOf[k]}
                                     ELSE requiresRelease[m]]
        /\ outActive' = [m \in Mappings |-> IF m \in undone THEN FALSE ELSE outActive[m]]
        /\ outDown' = outDown \
              {Preset[m].output : m \in {n \in undone : Preset[n].sub = "key"}}
        /\ fwdDown' = IF handled THEN fwdDown ELSE fwdDown \ {k}

-----------------------------------------------------------------------------
(* The actions.                                                            *)

Press(k) ==
    /\ DeviceOf[k] \in readers
    /\ k \notin held
    /\ held' = held \cup {k}
    /\ HandlePress(k)
    /\ UNCHANGED <<injecting, readers>>

Release(k) ==
    /\ DeviceOf[k] \in readers
    /\ k \in held
    /\ held' = held \ {k}
    /\ HandleRelease(k)
    /\ UNCHANGED <<injecting, readers>>

\* The buffer of the reader overflows and the event of k is lost; the SYN_DROPPED
\* that tells of it is ignored like every EV_SYN.
DropEvent(k) ==
    /\ DeviceOf[k] \in readers \cap Lagging
    /\ held' = IF k \in held THEN held \ {k} ELSE held \cup {k}
    /\ UNCHANGED <<injecting, readers, handlerVars, fwdDown, outDown>>

\* Mutants: the active outputs are forgotten, and _pressed_keys is emptied.
ResetHandlersKeepingOutputs ==
    /\ pressed' = [m \in Mappings |-> {}]
    /\ requiresRelease' = [m \in Mappings |-> {}]
    /\ outActive' = [m \in Mappings |-> FALSE]
    /\ UNCHANGED outDown
\* Context.reset: every handler of every device forgets its state, a KeyHandler
\* that is active (its output went out and was not taken back) releases its key.
ResetHandlers ==
    /\ pressed' = [m \in Mappings |-> {}]
    /\ requiresRelease' = [m \in Mappings |-> {}]
    /\ outActive' = [m \in Mappings |-> FALSE]
    /\ outDown' = outDown \ {Preset[m].output : m \in
                       {n \in Mappings : outActive[n] /\ Preset[n].sub = "key"}}

\* The device disappears: its read_loop ends, and run() resets the context that
\* it shares with the readers of the other devices.  The process goes on, with
\* its forwarded devices.
Unplug(d) ==
    /\ d \in readers \cap Unpluggable
    /\ readers' = readers \ {d}
    /\ held' = {k \in held : DeviceOf[k] # d}
    /\ ResetHandlers
    /\ UNCHANGED <<injecting, fwdDown>>

\* CLOSE: every reader ends and resets the context, the process exits and its
\* forwarded devices disappear.  The target uinputs belong to the daemon.
Stop ==
    /\ injecting
    /\ injecting' = FALSE
    /\ readers' = {}
    /\ fwdDown' = {}
    /\ IF readers # {} THEN ResetHandlers ELSE UNCHANGED <<handlerVars, outDown>>
    /\ UNCHANGED held

\* A new process with new handlers grabs the devices; keys may be held already.
Start ==
    /\ ~injecting
    /\ injecting' = TRUE
    /\ readers' = Devices
    /\ pressed' = [m \in Mappings |-> {}]
    /\ requiresRelease' = [m \in Mappings |-> {}]
    /\ outActive' = [m \in Mappings |-> FALSE]
    /\ UNCHANGED <<held, fwdDown, outDown>>

\* While nothing is injected the keys go past input-remapper.
MoveUngrabbed(k) ==
    /\ ~injecting
    /\ held' = IF k \in held THEN held \ {k} ELSE held \cup {k}
    /\ UNCHANGED <<injecting, readers, handlerVars, fwdDown, outDown>>

Init ==
    /\ held \in SUBSET Keys
    /\ injecting = TRUE
    /\ readers = Devices
    /\ pressed = [m \in Mappings |-> {}]
    /\ requiresRelease = [m \in Mappings |-> {}]
    /\ outActive = [m \in Mappings |-> FALSE]
    /\ fwdDown = {}
    /\ outDown = {}

Next ==
    \/ \E k \in Keys : Press(k) \/ Release(k) \/ DropEvent(k) \/ MoveUngrabbed(k)
    \/ \E d \in Devices : Unplug(d)
    \/ Stop
    \/ Start

Spec == Init /\ [][Next]_vars

-----------------------------------------------------------------------------
(* Properties.                                                             *)

\* The type invariant.
TypeOK ==
    /\ held \subseteq Keys
    /\ injecting \in BOOLEAN
    /\ readers \subseteq Devices
    /\ pressed \in [Mappings -> SUBSET Keys]
    /\ requiresRelease \in [Mappings -> SUBSET Codes]
    /\ outActive \in [Mappings -> BOOLEAN]
    /\ fwdDown \subseteq Keys
    /\ outDown \subseteq Outputs

Reliable(k) == DeviceOf[k] \notin Lagging

\* No key is stuck on a forwarded device: a key that is down there is still held
\* on its physical device.  This is what _requires_a_release is for.  The events that
\* another device loses do not disturb it; its unplug does (event_reader.py:204 resets
\* the handlers of all devices), until the injection is started again.
NoStuckForwardedKey ==
    readers = Devices => \A k \in fwdDown : Reliable(k) => k \in held

\* No output is stuck on a target uinput: it is down only while a combination of it is
\* active, all of whose keys are physically held, but for those whose release was lost.
NoStuckOutput ==
    \A o \in outDown : \E m \in Mappings :
        /\ Preset[m].output = o /\ outActive[m]
        /\ \A k \in ComboKeys(m) : Reliable(k) => k \in held

\* A press the reader handled is either visible on the forwarded device or part of
\* a combination that is active now and could be injected: it never just vanishes,
\* whatever other devices lost, and whichever of them was unplugged.
PressNeverVanishes ==
    [][\A k \in held' \ held :
          injecting /\ DeviceOf[k] \in readers /\ Reliable(k) =>
              \/ k \in fwdDown'
              \/ \E m \in MappingsOf(k) : outActive'[m] /\ SubHandles(m)]_vars

LongestStarts ==
    \A m, n \in Mappings : \A k \in held' \ held :
        /\ k \in ComboKeys(m) \cap ComboKeys(n)
        /\ ~outActive[m] /\ outActive'[m]
        /\ Size(n) > Size(m)
        => ~(ComboKeys(n) \subseteq pressed'[n] /\ SubHandles(n))

\* The order of the HierarchyHandler: a combination never starts with a press that
\* completes a longer combination whose output can be injected.
LongestCombinationWins == [][LongestStarts]_vars

OneOutput ==
    \A m, n \in Mappings :
        /\ ~outActive[m] /\ outActive'[m] /\ SubHandles(m)
        /\ ~outActive[n] /\ outActive'[n] /\ SubHandles(n)
        => m = n

\* Only the first handler that takes care of a press executes it.
OneOutputPerPress == [][OneOutput]_vars
=============================================================================
