---------------------------- MODULE DaemonProofs ----------------------------
(***************************************************************************)
(* Proofs about Daemon, for every set of groups, presets and processes.    *)
(***************************************************************************)
EXTENDS Daemon, TLAPS

\* Between the stop of an injection and the start that replaces it, the group has no
\* injector.
SpawnsAlone == call.do = "spawn" => injectors[call.group] = NoProcess

\* The redundancy of an autoload does not change between the check and the restart.
AutoloadIsDue ==
    call.do \in {"start", "stop"} /\ call.auto =>
        ~(history[call.group].recent /\ history[call.group].preset = call.preset)

\* A process injects into the devices of a group.
ProcessesHaveGroups == \A p \in Processes : Alive(p) => groupOf[p] \in Groups

\* Only with a configuration there is something to autoload.
AutoloadsAreConfigured == autoloading # {} => config # NoConfig

Typed == TypeOK /\ ProcessesHaveGroups /\ AutoloadsAreConfigured

Inv == Typed /\ SpawnsAlone /\ LiveInjectorIsKnown /\ AutoloadIsDue

\* A call that is served is not Idle.
LEMMA Serving ==
    ASSUME call \in Calls \cup {Idle}, call.do \in Steps
    PROVE  call \in Calls
<1> QED BY DEF Calls, Idle, Steps

LEMMA NewCallType ==
    ASSUME NEW do \in Steps, NEW g \in Groups, NEW p \in Presets \cup {NoPreset},
           NEW auto \in BOOLEAN
    PROVE  /\ NewCall(do, g, p, auto) \in Calls
           /\ NewCall(do, g, p, auto).do = do
           /\ NewCall(do, g, p, auto).auto = auto
           /\ NewCall(do, g, p, auto).group = g
           /\ NewCall(do, g, p, auto).preset = p
<1> QED BY DEF NewCall, Calls, States

\* A call that goes on keeps all but its place.
LEMMA NextStepType ==
    ASSUME call \in Calls, NEW do \in Steps
    PROVE  /\ [call EXCEPT !.do = do] \in Calls
           /\ [call EXCEPT !.do = do, !.restart = TRUE] \in Calls
           /\ [call EXCEPT !.do = do].do = do
           /\ [call EXCEPT !.do = do, !.restart = TRUE].do = do
           /\ [call EXCEPT !.do = do].group = call.group
           /\ [call EXCEPT !.do = do, !.restart = TRUE].group = call.group
<1> QED BY DEF Calls

-----------------------------------------------------------------------------
(* Every step preserves the types.                                         *)

LEMMA JudgedType ==
    ASSUME NEW s \in States, NEW alive
    PROVE  Judged(s, alive) \in States
<1> QED BY DEF Judged, States

LEMMA AfterStopType ==
    ASSUME call \in Calls
    PROVE  AfterStop \in Calls \cup {Idle}
<1> QED BY NextStepType DEF AfterStop, Steps

\* The end of stop_injecting.
LEMMA PopTypes ==
    ASSUME TypeOK, call \in Calls, NEW p, Pop(p), UNCHANGED outDown, holding' \subseteq holding
    PROVE  TypeOK'
<1>1. AfterStop \in Calls \cup {Idle}
  BY AfterStopType
<1>2. /\ phase' \in [Processes -> Phases]
      /\ groupOf' \in [Processes -> Groups \cup {NoGroup}]
      /\ presetOf' \in [Processes -> Presets \cup {NoPreset}]
      /\ closeSent' \in [Processes -> BOOLEAN]
  BY DEF Pop, TypeOK, Phases
<1>3. pipe' \in [Processes -> Seq(States)] /\ state' \in [Processes -> States]
  <2>1. <<>> \in Seq(States)
    OBVIOUS
  <2> QED BY <2>1 DEF Pop, TypeOK, States
<1>4. /\ injectors' \in [Groups -> Processes \cup {NoProcess}]
      /\ history' \in [Groups -> Histories]
      /\ autoloaded' \in [Groups -> Processes \cup {NoProcess}]
  BY DEF Pop, TypeOK, Forgotten, Histories
<1>5. /\ UNCHANGED <<plugged, known, infoOld, config, autoloading, stopping>>
      /\ call' \in Calls \cup {Idle}
  BY <1>1 DEF Pop, groupVars
<1> QED BY <1>2, <1>3, <1>4, <1>5 DEF TypeOK

LEMMA TypeStep ==
    ASSUME Typed, [Next]_vars
    PROVE  TypeOK'
<1> TypeOK /\ ProcessesHaveGroups /\ AutoloadsAreConfigured
  BY DEF Typed
<1> USE DaemonAssumption
<1>1. CASE SetConfigDir
  BY <1>1 DEF SetConfigDir, TypeOK, daemonVars, processVars, outputVars
<1>2. CASE Request
  <2>1. call' \in Calls \cup {Idle}
    <3>1. \A g \in Groups :
              /\ \A p \in Presets : NewCall("start", g, p, FALSE) \in Calls
              /\ NewCall("stop", g, NoPreset, FALSE) \in Calls
              /\ NewCall("poll", g, NoPreset, FALSE) \in Calls
      <4>1. /\ NoPreset \in Presets \cup {NoPreset} /\ Presets \subseteq Presets \cup {NoPreset}
            /\ {"start", "stop", "poll"} \subseteq Steps /\ FALSE \in BOOLEAN
        BY DEF Steps
      <4> QED BY <4>1, NewCallType, Zenon
    <3>2. \/ call' = call
          \/ \E g \in Groups : \/ \E p \in Presets : call' = NewCall("start", g, p, FALSE)
                             \/ call' = NewCall("stop", g, NoPreset, FALSE)
                             \/ call' = NewCall("poll", g, NoPreset, FALSE)
      BY <1>2 DEF Request
    <3>3. call \in Calls \cup {Idle}
      BY DEF TypeOK
    <3> QED BY <3>1, <3>2, <3>3, Zenon
  <2>2. autoloading' \subseteq Groups /\ stopping' \subseteq Groups
    BY <1>2 DEF Request, TypeOK
  <2> QED BY <1>2, <2>1, <2>2 DEF Request, TypeOK, groupVars, processVars, outputVars
<1>3. CASE AutoloadNext
  <2>1. known' \subseteq Groups /\ infoOld' \in BOOLEAN
    BY <1>3 DEF AutoloadNext, Refresh, TypeOK
  <2>2. call' \in Calls \cup {Idle}
    <3>1. PICK g \in autoloading : call' \in {NewCall("start", g, config[g], TRUE), Idle}
      BY <1>3 DEF AutoloadNext
    <3>2. config \in [Groups -> Presets \cup {NoPreset}]
      BY <3>1 DEF AutoloadsAreConfigured, TypeOK
    <3>3. g \in Groups /\ config[g] \in Presets \cup {NoPreset}
      BY <3>1, <3>2 DEF TypeOK
    <3>4. NewCall("start", g, config[g], TRUE) \in Calls
      BY <3>3, NewCallType DEF Steps
    <3> QED BY <3>1, <3>4
  <2> QED BY <1>3, <2>1, <2>2 DEF AutoloadNext, TypeOK, processVars, outputVars
<1>4. CASE StopNext
  <2>1. PICK g \in stopping : /\ stopping' = stopping \ {g}
                              /\ call' = NewCall("stop", g, NoPreset, FALSE)
    BY <1>4 DEF StopNext
  <2>2. call' \in Calls
    <3>1. g \in Groups
      BY <2>1 DEF TypeOK
    <3>2. NewCall("stop", g, NoPreset, FALSE) \in Calls
      BY <3>1, NewCallType DEF Steps
    <3> QED BY <2>1, <3>2
  <2> QED BY <1>4, <2>1, <2>2 DEF StopNext, TypeOK, groupVars, processVars, outputVars
<1>5. CASE BeginStart
  <2>1. call \in Calls
    BY <1>5, Serving DEF BeginStart, TypeOK, Steps
  <2>2. known' \subseteq Groups /\ infoOld' \in BOOLEAN
    BY <1>5 DEF BeginStart, Refresh, TypeOK
  <2>3. call' \in Calls \cup {Idle}
    BY <1>5, <2>1, NextStepType DEF BeginStart, Steps
  <2>4. history' \in [Groups -> Histories]
    <3>1. [preset |-> call.preset, recent |-> TRUE] \in Histories
      BY <2>1 DEF Calls, Histories
    <3>2. ASSUME HistoryAfterStart
          PROVE  history' \in [Groups -> Histories]
      <4>1. PICK h \in Histories : history' \in {history, [history EXCEPT ![call.group] = h]}
        BY <3>1, <3>2 DEF HistoryAfterStart
      <4> QED BY <4>1 DEF TypeOK
    <3> QED BY <1>5, <3>2 DEF BeginStart, TypeOK
  <2>5. autoloaded' \in [Groups -> Processes \cup {NoProcess}]
    BY <1>5 DEF BeginStart, Note, TypeOK
  <2> QED BY <1>5, <2>2, <2>3, <2>4, <2>5 DEF BeginStart, TypeOK, processVars, outputVars
<1>6. CASE SendClose
  <2>1. call \in Calls
    BY <1>6, Serving DEF SendClose, TypeOK, Steps
  <2>2. call' \in Calls \cup {Idle}
    BY <1>6, <2>1, NextStepType, AfterStopType DEF SendClose, Steps
  <2>3. closeSent' \in [Processes -> BOOLEAN]
    BY <1>6 DEF SendClose, TypeOK
  <2> QED BY <1>6, <2>2, <2>3 DEF SendClose, TypeOK, groupVars, outputVars
<1>7. CASE Join
  <2>1. call \in Calls
    BY <1>7, Serving DEF Join, TypeOK, Steps
  <2> QED BY <1>7, <2>1, PopTypes DEF Join, outputVars
<1>8. CASE Terminate
  <2>1. call \in Calls
    BY <1>8, Serving DEF Terminate, TypeOK, Steps
  <2> QED BY <1>8, <2>1, PopTypes DEF Terminate
<1>9. CASE Spawn
  <2>1. call \in Calls
    BY <1>9, Serving DEF Spawn, TypeOK, Steps
  <2>2. /\ phase' \in [Processes -> Phases]
        /\ groupOf' \in [Processes -> Groups \cup {NoGroup}]
        /\ presetOf' \in [Processes -> Presets \cup {NoPreset}]
        /\ injectors' \in [Groups -> Processes \cup {NoProcess}]
        /\ autoloaded' \in [Groups -> Processes \cup {NoProcess}]
    BY <1>9, <2>1 DEF Note, Spawn, TypeOK, Phases, Calls
  <2>3. history' \in [Groups -> Histories]
    BY <1>9, <2>1 DEF Spawn, HistoryAfterStart, TypeOK, Histories, Calls
  <2> QED BY <1>9, <2>2, <2>3 DEF Spawn, TypeOK, groupVars, outputVars
<1>10. CASE Poll
  <2>1. call \in Calls
    BY <1>10, Serving DEF Poll, TypeOK, Steps
  <2>2. call' \in Calls \cup {Idle} /\ pipe' \in [Processes -> Seq(States)]
    <3> DEFINE p == injectors[call.group]
    <3>1. CASE p = NoProcess
      BY <1>10, <3>1 DEF Poll, TypeOK
    <3>2. CASE p # NoProcess
      <4>1. p \in Processes
        BY <2>1, <3>2 DEF TypeOK, Calls
      <4>2. pipe[p] # <<>> => pipe[p][Len(pipe[p])] \in States
        BY <4>1 DEF TypeOK
      <4>3. PICK s \in States : call' = [call EXCEPT !.do = "judge", !.seen = s]
        BY <1>10, <3>2, <4>1, <4>2 DEF Poll, TypeOK
      <4>4. <<>> \in Seq(States)
        OBVIOUS
      <4>5. pipe' \in [Processes -> Seq(States)]
        BY <1>10, <3>2, <4>4 DEF Poll, TypeOK
      <4> QED BY <2>1, <4>3, <4>5 DEF Calls, Steps
    <3> QED BY <3>1, <3>2
  <2> QED BY <1>10, <2>2 DEF Poll, TypeOK, groupVars, outputVars
<1>11. CASE Judge
  <2>1. call \in Calls
    BY <1>11, Serving DEF Judge, TypeOK, Steps
  <2>2. state' \in [Processes -> States]
    BY <1>11, <2>1, JudgedType DEF Judge, TypeOK, Calls
  <2> QED BY <1>11, <2>2 DEF Judge, TypeOK, groupVars, outputVars
<1>12. ASSUME NEW p \in Processes, Grab(p)
       PROVE  TypeOK'
  BY <1>12 DEF Grab, Goto, Tell, TypeOK, Phases, States, groupVars, daemonVars, outputVars
<1>13. ASSUME NEW p \in Processes, FailToGrab(p)
       PROVE  TypeOK'
  BY <1>13 DEF FailToGrab, Goto, Tell, TypeOK, Phases, States, groupVars, daemonVars, outputVars
<1>14. ASSUME NEW p \in Processes, Inject(p)
       PROVE  TypeOK'
  <2>1. groupOf[p] \in Groups
    BY <1>14 DEF Inject, Alive, ProcessesHaveGroups
  <2> QED BY <1>14, <2>1 DEF Inject, ResetOutputs, TypeOK, groupVars, daemonVars, processVars
<1>15. ASSUME NEW p \in Processes, Close(p)
       PROVE  TypeOK'
  BY <1>15 DEF Close, Goto, ResetOutputs, TypeOK, Phases, groupVars, daemonVars
<1>16. ASSUME NEW p \in Processes, Exit(p)
       PROVE  TypeOK'
  BY <1>16 DEF Exit, Goto, Tell, TypeOK, Phases, States, groupVars, daemonVars, outputVars
<1>17. ASSUME NEW p \in Processes, FailToRead(p)
       PROVE  TypeOK'
  BY <1>17 DEF FailToRead, Goto, Tell, TypeOK, Phases, States, daemonVars
<1>18. ASSUME NEW p \in Processes, Die(p)
       PROVE  TypeOK'
  BY <1>18 DEF Die, Goto, TypeOK, Phases, groupVars, daemonVars
<1>19. ASSUME NEW g \in Groups, Plug(g)
       PROVE  TypeOK'
  BY <1>19 DEF Plug, TypeOK, daemonVars, processVars, outputVars
<1>20. ASSUME NEW g \in Groups, Unplug(g)
       PROVE  TypeOK'
  BY <1>20 DEF Unplug, TypeOK, Phases, daemonVars
<1>21. ASSUME NEW g \in Groups, HistoryAges(g)
       PROVE  TypeOK'
  BY <1>21 DEF HistoryAges, TypeOK, Histories, groupVars, processVars, outputVars
<1>22. CASE InfoAges
  BY <1>22 DEF InfoAges, TypeOK, daemonVars, processVars, outputVars
<1>23. CASE UNCHANGED vars
  BY <1>23 DEF TypeOK, vars, groupVars, daemonVars, processVars, outputVars
<1> QED BY <1>1, <1>2, <1>3, <1>4, <1>5, <1>6, <1>7, <1>8, <1>9, <1>10, <1>11, <1>12, <1>13,
           <1>14, <1>15, <1>16, <1>17, <1>18, <1>19, <1>20, <1>21, <1>22, <1>23
        DEF Next, ServeCall

-----------------------------------------------------------------------------
(* Every step preserves the invariant.                                     *)

\* What the processes, the devices and the clock do to the daemon: no process comes
\* to life, and the history only ages.
LEMMA Elsewhere ==
    ASSUME Inv,
           UNCHANGED <<injectors, call, autoloading, groupOf>>,
           config' = config \/ config' # NoConfig,
           \A p \in Processes : Alive(p)' => Alive(p),
           \A g \in Groups : history'[g] = history[g] \/ ~history'[g].recent
    PROVE  (ProcessesHaveGroups /\ AutoloadsAreConfigured /\ SpawnsAlone
               /\ LiveInjectorIsKnown /\ AutoloadIsDue)'
<1>1. (ProcessesHaveGroups /\ LiveInjectorIsKnown)'
  BY DEF Inv, Typed, ProcessesHaveGroups, LiveInjectorIsKnown
<1>2. (AutoloadsAreConfigured /\ SpawnsAlone)'
  BY DEF Inv, Typed, AutoloadsAreConfigured, SpawnsAlone
<1>3. AutoloadIsDue'
  BY DEF Inv, Typed, TypeOK, Calls, Idle, AutoloadIsDue
<1> QED BY <1>1, <1>2, <1>3

\* The end of stop_injecting leaves the group without an injector.
LEMMA PopStep ==
    ASSUME Inv, call \in Calls, Pop(injectors[call.group])
    PROVE  (ProcessesHaveGroups /\ AutoloadsAreConfigured /\ SpawnsAlone
               /\ LiveInjectorIsKnown /\ AutoloadIsDue)'
<1> DEFINE p == injectors[call.group]
<1>1. call.group \in Groups /\ TypeOK
  BY DEF Inv, Typed, Calls
<1>2. \A q \in Processes : Alive(q)' => Alive(q) /\ q # p /\ groupOf'[q] = groupOf[q]
  BY <1>1 DEF Pop, Alive, TypeOK
<1>3. (ProcessesHaveGroups /\ LiveInjectorIsKnown)'
  BY <1>1, <1>2 DEF Inv, Typed, Pop, ProcessesHaveGroups, LiveInjectorIsKnown, TypeOK
<1>4. call' = Idle \/ (call'.do = "spawn" /\ call'.group = call.group)
  BY NextStepType DEF Pop, AfterStop, Steps
<1>5. (AutoloadsAreConfigured /\ SpawnsAlone /\ AutoloadIsDue)'
  BY <1>1, <1>4 DEF Inv, Typed, Pop, AutoloadsAreConfigured, SpawnsAlone, AutoloadIsDue, TypeOK,
                    groupVars, Idle
<1> QED BY <1>3, <1>5

LEMMA InvStep ==
    ASSUME Inv, [Next]_vars
    PROVE  Inv'
<1> USE DaemonAssumption
<1>0. TypeOK /\ TypeOK'
  BY TypeStep DEF Inv, Typed
<1> DEFINE Rest == ProcessesHaveGroups /\ AutoloadsAreConfigured /\ SpawnsAlone
                       /\ LiveInjectorIsKnown /\ AutoloadIsDue
<1> SUFFICES Rest'
  BY <1>0 DEF Inv, Typed
<1>1. CASE SetConfigDir
  <2>1. config' # NoConfig
    BY <1>1 DEF SetConfigDir
  <2> QED BY <1>1, <2>1, Elsewhere DEF SetConfigDir, daemonVars, processVars, Alive
<1>2. CASE Request
  <2>1. /\ UNCHANGED <<config, injectors, history, phase, groupOf>>
        /\ Free
        /\ autoloading' = autoloading \/ config # NoConfig
    BY <1>2 DEF Request, groupVars, processVars
  <2>2. \/ call' = call
        \/ call'.do \in {"start", "stop", "poll"} /\ ~call'.auto
    BY <1>2 DEF Request, NewCall
  <2>3. (ProcessesHaveGroups /\ LiveInjectorIsKnown)'
    BY <2>1 DEF Inv, Typed, ProcessesHaveGroups, LiveInjectorIsKnown, Alive
  <2>4. (AutoloadsAreConfigured /\ SpawnsAlone /\ AutoloadIsDue)'
    BY <2>1, <2>2 DEF Inv, Typed, AutoloadsAreConfigured, SpawnsAlone, AutoloadIsDue
  <2> QED BY <2>3, <2>4
<1>3. CASE AutoloadNext
  <2>1. /\ UNCHANGED <<config, injectors, history, phase, groupOf>>
        /\ autoloading # {}
    BY <1>3 DEF AutoloadNext, processVars
  <2>2. PICK g \in autoloading :
           \/ call' = Idle
           \/ call' = NewCall("start", g, config[g], TRUE) /\ MayAutoload(g, config[g])
    BY <1>3 DEF AutoloadNext
  <2>3. (ProcessesHaveGroups /\ LiveInjectorIsKnown)'
    BY <2>1 DEF Inv, Typed, ProcessesHaveGroups, LiveInjectorIsKnown, Alive
  <2>4. (AutoloadsAreConfigured /\ SpawnsAlone /\ AutoloadIsDue)'
    BY <2>1, <2>2
    DEF Inv, Typed, AutoloadsAreConfigured, SpawnsAlone, AutoloadIsDue, NewCall, Idle, MayAutoload
  <2> QED BY <2>3, <2>4
<1>4. CASE StopNext
  <2>1. UNCHANGED <<config, injectors, history, autoloading, phase, groupOf>>
    BY <1>4 DEF StopNext, groupVars, processVars
  <2>2. call'.do = "stop" /\ ~call'.auto
    BY <1>4 DEF StopNext, NewCall
  <2>3. (ProcessesHaveGroups /\ LiveInjectorIsKnown)'
    BY <2>1 DEF Inv, Typed, ProcessesHaveGroups, LiveInjectorIsKnown, Alive
  <2>4. (AutoloadsAreConfigured /\ SpawnsAlone /\ AutoloadIsDue)'
    BY <2>1, <2>2 DEF Inv, Typed, AutoloadsAreConfigured, SpawnsAlone, AutoloadIsDue
  <2> QED BY <2>3, <2>4
<1>5. CASE BeginStart
  <2>1. UNCHANGED <<config, injectors, autoloading, phase, groupOf>>
    BY <1>5 DEF BeginStart, processVars
  <2>2. call \in Calls /\ call.do = "start"
    BY <1>0, <1>5, Serving DEF BeginStart, TypeOK, Steps
  <2>3. (ProcessesHaveGroups /\ LiveInjectorIsKnown /\ AutoloadsAreConfigured)'
    BY <2>1
    DEF Inv, Typed, ProcessesHaveGroups, LiveInjectorIsKnown, AutoloadsAreConfigured, Alive
  <2>4. \/ call' = Idle
        \/ /\ injectors[call.group] # NoProcess
           /\ call' = [call EXCEPT !.do = "stop", !.restart = TRUE]
           /\ history' = history
        \/ /\ injectors[call.group] = NoProcess
           /\ call' = [call EXCEPT !.do = "spawn"]
    BY <1>5 DEF BeginStart
  <2>5. /\ [call EXCEPT !.do = "spawn"].do = "spawn"
        /\ [call EXCEPT !.do = "spawn"].group = call.group
        /\ [call EXCEPT !.do = "stop", !.restart = TRUE].do = "stop"
        /\ [call EXCEPT !.do = "stop", !.restart = TRUE].group = call.group
        /\ [call EXCEPT !.do = "stop", !.restart = TRUE].preset = call.preset
        /\ [call EXCEPT !.do = "stop", !.restart = TRUE].auto = call.auto
    BY <2>2 DEF Calls
  <2>6. (SpawnsAlone /\ AutoloadIsDue)'
    <3>1. CASE call' = Idle
      BY <3>1 DEF SpawnsAlone, AutoloadIsDue, Idle
    <3>2. CASE call' = [call EXCEPT !.do = "spawn"] /\ injectors[call.group] = NoProcess
      <4>1. call'.do = "spawn" /\ call'.group = call.group
        BY <2>5, <3>2
      <4> QED BY <2>1, <3>2, <4>1 DEF SpawnsAlone, AutoloadIsDue
    <3>3. CASE /\ call' = [call EXCEPT !.do = "stop", !.restart = TRUE]
               /\ history' = history
      <4>1. /\ call'.do = "stop" /\ call'.group = call.group
            /\ call'.preset = call.preset /\ call'.auto = call.auto
        BY <2>5, <3>3
      <4> QED BY <2>2, <3>3, <4>1 DEF Inv, SpawnsAlone, AutoloadIsDue
    <3> QED BY <2>4, <3>1, <3>2, <3>3
  <2> QED BY <2>3, <2>6
<1>6. CASE SendClose
  <2>1. UNCHANGED <<config, injectors, history, autoloading, phase, groupOf>>
    BY <1>6 DEF SendClose, groupVars
  <2>2. call \in Calls
    BY <1>0, <1>6, Serving DEF SendClose, TypeOK, Steps
  <2>3. (ProcessesHaveGroups /\ LiveInjectorIsKnown /\ AutoloadsAreConfigured)'
    BY <2>1
    DEF Inv, Typed, ProcessesHaveGroups, LiveInjectorIsKnown, AutoloadsAreConfigured, Alive
  <2>4. \/ injectors[call.group] = NoProcess /\ call' = AfterStop
        \/ call' = [call EXCEPT !.do = "wait"]
    BY <1>6 DEF SendClose
  <2>5. \/ call' = Idle
        \/ /\ injectors[call.group] = NoProcess
           /\ call'.do = "spawn" /\ call'.group = call.group
        \/ call'.do = "wait"
    BY <2>2, <2>4, NextStepType DEF AfterStop, Steps
  <2>6. (SpawnsAlone /\ AutoloadIsDue)'
    BY <2>1, <2>5 DEF SpawnsAlone, AutoloadIsDue, Idle
  <2> QED BY <2>3, <2>6
<1>7. CASE Join \/ Terminate
  <2>1. call \in Calls /\ Pop(injectors[call.group])
    BY <1>0, <1>7, Serving DEF Join, Terminate, TypeOK, Steps
  <2> QED BY <2>1, PopStep
<1>8. CASE Spawn
  <2>1. call \in Calls /\ call.do = "spawn" /\ call.group \in Groups
    BY <1>0, <1>8, Serving DEF Spawn, TypeOK, Steps, Calls
  <2>2. PICK p \in Processes :
           /\ phase[p] = "free"
           /\ phase' = [phase EXCEPT ![p] = "starting"]
           /\ groupOf' = [groupOf EXCEPT ![p] = call.group]
           /\ injectors' = [injectors EXCEPT ![call.group] = p]
    BY <1>8 DEF Spawn
  <2>3. /\ groupOf'[p] = call.group /\ injectors'[call.group] = p
        /\ \A q \in Processes \ {p} : Alive(q)' = Alive(q) /\ groupOf'[q] = groupOf[q]
        /\ \A g \in Groups \ {call.group} : injectors'[g] = injectors[g]
    BY <1>0, <2>1, <2>2 DEF TypeOK, Alive
  <2>4. injectors[call.group] = NoProcess
    BY <2>1 DEF Inv, SpawnsAlone
  <2>5. ProcessesHaveGroups'
    BY <2>1, <2>3 DEF Inv, Typed, ProcessesHaveGroups
  <2>6. LiveInjectorIsKnown'
    BY <2>3, <2>4 DEF Inv, Typed, ProcessesHaveGroups, LiveInjectorIsKnown
  <2>7. (AutoloadsAreConfigured /\ SpawnsAlone /\ AutoloadIsDue)'
    BY <1>8 DEF Spawn, Inv, Typed, AutoloadsAreConfigured, SpawnsAlone, AutoloadIsDue, Idle, groupVars
  <2> QED BY <2>5, <2>6, <2>7
<1>9. CASE Poll \/ Judge
  <2>1. UNCHANGED <<config, injectors, history, autoloading, phase, groupOf>>
    BY <1>9 DEF Poll, Judge, groupVars
  <2>2. call' = Idle \/ call'.do = "judge"
    <3>1. call \in Calls
      BY <1>0, <1>9, Serving DEF Poll, Judge, TypeOK, Steps
    <3>2. \A s : [call EXCEPT !.do = "judge", !.seen = s].do = "judge"
      BY <3>1 DEF Calls
    <3> QED BY <1>9, <3>2 DEF Poll, Judge
  <2>3. (ProcessesHaveGroups /\ LiveInjectorIsKnown /\ AutoloadsAreConfigured)'
    BY <2>1
    DEF Inv, Typed, ProcessesHaveGroups, LiveInjectorIsKnown, AutoloadsAreConfigured, Alive
  <2>4. (SpawnsAlone /\ AutoloadIsDue)'
    BY <2>1, <2>2 DEF SpawnsAlone, AutoloadIsDue, Idle
  <2> QED BY <2>3, <2>4
<1>10. ASSUME NEW p \in Processes, Grab(p) \/ FailToGrab(p) \/ Close(p) \/ Exit(p)
                                     \/ FailToRead(p) \/ Die(p)
       PROVE  Rest'
  <2>1. UNCHANGED <<injectors, call, autoloading, groupOf, config, history>>
    BY <1>10 DEF Grab, FailToGrab, Close, Exit, FailToRead, Die, groupVars, daemonVars
  <2>2. Alive(p) /\ \A q \in Processes \ {p} : phase'[q] = phase[q]
    BY <1>0, <1>10 DEF Grab, FailToGrab, Close, Exit, FailToRead, Die, Goto, Alive, TypeOK
  <2>3. \A q \in Processes : Alive(q)' => Alive(q)
    BY <2>2 DEF Alive
  <2> QED BY <2>1, <2>3, Elsewhere
<1>11. ASSUME NEW p \in Processes, Inject(p)
       PROVE  Rest'
  BY <1>11, Elsewhere DEF Inject, groupVars, daemonVars, processVars, Alive
<1>12. ASSUME NEW g \in Groups, Plug(g)
       PROVE  Rest'
  BY <1>12, Elsewhere DEF Plug, daemonVars, processVars, Alive
<1>13. ASSUME NEW g \in Groups, Unplug(g)
       PROVE  Rest'
  <2>1. UNCHANGED <<injectors, call, autoloading, groupOf, config, history>>
    BY <1>13 DEF Unplug, daemonVars
  <2>2. \A p \in Processes : Alive(p)' => Alive(p)
    BY <1>13 DEF Unplug, Alive
  <2> QED BY <2>1, <2>2, Elsewhere
<1>14. ASSUME NEW g \in Groups, HistoryAges(g)
       PROVE  Rest'
  <2>1. UNCHANGED <<injectors, call, autoloading, groupOf, config, phase>>
    BY <1>14 DEF HistoryAges, groupVars, processVars
  <2>2. \A h \in Groups : history'[h] = history[h] \/ ~history'[h].recent
    BY <1>0, <1>14 DEF HistoryAges, TypeOK, Histories
  <2> QED BY <2>1, <2>2, Elsewhere DEF Alive
<1>15. CASE InfoAges \/ UNCHANGED vars
  BY <1>15, Elsewhere DEF InfoAges, vars, groupVars, daemonVars, processVars, Alive
<1> QED BY <1>1, <1>2, <1>3, <1>4, <1>5, <1>6, <1>7, <1>8, <1>9, <1>10, <1>11, <1>12, <1>13,
           <1>14, <1>15
        DEF Next, ServeCall

-----------------------------------------------------------------------------
(* The theorems.                                                           *)

LEMMA InvInit == Init => Inv
<1> SUFFICES ASSUME Init PROVE Inv
  OBVIOUS
<1> USE DaemonAssumption
<1>1. <<>> \in Seq(States) /\ "UNKNOWN" \in States /\ Forgotten \in Histories
  BY DEF States, Forgotten, Histories
<1>2. TypeOK
  BY <1>1 DEF Init, TypeOK, Phases
<1>3. \A p \in Processes : ~Alive(p)
  BY DEF Init, Alive
<1> QED BY <1>2, <1>3 DEF Init, Inv, Typed, ProcessesHaveGroups, AutoloadsAreConfigured, SpawnsAlone,
                        LiveInjectorIsKnown, AutoloadIsDue, Idle

\* The steps of the daemon's calls, with everything around them, keep the invariant.
THEOREM Invariance == Spec => []Inv
<1>1. Init => Inv
  BY InvInit
<1>2. Inv /\ [Next]_vars => Inv'
  BY InvStep
<1> QED BY <1>1, <1>2, PTL DEF Spec

\* The daemon's tables, its call and the processes stay in their types.
THEOREM TypeCorrect == Spec => []TypeOK
<1>1. Inv => TypeOK
  BY DEF Inv, Typed
<1> QED BY <1>1, Invariance, PTL

\* No process injects that the daemon does not hold as the injector of its group
\* (Daemon.injectors), however slow the processes are, and whatever crashes.
THEOREM LiveInjectorsAreKnown == Spec => []LiveInjectorIsKnown
<1>1. Inv => LiveInjectorIsKnown
  BY DEF Inv
<1> QED BY <1>1, Invariance, PTL

-----------------------------------------------------------------------------
(* What the history remembers is what was autoloaded.                      *)

\* An injector of the daemon is a process of that group, alive or not joined yet.
InjectorsAreUsed ==
    \A g \in Groups :
        injectors[g] # NoProcess => phase[injectors[g]] # "free" /\ groupOf[injectors[g]] = g

\* As long as the process of an autoload is young, it is the group's injector and the
\* history knows its preset.
AutoloadsAreRemembered ==
    \A g \in Groups :
        autoloaded[g] # NoProcess =>
            /\ injectors[g] = autoloaded[g]
            /\ history[g].recent
            /\ history[g].preset = presetOf[autoloaded[g]]

LEMMA MemoryStep ==
    ASSUME Inv, InjectorsAreUsed, AutoloadsAreRemembered, [Next]_vars
    PROVE  (InjectorsAreUsed /\ AutoloadsAreRemembered)'
<1> TypeOK
  BY DEF Inv, Typed
<1> USE DaemonAssumption
<1> DEFINE Kept == (InjectorsAreUsed /\ AutoloadsAreRemembered)'
\* What happens elsewhere: no process is joined or started.
<1>1. ASSUME UNCHANGED <<injectors, autoloaded, history, groupOf, presetOf>>,
             \A p \in Processes : phase'[p] = "free" => phase[p] = "free"
      PROVE  Kept
  BY <1>1 DEF InjectorsAreUsed, AutoloadsAreRemembered, TypeOK
<1>2. CASE SetConfigDir \/ Request \/ AutoloadNext \/ StopNext \/ SendClose \/ Poll \/ Judge
               \/ InfoAges \/ UNCHANGED vars
  BY <1>1, <1>2 DEF SetConfigDir, Request, AutoloadNext, StopNext, SendClose, Poll, Judge,
                    InfoAges, vars, daemonVars, processVars
<1>3. CASE BeginStart
  <2>1. call \in Calls /\ call.group \in Groups
    BY <1>3, Serving DEF BeginStart, TypeOK, Steps, Calls
  <2>2. UNCHANGED <<injectors, groupOf, presetOf, phase>>
    BY <1>3 DEF BeginStart, processVars
  <2>3. CASE UNCHANGED <<history, autoloaded>>
    BY <1>1, <2>2, <2>3
  <2>4. CASE HistoryAfterStart /\ Note(NoProcess)
    <3>1. CASE ~call.auto
      BY <1>1, <2>2, <2>4, <3>1 DEF HistoryAfterStart, Note
    <3>2. CASE call.auto
      <4>1. autoloaded'[call.group] = NoProcess
        BY <2>1, <2>4, <3>2 DEF Note, TypeOK
      <4>2. \A g \in Groups \ {call.group} :
                autoloaded'[g] = autoloaded[g] /\ history'[g] = history[g]
        BY <2>1, <2>4, <3>2 DEF Note, HistoryAfterStart, TypeOK
      <4> QED BY <2>2, <4>1, <4>2 DEF InjectorsAreUsed, AutoloadsAreRemembered
    <3> QED BY <3>1, <3>2
  <2> QED BY <1>3, <2>3, <2>4 DEF BeginStart
<1>4. CASE Join \/ Terminate
  <2> DEFINE p == injectors[call.group]
  <2>1. call \in Calls /\ call.group \in Groups /\ Pop(p)
    BY <1>4, Serving DEF Join, Terminate, TypeOK, Steps, Calls
  <2>2. injectors'[call.group] = NoProcess /\ autoloaded'[call.group] = NoProcess
    BY <2>1 DEF Pop, TypeOK
  <2>3. ASSUME NEW g \in Groups \ {call.group}
        PROVE  /\ injectors'[g] = injectors[g] /\ autoloaded'[g] = autoloaded[g]
               /\ history'[g] = history[g]
               /\ injectors[g] # NoProcess => injectors[g] # p
    BY <2>1 DEF Pop, TypeOK, InjectorsAreUsed
  <2>4. \A q \in Processes \ {p} :
            phase'[q] = phase[q] /\ groupOf'[q] = groupOf[q] /\ presetOf'[q] = presetOf[q]
    BY <2>1 DEF Pop, TypeOK
  <2>5. InjectorsAreUsed'
    BY <2>2, <2>3, <2>4 DEF InjectorsAreUsed, TypeOK
  <2>6. AutoloadsAreRemembered'
    <3>1. SUFFICES ASSUME NEW g \in Groups, autoloaded'[g] # NoProcess
                   PROVE  /\ injectors'[g] = autoloaded'[g]
                          /\ history'[g].recent
                          /\ history'[g].preset = presetOf'[autoloaded'[g]]
      BY DEF AutoloadsAreRemembered
    <3>2. g # call.group
      BY <2>2, <3>1
    <3>3. /\ injectors'[g] = injectors[g] /\ autoloaded'[g] = autoloaded[g]
          /\ history'[g] = history[g] /\ injectors[g] = autoloaded[g]
          /\ history[g].recent /\ history[g].preset = presetOf[autoloaded[g]]
      BY <2>3, <3>1, <3>2 DEF AutoloadsAreRemembered
    <3>4. autoloaded[g] \in Processes \ {p}
      BY <2>3, <3>1, <3>2, <3>3 DEF TypeOK
    <3>5. presetOf'[autoloaded[g]] = presetOf[autoloaded[g]]
      BY <2>4, <3>4
    <3> QED BY <3>3, <3>5
  <2> QED BY <2>5, <2>6
<1>5. CASE Spawn
  <2>1. call \in Calls /\ call.group \in Groups /\ injectors[call.group] = NoProcess
    BY <1>5, Serving DEF Spawn, TypeOK, Steps, Calls, Inv, SpawnsAlone
  <2>2. PICK p \in Processes :
           /\ phase[p] = "free"
           /\ phase' = [phase EXCEPT ![p] = "starting"]
           /\ groupOf' = [groupOf EXCEPT ![p] = call.group]
           /\ presetOf' = [presetOf EXCEPT ![p] = call.preset]
           /\ injectors' = [injectors EXCEPT ![call.group] = p]
           /\ Note(p)
    BY <1>5 DEF Spawn
  <2>3. ASSUME NEW g \in Groups \ {call.group}
        PROVE  /\ injectors'[g] = injectors[g] /\ autoloaded'[g] = autoloaded[g]
               /\ history'[g] = history[g]
               /\ injectors[g] # NoProcess => injectors[g] # p
    BY <1>5, <2>1, <2>2 DEF Spawn, HistoryAfterStart, Note, TypeOK, InjectorsAreUsed
  <2>4. \A q \in Processes \ {p} :
            phase'[q] = phase[q] /\ groupOf'[q] = groupOf[q] /\ presetOf'[q] = presetOf[q]
    BY <2>2 DEF TypeOK
  <2>5. /\ phase'[p] = "starting" /\ groupOf'[p] = call.group /\ presetOf'[p] = call.preset
        /\ injectors'[call.group] = p
    BY <2>1, <2>2 DEF TypeOK
  <2>6. InjectorsAreUsed'
    <3>1. ASSUME NEW g \in Groups \ {call.group}, injectors'[g] # NoProcess
          PROVE  phase'[injectors'[g]] # "free" /\ groupOf'[injectors'[g]] = g
      <4>1. injectors'[g] = injectors[g] /\ injectors[g] \in Processes \ {p}
        BY <2>3, <3>1 DEF TypeOK
      <4>2. phase[injectors[g]] # "free" /\ groupOf[injectors[g]] = g
        BY <3>1, <4>1 DEF InjectorsAreUsed
      <4> QED BY <2>4, <4>1, <4>2
    <3> QED BY <2>5, <3>1 DEF InjectorsAreUsed
  <2>7. autoloaded[call.group] = NoProcess
    BY <2>1 DEF AutoloadsAreRemembered
  <2>a. ASSUME NEW g \in Groups \ {call.group}, autoloaded'[g] # NoProcess
        PROVE  /\ injectors'[g] = autoloaded'[g]
               /\ history'[g].recent
               /\ history'[g].preset = presetOf'[autoloaded'[g]]
    <3>1. /\ injectors'[g] = injectors[g] /\ autoloaded'[g] = autoloaded[g]
          /\ history'[g] = history[g] /\ injectors[g] = autoloaded[g]
          /\ history[g].recent /\ history[g].preset = presetOf[autoloaded[g]]
      BY <2>3, <2>a DEF AutoloadsAreRemembered
    <3>2. autoloaded[g] \in Processes \ {p}
      BY <2>3, <2>a, <3>1 DEF TypeOK
    <3>3. presetOf'[autoloaded[g]] = presetOf[autoloaded[g]]
      BY <2>4, <3>2
    <3> QED BY <3>1, <3>3
  <2>8. CASE call.auto
    <3>1. /\ autoloaded'[call.group] = p
          /\ history'[call.group].recent /\ history'[call.group].preset = call.preset
      BY <1>5, <2>1, <2>2, <2>8 DEF Spawn, HistoryAfterStart, Note, TypeOK
    <3>2. /\ injectors'[call.group] = autoloaded'[call.group]
          /\ history'[call.group].preset = presetOf'[autoloaded'[call.group]]
      BY <2>5, <3>1
    <3> QED BY <2>a, <2>6, <3>1, <3>2 DEF AutoloadsAreRemembered
  <2>9. CASE ~call.auto
    <3>1. autoloaded'[call.group] = NoProcess
      BY <2>2, <2>7, <2>9 DEF Note
    <3> QED BY <2>a, <2>6, <3>1 DEF AutoloadsAreRemembered
  <2> QED BY <2>8, <2>9
<1>6. ASSUME NEW p \in Processes,
             Grab(p) \/ FailToGrab(p) \/ Close(p) \/ Exit(p) \/ FailToRead(p) \/ Die(p)
      PROVE  Kept
  <2>1. UNCHANGED <<injectors, autoloaded, history, groupOf, presetOf>>
    BY <1>6 DEF Grab, FailToGrab, Close, Exit, FailToRead, Die, daemonVars
  <2>2. \A q \in Processes : phase'[q] = "free" => phase[q] = "free"
    BY <1>6 DEF Grab, FailToGrab, Close, Exit, FailToRead, Die, Goto, TypeOK
  <2> QED BY <1>1, <2>1, <2>2
<1>7. ASSUME NEW p \in Processes, Inject(p)
      PROVE  Kept
  BY <1>1, <1>7 DEF Inject, daemonVars, processVars
<1>8. ASSUME NEW g \in Groups, Plug(g) \/ Unplug(g)
      PROVE  Kept
  BY <1>1, <1>8 DEF Plug, Unplug, daemonVars, processVars
<1>9. ASSUME NEW g \in Groups, HistoryAges(g)
      PROVE  Kept
  <2>1. UNCHANGED <<injectors, groupOf, presetOf, phase>>
    BY <1>9 DEF HistoryAges, processVars
  <2>2. autoloaded'[g] = NoProcess
    BY <1>9 DEF HistoryAges, TypeOK
  <2>3. \A h \in Groups \ {g} : autoloaded'[h] = autoloaded[h] /\ history'[h] = history[h]
    BY <1>9 DEF HistoryAges, TypeOK
  <2> QED BY <2>1, <2>2, <2>3 DEF InjectorsAreUsed, AutoloadsAreRemembered
<1> QED BY <1>2, <1>3, <1>4, <1>5, <1>6, <1>7, <1>8, <1>9 DEF Next, ServeCall

\* Daemon._autoload remembers every autoload until its process is stopped or 15 s old: it
\* does not replace that process by the same preset, whatever stops and starts come between.
THEOREM AutoloadsAreNotRedundant == Spec => []NoRedundantAutoload
<1>1. Init => InjectorsAreUsed /\ AutoloadsAreRemembered
  BY DEF Init, InjectorsAreUsed, AutoloadsAreRemembered
<1>2. Inv /\ InjectorsAreUsed /\ AutoloadsAreRemembered /\ [Next]_vars
          => (InjectorsAreUsed /\ AutoloadsAreRemembered)'
  BY MemoryStep
<1>3. Inv /\ AutoloadsAreRemembered => NoRedundantAutoload
  BY DEF Inv, AutoloadIsDue, AutoloadsAreRemembered, NoRedundantAutoload
<1> QED BY <1>1, <1>2, <1>3, Invariance, PTL DEF Spec

-----------------------------------------------------------------------------
(* No output is left behind, as long as every process closes orderly: in   *)
(* 2.5 s, without an exception, and without a read that fails.             *)

Orderly == ~SlowClose /\ ~ReadMayFail /\ ~MayCrash

\* Only the readers inject; they reset before the process goes on to its end.
HoldersRead == \A p \in holding : phase[p] = "reading"

LEMMA OutputsStep ==
    ASSUME Orderly, Inv, HoldersRead, OutputsHaveAnOwner, [Next]_vars
    PROVE  (HoldersRead /\ OutputsHaveAnOwner)'
<1> TypeOK /\ LiveInjectorIsKnown /\ ProcessesHaveGroups
  BY DEF Inv, Typed
<1> USE DaemonAssumption
<1> DEFINE Kept == (HoldersRead /\ OutputsHaveAnOwner)'
<1>1. ASSUME UNCHANGED <<phase, groupOf, holding, outDown>>
      PROVE  Kept
  BY <1>1 DEF HoldersRead, OutputsHaveAnOwner, Owned, Alive
<1>2. ASSUME NEW p, phase[p] # "reading",
             \A q \in Processes \ {p} : phase'[q] = phase[q] /\ groupOf'[q] = groupOf[q],
             holding' = holding \/ holding' = holding \ {p},
             UNCHANGED outDown
      PROVE  Kept
  BY <1>2 DEF HoldersRead, OutputsHaveAnOwner, Owned, Alive, TypeOK
<1>3. CASE SetConfigDir \/ Request \/ AutoloadNext \/ StopNext \/ BeginStart \/ SendClose
               \/ Poll \/ Judge
  BY <1>1, <1>3
  DEF SetConfigDir, Request, AutoloadNext, StopNext, BeginStart, SendClose, Poll, Judge,
      processVars, outputVars
<1>4. CASE Join \/ Terminate
  <2> DEFINE p == injectors[call.group]
  <2>1. phase[p] # "reading" /\ UNCHANGED outDown
    BY <1>4 DEF Join, Terminate, Orderly, outputVars, Alive
  <2>2. /\ phase' = [phase EXCEPT ![p] = "free"]
        /\ groupOf' = [groupOf EXCEPT ![p] = NoGroup]
        /\ holding' = holding \/ holding' = holding \ {p}
    BY <1>4 DEF Join, Terminate, Pop, outputVars
  <2>3. \A q \in Processes \ {p} : phase'[q] = phase[q] /\ groupOf'[q] = groupOf[q]
    BY <2>2 DEF TypeOK
  <2> QED BY <1>2, <2>1, <2>2, <2>3
<1>5. CASE Spawn
  <2>1. PICK p \in Processes : /\ phase[p] = "free"
                               /\ phase' = [phase EXCEPT ![p] = "starting"]
                               /\ groupOf' = [groupOf EXCEPT ![p] = call.group]
    BY <1>5 DEF Spawn
  <2> QED BY <1>2, <1>5, <2>1 DEF Spawn, outputVars, TypeOK
<1>6. ASSUME NEW p \in Processes, Grab(p) \/ FailToGrab(p) \/ Exit(p)
      PROVE  Kept
  <2>1. phase[p] # "reading" /\ UNCHANGED <<groupOf, holding, outDown>>
    BY <1>6 DEF Grab, FailToGrab, Exit, outputVars
  <2>2. \A q \in Processes \ {p} : phase'[q] = phase[q] /\ groupOf'[q] = groupOf[q]
    BY <1>6, <2>1 DEF Grab, FailToGrab, Exit, Goto, TypeOK
  <2> QED BY <1>2, <2>1, <2>2
<1>7. ASSUME NEW p \in Processes, Inject(p)
      PROVE  Kept
  <2>1. UNCHANGED <<phase, groupOf>> /\ phase[p] = "reading"
    BY <1>7 DEF Inject, processVars
  <2>2. HoldersRead'
    BY <1>7, <2>1 DEF Inject, ResetOutputs, HoldersRead
  <2>3. OutputsHaveAnOwner'
    <3>1. CASE p \in holding
      <4>1. holding' = holding \ {p} /\ outDown' = outDown \ {groupOf[p]}
        BY <1>7, <3>1 DEF Inject, ResetOutputs
      <4> QED BY <2>1, <4>1 DEF OutputsHaveAnOwner, Owned, Alive
    <3>2. CASE p \notin holding
      <4>1. holding' = holding \cup {p} /\ outDown' = outDown \cup {groupOf[p]}
        BY <1>7, <3>2 DEF Inject
      <4>2. Alive(p)'
        BY <2>1 DEF Alive
      <4> QED BY <2>1, <4>1, <4>2 DEF OutputsHaveAnOwner, Owned, Alive
    <3> QED BY <3>1, <3>2
  <2> QED BY <2>2, <2>3
<1>8. ASSUME NEW p \in Processes, Close(p)
      PROVE  Kept
  <2>1. /\ phase[p] \in {"reading", "deserted"}
        /\ phase' = [phase EXCEPT ![p] = "closing"] /\ UNCHANGED groupOf
        /\ holding' = holding \ {p}
        /\ outDown' = IF p \in holding THEN outDown \ {groupOf[p]} ELSE outDown
    BY <1>8 DEF Close, Goto, ResetOutputs
  <2>2. HoldersRead'
    BY <2>1 DEF HoldersRead, TypeOK
  <2>3. OutputsHaveAnOwner'
    BY <2>1 DEF OutputsHaveAnOwner, Owned, Alive, TypeOK
  <2> QED BY <2>2, <2>3
<1>9. ASSUME NEW p \in Processes, FailToRead(p) \/ Die(p)
      PROVE  Kept
  BY <1>9 DEF FailToRead, Die, Orderly
<1>10. ASSUME NEW g \in Groups, Unplug(g)
       PROVE  Kept
  <2> DEFINE left == {p \in Processes : phase[p] = "reading" /\ groupOf[p] = g}
  <2>1. /\ phase' = [p \in Processes |-> IF p \in left THEN "deserted" ELSE phase[p]]
        /\ holding' = holding \ left
        /\ outDown' = IF left \cap holding # {} THEN outDown \ {g} ELSE outDown
        /\ UNCHANGED groupOf
    BY <1>10 DEF Unplug
  <2>2. HoldersRead'
    BY <2>1 DEF HoldersRead, TypeOK
  <2>3. ASSUME NEW h \in outDown'
        PROVE  \E p \in holding' : Alive(p)' /\ groupOf'[p] = h
    <3>1. PICK p \in holding : Alive(p) /\ groupOf[p] = h
      BY <2>1, <2>3 DEF OutputsHaveAnOwner, Owned
    <3>2. p \in Processes /\ phase[p] = "reading"
      BY DEF HoldersRead, TypeOK
    <3>3. p \notin left
      <4>1. SUFFICES ASSUME p \in left PROVE FALSE
        OBVIOUS
      <4>2. outDown' = outDown \ {g} /\ h # g
        BY <2>1, <2>3, <4>1
      <4>3. h = g
        BY <3>1, <4>1
      <4> QED BY <4>2, <4>3
    <3> QED BY <2>1, <3>1, <3>2, <3>3 DEF Alive
  <2> QED BY <2>2, <2>3 DEF OutputsHaveAnOwner, Owned
<1>11. ASSUME NEW g \in Groups, Plug(g) \/ HistoryAges(g)
       PROVE  Kept
  BY <1>1, <1>11 DEF Plug, HistoryAges, processVars, outputVars
<1>12. CASE InfoAges \/ UNCHANGED vars
  BY <1>1, <1>12 DEF InfoAges, vars, processVars, outputVars
<1> QED BY <1>3, <1>4, <1>5, <1>6, <1>7, <1>8, <1>9, <1>10, <1>11, <1>12 DEF Next, ServeCall

\* Where processes close orderly, no output that an injection pressed stays down
\* after it: every one belongs to a handler that will be released or reset.
THEOREM OutputsHaveOwners ==
    ASSUME Orderly
    PROVE  Spec => []OutputsHaveAnOwner
<1>1. Init => HoldersRead /\ OutputsHaveAnOwner
  BY DEF Init, HoldersRead, OutputsHaveAnOwner, Owned
<1>2. Inv /\ HoldersRead /\ OutputsHaveAnOwner /\ [Next]_vars
          => (HoldersRead /\ OutputsHaveAnOwner)'
  BY OutputsStep
<1> QED BY <1>1, <1>2, Invariance, PTL DEF Spec

-----------------------------------------------------------------------------
(* Whatever processes do: an output is only abandoned by their end.        *)

LEMMA HoldersStep ==
    ASSUME Inv, HoldersRead, [Next]_vars
    PROVE  HoldersRead' /\ [OnlyEndsAbandon]_vars
<1> TypeOK /\ LiveInjectorIsKnown /\ ProcessesHaveGroups
  BY DEF Inv, Typed
<1> USE DaemonAssumption
<1> DEFINE Kept == HoldersRead' /\ OnlyEndsAbandon
<1>1. ASSUME UNCHANGED <<phase, groupOf, holding, outDown>>
      PROVE  Kept
  BY <1>1 DEF HoldersRead, OnlyEndsAbandon, Owned, Alive
<1>2. ASSUME NEW p \in Processes, phase'[p] # "reading" => p \notin holding',
             \A q \in Processes \ {p} : phase'[q] = phase[q] /\ groupOf'[q] = groupOf[q],
             holding' = holding \/ holding' = holding \ {p},
             p \notin holding \/ ~Alive(p)',
             UNCHANGED outDown
      PROVE  Kept
  <2>1. HoldersRead'
    BY <1>2 DEF HoldersRead, TypeOK
  <2>2. ASSUME NEW g \in outDown, Owned(g)
        PROVE  Owned(g)' \/ EndAbandons(g)
    <3>1. PICK q \in holding : Alive(q) /\ groupOf[q] = g
      BY <2>2 DEF Owned
    <3>2. CASE q = p
      BY <1>2, <3>1, <3>2 DEF EndAbandons
    <3>3. CASE q # p
      <4>1. q \in holding' /\ phase'[q] = phase[q] /\ groupOf'[q] = g
        BY <1>2, <3>1, <3>3 DEF TypeOK
      <4> QED BY <3>1, <4>1 DEF Owned, Alive
    <3> QED BY <3>2, <3>3
  <2> QED BY <1>2, <2>1, <2>2 DEF OnlyEndsAbandon
<1>3. CASE SetConfigDir \/ Request \/ AutoloadNext \/ StopNext \/ BeginStart \/ SendClose
               \/ Poll \/ Judge
  BY <1>1, <1>3
  DEF SetConfigDir, Request, AutoloadNext, StopNext, BeginStart, SendClose, Poll, Judge,
      processVars, outputVars
<1>4. CASE Join \/ Terminate
  <2>0. PICK p : p = injectors[call.group]
    OBVIOUS
  <2>1. /\ phase' = [phase EXCEPT ![p] = "free"]
        /\ groupOf' = [groupOf EXCEPT ![p] = NoGroup]
        /\ UNCHANGED outDown
        /\ holding' = holding \/ holding' = holding \ {p}
    BY <1>4, <2>0 DEF Join, Terminate, Pop, outputVars
  <2>2. p \notin holding'
    BY <1>4, <2>0 DEF Join, Terminate, Pop, outputVars, HoldersRead, Alive
  <2>3. CASE p \in Processes
    <3>1. \A q \in Processes \ {p} : phase'[q] = phase[q] /\ groupOf'[q] = groupOf[q]
      BY <2>1 DEF TypeOK
    <3>2. ~Alive(p)'
      BY <2>1, <2>3 DEF Alive, TypeOK
    <3> QED BY <1>2, <2>1, <2>2, <2>3, <3>1, <3>2
  <2>4. CASE p \notin Processes
    <3>1. p \notin DOMAIN phase /\ p \notin DOMAIN groupOf /\ p \notin holding
      BY <2>4 DEF TypeOK
    <3>2. phase' = phase
      BY <2>1, <3>1 DEF TypeOK
    <3>3. groupOf' = groupOf
      BY <2>1, <3>1 DEF TypeOK
    <3>4. holding' = holding
      BY <2>1, <3>1
    <3> QED BY <1>1, <2>1, <3>2, <3>3, <3>4
  <2> QED BY <2>3, <2>4
<1>5. CASE Spawn
  <2>1. PICK p \in Processes : /\ phase[p] = "free"
                               /\ phase' = [phase EXCEPT ![p] = "starting"]
                               /\ groupOf' = [groupOf EXCEPT ![p] = call.group]
    BY <1>5 DEF Spawn
  <2>2. p \notin holding /\ UNCHANGED <<holding, outDown>>
    BY <1>5, <2>1 DEF HoldersRead, Spawn, outputVars
  <2> QED BY <1>2, <2>1, <2>2 DEF TypeOK
<1>6. ASSUME NEW p \in Processes,
             Grab(p) \/ FailToGrab(p) \/ Exit(p) \/ FailToRead(p) \/ Die(p)
      PROVE  Kept
  <2>1. /\ UNCHANGED <<groupOf, outDown>>
        /\ holding' = holding \/ holding' = holding \ {p}
    BY <1>6 DEF Grab, FailToGrab, Exit, FailToRead, Die, outputVars
  <2>2. \A q \in Processes \ {p} : phase'[q] = phase[q] /\ groupOf'[q] = groupOf[q]
    BY <1>6, <2>1 DEF Grab, FailToGrab, Exit, FailToRead, Die, Goto, TypeOK
  <2>3. p \notin holding' /\ (p \notin holding \/ ~Alive(p)')
    BY <1>6 DEF Grab, FailToGrab, Exit, FailToRead, Die, Goto, HoldersRead, TypeOK, Alive,
                outputVars
  <2> QED BY <1>2, <2>1, <2>2, <2>3
<1>7. ASSUME NEW p \in Processes, Inject(p)
      PROVE  Kept
  <2>1. UNCHANGED <<phase, groupOf>> /\ phase[p] = "reading"
    BY <1>7 DEF Inject, processVars
  <2>2. HoldersRead'
    BY <1>7, <2>1 DEF Inject, ResetOutputs, HoldersRead
  <2>3. OnlyEndsAbandon
    <3>1. CASE p \in holding
      <4>1. holding' = holding \ {p} /\ outDown' = outDown \ {groupOf[p]}
        BY <1>7, <3>1 DEF Inject, ResetOutputs
      <4> QED BY <2>1, <4>1 DEF OnlyEndsAbandon, Owned, Alive
    <3>2. CASE p \notin holding
      <4>1. holding' = holding \cup {p} /\ outDown' = outDown \cup {groupOf[p]}
        BY <1>7, <3>2 DEF Inject
      <4>2. Alive(p)'
        BY <2>1 DEF Alive
      <4> QED BY <2>1, <4>1, <4>2 DEF OnlyEndsAbandon, Owned, Alive
    <3> QED BY <3>1, <3>2
  <2> QED BY <2>2, <2>3
<1>8. ASSUME NEW p \in Processes, Close(p)
      PROVE  Kept
  <2>1. /\ phase[p] \in {"reading", "deserted"}
        /\ phase' = [phase EXCEPT ![p] = "closing"] /\ UNCHANGED groupOf
        /\ holding' = holding \ {p}
        /\ outDown' = IF p \in holding THEN outDown \ {groupOf[p]} ELSE outDown
    BY <1>8 DEF Close, Goto, ResetOutputs
  <2>2. HoldersRead'
    BY <2>1 DEF HoldersRead, TypeOK
  <2>3. OnlyEndsAbandon
    BY <2>1 DEF OnlyEndsAbandon, Owned, Alive, TypeOK
  <2> QED BY <2>2, <2>3
<1>10. ASSUME NEW g \in Groups, Unplug(g)
       PROVE  Kept
  <2> DEFINE left == {p \in Processes : phase[p] = "reading" /\ groupOf[p] = g}
  <2>1. /\ phase' = [p \in Processes |-> IF p \in left THEN "deserted" ELSE phase[p]]
        /\ holding' = holding \ left
        /\ outDown' = IF left \cap holding # {} THEN outDown \ {g} ELSE outDown
        /\ UNCHANGED groupOf
    BY <1>10 DEF Unplug
  <2>2. HoldersRead'
    BY <2>1 DEF HoldersRead, TypeOK
  <2>3. ASSUME NEW h \in outDown', h \in outDown => Owned(h)
        PROVE  Owned(h)'
    <3>1. PICK p \in holding : Alive(p) /\ groupOf[p] = h
      BY <2>1, <2>3 DEF Owned
    <3>2. p \in Processes /\ phase[p] = "reading"
      BY DEF HoldersRead, TypeOK
    <3>3. p \notin left
      BY <2>1, <2>3, <3>1
    <3> QED BY <2>1, <3>1, <3>2, <3>3 DEF Owned, Alive
  <2> QED BY <2>2, <2>3 DEF OnlyEndsAbandon
<1>11. ASSUME NEW g \in Groups, Plug(g) \/ HistoryAges(g)
       PROVE  Kept
  BY <1>1, <1>11 DEF Plug, HistoryAges, processVars, outputVars
<1>12. CASE InfoAges
  BY <1>1, <1>12 DEF InfoAges, processVars, outputVars
<1>13. CASE UNCHANGED vars
  BY <1>13 DEF vars, processVars, outputVars, HoldersRead
<1> QED BY <1>3, <1>4, <1>5, <1>6, <1>7, <1>8, <1>10, <1>11, <1>12, <1>13 DEF Next, ServeCall

\* An output that a process pressed loses its owner only with the process: slow, failing
\* and crashing ones included, none is forgotten by a process that goes on or closes.
THEOREM OutputsAreNotForgotten == Spec => OutputsAreTakenBack
<1>1. Init => HoldersRead
  BY DEF Init, HoldersRead
<1>2. Inv /\ HoldersRead /\ [Next]_vars => HoldersRead' /\ [OnlyEndsAbandon]_vars
  BY HoldersStep
<1> QED BY <1>1, <1>2, Invariance, PTL DEF Spec, OutputsAreTakenBack

-----------------------------------------------------------------------------
(* A process that ended by itself has said why, and what it said arrives.  *)

Reasons == {"STOPPED", "NO_GRAB", "UPGRADE_EVDEV"}

\* get_state is between its look at the pipe and its look at the process.
Judging(p) == call.do = "judge" /\ injectors[call.group] = p

\* The reason is the last message in the pipe, or it is what get_state saw or said.
ReasonArrives(p) ==
    IF pipe[p] # <<>> THEN pipe[p][Len(pipe[p])] \in Reasons
    ELSE IF Judging(p) THEN call.seen \in Reasons
    ELSE state[p] \in Reasons

EndsAreTold == \A p \in Processes : phase[p] = "ended" => ReasonArrives(p)

\* A reason stays what it is, whether or not the process is alive.
LEMMA ReasonIsKept ==
    ASSUME NEW s \in Reasons, NEW alive
    PROVE  Judged(s, alive) = s
<1> QED BY DEF Judged, Reasons

\* The message sent last is the last one of the pipe.
LEMMA LastOfAppend ==
    ASSUME NEW S, NEW s \in Seq(S), NEW r \in S
    PROVE  Append(s, r) # <<>> /\ Append(s, r)[Len(Append(s, r))] = r
<1> QED OBVIOUS

LEMMA EndsAreToldStep ==
    ASSUME Inv, EndsAreTold, [Next]_vars
    PROVE  EndsAreTold'
<1> TypeOK /\ ProcessesHaveGroups
  BY DEF Inv, Typed
<1> USE DaemonAssumption
<1>a. \A q \in Processes : Judging(q) => call.do = "judge"
  BY DEF Judging
\* Nobody talks, and no process ends.
<1>1. ASSUME UNCHANGED <<pipe, state, injectors, call>>,
             \A p \in Processes : phase'[p] = "ended" => phase[p] = "ended"
      PROVE  EndsAreTold'
  BY <1>1 DEF EndsAreTold, ReasonArrives, Judging
\* The daemon goes on with another call than get_state.
<1>2. ASSUME call.do # "judge", call'.do # "judge",
             \A p \in Processes : phase'[p] = "ended" =>
                 phase[p] = "ended" /\ pipe'[p] = pipe[p] /\ state'[p] = state[p]
      PROVE  EndsAreTold'
  BY <1>2 DEF EndsAreTold, ReasonArrives, Judging
<1>4. CASE SetConfigDir \/ InfoAges \/ UNCHANGED vars
  BY <1>1, <1>4 DEF SetConfigDir, InfoAges, vars, daemonVars, processVars
<1>5. CASE Request \/ AutoloadNext \/ StopNext \/ BeginStart \/ SendClose
  <2>1. UNCHANGED <<phase, pipe, state>>
    BY <1>5 DEF Request, AutoloadNext, StopNext, BeginStart, SendClose, processVars
  <2>2. CASE Request \/ AutoloadNext \/ StopNext
    <3>1. call = Idle
      BY <2>2 DEF Request, AutoloadNext, StopNext, Free
    <3>2. Request => call'.do # "judge"
      BY <3>1 DEF Request, NewCall, Idle
    <3>3. AutoloadNext => call'.do # "judge"
      BY DEF AutoloadNext, NewCall, Idle
    <3>4. StopNext => call'.do # "judge"
      BY DEF StopNext, NewCall, Idle
    <3>5. call.do # "judge" /\ call'.do # "judge"
      BY <2>2, <3>1, <3>2, <3>3, <3>4 DEF Idle
    <3> QED BY <1>2, <2>1, <3>5
  <2>3. CASE BeginStart
    <3>1. call \in Calls /\ call.do = "start"
      BY <2>3, Serving DEF BeginStart, TypeOK, Steps
    <3>2. call'.do # "judge"
      <4>1. \/ call' = [call EXCEPT !.do = "stop", !.restart = TRUE]
            \/ call' = [call EXCEPT !.do = "spawn"]
            \/ call' = Idle
        BY <2>3 DEF BeginStart
      <4>2. [call EXCEPT !.do = "stop", !.restart = TRUE].do = "stop"
        BY <3>1 DEF Calls
      <4>3. [call EXCEPT !.do = "spawn"].do = "spawn"
        BY <3>1 DEF Calls
      <4>4. Idle.do = "idle"
        BY DEF Idle
      <4>5. call'.do \in {"stop", "spawn", "idle"}
        BY <4>1, <4>2, <4>3, <4>4, Zenon
      <4> QED BY <4>5
    <3> QED BY <1>2, <2>1, <3>1, <3>2
  <2>4. CASE SendClose
    <3>1. call \in Calls /\ call.do = "stop"
      BY <2>4, Serving DEF SendClose, TypeOK, Steps
    <3>2. call'.do # "judge"
      BY <2>4, <3>1 DEF SendClose, AfterStop, Calls, Idle
    <3> QED BY <1>2, <2>1, <3>1, <3>2
  <2> QED BY <1>5, <2>2, <2>3, <2>4
<1>6. CASE Join \/ Terminate
  <2>1. call.do = "wait" /\ Pop(injectors[call.group])
    BY <1>6 DEF Join, Terminate
  <2>2. call \in Calls
    BY <2>1, Serving DEF TypeOK, Steps
  <2>3. call'.do # "judge"
    BY <2>1, <2>2, NextStepType DEF Pop, AfterStop, Steps, Idle
  <2> QED BY <1>2, <2>1, <2>3 DEF Pop, TypeOK
<1>7. CASE Spawn
  <2>1. call.do # "judge" /\ call'.do # "judge"
    BY <1>7 DEF Spawn, Idle
  <2> QED BY <1>2, <1>7, <2>1 DEF Spawn, TypeOK
<1>8. CASE Poll
  <2> DEFINE p == injectors[call.group]
  <2>1. call \in Calls /\ call.do # "judge"
    BY <1>8, Serving DEF Poll, TypeOK, Steps
  <2>2. UNCHANGED <<phase, state, injectors>>
    BY <1>8 DEF Poll
  <2>3. CASE p = NoProcess
    BY <1>2, <1>8, <2>1, <2>2, <2>3 DEF Poll, Idle
  <2>4. CASE p # NoProcess
    <3>1. p \in Processes
      BY <2>1, <2>4 DEF TypeOK, Calls
    <3>2. /\ call' = [call EXCEPT !.do = "judge",
                           !.seen = IF pipe[p] = <<>> THEN state[p] ELSE pipe[p][Len(pipe[p])]]
          /\ pipe' = [pipe EXCEPT ![p] = <<>>]
      BY <1>8, <2>4 DEF Poll
    <3>3. /\ \A q \in Processes : Judging(q)' <=> q = p
          /\ call'.seen = IF pipe[p] = <<>> THEN state[p] ELSE pipe[p][Len(pipe[p])]
          /\ pipe'[p] = <<>> /\ \A q \in Processes \ {p} : pipe'[q] = pipe[q]
      BY <2>1, <2>2, <3>1, <3>2 DEF Judging, Calls, TypeOK
    <3> QED BY <1>a, <2>1, <2>2, <3>3 DEF EndsAreTold, ReasonArrives
  <2> QED BY <2>3, <2>4
<1>9. CASE Judge
  <2> DEFINE p == injectors[call.group]
  <2>1. /\ call.do = "judge" /\ call'.do # "judge"
        /\ UNCHANGED <<phase, pipe, injectors>>
        /\ state' = [state EXCEPT ![p] = Judged(call.seen, Alive(p))]
    BY <1>9 DEF Judge, Idle
  <2>2. ASSUME NEW q \in Processes, phase'[q] = "ended"
        PROVE  ReasonArrives(q)'
    <3>1. CASE q = p
      <4>1. state'[q] = Judged(call.seen, Alive(p)) /\ Judging(q) /\ ~Judging(q)'
        BY <2>1, <3>1 DEF TypeOK, Judging
      <4>2. call.seen \in Reasons => state'[q] \in Reasons
        BY <4>1, ReasonIsKept
      <4> QED BY <2>1, <2>2, <4>1, <4>2 DEF EndsAreTold, ReasonArrives
    <3>2. CASE q # p
      <4>1. state'[q] = state[q] /\ ~Judging(q) /\ ~Judging(q)'
        BY <2>1, <3>2 DEF TypeOK, Judging
      <4> QED BY <2>1, <2>2, <4>1 DEF EndsAreTold, ReasonArrives
    <3> QED BY <3>1, <3>2
  <2> QED BY <2>2 DEF EndsAreTold
<1>10. ASSUME NEW p \in Processes, Grab(p) \/ FailToGrab(p) \/ Exit(p) \/ FailToRead(p)
       PROVE  EndsAreTold'
  <2>1. PICK r \in States :
           /\ Tell(p, r)
           /\ phase' = [phase EXCEPT ![p] = phase'[p]]
           /\ phase'[p] = "ended" => r \in Reasons
    BY <1>10 DEF Grab, FailToGrab, Exit, FailToRead, Goto, States, Reasons, TypeOK
  <2>2. UNCHANGED <<state, injectors, call>>
    BY <1>10 DEF Grab, FailToGrab, Exit, FailToRead, daemonVars
  <2>3. /\ pipe'[p] # <<>> /\ pipe'[p][Len(pipe'[p])] = r
        /\ \A q \in Processes \ {p} : pipe'[q] = pipe[q] /\ phase'[q] = phase[q]
    <3>1. pipe[p] \in Seq(States) /\ pipe'[p] = Append(pipe[p], r)
      BY <2>1 DEF Tell, TypeOK
    <3>2. pipe'[p] # <<>> /\ pipe'[p][Len(pipe'[p])] = r
      BY <3>1, LastOfAppend
    <3>3. \A q \in Processes \ {p} : pipe'[q] = pipe[q] /\ phase'[q] = phase[q]
      BY <2>1 DEF Tell, TypeOK
    <3> QED BY <3>2, <3>3
  <2> QED BY <2>1, <2>2, <2>3 DEF EndsAreTold, ReasonArrives, Judging
<1>11. ASSUME NEW p \in Processes, Inject(p) \/ Close(p) \/ Die(p)
       PROVE  EndsAreTold'
  BY <1>1, <1>11 DEF Inject, Close, Die, Goto, daemonVars, processVars, TypeOK
<1>12. ASSUME NEW g \in Groups, Plug(g) \/ Unplug(g) \/ HistoryAges(g)
       PROVE  EndsAreTold'
  BY <1>1, <1>12 DEF Plug, Unplug, HistoryAges, daemonVars, processVars
<1> QED BY <1>4, <1>5, <1>6, <1>7, <1>8, <1>9, <1>10, <1>11, <1>12 DEF Next, ServeCall

\* If get_state calls a process that ended by itself a failure, which it does when the end
\* falls between its two looks, then the true reason waits for the next get_state.
THEOREM FailuresAreCorrected == Spec => []FailureIsCorrected
<1>1. Init => EndsAreTold
  BY DEF Init, EndsAreTold
<1>2. Inv /\ EndsAreTold /\ [Next]_vars => EndsAreTold'
  BY EndsAreToldStep
<1>3. Inv /\ EndsAreTold => FailureIsCorrected
  BY DEF Inv, Typed, TypeOK, EndsAreTold, ReasonArrives, Judging, Reasons, FailureIsCorrected
<1> QED BY <1>1, <1>2, <1>3, Invariance, PTL DEF Spec
=============================================================================
