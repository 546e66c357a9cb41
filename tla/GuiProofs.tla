------------------------------- MODULE GuiProofs -------------------------------
(***************************************************************************)
(* Theorems about the two modules of the GUI.  Recording: the GUI and the  *)
(* service agree on what is read, for any number of GUIs, services,        *)
(* recordings, commands in the pipes and groups.  GuiSession: what windowd *)
(* knows of the modes that the GUI saves.                                  *)
(*                                                                         *)
(* A command in a pipe says what the service will do.  The invariant       *)
(* (Agreed) follows them: every command to start finds a service that      *)
(* reads nothing, because a command to stop is before it in the pipe, and  *)
(* the last of them is that of the recording that runs, if there is one.   *)
(* The other pipe is followed likewise (Chorded): what the recorder has,   *)
(* and the messages that it did not read, make up the chord.               *)
(***************************************************************************)
EXTENDS Recording, GuiSession, SequenceTheorems, TLAPS

CommandsOf == [type : {"start", "stop", "refresh", "terminate"},
               group : Groups \cup {NoGroup}, nth : Nat]
MessagesOf == [type : {"groups"}, keys : SUBSET Groups]
              \cup [type : {"event"}, input : Inputs, pressed : BOOLEAN]
Movements == [axis : Axes, nth : Nat]
Pipes == 1 .. MaxTroubles

\* The commands that matter: those that start or stop the reading.
Decisive(q) == {i \in DOMAIN q : q[i].type \in {"start", "stop"}}

\* Once the service handled the commands of q before the n-th, it reads nothing, if it reads
\* r now.
StoppedBefore(q, n, r) ==
    \/ \E j \in Decisive(q) :
          /\ j < n /\ q[j].type = "stop"
          /\ \A k \in Decisive(q) : ~(j < k /\ k < n)
    \/ r = None /\ \A k \in Decisive(q) : k >= n

\* The last of the commands in q that count is that of the recording.
StartedBy(q, rec) ==
    \E i \in Decisive(q) : /\ q[i].type = "start" /\ q[i].nth = rec.nth
                           /\ \A k \in Decisive(q) : k <= i

\* The types, and that the pipes of GUIs to come are empty.
TypeOK ==
    /\ gui \in {"gone", "idle", "waiting"}
    /\ guis \in 0 .. MaxTroubles /\ unplugs \in Nat
    /\ gui # "gone" => guis \in Pipes
    /\ gui = "waiting" => outbox \in CommandsOf /\ outbox.type \in {"start", "refresh"}
    /\ recorder \in Recorders \cup {None} /\ recordings \in Nat
    /\ group \in Groups \cup {NoGroup}
    /\ commands \in [Pipes -> Seq(CommandsOf)]
    /\ service \in {"down", "booting", "up"}
    /\ boots \in Nat /\ heard \in Nat
    /\ attached \in 0 .. guis
    /\ service = "up" => attached \in Pipes
    /\ reading \in Readings \cup {None}
    /\ results \in Seq(MessagesOf) /\ timers \subseteq Movements
    /\ \A n \in Pipes : n > guis => commands[n] = <<>>

\* Each of them runs, and the pipes are those of this GUI.
Talking == gui # "gone" /\ service = "up" /\ attached = guis

\* A GUI that still reads the messages does not send before the service is there.
Prompt == polling /\ ~SlowBoot

\* What the GUI and the service can be up to at the same time.
Chances ==
    /\ service # "up" => reading = None /\ timers = {}
    /\ service = "booting" /\ polling => results = <<>>
    /\ service = "booting" /\ gui = "idle" /\ Prompt => group = NoGroup
    /\ service = "booting" /\ Prompt => recorder = None \/ recorder.sentTo < boots
    /\ recorder # None => recorder.sentTo <= boots /\ (~Wander => mapping)
    /\ gui = "gone" => recorder = None /\ group = NoGroup /\ results = <<>> /\ ~polling
    /\ gui # "gone" /\ ~Wander => polling
    /\ gui # "gone" /\ (group # NoGroup \/ results # <<>>) => attached = guis
    /\ group = NoGroup => recorder = None
    /\ gui = "waiting" /\ outbox.type = "start" => group # NoGroup /\ mapping /\ recorder = None

\* Of the commands that are on their way to the service.
Agreed ==
    Talking =>
        LET q == commands[guis] IN
        /\ recorder = None => StoppedBefore(q, Len(q) + 1, reading)
        /\ \A i \in DOMAIN q : q[i].type = "start" => StoppedBefore(q, i, reading)
        /\ recorder # None /\ recorder.sentTo = boots /\ Prompt =>
              \/ StartedBy(q, recorder)
              \/ /\ Decisive(q) = {} /\ heard = recorder.nth
                 /\ reading = None \/ reading.nth = heard

Inv == TypeOK /\ Chances /\ Agreed

USE RecordingAssumption

-----------------------------------------------------------------------------
(* Pipes.                                                                  *)

\* What the GUI writes are commands.
LEMMA Commands ==
    /\ \A g \in Groups, n \in Nat : Command("start", g, n) \in CommandsOf
    /\ Simple("stop") \in CommandsOf /\ Simple("refresh") \in CommandsOf
    /\ Simple("terminate") \in CommandsOf
<1> QED BY DEF Command, Simple, CommandsOf

IsSent(q, c, s) == s = q \o <<c>>

\* A command is written at the end of a pipe.
LEMMA Sent ==
    ASSUME NEW q \in Seq(CommandsOf), NEW c \in CommandsOf, NEW r,
           NEW s, IsSent(q, c, s)
    PROVE  /\ s \in Seq(CommandsOf) /\ Len(s) = Len(q) + 1
           /\ \A n \in Nat : n <= Len(q) + 1 /\ StoppedBefore(q, n, r) => StoppedBefore(s, n, r)
           /\ c.type = "refresh" =>
                 /\ Decisive(q) = {} => Decisive(s) = {}
                 /\ StoppedBefore(q, Len(q) + 1, r) => StoppedBefore(s, Len(q) + 2, r)
                 /\ \A rec : StartedBy(q, rec) => StartedBy(s, rec)
           /\ c.type = "stop" => StoppedBefore(s, Len(q) + 2, r)
           /\ \A i \in DOMAIN q : s[i] = q[i]
           /\ s[Len(q) + 1] = c /\ DOMAIN s = DOMAIN q \cup {Len(q) + 1}
<1>1. /\ s \in Seq(CommandsOf) /\ Len(s) = Len(q) + 1
      /\ \A i \in DOMAIN q : s[i] = q[i]
      /\ s[Len(q) + 1] = c /\ DOMAIN s = DOMAIN q \cup {Len(q) + 1}
      /\ \A i \in DOMAIN q : i \in Nat /\ i > 0 /\ i <= Len(q)
      /\ Len(q) \in Nat
  BY DEF IsSent
<1>2. /\ \A i : i \in Decisive(s) <=> \/ i \in Decisive(q)
                                      \/ i = Len(q) + 1 /\ c.type \in {"start", "stop"}
      /\ \A i \in Decisive(q) : i \in DOMAIN q /\ s[i] = q[i]
  BY <1>1 DEF Decisive
<1>3. ASSUME NEW n \in Nat, n <= Len(q) + 1, StoppedBefore(q, n, r)
      PROVE  StoppedBefore(s, n, r)
  BY <1>1, <1>2, <1>3 DEF StoppedBefore
<1>4. ASSUME c.type = "refresh"
      PROVE  /\ Decisive(s) = Decisive(q)
             /\ StoppedBefore(q, Len(q) + 1, r) => StoppedBefore(s, Len(q) + 2, r)
             /\ \A rec : StartedBy(q, rec) => StartedBy(s, rec)
  <2>1. Decisive(s) = Decisive(q)
    BY <1>2, <1>4
  <2>2. StoppedBefore(q, Len(q) + 1, r) => StoppedBefore(s, Len(q) + 2, r)
    <3>1. \A k \in Decisive(q) : k \in Nat /\ k < Len(q) + 1 /\ k < Len(q) + 2
      BY <1>1, <1>2
    <3>2. ASSUME NEW j \in Decisive(q), q[j].type = "stop",
                 \A k \in Decisive(q) : ~(j < k /\ k < Len(q) + 1)
          PROVE  StoppedBefore(s, Len(q) + 2, r)
      <4>1. j \in Decisive(s) /\ j < Len(q) + 2 /\ s[j].type = "stop"
        BY <2>1, <1>2, <3>1, <3>2
      <4>2. \A k \in Decisive(s) : ~(j < k /\ k < Len(q) + 2)
        BY <2>1, <3>1, <3>2
      <4> QED BY <4>1, <4>2 DEF StoppedBefore
    <3>3. ASSUME r = None, \A k \in Decisive(q) : k >= Len(q) + 1
          PROVE  StoppedBefore(s, Len(q) + 2, r)
      <4>1. Decisive(s) = {}
        BY <2>1, <3>1, <3>3, <1>1
      <4> QED BY <4>1, <3>3 DEF StoppedBefore
    <3> QED BY <3>2, <3>3 DEF StoppedBefore
  <2>3. ASSUME NEW rec, StartedBy(q, rec) PROVE StartedBy(s, rec)
    <3>1. PICK i \in Decisive(q) : /\ q[i].type = "start" /\ q[i].nth = rec.nth
                                   /\ \A k \in Decisive(q) : k <= i
      BY <2>3 DEF StartedBy
    <3>2. i \in Decisive(s) /\ s[i] = q[i] /\ \A k \in Decisive(s) : k <= i
      BY <2>1, <3>1, <1>2
    <3> QED BY <3>1, <3>2 DEF StartedBy
  <2> QED BY <2>1, <2>2, <2>3
<1>5. ASSUME c.type = "stop"
      PROVE  StoppedBefore(s, Len(q) + 2, r)
  <2>1. /\ Len(q) + 1 \in Decisive(s) /\ Len(q) + 1 < Len(q) + 2
        /\ s[Len(q) + 1].type = "stop"
    BY <1>1, <1>2, <1>5
  <2>2. \A k \in Decisive(s) : ~(Len(q) + 1 < k /\ k < Len(q) + 2)
    BY <1>1, <1>2
  <2> QED BY <2>1, <2>2 DEF StoppedBefore
<1> QED BY <1>1, <1>3, <1>4, <1>5

\* After its command is written, a recording is started by the last command.
LEMMA SentStart ==
    ASSUME NEW q \in Seq(CommandsOf), NEW c \in CommandsOf, NEW s, IsSent(q, c, s),
           NEW rec, c.type = "start", c.nth = rec.nth
    PROVE  StartedBy(s, rec)
<1>1. /\ s[Len(q) + 1] = c /\ DOMAIN s = DOMAIN q \cup {Len(q) + 1}
      /\ \A i \in DOMAIN q : i \in Nat /\ i <= Len(q) + 1
      /\ Len(q) + 1 \in Nat
  BY DEF IsSent
<1>2. /\ Len(q) + 1 \in Decisive(s) /\ \A k \in Decisive(s) : k <= Len(q) + 1
      /\ s[Len(q) + 1].type = "start" /\ s[Len(q) + 1].nth = rec.nth
  BY <1>1 DEF Decisive
<1> QED BY <1>2 DEF StartedBy

\* The service takes a command out of a pipe and handles it: then it reads t instead of r.
LEMMA Taken ==
    ASSUME NEW q \in Seq(CommandsOf), q # <<>>, NEW s, s = Tail(q), NEW r, NEW t,
           Head(q).type = "stop" => t = None,
           Head(q).type \notin {"stop", "start"} => t = r
    PROVE  /\ s \in Seq(CommandsOf) /\ Len(q) = Len(s) + 1
           /\ \A n \in Nat : StoppedBefore(q, n + 1, r) /\ n > 0 => StoppedBefore(s, n, t)
           /\ Head(q).type \notin {"start", "stop"} =>
                \A rec : StartedBy(q, rec) => StartedBy(s, rec)
           /\ \A rec : StartedBy(q, rec) =>
                \/ StartedBy(s, rec)
                \/ Decisive(s) = {} /\ Head(q).type = "start" /\ Head(q).nth = rec.nth
           /\ Decisive(q) = {} => Decisive(s) = {} /\ Head(q).type \notin {"start", "stop"}
           /\ \A i \in DOMAIN s : i + 1 \in DOMAIN q /\ s[i] = q[i + 1]
           /\ Head(q).type = "start" => 1 \in DOMAIN q /\ q[1].type = "start"
<1>1. /\ s \in Seq(CommandsOf) /\ Len(q) = Len(s) + 1 /\ Head(q) = q[1]
      /\ \A i \in DOMAIN s : i + 1 \in DOMAIN q /\ s[i] = q[i + 1]
      /\ \A i \in DOMAIN q : i \in Nat /\ i > 0 /\ i <= Len(q) /\ (i = 1 \/ i - 1 \in DOMAIN s)
      /\ \A i \in DOMAIN s : i \in Nat /\ i > 0
      /\ Len(s) \in Nat /\ 1 \in DOMAIN q
  OBVIOUS
<1>2. /\ \A i \in Decisive(s) : i + 1 \in Decisive(q) /\ i \in DOMAIN s
      /\ \A i \in Decisive(q) : i \in DOMAIN q /\ (i = 1 \/ i - 1 \in Decisive(s))
      /\ 1 \in Decisive(q) <=> Head(q).type \in {"start", "stop"}
  BY <1>1 DEF Decisive
<1>3. ASSUME NEW n \in Nat, n > 0, StoppedBefore(q, n + 1, r)
      PROVE  StoppedBefore(s, n, t)
  <2>1. CASE r = None /\ \A k \in Decisive(q) : k >= n + 1
    BY <1>1, <1>2, <1>3, <2>1 DEF StoppedBefore
  <2>2. ASSUME NEW j \in Decisive(q), j < n + 1, q[j].type = "stop",
               \A k \in Decisive(q) : ~(j < k /\ k < n + 1)
        PROVE  StoppedBefore(s, n, t)
    <3>1. CASE j = 1
      <4>1. t = None
        BY <3>1, <2>2, <1>1
      <4>2. \A k \in Decisive(s) : k >= n
        BY <3>1, <2>2, <1>1, <1>2
      <4> QED BY <4>1, <4>2 DEF StoppedBefore
    <3>2. CASE j # 1
      <4>1. /\ j - 1 \in Decisive(s) /\ j \in Nat /\ j > 0
            /\ j - 1 < n /\ s[j - 1].type = "stop"
        BY <3>2, <2>2, <1>1, <1>2
      <4>2. \A k \in Decisive(s) : ~(j - 1 < k /\ k < n)
        BY <4>1, <2>2, <1>1, <1>2
      <4> QED BY <4>1, <4>2 DEF StoppedBefore
    <3> QED BY <3>1, <3>2
  <2> QED BY <1>3, <2>1, <2>2 DEF StoppedBefore
<1>4. ASSUME NEW rec, NEW i \in Decisive(q), q[i].type = "start", q[i].nth = rec.nth,
             \A k \in Decisive(q) : k <= i
      PROVE  \/ StartedBy(s, rec)
             \/ i = 1 /\ Decisive(s) = {} /\ Head(q).type = "start" /\ Head(q).nth = rec.nth
  <2>1. CASE i = 1
    <3>1. ASSUME NEW k \in Decisive(s) PROVE FALSE
      <4>1. k \in Nat /\ k > 0 /\ k + 1 <= 1
        BY <2>1, <1>4, <1>1, <1>2
      <4> QED BY <4>1
    <3> QED BY <3>1, <2>1, <1>4, <1>1
  <2>2. CASE i # 1
    <3>1. i - 1 \in Decisive(s) /\ i \in Nat
      BY <2>2, <1>1, <1>2
    <3>a. s[i - 1] = q[i]
      <4>1. s[i - 1] = q[(i - 1) + 1] /\ (i - 1) + 1 = i
        BY <3>1, <1>1, <1>2
      <4> QED BY <4>1
    <3>2. \A k \in Decisive(s) : k <= i - 1
      BY <3>1, <1>4, <1>1, <1>2
    <3> QED BY <3>1, <3>a, <3>2, <1>4 DEF StartedBy
  <2> QED BY <2>1, <2>2
<1>5. \A rec : StartedBy(q, rec) =>
        \/ StartedBy(s, rec)
        \/ Decisive(s) = {} /\ Head(q).type = "start" /\ Head(q).nth = rec.nth
  BY <1>4 DEF StartedBy
<1>6. Decisive(q) = {} => Decisive(s) = {} /\ Head(q).type \notin {"start", "stop"}
  BY <1>2
<1> QED BY <1>1, <1>3, <1>5, <1>6
-----------------------------------------------------------------------------
(* The actions.                                                            *)

\* Recorders, and what the bounds are.
LEMMA RecorderTypes ==
    /\ None \notin Recorders /\ None \notin Readings
    /\ MaxTroubles \in Nat /\ NoGroup \notin Groups
    /\ \A n \in Nat : boots \in Nat => Recorder(n) \in Recorders
    /\ \A n : Recorder(n).nth = n /\ Recorder(n).sentTo = boots
<1> QED BY DEF Recorder, Recorders

\* Nobody talks at first.
LEMMA InitInv == Init => Inv
<1> SUFFICES ASSUME Init PROVE Inv
  OBVIOUS
<1>1. TypeOK
  BY DEF Init, TypeOK, Pipes
<1>2. Chances
  BY DEF Init, Chances
<1>3. Agreed
  BY DEF Init, Agreed, Talking
<1> QED BY <1>1, <1>2, <1>3 DEF Inv

\* What agrees stays so where neither side changes.
LEMMA AgreedStays ==
    ASSUME Inv, UNCHANGED <<gui, guis, service, attached, boots, commands, recorder, reading,
                            heard>>,
           polling' => polling
    PROVE  Agreed'
<1>1. UNCHANGED Talking
  BY DEF Talking
<1>2. Agreed
  BY DEF Inv
<1> QED BY <1>1, <1>2 DEF Agreed, Prompt

\* A refresh does not matter.
LEMMA RefreshSent ==
    ASSUME Inv, gui # "gone", NEW c \in CommandsOf, c.type = "refresh", Send(<<c>>),
           UNCHANGED <<guis, attached, service, boots, recorder, reading, heard, polling>>
    PROVE  /\ Agreed'
           /\ commands' \in [Pipes -> Seq(CommandsOf)]
           /\ \A n \in Pipes : n > guis => commands'[n] = <<>>
<1> DEFINE q == commands[guis]
           s == q \o <<c>>
<1>1. /\ guis \in Pipes /\ q \in Seq(CommandsOf) /\ commands \in [Pipes -> Seq(CommandsOf)]
      /\ guis \in Nat
      /\ \A n \in Pipes : n > guis => commands[n] = <<>>
  BY DEF Inv, TypeOK, Pipes
<1>2. commands' = [commands EXCEPT ![guis] = s]
  BY DEF Send
<1>s. IsSent(q, c, s)
  BY DEF IsSent
<1> HIDE DEF s
<1>3. s \in Seq(CommandsOf)
  BY <1>1 DEF s
<1>4. /\ commands'[guis] = s /\ commands' \in [Pipes -> Seq(CommandsOf)]
      /\ \A n \in Pipes : n > guis => commands'[n] = <<>>
  <2>1. commands'[guis] = s /\ commands' \in [Pipes -> Seq(CommandsOf)]
    BY <1>1, <1>2, <1>3
  <2>2. ASSUME NEW n \in Pipes, n > guis PROVE commands'[n] = <<>>
    <3>1. n # guis
      BY <1>1, <2>2 DEF Pipes
    <3> QED BY <1>1, <1>2, <2>2, <3>1
  <2> QED BY <2>1, <2>2
<1>5. Agreed'
  <2> SUFFICES ASSUME Talking PROVE Agreed'
    BY DEF Agreed, Talking
  <2>1. /\ recorder = None => StoppedBefore(q, Len(q) + 1, reading)
        /\ \A i \in DOMAIN q : q[i].type = "start" => StoppedBefore(q, i, reading)
        /\ recorder # None /\ recorder.sentTo = boots /\ Prompt =>
              \/ StartedBy(q, recorder)
              \/ /\ Decisive(q) = {} /\ heard = recorder.nth
                 /\ reading = None \/ reading.nth = heard
    BY DEF Inv, Agreed
  <2> HIDE DEF q
  <2>2. /\ Len(s) = Len(q) + 1
        /\ \A n \in Nat : n <= Len(q) + 1 /\ StoppedBefore(q, n, reading)
                => StoppedBefore(s, n, reading)
        /\ Decisive(q) = {} => Decisive(s) = {}
        /\ StoppedBefore(q, Len(q) + 1, reading) => StoppedBefore(s, Len(q) + 2, reading)
        /\ StartedBy(q, recorder) => StartedBy(s, recorder)
        /\ \A i \in DOMAIN q : s[i] = q[i]
        /\ s[Len(q) + 1] = c /\ DOMAIN s = DOMAIN q \cup {Len(q) + 1}
    BY <1>1, <1>s, Sent
  <2>3. \A i \in DOMAIN q : i \in Nat /\ i <= Len(q)
    BY <1>1
  <2>4. recorder = None => StoppedBefore(s, Len(s) + 1, reading)
    <3>1. Len(s) + 1 = Len(q) + 2
      BY <2>2, <1>1
    <3> QED BY <3>1, <2>1, <2>2
  <2>5. ASSUME NEW i \in DOMAIN s, s[i].type = "start"
        PROVE  StoppedBefore(s, i, reading)
    <3>1. i \in DOMAIN q /\ q[i].type = "start"
      BY <2>5, <2>2
    <3>2. i \in Nat /\ i <= Len(q) + 1
      BY <3>1, <2>3, <1>1
    <3> QED BY <3>1, <3>2, <2>1, <2>2
  <2> QED BY <1>4, <2>1, <2>2, <2>4, <2>5 DEF Agreed, Prompt
<1> QED BY <1>4, <1>5

\* A recording starts with its command, and the one before it was stopped.
LEMMA StartSent ==
    ASSUME Inv, gui # "gone", NEW c \in CommandsOf, c.type = "start", recorder = None,
           Send(<<c>>), recorder' = Recorder(c.nth),
           UNCHANGED <<guis, attached, service, boots, reading, heard, polling>>
    PROVE  /\ Agreed'
           /\ commands' \in [Pipes -> Seq(CommandsOf)]
           /\ \A n \in Pipes : n > guis => commands'[n] = <<>>
<1> DEFINE q == commands[guis]
           s == q \o <<c>>
<1>1. /\ guis \in Pipes /\ q \in Seq(CommandsOf) /\ commands \in [Pipes -> Seq(CommandsOf)]
      /\ guis \in Nat /\ boots \in Nat
      /\ \A n \in Pipes : n > guis => commands[n] = <<>>
  BY DEF Inv, TypeOK, Pipes
<1>2. commands' = [commands EXCEPT ![guis] = s]
  BY DEF Send
<1>s. IsSent(q, c, s)
  BY DEF IsSent
<1> HIDE DEF s
<1>3. s \in Seq(CommandsOf)
  BY <1>1 DEF s
<1>4. /\ commands'[guis] = s /\ commands' \in [Pipes -> Seq(CommandsOf)]
      /\ \A n \in Pipes : n > guis => commands'[n] = <<>>
  <2>1. commands'[guis] = s /\ commands' \in [Pipes -> Seq(CommandsOf)]
    BY <1>1, <1>2, <1>3
  <2>2. ASSUME NEW n \in Pipes, n > guis PROVE commands'[n] = <<>>
    <3>1. n # guis
      BY <1>1, <2>2 DEF Pipes
    <3> QED BY <1>1, <1>2, <2>2, <3>1
  <2> QED BY <2>1, <2>2
<1>5. Agreed'
  <2> SUFFICES ASSUME Talking PROVE Agreed'
    BY DEF Agreed, Talking
  <2>1. /\ StoppedBefore(q, Len(q) + 1, reading)
        /\ \A i \in DOMAIN q : q[i].type = "start" => StoppedBefore(q, i, reading)
    BY DEF Inv, Agreed
  <2> HIDE DEF q
  <2>2. /\ \A n \in Nat : n <= Len(q) + 1 /\ StoppedBefore(q, n, reading)
                => StoppedBefore(s, n, reading)
        /\ \A i \in DOMAIN q : s[i] = q[i]
        /\ DOMAIN s = DOMAIN q \cup {Len(q) + 1}
    BY <1>1, <1>s, Sent
  <2>c. c.nth = recorder'.nth => StartedBy(s, recorder')
    BY <1>1, <1>s, SentStart
  <2>3. \A i \in DOMAIN s : i \in Nat /\ i <= Len(q) + 1
    BY <1>1, <2>2
  <2>4. c.nth \in Nat
    BY DEF CommandsOf
  <2>5. recorder' # None /\ c.nth = recorder'.nth
    BY <2>4, <1>1, RecorderTypes
  <2>6. StartedBy(s, recorder')
    BY <2>c, <2>5
  <2>7. ASSUME NEW i \in DOMAIN s, s[i].type = "start"
        PROVE  StoppedBefore(s, i, reading)
    <3>1. StoppedBefore(q, i, reading)
      BY <2>7, <2>1, <2>2
    <3> QED BY <3>1, <2>2, <2>3
  <2> QED BY <1>4, <2>5, <2>6, <2>7 DEF Agreed
<1> QED BY <1>4, <1>5

\* The recording ends, and the service is told.
LEMMA StopSent ==
    ASSUME Inv, gui # "gone", Send(<<Simple("stop")>>), recorder' = None,
           UNCHANGED <<guis, attached, service, boots, reading, heard, polling>>
    PROVE  /\ Agreed'
           /\ commands' \in [Pipes -> Seq(CommandsOf)]
           /\ \A n \in Pipes : n > guis => commands'[n] = <<>>
<1> DEFINE q == commands[guis]
           c == Simple("stop")
           s == q \o <<c>>
<1>1. /\ guis \in Pipes /\ q \in Seq(CommandsOf) /\ commands \in [Pipes -> Seq(CommandsOf)]
      /\ guis \in Nat
      /\ \A n \in Pipes : n > guis => commands[n] = <<>>
  BY DEF Inv, TypeOK, Pipes
<1>2. commands' = [commands EXCEPT ![guis] = s]
  BY DEF Send
<1>a. c \in CommandsOf /\ c.type = "stop"
  BY Commands DEF Simple, Command
<1>s. IsSent(q, c, s)
  BY DEF IsSent
<1> HIDE DEF s, c
<1>3. s \in Seq(CommandsOf)
  BY <1>1, <1>a DEF s
<1>4. /\ commands'[guis] = s /\ commands' \in [Pipes -> Seq(CommandsOf)]
      /\ \A n \in Pipes : n > guis => commands'[n] = <<>>
  <2>1. commands'[guis] = s /\ commands' \in [Pipes -> Seq(CommandsOf)]
    BY <1>1, <1>2, <1>3
  <2>2. ASSUME NEW n \in Pipes, n > guis PROVE commands'[n] = <<>>
    <3>1. n # guis
      BY <1>1, <2>2 DEF Pipes
    <3> QED BY <1>1, <1>2, <2>2, <3>1
  <2> QED BY <2>1, <2>2
<1>5. Agreed'
  <2> SUFFICES ASSUME Talking PROVE Agreed'
    BY DEF Agreed, Talking
  <2>1. \A i \in DOMAIN q : q[i].type = "start" => StoppedBefore(q, i, reading)
    BY DEF Inv, Agreed
  <2> HIDE DEF q
  <2>2. /\ Len(s) = Len(q) + 1
        /\ \A n \in Nat : n <= Len(q) + 1 /\ StoppedBefore(q, n, reading)
                => StoppedBefore(s, n, reading)
        /\ StoppedBefore(s, Len(q) + 2, reading)
        /\ \A i \in DOMAIN q : s[i] = q[i]
        /\ s[Len(q) + 1] = c /\ DOMAIN s = DOMAIN q \cup {Len(q) + 1}
    BY <1>1, <1>a, <1>s, Sent
  <2>3. \A i \in DOMAIN q : i \in Nat /\ i <= Len(q) + 1
    BY <1>1
  <2>4. StoppedBefore(s, Len(s) + 1, reading)
    <3>1. Len(s) + 1 = Len(q) + 2
      BY <2>2, <1>1
    <3> QED BY <3>1, <2>2
  <2>5. ASSUME NEW i \in DOMAIN s, s[i].type = "start"
        PROVE  StoppedBefore(s, i, reading)
    <3>1. i \in DOMAIN q /\ q[i].type = "start"
      BY <2>5, <2>2, <1>a
    <3> QED BY <3>1, <2>3, <2>1, <2>2
  <2> QED BY <1>4, <2>4, <2>5 DEF Agreed
<1> QED BY <1>4, <1>5

\* The command that is sent by start_recorder, or in place of it by the GUI that waited.
LEMMA NowSent ==
    ASSUME Inv, gui # "gone", NEW c \in CommandsOf, c.type \in {"start", "refresh"},
           c.type = "start" => recorder = None /\ group # NoGroup /\ mapping, SendNow(c),
           service = "booting" /\ Prompt => group = NoGroup,
           UNCHANGED <<guis, attached, service, boots, reading, heard, group, mapping, polling>>
    PROVE  /\ Agreed'
           /\ commands' \in [Pipes -> Seq(CommandsOf)]
           /\ \A n \in Pipes : n > guis => commands'[n] = <<>>
           /\ recorder' \in Recorders \cup {None} /\ recordings' \in Nat
           /\ recorder' # None => recorder'.sentTo <= boots /\ (~Wander => mapping')
           /\ service = "booting" /\ Prompt => recorder' = None \/ recorder'.sentTo < boots
           /\ group = NoGroup => recorder' = None
<1>1. CASE c.type = "start"
  <2>1. Send(<<c>>) /\ recorder' = Recorder(c.nth) /\ recordings' = c.nth
    BY <1>1 DEF SendNow
  <2>2. c.nth \in Nat /\ boots \in Nat
    BY DEF CommandsOf, Inv, TypeOK
  <2> QED BY <1>1, <2>1, <2>2, StartSent, RecorderTypes
<1>2. CASE c.type = "refresh"
  <2>1. Send(<<c>>) /\ UNCHANGED <<recorder, recordings>>
    BY <1>2 DEF SendNow
  <2>2. /\ recorder \in Recorders \cup {None} /\ recordings \in Nat
        /\ recorder # None => recorder.sentTo <= boots /\ (~Wander => mapping)
        /\ service = "booting" /\ Prompt => recorder = None \/ recorder.sentTo < boots
        /\ group = NoGroup => recorder = None
    BY DEF Inv, TypeOK, Chances
  <2> QED BY <1>2, <2>1, <2>2, RefreshSent
<1> QED BY <1>1, <1>2

\* The service is started, and the GUI waits for it.
LEMMA BootKeeps ==
    ASSUME Inv, gui = "idle", service = "down", polling => results = <<>>, NEW c \in CommandsOf,
           BootAndWait(c), c.type \in {"start", "refresh"},
           c.type = "start" => recorder = None /\ group # NoGroup /\ mapping,
           UNCHANGED <<guis, attached, reading, heard, timers, group, mapping, polling, results,
                       unplugs>>
    PROVE  Inv'
<1>1. /\ service' = "booting" /\ boots' = boots + 1 /\ gui' = "waiting" /\ outbox' = c
      /\ UNCHANGED <<commands, recorder, recordings>>
  BY DEF BootAndWait
<1>2. TypeOK'
  BY <1>1 DEF Inv, TypeOK
<1>3. recorder # None => /\ recorder.sentTo \in Nat /\ recorder.sentTo <= boots
                        /\ (~Wander => mapping)
  BY DEF Inv, TypeOK, Recorders, Chances
<1>4. Chances'
  <2>1. recorder' # None => recorder'.sentTo < boots' /\ recorder'.sentTo <= boots'
    BY <1>1, <1>3 DEF Inv, TypeOK
  <2>2. service' = "booting" /\ gui' = "waiting"
    BY <1>1
  <2> QED BY <1>1, <1>3, <2>1, <2>2 DEF Inv, Chances
<1>5. Agreed'
  BY <1>1 DEF Agreed, Talking
<1> QED BY <1>2, <1>4, <1>5 DEF Inv

\* A command of the user.
LEMMA SendKeeps ==
    ASSUME Inv, UserActs, NEW c \in CommandsOf, c.type \in {"start", "refresh"}, SendCommand(c),
           c.type = "start" => recorder = None /\ group # NoGroup /\ mapping,
           UNCHANGED <<guis, group, mapping, polling, results, attached, known, reading, heard,
                       timers, deviceVars, chord>>
    PROVE  Inv'
<1>1. gui = "idle" /\ (polling => results = <<>>)
  BY DEF UserActs
<1>2. CASE service # "down" /\ SendNow(c) /\ UNCHANGED <<gui, outbox, service, boots>>
  <2>1. service = "booting" /\ Prompt => group = NoGroup
    BY <1>1 DEF Inv, Chances, Prompt
  <2>2. /\ Agreed'
        /\ commands' \in [Pipes -> Seq(CommandsOf)]
        /\ \A n \in Pipes : n > guis => commands'[n] = <<>>
        /\ recorder' \in Recorders \cup {None} /\ recordings' \in Nat
        /\ recorder' # None => recorder'.sentTo <= boots /\ (~Wander => mapping')
        /\ service = "booting" /\ Prompt => recorder' = None \/ recorder'.sentTo < boots
        /\ group = NoGroup => recorder' = None
    BY <1>1, <1>2, <2>1, NowSent
  <2>3. TypeOK'
    BY <1>2, <2>2 DEF Inv, TypeOK, deviceVars
  <2>4. Chances'
    BY <1>1, <1>2, <2>2 DEF Inv, Chances, Prompt
  <2> QED BY <2>2, <2>3, <2>4 DEF Inv
<1>3. CASE service = "down" /\ BootAndWait(c)
  BY <1>1, <1>3, BootKeeps DEF deviceVars
<1> QED BY <1>2, <1>3 DEF SendCommand

\* start_recorder.
LEMMA StartRecorderKeeps == ASSUME Inv, StartRecorder PROVE Inv'
<1> DEFINE c == Command("start", group, recordings + 1)
<1>1. group \in Groups /\ recordings \in Nat
  BY DEF StartRecorder, Inv, TypeOK
<1>2. c \in CommandsOf /\ c.type = "start"
  BY <1>1, Commands DEF Command
<1>3. /\ UserActs /\ SendCommand(c) /\ recorder = None /\ group # NoGroup /\ mapping
      /\ UNCHANGED <<guis, group, mapping, polling, results, attached, known, reading, heard,
                     timers, deviceVars, chord>>
  BY DEF StartRecorder
<1> HIDE DEF c
<1> QED BY <1>2, <1>3, SendKeeps

\* refresh_groups.
LEMMA RefreshKeeps == ASSUME Inv, RefreshGroups PROVE Inv'
<1> DEFINE c == Simple("refresh")
<1>2. c \in CommandsOf /\ c.type = "refresh"
  BY Commands DEF Command, Simple
<1>3. /\ UserActs /\ SendCommand(c)
      /\ UNCHANGED <<guis, group, mapping, polling, results, attached, known, reading, heard,
                     timers, deviceVars, chord>>
  BY DEF RefreshGroups
<1> HIDE DEF c
<1> QED BY <1>2, <1>3, SendKeeps

\* stop_recorder.
LEMMA StopRecorderKeeps == ASSUME Inv, StopRecorder PROVE Inv'
<1>1. /\ gui = "idle" /\ recorder' = None /\ Send(<<Simple("stop")>>)
      /\ UNCHANGED <<gui, guis, outbox, group, mapping, polling, recordings, results,
                     serviceVars, deviceVars>>
  BY DEF StopRecorder, UserActs
<1>2. /\ Agreed'
      /\ commands' \in [Pipes -> Seq(CommandsOf)]
      /\ \A n \in Pipes : n > guis => commands'[n] = <<>>
  BY <1>1, StopSent DEF serviceVars
<1>3. TypeOK'
  BY <1>1, <1>2 DEF Inv, TypeOK, serviceVars, deviceVars
<1>4. Chances'
  BY <1>1 DEF Inv, Chances, serviceVars, Prompt
<1> QED BY <1>2, <1>3, <1>4 DEF Inv

\* If the service is there within the 5 s: the wait ended because it sent its groups.
LEMMA WaitEndsKeeps == ASSUME Inv, WaitEnds PROVE Inv'
<1>1. /\ gui = "waiting" /\ (~SlowBoot => results # <<>>) /\ gui' = "idle" /\ SendNow(outbox)
      /\ UNCHANGED <<guis, group, mapping, polling, results, serviceVars, deviceVars>>
  BY DEF WaitEnds
<1>2. /\ outbox \in CommandsOf /\ outbox.type \in {"start", "refresh"}
      /\ Prompt => service # "booting"
      /\ outbox.type = "start" => group # NoGroup /\ mapping /\ recorder = None
  BY <1>1 DEF Inv, TypeOK, Chances, Prompt
<1>3. /\ Agreed'
      /\ commands' \in [Pipes -> Seq(CommandsOf)]
      /\ \A n \in Pipes : n > guis => commands'[n] = <<>>
      /\ recorder' \in Recorders \cup {None} /\ recordings' \in Nat
      /\ recorder' # None => recorder'.sentTo <= boots /\ (~Wander => mapping')
      /\ service = "booting" /\ Prompt => recorder' = None \/ recorder'.sentTo < boots
      /\ group = NoGroup => recorder' = None
  BY <1>1, <1>2, NowSent DEF serviceVars
<1>4. TypeOK'
  BY <1>1, <1>3 DEF Inv, TypeOK, serviceVars, deviceVars
<1>5. Chances'
  BY <1>1, <1>2, <1>3 DEF Inv, Chances, serviceVars, Prompt
<1> QED BY <1>3, <1>4, <1>5 DEF Inv

\* The mapping of a recording stays, if the user does.
LEMMA SelectKeeps == ASSUME Inv, Select PROVE Inv'
<1>1. /\ gui = "idle" /\ group # NoGroup /\ (~Wander => recorder = None) /\ group' \in Groups
      /\ UNCHANGED <<gui, guis, outbox, polling, recorder, recordings, commands, results,
                     serviceVars, deviceVars>>
  BY DEF Select, UserActs
<1>2. TypeOK'
  BY <1>1 DEF Inv, TypeOK, serviceVars, deviceVars
<1>3. Chances'
  BY <1>1, RecorderTypes DEF Inv, Chances, serviceVars, Prompt
<1>4. Agreed'
  BY <1>1, AgreedStays DEF serviceVars
<1> QED BY <1>2, <1>3, <1>4 DEF Inv

\* While a recording runs there is a mapping, unless the user goes elsewhere and _read raises.
LEMMA ReadMessageKeeps == ASSUME Inv, ReadMessage PROVE Inv'
<1> DEFINE m == Head(results)
<1>1. /\ gui = "idle" /\ polling /\ results # <<>> /\ results' = Tail(results)
      /\ UNCHANGED <<gui, guis, outbox, recordings, serviceVars, deviceVars>>
  BY DEF ReadMessage
<1>2. attached = guis /\ service # "booting"
  BY <1>1 DEF Inv, Chances
<1>3. recorder # None =>
        /\ recorder \in Recorders /\ recorder.sentTo \in Nat
        /\ recorder.sentTo <= boots /\ (~Wander => mapping)
  BY DEF Inv, TypeOK, Chances, Recorders
<1> HIDE DEF m
<1>4. ASSUME UNCHANGED <<recorder, commands>>, group' \in Groups \cup {NoGroup},
             group # NoGroup => UNCHANGED <<group, mapping>>, polling'
      PROVE  Inv'
  <2>1. TypeOK'
    BY <1>1, <1>4 DEF Inv, TypeOK, serviceVars, deviceVars
  <2>2. Chances'
    BY <1>1, <1>2, <1>4 DEF Inv, Chances, serviceVars, Prompt
  <2>3. Agreed'
    BY <1>1, <1>4, AgreedStays DEF serviceVars
  <2> QED BY <2>1, <2>2, <2>3 DEF Inv
<1>5. ASSUME NEW active \in SUBSET Inputs, NEW accumulator \in SUBSET Inputs, recorder # None,
             recorder' = [recorder EXCEPT !.active = active, !.accumulator = accumulator],
             UNCHANGED <<group, mapping, commands>>, ~Wander => polling'
      PROVE  Inv'
  <2>1. /\ recorder' \in Recorders /\ recorder' # None
        /\ recorder'.nth = recorder.nth /\ recorder'.sentTo = recorder.sentTo
    BY <1>3, <1>5, RecorderTypes DEF Recorders
  <2>2. TypeOK'
    BY <1>1, <1>5, <2>1 DEF Inv, TypeOK, serviceVars, deviceVars
  <2>3. Chances'
    BY <1>1, <1>2, <1>5, <2>1 DEF Inv, Chances, serviceVars, Prompt
  <2>4. UNCHANGED Talking
    BY <1>1 DEF Talking, serviceVars
  <2>5. \A q : StartedBy(q, recorder) => StartedBy(q, recorder')
    BY <2>1 DEF StartedBy
  <2>6. Agreed'
    <3> SUFFICES ASSUME Talking PROVE Agreed'
      BY <2>4 DEF Agreed
    <3> DEFINE q == commands[guis]
    <3>1. /\ \A i \in DOMAIN q : q[i].type = "start" => StoppedBefore(q, i, reading)
          /\ recorder.sentTo = boots /\ Prompt =>
                \/ StartedBy(q, recorder)
                \/ /\ Decisive(q) = {} /\ heard = recorder.nth
                   /\ reading = None \/ reading.nth = heard
      BY <1>5 DEF Inv, Agreed
    <3>2. UNCHANGED <<q, reading, heard, boots>>
      BY <1>1, <1>5 DEF serviceVars
    <3> HIDE DEF q
    <3>3. /\ \A i \in DOMAIN q' : q'[i].type = "start" => StoppedBefore(q', i, reading')
          /\ recorder'.sentTo = boots' /\ Prompt' =>
                \/ StartedBy(q', recorder')
                \/ /\ Decisive(q') = {} /\ heard' = recorder'.nth
                   /\ reading' = None \/ reading'.nth = heard'
      BY <1>1, <3>1, <3>2, <2>1, <2>5 DEF Prompt
    <3> QED BY <3>3, <2>1 DEF q, Agreed
  <2> QED BY <2>2, <2>3, <2>6 DEF Inv
<1>6. ASSUME recorder' = None, Send(<<Simple("stop")>>), UNCHANGED <<group, mapping, polling>>
      PROVE  Inv'
  <2>1. /\ Agreed'
        /\ commands' \in [Pipes -> Seq(CommandsOf)]
        /\ \A n \in Pipes : n > guis => commands'[n] = <<>>
    BY <1>1, <1>6, StopSent DEF serviceVars
  <2>2. TypeOK'
    BY <1>1, <1>6, <2>1 DEF Inv, TypeOK, serviceVars, deviceVars
  <2>3. Chances'
    BY <1>1, <1>2, <1>6 DEF Inv, Chances, serviceVars, Prompt
  <2> QED BY <2>1, <2>2, <2>3 DEF Inv
<1>m. m \in MessagesOf
  BY <1>1 DEF m, Inv, TypeOK
<1>p. polling
  BY <1>1
<1>7. CASE ReadGroups(m)
  <2>1. m.keys \subseteq Groups
    BY <1>m, <1>7 DEF MessagesOf, ReadGroups
  <2>2. group \in Groups \cup {NoGroup}
    BY DEF Inv, TypeOK
  <2>3. UNCHANGED <<polling, recorder, commands>>
    BY <1>7 DEF ReadGroups
  <2>4. group' \in Groups \cup {NoGroup} /\ (group # NoGroup => UNCHANGED <<group, mapping>>)
    BY <1>7, <2>1, <2>2 DEF ReadGroups
  <2> QED BY <1>4, <1>p, <2>3, <2>4
<1>8. CASE ReadIgnored(m)
  <2>1. group \in Groups \cup {NoGroup}
    BY DEF Inv, TypeOK
  <2> QED BY <1>4, <1>p, <1>8, <2>1 DEF ReadIgnored
<1>9. CASE ReadPress(m)
  <2>1. m.input \in Inputs
    BY <1>m, <1>9 DEF MessagesOf, ReadPress
  <2>2. recorder # None /\ recorder \in Recorders /\ (~Wander => mapping)
    BY <1>3, <1>9 DEF ReadPress, Ignored
  <2>3. /\ recorder.active \cup {m.input} \in SUBSET Inputs
        /\ recorder.accumulator \cup {m.input} \in SUBSET Inputs
    BY <2>1, <2>2 DEF Recorders
  <2>4. /\ recorder' = [recorder EXCEPT !.active = recorder.active \cup {m.input},
                                        !.accumulator = recorder.accumulator \cup {m.input}]
        /\ polling' = (mapping \/ m.input \in recorder.accumulator)
        /\ UNCHANGED <<group, mapping, commands>>
    BY <1>9 DEF ReadPress
  <2> QED BY <1>5, <2>2, <2>3, <2>4
<1>10. CASE ReadRelease(m)
  <2>1. recorder # None /\ recorder \in Recorders
    BY <1>3, <1>10 DEF ReadRelease, Ignored
  <2> DEFINE active == recorder.active \ {m.input}
  <2>2. active \in SUBSET Inputs /\ recorder.accumulator \in SUBSET Inputs
    BY <2>1 DEF Recorders
  <2>3. UNCHANGED <<group, mapping, polling>>
    BY <1>10 DEF ReadRelease
  <2>4. CASE active = {}
    BY <1>6, <1>10, <2>3, <2>4 DEF ReadRelease
  <2>5. CASE active # {}
    <3>1. recorder' = [recorder EXCEPT !.active = active] /\ UNCHANGED commands
      BY <1>10, <2>5 DEF ReadRelease
    <3> HIDE DEF active
    <3>2. recorder' = [recorder EXCEPT !.active = active, !.accumulator = recorder.accumulator]
      BY <3>1, <2>1 DEF Recorders
    <3> QED BY <1>5, <1>p, <2>1, <2>2, <2>3, <3>1, <3>2
  <2> QED BY <2>4, <2>5
<1> QED BY <1>7, <1>8, <1>9, <1>10 DEF ReadMessage, m

\* terminate; the pipes are of no use any more.
LEMMA CloseKeeps == ASSUME Inv, Close PROVE Inv'
<1>1. /\ gui = "idle" /\ Send(<<Simple("terminate"), Simple("stop")>>) /\ Gone
  BY DEF Close, UserActs
<1>2. /\ guis \in Pipes /\ commands \in [Pipes -> Seq(CommandsOf)] /\ guis \in Nat
      /\ \A n \in Pipes : n > guis => commands[n] = <<>>
  BY <1>1 DEF Inv, TypeOK, Pipes
<1>3. commands[guis] \o <<Simple("terminate"), Simple("stop")>> \in Seq(CommandsOf)
  BY <1>2, Commands
<1>4. /\ commands' \in [Pipes -> Seq(CommandsOf)]
      /\ \A n \in Pipes : n > guis => commands'[n] = <<>>
  BY <1>1, <1>2, <1>3 DEF Send, Pipes
<1>5. TypeOK'
  BY <1>1, <1>4 DEF Inv, TypeOK, Gone, serviceVars, deviceVars
<1>6. Chances'
  BY <1>1 DEF Inv, Chances, Gone, serviceVars, Prompt
<1>7. Agreed'
  BY <1>1 DEF Gone, Agreed, Talking
<1> QED BY <1>5, <1>6, <1>7 DEF Inv

\* A GUI that is gone has no recording.
LEMMA CrashKeeps == ASSUME Inv, Crash PROVE Inv'
<1>1. Gone /\ UNCHANGED commands
  BY DEF Crash
<1>2. TypeOK'
  BY <1>1 DEF Inv, TypeOK, Gone, serviceVars, deviceVars
<1>3. Chances'
  BY <1>1 DEF Inv, Chances, Gone, serviceVars, Prompt
<1>4. Agreed'
  BY <1>1 DEF Gone, Agreed, Talking
<1> QED BY <1>2, <1>3, <1>4 DEF Inv

\* The pipes of the new GUI are not open yet.
LEMMA StartGuiKeeps == ASSUME Inv, StartGui PROVE Inv'
<1>1. /\ gui = "gone" /\ gui' = "idle" /\ guis' = guis + 1 /\ polling' = TRUE
      /\ guis + unplugs < MaxTroubles
      /\ UNCHANGED <<outbox, group, mapping, recorder, recordings, commands, results, attached,
                     known, reading, heard, timers, deviceVars>>
      /\ service' \in {"booting", service} /\ boots' \in {boots, boots + 1}
      /\ service' = service => boots' = boots
      /\ service = "up" => service' = "up"
      /\ service' # "up" => service # "up"
  BY DEF StartGui
<1>2. /\ guis' \in Pipes /\ guis \in Nat /\ attached \in Nat /\ attached <= guis
  BY <1>1, RecorderTypes DEF Inv, TypeOK, Pipes
<1>3. TypeOK'
  BY <1>1, <1>2 DEF Inv, TypeOK, deviceVars, Pipes
<1>4. Chances'
  BY <1>1, <1>2 DEF Inv, Chances, Prompt
<1>5. Agreed'
  BY <1>1, <1>2 DEF Agreed, Talking
<1> QED BY <1>3, <1>4, <1>5 DEF Inv

-----------------------------------------------------------------------------

\* Commands of the GUI that the service did not read are lost, but their recording is that of
\* an earlier service.
LEMMA OpenPipesKeeps == ASSUME Inv, OpenPipes PROVE Inv'
<1>1. /\ service = "booting" /\ gui # "gone" /\ service' = "up" /\ attached' = guis
      /\ commands' = [commands EXCEPT ![guis] = <<>>]
      /\ results' = <<GroupsMessage(Refreshed)>>
      /\ UNCHANGED <<guiVars, boots, reading, heard, timers, deviceVars>>
  BY DEF OpenPipes
<1>2. /\ guis \in Pipes /\ guis \in Nat /\ commands \in [Pipes -> Seq(CommandsOf)]
      /\ \A n \in Pipes : n > guis => commands[n] = <<>>
  BY <1>1 DEF Inv, TypeOK, Pipes
<1>3. GroupsMessage(Refreshed) \in MessagesOf
  BY DEF GroupsMessage, MessagesOf
<1>4. /\ commands' \in [Pipes -> Seq(CommandsOf)] /\ commands'[guis] = <<>>
      /\ \A n \in Pipes : n > guis => commands'[n] = <<>>
      /\ results' \in Seq(MessagesOf)
  BY <1>1, <1>2, <1>3
<1>5. TypeOK'
  BY <1>1, <1>2, <1>4 DEF Inv, TypeOK, guiVars, deviceVars, Pipes
<1>6. Chances'
  <2>1. recorder # None => recorder.sentTo \in Nat /\ boots \in Nat
    BY DEF Inv, TypeOK, Recorders
  <2> QED BY <1>1, <2>1 DEF Inv, Chances, guiVars, Prompt
<1>7. Agreed'
  <2>1. reading' = None /\ (Prompt' => recorder' = None \/ recorder'.sentTo # boots')
    <3>1. recorder # None => recorder.sentTo \in Nat /\ boots \in Nat
      BY DEF Inv, TypeOK, Recorders
    <3> QED BY <1>1, <3>1 DEF Inv, Chances, guiVars, Prompt
  <2>2. commands'[guis'] = <<>>
    BY <1>1, <1>4 DEF guiVars
  <2>3. \A n : StoppedBefore(<<>>, n, reading')
    BY <2>1 DEF StoppedBefore, Decisive
  <2> QED BY <2>1, <2>2, <2>3 DEF Agreed
<1> QED BY <1>5, <1>6, <1>7 DEF Inv

\* The service ends.
LEMMA ExitKeeps ==
    ASSUME Inv, service = "up", Exit, UNCHANGED <<guiVars, results, deviceVars>>,
           commands' \in [Pipes -> Seq(CommandsOf)],
           \A n \in Pipes : n > guis => commands'[n] = <<>>
    PROVE  Inv'
<1>1. /\ service' = "down" /\ reading' = None /\ timers' = {}
      /\ UNCHANGED <<boots, attached, heard>>
  BY DEF Exit
<1>2. TypeOK'
  BY <1>1 DEF Inv, TypeOK, guiVars, deviceVars
<1>3. Chances'
  BY <1>1 DEF Inv, Chances, guiVars, Prompt
<1>4. Agreed'
  BY <1>1 DEF Agreed, Talking
<1> QED BY <1>2, <1>3, <1>4 DEF Inv

\* The service finds no GUI, or its time is up.
LEMMA EndsKeep == ASSUME Inv, PipesBroken \/ Lifetime PROVE Inv'
<1>1. /\ service = "up" /\ Exit
      /\ UNCHANGED <<guiVars, commands, results, deviceVars>>
  BY DEF PipesBroken, Lifetime
<1>2. /\ commands \in [Pipes -> Seq(CommandsOf)]
      /\ \A n \in Pipes : n > guis => commands[n] = <<>>
  BY DEF Inv, TypeOK
<1> QED BY <1>1, <1>2, ExitKeeps

\* A command to start finds that nothing is read, so what is read then is of its recording.
LEMMA ReadCommandKeeps == ASSUME Inv, ReadCommand PROVE Inv'
<1> DEFINE q == commands[attached]
           s == Tail(q)
           c == Head(q)
<1>1. /\ service = "up" /\ q # <<>> /\ commands' = [commands EXCEPT ![attached] = s]
      /\ UNCHANGED <<guiVars, deviceVars>>
      /\ HandleStart(c) \/ HandleStop(c) \/ HandleRefresh(c) \/ HandleTerminate(c)
  BY DEF ReadCommand
<1>2. /\ attached \in Pipes /\ q \in Seq(CommandsOf) /\ attached \in Nat /\ guis \in Nat
      /\ attached <= guis /\ commands \in [Pipes -> Seq(CommandsOf)]
      /\ \A n \in Pipes : n > guis => commands[n] = <<>>
  <2>1. /\ attached \in Pipes /\ commands \in [Pipes -> Seq(CommandsOf)]
        /\ guis \in 0 .. MaxTroubles /\ attached \in 0 .. guis
        /\ \A n \in Pipes : n > guis => commands[n] = <<>>
    BY <1>1 DEF Inv, TypeOK
  <2> QED BY <2>1, RecorderTypes
<1>3. c \in CommandsOf /\ s \in Seq(CommandsOf)
  BY <1>1, <1>2
<1> HIDE DEF s, c
<1>4. /\ commands' \in [Pipes -> Seq(CommandsOf)] /\ commands'[attached] = s
      /\ \A n \in Pipes : n > guis => commands'[n] = <<>>
  <2>1. commands'[attached] = s /\ commands' \in [Pipes -> Seq(CommandsOf)]
    BY <1>1, <1>2, <1>3
  <2>2. ASSUME NEW n \in Pipes, n > guis PROVE commands'[n] = <<>>
    <3>1. n # attached
      BY <1>2, <2>2 DEF Pipes
    <3> QED BY <1>1, <1>2, <2>2, <3>1
  <2> QED BY <2>1, <2>2
<1>5. CASE HandleTerminate(c)
  BY <1>1, <1>4, <1>5, ExitKeeps DEF HandleTerminate
<1>6. ASSUME UNCHANGED <<service, boots, attached, timers>>,
             reading' \in Readings \cup {None}, heard' \in Nat,
             results' \in Seq(MessagesOf),
             results' # results => gui # "gone" /\ attached = guis,
             c.type = "stop" => reading' = None,
             c.type \notin {"start", "stop"} => reading' = reading,
             c.type = "start" /\ reading = None =>
                 heard' = c.nth /\ (reading' = None \/ reading'.nth = c.nth),
             c.type # "start" => heard' = heard
      PROVE  Inv'
  <2>1. TypeOK'
    BY <1>1, <1>4, <1>6 DEF Inv, TypeOK, guiVars, deviceVars
  <2>2. Chances'
    BY <1>1, <1>6 DEF Inv, Chances, guiVars, Prompt
  <2>3. Agreed'
    <3> SUFFICES ASSUME Talking PROVE Agreed'
      BY <1>1, <1>6 DEF Agreed, Talking, guiVars
    <3>1. /\ attached = guis /\ commands'[guis'] = s
          /\ UNCHANGED <<recorder, guis>> /\ boots' = boots
      BY <1>1, <1>4, <1>6 DEF Talking, guiVars
    <3>2. /\ recorder = None => StoppedBefore(q, Len(q) + 1, reading)
          /\ \A i \in DOMAIN q : q[i].type = "start" => StoppedBefore(q, i, reading)
          /\ recorder # None /\ recorder.sentTo = boots /\ Prompt =>
                \/ StartedBy(q, recorder)
                \/ /\ Decisive(q) = {} /\ heard = recorder.nth
                   /\ reading = None \/ reading.nth = heard
      BY <3>1 DEF Inv, Agreed
    <3> HIDE DEF q
    <3>3. /\ s \in Seq(CommandsOf) /\ Len(q) = Len(s) + 1
          /\ \A n \in Nat : StoppedBefore(q, n + 1, reading) /\ n > 0
                 => StoppedBefore(s, n, reading')
          /\ c.type \notin {"start", "stop"} =>
                (StartedBy(q, recorder) => StartedBy(s, recorder))
          /\ StartedBy(q, recorder) =>
                \/ StartedBy(s, recorder)
                \/ Decisive(s) = {} /\ c.type = "start" /\ c.nth = recorder.nth
          /\ Decisive(q) = {} => Decisive(s) = {} /\ c.type \notin {"start", "stop"}
          /\ \A i \in DOMAIN s : i + 1 \in DOMAIN q /\ s[i] = q[i + 1]
          /\ c.type = "start" => 1 \in DOMAIN q /\ q[1].type = "start"
      <4>1. /\ q # <<>> /\ s = Tail(q) /\ c = Head(q) /\ q \in Seq(CommandsOf)
        BY <1>1, <1>2 DEF s, c
      <4>2. /\ Head(q).type = "stop" => reading' = None
            /\ Head(q).type \notin {"start", "stop"} => reading' = reading
        BY <4>1, <1>6
      <4> HIDE DEF CommandsOf
      <4> HIDE DEF s, c
      <4>3. \A i \in DOMAIN s : i + 1 \in DOMAIN q /\ s[i] = q[i + 1]
        BY <4>1, <4>2, Taken
      <4>4. \A n \in Nat : StoppedBefore(q, n + 1, reading) /\ n > 0
                 => StoppedBefore(s, n, reading')
        BY <4>1, <4>2, Taken
      <4>5. /\ s \in Seq(CommandsOf) /\ Len(q) = Len(s) + 1
            /\ c.type \notin {"start", "stop"} =>
                (StartedBy(q, recorder) => StartedBy(s, recorder))
            /\ StartedBy(q, recorder) =>
                \/ StartedBy(s, recorder)
                \/ Decisive(s) = {} /\ c.type = "start" /\ c.nth = recorder.nth
        BY <4>1, <4>2, Taken
      <4> QED BY <4>1, <4>2, <4>3, <4>4, <4>5, Taken
    <3>4. /\ Len(s) \in Nat /\ \A i \in DOMAIN s : i \in Nat /\ i > 0
          /\ \A i \in DOMAIN q : i \in Nat /\ i > 0
      BY <1>2, <1>3
    <3>5. recorder = None => StoppedBefore(s, Len(s) + 1, reading')
      <4>1. Len(s) + 1 \in Nat /\ Len(s) + 1 > 0 /\ (Len(s) + 1) + 1 = Len(q) + 1
        BY <3>3, <3>4
      <4> QED BY <4>1, <3>2, <3>3
    <3>6. ASSUME NEW i \in DOMAIN s, s[i].type = "start"
          PROVE  StoppedBefore(s, i, reading')
      <4>1. i \in Nat /\ i > 0 /\ i + 1 \in DOMAIN q /\ q[i + 1].type = "start"
        BY <3>3, <3>4, <3>6
      <4> QED BY <4>1, <3>2, <3>3
    <3>7. ASSUME recorder # None, recorder.sentTo = boots, Prompt, ~StartedBy(s, recorder)
          PROVE  /\ Decisive(s) = {} /\ heard' = recorder.nth
                 /\ reading' = None \/ reading'.nth = heard'
      <4>1. CASE StartedBy(q, recorder)
        <5>1. Decisive(s) = {} /\ c.type = "start" /\ c.nth = recorder.nth
          BY <4>1, <3>3, <3>7
        <5>2. StoppedBefore(q, 1, reading)
          BY <5>1, <3>2, <3>3
        <5>3. reading = None
          BY <5>2, <3>4 DEF StoppedBefore, Decisive
        <5> QED BY <5>1, <5>3, <1>6
      <4>2. CASE ~StartedBy(q, recorder)
        <5>1. /\ Decisive(q) = {} /\ heard = recorder.nth
              /\ reading = None \/ reading.nth = heard
          BY <4>2, <3>2, <3>7
        <5> QED BY <5>1, <3>3, <1>6
      <4> QED BY <4>1, <4>2
    <3>8. Prompt' = Prompt
      BY <1>1 DEF guiVars, Prompt
    <3> QED BY <3>1, <3>5, <3>6, <3>7, <3>8 DEF Agreed
  <2> QED BY <2>1, <2>2, <2>3 DEF Inv
<1>t. /\ reading \in Readings \cup {None} /\ heard \in Nat /\ results \in Seq(MessagesOf)
      /\ c.nth \in Nat /\ c.group \in Groups \cup {NoGroup}
  BY <1>3 DEF Inv, TypeOK, CommandsOf
<1>7. CASE HandleStart(c)
  <2>1. /\ c.type = "start" /\ heard' = c.nth
        /\ UNCHANGED <<service, boots, attached, timers, results>>
    BY <1>7 DEF HandleStart
  <2>2. \/ reading' = reading
        \/ reading' = [group |-> c.group, nth |-> c.nth] \/ reading' = None
    BY <1>7 DEF HandleStart, Restart
  <2>3. reading' \in Readings \cup {None}
    BY <2>2, <1>t DEF Readings
  <2>4. reading = None => reading' = None \/ reading'.nth = c.nth
    BY <2>2
  <2> QED BY <1>6, <1>t, <2>1, <2>3, <2>4
<1>8. CASE HandleStop(c)
  <2>1. /\ c.type = "stop" /\ reading' = None
        /\ UNCHANGED <<service, boots, attached, heard, timers, results>>
    BY <1>8 DEF HandleStop
  <2> QED BY <1>6, <1>t, <2>1
<1>9. CASE HandleRefresh(c)
  <2>1. /\ c.type = "refresh" /\ Answer(<<GroupsMessage(Refreshed)>>)
        /\ UNCHANGED <<service, boots, attached, reading, heard, timers>>
    BY <1>9 DEF HandleRefresh
  <2>2. <<GroupsMessage(Refreshed)>> \in Seq(MessagesOf)
    BY DEF GroupsMessage, MessagesOf
  <2>3. results' \in Seq(MessagesOf) /\ (results' # results => gui # "gone" /\ attached = guis)
    BY <1>t, <2>1, <2>2 DEF Answer
  <2> QED BY <1>6, <1>t, <2>1, <2>3
<1> QED BY <1>1, <1>5, <1>7, <1>8, <1>9

-----------------------------------------------------------------------------
\* What the devices do: events are sent, and the readers of a group that is unplugged end.
LEMMA DevicesKeep ==
    ASSUME Inv,
           UNCHANGED <<guiVars, commands, service, boots, attached, heard>>,
           results' \in Seq(MessagesOf), timers' \subseteq Movements, unplugs' \in Nat,
           results' # results => gui # "gone" /\ attached = guis /\ service = "up",
           service # "up" => timers' = {},
           reading' \in Readings \cup {None}, reading = None <=> reading' = None,
           reading # None => reading'.nth = reading.nth
    PROVE  Inv'
<1>1. TypeOK'
  BY DEF Inv, TypeOK, guiVars
<1>2. Chances'
  BY DEF Inv, Chances, guiVars, Prompt
<1>3. Agreed'
  <2>1. UNCHANGED Talking
    BY DEF Talking, guiVars
  <2>2. \A q, n : StoppedBefore(q, n, reading) => StoppedBefore(q, n, reading')
    BY DEF StoppedBefore
  <2> QED BY <2>1, <2>2 DEF Inv, Agreed, guiVars, Prompt
<1> QED BY <1>1, <1>2, <1>3 DEF Inv

\* Only a service that runs reads inputs or has timers.
LEMMA Answered ==
    ASSUME Inv, reading # None \/ timers # {}, NEW i \in Inputs, NEW p \in BOOLEAN,
           Answer(<<Event(i, p)>>)
    PROVE  /\ results' \in Seq(MessagesOf) /\ service = "up"
           /\ results' # results => gui # "gone" /\ attached = guis
<1>1. <<Event(i, p)>> \in Seq(MessagesOf) /\ results \in Seq(MessagesOf)
  BY DEF Event, MessagesOf, Inv, TypeOK
<1>2. service = "up"
  BY DEF Inv, Chances
<1> QED BY <1>1, <1>2 DEF Answer

\* Keys that are read are sent.
LEMMA KeysKeep == ASSUME Inv, NEW k \in Keys, Press(k) \/ Release(k) PROVE Inv'
<1>1. /\ UNCHANGED <<guiVars, commands, serviceVars, unplugs>>
      /\ \/ UNCHANGED results
         \/ reading # None /\ \E p \in BOOLEAN : Answer(<<Event(k, p)>>)
  BY DEF Press, Release, ReadsInput
<1>2. k \in Inputs
  BY DEF Inputs
<1>3. /\ results \in Seq(MessagesOf) /\ timers \subseteq Movements /\ unplugs \in Nat
      /\ reading \in Readings \cup {None} /\ (service # "up" => timers = {})
  BY DEF Inv, TypeOK, Chances
<1>4. /\ results' \in Seq(MessagesOf)
      /\ results' # results => gui # "gone" /\ attached = guis /\ service = "up"
  BY <1>1, <1>2, <1>3, Answered
<1> QED BY <1>1, <1>3, <1>4, DevicesKeep DEF serviceVars

\* ... and so are movements, and their releases by a timer.
LEMMA AxesKeep ==
    ASSUME Inv, \/ \E a \in Axes : Move(a)
                \/ \E t \in timers : AxisRelease(t)
    PROVE  Inv'
<1>1. /\ results \in Seq(MessagesOf) /\ timers \subseteq Movements /\ unplugs \in Nat
      /\ reading \in Readings \cup {None} /\ (service # "up" => timers = {})
  BY DEF Inv, TypeOK, Chances
<1>2. ASSUME NEW a \in Axes, Move(a) PROVE Inv'
  <2>1. /\ reading # None /\ timers' = timers \cup {Movement(a)} /\ Answer(<<Event(a, TRUE)>>)
        /\ UNCHANGED <<guiVars, commands, service, boots, attached, reading, heard, unplugs>>
    BY <1>2 DEF Move, ReadsInput, deviceVars
  <2>2. Movement(a) \in Movements /\ a \in Inputs
    BY <1>1, <2>1 DEF Movement, Movements, Readings, Inputs
  <2>3. timers' \subseteq Movements
    BY <1>1, <2>1, <2>2
  <2>4. /\ results' \in Seq(MessagesOf) /\ service = "up"
        /\ results' # results => gui # "gone" /\ attached = guis
    BY <2>1, <2>2, Answered
  <2> QED BY <1>1, <2>1, <2>3, <2>4, DevicesKeep
<1>3. ASSUME NEW t \in timers, AxisRelease(t) PROVE Inv'
  <2>1. /\ timers' = timers \ {t} /\ Answer(<<Event(t.axis, FALSE)>>)
        /\ UNCHANGED <<guiVars, commands, service, boots, attached, reading, heard, unplugs>>
    BY <1>3 DEF AxisRelease, deviceVars
  <2>2. t.axis \in Inputs
    BY <1>1 DEF Movements, Inputs
  <2>4. /\ results' \in Seq(MessagesOf) /\ service = "up"
        /\ results' # results => gui # "gone" /\ attached = guis
    BY <2>1, <2>2, Answered
  <2> QED BY <1>1, <2>1, <2>4, DevicesKeep
<1> QED BY <1>2, <1>3

\* The group of a reading may be unplugged.
LEMMA PlugsKeep == ASSUME Inv, NEW g \in Groups, Unplug(g) \/ Plug(g) PROVE Inv'
<1>1. /\ UNCHANGED <<guiVars, commands, results, service, boots, attached, heard, timers>>
      /\ unplugs' \in {unplugs, unplugs + 1}
      /\ reading' \in {reading, [reading EXCEPT !.group = NoGroup]}
      /\ reading = None => reading' = None
  BY DEF Unplug, Plug, serviceVars
<1>2. /\ results \in Seq(MessagesOf) /\ timers \subseteq Movements /\ unplugs' \in Nat
      /\ reading \in Readings \cup {None} /\ (service # "up" => timers = {})
  BY <1>1 DEF Inv, TypeOK, Chances
<1>3. /\ reading' \in Readings \cup {None} /\ (reading = None <=> reading' = None)
      /\ reading # None => reading'.nth = reading.nth
  BY <1>1, <1>2, RecorderTypes DEF Readings
<1> QED BY <1>1, <1>2, <1>3, DevicesKeep

\* A step that changes nothing.
LEMMA StutterKeeps == ASSUME Inv, UNCHANGED vars PROVE Inv'
<1>1. TypeOK'
  BY DEF vars, guiVars, serviceVars, deviceVars, Inv, TypeOK
<1>2. Chances'
  BY DEF vars, guiVars, serviceVars, deviceVars, Inv, Chances, Prompt
<1>3. Agreed'
  BY AgreedStays DEF vars, guiVars, serviceVars
<1> QED BY <1>1, <1>2, <1>3 DEF Inv

\* Every step keeps the invariant.
LEMMA InvStep == Inv /\ [Next]_vars => Inv'
<1> SUFFICES ASSUME Inv, [Next]_vars PROVE Inv'
  OBVIOUS
<1>1. CASE \/ StartRecorder \/ StopRecorder \/ RefreshGroups \/ WaitEnds \/ Select
           \/ ReadMessage
  BY <1>1, StartRecorderKeeps, StopRecorderKeeps, RefreshKeeps, WaitEndsKeeps, SelectKeeps,
     ReadMessageKeeps
<1>2. CASE Close \/ Crash \/ StartGui
  BY <1>2, CloseKeeps, CrashKeeps, StartGuiKeeps
<1>3. CASE OpenPipes \/ ReadCommand \/ PipesBroken \/ Lifetime
  BY <1>3, OpenPipesKeeps, ReadCommandKeeps, EndsKeep
<1>4. CASE \/ \E k \in Keys : Press(k) \/ Release(k)
           \/ \E a \in Axes : Move(a)
           \/ \E t \in timers : AxisRelease(t)
           \/ \E g \in Groups : Unplug(g) \/ Plug(g)
  BY <1>4, KeysKeep, AxesKeep, PlugsKeep
<1>5. CASE UNCHANGED vars
  BY <1>5, StutterKeeps
<1>6. CASE Next
  BY <1>6, <1>1, <1>2, <1>3, <1>4 DEF Next
<1> QED BY <1>5, <1>6

\* When the pipe is empty, what the invariant says of it is what the two sides agree on.
LEMMA InvAgrees == ASSUME SlowBoot = FALSE, Wander = FALSE PROVE Inv => ServiceAgrees
<1> SUFFICES ASSUME Inv, Quiet
             PROVE  IF recorder = None THEN reading = None
                    ELSE recorder.sentTo = boots =>
                            /\ heard = recorder.nth
                            /\ reading = None \/ reading.nth = recorder.nth
  BY DEF ServiceAgrees
<1>1. Talking /\ commands[guis] = <<>> /\ Prompt
  BY DEF Quiet, Talking, Prompt, Inv, Chances
<1>2. /\ recorder = None => StoppedBefore(<<>>, Len(<<>>) + 1, reading)
      /\ recorder # None /\ recorder.sentTo = boots =>
            \/ StartedBy(<<>>, recorder)
            \/ /\ heard = recorder.nth
               /\ reading = None \/ reading.nth = heard
  BY <1>1 DEF Inv, Agreed
<1>3. Decisive(<<>>) = {}
  BY DEF Decisive
<1> QED BY <1>2, <1>3 DEF StoppedBefore, StartedBy

\* When nothing is left in the pipe between them, the service reads for the recording of the
\* GUI, or nothing if there is none: for any number of GUIs that end or crash, of services
\* that end after any time, of recordings and of groups that are unplugged, and however
\* many commands wait in the pipe.  The user stays with the mapping, and the service starts
\* within the 5 s: without either, TLC finds a counterexample.
THEOREM ServiceAgreesWithItsGui ==
    ASSUME SlowBoot = FALSE, Wander = FALSE PROVE Spec => []ServiceAgrees
<1>1. Inv /\ [Next]_vars => Inv'
  BY InvStep
<1> QED BY <1>1, InitInv, InvAgrees, PTL DEF Spec

-----------------------------------------------------------------------------
(***************************************************************************)
(* What a recording has.  The messages in the pipe are what the recorder   *)
(* does not know yet: once it reads them, up to the one with which all     *)
(* was released, it has the chord.  Chorded is the invariant.              *)
(***************************************************************************)
Chords == [nth : Nat, inputs : SUBSET Inputs, down : SUBSET Inputs]

Presses(m) == {i \in Inputs : m = Event(i, TRUE)}
Releases(m) == {i \in Inputs : m = Event(i, FALSE)}

\* What is pressed, and what was, once the recorder has read the first n messages of q.
Pressed(rec, q, n) ==
    {i \in Inputs :
        \/ i \in rec.active /\ \A h \in 1 .. n : i \notin Releases(q[h])
        \/ \E k \in 1 .. n : i \in Presses(q[k]) /\ \A h \in k + 1 .. n : i \notin Releases(q[h])}
Collected(rec, q, n) == rec.accumulator \cup {i \in Inputs : \E k \in 1 .. n : i \in Presses(q[k])}

\* After the e-th message of the pipe the recorder has the chord, and not before is it over.
ReachesAt(rec, q, c, e) ==
    /\ Pressed(rec, q, e) = c.down /\ Collected(rec, q, e) = c.inputs
    /\ \A n \in 0 .. e - 1 : Collected(rec, q, n) # {} => Pressed(rec, q, n) # {}
    /\ IF Over(c) THEN e > 0 ELSE e = Len(q)
Reaches(rec, q, c) == \E e \in 0 .. Len(q) : ReachesAt(rec, q, c, e)

\* The commands to start in a pipe: none, or that of a recording.
NoStart(q) == \A i \in DOMAIN q : q[i].type # "start"
OnlyStart(q, n) ==
    \A i, j \in DOMAIN q :
        q[i].type = "start" /\ q[j].type = "start" => i = j /\ q[i].nth = n

\* The service reads nothing, and nothing that it read is on its way.
Untouched ==
    /\ \A k \in DOMAIN results : results[k].type = "groups"
    /\ reading = None /\ timers = {}

\* The service was not asked to read for the recording so far, or it could not.
NotBegun ==
    /\ recorder.accumulator = {} /\ Untouched
    /\ OnlyStart(commands[guis], recorder.nth)

\* What is read is of the recording.
Begun ==
    /\ chord.nth = recorder.nth /\ Reaches(recorder, results, chord)
    /\ reading = None \/ reading.nth = recorder.nth
    /\ \A t \in timers : t.nth = recorder.nth
    /\ NoStart(commands[guis])

Chorded ==
    /\ chord \in Chords
    /\ gui = "waiting" /\ outbox.type = "start" /\ polling => Untouched /\ commands[guis] = <<>>
    /\ recorder # None /\ polling =>
          /\ recorder.active \subseteq recorder.accumulator
          /\ recorder.active = {} => recorder.accumulator = {}
          /\ NotBegun \/ Begun

-----------------------------------------------------------------------------
IsRead(q, s) == q # <<>> /\ s = Tail(q)

\* What the recorder has after it read m.
Records(rec, m, new) ==
    /\ new.active = (rec.active \ Releases(m)) \cup Presses(m)
    /\ new.accumulator = rec.accumulator \cup Presses(m)

\* A message is added to the pipe.
LEMMA MessageAdded ==
    ASSUME NEW q \in Seq(MessagesOf), NEW m \in MessagesOf, NEW s, IsSent(q, m, s), NEW rec
    PROVE  /\ \A n \in 0 .. Len(q) : /\ Pressed(rec, s, n) = Pressed(rec, q, n)
                                     /\ Collected(rec, s, n) = Collected(rec, q, n)
           /\ Pressed(rec, s, Len(q) + 1) = (Pressed(rec, q, Len(q)) \ Releases(m)) \cup Presses(m)
           /\ Collected(rec, s, Len(q) + 1) = Collected(rec, q, Len(q)) \cup Presses(m)
<1>1. /\ Len(q) \in Nat /\ s[Len(q) + 1] = m
      /\ \A h \in 1 .. Len(q) : s[h] = q[h]
  BY DEF IsSent
<1>2. ASSUME NEW n \in 0 .. Len(q)
      PROVE  /\ Pressed(rec, s, n) = Pressed(rec, q, n)
             /\ Collected(rec, s, n) = Collected(rec, q, n)
  <2>1. n \in Nat /\ \A h \in 1 .. n : s[h] = q[h]
    BY <1>1
  <2>2. \A k \in 1 .. n : \A h \in k + 1 .. n : h \in 1 .. n
    BY <2>1
  <2>3. Pressed(rec, s, n) = Pressed(rec, q, n)
    <3>1. ASSUME NEW i \in Inputs PROVE i \in Pressed(rec, s, n) <=> i \in Pressed(rec, q, n)
      BY <2>1, <2>2 DEF Pressed
    <3> QED BY <3>1 DEF Pressed
  <2>4. Collected(rec, s, n) = Collected(rec, q, n)
    BY <2>1 DEF Collected
  <2> QED BY <2>3, <2>4
<1>3. Pressed(rec, s, Len(q) + 1) = (Pressed(rec, q, Len(q)) \ Releases(m)) \cup Presses(m)
  <2> DEFINE N == Len(q)
  <2>1. /\ N \in Nat /\ N + 1 \in 1 .. N + 1
        /\ \A h \in 1 .. N + 1 : h \in 1 .. N \/ h = N + 1
        /\ \A h \in 1 .. N : h \in 1 .. N + 1 /\ s[h] = q[h] /\ N + 1 \in h + 1 .. N + 1
        /\ \A k \in 1 .. N : \A h \in k + 1 .. N + 1 : h \in k + 1 .. N \/ h = N + 1
        /\ \A k \in 1 .. N : \A h \in k + 1 .. N : h \in 1 .. N /\ h \in k + 1 .. N + 1
        /\ \A h : h \notin (N + 1) + 1 .. N + 1
        /\ s[N + 1] = m
    BY <1>1
  <2> HIDE DEF N
  <2>2. Presses(m) \subseteq Inputs
    BY DEF Presses
  <2>3. ASSUME NEW i \in Inputs
        PROVE  i \in Pressed(rec, s, N + 1)
                  <=> (i \in Pressed(rec, q, N) /\ i \notin Releases(m)) \/ i \in Presses(m)
    <3>1. i \in rec.active /\ (\A h \in 1 .. N + 1 : i \notin Releases(s[h]))
             <=> /\ i \in rec.active /\ i \notin Releases(m)
                 /\ \A h \in 1 .. N : i \notin Releases(q[h])
      BY <2>1
    <3>2. ASSUME NEW k \in 1 .. N
          PROVE  (\A h \in k + 1 .. N + 1 : i \notin Releases(s[h]))
                    <=> (\A h \in k + 1 .. N : i \notin Releases(q[h])) /\ i \notin Releases(m)
      <4>1. /\ \A h \in k + 1 .. N + 1 : h \in k + 1 .. N \/ h = N + 1
            /\ \A h \in k + 1 .. N : h \in k + 1 .. N + 1 /\ s[h] = q[h]
            /\ N + 1 \in k + 1 .. N + 1 /\ s[N + 1] = m
        BY <2>1
      <4> QED BY <4>1
    <3>3. \A k \in 1 .. N + 1 : k \in 1 .. N \/ k = N + 1
      BY <2>1
    <3>4. \A k \in 1 .. N : k \in 1 .. N + 1 /\ s[k] = q[k]
      BY <2>1
    <3>5. /\ N + 1 \in 1 .. N + 1 /\ s[N + 1] = m
          /\ \A h \in (N + 1) + 1 .. N + 1 : i \notin Releases(s[h])
      BY <2>1
    <3>6. (\E k \in 1 .. N + 1 :
                i \in Presses(s[k]) /\ \A h \in k + 1 .. N + 1 : i \notin Releases(s[h]))
             <=> \/ i \in Presses(m)
                 \/ \E k \in 1 .. N : /\ i \in Presses(q[k]) /\ i \notin Releases(m)
                                      /\ \A h \in k + 1 .. N : i \notin Releases(q[h])
      BY <3>2, <3>3, <3>4, <3>5
    <3> QED BY <3>1, <3>6 DEF Pressed
  <2>4. Pressed(rec, s, N + 1) \subseteq Inputs /\ Pressed(rec, q, N) \subseteq Inputs
    BY DEF Pressed
  <2>5. Pressed(rec, s, N + 1) = (Pressed(rec, q, N) \ Releases(m)) \cup Presses(m)
    BY <2>2, <2>3, <2>4
  <2> QED BY <2>5 DEF N
<1>4. Collected(rec, s, Len(q) + 1) = Collected(rec, q, Len(q)) \cup Presses(m)
  <2>1. \A k \in 1 .. Len(q) + 1 : k \in 1 .. Len(q) \/ k = Len(q) + 1
    BY <1>1
  <2>2. \A k \in 1 .. Len(q) : k \in 1 .. Len(q) + 1 /\ s[k] = q[k]
    BY <1>1
  <2>3. Len(q) + 1 \in 1 .. Len(q) + 1 /\ s[Len(q) + 1] = m
    BY <1>1
  <2>4. \A i : (\E k \in 1 .. Len(q) + 1 : i \in Presses(s[k]))
                  <=> i \in Presses(m) \/ \E k \in 1 .. Len(q) : i \in Presses(q[k])
    BY <2>1, <2>2, <2>3
  <2>5. Presses(m) \subseteq Inputs
    BY DEF Presses
  <2> QED BY <2>4, <2>5 DEF Collected
<1> QED BY <1>2, <1>3, <1>4

\* ... then the chord is that of before, if it is over, or has the message in it.
LEMMA ReachesAdded ==
    ASSUME NEW q \in Seq(MessagesOf), NEW m \in MessagesOf, NEW s, IsSent(q, m, s), NEW rec,
           NEW c, NEW d, Reaches(rec, q, c),
           d.inputs = IF Over(c) THEN c.inputs ELSE c.inputs \cup Presses(m),
           d.down = IF Over(c) THEN c.down ELSE (c.down \ Releases(m)) \cup Presses(m)
    PROVE  Reaches(rec, s, d)
<1>1. PICK e \in 0 .. Len(q) : ReachesAt(rec, q, c, e)
  BY DEF Reaches
<1>2. /\ Len(q) \in Nat /\ e \in Nat /\ Len(s) = Len(q) + 1
      /\ e \in 0 .. Len(s) /\ Len(s) \in 0 .. Len(s)
      /\ \A n \in 0 .. e - 1 : n \in 0 .. Len(q)
      /\ \A n \in 0 .. Len(s) - 1 : n \in 0 .. Len(q) - 1 \/ n = Len(q)
  BY <1>1 DEF IsSent
<1> DEFINE S == /\ \A n \in 0 .. Len(q) : /\ Pressed(rec, s, n) = Pressed(rec, q, n)
                                         /\ Collected(rec, s, n) = Collected(rec, q, n)
                /\ Pressed(rec, s, Len(s)) = (Pressed(rec, q, Len(q)) \ Releases(m)) \cup Presses(m)
                /\ Collected(rec, s, Len(s)) = Collected(rec, q, Len(q)) \cup Presses(m)
<1>5. S
  BY <1>2, MessageAdded
<1>3. CASE Over(c)
  <2>1. ReachesAt(rec, s, d, e)
    <3>1. Over(d)
      BY <1>3 DEF Over
    <3> QED BY <1>1, <1>2, <1>3, <1>5, <3>1 DEF ReachesAt
  <2> QED BY <1>2, <2>1 DEF Reaches
<1>4. CASE ~Over(c)
  <2>1. e = Len(q)
    BY <1>1, <1>4 DEF ReachesAt
  <2>2. Pressed(rec, s, Len(s)) = d.down /\ Collected(rec, s, Len(s)) = d.inputs
    BY <1>1, <1>2, <1>4, <1>5, <2>1 DEF ReachesAt
  <2>3. \A n \in 0 .. Len(s) - 1 : Collected(rec, s, n) # {} => Pressed(rec, s, n) # {}
    <3> SUFFICES ASSUME NEW n \in 0 .. Len(s) - 1, Collected(rec, s, n) # {}
                 PROVE  Pressed(rec, s, n) # {}
      OBVIOUS
    <3>1. n \in 0 .. Len(q)
      BY <1>2
    <3>2. Collected(rec, q, n) # {} /\ Pressed(rec, s, n) = Pressed(rec, q, n)
      BY <1>5, <3>1
    <3>3. CASE n = Len(q)
      BY <3>2, <3>3, <1>1, <1>4, <2>1 DEF ReachesAt, Over
    <3>4. CASE n # Len(q)
      BY <3>2, <3>4, <1>1, <1>2, <2>1 DEF ReachesAt
    <3> QED BY <3>3, <3>4
  <2>4. ReachesAt(rec, s, d, Len(s))
    BY <1>2, <2>2, <2>3 DEF ReachesAt
  <2> QED BY <1>2, <2>4 DEF Reaches
<1> QED BY <1>3, <1>4

\* The recorder reads the first message.
LEMMA MessageRead ==
    ASSUME NEW q \in Seq(MessagesOf), NEW s, IsRead(q, s), NEW rec, NEW new,
           rec.active \subseteq Inputs,
           Records(rec, Head(q), new),
           NEW n \in 0 .. Len(s)
    PROVE  /\ Pressed(new, s, n) = Pressed(rec, q, n + 1)
           /\ Collected(new, s, n) = Collected(rec, q, n + 1)
<1>1. /\ n \in Nat /\ Len(s) \in Nat /\ Len(q) = Len(s) + 1 /\ Head(q) = q[1]
      /\ 1 \in 1 .. n + 1
      /\ \A h \in 1 .. n : s[h] = q[h + 1] /\ h + 1 \in 1 .. n + 1
      /\ \A h \in 1 .. n + 1 : h = 1 \/ h - 1 \in 1 .. n
      /\ \A h \in 1 .. n + 1 : h \in Nat /\ (h - 1) + 1 = h
  BY DEF IsRead
<1>2. Presses(q[1]) \subseteq Inputs
  BY DEF Presses
<1>3. ASSUME NEW i \in Inputs PROVE i \in Pressed(new, s, n) <=> i \in Pressed(rec, q, n + 1)
  <2>1. (\A h \in 1 .. n : i \notin Releases(s[h]))
           <=> (\A h \in 2 .. n + 1 : i \notin Releases(q[h]))
    <3>1. \A h \in 1 .. n : h + 1 \in 2 .. n + 1
      BY <1>1
    <3>2. \A h \in 2 .. n + 1 : h - 1 \in 1 .. n /\ s[h - 1] = q[h]
      BY <1>1
    <3> QED BY <1>1, <3>1, <3>2
  <2>2. (\A h \in 1 .. n + 1 : i \notin Releases(q[h]))
           <=> i \notin Releases(q[1]) /\ \A h \in 2 .. n + 1 : i \notin Releases(q[h])
    BY <1>1
  <2>3. ASSUME NEW k \in 1 .. n
        PROVE  (\A h \in k + 1 .. n : i \notin Releases(s[h]))
                  <=> (\A h \in (k + 1) + 1 .. n + 1 : i \notin Releases(q[h]))
    <3>1. \A h \in k + 1 .. n : h + 1 \in (k + 1) + 1 .. n + 1 /\ h \in 1 .. n
      BY <1>1
    <3>2. \A h \in (k + 1) + 1 .. n + 1 : h - 1 \in k + 1 .. n /\ s[h - 1] = q[h]
      BY <1>1
    <3> QED BY <1>1, <3>1, <3>2
  <2>4. (\E k \in 1 .. n + 1 :
              i \in Presses(q[k]) /\ \A h \in k + 1 .. n + 1 : i \notin Releases(q[h]))
           <=> \/ i \in Presses(q[1]) /\ \A h \in 2 .. n + 1 : i \notin Releases(q[h])
               \/ \E k \in 1 .. n :
                     i \in Presses(s[k]) /\ \A h \in k + 1 .. n : i \notin Releases(s[h])
    <3>1. ASSUME NEW k \in 1 .. n + 1, i \in Presses(q[k]), k # 1,
                 \A h \in k + 1 .. n + 1 : i \notin Releases(q[h])
          PROVE  \E l \in 1 .. n :
                     i \in Presses(s[l]) /\ \A h \in l + 1 .. n : i \notin Releases(s[h])
      <4>1. k - 1 \in 1 .. n /\ s[k - 1] = q[k] /\ ((k - 1) + 1) + 1 = k + 1
        BY <1>1, <3>1
      <4>2. \A h \in ((k - 1) + 1) + 1 .. n + 1 : i \notin Releases(q[h])
        BY <3>1, <4>1
      <4>3. \A h \in (k - 1) + 1 .. n : i \notin Releases(s[h])
        BY <2>3, <4>1, <4>2
      <4> QED BY <3>1, <4>1, <4>3
    <3>2. ASSUME NEW l \in 1 .. n, i \in Presses(s[l]),
                 \A h \in l + 1 .. n : i \notin Releases(s[h])
          PROVE  \E k \in 1 .. n + 1 :
                     i \in Presses(q[k]) /\ \A h \in k + 1 .. n + 1 : i \notin Releases(q[h])
      <4>1. l + 1 \in 1 .. n + 1 /\ i \in Presses(q[l + 1])
        BY <1>1, <3>2
      <4>2. \A h \in (l + 1) + 1 .. n + 1 : i \notin Releases(q[h])
        BY <2>3, <3>2
      <4> QED BY <4>1, <4>2
    <3>3. 1 + 1 = 2 /\ 1 \in 1 .. n + 1
      BY <1>1
    <3>4. ASSUME i \in Presses(q[1]), \A h \in 2 .. n + 1 : i \notin Releases(q[h])
          PROVE  \E k \in 1 .. n + 1 :
                     i \in Presses(q[k]) /\ \A h \in k + 1 .. n + 1 : i \notin Releases(q[h])
      <4>1. \A h \in 1 + 1 .. n + 1 : i \notin Releases(q[h])
        BY <3>3, <3>4
      <4> QED BY <3>3, <3>4, <4>1
    <3>5. ASSUME NEW k \in 1 .. n + 1, i \in Presses(q[k]), k = 1,
                 \A h \in k + 1 .. n + 1 : i \notin Releases(q[h])
          PROVE  i \in Presses(q[1]) /\ \A h \in 2 .. n + 1 : i \notin Releases(q[h])
      <4>1. k + 1 = 2
        BY <3>5
      <4> QED BY <3>5, <4>1
    <3> QED BY <3>1, <3>2, <3>4, <3>5
  <2>5. i \in new.active <=> (i \in rec.active /\ i \notin Releases(q[1])) \/ i \in Presses(q[1])
    BY <1>1 DEF Records
  <2> QED BY <2>1, <2>2, <2>4, <2>5 DEF Pressed
<1>4. Pressed(new, s, n) = Pressed(rec, q, n + 1)
  <2>1. Pressed(new, s, n) \subseteq Inputs /\ Pressed(rec, q, n + 1) \subseteq Inputs
    BY DEF Pressed
  <2> QED BY <1>3, <2>1
<1>5. Collected(new, s, n) = Collected(rec, q, n + 1)
  <2>1. ASSUME NEW i
        PROVE  (\E k \in 1 .. n + 1 : i \in Presses(q[k]))
                  <=> i \in Presses(q[1]) \/ \E k \in 1 .. n : i \in Presses(s[k])
    <3>1. ASSUME NEW k \in 1 .. n + 1, i \in Presses(q[k]), k # 1
          PROVE  \E l \in 1 .. n : i \in Presses(s[l])
      <4>1. k - 1 \in 1 .. n /\ s[k - 1] = q[k]
        BY <1>1, <3>1
      <4> QED BY <3>1, <4>1
    <3>2. \A l \in 1 .. n : l + 1 \in 1 .. n + 1 /\ s[l] = q[l + 1]
      BY <1>1
    <3> QED BY <1>1, <3>1, <3>2
  <2>2. new.accumulator = rec.accumulator \cup Presses(q[1])
    BY <1>1 DEF Records
  <2> QED BY <1>2, <2>1, <2>2 DEF Collected
<1> QED BY <1>4, <1>5

\* ... and still comes to have the chord, or has it with this message.
LEMMA ReachesRead ==
    ASSUME NEW q \in Seq(MessagesOf), NEW s, IsRead(q, s), NEW rec, NEW new, NEW c,
           rec.active \subseteq Inputs, rec.active = {} => rec.accumulator = {},
           Records(rec, Head(q), new),
           Reaches(rec, q, c)
    PROVE  /\ (new.active = {} => new.accumulator = {}) => Reaches(new, s, c)
           /\ new.active = {} /\ new.accumulator # {} => Over(c) /\ c.inputs = new.accumulator
<1>1. PICK e \in 0 .. Len(q) : ReachesAt(rec, q, c, e)
  BY DEF Reaches
<1>2. /\ Len(q) = Len(s) + 1 /\ Len(s) \in Nat /\ e \in Nat /\ e > 0 /\ e - 1 \in 0 .. Len(s)
      /\ (e - 1) + 1 = e /\ 0 \in 0 .. Len(s)
      /\ \A n \in 0 .. (e - 1) - 1 : n \in 0 .. Len(s) /\ n + 1 \in 0 .. e - 1
  <2>1. Len(q) = Len(s) + 1 /\ Len(s) \in Nat
    BY DEF IsRead
  <2>2. e > 0
    <3>1. IF Over(c) THEN e > 0 ELSE e = Len(q)
      BY <1>1 DEF ReachesAt
    <3> QED BY <2>1, <3>1
  <2> QED BY <2>1, <2>2
<1>3. \A n \in 0 .. Len(s) : /\ Pressed(new, s, n) = Pressed(rec, q, n + 1)
                             /\ Collected(new, s, n) = Collected(rec, q, n + 1)
  BY MessageRead
<1>4. Pressed(new, s, 0) = new.active /\ Collected(new, s, 0) = new.accumulator
  <2>1. new.active \subseteq Inputs
    BY DEF Presses, Records
  <2> QED BY <2>1 DEF Pressed, Collected
<1>5. ASSUME new.active = {} => new.accumulator = {} PROVE Reaches(new, s, c)
  <2>1. Pressed(new, s, e - 1) = c.down /\ Collected(new, s, e - 1) = c.inputs
    BY <1>1, <1>2, <1>3 DEF ReachesAt
  <2>2. \A n \in 0 .. (e - 1) - 1 : Collected(new, s, n) # {} => Pressed(new, s, n) # {}
    BY <1>1, <1>2, <1>3 DEF ReachesAt
  <2>3. Over(c) => e - 1 > 0
    <3> SUFFICES ASSUME Over(c), e = 1 PROVE FALSE
      BY <1>2
    <3>1. c.down = new.active /\ c.inputs = new.accumulator
      BY <1>4, <2>1
    <3> QED BY <1>5, <3>1 DEF Over
  <2>4. ~Over(c) => e - 1 = Len(s)
    BY <1>1, <1>2 DEF ReachesAt
  <2>5. ReachesAt(new, s, c, e - 1)
    BY <2>1, <2>2, <2>3, <2>4 DEF ReachesAt
  <2> QED BY <1>2, <2>5 DEF Reaches
<1>6. ASSUME new.active = {}, new.accumulator # {} PROVE Over(c) /\ c.inputs = new.accumulator
  <2>1. e = 1
    <3> SUFFICES ASSUME e # 1 PROVE FALSE
      OBVIOUS
    <3>1. 1 \in 0 .. e - 1 /\ 0 + 1 = 1
      BY <1>2
    <3>2. Pressed(rec, q, 1) = {} /\ Collected(rec, q, 1) # {}
      BY <1>2, <1>3, <1>4, <1>6, <3>1
    <3> QED BY <1>1, <3>1, <3>2 DEF ReachesAt
  <2>2. c.down = new.active /\ c.inputs = new.accumulator
    BY <1>1, <1>2, <1>3, <1>4, <2>1 DEF ReachesAt
  <2> QED BY <1>6, <2>2 DEF Over
<1> QED BY <1>5, <1>6

-----------------------------------------------------------------------------
\* What the pipe to the service has of commands to start.
LEMMA Starts ==
    /\ NoStart(<<>>)
    /\ \A q, n : NoStart(q) => OnlyStart(q, n)
    /\ \A c, n : c.nth = n => OnlyStart(<<c>>, n)
<1> QED BY DEF NoStart, OnlyStart

\* A command of another kind is added.
LEMMA StartsAdded ==
    ASSUME NEW q \in Seq(CommandsOf), NEW c, c.type # "start", NEW s, IsSent(q, c, s)
    PROVE  /\ NoStart(q) => NoStart(s)
           /\ \A n : OnlyStart(q, n) => OnlyStart(s, n)
<1>1. \A i \in DOMAIN s : s[i] = c \/ (i \in DOMAIN q /\ s[i] = q[i])
  <2>1. s \in Seq(CommandsOf \cup {c}) /\ DOMAIN s = 1 .. Len(q) + 1 /\ Len(q) \in Nat
    BY DEF IsSent
  <2>2. \A i \in 1 .. Len(q) + 1 : s[i] = IF i <= Len(q) THEN q[i] ELSE c
    BY DEF IsSent
  <2>3. \A i \in 1 .. Len(q) + 1 : i <= Len(q) => i \in DOMAIN q
    OBVIOUS
  <2> QED BY <2>1, <2>2, <2>3
<1> QED BY <1>1 DEF NoStart, OnlyStart

\* The first command is taken.
LEMMA StartsTaken ==
    ASSUME NEW q \in Seq(CommandsOf), q # <<>>, NEW s, s = Tail(q)
    PROVE  /\ NoStart(q) => NoStart(s) /\ Head(q).type # "start"
           /\ \A n : OnlyStart(q, n) => /\ OnlyStart(s, n)
                                        /\ Head(q).type = "start" => NoStart(s) /\ Head(q).nth = n
<1>1. /\ Head(q) = q[1] /\ 1 \in DOMAIN q
      /\ \A i \in DOMAIN s : /\ i \in Nat /\ i > 0 /\ i + 1 \in DOMAIN q /\ s[i] = q[i + 1]
                             /\ i + 1 # 1
  OBVIOUS
<1>2. \A i, j \in DOMAIN s : i + 1 = j + 1 => i = j
  BY <1>1
<1>3. NoStart(q) => NoStart(s) /\ Head(q).type # "start"
  BY <1>1 DEF NoStart
<1>4. ASSUME NEW n, OnlyStart(q, n)
      PROVE  OnlyStart(s, n) /\ (Head(q).type = "start" => NoStart(s) /\ Head(q).nth = n)
  <2>1. OnlyStart(s, n)
    BY <1>1, <1>2, <1>4 DEF OnlyStart
  <2>2. ASSUME Head(q).type = "start" PROVE NoStart(s) /\ Head(q).nth = n
    BY <1>1, <1>4, <2>2 DEF OnlyStart, NoStart
  <2> QED BY <2>1, <2>2
<1> QED BY <1>3, <1>4

-----------------------------------------------------------------------------
\* A GUI that records, or is about to, has the service of its pipes.
LEMMA Attached ==
    ASSUME Inv, recorder # None \/ (gui = "waiting" /\ outbox.type = "start")
    PROVE  gui # "gone" /\ attached = guis /\ guis \in Pipes /\ commands[guis] \in Seq(CommandsOf)
<1>1. gui # "gone" /\ attached = guis
  BY DEF Inv, Chances
<1> QED BY <1>1 DEF Inv, TypeOK

\* No recording runs, or nothing is read of it.
LEMMA NoRecorder ==
    ASSUME chord' \in Chords,
           polling' => recorder' = None /\ ~(gui' = "waiting" /\ outbox'.type = "start")
    PROVE  Chorded'
<1> QED BY DEF Chorded

\* Nothing is read and nothing is sent.
LEMMA NothingRead ==
    ASSUME Chorded, UNCHANGED <<recorder, guis, chord, results, polling>>,
           timers' \subseteq timers,
           reading = None => reading' = None, reading' = None \/ reading'.nth = reading.nth,
           recorder # None =>
              /\ NoStart(commands[guis]) => NoStart(commands'[guis])
              /\ \A n : OnlyStart(commands[guis], n) => OnlyStart(commands'[guis], n),
           gui' = "waiting" /\ outbox'.type = "start"
              => gui = "waiting" /\ outbox.type = "start" /\ commands'[guis] = commands[guis]
    PROVE  Chorded'
<1>1. Untouched => Untouched'
  BY DEF Untouched
<1>2. ASSUME recorder # None, polling PROVE (NotBegun \/ Begun)'
  <2>1. CASE NotBegun
    BY <1>1, <1>2, <2>1 DEF NotBegun
  <2>2. CASE Begun
    <3>1. /\ chord'.nth = recorder'.nth /\ Reaches(recorder', results', chord')
          /\ NoStart(commands'[guis'])
      BY <1>2, <2>2 DEF Begun
    <3>2. reading' = None \/ reading'.nth = recorder'.nth
      BY <2>2 DEF Begun
    <3>3. \A t \in timers' : t.nth = recorder'.nth
      BY <2>2 DEF Begun
    <3> QED BY <3>1, <3>2, <3>3 DEF Begun
  <2> QED BY <1>2, <2>1, <2>2 DEF Chorded
<1> QED BY <1>1, <1>2 DEF Chorded

\* A message is sent: the groups, or what was pressed or released.
LEMMA MessageSent ==
    ASSUME Chorded, results \in Seq(MessagesOf), UNCHANGED <<gui, guis, outbox, recorder, polling>>,
           NEW m \in MessagesOf, IsSent(results, m, results'),
           m.type = "groups" \/ reading # None \/ timers # {},
           chord' \in Chords, chord'.nth = chord.nth,
           chord'.inputs = IF Over(chord) THEN chord.inputs ELSE chord.inputs \cup Presses(m),
           chord'.down = IF Over(chord) THEN chord.down
                         ELSE (chord.down \ Releases(m)) \cup Presses(m),
           reading' = reading,
           \A t \in timers' : t \in timers \/ (reading # None /\ t.nth = reading.nth),
           recorder # None =>
              /\ NoStart(commands[guis]) => NoStart(commands'[guis])
              /\ \A n : OnlyStart(commands[guis], n) => OnlyStart(commands'[guis], n),
           gui = "waiting" /\ outbox.type = "start" => commands'[guis] = <<>>
    PROVE  Chorded'
<1>1. Untouched => Untouched'
  <2> SUFFICES ASSUME Untouched PROVE Untouched'
    OBVIOUS
  <2>1. m.type = "groups" /\ reading' = None /\ timers' = {}
    BY DEF Untouched
  <2>2. \A k \in DOMAIN results' :
           results'[k] = m \/ (k \in DOMAIN results /\ results'[k] = results[k])
    <3>1. DOMAIN results' = 1 .. Len(results) + 1 /\ Len(results) \in Nat
      BY DEF IsSent
    <3>2. \A k \in 1 .. Len(results) + 1 : results'[k] = IF k <= Len(results) THEN results[k] ELSE m
      BY DEF IsSent
    <3>3. \A k \in 1 .. Len(results) + 1 : k <= Len(results) => k \in DOMAIN results
      OBVIOUS
    <3> QED BY <3>1, <3>2, <3>3
  <2> QED BY <2>1, <2>2 DEF Untouched
<1>2. ASSUME recorder # None, polling PROVE (NotBegun \/ Begun)'
  <2>1. CASE NotBegun
    BY <1>1, <1>2, <2>1 DEF NotBegun
  <2>2. CASE Begun
    <3>1. chord'.nth = recorder'.nth /\ NoStart(commands'[guis'])
      BY <1>2, <2>2 DEF Begun
    <3>2. Reaches(recorder', results', chord')
      BY <2>2, ReachesAdded DEF Begun
    <3>3. reading' = None \/ reading'.nth = recorder'.nth
      BY <2>2 DEF Begun
    <3>4. \A t \in timers' : t.nth = recorder'.nth
      BY <2>2 DEF Begun
    <3> QED BY <3>1, <3>2, <3>3, <3>4 DEF Begun
  <2> QED BY <1>2, <2>1, <2>2 DEF Chorded
<1> QED BY <1>1, <1>2 DEF Chorded

-----------------------------------------------------------------------------
\* What the GUI writes of its own.
LEMMA StartChorded ==
    ASSUME Inv, Chorded, NEW c \in CommandsOf, c.type = "start", SendNow(c), gui # "gone",
           gui' = "idle", polling => commands[guis] = <<>> /\ Untouched,
           UNCHANGED <<guis, results, reading, timers, chord, polling>>
    PROVE  Chorded'
<1>1. guis \in Pipes /\ commands \in [Pipes -> Seq(CommandsOf)]
  BY DEF Inv, TypeOK
<1>2. polling => commands'[guis'] = <<c>>
  BY <1>1 DEF SendNow, Send
<1>3. /\ recorder' = Recorder(c.nth) /\ recorder'.nth = c.nth
      /\ recorder'.active = {} /\ recorder'.accumulator = {}
  BY DEF SendNow, Recorder
<1>4. polling => OnlyStart(commands'[guis'], recorder'.nth)
  BY <1>2, <1>3, Starts
<1>5. polling => NotBegun'
  BY <1>3, <1>4 DEF NotBegun, Untouched
<1> QED BY <1>3, <1>5 DEF Chorded

LEMMA OtherSent ==
    ASSUME Inv, Chorded, NEW c \in CommandsOf, c.type # "start", SendNow(c), gui # "gone",
           gui' = "idle", UNCHANGED <<guis, results, reading, timers, chord, polling>>
    PROVE  Chorded'
<1>1. guis \in Pipes /\ commands \in [Pipes -> Seq(CommandsOf)]
  BY DEF Inv, TypeOK
<1>2. /\ IsSent(commands[guis], c, commands'[guis]) /\ commands[guis] \in Seq(CommandsOf)
      /\ recorder' = recorder
  BY <1>1 DEF SendNow, Send, IsSent
<1>3. /\ NoStart(commands[guis]) => NoStart(commands'[guis])
      /\ \A n : OnlyStart(commands[guis], n) => OnlyStart(commands'[guis], n)
  BY <1>2, StartsAdded
<1> QED BY <1>2, <1>3, NothingRead

\* start_recorder finds nothing in the pipes, and a service that reads nothing.
LEMMA StartRecorderChorded ==
    ASSUME Inv, Chorded, Hasty = FALSE, StartRecorder PROVE Chorded'
<1> DEFINE c == Command("start", group, recordings + 1)
<1>1. /\ gui = "idle" /\ (polling => results = <<>>) /\ group # NoGroup /\ recorder = None
      /\ commands[guis] = <<>> /\ timers = {} /\ SendCommand(c)
      /\ UNCHANGED <<guis, results, reading, timers, chord, polling>>
  BY DEF StartRecorder, UserActs
<1>2. c \in CommandsOf /\ c.type = "start"
  BY <1>1, Commands DEF Command, Inv, TypeOK
<1> HIDE DEF c
<1>3. attached = guis
  BY <1>1 DEF Inv, Chances
<1>4. reading = None
  <2>1. CASE service # "up"
    BY <2>1 DEF Inv, Chances
  <2>2. CASE service = "up"
    <3>1. Talking
      BY <1>1, <1>3, <2>2 DEF Talking
    <3>2. StoppedBefore(<<>>, Len(<<>>) + 1, reading)
      BY <1>1, <3>1 DEF Inv, Agreed
    <3> QED BY <3>2 DEF StoppedBefore, Decisive
  <2> QED BY <2>1, <2>2
<1>5. polling => Untouched
  BY <1>1, <1>3, <1>4 DEF Untouched
<1>6. CASE SendNow(c) /\ UNCHANGED <<gui, outbox, service, boots>>
  BY <1>1, <1>2, <1>5, <1>6, StartChorded
<1>7. CASE BootAndWait(c)
  <2>1. recorder' = None /\ commands' = commands
    BY <1>1, <1>7 DEF BootAndWait
  <2>2. (polling' => Untouched' /\ commands'[guis'] = <<>>) /\ chord' \in Chords
    BY <1>1, <1>5, <2>1 DEF Untouched, Chorded
  <2> QED BY <2>1, <2>2 DEF Chorded
<1> QED BY <1>1, <1>6, <1>7 DEF SendCommand

LEMMA RefreshChorded == ASSUME Inv, Chorded, RefreshGroups PROVE Chorded'
<1> DEFINE c == Simple("refresh")
<1>1. c \in CommandsOf /\ c.type = "refresh"
  BY Commands DEF Command, Simple
<1>2. /\ gui = "idle" /\ SendCommand(c)
      /\ UNCHANGED <<guis, results, reading, timers, chord, polling>>
  BY DEF RefreshGroups, UserActs
<1> HIDE DEF c
<1>3. CASE SendNow(c) /\ UNCHANGED <<gui, outbox, service, boots>>
  BY <1>1, <1>2, <1>3, OtherSent
<1>4. CASE BootAndWait(c)
  <2>1. UNCHANGED <<recorder, commands>> /\ outbox'.type # "start"
    BY <1>1, <1>4 DEF BootAndWait
  <2> QED BY <1>2, <2>1, NothingRead
<1> QED BY <1>2, <1>3, <1>4 DEF SendCommand

LEMMA WaitEndsChorded == ASSUME Inv, Chorded, WaitEnds PROVE Chorded'
<1>1. /\ gui = "waiting" /\ gui' = "idle" /\ SendNow(outbox)
      /\ UNCHANGED <<guis, results, reading, timers, chord, polling>>
  BY DEF WaitEnds, serviceVars
<1>2. outbox \in CommandsOf
  BY <1>1 DEF Inv, TypeOK
<1>3. CASE outbox.type = "start"
  BY <1>1, <1>2, <1>3, StartChorded DEF Chorded
<1>4. CASE outbox.type # "start"
  BY <1>1, <1>2, <1>4, OtherSent
<1> QED BY <1>3, <1>4

\* A recording ends, or another group is shown, or the GUI comes and goes.
LEMMA UserChorded ==
    ASSUME Inv, Chorded, StopRecorder \/ Select \/ Close \/ Crash \/ StartGui
    PROVE  Chorded'
<1>1. CASE StopRecorder \/ Close \/ Crash \/ StartGui
  <2>1. recorder' = None /\ chord' = chord /\ gui' # "waiting"
    BY <1>1 DEF StopRecorder, Close, Crash, StartGui, Gone, UserActs, Inv, Chances
  <2> QED BY <2>1, NoRecorder DEF Chorded
<1>2. CASE Select
  <2>1. /\ gui' = "idle"
        /\ UNCHANGED <<guis, recorder, commands, results, reading, timers, chord, polling>>
    BY <1>2 DEF Select, UserActs, serviceVars
  <2> QED BY <2>1, NothingRead
<1> QED BY <1>1, <1>2

-----------------------------------------------------------------------------
\* What the recorder does with a message.
LEMMA Reading ==
    ASSUME recorder \in Recorders, NEW m \in MessagesOf,
           ReadGroups(m) \/ ReadIgnored(m) \/ ReadPress(m) \/ ReadRelease(m)
    PROVE  \/ /\ recorder' # None /\ UNCHANGED commands /\ recorder'.nth = recorder.nth
              /\ Records(recorder, m, recorder')
              /\ recorder' # recorder => m.type = "event" /\ recorder'.active # {}
           \/ /\ recorder' = None
              /\ m.type = "event" /\ m.input \in recorder.active
              /\ recorder.active \ Releases(m) = {} /\ Presses(m) = {}
<1>0. recorder # None
  BY RecorderTypes
<1>1. CASE ReadGroups(m)
  <2>1. Presses(m) = {} /\ Releases(m) = {}
    BY <1>1 DEF ReadGroups, Presses, Releases, Event
  <2> QED BY <1>0, <1>1, <2>1 DEF ReadGroups, Records
<1>2. ASSUME m.type = "event"
      PROVE  /\ m.input \in Inputs /\ m.pressed \in BOOLEAN
             /\ m.pressed => Presses(m) = {m.input} /\ Releases(m) = {}
             /\ ~m.pressed => Presses(m) = {} /\ Releases(m) = {m.input}
  <2>1. m \in [type : {"event"}, input : Inputs, pressed : BOOLEAN]
    BY <1>2 DEF MessagesOf
  <2>2. m = Event(m.input, m.pressed)
    BY <2>1 DEF Event
  <2>3. \A i \in Inputs, p \in BOOLEAN : m = Event(i, p) => i = m.input /\ p = m.pressed
    BY DEF Event
  <2>4. m.input \in Inputs /\ m.pressed \in BOOLEAN
    BY <2>1
  <2>5. ASSUME m.pressed PROVE Presses(m) = {m.input} /\ Releases(m) = {}
    BY <2>2, <2>3, <2>4, <2>5 DEF Presses, Releases
  <2>6. ASSUME ~m.pressed PROVE Presses(m) = {} /\ Releases(m) = {m.input}
    BY <2>2, <2>3, <2>4, <2>6 DEF Presses, Releases
  <2> QED BY <2>4, <2>5, <2>6
<1>3. CASE ReadIgnored(m)
  <2>1. /\ m.type = "event" /\ ~m.pressed /\ m.input \notin recorder.active
        /\ UNCHANGED <<recorder, commands>>
    BY <1>0, <1>3 DEF ReadIgnored, Ignored
  <2> QED BY <1>0, <1>2, <2>1 DEF Records
<1>4. CASE ReadPress(m)
  <2>1. /\ m.type = "event" /\ m.pressed /\ UNCHANGED commands
        /\ recorder' = [recorder EXCEPT !.active = @ \cup {m.input},
                                        !.accumulator = @ \cup {m.input}]
    BY <1>4 DEF ReadPress
  <2>2. /\ recorder' # None /\ recorder'.nth = recorder.nth
        /\ recorder'.active = recorder.active \cup {m.input}
        /\ recorder'.accumulator = recorder.accumulator \cup {m.input}
    <3>1. recorder' \in Recorders
      BY <1>2, <2>1 DEF Recorders
    <3> QED BY <2>1, <3>1, RecorderTypes DEF Recorders
  <2>3. Records(recorder, m, recorder')
    BY <1>2, <2>1, <2>2 DEF Records
  <2> QED BY <2>1, <2>2, <2>3
<1>5. CASE ReadRelease(m)
  <2>1. m.type = "event" /\ ~m.pressed /\ m.input \in recorder.active
    BY <1>0, <1>5 DEF ReadRelease, Ignored
  <2>2. Presses(m) = {} /\ Releases(m) = {m.input}
    BY <1>2, <2>1
  <2>3. CASE recorder.active \ {m.input} = {}
    <3>1. recorder' = None
      BY <1>5, <2>3 DEF ReadRelease
    <3> QED BY <2>1, <2>2, <2>3, <3>1
  <2>4. CASE recorder.active \ {m.input} # {}
    <3>1. /\ recorder' = [recorder EXCEPT !.active = recorder.active \ {m.input}]
          /\ UNCHANGED commands
      BY <1>5, <2>4 DEF ReadRelease
    <3>2. /\ recorder' # None /\ recorder'.nth = recorder.nth
          /\ recorder'.active = recorder.active \ {m.input}
          /\ recorder'.accumulator = recorder.accumulator
      <4>1. recorder' \in Recorders
        BY <3>1 DEF Recorders
      <4> QED BY <3>1, <4>1, RecorderTypes DEF Recorders
    <3> QED BY <2>1, <2>2, <2>4, <3>1, <3>2 DEF Records
  <2> QED BY <2>3, <2>4
<1> QED BY <1>1, <1>3, <1>4, <1>5

\* The recorder reads a message, and has the chord when it ends.
LEMMA ReadMessageChorded ==
    ASSUME Inv, Chorded, ReadMessage
    PROVE  /\ Chorded'
           /\ recorder # None /\ recorder' = None
                 => /\ chord.nth = recorder.nth /\ Over(chord)
                    /\ recorder.accumulator = chord.inputs
<1> DEFINE m == Head(results)
<1>1. /\ gui = "idle" /\ polling /\ results # <<>> /\ results' = Tail(results)
      /\ ReadGroups(m) \/ ReadIgnored(m) \/ ReadPress(m) \/ ReadRelease(m)
      /\ UNCHANGED <<gui, guis, outbox, reading, timers, chord>>
  BY DEF ReadMessage, serviceVars
<1>2. results \in Seq(MessagesOf) /\ recorder \in Recorders \cup {None}
  BY DEF Inv, TypeOK
<1>3. /\ m \in MessagesOf /\ IsRead(results, results') /\ 1 \in DOMAIN results /\ m = results[1]
      /\ \A k \in DOMAIN results' : k + 1 \in DOMAIN results /\ results'[k] = results[k + 1]
  BY <1>1, <1>2 DEF IsRead
<1> HIDE DEF m
<1>4. CASE recorder = None
  <2>1. recorder' = None
    BY <1>1, <1>4 DEF ReadGroups, ReadIgnored, ReadPress, ReadRelease, Ignored
  <2> QED BY <1>1, <1>4, <2>1, NoRecorder DEF Chorded
<1>5. CASE recorder # None
  <2>1. /\ recorder \in Recorders /\ recorder.active \subseteq Inputs
        /\ recorder.active \subseteq recorder.accumulator
        /\ recorder.active = {} => recorder.accumulator = {}
        /\ NotBegun \/ Begun
    BY <1>1, <1>2, <1>5 DEF Recorders, Chorded
  <2>2. \/ /\ recorder' # None /\ UNCHANGED commands /\ recorder'.nth = recorder.nth
           /\ Records(recorder, m, recorder')
           /\ recorder' # recorder => m.type = "event" /\ recorder'.active # {}
        \/ /\ recorder' = None
           /\ m.type = "event" /\ m.input \in recorder.active
           /\ recorder.active \ Releases(m) = {} /\ Presses(m) = {}
    BY <1>1, <1>3, <2>1, Reading
  <2>3. CASE NotBegun
    <3>1. recorder' = recorder /\ UNCHANGED commands
      BY <1>3, <2>1, <2>2, <2>3 DEF NotBegun, Untouched
    <3>2. NotBegun'
      BY <1>1, <1>3, <2>3, <3>1 DEF NotBegun, Untouched
    <3> QED BY <1>1, <1>5, <2>1, <3>1, <3>2 DEF Chorded
  <2>4. CASE Begun
    <3>1. CASE recorder' # None
      <4>1. /\ Records(recorder, m, recorder') /\ UNCHANGED commands
            /\ recorder'.nth = recorder.nth
            /\ recorder'.active = {} => recorder'.accumulator = {}
        BY <2>1, <2>2, <3>1
      <4>2. Reaches(recorder', results', chord)
        <5>1. Reaches(recorder, results, chord)
          BY <2>4 DEF Begun
        <5> QED BY <1>2, <1>3, <2>1, <4>1, <5>1, ReachesRead DEF m
      <4>3. Begun'
        BY <1>1, <2>4, <4>1, <4>2 DEF Begun
      <4>4. recorder'.active \subseteq recorder'.accumulator
        BY <2>1, <4>1 DEF Records
      <4> QED BY <1>1, <3>1, <4>1, <4>3, <4>4 DEF Chorded
    <3>2. CASE recorder' = None
      <4>1. PICK new : /\ Records(recorder, m, new)
                       /\ new.active = {} /\ new.accumulator = recorder.accumulator
        <5> DEFINE n == [active |-> {}, accumulator |-> recorder.accumulator]
        <5>1. Records(recorder, m, n) /\ n.active = {} /\ n.accumulator = recorder.accumulator
          BY <2>2, <3>2 DEF Records
        <5> QED BY <5>1
      <4>2. recorder.accumulator # {}
        BY <2>1, <2>2, <3>2
      <4>3. Reaches(recorder, results, chord) /\ chord.nth = recorder.nth
        BY <2>4 DEF Begun
      <4>4. Over(chord) /\ chord.inputs = new.accumulator
        <5>1. Records(recorder, Head(results), new)
          BY <4>1 DEF m
        <5>2. /\ Reaches(recorder, results, chord) /\ results \in Seq(MessagesOf)
              /\ recorder.active \subseteq Inputs
              /\ recorder.active = {} => recorder.accumulator = {}
              /\ IsRead(results, results')
          BY <1>2, <1>3, <2>1, <4>3
        <5>3. /\ (new.active = {} => new.accumulator = {}) => Reaches(new, results', chord)
              /\ new.active = {} /\ new.accumulator # {}
                    => Over(chord) /\ chord.inputs = new.accumulator
          BY <5>1, <5>2, ReachesRead
        <5> QED BY <4>1, <4>2, <5>3
      <4>5. Chorded'
        BY <1>1, <3>2, NoRecorder DEF Chorded
      <4> QED BY <4>1, <4>3, <4>4, <4>5
    <3> QED BY <3>1, <3>2
  <2> QED BY <2>1, <2>3, <2>4
<1> QED BY <1>4, <1>5

-----------------------------------------------------------------------------
\* The service comes, sends the groups, and goes.
LEMMA OpenPipesChorded == ASSUME Inv, Chorded, OpenPipes PROVE Chorded'
<1> DEFINE m == GroupsMessage(Refreshed)
<1>1. /\ service = "booting" /\ gui # "gone" /\ results' = <<m>>
      /\ commands' = [commands EXCEPT ![guis] = <<>>]
      /\ UNCHANGED <<gui, guis, outbox, recorder, reading, timers, chord, polling>>
  BY DEF OpenPipes, guiVars
<1>2. m \in MessagesOf /\ m.type = "groups" /\ Presses(m) = {} /\ Releases(m) = {}
  BY DEF GroupsMessage, MessagesOf, Presses, Releases, Event
<1> HIDE DEF m
<1>0. CASE ~polling
  BY <1>0, <1>1, NoRecorder DEF Chorded
<1> SUFFICES ASSUME polling PROVE Chorded'
  BY <1>0
<1>3. results = <<>> /\ guis \in Pipes /\ commands \in [Pipes -> Seq(CommandsOf)]
  BY <1>1 DEF Inv, TypeOK, Chances
<1>4. /\ results \in Seq(MessagesOf) /\ IsSent(results, m, results') /\ commands'[guis] = <<>>
      /\ chord' \in Chords
      /\ chord'.inputs = IF Over(chord) THEN chord.inputs ELSE chord.inputs \cup Presses(m)
      /\ chord'.down = IF Over(chord) THEN chord.down
                       ELSE (chord.down \ Releases(m)) \cup Presses(m)
  BY <1>1, <1>2, <1>3 DEF IsSent, Chorded
<1>5. NoStart(commands'[guis]) /\ \A n : OnlyStart(commands'[guis], n)
  BY <1>4, Starts
<1> QED BY <1>1, <1>2, <1>4, <1>5, MessageSent

LEMMA EndsChorded == ASSUME Inv, Chorded, PipesBroken \/ Lifetime PROVE Chorded'
<1>1. /\ reading' = None /\ timers' = {}
      /\ UNCHANGED <<gui, guis, outbox, recorder, commands, results, chord, polling>>
  BY DEF PipesBroken, Lifetime, Exit, guiVars
<1> QED BY <1>1, NothingRead

\* The only command to start that a recording meets is its own: with it, a chord begins.
LEMMA ReadCommandChorded == ASSUME Inv, Chorded, ReadCommand PROVE Chorded'
<1> DEFINE q == commands[attached]
           c == Head(q)
<1>1. /\ q # <<>> /\ service = "up"
      /\ commands' = [commands EXCEPT ![attached] = Tail(@)]
      /\ HandleStart(c) \/ HandleStop(c) \/ HandleRefresh(c) \/ HandleTerminate(c)
      /\ UNCHANGED <<gui, guis, outbox, recorder, polling>>
  BY DEF ReadCommand, guiVars
<1>2. CASE recorder = None \/ ~polling
  <2>1. polling => ~(gui = "waiting" /\ outbox.type = "start")
    BY <1>1, Attached DEF Chorded
  <2>2. chord' \in Chords
    <3>1. c.nth \in Nat /\ chord \in Chords
      <4>1. q \in Seq(CommandsOf)
        BY <1>1 DEF Inv, TypeOK
      <4>2. c \in CommandsOf
        BY <1>1, <4>1
      <4> QED BY <4>2 DEF CommandsOf, Chorded
    <3>2. chord' = chord \/ chord' = NewChord(c.nth)
      BY <1>1 DEF HandleStart, Restart, HandleStop, HandleRefresh, HandleTerminate
    <3> QED BY <3>1, <3>2 DEF NewChord, Chords
  <2> QED BY <1>1, <1>2, <2>1, <2>2, NoRecorder
<1>3. CASE recorder # None /\ polling
  <2>1. /\ gui # "gone" /\ attached = guis /\ guis \in Pipes /\ q \in Seq(CommandsOf)
        /\ commands \in [Pipes -> Seq(CommandsOf)]
        /\ recorder.active \subseteq recorder.accumulator
        /\ recorder.active = {} => recorder.accumulator = {}
        /\ NotBegun \/ Begun
    BY <1>3, Attached DEF Chorded, Inv, TypeOK
  <2>2. /\ commands'[guis] = Tail(q) /\ commands[guis] = q
        /\ ~(gui = "waiting" /\ outbox.type = "start")
    BY <1>1, <1>3, <2>1 DEF Chorded
  <2>3. c \in CommandsOf
    BY <1>1, <2>1
  <2>4. /\ NoStart(q) => NoStart(commands'[guis]) /\ c.type # "start"
        /\ \A n : OnlyStart(q, n) =>
              /\ OnlyStart(commands'[guis], n)
              /\ c.type = "start" => NoStart(commands'[guis]) /\ c.nth = n
    BY <1>1, <2>1, <2>2, StartsTaken
  <2> HIDE DEF q, c
  <2>5. CASE HandleStart(c)
    <3>1. c.type = "start" /\ UNCHANGED <<timers, results>>
      BY <2>5 DEF HandleStart
    <3>2. NotBegun /\ NoStart(commands'[guis]) /\ c.nth = recorder.nth
      BY <2>1, <2>2, <2>4, <3>1 DEF NotBegun, Begun
    <3>3. \/ UNCHANGED <<reading, chord>>
          \/ reading' = None /\ chord' = chord
          \/ /\ \E g \in {c.group} : reading' = [group |-> g, nth |-> c.nth]
             /\ chord' = NewChord(c.nth)
      BY <2>5 DEF HandleStart, Restart
    <3>4. CASE reading' = None /\ chord' = chord
      BY <1>1, <2>2, <2>4, <3>1, <3>4, NothingRead
    <3>5. CASE UNCHANGED <<reading, chord>>
      BY <1>1, <2>2, <2>4, <3>1, <3>5, NothingRead
    <3>6. CASE /\ \E g \in {c.group} : reading' = [group |-> g, nth |-> c.nth]
               /\ chord' = NewChord(c.nth)
      <4>1. /\ chord' \in Chords /\ chord'.nth = recorder.nth /\ reading'.nth = recorder.nth
            /\ chord'.inputs = {} /\ chord'.down = {} /\ ~Over(chord')
        BY <2>3, <3>2, <3>6 DEF NewChord, Chords, CommandsOf, Over
      <4>2. Reaches(recorder', results', chord')
        <5>1. results \in Seq(MessagesOf) /\ Len(results) \in 0 .. Len(results)
          BY DEF Inv, TypeOK
        <5>2. \A k \in 1 .. Len(results) : Presses(results[k]) = {}
          <6>1. \A k \in 1 .. Len(results) : results[k].type = "groups"
            BY <3>2, <5>1 DEF NotBegun, Untouched
          <6> QED BY <6>1 DEF Presses, Event
        <5>3. recorder.active = {} /\ recorder.accumulator = {}
          BY <2>1, <3>2 DEF NotBegun
        <5>4. \A n \in 0 .. Len(results) :
                 Pressed(recorder, results, n) = {} /\ Collected(recorder, results, n) = {}
          <6>1. \A n \in 0 .. Len(results) : \A k \in 1 .. n : k \in 1 .. Len(results)
            BY <5>1
          <6> QED BY <5>2, <5>3, <6>1 DEF Pressed, Collected
        <5>5. \A n \in 0 .. Len(results) - 1 : n \in 0 .. Len(results)
          BY <5>1
        <5>6. ReachesAt(recorder, results, chord', Len(results))
          BY <4>1, <5>1, <5>4, <5>5 DEF ReachesAt
        <5> QED BY <1>1, <3>1, <5>1, <5>6 DEF Reaches
      <4>3. Begun'
        BY <1>1, <3>1, <3>2, <4>1, <4>2 DEF Begun, NotBegun, Untouched
      <4> QED BY <1>1, <2>1, <2>2, <4>1, <4>3 DEF Chorded
    <3> QED BY <3>3, <3>4, <3>5, <3>6
  <2>6. CASE HandleStop(c) \/ HandleTerminate(c)
    <3>1. reading' = None /\ timers' \subseteq timers /\ UNCHANGED <<results, chord>>
      BY <2>6 DEF HandleStop, HandleTerminate, Exit
    <3> QED BY <1>1, <2>2, <2>4, <3>1, NothingRead
  <2>7. CASE HandleRefresh(c)
    <3> DEFINE m == GroupsMessage(Refreshed)
    <3>1. /\ results' = results \o <<m>> /\ UNCHANGED <<reading, timers, chord>>
      BY <2>1, <2>7 DEF HandleRefresh, Answer
    <3>2. m \in MessagesOf /\ m.type = "groups" /\ Presses(m) = {} /\ Releases(m) = {}
      BY DEF GroupsMessage, MessagesOf, Presses, Releases, Event
    <3> HIDE DEF m
    <3>3. /\ results \in Seq(MessagesOf) /\ IsSent(results, m, results') /\ chord' \in Chords
          /\ chord'.inputs = IF Over(chord) THEN chord.inputs ELSE chord.inputs \cup Presses(m)
          /\ chord'.down = IF Over(chord) THEN chord.down
                           ELSE (chord.down \ Releases(m)) \cup Presses(m)
      BY <3>1, <3>2 DEF IsSent, Chorded, Inv, TypeOK
    <3> QED BY <1>1, <2>2, <2>4, <3>1, <3>2, <3>3, MessageSent
  <2> QED BY <1>1, <2>5, <2>6, <2>7
<1> QED BY <1>2, <1>3

-----------------------------------------------------------------------------
\* An input is pressed or released while the service reads it, or a timer releases it.
LEMMA InputSent ==
    ASSUME Inv, Chorded, reading # None \/ timers # {}, NEW i \in Inputs, NEW p \in BOOLEAN,
           Answer(<<Event(i, p)>>),
           UNCHANGED <<gui, guis, outbox, recorder, commands, reading, polling>>,
           \A t \in timers' : t \in timers \/ (reading # None /\ t.nth = reading.nth),
           recorder # None /\ polling /\ chord.nth = recorder.nth =>
              IF p THEN ChordWith(i) ELSE ChordWithout(i),
           \/ ChordWith(i) \/ ChordWithout(i) \/ UNCHANGED chord
    PROVE  Chorded'
<1> DEFINE m == Event(i, p)
<1>1. chord' \in Chords /\ chord'.nth = chord.nth
  <2>1. chord \in Chords
    BY DEF Chorded
  <2>2. CASE ChordWith(i)
    BY <2>1, <2>2 DEF ChordWith, Chords
  <2>3. CASE ChordWithout(i)
    BY <2>1, <2>3 DEF ChordWithout, Chords
  <2> QED BY <2>1, <2>2, <2>3
<1>2. polling => ~(gui = "waiting" /\ outbox.type = "start")
  BY DEF Chorded, Untouched
<1>3. CASE recorder = None \/ ~polling
  BY <1>1, <1>2, <1>3, NoRecorder
<1>4. CASE recorder # None /\ polling
  <2>1. gui # "gone" /\ attached = guis
    BY <1>4, Attached
  <2>2. /\ m \in MessagesOf /\ results \in Seq(MessagesOf) /\ IsSent(results, m, results')
    BY <2>1 DEF Answer, IsSent, Event, MessagesOf, Inv, TypeOK
  <2>3. IF p THEN Presses(m) = {i} /\ Releases(m) = {} ELSE Presses(m) = {} /\ Releases(m) = {i}
    <3>1. \A j \in Inputs, o \in BOOLEAN : m = Event(j, o) <=> (j = i /\ o = p)
      BY DEF Event
    <3> HIDE DEF m
    <3>2. Presses(m) = {j \in Inputs : j = i /\ p = TRUE}
      BY <3>1 DEF Presses
    <3>3. Releases(m) = {j \in Inputs : j = i /\ p = FALSE}
      BY <3>1 DEF Releases
    <3> QED BY <3>2, <3>3
  <2> HIDE DEF m
  <2>4. Begun
    BY <1>4 DEF Chorded, NotBegun, Untouched
  <2>5. IF p THEN ChordWith(i) ELSE ChordWithout(i)
    BY <1>4, <2>4 DEF Begun
  <2>6. /\ chord'.inputs = IF Over(chord) THEN chord.inputs ELSE chord.inputs \cup Presses(m)
        /\ chord'.down = IF Over(chord) THEN chord.down
                         ELSE (chord.down \ Releases(m)) \cup Presses(m)
    <3>1. chord \in Chords
      BY DEF Chorded
    <3> QED BY <2>3, <2>5, <3>1 DEF ChordWith, ChordWithout, Chords, Over
  <2> QED BY <1>1, <1>2, <1>4, <2>2, <2>6, MessageSent
<1> QED BY <1>3, <1>4

LEMMA KeysChorded ==
    ASSUME Inv, Chorded, NEW k \in Keys, Press(k) \/ Release(k) PROVE Chorded'
<1>1. /\ UNCHANGED <<gui, guis, outbox, recorder, commands, reading, timers, polling>>
      /\ k \in Inputs
  BY DEF Press, Release, guiVars, serviceVars, Inputs
<1>2. CASE UNCHANGED <<results, chord>>
  BY <1>1, <1>2, NothingRead
<1>3. CASE reading # None /\ Answer(<<Event(k, TRUE)>>) /\ ChordWith(k)
  BY <1>1, <1>3, InputSent
<1>4. CASE reading # None /\ Answer(<<Event(k, FALSE)>>) /\ ChordWithout(k)
  BY <1>1, <1>4, InputSent
<1> QED BY <1>2, <1>3, <1>4 DEF Press, Release, ReadsInput

LEMMA AxesChorded ==
    ASSUME Inv, Chorded, \/ \E a \in Axes : Move(a)
                         \/ \E t \in timers : AxisRelease(t)
    PROVE  Chorded'
<1>1. timers \subseteq Movements
  BY DEF Inv, TypeOK
<1>2. ASSUME NEW a \in Axes, Move(a) PROVE Chorded'
  <2>1. /\ reading # None /\ timers' = timers \cup {Movement(a)} /\ Answer(<<Event(a, TRUE)>>)
        /\ ChordWith(a) /\ a \in Inputs /\ Movement(a).nth = reading.nth
        /\ UNCHANGED <<gui, guis, outbox, recorder, commands, reading, polling>>
    BY <1>2 DEF Move, ReadsInput, guiVars, Movement, Inputs
  <2> QED BY <2>1, InputSent
<1>3. ASSUME NEW t \in timers, AxisRelease(t) PROVE Chorded'
  <2>1. /\ timers' = timers \ {t} /\ Answer(<<Event(t.axis, FALSE)>>)
        /\ IF t.nth = chord.nth THEN ChordWithout(t.axis) ELSE UNCHANGED chord
        /\ UNCHANGED <<gui, guis, outbox, recorder, commands, reading, polling>>
    BY <1>3 DEF AxisRelease, guiVars
  <2>2. t.axis \in Inputs /\ timers # {}
    BY <1>1 DEF Movements, Inputs
  <2>3. recorder # None /\ polling /\ chord.nth = recorder.nth => t.nth = chord.nth
    <3>1. recorder # None /\ polling => Begun
      BY <2>2 DEF Chorded, NotBegun, Untouched
    <3> QED BY <3>1 DEF Begun
  <2> QED BY <2>1, <2>2, <2>3, InputSent
<1> QED BY <1>2, <1>3

LEMMA PlugsChorded ==
    ASSUME Inv, Chorded, NEW g \in Groups, Unplug(g) \/ Plug(g) PROVE Chorded'
<1>1. /\ UNCHANGED <<gui, guis, outbox, recorder, commands, results, timers, chord, polling>>
      /\ reading' \in {reading, [reading EXCEPT !.group = NoGroup]}
      /\ reading = None => reading' = None
  BY DEF Unplug, Plug, guiVars, serviceVars
<1>2. reading \in Readings \cup {None}
  BY DEF Inv, TypeOK
<1>3. reading' = None \/ reading'.nth = reading.nth
  BY <1>1, <1>2 DEF Readings
<1> QED BY <1>1, <1>3, NothingRead

\* What a recording has by its end is what was pressed until all of it was released: for any
\* inputs, however many of them are held or moving at once, however the messages, commands
\* and timers overlap, wherever the user goes meanwhile and however long the service takes
\* to start.  No recording starts while the movements of an earlier one are not released:
\* otherwise TLC finds a counterexample.
THEOREM ARecordingHasItsChord ==
    ASSUME Hasty = FALSE PROVE Spec => RecordsTheChord
<1> DEFINE Ends == (recorder # None /\ recorder' = None /\ gui' # "gone" /\ results' # results)
                      => (chord.nth = recorder.nth /\ Over(chord)
                          /\ recorder.accumulator = chord.inputs)
<1>1. Init => Inv /\ Chorded
  BY InitInv, RecorderTypes DEF Init, Chorded, NewChord, Chords
<1>2. Inv /\ Chorded /\ [Next]_vars => Chorded' /\ [Ends]_vars
  <2> SUFFICES ASSUME Inv, Chorded, [Next]_vars PROVE Chorded' /\ [Ends]_vars
    OBVIOUS
  <2>1. CASE ReadMessage
    BY <2>1, ReadMessageChorded
  <2>2. CASE StartRecorder \/ StopRecorder \/ RefreshGroups \/ WaitEnds \/ Select
    <3>1. Chorded'
      BY <2>2, StartRecorderChorded, RefreshChorded, WaitEndsChorded, UserChorded
    <3>2. results' = results
      BY <2>2 DEF StartRecorder, StopRecorder, RefreshGroups, WaitEnds, Select
    <3> QED BY <3>1, <3>2
  <2>3. CASE Close \/ Crash \/ StartGui
    <3>1. Chorded'
      BY <2>3, UserChorded
    <3>2. gui' = "gone" \/ results' = results
      BY <2>3 DEF Close, Crash, Gone, StartGui
    <3> QED BY <3>1, <3>2
  <2>4. CASE \/ OpenPipes \/ ReadCommand \/ PipesBroken \/ Lifetime
             \/ \E k \in Keys : Press(k) \/ Release(k)
             \/ \E a \in Axes : Move(a)
             \/ \E t \in timers : AxisRelease(t)
             \/ \E g \in Groups : Unplug(g) \/ Plug(g)
    <3>1. Chorded'
      BY <2>4, OpenPipesChorded, ReadCommandChorded, EndsChorded, KeysChorded, AxesChorded,
         PlugsChorded
    <3>2. recorder' = recorder
      BY <2>4 DEF OpenPipes, ReadCommand, PipesBroken, Lifetime, Press, Release, Move, AxisRelease,
                  Unplug, Plug, guiVars
    <3> QED BY <3>1, <3>2
  <2>5. CASE UNCHANGED vars
    BY <2>5, NothingRead DEF vars, guiVars, serviceVars
  <2>6. CASE Next
    BY <2>1, <2>2, <2>3, <2>4, <2>6 DEF Next
  <2> QED BY <2>5, <2>6
<1>3. Inv /\ [Next]_vars => Inv'
  BY InvStep
<1> QED BY <1>1, <1>2, <1>3, PTL DEF Spec, RecordsTheChord

-----------------------------------------------------------------------------
(***************************************************************************)
(* GuiSession.                                                             *)
(***************************************************************************)
SessionTypeOK ==
    /\ group \in Groups
    /\ automatic \subseteq Groups
    /\ switched \in BOOLEAN
    /\ calling \in Calls \cup {None}
    /\ windowd \in {"down", "starting", "up"}
    /\ managed \subseteq Groups /\ untold \subseteq Groups

\* set_window_rules_mode is about to tell windowd what it has saved.
SavedFirst == ~Free => (calling.enabled <=> calling.group \in automatic)

SessionInv == SessionTypeOK /\ SavedFirst /\ WindowdKnowsTheMode

\* set_window_rules_mode up to the call of windowd, for the group that is shown.
LEMMA SetModeKeeps ==
    ASSUME SessionInv, Free, NEW g \in Groups, NEW enabled \in BOOLEAN, SetMode(g, enabled)
    PROVE  /\ calling' \in Calls /\ automatic' \subseteq Groups
           /\ windowd' = windowd /\ managed' = managed /\ untold' \subseteq Groups
           /\ SavedFirst' /\ WindowdKnowsTheMode'
<1>1. /\ calling' = [group |-> g, enabled |-> enabled]
      /\ automatic' = IF enabled THEN automatic \cup {g} ELSE automatic \ {g}
      /\ untold' = IF windowd = "down" THEN untold ELSE untold \cup {g}
      /\ windowd' = windowd /\ managed' = managed
  BY DEF SetMode, SaveMode
<1>2. \A h \in Groups : h # g => (h \in automatic' <=> h \in automatic)
  BY <1>1
<1>3. calling' \in Calls /\ calling'.group = g /\ calling'.enabled = enabled
  BY <1>1 DEF Calls
<1>4. automatic' \subseteq Groups /\ untold' \subseteq Groups /\ (g \in automatic' <=> enabled)
  BY <1>1 DEF SessionInv, SessionTypeOK
<1>5. SavedFirst'
  BY <1>3, <1>4 DEF SavedFirst
<1>6. WindowdKnowsTheMode'
  BY <1>1, <1>2 DEF SessionInv, WindowdKnowsTheMode
<1> QED BY <1>1, <1>3, <1>4, <1>5, <1>6

\* Only set_window_rules_mode, and the end and the start of windowd, touch the modes.
LEMMA OtherModesKeep ==
    ASSUME SessionInv, UNCHANGED <<automatic, calling, windowd, managed, untold>>
    PROVE  SavedFirst' /\ WindowdKnowsTheMode'
<1> QED BY DEF SessionInv, SavedFirst, WindowdKnowsTheMode, Free

\* What the widgets are told.
LEMMA RefreshType ==
    ASSUME NEW g, Refresh(g)
    PROVE  switched' \in BOOLEAN
<1> QED BY DEF Refresh

\* Every step keeps the invariant.
LEMMA SessionInvStep ==
    ASSUME SessionInv, [SessionNext]_sessionVars
    PROVE  SessionInv'
<1> SessionTypeOK
  BY DEF SessionInv
<1>a. ASSUME UNCHANGED <<automatic, calling, windowdVars>>, group' \in Groups,
             switched' \in BOOLEAN
      PROVE  SessionInv'
  BY <1>a, OtherModesKeep DEF windowdVars, SessionInv, SessionTypeOK
<1>b. ASSUME Free, NEW enabled \in BOOLEAN, SetMode(group, enabled), UNCHANGED group,
             switched' \in BOOLEAN
      PROVE  SessionInv'
  <2>1. /\ calling' \in Calls /\ automatic' \subseteq Groups
        /\ windowd' = windowd /\ managed' = managed /\ untold' \subseteq Groups
        /\ SavedFirst' /\ WindowdKnowsTheMode'
    BY <1>b, SetModeKeeps DEF SessionTypeOK
  <2> QED BY <1>b, <2>1 DEF SessionInv, SessionTypeOK
<1>1. ASSUME NEW g \in Groups, LoadGroup(g) \/ Progress(g)
      PROVE  SessionInv'
  <2>1. UNCHANGED <<automatic, calling, windowdVars>>
    BY <1>1 DEF LoadGroup, Progress, shownVars
  <2>2. group' \in Groups /\ switched' \in BOOLEAN
    BY <1>1, RefreshType DEF LoadGroup, Progress, shownVars, widgets, SessionTypeOK
  <2> QED BY <1>a, <2>1, <2>2
<1>2. ASSUME NEW p \in Presets, SelectPreset(p) \/ AddPreset(p)
      PROVE  SessionInv'
  <2>1. UNCHANGED <<group, automatic, calling, windowdVars>> /\ switched' \in BOOLEAN
    BY <1>2, RefreshType DEF SelectPreset, AddPreset, LoadPreset
  <2> QED BY <1>a, <2>1 DEF SessionTypeOK
<1>3. ASSUME NEW p \in Presets, ActivateRow(p)
      PROVE  SessionInv'
  <2>1. UNCHANGED group /\ switched' \in BOOLEAN /\ Free
    BY <1>3, RefreshType DEF ActivateRow, LoadPreset
  <2>2. CASE UNCHANGED <<automatic, calling, windowdVars>>
    BY <1>a, <2>1, <2>2 DEF SessionTypeOK
  <2>3. CASE SetMode(group, TRUE)
    BY <1>b, <2>1, <2>3
  <2> QED BY <1>3, <2>2, <2>3 DEF ActivateRow
<1>4. CASE Apply \/ IdleStart \/ Look
  <2>1. UNCHANGED <<group, automatic, switched, calling, windowdVars>>
    BY <1>4 DEF Apply, IdleStart, Look, widgets
  <2> QED BY <1>a, <2>1 DEF SessionTypeOK
<1>5. CASE ToggleMode
  <2>1. SetMode(group, ~switched) /\ switched' = ~switched /\ Free /\ UNCHANGED group
    BY <1>5 DEF ToggleMode
  <2>2. (~switched) \in BOOLEAN
    OBVIOUS
  <2> QED BY <1>b, <2>1, <2>2
<1>6. CASE Stop
  <2>1. Free /\ UNCHANGED <<group, switched>>
    BY <1>6 DEF Stop, widgets
  <2>2. CASE SetMode(group, FALSE)
    BY <1>b, <2>1, <2>2 DEF SessionTypeOK
  <2>3. CASE UNCHANGED <<automatic, calling, windowdVars>>
    BY <1>a, <2>1, <2>3 DEF SessionTypeOK
  <2> QED BY <1>6, <2>2, <2>3 DEF Stop
<1>7. CASE CallWindowd
  <2> DEFINE g == calling.group
  <2>1. /\ ~Free /\ calling' = None /\ UNCHANGED <<group, automatic, switched, windowd>>
        /\ \/ /\ managed' = IF calling.enabled THEN managed \cup {g} ELSE managed \ {g}
              /\ untold' = untold \ {g}
           \/ UNCHANGED <<managed, untold>>
    BY <1>7 DEF CallWindowd
  <2>2. g \in Groups /\ (calling.enabled <=> g \in automatic)
    BY <2>1 DEF SessionInv, SessionTypeOK, SavedFirst, Free, Calls
  <2>3. managed' \subseteq Groups /\ untold' \subseteq Groups
    BY <2>1, <2>2 DEF SessionTypeOK
  <2>4. ASSUME windowd # "down", NEW h \in Groups \ untold'
        PROVE  h \in managed' <=> h \in automatic
    BY <2>1, <2>2, <2>4 DEF SessionInv, WindowdKnowsTheMode
  <2> QED BY <2>1, <2>3, <2>4 DEF SessionInv, SessionTypeOK, SavedFirst, WindowdKnowsTheMode, Free
<1>8. CASE PollTick
  <2>1. UNCHANGED <<group, automatic, calling, windowdVars>> /\ switched' \in BOOLEAN
    BY <1>8, RefreshType DEF PollTick, LoadPreset, widgets, SessionTypeOK
  <2> QED BY <1>a, <2>1 DEF SessionTypeOK
<1>9. ASSUME NEW g \in Groups, NEW p \in Presets \cup {None}, WindowdApplies(g, p)
      PROVE  SessionInv'
  <2>1. UNCHANGED <<group, automatic, switched, calling, windowdVars>>
    BY <1>9 DEF WindowdApplies, shownVars, widgets
  <2> QED BY <1>a, <2>1 DEF SessionTypeOK
<1>10. CASE WindowdEnds
  BY <1>10 DEF WindowdEnds, shownVars, widgets, SessionInv, SessionTypeOK, SavedFirst,
               WindowdKnowsTheMode, Free
<1>11. CASE WindowdStarts
  BY <1>11 DEF WindowdStarts, shownVars, widgets, SessionInv, SessionTypeOK, SavedFirst,
               WindowdKnowsTheMode, Free
<1>12. CASE WindowdPublishes
  BY <1>12 DEF WindowdPublishes, shownVars, widgets, SessionInv, SessionTypeOK, SavedFirst,
               WindowdKnowsTheMode, Free
<1>13. CASE GuiRestarts
  <2>1. /\ group' \in Groups /\ switched' \in BOOLEAN /\ calling' = None
        /\ UNCHANGED <<automatic, windowd, managed, untold>>
    BY <1>13, RefreshType DEF GuiRestarts
  <2> QED BY <2>1 DEF SessionInv, SessionTypeOK, SavedFirst, WindowdKnowsTheMode, Free
<1>14. CASE UNCHANGED sessionVars
  <2>1. UNCHANGED <<group, automatic, switched, calling, windowdVars>>
    BY <1>14 DEF sessionVars, shownVars, widgets
  <2> QED BY <1>a, <2>1 DEF SessionTypeOK
<1> QED BY <1>1, <1>2, <1>3, <1>4, <1>5, <1>6, <1>7, <1>8, <1>9, <1>10, <1>11, <1>12, <1>13,
           <1>14 DEF SessionNext

\* windowd manages the groups that are saved as automatic, but for those whose mode was
\* saved since it read them and that it was not told of: for any number of groups, whenever
\* the user toggles, the GUI is killed, and windowd ends and starts.
THEOREM ModesAreKnown == SessionSpec => []WindowdKnowsTheMode
<1>1. SessionInit => SessionInv
  <2> SUFFICES ASSUME SessionInit PROVE SessionInv
    OBVIOUS
  <2>1. (group \in automatic) \in BOOLEAN
    OBVIOUS
  <2>2. switched = (group \in automatic)
    BY Zenon DEF SessionInit
  <2>3. switched \in BOOLEAN
    BY <2>1, <2>2, Zenon
  <2> QED BY <2>3 DEF SessionInit, SessionInv, SessionTypeOK, SavedFirst, WindowdKnowsTheMode, Free
<1>2. SessionInv => WindowdKnowsTheMode
  BY DEF SessionInv
<1> QED BY <1>1, <1>2, SessionInvStep, PTL DEF SessionSpec
=============================================================================
