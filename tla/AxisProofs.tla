------------------------------ MODULE AxisProofs ------------------------------
(***************************************************************************)
(* Theorems about AxisHandlers, for every range of the axis, deadzone,     *)
(* gain, unit and weights: what is written of a movement, and what comes   *)
(* out of an axis that is switched off.  At the end those about            *)
(* AxisButtons, where an axis is a button.                                 *)
(***************************************************************************)
EXTENDS AxisHandlers, AxisButtons, SequenceTheorems, TLAPS

AxisEvents == {"axis"} \X Int
KeyEvents == {"key"} \X BOOLEAN
Callbacks == AxisEvents \cup KeyEvents \cup {<<"reset">>, Start, Turn}

Carries == [Codes -> [rest : Int, owed : Int]]
LoopRecords == [wait : Int, carry : Carries]

TypeOK ==
    /\ pipeline \in Pipelines
    /\ stick \in Int /\ held \in BOOLEAN
    /\ ready \in Seq(Callbacks)
    /\ on \in BOOLEAN /\ known \in BOOLEAN /\ last \in Int
    /\ value \in Int /\ running \in BOOLEAN /\ stop \in BOOLEAN
    /\ loops \in Seq(LoopRecords) /\ raced \in BOOLEAN
    /\ carried \in Carries

\* What was asked for and not written is what the remainders hold.
Small(carry) == \A c \in Codes : carry[c].owed = carry[c].rest /\ Magnitude(carry[c].rest) < Unit

RemaindersAreOwed ==
    /\ Small(carried)
    /\ \A i \in DOMAIN loops : Small(loops[i].carry)

\* A relative output has no position, and an absolute output is centered while the axis is
\* off, or nothing is known of it.
Centered ==
    /\ handler \in {"abs_to_rel", "rel_to_rel"} => output = 0
    /\ switched /\ (~on \/ ~known) => output = 0

NoStart(callbacks) == \A i \in DOMAIN callbacks : callbacks[i] # Start

\* Only AbsToRelHandler starts loops.
OnlyRatesLoop == handler # "abs_to_rel" =>
    loops = <<>> /\ stop /\ NoStart(ready)

\* While the axis is off, or nothing is known of it, the loops are told to stop and none
\* waits to start, unless one did when the axis was switched off.
LoopsAreStopped == switched /\ ((~on /\ ~raced) \/ ~known) => stop /\ NoStart(ready)

Inv == TypeOK /\ RemaindersAreOwed /\ Centered /\ OnlyRatesLoop /\ LoopsAreStopped

USE AxesAssumption, HandlersAssumption

-----------------------------------------------------------------------------
(* Numbers.                                                                *)

LEMMA SignType ==
    ASSUME NEW x \in Int
    PROVE  /\ Sign(x) \in Int /\ Magnitude(x) \in Nat
           /\ x > 0 => Sign(x) = 1 /\ Magnitude(x) = x
           /\ x = 0 => Sign(x) = 0 /\ Magnitude(x) = 0
           /\ x < 0 => Sign(x) = -1 /\ Magnitude(x) = -x
<1> QED BY DEF Sign, Magnitude

LEMMA TransformedType ==
    ASSUME NEW x \in Int
    PROVE  Transformed(x) \in Int
<1>1. \A y \in Int : Flattened(y) \in Int
  BY SignType DEF Flattened
<1>2. Normalized(x) \in Int
  BY DEF Normalized
<1> QED BY <1>1, <1>2 DEF Transformed

\* Rounding towards 0 leaves less than a step, of either sign.
LEMMA LeftIsSmall ==
    ASSUME NEW x \in Int
    PROVE  Left(x) \in Int /\ Steps(x) \in Int /\ Magnitude(Left(x)) < Unit
<1> DEFINE y == Magnitude(x)
           q == y \div Unit
<1>1. y \in Nat
  BY SignType
<1>2. /\ q \in Nat /\ Unit * q \in Nat
      /\ Unit * q <= y /\ y < Unit * q + Unit
  BY <1>1
<1>3. Steps(x) = Sign(x) * q
  BY DEF Steps
<1> HIDE DEF y, q
<1>4. CASE x > 0
  <2>1. Steps(x) = q /\ Left(x) = y - Unit * q
    BY <1>2, <1>3, <1>4, SignType DEF Left, y
  <2>2. Left(x) \in Int /\ Left(x) >= 0 /\ Left(x) < Unit
    BY <1>1, <1>2, <2>1
  <2> QED BY <1>2, <2>1, <2>2, SignType
<1>5. CASE x = 0
  <2>1. Steps(x) = 0 /\ Left(x) = 0
    BY <1>2, <1>3, <1>5, SignType DEF Left
  <2> QED BY <2>1, SignType
<1>6. CASE x < 0
  <2>1. Steps(x) = -q
    BY <1>2, <1>3, <1>6, SignType
  <2>2. Unit * Steps(x) = -(Unit * q)
    BY <1>2, <2>1
  <2>3. Left(x) = -(y - Unit * q)
    BY <1>1, <1>2, <1>6, <2>2, SignType DEF Left, y
  <2>4. Left(x) \in Int /\ Left(x) <= 0 /\ -Left(x) < Unit
    BY <1>1, <1>2, <2>3
  <2> QED BY <1>2, <2>1, <2>4, SignType
<1> QED BY <1>4, <1>5, <1>6

\* What is written and what is left add up to what was asked for.
LEMMA WriteKeeps ==
    ASSUME NEW carry \in Carries, Small(carry), NEW x \in Int
    PROVE  Written(x, carry) \in Carries /\ Small(Written(x, carry))
<1>1. ASSUME NEW c \in Codes
      PROVE  /\ Written(x, carry)[c] \in [rest : Int, owed : Int]
             /\ Written(x, carry)[c].owed = Written(x, carry)[c].rest
             /\ Magnitude(Written(x, carry)[c].rest) < Unit
  <2> DEFINE s == x * Weight[c] + carry[c].rest
             o == carry[c].owed + x * Weight[c] - Unit * Steps(s)
  <2>1. /\ Weight[c] \in Nat /\ carry[c].rest \in Int /\ carry[c].owed = carry[c].rest
        /\ x * Weight[c] \in Int
    BY DEF Carries, Small
  <2>2. s \in Int
    BY <2>1
  <2>3. Written(x, carry)[c] = [rest |-> Left(s), owed |-> o]
    BY DEF Written
  <2>4. Left(s) \in Int /\ Steps(s) \in Int /\ Magnitude(Left(s)) < Unit
    BY <2>2, LeftIsSmall
  <2>5. Left(s) = s - Unit * Steps(s) /\ Unit * Steps(s) \in Int
    BY <2>2, <2>4 DEF Left
  <2>6. o = Left(s)
    BY <2>1, <2>2, <2>5
  <2> HIDE DEF s, o
  <2> QED BY <2>3, <2>4, <2>6
<1>2. Written(x, carry) = [c \in Codes |-> Written(x, carry)[c]]
  BY DEF Written
<1> HIDE DEF Written
<1>3. Written(x, carry) \in Carries
  BY <1>1, <1>2 DEF Carries
<1> QED BY <1>1, <1>3 DEF Small

LEMMA NothingIsSmall == Nothing \in Carries /\ Small(Nothing)
<1>1. Magnitude(0) = 0
  BY SignType
<1> QED BY <1>1 DEF Nothing, Carries, Small

-----------------------------------------------------------------------------
(* Callbacks.                                                              *)

LEMMA CallbackKinds ==
    ASSUME NEW c \in Callbacks
    PROVE  /\ c[1] = "axis" => c[2] \in Int
           /\ c[1] = "key" => c[2] \in BOOLEAN
           /\ IsEvent(c) <=> c # Start /\ c # Turn
<1>1. CASE c \in AxisEvents
  <2>1. c[1] = "axis" /\ c[2] \in Int
    BY <1>1 DEF AxisEvents
  <2>2. c # Start /\ c # Turn
    BY <2>1 DEF Start, Turn
  <2> QED BY <2>1, <2>2 DEF IsEvent
<1>2. CASE c \in KeyEvents
  <2>1. c[1] = "key" /\ c[2] \in BOOLEAN
    BY <1>2 DEF KeyEvents
  <2>2. c # Start /\ c # Turn
    BY <2>1 DEF Start, Turn
  <2> QED BY <2>1, <2>2 DEF IsEvent
<1>3. CASE c \in {<<"reset">>, Start, Turn}
  BY <1>3 DEF IsEvent, Start, Turn
<1> QED BY <1>1, <1>2, <1>3 DEF Callbacks

LEMMA HeadAndTail ==
    ASSUME NEW s \in Seq(Callbacks), s # <<>>
    PROVE  /\ Head(s) \in Callbacks /\ Head(s) = s[1] /\ 1 \in DOMAIN s
           /\ Tail(s) \in Seq(Callbacks)
           /\ \A i \in DOMAIN Tail(s) : i + 1 \in DOMAIN s /\ Tail(s)[i] = s[i + 1]
<1> QED OBVIOUS

LEMMA AppendType ==
    ASSUME NEW s \in Seq(Callbacks), NEW c \in Callbacks
    PROVE  /\ Append(s, c) \in Seq(Callbacks)
           /\ \A i \in DOMAIN Append(s, c) :
                 Append(s, c)[i] = c \/ (i \in DOMAIN s /\ Append(s, c)[i] = s[i])
<1> QED OBVIOUS

LEMMA NoStartStays ==
    ASSUME NEW s \in Seq(Callbacks), NoStart(s)
    PROVE  /\ s # <<>> => NoStart(Tail(s))
           /\ \A c \in Callbacks : c # Start => NoStart(Append(s, c))
<1>1. s # <<>> => NoStart(Tail(s))
  BY HeadAndTail DEF NoStart
<1>2. ASSUME NEW c \in Callbacks, c # Start
      PROVE  NoStart(Append(s, c))
  BY <1>2, AppendType DEF NoStart
<1> QED BY <1>1, <1>2

\* What the handler of the output makes of a value.
LEMMA NotifyEffect ==
    ASSUME TypeOK, Small(carried), NEW x \in Int, NEW others \in Seq(Callbacks),
           NotifyOutput(x, others)
    PROVE  /\ UNCHANGED <<running, loops>>
           /\ value' \in Int /\ stop' \in BOOLEAN /\ raced' \in BOOLEAN
           /\ carried' \in Carries /\ Small(carried)'
           /\ handler \in {"abs_to_rel", "rel_to_rel"} => UNCHANGED output
           /\ \/ ready' = others
              \/ ready' = Append(others, Turn)
              \/ ready' = Append(others, Start) /\ handler = "abs_to_rel"
           /\ handler # "abs_to_rel" => UNCHANGED stop
<1>0. handler \in Handlers
  BY DEF TypeOK, handler
<1>1. CASE handler = "abs_to_abs"
  <2>1. NotifyAbsToAbs(x, others)
    BY <1>1 DEF NotifyOutput
  <2> QED BY <1>1, <2>1 DEF NotifyAbsToAbs, loopVars, centerVars, TypeOK
<1>2. CASE handler = "abs_to_rel"
  <2>1. NotifyAbsToRel(x, others)
    BY <1>2 DEF NotifyOutput
  <2>2. value' \in Int
    BY <2>1, TransformedType DEF NotifyAbsToRel
  <2>3. stop' \in BOOLEAN
    BY <2>1 DEF NotifyAbsToRel
  <2> QED BY <1>2, <2>1, <2>2, <2>3 DEF NotifyAbsToRel, centerVars, TypeOK
<1>3. CASE handler = "rel_to_abs"
  <2>1. NotifyRelToAbs(x, others)
    BY <1>3 DEF NotifyOutput
  <2>2. raced' \in BOOLEAN
    BY <2>1, Zenon DEF NotifyRelToAbs
  <2> QED BY <1>3, <2>1, <2>2 DEF NotifyRelToAbs, loopVars, TypeOK
<1>4. CASE handler = "rel_to_rel"
  <2>1. NotifyRelToRel(x, others)
    BY <1>4 DEF NotifyOutput
  <2>2. carried' = Written(Transformed(x), carried) /\ Transformed(x) \in Int
    BY <2>1, TransformedType DEF NotifyRelToRel
  <2>3. carried' \in Carries /\ Small(carried')
    BY <2>2, WriteKeeps DEF TypeOK
  <2> QED BY <1>4, <2>1, <2>3 DEF NotifyRelToRel, loopVars, centerVars, TypeOK, Small
<1> QED BY <1>0, <1>1, <1>2, <1>3, <1>4 DEF Handlers

\* What it makes of a recentering.
LEMMA RecenterEffect ==
    ASSUME TypeOK, NEW others \in Seq(Callbacks), Recenter(others)
    PROVE  /\ UNCHANGED <<value, running, loops>>
           /\ stop' \in BOOLEAN /\ raced' \in BOOLEAN
           /\ IF handler = "abs_to_rel" THEN stop' /\ UNCHANGED output
                                        ELSE output' = 0 /\ UNCHANGED stop
           /\ ready' = others \/ ready' = Append(others, Turn)
           /\ ~raced' => NoStart(others)
<1>1. raced' = (Start \in ToSet(others))
  BY DEF Recenter
<1>2. (Start \in ToSet(others)) \in BOOLEAN
  OBVIOUS
<1>3. raced' \in BOOLEAN
  BY <1>1, <1>2, Zenon
<1>4. (\A i \in DOMAIN others : others[i] # Start) <=> Start \notin ToSet(others)
  BY DEF ToSet
<1>5. ~raced' => NoStart(others)
  BY <1>1, <1>4 DEF NoStart
<1> QED BY <1>3, <1>5 DEF Recenter, CancelLoop, loopVars, TypeOK

-----------------------------------------------------------------------------
(* An event is handled.                                                    *)

\* Whatever the event is: the other callbacks stay, a task may be created or cancelled, and
\* an axis that is off stays so: its output is centered and its loops are stopped.
LEMMA HandleEffect ==
    ASSUME Inv, Handle
    PROVE  /\ UNCHANGED <<world, running, loops>>
           /\ value' \in Int /\ stop' \in BOOLEAN /\ raced' \in BOOLEAN
           /\ on' \in BOOLEAN /\ known' \in BOOLEAN /\ last' \in Int
           /\ carried' \in Carries /\ Small(carried)'
           /\ Centered'
           /\ handler # "abs_to_rel" => UNCHANGED stop
           /\ \/ ready' = Tail(ready)
              \/ ready' = Append(Tail(ready), Turn)
              \/ ready' = Append(Tail(ready), Start) /\ handler = "abs_to_rel"
           /\ LoopsAreStopped'
<1> DEFINE e == Head(ready)
           others == Tail(ready)
<1>0. /\ TypeOK /\ Small(carried) /\ Centered /\ LoopsAreStopped
      /\ handler # "abs_to_rel" => stop /\ NoStart(ready)
  BY DEF Inv, OnlyRatesLoop, RemaindersAreOwed
<1>1. /\ e \in Callbacks /\ others \in Seq(Callbacks) /\ UNCHANGED world
      /\ e[1] = "axis" => e[2] \in Int
      /\ e[1] = "key" => e[2] \in BOOLEAN
      /\ e[1] \in {"axis", "key", "reset"}
  BY <1>0, HeadAndTail, CallbackKinds DEF TypeOK, Handle, IsEvent
<1>2. handler' = handler /\ switched' = switched
  BY <1>1 DEF handler, switched, world
<1>3. /\ e[1] = "axis" => HandleAxis(e[2], others)
      /\ e[1] = "key" => HandleKey(e[2], others)
      /\ e[1] = "reset" => ResetAll(others)
  BY <1>1 DEF Handle
<1>a. NoStart(ready) => NoStart(others)
  BY <1>0, NoStartStays DEF TypeOK, Handle
<1>b. Turn \in Callbacks /\ Turn # Start
  BY DEF Callbacks, Turn, Start
<1>c. NoStart(others) => NoStart(Append(others, Turn))
  BY <1>1, <1>b, NoStartStays
<1>d. switched /\ ((~on /\ ~raced) \/ ~known) => stop /\ NoStart(others)
  BY <1>0, <1>a DEF LoopsAreStopped
<1>e. (switched' /\ ((~on' /\ ~raced') \/ ~known') => stop' /\ NoStart(ready')) => LoopsAreStopped'
  BY DEF LoopsAreStopped, NoStart
<1> HIDE DEF e, others, handler, switched
<1>4. CASE e[1] = "axis"
  <2>1. HandleAxis(e[2], others) /\ e[2] \in Int
    BY <1>1, <1>3, <1>4
  <2>2. CASE ~switched
    <3>1. NotifyOutput(e[2], others) /\ UNCHANGED <<on, known, last>>
      BY <2>1, <2>2 DEF HandleAxis, switchVars
    <3>2. LoopsAreStopped'
      BY <1>2, <1>e, <2>2
    <3> QED BY <1>0, <1>1, <1>2, <2>1, <2>2, <3>1, <3>2, NotifyEffect DEF TypeOK, Centered, others
  <2>3. CASE switched /\ on
    <3>1. NotifyOutput(e[2], others) /\ known' = TRUE /\ last' = e[2] /\ on' = on
      BY <2>1, <2>3 DEF HandleAxis
    <3>2. LoopsAreStopped'
      BY <1>e, <2>3, <3>1
    <3> QED BY <1>0, <1>1, <1>2, <2>1, <2>3, <3>1, <3>2, NotifyEffect DEF TypeOK, Centered, others
  <2>4. CASE switched /\ ~on
    <3>1. /\ known' = TRUE /\ last' = e[2] /\ on' = on /\ ready' = others
          /\ UNCHANGED <<value, running, stop, loops, raced, carried, output>>
      BY <2>1, <2>4 DEF HandleAxis, loopVars, centerVars
    <3>2. LoopsAreStopped'
      BY <1>2, <1>d, <1>e, <2>4, <3>1
    <3>3. Small(carried)'
      BY <1>0, <3>1 DEF Small
    <3> QED BY <1>0, <1>1, <1>2, <2>1, <2>4, <3>1, <3>2, <3>3 DEF TypeOK, Centered, others
  <2> QED BY <2>2, <2>3, <2>4
<1>5. CASE e[1] = "key"
  <2>1. /\ HandleKey(e[2], others) /\ e[2] \in BOOLEAN
        /\ on' = e[2] /\ UNCHANGED <<known, last>>
    BY <1>1, <1>3, <1>5 DEF HandleKey
  <2>2. CASE on # e[2] /\ known /\ ~e[2]
    <3>1. Recenter(others) /\ UNCHANGED carried
      BY <2>1, <2>2 DEF HandleKey
    <3>2. Small(carried)'
      BY <1>0, <3>1 DEF Small
    <3>3. LoopsAreStopped'
      BY <1>0, <1>1, <1>c, <1>e, <2>1, <2>2, <3>1, RecenterEffect
    <3> QED BY <1>0, <1>1, <1>2, <2>1, <2>2, <3>1, <3>2, <3>3, RecenterEffect
            DEF TypeOK, Centered, others
  <2>3. CASE on # e[2] /\ known /\ e[2] /\ FromAbs
    <3>1. NotifyOutput(last, others) /\ last \in Int
      BY <1>0, <2>1, <2>3 DEF HandleKey, TypeOK
    <3>2. LoopsAreStopped'
      BY <1>e, <2>1, <2>3
    <3> QED BY <1>0, <1>1, <1>2, <2>1, <2>3, <3>1, <3>2, NotifyEffect DEF TypeOK, Centered, others
  <2>4. CASE ~(on # e[2] /\ known /\ ~e[2]) /\ ~(on # e[2] /\ known /\ e[2] /\ FromAbs)
    <3>1. ready' = others /\ UNCHANGED <<value, running, stop, loops, raced, carried, output>>
      BY <2>1, <2>4 DEF HandleKey, loopVars, centerVars
    <3>2. ~on' \/ ~known' => ~on \/ ~known
      BY <1>0, <2>1, <2>4 DEF TypeOK
    <3>3. ((~on' /\ ~raced') \/ ~known') => ((~on /\ ~raced) \/ ~known)
      BY <2>1, <3>1, <3>2
    <3>4. LoopsAreStopped'
      BY <1>2, <1>d, <1>e, <3>1, <3>3
    <3>5. Small(carried)'
      BY <1>0, <3>1 DEF Small
    <3> QED BY <1>0, <1>1, <1>2, <2>1, <3>1, <3>2, <3>4, <3>5 DEF TypeOK, Centered, others
  <2> QED BY <2>2, <2>3, <2>4
<1>6. CASE e[1] = "reset"
  <2>1. /\ UNCHANGED carried
        /\ IF switched THEN last' = 0 /\ on' = FALSE /\ known' = known
                       ELSE UNCHANGED <<on, known, last>>
        /\ IF handler = "rel_to_rel"
           THEN ready' = others /\ UNCHANGED <<value, running, stop, loops, raced, output>>
           ELSE Recenter(others)
    BY <1>3, <1>6 DEF ResetAll, switchVars, loopVars, centerVars
  <2>2. /\ on' \in BOOLEAN /\ known' = known /\ last' \in Int
        /\ switched => ~on'
        /\ ~switched => on' = on
    <3>1. CASE switched
      <4>1. last' = 0 /\ on' = FALSE /\ known' = known
        BY <2>1, <3>1, Zenon
      <4>2. on' \in BOOLEAN /\ ~on'
        BY <4>1, Zenon
      <4> QED BY <3>1, <4>1, <4>2
    <3>2. CASE ~switched
      BY <1>0, <2>1, <3>2 DEF TypeOK
    <3> QED BY <3>1, <3>2
  <2>3. carried' \in Carries /\ Small(carried)' /\ known' \in BOOLEAN
    BY <1>0, <2>1, <2>2 DEF TypeOK, Small
  <2>4. CASE handler = "rel_to_rel"
    <3>1. ready' = others /\ UNCHANGED <<value, running, stop, loops, raced, output>>
      BY <2>1, <2>4
    <3>2. output' = 0 /\ stop' /\ NoStart(ready')
      BY <1>0, <1>a, <2>4, <3>1 DEF Centered
    <3>3. LoopsAreStopped'
      BY <1>e, <3>2
    <3> QED BY <1>0, <1>1, <1>2, <2>2, <2>3, <2>4, <3>1, <3>2, <3>3 DEF TypeOK, Centered, others
  <2>5. CASE handler # "rel_to_rel"
    <3>1. /\ UNCHANGED <<value, running, loops>>
          /\ stop' \in BOOLEAN /\ raced' \in BOOLEAN
          /\ IF handler = "abs_to_rel" THEN stop' /\ UNCHANGED output
                                       ELSE output' = 0 /\ UNCHANGED stop
          /\ ready' = others \/ ready' = Append(others, Turn)
          /\ ~raced' => NoStart(others)
      BY <1>0, <1>1, <2>1, <2>5, RecenterEffect
    <3>2. output' = 0 /\ stop'
      BY <1>0, <3>1 DEF Centered
    <3>3. switched /\ ((~on' /\ ~raced') \/ ~known') => NoStart(others)
      BY <1>d, <2>2, <3>1
    <3>4. LoopsAreStopped'
      BY <1>2, <1>c, <1>e, <3>1, <3>2, <3>3
    <3> QED BY <1>0, <1>1, <1>2, <2>2, <2>3, <2>5, <3>1, <3>2, <3>4 DEF TypeOK, Centered, others
  <2> QED BY <2>4, <2>5
<1> QED BY <1>1, <1>4, <1>5, <1>6

-----------------------------------------------------------------------------
(* The loops.                                                              *)

\* A sequence without one of its elements: what is left was in it before.
LEMMA Removed ==
    ASSUME NEW S, NEW s \in Seq(S), NEW t \in DOMAIN s
    PROVE  /\ RemoveAt(s, t) \in Seq(S)
           /\ Len(RemoveAt(s, t)) = Len(s) - 1
           /\ \A i \in DOMAIN RemoveAt(s, t) :
                \E j \in DOMAIN s : RemoveAt(s, t)[i] = s[j]
<1> DEFINE a == SubSeq(s, 1, t - 1)
           b == SubSeq(s, t + 1, Len(s))
<1>0. t \in 1..Len(s) /\ Len(s) \in Nat
  OBVIOUS
<1>1. a \in Seq(S) /\ Len(a) = t - 1 /\ \A i \in 1..(t - 1) : a[i] = s[i]
  BY <1>0
<1>2. b \in Seq(S) /\ Len(b) = Len(s) - t /\ \A i \in 1..(Len(s) - t) : b[i] = s[t + i]
  BY <1>0
<1>3. RemoveAt(s, t) = a \o b
  BY DEF RemoveAt
<1> HIDE DEF a, b
<1>4. a \o b \in Seq(S) /\ Len(a \o b) = Len(s) - 1
  BY <1>0, <1>1, <1>2
<1>5. ASSUME NEW i \in DOMAIN (a \o b)
      PROVE  \E j \in DOMAIN s : (a \o b)[i] = s[j]
  <2>1. i \in 1..(Len(s) - 1)
    BY <1>4
  <2>2. CASE i <= t - 1
    <3>1. (a \o b)[i] = a[i]
      BY <2>1, <2>2, <1>0, <1>1, <1>2
    <3> QED BY <3>1, <2>1, <2>2, <1>0, <1>1
  <2>3. CASE i > t - 1
    <3>1. (a \o b)[i] = b[i - (t - 1)]
      BY <2>1, <2>3, <1>0, <1>1, <1>2
    <3>2. b[i - (t - 1)] = s[i + 1] /\ i + 1 \in DOMAIN s
      BY <2>1, <2>3, <1>0, <1>2
    <3> QED BY <3>1, <3>2
  <2> QED BY <2>1, <2>2, <2>3, <1>0
<1> QED BY <1>3, <1>4, <1>5

\* What an action makes of the loops.
LoopsOK(s) == s \in Seq(LoopRecords) /\ \A i \in DOMAIN s : Small(s[i].carry)

LEMMA LoopsType ==
    ASSUME NEW s, LoopsOK(s)
    PROVE  /\ \A l \in LoopRecords : Small(l.carry) =>
                 /\ LoopsOK(Append(s, l))
                 /\ \A i \in DOMAIN s : LoopsOK([s EXCEPT ![i] = l])
           /\ \A i \in DOMAIN s : LoopsOK(RemoveAt(s, i))
           /\ LoopsOK([i \in DOMAIN s |-> [s[i] EXCEPT !.wait = @ - 1]])
<1>1. /\ s \in Seq(LoopRecords) /\ Len(s) \in Nat
      /\ s \in [1..Len(s) -> LoopRecords] /\ DOMAIN s = 1..Len(s)
      /\ \A i \in DOMAIN s : s[i] \in LoopRecords /\ Small(s[i].carry)
  BY DEF LoopsOK
<1>2. ASSUME NEW f \in [1..Len(s) -> LoopRecords], \A i \in DOMAIN s : Small(f[i].carry)
      PROVE  LoopsOK(f)
  <2>1. f \in Seq(LoopRecords) /\ DOMAIN f = DOMAIN s
    BY <1>1, <1>2, SeqDef
  <2> QED BY <1>2, <2>1 DEF LoopsOK
<1>3. ASSUME NEW l \in LoopRecords, Small(l.carry)
      PROVE  LoopsOK(Append(s, l))
  <2>1. /\ Append(s, l) \in Seq(LoopRecords)
        /\ \A i \in DOMAIN Append(s, l) : Append(s, l)[i] = l
              \/ (i \in DOMAIN s /\ Append(s, l)[i] = s[i])
    BY <1>1
  <2> QED BY <1>1, <1>3, <2>1 DEF LoopsOK
<1>4. ASSUME NEW l \in LoopRecords, Small(l.carry), NEW i \in DOMAIN s
      PROVE  LoopsOK([s EXCEPT ![i] = l])
  <2> DEFINE f == [s EXCEPT ![i] = l]
  <2>1. f \in [1..Len(s) -> LoopRecords] /\ \A j \in DOMAIN s : f[j] = IF j = i THEN l ELSE s[j]
    BY <1>1
  <2> HIDE DEF f
  <2> QED BY <1>1, <1>2, <1>4, <2>1
<1>5. ASSUME NEW i \in DOMAIN s
      PROVE  LoopsOK(RemoveAt(s, i))
  <2>1. /\ RemoveAt(s, i) \in Seq(LoopRecords)
        /\ \A k \in DOMAIN RemoveAt(s, i) : \E j \in DOMAIN s : RemoveAt(s, i)[k] = s[j]
    <3>1. s \in Seq(LoopRecords)
      BY <1>1
    <3>2. ASSUME NEW S, s \in Seq(S)
          PROVE  /\ RemoveAt(s, i) \in Seq(S)
                 /\ \A k \in DOMAIN RemoveAt(s, i) :
                       \E j \in DOMAIN s : RemoveAt(s, i)[k] = s[j]
      BY <3>2, Removed
    <3> QED BY <3>1, <3>2
  <2> QED BY <1>1, <2>1 DEF LoopsOK
<1>6. LoopsOK([i \in DOMAIN s |-> [s[i] EXCEPT !.wait = @ - 1]])
  <2> DEFINE f == [i \in DOMAIN s |-> [s[i] EXCEPT !.wait = @ - 1]]
  <2>1. ASSUME NEW i \in DOMAIN s
        PROVE  f[i] \in LoopRecords /\ f[i].carry = s[i].carry
    BY <1>1 DEF LoopRecords
  <2>2. f \in [1..Len(s) -> LoopRecords]
    BY <1>1, <2>1
  <2> HIDE DEF f
  <2>3. \A i \in DOMAIN s : Small(f[i].carry)
    BY <1>1, <2>1
  <2>4. LoopsOK(f)
    BY <1>2, <2>2, <2>3
  <2> QED BY <2>4 DEF f
<1> QED BY <1>3, <1>4, <1>5, <1>6

\* An event is read.
LEMMA ReadEffect ==
    ASSUME Inv, NEW event \in Callbacks, IsEvent(event), Read(event),
           stick' \in Int, held' \in BOOLEAN
    PROVE  Inv'
<1>1. ready \in Seq(Callbacks) /\ ready' = Append(ready, event)
  BY DEF Inv, TypeOK, Read
<1>2. event # Start
  BY CallbackKinds
<1>3. ready' \in Seq(Callbacks) /\ (NoStart(ready) => NoStart(ready'))
  BY <1>1, <1>2, AppendType, NoStartStays
<1>4. UNCHANGED <<pipeline, on, known, last, value, running, stop, loops, raced, carried, output>>
  BY DEF Read, switchVars, loopVars, centerVars
<1>5. TypeOK' /\ RemaindersAreOwed'
  BY <1>3, <1>4 DEF Inv, TypeOK, RemaindersAreOwed, Small
<1>6. Centered' /\ OnlyRatesLoop' /\ LoopsAreStopped'
  BY <1>3, <1>4 DEF Inv, Centered, OnlyRatesLoop, LoopsAreStopped, NoStart, handler, switched
<1> QED BY <1>5, <1>6 DEF Inv

LEMMA InvStep ==
    ASSUME Inv, [Next]_vars
    PROVE  Inv'
<1> /\ TypeOK /\ RemaindersAreOwed /\ Centered /\ OnlyRatesLoop /\ LoopsAreStopped
    /\ LoopsOK(loops)
  BY DEF Inv, TypeOK, RemaindersAreOwed, LoopsOK
<1>a. ASSUME LoopsOK(loops'), Small(carried)'
      PROVE  RemaindersAreOwed'
  BY <1>a DEF RemaindersAreOwed, LoopsOK, Small
<1>1. ASSUME NEW x \in AbsMin..AbsMax, MoveStick(x)
      PROVE  Inv'
  <2>1. <<"axis", x>> \in Callbacks /\ IsEvent(<<"axis", x>>)
    BY DEF Callbacks, AxisEvents, IsEvent
  <2> QED BY <1>1, <2>1, ReadEffect DEF MoveStick, TypeOK
<1>2. ASSUME NEW x \in RelValues, MoveAxis(x)
      PROVE  Inv'
  <2>1. <<"axis", x>> \in Callbacks /\ IsEvent(<<"axis", x>>)
    BY DEF Callbacks, AxisEvents, IsEvent
  <2> QED BY <1>2, <2>1, ReadEffect DEF MoveAxis, TypeOK
<1>3. CASE HoldKeys
  <2>1. (~held) \in BOOLEAN
    OBVIOUS
  <2>2. <<"key", ~held>> \in Callbacks /\ IsEvent(<<"key", ~held>>)
    BY <2>1 DEF Callbacks, KeyEvents, IsEvent
  <2>3. Read(<<"key", ~held>>) /\ stick' \in Int /\ held' \in BOOLEAN
    BY <1>3 DEF HoldKeys, TypeOK
  <2> QED BY <2>2, <2>3, ReadEffect
<1>4. CASE Unplug
  <2>1. <<"reset">> \in Callbacks /\ IsEvent(<<"reset">>)
    BY DEF Callbacks, IsEvent
  <2> QED BY <1>4, <2>1, ReadEffect DEF Unplug, TypeOK
<1>5. CASE Handle
  <2>1. ready \in Seq(Callbacks) /\ ready # <<>>
    BY <1>5 DEF Handle, TypeOK
  <2>2. Tail(ready) \in Seq(Callbacks) /\ (NoStart(ready) => NoStart(Tail(ready)))
    BY <2>1, HeadAndTail, NoStartStays
  <2>3. Start \in Callbacks /\ Turn \in Callbacks /\ Turn # Start
    BY DEF Callbacks, Start, Turn
  <2>4. /\ \/ ready' = Tail(ready)
           \/ ready' = Append(Tail(ready), Turn)
           \/ ready' = Append(Tail(ready), Start) /\ handler = "abs_to_rel"
        /\ UNCHANGED <<pipeline, stick, held, running, loops>>
        /\ value' \in Int /\ stop' \in BOOLEAN /\ raced' \in BOOLEAN
        /\ on' \in BOOLEAN /\ known' \in BOOLEAN /\ last' \in Int
        /\ carried' \in Carries /\ Small(carried)'
        /\ Centered' /\ LoopsAreStopped'
        /\ handler # "abs_to_rel" => UNCHANGED stop
    BY <1>5, HandleEffect DEF world
  <2>5. ready' \in Seq(Callbacks)
    <3>1. Append(Tail(ready), Turn) \in Seq(Callbacks)
      BY <2>2, <2>3, AppendType
    <3>2. Append(Tail(ready), Start) \in Seq(Callbacks)
      BY <2>2, <2>3, AppendType
    <3> QED BY <2>2, <2>4, <3>1, <3>2
  <2>6. handler # "abs_to_rel" => NoStart(ready')
    BY <2>2, <2>3, <2>4, NoStartStays DEF OnlyRatesLoop
  <2>7. TypeOK'
    BY <2>4, <2>5 DEF TypeOK
  <2>8. OnlyRatesLoop'
    BY <2>4, <2>6 DEF OnlyRatesLoop, handler, NoStart
  <2>9. RemaindersAreOwed'
    BY <1>a, <2>4
  <2> QED BY <2>4, <2>7, <2>8, <2>9 DEF Inv
<1>6. CASE StartLoop
  <2>1. ready \in Seq(Callbacks) /\ ready # <<>> /\ Head(ready) = Start
    BY <1>6 DEF StartLoop, TypeOK
  <2>2. ~NoStart(ready)
    BY <2>1, HeadAndTail DEF NoStart
  <2>3. /\ handler = "abs_to_rel"
        /\ switched => known /\ (on \/ raced)
    BY <2>2 DEF OnlyRatesLoop, LoopsAreStopped
  <2>4. /\ ready' = Tail(ready) /\ running' = TRUE /\ stop' = FALSE
        /\ loops' = Append(loops, [wait |-> Period, carry |-> Written(value, Nothing)])
        /\ UNCHANGED <<pipeline, stick, held, on, known, last, value, raced, carried, output>>
    BY <1>6 DEF StartLoop, world, switchVars, centerVars
  <2>5. /\ Written(value, Nothing) \in Carries /\ Small(Written(value, Nothing))
    BY NothingIsSmall, WriteKeeps DEF TypeOK
  <2>6. LoopsOK(loops')
    <3> DEFINE l == [wait |-> Period, carry |-> Written(value, Nothing)]
    <3>1. l \in LoopRecords /\ l.carry = Written(value, Nothing)
      BY <2>5 DEF LoopRecords
    <3> HIDE DEF l
    <3>2. Small(l.carry)
      BY <2>5, <3>1
    <3>3. loops' = Append(loops, l)
      BY <2>4 DEF l
    <3> QED BY <3>1, <3>2, <3>3, LoopsType
  <2>7. TypeOK'
    BY <2>1, <2>4, <2>6, HeadAndTail DEF TypeOK, LoopsOK
  <2>8. RemaindersAreOwed'
    BY <1>a, <2>4, <2>6 DEF RemaindersAreOwed, Small
  <2>9. Centered' /\ OnlyRatesLoop' /\ LoopsAreStopped'
    BY <2>3, <2>4 DEF Centered, OnlyRatesLoop, LoopsAreStopped, handler, switched
  <2> QED BY <2>7, <2>8, <2>9 DEF Inv
<1>7. CASE RecenterTurn
  <2>1. ready \in Seq(Callbacks) /\ ready # <<>> /\ ready' = Tail(ready)
    BY <1>7 DEF RecenterTurn, TypeOK
  <2>2. ready' \in Seq(Callbacks) /\ (NoStart(ready) => NoStart(ready'))
    BY <2>1, HeadAndTail, NoStartStays
  <2>3. UNCHANGED <<pipeline, stick, held, on, known, last, value, running, stop, loops,
                    raced, carried, output>>
    BY <1>7 DEF RecenterTurn, world, switchVars, loopVars
  <2> QED BY <2>2, <2>3 DEF Inv, TypeOK, RemaindersAreOwed, Small, Centered, OnlyRatesLoop,
                            LoopsAreStopped, NoStart, handler, switched
<1>8. CASE Center
  <2>1. UNCHANGED <<pipeline, stick, held, ready, on, known, last, value, running, stop, loops,
                    raced, carried>> /\ output' = 0
    BY <1>8 DEF Center, world, switchVars, loopVars
  <2> QED BY <2>1 DEF Inv, TypeOK, RemaindersAreOwed, Small, Centered, OnlyRatesLoop,
                      LoopsAreStopped, NoStart, handler, switched
<1>9. ASSUME UNCHANGED <<pipeline, stick, held, ready, on, known, last, value, stop, raced,
                         carried, output>>,
             running' \in BOOLEAN, LoopsOK(loops'), loops = <<>> => loops' = <<>>
      PROVE  Inv'
  <2>1. TypeOK'
    BY <1>9 DEF TypeOK, LoopsOK
  <2>2. RemaindersAreOwed'
    BY <1>a, <1>9 DEF RemaindersAreOwed, Small
  <2>3. Centered' /\ OnlyRatesLoop' /\ LoopsAreStopped'
    BY <1>9 DEF Centered, OnlyRatesLoop, LoopsAreStopped, NoStart, handler, switched
  <2> QED BY <2>1, <2>2, <2>3 DEF Inv
<1>10. ASSUME NEW i \in DOMAIN loops, Loop(i)
       PROVE  Inv'
  <2> DEFINE l == [wait |-> Period, carry |-> Written(value, loops[i].carry)]
  <2>1. /\ loops' = [loops EXCEPT ![i] = l]
        /\ UNCHANGED <<pipeline, stick, held, ready, on, known, last, value, running, stop,
                       raced, carried, output>>
    BY <1>10 DEF Loop, world, switchVars, centerVars
  <2>a. loops[i] \in LoopRecords /\ Small(loops[i].carry) /\ loops # <<>>
    BY DEF LoopsOK
  <2>2. loops[i].carry \in Carries /\ Small(loops[i].carry) /\ value \in Int
    BY <2>a DEF TypeOK, LoopRecords
  <2>3. l \in LoopRecords /\ Small(l.carry)
    <3>1. /\ Written(value, loops[i].carry) \in Carries
          /\ Small(Written(value, loops[i].carry))
      BY <2>2, WriteKeeps
    <3>2. l \in LoopRecords /\ l.carry = Written(value, loops[i].carry)
      BY <3>1 DEF LoopRecords
    <3> QED BY <3>1, <3>2
  <2> HIDE DEF l
  <2>4. LoopsOK(loops') /\ loops # <<>>
    BY <2>1, <2>3, <2>a, LoopsType
  <2>5. running' \in BOOLEAN
    BY <2>1 DEF TypeOK
  <2> QED BY <1>9, <2>1, <2>4, <2>5
<1>11. ASSUME NEW i \in DOMAIN loops, EndLoop(i)
       PROVE  Inv'
  <2>1. /\ loops' = RemoveAt(loops, i) /\ running' = FALSE
        /\ UNCHANGED <<pipeline, stick, held, ready, on, known, last, value, stop,
                       raced, carried, output>>
    BY <1>11 DEF EndLoop, world, switchVars, centerVars
  <2>2. LoopsOK(loops')
    BY <2>1, LoopsType
  <2>4. loops # <<>>
    OBVIOUS
  <2>3. running' \in BOOLEAN
    BY <2>1, Zenon
  <2> QED BY <1>9, <2>1, <2>2, <2>3, <2>4
<1>12. CASE Tick
  <2>1. /\ loops' = [i \in DOMAIN loops |-> [loops[i] EXCEPT !.wait = @ - 1]]
        /\ UNCHANGED <<pipeline, stick, held, ready, on, known, last, value, running, stop,
                       raced, carried, output>>
    BY <1>12 DEF Tick, world, switchVars
  <2>2. LoopsOK(loops') /\ running' \in BOOLEAN
    BY <2>1, LoopsType DEF TypeOK
  <2>3. loops = <<>> => loops' = <<>>
    BY <2>1
  <2> QED BY <1>9, <2>1, <2>2, <2>3
<1>13. CASE UNCHANGED vars
  BY <1>13 DEF vars, world, switchVars, loopVars, centerVars, Inv, TypeOK, RemaindersAreOwed,
               Small, Centered, OnlyRatesLoop, LoopsAreStopped, NoStart, handler, switched
<1> QED BY <1>1, <1>2, <1>3, <1>4, <1>5, <1>6, <1>7, <1>8, <1>10, <1>11, <1>12, <1>13
        DEF Next, Tasks

LEMMA InitInv == Init => Inv
<1> SUFFICES ASSUME Init PROVE Inv
  OBVIOUS
<1>1. (AbsMin + AbsMax) \div 2 \in Int
  OBVIOUS
<1> DEFINE middle == (AbsMin + AbsMax) \div 2
<1>2. stick = middle /\ middle \in Int
  BY <1>1 DEF Init
<1> HIDE DEF middle
<1>a. stick \in Int
  BY <1>2
<1>b. ready \in Seq(Callbacks) /\ loops \in Seq(LoopRecords)
  BY DEF Init
<1>c. /\ held \in BOOLEAN /\ on \in BOOLEAN /\ known \in BOOLEAN
      /\ running \in BOOLEAN /\ stop \in BOOLEAN /\ raced \in BOOLEAN
  BY Zenon DEF Init
<1>d. /\ pipeline \in Pipelines /\ last \in Int /\ value \in Int
      /\ carried \in Carries /\ Small(carried)
  BY NothingIsSmall DEF Init
<1>e. TypeOK
  BY <1>a, <1>b, <1>c, <1>d DEF TypeOK
<1>3. ready = <<>> /\ loops = <<>> /\ output = 0 /\ stop
  BY Zenon DEF Init
<1>4. RemaindersAreOwed /\ Centered /\ OnlyRatesLoop /\ LoopsAreStopped
  BY <1>3, <1>d DEF RemaindersAreOwed, Centered, OnlyRatesLoop, LoopsAreStopped, NoStart
<1> QED BY <1>4, <1>e DEF Inv

\* What is written, what is owed and what is centered, in every state of every instance.
THEOREM Invariance == Spec => []Inv
<1> QED BY InitInv, InvStep, PTL DEF Spec

\* However small the movements, whatever the unit and the weights of the codes: what was
\* asked for and not written is less than a step.
THEOREM NoMovementIsLost == Spec => []LessThanAStepIsOwed
<1>1. Inv => LessThanAStepIsOwed
  BY DEF Inv, RemaindersAreOwed, Small, LessThanAStepIsOwed
<1> QED BY <1>1, Invariance, PTL

\* An absolute output of an axis that is switched off is centered at every moment, however
\* many events are read before one is handled.
THEOREM OffIsCentered == Spec => [](switched /\ ~on => output = 0)
<1>1. Inv => (switched /\ ~on => output = 0)
  BY DEF Inv, Centered
<1> QED BY <1>1, Invariance, PTL

\* Nothing comes out of an axis that is switched off, however many events are read at once:
\* it is centered and its loops are told to stop, unless a loop waited to start.
THEOREM NothingComesOut == Spec => []SilentWhenOff
<1>1. Inv => SilentWhenOff
  BY DEF Inv, Centered, LoopsAreStopped, SilentWhenOff
<1> QED BY <1>1, Invariance, PTL

-----------------------------------------------------------------------------
(***************************************************************************)
(* Axes as buttons: AxisButtons, for all times and thresholds and for any  *)
(* number of timers.  RelToBtnHandler implements HeldButton.               *)
(*                                                                         *)
(* Each timer may end without a release, if it finds that the flag is set, *)
(* and it clears the flag.  A button that is down is released nevertheless *)
(* because there is a timer more than the flag needs (EnoughTimers), and   *)
(* in time because none of them sleeps past the deadline (NoneIsLate).     *)
(***************************************************************************)
USE ButtonsAssumption

\* Every activation staged a timer; a flag that is set takes one of them away.
EnoughTimers ==
    /\ abort => Len(timers) >= 1
    /\ active => Len(timers) >= 1
    /\ active /\ abort => Len(timers) >= 2

NoneIsLate == \A t \in DOMAIN timers : idle + timers[t] < Late

RelOK ==
    /\ active \in BOOLEAN /\ abort \in BOOLEAN
    /\ idle \in 0..Late /\ timers \in Seq(0..Period)

IInv == RelOK /\ EnoughTimers /\ NoneIsLate

-----------------------------------------------------------------------------

LEMMA Starts ==
    ButtonInit => IInv
<1> SUFFICES ASSUME ButtonInit PROVE IInv
  OBVIOUS
<1>1. active = FALSE /\ abort = FALSE /\ idle = Late /\ timers = <<>>
  BY DEF ButtonInit
<1>2. timers \in Seq(0..Period) /\ Len(timers) = 0
  BY <1>1
<1>3. DOMAIN timers = {}
  BY <1>2
<1>4. Late \in Nat
  BY DEF Late
<1>5. RelOK
  <2>1. idle \in 0..Late
    BY <1>1, <1>4
  <2>2. active \in BOOLEAN /\ abort \in BOOLEAN
    BY <1>1
  <2> QED BY <2>1, <2>2, <1>2 DEF RelOK
<1>6. EnoughTimers
  BY <1>1 DEF EnoughTimers
<1>7. NoneIsLate
  BY <1>3 DEF NoneIsLate
<1> QED BY <1>5, <1>6, <1>7 DEF IInv

\* One step per operation of the handler; the rest does not touch its state.
LEMMA Keeps ==
    IInv /\ [ButtonNext]_buttonVars => IInv'
<1> SUFFICES ASSUME IInv, [ButtonNext]_buttonVars PROVE IInv'
  OBVIOUS
<1> USE DEF IInv, RelOK, EnoughTimers, NoneIsLate, Late
<1>1. ASSUME NEW v \in RelValues, MoveFast(v) PROVE IInv'
  <2>1. CASE active
    BY <1>1, <2>1 DEF MoveFast, Staged
  <2>2. CASE ~active
    <3>1. timers' = Append(timers, Period) /\ idle' = 0 /\ active' = TRUE /\ abort' = abort
      BY <1>1, <2>2 DEF MoveFast, Staged
    <3>2. timers' \in Seq(0..Period) /\ Len(timers') = Len(timers) + 1
      BY <3>1
    <3>3. \A t \in DOMAIN timers' : timers'[t] \in 0..Period
      BY <3>2
    <3> QED BY <3>1, <3>2, <3>3
  <2> QED BY <2>1, <2>2
<1>2. ASSUME NEW v \in RelValues, MoveSlowly(v) PROVE IInv'
  BY <1>2 DEF MoveSlowly
<1>3. ASSUME NEW t \in DOMAIN timers, LookAgain(t) PROVE IInv'
  <2>1. /\ timers' = [timers EXCEPT ![t] = Period] /\ idle < Timeout
        /\ UNCHANGED <<active, abort, idle>>
    BY <1>3 DEF LookAgain
  <2>2. timers' \in Seq(0..Period) /\ Len(timers') = Len(timers)
    BY <2>1
  <2>3. \A i \in DOMAIN timers' : i \in DOMAIN timers /\
                                (timers'[i] = Period \/ timers'[i] = timers[i])
    BY <2>1
  <2>4. RelOK' /\ EnoughTimers'
    BY <2>1, <2>2 DEF RelOK, EnoughTimers
  <2>5. idle' + Period < Late /\ \A i \in DOMAIN timers : idle' + timers[i] < Late
    BY <2>1 DEF Late, NoneIsLate, RelOK
  <2>6. NoneIsLate'
    BY <2>3, <2>5 DEF NoneIsLate
  <2> QED BY <2>4, <2>6
<1>4. ASSUME NEW t \in DOMAIN timers, AbortRelease(t) PROVE IInv'
  <2>1. /\ timers' = RemoveAt(timers, t) /\ UNCHANGED <<active, idle>>
        /\ abort /\ abort' = FALSE
    BY <1>4 DEF AbortRelease
  <2>2. /\ timers' \in Seq(0..Period) /\ Len(timers') = Len(timers) - 1
        /\ \A i \in DOMAIN timers' : \E j \in DOMAIN timers : timers'[i] = timers[j]
    BY <2>1, Removed
  <2>3. RelOK' /\ NoneIsLate'
    BY <2>1, <2>2
  <2>4. active' => Len(timers') >= 1
    <3>1. active => Len(timers) >= 2
      BY <2>1
    <3>2. Len(timers) >= 2 => Len(timers') >= 1
      BY <2>2
    <3> QED BY <3>1, <3>2, <2>1
  <2>5. EnoughTimers'
    BY <2>1, <2>4
  <2> QED BY <2>3, <2>5
<1>5. ASSUME NEW t \in DOMAIN timers, StageRelease(t) PROVE IInv'
  <2>1. /\ timers' = RemoveAt(timers, t) /\ UNCHANGED <<abort, idle>>
        /\ ~abort /\ active' = FALSE
    BY <1>5 DEF StageRelease
  <2>2. /\ timers' \in Seq(0..Period) /\ Len(timers') = Len(timers) - 1
        /\ \A i \in DOMAIN timers' : \E j \in DOMAIN timers : timers'[i] = timers[j]
    BY <2>1, Removed
  <2> QED BY <2>1, <2>2
<1>6. CASE ButtonTick
  <2>1. /\ timers' = [t \in DOMAIN timers |-> timers[t] - 1]
        /\ \A t \in DOMAIN timers : timers[t] > 0
        /\ idle' = (IF idle < Late THEN idle + 1 ELSE idle)
        /\ UNCHANGED <<active, abort>>
    BY <1>6 DEF ButtonTick
  <2>2. DOMAIN timers = 1..Len(timers) /\ \A t \in DOMAIN timers : timers[t] \in 0..Period
    OBVIOUS
  <2>3. timers' \in Seq(0..Period) /\ Len(timers') = Len(timers)
    BY <2>1, <2>2
  <2> QED BY <2>1, <2>2, <2>3
<1>7. CASE Reset
  BY <1>7 DEF Reset
<1>8. CASE (\E v \in AbsMin..AbsMax : TiltStick(v)) \/ UNCHANGED buttonVars
  BY <1>8 DEF TiltStick, relVars, buttonVars
<1> QED BY <1>1, <1>2, <1>3, <1>4, <1>5, <1>6, <1>7, <1>8 DEF ButtonNext

\* The inductive invariant holds: there is always a timer left to release the button.
THEOREM ReleaseIsComing ==
    ButtonSpec => []IInv
<1>1. ButtonInit => IInv
  BY Starts
<1>2. IInv /\ [ButtonNext]_buttonVars => IInv'
  BY Keeps
<1> QED BY <1>1, <1>2, PTL DEF ButtonSpec

LEMMA Refines ==
    IInv /\ [ButtonNext]_buttonVars => [Button!Next]_<<active, idle>>
<1> SUFFICES ASSUME IInv, [ButtonNext]_buttonVars
             PROVE  Button!Next \/ UNCHANGED <<active, idle>>
  OBVIOUS
<1> USE DEF IInv, RelOK, Button!Next
<1>1. ASSUME NEW v \in RelValues, MoveFast(v) PROVE Button!Fast
  BY <1>1 DEF MoveFast, Button!Fast
<1>2. ASSUME NEW v \in RelValues, MoveSlowly(v) PROVE Button!Slow
  BY <1>2 DEF MoveSlowly, Button!Slow
<1>3. ASSUME NEW t \in DOMAIN timers, LookAgain(t) \/ AbortRelease(t)
      PROVE  UNCHANGED <<active, idle>>
  BY <1>3 DEF LookAgain, AbortRelease
<1>4. ASSUME NEW t \in DOMAIN timers, StageRelease(t) PROVE Button!Expire
  BY <1>4 DEF StageRelease, Button!Expire
<1>5. CASE ButtonTick
  <2>1. active => idle + 1 < Late
    <3> SUFFICES ASSUME active PROVE idle + 1 < Late
      OBVIOUS
    <3>1. 1 \in DOMAIN timers /\ timers[1] \in 0..Period
      BY DEF EnoughTimers
    <3>2. timers[1] > 0 /\ idle + timers[1] < Late
      BY <1>5, <3>1 DEF ButtonTick, NoneIsLate
    <3> QED BY <3>1, <3>2 DEF Late
  <2> QED BY <1>5, <2>1 DEF ButtonTick, Button!Tick, Button!Late, Late
<1>6. CASE Reset
  BY <1>6 DEF Reset, Button!Reset
<1>7. CASE (\E v \in AbsMin..AbsMax : TiltStick(v)) \/ UNCHANGED buttonVars
  BY <1>7 DEF TiltStick, relVars, buttonVars
<1> QED BY <1>1, <1>2, <1>3, <1>4, <1>5, <1>6, <1>7 DEF ButtonNext

\* RelToBtnHandler with its timers and its flag implements the button that HeldButton
\* describes without them.
THEOREM ButtonIsImplemented ==
    ButtonSpec => ButtonIsHeld
<1>1. ButtonInit => Button!Init
  BY DEF ButtonInit, Button!Init, Button!Late, Late
<1>2. IInv /\ [ButtonNext]_buttonVars => [Button!Next]_<<active, idle>>
  BY Refines
<1>3. ButtonSpec => []IInv
  BY ReleaseIsComing
<1> QED BY <1>1, <1>2, <1>3, PTL DEF ButtonSpec, ButtonIsHeld, Button!Spec

-----------------------------------------------------------------------------
(* The key. *)

\* What the CombinationHandler believes of its inputs is so.
ComboOK ==
    /\ out => pressed = Inputs
    /\ "rel" \in pressed => active
    /\ "abs" \in pressed => wasPressed /\ IsPast(stick)

LEMMA ComboKept == ComboOK /\ [ButtonNext]_buttonVars => ComboOK'
<1> SUFFICES ASSUME ComboOK, [ButtonNext]_buttonVars PROVE ComboOK'
  OBVIOUS
<1> USE DEF ComboOK
<1>1. ASSUME NEW v \in RelValues, MoveFast(v) PROVE ComboOK'
  <2>1. active' /\ UNCHANGED <<stick, wasPressed>> /\ PressInput("rel")
    BY <1>1 DEF MoveFast, absVars
  <2>2. pressed' = pressed \cup {"rel"} /\ (out' <=> out \/ pressed' = Inputs)
    BY <2>1 DEF PressInput
  <2>3. IsPast(stick)' <=> IsPast(stick)
    BY <2>1 DEF IsPast
  <2> QED BY <2>1, <2>2, <2>3 DEF Inputs
<1>2. ASSUME NEW v \in RelValues, MoveSlowly(v) PROVE ComboOK'
  <2>1. pressed' = pressed \ {"rel"} /\ out' = FALSE /\ UNCHANGED <<stick, wasPressed>>
    BY <1>2 DEF MoveSlowly, ReleaseInput, absVars
  <2> QED BY <2>1 DEF IsPast
<1>3. ASSUME NEW t \in DOMAIN timers, LookAgain(t) \/ AbortRelease(t) PROVE ComboOK'
  <2>1. UNCHANGED <<active, stick, wasPressed, pressed, out>>
    BY <1>3 DEF LookAgain, AbortRelease, absVars, comboVars
  <2> QED BY <2>1 DEF IsPast
<1>4. ASSUME NEW t \in DOMAIN timers, StageRelease(t) PROVE ComboOK'
  <2>1. pressed' = pressed \ {"rel"} /\ out' = FALSE /\ UNCHANGED <<stick, wasPressed>>
    BY <1>4 DEF StageRelease, ReleaseInput, absVars
  <2> QED BY <2>1 DEF IsPast
<1>5. CASE ButtonTick
  <2>1. UNCHANGED <<active, stick, wasPressed, pressed, out>>
    BY <1>5 DEF ButtonTick, absVars, comboVars
  <2> QED BY <2>1 DEF IsPast
<1>6. CASE Reset
  <2>1. pressed' = {} /\ out' = FALSE
    BY <1>6 DEF Reset
  <2> QED BY <2>1
<1>7. ASSUME NEW v \in AbsMin..AbsMax, TiltStick(v) PROVE ComboOK'
  <2>1. stick' = v /\ active' = active
    BY <1>7 DEF TiltStick, relVars
  <2>2. CASE ~GoesOn(v)
    <3>1. UNCHANGED <<wasPressed, pressed, out>> /\ ~wasPressed
      BY <1>7, <2>2 DEF TiltStick, comboVars, GoesOn
    <3> QED BY <3>1, <2>1
  <2>3. CASE GoesOn(v) /\ IsPast(v)
    <3>1. wasPressed' /\ PressInput("abs")
      BY <1>7, <2>3 DEF TiltStick
    <3>2. pressed' = pressed \cup {"abs"} /\ (out' <=> out \/ pressed' = Inputs)
      BY <3>1 DEF PressInput
    <3>3. IsPast(stick)'
      BY <2>1, <2>3 DEF IsPast
    <3> QED BY <3>1, <3>2, <3>3, <2>1 DEF Inputs
  <2>4. CASE GoesOn(v) /\ ~IsPast(v)
    <3>1. pressed' = pressed \ {"abs"} /\ out' = FALSE
      BY <1>7, <2>4 DEF TiltStick, ReleaseInput
    <3> QED BY <3>1, <2>1
  <2> QED BY <2>2, <2>3, <2>4
<1>8. CASE UNCHANGED buttonVars
  <2>1. UNCHANGED <<active, stick, wasPressed, pressed, out>>
    BY <1>8 DEF buttonVars, relVars, absVars, comboVars
  <2> QED BY <2>1 DEF IsPast
<1> QED BY <1>1, <1>2, <1>3, <1>4, <1>5, <1>6, <1>7, <1>8 DEF ButtonNext

\* What is in a sequence over S is in S.
LEMMA InItsSet ==
  ASSUME NEW S, NEW s \in Seq(S), NEW t \in DOMAIN s PROVE s[t] \in S
  OBVIOUS

\* The key of the mapping is never left down by one of the axes.
THEOREM KeyIsNotStuck ==
    ButtonSpec => []KeyNeedsBothAxes
<1>1. ButtonInit => ComboOK
  BY DEF ButtonInit, ComboOK, Inputs
<1>2. IInv /\ ComboOK => KeyNeedsBothAxes
  <2> SUFFICES ASSUME IInv, ComboOK, out
               PROVE  IsPast(stick) /\ pressed = Inputs /\ active /\ idle < Late
    BY DEF KeyNeedsBothAxes
  <2>1. IsPast(stick) /\ pressed = Inputs /\ active
    BY DEF ComboOK, Inputs
  <2>2. 1 \in DOMAIN timers
    BY <2>1 DEF IInv, RelOK, EnoughTimers
  <2>3. RelOK /\ NoneIsLate
    BY <2>1 DEF IInv, RelOK
  <2>4. timers \in Seq(0..Period) /\ idle \in 0..Late
    BY <2>3 DEF RelOK
  <2>5. timers[1] \in 0..Period
    BY <2>2, <2>4, InItsSet
  <2>6. idle + timers[1] < Late
    BY <2>2, <2>3 DEF NoneIsLate
  <2>7. idle < Late
    BY <2>4, <2>5, <2>6 DEF Late
  <2> QED BY <2>1, <2>7
<1>3. ComboOK /\ [ButtonNext]_buttonVars => ComboOK'
  BY ComboKept
<1>4. ButtonSpec => []IInv
  BY ReleaseIsComing
<1> QED BY <1>1, <1>2, <1>3, <1>4, PTL DEF ButtonSpec
=============================================================================
