--------------------------------- MODULE Axes ---------------------------------
(***************************************************************************)
(* The axes of a device, and the times of a mapping, for AxisButtons and   *)
(* AxisHandlers.                                                           *)
(***************************************************************************)
EXTENDS Integers

CONSTANTS
    AbsMin, AbsMax, \* the range of an absolute axis
    RelValues,      \* the movements of a relative axis
    Timeout,        \* release_timeout
    Period,         \* 1 / rel_rate
    Resets          \* another device of the group may be unplugged

ASSUME AxesAssumption ==
    /\ AbsMin \in Int /\ AbsMax \in Int /\ AbsMin < AbsMax
    /\ RelValues \subseteq Int \ {0}
    /\ Timeout \in Nat \ {0} /\ Period \in Nat \ {0}
    /\ Resets \in BOOLEAN

VARIABLE stick  \* where the absolute axis is
=============================================================================
