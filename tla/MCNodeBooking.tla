--------------------------- MODULE MCNodeBooking ---------------------------
(***************************************************************************)
(* Small instances of NodeBooking.  Requests off the quantum grid, caps    *)
(* below, between and above the interesting targets, and allocatable CPU   *)
(* that some pods overcommit.                                              *)
(***************************************************************************)
EXTENDS NodeBooking, TLC

CONSTANTS k1, k2, k3

In(r, delta, userCap, rangeCap, above, managed) ==
    [request |-> r, bookedDelta |-> delta, limit |-> 0, managed |-> managed,
     holdsShare |-> FALSE, userCap |-> userCap, rangeCap |-> rangeCap,
     aboveRequest |-> above]

MCInputs ==
    { In(3, 0, 0, 0, FALSE, TRUE),    \* off the grid
      In(8, 1, 14, 11, FALSE, TRUE),  \* init peak booked; both caps
      In(3, 0, 0, 4, TRUE, TRUE),     \* QoS floor under a tight LimitRange
      In(6, -1, 7, 0, TRUE, TRUE),    \* QoS floor above a user cap
      In(6, 0, 0, 0, TRUE, TRUE),     \* QoS floor without a cap
      In(12, 0, 0, 0, FALSE, FALSE) } \* unmanaged: books slack only

Knobs(floor, num, den, q) ==
    [minBurstFloor |-> floor, multNum |-> num, multDen |-> den,
     deadbandGrow |-> 10, deadbandShrink |-> 5, quantum |-> q]

KeySymmetry == Permutations(Keys)

MCConfigs == { Knobs(10, 10, 1, 5), Knobs(4, 0, 1, 4), Knobs(10, 5, 2, 0) }
=============================================================================
