------------------------------- MODULE Policy -------------------------------
(***************************************************************************)
(* internal/policy/policy.go: given a node's allocatable CPU and the pods  *)
(* bound to it, the target CPU limit of every managed pod.                 *)
(*                                                                         *)
(* CPU is whole milli-cores.  The code computes shares in float64 and      *)
(* rounds once; the operands are far below 2^53, so this is rounding the   *)
(* exact rational, up to a quotient next to a half.  Two facts keep the    *)
(* definitions integral: Round is monotone, so Round(max(a, b)) is         *)
(* max(Round(a), Round(b)), and Round of an integer is that integer.       *)
(* MaxMultiplier is the rational multNum/multDen and a deadband is a       *)
(* percentage, as the HeadroomConfig API gives them.                       *)
(***************************************************************************)
EXTENDS Integers, FiniteSets, Functions

Least(a, b) == IF a <= b THEN a ELSE b
Greatest(a, b) == IF a >= b THEN a ELSE b

\* math.Round(a / b) for a >= 0 and b > 0: to nearest, halves up.
Round(a, b) == (2 * a + b) \div (2 * b)

\* The rows of the input: policy.PodInput and policy.Config.
PodInput ==
    [request: Nat, bookedDelta: Int, limit: Nat, managed: BOOLEAN,
     holdsShare: BOOLEAN, userCap: Nat, rangeCap: Nat, aboveRequest: BOOLEAN]

PolicyConfig ==
    [minBurstFloor: Nat, multNum: Nat, multDen: Nat \ {0},
     deadbandGrow: Nat, deadbandShrink: Nat, quantum: Nat]

\* The tighter of the pod's two ceilings; 0 is none.
CapMilli(p) ==
    IF \/ p.userCap = 0
       \/ p.rangeCap > 0 /\ p.rangeCap < p.userCap
    THEN p.rangeCap
    ELSE p.userCap

\* Slip: a backed-off pod gives up its share.
MutantManagedOnly(pods) == {k \in DOMAIN pods : pods[k].managed}

\* The pods that share the slack: M and N of the design.
Sharing(pods) == {k \in DOMAIN pods : pods[k].managed \/ pods[k].holdsShare}

\* NodeStats.  Slack books every pod; the managed sums only those that share.
Stats(allocatable, pods) ==
    LET total == SumFunction([k \in DOMAIN pods |-> pods[k].request + pods[k].bookedDelta])
    IN  [allocatable     |-> allocatable,
         slack           |-> Greatest(allocatable - total, 0),
         managedRequests |-> SumFunction([k \in Sharing(pods) |-> pods[k].request]),
         managedPods     |-> Cardinality(Sharing(pods))]

\* The ceiling of the clamp.  The request is a hard floor even below the caps.
Ceiling(req, allocatable, podCap, cfg) ==
    LET multiplied == IF cfg.multNum > 0
                      THEN Least(allocatable, Round(req * cfg.multNum, cfg.multDen))
                      ELSE allocatable
        capped     == IF podCap > 0 THEN Least(multiplied, podCap) ELSE multiplied
    IN  Greatest(capped, req)

\* Slip: no step back over the cap.
MutantNoStepBack(raw, req, hi, q) ==
    IF q = 0 THEN raw ELSE Greatest(((raw + q \div 2) \div q) * q, req)

\* Round to the nearest quantum, stepping back over the cap and never below
\* the request.
Quantize(raw, req, hi, q) ==
    LET nearest == ((raw + q \div 2) \div q) * q
        under   == IF nearest > hi THEN nearest - q ELSE nearest
    IN  IF q = 0 THEN raw ELSE Greatest(under, req)

ClampAndQuantize(raw, req, allocatable, podCap, cfg) ==
    LET hi == Ceiling(req, allocatable, podCap, cfg)
    IN  Quantize(Least(Greatest(raw, req), hi), req, hi, cfg.quantum)

\* Slip: the floor does not shrink with the slack.
MutantFlatFloor(p, s, cfg) ==
    IF s.slack <= 0 \/ s.managedRequests <= 0
    THEN p.request
    ELSE p.request + Greatest(Round(s.slack * p.request, s.managedRequests),
                              cfg.minBurstFloor)

\* The raw limit before the clamp: the request plus the larger of the
\* proportional share and the slack-aware floor.
RawLimit(p, s, cfg) ==
    IF s.slack <= 0 \/ s.managedRequests <= 0
    THEN p.request
    ELSE p.request + Greatest(Round(s.slack * p.request, s.managedRequests),
                              Least(cfg.minBurstFloor, Round(s.slack, s.managedPods)))

\* Slip: the lift adds a quantum instead of going to the next one.
MutantLiftByQuantum(p, target, cfg) ==
    LET next == p.request + Greatest(cfg.quantum, 1)
    IN  IF p.aboveRequest /\ target <= p.request
        THEN IF p.rangeCap > p.request THEN Least(next, p.rangeCap) ELSE next
        ELSE target

\* A limit equal to the request would make some pods Guaranteed, which the
\* apiserver refuses: lift it to the next quantum, ahead of every cap but a
\* LimitRange's.
Lift(p, target, cfg) ==
    LET q    == Greatest(cfg.quantum, 1)
        next == (p.request \div q + 1) * q
    IN  IF p.aboveRequest /\ target <= p.request
        THEN IF p.rangeCap > p.request THEN Least(next, p.rangeCap) ELSE next
        ELSE target

\* The deadband: is moving the enforced limit cur to target worth a patch?
Applies(target, cur, cfg) ==
    /\ target # cur
    /\ \/ cur = 0
       \/ target > cur /\ (target - cur) * 100 >= cfg.deadbandGrow * cur
       \/ target < cur /\ (cur - target) * 100 >= cfg.deadbandShrink * cur

\* Slip: the deadband is judged before the lift.
MutantDeadbandFirst(p, s, cfg) ==
    LET clamped == ClampAndQuantize(RawLimit(p, s, cfg), p.request, s.allocatable,
                                    CapMilli(p), cfg)
    IN  [target |-> Lift(p, clamped, cfg), apply |-> Applies(clamped, p.limit, cfg)]

Decide(p, s, cfg) ==
    LET clamped == ClampAndQuantize(RawLimit(p, s, cfg), p.request, s.allocatable,
                                    CapMilli(p), cfg)
        target  == Lift(p, clamped, cfg)
    IN  [target |-> target, apply |-> Applies(target, p.limit, cfg)]

\* Slip: a pod that only holds its share gets a decision too.
MutantDecidesForHolders(allocatable, pods, cfg) ==
    LET s == Stats(allocatable, pods)
    IN  [k \in Sharing(pods) |-> Decide(pods[k], s, cfg)]

\* policy.Compute: one decision per managed pod.
Compute(allocatable, pods, cfg) ==
    LET s == Stats(allocatable, pods)
    IN  [k \in {j \in DOMAIN pods : pods[j].managed} |-> Decide(pods[k], s, cfg)]

----------------------------------------------------------------------------
(* What a target promises, for the properties of the modules above.        *)

\* The limit finalize lifts a pod to whose limit must not equal its request.
QoSFloor(p, c) == (p.request \div Greatest(c.quantum, 1) + 1) * Greatest(c.quantum, 1)

\* The target t of a pod on a node of allocatable CPU a.
WithinBounds(p, t, a, c) ==
    /\ t >= p.request
    /\ \/ t <= Ceiling(p.request, a, CapMilli(p), c)
       \/ p.aboveRequest /\ t <= QoSFloor(p, c)
    /\ p.aboveRequest => t > p.request
    /\ p.rangeCap > p.request => t <= p.rangeCap
=============================================================================
