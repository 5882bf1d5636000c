----------------------------- MODULE Containers -----------------------------
(***************************************************************************)
(* The containers of a pod, as internal/eligibility/eligibility.go and     *)
(* internal/controller/podinput.go read them: the sums a pod brings to the *)
(* policy, the ceiling a namespace's LimitRanges put on it, and the split  *)
(* of its target over the containers.                                      *)
(*                                                                         *)
(* A pod's containers are a sequence in the order of its spec, the app     *)
(* containers first; the index is the container's name.  A limit of 0 is   *)
(* an unset one.  Memory is what the QoS rules tell apart: no request,     *)
(* limit equal to the request, or anything else.                           *)
(*                                                                         *)
(* A quotient the code computes in float64 and truncates is one of whole   *)
(* numbers far below 2^53: truncating the exact quotient gives the same.   *)
(***************************************************************************)
EXTENDS Sequences, FiniteSetsExt, Policy

CONSTANT InexactRatios  \* <<limit, request, ratio>>, the limit exactly at the
                        \* ratio, that float64 division puts past it

\* A limit of one milli-core above its request is at a ratio in thousandths for the
\* sixteen divisors of 1000 only, and float64 puts none of them past it.
ASSUME InexactAssumption ==
    /\ InexactRatios \subseteq Nat \X Nat \X Nat
    /\ \A x \in InexactRatios : x[1] * 1000 = x[3] * x[2] /\ x[1] # x[2] + 1

Container ==
    [kind: {"app", "sidecar", "init"}, request: Nat, limit: Nat,
     memory: {"none", "pinned", "loose"}, restartOnResize: BOOLEAN]

\* A LimitRange item: its ceilings on a CPU limit and on the limit's ratio to
\* the request, in thousandths; 0 is none.
RangeItem == [type: {"Container", "Pod"}, max: Nat, ratio: Nat]

\* App containers and native sidecars; a plain init container is never resized.
ResizableContainers(cs) == {i \in DOMAIN cs : cs[i].kind # "init"}

\* Those with a request to burst from.
Bursting(cs) == {i \in ResizableContainers(cs) : cs[i].request > 0}

PodCPURequestMilli(cs) ==
    SumFunction([i \in ResizableContainers(cs) |-> cs[i].request])

\* Slip: a request-less container makes the pod look unbounded.
MutantRequestlessBounds(cs) ==
    IF \E i \in ResizableContainers(cs) : cs[i].limit = 0
    THEN 0
    ELSE SumFunction([i \in ResizableContainers(cs) |-> cs[i].limit])

\* The limit in force, or 0 unless every bursting container has one.
PodCurrentLimitMilli(cs) ==
    IF \E i \in Bursting(cs) : cs[i].limit = 0
    THEN 0
    ELSE SumFunction([i \in Bursting(cs) |-> cs[i].limit])

HasRestartOnResize(cs) == \E i \in ResizableContainers(cs) : cs[i].restartOnResize

\* resourcehelper.PodRequests and PodLimits: what runs together, or the peak
\* of an init container beside the sidecars started before it.
PodTotal(cs, field) ==
    LET total(S) == SumFunction([i \in S |-> cs[i][field]])
        peak(i) == cs[i][field] + total({j \in 1..(i - 1) : cs[j].kind = "sidecar"})
    IN  Max({total(ResizableContainers(cs))}
            \cup {peak(i) : i \in {j \in DOMAIN cs : cs[j].kind = "init"}})

PodRequests(cs) == PodTotal(cs, "request")
PodLimits(cs) == PodTotal(cs, "limit")

\* The class the apiserver gives a pod without pod-level resources.
QOSClass(cs) ==
    IF \A i \in DOMAIN cs :
          cs[i].request > 0 /\ cs[i].limit = cs[i].request /\ cs[i].memory = "pinned"
    THEN "Guaranteed"
    ELSE IF \A i \in DOMAIN cs :
               cs[i].request = 0 /\ cs[i].limit = 0 /\ cs[i].memory = "none"
         THEN "BestEffort"
         ELSE "Burstable"

\* Slip: a sidecar's own limit counts like an init container's.
MutantSidecarAsInit(cs) ==
    \A i \in DOMAIN cs :
        /\ cs[i].request > 0 /\ cs[i].memory = "pinned"
        /\ cs[i].kind # "app" => cs[i].limit = cs[i].request

\* Would a limit equal to the request on every resizable container make the
\* pod Guaranteed?  (buildPodInput is never given pod-level resources here.)
GuaranteedAtRequest(cs) ==
    \A i \in DOMAIN cs :
        /\ cs[i].request > 0 /\ cs[i].memory = "pinned"
        /\ cs[i].kind = "init" => cs[i].limit = cs[i].request

----------------------------------------------------------------------------
(* LimitRanges.                                                            *)

\* LimitRanger's float comparison of a limit with a ratio.
PastRatio(limit, request, ratio) ==
    \/ limit * 1000 > ratio * request
    \/ <<limit, request, ratio>> \in InexactRatios

\* Slip: the exact limit is taken to be admitted.
MutantExactRatio(ratio, request) == (ratio * request) \div 1000

\* The largest limit a ratio admits for a request.
RatioLimitMilli(ratio, request) ==
    LET exact == (ratio * request) \div 1000
    IN  IF PastRatio(exact, request, ratio) THEN exact - 1 ELSE exact

\* Slip: ratio times the total, whatever the remainders do.
MutantRatioOfTotal(cs, ratio) ==
    {(ratio * PodCPURequestMilli(cs)) \div 1000}

\* A pod target under which every container's share is within its own ratio
\* limit, however the remainders fall.
ContainerRatioCaps(cs, ratio) ==
    {(RatioLimitMilli(ratio, cs[i].request) * PodCPURequestMilli(cs)) \div cs[i].request :
        i \in Bursting(cs)}

\* The limits of the containers Headroom leaves alone.
Untouched(cs) ==
    SumFunction([i \in ResizableContainers(cs) \ Bursting(cs) |-> cs[i].limit])

\* One item's rules restated as pod targets.
ItemCaps(cs, item) ==
    LET largest == Max({cs[i].request : i \in Bursting(cs)})
    IN  IF item.type = "Container"
        THEN (IF item.max > 0 THEN {(item.max * PodCPURequestMilli(cs)) \div largest} ELSE {})
             \cup (IF item.ratio > 0 THEN ContainerRatioCaps(cs, item.ratio) ELSE {})
        ELSE (IF item.max > 0 THEN {item.max - Untouched(cs)} ELSE {})
             \cup (IF item.ratio > 0
                   THEN {RatioLimitMilli(item.ratio, PodRequests(cs)) - Untouched(cs)}
                   ELSE {})

\* The tightest of them, 0 for none; a rule that leaves no room is still a cap.
LimitRangeCapMilli(cs, ranges) ==
    LET caps == UNION {ItemCaps(cs, item) : item \in ranges}
    IN  IF Bursting(cs) = {} \/ caps = {} THEN 0 ELSE Max({Min(caps), 1})

\* LimitRanger's validation.  A maximum asks for a limit, a ratio for both.
Within(item, request, limit) ==
    /\ item.max > 0 => limit > 0 /\ limit <= item.max /\ request <= item.max
    /\ item.ratio > 0 => request > 0 /\ limit > 0 /\ ~PastRatio(limit, request, item.ratio)

LimitRangerAdmits(cs, ranges) ==
    \A item \in ranges :
        IF item.type = "Container"
        THEN \A i \in DOMAIN cs : Within(item, cs[i].request, cs[i].limit)
        ELSE Within(item, PodRequests(cs), PodLimits(cs))

\* LimitRanger's defaults at pod creation: a per-container maximum is also the
\* default limit, and the default request of a container that has neither.
LimitRangerDefaults(cs, ranges) ==
    LET maxima == {item.max : item \in {x \in ranges : x.type = "Container" /\ x.max > 0}}
        Defaulted(c) ==
            IF maxima = {} \/ c.limit > 0 THEN c
            ELSE [c EXCEPT !.limit = Min(maxima),
                           !.request = IF c.request = 0 THEN Min(maxima) ELSE c.request]
    IN  [i \in DOMAIN cs |-> Defaulted(cs[i])]

----------------------------------------------------------------------------
(* splitLimit.                                                             *)

\* Slip: the floor of the exact share, even below the container's request.
MutantFloorOnly(target, cs, i) ==
    (target * cs[i].request) \div PodCPURequestMilli(cs)

\* A container's share before the leftover: the floor of its exact share,
\* never below its request.
BaseShare(target, cs, i) ==
    Greatest((target * cs[i].request) \div PodCPURequestMilli(cs), cs[i].request)

Remainder(target, cs, i) == (target * cs[i].request) % PodCPURequestMilli(cs)

\* Slip: the leftover of the flooring is not handed out.
MutantNoLeftover(target, cs) == {{}}

\* The containers that get one milli-core of the leftover, the largest
\* fractions first.  Equal fractions of equal shares go by position; equal
\* fractions of different shares compare as float64 rounds them, either way.
\* The leftover is the sum of the fractions, so nobody gets two.
LeftoverSets(target, cs) ==
    LET leftover == target - SumFunction([i \in Bursting(cs) |-> BaseShare(target, cs, i)])
        Before(i, j) ==
            \/ Remainder(target, cs, i) > Remainder(target, cs, j)
            \/ /\ Remainder(target, cs, i) = Remainder(target, cs, j)
               /\ cs[i].request = cs[j].request => i < j
    IN  {W \in SUBSET Bursting(cs) :
            /\ Cardinality(W) = Greatest(leftover, 0)
            /\ \A i \in W, j \in Bursting(cs) \ W : Before(i, j)}

\* splitLimit: the limits it may give the bursting containers.
Splits(target, cs) ==
    {[i \in Bursting(cs) |-> BaseShare(target, cs, i) + (IF i \in W THEN 1 ELSE 0)] :
        W \in LeftoverSets(target, cs)}

\* Slip: the containers the patch does not name are dropped.
MutantUnnamedDropped(cs, parts) ==
    [i \in DOMAIN parts |-> [cs[i] EXCEPT !.limit = parts[i]]]

\* What the patch makes of the containers.
Patched(cs, parts) ==
    [i \in DOMAIN cs |->
        IF i \in DOMAIN parts THEN [cs[i] EXCEPT !.limit = parts[i]] ELSE cs[i]]

\* The apiserver's validation of a resize: no limit below its request, and the
\* QoS class stays.
ResizeValid(before, after) ==
    /\ \A i \in DOMAIN after : after[i].limit > 0 => after[i].limit >= after[i].request
    /\ QOSClass(after) = QOSClass(before)
=============================================================================
