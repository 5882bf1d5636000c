---------------------------- MODULE NodeBooking ----------------------------
(***************************************************************************)
(* One node's inputs to the policy as the cluster moves them: pods arrive, *)
(* leave, enter and leave backoff, and take the limit decided for them.    *)
(* policy.Compute decides anew after every change, so the properties here  *)
(* are about the policy under any sequence of such changes.                *)
(***************************************************************************)
EXTENDS Policy

CONSTANTS
    Keys,       \* pod keys
    Inputs,     \* the PodInputs a pod may arrive with
    Allocs,     \* allocatable CPU of the node
    Configs     \* policy configurations

\* A pod is eligible only with a request to burst from, and no pod books less
\* than nothing: its bookedDelta takes back at most its request.
ASSUME BookingAssumption ==
    /\ IsFiniteSet(Keys)
    /\ Inputs \subseteq PodInput
    /\ \A in \in Inputs : /\ in.managed \/ in.holdsShare => in.request > 0
                         /\ in.request + in.bookedDelta >= 0
    /\ Allocs \subseteq Nat
    /\ Configs \subseteq PolicyConfig

VARIABLES
    allocatable,   \* the node's allocatable CPU
    pods,          \* the non-terminal pods bound to it: key -> PodInput
    cfg,           \* the policy in force
    decisions      \* policy.Compute of the three: key -> Decision

vars == <<allocatable, pods, cfg, decisions>>

Init ==
    /\ allocatable \in Allocs
    /\ cfg \in Configs
    /\ pods = << >>
    /\ decisions = << >>

\* The inputs change and the policy decides on the new ones.
Become(a, ps) ==
    /\ allocatable' = a
    /\ pods' = ps
    /\ cfg' = cfg
    /\ decisions' = Compute(a, ps, cfg)

\* A pod binds to the node, with or without a share of the slack.
Bind(k, in) ==
    /\ k \notin DOMAIN pods
    /\ Become(allocatable, [j \in DOMAIN pods \cup {k} |-> IF j = k THEN in ELSE pods[j]])

\* A pod is deleted or reaches a terminal phase.
Leave(k) ==
    /\ k \in DOMAIN pods
    /\ Become(allocatable, [j \in DOMAIN pods \ {k} |-> pods[j]])

\* A refused pod holds its share until its backoff window ends.
Refuse(k) ==
    /\ k \in DOMAIN decisions
    /\ Become(allocatable,
              [pods EXCEPT ![k].managed = FALSE, ![k].holdsShare = TRUE])

Readmit(k) ==
    /\ k \in DOMAIN pods
    /\ pods[k].holdsShare
    /\ Become(allocatable,
              [pods EXCEPT ![k].managed = TRUE, ![k].holdsShare = FALSE])

\* The decided limit is applied.
Apply(k) ==
    /\ k \in DOMAIN decisions
    /\ decisions[k].apply
    /\ Become(allocatable, [pods EXCEPT ![k].limit = decisions[k].target])

\* The node reports other allocatable CPU.
Reallocate(a) ==
    /\ a # allocatable
    /\ Become(a, pods)

Next ==
    \/ \E k \in Keys, in \in Inputs : Bind(k, in)
    \/ \E k \in Keys : Leave(k) \/ Refuse(k) \/ Readmit(k) \/ Apply(k)
    \/ \E a \in Allocs : Reallocate(a)

Spec == Init /\ [][Next]_vars
-----------------------------------------------------------------------------
TypeOK ==
    /\ allocatable \in Nat
    /\ cfg \in PolicyConfig
    /\ DOMAIN pods \subseteq Keys
    /\ \A k \in DOMAIN pods : pods[k] \in PodInput
    /\ DOMAIN decisions = {k \in DOMAIN pods : pods[k].managed}
    /\ \A k \in DOMAIN decisions : decisions[k] \in [target: Nat, apply: BOOLEAN]

\* decide / clampAndQuantize / finalize: every target is at least the request,
\* and no more than the node, the multiplier and the two caps allow unless the
\* request itself or the QoS floor is above them; a pod a Guaranteed limit
\* would break is always strictly above its request; and the QoS floor yields
\* to a LimitRange that leaves room above the request.
TargetWithinBounds ==
    \A k \in DOMAIN decisions :
        WithinBounds(pods[k], decisions[k].target, allocatable, cfg)

\* Compute: however the floor and the proportional shares combine, the burst
\* handed out over all managed pods is at most twice the slack, plus half a
\* unit and half a quantum of rounding a pod, plus one quantum for each pod
\* the QoS floor lifts.
BurstBoundedBySlack ==
    LET burst  == SumFunction([k \in DOMAIN decisions |->
                                 decisions[k].target - pods[k].request])
        n      == Cardinality(DOMAIN decisions)
        lifted == Cardinality({k \in DOMAIN decisions : pods[k].aboveRequest})
        q      == Greatest(cfg.quantum, 1)
    IN  2 * burst <= 4 * Stats(allocatable, pods).slack + n * (1 + q) + 2 * lifted * q

\* Compute: a pod that binds to the node never raises the target of another
\* (design.md 9.2), whether or not it shares the slack.
BindRaisesNobody ==
    [][DOMAIN pods \subseteq DOMAIN pods' /\ DOMAIN pods # DOMAIN pods' =>
         \A k \in DOMAIN decisions : decisions'[k].target <= decisions[k].target]_vars

\* Compute with HoldsShare: a window opening or closing on one pod, or a patch
\* of one pod, moves no other pod's target (design.md 6.4).
BackoffMovesNobody ==
    [][allocatable' = allocatable /\ DOMAIN pods' = DOMAIN pods =>
         \A k \in DOMAIN decisions \cap DOMAIN decisions' :
             decisions'[k].target = decisions[k].target]_vars

\* finalize: one patch settles a pod.  While the node's booking stands, a pod
\* whose limit is within the deadband of its target asks for no patch again,
\* whatever its neighbours are patched to or refused meanwhile.
OnePatchSettles ==
    [][allocatable' = allocatable /\ DOMAIN pods' = DOMAIN pods =>
         \A k \in DOMAIN decisions \cap DOMAIN decisions' :
             /\ ~decisions[k].apply => ~decisions'[k].apply
             /\ pods'[k].limit # pods[k].limit => ~decisions'[k].apply]_vars
=============================================================================
