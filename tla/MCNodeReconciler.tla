-------------------------- MODULE MCNodeReconciler --------------------------
(***************************************************************************)
(* Small instances of NodeReconciler over the real policy.  CPU is counted *)
(* in units, the quantum is one and the floor is off, so every change of   *)
(* the booking or of a setting moves a target.                             *)
(***************************************************************************)
EXTENDS NodeReconciler, TLC

CONSTANTS p1, p2, n1, n2

P == INSTANCE Policy

MCCompute(policy, allocatable, inputs) == P!Compute(allocatable, inputs, policy)

PodSymmetry == Permutations(Pods)
NodeSymmetry == Permutations(Nodes)

Knobs(floor) ==
    [minBurstFloor |-> floor, multNum |-> 0, multDen |-> 1,
     deadbandGrow |-> 10, deadbandShrink |-> 5, quantum |-> 1]

Config(dryRun, pps, owners, labels) ==
    [dryRun |-> dryRun, pps |-> pps, policy |-> Knobs(0),
     excludedOwners |-> owners, excludedLabels |-> labels,
     excludedNamespaces |-> {}, selectedLabels |-> {"managed"}]

Live == Config(FALSE, 1, {}, {})
Defaults == [Config(TRUE, 10, {}, {}) EXCEPT !.policy = Knobs(1)]

\* A pod of the given request as the scheduler books it, with its settings.
PodOf(request, booked, cap, optOut, owner, aboveRequest) ==
    [request |-> request, booked |-> booked, cap |-> cap, optOut |-> optOut,
     owner |-> owner, resizable |-> TRUE, aboveRequest |-> aboveRequest]

Small == PodOf(1, 1, 0, FALSE, "Deployment", FALSE)
Large == PodOf(2, 2, 0, FALSE, "Deployment", FALSE)

Node(allocatable, labels) ==
    [allocatable |-> allocatable, labels |-> labels, windows |-> FALSE]

Team == [labels |-> "managed", rangeCap |-> 0]

OneNamespace == [p \in Pods |-> "team"]

\* One value for each parameter a run does not vary.
LiveOnly == {Live}
PlainNode == {Node(4, "plain")}
TeamOnly == {Team}
NoVPAs == {{}}
SmallOnly == {Small}

\* What can change about one pod.
PodVariants ==
    { Small, Large,
      PodOf(1, 2, 0, FALSE, "Deployment", FALSE),  \* booked above its request
      PodOf(1, 1, 2, FALSE, "Deployment", FALSE),  \* max-cpu annotation
      PodOf(1, 1, 0, TRUE,  "Deployment", FALSE),  \* opted out
      PodOf(1, 1, 0, FALSE, "Job", FALSE),         \* other owner
      [Small EXCEPT !.resizable = FALSE] }         \* Guaranteed, say

BookingPods == {Small, Large}
ExcludingJobs == {Config(FALSE, 1, {"Job"}, {})}

\* What can change around a pod.
SettingConfigs ==
    { Live, Config(TRUE, 2, {}, {}), Config(FALSE, 2, {}, {"static"}) }
SettingNodes ==
    { Node(4, "plain"), Node(3, "plain"), Node(4, "static"),
      [Node(4, "plain") EXCEPT !.windows = TRUE] }
SettingNamespaces ==
    { Team, [labels |-> "none", rangeCap |-> 0], [labels |-> "managed", rangeCap |-> 2] }
SettingVPAs == {{}, {p1}}
VPAsForAll == {{}, Pods}

TwoSizes == {Node(4, "plain"), Node(3, "plain")}
=============================================================================
