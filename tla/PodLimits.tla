----------------------------- MODULE PodLimits -----------------------------
(***************************************************************************)
(* The CPU limits of one pod's containers, from its admission on.          *)
(*                                                                         *)
(*   create --LimitRanger--> webhook --LimitRanger--> pod                  *)
(*   pass: gates, LimitRange cap, policy --> target                        *)
(*   patch: target split over the containers --LimitRanger--> pod          *)
(*                                                                         *)
(* Between the target and its patch everything else may move.  When a pass *)
(* runs at all, its retries and its windows are NodeReconciler's business; *)
(* here a pass may run at any moment.                                      *)
(***************************************************************************)
EXTENDS Webhook

CONSTANTS
    Absent,      \* no pod, or no patch under way
    PodShapes,   \* pods as their users submit them
    Resizes,     \* <<request, memory>> a user may resize a container to
    RangeSets,   \* LimitRange items of the namespace
    SettingSets, \* HeadroomConfigs
    VPASets,     \* sets of VPAs, as the poller serves them
    Bookings,    \* CPU booked by the other pods of the node
    Allocatable, \* of the node
    MaxChanges   \* bound: changes by others after a pod's creation

VARIABLES
    pod,         \* the pod in the apiserver
    settings,    \* the HeadroomConfig
    ranges,      \* the LimitRange items in the apiserver
    cachedRanges,\* those in the controller's cache
    vpas,        \* the poller's view
    others,      \* what the node's other pods book
    patch,       \* the resize a pass has decided on: its target, the pod it was
                 \* listed as, and whether nothing has changed since
    birth,       \* how the last creation ended, until something else changes
    changes      \* spent of the budget

vars == <<pod, settings, ranges, cachedRanges, vpas, others, patch, birth, changes>>

Pod ==
    [containers: Seq(Container), owners: SUBSET Owner, topOwner: Owner \cup {Absent},
     optedOut: BOOLEAN, podLevel: BOOLEAN, cap: Nat]

\* The chains of owners that vpa.go 87-92 sees: the pod's controller, or the
\* Deployment of a ReplicaSet or the CronJob of a Job that is named after it.
TwoLevels(p) ==
    \E o \in p.owners :
        /\ o.controller
        /\ \/ p.topOwner.kind = o.kind /\ p.topOwner.name = o.name
           \/ /\ <<p.topOwner.kind, o.kind>> \in {<<"Deployment", "ReplicaSet">>, <<"CronJob", "Job">>}
              /\ p.topOwner.name = ParentName(o.name)

ASSUME ShapeAssumption ==
    /\ \A items \in RangeSets : items \subseteq RangeItem /\ IsFiniteSet(items)
    /\ \A p \in PodShapes :
          /\ p \in Pod
          /\ p.topOwner # Absent => TwoLevels(p)
          /\ \A i \in DOMAIN p.containers :
                LET c == p.containers[i] IN c.limit > 0 => c.limit >= c.request
    /\ \A r \in Resizes : r[1] \in Nat /\ r[2] \in {"none", "pinned", "loose"}
    /\ \A s \in SettingSets : s.policy \in PolicyConfig /\ s.initialMultiplier \in Nat
    /\ \A vs \in VPASets : vs \subseteq VPA
    /\ Allocatable \in Nat /\ Bookings \subseteq Nat /\ MaxChanges \in Nat

Init ==
    /\ pod = Absent
    /\ settings \in SettingSets
    /\ ranges \in RangeSets
    /\ cachedRanges = ranges
    /\ vpas \in VPASets
    /\ others \in Bookings
    /\ patch = Absent
    /\ birth = "none"
    /\ changes = 0

----------------------------------------------------------------------------
(* A pass.                                                                 *)

\* buildPodInput and the LimitRange cap, for a managed pod.  Its overhead and an
\* unfinished resize only add to the node's total: others has them.
BuildPodInput(p, items) ==
    [request |-> PodCPURequestMilli(p.containers),
     bookedDelta |-> PodRequests(p.containers) - PodCPURequestMilli(p.containers),
     limit |-> PodCurrentLimitMilli(p.containers),
     managed |-> TRUE, holdsShare |-> FALSE, userCap |-> p.cap,
     rangeCap |-> LimitRangeCapMilli(p.containers, items),
     aboveRequest |-> GuaranteedAtRequest(p.containers)]

\* The pods Headroom does not manage, as one.
OthersInput ==
    [request |-> others, bookedDelta |-> 0, limit |-> 0, managed |-> FALSE,
     holdsShare |-> FALSE, userCap |-> 0, rangeCap |-> 0, aboveRequest |-> FALSE]

DecisionFor(p) ==
    LET inputs == [k \in {"pod", "others"} |->
                      IF k = "pod" THEN BuildPodInput(p, cachedRanges) ELSE OthersInput]
    IN  Compute(Allocatable, inputs, settings.policy)["pod"]

\* The pass finds the pod managed and its limit out of the deadband.
DecideResize ==
    /\ pod # Absent /\ patch = Absent
    /\ ~LoadConfig(settings).dryRun
    /\ Managed(pod, settings, vpas)
    /\ LET d == DecisionFor(pod)
       IN  /\ d.apply
           /\ patch' = [target |-> d.target, listed |-> pod,
                        fresh |-> cachedRanges = ranges]
    /\ UNCHANGED <<pod, settings, ranges, cachedRanges, vpas, others, birth, changes>>

\* May the apiserver take these limits for the pod?
Admits(parts) ==
    LET after == Patched(pod.containers, parts)
    IN  /\ DOMAIN parts \subseteq DOMAIN pod.containers
        /\ ResizeValid(pod.containers, after)
        /\ LimitRangerAdmits(after, ranges)

\* applyResize splits over the pod as it was listed, or as the annotation's
\* patch has just returned it.  A refused patch leaves the pod as it is.
Resize ==
    /\ patch # Absent
    /\ \E p \in {patch.listed, pod} \ {Absent} :
          \E parts \in Splits(patch.target, p.containers) :
             pod' = IF pod # Absent /\ Admits(parts)
                    THEN [pod EXCEPT !.containers = Patched(@, parts)]
                    ELSE pod
    /\ patch' = Absent
    /\ birth' = "none"
    /\ UNCHANGED <<settings, ranges, cachedRanges, vpas, others, changes>>

----------------------------------------------------------------------------
(* Admission.                                                              *)

\* A pod is created: LimitRanger's defaults, the webhook's seed unless the
\* call fails (failurePolicy Ignore), LimitRanger's verdict.
Create(shape, answered) ==
    /\ pod = Absent
    /\ LET plain  == [shape EXCEPT !.containers = LimitRangerDefaults(@, ranges)]
           seeded == IF answered
                     THEN [plain EXCEPT !.containers = Default(plain, settings, vpas)]
                     ELSE plain
       IN  /\ pod' = IF LimitRangerAdmits(seeded.containers, ranges) THEN seeded ELSE Absent
           /\ birth' = CASE pod' = Absent /\ LimitRangerAdmits(plain.containers, ranges) -> "blocked"
                         [] pod' = Absent -> "refused"
                         [] pod' # Absent /\ seeded # plain -> "seeded"
                         [] OTHER -> "plain"
    /\ UNCHANGED <<settings, ranges, cachedRanges, vpas, others, patch, changes>>

----------------------------------------------------------------------------
(* What others do.                                                         *)

\* Something a pass reads has changed: a patch under way is no longer fresh.
Change ==
    /\ changes < MaxChanges
    /\ changes' = changes + 1
    /\ birth' = "none"
    /\ patch' = IF patch = Absent THEN Absent ELSE [patch EXCEPT !.fresh = FALSE]

Delete ==
    /\ pod # Absent
    /\ Change
    /\ pod' = Absent
    /\ UNCHANGED <<settings, ranges, cachedRanges, vpas, others>>

\* A user resizes a container in place; the same validation applies.
UserResize(request, memory) ==
    /\ pod # Absent
    /\ Change
    /\ \E i \in ResizableContainers(pod.containers) :
          LET after == [pod.containers EXCEPT ![i].request = request, ![i].memory = memory]
          IN  /\ after # pod.containers
              /\ ResizeValid(pod.containers, after) /\ LimitRangerAdmits(after, ranges)
              /\ pod' = [pod EXCEPT !.containers = after]
    /\ UNCHANGED <<settings, ranges, cachedRanges, vpas, others>>

EditRanges(items) ==
    /\ items # ranges
    /\ Change
    /\ ranges' = items
    /\ UNCHANGED <<pod, settings, cachedRanges, vpas, others>>

\* The controller's cache catches up.
CacheRanges ==
    /\ cachedRanges # ranges
    /\ cachedRanges' = ranges
    /\ UNCHANGED <<pod, settings, ranges, vpas, others, patch, birth, changes>>

EditSettings(s) ==
    /\ s # settings
    /\ Change
    /\ settings' = s
    /\ UNCHANGED <<pod, ranges, cachedRanges, vpas, others>>

EditVPAs(vs) ==
    /\ vs # vpas
    /\ Change
    /\ vpas' = vs
    /\ UNCHANGED <<pod, settings, ranges, cachedRanges, others>>

BookOthers(milli) ==
    /\ milli # others
    /\ Change
    /\ others' = milli
    /\ UNCHANGED <<pod, settings, ranges, cachedRanges, vpas>>

Next ==
    \/ DecideResize
    \/ Resize
    \/ \E shape \in PodShapes, answered \in BOOLEAN : Create(shape, answered)
    \/ Delete
    \/ \E r \in Resizes : UserResize(r[1], r[2])
    \/ \E items \in RangeSets : EditRanges(items)
    \/ CacheRanges
    \/ \E s \in SettingSets : EditSettings(s)
    \/ \E vs \in VPASets : EditVPAs(vs)
    \/ \E milli \in Bookings : BookOthers(milli)

Spec == Init /\ [][Next]_vars

----------------------------------------------------------------------------
(* Properties.                                                             *)

\* A pod is Absent or has its fields, its containers in sequence.
PodTyped(p) ==
    p # Absent =>
       /\ DOMAIN p.containers = 1..Cardinality(DOMAIN p.containers)
       /\ \A i \in DOMAIN p.containers : p.containers[i] \in Container
       /\ p.owners \subseteq Owner /\ p.topOwner \in Owner \cup {Absent}
       /\ p.optedOut \in BOOLEAN /\ p.podLevel \in BOOLEAN /\ p.cap \in Nat

\* Every variable has its type: a pod keeps a sequence of whole containers
\* through admission and every patch.
TypeOK ==
    /\ PodTyped(pod)
    /\ ranges \subseteq RangeItem /\ cachedRanges \subseteq RangeItem
    /\ patch # Absent =>
          PodTyped(patch.listed) /\ patch.target \in Nat /\ patch.fresh \in BOOLEAN
    /\ birth \in {"none", "plain", "seeded", "refused", "blocked"}
    /\ changes \in 0..MaxChanges

\* The limits the patch under way may give the pod it was decided for, while
\* nothing has changed.
FreshOutcomes ==
    IF patch # Absent /\ patch.fresh
    THEN {Patched(pod.containers, parts) : parts \in Splits(patch.target, pod.containers)}
    ELSE {}

\* Zero churn (eligibility.go 98-101, podinput.go 61-71): the limits of an
\* applied patch add up to its target when they are read back, whatever
\* containers have no request or no limit, so the next pass asks for nothing.
AppliedPatchSettles ==
    \A after \in FreshOutcomes :
        /\ PodCurrentLimitMilli(after) = patch.target
        /\ ~DecisionFor([pod EXCEPT !.containers = after]).apply

\* The apiserver's own rules never refuse a patch decided on the pod as it is:
\* no limit falls below its request and the pod stays Burstable.  A target
\* that has grown stale, split over the pod the annotation's patch returned,
\* still covers every request (observability.go 106, podinput.go 91).
PatchIsValid ==
    /\ \A after \in FreshOutcomes : ResizeValid(pod.containers, after)
    /\ patch # Absent /\ pod # Absent =>
          \A parts \in Splits(patch.target, pod.containers), i \in DOMAIN pod.containers :
             i \in DOMAIN parts => parts[i] >= pod.containers[i].request

\* No sidecar is started before an init container, so that a patch moves no init
\* container's peak.
PeakApart(cs) ==
    \A i, j \in DOMAIN cs : cs[i].kind = "sidecar" /\ cs[j].kind = "init" => j < i

\* Is there a target whose patch LimitRanger would admit?
RoomUnderRanges ==
    \E t \in PodCPURequestMilli(pod.containers)..Allocatable :
        \E parts \in Splits(t, pod.containers) : Admits(parts)

\* design.md 6.4's exception: a ratio that is no whole limit over some
\* request, and a pod that has to stay above its request.
FractionalRatio ==
    /\ GuaranteedAtRequest(pod.containers)
    /\ \E item \in ranges, i \in Bursting(pod.containers) :
          item.type = "Container" /\ (item.ratio * pod.containers[i].request) % 1000 # 0

\* design.md 6.4: with the LimitRanges cached, LimitRanger refuses a patch only
\* when it would have refused every target, but for the fractional ratio.
RefusedOnlyWithoutRoom ==
    \A after \in FreshOutcomes :
        LimitRangerAdmits(after, ranges) \/ ~RoomUnderRanges \/ FractionalRatio

\* A pod the webhook has seeded is one the reconciler will manage: the two
\* apply the same gates at different moments (pod_webhook.go 44-48), and the
\* seed itself must not cost the pod its QoS class.
SeededIsManaged ==
    birth = "seeded" => Managed(pod, settings, vpas)

\* VPA's own rule: it writes a container's CPU limit when its target is the
\* topmost controller of the pod, it is not off, and no policy that applies to
\* the container forbids it.  A policy for all containers does not apply to one
\* that is named.
VPAWrites(p, i) ==
    \E v \in vpas :
        LET named == {k \in DOMAIN v.policies : v.policies[k].container = i}
            applies == IF named # {} THEN named ELSE DOMAIN v.policies
        IN  /\ p.topOwner # Absent
            /\ v.targetKind = p.topOwner.kind /\ v.targetName = p.topOwner.name
            /\ v.updateMode # "Off"
            /\ \A k \in applies :
                  v.policies[k].container \in {i, AllNames} =>
                     /\ v.policies[k].mode # "Off"
                     /\ v.policies[k].controlledValues # "RequestsOnly"
                     /\ "cpu" \in v.policies[k].controlledResources

\* vpa.go 38-41: never two writers of one limit.  Neither a seed nor a patch
\* touches a pod that an autoscaler resolves to through its owners.
OneWriter ==
    /\ FreshOutcomes # {} =>
          \A i \in Bursting(pod.containers) : ~VPAWrites(pod, i)
    /\ birth = "seeded" =>
          \A i \in Bursting(pod.containers) : ~VPAWrites(pod, i)

\* pod_webhook.go 56-58: "pod creation must never be blocked".  A pod that
\* would have been admitted as submitted is not refused for its seed.
CreationNotBlocked == birth # "blocked"
=============================================================================
