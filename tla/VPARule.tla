------------------------------ MODULE VPARule ------------------------------
(***************************************************************************)
(* internal/eligibility/vpa.go: may a VerticalPodAutoscaler write the CPU  *)
(* limit of a pod?  Such a pod has another writer, and Headroom leaves it  *)
(* alone.                                                                  *)
(*                                                                         *)
(* An object's name is the sequence of its dash-separated parts, so that   *)
(* the name a Deployment gives its ReplicaSet is its own name and a hash.  *)
(* A container's name is its index, and 0 stands for the "*" that names    *)
(* every container; a policy that leaves controlledResources unset has all *)
(* of them.                                                                *)
(***************************************************************************)
EXTENDS Containers

AllNames == 0

VPA == [targetKind: STRING, targetName: Seq(STRING), updateMode: STRING,
        policies: Seq([container: Nat, mode: STRING, controlledValues: STRING,
                       controlledResources: SUBSET STRING])]

\* An ownerReference.
Owner == [group: STRING, kind: STRING, name: Seq(STRING), controller: BOOLEAN]

\* Slip: the "*" entry hides the one that names the container.
MutantStarWins(v, i) ==
    LET star  == {k \in DOMAIN v.policies : v.policies[k].container = AllNames}
        named == {k \in DOMAIN v.policies : v.policies[k].container = i}
    IN  IF star # {} THEN {v.policies[Max(star)]}
        ELSE {v.policies[k] : k \in {x \in named : x = Min(named)}}

\* policyFor: the first entry naming the container, else the last "*" entry;
\* the empty set is nil.
PolicyFor(v, i) ==
    LET named == {k \in DOMAIN v.policies : v.policies[k].container = i}
        star  == {k \in DOMAIN v.policies : v.policies[k].container = AllNames}
    IN  IF named # {} THEN {v.policies[Min(named)]}
        ELSE IF star # {} THEN {v.policies[Max(star)]} ELSE {}

WritesCPULimit(v, i) ==
    /\ v.updateMode # "Off"
    /\ \A p \in PolicyFor(v, i) :
          /\ p.mode # "Off" /\ p.controlledValues # "RequestsOnly"
          /\ "cpu" \in p.controlledResources

\* metav1.GetControllerOf: at most one reference is the controller.
ControllerOf(pod) == {o \in pod.owners : o.controller}

\* The part of a name before its last dash, the empty name without one.
ParentName(name) == IF Len(name) <= 1 THEN << >> ELSE SubSeq(name, 1, Len(name) - 1)

\* Slip: only the direct controller is compared.
MutantDirectOwnerOnly(pod, kind, name) ==
    \E o \in ControllerOf(pod) : o.kind = kind /\ o.name = name

\* Does the VPA's target resolve to the pod's controller, or to the
\* Deployment or CronJob its name gives away?
PodUnderTarget(pod, kind, name) ==
    \E o \in ControllerOf(pod) :
        \/ o.kind = kind /\ o.name = name
        \/ /\ ParentName(o.name) = name
           /\ \/ o.kind = "ReplicaSet" /\ kind # "ReplicaSet"
              \/ o.kind = "Job" /\ kind = "CronJob"

\* The VPAs among these that can write the limit of one of the containers.
LimitManagingVPA(pod, vpas) ==
    {v \in vpas :
        /\ PodUnderTarget(pod, v.targetKind, v.targetName)
        /\ \E i \in ResizableContainers(pod.containers) : WritesCPULimit(v, i)}
=============================================================================
