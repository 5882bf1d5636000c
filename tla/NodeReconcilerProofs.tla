------------------------ MODULE NodeReconcilerProofs ------------------------
(***************************************************************************)
(* Two theorems about NodeReconciler, for every value of its parameters:   *)
(*                                                                         *)
(*   TypeCorrect             every variable keeps its type;                *)
(*   BackoffNeverForgotten   a node with a refused pod on it is never left *)
(*                           at rest.                                      *)
(*                                                                         *)
(* Neither invariant is inductive by itself.  TypeOK needs PassSound, what *)
(* the worker knows of the pod in hand.  BackoffWakesUp needs WakeInv: who *)
(* wakes a node, and what a pass still knows of the pods on it while       *)
(* deliveries overtake it.                                                 *)
(***************************************************************************)
EXTENDS NodeReconciler, FiniteSetTheorems, TLAPS

\* The worker's own bookkeeping: a decision is about a listed pod, the pod it is
\* about to resize has one, and by then the node has its token bucket.
PassSound ==
    pass # Absent =>
        /\ pass.elapsed <= MaxPassTicks
        /\ \A p \in Pods :
              pass.decisions[p] # Absent => pass.step = "apply" /\ pass.list[p] # Absent
        /\ pass.current # Absent => pass.decisions[pass.current] # Absent
        /\ pass.step = "apply" => buckets[pass.node] # Absent

LEMMA TypeInit == Init => TypeOK
  <1> SUFFICES ASSUME Init PROVE TypeOK
    OBVIOUS
  <1>1. apiPods \in [Pods -> Pod \cup {Absent}]
    <2>1. \A n \in Nodes, s \in PodSpecs, l \in BirthLimits : FreshPod(n, s, l) \in Pod
      BY ParameterAssumption DEF FreshPod, Pod
    <2> QED  BY <2>1 DEF Init
  <1>2. LongEnded \in Int /\ LongEnded <= 0
    BY ParameterAssumption DEF LongEnded
  <1>3. buckets \in [Nodes -> Bucket \cup {Absent}]
    BY DEF Init, NoEntries
  <1> QED
    BY <1>1, <1>2, <1>3, ParameterAssumption DEF Init, TypeOK, NoBackoff, NoEntries, Event

USE DEF api, cache, gauges, memory, budget

LEMMA TypeDeliver == TypeOK /\ Deliver => TypeOK'
  <1> SUFFICES ASSUME TypeOK, Deliver PROVE TypeOK'
    OBVIOUS
  <1>0. \A n \in Nodes : PodEvent(n) \in Event /\ NodeEvent(n) \in Event
    BY DEF PodEvent, NodeEvent, Event
  <1>1. ConfigEvent \in Event /\ \A x \in Namespaces : NamespaceEvent(x) \in Event
    BY DEF ConfigEvent, NamespaceEvent, Event
  <1>2. \A p \in Pods : PodEventNodes(pods[p], apiPods[p]) \subseteq Nodes
    BY DEF TypeOK, PodEventNodes, Pod
  <1>3. ASSUME NEW p \in Pods, DeliverPod(p) PROVE TypeOK'
    <2>1. events' \in SUBSET Event
      BY <1>0, <1>2, <1>3 DEF DeliverPod, TypeOK
    <2> QED  BY <2>1, <1>3 DEF DeliverPod, TypeOK
  <1>4. ASSUME NEW p \in Pods, RelistPod(p) PROVE TypeOK'
    <2>1. events' \in SUBSET Event
      BY <1>0, <1>2, <1>4 DEF RelistPod, TypeOK
    <2>2. faults' \in 0 .. MaxFaults /\ changes' = changes
      BY <1>4, ParameterAssumption DEF RelistPod, Fault, TypeOK
    <2> QED  BY <2>1, <2>2, <1>4 DEF RelistPod, TypeOK
  <1>5. ASSUME NEW n \in Nodes, DeliverNode(n) PROVE TypeOK'
    BY <1>0, <1>5 DEF DeliverNode, TypeOK
  <1>6. CASE DeliverConfig
    BY <1>1, <1>6 DEF DeliverConfig, TypeOK
  <1>7. ASSUME NEW x \in Namespaces, DeliverNamespace(x) PROVE TypeOK'
    BY <1>1, <1>7 DEF DeliverNamespace, TypeOK
  <1>8. ASSUME NEW view \in SUBSET Pods, Refresh(view), changes' \in 0 .. MaxChanges,
               faults' \in 0 .. MaxFaults
        PROVE  TypeOK'
    <2>1. events' \in SUBSET Event
      BY <1>1, <1>8, ParameterAssumption DEF Refresh, TypeOK
    <2> QED  BY <2>1, <1>8 DEF Refresh, TypeOK
  <1>9. CASE PollVPAs
    BY <1>8, <1>9 DEF PollVPAs, TypeOK
  <1>10. CASE PollFails
    BY <1>8, <1>10, ParameterAssumption DEF PollFails, Fault, TypeOK
  <1> QED  BY <1>3, <1>4, <1>5, <1>6, <1>7, <1>9, <1>10 DEF Deliver

LEMMA TypeHandle == TypeOK /\ Handle => TypeOK'
  <1> SUFFICES ASSUME TypeOK, Handle PROVE TypeOK'
    OBVIOUS
  <1>1. ASSUME NEW S \in SUBSET Nodes, EnqueueAll(S)
        PROVE  queue' \in [Nodes -> Nat \cup {Absent}]
    <2>1. EnqueueDelays \subseteq Nat
      BY ParameterAssumption DEF EnqueueDelays
    <2> QED  BY <2>1, <1>1 DEF EnqueueAll, TypeOK
  <1>2. ASSUME NEW n \in Nodes, HandlePodEvent(n) PROVE TypeOK'
    <2>1. queue' \in [Nodes -> Nat \cup {Absent}]
      BY <1>1, <1>2 DEF HandlePodEvent
    <2> QED  BY <2>1, <1>2 DEF HandlePodEvent, TypeOK
  <1>3. ASSUME NEW n \in Nodes, HandleNodeEvent(n) PROVE TypeOK'
    BY <1>3 DEF HandleNodeEvent, AddAfter, TypeOK
  <1>4. CASE HandleConfigEvent
    <2>1. queue' \in [Nodes -> Nat \cup {Absent}]
      BY <1>1, <1>4 DEF HandleConfigEvent
    <2> QED  BY <2>1, <1>4 DEF HandleConfigEvent, TypeOK
  <1>5. ASSUME NEW x \in Namespaces, HandleNamespaceEvent(x) PROVE TypeOK'
    <2>1. queue' \in [Nodes -> Nat \cup {Absent}]
      BY <1>1, <1>5 DEF HandleNamespaceEvent, NodesHoldingPodsIn
    <2> QED  BY <2>1, <1>5 DEF HandleNamespaceEvent, TypeOK
  <1> QED  BY <1>2, <1>3, <1>4, <1>5 DEF Handle

LEMMA TypeStart == ASSUME TypeOK, NEW n \in Nodes, Start(n) PROVE TypeOK'
  <1>1. CASE StartUnsynced(n)
    BY <1>1 DEF StartUnsynced, TypeOK
  <1>2. CASE StartForgets(n)
    BY <1>2 DEF StartForgets, TypeOK
  <1>3. CASE StartPass(n)
    <2>1. ResolvedConfig \in Configs \cup {DefaultConfig}
      BY DEF TypeOK, ResolvedConfig
    <2>2. pass' \in Pass
      BY <2>1, <1>3 DEF StartPass, Pass, Steps, NoList, TypeOK
    <2> QED  BY <2>2, <1>3 DEF StartPass, TypeOK
  <1> QED  BY <1>1, <1>2, <1>3 DEF Start

LEMMA TypeEnvironment == TypeOK /\ Environment => TypeOK'
  <1> SUFFICES ASSUME TypeOK, Environment PROVE TypeOK'
    OBVIOUS
  <1>1. changes' \in 0 .. MaxChanges /\ faults' \in 0 .. MaxFaults
    BY ParameterAssumption DEF Environment, Change, TypeOK
  <1>2. ASSUME NEW p \in Pods, NEW pod \in Pod \cup {Absent}, SetPod(p, pod) PROVE TypeOK'
    <2>1. PodEventNodes(apiPods[p], pod) \subseteq Nodes
      BY DEF TypeOK, PodEventNodes, Pod
    <2> QED  BY <2>1, <1>1, <1>2 DEF SetPod, Environment, TypeOK
  <1>3. ASSUME NEW p \in Pods, NEW s \in PodSpecs, NEW l \in BirthLimits, CreatePod(p, s, l)
        PROVE  TypeOK'
    <2>1. FreshPod(Absent, s, l) \in Pod
      BY ParameterAssumption DEF FreshPod, Pod
    <2> QED  BY <2>1, <1>2, <1>3 DEF CreatePod
  <1>4. ASSUME NEW p \in Pods, apiPods[p] # Absent PROVE apiPods[p] \in Pod
    BY <1>4 DEF TypeOK
  <1>5. ASSUME NEW p \in Pods, NEW n \in Nodes, BindPod(p, n) PROVE TypeOK'
    <2>1. [apiPods[p] EXCEPT !.node = n] \in Pod
      BY <1>4, <1>5 DEF BindPod, Pod
    <2> QED  BY <2>1, <1>2, <1>5 DEF BindPod
  <1>6. ASSUME NEW p \in Pods, DeletePod(p) PROVE TypeOK'
    BY <1>2, <1>6 DEF DeletePod
  <1>7. ASSUME NEW p \in Pods, FinishPod(p) PROVE TypeOK'
    <2>1. [apiPods[p] EXCEPT !.terminal = TRUE] \in Pod
      BY <1>4, <1>7 DEF FinishPod, Running, Pod
    <2> QED  BY <2>1, <1>2, <1>7 DEF FinishPod
  <1>8. ASSUME NEW p \in Pods, NEW s \in PodSpecs, ChangePod(p, s) PROVE TypeOK'
    <2>1. [apiPods[p] EXCEPT !.spec = s] \in Pod
      BY <1>4, <1>8 DEF ChangePod, Running, Pod
    <2> QED  BY <2>1, <1>2, <1>8 DEF ChangePod
  <1>9. ASSUME NEW p \in Pods, NEW r \in ResizeStates \cup {"none"}, KubeletReports(p, r)
        PROVE  TypeOK'
    <2>1. [apiPods[p] EXCEPT !.resize = r] \in Pod
      BY <1>4, <1>9 DEF KubeletReports, Running, Pod
    <2> QED  BY <2>1, <1>2, <1>9 DEF KubeletReports
  <1>10. ASSUME NEW p \in Pods, NEW l \in Limits, EditLimit(p, l) PROVE TypeOK'
    <2>1. [apiPods[p] EXCEPT !.limit = l] \in Pod
      BY <1>4, <1>10 DEF EditLimit, Running, Pod
    <2> QED  BY <2>1, <1>2, <1>10 DEF EditLimit
  <1>11. ASSUME NEW n \in Nodes, NEW s \in NodeSpecs \cup {Absent}, SetNode(n, s) PROVE TypeOK'
    BY <1>1, <1>11 DEF SetNode, Environment, TypeOK
  <1>12. ASSUME NEW c \in Configs \cup {Absent}, SetConfig(c) PROVE TypeOK'
    BY <1>1, <1>12 DEF SetConfig, Environment, TypeOK
  <1>13. ASSUME NEW x \in Namespaces, NEW s \in NamespaceSpecs \cup {Absent}, SetNamespace(x, s)
         PROVE  TypeOK'
    BY <1>1, <1>13 DEF SetNamespace, Environment, TypeOK
  <1>14. ASSUME NEW v \in VPASets, SetVPAs(v) PROVE TypeOK'
    BY <1>1, <1>14, ParameterAssumption DEF SetVPAs, Environment, TypeOK
  <1> QED
    BY <1>3, <1>5, <1>6, <1>7, <1>8, <1>9, <1>10, <1>11, <1>12, <1>13, <1>14 DEF Environment

LEMMA TypeFault == ASSUME TypeOK, NEW k, Fault(k)
                   PROVE  changes' \in 0 .. MaxChanges /\ faults' \in 0 .. MaxFaults
  BY ParameterAssumption DEF Fault, TypeOK

\* A pass in progress is a Pass, field by field.
LEMMA TypePass == ASSUME TypeOK, ~Idle PROVE pass \in Pass
  BY DEF TypeOK, Idle

LEMMA TypeListPods == TypeOK /\ ListPods => TypeOK' /\ pass' \in Pass
  <1> SUFFICES ASSUME TypeOK, ListPods PROVE TypeOK' /\ pass' \in Pass
    OBVIOUS
  <1>1. pass' \in Pass
    BY TypePass DEF ListPods, Pass, Steps, TypeOK
  <1> QED  BY <1>1 DEF ListPods, TypeOK

\* buildInputs hands policy.Compute rows of the kind it is assumed to answer.
LEMMA InputsTyped ==
    ASSUME TypeOK, ~Idle
    PROVE  Inputs \in [{q \in Pods : pass.list[q] # Absent} -> PolicyInputs]
  <1> SUFFICES ASSUME NEW p \in Pods, pass.list[p] # Absent
               PROVE  PodInput(pass.list[p].spec, pass.list[p].limit, Managed(p), HoldsShare(p),
                               IF Managed(p) THEN namespaces[NamespaceOf[p]].rangeCap ELSE 0)
                        \in PolicyInputs
    BY DEF Inputs
  <1>1. pass.list[p].spec \in PodSpecs /\ pass.list[p].limit \in Limits
    BY TypePass DEF Pass, Pod
  <1>2. (IF Managed(p) THEN namespaces[NamespaceOf[p]].rangeCap ELSE 0) \in RangeCaps
    BY ParameterAssumption DEF TypeOK, Managed, Enrolled, NamespaceManaged, RangeCaps
  <1>3. PICK share \in {"managed", "held", "none"} :
           Managed(p) = (share = "managed") /\ HoldsShare(p) = (share = "held")
    <2>1. Managed(p) \in BOOLEAN /\ HoldsShare(p) \in BOOLEAN
      BY DEF Managed, HoldsShare
    <2>2. ~(Managed(p) /\ HoldsShare(p))
      BY DEF HoldsShare
    <2> QED  BY <2>1, <2>2
  <1> QED  BY <1>1, <1>2, <1>3 DEF PolicyInputs

\* Every decision a pass takes up is a Decision.
LEMMA DecisionsTyped ==
    ASSUME TypeOK, ~Idle, NEW p \in Pods, Managed(p)
    PROVE  ComputeNode(pass.cfg.policy, pass.spec.allocatable, Inputs)[p] \in Decision
  <1>1. pass.cfg \in Configs \cup {DefaultConfig} /\ pass.spec \in NodeSpecs
    BY TypePass DEF Pass
  <1>2. p \in {q \in Pods : pass.list[q] # Absent}
    BY DEF Managed, Enrolled, Candidate
  <1>3. Inputs[p].managed
    BY <1>2 DEF Inputs, PodInput
  <1> DEFINE S == {q \in Pods : pass.list[q] # Absent}
  <1>4. S \in SUBSET Pods /\ Inputs \in [S -> PolicyInputs] /\ p \in {q \in S : Inputs[q].managed}
    BY <1>2, <1>3, InputsTyped
  <1> HIDE DEF S
  <1> QED  BY <1>1, <1>4, ComputeAssumption

LEMMA TypeBackoffAfter ==
    ASSUME TypeOK, NEW judged
    PROVE  BackoffAfter(judged) \in [Pods -> (LongEnded .. BackoffPeriod) \cup {Absent}]
  BY ParameterAssumption DEF TypeOK, BackoffAfter, LongEnded

LEMMA LimiterTyped == ASSUME TypeOK, ~Idle PROVE LimiterFor(pass.node, pass.cfg.pps) \in Bucket
  <1>1. pass.node \in Nodes /\ pass.cfg.pps \in Nat \ {0}
    BY TypePass, ParameterAssumption DEF Pass
  <1> QED  BY <1>1 DEF LimiterFor, Least, TypeOK, Bucket

LEMMA TypeBuildInputs == TypeOK /\ BuildInputs => TypeOK' /\ pass' \in Pass
  <1> SUFFICES ASSUME TypeOK, BuildInputs PROVE TypeOK' /\ pass' \in Pass
    OBVIOUS
  <1>0. ~Idle /\ pass \in Pass
    BY TypePass DEF BuildInputs
  <1> DEFINE decided == ComputeNode(pass.cfg.policy, pass.spec.allocatable, Inputs)
             managed == {p \in Pods : Managed(p)}
  <1>1. \A p \in managed : decided[p] \in Decision
    BY <1>0, DecisionsTyped
  <1>2. backoff' \in [Pods -> (LongEnded .. BackoffPeriod) \cup {Absent}]
    BY TypeBackoffAfter DEF BuildInputs
  <1>3. \A S \in SUBSET Pods : Cardinality(S) \in Nat
    BY ParameterAssumption, FS_Subset, FS_CardinalityType
  <1>4. nodeResizesDeferred' \in [Nodes -> Nat \cup {Absent}]
    <2>1. Cardinality({p \in managed : pass.list[p].resize = "Deferred"}) \in Nat
      BY <1>3
    <2> HIDE DEF managed
    <2> QED  BY <2>1 DEF BuildInputs, TypeOK, managed
  <1>5. LimiterFor(pass.node, pass.cfg.pps) \in Bucket
    BY <1>0, LimiterTyped
  <1>6. buckets' \in [Nodes -> Bucket \cup {Absent}]
    BY <1>5 DEF BuildInputs, TypeOK
  <1> HIDE DEF decided
  <1>7. pass' \in Pass
    BY <1>0, <1>1 DEF BuildInputs, Pass, Steps, decided
  <1>8. podLimitCores' \in [Pods -> Limits \cup {Absent}]
    BY <1>1 DEF BuildInputs, TypeOK, Decision, decided
  <1>9. podSeries' \in [Nodes -> SUBSET Pods]
    BY DEF BuildInputs, TypeOK
  <1> QED
    BY <1>2, <1>4, <1>6, <1>7, <1>8, <1>9 DEF BuildInputs, TypeOK

LEMMA TypeRequeue ==
    ASSUME TypeOK, ~Idle, NEW delays \in SUBSET Nat, Requeue(delays)
    PROVE  queue' \in [Nodes -> Nat \cup {Absent}] /\ pass' = Absent
  BY TypePass DEF Requeue, AddAfter, Pass, TypeOK

LEMMA TypeReadFails == TypeOK /\ ReadFails => TypeOK'
  <1> SUFFICES ASSUME TypeOK, ReadFails PROVE TypeOK'
    OBVIOUS
  <1>1. queue' \in [Nodes -> Nat \cup {Absent}] /\ pass' = Absent
    <2>1. RequeueDelays \in SUBSET Nat
      BY ParameterAssumption DEF RequeueDelays
    <2> QED  BY <2>1, TypeRequeue DEF ReadFails
  <1>2. backoff' \in [Pods -> (LongEnded .. BackoffPeriod) \cup {Absent}]
    BY TypeBackoffAfter DEF ReadFails
  <1>3. changes' \in 0 .. MaxChanges /\ faults' \in 0 .. MaxFaults
    BY TypeFault DEF ReadFails
  <1> QED  BY <1>1, <1>2, <1>3 DEF ReadFails, TypeOK

LEMMA TypeAnnotate ==
    ASSUME TypeOK, NEW p \in Pods, Annotate(p) PROVE TypeOK' /\ pass' \in Pass
  <1>0. ~Idle /\ pass \in Pass /\ pass.decisions[p] \in Decision
    BY TypePass DEF Annotate, Pass
  <1> DEFINE desired == [target |-> pass.decisions[p].target, dryRun |-> pass.cfg.dryRun]
             resize == pass.decisions[p].apply /\ ~pass.cfg.dryRun
             next(obj) == [pass EXCEPT
                            !.list[p] = obj,
                            !.current = IF resize THEN p ELSE Absent,
                            !.decisions = IF resize THEN @ ELSE Finish(p)]
  <1>1. desired \in Status
    BY <1>0, ParameterAssumption DEF Status, Decision, Pass
  <1>2. \A obj \in Pod \cup {Absent} : next(obj) \in Pass
    BY <1>0 DEF Pass, Finish
  <1>3. changes' \in 0 .. MaxChanges /\ faults' \in 0 .. MaxFaults
    BY TypeFault DEF Annotate, TypeOK
  <1>4. apiPods' \in [Pods -> Pod \cup {Absent}] /\ pass' \in Pass
    <2>1. CASE /\ apiPods[p] # Absent
               /\ apiPods' = [apiPods EXCEPT ![p].status = desired]
               /\ pass' = next([apiPods[p] EXCEPT !.status = desired])
      <3>1. apiPods[p] \in Pod
        BY <2>1 DEF TypeOK
      <3>2. [apiPods[p] EXCEPT !.status = desired] \in Pod
        BY <3>1, <1>1 DEF Pod
      <3> HIDE DEF desired, next
      <3> QED  BY <2>1, <3>2, <1>2 DEF TypeOK
    <2>2. CASE pass' = next(pass.list[p]) /\ UNCHANGED apiPods
      <3>1. pass.list[p] \in Pod \cup {Absent}
        BY <1>0 DEF Pass
      <3> HIDE DEF next
      <3> QED  BY <2>2, <3>1, <1>2 DEF TypeOK
    <2> QED  BY <2>1, <2>2 DEF Annotate
  <1> QED  BY <1>3, <1>4 DEF Annotate, TypeOK

LEMMA TypeOutOfTokens == TypeOK /\ OutOfTokens => TypeOK' /\ pass' \in Pass
  <1> SUFFICES ASSUME TypeOK, OutOfTokens PROVE TypeOK' /\ pass' \in Pass
    OBVIOUS
  <1>1. pass' \in Pass
    BY TypePass DEF OutOfTokens, Pass, NoList
  <1> QED  BY <1>1 DEF OutOfTokens, TypeOK


\* What PassSound says of the pod about to be resized.
LEMMA CurrentSound ==
    ASSUME TypeOK, PassSound, ~Idle, pass.current # Absent
    PROVE  /\ pass \in Pass
           /\ pass.current \in Pods
           /\ pass.step = "apply"
           /\ pass.decisions[pass.current] \in Decision
           /\ pass.list[pass.current] \in Pod
           /\ buckets[pass.node] \in Bucket
  BY TypePass DEF TypeOK, PassSound, Pass, Idle

LEMMA TypeResizeOutcome ==
    ASSUME TypeOK, PassSound, NEW outcome, ResizeOutcome(outcome)
    PROVE  /\ pass' \in Pass
           /\ buckets' \in [Nodes -> Bucket \cup {Absent}]
  <1>1. pass \in Pass /\ pass.current \in Pods /\ buckets[pass.node] \in Bucket
    BY CurrentSound DEF ResizeOutcome
  <1>2. pass' \in Pass
    BY <1>1 DEF ResizeOutcome, Pass, Finish
  <1>3. buckets' \in [Nodes -> Bucket \cup {Absent}]
    <2>1. [buckets[pass.node] EXCEPT !.tokens = @ - 1] \in Bucket
      BY <1>1 DEF ResizeOutcome, Bucket
    <2> QED  BY <2>1 DEF ResizeOutcome, TypeOK
  <1> QED  BY <1>2, <1>3

\* A patch that goes through sets one pod's limit and touches nothing else of it.
LEMMA PatchedPod ==
    ASSUME TypeOK, PassSound, ResizeApplied
    PROVE  \E p \in Pods, l \in Limits :
             /\ apiPods[p] # Absent /\ apiPods[p] \in Pod
             /\ apiPods' = [apiPods EXCEPT ![p].limit = l]
  <1> DEFINE p == pass.current
  <1>1. p \in Pods /\ apiPods[p] # Absent /\ apiPods[p] \in Pod
    BY CurrentSound DEF ResizeApplied, ResizeOutcome, TypeOK
  <1>2. PatchedLimit \in Limits
    BY CurrentSound, ParameterAssumption
       DEF ResizeApplied, ResizeOutcome, PatchedLimit, Greatest, Decision, Pod
  <1>3. apiPods[p].limit \in Limits
    BY <1>1 DEF Pod
  <1> QED  BY <1>1, <1>2, <1>3 DEF ResizeApplied

LEMMA TypeResize ==
    ASSUME TypeOK, PassSound,
           ResizeApplied \/ ResizeNotFound \/ ResizeConflict \/ ResizeForbidden \/ ResizeFails
    PROVE  TypeOK' /\ pass' \in Pass
  <1>1. CASE ResizeApplied
    <2>0. pass' \in Pass /\ buckets' \in [Nodes -> Bucket \cup {Absent}]
      BY <1>1, TypeResizeOutcome DEF ResizeApplied
    <2>1. PICK p \in Pods, l \in Limits :
            apiPods[p] \in Pod /\ apiPods' = [apiPods EXCEPT ![p].limit = l]
      BY <1>1, PatchedPod
    <2>2. [apiPods[p] EXCEPT !.limit = l] \in Pod
      BY <2>1 DEF Pod
    <2>3. apiPods' \in [Pods -> Pod \cup {Absent}]
      BY <2>1, <2>2 DEF TypeOK
    <2> QED  BY <2>0, <2>3, <1>1 DEF ResizeApplied, TypeOK
  <1>2. CASE ResizeNotFound
    BY <1>2, TypeResizeOutcome DEF ResizeNotFound, TypeOK
  <1>3. CASE ResizeConflict
    BY <1>3, TypeResizeOutcome, TypeFault DEF ResizeConflict, TypeOK
  <1>4. CASE ResizeForbidden
    <2>1. BackoffPeriod \in LongEnded .. BackoffPeriod
      BY ParameterAssumption DEF LongEnded
    <2> QED  BY <1>4, <2>1, TypeResizeOutcome, TypeFault DEF ResizeForbidden, TypeOK
  <1>5. CASE ResizeFails
    <2>1. changes' \in 0 .. MaxChanges /\ faults' \in 0 .. MaxFaults
      BY <1>5, TypeFault DEF ResizeFails, TypeOK
    <2> QED  BY <1>5, <2>1, TypeResizeOutcome DEF ResizeFails, TypeOK
  <1> QED  BY <1>1, <1>2, <1>3, <1>4, <1>5

\* However a pass ends, it requeues its node or finds no window open.
LEMMA EndPassRequeues ==
    ASSUME TypeOK, EndPass
    PROVE  \/ \E delays \in SUBSET Nat : Requeue(delays)
           \/ pass' = Absent /\ UNCHANGED queue /\ WindowsAtJudgedAt = {}
  <1>0. pass \in Pass
    BY TypePass DEF EndPass
  <1>1. RequeueDelays \in SUBSET Nat /\ {1} \in SUBSET Nat
    BY ParameterAssumption DEF RequeueDelays
  <1>2. ASSUME NEW p \in Pods, BackoffRequeue(p)
        PROVE  \E delays \in SUBSET Nat : Requeue(delays)
    <2>1. {backoff[p] + pass.elapsed + d : d \in EnqueueDelays} \in SUBSET Nat
      <3>1. backoff[p] \in Int /\ pass.elapsed \in Nat /\ backoff[p] + pass.elapsed >= 0
        BY <1>0, <1>2, ParameterAssumption
           DEF BackoffRequeue, WindowsAtJudgedAt, Pass, TypeOK, LongEnded
      <3> QED  BY <3>1, ParameterAssumption DEF EnqueueDelays
    <2> QED  BY <1>2, <2>1, Zenon DEF BackoffRequeue
  <1> QED  BY <1>1, <1>2, Zenon DEF EndPass

LEMMA TypeEndPass == TypeOK /\ EndPass => TypeOK'
  <1> SUFFICES ASSUME TypeOK, EndPass PROVE TypeOK'
    OBVIOUS
  <1>1. queue' \in [Nodes -> Nat \cup {Absent}] /\ pass' = Absent
    <2>1. ~Idle
      BY DEF EndPass
    <2> QED  BY <2>1, EndPassRequeues, TypeRequeue DEF TypeOK
  <1> QED  BY <1>1 DEF EndPass, TypeOK

LEMMA TypeTick == TypeOK /\ Tick => TypeOK'
  <1> SUFFICES ASSUME TypeOK, Tick PROVE TypeOK'
    OBVIOUS
  <1>1. queue' \in [Nodes -> Nat \cup {Absent}]
    <2>1. \A n \in Nodes : queue[n] \in Nat \cup {Absent}
      BY DEF TypeOK
    <2>2. TickedQueue \in [Nodes -> Nat \cup {Absent}]
      BY <2>1, AbsentAssumption DEF TickedQueue
    <2> QED  BY <2>2 DEF Tick
  <1>2. backoff' \in [Pods -> (LongEnded .. BackoffPeriod) \cup {Absent}]
    <2>1. \A p \in Pods : backoff[p] \in (LongEnded .. BackoffPeriod) \cup {Absent}
      BY DEF TypeOK
    <2>2. TickedBackoff \in [Pods -> (LongEnded .. BackoffPeriod) \cup {Absent}]
      BY <2>1, ParameterAssumption DEF TickedBackoff, LongEnded
    <2> QED  BY <2>2 DEF Tick
  <1>3. buckets' \in [Nodes -> Bucket \cup {Absent}]
    BY DEF Tick, TickedBuckets, TypeOK, Bucket
  <1>4. pass' \in Pass \cup {Absent}
    <2>1. CASE Judging
      BY <2>1, TypePass DEF Tick, Judging, Pass
    <2>2. CASE ~Judging
      BY <2>2 DEF Tick, TypeOK
    <2> QED  BY <2>1, <2>2
  <1> QED  BY <1>1, <1>2, <1>3, <1>4 DEF Tick, TypeOK

LEMMA TypeRestart == TypeOK /\ Restart => TypeOK'
  <1> SUFFICES ASSUME TypeOK, Restart PROVE TypeOK'
    OBVIOUS
  <1>1. events' \in SUBSET Event
    BY DEF Restart, CreateEvents, TypeOK, Pod, PodEvent, NodeEvent, NamespaceEvent,
           ConfigEvent, Event
  <1>2. changes' \in 0 .. MaxChanges /\ faults' \in 0 .. MaxFaults
    BY TypeFault DEF Restart
  <1> QED  BY <1>1, <1>2 DEF Restart, TypeOK, NoBackoff, NoEntries

LEMMA TypeNext == TypeOK /\ PassSound /\ [Next]_vars => TypeOK'
  <1> SUFFICES ASSUME TypeOK, PassSound, [Next]_vars PROVE TypeOK'
    OBVIOUS
  <1>1. CASE Continue
    BY <1>1, TypeListPods, TypeBuildInputs, TypeReadFails, TypeAnnotate, TypeOutOfTokens,
       TypeResize, TypeEndPass DEF Continue
  <1>2. CASE System
    BY <1>1, <1>2, TypeDeliver, TypeHandle, TypeStart, TypeTick DEF System
  <1>3. CASE UNCHANGED vars
    BY <1>3 DEF vars, TypeOK
  <1> QED  BY <1>2, <1>3, TypeEnvironment, TypeRestart DEF Next
-----------------------------------------------------------------------------
\* PassSound reads pass and buckets only.
LEMMA SoundUnchanged == PassSound /\ UNCHANGED <<pass, buckets>> => PassSound'
  BY DEF PassSound

\* Whether or not the annotation is written, the pass goes on with a pod object.
LEMMA AnnotateObject ==
    ASSUME TypeOK, PassSound, NEW p \in Pods, Annotate(p)
    PROVE  \E obj \in Pod :
             pass' = [pass EXCEPT
                        !.list[p] = obj,
                        !.current = IF pass.decisions[p].apply /\ ~pass.cfg.dryRun
                                    THEN p ELSE Absent,
                        !.decisions = IF pass.decisions[p].apply /\ ~pass.cfg.dryRun
                                      THEN @ ELSE Finish(p)]
  <1> DEFINE desired == [target |-> pass.decisions[p].target, dryRun |-> pass.cfg.dryRun]
             resize == pass.decisions[p].apply /\ ~pass.cfg.dryRun
             next(obj) == [pass EXCEPT
                            !.list[p] = obj,
                            !.current = IF resize THEN p ELSE Absent,
                            !.decisions = IF resize THEN @ ELSE Finish(p)]
  <1>0. pass \in Pass /\ pass.decisions[p] \in Decision /\ pass.list[p] \in Pod
    BY TypePass DEF Annotate, Pass, PassSound, Idle
  <1>1. desired \in Status
    BY <1>0, ParameterAssumption DEF Status, Decision, Pass
  <1>2. CASE /\ apiPods[p] # Absent
             /\ pass' = next([apiPods[p] EXCEPT !.status = desired])
    <2>1. [apiPods[p] EXCEPT !.status = desired] \in Pod
      BY <1>1, <1>2 DEF Pod, TypeOK
    <2> QED  BY <1>2, <2>1
  <1>3. CASE pass' = next(pass.list[p])
    BY <1>0, <1>3
  <1> QED  BY <1>2, <1>3 DEF Annotate

LEMMA SoundContinue == TypeOK /\ PassSound /\ Continue => PassSound'
  <1> SUFFICES ASSUME TypeOK, PassSound, Continue PROVE PassSound'
    OBVIOUS
  <1>0. ~Idle /\ pass \in Pass
    BY TypePass DEF Continue, ListPods, BuildInputs, ReadFails, Annotate, OutOfTokens,
       ResizeApplied, ResizeNotFound, ResizeConflict, ResizeForbidden, ResizeFails,
       ResizeOutcome, EndPass
  <1>1. CASE ListPods
    BY <1>0, <1>1 DEF ListPods, PassSound, Pass, Idle
  <1>2. CASE BuildInputs
    <2>1. pass'.step = "apply" /\ pass'.elapsed = pass.elapsed /\ pass'.list = pass.list
          /\ pass'.current = Absent /\ pass'.node = pass.node
      BY <1>0, <1>2 DEF BuildInputs, Pass, PassSound, Idle
    <2>2. \A p \in Pods : pass'.decisions[p] # Absent => pass.list[p] # Absent
      BY <1>0, <1>2 DEF BuildInputs, Pass, Managed, Enrolled, Candidate
    <2>3. buckets'[pass.node] # Absent
      <3>1. buckets'[pass.node] = LimiterFor(pass.node, pass.cfg.pps)
        BY <1>0, <1>2 DEF BuildInputs, TypeOK, Pass
      <3> QED  BY <1>0, <3>1, LimiterTyped, AbsentAssumption
    <2> QED  BY <1>0, <2>1, <2>2, <2>3 DEF PassSound, Idle
  <1>3. CASE ReadFails \/ EndPass
    <2>1. pass' = Absent
      BY <1>3 DEF ReadFails, EndPass, Requeue, BackoffRequeue
    <2> QED  BY <2>1 DEF PassSound
  <1>4. ASSUME NEW p \in Pods, Annotate(p) PROVE PassSound'
    <2>1. pass.decisions[p] # Absent /\ pass.list[p] # Absent /\ pass.step = "apply"
      BY <1>0, <1>4 DEF Annotate, PassSound, Idle
    <2>2. PICK obj \in Pod :
            pass' = [pass EXCEPT
                       !.list[p] = obj,
                       !.current = IF pass.decisions[p].apply /\ ~pass.cfg.dryRun
                                   THEN p ELSE Absent,
                       !.decisions = IF pass.decisions[p].apply /\ ~pass.cfg.dryRun
                                     THEN @ ELSE Finish(p)]
      BY <1>4, AnnotateObject
    <2> QED  BY <1>0, <1>4, <2>1, <2>2, AbsentAssumption DEF PassSound, Pass, Finish, Idle, Annotate
  <1>5. CASE OutOfTokens
    BY <1>0, <1>5 DEF OutOfTokens, PassSound, Pass, NoList, Idle
  <1>6. ASSUME NEW outcome, ResizeOutcome(outcome) PROVE PassSound'
    <2>1. /\ pass'.step = pass.step /\ pass'.elapsed = pass.elapsed
          /\ pass'.list = pass.list /\ pass'.node = pass.node
          /\ pass'.current = Absent /\ pass'.decisions = Finish(pass.current)
      BY <1>0, <1>6 DEF ResizeOutcome, Pass
    <2>2. buckets'[pass.node] # Absent
      <3>1. buckets[pass.node] \in Bucket /\ pass.node \in Nodes
        BY <1>0, <1>6, CurrentSound DEF ResizeOutcome, Pass
      <3>2. buckets'[pass.node] = [buckets[pass.node] EXCEPT !.tokens = @ - 1]
        BY <1>6, <3>1 DEF ResizeOutcome, TypeOK
      <3>3. buckets'[pass.node] \in Bucket
        BY <3>1, <3>2, <1>6 DEF ResizeOutcome, Bucket
      <3> QED  BY <3>3, AbsentAssumption
    <2> QED  BY <1>0, <2>1, <2>2 DEF PassSound, Pass, Finish, Idle
  <1> QED
    BY <1>1, <1>2, <1>3, <1>4, <1>5, <1>6
       DEF Continue, ResizeApplied, ResizeNotFound, ResizeConflict, ResizeForbidden, ResizeFails

LEMMA SoundTick == TypeOK /\ PassSound /\ Tick => PassSound'
  <1> SUFFICES ASSUME TypeOK, PassSound, Tick, pass # Absent PROVE PassSound'
    BY DEF PassSound, Tick, Judging, Idle
  <1>0. pass \in Pass
    BY TypePass DEF Idle
  <1>1. \A n \in Nodes : buckets[n] # Absent => buckets'[n] # Absent
    <2> SUFFICES ASSUME NEW n \in Nodes, buckets[n] # Absent PROVE buckets'[n] # Absent
      OBVIOUS
    <2>1. buckets[n] \in Bucket
      BY DEF TypeOK
    <2>2. buckets'[n] = [buckets[n] EXCEPT !.tokens = buckets[n].pps]
      BY DEF Tick, TickedBuckets
    <2>3. buckets'[n] \in Bucket
      BY <2>1, <2>2 DEF Bucket
    <2> QED  BY <2>3, AbsentAssumption
  <1>2. /\ pass'.node = pass.node /\ pass'.step = pass.step /\ pass'.list = pass.list
        /\ pass'.decisions = pass.decisions /\ pass'.current = pass.current
    BY <1>0 DEF Tick, Pass
  <1>3. pass'.elapsed <= MaxPassTicks
    <2>1. CASE Judging
      BY <1>0, <2>1, ParameterAssumption DEF Tick, Pass
    <2>2. CASE ~Judging
      BY <2>2 DEF Tick, PassSound
    <2> QED  BY <2>1, <2>2
  <1> QED  BY <1>0, <1>1, <1>2, <1>3 DEF PassSound, Pass

LEMMA SoundNext == TypeOK /\ PassSound /\ [Next]_vars => PassSound'
  <1> SUFFICES ASSUME TypeOK, PassSound, [Next]_vars PROVE PassSound'
    OBVIOUS
  <1>1. CASE Environment
    BY <1>1, SoundUnchanged DEF Environment
  <1>2. CASE Deliver
    BY <1>2, SoundUnchanged DEF Deliver, DeliverPod, RelistPod, DeliverNode, DeliverConfig,
       DeliverNamespace, PollVPAs, PollFails, Refresh
  <1>3. CASE Handle
    BY <1>3, SoundUnchanged DEF Handle, HandlePodEvent, HandleNodeEvent, HandleConfigEvent,
       HandleNamespaceEvent
  <1>4. ASSUME NEW n \in Nodes, Start(n) PROVE PassSound'
    <2>1. CASE StartUnsynced(n)
      BY <2>1, SoundUnchanged DEF StartUnsynced
    <2>2. CASE StartForgets(n)
      BY <2>2 DEF StartForgets, Idle, PassSound
    <2>3. CASE StartPass(n)
      BY <2>3, ParameterAssumption DEF StartPass, PassSound, NoList
    <2> QED  BY <1>4, <2>1, <2>2, <2>3 DEF Start
  <1>5. CASE Restart
    BY <1>5 DEF Restart, PassSound
  <1>6. CASE UNCHANGED vars
    BY <1>6, SoundUnchanged DEF vars
  <1> QED
    BY <1>1, <1>2, <1>3, <1>4, <1>5, <1>6, SoundContinue, SoundTick DEF Next, System

\* Type correctness, for any policy, any sets of objects and any bounds: no
\* sequence of steps of the node reconciler, its caches and its environment
\* takes a variable out of its range.  PassSound is what makes it inductive.
THEOREM TypeCorrect == Spec => [](TypeOK /\ PassSound)
  <1>1. Init => TypeOK /\ PassSound
    BY TypeInit DEF Init, PassSound
  <1>2. TypeOK /\ PassSound /\ [Next]_vars => (TypeOK /\ PassSound)'
    BY TypeNext, SoundNext
  <1> QED  BY <1>1, <1>2, PTL DEF Spec
-----------------------------------------------------------------------------
(* Why no backoff entry is forgotten.                                       *)

\* Stirs without the announcements of namespaces, which are not needed.
Woken(n) ==
    \/ queue[n] # Absent
    \/ PodEvent(n) \in events
    \/ NodeEvent(n) \in events
    \/ ConfigEvent \in events /\ nodes[n] # Absent

\* What podUpdateRelevant does not look at: whether the pod is resizable, and
\* whether a limit at its request would make it Guaranteed.
BornAlike(s, t) == s.resizable = t.resizable /\ s.aboveRequest = t.aboveRequest

\* Neither changes in the life of a pod, and a pod created and bound since owes
\* an event.
OwedCovers ==
    \A p \in Pods :
        /\ pods[p] # Absent
        /\ apiPods[p] # Absent
        /\ apiPods[p].node # Absent
        /\ ~BornAlike(pods[p].spec, apiPods[p].spec)
        => apiPods[p].node \in owed[p]

\* A candidate with an entry has its node woken, unless that node's own pass is on.
EntryWoken ==
    \A p \in Pods :
        /\ backoff[p] # Absent
        /\ CandidateNow(p)
        /\ pass = Absent \/ pass.node # pods[p].node
        => Woken(pods[p].node)

\* While it is, and nothing has woken the node again, the pass sees the pod as a
\* new one would, and at its end finds the window still open at judgedAt.
PassAware ==
    pass # Absent =>
        \A p \in Pods :
            CandidateNow(p) /\ pods[p].node = pass.node /\ ~Woken(pass.node) =>
                /\ pass.step = "list" =>
                      NodeManageable(pass.spec, pass.cfg) /\ ~OwnerExcluded(pods[p], pass.cfg)
                /\ pass.step = "build" => Candidate(p)
                /\ pass.step = "apply" => (backoff[p] # Absent => p \in WindowsAtJudgedAt)

\* A listed pod that has moved since has its new node woken: the one worker is
\* still busy with the old one.
MovedWoken ==
    pass # Absent =>
        \A p \in Pods :
            /\ pass.list[p] # Absent
            /\ pods[p] # Absent
            /\ pods[p].node # Absent
            /\ pods[p].node # pass.node
            => Woken(pods[p].node)

\* The watch skips no version of a pod; or, where a relist may, no two pods of a
\* key differ in what podUpdateRelevant does not compare.
NothingUnseen ==
    \/ "watch" \notin FaultKinds
    \/ \A s, t \in PodSpecs : s.resizable = t.resizable

WakeInv == TypeOK /\ PassSound /\ OwedCovers /\ EntryWoken /\ PassAware /\ MovedWoken

\* The candidate's node is a node.
LEMMA CandidateNode ==
    ASSUME TypeOK, NEW p \in Pods, CandidateNow(p)
    PROVE  pods[p] \in Pod /\ pods[p].node \in Nodes /\ nodes[pods[p].node] \in NodeSpecs
  BY DEF TypeOK, CandidateNow, Pod

\* A debounced add leaves its nodes on the queue, and every other where it was.
LEMMA EnqueueWakes ==
    ASSUME NEW S \in SUBSET Nodes, EnqueueAll(S)
    PROVE  \A n \in Nodes : queue[n] # Absent \/ n \in S => queue'[n] # Absent
  <1>1. PICK delay \in [S -> EnqueueDelays] :
          queue' = [n \in Nodes |->
                      IF n \in S /\ (queue[n] = Absent \/ delay[n] < queue[n])
                      THEN delay[n] ELSE queue[n]]
    BY DEF EnqueueAll
  <1>2. \A d \in EnqueueDelays : d # Absent
    BY AbsentAssumption, ParameterAssumption DEF EnqueueDelays
  <1> QED  BY <1>1, <1>2

LEMMA ReadFailsRequeues == ReadFails => \E delays \in SUBSET Nat : Requeue(delays)
  <1>1. RequeueDelays \in SUBSET Nat
    BY ParameterAssumption DEF RequeueDelays
  <1> QED  BY <1>1, Zenon DEF ReadFails

\* A requeue leaves the node on the queue, and every other where it was.
LEMMA RequeueWakes ==
    ASSUME TypeOK, ~Idle, NEW delays \in SUBSET Nat, Requeue(delays)
    PROVE  /\ queue'[pass.node] # Absent
           /\ \A n \in Nodes : queue[n] # Absent => queue'[n] # Absent
  <1>1. pass.node \in Nodes /\ queue \in [Nodes -> Nat \cup {Absent}]
    BY TypePass DEF Pass, TypeOK
  <1>2. PICK d \in delays : queue' = AddAfter(pass.node, d)
    BY DEF Requeue
  <1>3. d # Absent
    BY AbsentAssumption
  <1> QED  BY <1>1, <1>2, <1>3 DEF AddAfter

\* A node once woken stays so until the worker takes it or the process dies.
LEMMA WokenStays ==
    ASSUME TypeOK, [Next]_vars, ~Restart, NEW n \in Nodes, Woken(n),
           ~StartPass(n), ~StartForgets(n)
    PROVE  Woken(n)'
  <1> USE AbsentAssumption, ParameterAssumption DEF Woken
  <1>0. \A m \in Nodes : queue[m] \in Nat \cup {Absent}
    BY DEF TypeOK
  <1>1. CASE Environment \/ UNCHANGED vars
    BY <1>1 DEF Environment, vars
  <1>2. CASE Deliver
    <2>1. ASSUME NEW p \in Pods, DeliverPod(p) \/ RelistPod(p) PROVE Woken(n)'
      BY <2>1 DEF DeliverPod, RelistPod
    <2>2. ASSUME NEW m \in Nodes, DeliverNode(m) PROVE Woken(n)'
      <3>1. CASE m = n /\ apiNodes[m] = Absent
        BY <2>2, <3>1 DEF DeliverNode, NodeUpdateRelevant
      <3>2. CASE m # n \/ apiNodes[m] # Absent
        BY <2>2, <3>2 DEF DeliverNode, TypeOK
      <3> QED  BY <3>1, <3>2
    <2>3. CASE DeliverConfig
      BY <2>3 DEF DeliverConfig
    <2>4. ASSUME NEW x \in Namespaces, DeliverNamespace(x) PROVE Woken(n)'
      BY <2>4 DEF DeliverNamespace
    <2>5. CASE PollVPAs \/ PollFails
      BY <2>5 DEF PollVPAs, PollFails, Refresh
    <2> QED  BY <1>2, <2>1, <2>2, <2>3, <2>4, <2>5 DEF Deliver
  <1>3. CASE Handle
    <2>0. ASSUME NEW S \in SUBSET Nodes, EnqueueAll(S)
          PROVE  /\ queue[n] # Absent => queue'[n] # Absent
                 /\ n \in S => queue'[n] # Absent
      BY <2>0, EnqueueWakes
    <2>1. ASSUME NEW m \in Nodes, HandlePodEvent(m) PROVE Woken(n)'
      <3>1. EnqueueAll({m}) /\ {m} \in SUBSET Nodes
        BY <2>1 DEF HandlePodEvent
      <3>2. queue'[m] # Absent \/ m # n
        BY <3>1, <2>0
      <3>3. UNCHANGED nodes /\ events' = events \ {PodEvent(m)}
        BY <2>1 DEF HandlePodEvent
      <3>4. queue[n] # Absent => queue'[n] # Absent
        BY <3>1, <2>0
      <3> QED  BY <3>2, <3>3, <3>4 DEF PodEvent, NodeEvent, ConfigEvent
    <2>2. ASSUME NEW m \in Nodes, HandleNodeEvent(m) PROVE Woken(n)'
      <3>1. queue' = AddAfter(m, 0) /\ UNCHANGED nodes /\ events' = events \ {NodeEvent(m)}
        BY <2>2 DEF HandleNodeEvent
      <3>2. queue'[m] # Absent /\ (queue[n] # Absent => queue'[n] # Absent)
        BY <1>0, <3>1 DEF AddAfter, TypeOK
      <3> QED  BY <3>1, <3>2 DEF PodEvent, NodeEvent, ConfigEvent
    <2>3. CASE HandleConfigEvent
      <3>1. EnqueueAll({m \in Nodes : nodes[m] # Absent})
        BY <2>3 DEF HandleConfigEvent
      <3>2. /\ queue[n] # Absent => queue'[n] # Absent
            /\ nodes[n] # Absent => queue'[n] # Absent
        BY <3>1, <2>0
      <3>3. UNCHANGED nodes /\ events' = events \ {ConfigEvent}
        BY <2>3 DEF HandleConfigEvent
      <3> QED  BY <3>2, <3>3 DEF PodEvent, NodeEvent, ConfigEvent
    <2>4. ASSUME NEW x \in Namespaces, HandleNamespaceEvent(x) PROVE Woken(n)'
      <3>1. EnqueueAll(NodesHoldingPodsIn(x)) /\ NodesHoldingPodsIn(x) \in SUBSET Nodes
        BY <2>4 DEF HandleNamespaceEvent, NodesHoldingPodsIn
      <3>2. queue[n] # Absent => queue'[n] # Absent
        BY <3>1, <2>0
      <3>3. UNCHANGED nodes /\ events' = events \ {NamespaceEvent(x)}
        BY <2>4 DEF HandleNamespaceEvent
      <3> QED  BY <3>2, <3>3 DEF PodEvent, NodeEvent, ConfigEvent, NamespaceEvent
    <2> QED  BY <1>3, <2>1, <2>2, <2>3, <2>4 DEF Handle
  <1>4. ASSUME NEW m \in Nodes, Start(m) PROVE Woken(n)'
    BY <1>4 DEF Start, StartUnsynced, StartForgets, StartPass, TypeOK
  <1>5. CASE Continue
    <2>1. queue[n] # Absent => queue'[n] # Absent
      <3>1. CASE ReadFails \/ EndPass
        BY <3>1, ReadFailsRequeues, EndPassRequeues, RequeueWakes DEF ReadFails, EndPass
      <3>2. CASE ~ReadFails /\ ~EndPass
        BY <1>5, <3>2 DEF Continue, ListPods, BuildInputs, Annotate, OutOfTokens, ResizeApplied,
           ResizeNotFound, ResizeConflict, ResizeForbidden, ResizeFails
      <3> QED  BY <3>1, <3>2
    <2>2. UNCHANGED <<nodes, events>>
      BY <1>5 DEF Continue, ListPods, BuildInputs, ReadFails, Annotate, OutOfTokens, ResizeApplied,
         ResizeNotFound, ResizeConflict, ResizeForbidden, ResizeFails, EndPass
    <2> QED  BY <2>1, <2>2
  <1>6. CASE Tick
    <2>1. queue[n] # Absent => queue'[n] # Absent
      <3>1. queue'[n] = TickedQueue[n]
        BY <1>6 DEF Tick
      <3> QED  BY <3>1, <1>0 DEF TickedQueue
    <2> QED  BY <1>6, <2>1 DEF Tick
  <1> QED  BY <1>1, <1>2, <1>3, <1>4, <1>5, <1>6 DEF Next, System

\* A delivered version of a pod that wakes nobody is, to a pass, the old one.
LEMMA DeliveryWakes ==
    ASSUME TypeOK, OwedCovers, NothingUnseen, NEW p \in Pods, DeliverPod(p) \/ RelistPod(p),
           apiPods[p] # Absent, apiPods[p].node # Absent,
           PodEvent(apiPods[p].node) \notin events'
    PROVE  /\ pods[p] # Absent
           /\ ~PodUpdateRelevant(pods[p], apiPods[p])
           /\ pods[p].spec.resizable = apiPods[p].spec.resizable
  <1>1. apiPods[p].node \notin PodEventNodes(pods[p], apiPods[p])
    BY DEF DeliverPod, RelistPod
  <1>2. pods[p] # Absent /\ ~PodUpdateRelevant(pods[p], apiPods[p])
    BY <1>1 DEF PodEventNodes
  <1>3. pods[p].spec.resizable = apiPods[p].spec.resizable
    <2>1. CASE DeliverPod(p)
      <3>1. apiPods[p].node \notin owed[p]
        BY <2>1 DEF DeliverPod
      <3> QED  BY <3>1, <1>2 DEF OwedCovers, BornAlike
    <2>2. CASE RelistPod(p)
      <3>1. \A s, t \in PodSpecs : s.resizable = t.resizable
        BY <2>2 DEF RelistPod, Fault, NothingUnseen
      <3>2. pods[p].spec \in PodSpecs /\ apiPods[p].spec \in PodSpecs
        BY <1>2 DEF TypeOK, Pod
      <3> QED  BY <3>1, <3>2
    <2> QED  BY <2>1, <2>2
  <1> QED  BY <1>2, <1>3

\* Nothing becomes a candidate, and no candidate changes node or owner, without
\* waking its node.
LEMMA CandidateKept ==
    ASSUME TypeOK, OwedCovers, NothingUnseen, [Next]_vars, ~Restart, NEW p \in Pods,
           CandidateNow(p)', ~Woken(pods[p].node)'
    PROVE  /\ CandidateNow(p)
           /\ pods'[p].node = pods[p].node
           /\ pods'[p].spec.owner = pods[p].spec.owner
  <1>1. CASE UNCHANGED <<pods, nodes, config>>
    BY <1>1 DEF CandidateNow, ResolvedConfig
  <1>2. ASSUME NEW q \in Pods, DeliverPod(q) \/ RelistPod(q)
        PROVE  /\ CandidateNow(p)
               /\ pods'[p].node = pods[p].node
               /\ pods'[p].spec.owner = pods[p].spec.owner
    <2>0. UNCHANGED <<nodes, config>> /\ pods' = [pods EXCEPT ![q] = apiPods[q]]
      BY <1>2 DEF DeliverPod, RelistPod
    <2>1. CASE q # p
      <3>1. pods'[p] = pods[p]
        BY <2>0, <2>1 DEF TypeOK
      <3> QED  BY <2>0, <3>1 DEF CandidateNow, ResolvedConfig
    <2>2. CASE q = p
      <3>1. pods'[p] = apiPods[p]
        BY <2>0, <2>2 DEF TypeOK
      <3>2. apiPods[p] # Absent /\ apiPods[p].node # Absent
        BY <3>1 DEF CandidateNow
      <3>3. PodEvent(apiPods[p].node) \notin events'
        BY <3>1 DEF Woken
      <3>4. /\ pods[p] # Absent
            /\ ~PodUpdateRelevant(pods[p], apiPods[p])
            /\ pods[p].spec.resizable = apiPods[p].spec.resizable
        BY <1>2, <2>2, <3>2, <3>3, DeliveryWakes
      <3>5. /\ pods[p].node = apiPods[p].node
            /\ pods[p].terminal = apiPods[p].terminal
            /\ pods[p].spec.optOut = apiPods[p].spec.optOut
            /\ pods[p].spec.owner = apiPods[p].spec.owner
            /\ pods[p].spec.request = apiPods[p].spec.request
        BY <3>4 DEF PodUpdateRelevant
      <3> QED
        BY <2>0, <3>1, <3>4, <3>5 DEF CandidateNow, ResolvedConfig, Eligible, OwnerExcluded
    <2> QED  BY <2>1, <2>2
  <1>3. ASSUME NEW n \in Nodes, DeliverNode(n)
        PROVE  /\ CandidateNow(p)
               /\ pods'[p].node = pods[p].node
               /\ pods'[p].spec.owner = pods[p].spec.owner
    <2>0. UNCHANGED <<pods, config>> /\ nodes' = [nodes EXCEPT ![n] = apiNodes[n]]
      BY <1>3 DEF DeliverNode
    <2>1. CASE n # pods[p].node
      <3>1. nodes'[pods[p].node] = nodes[pods[p].node]
        BY <2>0, <2>1 DEF TypeOK
      <3> QED  BY <2>0, <3>1 DEF CandidateNow, ResolvedConfig
    <2>2. CASE n = pods[p].node
      <3>1. NodeEvent(n) \notin events'
        BY <2>0, <2>2 DEF Woken
      <3>2. ~NodeUpdateRelevant(nodes[n], apiNodes[n]) /\ ~Replaced(nodes[n], apiNodes[n])
        BY <1>3, <3>1 DEF DeliverNode
      <3>3. /\ nodes[n] # Absent
            /\ nodes[n].labels = apiNodes[n].labels
            /\ nodes[n].windows = apiNodes[n].windows
        BY <3>2 DEF NodeUpdateRelevant, Replaced
      <3>4. nodes'[n] = apiNodes[n]
        BY <2>0 DEF TypeOK
      <3> QED  BY <2>0, <2>2, <3>3, <3>4 DEF CandidateNow, ResolvedConfig, NodeManageable
    <2> QED  BY <2>1, <2>2
  <1>4. CASE DeliverConfig
    <2>1. ConfigEvent \in events' /\ nodes'[pods'[p].node] # Absent
      BY <1>4 DEF DeliverConfig, CandidateNow
    <2> QED  BY <2>1 DEF Woken
  <1>5. CASE Deliver
    BY <1>1, <1>2, <1>3, <1>4, <1>5
       DEF Deliver, DeliverNamespace, PollVPAs, PollFails, Refresh
  <1>6. CASE ~Deliver
    BY <1>1, <1>6 DEF Next, System, Environment, vars, Tick,
       Handle, HandlePodEvent, HandleNodeEvent, HandleConfigEvent, HandleNamespaceEvent,
       Start, StartUnsynced, StartForgets, StartPass, Continue, ListPods, BuildInputs, ReadFails,
       Annotate, OutOfTokens, ResizeApplied, ResizeNotFound, ResizeConflict, ResizeForbidden,
       ResizeFails, EndPass
  <1> QED  BY <1>5, <1>6

\* The two of them: a node nobody woke was not awake, and its candidates are old.
LEMMA Undisturbed ==
    ASSUME TypeOK, OwedCovers, NothingUnseen, [Next]_vars, ~Restart, NEW p \in Pods,
           CandidateNow(p)', ~Woken(pods[p].node)'
    PROVE  Woken(pods[p].node) => StartPass(pods[p].node)
  <1>1. CandidateNow(p) /\ pods'[p].node = pods[p].node
    BY CandidateKept
  <1>2. pods[p].node \in Nodes /\ nodes[pods[p].node] # Absent
    BY <1>1, CandidateNode DEF CandidateNow
  <1>3. ~StartForgets(pods[p].node)
    BY <1>2 DEF StartForgets
  <1> QED  BY <1>1, <1>2, <1>3, WokenStays

LEMMA OwedNext == TypeOK /\ PassSound /\ OwedCovers /\ [Next]_vars => OwedCovers'
  <1> SUFFICES ASSUME TypeOK, PassSound, OwedCovers, [Next]_vars PROVE OwedCovers'
    OBVIOUS
  <1>1. CASE UNCHANGED <<apiPods, pods, owed>>
    BY <1>1 DEF OwedCovers
  <1>2. CASE Environment
    <2>0. UNCHANGED pods
      BY <1>2 DEF Environment
    <2>1. ASSUME NEW p \in Pods, SetPod(p, Absent) PROVE OwedCovers'
      BY <2>0, <2>1 DEF SetPod, OwedCovers, TypeOK
    <2>2. ASSUME NEW p \in Pods, NEW s \in PodSpecs, NEW l \in BirthLimits, CreatePod(p, s, l)
          PROVE  OwedCovers'
      <3>1. apiPods' = [apiPods EXCEPT ![p] = FreshPod(Absent, s, l)]
        BY <2>2 DEF CreatePod, SetPod
      <3>2. \A q \in Pods : owed[q] \subseteq owed'[q]
        BY <2>2 DEF CreatePod, SetPod, TypeOK
      <3> QED  BY <2>0, <3>1, <3>2 DEF FreshPod, OwedCovers, TypeOK
    <2>3. ASSUME NEW p \in Pods, NEW n \in Nodes, BindPod(p, n) PROVE OwedCovers'
      <3>1. /\ apiPods[p] # Absent /\ apiPods[p].node # n
            /\ SetPod(p, [apiPods[p] EXCEPT !.node = n])
        BY <2>3, AbsentAssumption DEF BindPod
      <3> DEFINE pod == [apiPods[p] EXCEPT !.node = n]
      <3>2. pod.node = n /\ pod \in Pod
        BY <3>1 DEF TypeOK, Pod
      <3> HIDE DEF pod
      <3>3. n \in PodEventNodes(apiPods[p], pod)
        BY <3>1, <3>2, AbsentAssumption DEF PodEventNodes, PodUpdateRelevant
      <3>4. /\ apiPods' = [apiPods EXCEPT ![p] = pod]
            /\ owed' = [owed EXCEPT ![p] = @ \cup PodEventNodes(apiPods[p], pod)]
        BY <3>1 DEF SetPod, pod
      <3>5. n \in owed'[p] /\ apiPods'[p].node = n
        BY <3>2, <3>3, <3>4 DEF TypeOK
      <3>6. \A q \in Pods \ {p} : apiPods'[q] = apiPods[q] /\ owed'[q] = owed[q]
        BY <3>4 DEF TypeOK
      <3> QED  BY <2>0, <3>5, <3>6 DEF OwedCovers
    <2>4. ASSUME NEW p \in Pods, NEW pod \in Pod, SetPod(p, pod), apiPods[p] # Absent,
                 pod.node = apiPods[p].node, BornAlike(pod.spec, apiPods[p].spec)
          PROVE  OwedCovers'
      <3>1. apiPods'[p] = pod /\ \A q \in Pods \ {p} : apiPods'[q] = apiPods[q]
        BY <2>4 DEF SetPod, TypeOK
      <3>2. \A q \in Pods : owed[q] \subseteq owed'[q]
        BY <2>4 DEF SetPod, TypeOK
      <3> QED  BY <2>0, <2>4, <3>1, <3>2 DEF OwedCovers, BornAlike
    <2>5. ASSUME NEW p \in Pods, apiPods[p] # Absent PROVE apiPods[p] \in Pod
      BY <2>5 DEF TypeOK
    <2>6. ASSUME NEW p \in Pods, FinishPod(p) PROVE OwedCovers'
      <3> DEFINE pod == [apiPods[p] EXCEPT !.terminal = TRUE]
      <3>1. pod \in Pod /\ pod.node = apiPods[p].node /\ pod.spec = apiPods[p].spec
        BY <2>5, <2>6 DEF FinishPod, Running, Pod
      <3>2. SetPod(p, pod) /\ apiPods[p] # Absent
        BY <2>6 DEF FinishPod, Running
      <3> HIDE DEF pod
      <3> QED  BY <3>1, <3>2, <2>4 DEF BornAlike
    <2>7. ASSUME NEW p \in Pods, NEW s \in PodSpecs, ChangePod(p, s) PROVE OwedCovers'
      <3> DEFINE pod == [apiPods[p] EXCEPT !.spec = s]
      <3>1. pod \in Pod /\ pod.node = apiPods[p].node /\ pod.spec = s
        BY <2>5, <2>7 DEF ChangePod, Running, Pod
      <3>2. SetPod(p, pod) /\ apiPods[p] # Absent /\ BornAlike(s, apiPods[p].spec)
        BY <2>7 DEF ChangePod, Running, BornAlike
      <3> HIDE DEF pod
      <3> QED  BY <3>1, <3>2, <2>4 DEF BornAlike
    <2>8. ASSUME NEW p \in Pods, NEW r \in ResizeStates \cup {"none"}, KubeletReports(p, r)
          PROVE  OwedCovers'
      <3> DEFINE pod == [apiPods[p] EXCEPT !.resize = r]
      <3>1. pod \in Pod /\ pod.node = apiPods[p].node /\ pod.spec = apiPods[p].spec
        BY <2>5, <2>8 DEF KubeletReports, Running, Pod
      <3>2. SetPod(p, pod) /\ apiPods[p] # Absent
        BY <2>8 DEF KubeletReports, Running
      <3> HIDE DEF pod
      <3> QED  BY <3>1, <3>2, <2>4 DEF BornAlike
    <2>9. ASSUME NEW p \in Pods, NEW l \in Limits, EditLimit(p, l) PROVE OwedCovers'
      <3> DEFINE pod == [apiPods[p] EXCEPT !.limit = l]
      <3>1. pod \in Pod /\ pod.node = apiPods[p].node /\ pod.spec = apiPods[p].spec
        BY <2>5, <2>9 DEF EditLimit, Running, Pod
      <3>2. SetPod(p, pod) /\ apiPods[p] # Absent
        BY <2>9 DEF EditLimit, Running
      <3> HIDE DEF pod
      <3> QED  BY <3>1, <3>2, <2>4 DEF BornAlike
    <2> QED
      BY <1>1, <1>2, <2>0, <2>1, <2>2, <2>3, <2>6, <2>7, <2>8, <2>9
         DEF Environment, DeletePod, SetNode, SetConfig, SetNamespace, SetVPAs
  <1>3. ASSUME NEW p \in Pods, DeliverPod(p) \/ RelistPod(p) PROVE OwedCovers'
    BY <1>3 DEF DeliverPod, RelistPod, OwedCovers, BornAlike, TypeOK
  <1>4. ASSUME UNCHANGED <<pods, owed>>, NEW p \in Pods, NEW pod \in Pod, apiPods[p] # Absent,
               apiPods' = [apiPods EXCEPT ![p] = pod],
               pod.node = apiPods[p].node, pod.spec = apiPods[p].spec
        PROVE  OwedCovers'
    <2>1. apiPods'[p] = pod /\ \A q \in Pods \ {p} : apiPods'[q] = apiPods[q]
      BY <1>4 DEF TypeOK
    <2> QED  BY <1>4, <2>1 DEF OwedCovers
  <1>5. ASSUME NEW p \in Pods, Annotate(p) PROVE OwedCovers'
    <2>0. UNCHANGED <<pods, owed>>
      BY <1>5 DEF Annotate
    <2>1. CASE UNCHANGED apiPods
      BY <1>1, <2>0, <2>1
    <2>2. ASSUME apiPods[p] # Absent, NEW desired \in Status,
                 apiPods' = [apiPods EXCEPT ![p].status = desired]
          PROVE  OwedCovers'
      <3> DEFINE pod == [apiPods[p] EXCEPT !.status = desired]
      <3>0. apiPods[p] \in Pod
        BY <2>2 DEF TypeOK
      <3>1. pod \in Pod /\ pod.node = apiPods[p].node /\ pod.spec = apiPods[p].spec
        BY <3>0 DEF Pod
      <3>2. apiPods' = [apiPods EXCEPT ![p] = pod]
        BY <2>2 DEF TypeOK
      <3> HIDE DEF pod
      <3> QED  BY <1>4, <2>0, <2>2, <3>1, <3>2
    <2> DEFINE desired == [target |-> pass.decisions[p].target, dryRun |-> pass.cfg.dryRun]
    <2>3. desired \in Status
      BY <1>5, TypePass, ParameterAssumption DEF Annotate, Status, Decision, Pass
    <2> QED  BY <1>5, <2>1, <2>2, <2>3 DEF Annotate
  <1>6. CASE ResizeApplied
    <2>0. UNCHANGED <<pods, owed>>
      BY <1>6 DEF ResizeApplied
    <2>1. PICK p \in Pods, l \in Limits :
            /\ apiPods[p] # Absent /\ apiPods[p] \in Pod
            /\ apiPods' = [apiPods EXCEPT ![p].limit = l]
      BY <1>6, PatchedPod
    <2> DEFINE pod == [apiPods[p] EXCEPT !.limit = l]
    <2>2. pod \in Pod /\ pod.node = apiPods[p].node /\ pod.spec = apiPods[p].spec
      BY <2>1 DEF Pod
    <2>3. apiPods' = [apiPods EXCEPT ![p] = pod]
      BY <2>1 DEF TypeOK
    <2> HIDE DEF pod
    <2> QED  BY <1>4, <2>0, <2>1, <2>2, <2>3
  <1>7. CASE Restart
    BY <1>7 DEF Restart, OwedCovers, BornAlike, TypeOK
  <1> QED
    BY <1>1, <1>2, <1>3, <1>5, <1>6, <1>7 DEF Next, System, vars, Tick,
       Deliver, DeliverNode, DeliverConfig, DeliverNamespace, PollVPAs, PollFails, Refresh,
       Handle, HandlePodEvent, HandleNodeEvent, HandleConfigEvent, HandleNamespaceEvent,
       Start, StartUnsynced, StartForgets, StartPass, Continue, ListPods, BuildInputs, ReadFails,
       OutOfTokens, ResizeNotFound, ResizeConflict, ResizeForbidden, ResizeFails, EndPass

\* Every step but a restart leaves pass and backoff alone, starts or continues a
\* pass, or is a tick.
LEMMA StepKinds ==
    ASSUME [Next]_vars, ~Restart
    PROVE  \/ UNCHANGED <<pass, backoff>>
           \/ \E n \in Nodes : StartPass(n)
           \/ Continue
           \/ Tick
  BY DEF Next, System, vars, Environment,
     Deliver, DeliverPod, RelistPod, DeliverNode, DeliverConfig, DeliverNamespace, PollVPAs,
     PollFails, Refresh, Handle, HandlePodEvent, HandleNodeEvent, HandleConfigEvent,
     HandleNamespaceEvent, Start, StartUnsynced, StartForgets

\* What every step of the worker leaves alone.
LEMMA ContinueFrame ==
    ASSUME TypeOK, PassSound, Continue
    PROVE  /\ ~Idle /\ pass \in Pass
           /\ UNCHANGED <<pods, nodes, config, events>>
           /\ ~ReadFails /\ ~EndPass => /\ pass' # Absent
                                        /\ pass'.node = pass.node
                                        /\ pass'.elapsed = pass.elapsed
  <1>0. ~Idle /\ pass \in Pass
    BY TypePass DEF Continue, ListPods, BuildInputs, ReadFails, Annotate, OutOfTokens,
       ResizeApplied, ResizeNotFound, ResizeConflict, ResizeForbidden, ResizeFails,
       ResizeOutcome, EndPass
  <1>1. UNCHANGED <<pods, nodes, config, events>>
    BY DEF Continue, ListPods, BuildInputs, ReadFails, Annotate, OutOfTokens, ResizeApplied,
       ResizeNotFound, ResizeConflict, ResizeForbidden, ResizeFails, EndPass
  <1>2. ASSUME ~ReadFails, ~EndPass
        PROVE  pass' # Absent /\ pass'.node = pass.node /\ pass'.elapsed = pass.elapsed
    <2>1. pass' \in Pass
      BY <1>2, TypeListPods, TypeBuildInputs, TypeAnnotate, TypeOutOfTokens, TypeResize
         DEF Continue
    <2>2. pass'.node = pass.node /\ pass'.elapsed = pass.elapsed
      <3>1. CASE ListPods \/ BuildInputs \/ OutOfTokens
        BY <1>0, <3>1 DEF ListPods, BuildInputs, OutOfTokens, Pass
      <3>2. ASSUME NEW p \in Pods, Annotate(p)
            PROVE  pass'.node = pass.node /\ pass'.elapsed = pass.elapsed
        BY <1>0, <3>2 DEF Annotate, Pass
      <3>3. ASSUME NEW outcome, ResizeOutcome(outcome)
            PROVE  pass'.node = pass.node /\ pass'.elapsed = pass.elapsed
        BY <1>0, <3>3 DEF ResizeOutcome, Pass
      <3> QED
        BY <1>2, <3>1, <3>2, <3>3 DEF Continue, ResizeApplied, ResizeNotFound, ResizeConflict,
           ResizeForbidden, ResizeFails
    <2> QED  BY <2>1, <2>2, PassAssumption
  <1> QED  BY <1>0, <1>1, <1>2

\* The same for a tick.
LEMMA TickFrame ==
    ASSUME TypeOK, Tick, ~Idle
    PROVE  /\ pass' # Absent
           /\ pass'.node = pass.node /\ pass'.step = pass.step /\ pass'.list = pass.list
           /\ pass'.spec = pass.spec /\ pass'.cfg = pass.cfg
           /\ pass'.elapsed = IF Judging THEN pass.elapsed + 1 ELSE pass.elapsed
           /\ UNCHANGED <<pods, nodes, config, events>>
  <1>1. pass \in Pass
    BY TypePass
  <1>2. pass' \in Pass
    BY <1>1 DEF Tick, Pass
  <1> QED  BY <1>1, <1>2, PassAssumption DEF Tick, Pass

LEMMA StartFrame ==
    ASSUME TypeOK, NEW n \in Nodes, StartPass(n)
    PROVE  /\ Idle /\ pass' # Absent
           /\ pass'.node = n /\ pass'.step = "list" /\ pass'.list = NoList
           /\ pass'.spec = nodes[n] /\ pass'.cfg = ResolvedConfig
           /\ UNCHANGED <<pods, nodes, config, events, backoff>>
  <1>1. pass' \in Pass
    <2>1. ResolvedConfig \in Configs \cup {DefaultConfig}
      BY DEF TypeOK, ResolvedConfig
    <2> QED  BY <2>1 DEF StartPass, Pass, Steps, NoList, TypeOK
  <1> QED  BY <1>1, PassAssumption DEF StartPass

\* Whoever the worker gives an entry to was on its list.
LEMMA NewEntryListed ==
    ASSUME TypeOK, PassSound, Continue, NEW p \in Pods, backoff[p] = Absent, backoff'[p] # Absent
    PROVE  pass.list[p] # Absent
  <1>1. ASSUME NEW judged, backoff' = BackoffAfter(judged) PROVE pass.list[p] # Absent
    BY <1>1 DEF BackoffAfter, NewlyInfeasible, Enrolled, Candidate
  <1>2. CASE ResizeForbidden
    <2>1. pass.current \in Pods /\ pass.list[pass.current] # Absent
      BY <1>2, CurrentSound, AbsentAssumption DEF ResizeForbidden, ResizeOutcome
    <2>2. p = pass.current
      BY <1>2 DEF ResizeForbidden, TypeOK
    <2> QED  BY <2>1, <2>2
  <1>3. CASE UNCHANGED backoff
    BY <1>3
  <1> QED
    BY <1>1, <1>2, <1>3 DEF Continue, ListPods, BuildInputs, ReadFails, Annotate, OutOfTokens,
       ResizeApplied, ResizeNotFound, ResizeConflict, ResizeFails, EndPass

\* Only the list step changes which pods a pass holds.
LEMMA ListKept ==
    ASSUME TypeOK, PassSound, Continue, ~ListPods, ~ReadFails, ~EndPass, NEW p \in Pods
    PROVE  pass'.list[p] # Absent <=> pass.list[p] # Absent
  <1>0. pass \in Pass /\ ~Idle
    BY ContinueFrame
  <1>1. CASE BuildInputs \/ OutOfTokens
    BY <1>0, <1>1 DEF BuildInputs, OutOfTokens, Pass
  <1>2. ASSUME NEW outcome, ResizeOutcome(outcome)
        PROVE  pass'.list[p] # Absent <=> pass.list[p] # Absent
    BY <1>0, <1>2 DEF ResizeOutcome, Pass
  <1>3. ASSUME NEW q \in Pods, Annotate(q)
        PROVE  pass'.list[p] # Absent <=> pass.list[p] # Absent
    <2>1. PICK obj \in Pod : pass'.list = [pass.list EXCEPT ![q] = obj]
      BY <1>0, <1>3, AnnotateObject DEF Pass
    <2>2. pass.list[q] # Absent
      BY <1>0, <1>3 DEF Annotate, PassSound, Idle
    <2> QED  BY <1>0, <2>1, <2>2, AbsentAssumption DEF Pass
  <1> QED
    BY <1>1, <1>2, <1>3 DEF Continue, ResizeApplied, ResizeNotFound, ResizeConflict,
       ResizeForbidden, ResizeFails

LEMMA StepsOnPods ==
    ASSUME [Next]_vars, ~Restart
    PROVE  UNCHANGED pods \/ \E p \in Pods : DeliverPod(p) \/ RelistPod(p)
  BY DEF Next, System, vars, Environment, Tick,
     Deliver, DeliverNode, DeliverConfig, DeliverNamespace, PollVPAs, PollFails, Refresh,
     Handle, HandlePodEvent, HandleNodeEvent, HandleConfigEvent, HandleNamespaceEvent,
     Start, StartUnsynced, StartForgets, StartPass, Continue, ListPods, BuildInputs, ReadFails,
     Annotate, OutOfTokens, ResizeApplied, ResizeNotFound, ResizeConflict, ResizeForbidden,
     ResizeFails, EndPass

LEMMA EntryNext == NothingUnseen /\ WakeInv /\ [Next]_vars => EntryWoken'
  <1> SUFFICES ASSUME NothingUnseen, WakeInv, [Next]_vars, NEW p \in Pods,
                      backoff'[p] # Absent, CandidateNow(p)',
                      pass' = Absent \/ pass'.node # pods'[p].node,
                      ~Woken(pods[p].node)'
               PROVE  FALSE
    BY DEF EntryWoken
  <1> USE DEF WakeInv
  <1>1. ~Restart
    <2> SUFFICES ASSUME Restart PROVE FALSE
      OBVIOUS
    <2> QED  BY DEF Restart, NoBackoff
  <1> DEFINE m == pods[p].node
  <1>2. CandidateNow(p) /\ pods'[p].node = m /\ m \in Nodes
    BY <1>1, CandidateKept, CandidateNode
  <1>3. Woken(m) => StartPass(m)
    BY <1>1, Undisturbed
  <1>4. Woken(m) => StartPass(m) /\ Idle /\ pass' # Absent /\ pass'.node = m
    BY <1>2, <1>3, StartFrame
  <1>5. ~Woken(m)
    BY <1>2, <1>4
  <1>6. backoff[p] # Absent => ~Idle /\ pass.node = m
    BY <1>2, <1>5 DEF EntryWoken, Idle
  <1>7. ~\E n \in Nodes : StartPass(n)
    <2> SUFFICES ASSUME NEW n \in Nodes, StartPass(n) PROVE FALSE
      OBVIOUS
    <2>1. Idle /\ UNCHANGED backoff
      BY StartFrame
    <2> QED  BY <1>6, <2>1
  <1>8. ~UNCHANGED <<pass, backoff>>
    BY <1>2, <1>6 DEF Idle
  <1>9. ~Tick
    <2> SUFFICES ASSUME Tick PROVE FALSE
      OBVIOUS
    <2>1. backoff[p] # Absent
      BY DEF Tick, TickedBackoff
    <2> QED  BY <1>2, <1>6, <2>1, TickFrame
  <1>10. Continue
    BY <1>1, <1>7, <1>8, <1>9, StepKinds
  <1>11. ~Idle /\ pass.node = m
    <2>1. CASE backoff[p] = Absent
      <3>1. pass.list[p] # Absent /\ ~Idle
        BY <1>10, <2>1, NewEntryListed, ContinueFrame
      <3> QED  BY <1>2, <1>5, <3>1 DEF MovedWoken, Idle, CandidateNow
    <2> QED  BY <1>6, <2>1
  <1>12. ReadFails \/ EndPass
    BY <1>2, <1>10, <1>11, ContinueFrame
  <1>13. queue'[m] = Absent
    BY <1>2 DEF Woken
  <1>14. ~\E delays \in SUBSET Nat : Requeue(delays)
    BY <1>11, <1>13, RequeueWakes
  <1>15. EndPass /\ WindowsAtJudgedAt = {}
    BY <1>12, <1>14, ReadFailsRequeues, EndPassRequeues
  <1>16. backoff[p] # Absent /\ pass.step = "apply"
    BY <1>15 DEF EndPass
  <1>17. p \in WindowsAtJudgedAt
    BY <1>2, <1>5, <1>11, <1>16 DEF PassAware, Idle
  <1> QED  BY <1>15, <1>17

LEMMA MovedNext == NothingUnseen /\ WakeInv /\ [Next]_vars => MovedWoken'
  <1> SUFFICES ASSUME NothingUnseen, WakeInv, [Next]_vars, NEW p \in Pods,
                      pass' # Absent, pass'.list[p] # Absent, pods'[p] # Absent,
                      pods'[p].node # Absent, pods'[p].node # pass'.node
               PROVE  Woken(pods[p].node)'
    BY DEF MovedWoken
  <1> USE DEF WakeInv
  <1>1. ~Restart
    BY DEF Restart
  <1>2. ~\E n \in Nodes : StartPass(n)
    <2> SUFFICES ASSUME NEW n \in Nodes, StartPass(n) PROVE FALSE
      OBVIOUS
    <2> QED  BY StartFrame DEF NoList
  <1>3. ~ListPods
    <2> SUFFICES ASSUME ListPods PROVE FALSE
      OBVIOUS
    <2>1. pass \in Pass /\ UNCHANGED pods
      BY TypePass DEF ListPods
    <2>2. OnNode(pods[p], pass.node) /\ pass'.node = pass.node
      BY <2>1 DEF ListPods, Pass
    <2> QED  BY <2>1, <2>2 DEF OnNode
  <1>4. ~Idle /\ pass'.node = pass.node /\ pass.list[p] # Absent
    <2>1. CASE UNCHANGED <<pass, backoff>>
      BY <2>1 DEF Idle
    <2>2. CASE Continue
      <3>1. ~ReadFails /\ ~EndPass
        BY DEF ReadFails, EndPass, Requeue, BackoffRequeue
      <3> QED  BY <1>3, <2>2, <3>1, ContinueFrame, ListKept
    <2>3. CASE Tick
      <3>1. ~Idle
        BY <2>3 DEF Tick, Judging, Idle
      <3> QED  BY <2>3, <3>1, TickFrame
    <2> QED  BY <1>1, <1>2, <2>1, <2>2, <2>3, StepKinds
  <1> DEFINE m == pods[p].node
  <1>5. CASE pods[p] # Absent /\ pods'[p].node = m
    <2>1. m \in Nodes /\ Woken(m)
      BY <1>4, <1>5 DEF MovedWoken, Idle, TypeOK, Pod
    <2>2. ~StartPass(m) /\ ~StartForgets(m)
      BY <1>4 DEF StartPass, StartForgets
    <2> QED  BY <1>1, <1>5, <2>1, <2>2, WokenStays
  <1>6. CASE DeliverPod(p) \/ RelistPod(p)
    <2>1. pods'[p] = apiPods[p]
      BY <1>6 DEF DeliverPod, RelistPod, TypeOK
    <2>2. CASE PodEvent(apiPods[p].node) \in events'
      BY <2>1, <2>2 DEF Woken
    <2>3. CASE PodEvent(apiPods[p].node) \notin events'
      <3>1. pods[p] # Absent /\ ~PodUpdateRelevant(pods[p], apiPods[p])
        BY <1>6, <2>1, <2>3, DeliveryWakes
      <3> QED  BY <1>5, <2>1, <3>1 DEF PodUpdateRelevant
    <2> QED  BY <2>2, <2>3
  <1>7. CASE pods'[p] = pods[p]
    BY <1>5, <1>7
  <1>8. ASSUME NEW q \in Pods, q # p, DeliverPod(q) \/ RelistPod(q) PROVE pods'[p] = pods[p]
    BY <1>8 DEF DeliverPod, RelistPod, TypeOK
  <1>9. UNCHANGED pods \/ \E q \in Pods : DeliverPod(q) \/ RelistPod(q)
    BY <1>1, StepsOnPods
  <1> QED  BY <1>6, <1>7, <1>8, <1>9

LEMMA AwareNext == NothingUnseen /\ WakeInv /\ [Next]_vars => PassAware'
  <1> SUFFICES ASSUME NothingUnseen, WakeInv, [Next]_vars, NEW p \in Pods,
                      pass' # Absent, CandidateNow(p)', pods'[p].node = pass'.node,
                      ~Woken(pods[p].node)'
               PROVE  ( /\ pass.step = "list" => /\ NodeManageable(pass.spec, pass.cfg)
                                                /\ ~OwnerExcluded(pods[p], pass.cfg)
                        /\ pass.step = "build" => Candidate(p)
                        /\ pass.step = "apply" =>
                              (backoff[p] # Absent => p \in WindowsAtJudgedAt) )'
    BY DEF PassAware
  <1> USE DEF WakeInv
  <1>1. ~Restart
    BY DEF Restart
  <1> DEFINE n == pods[p].node
  <1>2. /\ CandidateNow(p) /\ n \in Nodes /\ nodes[n] \in NodeSpecs /\ pods[p] \in Pod
        /\ pass'.node = n /\ pods'[p].spec.owner = pods[p].spec.owner
    BY <1>1, CandidateKept, CandidateNode
  <1>3. ASSUME NEW k \in Nodes, StartPass(k)
        PROVE  /\ pass'.step = "list"
               /\ NodeManageable(pass'.spec, pass'.cfg) /\ ~OwnerExcluded(pods'[p], pass'.cfg)
    BY <1>2, <1>3, StartFrame DEF CandidateNow, OwnerExcluded
  <1>4. CASE \E k \in Nodes : StartPass(k)
    BY <1>3, <1>4
  <1> SUFFICES ASSUME ~\E k \in Nodes : StartPass(k) PROVE
               ( /\ pass.step = "list" => /\ NodeManageable(pass.spec, pass.cfg)
                                         /\ ~OwnerExcluded(pods[p], pass.cfg)
                 /\ pass.step = "build" => Candidate(p)
                 /\ pass.step = "apply" =>
                       (backoff[p] # Absent => p \in WindowsAtJudgedAt) )'
    BY <1>4
  <1>5. ~Woken(n)
    BY <1>1, <1>2, Undisturbed
  <1>6. CASE UNCHANGED <<pass, backoff>>
    <2>1. /\ pass.step = "list" => /\ NodeManageable(pass.spec, pass.cfg)
                                   /\ ~OwnerExcluded(pods[p], pass.cfg)
          /\ pass.step = "build" => Candidate(p)
          /\ pass.step = "apply" => (backoff[p] # Absent => p \in WindowsAtJudgedAt)
      BY <1>2, <1>5, <1>6 DEF PassAware
    <2>2. Candidate(p)' <=> Candidate(p)
      BY <1>6 DEF Candidate
    <2>3. WindowsAtJudgedAt' = WindowsAtJudgedAt
      BY <1>6 DEF WindowsAtJudgedAt
    <2> QED  BY <1>2, <1>6, <2>1, <2>2, <2>3 DEF OwnerExcluded
  <1>7. CASE Tick
    <2>0. ~Idle
      BY <1>7 DEF Tick, Judging, Idle
    <2>1. /\ pass.step = "list" => /\ NodeManageable(pass.spec, pass.cfg)
                                   /\ ~OwnerExcluded(pods[p], pass.cfg)
          /\ pass.step = "build" => Candidate(p)
          /\ pass.step = "apply" => (backoff[p] # Absent => p \in WindowsAtJudgedAt)
      BY <1>2, <1>5, <1>7, <2>0, TickFrame DEF PassAware, Idle
    <2>2. Candidate(p)' <=> Candidate(p)
      BY <1>7, <2>0, TickFrame DEF Candidate
    <2>3. ASSUME pass'.step = "apply", backoff'[p] # Absent PROVE p \in WindowsAtJudgedAt'
      <3>1. backoff[p] # Absent /\ backoff'[p] = TickedBackoff[p]
        BY <1>7, <2>3 DEF Tick, TickedBackoff
      <3>2. p \in WindowsAtJudgedAt
        BY <1>7, <2>0, <2>1, <2>3, <3>1, TickFrame
      <3>3. backoff[p] \in Int /\ pass.elapsed \in Nat /\ backoff[p] + pass.elapsed >= 0
        BY <2>0, <3>1, <3>2, TypePass, ParameterAssumption
           DEF WindowsAtJudgedAt, TypeOK, LongEnded, Pass
      <3>4. Judging
        BY <1>7, <2>0, <2>3, TickFrame DEF Judging
      <3>5. pass.elapsed < MaxPassTicks
        BY <1>7, <3>4 DEF Tick
      <3>6. backoff'[p] = backoff[p] - 1
        BY <3>1, <3>3, <3>5, ParameterAssumption DEF TickedBackoff, LongEnded
      <3>7. pass'.elapsed = pass.elapsed + 1 /\ pass'.list[p] # Absent
        BY <1>7, <2>0, <3>2, <3>4, TickFrame DEF WindowsAtJudgedAt
      <3> QED  BY <2>3, <3>3, <3>6, <3>7 DEF WindowsAtJudgedAt
    <2> QED  BY <1>2, <1>7, <2>0, <2>1, <2>2, <2>3, TickFrame DEF OwnerExcluded
  <1>8. CASE Continue
    <2>0. ~ReadFails /\ ~EndPass
      BY DEF ReadFails, EndPass, Requeue, BackoffRequeue
    <2>1. /\ ~Idle /\ pass \in Pass /\ pass.node = n
          /\ UNCHANGED <<pods, nodes, config, events>> /\ pass'.elapsed = pass.elapsed
      BY <1>2, <1>8, <2>0, ContinueFrame
    <2>2. /\ pass.step = "list" => /\ NodeManageable(pass.spec, pass.cfg)
                                   /\ ~OwnerExcluded(pods[p], pass.cfg)
          /\ pass.step = "build" => Candidate(p)
          /\ pass.step = "apply" => (backoff[p] # Absent => p \in WindowsAtJudgedAt)
      BY <1>2, <1>5, <2>1 DEF PassAware, Idle
    <2>3. CASE ListPods
      <3>1. pass.step = "list" /\ Eligible(pods[p]) /\ ~pods[p].terminal /\ OnNode(pods[p], n)
        BY <1>2, <2>3 DEF ListPods, CandidateNow, Eligible, OnNode
      <3>2. /\ pass'.step = "build" /\ pass'.list[p] = pods[p]
            /\ pass'.spec = pass.spec /\ pass'.cfg = pass.cfg
        BY <2>1, <2>3, <3>1 DEF ListPods, Pass
      <3>3. Candidate(p)'
        BY <1>2, <2>2, <3>1, <3>2 DEF Candidate, CandidateNow
      <3> QED  BY <3>2, <3>3
    <2>4. CASE BuildInputs
      <3>1. Candidate(p) /\ pass'.step = "apply" /\ pass'.list[p] # Absent
        BY <2>1, <2>2, <2>4 DEF BuildInputs, Pass, Candidate
      <3>2. ASSUME backoff'[p] # Absent PROVE backoff'[p] \in Nat
        <4>1. backoff'[p] = IF NewlyInfeasible(p) THEN BackoffPeriod
                            ELSE IF ~InBackoff(p) THEN Absent ELSE backoff[p]
          BY <2>4, <3>1 DEF BuildInputs, BackoffAfter
        <4>2. InBackoff(p) => backoff[p] \in Nat
          BY ParameterAssumption DEF InBackoff, TypeOK, LongEnded
        <4> QED  BY <3>2, <4>1, <4>2, ParameterAssumption
      <3>3. backoff'[p] # Absent => p \in WindowsAtJudgedAt'
        <4>1. pass'.elapsed \in Nat
          BY <2>1 DEF Pass
        <4> QED  BY <3>1, <3>2, <4>1 DEF WindowsAtJudgedAt
      <3> QED  BY <3>1, <3>3
    <2>5. CASE ~ListPods /\ ~BuildInputs
      <3>1. pass.step = "apply" /\ pass'.step = "apply"
        <4>1. ASSUME NEW q \in Pods, Annotate(q) PROVE pass.step = "apply" /\ pass'.step = "apply"
          BY <2>1, <4>1 DEF Annotate, Pass
        <4>2. CASE OutOfTokens
          BY <2>1, <4>2, CurrentSound DEF OutOfTokens, Pass
        <4>3. ASSUME NEW outcome, ResizeOutcome(outcome)
              PROVE  pass.step = "apply" /\ pass'.step = "apply"
          BY <2>1, <4>3, CurrentSound DEF ResizeOutcome, Pass
        <4> QED
          BY <1>8, <2>0, <2>5, <4>1, <4>2, <4>3 DEF Continue, ResizeApplied, ResizeNotFound,
             ResizeConflict, ResizeForbidden, ResizeFails
      <3>2. ASSUME backoff'[p] # Absent PROVE p \in WindowsAtJudgedAt'
        <4>1. CASE ResizeForbidden /\ p = pass.current
          <5>1. backoff'[p] = BackoffPeriod
            BY <4>1 DEF ResizeForbidden, TypeOK
          <5>2. pass'.list[p] # Absent
            <6>1. pass.list[p] # Absent
              BY <4>1, CurrentSound, AbsentAssumption DEF ResizeForbidden, ResizeOutcome
            <6> QED  BY <1>8, <2>0, <2>5, <6>1, ListKept
          <5>3. pass'.elapsed \in Nat
            BY <2>1 DEF Pass
          <5> QED  BY <3>2, <5>1, <5>2, <5>3, ParameterAssumption DEF WindowsAtJudgedAt
        <4>2. CASE ~(ResizeForbidden /\ p = pass.current)
          <5>1. backoff'[p] = backoff[p]
            BY <1>8, <2>0, <2>5, <4>2 DEF Continue, Annotate, OutOfTokens, ResizeApplied,
               ResizeNotFound, ResizeConflict, ResizeForbidden, ResizeFails, TypeOK
          <5>2. p \in WindowsAtJudgedAt
            BY <2>2, <3>1, <3>2, <5>1
          <5>3. pass'.list[p] # Absent
            BY <1>8, <2>0, <2>5, <5>2, ListKept DEF WindowsAtJudgedAt
          <5> QED  BY <2>1, <5>1, <5>2, <5>3 DEF WindowsAtJudgedAt
        <4> QED  BY <4>1, <4>2
      <3> QED  BY <3>1, <3>2
    <2> QED  BY <2>3, <2>4, <2>5
  <1> QED  BY <1>1, <1>6, <1>7, <1>8, StepKinds

\* The inductive invariant: no restart can break it either, as it empties the
\* backoff map and leaves no pass.
LEMMA WakeInvariant == ASSUME NothingUnseen PROVE Spec => []WakeInv
  <1>1. Init => WakeInv
    <2> SUFFICES ASSUME Init PROVE WakeInv
      OBVIOUS
    <2>1. TypeOK /\ PassSound
      BY TypeInit DEF Init, PassSound
    <2>2. OwedCovers
      BY DEF Init, OwedCovers, BornAlike
    <2>3. EntryWoken /\ PassAware /\ MovedWoken
      BY DEF Init, EntryWoken, PassAware, MovedWoken, NoBackoff
    <2> QED  BY <2>1, <2>2, <2>3 DEF WakeInv
  <1>2. WakeInv /\ [Next]_vars => WakeInv'
    <2> SUFFICES ASSUME WakeInv, [Next]_vars PROVE WakeInv'
      OBVIOUS
    <2>1. TypeOK' /\ PassSound' /\ OwedCovers'
      BY TypeNext, SoundNext, OwedNext DEF WakeInv
    <2>2. EntryWoken' /\ PassAware' /\ MovedWoken'
      BY EntryNext, AwareNext, MovedNext
    <2> QED  BY <2>1, <2>2 DEF WakeInv
  <1> QED  BY <1>1, <1>2, PTL DEF Spec

\* backoffRequeue, setBackoff, inBackoff, podEventHandler and the workqueue
\* together: for any policy and any number of pods and nodes, a pod with a backoff
\* entry that Headroom would otherwise manage never sits on a node at rest,
\* whatever is delivered, refused, lost or restarted in the middle of a pass.
THEOREM BackoffNeverForgotten ==
    ASSUME NothingUnseen PROVE Spec => []BackoffWakesUp
  <1>1. WakeInv => BackoffWakesUp
    <2> SUFFICES ASSUME WakeInv, NEW p \in Pods, backoff[p] # Absent, CandidateNow(p),
                        AtRest(pods[p].node)
                 PROVE  FALSE
      BY DEF BackoffWakesUp
    <2>1. ~Woken(pods[p].node)
      BY DEF AtRest, Stirs, Woken
    <2> QED  BY <2>1 DEF WakeInv, EntryWoken, AtRest, Idle
  <1> QED  BY <1>1, WakeInvariant, PTL
=============================================================================
