---------------------- MODULE NodeReconcilerRestProofs ----------------------
(***************************************************************************)
(* What a node at rest shows is what a new pass would compute, for every   *)
(* value of the parameters.                                                *)
(*                                                                         *)
(*   SeriesAlwaysFresh, TargetsAlwaysFresh      SeriesFresh, TargetsFresh  *)
(*   LimitsAlwaysSettled, StatusAlwaysSettled   LimitsSettled and          *)
(*                                              StatusSettled              *)
(*                                                                         *)
(* The argument has two halves.  A step after which nothing stirs a node   *)
(* has changed nothing that a pass over it reads (the Quiet lemmas): this  *)
(* is what podUpdateRelevant, nodeUpdateRelevant, the handlers and the     *)
(* poller's announcements owe.  And a pass whose node nothing stirs works  *)
(* on what a pass started now would read (PassFresh), so that what it      *)
(* leaves behind is fresh when it ends without asking to come back.        *)
(***************************************************************************)
EXTENDS NodeReconcilerProofs

USE DEF api, cache, gauges, memory, budget

\* The counterpart of NothingUnseen for what decides the QoS floor of a target.
FloorSeen ==
    \/ "watch" \notin FaultKinds
    \/ \A s, t \in PodSpecs : s.aboveRequest = t.aboveRequest

\* Two versions of a pod between which a pass cannot tell, but for the limit
\* and the annotation, which Reconcile writes itself.
SamePod(a, b) ==
    /\ a # Absent /\ b # Absent
    /\ ~PodUpdateRelevant(a, b)
    /\ a.spec.resizable = b.spec.resizable
    /\ FloorSeen => a.spec.aboveRequest = b.spec.aboveRequest

\* The same for a node.
SameNode(a, b) ==
    a.allocatable = b.allocatable /\ a.labels = b.labels /\ a.windows = b.windows

LEMMA SamePodFields ==
    ASSUME NEW a, NEW b, SamePod(a, b)
    PROVE  /\ a.node = b.node /\ a.terminal = b.terminal
           /\ a.spec.booked = b.spec.booked /\ a.spec.optOut = b.spec.optOut
           /\ a.spec.cap = b.spec.cap /\ a.spec.owner = b.spec.owner
           /\ a.spec.request = b.spec.request /\ a.spec.resizable = b.spec.resizable
           /\ FloorSeen => a.spec.aboveRequest = b.spec.aboveRequest
           /\ a.resize = "Deferred" <=> b.resize = "Deferred"
           /\ a.resize = "Infeasible" <=> b.resize = "Infeasible"
  BY DEF SamePod, PodUpdateRelevant

LEMMA SamePodRefl == ASSUME NEW a, a # Absent PROVE SamePod(a, a)
  BY DEF SamePod, PodUpdateRelevant

LEMMA SamePodTrans ==
    ASSUME NEW a, NEW b, NEW c, SamePod(a, b), SamePod(b, c) PROVE SamePod(a, c)
  BY DEF SamePod, PodUpdateRelevant

\* A node that stirs does so until the worker takes it or the process dies: a pod
\* that leaves while the announcement of its namespace is under way brings an
\* event of its own.
LEMMA StirsStays ==
    ASSUME TypeOK, [Next]_vars, ~Restart, NEW n \in Nodes, Stirs(n),
           ~StartPass(n), ~StartForgets(n)
    PROVE  Stirs(n)'
  <1>1. CASE Woken(n)
    BY <1>1, WokenStays DEF Woken, Stirs
  <1> SUFFICES ASSUME NEW x \in Namespaces, NamespaceEvent(x) \in events, NEW p \in Pods,
                      NamespaceOf[p] = x, pods[p] # Absent, pods[p].node = n
               PROVE  Stirs(n)'
    BY <1>1 DEF Woken, Stirs, NodesHoldingPodsIn
  <1>2. CASE HandleNamespaceEvent(x)
    <2>1. EnqueueAll(NodesHoldingPodsIn(x)) /\ NodesHoldingPodsIn(x) \in SUBSET Nodes
      BY <1>2 DEF HandleNamespaceEvent, NodesHoldingPodsIn
    <2>2. n \in NodesHoldingPodsIn(x)
      BY DEF NodesHoldingPodsIn
    <2>3. queue'[n] # Absent
      BY <2>1, <2>2, EnqueueWakes
    <2> QED  BY <2>3 DEF Stirs
  <1>3. CASE ~HandleNamespaceEvent(x)
    <2>1. NamespaceEvent(x) \in events'
      BY <1>3 DEF Next, System, vars, Environment, Tick,
         Deliver, DeliverPod, RelistPod, DeliverNode, DeliverConfig, DeliverNamespace, PollVPAs,
         PollFails, Refresh, Handle, HandlePodEvent, HandleNodeEvent, HandleConfigEvent,
         HandleNamespaceEvent, PodEvent, NodeEvent, ConfigEvent, NamespaceEvent,
         Start, StartUnsynced, StartForgets, StartPass, Continue, ListPods, BuildInputs,
         ReadFails, Annotate, OutOfTokens, ResizeApplied, ResizeNotFound, ResizeConflict,
         ResizeForbidden, ResizeFails, EndPass
    <2>2. CASE pods'[p] # Absent /\ pods'[p].node = n
      BY <2>1, <2>2 DEF Stirs, NodesHoldingPodsIn
    <2>3. CASE DeliverPod(p) \/ RelistPod(p)
      <3>1. pods'[p] = apiPods[p]
        BY <2>3 DEF DeliverPod, RelistPod, TypeOK
      <3>2. CASE n \in PodEventNodes(pods[p], apiPods[p])
        <4>1. PodEvent(n) \in events'
          BY <2>3, <3>2 DEF DeliverPod, RelistPod
        <4> QED  BY <4>1 DEF Stirs
      <3>3. CASE n \notin PodEventNodes(pods[p], apiPods[p])
        <4>1. apiPods[p] # Absent /\ apiPods[p].node = n
          BY <3>3, AbsentAssumption DEF PodEventNodes, PodUpdateRelevant
        <4> QED  BY <2>2, <3>1, <4>1
      <3> QED  BY <3>2, <3>3
    <2>4. ASSUME NEW q \in Pods, q # p, DeliverPod(q) \/ RelistPod(q) PROVE pods'[p] = pods[p]
      BY <2>4 DEF DeliverPod, RelistPod, TypeOK
    <2> QED  BY <2>2, <2>3, <2>4, StepsOnPods
  <1> QED  BY <1>2, <1>3

\* A step after which nothing stirs n leaves its pods as a pass sees them.
LEMMA QuietPods ==
    ASSUME TypeOK, OwedCovers, NothingUnseen, [Next]_vars, ~Restart, NEW n \in Nodes,
           ~Stirs(n)', NEW p \in Pods, OnNode(pods[p], n) \/ OnNode(pods'[p], n)
    PROVE  SamePod(pods[p], pods'[p])
  <1>1. CASE pods'[p] = pods[p]
    BY <1>1, SamePodRefl DEF OnNode
  <1>2. CASE DeliverPod(p) \/ RelistPod(p)
    <2>1. pods'[p] = apiPods[p]
      BY <1>2 DEF DeliverPod, RelistPod, TypeOK
    <2>2. PodEvent(n) \notin events'
      BY DEF Stirs
    <2>3. n \notin PodEventNodes(pods[p], apiPods[p])
      BY <1>2, <2>2 DEF DeliverPod, RelistPod
    <2>4. /\ pods[p] # Absent /\ apiPods[p] # Absent
          /\ ~PodUpdateRelevant(pods[p], apiPods[p])
          /\ pods[p].node = n /\ apiPods[p].node = n
      BY <2>1, <2>3, AbsentAssumption DEF OnNode, PodEventNodes, PodUpdateRelevant
    <2>5. pods[p].spec.resizable = apiPods[p].spec.resizable
      BY <1>2, <2>2, <2>4, DeliveryWakes, AbsentAssumption
    <2>6. ASSUME FloorSeen PROVE pods[p].spec.aboveRequest = apiPods[p].spec.aboveRequest
      <3>1. CASE DeliverPod(p)
        <4>1. n \notin owed[p]
          BY <2>2, <3>1 DEF DeliverPod
        <4> QED  BY <2>4, <4>1, AbsentAssumption DEF OwedCovers, BornAlike
      <3>2. CASE RelistPod(p)
        <4>1. \A s, t \in PodSpecs : s.aboveRequest = t.aboveRequest
          BY <2>6, <3>2 DEF RelistPod, Fault, FloorSeen
        <4>2. pods[p].spec \in PodSpecs /\ apiPods[p].spec \in PodSpecs
          BY <2>4 DEF TypeOK, Pod
        <4> QED  BY <4>1, <4>2
      <3> QED  BY <1>2, <3>1, <3>2
    <2> QED  BY <2>1, <2>4, <2>5, <2>6 DEF SamePod
  <1>3. ASSUME NEW q \in Pods, q # p, DeliverPod(q) \/ RelistPod(q) PROVE pods'[p] = pods[p]
    BY <1>3 DEF DeliverPod, RelistPod, TypeOK
  <1> QED  BY <1>1, <1>2, <1>3, StepsOnPods

\* Nor does it change the node, if it is still there, or the config.
LEMMA QuietNode ==
    ASSUME TypeOK, [Next]_vars, ~Restart, NEW n \in Nodes, ~Stirs(n)', nodes'[n] # Absent
    PROVE  /\ nodes[n] # Absent /\ SameNode(nodes[n], nodes'[n])
           /\ ResolvedConfig' = ResolvedConfig
  <1>1. CASE UNCHANGED <<nodes, config>>
    BY <1>1 DEF ResolvedConfig, SameNode
  <1>2. ASSUME NEW m \in Nodes, DeliverNode(m)
        PROVE  /\ nodes[n] # Absent /\ SameNode(nodes[n], nodes'[n])
               /\ ResolvedConfig' = ResolvedConfig
    <2>0. UNCHANGED config /\ nodes' = [nodes EXCEPT ![m] = apiNodes[m]]
      BY <1>2 DEF DeliverNode
    <2>1. CASE m # n
      <3>1. nodes'[n] = nodes[n]
        BY <2>0, <2>1 DEF TypeOK
      <3> QED  BY <2>0, <3>1 DEF ResolvedConfig, SameNode
    <2>2. CASE m = n
      <3>1. NodeEvent(n) \notin events'
        BY DEF Stirs
      <3>2. ~NodeUpdateRelevant(nodes[n], apiNodes[n]) /\ ~Replaced(nodes[n], apiNodes[n])
        BY <1>2, <2>2, <3>1 DEF DeliverNode
      <3>3. nodes'[n] = apiNodes[n]
        BY <2>0, <2>2 DEF TypeOK
      <3> QED
        BY <2>0, <3>2, <3>3 DEF NodeUpdateRelevant, Replaced, SameNode, ResolvedConfig
    <2> QED  BY <2>1, <2>2
  <1>3. ~DeliverConfig
    <2> SUFFICES ASSUME DeliverConfig PROVE FALSE
      OBVIOUS
    <2>1. ConfigEvent \in events' /\ nodes'[n] # Absent
      BY DEF DeliverConfig
    <2> QED  BY <2>1 DEF Stirs
  <1> QED
    BY <1>1, <1>2, <1>3 DEF Next, System, vars, Environment, Tick,
       Deliver, DeliverPod, RelistPod, DeliverNamespace, PollVPAs,
       PollFails, Refresh, Handle, HandlePodEvent, HandleNodeEvent, HandleConfigEvent,
       HandleNamespaceEvent, Start, StartUnsynced, StartForgets, StartPass, Continue, ListPods,
       BuildInputs, ReadFails, Annotate, OutOfTokens, ResizeApplied, ResizeNotFound,
       ResizeConflict, ResizeForbidden, ResizeFails, EndPass

\* Nor the namespace of a pod on it, or whether a VPA manages the pod.
LEMMA QuietAround ==
    ASSUME TypeOK, [Next]_vars, ~Restart, NEW n \in Nodes, ~Stirs(n)',
           NEW p \in Pods, OnNode(pods'[p], n)
    PROVE  /\ namespaces'[NamespaceOf[p]] = namespaces[NamespaceOf[p]]
           /\ p \in vpas' <=> p \in vpas
  <1>0. NamespaceOf[p] \in Namespaces
    BY ParameterAssumption
  <1>1. NamespaceEvent(NamespaceOf[p]) \notin events'
    BY <1>0 DEF Stirs, NodesHoldingPodsIn, OnNode
  <1>2. CASE UNCHANGED <<namespaces, vpas>>
    BY <1>2
  <1>3. ASSUME NEW x \in Namespaces, DeliverNamespace(x)
        PROVE  /\ namespaces'[NamespaceOf[p]] = namespaces[NamespaceOf[p]]
               /\ p \in vpas' <=> p \in vpas
    <2>1. x # NamespaceOf[p]
      BY <1>1, <1>3 DEF DeliverNamespace
    <2> QED  BY <1>0, <1>3, <2>1 DEF DeliverNamespace, TypeOK
  <1>4. ASSUME NEW view, Refresh(view)
        PROVE  /\ namespaces'[NamespaceOf[p]] = namespaces[NamespaceOf[p]]
               /\ p \in vpas' <=> p \in vpas
    <2>1. p \notin (vpas \ view) \cup (view \ vpas)
      BY <1>1, <1>4 DEF Refresh
    <2> QED  BY <1>4, <2>1 DEF Refresh
  <1> QED
    BY <1>2, <1>3, <1>4 DEF Next, System, vars, Environment, Tick,
       Deliver, DeliverPod, RelistPod, DeliverNode, DeliverConfig, PollVPAs,
       PollFails, Handle, HandlePodEvent, HandleNodeEvent, HandleConfigEvent,
       HandleNamespaceEvent, Start, StartUnsynced, StartForgets, StartPass, Continue, ListPods,
       BuildInputs, ReadFails, Annotate, OutOfTokens, ResizeApplied, ResizeNotFound,
       ResizeConflict, ResizeForbidden, ResizeFails, EndPass

\* All of it together: to the policy and to the eligibility rules, the node is
\* what it was, and unless the worker has just taken it nothing stirred it before.
LEMMA QuietStep ==
    ASSUME TypeOK, OwedCovers, NothingUnseen, [Next]_vars, ~Restart, NEW n \in Nodes,
           ~Stirs(n)', nodes'[n] # Absent
    PROVE  /\ nodes[n] # Absent /\ SameNode(nodes[n], nodes'[n])
           /\ ResolvedConfig' = ResolvedConfig
           /\ Stirs(n) => StartPass(n)
           /\ \A p \in Pods : /\ OnNode(pods'[p], n) <=> OnNode(pods[p], n)
                              /\ OnNode(pods[p], n) => SamePod(pods[p], pods'[p])
           /\ ManagedNow(n)' = ManagedNow(n)
  <1>1. /\ nodes[n] # Absent /\ SameNode(nodes[n], nodes'[n])
        /\ ResolvedConfig' = ResolvedConfig
    BY QuietNode
  <1>2. Stirs(n) => StartPass(n)
    <2>1. ~StartForgets(n)
      BY <1>1 DEF StartForgets
    <2> QED  BY <2>1, StirsStays
  <1>3. ASSUME NEW p \in Pods
        PROVE  /\ OnNode(pods'[p], n) <=> OnNode(pods[p], n)
               /\ OnNode(pods[p], n) => SamePod(pods[p], pods'[p])
    <2>1. CASE OnNode(pods[p], n) \/ OnNode(pods'[p], n)
      <3>1. SamePod(pods[p], pods'[p])
        BY <2>1, QuietPods
      <3>2. pods[p].node = pods'[p].node /\ pods[p] # Absent /\ pods'[p] # Absent
        BY <3>1, SamePodFields DEF SamePod
      <3> QED  BY <3>1, <3>2 DEF OnNode
    <2> QED  BY <2>1
  <1>4. ASSUME NEW p \in Pods PROVE p \in ManagedNow(n)' <=> p \in ManagedNow(n)
    <2>1. CASE ~OnNode(pods[p], n)
      BY <1>3, <2>1 DEF ManagedNow, CandidateNow, OnNode
    <2>2. CASE OnNode(pods[p], n)
      <3>1. SamePod(pods[p], pods'[p]) /\ OnNode(pods'[p], n)
        BY <1>3, <2>2
      <3>2. /\ pods[p] # Absent /\ pods'[p] # Absent
            /\ pods[p].node = n /\ pods'[p].node = n
        BY <3>1, <2>2 DEF OnNode
      <3>3. /\ namespaces'[NamespaceOf[p]] = namespaces[NamespaceOf[p]]
            /\ p \in vpas' <=> p \in vpas
        BY <3>1, QuietAround
      <3>4. Eligible(pods'[p]) <=> Eligible(pods[p])
        BY <3>1, SamePodFields DEF Eligible
      <3>5. OwnerExcluded(pods'[p], ResolvedConfig) <=> OwnerExcluded(pods[p], ResolvedConfig)
        BY <3>1, SamePodFields DEF OwnerExcluded
      <3>6. NodeManageable(nodes'[n], ResolvedConfig) <=> NodeManageable(nodes[n], ResolvedConfig)
        BY <1>1 DEF NodeManageable, SameNode
      <3>7. CandidateNow(p)' <=> CandidateNow(p)
        BY <1>1, <3>2, <3>4, <3>5, <3>6, AbsentAssumption DEF CandidateNow
      <3> QED  BY <1>1, <3>2, <3>3, <3>7 DEF ManagedNow
    <2> QED  BY <2>1, <2>2
  <1>5. ManagedNow(n)' = ManagedNow(n)
    BY <1>4 DEF ManagedNow
  <1> QED  BY <1>1, <1>2, <1>3, <1>5
-----------------------------------------------------------------------------
(* The series of a node at rest.                                            *)

\* The pass's copy of p is what it would list now.
ListedAlike(p) ==
    IF OnNode(pods[p], pass.node) /\ ~pods[p].terminal
    THEN SamePod(pass.list[p], pods[p])
    ELSE pass.list[p] = Absent

DeferredOf(S) == Cardinality({p \in S : pods[p].resize = "Deferred"})

\* A pass whose node nothing stirs has read what a new one would, and once it has
\* built its inputs only pods with a backoff entry are missing from the series.
PassFresh ==
    pass # Absent /\ nodes[pass.node] # Absent /\ ~Stirs(pass.node) =>
        /\ pass.cfg = ResolvedConfig
        /\ SameNode(pass.spec, nodes[pass.node])
        /\ pass.step = "build" => \A p \in Pods : ListedAlike(p)
        /\ pass.step = "apply" =>
              /\ podSeries[pass.node] \subseteq ManagedNow(pass.node)
              /\ \A p \in ManagedNow(pass.node) \ podSeries[pass.node] : backoff[p] # Absent
              /\ nodeResizesDeferred[pass.node] = DeferredOf(podSeries[pass.node])

\* Who writes the gauges.
LEMMA GaugeSteps ==
    ASSUME [Next]_vars, ~Restart
    PROVE  UNCHANGED gauges \/ (\E m \in Nodes : StartForgets(m)) \/ BuildInputs
  BY DEF Next, System, vars, Environment, Tick,
     Deliver, DeliverPod, RelistPod, DeliverNode, DeliverConfig, DeliverNamespace, PollVPAs,
     PollFails, Refresh, Handle, HandlePodEvent, HandleNodeEvent, HandleConfigEvent,
     HandleNamespaceEvent, Start, StartUnsynced, StartPass, Continue, ListPods,
     ReadFails, Annotate, OutOfTokens, ResizeApplied, ResizeNotFound,
     ResizeConflict, ResizeForbidden, ResizeFails, EndPass

\* What the steps that go through the decisions leave alone.
LEMMA ApplyFrame ==
    ASSUME TypeOK, PassSound, Continue, ~ListPods, ~BuildInputs, ~ReadFails, ~EndPass
    PROVE  /\ pass.step = "apply" /\ pass'.step = "apply"
           /\ pass'.cfg = pass.cfg /\ pass'.spec = pass.spec
           /\ UNCHANGED <<gauges, cache>>
           /\ \A p \in Pods : backoff[p] # Absent => backoff'[p] # Absent
  <1>0. ~Idle /\ pass \in Pass
    BY ContinueFrame
  <1>1. /\ pass.step = "apply" /\ pass'.step = "apply"
        /\ pass'.cfg = pass.cfg /\ pass'.spec = pass.spec
    <2>1. ASSUME NEW q \in Pods, Annotate(q)
          PROVE  /\ pass.step = "apply" /\ pass'.step = "apply"
                 /\ pass'.cfg = pass.cfg /\ pass'.spec = pass.spec
      BY <1>0, <2>1 DEF Annotate, Pass
    <2>2. CASE OutOfTokens
      BY <1>0, <2>2, CurrentSound DEF OutOfTokens, Pass
    <2>3. ASSUME NEW outcome, ResizeOutcome(outcome)
          PROVE  /\ pass.step = "apply" /\ pass'.step = "apply"
                 /\ pass'.cfg = pass.cfg /\ pass'.spec = pass.spec
      BY <1>0, <2>3, CurrentSound DEF ResizeOutcome, Pass
    <2> QED
      BY <2>1, <2>2, <2>3 DEF Continue, ResizeApplied, ResizeNotFound, ResizeConflict,
         ResizeForbidden, ResizeFails
  <1>2. UNCHANGED <<gauges, cache>>
    BY DEF Continue, Annotate, OutOfTokens, ResizeApplied, ResizeNotFound, ResizeConflict,
       ResizeForbidden, ResizeFails
  <1>3. ASSUME NEW p \in Pods, backoff[p] # Absent PROVE backoff'[p] # Absent
    <2>1. CASE ResizeForbidden
      <3>1. backoff' = [backoff EXCEPT ![pass.current] = BackoffPeriod]
        BY <2>1 DEF ResizeForbidden
      <3>2. BackoffPeriod # Absent
        BY ParameterAssumption, AbsentAssumption
      <3> QED  BY <1>3, <3>1, <3>2 DEF TypeOK
    <2>2. CASE ~ResizeForbidden
      BY <1>3, <2>2 DEF Continue, Annotate, OutOfTokens, ResizeApplied, ResizeNotFound,
         ResizeConflict, ResizeFails
    <2> QED  BY <2>1, <2>2
  <1> QED  BY <1>1, <1>2, <1>3

\* buildInputs on such a list enrols whom a new pass would.
LEMMA EnrolledNow ==
    ASSUME TypeOK, ~Idle, nodes[pass.node] # Absent, pass.cfg = ResolvedConfig,
           SameNode(pass.spec, nodes[pass.node]), NEW p \in Pods, ListedAlike(p)
    PROVE  Enrolled(p) <=> p \in ManagedNow(pass.node)
  <1> DEFINE n == pass.node
  <1>0. n \in Nodes
    BY TypePass DEF Pass
  <1>1. CASE ~OnNode(pods[p], n) \/ pods[p].terminal
    BY <1>1 DEF ListedAlike, Enrolled, Candidate, ManagedNow, CandidateNow, OnNode, Eligible
  <1>2. CASE OnNode(pods[p], n) /\ ~pods[p].terminal
    <2>1. SamePod(pass.list[p], pods[p])
      BY <1>2 DEF ListedAlike
    <2>2. pods[p] # Absent /\ pods[p].node = n /\ pass.list[p] # Absent /\ n # Absent
      BY <1>0, <1>2, <2>1, AbsentAssumption DEF OnNode, SamePod
    <2>3. Eligible(pass.list[p]) <=> Eligible(pods[p])
      BY <2>1, SamePodFields DEF Eligible
    <2>4. OwnerExcluded(pass.list[p], pass.cfg) <=> OwnerExcluded(pods[p], ResolvedConfig)
      BY <2>1, SamePodFields DEF OwnerExcluded
    <2>5. NodeManageable(pass.spec, pass.cfg) <=> NodeManageable(nodes[n], ResolvedConfig)
      BY DEF NodeManageable, SameNode
    <2>6. Candidate(p) <=> CandidateNow(p)
      BY <2>2, <2>3, <2>4, <2>5 DEF Candidate, CandidateNow
    <2> QED  BY <2>2, <2>6 DEF Enrolled, ManagedNow
  <1> QED  BY <1>1, <1>2

\* What a node's series are after the pass on it has built its inputs.
LEMMA BuildSeries ==
    ASSUME TypeOK, PassSound, BuildInputs, nodes[pass.node] # Absent,
           pass.cfg = ResolvedConfig, SameNode(pass.spec, nodes[pass.node]),
           \A p \in Pods : ListedAlike(p)
    PROVE  /\ podSeries'[pass.node] = {p \in Pods : Managed(p)}
           /\ podSeries'[pass.node] \subseteq ManagedNow(pass.node)
           /\ \A p \in ManagedNow(pass.node) \ podSeries'[pass.node] : backoff'[p] # Absent
           /\ nodeResizesDeferred'[pass.node] = DeferredOf(podSeries'[pass.node])
  <1> DEFINE n == pass.node
             managed == {p \in Pods : Managed(p)}
  <1>0. n \in Nodes /\ ~Idle
    BY TypePass DEF Pass, BuildInputs
  <1>1. podSeries'[n] = managed
    BY <1>0 DEF BuildInputs, TypeOK
  <1>2. \A p \in Pods : Enrolled(p) <=> p \in ManagedNow(n)
    BY <1>0, EnrolledNow
  <1>3. managed \subseteq ManagedNow(n)
    BY <1>2 DEF Managed
  <1>4. ASSUME NEW p \in ManagedNow(n), p \notin managed PROVE backoff'[p] # Absent
    <2>1. p \in Pods /\ Enrolled(p) /\ ~Managed(p)
      BY <1>2, <1>4 DEF ManagedNow
    <2>2. backoff' = BackoffAfter(Pods)
      BY DEF BuildInputs
    <2>3. CASE InBackoff(p)
      BY <2>1, <2>2, <2>3 DEF BackoffAfter, NewlyInfeasible, InBackoff
    <2>4. CASE ~InBackoff(p)
      <3>1. NewlyInfeasible(p)
        BY <2>1, <2>4 DEF Managed, NewlyInfeasible
      <3> QED  BY <2>1, <2>2, <3>1, ParameterAssumption, AbsentAssumption DEF BackoffAfter
    <2> QED  BY <2>3, <2>4
  <1>5. nodeResizesDeferred'[n] = DeferredOf(managed)
    <2>1. \A p \in managed : pass.list[p].resize = "Deferred" <=> pods[p].resize = "Deferred"
      <3> SUFFICES ASSUME NEW p \in Pods, Managed(p)
                   PROVE  pass.list[p].resize = "Deferred" <=> pods[p].resize = "Deferred"
        OBVIOUS
      <3>1. SamePod(pass.list[p], pods[p])
        BY DEF Managed, Enrolled, Candidate, ListedAlike
      <3> QED  BY <3>1, SamePodFields
    <2>2. {p \in managed : pass.list[p].resize = "Deferred"}
             = {p \in managed : pods[p].resize = "Deferred"}
      BY <2>1
    <2>3. nodeResizesDeferred'[n] =
             Cardinality({p \in managed : pass.list[p].resize = "Deferred"})
      BY <1>0 DEF BuildInputs, TypeOK
    <2> QED  BY <2>2, <2>3 DEF DeferredOf
  <1> QED  BY <1>1, <1>3, <1>4, <1>5

\* Between two states of a pass over a quiet node, what PassFresh says of it is kept
\* when the pass, the gauges and the entries are.
LEMMA FreshKept ==
    ASSUME TypeOK, OwedCovers, NothingUnseen, [Next]_vars, ~Restart, PassFresh,
           NEW n \in Nodes, ~Stirs(n)', nodes'[n] # Absent,
           pass # Absent, pass' # Absent, pass.node = n, pass'.node = n,
           pass'.cfg = pass.cfg, pass'.spec = pass.spec, pass'.step = pass.step,
           pass.step = "build" => pass'.list = pass.list,
           UNCHANGED gauges,
           \A p \in Pods : backoff[p] # Absent => backoff'[p] # Absent
    PROVE  PassFresh'
  <1>1. /\ nodes[n] # Absent /\ SameNode(nodes[n], nodes'[n])
        /\ ResolvedConfig' = ResolvedConfig
        /\ Stirs(n) => StartPass(n)
        /\ \A p \in Pods : /\ OnNode(pods'[p], n) <=> OnNode(pods[p], n)
                           /\ OnNode(pods[p], n) => SamePod(pods[p], pods'[p])
        /\ ManagedNow(n)' = ManagedNow(n)
    BY QuietStep
  <1>2. ~Stirs(n)
    BY <1>1 DEF StartPass, Idle
  <1>3. pass'.cfg = ResolvedConfig' /\ SameNode(pass'.spec, nodes'[n])
    BY <1>1, <1>2 DEF PassFresh, SameNode
  <1>4. ASSUME pass'.step = "build", NEW p \in Pods PROVE ListedAlike(p)'
    <2>1. ListedAlike(p) /\ pass'.list = pass.list
      BY <1>1, <1>2, <1>4 DEF PassFresh
    <2>2. CASE OnNode(pods[p], n) /\ ~pods[p].terminal
      <3>1. SamePod(pods[p], pods'[p]) /\ OnNode(pods'[p], n) /\ ~pods'[p].terminal
        BY <1>1, <2>2, SamePodFields
      <3>2. SamePod(pass'.list[p], pods'[p])
        BY <2>1, <2>2, <3>1, SamePodTrans DEF ListedAlike
      <3> QED  BY <3>1, <3>2 DEF ListedAlike
    <2>3. CASE ~(OnNode(pods[p], n) /\ ~pods[p].terminal)
      <3>1. ~(OnNode(pods'[p], n) /\ ~pods'[p].terminal)
        BY <1>1, <2>3, SamePodFields
      <3> QED  BY <2>1, <2>3, <3>1 DEF ListedAlike
    <2> QED  BY <2>2, <2>3
  <1>5. ASSUME pass'.step = "apply"
        PROVE  /\ podSeries'[n] \subseteq ManagedNow(n)'
               /\ \A p \in ManagedNow(n)' \ podSeries'[n] : backoff'[p] # Absent
               /\ nodeResizesDeferred'[n] = DeferredOf(podSeries[n])'
    <2>1. /\ podSeries[n] \subseteq ManagedNow(n)
          /\ \A p \in ManagedNow(n) \ podSeries[n] : backoff[p] # Absent
          /\ nodeResizesDeferred[n] = DeferredOf(podSeries[n])
      BY <1>1, <1>2, <1>5 DEF PassFresh
    <2>2. \A p \in podSeries[n] : pods'[p].resize = "Deferred" <=> pods[p].resize = "Deferred"
      <3> SUFFICES ASSUME NEW p \in podSeries[n]
                   PROVE  pods'[p].resize = "Deferred" <=> pods[p].resize = "Deferred"
        OBVIOUS
      <3>1. p \in Pods /\ OnNode(pods[p], n)
        BY <2>1 DEF ManagedNow, CandidateNow, OnNode
      <3> QED  BY <1>1, <3>1, SamePodFields
    <2>3. {p \in podSeries[n] : pods'[p].resize = "Deferred"}
            = {p \in podSeries[n] : pods[p].resize = "Deferred"}
      BY <2>2
    <2>4. DeferredOf(podSeries[n])' = DeferredOf(podSeries[n])
      BY <2>3 DEF DeferredOf
    <2>5. ManagedNow(n) \subseteq Pods
      BY DEF ManagedNow
    <2> QED  BY <1>1, <2>1, <2>4, <2>5
  <1> QED  BY <1>3, <1>4, <1>5 DEF PassFresh

LEMMA PassFreshNext == NothingUnseen /\ WakeInv /\ PassFresh /\ [Next]_vars => PassFresh'
  <1> SUFFICES ASSUME NothingUnseen, WakeInv, PassFresh, [Next]_vars, pass' # Absent,
                      NEW n, n = pass'.node, nodes'[n] # Absent, ~Stirs(n)'
               PROVE  PassFresh'
    BY DEF PassFresh
  <1>0. TypeOK /\ PassSound /\ OwedCovers /\ ~Restart
    BY DEF WakeInv, Restart
  <1>1. n \in Nodes
    BY <1>0, TypeNext DEF TypeOK, Pass
  <1>2. /\ nodes[n] # Absent /\ SameNode(nodes[n], nodes'[n])
        /\ ResolvedConfig' = ResolvedConfig
        /\ Stirs(n) => StartPass(n)
    BY <1>0, <1>1, QuietStep
  <1>3. ASSUME NEW k \in Nodes, StartPass(k) PROVE PassFresh'
    <2>1. /\ pass'.node = k /\ pass'.step = "list"
          /\ pass'.spec = nodes[k] /\ pass'.cfg = ResolvedConfig
      BY <1>0, <1>3, StartFrame
    <2> QED  BY <1>2, <2>1 DEF PassFresh
  <1>4. ASSUME ~Idle, UNCHANGED <<pass, backoff>> PROVE PassFresh'
    <2>1. UNCHANGED gauges
      <3>1. ~\E m \in Nodes : StartForgets(m)
        BY <1>4 DEF StartForgets
      <3>2. ~BuildInputs
        <4> SUFFICES ASSUME BuildInputs PROVE FALSE
          OBVIOUS
        <4>1. pass \in Pass
          BY <1>0, <1>4, TypePass
        <4> QED  BY <1>4, <4>1 DEF BuildInputs, Pass
      <3> QED  BY <1>0, <3>1, <3>2, GaugeSteps
    <2> QED  BY <1>0, <1>1, <1>4, <2>1, FreshKept DEF Idle
  <1>5. CASE Tick
    <2>0. ~Idle
      BY <1>5 DEF Tick, Judging, Idle
    <2>1. /\ pass'.node = pass.node /\ pass'.step = pass.step /\ pass'.list = pass.list
          /\ pass'.spec = pass.spec /\ pass'.cfg = pass.cfg
      BY <1>0, <1>5, <2>0, TickFrame
    <2>2. \A p \in Pods : backoff[p] # Absent => backoff'[p] # Absent
      <3>1. \A p \in Pods : backoff[p] # Absent => backoff[p] - 1 # Absent
        BY <1>0, AbsentAssumption, ParameterAssumption DEF TypeOK, LongEnded
      <3> QED  BY <1>5, <3>1 DEF Tick, TickedBackoff
    <2>3. UNCHANGED gauges
      BY <1>5 DEF Tick
    <2> QED  BY <1>0, <1>1, <2>0, <2>1, <2>2, <2>3, FreshKept DEF Idle
  <1>6. CASE Continue
    <2>0. ~ReadFails /\ ~EndPass
      BY DEF ReadFails, EndPass, Requeue, BackoffRequeue
    <2>1. ~Idle /\ pass \in Pass /\ pass'.node = pass.node /\ pass # Absent
      BY <1>0, <1>6, <2>0, ContinueFrame DEF Idle
    <2>2. ~Stirs(n)
      BY <1>2, <2>1 DEF StartPass
    <2>3. pass.cfg = ResolvedConfig /\ SameNode(pass.spec, nodes[n])
      BY <1>2, <2>1, <2>2 DEF PassFresh
    <2>4. CASE ListPods
      <3>1. /\ pass'.step = "build" /\ pass'.cfg = pass.cfg /\ pass'.spec = pass.spec
            /\ pass'.list = [p \in Pods |-> IF OnNode(pods[p], n) /\ ~pods[p].terminal
                                            THEN pods[p] ELSE Absent]
            /\ UNCHANGED <<pods, nodes, config>>
        BY <2>1, <2>4 DEF ListPods, Pass
      <3>2. ASSUME NEW p \in Pods PROVE ListedAlike(p)'
        BY <3>1, SamePodRefl DEF ListedAlike, OnNode
      <3> QED  BY <1>2, <2>3, <3>1, <3>2 DEF PassFresh
    <2>5. CASE BuildInputs
      <3>1. pass.step = "build" /\ \A p \in Pods : ListedAlike(p)
        BY <1>2, <2>1, <2>2, <2>5 DEF BuildInputs, PassFresh
      <3>2. /\ pass'.step = "apply" /\ pass'.cfg = pass.cfg /\ pass'.spec = pass.spec
            /\ UNCHANGED cache
        BY <2>1, <2>5 DEF BuildInputs, Pass
      <3>3. /\ podSeries'[n] \subseteq ManagedNow(n)
            /\ \A p \in ManagedNow(n) \ podSeries'[n] : backoff'[p] # Absent
            /\ nodeResizesDeferred'[n] = DeferredOf(podSeries'[n])
        BY <1>0, <1>2, <2>1, <2>3, <2>5, <3>1, BuildSeries
      <3>4. ManagedNow(n)' = ManagedNow(n)
        BY <1>0, <1>1, QuietStep
      <3>5. DeferredOf(podSeries[n])' = DeferredOf(podSeries'[n])
        BY <3>2 DEF DeferredOf
      <3> QED  BY <1>2, <2>3, <3>2, <3>3, <3>4, <3>5 DEF PassFresh
    <2>6. CASE ~ListPods /\ ~BuildInputs
      <3>1. /\ pass.step = "apply" /\ pass'.step = "apply"
            /\ pass'.cfg = pass.cfg /\ pass'.spec = pass.spec
            /\ UNCHANGED gauges
            /\ \A p \in Pods : backoff[p] # Absent => backoff'[p] # Absent
        BY <1>0, <1>6, <2>0, <2>6, ApplyFrame
      <3> QED  BY <1>0, <1>1, <2>1, <3>1, FreshKept
    <2> QED  BY <2>4, <2>5, <2>6
  <1> QED  BY <1>0, <1>3, <1>4, <1>5, <1>6, StepKinds DEF Idle

\* A node at rest after a step was at rest before it, or has just seen its pass end
\* without asking to come back.
LEMMA RestedOrEnded ==
    ASSUME WakeInv, NothingUnseen, [Next]_vars, ~Restart, NEW n \in Nodes,
           AtRest(n)', nodes'[n] # Absent
    PROVE  /\ ~Stirs(n)
           /\ \/ AtRest(n)
              \/ /\ pass # Absent /\ pass.node = n /\ pass.step = "apply"
                 /\ EndPass /\ ~pass.failed /\ ~pass.rateLimited /\ WindowsAtJudgedAt = {}
  <1>0. TypeOK /\ PassSound /\ OwedCovers
    BY DEF WakeInv
  <1>1. ~Stirs(n)' /\ (pass' = Absent \/ pass'.node # n)
    BY DEF AtRest, Idle
  <1>2. ~Stirs(n)
    <2>1. ~StartPass(n)
      BY <1>0, <1>1, StartFrame
    <2> QED  BY <1>0, <1>1, <2>1, QuietStep
  <1>3. ASSUME ~Idle, pass.node = n
        PROVE  EndPass /\ ~pass.failed /\ ~pass.rateLimited /\ WindowsAtJudgedAt = {}
    <2>1. ~UNCHANGED <<pass, backoff>> /\ ~Tick /\ ~\E m \in Nodes : StartPass(m)
      <3>1. ~Tick
        BY <1>0, <1>1, <1>3, TickFrame
      <3> QED  BY <1>1, <1>3, <3>1 DEF Idle, StartPass
    <2>2. Continue
      BY <2>1, StepKinds
    <2>3. ReadFails \/ EndPass
      BY <1>0, <1>1, <1>3, <2>2, ContinueFrame
    <2>4. queue'[n] = Absent
      BY <1>1 DEF Stirs
    <2>5. ~\E delays \in SUBSET Nat : Requeue(delays)
      BY <1>0, <1>3, <2>4, RequeueWakes
    <2>6. EndPass /\ WindowsAtJudgedAt = {}
      BY <1>0, <2>3, <2>5, ReadFailsRequeues, EndPassRequeues
    <2>7. RequeueDelays \in SUBSET Nat /\ {1} \in SUBSET Nat
      BY ParameterAssumption DEF RequeueDelays
    <2>8. ~pass.failed /\ ~pass.rateLimited
      BY <2>5, <2>6, <2>7, Zenon DEF EndPass, BackoffRequeue
    <2> QED  BY <2>6, <2>8
  <1> QED  BY <1>2, <1>3 DEF AtRest, Idle, EndPass

\* The gauges of a node that nothing stirs are its own pass's alone.
LEMMA GaugesKept ==
    ASSUME TypeOK, [Next]_vars, ~Restart, NEW n \in Nodes, ~Stirs(n),
           pass = Absent \/ pass.node # n
    PROVE  podSeries'[n] = podSeries[n] /\ nodeResizesDeferred'[n] = nodeResizesDeferred[n]
  <1>1. ASSUME NEW m \in Nodes, StartForgets(m)
        PROVE  podSeries'[n] = podSeries[n] /\ nodeResizesDeferred'[n] = nodeResizesDeferred[n]
    <2>1. m # n
      BY <1>1, AbsentAssumption DEF StartForgets, Stirs
    <2> QED  BY <1>1, <2>1 DEF StartForgets, TypeOK
  <1>2. CASE BuildInputs
    <2>1. pass.node # n
      BY <1>2 DEF BuildInputs, Idle
    <2> QED  BY <1>2, <2>1 DEF BuildInputs, TypeOK
  <1> QED  BY <1>1, <1>2, GaugeSteps

\* Where the pass has seen every pod that a new one would manage, so that no entry
\* is left to wait for, the series are complete.
LEMMA EndedFresh ==
    ASSUME WakeInv, PassFresh, NEW n \in Nodes, pass # Absent, pass.node = n,
           pass.step = "apply", ~Stirs(n), nodes[n] # Absent, WindowsAtJudgedAt = {}
    PROVE  /\ podSeries[n] = ManagedNow(n)
           /\ nodeResizesDeferred[n] = DeferredOf(ManagedNow(n))
           /\ \A p \in ManagedNow(n) : backoff[p] = Absent
  <1>1. /\ podSeries[n] \subseteq ManagedNow(n)
        /\ \A p \in ManagedNow(n) \ podSeries[n] : backoff[p] # Absent
        /\ nodeResizesDeferred[n] = DeferredOf(podSeries[n])
    BY DEF PassFresh
  <1>2. ASSUME NEW p \in ManagedNow(n) PROVE backoff[p] = Absent
    <2>1. p \in Pods /\ CandidateNow(p) /\ pods[p].node = n
      BY DEF ManagedNow
    <2>2. ~Woken(n)
      BY DEF Woken, Stirs
    <2>3. backoff[p] # Absent => p \in WindowsAtJudgedAt
      BY <2>1, <2>2 DEF WakeInv, PassAware
    <2> QED  BY <2>3
  <1>3. podSeries[n] = ManagedNow(n)
    BY <1>1, <1>2
  <1> QED  BY <1>1, <1>2, <1>3

LEMMA SeriesFreshNext ==
    NothingUnseen /\ WakeInv /\ PassFresh /\ SeriesFresh /\ [Next]_vars => SeriesFresh'
  <1> SUFFICES ASSUME NothingUnseen, WakeInv, PassFresh, SeriesFresh, [Next]_vars,
                      NEW n \in Nodes, AtRest(n)', nodes'[n] # Absent
               PROVE  /\ podSeries'[n] = ManagedNow(n)'
                      /\ nodeResizesDeferred'[n] = DeferredOf(ManagedNow(n))'
    BY DEF SeriesFresh, DeferredOf
  <1>0. TypeOK /\ OwedCovers
    BY DEF WakeInv
  <1>1. ~Restart
    <2> SUFFICES ASSUME Restart PROVE FALSE
      OBVIOUS
    <2>1. NodeEvent(n) \in events'
      BY DEF Restart, CreateEvents
    <2> QED  BY <2>1 DEF AtRest, Stirs
  <1>2. /\ nodes[n] # Absent
        /\ \A p \in Pods : /\ OnNode(pods'[p], n) <=> OnNode(pods[p], n)
                           /\ OnNode(pods[p], n) => SamePod(pods[p], pods'[p])
        /\ ManagedNow(n)' = ManagedNow(n)
    BY <1>0, <1>1, QuietStep DEF AtRest
  <1>3. DeferredOf(ManagedNow(n))' = DeferredOf(ManagedNow(n))
    <2>1. \A p \in ManagedNow(n) : pods'[p].resize = "Deferred" <=> pods[p].resize = "Deferred"
      <3> SUFFICES ASSUME NEW p \in ManagedNow(n)
                   PROVE  pods'[p].resize = "Deferred" <=> pods[p].resize = "Deferred"
        OBVIOUS
      <3>1. p \in Pods /\ OnNode(pods[p], n)
        BY DEF ManagedNow, CandidateNow, OnNode
      <3> QED  BY <1>2, <3>1, SamePodFields
    <2>2. {p \in ManagedNow(n) : pods'[p].resize = "Deferred"}
            = {p \in ManagedNow(n) : pods[p].resize = "Deferred"}
      BY <2>1
    <2> QED  BY <1>2, <2>2 DEF DeferredOf
  <1>4. CASE AtRest(n)
    <2>1. podSeries[n] = ManagedNow(n) /\ nodeResizesDeferred[n] = DeferredOf(ManagedNow(n))
      BY <1>2, <1>4 DEF SeriesFresh, DeferredOf
    <2>2. podSeries'[n] = podSeries[n] /\ nodeResizesDeferred'[n] = nodeResizesDeferred[n]
      BY <1>0, <1>1, <1>4, GaugesKept DEF AtRest, Idle
    <2> QED  BY <1>2, <1>3, <2>1, <2>2
  <1>5. CASE ~AtRest(n)
    <2>1. /\ ~Stirs(n) /\ pass # Absent /\ pass.node = n /\ pass.step = "apply"
          /\ EndPass /\ WindowsAtJudgedAt = {}
      BY <1>1, <1>5, RestedOrEnded
    <2>2. podSeries[n] = ManagedNow(n) /\ nodeResizesDeferred[n] = DeferredOf(ManagedNow(n))
      BY <1>2, <2>1, EndedFresh
    <2>3. UNCHANGED gauges
      BY <2>1 DEF EndPass
    <2> QED  BY <1>2, <1>3, <2>2, <2>3
  <1> QED  BY <1>4, <1>5

FreshInv == WakeInv /\ PassFresh /\ SeriesFresh

LEMMA FreshInvariant == ASSUME NothingUnseen PROVE Spec => []FreshInv
  <1>1. Init => PassFresh /\ SeriesFresh
    <2> SUFFICES ASSUME Init PROVE PassFresh /\ SeriesFresh
      OBVIOUS
    <2>1. \A n \in Nodes : queue[n] # Absent
      BY AbsentAssumption DEF Init
    <2>2. \A n \in Nodes : Stirs(n)
      BY <2>1 DEF Stirs
    <2> QED  BY <2>2 DEF Init, PassFresh, SeriesFresh, AtRest
  <1>2. WakeInv /\ PassFresh /\ SeriesFresh /\ [Next]_vars => (PassFresh /\ SeriesFresh)'
    BY PassFreshNext, SeriesFreshNext
  <1> QED  BY <1>1, <1>2, WakeInvariant, PTL DEF Spec, FreshInv

\* podUpdateRelevant, nodeUpdateRelevant, nodesEventHandler, Poller.notify and
\* buildInputs together: for any policy, any pods, nodes, settings and faults, a
\* node at rest has on its books exactly the pods a new pass would manage, and
\* counts exactly their deferred resizes.
THEOREM SeriesAlwaysFresh == ASSUME NothingUnseen PROVE Spec => []SeriesFresh
  <1>1. FreshInv => SeriesFresh
    BY DEF FreshInv
  <1> QED  BY <1>1, FreshInvariant, PTL
-----------------------------------------------------------------------------
(* The targets of a node at rest.                                           *)

\* The pods a new pass over n would hand to the policy, and what the policy would
\* decide if their limits were these.
Here(n) == {q \in Pods : OnNode(pods[q], n) /\ ~pods[q].terminal}

InputsWith(n, limit) ==
    [p \in Here(n) |->
        PodInput(pods[p].spec, limit[p], p \in ManagedNow(n), FALSE,
                 IF p \in ManagedNow(n) THEN namespaces[NamespaceOf[p]].rangeCap ELSE 0)]

DecidedWith(n, limit) ==
    ComputeNode(ResolvedConfig.policy, nodes[n].allocatable, InputsWith(n, limit))

CachedLimits(n) == [p \in Here(n) |-> pods[p].limit]

LEMMA DecisionsNowWith ==
    ASSUME NEW n \in Nodes PROVE DecisionsNow(n) = DecidedWith(n, CachedLimits(n))
  <1>1. \A p \in Here(n) : CachedLimits(n)[p] = pods[p].limit
    BY DEF CachedLimits
  <1>2. InputsWith(n, CachedLimits(n))
          = [p \in {q \in Pods : OnNode(pods[q], n) /\ ~pods[q].terminal} |->
                PodInput(pods[p].spec, pods[p].limit, p \in ManagedNow(n), FALSE,
                         IF p \in ManagedNow(n) THEN namespaces[NamespaceOf[p]].rangeCap
                         ELSE 0)]
    BY <1>1 DEF InputsWith, Here
  <1> QED  BY <1>2 DEF DecisionsNow, DecidedWith

LEMMA CachedTyped ==
    ASSUME TypeOK, NEW n \in Nodes PROVE CachedLimits(n) \in [Here(n) -> Limits]
  BY DEF TypeOK, CachedLimits, Here, OnNode, Pod

LEMMA ManagedHere ==
    ASSUME NEW n \in Nodes PROVE ManagedNow(n) \subseteq Here(n)
  BY DEF ManagedNow, CandidateNow, Here, OnNode, Eligible

LEMMA WithTyped ==
    ASSUME TypeOK, NEW n \in Nodes, NEW limit \in [Here(n) -> Limits]
    PROVE  /\ InputsWith(n, limit) \in [Here(n) -> PolicyInputs]
           /\ {q \in Here(n) : InputsWith(n, limit)[q].managed} = ManagedNow(n)
  <1>1. ASSUME NEW p \in Here(n)
        PROVE  PodInput(pods[p].spec, limit[p], p \in ManagedNow(n), FALSE,
                        IF p \in ManagedNow(n) THEN namespaces[NamespaceOf[p]].rangeCap ELSE 0)
                 \in PolicyInputs
    <2>1. pods[p].spec \in PodSpecs /\ limit[p] \in Limits
      BY DEF TypeOK, Here, OnNode, Pod
    <2>2. (IF p \in ManagedNow(n) THEN namespaces[NamespaceOf[p]].rangeCap ELSE 0) \in RangeCaps
      BY ParameterAssumption DEF TypeOK, ManagedNow, NamespaceManaged, RangeCaps
    <2> DEFINE managed == p \in ManagedNow(n)
               held == FALSE
               rangeCap == IF managed THEN namespaces[NamespaceOf[p]].rangeCap ELSE 0
    <2>3. PICK share \in {"managed", "held", "none"} :
             managed = (share = "managed") /\ held = (share = "held")
      OBVIOUS
    <2>4. rangeCap \in RangeCaps
      BY <2>2
    <2> HIDE DEF managed, held, rangeCap
    <2>5. PodInput(pods[p].spec, limit[p], managed, held, rangeCap) \in PolicyInputs
      BY <2>1, <2>3, <2>4 DEF PolicyInputs
    <2> QED  BY <2>5 DEF managed, held, rangeCap
  <1>2. InputsWith(n, limit) \in [Here(n) -> PolicyInputs]
    BY <1>1 DEF InputsWith
  <1>3. \A q \in Here(n) : InputsWith(n, limit)[q].managed = (q \in ManagedNow(n))
    BY DEF InputsWith, PodInput
  <1> QED  BY <1>2, <1>3, ManagedHere

LEMMA PodInputLimit ==
    ASSUME NEW spec, NEW l, NEW m, NEW managed, NEW held, NEW rangeCap
    PROVE  [PodInput(spec, l, managed, held, rangeCap) EXCEPT !.limit = m]
             = PodInput(spec, m, managed, held, rangeCap)
  BY DEF PodInput

\* What the policy is assumed to do, of the pods of a node.
LEMMA LimitsDecide ==
    ASSUME TypeOK, NEW n \in Nodes, nodes[n] # Absent, NEW l \in [Here(n) -> Limits],
           NEW m \in [Here(n) -> Limits], NEW p \in ManagedNow(n)
    PROVE  /\ DecidedWith(n, l)[p] \in Decision
           /\ DecidedWith(n, m)[p].target = DecidedWith(n, l)[p].target
           /\ m[p] = l[p] => DecidedWith(n, m)[p].apply = DecidedWith(n, l)[p].apply
           /\ DecidedWith(n, l)[p].target >= pods[p].spec.request
           /\ l[p] = DecidedWith(n, l)[p].target => ~DecidedWith(n, l)[p].apply
  <1> DEFINE S == Here(n)
             in == InputsWith(n, l)
             out == [q \in S |-> [in[q] EXCEPT !.limit = m[q]]]
  <1>1. in \in [S -> PolicyInputs] /\ {q \in S : in[q].managed} = ManagedNow(n)
    BY WithTyped
  <1>2. InputsWith(n, m) = out
    <2>1. ASSUME NEW q \in S PROVE InputsWith(n, m)[q] = [in[q] EXCEPT !.limit = m[q]]
      <3> DEFINE managed == q \in ManagedNow(n)
                 held == FALSE
                 rangeCap == IF managed THEN namespaces[NamespaceOf[q]].rangeCap ELSE 0
      <3>1. /\ in[q] = PodInput(pods[q].spec, l[q], managed, held, rangeCap)
            /\ InputsWith(n, m)[q] = PodInput(pods[q].spec, m[q], managed, held, rangeCap)
        BY DEF InputsWith
      <3> HIDE DEF managed, held, rangeCap, in
      <3> QED  BY <3>1, PodInputLimit
    <2>2. InputsWith(n, m) = [q \in S |-> InputsWith(n, m)[q]]
      BY DEF InputsWith
    <2> HIDE DEF S, in
    <2> QED  BY <2>1, <2>2
  <1>3. p \in S /\ in[p].limit = l[p] /\ in[p].request = pods[p].spec.request
    BY ManagedHere DEF InputsWith, PodInput
  <1>4. /\ ResolvedConfig \in Configs \cup {DefaultConfig} /\ nodes[n] \in NodeSpecs
        /\ S \in SUBSET Pods
    BY DEF TypeOK, ResolvedConfig, Here
  <1>5. /\ DecidedWith(n, l) = ComputeNode(ResolvedConfig.policy, nodes[n].allocatable, in)
        /\ DecidedWith(n, m) = ComputeNode(ResolvedConfig.policy, nodes[n].allocatable, out)
    BY <1>2 DEF DecidedWith
  <1> HIDE DEF S, in
  <1>6. ComputeNode(ResolvedConfig.policy, nodes[n].allocatable, in)[p] \in Decision
    BY <1>1, <1>4, ComputeAssumption
  <1>7. LET before == ComputeNode(ResolvedConfig.policy, nodes[n].allocatable, in)
            after == ComputeNode(ResolvedConfig.policy, nodes[n].allocatable, out)
        IN  /\ after[p].target = before[p].target
            /\ m[p] = in[p].limit => after[p].apply = before[p].apply
            /\ before[p].target >= in[p].request
            /\ in[p].limit = before[p].target => ~before[p].apply
    <2>1. m \in [S -> Limits] /\ p \in {q \in S : in[q].managed}
      BY <1>1 DEF S
    <2> QED  BY <1>1, <1>4, <2>1, TargetAssumption
  <1> QED  BY <1>3, <1>5, <1>6, <1>7

\* A step after which nothing stirs n leaves what the policy would decide alone.
LEMMA QuietDecided ==
    ASSUME TypeOK, OwedCovers, NothingUnseen, FloorSeen, [Next]_vars, ~Restart,
           NEW n \in Nodes, ~Stirs(n)', nodes'[n] # Absent, NEW l
    PROVE  Here(n)' = Here(n) /\ DecidedWith(n, l)' = DecidedWith(n, l)
  <1>1. /\ nodes[n] # Absent /\ SameNode(nodes[n], nodes'[n])
        /\ ResolvedConfig' = ResolvedConfig
        /\ \A p \in Pods : /\ OnNode(pods'[p], n) <=> OnNode(pods[p], n)
                           /\ OnNode(pods[p], n) => SamePod(pods[p], pods'[p])
        /\ ManagedNow(n)' = ManagedNow(n)
    BY QuietStep
  <1>2. Here(n)' = Here(n)
    <2>1. ASSUME NEW p \in Pods PROVE p \in Here(n)' <=> p \in Here(n)
      BY <1>1, SamePodFields DEF Here
    <2> QED  BY <2>1 DEF Here
  <1>3. InputsWith(n, l)' = InputsWith(n, l)
    <2>1. ASSUME NEW p \in Here(n)
          PROVE  PodInput(pods'[p].spec, l[p], p \in ManagedNow(n)', FALSE,
                          IF p \in ManagedNow(n)' THEN namespaces'[NamespaceOf[p]].rangeCap
                          ELSE 0)
                  = PodInput(pods[p].spec, l[p], p \in ManagedNow(n), FALSE,
                             IF p \in ManagedNow(n) THEN namespaces[NamespaceOf[p]].rangeCap
                             ELSE 0)
      <3>1. p \in Pods /\ OnNode(pods[p], n) /\ OnNode(pods'[p], n)
        BY <1>1 DEF Here
      <3>2. SamePod(pods[p], pods'[p])
        BY <1>1, <3>1
      <3>3. /\ pods[p].spec.booked = pods'[p].spec.booked
            /\ pods[p].spec.request = pods'[p].spec.request
            /\ pods[p].spec.cap = pods'[p].spec.cap
            /\ pods[p].spec.aboveRequest = pods'[p].spec.aboveRequest
        BY <3>2, SamePodFields
      <3>4. namespaces'[NamespaceOf[p]] = namespaces[NamespaceOf[p]]
        BY <3>1, QuietAround
      <3> QED  BY <1>1, <3>3, <3>4 DEF PodInput
    <2> QED  BY <1>2, <2>1 DEF InputsWith
  <1> QED  BY <1>1, <1>2, <1>3 DEF DecidedWith, SameNode

LEMMA QuietTargets ==
    ASSUME TypeOK, TypeOK', OwedCovers, NothingUnseen, FloorSeen, [Next]_vars, ~Restart,
           NEW n \in Nodes, ~Stirs(n)', nodes'[n] # Absent, NEW p \in ManagedNow(n)
    PROVE  DecisionsNow(n)'[p].target = DecisionsNow(n)[p].target
  <1>1. PICK l : l = CachedLimits(n)
    OBVIOUS
  <1>2. PICK m : m = CachedLimits(n)'
    OBVIOUS
  <1>3. /\ Here(n)' = Here(n) /\ DecidedWith(n, m)' = DecidedWith(n, m)
        /\ nodes[n] # Absent
    BY QuietDecided, QuietStep
  <1>4. l \in [Here(n) -> Limits] /\ m \in [Here(n) -> Limits]
    <2>1. CachedLimits(n)' \in [Here(n)' -> Limits]
      BY DEF TypeOK, CachedLimits, Here, OnNode, Pod
    <2> QED  BY <1>1, <1>2, <1>3, <2>1, CachedTyped
  <1>5. DecisionsNow(n) = DecidedWith(n, l)
    BY <1>1, DecisionsNowWith
  <1>6. DecisionsNow(n)' = DecidedWith(n, m)'
    <2>1. \A q \in Here(n)' : m[q] = pods'[q].limit
      BY <1>2 DEF CachedLimits
    <2> QED  BY <2>1 DEF DecisionsNow, DecidedWith, InputsWith, Here
  <1>7. DecidedWith(n, m)[p].target = DecidedWith(n, l)[p].target
    BY <1>3, <1>4, LimitsDecide
  <1> QED  BY <1>3, <1>5, <1>6, <1>7

\* A pass that is over its list works on what a new one would; where it manages
\* whom a new one would, it hands the policy the same inputs, but for the limits it
\* has listed.
LEMMA BuildDecides ==
    ASSUME TypeOK, FloorSeen, NEW n \in Nodes, ~Idle, pass.node = n, nodes[n] # Absent,
           pass.cfg = ResolvedConfig, SameNode(pass.spec, nodes[n]),
           \A p \in Pods : ListedAlike(p),
           {p \in Pods : Managed(p)} = ManagedNow(n)
    PROVE  \E l \in [Here(n) -> Limits] :
              /\ \A p \in Here(n) : l[p] = pass.list[p].limit
              /\ ComputeNode(pass.cfg.policy, pass.spec.allocatable, Inputs) = DecidedWith(n, l)
  <1>0. pass \in Pass
    BY TypePass
  <1> DEFINE l == [p \in Here(n) |-> pass.list[p].limit]
  <1>1. ASSUME NEW p \in Here(n) PROVE SamePod(pass.list[p], pods[p]) /\ p \in Pods
    BY DEF Here, ListedAlike
  <1>2. {q \in Pods : pass.list[q] # Absent} = Here(n)
    BY <1>1 DEF Here, ListedAlike, SamePod
  <1>3. l \in [Here(n) -> Limits]
    BY <1>0, <1>1 DEF Pass, Pod, SamePod
  <1>4. ASSUME NEW p \in Pods PROVE (Managed(p) <=> p \in ManagedNow(n)) /\ ~HoldsShare(p)
    <2>1. Managed(p) <=> p \in ManagedNow(n)
      OBVIOUS
    <2>2. Enrolled(p) => p \in ManagedNow(n)
      BY EnrolledNow
    <2> QED  BY <2>1, <2>2 DEF HoldsShare
  <1>5. ASSUME NEW p \in Here(n)
        PROVE  PodInput(pass.list[p].spec, pass.list[p].limit, Managed(p), HoldsShare(p),
                        IF Managed(p) THEN namespaces[NamespaceOf[p]].rangeCap ELSE 0)
                = PodInput(pods[p].spec, l[p], p \in ManagedNow(n), FALSE,
                           IF p \in ManagedNow(n) THEN namespaces[NamespaceOf[p]].rangeCap
                           ELSE 0)
    <2>1. /\ pass.list[p].spec.booked = pods[p].spec.booked
          /\ pass.list[p].spec.request = pods[p].spec.request
          /\ pass.list[p].spec.cap = pods[p].spec.cap
          /\ pass.list[p].spec.aboveRequest = pods[p].spec.aboveRequest
      BY <1>1, SamePodFields
    <2>2. Managed(p) = (p \in ManagedNow(n)) /\ HoldsShare(p) = FALSE
      BY <1>1, <1>4 DEF Managed, HoldsShare
    <2>3. l[p] = pass.list[p].limit
      OBVIOUS
    <2> HIDE DEF l
    <2> QED  BY <2>1, <2>2, <2>3 DEF PodInput
  <1> HIDE DEF l
  <1>6. Inputs = InputsWith(n, l)
    BY <1>2, <1>5 DEF Inputs, InputsWith
  <1>7. ComputeNode(pass.cfg.policy, pass.spec.allocatable, Inputs) = DecidedWith(n, l)
    BY <1>6 DEF DecidedWith, SameNode
  <1>8. \A p \in Here(n) : l[p] = pass.list[p].limit
    BY DEF l
  <1> QED  BY <1>3, <1>7, <1>8

\* What precedes a state in which a pass goes through the decisions of a quiet node.
LEMMA ApplyingBefore ==
    ASSUME TypeOK, PassSound, OwedCovers, NothingUnseen, PassFresh, [Next]_vars, ~Restart,
           NEW n \in Nodes, pass' # Absent, pass'.node = n, pass'.step = "apply",
           ~Stirs(n)', nodes'[n] # Absent
    PROVE  /\ pass # Absent /\ pass.node = n /\ ~Stirs(n) /\ nodes[n] # Absent
           /\ pass.cfg = ResolvedConfig /\ SameNode(pass.spec, nodes[n])
           /\ \/ BuildInputs /\ \A p \in Pods : ListedAlike(p)
              \/ pass.step = "apply" /\ UNCHANGED gauges
  <1>1. nodes[n] # Absent /\ (Stirs(n) => StartPass(n))
    BY QuietStep
  <1>2. ~\E k \in Nodes : StartPass(k)
    <2> SUFFICES ASSUME NEW k \in Nodes, StartPass(k) PROVE FALSE
      OBVIOUS
    <2> QED  BY StartFrame
  <1>3. /\ pass # Absent /\ pass.node = n
        /\ BuildInputs \/ (pass.step = "apply" /\ UNCHANGED gauges)
    <2>1. CASE UNCHANGED <<pass, backoff>>
      <3>1. ~Idle /\ pass.step = "apply"
        BY <2>1 DEF Idle
      <3> QED  BY <2>1, <3>1, GaugeSteps DEF StartForgets, Idle
    <2>2. CASE Tick
      <3>0. ~Idle
        BY <2>2 DEF Tick, Judging, Idle
      <3> QED  BY <2>2, <3>0, TickFrame DEF Tick, Idle
    <2>3. CASE Continue
      <3>1. ~ReadFails /\ ~EndPass
        BY DEF ReadFails, EndPass, Requeue, BackoffRequeue
      <3>2. ~Idle /\ pass \in Pass /\ pass.node = n
        BY <2>3, <3>1, ContinueFrame
      <3>3. ~ListPods
        BY <3>2 DEF ListPods, Pass
      <3> QED  BY <2>3, <3>1, <3>2, <3>3, ApplyFrame DEF Idle
    <2> QED  BY <1>2, <2>1, <2>2, <2>3, StepKinds
  <1>4. ~Stirs(n)
    BY <1>1, <1>2
  <1> QED  BY <1>1, <1>3, <1>4 DEF PassFresh, BuildInputs

\* A pass that manages whom a new one would has exported what it would.
PassTargets ==
    /\ pass # Absent /\ nodes[pass.node] # Absent /\ ~Stirs(pass.node)
    /\ pass.step = "apply" /\ podSeries[pass.node] = ManagedNow(pass.node)
    => \A p \in ManagedNow(pass.node) :
          podLimitCores[p] = DecisionsNow(pass.node)[p].target

\* The decisions of a pass that manages whom a new one would are a new one's, as far
\* as the targets go.
LEMMA BuildTargets ==
    ASSUME TypeOK, FloorSeen, NEW n \in Nodes, BuildInputs, pass.node = n, nodes[n] # Absent,
           pass.cfg = ResolvedConfig, SameNode(pass.spec, nodes[n]),
           \A p \in Pods : ListedAlike(p),
           podSeries'[n] = ManagedNow(n), NEW p \in ManagedNow(n)
    PROVE  podLimitCores'[p] = DecisionsNow(n)[p].target
  <1>1. ~Idle /\ p \in Pods
    BY DEF BuildInputs, ManagedNow
  <1>2. {q \in Pods : Managed(q)} = ManagedNow(n)
    BY DEF BuildInputs, TypeOK
  <1>3. PICK l \in [Here(n) -> Limits] :
          ComputeNode(pass.cfg.policy, pass.spec.allocatable, Inputs) = DecidedWith(n, l)
    BY <1>1, <1>2, BuildDecides
  <1>4. podLimitCores'[p] = DecidedWith(n, l)[p].target
    BY <1>1, <1>2, <1>3 DEF BuildInputs
  <1>5. DecisionsNow(n) = DecidedWith(n, CachedLimits(n))
    BY DecisionsNowWith
  <1> QED  BY <1>4, <1>5, CachedTyped, LimitsDecide

LEMMA PassTargetsNext ==
    ASSUME NothingUnseen, FloorSeen, FreshInv, PassTargets, [Next]_vars PROVE PassTargets'
  <1> SUFFICES ASSUME NEW n, n = pass'.node, pass' # Absent, nodes'[n] # Absent, ~Stirs(n)',
                      pass'.step = "apply", podSeries'[n] = ManagedNow(n)',
                      NEW p \in ManagedNow(n)'
               PROVE  podLimitCores'[p] = DecisionsNow(n)'[p].target
    BY DEF PassTargets
  <1>0. TypeOK /\ PassSound /\ OwedCovers /\ PassFresh /\ ~Restart
    BY DEF FreshInv, WakeInv, Restart
  <1>1. n \in Nodes /\ TypeOK'
    BY <1>0, TypeNext DEF TypeOK, Pass
  <1>2. /\ pass # Absent /\ pass.node = n /\ ~Stirs(n) /\ nodes[n] # Absent
        /\ pass.cfg = ResolvedConfig /\ SameNode(pass.spec, nodes[n])
        /\ \/ BuildInputs /\ \A q \in Pods : ListedAlike(q)
           \/ pass.step = "apply" /\ UNCHANGED gauges
    BY <1>0, <1>1, ApplyingBefore
  <1>3. ManagedNow(n)' = ManagedNow(n)
    BY <1>0, <1>1, QuietStep
  <1>4. DecisionsNow(n)'[p].target = DecisionsNow(n)[p].target
    BY <1>0, <1>1, <1>3, QuietTargets
  <1>5. CASE BuildInputs /\ \A q \in Pods : ListedAlike(q)
    BY <1>0, <1>1, <1>2, <1>3, <1>4, <1>5, BuildTargets
  <1>6. CASE pass.step = "apply" /\ UNCHANGED gauges
    BY <1>2, <1>3, <1>4, <1>6 DEF PassTargets
  <1> QED  BY <1>2, <1>5, <1>6

\* No pod's series is on two nodes' books at a time.  It is, for a while, when a pod
\* is deleted and created anew on another node: the old node's pass, if it comes
\* second, then deletes the series the new one has written.
SeriesApart == \A m, n \in Nodes : m # n => podSeries[m] \cap podSeries[n] = {}

LEMMA TargetsFreshNext ==
    ASSUME NothingUnseen, FloorSeen, FreshInv, PassTargets, SeriesApart, TargetsFresh,
           [Next]_vars
    PROVE  TargetsFresh'
  <1> SUFFICES ASSUME NEW n \in Nodes, AtRest(n)', nodes'[n] # Absent, NEW p \in ManagedNow(n)'
               PROVE  podLimitCores'[p] = DecisionsNow(n)'[p].target
    BY DEF TargetsFresh
  <1>0. /\ TypeOK /\ PassSound /\ OwedCovers /\ PassFresh /\ WakeInv /\ SeriesFresh
        /\ MovedWoken
    BY DEF FreshInv, WakeInv
  <1>1. ~Restart /\ ~Stirs(n)' /\ TypeOK'
    <2>1. ASSUME Restart PROVE NodeEvent(n) \in events'
      BY <2>1 DEF Restart, CreateEvents
    <2> QED  BY <1>0, <2>1, TypeNext DEF AtRest, Stirs
  <1>2. nodes[n] # Absent /\ ManagedNow(n)' = ManagedNow(n)
    BY <1>0, <1>1, QuietStep
  <1>3. DecisionsNow(n)'[p].target = DecisionsNow(n)[p].target
    BY <1>0, <1>1, <1>2, QuietTargets
  <1>4. p \in Pods /\ pods[p] # Absent /\ pods[p].node = n
    BY <1>2 DEF ManagedNow, CandidateNow
  <1>5. CASE AtRest(n)
    <2>1. podLimitCores[p] = DecisionsNow(n)[p].target
      BY <1>2, <1>5 DEF TargetsFresh
    <2>2. p \in podSeries[n] /\ ~Stirs(n)
      BY <1>0, <1>2, <1>5 DEF SeriesFresh, AtRest
    <2>3. ASSUME NEW m \in Nodes, StartForgets(m) PROVE podLimitCores'[p] = podLimitCores[p]
      <3>1. m # n
        BY <2>2, <2>3, AbsentAssumption DEF StartForgets, Stirs
      <3>2. p \notin podSeries[m]
        BY <2>2, <3>1 DEF SeriesApart
      <3> QED  BY <1>4, <2>3, <3>2 DEF StartForgets
    <2>4. ASSUME BuildInputs PROVE podLimitCores'[p] = podLimitCores[p]
      <3>1. pass # Absent /\ pass.node \in Nodes /\ pass.node # n
        BY <1>0, <1>5, <2>4, TypePass DEF BuildInputs, AtRest, Idle, Pass
      <3>2. p \notin podSeries[pass.node]
        BY <2>2, <3>1 DEF SeriesApart
      <3>3. pass.list[p] = Absent
        BY <1>0, <1>4, <2>2, <3>1, AbsentAssumption DEF MovedWoken, Woken, Stirs
      <3>4. ~Managed(p)
        BY <3>3 DEF Managed, Enrolled, Candidate
      <3> QED  BY <1>4, <2>4, <3>2, <3>4 DEF BuildInputs
    <2>5. podLimitCores'[p] = podLimitCores[p]
      BY <1>1, <2>3, <2>4, GaugeSteps
    <2> QED  BY <1>3, <2>1, <2>5
  <1>6. CASE ~AtRest(n)
    <2>1. /\ ~Stirs(n) /\ pass # Absent /\ pass.node = n /\ pass.step = "apply"
          /\ EndPass /\ WindowsAtJudgedAt = {}
      BY <1>0, <1>1, <1>6, RestedOrEnded
    <2>2. podSeries[n] = ManagedNow(n)
      BY <1>0, <1>2, <2>1, EndedFresh
    <2>3. podLimitCores[p] = DecisionsNow(n)[p].target
      BY <1>2, <2>1, <2>2 DEF PassTargets
    <2>4. UNCHANGED gauges
      BY <2>1 DEF EndPass
    <2> QED  BY <1>3, <2>3, <2>4
  <1> QED  BY <1>5, <1>6

\* Reconcile's per-pod gauge, syncPodMetrics and forgetNode: for any policy that
\* judges a target without the limits in force, and as long as no two nodes claim
\* a pod's series, the exported target of every managed pod on a node at rest is
\* the one a new pass would compute.
THEOREM TargetsAlwaysFresh ==
    ASSUME NothingUnseen, FloorSeen PROVE Spec /\ []SeriesApart => []TargetsFresh
  <1>1. Init => PassTargets /\ TargetsFresh
    <2> SUFFICES ASSUME Init PROVE PassTargets /\ TargetsFresh
      OBVIOUS
    <2>1. \A n \in Nodes : queue[n] # Absent
      BY AbsentAssumption DEF Init
    <2>2. \A n \in Nodes : Stirs(n)
      BY <2>1 DEF Stirs
    <2> QED  BY <2>2 DEF Init, PassTargets, TargetsFresh, AtRest
  <1>2. FreshInv /\ SeriesApart /\ PassTargets /\ TargetsFresh /\ [Next]_vars
          => PassTargets' /\ TargetsFresh'
    BY PassTargetsNext, TargetsFreshNext
  <1> QED  BY <1>1, <1>2, FreshInvariant, PTL DEF Spec
-----------------------------------------------------------------------------
(* The limits and annotations of a node at rest.                            *)

\* The decision about p if its limit were x.
Would(n, p, x) == DecidedWith(n, [CachedLimits(n) EXCEPT ![p] = x])[p]

LEMMA WouldTyped ==
    ASSUME TypeOK, NEW n \in Nodes, NEW p \in ManagedNow(n), NEW x \in Limits
    PROVE  /\ [CachedLimits(n) EXCEPT ![p] = x] \in [Here(n) -> Limits]
           /\ [CachedLimits(n) EXCEPT ![p] = x][p] = x
  <1>1. CachedLimits(n) \in [Here(n) -> Limits] /\ p \in Here(n)
    BY CachedTyped, ManagedHere
  <1> QED  BY <1>1

LEMMA SameDecision ==
    ASSUME NEW d \in Decision, NEW e \in Decision, d.target = e.target, d.apply = e.apply
    PROVE  d = e
  BY DEF Decision

\* The decision about p is the same whatever the limits of the others.
LEMMA WouldDecide ==
    ASSUME TypeOK, NEW n \in Nodes, nodes[n] # Absent, NEW p \in ManagedNow(n),
           NEW l \in [Here(n) -> Limits]
    PROVE  DecidedWith(n, l)[p] = Would(n, p, l[p])
  <1> DEFINE m == [CachedLimits(n) EXCEPT ![p] = l[p]]
  <1>1. l[p] \in Limits
    BY ManagedHere
  <1>2. m \in [Here(n) -> Limits] /\ m[p] = l[p]
    BY <1>1, WouldTyped
  <1>3. Would(n, p, l[p]) = DecidedWith(n, m)[p]
    BY DEF Would
  <1> HIDE DEF m
  <1>4. /\ DecidedWith(n, l)[p] \in Decision /\ DecidedWith(n, m)[p] \in Decision
        /\ DecidedWith(n, m)[p].target = DecidedWith(n, l)[p].target
        /\ DecidedWith(n, m)[p].apply = DecidedWith(n, l)[p].apply
    BY <1>2, LimitsDecide
  <1> QED  BY <1>3, <1>4, SameDecision

LEMMA WouldLaws ==
    ASSUME TypeOK, NEW n \in Nodes, nodes[n] # Absent, NEW p \in ManagedNow(n),
           NEW x \in Limits, NEW y \in Limits
    PROVE  /\ Would(n, p, x) \in Decision
           /\ Would(n, p, y).target = Would(n, p, x).target
           /\ Would(n, p, x).target >= pods[p].spec.request
           /\ y = Would(n, p, x).target => ~Would(n, p, y).apply
  <1> DEFINE l == [CachedLimits(n) EXCEPT ![p] = x]
             m == [CachedLimits(n) EXCEPT ![p] = y]
  <1>1. /\ l \in [Here(n) -> Limits] /\ l[p] = x
        /\ m \in [Here(n) -> Limits] /\ m[p] = y
    BY WouldTyped
  <1>2. Would(n, p, x) = DecidedWith(n, l)[p] /\ Would(n, p, y) = DecidedWith(n, m)[p]
    BY DEF Would
  <1> HIDE DEF l, m
  <1>3. /\ DecidedWith(n, l)[p] \in Decision
        /\ DecidedWith(n, m)[p].target = DecidedWith(n, l)[p].target
        /\ DecidedWith(n, l)[p].target >= pods[p].spec.request
    BY <1>1, LimitsDecide
  <1>4. m[p] = DecidedWith(n, m)[p].target => ~DecidedWith(n, m)[p].apply
    BY <1>1, LimitsDecide
  <1> QED  BY <1>1, <1>2, <1>3, <1>4

LEMMA WouldNow ==
    ASSUME TypeOK, NEW n \in Nodes, nodes[n] # Absent, NEW p \in ManagedNow(n)
    PROVE  DecisionsNow(n)[p] = Would(n, p, pods[p].limit)
  <1>1. CachedLimits(n) \in [Here(n) -> Limits] /\ CachedLimits(n)[p] = pods[p].limit
    BY CachedTyped, ManagedHere DEF CachedLimits
  <1> QED  BY <1>1, WouldDecide, DecisionsNowWith

\* A step after which nothing stirs n leaves it alone, too.
LEMMA QuietWould ==
    ASSUME TypeOK, TypeOK', OwedCovers, NothingUnseen, FloorSeen, [Next]_vars, ~Restart,
           NEW n \in Nodes, ~Stirs(n)', nodes'[n] # Absent, NEW p \in ManagedNow(n),
           NEW x \in Limits
    PROVE  Would(n, p, x)' = Would(n, p, x)
  <1>1. PICK m : m = [CachedLimits(n) EXCEPT ![p] = x]'
    OBVIOUS
  <1>2. Would(n, p, x)' = DecidedWith(n, m)'[p]
    BY <1>1 DEF Would
  <1>3. /\ Here(n)' = Here(n) /\ DecidedWith(n, m)' = DecidedWith(n, m)
        /\ nodes[n] # Absent
    BY QuietDecided, QuietStep
  <1>4. m \in [Here(n) -> Limits] /\ m[p] = x
    <2>1. CachedLimits(n)' \in [Here(n)' -> Limits]
      BY DEF TypeOK, CachedLimits, Here, OnNode, Pod
    <2>2. m = [CachedLimits(n)' EXCEPT ![p] = x] /\ p \in Here(n)
      BY <1>1, ManagedHere
    <2> QED  BY <1>3, <2>1, <2>2
  <1> QED  BY <1>2, <1>3, <1>4, WouldDecide

\* Two versions of a pod alike in what Reconcile writes.
WrittenAlike(a, b) == a.limit = b.limit /\ a.status = b.status

LEMMA SilentUpdate == ASSUME NEW a, NEW b, a # Absent => b # Absent /\ ~PodUpdateRelevant(a, b),
                             a = Absent => b = Absent
                      PROVE  PodEventNodes(a, b) = {}
  BY DEF PodEventNodes

LEMMA NoUpdate == ASSUME NEW a PROVE PodEventNodes(a, a) = {}
  BY SilentUpdate DEF PodUpdateRelevant

\* One version of q follows another.
Evolves(q) ==
    /\ owed'[q] = owed[q] \cup PodEventNodes(apiPods[q], apiPods'[q])
    /\ apiPods[q] # Absent /\ apiPods'[q] # Absent =>
          BornAlike(apiPods[q].spec, apiPods'[q].spec)

LEMMA EnvironmentEvolves ==
    ASSUME TypeOK, Environment, NEW q \in Pods
    PROVE  /\ Evolves(q)
           /\ apiPods[q] # Absent /\ apiPods'[q] # Absent /\ ~ManualEdits =>
                 WrittenAlike(apiPods[q], apiPods'[q])
  <1> DEFINE Goal == /\ Evolves(q)
                     /\ apiPods[q] # Absent /\ apiPods'[q] # Absent /\ ~ManualEdits =>
                           WrittenAlike(apiPods[q], apiPods'[q])
  <1>1. ASSUME NEW p \in Pods, NEW pod, SetPod(p, pod),
               apiPods[p] # Absent /\ pod # Absent =>
                  /\ BornAlike(apiPods[p].spec, pod.spec)
                  /\ ~ManualEdits => WrittenAlike(apiPods[p], pod)
        PROVE  Goal
    <2>1. CASE q = p
      <3>1. apiPods'[q] = pod /\ owed'[q] = owed[q] \cup PodEventNodes(apiPods[q], pod)
        BY <1>1, <2>1 DEF SetPod, TypeOK
      <3> QED  BY <1>1, <2>1, <3>1 DEF Evolves
    <2>2. CASE q # p
      <3>1. apiPods'[q] = apiPods[q] /\ owed'[q] = owed[q]
        BY <1>1, <2>2 DEF SetPod, TypeOK
      <3>2. PodEventNodes(apiPods[q], apiPods'[q]) = {}
        BY <3>1, NoUpdate
      <3> QED  BY <3>1, <3>2 DEF Evolves, BornAlike, WrittenAlike
    <2> QED  BY <2>1, <2>2
  <1>2. ASSUME UNCHANGED <<apiPods, owed>> PROVE Goal
    <2>1. PodEventNodes(apiPods[q], apiPods'[q]) = {}
      BY <1>2, NoUpdate
    <2> QED  BY <1>2, <2>1 DEF Evolves, BornAlike, WrittenAlike
  <1>3. \A p \in Pods : apiPods[p] # Absent => apiPods[p] \in Pod
    BY DEF TypeOK
  <1>4. ASSUME NEW p \in Pods, NEW s \in PodSpecs, NEW l \in BirthLimits, CreatePod(p, s, l)
        PROVE  Goal
    BY <1>1, <1>4 DEF CreatePod
  <1>5. ASSUME NEW p \in Pods, NEW n \in Nodes, BindPod(p, n) PROVE Goal
    <2> DEFINE pod == [apiPods[p] EXCEPT !.node = n]
    <2>1. pod.spec = apiPods[p].spec /\ pod.limit = apiPods[p].limit
            /\ pod.status = apiPods[p].status /\ SetPod(p, pod)
      BY <1>3, <1>5 DEF BindPod, Pod
    <2> HIDE DEF pod
    <2> QED  BY <1>1, <2>1 DEF BornAlike, WrittenAlike
  <1>6. ASSUME NEW p \in Pods, DeletePod(p) PROVE Goal
    BY <1>1, <1>6 DEF DeletePod
  <1>7. ASSUME NEW p \in Pods, FinishPod(p) PROVE Goal
    <2> DEFINE pod == [apiPods[p] EXCEPT !.terminal = TRUE]
    <2>1. pod.spec = apiPods[p].spec /\ pod.limit = apiPods[p].limit
            /\ pod.status = apiPods[p].status /\ SetPod(p, pod)
      BY <1>3, <1>7 DEF FinishPod, Running, Pod
    <2> HIDE DEF pod
    <2> QED  BY <1>1, <2>1 DEF BornAlike, WrittenAlike
  <1>8. ASSUME NEW p \in Pods, NEW s \in PodSpecs, ChangePod(p, s) PROVE Goal
    <2> DEFINE pod == [apiPods[p] EXCEPT !.spec = s]
    <2>1. pod.spec = s /\ pod.limit = apiPods[p].limit
            /\ pod.status = apiPods[p].status /\ SetPod(p, pod)
      BY <1>3, <1>8 DEF ChangePod, Running, Pod
    <2>2. BornAlike(apiPods[p].spec, s)
      BY <1>8 DEF ChangePod, BornAlike
    <2> HIDE DEF pod
    <2> QED  BY <1>1, <2>1, <2>2 DEF WrittenAlike
  <1>9. ASSUME NEW p \in Pods, NEW r \in ResizeStates \cup {"none"}, KubeletReports(p, r)
        PROVE  Goal
    <2> DEFINE pod == [apiPods[p] EXCEPT !.resize = r]
    <2>1. pod.spec = apiPods[p].spec /\ pod.limit = apiPods[p].limit
            /\ pod.status = apiPods[p].status /\ SetPod(p, pod)
      BY <1>3, <1>9 DEF KubeletReports, Running, Pod
    <2> HIDE DEF pod
    <2> QED  BY <1>1, <2>1 DEF BornAlike, WrittenAlike
  <1>10. ASSUME NEW p \in Pods, NEW l \in Limits, EditLimit(p, l) PROVE Goal
    <2> DEFINE pod == [apiPods[p] EXCEPT !.limit = l]
    <2>1. pod.spec = apiPods[p].spec /\ SetPod(p, pod) /\ ManualEdits
      BY <1>3, <1>10 DEF EditLimit, Running, Pod
    <2> HIDE DEF pod
    <2> QED  BY <1>1, <2>1 DEF BornAlike
  <1> QED  BY <1>2, <1>4, <1>5, <1>6, <1>7, <1>8, <1>9, <1>10
              DEF Environment, SetNode, SetConfig, SetNamespace, SetVPAs

\* A pass writes the limit or the annotation of a pod it has listed, and nobody is
\* told.
LEMMA ContinueEvolves ==
    ASSUME TypeOK, PassSound, Continue, NEW q \in Pods
    PROVE  /\ Evolves(q)
           /\ apiPods[q] = Absent <=> apiPods'[q] = Absent
           /\ pass.list[q] = Absent => apiPods'[q] = apiPods[q]
  <1> DEFINE Goal == /\ Evolves(q)
                     /\ apiPods[q] = Absent <=> apiPods'[q] = Absent
                     /\ pass.list[q] = Absent => apiPods'[q] = apiPods[q]
  <1>1. ASSUME UNCHANGED <<apiPods, owed>> PROVE Goal
    <2>1. PodEventNodes(apiPods[q], apiPods'[q]) = {}
      BY <1>1, NoUpdate
    <2> QED  BY <1>1, <2>1 DEF Evolves, BornAlike
  <1>2. ASSUME UNCHANGED owed, NEW p \in Pods, NEW pod \in Pod, apiPods[p] # Absent,
               pass.list[p] # Absent, apiPods' = [apiPods EXCEPT ![p] = pod],
               pod.node = apiPods[p].node, pod.spec = apiPods[p].spec,
               pod.terminal = apiPods[p].terminal, pod.resize = apiPods[p].resize
        PROVE  Goal
    <2>1. apiPods'[p] = pod /\ \A r \in Pods \ {p} : apiPods'[r] = apiPods[r]
      BY <1>2 DEF TypeOK
    <2>2. pod # Absent
      BY <1>2, AbsentAssumption
    <2>3. PodEventNodes(apiPods[q], apiPods'[q]) = {}
      BY <1>2, <2>1, <2>2, SilentUpdate, NoUpdate DEF PodUpdateRelevant
    <2> QED  BY <1>2, <2>1, <2>2, <2>3 DEF Evolves, BornAlike
  <1>3. ASSUME NEW p \in Pods, Annotate(p) PROVE Goal
    <2>0. UNCHANGED owed /\ pass.list[p] # Absent
      BY <1>3 DEF Annotate, PassSound, Idle
    <2>1. CASE UNCHANGED apiPods
      BY <1>1, <2>0, <2>1
    <2>2. ASSUME apiPods[p] # Absent, NEW desired \in Status,
                 apiPods' = [apiPods EXCEPT ![p].status = desired]
          PROVE  Goal
      <3> DEFINE pod == [apiPods[p] EXCEPT !.status = desired]
      <3>0. apiPods[p] \in Pod
        BY <2>2 DEF TypeOK
      <3>1. /\ pod \in Pod /\ pod.node = apiPods[p].node /\ pod.spec = apiPods[p].spec
            /\ pod.terminal = apiPods[p].terminal /\ pod.resize = apiPods[p].resize
        BY <3>0 DEF Pod
      <3>2. apiPods' = [apiPods EXCEPT ![p] = pod]
        BY <2>2 DEF TypeOK
      <3> HIDE DEF pod
      <3> QED  BY <1>2, <2>0, <2>2, <3>1, <3>2
    <2> DEFINE desired == [target |-> pass.decisions[p].target, dryRun |-> pass.cfg.dryRun]
    <2>3. desired \in Status
      BY <1>3, TypePass, ParameterAssumption DEF Annotate, Status, Decision, Pass
    <2> QED  BY <1>3, <2>1, <2>2, <2>3 DEF Annotate
  <1>4. CASE ResizeApplied
    <2>0. UNCHANGED owed /\ ~Idle /\ pass.current # Absent
      BY <1>4 DEF ResizeApplied, ResizeOutcome
    <2>1. /\ pass.current \in Pods /\ pass.list[pass.current] \in Pod
          /\ pass.decisions[pass.current] \in Decision
      BY <2>0, CurrentSound
    <2> DEFINE p == pass.current
               l == IF pass.list[p].spec.request > 0 THEN PatchedLimit ELSE apiPods[p].limit
               pod == [apiPods[p] EXCEPT !.limit = l]
    <2>2. apiPods[p] # Absent /\ apiPods[p] \in Pod
      BY <1>4, <2>1 DEF ResizeApplied, TypeOK
    <2>3. l \in Limits
      BY <2>1, <2>2, ParameterAssumption DEF PatchedLimit, Greatest, Decision, Pod
    <2>4. apiPods' = [apiPods EXCEPT ![p] = pod]
      BY <1>4, <2>1, <2>2 DEF ResizeApplied, TypeOK
    <2> HIDE DEF l
    <2>5. /\ pod \in Pod /\ pod.node = apiPods[p].node /\ pod.spec = apiPods[p].spec
          /\ pod.terminal = apiPods[p].terminal /\ pod.resize = apiPods[p].resize
      BY <2>2, <2>3 DEF Pod
    <2>6. pass.list[p] # Absent
      BY <2>1, AbsentAssumption
    <2> HIDE DEF pod, p
    <2> QED  BY <1>2, <2>0, <2>1, <2>2, <2>4, <2>5, <2>6 DEF p
  <1> QED  BY <1>1, <1>3, <1>4 DEF Continue, ListPods, BuildInputs, ReadFails,
       OutOfTokens, ResizeNotFound, ResizeConflict, ResizeForbidden, ResizeFails, EndPass

\* Where a step leaves the cache's copy of q: as it was, or caught up.
LEMMA PodVersions ==
    ASSUME TypeOK, PassSound, [Next]_vars, NEW q \in Pods
    PROVE  \/ apiPods' = apiPods /\ pods'[q] = apiPods[q] /\ owed'[q] = {}
           \/ pods'[q] = pods[q] /\ Evolves(q)
  <1>1. ASSUME UNCHANGED <<apiPods, owed, pods>> PROVE pods'[q] = pods[q] /\ Evolves(q)
    <2>1. PodEventNodes(apiPods[q], apiPods'[q]) = {}
      BY <1>1, NoUpdate
    <2> QED  BY <1>1, <2>1 DEF Evolves, BornAlike
  <1>2. ASSUME NEW p \in Pods, DeliverPod(p) \/ RelistPod(p)
        PROVE  \/ apiPods' = apiPods /\ pods'[q] = apiPods[q] /\ owed'[q] = {}
               \/ pods'[q] = pods[q] /\ Evolves(q)
    <2>1. CASE q = p
      BY <1>2, <2>1 DEF DeliverPod, RelistPod, TypeOK
    <2>2. CASE q # p
      <3>1. apiPods' = apiPods /\ pods'[q] = pods[q] /\ owed'[q] = owed[q]
        BY <1>2, <2>2 DEF DeliverPod, RelistPod, TypeOK
      <3>2. PodEventNodes(apiPods[q], apiPods'[q]) = {}
        BY <3>1, NoUpdate
      <3> QED  BY <3>1, <3>2 DEF Evolves, BornAlike
    <2> QED  BY <2>1, <2>2
  <1>3. CASE Environment
    BY <1>3, EnvironmentEvolves DEF Environment
  <1>4. CASE Continue
    BY <1>4, ContinueEvolves, ContinueFrame
  <1>5. CASE Restart
    BY <1>5 DEF Restart, TypeOK
  <1> QED
    BY <1>1, <1>2, <1>3, <1>4, <1>5 DEF Next, System, vars, Tick,
       Deliver, DeliverNode, DeliverConfig, DeliverNamespace, PollVPAs, PollFails, Refresh,
       Handle, HandlePodEvent, HandleNodeEvent, HandleConfigEvent, HandleNamespaceEvent,
       Start, StartUnsynced, StartForgets, StartPass

\* The watch skips no version of a pod; nobody else edits a managed limit; and a
\* pass lists its node once what its predecessors wrote is in the cache.
OwnWritesOnly == "watch" \notin FaultKinds /\ ~ManualEdits /\ CacheCatchesUp

LEMMA OwnWritesSeen == ASSUME OwnWritesOnly PROVE NothingUnseen /\ FloorSeen
  BY DEF OwnWritesOnly, NothingUnseen, FloorSeen

\* A cached pod that owes no event is the apiserver's, but for what Reconcile
\* writes; one that owes any owes one to its node.
OwedNode ==
    \A p \in Pods :
        pods[p] # Absent /\ pods[p].node # Absent =>
            \/ pods[p].node \in owed[p]
            \/ owed[p] = {} /\ apiPods[p] # Absent /\ SamePod(pods[p], apiPods[p])

LEMMA OwedNodeNext == ASSUME TypeOK, PassSound, OwedNode, [Next]_vars PROVE OwedNode'
  <1> SUFFICES ASSUME NEW p \in Pods, pods'[p] # Absent, pods'[p].node # Absent,
                      pods'[p].node \notin owed'[p]
               PROVE  owed'[p] = {} /\ apiPods'[p] # Absent /\ SamePod(pods'[p], apiPods'[p])
    BY DEF OwedNode
  <1>1. CASE apiPods' = apiPods /\ pods'[p] = apiPods[p] /\ owed'[p] = {}
    BY <1>1, SamePodRefl
  <1>2. CASE pods'[p] = pods[p] /\ Evolves(p)
    <2>1. owed'[p] = owed[p] \cup PodEventNodes(apiPods[p], apiPods'[p])
      BY <1>2 DEF Evolves
    <2>2. owed[p] = {} /\ apiPods[p] # Absent /\ SamePod(pods[p], apiPods[p])
      BY <1>2, <2>1 DEF OwedNode
    <2>3. apiPods[p].node = pods'[p].node /\ pods'[p].node \notin PodEventNodes(apiPods[p], apiPods'[p])
      BY <1>2, <2>1, <2>2, SamePodFields
    <2>4. apiPods'[p] # Absent /\ ~PodUpdateRelevant(apiPods[p], apiPods'[p])
      BY <2>2, <2>3 DEF PodEventNodes
    <2>5. owed'[p] = {}
      BY <2>1, <2>2, <2>4 DEF PodEventNodes
    <2>6. SamePod(apiPods[p], apiPods'[p])
      BY <1>2, <2>2, <2>4 DEF SamePod, Evolves, BornAlike
    <2> QED  BY <1>2, <2>2, <2>4, <2>5, <2>6, SamePodTrans
  <1> QED  BY <1>1, <1>2, PodVersions

\* A step after which nothing stirs n cannot have brought what a pod of n owes.
LEMMA QuietOwed ==
    ASSUME TypeOK, OwedNode, OwnWritesOnly, [Next]_vars, ~Restart, NEW n \in Nodes,
           ~Stirs(n)', NEW p \in Pods, OnNode(pods[p], n), owed'[p] = {}
    PROVE  owed[p] = {} /\ apiPods[p] # Absent
  <1>1. pods[p] # Absent /\ pods[p].node = n /\ n # Absent
    BY AbsentAssumption DEF OnNode
  <1>2. ASSUME n \in owed[p] PROVE FALSE
    <2>1. CASE UNCHANGED owed
      BY <1>2, <2>1
    <2>2. CASE Environment
      BY <1>2, <2>2, EnvironmentEvolves DEF Evolves
    <2>3. ASSUME NEW q \in Pods, DeliverPod(q) PROVE FALSE
      <3>1. p = q
        BY <1>2, <2>3 DEF DeliverPod, TypeOK
      <3>2. PodEvent(n) \in events'
        BY <1>2, <2>3, <3>1 DEF DeliverPod
      <3> QED  BY <3>2 DEF Stirs
    <2>4. ASSUME NEW q \in Pods, RelistPod(q) PROVE FALSE
      BY <2>4 DEF RelistPod, Fault, OwnWritesOnly
    <2> QED
      BY <2>1, <2>2, <2>3, <2>4 DEF Next, System, vars, Tick,
         Deliver, DeliverNode, DeliverConfig, DeliverNamespace, PollVPAs, PollFails, Refresh,
         Handle, HandlePodEvent, HandleNodeEvent, HandleConfigEvent, HandleNamespaceEvent,
         Start, StartUnsynced, StartForgets, StartPass, Continue, ListPods, BuildInputs,
         ReadFails, Annotate, OutOfTokens, ResizeApplied, ResizeNotFound, ResizeConflict,
         ResizeForbidden, ResizeFails, EndPass
  <1> QED  BY <1>1, <1>2 DEF OwedNode

\* Only a pass that has listed a pod writes to it.
LEMMA WritesKept ==
    ASSUME TypeOK, PassSound, OwnWritesOnly, [Next]_vars, NEW p \in Pods,
           apiPods[p] # Absent, apiPods'[p] # Absent, Continue => pass.list[p] = Absent
    PROVE  WrittenAlike(apiPods[p], apiPods'[p])
  <1>1. CASE UNCHANGED apiPods
    BY <1>1 DEF WrittenAlike
  <1>2. CASE Environment
    BY <1>2, EnvironmentEvolves DEF OwnWritesOnly
  <1>3. CASE Continue
    BY <1>3, ContinueEvolves DEF WrittenAlike
  <1> QED
    BY <1>1, <1>2, <1>3 DEF Next, System, vars, Tick, Restart,
       Deliver, DeliverPod, RelistPod, DeliverNode, DeliverConfig, DeliverNamespace, PollVPAs,
       PollFails, Refresh, Handle, HandlePodEvent, HandleNodeEvent, HandleConfigEvent,
       HandleNamespaceEvent, Start, StartUnsynced, StartForgets, StartPass

\* No annotation write fails.
StatusWritten == "status" \notin FaultKinds

\* The annotation of p, and the limit the apiserver has for it, are what a new pass
\* over n would leave alone.
Shown(n, p) == [target |-> Would(n, p, apiPods[p].limit).target,
                dryRun |-> ResolvedConfig.dryRun]

Settled(n, p) ==
    /\ StatusWritten => apiPods[p].status = Shown(n, p)
    /\ ResolvedConfig.dryRun \/ ~Would(n, p, apiPods[p].limit).apply

LEMMA QuietShown ==
    ASSUME TypeOK, TypeOK', OwedCovers, OwnWritesOnly, [Next]_vars, ~Restart,
           NEW n \in Nodes, ~Stirs(n)', nodes'[n] # Absent, NEW p \in ManagedNow(n),
           apiPods[p] # Absent, apiPods'[p] # Absent
    PROVE  /\ Shown(n, p)' = Shown(n, p)
           /\ apiPods'[p].limit = apiPods[p].limit =>
                 Would(n, p, apiPods[p].limit)' = Would(n, p, apiPods[p].limit)
  <1>0. NothingUnseen /\ FloorSeen /\ p \in Pods
    BY OwnWritesSeen DEF ManagedNow
  <1>1. PICK x, y : x = apiPods[p].limit /\ y = apiPods'[p].limit
    OBVIOUS
  <1>2. x \in Limits /\ y \in Limits
    BY <1>0, <1>1 DEF TypeOK, Pod
  <1>3. nodes[n] # Absent /\ ResolvedConfig' = ResolvedConfig
    BY <1>0, QuietStep
  <1>4. Would(n, p, y)' = Would(n, p, y)
    BY <1>0, <1>2, QuietWould
  <1>5. Would(n, p, y).target = Would(n, p, x).target
    BY <1>0, <1>2, <1>3, WouldLaws
  <1>6. Would(n, p, apiPods[p].limit)' = Would(n, p, y)'
    BY <1>1
  <1> QED  BY <1>1, <1>3, <1>4, <1>5, <1>6 DEF Shown

LEMMA SettledKept ==
    ASSUME TypeOK, TypeOK', OwedCovers, OwnWritesOnly, [Next]_vars, ~Restart,
           NEW n \in Nodes, ~Stirs(n)', nodes'[n] # Absent, NEW p \in ManagedNow(n),
           apiPods[p] # Absent, apiPods'[p] # Absent, WrittenAlike(apiPods[p], apiPods'[p]),
           Settled(n, p)
    PROVE  Settled(n, p)'
  <1>1. ResolvedConfig' = ResolvedConfig
    BY OwnWritesSeen, QuietStep
  <1>2. /\ Shown(n, p)' = Shown(n, p)
        /\ Would(n, p, apiPods[p].limit)' = Would(n, p, apiPods[p].limit)
    BY QuietShown DEF WrittenAlike
  <1> QED  BY <1>1, <1>2 DEF Settled, WrittenAlike

LEMMA SamePodSym == ASSUME NEW a, NEW b, SamePod(a, b) PROVE SamePod(b, a)
  BY DEF SamePod, PodUpdateRelevant

Current(p) == pass.current # Absent /\ pass.current = p

\* A decision about p yet to be gone through is what a new pass would decide, from
\* the annotation in force.  That is written by the time the resize is next.
Pending(n, p) ==
    /\ pass.decisions[p] = Would(n, p, apiPods[p].limit)
    /\ SamePod(pass.list[p], pods[p])
    /\ pass.list[p].status = apiPods[p].status
    /\ Current(p) => ~pass.cfg.dryRun /\ (StatusWritten => apiPods[p].status = Shown(n, p))

\* A pod without one is settled, or the pass has a reason to come back.
Handled(n, p) ==
    IF pass.decisions[p] # Absent
    THEN Pending(n, p)
    ELSE pass.rateLimited \/ pass.failed \/ backoff[p] # Absent \/ Settled(n, p)

\* While nothing stirs its node, a pass works on the limits and annotations that the
\* apiserver has, for every pod whose cached copy is current.
PassSettles ==
    pass # Absent /\ nodes[pass.node] # Absent /\ ~Stirs(pass.node) =>
        /\ pass.step = "build" =>
              \A p \in Pods : pass.list[p] # Absent /\ owed[p] = {} =>
                  WrittenAlike(pass.list[p], apiPods[p])
        /\ pass.step = "apply" /\ podSeries[pass.node] = ManagedNow(pass.node) =>
              \A p \in ManagedNow(pass.node) : owed[p] = {} => Handled(pass.node, p)

\* How a pass comes to have listed its pods and not yet gone on.
LEMMA BuildingBefore ==
    ASSUME TypeOK, PassSound, [Next]_vars, ~Restart, pass' # Absent, pass'.step = "build"
    PROVE  /\ pass # Absent /\ pass.node = pass'.node
           /\ \/ ListPods
              \/ ~Continue /\ pass.step = "build" /\ pass'.list = pass.list
  <1>1. ASSUME Continue PROVE ListPods /\ pass # Absent /\ pass.node = pass'.node
    <2>1. ~ReadFails /\ ~EndPass
      BY DEF ReadFails, EndPass, Requeue, BackoffRequeue
    <2>2. pass \in Pass /\ ~Idle /\ pass'.node = pass.node
      BY <1>1, <2>1, ContinueFrame
    <2>3. ~BuildInputs
      BY <2>2 DEF BuildInputs, Pass
    <2> QED  BY <1>1, <2>1, <2>2, <2>3, ApplyFrame DEF Idle
  <1>2. ASSUME NEW m \in Nodes, StartPass(m) PROVE FALSE
    BY <1>2, StartFrame
  <1>3. ASSUME Tick PROVE pass # Absent /\ pass.node = pass'.node /\ pass.step = "build"
                          /\ pass'.list = pass.list
    <2>1. ~Idle
      BY <1>3 DEF Tick, Judging, Idle
    <2> QED  BY <1>3, <2>1, TickFrame DEF Idle
  <1> QED  BY <1>1, <1>2, <1>3, StepKinds

\* A listed pod of a node that nothing stirs is still there.
LEMMA ListedHere ==
    ASSUME PassFresh, pass # Absent, NEW n, pass.node = n, nodes[n] # Absent, ~Stirs(n),
           pass.step = "build", NEW p \in Pods, pass.list[p] # Absent
    PROVE  OnNode(pods[p], n) /\ SamePod(pass.list[p], pods[p])
  BY DEF PassFresh, ListedAlike

LEMMA BuildingSettles ==
    ASSUME OwnWritesOnly, FreshInv, FreshInv', OwedNode, OwedNode', PassSettles, [Next]_vars, ~Restart,
           NEW n \in Nodes, pass' # Absent, pass'.node = n, nodes'[n] # Absent, ~Stirs(n)',
           pass'.step = "build", NEW p \in Pods, pass'.list[p] # Absent, owed'[p] = {}
    PROVE  WrittenAlike(pass'.list[p], apiPods'[p])
  <1>0. TypeOK /\ PassSound /\ OwedCovers /\ PassFresh /\ PassFresh' /\ NothingUnseen
    BY OwnWritesSeen DEF FreshInv, WakeInv
  <1>1. /\ pass # Absent /\ pass.node = n
        /\ \/ ListPods
           \/ ~Continue /\ pass.step = "build" /\ pass'.list = pass.list
    BY <1>0, BuildingBefore
  <1>2. OnNode(pods'[p], n)
    BY <1>0 DEF PassFresh, ListedAlike
  <1>3. nodes[n] # Absent /\ OnNode(pods[p], n) /\ ~Stirs(n)
    <2>1. ~StartPass(n)
      BY <1>1 DEF StartPass, Idle
    <2> QED  BY <1>0, <1>2, <2>1, QuietStep
  <1>4. owed[p] = {} /\ apiPods[p] # Absent
    BY <1>0, <1>3, QuietOwed
  <1>5. apiPods'[p] # Absent
    BY <1>2, AbsentAssumption DEF OwedNode, OnNode
  <1>6. CASE ListPods
    <2>1. /\ pass'.list[p] = pods[p] /\ apiPods' = apiPods
      BY <1>0, <1>1, <1>6, TypePass DEF ListPods, Pass
    <2>2. OwnWritesCached(n)
      BY <1>1, <1>6 DEF ListPods, OwnWritesOnly
    <2> QED  BY <1>3, <1>4, <2>1, <2>2 DEF OwnWritesCached, WrittenAlike
  <1>7. CASE ~Continue /\ pass.step = "build" /\ pass'.list = pass.list
    <2>1. WrittenAlike(pass.list[p], apiPods[p])
      BY <1>1, <1>3, <1>4, <1>7 DEF PassSettles
    <2>2. WrittenAlike(apiPods[p], apiPods'[p])
      BY <1>0, <1>4, <1>5, <1>7, WritesKept
    <2> QED  BY <1>7, <2>1, <2>2 DEF WrittenAlike
  <1> QED  BY <1>1, <1>6, <1>7

\* buildInputs and policy.Compute, of a pod whose listed limit is the apiserver's.
LEMMA BuiltPending ==
    ASSUME TypeOK, TypeOK', PassSound, OwedCovers, OwnWritesOnly, [Next]_vars, ~Restart,
           BuildInputs, NEW n \in Nodes,
           pass.node = n, nodes[n] # Absent, nodes'[n] # Absent, ~Stirs(n)',
           pass.cfg = ResolvedConfig, SameNode(pass.spec, nodes[n]),
           \A q \in Pods : ListedAlike(q),
           podSeries'[n] = ManagedNow(n), NEW p \in ManagedNow(n), apiPods[p] # Absent,
           WrittenAlike(pass.list[p], apiPods[p])
    PROVE  pass'.decisions[p] # Absent /\ Pending(n, p)'
  <1>0. NothingUnseen /\ FloorSeen /\ p \in Pods /\ p \in Here(n) /\ ~Idle /\ pass \in Pass
    BY OwnWritesSeen, ManagedHere, TypePass DEF ManagedNow, BuildInputs
  <1>1. {q \in Pods : Managed(q)} = ManagedNow(n)
    BY <1>0 DEF BuildInputs, TypeOK
  <1>2. PICK l \in [Here(n) -> Limits] :
          /\ \A q \in Here(n) : l[q] = pass.list[q].limit
          /\ ComputeNode(pass.cfg.policy, pass.spec.allocatable, Inputs) = DecidedWith(n, l)
    BY <1>0, <1>1, BuildDecides
  <1>3. pass' = [pass EXCEPT !.step = "apply",
                   !.decisions = [q \in Pods |-> IF q \in ManagedNow(n)
                                                 THEN DecidedWith(n, l)[q] ELSE Absent]]
    BY <1>1, <1>2 DEF BuildInputs
  <1>4. /\ pass'.decisions[p] = DecidedWith(n, l)[p] /\ pass'.list = pass.list
        /\ pass'.current = pass.current /\ UNCHANGED <<apiPods, pods>>
    BY <1>0, <1>3 DEF BuildInputs, Pass
  <1>5. l[p] = apiPods[p].limit
    BY <1>0, <1>2 DEF WrittenAlike
  <1>6. pass'.decisions[p] = Would(n, p, apiPods[p].limit)
    BY <1>4, <1>5, WouldDecide
  <1>7. Would(n, p, apiPods[p].limit) \in Decision
    BY <1>2, <1>5, <1>0, WouldLaws
  <1>8. Would(n, p, apiPods[p].limit)' = Would(n, p, apiPods[p].limit)
    BY <1>0, <1>4, QuietShown
  <1>9. ~Current(p)'
    <2>1. pass.current = Absent
      BY <1>0, AbsentAssumption DEF PassSound, BuildInputs, Idle, Pass
    <2> QED  BY <1>4, <2>1 DEF Current
  <1>10. SamePod(pass.list[p], pods[p])
    BY <1>0 DEF ListedAlike, Here
  <1>11. pass'.list[p].status = apiPods'[p].status
    BY <1>4 DEF WrittenAlike
  <1> QED  BY <1>4, <1>6, <1>7, <1>8, <1>9, <1>10, <1>11, AbsentAssumption DEF Pending

\* A step that leaves p's place in the pass alone.
LEMMA HandledKept ==
    ASSUME TypeOK, TypeOK', OwedCovers, OwnWritesOnly, [Next]_vars, ~Restart,
           NEW n \in Nodes, ~Stirs(n)', nodes'[n] # Absent, NEW p \in ManagedNow(n),
           apiPods[p] # Absent, apiPods'[p] # Absent, WrittenAlike(apiPods[p], apiPods'[p]),
           Handled(n, p),
           pass'.decisions[p] = pass.decisions[p], pass'.list[p] = pass.list[p],
           Current(p)' => Current(p), pass'.cfg = pass.cfg,
           pass.rateLimited => pass'.rateLimited, pass.failed => pass'.failed,
           backoff[p] # Absent => backoff'[p] # Absent
    PROVE  Handled(n, p)'
  <1>0. NothingUnseen /\ FloorSeen /\ p \in Pods /\ OnNode(pods[p], n)
    BY OwnWritesSeen DEF ManagedNow, CandidateNow, OnNode
  <1>1. CASE pass.decisions[p] = Absent
    BY <1>1, SettledKept DEF Handled
  <1>2. CASE pass.decisions[p] # Absent
    <2>1. Pending(n, p)
      BY <1>2 DEF Handled
    <2>2. /\ Shown(n, p)' = Shown(n, p)
          /\ Would(n, p, apiPods[p].limit)' = Would(n, p, apiPods[p].limit)
      BY QuietShown DEF WrittenAlike
    <2>3. SamePod(pass'.list[p], pods'[p])
      BY <1>0, <2>1, QuietPods, SamePodTrans DEF Pending
    <2>4. Pending(n, p)'
      BY <2>1, <2>2, <2>3 DEF Pending, WrittenAlike
    <2> QED  BY <1>2, <2>4 DEF Handled
  <1> QED  BY <1>1, <1>2

\* writePodStatus of p itself.
LEMMA HandledAnnotate ==
    ASSUME TypeOK, TypeOK', PassSound, OwedCovers, OwedNode, OwnWritesOnly, [Next]_vars,
           ~Restart, NEW n \in Nodes, ~Stirs(n)', nodes'[n] # Absent, pass.cfg = ResolvedConfig,
           NEW p \in ManagedNow(n), owed[p] = {}, apiPods[p] # Absent, apiPods'[p] # Absent,
           Handled(n, p), Annotate(p)
    PROVE  Handled(n, p)'
  <1> DEFINE resize == pass.decisions[p].apply /\ ~pass.cfg.dryRun
             desired == [target |-> pass.decisions[p].target, dryRun |-> pass.cfg.dryRun]
  <1>0. /\ NothingUnseen /\ FloorSeen /\ p \in Pods /\ OnNode(pods[p], n)
        /\ pass \in Pass /\ pods' = pods /\ apiPods[p] \in Pod
    BY OwnWritesSeen, TypePass DEF ManagedNow, CandidateNow, OnNode, Annotate, TypeOK
  <1>1. pass.decisions[p] # Absent /\ Pending(n, p)
    BY DEF Annotate, Handled
  <1>2. desired = Shown(n, p)
    BY <1>1 DEF Pending, Shown
  <1>3. SamePod(apiPods[p], pods[p])
    BY <1>0, AbsentAssumption, SamePodSym DEF OwedNode, OnNode
  <1>4. /\ apiPods'[p].limit = apiPods[p].limit
        /\ StatusWritten => apiPods'[p].status = desired
        /\ SamePod(pass'.list[p], pods'[p])
        /\ pass'.list[p].status = apiPods'[p].status
        /\ pass'.current = IF resize THEN p ELSE Absent
        /\ pass'.decisions = IF resize THEN pass.decisions ELSE Finish(p)
        /\ pass'.cfg = pass.cfg
    <2> DEFINE next(obj) == [pass EXCEPT
                               !.list[p] = obj,
                               !.current = IF resize THEN p ELSE Absent,
                               !.decisions = IF resize THEN @ ELSE Finish(p)]
    <2>1. ASSUME NEW obj, pass' = next(obj)
          PROVE  /\ pass'.list[p] = obj
                 /\ pass'.current = IF resize THEN p ELSE Absent
                 /\ pass'.decisions = IF resize THEN pass.decisions ELSE Finish(p)
                 /\ pass'.cfg = pass.cfg
      BY <1>0, <2>1 DEF Pass
    <2>2. CASE apiPods' = [apiPods EXCEPT ![p].status = desired]
               /\ pass' = next([apiPods[p] EXCEPT !.status = desired])
      <3> DEFINE obj == [apiPods[p] EXCEPT !.status = desired]
      <3>1. apiPods'[p] = obj
        BY <1>0, <2>2 DEF TypeOK
      <3>2. /\ obj.status = desired /\ obj.limit = apiPods[p].limit /\ obj.spec = apiPods[p].spec
            /\ obj.node = apiPods[p].node /\ obj.terminal = apiPods[p].terminal
            /\ obj.resize = apiPods[p].resize
        BY <1>0 DEF Pod
      <3>3. obj # Absent /\ pass' = next(obj)
        BY <2>2, <3>1
      <3> HIDE DEF obj, next, desired
      <3>4. SamePod(obj, pods[p])
        BY <1>3, <3>2, <3>3 DEF SamePod, PodUpdateRelevant
      <3> QED  BY <1>0, <2>1, <3>1, <3>2, <3>3, <3>4
    <2>3. CASE UNCHANGED apiPods /\ pass' = next(pass.list[p])
               /\ (StatusWritten => pass.list[p].status = desired)
      <3> HIDE DEF next, desired
      <3> QED  BY <1>0, <1>1, <2>1, <2>3 DEF Pending
    <2> QED  BY <2>2, <2>3 DEF Annotate, Fault, StatusWritten
  <1>5. /\ Shown(n, p)' = Shown(n, p)
        /\ Would(n, p, apiPods[p].limit)' = Would(n, p, apiPods[p].limit)
    BY <1>4, QuietShown
  <1> HIDE DEF desired
  <1>6. CASE resize
    <2>1. Pending(n, p)' /\ pass'.decisions[p] # Absent
      BY <1>1, <1>2, <1>4, <1>5, <1>6 DEF Pending
    <2> QED  BY <2>1 DEF Handled
  <1>7. CASE ~resize
    <2>1. pass'.decisions[p] = Absent
      BY <1>0, <1>4, <1>7 DEF Finish, Pass
    <2>2. ResolvedConfig' = ResolvedConfig
      BY <1>0, QuietStep
    <2>3. ResolvedConfig.dryRun \/ ~Would(n, p, apiPods[p].limit).apply
      BY <1>1, <1>7 DEF Pending
    <2>4. Settled(n, p)'
      BY <1>2, <1>4, <1>5, <2>2, <2>3 DEF Settled
    <2> QED  BY <2>1, <2>4 DEF Handled
  <1> QED  BY <1>6, <1>7

\* applyResize of p itself.
LEMMA HandledResize ==
    ASSUME TypeOK, TypeOK', PassSound, OwedCovers, OwnWritesOnly, [Next]_vars, ~Restart,
           NEW n \in Nodes, ~Stirs(n)', nodes'[n] # Absent, nodes[n] # Absent,
           pass.cfg = ResolvedConfig, NEW p \in ManagedNow(n), apiPods[p] # Absent,
           apiPods'[p] # Absent, Handled(n, p), pass # Absent, Current(p),
           ResizeApplied \/ ResizeNotFound \/ ResizeConflict \/ ResizeForbidden \/ ResizeFails
    PROVE  Handled(n, p)'
  <1>0. /\ NothingUnseen /\ FloorSeen /\ p \in Pods /\ pass.current = p /\ ~Idle
        /\ pass \in Pass /\ apiPods[p] \in Pod /\ pass.current # Absent
        /\ pass.decisions[p] \in Decision /\ pass.decisions[p] # Absent
    BY OwnWritesSeen, CurrentSound, AbsentAssumption DEF ManagedNow, Current, Idle, TypeOK
  <1>1. Pending(n, p)
    BY <1>0 DEF Handled
  <1>2. PICK outcome : ResizeOutcome(outcome) /\
          \/ outcome = "applied" /\ ResizeApplied
          \/ outcome = "notFound" /\ ResizeNotFound
          \/ outcome = "conflict" /\ ResizeConflict
          \/ outcome = "forbidden" /\ ResizeForbidden
          \/ outcome = "error" /\ ResizeFails
    BY DEF ResizeApplied, ResizeNotFound, ResizeConflict, ResizeForbidden, ResizeFails
  <1>3. /\ pass'.decisions[p] = Absent
        /\ pass'.rateLimited = (pass.rateLimited \/ outcome = "conflict")
        /\ pass'.failed = (pass.failed \/ outcome = "error")
    BY <1>0, <1>2 DEF ResizeOutcome, Finish, Pass
  <1>4. CASE outcome = "conflict" \/ outcome = "error"
    BY <1>3, <1>4 DEF Handled
  <1>5. CASE ResizeNotFound
    BY <1>0, <1>5 DEF ResizeNotFound
  <1>6. CASE ResizeForbidden
    <2>1. backoff'[p] = BackoffPeriod
      BY <1>0, <1>6 DEF ResizeForbidden, TypeOK
    <2>2. BackoffPeriod # Absent
      BY ParameterAssumption, AbsentAssumption
    <2> QED  BY <1>3, <2>1, <2>2 DEF Handled
  <1>7. CASE ResizeApplied
    <2>1. PICK x, y : x = apiPods[p].limit /\ y = Would(n, p, x).target
      OBVIOUS
    <2>2. x \in Limits /\ Would(n, p, x) \in Decision /\ y \in Limits
          /\ y >= pods[p].spec.request
      <3>1. x \in Limits
        BY <1>0, <2>1 DEF Pod
      <3> QED  BY <2>1, <3>1, WouldLaws DEF Decision
    <2>3. /\ pass.list[p].spec.request = pods[p].spec.request
          /\ pods[p].spec.request > 0
      BY <1>1, SamePodFields DEF Pending, ManagedNow, CandidateNow, Eligible
    <2>4. PatchedLimit = y
      BY <1>0, <1>1, <2>1, <2>2, <2>3 DEF PatchedLimit, Greatest, Pending
    <2>5. apiPods'[p] = [apiPods[p] EXCEPT !.limit = y]
      BY <1>0, <1>7, <2>3, <2>4 DEF ResizeApplied, TypeOK
    <2>6. apiPods'[p].limit = y /\ apiPods'[p].status = apiPods[p].status
      BY <1>0, <2>5 DEF Pod
    <2>7. Would(n, p, apiPods[p].limit)' = Would(n, p, y)
      BY <1>0, <2>2, <2>6, QuietWould
    <2>8. ~Would(n, p, y).apply
      BY <2>1, <2>2, WouldLaws
    <2>9. Shown(n, p)' = Shown(n, p)
      BY QuietShown
    <2>10. Settled(n, p)'
      <3>1. StatusWritten => apiPods[p].status = Shown(n, p)
        BY <1>1 DEF Pending
      <3> QED  BY <2>6, <2>7, <2>8, <2>9, <3>1 DEF Settled
    <2> QED  BY <1>3, <2>10 DEF Handled
  <1> QED  BY <1>2, <1>4, <1>5, <1>6, <1>7

LEMMA ApplyingSettles ==
    ASSUME OwnWritesOnly, FreshInv, FreshInv', OwedNode, OwedNode', PassSettles, [Next]_vars,
           ~Restart, NEW n \in Nodes, pass' # Absent, pass'.node = n, nodes'[n] # Absent,
           ~Stirs(n)', pass'.step = "apply", podSeries'[n] = ManagedNow(n)',
           NEW p \in ManagedNow(n)', owed'[p] = {}
    PROVE  Handled(n, p)'
  <1>0. /\ TypeOK /\ TypeOK' /\ PassSound /\ OwedCovers /\ PassFresh
        /\ NothingUnseen /\ FloorSeen
    BY OwnWritesSeen DEF FreshInv, WakeInv
  <1>1. /\ pass # Absent /\ pass.node = n /\ ~Stirs(n) /\ nodes[n] # Absent
        /\ pass.cfg = ResolvedConfig /\ SameNode(pass.spec, nodes[n])
        /\ \/ BuildInputs /\ \A q \in Pods : ListedAlike(q)
           \/ pass.step = "apply" /\ UNCHANGED gauges
    BY <1>0, ApplyingBefore
  <1>2. p \in ManagedNow(n) /\ ManagedNow(n)' = ManagedNow(n)
    BY <1>0, QuietStep
  <1>3. p \in Pods /\ OnNode(pods[p], n) /\ OnNode(pods'[p], n) /\ p \in Here(n)
    BY <1>2, ManagedHere DEF ManagedNow, CandidateNow, OnNode
  <1>4. owed[p] = {} /\ apiPods[p] # Absent
    BY <1>0, <1>3, QuietOwed
  <1>5. apiPods'[p] # Absent
    BY <1>3, AbsentAssumption DEF OwedNode, OnNode
  <1>6. CASE BuildInputs /\ \A q \in Pods : ListedAlike(q)
    <2>1. SamePod(pass.list[p], pods[p]) /\ pass.step = "build"
      BY <1>1, <1>3, <1>6 DEF ListedAlike, Here, BuildInputs
    <2>2. WrittenAlike(pass.list[p], apiPods[p])
      BY <1>1, <1>3, <1>4, <2>1 DEF PassSettles, SamePod
    <2>3. pass'.decisions[p] # Absent /\ Pending(n, p)'
      BY <1>0, <1>1, <1>2, <1>4, <1>6, <2>2, BuiltPending
    <2> QED  BY <2>3 DEF Handled
  <1>7. CASE pass.step = "apply" /\ UNCHANGED gauges
    <2>1. Handled(n, p)
      BY <1>1, <1>2, <1>4, <1>7 DEF PassSettles
    <2>2. CASE ~Continue
      <3>1. WrittenAlike(apiPods[p], apiPods'[p])
        BY <1>0, <1>3, <1>4, <1>5, <2>2, WritesKept
      <3>2. /\ pass'.decisions = pass.decisions /\ pass'.list = pass.list
            /\ pass'.current = pass.current /\ pass'.cfg = pass.cfg
            /\ pass'.rateLimited = pass.rateLimited /\ pass'.failed = pass.failed
            /\ backoff[p] # Absent => backoff'[p] # Absent
        <4>1. CASE UNCHANGED <<pass, backoff>>
          BY <4>1
        <4>2. CASE Tick
          <5>1. pass \in Pass /\ pass' = [pass EXCEPT !.elapsed = @ + 1]
            BY <1>0, <1>1, <1>7, <4>2, TypePass DEF Tick, Judging, Idle
          <5>2. backoff[p] # Absent => backoff[p] - 1 # Absent
            BY <1>0, <1>3, AbsentAssumption, ParameterAssumption DEF TypeOK, LongEnded
          <5>3. backoff[p] # Absent => backoff'[p] # Absent
            BY <1>3, <4>2, <5>2 DEF Tick, TickedBackoff
          <5> QED  BY <5>1, <5>3 DEF Pass
        <4>3. ASSUME NEW m \in Nodes, StartPass(m) PROVE FALSE
          BY <1>1, <4>3 DEF StartPass, Idle
        <4> QED  BY <2>2, <4>1, <4>2, <4>3, StepKinds
      <3> QED  BY <1>0, <1>2, <1>4, <1>5, <2>1, <3>1, <3>2, HandledKept DEF Current
    <2>3. ASSUME NEW q \in Pods, Annotate(q) PROVE Handled(n, p)'
      <3>1. CASE q = p
        BY <1>0, <1>1, <1>2, <1>4, <1>5, <2>1, <2>3, <3>1, HandledAnnotate
      <3>2. CASE q # p
        <4>0. pass \in Pass /\ UNCHANGED backoff
          BY <1>0, <2>3, TypePass DEF Annotate
        <4>1. apiPods'[p] = apiPods[p]
          BY <1>0, <1>3, <2>3, <3>2 DEF Annotate, TypeOK
        <4>2. /\ pass'.decisions[p] = pass.decisions[p] /\ pass'.list[p] = pass.list[p]
              /\ pass'.current \in {q, Absent} /\ pass'.cfg = pass.cfg
              /\ pass'.rateLimited = pass.rateLimited /\ pass'.failed = pass.failed
          <5>1. PICK obj \in Pod :
                  pass' = [pass EXCEPT
                             !.list[q] = obj,
                             !.current = IF pass.decisions[q].apply /\ ~pass.cfg.dryRun
                                         THEN q ELSE Absent,
                             !.decisions = IF pass.decisions[q].apply /\ ~pass.cfg.dryRun
                                           THEN @ ELSE Finish(q)]
            BY <1>0, <2>3, AnnotateObject
          <5> QED  BY <1>3, <3>2, <4>0, <5>1 DEF Pass, Finish
        <4>3. ~Current(p)'
          BY <3>2, <4>2 DEF Current
        <4>4. WrittenAlike(apiPods[p], apiPods'[p])
          BY <4>1 DEF WrittenAlike
        <4> QED  BY <1>0, <1>2, <1>4, <1>5, <2>1, <4>0, <4>2, <4>3, <4>4, HandledKept
      <3> QED  BY <3>1, <3>2
    <2>4. CASE OutOfTokens
      <3>1. pass'.decisions[p] = Absent /\ pass'.rateLimited
        BY <1>0, <1>3, <2>4, TypePass DEF OutOfTokens, NoList, Pass
      <3> QED  BY <3>1 DEF Handled
    <2>5. CASE ResizeApplied \/ ResizeNotFound \/ ResizeConflict \/ ResizeForbidden \/ ResizeFails
      <3>1. CASE Current(p)
        BY <1>0, <1>1, <1>2, <1>4, <1>5, <2>1, <2>5, <3>1, HandledResize
      <3>2. CASE ~Current(p)
        <4>0. ~Idle /\ pass.current # Absent /\ pass.current # p /\ pass \in Pass
          BY <1>0, <2>5, <3>2, TypePass DEF Current, ResizeOutcome, ResizeApplied,
             ResizeNotFound, ResizeConflict, ResizeForbidden, ResizeFails
        <4>1. apiPods'[p] = apiPods[p]
          BY <1>0, <1>3, <2>5, <4>0 DEF ResizeApplied, ResizeNotFound, ResizeConflict,
             ResizeForbidden, ResizeFails, TypeOK
        <4>2. ASSUME NEW outcome, ResizeOutcome(outcome)
              PROVE  /\ pass'.decisions[p] = pass.decisions[p] /\ pass'.list[p] = pass.list[p]
                     /\ pass'.current = Absent /\ pass'.cfg = pass.cfg
                     /\ pass.rateLimited => pass'.rateLimited
                     /\ pass.failed => pass'.failed
          BY <1>3, <4>0, <4>2 DEF ResizeOutcome, Finish, Pass
        <4>3. backoff'[p] = backoff[p]
          BY <1>0, <1>3, <2>5, <4>0 DEF ResizeApplied, ResizeNotFound, ResizeConflict,
             ResizeForbidden, ResizeFails, TypeOK
        <4>4. WrittenAlike(apiPods[p], apiPods'[p])
          BY <4>1 DEF WrittenAlike
        <4>5. \E outcome : ResizeOutcome(outcome)
          BY <2>5 DEF ResizeApplied, ResizeNotFound, ResizeConflict, ResizeForbidden, ResizeFails
        <4>6. /\ pass'.decisions[p] = pass.decisions[p] /\ pass'.list[p] = pass.list[p]
              /\ ~Current(p)' /\ pass'.cfg = pass.cfg
              /\ pass.rateLimited => pass'.rateLimited
              /\ pass.failed => pass'.failed
          BY <4>2, <4>5 DEF Current
        <4> QED  BY <1>0, <1>2, <1>4, <1>5, <2>1, <4>3, <4>4, <4>6, HandledKept
      <3> QED  BY <3>1, <3>2
    <2>6. ~ListPods /\ ~BuildInputs /\ ~ReadFails /\ ~EndPass
      BY <1>7 DEF ListPods, BuildInputs, ReadFails, EndPass, Requeue, BackoffRequeue
    <2> QED  BY <2>2, <2>3, <2>4, <2>5, <2>6 DEF Continue
  <1> QED  BY <1>1, <1>6, <1>7

LEMMA PassSettlesNext ==
    ASSUME OwnWritesOnly, FreshInv, FreshInv', OwedNode, OwedNode', PassSettles, [Next]_vars
    PROVE  PassSettles'
  <1> SUFFICES ASSUME pass' # Absent, NEW n, n = pass'.node, nodes'[n] # Absent, ~Stirs(n)'
               PROVE  PassSettles'
    BY DEF PassSettles
  <1>0. ~Restart /\ n \in Nodes
    BY DEF Restart, FreshInv, WakeInv, TypeOK, Pass
  <1>1. ASSUME pass'.step = "build", NEW p \in Pods, pass'.list[p] # Absent, owed'[p] = {}
        PROVE  WrittenAlike(pass'.list[p], apiPods'[p])
    BY <1>0, <1>1, BuildingSettles
  <1>2. ASSUME pass'.step = "apply", podSeries'[n] = ManagedNow(n)',
               NEW p \in ManagedNow(n)', owed'[p] = {}
        PROVE  Handled(n, p)'
    BY <1>0, <1>2, ApplyingSettles
  <1> QED  BY <1>1, <1>2 DEF PassSettles

\* On a node at rest every managed pod whose cached copy is current is settled.
RestSettled ==
    \A n \in Nodes : AtRest(n) /\ nodes[n] # Absent =>
        \A p \in ManagedNow(n) : owed[p] = {} => Settled(n, p)

LEMMA RestSettledNext ==
    ASSUME OwnWritesOnly, FreshInv, FreshInv', OwedNode, OwedNode', PassSettles, RestSettled,
           [Next]_vars
    PROVE  RestSettled'
  <1> SUFFICES ASSUME NEW n \in Nodes, AtRest(n)', nodes'[n] # Absent,
                      NEW p \in ManagedNow(n)', owed'[p] = {}
               PROVE  Settled(n, p)'
    BY DEF RestSettled
  <1>0. /\ TypeOK /\ TypeOK' /\ PassSound /\ OwedCovers /\ PassFresh /\ WakeInv
        /\ MovedWoken /\ NothingUnseen
    BY OwnWritesSeen DEF FreshInv, WakeInv
  <1>1. ~Restart /\ ~Stirs(n)'
    <2>1. ASSUME Restart PROVE NodeEvent(n) \in events'
      BY <2>1 DEF Restart, CreateEvents
    <2> QED  BY <2>1 DEF AtRest, Stirs
  <1>2. nodes[n] # Absent /\ p \in ManagedNow(n)
    BY <1>0, <1>1, QuietStep
  <1>3. p \in Pods /\ OnNode(pods[p], n) /\ OnNode(pods'[p], n)
    BY <1>2 DEF ManagedNow, CandidateNow, OnNode
  <1>4. owed[p] = {} /\ apiPods[p] # Absent
    BY <1>0, <1>1, <1>3, QuietOwed
  <1>5. apiPods'[p] # Absent
    BY <1>3, AbsentAssumption DEF OwedNode, OnNode
  <1>6. CASE AtRest(n)
    <2>1. Continue => pass.list[p] = Absent
      <3> SUFFICES ASSUME Continue PROVE pass.list[p] = Absent
        OBVIOUS
      <3>1. pass # Absent /\ pass.node # n
        BY <1>0, <1>6, ContinueFrame DEF AtRest, Idle
      <3> QED  BY <1>0, <1>3, <1>6, <3>1, AbsentAssumption DEF MovedWoken, OnNode, Woken, AtRest, Stirs
    <2>2. WrittenAlike(apiPods[p], apiPods'[p])
      BY <1>0, <1>3, <1>4, <1>5, <2>1, WritesKept
    <2>3. Settled(n, p)
      BY <1>2, <1>4, <1>6 DEF RestSettled
    <2> QED  BY <1>0, <1>1, <1>2, <1>4, <1>5, <2>2, <2>3, SettledKept
  <1>7. CASE ~AtRest(n)
    <2>1. /\ ~Stirs(n) /\ pass # Absent /\ pass.node = n /\ pass.step = "apply"
          /\ EndPass /\ ~pass.failed /\ ~pass.rateLimited /\ WindowsAtJudgedAt = {}
      BY <1>0, <1>1, <1>7, RestedOrEnded
    <2>2. podSeries[n] = ManagedNow(n) /\ backoff[p] = Absent
      BY <1>0, <1>2, <2>1, EndedFresh
    <2>3. Handled(n, p)
      BY <1>2, <1>4, <2>1, <2>2 DEF PassSettles
    <2>4. pass.decisions[p] = Absent /\ apiPods' = apiPods
      BY <1>3, <2>1 DEF EndPass, NoList
    <2>5. Settled(n, p)
      BY <2>1, <2>2, <2>3, <2>4 DEF Handled
    <2>6. WrittenAlike(apiPods[p], apiPods'[p])
      BY <2>4 DEF WrittenAlike
    <2> QED  BY <1>0, <1>1, <1>2, <1>4, <1>5, <2>5, <2>6, SettledKept
  <1> QED  BY <1>6, <1>7

LEMMA SettledInvariant ==
    ASSUME OwnWritesOnly PROVE Spec => [](FreshInv /\ RestSettled)
  <1>1. Init => OwedNode /\ PassSettles /\ RestSettled
    <2> SUFFICES ASSUME Init PROVE OwedNode /\ PassSettles /\ RestSettled
      OBVIOUS
    <2>1. \A n \in Nodes : queue[n] # Absent
      BY AbsentAssumption DEF Init
    <2>2. \A n \in Nodes : Stirs(n)
      BY <2>1 DEF Stirs
    <2>3. OwedNode
      BY SamePodRefl DEF Init, OwedNode
    <2> QED  BY <2>2, <2>3 DEF Init, PassSettles, RestSettled, AtRest
  <1>2. FreshInv /\ OwedNode /\ [Next]_vars => OwedNode'
    BY OwedNodeNext DEF FreshInv, WakeInv
  <1>3. /\ FreshInv /\ FreshInv' /\ OwedNode /\ OwedNode' /\ PassSettles /\ RestSettled
        /\ [Next]_vars
        => PassSettles' /\ RestSettled'
    BY PassSettlesNext, RestSettledNext
  <1>4. Spec => []FreshInv
    BY OwnWritesSeen, FreshInvariant
  <1> QED  BY <1>1, <1>2, <1>3, <1>4, PTL DEF Spec

LEMMA CachedCurrent ==
    ASSUME TypeOK, NEW n \in Nodes, CaughtUp(n), nodes[n] # Absent, NEW p \in ManagedNow(n)
    PROVE  owed[p] = {} /\ DecisionsNow(n)[p] = Would(n, p, apiPods[p].limit)
  <1>1. owed[p] = {} /\ pods[p] = apiPods[p]
    BY DEF ManagedNow, CandidateNow, CaughtUp, OnNode
  <1> QED  BY <1>1, WouldNow

\* Reconcile as a whole, for any policy that judges a target without the limits in
\* force, any pods, nodes and settings, and any refusals, conflicts, failures and
\* restarts: on a node at rest, in live mode, the limit of every managed pod is
\* within the deadband of the target a new pass would compute.
THEOREM LimitsAlwaysSettled == ASSUME OwnWritesOnly PROVE Spec => []LimitsSettled
  <1>1. FreshInv /\ RestSettled => LimitsSettled
    <2> SUFFICES ASSUME FreshInv, RestSettled, NEW n \in Nodes, AtRest(n), nodes[n] # Absent,
                        CaughtUp(n), ~ResolvedConfig.dryRun, NEW p \in ManagedNow(n)
                 PROVE  ~DecisionsNow(n)[p].apply
      BY DEF LimitsSettled
    <2>1. owed[p] = {} /\ DecisionsNow(n)[p] = Would(n, p, apiPods[p].limit)
      BY CachedCurrent DEF FreshInv, WakeInv
    <2> QED  BY <2>1 DEF RestSettled, Settled
  <1> QED  BY <1>1, SettledInvariant, PTL

\* writePodStatus, likewise, where no annotation write fails: on a node at rest the
\* annotation of every managed pod shows the target a new pass would compute, and
\* the mode in force.
THEOREM StatusAlwaysSettled ==
    ASSUME OwnWritesOnly, StatusWritten PROVE Spec => []StatusSettled
  <1>1. FreshInv /\ RestSettled => StatusSettled
    <2> SUFFICES ASSUME FreshInv, RestSettled, NEW n \in Nodes, AtRest(n), nodes[n] # Absent,
                        CaughtUp(n), NEW p \in ManagedNow(n)
                 PROVE  apiPods[p].status = [target |-> DecisionsNow(n)[p].target,
                                             dryRun |-> ResolvedConfig.dryRun]
      BY DEF StatusSettled
    <2>1. owed[p] = {} /\ DecisionsNow(n)[p] = Would(n, p, apiPods[p].limit)
      BY CachedCurrent DEF FreshInv, WakeInv
    <2> QED  BY <2>1 DEF RestSettled, Settled, Shown
  <1> QED  BY <1>1, SettledInvariant, PTL
=============================================================================
