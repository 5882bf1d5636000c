--------------------------- MODULE NodeReconciler ---------------------------
(***************************************************************************)
(* internal/controller/node_controller.go: the loop that keeps the CPU     *)
(* limits of the pods on every node in step with the policy.               *)
(*                                                                         *)
(*   apiserver --watch--> informer cache --handler--> workqueue            *)
(*       ^                      |                        |                 *)
(*       +------ patches -------+------- Reconcile <-----+                 *)
(*                                                                         *)
(* The apiserver's objects change under the controller; the cache follows  *)
(* one object at a time; an event handler runs some time after the cache   *)
(* changed and puts node keys on the workqueue; one worker takes a ready   *)
(* node through a pass of several steps, between any two of which all of   *)
(* the rest may move.  The process may die and start over.                 *)
(*                                                                         *)
(* Time is counted in ticks, as what remains of a delay or a window.  The  *)
(* policy is the parameter ComputeNode: what is proved holds for any.      *)
(*                                                                         *)
(* Left out: events and log lines, the memory of which VPA skips were      *)
(* announced (it decides nothing else), the plain node gauges, and the     *)
(* containers of a pod: a pod's request and limit are the sums over them.  *)
(***************************************************************************)
EXTENDS Integers, FiniteSets

CONSTANTS
    Pods,           \* pod keys, namespace/name: a recreated pod has the old key
    Nodes,          \* node names
    Namespaces,
    NamespaceOf,    \* pod key -> namespace
    Absent,         \* in place of an object, an entry or a value: there is none
    Limits,         \* CPU limits, 0 standing for an unset one
    BirthLimits,    \* limits pods are created with (the webhook's seed, or unset)
    PodSpecs,       \* what a pod brings to the policy and the eligibility rules
    ResizeStates,   \* conditions the kubelet may report on a pending resize
    NodeSpecs,      \* allocatable CPU, operating system and labels of a node
    NamespaceSpecs, \* labels and LimitRange ceiling of a namespace
    VPASets,        \* the sets of pods whose limit some VPA may write
    Configs,        \* HeadroomConfigs, resolved
    DefaultConfig,  \* loadConfig without a HeadroomConfig
    ComputeNode(_, _, _), \* policy.ComputeNode: of a policy, allocatable CPU, inputs
    BackoffPeriod,  \* ticks a refused pod is left alone
    MaxDebounce,    \* longest jittered debounce, in ticks
    MaxPassTicks,   \* bound: ticks one pass may take after its clock reading
    MaxChanges,     \* bound: changes to the cluster by others
    MaxFaults,      \* bound: faults
    FaultKinds,     \* which calls may fail, and whether the process may die
    ManualEdits,    \* may someone else edit a managed pod's limit?
    CacheCatchesUp  \* does a pass wait until its predecessor's patches are cached?

\* policy.PodInput as buildPodInput fills it from a pod object.
PodInput(spec, limit, managed, holdsShare, rangeCap) ==
    [request |-> spec.request, bookedDelta |-> spec.booked - spec.request,
     limit |-> limit, managed |-> managed, holdsShare |-> holdsShare,
     userCap |-> spec.cap, rangeCap |-> rangeCap,
     aboveRequest |-> spec.aboveRequest]

Status == [target: Limits, dryRun: BOOLEAN]
Decision == [target: Limits, apply: BOOLEAN]

Pod == [node: Nodes \cup {Absent}, spec: PodSpecs, terminal: BOOLEAN,
        resize: ResizeStates \cup {"none"}, limit: Limits,
        status: Status \cup {Absent}]

Bucket == [pps: Nat \ {0}, tokens: Nat]

\* What the code behind the parameters guarantees.
ASSUME ParameterAssumption ==
    /\ IsFiniteSet(Pods)
    /\ NamespaceOf \in [Pods -> Namespaces]
    /\ Limits \subseteq Nat
    /\ BirthLimits \subseteq Limits
    /\ \A s \in PodSpecs : s.request \in Limits
    /\ \A c \in Configs \cup {DefaultConfig} :
          c.dryRun \in BOOLEAN /\ c.pps \in Nat \ {0}
    /\ DefaultConfig.dryRun
    /\ VPASets \subseteq SUBSET Pods
    /\ BackoffPeriod \in Nat /\ MaxDebounce \in Nat \ {0} /\ MaxPassTicks \in Nat
    /\ MaxChanges \in Nat /\ MaxFaults \in Nat
    /\ ManualEdits \in BOOLEAN /\ CacheCatchesUp \in BOOLEAN

\* Absent is none of the values it stands in for.
ASSUME AbsentAssumption ==
    /\ Absent \notin Nodes /\ Absent \notin Int
    /\ Absent \notin NodeSpecs /\ Absent \notin NamespaceSpecs
    /\ Absent \notin Configs /\ Absent \notin Pod /\ Absent \notin Decision
    /\ Absent \notin Status /\ Absent \notin Bucket

\* The inputs a pass can hand to the policy.
RangeCaps == {0} \cup {x.rangeCap : x \in NamespaceSpecs}
PolicyInputs ==
    {PodInput(s, l, share = "managed", share = "held", c) :
        s \in PodSpecs, l \in Limits, share \in {"managed", "held", "none"},
        c \in RangeCaps}

\* policy.Compute: a decision for each managed pod among the inputs.
ASSUME ComputeAssumption ==
    \A c \in Configs \cup {DefaultConfig}, n \in NodeSpecs, S \in SUBSET Pods :
        \A in \in [S -> PolicyInputs] :
            \A p \in {q \in S : in[q].managed} :
                ComputeNode(c.policy, n.allocatable, in)[p] \in Decision

\* finalize and clampAndQuantize: the enforced limits of the others decide
\* nothing, a pod's own only whether its target is worth a patch; the target is
\* at least the request, and a limit that is the target is left alone.
ASSUME TargetAssumption ==
    \A c \in Configs \cup {DefaultConfig}, n \in NodeSpecs, S \in SUBSET Pods :
        \A in \in [S -> PolicyInputs], l \in [S -> Limits] :
            LET before == ComputeNode(c.policy, n.allocatable, in)
                after == ComputeNode(c.policy, n.allocatable,
                                     [q \in S |-> [in[q] EXCEPT !.limit = l[q]]])
            IN  \A p \in {q \in S : in[q].managed} :
                    /\ after[p].target = before[p].target
                    /\ l[p] = in[p].limit => after[p].apply = before[p].apply
                    /\ before[p].target >= in[p].request
                    /\ in[p].limit = before[p].target => ~before[p].apply

VARIABLES
    apiPods,        \* apiserver: pod key -> object
    apiNodes,       \* apiserver: node name -> spec
    apiConfig,      \* apiserver: the HeadroomConfig singleton
    apiNamespaces,  \* apiserver: namespace -> labels and LimitRange ceiling
    apiVPAs,        \* apiserver: pods whose limit some VPA may write
    owed,           \* pod key -> nodes its undelivered versions will enqueue
    pods, nodes, config, namespaces,  \* the informers' copies of those
    vpas,           \* the VPA poller's view
    vpaSynced,      \* has the poller finished its first list?
    events,         \* handler invocations outstanding
    queue,          \* workqueue: node -> ticks until ready
    pass,           \* the worker's Reconcile in progress
    backoff,        \* pod key -> ticks left of its window, negative once over
    buckets,        \* limiters: node -> token bucket
    podSeries,      \* node -> pods exporting a podLimitCores series
    podLimitCores,  \* pod key -> the series' value
    nodeResizesDeferred, \* node -> gauge
    changes, faults \* spent of the two budgets

api == <<apiPods, owed, apiNodes, apiConfig, apiNamespaces, apiVPAs>>
cache == <<pods, nodes, config, namespaces, vpas, vpaSynced>>
gauges == <<podSeries, podLimitCores, nodeResizesDeferred>>
memory == <<backoff, buckets>>
budget == <<changes, faults>>
vars == <<api, cache, events, queue, pass, memory, gauges, budget>>

Greatest(a, b) == IF a >= b THEN a ELSE b
Least(a, b) == IF a <= b THEN a ELSE b

\* A fault of this kind, if the budget has one left.
Fault(kind) ==
    /\ kind \in FaultKinds
    /\ faults < MaxFaults
    /\ faults' = faults + 1
    /\ UNCHANGED changes

Change ==
    /\ changes < MaxChanges
    /\ changes' = changes + 1
    /\ UNCHANGED faults
-----------------------------------------------------------------------------
(* The workqueue (controller-runtime): one entry a key, the earliest of the *)
(* times asked for; a key being processed may be added again meanwhile.     *)

AddAfter(n, delay) ==
    IF queue[n] = Absent \/ delay < queue[n]
    THEN [queue EXCEPT ![n] = delay]
    ELSE queue

\* enqueueDelay: the configured debounce splayed by +-50%, always positive.
EnqueueDelays == 1 .. MaxDebounce

\* A jittered, debounced add of each of the nodes.
EnqueueAll(targets) ==
    \E delay \in [targets -> EnqueueDelays] :
        queue' = [n \in Nodes |->
                    IF n \in targets /\ (queue[n] = Absent \/ delay[n] < queue[n])
                    THEN delay[n]
                    ELSE queue[n]]
-----------------------------------------------------------------------------
(* Eligibility, as far as one pod object and one config decide it.          *)

Eligible(pod) ==
    /\ ~pod.terminal
    /\ ~pod.spec.optOut
    /\ pod.spec.resizable   \* Burstable, no pod-level resources, no restart on resize
    /\ pod.spec.request > 0

OwnerExcluded(pod, cfg) == pod.spec.owner \in cfg.excludedOwners

NodeManageable(node, cfg) == ~node.windows /\ node.labels \notin cfg.excludedLabels

NamespaceManaged(x, nsObject, cfg) ==
    /\ nsObject # Absent
    /\ x \notin cfg.excludedNamespaces
    /\ nsObject.labels \in cfg.selectedLabels

\* resolveConfig, or the documented defaults in dry-run mode.
ResolvedConfig == IF config = Absent THEN DefaultConfig ELSE config
-----------------------------------------------------------------------------
(* The event handlers and the predicates before them.                       *)

\* Slip: the opt-out label and the cap annotation are not compared.
MutantLabelsIgnored(old, new) ==
    \/ old.node # new.node
    \/ old.spec.booked # new.spec.booked
    \/ old.terminal # new.terminal
    \/ old.resize # new.resize
    \/ old.spec.owner # new.spec.owner
    \/ old.spec.request # new.spec.request

\* podUpdateRelevant: can this update change a slack or a managed limit?  It
\* reads neither the limit nor the status annotation, which Reconcile writes.
PodUpdateRelevant(old, new) ==
    \/ old.node # new.node
    \/ old.spec.booked # new.spec.booked
    \/ old.terminal # new.terminal
    \/ (old.resize = "Deferred") # (new.resize = "Deferred")
    \/ (old.resize = "Infeasible") # (new.resize = "Infeasible")
    \/ old.spec.optOut # new.spec.optOut
    \/ old.spec.cap # new.spec.cap
    \/ old.spec.owner # new.spec.owner
    \/ old.spec.request # new.spec.request

\* Slip: no handler for deletions.
MutantDeletesIgnored(old, new) ==
    IF new = Absent \/ (old # Absent /\ ~PodUpdateRelevant(old, new))
    THEN {}
    ELSE {new.node} \ {Absent}

\* podEventHandler: the nodes an add, update or delete of a pod is about.
PodEventNodes(old, new) ==
    IF old # Absent /\ new # Absent /\ ~PodUpdateRelevant(old, new)
    THEN {}
    ELSE {o.node : o \in {old, new} \ {Absent}} \ {Absent}

\* Two slips: the labels, or the allocatable CPU, are not compared.
MutantNodeLabelsIgnored(old, new) ==
    old = Absent \/ new = Absent \/ old.allocatable # new.allocatable

MutantAllocatableIgnored(old, new) ==
    old = Absent \/ new = Absent \/ old.labels # new.labels

\* nodeUpdateRelevant: allocatable CPU or labels moved.
NodeUpdateRelevant(old, new) ==
    \/ old = Absent \/ new = Absent
    \/ old.allocatable # new.allocatable
    \/ old.labels # new.labels

PodEvent(n) == <<"pod", n>>
NodeEvent(n) == <<"node", n>>
NamespaceEvent(x) == <<"namespace", x>>
ConfigEvent == <<"config", "singleton">>
Event == ({"pod", "node"} \X Nodes) \cup ({"namespace"} \X Namespaces) \cup {ConfigEvent}

\* The watch brings every version of a pod in turn; here the cache takes those
\* outstanding in one step, and their events are raised together.
DeliverPod(p) ==
    /\ pods[p] # apiPods[p] \/ owed[p] # {}
    /\ pods' = [pods EXCEPT ![p] = apiPods[p]]
    /\ owed' = [owed EXCEPT ![p] = {}]
    /\ events' = events \cup {PodEvent(n) :
                    n \in owed[p] \cup PodEventNodes(pods[p], apiPods[p])}
    /\ UNCHANGED <<apiPods, apiNodes, apiConfig, apiNamespaces, apiVPAs,
                   nodes, config, namespaces, vpas, vpaSynced, queue, pass,
                   memory, gauges, budget>>

\* The watch broke off and a relist brings the last version only.
RelistPod(p) ==
    /\ Fault("watch")
    /\ pods[p] # apiPods[p] \/ owed[p] # {}
    /\ pods' = [pods EXCEPT ![p] = apiPods[p]]
    /\ owed' = [owed EXCEPT ![p] = {}]
    /\ events' = events \cup {PodEvent(n) : n \in PodEventNodes(pods[p], apiPods[p])}
    /\ UNCHANGED <<apiPods, apiNodes, apiConfig, apiNamespaces, apiVPAs,
                   nodes, config, namespaces, vpas, vpaSynced, queue, pass,
                   memory, gauges>>

\* A node keeps its operating system: another one means that a deletion and a
\* creation were delivered in between.
Replaced(old, new) == old # Absent /\ new # Absent /\ old.windows # new.windows

DeliverNode(n) ==
    /\ nodes[n] # apiNodes[n]
    /\ nodes' = [nodes EXCEPT ![n] = apiNodes[n]]
    /\ events' = IF \/ NodeUpdateRelevant(nodes[n], apiNodes[n])
                    \/ Replaced(nodes[n], apiNodes[n])
                 THEN events \cup {NodeEvent(n)} ELSE events
    /\ UNCHANGED <<api, pods, config, namespaces, vpas, vpaSynced, queue, pass,
                   memory, gauges, budget>>

\* A new generation, an add or a delete; status writes keep the generation.
DeliverConfig ==
    /\ config # apiConfig
    /\ config' = apiConfig
    /\ events' = events \cup {ConfigEvent}
    /\ UNCHANGED <<api, pods, nodes, namespaces, vpas, vpaSynced, queue, pass,
                   memory, gauges, budget>>

\* A namespace's labels or its LimitRanges.
DeliverNamespace(x) ==
    /\ namespaces[x] # apiNamespaces[x]
    /\ namespaces' = [namespaces EXCEPT ![x] = apiNamespaces[x]]
    /\ events' = events \cup {NamespaceEvent(x)}
    /\ UNCHANGED <<api, pods, nodes, config, vpas, vpaSynced, queue, pass,
                   memory, gauges, budget>>

\* Slip: only namespaces that still have a VPA are announced.
MutantRemovalsSilent(view) ==
    /\ vpas' = view
    /\ vpaSynced' = TRUE
    /\ events' = events \cup {NamespaceEvent(NamespaceOf[p]) : p \in view \ vpas}
    /\ UNCHANGED <<api, pods, nodes, config, namespaces, queue, pass, memory, gauges>>

\* Poller.Refresh: the view is published before the namespaces that changed
\* are announced.  A list the apiserver forbids empties the view, another
\* failure keeps it; either counts as the first.
Refresh(view) ==
    /\ vpas' = view
    /\ vpaSynced' = TRUE
    /\ events' = events \cup {NamespaceEvent(NamespaceOf[p]) :
                                p \in (vpas \ view) \cup (view \ vpas)}
    /\ UNCHANGED <<api, pods, nodes, config, namespaces, queue, pass, memory, gauges>>

PollVPAs ==
    /\ vpas # apiVPAs \/ ~vpaSynced
    /\ Refresh(apiVPAs)
    /\ UNCHANGED budget

PollFails ==
    /\ Fault("poll")
    /\ Refresh(vpas) \/ Refresh({})

\* podEventHandler's enqueue, after the debounce.
HandlePodEvent(n) ==
    /\ PodEvent(n) \in events
    /\ events' = events \ {PodEvent(n)}
    /\ EnqueueAll({n})
    /\ UNCHANGED <<api, cache, pass, memory, gauges, budget>>

\* EnqueueRequestsFromMapFunc(nodeToRequests): at once.
HandleNodeEvent(n) ==
    /\ NodeEvent(n) \in events
    /\ events' = events \ {NodeEvent(n)}
    /\ queue' = AddAfter(n, 0)
    /\ UNCHANGED <<api, cache, pass, memory, gauges, budget>>

\* nodesEventHandler(allNodes): the nodes cached when the handler runs.
HandleConfigEvent ==
    /\ ConfigEvent \in events
    /\ events' = events \ {ConfigEvent}
    /\ EnqueueAll({n \in Nodes : nodes[n] # Absent})
    /\ UNCHANGED <<api, cache, pass, memory, gauges, budget>>

\* nodesHoldingPodsIn: the nodes of the pods cached when the handler runs.
NodesHoldingPodsIn(x) ==
    {n \in Nodes : \E p \in Pods : /\ NamespaceOf[p] = x
                                   /\ pods[p] # Absent
                                   /\ pods[p].node = n}

HandleNamespaceEvent(x) ==
    /\ NamespaceEvent(x) \in events
    /\ events' = events \ {NamespaceEvent(x)}
    /\ EnqueueAll(NodesHoldingPodsIn(x))
    /\ UNCHANGED <<api, cache, pass, memory, gauges, budget>>
-----------------------------------------------------------------------------
(* Reconcile, one step for each place where it reads or writes shared state. *)

Idle == pass = Absent

\* Where the worker is in Reconcile: listing the pods, building the policy's
\* inputs, or going through the decisions.
Steps == {"list", "build", "apply"}

Pass == [node: Nodes, step: Steps,
         cfg: Configs \cup {DefaultConfig}, \* the config it loaded
         spec: NodeSpecs,                   \* the node it got
         list: [Pods -> Pod \cup {Absent}], \* the non-terminal pods it listed
         elapsed: Nat,                      \* ticks since judgedAt
         decisions: [Pods -> Decision \cup {Absent}], \* those still to go through
         current: Pods \cup {Absent},       \* the pod it is about to resize
         rateLimited: BOOLEAN, failed: BOOLEAN]

ASSUME PassAssumption == Absent \notin Pass

NoList == [p \in Pods |-> Absent]

\* Slip: the key is dropped instead of requeued.
MutantUnsyncedDropped(n) ==
    /\ Idle /\ queue[n] = 0
    /\ ~vpaSynced
    /\ queue' = [queue EXCEPT ![n] = Absent]
    /\ UNCHANGED <<api, cache, events, pass, memory, gauges, budget>>

\* The worker takes a ready key; before the first VPA list it only comes back.
StartUnsynced(n) ==
    /\ Idle /\ queue[n] = 0
    /\ ~vpaSynced
    /\ queue' = [queue EXCEPT ![n] = 1]
    /\ UNCHANGED <<api, cache, events, pass, memory, gauges, budget>>

\* forgetNode: a node that is gone loses its bucket and every series.
StartForgets(n) ==
    /\ Idle /\ queue[n] = 0
    /\ vpaSynced
    /\ nodes[n] = Absent
    /\ queue' = [queue EXCEPT ![n] = Absent]
    /\ buckets' = [buckets EXCEPT ![n] = Absent]
    /\ podLimitCores' = [p \in Pods |-> IF p \in podSeries[n] THEN Absent
                                        ELSE podLimitCores[p]]
    /\ podSeries' = [podSeries EXCEPT ![n] = {}]
    /\ nodeResizesDeferred' = [nodeResizesDeferred EXCEPT ![n] = Absent]
    /\ UNCHANGED <<api, cache, events, pass, backoff, budget>>

\* loadConfig and the Get of the node.
StartPass(n) ==
    /\ Idle /\ queue[n] = 0
    /\ vpaSynced
    /\ nodes[n] # Absent
    /\ queue' = [queue EXCEPT ![n] = Absent]
    /\ pass' = [node |-> n, step |-> "list", cfg |-> ResolvedConfig,
                spec |-> nodes[n], list |-> NoList, elapsed |-> 0,
                decisions |-> NoList, current |-> Absent,
                rateLimited |-> FALSE, failed |-> FALSE]
    /\ UNCHANGED <<api, cache, events, memory, gauges, budget>>

OnNode(pod, n) == pod # Absent /\ pod.node = n

\* Assumed, where CacheCatchesUp: by the time a node is listed the watch has
\* brought back what earlier passes wrote to its pods, or has an event to bring.
OwnWritesCached(n) ==
    \A p \in Pods : OnNode(pods[p], n) /\ apiPods[p] # Absent /\ owed[p] = {} =>
        /\ pods[p].limit = apiPods[p].limit
        /\ pods[p].status = apiPods[p].status

\* List by the node index, and judgedAt.  buildInputs skips terminal pods.
ListPods ==
    /\ ~Idle /\ pass.step = "list"
    /\ CacheCatchesUp => OwnWritesCached(pass.node)
    /\ pass' = [pass EXCEPT !.step = "build",
                  !.list = [p \in Pods |->
                              IF OnNode(pods[p], pass.node) /\ ~pods[p].terminal
                              THEN pods[p] ELSE Absent]]
    /\ UNCHANGED <<api, cache, events, queue, memory, gauges, budget>>

\* buildInputs' verdict on one listed pod, up to the backoff map.
Candidate(p) ==
    /\ pass.list[p] # Absent
    /\ NodeManageable(pass.spec, pass.cfg)
    /\ Eligible(pass.list[p])
    /\ ~OwnerExcluded(pass.list[p], pass.cfg)

\* Slip: an entry counts whether or not its window has ended.
MutantBackoffForever(p) == backoff[p] # Absent

\* inBackoff: the window has not ended.
InBackoff(p) == backoff[p] # Absent /\ backoff[p] >= 0

Enrolled(p) ==
    /\ Candidate(p)
    /\ NamespaceManaged(NamespaceOf[p], namespaces[NamespaceOf[p]], pass.cfg)
    /\ p \notin vpas

\* The kubelet refused the last resize and no window is open: open one.
NewlyInfeasible(p) ==
    Enrolled(p) /\ ~InBackoff(p) /\ pass.list[p].resize = "Infeasible"

Managed(p) == Enrolled(p) /\ ~InBackoff(p) /\ pass.list[p].resize # "Infeasible"
HoldsShare(p) == Enrolled(p) /\ ~Managed(p)

\* The backoff map once the pods in judged have been gone through: inBackoff
\* drops an expired entry, setBackoff opens a window.
BackoffAfter(judged) ==
    [p \in Pods |->
        IF p \in judged /\ NewlyInfeasible(p) THEN BackoffPeriod
        ELSE IF p \in judged /\ Candidate(p) /\ ~InBackoff(p) THEN Absent
        ELSE backoff[p]]

\* limiterFor: a new bucket is full; a changed rate keeps what fits.
LimiterFor(n, pps) ==
    LET b == buckets[n]
    IN  IF b = Absent THEN [pps |-> pps, tokens |-> pps]
        ELSE [pps |-> pps, tokens |-> Least(b.tokens, pps)]

Inputs ==
    [p \in {q \in Pods : pass.list[q] # Absent} |->
        PodInput(pass.list[p].spec, pass.list[p].limit, Managed(p), HoldsShare(p),
                 IF Managed(p) THEN namespaces[NamespaceOf[p]].rangeCap ELSE 0)]

\* buildInputs, policy.Compute, the gauges with syncPodMetrics, limiterFor.
BuildInputs ==
    /\ ~Idle /\ pass.step = "build"
    /\ LET n == pass.node
           managed == {p \in Pods : Managed(p)}
           decided == ComputeNode(pass.cfg.policy, pass.spec.allocatable, Inputs)
       IN  /\ pass' = [pass EXCEPT !.step = "apply",
                         !.decisions = [p \in Pods |->
                            IF p \in managed THEN decided[p] ELSE Absent]]
           /\ podLimitCores' = [p \in Pods |->
                IF p \in managed THEN decided[p].target
                ELSE IF p \in podSeries[n] THEN Absent
                ELSE podLimitCores[p]]
           /\ podSeries' = [podSeries EXCEPT ![n] = managed]
           /\ nodeResizesDeferred' = [nodeResizesDeferred EXCEPT ![n] =
                Cardinality({p \in managed : pass.list[p].resize = "Deferred"})]
           /\ buckets' = [buckets EXCEPT ![n] = LimiterFor(n, pass.cfg.pps)]
    /\ backoff' = BackoffAfter(Pods)
    /\ UNCHANGED <<api, cache, events, queue, budget>>

\* Every error return requeues the node after a rate-limited delay.
RequeueDelays == 0 .. MaxDebounce

Requeue(delays) ==
    /\ \E d \in delays : queue' = AddAfter(pass.node, d)
    /\ pass' = Absent

\* A read of the cache fails, in buildInputs after some of the pods.
ReadFails ==
    /\ ~Idle /\ pass.step \in {"list", "build"}
    /\ Fault("read")
    /\ \E judged \in SUBSET Pods :
         /\ pass.step = "list" => judged = {}
         /\ backoff' = BackoffAfter(judged)
    /\ Requeue(RequeueDelays)
    /\ UNCHANGED <<api, cache, events, buckets, gauges>>

\* One decision is dealt with.
Finish(p) == [pass.decisions EXCEPT ![p] = Absent]

\* Slip: a failed write of the annotation costs the pod its resize.
MutantErrorSkipsPod(p) ==
    /\ ~Idle /\ pass.step = "apply" /\ pass.current = Absent
    /\ pass.decisions[p] # Absent
    /\ LET d == pass.decisions[p]
           desired == [target |-> d.target, dryRun |-> pass.cfg.dryRun]
           resize == d.apply /\ ~pass.cfg.dryRun
       IN  \/ /\ apiPods' = IF apiPods[p] = Absent THEN apiPods
                            ELSE [apiPods EXCEPT ![p].status = desired]
              /\ pass' = [pass EXCEPT
                            !.list[p] = IF apiPods[p] = Absent THEN @ ELSE apiPods'[p],
                            !.current = IF resize THEN p ELSE Absent,
                            !.decisions = IF resize THEN @ ELSE Finish(p)]
              /\ UNCHANGED budget
           \/ /\ pass.list[p].status # desired
              /\ Fault("status")
              /\ pass' = [pass EXCEPT !.decisions = Finish(p)]
              /\ UNCHANGED apiPods
    /\ UNCHANGED <<owed, apiNodes, apiConfig, apiNamespaces, apiVPAs, cache, events, queue,
                   memory, gauges>>

\* writePodStatus for the next decision, which then goes on to the resize
\* unless it is within the deadband or the mode is dry-run.  The patch
\* returns the pod as it is now.  A failed write is logged and forgotten.
Annotate(p) ==
    /\ ~Idle /\ pass.step = "apply" /\ pass.current = Absent
    /\ pass.decisions[p] # Absent
    /\ LET d == pass.decisions[p]
           desired == [target |-> d.target, dryRun |-> pass.cfg.dryRun]
           resize == d.apply /\ ~pass.cfg.dryRun
           next(obj) == [pass EXCEPT
                            !.list[p] = obj,
                            !.current = IF resize THEN p ELSE Absent,
                            !.decisions = IF resize THEN @ ELSE Finish(p)]
       IN  \/ /\ pass.list[p].status # desired
              /\ apiPods[p] # Absent
              /\ apiPods' = [apiPods EXCEPT ![p].status = desired]
              /\ pass' = next([apiPods[p] EXCEPT !.status = desired])
              /\ UNCHANGED budget
           \/ /\ pass.list[p].status = desired \/ apiPods[p] = Absent
              /\ pass' = next(pass.list[p])
              /\ UNCHANGED <<apiPods, budget>>
           \/ /\ pass.list[p].status # desired
              /\ Fault("status")
              /\ pass' = next(pass.list[p])
              /\ UNCHANGED apiPods
    /\ UNCHANGED <<owed, apiNodes, apiConfig, apiNamespaces, apiVPAs, cache, events, queue,
                   memory, gauges>>

\* Slip: the pass breaks off without asking to come back.
MutantRestDropped ==
    /\ ~Idle /\ pass.current # Absent
    /\ buckets[pass.node].tokens = 0
    /\ pass' = [pass EXCEPT !.decisions = NoList, !.current = Absent]
    /\ UNCHANGED <<api, cache, events, queue, memory, gauges, budget>>

\* limiter.Allow refuses: the rest waits for a follow-up pass.
OutOfTokens ==
    /\ ~Idle /\ pass.current # Absent
    /\ buckets[pass.node].tokens = 0
    /\ pass' = [pass EXCEPT !.rateLimited = TRUE, !.decisions = NoList, !.current = Absent]
    /\ UNCHANGED <<api, cache, events, queue, memory, gauges, budget>>

\* Two slips: a conflict is dropped like a vanished pod, or a patch is sent
\* without asking the limiter.
MutantConflictDropped(outcome) ==
    /\ ~Idle /\ pass.current # Absent
    /\ buckets[pass.node].tokens > 0
    /\ buckets' = [buckets EXCEPT ![pass.node].tokens = @ - 1]
    /\ pass' = [pass EXCEPT !.decisions = Finish(pass.current), !.current = Absent,
                            !.failed = @ \/ outcome = "error"]

MutantUnmetered(outcome) ==
    /\ ~Idle /\ pass.current # Absent
    /\ buckets' = [buckets EXCEPT ![pass.node].tokens = @ - 1]
    /\ pass' = [pass EXCEPT !.decisions = Finish(pass.current), !.current = Absent,
                            !.rateLimited = @ \/ outcome = "conflict",
                            !.failed = @ \/ outcome = "error"]

\* applyResize and classifyResizeError.  The target is split over the object
\* in hand, each container keeping at least its request; the apiserver does not
\* take a limit below the request it knows.
ResizeOutcome(outcome) ==
    /\ ~Idle /\ pass.current # Absent
    /\ buckets[pass.node].tokens > 0
    /\ buckets' = [buckets EXCEPT ![pass.node].tokens = @ - 1]
    /\ pass' = [pass EXCEPT !.decisions = Finish(pass.current), !.current = Absent,
                            !.rateLimited = @ \/ outcome = "conflict",
                            !.failed = @ \/ outcome = "error"]

PatchedLimit ==
    Greatest(pass.decisions[pass.current].target, pass.list[pass.current].spec.request)

ResizeApplied ==
    /\ ResizeOutcome("applied")
    /\ LET p == pass.current
       IN  /\ apiPods[p] # Absent
           /\ PatchedLimit >= apiPods[p].spec.request
           /\ apiPods' = [apiPods EXCEPT ![p].limit =
                            IF pass.list[p].spec.request > 0 THEN PatchedLimit ELSE @]
    /\ UNCHANGED <<owed, apiNodes, apiConfig, apiNamespaces, apiVPAs, cache, events, queue,
                   backoff, gauges, budget>>

ResizeNotFound ==
    /\ ResizeOutcome("notFound")
    /\ apiPods[pass.current] = Absent
    /\ UNCHANGED <<api, cache, events, queue, backoff, gauges, budget>>

ResizeConflict ==
    /\ ResizeOutcome("conflict")
    /\ Fault("conflict")
    /\ UNCHANGED <<api, cache, events, queue, backoff, gauges>>

ResizeForbidden ==
    /\ ResizeOutcome("forbidden")
    /\ Fault("forbidden")
    /\ backoff' = [backoff EXCEPT ![pass.current] = BackoffPeriod]
    /\ UNCHANGED <<api, cache, events, queue, gauges>>

ResizeFails ==
    /\ ResizeOutcome("error")
    /\ \/ /\ apiPods[pass.current] # Absent
          /\ PatchedLimit < apiPods[pass.current].spec.request
          /\ UNCHANGED budget
       \/ Fault("error")
    /\ UNCHANGED <<api, cache, events, queue, backoff, gauges>>

\* Slip: the clock is read again at the end of the pass.
MutantJudgedAtEnd ==
    {p \in Pods : /\ pass.list[p] # Absent
                  /\ backoff[p] # Absent
                  /\ backoff[p] >= 0}

\* The listed pods whose window had not ended at judgedAt.
WindowsAtJudgedAt ==
    {p \in Pods : /\ pass.list[p] # Absent
                  /\ backoff[p] # Absent
                  /\ backoff[p] + pass.elapsed >= 0}

\* backoffRequeue: the first of those ends, plus a debounce.
BackoffRequeue(p) ==
    /\ p \in WindowsAtJudgedAt
    /\ \A q \in WindowsAtJudgedAt : backoff[p] <= backoff[q]
    /\ Requeue({backoff[p] + pass.elapsed + d : d \in EnqueueDelays})

\* Slip: every pass asks to come back.
MutantAlwaysRequeues ==
    /\ ~Idle /\ pass.step = "apply"
    /\ pass.current = Absent /\ pass.decisions = NoList
    /\ Requeue({1})
    /\ UNCHANGED <<api, cache, events, memory, gauges, budget>>

EndPass ==
    /\ ~Idle /\ pass.step = "apply"
    /\ pass.current = Absent /\ pass.decisions = NoList
    /\ \/ pass.failed /\ Requeue(RequeueDelays)
       \/ ~pass.failed /\ pass.rateLimited /\ Requeue({1})
       \/ /\ ~pass.failed /\ ~pass.rateLimited
          /\ \E p \in Pods : BackoffRequeue(p)
       \/ /\ ~pass.failed /\ ~pass.rateLimited
          /\ WindowsAtJudgedAt = {}
          /\ pass' = Absent
          /\ UNCHANGED queue
    /\ UNCHANGED <<api, cache, events, memory, gauges, budget>>
-----------------------------------------------------------------------------
(* Time, and the process.                                                   *)

\* An ended window is told apart from an open one, and from one that was open
\* at judgedAt, down to this value.
LongEnded == -(MaxPassTicks + 1)

\* A tick is at least a second: a bucket refills within it.
TickedQueue == [n \in Nodes |-> IF queue[n] = Absent \/ queue[n] = 0 THEN queue[n]
                                ELSE queue[n] - 1]
TickedBackoff == [p \in Pods |-> IF backoff[p] = Absent \/ backoff[p] = LongEnded
                                 THEN backoff[p] ELSE backoff[p] - 1]
TickedBuckets == [n \in Nodes |-> IF buckets[n] = Absent THEN Absent
                                  ELSE [buckets[n] EXCEPT !.tokens = buckets[n].pps]]

Judging == ~Idle /\ pass.step \in {"build", "apply"}

Tick ==
    /\ Judging => pass.elapsed < MaxPassTicks
    /\ queue' = TickedQueue
    /\ backoff' = TickedBackoff
    /\ buckets' = TickedBuckets
    /\ pass' = IF Judging THEN [pass EXCEPT !.elapsed = @ + 1] ELSE pass
    /\ <<queue, backoff, buckets, pass>>' # <<queue, backoff, buckets, pass>>
    /\ UNCHANGED <<api, cache, events, gauges, budget>>

\* The informers' first list reports every object as created.
CreateEvents(ps, ns) ==
    {PodEvent(ps[p].node) : p \in {q \in Pods : ps[q] # Absent /\ ps[q].node # Absent}}
      \cup {NodeEvent(n) : n \in {m \in Nodes : ns[m] # Absent}}
      \cup {NamespaceEvent(x) : x \in Namespaces}
      \cup {ConfigEvent}

NoBackoff == [p \in Pods |-> Absent]
NoEntries == [n \in Nodes |-> Absent]

\* A crash, a rollout or a leader failover: everything in memory is lost.
Restart ==
    /\ Fault("restart")
    /\ pods' = apiPods /\ nodes' = apiNodes
    /\ config' = apiConfig /\ namespaces' = apiNamespaces
    /\ vpas' = {} /\ vpaSynced' = FALSE
    /\ events' = CreateEvents(apiPods, apiNodes)
    /\ queue' = NoEntries /\ pass' = Absent
    /\ backoff' = NoBackoff /\ buckets' = NoEntries
    /\ podSeries' = [n \in Nodes |-> {}]
    /\ podLimitCores' = NoBackoff
    /\ nodeResizesDeferred' = NoEntries
    /\ owed' = [p \in Pods |-> {}]
    /\ UNCHANGED <<apiPods, apiNodes, apiConfig, apiNamespaces, apiVPAs>>
-----------------------------------------------------------------------------
(* Everyone else: users, the scheduler, the kubelets, other controllers.    *)

FreshPod(n, s, l) ==
    [node |-> n, spec |-> s, terminal |-> FALSE, resize |-> "none", limit |-> l,
     status |-> Absent]

\* A limit the apiserver admits beside this spec.
Admissible(s, l) == l = 0 \/ l >= s.request

SetPod(p, pod) ==
    /\ apiPods' = [apiPods EXCEPT ![p] = pod]
    /\ owed' = [owed EXCEPT ![p] = @ \cup PodEventNodes(apiPods[p], pod)]
    /\ UNCHANGED <<apiNodes, apiConfig, apiNamespaces, apiVPAs>>

CreatePod(p, s, l) ==
    /\ apiPods[p] = Absent
    /\ Admissible(s, l)
    /\ SetPod(p, FreshPod(Absent, s, l))

BindPod(p, n) ==
    /\ apiPods[p] # Absent /\ apiPods[p].node = Absent
    /\ apiNodes[n] # Absent
    /\ SetPod(p, [apiPods[p] EXCEPT !.node = n])

DeletePod(p) ==
    /\ apiPods[p] # Absent
    /\ SetPod(p, Absent)

\* Bound and not finished.
Running(p) ==
    /\ apiPods[p] # Absent
    /\ apiPods[p].node # Absent
    /\ ~apiPods[p].terminal

FinishPod(p) ==
    /\ Running(p)
    /\ SetPod(p, [apiPods[p] EXCEPT !.terminal = TRUE])

\* A request is resized, a label, annotation or owner changes, or the booking
\* follows an actuated resize.  What else Eligible reads is immutable.
ChangePod(p, s) ==
    /\ Running(p)
    /\ s # apiPods[p].spec
    /\ s.resizable = apiPods[p].spec.resizable
    /\ s.aboveRequest = apiPods[p].spec.aboveRequest
    /\ Admissible(s, apiPods[p].limit)
    /\ SetPod(p, [apiPods[p] EXCEPT !.spec = s])

KubeletReports(p, r) ==
    /\ Running(p)
    /\ r # apiPods[p].resize
    /\ SetPod(p, [apiPods[p] EXCEPT !.resize = r])

EditLimit(p, l) ==
    /\ ManualEdits
    /\ Running(p)
    /\ l # apiPods[p].limit /\ l # 0
    /\ Admissible(apiPods[p].spec, l)
    /\ SetPod(p, [apiPods[p] EXCEPT !.limit = l])

SetNode(n, s) ==
    /\ s # apiNodes[n]
    /\ apiNodes[n] # Absent /\ s # Absent => apiNodes[n].windows = s.windows
    /\ apiNodes' = [apiNodes EXCEPT ![n] = s]
    /\ UNCHANGED <<apiPods, owed, apiConfig, apiNamespaces, apiVPAs>>

SetConfig(c) ==
    /\ c # apiConfig
    /\ apiConfig' = c
    /\ UNCHANGED <<apiPods, owed, apiNodes, apiNamespaces, apiVPAs>>

SetNamespace(x, s) ==
    /\ s # apiNamespaces[x]
    /\ apiNamespaces' = [apiNamespaces EXCEPT ![x] = s]
    /\ UNCHANGED <<apiPods, owed, apiNodes, apiConfig, apiVPAs>>

SetVPAs(v) ==
    /\ v # apiVPAs
    /\ apiVPAs' = v
    /\ UNCHANGED <<apiPods, owed, apiNodes, apiConfig, apiNamespaces>>

Environment ==
    /\ Change
    /\ \/ \E p \in Pods, s \in PodSpecs, l \in BirthLimits : CreatePod(p, s, l)
       \/ \E p \in Pods, n \in Nodes : BindPod(p, n)
       \/ \E p \in Pods : DeletePod(p)
       \/ \E p \in Pods : FinishPod(p)
       \/ \E p \in Pods, s \in PodSpecs : ChangePod(p, s)
       \/ \E p \in Pods, r \in ResizeStates \cup {"none"} : KubeletReports(p, r)
       \/ \E p \in Pods, l \in Limits : EditLimit(p, l)
       \/ \E n \in Nodes, s \in NodeSpecs \cup {Absent} : SetNode(n, s)
       \/ \E c \in Configs \cup {Absent} : SetConfig(c)
       \/ \E x \in Namespaces, s \in NamespaceSpecs \cup {Absent} : SetNamespace(x, s)
       \/ \E v \in VPASets : SetVPAs(v)
    /\ UNCHANGED <<cache, events, queue, pass, memory, gauges>>
-----------------------------------------------------------------------------
\* A process that has just been elected: its caches hold the cluster as it is,
\* and the first events have made every node ready.  Restart starts earlier.
Init ==
    /\ apiPods \in [Pods -> {Absent} \cup {FreshPod(n, s, l) :
                                n \in Nodes, s \in PodSpecs, l \in BirthLimits}]
    /\ \A p \in Pods : apiPods[p] # Absent => Admissible(apiPods[p].spec, apiPods[p].limit)
    /\ apiNodes \in [Nodes -> NodeSpecs]
    /\ apiConfig \in Configs
    /\ apiNamespaces \in [Namespaces -> NamespaceSpecs]
    /\ apiVPAs \in VPASets
    /\ pods = apiPods /\ nodes = apiNodes
    /\ config = apiConfig /\ namespaces = apiNamespaces
    /\ owed = [p \in Pods |-> {}]
    /\ vpas = apiVPAs /\ vpaSynced = TRUE
    /\ events = {}
    /\ queue = [n \in Nodes |-> 0] /\ pass = Absent
    /\ backoff = NoBackoff /\ buckets = NoEntries
    /\ podSeries = [n \in Nodes |-> {}]
    /\ podLimitCores = NoBackoff
    /\ nodeResizesDeferred = NoEntries
    /\ changes = 0 /\ faults = 0

Deliver ==
    \/ \E p \in Pods : DeliverPod(p) \/ RelistPod(p)
    \/ \E n \in Nodes : DeliverNode(n)
    \/ DeliverConfig
    \/ \E x \in Namespaces : DeliverNamespace(x)
    \/ PollVPAs \/ PollFails

Handle ==
    \/ \E n \in Nodes : HandlePodEvent(n)
    \/ \E n \in Nodes : HandleNodeEvent(n)
    \/ HandleConfigEvent
    \/ \E x \in Namespaces : HandleNamespaceEvent(x)

Start(n) == StartUnsynced(n) \/ StartForgets(n) \/ StartPass(n)

Continue ==
    \/ ListPods \/ BuildInputs \/ ReadFails
    \/ \E p \in Pods : Annotate(p)
    \/ OutOfTokens
    \/ ResizeApplied \/ ResizeNotFound \/ ResizeConflict \/ ResizeForbidden \/ ResizeFails
    \/ EndPass

\* Everything that is not somebody else's doing.
System ==
    \/ Deliver
    \/ Handle
    \/ \E n \in Nodes : Start(n)
    \/ Continue
    \/ Tick

Next == Environment \/ System \/ Restart

Spec == Init /\ [][Next]_vars

\* Watches, handlers, the worker and the clock do not all stop while one of
\* them can go on, and the poller's ticker fires.
Fairness == WF_vars(System) /\ WF_vars(PollVPAs)

FairSpec == Spec /\ Fairness
-----------------------------------------------------------------------------
TypeOK ==
    /\ apiPods \in [Pods -> Pod \cup {Absent}]
    /\ apiNodes \in [Nodes -> NodeSpecs \cup {Absent}]
    /\ apiConfig \in Configs \cup {Absent}
    /\ apiNamespaces \in [Namespaces -> NamespaceSpecs \cup {Absent}]
    /\ apiVPAs \in SUBSET Pods
    /\ owed \in [Pods -> SUBSET Nodes]
    /\ pods \in [Pods -> Pod \cup {Absent}]
    /\ nodes \in [Nodes -> NodeSpecs \cup {Absent}]
    /\ config \in Configs \cup {Absent}
    /\ namespaces \in [Namespaces -> NamespaceSpecs \cup {Absent}]
    /\ vpas \in SUBSET Pods
    /\ vpaSynced \in BOOLEAN
    /\ events \in SUBSET Event
    /\ queue \in [Nodes -> Nat \cup {Absent}]
    /\ pass \in Pass \cup {Absent}
    /\ backoff \in [Pods -> (LongEnded .. BackoffPeriod) \cup {Absent}]
    /\ buckets \in [Nodes -> Bucket \cup {Absent}]
    /\ podSeries \in [Nodes -> SUBSET Pods]
    /\ podLimitCores \in [Pods -> Limits \cup {Absent}]
    /\ nodeResizesDeferred \in [Nodes -> Nat \cup {Absent}]
    /\ changes \in 0 .. MaxChanges
    /\ faults \in 0 .. MaxFaults

\* Something will bring node n to the worker.
Stirs(n) ==
    \/ queue[n] # Absent
    \/ PodEvent(n) \in events
    \/ NodeEvent(n) \in events
    \/ ConfigEvent \in events /\ nodes[n] # Absent
    \/ \E x \in Namespaces : NamespaceEvent(x) \in events /\ n \in NodesHoldingPodsIn(x)

\* Nothing will, unless something changes.
AtRest(n) == ~Stirs(n) /\ (Idle \/ pass.node # n)

\* Would a pass that starts now look at p's backoff entry?
CandidateNow(p) ==
    /\ pods[p] # Absent
    /\ pods[p].node # Absent
    /\ nodes[pods[p].node] # Absent
    /\ NodeManageable(nodes[pods[p].node], ResolvedConfig)
    /\ Eligible(pods[p])
    /\ ~OwnerExcluded(pods[p], ResolvedConfig)

\* backoffRequeue, setBackoff, inBackoff: while the backoff map has an entry
\* for a pod Headroom would otherwise manage, open or ended, the pod's node is
\* queued, being reconciled, or about to be queued.  Without this a refused
\* pod on a quiet node is never retried: nothing else reconciles the node when
\* the window closes, and a window may close in the middle of a pass.
BackoffWakesUp ==
    \A p \in Pods : backoff[p] # Absent /\ CandidateNow(p) => ~AtRest(pods[p].node)

\* What a pass over the cache as it is now would decide for node n, were no
\* window open.
ManagedNow(n) ==
    {p \in Pods : /\ CandidateNow(p)
                  /\ pods[p].node = n
                  /\ NamespaceManaged(NamespaceOf[p], namespaces[NamespaceOf[p]], ResolvedConfig)
                  /\ p \notin vpas}

DecisionsNow(n) ==
    ComputeNode(ResolvedConfig.policy, nodes[n].allocatable,
            [p \in {q \in Pods : OnNode(pods[q], n) /\ ~pods[q].terminal} |->
                PodInput(pods[p].spec, pods[p].limit, p \in ManagedNow(n), FALSE,
                         IF p \in ManagedNow(n) THEN namespaces[NamespaceOf[p]].rangeCap
                         ELSE 0)])

\* podUpdateRelevant, nodeUpdateRelevant, nodesEventHandler, Poller.notify: no
\* change that a pass reads is ever missed.  A node at rest has on its books, in
\* podSeries, exactly the pods a new pass would manage, and counts exactly their
\* deferred resizes, whatever moved while its last pass was under way.
SeriesFresh ==
    \A n \in Nodes : AtRest(n) /\ nodes[n] # Absent =>
        /\ podSeries[n] = ManagedNow(n)
        /\ nodeResizesDeferred[n] =
              Cardinality({p \in ManagedNow(n) : pods[p].resize = "Deferred"})

\* Reconcile's per-pod gauge, syncPodMetrics, forgetNode: on a node at rest the
\* exported target of every managed pod is the one a new pass would compute.
TargetsFresh ==
    \A n \in Nodes : AtRest(n) /\ nodes[n] # Absent =>
        LET decided == DecisionsNow(n)
        IN  \A p \in ManagedNow(n) : podLimitCores[p] = decided[p].target

\* Are the node's own pods in the cache as the apiserver has them?
CaughtUp(n) == \A p \in Pods : OnNode(pods[p], n) => pods[p] = apiPods[p] /\ owed[p] = {}

\* Reconcile as a whole: on a node at rest, in live mode, every managed pod's
\* enforced limit is within the deadband of its target.  No refusal, conflict,
\* failure, failed annotation, empty token bucket, restart or change in the
\* middle of a pass leaves a limit behind.
LimitsSettled ==
    \A n \in Nodes :
        AtRest(n) /\ nodes[n] # Absent /\ CaughtUp(n) /\ ~ResolvedConfig.dryRun =>
            LET decided == DecisionsNow(n)
            IN  \A p \in ManagedNow(n) : ~decided[p].apply

\* writePodStatus: on a node at rest every managed pod's annotation shows its
\* target and the mode, even where a pass broke off for want of tokens.
StatusSettled ==
    \A n \in Nodes : AtRest(n) /\ nodes[n] # Absent /\ CaughtUp(n) =>
        LET decided == DecisionsNow(n)
        IN  \A p \in ManagedNow(n) :
                apiPods[p].status = [target |-> decided[p].target,
                                     dryRun |-> ResolvedConfig.dryRun]

\* setBackoff, backoffRequeue: a refused pod that stays a candidate is judged
\* again once its window has ended, and its entry goes, unless the kubelet
\* still reports the resize Infeasible, which opens the next window.
RefusedIsRetried ==
    \A p \in Pods :
        backoff[p] # Absent /\ CandidateNow(p)
            ~> backoff[p] = Absent \/ ~CandidateNow(p) \/ pods[p].resize = "Infeasible"

\* Zero churn: once others leave the cluster alone and calls stop failing, every
\* node comes to rest for good.  No requeue, debounce, annotation write or
\* expired window keeps a node going, save that of a pod whose resize the
\* kubelet reports Infeasible: its node is back after every window.
ComesToRest ==
    <>[](\A n \in Nodes :
            AtRest(n) \/ \E p \in Pods : OnNode(pods[p], n) /\ pods[p].resize = "Infeasible")
=============================================================================
