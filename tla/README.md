# kube-headroom: a TLA+ verification

kube-headroom is a Kubernetes controller that sets the CPU *limits* of running pods from how
much of their node is *requested*. On an empty node limits approach the node's size; as the
node fills up they fall back to the requests. It reconciles node by node: any change that can
move a limit puts the node on a work queue, and a pass over the node reads the cached pods,
computes every target with a pure policy, and patches the limits that are out of the deadband.

Around that loop there are a poller that keeps a view of the VerticalPodAutoscalers (VPAs), whose
pods Headroom must leave alone; an admission webhook that gives a pod its first limits; and a
second controller that reports what is managed in the status of the HeadroomConfig.

This directory models all four and the policy. CPU is whole milli-cores, time is ticks.

## The system's parts

| Part | Source | State | Operations | Interacts with |
|---|---|---|---|---|
| Policy core | `internal/policy/policy.go` | none | `Compute` | called by the reconciler |
| Node reconciler | `internal/controller/node_controller.go` | backoff map, token buckets, `podSeries`, gauges, debounce | `Reconcile`, event handlers, predicates | informer caches, work queue, apiserver, poller |
| Pod inputs, split | `internal/controller/podinput.go` | none | `buildPodInput`, `splitLimit` | reconciler |
| Eligibility | `internal/eligibility/eligibility.go`, `vpa.go` | none | the gates | reconciler, webhook |
| VPA poller | `internal/vpa/poller.go` | the last list, `synced`, a channel | `Refresh`, `notify` | reconciler, webhook |
| Status annotation | `internal/controller/observability.go` | the annotation, on the pod | `writePodStatus` | reconciler |
| Config status reconciler | `internal/controller/headroomconfig_controller.go` | `status` of the HeadroomConfig | `Reconcile` | `ManagedCounts` |
| Birth-limit webhook | `internal/webhook/v1/pod_webhook.go` | none | `Default` | apiserver at pod creation |
| Wiring, API types, metrics registry | `cmd/`, `api/`, `metrics.go` | none | none | |

What is hard about it:

* **Interleaving.** A pass reads pods, node, config, namespaces, LimitRanges and VPAs at
  different moments, and writes pod by pod. Everything it read may change before it ends. The
  only thing that repairs this is another pass, so no change may ever fail to bring one. There
  is no periodic resync.
* **Filtering.** To avoid loops the watch predicates drop most updates, the controller's own
  among them. Whatever a pass reads and a predicate does not compare is a missed wake-up.
* **Retries.** A refused pod is left alone for a window. Nothing happens on a quiet node when
  the window ends, so the pass that sees it open has to ask to come back, and a window may
  close in the middle of a pass.
* **Partial failure.** Patches fail one by one, the token bucket breaks a pass off, annotation
  writes fail, and the process may die, losing everything in memory.
* **Arithmetic.** Two shares of one slack, a floor, four caps, a quantum, a QoS floor and a
  deadband, in that order; then a split over containers that the apiserver's own rules, some of
  them in floating point, must accept.
* **Silent state.** A VPA that comes or goes raises no watch event: the poller has to announce it
  through a channel that may be full. Nothing at all announces that a pass has moved the managed
  counts.
* **Several deciders.** Webhook, reconciler, VPA and LimitRanger judge the same pod by the same
  rules at different moments.

What makes each part correct: the policy respects requests and caps, hands out no more than the
slack pays for, raises nobody when a pod arrives and asks for no second patch; the reconciler
never forgets a refused pod, never misses a change, leaves no limit, annotation or series
behind, and comes to rest; a split adds up, is read back as the target and is refused only where
every target would be; no limit has two writers; passes see whole lists of VPAs and follow each of
them; the status never describes a spec nobody read and reaches the counts.

`PROJECT.json` lists each hazard at its line with the properties that would catch it.

## Modules

| Module | Models |
|---|---|
| `Policy` | `policy.go` as pure operators: `Stats`, `RawLimit`, `Ceiling`, `Quantize`, `Lift`, `Applies`, `Decide`, `Compute` |
| `NodeBooking` | one node's policy inputs under any sequence of arrivals, departures, refusals, patches and capacity changes |
| `MCNodeBooking` | its small instances |
| `NodeReconciler` | the loop: apiserver, caches, handlers, queue, the pass, memory, series, process |
| `MCNodeReconciler` | its small instances, over the real `Policy` |
| `Containers` | the containers of a pod: sums, QoS, LimitRange caps, `splitLimit` |
| `VPARule` | `vpa.go`: may a VPA write this pod's limit? |
| `Webhook` | the gates, and the birth limits of `pod_webhook.go` |
| `PodLimits` | one pod from admission through resizes, over the three above and `Policy` |
| `MCPodLimits` | its small instances |
| `ManagedView` | abstract: nodes follow a view of the VPAs, however it is kept |
| `VPAPoller` | `poller.go`, its channel, leases and coarse passes; implements `ManagedView` |
| `MCVPAPoller` | its small instance |
| `ConfigStatus` | `headroomconfig_controller.go`, composed with `ManagedView` |
| `MCConfigStatus` | its small instance |
| `PolicyProofs`, `NodeBookingProofs`, `NodeReconcilerProofs`, `NodeReconcilerRestProofs`, `PodLimitsProofs`, `VPAPollerProofs`, `ConfigStatusProofs` | theorems |
| `Sums` | the laws of `SumFunctionOnSet` for any finite set, for the proofs |

    Policy <- NodeBooking                    ManagedView <~ VPAPoller (implements)
    Policy <- NodeReconciler (parameter)     ManagedView <- ConfigStatus (is composed with)
    Policy <- Containers <- VPARule <- Webhook <- PodLimits

### Policy

The code computes shares in `float64` and rounds once. Operands are far below 2^53; rounding the
exact rational gives the same integer, except where the quotient is within a floating-point error
of a half, which is at most one milli-core. `Round` is monotone, so `Round(max(a, b))` is written
`max(Round(a), Round(b))`. The reported factor and the reason strings are left out.

### NodeBooking

State: the node's allocatable CPU, the pods as `PodInput`s, the config, and the decisions.
`Become` recomputes the decisions after every change, as a pass does. `Refuse` and `Readmit` are
a window opening and closing; `Apply` is a patch.

### NodeReconciler

| Code | Model |
|---|---|
| objects in the apiserver | `apiPods`, `apiNodes`, `apiConfig`, `apiNamespaces`, `apiVPAs` |
| informer caches | `pods`, `nodes`, `config`, `namespaces` |
| `vpa.Poller` | `vpas`, `vpaSynced` |
| watch events past the predicates | `events` |
| work queue | `queue`: ticks until a key is ready; the earliest of the times asked for wins |
| `Reconcile` under way | `pass`: step, loaded config, node, listed pods, ticks since `judgedAt`, decisions left, pod in hand |
| `backoff` | `backoff`: ticks until the window ends, negative once it has |
| `limiters` | `buckets` |
| `podSeries`, `podLimitCores`, `nodeResizesDeferred` | the same |

A pass is `StartUnsynced`, `StartForgets` or `StartPass` (VPA gate, `loadConfig`, `Get` of the
node), then `ListPods` (`List`, `judgedAt`), `BuildInputs` (`buildInputs`, `Compute`, gauges,
`syncPodMetrics`, `limiterFor`), and then per decision, in any order, `Annotate`
(`writePodStatus`, deadband, dry-run) and `OutOfTokens` or one of the `Resize...` outcomes
(`limiter.Allow`, `applyResize`, `classifyResizeError`), and `EndPass` (error, one-second
requeue, or `backoffRequeue`). `ReadFails` is a failing read. Between any two of these steps
everything else may move.

A pod is its node, phase, resize condition, limit, annotation, and a `spec`: request, booking,
cap, opt-out, owner, whether it is resizable at all (Burstable, no pod-level resources, no
restart on resize) and whether a limit equal to the request would make it Guaranteed. Containers
are summed up. The annotation is the target and the mode; its other fields come from the same
computation.

Simplifications, all of them deliberate:

* `BuildInputs` is one step, although `buildInputs` reads namespaces, LimitRanges and the VPA
  view pod by pod. Each of these raises an event after its own change, exactly as if it had
  changed before or after the step.
* The watch delivers the versions of one pod in one step. `owed` remembers the nodes that the
  versions in between enqueue, so no event is lost by this. `RelistPod` is the case where the
  code does lose them.
* A namespace's labels and LimitRanges are one object.
* Left out: Kubernetes events, logs, counters, the plain node gauges and `vpaSkipped`. Nothing
  in the model reads them.
* `CacheCatchesUp` assumes that a pass does not list a pod before the watch has brought back
  what earlier passes wrote to it. The debounce makes this likely and nothing makes it certain:
  the run `cache_lag` drops the assumption and shows the consequence.

### Containers, VPARule, Webhook, PodLimits

Here a pod is its containers: kind (app, sidecar, init), request, limit, memory as far as QoS
tells it apart, resize policy; and its owners, opt-out, pod-level resources and cap.

| Code | Model |
|---|---|
| the pod, LimitRanges, HeadroomConfig, VPA view | `pod`, `ranges`, `settings`, `vpas` |
| the LimitRange cache | `cachedRanges` |
| a pass between its decision and its patch | `patch`: target, the listed pod, and whether anything moved since |
| admission: LimitRanger's defaults, `Default`, LimitRanger's verdict | `Create` |
| `buildInputs`, `Compute`, deadband | `DecideResize` |
| `applyResize`, over the listed pod or the one the annotation's patch returned | `Resize` |

The pod books its containers' requests and the peak of its init containers. Its overhead, and what an
unfinished resize holds on to, only add to the node's total, as `others` does, which may change at
any moment.

`birth` remembers how the last creation ended; only properties read it. When passes run is
`NodeReconciler`'s business; here one may run at any moment.

* Floating point: quotients that are truncated are exact (operands far below 2^53). LimitRanger's
  `limit / request > ratio` is not: `InexactRatios` lists the pairs at the ratio that it refuses,
  and the instance holds the one the code's comment names. Equal remainders of different shares
  compare either way, so `LeftoverSets` allows both.
* A name is the sequence of its dash-separated parts.
* LimitRanger, QoS classes, resize validation and the VPA's own rule are external: they are written
  from how the code uses and describes them.

### ManagedView, VPAPoller

`ManagedView` says what the rest of the system may expect: `Look` takes a snapshot of the VPAs,
`Adopt` makes the view that snapshot, nothing, or what it was, `React` brings a node in step, and
fairness says every node that is out of step gets there.

`VPAPoller` is how the code does it: `BeginList`, `ReadPage`, `ReadLastPage`, `ListRefused`,
`ListFails` are `list` and `Refresh` page by page; `Publish` is the critical section; `Notify` sends
one namespace at a time into `channel`, dropping what does not fit; `Receive` is the leader's
handler; `Lead` is the lease. The mapping is `view <- byNS`, `known <- synced`.

* A pass and the work queue are coarse: one step, a set of nodes. `NodeReconciler` has the detail.
* A VPA is one that may write limits; a malformed one makes every list fail (`"failing"`).
* The state kept for logging is left out.
* `DrainsPromptly` assumes that a leader has drained its channel before the API answers the next
  request. The leader's handler only looks nodes up in a cache; polls are 30 seconds apart. The
  code does not enforce it. With it `FALSE`, or with a channel shorter than the namespaces one list
  changes, TLC finds a lost change: a standby's channel is full, the lease is won while a list is
  under way, the sweep of all nodes runs before the list is published, and the send is dropped.
  The comment at `poller.go` 34-35 ("Its first reconciles cover every node anyway") leaves this out.

### ConfigStatus

| Code | Model |
|---|---|
| the HeadroomConfig and the informer's copy | `hc`, `cachedHC` |
| its resource version | `stale`: which copies are not the last one |
| events past `GenerationChangedPredicate` | `owedEvent` |
| work queue, `RequeueAfter` | `statusQueue`, `resync` |
| `Reconcile` between its read and its write | `work` |
| `podSeries` | `series`, driven by `ManagedView` |

`ReadNothing` and `ReadConfig` read; `StatusUnchanged`, `StatusWritten`, `StatusRefused` and
`StatusFails` end the reconcile. A failed update may or may not have gone through. The Ready
condition's message is the mode and the counts. Node events are left out: they enqueue as pod
events do.

## Runs

| Run | Shows | Result |
|---|---|---|
| `booking` | bounds, burst, monotonicity, independence of windows, zero churn of the policy | pass |
| `pod` | one pod, any two changes of it, refusals, conflicts, failed patches and reads | pass |
| `settings` | any two changes of config, node, namespace, LimitRange, VPAs | pass |
| `restart` | two pods, one token a second; the process dies; the first VPA list fails or is forbidden | pass |
| `two_nodes` | a pod key recreated on another node; nodes that come and go; broken watches, failed annotation writes, manual edits | pass |
| `liveness` | a refused pod is retried; a cluster left alone comes to rest; a failed annotation costs no resize | pass |
| `containers` | one pod of sixteen shapes: seeds, caps, splits, stale patches, VPAs | pass |
| `poller` | the poller implements `ManagedView`, fairness included | pass |
| `status` | the status reconciler under conflicts, failures, relists, recreation, restarts | pass |
| `birth` | a seed costs a pod its admission | violation |
| `init_peak` | a per-pod LimitRange refuses a target because of an init container's peak | violation |
| `cache_lag` | a pass that reads its own patch too late leaves a wrong limit | violation |

The violations are disagreements between the code and what its comments or `docs/design.md` say;
`PROJECT.json` quotes the lines.

The properties of the reconciler are stated about a node *at rest*: not queued, not being
reconciled, no event outstanding for it. That is the state the code may stay in for ever, so
whatever is wrong then stays wrong.

* `BackoffWakesUp`: a node with a refused candidate pod is never at rest.
* `SeriesFresh`, `TargetsFresh`: at rest, the node's books (`podSeries`, the deferred count) and the
  exported targets are those a new pass would produce. No change that a pass reads was missed. The
  gauge behind the books is shared by all nodes: see "a move's series" below.
* `LimitsSettled`, `StatusSettled`: at rest, no managed limit is out of its deadband and every
  annotation shows the target and the mode.
* `RefusedIsRetried`, `ComesToRest`: the temporal counterparts. A pod that the kubelet keeps
  reporting Infeasible is the exception of both: it opens a new window at every retry, on purpose
  (`docs/design.md` 6.4).

`SeriesFresh` and `TargetsFresh` compare with the cache, so they also hold where the cache lags.
`LimitsSettled` and `StatusSettled` compare with the apiserver, once the node's own pods are
cached as they are (`CaughtUp`).

Two things are outside what the last two promise. A limit that somebody edits by hand raises no
event, so it stays until something else reconciles the node (`docs/design.md` 336 says it "will be
overwritten"); only `two_nodes` has such edits. And a failed annotation write is logged and not
retried: the resize goes on, so `LimitsSettled` holds (`liveness`), the annotation stays as it was.
Setting `ManualEdits` or adding `"status"` to `FaultKinds` in the configuration of `pod` shows either
as a violation of `LimitsSettled` or `StatusSettled`.

In `cache_lag` the limit may be wrong either way. After allocatable CPU went from 4 to 3 and back it is
too low, which `docs/design.md` 219 calls "only an efficiency bug"; after 3, 4 and 3 it is too high, "a
fairness bug". TLC reports whichever it meets first.

The properties of the other parts:

* `AppliedPatchSettles`: an applied patch is read back as its target and the next pass leaves the
  pod alone. `PatchIsValid`: no part of a split is below its request, a stale target over a newer
  pod included, and the pod keeps its QoS class.
* `RefusedOnlyWithoutRoom`: with its LimitRanges cached, a patch is refused by LimitRanger only if
  every target would be, but for the fractional ratio that `docs/design.md` 6.4 excepts. It holds of
  pods that start no sidecar before an init container (`PeakApart`), which all shapes of run `containers` are. A
  pod's limit, which LimitRanger compares with a per-pod maximum, is at least the peak of each init
  container: its own limit and those of the sidecars started before it. `LimitRangeCapMilli`
  (`eligibility.go` 303) leaves that peak out, and a patch moves it. Run `init_peak` has a sidecar of 50m
  before an init container of 40m under a maximum of 100m: the target is 100m, the sidecar's part 83m,
  the peak 123m, and every retry is refused although a target of 60m would pass.
* `SeededIsManaged`: the webhook seeds no pod the reconciler will skip. `OneWriter`: neither seeds
  nor patches touch a pod that, by the VPA's own rule, a VPA writes.
* `CreationNotBlocked`: a seed costs no pod its admission (`pod_webhook.go` 56-58). It does not hold,
  because the webhook reads no LimitRange.
* `ImplementsManagedView`: the refinement.
* `StatusWakesUp`, `ObservedWasRead`, `StatusConverges`: the controller always comes back to a
  HeadroomConfig it knows; a status that claims a generation describes it; and once the nodes agree,
  the status says so for good.

### Known divergences that are not runs

* *Off-grid requests.* `policy.go` 86-88 says limits collapse to requests without slack. `decide`
  quantizes the request itself: 16m becomes 20m. Add to `NodeBooking` the invariant that without
  slack a target the lift leaves alone is its request.
* *A move's series.* `podLimitCores` is labelled by pod, `podSeries` is per node. A pod recreated on
  another node loses its series when the node it left is reconciled last. Add to `NodeReconciler`
  the invariant that a pod in some `podSeries` has a `podLimitCores`, and run `ReconcilerTwoNodes`.
* *A relist that hides a recreation.* `podUpdateRelevant` compares no UID, so a pod recreated in a
  gap of the watch keeps the limit it was born with. Put `LimitsSettled` into `ReconcilerTwoNodes`
  with `ManualEdits = FALSE` and without `"status"`.
* *A seed over the ceiling.* The birth limit is rounded without a step back: 13m with both
  multipliers at 1.2 is born with 20m, and the reconciler shrinks it to at most 16m, contrary to
  `pod_webhook.go` 104-106.

### Bounds

Changes by others and faults have budgets (`MaxChanges`, `MaxFaults`). Two changes are enough for
a change to be followed by its undoing or by another of a different kind within one pass; three
for delete, recreate and bind. One or two faults suffice because a fault sends the pass through
one of its exits, each of which has to leave the node woken up. `BackoffPeriod`, `MaxDebounce` and
`MaxPassTicks` are 1: a window can then end before, during or after a pass. One namespace is
enough because namespaces do not interact; two pods for sharing slack and tokens; two nodes for a
move. In `MCNodeReconciler` the quantum is 1 and the floor off, so every change moves a target.

`PodLimits` has one change after a creation: a change either precedes the decision, falls between
decision and patch, or follows the patch. Its shapes, ranges and settings are one for each case
that a rule tells apart but a sidecar before an init container, in all combinations. `VPAPoller` has two namespaces with a pod, a node and a VPA
each, a channel of two and three changes: enough to fill the channel on a standby and to change
the cluster again while a list is read. `ConfigStatus` has one pod, node and VPA, because
`ManagedView` beside it has no budget; that pods and nodes are counted apart is therefore not
exercised, the proofs hold for any number. `MaxChanges` bounds writes of the HeadroomConfig only.

Deadlock is not checked: a model whose budgets are spent and whose nodes are at rest has no step
left.

### Fairness

`FairSpec` asks that the controller's own steps (`System`: deliveries, handlers, the worker, the
clock) do not all stop while one can go on, and that the poller's ticker fires. Informers,
handlers and the worker are goroutines that the runtime schedules and that block on nothing the
model leaves out; the ticker is `poller.go` 80-88. Nothing is assumed of users, kubelets or
faults. The clock can stop the other steps only finitely often: a tick has to change something.

`VPAPoller` is fair to the poller's goroutine, to the handler of its channel, to each node's pass
and to the lease: a lease that is never won leaves no controller to promise anything, and leader
election gives it to some replica. `ConfigStatus` is fair to its worker, its timer and its watch,
not to the node controller: `StatusConverges` starts from nodes that agree. Relists, failures and
restarts are never assumed.

## Proofs

For every value of the constants, under the named assumptions of the modules:

* `TypeCorrect` (`NodeReconcilerProofs`): `Spec => [](TypeOK /\ PassSound)`. `TypeOK` is not
  inductive: that `buckets[n].tokens` stays a natural number, and that a resize has a decision to
  read, need `PassSound`, which says what the worker knows at each step of a pass.
* `BackoffNeverForgotten`: `Spec => []BackoffWakesUp`. The inductive invariant `WakeInv` adds to
  the two above
  - `OwedCovers`: a pod that differs from its cached predecessor in being resizable, which
    `podUpdateRelevant` does not compare, owes its node an event;
  - `EntryWoken`: the node of a candidate with an entry has been woken, unless its own pass is on;
  - `PassAware`: while it is and nothing has woken the node again, the pass judges the pod as a
    new pass would, and at its end finds the window still open at `judgedAt`;
  - `MovedWoken`: a listed pod that has moved to another node since has that node woken.

  The hypothesis `NothingUnseen` says that watches do not break, or that all pods agree on being
  resizable. It is needed: `podUpdateRelevant` does not compare what makes a pod resizable, which
  is immutable for one pod but not across a recreation that a relist hides.
* `SeriesAlwaysFresh` and `TargetsAlwaysFresh` (`NodeReconcilerRestProofs`): `Spec => []SeriesFresh`
  and `Spec /\ []SeriesApart => []TargetsFresh`. The argument has two halves.
  - The `Quiet...` lemmas: a step after which no event, queue entry or owed delivery stirs a node has
    changed nothing a pass over it reads. This is what the predicates, the handlers and the
    poller's announcements owe the node.
  - `PassFresh`: a pass whose node nothing stirs works on the config, node and pods that a new pass
    would read, and once its inputs are built only pods with a backoff entry are missing from the
    series; `WakeInv` turns those into a queued node when the pass ends. `PassTargets` says the same
    of the exported targets.

  `FloorSeen` is the counterpart of `NothingUnseen` for the QoS floor of a target. `SeriesApart` says
  that no two nodes have one pod's series on their books; without it the property fails, as "a move's series" above tells.
* `LimitsAlwaysSettled`, `StatusAlwaysSettled`: `LimitsSettled` and `StatusSettled`, under
  `OwnWritesOnly` (watches do not break, no manual edits, `CacheCatchesUp`) and, for the annotation,
  `StatusWritten`. Each hypothesis is one whose absence a run or a note above shows to break the
  property. The invariant follows a pod through a pass: `Pending` while its decision is open, then
  `Handled` (`PassSettles`): settled, or remembered by the pass as failed or rate limited, or by
  `backoff`, each of which brings the node back. `OwedNode` carries a cached pod to the apiserver's,
  and `RestSettled` is what remains at rest.
* `DecideWithinBounds` (`PolicyProofs`): `WithinBounds` of the target, for every pod, node and
  configuration.
* `LimitsDecideNoTarget`: what `NodeReconciler` assumes of its policy (below) holds of the real one.
* `FullerRaisesNobody`: less slack shared by more requests and pods raises no target. The
  argument goes through the monotonicity of rounding, clamp and quantization, and the fact that
  a quantized limit above the request is at or above the QoS floor, without which the lift would
  break the order.
* `BookingTyped`, `TargetsBounded`, `NobodyRaised`, `NobodyMoved`, `PatchSettles`, `BurstBounded`
  (`NodeBookingProofs`): every property of `NodeBooking`, for any number of pods. The inductive
  invariant `Booked` says that the decisions are `Compute`'s of the pods as they stand. What is left
  is about the sums of `Stats`: a sum over the pods of a node is compared with one over more pods,
  or with the sum of the shares, by the laws of `Sums`.
* `PodLimitsTyped`, `PatchesSettle`, `PatchesValid`, `SeedsAreManaged`, `OnlyOneWriter`
  (`PodLimitsProofs`): the properties of `PodLimits` but `RefusedOnlyWithoutRoom`, for any pods, LimitRanges, settings,
  autoscalers and bookings. None of them is inductive. `PodInv` adds what they rest on:
  - `PodSound`: a pod that was admitted has limits that cover its requests, plain init containers
    included, which no patch touches;
  - `PatchCurrent`: a patch that is still fresh carries the target a pass would compute now, for a
    pod that passes every gate, with the LimitRanges cached;
  - `SeedCurrent`: a pod that was just seeded passes every gate.

  What the theorems add to it is about the containers. `SplitAddsUp`: the floors of the shares add up
  to at most a target that covers the requests, so what is left is handed out and nothing else, and
  the parts add up. `SplitValid`: if the parts were the requests the target would be, which `Lift`
  excludes exactly where the pod would become Guaranteed. `FrameCaps`: the LimitRange cap and the QoS
  floor look at no limit that a patch changes, so the next pass finds the same target, and
  `ReadBackSettles` its limit in force. `SeedFrame`: a seed is above its request. `AdmittedCovered`:
  LimitRanger's default limit is a maximum that the request must keep too. `WriterFound`: an
  autoscaler that writes a limit by its own rule is one `LimitManagingVPA` finds.
* `SplitIsProportional`: for any containers and any target that covers the requests, the
  largest-remainder split exists, adds up to the target, covers each request, and leaves every
  container less than one milli-core from its exact share.
* `RefusalsMeanNoRoom`: `Spec => []RefusedOnlyWithoutRoom`, where every shape is `PeakApart`, which run
  `init_peak` shows to be needed. Given a rival, a target that LimitRanger would admit, the argument
  compares the target of a fresh patch with the cap that the pass computed from the same LimitRanges.
  - No cap: there is no item that bounds CPU from above, so none refuses.
  - A cap above the request: the target is at most the cap (`TargetUnderCap`), and every split of every
    target at most the cap keeps the rules a patch can break (`CapsKeepWithin`); what it leaves alone is
    as the rival has it (`WithinAdmitted`). This is where each rule on
    containers has to be a rule on the pod's total: a part is at most the ceiling of its share
    (`SplitCeil`), so under a maximum times total over the largest request no part is over the maximum,
    and the ratio of the container with the least room bounds them all.
  - A cap at or below the request: the target is the request, or the QoS floor above it. The
    request is admitted because the rival is (`RequestsKeepWithin`). If the pod has to stay above
    its request and the ratios are whole over every request, the rival is above the request
    and the cap is too (`RoomLiftsCaps`), so this case does not arise; the other ratios are
    `FractionalRatio`.

  The peaks of init containers move with no patch of a `PeakApart` pod (`PeakBounded`), and a
  pod's limits are otherwise the parts and what Headroom leaves alone (`PatchedTotal`).
* `PollerTyped` (`VPAPollerProofs`) and `PollerRefinesView`: `Spec => MV!SafeSpec`, for any cluster,
  capacity and faults. What the step simulation needs of the poller is the part of `TypeOK` that the
  items read belong to the snapshot being listed: the last page then completes it, and `Publish` is
  `Adopt`. Dropped sends do not matter here; they cost the fairness, which TLC checks.
* `StatusTyped`, `StatusKeepsAwake`, `StatusIsHonest` (`ConfigStatusProofs`): `TypeOK`,
  `StatusWakesUp` and `ObservedWasRead`. They are inductive together with
  - `Copies`: a copy not in `stale` is the object in the apiserver, so an accepted write carries the
    spec of the generation it names;
  - `Announced`: an object the cache does not have yet owes an event, so its delivery wakes the
    controller.

`NodeReconciler` takes the policy as the parameter `ComputeNode`. It assumes that it decides for the
managed pods (`ComputeAssumption`), and that limits in force decide no target, that a target is at
least the request and that a limit which is its target is left alone (`TargetAssumption`). TLC
checks both against the real `Policy` in every run; `LimitsDecideNoTarget` proves them of it on
every node. `BookingAssumption` asks that a pod that shares has a request (`eligibility.go` 151)
and that no pod books less than nothing (`podinput.go` 20).

`ShapeAssumption` of `PodLimits` types what users submit and asks two things of it. A submitted limit
is not below its request, which the apiserver's validation guarantees. And the topmost controller of
a pod, if it has one, is its own controller, or the Deployment of its ReplicaSet or the CronJob of its
Job by the names they generate (`TwoLevels`). `vpa.go` 87-92 says so of itself: "A controller further
up a longer chain is not seen", and for such a pod `OneWriter` does not hold.

`InexactAssumption` of `Containers` says two things of the pairs that LimitRanger's division puts past
their ratio: they are at the ratio exactly, and none has a limit one milli-core above its request. Such
a limit is at a ratio in thousandths only for the sixteen divisors of 1000, which double precision
divides without passing the ratio. `RefusalsMeanNoRoom` rests on it where a ratio leaves a container
exactly one milli-core of room (`WholeRatioLifts`); otherwise `InexactRatios` is any set.

`Sums` is where induction comes in. The proof system cannot instantiate the library's induction
theorems, which take a predicate; `SubsetInduction` takes a set of subsets instead, and from it
follow that the fold behind `SumFunctionOnSet` exists, that the order of its elements does not
matter, and that sums are monotone and linear.

Only model-checked: `RefusedIsRetried`, `ComesToRest`, `StatusConverges` and the fairness half of
`ImplementsManagedView`, since the proof system has no fairness. Every invariant and every action
property of a passing run is stated by a theorem.

## Not modelled

* Kubernetes events, logs, counters, plain gauges and `vpaSkipped`: nothing reads them back.
* Label selectors, quantities and annotations as text; TLS, flags, probes and registration.
* The debounce as a rate: delays are any value up to `MaxDebounce`.
* In-place changes of memory, and of requests that keep their sum, as events of `NodeReconciler`:
  they change a pod's cap or QoS floor and `podUpdateRelevant` does not see them, so the node follows
  at its next pass.
* Generated code, charts, manifests, dashboards, scripts and the website.

## Plan

1. An abstract specification of the promise of the loop (every node's limits follow the settings
   at some earlier moment, and finally the current ones), implemented by `NodeReconciler`.
2. The debounce of `docs/design.md` 6.2 step 3 as a property of the queue.
