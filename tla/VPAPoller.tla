----------------------------- MODULE VPAPoller -----------------------------
(***************************************************************************)
(* internal/vpa/poller.go: a goroutine that lists the VPAs page by page    *)
(* every period, publishes the list, and sends the namespaces it changed   *)
(* down a channel of bounded capacity, dropping what does not fit.  The    *)
(* node controller drains the channel, but only in the process that leads. *)
(*                                                                         *)
(* A pass and the queue are as coarse as the poller can tell: what happens *)
(* inside a pass is NodeReconciler's.  A VPA here is one that may write    *)
(* CPU limits; byNS is the set of those listed.                            *)
(***************************************************************************)
EXTENDS Naturals, Sequences, FiniteSets

CONSTANTS
    Pods, Nodes, VPAs, NodeOf, Governs,  \* as in ManagedView
    Namespaces,
    PodNamespace,        \* pod -> namespace
    VPANamespace,        \* VPA -> namespace
    Capacity,            \* of the channel: changeBuffer
    DrainsPromptly,      \* does a leader drain its channel faster than the API answers?
    APIStates,           \* how the VPA API may answer
    MaxChanges,          \* bound: changes by others
    MaxFaults            \* bound: failing lists and restarts

ASSUME PollerAssumption ==
    /\ NodeOf \in [Pods -> Nodes] /\ PodNamespace \in [Pods -> Namespaces]
    /\ VPANamespace \in [VPAs -> Namespaces] /\ Governs \in [VPAs -> SUBSET Pods]
    /\ \A v \in VPAs, p \in Pods : p \in Governs[v] => PodNamespace[p] = VPANamespace[v]
    /\ Capacity \in Nat \ {0} /\ DrainsPromptly \in BOOLEAN
    /\ APIStates \subseteq {"served", "absent", "forbidden", "failing"}
    /\ MaxChanges \in Nat /\ MaxFaults \in Nat

VARIABLES
    vpas,     \* the VPAs in the cluster
    alive,    \* the pods in the cluster
    apiState, \* how the API answers a list
    poller,   \* what the goroutine is at
    sight,    \* the list it is reading: pages continue one snapshot
    read,     \* the items it has read of it
    byNS,     \* the published list
    synced,   \* has a list finished?
    unsent,   \* namespaces notify has yet to send
    channel,  \* the namespaces sent
    leading,  \* has the process won the lease?
    queue,    \* nodes to reconcile
    series,   \* podSeries: node -> pods it manages
    changes, faults  \* spent of the two budgets

memory == <<poller, sight, read, byNS, synced, unsent, channel>>
control == <<leading, queue, series>>
cluster == <<vpas, alive, apiState>>
budget == <<changes, faults>>
vars == <<cluster, memory, control, budget>>

MV == INSTANCE ManagedView WITH view <- byNS, known <- synced

Init ==
    /\ MV!Init
    /\ apiState \in APIStates
    /\ poller = "waiting" /\ read = {} /\ unsent = {} /\ channel = << >>
    /\ queue = {}
    /\ changes = 0 /\ faults = 0

----------------------------------------------------------------------------
(* The poller.                                                             *)

In(ns, list) == {v \in list : VPANamespace[v] = ns}

\* Slip: a namespace without a VPA left is not announced.
MutantRemovalsSilent(previous, current) ==
    {ns \in Namespaces : In(ns, current) # {} /\ In(ns, previous) # In(ns, current)}

\* The namespaces notify announces.
Changed(previous, current) == {ns \in Namespaces : In(ns, previous) # In(ns, current)}

Drained == DrainsPromptly /\ leading => channel = << >>

\* The ticker fires, or the process has just started.
BeginList ==
    /\ poller = "waiting"
    /\ Drained
    /\ poller' = "listing"
    /\ sight' = vpas /\ read' = {}
    /\ UNCHANGED <<cluster, byNS, synced, unsent, channel, control, budget>>

\* The list is over: the new view is published and notify goes to work.
Publish(list) ==
    /\ Drained
    /\ byNS' = list /\ synced' = TRUE
    /\ unsent' = Changed(byNS, list)
    /\ poller' = IF unsent' = {} THEN "waiting" ELSE "notifying"
    /\ UNCHANGED <<cluster, sight, channel, control>>

\* A page arrives, and it is not the last.
ReadPage ==
    /\ poller = "listing" /\ apiState = "served"
    /\ \E page \in SUBSET (sight \ read) \ {{}} :
          page # sight \ read /\ read' = read \cup page
    /\ UNCHANGED <<cluster, poller, sight, byNS, synced, unsent, channel, control, budget>>

\* Slip: what has been read is published without its last page.
MutantHalfList ==
    /\ poller = "listing" /\ apiState = "served"
    /\ Publish(read)
    /\ UNCHANGED <<read, budget>>

\* The last page arrives, and Refresh publishes all that was read.
ReadLastPage ==
    /\ poller = "listing" /\ apiState = "served"
    /\ \E page \in {sight \ read} :
          Publish(read \cup page) /\ read' = read \cup page
    /\ UNCHANGED budget

\* The API is not there or not ours to list: the view empties.
ListRefused ==
    /\ poller = "listing" /\ apiState \in {"absent", "forbidden"}
    /\ Publish({})
    /\ UNCHANGED <<read, budget>>

\* Any other error, at any page: the last view stays, and counts as a list.
ListFails ==
    /\ poller = "listing"
    /\ \/ apiState = "failing" /\ UNCHANGED faults
       \/ apiState = "served" /\ faults < MaxFaults /\ faults' = faults + 1
    /\ poller' = "waiting" /\ synced' = TRUE
    /\ UNCHANGED <<cluster, sight, read, byNS, unsent, channel, control, changes>>

\* Slip: a send that does not look at the channel's capacity.
MutantUnboundedSend(ns) == Append(channel, ns)

\* The channel after one send: what does not fit is dropped.
Send(ns) == IF Len(channel) < Capacity THEN Append(channel, ns) ELSE channel

Notify ==
    /\ poller = "notifying"
    /\ \E ns \in unsent : unsent' = unsent \ {ns} /\ channel' = Send(ns)
    /\ poller' = IF unsent' = {} THEN "waiting" ELSE "notifying"
    /\ UNCHANGED <<cluster, sight, read, byNS, synced, control, budget>>

PollerStep ==
    \/ BeginList \/ ReadPage \/ ReadLastPage \/ ListRefused \/ ListFails \/ Notify

----------------------------------------------------------------------------
(* The node controller, in the process that leads.                         *)

\* nodesHoldingPodsIn, in the order the channel delivers.
Receive ==
    /\ leading /\ channel # << >>
    /\ channel' = Tail(channel)
    /\ queue' = queue \cup {NodeOf[p] : p \in {q \in alive : PodNamespace[q] = Head(channel)}}
    /\ UNCHANGED <<cluster, poller, sight, read, byNS, synced, unsent, leading, series, budget>>

\* A pass.  Before the first list it only asks to come back, which leaves the
\* key where it is.
Pass(n) ==
    /\ leading /\ n \in queue
    /\ synced
    /\ queue' = queue \ {n}
    /\ series' = [series EXCEPT ![n] = MV!ManagedPods(n)]
    /\ UNCHANGED <<cluster, memory, leading, budget>>

\* Slip: the controllers start with an empty queue.
MutantNoSweep ==
    /\ ~leading
    /\ leading' = TRUE
    /\ UNCHANGED <<cluster, memory, queue, series, budget>>

\* The lease is won: the controllers start and every node is listed.
Lead ==
    /\ ~leading
    /\ leading' = TRUE
    /\ queue' = Nodes
    /\ UNCHANGED <<cluster, memory, series, budget>>

\* The process dies, or loses the lease and exits.
Restart ==
    /\ faults < MaxFaults /\ faults' = faults + 1
    /\ poller' = "waiting" /\ sight' = {} /\ read' = {} /\ byNS' = {} /\ synced' = FALSE
    /\ unsent' = {} /\ channel' = << >>
    /\ leading' = FALSE /\ queue' = {} /\ series' = MV!Nothing
    /\ UNCHANGED <<cluster, changes>>

----------------------------------------------------------------------------
(* The cluster.                                                            *)

Change ==
    /\ changes < MaxChanges
    /\ changes' = changes + 1
    /\ UNCHANGED faults

EditVPAs(list) ==
    /\ list # vpas
    /\ Change
    /\ vpas' = list
    /\ UNCHANGED <<alive, apiState, memory, control>>

SetAPI(state) ==
    /\ state # apiState
    /\ Change
    /\ apiState' = state
    /\ UNCHANGED <<vpas, alive, memory, control>>

\* A pod comes or goes; the watch enqueues its node.
ChangePod(p) ==
    /\ Change
    /\ alive' = IF p \in alive THEN alive \ {p} ELSE alive \cup {p}
    /\ queue' = IF leading THEN queue \cup {NodeOf[p]} ELSE queue
    /\ UNCHANGED <<vpas, apiState, memory, leading, series>>

Next ==
    \/ PollerStep \/ Receive \/ Lead \/ Restart
    \/ \E n \in Nodes : Pass(n)
    \/ \E list \in SUBSET VPAs : EditVPAs(list)
    \/ \E state \in APIStates : SetAPI(state)
    \/ \E p \in Pods : ChangePod(p)

Fairness ==
    /\ WF_vars(PollerStep) /\ WF_vars(Receive) /\ WF_vars(Lead)
    /\ \A n \in Nodes : WF_vars(Pass(n))

Spec == Init /\ [][Next]_vars
FairSpec == Spec /\ Fairness

----------------------------------------------------------------------------
(* Properties.                                                             *)

TypeOK ==
    /\ vpas \subseteq VPAs /\ alive \subseteq Pods /\ apiState \in APIStates
    /\ poller \in {"waiting", "listing", "notifying"}
    /\ sight \subseteq VPAs /\ read \subseteq sight /\ byNS \subseteq VPAs
    /\ unsent \subseteq Namespaces /\ channel \in Seq(Namespaces) /\ Len(channel) <= Capacity
    /\ synced \in BOOLEAN /\ leading \in BOOLEAN
    /\ queue \subseteq Nodes /\ series \in [Nodes -> SUBSET Pods]

\* poller.go 117-119, 181-182 and the comment on Changes: passes only ever see
\* a whole list, nothing before the first one, and a change in the view brings
\* back every node it concerns, in whatever order lists, sends, passes, leases
\* and restarts come.  This is the abstract specification, fairness included.
ImplementsManagedView == MV!Spec
=============================================================================
