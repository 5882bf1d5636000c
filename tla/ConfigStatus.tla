---------------------------- MODULE ConfigStatus ----------------------------
(***************************************************************************)
(* internal/controller/headroomconfig_controller.go: the controller that   *)
(* writes the managed counts into the status of the HeadroomConfig.        *)
(*                                                                         *)
(*   series -> ManagedCounts -> status                                     *)
(*                                                                         *)
(* The node controller beside it is ManagedView, the specification that    *)
(* the VPA poller and the passes are shown to implement.  Nothing tells    *)
(* this controller that a pass has moved the counts: it looks again when a *)
(* pod or the HeadroomConfig changes and when its resync period is over.   *)
(*                                                                         *)
(* The resource version of an object only ever serves to tell whether a    *)
(* copy of it is the last one, so a set says which copies are not.         *)
(***************************************************************************)
EXTENDS Naturals, FiniteSets

CONSTANTS
    Pods, Nodes, VPAs, NodeOf, Governs,  \* as in ManagedView
    Absent,      \* no HeadroomConfig, no status yet, or no reconcile under way
    MaxChanges,  \* bound: writes of the HeadroomConfig by others
    MaxFaults    \* bound: failing updates, relists and restarts

VARIABLES
    vpas, sight, view, known, leading, alive, series,  \* as in ManagedView
    hc,          \* the HeadroomConfig in the apiserver
    cachedHC,    \* the informer's copy
    owedEvent,   \* will an undelivered version of it enqueue the key?
    stale,       \* which copies are older than hc: "cache", "work"
    statusQueue, \* is the key on the queue?
    resync,      \* is a delayed add of the key armed?
    work,        \* the reconcile under way: the copy it took and its counts
    changes, faults  \* spent of the two budgets

MV == INSTANCE ManagedView

managed == <<vpas, sight, view, known, leading, alive, series>>
objects == <<hc, cachedHC, owedEvent, stale>>
reconciler == <<statusQueue, resync, work>>
budget == <<changes, faults>>
vars == <<managed, objects, reconciler, budget>>

Status == [generation: Nat, dryRun: BOOLEAN, pods: Nat, nodes: Nat]
HeadroomConfig == [generation: Nat, dryRun: BOOLEAN, status: Status \cup {Absent}]
Counts == [pods: Nat, nodes: Nat]
Work == [hc: HeadroomConfig, counts: Counts]

ASSUME StatusAssumption ==
    /\ Absent \notin HeadroomConfig /\ Absent \notin Status /\ Absent \notin Work
    /\ IsFiniteSet(Nodes) /\ IsFiniteSet(Pods)
    /\ MaxChanges \in Nat /\ MaxFaults \in Nat

Created(dryRun) == [generation |-> 1, dryRun |-> dryRun, status |-> Absent]

Init ==
    /\ MV!Init
    /\ hc \in {Absent, Created(TRUE)} /\ cachedHC = hc
    /\ owedEvent = FALSE /\ stale = {}
    /\ statusQueue = FALSE /\ resync = FALSE /\ work = Absent
    /\ changes = 0 /\ faults = 0

----------------------------------------------------------------------------
(* Reconcile.                                                              *)

\* ManagedCounts: the pods that have a series, and the nodes that hold one.
ManagedCounts(held) ==
    [pods  |-> Cardinality({at \in Nodes \X Pods : at[2] \in held[at[1]]}),
     nodes |-> Cardinality({n \in Nodes : held[n] # {}})]

\* The status Reconcile asks for; readyMessage adds the mode to the counts.
StatusOf(object, counts) ==
    [generation |-> object.generation, dryRun |-> object.dryRun,
     pods |-> counts.pods, nodes |-> counts.nodes]

\* Slip: the zero object a failed Get leaves is taken for a HeadroomConfig.
MutantZeroObject ==
    /\ leading /\ statusQueue /\ work = Absent
    /\ cachedHC = Absent
    /\ statusQueue' = FALSE
    /\ work' = [hc |-> cachedHC, counts |-> ManagedCounts(series)]
    /\ UNCHANGED <<managed, budget, objects, resync>>

\* Get from the cache.  Without a HeadroomConfig there is nothing to do, and
\* nothing to come back for.
ReadNothing ==
    /\ leading /\ statusQueue /\ work = Absent
    /\ cachedHC = Absent
    /\ statusQueue' = FALSE
    /\ UNCHANGED <<managed, budget, objects, resync, work>>

ReadConfig ==
    /\ leading /\ statusQueue /\ work = Absent
    /\ cachedHC # Absent
    /\ statusQueue' = FALSE
    /\ work' = [hc |-> cachedHC, counts |-> ManagedCounts(series)]
    /\ stale' = IF "cache" \in stale THEN stale \cup {"work"} ELSE stale \ {"work"}
    /\ UNCHANGED <<managed, budget, hc, cachedHC, owedEvent, resync>>

Wanted == StatusOf(work.hc, work.counts)

\* Slip: only a write is followed by another look.
MutantQuietNoResync ==
    /\ work # Absent /\ Wanted = work.hc.status
    /\ work' = Absent
    /\ UNCHANGED <<managed, budget, objects, statusQueue, resync>>

\* The status is as it should be.
StatusUnchanged ==
    /\ work # Absent /\ Wanted = work.hc.status
    /\ work' = Absent /\ resync' = TRUE
    /\ UNCHANGED <<managed, budget, objects, statusQueue>>

\* Slip: the write names no resource version, as a patch would.
MutantUnversioned == hc # Absent

\* Does the apiserver take the update?  It must find the version that was read.
Accepted == hc # Absent /\ "work" \notin stale

WriteStatus ==
    /\ hc' = [hc EXCEPT !.status = Wanted]
    /\ stale' = {"cache"}
    /\ UNCHANGED <<cachedHC, owedEvent>>

StatusWritten ==
    /\ work # Absent /\ Wanted # work.hc.status
    /\ Accepted
    /\ WriteStatus
    /\ work' = Absent /\ resync' = TRUE
    /\ UNCHANGED <<managed, budget, statusQueue>>

\* Slip: a refused update is taken for a written one that asks for no resync.
MutantConflictDropped ==
    /\ work # Absent /\ Wanted # work.hc.status
    /\ ~Accepted
    /\ work' = Absent
    /\ UNCHANGED <<managed, budget, objects, statusQueue, resync>>

\* A conflict, or the object has gone: the error brings the key back.
StatusRefused ==
    /\ work # Absent /\ Wanted # work.hc.status
    /\ ~Accepted
    /\ work' = Absent /\ statusQueue' = TRUE
    /\ UNCHANGED <<managed, budget, objects, resync>>

\* Any other error, whether or not the update went through.
StatusFails ==
    /\ work # Absent /\ Wanted # work.hc.status
    /\ faults < MaxFaults /\ faults' = faults + 1
    /\ \/ Accepted /\ WriteStatus
       \/ UNCHANGED objects
    /\ work' = Absent /\ statusQueue' = TRUE
    /\ UNCHANGED <<managed, changes, resync>>

\* The resync period is over.
ResyncFires ==
    /\ resync
    /\ resync' = FALSE /\ statusQueue' = TRUE
    /\ UNCHANGED <<managed, budget, objects, work>>

Reconcile == ReadNothing \/ ReadConfig \/ StatusUnchanged \/ StatusWritten \/ StatusRefused

----------------------------------------------------------------------------
(* The watches.                                                            *)

Enqueues(event) == statusQueue' = (statusQueue \/ (leading /\ event))

DeliverConfig ==
    /\ "cache" \in stale
    /\ cachedHC' = hc /\ stale' = stale \ {"cache"}
    /\ owedEvent' = FALSE /\ Enqueues(owedEvent)
    /\ UNCHANGED <<managed, budget, hc, resync, work>>

\* The watch broke: a relist compares the copy with the object, and a pair of
\* the same generation counts as no change.
RelistConfig ==
    /\ "cache" \in stale
    /\ faults < MaxFaults /\ faults' = faults + 1
    /\ cachedHC' = hc /\ stale' = stale \ {"cache"}
    /\ owedEvent' = FALSE
    /\ Enqueues(\/ cachedHC = Absent /\ hc # Absent
                \/ cachedHC # Absent /\ hc = Absent
                \/ cachedHC # Absent /\ hc # Absent /\ cachedHC.generation # hc.generation)
    /\ UNCHANGED <<managed, changes, hc, resync, work>>

\* Someone writes the HeadroomConfig; each such write is an event.
SetConfig(object) ==
    /\ changes < MaxChanges /\ changes' = changes + 1
    /\ hc' = object /\ stale' = {"cache", "work"} /\ owedEvent' = TRUE
    /\ UNCHANGED <<managed, faults, cachedHC, reconciler>>

CreateConfig(dryRun) == hc = Absent /\ SetConfig(Created(dryRun))
EditConfig(dryRun) ==
    /\ hc # Absent
    /\ SetConfig([hc EXCEPT !.generation = @ + 1, !.dryRun = dryRun])
DeleteConfig == hc # Absent /\ SetConfig(Absent)

\* Pods coming and going enqueue the key, as they do their node.
ChangePods ==
    /\ MV!ChangePods
    /\ Enqueues(TRUE)
    /\ UNCHANGED <<objects, resync, work, budget>>

\* The controllers start, and each cached node and pod is an event.
Lead ==
    /\ ~leading /\ MV!Lead
    /\ statusQueue' = TRUE
    /\ UNCHANGED <<objects, resync, work, budget>>

Restart ==
    /\ faults < MaxFaults /\ faults' = faults + 1
    /\ MV!Restart
    /\ cachedHC' = hc /\ owedEvent' = FALSE /\ stale' = {}
    /\ statusQueue' = FALSE /\ resync' = FALSE /\ work' = Absent
    /\ UNCHANGED <<hc, changes>>

\* The rest of the process and of the cluster.
Beside ==
    /\ MV!EditVPAs \/ MV!Look \/ MV!Adopt \/ \E n \in Nodes : MV!React(n)
    /\ UNCHANGED <<objects, reconciler, budget>>

Next ==
    \/ Reconcile \/ StatusFails \/ ResyncFires
    \/ DeliverConfig \/ RelistConfig
    \/ \E d \in BOOLEAN : CreateConfig(d) \/ EditConfig(d)
    \/ DeleteConfig
    \/ ChangePods \/ Lead \/ Restart \/ Beside

Spec == Init /\ [][Next]_vars

\* The worker, the watch and the timer of a process that leads get their turn.
Fairness ==
    WF_vars(Reconcile) /\ WF_vars(ResyncFires) /\ WF_vars(DeliverConfig)

FairSpec == Spec /\ Fairness

----------------------------------------------------------------------------
(* Properties.                                                             *)

TypeOK ==
    /\ alive \subseteq Pods /\ series \in [Nodes -> SUBSET Pods] /\ leading \in BOOLEAN
    /\ hc \in HeadroomConfig \cup {Absent} /\ cachedHC \in HeadroomConfig \cup {Absent}
    /\ owedEvent \in BOOLEAN /\ stale \subseteq {"cache", "work"}
    /\ statusQueue \in BOOLEAN /\ resync \in BOOLEAN
    /\ work \in Work \cup {Absent}

\* headroomconfig_controller.go 31-35: while the controller knows of a
\* HeadroomConfig it will look at it again, whatever was refused, failed,
\* deleted, recreated or missed by a relist, since no event announces a change
\* of the counts.
StatusWakesUp ==
    leading /\ cachedHC # Absent => statusQueue \/ resync \/ work # Absent

\* Status.ObservedGeneration and Reconcile: a status that claims the current
\* generation describes the spec of that generation, also when the object was
\* edited, or deleted and created anew, between the read and the write; and it
\* never claims a generation yet to come.
ObservedWasRead ==
    hc # Absent /\ hc.status # Absent =>
        /\ hc.status.generation <= hc.generation
        /\ hc.status.generation = hc.generation => hc.status.dryRun = hc.dryRun

\* headroomconfig_controller.go 109-112, 137-141: once the nodes' passes agree
\* on what they manage, the status of the HeadroomConfig says so, and says so
\* for good, although the counts move behind the controller's back.
StatusConverges ==
    \A some \in SUBSET Pods :
        LET held == [n \in Nodes |-> {p \in some : NodeOf[p] = n}]
        IN  <>[](leading /\ series = held)
                => <>[](hc # Absent => hc.status = StatusOf(hc, ManagedCounts(held)))
=============================================================================
