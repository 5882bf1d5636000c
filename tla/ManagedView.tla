---------------------------- MODULE ManagedView ----------------------------
(***************************************************************************)
(* What the nodes' passes promise about VerticalPodAutoscalers, whatever   *)
(* way a view of them is kept: each node manages the pods that no VPA in   *)
(* the view governs; the view is all of one list of the cluster, or empty  *)
(* when no list can be had; no pod is managed before the first list; and a *)
(* node that is not in step with the view gets there.                      *)
(***************************************************************************)
EXTENDS Naturals

CONSTANTS
    Pods,    \* pods Headroom would manage but for a VPA
    Nodes,
    VPAs,
    NodeOf,  \* pod -> the node it is bound to
    Governs  \* VPA -> the pods whose CPU limit it may write

VARIABLES
    vpas,    \* the VPAs in the cluster
    sight,   \* the list being read
    view,    \* the VPAs as passes see them
    known,   \* has a list finished since the process started?
    leading, \* does this process run the controllers?
    alive,   \* the pods in the cluster
    series   \* node -> the pods it manages

vars == <<vpas, sight, view, known, leading, alive, series>>

\* The pods of the node that its next pass would manage.
ManagedPods(n) ==
    {p \in alive : NodeOf[p] = n /\ \A v \in view : p \notin Governs[v]}

Nothing == [n \in Nodes |-> {}]

Init ==
    /\ vpas \in SUBSET VPAs /\ alive \in SUBSET Pods
    /\ sight = {} /\ view = {}
    /\ known = FALSE /\ leading = FALSE
    /\ series = Nothing

EditVPAs ==
    /\ vpas' \in SUBSET VPAs
    /\ UNCHANGED <<sight, view, known, leading, alive, series>>

ChangePods ==
    /\ alive' \in SUBSET Pods
    /\ UNCHANGED <<vpas, sight, view, known, leading, series>>

Look ==
    /\ sight' = vpas
    /\ UNCHANGED <<vpas, view, known, leading, alive, series>>

\* A list ends: with all of it, with no API to list, or with the last view.
Adopt ==
    /\ view' \in {sight, {}, view}
    /\ known' = TRUE
    /\ UNCHANGED <<vpas, sight, leading, alive, series>>

Lead ==
    /\ leading' = TRUE
    /\ UNCHANGED <<vpas, sight, view, known, alive, series>>

React(n) ==
    /\ leading /\ known
    /\ series' = [series EXCEPT ![n] = ManagedPods(n)]
    /\ UNCHANGED <<vpas, sight, view, known, leading, alive>>

Restart ==
    /\ sight' = {} /\ view' = {} /\ known' = FALSE /\ leading' = FALSE
    /\ series' = Nothing
    /\ UNCHANGED <<vpas, alive>>

Next ==
    \/ EditVPAs \/ ChangePods \/ Look \/ Adopt \/ Lead \/ Restart
    \/ \E n \in Nodes : React(n)

SafeSpec == Init /\ [][Next]_vars

Spec == SafeSpec /\ \A n \in Nodes : WF_vars(React(n))
=============================================================================
