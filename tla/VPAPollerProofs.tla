-------------------------- MODULE VPAPollerProofs --------------------------
(***************************************************************************)
(* For any cluster, any capacity of the channel and any number of changes  *)
(* and faults:                                                             *)
(*                                                                         *)
(*   PollerTyped        TypeOK;                                            *)
(*   PollerRefinesView  every step of the poller and of the passes is a    *)
(*                      step of ManagedView or leaves it as it is.         *)
(*                                                                         *)
(* The second holds whether or not sends are dropped: dropped sends cost   *)
(* the fairness part of ManagedView, which stays with TLC.  What it needs  *)
(* of the poller is that the items read belong to the list being read.     *)
(***************************************************************************)
EXTENDS VPAPoller, SequenceTheorems, TLAPS

USE DEF cluster, memory, control, budget

LEMMA InitTyped == Init => TypeOK
  <1> SUFFICES ASSUME Init PROVE TypeOK
    OBVIOUS
  <1>1. series = [n \in Nodes |-> {}] /\ vpas \subseteq VPAs /\ alive \subseteq Pods
    BY DEF Init, MV!Init, MV!Nothing
  <1>2. channel \in Seq(Namespaces) /\ Len(channel) <= Capacity
    BY PollerAssumption DEF Init
  <1> QED  BY <1>1, <1>2 DEF Init, MV!Init, TypeOK

\* A pass keeps what is stored for a node among the pods.
LEMMA ManagedTyped == ASSUME TypeOK, NEW n \in Nodes PROVE MV!ManagedPods(n) \subseteq Pods
  BY DEF TypeOK, MV!ManagedPods

\* One send fits or is dropped.
LEMMA SendTyped ==
    ASSUME TypeOK, NEW ns \in Namespaces
    PROVE  Send(ns) \in Seq(Namespaces) /\ Len(Send(ns)) <= Capacity
  BY PollerAssumption DEF TypeOK, Send

\* The end of a list keeps the types.
LEMMA PublishTyped ==
    ASSUME TypeOK, NEW list, list \subseteq VPAs, Publish(list), read' \subseteq sight
    PROVE  TypeOK'
  <1>1. unsent' \subseteq Namespaces
    BY DEF Publish, Changed
  <1> QED  BY <1>1 DEF Publish, TypeOK

LEMMA StepTyped == TypeOK /\ [Next]_vars => TypeOK'
  <1> SUFFICES ASSUME TypeOK, [Next]_vars PROVE TypeOK'
    OBVIOUS
  <1>1. CASE BeginList
    BY <1>1 DEF BeginList, TypeOK
  <1>2. CASE ReadPage
    BY <1>2 DEF ReadPage, TypeOK
  <1>3. CASE ReadLastPage
    <2>1. Publish(sight) /\ read' = sight /\ UNCHANGED budget
      <3>1. read \cup (sight \ read) = sight
        BY DEF TypeOK
      <3> QED  BY <1>3, <3>1 DEF ReadLastPage
    <2> QED  BY <2>1, PublishTyped DEF TypeOK
  <1>4. CASE ListRefused
    BY <1>4, PublishTyped DEF ListRefused, TypeOK
  <1>5. CASE ListFails
    BY <1>5 DEF ListFails, TypeOK
  <1>6. CASE Notify
    <2> PICK ns \in unsent : unsent' = unsent \ {ns} /\ channel' = Send(ns)
      BY <1>6 DEF Notify
    <2>1. channel' \in Seq(Namespaces) /\ Len(channel') <= Capacity
      BY SendTyped DEF TypeOK
    <2> QED  BY <1>6, <2>1 DEF Notify, TypeOK
  <1>7. CASE Receive
    <2>1. channel' \in Seq(Namespaces) /\ Len(channel') <= Len(channel)
      BY <1>7 DEF Receive, TypeOK
    <2>2. Len(channel') <= Capacity
      BY <2>1, PollerAssumption DEF TypeOK
    <2>3. queue' \subseteq Nodes
      BY <1>7, PollerAssumption DEF Receive, TypeOK
    <2> QED  BY <1>7, <2>1, <2>2, <2>3 DEF Receive, TypeOK
  <1>8. CASE \E n \in Nodes : Pass(n)
    <2> PICK n \in Nodes : Pass(n)
      BY <1>8
    <2>1. series' \in [Nodes -> SUBSET Pods]
      BY ManagedTyped DEF Pass, TypeOK
    <2> QED  BY <2>1 DEF Pass, TypeOK
  <1>9. CASE Lead
    BY <1>9 DEF Lead, TypeOK
  <1>10. CASE Restart
    <2>1. channel' \in Seq(Namespaces) /\ Len(channel') <= Capacity
      BY <1>10, PollerAssumption DEF Restart
    <2> QED  BY <1>10, <2>1 DEF Restart, MV!Nothing, TypeOK
  <1>11. CASE \E list \in SUBSET VPAs : EditVPAs(list)
    BY <1>11 DEF EditVPAs, TypeOK
  <1>12. CASE \E state \in APIStates : SetAPI(state)
    BY <1>12 DEF SetAPI, TypeOK
  <1>13. CASE \E p \in Pods : ChangePod(p)
    <2> PICK p \in Pods : ChangePod(p)
      BY <1>13
    <2>1. alive' \subseteq Pods
      BY DEF ChangePod, TypeOK
    <2>2. queue' \subseteq Nodes
      BY PollerAssumption DEF ChangePod, TypeOK
    <2> QED  BY <2>1, <2>2 DEF ChangePod, TypeOK
  <1>14. CASE UNCHANGED vars
    BY <1>14 DEF vars, TypeOK
  <1> QED  BY <1>1, <1>2, <1>3, <1>4, <1>5, <1>6, <1>7, <1>8, <1>9, <1>10, <1>11, <1>12,
              <1>13, <1>14 DEF Next, PollerStep

\* The poller's variables keep their types; among them, the channel never
\* holds more than its capacity and what is read belongs to the list.
THEOREM PollerTyped == Spec => []TypeOK
  BY InitTyped, StepTyped, PTL DEF Spec

\* Every step is one of ManagedView's, or none of its business.
LEMMA StepRefines == TypeOK /\ [Next]_vars => [MV!Next]_(MV!vars)
  <1> SUFFICES ASSUME TypeOK, [Next]_vars PROVE MV!Next \/ UNCHANGED MV!vars
    OBVIOUS
  <1>1. CASE BeginList
    BY <1>1 DEF BeginList, MV!Next, MV!Look
  <1>2. CASE ReadPage \/ Notify \/ Receive \/ \E state \in APIStates : SetAPI(state)
    BY <1>2 DEF ReadPage, Notify, Receive, SetAPI, MV!vars
  <1>3. CASE ReadLastPage
    <2>1. byNS' = sight
      BY <1>3 DEF ReadLastPage, Publish, TypeOK
    <2> QED  BY <1>3, <2>1 DEF ReadLastPage, Publish, MV!Next, MV!Adopt
  <1>4. CASE ListRefused
    BY <1>4 DEF ListRefused, Publish, MV!Next, MV!Adopt
  <1>5. CASE ListFails
    BY <1>5 DEF ListFails, MV!Next, MV!Adopt
  <1>6. CASE \E n \in Nodes : Pass(n)
    BY <1>6 DEF Pass, MV!Next, MV!React
  <1>7. CASE Lead
    BY <1>7 DEF Lead, MV!Next, MV!Lead
  <1>8. CASE Restart
    BY <1>8 DEF Restart, MV!Next, MV!Restart
  <1>9. CASE \E list \in SUBSET VPAs : EditVPAs(list)
    BY <1>9 DEF EditVPAs, MV!Next, MV!EditVPAs
  <1>10. CASE \E p \in Pods : ChangePod(p)
    <2>1. alive' \in SUBSET Pods
      BY <1>10 DEF ChangePod, TypeOK
    <2> QED  BY <1>10, <2>1 DEF ChangePod, MV!Next, MV!ChangePods
  <1>11. CASE UNCHANGED vars
    BY <1>11 DEF vars, MV!vars
  <1> QED  BY <1>1, <1>2, <1>3, <1>4, <1>5, <1>6, <1>7, <1>8, <1>9, <1>10, <1>11
           DEF Next, PollerStep

\* poller.go Refresh, list and the gate in Reconcile: passes see whole lists or
\* nothing, and manage no pod before the first list.
THEOREM PollerRefinesView == Spec => MV!SafeSpec
  <1>1. Init => MV!Init
    BY DEF Init
  <1> QED  BY <1>1, PollerTyped, StepRefines, PTL DEF Spec, MV!SafeSpec
=============================================================================
