------------------------- MODULE ConfigStatusProofs -------------------------
(***************************************************************************)
(* The safety properties of the status controller, for any cluster and any *)
(* number of writes and faults:                                            *)
(*                                                                         *)
(*   StatusTyped       TypeOK;                                             *)
(*   StatusKeepsAwake  StatusWakesUp;                                      *)
(*   StatusIsHonest    ObservedWasRead.                                    *)
(*                                                                         *)
(* ObservedWasRead needs to know that a copy that is not stale is the      *)
(* object itself (Copies), StatusWakesUp that a HeadroomConfig the cache   *)
(* has not seen has an event to come (Announced).                          *)
(***************************************************************************)
EXTENDS ConfigStatus, FiniteSetTheorems, TLAPS

Copies ==
    /\ "cache" \notin stale => cachedHC = hc
    /\ work # Absent /\ "work" \notin stale => work.hc = hc

Announced == hc # Absent /\ cachedHC = Absent => owedEvent

Inv == TypeOK /\ Copies /\ Announced /\ StatusWakesUp /\ ObservedWasRead

USE DEF HeadroomConfig, Status, Work, Counts

\* Whatever the passes hold, the counts are natural numbers.
LEMMA CountsTyped == ASSUME NEW held PROVE ManagedCounts(held) \in Counts
  <1>1. IsFiniteSet({n \in Nodes : held[n] # {}})
    BY StatusAssumption, FS_Subset
  <1>2. IsFiniteSet({at \in Nodes \X Pods : at[2] \in held[at[1]]})
    <2>1. IsFiniteSet(Nodes \X Pods)
      BY StatusAssumption, FS_Product
    <2> QED  BY <2>1, FS_Subset
  <1> QED  BY <1>1, <1>2, FS_CardinalityType DEF ManagedCounts

LEMMA InitHolds == Init => Inv
  <1> SUFFICES ASSUME Init PROVE Inv
    OBVIOUS
  <1>1. Created(TRUE) \in HeadroomConfig
    BY DEF Created
  <1>2. series = [n \in Nodes |-> {}] /\ alive \in SUBSET Pods
    BY DEF Init, MV!Init, MV!Nothing
  <1>3. TypeOK
    BY <1>1, <1>2 DEF Init, MV!Init, TypeOK
  <1> QED  BY <1>3, StatusAssumption DEF Init, MV!Init, Created, Inv, Copies, Announced,
                                        StatusWakesUp, ObservedWasRead

\* A status that was asked for from the object as it is describes it.
LEMMA WriteHolds ==
    ASSUME Inv, work # Absent, Accepted, WriteStatus
    PROVE  /\ hc' \in HeadroomConfig
           /\ ObservedWasRead'
  <1>1. hc \in HeadroomConfig /\ work \in Work /\ work.hc = hc
    BY DEF Inv, TypeOK, Copies, Accepted
  <1>2. Wanted \in Status /\ Wanted.generation = hc.generation /\ Wanted.dryRun = hc.dryRun
    BY <1>1 DEF Wanted, StatusOf
  <1>3. hc' = [generation |-> hc.generation, dryRun |-> hc.dryRun, status |-> Wanted]
    BY <1>1 DEF WriteStatus
  <1> QED  BY <1>1, <1>2, <1>3 DEF ObservedWasRead

\* One step of the controller, of the cluster or of the passes.
LEMMA StepHolds == Inv /\ [Next]_vars => Inv'
  <1> SUFFICES ASSUME Inv, [Next]_vars PROVE Inv'
    OBVIOUS
  <1> USE StatusAssumption
  <1>1. CASE ReadNothing
    BY <1>1 DEF ReadNothing, Inv, TypeOK, Copies, Announced, StatusWakesUp, ObservedWasRead,
                managed, budget, objects
  <1>2. CASE ReadConfig
    <2>1. ManagedCounts(series) \in Counts
      BY CountsTyped
    <2>2. work' \in Work
      BY <1>2, <2>1 DEF ReadConfig, Inv, TypeOK
    <2>3. work' # Absent /\ work'.hc = cachedHC
      BY <1>2, <2>2 DEF ReadConfig
    <2> QED  BY <1>2, <2>2, <2>3 DEF ReadConfig, Inv, TypeOK, Copies, Announced,
                StatusWakesUp, ObservedWasRead, managed, budget
  <1>3. CASE StatusUnchanged
    BY <1>3 DEF StatusUnchanged, Inv, TypeOK, Copies, Announced, StatusWakesUp,
                ObservedWasRead, managed, budget, objects
  <1>4. CASE StatusWritten
    <2>1. hc' \in HeadroomConfig /\ ObservedWasRead'
      BY <1>4, WriteHolds DEF StatusWritten
    <2> QED  BY <1>4, <2>1 DEF StatusWritten, Accepted, WriteStatus, Inv, TypeOK, Copies,
                Announced, StatusWakesUp, managed, budget
  <1>5. CASE StatusRefused
    BY <1>5 DEF StatusRefused, Inv, TypeOK, Copies, Announced, StatusWakesUp,
                ObservedWasRead, managed, budget, objects
  <1>6. CASE StatusFails
    <2>1. CASE Accepted /\ WriteStatus
      <3>1. hc' \in HeadroomConfig /\ ObservedWasRead'
        BY <1>6, <2>1, WriteHolds DEF StatusFails
      <3> QED  BY <1>6, <2>1, <3>1 DEF StatusFails, Accepted, WriteStatus, Inv, TypeOK,
                  Copies, Announced, StatusWakesUp, managed
    <2>2. CASE UNCHANGED objects
      BY <1>6, <2>2 DEF StatusFails, Inv, TypeOK, Copies, Announced, StatusWakesUp,
                  ObservedWasRead, managed, objects
    <2> QED  BY <1>6, <2>1, <2>2 DEF StatusFails
  <1>7. CASE ResyncFires
    <2>1. TypeOK' /\ StatusWakesUp'
      BY <1>7 DEF ResyncFires, Inv, TypeOK, StatusWakesUp, managed, objects
    <2>2. Copies' /\ Announced' /\ ObservedWasRead'
      BY <1>7 DEF ResyncFires, Inv, Copies, Announced, ObservedWasRead, objects
    <2> QED  BY <2>1, <2>2 DEF Inv
  <1>8. CASE DeliverConfig
    <2>1. TypeOK'
      BY <1>8 DEF DeliverConfig, Enqueues, Inv, TypeOK, managed
    <2>2. StatusWakesUp'
      BY <1>8, Zenon DEF DeliverConfig, Enqueues, Inv, Announced, StatusWakesUp, managed
    <2>3. Copies' /\ Announced' /\ ObservedWasRead'
      BY <1>8 DEF DeliverConfig, Inv, TypeOK, Copies, Announced, ObservedWasRead
    <2> QED  BY <2>1, <2>2, <2>3 DEF Inv
  <1>9. CASE RelistConfig
    BY <1>9 DEF RelistConfig, Enqueues, Inv, TypeOK, Copies, Announced, StatusWakesUp,
                ObservedWasRead, managed
  <1>10. CASE \E d \in BOOLEAN : CreateConfig(d)
    <2> PICK d \in BOOLEAN : CreateConfig(d)
      BY <1>10
    <2>1. hc' = Created(d) /\ hc' \in HeadroomConfig /\ hc'.status = Absent
      BY DEF CreateConfig, SetConfig, Created
    <2> QED  BY <2>1 DEF CreateConfig, SetConfig, Inv, TypeOK, Copies, Announced,
                StatusWakesUp, ObservedWasRead, managed, reconciler
  <1>11. CASE \E d \in BOOLEAN : EditConfig(d)
    <2> PICK d \in BOOLEAN : EditConfig(d)
      BY <1>11
    <2>1. hc \in HeadroomConfig
      BY DEF EditConfig, Inv, TypeOK
    <2>2. hc' = [generation |-> hc.generation + 1, dryRun |-> d, status |-> hc.status]
      BY <2>1 DEF EditConfig, SetConfig
    <2>3. hc' \in HeadroomConfig
      BY <2>1, <2>2
    <2>4. ObservedWasRead'
      BY <2>1, <2>2 DEF EditConfig, Inv, ObservedWasRead
    <2> QED  BY <2>3, <2>4 DEF EditConfig, SetConfig, Inv, TypeOK, Copies, Announced,
                StatusWakesUp, managed, reconciler
  <1>12. CASE DeleteConfig
    BY <1>12 DEF DeleteConfig, SetConfig, Inv, TypeOK, Copies, Announced, StatusWakesUp,
                ObservedWasRead, managed, reconciler
  <1>13. CASE ChangePods
    BY <1>13 DEF ChangePods, MV!ChangePods, Enqueues, Inv, TypeOK, Copies, Announced,
                StatusWakesUp, ObservedWasRead, objects, budget
  <1>14. CASE Lead
    BY <1>14 DEF Lead, MV!Lead, Inv, TypeOK, Copies, Announced, StatusWakesUp,
                ObservedWasRead, objects, budget
  <1>15. CASE Restart
    BY <1>15 DEF Restart, MV!Restart, MV!Nothing, Inv, TypeOK, Copies, Announced,
                StatusWakesUp, ObservedWasRead
  <1>16. CASE Beside
    <2>1. alive' \subseteq Pods /\ series' \in [Nodes -> SUBSET Pods] /\ leading' = leading
      BY <1>16 DEF Beside, Inv, TypeOK, MV!EditVPAs, MV!Look, MV!Adopt, MV!React,
                MV!ManagedPods
    <2> QED  BY <1>16, <2>1 DEF Beside, Inv, TypeOK, Copies, Announced, StatusWakesUp,
                ObservedWasRead, objects, reconciler
  <1>17. CASE UNCHANGED vars
    BY <1>17 DEF vars, managed, objects, reconciler, Inv, TypeOK, Copies, Announced,
                StatusWakesUp, ObservedWasRead
  <1> QED  BY <1>1, <1>2, <1>3, <1>4, <1>5, <1>6, <1>7, <1>8, <1>9, <1>10, <1>11, <1>12,
              <1>13, <1>14, <1>15, <1>16, <1>17 DEF Next, Reconcile

LEMMA InvHolds == Spec => []Inv
  BY InitHolds, StepHolds, PTL DEF Spec

\* The variables of the status controller keep their types.
THEOREM StatusTyped == Spec => []TypeOK
  BY InvHolds, PTL DEF Inv

\* Reconcile's requeues, the resync period and the watches: the controller
\* never loses sight of a HeadroomConfig it knows of.
THEOREM StatusKeepsAwake == Spec => []StatusWakesUp
  BY InvHolds, PTL DEF Inv

\* Status().Update: a status that claims a generation was made from it.
THEOREM StatusIsHonest == Spec => []ObservedWasRead
  BY InvHolds, PTL DEF Inv
=============================================================================
