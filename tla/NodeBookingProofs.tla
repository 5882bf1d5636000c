------------------------- MODULE NodeBookingProofs -------------------------
(***************************************************************************)
(* The policy over every sequence of changes of a node, for any number of  *)
(* pods, any inputs and any configuration: the properties the NodeBooking  *)
(* run checks on three pods, as theorems.                                  *)
(*                                                                         *)
(*   BookingTyped, TargetsBounded   TypeOK and TargetWithinBounds          *)
(*   NobodyRaised                   BindRaisesNobody                       *)
(*   NobodyMoved, PatchSettles      BackoffMovesNobody, OnePatchSettles    *)
(*   BurstBounded                   BurstBoundedBySlack                    *)
(*                                                                         *)
(* The inductive invariant, Booked, says that the decisions are Compute's  *)
(* of the pods as they stand and that each pod keeps what it arrived with. *)
(* What is left is about Compute on one node, or on a node before and      *)
(* after a step, and there the sums of Stats are reasoned about with the   *)
(* laws of the module Sums.                                                *)
(***************************************************************************)
EXTENDS NodeBooking, PolicyProofs

Booked ==
    /\ allocatable \in Nat
    /\ DOMAIN pods \subseteq Keys
    /\ cfg \in PolicyConfig
    /\ Booking(pods)
    /\ decisions = Compute(allocatable, pods, cfg)

-----------------------------------------------------------------------------
(* The invariant.                                                            *)

LEMMA FlipsBackoff ==
    ASSUME NEW p, Row(p), p.managed \/ p.holdsShare, NEW m \in BOOLEAN,
           NEW q, q = [p EXCEPT !.managed = m, !.holdsShare = ~m]
    PROVE  Row(q) /\ Alike(p, q) /\ q.limit = p.limit
  <1>1. p \in PodInput /\ q \in PodInput
    BY DEF Row, PodInput
  <1>2. /\ q.request = p.request /\ q.bookedDelta = p.bookedDelta /\ q.userCap = p.userCap
        /\ q.rangeCap = p.rangeCap /\ q.aboveRequest = p.aboveRequest /\ q.limit = p.limit
        /\ q.managed = m /\ q.holdsShare = ~m
    BY <1>1 DEF PodInput
  <1>3. q.managed \/ q.holdsShare
    BY <1>2
  <1> QED  BY <1>1, <1>2, <1>3 DEF Row, Alike

\* A step of one pod that stays only flips its backoff or takes the limit decided.
LEMMA Touches ==
    ASSUME Booked, NEW k \in Keys, Refuse(k) \/ Readmit(k) \/ Apply(k)
    PROVE  /\ Booking(pods')
           /\ allocatable' = allocatable /\ cfg' = cfg
           /\ decisions' = Compute(allocatable, pods', cfg)
           /\ DOMAIN pods' = DOMAIN pods
           /\ \A j \in DOMAIN pods :
                 /\ Alike(pods[j], pods'[j])
                 /\ pods'[j].limit # pods[j].limit =>
                       j \in DOMAIN decisions /\ pods'[j].limit = decisions[j].target
  <1>0. Booking(pods) /\ DOMAIN decisions = {j \in DOMAIN pods : pods[j].managed}
    BY ComputeDecides DEF Booked
  <1>1. PICK q : /\ Row(q) /\ k \in DOMAIN pods /\ Alike(pods[k], q)
                 /\ q.limit # pods[k].limit =>
                       k \in DOMAIN decisions /\ q.limit = decisions[k].target
                 /\ Become(allocatable, [pods EXCEPT ![k] = q])
    <2>1. CASE Refuse(k)
      <3> DEFINE r == [pods[k] EXCEPT !.managed = FALSE, !.holdsShare = ~FALSE]
      <3>1. k \in DOMAIN pods /\ pods[k].managed /\ Row(pods[k])
        BY <1>0, <2>1 DEF Refuse, Booking
      <3>2. Row(r) /\ Alike(pods[k], r) /\ r.limit = pods[k].limit
        BY <3>1, FlipsBackoff
      <3>3. Become(allocatable, [pods EXCEPT ![k] = r])
        BY <2>1, <3>1 DEF Refuse
      <3> QED  BY <3>1, <3>2, <3>3
    <2>2. CASE Readmit(k)
      <3> DEFINE r == [pods[k] EXCEPT !.managed = TRUE, !.holdsShare = ~TRUE]
      <3>1. k \in DOMAIN pods /\ pods[k].holdsShare /\ Row(pods[k])
        BY <1>0, <2>2 DEF Readmit, Booking
      <3>2. Row(r) /\ Alike(pods[k], r) /\ r.limit = pods[k].limit
        BY <3>1, FlipsBackoff
      <3>3. Become(allocatable, [pods EXCEPT ![k] = r])
        BY <2>2, <3>1 DEF Readmit
      <3> QED  BY <3>1, <3>2, <3>3
    <2>3. CASE Apply(k)
      <3> DEFINE r == [pods[k] EXCEPT !.limit = decisions[k].target]
      <3>1. k \in DOMAIN pods /\ k \in DOMAIN decisions /\ Row(pods[k])
        BY <1>0, <2>3 DEF Apply, Booking
      <3>2. decisions[k].target \in Nat
        BY <3>1, ComputeBounded DEF Booked
      <3>3. Row(r) /\ Alike(pods[k], r) /\ r.limit = decisions[k].target
        BY <3>1, <3>2, TakesLimit
      <3>4. Become(allocatable, [pods EXCEPT ![k] = r])
        BY <2>3 DEF Apply
      <3> QED  BY <3>1, <3>3, <3>4
    <2> QED  BY <2>1, <2>2, <2>3
  <1>2. pods' = [pods EXCEPT ![k] = q] /\ DOMAIN pods' = DOMAIN pods
    BY <1>1 DEF Become
  <1>3. Booking(pods')
    BY <1>0, <1>1, <1>2 DEF Booking, Row
  <1>4. ASSUME NEW j \in DOMAIN pods
        PROVE  /\ Alike(pods[j], pods'[j])
               /\ pods'[j].limit # pods[j].limit =>
                     j \in DOMAIN decisions /\ pods'[j].limit = decisions[j].target
    BY <1>1, <1>2 DEF Alike
  <1> QED  BY <1>1, <1>2, <1>3, <1>4 DEF Become

LEMMA BookedInit == ASSUME Init PROVE Booked
  <1>1. DOMAIN pods = {} /\ pods \in [{} -> PodInput] /\ Booking(pods)
    BY FS_EmptySet DEF Init, Booking
  <1>2. Compute(allocatable, pods, cfg) = << >>
    BY <1>1 DEF Compute
  <1>3. allocatable \in Nat /\ cfg \in PolicyConfig
    BY BookingAssumption DEF Init
  <1> QED  BY <1>1, <1>2, <1>3 DEF Booked, Init

LEMMA BookedNext == ASSUME Booked, [Next]_vars PROVE Booked'
  <1>0. DOMAIN pods' \subseteq Keys => IsFiniteSet(DOMAIN pods')
    BY BookingAssumption, FS_Subset
  <1>1. ASSUME NEW k \in Keys, NEW in \in Inputs, Bind(k, in) PROVE Booked'
    <2>1. Row(in)
      BY BookingAssumption DEF Row
    <2> QED  BY <1>0, <1>1, <2>1 DEF Booked, Bind, Become, Booking, Row
  <1>2. ASSUME NEW k \in Keys, Leave(k) PROVE Booked'
    BY <1>0, <1>2 DEF Booked, Leave, Become, Booking
  <1>3. ASSUME NEW k \in Keys, Refuse(k) \/ Readmit(k) \/ Apply(k) PROVE Booked'
    BY <1>3, Touches DEF Booked
  <1>4. ASSUME NEW a \in Allocs, Reallocate(a) PROVE Booked'
    BY <1>4, BookingAssumption DEF Booked, Reallocate, Become
  <1>5. CASE UNCHANGED vars
    BY <1>5 DEF vars, Booked
  <1> QED  BY <1>1, <1>2, <1>3, <1>4, <1>5 DEF Next

LEMMA BookedAlways == Spec => []Booked
  BY BookedInit, BookedNext, PTL DEF Spec

\* Compute, whatever pods come, go, back off and are patched: the inputs keep
\* their types, there is a decision for exactly the managed pods, and each target
\* is a natural number.
THEOREM BookingTyped == Spec => []TypeOK
  <1>1. ASSUME Booked PROVE TypeOK
    <2>1. \A k \in DOMAIN decisions : decisions[k] \in [target: Nat, apply: BOOLEAN]
      BY <1>1, ComputeBounded DEF Booked
    <2>2. DOMAIN decisions = {k \in DOMAIN pods : pods[k].managed}
      BY <1>1, ComputeDecides DEF Booked
    <2> QED  BY <1>1, <2>1, <2>2 DEF Booked, Booking, TypeOK
  <1> QED  BY <1>1, BookedAlways, PTL

\* Compute: in every state each target is between the request and what the node,
\* the multiplier and the caps allow, with the QoS floor where a limit equal to
\* the request would be refused.
THEOREM TargetsBounded == Spec => []TargetWithinBounds
  <1>1. ASSUME Booked PROVE TargetWithinBounds
    BY <1>1, ComputeBounded DEF Booked, TargetWithinBounds
  <1> QED  BY <1>1, BookedAlways, PTL
-----------------------------------------------------------------------------
(* Two bookings compared: the same rows up to limits and backoff, and one   *)
(* row more.                                                                 *)

LEMMA SamePods ==
    ASSUME Booked, [Next]_vars, allocatable' = allocatable, DOMAIN pods' = DOMAIN pods
    PROVE  \/ UNCHANGED vars
           \/ \E k \in Keys : Refuse(k) \/ Readmit(k) \/ Apply(k)
  <1>1. ASSUME NEW k \in Keys, NEW in \in Inputs, Bind(k, in) PROVE FALSE
    BY <1>1 DEF Bind, Become
  <1>2. ASSUME NEW k \in Keys, Leave(k) PROVE FALSE
    BY <1>2 DEF Leave, Become
  <1>3. ASSUME NEW a \in Allocs, Reallocate(a) PROVE FALSE
    BY <1>3 DEF Reallocate, Become
  <1> QED  BY <1>1, <1>2, <1>3 DEF Next

\* While the same pods stand on the same node, the targets do not move and a
\* decision only follows the pod's own limit.
LEMMA TargetsStand ==
    ASSUME Booked, [Next]_vars, allocatable' = allocatable, DOMAIN pods' = DOMAIN pods,
           NEW k \in DOMAIN decisions \cap DOMAIN decisions'
    PROVE  /\ decisions'[k].target = decisions[k].target
           /\ decisions[k].apply <=> Applies(decisions[k].target, pods[k].limit, cfg)
           /\ decisions'[k].apply <=> Applies(decisions[k].target, pods'[k].limit, cfg)
           /\ pods'[k].limit # pods[k].limit => pods'[k].limit = decisions[k].target
  <1>1. CASE UNCHANGED vars
    <2>1. k \in DOMAIN pods /\ decisions[k] = Decide(pods[k], Stats(allocatable, pods), cfg)
      BY ComputeDecides DEF Booked
    <2>2. Alike(pods[k], pods[k])
      BY DEF Alike
    <2> QED  BY <1>1, <2>1, <2>2, TargetAlike DEF vars
  <1>2. ASSUME NEW j \in Keys, Refuse(j) \/ Readmit(j) \/ Apply(j)
        PROVE  /\ decisions'[k].target = decisions[k].target
               /\ decisions[k].apply <=> Applies(decisions[k].target, pods[k].limit, cfg)
               /\ decisions'[k].apply <=> Applies(decisions[k].target, pods'[k].limit, cfg)
               /\ pods'[k].limit # pods[k].limit => pods'[k].limit = decisions[k].target
    <2> DEFINE s == Stats(allocatable, pods)
    <2>1. /\ DOMAIN pods' = DOMAIN pods
          /\ decisions' = Compute(allocatable, pods', cfg)
          /\ \A i \in DOMAIN pods :
                /\ Alike(pods[i], pods'[i])
                /\ pods'[i].limit # pods[i].limit =>
                      i \in DOMAIN decisions /\ pods'[i].limit = decisions[i].target
      BY <1>2, Touches
    <2>2. Stats(allocatable, pods') = s
      BY <2>1, StatsAlike
    <2>3. k \in DOMAIN pods /\ decisions[k] = Decide(pods[k], s, cfg)
      BY ComputeDecides DEF Booked
    <2>4. decisions'[k] = Decide(pods'[k], s, cfg)
      BY <2>1, <2>2, ComputeDecides
    <2> HIDE DEF s
    <2> QED  BY <2>1, <2>3, <2>4, TargetAlike
  <1> QED  BY <1>1, <1>2, SamePods

\* Compute with HoldsShare, for any node: while its pods stand, a window that opens
\* or closes on one of them, or a patch of one, moves no other pod's target.
THEOREM NobodyMoved == Spec => BackoffMovesNobody
  <1> DEFINE A == allocatable' = allocatable /\ DOMAIN pods' = DOMAIN pods =>
                    \A k \in DOMAIN decisions \cap DOMAIN decisions' :
                        decisions'[k].target = decisions[k].target
  <1>1. Booked /\ [Next]_vars => [A]_vars
    BY TargetsStand
  <1> QED  BY <1>1, BookedAlways, PTL DEF Spec, BackoffMovesNobody

\* finalize, for any node: a pod within the deadband of its target asks for no
\* patch while the node's booking stands, and a patched pod for no second one.
THEOREM PatchSettles == Spec => OnePatchSettles
  <1> DEFINE A == allocatable' = allocatable /\ DOMAIN pods' = DOMAIN pods =>
                    \A k \in DOMAIN decisions \cap DOMAIN decisions' :
                        /\ ~decisions[k].apply => ~decisions'[k].apply
                        /\ pods'[k].limit # pods[k].limit => ~decisions'[k].apply
  <1>1. ASSUME Booked, [Next]_vars PROVE [A]_vars
    <2> SUFFICES ASSUME allocatable' = allocatable, DOMAIN pods' = DOMAIN pods,
                        NEW k \in DOMAIN decisions \cap DOMAIN decisions'
                 PROVE  /\ ~decisions[k].apply => ~decisions'[k].apply
                        /\ pods'[k].limit # pods[k].limit => ~decisions'[k].apply
      OBVIOUS
    <2>1. /\ decisions[k].apply <=> Applies(decisions[k].target, pods[k].limit, cfg)
          /\ decisions'[k].apply <=> Applies(decisions[k].target, pods'[k].limit, cfg)
          /\ pods'[k].limit # pods[k].limit => pods'[k].limit = decisions[k].target
      BY <1>1, TargetsStand
    <2>2. ~Applies(decisions[k].target, decisions[k].target, cfg)
      BY DEF Applies
    <2> QED  BY <2>1, <2>2
  <1> QED  BY <1>1, BookedAlways, PTL DEF Spec, OnePatchSettles

\* A pod that binds takes slack and shares what is left of it.
LEMMA BindFills ==
    ASSUME NEW a \in Nat, NEW ps, NEW qs, Booking(ps), Booking(qs),
           DOMAIN ps \subseteq DOMAIN qs, \A j \in DOMAIN ps : qs[j] = ps[j]
    PROVE  Fuller(Stats(a, ps), Stats(a, qs))
  <1> DEFINE booked(rs) == [k \in DOMAIN rs |-> rs[k].request + rs[k].bookedDelta]
             shares(rs) == [k \in Sharing(rs) |-> rs[k].request]
  <1>0. /\ IsFiniteSet(DOMAIN ps) /\ IsFiniteSet(DOMAIN qs)
        /\ IsFiniteSet(Sharing(ps)) /\ IsFiniteSet(Sharing(qs))
        /\ Sharing(ps) \subseteq Sharing(qs)
    BY FS_Subset DEF Booking, Sharing
  <1>1. SumFunction(booked(ps)) \in Int /\ SumFunction(booked(qs)) \in Int
        /\ SumFunction(booked(ps)) <= SumFunction(booked(qs))
    <2> DEFINE f == booked(ps)
               g == booked(qs)
    <2>1. \A k \in DOMAIN qs : g[k] \in Nat
      BY DEF Booking, Row, PodInput
    <2>2. \A k \in DOMAIN ps : g[k] \in Int /\ f[k] = g[k]
      BY <2>1
    <2>3. DOMAIN f = DOMAIN ps /\ DOMAIN g = DOMAIN qs
      OBVIOUS
    <2> HIDE DEF f, g
    <2>4. SumFunctionOnSet(f, DOMAIN ps) = SumFunctionOnSet(g, DOMAIN ps)
      BY <1>0, <2>2, SumAgrees
    <2>5. /\ SumFunctionOnSet(g, DOMAIN qs) \in Nat
          /\ SumFunctionOnSet(g, DOMAIN ps) <= SumFunctionOnSet(g, DOMAIN qs)
      BY <1>0, <2>1, SumOfNats
    <2>6. SumFunctionOnSet(f, DOMAIN ps) \in Int
      BY <1>0, <2>2, SumLaws
    <2> QED  BY <2>3, <2>4, <2>5, <2>6 DEF SumFunction, f, g
  <1>2. SumFunction(shares(ps)) <= SumFunction(shares(qs))
    <2> DEFINE f == shares(ps)
               g == shares(qs)
    <2>1. \A k \in Sharing(qs) : g[k] \in Nat
      BY DEF Booking, Row, PodInput, Sharing
    <2>2. \A k \in Sharing(ps) : g[k] \in Int /\ f[k] = g[k]
      BY <1>0, <2>1 DEF Sharing
    <2>3. DOMAIN f = Sharing(ps) /\ DOMAIN g = Sharing(qs)
      OBVIOUS
    <2> HIDE DEF f, g
    <2>4. SumFunctionOnSet(f, Sharing(ps)) = SumFunctionOnSet(g, Sharing(ps))
      BY <1>0, <2>2, SumAgrees
    <2>5. SumFunctionOnSet(g, Sharing(ps)) <= SumFunctionOnSet(g, Sharing(qs))
      BY <1>0, <2>1, SumOfNats
    <2> QED  BY <2>3, <2>4, <2>5 DEF SumFunction, f, g
  <1>3. Cardinality(Sharing(ps)) <= Cardinality(Sharing(qs))
    BY <1>0, FS_Subset
  <1>4. \A rs : Stats(a, rs) = [allocatable |-> a,
                                slack |-> Greatest(a - SumFunction(booked(rs)), 0),
                                managedRequests |-> SumFunction(shares(rs)),
                                managedPods |-> Cardinality(Sharing(rs))]
    BY DEF Stats
  <1> HIDE DEF booked, shares
  <1>5. Greatest(a - SumFunction(booked(qs)), 0) <= Greatest(a - SumFunction(booked(ps)), 0)
    BY <1>1 DEF Greatest
  <1>6. /\ Cardinality(Sharing(ps)) \in Nat /\ Cardinality(Sharing(qs)) \in Nat
        /\ SumFunction(shares(ps)) \in Nat /\ SumFunction(shares(qs)) \in Nat
    <2>1. Stats(a, ps) \in NodeStats /\ Stats(a, qs) \in NodeStats
      BY StatsTyped
    <2> QED  BY <1>4, <2>1 DEF NodeStats
  <1> QED  BY <1>2, <1>3, <1>4, <1>5, <1>6 DEF Fuller

LEMMA FillingRaisesNobody ==
    ASSUME NEW a \in Nat, NEW ps, NEW qs, NEW c \in PolicyConfig, Booking(ps), Booking(qs),
           DOMAIN ps \subseteq DOMAIN qs, \A j \in DOMAIN ps : qs[j] = ps[j],
           NEW k \in DOMAIN Compute(a, ps, c)
    PROVE  Compute(a, qs, c)[k].target <= Compute(a, ps, c)[k].target
  <1> DEFINE s == Stats(a, ps)
             t == Stats(a, qs)
  <1>1. Fuller(s, t)
    BY BindFills
  <1>2. k \in DOMAIN ps /\ k \in Sharing(ps) /\ ps[k].managed
    BY DEF Compute, Sharing
  <1>3. Compute(a, ps, c)[k] = Decide(ps[k], s, c)
    BY <1>2 DEF Compute
  <1>4. k \in DOMAIN qs /\ qs[k] = ps[k]
    BY <1>2
  <1>5. Compute(a, qs, c)[k] = Decide(ps[k], t, c)
    BY <1>2, <1>4 DEF Compute
  <1>6. s \in NodeStats /\ s.managedRequests > 0 /\ s.managedPods > 0 /\ t \in NodeStats
    BY <1>2, StatsTyped
  <1>7. ps[k] \in PodInput
    BY <1>2 DEF Booking
  <1> HIDE DEF s, t
  <1> QED  BY <1>1, <1>3, <1>5, <1>6, <1>7, FullerRaisesNobody

\* Compute, for any node: a pod that binds to it raises the target of no other,
\* managed or not, whatever the floor, the caps and the rounding do.
THEOREM NobodyRaised == Spec => BindRaisesNobody
  <1> DEFINE A == DOMAIN pods \subseteq DOMAIN pods' /\ DOMAIN pods # DOMAIN pods' =>
                    \A k \in DOMAIN decisions : decisions'[k].target <= decisions[k].target
  <1>1. ASSUME Booked, [Next]_vars PROVE [A]_vars
    <2> SUFFICES ASSUME DOMAIN pods \subseteq DOMAIN pods', DOMAIN pods # DOMAIN pods',
                        NEW k \in DOMAIN decisions
                 PROVE  decisions'[k].target <= decisions[k].target
      OBVIOUS
    <2>1. PICK j \in Keys, in \in Inputs : Bind(j, in)
      <3>1. ASSUME NEW j \in Keys, Leave(j) PROVE FALSE
        BY <3>1 DEF Leave, Become
      <3>2. ASSUME NEW j \in Keys, Refuse(j) \/ Readmit(j) \/ Apply(j) PROVE FALSE
        BY <1>1, <3>2, Touches
      <3>3. ASSUME NEW a \in Allocs, Reallocate(a) PROVE FALSE
        BY <3>3 DEF Reallocate, Become
      <3>4. ~UNCHANGED vars
        BY DEF vars
      <3> QED  BY <1>1, <3>1, <3>2, <3>3, <3>4 DEF Next
    <2>2. /\ Booking(pods) /\ allocatable \in Nat /\ cfg \in PolicyConfig
          /\ \A i \in DOMAIN pods : pods'[i] = pods[i]
          /\ decisions = Compute(allocatable, pods, cfg)
          /\ decisions' = Compute(allocatable, pods', cfg)
      BY <1>1, <2>1 DEF Booked, Bind, Become
    <2>3. Booking(pods')
      BY <1>1, BookedNext DEF Booked
    <2> QED  BY <2>2, <2>3, FillingRaisesNobody
  <1> QED  BY <1>1, BookedAlways, PTL DEF Spec, BindRaisesNobody
-----------------------------------------------------------------------------
(* The burst handed out.  Each pod gets no more than its share and its part  *)
(* of the floor, up to rounding; over a common denominator the pods' bounds  *)
(* add up to the node's.                                                     *)

\* math.Round is off by at most a half.
LEMMA RoundBound ==
    ASSUME NEW a \in Nat, NEW b \in Nat \ {0}
    PROVE  b * (2 * Round(a, b)) <= 2 * a + b
  <1>1. 2 * a + b \in Nat /\ 2 * b \in Nat \ {0}
    OBVIOUS
  <1>2. Round(a, b) \in Nat /\ Round(a, b) * (2 * b) <= 2 * a + b
    BY <1>1, Division, RoundTyped DEF Round
  <1>3. Round(a, b) * (2 * b) = b * (2 * Round(a, b))
    BY <1>2
  <1> QED  BY <1>2, <1>3

\* Both sides of an order by the same factor.
LEMMA TimesBoth ==
    ASSUME NEW j \in Int, NEW k \in Int, NEW q \in Nat, j <= k PROVE q * j <= q * k
  OBVIOUS

\* Before the clamp: at most the proportional share plus an even part of the
\* slack, plus half a unit.
LEMMA RawBurst ==
    ASSUME NEW p \in PodInput, NEW s \in NodeStats, NEW c \in PolicyConfig,
           s.managedRequests > 0, s.managedPods > 0
    PROVE  /\ RawLimit(p, s, c) \in Nat /\ RawLimit(p, s, c) >= p.request
           /\ (s.managedRequests * s.managedPods) * (2 * (RawLimit(p, s, c) - p.request))
                <= s.managedPods * (2 * (s.slack * p.request))
                     + s.managedRequests * (2 * s.slack) + s.managedRequests * s.managedPods
  <1> DEFINE S == s.slack
             R == p.request
             M == s.managedRequests
             N == s.managedPods
             x == Round(S * R, M)
             y == Round(S, N)
             r == RawLimit(p, s, c) - R
  <1>1. /\ S \in Nat /\ R \in Nat /\ M \in Nat \ {0} /\ N \in Nat \ {0}
        /\ c.minBurstFloor \in Nat /\ S * R \in Nat
    BY DEF PodInput, NodeStats, PolicyConfig
  <1>2. x \in Nat /\ y \in Nat /\ M * (2 * x) <= 2 * (S * R) + M /\ N * (2 * y) <= 2 * S + N
    BY <1>1, RoundTyped, RoundBound
  <1>3. RawLimit(p, s, c) \in Nat
    BY RawTyped
  <1>4. r = 0 \/ (r \in Nat /\ (r = x \/ r <= y))
    <2>1. CASE S <= 0
      BY <1>1, <2>1 DEF RawLimit
    <2>2. CASE ~(S <= 0)
      <3>1. RawLimit(p, s, c) = R + Greatest(x, Least(c.minBurstFloor, y))
        BY <1>1, <2>2 DEF RawLimit
      <3> HIDE DEF x, y, S, R, M, N
      <3> QED  BY <1>1, <1>2, <3>1 DEF Greatest, Least
    <2> QED  BY <2>1, <2>2
  <1>5. r \in Nat /\ RawLimit(p, s, c) >= R
    BY <1>1, <1>3, <1>4
  <1> HIDE DEF x, y, r, S, R, M, N
  <1> DEFINE SR == S * R
             X == N * (2 * SR)
             Y == M * (2 * S)
             MN == M * N
  <1>6. SR \in Nat /\ X \in Nat /\ Y \in Nat /\ MN \in Nat
    BY <1>1
  <1>7. MN * (2 * r) <= X + Y + MN
    <2>1. CASE r = 0
      BY <1>6, <2>1
    <2>2. CASE r = x
      <3>1. N * (M * (2 * x)) <= N * (2 * SR + M)
        BY <1>1, <1>2, <1>6, TimesBoth
      <3>2. N * (M * (2 * x)) = MN * (2 * x)
        BY <1>1, <1>2
      <3>3. N * (2 * SR + M) = X + MN
        <4> HIDE DEF SR
        <4> QED  BY <1>1, <1>6
      <3>4. MN * (2 * x) \in Nat
        BY <1>2, <1>6
      <3> HIDE DEF X, Y, MN, SR
      <3> QED  BY <1>6, <2>2, <3>1, <3>2, <3>3, <3>4
    <2>3. CASE r <= y
      <3>1. M * (N * (2 * y)) <= M * (2 * S + N)
        BY <1>1, <1>2, TimesBoth
      <3>2. M * (N * (2 * y)) = MN * (2 * y)
        BY <1>1, <1>2
      <3>3. M * (2 * S + N) = Y + MN
        BY <1>1
      <3>4. MN * (2 * r) <= MN * (2 * y)
        <4>1. 2 * r \in Int /\ 2 * y \in Int /\ 2 * r <= 2 * y
          BY <1>2, <1>5, <2>3
        <4> HIDE DEF MN
        <4> QED  BY <1>6, <4>1, TimesBoth
      <3>5. MN * (2 * y) \in Nat /\ MN * (2 * r) \in Nat
        BY <1>2, <1>5, <1>6
      <3> HIDE DEF X, Y, MN, SR
      <3> QED  BY <1>6, <3>1, <3>2, <3>3, <3>4, <3>5
    <2> QED  BY <1>4, <2>1, <2>2, <2>3
  <1> QED  BY <1>3, <1>5, <1>7 DEF r, S, R, M, N

\* The clamp and the quantum add half a quantum, the lift a whole one.
LEMMA FinishBurst ==
    ASSUME NEW p \in PodInput, NEW s \in NodeStats, NEW c \in PolicyConfig,
           s.managedRequests > 0, s.managedPods > 0
    PROVE  2 * (Decide(p, s, c).target - p.request)
              <= 2 * (RawLimit(p, s, c) - p.request) + Greatest(c.quantum, 1)
                   + 2 * Greatest(c.quantum, 1) * (IF p.aboveRequest THEN 1 ELSE 0)
  <1> DEFINE raw == RawLimit(p, s, c)
             hi == Ceiling(p.request, s.allocatable, CapMilli(p), c)
             in == Least(Greatest(raw, p.request), hi)
             clamped == Quantize(in, p.request, hi, c.quantum)
             q == Greatest(c.quantum, 1)
             t == Decide(p, s, c).target
  <1>1. /\ p.request \in Nat /\ p.rangeCap \in Nat /\ s.allocatable \in Nat
        /\ c.quantum \in Nat /\ CapMilli(p) \in Nat
    BY CapTyped DEF PodInput, NodeStats, PolicyConfig
  <1>2. raw \in Nat /\ p.request <= raw
    BY RawBurst, <1>1
  <1>3. hi \in Nat /\ p.request <= hi
    BY <1>1, CeilingTyped
  <1>4. t = Lift(p, clamped, c)
    BY DEF Decide, ClampAndQuantize
  <1> HIDE DEF raw, hi
  <1>5. in \in Nat /\ p.request <= in /\ in <= hi /\ in <= raw
    BY <1>1, <1>2, <1>3 DEF Least, Greatest
  <1> HIDE DEF in
  <1>6. clamped \in Nat /\ p.request <= clamped /\ 2 * clamped <= 2 * raw + q
    <2>1. clamped \in Nat /\ p.request <= clamped
      BY <1>1, <1>3, <1>5, QuantizeBounds
    <2>2. CASE c.quantum = 0
      BY <1>1, <1>2, <1>5, <2>1, <2>2 DEF Quantize, Greatest
    <2>3. CASE c.quantum # 0
      <3> DEFINE half == c.quantum \div 2
                 nearest == ((in + half) \div c.quantum) * c.quantum
      <3>1. half \in Nat /\ 2 * half <= c.quantum
        BY <1>1
      <3> HIDE DEF half
      <3>2. nearest \in Nat /\ nearest <= in + half
        <4>1. in + half \in Nat /\ c.quantum \in Nat \ {0}
          BY <1>1, <1>5, <2>3, <3>1
        <4>2. (in + half) \div c.quantum \in Nat /\ nearest <= in + half
          BY <4>1, Division
        <4> QED  BY <4>1, <4>2
      <3> HIDE DEF nearest
      <3>3. clamped = Greatest(IF nearest > hi THEN nearest - c.quantum ELSE nearest, p.request)
        BY <2>3 DEF Quantize, nearest, half
      <3>4. clamped <= in + half
        BY <1>1, <1>3, <1>5, <3>1, <3>2, <3>3 DEF Greatest
      <3>5. q = c.quantum
        BY <1>1, <2>3 DEF Greatest
      <3> HIDE DEF clamped, q
      <3> QED  BY <1>1, <1>2, <1>5, <2>1, <3>1, <3>4, <3>5
    <2> QED  BY <2>1, <2>2, <2>3
  <1> HIDE DEF clamped, t
  <1>7. q \in Nat \ {0}
    BY <1>1 DEF Greatest
  <1>8. t = IF p.aboveRequest /\ clamped <= p.request
            THEN IF p.rangeCap > p.request THEN Least((p.request \div q + 1) * q, p.rangeCap)
                 ELSE (p.request \div q + 1) * q
            ELSE clamped
    BY <1>4 DEF Lift
  <1> HIDE DEF q
  <1>9. CASE p.aboveRequest /\ clamped <= p.request
    <2> DEFINE next == (p.request \div q + 1) * q
    <2>1. next \in Nat /\ next <= p.request + q
      BY <1>1, <1>7, Division
    <2> HIDE DEF next
    <2>2. t \in Nat /\ t <= next
      BY <1>1, <1>8, <1>9, <2>1 DEF Least, next
    <2>3. 2 * (t - p.request) <= 2 * (raw - p.request) + q + 2 * q * 1
      BY <1>1, <1>2, <1>7, <2>1, <2>2
    <2> QED  BY <1>9, <2>3 DEF q, raw, t
  <1>10. CASE ~(p.aboveRequest /\ clamped <= p.request)
    <2>1. t = clamped
      BY <1>8, <1>10
    <2>2. 2 * (t - p.request) <= 2 * (raw - p.request) + q
      BY <1>1, <1>2, <1>6, <1>7, <2>1
    <2>3. \A l \in {0, 1} : 2 * (t - p.request) <= 2 * (raw - p.request) + q + 2 * q * l
      BY <1>1, <1>2, <1>6, <1>7, <2>1, <2>2
    <2> QED  BY <2>3 DEF q, raw, t
  <1> QED  BY <1>9, <1>10

\* The two together, over the common denominator.
LEMMA PodBurst ==
    ASSUME NEW p \in PodInput, NEW s \in NodeStats, NEW c \in PolicyConfig,
           s.managedRequests > 0, s.managedPods > 0,
           NEW MN, MN = s.managedRequests * s.managedPods,
           NEW q, q = Greatest(c.quantum, 1),
           NEW l, l = IF p.aboveRequest THEN 1 ELSE 0
    PROVE  (2 * MN) * (Decide(p, s, c).target - p.request)
              <= (2 * (s.managedPods * s.slack)) * p.request
                   + (2 * (s.managedRequests * s.slack) + MN * (1 + q))
                   + (2 * (MN * q)) * l
  <1> DEFINE b == Decide(p, s, c).target - p.request
             r == RawLimit(p, s, c) - p.request
             S == s.slack
             M == s.managedRequests
             N == s.managedPods
             R == p.request
  <1>1. /\ R \in Nat /\ S \in Nat /\ M \in Nat \ {0} /\ N \in Nat \ {0}
        /\ q \in Nat /\ l \in Nat
    BY DEF PodInput, NodeStats, PolicyConfig, Greatest
  <1>2. b \in Int /\ r \in Int
    BY <1>1, DecideTyped, RawBurst
  <1>3. MN * (2 * r) <= N * (2 * (S * R)) + M * (2 * S) + MN
    BY RawBurst
  <1>4. 2 * b <= 2 * r + q + 2 * q * l
    BY FinishBurst
  <1>5. MN \in Nat
    BY <1>1
  <1> HIDE DEF b, r, S, M, N, R
  <1> DEFINE ql == q * l
             MNr == MN * (2 * r)
             MNq == MN * q
             MNql == MN * ql
             NSR == N * (S * R)
             MS == M * S
  <1>6. ql \in Nat /\ MNr \in Int /\ MNq \in Nat /\ MNql \in Nat /\ NSR \in Nat /\ MS \in Nat
    BY <1>1, <1>2, <1>5
  <1>7. MN * (2 * b) <= MNr + MNq + 2 * MNql
    <2>1. 2 * b <= 2 * r + q + 2 * ql
      <3>1. 2 * q * l = 2 * ql
        BY <1>1
      <3> QED  BY <1>4, <3>1
    <2> HIDE DEF ql
    <2>2. MN * (2 * b) <= MN * (2 * r + q + 2 * ql)
      BY <1>1, <1>2, <1>5, <1>6, <2>1, TimesBoth
    <2>3. MN * (2 * r + q + 2 * ql) = MN * (2 * r) + MN * q + 2 * (MN * ql)
      BY <1>1, <1>2, <1>5, <1>6
    <2> QED  BY <2>2, <2>3
  <1>8. MNr <= 2 * NSR + 2 * MS + MN
    <2>1. N * (2 * (S * R)) = 2 * NSR /\ M * (2 * S) = 2 * MS
      BY <1>1
    <2> QED  BY <1>3, <2>1
  <1>9. /\ (2 * MN) * b = MN * (2 * b)
        /\ (2 * (N * S)) * R = 2 * NSR
        /\ MN * (1 + q) = MN + MNq
        /\ (2 * (MN * q)) * l = 2 * MNql
    BY <1>1, <1>2, <1>5
  <1>10. MN * (2 * b) \in Int
    BY <1>2, <1>5
  <1> HIDE DEF MNr, MNq, MNql, NSR, MS
  <1>11. MN * (2 * b) <= 2 * NSR + (2 * MS + (MN + MNq)) + 2 * MNql
    BY <1>5, <1>6, <1>7, <1>8, <1>10
  <1> QED  BY <1>9, <1>11 DEF b, S, M, N, R, MS

LEMMA AddsUp ==
    ASSUME NEW S \in Nat, NEW M \in Nat, NEW N \in Nat, NEW MN \in Nat, MN = M * N,
           NEW n \in Nat, n <= N, NEW Rs \in Nat, Rs <= M,
           NEW l \in Nat, NEW q \in Nat, NEW B \in Int,
           (2 * MN) * B <= (2 * (N * S)) * Rs + (2 * (M * S) + MN * (1 + q)) * n
                             + (2 * (MN * q)) * l
    PROVE  MN * (2 * B) <= MN * (4 * S + n * (1 + q) + 2 * l * q)
  <1> DEFINE NS == N * S
             MS == M * S
             w == MN * (1 + q)
             x == NS * Rs
             y == MS * n
             z == MN * S
             u == MN * (n * (1 + q))
             t == MN * (2 * l * q)
             b == MN * (2 * B)
  <1>1. NS \in Nat /\ MS \in Nat /\ w \in Nat
    OBVIOUS
  <1>2. x <= z
    <2>1. NS * M = z
      OBVIOUS
    <2> HIDE DEF NS, z
    <2>2. x <= NS * M
      BY <1>1, TimesBoth
    <2> QED  BY <2>1, <2>2
  <1>3. y <= z
    <2>1. MS * N = z
      OBVIOUS
    <2> HIDE DEF MS, z
    <2>2. y <= MS * N
      BY <1>1, TimesBoth
    <2> QED  BY <2>1, <2>2
  <1>4. /\ (2 * (N * S)) * Rs = 2 * x
        /\ (2 * (MN * q)) * l = t
        /\ (2 * MN) * B = b
    OBVIOUS
  <1>5. (2 * (M * S) + MN * (1 + q)) * n = 2 * y + u
    <2>1. w * n = u
      OBVIOUS
    <2> HIDE DEF MS, w, u
    <2>2. (2 * MS + w) * n = 2 * y + w * n
      BY <1>1
    <2> QED  BY <2>1, <2>2 DEF MS, w
  <1>6. MN * (4 * S + n * (1 + q) + 2 * l * q) = 4 * z + u + t
    <2> DEFINE e == n * (1 + q)
               f == 2 * l * q
    <2>1. e \in Nat /\ f \in Nat
      OBVIOUS
    <2> HIDE DEF e, f
    <2>2. MN * (4 * S + e + f) = 4 * (MN * S) + MN * e + MN * f
      BY <2>1
    <2> QED  BY <2>2 DEF e, f
  <1>7. x \in Int /\ y \in Int /\ z \in Int /\ u \in Int /\ t \in Int /\ b \in Int
    BY <1>1
  <1>8. b <= 2 * x + (2 * y + u) + t
    BY <1>4, <1>5
  <1> HIDE DEF x, y, z, u, t, b
  <1>9. b <= 4 * z + u + t
    BY <1>2, <1>3, <1>7, <1>8
  <1> QED  BY <1>6, <1>9 DEF b

\* Added up over the pods decided for.
LEMMA NodeBurst ==
    ASSUME NEW a \in Nat, NEW ps, Booking(ps), NEW c \in PolicyConfig,
           NEW d, d = Compute(a, ps, c), NEW q, q = Greatest(c.quantum, 1),
           NEW L, L = {k \in DOMAIN d : ps[k].aboveRequest}
    PROVE  2 * SumFunction([k \in DOMAIN d |-> d[k].target - ps[k].request])
              <= 4 * Stats(a, ps).slack + Cardinality(DOMAIN d) * (1 + q)
                   + 2 * Cardinality(L) * q
  <1> DEFINE D == DOMAIN d
             s == Stats(a, ps)
             S == s.slack
             M == s.managedRequests
             N == s.managedPods
             MN == M * N
             n == Cardinality(D)
             lifted == Cardinality(L)
             burst == [k \in D |-> d[k].target - ps[k].request]
             request == [k \in D |-> ps[k].request]
             one == [k \in D |-> 1]
             lift == [k \in D |-> IF k \in L THEN 1 ELSE 0]
             B == SumFunctionOnSet(burst, D)
             Rs == SumFunctionOnSet(request, D)
  <1>1. D = {k \in DOMAIN ps : ps[k].managed} /\ D \subseteq Sharing(ps)
        /\ \A k \in D : d[k] = Decide(ps[k], s, c) /\ Row(ps[k])
    BY DEF Compute, Sharing, Booking
  <1>2. IsFiniteSet(D) /\ IsFiniteSet(Sharing(ps)) /\ IsFiniteSet(L)
    <2>1. IsFiniteSet(DOMAIN ps) /\ D \subseteq DOMAIN ps /\ Sharing(ps) \subseteq DOMAIN ps
          /\ L \subseteq DOMAIN ps
      BY <1>1, FS_Subset DEF Booking, Sharing
    <2> QED  BY <2>1, FS_Subset
  <1>3. n \in Nat /\ lifted \in Nat /\ q \in Nat \ {0} /\ L \subseteq D
    BY <1>2, FS_CardinalityType DEF Greatest, PolicyConfig
  <1>4. s \in NodeStats /\ S \in Nat /\ M \in Nat /\ N \in Nat
    BY StatsTyped DEF NodeStats
  <1>5. SumFunction([k \in DOMAIN d |-> d[k].target - ps[k].request]) = B
    BY DEF SumFunction
  <1>6. \A k \in D : burst[k] \in Int /\ request[k] \in Nat /\ one[k] = 1
                       /\ lift[k] = (IF k \in L THEN 1 ELSE 0) /\ lift[k] \in Int
    <2>1. ASSUME NEW k \in D PROVE d[k].target \in Nat /\ ps[k].request \in Nat
      BY <1>1, ComputeBounded DEF Row, PodInput
    <2> QED  BY <2>1
  <1>7. CASE D = {}
    <2>1. B = 0
      BY <1>2, <1>6, <1>7, SumLaws
    <2>2. 0 <= 4 * S + n * (1 + q) + 2 * lifted * q
      <3> HIDE DEF S, n, lifted
      <3>1. n * (1 + q) \in Nat /\ 2 * lifted * q \in Nat
        BY <1>3
      <3> QED  BY <1>4, <3>1
    <2> QED  BY <1>5, <2>1, <2>2
  <1>8. CASE D # {}
    <2>1. M > 0 /\ N > 0
      BY <1>1, <1>8, StatsTyped
    <2>2. Rs \in Nat /\ Rs <= M /\ n <= N
      <3> DEFINE all == [k \in Sharing(ps) |-> ps[k].request]
      <3>1. \A k \in Sharing(ps) : all[k] \in Nat
        BY DEF Sharing, Booking, Row, PodInput
      <3>2. \A k \in D : all[k] \in Int /\ request[k] = all[k]
        BY <1>1, <3>1
      <3>3. M = SumFunctionOnSet(all, Sharing(ps)) /\ N = Cardinality(Sharing(ps))
        BY DEF Stats, SumFunction
      <3>4. n <= N
        BY <1>1, <1>2, <3>3, FS_Subset
      <3> HIDE DEF all, request
      <3>5. SumFunctionOnSet(request, D) = SumFunctionOnSet(all, D)
        BY <1>2, <3>2, SumAgrees
      <3>6. SumFunctionOnSet(all, D) <= SumFunctionOnSet(all, Sharing(ps))
        BY <1>1, <1>2, <3>1, SumOfNats
      <3>7. Rs \in Nat
        BY <1>2, <1>6, SumOfNats
      <3> QED  BY <3>3, <3>4, <3>5, <3>6, <3>7
    <2>3. SumFunctionOnSet(one, D) = n /\ SumFunctionOnSet(lift, D) = lifted
      <3> HIDE DEF one, lift, D
      <3>1. SumFunctionOnSet(one, D) = n
        <4>1. D \in SUBSET D /\ \A k \in D : one[k] = IF k \in D THEN 1 ELSE 0
          BY <1>6
        <4> QED  BY <1>2, <4>1, SumCounts
      <3>2. SumFunctionOnSet(lift, D) = lifted
        <4>1. L \in SUBSET D
          BY <1>3
        <4> QED  BY <1>2, <1>6, <4>1, SumCounts
      <3> QED  BY <3>1, <3>2
    <2> DEFINE A == 2 * MN
               C1 == 2 * (N * S)
               C2 == 2 * (M * S) + MN * (1 + q)
               C3 == 2 * (MN * q)
               left == [k \in D |-> A * burst[k] + 0 * burst[k]]
               shared == [k \in D |-> C1 * request[k] + C2 * one[k]]
               right == [k \in D |-> 1 * shared[k] + C3 * lift[k]]
    <2>4. MN \in Nat \ {0} /\ A \in Int /\ C1 \in Int /\ C2 \in Int /\ C3 \in Int
      <3> HIDE DEF M, N, S
      <3> QED  BY <1>3, <1>4, <2>1
    <2>5. ASSUME NEW k \in D PROVE left[k] \in Int /\ right[k] \in Int /\ left[k] <= right[k]
      <3>1. /\ ps[k] \in PodInput /\ burst[k] = Decide(ps[k], s, c).target - ps[k].request
            /\ request[k] = ps[k].request /\ one[k] = 1
        BY <1>1 DEF Row
      <3>2. lift[k] = IF ps[k].aboveRequest THEN 1 ELSE 0
        OBVIOUS
      <3> DEFINE l == lift[k]
      <3>3. A * burst[k] <= C1 * request[k] + C2 + C3 * l
        <4> HIDE DEF l, burst, request
        <4>1. l = IF ps[k].aboveRequest THEN 1 ELSE 0
          BY <3>2 DEF l
        <4> HIDE DEF lift, s
        <4> QED  BY <1>4, <2>1, <3>1, <4>1, PodBurst
      <3>4. /\ left[k] = A * burst[k] + 0 * burst[k]
            /\ right[k] = 1 * (C1 * request[k] + C2 * one[k]) + C3 * lift[k]
        OBVIOUS
      <3>5. burst[k] \in Int /\ request[k] \in Int /\ lift[k] \in Int /\ one[k] = 1
        BY <1>6
      <3> HIDE DEF A, C1, C2, C3, burst, request, one, lift, left, right, shared
      <3>6. /\ A * burst[k] \in Int /\ C1 * request[k] \in Int /\ C3 * lift[k] \in Int
            /\ 0 * burst[k] = 0 /\ C2 * one[k] = C2
        BY <2>4, <3>5
      <3>7. left[k] = A * burst[k] /\ right[k] = C1 * request[k] + C2 + C3 * l
        BY <2>4, <3>4, <3>6
      <3> QED  BY <2>4, <3>3, <3>6, <3>7
    <2>6. SumFunctionOnSet(left, D) <= SumFunctionOnSet(right, D)
      <3> HIDE DEF left, right, D
      <3> QED  BY <1>2, <2>5, SumOrdered
    <2>7. SumFunctionOnSet(left, D) = A * B
      <3>1. \A k \in D : burst[k] \in Int /\ burst[k] \in Int /\ left[k] = A * burst[k] + 0 * burst[k]
        BY <1>6
      <3>2. B \in Int
        <4> HIDE DEF burst
        <4> QED  BY <1>2, <1>6, SumLaws
      <3> HIDE DEF left, burst, D, A
      <3>3. SumFunctionOnSet(left, D) = A * SumFunctionOnSet(burst, D) + 0 * SumFunctionOnSet(burst, D)
        BY <1>2, <2>4, <3>1, SumLinear
      <3> HIDE DEF B
      <3> QED  BY <2>4, <3>2, <3>3 DEF B
    <2>8. SumFunctionOnSet(right, D) = C1 * Rs + C2 * n + C3 * lifted
      <3>1. \A k \in D : request[k] \in Int /\ one[k] \in Int
                           /\ shared[k] = C1 * request[k] + C2 * one[k]
        BY <1>6
      <3>2. \A k \in D : shared[k] \in Int /\ lift[k] \in Int
                           /\ right[k] = 1 * shared[k] + C3 * lift[k]
        <4>1. \A k \in D : shared[k] \in Int
          <5> HIDE DEF shared, C1, C2, request, one, D
          <5> QED  BY <2>4, <3>1
        <4> QED  BY <1>6, <4>1
      <3> HIDE DEF right, shared, request, one, lift, D, C1, C2, C3, n, lifted, Rs
      <3>3. SumFunctionOnSet(shared, D) = C1 * SumFunctionOnSet(request, D) + C2 * SumFunctionOnSet(one, D)
        BY <1>2, <2>4, <3>1, SumLinear
      <3>4. SumFunctionOnSet(right, D) = 1 * SumFunctionOnSet(shared, D) + C3 * SumFunctionOnSet(lift, D)
        BY <1>2, <2>4, <3>2, SumLinear
      <3>5. SumFunctionOnSet(shared, D) = C1 * Rs + C2 * n
        BY <2>3, <3>3 DEF Rs
      <3>6. C1 * Rs + C2 * n \in Int
        BY <1>3, <2>2, <2>4
      <3> DEFINE x == C1 * Rs + C2 * n
      <3>7. x \in Int /\ SumFunctionOnSet(shared, D) = x
        BY <3>5, <3>6
      <3> HIDE DEF x
      <3>8. SumFunctionOnSet(right, D) = x + C3 * lifted
        BY <2>3, <3>4, <3>7
      <3> QED  BY <3>8 DEF x
    <2>9. B \in Int
      <3> HIDE DEF burst
      <3> QED  BY <1>2, <1>6, SumLaws
    <2>10. A * B <= C1 * Rs + C2 * n + C3 * lifted
      BY <2>6, <2>7, <2>8
    <2> HIDE DEF B, Rs, n, lifted, S, M, N
    <2>11. MN * (2 * B) <= MN * (4 * S + n * (1 + q) + 2 * lifted * q)
      <3>1. MN \in Nat /\ MN = M * N /\ q \in Nat
        BY <1>3, <2>4
      <3> HIDE DEF MN
      <3> QED  BY <1>3, <1>4, <2>2, <2>9, <2>10, <3>1, AddsUp
    <2>12. 2 * B \in Int /\ 4 * S + n * (1 + q) + 2 * lifted * q \in Int
      BY <1>3, <1>4, <2>9
    <2>13. 2 * B <= 4 * S + n * (1 + q) + 2 * lifted * q
      <3> HIDE DEF MN
      <3> QED  BY <2>4, <2>11, <2>12, TimesCancel
    <2> QED  BY <1>5, <2>13 DEF S, n, lifted
  <1> QED  BY <1>7, <1>8

\* Compute, for any node and any number of pods: the burst handed out over all the
\* managed pods is at most twice the slack, up to the rounding of each pod and a
\* quantum for each one lifted above its request.
THEOREM BurstBounded == Spec => []BurstBoundedBySlack
  <1>1. ASSUME Booked PROVE BurstBoundedBySlack
    BY <1>1, NodeBurst DEF Booked, BurstBoundedBySlack
  <1> QED  BY <1>1, BookedAlways, PTL
=============================================================================
