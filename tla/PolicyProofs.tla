---------------------------- MODULE PolicyProofs ----------------------------
(***************************************************************************)
(* The decision for one pod, for every pod, node and configuration:        *)
(*                                                                         *)
(*   DecideWithinBounds   the target respects the request, the ceilings    *)
(*                        and the QoS floor, as TargetWithinBounds asks;   *)
(*   FullerRaisesNobody   less slack, shared by more, raises no target,    *)
(*                        which is what makes BindRaisesNobody hold;       *)
(*                                                                         *)
(* and those of Compute for all the pods of a node:                        *)
(*                                                                         *)
(*   LimitsDecideNoTarget   what the node reconciler assumes of them.      *)
(*                                                                         *)
(* They go up the chain of the code: Round and division, the ceiling, the  *)
(* quantization, the lift; each operator has a lemma that bounds it and    *)
(* one that says it is monotone.                                           *)
(***************************************************************************)
EXTENDS Policy, Sums

\* policy.NodeStats, as Compute fills it.
NodeStats == [allocatable: Nat, slack: Nat, managedRequests: Nat, managedPods: Nat]

\* What integer division does, in the one form the proofs below use.
LEMMA Division ==
    ASSUME NEW a \in Nat, NEW q \in Nat \ {0}
    PROVE  /\ a \div q \in Nat
           /\ (a \div q) * q <= a
           /\ a < (a \div q) * q + q
           /\ (a \div q + 1) * q = (a \div q) * q + q
  OBVIOUS

\* math.Round of a non-negative share is a natural number.
LEMMA RoundTyped == ASSUME NEW a \in Nat, NEW b \in Nat \ {0} PROVE Round(a, b) \in Nat
  BY Division DEF Round

LEMMA CapTyped == ASSUME NEW p \in PodInput PROVE CapMilli(p) \in Nat
  BY DEF PodInput, CapMilli

LEMMA CeilingTyped ==
    ASSUME NEW req \in Nat, NEW a \in Nat, NEW podCap \in Nat, NEW c \in PolicyConfig
    PROVE  /\ Ceiling(req, a, podCap, c) \in Nat
           /\ Ceiling(req, a, podCap, c) >= req
           /\ podCap > 0 => Ceiling(req, a, podCap, c) <= Greatest(podCap, req)
  <1>1. c.multNum \in Nat /\ c.multDen \in Nat \ {0} /\ req * c.multNum \in Nat
    BY DEF PolicyConfig
  <1>2. Round(req * c.multNum, c.multDen) \in Nat
    BY <1>1, RoundTyped
  <1> QED  BY <1>1, <1>2 DEF Ceiling, Least, Greatest

\* Quantization never leaves [request, ceiling], on or off the grid.
LEMMA QuantizeBounds ==
    ASSUME NEW req \in Nat, NEW hi \in Nat, NEW raw \in Nat, NEW q \in Nat,
           req <= raw, raw <= hi
    PROVE  /\ Quantize(raw, req, hi, q) \in Nat
           /\ req <= Quantize(raw, req, hi, q)
           /\ Quantize(raw, req, hi, q) <= hi
  <1>1. CASE q = 0
    BY <1>1 DEF Quantize
  <1>2. CASE q # 0
    <2> DEFINE half == q \div 2
               nearest == ((raw + half) \div q) * q
    <2>1. half \in Nat /\ half < q
      BY <1>2
    <2>2. nearest \in Nat /\ nearest <= raw + half
      BY <1>2, <2>1, Division
    <2>3. nearest - q <= hi
      BY <2>1, <2>2
    <2> HIDE DEF nearest, half
    <2>4. Quantize(raw, req, hi, q) = Greatest(IF nearest > hi THEN nearest - q ELSE nearest, req)
      BY <1>2 DEF Quantize, nearest, half
    <2> QED  BY <1>2, <2>2, <2>3, <2>4 DEF Greatest
  <1> QED  BY <1>1, <1>2

LEMMA ClampBounds ==
    ASSUME NEW raw \in Nat, NEW req \in Nat, NEW a \in Nat, NEW podCap \in Nat,
           NEW c \in PolicyConfig
    PROVE  /\ ClampAndQuantize(raw, req, a, podCap, c) \in Nat
           /\ req <= ClampAndQuantize(raw, req, a, podCap, c)
           /\ ClampAndQuantize(raw, req, a, podCap, c) <= Ceiling(req, a, podCap, c)
  <1> DEFINE hi == Ceiling(req, a, podCap, c)
             in == Least(Greatest(raw, req), hi)
  <1>1. hi \in Nat /\ req <= hi
    BY CeilingTyped
  <1> HIDE DEF hi
  <1>2. in \in Nat /\ req <= in /\ in <= hi
    BY <1>1 DEF Least, Greatest
  <1> HIDE DEF in
  <1>3. c.quantum \in Nat
    BY DEF PolicyConfig
  <1>4. ClampAndQuantize(raw, req, a, podCap, c) = Quantize(in, req, hi, c.quantum)
    BY DEF ClampAndQuantize, in, hi
  <1>5. /\ Quantize(in, req, hi, c.quantum) \in Nat
        /\ req <= Quantize(in, req, hi, c.quantum)
        /\ Quantize(in, req, hi, c.quantum) <= hi
    BY <1>1, <1>2, <1>3, QuantizeBounds
  <1> QED  BY <1>4, <1>5 DEF hi

LEMMA RawTyped ==
    ASSUME NEW p \in PodInput, NEW s \in NodeStats, NEW c \in PolicyConfig,
           s.managedRequests > 0 => s.managedPods > 0
    PROVE  RawLimit(p, s, c) \in Nat
  <1>1. CASE s.slack <= 0 \/ s.managedRequests <= 0
    BY <1>1 DEF RawLimit, PodInput
  <1>2. CASE ~(s.slack <= 0 \/ s.managedRequests <= 0)
    <2>1. p.request \in Nat /\ s.slack \in Nat /\ s.slack * p.request \in Nat
          /\ s.managedRequests \in Nat \ {0} /\ s.managedPods \in Nat \ {0}
          /\ c.minBurstFloor \in Nat
      BY <1>2 DEF PodInput, NodeStats, PolicyConfig
    <2>2. /\ Round(s.slack * p.request, s.managedRequests) \in Nat
          /\ Round(s.slack, s.managedPods) \in Nat
      BY <2>1, RoundTyped
    <2> QED  BY <1>2, <2>1, <2>2 DEF RawLimit, Greatest, Least
  <1> QED  BY <1>1, <1>2

LEMMA DecideTyped ==
    ASSUME NEW p \in PodInput, NEW s \in NodeStats, NEW c \in PolicyConfig,
           s.managedRequests > 0 => s.managedPods > 0
    PROVE  Decide(p, s, c).target \in Nat
  <1> DEFINE clamped == ClampAndQuantize(RawLimit(p, s, c), p.request, s.allocatable,
                                         CapMilli(p), c)
             q == Greatest(c.quantum, 1)
  <1>1. p.request \in Nat /\ p.rangeCap \in Nat /\ s.allocatable \in Nat
    BY DEF PodInput, NodeStats
  <1>2. clamped \in Nat
    BY <1>1, RawTyped, CapTyped, ClampBounds
  <1>3. (p.request \div q + 1) * q \in Nat
    <2>1. q \in Nat \ {0}
      BY DEF Greatest, PolicyConfig
    <2> HIDE DEF q
    <2> QED  BY <1>1, <2>1, Division
  <1>4. Decide(p, s, c).target = Lift(p, clamped, c)
    BY DEF Decide
  <1> HIDE DEF clamped
  <1> QED  BY <1>1, <1>2, <1>3, <1>4 DEF Lift, Least

\* decide, clampAndQuantize and finalize, for every pod, node and policy, whatever
\* quantum, caps, multiplier and floor are configured: the target is within its
\* bounds.  TargetWithinBounds says the same of all the decisions on a node.
THEOREM DecideWithinBounds ==
    ASSUME NEW p \in PodInput, NEW s \in NodeStats, NEW c \in PolicyConfig,
           s.managedRequests > 0 => s.managedPods > 0
    PROVE  WithinBounds(p, Decide(p, s, c).target, s.allocatable, c)
  <1> DEFINE cap == CapMilli(p)
             hi == Ceiling(p.request, s.allocatable, cap, c)
             clamped == ClampAndQuantize(RawLimit(p, s, c), p.request, s.allocatable, cap, c)
             q == Greatest(c.quantum, 1)
             t == Decide(p, s, c).target
  <1>1. p.request \in Nat /\ p.rangeCap \in Nat /\ p.userCap \in Nat /\ s.allocatable \in Nat
    BY DEF PodInput, NodeStats
  <1>2. clamped \in Nat /\ p.request <= clamped /\ clamped <= hi
    BY <1>1, RawTyped, CapTyped, ClampBounds
  <1>3. q \in Nat \ {0} /\ QoSFloor(p, c) \in Nat /\ p.request < QoSFloor(p, c)
    <2>1. q \in Nat \ {0}
      BY DEF Greatest, PolicyConfig
    <2> HIDE DEF q
    <2>2. (p.request \div q + 1) * q \in Nat /\ p.request < (p.request \div q + 1) * q
      BY <1>1, <2>1, Division
    <2> QED  BY <2>1, <2>2 DEF QoSFloor, q
  <1>4. hi \in Nat /\ (p.rangeCap > p.request => hi <= p.rangeCap)
    <2>1. cap \in Nat /\ (p.rangeCap > p.request => cap > 0 /\ cap <= p.rangeCap)
      BY <1>1 DEF CapMilli
    <2> HIDE DEF cap
    <2>2. hi \in Nat /\ (cap > 0 => hi <= Greatest(cap, p.request))
      BY <1>1, <2>1, CeilingTyped
    <2> HIDE DEF hi
    <2> QED  BY <1>1, <2>1, <2>2 DEF Greatest
  <1>5. t = Lift(p, clamped, c)
    BY DEF Decide
  <1> HIDE DEF clamped, hi, t
  <1>6. t = IF p.aboveRequest /\ clamped <= p.request
            THEN IF p.rangeCap > p.request THEN Least(QoSFloor(p, c), p.rangeCap)
                 ELSE QoSFloor(p, c)
            ELSE clamped
    BY <1>5 DEF Lift, QoSFloor
  <1>7. CASE p.aboveRequest /\ clamped <= p.request
    <2>1. t <= QoSFloor(p, c) /\ p.request < t /\ (p.rangeCap > p.request => t <= p.rangeCap)
      BY <1>1, <1>3, <1>6, <1>7 DEF Least
    <2>2. t \in Nat
      BY <1>1, <1>3, <1>6, <1>7 DEF Least
    <2> QED  BY <1>1, <1>7, <2>1, <2>2 DEF WithinBounds, t
  <1>8. CASE ~(p.aboveRequest /\ clamped <= p.request)
    <2>1. t = clamped /\ (p.aboveRequest => p.request < t)
      BY <1>1, <1>2, <1>6, <1>8
    <2> QED  BY <1>1, <1>2, <1>4, <2>1 DEF WithinBounds, t, hi
  <1> QED  BY <1>7, <1>8
-----------------------------------------------------------------------------
(* A node that fills up raises nobody's target.                             *)

\* Products grow with their factors.
LEMMA TimesMonotone ==
    ASSUME NEW j \in Nat, NEW k \in Nat, NEW q \in Nat, j <= k PROVE j * q <= k * q
  OBVIOUS

LEMMA TimesCancel ==
    ASSUME NEW j \in Int, NEW k \in Int, NEW q \in Nat \ {0}, q * j <= q * k PROVE j <= k
  OBVIOUS

\* The quotient is the largest factor that fits.
LEMMA DivisionGreatest ==
    ASSUME NEW a \in Nat, NEW q \in Nat \ {0}, NEW k \in Nat, k * q <= a
    PROVE  k <= a \div q
  <1>1. a \div q \in Nat /\ a < (a \div q + 1) * q
    BY Division
  <1>2. ASSUME a \div q < k PROVE FALSE
    <2>1. (a \div q + 1) * q <= k * q
      BY <1>1, <1>2, TimesMonotone
    <2>2. (a \div q + 1) * q \in Nat /\ k * q \in Nat
      BY <1>1
    <2> QED  BY <1>1, <2>1, <2>2
  <1> QED  BY <1>1, <1>2

\* math.Round is monotone: of two shares a1/b1 <= a2/b2 it never makes the first
\* the larger.
LEMMA RoundMonotone ==
    ASSUME NEW a1 \in Nat, NEW b1 \in Nat \ {0}, NEW a2 \in Nat, NEW b2 \in Nat \ {0},
           a1 * b2 <= a2 * b1
    PROVE  Round(a1, b1) <= Round(a2, b2)
  <1> DEFINE k == Round(a1, b1)
  <1>1. k \in Nat /\ k * (2 * b1) <= 2 * a1 + b1
    <2>1. 2 * a1 + b1 \in Nat /\ 2 * b1 \in Nat \ {0}
      OBVIOUS
    <2>2. k = (2 * a1 + b1) \div (2 * b1)
      BY DEF Round
    <2> QED  BY <2>1, <2>2, Division
  <1> HIDE DEF k
  <1>2. b1 * (k * (2 * b2)) <= b1 * (2 * a2 + b2)
    <2>1. b2 * (k * (2 * b1)) <= b2 * (2 * a1 + b1)
      <3> DEFINE x == k * (2 * b1)
                 y == 2 * a1 + b1
      <3>1. x \in Nat /\ y \in Nat /\ x <= y
        BY <1>1
      <3> HIDE DEF x, y
      <3>2. x * b2 <= y * b2
        BY <3>1, TimesMonotone
      <3>3. x * b2 = b2 * x /\ y * b2 = b2 * y
        BY <3>1
      <3>4. b2 * x <= b2 * y
        BY <3>2, <3>3
      <3> QED  BY <3>4 DEF x, y
    <2>2. b2 * (k * (2 * b1)) = b1 * (k * (2 * b2))
      BY <1>1
    <2>3. b2 * (2 * a1 + b1) = 2 * (a1 * b2) + b1 * b2
      OBVIOUS
    <2>4. b1 * (2 * a2 + b2) = 2 * (a2 * b1) + b1 * b2
      OBVIOUS
    <2>5. a1 * b2 \in Nat /\ a2 * b1 \in Nat /\ b1 * b2 \in Nat
      OBVIOUS
    <2> DEFINE x == a1 * b2
               y == a2 * b1
               z == b1 * b2
    <2>6. x \in Nat /\ y \in Nat /\ z \in Nat /\ x <= y
      BY <2>5
    <2>7. b2 * (2 * a1 + b1) = 2 * x + z /\ b1 * (2 * a2 + b2) = 2 * y + z
      BY <2>3, <2>4
    <2> HIDE DEF x, y, z
    <2>8. 2 * x + z <= 2 * y + z
      BY <2>6
    <2>9. b1 * (k * (2 * b2)) <= 2 * x + z
      BY <2>1, <2>2, <2>7
    <2> DEFINE l == b1 * (k * (2 * b2))
    <2>10. l \in Nat /\ l <= 2 * x + z
      BY <1>1, <2>9
    <2> HIDE DEF l
    <2>11. l <= 2 * y + z
      BY <2>6, <2>8, <2>10
    <2> QED  BY <2>7, <2>11 DEF l
  <1>3. k * (2 * b2) <= 2 * a2 + b2
    BY <1>1, <1>2, TimesCancel
  <1>4. k <= (2 * a2 + b2) \div (2 * b2)
    BY <1>1, <1>3, DivisionGreatest
  <1> QED  BY <1>4 DEF Round, k

\* Off the request, a quantized limit lies on the grid: it is no less than the
\* limit finalize would lift to.
LEMMA QuantizeOnGrid ==
    ASSUME NEW req \in Nat, NEW hi \in Nat, NEW raw \in Nat, NEW q \in Nat,
           req <= raw, raw <= hi, Quantize(raw, req, hi, q) > req
    PROVE  (req \div Greatest(q, 1) + 1) * Greatest(q, 1) <= Quantize(raw, req, hi, q)
  <1>1. CASE q = 0
    <2>1. Greatest(q, 1) = 1 /\ (req \div 1 + 1) * 1 = req + 1
      BY <1>1 DEF Greatest
    <2> QED  BY <1>1, <2>1, QuantizeBounds
  <1>2. CASE q # 0
    <2>0. Greatest(q, 1) = q
      BY <1>2 DEF Greatest
    <2> DEFINE k == (raw + q \div 2) \div q
    <2>1. k \in Nat
      BY <1>2, Division
    <2> HIDE DEF k
    <2>2. k * q \in Nat /\ (k - 1) * q = k * q - q
      BY <2>1
    <2>3. Quantize(raw, req, hi, q) = Greatest(IF k * q > hi THEN k * q - q ELSE k * q, req)
      BY <1>2 DEF Quantize, k
    <2>4. PICK m \in Int : Quantize(raw, req, hi, q) = m * q /\ m * q > req
      <3>1. Quantize(raw, req, hi, q) \in {k * q, (k - 1) * q}
        BY <2>2, <2>3 DEF Greatest
      <3>2. k \in Int /\ k - 1 \in Int
        BY <2>1
      <3> QED  BY <3>1, <3>2
    <2>5. m \in Nat
      <3>1. ASSUME m < 0 PROVE FALSE
        BY <1>2, <2>4, <3>1
      <3> QED  BY <3>1
    <2>6. req \div q \in Nat /\ (req \div q) * q <= req
      BY <1>2, Division
    <2>7. req \div q < m
      <3>1. ASSUME m <= req \div q PROVE FALSE
        <4>1. m * q <= (req \div q) * q
          BY <2>5, <2>6, <3>1, TimesMonotone
        <4> QED  BY <2>4, <2>5, <2>6, <4>1
      <3> QED  BY <2>5, <2>6, <3>1
    <2>8. (req \div q + 1) * q <= m * q
      BY <2>5, <2>6, <2>7, TimesMonotone
    <2> QED  BY <2>0, <2>4, <2>8
  <1> QED  BY <1>1, <1>2

LEMMA QuantizeMonotone ==
    ASSUME NEW req \in Nat, NEW hi \in Nat, NEW q \in Nat, NEW r1 \in Nat, NEW r2 \in Nat,
           r1 <= r2
    PROVE  Quantize(r1, req, hi, q) <= Quantize(r2, req, hi, q)
  <1>1. CASE q = 0
    BY <1>1 DEF Quantize
  <1>2. CASE q # 0
    <2> DEFINE half == q \div 2
               k1 == (r1 + half) \div q
               k2 == (r2 + half) \div q
    <2>1. half \in Nat
      BY <1>2
    <2> HIDE DEF half
    <2>2. k1 \in Nat /\ k2 \in Nat /\ k1 * q <= r1 + half
      BY <1>2, <2>1, Division
    <2>3. k1 <= k2
      BY <1>2, <2>1, <2>2, DivisionGreatest
    <2> HIDE DEF k1, k2
    <2>4. k1 * q \in Nat /\ k2 * q \in Nat /\ k1 * q <= k2 * q
      BY <2>2, <2>3, TimesMonotone
    <2>5. k1 # k2 => k1 * q <= k2 * q - q
      <3>1. ASSUME k1 # k2 PROVE (k1 + 1) * q <= k2 * q
        BY <2>2, <2>3, <3>1, TimesMonotone
      <3>2. (k1 + 1) * q = k1 * q + q
        BY <2>2
      <3> QED  BY <2>4, <3>1, <3>2
    <2>6. /\ Quantize(r1, req, hi, q) = Greatest(IF k1 * q > hi THEN k1 * q - q ELSE k1 * q, req)
          /\ Quantize(r2, req, hi, q) = Greatest(IF k2 * q > hi THEN k2 * q - q ELSE k2 * q, req)
      BY <1>2 DEF Quantize, k1, k2, half
    <2> QED  BY <2>4, <2>5, <2>6 DEF Greatest
  <1> QED  BY <1>1, <1>2

\* Stats of a node before and after a pod binds to it: less slack, shared by more.
Fuller(s, t) ==
    /\ t.allocatable = s.allocatable
    /\ t.slack <= s.slack
    /\ t.managedRequests >= s.managedRequests
    /\ t.managedPods >= s.managedPods

LEMMA RawMonotone ==
    ASSUME NEW p \in PodInput, NEW s \in NodeStats, NEW t \in NodeStats, NEW c \in PolicyConfig,
           s.managedRequests > 0, s.managedPods > 0, Fuller(s, t)
    PROVE  RawLimit(p, t, c) <= RawLimit(p, s, c)
  <1>0. /\ p.request \in Nat /\ c.minBurstFloor \in Nat
        /\ s.slack \in Nat /\ t.slack \in Nat /\ t.slack <= s.slack
        /\ s.managedRequests \in Nat \ {0} /\ t.managedRequests \in Nat \ {0}
        /\ s.managedPods \in Nat \ {0} /\ t.managedPods \in Nat \ {0}
        /\ s.managedRequests <= t.managedRequests /\ s.managedPods <= t.managedPods
    BY DEF PodInput, NodeStats, PolicyConfig, Fuller
  <1>1. CASE t.slack = 0
    <2>1. RawLimit(p, t, c) = p.request
      BY <1>0, <1>1 DEF RawLimit
    <2>2. RawLimit(p, s, c) >= p.request
      <3>1. Round(s.slack * p.request, s.managedRequests) \in Nat
        BY <1>0, RoundTyped
      <3>2. Round(s.slack, s.managedPods) \in Nat
        BY <1>0, RoundTyped
      <3> QED  BY <1>0, <3>1, <3>2 DEF RawLimit, Greatest, Least
    <2> QED  BY <2>1, <2>2
  <1>2. CASE t.slack # 0
    <2>1. t.slack * p.request \in Nat /\ s.slack * p.request \in Nat
      BY <1>0
    <2>2. (t.slack * p.request) * s.managedRequests <= (s.slack * p.request) * t.managedRequests
      <3>1. t.slack * p.request <= s.slack * p.request
        BY <1>0, TimesMonotone
      <3> DEFINE x == t.slack * p.request
                 y == s.slack * p.request
      <3>2. x \in Nat /\ y \in Nat /\ x <= y
        BY <2>1, <3>1
      <3> HIDE DEF x, y
      <3>3. x * s.managedRequests <= y * s.managedRequests
        BY <1>0, <3>2, TimesMonotone
      <3>4. y * s.managedRequests <= y * t.managedRequests
        <4>1. s.managedRequests * y <= t.managedRequests * y
          BY <1>0, <3>2, TimesMonotone
        <4> QED  BY <1>0, <3>2, <4>1
      <3>5. /\ x * s.managedRequests \in Nat /\ y * s.managedRequests \in Nat
            /\ y * t.managedRequests \in Nat
        BY <1>0, <3>2
      <3>6. x * s.managedRequests <= y * t.managedRequests
        BY <3>3, <3>4, <3>5
      <3> QED  BY <3>6 DEF x, y
    <2>3. Round(t.slack * p.request, t.managedRequests)
            <= Round(s.slack * p.request, s.managedRequests)
      BY <1>0, <2>1, <2>2, RoundMonotone
    <2>4. Round(t.slack, t.managedPods) <= Round(s.slack, s.managedPods)
      <3>1. t.slack * s.managedPods <= s.slack * s.managedPods
        BY <1>0, TimesMonotone
      <3>2. s.slack * s.managedPods <= s.slack * t.managedPods
        <4>1. s.managedPods * s.slack <= t.managedPods * s.slack
          BY <1>0, TimesMonotone
        <4> QED  BY <1>0, <4>1
      <3>3. /\ t.slack * s.managedPods \in Nat /\ s.slack * s.managedPods \in Nat
            /\ s.slack * t.managedPods \in Nat
        BY <1>0
      <3>4. t.slack * s.managedPods <= s.slack * t.managedPods
        BY <3>1, <3>2, <3>3
      <3> QED  BY <1>0, <3>4, RoundMonotone
    <2>5. /\ Round(t.slack * p.request, t.managedRequests) \in Nat
          /\ Round(s.slack * p.request, s.managedRequests) \in Nat
          /\ Round(t.slack, t.managedPods) \in Nat /\ Round(s.slack, s.managedPods) \in Nat
      BY <1>0, <2>1, RoundTyped
    <2>6. /\ RawLimit(p, t, c) = p.request +
                Greatest(Round(t.slack * p.request, t.managedRequests),
                         Least(c.minBurstFloor, Round(t.slack, t.managedPods)))
          /\ RawLimit(p, s, c) = p.request +
                Greatest(Round(s.slack * p.request, s.managedRequests),
                         Least(c.minBurstFloor, Round(s.slack, s.managedPods)))
      BY <1>0, <1>2 DEF RawLimit
    <2> QED  BY <1>0, <2>3, <2>4, <2>5, <2>6 DEF Greatest, Least
  <1> QED  BY <1>1, <1>2

\* finalize's lift keeps the order, since the clamped limits it leaves alone are
\* already on or above the floor it lifts to.
LEMMA LiftMonotone ==
    ASSUME NEW p \in PodInput, NEW c \in PolicyConfig, NEW x \in Nat, NEW y \in Nat, x <= y,
           y > p.request => QoSFloor(p, c) <= y
    PROVE  Lift(p, x, c) <= Lift(p, y, c)
  <1>1. p.request \in Nat /\ p.rangeCap \in Nat /\ QoSFloor(p, c) \in Nat
    <2>1. Greatest(c.quantum, 1) \in Nat \ {0} /\ p.request \in Nat /\ p.rangeCap \in Nat
      BY DEF Greatest, PolicyConfig, PodInput
    <2> QED  BY <2>1, Division DEF QoSFloor
  <1> DEFINE floor == IF p.rangeCap > p.request THEN Least(QoSFloor(p, c), p.rangeCap)
                      ELSE QoSFloor(p, c)
  <1>2. floor \in Nat /\ floor <= QoSFloor(p, c)
    BY <1>1 DEF Least
  <1>3. \A z \in Nat : Lift(p, z, c) = IF p.aboveRequest /\ z <= p.request THEN floor ELSE z
    BY DEF Lift, QoSFloor
  <1> HIDE DEF floor
  <1> QED  BY <1>1, <1>2, <1>3

\* policy.Compute on one pod, for any policy: as a node fills up, less slack
\* shared by more, no target rises, whatever rounding, clamp, quantum, cap and QoS
\* floor do to it.  BindRaisesNobody says it of the pods on a node.
THEOREM FullerRaisesNobody ==
    ASSUME NEW p \in PodInput, NEW s \in NodeStats, NEW t \in NodeStats, NEW c \in PolicyConfig,
           s.managedRequests > 0, s.managedPods > 0, Fuller(s, t)
    PROVE  Decide(p, t, c).target <= Decide(p, s, c).target
  <1> DEFINE hi == Ceiling(p.request, s.allocatable, CapMilli(p), c)
             in(r) == Least(Greatest(r, p.request), hi)
             rs == RawLimit(p, s, c)
             rt == RawLimit(p, t, c)
  <1>1. /\ p.request \in Nat /\ s.allocatable \in Nat /\ t.allocatable = s.allocatable
        /\ c.quantum \in Nat /\ CapMilli(p) \in Nat
    BY CapTyped DEF PodInput, NodeStats, PolicyConfig, Fuller
  <1>2. rs \in Nat /\ rt \in Nat /\ rt <= rs
    <2>1. t.managedRequests > 0 => t.managedPods > 0
      BY DEF Fuller, NodeStats
    <2> QED  BY <2>1, RawTyped, RawMonotone
  <1>3. hi \in Nat /\ p.request <= hi
    BY <1>1, CeilingTyped
  <1> HIDE DEF hi, rs, rt
  <1>4. /\ in(rs) \in Nat /\ in(rt) \in Nat /\ in(rt) <= in(rs)
        /\ p.request <= in(rs) /\ in(rs) <= hi
        /\ p.request <= in(rt) /\ in(rt) <= hi
    BY <1>1, <1>2, <1>3 DEF Least, Greatest
  <1> DEFINE x == Quantize(in(rt), p.request, hi, c.quantum)
             y == Quantize(in(rs), p.request, hi, c.quantum)
  <1>5. Decide(p, t, c).target = Lift(p, x, c) /\ Decide(p, s, c).target = Lift(p, y, c)
    BY <1>1 DEF Decide, ClampAndQuantize, hi, rs, rt
  <1> HIDE DEF in
  <1>6. x \in Nat /\ y \in Nat
    BY <1>1, <1>3, <1>4, QuantizeBounds
  <1>7. x <= y
    BY <1>1, <1>3, <1>4, QuantizeMonotone
  <1>8. y > p.request => QoSFloor(p, c) <= y
    BY <1>1, <1>3, <1>4, QuantizeOnGrid DEF QoSFloor
  <1> HIDE DEF x, y
  <1>9. Lift(p, x, c) <= Lift(p, y, c)
    BY <1>6, <1>7, <1>8, LiftMonotone
  <1> QED  BY <1>5, <1>9
-----------------------------------------------------------------------------
(* Compute on one node.                                                      *)

\* A pod the policy may be given: eligibility asks a request of those that share.
Row(p) ==
    /\ p \in PodInput
    /\ p.managed \/ p.holdsShare => p.request > 0
    /\ p.request + p.bookedDelta >= 0

\* The pods of a node.
Booking(ps) ==
    /\ IsFiniteSet(DOMAIN ps)
    /\ ps \in [DOMAIN ps -> PodInput]
    /\ \A k \in DOMAIN ps : Row(ps[k])

\* The slack and the sums of a node are natural numbers, and a node with a pod
\* that shares divides by neither zero.
LEMMA StatsTyped ==
    ASSUME NEW a \in Nat, NEW ps, Booking(ps)
    PROVE  /\ Stats(a, ps) \in NodeStats
           /\ Stats(a, ps).allocatable = a
           /\ Sharing(ps) # {} =>
                 Stats(a, ps).managedRequests > 0 /\ Stats(a, ps).managedPods > 0
           /\ Stats(a, ps).managedRequests > 0 => Stats(a, ps).managedPods > 0
  <1> DEFINE booked == [k \in DOMAIN ps |-> ps[k].request + ps[k].bookedDelta]
             shares == [k \in Sharing(ps) |-> ps[k].request]
             total == SumFunction(booked)
             requests == SumFunction(shares)
  <1>1. IsFiniteSet(DOMAIN ps) /\ IsFiniteSet(Sharing(ps))
    BY FS_Subset DEF Booking, Sharing
  <1>2. total \in Int
    <2>1. \A k \in DOMAIN ps : booked[k] \in Int
      BY DEF Booking, Row, PodInput
    <2>2. DOMAIN booked = DOMAIN ps
      OBVIOUS
    <2> HIDE DEF booked
    <2> QED  BY <1>1, <2>1, <2>2, SumLaws DEF SumFunction
  <1>3. requests \in Nat /\ \A k \in Sharing(ps) : ps[k].request <= requests
    <2>1. \A k \in Sharing(ps) : shares[k] \in Nat /\ shares[k] = ps[k].request
      BY DEF Booking, Row, PodInput, Sharing
    <2>2. DOMAIN shares = Sharing(ps) /\ Sharing(ps) \in SUBSET Sharing(ps)
      OBVIOUS
    <2> HIDE DEF shares
    <2> QED  BY <1>1, <2>1, <2>2, SumOfNats DEF SumFunction
  <1>4. Cardinality(Sharing(ps)) \in Nat /\ (Sharing(ps) # {} => Cardinality(Sharing(ps)) > 0)
    BY <1>1, FS_CardinalityType, FS_EmptySet
  <1>5. Stats(a, ps) = [allocatable |-> a, slack |-> Greatest(a - total, 0),
                        managedRequests |-> requests,
                        managedPods |-> Cardinality(Sharing(ps))]
    BY DEF Stats
  <1>6. Sharing(ps) # {} => requests > 0
    <2>1. \A k \in Sharing(ps) : ps[k].request > 0 /\ ps[k].request \in Nat
      BY DEF Booking, Row, Sharing, PodInput
    <2> HIDE DEF requests
    <2> QED  BY <1>3, <2>1
  <1>7. Sharing(ps) = {} => requests = 0
    <2>1. SUFFICES ASSUME Sharing(ps) = {} PROVE requests = 0
      OBVIOUS
    <2>2. DOMAIN shares = {} /\ IsFiniteSet({}) /\ \A k \in {} : shares[k] \in Int
      BY <1>1, <2>1
    <2> HIDE DEF shares
    <2> QED  BY <2>2, SumLaws DEF SumFunction
  <1> HIDE DEF total, requests
  <1>8. Stats(a, ps) \in NodeStats
    BY <1>2, <1>3, <1>4, <1>5 DEF NodeStats, Greatest
  <1> QED  BY <1>3, <1>4, <1>5, <1>6, <1>7, <1>8

\* Compute decides for the managed pods, each on its own input and the node's.
LEMMA ComputeDecides ==
    ASSUME NEW a, NEW ps, NEW c
    PROVE  /\ DOMAIN Compute(a, ps, c) = {k \in DOMAIN ps : ps[k].managed}
           /\ \A k \in DOMAIN Compute(a, ps, c) :
                 /\ k \in DOMAIN ps /\ k \in Sharing(ps) /\ ps[k].managed
                 /\ Compute(a, ps, c)[k] = Decide(ps[k], Stats(a, ps), c)
  BY DEF Compute, Sharing

\* A target is a natural number within its bounds.
LEMMA ComputeBounded ==
    ASSUME NEW a \in Nat, NEW ps, Booking(ps), NEW c \in PolicyConfig,
           NEW k \in DOMAIN Compute(a, ps, c)
    PROVE  /\ Compute(a, ps, c)[k] \in [target: Nat, apply: BOOLEAN]
           /\ WithinBounds(ps[k], Compute(a, ps, c)[k].target, a, c)
  <1> DEFINE s == Stats(a, ps)
             d == Decide(ps[k], s, c)
  <1>1. k \in DOMAIN ps /\ Compute(a, ps, c)[k] = d
    BY ComputeDecides
  <1>2. /\ s \in NodeStats /\ s.allocatable = a
        /\ s.managedRequests > 0 => s.managedPods > 0
    BY StatsTyped
  <1>3. ps[k] \in PodInput
    BY <1>1 DEF Booking, Row
  <1> HIDE DEF s
  <1>4. WithinBounds(ps[k], d.target, a, c)
    BY <1>2, <1>3, DecideWithinBounds
  <1>5. d.target \in Nat
    BY <1>2, <1>3, DecideTyped
  <1>6. d \in [target: Nat, apply: BOOLEAN]
    BY <1>5 DEF Decide, Applies
  <1> QED  BY <1>1, <1>4, <1>6

\* Two rows that book alike: they differ at most in the limit, and in whether the
\* share is managed or held.
Alike(p, q) ==
    /\ q.request = p.request
    /\ q.bookedDelta = p.bookedDelta
    /\ q.userCap = p.userCap
    /\ q.rangeCap = p.rangeCap
    /\ q.aboveRequest = p.aboveRequest
    /\ q.managed \/ q.holdsShare <=> p.managed \/ p.holdsShare

LEMMA TakesLimit ==
    ASSUME NEW p, Row(p), NEW l \in Nat, NEW q, q = [p EXCEPT !.limit = l]
    PROVE  Row(q) /\ Alike(p, q) /\ q.limit = l
  BY DEF Row, Alike, PodInput

LEMMA StatsAlike ==
    ASSUME NEW a, NEW ps, NEW qs, DOMAIN qs = DOMAIN ps,
           \A j \in DOMAIN ps : Alike(ps[j], qs[j])
    PROVE  Stats(a, qs) = Stats(a, ps)
  <1>1. Sharing(qs) = Sharing(ps)
    BY DEF Sharing, Alike
  <1>2. [k \in DOMAIN qs |-> qs[k].request + qs[k].bookedDelta]
           = [k \in DOMAIN ps |-> ps[k].request + ps[k].bookedDelta]
    BY DEF Alike
  <1>3. [k \in Sharing(qs) |-> qs[k].request] = [k \in Sharing(ps) |-> ps[k].request]
    BY <1>1 DEF Alike, Sharing
  <1> QED  BY <1>1, <1>2, <1>3 DEF Stats

\* A decision knows the pod's limit only in what it asks for.
LEMMA TargetAlike ==
    ASSUME NEW p, NEW q, Alike(p, q), NEW s, NEW c
    PROVE  /\ Decide(q, s, c).target = Decide(p, s, c).target
           /\ Decide(p, s, c).apply <=> Applies(Decide(p, s, c).target, p.limit, c)
           /\ Decide(q, s, c).apply <=> Applies(Decide(q, s, c).target, q.limit, c)
  <1>1. CapMilli(q) = CapMilli(p) /\ RawLimit(q, s, c) = RawLimit(p, s, c)
    BY DEF Alike, CapMilli, RawLimit
  <1>2. \A x : Lift(q, x, c) = Lift(p, x, c)
    BY DEF Alike, Lift
  <1> QED  BY <1>1, <1>2 DEF Decide, Alike

\* Compute, as the node reconciler relies on it (its TargetAssumption), for any
\* node: the limits in force decide no target, a pod's own limit only whether the
\* target is worth a patch, and a limit that is the target is left alone.
THEOREM LimitsDecideNoTarget ==
    ASSUME NEW a \in Nat, NEW ps, Booking(ps), NEW c \in PolicyConfig,
           NEW l \in [DOMAIN ps -> Nat], NEW k \in DOMAIN ps, ps[k].managed
    PROVE  LET before == Compute(a, ps, c)
               after == Compute(a, [j \in DOMAIN ps |-> [ps[j] EXCEPT !.limit = l[j]]], c)
           IN  /\ before[k] \in [target: Nat, apply: BOOLEAN]
               /\ after[k].target = before[k].target
               /\ l[k] = ps[k].limit => after[k].apply = before[k].apply
               /\ before[k].target >= ps[k].request
               /\ ps[k].limit = before[k].target => ~before[k].apply
  <1> DEFINE qs == [j \in DOMAIN ps |-> [ps[j] EXCEPT !.limit = l[j]]]
             s == Stats(a, ps)
  <1>0. k \in DOMAIN Compute(a, ps, c)
    BY DEF Compute
  <1>1. /\ DOMAIN qs = DOMAIN ps
        /\ \A j \in DOMAIN ps : qs[j] = [ps[j] EXCEPT !.limit = l[j]]
    OBVIOUS
  <1> HIDE DEF qs
  <1>2. ASSUME NEW j \in DOMAIN ps PROVE Row(qs[j]) /\ Alike(ps[j], qs[j]) /\ qs[j].limit = l[j]
    BY <1>1, TakesLimit DEF Booking
  <1>3. Stats(a, qs) = s
    BY <1>1, <1>2, StatsAlike
  <1>4. qs[k].managed /\ k \in DOMAIN Compute(a, qs, c)
    <2>1. qs[k].managed
      BY <1>1 DEF Booking, PodInput
    <2> QED  BY <1>1, <2>1 DEF Compute
  <1>5. Compute(a, ps, c)[k] = Decide(ps[k], s, c) /\ Compute(a, qs, c)[k] = Decide(qs[k], s, c)
    <2>1. Compute(a, ps, c)[k] = Decide(ps[k], s, c)
      BY <1>0, ComputeDecides
    <2>2. Compute(a, qs, c)[k] = Decide(qs[k], Stats(a, qs), c)
      BY <1>4, ComputeDecides
    <2> QED  BY <1>3, <2>1, <2>2
  <1>6. /\ Decide(qs[k], s, c).target = Decide(ps[k], s, c).target
        /\ Decide(ps[k], s, c).apply <=> Applies(Decide(ps[k], s, c).target, ps[k].limit, c)
        /\ Decide(qs[k], s, c).apply <=> Applies(Decide(qs[k], s, c).target, qs[k].limit, c)
    BY <1>2, TargetAlike
  <1>7. /\ Compute(a, ps, c)[k] \in [target: Nat, apply: BOOLEAN]
        /\ Compute(a, ps, c)[k].target >= ps[k].request
    BY <1>0, ComputeBounded DEF WithinBounds
  <1> HIDE DEF s
  <1>8. Decide(qs[k], s, c).apply \in BOOLEAN /\ Decide(ps[k], s, c).apply \in BOOLEAN
    BY DEF Decide, Applies
  <1>9. ASSUME l[k] = ps[k].limit
        PROVE  Decide(qs[k], s, c).apply = Decide(ps[k], s, c).apply
    <2>1. qs[k].limit = ps[k].limit
      BY <1>2, <1>9
    <2>2. Decide(qs[k], s, c).apply <=> Decide(ps[k], s, c).apply
      BY <1>6, <2>1
    <2> QED  BY <1>8, <2>2
  <1>10. ps[k].limit = Decide(ps[k], s, c).target => ~Decide(ps[k], s, c).apply
    BY <1>6 DEF Applies
  <1> QED  BY <1>5, <1>6, <1>7, <1>9, <1>10 DEF qs
=============================================================================
