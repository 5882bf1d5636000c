-------------------------- MODULE PodLimitsProofs --------------------------
(***************************************************************************)
(* One pod's limits, for any pods, LimitRanges, HeadroomConfigs,           *)
(* autoscalers and bookings of ShapeAssumption.                            *)
(*                                                                         *)
(*   PodLimitsTyped    TypeOK                                              *)
(*   PatchesSettle     AppliedPatchSettles                                 *)
(*   PatchesValid      PatchIsValid                                        *)
(*   SeedsAreManaged   SeededIsManaged                                     *)
(*   OnlyOneWriter     OneWriter                                           *)
(*   RefusalsMeanNoRoom   RefusedOnlyWithoutRoom, for pods that start no   *)
(*                        sidecar before an init container                 *)
(*   SplitIsProportional  splitLimit adds up to its target, each part      *)
(*                        within one milli-core of its exact share         *)
(*                                                                         *)
(* They follow from PodInv: a fresh patch carries the target a pass would  *)
(* compute now, for a pod that passes every gate and whose limits cover    *)
(* its requests; and a seeded pod passes every gate.  The lemmas before it *)
(* are about the containers (a split adds up to its target and covers each *)
(* request; a patch leaves all but limits alone; the LimitRange cap looks  *)
(* at no limit that a patch changes), the policy's input, admission and    *)
(* the autoscalers.                                                        *)
(***************************************************************************)
EXTENDS PodLimits, PolicyProofs, SequenceTheorems

-----------------------------------------------------------------------------
(* Containers.                                                               *)

\* The least and the greatest of finitely many numbers are among them.
LEMMA Extremes ==
    ASSUME NEW S, IsFiniteSet(S), S # {}, S \subseteq Int
    PROVE  /\ Min(S) \in S /\ \A y \in S : Min(S) <= y
           /\ Max(S) \in S /\ \A y \in S : y <= Max(S)
  <1> DEFINE B == {T \in SUBSET S : T # {} =>
                     /\ \E x \in T : \A y \in T : x <= y
                     /\ \E x \in T : \A y \in T : x >= y}
  <1>1. {} \in B
    OBVIOUS
  <1>2. ASSUME NEW T \in SUBSET S, NEW x \in T, T \ {x} \in B PROVE T \in B
    <2>1. CASE T \ {x} = {}
      <3>1. T = {x} /\ x \in Int
        BY <2>1
      <3>2. x <= x /\ x >= x
        BY <3>1
      <3> QED  BY <3>1, <3>2
    <2>2. CASE T \ {x} # {}
      <3>1. PICK a \in T \ {x} : \A y \in T \ {x} : a <= y
        BY <1>2, <2>2
      <3>2. PICK b \in T \ {x} : \A y \in T \ {x} : b >= y
        BY <1>2, <2>2
      <3>3. \A y \in T : y \in Int
        OBVIOUS
      <3>4. \E m \in T : \A y \in T : m <= y
        <4>1. CASE a <= x
          <5>1. \A y \in T : a <= y
            BY <3>1, <4>1
          <5> QED  BY <5>1
        <4>2. CASE ~(a <= x)
          <5>1. \A y \in T : x <= y
            BY <3>1, <3>3, <4>2
          <5> QED  BY <5>1
        <4> QED  BY <4>1, <4>2
      <3>5. \E m \in T : \A y \in T : m >= y
        <4>1. CASE b >= x
          <5>1. \A y \in T : b >= y
            BY <3>2, <4>1
          <5> QED  BY <5>1
        <4>2. CASE ~(b >= x)
          <5>1. \A y \in T : x >= y
            BY <3>2, <3>3, <4>2
          <5> QED  BY <5>1
        <4> QED  BY <4>1, <4>2
      <3> QED  BY <3>4, <3>5
    <2> QED  BY <2>1, <2>2
  <1>3. B \in SUBSET (SUBSET S)
    OBVIOUS
  <1>4. B = SUBSET S
    <2> HIDE DEF B
    <2> QED  BY <1>1, <1>2, <1>3, ElementInduction
  <1>5. /\ \E x \in S : \A y \in S : x <= y
        /\ \E x \in S : \A y \in S : x >= y
    BY <1>4
  <1>6. Min(S) \in S /\ \A y \in S : Min(S) <= y
    BY <1>5 DEF Min
  <1>7. Max(S) \in S /\ \A y \in S : Max(S) >= y
    BY <1>5 DEF Max
  <1> QED  BY <1>6, <1>7

\* The containers of a pod.
Whole(cs) == \E n \in Nat : cs \in [1..n -> Container]

LEMMA WholeFacts ==
    ASSUME NEW cs, Whole(cs)
    PROVE  /\ IsFiniteSet(DOMAIN cs) /\ DOMAIN cs = 1..Cardinality(DOMAIN cs)
           /\ IsFiniteSet(ResizableContainers(cs)) /\ IsFiniteSet(Bursting(cs))
           /\ Bursting(cs) \subseteq ResizableContainers(cs)
           /\ ResizableContainers(cs) \subseteq DOMAIN cs
           /\ \A i \in DOMAIN cs : i \in Nat /\ i # 0 /\ cs[i] \in Container
           /\ \A i \in DOMAIN cs : cs[i].request \in Nat /\ cs[i].limit \in Nat
  <1>1. PICK n \in Nat : cs \in [1..n -> Container]
    BY DEF Whole
  <1>2. IsFiniteSet(1..n) /\ Cardinality(1..n) = n
    BY FS_Interval
  <1>3. DOMAIN cs = 1..n
    BY <1>1
  <1>4. /\ Bursting(cs) \subseteq ResizableContainers(cs)
        /\ ResizableContainers(cs) \subseteq DOMAIN cs
    BY DEF Bursting, ResizableContainers
  <1>5. IsFiniteSet(ResizableContainers(cs)) /\ IsFiniteSet(Bursting(cs))
    BY <1>2, <1>3, <1>4, FS_Subset
  <1>6. \A i \in DOMAIN cs : cs[i] \in Container
    BY <1>1
  <1>7. \A i \in DOMAIN cs : cs[i].request \in Nat /\ cs[i].limit \in Nat
    BY <1>6 DEF Container
  <1> QED  BY <1>2, <1>3, <1>4, <1>5, <1>6, <1>7

\* The request of a pod is that of the containers that burst, each at most it.
LEMMA RequestSum ==
    ASSUME NEW cs, Whole(cs)
    PROVE  /\ PodCPURequestMilli(cs) \in Nat
           /\ \A i \in ResizableContainers(cs) : cs[i].request <= PodCPURequestMilli(cs)
           /\ PodCPURequestMilli(cs) = SumFunction([i \in Bursting(cs) |-> cs[i].request])
           /\ PodCPURequestMilli(cs) > 0 <=> Bursting(cs) # {}
  <1> DEFINE R == ResizableContainers(cs)
             K == Bursting(cs)
             f == [i \in R |-> cs[i].request]
             g == [i \in K |-> cs[i].request]
  <1>1. /\ IsFiniteSet(R) /\ IsFiniteSet(K) /\ K \in SUBSET R
        /\ \A i \in R : f[i] \in Nat /\ f[i] = cs[i].request
        /\ \A i \in K : g[i] = f[i] /\ f[i] > 0
        /\ \A i \in R \ K : f[i] = 0
        /\ DOMAIN f = R /\ DOMAIN g = K
    <2>1. /\ IsFiniteSet(R) /\ IsFiniteSet(K) /\ K \in SUBSET R
          /\ \A i \in R : cs[i].request \in Nat
      BY WholeFacts
    <2>2. /\ \A i \in K : cs[i].request > 0
          /\ \A i \in R \ K : ~(cs[i].request > 0)
      BY DEF Bursting
    <2> HIDE DEF R, K
    <2>3. \A i \in R \ K : cs[i].request = 0
      BY <2>1, <2>2
    <2> QED  BY <2>1, <2>2, <2>3
  <1>2. PodCPURequestMilli(cs) = SumFunctionOnSet(f, R)
    BY <1>1 DEF PodCPURequestMilli, SumFunction
  <1>3. SumFunction(g) = SumFunctionOnSet(g, K)
    BY <1>1 DEF SumFunction
  <1> HIDE DEF R, K, f, g
  <1>4. SumFunctionOnSet(g, K) = SumFunctionOnSet(f, K)
    <2>1. \A x \in K : f[x] \in Int /\ g[x] = f[x]
      BY <1>1
    <2> QED  BY <1>1, <2>1, SumAgrees
  <1>5. SumFunctionOnSet(f, R) = SumFunctionOnSet(f, K)
    <2>1. \A x \in R : f[x] \in Int
      BY <1>1
    <2> QED  BY <1>1, <2>1, SumOfRest
  <1>6. SumFunctionOnSet(f, R) \in Nat /\ \A x \in R : f[x] <= SumFunctionOnSet(f, R)
    BY <1>1, SumOfNats
  <1>7. K = {} => SumFunctionOnSet(f, K) = 0
    <2>1. \A x \in R : f[x] \in Int
      BY <1>1
    <2> QED  BY <1>1, <2>1, SumLaws
  <1>8. K # {} => SumFunctionOnSet(f, R) > 0
    <2>1. ASSUME NEW x \in K PROVE SumFunctionOnSet(f, R) > 0
      <3>1. f[x] \in Nat /\ f[x] > 0 /\ f[x] <= SumFunctionOnSet(f, R)
        BY <1>1, <1>6
      <3> QED  BY <1>6, <3>1
    <2> QED  BY <2>1
  <1>9. PodCPURequestMilli(cs) = SumFunction(g)
    BY <1>2, <1>3, <1>4, <1>5
  <1>10. PodCPURequestMilli(cs) > 0 <=> K # {}
    BY <1>2, <1>5, <1>6, <1>7, <1>8
  <1>11. \A i \in R : cs[i].request <= PodCPURequestMilli(cs)
    BY <1>1, <1>2, <1>6
  <1> QED  BY <1>2, <1>6, <1>9, <1>10, <1>11 DEF R, K, g
-----------------------------------------------------------------------------
(* splitLimit.                                                               *)

\* A container's share before the leftover covers its request, and of a target that
\* covers all of them is no more than its part.
LEMMA ShareBounds ==
    ASSUME NEW cs, Whole(cs), NEW target \in Nat, NEW i \in Bursting(cs)
    PROVE  /\ BaseShare(target, cs, i) \in Nat
           /\ BaseShare(target, cs, i) >= cs[i].request
           /\ target >= PodCPURequestMilli(cs) =>
                 PodCPURequestMilli(cs) * BaseShare(target, cs, i) <= target * cs[i].request
  <1> DEFINE R == PodCPURequestMilli(cs)
             r == cs[i].request
             floor == (target * r) \div R
  <1>1. R \in Nat \ {0} /\ r \in Nat
    <2>1. R \in Nat /\ (R > 0 <=> Bursting(cs) # {})
      BY RequestSum
    <2>2. i \in DOMAIN cs
      BY DEF Bursting, ResizableContainers
    <2>3. r \in Nat
      BY <2>2, WholeFacts
    <2> HIDE DEF R, r
    <2> QED  BY <2>1, <2>3
  <1>2. BaseShare(target, cs, i) = Greatest(floor, r)
    BY DEF BaseShare
  <1> HIDE DEF R, r
  <1>3. target * r \in Nat
    BY <1>1
  <1>4. floor \in Nat /\ floor * R <= target * r
    BY <1>1, <1>3, Division
  <1>5. target >= R => r <= floor
    <2> SUFFICES ASSUME target >= R PROVE r <= floor
      OBVIOUS
    <2>1. R * r <= target * r
      BY <1>1, TimesMonotone
    <2>2. r * R <= target * r
      BY <1>1, <2>1
    <2> QED  BY <1>1, <1>3, <2>2, DivisionGreatest
  <1>6. R * floor = floor * R
    BY <1>1, <1>4
  <1> HIDE DEF floor
  <1>7. Greatest(floor, r) \in Nat /\ Greatest(floor, r) >= r
        /\ (target >= R => Greatest(floor, r) = floor)
    BY <1>1, <1>4, <1>5 DEF Greatest
  <1>8. target >= R => R * Greatest(floor, r) <= target * r
    BY <1>4, <1>6, <1>7
  <1> QED  BY <1>2, <1>7, <1>8 DEF R, r

\* The parts of a split.
LEMMA SplitParts ==
    ASSUME NEW cs, Whole(cs), NEW target \in Nat, NEW parts \in Splits(target, cs)
    PROVE  /\ DOMAIN parts = Bursting(cs)
           /\ \A i \in Bursting(cs) : parts[i] \in Nat /\ parts[i] >= cs[i].request
  <1>1. PICK W \in LeftoverSets(target, cs) :
           parts = [i \in Bursting(cs) |-> BaseShare(target, cs, i) + (IF i \in W THEN 1 ELSE 0)]
    BY DEF Splits
  <1>2. ASSUME NEW i \in Bursting(cs) PROVE parts[i] \in Nat /\ parts[i] >= cs[i].request
    <2>1. BaseShare(target, cs, i) \in Nat /\ BaseShare(target, cs, i) >= cs[i].request
      BY ShareBounds
    <2>2. parts[i] = BaseShare(target, cs, i) + (IF i \in W THEN 1 ELSE 0)
      BY <1>1
    <2>3. cs[i].request \in Nat
      BY WholeFacts
    <2> QED  BY <2>1, <2>2, <2>3
  <1> QED  BY <1>1, <1>2

\* The floors of the shares of a target that covers the requests add up to no more
\* than it: what they leave over is handed out, and nothing else is.
LEMMA SplitAddsUp ==
    ASSUME NEW cs, Whole(cs), NEW target \in Nat, target >= PodCPURequestMilli(cs),
           NEW parts \in Splits(target, cs)
    PROVE  SumFunction(parts) = target \/ Bursting(cs) = {}
  <1> SUFFICES ASSUME Bursting(cs) # {} PROVE SumFunction(parts) = target
    OBVIOUS
  <1> DEFINE K == Bursting(cs)
             R == PodCPURequestMilli(cs)
             base == [i \in K |-> BaseShare(target, cs, i)]
             requests == [i \in K |-> cs[i].request]
  <1>1. PICK W \in LeftoverSets(target, cs) :
           parts = [i \in K |-> BaseShare(target, cs, i) + (IF i \in W THEN 1 ELSE 0)]
    BY DEF Splits
  <1> DEFINE ones == [i \in K |-> IF i \in W THEN 1 ELSE 0]
             scaled == [i \in K |-> R * base[i]]
             loads == [i \in K |-> target * requests[i]]
  <1>2. IsFiniteSet(K) /\ R \in Nat \ {0} /\ R = SumFunctionOnSet(requests, K)
    <2>1. DOMAIN requests = K
      OBVIOUS
    <2> QED  BY <2>1, WholeFacts, RequestSum DEF SumFunction
  <1>3. \A i \in K : /\ base[i] \in Nat /\ requests[i] \in Nat
                     /\ scaled[i] = R * base[i] /\ loads[i] = target * requests[i]
                     /\ R * base[i] <= target * requests[i]
                     /\ ones[i] = (IF i \in W THEN 1 ELSE 0)
                     /\ parts[i] = base[i] + ones[i]
    <2>1. ASSUME NEW i \in K
          PROVE  /\ base[i] \in Nat /\ requests[i] \in Nat
                 /\ R * base[i] <= target * requests[i]
      BY ShareBounds, WholeFacts
    <2> QED  BY <1>1, <2>1
  <1>4. /\ W \in SUBSET K
        /\ Cardinality(W) = Greatest(target - SumFunctionOnSet(base, K), 0)
    <2>1. DOMAIN base = K
      OBVIOUS
    <2> QED  BY <2>1 DEF LeftoverSets, SumFunction
  <1>5. SumFunction(parts) = SumFunctionOnSet(parts, K)
    BY <1>1 DEF SumFunction
  <1> HIDE DEF K, R, base, requests, ones, scaled, loads
  <1>6. SumFunctionOnSet(base, K) \in Nat
    <2>1. \A x \in K : base[x] \in Nat
      BY <1>3
    <2> QED  BY <1>2, <2>1, SumOfNats
  <1>7. SumFunctionOnSet(parts, K) = SumFunctionOnSet(base, K) + Cardinality(W)
    <2>1. \A x \in K : base[x] \in Int /\ ones[x] \in Int /\ parts[x] = 1 * base[x] + 1 * ones[x]
      BY <1>3
    <2>2. SumFunctionOnSet(parts, K)
             = 1 * SumFunctionOnSet(base, K) + 1 * SumFunctionOnSet(ones, K)
      BY <1>2, <2>1, SumLinear
    <2>3. SumFunctionOnSet(ones, K) = Cardinality(W)
      BY <1>2, <1>3, <1>4, SumCounts
    <2>4. Cardinality(W) \in Int
      <3>1. target - SumFunctionOnSet(base, K) \in Int
        BY <1>6
      <3> QED  BY <1>4, <3>1 DEF Greatest
    <2> QED  BY <1>6, <2>2, <2>3, <2>4
  <1>8. SumFunctionOnSet(base, K) <= target
    <2>1. \A x \in K : scaled[x] \in Int /\ loads[x] \in Int /\ scaled[x] <= loads[x]
      BY <1>2, <1>3
    <2>2. SumFunctionOnSet(scaled, K) <= SumFunctionOnSet(loads, K)
      BY <1>2, <2>1, SumOrdered
    <2>3. SumFunctionOnSet(scaled, K) = R * SumFunctionOnSet(base, K)
      <3>1. \A x \in K : base[x] \in Int /\ scaled[x] = R * base[x] + 0 * base[x]
        BY <1>2, <1>3
      <3>2. SumFunctionOnSet(scaled, K) = R * SumFunctionOnSet(base, K) + 0 * SumFunctionOnSet(base, K)
        BY <1>2, <3>1, SumLinear
      <3> QED  BY <1>2, <1>6, <3>2
    <2>4. SumFunctionOnSet(loads, K) = target * R
      <3>1. \A x \in K : requests[x] \in Int /\ loads[x] = target * requests[x] + 0 * requests[x]
        BY <1>3
      <3>2. SumFunctionOnSet(loads, K)
               = target * SumFunctionOnSet(requests, K) + 0 * SumFunctionOnSet(requests, K)
        <4>1. IsFiniteSet(K) /\ target \in Int /\ 0 \in Int
          BY <1>2
        <4> QED  BY <3>1, <4>1, SumLinear
      <3>3. SumFunctionOnSet(loads, K) = target * R + 0 * R
        BY <1>2, <3>2
      <3> QED  BY <1>2, <3>3
    <2>5. R * SumFunctionOnSet(base, K) <= R * target
      BY <1>2, <1>6, <2>2, <2>3, <2>4
    <2> QED  BY <1>2, <1>6, <2>5, TimesCancel
  <1> QED  BY <1>4, <1>5, <1>6, <1>7, <1>8 DEF Greatest
-----------------------------------------------------------------------------
(* What a patch leaves as it is.                                             *)

\* Containers that differ in their limits only.
SameFrame(cs, ds) ==
    /\ DOMAIN ds = DOMAIN cs
    /\ \A i \in DOMAIN cs :
          /\ ds[i].kind = cs[i].kind /\ ds[i].request = cs[i].request
          /\ ds[i].memory = cs[i].memory /\ ds[i].restartOnResize = cs[i].restartOnResize

LEMMA FrameSums ==
    ASSUME NEW cs, NEW ds, Whole(cs), SameFrame(cs, ds)
    PROVE  /\ ResizableContainers(ds) = ResizableContainers(cs)
           /\ Bursting(ds) = Bursting(cs)
           /\ PodCPURequestMilli(ds) = PodCPURequestMilli(cs)
           /\ PodRequests(ds) = PodRequests(cs)
           /\ HasRestartOnResize(ds) <=> HasRestartOnResize(cs)
  <1>1. ResizableContainers(ds) = ResizableContainers(cs)
    BY DEF ResizableContainers, SameFrame
  <1>2. Bursting(ds) = Bursting(cs)
    BY <1>1 DEF Bursting, SameFrame, ResizableContainers
  <1>3. ASSUME NEW S \in SUBSET DOMAIN cs
        PROVE  [i \in S |-> ds[i].request] = [i \in S |-> cs[i].request]
    BY DEF SameFrame
  <1>4. PodCPURequestMilli(ds) = PodCPURequestMilli(cs)
    BY <1>1, <1>3 DEF PodCPURequestMilli, ResizableContainers
  <1>5. PodRequests(ds) = PodRequests(cs)
    <2> DEFINE before(i) == {j \in 1..(i - 1) : cs[j].kind = "sidecar"}
               peak(i) == cs[i]["request"] + SumFunction([j \in before(i) |-> cs[j]["request"]])
               inits == {j \in DOMAIN cs : cs[j].kind = "init"}
               Before(i) == {j \in 1..(i - 1) : ds[j].kind = "sidecar"}
               Peak(i) == ds[i]["request"] + SumFunction([j \in Before(i) |-> ds[j]["request"]])
               Inits == {j \in DOMAIN ds : ds[j].kind = "init"}
    <2>1. Inits = inits
      BY DEF SameFrame
    <2>2. ASSUME NEW i \in DOMAIN cs PROVE Peak(i) = peak(i)
      <3>1. 1..(i - 1) \subseteq DOMAIN cs
        <4>1. PICK n \in Nat : DOMAIN cs = 1..n
          BY DEF Whole
        <4> QED  BY <4>1
      <3>2. Before(i) = before(i) /\ before(i) \in SUBSET DOMAIN cs
        BY <3>1 DEF SameFrame
      <3>3. [j \in Before(i) |-> ds[j]["request"]] = [j \in before(i) |-> cs[j]["request"]]
        BY <3>2 DEF SameFrame
      <3>4. ds[i]["request"] = cs[i]["request"]
        BY DEF SameFrame
      <3> QED  BY <3>3, <3>4
    <2>3. {Peak(i) : i \in Inits} = {peak(i) : i \in inits}
      <3>1. \A i \in inits : Peak(i) = peak(i)
        BY <2>2
      <3> HIDE DEF Peak, peak
      <3> QED  BY <2>1, <3>1
    <2>4. [i \in ResizableContainers(ds) |-> ds[i]["request"]]
             = [i \in ResizableContainers(cs) |-> cs[i]["request"]]
      BY <1>1 DEF SameFrame, ResizableContainers
    <2>5. PodRequests(cs) = Max({SumFunction([i \in ResizableContainers(cs) |-> cs[i]["request"]])}
                                \cup {peak(i) : i \in inits})
      BY DEF PodRequests, PodTotal
    <2>6. PodRequests(ds) = Max({SumFunction([i \in ResizableContainers(ds) |-> ds[i]["request"]])}
                                \cup {Peak(i) : i \in Inits})
      BY DEF PodRequests, PodTotal
    <2> HIDE DEF Peak, peak, Inits, inits
    <2> QED  BY <2>3, <2>4, <2>5, <2>6
  <1>6. HasRestartOnResize(ds) <=> HasRestartOnResize(cs)
    BY <1>1 DEF HasRestartOnResize, SameFrame, ResizableContainers
  <1> QED  BY <1>1, <1>2, <1>4, <1>5, <1>6

\* The LimitRange cap and the QoS rule do not look at the limits a split sets.
LEMMA FrameCaps ==
    ASSUME NEW cs, NEW ds, Whole(cs), SameFrame(cs, ds),
           \A i \in DOMAIN cs \ Bursting(cs) : ds[i].limit = cs[i].limit, NEW items
    PROVE  /\ LimitRangeCapMilli(ds, items) = LimitRangeCapMilli(cs, items)
           /\ GuaranteedAtRequest(ds) <=> GuaranteedAtRequest(cs)
  <1>1. /\ ResizableContainers(ds) = ResizableContainers(cs)
        /\ Bursting(ds) = Bursting(cs)
        /\ PodCPURequestMilli(ds) = PodCPURequestMilli(cs)
        /\ PodRequests(ds) = PodRequests(cs)
    BY FrameSums
  <1>2. Untouched(ds) = Untouched(cs)
    <2>1. [i \in ResizableContainers(ds) \ Bursting(ds) |-> ds[i].limit]
             = [i \in ResizableContainers(cs) \ Bursting(cs) |-> cs[i].limit]
      BY <1>1 DEF ResizableContainers
    <2> QED  BY <2>1 DEF Untouched
  <1>3. \A i \in Bursting(cs) : ds[i].request = cs[i].request
    BY DEF SameFrame, Bursting, ResizableContainers
  <1>4. {ds[i].request : i \in Bursting(ds)} = {cs[i].request : i \in Bursting(cs)}
    BY <1>1, <1>3
  <1>5. ASSUME NEW ratio PROVE ContainerRatioCaps(ds, ratio) = ContainerRatioCaps(cs, ratio)
    <2> DEFINE cap(r) == (RatioLimitMilli(ratio, r) * PodCPURequestMilli(cs)) \div r
    <2>1. ContainerRatioCaps(ds, ratio) = {cap(ds[i].request) : i \in Bursting(cs)}
      BY <1>1 DEF ContainerRatioCaps
    <2>2. ContainerRatioCaps(cs, ratio) = {cap(cs[i].request) : i \in Bursting(cs)}
      BY DEF ContainerRatioCaps
    <2> HIDE DEF cap
    <2>3. {cap(ds[i].request) : i \in Bursting(cs)} = {cap(cs[i].request) : i \in Bursting(cs)}
      BY <1>3
    <2> QED  BY <2>1, <2>2, <2>3
  <1>6. ASSUME NEW item PROVE ItemCaps(ds, item) = ItemCaps(cs, item)
    BY <1>1, <1>2, <1>4, <1>5 DEF ItemCaps
  <1>7. {ItemCaps(ds, item) : item \in items} = {ItemCaps(cs, item) : item \in items}
    BY <1>6
  <1>8. LimitRangeCapMilli(ds, items) = LimitRangeCapMilli(cs, items)
    BY <1>1, <1>7 DEF LimitRangeCapMilli
  <1>9. GuaranteedAtRequest(ds) <=> GuaranteedAtRequest(cs)
    <2>1. \A i \in DOMAIN cs : cs[i].kind = "init" => ds[i].limit = cs[i].limit
      BY DEF Bursting, ResizableContainers
    <2> QED  BY <2>1 DEF GuaranteedAtRequest, SameFrame
  <1> QED  BY <1>8, <1>9

\* A patch changes limits only, those of the containers it names.
LEMMA PatchFrame ==
    ASSUME NEW cs, Whole(cs), NEW parts, \A i \in DOMAIN parts : parts[i] \in Nat
    PROVE  /\ Whole(Patched(cs, parts)) /\ SameFrame(cs, Patched(cs, parts))
           /\ \A i \in DOMAIN cs :
                 Patched(cs, parts)[i].limit = IF i \in DOMAIN parts THEN parts[i] ELSE cs[i].limit
  <1> DEFINE ds == Patched(cs, parts)
  <1>1. PICK n \in Nat : cs \in [1..n -> Container]
    BY DEF Whole
  <1>2. DOMAIN ds = 1..n /\ DOMAIN cs = 1..n
    BY <1>1 DEF Patched
  <1>3. ASSUME NEW i \in 1..n
        PROVE  /\ ds[i] \in Container
               /\ ds[i].kind = cs[i].kind /\ ds[i].request = cs[i].request
               /\ ds[i].memory = cs[i].memory /\ ds[i].restartOnResize = cs[i].restartOnResize
               /\ ds[i].limit = IF i \in DOMAIN parts THEN parts[i] ELSE cs[i].limit
    <2>1. ds[i] = IF i \in DOMAIN parts THEN [cs[i] EXCEPT !.limit = parts[i]] ELSE cs[i]
      BY <1>2 DEF Patched
    <2>2. cs[i] \in Container
      BY <1>1
    <2> HIDE DEF ds
    <2>3. CASE i \in DOMAIN parts
      <3>1. parts[i] \in Nat /\ ds[i] = [cs[i] EXCEPT !.limit = parts[i]]
        BY <2>1, <2>3
      <3> QED  BY <2>2, <2>3, <3>1 DEF Container
    <2>4. CASE i \notin DOMAIN parts
      BY <2>1, <2>2, <2>4
    <2> QED  BY <2>3, <2>4
  <1>4. ds \in [1..n -> Container]
    <2>1. ds = [i \in 1..n |-> ds[i]]
      BY <1>2 DEF Patched
    <2> HIDE DEF ds
    <2> QED  BY <1>2, <1>3, <2>1
  <1> HIDE DEF ds
  <1>5. Whole(ds) /\ SameFrame(cs, ds)
    BY <1>2, <1>3, <1>4 DEF Whole, SameFrame
  <1> QED  BY <1>2, <1>3, <1>5 DEF ds
-----------------------------------------------------------------------------
(* The input of the policy.                                                  *)

\* Small sets, unions and images are finite.
LEMMA FiniteParts ==
    /\ IsFiniteSet({})
    /\ \A x : IsFiniteSet({x})
    /\ \A S, T : IsFiniteSet(S) /\ IsFiniteSet(T) => IsFiniteSet(S \cup T)
  <1>1. \A x : IsFiniteSet({x})
    BY FS_Singleton, Zenon
  <1>2. ASSUME NEW S, NEW T, IsFiniteSet(S), IsFiniteSet(T) PROVE IsFiniteSet(S \cup T)
    BY <1>2, FS_Union
  <1>3. IsFiniteSet({})
    BY FS_EmptySet
  <1> QED  BY <1>1, <1>2, <1>3, Zenon

LEMMA FiniteImage ==
    ASSUME NEW S, IsFiniteSet(S), NEW f
    PROVE  IsFiniteSet({f[x] : x \in S})
  <1> DEFINE T == {f[x] : x \in S}
             g == [x \in S |-> f[x]]
  <1>1. g \in Surjection(S, T)
    BY DEF Surjection
  <1> HIDE DEF g, T
  <1>2. IsFiniteSet(T)
    BY <1>1, FS_Surjection
  <1> QED  BY <1>2 DEF T

\* The peak of a pod is a natural number.
LEMMA RequestsTyped ==
    ASSUME NEW cs, Whole(cs)
    PROVE  PodRequests(cs) \in Nat
  <1> DEFINE total(S) == SumFunction([i \in S |-> cs[i]["request"]])
             before(i) == {j \in 1..(i - 1) : cs[j].kind = "sidecar"}
             peak(i) == cs[i]["request"] + total(before(i))
             inits == {j \in DOMAIN cs : cs[j].kind = "init"}
             all == {total(ResizableContainers(cs))} \cup {peak(i) : i \in inits}
  <1>1. ASSUME NEW S \in SUBSET DOMAIN cs PROVE total(S) \in Nat
    <2> DEFINE f == [i \in S |-> cs[i]["request"]]
    <2>1. IsFiniteSet(S) /\ \A i \in S : f[i] \in Nat
      <3>1. \A i \in S : f[i] = cs[i].request /\ i \in DOMAIN cs
        OBVIOUS
      <3> HIDE DEF f
      <3> QED  BY <3>1, WholeFacts, FS_Subset
    <2>2. DOMAIN f = S /\ S \in SUBSET S
      OBVIOUS
    <2> HIDE DEF f
    <2>3. SumFunction(f) \in Nat
      BY <2>1, <2>2, SumOfNats DEF SumFunction
    <2> QED  BY <2>3 DEF f
  <1>2. ASSUME NEW i \in inits PROVE peak(i) \in Nat
    <2>1. 1..(i - 1) \subseteq DOMAIN cs
      <3>1. PICK n \in Nat : DOMAIN cs = 1..n
        BY DEF Whole
      <3> QED  BY <3>1
    <2>2. total(before(i)) \in Nat
      <3>1. before(i) \in SUBSET DOMAIN cs
        BY <2>1
      <3> HIDE DEF total, before
      <3> QED  BY <1>1, <3>1
    <2>3. cs[i]["request"] \in Nat
      BY WholeFacts
    <2> HIDE DEF total
    <2> QED  BY <2>2, <2>3
  <1>3. total(ResizableContainers(cs)) \in Nat
    <2>1. ResizableContainers(cs) \in SUBSET DOMAIN cs
      BY DEF ResizableContainers
    <2> HIDE DEF total
    <2> QED  BY <1>1, <2>1
  <1>4. PodRequests(cs) = Max(all)
    BY DEF PodRequests, PodTotal
  <1>5. IsFiniteSet(inits)
    <2>1. inits \subseteq DOMAIN cs
      OBVIOUS
    <2> HIDE DEF inits
    <2> QED  BY <2>1, WholeFacts, FS_Subset
  <1> HIDE DEF total, peak, inits
  <1>6. IsFiniteSet({peak(i) : i \in inits})
    <2> DEFINE f == [i \in inits |-> peak(i)]
    <2>1. {peak(i) : i \in inits} = {f[i] : i \in inits}
      OBVIOUS
    <2> HIDE DEF f
    <2> QED  BY <1>5, <2>1, FiniteImage
  <1>7. IsFiniteSet(all) /\ all # {} /\ all \subseteq Nat
    <2>1. IsFiniteSet(all)
      BY <1>6, FiniteParts
    <2> QED  BY <1>2, <1>3, <2>1
  <1> HIDE DEF all
  <1>8. Max(all) \in all
    <2>1. all \subseteq Int
      BY <1>7
    <2> QED  BY <1>7, <2>1, Extremes
  <1> QED  BY <1>4, <1>7, <1>8

\* One item restates its rules as finitely many numbers.
LEMMA ItemCapsTyped ==
    ASSUME NEW cs, Whole(cs), Bursting(cs) # {}, NEW item \in RangeItem
    PROVE  IsFiniteSet(ItemCaps(cs, item)) /\ ItemCaps(cs, item) \subseteq Int
  <1> DEFINE largest == Max({cs[i].request : i \in Bursting(cs)})
             R == PodCPURequestMilli(cs)
             cap(i) == (RatioLimitMilli(item.ratio, cs[i].request) * R) \div cs[i].request
  <1>1. item.max \in Nat /\ item.ratio \in Nat
    BY DEF RangeItem
  <1>2. R \in Nat /\ PodRequests(cs) \in Nat
    BY RequestSum, RequestsTyped
  <1>3. IsFiniteSet(Bursting(cs)) /\ \A i \in Bursting(cs) : cs[i].request \in Nat \ {0}
    <2>1. \A i \in Bursting(cs) : cs[i].request \in Nat /\ cs[i].request > 0
      BY WholeFacts DEF Bursting
    <2> QED  BY <2>1, WholeFacts
  <1>4. largest \in Nat \ {0}
    <2> DEFINE rs == {cs[i].request : i \in Bursting(cs)}
    <2>1. IsFiniteSet(rs)
      <3> DEFINE f == [i \in Bursting(cs) |-> cs[i].request]
      <3>1. rs = {f[i] : i \in Bursting(cs)}
        OBVIOUS
      <3> HIDE DEF f, rs
      <3> QED  BY <1>3, <3>1, FiniteImage
    <2>2. rs # {} /\ rs \subseteq Nat \ {0}
      BY <1>3
    <2> HIDE DEF rs
    <2>3. rs \subseteq Int
      BY <2>2
    <2>4. Max(rs) \in rs
      BY <2>1, <2>2, <2>3, Extremes
    <2> QED  BY <2>2, <2>4 DEF rs
  <1>5. \A r \in Nat : RatioLimitMilli(item.ratio, r) \in Int
    <2> SUFFICES ASSUME NEW r \in Nat PROVE RatioLimitMilli(item.ratio, r) \in Int
      OBVIOUS
    <2>1. (item.ratio * r) \div 1000 \in Int
      BY <1>1
    <2> QED  BY <2>1 DEF RatioLimitMilli
  <1>6. Untouched(cs) \in Int
    <2> DEFINE S == ResizableContainers(cs) \ Bursting(cs)
               f == [i \in S |-> cs[i].limit]
    <2>1. IsFiniteSet(S) /\ \A i \in S : cs[i].limit \in Nat
      BY WholeFacts, FS_Subset
    <2>2. DOMAIN f = S /\ \A i \in S : f[i] \in Int
      BY <2>1
    <2>3. Untouched(cs) = SumFunctionOnSet(f, S)
      BY <2>2 DEF Untouched, SumFunction
    <2> HIDE DEF f, S
    <2> QED  BY <2>1, <2>2, <2>3, SumLaws
  <1>7. (item.max * R) \div largest \in Int
    BY <1>1, <1>2, <1>4
  <1>8. \A i \in Bursting(cs) : cap(i) \in Int
    <2> SUFFICES ASSUME NEW i \in Bursting(cs) PROVE cap(i) \in Int
      OBVIOUS
    <2> DEFINE m == RatioLimitMilli(item.ratio, cs[i].request)
               r == cs[i].request
    <2>1. m \in Int /\ r \in Nat \ {0}
      BY <1>3, <1>5
    <2> HIDE DEF m, r
    <2>2. m * R \in Int
      BY <1>2, <2>1
    <2>3. (m * R) \div r \in Int
      BY <2>1, <2>2
    <2> QED  BY <2>3 DEF m, r
  <1>9. ContainerRatioCaps(cs, item.ratio) = {cap(i) : i \in Bursting(cs)}
    BY DEF ContainerRatioCaps
  <1> HIDE DEF cap
  <1>10. IsFiniteSet(ContainerRatioCaps(cs, item.ratio))
    <2> DEFINE f == [i \in Bursting(cs) |-> cap(i)]
    <2>1. ContainerRatioCaps(cs, item.ratio) = {f[i] : i \in Bursting(cs)}
      BY <1>9
    <2> HIDE DEF f
    <2> QED  BY <1>3, <2>1, FiniteImage
  <1>11. ContainerRatioCaps(cs, item.ratio) \subseteq Int
    BY <1>8, <1>9
  <1>12. item.max - Untouched(cs) \in Int
         /\ RatioLimitMilli(item.ratio, PodRequests(cs)) - Untouched(cs) \in Int
    BY <1>1, <1>2, <1>5, <1>6
  <1>13. PICK A, B : /\ ItemCaps(cs, item) = A \cup B
                     /\ \/ A = {} \/ \E x \in Int : A = {x}
                     /\ \/ B = {} \/ B = ContainerRatioCaps(cs, item.ratio)
                        \/ \E x \in Int : B = {x}
    <2>1. CASE item.type = "Container"
      <3> DEFINE A == IF item.max > 0 THEN {(item.max * R) \div largest} ELSE {}
                 B == IF item.ratio > 0 THEN ContainerRatioCaps(cs, item.ratio) ELSE {}
      <3>1. ItemCaps(cs, item) = A \cup B
        BY <2>1 DEF ItemCaps
      <3>2. A = {} \/ \E x \in Int : A = {x}
        BY <1>7
      <3>3. B = {} \/ B = ContainerRatioCaps(cs, item.ratio)
        OBVIOUS
      <3> HIDE DEF A, B
      <3> QED  BY <3>1, <3>2, <3>3
    <2>2. CASE item.type # "Container"
      <3> DEFINE A == IF item.max > 0 THEN {item.max - Untouched(cs)} ELSE {}
                 B == IF item.ratio > 0
                      THEN {RatioLimitMilli(item.ratio, PodRequests(cs)) - Untouched(cs)} ELSE {}
      <3>1. ItemCaps(cs, item) = A \cup B
        BY <2>2 DEF ItemCaps
      <3>2. A = {} \/ \E x \in Int : A = {x}
        BY <1>12
      <3>3. B = {} \/ \E x \in Int : B = {x}
        BY <1>12
      <3> HIDE DEF A, B
      <3> QED  BY <3>1, <3>2, <3>3
    <2> QED  BY <2>1, <2>2
  <1>14. IsFiniteSet(A) /\ A \subseteq Int
    BY <1>13, FiniteParts
  <1>15. IsFiniteSet(B) /\ B \subseteq Int
    BY <1>10, <1>11, <1>13, FiniteParts
  <1>16. IsFiniteSet(A \cup B)
    BY <1>14, <1>15, FiniteParts
  <1> QED  BY <1>13, <1>14, <1>15, <1>16

\* The cap is a natural number.
LEMMA RangeCapTyped ==
    ASSUME NEW cs, Whole(cs), NEW items, IsFiniteSet(items), items \subseteq RangeItem
    PROVE  LimitRangeCapMilli(cs, items) \in Nat
  <1> DEFINE sets == {ItemCaps(cs, item) : item \in items}
             caps == UNION sets
  <1>1. CASE Bursting(cs) = {} \/ caps = {}
    BY <1>1 DEF LimitRangeCapMilli
  <1>2. CASE Bursting(cs) # {} /\ caps # {}
    <2>1. \A T \in sets : IsFiniteSet(T) /\ T \subseteq Int
      BY <1>2, ItemCapsTyped
    <2>2. IsFiniteSet(sets)
      <3> DEFINE f == [item \in items |-> ItemCaps(cs, item)]
      <3>1. sets = {f[item] : item \in items}
        OBVIOUS
      <3> HIDE DEF f, sets
      <3> QED  BY <3>1, FiniteImage
    <2>3. LimitRangeCapMilli(cs, items) = Max({Min(caps), 1})
      BY <1>2 DEF LimitRangeCapMilli
    <2> HIDE DEF sets
    <2>4. IsFiniteSet(caps) /\ caps \subseteq Int
      BY <2>1, <2>2, FS_UNION
    <2> HIDE DEF caps
    <2>5. Min(caps) \in Int
      BY <1>2, <2>4, Extremes
    <2> DEFINE two == {Min(caps), 1}
    <2>6. IsFiniteSet(two)
      <3>1. two = {Min(caps)} \cup {1}
        OBVIOUS
      <3> HIDE DEF two
      <3>2. IsFiniteSet({Min(caps)}) /\ IsFiniteSet({1})
        BY FiniteParts
      <3>3. IsFiniteSet({Min(caps)} \cup {1})
        BY <3>2, FiniteParts
      <3> QED  BY <3>1, <3>3
    <2>7. two # {} /\ two \subseteq Int /\ 1 \in two
      BY <2>5
    <2> HIDE DEF two
    <2>8. Max(two) \in two /\ 1 <= Max(two)
      <3>1. Max(two) \in two /\ \A y \in two : y <= Max(two)
        BY <2>6, <2>7, Extremes
      <3> QED  BY <2>7, <3>1
    <2>9. Max(two) \in Nat
      <3>1. Max(two) \in Int
        BY <2>7, <2>8
      <3>2. \A m \in Int : 1 <= m => m \in Nat
        OBVIOUS
      <3> QED  BY <2>8, <3>1, <3>2
    <2> QED  BY <2>3, <2>9 DEF two
  <1> QED  BY <1>1, <1>2
-----------------------------------------------------------------------------
(* The decision for a pod.                                                   *)

LEMMA WholeIsSeq == \A cs : Whole(cs) <=> cs \in Seq(Container)
  BY SeqDef DEF Whole

\* A pod keeps its other fields when its containers change.
LEMMA PodWith ==
    ASSUME NEW p \in Pod, NEW ds, Whole(ds)
    PROVE  LET q == [p EXCEPT !.containers = ds]
           IN  /\ q \in Pod /\ q.containers = ds
               /\ q.owners = p.owners /\ q.topOwner = p.topOwner /\ q.cap = p.cap
               /\ q.optedOut = p.optedOut /\ q.podLevel = p.podLevel
  <1>1. ds \in Seq(Container)
    BY WholeIsSeq
  <1> QED  BY <1>1 DEF Pod

LEMMA PodWhole == ASSUME NEW p \in Pod PROVE Whole(p.containers) /\ p.cap \in Nat
  BY WholeIsSeq DEF Pod

\* The limit in force is a natural number.
LEMMA LimitTyped == ASSUME NEW cs, Whole(cs) PROVE PodCurrentLimitMilli(cs) \in Nat
  <1> DEFINE K == Bursting(cs)
             f == [i \in K |-> cs[i].limit]
  <1>1. IsFiniteSet(K) /\ \A i \in K : cs[i].limit \in Nat
    BY WholeFacts
  <1>2. DOMAIN f = K /\ K \in SUBSET K /\ \A i \in K : f[i] \in Nat
    BY <1>1
  <1>3. PodCurrentLimitMilli(cs) = 0 \/ PodCurrentLimitMilli(cs) = SumFunction(f)
    BY DEF PodCurrentLimitMilli
  <1> HIDE DEF K, f
  <1>4. SumFunction(f) \in Nat
    BY <1>1, <1>2, SumOfNats DEF SumFunction
  <1> QED  BY <1>3, <1>4

\* What DecisionFor gives the policy.
InputsFor(p) ==
    [k \in {"pod", "others"} |->
        IF k = "pod" THEN BuildPodInput(p, cachedRanges) ELSE OthersInput]

LEMMA InputsBooked ==
    ASSUME NEW p \in Pod, PodCPURequestMilli(p.containers) > 0,
           others \in Bookings, cachedRanges \in RangeSets
    PROVE  /\ Booking(InputsFor(p))
           /\ DOMAIN InputsFor(p) = {"pod", "others"}
           /\ InputsFor(p)["pod"] = BuildPodInput(p, cachedRanges)
           /\ InputsFor(p)["others"] = OthersInput
  <1> DEFINE cs == p.containers
             in == BuildPodInput(p, cachedRanges)
  <1>1. Whole(cs) /\ p.cap \in Nat
    BY PodWhole
  <1>2. /\ PodCPURequestMilli(cs) \in Nat /\ PodRequests(cs) \in Nat
        /\ PodCurrentLimitMilli(cs) \in Nat
    BY <1>1, RequestSum, RequestsTyped, LimitTyped
  <1>3. LimitRangeCapMilli(cs, cachedRanges) \in Nat
    BY <1>1, RangeCapTyped, ShapeAssumption
  <1>4. GuaranteedAtRequest(cs) \in BOOLEAN
    BY DEF GuaranteedAtRequest
  <1>5. Row(in)
    <2>1. PodRequests(cs) - PodCPURequestMilli(cs) \in Int
      BY <1>2
    <2>2. in \in PodInput /\ in.request = PodCPURequestMilli(cs)
          /\ in.bookedDelta = PodRequests(cs) - PodCPURequestMilli(cs)
      BY <1>1, <1>2, <1>3, <1>4, <2>1 DEF BuildPodInput, PodInput
    <2> HIDE DEF in
    <2> QED  BY <1>2, <2>2 DEF Row
  <1>6. Row(OthersInput)
    <2>1. others \in Nat
      BY ShapeAssumption
    <2> QED  BY <2>1 DEF OthersInput, Row, PodInput
  <1>7. IsFiniteSet({"pod", "others"})
    <2>1. {"pod", "others"} = {"pod"} \cup {"others"}
      OBVIOUS
    <2>2. IsFiniteSet({"pod"}) /\ IsFiniteSet({"others"})
      BY FiniteParts
    <2>3. IsFiniteSet({"pod"} \cup {"others"})
      BY <2>2, FiniteParts
    <2> QED  BY <2>1, <2>3
  <1>8. /\ DOMAIN InputsFor(p) = {"pod", "others"}
        /\ InputsFor(p)["pod"] = in
        /\ InputsFor(p)["others"] = OthersInput
    BY DEF InputsFor
  <1> HIDE DEF in
  <1>9. \A k \in {"pod", "others"} : Row(InputsFor(p)[k]) /\ InputsFor(p)[k] \in PodInput
    BY <1>5, <1>6, <1>8 DEF Row
  <1>10. InputsFor(p) \in [{"pod", "others"} -> PodInput]
    <2>1. InputsFor(p) = [k \in {"pod", "others"} |-> InputsFor(p)[k]]
      BY DEF InputsFor
    <2> QED  BY <1>9, <2>1
  <1> QED  BY <1>7, <1>8, <1>9, <1>10 DEF Booking, in

\* The target covers the request, and lies above it where a limit equal to the
\* request would make the pod Guaranteed.
LEMMA DecisionBounds ==
    ASSUME NEW p \in Pod, PodCPURequestMilli(p.containers) > 0, settings \in SettingSets,
           others \in Bookings, cachedRanges \in RangeSets
    PROVE  /\ DecisionFor(p) \in [target: Nat, apply: BOOLEAN]
           /\ DecisionFor(p).target >= PodCPURequestMilli(p.containers)
           /\ GuaranteedAtRequest(p.containers) =>
                 DecisionFor(p).target > PodCPURequestMilli(p.containers)
           /\ DecisionFor(p) = Decide(InputsFor(p)["pod"],
                                      Stats(Allocatable, InputsFor(p)), settings.policy)
  <1> DEFINE ps == InputsFor(p)
             c == settings.policy
             R == PodCPURequestMilli(p.containers)
             floor == GuaranteedAtRequest(p.containers)
  <1>1. /\ Booking(ps) /\ DOMAIN ps = {"pod", "others"}
        /\ ps["pod"] = BuildPodInput(p, cachedRanges)
        /\ ps["others"] = OthersInput
    BY InputsBooked
  <1>2. Allocatable \in Nat /\ c \in PolicyConfig
    BY ShapeAssumption
  <1>3. /\ ps["pod"].managed /\ ps["pod"].request = R
        /\ ps["pod"].aboveRequest <=> floor
    BY <1>1 DEF BuildPodInput
  <1>4. DecisionFor(p) = Compute(Allocatable, ps, c)["pod"]
    BY DEF DecisionFor, InputsFor
  <1> HIDE DEF ps, c, R, floor
  <1>5. "pod" \in DOMAIN Compute(Allocatable, ps, c)
    <2>1. DOMAIN Compute(Allocatable, ps, c) = {k \in DOMAIN ps : ps[k].managed}
      BY ComputeDecides
    <2>2. "pod" \in DOMAIN ps /\ ps["pod"].managed
      BY <1>1, <1>3
    <2> QED  BY <2>1, <2>2
  <1>6. /\ Compute(Allocatable, ps, c)["pod"] \in [target: Nat, apply: BOOLEAN]
        /\ WithinBounds(ps["pod"], Compute(Allocatable, ps, c)["pod"].target, Allocatable, c)
    BY <1>1, <1>2, <1>5, ComputeBounded
  <1>7. Compute(Allocatable, ps, c)["pod"] = Decide(ps["pod"], Stats(Allocatable, ps), c)
    BY <1>5, ComputeDecides
  <1> QED  BY <1>3, <1>4, <1>6, <1>7 DEF WithinBounds, ps, c, R, floor
-----------------------------------------------------------------------------
(* A patch of a pod that has not changed since its decision.                 *)

\* The limits of a pod cover its requests, as the apiserver's validation asks.
Covered(cs) == \A i \in DOMAIN cs : cs[i].limit > 0 => cs[i].limit >= cs[i].request

\* A target that covers the requests is what the patched limits are read back as.
LEMMA SplitReadBack ==
    ASSUME NEW cs, Whole(cs), PodCPURequestMilli(cs) > 0,
           NEW target \in Nat, target >= PodCPURequestMilli(cs),
           NEW parts \in Splits(target, cs)
    PROVE  PodCurrentLimitMilli(Patched(cs, parts)) = target
  <1> DEFINE ds == Patched(cs, parts)
             K == Bursting(cs)
  <1>1. /\ DOMAIN parts = K
        /\ \A i \in K : parts[i] \in Nat /\ parts[i] >= cs[i].request
    BY SplitParts
  <1>2. K # {} /\ K \subseteq DOMAIN cs
    BY RequestSum, WholeFacts
  <1>3. \A i \in K : cs[i].request \in Nat /\ cs[i].request > 0
    BY <1>2, WholeFacts DEF Bursting
  <1>4. /\ SameFrame(cs, ds)
        /\ \A i \in DOMAIN cs : ds[i].limit = IF i \in DOMAIN parts THEN parts[i] ELSE cs[i].limit
    BY <1>1, PatchFrame
  <1>5. Bursting(ds) = K
    BY <1>4, FrameSums
  <1>6. SumFunction(parts) = target
    BY <1>2, SplitAddsUp
  <1>7. parts = [i \in K |-> parts[i]]
    BY DEF Splits
  <1> HIDE DEF ds, K
  <1>8. \A i \in K : ds[i].limit = parts[i]
    BY <1>1, <1>2, <1>4
  <1>9. \A i \in K : ds[i].limit # 0
    BY <1>1, <1>3, <1>8
  <1>10. [i \in K |-> ds[i].limit] = [i \in K |-> parts[i]]
    BY <1>8
  <1>11. PodCurrentLimitMilli(ds) = SumFunction([i \in K |-> ds[i].limit])
    BY <1>5, <1>9 DEF PodCurrentLimitMilli
  <1> QED  BY <1>6, <1>7, <1>10, <1>11 DEF ds

\* Such a patch is valid for the apiserver, when the target lies above the request of
\* a pod that would be Guaranteed at it.
LEMMA SplitValid ==
    ASSUME NEW cs, Whole(cs), Covered(cs), PodCPURequestMilli(cs) > 0,
           QOSClass(cs) = "Burstable",
           NEW target \in Nat, target >= PodCPURequestMilli(cs),
           GuaranteedAtRequest(cs) => target > PodCPURequestMilli(cs),
           NEW parts \in Splits(target, cs)
    PROVE  ResizeValid(cs, Patched(cs, parts))
  <1> DEFINE ds == Patched(cs, parts)
             K == Bursting(cs)
  <1>1. /\ DOMAIN parts = K
        /\ \A i \in K : parts[i] \in Nat /\ parts[i] >= cs[i].request
    BY SplitParts
  <1>2. K # {} /\ K \subseteq DOMAIN cs
    BY RequestSum, WholeFacts
  <1>3. \A i \in K : cs[i].request \in Nat /\ cs[i].request > 0 /\ cs[i].kind # "init"
    BY <1>2, WholeFacts DEF Bursting, ResizableContainers
  <1>4. /\ DOMAIN ds = DOMAIN cs /\ SameFrame(cs, ds)
        /\ \A i \in DOMAIN cs : ds[i].limit = IF i \in K THEN parts[i] ELSE cs[i].limit
    BY <1>1, PatchFrame DEF SameFrame
  <1>5. \A i \in DOMAIN cs : ds[i].request = cs[i].request /\ ds[i].memory = cs[i].memory
    BY <1>4 DEF SameFrame
  <1>6. SumFunction(parts) = target /\ parts = [i \in K |-> parts[i]]
    BY <1>2, SplitAddsUp DEF Splits
  <1>7. PodCPURequestMilli(cs) = SumFunction([i \in K |-> cs[i].request])
    BY RequestSum
  <1>8. \A i \in DOMAIN cs : i \notin K => cs[i].kind = "init" \/ ~(cs[i].request > 0)
    BY DEF Bursting, ResizableContainers
  <1> HIDE DEF ds, K
  <1>9. \A i \in DOMAIN ds : ds[i].limit > 0 => ds[i].limit >= ds[i].request
    BY <1>1, <1>4, <1>5 DEF Covered
  <1>10. ~(\A i \in DOMAIN ds :
              ds[i].request > 0 /\ ds[i].limit = ds[i].request /\ ds[i].memory = "pinned")
    <2> SUFFICES ASSUME \A i \in DOMAIN ds :
                           /\ ds[i].request > 0 /\ ds[i].limit = ds[i].request
                           /\ ds[i].memory = "pinned"
                 PROVE  FALSE
      OBVIOUS
    <2>1. \A i \in K : parts[i] = cs[i].request
      BY <1>2, <1>4, <1>5
    <2>2. [i \in K |-> parts[i]] = [i \in K |-> cs[i].request]
      BY <2>1
    <2>3. target = PodCPURequestMilli(cs)
      BY <1>6, <1>7, <2>2
    <2>4. GuaranteedAtRequest(cs)
      <3>1. ASSUME NEW i \in DOMAIN cs
            PROVE  /\ cs[i].request > 0 /\ cs[i].memory = "pinned"
                   /\ cs[i].kind = "init" => cs[i].limit = cs[i].request
        BY <1>3, <1>4, <1>5
      <3> QED  BY <3>1 DEF GuaranteedAtRequest
    <2> QED  BY <2>3, <2>4
  <1>11. ~(\A i \in DOMAIN ds : ds[i].request = 0 /\ ds[i].limit = 0 /\ ds[i].memory = "none")
    <2>1. PICK i \in K : TRUE
      BY <1>2
    <2>2. i \in DOMAIN ds /\ ds[i].request > 0 /\ ds[i].request \in Nat
      BY <1>2, <1>3, <1>4, <1>5
    <2> QED  BY <2>2
  <1>12. QOSClass(ds) = "Burstable"
    BY <1>10, <1>11 DEF QOSClass
  <1> QED  BY <1>9, <1>12 DEF ResizeValid, ds

\* Limits that read back as the target leave nothing to ask for.
LEMMA ReadBackSettles ==
    ASSUME NEW p \in Pod, PodCPURequestMilli(p.containers) > 0, settings \in SettingSets,
           others \in Bookings, cachedRanges \in RangeSets,
           NEW ds, Whole(ds), SameFrame(p.containers, ds),
           \A i \in DOMAIN p.containers \ Bursting(p.containers) :
              ds[i].limit = (p.containers)[i].limit,
           PodCurrentLimitMilli(ds) = DecisionFor(p).target
    PROVE  ~DecisionFor([p EXCEPT !.containers = ds]).apply
  <1> DEFINE cs == p.containers
             q == [p EXCEPT !.containers = ds]
             ps == InputsFor(p)
             qs == InputsFor(q)
             c == settings.policy
  <1>1. q \in Pod /\ q.containers = ds /\ q.cap = p.cap /\ Whole(cs)
    BY PodWith, PodWhole
  <1>2. /\ PodCPURequestMilli(ds) = PodCPURequestMilli(cs)
        /\ PodRequests(ds) = PodRequests(cs)
    BY <1>1, FrameSums
  <1>3. /\ LimitRangeCapMilli(ds, cachedRanges) = LimitRangeCapMilli(cs, cachedRanges)
        /\ GuaranteedAtRequest(ds) <=> GuaranteedAtRequest(cs)
    BY <1>1, FrameCaps
  <1> HIDE DEF q
  <1>4. DecisionFor(p) = Decide(ps["pod"], Stats(Allocatable, ps), c)
    BY DecisionBounds
  <1>5. DecisionFor(q) = Decide(qs["pod"], Stats(Allocatable, qs), c)
    BY <1>1, <1>2, DecisionBounds
  <1>6. /\ DOMAIN ps = {"pod", "others"} /\ DOMAIN qs = {"pod", "others"}
        /\ ps["pod"] = BuildPodInput(p, cachedRanges)
        /\ qs["pod"] = BuildPodInput(q, cachedRanges)
        /\ ps["others"] = OthersInput /\ qs["others"] = OthersInput
    BY DEF InputsFor
  <1> HIDE DEF ps, qs, c
  <1>7. Alike(ps["pod"], qs["pod"]) /\ qs["pod"].limit = PodCurrentLimitMilli(ds)
    <2>1. GuaranteedAtRequest(ds) = GuaranteedAtRequest(cs)
      BY <1>3 DEF GuaranteedAtRequest
    <2> QED  BY <1>1, <1>2, <1>3, <1>6, <2>1 DEF Alike, BuildPodInput
  <1>8. Alike(ps["others"], qs["others"])
    BY <1>6 DEF Alike
  <1>9. Stats(Allocatable, qs) = Stats(Allocatable, ps)
    BY <1>6, <1>7, <1>8, StatsAlike
  <1>10. /\ DecisionFor(q).target = DecisionFor(p).target
         /\ DecisionFor(q).apply <=> Applies(DecisionFor(q).target, qs["pod"].limit, c)
    BY <1>4, <1>5, <1>7, <1>9, TargetAlike
  <1>11. ~DecisionFor(q).apply
    BY <1>7, <1>10 DEF Applies
  <1> QED  BY <1>11 DEF q
-----------------------------------------------------------------------------
(* Admission.                                                                *)

\* LimitRanger's defaults: a container keeps its limit, or gets a maximum.
LEMMA DefaultsGiven ==
    ASSUME NEW cs, Whole(cs), NEW items, IsFiniteSet(items), items \subseteq RangeItem
    PROVE  LET ds == LimitRangerDefaults(cs, items)
           IN  /\ Whole(ds) /\ DOMAIN ds = DOMAIN cs
               /\ \A i \in DOMAIN cs :
                     \/ ds[i] = cs[i]
                     \/ \E item \in items : /\ item.type = "Container" /\ item.max > 0
                                            /\ ds[i].limit = item.max
  <1> DEFINE ds == LimitRangerDefaults(cs, items)
             maxed == {x \in items : x.type = "Container" /\ x.max > 0}
             maxima == {item.max : item \in maxed}
             m == Min(maxima)
  <1>1. PICK n \in Nat : cs \in [1..n -> Container]
    BY DEF Whole
  <1>2. ds = [i \in DOMAIN cs |->
                 IF maxima = {} \/ cs[i].limit > 0 THEN cs[i]
                 ELSE [cs[i] EXCEPT !.limit = m,
                                    !.request = IF cs[i].request = 0 THEN m ELSE cs[i].request]]
    BY DEF LimitRangerDefaults
  <1>3. maxima # {} => m \in maxima
    <2>1. IsFiniteSet(maxed)
      <3>1. maxed \subseteq items
        OBVIOUS
      <3> HIDE DEF maxed
      <3> QED  BY <3>1, FS_Subset
    <2>2. IsFiniteSet(maxima)
      <3> DEFINE f == [item \in maxed |-> item.max]
      <3>1. maxima = {f[item] : item \in maxed}
        OBVIOUS
      <3> HIDE DEF f, maxima, maxed
      <3> QED  BY <2>1, <3>1, FiniteImage
    <2>3. maxima \subseteq Int
      BY DEF RangeItem
    <2> HIDE DEF maxima
    <2> QED  BY <2>2, <2>3, Extremes
  <1>4. maxima # {} => m \in Nat /\ \E item \in items : /\ item.type = "Container" /\ item.max > 0
                                                        /\ m = item.max
    <2> HIDE DEF m
    <2> QED  BY <1>3 DEF RangeItem
  <1> HIDE DEF ds, maxima, m
  <1>5. ASSUME NEW i \in 1..n
        PROVE  /\ ds[i] \in Container
               /\ \/ ds[i] = cs[i]
                  \/ \E item \in items : /\ item.type = "Container" /\ item.max > 0
                                         /\ ds[i].limit = item.max
    <2>0. cs[i] \in Container /\ i \in DOMAIN cs
      BY <1>1
    <2>1. CASE maxima = {} \/ cs[i].limit > 0
      <3>1. ds[i] = cs[i]
        BY <1>2, <2>0, <2>1
      <3> QED  BY <2>0, <3>1
    <2>2. CASE ~(maxima = {} \/ cs[i].limit > 0)
      <3> DEFINE r == IF cs[i].request = 0 THEN m ELSE cs[i].request
      <3>1. ds[i] = [cs[i] EXCEPT !.limit = m, !.request = r]
        BY <1>2, <2>0, <2>2
      <3>2. r \in Nat /\ m \in Nat
        BY <1>4, <2>0, <2>2 DEF Container
      <3> HIDE DEF r
      <3>3. ds[i] \in Container /\ ds[i].limit = m
        BY <2>0, <3>1, <3>2 DEF Container
      <3> QED  BY <1>4, <2>2, <3>3
    <2> QED  BY <2>1, <2>2
  <1>6. DOMAIN ds = 1..n /\ DOMAIN cs = 1..n /\ ds = [i \in 1..n |-> ds[i]]
    BY <1>1, <1>2
  <1>7. ds \in [1..n -> Container]
    BY <1>5, <1>6
  <1> QED  BY <1>5, <1>6, <1>7 DEF Whole, ds

\* A birth limit is none, or above its request.
LEMMA BirthAbove ==
    ASSUME NEW s \in SettingSets, NEW r \in Nat
    PROVE  /\ BirthLimit(r, s) \in Nat
           /\ BirthLimit(r, s) # 0 => r > 0 /\ BirthLimit(r, s) > r
  <1> DEFINE c == s.policy
             mult == IF c.multNum > 0 THEN Least(s.initialMultiplier, c.multNum)
                     ELSE s.initialMultiplier
             v == Round(r * mult, c.multDen)
             limit == QuantizeMilli(v, c.quantum)
  <1>1. /\ c \in PolicyConfig /\ s.initialMultiplier \in Nat
        /\ c.multNum \in Nat /\ c.multDen \in Nat \ {0} /\ c.quantum \in Nat
    BY ShapeAssumption DEF PolicyConfig
  <1>2. BirthLimit(r, s) = IF r = 0 \/ mult <= c.multDen \/ limit <= r THEN 0 ELSE limit
    BY DEF BirthLimit
  <1>3. mult \in Nat
    BY <1>1 DEF Least
  <1> HIDE DEF c, mult
  <1>4. r * mult \in Nat
    BY <1>3
  <1>5. v \in Nat
    BY <1>1, <1>4, RoundTyped
  <1> HIDE DEF v
  <1>6. limit \in Nat
    <2>1. CASE c.quantum = 0
      BY <1>5, <2>1 DEF QuantizeMilli
    <2>2. CASE c.quantum # 0
      <3>1. limit = ((v + c.quantum \div 2) \div c.quantum) * c.quantum
        BY <2>2 DEF QuantizeMilli
      <3>2. c.quantum \in Nat \ {0} /\ c.quantum \div 2 \in Nat
        BY <1>1, <2>2
      <3>3. v + c.quantum \div 2 \in Nat
        BY <1>5, <3>2
      <3>4. (v + c.quantum \div 2) \div c.quantum \in Nat
        BY <3>2, <3>3, Division
      <3> QED  BY <3>1, <3>2, <3>4
    <2> QED  BY <2>1, <2>2
  <1> HIDE DEF limit
  <1> QED  BY <1>2, <1>6

\* seedBirthLimits changes limits only, each from none to one above the request.
LEMMA SeedFrame ==
    ASSUME NEW cs, Whole(cs), NEW s \in SettingSets
    PROVE  LET ds == SeedBirthLimits(cs, s)
           IN  /\ Whole(ds) /\ SameFrame(cs, ds)
               /\ \A i \in DOMAIN cs :
                     \/ ds[i] = cs[i]
                     \/ i \in Bursting(cs) /\ ds[i].limit > cs[i].request
  <1> DEFINE ds == SeedBirthLimits(cs, s)
             b(i) == BirthLimit(cs[i].request, s)
  <1>1. PICK n \in Nat : cs \in [1..n -> Container]
    BY DEF Whole
  <1>2. ds = [i \in DOMAIN cs |->
                 IF i \in ResizableContainers(cs) /\ cs[i].limit = 0
                 THEN [cs[i] EXCEPT !.limit = b(i)] ELSE cs[i]]
    BY DEF SeedBirthLimits
  <1>3. \A i \in DOMAIN cs : b(i) \in Nat /\ (b(i) # 0 => cs[i].request > 0 /\ b(i) > cs[i].request)
    BY WholeFacts, BirthAbove
  <1> HIDE DEF ds, b
  <1>4. ASSUME NEW i \in 1..n
        PROVE  /\ ds[i] \in Container
               /\ ds[i].kind = cs[i].kind /\ ds[i].request = cs[i].request
               /\ ds[i].memory = cs[i].memory /\ ds[i].restartOnResize = cs[i].restartOnResize
               /\ \/ ds[i] = cs[i]
                  \/ i \in Bursting(cs) /\ ds[i].limit > cs[i].request
    <2>0. cs[i] \in Container /\ i \in DOMAIN cs
      BY <1>1
    <2>1. CASE ~(i \in ResizableContainers(cs) /\ cs[i].limit = 0)
      <3>1. ds[i] = cs[i]
        BY <1>2, <2>0, <2>1
      <3> QED  BY <2>0, <3>1
    <2>2. CASE i \in ResizableContainers(cs) /\ cs[i].limit = 0
      <3>1. ds[i] = [cs[i] EXCEPT !.limit = b(i)]
        BY <1>2, <2>0, <2>2
      <3>2. b(i) \in Nat /\ (b(i) # 0 => cs[i].request > 0 /\ b(i) > cs[i].request)
        BY <1>3, <2>0
      <3>3. /\ ds[i] \in Container
            /\ ds[i].kind = cs[i].kind /\ ds[i].request = cs[i].request
            /\ ds[i].memory = cs[i].memory /\ ds[i].restartOnResize = cs[i].restartOnResize
            /\ ds[i].limit = b(i)
        BY <2>0, <3>1, <3>2 DEF Container
      <3>4. CASE b(i) = 0
        <4>1. ds[i] = cs[i]
          BY <2>0, <2>2, <3>1, <3>4 DEF Container
        <4> QED  BY <3>3, <4>1
      <3>5. CASE b(i) # 0
        BY <2>2, <3>2, <3>3, <3>5 DEF Bursting
      <3> QED  BY <3>4, <3>5
    <2> QED  BY <2>1, <2>2
  <1>5. DOMAIN ds = 1..n /\ DOMAIN cs = 1..n /\ ds = [i \in 1..n |-> ds[i]]
    BY <1>1, <1>2
  <1>6. ds \in [1..n -> Container]
    BY <1>4, <1>5
  <1> QED  BY <1>4, <1>5, <1>6 DEF Whole, SameFrame, ds

\* Containers that LimitRanger admits have limits that cover their requests: a default
\* limit is a maximum, which the request must keep too.
LEMMA AdmittedCovered ==
    ASSUME NEW cs, Whole(cs), Covered(cs), NEW items, IsFiniteSet(items),
           items \subseteq RangeItem, NEW s \in SettingSets,
           NEW es, es \in {LimitRangerDefaults(cs, items),
                           SeedBirthLimits(LimitRangerDefaults(cs, items), s)},
           LimitRangerAdmits(es, items)
    PROVE  Covered(es)
  <1> DEFINE ds == LimitRangerDefaults(cs, items)
  <1>1. /\ Whole(ds) /\ DOMAIN ds = DOMAIN cs
        /\ \A i \in DOMAIN cs :
              \/ ds[i] = cs[i]
              \/ \E item \in items : /\ item.type = "Container" /\ item.max > 0
                                     /\ ds[i].limit = item.max
    BY DefaultsGiven
  <1> HIDE DEF ds
  <1>2. /\ DOMAIN es = DOMAIN ds
        /\ \A i \in DOMAIN ds :
              \/ es[i] = ds[i]
              \/ i \in Bursting(ds) /\ es[i].limit > ds[i].request /\ es[i].request = ds[i].request
    <2>1. CASE es = ds
      BY <2>1
    <2>2. CASE es = SeedBirthLimits(ds, s)
      BY <1>1, <2>2, SeedFrame DEF SameFrame
    <2> QED  BY <2>1, <2>2 DEF ds
  <1>3. ASSUME NEW i \in DOMAIN es, es[i].limit > 0 PROVE es[i].limit >= es[i].request
    <2>1. i \in DOMAIN ds /\ i \in DOMAIN cs
      BY <1>1, <1>2
    <2>2. CASE es[i] # ds[i]
      <3>1. es[i].limit > ds[i].request /\ es[i].request = ds[i].request
        BY <1>2, <2>1, <2>2
      <3>2. ds[i].request \in Nat
        BY <1>1, <2>1, WholeFacts
      <3>3. es[i].limit \in Nat
        <4>1. Whole(es)
          <5>1. CASE es = ds
            BY <1>1, <5>1
          <5>2. CASE es = SeedBirthLimits(ds, s)
            BY <1>1, <5>2, SeedFrame
          <5> QED  BY <5>1, <5>2 DEF ds
        <4> QED  BY <4>1, WholeFacts
      <3> QED  BY <3>1, <3>2, <3>3
    <2>3. CASE es[i] = cs[i]
      BY <1>3, <2>1, <2>3 DEF Covered
    <2>4. CASE es[i] = ds[i] /\ ds[i] # cs[i]
      <3>1. PICK item \in items : /\ item.type = "Container" /\ item.max > 0
                                  /\ ds[i].limit = item.max
        BY <1>1, <2>1, <2>4
      <3>2. Within(item, es[i].request, es[i].limit)
        BY <3>1 DEF LimitRangerAdmits
      <3>3. es[i].request <= item.max
        BY <3>1, <3>2 DEF Within
      <3>4. es[i].request \in Nat /\ item.max \in Nat
        BY <1>1, <2>1, <2>4, WholeFacts DEF RangeItem
      <3> QED  BY <2>4, <3>1, <3>3, <3>4
    <2> QED  BY <2>2, <2>3, <2>4
  <1> QED  BY <1>3 DEF Covered

\* A pod that a seed has changed passes the reconciler's gates: the seed is above a
\* request, so the pod is neither Guaranteed nor BestEffort.
LEMMA SeededPasses ==
    ASSUME NEW p \in Pod, NEW s \in SettingSets, NEW vs, NEW q,
           q = [p EXCEPT !.containers = Default(p, s, vs)], q # p
    PROVE  Managed(q, s, vs)
  <1> DEFINE cs == p.containers
             ds == SeedBirthLimits(cs, s)
  <1>1. Whole(cs)
    BY PodWhole
  <1>2. Seeds(p, s, vs) /\ Default(p, s, vs) = ds /\ ds # cs
    <2>1. ~Seeds(p, s, vs) => Default(p, s, vs) = cs
      BY DEF Default
    <2>2. Seeds(p, s, vs) => Default(p, s, vs) = ds
      BY DEF Default
    <2>3. Default(p, s, vs) # cs
      <3>1. [p EXCEPT !.containers = cs] = p
        BY DEF Pod
      <3> QED  BY <3>1
    <2> HIDE DEF ds
    <2> QED  BY <2>1, <2>2, <2>3
  <1>3. /\ Whole(ds) /\ SameFrame(cs, ds)
        /\ \A i \in DOMAIN cs :
              \/ ds[i] = cs[i]
              \/ i \in Bursting(cs) /\ ds[i].limit > cs[i].request
    BY <1>1, SeedFrame
  <1>4. q = [p EXCEPT !.containers = ds]
    BY <1>2
  <1> HIDE DEF ds
  <1>5. /\ q \in Pod /\ q.containers = ds /\ q.owners = p.owners
        /\ q.optedOut = p.optedOut /\ q.podLevel = p.podLevel
    <2>1. ds \in Seq(Container)
      BY <1>3, WholeIsSeq
    <2> QED  BY <1>4, <2>1 DEF Pod
  <1>6. PICK i \in DOMAIN cs : i \in Bursting(cs) /\ ds[i].limit > cs[i].request
    <2> SUFFICES ASSUME \A i \in DOMAIN cs : ds[i] = cs[i] PROVE FALSE
      BY <1>3
    <2>1. cs = [i \in DOMAIN cs |-> cs[i]]
      BY <1>1 DEF Whole
    <2>2. ds = [i \in DOMAIN ds |-> ds[i]]
      BY <1>3 DEF Whole
    <2>3. DOMAIN ds = DOMAIN cs
      BY <1>3 DEF SameFrame
    <2>4. ds = cs
      BY <2>1, <2>2, <2>3
    <2> QED  BY <1>2, <2>4
  <1>7. /\ ResizableContainers(ds) = ResizableContainers(cs)
        /\ PodCPURequestMilli(ds) = PodCPURequestMilli(cs)
        /\ HasRestartOnResize(ds) <=> HasRestartOnResize(cs)
    BY <1>1, <1>3, FrameSums
  <1>8. PodCPURequestMilli(ds) > 0
    BY <1>1, <1>6, <1>7, RequestSum
  <1>9. QOSClass(ds) = "Burstable"
    <2>1. /\ i \in DOMAIN ds /\ ds[i].request = cs[i].request
          /\ cs[i].request \in Nat /\ ds[i].limit \in Nat
      BY <1>1, <1>3, <1>6, WholeFacts DEF SameFrame
    <2>2. cs[i].request > 0
      BY <1>6 DEF Bursting
    <2>3. ds[i].request # 0 /\ ds[i].limit # ds[i].request
      BY <1>6, <2>1, <2>2
    <2> QED  BY <2>1, <2>3 DEF QOSClass
  <1>10. ~OwnerExcluded(q, s.excludedOwners)
    BY <1>2, <1>5 DEF OwnerExcluded, Seeds
  <1>11. LimitManagingVPA(q, vs) = {}
    <2>1. LimitManagingVPA(q, vs) = LimitManagingVPA(p, vs)
      BY <1>5, <1>7 DEF LimitManagingVPA, PodUnderTarget, ControllerOf
    <2> QED  BY <1>2, <2>1 DEF Seeds
  <1>12. ~q.optedOut /\ ~q.podLevel /\ s.namespaceManaged /\ ~HasRestartOnResize(ds)
    BY <1>2, <1>5, <1>7 DEF Seeds
  <1> QED  BY <1>5, <1>8, <1>9, <1>10, <1>11, <1>12 DEF Managed

\* An autoscaler that writes a container's limit is one the match rule finds.
LEMMA WriterFound ==
    ASSUME NEW p \in Pod, p.topOwner # Absent => TwoLevels(p), vpas \in VPASets,
           LimitManagingVPA(p, vpas) = {}, NEW i \in Bursting(p.containers)
    PROVE  ~VPAWrites(p, i)
  <1> SUFFICES ASSUME VPAWrites(p, i) PROVE FALSE
    OBVIOUS
  <1> DEFINE named(v) == {k \in DOMAIN v.policies : v.policies[k].container = i}
             star(v) == {k \in DOMAIN v.policies : v.policies[k].container = AllNames}
             applies(v) == IF named(v) # {} THEN named(v) ELSE DOMAIN v.policies
             Writes(v, k) == /\ v.policies[k].mode # "Off"
                             /\ v.policies[k].controlledValues # "RequestsOnly"
                             /\ "cpu" \in v.policies[k].controlledResources
  <1>1. PICK v \in vpas :
           /\ p.topOwner # Absent
           /\ v.targetKind = p.topOwner.kind /\ v.targetName = p.topOwner.name
           /\ v.updateMode # "Off"
           /\ \A k \in applies(v) : v.policies[k].container \in {i, AllNames} => Writes(v, k)
    BY DEF VPAWrites
  <1>2. PodUnderTarget(p, v.targetKind, v.targetName)
    <2>1. PICK o \in p.owners :
             /\ o.controller
             /\ \/ p.topOwner.kind = o.kind /\ p.topOwner.name = o.name
                \/ /\ <<p.topOwner.kind, o.kind>>
                         \in {<<"Deployment", "ReplicaSet">>, <<"CronJob", "Job">>}
                   /\ p.topOwner.name = ParentName(o.name)
      BY <1>1 DEF TwoLevels
    <2>2. o \in ControllerOf(p)
      BY <2>1 DEF ControllerOf
    <2>3. \/ o.kind = v.targetKind /\ o.name = v.targetName
          \/ /\ ParentName(o.name) = v.targetName
             /\ \/ o.kind = "ReplicaSet" /\ v.targetKind # "ReplicaSet"
                \/ o.kind = "Job" /\ v.targetKind = "CronJob"
      BY <1>1, <2>1
    <2> QED  BY <2>2, <2>3 DEF PodUnderTarget
  <1>3. IsFiniteSet(DOMAIN v.policies) /\ DOMAIN v.policies \subseteq Int
    <2>1. v \in VPA
      BY ShapeAssumption
    <2>2. PICK n \in Nat : DOMAIN v.policies = 1..n
      BY <2>1 DEF VPA
    <2>3. IsFiniteSet(1..n) /\ 1..n \subseteq Int
      BY FS_Interval
    <2> QED  BY <2>2, <2>3
  <1>4. WritesCPULimit(v, i)
    <2>1. PolicyFor(v, i) = IF named(v) # {} THEN {v.policies[Min(named(v))]}
                            ELSE IF star(v) # {} THEN {v.policies[Max(star(v))]} ELSE {}
      BY DEF PolicyFor
    <2>2. named(v) # {} => Min(named(v)) \in named(v)
      <3>1. named(v) \subseteq DOMAIN v.policies
        OBVIOUS
      <3> HIDE DEF named
      <3>2. IsFiniteSet(named(v)) /\ named(v) \subseteq Int
        BY <1>3, <3>1, FS_Subset
      <3> QED  BY <3>2, Extremes
    <2>3. star(v) # {} => Max(star(v)) \in star(v)
      <3>1. star(v) \subseteq DOMAIN v.policies
        OBVIOUS
      <3> HIDE DEF star
      <3>2. IsFiniteSet(star(v)) /\ star(v) \subseteq Int
        BY <1>3, <3>1, FS_Subset
      <3> QED  BY <3>2, Extremes
    <2>4. ASSUME NEW pol \in PolicyFor(v, i)
          PROVE  /\ pol.mode # "Off" /\ pol.controlledValues # "RequestsOnly"
                 /\ "cpu" \in pol.controlledResources
      <3>1. PICK k \in applies(v) : /\ pol = v.policies[k]
                                    /\ v.policies[k].container \in {i, AllNames}
        BY <2>1, <2>2, <2>3, <2>4
      <3> QED  BY <1>1, <3>1
    <2> QED  BY <1>1, <2>4 DEF WritesCPULimit
  <1>5. i \in ResizableContainers(p.containers)
    BY DEF Bursting
  <1> QED  BY <1>2, <1>4, <1>5 DEF LimitManagingVPA
-----------------------------------------------------------------------------
(* Ratios.                                                                   *)

\* ratioLimitMilli is the largest limit that LimitRanger's comparison admits.
LEMMA RatioLimitLargest ==
    ASSUME NEW ratio \in Nat, NEW r \in Nat
    PROVE  /\ RatioLimitMilli(ratio, r) \in Int
           /\ \A l \in Nat : ~PastRatio(l, r, ratio) <=> l <= RatioLimitMilli(ratio, r)
  <1> DEFINE product == ratio * r
             exact == product \div 1000
  <1>1. product \in Nat
    OBVIOUS
  <1>2. exact \in Nat /\ exact * 1000 <= product /\ product < exact * 1000 + 1000
    <2> HIDE DEF product
    <2> QED  BY <1>1, Division
  <1>3. ASSUME NEW l \in Nat
        PROVE  PastRatio(l, r, ratio) <=>
                  \/ l * 1000 > product
                  \/ <<l, r, ratio>> \in InexactRatios
    BY DEF PastRatio
  <1>4. ASSUME NEW l \in Nat, <<l, r, ratio>> \in InexactRatios PROVE l * 1000 = product
    BY <1>4, InexactAssumption
  <1>5. RatioLimitMilli(ratio, r) = IF PastRatio(exact, r, ratio) THEN exact - 1 ELSE exact
    BY DEF RatioLimitMilli
  <1> HIDE DEF product, exact
  <1>6. RatioLimitMilli(ratio, r) \in Int
    BY <1>2, <1>5
  <1>7. ASSUME NEW l \in Nat PROVE ~PastRatio(l, r, ratio) <=> l <= RatioLimitMilli(ratio, r)
    <2>1. l * 1000 > product <=> l > exact
      BY <1>1, <1>2
    <2>2. CASE PastRatio(exact, r, ratio)
      <3>1. <<exact, r, ratio>> \in InexactRatios
        BY <1>1, <1>2, <1>3, <2>2
      <3>2. exact * 1000 = product
        BY <1>2, <1>4, <3>1
      <3>3. <<l, r, ratio>> \in InexactRatios => l = exact
        BY <1>1, <1>2, <1>4, <3>2
      <3>4. PastRatio(l, r, ratio) <=> l >= exact
        BY <1>2, <1>3, <2>1, <3>1, <3>3
      <3> QED  BY <1>2, <1>5, <2>2, <3>4
    <2>3. CASE ~PastRatio(exact, r, ratio)
      <3>1. <<l, r, ratio>> \in InexactRatios => l > exact
        <4>1. ASSUME <<l, r, ratio>> \in InexactRatios, ~(l > exact) PROVE FALSE
          <5>1. l * 1000 = product
            BY <1>4, <4>1
          <5>2. l = exact
            BY <1>1, <1>2, <4>1, <5>1
          <5> QED  BY <1>2, <1>3, <2>3, <4>1, <5>2
        <4> QED  BY <4>1
      <3>2. PastRatio(l, r, ratio) <=> l > exact
        BY <1>3, <2>1, <3>1
      <3> QED  BY <1>2, <1>5, <2>3, <3>2
    <2> QED  BY <2>2, <2>3
  <1> QED  BY <1>6, <1>7

-----------------------------------------------------------------------------
(* The remainders of a split.                                                *)

LEMMA Modulo ==
    ASSUME NEW a \in Nat, NEW q \in Nat \ {0}
    PROVE  a % q \in Nat /\ a % q < q /\ q * (a \div q) + (a % q) = a
  OBVIOUS

\* A share of a target that covers the requests, and what its floor leaves.
LEMMA ShareDivides ==
    ASSUME NEW cs, Whole(cs), NEW target \in Nat, target >= PodCPURequestMilli(cs),
           NEW i \in Bursting(cs)
    PROVE  /\ cs[i].request \in Nat \ {0} /\ PodCPURequestMilli(cs) \in Nat \ {0}
           /\ cs[i].request <= PodCPURequestMilli(cs)
           /\ BaseShare(target, cs, i) \in Nat /\ Remainder(target, cs, i) \in Nat
           /\ Remainder(target, cs, i) < PodCPURequestMilli(cs)
           /\ PodCPURequestMilli(cs) * BaseShare(target, cs, i) + Remainder(target, cs, i)
                 = target * cs[i].request
  <1> DEFINE R == PodCPURequestMilli(cs)
             r == cs[i].request
             load == target * r
             floor == load \div R
  <1>1. R \in Nat \ {0} /\ r \in Nat \ {0} /\ r <= R
    <2>1. R \in Nat /\ (R > 0 <=> Bursting(cs) # {})
          /\ \A j \in ResizableContainers(cs) : cs[j].request <= R
      BY RequestSum
    <2>2. i \in ResizableContainers(cs) /\ i \in DOMAIN cs /\ r > 0
      BY DEF Bursting, ResizableContainers
    <2>3. r \in Nat
      BY <2>2, WholeFacts
    <2>4. r <= R
      BY <2>1, <2>2
    <2> HIDE DEF R, r
    <2> QED  BY <2>1, <2>2, <2>3, <2>4
  <1>2. BaseShare(target, cs, i) = Greatest(floor, r) /\ Remainder(target, cs, i) = load % R
    BY DEF BaseShare, Remainder
  <1> HIDE DEF R, r
  <1>3. load \in Nat
    BY <1>1
  <1>4. r <= floor
    <2>1. R * r <= target * r
      BY <1>1, TimesMonotone DEF R
    <2>2. r * R <= load
      BY <1>1, <2>1
    <2> QED  BY <1>1, <1>3, <2>2, DivisionGreatest
  <1> HIDE DEF load
  <1>5. floor \in Nat /\ floor * R <= load /\ load < floor * R + R
    BY <1>1, <1>3, Division
  <1>6. load % R \in Nat /\ load % R < R /\ R * floor + (load % R) = load
    BY <1>1, <1>3, Modulo
  <1> HIDE DEF floor
  <1>7. Greatest(floor, r) = floor
    BY <1>1, <1>4, <1>5 DEF Greatest
  <1> QED  BY <1>1, <1>2, <1>5, <1>6, <1>7 DEF R, r, load

\* The remainders add up to the leftover, which is no more than there are containers.
LEMMA LeftoverBounds ==
    ASSUME NEW cs, Whole(cs), NEW target \in Nat, target >= PodCPURequestMilli(cs),
           Bursting(cs) # {}
    PROVE  LET base == SumFunction([i \in Bursting(cs) |-> BaseShare(target, cs, i)])
               rest == SumFunction([i \in Bursting(cs) |-> Remainder(target, cs, i)])
           IN  /\ base \in Nat /\ rest \in Nat
               /\ PodCPURequestMilli(cs) * (target - base) = rest
               /\ target - base \in Nat /\ target - base <= Cardinality(Bursting(cs))
  <1> DEFINE K == Bursting(cs)
             R == PodCPURequestMilli(cs)
             b == [i \in K |-> BaseShare(target, cs, i)]
             e == [i \in K |-> Remainder(target, cs, i)]
             q == [i \in K |-> cs[i].request]
             loads == [i \in K |-> target * q[i]]
             ones == [i \in K |-> IF i \in K THEN 1 ELSE 0]
             tops == [i \in K |-> R * ones[i] + 0 * ones[i]]
             B == SumFunctionOnSet(b, K)
             E == SumFunctionOnSet(e, K)
  <1>1. IsFiniteSet(K) /\ R \in Nat \ {0} /\ R = SumFunctionOnSet(q, K)
    <2>1. DOMAIN q = K
      OBVIOUS
    <2> QED  BY <2>1, WholeFacts, RequestSum DEF SumFunction
  <1>2. \A i \in K : /\ b[i] \in Nat /\ e[i] \in Nat /\ q[i] \in Nat /\ e[i] < R
                     /\ R * b[i] + e[i] = target * q[i]
                     /\ loads[i] = target * q[i] /\ ones[i] = 1 /\ tops[i] = R
    <2>1. ASSUME NEW i \in K
          PROVE  /\ b[i] \in Nat /\ e[i] \in Nat /\ q[i] \in Nat /\ e[i] < R
                 /\ R * b[i] + e[i] = target * q[i]
      BY ShareDivides
    <2>2. \A i \in K : ones[i] = 1 /\ tops[i] = R * 1 + 0 * 1
      OBVIOUS
    <2> HIDE DEF R, b, e, q, tops, ones
    <2>3. \A i \in K : tops[i] = R
      BY <1>1, <2>2
    <2> QED  BY <2>1, <2>2, <2>3
  <1>3. \A i \in K : ones[i] = (IF i \in K THEN 1 ELSE 0) /\ tops[i] = R * ones[i] + 0 * ones[i]
    OBVIOUS
  <1>4. SumFunction(b) = B /\ SumFunction(e) = E
    BY DEF SumFunction
  <1> HIDE DEF K, R, b, e, q, loads, ones, tops
  <1>5. B \in Nat /\ E \in Nat
    <2>1. K \in SUBSET K /\ (\A x \in K : b[x] \in Nat) /\ (\A x \in K : e[x] \in Nat)
      BY <1>2
    <2> QED  BY <1>1, <2>1, SumOfNats
  <1> HIDE DEF B, E
  <1>6. SumFunctionOnSet(loads, K) = target * R
    <2>1. \A x \in K : q[x] \in Int /\ loads[x] = target * q[x] + 0 * q[x]
      BY <1>2
    <2>2. SumFunctionOnSet(loads, K) = target * SumFunctionOnSet(q, K) + 0 * SumFunctionOnSet(q, K)
      <3>1. IsFiniteSet(K) /\ target \in Int /\ 0 \in Int
        BY <1>1
      <3> QED  BY <2>1, <3>1, SumLinear
    <2>3. SumFunctionOnSet(loads, K) = target * R + 0 * R
      BY <1>1, <2>2
    <2> QED  BY <1>1, <2>3
  <1>7. SumFunctionOnSet(loads, K) = R * B + 1 * E
    <2>1. \A x \in K : b[x] \in Int /\ e[x] \in Int /\ loads[x] = R * b[x] + 1 * e[x]
      BY <1>1, <1>2
    <2>2. R \in Int /\ 1 \in Int
      BY <1>1
    <2> QED  BY <1>1, <2>1, <2>2, SumLinear DEF B, E
  <1>8. R * (target - B) = E
    <2>1. target * R = R * B + E
      BY <1>1, <1>5, <1>6, <1>7
    <2>2. R * (target - B) = target * R - R * B
      BY <1>1, <1>5
    <2> QED  BY <1>1, <1>5, <2>1, <2>2
  <1>9. SumFunctionOnSet(ones, K) = Cardinality(K) /\ Cardinality(K) \in Nat
    <2>1. K \in SUBSET K
      OBVIOUS
    <2> QED  BY <1>1, <1>3, <2>1, SumCounts, FS_CardinalityType
  <1>10. E <= R * Cardinality(K)
    <2>1. \A x \in K : e[x] \in Int /\ tops[x] \in Int /\ e[x] <= tops[x]
      BY <1>1, <1>2
    <2>2. E <= SumFunctionOnSet(tops, K)
      BY <1>1, <2>1, SumOrdered DEF E
    <2>3. SumFunctionOnSet(tops, K) = R * SumFunctionOnSet(ones, K) + 0 * SumFunctionOnSet(ones, K)
      <3>1. R \in Int /\ 0 \in Int /\ \A x \in K : ones[x] \in Int
        BY <1>1, <1>2
      <3> QED  BY <1>1, <1>3, <3>1, SumLinear
    <2> QED  BY <1>1, <1>9, <2>2, <2>3
  <1>11. target - B \in Int
    BY <1>5
  <1> DEFINE d == target - B
  <1> HIDE DEF d
  <1>12. d \in Nat
    <2>1. d \in Int /\ R * 0 <= R * d
      BY <1>1, <1>5, <1>8, <1>11 DEF d
    <2> QED  BY <1>1, <2>1, TimesCancel
  <1>13. d <= Cardinality(K)
    <2>1. R * d <= R * Cardinality(K)
      BY <1>8, <1>10 DEF d
    <2> QED  BY <1>1, <1>9, <1>12, <2>1, TimesCancel
  <1> QED  BY <1>4, <1>5, <1>8, <1>12, <1>13 DEF d, K, R, b, e

\* A container gets one of the leftover only for a fraction of its own, so that a bound
\* on its exact share is one on its part.
LEMMA SplitCeil ==
    ASSUME NEW cs, Whole(cs), NEW target \in Nat, target >= PodCPURequestMilli(cs),
           NEW parts \in Splits(target, cs), NEW i \in Bursting(cs), NEW m \in Nat,
           target * cs[i].request <= m * PodCPURequestMilli(cs)
    PROVE  parts[i] <= m
  <1> DEFINE K == Bursting(cs)
             R == PodCPURequestMilli(cs)
             e == [j \in K |-> Remainder(target, cs, j)]
             b == [j \in K |-> BaseShare(target, cs, j)]
             d == target - SumFunction(b)
             E == SumFunction(e)
  <1>1. PICK W \in LeftoverSets(target, cs) :
           parts = [j \in K |-> BaseShare(target, cs, j) + (IF j \in W THEN 1 ELSE 0)]
    BY DEF Splits
  <1>2. /\ W \in SUBSET K /\ Cardinality(W) = Greatest(d, 0)
        /\ \A x \in W, y \in K \ W : Remainder(target, cs, x) >= Remainder(target, cs, y)
    <2>1. ASSUME NEW x \in K, NEW y \in K
          PROVE  Remainder(target, cs, x) \in Nat /\ Remainder(target, cs, y) \in Nat
      BY ShareDivides
    <2> QED  BY <1>1, <2>1 DEF LeftoverSets
  <1>3. /\ R \in Nat \ {0} /\ e[i] \in Nat /\ b[i] \in Nat
        /\ R * b[i] + e[i] = target * cs[i].request
    BY ShareDivides
  <1>4. /\ SumFunction(b) \in Nat /\ E \in Nat /\ d \in Nat /\ R * d = E
    BY LeftoverBounds
  <1>5. parts[i] = b[i] + (IF i \in W THEN 1 ELSE 0)
    BY <1>1
  <1>6. \A j \in K : e[j] \in Nat /\ e[j] < R /\ e[j] = Remainder(target, cs, j)
    BY ShareDivides
  <1>7. IsFiniteSet(K) /\ E = SumFunctionOnSet(e, K)
    BY WholeFacts DEF SumFunction
  <1> HIDE DEF K, R, e, b, d, E
  <1>8. ASSUME i \in W, e[i] = 0 PROVE FALSE
    <2> DEFINE V == W \ {i}
               ones == [j \in K |-> IF j \in V THEN 1 ELSE 0]
               tops == [j \in K |-> R * ones[j] + 0 * ones[j]]
    <2>1. IsFiniteSet(W) /\ Cardinality(W) = d /\ Cardinality(V) = d - 1
      <3>1. IsFiniteSet(W) /\ Cardinality(W) = d
        BY <1>2, <1>4, <1>7, FS_Subset DEF Greatest
      <3>2. Cardinality(W \ {i}) = Cardinality(W) - 1
        BY <1>8, <3>1, FS_RemoveElement
      <3> QED  BY <3>1, <3>2
    <2>2. \A j \in K : j \notin V => e[j] = 0
      BY <1>2, <1>6, <1>8
    <2>3. /\ \A j \in K : ones[j] = IF j \in V THEN 1 ELSE 0
          /\ \A j \in K : ones[j] \in Int
          /\ \A j \in K : tops[j] = R * ones[j] + 0 * ones[j]
      OBVIOUS
    <2>4. V \in SUBSET K
      BY <1>2
    <2> HIDE DEF V, ones, tops
    <2>5. \A j \in K : tops[j] = IF j \in V THEN R ELSE 0
      BY <1>3, <2>3
    <2>6. \A j \in K : e[j] \in Int /\ tops[j] \in Int /\ e[j] <= tops[j]
      BY <1>3, <1>6, <2>2, <2>5
    <2>7. E <= SumFunctionOnSet(tops, K)
      BY <1>7, <2>6, SumOrdered
    <2>8. SumFunctionOnSet(ones, K) = d - 1
      BY <1>7, <2>1, <2>3, <2>4, SumCounts
    <2>9. SumFunctionOnSet(tops, K) = R * SumFunctionOnSet(ones, K) + 0 * SumFunctionOnSet(ones, K)
      <3>1. IsFiniteSet(K) /\ R \in Int /\ 0 \in Int
        BY <1>3, <1>7
      <3> QED  BY <2>3, <3>1, SumLinear
    <2>10. R * d <= R * (d - 1) + 0 * (d - 1)
      BY <1>4, <2>7, <2>8, <2>9
    <2>11. R * d <= R * (d - 1)
      BY <1>3, <1>4, <2>10
    <2>12. d <= d - 1
      <3>1. d \in Int /\ d - 1 \in Int
        BY <1>4
      <3> QED  BY <1>3, <2>11, <3>1, TimesCancel
    <2> QED  BY <1>4, <2>12
  <1>9. R * b[i] + e[i] <= m * R
    BY <1>3 DEF R
  <1>10. CASE e[i] = 0
    <2>1. R * b[i] <= R * m
      BY <1>3, <1>9, <1>10
    <2> QED  BY <1>3, <1>5, <1>8, <1>10, <2>1, TimesCancel
  <1>11. CASE e[i] # 0
    <2>1. ~(m <= b[i])
      <3>1. m <= b[i] => m * R <= b[i] * R
        BY <1>3, TimesMonotone
      <3>2. b[i] * R = R * b[i] /\ b[i] * R \in Nat /\ m * R \in Nat
        BY <1>3
      <3> QED  BY <1>3, <1>9, <1>11, <3>1, <3>2
    <2> QED  BY <1>3, <1>5, <2>1
  <1> QED  BY <1>10, <1>11

\* Numbers no smaller than others, with the same sum, are the same.
LEMMA SumPinned ==
    ASSUME NEW S, IsFiniteSet(S), NEW f, NEW h,
           \A x \in S : f[x] \in Int /\ h[x] \in Int /\ f[x] <= h[x],
           SumFunctionOnSet(f, S) = SumFunctionOnSet(h, S)
    PROVE  \A x \in S : f[x] = h[x]
  <1> DEFINE g == [x \in S |-> 1 * h[x] + (-1) * f[x]]
  <1>1. \A x \in S : g[x] = 1 * h[x] + (-1) * f[x]
    OBVIOUS
  <1> HIDE DEF g
  <1>2. SumFunctionOnSet(g, S) = 1 * SumFunctionOnSet(h, S) + (-1) * SumFunctionOnSet(f, S)
    <2>1. 1 \in Int /\ -1 \in Int
      OBVIOUS
    <2> DEFINE minus == -1
    <2>2. minus \in Int /\ \A x \in S : g[x] = 1 * h[x] + minus * f[x]
      BY <1>1
    <2> HIDE DEF minus
    <2>3. SumFunctionOnSet(g, S) = 1 * SumFunctionOnSet(h, S) + minus * SumFunctionOnSet(f, S)
      BY <2>1, <2>2, SumLinear
    <2> QED  BY <2>3 DEF minus
  <1>3. SumFunctionOnSet(h, S) \in Int
    BY SumLaws
  <1>4. SumFunctionOnSet(g, S) = 0
    BY <1>2, <1>3
  <1>5. \A x \in S : g[x] \in Nat /\ (g[x] = 0 => f[x] = h[x])
    BY <1>1
  <1>6. \A x \in S : g[x] <= 0
    <2>1. S \in SUBSET S
      OBVIOUS
    <2> QED  BY <1>4, <1>5, <2>1, SumOfNats
  <1> QED  BY <1>5, <1>6

\* A target equal to the requests is split into them.
LEMMA SplitAtRequest ==
    ASSUME NEW cs, Whole(cs), Bursting(cs) # {},
           NEW parts \in Splits(PodCPURequestMilli(cs), cs)
    PROVE  \A i \in Bursting(cs) : parts[i] = cs[i].request
  <1> DEFINE K == Bursting(cs)
             R == PodCPURequestMilli(cs)
             q == [i \in K |-> cs[i].request]
  <1>1. R \in Nat /\ R >= PodCPURequestMilli(cs) /\ R = SumFunction(q)
    BY RequestSum
  <1>2. DOMAIN parts = K /\ \A i \in K : parts[i] \in Nat /\ parts[i] >= cs[i].request
    BY <1>1, SplitParts
  <1>3. SumFunction(parts) = R
    BY <1>1, SplitAddsUp
  <1>4. IsFiniteSet(K) /\ \A i \in K : cs[i].request \in Nat
    BY WholeFacts
  <1>5. DOMAIN q = K /\ \A i \in K : q[i] = cs[i].request
    OBVIOUS
  <1> HIDE DEF K, R, q
  <1>6. SumFunctionOnSet(q, K) = SumFunctionOnSet(parts, K)
    BY <1>1, <1>2, <1>3, <1>5 DEF SumFunction
  <1>7. \A i \in K : q[i] \in Int /\ parts[i] \in Int /\ q[i] <= parts[i]
    BY <1>2, <1>4, <1>5
  <1>8. \A i \in K : q[i] = parts[i]
    BY <1>4, <1>6, <1>7, SumPinned
  <1> QED  BY <1>5, <1>8 DEF K

\* The largest request, and a container that has it.
LEMMA LargestRequest ==
    ASSUME NEW cs, Whole(cs), Bursting(cs) # {}
    PROVE  LET largest == Max({cs[i].request : i \in Bursting(cs)})
           IN  /\ largest \in Nat \ {0} /\ largest <= PodCPURequestMilli(cs)
               /\ \E i \in Bursting(cs) : cs[i].request = largest
               /\ \A i \in Bursting(cs) : cs[i].request <= largest
  <1> DEFINE K == Bursting(cs)
             rs == {cs[i].request : i \in K}
             f == [i \in K |-> cs[i].request]
  <1>1. IsFiniteSet(K) /\ \A i \in K : cs[i].request \in Nat /\ cs[i].request > 0
    BY WholeFacts DEF Bursting
  <1>2. \A i \in K : cs[i].request <= PodCPURequestMilli(cs)
    BY WholeFacts, RequestSum
  <1>3. IsFiniteSet(rs)
    <2>1. rs = {f[i] : i \in K}
      OBVIOUS
    <2> HIDE DEF f, rs, K
    <2> QED  BY <1>1, <2>1, FiniteImage
  <1>4. rs # {} /\ rs \subseteq Int /\ \A i \in K : cs[i].request \in rs
    BY <1>1
  <1>5. \A x \in rs : \E i \in K : cs[i].request = x
    OBVIOUS
  <1> HIDE DEF rs
  <1>6. Max(rs) \in rs /\ \A y \in rs : y <= Max(rs)
    BY <1>3, <1>4, Extremes
  <1>7. PICK i \in K : cs[i].request = Max(rs)
    BY <1>5, <1>6
  <1>8. Max(rs) \in Nat \ {0} /\ Max(rs) <= PodCPURequestMilli(cs)
    <2>1. cs[i].request \in Nat \ {0}
      BY <1>1
    <2> QED  BY <1>2, <1>7, <2>1
  <1> QED  BY <1>4, <1>6, <1>7, <1>8 DEF rs

\* A target above the requests raises some container of the largest request: it comes
\* first for the leftover when no floor rises.
LEMMA SplitRaisesLargest ==
    ASSUME NEW cs, Whole(cs), Bursting(cs) # {}, NEW target \in Nat,
           target > PodCPURequestMilli(cs), NEW parts \in Splits(target, cs)
    PROVE  \E i \in Bursting(cs) :
              parts[i] >= Max({cs[j].request : j \in Bursting(cs)}) + 1
  <1> DEFINE K == Bursting(cs)
             R == PodCPURequestMilli(cs)
             L == Max({cs[j].request : j \in K})
             base(j) == BaseShare(target, cs, j)
             rem(j) == Remainder(target, cs, j)
             b == [j \in K |-> base(j)]
             q == [j \in K |-> cs[j].request]
  <1>1. PICK W \in LeftoverSets(target, cs) :
           parts = [j \in K |-> base(j) + (IF j \in W THEN 1 ELSE 0)]
    BY DEF Splits
  <1>2. /\ W \in SUBSET K /\ Cardinality(W) = Greatest(target - SumFunction(b), 0)
        /\ \A x \in W, y \in K \ W : rem(x) > rem(y) \/ rem(x) = rem(y)
    BY <1>1 DEF LeftoverSets
  <1>3. L \in Nat \ {0} /\ L <= R /\ \A j \in K : cs[j].request <= L
    BY LargestRequest
  <1>4. PICK k \in K : cs[k].request = L
    BY LargestRequest
  <1>5. R \in Nat \ {0} /\ R = SumFunction(q) /\ IsFiniteSet(K)
    BY RequestSum, WholeFacts
  <1>6. ASSUME NEW j \in K
        PROVE  /\ cs[j].request \in Nat \ {0} /\ base(j) \in Nat /\ rem(j) \in Nat /\ rem(j) < R
               /\ R * base(j) + rem(j) = target * cs[j].request
               /\ base(j) >= cs[j].request
    <2>1. target >= R
      BY <1>5
    <2> QED  BY <2>1, ShareDivides, ShareBounds
  <1>7. \A j \in K : parts[j] = base(j) + (IF j \in W THEN 1 ELSE 0)
    BY <1>1
  <1>8. \A j \in K : b[j] = base(j) /\ q[j] = cs[j].request
    OBVIOUS
  <1>9. SumFunction(b) = SumFunctionOnSet(b, K) /\ SumFunction(q) = SumFunctionOnSet(q, K)
    BY DEF SumFunction
  <1> HIDE DEF K, R, L, base, rem, b, q
  <1>10. CASE base(k) >= L + 1
    <2>1. parts[k] >= L + 1
      BY <1>3, <1>6, <1>7, <1>10
    <2> QED  BY <2>1 DEF K, L
  <1>11. CASE ~(base(k) >= L + 1)
    <2> DEFINE extra == target - R
    <2>0. extra \in Nat \ {0} /\ target = R + extra
      BY <1>5 DEF R
    <2> HIDE DEF extra
    <2>1. base(k) = L /\ rem(k) = extra * L
      <3>1. base(k) = L
        BY <1>3, <1>4, <1>6, <1>11
      <3>2. R * L + rem(k) = (R + extra) * L
        BY <1>4, <1>6, <2>0, <3>1
      <3>3. (R + extra) * L = R * L + extra * L /\ R * L \in Nat /\ extra * L \in Nat
        BY <1>3, <1>5, <2>0
      <3> QED  BY <1>6, <3>1, <3>2, <3>3
    <2>2. ASSUME NEW j \in K PROVE base(j) = cs[j].request /\ rem(j) = extra * cs[j].request
      <3> DEFINE r == cs[j].request
                 x == extra * r
      <3>1. r \in Nat /\ r <= L /\ R * base(j) + rem(j) = (R + extra) * r /\ base(j) >= r
        BY <1>3, <1>6, <2>0
      <3> HIDE DEF r
      <3>2. x \in Nat /\ extra * L \in Nat /\ x <= extra * L
        <4>1. r * extra <= L * extra
          BY <1>3, <2>0, <3>1, TimesMonotone
        <4>2. r * extra = x /\ L * extra = extra * L
          BY <1>3, <2>0, <3>1
        <4> QED  BY <1>3, <2>0, <3>1, <4>1, <4>2
      <3>3. (R + extra) * r = R * r + x /\ R * r \in Nat
        BY <1>5, <2>0, <3>1
      <3> HIDE DEF x
      <3>4. x < R
        <4>1. extra * L < R
          BY <1>4, <1>6, <2>1
        <4> QED  BY <1>5, <3>2, <4>1
      <3>5. base(j) <= r
        <4>1. ASSUME ~(base(j) <= r) PROVE FALSE
          <5>1. r + 1 <= base(j) /\ base(j) \in Nat
            BY <1>6, <3>1, <4>1
          <5>2. (r + 1) * R <= base(j) * R
            BY <1>5, <3>1, <5>1, TimesMonotone
          <5>3. (r + 1) * R = R * r + R /\ base(j) * R = R * base(j) /\ R * base(j) \in Nat
            <6>1. r \in Nat /\ R \in Nat /\ base(j) \in Nat
              BY <1>5, <3>1, <5>1
            <6> QED  BY <6>1
          <5> QED  BY <1>5, <1>6, <3>1, <3>2, <3>3, <3>4, <5>2, <5>3
        <4> QED  BY <4>1
      <3>6. base(j) = r
        BY <1>6, <3>1, <3>5
      <3>7. rem(j) = x
        <4>1. R * r + rem(j) = R * r + x
          BY <3>1, <3>3, <3>6
        <4> QED  BY <1>6, <3>2, <3>3, <4>1
      <3> QED  BY <3>6, <3>7 DEF r, x
    <2>3. SumFunction(b) = R
      <3>1. \A j \in K : q[j] \in Int /\ b[j] = q[j]
        BY <1>6, <1>8, <2>2
      <3>2. SumFunctionOnSet(b, K) = SumFunctionOnSet(q, K)
        BY <1>5, <3>1, SumAgrees
      <3> QED  BY <1>5, <1>9, <3>2
    <2>4. W # {}
      <3>1. Cardinality(W) = extra
        BY <1>2, <1>5, <2>0, <2>3 DEF Greatest
      <3> QED  BY <2>0, <3>1, FS_EmptySet
    <2>5. PICK w \in W : TRUE
      BY <2>4
    <2>6. PICK i \in W : cs[i].request = L
      <3>1. CASE k \in W
        BY <1>4, <3>1
      <3>2. CASE k \notin W
        <4>1. w \in K /\ (rem(w) > rem(k) \/ rem(w) = rem(k))
          BY <1>2, <1>4, <2>5, <3>2
        <4>2. cs[w].request \in Nat /\ cs[w].request <= L /\ rem(w) = extra * cs[w].request
          BY <1>3, <1>6, <2>2, <4>1
        <4> DEFINE r == cs[w].request
        <4> HIDE DEF r
        <4>3. extra * L <= extra * r
          <5>1. extra * r \in Nat /\ extra * L \in Nat
            BY <1>3, <2>0, <4>2 DEF r
          <5> QED  BY <2>1, <4>1, <4>2, <5>1 DEF r
        <4>4. L <= r
          <5>1. L \in Int /\ r \in Int /\ extra \in Nat \ {0}
            BY <1>3, <2>0, <4>2 DEF r
          <5> QED  BY <4>3, <5>1, TimesCancel
        <4>5. cs[w].request = L
          BY <1>3, <4>2, <4>4 DEF r
        <4> QED  BY <2>5, <4>5
      <3> QED  BY <3>1, <3>2
    <2>7. i \in K /\ parts[i] >= L + 1
      <3>1. i \in K
        BY <1>2
      <3> QED  BY <1>3, <1>7, <2>2, <2>6, <3>1
    <2> QED  BY <2>7 DEF K, L
  <1> QED  BY <1>10, <1>11

\* Some bursting containers, of any number there are, come before the others.
LEMMA FirstExist ==
    ASSUME NEW cs, Whole(cs), NEW target \in Nat, target >= PodCPURequestMilli(cs),
           NEW n \in 0..Cardinality(Bursting(cs))
    PROVE  \E W \in SUBSET Bursting(cs) :
              /\ Cardinality(W) = n
              /\ \A i \in W, j \in Bursting(cs) \ W :
                    \/ Remainder(target, cs, i) > Remainder(target, cs, j)
                    \/ /\ Remainder(target, cs, i) = Remainder(target, cs, j)
                       /\ cs[i].request = cs[j].request => i < j
  <1> DEFINE K == Bursting(cs)
             e == [i \in K |-> Remainder(target, cs, i)]
             before(i, j) == \/ e[i] > e[j]
                             \/ e[i] = e[j] /\ (cs[i].request = cs[j].request => i < j)
             first(W) == \A i \in W, j \in K \ W : before(i, j)
             B == {T \in SUBSET K : \A m \in 0..Cardinality(T) :
                      \E W \in SUBSET K : Cardinality(W) = m /\ first(W)}
  <1>1. IsFiniteSet(K) /\ K \subseteq Int
    BY WholeFacts
  <1>2. \A i \in K : e[i] \in Nat
    BY ShareDivides
  <1>3. \A i \in K : e[i] = Remainder(target, cs, i)
    OBVIOUS
  <1> HIDE DEF K, e
  <1>4. {} \in B
    <2>1. Cardinality({}) = 0
      BY FS_EmptySet
    <2> QED  BY <2>1
  <1>5. ASSUME NEW T \in SUBSET K, NEW x \in T, T \ {x} \in B PROVE T \in B
    <2> SUFFICES ASSUME NEW m \in 0..Cardinality(T)
                 PROVE  \E W \in SUBSET K : Cardinality(W) = m /\ first(W)
      OBVIOUS
    <2>1. /\ IsFiniteSet(T) /\ Cardinality(T) \in Nat /\ Cardinality(K) \in Nat
          /\ Cardinality(T \ {x}) = Cardinality(T) - 1 /\ Cardinality(T) <= Cardinality(K)
      BY <1>1, FS_Subset, FS_CardinalityType, FS_RemoveElement
    <2>2. Cardinality(T) - 1 \in Nat
      <3>1. IsFiniteSet(T \ {x})
        BY <2>1, FS_Subset
      <3> QED  BY <2>1, <3>1, FS_CardinalityType
    <2>3. CASE m # Cardinality(T)
      <3>1. m \in 0..Cardinality(T \ {x})
        BY <2>1, <2>2, <2>3
      <3> QED  BY <1>5, <3>1
    <2>4. CASE m = Cardinality(T)
      <3>1. Cardinality(T) - 1 \in 0..Cardinality(T \ {x})
        BY <2>1, <2>2
      <3>2. PICK W \in SUBSET K : Cardinality(W) = Cardinality(T) - 1 /\ first(W)
        BY <1>5, <3>1
      <3> DEFINE rest == K \ W
                 es == {e[i] : i \in rest}
      <3>3. IsFiniteSet(W) /\ IsFiniteSet(rest) /\ rest # {}
        <4>1. IsFiniteSet(W) /\ IsFiniteSet(rest)
          BY <1>1, FS_Subset
        <4>2. W # K
          BY <2>1, <2>2, <3>2
        <4> QED  BY <4>1, <4>2
      <3>4. IsFiniteSet(es) /\ es # {} /\ es \subseteq Int
        <4>1. IsFiniteSet(es)
          <5> HIDE DEF rest
          <5> QED  BY <3>3, FiniteImage
        <4> QED  BY <1>2, <3>3, <4>1
      <3>5. Max(es) \in es /\ \A y \in es : y <= Max(es)
        <4> HIDE DEF es
        <4> QED  BY <3>4, Extremes
      <3> DEFINE ties == {i \in rest : e[i] = Max(es)}
      <3>6. ties # {} /\ ties \subseteq Int /\ IsFiniteSet(ties)
        <4>1. ties # {} /\ ties \subseteq rest /\ rest \subseteq Int
          BY <1>1, <3>5
        <4> HIDE DEF ties, rest
        <4> QED  BY <3>3, <4>1, FS_Subset
      <3>7. Min(ties) \in ties /\ \A y \in ties : Min(ties) <= y
        <4> HIDE DEF ties
        <4> QED  BY <3>6, Extremes
      <3> DEFINE k == Min(ties)
                 V == W \cup {k}
      <3>8. k \in K /\ k \notin W /\ e[k] = Max(es)
        BY <3>7
      <3>9. ASSUME NEW j \in K \ V PROVE before(k, j)
        <4>1. j \in rest /\ j # k /\ e[j] <= e[k]
          BY <3>5, <3>8
        <4>2. CASE e[j] = e[k]
          <5>1. j \in ties /\ k <= j /\ k \in Int /\ j \in Int
            BY <1>1, <3>7, <3>8, <4>1, <4>2
          <5>2. k < j
            <6> HIDE DEF k
            <6> QED  BY <4>1, <5>1
          <5> QED  BY <4>2, <5>2
        <4>3. CASE e[j] # e[k]
          <5>1. e[k] \in Nat /\ e[j] \in Nat
            BY <1>2, <3>8
          <5> QED  BY <4>1, <4>3, <5>1
        <4> QED  BY <4>2, <4>3
      <3>10. V \in SUBSET K
        BY <3>8
      <3>11. Cardinality(V) = m
        <4> HIDE DEF k
        <4>1. Cardinality(V) = Cardinality(W) + 1
          BY <3>3, <3>8, FS_AddElement
        <4> QED  BY <2>1, <2>4, <3>2, <4>1
      <3> HIDE DEF k, ties, es, before
      <3>12. first(V)
        <4>1. ASSUME NEW i \in W, NEW j \in K \ V PROVE before(i, j)
          BY <3>2
        <4> QED  BY <3>9, <4>1
      <3> QED  BY <3>10, <3>11, <3>12
    <2> QED  BY <2>3, <2>4
  <1>6. B = SUBSET K
    <2>1. B \in SUBSET (SUBSET K)
      OBVIOUS
    <2>2. \A T \in SUBSET K : \A x \in T : T \ {x} \in B => T \in B
      <3> HIDE DEF B
      <3> QED  BY <1>5
    <2> HIDE DEF B
    <2> QED  BY <1>1, <1>4, <2>1, <2>2, ElementInduction
  <1>7. K \in B
    <2> HIDE DEF B
    <2> QED  BY <1>6
  <1>8. PICK W \in SUBSET K : Cardinality(W) = n /\ first(W)
    BY <1>7 DEF K
  <1>9. \A i \in W, j \in K \ W :
           \/ Remainder(target, cs, i) > Remainder(target, cs, j)
           \/ /\ Remainder(target, cs, i) = Remainder(target, cs, j)
              /\ cs[i].request = cs[j].request => i < j
    BY <1>3, <1>8
  <1> QED  BY <1>8, <1>9 DEF K

\* splitLimit (podinput.go), for any containers and any target that covers the requests:
\* its largest remainders are always enough to hand the leftover out one by one, the parts
\* add up to the target, each covers its request, and each is less than one milli-core from
\* the container's exact share.
THEOREM SplitIsProportional ==
    ASSUME NEW cs \in Seq(Container), Bursting(cs) # {},
           NEW target \in Nat, target >= PodCPURequestMilli(cs)
    PROVE  /\ Splits(target, cs) # {}
           /\ \A parts \in Splits(target, cs) :
                 /\ DOMAIN parts = Bursting(cs) /\ SumFunction(parts) = target
                 /\ \A i \in Bursting(cs) :
                       /\ parts[i] >= cs[i].request
                       /\ (parts[i] - 1) * PodCPURequestMilli(cs) < target * cs[i].request
                       /\ target * cs[i].request < (parts[i] + 1) * PodCPURequestMilli(cs)
  <1>0. Whole(cs)
    BY WholeIsSeq
  <1>1. Splits(target, cs) # {}
    <2> DEFINE base == SumFunction([i \in Bursting(cs) |-> BaseShare(target, cs, i)])
    <2>1. target - base \in Nat /\ target - base <= Cardinality(Bursting(cs))
      BY <1>0, LeftoverBounds
    <2>2. Cardinality(Bursting(cs)) \in Nat
      BY <1>0, WholeFacts, FS_CardinalityType
    <2>3. Greatest(target - base, 0) = target - base
      <3> HIDE DEF base
      <3> QED  BY <2>1 DEF Greatest
    <2>4. target - base \in 0..Cardinality(Bursting(cs))
      <3> HIDE DEF base
      <3> QED  BY <2>1, <2>2
    <2>5. LeftoverSets(target, cs) # {}
      <3>1. PICK W \in SUBSET Bursting(cs) :
               /\ Cardinality(W) = target - base
               /\ \A i \in W, j \in Bursting(cs) \ W :
                     \/ Remainder(target, cs, i) > Remainder(target, cs, j)
                     \/ /\ Remainder(target, cs, i) = Remainder(target, cs, j)
                        /\ cs[i].request = cs[j].request => i < j
        <4> HIDE DEF base
        <4> QED  BY <1>0, <2>4, FirstExist
      <3>2. W \in LeftoverSets(target, cs)
        BY <2>3, <3>1 DEF LeftoverSets
      <3> QED  BY <3>2
    <2>6. PICK W : W \in LeftoverSets(target, cs)
      BY <2>5
    <2>7. [i \in Bursting(cs) |-> BaseShare(target, cs, i) + (IF i \in W THEN 1 ELSE 0)]
             \in Splits(target, cs)
      BY <2>6 DEF Splits
    <2> QED  BY <2>7
  <1>2. ASSUME NEW parts \in Splits(target, cs), NEW i \in Bursting(cs)
        PROVE  /\ (parts[i] - 1) * PodCPURequestMilli(cs) < target * cs[i].request
               /\ target * cs[i].request < (parts[i] + 1) * PodCPURequestMilli(cs)
    <2> DEFINE R == PodCPURequestMilli(cs)
               r == cs[i].request
               b == BaseShare(target, cs, i)
               e == Remainder(target, cs, i)
    <2>1. /\ r \in Nat \ {0} /\ R \in Nat \ {0} /\ b \in Nat /\ e \in Nat /\ e < R
          /\ R * b + e = target * r
      BY <1>0, ShareDivides
    <2>2. parts[i] = b \/ parts[i] = b + 1
      BY <2>1 DEF Splits
    <2>3. parts[i] \in Nat /\ parts[i] >= r
      BY <1>0, SplitParts
    <2>4. ~(target * r <= (parts[i] - 1) * R)
      <3> DEFINE m == parts[i] - 1
      <3>1. m \in Nat /\ ~(parts[i] <= m)
        BY <2>1, <2>3
      <3> HIDE DEF m
      <3>2. ~(target * r <= m * R)
        BY <1>0, <3>1, SplitCeil
      <3> QED  BY <3>2 DEF m
    <2> HIDE DEF R, r, b, e
    <2>5. target * r < (parts[i] + 1) * R
      <3>1. (b + 1) * R <= (parts[i] + 1) * R
        <4>1. b + 1 \in Nat /\ parts[i] + 1 \in Nat /\ R \in Nat /\ b + 1 <= parts[i] + 1
          BY <2>1, <2>2
        <4> QED  BY <4>1, TimesMonotone
      <3>2. (b + 1) * R = R * b + R /\ R * b \in Nat
        BY <2>1
      <3>3. (parts[i] + 1) * R \in Nat
        BY <2>1, <2>3
      <3> QED  BY <2>1, <3>1, <3>2, <3>3
    <2>6. (parts[i] - 1) * R < target * r
      <3>1. (parts[i] - 1) * R \in Int /\ target * r \in Int
        BY <2>1, <2>3
      <3> QED  BY <2>4, <3>1
    <2> QED  BY <2>5, <2>6 DEF R, r
  <1>3. ASSUME NEW parts \in Splits(target, cs)
        PROVE  /\ DOMAIN parts = Bursting(cs) /\ SumFunction(parts) = target
               /\ \A i \in Bursting(cs) : parts[i] >= cs[i].request
    BY <1>0, SplitParts, SplitAddsUp
  <1> QED  BY <1>1, <1>2, <1>3

-----------------------------------------------------------------------------
(* The limit of a pod, as LimitRanger adds it up.                            *)

\* The sum over a set is that over a part of it and that over the rest.
LEMMA SumSplits ==
    ASSUME NEW S, IsFiniteSet(S), NEW U \in SUBSET S, NEW f, \A x \in S : f[x] \in Int
    PROVE  /\ SumFunctionOnSet(f, U) \in Int /\ SumFunctionOnSet(f, S \ U) \in Int
           /\ SumFunctionOnSet(f, S) = SumFunctionOnSet(f, U) + SumFunctionOnSet(f, S \ U)
  <1> DEFINE V == S \ U
             g == [x \in S |-> IF x \in U THEN f[x] ELSE 0]
             h == [x \in S |-> IF x \in U THEN 0 ELSE f[x]]
  <1>1. \A x \in S : /\ g[x] = (IF x \in U THEN f[x] ELSE 0)
                     /\ h[x] = (IF x \in U THEN 0 ELSE f[x])
    OBVIOUS
  <1> HIDE DEF g, h
  <1>2. V \in SUBSET S /\ IsFiniteSet(U) /\ IsFiniteSet(V)
    BY FS_Subset
  <1>3. \A x \in S : g[x] \in Int /\ h[x] \in Int /\ f[x] = 1 * g[x] + 1 * h[x]
    BY <1>1
  <1>4. SumFunctionOnSet(f, S) = 1 * SumFunctionOnSet(g, S) + 1 * SumFunctionOnSet(h, S)
    <2> DEFINE t == [x \in S |-> 1 * g[x] + 1 * h[x]]
    <2>1. \A x \in S : g[x] \in Int /\ h[x] \in Int /\ t[x] = 1 * g[x] + 1 * h[x]
      BY <1>3
    <2>2. \A x \in S : f[x] \in Int /\ t[x] = f[x]
      BY <1>3
    <2> HIDE DEF t
    <2>3. SumFunctionOnSet(t, S) = SumFunctionOnSet(f, S)
      BY <2>2, SumAgrees
    <2>4. SumFunctionOnSet(t, S) = 1 * SumFunctionOnSet(g, S) + 1 * SumFunctionOnSet(h, S)
      BY <2>1, SumLinear
    <2> QED  BY <2>3, <2>4
  <1>5. SumFunctionOnSet(g, S) = SumFunctionOnSet(g, U)
    <2>1. \A x \in S \ U : g[x] = 0
      BY <1>1
    <2> QED  BY <1>3, <2>1, SumOfRest
  <1>6. SumFunctionOnSet(h, S) = SumFunctionOnSet(h, V)
    <2>1. \A x \in S \ V : h[x] = 0
      BY <1>1
    <2> HIDE DEF V
    <2> QED  BY <1>2, <1>3, <2>1, SumOfRest
  <1>7. SumFunctionOnSet(g, U) = SumFunctionOnSet(f, U) /\ SumFunctionOnSet(f, U) \in Int
    <2>1. \A x \in U : f[x] \in Int /\ g[x] = f[x]
      BY <1>1
    <2> QED  BY <1>2, <2>1, SumAgrees, SumLaws
  <1>8. SumFunctionOnSet(h, V) = SumFunctionOnSet(f, V) /\ SumFunctionOnSet(f, V) \in Int
    <2>1. \A x \in V : f[x] \in Int /\ h[x] = f[x]
      BY <1>1
    <2> HIDE DEF V
    <2> QED  BY <1>2, <2>1, SumAgrees, SumLaws
  <1> QED  BY <1>4, <1>5, <1>6, <1>7, <1>8

\* A patch makes of the pod's limit the sum of its parts and what it leaves alone.
LEMMA PatchedTotal ==
    ASSUME NEW cs, Whole(cs), NEW parts, DOMAIN parts = Bursting(cs),
           \A i \in Bursting(cs) : parts[i] \in Nat
    PROVE  LET ds == Patched(cs, parts)
           IN  /\ Untouched(cs) \in Nat /\ SumFunction(parts) \in Nat
               /\ SumFunction([i \in ResizableContainers(ds) |-> ds[i].limit])
                     = SumFunction(parts) + Untouched(cs)
  <1> DEFINE ds == Patched(cs, parts)
             K == Bursting(cs)
             S == ResizableContainers(cs)
             f == [i \in S |-> ds[i].limit]
             u == [i \in S \ K |-> cs[i].limit]
  <1>1. IsFiniteSet(S) /\ K \in SUBSET S /\ S \subseteq DOMAIN cs /\ IsFiniteSet(K)
        /\ \A i \in DOMAIN cs : cs[i].limit \in Nat
    BY WholeFacts
  <1>2. /\ SameFrame(cs, ds)
        /\ \A i \in DOMAIN cs : ds[i].limit = IF i \in K THEN parts[i] ELSE cs[i].limit
    BY PatchFrame
  <1>3. ResizableContainers(ds) = S
    BY <1>2, FrameSums
  <1>4. Untouched(cs) = SumFunctionOnSet(u, S \ K)
    BY DEF Untouched, SumFunction
  <1>5. SumFunction(f) = SumFunctionOnSet(f, S) /\ SumFunction(parts) = SumFunctionOnSet(parts, K)
    BY DEF SumFunction
  <1>6. /\ \A i \in S : f[i] = ds[i].limit
        /\ \A i \in S \ K : u[i] = cs[i].limit
    OBVIOUS
  <1>7. SumFunction([i \in ResizableContainers(ds) |-> ds[i].limit]) = SumFunction(f)
    BY <1>3
  <1> HIDE DEF ds, f, u, K, S
  <1>8. \A i \in S : f[i] \in Int /\ (i \in K => f[i] = parts[i] /\ parts[i] \in Nat)
                    /\ (i \notin K => f[i] = cs[i].limit /\ cs[i].limit \in Nat)
    BY <1>1, <1>2, <1>6 DEF K
  <1>9. SumFunctionOnSet(f, S) = SumFunctionOnSet(f, K) + SumFunctionOnSet(f, S \ K)
    BY <1>1, <1>8, SumSplits
  <1>10. SumFunctionOnSet(f, K) = SumFunctionOnSet(parts, K) /\ SumFunctionOnSet(parts, K) \in Nat
    <2>1. \A i \in K : parts[i] \in Int /\ parts[i] \in Nat /\ f[i] = parts[i]
      BY <1>1, <1>8
    <2>2. K \in SUBSET K
      OBVIOUS
    <2> QED  BY <1>1, <2>1, <2>2, SumAgrees, SumOfNats
  <1>11. SumFunctionOnSet(f, S \ K) = SumFunctionOnSet(u, S \ K) /\ SumFunctionOnSet(u, S \ K) \in Nat
    <2> DEFINE V == S \ K
    <2>1. \A i \in V : u[i] \in Int /\ u[i] \in Nat /\ f[i] = u[i]
      BY <1>6, <1>8
    <2>2. V \in SUBSET V /\ IsFiniteSet(V)
      BY <1>1, FS_Subset
    <2> HIDE DEF V
    <2>3. SumFunctionOnSet(f, V) = SumFunctionOnSet(u, V) /\ SumFunctionOnSet(u, V) \in Nat
      BY <2>1, <2>2, SumAgrees, SumOfNats
    <2> QED  BY <2>3 DEF V
  <1>12. SumFunction(f) = SumFunction(parts) + Untouched(cs)
    BY <1>4, <1>5, <1>9, <1>10, <1>11
  <1> QED  BY <1>4, <1>5, <1>7, <1>10, <1>11, <1>12 DEF ds

\* Without a sidecar before an init container, what runs together and each init
\* container by itself bound the pod's limit.
LEMMA PeakBounded ==
    ASSUME NEW cs, Whole(cs), PeakApart(cs)
    PROVE  /\ PodLimits(cs) \in Nat
           /\ \A m \in Int :
                 PodLimits(cs) <= m <=>
                    /\ SumFunction([i \in ResizableContainers(cs) |-> cs[i].limit]) <= m
                    /\ \A i \in DOMAIN cs : cs[i].kind = "init" => cs[i].limit <= m
  <1> DEFINE total(S) == SumFunction([i \in S |-> cs[i]["limit"]])
             before(i) == {j \in 1..(i - 1) : cs[j].kind = "sidecar"}
             peak(i) == cs[i]["limit"] + total(before(i))
             inits == {j \in DOMAIN cs : cs[j].kind = "init"}
             run == total(ResizableContainers(cs))
             all == {run} \cup {peak(i) : i \in inits}
             lone == [i \in inits |-> cs[i].limit]
  <1>1. PodLimits(cs) = Max(all)
    BY DEF PodLimits, PodTotal
  <1>2. run = SumFunction([i \in ResizableContainers(cs) |-> cs[i].limit])
    OBVIOUS
  <1>3. run \in Nat
    <2> DEFINE S == ResizableContainers(cs)
               f == [i \in S |-> cs[i]["limit"]]
    <2>1. IsFiniteSet(S) /\ S \in SUBSET S /\ \A i \in S : cs[i].limit \in Nat
      BY WholeFacts
    <2>2. DOMAIN f = S /\ \A i \in S : f[i] \in Nat
      BY <2>1
    <2>3. run = SumFunctionOnSet(f, S)
      BY <2>2 DEF SumFunction
    <2> HIDE DEF S, f, run
    <2> QED  BY <2>1, <2>2, <2>3, SumOfNats
  <1>4. ASSUME NEW i \in inits PROVE peak(i) = lone[i] /\ lone[i] \in Nat
    <2>1. before(i) = {}
      <3>1. PICK n \in Nat : DOMAIN cs = 1..n
        BY DEF Whole
      <3>2. i \in 1..n /\ cs[i].kind = "init"
        BY <3>1
      <3>3. ASSUME NEW j \in 1..(i - 1), cs[j].kind = "sidecar" PROVE FALSE
        <4>1. j \in 1..n /\ j < i
          BY <3>2
        <4>2. i < j
          BY <3>1, <3>2, <3>3, <4>1 DEF PeakApart
        <4> QED  BY <3>2, <4>1, <4>2
      <3> QED  BY <3>3
    <2>2. total({}) = 0
      <3> DEFINE f == [j \in {} |-> cs[j]["limit"]]
      <3>1. DOMAIN f = {} /\ \A j \in {} : f[j] \in Int
        OBVIOUS
      <3> HIDE DEF f
      <3>2. SumFunctionOnSet(f, {}) = 0
        BY <3>1, FS_EmptySet, SumLaws
      <3>3. SumFunction(f) = 0
        BY <3>1, <3>2 DEF SumFunction
      <3> QED  BY <3>3 DEF f
    <2>3. cs[i].limit \in Nat /\ lone[i] = cs[i].limit
      BY WholeFacts
    <2>4. peak(i) = cs[i].limit + 0
      <3>1. peak(i) = cs[i].limit + total(before(i))
        OBVIOUS
      <3> HIDE DEF total, before, peak
      <3> QED  BY <2>1, <2>2, <3>1
    <2> HIDE DEF peak, lone
    <2> QED  BY <2>3, <2>4
  <1>5. \A i \in inits : lone[i] = cs[i].limit
    OBVIOUS
  <1>6. IsFiniteSet(inits)
    <2>1. inits \subseteq DOMAIN cs
      OBVIOUS
    <2> HIDE DEF inits
    <2> QED  BY <2>1, WholeFacts, FS_Subset
  <1>7. \A i \in DOMAIN cs : i \in inits <=> cs[i].kind = "init"
    OBVIOUS
  <1>8. inits \subseteq DOMAIN cs
    OBVIOUS
  <1> HIDE DEF total, peak, inits, run, lone
  <1>9. all = {run} \cup {lone[i] : i \in inits}
    BY <1>4
  <1>10. IsFiniteSet(all)
    <2>1. IsFiniteSet({run}) /\ IsFiniteSet({lone[i] : i \in inits})
      BY <1>6, FiniteImage, FiniteParts
    <2> QED  BY <1>9, <2>1, FiniteParts
  <1>11. all # {} /\ all \subseteq Nat /\ all \subseteq Int
    BY <1>3, <1>4, <1>9
  <1>12. /\ run \in all
         /\ \A i \in inits : lone[i] \in all
         /\ \A y \in all : y = run \/ \E i \in inits : y = lone[i]
    BY <1>9
  <1> HIDE DEF all
  <1>13. Max(all) \in all /\ \A y \in all : y <= Max(all)
    BY <1>10, <1>11, Extremes
  <1>14. ASSUME NEW m \in Int
         PROVE  Max(all) <= m <=> run <= m /\ \A i \in inits : lone[i] <= m
    <2>1. Max(all) \in Nat /\ run \in Nat /\ \A i \in inits : lone[i] \in Nat
      BY <1>3, <1>4, <1>11, <1>13
    <2>2. ASSUME Max(all) <= m PROVE run <= m /\ \A i \in inits : lone[i] <= m
      <3>1. run <= Max(all) /\ \A i \in inits : lone[i] <= Max(all)
        BY <1>12, <1>13
      <3> QED  BY <2>1, <2>2, <3>1
    <2>3. ASSUME run <= m, \A i \in inits : lone[i] <= m PROVE Max(all) <= m
      BY <1>12, <1>13, <2>3
    <2> QED  BY <2>2, <2>3
  <1>15. Max(all) \in Nat
    BY <1>11, <1>13
  <1> QED  BY <1>1, <1>2, <1>5, <1>7, <1>8, <1>14, <1>15

-----------------------------------------------------------------------------
(* What a LimitRange item asks of a patch.                                   *)

\* LimitRanger's verdict on one item.
ItemAdmits(item, cs) ==
    IF item.type = "Container"
    THEN \A i \in DOMAIN cs : Within(item, cs[i].request, cs[i].limit)
    ELSE Within(item, PodRequests(cs), PodLimits(cs))

\* What it asks of the parts of a target.
PartsWithin(item, cs, parts, target) ==
    IF item.type = "Container"
    THEN \A i \in Bursting(cs) :
            /\ item.max > 0 => parts[i] <= item.max
            /\ item.ratio > 0 => parts[i] <= RatioLimitMilli(item.ratio, cs[i].request)
    ELSE /\ item.max > 0 => target + Untouched(cs) <= item.max
         /\ item.ratio > 0 =>
               target + Untouched(cs) <= RatioLimitMilli(item.ratio, PodRequests(cs))

\* The pod that a split's patch makes.
LEMMA PatchedPod ==
    ASSUME NEW cs, Whole(cs), PeakApart(cs), Bursting(cs) # {},
           NEW target \in Nat, target >= PodCPURequestMilli(cs),
           NEW parts \in Splits(target, cs)
    PROVE  LET ds == Patched(cs, parts)
           IN  /\ DOMAIN ds = DOMAIN cs /\ PodRequests(ds) = PodRequests(cs)
               /\ \A i \in DOMAIN cs :
                     /\ ds[i].request = cs[i].request /\ ds[i].kind = cs[i].kind
                     /\ ds[i].memory = cs[i].memory
                     /\ ds[i].limit = IF i \in Bursting(cs) THEN parts[i] ELSE cs[i].limit
               /\ Untouched(cs) \in Nat /\ PodLimits(ds) \in Nat
               /\ target + Untouched(cs) <= PodLimits(ds) /\ PodLimits(ds) > 0
               /\ \A m \in Int :
                     PodLimits(ds) <= m <=>
                        /\ target + Untouched(cs) <= m
                        /\ \A i \in DOMAIN cs : cs[i].kind = "init" => cs[i].limit <= m
  <1> DEFINE ds == Patched(cs, parts)
             U == Untouched(cs)
             run == SumFunction([i \in ResizableContainers(ds) |-> ds[i].limit])
  <1>1. DOMAIN parts = Bursting(cs) /\ \A i \in Bursting(cs) : parts[i] \in Nat
    BY SplitParts
  <1>2. SumFunction(parts) = target
    BY SplitAddsUp
  <1>3. /\ Whole(ds) /\ SameFrame(cs, ds)
        /\ \A i \in DOMAIN cs : ds[i].limit = IF i \in Bursting(cs) THEN parts[i] ELSE cs[i].limit
    BY <1>1, PatchFrame
  <1>4. PodRequests(ds) = PodRequests(cs)
    BY <1>3, FrameSums
  <1>5. U \in Nat /\ run = target + U
    BY <1>1, <1>2, PatchedTotal
  <1>6. \A i \in DOMAIN cs : cs[i].kind = "init" => i \notin Bursting(cs)
    BY DEF Bursting, ResizableContainers
  <1>7. /\ DOMAIN ds = DOMAIN cs
        /\ \A i \in DOMAIN cs : /\ ds[i].request = cs[i].request /\ ds[i].kind = cs[i].kind
                                 /\ ds[i].memory = cs[i].memory
    BY <1>3 DEF SameFrame
  <1>8. PodCPURequestMilli(cs) \in Nat /\ PodCPURequestMilli(cs) > 0
    BY RequestSum
  <1> HIDE DEF ds, U
  <1>9. PeakApart(ds)
    BY <1>7 DEF PeakApart
  <1>10. /\ PodLimits(ds) \in Nat
         /\ \A m \in Int :
               PodLimits(ds) <= m <=>
                  run <= m /\ \A i \in DOMAIN ds : ds[i].kind = "init" => ds[i].limit <= m
    BY <1>3, <1>9, PeakBounded
  <1> HIDE DEF run
  <1>11. ASSUME NEW m \in Int
         PROVE  PodLimits(ds) <= m <=>
                   /\ target + U <= m
                   /\ \A i \in DOMAIN cs : cs[i].kind = "init" => cs[i].limit <= m
    BY <1>3, <1>5, <1>6, <1>7, <1>10
  <1>12. target + U <= PodLimits(ds)
    <2>1. PodLimits(ds) \in Int /\ PodLimits(ds) <= PodLimits(ds)
      BY <1>10
    <2> QED  BY <1>11, <2>1
  <1>13. PodLimits(ds) > 0
    BY <1>5, <1>8, <1>10, <1>12
  <1> QED  BY <1>3, <1>4, <1>5, <1>7, <1>10, <1>11, <1>12, <1>13 DEF ds, U

\* An item that admits a patch bounds its parts.
LEMMA AdmittedWithin ==
    ASSUME NEW cs, Whole(cs), PeakApart(cs), Bursting(cs) # {},
           NEW target \in Nat, target >= PodCPURequestMilli(cs),
           NEW parts \in Splits(target, cs), NEW item \in RangeItem,
           ItemAdmits(item, Patched(cs, parts))
    PROVE  PartsWithin(item, cs, parts, target)
  <1> DEFINE ds == Patched(cs, parts)
             U == Untouched(cs)
             P == PodRequests(cs)
  <1>1. /\ DOMAIN ds = DOMAIN cs /\ PodRequests(ds) = P
        /\ \A i \in DOMAIN cs :
              /\ ds[i].request = cs[i].request
              /\ ds[i].limit = IF i \in Bursting(cs) THEN parts[i] ELSE cs[i].limit
        /\ U \in Nat /\ PodLimits(ds) \in Nat /\ target + U <= PodLimits(ds)
    BY PatchedPod
  <1>2. item.max \in Nat /\ item.ratio \in Nat /\ P \in Nat
    BY RequestsTyped DEF RangeItem
  <1>3. /\ \A i \in Bursting(cs) : i \in DOMAIN cs /\ parts[i] \in Nat /\ cs[i].request \in Nat
    BY SplitParts, WholeFacts
  <1>4. ASSUME NEW r \in Nat, NEW l \in Nat, Within(item, r, l)
        PROVE  /\ item.max > 0 => l <= item.max
               /\ item.ratio > 0 => l <= RatioLimitMilli(item.ratio, r)
    BY <1>2, <1>4, RatioLimitLargest DEF Within
  <1>5. RatioLimitMilli(item.ratio, P) \in Int
    BY <1>2, RatioLimitLargest
  <1> HIDE DEF ds, U, P
  <1>6. CASE item.type = "Container"
    <2>1. ASSUME NEW i \in Bursting(cs) PROVE Within(item, cs[i].request, parts[i])
      <3>1. Within(item, ds[i].request, ds[i].limit)
        BY <1>1, <1>3, <1>6 DEF ItemAdmits, ds
      <3> QED  BY <1>1, <1>3, <3>1
    <2> QED  BY <1>3, <1>4, <1>6, <2>1 DEF PartsWithin
  <1>7. CASE item.type # "Container"
    <2>1. Within(item, P, PodLimits(ds))
      BY <1>1, <1>7 DEF ItemAdmits, ds
    <2>2. /\ item.max > 0 => PodLimits(ds) <= item.max
          /\ item.ratio > 0 => PodLimits(ds) <= RatioLimitMilli(item.ratio, P)
      BY <1>1, <1>2, <1>4, <2>1
    <2>3. /\ item.max > 0 => target + U <= item.max
          /\ item.ratio > 0 => target + U <= RatioLimitMilli(item.ratio, P)
      BY <1>1, <1>2, <1>5, <2>2
    <2> QED  BY <1>7, <2>3 DEF PartsWithin, U, P
  <1> QED  BY <1>6, <1>7

\* An item that admits some patch admits every other whose parts keep within it: the
\* containers no patch touches are the same.
LEMMA WithinAdmitted ==
    ASSUME NEW cs, Whole(cs), PeakApart(cs), Bursting(cs) # {},
           NEW target \in Nat, target >= PodCPURequestMilli(cs),
           NEW parts \in Splits(target, cs),
           NEW rival \in Nat, rival >= PodCPURequestMilli(cs),
           NEW rivals \in Splits(rival, cs), NEW item \in RangeItem,
           ItemAdmits(item, Patched(cs, rivals)),
           PartsWithin(item, cs, parts, target)
    PROVE  ItemAdmits(item, Patched(cs, parts))
  <1> DEFINE ds == Patched(cs, parts)
             es == Patched(cs, rivals)
             U == Untouched(cs)
             P == PodRequests(cs)
  <1>1. /\ DOMAIN ds = DOMAIN cs /\ PodRequests(ds) = P
        /\ \A i \in DOMAIN cs :
              /\ ds[i].request = cs[i].request
              /\ ds[i].limit = IF i \in Bursting(cs) THEN parts[i] ELSE cs[i].limit
        /\ U \in Nat /\ PodLimits(ds) \in Nat /\ PodLimits(ds) > 0
        /\ \A m \in Int :
              PodLimits(ds) <= m <=>
                 /\ target + U <= m
                 /\ \A i \in DOMAIN cs : cs[i].kind = "init" => cs[i].limit <= m
    BY PatchedPod
  <1>2. /\ DOMAIN es = DOMAIN cs /\ PodRequests(es) = P
        /\ \A i \in DOMAIN cs :
              /\ es[i].request = cs[i].request
              /\ es[i].limit = IF i \in Bursting(cs) THEN rivals[i] ELSE cs[i].limit
        /\ PodLimits(es) \in Nat
        /\ \A m \in Int :
              PodLimits(es) <= m =>
                 \A i \in DOMAIN cs : cs[i].kind = "init" => cs[i].limit <= m
    BY PatchedPod
  <1>3. item.max \in Nat /\ item.ratio \in Nat /\ P \in Nat
    BY RequestsTyped DEF RangeItem
  <1>4. \A i \in Bursting(cs) :
           /\ i \in DOMAIN cs /\ parts[i] \in Nat /\ parts[i] > 0
           /\ cs[i].request \in Nat /\ cs[i].request > 0
    <2>1. \A i \in Bursting(cs) : /\ i \in DOMAIN cs /\ cs[i].request \in Nat
                                  /\ parts[i] \in Nat /\ parts[i] >= cs[i].request
      BY SplitParts, WholeFacts
    <2>2. \A i \in Bursting(cs) : cs[i].request > 0
      BY DEF Bursting
    <2> QED  BY <2>1, <2>2
  <1>5. ASSUME NEW r \in Nat, NEW l \in Nat, l > 0,
               item.max > 0 => r <= item.max, item.ratio > 0 => r > 0,
               item.max > 0 => l <= item.max,
               item.ratio > 0 => l <= RatioLimitMilli(item.ratio, r)
        PROVE  Within(item, r, l)
    <2>1. ~PastRatio(l, r, item.ratio) <=> l <= RatioLimitMilli(item.ratio, r)
      BY <1>3, RatioLimitLargest
    <2> QED  BY <1>5, <2>1 DEF Within
  <1>6. RatioLimitMilli(item.ratio, P) \in Int
    BY <1>3, RatioLimitLargest
  <1> HIDE DEF ds, es, U, P
  <1>7. CASE item.type = "Container"
    <2>1. ASSUME NEW i \in DOMAIN ds PROVE Within(item, ds[i].request, ds[i].limit)
      <3>1. i \in DOMAIN cs /\ Within(item, es[i].request, es[i].limit)
        BY <1>1, <1>2, <1>7 DEF ItemAdmits, es
      <3>2. CASE i \notin Bursting(cs)
        <4>1. ds[i].request = es[i].request /\ ds[i].limit = es[i].limit
          BY <1>1, <1>2, <3>1, <3>2
        <4> QED  BY <3>1, <4>1
      <3>3. CASE i \in Bursting(cs)
        <4>1. ds[i].request = cs[i].request /\ ds[i].limit = parts[i] /\ es[i].request = cs[i].request
          BY <1>1, <1>2, <3>1, <3>3
        <4>2. item.max > 0 => cs[i].request <= item.max
          BY <3>1, <4>1 DEF Within
        <4>3. /\ item.max > 0 => parts[i] <= item.max
              /\ item.ratio > 0 => parts[i] <= RatioLimitMilli(item.ratio, cs[i].request)
          BY <1>7, <3>3 DEF PartsWithin
        <4>4. Within(item, cs[i].request, parts[i])
          BY <1>4, <1>5, <3>3, <4>2, <4>3
        <4> QED  BY <4>1, <4>4
      <3> QED  BY <3>2, <3>3
    <2> QED  BY <1>7, <2>1 DEF ItemAdmits, ds
  <1>8. CASE item.type # "Container"
    <2>1. Within(item, P, PodLimits(es))
      BY <1>2, <1>8 DEF ItemAdmits, es
    <2>2. /\ item.max > 0 => PodLimits(es) <= item.max /\ P <= item.max
          /\ item.ratio > 0 => P > 0 /\ ~PastRatio(PodLimits(es), P, item.ratio)
      BY <2>1 DEF Within
    <2>3. item.ratio > 0 => PodLimits(es) <= RatioLimitMilli(item.ratio, P)
      BY <1>2, <1>3, <2>2, RatioLimitLargest
    <2>4. /\ item.max > 0 => target + U <= item.max
          /\ item.ratio > 0 => target + U <= RatioLimitMilli(item.ratio, P)
      BY <1>8 DEF PartsWithin, U, P
    <2>5. item.max > 0 => PodLimits(ds) <= item.max
      BY <1>1, <1>2, <1>3, <2>2, <2>4
    <2>6. item.ratio > 0 => PodLimits(ds) <= RatioLimitMilli(item.ratio, P)
      BY <1>1, <1>2, <1>6, <2>3, <2>4
    <2>7. Within(item, P, PodLimits(ds))
      BY <1>1, <1>3, <1>5, <2>2, <2>5, <2>6
    <2> QED  BY <1>1, <1>8, <2>7 DEF ItemAdmits, ds
  <1> QED  BY <1>7, <1>8

\* A ratio admits some limit of any request that it admits at all.
LEMMA RatioLimitNat ==
    ASSUME NEW ratio \in Nat \ {0}, NEW r \in Nat \ {0}
    PROVE  RatioLimitMilli(ratio, r) \in Nat
  <1>1. /\ RatioLimitMilli(ratio, r) \in Int
        /\ ~PastRatio(0, r, ratio) <=> 0 <= RatioLimitMilli(ratio, r)
    BY RatioLimitLargest
  <1>2. ratio * r \in Nat /\ ratio * r > 0
    OBVIOUS
  <1>3. <<0, r, ratio>> \notin InexactRatios
    BY <1>2, InexactAssumption
  <1>4. ~PastRatio(0, r, ratio)
    BY <1>2, <1>3 DEF PastRatio
  <1> QED  BY <1>1, <1>4

\* A quotient that covers a number.
LEMMA QuotientCovers ==
    ASSUME NEW a \in Nat, NEW q \in Nat \ {0}, NEW t \in Nat, t <= a \div q
    PROVE  t * q <= a
  <1>1. a \div q \in Nat /\ (a \div q) * q <= a
    BY Division
  <1> DEFINE k == a \div q
  <1> HIDE DEF k
  <1>2. t * q <= k * q /\ k * q \in Nat /\ t * q \in Nat
    BY <1>1, TimesMonotone DEF k
  <1> QED  BY <1>1, <1>2 DEF k

\* limitRangeCapMilli: a target under each cap of an item is split within it, however the
\* remainders fall.
LEMMA CapsKeepWithin ==
    ASSUME NEW cs, Whole(cs), Bursting(cs) # {},
           NEW target \in Nat, target >= PodCPURequestMilli(cs),
           NEW parts \in Splits(target, cs), NEW item \in RangeItem,
           \A cap \in ItemCaps(cs, item) : target <= cap
    PROVE  PartsWithin(item, cs, parts, target)
  <1> DEFINE R == PodCPURequestMilli(cs)
             L == Max({cs[i].request : i \in Bursting(cs)})
             U == Untouched(cs)
  <1>1. item.max \in Nat /\ item.ratio \in Nat /\ PodRequests(cs) \in Nat
    BY RequestsTyped DEF RangeItem
  <1>2. L \in Nat \ {0} /\ \A i \in Bursting(cs) : cs[i].request <= L
    BY LargestRequest
  <1>3. R \in Nat \ {0} /\ \A i \in Bursting(cs) : cs[i].request \in Nat \ {0}
    BY ShareDivides
  <1>4. U \in Nat
    BY SplitParts, PatchedTotal
  <1>5. CASE item.type = "Container"
    <2>1. item.max > 0 => (item.max * R) \div L \in ItemCaps(cs, item)
      BY <1>5 DEF ItemCaps
    <2>2. ASSUME item.ratio > 0, NEW i \in Bursting(cs)
          PROVE  (RatioLimitMilli(item.ratio, cs[i].request) * R) \div cs[i].request
                    \in ItemCaps(cs, item)
      BY <1>5, <2>2 DEF ItemCaps, ContainerRatioCaps
    <2> HIDE DEF R, L
    <2>3. ASSUME item.max > 0, NEW i \in Bursting(cs) PROVE parts[i] <= item.max
      <3> DEFINE r == cs[i].request
      <3>1. item.max * R \in Nat /\ target <= (item.max * R) \div L
        BY <1>1, <1>3, <2>1, <2>3
      <3>2. target * L <= item.max * R
        BY <1>2, <3>1, QuotientCovers
      <3>3. r * target <= L * target
        <4>1. r \in Nat /\ L \in Nat /\ r <= L
          BY <1>2, <1>3
        <4> HIDE DEF r
        <4> QED  BY <4>1, TimesMonotone
      <3>4. r \in Nat
        BY <1>3
      <3> HIDE DEF r
      <3>5. r * target = target * r /\ L * target = target * L
        BY <1>2, <3>4
      <3>6. target * r \in Nat /\ target * L \in Nat
        BY <1>2, <3>4
      <3>7. target * r <= item.max * R
        BY <3>1, <3>2, <3>3, <3>5, <3>6
      <3> QED  BY <1>1, <3>7, SplitCeil DEF R, r
    <2>4. ASSUME item.ratio > 0, NEW i \in Bursting(cs)
          PROVE  parts[i] <= RatioLimitMilli(item.ratio, cs[i].request)
      <3> DEFINE r == cs[i].request
                 m == RatioLimitMilli(item.ratio, r)
      <3>1. m \in Nat /\ r \in Nat \ {0}
        BY <1>1, <1>3, <2>4, RatioLimitNat
      <3>2. target <= (m * R) \div r
        BY <2>2, <2>4
      <3> HIDE DEF r, m
      <3>3. m * R \in Nat
        BY <1>3, <3>1
      <3>4. target * r <= m * R
        BY <3>1, <3>2, <3>3, QuotientCovers
      <3>5. parts[i] <= m
        BY <3>1, <3>4, SplitCeil DEF R, r
      <3> QED  BY <3>5 DEF m, r
    <2> QED  BY <1>5, <2>3, <2>4 DEF PartsWithin
  <1>6. CASE item.type # "Container"
    <2>1. /\ item.max > 0 => target <= item.max - U
          /\ item.ratio > 0 => target <= RatioLimitMilli(item.ratio, PodRequests(cs)) - U
      BY <1>6 DEF ItemCaps
    <2>2. RatioLimitMilli(item.ratio, PodRequests(cs)) \in Int
      BY <1>1, RatioLimitLargest
    <2>3. /\ item.max > 0 => target + U <= item.max
          /\ item.ratio > 0 => target + U <= RatioLimitMilli(item.ratio, PodRequests(cs))
      BY <1>1, <1>4, <2>1, <2>2
    <2> QED  BY <1>6, <2>3 DEF PartsWithin
  <1> QED  BY <1>5, <1>6

\* The requests themselves keep within whatever some patch keeps within.
LEMMA RequestsKeepWithin ==
    ASSUME NEW cs, Whole(cs), Bursting(cs) # {},
           NEW parts \in Splits(PodCPURequestMilli(cs), cs),
           NEW rival \in Nat, rival >= PodCPURequestMilli(cs),
           NEW rivals \in Splits(rival, cs), NEW item \in RangeItem,
           PartsWithin(item, cs, rivals, rival)
    PROVE  PartsWithin(item, cs, parts, PodCPURequestMilli(cs))
  <1> DEFINE R == PodCPURequestMilli(cs)
             U == Untouched(cs)
  <1>1. item.max \in Nat /\ item.ratio \in Nat /\ PodRequests(cs) \in Nat /\ R \in Nat
    BY RequestsTyped, RequestSum DEF RangeItem
  <1>2. \A i \in Bursting(cs) : /\ parts[i] = cs[i].request /\ cs[i].request \in Nat
                                /\ rivals[i] \in Nat /\ rivals[i] >= cs[i].request
    BY SplitAtRequest, SplitParts, WholeFacts
  <1>3. U \in Nat
    BY SplitParts, PatchedTotal
  <1>4. \A r \in Nat : RatioLimitMilli(item.ratio, r) \in Int
    BY <1>1, RatioLimitLargest
  <1>5. CASE item.type = "Container"
    <2>1. ASSUME NEW i \in Bursting(cs)
          PROVE  /\ item.max > 0 => parts[i] <= item.max
                 /\ item.ratio > 0 => parts[i] <= RatioLimitMilli(item.ratio, cs[i].request)
      <3>1. /\ item.max > 0 => rivals[i] <= item.max
            /\ item.ratio > 0 => rivals[i] <= RatioLimitMilli(item.ratio, cs[i].request)
        BY <1>5 DEF PartsWithin
      <3>2. RatioLimitMilli(item.ratio, cs[i].request) \in Int
        BY <1>2, <1>4
      <3> QED  BY <1>1, <1>2, <3>1, <3>2
    <2> QED  BY <1>5, <2>1 DEF PartsWithin
  <1>6. CASE item.type # "Container"
    <2>1. /\ item.max > 0 => rival + U <= item.max
          /\ item.ratio > 0 => rival + U <= RatioLimitMilli(item.ratio, PodRequests(cs))
      BY <1>6 DEF PartsWithin
    <2>2. RatioLimitMilli(item.ratio, PodRequests(cs)) \in Int /\ rival >= R
      BY <1>1, <1>4
    <2> HIDE DEF R, U
    <2>3. /\ item.max > 0 => R + U <= item.max
          /\ item.ratio > 0 => R + U <= RatioLimitMilli(item.ratio, PodRequests(cs))
      BY <1>1, <1>3, <2>1, <2>2
    <2> QED  BY <1>6, <2>3 DEF PartsWithin, R, U
  <1> QED  BY <1>5, <1>6

\* A factor above its divisor lifts a quotient above the other factor.
LEMMA QuotientAbove ==
    ASSUME NEW m \in Nat, NEW r \in Nat \ {0}, NEW R \in Nat, r <= R, m >= r + 1
    PROVE  (m * R) \div r > R
  <1>1. (r + 1) * R <= m * R
    BY TimesMonotone
  <1>2. (r + 1) * R = r * R + R /\ (R + 1) * r = r * R + r /\ m * R \in Nat /\ r * R \in Nat
    OBVIOUS
  <1> DEFINE a == m * R
  <1>3. a \in Nat /\ (R + 1) * r <= a
    <2>1. (R + 1) * r <= (r + 1) * R
      BY <1>2
    <2>2. (R + 1) * r \in Nat /\ (r + 1) * R \in Nat
      BY <1>2
    <2> HIDE DEF a
    <2> QED  BY <1>1, <1>2, <2>1, <2>2 DEF a
  <1> HIDE DEF a
  <1>4. R + 1 <= a \div r
    BY <1>3, DivisionGreatest
  <1>5. a \div r \in Nat
    BY <1>3, Division
  <1> QED  BY <1>4, <1>5 DEF a

\* Where a target above the requests keeps within a ratio of whole limits, the ratio
\* leaves each container room above its request.
LEMMA WholeRatioLifts ==
    ASSUME NEW cs, Whole(cs), Bursting(cs) # {},
           NEW rival \in Nat, rival > PodCPURequestMilli(cs),
           NEW rivals \in Splits(rival, cs), NEW ratio \in Nat \ {0},
           \A i \in Bursting(cs) : (ratio * cs[i].request) % 1000 = 0,
           \A i \in Bursting(cs) : rivals[i] <= RatioLimitMilli(ratio, cs[i].request),
           NEW k \in Bursting(cs)
    PROVE  RatioLimitMilli(ratio, cs[k].request) >= cs[k].request + 1
  <1> DEFINE K == Bursting(cs)
             R == PodCPURequestMilli(cs)
             M(i) == RatioLimitMilli(ratio, cs[i].request)
             exact(i) == (ratio * cs[i].request) \div 1000
  <1>1. R \in Nat /\ rival >= R
    <2>1. R \in Nat /\ rival > R
      BY RequestSum
    <2> HIDE DEF R
    <2> QED  BY <2>1
  <1>2. \A i \in K : cs[i].request \in Nat \ {0}
    BY <1>1, ShareDivides
  <1>3. \A i \in K : rivals[i] \in Nat /\ rivals[i] >= cs[i].request
    BY SplitParts
  <1>4. \A i \in K : M(i) \in Nat /\ rivals[i] <= M(i)
    BY <1>2, RatioLimitNat
  <1>5. ASSUME NEW i \in K
        PROVE  exact(i) \in Nat /\ exact(i) * 1000 = ratio * cs[i].request
    <2> DEFINE a == ratio * cs[i].request
    <2>1. a \in Nat /\ a % 1000 = 0
      BY <1>2
    <2> HIDE DEF a
    <2>2. a \div 1000 \in Nat /\ 1000 * (a \div 1000) + (a % 1000) = a
      BY <2>1, Modulo
    <2>3. (a \div 1000) * 1000 = a
      BY <2>1, <2>2
    <2> QED  BY <2>2, <2>3 DEF a
  <1>6. ASSUME NEW i \in K
        PROVE  \/ M(i) = exact(i)
               \/ M(i) = exact(i) - 1 /\ <<exact(i), cs[i].request, ratio>> \in InexactRatios
    <2>1. M(i) = IF PastRatio(exact(i), cs[i].request, ratio) THEN exact(i) - 1 ELSE exact(i)
      BY DEF RatioLimitMilli
    <2>2. PastRatio(exact(i), cs[i].request, ratio) <=>
             \/ exact(i) * 1000 > ratio * cs[i].request
             \/ <<exact(i), cs[i].request, ratio>> \in InexactRatios
      BY DEF PastRatio
    <2>3. ~(exact(i) * 1000 > ratio * cs[i].request)
      <3>1. exact(i) \in Nat /\ exact(i) * 1000 = ratio * cs[i].request
        BY <1>5
      <3> HIDE DEF exact
      <3> QED  BY <3>1
    <2> HIDE DEF M, exact
    <2> QED  BY <2>1, <2>2, <2>3
  <1> HIDE DEF M, exact, K
  <1> SUFFICES ASSUME ~(M(k) >= cs[k].request + 1) PROVE FALSE
    BY DEF M
  <1>7. k \in K
    BY DEF K
  <1>8. M(k) = cs[k].request
    <2>1. M(k) \in Nat /\ cs[k].request \in Nat /\ rivals[k] \in Nat
          /\ rivals[k] <= M(k) /\ rivals[k] >= cs[k].request
      BY <1>2, <1>3, <1>4, <1>7
    <2> QED  BY <2>1
  <1>9. exact(k) = cs[k].request
    <2> SUFFICES ASSUME exact(k) # cs[k].request PROVE FALSE
      OBVIOUS
    <2>1. exact(k) = cs[k].request + 1 /\ <<exact(k), cs[k].request, ratio>> \in InexactRatios
      BY <1>2, <1>5, <1>6, <1>7, <1>8
    <2> DEFINE x == <<exact(k), cs[k].request, ratio>>
    <2>2. x[1] = exact(k) /\ x[2] = cs[k].request
      OBVIOUS
    <2>3. x[1] # x[2] + 1
      <3> HIDE DEF x
      <3>1. x \in InexactRatios
        BY <2>1 DEF x
      <3> QED  BY <3>1, InexactAssumption
    <2> QED  BY <2>1, <2>2, <2>3
  <1>10. ratio = 1000
    <2> DEFINE r == cs[k].request
    <2>1. r \in Nat \ {0} /\ r * 1000 = ratio * r
      BY <1>2, <1>5, <1>7, <1>9
    <2> HIDE DEF r
    <2>2. r * 1000 = r * ratio
      BY <2>1
    <2>3. 1000 <= ratio /\ ratio <= 1000
      <3>1. r * 1000 <= r * ratio /\ r * ratio <= r * 1000
        BY <2>1, <2>2
      <3> QED  BY <2>1, <3>1, TimesCancel
    <2> QED  BY <2>3
  <1>11. ASSUME NEW i \in K PROVE rivals[i] = cs[i].request
    <2>1. exact(i) = cs[i].request
      BY <1>2, <1>5, <1>10
    <2>2. M(i) = exact(i) \/ M(i) = exact(i) - 1
      BY <1>6, Zenon
    <2>3. cs[i].request \in Nat /\ M(i) \in Nat /\ rivals[i] \in Nat
          /\ rivals[i] <= M(i) /\ rivals[i] >= cs[i].request
      BY <1>2, <1>3, <1>4
    <2> QED  BY <2>1, <2>2, <2>3
  <1>12. rival = R
    <2>1. SumFunction(rivals) = rival
      BY <1>1, SplitAddsUp
    <2>2. R = SumFunction([i \in K |-> cs[i].request])
      BY RequestSum DEF K
    <2>3. rivals = [i \in K |-> rivals[i]]
      BY DEF Splits, K
    <2>4. rivals = [i \in K |-> cs[i].request]
      BY <1>11, <2>3
    <2> QED  BY <2>1, <2>2, <2>4
  <1> QED  BY <1>1, <1>12

\* Where a target above the requests keeps within an item, but for a fractional ratio, no
\* cap of the item holds the pod at its requests.
LEMMA RoomLiftsCaps ==
    ASSUME NEW cs, Whole(cs), Bursting(cs) # {},
           NEW rival \in Nat, rival > PodCPURequestMilli(cs),
           NEW rivals \in Splits(rival, cs), NEW item \in RangeItem,
           PartsWithin(item, cs, rivals, rival),
           item.type = "Container" =>
              \A i \in Bursting(cs) : (item.ratio * cs[i].request) % 1000 = 0,
           NEW cap \in ItemCaps(cs, item)
    PROVE  cap > PodCPURequestMilli(cs)
  <1> DEFINE R == PodCPURequestMilli(cs)
             L == Max({cs[i].request : i \in Bursting(cs)})
             U == Untouched(cs)
             P == PodRequests(cs)
  <1>1. /\ item.max \in Nat /\ item.ratio \in Nat /\ P \in Nat /\ R \in Nat
        /\ item.type \in {"Container", "Pod"}
    BY RequestsTyped, RequestSum DEF RangeItem
  <1>2. L \in Nat \ {0} /\ L <= R
    BY LargestRequest
  <1>3. \A i \in Bursting(cs) : cs[i].request \in Nat \ {0} /\ cs[i].request <= R
    <2>1. rival >= R
      BY <1>1
    <2> QED  BY <2>1, ShareDivides
  <1>4. CASE item.type = "Container"
    <2>1. \/ item.max > 0 /\ cap = (item.max * R) \div L
          \/ item.ratio > 0 /\ \E i \in Bursting(cs) :
                cap = (RatioLimitMilli(item.ratio, cs[i].request) * R) \div cs[i].request
      BY <1>4 DEF ItemCaps, ContainerRatioCaps
    <2>2. CASE item.max > 0 /\ cap = (item.max * R) \div L
      <3>1. PICK i \in Bursting(cs) : rivals[i] >= L + 1
        BY SplitRaisesLargest
      <3>2. rivals[i] <= item.max /\ rivals[i] \in Nat
        BY <1>4, <2>2, SplitParts DEF PartsWithin
      <3> HIDE DEF L, R
      <3>3. item.max >= L + 1
        BY <1>1, <1>2, <3>1, <3>2
      <3>4. (item.max * R) \div L > R
        BY <1>1, <1>2, <3>3, QuotientAbove
      <3> QED  BY <2>2, <3>4 DEF R
    <2>3. CASE item.ratio > 0 /\ \E i \in Bursting(cs) :
                 cap = (RatioLimitMilli(item.ratio, cs[i].request) * R) \div cs[i].request
      <3>1. PICK i \in Bursting(cs) :
               cap = (RatioLimitMilli(item.ratio, cs[i].request) * R) \div cs[i].request
        BY <2>3
      <3> DEFINE r == cs[i].request
                 m == RatioLimitMilli(item.ratio, r)
      <3>2. m >= r + 1
        <4>1. \A j \in Bursting(cs) : rivals[j] <= RatioLimitMilli(item.ratio, cs[j].request)
          BY <1>4, <2>3 DEF PartsWithin
        <4>2. item.ratio \in Nat \ {0}
          BY <1>1, <2>3
        <4> QED  BY <1>4, <4>1, <4>2, WholeRatioLifts
      <3>3. m \in Nat /\ r \in Nat \ {0} /\ r <= R
        BY <1>1, <1>3, <2>3, RatioLimitNat
      <3>4. cap = (m * R) \div r
        BY <3>1
      <3> HIDE DEF r, m, R
      <3>5. (m * R) \div r > R
        BY <1>1, <3>2, <3>3, QuotientAbove
      <3> QED  BY <3>4, <3>5 DEF R
    <2> QED  BY <2>1, <2>2, <2>3
  <1>5. CASE item.type # "Container"
    <2>1. \/ item.max > 0 /\ cap = item.max - U
          \/ item.ratio > 0 /\ cap = RatioLimitMilli(item.ratio, P) - U
      BY <1>5 DEF ItemCaps
    <2>2. /\ item.max > 0 => rival + U <= item.max
          /\ item.ratio > 0 => rival + U <= RatioLimitMilli(item.ratio, P)
      BY <1>5 DEF PartsWithin
    <2>3. RatioLimitMilli(item.ratio, P) \in Int
      BY <1>1, RatioLimitLargest
    <2>4. U \in Nat
      BY SplitParts, PatchedTotal
    <2>5. rival > R
      OBVIOUS
    <2> HIDE DEF U, R, P
    <2>6. cap > R
      BY <1>1, <2>1, <2>2, <2>3, <2>4, <2>5
    <2> QED  BY <2>6 DEF R
  <1> QED  BY <1>4, <1>5

-----------------------------------------------------------------------------
(* A target and the cap it was decided under.                                *)

\* The cap above the request is the tightest of the items'; none means no rule at all.
LEMMA RangeCapMeans ==
    ASSUME NEW cs, Whole(cs), Bursting(cs) # {},
           NEW items, IsFiniteSet(items), items \subseteq RangeItem
    PROVE  LET C == LimitRangeCapMilli(cs, items)
               R == PodCPURequestMilli(cs)
           IN  /\ C \in Nat
               /\ C = 0 => \A item \in items : ItemCaps(cs, item) = {}
               /\ C > R => \A item \in items : \A cap \in ItemCaps(cs, item) : C <= cap
               /\ C # 0 /\ (\A item \in items : \A cap \in ItemCaps(cs, item) : cap > R)
                     => C > R
  <1> DEFINE sets == {ItemCaps(cs, item) : item \in items}
             caps == UNION sets
             C == LimitRangeCapMilli(cs, items)
             R == PodCPURequestMilli(cs)
  <1>1. R \in Nat /\ R > 0
    BY RequestSum
  <1>2. C \in Nat
    BY RangeCapTyped
  <1>3. /\ \A item \in items : \A cap \in ItemCaps(cs, item) : cap \in caps
        /\ \A cap \in caps : \E item \in items : cap \in ItemCaps(cs, item)
    OBVIOUS
  <1>4. CASE caps = {}
    <2>1. C = 0
      BY <1>4 DEF LimitRangeCapMilli
    <2> HIDE DEF caps, C, R
    <2>2. \A item \in items : ItemCaps(cs, item) = {}
      BY <1>3, <1>4
    <2>3. ~(C > R)
      BY <1>1, <2>1
    <2> QED  BY <1>2, <2>1, <2>2, <2>3 DEF C, R
  <1>5. CASE caps # {}
    <2>1. \A T \in sets : IsFiniteSet(T) /\ T \subseteq Int
      BY ItemCapsTyped
    <2>2. IsFiniteSet(sets)
      <3> DEFINE f == [item \in items |-> ItemCaps(cs, item)]
      <3>1. sets = {f[item] : item \in items}
        OBVIOUS
      <3> HIDE DEF f, sets
      <3> QED  BY <3>1, FiniteImage
    <2>3. C = Max({Min(caps), 1})
      BY <1>5 DEF LimitRangeCapMilli
    <2> HIDE DEF sets
    <2>4. IsFiniteSet(caps) /\ caps \subseteq Int
      BY <2>1, <2>2, FS_UNION
    <2> HIDE DEF caps, C, R
    <2>5. Min(caps) \in caps /\ \A cap \in caps : Min(caps) <= cap
      BY <1>5, <2>4, Extremes
    <2> DEFINE least == Min(caps)
               two == {least, 1}
    <2>6. least \in Int /\ least \in caps /\ \A cap \in caps : least <= cap
      BY <2>4, <2>5
    <2> HIDE DEF least
    <2>7. IsFiniteSet(two)
      <3>1. two = {least} \cup {1}
        OBVIOUS
      <3> HIDE DEF two
      <3>2. IsFiniteSet({least}) /\ IsFiniteSet({1})
        BY FiniteParts
      <3>3. IsFiniteSet({least} \cup {1})
        BY <3>2, FiniteParts
      <3> QED  BY <3>1, <3>3
    <2>8. two # {} /\ two \subseteq Int /\ 1 \in two /\ least \in two
          /\ \A x \in two : x = least \/ x = 1
      BY <2>6
    <2>9. C = Max(two)
      BY <2>3 DEF least
    <2> HIDE DEF two
    <2>10. C \in two /\ 1 <= C /\ least <= C
      <3>1. Max(two) \in two /\ \A y \in two : y <= Max(two)
        BY <2>7, <2>8, Extremes
      <3> QED  BY <2>8, <2>9, <3>1
    <2>11. C # 0
      BY <1>2, <2>10
    <2>12. C > R => \A cap \in caps : C <= cap
      <3> SUFFICES ASSUME C > R PROVE \A cap \in caps : C <= cap
        OBVIOUS
      <3>1. C = least
        BY <1>1, <1>2, <2>8, <2>10
      <3> QED  BY <2>6, <3>1
    <2>13. (\A cap \in caps : cap > R) => C > R
      <3> SUFFICES ASSUME \A cap \in caps : cap > R PROVE C > R
        OBVIOUS
      <3>1. least > R
        BY <2>6
      <3> QED  BY <1>1, <1>2, <2>6, <2>10, <3>1
    <2> QED  BY <1>2, <1>3, <2>11, <2>12, <2>13 DEF C, R
  <1> QED  BY <1>4, <1>5

\* A cap above the request holds the target; one at it or below leaves the request, but
\* for a pod that has to stay above it.
LEMMA TargetUnderCap ==
    ASSUME NEW p \in Pod, PodCPURequestMilli(p.containers) > 0, settings \in SettingSets,
           others \in Bookings, cachedRanges \in RangeSets
    PROVE  LET C == LimitRangeCapMilli(p.containers, cachedRanges)
               R == PodCPURequestMilli(p.containers)
               T == DecisionFor(p).target
           IN  /\ C > R => T <= C
               /\ C # 0 /\ ~(C > R) /\ ~GuaranteedAtRequest(p.containers) => T = R
  <1> DEFINE ps == InputsFor(p)
             c == settings.policy
             R == PodCPURequestMilli(p.containers)
             C == LimitRangeCapMilli(p.containers, cachedRanges)
             T == DecisionFor(p).target
             floor == GuaranteedAtRequest(p.containers)
             in == ps["pod"]
  <1>1. /\ Booking(ps) /\ DOMAIN ps = {"pod", "others"}
        /\ in = BuildPodInput(p, cachedRanges)
    BY InputsBooked
  <1>2. Allocatable \in Nat /\ c \in PolicyConfig
    BY ShapeAssumption
  <1>3. /\ in.managed /\ in.request = R /\ in.rangeCap = C /\ in.userCap = p.cap
        /\ in.aboveRequest <=> floor
    BY <1>1 DEF BuildPodInput
  <1>4. DecisionFor(p) = Compute(Allocatable, ps, c)["pod"]
    BY DEF DecisionFor, InputsFor
  <1>5. R \in Nat /\ C \in Nat /\ p.cap \in Nat
    <2>1. Whole(p.containers) /\ p.cap \in Nat
      BY PodWhole
    <2> QED  BY <2>1, RequestSum, RangeCapTyped, ShapeAssumption
  <1> HIDE DEF ps, c, R, C, floor
  <1>6. "pod" \in DOMAIN Compute(Allocatable, ps, c)
    <2>1. DOMAIN Compute(Allocatable, ps, c) = {k \in DOMAIN ps : ps[k].managed}
      BY ComputeDecides
    <2>2. "pod" \in DOMAIN ps /\ ps["pod"].managed
      BY <1>1, <1>3
    <2> QED  BY <2>1, <2>2
  <1>7. T \in Nat /\ WithinBounds(in, T, Allocatable, c)
    <2>1. /\ Compute(Allocatable, ps, c)["pod"] \in [target: Nat, apply: BOOLEAN]
          /\ WithinBounds(ps["pod"], Compute(Allocatable, ps, c)["pod"].target, Allocatable, c)
      BY <1>1, <1>2, <1>6, ComputeBounded
    <2> QED  BY <1>4, <2>1
  <1> HIDE DEF T, in
  <1>8. C > R => T <= C
    BY <1>3, <1>7 DEF WithinBounds
  <1>9. ASSUME C # 0, ~(C > R), ~floor PROVE T = R
    <2>1. T >= R /\ T <= Ceiling(R, Allocatable, CapMilli(in), c)
      BY <1>3, <1>7, <1>9 DEF WithinBounds
    <2>2. CapMilli(in) \in Nat /\ CapMilli(in) > 0 /\ CapMilli(in) <= R
      BY <1>3, <1>5, <1>9 DEF CapMilli, Least
    <2>3. /\ Ceiling(R, Allocatable, CapMilli(in), c) \in Nat
          /\ Ceiling(R, Allocatable, CapMilli(in), c) <= Greatest(CapMilli(in), R)
      BY <1>2, <1>5, <2>2, CeilingTyped
    <2>4. Greatest(CapMilli(in), R) = R
      BY <1>5, <2>2 DEF Greatest
    <2> QED  BY <1>5, <1>7, <2>1, <2>3, <2>4
  <1> QED  BY <1>8, <1>9 DEF C, R, T, floor

-----------------------------------------------------------------------------
(* The inductive invariant.                                                  *)

\* A pod that admission has let through: whole, its limits covering its requests,
\* under a chain of owners as it was created with.
Sound(p) ==
    /\ p \in Pod
    /\ Covered(p.containers)
    /\ p.topOwner # Absent => TwoLevels(p)

WorldTyped ==
    /\ settings \in SettingSets
    /\ ranges \in RangeSets /\ cachedRanges \in RangeSets
    /\ vpas \in VPASets
    /\ others \in Bookings
    /\ changes \in 0..MaxChanges
    /\ birth \in {"none", "plain", "seeded", "refused", "blocked"}

PodSound == pod # Absent => Sound(pod)

PatchTyped == patch # Absent => patch \in [target: Nat, listed: Pod, fresh: BOOLEAN]

\* A fresh patch is what a pass would decide on now.
PatchCurrent ==
    patch # Absent /\ patch.fresh =>
       /\ pod # Absent /\ Managed(pod, settings, vpas)
       /\ cachedRanges = ranges
       /\ patch.target = DecisionFor(pod).target

SeedCurrent == birth = "seeded" => pod # Absent /\ Managed(pod, settings, vpas)

PodInv == WorldTyped /\ PodSound /\ PatchTyped /\ PatchCurrent /\ SeedCurrent

LEMMA PodInvInit == Init => PodInv
  BY ShapeAssumption DEF Init, PodInv, WorldTyped, PodSound, PatchTyped, PatchCurrent, SeedCurrent

\* Whole and covered containers make a sound pod of a sound pod.
LEMMA SoundWith ==
    ASSUME NEW p, Sound(p), NEW ds, Whole(ds), Covered(ds)
    PROVE  Sound([p EXCEPT !.containers = ds])
  <1> DEFINE q == [p EXCEPT !.containers = ds]
  <1>1. /\ q \in Pod /\ q.containers = ds
        /\ q.owners = p.owners /\ q.topOwner = p.topOwner
    <2>1. p \in Pod /\ ds \in Seq(Container)
      BY WholeIsSeq DEF Sound
    <2> QED  BY <2>1 DEF Pod
  <1> HIDE DEF q
  <1>2. q.topOwner # Absent => TwoLevels(q)
    BY <1>1 DEF Sound, TwoLevels
  <1>3. Sound(q)
    BY <1>1, <1>2 DEF Sound
  <1> QED  BY <1>3 DEF q

\* Someone else's change leaves a patch that is no longer fresh.
LEMMA ChangeStales ==
    ASSUME PodInv, Change
    PROVE  /\ changes' \in 0..MaxChanges /\ birth' = "none"
           /\ patch' # Absent => /\ patch' \in [target: Nat, listed: Pod, fresh: BOOLEAN]
                                 /\ ~patch'.fresh
  <1>1. changes' \in 0..MaxChanges /\ birth' = "none"
    <2>1. changes \in 0..MaxChanges /\ MaxChanges \in Nat
      BY ShapeAssumption DEF PodInv, WorldTyped
    <2> QED  BY <2>1 DEF Change
  <1>2. CASE patch = Absent
    BY <1>1, <1>2 DEF Change
  <1>3. CASE patch # Absent
    <2>1. patch \in [target: Nat, listed: Pod, fresh: BOOLEAN]
      BY <1>3 DEF PodInv, PatchTyped
    <2>2. patch' = [patch EXCEPT !.fresh = FALSE]
      BY <1>3 DEF Change
    <2> QED  BY <1>1, <2>1, <2>2
  <1> QED  BY <1>2, <1>3

LEMMA DecideResizeStep == PodInv /\ DecideResize => PodInv'
  <1> SUFFICES ASSUME PodInv, DecideResize PROVE PodInv'
    OBVIOUS
  <1>1. /\ UNCHANGED <<pod, settings, ranges, cachedRanges, vpas, others, birth, changes>>
        /\ pod # Absent /\ Managed(pod, settings, vpas)
        /\ patch' = [target |-> DecisionFor(pod).target, listed |-> pod,
                     fresh |-> cachedRanges = ranges]
    BY DEF DecideResize
  <1>2. WorldTyped' /\ PodSound' /\ SeedCurrent'
    BY <1>1 DEF PodInv, WorldTyped, PodSound, SeedCurrent
  <1>3. DecisionFor(pod).target \in Nat /\ pod \in Pod
    <2>1. pod \in Pod /\ PodCPURequestMilli(pod.containers) > 0
      BY <1>1 DEF PodInv, PodSound, Sound, Managed
    <2>2. DecisionFor(pod) \in [target: Nat, apply: BOOLEAN]
      BY <2>1, DecisionBounds DEF PodInv, WorldTyped
    <2> QED  BY <2>1, <2>2
  <1>4. DecisionFor(pod)' = DecisionFor(pod)
    BY <1>1 DEF DecisionFor, OthersInput
  <1>5. PatchTyped'
    <2>1. (cachedRanges = ranges) \in BOOLEAN
      OBVIOUS
    <2> QED  BY <1>1, <1>3, <2>1 DEF PatchTyped
  <1>6. PatchCurrent'
    <2>1. patch'.fresh => cachedRanges' = ranges'
      BY <1>1
    <2>2. patch'.target = DecisionFor(pod)'.target
      BY <1>1, <1>4
    <2> QED  BY <1>1, <2>1, <2>2 DEF PatchCurrent
  <1> QED  BY <1>2, <1>5, <1>6 DEF PodInv

LEMMA ResizeStep == PodInv /\ Resize => PodInv'
  <1> SUFFICES ASSUME PodInv, Resize PROVE PodInv'
    OBVIOUS
  <1>1. /\ patch # Absent /\ patch' = Absent /\ birth' = "none"
        /\ UNCHANGED <<settings, ranges, cachedRanges, vpas, others, changes>>
    BY DEF Resize
  <1>2. WorldTyped' /\ PatchTyped' /\ PatchCurrent' /\ SeedCurrent'
    BY <1>1 DEF PodInv, WorldTyped, PatchTyped, PatchCurrent, SeedCurrent
  <1>3. PICK p \in {patch.listed, pod} \ {Absent} :
           \E parts \in Splits(patch.target, p.containers) :
              pod' = IF pod # Absent /\ Admits(parts)
                     THEN [pod EXCEPT !.containers = Patched(@, parts)] ELSE pod
    BY DEF Resize
  <1>4. PICK parts \in Splits(patch.target, p.containers) :
           pod' = IF pod # Absent /\ Admits(parts)
                  THEN [pod EXCEPT !.containers = Patched(@, parts)] ELSE pod
    BY <1>3
  <1>5. CASE ~(pod # Absent /\ Admits(parts))
    <2>1. pod' = pod
      BY <1>4, <1>5
    <2> QED  BY <1>2, <2>1 DEF PodInv, PodSound
  <1>6. CASE pod # Absent /\ Admits(parts)
    <2> DEFINE ds == Patched(pod.containers, parts)
    <2>1. Sound(pod) /\ pod \in Pod
      BY <1>6 DEF PodInv, PodSound, Sound
    <2>2. patch \in [target: Nat, listed: Pod, fresh: BOOLEAN]
      BY <1>1 DEF PodInv, PatchTyped
    <2>3. Whole(p.containers)
      BY <2>1, <2>2, PodWhole
    <2>4. \A i \in DOMAIN parts : parts[i] \in Nat
      BY <2>2, <2>3, SplitParts
    <2>5. Whole(ds)
      BY <2>1, <2>4, PodWhole, PatchFrame
    <2>6. Covered(ds)
      BY <1>6 DEF Admits, ResizeValid, Covered
    <2>7. pod' = [pod EXCEPT !.containers = ds]
      BY <1>4, <1>6
    <2> HIDE DEF ds
    <2>8. Sound(pod')
      BY <2>1, <2>5, <2>6, <2>7, SoundWith
    <2>9. PodSound'
      BY <2>8 DEF PodSound, Sound, Covered, TwoLevels
    <2> QED  BY <1>2, <2>9 DEF PodInv
  <1> QED  BY <1>5, <1>6

LEMMA CreateStep ==
    ASSUME PodInv, NEW shape \in PodShapes, NEW answered \in BOOLEAN, Create(shape, answered)
    PROVE  PodInv'
  <1> DEFINE cs == shape.containers
             ds == LimitRangerDefaults(cs, ranges)
             plain == [shape EXCEPT !.containers = LimitRangerDefaults(@, ranges)]
             seeded == IF answered
                       THEN [plain EXCEPT !.containers = Default(plain, settings, vpas)]
                       ELSE plain
  <1>1. /\ pod = Absent
        /\ pod' = IF LimitRangerAdmits(seeded.containers, ranges) THEN seeded ELSE Absent
        /\ birth' = CASE pod' = Absent /\ LimitRangerAdmits(plain.containers, ranges) -> "blocked"
                      [] pod' = Absent -> "refused"
                      [] pod' # Absent /\ seeded # plain -> "seeded"
                      [] OTHER -> "plain"
        /\ UNCHANGED <<settings, ranges, cachedRanges, vpas, others, patch, changes>>
    BY DEF Create
  <1>2. Sound(shape) /\ Whole(cs)
    BY ShapeAssumption, PodWhole DEF Sound, Covered
  <1>3. settings \in SettingSets /\ IsFiniteSet(ranges) /\ ranges \subseteq RangeItem
    BY ShapeAssumption DEF PodInv, WorldTyped
  <1>4. Whole(ds)
    BY <1>2, <1>3, DefaultsGiven
  <1>5. plain \in Pod /\ plain.containers = ds /\ plain = [shape EXCEPT !.containers = ds]
    <2>1. ds \in Seq(Container)
      BY <1>4, WholeIsSeq
    <2>2. plain = [shape EXCEPT !.containers = ds]
      OBVIOUS
    <2> HIDE DEF ds, plain
    <2> QED  BY <1>2, <2>1, <2>2 DEF Sound, Pod
  <1> HIDE DEF ds, plain
  <1>6. PICK es : /\ es \in {ds, SeedBirthLimits(ds, settings)}
                  /\ seeded = [plain EXCEPT !.containers = es]
    <2>1. [plain EXCEPT !.containers = ds] = plain
      BY <1>5 DEF Pod
    <2>2. Default(plain, settings, vpas) \in {ds, SeedBirthLimits(ds, settings)}
      BY <1>5 DEF Default
    <2> QED  BY <2>1, <2>2
  <1>7. Whole(es)
    BY <1>3, <1>4, <1>6, SeedFrame
  <1>8. seeded = [shape EXCEPT !.containers = es] /\ seeded.containers = es
    <2>1. shape \in Pod /\ es \in Seq(Container)
      BY <1>2, <1>7, WholeIsSeq DEF Sound
    <2> HIDE DEF seeded
    <2> QED  BY <1>5, <1>6, <2>1 DEF Pod
  <1>9. seeded # plain => Managed(seeded, settings, vpas)
    BY <1>3, <1>5, SeededPasses
  <1> HIDE DEF seeded
  <1>10. pod' # Absent => Sound(pod')
    <2> SUFFICES ASSUME pod' # Absent PROVE Sound(pod')
      OBVIOUS
    <2>1. pod' = [shape EXCEPT !.containers = es] /\ LimitRangerAdmits(es, ranges)
      BY <1>1, <1>8
    <2>2. Covered(es)
      BY <1>2, <1>3, <1>6, <2>1, AdmittedCovered DEF Sound, ds
    <2> QED  BY <1>2, <1>7, <2>1, <2>2, SoundWith
  <1>11. /\ birth' \in {"none", "plain", "seeded", "refused", "blocked"}
         /\ birth' = "seeded" => pod' # Absent /\ seeded # plain
    BY <1>1
  <1>12. WorldTyped' /\ PatchTyped'
    BY <1>1, <1>11 DEF PodInv, WorldTyped, PatchTyped
  <1>13. PodSound'
    BY <1>10 DEF PodSound, Sound, Covered, TwoLevels
  <1>14. PatchCurrent'
    BY <1>1 DEF PodInv, PatchCurrent
  <1>15. SeedCurrent'
    <2>1. birth' = "seeded" => pod' # Absent /\ Managed(pod', settings', vpas')
      BY <1>1, <1>9, <1>11
    <2> QED  BY <2>1 DEF SeedCurrent
  <1> QED  BY <1>12, <1>13, <1>14, <1>15 DEF PodInv

LEMMA UserResizeStep ==
    ASSUME PodInv, NEW r \in Resizes, UserResize(r[1], r[2])
    PROVE  PodInv'
  <1>1. /\ Change /\ pod # Absent
        /\ UNCHANGED <<settings, ranges, cachedRanges, vpas, others>>
    BY DEF UserResize
  <1>2. PICK i \in ResizableContainers(pod.containers) :
           LET after == [pod.containers EXCEPT ![i].request = r[1], ![i].memory = r[2]]
           IN  ResizeValid(pod.containers, after) /\ pod' = [pod EXCEPT !.containers = after]
    BY DEF UserResize
  <1> DEFINE cs == pod.containers
             ds == [cs EXCEPT ![i].request = r[1], ![i].memory = r[2]]
  <1>3. Sound(pod) /\ Whole(cs)
    BY <1>1, PodWhole DEF PodInv, PodSound, Sound
  <1>4. ResizeValid(cs, ds) /\ pod' = [pod EXCEPT !.containers = ds]
    BY <1>2
  <1>5. Whole(ds)
    <2>1. PICK n \in Nat : cs \in [1..n -> Container]
      BY <1>3 DEF Whole
    <2>2. r[1] \in Nat /\ r[2] \in {"none", "pinned", "loose"} /\ i \in 1..n
      BY <2>1, ShapeAssumption DEF ResizableContainers
    <2> HIDE DEF cs
    <2>3. ds = [cs EXCEPT ![i] = [cs[i] EXCEPT !.request = r[1], !.memory = r[2]]]
      BY <2>1, <2>2 DEF Container
    <2>4. [cs[i] EXCEPT !.request = r[1], !.memory = r[2]] \in Container
      BY <2>1, <2>2 DEF Container
    <2>5. ds \in [1..n -> Container]
      BY <2>1, <2>2, <2>3, <2>4
    <2> QED  BY <2>5 DEF Whole
  <1> HIDE DEF ds
  <1>6. Covered(ds)
    BY <1>4 DEF ResizeValid, Covered
  <1>7. Sound(pod')
    BY <1>3, <1>4, <1>5, <1>6, SoundWith
  <1>8. /\ changes' \in 0..MaxChanges /\ birth' = "none"
        /\ patch' # Absent => /\ patch' \in [target: Nat, listed: Pod, fresh: BOOLEAN]
                              /\ ~patch'.fresh
    BY <1>1, ChangeStales
  <1>9. PodSound'
    BY <1>7 DEF PodSound, Sound, Covered, TwoLevels
  <1>10. WorldTyped' /\ PatchTyped' /\ PatchCurrent' /\ SeedCurrent'
    BY <1>1, <1>8 DEF PodInv, WorldTyped, PatchTyped, PatchCurrent, SeedCurrent
  <1> QED  BY <1>9, <1>10 DEF PodInv

\* The changes that leave the pod alone or delete it.
LEMMA ElsewhereStep ==
    ASSUME PodInv, Change, pod' \in {pod, Absent},
           settings' \in SettingSets, ranges' \in RangeSets, cachedRanges' = cachedRanges,
           vpas' \in VPASets, others' \in Bookings
    PROVE  PodInv'
  <1>1. /\ changes' \in 0..MaxChanges /\ birth' = "none"
        /\ patch' # Absent => /\ patch' \in [target: Nat, listed: Pod, fresh: BOOLEAN]
                              /\ ~patch'.fresh
    BY ChangeStales
  <1>2. WorldTyped' /\ PatchTyped' /\ PatchCurrent' /\ SeedCurrent'
    BY <1>1 DEF PodInv, WorldTyped, PatchTyped, PatchCurrent, SeedCurrent
  <1>3. PodSound'
    <2>1. CASE pod' = pod
      BY <2>1 DEF PodInv, PodSound
    <2>2. CASE pod' = Absent
      BY <2>2 DEF PodSound
    <2> QED  BY <2>1, <2>2
  <1> QED  BY <1>2, <1>3 DEF PodInv

LEMMA CacheRangesStep == PodInv /\ CacheRanges => PodInv'
  <1> SUFFICES ASSUME PodInv, CacheRanges PROVE PodInv'
    OBVIOUS
  <1>1. /\ cachedRanges # ranges /\ cachedRanges' = ranges
        /\ UNCHANGED <<pod, settings, ranges, vpas, others, patch, birth, changes>>
    BY DEF CacheRanges
  <1>2. ~(patch # Absent /\ patch.fresh)
    BY <1>1 DEF PodInv, PatchCurrent
  <1> QED  BY <1>1, <1>2
           DEF PodInv, WorldTyped, PodSound, PatchTyped, PatchCurrent, SeedCurrent

LEMMA PodInvNext == PodInv /\ [Next]_vars => PodInv'
  <1> SUFFICES ASSUME PodInv, [Next]_vars PROVE PodInv'
    OBVIOUS
  <1>0. /\ settings \in SettingSets /\ ranges \in RangeSets
        /\ vpas \in VPASets /\ others \in Bookings
    BY DEF PodInv, WorldTyped
  <1>1. CASE DecideResize
    BY <1>1, DecideResizeStep
  <1>2. CASE Resize
    BY <1>2, ResizeStep
  <1>3. CASE \E shape \in PodShapes, answered \in BOOLEAN : Create(shape, answered)
    BY <1>3, CreateStep
  <1>4. CASE Delete
    BY <1>0, <1>4, ElsewhereStep DEF Delete
  <1>5. CASE \E r \in Resizes : UserResize(r[1], r[2])
    BY <1>5, UserResizeStep
  <1>6. CASE \E items \in RangeSets : EditRanges(items)
    BY <1>0, <1>6, ElsewhereStep DEF EditRanges
  <1>7. CASE CacheRanges
    BY <1>7, CacheRangesStep
  <1>8. CASE \E s \in SettingSets : EditSettings(s)
    BY <1>0, <1>8, ElsewhereStep DEF EditSettings
  <1>9. CASE \E vs \in VPASets : EditVPAs(vs)
    BY <1>0, <1>9, ElsewhereStep DEF EditVPAs
  <1>10. CASE \E milli \in Bookings : BookOthers(milli)
    BY <1>0, <1>10, ElsewhereStep DEF BookOthers
  <1>11. CASE UNCHANGED vars
    <2>1. DecisionFor(pod)' = DecisionFor(pod)
      BY <1>11 DEF vars, DecisionFor, OthersInput
    <2> QED  BY <1>11, <2>1
             DEF vars, PodInv, WorldTyped, PodSound, PatchTyped, PatchCurrent, SeedCurrent
  <1> QED  BY <1>1, <1>2, <1>3, <1>4, <1>5, <1>6, <1>7, <1>8, <1>9, <1>10, <1>11 DEF Next

\* In every reachable state, for any pods, LimitRanges, settings and autoscalers.
LEMMA PodInvHolds == Spec => []PodInv
  BY PodInvInit, PodInvNext, PTL DEF Spec

-----------------------------------------------------------------------------
(* Kinds never change.                                                       *)

SameKinds(cs, ds) == DOMAIN ds = DOMAIN cs /\ \A i \in DOMAIN cs : ds[i].kind = cs[i].kind

LEMMA ApartWith ==
    ASSUME NEW cs, NEW ds, PeakApart(cs), SameKinds(cs, ds) PROVE PeakApart(ds)
  BY DEF PeakApart, SameKinds

LEMMA DefaultsKinds ==
    ASSUME NEW cs, Whole(cs), NEW items PROVE SameKinds(cs, LimitRangerDefaults(cs, items))
  <1> DEFINE ds == LimitRangerDefaults(cs, items)
             maxima == {item.max : item \in {x \in items : x.type = "Container" /\ x.max > 0}}
             m == Min(maxima)
  <1>1. ds = [i \in DOMAIN cs |->
                 IF maxima = {} \/ cs[i].limit > 0 THEN cs[i]
                 ELSE [cs[i] EXCEPT !.limit = m,
                                    !.request = IF cs[i].request = 0 THEN m ELSE cs[i].request]]
    BY DEF LimitRangerDefaults
  <1>2. \A i \in DOMAIN cs : cs[i] \in Container
    BY WholeFacts
  <1> HIDE DEF maxima, m, ds
  <1>3. ASSUME NEW i \in DOMAIN cs PROVE ds[i].kind = cs[i].kind
    BY <1>1, <1>2 DEF Container
  <1>4. DOMAIN ds = DOMAIN cs
    BY <1>1
  <1> QED  BY <1>3, <1>4 DEF SameKinds, ds

ApartPod == pod # Absent => PeakApart(pod.containers)

LEMMA ApartResize == PodInv /\ ApartPod /\ Resize => ApartPod'
  <1> SUFFICES ASSUME PodInv, ApartPod, Resize PROVE ApartPod'
    OBVIOUS
  <1>1. PICK p \in {patch.listed, pod} \ {Absent} :
           \E parts \in Splits(patch.target, p.containers) :
              pod' = IF pod # Absent /\ Admits(parts)
                     THEN [pod EXCEPT !.containers = Patched(@, parts)] ELSE pod
    BY DEF Resize
  <1>2. PICK parts \in Splits(patch.target, p.containers) :
           pod' = IF pod # Absent /\ Admits(parts)
                  THEN [pod EXCEPT !.containers = Patched(@, parts)] ELSE pod
    BY <1>1
  <1>3. CASE pod' = pod
    BY <1>3 DEF ApartPod
  <1>4. CASE pod' # pod
    <2> DEFINE ds == Patched(pod.containers, parts)
    <2>1. pod # Absent /\ pod' = [pod EXCEPT !.containers = ds]
      BY <1>2, <1>4
    <2>2. pod \in Pod
      BY <2>1 DEF PodInv, PodSound, Sound
    <2>3. patch \in [target: Nat, listed: Pod, fresh: BOOLEAN]
      BY DEF PodInv, PatchTyped, Resize
    <2>4. Whole(p.containers) /\ Whole(pod.containers)
      BY <2>2, <2>3, PodWhole
    <2>5. \A i \in DOMAIN parts : parts[i] \in Nat
      BY <2>3, <2>4, SplitParts
    <2>6. SameFrame(pod.containers, ds) /\ Whole(ds)
      BY <2>4, <2>5, PatchFrame
    <2> HIDE DEF ds
    <2>7. pod'.containers = ds
      BY <2>1, <2>2, <2>6, PodWith
    <2>8. SameKinds(pod.containers, ds)
      BY <2>6 DEF SameFrame, SameKinds
    <2>9. PeakApart(ds)
      BY <2>1, <2>8, ApartWith DEF ApartPod
    <2> QED  BY <2>7, <2>9 DEF ApartPod, PeakApart
  <1> QED  BY <1>3, <1>4

LEMMA ApartCreate ==
    ASSUME PodInv, NEW shape \in PodShapes, PeakApart(shape.containers),
           NEW answered \in BOOLEAN, Create(shape, answered)
    PROVE  ApartPod'
  <1> DEFINE cs == shape.containers
             ds == LimitRangerDefaults(cs, ranges)
             plain == [shape EXCEPT !.containers = LimitRangerDefaults(@, ranges)]
             seeded == IF answered
                       THEN [plain EXCEPT !.containers = Default(plain, settings, vpas)]
                       ELSE plain
  <1>1. pod' = IF LimitRangerAdmits(seeded.containers, ranges) THEN seeded ELSE Absent
    BY DEF Create
  <1>2. shape \in Pod /\ Whole(cs)
    BY ShapeAssumption, PodWhole
  <1>3. settings \in SettingSets /\ IsFiniteSet(ranges) /\ ranges \subseteq RangeItem
    BY ShapeAssumption DEF PodInv, WorldTyped
  <1>4. Whole(ds) /\ SameKinds(cs, ds)
    BY <1>2, <1>3, DefaultsGiven, DefaultsKinds
  <1>5. PeakApart(ds)
    BY <1>4, ApartWith
  <1>6. plain = [shape EXCEPT !.containers = ds]
    OBVIOUS
  <1> HIDE DEF ds, plain
  <1>7. plain \in Pod /\ plain.containers = ds
    BY <1>2, <1>4, <1>6, PodWith
  <1>8. Default(plain, settings, vpas) \in {ds, SeedBirthLimits(ds, settings)}
    BY <1>7 DEF Default
  <1>9. PICK es : /\ es \in {ds, SeedBirthLimits(ds, settings)}
                  /\ seeded.containers = es
    <2>1. CASE answered
      <3>1. Whole(Default(plain, settings, vpas))
        BY <1>3, <1>4, <1>8, SeedFrame
      <3>2. seeded = [plain EXCEPT !.containers = Default(plain, settings, vpas)]
        BY <2>1
      <3> HIDE DEF seeded
      <3>3. seeded.containers = Default(plain, settings, vpas)
        BY <1>7, <3>1, <3>2, PodWith
      <3> QED  BY <1>8, <3>3
    <2>2. CASE ~answered
      BY <1>7, <2>2
    <2> QED  BY <2>1, <2>2
  <1> HIDE DEF seeded
  <1>10. PeakApart(es)
    <2>1. SameFrame(ds, SeedBirthLimits(ds, settings))
      BY <1>3, <1>4, SeedFrame
    <2>2. SameKinds(ds, SeedBirthLimits(ds, settings))
      BY <2>1 DEF SameFrame, SameKinds
    <2>3. PeakApart(SeedBirthLimits(ds, settings))
      BY <1>5, <2>2, ApartWith
    <2> QED  BY <1>5, <1>9, <2>3
  <1>11. pod' # Absent => pod'.containers = es
    BY <1>1, <1>9
  <1> QED  BY <1>10, <1>11 DEF ApartPod, PeakApart

LEMMA ApartUserResize ==
    ASSUME PodInv, ApartPod, NEW r \in Resizes, UserResize(r[1], r[2])
    PROVE  ApartPod'
  <1> DEFINE cs == pod.containers
  <1>1. pod # Absent
    BY DEF UserResize
  <1>2. PICK i \in ResizableContainers(cs) :
           pod' = [pod EXCEPT !.containers = [cs EXCEPT ![i].request = r[1], ![i].memory = r[2]]]
    BY DEF UserResize
  <1> DEFINE ds == [cs EXCEPT ![i].request = r[1], ![i].memory = r[2]]
  <1>3. pod \in Pod /\ Whole(cs)
    BY <1>1, PodWhole DEF PodInv, PodSound, Sound
  <1>4. SameKinds(cs, ds)
    <2>1. PICK n \in Nat : cs \in [1..n -> Container]
      BY <1>3 DEF Whole
    <2>2. i \in 1..n
      BY <2>1 DEF ResizableContainers
    <2> HIDE DEF cs
    <2>3. ds = [cs EXCEPT ![i] = [cs[i] EXCEPT !.request = r[1], !.memory = r[2]]]
      BY <2>1, <2>2 DEF Container
    <2>4. [cs[i] EXCEPT !.request = r[1], !.memory = r[2]].kind = cs[i].kind
      BY <2>1, <2>2 DEF Container
    <2>5. DOMAIN ds = DOMAIN cs /\ \A j \in DOMAIN cs : ds[j].kind = cs[j].kind
      BY <2>1, <2>2, <2>3, <2>4
    <2> QED  BY <2>5 DEF SameKinds
  <1> HIDE DEF ds
  <1>5. pod'.containers = ds
    BY <1>2, <1>3 DEF Pod, ds
  <1>6. PeakApart(ds)
    BY <1>1, <1>4, ApartWith DEF ApartPod
  <1> QED  BY <1>5, <1>6 DEF ApartPod, PeakApart

LEMMA ApartNext ==
    ASSUME \A p \in PodShapes : PeakApart(p.containers)
    PROVE  PodInv /\ ApartPod /\ [Next]_vars => ApartPod'
  <1> SUFFICES ASSUME PodInv, ApartPod, [Next]_vars PROVE ApartPod'
    OBVIOUS
  <1>1. CASE Resize
    BY <1>1, ApartResize
  <1>2. CASE \E shape \in PodShapes, answered \in BOOLEAN : Create(shape, answered)
    BY <1>2, ApartCreate
  <1>3. CASE \E r \in Resizes : UserResize(r[1], r[2])
    BY <1>3, ApartUserResize
  <1>4. CASE pod' \in {pod, Absent}
    BY <1>4 DEF ApartPod, PeakApart
  <1>5. DecideResize \/ Delete \/ CacheRanges \/ (UNCHANGED vars) => pod' \in {pod, Absent}
    BY DEF DecideResize, Delete, CacheRanges, vars
  <1>6. /\ (\E items \in RangeSets : EditRanges(items)) => pod' = pod
        /\ (\E s \in SettingSets : EditSettings(s)) => pod' = pod
        /\ (\E vs \in VPASets : EditVPAs(vs)) => pod' = pod
        /\ (\E milli \in Bookings : BookOthers(milli)) => pod' = pod
    BY DEF EditRanges, EditSettings, EditVPAs, BookOthers
  <1> QED  BY <1>1, <1>2, <1>3, <1>4, <1>5, <1>6 DEF Next

-----------------------------------------------------------------------------
(* The theorems.                                                             *)

LEMMA PodIsTyped == ASSUME NEW p \in Pod PROVE PodTyped(p)
  <1>1. /\ DOMAIN p.containers = 1..Cardinality(DOMAIN p.containers)
        /\ \A i \in DOMAIN p.containers : (p.containers)[i] \in Container
    BY PodWhole, WholeFacts
  <1>2. /\ p.owners \subseteq Owner /\ p.topOwner \in Owner \cup {Absent}
        /\ p.optedOut \in BOOLEAN /\ p.podLevel \in BOOLEAN /\ p.cap \in Nat
    BY DEF Pod
  <1> QED  BY <1>1, <1>2 DEF PodTyped

\* Type correctness: admission (LimitRanger and Default of pod_webhook.go), applyResize
\* and users' resizes keep a pod's containers a sequence of whole containers.
THEOREM PodLimitsTyped == Spec => []TypeOK
  <1>1. PodInv => TypeOK
    <2> SUFFICES ASSUME PodInv PROVE TypeOK
      OBVIOUS
    <2>1. PodTyped(pod)
      <3>1. CASE pod = Absent
        BY <3>1 DEF PodTyped
      <3>2. CASE pod # Absent
        BY <3>2, PodIsTyped DEF PodInv, PodSound, Sound
      <3> QED  BY <3>1, <3>2
    <2>2. ranges \subseteq RangeItem /\ cachedRanges \subseteq RangeItem
      BY ShapeAssumption DEF PodInv, WorldTyped
    <2>3. patch # Absent =>
             PodTyped(patch.listed) /\ patch.target \in Nat /\ patch.fresh \in BOOLEAN
      <3> SUFFICES ASSUME patch # Absent
                   PROVE  PodTyped(patch.listed) /\ patch.target \in Nat /\ patch.fresh \in BOOLEAN
        OBVIOUS
      <3>1. patch.listed \in Pod /\ patch.target \in Nat /\ patch.fresh \in BOOLEAN
        BY DEF PodInv, PatchTyped
      <3> QED  BY <3>1, PodIsTyped
    <2> QED  BY <2>1, <2>2, <2>3 DEF PodInv, WorldTyped, TypeOK
  <1> QED  BY <1>1, PodInvHolds, PTL

\* What a fresh patch rests on.
LEMMA FreshFacts ==
    ASSUME PodInv, patch # Absent, patch.fresh
    PROVE  /\ pod \in Pod /\ Whole(pod.containers) /\ Covered(pod.containers)
           /\ PodCPURequestMilli(pod.containers) > 0
           /\ QOSClass(pod.containers) = "Burstable"
           /\ LimitManagingVPA(pod, vpas) = {}
           /\ patch.target \in Nat /\ patch.target = DecisionFor(pod).target
           /\ patch.target >= PodCPURequestMilli(pod.containers)
           /\ GuaranteedAtRequest(pod.containers) =>
                 patch.target > PodCPURequestMilli(pod.containers)
  <1>1. /\ pod # Absent /\ Managed(pod, settings, vpas)
        /\ patch.target = DecisionFor(pod).target
    BY DEF PodInv, PatchCurrent
  <1>2. pod \in Pod /\ Whole(pod.containers) /\ Covered(pod.containers)
    BY <1>1, PodWhole DEF PodInv, PodSound, Sound
  <1>3. /\ PodCPURequestMilli(pod.containers) > 0
        /\ QOSClass(pod.containers) = "Burstable"
        /\ LimitManagingVPA(pod, vpas) = {}
    BY <1>1 DEF Managed
  <1>4. /\ DecisionFor(pod) \in [target: Nat, apply: BOOLEAN]
        /\ DecisionFor(pod).target >= PodCPURequestMilli(pod.containers)
        /\ GuaranteedAtRequest(pod.containers) =>
              DecisionFor(pod).target > PodCPURequestMilli(pod.containers)
    BY <1>2, <1>3, DecisionBounds DEF PodInv, WorldTyped
  <1> QED  BY <1>1, <1>2, <1>3, <1>4

\* Zero churn, for any containers, LimitRanges and HeadroomConfig: the limits splitLimit
\* hands out for a target (podinput.go) add up to it as PodCurrentLimitMilli
\* (eligibility.go) reads them back, and the next pass has nothing to apply.
THEOREM PatchesSettle == Spec => []AppliedPatchSettles
  <1>1. PodInv => AppliedPatchSettles
    <2> SUFFICES ASSUME PodInv, NEW after \in FreshOutcomes
                 PROVE  /\ PodCurrentLimitMilli(after) = patch.target
                        /\ ~DecisionFor([pod EXCEPT !.containers = after]).apply
      BY DEF AppliedPatchSettles
    <2>1. patch # Absent /\ patch.fresh
      BY DEF FreshOutcomes
    <2>2. PICK parts \in Splits(patch.target, pod.containers) :
             after = Patched(pod.containers, parts)
      BY <2>1 DEF FreshOutcomes
    <2>3. /\ pod \in Pod /\ Whole(pod.containers)
          /\ PodCPURequestMilli(pod.containers) > 0
          /\ patch.target \in Nat /\ patch.target = DecisionFor(pod).target
          /\ patch.target >= PodCPURequestMilli(pod.containers)
      BY <2>1, FreshFacts
    <2>4. PodCurrentLimitMilli(after) = patch.target
      BY <2>2, <2>3, SplitReadBack
    <2>5. /\ Whole(after) /\ SameFrame(pod.containers, after)
          /\ \A i \in DOMAIN pod.containers \ Bursting(pod.containers) :
                after[i].limit = (pod.containers)[i].limit
      <3>1. /\ DOMAIN parts = Bursting(pod.containers)
            /\ \A i \in Bursting(pod.containers) : parts[i] \in Nat
        BY <2>3, SplitParts
      <3> QED  BY <2>2, <2>3, <3>1, PatchFrame
    <2>6. ~DecisionFor([pod EXCEPT !.containers = after]).apply
      BY <2>3, <2>4, <2>5, ReadBackSettles DEF PodInv, WorldTyped
    <2> QED  BY <2>4, <2>6
  <1> QED  BY <1>1, PodInvHolds, PTL

\* The apiserver's resize validation: a patch decided on the pod as it is keeps every
\* limit at or above its request and the pod Burstable, and one that is split over a pod
\* that has changed meanwhile (observability.go, podinput.go) still covers its requests.
THEOREM PatchesValid == Spec => []PatchIsValid
  <1>1. PodInv => PatchIsValid
    <2> SUFFICES ASSUME PodInv PROVE PatchIsValid
      OBVIOUS
    <2>1. ASSUME NEW after \in FreshOutcomes PROVE ResizeValid(pod.containers, after)
      <3>1. patch # Absent /\ patch.fresh
        BY DEF FreshOutcomes
      <3>2. PICK parts \in Splits(patch.target, pod.containers) :
               after = Patched(pod.containers, parts)
        BY <3>1 DEF FreshOutcomes
      <3>3. /\ Whole(pod.containers) /\ Covered(pod.containers)
            /\ PodCPURequestMilli(pod.containers) > 0
            /\ QOSClass(pod.containers) = "Burstable"
            /\ patch.target \in Nat
            /\ patch.target >= PodCPURequestMilli(pod.containers)
            /\ GuaranteedAtRequest(pod.containers) =>
                  patch.target > PodCPURequestMilli(pod.containers)
        BY <3>1, FreshFacts
      <3> QED  BY <3>2, <3>3, SplitValid
    <2>2. ASSUME patch # Absent, pod # Absent,
                 NEW parts \in Splits(patch.target, pod.containers),
                 NEW i \in DOMAIN pod.containers, i \in DOMAIN parts
          PROVE  parts[i] >= (pod.containers)[i].request
      <3>1. Whole(pod.containers)
        BY <2>2, PodWhole DEF PodInv, PodSound, Sound
      <3>2. patch.target \in Nat
        BY <2>2 DEF PodInv, PatchTyped
      <3> QED  BY <2>2, <3>1, <3>2, SplitParts
    <2> QED  BY <2>1, <2>2 DEF PatchIsValid
  <1> QED  BY <1>1, PodInvHolds, PTL

\* What Default of pod_webhook.go seeds, buildInputs of node_controller.go manages, at
\* whatever multiplier and quantum, and whatever defaults LimitRanger set before it.
THEOREM SeedsAreManaged == Spec => []SeededIsManaged
  <1>1. PodInv => SeededIsManaged
    BY DEF PodInv, SeedCurrent, SeededIsManaged
  <1> QED  BY <1>1, PodInvHolds, PTL

\* Never two writers of one limit, for pods whose owners are chains podUnderTarget
\* (vpa.go) derives from names: whatever policies an autoscaler has, in whatever order.
THEOREM OnlyOneWriter == Spec => []OneWriter
  <1>1. PodInv => OneWriter
    <2> SUFFICES ASSUME PodInv PROVE OneWriter
      OBVIOUS
    <2>1. ASSUME pod # Absent, LimitManagingVPA(pod, vpas) = {}
          PROVE  \A i \in Bursting(pod.containers) : ~VPAWrites(pod, i)
      <3>1. pod \in Pod /\ (pod.topOwner # Absent => TwoLevels(pod)) /\ vpas \in VPASets
        BY <2>1 DEF PodInv, PodSound, Sound, WorldTyped
      <3> QED  BY <2>1, <3>1, WriterFound
    <2>2. FreshOutcomes # {} => pod # Absent /\ LimitManagingVPA(pod, vpas) = {}
      BY DEF FreshOutcomes, PodInv, PatchCurrent, Managed
    <2>3. birth = "seeded" => pod # Absent /\ LimitManagingVPA(pod, vpas) = {}
      BY DEF PodInv, SeedCurrent, Managed
    <2> QED  BY <2>1, <2>2, <2>3 DEF OneWriter
  <1> QED  BY <1>1, PodInvHolds, PTL

-----------------------------------------------------------------------------
(* Refusals.                                                                 *)

\* Where a limit equal to the request would make the pod Guaranteed, the apiserver takes
\* no patch but one above the request.
LEMMA AdmittedAbove ==
    ASSUME NEW cs, Whole(cs), PeakApart(cs), Bursting(cs) # {}, QOSClass(cs) = "Burstable",
           GuaranteedAtRequest(cs), NEW rival \in Nat, rival >= PodCPURequestMilli(cs),
           NEW rivals \in Splits(rival, cs), ResizeValid(cs, Patched(cs, rivals))
    PROVE  rival > PodCPURequestMilli(cs)
  <1>0. PodCPURequestMilli(cs) \in Nat
    BY RequestSum
  <1> SUFFICES ASSUME rival = PodCPURequestMilli(cs) PROVE FALSE
    BY <1>0
  <1> DEFINE ds == Patched(cs, rivals)
  <1>1. \A i \in Bursting(cs) : rivals[i] = cs[i].request
    BY SplitAtRequest
  <1>2. /\ DOMAIN ds = DOMAIN cs
        /\ \A i \in DOMAIN cs :
              /\ ds[i].request = cs[i].request /\ ds[i].memory = cs[i].memory
              /\ ds[i].limit = IF i \in Bursting(cs) THEN rivals[i] ELSE cs[i].limit
    BY PatchedPod
  <1>3. QOSClass(ds) = "Burstable"
    BY DEF ResizeValid
  <1> HIDE DEF ds
  <1>4. ASSUME NEW i \in DOMAIN ds
        PROVE  ds[i].request > 0 /\ ds[i].limit = ds[i].request /\ ds[i].memory = "pinned"
    <2>1. /\ cs[i].request > 0 /\ cs[i].memory = "pinned"
          /\ cs[i].kind = "init" => cs[i].limit = cs[i].request
      BY <1>2 DEF GuaranteedAtRequest
    <2>2. i \in Bursting(cs) \/ cs[i].kind = "init"
      BY <1>2, <2>1 DEF Bursting, ResizableContainers
    <2> QED  BY <1>1, <1>2, <2>1, <2>2
  <1>5. QOSClass(ds) = "Guaranteed"
    BY <1>4 DEF QOSClass
  <1> QED  BY <1>3, <1>5

\* The theorem at one state.
LEMMA RoomIsFound ==
    ASSUME PodInv, ApartPod, NEW after \in FreshOutcomes, RoomUnderRanges, ~FractionalRatio
    PROVE  LimitRangerAdmits(after, ranges)
  <1> DEFINE cs == pod.containers
             R == PodCPURequestMilli(cs)
             C == LimitRangeCapMilli(cs, ranges)
             T == patch.target
  <1>1. patch # Absent /\ patch.fresh
    BY DEF FreshOutcomes
  <1>2. PICK parts \in Splits(T, cs) : after = Patched(cs, parts)
    BY <1>1 DEF FreshOutcomes
  <1>3. /\ pod \in Pod /\ Whole(cs) /\ R > 0 /\ QOSClass(cs) = "Burstable"
        /\ T \in Nat /\ T = DecisionFor(pod).target /\ T >= R
    BY <1>1, FreshFacts
  <1>4. pod # Absent /\ cachedRanges = ranges
    BY <1>1 DEF PodInv, PatchCurrent
  <1>5. PeakApart(cs) /\ R \in Nat /\ Bursting(cs) # {}
    BY <1>3, <1>4, RequestSum DEF ApartPod
  <1>6. /\ settings \in SettingSets /\ others \in Bookings /\ cachedRanges \in RangeSets
        /\ IsFiniteSet(ranges) /\ ranges \subseteq RangeItem
    BY ShapeAssumption DEF PodInv, WorldTyped
  <1>7. PICK rival \in R..Allocatable : \E parts2 \in Splits(rival, cs) : Admits(parts2)
    BY DEF RoomUnderRanges
  <1>8. PICK rivals \in Splits(rival, cs) : Admits(rivals)
    BY <1>7
  <1>9. rival \in Nat /\ rival >= R
    <2>1. Allocatable \in Nat
      BY ShapeAssumption
    <2> HIDE DEF R
    <2> QED  BY <1>5, <2>1
  <1>10. ResizeValid(cs, Patched(cs, rivals)) /\ LimitRangerAdmits(Patched(cs, rivals), ranges)
    BY <1>8 DEF Admits
  <1>11. \A item \in ranges : ItemAdmits(item, Patched(cs, rivals))
    BY <1>10 DEF LimitRangerAdmits, ItemAdmits
  <1>12. /\ C \in Nat
         /\ C = 0 => \A item \in ranges : ItemCaps(cs, item) = {}
         /\ C > R => \A item \in ranges : \A cap \in ItemCaps(cs, item) : C <= cap
         /\ C # 0 /\ (\A item \in ranges : \A cap \in ItemCaps(cs, item) : cap > R) => C > R
    BY <1>3, <1>5, <1>6, RangeCapMeans
  <1>13. /\ C > R => T <= C
         /\ C # 0 /\ ~(C > R) /\ ~GuaranteedAtRequest(cs) => T = R
    BY <1>3, <1>4, <1>6, TargetUnderCap
  <1>14. \A item \in ranges : PartsWithin(item, cs, rivals, rival)
    BY <1>3, <1>5, <1>6, <1>9, <1>11, AdmittedWithin
  <1> HIDE DEF C
  <1>15. ASSUME GuaranteedAtRequest(cs), C # 0 PROVE C > R
    <2>1. rival > R
      BY <1>3, <1>5, <1>9, <1>10, <1>15, AdmittedAbove
    <2>2. ASSUME NEW item \in ranges, item.type = "Container", NEW i \in Bursting(cs)
          PROVE  (item.ratio * cs[i].request) % 1000 = 0
      BY <1>15, <2>2 DEF FractionalRatio
    <2>3. ASSUME NEW item \in ranges, NEW cap \in ItemCaps(cs, item) PROVE cap > R
      <3>1. item \in RangeItem /\ PartsWithin(item, cs, rivals, rival)
        BY <1>6, <1>14
      <3> QED  BY <1>3, <1>5, <1>9, <2>1, <2>2, <3>1, RoomLiftsCaps
    <2> QED  BY <1>12, <1>15, <2>3
  <1>16. ASSUME NEW item \in ranges PROVE PartsWithin(item, cs, parts, T)
    <2>0. item \in RangeItem
      BY <1>6
    <2>1. CASE C = 0 \/ C > R
      <3>1. ASSUME NEW cap \in ItemCaps(cs, item) PROVE T <= cap
        <4>1. C > R /\ C <= cap /\ T <= C
          BY <1>12, <1>13, <2>1
        <4>2. cap \in Int
          BY <1>3, <1>5, <2>0, ItemCapsTyped
        <4> QED  BY <1>3, <1>12, <4>1, <4>2
      <3> QED  BY <1>3, <1>5, <2>0, <3>1, CapsKeepWithin
    <2>2. CASE C # 0 /\ ~(C > R)
      <3>1. T = R
        BY <1>13, <1>15, <2>2
      <3>2. parts \in Splits(R, cs) /\ PartsWithin(item, cs, rivals, rival)
        BY <1>14, <3>1
      <3>3. PartsWithin(item, cs, parts, R)
        BY <1>3, <1>5, <1>9, <2>0, <3>2, RequestsKeepWithin
      <3> QED  BY <3>1, <3>3
    <2> QED  BY <2>1, <2>2
  <1>17. ASSUME NEW item \in ranges PROVE ItemAdmits(item, after)
    <2>1. item \in RangeItem /\ ItemAdmits(item, Patched(cs, rivals))
          /\ PartsWithin(item, cs, parts, T)
      BY <1>6, <1>11, <1>16
    <2>2. ItemAdmits(item, Patched(cs, parts))
      BY <1>3, <1>5, <1>9, <2>1, WithinAdmitted
    <2> QED  BY <1>2, <2>2
  <1> QED  BY <1>17 DEF LimitRangerAdmits, ItemAdmits

\* Section 6.4 of the design, for any containers, LimitRanges and HeadroomConfigs: under
\* the cap of LimitRangeCapMilli (eligibility.go), LimitRanger refuses what splitLimit
\* (podinput.go) makes of a target only when it would have refused every target, or for a
\* fractional ratio; for pods that start no sidecar before an init container.
THEOREM RefusalsMeanNoRoom ==
    ASSUME \A p \in PodShapes : PeakApart(p.containers)
    PROVE  Spec => []RefusedOnlyWithoutRoom
  <1>1. Init => ApartPod
    BY DEF Init, ApartPod
  <1>2. PodInv /\ ApartPod /\ [Next]_vars => ApartPod'
    BY ApartNext
  <1>3. PodInv /\ ApartPod => RefusedOnlyWithoutRoom
    BY RoomIsFound DEF RefusedOnlyWithoutRoom
  <1> QED  BY <1>1, <1>2, <1>3, PodInvHolds, PTL DEF Spec
=============================================================================
