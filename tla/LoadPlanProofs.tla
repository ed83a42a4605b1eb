--------------------------- MODULE LoadPlanProofs ---------------------------
(***************************************************************************)
(* What a pass of the rebalancing loop does, for every number of executors *)
(* and shards and for all loads: no steal takes the last shard of its      *)
(* donor, a move cools its source without heating its target above it, and *)
(* the pass arrives at a plan that RebalancePlan allows a leader.          *)
(***************************************************************************)
EXTENDS LoadPlan, FiniteSetTheorems, TLAPS

-----------------------------------------------------------------------------
(* Arithmetic. *)

\* Rounding down.
LEMMA DivBound ==
  ASSUME NEW a \in Nat, NEW b \in Nat \ {0}
  PROVE  a \div b \in Nat /\ b * (a \div b) <= a
  OBVIOUS

\* The position in a round, and the number of the round.
LEMMA ModBound ==
  ASSUME NEW a \in Nat, NEW b \in Nat \ {0}
  PROVE  /\ a % b \in 0 .. b - 1
         /\ \E q \in Nat : a = b * q + (a % b)
<1>1. a \div b \in Nat /\ a = b * (a \div b) + (a % b) /\ a % b \in 0 .. b - 1
  OBVIOUS
<1> QED BY <1>1, Zenon

\* What a multiple below the next one is.
LEMMA Rounds ==
  ASSUME NEW b \in Nat \ {0}, NEW g \in Int, NEW q \in Int, b * g <= b * q + b - 1
  PROVE  g <= q /\ b * g <= b * q
<1>1. SUFFICES ASSUME g >= q + 1 PROVE FALSE
  <2>1. g <= q BY <1>1
  <2>2. b * g <= b * q BY <2>1
  <2> QED BY <2>1, <2>2
<1>2. b * g >= b * (q + 1) BY <1>1
<1>3. b * (q + 1) = b * q + b OBVIOUS
<1> QED BY <1>2, <1>3

\* computeBenefitOfMove is positive only for a shard that leaves its source above the
\* load that the destination gets.
LEMMA BenefitCools ==
  ASSUME NEW f \in Nat, NEW t \in Nat, NEW l \in Nat \ {0}, computeBenefitOfMove(f, t, l) > 0
  PROVE  t + l < f
<1>1. computeBenefitOfMove(f, t, l) = (2 * l) * (f - t - l)
  BY DEF computeBenefitOfMove
<1>2. ASSUME f - t - l <= 0 PROVE (2 * l) * (f - t - l) <= 0
  BY <1>2
<1> QED BY <1>1, <1>2
-----------------------------------------------------------------------------
(* Positions and sums. *)

\* A nonempty set of naturals has a least element.
LEMMA LeastNatural ==
  ASSUME NEW S \in SUBSET Nat, S # {}
  PROVE  \E n \in S : \A m \in S : n <= m
<1> DEFINE R == OpToRel(<, Nat)
<1>1. IsWellFoundedOn(R, Nat) BY NatLessThanWellFounded, Zenon
<1>2. \A m, n \in Nat : m < n => <<m, n>> \in R BY DEF OpToRel
<1> HIDE DEF R
<1>3. PICK n \in S : \A m \in S : ~(<<m, n>> \in R) BY <1>1, WFMin, Zenon
<1>4. ASSUME NEW m \in S PROVE n <= m
  <2>1. m \in Nat /\ n \in Nat OBVIOUS
  <2>2. ~(m < n) BY <1>2, <1>3, <2>1, Zenon
  <2> QED BY <2>1, <2>2
<1> QED BY <1>4

\* The position of an executor in a list is the number of those before it.
LEMMA IndexNat ==
  ASSUME NEW S, IsFiniteSet(S), NEW e
  PROVE  Index(S, e) \in Nat
<1>1. {d \in S : d < e} \in SUBSET S OBVIOUS
<1> QED BY <1>1, FS_Subset, FS_CardinalityType DEF Index

\* Positions follow the order of the names.
LEMMA PositionsGrow ==
  ASSUME NEW S \in SUBSET Nat, IsFiniteSet(S), NEW d \in S, NEW e \in S, d < e
  PROVE  Index(S, d) < Index(S, e)
<1> DEFINE T == {c \in S : c < d}
           U == {c \in S : c < e}
<1>0. \A c \in S : c \in Nat OBVIOUS
<1>1. T \in SUBSET U /\ d \in U /\ d \notin T /\ U \in SUBSET S
  <2>1. ASSUME NEW c \in T PROVE c \in U BY <1>0
  <2>2. d \in U /\ d \notin T BY <1>0
  <2> QED BY <2>1, <2>2, Zenon
<1>2. IsFiniteSet(U) BY <1>1, FS_Subset
<1>3. Cardinality(T) <= Cardinality(U) /\ (Cardinality(U) = Cardinality(T) => U = T)
  BY <1>1, <1>2, FS_Subset
<1>4. Cardinality(T) \in Nat /\ Cardinality(U) \in Nat
  BY <1>1, <1>2, FS_Subset, FS_CardinalityType
<1> QED BY <1>1, <1>3, <1>4 DEF Index

\* Every position in a finite list of executors is taken by exactly one of them.
LEMMA NthExecutor ==
  ASSUME NEW S \in SUBSET Nat, IsFiniteSet(S), NEW i \in 0 .. Cardinality(S) - 1
  PROVE  Nth(S, i) \in S /\ Index(S, Nth(S, i)) = i
<1> DEFINE n == Cardinality(S)
           f == [e \in S |-> Index(S, e)]
<1>1. n \in Nat BY FS_CardinalityType
<1>2. ASSUME NEW e \in S PROVE Index(S, e) \in 0 .. n - 1
  <2> DEFINE T == {d \in S : d < e}
  <2>1. T \in SUBSET (S \ {e}) BY <1>2
  <2>2. IsFiniteSet(S \ {e}) /\ Cardinality(S \ {e}) = n - 1 BY FS_RemoveElement
  <2>3. IsFiniteSet(T) /\ Cardinality(T) <= n - 1 BY <2>1, <2>2, FS_Subset
  <2>4. Cardinality(T) \in Nat BY <2>3, FS_CardinalityType
  <2> QED BY <1>1, <2>3, <2>4 DEF Index
<1>3. ASSUME NEW d \in S, NEW e \in S, d < e PROVE Index(S, d) < Index(S, e)
  BY <1>3, PositionsGrow
<1>4. f \in Injection(S, 0 .. n - 1)
  <2>1. f \in [S -> 0 .. n - 1] BY <1>2
  <2>2. ASSUME NEW d \in S, NEW e \in S, f[d] = f[e] PROVE d = e
    <3>1. d \in Nat /\ e \in Nat OBVIOUS
    <3>2. f[d] = Index(S, d) /\ f[e] = Index(S, e) /\ Index(S, d) \in Int BY <1>2
    <3>3. ~(d < e) BY <1>3, <2>2, <3>2
    <3>4. ~(e < d) BY <1>3, <2>2, <3>2
    <3> QED BY <3>1, <3>3, <3>4
  <2> QED BY <2>1, <2>2 DEF Injection, IsInjective
<1>5. IsFiniteSet(0 .. n - 1) /\ Cardinality(0 .. n - 1) = n
  BY <1>1, FS_Interval
<1>6. f \in Surjection(S, 0 .. n - 1)
  BY <1>4, <1>5, FS_Injection
<1>7. \E e \in S : Index(S, e) = i
  BY <1>6, Zenon DEF Surjection
<1> QED BY <1>7 DEF Nth

\* Two executors never have the same position.
LEMMA Positions ==
  ASSUME NEW S \in SUBSET Nat, IsFiniteSet(S), NEW d \in S, NEW e \in S,
         Index(S, d) = Index(S, e)
  PROVE  d = e
<1>1. d \in Nat /\ e \in Nat /\ Index(S, d) \in Nat BY IndexNat
<1>2. ~(d < e) /\ ~(e < d) BY <1>1, PositionsGrow
<1> QED BY <1>1, <1>2

\* The units of load of the shards in S.
Units(f, S) == UNION {{k} \X (1 .. f[k]) : k \in S}

\* The units of one shard.
LEMMA UnitsOfOne ==
  ASSUME NEW k, NEW n \in Nat
  PROVE  IsFiniteSet({k} \X (1 .. n)) /\ Cardinality({k} \X (1 .. n)) = n
<1>1. IsFiniteSet({k}) /\ Cardinality({k}) = 1 BY FS_Singleton
<1>2. IsFiniteSet(1 .. n) /\ Cardinality(1 .. n) = n BY FS_Interval
<1>3. /\ IsFiniteSet({k} \X (1 .. n))
      /\ Cardinality({k} \X (1 .. n)) = Cardinality({k}) * Cardinality(1 .. n)
  BY <1>1, <1>2, FS_Product, Zenon
<1>4. Cardinality({k}) * Cardinality(1 .. n) = n BY <1>1, <1>2
<1> QED BY <1>3, <1>4, Zenon

\* There are finitely many of them.
LEMMA UnitsFinite ==
  ASSUME NEW S, IsFiniteSet(S), NEW f, \A k \in S : f[k] \in Nat
  PROVE  IsFiniteSet(Units(f, S)) /\ SumOver(f, S) \in Nat
<1> DEFINE U == {{k} \X (1 .. f[k]) : k \in S}
           g == [k \in S |-> {k} \X (1 .. f[k])]
<1>1. g \in Surjection(S, U) BY Zenon DEF Surjection
<1>2. IsFiniteSet(U) BY <1>1, FS_Surjection
<1>3. ASSUME NEW k \in S PROVE IsFiniteSet({k} \X (1 .. f[k]))
  BY UnitsOfOne, Zenon
<1>4. IsFiniteSet(UNION U) BY <1>2, <1>3, FS_UNION, Zenon
<1> QED BY <1>4, FS_CardinalityType DEF Units, SumOver

\* A shard adds its load to the sum.
LEMMA SumAdds ==
  ASSUME NEW S, IsFiniteSet(S), NEW f, \A j \in S : f[j] \in Nat,
         NEW k, k \notin S, f[k] \in Nat
  PROVE  SumOver(f, S \cup {k}) = SumOver(f, S) + f[k]
<1> DEFINE K == {k} \X (1 .. f[k])
<1>1. Units(f, S \cup {k}) = Units(f, S) \cup K BY DEF Units
<1>2. Units(f, S) \cap K = {} BY DEF Units
<1>3. IsFiniteSet(K) /\ Cardinality(K) = f[k] BY UnitsOfOne, Zenon
<1> HIDE DEF K
<1>4. IsFiniteSet(Units(f, S)) /\ Cardinality(Units(f, S)) \in Nat
  BY UnitsFinite, FS_CardinalityType
<1>5. Cardinality(Units(f, S) \cup K) = Cardinality(Units(f, S)) + f[k]
  <2>1. Cardinality(Units(f, S) \cup K)
          = Cardinality(Units(f, S)) + Cardinality(K) - Cardinality(Units(f, S) \cap K)
    BY <1>3, <1>4, FS_Union, Zenon
  <2>2. Cardinality(Units(f, S) \cap K) = 0 BY <1>2, FS_EmptySet, Zenon
  <2> QED BY <1>3, <1>4, <2>1, <2>2
<1> QED BY <1>1, <1>5, Zenon DEF SumOver, Units

\* And it takes it away again.
LEMMA SumRemoves ==
  ASSUME NEW S, IsFiniteSet(S), NEW f, \A j \in S : f[j] \in Nat, NEW k \in S
  PROVE  SumOver(f, S \ {k}) = SumOver(f, S) - f[k]
<1>1. IsFiniteSet(S \ {k}) BY FS_RemoveElement
<1>2. (S \ {k}) \cup {k} = S OBVIOUS
<1>3. SumOver(f, (S \ {k}) \cup {k}) = SumOver(f, S \ {k}) + f[k] BY <1>1, SumAdds, Zenon
<1>4. SumOver(f, S \ {k}) \in Nat /\ f[k] \in Nat BY <1>1, UnitsFinite
<1> QED BY <1>2, <1>3, <1>4

\* The load of a single shard.
LEMMA SumOfOne ==
  ASSUME NEW k, NEW f, f[k] \in Nat
  PROVE  SumOver(f, {k}) = f[k]
<1>1. SumOver(f, {} \cup {k}) = SumOver(f, {}) + f[k] BY FS_EmptySet, SumAdds
<1>2. SumOver(f, {}) = 0 BY FS_EmptySet DEF SumOver
<1> QED BY <1>1, <1>2
-----------------------------------------------------------------------------
(* The inductive invariant. *)

Empty == PlanExecutor \ Donors

\* The turns at which donor d gives a shard to executor e.
Turns(d, e) ==
  {t \in 0 .. steals - 1 : /\ t % Cardinality(Donors) = Index(Donors, d)
                           /\ t % Cardinality(Empty) = Index(Empty, e)}

\* While shards are stolen: a shard that is not where it was went from a donor to an
\* empty executor, as often between each two of them as their turns came, and a donor
\* gave one shard in each round, to the last of which it may not have come yet.
StealInv ==
  /\ steals > 0 =>
       /\ AssignedToEmptyExecutors(kept, PlanExecutor)
       /\ steals <= ShardsPerEmptyExecutor(kept, PlanExecutor) * Cardinality(Empty)
  /\ \A k \in DOMAIN kept : own[k] = kept[k] \/ own[k] \in Empty
  /\ \A d \in Donors, e \in Empty :
       Cardinality({k \in ShardsOf(kept, d) : own[k] = e}) = Cardinality(Turns(d, e))
  /\ \A d \in Donors :
       Cardinality(Donors) * (Cardinality(ShardsOf(kept, d)) - Cardinality(ShardsOf(own, d)))
         <= steals + Cardinality(Donors) - 1 - Index(Donors, d)

\* Once they are: the steals were those of RebalancePlan, exactly the shards that were
\* moved have a new owner, within the budget, and each left another shard behind.
MoveInv ==
  /\ AssignedToEmptyExecutors(kept, PlanExecutor) =>
       assignShardsToEmptyExecutors(kept, PlanExecutor, spread)
  /\ moved = {k \in PlanShard : own[k] # spread[k]}
  /\ Cardinality(moved) <= (IF balancing = "NAIVE" THEN 1 ELSE computeMoveBudget)
  /\ EachMoveHelps(spread, own, moved)

\* The loads that the balancer keeps are those of the shards that executors have.
LoadsFollowMoves == loads = computeExecutorLoads(own)

LoadPlanInv ==
  /\ LoadPlanTypeOK
  /\ pass = "steal" => StealInv /\ moved = {}
  /\ pass # "steal" => MoveInv
  /\ pass = "move" => LoadsFollowMoves
-----------------------------------------------------------------------------
(* assignShardsToEmptyExecutors. *)

\* The shards of an executor are finitely many.
LEMMA ShardsFinite ==
  ASSUME NEW f, DOMAIN f \subseteq PlanShard, NEW e
  PROVE  /\ ShardsOf(f, e) \subseteq PlanShard
         /\ IsFiniteSet(ShardsOf(f, e)) /\ Cardinality(ShardsOf(f, e)) \in Nat
<1>1. ShardsOf(f, e) \in SUBSET PlanShard BY DEF ShardsOf
<1> QED BY <1>1, LoadPlanAssumption, FS_Subset, FS_CardinalityType

\* The executors are those with and those without shards.
LEMMA Lists ==
  /\ PlanExecutor \subseteq Nat
  /\ Donors \in SUBSET PlanExecutor /\ Empty \in SUBSET PlanExecutor
  /\ IsFiniteSet(Donors) /\ IsFiniteSet(Empty)
  /\ Cardinality(Donors) \in Nat /\ Cardinality(Empty) \in Nat
  /\ Cardinality(PlanExecutor) = Cardinality(Donors) + Cardinality(Empty)
  /\ Cardinality(PlanExecutor) \in Nat \ {0}
<1>1. Donors \in SUBSET PlanExecutor /\ Empty \in SUBSET PlanExecutor
  BY DEF Donors, Empty, WithShards
<1>2. IsFiniteSet(PlanExecutor) /\ PlanExecutor # {} /\ PlanExecutor \subseteq Nat
  BY LoadPlanAssumption
<1>3. IsFiniteSet(Donors) /\ IsFiniteSet(Empty)
  BY <1>1, <1>2, FS_Subset, Zenon
<1>4. /\ Cardinality(Donors) \in Nat /\ Cardinality(Empty) \in Nat
      /\ Cardinality(PlanExecutor) \in Nat
  BY <1>2, <1>3, FS_CardinalityType
<1>5. PlanExecutor = Donors \cup Empty /\ Donors \cap Empty = {}
  BY <1>1 DEF Empty
<1>6. Cardinality(Donors \cup Empty)
        = Cardinality(Donors) + Cardinality(Empty) - Cardinality(Donors \cap Empty)
  BY <1>3, FS_Union, Zenon
<1>7. Cardinality(Donors \cap Empty) = 0 BY <1>5, FS_EmptySet
<1>8. Cardinality(PlanExecutor) # 0 BY <1>2, FS_EmptySet
<1> QED BY <1>1, <1>2, <1>3, <1>4, <1>5, <1>6, <1>7, <1>8

\* With both kinds of executors there are some of each.
LEMMA SomeOfEach ==
  ASSUME AssignedToEmptyExecutors(kept, PlanExecutor)
  PROVE  /\ Donors # {} /\ Empty # {}
         /\ Cardinality(Donors) \in Nat \ {0} /\ Cardinality(Empty) \in Nat \ {0}
<1>1. Donors # {} /\ Empty # {}
  BY Lists DEF AssignedToEmptyExecutors, Donors, Empty, WithShards
<1> QED BY <1>1, Lists, FS_EmptySet

\* ShardsPerEmptyExecutor: "we use the minimum", so all steals together take fewer
\* shards than each donor has, round for round.
LEMMA StealBound ==
  ASSUME LoadPlanTypeOK, AssignedToEmptyExecutors(kept, PlanExecutor)
  PROVE  LET p == ShardsPerEmptyExecutor(kept, PlanExecutor)
         IN  /\ p \in Nat /\ p * Cardinality(Empty) \in Nat
             /\ \A d \in Donors :
                  p * Cardinality(Empty)
                    <= Cardinality(Donors) * (Cardinality(ShardsOf(kept, d)) - 1)
<1> DEFINE C(d) == Cardinality(ShardsOf(kept, d))
           S == {C(d) : d \in Donors}
           least == CHOOSE n \in S : \A d \in Donors : n <= C(d)
           w == Cardinality(Donors)
           x == Cardinality(Empty)
           p == (least * w) \div (w + x)
<1>1. \A d \in Donors : C(d) \in Nat /\ C(d) >= 1
  <2> SUFFICES ASSUME NEW d \in Donors PROVE C(d) \in Nat /\ C(d) >= 1
    OBVIOUS
  <2>1. IsFiniteSet(ShardsOf(kept, d)) /\ C(d) \in Nat
    BY ShardsFinite DEF LoadPlanTypeOK
  <2>2. ShardsOf(kept, d) # {} BY DEF Donors, WithShards
  <2> QED BY <2>1, <2>2, FS_EmptySet
<1>2. w \in Nat \ {0} /\ x \in Nat \ {0} /\ Cardinality(PlanExecutor) = w + x
  BY SomeOfEach, Lists
<1>3. least \in Nat /\ \A d \in Donors : least <= C(d)
  <2>1. S \in SUBSET Nat BY <1>1
  <2>2. S # {} BY SomeOfEach
  <2>3. \E n \in S : \A m \in S : n <= m BY <2>1, <2>2, LeastNatural, Zenon
  <2>4. \E n \in S : \A d \in Donors : n <= C(d) BY <2>3
  <2>5. least \in S /\ \A d \in Donors : least <= C(d) BY <2>4
  <2> QED BY <2>1, <2>5
<1>4. ShardsPerEmptyExecutor(kept, PlanExecutor) = p
  BY <1>2 DEF ShardsPerEmptyExecutor, Donors
<1> HIDE DEF C, least, w, x
<1>5. p \in Nat /\ (w + x) * p <= least * w
  <2>1. least * w \in Nat /\ w + x \in Nat \ {0} BY <1>2, <1>3
  <2> QED BY <2>1, DivBound
<1> HIDE DEF p
<1>6. p * x \in Nat BY <1>2, <1>5
<1>7. ASSUME NEW d \in Donors PROVE p * x <= w * (C(d) - 1)
  <2>1. CASE p = 0
    <3>1. w * (C(d) - 1) >= 0 BY <1>1, <1>2
    <3> QED BY <1>2, <2>1, <3>1
  <2>2. CASE p >= 1
    <3>1. p * x = (w + x) * p - w * p BY <1>2, <1>5
    <3>2. w * p >= w BY <1>2, <1>5, <2>2
    <3>3. w * least <= w * C(d) BY <1>1, <1>2, <1>3
    <3>4. w * (C(d) - 1) = w * C(d) - w BY <1>1, <1>2
    <3>5. w * p \in Nat /\ (w + x) * p \in Nat /\ w * least \in Nat /\ w * C(d) \in Nat
          /\ least * w = w * least
      BY <1>1, <1>2, <1>3, <1>5
    <3> QED BY <1>2, <1>5, <3>1, <3>2, <3>3, <3>4, <3>5
  <2> QED BY <1>5, <2>1, <2>2
<1> QED BY <1>4, <1>5, <1>6, <1>7 DEF C, w, x

\* In each round a donor gives a shard at most, so the last is never given.
LEMMA StealsLeaveAShard == LoadPlanTypeOK /\ pass = "steal" /\ StealInv => DonorsKeepAShard
<1> SUFFICES ASSUME LoadPlanTypeOK, pass = "steal", StealInv, NEW d \in Donors
             PROVE  ShardsOf(own, d) # {}
  BY DEF DonorsKeepAShard
<1> DEFINE c == Cardinality(ShardsOf(kept, d))
           o == Cardinality(ShardsOf(own, d))
           w == Cardinality(Donors)
           i == Index(Donors, d)
<1>1. c \in Nat /\ o \in Nat /\ IsFiniteSet(ShardsOf(own, d)) /\ IsFiniteSet(ShardsOf(kept, d))
  BY ShardsFinite DEF LoadPlanTypeOK
<1>2. c >= 1
  BY <1>1, FS_EmptySet DEF Donors, WithShards
<1>3. w \in Nat \ {0}
  BY Lists, FS_EmptySet
<1>4. i \in Nat
  BY Lists, IndexNat
<1>5. w * (c - o) <= steals + w - 1 - i
  BY DEF StealInv
<1>6. steals \in Nat /\ steals <= w * (c - 1)
  <2>1. CASE steals = 0 BY <1>2, <1>1, <1>3, <2>1
  <2>2. CASE steals > 0
    BY <2>2, StealBound, <1>1, <1>3 DEF StealInv, LoadPlanTypeOK
  <2> QED BY <2>1, <2>2 DEF LoadPlanTypeOK
<1> HIDE DEF c, o, w, i
<1>7. w * (c - o) <= w * (c - 1) + w - 1
  <2>1. w * (c - o) \in Int /\ w * (c - 1) \in Int BY <1>1, <1>3
  <2> QED BY <1>3, <1>4, <1>5, <1>6, <2>1
<1>8. c - o <= c - 1 BY <1>1, <1>3, <1>7, Rounds
<1>9. o >= 1 BY <1>1, <1>8
<1> QED BY <1>1, <1>9, FS_EmptySet DEF o

\* The next donor gives a shard that it has kept to the next empty executor.
LEMMA StealShardStep ==
  ASSUME LoadPlanTypeOK, pass = "steal", StealInv, StealShard
  PROVE  own' \in [DOMAIN kept -> PlanExecutor] /\ StealInv'
<1> DEFINE w == Cardinality(Donors)
           x == Cardinality(Empty)
           d == Nth(Donors, steals % w)
           e == Nth(Empty, steals % x)
<1>1. /\ AssignedToEmptyExecutors(kept, PlanExecutor)
      /\ steals < ShardsPerEmptyExecutor(kept, PlanExecutor) * x
      /\ steals' = steals + 1 /\ kept' = kept
  BY DEF StealShard, StealsLeft, Empty
<1>2. PICK k \in ShardsOf(own, d) : own' = [own EXCEPT ![k] = e]
  BY Zenon DEF StealShard, Empty
<1>3. w \in Nat \ {0} /\ x \in Nat \ {0} /\ steals \in Nat
  BY <1>1, SomeOfEach DEF LoadPlanTypeOK
<1>n. /\ Donors \in SUBSET Nat /\ IsFiniteSet(Donors) /\ steals % w \in 0 .. w - 1
      /\ Empty \in SUBSET Nat /\ IsFiniteSet(Empty) /\ steals % x \in 0 .. x - 1
  BY <1>3, ModBound, Lists, Zenon
<1>4. d \in Donors /\ Index(Donors, d) = steals % w
  BY <1>n, NthExecutor, Zenon
<1>5. e \in Empty /\ Index(Empty, e) = steals % x
  BY <1>n, NthExecutor, Zenon
<1> HIDE DEF d, e
<1>6. Donors' = Donors /\ Empty' = Empty
  BY <1>1 DEF Donors, Empty
<1>7. own \in [DOMAIN kept -> PlanExecutor] /\ kept \in [DOMAIN kept -> PlanExecutor]
      /\ DOMAIN kept \subseteq PlanShard
  BY DEF LoadPlanTypeOK
<1>8. k \in DOMAIN kept /\ own[k] = d /\ d \notin Empty /\ e \notin Donors /\ d # e /\ kept[k] = d
  BY <1>2, <1>4, <1>5, <1>7 DEF ShardsOf, Empty, StealInv
<1>9. own' \in [DOMAIN kept -> PlanExecutor]
  BY <1>2, <1>5, <1>7, Lists, Zenon
<1>10. own'[k] = e /\ \A j \in DOMAIN kept : j # k => own'[j] = own[j]
  BY <1>2, <1>7, <1>8
<1>11. /\ AssignedToEmptyExecutors(kept, PlanExecutor)'
       /\ (steals <= ShardsPerEmptyExecutor(kept, PlanExecutor) * Cardinality(Empty))'
  <2>1. ShardsPerEmptyExecutor(kept, PlanExecutor) * x \in Nat BY <1>1, StealBound
  <2> QED BY <1>1, <1>3, <1>6, <2>1
<1>12. \A j \in DOMAIN kept : own'[j] = kept[j] \/ own'[j] \in Empty
  BY <1>5, <1>10 DEF StealInv
<1>13. ASSUME NEW a \in Donors, NEW b \in Empty
       PROVE  Cardinality({j \in ShardsOf(kept, a) : own'[j] = b}) = Cardinality(Turns(a, b)')
  <2> DEFINE K == {j \in ShardsOf(kept, a) : own[j] = b}
             L == {j \in ShardsOf(kept, a) : own'[j] = b}
  <2>1. Cardinality(K) = Cardinality(Turns(a, b)) BY DEF StealInv
  <2>2. Turns(a, b)' =
          {t \in 0 .. steals : t % w = Index(Donors, a) /\ t % x = Index(Empty, b)}
    BY <1>1, <1>3, <1>6 DEF Turns
  <2>3. CASE a = d /\ b = e
    <3>1. L = K \cup {k} /\ k \notin K
      BY <1>7, <1>8, <1>10, <2>3 DEF ShardsOf
    <3>2. Turns(a, b)' = Turns(a, b) \cup {steals} /\ steals \notin Turns(a, b)
      BY <1>3, <1>4, <1>5, <2>2, <2>3 DEF Turns
    <3>3. IsFiniteSet(K)
      <4>1. K \in SUBSET ShardsOf(kept, a) OBVIOUS
      <4> QED BY <1>7, <4>1, ShardsFinite, FS_Subset
    <3>4. IsFiniteSet(Turns(a, b))
      <4>1. Turns(a, b) \in SUBSET (0 .. steals - 1) BY DEF Turns
      <4>2. IsFiniteSet(0 .. steals - 1) BY <1>3, FS_Interval
      <4> QED BY <4>1, <4>2, FS_Subset, Zenon
    <3> HIDE DEF K, L
    <3>5. Cardinality(L) = Cardinality(K) + 1 BY <3>1, <3>3, FS_AddElement
    <3>6. Cardinality(Turns(a, b)') = Cardinality(Turns(a, b)) + 1
      BY <3>2, <3>4, FS_AddElement
    <3> QED BY <2>1, <3>5, <3>6 DEF L
  <2>4. CASE ~(a = d /\ b = e)
    <3>1. L = K
      BY <1>7, <1>8, <1>10, <2>4 DEF ShardsOf, Empty, StealInv
    <3>2. Turns(a, b)' = Turns(a, b)
      <4>1. ~(steals % w = Index(Donors, a) /\ steals % x = Index(Empty, b))
        BY <1>4, <1>5, <2>4, Lists, Positions
      <4> QED BY <1>3, <2>2, <4>1 DEF Turns
    <3> QED BY <2>1, <3>1, <3>2
  <2> QED BY <2>3, <2>4
<1>14. ASSUME NEW a \in Donors
       PROVE  w * (Cardinality(ShardsOf(kept, a)) - Cardinality(ShardsOf(own', a)))
                <= steals' + w - 1 - Index(Donors, a)
  <2> DEFINE c == Cardinality(ShardsOf(kept, a))
             o == Cardinality(ShardsOf(own, a))
             i == Index(Donors, a)
  <2>1. w * (c - o) <= steals + w - 1 - i BY DEF StealInv
  <2>2. c \in Nat /\ o \in Nat /\ IsFiniteSet(ShardsOf(own, a))
    BY <1>7, ShardsFinite
  <2>3. i \in Nat BY Lists, IndexNat
  <2>4. CASE a = d
    <3>1. ShardsOf(own', a) = ShardsOf(own, a) \ {k} /\ k \in ShardsOf(own, a)
      BY <1>2, <1>7, <1>8, <1>9, <1>10, <2>4 DEF ShardsOf
    <3>2. Cardinality(ShardsOf(own', a)) = o - 1 BY <2>2, <3>1, FS_RemoveElement, Zenon
    <3>3. PICK q \in Nat : steals = w * q + i
      <4>1. \E q \in Nat : steals = w * q + (steals % w) BY <1>3, ModBound, Zenon
      <4>2. i = steals % w BY <1>4, <2>4
      <4> QED BY <4>1, <4>2, Zenon
    <3> HIDE DEF c, o, i, w
    <3>4. w * (c - o) <= w * q + w - 1 BY <1>3, <2>1, <2>2, <2>3, <3>3
    <3>5. w * (c - o) <= w * q BY <1>3, <2>2, <3>4, Rounds
    <3>6. w * (c - (o - 1)) = w * (c - o) + w BY <1>3, <2>2
    <3>7. w * (c - o) \in Int /\ w * q \in Int BY <1>3, <2>2
    <3>8. w * (c - (o - 1)) <= steals' + w - 1 - i
      BY <1>1, <1>3, <2>3, <3>3, <3>5, <3>6, <3>7
    <3> QED BY <3>2, <3>8 DEF c, i
  <2>5. CASE a # d
    <3>1. ShardsOf(own', a) = ShardsOf(own, a)
      BY <1>5, <1>7, <1>8, <1>9, <1>10, <2>5 DEF ShardsOf
    <3>2. w * (c - o) \in Int BY <1>3, <2>2
    <3> QED BY <1>1, <1>3, <2>1, <2>3, <3>1, <3>2
  <2> QED BY <2>4, <2>5
<1> QED BY <1>6, <1>1, <1>9, <1>11, <1>12, <1>13, <1>14 DEF StealInv

\* The steals of the whole pass are those that RebalancePlan gives to each two executors.
LEMMA StealsAreAllowed ==
  ASSUME LoadPlanTypeOK, pass = "steal", StealInv, ~StealsLeft,
         AssignedToEmptyExecutors(kept, PlanExecutor),
         NEW asg, \A k \in DOMAIN own : asg[k] = own[k]
  PROVE  assignShardsToEmptyExecutors(kept, PlanExecutor, asg)
<1> DEFINE p == ShardsPerEmptyExecutor(kept, PlanExecutor)
<1>1. steals = p * Cardinality(Empty)
  <2>1. p * Cardinality(Empty) \in Nat BY StealBound
  <2>2. steals \in Nat /\ ~(steals < p * Cardinality(Empty))
    BY DEF StealsLeft, Empty, LoadPlanTypeOK
  <2>3. steals > 0 => steals <= p * Cardinality(Empty) BY DEF StealInv
  <2> HIDE DEF p
  <2> QED BY <2>1, <2>2, <2>3
<1> HIDE DEF p
<1>2. DOMAIN own = DOMAIN kept BY DEF LoadPlanTypeOK
<1> SUFFICES ASSUME NEW d \in PlanExecutor, NEW e \in PlanExecutor, d # e
             PROVE  Cardinality({k \in ShardsOf(kept, d) : asg[k] = e}) =
                    Cardinality(Stolen(kept, PlanExecutor, d, e))
  BY DEF assignShardsToEmptyExecutors
<1>3. {k \in ShardsOf(kept, d) : asg[k] = e} = {k \in ShardsOf(kept, d) : own[k] = e}
  BY <1>2 DEF ShardsOf
<1>4. CASE d \in Donors /\ e \in Empty
  <2>1. Stolen(kept, PlanExecutor, d, e) = Turns(d, e)
    BY <1>1, <1>4 DEF Stolen, Turns, Empty, Donors, p
  <2> QED BY <1>3, <1>4, <2>1 DEF StealInv
<1>5. CASE ~(d \in Donors /\ e \in Empty)
  <2>1. Stolen(kept, PlanExecutor, d, e) = {}
    BY <1>5 DEF Stolen, Empty, Donors
  <2>2. {k \in ShardsOf(kept, d) : own[k] = e} = {}
    BY <1>5 DEF StealInv, ShardsOf, Empty, Donors, WithShards
  <2> QED BY <1>3, <2>1, <2>2
<1> QED BY <1>4, <1>5

-----------------------------------------------------------------------------
(* The moves. *)

\* Every shard has a load, measured or not.
LEMMA EffectiveLoads ==
  ASSUME LoadPlanTypeOK, NEW k \in PlanShard
  PROVE  /\ effectiveShardLoad(k) \in Nat
         /\ balancing = "GREEDY" /\ k \in Measured /\ load[k] > 0 => effectiveShardLoad(k) > 0
<1>1. Measured \in SUBSET PlanShard BY DEF Measured
<1>2. IsFiniteSet(Measured) /\ Cardinality(Measured) \in Nat
  BY <1>1, LoadPlanAssumption, FS_Subset, FS_CardinalityType
<1>3. \A j \in Measured : load[j] \in Nat
  BY LoadPlanAssumption DEF LoadPlanTypeOK, Measured
<1>4. SumOver(load, Measured) \in Nat BY <1>2, <1>3, UnitsFinite
<1>5. k \in Measured => Cardinality(Measured) # 0 BY <1>2, FS_EmptySet
<1>6. CASE balancing = "NAIVE"
  BY <1>3, <1>6 DEF effectiveShardLoad
<1>7. CASE balancing = "GREEDY" /\ k \in Measured
  <2>1. effectiveShardLoad(k) = load[k] * Cardinality(Measured)
    BY <1>7 DEF effectiveShardLoad
  <2>2. load[k] \in Nat /\ Cardinality(Measured) \in Nat \ {0} BY <1>2, <1>3, <1>5, <1>7
  <2> QED BY <2>1, <2>2
<1>8. CASE balancing = "GREEDY" /\ k \notin Measured
  BY <1>4, <1>8 DEF effectiveShardLoad
<1> QED BY <1>6, <1>7, <1>8 DEF LoadPlanTypeOK

\* The loads of the executors are natural numbers.
LEMMA ExecutorLoads ==
  ASSUME LoadPlanTypeOK, NEW asg, DOMAIN asg \subseteq PlanShard
  PROVE  computeExecutorLoads(asg) \in [PlanExecutor -> Nat]
<1> DEFINE f == [k \in PlanShard |-> effectiveShardLoad(k)]
<1>1. \A k \in PlanShard : f[k] \in Nat BY EffectiveLoads
<1> HIDE DEF f
<1>2. ASSUME NEW e \in PlanExecutor PROVE SumOver(f, ShardsOf(asg, e)) \in Nat
  BY <1>1, ShardsFinite, UnitsFinite
<1> QED BY <1>2 DEF computeExecutorLoads, f

\* The budget of GREEDY.
LEMMA BudgetNat == computeMoveBudget \in Nat
<1>1. Cardinality(PlanShard) \in Nat /\ MoveBudgetProportion \in Nat
  BY LoadPlanAssumption, FS_CardinalityType
<1>2. MoveBudgetProportion * Cardinality(PlanShard) + 99 \in Nat BY <1>1
<1> QED BY <1>2, DivBound DEF computeMoveBudget

\* The shards without an owner are handed out.
LEMMA SpreadShardsStep ==
  ASSUME LoadPlanTypeOK, pass = "steal", StealInv, moved = {}, SpreadShards
  PROVE  LoadPlanInv'
<1>1. /\ own' \in [PlanShard -> PlanExecutor] /\ \A k \in DOMAIN own : own'[k] = own[k]
      /\ spread' = own' /\ loads' = computeExecutorLoads(own') /\ pass' = "move"
      /\ balancing' = balancing /\ load' = load /\ cooling' = cooling /\ steals' = steals
      /\ kept' = kept /\ moved' = {} /\ ~StealsLeft
  BY DEF SpreadShards
<1>2. loads' \in [PlanExecutor -> Nat] BY <1>1, ExecutorLoads
<1>3. LoadPlanTypeOK' BY <1>1, <1>2 DEF LoadPlanTypeOK
<1>4. LoadsFollowMoves'
  BY <1>1 DEF LoadsFollowMoves, computeExecutorLoads, effectiveShardLoad, Measured
<1>5. (AssignedToEmptyExecutors(kept, PlanExecutor) =>
         assignShardsToEmptyExecutors(kept, PlanExecutor, spread))'
  BY <1>1, StealsAreAllowed
<1>6. EachMoveHelps(spread', own', {})
  <2>1. [x \in {} |-> 0] \in [{} -> 1 .. Cardinality({})] OBVIOUS
  <2> QED BY <2>1, Zenon DEF EachMoveHelps
<1>7. Cardinality({}) <= 1 /\ Cardinality({}) <= computeMoveBudget
  BY FS_EmptySet, BudgetNat
<1>8. computeMoveBudget' = computeMoveBudget BY DEF computeMoveBudget
<1>9. MoveInv' BY <1>1, <1>5, <1>6, <1>7, <1>8 DEF MoveInv
<1> QED BY <1>1, <1>3, <1>4, <1>9 DEF LoadPlanInv

\* A move takes a shard that was not moved yet, and leaves the target below its source.
LEMMA MoveCools ==
  ASSUME LoadPlanTypeOK, pass = "move", NEW m \in Moves
  PROVE  /\ m.shard \in PlanShard \ moved /\ m.from \in PlanExecutor /\ m.to \in PlanExecutor
         /\ own[m.shard] = m.from
         /\ loads[m.to] + effectiveShardLoad(m.shard) < loads[m.from]
         /\ balancing = "NAIVE" => moved = {}
         /\ balancing = "GREEDY" => Cardinality(moved) < computeMoveBudget
<1>1. DOMAIN own = PlanShard /\ loads \in [PlanExecutor -> Nat] BY DEF LoadPlanTypeOK
<1>2. CASE balancing = "NAIVE"
  <2>1. m \in NaiveMoves BY <1>2 DEF Moves
  <2> QED BY <1>1, <1>2, <2>1 DEF NaiveMoves, Hottest, Coldest
<1>3. CASE balancing = "GREEDY"
  <2>1. m \in GreedyMoves BY <1>3 DEF Moves
  <2>2. m.from \in PlanExecutor /\ m.to \in PlanExecutor
    BY <2>1 DEF GreedyMoves, Sources, findBestDestination, Destinations, UnderLoaded
  <2>3. m.shard \in Movable(m.from, m.to) /\ Cardinality(moved) < computeMoveBudget
    BY <2>1 DEF GreedyMoves
  <2>4. /\ m.shard \in PlanShard \ moved /\ own[m.shard] = m.from
        /\ m.shard \in Measured /\ load[m.shard] > 0
        /\ computeBenefitOfMove(loads[m.from], loads[m.to], effectiveShardLoad(m.shard)) > 0
    BY <1>1, <2>3 DEF Movable, ShardsOf, Benefit
  <2>5. effectiveShardLoad(m.shard) \in Nat \ {0} BY <1>3, <2>4, EffectiveLoads
  <2>6. loads[m.from] \in Nat /\ loads[m.to] \in Nat BY <1>1, <2>2
  <2>7. loads[m.to] + effectiveShardLoad(m.shard) < loads[m.from]
    BY <2>4, <2>5, <2>6, BenefitCools
  <2> QED BY <1>3, <2>2, <2>3, <2>4, <2>7
<1> QED BY <1>2, <1>3 DEF LoadPlanTypeOK

\* Its source has another shard: one that is all of the load of its executor is too
\* heavy to be moved.
LEMMA SourceKeepsAShard ==
  ASSUME LoadPlanTypeOK, pass = "move", LoadsFollowMoves, NEW m \in Moves
  PROVE  \E j \in PlanShard \ {m.shard} : own[j] = m.from
<1> DEFINE f == [k \in PlanShard |-> effectiveShardLoad(k)]
<1>1. /\ m.shard \in PlanShard /\ m.from \in PlanExecutor /\ m.to \in PlanExecutor
      /\ own[m.shard] = m.from
      /\ loads[m.to] + effectiveShardLoad(m.shard) < loads[m.from]
  BY MoveCools
<1>2. DOMAIN own = PlanShard /\ loads \in [PlanExecutor -> Nat] BY DEF LoadPlanTypeOK
<1>3. loads[m.from] = SumOver(f, ShardsOf(own, m.from))
  BY <1>1 DEF LoadsFollowMoves, computeExecutorLoads
<1>4. f[m.shard] = effectiveShardLoad(m.shard) /\ f[m.shard] \in Nat BY <1>1, EffectiveLoads
<1> HIDE DEF f
<1>5. ASSUME \A j \in PlanShard \ {m.shard} : own[j] # m.from PROVE FALSE
  <2>1. ShardsOf(own, m.from) = {m.shard} BY <1>1, <1>2, <1>5 DEF ShardsOf
  <2>2. loads[m.from] = effectiveShardLoad(m.shard) BY <1>3, <1>4, <2>1, SumOfOne
  <2>3. loads[m.to] \in Nat /\ loads[m.from] \in Nat BY <1>1, <1>2
  <2> QED BY <1>1, <2>2, <2>3
<1> QED BY <1>5

\* After the moves so far each of which left a shard behind comes another one.
LEMMA OneMoreMoveHelps ==
  ASSUME NEW A, NEW B, NEW M \in SUBSET A, IsFiniteSet(A),
         NEW mid \in [A -> B], NEW f \in [A -> B], NEW k \in A \ M, NEW to \in B,
         \A j \in A \ M : f[j] = mid[j],
         \E j \in A \ {k} : f[j] = f[k],
         EachMoveHelps(mid, f, M)
  PROVE  EachMoveHelps(mid, [f EXCEPT ![k] = to], M \cup {k})
<1> DEFINE g == [f EXCEPT ![k] = to]
           N == M \cup {k}
           n == Cardinality(M)
<1>1. IsFiniteSet(M) /\ n \in Nat /\ Cardinality(N) = n + 1
  <2>1. IsFiniteSet(M) BY FS_Subset
  <2> QED BY <2>1, FS_CardinalityType, FS_AddElement
<1>2. PICK turn \in [M -> 1 .. n] :
        /\ \A i, j \in M : turn[i] = turn[j] => i = j
        /\ \A i \in M : \E j \in DOMAIN f \ {i} :
             mid[i] = IF j \in M /\ turn[j] < turn[i] THEN f[j] ELSE mid[j]
  BY DEF EachMoveHelps
<1>3. g \in [A -> B] /\ DOMAIN f = A /\ \A j \in A \ {k} : g[j] = f[j] OBVIOUS
<1> DEFINE next == [i \in N |-> IF i = k THEN n + 1 ELSE turn[i]]
<1>4. next \in [N -> 1 .. n + 1]
  <2>1. \A i \in M : turn[i] \in 1 .. n BY <1>2, Zenon
  <2>2. \A v \in 1 .. n : v \in 1 .. n + 1 BY ONLY <1>1
  <2>3. n + 1 \in 1 .. n + 1 BY ONLY <1>1
  <2>4. ASSUME NEW i \in N PROVE (IF i = k THEN n + 1 ELSE turn[i]) \in 1 .. n + 1
    BY <2>1, <2>2, <2>3, Zenon
  <2> QED BY <2>4, Zenon
<1>5. next[k] = n + 1 /\ \A i \in M : next[i] = turn[i] /\ next[i] \in 1 .. n
  <2>1. \A i \in M : i \in N /\ i # k /\ turn[i] \in 1 .. n BY <1>2, Zenon
  <2> QED BY <2>1, Zenon
<1> HIDE DEF next
<1>6. \A i, j \in N : next[i] = next[j] => i = j
  <2>1. \A i \in M : next[i] # next[k] BY <1>1, <1>5
  <2>2. \A i, j \in M : next[i] = next[j] => i = j BY <1>2, <1>5, Zenon
  <2> QED BY <2>1, <2>2, Zenon
<1>7. ASSUME NEW i \in M
      PROVE  \E j \in A \ {i} : mid[i] = IF j \in N /\ next[j] < next[i] THEN g[j] ELSE mid[j]
  <2>1. PICK j \in A \ {i} : mid[i] = IF j \in M /\ turn[j] < turn[i] THEN f[j] ELSE mid[j]
    BY <1>2, <1>3
  <2>2. CASE j = k
    <3>1. ~(next[k] < next[i]) BY <1>1, <1>5
    <3> QED BY <2>1, <2>2, <3>1, Zenon
  <2>3. CASE j # k BY <1>3, <1>5, <2>1, <2>3
  <2> QED BY <2>2, <2>3
<1>8. \E j \in A \ {k} : mid[k] = IF j \in N /\ next[j] < next[k] THEN g[j] ELSE mid[j]
  <2>1. PICK j \in A \ {k} : f[j] = f[k] OBVIOUS
  <2>2. CASE j \in M
    <3>1. j \in N /\ next[j] < next[k] BY <1>1, <1>5, <2>2
    <3>2. g[j] = mid[k] BY <1>3, <2>1
    <3> QED BY <3>1, <3>2, Zenon
  <2>3. CASE j \notin M BY <1>3, <2>1, <2>3
  <2> QED BY <2>2, <2>3
<1>9. \A i \in N : \E j \in A \ {i} : mid[i] = IF j \in N /\ next[j] < next[i] THEN g[j] ELSE mid[j]
  BY <1>7, <1>8
<1>10. DOMAIN g = A BY <1>3
<1> HIDE DEF g, N
<1>11. EachMoveHelps(mid, g, N) BY <1>1, <1>4, <1>6, <1>9, <1>10 DEF EachMoveHelps
<1> QED BY <1>11 DEF g, N

\* No executor is below itself.
LEMMA MoveHasTwoEnds ==
  ASSUME NEW S, NEW g \in [S -> Nat], NEW a \in S, NEW b \in S, NEW l \in Nat,
         g[b] + l < g[a]
  PROVE  a # b
  OBVIOUS

\* The loads of two executors follow a move between them.
LEMMA LoadsFollow ==
  ASSUME LoadPlanTypeOK, pass = "move", LoadsFollowMoves, NEW m \in Moves
  PROVE  LET next == [own EXCEPT ![m.shard] = m.to]
             l == effectiveShardLoad(m.shard)
         IN  [loads EXCEPT ![m.from] = @ - l, ![m.to] = @ + l] = computeExecutorLoads(next)
<1> DEFINE f == [k \in PlanShard |-> effectiveShardLoad(k)]
           k == m.shard
           l == effectiveShardLoad(k)
           next == [own EXCEPT ![k] = m.to]
           from == m.from
           to == m.to
           new == [loads EXCEPT ![from] = @ - l, ![to] = @ + l]
<1>1. /\ k \in PlanShard /\ from \in PlanExecutor /\ to \in PlanExecutor
      /\ own[k] = from /\ loads[to] + l < loads[from]
  BY MoveCools
<1>2. own \in [PlanShard -> PlanExecutor] /\ loads \in [PlanExecutor -> Nat]
  BY DEF LoadPlanTypeOK
<1>3. \A j \in PlanShard : f[j] \in Nat BY EffectiveLoads
<1>4. f[k] = l /\ l \in Nat BY <1>1, <1>3
<1>5. \A e \in PlanExecutor : loads[e] = SumOver(f, ShardsOf(own, e))
  BY DEF LoadsFollowMoves, computeExecutorLoads
<1>6. \A e \in PlanExecutor : computeExecutorLoads(next)[e] = SumOver(f, ShardsOf(next, e))
  BY DEF computeExecutorLoads
<1>7. next \in [PlanShard -> PlanExecutor] /\ next[k] = to
      /\ \A j \in PlanShard \ {k} : next[j] = own[j]
  BY <1>1, <1>2
<1> HIDE DEF f, l, k, next, from, to
<1>8. to # from BY <1>1, <1>2, <1>4, MoveHasTwoEnds, Zenon
<1>9. /\ new \in [PlanExecutor -> Int] /\ new[from] = loads[from] - l
      /\ new[to] = loads[to] + l
      /\ \A e \in PlanExecutor \ {from, to} : new[e] = loads[e]
  <2>1. /\ loads \in [PlanExecutor -> Nat] /\ from \in PlanExecutor /\ to \in PlanExecutor
        /\ l \in Nat
    BY <1>1, <1>2, <1>4, Zenon
  <2>2. [loads EXCEPT ![from] = @ - l] \in [PlanExecutor -> Int] BY ONLY <2>1
  <2> QED BY ONLY <1>8, <2>1, <2>2 DEF new
<1> HIDE DEF new
<1>10. \A e \in PlanExecutor : /\ IsFiniteSet(ShardsOf(own, e))
                               /\ \A j \in ShardsOf(own, e) : f[j] \in Nat
  BY <1>2, <1>3, ShardsFinite
<1>11. new[from] = SumOver(f, ShardsOf(next, from))
  <2>1. ShardsOf(next, from) = ShardsOf(own, from) \ {k} /\ k \in ShardsOf(own, from)
    BY <1>1, <1>2, <1>7, <1>8 DEF ShardsOf
  <2>2. SumOver(f, ShardsOf(own, from) \ {k}) = SumOver(f, ShardsOf(own, from)) - f[k]
    BY <1>1, <1>10, <2>1, SumRemoves, Zenon
  <2> QED BY <1>1, <1>4, <1>5, <1>9, <2>1, <2>2
<1>12. new[to] = SumOver(f, ShardsOf(next, to))
  <2>1. ShardsOf(next, to) = ShardsOf(own, to) \cup {k} /\ k \notin ShardsOf(own, to)
    BY <1>1, <1>2, <1>7, <1>8 DEF ShardsOf
  <2>2. SumOver(f, ShardsOf(own, to) \cup {k}) = SumOver(f, ShardsOf(own, to)) + f[k]
    <3>1. IsFiniteSet(ShardsOf(own, to)) /\ \A j \in ShardsOf(own, to) : f[j] \in Nat
      BY <1>1, <1>10, Zenon
    <3>2. f[k] \in Nat BY <1>4, Zenon
    <3> QED BY <2>1, <3>1, <3>2, SumAdds, Zenon
  <2> QED BY <1>1, <1>4, <1>5, <1>9, <2>1, <2>2
<1>13. ASSUME NEW e \in PlanExecutor \ {from, to}
       PROVE  new[e] = SumOver(f, ShardsOf(next, e))
  <2>1. ShardsOf(next, e) = ShardsOf(own, e) BY <1>1, <1>2, <1>7 DEF ShardsOf
  <2> QED BY <1>5, <1>9, <2>1
<1>14. \A e \in PlanExecutor : new[e] = computeExecutorLoads(next)[e]
  BY <1>6, <1>11, <1>12, <1>13
<1>15. new = computeExecutorLoads(next)
  BY <1>9, <1>14 DEF computeExecutorLoads
<1> QED BY <1>15 DEF new, next, l, k, from, to

\* A move is within the budget and leaves a shard behind.
LEMMA NextMoveStep ==
  ASSUME LoadPlanInv, NextMove
  PROVE  LoadPlanInv'
<1>1. pass = "move" /\ LoadPlanTypeOK /\ MoveInv /\ LoadsFollowMoves
  BY DEF NextMove, LoadPlanInv
<1>2. PICK m \in Moves :
        /\ own' = [own EXCEPT ![m.shard] = m.to]
        /\ loads' = [loads EXCEPT ![m.from] = @ - effectiveShardLoad(m.shard),
                                  ![m.to] = @ + effectiveShardLoad(m.shard)]
        /\ moved' = moved \cup {m.shard}
  BY Zenon DEF NextMove
<1>3. UNCHANGED <<balancing, load, cooling, pass, steals, kept, spread>> BY DEF NextMove
<1>4. /\ m.shard \in PlanShard \ moved /\ m.from \in PlanExecutor /\ m.to \in PlanExecutor
      /\ own[m.shard] = m.from
      /\ loads[m.to] + effectiveShardLoad(m.shard) < loads[m.from]
      /\ balancing = "NAIVE" => moved = {}
      /\ balancing = "GREEDY" => Cardinality(moved) < computeMoveBudget
  BY <1>1, MoveCools
<1>5. /\ own \in [PlanShard -> PlanExecutor] /\ spread \in [PlanShard -> PlanExecutor]
      /\ loads \in [PlanExecutor -> Nat] /\ moved \in SUBSET PlanShard
  BY <1>1 DEF LoadPlanTypeOK
<1>6. own' \in [PlanShard -> PlanExecutor] BY <1>2, <1>4, <1>5
<1>7. loads' = computeExecutorLoads(own') BY <1>1, <1>2, LoadsFollow, Zenon
<1>8. loads' \in [PlanExecutor -> Nat] BY <1>1, <1>6, <1>7, ExecutorLoads
<1>9. LoadPlanTypeOK' BY <1>1, <1>2, <1>3, <1>4, <1>6, <1>8 DEF LoadPlanTypeOK
<1>10. LoadsFollowMoves'
  BY <1>3, <1>7 DEF LoadsFollowMoves, computeExecutorLoads, effectiveShardLoad, Measured
<1>11. m.to # m.from
  <2>1. effectiveShardLoad(m.shard) \in Nat BY <1>1, <1>4, EffectiveLoads
  <2> QED BY <1>4, <1>5, <2>1, MoveHasTwoEnds, Zenon
<1>12. moved = {k \in PlanShard : own[k] # spread[k]} BY <1>1 DEF MoveInv
<1>13. moved' = {k \in PlanShard : own'[k] # spread'[k]}
  <2>1. own'[m.shard] # spread[m.shard] BY <1>2, <1>4, <1>5, <1>11, <1>12
  <2>2. \A k \in PlanShard \ {m.shard} : own'[k] = own[k] BY <1>2, <1>5
  <2> QED BY <1>2, <1>3, <1>4, <1>12, <2>1, <2>2, Zenon
<1>14. Cardinality(moved') <= (IF balancing = "NAIVE" THEN 1 ELSE computeMoveBudget)
  <2>1. IsFiniteSet(moved) BY <1>5, LoadPlanAssumption, FS_Subset
  <2>2. Cardinality(moved') = Cardinality(moved) + 1 /\ Cardinality(moved) \in Nat
    BY <1>2, <1>4, <2>1, FS_AddElement, FS_CardinalityType, Zenon
  <2>3. balancing = "NAIVE" => Cardinality(moved) = 0 BY <1>4, FS_EmptySet
  <2>4. balancing \in {"NAIVE", "GREEDY"} BY <1>1, Zenon DEF LoadPlanTypeOK
  <2>5. CASE balancing = "NAIVE" BY ONLY <2>2, <2>3, <2>5
  <2>6. CASE balancing = "GREEDY"
    <3>1. Cardinality(moved) < computeMoveBudget BY <1>4, <2>6, Zenon
    <3> QED BY ONLY <2>2, <2>6, <3>1, BudgetNat
  <2> QED BY <2>4, <2>5, <2>6, Zenon
<1>15. EachMoveHelps(spread, own', moved')
  <2>1. \E j \in PlanShard \ {m.shard} : own[j] = own[m.shard]
    BY <1>1, <1>4, SourceKeepsAShard
  <2>2. \A j \in PlanShard \ moved : own[j] = spread[j] BY <1>12
  <2>3. EachMoveHelps(spread, own, moved) BY <1>1 DEF MoveInv
  <2> QED BY <1>2, <1>4, <1>5, <2>1, <2>2, <2>3, LoadPlanAssumption, OneMoreMoveHelps, Zenon
<1>16. computeMoveBudget' = computeMoveBudget BY DEF computeMoveBudget
<1>17. MoveInv' BY <1>1, <1>3, <1>13, <1>14, <1>15, <1>16 DEF MoveInv
<1> QED BY <1>1, <1>3, <1>9, <1>10, <1>17 DEF LoadPlanInv

\* Planning is over, and statistics are written or not.
LEMMA FinishPassStep ==
  ASSUME LoadPlanInv, FinishPass
  PROVE  LoadPlanInv'
<1>1. pass = "move" /\ pass' = "done" /\ LoadPlanTypeOK /\ MoveInv
      /\ UNCHANGED <<balancing, steals, kept, spread, own, loads, moved>>
  BY DEF FinishPass, LoadPlanInv
<1>2. load' \in [PlanShard -> Loads \cup {Unmeasured}] /\ cooling' \subseteq PlanShard
  BY <1>1 DEF FinishPass, LoadPlanTypeOK
<1>3. LoadPlanTypeOK' BY <1>1, <1>2 DEF LoadPlanTypeOK
<1>4. computeMoveBudget' = computeMoveBudget BY DEF computeMoveBudget
<1>5. MoveInv' BY <1>1, <1>4 DEF MoveInv
<1> QED BY <1>1, <1>3, <1>5 DEF LoadPlanInv
-----------------------------------------------------------------------------
(* The theorems. *)

\* A position is below the number of executors.
LEMMA PositionBound ==
  ASSUME NEW S \in SUBSET Nat, IsFiniteSet(S), NEW d \in S
  PROVE  Index(S, d) \in Nat /\ Cardinality(S) \in Nat /\ Index(S, d) <= Cardinality(S) - 1
<1>1. {c \in S : c < d} \in SUBSET (S \ {d}) OBVIOUS
<1>2. IsFiniteSet(S \ {d}) /\ Cardinality(S \ {d}) = Cardinality(S) - 1
  BY FS_RemoveElement
<1>3. Index(S, d) <= Cardinality(S \ {d}) BY <1>1, <1>2, FS_Subset DEF Index
<1> QED BY <1>2, <1>3, IndexNat, FS_CardinalityType

\* A pass begins.
PassBegins ==
  LoadPlanTypeOK /\ pass = "steal" /\ steals = 0 /\ kept = own /\ moved = {}

\* At its beginning nothing was stolen.
LEMMA FreshPass == PassBegins => LoadPlanInv
<1> SUFFICES ASSUME PassBegins PROVE StealInv
  BY DEF PassBegins, LoadPlanInv
<1>1. steals = 0 /\ kept = own /\ DOMAIN kept \subseteq PlanShard
  BY DEF PassBegins, LoadPlanTypeOK
<1>2. ASSUME NEW d \in Donors, NEW e \in Empty
      PROVE  Cardinality({k \in ShardsOf(kept, d) : own[k] = e}) = Cardinality(Turns(d, e))
  <2>1. Turns(d, e) = {} BY <1>1 DEF Turns
  <2>2. {k \in ShardsOf(kept, d) : own[k] = e} = {} BY <1>1 DEF ShardsOf, Empty
  <2> QED BY <2>1, <2>2
<1>3. ASSUME NEW d \in Donors
      PROVE  Cardinality(Donors)
               * (Cardinality(ShardsOf(kept, d)) - Cardinality(ShardsOf(own, d)))
             <= steals + Cardinality(Donors) - 1 - Index(Donors, d)
  <2>1. Cardinality(ShardsOf(kept, d)) - Cardinality(ShardsOf(own, d)) = 0
    <3>1. Cardinality(ShardsOf(kept, d)) \in Nat BY <1>1, ShardsFinite, Zenon
    <3> QED BY <1>1, <3>1
  <2>2. Donors \in SUBSET Nat /\ IsFiniteSet(Donors) BY Lists
  <2>3. /\ Index(Donors, d) \in Nat /\ Cardinality(Donors) \in Nat
        /\ Index(Donors, d) <= Cardinality(Donors) - 1
    BY <2>2, PositionBound
  <2>4. Cardinality(Donors) * 0 = 0 BY <2>3
  <2> QED BY <1>1, <2>1, <2>3, <2>4
<1>4. \A k \in DOMAIN kept : own[k] = kept[k] BY <1>1
<1>5. ~(steals > 0) BY <1>1
<1> QED BY <1>2, <1>3, <1>4, <1>5, Zenon DEF StealInv

\* It begins from any assignment to the executors.
LEMMA LoadPlanInitial == LoadPlanInit => LoadPlanInv
<1> SUFFICES ASSUME LoadPlanInit PROVE PassBegins
  BY FreshPass
<1>1. PICK S \in SUBSET PlanShard : own \in [S -> PlanExecutor] BY DEF LoadPlanInit
<1> QED BY <1>1 DEF LoadPlanInit, PassBegins, LoadPlanTypeOK

\* Every step keeps the invariant.
LEMMA LoadPlanStep == LoadPlanInv /\ [LoadPlanNext]_loadPlanVars => LoadPlanInv'
<1> SUFFICES ASSUME LoadPlanInv, [LoadPlanNext]_loadPlanVars PROVE LoadPlanInv'
  OBVIOUS
<1>1. CASE StealShard
  <2>1. /\ LoadPlanTypeOK /\ pass = "steal" /\ StealInv /\ moved = {} /\ steals' = steals + 1
        /\ UNCHANGED <<balancing, load, cooling, pass, kept, spread, loads, moved>>
    BY <1>1 DEF StealShard, LoadPlanInv
  <2>2. own' \in [DOMAIN kept -> PlanExecutor] /\ StealInv' BY <1>1, <2>1, StealShardStep
  <2>3. steals' \in Nat BY <2>1 DEF LoadPlanTypeOK
  <2>4. LoadPlanTypeOK' BY <2>1, <2>2, <2>3, Zenon DEF LoadPlanTypeOK
  <2> QED BY <2>1, <2>2, <2>4 DEF LoadPlanInv
<1>2. CASE SpreadShards
  <2>1. LoadPlanTypeOK /\ pass = "steal" /\ StealInv /\ moved = {}
    BY <1>2 DEF SpreadShards, LoadPlanInv
  <2> QED BY <1>2, <2>1, SpreadShardsStep
<1>3. CASE NextMove BY <1>3, NextMoveStep
<1>4. CASE FinishPass BY <1>4, FinishPassStep
<1>5. CASE NextPass
  <2>1. LoadPlanTypeOK /\ pass = "done" BY <1>5 DEF NextPass, LoadPlanInv
  <2>2. PassBegins' BY <1>5, <2>1 DEF NextPass, PassBegins, LoadPlanTypeOK
  <2>3. (PassBegins => LoadPlanInv)' BY FreshPass, PTL
  <2> QED BY <2>2, <2>3
<1>6. CASE UNCHANGED loadPlanVars
  <2>1. /\ UNCHANGED <<balancing, load, cooling, pass, steals>>
        /\ UNCHANGED <<kept, spread, own, loads, moved>>
    BY <1>6 DEF loadPlanVars
  <2>2. LoadPlanTypeOK' = LoadPlanTypeOK BY <2>1 DEF LoadPlanTypeOK
  <2>3. ASSUME StealInv PROVE StealInv'
    <3>1. Donors' = Donors /\ Empty' = Empty BY <2>1 DEF Empty, Donors
    <3>2. \A d, e : Turns(d, e)' = Turns(d, e) BY <2>1, <3>1 DEF Turns
    <3>3. \A d, e : /\ {k \in ShardsOf(kept, d) : own[k] = e}' = {k \in ShardsOf(kept, d) : own[k] = e}
                   /\ ShardsOf(kept, d)' = ShardsOf(kept, d) /\ ShardsOf(own, d)' = ShardsOf(own, d)
      BY <2>1
    <3>4. /\ AssignedToEmptyExecutors(kept, PlanExecutor)' = AssignedToEmptyExecutors(kept, PlanExecutor)
          /\ ShardsPerEmptyExecutor(kept, PlanExecutor)' = ShardsPerEmptyExecutor(kept, PlanExecutor)
      BY <2>1
    <3>5. \A d \in Donors', e \in Empty' :
            Cardinality({k \in ShardsOf(kept, d) : own[k] = e})' = Cardinality(Turns(d, e))'
      <4>1. ASSUME NEW d \in Donors, NEW e \in Empty
            PROVE  Cardinality({k \in ShardsOf(kept, d) : own[k] = e})' = Cardinality(Turns(d, e))'
        <5>1. Cardinality({k \in ShardsOf(kept, d) : own[k] = e}) = Cardinality(Turns(d, e))
          BY <2>3, Zenon DEF StealInv
        <5>2. Cardinality(Turns(d, e))' = Cardinality(Turns(d, e)) BY <3>2, Zenon
        <5>3. Cardinality({k \in ShardsOf(kept, d) : own[k] = e})'
                = Cardinality({k \in ShardsOf(kept, d) : own[k] = e})
          BY <2>1
        <5> QED BY <5>1, <5>2, <5>3, Zenon
      <4> QED BY <3>1, <4>1, Zenon
    <3>6. \A d \in Donors' :
            (Cardinality(Donors) * (Cardinality(ShardsOf(kept, d)) - Cardinality(ShardsOf(own, d)))
               <= steals + Cardinality(Donors) - 1 - Index(Donors, d))'
      BY <2>1, <2>3, <3>1, <3>3, Zenon DEF StealInv
    <3>7. (steals > 0 =>
            /\ AssignedToEmptyExecutors(kept, PlanExecutor)
            /\ steals <= ShardsPerEmptyExecutor(kept, PlanExecutor) * Cardinality(Empty))'
      BY <2>1, <2>3, <3>1, <3>4, Zenon DEF StealInv
    <3>8. (\A k \in DOMAIN kept : own[k] = kept[k] \/ own[k] \in Empty)'
      BY <2>1, <2>3, <3>1, Zenon DEF StealInv
    <3> QED BY <3>5, <3>6, <3>7, <3>8, Zenon DEF StealInv
  <2>4. MoveInv' = MoveInv BY <2>1 DEF MoveInv, computeMoveBudget
  <2>5. LoadsFollowMoves' = LoadsFollowMoves
    BY <2>1 DEF LoadsFollowMoves, computeExecutorLoads, effectiveShardLoad, Measured
  <2> QED BY <2>1, <2>2, <2>3, <2>4, <2>5 DEF LoadPlanInv
<1> QED BY <1>1, <1>2, <1>3, <1>4, <1>5, <1>6 DEF LoadPlanNext

\* The inductive invariant holds in every pass.
THEOREM LoadPlanCorrect == LoadPlanSpec => []LoadPlanInv
  BY LoadPlanInitial, LoadPlanStep, PTL DEF LoadPlanSpec

\* assignShardsToEmptyExecutors never finds a donor without a shard to take.
THEOREM DonorsAlwaysKeepAShard == LoadPlanSpec => []DonorsKeepAShard
<1>1. LoadPlanInv => DonorsKeepAShard
  BY StealsLeaveAShard DEF LoadPlanInv, DonorsKeepAShard
<1> QED BY <1>1, LoadPlanCorrect, PTL

\* What a pass of loops over shards and executors arrives at is what RebalancePlan, which
\* knows no loads, allows the leader of a namespace to write.
THEOREM PassesAreAllowed == LoadPlanSpec => []PassIsAllowed
<1>1. LoadPlanInv => PassIsAllowed
  BY Zenon DEF LoadPlanInv, MoveInv, PassIsAllowed
<1> QED BY <1>1, LoadPlanCorrect, PTL

\* A move of either balancer never makes a new hottest executor.
THEOREM MovesNeverHeatUp == LoadPlanSpec => MovesCoolDown
<1> DEFINE A == \A d, e \in PlanExecutor :
                  pass = "move" /\ loads'[d] < loads[d] /\ loads'[e] > loads[e] =>
                    loads'[e] < loads[d]
<1>1. LoadPlanInv /\ [LoadPlanNext]_loadPlanVars => [A]_loadPlanVars
  <2> SUFFICES ASSUME LoadPlanInv, LoadPlanNext, pass = "move",
                      NEW d \in PlanExecutor, NEW e \in PlanExecutor,
                      loads'[d] < loads[d], loads'[e] > loads[e]
               PROVE  loads'[e] < loads[d]
    BY DEF loadPlanVars
  <2>1. LoadPlanTypeOK /\ loads \in [PlanExecutor -> Nat] BY DEF LoadPlanInv, LoadPlanTypeOK
  <2>2. loads' # loads BY <2>1
  <2>3. NextMove
    BY <2>2 DEF LoadPlanNext, StealShard, SpreadShards, FinishPass, NextPass
  <2>4. PICK m \in Moves :
          loads' = [loads EXCEPT ![m.from] = @ - effectiveShardLoad(m.shard),
                                 ![m.to] = @ + effectiveShardLoad(m.shard)]
    BY <2>3, Zenon DEF NextMove
  <2>5. /\ m.shard \in PlanShard /\ m.from \in PlanExecutor /\ m.to \in PlanExecutor
        /\ loads[m.to] + effectiveShardLoad(m.shard) < loads[m.from]
    BY <2>1, MoveCools
  <2>6. effectiveShardLoad(m.shard) \in Nat BY <2>1, <2>5, EffectiveLoads
  <2> DEFINE a == m.from
             b == m.to
             l == effectiveShardLoad(m.shard)
  <2>7. /\ a \in PlanExecutor /\ b \in PlanExecutor /\ l \in Nat /\ loads[b] + l < loads[a]
        /\ loads' = [loads EXCEPT ![a] = @ - l, ![b] = @ + l]
    BY <2>4, <2>5, <2>6
  <2> HIDE DEF a, b, l
  <2>8. /\ loads'[a] = loads[a] - l /\ loads'[b] = loads[b] + l
        /\ \A c \in PlanExecutor \ {a, b} : loads'[c] = loads[c]
    <3>1. loads \in [PlanExecutor -> Nat] BY <2>1, Zenon
    <3>2. [loads EXCEPT ![a] = @ - l] \in [PlanExecutor -> Int] BY ONLY <2>7, <3>1
    <3>3. a # b BY ONLY <2>7, <3>1
    <3> QED BY ONLY <2>7, <3>1, <3>2, <3>3
  <2>9. d = a /\ e = b
    <3>1. /\ loads[a] \in Nat /\ loads[b] \in Nat /\ loads[d] \in Nat /\ loads[e] \in Nat
          /\ l \in Nat
      BY <2>1, <2>7, Zenon
    <3>2. ~(loads[b] + l < loads[b]) /\ ~(loads[a] - l > loads[a])
      BY ONLY <3>1
    <3>3. ~(loads[d] < loads[d]) /\ ~(loads[e] > loads[e])
      BY ONLY <3>1
    <3> QED BY <2>8, <3>2, <3>3, Zenon
  <2> QED BY <2>1, <2>7, <2>8, <2>9
<1> QED BY <1>1, LoadPlanCorrect, PTL DEF LoadPlanSpec, MovesCoolDown
=============================================================================
