------------------------------ MODULE LoadPlan ------------------------------
(***************************************************************************)
(* How a pass of the rebalancing loop chooses: assignShardsToEmptyExecutors *)
(* shard by shard, and the moves of the NAIVE and the GREEDY balancer with *)
(* the loads that RebalancePlan leaves open.  Passes follow one another on *)
(* the assignment that the last one made, with loads that do not change.   *)
(*                                                                         *)
(* Loads are whole numbers.  The load of a shard that was never measured   *)
(* is the average of the others, so all loads are scaled by their number.  *)
(* Bands, ratios and proportions are in percent.                           *)
(***************************************************************************)
EXTENDS RebalancePlan

CONSTANTS
  PlanExecutor,            \* the assignable executors, in the order of their names
  PlanShard,               \* the shards to assign
  Loads,                   \* loads of shards; 0 is too low for a move
  Unmeasured,              \* the shard has no statistics and no report yet
  UpperBand, LowerBand,    \* hysteresis
  SevereImbalanceRatio,
  MoveBudgetProportion,
  MaxDeviation

ASSUME LoadPlanAssumption ==
  /\ PlanExecutor \subseteq Nat /\ IsFiniteSet(PlanExecutor) /\ PlanExecutor # {}
  /\ IsFiniteSet(PlanShard)
  /\ Loads \subseteq Nat /\ Unmeasured \notin Nat
  /\ {UpperBand, LowerBand, SevereImbalanceRatio, MoveBudgetProportion, MaxDeviation}
       \subseteq Nat

VARIABLES
  balancing,  \* the load balancing mode
  load,       \* the load of each shard
  cooling,    \* the shards that were moved within PerShardCooldown
  pass,       \* what the pass does next
  steals,     \* stealRound
  kept,       \* the assignment that the pass started from
  spread,     \* the assignment before the moves
  own,        \* currentAssignments, as a function from shards to executors
  loads,      \* the loads of the executors, as the balancer keeps them
  moved       \* movedShards

loadPlanVars == <<balancing, load, cooling, pass, steals, kept, spread, own, loads, moved>>

\* The sum of f over S: a load of n is n units.
SumOver(f, S) == Cardinality(UNION {{k} \X (1 .. f[k]) : k \in S})

Measured == {k \in PlanShard : load[k] # Unmeasured}

\* GREEDY takes the average for a shard without a load, NAIVE takes 0.
effectiveShardLoad(k) ==
  IF balancing = "NAIVE" THEN IF k \in Measured THEN load[k] ELSE 0
  ELSE IF k \in Measured THEN load[k] * Cardinality(Measured)
  ELSE SumOver(load, Measured)

computeExecutorLoads(asg) ==
  LET shardLoad == [k \in PlanShard |-> effectiveShardLoad(k)]
  IN  [e \in PlanExecutor |-> SumOver(shardLoad, ShardsOf(asg, e))]

LoadPlanInit ==
  /\ balancing \in {"NAIVE", "GREEDY"}
  /\ load \in [PlanShard -> Loads \cup {Unmeasured}]
  /\ cooling = {}
  /\ pass = "steal" /\ steals = 0
  /\ own \in UNION {[S -> PlanExecutor] : S \in SUBSET PlanShard}
  /\ kept = own /\ spread = own
  /\ loads = [e \in PlanExecutor |-> 0]
  /\ moved = {}
-----------------------------------------------------------------------------
(***************************************************************************)
(* assignShardsToEmptyExecutors and updateAssignments.                     *)
(***************************************************************************)
Nth(S, i) == CHOOSE e \in S : Index(S, e) = i

Donors == WithShards(kept, PlanExecutor)

StealsLeft ==
  /\ AssignedToEmptyExecutors(kept, PlanExecutor)
  /\ steals < ShardsPerEmptyExecutor(kept, PlanExecutor) * Cardinality(PlanExecutor \ Donors)

\* The next donor gives its first shard, which may be any, to the next empty executor.
StealShard ==
  /\ pass = "steal" /\ StealsLeft
  /\ \E k \in ShardsOf(own, Nth(Donors, steals % Cardinality(Donors))) :
       LET empty == PlanExecutor \ Donors
       IN  own' = [own EXCEPT ![k] = Nth(empty, steals % Cardinality(empty))]
  /\ steals' = steals + 1
  /\ UNCHANGED <<balancing, load, cooling, pass, kept, spread, loads, moved>>

\* The shards without an owner are handed out, and the balancer computes its loads.
SpreadShards ==
  /\ pass = "steal" /\ ~StealsLeft
  /\ own' \in {asg \in [PlanShard -> PlanExecutor] :
                 /\ \A k \in DOMAIN own : asg[k] = own[k]
                 /\ updateAssignments(PlanShard \ DOMAIN own, PlanExecutor, asg)}
  /\ spread' = own'
  /\ loads' = computeExecutorLoads(own')
  /\ pass' = "move"
  /\ UNCHANGED <<balancing, load, cooling, steals, kept, moved>>
-----------------------------------------------------------------------------
(***************************************************************************)
(* The NAIVE balancer: the hottest shard of a hottest executor goes to a   *)
(* coldest one.                                                            *)
(***************************************************************************)
Hottest == {e \in PlanExecutor : \A d \in PlanExecutor : loads[d] <= loads[e]}

Coldest == {e \in PlanExecutor : \A d \in PlanExecutor : loads[e] <= loads[d]}

NaiveMoves ==
  {m \in [shard : DOMAIN own, from : Hottest, to : Coldest] :
     /\ moved = {}
     /\ own[m.shard] = m.from
     /\ \A k \in ShardsOf(own, m.from) : effectiveShardLoad(k) <= effectiveShardLoad(m.shard)
     /\ loads[m.to] > 0 => loads[m.from] * 100 >= MaxDeviation * loads[m.to]
     /\ loads[m.to] + effectiveShardLoad(m.shard) < loads[m.from]}
-----------------------------------------------------------------------------
(***************************************************************************)
(* The GREEDY balancer.                                                    *)
(***************************************************************************)
computeMoveBudget == (MoveBudgetProportion * Cardinality(PlanShard) + 99) \div 100

TotalLoad == SumOver(loads, PlanExecutor)

\* A load, as a multiple of the mean load in percent, compared with a bound: < 0, 0 or > 0.
RelativeToMean(l, percent) == l * Cardinality(PlanExecutor) * 100 - TotalLoad * percent

Sources == {e \in PlanExecutor : RelativeToMean(loads[e], UpperBand) > 0}

UnderLoaded == {e \in PlanExecutor \ Sources : RelativeToMean(loads[e], LowerBand) < 0}

isSevereImbalance ==
  /\ TotalLoad > 0 /\ SevereImbalanceRatio > 0
  /\ \E e \in PlanExecutor : RelativeToMean(loads[e], SevereImbalanceRatio) >= 0

\* classifySourcesAndDestinations, and the fallback of selectDestinationExecutor.
Destinations ==
  IF UnderLoaded # {} THEN UnderLoaded
  ELSE IF isSevereImbalance THEN PlanExecutor ELSE {}

findBestDestination ==
  {e \in Destinations : \A d \in Destinations : loads[e] <= loads[d]}

\* computeBenefitOfMove that only looks at the order of the loads.
computeBenefitOfMoveOrder(from, to, l) == IF l <= from - to THEN 1 ELSE 0

computeBenefitOfMove(from, to, l) ==
  (from * from + to * to) - ((from - l) * (from - l) + (to + l) * (to + l))

Benefit(from, to, k) == computeBenefitOfMove(loads[from], loads[to], effectiveShardLoad(k))

Movable(from, to) ==
  {k \in ShardsOf(own, from) \ (moved \cup cooling) :
     k \in Measured /\ load[k] > 0 /\ Benefit(from, to, k) > 0}

\* The sources are tried by descending load, and of the first that has a shard
\* to move the one with the greatest benefit is taken.
GreedyMoves ==
  {m \in [shard : DOMAIN own, from : Sources, to : findBestDestination] :
     /\ Cardinality(moved) < computeMoveBudget
     /\ m.from # m.to
     /\ m.shard \in Movable(m.from, m.to)
     /\ \A k \in Movable(m.from, m.to) :
          Benefit(m.from, m.to, k) <= Benefit(m.from, m.to, m.shard)
     /\ \A e \in Sources \ {m.to} : loads[e] > loads[m.from] => Movable(e, m.to) = {}}
-----------------------------------------------------------------------------
Moves == IF balancing = "NAIVE" THEN NaiveMoves ELSE GreedyMoves

\* One move is planned and applied, and the loads of both executors follow.
NextMove ==
  /\ pass = "move"
  /\ \E m \in Moves :
       /\ own' = [own EXCEPT ![m.shard] = m.to]
       /\ loads' = [loads EXCEPT ![m.from] = @ - effectiveShardLoad(m.shard),
                                 ![m.to] = @ + effectiveShardLoad(m.shard)]
       /\ moved' = moved \cup {m.shard}
  /\ UNCHANGED <<balancing, load, cooling, pass, steals, kept, spread>>

\* The pass ends when there is no move left.  GREEDY then writes statistics: shards that
\* changed their owner get a LastMoveTime, and those that had no owner, not even one that
\* is stale or draining, start without a load.
FinishPass ==
  /\ pass = "move" /\ Moves = {}
  /\ \/ balancing = "NAIVE" /\ UNCHANGED <<load, cooling>>
     \/ /\ balancing = "GREEDY"
        /\ \E new \in {{}, PlanShard \ DOMAIN kept} :
             /\ load' = [k \in PlanShard |-> IF k \in new THEN Unmeasured ELSE load[k]]
             /\ cooling' = cooling \cup
                  {k \in PlanShard \ new : k \in DOMAIN kept => own[k] # kept[k]}
  /\ pass' = "done"
  /\ UNCHANGED <<balancing, steals, kept, spread, own, loads, moved>>

\* The next pass, for which the cooldowns are over or not.
NextPass ==
  /\ pass = "done"
  /\ cooling' \in {{}, cooling}
  /\ kept' = own /\ spread' = own
  /\ pass' = "steal" /\ steals' = 0 /\ moved' = {}
  /\ loads' = [e \in PlanExecutor |-> 0]
  /\ UNCHANGED <<balancing, load, own>>

LoadPlanNext == StealShard \/ SpreadShards \/ NextMove \/ FinishPass \/ NextPass

LoadPlanSpec == LoadPlanInit /\ [][LoadPlanNext]_loadPlanVars
-----------------------------------------------------------------------------
LoadPlanTypeOK ==
  /\ balancing \in {"NAIVE", "GREEDY"}
  /\ load \in [PlanShard -> Loads \cup {Unmeasured}]
  /\ pass \in {"steal", "move", "done"}
  /\ steals \in Nat /\ cooling \subseteq PlanShard /\ moved \subseteq PlanShard
  /\ DOMAIN kept \subseteq PlanShard /\ kept \in [DOMAIN kept -> PlanExecutor]
  /\ own \in [(IF pass = "steal" THEN DOMAIN kept ELSE PlanShard) -> PlanExecutor]
  /\ pass # "steal" => spread \in [PlanShard -> PlanExecutor]
  /\ loads \in [PlanExecutor -> Nat]

\* "We use the minimum so when steeling we don't have to worry about steeling more
\* shards that the executors have": no executor is left without a shard, so there is
\* a first one to take at every steal.
DonorsKeepAShard ==
  pass = "steal" => \A e \in Donors : ShardsOf(own, e) # {}

\* What the loops of a pass arrive at is what RebalancePlan allows a leader: as many
\* steals between each two executors, no more moves than the budget, and each of them
\* from an executor that has another shard.
PassIsAllowed ==
  pass = "done" =>
    LET changed == {k \in PlanShard : own[k] # spread[k]}
    IN  /\ AssignedToEmptyExecutors(kept, PlanExecutor) =>
             assignShardsToEmptyExecutors(kept, PlanExecutor, spread)
        /\ Cardinality(changed) <= (IF balancing = "NAIVE" THEN 1 ELSE computeMoveBudget)
        /\ EachMoveHelps(spread, own, changed)

\* A move leaves both of its executors below the load that the source had: it never
\* makes a new hottest executor.
MovesCoolDown ==
  [][\A d, e \in PlanExecutor :
       pass = "move" /\ loads'[d] < loads[d] /\ loads'[e] > loads[e] =>
         loads'[e] < loads[d]]_loadPlanVars

\* While loads stay as they are passes come to rest: neither do moves go back and forth,
\* nor do they empty an executor that the next pass gives shards again.
PassesRest == <>[][own' = own]_loadPlanVars
=============================================================================
