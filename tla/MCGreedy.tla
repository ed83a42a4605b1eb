------------------------------ MODULE MCGreedy ------------------------------
(***************************************************************************)
(* GREEDY mode for TLC.  A behaviour has one of two scopes: a namespace    *)
(* with its leaders, or the passes of a balancer with loads.  The first    *)
(* leaves the balancer alone and the second the namespace.  Of the loads   *)
(* that differ only in the names of the shards one is enough; at first the *)
(* executors are in the order of their numbers of shards, at most two      *)
(* shards have no owner and at most one has no load, which NAIVE takes for *)
(* the load 0.                                                             *)
(***************************************************************************)
EXTENDS MCShardDistributor, LoadPlan

CONSTANTS p1, p2, p3, p4

VARIABLE scope

mcGreedyVars == <<mcVars, loadPlanVars, scope>>

ShardNumber == CHOOSE f \in [PlanShard -> 1..Cardinality(PlanShard)] :
                 \A j, k \in PlanShard : f[j] = f[k] => j = k

LoadNumber(l) == IF l = Unmeasured THEN -1 ELSE l

GreedyInit ==
  /\ MCInit /\ LoadPlanInit
  /\ \A j, k \in PlanShard :
       ShardNumber[j] < ShardNumber[k] => LoadNumber(load[j]) <= LoadNumber(load[k])
  /\ \A d, e \in PlanExecutor :
       d < e => Cardinality(ShardsOf(own, d)) >= Cardinality(ShardsOf(own, e))
  /\ Cardinality(DOMAIN own) >= Cardinality(PlanShard) - 2
  /\ Cardinality(Measured) >= Cardinality(PlanShard) - (IF balancing = "NAIVE" THEN 0 ELSE 1)
  /\ scope \in {"namespace", "balancer"}
  /\ scope = "namespace" =>
       balancing = "NAIVE" /\ \A k \in PlanShard : load[k] = 0 /\ k \in DOMAIN own /\ own[k] = 1

GreedyNext ==
  /\ \/ scope = "namespace" /\ LiveNext /\ UNCHANGED loadPlanVars
     \/ scope = "balancer" /\ LoadPlanNext /\ UNCHANGED mcVars
  /\ UNCHANGED scope

\* The fairness of MCShardDistributor, and the rebalancing loop goes on.
GreedyFairness ==
  /\ \A s \in Session :
       /\ WF_mcVars(scope = "namespace" /\ Elect(s) /\ UNCHANGED events)
       /\ WF_mcVars(scope = "namespace" /\ OrderlyStepDown(s) /\ UNCHANGED events)
       /\ WF_mcVars(scope = "namespace" /\ AbandonedLease(s) /\ UNCHANGED events)
       /\ WF_mcVars(scope = "namespace" /\ ProcessorStep(s) /\ UNCHANGED events)
  /\ WF_loadPlanVars(scope = "balancer" /\ LoadPlanNext)

GreedySpec == GreedyInit /\ [][GreedyNext]_mcGreedyVars /\ GreedyFairness
=============================================================================
