---------------------------- MODULE RebalancePlan ----------------------------
(***************************************************************************)
(* What rebalanceShardsImpl computes from a snapshot before it writes: the *)
(* shards to keep, to steal for empty executors, to hand out again and to  *)
(* move for balance.  An assignment is a function from shards to owners.   *)
(* Go ranges over a map in any order, so several plans may be possible.    *)
(***************************************************************************)
EXTENDS ExecutorStore

CONSTANT MaxMoves   \* the number of shards one load-balancing pass may move

ASSUME PlanAssumption == MaxMoves \in Nat

Owned(snap, E) == UNION {snap.assigned[e] : e \in E}

\* AssignableExecutorIDs(staleExecutors)
Assignable(snap) == snap.active \ snap.stale

\* getShards, without the drained shards.
Available(snap) ==
  (IF NamespaceType = "fixed" THEN Shard ELSE Owned(snap, Executor) \ snap.done)
    \ snap.drained

DrainedAssigned(snap) == Owned(snap, Assignable(snap)) \cap snap.drained

\* findExecutorsToUnassign: a stale executor is left out because emptying it
\* would recreate the record that the same transaction deletes.
ExecutorsToUnassign(snap) ==
  {e \in Executor \ (Assignable(snap) \cup snap.stale) : snap.assigned[e] # {}}

-----------------------------------------------------------------------------
(* The steps of the plan. *)

\* The orders in which Go may range over a map keyed by executor.
MapOrder ==
  {r \in [Executor -> 1..Cardinality(Executor)] :
     \A d, e \in Executor : r[d] = r[e] => d = e}

\* The owner met first for every owned shard; the later ones are ignored.
FirstOwner(snap, order) ==
  [k \in Owned(snap, Executor) |->
     CHOOSE e \in Executor :
       /\ k \in snap.assigned[e]
       /\ \A d \in Executor : k \in snap.assigned[d] => order[e] <= order[d]]

\* findShardsToReassign: what an assignable owner keeps.
CurrentAssignments(snap, order) ==
  [k \in {k \in Available(snap) \cap Owned(snap, Executor) :
            FirstOwner(snap, order)[k] \in Assignable(snap)} |->
     FirstOwner(snap, order)[k]]

ShardsToReassign(snap, order) ==
  Available(snap) \ DOMAIN CurrentAssignments(snap, order)

ShardsOf(own, e) == {k \in DOMAIN own : own[k] = e}

WithShards(cur, A) == {e \in A : ShardsOf(cur, e) # {}}

AssignedToEmptyExecutors(cur, A) == WithShards(cur, A) \notin {{}, A}

\* The position of e in the sorted list of the executors in S.
Index(S, e) == Cardinality({d \in S : d < e})

\* ShardsPerEmptyExecutor that rounds up.
ShardsPerEmptyExecutorRoundedUp(cur, A) ==
  LET least == CHOOSE n \in {Cardinality(ShardsOf(cur, e)) : e \in WithShards(cur, A)} :
                 \A e \in WithShards(cur, A) : n <= Cardinality(ShardsOf(cur, e))
  IN  (least * Cardinality(WithShards(cur, A)) + Cardinality(A) - 1) \div Cardinality(A)

\* How many shards assignShardsToEmptyExecutors gives to each empty executor.
ShardsPerEmptyExecutor(cur, A) ==
  LET least == CHOOSE n \in {Cardinality(ShardsOf(cur, e)) : e \in WithShards(cur, A)} :
                 \A e \in WithShards(cur, A) : n <= Cardinality(ShardsOf(cur, e))
  IN  (least * Cardinality(WithShards(cur, A))) \div Cardinality(A)

\* The steals go round both lists in step; which shard is taken is arbitrary.
Stolen(cur, A, from, to) ==
  LET W == WithShards(cur, A)
      E == A \ W
  IN  IF from \in W /\ to \in E
      THEN {t \in 0 .. ShardsPerEmptyExecutor(cur, A) * Cardinality(E) - 1 :
              /\ t % Cardinality(W) = Index(W, from)
              /\ t % Cardinality(E) = Index(E, to)}
      ELSE {}

assignShardsToEmptyExecutors(cur, A, own) ==
  \A d, e \in A : d # e =>
    Cardinality({k \in ShardsOf(cur, d) : own[k] = e}) =
    Cardinality(Stolen(cur, A, d, e))

\* The other shards go round all executors from a random start.
updateAssignments(R, A, own) ==
  \E i \in 0 .. Cardinality(A) - 1 : \A e \in A :
    Cardinality({k \in R : own[k] = e}) =
    Cardinality({t \in i .. i + Cardinality(R) - 1 : t % Cardinality(A) = Index(A, e)})

\* PlanRebalance: NAIVE moves one shard at most, GREEDY stops at its budget and
\* moves no shard twice.
WithinBudget(moved) ==
  /\ Cardinality(moved) <= MaxMoves
  /\ Mode = "NAIVE" => Cardinality(moved) <= 1

\* A move must lower the imbalance, so its source has another shard when its
\* turn comes.
EachMoveHelps(mid, own, moved) ==
  LET turns == {t \in [moved -> 1..Cardinality(moved)] :
                  \A j, k \in moved : t[j] = t[k] => j = k}
  IN  \E turn \in turns : \A k \in moved : \E j \in DOMAIN own \ {k} :
        mid[k] = IF j \in moved /\ turn[j] < turn[k] THEN own[j] ELSE mid[j]

\* applyMoves turns mid into own.
applyMoves(mid, own) ==
  LET moved == {k \in DOMAIN own : own[k] # mid[k]}
  IN  WithinBudget(moved) /\ EachMoveHelps(mid, own, moved)

\* DistributionChanged without the drained shards.
DistributionChangedNoDrain(snap, order, own) ==
  LET cur == CurrentAssignments(snap, order)
  IN  \/ snap.done # {} \/ snap.stale # {} \/ ExecutorsToUnassign(snap) # {}
      \/ AssignedToEmptyExecutors(cur, Assignable(snap))
      \/ own # cur

\* DistributionChanged without the shards that had no owner.
DistributionChangedNoNew(snap, order, own) ==
  LET cur == CurrentAssignments(snap, order)
  IN  \/ snap.done # {} \/ snap.stale # {}
      \/ DrainedAssigned(snap) # {} \/ ExecutorsToUnassign(snap) # {}
      \/ AssignedToEmptyExecutors(cur, Assignable(snap))
      \/ \E k \in DOMAIN cur : own[k] # cur[k]

\* distributionChanged, for a plan that ends in own.
DistributionChanged(snap, order, own) ==
  LET cur == CurrentAssignments(snap, order)
  IN  \/ snap.done # {} \/ snap.stale # {}
      \/ DrainedAssigned(snap) # {} \/ ExecutorsToUnassign(snap) # {}
      \/ AssignedToEmptyExecutors(cur, Assignable(snap))
      \/ own # cur

\* Every assignment the leader may arrive at.
Plans(snap, order) ==
  LET A   == Assignable(snap)
      cur == CurrentAssignments(snap, order)
      mid == {own \in [Available(snap) -> A] :
                /\ assignShardsToEmptyExecutors(cur, A, own)
                /\ updateAssignments(ShardsToReassign(snap, order), A, own)}
  IN  {own \in [Available(snap) -> A] : \E m \in mid : applyMoves(m, own)}

-----------------------------------------------------------------------------
(* The request made from a plan. *)

\* buildNewAssignmentsState: the new assigned state of every executor in it.
NewAssignments(snap, own) ==
  [e \in Assignable(snap) \cup ExecutorsToUnassign(snap) |-> ShardsOf(own, e)]

\* The executors whose record has to be written.
ChangedAssignments(snap, own) ==
  [e \in {e \in DOMAIN NewAssignments(snap, own) :
            \/ e \in ExecutorsToUnassign(snap)
            \/ snap.modRevision[e] = 0
            \/ snap.assigned[e] # ShardsOf(own, e)} |-> ShardsOf(own, e)]

\* PrepareAssignmentStatistics: the executors that gain or lose a shard.
AffectedExecutors(snap, prev, own) ==
  LET moved == {k \in DOMAIN own : k \in DOMAIN prev => prev[k] # own[k]}
  IN  {e \in Executor :
         \E k \in moved : own[k] = e \/ (k \in DOMAIN prev /\ prev[k] = e)}
=============================================================================
