-------------------------- MODULE NamespaceProcessor --------------------------
(***************************************************************************)
(* The processor that a leader runs for its namespace: the rebalancing     *)
(* loop with its triggers, and in GREEDY mode the loop that cleans up      *)
(* shard statistics.  Every session has a processor; it is "off" unless    *)
(* the session leads.  Every read and every transaction is a step of its   *)
(* own, so whatever else the namespace sees may happen in between.         *)
(***************************************************************************)
EXTENDS RebalancePlan, LeaderElection

VARIABLES
  pc,        \* where the rebalancing loop is
  watch,     \* the trigger loop: "starting" until the initial rebalance is over,
             \* "pending" if it ended with its last trigger still in the channel
  snap,      \* the state that the rebalance in progress read
  work,      \* the executors whose keys it still has to put or delete
  cleanup    \* the statistics keys the cleanup loop read and is to rewrite

processorVars == <<pc, watch, snap, work, cleanup>>

NoWork == [puts |-> {}, deletes |-> {}]

ProcessorTypeOK ==
  /\ pc \in [Session -> {"off", "waiting", "reading", "planning", "deleting", "recording"}]
  /\ watch \in [Session -> {"starting", "open", "pending", "closed"}]
  /\ snap \in [Session -> NamespaceState]
  /\ work \in [Session -> [puts : SUBSET Executor, deletes : SUBSET Executor]]
  /\ cleanup \in [Session -> SUBSET Executor]

ProcessorInit ==
  /\ pc = [s \in Session |-> "off"]
  /\ watch = [s \in Session |-> "starting"]
  /\ snap = [s \in Session |-> NoState]
  /\ work = [s \in Session |-> NoWork]
  /\ cleanup = [s \in Session |-> {}]

\* Run: the initial rebalance comes first.
Run(s) ==
  /\ pc' = [pc EXCEPT ![s] = "reading"]
  /\ UNCHANGED <<watch, snap, work, cleanup>>

\* Terminate that leaves the loops running.
TerminateNoWait(s) == pc[s] \in STRING /\ UNCHANGED processorVars

\* Terminate cancels both loops and waits for them, wherever they are.
Terminate(s) ==
  /\ pc' = [pc EXCEPT ![s] = "off"]
  /\ watch' = [watch EXCEPT ![s] = "starting"]
  /\ snap' = [snap EXCEPT ![s] = NoState]
  /\ work' = [work EXCEPT ![s] = NoWork]
  /\ cleanup' = [cleanup EXCEPT ![s] = {}]

-----------------------------------------------------------------------------
(* The rebalancing loop. *)

\* The end of rebalanceShards.  After the initial rebalance the processor
\* subscribes and starts the trigger loop.  Later a failure triggers the next
\* rebalance at once, with or without the trigger loop.
Finish(s, failed) ==
  /\ pc' = [pc EXCEPT ![s] =
              IF failed /\ watch[s] # "starting" THEN "reading" ELSE "waiting"]
  /\ watch' = [watch EXCEPT ![s] = IF @ = "starting" THEN "open" ELSE @]
  /\ snap' = [snap EXCEPT ![s] = NoState]
  /\ work' = [work EXCEPT ![s] = NoWork]
  /\ UNCHANGED cleanup

\* The subscription fails, or the watch of the executor keys ends.  The trigger
\* loop returns and its ticker stops with it, but the channel may hold a trigger.
WatchCloses(s) ==
  /\ watch[s] = "open"
  /\ \E left \in {"pending", "closed"} : watch' = [watch EXCEPT ![s] = left]
  /\ UNCHANGED <<pc, snap, work, cleanup, storeVars>>

\* The initial rebalance, one that follows a failure, or one that a status
\* change or the ticker triggers.  The channel holds one trigger at most, so one
\* left behind by the trigger loop is used up.
ReadState(s) ==
  /\ pc[s] = "reading" \/ (pc[s] = "waiting" /\ watch[s] \in {"open", "pending"})
  /\ pc' = [pc EXCEPT ![s] = "planning"]
  /\ watch' = [watch EXCEPT ![s] = IF @ = "pending" THEN "closed" ELSE @]
  /\ snap' = [snap EXCEPT ![s] = GetState]
  /\ UNCHANGED <<work, cleanup, storeVars>>

\* GetState, the load balancer or the transaction returns an error, or
\* cfg.Timeout passes, before the store has changed.  DeleteExecutors may fail
\* after some batches; that error is only logged.
RebalanceFails(s) ==
  /\ \/ pc[s] \in {"reading", "planning"} /\ Finish(s, TRUE)
     \/ pc[s] = "deleting" /\ Finish(s, FALSE)
  /\ UNCHANGED storeVars

\* No executor may be given a shard: only the stale ones are cleaned up.
NoActiveExecutors(s) ==
  /\ pc[s] = "planning" /\ Assignable(snap[s]) = {}
  /\ IF snap[s].stale = {}
     THEN Finish(s, FALSE)
     ELSE /\ pc' = [pc EXCEPT ![s] = "deleting"]
          /\ work' = [work EXCEPT ![s].deletes = snap[s].stale]
          /\ UNCHANGED <<watch, snap, cleanup>>
  /\ UNCHANGED storeVars

\* A batch of DeleteExecutors.  An error ends the loop over the batches but is
\* only logged, so the rebalance counts as a success.
DeleteStaleExecutors(s, batch) ==
  /\ pc[s] = "deleting"
  /\ batch # {} /\ batch \subseteq work[s].deletes
  /\ IF Guard(s) THEN DeleteExecutors(batch) ELSE UNCHANGED storeVars
  /\ IF Guard(s) /\ batch # work[s].deletes
     THEN /\ work' = [work EXCEPT ![s].deletes = @ \ batch]
          /\ UNCHANGED <<pc, watch, snap, cleanup>>
     ELSE Finish(s, FALSE)

\* The plan is the distribution that is already there.
SkipRebalance(s) ==
  /\ pc[s] = "planning" /\ Assignable(snap[s]) # {}
  /\ \E order \in MapOrder : \E own \in Plans(snap[s], order) :
       ~DistributionChanged(snap[s], order, own)
  /\ Finish(s, FALSE)
  /\ UNCHANGED storeVars

\* After a successful write GREEDY records statistics, NAIVE is done.
RecordOrFinish(s, prev, own) ==
  LET affected == AffectedExecutors(snap[s], prev, own)
      puts     == {e \in affected : ShardsOf(own, e) # {}}
  IN  IF Mode = "GREEDY" /\ affected # {}
      THEN /\ pc' = [pc EXCEPT ![s] = "recording"]
           /\ work' = [work EXCEPT ![s] = [puts |-> puts, deletes |-> affected \ puts]]
           /\ snap' = [snap EXCEPT ![s] = NoState]
           /\ UNCHANGED <<watch, cleanup>>
      ELSE Finish(s, FALSE)

\* The guarded transaction of the leader.  Its response may be lost after it
\* has been applied: then the rebalance fails.
AssignPlan(s, own, r, ok) ==
  AssignShards(Guard(s), snap[s], DOMAIN NewAssignments(snap[s], own),
               snap[s].stale, ChangedAssignments(snap[s], own), r, ok)

Rebalance(s, r) ==
  /\ pc[s] = "planning" /\ Assignable(snap[s]) # {}
  /\ \E order, prevOrder \in MapOrder : \E own \in Plans(snap[s], order) :
       /\ DistributionChanged(snap[s], order, own)
       /\ \/ /\ AssignPlan(s, own, r, TRUE)
             /\ \/ RecordOrFinish(s, FirstOwner(snap[s], prevOrder), own)
                \/ Finish(s, TRUE)
          \/ /\ AssignPlan(s, own, r, FALSE)
             /\ Finish(s, TRUE)

\* RecordShardStatisticsBatch writes one executor after the other, without a
\* guard; an error of one does not stop the others.
RecordStatistics(s, e, failed) ==
  LET todo == [puts |-> work[s].puts \ {e}, deletes |-> work[s].deletes \ {e}]
  IN  /\ pc[s] = "recording"
      /\ e \in work[s].puts \cup work[s].deletes
      /\ IF failed THEN UNCHANGED storeVars
         ELSE RecordShardStatisticsBatch(work[s].puts \cap {e}, work[s].deletes \cap {e})
      /\ IF todo = NoWork THEN Finish(s, FALSE)
         ELSE /\ work' = [work EXCEPT ![s] = todo]
              /\ UNCHANGED <<pc, watch, snap, cleanup>>

-----------------------------------------------------------------------------
(* The cleanup loop of the shard statistics. *)

\* identifyStaleShardStats found some stale statistics, and DeleteShardStats
\* reads the keys in E that hold them.
ReadShardStats(s, E) ==
  /\ Mode = "GREEDY" /\ pc[s] # "off" /\ cleanup[s] = {}
  /\ E # {} /\ E \subseteq {e \in Executor : hasStats[e]}
  /\ cleanup' = [cleanup EXCEPT ![s] = E]
  /\ UNCHANGED <<pc, watch, snap, work, storeVars>>

\* A batch of DeleteShardStats.  A key left without statistics is deleted, any
\* other is put again, even if it has gone since it was read.  An error ends the
\* loop over the batches.
DeleteShardStats(s, batch, emptied) ==
  /\ batch # {} /\ batch \subseteq cleanup[s] /\ emptied \subseteq batch
  /\ IF Guard(s) THEN RecordShardStatisticsBatch(batch \ emptied, emptied)
     ELSE UNCHANGED storeVars
  /\ cleanup' = [cleanup EXCEPT ![s] = IF Guard(s) THEN @ \ batch ELSE {}]
  /\ UNCHANGED <<pc, watch, snap, work>>

\* The read or a batch fails, and the loop waits for its next tick.
CleanupFails(s) ==
  /\ cleanup[s] # {}
  /\ cleanup' = [cleanup EXCEPT ![s] = {}]
  /\ UNCHANGED <<pc, watch, snap, work, storeVars>>
=============================================================================
