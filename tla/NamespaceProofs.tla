--------------------------- MODULE NamespaceProofs ---------------------------
(***************************************************************************)
(* Every step of a namespace keeps the types of its variables.             *)
(*                                                                         *)
(* The optimistic lock of AssignShards works in namespaces of both types:  *)
(* whoever replaces an assigned-state record has read that very record.    *)
(*                                                                         *)
(* And a shard changes hands in one transaction: nothing but a drain, a    *)
(* DONE report, the cleanup of stale executors and a reset leaves it       *)
(* unowned.                                                                *)
(***************************************************************************)
EXTENDS ShardDistributor, TLAPS

-----------------------------------------------------------------------------
(* The store. *)

\* A snapshot is a state of the namespace.
LEMMA GetStateType == StoreTypeOK => GetState \in NamespaceState
  BY DEF StoreTypeOK, GetState, NamespaceState

LEMMA NoStateType == NoState \in NamespaceState
  BY DEF NoState, NamespaceState

\* A transaction that puts sets of shards at a revision keeps the types.
LEMMA CommitType ==
  ASSUME NEW D, NEW P, NEW r \in Revision \cup {0},
         \A e \in DOMAIN P : P[e] \subseteq Shard,
         StoreTypeOK, CommitAssignments(D, P, r)
  PROVE  StoreTypeOK'
  BY DEF StoreTypeOK, CommitAssignments, drainKeys

\* A deletion puts nothing.
LEMMA DeleteType ==
  ASSUME NEW D, StoreTypeOK, DeleteExecutors(D)
  PROVE  StoreTypeOK'
<1>1. \A e \in DOMAIN << >> : << >>[e] \subseteq Shard
  OBVIOUS
<1> QED
  BY <1>1, CommitType DEF DeleteExecutors

LEMMA StoreUnchangedType ==
  ASSUME StoreTypeOK, UNCHANGED storeVars
  PROVE  StoreTypeOK'
  BY DEF StoreTypeOK, storeVars, heartbeatKeys, assignmentKeys, drainKeys

\* AssignShards either commits or leaves the store alone.
LEMMA AssignShardsType ==
  ASSUME NEW guard, NEW sn, NEW C, NEW D, NEW P, NEW r \in Revision, NEW ok,
         \A e \in DOMAIN P : P[e] \subseteq Shard,
         StoreTypeOK, AssignShards(guard, sn, C, D, P, r, ok)
  PROVE  StoreTypeOK'
  BY CommitType, StoreUnchangedType DEF AssignShards

LEMMA RecordStatisticsType ==
  ASSUME NEW puts, NEW deletes, StoreTypeOK,
         RecordShardStatisticsBatch(puts, deletes)
  PROVE  StoreTypeOK'
  BY DEF StoreTypeOK, RecordShardStatisticsBatch, heartbeatKeys, assignmentKeys, drainKeys

\* Heartbeats and operators.
LEMMA EnvironmentType ==
  ASSUME StoreTypeOK,
         \/ \E e \in Executor : Heartbeat(e) \/ Store(HeartbeatExpires(e))
         \/ Operator \/ ForceReset
  PROVE  StoreTypeOK'
<1> USE DEF StoreTypeOK, Store, heartbeatKeys, assignmentKeys, drainKeys
<1>1. ASSUME NEW e \in Executor, Heartbeat(e)
      PROVE  StoreTypeOK'
  <2>1. PICK st \in Status, done \in SUBSET Reportable, host \in Host \cup {NoHost},
             stats \in BOOLEAN : RecordHeartbeat(e, st, done, host, stats)
    BY <1>1, Zenon DEF Heartbeat
  <2>2. status' \in [Executor -> Status \cup {"NONE"}]
    BY <2>1 DEF RecordHeartbeat
  <2>3. fresh' \in [Executor -> BOOLEAN]
    BY <2>1 DEF RecordHeartbeat
  <2>4. reportedDone' \in [Executor -> SUBSET Shard]
    <3>1. done \in SUBSET Shard
      BY EnvironmentAssumption
    <3> QED
      BY <2>1, <3>1 DEF RecordHeartbeat
  <2>5. hostname' \in [Executor -> Host \cup {NoHost}]
    BY <2>1 DEF RecordHeartbeat
  <2>6. hasStats' \in [Executor -> BOOLEAN]
    BY <2>1 DEF RecordHeartbeat
  <2> QED
    BY <2>1, <2>2, <2>3, <2>4, <2>5, <2>6, Zenon DEF RecordHeartbeat
<1>2. ASSUME NEW e \in Executor, Store(HeartbeatExpires(e))
      PROVE  StoreTypeOK'
  BY <1>2 DEF HeartbeatExpires
<1>3. CASE Operator
  BY <1>3, EnvironmentAssumption
     DEF Operator, DrainShards, UndrainShards, DrainHosts, UndrainHosts
<1>4. CASE ForceReset
  BY <1>4 DEF ForceReset, ResetNamespace
<1> QED
  BY <1>1, <1>2, <1>3, <1>4

-----------------------------------------------------------------------------
(* The processor. *)

\* A plan gives every shard that is available to an assignable executor.
LEMMA PlanType ==
  ASSUME NEW sn, NEW order, NEW own \in Plans(sn, order)
  PROVE  own \in [Available(sn) -> Assignable(sn)]
  BY DEF Plans

\* The records that a plan writes hold shards of the namespace.
LEMMA ChangedAssignmentsType ==
  ASSUME NEW sn \in NamespaceState, NEW order, NEW own \in Plans(sn, order)
  PROVE  \A e \in DOMAIN ChangedAssignments(sn, own) :
           ChangedAssignments(sn, own)[e] \subseteq Shard
<1>1. own \in [Available(sn) -> Assignable(sn)]
  BY PlanType
<1>2. Available(sn) \subseteq Shard
  BY DEF Available, Owned, NamespaceState
<1> QED
  BY <1>1, <1>2 DEF ChangedAssignments, ShardsOf

LEMMA FinishType ==
  ASSUME NEW s \in Session, NEW failed \in BOOLEAN, ProcessorTypeOK, Finish(s, failed)
  PROVE  ProcessorTypeOK'
  BY NoStateType DEF ProcessorTypeOK, Finish, NoWork

\* The leader's transaction and what it leaves to be recorded.
LEMMA RebalanceType ==
  ASSUME NEW s \in Session, NEW r \in Revision, StoreTypeOK, ProcessorTypeOK,
         Rebalance(s, r)
  PROVE  StoreTypeOK' /\ ProcessorTypeOK'
<1>0. PICK order, prevOrder \in MapOrder : \E own \in Plans(snap[s], order) :
         \/ /\ AssignPlan(s, own, r, TRUE)
            /\ \/ RecordOrFinish(s, FirstOwner(snap[s], prevOrder), own)
               \/ Finish(s, TRUE)
         \/ /\ AssignPlan(s, own, r, FALSE)
            /\ Finish(s, TRUE)
  BY Zenon DEF Rebalance
<1>1. PICK own \in Plans(snap[s], order) :
         \/ /\ AssignPlan(s, own, r, TRUE)
            /\ \/ RecordOrFinish(s, FirstOwner(snap[s], prevOrder), own)
               \/ Finish(s, TRUE)
         \/ /\ AssignPlan(s, own, r, FALSE)
            /\ Finish(s, TRUE)
  BY <1>0, Zenon
<1>2. snap[s] \in NamespaceState
  BY DEF ProcessorTypeOK
<1>3. StoreTypeOK'
  <2>1. \A e \in DOMAIN ChangedAssignments(snap[s], own) :
          ChangedAssignments(snap[s], own)[e] \subseteq Shard
    BY <1>2, ChangedAssignmentsType
  <2> QED
    BY <1>1, <2>1, AssignShardsType, Zenon DEF AssignPlan
<1>4. ASSUME NEW prev, RecordOrFinish(s, prev, own)
      PROVE  ProcessorTypeOK'
  <2>1. CASE Finish(s, FALSE)
    BY <2>1, FinishType, Zenon
  <2>2. CASE ~Finish(s, FALSE)
    <3> DEFINE affected == AffectedExecutors(snap[s], prev, own)
               puts == {e \in affected : ShardsOf(own, e) # {}}
    <3>1. affected \subseteq Executor
      BY DEF AffectedExecutors
    <3>2. [puts |-> puts, deletes |-> affected \ puts]
            \in [puts : SUBSET Executor, deletes : SUBSET Executor]
      BY <3>1
    <3>3. /\ pc' = [pc EXCEPT ![s] = "recording"]
          /\ work' = [work EXCEPT ![s] = [puts |-> puts, deletes |-> affected \ puts]]
          /\ snap' = [snap EXCEPT ![s] = NoState]
          /\ UNCHANGED <<watch, cleanup>>
      BY <1>4, <2>2, Zenon DEF RecordOrFinish
    <3> HIDE DEF affected, puts
    <3> QED
      BY <3>2, <3>3, NoStateType DEF ProcessorTypeOK
  <2> QED
    BY <2>1, <2>2, Zenon
<1> QED
  BY <1>1, <1>3, <1>4, FinishType, Zenon

\* The other steps of the processor.
LEMMA ProcessorType ==
  ASSUME NEW s \in Session, StoreTypeOK, ProcessorTypeOK,
         ProcessorStep(s) \/ ProcessorFault(s) \/ StartCleanup(s) \/ FinishCleanup(s)
  PROVE  StoreTypeOK' /\ ProcessorTypeOK'
<1>1. CASE ReadState(s)
  BY <1>1, GetStateType, StoreUnchangedType DEF ProcessorTypeOK, ReadState
<1>2. CASE NoActiveExecutors(s)
  <2>1. StoreTypeOK'
    BY <1>2, StoreUnchangedType DEF NoActiveExecutors
  <2>2. CASE Finish(s, FALSE)
    BY <2>1, <2>2, FinishType, Zenon
  <2>3. CASE ~Finish(s, FALSE)
    <3>1. snap[s].stale \in SUBSET Executor
      BY DEF ProcessorTypeOK, NamespaceState
    <3>2. /\ pc' = [pc EXCEPT ![s] = "deleting"]
          /\ work' = [work EXCEPT ![s].deletes = snap[s].stale]
          /\ UNCHANGED <<watch, snap, cleanup>>
      BY <1>2, <2>3, Zenon DEF NoActiveExecutors
    <3>3. work' \in [Session -> [puts : SUBSET Executor, deletes : SUBSET Executor]]
      BY <3>1, <3>2 DEF ProcessorTypeOK
    <3> QED
      BY <2>1, <3>2, <3>3 DEF ProcessorTypeOK
  <2> QED
    BY <2>2, <2>3, Zenon
<1>3. CASE SkipRebalance(s)
  BY <1>3, FinishType, StoreUnchangedType, Zenon DEF SkipRebalance
<1>4. ASSUME NEW B \in SUBSET Executor, DeleteStaleExecutors(s, B)
      PROVE  StoreTypeOK' /\ ProcessorTypeOK'
  <2>1. StoreTypeOK'
    BY <1>4, DeleteType, StoreUnchangedType DEF DeleteStaleExecutors
  <2>2. CASE Finish(s, FALSE)
    BY <2>1, <2>2, FinishType, Zenon
  <2>3. CASE ~Finish(s, FALSE)
    <3>1. /\ work' = [work EXCEPT ![s].deletes = @ \ B]
          /\ UNCHANGED <<pc, watch, snap, cleanup>>
      BY <1>4, <2>3, Zenon DEF DeleteStaleExecutors
    <3>2. work' \in [Session -> [puts : SUBSET Executor, deletes : SUBSET Executor]]
      BY <3>1 DEF ProcessorTypeOK
    <3> QED
      BY <2>1, <3>1, <3>2 DEF ProcessorTypeOK
  <2> QED
    BY <2>2, <2>3, Zenon
<1>5. ASSUME NEW r \in NextRevision, Rebalance(s, r)
      PROVE  StoreTypeOK' /\ ProcessorTypeOK'
  BY <1>5, RebalanceType DEF NextRevision
<1>6. ASSUME NEW e \in Executor, NEW failed \in BOOLEAN, RecordStatistics(s, e, failed)
      PROVE  StoreTypeOK' /\ ProcessorTypeOK'
  <2>1. StoreTypeOK'
    BY <1>6, RecordStatisticsType, StoreUnchangedType DEF RecordStatistics
  <2>2. CASE Finish(s, FALSE)
    BY <2>1, <2>2, FinishType, Zenon
  <2>3. CASE ~Finish(s, FALSE)
    <3>1. /\ work' = [work EXCEPT ![s] = [puts |-> work[s].puts \ {e},
                                           deletes |-> work[s].deletes \ {e}]]
          /\ UNCHANGED <<pc, watch, snap, cleanup>>
      BY <1>6, <2>3, Zenon DEF RecordStatistics
    <3>2. work' \in [Session -> [puts : SUBSET Executor, deletes : SUBSET Executor]]
      BY <3>1 DEF ProcessorTypeOK
    <3> QED
      BY <2>1, <3>1, <3>2 DEF ProcessorTypeOK
  <2> QED
    BY <2>2, <2>3, Zenon
<1>7. CASE RebalanceFails(s)
  BY <1>7, FinishType, StoreUnchangedType, Zenon DEF RebalanceFails
<1>8. CASE WatchCloses(s)
  BY <1>8, StoreUnchangedType DEF WatchCloses, ProcessorTypeOK
<1>9. ASSUME NEW E \in SUBSET Executor, ReadShardStats(s, E)
      PROVE  StoreTypeOK' /\ ProcessorTypeOK'
  BY <1>9, StoreUnchangedType DEF ReadShardStats, ProcessorTypeOK
<1>10. ASSUME NEW B \in SUBSET Executor, NEW E \in SUBSET Executor, DeleteShardStats(s, B, E)
       PROVE  StoreTypeOK' /\ ProcessorTypeOK'
  <2>1. StoreTypeOK'
    BY <1>10, RecordStatisticsType, StoreUnchangedType DEF DeleteShardStats
  <2> QED
    BY <1>10, <2>1 DEF DeleteShardStats, ProcessorTypeOK
<1>11. CASE CleanupFails(s)
  BY <1>11, StoreUnchangedType DEF CleanupFails, ProcessorTypeOK
<1> QED
  BY <1>1, <1>2, <1>3, <1>4, <1>5, <1>6, <1>7, <1>8, <1>9, <1>10, <1>11, Zenon
     DEF ProcessorStep, ProcessorFault, StartCleanup, FinishCleanup

-----------------------------------------------------------------------------
(* The assigner. *)

LEMMA EndBatchType ==
  ASSUME NEW a \in Server, AssignerTypeOK, EndBatch(a)
  PROVE  AssignerTypeOK'
  BY NoStateType, AssignerAssumption DEF AssignerTypeOK, EndBatch

\* A placement adds requested shards to what the executors have.
LEMMA MergePlacementsType ==
  ASSUME NEW st \in NamespaceState, NEW K \in SUBSET Shard, NEW pl \in Placements(st, K)
  PROVE  \A e \in DOMAIN MergePlacements(st, pl) :
           MergePlacements(st, pl)[e] \subseteq Shard
  BY DEF Placements, MergePlacements, NamespaceState

\* A conflict is only retried while the retries last.
LEMMA AssignBatchType ==
  ASSUME NEW a \in Server, NEW r \in Revision, StoreTypeOK, AssignerTypeOK,
         AssignBatch(a, r)
  PROVE  StoreTypeOK' /\ AssignerTypeOK'
<1>1. PICK pl \in Placements(view[a], ToPlace(view[a], batch[a])) :
         \/ /\ AssignShards(TRUE, view[a], Compared(view[a], pl), {},
                            MergePlacements(view[a], pl), r, TRUE)
            /\ EndBatch(a)
         \/ /\ AssignShards(TRUE, view[a], Compared(view[a], pl), {},
                            MergePlacements(view[a], pl), r, FALSE)
            /\ IF RetriesExhausted(a) THEN EndBatch(a)
               ELSE /\ phase' = [phase EXCEPT ![a] = "reading"]
                    /\ view' = [view EXCEPT ![a] = NoState]
                    /\ retries' = [retries EXCEPT ![a] = @ + 1]
                    /\ UNCHANGED batch
  BY Zenon DEF AssignBatch
<1>2. StoreTypeOK'
  <2>1. view[a] \in NamespaceState /\ ToPlace(view[a], batch[a]) \in SUBSET Shard
    BY DEF AssignerTypeOK, ToPlace
  <2>2. \A e \in DOMAIN MergePlacements(view[a], pl) :
          MergePlacements(view[a], pl)[e] \subseteq Shard
    BY <2>1, MergePlacementsType
  <2> QED
    BY <1>1, <2>2, AssignShardsType, Zenon
<1>3. CASE EndBatch(a)
  BY <1>2, <1>3, EndBatchType
<1>4. CASE ~EndBatch(a)
  <2>1. /\ retries[a] # MaxRetries
        /\ phase' = [phase EXCEPT ![a] = "reading"]
        /\ view' = [view EXCEPT ![a] = NoState]
        /\ retries' = [retries EXCEPT ![a] = @ + 1]
        /\ UNCHANGED batch
    BY <1>1, <1>4, Zenon DEF RetriesExhausted
  <2>2. retries' \in [Server -> 0..MaxRetries]
    BY <2>1, AssignerAssumption DEF AssignerTypeOK
  <2> QED
    BY <1>2, <2>1, <2>2, NoStateType DEF AssignerTypeOK
<1> QED
  BY <1>3, <1>4

LEMMA AssignerType ==
  ASSUME NEW a \in Server, StoreTypeOK, AssignerTypeOK,
         Request(a) \/ AssignerStep(a) \/ AssignerFault(a)
  PROVE  StoreTypeOK' /\ AssignerTypeOK'
<1>1. ASSUME NEW B \in SUBSET Shard, StartBatch(a, B)
      PROVE  StoreTypeOK' /\ AssignerTypeOK'
  BY <1>1, StoreUnchangedType DEF StartBatch, AssignerTypeOK
<1>2. CASE ReadNamespace(a)
  <2>1. StoreTypeOK'
    BY <1>2, StoreUnchangedType DEF ReadNamespace
  <2>2. CASE EndBatch(a)
    BY <2>1, <2>2, EndBatchType
  <2>3. CASE ~EndBatch(a)
    BY <1>2, <2>1, <2>3, GetStateType DEF ReadNamespace, AssignerTypeOK
  <2> QED
    BY <2>2, <2>3
<1>3. ASSUME NEW r \in NextRevision, AssignBatch(a, r)
      PROVE  StoreTypeOK' /\ AssignerTypeOK'
  BY <1>3, AssignBatchType DEF NextRevision
<1>4. CASE BatchFails(a)
  BY <1>4, EndBatchType, StoreUnchangedType DEF BatchFails
<1> QED
  BY <1>1, <1>2, <1>3, <1>4 DEF Request, AssignerStep, AssignerFault

-----------------------------------------------------------------------------
(* The namespace. *)

LEMMA ElectionType ==
  ASSUME ElectionTypeOK, [ElectionNext]_electionVars
  PROVE  ElectionTypeOK'
  BY DEF ElectionTypeOK, electionVars, ElectionNext, StartCampaign, BecomeLeader,
         LeaseExpires, Resign, ResetLeaderKeys, DeleteKeys

LEMMA TypeOKInit == Init => TypeOK
<1> SUFFICES ASSUME Init PROVE TypeOK
  OBVIOUS
<1>1. StoreTypeOK
  BY DEF Init, StoreInit, StoreTypeOK, Status
<1>2. ElectionTypeOK
  BY DEF Init, ElectionInit, ElectionTypeOK
<1>3. ProcessorTypeOK
  BY NoStateType DEF Init, ProcessorInit, ProcessorTypeOK, NoWork
<1>4. AssignerTypeOK
  BY NoStateType, AssignerAssumption DEF Init, AssignerInit, AssignerTypeOK
<1> QED
  BY <1>1, <1>2, <1>3, <1>4 DEF TypeOK

LEMMA TypeOKNext == TypeOK /\ [Next]_vars => TypeOK'
<1> SUFFICES ASSUME TypeOK, [Next]_vars PROVE TypeOK'
  OBVIOUS
<1> USE DEF TypeOK
<1>s. ASSUME UNCHANGED storeVars PROVE StoreTypeOK'
  BY <1>s, StoreUnchangedType
<1>p. ASSUME UNCHANGED processorVars PROVE ProcessorTypeOK'
  BY <1>p DEF processorVars, ProcessorTypeOK
<1>a. ASSUME UNCHANGED assignerVars PROVE AssignerTypeOK'
  BY <1>a DEF assignerVars, AssignerTypeOK
<1>e. ASSUME UNCHANGED electionVars PROVE ElectionTypeOK'
  BY <1>e DEF electionVars, ElectionTypeOK
<1>1. ASSUME NEW s \in Session, Elect(s)
      PROVE  TypeOK'
  <2>1. ElectionTypeOK'
    BY <1>1, ElectionType DEF Elect, ElectionNext
  <2>2. ProcessorTypeOK'
    BY <1>1, <1>p DEF Elect, Run, ProcessorTypeOK
  <2> QED
    BY <1>1, <1>s, <1>a, <2>1, <2>2 DEF Elect
<1>2. ASSUME NEW s \in Session, StepDown(s)
      PROVE  TypeOK'
  <2>1. ElectionTypeOK'
    BY <1>2, ElectionType DEF StepDown, ElectionNext
  <2>2. ProcessorTypeOK'
    <3>1. Terminate(s)
      BY <1>2 DEF StepDown
    <3>2. NoWork \in [puts : SUBSET Executor, deletes : SUBSET Executor]
      BY DEF NoWork
    <3>3. pc' \in [Session -> {"off", "waiting", "reading", "planning", "deleting", "recording"}]
      BY <3>1 DEF Terminate, ProcessorTypeOK
    <3>4. watch' \in [Session -> {"starting", "open", "pending", "closed"}]
      BY <3>1 DEF Terminate, ProcessorTypeOK
    <3>5. snap' \in [Session -> NamespaceState]
      BY <3>1, NoStateType DEF Terminate, ProcessorTypeOK
    <3>6. work' \in [Session -> [puts : SUBSET Executor, deletes : SUBSET Executor]]
      BY <3>1, <3>2 DEF Terminate, ProcessorTypeOK
    <3>7. cleanup' \in [Session -> SUBSET Executor]
      BY <3>1 DEF Terminate, ProcessorTypeOK
    <3> QED
      BY <3>3, <3>4, <3>5, <3>6, <3>7 DEF ProcessorTypeOK
  <2> QED
    BY <1>2, <1>s, <1>a, <2>1, <2>2 DEF StepDown
<1>3. ASSUME NEW s \in Session, LoseLease(s)
      PROVE  TypeOK'
  <2>1. ElectionTypeOK'
    BY <1>3, ElectionType DEF LoseLease, ElectionNext
  <2> QED
    BY <1>3, <1>s, <1>p, <1>a, <2>1 DEF LoseLease
<1>4. ASSUME NEW s \in Session,
             ProcessorStep(s) \/ ProcessorFault(s) \/ StartCleanup(s) \/ FinishCleanup(s)
      PROVE  TypeOK'
  <2>1. UNCHANGED <<electionVars, assignerVars>>
    BY <1>4, Zenon DEF ProcessorStep, ProcessorFault, StartCleanup, FinishCleanup
  <2> QED
    BY <1>4, <1>a, <1>e, <2>1, ProcessorType
<1>5. ASSUME NEW a \in Server, Request(a) \/ AssignerStep(a) \/ AssignerFault(a)
      PROVE  TypeOK'
  <2>1. UNCHANGED <<electionVars, processorVars>>
    BY <1>5 DEF Request, AssignerStep, AssignerFault
  <2> QED
    BY <1>5, <1>p, <1>e, <2>1, AssignerType
<1>6. CASE \/ \E e \in Executor : Heartbeat(e) \/ Store(HeartbeatExpires(e))
           \/ Operator
  <2>1. UNCHANGED <<electionVars, processorVars, assignerVars>>
    BY <1>6, Zenon DEF Heartbeat, Operator, Store
  <2> QED
    BY <1>6, <1>p, <1>a, <1>e, <2>1, EnvironmentType
<1>7. CASE ForceReset
  <2>1. ElectionTypeOK'
    BY <1>7, ElectionType DEF ForceReset, ElectionNext
  <2> QED
    BY <1>7, <1>p, <1>a, <2>1, EnvironmentType DEF ForceReset
<1>8. CASE UNCHANGED vars
  BY <1>8, <1>s, <1>p, <1>a, <1>e DEF vars
<1> QED
  BY <1>1, <1>2, <1>3, <1>4, <1>5, <1>6, <1>7, <1>8
     DEF Next, ServiceNext, EnvironmentNext

\* Every step of the service, its operators and its executors keeps the types.
THEOREM TypeCorrect == Spec => []TypeOK
  BY TypeOKInit, TypeOKNext, PTL DEF Spec
-----------------------------------------------------------------------------
(* The optimistic lock. *)

\* An absent record holds no shard, in the store as in a snapshot, and equal
\* revisions stand for equal records.
Consistent(st) ==
  \A e \in Executor :
    /\ st.modRevision[e] = 0 => st.assigned[e] = {}
    /\ st.modRevision[e] = modRevision[e] => st.assigned[e] = assigned[e]

RevisionInv ==
  /\ \A e \in Executor : modRevision[e] = 0 => assigned[e] = {}
  /\ \A s \in Session : Consistent(snap[s])
  /\ \A a \in Server : Consistent(view[a])

\* The cleanup of stale executors deletes none that the leader saw alive.
DeletesInv ==
  \A s \in Session : pc[s] = "deleting" => work[s].deletes \subseteq snap[s].stale

LockInv == TypeOK /\ RevisionInv /\ DeletesInv

-----------------------------------------------------------------------------
(* What a step does to the records and to the snapshots. *)

\* A record stays, disappears, or gets a revision that nobody has seen.
FreshWrite ==
  \A e \in Executor :
    \/ modRevision'[e] = modRevision[e] /\ assigned'[e] = assigned[e]
    \/ modRevision'[e] = 0 /\ assigned'[e] = {}
    \/ modRevision'[e] \in Revision \ RevisionsInUse

\* A snapshot stays, is dropped, or is taken from a store that does not change.
Held(old, new) == new \in {old, NoState} \/ (new = GetState /\ UNCHANGED assignmentKeys)

SnapshotsHeld ==
  /\ \A s \in Session : Held(snap[s], snap'[s])
  /\ \A a \in Server : Held(view[a], view'[a])

\* A deletion and a put at a fresh revision are fresh writes.
LEMMA CommitIsFresh ==
  ASSUME NEW D, NEW P, NEW r \in NextRevision, CommitAssignments(D, P, r)
  PROVE  FreshWrite
  BY DEF CommitAssignments, FreshWrite, NextRevision

LEMMA DeleteIsFresh ==
  ASSUME NEW D, DeleteExecutors(D)
  PROVE  FreshWrite
<1>1. DOMAIN << >> = {}
  OBVIOUS
<1> QED
  BY <1>1 DEF DeleteExecutors, CommitAssignments, FreshWrite

LEMMA UnchangedIsFresh ==
  ASSUME UNCHANGED assignmentKeys
  PROVE  FreshWrite
  BY DEF assignmentKeys, FreshWrite

\* The loop drops its snapshot when it finishes.
LEMMA FinishHolds ==
  ASSUME TypeOK, NEW s \in Session, NEW failed \in BOOLEAN, Finish(s, failed)
  PROVE  \A t \in Session : Held(snap[t], snap'[t])
  BY DEF TypeOK, ProcessorTypeOK, Finish, Held

LEMMA EndBatchHolds ==
  ASSUME TypeOK, NEW a \in Server, EndBatch(a)
  PROVE  \A b \in Server : Held(view[b], view'[b])
  BY DEF TypeOK, AssignerTypeOK, EndBatch, Held

\* The steps of a processor.
LEMMA ProcessorHolds ==
  ASSUME TypeOK, NEW s \in Session,
         ProcessorStep(s) \/ ProcessorFault(s) \/ StartCleanup(s) \/ FinishCleanup(s)
  PROVE  FreshWrite /\ SnapshotsHeld
<1>1. \A a \in Server : Held(view[a], view'[a])
  BY Zenon
    DEF ProcessorStep, ProcessorFault, StartCleanup, FinishCleanup, assignerVars, Held
<1>2. FreshWrite
  <2>1. CASE UNCHANGED storeVars
    BY <2>1, UnchangedIsFresh DEF storeVars
  <2>2. ASSUME NEW B \in SUBSET Executor, DeleteStaleExecutors(s, B)
        PROVE  FreshWrite
    BY <2>1, <2>2, DeleteIsFresh DEF DeleteStaleExecutors
  <2>3. ASSUME NEW r \in NextRevision, Rebalance(s, r)
        PROVE  FreshWrite
    BY <2>1, <2>3, CommitIsFresh, Zenon DEF Rebalance, AssignPlan, AssignShards
  <2>4. ASSUME NEW puts, NEW deletes, RecordShardStatisticsBatch(puts, deletes)
        PROVE  FreshWrite
    BY <2>4, UnchangedIsFresh DEF RecordShardStatisticsBatch
  <2>5. ASSUME NEW e \in Executor, NEW failed \in BOOLEAN, RecordStatistics(s, e, failed)
        PROVE  FreshWrite
    BY <2>1, <2>4, <2>5 DEF RecordStatistics
  <2>6. ASSUME NEW B \in SUBSET Executor, NEW E \in SUBSET Executor,
               DeleteShardStats(s, B, E)
        PROVE  FreshWrite
    BY <2>1, <2>4, <2>6 DEF DeleteShardStats
  <2>7. CASE \/ ReadState(s) \/ NoActiveExecutors(s) \/ SkipRebalance(s)
             \/ RebalanceFails(s) \/ WatchCloses(s) \/ CleanupFails(s)
             \/ \E E \in SUBSET Executor : ReadShardStats(s, E)
    BY <2>1, <2>7, Zenon DEF ReadState, NoActiveExecutors, SkipRebalance, RebalanceFails,
                      WatchCloses, CleanupFails, ReadShardStats
  <2> QED
    BY <2>2, <2>3, <2>5, <2>6, <2>7, Zenon
       DEF ProcessorStep, ProcessorFault, StartCleanup, FinishCleanup
<1>3. \A t \in Session : Held(snap[t], snap'[t])
  <2>1. CASE Finish(s, FALSE) \/ Finish(s, TRUE)
    BY <2>1, FinishHolds, Zenon
  <2>2. CASE ~Finish(s, FALSE) /\ ~Finish(s, TRUE)
    <3>1. CASE ReadState(s)
      BY <3>1 DEF ReadState, TypeOK, ProcessorTypeOK, Held, storeVars
    <3>2. ASSUME NEW prev, NEW own, RecordOrFinish(s, prev, own)
          PROVE  \A t \in Session : Held(snap[t], snap'[t])
      BY <2>2, <3>2, Zenon DEF RecordOrFinish, TypeOK, ProcessorTypeOK, Held
    <3>3. ASSUME NEW r \in NextRevision, Rebalance(s, r)
          PROVE  \A t \in Session : Held(snap[t], snap'[t])
      BY <2>2, <3>2, <3>3, Zenon DEF Rebalance
    <3>4. CASE UNCHANGED snap
      BY <3>4 DEF Held
    <3>5. ASSUME NEW B \in SUBSET Executor, DeleteStaleExecutors(s, B)
          PROVE  UNCHANGED snap
      BY <2>2, <3>5, Zenon DEF DeleteStaleExecutors
    <3>6. ASSUME NEW e \in Executor, NEW failed \in BOOLEAN, RecordStatistics(s, e, failed)
          PROVE  UNCHANGED snap
      BY <2>2, <3>6, Zenon DEF RecordStatistics
    <3>7. CASE \/ NoActiveExecutors(s) \/ SkipRebalance(s)
               \/ RebalanceFails(s) \/ WatchCloses(s) \/ CleanupFails(s)
               \/ \E E \in SUBSET Executor : ReadShardStats(s, E)
               \/ \E B, E \in SUBSET Executor : DeleteShardStats(s, B, E)
      BY <2>2, <3>4, <3>7, Zenon DEF NoActiveExecutors, SkipRebalance, RebalanceFails,
                        WatchCloses, CleanupFails, ReadShardStats, DeleteShardStats
    <3> QED
      BY <3>1, <3>3, <3>4, <3>5, <3>6, <3>7, Zenon
         DEF ProcessorStep, ProcessorFault, StartCleanup, FinishCleanup
  <2> QED
    BY <2>1, <2>2, Zenon
<1> QED
  BY <1>1, <1>2, <1>3 DEF SnapshotsHeld

\* The steps of an assigner.
LEMMA AssignerHolds ==
  ASSUME TypeOK, NEW a \in Server, Request(a) \/ AssignerStep(a) \/ AssignerFault(a)
  PROVE  FreshWrite /\ SnapshotsHeld
<1>1. \A s \in Session : Held(snap[s], snap'[s])
  BY DEF Request, AssignerStep, AssignerFault, processorVars, Held
<1>2. ASSUME NEW B \in SUBSET Shard, StartBatch(a, B)
      PROVE  FreshWrite /\ \A b \in Server : Held(view[b], view'[b])
  BY <1>2, UnchangedIsFresh DEF StartBatch, storeVars, Held
<1>3. CASE ReadNamespace(a)
  <2>1. FreshWrite
    BY <1>3, UnchangedIsFresh DEF ReadNamespace, storeVars
  <2>2. CASE EndBatch(a)
    BY <1>1, <2>1, <2>2, EndBatchHolds DEF SnapshotsHeld
  <2>3. CASE ~EndBatch(a)
    BY <1>1, <1>3, <2>1, <2>3
       DEF ReadNamespace, TypeOK, AssignerTypeOK, Held, SnapshotsHeld, storeVars
  <2> QED
    BY <2>2, <2>3
<1>4. ASSUME NEW r \in NextRevision, AssignBatch(a, r)
      PROVE  FreshWrite /\ \A b \in Server : Held(view[b], view'[b])
  <2>1. FreshWrite
    BY <1>4, CommitIsFresh, UnchangedIsFresh DEF AssignBatch, AssignShards, storeVars
  <2>2. CASE EndBatch(a)
    BY <2>1, <2>2, EndBatchHolds
  <2>3. CASE ~EndBatch(a)
    BY <1>4, <2>1, <2>3, Zenon DEF AssignBatch, TypeOK, AssignerTypeOK, Held
  <2> QED
    BY <2>2, <2>3
<1>5. CASE BatchFails(a)
  BY <1>1, <1>5, EndBatchHolds, UnchangedIsFresh, Zenon
    DEF BatchFails, storeVars, SnapshotsHeld
<1> QED
  BY <1>1, <1>2, <1>3, <1>4, <1>5
     DEF Request, AssignerStep, AssignerFault, SnapshotsHeld

\* Every step of the namespace.
LEMMA StepHolds ==
  ASSUME TypeOK, [Next]_vars
  PROVE  FreshWrite /\ SnapshotsHeld
<1>1. ASSUME UNCHANGED <<processorVars, assignerVars>>
      PROVE  SnapshotsHeld
  BY <1>1 DEF processorVars, assignerVars, SnapshotsHeld, Held
<1>2. ASSUME NEW s \in Session, Elect(s) \/ StepDown(s) \/ LoseLease(s)
      PROVE  FreshWrite /\ SnapshotsHeld
  <2>1. FreshWrite
    BY <1>2, UnchangedIsFresh DEF Elect, StepDown, LoseLease, storeVars
  <2>2. \A t \in Session : Held(snap[t], snap'[t])
    BY <1>2 DEF Elect, StepDown, LoseLease, Run, Terminate, processorVars, TypeOK,
                ProcessorTypeOK, Held
  <2> QED
    BY <1>2, <2>1, <2>2, Zenon
      DEF Elect, StepDown, LoseLease, assignerVars, SnapshotsHeld, Held
<1>3. CASE (\E e \in Executor : Heartbeat(e) \/ Store(HeartbeatExpires(e))) \/ Operator
  <2>1. UNCHANGED <<processorVars, assignerVars>>
    BY <1>3, Zenon DEF Heartbeat, Operator, Store
  <2>2. ASSUME NEW e \in Executor, Heartbeat(e)
        PROVE  UNCHANGED assignmentKeys
    BY <2>2, Zenon DEF Heartbeat, RecordHeartbeat, Store
  <2>3. ASSUME NEW e \in Executor, Store(HeartbeatExpires(e))
        PROVE  UNCHANGED assignmentKeys
    BY <2>3, Zenon DEF HeartbeatExpires, Store
  <2>4. CASE Operator
    BY <2>4, UnchangedIsFresh, <1>1, <2>1, Zenon
       DEF Operator, DrainShards, UndrainShards, DrainHosts, UndrainHosts, Store
  <2> QED
    BY <1>1, <1>3, <2>1, <2>2, <2>3, <2>4, UnchangedIsFresh, Zenon
<1>4. CASE ForceReset
  BY <1>1, <1>4 DEF ForceReset, ResetNamespace, FreshWrite
<1>5. CASE UNCHANGED vars
  BY <1>1, <1>5, UnchangedIsFresh DEF vars, storeVars
<1> QED
  BY <1>2, <1>3, <1>4, <1>5, ProcessorHolds, AssignerHolds
     DEF Next, ServiceNext, EnvironmentNext

-----------------------------------------------------------------------------
(* The invariant. *)

\* No fresh write can make a held snapshot look current when it is not.
LEMMA HeldIsConsistent ==
  ASSUME RevisionInv, FreshWrite, NEW old, NEW new, Consistent(old), Held(old, new),
         \A e \in Executor : old.modRevision[e] \in RevisionsInUse
  PROVE  Consistent(new)'
<1>1. \A e \in Executor : modRevision'[e] = 0 => assigned'[e] = {}
  BY StoreAssumption DEF FreshWrite, RevisionInv
<1>2. CASE new = old
  BY <1>2, Zenon DEF Consistent, FreshWrite
<1>3. CASE new = NoState
  BY <1>1, <1>3 DEF Consistent, NoState
<1>4. CASE new = GetState /\ UNCHANGED assignmentKeys
  BY <1>4, Zenon DEF Consistent, GetState, assignmentKeys, RevisionInv
<1> QED
  BY <1>2, <1>3, <1>4 DEF Held

LEMMA RememberedRevision ==
  ASSUME NEW st, NEW S, NEW x \in S, NEW e \in Executor
  PROVE  st[x].modRevision[e] \in Remembered(st, S)
<1> DEFINE R(y) == {st[y].modRevision[d] : d \in Executor}
<1>1. st[x].modRevision[e] \in R(x)
  BY Zenon
<1> HIDE DEF R
<1>2. st[x].modRevision[e] \in UNION {R(y) : y \in S}
  BY <1>1, Zenon
<1> QED
  BY <1>2, Zenon DEF Remembered, R

LEMMA RevisionInvNext ==
  ASSUME TypeOK, RevisionInv, [Next]_vars
  PROVE  RevisionInv'
<1>1. FreshWrite /\ SnapshotsHeld
  BY StepHolds
<1>2. \A e \in Executor : modRevision'[e] = 0 => assigned'[e] = {}
  BY <1>1, StoreAssumption, Zenon DEF FreshWrite, RevisionInv
<1>3. ASSUME NEW s \in Session
      PROVE  Consistent(snap[s])'
  <2>1. \A e \in Executor : snap[s].modRevision[e] \in RevisionsInUse
    BY RememberedRevision DEF RevisionsInUse
  <2>2. Consistent(snap[s]) /\ Held(snap[s], snap'[s])
    BY <1>1 DEF RevisionInv, SnapshotsHeld
  <2> QED
    BY <1>1, <2>1, <2>2, HeldIsConsistent
<1>4. ASSUME NEW a \in Server
      PROVE  Consistent(view[a])'
  <2>1. \A e \in Executor : view[a].modRevision[e] \in RevisionsInUse
    BY RememberedRevision DEF RevisionsInUse
  <2>2. Consistent(view[a]) /\ Held(view[a], view'[a])
    BY <1>1 DEF RevisionInv, SnapshotsHeld
  <2> QED
    BY <1>1, <2>1, <2>2, HeldIsConsistent
<1> QED
  BY <1>2, <1>3, <1>4, Zenon DEF RevisionInv

\* NoActiveExecutors plans the deletions; the batches only shorten the list.
LEMMA DeletesInvNext ==
  ASSUME TypeOK, DeletesInv, [Next]_vars
  PROVE  DeletesInv'
<1> USE DEF DeletesInv
<1>0. ASSUME NEW s \in Session, NEW failed \in BOOLEAN, Finish(s, failed)
      PROVE  DeletesInv'
  BY <1>0 DEF Finish, TypeOK, ProcessorTypeOK
<1>1. CASE UNCHANGED <<pc, snap, work>>
  BY <1>1
<1>2. ASSUME NEW s \in Session, Elect(s) \/ StepDown(s) \/ LoseLease(s)
      PROVE  DeletesInv'
  BY <1>1, <1>2 DEF Elect, StepDown, LoseLease, Run, Terminate, processorVars, TypeOK,
                    ProcessorTypeOK
<1>3. ASSUME NEW s \in Session,
             ProcessorStep(s) \/ ProcessorFault(s) \/ StartCleanup(s) \/ FinishCleanup(s)
      PROVE  DeletesInv'
  <2>0. CASE Finish(s, FALSE) \/ Finish(s, TRUE)
    BY <1>0, <2>0, Zenon
  <2> SUFFICES ASSUME ~Finish(s, FALSE), ~Finish(s, TRUE)
               PROVE  DeletesInv'
    BY <2>0, Zenon
  <2> USE DEF TypeOK, ProcessorTypeOK
  <2>1. CASE ReadState(s)
    BY <2>1 DEF ReadState
  <2>2. CASE NoActiveExecutors(s)
    <3>1. /\ pc' = [pc EXCEPT ![s] = "deleting"]
          /\ work' = [work EXCEPT ![s].deletes = snap[s].stale]
          /\ UNCHANGED snap
      BY <2>2, Zenon DEF NoActiveExecutors
    <3> QED
      BY <3>1
  <2>3. ASSUME NEW B \in SUBSET Executor, DeleteStaleExecutors(s, B)
        PROVE  DeletesInv'
    <3>1. work' = [work EXCEPT ![s].deletes = @ \ B] /\ UNCHANGED <<pc, snap>>
      BY <2>3, Zenon DEF DeleteStaleExecutors
    <3> QED
      BY <3>1
  <2>4. ASSUME NEW prev, NEW own, RecordOrFinish(s, prev, own)
        PROVE  DeletesInv'
    <3>1. /\ pc' = [pc EXCEPT ![s] = "recording"]
          /\ \A t \in Session \ {s} : work'[t] = work[t] /\ snap'[t] = snap[t]
      BY <2>4, Zenon DEF RecordOrFinish
    <3> QED
      BY <3>1
  <2>5. ASSUME NEW r \in NextRevision, Rebalance(s, r)
        PROVE  DeletesInv'
    BY <2>4, <2>5, Zenon DEF Rebalance
  <2>6. ASSUME NEW e \in Executor, NEW failed \in BOOLEAN, RecordStatistics(s, e, failed)
        PROVE  DeletesInv'
    <3>1. /\ pc[s] = "recording" /\ UNCHANGED <<pc, snap>>
          /\ \A t \in Session \ {s} : work'[t] = work[t]
      BY <2>6, Zenon DEF RecordStatistics
    <3> QED
      BY <3>1
  <2>7. CASE \/ SkipRebalance(s) \/ RebalanceFails(s) \/ WatchCloses(s) \/ CleanupFails(s)
             \/ \E E \in SUBSET Executor : ReadShardStats(s, E)
             \/ \E B, E \in SUBSET Executor : DeleteShardStats(s, B, E)
    BY <1>1, <2>7, Zenon DEF SkipRebalance, RebalanceFails, WatchCloses, CleanupFails,
                      ReadShardStats, DeleteShardStats
  <2> QED
    BY <1>3, <2>1, <2>2, <2>3, <2>5, <2>6, <2>7, Zenon
       DEF ProcessorStep, ProcessorFault, StartCleanup, FinishCleanup
<1>4. CASE \/ \E a \in Server : Request(a) \/ AssignerStep(a) \/ AssignerFault(a)
           \/ \E e \in Executor : Heartbeat(e) \/ Store(HeartbeatExpires(e))
           \/ Operator \/ ForceReset \/ UNCHANGED vars
  BY <1>1, <1>4, Zenon DEF Request, AssignerStep, AssignerFault, Heartbeat, Operator, Store,
                    ForceReset, vars, processorVars
<1> QED
  BY <1>2, <1>3, <1>4 DEF Next, ServiceNext, EnvironmentNext

LEMMA LockInvInit == Init => LockInv
<1> SUFFICES ASSUME Init PROVE LockInv
  OBVIOUS
<1>1. RevisionInv
  BY DEF Init, StoreInit, ProcessorInit, AssignerInit, RevisionInv, Consistent, NoState
<1>2. DeletesInv
  BY Zenon DEF Init, ProcessorInit, DeletesInv
<1> QED
  BY <1>1, <1>2, TypeOKInit DEF LockInv

LEMMA LockInvNext == LockInv /\ [Next]_vars => LockInv'
  BY TypeOKNext, RevisionInvNext, DeletesInvNext DEF LockInv

-----------------------------------------------------------------------------
(* The theorem. *)

\* The writer of the record of e had seen it: the body of NoUnseenOverwrite.
SeenBy(e) ==
  \/ ForceReset
  \/ \E s \in Session : /\ Guard(s) /\ work'[s] # work[s]
                        /\ pc[s] = "deleting" /\ e \in snap[s].stale
  \/ \E s \in Session : /\ Guard(s) /\ snap'[s] # snap[s]
                        /\ snap[s].modRevision[e] = modRevision[e]
                        /\ snap[s].assigned[e] = assigned[e]
  \/ \E a \in Server : /\ view'[a] # view[a]
                       /\ view[a].modRevision[e] = modRevision[e]
                       /\ view[a].assigned[e] = assigned[e]

\* The leader compares every record that it deletes or puts.
LEMMA RebalanceSees ==
  ASSUME LockInv, NEW s \in Session, NEW r \in NextRevision, Rebalance(s, r),
         NEW e \in Executor, modRevision'[e] # modRevision[e]
  PROVE  SeenBy(e)
<1>0. PICK order, prevOrder \in MapOrder : \E own \in Plans(snap[s], order) :
         /\ AssignPlan(s, own, r, TRUE) \/ AssignPlan(s, own, r, FALSE)
         /\ \/ RecordOrFinish(s, FirstOwner(snap[s], prevOrder), own)
            \/ Finish(s, TRUE)
  BY Zenon DEF Rebalance
<1>1. PICK own \in Plans(snap[s], order) :
         /\ AssignPlan(s, own, r, TRUE) \/ AssignPlan(s, own, r, FALSE)
         /\ \/ RecordOrFinish(s, FirstOwner(snap[s], prevOrder), own)
            \/ Finish(s, TRUE)
  BY <1>0, Zenon
<1>2. snap'[s] = NoState
  BY <1>1, Zenon DEF RecordOrFinish, Finish, LockInv, TypeOK, ProcessorTypeOK
<1>3. snap'[s] # snap[s]
  <2>1. snap[s].active # {}
    BY Zenon DEF Rebalance, Assignable
  <2>2. NoState.active = {}
    BY DEF NoState
  <2> QED
    BY <1>2, <2>1, <2>2
<1> DEFINE P == ChangedAssignments(snap[s], own)
           C == DOMAIN NewAssignments(snap[s], own)
<1>4. /\ Guard(s) /\ Unmodified(snap[s], C \cup snap[s].stale)
      /\ CommitAssignments(snap[s].stale, P, r)
  BY <1>1, Zenon DEF AssignPlan, AssignShards, storeVars, assignmentKeys
<1>5. DOMAIN P \subseteq C
  BY Zenon DEF ChangedAssignments
<1>6. e \in C \cup snap[s].stale
  <2> HIDE DEF P, C
  <2> QED
    BY <1>4, <1>5, Zenon DEF CommitAssignments
<1>7. snap[s].modRevision[e] = modRevision[e]
  BY <1>4, <1>6 DEF Unmodified
<1>8. snap[s].assigned[e] = assigned[e]
  BY <1>7, Zenon DEF LockInv, RevisionInv, Consistent
<1> QED
  BY <1>3, <1>4, <1>7, <1>8, Zenon DEF SeenBy

\* The assigner compares every record that it puts.
LEMMA AssignBatchSees ==
  ASSUME LockInv, NEW a \in Server, NEW r \in NextRevision, AssignBatch(a, r),
         NEW e \in Executor, modRevision'[e] # modRevision[e]
  PROVE  SeenBy(e)
<1>1. PICK pl \in Placements(view[a], ToPlace(view[a], batch[a])) :
         /\ \E ok \in BOOLEAN :
              AssignShards(TRUE, view[a], Compared(view[a], pl), {},
                           MergePlacements(view[a], pl), r, ok)
         /\ view' = [view EXCEPT ![a] = NoState]
  BY Zenon DEF AssignBatch, EndBatch
<1>2. /\ Unmodified(view[a], Compared(view[a], pl) \cup {})
      /\ CommitAssignments({}, MergePlacements(view[a], pl), r)
  BY <1>1 DEF AssignShards, storeVars, assignmentKeys
<1>3. e \in DOMAIN MergePlacements(view[a], pl)
  BY <1>2, Zenon DEF CommitAssignments
<1>4. PICK k \in DOMAIN pl : pl[k] = e
  BY <1>3, Zenon DEF MergePlacements
<1>5. view[a].modRevision[e] = modRevision[e]
  BY <1>2, <1>4, Zenon DEF Unmodified, Compared
<1>6. view[a].assigned[e] = assigned[e]
  BY <1>5, Zenon DEF LockInv, RevisionInv, Consistent
<1>7. view'[a] # view[a]
  <2>1. e \in view[a].active
    BY <1>4 DEF Placements
  <2>2. view'[a] = NoState
    BY <1>1, Zenon DEF LockInv, TypeOK, AssignerTypeOK
  <2>3. NoState.active = {}
    BY Zenon DEF NoState
  <2> QED
    BY <2>1, <2>2, <2>3
<1> QED
  BY <1>5, <1>6, <1>7, Zenon DEF SeenBy

\* DeleteExecutors deletes executors that the leader saw stale.
LEMMA DeleteSees ==
  ASSUME LockInv, NEW s \in Session, NEW B \in SUBSET Executor,
         DeleteStaleExecutors(s, B), NEW e \in Executor, modRevision'[e] # modRevision[e]
  PROVE  SeenBy(e)
<1>1. Guard(s) /\ DeleteExecutors(B)
  BY DEF DeleteStaleExecutors, storeVars, assignmentKeys
<1>2. e \in B
  <2>1. DOMAIN << >> = {}
    OBVIOUS
  <2> QED
    BY <1>1, <2>1, Zenon DEF DeleteExecutors, CommitAssignments
<1>3. e \in work[s].deletes /\ e \in snap[s].stale /\ pc[s] = "deleting"
  BY <1>2 DEF DeleteStaleExecutors, LockInv, DeletesInv
<1>4. e \notin work'[s].deletes
  <2>1. CASE Finish(s, FALSE)
    BY <2>1, Zenon DEF Finish, NoWork, LockInv, TypeOK, ProcessorTypeOK
  <2>2. CASE ~Finish(s, FALSE)
    <3>1. work' = [work EXCEPT ![s].deletes = @ \ B]
      BY <2>2, Zenon DEF DeleteStaleExecutors
    <3> QED
      BY <1>2, <3>1 DEF LockInv, TypeOK, ProcessorTypeOK
  <2> QED
    BY <2>1, <2>2, Zenon
<1> QED
  BY <1>1, <1>3, <1>4, Zenon DEF SeenBy

\* Nobody else writes a record.
LEMMA WritersSee ==
  ASSUME LockInv, [Next]_vars, NEW e \in Executor, modRevision'[e] # modRevision[e]
  PROVE  SeenBy(e)
<1>0. ~UNCHANGED assignmentKeys
  BY DEF assignmentKeys
<1>1. ~UNCHANGED storeVars
  BY <1>0 DEF storeVars
<1>2. ASSUME NEW s \in Session, ProcessorStep(s) \/ ProcessorFault(s)
      PROVE  SeenBy(e)
  BY <1>0, <1>1, <1>2, RebalanceSees, DeleteSees, Zenon
     DEF ProcessorStep, ProcessorFault, ReadState, NoActiveExecutors, SkipRebalance,
         RebalanceFails, WatchCloses, CleanupFails, RecordStatistics,
         RecordShardStatisticsBatch
<1>3. ASSUME NEW a \in Server, Request(a) \/ AssignerStep(a) \/ AssignerFault(a)
      PROVE  SeenBy(e)
  BY <1>1, <1>3, AssignBatchSees, Zenon
     DEF Request, StartBatch, AssignerStep, ReadNamespace, AssignerFault, BatchFails
<1>4. ASSUME NEW s \in Session,
             Elect(s) \/ StepDown(s) \/ LoseLease(s) \/ StartCleanup(s) \/ FinishCleanup(s)
      PROVE  SeenBy(e)
  BY <1>0, <1>1, <1>4, Zenon
     DEF Elect, StepDown, LoseLease, StartCleanup, ReadShardStats, FinishCleanup,
         DeleteShardStats, RecordShardStatisticsBatch
<1>5. CASE (\E d \in Executor : Heartbeat(d) \/ Store(HeartbeatExpires(d))) \/ Operator
  BY <1>0, <1>5, Zenon
    DEF Heartbeat, RecordHeartbeat, HeartbeatExpires, Operator, DrainShards,
                    UndrainShards, DrainHosts, UndrainHosts, Store
<1>6. CASE ForceReset
  BY <1>6, Zenon DEF SeenBy
<1>7. CASE UNCHANGED vars
  BY <1>1, <1>7 DEF vars
<1> QED
  BY <1>2, <1>3, <1>4, <1>5, <1>6, <1>7, Zenon DEF Next, ServiceNext, EnvironmentNext

\* No rebalance and no placement overwrites an assignment made after its
\* snapshot, in a namespace of either type: AssignShards compares the revision
\* of every record that it replaces, and a revision is never used again while
\* someone may compare it.
THEOREM NothingUnseenIsOverwritten == Spec => NoUnseenOverwrite
<1>1. LockInv /\ [Next]_vars =>
        [\A e \in Executor : modRevision'[e] # modRevision[e] => SeenBy(e)]_vars
  BY WritersSee
<1> QED
  BY <1>1, LockInvInit, LockInvNext, PTL DEF Spec, NoUnseenOverwrite, SeenBy
-----------------------------------------------------------------------------
(* A shard changes hands in one transaction. *)

\* The loss of shard k is one that the service means to make: the body of
\* NoOwnershipGap.
MeantLoss(k) ==
  \E s \in Session :
    /\ Guard(s)
    /\ \/ /\ pc[s] = "planning" /\ snap'[s] # snap[s]
          /\ \/ k \in snap[s].drained
             \/ NamespaceType = "ephemeral" /\ k \in snap[s].done
       \/ pc[s] = "deleting" /\ work'[s] # work[s]

\* Every shard that the plan deals with is owned once the plan is installed.
LEMMA PlannedIsOwned ==
  ASSUME LockInv, NEW s \in Session, NEW order, NEW own \in Plans(snap[s], order),
         NEW r, Unmodified(snap[s], DOMAIN NewAssignments(snap[s], own) \cup snap[s].stale),
         CommitAssignments(snap[s].stale, ChangedAssignments(snap[s], own), r),
         NEW k \in Available(snap[s])
  PROVE  k \in AllOwned'
<1> DEFINE e == own[k]
           P == ChangedAssignments(snap[s], own)
<1>1. e \in Assignable(snap[s]) /\ e \in Executor /\ k \in ShardsOf(own, e)
  <2>1. own \in [Available(snap[s]) -> Assignable(snap[s])]
    BY PlanType
  <2>2. snap[s].active \subseteq Executor
    BY DEF LockInv, TypeOK, ProcessorTypeOK, NamespaceState
  <2> QED
    BY <2>1, <2>2, Zenon DEF ShardsOf, Assignable
<1>2. CASE e \in DOMAIN P
  BY <1>1, <1>2, Zenon DEF CommitAssignments, ChangedAssignments, AllOwned
<1>3. CASE e \notin DOMAIN P
  <2>1. e \in DOMAIN NewAssignments(snap[s], own) /\ e \notin snap[s].stale
    BY <1>1, Zenon DEF NewAssignments, Assignable
  <2>2. snap[s].assigned[e] = ShardsOf(own, e)
    BY <1>3, <2>1, Zenon DEF ChangedAssignments
  <2>3. snap[s].assigned[e] = assigned[e]
    BY <1>1, <2>1, Zenon DEF Unmodified, LockInv, RevisionInv, Consistent
  <2>4. assigned'[e] = assigned[e]
    BY <1>1, <1>3, <2>1, Zenon DEF CommitAssignments
  <2> QED
    BY <1>1, <2>2, <2>3, <2>4, Zenon DEF AllOwned
<1> QED
  BY <1>2, <1>3

\* A leader takes away only what it saw drained or done.
LEMMA RebalanceLoss ==
  ASSUME LockInv, NEW s \in Session, NEW r \in NextRevision, Rebalance(s, r),
         NEW k \in AllOwned, k \notin AllOwned'
  PROVE  MeantLoss(k)
<1>0. PICK order, prevOrder \in MapOrder : \E own \in Plans(snap[s], order) :
         /\ AssignPlan(s, own, r, TRUE) \/ AssignPlan(s, own, r, FALSE)
         /\ \/ RecordOrFinish(s, FirstOwner(snap[s], prevOrder), own)
            \/ Finish(s, TRUE)
  BY Zenon DEF Rebalance
<1>1. PICK own \in Plans(snap[s], order) :
         /\ AssignPlan(s, own, r, TRUE) \/ AssignPlan(s, own, r, FALSE)
         /\ \/ RecordOrFinish(s, FirstOwner(snap[s], prevOrder), own)
            \/ Finish(s, TRUE)
  BY <1>0, Zenon
<1>2. pc[s] = "planning" /\ snap'[s] # snap[s]
  <2>1. snap'[s] = NoState
    BY <1>1, Zenon DEF RecordOrFinish, Finish, LockInv, TypeOK, ProcessorTypeOK
  <2>2. pc[s] = "planning" /\ snap[s].active # {}
    BY Zenon DEF Rebalance, Assignable
  <2>3. NoState.active = {}
    BY DEF NoState
  <2> QED
    BY <2>1, <2>2, <2>3, Zenon
<1> DEFINE P == ChangedAssignments(snap[s], own)
           C == DOMAIN NewAssignments(snap[s], own)
<1>3. /\ Guard(s) /\ Unmodified(snap[s], C \cup snap[s].stale)
      /\ CommitAssignments(snap[s].stale, P, r)
  BY <1>1, Zenon DEF AssignPlan, AssignShards, storeVars, assignmentKeys, AllOwned
<1>4. k \notin Available(snap[s])
  BY <1>3, PlannedIsOwned, Zenon
<1>5. PICK e \in Executor : k \in assigned[e]
  BY DEF AllOwned
<1>6. k \in snap[s].assigned[e]
  <2>1. assigned'[e] # assigned[e]
    BY <1>5 DEF AllOwned
  <2>2. e \in DOMAIN P \cup snap[s].stale
    <3> HIDE DEF P
    <3> QED
      BY <1>3, <2>1, Zenon DEF CommitAssignments
  <2>3. snap[s].modRevision[e] = modRevision[e]
    BY <1>3, <2>2, Zenon DEF ChangedAssignments, Unmodified
  <2> QED
    BY <1>5, <2>3 DEF LockInv, RevisionInv, Consistent
<1>7. k \in Owned(snap[s], Executor) /\ k \in Shard
  BY <1>5, <1>6, Zenon DEF Owned, LockInv, TypeOK, StoreTypeOK
<1>8. k \in snap[s].drained \/ (NamespaceType = "ephemeral" /\ k \in snap[s].done)
  BY <1>4, <1>7, StoreAssumption DEF Available
<1> QED
  BY <1>2, <1>3, <1>8, Zenon DEF MeantLoss

\* A placement only adds shards to the records that it replaces.
LEMMA AssignBatchLoss ==
  ASSUME LockInv, NEW a \in Server, NEW r \in NextRevision, AssignBatch(a, r)
  PROVE  AllOwned \subseteq AllOwned'
<1>1. PICK pl \in Placements(view[a], ToPlace(view[a], batch[a])) :
         \E ok \in BOOLEAN :
           AssignShards(TRUE, view[a], Compared(view[a], pl), {},
                        MergePlacements(view[a], pl), r, ok)
  BY Zenon DEF AssignBatch
<1>2. CASE UNCHANGED storeVars
  BY <1>2 DEF storeVars, assignmentKeys, AllOwned
<1>3. CASE /\ Unmodified(view[a], Compared(view[a], pl) \cup {})
           /\ CommitAssignments({}, MergePlacements(view[a], pl), r)
  <2>1. ASSUME NEW e \in Executor
        PROVE  assigned[e] \subseteq assigned'[e]
    <3>1. CASE e \in DOMAIN MergePlacements(view[a], pl)
      <4>1. view[a].modRevision[e] = modRevision[e]
        BY <1>3, <3>1, Zenon DEF MergePlacements, Compared, Unmodified
      <4>2. view[a].assigned[e] = assigned[e]
        BY <4>1 DEF LockInv, RevisionInv, Consistent
      <4> QED
        BY <1>3, <3>1, <4>2, Zenon DEF CommitAssignments, MergePlacements
    <3>2. CASE e \notin DOMAIN MergePlacements(view[a], pl)
      BY <1>3, <3>2, Zenon DEF CommitAssignments
    <3> QED
      BY <3>1, <3>2, Zenon
  <2> QED
    BY <2>1 DEF AllOwned
<1> QED
  BY <1>1, <1>2, <1>3, Zenon DEF AssignShards

\* The cleanup of stale executors is the one that loses shards by design.
LEMMA DeleteLoss ==
  ASSUME LockInv, NEW s \in Session, NEW B \in SUBSET Executor,
         DeleteStaleExecutors(s, B), NEW k \in AllOwned, k \notin AllOwned'
  PROVE  MeantLoss(k)
<1>1. Guard(s) /\ pc[s] = "deleting" /\ B # {} /\ B \subseteq work[s].deletes
  BY DEF DeleteStaleExecutors, storeVars, assignmentKeys, AllOwned
<1>2. work'[s] # work[s]
  <2>1. CASE Finish(s, FALSE)
    <3>1. work'[s].deletes = {}
      BY <2>1, Zenon DEF Finish, NoWork, LockInv, TypeOK, ProcessorTypeOK
    <3> QED
      BY <1>1, <3>1
  <2>2. CASE ~Finish(s, FALSE)
    <3>1. work' = [work EXCEPT ![s].deletes = @ \ B]
      BY <2>2, Zenon DEF DeleteStaleExecutors
    <3>2. work'[s].deletes = work[s].deletes \ B
      BY <3>1 DEF LockInv, TypeOK, ProcessorTypeOK
    <3> QED
      BY <1>1, <3>2
  <2> QED
    BY <2>1, <2>2, Zenon
<1> QED
  BY <1>1, <1>2, Zenon DEF MeantLoss

\* No other step takes a shard from an executor.
LEMMA LossIsMeant ==
  ASSUME LockInv, [Next]_vars, ~ForceReset, NEW k \in AllOwned, k \notin AllOwned'
  PROVE  MeantLoss(k)
<1>0. ~UNCHANGED assignmentKeys
  BY DEF assignmentKeys, AllOwned
<1>1. ~UNCHANGED storeVars
  BY <1>0 DEF storeVars
<1>2. ASSUME NEW s \in Session, ProcessorStep(s) \/ ProcessorFault(s)
      PROVE  MeantLoss(k)
  BY <1>0, <1>1, <1>2, RebalanceLoss, DeleteLoss, Zenon
     DEF ProcessorStep, ProcessorFault, ReadState, NoActiveExecutors, SkipRebalance,
         RebalanceFails, WatchCloses, CleanupFails, RecordStatistics,
         RecordShardStatisticsBatch
<1>3. ASSUME NEW a \in Server, Request(a) \/ AssignerStep(a) \/ AssignerFault(a)
      PROVE  FALSE
  BY <1>1, <1>3, AssignBatchLoss
     DEF Request, StartBatch, AssignerStep, ReadNamespace, AssignerFault, BatchFails
<1>4. ASSUME NEW s \in Session,
             Elect(s) \/ StepDown(s) \/ LoseLease(s) \/ StartCleanup(s) \/ FinishCleanup(s)
      PROVE  FALSE
  BY <1>0, <1>1, <1>4
     DEF Elect, StepDown, LoseLease, StartCleanup, ReadShardStats, FinishCleanup,
         DeleteShardStats, RecordShardStatisticsBatch
<1>5. CASE (\E d \in Executor : Heartbeat(d) \/ Store(HeartbeatExpires(d))) \/ Operator
  BY <1>0, <1>5, Zenon
    DEF Heartbeat, RecordHeartbeat, HeartbeatExpires, Operator, DrainShards,
                    UndrainShards, DrainHosts, UndrainHosts, Store
<1>6. CASE UNCHANGED vars
  BY <1>1, <1>6 DEF vars
<1> QED
  BY <1>2, <1>3, <1>4, <1>5, <1>6 DEF Next, ServiceNext, EnvironmentNext

\* A shard that has an owner keeps one through every rebalance, placement and
\* handover, in a namespace of either type, unless the leader saw it drained or
\* reported as DONE, cleans up stale executors, or the namespace is reset.
THEOREM NoShardIsDropped == Spec => NoOwnershipGap
<1>1. LockInv /\ [Next]_vars =>
        [ForceReset \/ \A k \in AllOwned \ AllOwned' : MeantLoss(k)]_vars
  BY LossIsMeant
<1> QED
  BY <1>1, LockInvInit, LockInvNext, PTL DEF Spec, NoOwnershipGap, MeantLoss

-----------------------------------------------------------------------------
(* The assigner and the owners it knows. *)

\* The shards that a batch adds were unowned in every record it compares.
LEMMA PlacementIsNew ==
  ASSUME LockInv, NEW a \in Server, NEW r \in NextRevision, AssignBatch(a, r),
         NEW d \in Executor, NEW e \in Executor, view[a].modRevision[d] # 0
  PROVE  assigned[d] \cap (assigned'[e] \ assigned[e]) = {}
<1> DEFINE K == ToPlace(view[a], batch[a])
<1>1. PICK pl \in Placements(view[a], K) :
         \E ok \in BOOLEAN :
           AssignShards(TRUE, view[a], Compared(view[a], pl), {},
                        MergePlacements(view[a], pl), r, ok)
  BY Zenon DEF AssignBatch
<1>2. CASE UNCHANGED storeVars
  BY <1>2, Zenon DEF storeVars, assignmentKeys
<1>3. CASE /\ Unmodified(view[a], Compared(view[a], pl) \cup {})
           /\ CommitAssignments({}, MergePlacements(view[a], pl), r)
  <2>1. view[a].assigned[d] = assigned[d]
    BY <1>3, Zenon DEF Unmodified, Compared, LockInv, RevisionInv, Consistent
  <2>2. CASE e \in DOMAIN MergePlacements(view[a], pl)
    <3>1. view[a].modRevision[e] = modRevision[e]
      BY <1>3, <2>2, Zenon DEF MergePlacements, Compared, Unmodified
    <3>2. view[a].assigned[e] = assigned[e]
      BY <3>1, Zenon DEF LockInv, RevisionInv, Consistent
    <3>3. assigned'[e] \ assigned[e] \subseteq K
      BY <1>3, <2>2, <3>2, Zenon DEF CommitAssignments, MergePlacements, Placements
    <3> QED
      BY <2>1, <3>3, Zenon DEF ToPlace
  <2>3. CASE e \notin DOMAIN MergePlacements(view[a], pl)
    BY <1>3, <2>3, Zenon DEF CommitAssignments
  <2> QED
    BY <2>2, <2>3, Zenon
<1> QED
  BY <1>1, <1>2, <1>3, Zenon DEF AssignShards

-----------------------------------------------------------------------------
(* One rebalance is enough. *)

\* The steps of a processor that move its rebalancing loop.
LEMMA LoopMoves ==
  ASSUME TypeOK, NEW t \in Session,
         ProcessorStep(t) \/ ProcessorFault(t) \/ StartCleanup(t) \/ FinishCleanup(t)
  PROVE  \/ UNCHANGED pc
         \/ \E x : pc' = [pc EXCEPT ![t] = x]
<1>0. ASSUME NEW failed \in BOOLEAN, Finish(t, failed) PROVE \E x : pc' = [pc EXCEPT ![t] = x]
  BY <1>0, Zenon DEF Finish
<1>1. CASE ReadState(t)
  BY <1>1, Zenon DEF ReadState
<1>2. CASE NoActiveExecutors(t)
  BY <1>0, <1>2, Zenon DEF NoActiveExecutors
<1>3. CASE SkipRebalance(t)
  BY <1>0, <1>3, Zenon DEF SkipRebalance
<1>4. CASE \E B \in SUBSET Executor : DeleteStaleExecutors(t, B)
  BY <1>0, <1>4, Zenon DEF DeleteStaleExecutors
<1>5. CASE \E r \in NextRevision : Rebalance(t, r)
  BY <1>0, <1>5, Zenon DEF Rebalance, RecordOrFinish
<1>6. CASE \E e \in Executor, failed \in BOOLEAN : RecordStatistics(t, e, failed)
  BY <1>0, <1>6, Zenon DEF RecordStatistics
<1>7. CASE RebalanceFails(t)
  BY <1>0, <1>7, Zenon DEF RebalanceFails
<1>8. CASE WatchCloses(t) \/ CleanupFails(t)
  BY <1>8, Zenon DEF WatchCloses, CleanupFails
<1>9. CASE StartCleanup(t) \/ FinishCleanup(t)
  BY <1>9, Zenon DEF StartCleanup, ReadShardStats, FinishCleanup, DeleteShardStats
<1> QED
  BY <1>1, <1>2, <1>3, <1>4, <1>5, <1>6, <1>7, <1>8, <1>9, Zenon
    DEF ProcessorStep, ProcessorFault

\* A rebalance that ends without an error found no executor to assign to and none to
\* clean up, or a plan that it skipped or wrote.
LEMMA RebalanceEnds ==
  ASSUME TypeOK, [Next]_vars, NEW s \in Session, pc[s] = "planning",
         pc'[s] \in {"waiting", "recording"}, watch[s] # "starting"
  PROVE  \/ NoActiveExecutors(s) /\ snap[s].stale = {}
         \/ SkipRebalance(s)
         \/ \E r \in NextRevision : Rebalance(s, r)
<1> DEFINE Loop(t) == ProcessorStep(t) \/ ProcessorFault(t) \/ StartCleanup(t) \/ FinishCleanup(t)
<1>0. pc \in [Session -> {"off", "waiting", "reading", "planning", "deleting", "recording"}]
  BY DEF TypeOK, ProcessorTypeOK
<1>1. ASSUME NEW t \in Session, NEW x, pc' = [pc EXCEPT ![t] = x]
      PROVE  t = s /\ x \in {"waiting", "recording"}
  BY <1>0, <1>1
<1>2. ~UNCHANGED pc
  OBVIOUS
<1>3. ~UNCHANGED processorVars
  BY <1>2 DEF processorVars
<1>4. ASSUME NEW t \in Session PROVE ~(Elect(t) \/ StepDown(t) \/ LoseLease(t))
  BY <1>1, <1>3, Zenon DEF Elect, StepDown, LoseLease, Run, Terminate
<1>5. \E t \in Session : Loop(t)
  BY <1>3, <1>4, Zenon
    DEF Next, ServiceNext, EnvironmentNext, Request, AssignerStep, AssignerFault,
                    Heartbeat, Operator, Store, ForceReset, vars
<1>6. PICK t \in Session : Loop(t)
  BY <1>5
<1>7. t = s
  BY <1>1, <1>2, <1>6, LoopMoves, Zenon
<1>8. ASSUME Finish(s, TRUE) PROVE FALSE
  <2> DEFINE x == IF TRUE /\ watch[s] # "starting" THEN "reading" ELSE "waiting"
  <2>1. pc' = [pc EXCEPT ![s] = x]
    BY <1>8, Zenon DEF Finish
  <2>2. x = "reading"
    OBVIOUS
  <2> QED
    BY <1>1, <2>1, <2>2
<1>9. CASE NoActiveExecutors(s)
  BY <1>1, <1>9, Zenon DEF NoActiveExecutors
<1> QED
  BY <1>2, <1>6, <1>7, <1>8, <1>9, Zenon
     DEF ProcessorStep, ProcessorFault, StartCleanup, FinishCleanup, ReadState,
         DeleteStaleExecutors, RecordStatistics, RebalanceFails, WatchCloses, CleanupFails,
         ReadShardStats, DeleteShardStats

\* The plan is in place: it is the assignment of the executors that it knows, no other
\* executor is left with a shard, and none is stale.
Installed(sn, own) ==
  /\ \A e \in Assignable(sn) : assigned'[e] = ShardsOf(own, e)
  /\ \A e \in Executor \ Assignable(sn) : assigned'[e] = {}
  /\ \A e \in Executor : Present(e)' => fresh'[e]
  /\ \A e \in Executor : IsActive(e)' <=> e \in Assignable(sn)
  /\ UNCHANGED drainedShards

\* The owned shards.
LEMMA OwnedIs ==
  ASSUME NEW st, NEW E
  PROVE  \A k : k \in Owned(st, E) <=> \E e \in E : k \in st.assigned[e]
  BY Zenon DEF Owned

LEMMA AllOwnedIs ==
  /\ \A k : k \in AllOwned <=> \E e \in Executor : k \in assigned[e]
  /\ \A k : k \in AllOwned' <=> \E e \in Executor : k \in assigned'[e]
  BY Zenon DEF AllOwned

\* The executors that may be given a shard, when none is stale.
LEMMA NoneStaleNext ==
  ASSUME NEW sn, \A e \in Executor : Present(e)' => fresh'[e],
         Assignable(sn) \subseteq Executor,
         \A e \in Executor : IsActive(e)' <=> e \in Assignable(sn)
  PROVE  Assignable(GetState') = Assignable(sn) /\ GetState'.stale = {}
<1>1. GetState'.stale = {}
  BY DEF GetState, IsStale
<1>2. GetState'.active = {e \in Executor : IsActive(e)'}
  BY DEF GetState
<1>3. {e \in Executor : IsActive(e)'} = Assignable(sn)
  OBVIOUS
<1> QED
  BY <1>1, <1>2, <1>3 DEF Assignable

LEMMA InstalledSettles ==
  ASSUME NEW sn \in NamespaceState, sn.drained = drainedShards,
         NEW own \in [Available(sn) -> Assignable(sn)], Installed(sn, own)
  PROVE  Settled' /\ SingleOwner'
<1> DEFINE A == Assignable(sn)
<1>0. A \subseteq Executor
  BY DEF Assignable, NamespaceState
<1>1. Assignable(GetState') = A /\ GetState'.stale = {}
  BY <1>0, NoneStaleNext, Zenon DEF Installed
<1>2. \A k, e : k \in ShardsOf(own, e) <=> k \in Available(sn) /\ own[k] = e
  BY DEF ShardsOf
<1>3. ASSUME NEW k \in Available(sn) PROVE own[k] \in A /\ k \in assigned'[own[k]]
  <2>1. own[k] \in A
    BY <1>3
  <2>2. assigned'[own[k]] = ShardsOf(own, own[k])
    BY <2>1, Zenon DEF Installed
  <2>3. k \in ShardsOf(own, own[k])
    BY <1>3 DEF ShardsOf
  <2> QED
    BY <2>1, <2>2, <2>3, Zenon
<1>4. ASSUME NEW e \in Executor, NEW k \in assigned'[e]
      PROVE  e \in A /\ k \in Available(sn) /\ own[k] = e
  <2>1. e \notin A => assigned'[e] = {}
    BY Zenon DEF Installed
  <2>2. e \in A => assigned'[e] = ShardsOf(own, e)
    BY Zenon DEF Installed
  <2> QED
    BY <1>2, <1>4, <2>1, <2>2, Zenon
<1>5. \A k : k \in AllOwned' <=> k \in Available(sn)
  BY <1>0, <1>3, <1>4, AllOwnedIs, Zenon
<1>6. GetState'.assigned = assigned'
  BY Zenon DEF GetState
<1>7. \A k : k \in Owned(GetState', A) <=> k \in Available(sn)
  <2>1. \A k : k \in Owned(GetState', A) <=> \E e \in A : k \in assigned'[e]
    BY <1>6, OwnedIs, Zenon
  <2> QED
    BY <1>0, <1>3, <1>4, <2>1, Zenon
<1>8. ExecutorsToUnassign(GetState') = {}
  <2>1. \A e \in Executor : e \notin A => GetState'.assigned[e] = {}
    BY <1>6, Zenon DEF Installed
  <2> QED
    BY <1>1, <2>1, Zenon DEF ExecutorsToUnassign
<1>9. /\ Available(sn) \cap drainedShards' = {}
      /\ NamespaceType = "fixed" => Shard \ drainedShards' \subseteq Available(sn)
  BY Zenon DEF Available, Installed
<1>10. SingleOwner'
  BY <1>4 DEF SingleOwner
<1>11. Settled'
  <2>1. AllOwned' = Available(sn) /\ Owned(GetState', A) = Available(sn)
    BY <1>5, <1>7
  <2> QED
    BY <1>1, <1>8, <1>9, <2>1, Zenon DEF Settled, Installed
<1> QED
  BY <1>10, <1>11

\* What the leader reads of a namespace that it is about to write.
LEMMA CurrentSnapshot ==
  ASSUME LockInv, NEW sn, sn = GetState
  PROVE  /\ sn \in NamespaceState /\ sn.drained = drainedShards
         /\ sn.assigned = assigned /\ sn.modRevision = modRevision
         /\ \A e \in Executor : e \in sn.active <=> IsActive(e)
         /\ \A e \in Executor : e \in sn.stale <=> Present(e) /\ ~fresh[e]
         /\ Assignable(sn) \subseteq Executor /\ sn.stale \subseteq Executor
<1>1. sn \in NamespaceState
  BY GetStateType DEF LockInv, TypeOK
<1> QED
  BY <1>1, Zenon DEF GetState, IsStale, Assignable, NamespaceState

\* An executor that the plan neither serves nor empties nor deletes holds nothing.
LEMMA LeftOut ==
  ASSUME NEW sn, NEW e \in Executor, e \notin Assignable(sn), e \notin sn.stale,
         e \notin ExecutorsToUnassign(sn)
  PROVE  sn.assigned[e] = {}
  BY DEF ExecutorsToUnassign

\* The transaction of a leader whose snapshot is current puts its plan in place.
LEMMA CommitInstalls ==
  ASSUME LockInv, NEW sn, sn = GetState, NEW order, NEW own \in Plans(sn, order), NEW r,
         CommitAssignments(sn.stale, ChangedAssignments(sn, own), r)
  PROVE  Installed(sn, own)
<1> DEFINE A == Assignable(sn)
           U == ExecutorsToUnassign(sn)
           P == ChangedAssignments(sn, own)
<1>0. /\ sn \in NamespaceState /\ sn.drained = drainedShards
      /\ sn.assigned = assigned /\ sn.modRevision = modRevision
      /\ \A e \in Executor : e \in sn.active <=> IsActive(e)
      /\ \A e \in Executor : e \in sn.stale <=> Present(e) /\ ~fresh[e]
      /\ A \subseteq Executor /\ sn.stale \subseteq Executor
  BY CurrentSnapshot, Zenon
<1>1. own \in [Available(sn) -> A]
  BY PlanType
<1>2. \A e \in Executor : e \in DOMAIN P =>
        e \in A \cup U /\ P[e] = ShardsOf(own, e)
  BY Zenon DEF ChangedAssignments, NewAssignments
<1>3. \A e \in A \cup U : e \notin DOMAIN P => e \in A /\ assigned[e] = ShardsOf(own, e)
  BY <1>0, Zenon DEF ChangedAssignments, NewAssignments
<1>4. \A e \in A \cup U : e \notin sn.stale
  BY Zenon DEF Assignable, ExecutorsToUnassign
<1>5. /\ \A e \in Executor : assigned'[e] = IF e \in DOMAIN P THEN P[e]
                                            ELSE IF e \in sn.stale THEN {} ELSE assigned[e]
      /\ \A e \in Executor : modRevision'[e] = IF e \in DOMAIN P THEN r
                                               ELSE IF e \in sn.stale THEN 0 ELSE modRevision[e]
  BY Zenon DEF CommitAssignments
<1>6. /\ \A e \in Executor : e \in sn.stale =>
           status'[e] = "NONE" /\ ~hasStats'[e]
      /\ \A e \in Executor : e \notin sn.stale =>
           status'[e] = status[e] /\ fresh'[e] = fresh[e] /\ hostname'[e] = hostname[e]
      /\ UNCHANGED <<drainedShards, drainedHosts>>
  <2>1. /\ \A e \in Executor : status'[e] = IF e \in sn.stale THEN "NONE" ELSE status[e]
        /\ \A e \in Executor : hostname'[e] = IF e \in sn.stale THEN NoHost ELSE hostname[e]
        /\ \A e \in Executor : fresh'[e] = (e \notin sn.stale /\ fresh[e])
        /\ \A e \in Executor : hasStats'[e] = (e \notin sn.stale /\ hasStats[e])
        /\ UNCHANGED <<drainedShards, drainedHosts>>
    BY Zenon DEF CommitAssignments, drainKeys
  <2>2. \A e \in Executor : fresh[e] \in BOOLEAN
    BY DEF LockInv, TypeOK, StoreTypeOK
  <2> QED
    BY <2>1, <2>2, Zenon
<1>7. \A e \in Executor : hasStats'[e] => hasStats[e]
  BY Zenon DEF CommitAssignments
<1>8. \A e \in A : assigned'[e] = ShardsOf(own, e)
  BY <1>0, <1>2, <1>3, <1>4, <1>5, Zenon
<1>9. ASSUME NEW e \in Executor, e \notin A PROVE assigned'[e] = {}
  <2>1. ShardsOf(own, e) = {}
    BY <1>1, <1>9 DEF ShardsOf
  <2>2. e \notin DOMAIN P => e \notin U
    BY <1>3, <1>9
  <2>3. e \notin DOMAIN P /\ e \notin sn.stale => assigned[e] = {}
    BY <1>0, <1>9, <2>2, LeftOut, Zenon
  <2> QED
    BY <1>2, <1>5, <2>1, <2>3, Zenon
<1>10. ASSUME NEW e \in Executor, Present(e)' PROVE fresh'[e]
  <2>1. ASSUME e \in sn.stale PROVE FALSE
    <3>1. e \notin DOMAIN P
      BY <1>2, <1>4, <2>1
    <3>2. status'[e] = "NONE" /\ ~hasStats'[e] /\ modRevision'[e] = 0
      BY <1>5, <1>6, <2>1, <3>1
    <3> QED
      BY <1>10, <3>2 DEF Present
  <2>2. ASSUME e \in DOMAIN P PROVE Present(e)
    <3>1. CASE e \in A
      BY <1>0, <3>1, Zenon DEF Assignable, Present, IsActive
    <3>2. CASE e \in U
      <4>1. assigned[e] # {}
        BY <1>0, <3>2, Zenon DEF ExecutorsToUnassign
      <4> QED
        BY <4>1 DEF LockInv, RevisionInv, Present
    <3> QED
      BY <1>2, <2>2, <3>1, <3>2
  <2>3. ASSUME e \notin DOMAIN P PROVE Present(e)
    <3>1. status'[e] = status[e] /\ modRevision'[e] = modRevision[e]
      BY <1>5, <1>6, <2>1, <2>3
    <3> QED
      BY <1>7, <1>10, <3>1 DEF Present
  <2>4. fresh[e]
    BY <1>0, <2>1, <2>2, <2>3, Zenon
  <2> QED
    BY <1>6, <2>1, <2>4, Zenon
<1>11. ASSUME NEW e \in Executor PROVE IsActive(e)' <=> e \in A
  <2>1. CASE e \in sn.stale
    BY <1>6, <2>1, Zenon DEF IsActive, Assignable
  <2>2. CASE e \notin sn.stale
    BY <1>0, <1>6, <2>2, Zenon DEF IsActive, Assignable
  <2> QED
    BY <2>1, <2>2, Zenon
<1> QED
  BY <1>6, <1>8, <1>9, <1>10, <1>11, Zenon DEF Installed

\* A request without operations: the plan was in place already.
LEMMA NothingToInstall ==
  ASSUME LockInv, NEW sn, sn = GetState, NEW order, NEW own \in Plans(sn, order),
         sn.stale = {}, DOMAIN ChangedAssignments(sn, own) = {}, UNCHANGED storeVars
  PROVE  Installed(sn, own)
<1>0. /\ sn.assigned = assigned /\ Assignable(sn) \subseteq Executor
      /\ \A e \in Executor : e \in sn.active <=> IsActive(e)
      /\ \A e \in Executor : e \in sn.stale <=> Present(e) /\ ~fresh[e]
  BY CurrentSnapshot, Zenon
<1>1. UNCHANGED <<status, fresh, hostname, hasStats, assigned, modRevision, drainedShards,
                  drainedHosts>>
  BY Zenon DEF storeVars, heartbeatKeys, assignmentKeys, drainKeys
<1>2. \A e \in Assignable(sn) \cup ExecutorsToUnassign(sn) :
        e \notin ExecutorsToUnassign(sn) /\ sn.assigned[e] = ShardsOf(own, e)
  BY DEF ChangedAssignments, NewAssignments
<1>3. \A e \in Executor \ Assignable(sn) : assigned[e] = {}
  BY <1>0, <1>2, LeftOut, Zenon
<1>4. \A e \in Executor : Present(e)' => fresh'[e]
  BY <1>0, <1>1, Zenon DEF Present
<1>5. \A e \in Executor : IsActive(e)' <=> e \in Assignable(sn)
  BY <1>0, <1>1, Zenon DEF IsActive, Assignable
<1> QED
  BY <1>0, <1>1, <1>2, <1>3, <1>4, <1>5, Zenon DEF Installed

\* The store reads the same when nothing was written.
LEMMA ReadsTheSame ==
  ASSUME UNCHANGED storeVars
  PROVE  GetState' = GetState
<1>1. UNCHANGED <<status, fresh, reportedDone, hostname, hasStats, assigned, modRevision,
                  drainedShards, drainedHosts>>
  BY DEF storeVars, heartbeatKeys, assignmentKeys, drainKeys
<1> QED
  BY <1>1, Zenon DEF GetState, IsActive, IsStale, Present

\* No executor is stale and there is none to assign to.
LEMMA NothingToAssign ==
  ASSUME LockInv, NEW sn, sn = GetState, Assignable(sn) = {}, sn.stale = {},
         UNCHANGED storeVars
  PROVE  Settled'
<1>1. GetState' = sn
  BY ReadsTheSame
<1>2. \A e \in Executor : Present(e) => fresh[e]
  BY CurrentSnapshot
<1>3. \A e \in Executor : Present(e)' => fresh'[e]
  BY <1>2 DEF Present, storeVars, heartbeatKeys, assignmentKeys
<1> QED
  BY <1>1, <1>3 DEF Settled

\* A plan that distributionChanged finds in place.
LEMMA SkipSettles ==
  ASSUME LockInv, NEW sn, sn = GetState, NEW order, NEW own \in Plans(sn, order),
         ~DistributionChanged(sn, order, own), UNCHANGED storeVars
  PROVE  Settled'
<1> DEFINE A == Assignable(sn)
<1>0. /\ sn.assigned = assigned /\ A \subseteq Executor /\ sn.drained = drainedShards
      /\ \A e \in Executor : e \in sn.stale <=> Present(e) /\ ~fresh[e]
  BY CurrentSnapshot, Zenon
<1>1. /\ sn.stale = {} /\ DrainedAssigned(sn) = {} /\ ExecutorsToUnassign(sn) = {}
      /\ own = CurrentAssignments(sn, order)
  BY DEF DistributionChanged
<1>2. GetState' = sn
  BY ReadsTheSame
<1>3. \A e \in Executor \ A : assigned[e] = {}
  BY <1>0, <1>1, LeftOut, Zenon
<1>4. assigned' = assigned /\ drainedShards' = drainedShards
  BY DEF storeVars, assignmentKeys, drainKeys
<1>a. /\ \A k : k \in AllOwned' <=> \E e \in Executor : k \in assigned[e]
      /\ \A k : k \in Owned(sn, A) <=> \E e \in A : k \in assigned[e]
      /\ \A k : k \in Owned(sn, Executor) <=> \E e \in Executor : k \in assigned[e]
  BY <1>0, <1>4, AllOwnedIs, OwnedIs, Zenon
<1>b. \A k : k \in Owned(sn, A) <=> k \in Owned(sn, Executor)
  BY <1>0, <1>3, <1>a, Zenon
<1>5. AllOwned' = Owned(sn, A)
  BY <1>a, <1>b
<1>6. Owned(sn, Executor) = Owned(sn, A)
  BY <1>b
<1>7. AllOwned' \cap drainedShards' = {}
  BY <1>0, <1>1, <1>4, <1>5, Zenon DEF DrainedAssigned
<1>8. NamespaceType = "fixed" => Shard \ drainedShards' \subseteq AllOwned'
  <2>1. Available(sn) = DOMAIN own
    BY PlanType
  <2>2. DOMAIN own \subseteq Owned(sn, Executor)
    BY <1>1 DEF CurrentAssignments
  <2>3. NamespaceType = "fixed" => Available(sn) = Shard \ drainedShards
    BY <1>0, Zenon DEF Available
  <2> QED
    BY <1>4, <1>5, <1>6, <2>1, <2>2, <2>3
<1>9. \A e \in Executor : Present(e)' => fresh'[e]
  BY <1>0, <1>1 DEF Present, storeVars, heartbeatKeys, assignmentKeys
<1> QED
  BY <1>1, <1>2, <1>5, <1>7, <1>8, <1>9, Zenon DEF Settled

\* A plan that the leader wrote, or that needed no write.
LEMMA WriteSettles ==
  ASSUME LockInv, NEW s \in Session, NEW r \in NextRevision, Rebalance(s, r),
         snap[s] = GetState, pc'[s] \in {"waiting", "recording"}, watch[s] # "starting"
  PROVE  Settled' /\ SingleOwner'
<1>0. pc'[s] # "reading"
  OBVIOUS
<1>1. ~Finish(s, TRUE)
  BY <1>0 DEF Finish, LockInv, TypeOK, ProcessorTypeOK
<1>2. \E order \in MapOrder : \E own \in Plans(snap[s], order) : AssignPlan(s, own, r, TRUE)
  BY <1>1, Zenon DEF Rebalance
<1>3. PICK order \in MapOrder : \E own \in Plans(snap[s], order) : AssignPlan(s, own, r, TRUE)
  BY <1>2, Zenon
<1>4. PICK own \in Plans(snap[s], order) : AssignPlan(s, own, r, TRUE)
  BY <1>3, Zenon
<1> DEFINE P == ChangedAssignments(snap[s], own)
<1>5. \/ snap[s].stale = {} /\ DOMAIN P = {} /\ UNCHANGED storeVars
      \/ CommitAssignments(snap[s].stale, P, r)
  BY <1>4, Zenon DEF AssignPlan, AssignShards
<1>6. Installed(snap[s], own)
  BY <1>5, CommitInstalls, NothingToInstall, Zenon
<1>7. snap[s] \in NamespaceState /\ snap[s].drained = drainedShards
  BY CurrentSnapshot, Zenon
<1>8. own \in [Available(snap[s]) -> Assignable(snap[s])]
  BY PlanType, Zenon
<1> QED
  BY <1>6, <1>7, <1>8, InstalledSettles, Zenon

\* One rebalance is enough, in a namespace of either type and in both modes: when
\* rebalanceShards ends without an error and nothing was written since it read the
\* state, no stale executor is left, drained shards have no owner, in a fixed namespace
\* the others all have one, and a plan that was written leaves none with two.
THEOREM OneRebalanceIsEnough == Spec => RebalanceSettles
<1> DEFINE Ends(s) == /\ pc[s] = "planning" /\ pc'[s] \in {"waiting", "recording"}
                      /\ watch[s] # "starting" /\ snap[s] = GetState
<1>1. ASSUME LockInv, [Next]_vars, NEW s \in Session, Ends(s)
      PROVE  Settled' /\ (assigned' # assigned => SingleOwner')
  <2>0. TypeOK
    BY <1>1, Zenon DEF LockInv
  <2>1. CASE NoActiveExecutors(s) /\ snap[s].stale = {}
    <3>1. Assignable(snap[s]) = {} /\ UNCHANGED storeVars
      BY <2>1 DEF NoActiveExecutors
    <3>2. assigned' = assigned
      BY <3>1 DEF storeVars, assignmentKeys
    <3> QED
      BY <1>1, <2>1, <3>1, <3>2, NothingToAssign, Zenon
  <2>2. CASE SkipRebalance(s)
    <3>1. UNCHANGED storeVars
      BY <2>2 DEF SkipRebalance
    <3>2. PICK order \in MapOrder : \E own \in Plans(snap[s], order) :
                 ~DistributionChanged(snap[s], order, own)
      BY <2>2, Zenon DEF SkipRebalance
    <3>3. Settled'
      BY <1>1, <3>1, <3>2, SkipSettles
    <3>4. assigned' = assigned
      BY <3>1 DEF storeVars, assignmentKeys
    <3> QED
      BY <3>3, <3>4
  <2>3. CASE \E r \in NextRevision : Rebalance(s, r)
    BY <1>1, <2>3, WriteSettles, Zenon
  <2> QED
    BY <1>1, <2>0, <2>1, <2>2, <2>3, RebalanceEnds, Zenon
<1>2. LockInv /\ [Next]_vars =>
        [\A s \in Session : Ends(s) => Settled' /\ (assigned' # assigned => SingleOwner')]_vars
  BY <1>1, Zenon
<1> QED
  BY <1>2, LockInvInit, LockInvNext, PTL DEF Spec, RebalanceSettles

-----------------------------------------------------------------------------
(* How a shard gets a second owner. *)

\* What a batch adds to a record are shards that it was to place, each in one place.
LEMMA PlacementAdds ==
  ASSUME LockInv, NEW a \in Server, NEW r \in NextRevision, AssignBatch(a, r)
  PROVE  \E pl \in Placements(view[a], ToPlace(view[a], batch[a])) :
           \A e \in Executor : \A k \in assigned'[e] \ assigned[e] :
             k \in ToPlace(view[a], batch[a]) /\ pl[k] = e
<1> DEFINE K == ToPlace(view[a], batch[a])
<1>1. PICK pl \in Placements(view[a], K) :
         \E ok \in BOOLEAN :
           AssignShards(TRUE, view[a], Compared(view[a], pl), {},
                        MergePlacements(view[a], pl), r, ok)
  BY Zenon DEF AssignBatch
<1> SUFFICES ASSUME NEW e \in Executor, NEW k \in assigned'[e], k \notin assigned[e]
             PROVE  k \in K /\ pl[k] = e
  BY <1>1, Zenon
<1>2. CASE UNCHANGED storeVars
  BY <1>2, Zenon DEF storeVars, assignmentKeys
<1>3. CASE /\ Unmodified(view[a], Compared(view[a], pl) \cup {})
           /\ CommitAssignments({}, MergePlacements(view[a], pl), r)
  <2>1. e \in DOMAIN MergePlacements(view[a], pl)
    BY <1>3, Zenon DEF CommitAssignments
  <2>2. view[a].modRevision[e] = modRevision[e]
    BY <1>3, <2>1, Zenon DEF MergePlacements, Compared, Unmodified
  <2>3. view[a].assigned[e] = assigned[e]
    BY <2>2, Zenon DEF LockInv, RevisionInv, Consistent
  <2> QED
    BY <1>3, <2>1, <2>3, Zenon DEF CommitAssignments, MergePlacements, Placements
<1> QED
  BY <1>1, <1>2, <1>3, Zenon DEF AssignShards

\* A batch that adds a shard drops the state that it had read.
LEMMA PlacementEndsView ==
  ASSUME LockInv, NEW a \in Server, NEW r \in NextRevision, AssignBatch(a, r),
         ToPlace(view[a], batch[a]) # {}
  PROVE  phase[a] = "placing" /\ phase'[a] # "placing" /\ view'[a] # view[a]
<1>1. phase[a] = "placing" /\ phase'[a] # "placing" /\ view'[a] = NoState
  BY Zenon DEF AssignBatch, EndBatch, LockInv, TypeOK, AssignerTypeOK
<1>2. view[a].active # {}
  BY Zenon DEF AssignBatch, Placements
<1>3. NoState.active = {}
  BY Zenon DEF NoState
<1> QED
  BY <1>1, <1>2, <1>3, Zenon

\* Two owners after a placement that were not both owners before.
LEMMA PlacementClash ==
  ASSUME LockInv, NEW a \in Server, NEW r \in NextRevision, AssignBatch(a, r),
         NEW k \in DoublyOwned', k \notin DoublyOwned
  PROVE  /\ k \in ToPlace(view[a], batch[a])
         /\ \E d \in Executor : k \in assigned[d] /\ view[a].modRevision[d] = 0
<1> DEFINE K == ToPlace(view[a], batch[a])
<1>1. k \in Shard /\ \E d, e \in Executor : d # e /\ k \in assigned'[d] /\ k \in assigned'[e]
  BY Zenon DEF DoublyOwned
<1>2. \A d, e \in Executor : d # e => k \notin assigned[d] \/ k \notin assigned[e]
  BY <1>1 DEF DoublyOwned
<1>3. PICK pl : \A e \in Executor : \A j \in assigned'[e] \ assigned[e] : j \in K /\ pl[j] = e
  BY PlacementAdds, Zenon
<1>4. PICK d \in Executor, e \in Executor :
         d # e /\ k \in assigned'[d] /\ k \in assigned'[e] /\ k \notin assigned[e]
  BY <1>1, <1>2
<1>5. k \in K /\ pl[k] = e
  BY <1>3, <1>4
<1>6. k \in assigned[d]
  BY <1>3, <1>4, <1>5
<1>7. view[a].modRevision[d] = 0
  BY <1>4, <1>6, PlacementIsNew, Zenon
<1> QED
  BY <1>5, <1>6, <1>7, Zenon

\* A rebalance that changes an assignment has committed its plan.
LEMMA RebalanceCommits ==
  ASSUME LockInv, NEW s \in Session, NEW r \in NextRevision, Rebalance(s, r),
         assigned' # assigned
  PROVE  \E order \in MapOrder : \E own \in Plans(snap[s], order) :
           /\ Unmodified(snap[s], DOMAIN NewAssignments(snap[s], own) \cup snap[s].stale)
           /\ CommitAssignments(snap[s].stale, ChangedAssignments(snap[s], own), r)
<1>1. PICK order \in MapOrder : \E own \in Plans(snap[s], order) :
         AssignPlan(s, own, r, TRUE) \/ AssignPlan(s, own, r, FALSE)
  BY Zenon DEF Rebalance
<1>2. PICK own \in Plans(snap[s], order) :
         AssignPlan(s, own, r, TRUE) \/ AssignPlan(s, own, r, FALSE)
  BY <1>1, Zenon
<1>3. ~UNCHANGED storeVars
  BY DEF storeVars, assignmentKeys
<1> QED
  BY <1>2, <1>3, Zenon DEF AssignPlan, AssignShards

\* The leader of an ephemeral namespace plans with shards that it saw owned, and if its
\* transaction is applied they are still with the owners that it saw.
LEMMA PlannedWasOwned ==
  ASSUME LockInv, NamespaceType = "ephemeral", NEW s \in Session, NEW own,
         Unmodified(snap[s], DOMAIN NewAssignments(snap[s], own) \cup snap[s].stale),
         NEW k \in Available(snap[s])
  PROVE  \E z \in Executor :
           /\ k \in snap[s].assigned[z] /\ k \in assigned[z]
           /\ z \in DOMAIN NewAssignments(snap[s], own) \cup snap[s].stale
<1>1. k \in Owned(snap[s], Executor)
  BY Zenon DEF Available
<1>2. PICK z \in Executor : k \in snap[s].assigned[z]
  BY <1>1, Zenon DEF Owned
<1>3. z \in DOMAIN NewAssignments(snap[s], own) \cup snap[s].stale
  BY <1>2, Zenon DEF NewAssignments, ExecutorsToUnassign
<1>4. snap[s].modRevision[z] = modRevision[z]
  BY <1>3 DEF Unmodified
<1>5. snap[s].assigned[z] = assigned[z]
  BY <1>4, Zenon DEF LockInv, RevisionInv, Consistent
<1> QED
  BY <1>2, <1>3, <1>5, Zenon

\* So a rebalance of an ephemeral namespace gives no shard its first or second owner.
LEMMA RebalanceClash ==
  ASSUME LockInv, NamespaceType = "ephemeral", NEW s \in Session, NEW r \in NextRevision,
         Rebalance(s, r)
  PROVE  AllOwned' \subseteq AllOwned /\ DoublyOwned' \subseteq DoublyOwned
<1>1. CASE assigned' = assigned
  BY <1>1 DEF AllOwned, DoublyOwned
<1>2. CASE assigned' # assigned
  <2>1. PICK order \in MapOrder : \E own \in Plans(snap[s], order) :
           /\ Unmodified(snap[s], DOMAIN NewAssignments(snap[s], own) \cup snap[s].stale)
           /\ CommitAssignments(snap[s].stale, ChangedAssignments(snap[s], own), r)
    BY <1>2, RebalanceCommits, Zenon
  <2>2. PICK own \in Plans(snap[s], order) :
           /\ Unmodified(snap[s], DOMAIN NewAssignments(snap[s], own) \cup snap[s].stale)
           /\ CommitAssignments(snap[s].stale, ChangedAssignments(snap[s], own), r)
    BY <2>1, Zenon
  <2> DEFINE P == ChangedAssignments(snap[s], own)
             C == DOMAIN NewAssignments(snap[s], own)
  <2>3. own \in [Available(snap[s]) -> Assignable(snap[s])]
    BY PlanType
  <2>4. ASSUME NEW e \in Executor, NEW k \in assigned'[e]
        PROVE  \/ e \in DOMAIN P /\ k \in Available(snap[s]) /\ own[k] = e
               \/ e \notin DOMAIN P /\ e \notin snap[s].stale /\ k \in assigned[e]
    <3>1. e \in DOMAIN P => P[e] = ShardsOf(own, e)
      BY Zenon DEF ChangedAssignments
    <3>2. assigned'[e] = IF e \in DOMAIN P THEN P[e]
                         ELSE IF e \in snap[s].stale THEN {} ELSE assigned[e]
      BY <2>2, Zenon DEF CommitAssignments
    <3> QED
      BY <2>3, <2>4, <3>1, <3>2, Zenon DEF ShardsOf
  <2>5. ASSUME NEW k \in Available(snap[s])
        PROVE  \E z \in Executor :
                 k \in snap[s].assigned[z] /\ k \in assigned[z] /\ z \in C \cup snap[s].stale
    BY <2>2, <2>5, PlannedWasOwned, Zenon
  <2>6. ASSUME NEW k \in AllOwned' PROVE k \in AllOwned
    <3>1. PICK e \in Executor : k \in assigned'[e]
      BY <2>6 DEF AllOwned
    <3> QED
      BY <2>4, <2>5, <3>1, Zenon DEF AllOwned
  <2>7. ASSUME NEW k \in DoublyOwned' PROVE k \in DoublyOwned
    <3>1. k \in Shard /\ \E d, e \in Executor : d # e /\ k \in assigned'[d] /\ k \in assigned'[e]
      BY <2>7, Zenon DEF DoublyOwned
    <3>2. PICK d \in Executor, e \in Executor :
             d # e /\ k \in assigned'[d] /\ k \in assigned'[e]
      BY <3>1
    <3>3. ASSUME NEW x \in Executor, NEW y \in Executor, x # y,
                 x \in DOMAIN P, k \in Available(snap[s]), own[k] = x,
                 y \notin DOMAIN P, y \notin snap[s].stale, k \in assigned[y]
          PROVE  k \in DoublyOwned
      <4>1. PICK z \in Executor :
               k \in snap[s].assigned[z] /\ k \in assigned[z] /\ z \in C \cup snap[s].stale
        BY <2>5, <3>3, Zenon
      <4>2. CASE z = y
        <5>1. y \in C /\ snap[s].assigned[y] = ShardsOf(own, y)
          BY <3>3, <4>1, <4>2, Zenon DEF ChangedAssignments
        <5> QED
          BY <3>3, <4>1, <4>2, <5>1, Zenon DEF ShardsOf
      <4>3. CASE z # y
        BY <3>1, <3>3, <4>1, <4>3, Zenon DEF DoublyOwned
      <4> QED
        BY <4>2, <4>3
    <3>4. CASE d \in DOMAIN P /\ e \in DOMAIN P
      BY <2>4, <3>2, <3>4, Zenon
    <3>5. CASE d \notin DOMAIN P /\ e \notin DOMAIN P
      BY <2>4, <3>1, <3>2, <3>5, Zenon DEF DoublyOwned
    <3>6. CASE d \in DOMAIN P /\ e \notin DOMAIN P
      <4> HIDE DEF P
      <4> QED
        BY <2>4, <3>2, <3>3, <3>6
    <3>7. CASE d \notin DOMAIN P /\ e \in DOMAIN P
      <4> HIDE DEF P
      <4> QED
        BY <2>4, <3>2, <3>3, <3>7
    <3> QED
      BY <3>4, <3>5, <3>6, <3>7
  <2> QED
    BY <2>6, <2>7
<1> QED
  BY <1>1, <1>2

\* Every other step at most takes shards away.
LEMMA OwnersGrow ==
  ASSUME LockInv, [Next]_vars
  PROVE  \/ \A e \in Executor : assigned'[e] \subseteq assigned[e]
         \/ \E s \in Session, r \in NextRevision : Rebalance(s, r)
         \/ \E a \in Server, r \in NextRevision : AssignBatch(a, r)
<1> DEFINE Less == \A e \in Executor : assigned'[e] \subseteq assigned[e]
<1>0. UNCHANGED assignmentKeys => Less
  BY DEF assignmentKeys
<1>1. UNCHANGED storeVars => Less
  BY <1>0 DEF storeVars
<1>2. ASSUME NEW B, DeleteExecutors(B) PROVE Less
  <2>1. DOMAIN << >> = {}
    OBVIOUS
  <2> QED
    BY <1>2, <2>1, Zenon DEF DeleteExecutors, CommitAssignments
<1>3. ASSUME ForceReset PROVE Less
  BY <1>3 DEF ForceReset, ResetNamespace
<1> HIDE DEF Less
<1>4. ASSUME NEW s \in Session, ProcessorStep(s) \/ ProcessorFault(s)
      PROVE  Less \/ \E r \in NextRevision : Rebalance(s, r)
  <2>1. ASSUME NEW B, DeleteStaleExecutors(s, B) PROVE Less
    BY <1>1, <1>2, <2>1, Zenon DEF DeleteStaleExecutors
  <2>2. ASSUME NEW e \in Executor, NEW failed \in BOOLEAN, RecordStatistics(s, e, failed)
        PROVE  Less
    BY <1>0, <1>1, <2>2 DEF RecordStatistics, RecordShardStatisticsBatch
  <2> QED
    BY <1>1, <1>4, <2>1, <2>2, Zenon
       DEF ProcessorStep, ProcessorFault, ReadState, NoActiveExecutors, SkipRebalance,
           RebalanceFails, WatchCloses, CleanupFails
<1>5. ASSUME NEW a \in Server, Request(a) \/ AssignerStep(a) \/ AssignerFault(a)
      PROVE  Less \/ \E r \in NextRevision : AssignBatch(a, r)
  BY <1>1, <1>5, Zenon
     DEF Request, StartBatch, AssignerStep, ReadNamespace, AssignerFault, BatchFails
<1>6. ASSUME NEW s \in Session,
             Elect(s) \/ StepDown(s) \/ LoseLease(s) \/ StartCleanup(s) \/ FinishCleanup(s)
      PROVE  Less
  BY <1>0, <1>1, <1>6, Zenon
     DEF Elect, StepDown, LoseLease, StartCleanup, ReadShardStats, FinishCleanup,
         DeleteShardStats, RecordShardStatisticsBatch
<1>7. ASSUME (\E d \in Executor : Heartbeat(d) \/ Store(HeartbeatExpires(d))) \/ Operator
      PROVE  Less
  <2>1. UNCHANGED assignmentKeys
    BY <1>7, Zenon DEF Heartbeat, RecordHeartbeat, HeartbeatExpires, Operator, DrainShards,
                UndrainShards, DrainHosts, UndrainHosts, Store
  <2> QED
    BY <1>0, <2>1
<1>8. ASSUME UNCHANGED vars PROVE Less
  BY <1>1, <1>8 DEF vars
<1>9. \/ Less
      \/ \E s \in Session, r \in NextRevision : Rebalance(s, r)
      \/ \E a \in Server, r \in NextRevision : AssignBatch(a, r)
  BY <1>3, <1>4, <1>5, <1>6, <1>7, <1>8, Zenon DEF Next, ServiceNext, EnvironmentNext
<1> QED
  BY <1>9 DEF Less

\* The second owner of shard k comes from a placement that did not read the first: the
\* body of OnlyUnreadOwnersClash.
UnreadOwner(k) ==
  \E a \in Server :
    /\ phase[a] = "placing" /\ view'[a] # view[a]
    /\ k \in ToPlace(view[a], batch[a])
    /\ \E d \in Executor : k \in assigned[d] /\ view[a].modRevision[d] = 0

LEMMA ClashIsUnread ==
  ASSUME LockInv, NamespaceType = "ephemeral", [Next]_vars,
         NEW k \in DoublyOwned', k \notin DoublyOwned
  PROVE  UnreadOwner(k)
<1>1. CASE \A e \in Executor : assigned'[e] \subseteq assigned[e]
  BY <1>1 DEF DoublyOwned
<1>2. ASSUME NEW s \in Session, NEW r \in NextRevision, Rebalance(s, r) PROVE FALSE
  BY <1>2, RebalanceClash
<1>3. ASSUME NEW a \in Server, NEW r \in NextRevision, AssignBatch(a, r) PROVE UnreadOwner(k)
  <2>1. /\ k \in ToPlace(view[a], batch[a])
        /\ \E d \in Executor : k \in assigned[d] /\ view[a].modRevision[d] = 0
    BY <1>3, PlacementClash
  <2>2. phase[a] = "placing" /\ view'[a] # view[a]
    BY <1>3, <2>1, PlacementEndsView, Zenon
  <2> QED
    BY <2>1, <2>2 DEF UnreadOwner
<1> QED
  BY <1>1, <1>2, <1>3, OwnersGrow

-----------------------------------------------------------------------------
(* A single server. *)

\* A batch that is about to write has just read the namespace, or has not moved.
LEMMA AboutToPlace ==
  ASSUME TypeOK, [Next]_vars, NEW a \in Server, phase'[a] = "placing"
  PROVE  \/ phase[a] = "placing" /\ view'[a] = view[a] /\ batch'[a] = batch[a]
         \/ UNCHANGED storeVars /\ view'[a] = GetState
<1> DEFINE Kept == phase[a] = "placing" /\ view'[a] = view[a] /\ batch'[a] = batch[a]
           Read == UNCHANGED storeVars /\ view'[a] = GetState
<1>0. /\ phase \in [Server -> {"idle", "reading", "placing"}]
      /\ view \in [Server -> NamespaceState] /\ batch \in [Server -> SUBSET Shard]
  BY DEF TypeOK, AssignerTypeOK
<1>1. ASSUME UNCHANGED assignerVars PROVE Kept
  BY <1>1 DEF assignerVars
<1>2. ASSUME NEW b \in Server, EndBatch(b) PROVE Kept
  BY <1>0, <1>2 DEF EndBatch
<1>3. ASSUME NEW b \in Server, Request(b) PROVE Kept
  BY <1>0, <1>3 DEF Request, StartBatch
<1>4. ASSUME NEW b \in Server, ReadNamespace(b) PROVE Kept \/ Read
  <2>1. CASE EndBatch(b)
    BY <1>2, <2>1
  <2>2. CASE /\ phase' = [phase EXCEPT ![b] = "placing"]
             /\ view' = [view EXCEPT ![b] = GetState]
             /\ UNCHANGED <<batch, retries>>
    BY <1>0, <1>4, <2>2 DEF ReadNamespace
  <2> QED
    BY <1>4, <2>1, <2>2, Zenon DEF ReadNamespace
<1>5. ASSUME NEW b \in Server, NEW r, AssignBatch(b, r) PROVE Kept
  <2>1. CASE EndBatch(b)
    BY <1>2, <2>1
  <2>2. CASE /\ phase' = [phase EXCEPT ![b] = "reading"]
             /\ view' = [view EXCEPT ![b] = NoState]
             /\ UNCHANGED batch
    BY <1>0, <2>2
  <2> QED
    BY <1>5, <2>1, <2>2, Zenon DEF AssignBatch
<1>6. ASSUME NEW b \in Server, BatchFails(b) PROVE Kept
  BY <1>2, <1>6 DEF BatchFails
<1> HIDE DEF Kept, Read
<1>7. ASSUME NEW b \in Server, AssignerStep(b) \/ AssignerFault(b) PROVE Kept \/ Read
  BY <1>4, <1>5, <1>6, <1>7, Zenon DEF AssignerStep, AssignerFault
<1>8. CASE ~UNCHANGED assignerVars
  BY <1>3, <1>7, <1>8, Zenon
     DEF Next, ServiceNext, EnvironmentNext, Elect, StepDown, LoseLease, ProcessorStep,
         ProcessorFault, StartCleanup, FinishCleanup, Heartbeat, Operator, Store,
         ForceReset, vars, Kept, Read
<1> QED
  BY <1>1, <1>8, Zenon DEF Kept, Read

\* With a single server nobody else places a shard between its read and its write: what
\* it is about to place has no owner yet.
SoleServerInv ==
  /\ NamespaceType = "ephemeral" /\ \A a, b \in Server : a = b
  /\ LockInv
  /\ DoublyOwned = {}
  /\ \A a \in Server : phase[a] = "placing" => ToPlace(view[a], batch[a]) \cap AllOwned = {}

LEMMA SoleServerNext ==
  ASSUME SoleServerInv, [Next]_vars
  PROVE  SoleServerInv'
<1>0. /\ LockInv /\ TypeOK /\ LockInv'
      /\ NamespaceType = "ephemeral" /\ \A a, b \in Server : a = b
  BY LockInvNext DEF SoleServerInv, LockInv
<1>1. DoublyOwned' = {}
  <2> SUFFICES ASSUME NEW k \in DoublyOwned' PROVE FALSE
    OBVIOUS
  <2>1. UnreadOwner(k)
    BY <1>0, ClashIsUnread DEF SoleServerInv
  <2>2. PICK a \in Server :
           /\ phase[a] = "placing" /\ k \in ToPlace(view[a], batch[a])
           /\ \E d \in Executor : k \in assigned[d]
    BY <2>1 DEF UnreadOwner
  <2> QED
    BY <2>2 DEF SoleServerInv, AllOwned
<1>2. ASSUME NEW a \in Server, phase'[a] = "placing"
      PROVE  (ToPlace(view[a], batch[a]) \cap AllOwned)' = {}
  <2>1. CASE UNCHANGED storeVars /\ view'[a] = GetState
    <3>1. view'[a].assigned = assigned'
      <4>1. GetState.assigned = assigned
        BY Zenon DEF GetState
      <4> QED
        BY <2>1, <4>1, Zenon DEF storeVars, assignmentKeys
    <3>2. \A k \in ToPlace(view'[a], batch'[a]) : \A e \in Executor : k \notin assigned'[e]
      BY <3>1, Zenon DEF ToPlace
    <3> QED
      BY <3>2, AllOwnedIs
  <2>2. CASE phase[a] = "placing" /\ view'[a] = view[a] /\ batch'[a] = batch[a]
    <3>1. ToPlace(view[a], batch[a]) \cap AllOwned = {}
      BY <2>2, Zenon DEF SoleServerInv
    <3>2. ToPlace(view[a], batch[a])' = ToPlace(view[a], batch[a])
      BY <2>2, Zenon
    <3>3. AllOwned' \subseteq AllOwned
      <4>1. CASE \A e \in Executor : assigned'[e] \subseteq assigned[e]
        BY <4>1 DEF AllOwned
      <4>2. ASSUME NEW s \in Session, NEW r \in NextRevision, Rebalance(s, r)
            PROVE  AllOwned' \subseteq AllOwned
        BY <1>0, <4>2, RebalanceClash
      <4>3. ASSUME NEW b \in Server, NEW r \in NextRevision, AssignBatch(b, r)
            PROVE  AllOwned' \subseteq AllOwned
        <5>1. ToPlace(view[b], batch[b]) = {}
          BY <1>0, <1>2, <4>3, PlacementEndsView
        <5>2. \A e \in Executor : assigned'[e] \subseteq assigned[e]
          BY <1>0, <4>3, <5>1, PlacementAdds
        <5> QED
          BY <5>2 DEF AllOwned
      <4> QED
        BY <1>0, <4>1, <4>2, <4>3, OwnersGrow
    <3> QED
      BY <3>1, <3>2, <3>3
  <2> QED
    BY <1>0, <1>2, <2>1, <2>2, AboutToPlace, Zenon
<1> QED
  BY <1>0, <1>1, <1>2 DEF SoleServerInv

\* In an ephemeral namespace it takes two servers to give a shard two owners.  With one,
\* its placements and the leader's rebalances never do, whatever the order of their reads
\* and writes, although neither compares every record.
THEOREM OneServerSingleOwner ==
  NamespaceType = "ephemeral" /\ (\A a, b \in Server : a = b) /\ Spec => []SingleOwner
<1>1. NamespaceType = "ephemeral" /\ (\A a, b \in Server : a = b) /\ Init => SoleServerInv
  <2> SUFFICES ASSUME NamespaceType = "ephemeral", \A a, b \in Server : a = b, Init
               PROVE  SoleServerInv
    OBVIOUS
  <2>1. \A e \in Executor : assigned[e] = {}
    BY DEF Init, StoreInit
  <2>2. \A a \in Server : phase[a] # "placing"
    BY DEF Init, AssignerInit
  <2>3. DoublyOwned = {}
    BY <2>1 DEF DoublyOwned
  <2> QED
    BY <2>2, <2>3, LockInvInit DEF SoleServerInv
<1>2. SoleServerInv => SingleOwner
  BY DEF SoleServerInv, LockInv, TypeOK, StoreTypeOK, DoublyOwned, SingleOwner
<1>3. SoleServerInv /\ [Next]_vars => SoleServerInv'
  BY SoleServerNext
<1> QED
  BY <1>1, <1>2, <1>3, PTL DEF Spec
=============================================================================
