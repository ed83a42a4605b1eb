------------------------ MODULE FixedNamespaceProofs ------------------------
(***************************************************************************)
(* In a fixed namespace no shard ever has two owners.  Leaders are the     *)
(* only writers there, their transactions are guarded by their leader key, *)
(* and at most one leader has one, so the snapshot of a leader that passes *)
(* its guard is still the assignment in the store.                         *)
(***************************************************************************)
EXTENDS NamespaceProofs, LeaderElectionProofs

\* The assignments, as the leader with a key sees them.
AssignmentInv ==
  /\ SingleOwner
  /\ FencedLeaderIsCurrent
  /\ AssignedHasHeartbeat
  /\ \A e \in Executor : assigned[e] # {} => modRevision[e] # 0
  /\ \A s \in Session : pc[s] = "planning" /\ Guard(s) =>
       \A e \in snap[s].active : status[e] # "NONE"

\* A processor runs only while its session leads.
LeaderInv == \A s \in Session : pc[s] # "off" => role[s] = "leader"

\* The assigners of a fixed namespace have nothing to do.
NoBatch == \A a \in Server : phase[a] = "idle"

FixedInv ==
  NamespaceType = "fixed" /\ TypeOK /\ ElectionInv /\ LeaderInv /\ NoBatch /\ AssignmentInv

-----------------------------------------------------------------------------
(* The election is the one of LeaderElection. *)

\* What a namespace does to leader keys and roles is a step of the election.
LEMMA ElectionStep == [Next]_vars => [ElectionNext]_electionVars
<1> SUFFICES ASSUME [Next]_vars PROVE [ElectionNext]_electionVars
  OBVIOUS
<1>1. ASSUME NEW s \in Session, Elect(s) \/ StepDown(s) \/ LoseLease(s)
      PROVE  ElectionNext
  BY <1>1 DEF Elect, StepDown, LoseLease, ElectionNext
<1>2. ASSUME NEW s \in Session,
             ProcessorStep(s) \/ ProcessorFault(s) \/ StartCleanup(s) \/ FinishCleanup(s)
      PROVE  UNCHANGED electionVars
  BY <1>2, Zenon DEF ProcessorStep, ProcessorFault, StartCleanup, FinishCleanup
<1>3. ASSUME NEW a \in Server, Request(a) \/ AssignerStep(a) \/ AssignerFault(a)
      PROVE  UNCHANGED electionVars
  BY <1>3 DEF Request, AssignerStep, AssignerFault
<1>4. CASE (\E e \in Executor : Heartbeat(e) \/ Store(HeartbeatExpires(e))) \/ Operator
  BY <1>4, Zenon DEF Heartbeat, Operator, Store
<1>5. CASE ForceReset
  BY <1>5 DEF ForceReset, ElectionNext
<1>6. CASE UNCHANGED vars
  BY <1>6 DEF vars
<1> QED
  BY <1>1, <1>2, <1>3, <1>4, <1>5, <1>6 DEF Next, ServiceNext, EnvironmentNext

\* A namespace implements the election: processors, assigners, operators and
\* resets do nothing to leader keys and roles that the election alone may not.
THEOREM ImplementsElection == Spec => ElectionSpec
<1>1. Init => ElectionInit
  BY DEF Init
<1> QED
  BY <1>1, ElectionStep, PTL DEF Spec, ElectionSpec

\* So at most one leader of a namespace of either type passes its guard.
THEOREM SingleWriter == Spec => []SingleFencedLeader
  BY ImplementsElection, ElectionSafe, PTL

-----------------------------------------------------------------------------
(* The processor and the assigner follow the election and the type. *)

\* Only an elector starts a processor, and it terminates it when it resigns.
LEMMA LeaderInvNext ==
  ASSUME TypeOK, LeaderInv, [Next]_vars
  PROVE  LeaderInv'
<1> USE DEF LeaderInv, TypeOK, ElectionTypeOK, ProcessorTypeOK
<1>1. ASSUME NEW s \in Session, Elect(s)
      PROVE  LeaderInv'
  BY <1>1 DEF Elect, StartCampaign, BecomeLeader, Run, processorVars
<1>2. ASSUME NEW s \in Session, StepDown(s)
      PROVE  LeaderInv'
  BY <1>2 DEF StepDown, Resign, Terminate
<1>3. ASSUME NEW s \in Session, LoseLease(s)
      PROVE  LeaderInv'
  BY <1>3 DEF LoseLease, LeaseExpires, processorVars
<1>4. ASSUME NEW s \in Session,
             ProcessorStep(s) \/ ProcessorFault(s) \/ StartCleanup(s) \/ FinishCleanup(s)
      PROVE  LeaderInv'
  <2>1. \A t \in Session : pc'[t] # "off" => pc[t] # "off"
    <3>1. ASSUME pc[s] # "off", \A t \in Session \ {s} : pc'[t] = pc[t]
          PROVE  \A t \in Session : pc'[t] # "off" => pc[t] # "off"
      BY <3>1
    <3>2. CASE ProcessorStep(s)
      <4>1. CASE ReadState(s) \/ NoActiveExecutors(s) \/ SkipRebalance(s)
        BY <3>1, <4>1 DEF ReadState, NoActiveExecutors, SkipRebalance, Finish
      <4>2. CASE \E B \in SUBSET Executor : DeleteStaleExecutors(s, B)
        BY <3>1, <4>2 DEF DeleteStaleExecutors, Finish
      <4>3. CASE \E r \in NextRevision : Rebalance(s, r)
        <5>1. /\ pc[s] = "planning"
              /\ Finish(s, TRUE) \/ \E prev, own : RecordOrFinish(s, prev, own)
          BY <4>3, Zenon DEF Rebalance
        <5>2. \A t \in Session \ {s} : pc'[t] = pc[t]
          <6>1. \E v : pc' = [pc EXCEPT ![s] = v]
            BY <5>1, Zenon DEF RecordOrFinish, Finish
          <6> QED
            BY <6>1 DEF TypeOK, ProcessorTypeOK
        <5> QED
          BY <3>1, <5>1, <5>2
      <4>4. CASE \E e \in Executor : RecordStatistics(s, e, FALSE)
        BY <3>1, <4>4 DEF RecordStatistics, Finish
      <4> QED
        BY <3>2, <4>1, <4>2, <4>3, <4>4, Zenon DEF ProcessorStep
    <3>3. CASE ProcessorFault(s)
      <4>1. CASE RebalanceFails(s)
        BY <3>1, <4>1 DEF RebalanceFails, Finish
      <4>2. CASE WatchCloses(s) \/ CleanupFails(s)
        BY <4>2, Zenon DEF WatchCloses, CleanupFails
      <4>3. CASE \E e \in Executor : RecordStatistics(s, e, TRUE)
        BY <3>1, <4>3 DEF RecordStatistics, Finish
      <4> QED
        BY <3>3, <4>1, <4>2, <4>3, Zenon DEF ProcessorFault
    <3>4. CASE StartCleanup(s) \/ FinishCleanup(s)
      BY <3>4, Zenon DEF StartCleanup, FinishCleanup, ReadShardStats, DeleteShardStats
    <3> QED
      BY <1>4, <3>2, <3>3, <3>4
  <2>2. UNCHANGED electionVars
    BY <1>4, Zenon DEF ProcessorStep, ProcessorFault, StartCleanup, FinishCleanup
  <2> QED
    BY <2>1, <2>2 DEF electionVars
<1>5. CASE UNCHANGED <<electionVars, processorVars>>
  BY <1>5 DEF electionVars, processorVars
<1>6. CASE ForceReset
  BY <1>6 DEF ForceReset, ResetLeaderKeys, processorVars
<1>7. CASE \/ \E a \in Server : Request(a) \/ AssignerStep(a) \/ AssignerFault(a)
           \/ \E e \in Executor : Heartbeat(e) \/ Store(HeartbeatExpires(e))
           \/ Operator
           \/ UNCHANGED vars
  BY <1>5, <1>7, Zenon
    DEF Request, AssignerStep, AssignerFault, Heartbeat, Operator, Store, vars
<1> QED
  BY <1>1, <1>2, <1>3, <1>4, <1>6, <1>7 DEF Next, ServiceNext, EnvironmentNext

\* A batch is started only in an ephemeral namespace.
LEMMA NoBatchNext ==
  ASSUME NamespaceType = "fixed", NoBatch, [Next]_vars
  PROVE  UNCHANGED assignerVars
<1>1. ASSUME NEW a \in Server
      PROVE  ~Request(a) /\ ~AssignerStep(a) /\ ~AssignerFault(a)
  BY Zenon
    DEF NoBatch, Request, AssignerStep, ReadNamespace, AssignBatch, AssignerFault, BatchFails
<1>2. ASSUME NEW s \in Session,
             \/ Elect(s) \/ StepDown(s) \/ LoseLease(s) \/ ProcessorStep(s)
             \/ ProcessorFault(s) \/ StartCleanup(s) \/ FinishCleanup(s)
      PROVE  UNCHANGED assignerVars
  BY <1>2, Zenon
    DEF Elect, StepDown, LoseLease, ProcessorStep, ProcessorFault, StartCleanup,
              FinishCleanup
<1>3. CASE \/ \E e \in Executor : Heartbeat(e) \/ Store(HeartbeatExpires(e))
           \/ Operator \/ ForceReset \/ UNCHANGED vars
  BY <1>3, Zenon DEF Heartbeat, Operator, Store, ForceReset, vars
<1> QED
  BY <1>1, <1>2, <1>3 DEF Next, ServiceNext, EnvironmentNext

-----------------------------------------------------------------------------
(* The steps that write no assignment. *)

\* A step that changes no assignment, deletes no heartbeat and lets no leader
\* read the state.
QuietStep ==
  /\ UNCHANGED assignmentKeys
  /\ \A e \in Executor : status'[e] = "NONE" => status[e] = "NONE"
  /\ \A s \in Session : pc'[s] = "planning" /\ s \in keys' =>
       pc[s] = "planning" /\ s \in keys /\ snap'[s] = snap[s]

LEMMA QuietKeepsInv ==
  ASSUME TypeOK, AssignmentInv, QuietStep
  PROVE  AssignmentInv'
<1>0. assigned' = assigned /\ modRevision' = modRevision
  BY DEF QuietStep, assignmentKeys
<1>1. SingleOwner'
  BY <1>0 DEF AssignmentInv, SingleOwner
<1>2. FencedLeaderIsCurrent'
  BY <1>0 DEF AssignmentInv, FencedLeaderIsCurrent, QuietStep, Guard
<1>3. AssignedHasHeartbeat'
  BY <1>0 DEF AssignmentInv, AssignedHasHeartbeat, QuietStep
<1>4. (\A e \in Executor : assigned[e] # {} => modRevision[e] # 0)'
  BY <1>0 DEF AssignmentInv
<1>5. ASSUME NEW s \in Session, pc'[s] = "planning", Guard(s)', NEW e \in snap'[s].active
      PROVE  status'[e] # "NONE"
  <2>1. pc[s] = "planning" /\ Guard(s) /\ snap'[s] = snap[s]
    BY <1>5 DEF QuietStep, Guard
  <2>2. e \in Executor
    BY <1>5, <2>1 DEF TypeOK, ProcessorTypeOK, NamespaceState
  <2> QED
    BY <1>5, <2>1, <2>2 DEF AssignmentInv, QuietStep
<1> QED
  BY <1>1, <1>2, <1>3, <1>4, <1>5 DEF AssignmentInv

\* The electors: a session without a key is not in a rebalance when it gets one.
LEMMA ElectorIsQuiet ==
  ASSUME TypeOK, LeaderInv, NEW s \in Session, Elect(s) \/ StepDown(s) \/ LoseLease(s)
  PROVE  QuietStep
<1> USE DEF QuietStep, TypeOK, ProcessorTypeOK, ElectionTypeOK, LeaderInv, storeVars,
            heartbeatKeys, processorVars
<1>1. CASE Elect(s)
  BY <1>1 DEF Elect, StartCampaign, BecomeLeader, Run
<1>2. CASE StepDown(s)
  <2>1. Terminate(s) /\ UNCHANGED storeVars /\ keys' \subseteq keys
    BY <1>2 DEF StepDown, Resign, DeleteKeys
  <2>2. \A t \in Session : pc'[t] = "planning" => pc[t] = "planning" /\ snap'[t] = snap[t]
    BY <2>1 DEF Terminate
  <2> QED
    BY <2>1, <2>2, Zenon
<1>3. CASE LoseLease(s)
  BY <1>3 DEF LoseLease, LeaseExpires, DeleteKeys
<1> QED
  BY <1>1, <1>2, <1>3

\* Executors and operators never write an assignment or delete a heartbeat.
LEMMA EnvironmentIsQuiet ==
  ASSUME TypeOK,
         (\E e \in Executor : Heartbeat(e) \/ Store(HeartbeatExpires(e))) \/ Operator
  PROVE  QuietStep
<1> USE DEF Store, processorVars, electionVars, heartbeatKeys, QuietStep
<1>1. ASSUME NEW e \in Executor, Heartbeat(e)
      PROVE  QuietStep
  <2>1. PICK st \in Status : status' = [status EXCEPT ![e] = st]
    BY <1>1, Zenon DEF Heartbeat, RecordHeartbeat
  <2>2. \A d \in Executor : status'[d] = "NONE" => status[d] = "NONE"
    BY <2>1 DEF Status, TypeOK, StoreTypeOK
  <2> QED
    BY <1>1, <2>2 DEF Heartbeat, RecordHeartbeat
<1>2. ASSUME NEW e \in Executor, Store(HeartbeatExpires(e))
      PROVE  QuietStep
  BY <1>2 DEF HeartbeatExpires
<1>3. CASE Operator
  BY <1>3 DEF Operator, DrainShards, UndrainShards, DrainHosts, UndrainHosts
<1> QED
  BY <1>1, <1>2, <1>3

\* The end of a rebalance leaves the leader without a snapshot to write from.
LEMMA FinishEndsPlanning ==
  ASSUME TypeOK, NEW s \in Session, NEW failed \in BOOLEAN, Finish(s, failed)
  PROVE  /\ pc'[s] # "planning"
         /\ \A t \in Session \ {s} : pc'[t] = pc[t] /\ snap'[t] = snap[t]
  BY DEF TypeOK, ProcessorTypeOK, Finish

\* The steps of a processor other than the two reads and the two transactions.
LEMMA ProcessorIsQuiet ==
  ASSUME TypeOK, NEW s \in Session, UNCHANGED electionVars,
         \/ NoActiveExecutors(s) \/ SkipRebalance(s)
         \/ RebalanceFails(s) \/ WatchCloses(s) \/ CleanupFails(s)
         \/ \E e \in Executor, failed \in BOOLEAN : RecordStatistics(s, e, failed)
         \/ \E E \in SUBSET Executor : ReadShardStats(s, E)
         \/ \E B, E \in SUBSET Executor : DeleteShardStats(s, B, E)
  PROVE  QuietStep
<1>1. UNCHANGED <<status, assignmentKeys>>
  BY Zenon DEF NoActiveExecutors, SkipRebalance, RebalanceFails, WatchCloses, CleanupFails,
         RecordStatistics, ReadShardStats, DeleteShardStats, RecordShardStatisticsBatch, storeVars, heartbeatKeys
<1>2. \A t \in Session : pc'[t] = "planning" => pc[t] = "planning" /\ snap'[t] = snap[t]
  <2>1. CASE Finish(s, FALSE) \/ Finish(s, TRUE)
    BY <2>1, FinishEndsPlanning, Zenon
  <2>2. CASE ~Finish(s, FALSE) /\ ~Finish(s, TRUE)
    BY <2>2, Zenon
       DEF NoActiveExecutors, SkipRebalance, RebalanceFails, WatchCloses, CleanupFails,
           RecordStatistics, ReadShardStats, DeleteShardStats, TypeOK, ProcessorTypeOK
  <2> QED
    BY <2>1, <2>2, Zenon
<1> QED
  BY <1>1, <1>2 DEF QuietStep, electionVars

-----------------------------------------------------------------------------
(* The steps that read or write the assignments. *)

\* A snapshot is the store at the moment it is taken.
LEMMA ReadKeepsInv ==
  ASSUME TypeOK, AssignmentInv, NEW s \in Session, ReadState(s), UNCHANGED electionVars
  PROVE  AssignmentInv'
<1>1. assigned' = assigned /\ modRevision' = modRevision /\ status' = status /\ keys' = keys
  BY DEF ReadState, storeVars, assignmentKeys, heartbeatKeys, electionVars
<1>2. snap'[s] = GetState /\ \A t \in Session \ {s} : pc'[t] = pc[t] /\ snap'[t] = snap[t]
  BY DEF ReadState, TypeOK, ProcessorTypeOK
<1>3. SingleOwner' /\ AssignedHasHeartbeat'
  BY <1>1 DEF AssignmentInv, SingleOwner, AssignedHasHeartbeat
<1>4. (\A e \in Executor : assigned[e] # {} => modRevision[e] # 0)'
  BY <1>1 DEF AssignmentInv
<1>5. FencedLeaderIsCurrent'
  <2>1. ASSUME NEW t \in Session, pc'[t] = "planning", Guard(t)'
        PROVE  snap'[t].assigned = assigned /\ snap'[t].modRevision = modRevision
    <3>1. CASE t = s
      <4>1. GetState.assigned = assigned /\ GetState.modRevision = modRevision
        BY Zenon DEF GetState
      <4> QED
        BY <1>2, <3>1, <4>1, Zenon
    <3>2. CASE t # s
      BY <1>1, <1>2, <2>1, <3>2, Zenon DEF AssignmentInv, FencedLeaderIsCurrent, Guard
    <3> QED
      BY <3>1, <3>2
  <2> QED
    BY <1>1, <2>1, Zenon DEF FencedLeaderIsCurrent
<1>6. ASSUME NEW t \in Session, pc'[t] = "planning", Guard(t)', NEW e \in snap'[t].active
      PROVE  status'[e] # "NONE"
  <2>1. CASE t = s
    <3>1. e \in GetState.active
      BY <1>2, <1>6, <2>1, Zenon
    <3>2. GetState.active = {d \in Executor : IsActive(d)}
      BY Zenon DEF GetState
    <3>3. status[e] = "ACTIVE"
      BY <3>1, <3>2, Zenon DEF IsActive
    <3> QED
      BY <1>1, <3>3
  <2>2. CASE t # s
    BY <1>1, <1>2, <1>6, <2>2 DEF AssignmentInv, Guard
  <2> QED
    BY <2>1, <2>2
<1> QED
  BY <1>3, <1>4, <1>5, <1>6 DEF AssignmentInv

\* A write invalidates no snapshot that could still be written from: the writer
\* has finished planning and no other planner has a key.
LEMMA WriterIsAlone ==
  ASSUME ElectionInv, LeaderInv, NEW s \in Session, Guard(s), pc[s] # "off",
         UNCHANGED electionVars, pc'[s] # "planning",
         \A t \in Session \ {s} : pc'[t] = pc[t]
  PROVE  \A t \in Session : ~(pc'[t] = "planning" /\ Guard(t)')
<1>1. SingleFencedLeader
  BY ElectionInvImpliesSingle
<1>2. ASSUME NEW t \in Session, pc'[t] = "planning", Guard(t)'
      PROVE  FALSE
  <2>1. Guard(t) /\ t # s /\ pc[t] = "planning"
    BY <1>2 DEF Guard, electionVars
  <2>2. role[t] = "leader" /\ role[s] = "leader"
    BY <2>1 DEF LeaderInv
  <2> QED
    BY <1>1, <2>1, <2>2 DEF SingleFencedLeader
<1> QED
  BY <1>2

\* Without such a planner only the store matters.
LEMMA InvWithoutPlanner ==
  ASSUME \A t \in Session : ~(pc'[t] = "planning" /\ Guard(t)'),
         SingleOwner', AssignedHasHeartbeat',
         (\A e \in Executor : assigned[e] # {} => modRevision[e] # 0)'
  PROVE  AssignmentInv'
  BY DEF AssignmentInv, FencedLeaderIsCurrent

\* DeleteExecutors removes heartbeat and assignment together.
LEMMA DeleteKeepsInv ==
  ASSUME TypeOK, ElectionInv, LeaderInv, AssignmentInv, NEW s \in Session,
         NEW B \in SUBSET Executor, DeleteStaleExecutors(s, B), UNCHANGED electionVars
  PROVE  AssignmentInv'
<1>1. pc'[s] # "planning" /\ \A t \in Session \ {s} : pc'[t] = pc[t] /\ snap'[t] = snap[t]
  <2>1. CASE Finish(s, FALSE)
    BY <2>1, FinishEndsPlanning, Zenon
  <2>2. CASE ~Finish(s, FALSE)
    BY <2>2, Zenon DEF DeleteStaleExecutors
  <2> QED
    BY <2>1, <2>2, Zenon
<1>2. CASE Guard(s)
  <2>1. \A t \in Session : ~(pc'[t] = "planning" /\ Guard(t)')
    BY <1>1, <1>2, WriterIsAlone DEF DeleteStaleExecutors
  <2>2. /\ assigned' = [e \in Executor |-> IF e \in B THEN {} ELSE assigned[e]]
        /\ modRevision' = [e \in Executor |-> IF e \in B THEN 0 ELSE modRevision[e]]
        /\ status' = [e \in Executor |-> IF e \in B THEN "NONE" ELSE status[e]]
    BY <1>2 DEF DeleteStaleExecutors, DeleteExecutors, CommitAssignments
  <2>3. SingleOwner'
    BY <2>2 DEF AssignmentInv, SingleOwner
  <2>4. AssignedHasHeartbeat'
    BY <2>2 DEF AssignmentInv, AssignedHasHeartbeat
  <2>5. (\A e \in Executor : assigned[e] # {} => modRevision[e] # 0)'
    BY <2>2 DEF AssignmentInv
  <2> QED
    BY <2>1, <2>3, <2>4, <2>5, InvWithoutPlanner
<1>3. CASE ~Guard(s)
  <2>1. QuietStep
    BY <1>1, <1>3
       DEF QuietStep, DeleteStaleExecutors, storeVars, heartbeatKeys, electionVars
  <2> QED
    BY <2>1, QuietKeepsInv
<1> QED
  BY <1>2, <1>3

\* The transaction made from a plan leaves every executor with the shards that
\* the plan gives to it, if the snapshot still is what the store holds.
LEMMA PlanIsInstalled ==
  ASSUME NEW sn \in NamespaceState, NEW order, NEW own \in Plans(sn, order),
         NEW r \in Revision, sn.assigned = assigned,
         CommitAssignments(sn.stale, ChangedAssignments(sn, own), r)
  PROVE  \A e \in Executor : assigned'[e] \subseteq ShardsOf(own, e)
<1> DEFINE P == ChangedAssignments(sn, own)
<1>1. ASSUME NEW e \in Executor
      PROVE  assigned'[e] \subseteq ShardsOf(own, e)
  <2>1. assigned'[e] = IF e \in DOMAIN P THEN P[e]
                       ELSE IF e \in sn.stale THEN {} ELSE assigned[e]
    BY DEF CommitAssignments
  <2>2. CASE e \in DOMAIN P
    <3>1. P[e] = ShardsOf(own, e)
      BY <2>2 DEF ChangedAssignments
    <3> QED
      BY <2>1, <2>2, <3>1
  <2>3. CASE e \notin DOMAIN P /\ e \in sn.stale
    BY <2>1, <2>3
  <2>4. CASE e \notin DOMAIN P /\ e \notin sn.stale
    <3>1. e \notin ExecutorsToUnassign(sn)
      BY <2>4 DEF ChangedAssignments, NewAssignments
    <3>2. CASE e \in Assignable(sn)
      BY <2>1, <2>4, <3>2 DEF ChangedAssignments, NewAssignments
    <3>3. CASE e \notin Assignable(sn)
      BY <2>1, <2>4, <3>1, <3>3 DEF ExecutorsToUnassign
    <3> QED
      BY <3>2, <3>3
  <2> QED
    BY <2>2, <2>3, <2>4
<1> QED
  BY <1>1

\* A record is written only for an executor that has a heartbeat: one that the
\* leader saw active, or one that it saw with shards and does not delete.
LEMMA CommitKeepsInv ==
  ASSUME TypeOK, AssignmentInv, NEW s \in Session, pc[s] = "planning", Guard(s),
         NEW order, NEW own \in Plans(snap[s], order), NEW r \in Revision,
         CommitAssignments(snap[s].stale, ChangedAssignments(snap[s], own), r)
  PROVE  /\ SingleOwner' /\ AssignedHasHeartbeat'
         /\ (\A e \in Executor : assigned[e] # {} => modRevision[e] # 0)'
<1> DEFINE P == ChangedAssignments(snap[s], own)
<1>1. snap[s] \in NamespaceState /\ snap[s].assigned = assigned
  BY DEF TypeOK, ProcessorTypeOK, AssignmentInv, FencedLeaderIsCurrent
<1>2. SingleOwner'
  <2>1. \A e \in Executor : assigned'[e] \subseteq ShardsOf(own, e)
    BY <1>1, PlanIsInstalled
  <2> QED
    BY <2>1 DEF SingleOwner, ShardsOf
<1>3. \A e \in Executor :
        /\ assigned'[e] = IF e \in DOMAIN P THEN P[e]
                          ELSE IF e \in snap[s].stale THEN {} ELSE assigned[e]
        /\ modRevision'[e] = IF e \in DOMAIN P THEN r
                             ELSE IF e \in snap[s].stale THEN 0 ELSE modRevision[e]
        /\ status'[e] = IF e \in snap[s].stale THEN "NONE" ELSE status[e]
  BY Zenon DEF CommitAssignments
<1>4. AssignedHasHeartbeat'
  <2>1. ASSUME NEW e \in DOMAIN P
        PROVE  e \in Executor /\ e \notin snap[s].stale /\ status[e] # "NONE"
    <3>1. e \in Assignable(snap[s]) \cup ExecutorsToUnassign(snap[s])
      BY <2>1 DEF ChangedAssignments, NewAssignments
    <3>2. CASE e \in Assignable(snap[s])
      BY <1>1, <3>2 DEF Assignable, AssignmentInv, NamespaceState
    <3>3. CASE e \in ExecutorsToUnassign(snap[s])
      BY <1>1, <3>3 DEF ExecutorsToUnassign, AssignmentInv, AssignedHasHeartbeat
    <3> QED
      BY <3>1, <3>2, <3>3
  <2> HIDE DEF P
  <2> QED
    BY <1>3, <2>1, Zenon DEF AssignedHasHeartbeat, AssignmentInv
<1>5. ASSUME NEW e \in Executor, assigned'[e] # {}
      PROVE  modRevision'[e] # 0
  <2> HIDE DEF P
  <2>1. r # 0
    BY StoreAssumption
  <2> QED
    BY <1>3, <1>5, <2>1 DEF AssignmentInv
<1> QED
  BY <1>2, <1>4, <1>5

LEMMA RebalanceKeepsInv ==
  ASSUME TypeOK, ElectionInv, LeaderInv, AssignmentInv, NEW s \in Session,
         NEW r \in Revision, Rebalance(s, r), UNCHANGED electionVars
  PROVE  AssignmentInv'
<1>0. PICK order, prevOrder \in MapOrder : \E own \in Plans(snap[s], order) :
         \/ /\ AssignPlan(s, own, r, TRUE)
            /\ \/ RecordOrFinish(s, FirstOwner(snap[s], prevOrder), own)
               \/ Finish(s, TRUE)
         \/ /\ AssignPlan(s, own, r, FALSE)
            /\ Finish(s, TRUE)
  BY Zenon DEF Rebalance
<1>1. PICK own \in Plans(snap[s], order) :
         \/ /\ AssignPlan(s, own, r, TRUE)
            /\ \/ RecordOrFinish(s, FirstOwner(snap[s], prevOrder), own)
               \/ Finish(s, TRUE)
         \/ /\ AssignPlan(s, own, r, FALSE)
            /\ Finish(s, TRUE)
  BY <1>0, Zenon
<1>2. pc[s] = "planning"
  BY DEF Rebalance
<1>3. pc'[s] # "planning" /\ \A t \in Session \ {s} : pc'[t] = pc[t] /\ snap'[t] = snap[t]
  <2>1. CASE Finish(s, FALSE) \/ Finish(s, TRUE)
    BY <2>1, FinishEndsPlanning, Zenon
  <2>2. CASE ~Finish(s, FALSE) /\ ~Finish(s, TRUE)
    BY <1>1, <2>2, Zenon DEF RecordOrFinish, TypeOK, ProcessorTypeOK
  <2> QED
    BY <2>1, <2>2, Zenon
<1>4. \/ Guard(s) /\ CommitAssignments(snap[s].stale, ChangedAssignments(snap[s], own), r)
      \/ UNCHANGED storeVars
  BY <1>1, Zenon DEF AssignPlan, AssignShards
<1>5. CASE Guard(s) /\ CommitAssignments(snap[s].stale, ChangedAssignments(snap[s], own), r)
  <2>1. \A t \in Session : ~(pc'[t] = "planning" /\ Guard(t)')
    BY <1>2, <1>3, <1>5, WriterIsAlone, Zenon
  <2> QED
    BY <1>2, <1>5, <2>1, CommitKeepsInv, InvWithoutPlanner, Zenon
<1>6. CASE UNCHANGED storeVars
  <2>1. QuietStep
    BY <1>3, <1>6, Zenon DEF QuietStep, storeVars, heartbeatKeys, electionVars
  <2> QED
    BY <2>1, QuietKeepsInv
<1> QED
  BY <1>4, <1>5, <1>6

\* A reset leaves neither an assignment nor a leader key.
LEMMA ResetKeepsInv ==
  ASSUME ElectionTypeOK, ForceReset
  PROVE  AssignmentInv'
<1>1. \A t \in Session : ~(pc'[t] = "planning" /\ Guard(t)')
  BY DEF ForceReset, ResetLeaderKeys, DeleteKeys, ElectionTypeOK, Guard
<1>2. /\ SingleOwner' /\ AssignedHasHeartbeat'
      /\ (\A e \in Executor : assigned[e] # {} => modRevision[e] # 0)'
  BY DEF ForceReset, ResetNamespace, SingleOwner, AssignedHasHeartbeat
<1> QED
  BY <1>1, <1>2, InvWithoutPlanner

-----------------------------------------------------------------------------
(* The theorem. *)

LEMMA FixedInvInit == NamespaceType = "fixed" /\ Init => FixedInv
<1> SUFFICES ASSUME NamespaceType = "fixed", Init PROVE FixedInv
  OBVIOUS
<1>1. TypeOK /\ ElectionInv
  BY TypeOKInit, ElectionInvInit DEF Init
<1>2. LeaderInv /\ NoBatch
  BY DEF Init, ProcessorInit, AssignerInit, LeaderInv, NoBatch
<1>3. AssignmentInv
  BY DEF Init, StoreInit, ElectionInit, AssignmentInv, SingleOwner, FencedLeaderIsCurrent,
         AssignedHasHeartbeat, Guard
<1> QED
  BY <1>1, <1>2, <1>3 DEF FixedInv

LEMMA FixedInvNext == FixedInv /\ [Next]_vars => FixedInv'
<1> SUFFICES ASSUME FixedInv, [Next]_vars PROVE FixedInv'
  OBVIOUS
<1> USE DEF FixedInv
<1>1. TypeOK' /\ ElectionInv' /\ LeaderInv'
  BY TypeOKNext, ElectionStep, ElectionInvNext, LeaderInvNext
<1>2. NoBatch' /\ UNCHANGED assignerVars
  BY NoBatchNext DEF NoBatch, assignerVars
<1>3. ASSUME NEW s \in Session, Elect(s) \/ StepDown(s) \/ LoseLease(s)
      PROVE  AssignmentInv'
  BY <1>3, ElectorIsQuiet, QuietKeepsInv
<1>4. ASSUME NEW s \in Session, ProcessorStep(s)
      PROVE  AssignmentInv'
  <2>0. UNCHANGED electionVars
    BY <1>4 DEF ProcessorStep
  <2>1. ASSUME NEW r \in NextRevision, Rebalance(s, r)
        PROVE  AssignmentInv'
    BY <2>0, <2>1, RebalanceKeepsInv DEF NextRevision
  <2>2. CASE ReadState(s)
    BY <2>0, <2>2, ReadKeepsInv
  <2>3. ASSUME NEW B \in SUBSET Executor, DeleteStaleExecutors(s, B)
        PROVE  AssignmentInv'
    BY <2>0, <2>3, DeleteKeepsInv
  <2>4. CASE \/ NoActiveExecutors(s) \/ SkipRebalance(s)
             \/ \E e \in Executor : RecordStatistics(s, e, FALSE)
    BY <2>0, <2>4, ProcessorIsQuiet, QuietKeepsInv, Zenon
  <2> QED
    BY <1>4, <2>1, <2>2, <2>3, <2>4, Zenon DEF ProcessorStep
<1>5. ASSUME NEW s \in Session, ProcessorFault(s) \/ StartCleanup(s) \/ FinishCleanup(s)
      PROVE  AssignmentInv'
  <2>1. QuietStep
    BY <1>5, ProcessorIsQuiet, Zenon DEF ProcessorFault, StartCleanup, FinishCleanup
  <2> QED
    BY <2>1, QuietKeepsInv
<1>6. ASSUME NEW a \in Server
      PROVE  ~Request(a) /\ ~AssignerStep(a) /\ ~AssignerFault(a)
  BY Zenon
    DEF NoBatch, Request, AssignerStep, ReadNamespace, AssignBatch, AssignerFault, BatchFails
<1>7. ASSUME (\E e \in Executor : Heartbeat(e) \/ Store(HeartbeatExpires(e))) \/ Operator
      PROVE  AssignmentInv'
  BY <1>7, EnvironmentIsQuiet, QuietKeepsInv
<1>8. ASSUME ForceReset
      PROVE  AssignmentInv'
  BY <1>8, ResetKeepsInv DEF TypeOK
<1>9. ASSUME UNCHANGED vars
      PROVE  AssignmentInv'
  <2>1. QuietStep
    BY <1>9, Zenon
      DEF vars, QuietStep, storeVars, heartbeatKeys, electionVars, processorVars
  <2> QED
    BY <2>1, QuietKeepsInv
<1>10. AssignmentInv'
  BY <1>3, <1>4, <1>5, <1>6, <1>7, <1>8, <1>9 DEF Next, ServiceNext, EnvironmentNext
<1> QED
  BY <1>1, <1>2, <1>10

\* In a fixed namespace no shard is in the assigned state of two executors,
\* whatever the number of electors in the middle of a rebalance, leases that
\* expire, resets, drains and heartbeats that come late.
THEOREM FixedSingleOwner == NamespaceType = "fixed" /\ Spec => []SingleOwner
<1>1. FixedInv => SingleOwner
  BY DEF FixedInv, AssignmentInv
<1> QED
  BY <1>1, FixedInvInit, FixedInvNext, PTL DEF Spec

\* A leader whose key exists plans from the assignments that it replaces.
THEOREM FixedLeaderIsCurrent == NamespaceType = "fixed" /\ Spec => []FencedLeaderIsCurrent
<1>1. FixedInv => FencedLeaderIsCurrent
  BY DEF FixedInv, AssignmentInv
<1> QED
  BY <1>1, FixedInvInit, FixedInvNext, PTL DEF Spec

\* No shard is given to an executor whose keys were deleted meanwhile.
THEOREM FixedHasHeartbeat == NamespaceType = "fixed" /\ Spec => []AssignedHasHeartbeat
<1>1. FixedInv => AssignedHasHeartbeat
  BY DEF FixedInv, AssignmentInv
<1> QED
  BY <1>1, FixedInvInit, FixedInvNext, PTL DEF Spec

-----------------------------------------------------------------------------
(* Both types of namespace. *)

\* A second owner comes only from a placement whose server read the namespace before the
\* first owner's record existed.  A fixed namespace has no placements, so no shard ever
\* gets one there; in an ephemeral namespace a rebalance compares every record that holds
\* a shard of its plan, and so never adds one.
THEOREM ClashesAreUnread == Spec => OnlyUnreadOwnersClash
<1> DEFINE Unread == \A k \in DoublyOwned' \ DoublyOwned : UnreadOwner(k)
<1>1. LockInv /\ NamespaceType = "ephemeral" /\ [Next]_vars => [Unread]_vars
  BY ClashIsUnread
<1>2. FixedInv' => [Unread]_vars
  <2> SUFFICES ASSUME FixedInv' PROVE DoublyOwned' = {}
    OBVIOUS
  <2>1. SingleOwner'
    BY DEF FixedInv, AssignmentInv
  <2> QED
    BY <2>1 DEF SingleOwner, DoublyOwned
<1>3. CASE NamespaceType = "ephemeral"
  BY <1>1, <1>3, LockInvInit, LockInvNext, PTL DEF Spec, OnlyUnreadOwnersClash, UnreadOwner
<1>4. CASE NamespaceType = "fixed"
  BY <1>2, <1>4, FixedInvInit, FixedInvNext, PTL
    DEF Spec, OnlyUnreadOwnersClash, UnreadOwner
<1> QED
  BY <1>3, <1>4, StoreAssumption
=============================================================================
