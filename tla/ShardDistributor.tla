--------------------------- MODULE ShardDistributor ---------------------------
(***************************************************************************)
(* One namespace of the shard distributor: executors that heartbeat into   *)
(* the store, operators that drain and reset, election sessions whose      *)
(* leaders rebalance, and servers that assign ephemeral shards on demand.  *)
(***************************************************************************)
EXTENDS NamespaceProcessor, EphemeralAssigner

CONSTANTS
  Drainable,    \* the shards an operator may drain
  Reportable,   \* the shards an executor may report as DONE
  Resets        \* whether an operator may reset the namespace

ASSUME EnvironmentAssumption ==
  /\ Drainable \subseteq Shard
  /\ Reportable \subseteq Shard
  /\ Resets \in BOOLEAN

vars == <<storeVars, electionVars, processorVars, assignerVars>>

\* The revisions in the states that the members of S hold.
Remembered(st, S) == UNION {{st[x].modRevision[e] : e \in Executor} : x \in S}

\* The revisions someone may still compare.
RevisionsInUse ==
  {modRevision[e] : e \in Executor}
    \cup Remembered(snap, Session) \cup Remembered(view, Server)

\* The revision of the next transaction: a new one to everybody.
NextRevision ==
  {r \in Revision \ RevisionsInUse : \A q \in Revision \ RevisionsInUse : r <= q}

\* Every variable keeps its type.  In particular a batch never meets more version
\* conflicts than its retry policy allows, and no loop is in a state it cannot leave.
TypeOK == StoreTypeOK /\ ElectionTypeOK /\ ProcessorTypeOK /\ AssignerTypeOK

Init == StoreInit /\ ElectionInit /\ ProcessorInit /\ AssignerInit

-----------------------------------------------------------------------------
(* Executors and operators. *)

Store(A) == A /\ UNCHANGED <<electionVars, processorVars, assignerVars>>

Heartbeat(e) ==
  \E st \in Status, done \in SUBSET Reportable, host \in Host \cup {NoHost},
     stats \in BOOLEAN :
    Store(RecordHeartbeat(e, st, done, host, stats))

Operator ==
  \/ \E k \in Drainable \ drainedShards : Store(DrainShards({k}))
  \/ \E k \in drainedShards : Store(UndrainShards({k}))
  \/ \E h \in Host \ drainedHosts : Store(DrainHosts({h}))
  \/ \E h \in drainedHosts : Store(UndrainHosts({h}))

\* ForceResetNamespace
ForceReset ==
  /\ Resets
  /\ ResetNamespace
  /\ ResetLeaderKeys
  /\ UNCHANGED <<processorVars, assignerVars>>

-----------------------------------------------------------------------------
(* Sessions and servers. *)

Elect(s) ==
  \/ StartCampaign(s) /\ UNCHANGED <<storeVars, processorVars, assignerVars>>
  \/ BecomeLeader(s) /\ Run(s) /\ UNCHANGED <<storeVars, assignerVars>>

\* The processor is terminated before the leader key is given up.
StepDown(s) ==
  \E failed \in BOOLEAN :
    Resign(s, failed) /\ Terminate(s) /\ UNCHANGED <<storeVars, assignerVars>>

LoseLease(s) == LeaseExpires(s) /\ UNCHANGED <<storeVars, processorVars, assignerVars>>

\* The steps of a rebalance.
ProcessorStep(s) ==
  /\ \/ ReadState(s) \/ NoActiveExecutors(s) \/ SkipRebalance(s)
     \/ \E B \in SUBSET Executor : DeleteStaleExecutors(s, B)
     \/ \E r \in NextRevision : Rebalance(s, r)
     \/ \E e \in Executor : RecordStatistics(s, e, FALSE)
  /\ UNCHANGED <<electionVars, assignerVars>>

ProcessorFault(s) ==
  /\ \/ RebalanceFails(s) \/ WatchCloses(s) \/ CleanupFails(s)
     \/ \E e \in Executor : RecordStatistics(s, e, TRUE)
  /\ UNCHANGED <<electionVars, assignerVars>>

StartCleanup(s) ==
  /\ \E E \in SUBSET Executor : ReadShardStats(s, E)
  /\ UNCHANGED <<electionVars, assignerVars>>

FinishCleanup(s) ==
  /\ \E B, E \in SUBSET Executor : DeleteShardStats(s, B, E)
  /\ UNCHANGED <<electionVars, assignerVars>>

\* Only an ephemeral namespace has an assigner.
Request(a) ==
  /\ NamespaceType = "ephemeral"
  /\ \E B \in SUBSET Shard : StartBatch(a, B)
  /\ UNCHANGED <<electionVars, processorVars>>

AssignerStep(a) ==
  /\ ReadNamespace(a) \/ (\E r \in NextRevision : AssignBatch(a, r))
  /\ UNCHANGED <<electionVars, processorVars>>

AssignerFault(a) == BatchFails(a) /\ UNCHANGED <<electionVars, processorVars>>

\* What the service does by itself.
ServiceNext ==
  \/ \E s \in Session : \/ Elect(s) \/ StepDown(s) \/ ProcessorStep(s)
                        \/ StartCleanup(s) \/ FinishCleanup(s)
  \/ \E a \in Server : AssignerStep(a)

\* What happens to it.
EnvironmentNext ==
  \/ \E e \in Executor : Heartbeat(e) \/ Store(HeartbeatExpires(e))
  \/ Operator \/ ForceReset
  \/ \E s \in Session : LoseLease(s) \/ ProcessorFault(s)
  \/ \E a \in Server : Request(a) \/ AssignerFault(a)

Next == ServiceNext \/ EnvironmentNext

Spec == Init /\ [][Next]_vars

-----------------------------------------------------------------------------
(* Safety of every namespace. *)

AllOwned == UNION {assigned[e] : e \in Executor}

\* The writer of an assigned-state record had read exactly the record that it
\* replaces or deletes: no rebalance and no placement overwrites an assignment
\* made after its snapshot.  Only a reset and the cleanup of stale executors
\* without any active one, DeleteExecutors, compare no revision.
NoUnseenOverwrite ==
  [][\A e \in Executor : modRevision'[e] # modRevision[e] =>
       \/ ForceReset
       \/ \E s \in Session : /\ Guard(s) /\ work'[s] # work[s]
                             /\ pc[s] = "deleting" /\ e \in snap[s].stale
       \/ \E s \in Session : /\ Guard(s) /\ snap'[s] # snap[s]
                             /\ snap[s].modRevision[e] = modRevision[e]
                             /\ snap[s].assigned[e] = assigned[e]
       \/ \E a \in Server : /\ view'[a] # view[a]
                            /\ view[a].modRevision[e] = modRevision[e]
                            /\ view[a].assigned[e] = assigned[e]]_vars

\* A shard changes hands in one transaction: it loses its owner without getting
\* another only if the leader saw it drained or, in an ephemeral namespace,
\* reported as DONE, or in the cleanup of stale executors, or in a reset.
NoOwnershipGap ==
  [][ForceReset \/ \A k \in AllOwned \ AllOwned' :
       \E s \in Session :
         /\ Guard(s)
         /\ \/ /\ pc[s] = "planning" /\ snap'[s] # snap[s]
               /\ \/ k \in snap[s].drained
                  \/ NamespaceType = "ephemeral" /\ k \in snap[s].done
            \/ pc[s] = "deleting" /\ work'[s] # work[s]]_vars

-----------------------------------------------------------------------------
(* Safety of a fixed namespace, where only leaders write assignments. *)

\* No shard is in the assigned state of two executors, although two processors
\* may be in the middle of a rebalance at once.
SingleOwner ==
  \A d, e \in Executor : assigned[d] \cap assigned[e] # {} => d = e

\* While a leader's key exists nobody else has changed an assignment since the
\* leader read it: its plan is made from the assignments that it replaces.
FencedLeaderIsCurrent ==
  \A s \in Session : pc[s] = "planning" /\ Guard(s) =>
    snap[s].assigned = assigned /\ snap[s].modRevision = modRevision

\* An executor with an assigned state also has a heartbeat: no leader gives a
\* shard to an executor whose keys were deleted after it read the state.
AssignedHasHeartbeat ==
  \A e \in Executor : modRevision[e] # 0 => status[e] # "NONE"

-----------------------------------------------------------------------------
(* Safety of an ephemeral namespace. *)

DoublyOwned ==
  {k \in Shard : \E d, e \in Executor : d # e /\ k \in assigned[d] \cap assigned[e]}

\* Only a placement gives a shard a second owner, and only if the first owner
\* had no assigned state when the placement read the namespace: AssignShards
\* compares the revision of every record that its caller has read.  A rebalance
\* never does, although it leaves out the records of executors without shards.
OnlyUnreadOwnersClash ==
  [][\A k \in DoublyOwned' \ DoublyOwned : \E a \in Server :
       /\ phase[a] = "placing" /\ view'[a] # view[a]
       /\ k \in ToPlace(view[a], batch[a])
       /\ \E d \in Executor : k \in assigned[d] /\ view[a].modRevision[d] = 0]_vars

\* DeleteExecutors does not lose a shard: as its comment has it, the shards of
\* the deleted executors are to be reassigned.
DeleteKeepsShards ==
  [][\A s \in Session : pc[s] = "deleting" => AllOwned \subseteq AllOwned']_vars

\* A shard that is drained is not given to an executor until it is undrained,
\* as the API says of DrainShards.
DrainedNotAssigned ==
  [][\A e \in Executor : (assigned'[e] \ assigned[e]) \cap drainedShards = {}]_vars

-----------------------------------------------------------------------------
(* Liveness, for a service whose environment comes to rest. *)

\* The distribution that the rebalancing loop works towards: no stale executor
\* is left and, if there is an executor to assign to, only shards that are not
\* drained are owned, in a fixed namespace all of them, by assignable executors.
Settled ==
  LET st == GetState
  IN  /\ \A e \in Executor : Present(e) => fresh[e]
      /\ Assignable(st) # {} =>
           /\ AllOwned \cap drainedShards = {}
           /\ NamespaceType = "fixed" => Shard \ drainedShards \subseteq AllOwned
           /\ Owned(st, Assignable(st)) = AllOwned
           /\ ExecutorsToUnassign(st) = {}

\* Once the environment rests the namespace settles for good, whatever happened
\* to the leaders, their leases and their watches before.
Converges == <>[]Settled

\* One rebalance is enough.  If it ends without an error while the namespace is
\* still as the leader read it, the plan that it wrote or found in place settles
\* the namespace, and one that it wrote leaves no shard with two owners.  An
\* error of the initial rebalance is only logged; a later one retries at once.
RebalanceSettles ==
  [][\A s \in Session :
       /\ pc[s] = "planning" /\ pc'[s] \in {"waiting", "recording"}
       /\ watch[s] # "starting" /\ snap[s] = GetState
       => Settled' /\ (assigned' # assigned => SingleOwner')]_vars

\* A drained shard leaves its executor, as the API says of DrainShards.
DrainedIsRemoved ==
  \A k \in Shard : k \in drainedShards ~> (k \notin drainedShards \/ k \notin AllOwned)
=============================================================================
