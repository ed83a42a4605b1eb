---------------------------- MODULE ExecutorStore ----------------------------
(***************************************************************************)
(* The keys that the service keeps in etcd for one namespace, and the      *)
(* transactions of executorStoreImpl that change them.                     *)
(*                                                                         *)
(* An executor owns several keys under one prefix.  Heartbeat, status and  *)
(* reported shards are always written together, so one variable, status,   *)
(* says whether they exist.  The assigned-state key carries the            *)
(* ModRevision that AssignShards compares.  A revision is only ever        *)
(* compared for equality, so any revision that no one remembers is as good *)
(* as a larger one: the writers below take a fresh one as a parameter.     *)
(***************************************************************************)
EXTENDS Integers, FiniteSets

CONSTANTS
  Executor,       \* executor IDs, ordered as the code sorts them
  Shard,          \* shard IDs: for a fixed namespace, exactly its shards
  Host,           \* hostnames
  NoHost,         \* an absent host metadata key
  HostOf,         \* the host an executor reports, NoHost if it reports none
  Revision,       \* the etcd revisions a run may use
  NamespaceType,  \* "fixed" or "ephemeral"
  Mode            \* the load balancing mode, "NAIVE" or "GREEDY"

ASSUME StoreAssumption ==
  /\ Executor \subseteq Nat
  /\ Revision \subseteq Nat \ {0}
  /\ NoHost \notin Host
  /\ HostOf \in [Executor -> Host \cup {NoHost}]
  /\ NamespaceType \in {"fixed", "ephemeral"}
  /\ Mode \in {"NAIVE", "GREEDY"}

VARIABLES
  status,         \* the status key, "NONE" when the executor has no heartbeat
  fresh,          \* the last heartbeat is no older than HeartbeatTTL
  reportedDone,   \* the shards the executor last reported as DONE
  hostname,       \* the host metadata key
  hasStats,       \* the executor has a shard statistics key
  assigned,       \* the shards in the assigned-state key
  modRevision,    \* the ModRevision of the assigned-state key, 0 if absent
  drainedShards,  \* the drained shard keys
  drainedHosts    \* the drained host keys

heartbeatKeys == <<status, fresh, reportedDone, hostname>>

assignmentKeys == <<assigned, modRevision>>

drainKeys == <<drainedShards, drainedHosts>>

storeVars == <<heartbeatKeys, hasStats, assignmentKeys, drainKeys>>

Status == {"ACTIVE", "DRAINING"}

StoreTypeOK ==
  /\ status \in [Executor -> Status \cup {"NONE"}]
  /\ fresh \in [Executor -> BOOLEAN]
  /\ reportedDone \in [Executor -> SUBSET Shard]
  /\ hostname \in [Executor -> Host \cup {NoHost}]
  /\ hasStats \in [Executor -> BOOLEAN]
  /\ assigned \in [Executor -> SUBSET Shard]
  /\ modRevision \in [Executor -> Revision \cup {0}]
  /\ drainedShards \in SUBSET Shard
  /\ drainedHosts \in SUBSET Host

\* An empty namespace: no key exists.
StoreInit ==
  /\ status = [e \in Executor |-> "NONE"]
  /\ fresh = [e \in Executor |-> FALSE]
  /\ reportedDone = [e \in Executor |-> {}]
  /\ hostname = [e \in Executor |-> NoHost]
  /\ hasStats = [e \in Executor |-> FALSE]
  /\ assigned = [e \in Executor |-> {}]
  /\ modRevision = [e \in Executor |-> 0]
  /\ drainedShards = {}
  /\ drainedHosts = {}

-----------------------------------------------------------------------------
(* Reading the namespace. *)

\* Any key makes an executor visible to GetState.
Present(e) == status[e] # "NONE" \/ modRevision[e] # 0 \/ hasStats[e]

\* Executor.IsAssignable, staleness aside.
IsActive(e) == status[e] = "ACTIVE" /\ hostname[e] \notin drainedHosts

\* identifyStaleExecutors: an executor without a heartbeat key has the zero
\* time as its last heartbeat, which is always too old.
IsStale(e) == Present(e) /\ ~fresh[e]

\* GetState reads everything in one transaction; the derived sets are what
\* its two callers compute from the snapshot before they write.
GetState ==
  [assigned    |-> assigned,
   modRevision |-> modRevision,
   active      |-> {e \in Executor : IsActive(e)},
   stale       |-> {e \in Executor : IsStale(e)},
   done        |-> UNION {reportedDone[e] : e \in Executor},
   drained     |-> drainedShards]

\* What a client holds that has read nothing.
NoState ==
  [assigned    |-> [e \in Executor |-> {}],
   modRevision |-> [e \in Executor |-> 0],
   active      |-> {},
   stale       |-> {},
   done        |-> {},
   drained     |-> {}]

NamespaceState ==
  [assigned    : [Executor -> SUBSET Shard],
   modRevision : [Executor -> Revision \cup {0}],
   active      : SUBSET Executor,
   stale       : SUBSET Executor,
   done        : SUBSET Shard,
   drained     : SUBSET Shard]

-----------------------------------------------------------------------------
(* Writing the namespace. *)

\* The THEN branch of a transaction that deletes every key of the executors
\* in D and puts a new assigned state for the executors in DOMAIN P, all at
\* revision r.  Deletes come first, as in AssignShards.
CommitAssignments(D, P, r) ==
  /\ assigned' = [e \in Executor |->
                    IF e \in DOMAIN P THEN P[e]
                    ELSE IF e \in D THEN {} ELSE assigned[e]]
  /\ modRevision' = [e \in Executor |->
                       IF e \in DOMAIN P THEN r
                       ELSE IF e \in D THEN 0 ELSE modRevision[e]]
  /\ status' = [e \in Executor |-> IF e \in D THEN "NONE" ELSE status[e]]
  /\ fresh' = [e \in Executor |-> e \notin D /\ fresh[e]]
  /\ reportedDone' = [e \in Executor |-> IF e \in D THEN {} ELSE reportedDone[e]]
  /\ hostname' = [e \in Executor |-> IF e \in D THEN NoHost ELSE hostname[e]]
  /\ hasStats' = [e \in Executor |-> e \notin D /\ hasStats[e]]
  /\ UNCHANGED drainKeys

\* Unmodified without the comparisons.
UnmodifiedAlways(snap, C) == C \subseteq DOMAIN snap.modRevision

\* The optimistic lock of AssignShards: every executor in C still has the
\* assigned-state revision that the snapshot saw.
Unmodified(snap, C) == \A e \in C : modRevision[e] = snap.modRevision[e]

\* AssignShards with its outer guard and its nested comparison.  The caller
\* learns through ok whether the transaction took effect; a request without
\* operations returns before any transaction is sent.
AssignShards(guard, snap, C, D, P, r, ok) ==
  IF D = {} /\ DOMAIN P = {}
  THEN ok /\ UNCHANGED storeVars
  ELSE \/ /\ guard /\ Unmodified(snap, C \cup D) /\ ok
          /\ CommitAssignments(D, P, r)
       \/ /\ ~(guard /\ Unmodified(snap, C \cup D)) /\ ~ok
          /\ UNCHANGED storeVars

\* One batch of DeleteExecutors: only the guard is compared, not the revisions.
DeleteExecutors(D) == CommitAssignments(D, <<>>, 0)

\* Puts or deletes the statistics keys after an assignment, without a guard.
RecordShardStatisticsBatch(puts, deletes) ==
  /\ hasStats' = [e \in Executor |->
                    e \in puts \/ (hasStats[e] /\ e \notin deletes)]
  /\ UNCHANGED <<heartbeatKeys, assignmentKeys, drainKeys>>

\* The heartbeat handler's writes.  The host is left as it is when the handler
\* read an equal one before, or when the executor sends none.  Statistics are
\* kept in GREEDY mode, for the assigned shards of an executor whose assigned
\* state is still the one the handler read.
RecordHeartbeat(e, st, done, host, stats) ==
  /\ host \in {hostname[e], HostOf[e]}
  /\ stats => Mode = "GREEDY" /\ assigned[e] # {}
  /\ status' = [status EXCEPT ![e] = st]
  /\ fresh' = [fresh EXCEPT ![e] = TRUE]
  /\ reportedDone' = [reportedDone EXCEPT ![e] = done]
  /\ hostname' = [hostname EXCEPT ![e] = host]
  /\ hasStats' = [hasStats EXCEPT ![e] = @ \/ stats]
  /\ UNCHANGED <<assignmentKeys, drainKeys>>

\* HeartbeatTTL passes without a heartbeat.
HeartbeatExpires(e) ==
  /\ fresh[e]
  /\ fresh' = [fresh EXCEPT ![e] = FALSE]
  /\ UNCHANGED <<status, reportedDone, hostname, hasStats, assignmentKeys, drainKeys>>

DrainShards(K) ==
  /\ drainedShards' = drainedShards \cup K
  /\ UNCHANGED <<heartbeatKeys, hasStats, assignmentKeys, drainedHosts>>

UndrainShards(K) ==
  /\ drainedShards' = drainedShards \ K
  /\ UNCHANGED <<heartbeatKeys, hasStats, assignmentKeys, drainedHosts>>

DrainHosts(H) ==
  /\ drainedHosts' = drainedHosts \cup H
  /\ UNCHANGED <<heartbeatKeys, hasStats, assignmentKeys, drainedShards>>

UndrainHosts(H) ==
  /\ drainedHosts' = drainedHosts \ H
  /\ UNCHANGED <<heartbeatKeys, hasStats, assignmentKeys, drainedShards>>

\* Deletes every key of the namespace.  The leader keys are deleted in the same
\* operation; LeaderElection has that part.
ResetNamespace ==
  /\ status' = [e \in Executor |-> "NONE"]
  /\ fresh' = [e \in Executor |-> FALSE]
  /\ reportedDone' = [e \in Executor |-> {}]
  /\ hostname' = [e \in Executor |-> NoHost]
  /\ hasStats' = [e \in Executor |-> FALSE]
  /\ assigned' = [e \in Executor |-> {}]
  /\ modRevision' = [e \in Executor |-> 0]
  /\ drainedShards' = {}
  /\ drainedHosts' = {}
=============================================================================
