-------------------------- MODULE EphemeralAssigner --------------------------
(***************************************************************************)
(* The assigner that every server runs for an ephemeral namespace.  It     *)
(* places a batch of requested shards that nobody owns yet, with the       *)
(* optimistic lock of AssignShards but without a leadership guard.  The    *)
(* batcher has at most one batch in flight per server.                     *)
(***************************************************************************)
EXTENDS ExecutorStore

CONSTANTS
  Server,      \* the servers of the service
  MaxRetries   \* versionConflictRetryMaxAttempts

ASSUME AssignerAssumption == MaxRetries \in Nat

VARIABLES
  phase,     \* what the server's batch is waiting for
  batch,     \* the requested shards of the batch in flight
  view,      \* the namespace state the current attempt read
  retries    \* the version conflicts the batch has met

assignerVars == <<phase, batch, view, retries>>

AssignerTypeOK ==
  /\ phase \in [Server -> {"idle", "reading", "placing"}]
  /\ batch \in [Server -> SUBSET Shard]
  /\ view \in [Server -> NamespaceState]
  /\ retries \in [Server -> 0..MaxRetries]

AssignerInit ==
  /\ phase = [a \in Server |-> "idle"]
  /\ batch = [a \in Server |-> {}]
  /\ view = [a \in Server |-> NoState]
  /\ retries = [a \in Server |-> 0]

\* resolveOwners: the requested shards that have to be placed.
ToPlace(st, B) ==
  {k \in B \ st.drained : \A e \in Executor : k \notin st.assigned[e]}

\* PlanInitialPlacement.  NAIVE always takes the executor with the fewest
\* shards, the lowest ID among equals, so none that got a shard would have
\* been passed over for another.  GREEDY goes by load, which may favour any.
\* Staleness plays no role here.
Placements(st, K) ==
  {pl \in [K -> st.active] :
     LET count(e) == Cardinality(st.assigned[e] \cup {k \in K : pl[k] = e})
     IN  Mode = "NAIVE" =>
           \A k \in K : \A f \in st.active \ {pl[k]} :
             \/ count(pl[k]) - 1 < count(f)
             \/ count(pl[k]) - 1 = count(f) /\ pl[k] < f}

\* mergePlacements: the records that the placement changes.
MergePlacements(st, pl) ==
  [e \in {pl[k] : k \in DOMAIN pl} |->
     st.assigned[e] \cup {k \in DOMAIN pl : pl[k] = e}]

\* Compared without the executors that are only read.
ComparedChanged(st, pl) == {pl[k] : k \in DOMAIN pl} \cap DOMAIN st.modRevision

\* The executors whose revision AssignShards compares: those with a record in
\* the state that was read, and those that are given one.
Compared(st, pl) ==
  {e \in Executor : st.modRevision[e] # 0} \cup {pl[k] : k \in DOMAIN pl}

-----------------------------------------------------------------------------
\* The batch ends: its callers get their answers or an error.
EndBatch(a) ==
  /\ phase' = [phase EXCEPT ![a] = "idle"]
  /\ batch' = [batch EXCEPT ![a] = {}]
  /\ view' = [view EXCEPT ![a] = NoState]
  /\ retries' = [retries EXCEPT ![a] = 0]

\* assignEphemeralBatch is called with the shard keys in B.
StartBatch(a, B) ==
  /\ phase[a] = "idle" /\ B # {}
  /\ phase' = [phase EXCEPT ![a] = "reading"]
  /\ batch' = [batch EXCEPT ![a] = B]
  /\ UNCHANGED <<view, retries, storeVars>>

\* GetState and resolveOwners.  Without a shard to place the batch is answered
\* from the state; without an active executor the placement is an error.
ReadNamespace(a) ==
  /\ phase[a] = "reading"
  /\ IF ToPlace(GetState, batch[a]) = {} \/ GetState.active = {}
     THEN EndBatch(a)
     ELSE /\ phase' = [phase EXCEPT ![a] = "placing"]
          /\ view' = [view EXCEPT ![a] = GetState]
          /\ UNCHANGED <<batch, retries>>
  /\ UNCHANGED storeVars

\* The retry policy gives up after MaxRetries conflicts.
RetriesExhausted(a) == retries[a] = MaxRetries

\* The write of one attempt.  Only a version conflict is retried.
AssignBatch(a, r) ==
  /\ phase[a] = "placing"
  /\ \E pl \in Placements(view[a], ToPlace(view[a], batch[a])) :
       LET Assign(ok) == AssignShards(TRUE, view[a], Compared(view[a], pl), {},
                                      MergePlacements(view[a], pl), r, ok)
       IN  \/ Assign(TRUE) /\ EndBatch(a)
           \/ /\ Assign(FALSE)
              /\ IF RetriesExhausted(a) THEN EndBatch(a)
                 ELSE /\ phase' = [phase EXCEPT ![a] = "reading"]
                      /\ view' = [view EXCEPT ![a] = NoState]
                      /\ retries' = [retries EXCEPT ![a] = @ + 1]
                      /\ UNCHANGED batch

\* The read or the write fails, or the batch times out, without effect.
BatchFails(a) ==
  /\ phase[a] # "idle"
  /\ EndBatch(a)
  /\ UNCHANGED storeVars
=============================================================================
