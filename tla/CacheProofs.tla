----------------------------- MODULE CacheProofs -----------------------------
(***************************************************************************)
(* Proofs about ShardCache, for any number of shards, executors, callers,  *)
(* streams and revisions: the types, the assignment version, what calls    *)
(* are answered, and that cache and streams implement NamespaceView.       *)
(***************************************************************************)
EXTENDS ShardCache, SequenceTheorems, TLAPS

CacheNext == StoreWrite \/ Serving \/ ShutDown

-----------------------------------------------------------------------------
(* Sequences that grow at their end. *)

LEMMA Appended ==
  ASSUME NEW S, NEW s \in Seq(S), NEW x \in S
  PROVE  /\ Append(s, x) \in Seq(S)
         /\ Len(s) \in Nat
         /\ Len(Append(s, x)) = Len(s) + 1
         /\ \A i \in 1..Len(s) : Append(s, x)[i] = s[i] /\ s[i] \in S
         /\ Append(s, x)[Len(s) + 1] = x
         /\ SubSeq(Append(s, x), 1, Len(s)) = s
<1>1. /\ Append(s, x) \in Seq(S)
      /\ Len(s) \in Nat
      /\ Len(Append(s, x)) = Len(s) + 1
      /\ \A i \in 1..Len(s) : Append(s, x)[i] = s[i] /\ s[i] \in S
      /\ Append(s, x)[Len(s) + 1] = x
  BY AppendProperties, LenProperties, ElementOfSeq
<1>2. SubSeq(Append(s, x), 1, Len(s)) = s
  <2> DEFINE t == SubSeq(Append(s, x), 1, Len(s))
  <2>1. /\ t \in Seq(S) /\ Len(t) = Len(s)
        /\ \A i \in 1..Len(t) : t[i] = Append(s, x)[i]
    BY <1>1, SubSeqProperties
  <2> QED BY <1>1, <2>1, SeqEqual
<1> QED BY <1>1, <1>2

LEMMA NowTyped ==
  ASSUME CacheTypeOK
  PROVE  Now \in Snapshot /\ Revision \in 1..MaxRevision
<1>1. history \in Seq(Snapshot) /\ Len(history) \in 1..MaxRevision
  BY DEF CacheTypeOK
<1>2. \A i \in 1..Len(history) : history[i] \in Snapshot
  BY <1>1, ElementOfSeq
<1> QED BY <1>1, <1>2, CacheAssumption DEF Now, Revision

LEMMA WatchTyped ==
  ASSUME CacheTypeOK
  PROVE  /\ Revision \in Nat /\ Revision >= 1 /\ Len(history) = Revision
         /\ watched \in 0..Revision /\ watched \in Nat /\ cache.revision \in 0..Revision
         /\ history \in Seq(Snapshot) /\ refresh \in [Refresher -> RefreshState]
<1>1. Revision \in Nat /\ Revision >= 1 BY NowTyped, CacheAssumption
<1>2. watched \in 0..Revision BY Zenon DEF CacheTypeOK, Revision
<1>3. watched \in Nat BY <1>1, <1>2
<1>4. /\ history \in Seq(Snapshot) /\ refresh \in [Refresher -> RefreshState]
      /\ cache \in [revision : 0..Len(history), state : Snapshot,
                    owner : [Shard -> Executor \cup {Nobody}]]
  BY Zenon DEF CacheTypeOK
<1>5. cache.revision \in 0..Revision BY ONLY <1>4 DEF Revision
<1> QED BY <1>1, <1>2, <1>3, <1>4, <1>5, Zenon DEF Revision

\* Every write is a commit of a snapshot, and one that does not move the version
\* changes nothing that spectators can see.
LEMMA WritesCommit ==
  ASSUME CacheTypeOK, StoreWrite
  PROVE  \E state \in Snapshot, evs \in SUBSET Event, touch \in BOOLEAN :
           Commit(state, evs, touch) /\ (touch \/ state = Now)
<1> Now \in Snapshot BY NowTyped
<1>0. \A key \in {"assigned_state", "metadata", "drained_shard"}, b \in BOOLEAN :
        Changed(key, b) \in SUBSET Event
  BY DEF Changed, Event
<1>e. EmptyNamespace \in Snapshot BY DEF EmptyNamespace, Snapshot
<1>1. ASSUME NEW e \in Executor, NEW S \in SUBSET Shard, AssignShards(e, S)
      PROVE  \E state \in Snapshot, evs \in SUBSET Event, touch \in BOOLEAN :
               Commit(state, evs, touch) /\ (touch \/ state = Now)
  <2>1. [Now EXCEPT !.assigned[e] = S] \in Snapshot BY <1>1 DEF Snapshot
  <2> QED BY <1>0, <1>1, <2>1, Zenon DEF AssignShards
<1>2. ASSUME NEW e \in Executor, NEW m \in Meta \cup {Nobody}, RecordHeartbeat(e, m)
      PROVE  \E state \in Snapshot, evs \in SUBSET Event, touch \in BOOLEAN :
               Commit(state, evs, touch) /\ (touch \/ state = Now)
  <2>1. CASE m = Nobody BY <1>2, <2>1, Zenon DEF RecordHeartbeat
  <2>2. CASE m # Nobody
    <3>1. /\ [Now EXCEPT !.meta[e] = m] \in Snapshot
          /\ m = Now.meta[e] => [Now EXCEPT !.meta[e] = m] = Now
      BY <1>2 DEF Snapshot
    <3>2. Commit([Now EXCEPT !.meta[e] = m], Changed("metadata", m # Now.meta[e]),
                 m # Now.meta[e])
      BY <1>2, <2>2 DEF RecordHeartbeat
    <3> QED BY <1>0, <3>1, <3>2, Zenon
  <2> QED BY <2>1, <2>2
<1>3. ASSUME NEW e \in Executor, DeleteExecutors(e)
      PROVE  \E state \in Snapshot, evs \in SUBSET Event, touch \in BOOLEAN :
               Commit(state, evs, touch) /\ (touch \/ state = Now)
  <2>1. [Now EXCEPT !.assigned[e] = {}, !.meta[e] = Nobody] \in Snapshot
    BY <1>3, Zenon DEF Snapshot
  <2> QED BY <1>0, <1>3, <2>1, Zenon DEF DeleteExecutors
<1>4. ASSUME NEW s \in Shard, DrainShards(s) \/ UndrainShards(s)
      PROVE  \E state \in Snapshot, evs \in SUBSET Event, touch \in BOOLEAN :
               Commit(state, evs, touch) /\ (touch \/ state = Now)
  <2>1. /\ [Now EXCEPT !.drained = @ \cup {s}] \in Snapshot
        /\ [Now EXCEPT !.drained = @ \ {s}] \in Snapshot
    BY <1>4 DEF Snapshot
  <2> QED BY <1>0, <1>4, <2>1, Zenon DEF DrainShards, UndrainShards
<1>5. ASSUME ResetNamespace
      PROVE  \E state \in Snapshot, evs \in SUBSET Event, touch \in BOOLEAN :
               Commit(state, evs, touch) /\ (touch \/ state = Now)
  BY <1>0, <1>5, <1>e, Zenon DEF ResetNamespace
<1> QED BY <1>1, <1>2, <1>3, <1>4, <1>5 DEF StoreWrite, Written

-----------------------------------------------------------------------------
(***************************************************************************)
(* The inductive invariant.  What a refresh holds has been read from the   *)
(* store, and the cache is one revision of it, state and owners.           *)
(***************************************************************************)
ReadsExist == \A p \in Refresher : refresh[p].revision <= Revision

CacheIsRevision ==
  IF cache.revision = 0
  THEN cache.state = EmptyNamespace /\ cache.owner = [s \in Shard |-> Nobody]
  ELSE /\ cache.state = history[cache.revision]
       /\ cache.owner \in OwnerMap(history[cache.revision])

CacheInv == CacheTypeOK /\ ReadsExist /\ CacheIsRevision

-----------------------------------------------------------------------------
(* Types. *)

LEMMA CacheTypeInit ==
  ASSUME CacheInit
  PROVE  CacheTypeOK
<1>1. EmptyNamespace \in Snapshot BY DEF EmptyNamespace, Snapshot
<1>2. /\ history \in Seq(Snapshot) /\ Len(history) = 1
      /\ events \in Seq(SUBSET Event) /\ Len(events) = 1
      /\ versions \in Seq(Revisions) /\ Len(versions) = 1
  BY <1>1, CacheAssumption DEF CacheInit, Revisions
<1>3. call \in [Caller -> CallState]
  <2>1. NoAnswer \in Answer
    BY CacheAssumption DEF NoAnswer, Answer, Revisions
  <2> QED BY <2>1 DEF CacheInit, CallState
<1>4. refresh \in [Refresher -> RefreshState]
  BY CacheAssumption DEF CacheInit, Refresher, RefreshState, Revisions
<1>5. /\ cache \in [revision : 0..Len(history), state : Snapshot,
                    owner : [Shard -> Executor \cup {Nobody}]]
      /\ sent \in [Stream -> [revision : 0..Len(history), state : Snapshot]]
      /\ watched \in 0..Len(history)
  BY <1>1, <1>2 DEF CacheInit
<1>6. /\ watch \in {"off", "retry", "created", "up", "closed"}
      /\ signal \in BOOLEAN /\ notify \in [Stream -> BOOLEAN]
      /\ stream \in [Stream -> {"off", "reading", "sending", "streaming"}]
      /\ delay \in {"reconcile", "retry"}
  BY Zenon DEF CacheInit
<1> QED BY <1>2, <1>3, <1>4, <1>5, <1>6, CacheAssumption DEF CacheTypeOK

LEMMA CommitTyped ==
  ASSUME CacheTypeOK, NEW state \in Snapshot, NEW evs \in SUBSET Event, NEW touch \in BOOLEAN,
         Commit(state, evs, touch)
  PROVE  CacheTypeOK'
<1> DEFINE v == IF touch THEN Revision + 1 ELSE versions[Revision]
<1>1. Revision \in 1..MaxRevision /\ Revision < MaxRevision
  BY NowTyped DEF Commit
<1>2. v \in Revisions
  <2>1. versions \in Seq(Revisions) /\ Revision \in 1..Len(versions)
    BY <1>1, CacheAssumption DEF CacheTypeOK, Revision
  <2>2. versions[Revision] \in Revisions BY <2>1, ElementOfSeq
  <2> QED BY <1>1, <2>2, CacheAssumption DEF Revisions
<1>3. /\ history' \in Seq(Snapshot) /\ Len(history') = Len(history) + 1
      /\ events' \in Seq(SUBSET Event) /\ Len(events') = Len(events) + 1
      /\ versions' \in Seq(Revisions) /\ Len(versions') = Len(versions) + 1
  <2>1. /\ history \in Seq(Snapshot) /\ events \in Seq(SUBSET Event)
        /\ versions \in Seq(Revisions)
    BY DEF CacheTypeOK
  <2>2. history' = Append(history, state) /\ events' = Append(events, evs)
        /\ versions' = Append(versions, v)
    BY DEF Commit
  <2> HIDE DEF v
  <2> QED BY <1>2, <2>1, <2>2, Appended
<1>4. Len(history) \in Nat /\ Len(history') \in 1..MaxRevision
      /\ 0..Len(history) \subseteq 0..Len(history')
  BY <1>1, <1>3, CacheAssumption DEF Revision
<1>5. UNCHANGED <<watchVars, refresh, delay, cache, call, streamVars>>
  BY DEF Commit
<1>6. /\ cache' \in [revision : 0..Len(history'), state : Snapshot,
                     owner : [Shard -> Executor \cup {Nobody}]]
      /\ sent' \in [Stream -> [revision : 0..Len(history'), state : Snapshot]]
      /\ watched' \in 0..Len(history')
  BY <1>4, <1>5 DEF CacheTypeOK, watchVars, streamVars
<1> QED BY <1>3, <1>4, <1>5, <1>6 DEF CacheTypeOK, watchVars, streamVars

LEMMA FinishTyped ==
  ASSUME CacheTypeOK, NEW p \in Refresher, NEW ok \in BOOLEAN, Finish(p, ok)
  PROVE  /\ refresh' \in [Refresher -> RefreshState]
         /\ delay' \in {"reconcile", "retry"}
         /\ call' \in [Caller -> CallState]
<1>1. [pc |-> "idle", revision |-> 0] \in RefreshState
  BY CacheAssumption DEF Revisions, RefreshState
<1>2. ASSUME NEW c \in Caller PROVE Wake(c, ok) \in CallState
  <2>1. call[c] \in CallState BY DEF CacheTypeOK
  <2>2. [call[c] EXCEPT !.pc = "returned", !.answer.kind = "error"] \in CallState
    BY <2>1, Zenon DEF CallState, Answer
  <2>3. [call[c] EXCEPT !.pc = IF @ = "drainedMiss" THEN "drainedAgain" ELSE "ownerAgain"]
          \in CallState
    BY <2>1 DEF CallState
  <2> QED BY <2>1, <2>2, <2>3 DEF Wake
<1> QED BY <1>1, <1>2 DEF Finish, CacheTypeOK

LEMMA RefreshMoves ==
  ASSUME CacheTypeOK, NEW p \in Refresher,
         NEW to \in {"off", "idle", "reading", "read", "notify"}
  PROVE  [refresh EXCEPT ![p].pc = to] \in [Refresher -> RefreshState]
<1>1. refresh \in [Refresher -> RefreshState] BY DEF CacheTypeOK
<1>2. [refresh[p] EXCEPT !.pc = to] \in RefreshState BY <1>1 DEF RefreshState
<1> QED BY <1>1, <1>2

LEMMA CallMoves ==
  ASSUME CacheTypeOK, NEW c \in Caller,
         NEW to \in {"drained", "drainedMiss", "owner", "ownerMiss"}
  PROVE  Call(c, to) \in [Caller -> CallState]
<1>1. call \in [Caller -> CallState] BY DEF CacheTypeOK
<1>2. [call[c] EXCEPT !.pc = to] \in CallState BY <1>1 DEF CallState
<1> QED BY <1>1, <1>2 DEF Call

LEMMA ReturnTyped ==
  ASSUME CacheTypeOK, NEW c \in Caller, NEW owner \in Executor \cup {Nobody},
         NEW kind \in {"owner", "drained", "notFound", "cancelled"}, Return(c, kind, owner)
  PROVE  call' \in [Caller -> CallState]
<1>1. call \in [Caller -> CallState] BY DEF CacheTypeOK
<1>2. cache.revision \in Revisions
  BY NowTyped, CacheAssumption DEF CacheTypeOK, Revisions, Revision
<1>3. [kind |-> kind, owner |-> owner, revision |-> cache.revision] \in Answer
  BY <1>2 DEF Answer
<1>4. [call[c] EXCEPT !.pc = "returned",
         !.answer = [kind |-> kind, owner |-> owner, revision |-> cache.revision]] \in CallState
  BY <1>1, <1>3, Zenon DEF CallState
<1> QED BY <1>1, <1>4 DEF Return

\* Replace moves the cache forward to a revision that was read.
LEMMA ReplaceReads ==
  ASSUME CacheTypeOK, ReadsExist, NEW p \in Refresher, Replace(p)
  PROVE  /\ cache'.revision \in (cache.revision + 1)..Revision
         /\ cache'.state = history[cache'.revision]
         /\ cache'.owner \in OwnerMap(history[cache'.revision])
         /\ cache' \in [revision : 0..Len(history), state : Snapshot,
                        owner : [Shard -> Executor \cup {Nobody}]]
<1> DEFINE r == refresh[p].revision
<1>1. PICK owner \in OwnerMap(history[r]) :
        cache' = [revision |-> r, state |-> history[r], owner |-> owner]
  BY DEF Replace, applyNamespaceState
<1>2. /\ cache.revision \in Nat /\ Revision \in Nat /\ r \in Nat
      /\ r > cache.revision /\ r <= Revision
  <2>1. Revision \in Nat /\ cache.revision \in 0..Revision /\ refresh[p] \in RefreshState
    BY WatchTyped
  <2>2. cache.revision \in Nat BY <2>1
  <2>3. r \in Nat BY <2>1, CacheAssumption DEF RefreshState, Revisions
  <2>4. r > cache.revision BY Zenon DEF Replace, Newer
  <2>5. r <= Revision BY Zenon DEF ReadsExist
  <2> QED BY <2>1, <2>2, <2>3, <2>4, <2>5, Zenon
<1>3. history[r] \in Snapshot
  BY <1>2, ElementOfSeq DEF CacheTypeOK, Revision
<1>4. owner \in [Shard -> Executor \cup {Nobody}]
  BY <1>1 DEF OwnerMap
<1> QED BY <1>1, <1>2, <1>3, <1>4 DEF Revision

LEMMA CacheTypeNext ==
  ASSUME CacheTypeOK, ReadsExist, [CacheNext]_cacheVars
  PROVE  CacheTypeOK'
<1>1. CASE StoreWrite
  BY <1>1, WritesCommit, CommitTyped
<1>2. CASE Start
  BY <1>2, RefreshMoves DEF Start, CacheTypeOK, storeVars, streamVars, Refresher
<1>3. CASE WatchStep \/ WatchFault \/ WatchStops
  <2>1. Len(history) \in Nat /\ UNCHANGED <<storeVars, refresh, delay, cache, call, streamVars>>
    BY <1>3, NowTyped, CacheAssumption DEF WatchStep, WatchFault, WatchStops, Revision
  <2>2. watch' \in {"off", "retry", "created", "up", "closed"}
        /\ watched' \in 0..Len(history)
    BY <1>3, <2>1
      DEF WatchStep, WatchFault, WatchStops, WatchCreated, WatchEvent, WatchFails,
       StopWatch, CacheTypeOK, Revision
  <2>3. signal' \in BOOLEAN
    BY <1>3, Zenon
      DEF WatchStep, WatchFault, WatchStops, WatchCreated, WatchEvent, WatchFails,
       StopWatch, CacheTypeOK
  <2> QED BY <2>1, <2>2, <2>3 DEF CacheTypeOK, storeVars, streamVars
<1>4. CASE \/ ChangeSignalled \/ \E why \in {"reconcile", "retry"} : TimerFires(why)
           \/ \E stopped \in BOOLEAN : LoopExits(stopped)
  <2>1. refresh' \in [Refresher -> RefreshState]
    BY <1>4, RefreshMoves DEF ChangeSignalled, TimerFires, LoopExits, StartRead, Refresher
  <2>2. signal' \in BOOLEAN
    BY <1>4, Zenon DEF ChangeSignalled, TimerFires, LoopExits, CacheTypeOK, watchVars
  <2>3. UNCHANGED <<storeVars, watch, watched, delay, cache, call, streamVars>>
    BY <1>4 DEF ChangeSignalled, TimerFires, LoopExits, watchVars
  <2> QED BY <2>1, <2>2, <2>3 DEF CacheTypeOK, storeVars, streamVars
<1>5. ASSUME NEW p \in Refresher, GetAssignmentState(p) PROVE CacheTypeOK'
  <2>1. [pc |-> "read", revision |-> Revision] \in RefreshState
    BY NowTyped, CacheAssumption DEF Revisions, RefreshState
  <2> QED BY <1>5, <2>1
    DEF GetAssignmentState, CacheTypeOK, storeVars, watchVars, streamVars
<1>6. ASSUME NEW p \in Refresher, RefreshFails(p) \/ SkipStale(p) PROVE CacheTypeOK'
  BY <1>6, FinishTyped, Zenon
    DEF RefreshFails, SkipStale, CacheTypeOK, storeVars, watchVars, streamVars
<1>7. ASSUME NEW p \in Refresher, NotifySubscribers(p) PROVE CacheTypeOK'
  <2>1. notify' \in [Stream -> BOOLEAN] BY <1>7, Zenon DEF NotifySubscribers
  <2> QED
    BY <1>7, <2>1, FinishTyped, Zenon
      DEF NotifySubscribers, CacheTypeOK, storeVars, watchVars
<1>8. ASSUME NEW p \in Refresher, Replace(p) PROVE CacheTypeOK'
  <2>1. refresh' \in [Refresher -> RefreshState] BY <1>8, RefreshMoves, Zenon DEF Replace
  <2>2. cache' \in [revision : 0..Len(history), state : Snapshot,
                    owner : [Shard -> Executor \cup {Nobody}]]
    BY <1>8, ReplaceReads
  <2> QED BY <1>8, <2>1, <2>2 DEF Replace, CacheTypeOK, storeVars, watchVars, streamVars
<1>9. ASSUME NEW c \in Caller, GetShardOwner(c) \/ CallerStep(c) \/ CallCancelled(c)
      PROVE  CacheTypeOK'
  <2>1. call' \in [Caller -> CallState]
    <3>1. cache.owner[call[c].shard] \in Executor \cup {Nobody}
      BY DEF CacheTypeOK, CallState
    <3> QED
      BY <1>9, <3>1, CallMoves, ReturnTyped
      DEF GetShardOwner, CallerStep, IsShardDrained, getShardOwnerInMap, CallCancelled,
          refreshSingleFlight
  <2>2. refresh' \in [Refresher -> RefreshState]
    <3>1. refresh \in [Refresher -> RefreshState] BY DEF CacheTypeOK
    <3>2. UNCHANGED refresh \/ StartRead("flight")
      BY <1>9
        DEF GetShardOwner, CallerStep, IsShardDrained, getShardOwnerInMap, CallCancelled,
         refreshSingleFlight
    <3> QED BY <3>1, <3>2, RefreshMoves DEF StartRead, Refresher
  <2>3. CallUnchanged
    BY <1>9 DEF GetShardOwner, CallerStep, IsShardDrained, getShardOwnerInMap, CallCancelled
  <2> QED BY <2>1, <2>2, <2>3
    DEF CallUnchanged, CacheTypeOK, storeVars, watchVars, streamVars
<1>10. ASSUME NEW t \in Stream, OpenStream(t) \/ StreamStep(t) \/ CloseStream(t)
       PROVE  CacheTypeOK'
  <2>1. notify' \in [Stream -> BOOLEAN]
    BY <1>10, Zenon
      DEF OpenStream, StreamStep, SendState, SendReturns, Notified, CloseStream,
       CacheTypeOK
  <2>2. stream' \in [Stream -> {"off", "reading", "sending", "streaming"}]
    BY <1>10, Zenon
      DEF OpenStream, StreamStep, SendState, SendReturns, Notified, CloseStream,
       CacheTypeOK
  <2>4. sent' \in [Stream -> [revision : 0..Len(history), state : Snapshot]]
    <3>1. [revision |-> cache.revision, state |-> cache.state]
            \in [revision : 0..Len(history), state : Snapshot]
      BY DEF CacheTypeOK
    <3>2. sent \in [Stream -> [revision : 0..Len(history), state : Snapshot]]
      BY DEF CacheTypeOK
    <3>3. UNCHANGED sent
          \/ sent' = [sent EXCEPT ![t] = [revision |-> cache.revision, state |-> cache.state]]
      BY <1>10 DEF OpenStream, StreamStep, SendState, SendReturns, Notified, CloseStream
    <3> QED BY <3>1, <3>2, <3>3
  <2>3. StreamUnchanged
    BY <1>10 DEF OpenStream, StreamStep, SendState, SendReturns, Notified, CloseStream
  <2> QED BY <2>1, <2>2, <2>3, <2>4 DEF StreamUnchanged, CacheTypeOK, storeVars, watchVars
<1>11. CASE UNCHANGED cacheVars
  BY <1>11 DEF cacheVars, CacheTypeOK, storeVars, watchVars, streamVars
<1> QED
  BY <1>1, <1>2, <1>3, <1>4, <1>5, <1>6, <1>7, <1>8, <1>9, <1>10, <1>11
  DEF CacheNext, Serving, ShutDown, RefreshStep

-----------------------------------------------------------------------------
(* The invariant. *)

\* A step leaves the store alone, or appends one revision and does nothing else.
LEMMA StoreGrows ==
  ASSUME CacheTypeOK, [CacheNext]_cacheVars
  PROVE  \/ UNCHANGED storeVars
         \/ /\ Revision' = Revision + 1
            /\ history = SubSeq(history', 1, Revision)
            /\ \A i \in 1..Revision : history'[i] = history[i]
            /\ UNCHANGED <<refresh, cache, call, sent>>
<1>1. CASE StoreWrite
  <2>1. PICK state \in Snapshot, evs \in SUBSET Event, touch \in BOOLEAN :
          Commit(state, evs, touch)
    BY <1>1, WritesCommit
  <2> QED BY SMTT(60), <2>1, Appended DEF Commit, CacheTypeOK, Revision, streamVars
<1>2. CASE Serving \/ ShutDown \/ UNCHANGED cacheVars
  BY <1>2, Zenon
 
    DEF Serving, ShutDown, cacheVars, Start, WatchStep, WatchFault, WatchStops, ChangeSignalled,
      TimerFires, LoopExits, RefreshStep, GetAssignmentState, Replace, SkipStale,
      NotifySubscribers, RefreshFails, GetShardOwner, CallerStep, IsShardDrained,
      getShardOwnerInMap, CallCancelled, CallUnchanged, OpenStream, StreamStep, SendState,
      SendReturns, Notified, CloseStream, StreamUnchanged
<1> QED BY <1>1, <1>2 DEF CacheNext

\* Only Replace changes the cache.
LEMMA OnlyReplace ==
  ASSUME [CacheNext]_cacheVars
  PROVE  UNCHANGED cache \/ \E p \in Refresher : Replace(p)
BY Zenon DEF CacheNext, StoreWrite, Written, AssignShards, RecordHeartbeat, DeleteExecutors,
       DrainShards, UndrainShards, ResetNamespace, Commit,
       Serving, ShutDown, cacheVars, Start, WatchStep, WatchFault, WatchStops, ChangeSignalled,
       TimerFires, LoopExits, RefreshStep, GetAssignmentState, SkipStale,
       NotifySubscribers, RefreshFails, GetShardOwner, CallerStep, IsShardDrained,
       getShardOwnerInMap, CallCancelled, CallUnchanged, OpenStream, StreamStep, SendState,
       SendReturns, Notified, CloseStream, StreamUnchanged

LEMMA CacheInvInit ==
  ASSUME CacheInit
  PROVE  CacheInv
<1>1. ReadsExist
  <2>1. Revision = 1 BY DEF CacheInit, Revision
  <2>2. \A p \in Refresher : refresh[p].revision = 0 BY DEF CacheInit
  <2> QED BY <2>1, <2>2 DEF ReadsExist
<1>2. CacheIsRevision BY DEF CacheInit, CacheIsRevision
<1> QED BY <1>1, <1>2, CacheTypeInit DEF CacheInv

LEMMA ReadsExistNext ==
  ASSUME CacheInv, [CacheNext]_cacheVars
  PROVE  ReadsExist'
<1>0. /\ Revision \in Nat
      /\ refresh \in [Refresher -> RefreshState]
      /\ \A p \in Refresher : refresh[p].revision \in Nat /\ refresh[p].revision <= Revision
  <2>1. Revision \in Nat /\ refresh \in [Refresher -> RefreshState]
    BY WatchTyped, Zenon DEF CacheInv
  <2>2. ASSUME NEW p \in Refresher PROVE refresh[p].revision \in Nat
    <3>1. refresh[p] \in RefreshState BY <2>1, Zenon
    <3> QED BY ONLY <3>1, CacheAssumption DEF RefreshState, Revisions
  <2>3. \A p \in Refresher : refresh[p].revision <= Revision BY Zenon
    DEF CacheInv, ReadsExist
  <2> QED BY <2>1, <2>2, <2>3, Zenon
<1>1. \/ UNCHANGED refresh
      \/ \E p \in Refresher, to \in {"off", "idle", "reading", "notify"} :
           refresh' = [refresh EXCEPT ![p].pc = to]
      \/ \E p \in Refresher : refresh' = [refresh EXCEPT ![p] = [pc |-> "idle", revision |-> 0]]
      \/ \E p \in Refresher :
           refresh' = [refresh EXCEPT ![p] = [pc |-> "read", revision |-> Revision]]
  <2>1. CASE StoreWrite BY <2>1, WritesCommit DEF CacheInv, Commit
  <2>2. CASE \/ Start \/ ChangeSignalled \/ \E why \in {"reconcile", "retry"} : TimerFires(why)
             \/ \E stopped \in BOOLEAN : LoopExits(stopped)
    BY <2>2 DEF Start, ChangeSignalled, TimerFires, LoopExits, StartRead, Refresher
  <2>3. CASE \E p \in Refresher : RefreshStep(p) \/ RefreshFails(p)
    BY <2>3, Zenon DEF RefreshStep, RefreshFails, GetAssignmentState, Replace, SkipStale,
       NotifySubscribers, Finish
  <2>4. CASE \E c \in Caller : GetShardOwner(c) \/ CallerStep(c) \/ CallCancelled(c)
    <3>1. UNCHANGED refresh \/ StartRead("flight")
      BY <2>4
        DEF GetShardOwner, CallerStep, IsShardDrained, getShardOwnerInMap, CallCancelled,
         refreshSingleFlight
    <3> QED BY <3>1 DEF StartRead, Refresher
  <2>5. CASE \/ WatchStep \/ WatchFault \/ WatchStops \/ UNCHANGED cacheVars
             \/ \E t \in Stream : OpenStream(t) \/ StreamStep(t) \/ CloseStream(t)
    BY <2>5
      DEF WatchStep, WatchFault, WatchStops, cacheVars, OpenStream, StreamStep, SendState,
       SendReturns, Notified, CloseStream, StreamUnchanged
  <2> QED BY <2>1, <2>2, <2>3, <2>4, <2>5 DEF CacheNext, Serving, ShutDown
<1>2. Revision' = Revision \/ (Revision' = Revision + 1 /\ UNCHANGED refresh)
  BY StoreGrows DEF CacheInv, storeVars, Revision
<1> QED BY <1>0, <1>1, <1>2 DEF ReadsExist, RefreshState

LEMMA CacheIsRevisionNext ==
  ASSUME CacheInv, [CacheNext]_cacheVars
  PROVE  CacheIsRevision'
<1>1. CASE \E p \in Refresher : Replace(p)
  <2>1. PICK p \in Refresher : Replace(p) BY <1>1
  <2>2. UNCHANGED history BY <2>1 DEF Replace, storeVars
  <2>3. /\ cache'.revision \in (cache.revision + 1)..Revision
        /\ cache'.state = history[cache'.revision]
        /\ cache'.owner \in OwnerMap(history[cache'.revision])
        /\ cache.revision \in Nat
    BY SMTT(60), <2>1, ReplaceReads DEF CacheInv, CacheTypeOK
  <2>4. cache'.revision # 0
    <3> DEFINE r == cache.revision
               q == cache'.revision
    <3>1. q \in (r + 1)..Revision /\ r \in Nat BY <2>3, Zenon
    <3> HIDE DEF r, q
    <3>2. q # 0 BY <3>1
    <3> QED BY <3>2, Zenon DEF q
  <2> QED BY <2>2, <2>3, <2>4, Zenon DEF CacheIsRevision, OwnerMap
<1>2. CASE UNCHANGED cache
  <2>1. cache.revision \in 0..Revision /\ Revision \in Nat
    BY NowTyped, CacheAssumption DEF CacheInv, CacheTypeOK, Revision
  <2>2. cache.revision # 0 => history'[cache.revision] = history[cache.revision]
    BY <2>1, StoreGrows DEF CacheInv, storeVars
  <2> QED BY <1>2, <2>2 DEF CacheInv, CacheIsRevision, OwnerMap
<1> QED BY <1>1, <1>2, OnlyReplace

LEMMA CacheInvariant == CacheSpec => []CacheInv
<1>1. CacheInit => CacheInv BY CacheInvInit
<1>2. CacheInv /\ [CacheNext]_cacheVars => CacheInv'
  BY CacheTypeNext, ReadsExistNext, CacheIsRevisionNext DEF CacheInv
<1> QED BY <1>1, <1>2, PTL DEF CacheSpec, CacheNext

\* The variables of the model always have their types: in particular the cache, the
\* streams and the watch never refer to a revision that the store has not reached.
THEOREM CacheTypeCorrect == CacheSpec => []CacheTypeOK
<1>1. CacheInv => CacheTypeOK BY DEF CacheInv
<1> QED BY <1>1, CacheInvariant, PTL

-----------------------------------------------------------------------------
(* The cache and the streams implement NamespaceView. *)

\* Whatever the loop and the shared refresh do, and in whatever order, the cache shows
\* one revision of the store at a time, all of it, and never goes back
\* (replaceNamespaceState compares revisions under the lock).
THEOREM CacheImplementsView == CacheSpec => CacheIsView
<1>1. CacheInit => View!ViewInit
  BY SMTT(60) DEF CacheInit, View!ViewInit
<1>2. CacheInv /\ [CacheNext]_cacheVars => [View!ViewNext]_View!viewVars
  <2> SUFFICES ASSUME CacheInv, [CacheNext]_cacheVars
               PROVE  View!ViewNext \/ UNCHANGED <<history, cache>>
    BY DEF View!viewVars
  <2>1. CASE \E p \in Refresher : Replace(p)
    <3>1. PICK p \in Refresher : Replace(p) BY <2>1
    <3>2. UNCHANGED history BY <3>1 DEF Replace, storeVars
    <3>3. cache'.revision \in (cache.revision + 1)..Len(history)
          /\ cache'.state = history[cache'.revision]
      BY <3>1, ReplaceReads DEF CacheInv, Revision
    <3> QED BY <3>2, <3>3 DEF View!ViewNext, View!Advance
  <2>2. CASE UNCHANGED cache
    BY <2>2, StoreGrows DEF CacheInv, storeVars, Revision, View!ViewNext, View!Write
  <2> QED BY <2>1, <2>2, OnlyReplace
<1> QED BY <1>1, <1>2, CacheInvariant, PTL
  DEF CacheSpec, CacheNext, CacheIsView, View!ViewSpec

\* What a stream sent last is a revision of the store, no newer than the cache.
SentIsRevision ==
  \A t \in Stream :
    /\ sent[t].revision <= cache.revision
    /\ sent[t].state = IF sent[t].revision = 0 THEN EmptyNamespace
                       ELSE history[sent[t].revision]

\* Only SendState changes what was sent.
LEMMA OnlySendState ==
  ASSUME [CacheNext]_cacheVars
  PROVE  UNCHANGED sent \/ \E t \in Stream : SendState(t)
BY Zenon DEF CacheNext, StoreWrite, Written, AssignShards, RecordHeartbeat, DeleteExecutors,
       DrainShards, UndrainShards, ResetNamespace, Commit, streamVars,
       Serving, ShutDown, cacheVars, Start, WatchStep, WatchFault, WatchStops, ChangeSignalled,
       TimerFires, LoopExits, RefreshStep, GetAssignmentState, SkipStale, Replace,
       NotifySubscribers, RefreshFails, GetShardOwner, CallerStep, IsShardDrained,
       getShardOwnerInMap, CallCancelled, CallUnchanged, OpenStream, StreamStep,
       SendReturns, Notified, CloseStream, StreamUnchanged

\* Revisions that the store has do not change.
LEMMA HistoryStays ==
  ASSUME CacheTypeOK, [CacheNext]_cacheVars
  PROVE  \A i \in 1..Revision : history'[i] = history[i]
BY StoreGrows DEF storeVars

\* The cache only moves forward.
LEMMA CacheAdvances ==
  ASSUME CacheInv, [CacheNext]_cacheVars
  PROVE  cache'.revision >= cache.revision
<1>1. cache.revision \in Nat BY DEF CacheInv, CacheTypeOK
<1>2. CASE UNCHANGED cache BY <1>1, <1>2
<1>3. ASSUME NEW p \in Refresher, Replace(p) PROVE cache'.revision >= cache.revision
  <2>1. cache'.revision \in (cache.revision + 1)..Revision BY <1>3, ReplaceReads
    DEF CacheInv
  <2> QED BY <1>1, <2>1, NowTyped, CacheAssumption DEF CacheInv
<1> QED BY <1>2, <1>3, OnlyReplace

LEMMA SentIsRevisionNext ==
  ASSUME CacheInv, SentIsRevision, [CacheNext]_cacheVars
  PROVE  SentIsRevision'
<1>0. /\ cache.revision \in 0..Revision /\ Revision \in Nat
      /\ sent \in [Stream -> [revision : 0..Revision, state : Snapshot]]
  BY SMTT(60), NowTyped, CacheAssumption DEF CacheInv, CacheTypeOK, Revision
<1>1. CASE UNCHANGED sent
  <2> SUFFICES ASSUME NEW t \in Stream
               PROVE  /\ sent[t].revision <= cache'.revision
                      /\ sent[t].state = IF sent[t].revision = 0 THEN EmptyNamespace
                                         ELSE history'[sent[t].revision]
    BY <1>1 DEF SentIsRevision
  <2>1. sent[t].revision \in 0..Revision BY <1>0
  <2>2. cache'.revision \in Nat
    BY SMTT(60), CacheTypeNext DEF CacheInv, CacheTypeOK
  <2>3. sent[t].revision <= cache'.revision
    BY <1>0, <2>1, <2>2, CacheAdvances DEF SentIsRevision
  <2>4. sent[t].revision # 0 => history'[sent[t].revision] = history[sent[t].revision]
    BY <1>0, <2>1, HistoryStays DEF CacheInv
  <2> QED BY <2>3, <2>4 DEF SentIsRevision
<1>2. ASSUME NEW t \in Stream, SendState(t) PROVE SentIsRevision'
  <2>1. UNCHANGED <<history, cache>> BY <1>2 DEF SendState, StreamUnchanged, storeVars
  <2>2. sent' = [sent EXCEPT ![t] = [revision |-> cache.revision, state |-> cache.state]]
    BY <1>2 DEF SendState
  <2>3. ASSUME NEW u \in Stream
        PROVE  /\ sent'[u].revision <= cache.revision
               /\ sent'[u].state = IF sent'[u].revision = 0 THEN EmptyNamespace
                                   ELSE history[sent'[u].revision]
    <3>1. CASE u = t
      <4>1. sent'[u].revision = cache.revision /\ sent'[u].state = cache.state
        BY <1>0, <2>2, <3>1
      <4> QED BY SMTT(60), <1>0, <4>1 DEF CacheInv, CacheIsRevision
    <3>2. CASE u # t BY <1>0, <2>2, <3>2 DEF SentIsRevision
    <3> QED BY <3>1, <3>2
  <2> QED BY <2>1, <2>3 DEF SentIsRevision
<1> QED BY <1>1, <1>2, OnlySendState

\* So does what a spectator is sent, over any number of connections to the server:
\* sendWatchResponse takes state and revision from the cache together.
THEOREM StreamImplementsView == CacheSpec => StreamIsView
<1>1. CacheInit => SentIsRevision /\ \A t \in Stream : StreamView(t)!ViewInit
  BY SMTT(60) DEF CacheInit, SentIsRevision, StreamView!ViewInit
<1>2. CacheInv /\ SentIsRevision /\ [CacheNext]_cacheVars =>
        \A t \in Stream : StreamView(t)!ViewNext \/ UNCHANGED StreamView(t)!viewVars
  <2> SUFFICES ASSUME CacheInv, SentIsRevision, [CacheNext]_cacheVars, NEW t \in Stream
               PROVE  StreamView(t)!ViewNext \/ UNCHANGED StreamView(t)!viewVars
    OBVIOUS
  <2>0. /\ cache.revision \in 0..Revision /\ Revision \in Nat
        /\ sent \in [Stream -> [revision : 0..Revision, state : Snapshot]]
    BY SMTT(60), NowTyped, CacheAssumption DEF CacheInv, CacheTypeOK, Revision
  <2>1. CASE UNCHANGED sent
    BY <2>1, StoreGrows DEF CacheInv, storeVars, Revision, StreamView!ViewNext,
       StreamView!Write, StreamView!viewVars
  <2>2. ASSUME NEW u \in Stream, SendState(u)
        PROVE  StreamView(t)!ViewNext \/ UNCHANGED StreamView(t)!viewVars
    <3>1. UNCHANGED history BY <2>2 DEF SendState, StreamUnchanged, storeVars
    <3>2. sent' = [sent EXCEPT ![u] = [revision |-> cache.revision, state |-> cache.state]]
      BY <2>2 DEF SendState
    <3>3. CASE u # t \/ sent[t].revision = cache.revision
      <4>1. sent'[t].revision = sent[t].revision /\ sent'[t].state = sent[t].state
        BY <2>0, <3>2, <3>3 DEF SentIsRevision, CacheInv, CacheIsRevision
      <4> QED BY <3>1, <4>1 DEF StreamView!viewVars
    <3>4. CASE u = t /\ sent[t].revision # cache.revision
      <4>1. /\ sent'[t].revision = cache.revision /\ sent'[t].state = cache.state
            /\ sent[t].revision \in Nat /\ sent[t].revision < cache.revision
        BY SMTT(60), <2>0, <3>2, <3>4 DEF SentIsRevision
      <4>2. cache.revision \in (sent[t].revision + 1)..Len(history)
            /\ cache.state = history[cache.revision]
        <5>1. cache.revision # 0 => cache.state = history[cache.revision]
          BY Zenon DEF CacheInv, CacheIsRevision
        <5> DEFINE q == sent[t].revision
                   r == cache.revision
        <5>2. q \in Nat /\ q < r /\ r \in 0..Len(history) /\ Len(history) \in Nat
          BY <2>0, <4>1, Zenon DEF Revision
        <5> HIDE DEF q, r
        <5>3. r \in (q + 1)..Len(history) /\ r # 0 BY <5>2
        <5> QED BY <5>1, <5>3, Zenon DEF q, r
      <4> QED BY <3>1, <4>1, <4>2 DEF StreamView!ViewNext, StreamView!Advance
    <3> QED BY <3>3, <3>4
  <2> QED BY <2>1, <2>2, OnlySendState
<1> QED BY <1>1, <1>2, CacheInvariant, SentIsRevisionNext, PTL
    DEF CacheSpec, CacheNext, StreamIsView

-----------------------------------------------------------------------------
(* The assignment version. *)

\* The version is the revision of a write, so no later revision has a smaller one.
VersionInv ==
  /\ VersionCoversState
  /\ \A i \in 1..Revision : versions[i] <= i

LEMMA WriteOrNot ==
  ASSUME [CacheNext]_cacheVars
  PROVE  StoreWrite \/ UNCHANGED storeVars
BY Zenon
  DEF CacheNext, Serving, ShutDown, cacheVars, Start, WatchStep, WatchFault, WatchStops,
      ChangeSignalled, TimerFires, LoopExits, RefreshStep, GetAssignmentState, Replace, SkipStale,
      NotifySubscribers, RefreshFails, GetShardOwner, CallerStep, IsShardDrained,
      getShardOwnerInMap, CallCancelled, CallUnchanged, OpenStream, StreamStep, SendState,
      SendReturns, Notified, CloseStream, StreamUnchanged

LEMMA VersionNext ==
  ASSUME CacheTypeOK, VersionInv, [CacheNext]_cacheVars
  PROVE  VersionInv'
<1>1. CASE StoreWrite
  <2>1. PICK state \in Snapshot, evs \in SUBSET Event, touch \in BOOLEAN :
          Commit(state, evs, touch) /\ (touch \/ state = Now)
    BY <1>1, WritesCommit
  <2> DEFINE v == IF touch THEN Revision + 1 ELSE versions[Revision]
  <2>2. /\ history \in Seq(Snapshot) /\ versions \in Seq(Revisions)
        /\ Len(versions) = Revision /\ Revision \in Nat /\ Revision >= 1
    BY SMTT(60), NowTyped, CacheAssumption DEF CacheTypeOK, Revision
  <2>3. \A i \in 1..Revision : versions[i] \in Nat
    BY <2>2, ElementOfSeq, CacheAssumption DEF Revisions
  <2>4. v \in Revisions
    BY <2>1, <2>2, ElementOfSeq, CacheAssumption DEF Commit, Revisions
  <2>5. history' = Append(history, state) /\ versions' = Append(versions, v)
    BY <2>1 DEF Commit
  <2>6. /\ \A i \in 1..Revision : history'[i] = history[i] /\ versions'[i] = versions[i]
        /\ history'[Revision + 1] = state /\ versions'[Revision + 1] = v
        /\ Revision' = Revision + 1
    <3> HIDE DEF v
    <3> QED BY <2>2, <2>4, <2>5, Appended DEF Revision
  <2>7. v = Revision + 1 \/ (v = versions[Revision] /\ state = history[Revision])
    BY <2>1 DEF Now
  <2>8. /\ v <= Revision + 1
        /\ \A i \in 1..Revision : versions[i] = v => history[i] = state
    BY <2>2, <2>3, <2>7 DEF VersionInv, VersionCoversState
  <2> HIDE DEF v
  <2> QED BY SMTT(60), <2>2, <2>6, <2>8 DEF VersionInv, VersionCoversState
<1>2. CASE UNCHANGED storeVars
  BY <1>2 DEF storeVars, VersionInv, VersionCoversState, Revision
<1> QED BY <1>1, <1>2, WriteOrNot

\* AssignmentRevision, the mod revision of the version key, names what a spectator
\* sees: two revisions of the store with the same version show the same state, since
\* every write that changes it touches the key in its transaction.
THEOREM VersionNamesState == CacheSpec => []VersionCoversState
<1>1. CacheInit => VersionInv
  BY SMTT(60) DEF CacheInit, VersionInv, VersionCoversState, Revision
<1>2. CacheInv /\ VersionInv /\ [CacheNext]_cacheVars => VersionInv'
  BY VersionNext DEF CacheInv
<1>3. VersionInv => VersionCoversState BY DEF VersionInv
<1> QED BY <1>1, <1>2, <1>3, CacheInvariant, PTL DEF CacheSpec, CacheNext

-----------------------------------------------------------------------------
(* What calls are answered. *)

\* An answer that says something was given from a revision that the store has.
AnswersExist ==
  \A c \in Caller : LET a == call[c].answer IN
    a.kind \in {"owner", "drained"} => a.revision \in 1..Revision

\* How a step changes a call: without an answer, with one that says nothing, or with
\* what the cache holds.
Answered(c, new) ==
  /\ new.shard = call[c].shard
  /\ \/ new.answer = call[c].answer
     \/ new.answer.kind \in {"notFound", "cancelled", "error"}
     \/ /\ new.answer.revision = cache.revision
        /\ \/ /\ new.answer.kind = "drained"
              /\ call[c].shard \in cache.state.drained
           \/ /\ new.answer.kind = "owner"
              /\ new.answer.owner = cache.owner[call[c].shard]
              /\ new.answer.owner # Nobody

LEMMA ReturnAnswers ==
  ASSUME CacheTypeOK, NEW d \in Caller, NEW kind, NEW owner, Return(d, kind, owner),
         \/ kind \in {"notFound", "cancelled", "error"}
         \/ kind = "drained" /\ call[d].shard \in cache.state.drained
         \/ kind = "owner" /\ owner = cache.owner[call[d].shard] /\ owner # Nobody,
         NEW c \in Caller
  PROVE  Answered(c, call'[c])
<1>0. call \in [Caller -> CallState] BY DEF CacheTypeOK
<1> DEFINE a == [kind |-> kind, owner |-> owner, revision |-> cache.revision]
<1>1. CASE c = d
  <2>1. call'[c] = [call[c] EXCEPT !.pc = "returned", !.answer = a]
    BY <1>0, <1>1 DEF Return
  <2>2. call'[c].shard = call[c].shard /\ call'[c].answer = a
    BY <1>0, <2>1 DEF CallState
  <2>3. a.kind = kind /\ a.owner = owner /\ a.revision = cache.revision OBVIOUS
  <2> HIDE DEF a
  <2> QED BY <1>1, <2>2, <2>3, Zenon DEF Answered
<1>2. CASE c # d BY <1>0, <1>2 DEF Return, Answered
<1> QED BY <1>1, <1>2

LEMMA Answers ==
  ASSUME CacheInv, [CacheNext]_cacheVars, NEW c \in Caller
  PROVE  Answered(c, call'[c])
<1>0. call \in [Caller -> CallState] BY DEF CacheInv, CacheTypeOK
<1>1. CASE UNCHANGED call BY <1>1 DEF Answered
<1>2. ASSUME NEW d \in Caller, NEW to, call' = Call(d, to)
      PROVE  Answered(c, call'[c])
  BY <1>0, <1>2 DEF Call, CallState, Answered
<1>3. ASSUME NEW d \in Caller, GetShardOwner(d) \/ CallerStep(d) \/ CallCancelled(d)
      PROVE  Answered(c, call'[c])
  <2>1. CASE GetShardOwner(d) BY <1>2, <2>1 DEF GetShardOwner
  <2>2. CASE IsShardDrained(d)
    BY <1>2, <2>2, ReturnAnswers DEF IsShardDrained, refreshSingleFlight, CacheInv
  <2>3. CASE getShardOwnerInMap(d)
    BY <1>2, <2>3, ReturnAnswers DEF getShardOwnerInMap, refreshSingleFlight, CacheInv
  <2>4. CASE CallCancelled(d) BY <2>4, ReturnAnswers DEF CallCancelled, CacheInv
  <2> QED BY <1>3, <2>1, <2>2, <2>3, <2>4 DEF CallerStep
<1>4. ASSUME NEW p \in Refresher, NEW ok \in BOOLEAN, Finish(p, ok)
      PROVE  Answered(c, call'[c])
  <2>1. call'[c] = call[c] \/ call'[c] = Wake(c, ok) BY <1>4 DEF Finish
  <2>2. call[c] \in CallState BY <1>0
  <2>3. Answered(c, Wake(c, ok))
    <3>1. Answered(c, [call[c] EXCEPT !.pc = "returned", !.answer.kind = "error"])
      BY <2>2 DEF CallState, Answer, Answered
    <3>2. \A to : Answered(c, [call[c] EXCEPT !.pc = to])
      BY <2>2 DEF CallState, Answered
    <3>3. Answered(c, call[c]) BY DEF Answered
    <3> QED BY <3>1, <3>2, <3>3 DEF Wake
  <2> QED BY <2>1, <2>3 DEF Answered
<1>5. \/ UNCHANGED call
      \/ \E d \in Caller : GetShardOwner(d) \/ CallerStep(d) \/ CallCancelled(d)
      \/ \E p \in Refresher, ok \in BOOLEAN : Finish(p, ok)
  <2>1. CASE StoreWrite BY <2>1, WritesCommit DEF CacheInv, Commit
  <2>2. CASE Serving \/ ShutDown \/ UNCHANGED cacheVars
    BY <2>2, Zenon
      DEF Serving, ShutDown, cacheVars, Start, WatchStep, WatchFault, WatchStops,
      ChangeSignalled, TimerFires, LoopExits, RefreshStep, GetAssignmentState, Replace, SkipStale,
      NotifySubscribers, RefreshFails, OpenStream, StreamStep, SendState,
      SendReturns, Notified, CloseStream, StreamUnchanged
  <2> QED BY <2>1, <2>2 DEF CacheNext
<1> QED BY <1>1, <1>3, <1>4, <1>5

\* What an answer a about shard k promises of the first n revisions of a history h.
Holds(a, k, h, n) ==
  /\ a.kind \in {"owner", "drained"} => a.revision \in 1..n
  /\ a.kind = "owner" => k \in h[a.revision].assigned[a.owner]
  /\ a.kind = "drained" => k \in h[a.revision].drained

AllHold == \A c \in Caller : Holds(call[c].answer, call[c].shard, history, Revision)

LEMMA AnswersHold == AnswersExist /\ AnswerIsCurrent <=> AllHold
<1>1. \A c \in Caller :
        LET a == call[c].answer IN
        Holds(a, call[c].shard, history, Revision)
          <=> /\ a.kind \in {"owner", "drained"} => a.revision \in 1..Revision
              /\ a.kind = "owner" => call[c].shard \in history[a.revision].assigned[a.owner]
              /\ a.kind = "drained" => call[c].shard \in history[a.revision].drained
  BY Zenon DEF Holds
<1> QED BY <1>1, Zenon DEF AnswersExist, AnswerIsCurrent, AllHold

\* A history that grows takes no promise back.
LEMMA HoldsLonger ==
  ASSUME NEW a, NEW k, NEW h, NEW i, NEW n \in Nat, NEW m \in Nat, n <= m,
         \A r \in 1..n : i[r] = h[r], Holds(a, k, h, n)
  PROVE  Holds(a, k, i, m)
<1>1. ASSUME a.kind \in {"owner", "drained"}
      PROVE  a.revision \in 1..m /\ i[a.revision] = h[a.revision]
  <2>1. a.revision \in 1..n BY <1>1, Zenon DEF Holds
  <2> QED BY <2>1
<1>2. a.kind = "owner" => k \in i[a.revision].assigned[a.owner] BY <1>1, Zenon DEF Holds
<1>3. a.kind = "drained" => k \in i[a.revision].drained BY <1>1, Zenon DEF Holds
<1> QED BY <1>1, <1>2, <1>3, Zenon DEF Holds

LEMMA AnswerNext ==
  ASSUME CacheInv, AnswersExist /\ AnswerIsCurrent, [CacheNext]_cacheVars
  PROVE  (AnswersExist /\ AnswerIsCurrent)'
<1>0. Revision \in Nat /\ cache.revision \in 0..Revision
  BY SMTT(60), NowTyped, CacheAssumption DEF CacheInv, CacheTypeOK, Revision
<1>1. /\ Revision' \in Nat /\ Revision <= Revision'
      /\ \A r \in 1..Revision : history'[r] = history[r]
  BY <1>0, StoreGrows, HistoryStays DEF CacheInv, storeVars, Revision
<1> SUFFICES ASSUME NEW c \in Caller
             PROVE  Holds(call'[c].answer, call'[c].shard, history', Revision')
  <2>1. AllHold' => (AnswersExist /\ AnswerIsCurrent)' BY AnswersHold, PTL
  <2> QED BY <2>1, Zenon DEF AllHold
<1>2. SUFFICES Holds(call'[c].answer, call'[c].shard, history, Revision)
  BY <1>0, <1>1, HoldsLonger, Zenon
<1>3. call'[c].shard = call[c].shard BY Answers, Zenon DEF Answered
<1>4. CASE call'[c].answer = call[c].answer BY <1>3, <1>4, AnswersHold, Zenon DEF AllHold
<1>5. CASE call'[c].answer.kind \in {"notFound", "cancelled", "error"} BY <1>5 DEF Holds
<1>6. CASE /\ call'[c].answer.revision = cache.revision
           /\ call'[c].answer.kind = "drained" /\ call[c].shard \in cache.state.drained
  <2>1. cache.revision # 0
    <3>1. cache.revision = 0 => cache.state = EmptyNamespace
      BY Zenon DEF CacheInv, CacheIsRevision
    <3>2. EmptyNamespace.drained = {} BY DEF EmptyNamespace
    <3> QED BY <1>6, <3>1, <3>2, Zenon
  <2>2. cache.revision \in 1..Revision BY <1>0, <2>1
  <2>3. cache.state = history[cache.revision] BY <2>1, Zenon DEF CacheInv, CacheIsRevision
  <2>4. "drained" # "owner" OBVIOUS
  <2> QED BY <1>3, <1>6, <2>2, <2>3, <2>4, Zenon DEF Holds
<1>7. CASE /\ call'[c].answer.revision = cache.revision
           /\ call'[c].answer.kind = "owner"
           /\ call'[c].answer.owner = cache.owner[call[c].shard]
           /\ call'[c].answer.owner # Nobody
  <2>0. call[c].shard \in Shard BY DEF CacheInv, CacheTypeOK, CallState
  <2>1. cache.revision # 0
    <3>1. cache.revision = 0 => cache.owner = [s \in Shard |-> Nobody]
      BY Zenon DEF CacheInv, CacheIsRevision
    <3>2. cache.owner = [s \in Shard |-> Nobody] => cache.owner[call[c].shard] = Nobody
      BY <2>0, Zenon
    <3> QED BY <1>7, <3>1, <3>2, Zenon
  <2>2. cache.revision \in 1..Revision BY <1>0, <2>1
  <2>3. call[c].shard \in history[cache.revision].assigned[cache.owner[call[c].shard]]
    <3>1. cache.owner \in OwnerMap(history[cache.revision])
      BY <2>1, Zenon DEF CacheInv, CacheIsRevision
    <3>2. cache.owner[call[c].shard] # Nobody BY <1>7, Zenon
    <3> QED BY <2>0, <3>1, <3>2, Zenon DEF OwnerMap
  <2>4. "drained" # "owner" OBVIOUS
  <2> QED BY <1>3, <1>7, <2>2, <2>3, <2>4, Zenon DEF Holds
<1> QED BY <1>4, <1>5, <1>6, <1>7, Answers, Zenon DEF Answered

\* GetShardOwner answers with what the store holds at the revision of the cache at
\* the time of the answer: an owner has the shard there, and a shard that is refused
\* as drained is drained there.
THEOREM AnswersAreCurrent == CacheSpec => []AnswerIsCurrent
<1>1. CacheInit => AnswersExist /\ AnswerIsCurrent
  <2> SUFFICES ASSUME CacheInit, NEW c \in Caller PROVE call[c].answer.kind = "none"
    BY DEF AnswersExist, AnswerIsCurrent
  <2>1. call[c] \in [pc : {"idle"}, shard : Shard, answer : {NoAnswer}] BY DEF CacheInit
  <2>2. call[c].answer = NoAnswer BY <2>1
  <2>3. NoAnswer.kind = "none" BY DEF NoAnswer
  <2> QED BY <2>2, <2>3, Zenon
<1>2. CacheInv /\ (AnswersExist /\ AnswerIsCurrent) /\ [CacheNext]_cacheVars
        => (AnswersExist /\ AnswerIsCurrent)'
  BY AnswerNext
<1> QED BY <1>1, <1>2, CacheInvariant, PTL DEF CacheSpec, CacheNext

-----------------------------------------------------------------------------
(***************************************************************************)
(* No change is lost on its way.  A write that changes the state causes an *)
(* event that hasNamespaceStateChanged sees, so a watch that has been      *)
(* delivered without a signal has delivered no change.  What the loop has  *)
(* read when the watch is up and no signal is pending is therefore what    *)
(* the watch has come to, even when that is a later revision.              *)
(***************************************************************************)
EventsTell ==
  \A i \in 2..Revision : history[i] # history[i - 1] => hasNamespaceStateChanged(events[i])

\* Nothing changes in h after r up to w.
Same(h, w, r) == r \in 1..Len(h) /\ \A i \in r..w : h[i] = h[r]

LoopIsCurrent ==
  watch = "up" /\ ~signal =>
    /\ refresh["loop"].pc = "read" => Same(history, watched, refresh["loop"].revision)
    /\ \/ refresh["loop"].pc = "notify"
       \/ refresh["loop"].pc = "idle" /\ delay = "reconcile"
       => Same(history, watched, cache.revision)

\* Between the replacement of the cache and the notifications nothing is claimed.
StreamsFollow ==
  (\A p \in Refresher : refresh[p].pc # "notify") =>
    \A t \in Stream : stream[t] \in {"sending", "streaming"} /\ ~notify[t]
                        => sent[t].revision = cache.revision

NotStarted == watch = "off" => refresh["loop"].pc = "off"

QuietInv == EventsTell /\ NotStarted /\ LoopIsCurrent /\ StreamsFollow

LEMMA SameLonger ==
  ASSUME NEW S, NEW h \in Seq(S), NEW g \in Seq(S), Len(h) <= Len(g),
         \A i \in 1..Len(h) : g[i] = h[i],
         NEW w \in 0..Len(h), NEW r, Same(h, w, r)
  PROVE  Same(g, w, r)
<1>1. r \in 1..Len(h) /\ Len(h) \in Nat /\ Len(g) \in Nat BY DEF Same
<1>2. r \in 1..Len(g) BY <1>1
<1>3. ASSUME NEW i \in r..w PROVE g[i] = g[r]
  <2>1. i \in 1..Len(h) BY <1>1
  <2>2. h[i] = h[r] BY Zenon DEF Same
  <2> QED BY <1>1, <2>1, <2>2, Zenon
<1> QED BY <1>2, <1>3, Zenon DEF Same

LEMMA SameLater ==
  ASSUME NEW h, Len(h) \in Nat, NEW w \in Nat, NEW r, Same(h, w, r), NEW s \in r..Len(h)
  PROVE  Same(h, w, s)
<1>1. r \in 1..Len(h) BY DEF Same
<1>2. s \in 1..Len(h) BY <1>1
<1>3. ASSUME NEW i \in s..w PROVE h[i] = h[s]
  <2>1. i \in r..w /\ s \in r..w BY <1>1, <1>2
  <2> QED BY <2>1, Zenon DEF Same
<1> QED BY <1>2, <1>3, Zenon DEF Same

LEMMA SameNext ==
  ASSUME NEW h, Len(h) \in Nat, NEW w \in Nat, w >= 1 => h[w + 1] = h[w], NEW r, Same(h, w, r)
  PROVE  Same(h, w + 1, r)
<1>1. r \in 1..Len(h) BY DEF Same
<1>2. ASSUME NEW i \in r..(w + 1) PROVE h[i] = h[r]
  <2>1. CASE i \in r..w BY <2>1, Zenon DEF Same
  <2>2. CASE i = w + 1 /\ r <= w
    <3>1. w \in r..w /\ w >= 1 BY <1>1, <2>2
    <3> QED BY <2>2, <3>1, Zenon DEF Same
  <2>3. CASE i = w + 1 /\ r = w + 1 BY <2>3
  <2> QED BY <1>1, <2>1, <2>2, <2>3
<1> QED BY <1>1, <1>2, Zenon DEF Same

\* What a write changes, its events tell.
LEMMA WritesTell ==
  ASSUME CacheTypeOK, StoreWrite
  PROVE  \E state \in Snapshot, evs \in SUBSET Event, touch \in BOOLEAN :
           Commit(state, evs, touch) /\ (state # Now => hasNamespaceStateChanged(evs))
<1> Now \in Snapshot BY NowTyped
<1> DEFINE Told == \E state \in Snapshot, evs \in SUBSET Event, touch \in BOOLEAN :
                     Commit(state, evs, touch) /\ (state # Now => hasNamespaceStateChanged(evs))
<1>0. \A key \in {"assigned_state", "metadata", "drained_shard"}, b \in BOOLEAN :
        /\ Changed(key, b) \in SUBSET Event
        /\ key = "drained_shard" \/ b => hasNamespaceStateChanged(Changed(key, b))
  BY DEF Changed, Event, hasNamespaceStateChanged
<1>u. \A A, B : hasNamespaceStateChanged(A) \/ hasNamespaceStateChanged(B)
                  => hasNamespaceStateChanged(A \cup B)
  BY Zenon DEF hasNamespaceStateChanged
<1>e. EmptyNamespace \in Snapshot BY DEF EmptyNamespace, Snapshot
<1>1. ASSUME NEW e \in Executor, NEW S \in SUBSET Shard, AssignShards(e, S)
      PROVE  Told
  <2>1. /\ [Now EXCEPT !.assigned[e] = S] \in Snapshot
        /\ S = Now.assigned[e] => [Now EXCEPT !.assigned[e] = S] = Now
    BY <1>1 DEF Snapshot
  <2>2. Commit([Now EXCEPT !.assigned[e] = S],
               Changed("assigned_state", S # Now.assigned[e]), TRUE)
    BY <1>1, Zenon DEF AssignShards
  <2> QED BY <1>0, <2>1, <2>2, Zenon
<1>2. ASSUME NEW e \in Executor, NEW m \in Meta \cup {Nobody}, RecordHeartbeat(e, m)
      PROVE  Told
  <2>1. CASE m = Nobody BY <1>2, <2>1, Zenon DEF RecordHeartbeat
  <2>2. CASE m # Nobody
    <3>1. /\ [Now EXCEPT !.meta[e] = m] \in Snapshot
          /\ m = Now.meta[e] => [Now EXCEPT !.meta[e] = m] = Now
      BY <1>2 DEF Snapshot
    <3>2. Commit([Now EXCEPT !.meta[e] = m], Changed("metadata", m # Now.meta[e]),
                 m # Now.meta[e])
      BY <1>2, <2>2 DEF RecordHeartbeat
    <3> QED BY <1>0, <3>1, <3>2, Zenon
  <2> QED BY <2>1, <2>2
<1>3. ASSUME NEW e \in Executor, DeleteExecutors(e)
      PROVE  Told
  <2> DEFINE A == Changed("assigned_state", Now.assigned[e] # {})
             B == Changed("metadata", Now.meta[e] # Nobody)
             n == [Now EXCEPT !.assigned[e] = {}, !.meta[e] = Nobody]
  <2>1. n \in Snapshot /\ (Now.assigned[e] = {} /\ Now.meta[e] = Nobody => n = Now)
    BY <1>3, Zenon DEF Snapshot
  <2>2. A \cup B \in SUBSET Event BY <1>0, Zenon
  <2>3. n # Now => hasNamespaceStateChanged(A) \/ hasNamespaceStateChanged(B)
    BY <1>0, <2>1, Zenon
  <2>4. Commit(n, A \cup B, TRUE) BY <1>3, Zenon DEF DeleteExecutors
  <2> HIDE DEF A, B, n
  <2> QED BY <1>u, <2>1, <2>2, <2>3, <2>4, Zenon
<1>4. ASSUME NEW s \in Shard, DrainShards(s) \/ UndrainShards(s)
      PROVE  Told
  <2>1. /\ [Now EXCEPT !.drained = @ \cup {s}] \in Snapshot
        /\ [Now EXCEPT !.drained = @ \ {s}] \in Snapshot
        /\ s \notin Now.drained => [Now EXCEPT !.drained = @ \ {s}] = Now
    BY <1>4 DEF Snapshot
  <2> QED BY <1>0, <1>4, <2>1, Zenon DEF DrainShards, UndrainShards
<1>5. ASSUME ResetNamespace
      PROVE  Told
  <2> DEFINE A == Changed("assigned_state", Now.assigned # EmptyNamespace.assigned)
             B == Changed("metadata", Now.meta # EmptyNamespace.meta)
             C == IF Now.drained # {} THEN Changed("drained_shard", FALSE) ELSE {}
  <2>1. A \cup B \cup C \in SUBSET Event BY <1>0, Zenon
  <2>2. EmptyNamespace # Now => \/ Now.assigned # EmptyNamespace.assigned
                                \/ Now.meta # EmptyNamespace.meta
                                \/ Now.drained # {}
    BY DEF EmptyNamespace, Snapshot
  <2>3. EmptyNamespace # Now => \/ hasNamespaceStateChanged(A) \/ hasNamespaceStateChanged(B)
                                \/ hasNamespaceStateChanged(C)
    BY <1>0, <2>2, Zenon
  <2>4. Commit(EmptyNamespace, A \cup B \cup C, TRUE) BY <1>5, Zenon DEF ResetNamespace
  <2> HIDE DEF A, B, C
  <2>5. EmptyNamespace # Now => hasNamespaceStateChanged(A \cup B \cup C)
    BY <1>u, <2>3, Zenon
  <2> QED BY <1>e, <2>1, <2>4, <2>5, Zenon
<1> QED BY <1>1, <1>2, <1>3, <1>4, <1>5 DEF StoreWrite, Written

LEMMA EventsTellNext ==
  ASSUME CacheTypeOK, EventsTell, [CacheNext]_cacheVars
  PROVE  EventsTell'
<1>1. CASE StoreWrite
  <2>1. PICK state \in Snapshot, evs \in SUBSET Event, touch \in BOOLEAN :
          Commit(state, evs, touch) /\ (state # Now => hasNamespaceStateChanged(evs))
    BY <1>1, WritesTell
  <2>2. /\ history \in Seq(Snapshot) /\ events \in Seq(SUBSET Event)
        /\ Len(events) = Revision /\ Revision \in Nat /\ Revision >= 1
    BY WatchTyped, Zenon DEF CacheTypeOK
  <2>3. history' = Append(history, state) /\ events' = Append(events, evs)
    BY <2>1 DEF Commit
  <2>4. /\ \A i \in 1..Revision : history'[i] = history[i] /\ events'[i] = events[i]
        /\ history'[Revision + 1] = state /\ events'[Revision + 1] = evs
        /\ Revision' = Revision + 1
    BY <2>2, <2>3, Appended DEF Revision
  <2> SUFFICES ASSUME NEW i \in 2..(Revision + 1), history'[i] # history'[i - 1]
               PROVE  hasNamespaceStateChanged(events'[i])
    BY <2>4 DEF EventsTell, hasNamespaceStateChanged
  <2>5. CASE i = Revision + 1
    <3>1. history'[i - 1] = Now BY <2>2, <2>4, <2>5 DEF Now
    <3> QED BY <2>1, <2>4, <2>5, <3>1
  <2>6. CASE i \in 2..Revision
    <3>1. i \in 1..Revision /\ i - 1 \in 1..Revision BY <2>2, <2>6
    <3>2. history[i] # history[i - 1] /\ events'[i] = events[i] BY <2>4, <3>1
    <3> QED BY <2>6, <3>2, Zenon DEF EventsTell
  <2> QED BY <2>2, <2>5, <2>6
<1>2. CASE UNCHANGED storeVars
  BY <1>2 DEF storeVars, EventsTell, Revision
<1> QED BY <1>1, <1>2, WriteOrNot

LEMMA SentFields ==
  ASSUME NEW x, NEW r, NEW s, x = [revision |-> r, state |-> s]
  PROVE  x.revision = r /\ x.state = s
OBVIOUS

\* A step that leaves the loop, the watch and the store alone, and takes the cache
\* forward if anywhere, takes nothing from what the loop has seen.
LEMMA LoopKept ==
  ASSUME CacheInv, LoopIsCurrent,
         UNCHANGED <<history, watch, watched, signal, delay>>,
         refresh'["loop"] = refresh["loop"], cache'.revision \in cache.revision..Revision
  PROVE  LoopIsCurrent'
<1>1. Len(history) \in Nat /\ watched \in Nat
  BY WatchTyped, Zenon DEF CacheInv
<1>2. Same(history, watched, cache.revision) => Same(history, watched, cache'.revision)
  BY <1>1, SameLater DEF Revision
<1> QED BY <1>2, Zenon DEF LoopIsCurrent

\* What the loop itself does.
LEMMA LoopMoves ==
  ASSUME CacheInv, LoopIsCurrent, RefreshStep("loop") \/ RefreshFails("loop")
  PROVE  LoopIsCurrent'
<1> DEFINE l == refresh["loop"]
<1> "loop" \in Refresher BY DEF Refresher
<1>0. /\ Len(history) \in Nat /\ Len(history) >= 1 /\ watched \in 0..Len(history)
      /\ cache.revision \in 0..Len(history) /\ l.revision \in Nat
      /\ refresh \in [Refresher -> RefreshState] /\ l.revision <= Len(history)
  <2>1. l \in RefreshState BY DEF CacheInv, CacheTypeOK
  <2>2. l.revision \in Nat BY <2>1, CacheAssumption DEF RefreshState, Revisions
  <2>3. l.revision <= Len(history) BY Zenon DEF CacheInv, ReadsExist, Revision
  <2> QED BY <2>2, <2>3, WatchTyped, Zenon DEF CacheInv, Revision
<1>s. UNCHANGED <<history, watch, watched, signal>>
  BY Zenon
    DEF RefreshStep, RefreshFails, GetAssignmentState, Replace, SkipStale, NotifySubscribers,
     storeVars, watchVars
<1>1. CASE GetAssignmentState("loop")
  <2>1. refresh'["loop"] = [pc |-> "read", revision |-> Revision]
    BY <1>0, <1>1 DEF GetAssignmentState
  <2>2. Same(history, watched, Revision) BY <1>0 DEF Same, Revision
  <2>3. refresh'["loop"].pc = "read" /\ refresh'["loop"].revision = Revision BY <2>1
  <2> QED BY <1>s, <2>2, <2>3 DEF LoopIsCurrent
<1>2. CASE Replace("loop")
  <2>1. refresh'["loop"].pc = "notify" BY <1>0, <1>2 DEF Replace
  <2>2. l.pc = "read" BY <1>2 DEF Replace
  <2>3. cache'.revision = l.revision BY <1>2 DEF Replace, applyNamespaceState
  <2> QED BY <1>s, <2>1, <2>2, <2>3 DEF LoopIsCurrent
<1>3. CASE SkipStale("loop")
  <2>1. refresh'["loop"].pc = "idle" BY <1>0, <1>3 DEF SkipStale, Finish
  <2>2. l.pc = "read" /\ ~(l.revision > cache.revision) /\ UNCHANGED cache
    BY <1>3 DEF SkipStale, Newer
  <2>3. Same(history, watched, l.revision) => Same(history, watched, cache.revision)
    BY <1>0, <2>2, SameLater
  <2> QED BY <1>s, <2>1, <2>2, <2>3 DEF LoopIsCurrent
<1>4. CASE NotifySubscribers("loop")
  <2>1. refresh'["loop"].pc = "idle" BY <1>0, <1>4 DEF NotifySubscribers, Finish
  <2>2. l.pc = "notify" /\ UNCHANGED cache BY <1>4 DEF NotifySubscribers
  <2> QED BY <1>s, <2>1, <2>2 DEF LoopIsCurrent
<1>5. CASE RefreshFails("loop")
  <2>1. refresh'["loop"].pc = "idle" BY <1>0, <1>5 DEF RefreshFails, Finish
  <2>2. delay' = "retry" BY <1>5 DEF RefreshFails, Finish
  <2> QED BY <2>1, <2>2 DEF LoopIsCurrent
<1> QED BY <1>1, <1>2, <1>3, <1>4, <1>5 DEF RefreshStep

\* The other refresh, callers and streams do nothing to the loop.
LEMMA OthersKeepLoop ==
  ASSUME CacheInv,
         \/ RefreshStep("flight") \/ RefreshFails("flight")
         \/ \E c \in Caller : GetShardOwner(c) \/ CallerStep(c) \/ CallCancelled(c)
         \/ \E t \in Stream : OpenStream(t) \/ StreamStep(t) \/ CloseStream(t)
         \/ UNCHANGED cacheVars
  PROVE  /\ UNCHANGED <<history, watch, watched, signal, delay>>
         /\ refresh'["loop"] = refresh["loop"]
<1>0. refresh \in [Refresher -> RefreshState] /\ "loop" \in Refresher /\ "flight" # "loop"
  BY DEF CacheInv, CacheTypeOK, Refresher
<1>1. CASE RefreshStep("flight") \/ RefreshFails("flight")
  BY <1>0, <1>1, Zenon
    DEF RefreshStep, RefreshFails, GetAssignmentState, Replace, SkipStale,
     NotifySubscribers, Finish, storeVars, watchVars
<1>2. CASE \E c \in Caller : GetShardOwner(c) \/ CallerStep(c) \/ CallCancelled(c)
  <2>1. CallUnchanged /\ (UNCHANGED refresh \/ StartRead("flight"))
    BY <1>2, Zenon DEF GetShardOwner, CallerStep, IsShardDrained, getShardOwnerInMap,
       CallCancelled, refreshSingleFlight
  <2> QED BY <1>0, <2>1 DEF CallUnchanged, StartRead, storeVars, watchVars
<1>3. CASE \/ \E t \in Stream : OpenStream(t) \/ StreamStep(t) \/ CloseStream(t)
           \/ UNCHANGED cacheVars
  BY <1>3 DEF OpenStream, StreamStep, SendState, SendReturns, Notified, CloseStream,
     StreamUnchanged, storeVars, watchVars, cacheVars
<1> QED BY <1>1, <1>2, <1>3

LEMMA LoopIsCurrentNext ==
  ASSUME CacheInv, EventsTell, LoopIsCurrent, [CacheNext]_cacheVars
  PROVE  LoopIsCurrent'
<1>0. /\ Revision \in Nat /\ Revision >= 1 /\ watched \in 0..Revision
      /\ history \in Seq(Snapshot) /\ Len(history) = Revision
      /\ refresh \in [Refresher -> RefreshState] /\ "loop" \in Refresher
  <2>1. "loop" \in Refresher BY DEF Refresher
  <2> QED BY <2>1, WatchTyped, Zenon DEF CacheInv
<1>1. CASE StoreWrite
  <2>1. UNCHANGED <<watch, watched, signal, refresh, delay, cache>>
    BY <1>1, WritesCommit DEF Commit, watchVars, CacheInv
  <2>2. history' \in Seq(Snapshot) /\ Len(history') >= Len(history)
    <3>1. history' \in Seq(Snapshot) BY CacheTypeNext, Zenon DEF CacheInv, CacheTypeOK
    <3>2. Revision' = Revision + 1 \/ Revision' = Revision
      BY StoreGrows, Zenon DEF CacheInv, storeVars, Revision
    <3> QED BY <1>0, <3>1, <3>2 DEF Revision
  <2>3. \A i \in 1..Len(history) : history'[i] = history[i]
    BY <1>0, HistoryStays DEF CacheInv
  <2>4. \A r : Same(history, watched, r) => Same(history', watched, r)
    BY <1>0, <2>2, <2>3, SameLonger
  <2> QED BY <2>1, <2>4, Zenon DEF LoopIsCurrent
<1>2. CASE Start \/ WatchFault \/ WatchStops
  BY <1>2 DEF Start, WatchFault, WatchFails, WatchStops, StopWatch, LoopIsCurrent
<1>3. CASE WatchStep
  <2>0. UNCHANGED <<history, refresh, delay, cache>> BY <1>3 DEF WatchStep, storeVars
  <2>1. CASE WatchCreated
    <3>1. watch' = "created" \/ signal' = TRUE BY <2>1 DEF WatchCreated
    <3> QED BY <3>1 DEF LoopIsCurrent
  <2>2. CASE WatchEvent
    <3>1. /\ watch = "up" /\ watched < Revision /\ watched' = watched + 1
          /\ ~signal' => ~signal /\ ~hasNamespaceStateChanged(events[watched + 1])
      BY <2>2, Zenon DEF WatchEvent
    <3>2. ASSUME ~signal' PROVE watched >= 1 => history[watched + 1] = history[watched]
      <4>1. ASSUME watched >= 1
            PROVE  watched + 1 \in 2..Revision /\ (watched + 1) - 1 = watched
        BY <1>0, <3>1, <4>1
      <4> QED BY <3>1, <3>2, <4>1 DEF EventsTell
    <3>3. ASSUME ~signal', NEW r, Same(history, watched, r) PROVE Same(history, watched + 1, r)
      BY <1>0, <3>2, <3>3, SameNext
    <3> QED BY <2>0, <3>1, <3>3, Zenon DEF LoopIsCurrent
  <2> QED BY <1>3, <2>1, <2>2 DEF WatchStep
<1>4. CASE \/ ChangeSignalled \/ \E why \in {"reconcile", "retry"} : TimerFires(why)
           \/ \E stopped \in BOOLEAN : LoopExits(stopped)
  <2>1. PICK to \in {"reading", "off"} : refresh' = [refresh EXCEPT !["loop"].pc = to]
    BY <1>4 DEF ChangeSignalled, TimerFires, LoopExits, StartRead
  <2>2. refresh'["loop"] = [refresh["loop"] EXCEPT !.pc = to] /\ refresh["loop"] \in RefreshState
    BY <1>0, <2>1
  <2>3. refresh'["loop"].pc \in {"reading", "off"} BY <2>2 DEF RefreshState
  <2> QED BY <2>3 DEF LoopIsCurrent
<1>5. CASE RefreshStep("loop") \/ RefreshFails("loop")
  BY <1>5, LoopMoves
<1>6. CASE \/ RefreshStep("flight") \/ RefreshFails("flight")
           \/ \E c \in Caller : GetShardOwner(c) \/ CallerStep(c) \/ CallCancelled(c)
           \/ \E t \in Stream : OpenStream(t) \/ StreamStep(t) \/ CloseStream(t)
           \/ UNCHANGED cacheVars
  <2>1. cache'.revision \in cache.revision..Revision
    <3>1. cache'.revision \in 0..Revision'
      BY CacheTypeNext DEF CacheInv, CacheTypeOK, Revision
    <3>2. Revision' = Revision BY <1>6, OthersKeepLoop DEF Revision
    <3>3. cache.revision \in Nat BY DEF CacheInv, CacheTypeOK
    <3>4. cache'.revision >= cache.revision BY CacheAdvances
    <3> QED BY ONLY <1>0, <3>1, <3>2, <3>3, <3>4
  <2> QED BY <1>6, <2>1, OthersKeepLoop, LoopKept
<1> QED BY <1>1, <1>2, <1>3, <1>4, <1>5, <1>6 DEF CacheNext, Serving, ShutDown, Refresher

\* A step of a refresher that is not about to notify, and stays so, concerns no stream.
LEMMA StreamsKept ==
  ASSUME StreamsFollow, UNCHANGED <<streamVars, cache>>, NEW p \in Refresher,
         refresh[p].pc # "notify", \A q \in Refresher : q = p \/ refresh'[q] = refresh[q]
  PROVE  StreamsFollow'
<1> SUFFICES ASSUME \A q \in Refresher : refresh'[q].pc # "notify"
             PROVE  \A t \in Stream : stream[t] \in {"sending", "streaming"} /\ ~notify[t]
                                        => sent[t].revision = cache.revision
  BY DEF StreamsFollow, streamVars
<1>1. \A q \in Refresher : refresh[q].pc # "notify" BY Zenon
<1> QED BY <1>1, Zenon DEF StreamsFollow

LEMMA StreamSteps ==
  ASSUME CacheInv, StreamsFollow, NEW u \in Stream,
         OpenStream(u) \/ StreamStep(u) \/ CloseStream(u)
  PROVE  StreamsFollow'
<1>0. /\ stream \in [Stream -> {"off", "reading", "sending", "streaming"}]
      /\ notify \in [Stream -> BOOLEAN] /\ DOMAIN sent = Stream
  BY DEF CacheInv, CacheTypeOK
<1>1. UNCHANGED <<refresh, cache>>
  BY
    DEF OpenStream, StreamStep, SendState, SendReturns, Notified, CloseStream, StreamUnchanged
<1> SUFFICES ASSUME \A p \in Refresher : refresh[p].pc # "notify", NEW t \in Stream,
                    stream'[t] \in {"sending", "streaming"}, ~notify'[t]
             PROVE  sent'[t].revision = cache.revision
  BY <1>1, Zenon DEF StreamsFollow
<1>2. ASSUME stream[t] \in {"sending", "streaming"}, ~notify[t]
      PROVE  sent[t].revision = cache.revision
  BY <1>2, Zenon DEF StreamsFollow
<1>3. CASE OpenStream(u) \/ Notified(u) \/ CloseStream(u)
  <2>1. sent' = sent BY <1>3 DEF OpenStream, Notified, CloseStream
  <2>2. /\ stream'[u] \in {"reading", "off"}
        /\ t # u => stream'[t] = stream[t] /\ notify'[t] = notify[t]
    BY <1>0, <1>3 DEF OpenStream, Notified, CloseStream
  <2>3. t # u BY <2>2
  <2> QED BY <1>2, <2>1, <2>2, <2>3, Zenon
<1>4. CASE SendState(u)
  <2>1. /\ notify' = notify
        /\ t # u => stream'[t] = stream[t] /\ sent'[t] = sent[t]
    BY <1>0, <1>4 DEF SendState
  <2>2. CASE t = u
    <3>1. sent'[u] = [revision |-> cache.revision, state |-> cache.state]
      BY <1>0, <1>4 DEF SendState
    <3>2. sent'[u].revision = cache.revision BY ONLY <3>1, SentFields, Zenon
    <3> QED BY <2>2, <3>2, Zenon
  <2>3. CASE t # u BY <1>2, <2>1, <2>3, Zenon
  <2> QED BY <2>2, <2>3
<1>5. CASE SendReturns(u)
  <2>1. UNCHANGED <<notify, sent>> BY <1>5 DEF SendReturns
  <2>2. stream[t] \in {"sending", "streaming"} BY <1>0, <1>5 DEF SendReturns
  <2> QED BY <1>2, <2>1, <2>2, Zenon
<1> QED BY <1>3, <1>4, <1>5 DEF StreamStep

LEMMA StreamsFollowNext ==
  ASSUME CacheInv, NotStarted, StreamsFollow, [CacheNext]_cacheVars
  PROVE  StreamsFollow'
<1>0. /\ refresh \in [Refresher -> RefreshState] /\ "loop" \in Refresher /\ "flight" \in Refresher
  BY DEF CacheInv, CacheTypeOK, Refresher
<1>1. CASE StoreWrite \/ WatchStep \/ WatchFault \/ WatchStops \/ UNCHANGED cacheVars
  <2>1. UNCHANGED <<streamVars, cache, refresh>>
    <3>1. CASE StoreWrite BY <3>1, WritesCommit DEF Commit, CacheInv
    <3>2. CASE WatchStep \/ WatchFault \/ WatchStops \/ UNCHANGED cacheVars
      BY <3>2 DEF WatchStep, WatchFault, WatchStops, cacheVars, streamVars
    <3> QED BY <1>1, <3>1, <3>2
  <2> QED BY <2>1, Zenon DEF StreamsFollow, streamVars
<1>2. CASE \/ Start \/ ChangeSignalled \/ \E why \in {"reconcile", "retry"} : TimerFires(why)
           \/ \E stopped \in BOOLEAN : LoopExits(stopped)
  <2>1. refresh["loop"].pc \in {"off", "idle"}
    BY <1>2 DEF Start, ChangeSignalled, TimerFires, LoopExits, LoopWaits, NotStarted
  <2>2. \A q \in Refresher : q = "loop" \/ refresh'[q] = refresh[q]
    BY <1>0, <1>2 DEF Start, ChangeSignalled, TimerFires, LoopExits, StartRead
  <2>3. UNCHANGED <<streamVars, cache>>
    BY <1>2 DEF Start, ChangeSignalled, TimerFires, LoopExits
  <2>4. refresh["loop"].pc # "notify" BY <2>1
  <2> QED BY <1>0, <2>2, <2>3, <2>4, StreamsKept
<1>3. ASSUME NEW p \in Refresher, GetAssignmentState(p) \/ SkipStale(p) \/ RefreshFails(p)
      PROVE  StreamsFollow'
  <2>1. refresh[p].pc # "notify" BY <1>3, Zenon
    DEF GetAssignmentState, SkipStale, RefreshFails
  <2>2. \A q \in Refresher : q = p \/ refresh'[q] = refresh[q]
    BY <1>0, <1>3, Zenon DEF GetAssignmentState, SkipStale, RefreshFails, Finish
  <2>3. UNCHANGED <<streamVars, cache>> BY <1>3, Zenon
    DEF GetAssignmentState, SkipStale, RefreshFails
  <2> QED BY <2>1, <2>2, <2>3, StreamsKept
<1>4. ASSUME NEW p \in Refresher, Replace(p)
      PROVE  StreamsFollow'
  <2>1. refresh' = [refresh EXCEPT ![p].pc = "notify"] BY <1>4 DEF Replace
  <2>2. refresh'[p] = [refresh[p] EXCEPT !.pc = "notify"] /\ refresh[p] \in RefreshState
    BY <1>0, <2>1
  <2>3. refresh'[p].pc = "notify" BY <2>2 DEF RefreshState
  <2> QED BY <2>3, Zenon DEF StreamsFollow
<1>5. ASSUME NEW p \in Refresher, NotifySubscribers(p)
      PROVE  StreamsFollow'
  <2>1. stream' = stream /\ notify' = [t \in Stream |-> notify[t] \/ stream[t] # "off"]
    BY <1>5 DEF NotifySubscribers
  <2>2. \A t \in Stream : stream'[t] \in {"sending", "streaming"} => notify'[t]
    BY <2>1, Zenon
  <2> QED BY <2>2, Zenon DEF StreamsFollow
<1>6. CASE \E c \in Caller : GetShardOwner(c) \/ CallerStep(c) \/ CallCancelled(c)
  <2>1. /\ CallUnchanged
        /\ UNCHANGED refresh \/ (StartRead("flight") /\ refresh["flight"].pc = "idle")
    BY <1>6, Zenon DEF GetShardOwner, CallerStep, IsShardDrained, getShardOwnerInMap,
       CallCancelled, refreshSingleFlight
  <2>2. UNCHANGED <<streamVars, cache>> BY <2>1 DEF CallUnchanged
  <2>3. CASE UNCHANGED refresh BY <2>2, <2>3, Zenon DEF StreamsFollow, streamVars
  <2>4. CASE StartRead("flight") /\ refresh["flight"].pc = "idle"
    <3>1. \A q \in Refresher : q = "flight" \/ refresh'[q] = refresh[q]
      BY <1>0, <2>4 DEF StartRead
    <3>2. refresh["flight"].pc # "notify" BY <2>4
    <3> QED BY <1>0, <2>2, <3>1, <3>2, StreamsKept
  <2> QED BY <2>1, <2>3, <2>4
<1>7. CASE \E t \in Stream : OpenStream(t) \/ StreamStep(t) \/ CloseStream(t)
  BY <1>7, StreamSteps
<1> QED BY <1>1, <1>2, <1>3, <1>4, <1>5, <1>6, <1>7
  DEF CacheNext, Serving, ShutDown, RefreshStep

LEMMA NotStartedNext ==
  ASSUME CacheInv, NotStarted, [CacheNext]_cacheVars
  PROVE  NotStarted'
<1> SUFFICES ASSUME watch' = "off" PROVE refresh'["loop"].pc = "off"
  BY DEF NotStarted
<1>1. CASE StoreWrite
  <2>1. UNCHANGED <<watch, refresh>> BY <1>1, WritesCommit DEF Commit, watchVars, CacheInv
  <2> QED BY <2>1 DEF NotStarted
<1>2. CASE Start \/ WatchStep \/ WatchFault \/ WatchStops
  BY <1>2
    DEF Start, WatchStep, WatchCreated, WatchEvent, WatchFault, WatchFails, WatchStops,
     StopWatch
<1>3. CASE \/ ChangeSignalled \/ \E why \in {"reconcile", "retry"} : TimerFires(why)
           \/ \E stopped \in BOOLEAN : LoopExits(stopped)
  <2>1. watch = "off" /\ refresh["loop"].pc = "idle"
    BY <1>3 DEF ChangeSignalled, TimerFires, LoopExits, LoopWaits, watchVars
  <2> QED BY <2>1 DEF NotStarted
<1>4. CASE RefreshStep("loop") \/ RefreshFails("loop")
  <2>1. watch = "off" /\ refresh["loop"].pc \in {"reading", "read", "notify"}
    BY <1>4, Zenon DEF RefreshStep, RefreshFails, GetAssignmentState, Replace, SkipStale,
       NotifySubscribers, watchVars
  <2> QED BY <2>1 DEF NotStarted
<1>5. CASE \/ RefreshStep("flight") \/ RefreshFails("flight")
           \/ \E c \in Caller : GetShardOwner(c) \/ CallerStep(c) \/ CallCancelled(c)
           \/ \E t \in Stream : OpenStream(t) \/ StreamStep(t) \/ CloseStream(t)
           \/ UNCHANGED cacheVars
  <2>1. watch = "off" /\ refresh'["loop"] = refresh["loop"] BY <1>5, OthersKeepLoop
  <2> QED BY <2>1 DEF NotStarted
<1> QED BY <1>1, <1>2, <1>3, <1>4, <1>5 DEF CacheNext, Serving, ShutDown, Refresher

\* The signals lose no change: once the watch has delivered all events, no signal is
\* pending and the loop waits for the reconcile, the cache shows what the store holds,
\* and so does every stream that has no notification to take.  Neither the capacity of
\* one of the channels nor the order in which the loop, the shared refresh, the
\* notifications and the sends are taken matters, and no reconcile is needed for it.
THEOREM NoChangeIsLost == CacheSpec => []QuietServerIsCurrent
<1>1. CacheInit => SentIsRevision /\ QuietInv
  <2> SUFFICES ASSUME CacheInit PROVE SentIsRevision /\ QuietInv
    OBVIOUS
  <2>1. SentIsRevision
    <3> SUFFICES ASSUME NEW t \in Stream
                 PROVE  /\ sent[t].revision <= cache.revision
                        /\ sent[t].state = IF sent[t].revision = 0 THEN EmptyNamespace
                                           ELSE history[sent[t].revision]
      BY DEF SentIsRevision
    <3>1. sent[t] = [revision |-> 0, state |-> EmptyNamespace] BY Zenon DEF CacheInit
    <3>2. sent[t].revision = 0 /\ sent[t].state = EmptyNamespace BY <3>1, SentFields, Zenon
    <3>3. cache.revision = 0 BY DEF CacheInit
    <3>4. 0 <= 0 OBVIOUS
    <3> QED BY <3>2, <3>3, <3>4, Zenon
  <2>2. EventsTell
    <3>1. Revision = 1 BY DEF CacheInit, Revision
    <3> QED BY <3>1 DEF EventsTell
  <2>3. NotStarted BY DEF CacheInit, NotStarted, Refresher
  <2>4. LoopIsCurrent BY DEF CacheInit, LoopIsCurrent
  <2>5. StreamsFollow BY DEF CacheInit, StreamsFollow
  <2> QED BY <2>1, <2>2, <2>3, <2>4, <2>5 DEF QuietInv
<1>2. CacheInv /\ (SentIsRevision /\ QuietInv) /\ [CacheNext]_cacheVars
        => (SentIsRevision /\ QuietInv)'
  BY SentIsRevisionNext, EventsTellNext, NotStartedNext, LoopIsCurrentNext, StreamsFollowNext
  DEF QuietInv, CacheInv
<1>3. CacheInv /\ (SentIsRevision /\ QuietInv) => QuietServerIsCurrent
  <2> SUFFICES ASSUME CacheInv, SentIsRevision, QuietInv, watch = "up", watched = Revision,
                      ~signal, refresh["loop"].pc = "idle", delay = "reconcile"
               PROVE  /\ cache.state = Now
                      /\ refresh["flight"].pc # "notify" =>
                           \A t \in Stream : stream[t] = "streaming" /\ ~notify[t]
                                               => sent[t].state = Now
    BY Zenon DEF QuietServerIsCurrent, LoopWaits
  <2>1. Same(history, Revision, cache.revision) BY Zenon DEF QuietInv, LoopIsCurrent
  <2>2. cache.revision \in 1..Revision BY <2>1 DEF Same, Revision
  <2>3. cache.revision # 0 /\ Revision \in cache.revision..Revision
    BY <2>2, NowTyped, CacheAssumption DEF CacheInv
  <2>4. history[cache.revision] = Now BY <2>1, <2>3, Zenon DEF Same, Now
  <2>5. cache.state = Now BY <2>3, <2>4, Zenon DEF CacheInv, CacheIsRevision
  <2>6. ASSUME refresh["flight"].pc # "notify", NEW t \in Stream,
               stream[t] = "streaming", ~notify[t]
        PROVE  sent[t].state = Now
    <3>1. \A p \in Refresher : refresh[p].pc # "notify" BY <2>6 DEF Refresher
    <3>2. stream[t] \in {"sending", "streaming"} BY <2>6
    <3>3. sent[t].revision = cache.revision
      BY <2>6, <3>1, <3>2, Zenon DEF QuietInv, StreamsFollow
    <3> QED BY <2>3, <2>4, <3>3, Zenon DEF SentIsRevision
  <2> QED BY <2>5, <2>6
<1> QED BY <1>1, <1>2, <1>3, CacheInvariant, PTL DEF CacheSpec, CacheNext
=============================================================================
