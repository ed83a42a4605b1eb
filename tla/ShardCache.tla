------------------------------ MODULE ShardCache ------------------------------
(***************************************************************************)
(* The cache that a server keeps of one namespace: the watch that signals  *)
(* a change in the store, the loop that then reads the namespace, the      *)
(* reads that callers share after a miss, and the streams that pass the    *)
(* cached state on to spectators.  The store is a sequence of snapshots,   *)
(* one for every revision.                                                 *)
(***************************************************************************)
EXTENDS Naturals, Sequences, FiniteSets

CONSTANTS
  Shard, Executor,
  Meta,         \* values of the metadata of an executor
  Nobody,       \* no owner, and no metadata
  Caller,       \* calls of GetShardOwner
  Stream,       \* streams of WatchNamespaceState
  MaxRevision   \* bound on the writes to the store

ASSUME CacheAssumption ==
  Nobody \notin Executor \cup Meta /\ MaxRevision \in Nat \ {0}

VARIABLES
  history,    \* the namespace at every revision of the store
  events,     \* the keys that each revision wrote, and whether the value changed
  versions,   \* the mod revision of the assignment version key at every revision
  watch,      \* the goroutine that watches the namespace
  watched,    \* the revisions that the watch has delivered or will never deliver
  signal,     \* whether changeChan holds a signal
  refresh,    \* the reads under way: of the loop and of the shared refresh
  delay,      \* whether the loop waits for the next reconcile or for a retry
  cache,      \* the state the cache holds, its revision and the owner map
  call,       \* the calls of GetShardOwner
  stream, notify, sent   \* the streams, their channels and what they last sent

storeVars == <<history, events, versions>>
watchVars == <<watch, watched, signal>>
streamVars == <<stream, notify, sent>>
cacheVars == <<storeVars, watchVars, refresh, delay, cache, call, streamVars>>

Snapshot ==
  [assigned : [Executor -> SUBSET Shard], drained : SUBSET Shard,
   meta : [Executor -> Meta \cup {Nobody}]]

EmptyNamespace ==
  [assigned |-> [e \in Executor |-> {}], drained |-> {},
   meta |-> [e \in Executor |-> Nobody]]

Event == [key : {"assigned_state", "metadata", "drained_shard"}, changed : BOOLEAN]

Refresher == {"loop", "flight"}

Revisions == 0..MaxRevision

Answer ==
  [kind : {"none", "owner", "drained", "notFound", "cancelled", "error"},
   owner : Executor \cup {Nobody}, revision : Revisions]

NoAnswer == [kind |-> "none", owner |-> Nobody, revision |-> 0]

RefreshState ==
  [pc : {"off", "idle", "reading", "read", "notify"}, revision : Revisions]

CallState ==
  [pc : {"idle", "drained", "drainedMiss", "drainedAgain", "owner", "ownerMiss",
         "ownerAgain", "returned"}, shard : Shard, answer : Answer]

CacheTypeOK ==
  /\ history \in Seq(Snapshot) /\ Len(history) \in 1..MaxRevision
  /\ events \in Seq(SUBSET Event) /\ Len(events) = Len(history)
  /\ versions \in Seq(Revisions) /\ Len(versions) = Len(history)
  /\ watch \in {"off", "retry", "created", "up", "closed"}
  /\ watched \in 0..Len(history) /\ signal \in BOOLEAN
  /\ refresh \in [Refresher -> RefreshState]
  /\ delay \in {"reconcile", "retry"}
  /\ cache \in [revision : 0..Len(history), state : Snapshot,
                owner : [Shard -> Executor \cup {Nobody}]]
  /\ call \in [Caller -> CallState]
  /\ stream \in [Stream -> {"off", "reading", "sending", "streaming"}]
  /\ notify \in [Stream -> BOOLEAN]
  /\ sent \in [Stream -> [revision : 0..Len(history), state : Snapshot]]

CacheInit ==
  /\ history = <<EmptyNamespace>>
  /\ events = <<{}>>
  /\ versions = <<0>>
  /\ watch = "off" /\ watched = 0 /\ signal = FALSE
  /\ refresh = [p \in Refresher |->
       [pc |-> IF p = "loop" THEN "off" ELSE "idle", revision |-> 0]]
  /\ delay = "reconcile"
  /\ cache = [revision |-> 0, state |-> EmptyNamespace, owner |-> [s \in Shard |-> Nobody]]
  /\ call \in [Caller -> [pc : {"idle"}, shard : Shard, answer : {NoAnswer}]]
  /\ stream = [t \in Stream |-> "off"]
  /\ notify = [t \in Stream |-> FALSE]
  /\ sent = [t \in Stream |-> [revision |-> 0, state |-> EmptyNamespace]]

Revision == Len(history)

-----------------------------------------------------------------------------
(* Writes to the store.  Those that spectators can see move the version.   *)

Now == history[Revision]

\* One transaction and the events it causes, those of other keys left out.
Commit(state, evs, touch) ==
  /\ Revision < MaxRevision
  /\ history' = Append(history, state)
  /\ events' = Append(events, evs)
  /\ versions' = Append(versions, IF touch THEN Revision + 1 ELSE versions[Revision])
  /\ UNCHANGED <<watchVars, refresh, delay, cache, call, streamVars>>

Changed(key, changed) == {[key |-> key, changed |-> changed]}

\* AssignShards writes the assigned state of one executor.
AssignShards(e, S) ==
  Commit([Now EXCEPT !.assigned[e] = S], Changed("assigned_state", S # Now.assigned[e]), TRUE)

\* RecordHeartbeat without the else branch of its transaction.
RecordHeartbeatPlain(e, m) ==
  IF m = Nobody THEN Commit(Now, {}, FALSE)
  ELSE Commit([Now EXCEPT !.meta[e] = m], Changed("metadata", m # Now.meta[e]), FALSE)

\* RecordHeartbeat.  A heartbeat without metadata leaves the metadata keys.
RecordHeartbeat(e, m) ==
  IF m = Nobody THEN Commit(Now, {}, FALSE)
  ELSE Commit([Now EXCEPT !.meta[e] = m], Changed("metadata", m # Now.meta[e]),
              m # Now.meta[e])

\* DeleteExecutors, and the deletions of AssignShards, remove all keys.
DeleteExecutors(e) ==
  Commit([Now EXCEPT !.assigned[e] = {}, !.meta[e] = Nobody],
         Changed("assigned_state", Now.assigned[e] # {})
           \cup Changed("metadata", Now.meta[e] # Nobody), TRUE)

\* DrainShards puts an empty value, UndrainShards deletes it: the value of the
\* event is the previous one in both.
DrainShards(s) ==
  Commit([Now EXCEPT !.drained = @ \cup {s}], Changed("drained_shard", FALSE), TRUE)

UndrainShards(s) ==
  Commit([Now EXCEPT !.drained = @ \ {s}],
         IF s \in Now.drained THEN Changed("drained_shard", FALSE) ELSE {}, TRUE)

ResetNamespace ==
  Commit(EmptyNamespace,
         Changed("assigned_state", Now.assigned # EmptyNamespace.assigned)
           \cup Changed("metadata", Now.meta # EmptyNamespace.meta)
           \cup (IF Now.drained # {} THEN Changed("drained_shard", FALSE) ELSE {}), TRUE)

WriteKind == {"assign", "heartbeat", "delete", "drain", "undrain", "reset"}

Written(kind) ==
  \/ /\ kind = "assign"
     /\ \E e \in Executor, S \in SUBSET Shard : AssignShards(e, S)
  \/ /\ kind = "heartbeat"
     /\ \E e \in Executor, m \in Meta \cup {Nobody} : RecordHeartbeat(e, m)
  \/ kind = "delete" /\ \E e \in Executor : DeleteExecutors(e)
  \/ kind = "drain" /\ \E s \in Shard : DrainShards(s)
  \/ kind = "undrain" /\ \E s \in Shard : UndrainShards(s)
  \/ kind = "reset" /\ ResetNamespace

-----------------------------------------------------------------------------
(* The watch: SubscribeToNamespaceChanges and its goroutine.               *)

\* Start of the cache: the watch and the refresh loop begin.
Start ==
  /\ watch = "off"
  /\ watch' = "retry"
  /\ refresh' = [refresh EXCEPT !["loop"].pc = "idle"]
  /\ UNCHANGED <<storeVars, watched, signal, delay, cache, call, streamVars>>

\* WatchCreated that signals before the watch exists.
WatchCreatedLate ==
  \/ /\ watch = "retry"
     /\ watch' = "created" /\ signal' = TRUE
     /\ UNCHANGED watched
  \/ /\ watch = "created"
     /\ watch' = "up" /\ watched' = Revision
     /\ UNCHANGED signal

\* The client's Watch returns: the watch delivers what is written from now on.
\* Then the subscriber is told to read what it may have missed.
WatchCreated ==
  \/ /\ watch = "retry"
     /\ watch' = "created" /\ watched' = Revision
     /\ UNCHANGED signal
  \/ /\ watch = "created"
     /\ watch' = "up" /\ signal' = TRUE
     /\ UNCHANGED watched

hasNamespaceStateChanged(evs) ==
  \E ev \in evs : IF ev.key = "drained_shard" THEN TRUE ELSE ev.changed

\* A response of the watch arrives; a signal that is pending is enough.
WatchEvent ==
  /\ watch = "up" /\ watched < Revision
  /\ watched' = watched + 1
  /\ signal' = (signal \/ hasNamespaceStateChanged(events[watched + 1]))
  /\ UNCHANGED watch

\* The watch ends, and with it what it has not delivered.  The goroutine
\* notices when it reads the next response.
WatchFails ==
  /\ watch = "up"
  /\ watch' = "retry"
  /\ UNCHANGED <<watched, signal>>

\* Stop of the store closes changeChan when the goroutine has left.
StopWatch ==
  /\ watch \notin {"off", "closed"}
  /\ watch' = "closed"
  /\ UNCHANGED <<watched, signal>>

WatchStep ==
  /\ WatchCreated \/ WatchEvent
  /\ UNCHANGED <<storeVars, refresh, delay, cache, call, streamVars>>

WatchFault ==
  /\ WatchFails
  /\ UNCHANGED <<storeVars, refresh, delay, cache, call, streamVars>>

WatchStops ==
  /\ StopWatch
  /\ UNCHANGED <<storeVars, refresh, delay, cache, call, streamVars>>

-----------------------------------------------------------------------------
(* Refreshes: namespaceRefreshLoop and refreshSingleFlight.                *)

LoopWaits == refresh["loop"].pc = "idle"

StartRead(p) == refresh' = [refresh EXCEPT ![p].pc = "reading"]

\* waitForRefresh returns because of a signal.  A closed channel that still
\* holds one delivers it first.
ChangeSignalled ==
  /\ LoopWaits /\ signal
  /\ signal' = FALSE
  /\ StartRead("loop")
  /\ UNCHANGED <<storeVars, watch, watched, delay, cache, call, streamVars>>

\* waitForRefresh returns because the delay is over.
TimerFires(why) ==
  /\ LoopWaits /\ delay = why
  /\ StartRead("loop")
  /\ UNCHANGED <<storeVars, watchVars, delay, cache, call, streamVars>>

\* The loop ends: stopCh is closed, or changeChan.
LoopExits(stopped) ==
  /\ LoopWaits
  /\ stopped \/ (watch = "closed" /\ ~signal)
  /\ refresh' = [refresh EXCEPT !["loop"].pc = "off"]
  /\ UNCHANGED <<storeVars, watchVars, delay, cache, call, streamVars>>

\* GetAssignmentState reads everything in one transaction.
GetAssignmentState(p) ==
  /\ refresh[p].pc = "reading"
  /\ refresh' = [refresh EXCEPT ![p] = [pc |-> "read", revision |-> Revision]]
  /\ UNCHANGED <<storeVars, watchVars, delay, cache, call, streamVars>>

Waits(c) == call[c].pc \in {"drainedMiss", "ownerMiss"}

\* The callers that wait for the shared refresh go on, or return its error.
Wake(c, ok) ==
  IF ~Waits(c) THEN call[c]
  ELSE IF ~ok THEN [call[c] EXCEPT !.pc = "returned", !.answer.kind = "error"]
  ELSE [call[c] EXCEPT !.pc = IF @ = "drainedMiss" THEN "drainedAgain" ELSE "ownerAgain"]

\* The refresh returns.
Finish(p, ok) ==
  /\ refresh' = [refresh EXCEPT ![p] = [pc |-> "idle", revision |-> 0]]
  /\ IF p = "flight"
     THEN call' = [c \in Caller |-> Wake(c, ok)] /\ UNCHANGED delay
     ELSE delay' = (IF ok THEN "reconcile" ELSE "retry") /\ UNCHANGED call

\* The read fails or takes longer than refreshTimeout.
RefreshFails(p) ==
  /\ refresh[p].pc = "reading"
  /\ Finish(p, FALSE)
  /\ UNCHANGED <<storeVars, watchVars, cache, streamVars>>

\* The owner map of applyNamespaceState: when two executors have a shard, the
\* order of the range over the map decides.
OwnerMap(state) ==
  {o \in [Shard -> Executor \cup {Nobody}] :
     \A s \in Shard : IF \E e \in Executor : s \in state.assigned[e]
                     THEN o[s] # Nobody /\ s \in state.assigned[o[s]]
                     ELSE o[s] = Nobody}

\* applyNamespaceState that leaves the drained set for the next refresh.
applyKeepsDrained(r, owner) ==
  [revision |-> r, state |-> [history[r] EXCEPT !.drained = cache.state.drained],
   owner |-> owner]

\* applyNamespaceState that adds owners and never removes one.
applyKeepsOwners(r, owner) ==
  [revision |-> r, state |-> history[r],
   owner |-> [s \in Shard |-> IF owner[s] = Nobody THEN cache.owner[s] ELSE owner[s]]]

applyNamespaceState(r, owner) ==
  [revision |-> r, state |-> history[r], owner |-> owner]

\* replaceNamespaceState without the comparison.
NewerAlways(r) == TRUE

\* replaceNamespaceState: what another refresh read later is kept.
Newer(r) == r > cache.revision

Replace(p) ==
  LET r == refresh[p].revision IN
  /\ refresh[p].pc = "read" /\ Newer(r)
  /\ \E owner \in OwnerMap(history[r]) : cache' = applyNamespaceState(r, owner)
  /\ refresh' = [refresh EXCEPT ![p].pc = "notify"]
  /\ UNCHANGED <<storeVars, watchVars, delay, call, streamVars>>

SkipStale(p) ==
  /\ refresh[p].pc = "read" /\ ~Newer(refresh[p].revision)
  /\ Finish(p, TRUE)
  /\ UNCHANGED <<storeVars, watchVars, cache, streamVars>>

\* notifySubscribers with channels that hold nothing.
NotifyUnbuffered(p) ==
  /\ refresh[p].pc = "notify"
  /\ notify' = [t \in Stream |-> notify[t] \/ stream[t] = "streaming"]
  /\ Finish(p, TRUE)
  /\ UNCHANGED <<storeVars, watchVars, cache, stream, sent>>

\* notifySubscribers: a channel that is full is left alone.
NotifySubscribers(p) ==
  /\ refresh[p].pc = "notify"
  /\ notify' = [t \in Stream |-> notify[t] \/ stream[t] # "off"]
  /\ Finish(p, TRUE)
  /\ UNCHANGED <<storeVars, watchVars, cache, stream, sent>>

RefreshStep(p) == GetAssignmentState(p) \/ Replace(p) \/ SkipStale(p) \/ NotifySubscribers(p)

-----------------------------------------------------------------------------
(* Callers: GetShardOwner.                                                 *)

CallUnchanged == UNCHANGED <<storeVars, watchVars, delay, cache, streamVars>>

Call(c, pc) == [call EXCEPT ![c].pc = pc]

Return(c, kind, owner) ==
  call' = [call EXCEPT ![c] = [@ EXCEPT !.pc = "returned",
             !.answer = [kind |-> kind, owner |-> owner, revision |-> cache.revision]]]

GetShardOwner(c) ==
  /\ call[c].pc = "idle"
  /\ call' = Call(c, "drained")
  /\ UNCHANGED refresh /\ CallUnchanged

\* A miss: the caller joins the shared refresh or starts one.
refreshSingleFlight(c, pc) ==
  /\ call' = Call(c, pc)
  /\ IF refresh["flight"].pc = "idle" THEN StartRead("flight") ELSE UNCHANGED refresh

\* IsShardDrained: the first look at the cache, or the one after a refresh.
IsShardDrained(c) ==
  LET loaded == cache.revision > 0
      again == call[c].pc = "drainedAgain" IN
  /\ call[c].pc \in {"drained", "drainedAgain"}
  /\ IF ~loaded /\ ~again THEN refreshSingleFlight(c, "drainedMiss")
     ELSE /\ IF call[c].shard \in cache.state.drained
             THEN Return(c, "drained", Nobody)
             ELSE call' = Call(c, "owner")
          /\ UNCHANGED refresh
  /\ CallUnchanged

\* getShardOwnerInMap, likewise.
getShardOwnerInMap(c) ==
  LET owner == cache.owner[call[c].shard]
      again == call[c].pc = "ownerAgain" IN
  /\ call[c].pc \in {"owner", "ownerAgain"}
  /\ IF owner = Nobody /\ ~again THEN refreshSingleFlight(c, "ownerMiss")
     ELSE /\ Return(c, IF owner = Nobody THEN "notFound" ELSE "owner", owner)
          /\ UNCHANGED refresh
  /\ CallUnchanged

\* CallCancelled, were the store read under the context of the caller.
CallCancelledEndsRead(c) ==
  /\ Waits(c)
  /\ call' = [d \in Caller |->
       IF d = c THEN [call[c] EXCEPT !.pc = "returned", !.answer.kind = "cancelled"]
       ELSE IF refresh["flight"].pc = "reading" THEN Wake(d, FALSE)
       ELSE call[d]]
  /\ refresh' = [refresh EXCEPT !["flight"].pc = IF @ = "reading" THEN "idle" ELSE @]
  /\ CallUnchanged

\* The context of a caller that waits for the refresh is cancelled.
CallCancelled(c) ==
  /\ Waits(c)
  /\ Return(c, "cancelled", Nobody)
  /\ UNCHANGED refresh /\ CallUnchanged

CallerStep(c) == IsShardDrained(c) \/ getShardOwnerInMap(c)

-----------------------------------------------------------------------------
(* Streams: WatchNamespaceState.                                           *)

StreamUnchanged == UNCHANGED <<storeVars, watchVars, refresh, delay, cache, call>>

\* A spectator connects: the handler subscribes, and will send the state.
OpenStream(t) ==
  /\ stream[t] = "off"
  /\ stream' = [stream EXCEPT ![t] = "reading"]
  /\ notify' = [notify EXCEPT ![t] = FALSE]
  /\ UNCHANGED sent /\ StreamUnchanged

\* sendWatchResponse takes the state of the cache, and returns when it is sent.
SendState(t) ==
  /\ stream[t] = "reading"
  /\ stream' = [stream EXCEPT ![t] = "sending"]
  /\ sent' = [sent EXCEPT ![t] = [revision |-> cache.revision, state |-> cache.state]]
  /\ UNCHANGED notify /\ StreamUnchanged

SendReturns(t) ==
  /\ stream[t] = "sending"
  /\ stream' = [stream EXCEPT ![t] = "streaming"]
  /\ UNCHANGED <<notify, sent>> /\ StreamUnchanged

\* The handler takes a notification.
Notified(t) ==
  /\ stream[t] = "streaming" /\ notify[t]
  /\ stream' = [stream EXCEPT ![t] = "reading"]
  /\ notify' = [notify EXCEPT ![t] = FALSE]
  /\ UNCHANGED sent /\ StreamUnchanged

StreamStep(t) == SendState(t) \/ SendReturns(t) \/ Notified(t)

\* The spectator, the network or the server ends the stream.
CloseStream(t) ==
  /\ stream[t] # "off"
  /\ stream' = [stream EXCEPT ![t] = "off"]
  /\ UNCHANGED <<notify, sent>> /\ StreamUnchanged

-----------------------------------------------------------------------------
Serving ==
  \/ Start
  \/ WatchStep \/ WatchFault
  \/ ChangeSignalled \/ \E why \in {"reconcile", "retry"} : TimerFires(why)
  \/ \E p \in Refresher : RefreshStep(p) \/ RefreshFails(p)
  \/ \E c \in Caller : GetShardOwner(c) \/ CallerStep(c) \/ CallCancelled(c)
  \/ \E t \in Stream : OpenStream(t) \/ StreamStep(t) \/ CloseStream(t)

ShutDown == WatchStops \/ \E stopped \in BOOLEAN : LoopExits(stopped)

StoreWrite == \E kind \in WriteKind : Written(kind)

CacheSpec == CacheInit /\ [][StoreWrite \/ Serving \/ ShutDown]_cacheVars

\* A server that is started and keeps running.  Its goroutines go on, and not every
\* read of the store fails.  No reconcile is needed.
GoroutinesRun ==
  /\ WF_cacheVars(WatchStep)
  /\ WF_cacheVars(ChangeSignalled) /\ WF_cacheVars(TimerFires("retry"))
  /\ \A p \in Refresher : SF_cacheVars(RefreshStep(p))
  /\ \A c \in Caller : WF_cacheVars(CallerStep(c))
  /\ \A t \in Stream : WF_cacheVars(StreamStep(t))

CacheFairness == WF_cacheVars(Start) /\ GoroutinesRun

CacheLiveSpec == CacheInit /\ [][StoreWrite \/ Serving]_cacheVars /\ CacheFairness

-----------------------------------------------------------------------------
\* AssignmentRevision, as its comment promises, is the revision of the latest
\* change to assignments, drained shards or metadata: two revisions of the
\* store with the same version show a spectator the same state.
VersionCoversState ==
  \A i, j \in 1..Revision : versions[i] = versions[j] => history[i] = history[j]

View == INSTANCE NamespaceView
  WITH Nothing <- EmptyNamespace, Revision <- 2..MaxRevision,
       log <- history, seen <- cache.revision, shown <- cache.state

StreamView(t) == INSTANCE NamespaceView
  WITH Nothing <- EmptyNamespace, Revision <- 2..MaxRevision,
       log <- history, seen <- sent[t].revision, shown <- sent[t].state

\* The cache shows one revision of the store at a time and never goes back,
\* although the loop and the shared refresh read and apply in any order.
CacheIsView == View!ViewSpec

\* So does what a stream sends, over any number of connections to the server.
StreamIsView ==
  /\ \A t \in Stream : StreamView(t)!ViewInit
  /\ [][\A t \in Stream : StreamView(t)!ViewNext
                          \/ UNCHANGED StreamView(t)!viewVars]_cacheVars

\* No change is lost on its way.  When the watch has delivered everything, no signal
\* is pending and the refresh loop waits for nothing but the reconcile, the cache
\* shows the latest state, and so does every stream without a pending notification.
QuietServerIsCurrent ==
  watch = "up" /\ watched = Revision /\ ~signal /\ LoopWaits /\ delay = "reconcile" =>
    /\ cache.state = Now
    /\ refresh["flight"].pc # "notify" =>
         \A t \in Stream : stream[t] = "streaming" /\ ~notify[t] => sent[t].state = Now

\* What changes in the store reaches the cache through the signals of the
\* watch, without the periodic reconcile, however often the watch breaks.
CacheCatchesUp == View!CatchesUp

\* And it reaches the spectator as long as its stream lasts: a notification that finds
\* the channel full, or comes between the subscription and the first message, is not
\* lost.
StreamCatchesUp ==
  \A t \in Stream, r \in 2..MaxRevision :
    (Revision >= r /\ stream[t] # "off") ~> StreamView(t)!AsNewAs(r) \/ stream[t] = "off"

Fails(c) == call[c].pc = "returned" /\ call[c].answer.kind = "error"

\* What the comment on refreshSingleFlight promises those who share a refresh,
\* whoever of them gives up while it runs: it ends, so that every call returns, and
\* a call returns an error only if the read of the store failed.
CallReturns ==
  /\ \A c \in Caller : call[c].pc = "drained" ~> call[c].pc = "returned"
  /\ [][(\E c \in Caller : ~Fails(c) /\ Fails(c)') => RefreshFails("flight")]_cacheVars

\* The comment on GetShardOwner: a drained shard is refused, whatever owner it
\* last had.  Drain and owner are read from the same state.
DrainedIsRefused ==
  \A c \in Caller :
    call[c].answer.kind = "owner"
      => call[c].shard \notin history[call[c].answer.revision].drained

\* A caller is given an owner that the state has at the time of the answer, and
\* is told that a shard is drained only if it is.
AnswerIsCurrent ==
  \A c \in Caller : LET a == call[c].answer IN
    /\ a.kind = "owner" => call[c].shard \in history[a.revision].assigned[a.owner]
    /\ a.kind = "drained" => call[c].shard \in history[a.revision].drained
=============================================================================
