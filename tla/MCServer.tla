------------------------------- MODULE MCServer -------------------------------
(***************************************************************************)
(* The goroutines with which one server answers callers, for TLC: the      *)
(* batcher of a namespace and the cache of a namespace.  They share no     *)
(* state.  A behaviour has a scope, which says which of them runs and      *)
(* limits what happens around it:                                          *)
(*   batch    three calls of the batcher, two of them for the same shard   *)
(*   watch    the cache with its watch, no readers                         *)
(*   calls    the cache with calls of GetShardOwner                        *)
(*   streams  the cache with a stream, in ServerSafety with a call too     *)
(*   writes   all writes to the store, by themselves                       *)
(***************************************************************************)
EXTENDS ShardBatcher, ShardCache, TLC

CONSTANTS r1, r2, r3, k1, k2, c1, c2

VARIABLE scope

mcServerVars == <<batcherVars, cacheVars, scope>>

KeyOfRequest == [r \in Request |-> IF r = r3 THEN k2 ELSE k1]

ScopeWrites ==
  [watch |-> {"assign", "drain", "undrain", "heartbeat"},
   calls |-> {"assign", "drain", "undrain"},
   streams |-> {"drain", "undrain"},
   writes |-> WriteKind]

MCServerInit(scopes) == BatcherInit /\ CacheInit /\ scope \in scopes

\* r1 and r2 ask for the same shard: without loss of generality r1 asks first.
MCBatcherNext ==
  /\ scope = "batch"
  /\ BatcherNext
  /\ caller[r1] = "idle" => caller'[r2] = "idle"
  /\ UNCHANGED <<cacheVars, scope>>

\* The revisions of the store and the writes to it are bounded by those of the scope.
MCCacheNext(revisions, writes) ==
  /\ scope # "batch"
  /\ \/ Serving
     \/ Revision < revisions[scope] /\ \E kind \in writes[scope] : Written(kind)
  /\ scope # "streams" => \A t \in Stream : stream'[t] = "off"
  /\ scope \in {"watch", "writes"} => \A c \in Caller : call'[c].pc = "idle"
  /\ scope = "writes" => watch' = "off"
  /\ UNCHANGED <<batcherVars, scope>>

MCShutDown == ShutDown /\ UNCHANGED <<batcherVars, scope>>

SafetyRevisions == [calls |-> 3, streams |-> 2, writes |-> MaxRevision]

MCSafetyNext == MCBatcherNext \/ MCCacheNext(SafetyRevisions, ScopeWrites) \/ MCShutDown

MCSafetySpec ==
  /\ MCServerInit({"batch", "calls", "streams", "writes"})
  /\ [][MCSafetyNext]_mcServerVars

LiveRevisions == [watch |-> 3, calls |-> 2, streams |-> 2]

LiveWrites == [ScopeWrites EXCEPT !.calls = {"assign"}]

GivesUp(r) ==
  /\ caller[r] # "returned" /\ caller'[r] = "returned"
  /\ response[r] = NoReply /\ ~stopped

\* For liveness no caller of the batcher gives up, r3 asks last, and the assigner answers
\* with owners.  Of the callers that share a refresh c1 asks first; the cache they ask
\* has its watch up and does not reconcile.  A stream has no calls besides.
MCLiveNext ==
  \/ /\ MCBatcherNext
     /\ caller[r2] = "idle" => caller'[r3] = "idle"
     /\ \A r \in Request : ~GivesUp(r)
     /\ flush' # "failed" /\ \A k \in Key : fate'[k] # "drained"
  \/ /\ MCCacheNext(LiveRevisions, LiveWrites)
     /\ scope = "streams" => \A c \in Caller : call'[c].pc = "idle"
     /\ scope = "calls" =>
          /\ ~WatchFault /\ ~TimerFires("reconcile")
          /\ call[c1].pc = "idle" => call'[c2].pc = "idle"

MCLiveSpec ==
  /\ MCServerInit({"batch", "watch", "calls", "streams"})
  /\ [][MCLiveNext]_mcServerVars
  /\ BatcherFairness /\ GoroutinesRun /\ WF_cacheVars(scope # "batch" /\ Start)
=============================================================================
