# Shard manager: TLA+ models and proofs

The shard manager assigns the shards of a namespace to executors. This directory
models how it does so: who may write an assignment, from what it was read, and what
happens when leaders, executors, servers and operators act at the same time or fail.
The models follow the Go code under `src/service/sharddistributor`; `PROJECT.json`
names the lines behind every definition.

## The system

All state lives in etcd. For each namespace there are, under one prefix:

- for every executor: heartbeat, status, reported shards, metadata and host, shard
  statistics, and the *assigned state*, which lists its shards;
- one key for each drained shard and for each drained host;
- the leader keys of the election.

Who reads and writes them:

| Part | Code | What it does |
|---|---|---|
| Executor store | `store/etcd/executorstore` | the transactions; `AssignShards` compares the `ModRevision` of assigned states |
| Leader election | `leader/election`, `store/etcd/leaderstore` | picks one host per namespace; `Guard` makes a transaction depend on the leader key |
| Namespace manager | `leader/namespace` | starts, drains and stops electors |
| Namespace processor | `leader/process` | the leader's loop: read, plan, write; clean up statistics |
| Load balancer | `loadbalancer` | NAIVE (by count) and GREEDY (by load) placement and moves |
| Ephemeral assigner, batcher | `ephemeralassigner` | every server places shards on demand when a request names one nobody owns |
| Heartbeat handler | `handler/executor.go` | writes heartbeats, answers with the assignment |
| Operator API | `handler/handler.go` | drains, undrains, reset, owner lookup, watch |
| Shard cache, namespace watch | `cache`, `executorstore/namespacewatch.go` | serves owners and streams from memory |
| Executor client, spectator client | `client` | run the shards; follow the assignments |
| Namespace registry and managers | `namespaces` | start and stop the cache and the batcher of each namespace |
| Wrappers, mapping, canary, tools, configuration | `wrappers`, `canary`, `common`, `tools`, `cmd` | no protocol of their own |

A *fixed* namespace has a given set of shards and only leaders assign them. In an
*ephemeral* namespace a shard exists once somebody asks for it: servers place it
without being leader, and leaders move it later.

## The modules

| Module | Models | State |
|---|---|---|
| `ExecutorStore` | the keys of a namespace and each transaction on them | `status`, `fresh`, `reportedDone`, `hostname`, `hasStats`, `assigned`, `modRevision`, `drainedShards`, `drainedHosts` |
| `LeaderElection` | passes of `runElection` that compete through etcd | `role`, `keys`, `ahead` |
| `RebalancePlan` | what `rebalanceShardsImpl` may compute from a snapshot, without loads (no state) | |
| `NamespaceProcessor` | the loops of a leader | `pc`, `watch`, `snap`, `work`, `cleanup` |
| `EphemeralAssigner` | the batch in flight of every server | `phase`, `batch`, `view`, `retries` |
| `ShardDistributor` | one namespace: all of the above with executors and operators | |
| `LoadPlan` | the loops of a rebalancing pass with their loads: steals, NAIVE and GREEDY moves | `load`, `own`, `loads`, `cooling`, `pass`, ... |
| `ElectionHandler` | one server's handler of a namespace and its elector goroutines | `handler`, `gauge`, `elector`, `notices`, `processing`, ... |
| `ShardBatcher` | the goroutines of the batcher | `caller`, `queue`, `pending`, `inflight`, `window`, `flush`, `loop`, ... |
| `NamespaceView` | what a reader of a namespace is promised (abstract) | `log`, `seen`, `shown` |
| `ShardCache` | the namespace watch, the cache, its callers and its streams | `history`, `watch`, `signal`, `refresh`, `cache`, `call`, `stream`, ... |
| `ExecutorClient` | the executor client and its heartbeat manager | `flight`, `thread`, `mutex`, `managed`, `proc`, `signal`, `stopC` |
| `SpectatorClient` | the spectator client and its resettable signal | `loop`, `received`, `shown`, `done`, `stopping`, `request` |
| `MC*` | instances for TLC | `events`, `scope` |
| `*Proofs` | theorems and their proofs | |

How they are put together:

- `NamespaceProcessor` extends `RebalancePlan` and `LeaderElection`; `ShardDistributor`
  extends it and `EphemeralAssigner`. `LeaderElection` is also a specification of its
  own (`ElectionSpec`), which `ShardDistributor` is proved to implement, and which
  `ElectionHandler` extends with the goroutines of one server.
- `LoadPlan` computes with loads what `RebalancePlan` leaves open; `PassIsAllowed` says
  that what its loops arrive at is a plan that `RebalancePlan` allows a leader.
- `ShardCache` instantiates `NamespaceView` twice: the cache (`CacheIsView`) and what
  each stream has sent (`StreamIsView`) implement it, with the store's history as the
  log. `CacheCatchesUp` and `StreamCatchesUp` are its liveness promise.
- The clients meet the service through what they see of it: the assignment that a
  heartbeat reads, and the states that a stream sends in order.

### Steps

Every read of the store and every transaction is one step, and so is every channel
operation and critical section of the goroutines; anything may happen between two of
them.

- A rebalance is `ReadState`, then one of `NoActiveExecutors`, `SkipRebalance` and
  `Rebalance`, then the batches of `DeleteStaleExecutors` or, in GREEDY mode, of
  `RecordStatistics`. `RebalanceFails` ends it early. The cleanup of statistics is
  `ReadShardStats` and the batches of `DeleteShardStats`.
- A placement is `StartBatch`, `ReadNamespace`, `AssignBatch`, and back to
  `ReadNamespace` after a version conflict. `ShardBatcher` has the goroutines around it:
  a call of `Submit` is `Submit`, `Send`, `Receive` or `Leave`; the loop takes requests,
  opens a window, starts a flush, delivers, and at Stop flushes and drains.
- A refresh of the cache reads, applies if newer, and notifies. The loop and the shared
  refresh of callers that miss run at the same time. `GetShardOwner` looks at the
  drained set and at the owners under two locks, each with a refresh after a miss.
- A heartbeat of the executor client is sent or joined, read by the server, answered or
  lost. Its answer is applied under the mutex shard by shard; `Start` and `Stop` of a
  processor end in goroutines of their own.
- `watchLoop` of the spectator client has a step per state function and per receive.
- The handler and the elector have a step per `select`, etcd call and notification.

### Abstractions

- **Revisions** in `ExecutorStore` are compared for equality only. A write takes any
  revision that is neither in the store nor in a snapshot. `Revision` has more members
  than can be in use at once, (1 + sessions + servers) x executors, so a write never
  lacks one. In `ShardCache` they are the positions in `history`, since there their
  order matters.
- **Time.** `fresh` says whether a heartbeat is younger than `HeartbeatTTL`; it may
  turn false at any time. Cooldowns, tickers and timeouts are steps that may happen.
- **Loads** are left out of `RebalancePlan`: a GREEDY placement may choose any active
  executor, and moves are limited to `MaxMoves`, each from an executor that keeps
  another shard. `LoadPlan` has loads as whole numbers that stay the same from pass to
  pass; an unmeasured shard has the average of the others, so loads are scaled by their
  number. A sum of loads is the number of their units (`SumOver`), which the provers can
  reason about. Smoothing of reported loads is left out.
- **Order.** Go ranges over maps in any order, `MapOrder`. In `RebalancePlan` the loops
  that steal and hand out shards fix how many go where; which ones is arbitrary.
- **Statistics** are reduced to whether an executor has the key, because that is what
  makes an executor visible to `GetState`.
- **Status.** `DRAINING` stands for every status other than `ACTIVE`.
- **Heartbeats** at the server. The write of the heartbeat and that of its statistics
  are one step: the second compares the revision of the assigned state, so it cannot
  follow a deletion. The handler may leave out the host because of an earlier read, so
  the model allows the host to stay as it is in every heartbeat.
- **Lost responses.** A rebalance may fail after its transaction was applied. A
  transaction that times out is applied before the sender's next step or never; a
  later effect is listed as a hazard and not covered.
- **Sessions.** A session is one pass of `runElection`. It is used again only when its
  old key is gone; until then another session stands for the next pass. etcd's
  `Campaign` waits for older keys and does not look at its own again.
- **An answer without shards** reaches the executor client as a nil map: protobuf does
  not put an empty map on the wire. `Heartbeat` in `ExecutorClient` models that
  conversion, and the code's rule not to apply a nil map.
- **Singleflight** is one RPC in flight and the set of goroutines that wait for it.
- **Processors** of the executor client are reused once nothing refers to them.
- **Callers** of the spectator client have no deadline; one that has can only leave
  earlier.
- **Batches** of deletions are arbitrary subsets; operators drain one key at a time.
- A fixed namespace keeps its number of shards.

## What TLC checks

The environment of a namespace (heartbeats, expiry, operators, lost leases, faults,
requests) acts at most `MaxEvents` times; the service is not bounded. Where components
or cases share no state, one run explores them side by side: a behaviour has a `scope`,
chosen at the start, that says which of them it is about. State counts are distinct
states.

| Run | Instance | Checks | States |
|---|---|---|---|
| `FixedSafety` | fixed, NAIVE: 2 executors, 2 shards, 2 sessions, drains, resets, 4 events | `SingleFencedLeader`, `SingleOwner`, `FencedLeaderIsCurrent`, `AssignedHasHeartbeat` | 106,172 |
| `FixedGreedy` | fixed, GREEDY: 2 executors, 3 shards, 1 session, a host to drain, 2 moves, 4 events | `RebalanceSettles` | 86,425 |
| `FixedLive` | fixed, NAIVE: 2 executors, 2 shards, 2 sessions, 3 events, fairness | `Converges` | 23,620 |
| `GreedyLive` | scope `namespace`: fixed, GREEDY, 2 executors, 1 shard, 2 sessions, resets, 3 events, fairness; scope `balancer`: passes of both modes, 3 executors, 4 shards, loads 0, 1, 3 or unmeasured | `Converges`; `DonorsKeepAShard`, `PassIsAllowed`, `MovesCoolDown`, `PassesRest` | 137,013 |
| `EphemeralSafety` | ephemeral, 2 executors, 1 session, 1 retry; scopes: 2 servers and 2 shards with 5 events, or 1 server and 1 shard that is also drained and reported DONE with 4 | `NoUnseenOverwrite`, `OnlyUnreadOwnersClash`, `NoOwnershipGap` | 201,377 |
| `EphemeralLive` | ephemeral, 2 executors, 1 shard, 1 session, 1 server, drains, DONE reports, 4 events, fairness | `Converges` | 70,306 |
| `ServerSafety` | scope `batch`: 3 calls, 2 keys, a channel of 2; scopes `calls`, `streams`, `writes`: cache with a call, a stream, all writes, up to 4 revisions; shutdown | `OneAnswer`, `OneFlushAtATime`, `FreshAnswers`, `NothingForgotten`; `AnswerIsCurrent`, `VersionCoversState`, `QuietServerIsCurrent`, `CacheIsView`, `StreamIsView` | 1,326,358 |
| `ServerLive` | scope `batch`: 3 calls, a channel of 1; scopes `watch`, `calls`, `streams`: cache, up to 3 revisions, 2 callers that may share a refresh; fairness | `SubmitReturns`, `StopReturns`; `CacheCatchesUp`, `StreamCatchesUp`, `CallReturns` | 86,070 |
| `ExecutorClient` | scopes: `calls` (1 shard, a caller, drain, Stop), `shards` (2 shards, a failing heartbeat or start), `order` (a caller and the loop with different answers, 2 shards that change hands 3 times); fairness | `FreshHeartbeat`, `NoOrphan`, `Settles`, `StopEndsLoop` | 44,360 |
| `Lifecycles` | scope `spectator`: 1 caller, 3 states, 3 switches, Stop; scope `election`: 2 electors of this server, another server, a drain, a fault, Stop; fairness | `NoStaleAnswer`, `SpectatorCatchesUp`, `WaitEnds`, `SpectatorStops`; `GaugeFollowsElector`, `GivesUpLeadership`, `BecomesLeader` | 108,847 |

What the properties say:

- `SingleFencedLeader`: at most one leader passes its guard, despite lost leases, failed
  resignations and resets.
- `SingleOwner`: in a fixed namespace no shard is in two assigned states.
- `FencedLeaderIsCurrent`: in a fixed namespace a leader that passes its guard plans
  from the assignments it replaces.
- `AssignedHasHeartbeat`: in a fixed namespace no leader recreates a record of an
  executor that was deleted.
- `NoOwnershipGap`: a shard is moved in one transaction. It loses its owner without
  getting another only when it was seen drained or DONE, in the cleanup of stale
  executors without any active one, or in a reset.
- `NoUnseenOverwrite`: whoever replaces or deletes an assigned state had read exactly
  that record. Only a reset and `DeleteExecutors` compare no revision.
- `OnlyUnreadOwnersClash`: a shard gets a second owner only from a placement that was
  planned when the executor that owns it had no assigned-state record yet.
- `RebalanceSettles`: a rebalance that ends with the snapshot it read still current
  leaves no stale executor and, if an executor is assignable, only undrained shards
  owned, in a fixed namespace all of them, by assignable executors; if it writes, no
  shard has two owners. One that is skipped had nothing to do.
- `Converges`: when the environment rests, a namespace ends up with no stale executor
  and, if an executor is assignable, with only undrained shards owned, in a fixed
  namespace all of them, by assignable executors.
- `DonorsKeepAShard`, `PassIsAllowed`: the round-robin of the steals never indexes an
  empty donor; steals and moves of a pass stay within `RebalancePlan` and the budget.
- `MovesCoolDown`, `PassesRest`: a move leaves its destination below what the source
  had, so no move makes a new hottest executor; with unchanged loads the passes stop
  moving shards.
- `OneAnswer`, `OneFlushAtATime`, `FreshAnswers`, `NothingForgotten`: a request is in one
  place and answered once; one batch is in flight; nobody is answered from a batch that
  started before the call; when the loop has exited, nobody waits without an answer.
- `SubmitReturns`, `StopReturns`: calls return, also those that send during shutdown.
- `CacheIsView`, `StreamIsView`: cache and stream show whole revisions and never go back.
- `VersionCoversState`: the assignment version moves with every change that a spectator
  can see, metadata in a heartbeat included.
- `QuietServerIsCurrent`: once the watch has delivered everything, no signal is pending
  and the loop waits for the reconcile, the cache shows the latest state, and so does
  every stream without a pending notification.
- `AnswerIsCurrent`: an owner or a refusal is that of the cached revision at the answer.
- `CacheCatchesUp`, `StreamCatchesUp`: a write reaches the cache and the streams,
  whatever the watch was doing, and without the periodic reconcile.
- `CallReturns`: calls that share a refresh all return, also when the one who started it
  gives up while it runs, and return an error only if the read of the store failed.
- `FreshHeartbeat`: the answer a goroutine gets from a shared heartbeat holds its shard
  or was read after it asked.
- `NoOrphan`: while no start failed and nothing was drained or stopped, a running
  processor is the entry of its shard.
- `Settles`: an executor that goes on heartbeating ends up with started processors for
  exactly its shards, if it has any.
- `StopEndsLoop`: Stop ends the heartbeat loop, also while it waits for an undrain.
- `NoStaleAnswer`: a caller of the spectator client that waits for the first state is
  not answered from a period before the client was disabled.
- `SpectatorCatchesUp`, `WaitEnds`, `SpectatorStops`: the latest state is shown in the
  end, callers are woken, Stop returns.
- `GaugeFollowsElector`: the leader metric agrees with what the elector announced.
- `GivesUpLeadership`, `BecomesLeader`: a drained or stopped server ends without a leader
  process and without a key that passes a guard; one that campaigns leads in the end.
  Both except one case, `Blocked`, which the model has: an elector that wins in the
  instant its handler leaves, with a notice of the term before unread, blocks on
  `leaderCh <- true` (`election.go:210`) while its leader process runs and its key stays.

Each property has a mutant in `PROJECT.json`: a changed definition, such as a dropped
comparison, with which TLC finds the property violated.

The type invariants are part of the inductive invariants that are proved, and not of a
run.

### Where a comment and the code differ

Two runs expect a violation. Each states what a comment, a test or a README says, and
shows an execution of the model in which it fails.

| Run | Statement | What happens |
|---|---|---|
| `EphemeralOwner` | "the cross-batch / cross-replica duplicate-ownership guard" (`ephemeralassigner/assigner_test.go:169-171`) | Two servers read a namespace in which two executors have no assigned state. Each creates the record of a different one, with the same shard. Neither transaction compares the record of the other. |
| `LastShard` | "Stop shards no longer assigned" (`client/executorclient/clientimpl.go:284`) | The last shard of an executor is taken away. The empty assignment arrives as a nil map, which the client does not apply; it runs the shard for good. |

Further statements that the models refute; none of them is part of the list of runs.

| Statement | How to see it | What happens |
|---|---|---|
| `DeleteExecutors` "does not delete the shards" (`etcdstore.go:647`) | `DeleteKeepsShards`: `tlc -config EphemeralDelete.cfg MCShardDistributor` | A server assigns a shard to a stale executor after the leader decided to delete it. The shard of an ephemeral namespace exists only in the deleted record. |
| drained shards "are not eligible for assignment" (`service.proto:61`) | `DrainedNotAssigned`: `tlc -config DrainRace.cfg MCShardDistributor` | A shard is drained between the read and the write of an assigner. |
| drained shards "are removed from their current executor on the next rebalance" (`service.proto:61`) | `DrainedIsRemoved`: `tlc -config DrainStuck.cfg MCShardDistributor` | The only executor is DRAINING; a rebalance returns before it looks at drained shards. |
| Stop unblocks "any goroutines waiting for first state" (`spectatorclient/clientimpl.go:81`) | `StopUnblocks` as a property in `Lifecycles.cfg` | `disabledState` has seen that the context is not done; Stop closes the channel of the signal; the reset then replaces it. |
| Stop "waits for all election goroutines to finish" (`namespace/manager.go:97-99`) | `StopWaitsForElectors` as an invariant in `Lifecycles.cfg` | The handler cancels its elector and ends; the elector is still in its start delay, or resigning. |
| a drained shard is refused (`cache/namespaceshardcache.go:111`) | `DrainedIsRefused` as an invariant in `ServerSafety.cfg` | The drained set and the owners are read under two locks; a drain is applied in between. |

The runs that do not check deadlock rest for a reason: in `EphemeralOwner` and
`DrainRace` the service only answers requests and rests when the events are used up;
the batcher, the clients and the election handler end after Stop.

### Bounds

Two sessions are enough for a leader that lost its key to meet its successor; two
executors for a shard to change hands, to be stolen for an empty executor and to be in
two places; two servers for two placements to race. Three shards in `FixedGreedy` allow
a steal and a move in one plan. Four or five events are enough for an executor to
appear, go stale and return, together with a drain, a reset or a lost lease. One retry
covers a conflict that is retried and one that is given up; the code has three.

In `ServerSafety` three calls of the batcher put one into the flush, one into the next
batch and one into the channel, and two of them share a key. Three revisions let two
refreshes read different ones and apply them in either order; all kinds of writes
together, with four revisions, are a scope of their own, because what they do to the
version does not depend on readers. In `ServerLive` two callers share a refresh, one
joins it before or after the other gave up, and they miss the drained set and the owner
map at different times; one assignment is written meanwhile, the watch stays up and
nothing is reconciled, since the scope `watch` has those. In `ExecutorClient` two goroutines and two shards
that change hands three times (`Turns`) let each goroutine hold an answer that the other
has overtaken. `GreedyLive` has three executors, so that a destination is chosen, and
four shards, so that steals and moves meet. In `Lifecycles` two electors are enough for
an old one to resign while a new one campaigns, and three states with three switches for
a client to be enabled, disabled, enabled and to meet a server that lags. Longer
histories and larger sets are left to the theorems.

Sessions, servers and shards are interchangeable where a safety run uses symmetry; all
of them are then treated alike by the cfg, and the scopes of `MCEphemeral` are closed
under the permutations. Executors are ordered by ID, as the code sorts them, and no
liveness run uses symmetry. `MCGreedy` and `MCServer` leave out some initial states and
orders that differ only in the names of shards, requests or callers, and say which.

### Fairness

`LiveSpec` (and `GreedySpec` for its namespace) assumes weak fairness, for every session, of:

- `Elect`: electors campaign again until they are stopped, and etcd's `Campaign` returns
  when no older key is left;
- `OrderlyStepDown`: every leader period ends by a timer (`LeaderPeriod`), and an
  elector sees that its session is gone;
- `AbandonedLease`: etcd expires the lease of a session that has ended;
- `ProcessorStep`: the loop of the processor goes on, driven by the ticker and by retries.

Heartbeats, faults and operators have no fairness. A leader that steps down in the middle
of a rebalance while its key exists counts as an event, since a period is much longer
than a rebalance. So does a cleanup of statistics: each one that writes removes the
statistics of some shard, which the reduction to one key hides.

The other components:

- `LoadPlan`: the rebalancing loop goes on.
- `ShardBatcher`: the loop and the flush goroutine run, the window's timer fires, and a
  call takes a branch of its `select` that is ready. No caller has to give up.
- `ShardCache`: goroutines run and the watch is created again after its retry delay.
  Strong fairness of a refresh: not every read of the store fails. The periodic reconcile
  is not assumed to happen, so the liveness properties do not rest on it.
- `ExecutorClient`: goroutines run, the heartbeat timer fires, `Start` and `Stop` of a
  processor return. Strong fairness: neither the first nor the second heartbeat of the
  loop fails each time; a goroutine that waits for the mutex gets it, as Go's mutex
  guarantees; `select` does not prefer the timer to a closed channel for ever.
- `SpectatorClient`: the loop runs and every server learns every state. Strong fairness:
  not every attempt to connect fails, and a stream does not break each time before it
  delivers the latest state.
- `ElectionHandler`: goroutines run, other servers step down, and the lease of an ended
  session runs out. Strong fairness of the handler's exit: its `select` does not ignore a
  closed channel for ever.

## What is proved

The theorems hold for all values of the constants that satisfy the assumptions named in
the modules (`StoreAssumption`, `PlanAssumption`, `AssignerAssumption`,
`EnvironmentAssumption`, `CacheAssumption`, `BatcherAssumption`, `ClientAssumption`,
`LoadPlanAssumption`, `SpectatorAssumption`, `HandlerAssumption`): sets of executors,
shards, sessions, servers, electors, requests, streams and goroutines of any size, and
all loads, bands and budgets.
The environment of a namespace is not bounded at all. TLAPS checks every step.

| Theorem | Module | Says |
|---|---|---|
| `ElectionSafe` | `LeaderElectionProofs` | `ElectionSpec => []SingleFencedLeader` |
| `TypeCorrect` | `NamespaceProofs` | `Spec => []TypeOK` |
| `ImplementsElection` | `FixedNamespaceProofs` | `Spec => ElectionSpec` |
| `SingleWriter` | `FixedNamespaceProofs` | `Spec => []SingleFencedLeader` |
| `FixedSingleOwner`, `FixedLeaderIsCurrent`, `FixedHasHeartbeat` | `FixedNamespaceProofs` | the three safety invariants of a fixed namespace |
| `NothingUnseenIsOverwritten` | `NamespaceProofs` | `Spec => NoUnseenOverwrite`, for both types of namespace |
| `NoShardIsDropped` | `NamespaceProofs` | `Spec => NoOwnershipGap`, for both types |
| `OneRebalanceIsEnough` | `NamespaceProofs` | `Spec => RebalanceSettles`, for both types and all plans |
| `ClashesAreUnread` | `FixedNamespaceProofs` | `Spec => OnlyUnreadOwnersClash`, for both types |
| `OneServerSingleOwner` | `NamespaceProofs` | `[]SingleOwner` in an ephemeral namespace with at most one server |
| `CacheTypeCorrect` | `CacheProofs` | `CacheSpec => []CacheTypeOK` |
| `CacheImplementsView`, `StreamImplementsView` | `CacheProofs` | the cache and every stream implement `NamespaceView` |
| `VersionNamesState`, `AnswersAreCurrent` | `CacheProofs` | `[]VersionCoversState`, `[]AnswerIsCurrent` |
| `NoChangeIsLost` | `CacheProofs` | `CacheSpec => []QuietServerIsCurrent` |
| `AnsweredOnce`, `FlushesOneBatch`, `AnsweredFresh`, `StopForgetsNobody` | `BatcherProofs` | the four safety invariants of the batcher |
| `ClientTypeCorrect` | `ClientProofs` | `ClientSpec => []ClientTypeOK` |
| `HeartbeatsAreFresh`, `NoProcessorIsOrphaned` | `ClientProofs` | `[]FreshHeartbeat`, `[]NoOrphan` |
| `LoadPlanCorrect` | `LoadPlanProofs` | `LoadPlanSpec => []LoadPlanInv`, types included |
| `DonorsAlwaysKeepAShard`, `PassesAreAllowed` | `LoadPlanProofs` | `[]DonorsKeepAShard`, `[]PassIsAllowed` |
| `MovesNeverHeatUp` | `LoadPlanProofs` | `LoadPlanSpec => MovesCoolDown` |
| `SpectatorTypeCorrect`, `AnswersAreNotStale` | `LifecycleProofs` | `[]SpectatorTypeOK`, `[]NoStaleAnswer` |
| `HandlerImplementsElection` | `LifecycleProofs` | `HandlerSpec => ElectionSpec` |
| `HandlerCorrect`, `GaugeIsRight` | `LifecycleProofs` | `[]HandlerInv`, types included; `[]GaugeFollowsElector` |
| `OneProcessLeads` | `LifecycleProofs` | one server never runs two leader processes whose keys both exist |
| `DrainsReachElectors` | `LifecycleProofs` | an elector that its handler has left is cancelled |

The arguments:

- **Election.** `SingleFencedLeader` says nothing about sessions that wait. `ElectionInv`
  adds that a session waits only for keys that exist, that of two existing keys one
  waits for the other, and that a leader waits for none. Two leaders with keys would
  each have to wait for the other.
- **Fixed namespaces.** `SingleOwner` is not inductive: a leader that writes a plan made
  from an old snapshot would break it. `FixedInv` joins it with `FencedLeaderIsCurrent`,
  `ElectionInv`, the fact that a processor runs only while its session leads
  (`LeaderInv`), and the fact that the assigners are idle (`NoBatch`). A write passes the
  guard, so its snapshot is current and no other leader with a key is planning. The new
  assignment is a function from shards to executors, and whoever is neither in it nor
  deleted owned nothing. For `AssignedHasHeartbeat` the invariant also says that the
  executors a fenced leader saw as active still have a heartbeat.
- **The optimistic lock.** `LockInv` says that equal revisions stand for equal records,
  between the store and every snapshot. It is inductive because a write takes a revision
  that nobody holds. With it, `Unmodified` implies that the record being replaced is the
  record that was read, with or without leadership.
- **Ownership.** From the lock: a shard that a write removes from a record was in the
  snapshot, so the plan kept it unless it was drained or DONE.
- **One rebalance.** Needs no invariant but `LockInv`. If the rebalance commits, its plan
  is a function from shards to assignable executors, and `Unmodified` makes the records
  outside the plan those of the snapshot: stale ones, which are deleted, or empty ones
  (`Installed`, `InstalledSettles`). If it is skipped, none of the conditions of
  `DistributionChanged` holds, and each is one reason why the namespace could not be
  settled (`SkipSettles`). This is what `Converges` rests on; the fairness only says that
  such a rebalance happens.
- **Two owners.** In an ephemeral namespace every shard of a plan had an owner in the
  snapshot, whose record is compared (`PlannedWasOwned`). At the commit that executor
  still owns the shard, so another owner outside the plan makes it doubly owned already
  (`RebalanceClash`). In a fixed namespace `SingleOwner` is proved. A
  placement compares the records it writes and was planned for shards that no record it
  read contains (`PlacementClash`). What is left is an owner without a record at the
  read, the case of the run `EphemeralOwner`.
- **A single server.** `SoleServerInv` says that, when there is one server, no shard that
  it is about to place has an owner, and its placement gives each shard to one executor.
  Its batches do not overlap (`OneFlushAtATime`), and no rebalance gives an unowned shard
  of an ephemeral namespace to anybody. The violation in `EphemeralOwner` therefore needs
  a second server.
- **Cache.** `CacheInv` says that every revision a refresh has read exists in the store
  (`ReadsExist`) and that the cache is exactly the state and the owner map of its
  revision (`CacheIsRevision`); history only grows, so both survive writes. Replacing
  the cache by a newer revision is then an `Advance` of the view and every other step a
  `Write` or a stutter. For streams the invariant also says that what was sent is a
  revision no newer than the cache (`SentIsRevision`), which holds because the cache
  does not go back. For `QuietServerIsCurrent` it is not enough to look at quiet states.
  `EventsTell` says that every write that changes the state has an event that
  `hasNamespaceStateChanged` sees. `LoopIsCurrent` says that, with the watch up and no
  signal pending, nothing has changed between what the loop has read, or the cache once
  the loop has finished, and what the watch has delivered: a signal is set after the
  watch exists, and taken before the read. `StreamsFollow` says that a stream without a
  notification has sent the revision of the cache unless a refresh is about to notify:
  the channel is subscribed before the first read. `VersionInv` bounds every version by
  its revision, and `AnswersExist` ties an answer to a revision that exists.
- **Batcher.** `BatcherInv` joins the four properties with where a request can be for each
  state of its caller (`Places`), with what is left at each stage of the shutdown
  (`Ending`), and with the fact that a batch in flight holds only calls made before it
  was started.
- **Executor client.** `Control` says who waits for the RPC, who holds the mutex and who
  may hold a processor. `Fresh` extends `FreshHeartbeat` to answers on the way: an RPC
  that was read before a goroutine asked has another member, so it is shared and the
  goroutine asks again, and the second RPC is sent after the first has returned.
  `Entries` says that an entry is a live processor of its shard. `Owned` is the converse
  for an undisturbed client; it also says that a processor about to be stopped is still
  the entry of its shard, which needs the mutex: without drains and Stop every goroutine
  that stops processors holds it.
- **Steals.** `DonorsKeepAShard` alone is not inductive: it does not say how many shards
  a donor has given. `StealInv` does: each donor gave one shard in every round of
  donors, less one in a round that has not reached it yet; and between each two
  executors as many went as turns of both came together (`Turns`). The steals of a pass
  are `ShardsPerEmptyExecutor` for each empty executor. That quotient is at most
  (the fewest shards of a donor) x donors / executors, so all rounds together take fewer
  shards than any donor has. When the loop ends, `Turns` is the set `Stolen` of
  `RebalancePlan`, which gives the first part of `PassIsAllowed`.
- **Moves.** `MoveInv` says that exactly the moved shards have a new owner, that they are
  within the budget, and that they can be ordered so that each left another shard with
  its source (`EachMoveHelps`); `LoadsFollowMoves` says that the loads kept by hand are
  the sums over the shards. A positive benefit means
  target + shard < source (`BenefitCools`, from the squares of the code), which is
  `MovesCoolDown`. A shard that is all of the load of its executor has no such move, so
  the source keeps another one, and the order is extended by one.
- **Spectator client.** A call may be woken long before it reads the maps, with resets in
  between. `SpectatorInv` says that, before Stop, a signal that is done belongs to maps
  of the current enabled period, and that a woken call has waited no later than the maps
  were built; maps are only replaced by those of the current period.
- **Election handler.** The channel between elector and handler delays what the metric
  says. `GaugeInv` is about what the metric will say when the channel is read
  (`Announced`). `TermInv` ties the position of an elector to its session and says that a
  process runs only in a term; with `ElectionInv`, which carries over because the
  handler implements the election, no two processes of one server have a key. That a
  left elector is cancelled is inductive by itself because a new elector takes the place
  of one that has exited.

Only model-checked: the liveness properties (`Converges`, `PassesRest`, `SubmitReturns`,
`StopReturns`, `CacheCatchesUp`, `StreamCatchesUp`, `CallReturns`, `Settles`,
`StopEndsLoop`, `SpectatorCatchesUp`, `WaitEnds`, `SpectatorStops`, `GivesUpLeadership`,
`BecomesLeader`), because the prover handles neither fairness nor `ENABLED`. Every safety
property of a passing run is also a theorem. What a recursive definition computes for
every input would need induction over data, which is out of reach too; the models have
no recursive operators.

## What is not modelled

`PROJECT.json` lists every component with its status, and the hazards that no property
covers, each with the reason.

- **Executor client: cleanup of idle shards and the enabled switch.** The cleanup loop
  marks processors as DONE by their time of last use; what a DONE report does is part of
  `ShardDistributor`, where an executor may report any of its shards. The switch that
  keeps a client passive before its namespace is onboarded skips the heartbeat.
- **Load balancer: placement by load, smoothing.** Which executor a new shard goes to is
  arbitrary among the assignable ones. Smoothed loads are real numbers that depend on
  time; `LoadPlan` takes the result as given.
- **Namespace processor: times.** Tickers and cooldowns are steps that may happen; the
  trigger channel is merged into the read that follows; handover statistics are metrics.
- **Registry and namespace managers.** They start and stop one cache and one batcher per
  namespace in a loop, and have no state beyond these.
- **Peer chooser.** A pool of connections keyed by the address that the spectator client
  returns, outside the protocol of the service.
- **Wrappers, type mapping, canary, configuration, metrics, tools.** No protocol to check.
