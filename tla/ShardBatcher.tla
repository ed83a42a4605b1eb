----------------------------- MODULE ShardBatcher -----------------------------
(***************************************************************************)
(* The batcher of one ephemeral namespace on one server.  Callers put      *)
(* their request into a channel and wait; one loop collects the requests   *)
(* of a window into a batch, hands it to a goroutine that assigns it, and  *)
(* answers everybody in the batch.  While a batch is being assigned the    *)
(* next one collects.  Stop cancels the context of loop and callers.       *)
(***************************************************************************)
EXTENDS Naturals, Sequences, FiniteSets

CONSTANTS
  Request,      \* the calls of Submit
  Key,          \* shard keys
  KeyOf,        \* the shard key of a call
  QueueLimit    \* _requestsChannelLimit

ASSUME BatcherAssumption ==
  /\ KeyOf \in [Request -> Key]
  /\ QueueLimit \in Nat \ {0}

VARIABLES
  caller,     \* where each call of Submit is; late when it sent after Stop
  queue,      \* requestChan
  response,   \* respChan of every request
  pending,    \* the requests of the next batch
  inflight,   \* the requests of the batch being assigned
  window,     \* the window of a scheduled flush, or "none"
  flush,      \* what the goroutine of a flush has come to
  fate,       \* the result of processBatch for each of its keys
  loop,       \* where the loop is
  stopped,    \* whether the context of the batcher is cancelled
  early       \* the calls made before the last batch was started

batcherVars ==
  <<caller, queue, response, pending, inflight, window, flush, fate,
    loop, stopped, early>>

\* What Submit may return.
NoReply == [kind |-> "none"]
Cancelled == [kind |-> "cancelled"]
Reply == [kind : {"owner", "drained", "error"}, fresh : BOOLEAN]

Fate == {"owner", "drained"}
NoFate == [k \in Key |-> "none"]

Queued == {queue[i] : i \in 1..Len(queue)}

BatcherTypeOK ==
  /\ caller \in [Request -> {"idle", "sending", "waiting", "late", "returned"}]
  /\ queue \in Seq(Request) /\ Len(queue) <= QueueLimit
  /\ response \in [Request -> {NoReply, Cancelled} \cup Reply]
  /\ pending \in SUBSET Request /\ inflight \in SUBSET Request
  /\ window \in {"none", "open", "ready", "lost"}
  /\ flush \in {"none", "running", "done", "failed"}
  /\ fate \in [Key -> Fate \cup {"none"}]
  /\ loop \in {"running", "flushing", "draining", "exited"}
  /\ stopped \in BOOLEAN
  /\ early \in SUBSET Request

BatcherInit ==
  /\ caller = [r \in Request |-> "idle"]
  /\ queue = <<>>
  /\ response = [r \in Request |-> NoReply]
  /\ pending = {} /\ inflight = {}
  /\ window = "none" /\ flush = "none"
  /\ fate = NoFate
  /\ loop = "running" /\ stopped = FALSE
  /\ early = {}

-----------------------------------------------------------------------------
(* The callers. *)

Submit(r) ==
  /\ caller[r] = "idle"
  /\ caller' = [caller EXCEPT ![r] = "sending"]
  /\ UNCHANGED <<queue, response, pending, inflight, window, flush, fate, loop,
                 stopped, early>>

\* The first select of Submit.  It may take this branch after Stop as well.
Send(r) ==
  /\ caller[r] = "sending" /\ Len(queue) < QueueLimit
  /\ caller' = [caller EXCEPT ![r] = IF stopped THEN "late" ELSE "waiting"]
  /\ queue' = Append(queue, r)
  /\ UNCHANGED <<response, pending, inflight, window, flush, loop,
                 stopped, early, fate>>

\* The second select returns the answer.
Receive(r) ==
  /\ caller[r] \in {"waiting", "late"} /\ response[r] # NoReply
  /\ caller' = [caller EXCEPT ![r] = "returned"]
  /\ UNCHANGED <<queue, response, pending, inflight, window, flush,
                 loop, stopped, early, fate>>

\* Leave of a caller that looks at its own context only.
LeaveByCaller(r, byCaller) ==
  /\ caller[r] \in {"sending", "waiting", "late"} /\ byCaller
  /\ caller' = [caller EXCEPT ![r] = "returned"]
  /\ UNCHANGED <<queue, response, pending, inflight, window, flush,
                 loop, stopped, early, fate>>

\* Either select returns because a context is cancelled: the caller's own or
\* that of the batcher.  The request stays where it is.
Leave(r, byCaller) ==
  /\ caller[r] \in {"sending", "waiting", "late"} /\ (byCaller \/ stopped)
  /\ caller' = [caller EXCEPT ![r] = "returned"]
  /\ UNCHANGED <<queue, response, pending, inflight, window, flush,
                 loop, stopped, early, fate>>

-----------------------------------------------------------------------------
(* The loop. *)

\* Take without the look at the batch in flight.
TakeAlwaysSchedules ==
  /\ loop = "running" /\ queue # <<>>
  /\ pending' = pending \cup {Head(queue)}
  /\ queue' = Tail(queue)
  /\ window' = IF window = "none" THEN "open" ELSE window
  /\ UNCHANGED <<caller, response, inflight, flush, loop, stopped, early, fate>>

\* A request arrives.  The first one while nothing is in flight opens a window.
Take ==
  /\ loop = "running" /\ queue # <<>>
  /\ pending' = pending \cup {Head(queue)}
  /\ queue' = Tail(queue)
  /\ window' = IF inflight = {} /\ window = "none" THEN "open" ELSE window
  /\ UNCHANGED <<caller, response, inflight, flush, loop, stopped, early, fate>>

\* The timer of the window fires and flushReady is filled, or Stop ends the
\* goroutine that waits for it and the flush stays scheduled.
WindowEnds ==
  /\ window = "open"
  /\ \/ window' = "ready"
     \/ stopped /\ window' = "lost"
  /\ UNCHANGED <<caller, queue, response, pending, inflight, flush,
                 loop, stopped, early, fate>>

startFlush(B) ==
  /\ inflight' = B
  /\ flush' = "running"
  /\ early' = {r \in Request : caller[r] # "idle"}

FlushReady ==
  /\ loop = "running" /\ window = "ready"
  /\ window' = "none"
  /\ pending' = {}
  /\ startFlush(pending)
  /\ UNCHANGED <<caller, queue, response, loop, stopped, fate>>

\* processBatch returns within its timeout, with a result for every key it
\* was given or with an error.
ProcessBatch ==
  /\ flush = "running"
  /\ \/ /\ flush' = "done"
        /\ fate' \in [Key -> Fate \cup {"none"}]
        /\ \A k \in Key : fate'[k] # "none" <=> \E r \in inflight : KeyOf[r] = k
     \/ flush' = "failed" /\ UNCHANGED fate
  /\ UNCHANGED <<caller, queue, response, pending, inflight, window,
                 loop, stopped, early>>

\* toBatchResponse
ToBatchResponse(r) ==
  [kind |-> IF flush = "failed" \/ fate[KeyOf[r]] = "none"
           THEN "error" ELSE fate[KeyOf[r]],
   fresh |-> r \in early]

\* deliverResults
Deliver(R) ==
  response' = [r \in Request |-> IF r \in R THEN ToBatchResponse(r) ELSE response[r]]

FlushFinished == flush \in {"done", "failed"}

\* FlushDone that answers those who collect for the next batch too.
FlushDoneAnswersAll ==
  /\ loop = "running" /\ FlushFinished
  /\ response' = [r \in Request |->
       IF r \in inflight \/ r \in pending
       THEN ToBatchResponse(r) ELSE response[r]]
  /\ pending' = {} /\ inflight' = {} /\ flush' = "none"
  /\ fate' = NoFate
  /\ UNCHANGED <<caller, queue, window, loop, stopped, early>>

\* FlushDone that starts the next batch but goes on collecting into it.
FlushDoneKeepsPending ==
  /\ loop = "running" /\ FlushFinished
  /\ Deliver(inflight)
  /\ IF pending = {}
     THEN inflight' = {} /\ flush' = "none" /\ UNCHANGED early
     ELSE startFlush(pending)
  /\ fate' = NoFate
  /\ UNCHANGED <<caller, queue, pending, window, loop, stopped>>

\* The batch is answered, and the next one starts if there is one.
FlushDone ==
  /\ loop = "running" /\ FlushFinished
  /\ Deliver(inflight)
  /\ IF pending = {}
     THEN inflight' = {} /\ flush' = "none" /\ UNCHANGED early
     ELSE startFlush(pending)
  /\ pending' = {}
  /\ fate' = NoFate
  /\ UNCHANGED <<caller, queue, window, loop, stopped>>

Stop ==
  /\ ~stopped
  /\ stopped' = TRUE
  /\ UNCHANGED <<caller, queue, response, pending, inflight, window,
                 flush, loop, early, fate>>

-----------------------------------------------------------------------------
(* The end of the loop: drainAndCancel. *)

\* ContextDone that waits for a flush although none is running.
ContextDoneAlwaysWaits ==
  /\ loop = "running" /\ stopped
  /\ loop' = "flushing"
  /\ UNCHANGED <<caller, queue, response, pending, inflight, window,
                 flush, fate, stopped, early>>

\* The loop notices that the context is cancelled.
ContextDone ==
  /\ loop = "running" /\ stopped
  /\ loop' = IF inflight = {} THEN "draining" ELSE "flushing"
  /\ response' = IF inflight = {}
                 THEN [r \in Request |-> IF r \in pending THEN Cancelled ELSE response[r]]
                 ELSE response
  /\ pending' = IF inflight = {} THEN {} ELSE pending
  /\ UNCHANGED <<caller, queue, inflight, window, flush, stopped, early, fate>>

\* The batch in flight is waited for and answered, the next one cancelled.
LastFlushDone ==
  /\ loop = "flushing" /\ FlushFinished
  /\ response' = [r \in Request |-> IF r \in inflight THEN ToBatchResponse(r)
                                    ELSE IF r \in pending THEN Cancelled
                                    ELSE response[r]]
  /\ pending' = {} /\ inflight' = {} /\ flush' = "none"
  /\ loop' = "draining"
  /\ fate' = NoFate
  /\ UNCHANGED <<caller, queue, window, stopped, early>>

\* Drain that returns at once.
DrainNothing ==
  /\ loop = "draining"
  /\ loop' = "exited"
  /\ UNCHANGED <<caller, queue, response, pending, inflight, window,
                 flush, stopped, early, fate>>

\* The requests that are left in the channel are cancelled one by one until
\* the channel is empty.
Drain ==
  /\ loop = "draining"
  /\ IF queue = <<>>
     THEN loop' = "exited" /\ UNCHANGED <<queue, response>>
     ELSE /\ response' = [response EXCEPT ![Head(queue)] = Cancelled]
          /\ queue' = Tail(queue)
          /\ UNCHANGED loop
  /\ UNCHANGED <<caller, pending, inflight, window, flush, stopped, early, fate>>

BatcherLoop ==
  Take \/ FlushReady \/ FlushDone \/ ContextDone \/ LastFlushDone \/ Drain

BatcherNext ==
  \/ \E r \in Request : \/ Submit(r) \/ Send(r) \/ Receive(r)
                        \/ \E byCaller \in BOOLEAN : Leave(r, byCaller)
  \/ BatcherLoop \/ WindowEnds \/ ProcessBatch \/ Stop

BatcherSpec == BatcherInit /\ [][BatcherNext]_batcherVars

\* The goroutines go on; processBatch has a timeout; no caller gives up.
BatcherFairness ==
  /\ WF_batcherVars(BatcherLoop)
  /\ WF_batcherVars(WindowEnds)
  /\ WF_batcherVars(ProcessBatch)
  /\ \A r \in Request : WF_batcherVars(Send(r) \/ Receive(r) \/ Leave(r, FALSE))

BatcherLiveSpec == BatcherSpec /\ BatcherFairness

-----------------------------------------------------------------------------
\* A request is in one place at a time and unanswered as long as the loop holds
\* it, so the loop writes one answer at most into the channel of a request,
\* which holds one, and deliverResults and drainAndCancel never block.
OneAnswer ==
  /\ \A i, j \in 1..Len(queue) : queue[i] = queue[j] => i = j
  /\ Queued \cap (pending \cup inflight) = {} /\ pending \cap inflight = {}
  /\ \A r \in Queued \cup pending \cup inflight : response[r] = NoReply

\* inflight is nil exactly when no flush is running, and a window is open only
\* while nothing is in flight and somebody is waiting for it: at most one batch
\* is being assigned, and no request collects without a flush to come.
OneFlushAtATime ==
  /\ inflight = {} <=> flush = "none"
  /\ loop = "running" =>
       /\ window # "none" => inflight = {} /\ pending # {}
       /\ pending # {} => inflight # {} \/ window # "none"

\* Nobody is answered from a batch that was started before the call: such a
\* batch may have read the namespace before the caller's shard was assigned or
\* drained.
FreshAnswers ==
  \A r \in Request : response[r] \in Reply => response[r].fresh

\* As the comment on Stop says, whatever was submitted before Stop is flushed or
\* cancelled before the loop exits.
NothingForgotten ==
  loop = "exited" => \A r \in Request : caller[r] = "waiting" => response[r] # NoReply

\* Every call returns although no caller gives up, also one that puts its
\* request into the channel when the loop has exited and nobody will read it.
SubmitReturns ==
  \A r \in Request : caller[r] = "sending" ~> caller[r] = "returned"

\* Stop, which waits for the loop, returns.
StopReturns == stopped ~> loop = "exited"
=============================================================================
