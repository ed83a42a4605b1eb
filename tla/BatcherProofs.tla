---------------------------- MODULE BatcherProofs ----------------------------
(***************************************************************************)
(* Proofs about ShardBatcher, for any number of calls and shard keys and   *)
(* any capacity of the request channel: every request gets one answer at   *)
(* most, from a batch started after the call, and the loop leaves nobody   *)
(* behind who sent before Stop.                                            *)
(***************************************************************************)
EXTENDS ShardBatcher, SequenceTheorems, TLAPS

-----------------------------------------------------------------------------
(* The channel: a sequence without repetitions. *)

Elems(q) == {q[i] : i \in 1..Len(q)}

Distinct(q) == \A i, j \in 1..Len(q) : q[i] = q[j] => i = j

LEMMA QueueAppend ==
  ASSUME NEW q \in Seq(Request), NEW r \in Request, r \notin Elems(q), Distinct(q)
  PROVE  /\ Append(q, r) \in Seq(Request) /\ Len(Append(q, r)) = Len(q) + 1
         /\ Elems(Append(q, r)) = Elems(q) \cup {r} /\ Distinct(Append(q, r))
<1> DEFINE a == Append(q, r)
<1>1. /\ a \in Seq(Request) /\ Len(a) = Len(q) + 1 /\ Len(q) \in Nat
      /\ \A i \in 1..Len(q) : a[i] = q[i]
      /\ a[Len(q) + 1] = r
  BY AppendProperties, LenProperties
<1> HIDE DEF a
<1>2. Elems(a) = Elems(q) \cup {r}
  <2>1. ASSUME NEW x \in Elems(a) PROVE x \in Elems(q) \cup {r}
    <3>1. PICK i \in 1..Len(a) : x = a[i] BY DEF Elems
    <3>2. CASE i = Len(q) + 1 BY <1>1, <3>1, <3>2
    <3>3. CASE i \in 1..Len(q) BY <1>1, <3>1, <3>3 DEF Elems
    <3> QED BY <1>1, <3>2, <3>3
  <2>2. ASSUME NEW x \in Elems(q) PROVE x \in Elems(a)
    <3>1. PICK i \in 1..Len(q) : x = q[i] BY DEF Elems
    <3>2. i \in 1..Len(a) /\ x = a[i] BY <1>1, <3>1
    <3> QED BY <3>2 DEF Elems
  <2>3. r \in Elems(a)
    <3>1. Len(q) + 1 \in 1..Len(a) BY <1>1
    <3> QED BY <1>1, <3>1 DEF Elems
  <2> QED BY <2>1, <2>2, <2>3
<1>3. Distinct(a)
  <2> SUFFICES ASSUME NEW i \in 1..Len(a), NEW j \in 1..Len(a), a[i] = a[j] PROVE i = j
    BY DEF Distinct
  <2>1. \A k \in 1..Len(q) : a[k] # r BY <1>1 DEF Elems
  <2> QED BY <1>1, <2>1 DEF Distinct
<1> QED BY <1>1, <1>2, <1>3 DEF a

LEMMA QueueTail ==
  ASSUME NEW q \in Seq(Request), q # <<>>, Distinct(q)
  PROVE  /\ Tail(q) \in Seq(Request) /\ Len(Tail(q)) <= Len(q)
         /\ Head(q) \in Elems(q)
         /\ Elems(Tail(q)) = Elems(q) \ {Head(q)} /\ Distinct(Tail(q))
<1> DEFINE a == Tail(q)
<1>1. /\ a \in Seq(Request) /\ Len(a) = Len(q) - 1 /\ Len(q) \in Nat /\ Len(q) >= 1
      /\ \A i \in 1..Len(a) : a[i] = q[i + 1]
      /\ Head(q) = q[1]
  BY HeadTailProperties, LenProperties, EmptySeq
<1> HIDE DEF a
<1>2. Head(q) \in Elems(q) BY <1>1 DEF Elems
<1>3. Elems(a) = Elems(q) \ {Head(q)}
  <2>1. ASSUME NEW x \in Elems(a) PROVE x \in Elems(q) \ {Head(q)}
    <3>1. PICK i \in 1..Len(a) : x = a[i] BY DEF Elems
    <3>2. i + 1 \in 1..Len(q) /\ x = q[i + 1] /\ 1 \in 1..Len(q) /\ i + 1 # 1
      BY <1>1, <3>1
    <3> QED BY <1>1, <3>2 DEF Elems, Distinct
  <2>2. ASSUME NEW x \in Elems(q), x # Head(q) PROVE x \in Elems(a)
    <3>1. PICK i \in 1..Len(q) : x = q[i] BY DEF Elems
    <3>2. i - 1 \in 1..Len(a) /\ x = a[i - 1] BY <1>1, <2>2, <3>1
    <3> QED BY <3>2 DEF Elems
  <2> QED BY <2>1, <2>2
<1>4. Distinct(a)
  <2> SUFFICES ASSUME NEW i \in 1..Len(a), NEW j \in 1..Len(a), a[i] = a[j] PROVE i = j
    BY DEF Distinct
  <2>1. i + 1 \in 1..Len(q) /\ j + 1 \in 1..Len(q) /\ q[i + 1] = q[j + 1] BY <1>1
  <2> QED BY <2>1 DEF Distinct
<1> QED BY <1>1, <1>2, <1>3, <1>4 DEF a

-----------------------------------------------------------------------------
(***************************************************************************)
(* The inductive invariant.  A request that was not sent is nowhere, one   *)
(* that was sent is held by the loop or answered, the batch in flight was  *)
(* started after its calls, and a loop that ends has let go of everybody   *)
(* but those who send after Stop.                                          *)
(***************************************************************************)
Held == Queued \cup pending \cup inflight

Places ==
  \A r \in Request :
    /\ caller[r] \in {"idle", "sending"} => r \notin Held /\ response[r] = NoReply
    /\ caller[r] = "waiting" => r \in Held \/ response[r] # NoReply

Ending ==
  /\ loop # "running" => stopped
  /\ loop \in {"draining", "exited"} => pending = {} /\ inflight = {}
  /\ loop = "exited" => \A r \in Queued : caller[r] # "waiting"

BatcherInv ==
  /\ BatcherTypeOK /\ OneAnswer /\ OneFlushAtATime /\ FreshAnswers
  /\ Places /\ Ending /\ inflight \subseteq early

LEMMA Kinds ==
  /\ Cancelled # NoReply /\ NoReply \notin Reply /\ Cancelled \notin Reply
BY DEF Cancelled, NoReply, Reply

LEMMA Replies ==
  ASSUME BatcherTypeOK, NEW r \in Request
  PROVE  /\ ToBatchResponse(r) \in Reply
         /\ r \in early => ToBatchResponse(r).fresh
<1>1. KeyOf[r] \in Key BY BatcherAssumption
<1>2. fate[KeyOf[r]] \in {"owner", "drained", "none"} BY <1>1 DEF BatcherTypeOK, Fate
<1>3. (IF flush = "failed" \/ fate[KeyOf[r]] = "none" THEN "error" ELSE fate[KeyOf[r]])
        \in {"owner", "drained", "error"}
  BY <1>2
<1>4. (r \in early) \in BOOLEAN OBVIOUS
<1> QED BY <1>3, <1>4, Zenon DEF ToBatchResponse, Reply

LEMMA BatcherTypeNext ==
  ASSUME BatcherTypeOK, OneAnswer, Places, [BatcherNext]_batcherVars
  PROVE  BatcherTypeOK'
<1>0. \A r \in Request : ToBatchResponse(r) \in Reply BY Replies
<1>1. caller' \in [Request -> {"idle", "sending", "waiting", "late", "returned"}]
  BY
    DEF BatcherNext, BatcherLoop, Submit, Send, Receive, Leave, Take, FlushReady, FlushDone,
     ContextDone, LastFlushDone, Drain, WindowEnds, ProcessBatch, Stop, batcherVars, BatcherTypeOK
<1>2. queue' \in Seq(Request) /\ Len(queue') <= QueueLimit
  <2>0. queue \in Seq(Request) /\ Len(queue) <= QueueLimit /\ Len(queue) \in Nat
        /\ QueueLimit \in Nat
    BY BatcherAssumption, LenProperties DEF BatcherTypeOK
  <2>1. \/ UNCHANGED queue
        \/ \E r \in Request : queue' = Append(queue, r) /\ Len(queue) < QueueLimit
        \/ queue' = Tail(queue) /\ queue # <<>>
    BY
      DEF BatcherNext, BatcherLoop, Submit, Send, Receive, Leave, Take, FlushReady, FlushDone,
       ContextDone, LastFlushDone, Drain, WindowEnds, ProcessBatch, Stop, batcherVars
  <2>2. ASSUME NEW r \in Request
        PROVE  Append(queue, r) \in Seq(Request) /\ Len(Append(queue, r)) = Len(queue) + 1
    BY <2>0, AppendProperties
  <2>3. queue # <<>> => Tail(queue) \in Seq(Request) /\ Len(Tail(queue)) = Len(queue) - 1
    BY <2>0, HeadTailProperties
  <2> QED BY <2>0, <2>1, <2>2, <2>3
<1>3. response' \in [Request -> {NoReply, Cancelled} \cup Reply]
  BY <1>0
    DEF BatcherNext, BatcherLoop, Submit, Send, Receive, Leave, Take, FlushReady, FlushDone,
     ContextDone, LastFlushDone, Drain, WindowEnds, ProcessBatch, Stop, batcherVars, BatcherTypeOK,
     Deliver
<1>4. /\ pending' \in SUBSET Request /\ inflight' \in SUBSET Request /\ early' \in SUBSET Request
  <2>1. queue # <<>> => Head(queue) \in Request BY HeadTailProperties DEF BatcherTypeOK
  <2> QED BY <2>1
    DEF BatcherNext, BatcherLoop, Submit, Send, Receive, Leave, Take, FlushReady,
        FlushDone, ContextDone, LastFlushDone, Drain, WindowEnds, ProcessBatch, Stop, batcherVars,
        BatcherTypeOK, startFlush
<1>5. /\ window' \in {"none", "open", "ready", "lost"}
      /\ flush' \in {"none", "running", "done", "failed"}
      /\ loop' \in {"running", "flushing", "draining", "exited"}
  <2>1. CASE BatcherLoop
    BY <2>1 DEF BatcherLoop, Take, FlushReady, FlushDone, ContextDone, LastFlushDone, Drain,
       BatcherTypeOK, startFlush
  <2>2. CASE \E r \in Request : \/ Submit(r) \/ Send(r) \/ Receive(r)
                                \/ \E byCaller \in BOOLEAN : Leave(r, byCaller)
    BY <2>2, Zenon DEF Submit, Send, Receive, Leave, BatcherTypeOK
  <2>3. CASE WindowEnds \/ ProcessBatch \/ Stop \/ UNCHANGED batcherVars
    BY <2>3 DEF WindowEnds, ProcessBatch, Stop, batcherVars, BatcherTypeOK
  <2> QED BY <2>1, <2>2, <2>3, Zenon DEF BatcherNext
<1>6. fate' \in [Key -> Fate \cup {"none"}]
  BY
    DEF BatcherNext, BatcherLoop, Submit, Send, Receive, Leave, Take, FlushReady, FlushDone,
     ContextDone, LastFlushDone, Drain, WindowEnds, ProcessBatch, Stop, batcherVars, BatcherTypeOK,
     NoFate
<1>7. stopped' \in BOOLEAN
  BY Zenon
    DEF BatcherNext, BatcherLoop, Submit, Send, Receive, Leave, Take, FlushReady, FlushDone,
     ContextDone, LastFlushDone, Drain, WindowEnds, ProcessBatch, Stop, batcherVars, BatcherTypeOK
<1> QED BY <1>1, <1>2, <1>3, <1>4, <1>5, <1>6, <1>7 DEF BatcherTypeOK

\* What the loop answers is an answer.
LEMMA Answered ==
  ASSUME BatcherTypeOK, NEW r \in Request
  PROVE  ToBatchResponse(r) # NoReply /\ Cancelled # NoReply
BY Replies, Kinds

\* The channel as a set: what OneAnswer says of it.
LEMMA QueueIsSet ==
  ASSUME BatcherTypeOK, OneAnswer
  PROVE  /\ queue \in Seq(Request) /\ Distinct(queue) /\ Queued = Elems(queue)
         /\ Queued \subseteq Request
<1>1. queue \in Seq(Request) BY DEF BatcherTypeOK
<1>2. Queued \subseteq Request BY <1>1, ElementOfSeq DEF Queued
<1> QED BY <1>1, <1>2 DEF OneAnswer, Distinct, Queued, Elems

\* What each step does to the channel.
LEMMA QueueNext ==
  ASSUME BatcherTypeOK, OneAnswer, Places
  PROVE  /\ queue' = queue => Queued' = Queued /\ Distinct(queue)'
         /\ \A r \in Request : r \notin Queued /\ queue' = Append(queue, r) =>
              Queued' = Queued \cup {r} /\ Distinct(queue)'
         /\ queue # <<>> /\ queue' = Tail(queue) =>
              /\ Head(queue) \in Queued /\ Queued' = Queued \ {Head(queue)}
              /\ Distinct(queue)'
<1>1. queue \in Seq(Request) /\ Distinct(queue) /\ Queued = Elems(queue) /\ Queued' = Elems(queue')
  BY QueueIsSet DEF Queued, Elems
<1>2. queue' = queue => Queued' = Queued /\ Distinct(queue)' BY <1>1 DEF Distinct
<1>3. ASSUME NEW r \in Request, r \notin Queued, queue' = Append(queue, r)
      PROVE  Queued' = Queued \cup {r} /\ Distinct(queue)'
  BY <1>1, <1>3, QueueAppend DEF Distinct
<1>4. ASSUME queue # <<>>, queue' = Tail(queue)
      PROVE  /\ Head(queue) \in Queued /\ Queued' = Queued \ {Head(queue)}
             /\ Distinct(queue)'
  BY <1>1, <1>4, QueueTail DEF Distinct
<1> QED BY <1>2, <1>3, <1>4

LEMMA FlushNext ==
  ASSUME BatcherInv, [BatcherNext]_batcherVars
  PROVE  OneFlushAtATime'
BY DEF BatcherNext, BatcherLoop, Submit, Send, Receive, Leave, Take, FlushReady, FlushDone,
     ContextDone, LastFlushDone, Drain, WindowEnds, ProcessBatch, Stop, batcherVars, BatcherInv, BatcherTypeOK,
     OneFlushAtATime, startFlush, FlushFinished, Ending

LEMMA EarlyNext ==
  ASSUME BatcherInv, [BatcherNext]_batcherVars
  PROVE  inflight' \subseteq early'
<1>1. inflight \subseteq early /\ pending \subseteq {r \in Request : caller[r] # "idle"}
  BY DEF BatcherInv, BatcherTypeOK, Places, Held
<1> QED BY <1>1
  DEF BatcherNext, BatcherLoop, Submit, Send, Receive, Leave, Take, FlushReady, FlushDone,
     ContextDone, LastFlushDone, Drain, WindowEnds, ProcessBatch, Stop, batcherVars, startFlush

LEMMA FreshNext ==
  ASSUME BatcherInv, [BatcherNext]_batcherVars
  PROVE  FreshAnswers'
<1>1. \A r \in inflight : ToBatchResponse(r) \in Reply /\ ToBatchResponse(r).fresh
  BY Replies DEF BatcherInv, BatcherTypeOK
<1>2. \A r \in Request :
        \/ response'[r] = response[r] \/ response'[r] = Cancelled
        \/ r \in inflight /\ response'[r] = ToBatchResponse(r)
  BY
    DEF BatcherNext, BatcherLoop, Submit, Send, Receive, Leave, Take, FlushReady, FlushDone,
     ContextDone, LastFlushDone, Drain, WindowEnds, ProcessBatch, Stop, batcherVars, BatcherInv,
     BatcherTypeOK, Deliver
<1> QED BY <1>1, <1>2, Kinds DEF BatcherInv, FreshAnswers

\* A request is put into the channel by its call, taken out by the loop, and let go of
\* when it is answered.
LEMMA HeldNext ==
  ASSUME BatcherInv, [BatcherNext]_batcherVars
  PROVE  OneAnswer' /\ Places'
<1>0. /\ BatcherTypeOK /\ OneAnswer /\ Places /\ BatcherTypeOK'
      /\ Queued \subseteq Request /\ pending \subseteq Request /\ inflight \subseteq Request
      /\ Queued \cap pending = {} /\ Queued \cap inflight = {} /\ pending \cap inflight = {}
      /\ \A r \in Held : response[r] = NoReply
      /\ response \in [Request -> {NoReply, Cancelled} \cup Reply]
      /\ caller \in [Request -> {"idle", "sending", "waiting", "late", "returned"}]
  BY QueueIsSet, BatcherTypeNext DEF BatcherInv, OneAnswer, BatcherTypeOK, Held
<1>a. \A r \in Request : ToBatchResponse(r) # NoReply /\ Cancelled # NoReply
  BY <1>0, Answered
\* It is enough to look at the sets, not at the channel.
<1> SUFFICES /\ Distinct(queue)' /\ Queued' \cap pending' = {} /\ Queued' \cap inflight' = {}
             /\ pending' \cap inflight' = {}
             /\ \A r \in Held' : response'[r] = NoReply
             /\ Places'
  BY DEF OneAnswer, Distinct, Held
<1>1. CASE \E r \in Request : Send(r)
  <2>1. PICK r \in Request : Send(r) BY <1>1
  <2>2. r \notin Held /\ response[r] = NoReply BY <2>1 DEF Send, Places, BatcherInv
  <2>3. Queued' = Queued \cup {r} /\ Distinct(queue)'
    BY <1>0, <2>1, <2>2, QueueNext DEF Send, Held
  <2> QED BY <1>0, <2>1, <2>2, <2>3 DEF Send, Held, Places
<1>2. CASE Take \/ (Drain /\ queue # <<>>)
  <2>1. Head(queue) \in Queued /\ Queued' = Queued \ {Head(queue)} /\ Distinct(queue)'
    BY <1>0, <1>2, QueueNext DEF Take, Drain
  <2> QED BY <1>0, <1>2, <1>a, <2>1 DEF Take, Drain, Held, Places
<1>3. CASE UNCHANGED queue
  <2>1. Queued' = Queued /\ Distinct(queue)' BY <1>0, <1>3, QueueNext
  <2>2. CASE \E r \in Request : Submit(r) \/ Receive(r) \/ \E b \in BOOLEAN : Leave(r, b)
    BY <1>0, <2>1, <2>2 DEF Submit, Receive, Leave, Held, Places
  <2>3. CASE FlushReady
    <3>1. inflight' = pending /\ pending' = {} /\ inflight = {} /\ UNCHANGED <<caller, response>>
      BY <2>3 DEF FlushReady, startFlush, BatcherInv, OneFlushAtATime
    <3> QED BY <1>0, <2>1, <3>1 DEF Held, Places
  <2>4. CASE FlushDone
    <3>1. /\ response' = [r \in Request |-> IF r \in inflight THEN ToBatchResponse(r) ELSE response[r]]
          /\ inflight' = pending /\ pending' = {} /\ UNCHANGED caller
      BY <2>4 DEF FlushDone, startFlush, Deliver
    <3> QED BY <1>0, <1>a, <2>1, <3>1 DEF Held, Places
  <2>5. CASE ContextDone BY <1>0, <1>a, <2>1, <2>5 DEF ContextDone, Held, Places
  <2>6. CASE LastFlushDone BY <1>0, <1>a, <2>1, <2>6 DEF LastFlushDone, Held, Places
  <2>7. CASE WindowEnds \/ ProcessBatch \/ Stop \/ Drain \/ UNCHANGED batcherVars
    BY SMTT(60), <1>0, <1>3, <1>a, <2>1, <2>7
      DEF WindowEnds, ProcessBatch, Stop, Drain, batcherVars, Held, Places
  <2> QED BY <1>1, <1>2, <2>2, <2>3, <2>4, <2>5, <2>6, <2>7 DEF BatcherNext, BatcherLoop
<1> QED BY <1>1, <1>2, <1>3
    DEF BatcherNext, BatcherLoop, Submit, Send, Receive, Leave, Take, FlushReady, FlushDone,
     ContextDone, LastFlushDone, Drain, WindowEnds, ProcessBatch, Stop, batcherVars

LEMMA EndingNext ==
  ASSUME BatcherInv, [BatcherNext]_batcherVars
  PROVE  Ending'
<1>1. loop' # "running" => stopped'
  BY Zenon
    DEF BatcherNext, BatcherLoop, Submit, Send, Receive, Leave, Take, FlushReady, FlushDone,
     ContextDone, LastFlushDone, Drain, WindowEnds, ProcessBatch, Stop, batcherVars, BatcherInv, Ending
<1>2. loop' \in {"draining", "exited"} => pending' = {} /\ inflight' = {}
  BY
    DEF BatcherNext, BatcherLoop, Submit, Send, Receive, Leave, Take, FlushReady, FlushDone,
     ContextDone, LastFlushDone, Drain, WindowEnds, ProcessBatch, Stop, batcherVars, BatcherInv, Ending
<1>3. loop' = "exited" => \A r \in Queued' : caller'[r] # "waiting"
  <2>0. /\ BatcherTypeOK /\ OneAnswer /\ Places /\ Queued \subseteq Request
        /\ caller \in [Request -> {"idle", "sending", "waiting", "late", "returned"}]
    BY QueueIsSet DEF BatcherInv, BatcherTypeOK
  <2>1. CASE loop = "exited" /\ \E r \in Request : Send(r)
    <3>1. PICK r \in Request : Send(r) BY <2>1
    <3>2. stopped BY <2>1 DEF BatcherInv, Ending
    <3>3. r \notin Queued BY <3>1 DEF Send, BatcherInv, Places, Held
    <3>4. Queued' = Queued \cup {r} BY <2>0, <3>1, <3>3, QueueNext DEF Send
    <3>5. caller' = [caller EXCEPT ![r] = "late"] BY <3>1, <3>2 DEF Send
    <3> QED BY <2>0, <2>1, <3>4, <3>5 DEF BatcherInv, Ending
  <2>2. CASE loop = "exited" /\ UNCHANGED queue
    <3>1. Queued' = Queued BY <2>0, <2>2, QueueNext
    <3>2. \A r \in Request : caller'[r] = "waiting" => caller[r] = "waiting"
      <4>1. ASSUME NEW q \in Request,
                   Submit(q) \/ Receive(q) \/ \E byCaller \in BOOLEAN : Leave(q, byCaller)
            PROVE  \A r \in Request : caller'[r] = "waiting" => caller[r] = "waiting"
        BY <2>0, <4>1 DEF Submit, Receive, Leave
      <4>2. ASSUME NEW q \in Request, Send(q)
            PROVE  caller' = [caller EXCEPT ![q] = "late"]
        BY <2>2, <4>2 DEF Send, BatcherInv, Ending
      <4>3. ASSUME NEW q \in Request, Send(q)
            PROVE  \A r \in Request : caller'[r] = "waiting" => caller[r] = "waiting"
        BY <2>0, <4>3, <4>2
      <4>4. CASE BatcherLoop \/ WindowEnds \/ ProcessBatch \/ Stop \/ UNCHANGED batcherVars
        BY <4>4, Zenon
          DEF BatcherLoop, Take, FlushReady, FlushDone, ContextDone, LastFlushDone,
           Drain, WindowEnds, ProcessBatch, Stop, batcherVars
      <4> QED BY <4>1, <4>3, <4>4 DEF BatcherNext
    <3> QED BY <2>0, <2>2, <3>1, <3>2 DEF BatcherInv, Ending
  <2>3. CASE Drain /\ queue = <<>>
    <3>1. queue' = <<>> BY <2>3 DEF Drain
    <3>2. Queued' = {} BY <3>1 DEF Queued
    <3> QED BY <3>2
  <2> QED BY <2>1, <2>2, <2>3
      DEF BatcherNext, BatcherLoop, Submit, Send, Receive, Leave, Take, FlushReady,
          FlushDone, ContextDone, LastFlushDone, Drain, WindowEnds, ProcessBatch, Stop, batcherVars
<1> QED BY <1>1, <1>2, <1>3 DEF Ending

LEMMA BatcherInvInit ==
  ASSUME BatcherInit
  PROVE  BatcherInv
<1>1. BatcherTypeOK
  <2>1. stopped \in BOOLEAN BY Zenon DEF BatcherInit
  <2>2. fate \in [Key -> Fate \cup {"none"}] BY DEF BatcherInit, NoFate
  <2>3. queue \in Seq(Request) /\ Len(queue) <= QueueLimit
    BY BatcherAssumption DEF BatcherInit
  <2> QED BY <2>1, <2>2, <2>3 DEF BatcherInit, BatcherTypeOK
<1>2. Queued = {} /\ Len(queue) = 0 BY DEF BatcherInit, Queued
<1>3. OneAnswer /\ OneFlushAtATime /\ Places /\ Ending /\ inflight \subseteq early
  BY <1>2 DEF BatcherInit, OneAnswer, OneFlushAtATime, Places, Held, Ending
<1>4. FreshAnswers BY Kinds DEF BatcherInit, FreshAnswers
<1> QED BY <1>1, <1>3, <1>4 DEF BatcherInv

LEMMA BatcherInvariant == BatcherSpec => []BatcherInv
<1>1. BatcherInit => BatcherInv BY BatcherInvInit
<1>2. BatcherInv /\ [BatcherNext]_batcherVars => BatcherInv'
  BY BatcherTypeNext, FlushNext, EarlyNext, FreshNext, HeldNext, EndingNext DEF BatcherInv
<1> QED BY <1>1, <1>2, PTL DEF BatcherSpec

-----------------------------------------------------------------------------
\* The loop holds a request in one place and answers it once, so neither
\* deliverResults nor drainAndCancel blocks on the channel of a caller, however many
\* calls there are and whenever they leave.
THEOREM AnsweredOnce == BatcherSpec => []OneAnswer
<1>1. BatcherInv => OneAnswer BY DEF BatcherInv
<1> QED BY <1>1, BatcherInvariant, PTL

\* The loop assigns one batch at a time, and no request collects without a flush to
\* come: inflight and flushScheduled of the loop agree with what is running.
THEOREM FlushesOneBatch == BatcherSpec => []OneFlushAtATime
<1>1. BatcherInv => OneFlushAtATime BY DEF BatcherInv
<1> QED BY <1>1, BatcherInvariant, PTL

\* Nobody is answered from a batch that was started before the call of Submit.
THEOREM AnsweredFresh == BatcherSpec => []FreshAnswers
<1>1. BatcherInv => FreshAnswers BY DEF BatcherInv
<1> QED BY <1>1, BatcherInvariant, PTL

\* Whatever was submitted before Stop is flushed or cancelled: when the loop has exited,
\* a caller that sent before Stop and still waits has its answer.
THEOREM StopForgetsNobody == BatcherSpec => []NothingForgotten
<1>1. BatcherInv => NothingForgotten
  BY DEF BatcherInv, NothingForgotten, Places, Ending, Held
<1> QED BY <1>1, BatcherInvariant, PTL

=============================================================================
