---------------------------- MODULE ClientProofs ----------------------------
(***************************************************************************)
(* Proofs about ExecutorClient, for any number of shards, callers and      *)
(* processors: heartbeats are answered fresh although they share RPCs, and *)
(* no processor is orphaned although answers are applied in any order.     *)
(***************************************************************************)
EXTENDS ExecutorClient, FiniteSetTheorems, TLAPS

-----------------------------------------------------------------------------
(* Types. *)

LEMMA Constants ==
  /\ Loop \in Thread /\ Nil \notin Shard /\ Nil \notin Thread /\ Nil \notin Processor
  /\ MaxChanges \in Nat /\ MaxFailures \in Nat /\ 0 \in 0..MaxChanges /\ Processor \subseteq Nat
BY ClientAssumption DEF Thread

LEMMA IdleTyped == Idle \in ThreadState /\ NoProcessor \in ProcessorState /\ NoFlight \in FlightState
<1>1. Idle \in ThreadState BY Constants DEF Idle, ThreadState
<1>2. NoFlight \in FlightState BY Constants DEF NoFlight, FlightState
<1>3. NoProcessor \in ProcessorState
  <2>1. FALSE \in BOOLEAN OBVIOUS
  <2> QED BY <2>1 DEF NoProcessor, ProcessorState
<1> QED BY <1>1, <1>2, <1>3

LEMMA ReapTyped ==
  ASSUME NEW P \in [Processor -> ProcessorState]
  PROVE  Reap(P) \in [Processor -> ProcessorState]
BY IdleTyped DEF Reap

LEMMA doHeartbeatTyped ==
  ASSUME ClientTypeOK, NEW t \in Thread, doHeartbeat(t)
  PROVE  flight' \in FlightState
<1>1. [NoFlight EXCEPT !.stage = "sent", !.members = {t}] \in FlightState
  BY IdleTyped, Zenon DEF FlightState
<1>2. [flight EXCEPT !.members = @ \cup {t}] \in FlightState
  BY DEF ClientTypeOK, FlightState
<1> QED BY <1>1, <1>2 DEF doHeartbeat

\* What a step may make of one goroutine.
LEMMA ThreadTyped ==
  ASSUME ClientTypeOK, NEW t \in Thread,
         NEW x \in ThreadState, thread' = [thread EXCEPT ![t] = x]
  PROVE  thread' \in [Thread -> ThreadState]
BY DEF ClientTypeOK

LEMMA ThreadNextTyped ==
  ASSUME ClientTypeOK, [ClientNext]_clientVars
  PROVE  thread' \in [Thread -> ThreadState]
<1>0. thread \in [Thread -> ThreadState] /\ changes \in 0..MaxChanges /\ flight \in FlightState
      /\ Tracked \subseteq Shard /\ managed \in [Shard -> Processor \cup {Nil}]
  BY DEF ClientTypeOK, Tracked
<1>1. CASE UNCHANGED thread BY <1>0, <1>1
<1>2. CASE Responds
  <2> SUFFICES ASSUME NEW t \in Thread, t \in flight.members PROVE thread'[t] \in ThreadState
    BY <1>0, <1>2, Zenon DEF Responds
  <2> DEFINE pc == Heartbeat(t, flight.answer, Cardinality(flight.members) > 1)
  <2>1. pc \in {"again", "apply", "idle", "lookup"} BY DEF Heartbeat
  <2> HIDE DEF pc
  <2>2. [thread[t] EXCEPT !.pc = pc, !.answer = flight.answer, !.at = flight.at] \in ThreadState
    <3>1. flight.answer \in SUBSET Shard /\ flight.at \in 0..MaxChanges BY <1>0
      DEF FlightState
    <3>2. thread[t] \in ThreadState BY <1>0
    <3> QED BY <2>1, <3>1, <3>2, Zenon DEF ThreadState
  <2>3. thread'[t] = Idle
        \/ thread'[t] = [thread[t] EXCEPT !.pc = pc, !.answer = flight.answer, !.at = flight.at]
    BY <1>2, Zenon DEF Responds, pc
  <2> QED BY <2>2, <2>3, IdleTyped
<1>3. CASE HeartbeatFails BY <1>0, <1>3, IdleTyped DEF HeartbeatFails
<1>4. ASSUME NEW t \in Thread, SecondHeartbeat(t) PROVE thread' \in [Thread -> ThreadState]
  <2>1. [thread[t] EXCEPT !.pc = "second", !.answer = {}, !.at = 0] \in ThreadState
    <3>1. thread[t] \in ThreadState BY <1>0
    <3> QED BY <3>1, Constants, Zenon DEF ThreadState
  <2> QED BY <1>0, <1>4, <2>1 DEF SecondHeartbeat
<1>5. ASSUME NEW c \in Caller, NEW s \in Shard, GetShardProcess(c, s)
      PROVE  thread' \in [Thread -> ThreadState]
  <2>1. [Idle EXCEPT !.pc = "first", !.shard = s, !.since = changes] \in ThreadState
    BY <1>0, IdleTyped, Zenon DEF ThreadState
  <2> QED BY <1>5, <2>1, ThreadTyped, Zenon DEF GetShardProcess, Thread
<1>6. CASE HeartbeatTimer
  <2>1. [Idle EXCEPT !.pc = "first", !.since = changes] \in ThreadState
    BY <1>0, IdleTyped, Zenon DEF ThreadState
  <2> QED BY <1>6, <2>1, ThreadTyped, Constants, Zenon DEF HeartbeatTimer
<1>7. ASSUME NEW c \in Caller, CheckAgain(c) PROVE thread' \in [Thread -> ThreadState]
  BY <1>7, IdleTyped, ThreadTyped, Zenon DEF CheckAgain, Thread
<1>8. ASSUME NEW t \in Thread, UpdateStep(t) PROVE thread' \in [Thread -> ThreadState]
  <2>1. CASE LockAssignment(t)
    <3>1. [thread[t] EXCEPT !.pc = "stop", !.todo = Tracked \ thread[t].answer] \in ThreadState
      BY ZenonT(60), <1>0 DEF ThreadState
    <3> QED BY <1>0, <2>1, <3>1 DEF LockAssignment
  <2>2. CASE StopProcessor(t)
    <3>1. [thread[t] EXCEPT !.held = Nil] \in ThreadState BY <1>0 DEF ThreadState
    <3> QED BY <1>0, <2>2, <3>1 DEF StopProcessor
  <2>3. CASE StartNewShards(t)
    <3>1. [thread[t] EXCEPT !.pc = "add", !.todo = thread[t].answer] \in ThreadState
      BY ZenonT(60), <1>0 DEF ThreadState
    <3> QED BY <1>0, <2>3, <3>1 DEF StartNewShards
  <2>4. CASE UnlockAssignment(t)
    <3>1. [thread[t] EXCEPT !.pc = "lookup"] \in ThreadState BY <1>0 DEF ThreadState
    <3> QED BY <1>0, <2>4, <3>1, IdleTyped DEF UnlockAssignment
  <2>5. ASSUME NEW s \in Shard, LoadToStop(t, s) PROVE thread' \in [Thread -> ThreadState]
    <3>1. PICK h \in Processor \cup {Nil} :
            thread' = [thread EXCEPT ![t].todo = @ \ {s}, ![t].held = h]
      BY <1>0, <2>5, Zenon DEF LoadToStop
    <3>2. [thread[t] EXCEPT !.todo = @ \ {s}, !.held = h] \in ThreadState BY ZenonT(60), <1>0
      DEF ThreadState
    <3> QED BY <1>0, <3>1, <3>2
  <2>6. ASSUME NEW s \in Shard, AddProcessor(t, s) PROVE thread' \in [Thread -> ThreadState]
    <3>1. [thread[t] EXCEPT !.todo = @ \ {s}] \in ThreadState BY <1>0 DEF ThreadState
    <3> QED BY <1>0, <2>6, <3>1 DEF AddProcessor
  <2> QED BY <1>8, <2>1, <2>2, <2>3, <2>4, <2>5, <2>6 DEF UpdateStep
<1>9. CASE StopAll
  <2>1. PICK pc \in {"drain", "final"} :
          thread' = [thread EXCEPT ![Loop].pc = pc, ![Loop].todo = Tracked]
    BY <1>9, Zenon DEF StopAll
  <2>2. [thread[Loop] EXCEPT !.pc = pc, !.todo = Tracked] \in ThreadState
    <3>1. thread[Loop] \in ThreadState BY <1>0, Constants
    <3> QED BY <1>0, <3>1, Zenon DEF ThreadState
  <2> QED BY <1>0, <2>1, <2>2, Constants
<1>10. CASE AllStopped \/ waitForUndrain
  <2>1. PICK pc \in {"exited", "drained", "idle"} : thread' = [thread EXCEPT ![Loop].pc = pc]
    BY <1>10 DEF AllStopped, waitForUndrain
  <2>2. [thread[Loop] EXCEPT !.pc = pc] \in ThreadState BY <1>0, Constants DEF ThreadState
  <2> QED BY <1>0, <2>1, <2>2, Constants
<1> QED
  BY <1>1, <1>2, <1>3, <1>4, <1>5, <1>6, <1>7, <1>8, <1>9, <1>10, Zenon
  DEF ClientNext, clientVars, ChangeAssignment, ServerReads, ProcessorStep, StartReturns,
      StopReturns, StartFails, SignalDrain, SignalUndrain, Stop

-----------------------------------------------------------------------------
(* Control: who waits for the RPC, who holds the mutex, who stops a processor. *)

Control ==
  /\ \A t \in Thread :
       /\ t \in flight.members <=> thread[t].pc \in {"first", "second"}
       /\ mutex = t <=> thread[t].pc \in {"stop", "add"}
       /\ thread[t].held # Nil => thread[t].pc \in {"stop", "drain", "final"}
  /\ flight.stage = "none" <=> flight.members = {}

LEMMA ControlNext ==
  ASSUME ClientTypeOK, Control, [ClientNext]_clientVars
  PROVE  Control'
<1>0. /\ thread \in [Thread -> ThreadState] /\ thread' \in [Thread -> ThreadState]
      /\ flight.members \subseteq Thread /\ mutex \in Thread \cup {Nil}
      /\ Loop \in Thread /\ Nil \notin Thread /\ Caller \subseteq Thread
  BY ThreadNextTyped, Constants DEF ClientTypeOK, FlightState, Thread
<1>1. CASE UNCHANGED <<thread, mutex>> /\ UNCHANGED flight BY <1>1 DEF Control
<1>2. CASE ServerReads
  BY <1>0, <1>2 DEF ServerReads, Control, ClientTypeOK, FlightState
<1>3. CASE Responds
  <2>1. flight' = NoFlight /\ UNCHANGED mutex BY <1>3, Zenon DEF Responds
  <2>2. ASSUME NEW t \in Thread, t \in flight.members
        PROVE  /\ thread'[t].pc \in {"again", "apply", "idle", "lookup"}
               /\ thread'[t].held = Nil
    <3> DEFINE pc == Heartbeat(t, flight.answer, Cardinality(flight.members) > 1)
    <3>1. pc \in {"again", "apply", "idle", "lookup"} BY DEF Heartbeat
    <3> HIDE DEF pc
    <3>2. thread[t].held = Nil BY <2>2 DEF Control
    <3>3. thread'[t] = Idle
        \/ thread'[t] = [thread[t] EXCEPT !.pc = pc, !.answer = flight.answer, !.at = flight.at]
      BY <1>3, <2>2, Zenon DEF Responds, pc
    <3>4. CASE thread'[t] = Idle BY <3>4 DEF Idle
    <3>5. CASE thread'[t] = [thread[t] EXCEPT !.pc = pc, !.answer = flight.answer, !.at = flight.at]
      <4>1. thread[t] \in ThreadState BY <1>0
      <4>2. thread'[t].pc = pc /\ thread'[t].held = thread[t].held BY <3>5, <4>1
        DEF ThreadState
      <4> QED BY <3>1, <3>2, <4>2
    <3> QED BY <3>3, <3>4, <3>5
  <2>3. ASSUME NEW t \in Thread, t \notin flight.members PROVE thread'[t] = thread[t]
    BY <1>3, <2>3, Zenon DEF Responds
  <2> QED BY <1>0, <2>1, <2>2, <2>3 DEF Control, NoFlight
<1>4. CASE HeartbeatFails
  BY <1>0, <1>4 DEF HeartbeatFails, Control, NoFlight, Idle
<1>5. ASSUME NEW t \in Thread, doHeartbeat(t), thread[t].pc \in {"idle", "again"}, UNCHANGED mutex,
             thread'[t].pc \in {"first", "second"}, thread'[t].held = Nil,
             \A u \in Thread : u # t => thread'[u] = thread[u]
      PROVE  Control'
  <2>1. flight'.members = flight.members \cup {t} /\ flight'.stage # "none"
    <3>1. CASE flight.stage = "none" BY <1>5, <3>1 DEF doHeartbeat, NoFlight, Control
    <3>2. CASE flight.stage # "none"
      BY <1>5, <3>2 DEF doHeartbeat, Control, ClientTypeOK, FlightState
    <3> QED BY <3>1, <3>2
  <2> QED BY <1>0, <1>5, <2>1 DEF Control
<1>6. ASSUME NEW t \in Thread, SecondHeartbeat(t) PROVE Control'
  <2>1. thread[t].held = Nil BY <1>6 DEF SecondHeartbeat, Control
  <2> QED BY <1>0, <1>5, <1>6, <2>1 DEF SecondHeartbeat, ThreadState
<1>7. ASSUME NEW c \in Caller, NEW s \in Shard, GetShardProcess(c, s) PROVE Control'
  BY <1>0, <1>5, <1>7 DEF GetShardProcess, Idle
<1>8. CASE HeartbeatTimer BY <1>0, <1>5, <1>8 DEF HeartbeatTimer, Idle
\* A step of a goroutine that has nothing to do with the RPC.
<1>9. ASSUME NEW t \in Thread, UNCHANGED flight, \A u \in Thread : u # t => thread'[u] = thread[u],
             thread[t].pc \notin {"first", "second"}, thread'[t].pc \notin {"first", "second"},
             mutex' = t <=> thread'[t].pc \in {"stop", "add"},
             \A u \in Thread : u # t => (mutex' = u <=> mutex = u),
             thread'[t].held # Nil => thread'[t].pc \in {"stop", "drain", "final"}
      PROVE  Control'
  BY <1>0, <1>9 DEF Control
<1>10. ASSUME NEW c \in Caller, CheckAgain(c) PROVE Control'
  BY <1>0, <1>9, <1>10 DEF CheckAgain, Idle, Control
<1>11. ASSUME NEW t \in Thread, UpdateStep(t) PROVE Control'
  <2>a. thread[t] \in ThreadState BY <1>0
  <2>1. CASE LockAssignment(t)
    <3>1. /\ thread'[t] = [thread[t] EXCEPT !.pc = "stop", !.todo = Tracked \ thread[t].answer]
          /\ \A u \in Thread : u # t => thread'[u] = thread[u]
      BY <1>0, <2>1 DEF LockAssignment
    <3>2. thread'[t].pc = "stop" /\ thread'[t].held = thread[t].held
      BY <2>a, <3>1 DEF ThreadState
    <3>3. thread[t].pc = "apply" /\ mutex = Nil /\ mutex' = t /\ UNCHANGED flight
      BY <2>1, Zenon DEF LockAssignment
    <3> QED BY <1>0, <1>9, <3>1, <3>2, <3>3, Zenon
  <2>2. CASE StopProcessor(t)
    <3>1. thread'[t] = [thread[t] EXCEPT !.held = Nil] BY <1>0, <2>2 DEF StopProcessor
    <3>2. thread'[t].pc = thread[t].pc /\ thread'[t].held = Nil
          /\ thread[t].pc \in {"stop", "drain", "final"}
      <4>1. thread[t].held # Nil BY <2>2, Zenon DEF StopProcessor
      <4>2. thread'[t].pc = thread[t].pc /\ thread'[t].held = Nil
        BY <2>a, <3>1 DEF ThreadState
      <4> QED BY <4>1, <4>2, Zenon DEF Control
    <3> QED BY <1>0, <1>9, <2>2, <3>2 DEF StopProcessor, Control
  <2>3. CASE StartNewShards(t)
    <3>1. /\ thread'[t] = [thread[t] EXCEPT !.pc = "add", !.todo = thread[t].answer]
          /\ \A u \in Thread : u # t => thread'[u] = thread[u]
      BY <1>0, <2>3 DEF StartNewShards
    <3>2. thread'[t].pc = "add" /\ thread'[t].held = thread[t].held
      BY <2>a, <3>1 DEF ThreadState
    <3>3. thread[t].pc = "stop" /\ thread[t].held = Nil /\ UNCHANGED <<mutex, flight>>
      BY <2>3, Zenon DEF StartNewShards
    <3>4. mutex = t BY <3>3, Zenon DEF Control
    <3> QED BY <1>0, <1>9, <3>1, <3>2, <3>3, <3>4, Zenon
  <2>4. CASE UnlockAssignment(t)
    BY <1>0, <1>9, <2>4 DEF UnlockAssignment, Control, ThreadState, Idle
  <2>5. ASSUME NEW s \in Shard, LoadToStop(t, s) PROVE Control'
    <3>1. PICK h \in Processor \cup {Nil} :
            thread' = [thread EXCEPT ![t].todo = @ \ {s}, ![t].held = h]
      BY <2>5, Zenon DEF LoadToStop, ClientTypeOK
    <3>2. thread'[t] = [thread[t] EXCEPT !.todo = @ \ {s}, !.held = h]
          /\ \A u \in Thread : u # t => thread'[u] = thread[u]
      BY <1>0, <3>1
    <3>3. thread'[t].pc = thread[t].pc BY <1>0, <3>2 DEF ThreadState
    <3> QED BY <1>0, <1>9, <2>5, <3>2, <3>3 DEF LoadToStop, Control
  <2>6. ASSUME NEW s \in Shard, AddProcessor(t, s) PROVE Control'
    <3>1. /\ thread'[t] = [thread[t] EXCEPT !.todo = @ \ {s}]
          /\ \A u \in Thread : u # t => thread'[u] = thread[u]
      BY <1>0, <2>6 DEF AddProcessor
    <3>2. thread'[t].pc = thread[t].pc /\ thread'[t].held = thread[t].held
      BY <2>a, <3>1 DEF ThreadState
    <3>3. thread[t].pc = "add" /\ UNCHANGED <<mutex, flight>>
      BY <2>6, Zenon DEF AddProcessor
    <3>4. mutex = t /\ thread[t].held = Nil BY <3>3 DEF Control
    <3> QED BY <1>0, <1>9, <3>1, <3>2, <3>3, <3>4, Zenon
  <2> QED BY <1>11, <2>1, <2>2, <2>3, <2>4, <2>5, <2>6 DEF UpdateStep
\* The loop changes its own state only.
<1>l. ASSUME NEW x \in ThreadState, thread' = [thread EXCEPT ![Loop] = x],
             x.pc \in {"idle", "drain", "final", "drained", "exited"},
             x.held = Nil, UNCHANGED <<mutex, flight>>,
             thread[Loop].pc \in {"idle", "drain", "final", "drained", "exited"}
      PROVE  Control'
  <2>1. thread'[Loop] = x /\ \A u \in Thread : u # Loop => thread'[u] = thread[u]
    BY <1>0, <1>l
  <2>2. mutex # Loop BY <1>0, <1>l DEF Control
  <2> QED BY <1>0, <1>9, <1>l, <2>1, <2>2
<1>h. /\ thread[Loop] \in ThreadState
      /\ thread[Loop].held # Nil => thread[Loop].pc \in {"stop", "drain", "final"}
  BY <1>0 DEF Control
<1>12. CASE StopAll
  <2>1. PICK pc \in {"drain", "final"} :
          thread' = [thread EXCEPT ![Loop].pc = pc, ![Loop].todo = Tracked]
    BY <1>12, Zenon DEF StopAll
  <2> DEFINE x == [thread[Loop] EXCEPT !.pc = pc, !.todo = Tracked]
  <2>2. thread[Loop].pc = "idle" /\ UNCHANGED <<mutex, flight>> BY <1>12, Zenon DEF StopAll
  <2>3. Tracked \subseteq Shard BY DEF Tracked
  <2>4. x \in ThreadState /\ x.pc = pc /\ x.held = thread[Loop].held
    BY <1>h, <2>3, Zenon DEF ThreadState
  <2>5. thread' = [thread EXCEPT ![Loop] = x] BY <1>0, <2>1, Zenon
  <2> HIDE DEF x
  <2>6. thread[Loop].held = Nil BY <1>h, <2>2
  <2> QED BY <1>l, <2>2, <2>4, <2>5, <2>6, Zenon
<1>13. CASE AllStopped \/ waitForUndrain
  <2>1. PICK pc \in {"exited", "drained", "idle"} : thread' = [thread EXCEPT ![Loop].pc = pc]
    BY <1>13, Zenon DEF AllStopped, waitForUndrain
  <2> DEFINE x == [thread[Loop] EXCEPT !.pc = pc]
  <2>2. /\ thread[Loop].pc \in {"drain", "final", "drained"} /\ UNCHANGED <<mutex, flight>>
        /\ thread[Loop].pc # "drained" => thread[Loop].held = Nil
    BY <1>13, Zenon DEF AllStopped, waitForUndrain
  <2>4. x \in ThreadState /\ x.pc = pc /\ x.held = thread[Loop].held
    BY <1>h DEF ThreadState
  <2>5. thread' = [thread EXCEPT ![Loop] = x] BY <1>0, <2>1
  <2> HIDE DEF x
  <2>6. thread[Loop].held = Nil BY <1>h, <2>2
  <2> QED BY <1>l, <2>1, <2>2, <2>4, <2>5, <2>6, Zenon
<1> QED
  BY <1>1, <1>2, <1>3, <1>4, <1>6, <1>7, <1>8, <1>10, <1>11, <1>12, <1>13, Zenon
  DEF ClientNext, clientVars, ChangeAssignment, ProcessorStep, StartReturns,
      StopReturns, StartFails, SignalDrain, SignalUndrain, Stop

-----------------------------------------------------------------------------
(* The types of what is left. *)

LEMMA ProcessorsTyped ==
  ASSUME ClientTypeOK, Control, [ClientNext]_clientVars
  PROVE  proc' \in [Processor -> ProcessorState] /\ managed' \in [Shard -> Processor \cup {Nil}]
<1>0. /\ proc \in [Processor -> ProcessorState] /\ managed \in [Shard -> Processor \cup {Nil}]
      /\ thread \in [Thread -> ThreadState]
  BY DEF ClientTypeOK
<1>a. ASSUME NEW p \in Processor, NEW x \in ProcessorState
      PROVE  [proc EXCEPT ![p] = x] \in [Processor -> ProcessorState]
  BY <1>0
<1>1. CASE UNCHANGED <<managed, proc>> BY <1>0, <1>1
<1>2. ASSUME NEW t \in Thread, StopProcessor(t)
      PROVE  proc' \in [Processor -> ProcessorState] /\ managed' \in [Shard -> Processor \cup {Nil}]
  <2> DEFINE p == thread[t].held
  <2>1. p \in Processor BY <1>0, <1>2 DEF StopProcessor, ThreadState
  <2>3. thread[t].pc \in {"stop", "drain", "final"} BY <1>2 DEF StopProcessor, Control
  <2>2. [proc[p] EXCEPT !.state = "stopping", !.stopping = @ \cup {thread[t].pc}] \in ProcessorState
    <3>1. proc[p] \in ProcessorState BY <1>0, <2>1
    <3>2. proc[p].stopping \cup {thread[t].pc} \in SUBSET {"stop", "drain", "final"}
      BY <2>3, <3>1 DEF ProcessorState
    <3> QED BY <3>1, <3>2, Zenon DEF ProcessorState
  <2> QED BY <1>0, <1>2, <2>1, <2>2, Zenon DEF StopProcessor
<1>3. ASSUME NEW t \in Thread, NEW s \in Shard, AddProcessor(t, s)
      PROVE  proc' \in [Processor -> ProcessorState] /\ managed' \in [Shard -> Processor \cup {Nil}]
  <2>1. CASE \E p \in Processor : /\ managed' = [managed EXCEPT ![s] = p]
                                  /\ proc' = [proc EXCEPT ![p].shard = s, ![p].start = "running"]
    <3>1. PICK p \in Processor : /\ managed' = [managed EXCEPT ![s] = p]
                                 /\ proc' = [proc EXCEPT ![p].shard = s, ![p].start = "running"]
      BY <2>1, Zenon
    <3>2. [proc[p] EXCEPT !.shard = s, !.start = "running"] \in ProcessorState
      <4>1. proc[p] \in ProcessorState BY <1>0
      <4> QED BY <4>1, Zenon DEF ProcessorState
    <3> QED BY <1>0, <3>1, <3>2
  <2> QED BY <1>1, <1>3, <2>1 DEF AddProcessor, procVars
<1>4. ASSUME NEW p \in Processor, ProcessorStep(p) \/ StartFails(p)
      PROVE  proc' \in [Processor -> ProcessorState] /\ managed' \in [Shard -> Processor \cup {Nil}]
  <2>0. proc[p] \in ProcessorState BY <1>0
  <2>1. CASE StartReturns(p)
    <3>1. [proc[p] EXCEPT !.start = "returned", !.state = "started"] \in ProcessorState
      BY <2>0, Zenon DEF ProcessorState
    <3>2. [proc EXCEPT ![p].start = "returned", ![p].state = "started"] \in [Processor -> ProcessorState]
      BY <1>0, <3>1
    <3> QED BY <1>0, <2>1, <3>2, ReapTyped, Zenon DEF StartReturns
  <2>2. CASE StartFails(p)
    <3>1. [proc[p] EXCEPT !.start = "failed"] \in ProcessorState
      BY <2>0 DEF ProcessorState
    <3>2. [proc EXCEPT ![p].start = "failed"] \in [Processor -> ProcessorState]
      BY <1>0, <3>1
    <3> QED BY <1>0, <2>2, <3>2, ReapTyped, Zenon DEF StartFails
  <2>3. ASSUME NEW by \in {"stop", "drain", "final"}, StopReturns(p, by)
        PROVE  proc' \in [Processor -> ProcessorState] /\ UNCHANGED managed
    <3>1. [proc[p] EXCEPT !.stopping = @ \ {by}, !.stopped = TRUE] \in ProcessorState
      BY <2>0, Zenon DEF ProcessorState
    <3>2. [proc EXCEPT ![p].stopping = @ \ {by}, ![p].stopped = TRUE] \in [Processor -> ProcessorState]
      BY <1>0, <3>1
    <3> QED BY <2>3, <3>2, ReapTyped, Zenon DEF StopReturns
  <2> QED BY <1>0, <1>4, <2>1, <2>2, <2>3 DEF ProcessorStep
<1> QED
  BY <1>1, <1>2, <1>3, <1>4, Zenon
  DEF ClientNext, UpdateStep, clientVars, procVars, ChangeAssignment, ServerReads, Responds,
      HeartbeatFails, HeartbeatTimer, StopAll, AllStopped, waitForUndrain, SecondHeartbeat,
      LockAssignment, StartNewShards, UnlockAssignment, LoadToStop, CheckAgain, GetShardProcess,
      SignalDrain, SignalUndrain, Stop

LEMMA FlightTyped ==
  ASSUME ClientTypeOK, [ClientNext]_clientVars
  PROVE  flight' \in FlightState
<1>1. flight \in FlightState BY DEF ClientTypeOK
<1>2. CASE ServerReads
  <2>1. [flight EXCEPT !.stage = "read", !.answer = assigned, !.at = changes] \in FlightState
    BY <1>1, Zenon DEF ClientTypeOK, FlightState
  <2> QED BY <1>2, <2>1 DEF ServerReads
<1>3. CASE \E t \in Thread : doHeartbeat(t) BY <1>3, doHeartbeatTyped
<1>4. CASE flight' = NoFlight BY <1>4, IdleTyped
<1>5. UNCHANGED flight \/ ServerReads \/ flight' = NoFlight \/ \E t \in Thread : doHeartbeat(t)
  <2>1. ASSUME NEW t \in Thread, UpdateStep(t) PROVE UNCHANGED flight
    BY <2>1, Zenon
      DEF UpdateStep, LockAssignment, StopProcessor, StartNewShards, UnlockAssignment,
       LoadToStop, AddProcessor
  <2>2. ASSUME NEW q \in Processor, ProcessorStep(q) \/ StartFails(q) PROVE UNCHANGED flight
    BY <2>2, Zenon DEF ProcessorStep, StartReturns, StopReturns, StartFails
  <2>3. ASSUME NEW c \in Caller, CheckAgain(c) \/ \E s \in Shard : GetShardProcess(c, s)
        PROVE  UNCHANGED flight \/ (c \in Thread /\ doHeartbeat(c))
    BY <2>3, Zenon DEF CheckAgain, GetShardProcess, Thread
  <2>4. ASSUME NEW t \in Thread, SecondHeartbeat(t) PROVE doHeartbeat(t)
    BY <2>4, Zenon DEF SecondHeartbeat
  <2>5. CASE HeartbeatTimer BY <2>5, Constants, Zenon DEF HeartbeatTimer
  <2>6. CASE Responds \/ HeartbeatFails BY <2>6, Zenon DEF Responds, HeartbeatFails
  <2>7. CASE \/ ChangeAssignment \/ StopAll \/ AllStopped \/ waitForUndrain
             \/ SignalDrain \/ SignalUndrain \/ Stop \/ UNCHANGED clientVars
    BY <2>7, Zenon DEF ChangeAssignment, StopAll, AllStopped, waitForUndrain, SignalDrain,
       SignalUndrain, Stop, clientVars
  <2> QED BY <2>1, <2>2, <2>3, <2>4, <2>5, <2>6, <2>7, Zenon DEF ClientNext
<1> QED BY <1>1, <1>2, <1>3, <1>4, <1>5

LEMMA ClientTypeNext ==
  ASSUME ClientTypeOK, Control, [ClientNext]_clientVars
  PROVE  ClientTypeOK'
<1>1. assigned' \subseteq Shard /\ changes' \in 0..MaxChanges /\ failures' \in 0..MaxFailures
  <2>1. UNCHANGED serverVars \/ ChangeAssignment
    BY Zenon DEF ClientNext, UpdateStep, clientVars,
      ServerReads, Responds, HeartbeatFails, HeartbeatTimer, StopAll, AllStopped, waitForUndrain,
      SecondHeartbeat, LockAssignment, StartNewShards, UnlockAssignment, LoadToStop, CheckAgain,
      GetShardProcess, SignalDrain, SignalUndrain, Stop, StopProcessor, AddProcessor, ProcessorStep,
      StartReturns, StopReturns, StartFails
  <2>2. assigned' \subseteq Shard /\ changes' \in 0..MaxChanges
    BY <2>1, Constants DEF ClientTypeOK, ChangeAssignment, serverVars
  <2>3. failures' = failures \/ (failures < MaxFailures /\ failures' = failures + 1)
    <3>1. ASSUME NEW t \in Thread, SecondHeartbeat(t) \/ UpdateStep(t)
          PROVE  failures' = failures \/ (failures < MaxFailures /\ failures' = failures + 1)
      BY <3>1, Zenon
        DEF SecondHeartbeat, UpdateStep, LockAssignment, StopProcessor, StartNewShards,
         UnlockAssignment, LoadToStop, AddProcessor, procVars
    <3>2. ASSUME NEW q \in Processor, ProcessorStep(q) \/ StartFails(q)
          PROVE  failures' = failures \/ (failures < MaxFailures /\ failures' = failures + 1)
      BY <3>2, Zenon DEF ProcessorStep, StartReturns, StopReturns, StartFails
    <3>3. ASSUME NEW c \in Caller, CheckAgain(c) \/ \E s \in Shard : GetShardProcess(c, s)
          PROVE  UNCHANGED failures
      BY <3>3, Zenon DEF CheckAgain, GetShardProcess, procVars
    <3>4. CASE \/ ChangeAssignment \/ StopAll \/ AllStopped \/ waitForUndrain \/ ServerReads
               \/ Responds \/ HeartbeatFails \/ HeartbeatTimer
               \/ SignalDrain \/ SignalUndrain \/ Stop \/ UNCHANGED clientVars
      BY <3>4, Zenon DEF ChangeAssignment, StopAll, AllStopped, waitForUndrain, SignalDrain,
         SignalUndrain, Stop, clientVars, procVars, ServerReads, Responds, HeartbeatFails,
         HeartbeatTimer
    <3> QED BY <3>1, <3>2, <3>3, <3>4, Zenon DEF ClientNext
  <2> QED BY <2>2, <2>3, Constants DEF ClientTypeOK
<1>2. mutex' \in Thread \cup {Nil}
  <2>1. ASSUME NEW t \in Thread, SecondHeartbeat(t) \/ UpdateStep(t)
        PROVE  mutex' \in {mutex, t, Nil}
    BY <2>1, Zenon
      DEF SecondHeartbeat, UpdateStep, LockAssignment, StopProcessor, StartNewShards,
       UnlockAssignment, LoadToStop, AddProcessor
  <2>2. ASSUME NEW q \in Processor, ProcessorStep(q) \/ StartFails(q) PROVE UNCHANGED mutex
    BY <2>2, Zenon DEF ProcessorStep, StartReturns, StopReturns, StartFails
  <2>3. ASSUME NEW c \in Caller, CheckAgain(c) \/ \E s \in Shard : GetShardProcess(c, s)
        PROVE  UNCHANGED mutex
    BY <2>3, Zenon DEF CheckAgain, GetShardProcess
  <2>4. CASE \/ ChangeAssignment \/ StopAll \/ AllStopped \/ waitForUndrain \/ ServerReads
             \/ Responds \/ HeartbeatFails \/ HeartbeatTimer
             \/ SignalDrain \/ SignalUndrain \/ Stop \/ UNCHANGED clientVars
    BY <2>4, Zenon DEF ChangeAssignment, StopAll, AllStopped, waitForUndrain, SignalDrain,
       SignalUndrain, Stop, clientVars, ServerReads, Responds, HeartbeatFails, HeartbeatTimer,
       ClientTypeOK
  <2>5. mutex \in Thread \cup {Nil} BY DEF ClientTypeOK
  <2> QED BY <2>1, <2>2, <2>3, <2>4, <2>5, Zenon DEF ClientNext
<1>c. \/ UNCHANGED controlVars
      \/ SignalDrain \/ SignalUndrain \/ Stop \/ AllStopped \/ waitForUndrain
  <2>1. ASSUME NEW t \in Thread, SecondHeartbeat(t) \/ UpdateStep(t) PROVE UNCHANGED controlVars
    BY <2>1, Zenon
      DEF SecondHeartbeat, UpdateStep, LockAssignment, StopProcessor, StartNewShards,
       UnlockAssignment, LoadToStop, AddProcessor
  <2>2. ASSUME NEW q \in Processor, ProcessorStep(q) \/ StartFails(q) PROVE UNCHANGED controlVars
    BY <2>2, Zenon DEF ProcessorStep, StartReturns, StopReturns, StartFails
  <2>3. ASSUME NEW c \in Caller, CheckAgain(c) \/ \E s \in Shard : GetShardProcess(c, s)
        PROVE  UNCHANGED controlVars
    BY <2>3, Zenon DEF CheckAgain, GetShardProcess
  <2>4. CASE \/ ChangeAssignment \/ StopAll \/ ServerReads \/ Responds \/ HeartbeatFails
             \/ HeartbeatTimer \/ UNCHANGED clientVars
    BY <2>4, Zenon DEF ChangeAssignment, StopAll, clientVars, ServerReads, Responds,
       HeartbeatFails, HeartbeatTimer
  <2> QED BY <2>1, <2>2, <2>3, <2>4, Zenon DEF ClientNext
<1>3. stopC' \in BOOLEAN
  BY <1>c, Zenon
 
    DEF ClientTypeOK, controlVars, AllStopped, waitForUndrain, SignalDrain, SignalUndrain, Stop
<1>4. signal' \in [drains : Nat, undrains : Nat, drainCh : Nat, undrainCh : Nat]
  <2>0. signal \in [drains : Nat, undrains : Nat, drainCh : Nat, undrainCh : Nat]
    BY DEF ClientTypeOK
  <2>1. CASE UNCHANGED signal BY <2>0, <2>1
  <2>2. CASE SignalDrain BY <2>0, <2>2 DEF SignalDrain
  <2>3. CASE SignalUndrain BY <2>0, <2>3 DEF SignalUndrain
  <2>4. CASE AllStopped BY <2>0, <2>4 DEF AllStopped
  <2>5. CASE waitForUndrain BY <2>0, <2>5 DEF waitForUndrain
  <2> QED BY <1>c, <2>1, <2>2, <2>3, <2>4, <2>5, Zenon DEF controlVars, Stop
<1> QED
  BY <1>1, <1>2, <1>3, <1>4, ThreadNextTyped, ControlNext, ProcessorsTyped, FlightTyped
  DEF ClientTypeOK, Control

-----------------------------------------------------------------------------
(***************************************************************************)
(* Heartbeats.  What the RPC in flight read is as new as every request     *)
(* that waits for it, except for a request that joined it late: then it is *)
(* shared, and the goroutine will ask again.                               *)
(***************************************************************************)
Fresh ==
  /\ IsFiniteSet(flight.members)
  /\ \A t \in Thread :
       /\ thread[t].since <= changes
       /\ flight.stage = "read" /\ thread[t].pc \in {"again", "second"} =>
            flight.at >= thread[t].since
       /\ flight.stage = "read" /\ thread[t].pc = "first" =>
            flight.at >= thread[t].since \/ \E u \in flight.members : u # t
  /\ FreshHeartbeat

LEMMA TwoAreShared ==
  ASSUME NEW S, IsFiniteSet(S), NEW t \in S, NEW u \in S, t # u
  PROVE  Cardinality(S) > 1
<1>1. IsFiniteSet({t}) /\ Cardinality({t}) = 1 BY FS_Singleton, Zenon
<1>2. IsFiniteSet({t} \cup {u}) /\ Cardinality({t} \cup {u}) = 2
  <2>1. /\ IsFiniteSet({t} \cup {u})
        /\ Cardinality({t} \cup {u}) = IF u \in {t} THEN Cardinality({t}) ELSE Cardinality({t}) + 1
    BY <1>1, FS_AddElement, Zenon
  <2> QED BY <1>1, <2>1
<1>3. Cardinality({t} \cup {u}) <= Cardinality(S) BY <1>2, FS_Subset
<1>4. Cardinality(S) \in Nat BY FS_CardinalityType
<1> QED BY <1>2, <1>3, <1>4

LEMMA FreshNext ==
  ASSUME ClientTypeOK, Control, Fresh, [ClientNext]_clientVars
  PROVE  Fresh'
<1>0. /\ thread \in [Thread -> ThreadState] /\ thread' \in [Thread -> ThreadState]
      /\ flight \in FlightState /\ changes \in Nat /\ changes' \in Nat
      /\ Loop \in Thread /\ Caller \subseteq Thread
      /\ \A t \in Thread : thread[t].since \in Nat /\ thread[t].at \in Nat
      /\ flight.at \in Nat
  <2>1. thread' \in [Thread -> ThreadState] BY ThreadNextTyped
  <2>2. changes' \in Nat BY ClientTypeNext DEF ClientTypeOK
  <2>3. thread \in [Thread -> ThreadState] /\ flight \in FlightState /\ changes \in Nat
    BY DEF ClientTypeOK
  <2>4. \A t \in Thread : thread[t].since \in Nat /\ thread[t].at \in Nat
    BY <2>3 DEF ThreadState
  <2>5. flight.at \in Nat BY <2>3 DEF FlightState
  <2>6. Loop \in Thread /\ Caller \subseteq Thread BY DEF Thread
  <2> QED BY <2>1, <2>2, <2>3, <2>4, <2>5, <2>6, Zenon
\* A step that sends no heartbeat and answers none.
<1>1. ASSUME UNCHANGED flight, changes' >= changes,
             \A t \in Thread :
               \/ /\ thread'[t].since = thread[t].since /\ thread'[t].at = thread[t].at
                  /\ thread'[t].shard = thread[t].shard /\ thread'[t].answer = thread[t].answer
                  /\ \/ thread'[t].pc = thread[t].pc
                     \/ /\ thread[t].pc \in {"apply", "stop", "add", "lookup"}
                        /\ thread'[t].pc \in {"apply", "stop", "add", "lookup"}
                     \/ thread'[t].pc \in {"idle", "drain", "final", "drained", "exited"}
               \/ thread'[t] = Idle
      PROVE  Fresh'
  <2>1. ASSUME NEW t \in Thread
        PROVE  /\ thread'[t].since <= changes'
               /\ flight.stage = "read" /\ thread'[t].pc \in {"again", "second"} =>
                    flight.at >= thread'[t].since
               /\ flight.stage = "read" /\ thread'[t].pc = "first" =>
                    flight.at >= thread'[t].since \/ \E u \in flight.members : u # t
               /\ thread'[t].pc \in {"apply", "stop", "add", "lookup"} =>
                    thread'[t].at >= thread'[t].since \/ thread'[t].shard \in thread'[t].answer
    <3>1. CASE thread'[t] = Idle BY SMTT(60), <1>0, <3>1 DEF Idle
    <3>2. CASE thread'[t] # Idle BY SMTT(60), <1>0, <1>1, <3>2 DEF Fresh, FreshHeartbeat
    <3> QED BY <3>1, <3>2
  <2> QED BY <1>1, <2>1 DEF Fresh, FreshHeartbeat
<1>2. CASE ServerReads
  <2>1. UNCHANGED <<thread, changes>> BY <1>2 DEF ServerReads, serverVars
  <2>2. flight'.members = flight.members /\ flight'.stage = "read" /\ flight'.at = changes
    BY <1>0, <1>2 DEF ServerReads, FlightState
  <2> QED BY <1>0, <2>1, <2>2 DEF Fresh, FreshHeartbeat
<1>3. CASE Responds
  <2>1. flight' = NoFlight /\ UNCHANGED changes BY <1>3, Zenon DEF Responds, serverVars
  <2>2. ASSUME NEW t \in Thread
        PROVE  /\ thread'[t].since <= changes
               /\ thread'[t].pc \in {"apply", "stop", "add", "lookup"} =>
                    thread'[t].at >= thread'[t].since \/ thread'[t].shard \in thread'[t].answer
    <3>1. CASE t \notin flight.members
      <4>1. thread'[t] = thread[t] BY <1>3, <3>1, Zenon DEF Responds
      <4> QED BY <4>1 DEF Fresh, FreshHeartbeat
    <3>2. CASE thread'[t] = Idle BY <1>0, <3>2 DEF Idle
    <3>3. CASE t \in flight.members /\ thread'[t] # Idle
      <4> DEFINE shared == Cardinality(flight.members) > 1
                 pc == Heartbeat(t, flight.answer, shared)
      <4>1. thread'[t] = [thread[t] EXCEPT !.pc = pc, !.answer = flight.answer, !.at = flight.at]
        BY <1>3, <3>3, Zenon DEF Responds
      <4>2. thread[t] \in ThreadState /\ thread[t].pc \in {"first", "second"}
        BY <1>0, <3>3 DEF Control
      <4>3. thread[t].pc = "first" =>
              shared \/ flight.at >= thread[t].since
        BY <1>3, <3>3, TwoAreShared, Zenon DEF Fresh, Responds
      <4>4. thread[t].pc = "second" => flight.at >= thread[t].since
        BY <1>3, Zenon DEF Fresh, Responds
      <4>5. pc # "again" => flight.at >= thread[t].since \/ thread[t].shard \in flight.answer
        BY <4>2, <4>3, <4>4 DEF Heartbeat
      <4>7. pc \in {"again", "apply", "idle", "lookup"} BY DEF Heartbeat
      <4> HIDE DEF pc
      <4>6. /\ thread'[t].pc = pc /\ thread'[t].at = flight.at /\ thread'[t].answer = flight.answer
            /\ thread'[t].since = thread[t].since /\ thread'[t].shard = thread[t].shard
        BY <4>1, <4>2 DEF ThreadState
      <4> QED BY <4>5, <4>6 DEF Fresh
    <3> QED BY <3>1, <3>2, <3>3
  <2> QED BY <2>1, <2>2, FS_EmptySet DEF Fresh, FreshHeartbeat, NoFlight
<1>4. CASE HeartbeatFails
  <2>1. flight' = NoFlight /\ UNCHANGED changes BY <1>4 DEF HeartbeatFails, serverVars
  <2>2. \A t \in Thread : thread'[t] = Idle \/ thread'[t] = thread[t] BY <1>4
    DEF HeartbeatFails
  <2>3. Idle.since = 0 /\ Idle.pc = "idle" /\ 0 <= changes BY <1>0 DEF Idle
  <2>4. ASSUME NEW t \in Thread
        PROVE  /\ thread'[t].since <= changes
               /\ thread'[t].pc \in {"apply", "stop", "add", "lookup"} =>
                    thread'[t].at >= thread'[t].since \/ thread'[t].shard \in thread'[t].answer
    <3>1. CASE thread'[t] = Idle
      <4>1. Idle.pc \notin {"apply", "stop", "add", "lookup"} BY <2>3
      <4> QED BY <2>3, <3>1, <4>1, Zenon
    <3>2. CASE thread'[t] = thread[t] BY <3>2, Zenon DEF Fresh, FreshHeartbeat
    <3> QED BY <2>2, <3>1, <3>2
  <2> QED BY <2>1, <2>4, FS_EmptySet DEF Fresh, FreshHeartbeat, NoFlight
\* A goroutine that sends or joins a heartbeat.
<1>5. ASSUME NEW t \in Thread, doHeartbeat(t), UNCHANGED changes,
             \A u \in Thread : u # t => thread'[u] = thread[u],
             \/ thread'[t].pc = "first" /\ thread'[t].since = changes
             \/ /\ thread[t].pc = "again" /\ thread'[t].pc = "second"
                /\ thread'[t].since = thread[t].since,
             t \notin flight.members
      PROVE  Fresh'
  <2>1. /\ IsFiniteSet(flight'.members)
        /\ \/ flight'.stage = "sent"
           \/ /\ flight'.stage = flight.stage /\ flight'.at = flight.at
              /\ flight'.members = flight.members \cup {t}
              /\ \E u \in flight'.members : u # t
    <3>1. CASE flight.stage = "none"
      <4>1. flight'.stage = "sent" /\ flight'.members = {t} BY <1>5, <3>1
        DEF doHeartbeat, NoFlight
      <4> QED BY <4>1, FS_Singleton, Zenon
    <3>2. CASE flight.stage # "none"
      <4>1. /\ flight'.stage = flight.stage /\ flight'.at = flight.at
            /\ flight'.members = flight.members \cup {t}
        BY <1>0, <1>5, <3>2 DEF doHeartbeat, FlightState
      <4>2. IsFiniteSet(flight'.members) BY <4>1, FS_AddElement DEF Fresh
      <4>3. \E u \in flight'.members : u # t BY <1>5, <3>2, <4>1 DEF Control
      <4> QED BY <4>1, <4>2, <4>3
    <3> QED BY <3>1, <3>2
  <2>2. ASSUME NEW u \in Thread
        PROVE  /\ thread'[u].since <= changes
               /\ flight'.stage = "read" /\ thread'[u].pc \in {"again", "second"} =>
                    flight'.at >= thread'[u].since
               /\ flight'.stage = "read" /\ thread'[u].pc = "first" =>
                    flight'.at >= thread'[u].since \/ \E v \in flight'.members : v # u
               /\ thread'[u].pc \in {"apply", "stop", "add", "lookup"} =>
                    thread'[u].at >= thread'[u].since \/ thread'[u].shard \in thread'[u].answer
    <3>1. CASE u = t
      <4>1. thread'[t].since <= changes
        <5>1. thread[t].since <= changes BY Zenon DEF Fresh
        <5>2. changes <= changes BY <1>0
        <5> QED BY <1>5, <5>1, <5>2, Zenon
      <4>2. thread'[t].pc \in {"first", "second"} BY <1>5, Zenon
      <4>3. ASSUME flight'.stage = "read", thread'[t].pc = "second"
            PROVE  flight'.at >= thread'[t].since
        <5>1. /\ thread[t].pc = "again" /\ thread'[t].since = thread[t].since
              /\ flight.stage = "read" /\ flight'.at = flight.at
          BY <1>5, <2>1, <4>3
        <5> QED BY <5>1 DEF Fresh
      <4>4. flight'.stage = "read" => \E v \in flight'.members : v # t BY <2>1
      <4> QED BY <3>1, <4>1, <4>2, <4>3, <4>4
    <3>2. CASE u # t BY <1>5, <2>1, <3>2 DEF Fresh, FreshHeartbeat
    <3> QED BY <3>1, <3>2
  <2> QED BY <1>5, <2>1, <2>2 DEF Fresh, FreshHeartbeat
<1>6. ASSUME NEW t \in Thread, SecondHeartbeat(t) PROVE Fresh'
  <2>1. thread'[t] = [thread[t] EXCEPT !.pc = "second", !.answer = {}, !.at = 0]
        /\ \A u \in Thread : u # t => thread'[u] = thread[u]
    BY <1>0, <1>6 DEF SecondHeartbeat
  <2>2. thread'[t].pc = "second" /\ thread'[t].since = thread[t].since
    BY <1>0, <2>1 DEF ThreadState
  <2> QED BY <1>5, <1>6, <2>1, <2>2, Zenon DEF SecondHeartbeat, serverVars, Control
<1>7. ASSUME NEW c \in Caller, NEW s \in Shard, GetShardProcess(c, s) PROVE Fresh'
  BY <1>0, <1>5, <1>7 DEF GetShardProcess, Idle, serverVars, Control
<1>8. CASE HeartbeatTimer
  BY <1>0, <1>5, <1>8 DEF HeartbeatTimer, Idle, serverVars, Control
<1>9. CASE UNCHANGED thread /\ UNCHANGED flight /\ changes' >= changes
  BY <1>1, <1>9
<1>10. ASSUME NEW t \in Thread, UpdateStep(t) PROVE Fresh'
  <2>0. UNCHANGED <<flight, changes>> /\ \A u \in Thread : u # t => thread'[u] = thread[u]
    BY <1>0, <1>10, Zenon DEF UpdateStep, LockAssignment, StopProcessor, StartNewShards,
       UnlockAssignment, LoadToStop, AddProcessor, serverVars
  <2>1. \/ thread'[t] = Idle
        \/ /\ thread'[t].since = thread[t].since /\ thread'[t].at = thread[t].at
           /\ thread'[t].shard = thread[t].shard /\ thread'[t].answer = thread[t].answer
           /\ \/ thread'[t].pc = thread[t].pc
              \/ /\ thread[t].pc \in {"apply", "stop", "add", "lookup"}
                 /\ thread'[t].pc \in {"apply", "stop", "add", "lookup"}
    <3>0. thread[t] \in ThreadState BY <1>0
    <3>1. CASE LockAssignment(t) BY <1>0, <3>0, <3>1 DEF LockAssignment, ThreadState
    <3>2. CASE StopProcessor(t) BY <1>0, <3>0, <3>2 DEF StopProcessor, ThreadState
    <3>3. CASE StartNewShards(t) BY <1>0, <3>0, <3>3 DEF StartNewShards, ThreadState
    <3>4. CASE UnlockAssignment(t) BY <1>0, <3>0, <3>4 DEF UnlockAssignment, ThreadState
    <3>5. ASSUME NEW s \in Shard, LoadToStop(t, s) \/ AddProcessor(t, s)
          PROVE  /\ thread'[t].since = thread[t].since /\ thread'[t].at = thread[t].at
                 /\ thread'[t].shard = thread[t].shard /\ thread'[t].answer = thread[t].answer
                 /\ thread'[t].pc = thread[t].pc
      BY <1>0, <3>0, <3>5 DEF LoadToStop, AddProcessor, ThreadState
    <3> QED BY <1>10, <3>1, <3>2, <3>3, <3>4, <3>5 DEF UpdateStep
  <2> QED BY <1>0, <1>1, <2>0, <2>1
<1>11. CASE StopAll \/ AllStopped \/ waitForUndrain
  <2>0. UNCHANGED <<flight, changes>> /\ \A u \in Thread : u # Loop => thread'[u] = thread[u]
    BY <1>0, <1>11 DEF StopAll, AllStopped, waitForUndrain, serverVars
  <2>1. /\ thread'[Loop].since = thread[Loop].since /\ thread'[Loop].at = thread[Loop].at
        /\ thread'[Loop].shard = thread[Loop].shard /\ thread'[Loop].answer = thread[Loop].answer
        /\ thread'[Loop].pc \in {"idle", "drain", "final", "drained", "exited"}
    BY <1>0, <1>11 DEF StopAll, AllStopped, waitForUndrain, ThreadState
  <2> QED BY <1>0, <1>1, <2>0, <2>1
<1>12. ASSUME NEW c \in Caller, CheckAgain(c) PROVE Fresh'
  BY <1>0, <1>1, <1>12 DEF CheckAgain, serverVars
<1>13. CASE ChangeAssignment BY <1>0, <1>9, <1>13 DEF ChangeAssignment
<1>14. CASE UNCHANGED <<thread, flight, changes>> BY <1>0, <1>9, <1>14
<1> QED
  BY <1>2, <1>3, <1>4, <1>6, <1>7, <1>8, <1>10, <1>11, <1>12, <1>13, <1>14, Zenon
  DEF ClientNext, clientVars, serverVars, ProcessorStep, StartReturns,
      StopReturns, StartFails, SignalDrain, SignalUndrain, Stop

-----------------------------------------------------------------------------
(***************************************************************************)
(* Processors.  The entry of a shard is a live processor of that shard.    *)
(* As long as no Start has failed and nothing was drained or stopped, the  *)
(* converse holds too, since a processor that the holder of the mutex is   *)
(* about to stop is still the entry of its shard.                          *)
(***************************************************************************)
Undisturbed == failures = 0 /\ signal.drains = 0 /\ ~stopC

Live(p) == proc[p].shard \in Shard /\ proc[p].stopping = {} /\ ~proc[p].stopped

Entries ==
  /\ \A p \in Processor : proc[p].shard = Nil => proc[p] = NoProcessor
  /\ \A s \in Tracked : /\ Live(managed[s]) /\ proc[managed[s]].shard = s
                        /\ proc[managed[s]].start # "failed"
  /\ \A t \in Thread : thread[t].held # Nil => proc[thread[t].held].shard \in Shard

Owned ==
  Undisturbed =>
    /\ \A t \in Thread : thread[t].pc \notin {"drain", "final"}
    /\ \A p \in Processor : proc[p].start # "failed" /\ (Live(p) => managed[proc[p].shard] = p)
    /\ \A t \in Thread : thread[t].held # Nil =>
         managed[proc[thread[t].held].shard] = thread[t].held

LEMMA OwnedInit ==
  ASSUME ClientInit
  PROVE  Entries /\ Owned
BY Constants DEF ClientInit, Entries, Owned, Live, Tracked, NoProcessor, Idle

\* Reaping takes away processors that are stopped or failed, and no others.
LEMMA Reaped ==
  ASSUME NEW P \in [Processor -> ProcessorState], NEW p \in Processor
  PROVE  \/ Reap(P)[p] = P[p]
         \/ /\ Reap(P)[p] = NoProcessor
            /\ P[p].stopped \/ P[p].start = "failed"
            /\ \A t \in Thread : thread[t].held # p
BY DEF Reap

\* What a goroutine holds after it looked at an entry, stopped or added a processor.
LEMMA LoadedHold ==
  ASSUME thread \in [Thread -> ThreadState], NEW t \in Thread, NEW s \in Shard, LoadToStop(t, s)
  PROVE  thread'[t].held = Nil \/ (s \in Tracked /\ thread'[t].held = managed[s])
<1>1. \E h : /\ h = Nil \/ (s \in Tracked /\ h = managed[s])
             /\ thread' = [thread EXCEPT ![t].todo = @ \ {s}, ![t].held = h]
  BY Zenon DEF LoadToStop
<1>2. PICK h : /\ h = Nil \/ (s \in Tracked /\ h = managed[s])
               /\ thread' = [thread EXCEPT ![t].todo = @ \ {s}, ![t].held = h]
  BY <1>1, Zenon
<1>3. thread[t] \in ThreadState /\ thread'[t] = [thread[t] EXCEPT !.todo = @ \ {s}, !.held = h]
  BY <1>2
<1>4. thread'[t].held = h BY <1>3 DEF ThreadState
<1> QED BY <1>2, <1>4, Zenon

LEMMA StoppedHold ==
  ASSUME thread \in [Thread -> ThreadState], NEW t \in Thread, StopProcessor(t)
  PROVE  thread'[t].held = Nil /\ \A u \in Thread : u # t => thread'[u] = thread[u]
<1>1. thread' = [thread EXCEPT ![t].held = Nil] BY Zenon DEF StopProcessor
<1>2. thread[t] \in ThreadState /\ thread'[t] = [thread[t] EXCEPT !.held = Nil]
      /\ \A u \in Thread : u # t => thread'[u] = thread[u]
  BY <1>1
<1> QED BY <1>2 DEF ThreadState

LEMMA AddedHold ==
  ASSUME thread \in [Thread -> ThreadState], NEW t \in Thread, NEW s \in Shard, AddProcessor(t, s)
  PROVE  \A u \in Thread : thread'[u].held = thread[u].held
<1>1. thread' = [thread EXCEPT ![t].todo = @ \ {s}] BY Zenon DEF AddProcessor
<1>2. thread[t] \in ThreadState /\ thread'[t] = [thread[t] EXCEPT !.todo = @ \ {s}]
      /\ \A u \in Thread : u # t => thread'[u] = thread[u]
  BY <1>1
<1>3. thread'[t].held = thread[t].held BY <1>2 DEF ThreadState
<1> QED BY <1>2, <1>3, Zenon

\* The actions that touch an entry, a processor, or the hold of a goroutine on one.
LEMMA ProcessorSteps ==
  ASSUME ClientTypeOK, [ClientNext]_clientVars
  PROVE  \/ /\ UNCHANGED <<managed, proc>>
            /\ \A t \in Thread : thread'[t].held \in {Nil, thread[t].held}
         \/ \E t \in Thread, s \in Shard : LoadToStop(t, s) \/ AddProcessor(t, s)
         \/ \E t \in Thread : StopProcessor(t)
         \/ \E p \in Processor : \/ StartReturns(p) \/ StartFails(p)
                                 \/ \E by \in {"stop", "drain", "final"} : StopReturns(p, by)
<1>0. thread \in [Thread -> ThreadState] BY DEF ClientTypeOK
<1>1. CASE UNCHANGED <<managed, proc, thread>> BY <1>1
<1>2. CASE Responds \/ HeartbeatFails
  <2>1. UNCHANGED <<managed, proc>> BY <1>2, Zenon DEF Responds, HeartbeatFails, procVars
  <2>2. ASSUME NEW t \in Thread PROVE thread'[t].held \in {Nil, thread[t].held}
    <3>1. Idle.held = Nil BY DEF Idle
    <3>2. \/ thread'[t] \in {Idle, thread[t]}
          \/ \E pc : thread'[t] = [thread[t] EXCEPT !.pc = pc, !.answer = flight.answer,
                                                    !.at = flight.at]
      BY <1>2, Zenon DEF Responds, HeartbeatFails
    <3>3. thread[t] \in ThreadState BY <1>0
    <3> QED BY <3>1, <3>2, <3>3, Zenon DEF ThreadState
  <2> QED BY <2>1, <2>2
<1>3. ASSUME NEW t \in Thread,
             \/ SecondHeartbeat(t) \/ LockAssignment(t) \/ StartNewShards(t)
             \/ UnlockAssignment(t)
      PROVE  UNCHANGED <<managed, proc>>
             /\ \A u \in Thread : thread'[u].held \in {Nil, thread[u].held}
  BY SMTT(60), <1>0, <1>3
    DEF SecondHeartbeat, LockAssignment, StartNewShards, UnlockAssignment,
     procVars, Idle, ThreadState
<1>4. ASSUME NEW c \in Caller, CheckAgain(c) \/ \E s \in Shard : GetShardProcess(c, s)
      PROVE  UNCHANGED <<managed, proc>>
             /\ \A u \in Thread : thread'[u].held \in {Nil, thread[u].held}
  <2>1. c \in Thread BY DEF Thread
  <2>2. CASE CheckAgain(c) BY <1>0, <2>1, <2>2 DEF CheckAgain, procVars, Idle
  <2>3. ASSUME NEW s \in Shard, GetShardProcess(c, s)
        PROVE  UNCHANGED <<managed, proc>>
               /\ \A u \in Thread : thread'[u].held \in {Nil, thread[u].held}
    BY <1>0, <2>1, <2>3 DEF GetShardProcess, procVars, Idle
  <2> QED BY <1>4, <2>2, <2>3
<1>5. CASE HeartbeatTimer \/ StopAll \/ AllStopped \/ waitForUndrain
  <2>0. thread[Loop] \in ThreadState BY <1>0, Constants
  <2>1. UNCHANGED <<managed, proc>> /\ \A u \in Thread : u # Loop => thread'[u] = thread[u]
    BY <1>0, <1>5 DEF HeartbeatTimer, StopAll, AllStopped, waitForUndrain, procVars
  <2>2. CASE HeartbeatTimer BY <1>0, <2>1, <2>2, Constants DEF HeartbeatTimer, Idle
  <2>3. CASE StopAll \/ AllStopped \/ waitForUndrain
    <3>1. thread'[Loop].held = thread[Loop].held
      BY <1>0, <2>0, <2>3, Constants DEF StopAll, AllStopped, waitForUndrain, ThreadState
    <3> QED BY <2>1, <3>1
  <2> QED BY <1>5, <2>2, <2>3
<1> QED
  BY <1>1, <1>2, <1>3, <1>4, <1>5
  DEF ClientNext, UpdateStep, ProcessorStep, clientVars, procVars, ChangeAssignment,
      ServerReads, SignalDrain, SignalUndrain, Stop

LEMMA EntriesNext ==
  ASSUME ClientTypeOK, Control, Entries, [ClientNext]_clientVars
  PROVE  Entries'
<1>0. /\ proc \in [Processor -> ProcessorState] /\ managed \in [Shard -> Processor \cup {Nil}]
      /\ thread \in [Thread -> ThreadState] /\ thread' \in [Thread -> ThreadState]
      /\ \A t \in Thread : thread[t].held \in Processor \cup {Nil}
      /\ Nil \notin Processor /\ Nil \notin Shard
      /\ proc' \in [Processor -> ProcessorState] /\ managed' \in [Shard -> Processor \cup {Nil}]
  BY Constants, ClientTypeNext DEF ClientTypeOK, ThreadState
<1>1. CASE /\ UNCHANGED <<managed, proc>>
           /\ \A t \in Thread : thread'[t].held \in {Nil, thread[t].held}
  BY <1>0, <1>1 DEF Entries, Live, Tracked
<1>2. ASSUME NEW t \in Thread, NEW s \in Shard, LoadToStop(t, s) PROVE Entries'
  <2>1. UNCHANGED <<managed, proc>> BY <1>2 DEF LoadToStop, procVars
  <2>2. \A u \in Thread : u # t => thread'[u] = thread[u] BY <1>0, <1>2 DEF LoadToStop
  <2>3. thread'[t].held = Nil \/ (s \in Tracked /\ thread'[t].held = managed[s])
    BY <1>0, <1>2, LoadedHold
  <2>4. s \in Tracked => proc[managed[s]].shard \in Shard BY Zenon DEF Entries, Live
  <2>5. ASSUME NEW u \in Thread, thread'[u].held # Nil PROVE proc'[thread'[u].held].shard \in Shard
    <3>1. CASE u = t BY <2>1, <2>3, <2>4, <2>5, <3>1, Zenon
    <3>2. CASE u # t BY <2>1, <2>2, <2>5, <3>2, Zenon DEF Entries
    <3> QED BY <3>1, <3>2
  <2> QED BY <2>1, <2>5, Zenon DEF Entries, Live, Tracked
<1>3. ASSUME NEW t \in Thread, StopProcessor(t) PROVE Entries'
  <2> DEFINE p == thread[t].held
  <2>1. p \in Processor /\ proc[p].shard \in Shard BY <1>0, <1>3 DEF StopProcessor, Entries
  <2>2. /\ \A q \in Processor : q # p => proc'[q] = proc[q]
        /\ proc'[p] = [proc[p] EXCEPT !.state = "stopping", !.stopping = @ \cup {thread[t].pc}]
        /\ managed' = [managed EXCEPT ![proc[p].shard] = Nil]
    BY <1>0, <1>3, <2>1, Zenon DEF StopProcessor
  <2>3. proc'[p].shard = proc[p].shard BY <1>0, <2>1, <2>2 DEF ProcessorState
  <2>4. \A u \in Thread : thread'[u].held \in {Nil, thread[u].held}
    BY <1>0, <1>3, StoppedHold, Zenon
  <2>5. \A s \in Tracked' : s \in Tracked /\ managed'[s] = managed[s] /\ managed[s] # p
    BY <1>0, <2>1, <2>2 DEF Tracked, Entries
  <2>6. \A q \in Processor : proc'[q].shard = proc[q].shard BY <2>2, <2>3, Zenon
  <2>7. ASSUME NEW q \in Processor, proc'[q].shard = Nil PROVE proc'[q] = NoProcessor
    <3>1. q # p BY <1>0, <2>1, <2>6, <2>7, Zenon
    <3> QED BY <2>2, <2>7, <3>1, Zenon DEF Entries
  <2>8. \A s \in Tracked' : managed'[s] \in Processor /\ proc'[managed'[s]] = proc[managed[s]]
    BY <1>0, <2>2, <2>5 DEF Tracked
  <2>9. \A s \in Tracked' : /\ Live(managed[s])' /\ proc'[managed'[s]].shard = s
                            /\ proc'[managed'[s]].start # "failed"
    BY <2>5, <2>8 DEF Entries, Live
  <2>10. \A u \in Thread : thread'[u].held # Nil => proc'[thread'[u].held].shard \in Shard
    BY <1>0, <2>4, <2>6 DEF Entries
  <2> QED BY <2>7, <2>9, <2>10 DEF Entries, Live
<1>4. ASSUME NEW t \in Thread, NEW s \in Shard, AddProcessor(t, s) PROVE Entries'
  <2>0. \A u \in Thread : thread'[u].held = thread[u].held
    BY <1>0, <1>4, AddedHold
  <2>1. CASE UNCHANGED <<managed, proc>> BY <1>1, <2>0, <2>1
  <2>2. ASSUME NEW p \in Processor, proc[p] = NoProcessor,
               managed' = [managed EXCEPT ![s] = p],
               proc' = [proc EXCEPT ![p].shard = s, ![p].start = "running"]
        PROVE  Entries'
    <3>1. /\ \A q \in Processor : q # p => proc'[q] = proc[q]
          /\ proc'[p] = [NoProcessor EXCEPT !.shard = s, !.start = "running"]
      BY <1>0, <2>2
    <3>2. proc'[p].shard = s /\ proc'[p].stopping = {} /\ ~proc'[p].stopped
          /\ proc'[p].start # "failed"
      BY <3>1 DEF NoProcessor
    <3>3. \A r \in Tracked' : \/ r = s /\ managed'[r] = p
                              \/ r \in Tracked /\ managed'[r] = managed[r] /\ managed[r] # p
      BY <1>0, <2>2 DEF Tracked, Entries, Live, NoProcessor
    <3>4. \A u \in Thread : thread[u].held # p
      BY <1>0, <2>2 DEF Entries, NoProcessor
    <3>5. ASSUME NEW q \in Processor, proc'[q].shard = Nil PROVE proc'[q] = NoProcessor
      <4>1. q # p BY <1>0, <3>2, <3>5, Zenon
      <4> QED BY <3>1, <3>5, <4>1, Zenon DEF Entries
    <3>6. ASSUME NEW r \in Tracked'
          PROVE  /\ Live(managed[r])' /\ proc'[managed'[r]].shard = r
                 /\ proc'[managed'[r]].start # "failed"
      <4>1. CASE r = s /\ managed'[r] = p BY <3>2, <4>1, Zenon DEF Live
      <4>2. CASE r \in Tracked /\ managed'[r] = managed[r] /\ managed[r] # p
        <5>1. managed[r] \in Processor BY <1>0, <4>2 DEF Tracked
        <5>2. proc'[managed'[r]] = proc[managed[r]] BY <3>1, <4>2, <5>1, Zenon
        <5> QED BY <4>2, <5>2, Zenon DEF Entries, Live
      <4> QED BY <3>3, <4>1, <4>2, Zenon
    <3>7. ASSUME NEW u \in Thread, thread'[u].held # Nil
          PROVE  proc'[thread'[u].held].shard \in Shard
      <4>1. thread'[u].held = thread[u].held BY <2>0, Zenon
      <4>2. thread[u].held # Nil /\ thread[u].held \in Processor /\ thread[u].held # p
        BY <1>0, <3>4, <3>7, <4>1, Zenon
      <4>3. proc'[thread[u].held] = proc[thread[u].held] BY <3>1, <4>2, Zenon
      <4>4. proc[thread[u].held].shard \in Shard BY <4>2, Zenon DEF Entries
      <4> QED BY ONLY <4>1, <4>3, <4>4, Zenon
    <3> QED BY <3>5, <3>6, <3>7, Zenon DEF Entries, Live
  <2> QED BY <1>4, <2>1, <2>2, Zenon DEF AddProcessor, procVars
\* A processor changes, and those that are finished are reaped.
<1>5. ASSUME NEW p \in Processor, NEW P \in [Processor -> ProcessorState], proc' = Reap(P),
             \A q \in Processor : q # p => P[q] = proc[q],
             P[p].shard = proc[p].shard, proc[p] # NoProcessor, UNCHANGED thread,
             \A s \in Tracked' : managed'[s] = managed[s] /\ s \in Tracked
                /\ (managed[s] = p => P[p].stopping = {} /\ ~P[p].stopped /\ P[p].start # "failed")
      PROVE  Entries'
  <2>1. \A q \in Processor : \/ proc'[q] = P[q]
                             \/ /\ proc'[q] = NoProcessor
                                /\ P[q].stopped \/ P[q].start = "failed"
                                /\ \A t \in Thread : thread[t].held # q
    BY <1>5, Reaped
  <2>a. \A q \in Processor : P[q].shard = proc[q].shard BY <1>5, Zenon
  <2>2. ASSUME NEW q \in Processor, proc'[q].shard = Nil PROVE proc'[q] = NoProcessor
    <3>1. CASE proc'[q] = P[q]
      <4>1. proc[q] = NoProcessor BY <2>a, <2>2, <3>1, Zenon DEF Entries
      <4> QED BY <1>5, <3>1, <4>1, Zenon
    <3> QED BY <2>1, <3>1, Zenon
  <2>3. ASSUME NEW s \in Tracked'
        PROVE  managed[s] \in Processor /\ proc'[managed[s]] = P[managed[s]]
               /\ P[managed[s]].stopping = {} /\ ~P[managed[s]].stopped
               /\ P[managed[s]].start # "failed"
    <3>1. managed[s] \in Processor BY <1>0, <1>5 DEF Tracked
    <3>2. /\ P[managed[s]].stopping = {} /\ ~P[managed[s]].stopped
          /\ P[managed[s]].start # "failed"
      <4>1. CASE managed[s] = p BY <1>5, <4>1, Zenon
      <4>2. CASE managed[s] # p BY <1>5, <3>1, <4>2, Zenon DEF Entries, Live
      <4> QED BY <4>1, <4>2
    <3> QED BY <2>1, <3>1, <3>2, Zenon
  <2>4. ASSUME NEW s \in Tracked'
        PROVE  /\ Live(managed[s])' /\ proc'[managed'[s]].shard = s
               /\ proc'[managed'[s]].start # "failed"
    <3>1. proc'[managed'[s]] = P[managed[s]] BY <1>5, <2>3, Zenon
    <3>2. P[managed[s]].shard = s /\ s \in Shard BY <1>5, <2>a, <2>3, Zenon
      DEF Entries, Tracked
    <3> QED BY <2>3, <3>1, <3>2, Zenon DEF Live
  <2>5. ASSUME NEW t \in Thread, thread[t].held # Nil PROVE proc'[thread[t].held].shard \in Shard
    <3>1. thread[t].held \in Processor BY <1>0, <2>5, Zenon
    <3>2. proc'[thread[t].held] = P[thread[t].held] BY <2>1, <3>1, Zenon
    <3> QED BY <2>a, <2>5, <3>1, <3>2, Zenon DEF Entries
  <2> QED BY <1>5, <2>2, <2>4, <2>5, Zenon DEF Entries, Live
<1>6. ASSUME NEW p \in Processor, StartReturns(p) PROVE Entries'
  <2> DEFINE P == [proc EXCEPT ![p].start = "returned", ![p].state = "started"]
  <2>0. proc[p] \in ProcessorState /\ proc[p] # NoProcessor
    BY <1>0, <1>6 DEF StartReturns, NoProcessor
  <2>1. /\ P[p] = [proc[p] EXCEPT !.start = "returned", !.state = "started"]
        /\ \A q \in Processor : q # p => P[q] = proc[q]
    BY <1>0
  <2>2. /\ P[p] \in ProcessorState /\ P[p].shard = proc[p].shard
        /\ P[p].stopping = proc[p].stopping /\ P[p].start = "returned"
        /\ ~proc[p].stopped => ~P[p].stopped
    <3>1. [proc[p] EXCEPT !.start = "returned", !.state = "started"] \in ProcessorState
      BY <2>0, Zenon DEF ProcessorState
    <3> HIDE DEF P
    <3>2. /\ P[p].shard = proc[p].shard /\ P[p].stopping = proc[p].stopping
          /\ P[p].start = "returned"
      BY <2>0, <2>1 DEF ProcessorState
    <3>3. ~proc[p].stopped => ~P[p].stopped BY <2>0, <2>1 DEF ProcessorState
    <3> QED BY <2>1, <3>1, <3>2, <3>3
  <2>3. P \in [Processor -> ProcessorState] BY <1>0, <2>1, <2>2
  <2>4. UNCHANGED <<thread, managed>> /\ proc' = Reap(P) BY <1>6 DEF StartReturns
  <2> HIDE DEF P
  <2>5. \A s \in Tracked' : managed'[s] = managed[s] /\ s \in Tracked
          /\ (managed[s] = p => P[p].stopping = {} /\ ~P[p].stopped /\ P[p].start # "failed")
    BY <2>2, <2>4 DEF Tracked, Entries, Live
  <2> QED BY <1>5, <2>0, <2>1, <2>2, <2>3, <2>4, <2>5, Zenon
<1>7. ASSUME NEW p \in Processor, StartFails(p) PROVE Entries'
  <2> DEFINE P == [proc EXCEPT ![p].start = "failed"]
  <2>0. proc[p] \in ProcessorState /\ proc[p] # NoProcessor
    BY <1>0, <1>7 DEF StartFails, NoProcessor
  <2>1. /\ P[p] = [proc[p] EXCEPT !.start = "failed"]
        /\ \A q \in Processor : q # p => P[q] = proc[q]
    BY <1>0
  <2>2. P[p] \in ProcessorState /\ P[p].shard = proc[p].shard
    BY <2>0, <2>1 DEF ProcessorState
  <2>3. P \in [Processor -> ProcessorState] BY <1>0, <2>1, <2>2
  <2>4. /\ UNCHANGED thread /\ proc' = Reap(P)
        /\ managed' = [managed EXCEPT ![proc[p].shard] = Nil]
    BY <1>7 DEF StartFails
  <2> HIDE DEF P
  <2>5. \A s \in Tracked' : managed'[s] = managed[s] /\ s \in Tracked
          /\ (managed[s] = p => P[p].stopping = {} /\ ~P[p].stopped /\ P[p].start # "failed")
    <3>1. ASSUME NEW s \in Tracked' PROVE managed'[s] = managed[s] /\ s \in Tracked /\ managed[s] # p
      <4>1. s \in Shard /\ managed'[s] # Nil BY DEF Tracked
      <4>2. s # proc[p].shard BY <1>0, <2>4, <4>1
      <4>3. managed'[s] = managed[s] BY <1>0, <2>4, <4>1, <4>2
      <4>4. s \in Tracked BY <4>1, <4>3, Zenon DEF Tracked
      <4> QED BY <4>2, <4>3, <4>4, Zenon DEF Entries
    <3> QED BY <3>1, Zenon
  <2> QED BY <1>5, <2>0, <2>1, <2>2, <2>3, <2>4, <2>5, Zenon
<1>8. ASSUME NEW p \in Processor, NEW by, StopReturns(p, by) PROVE Entries'
  <2> DEFINE P == [proc EXCEPT ![p].stopping = @ \ {by}, ![p].stopped = TRUE]
  <2>0. proc[p] \in ProcessorState /\ proc[p] # NoProcessor /\ proc[p].stopping # {}
    BY <1>0, <1>8 DEF StopReturns, NoProcessor
  <2>1. /\ P[p] = [proc[p] EXCEPT !.stopping = @ \ {by}, !.stopped = TRUE]
        /\ \A q \in Processor : q # p => P[q] = proc[q]
    BY <1>0
  <2>2. P[p] \in ProcessorState /\ P[p].shard = proc[p].shard
    <3>1. [proc[p] EXCEPT !.stopping = @ \ {by}, !.stopped = TRUE] \in ProcessorState
      BY <2>0, Zenon DEF ProcessorState
    <3> HIDE DEF P
    <3>2. P[p].shard = proc[p].shard BY <2>0, <2>1 DEF ProcessorState
    <3> QED BY <2>1, <3>1, <3>2
  <2>3. P \in [Processor -> ProcessorState] BY <1>0, <2>1, <2>2
  <2>4. UNCHANGED <<thread, managed>> /\ proc' = Reap(P) BY <1>8 DEF StopReturns
  <2> HIDE DEF P
  <2>5. \A s \in Tracked' : managed'[s] = managed[s] /\ s \in Tracked
          /\ (managed[s] = p => P[p].stopping = {} /\ ~P[p].stopped /\ P[p].start # "failed")
    BY <2>0, <2>4 DEF Tracked, Entries, Live
  <2> QED BY <1>5, <2>0, <2>1, <2>2, <2>3, <2>4, <2>5, Zenon
<1> QED BY <1>1, <1>2, <1>3, <1>4, <1>6, <1>7, <1>8, ProcessorSteps

\* Nothing that disturbs the client is ever undone.
LEMMA UndisturbedBefore ==
  ASSUME ClientTypeOK, [ClientNext]_clientVars, Undisturbed'
  PROVE  Undisturbed
<1>1. failures = 0
  <2>1. failures' = failures \/ failures' = failures + 1
    BY ZenonT(60)
      DEF ClientNext, UpdateStep, ProcessorStep, clientVars, procVars, ChangeAssignment,
       ServerReads, Responds, HeartbeatFails, HeartbeatTimer, StopAll, AllStopped,
       waitForUndrain, SecondHeartbeat, LockAssignment, StopProcessor, StartNewShards,
       UnlockAssignment, LoadToStop, AddProcessor, CheckAgain, GetShardProcess, StartReturns,
       StopReturns, StartFails, SignalDrain, SignalUndrain, Stop
  <2>2. failures \in Nat /\ failures' = 0 BY SMTT(60), Constants
    DEF ClientTypeOK, Undisturbed
  <2> QED BY <2>1, <2>2
<1>2. signal.drains = 0
  <2>1. signal.drains \in Nat /\ signal \in [drains : Nat, undrains : Nat, drainCh : Nat, undrainCh : Nat]
    BY DEF ClientTypeOK
  <2>2. CASE SignalDrain
    <3>1. signal'.drains = signal.drains + 1 BY <2>1, <2>2 DEF SignalDrain
    <3> QED BY <2>1, <3>1 DEF Undisturbed
  <2>3. CASE SignalUndrain \/ AllStopped \/ waitForUndrain \/ UNCHANGED signal
    <3>1. signal'.drains = signal.drains
      BY <2>1, <2>3 DEF SignalUndrain, AllStopped, waitForUndrain
    <3> QED BY <3>1 DEF Undisturbed
  <2> QED
    BY ZenonT(60), <2>2, <2>3
    DEF ClientNext, UpdateStep, ProcessorStep, clientVars, controlVars, ChangeAssignment,
       ServerReads, Responds, HeartbeatFails, HeartbeatTimer, StopAll,
       SecondHeartbeat, LockAssignment, StopProcessor, StartNewShards,
       UnlockAssignment, LoadToStop, AddProcessor, CheckAgain, GetShardProcess, StartReturns,
       StopReturns, StartFails, Stop
<1>3. ~stopC
  <2>1. CASE UNCHANGED stopC BY <2>1 DEF Undisturbed
  <2>2. CASE Stop BY <2>2 DEF Stop
  <2> QED
    BY <2>1, <2>2, Zenon
    DEF ClientNext, UpdateStep, ProcessorStep, clientVars, controlVars, ChangeAssignment,
       ServerReads, Responds, HeartbeatFails, HeartbeatTimer, StopAll, AllStopped,
       waitForUndrain, SecondHeartbeat, LockAssignment, StopProcessor, StartNewShards,
       UnlockAssignment, LoadToStop, AddProcessor, CheckAgain, GetShardProcess, StartReturns,
       StopReturns, StartFails, SignalDrain, SignalUndrain
<1> QED BY <1>1, <1>2, <1>3 DEF Undisturbed

\* Before anything is drained or stopped, no goroutine stops processors without the mutex.
LEMMA NoStopAll ==
  ASSUME ClientTypeOK, [ClientNext]_clientVars, Undisturbed,
         \A t \in Thread : thread[t].pc \notin {"drain", "final"}
  PROVE  \A t \in Thread : thread'[t].pc \notin {"drain", "final"}
<1>0. thread \in [Thread -> ThreadState] /\ Loop \in Thread BY Constants DEF ClientTypeOK
<1>1. CASE UNCHANGED thread BY <1>1
<1>2. CASE Responds \/ HeartbeatFails
  <2> SUFFICES ASSUME NEW t \in Thread PROVE thread'[t].pc \notin {"drain", "final"}
    OBVIOUS
  <2>1. Idle.pc = "idle" BY DEF Idle
  <2>2. \/ thread'[t] \in {Idle, thread[t]}
        \/ \E pc \in {"again", "apply", "lookup"} :
             thread'[t] = [thread[t] EXCEPT !.pc = pc, !.answer = flight.answer, !.at = flight.at]
    BY <1>2, Zenon DEF Responds, HeartbeatFails, Heartbeat
  <2>3. thread[t] \in ThreadState BY <1>0
  <2> QED BY <2>1, <2>2, <2>3, Zenon DEF ThreadState
<1>3. ASSUME NEW t \in Thread, SecondHeartbeat(t) \/ UpdateStep(t)
      PROVE  \A u \in Thread : thread'[u].pc \notin {"drain", "final"}
  <2>0. thread[t] \in ThreadState BY <1>0
  <2>1. \A u \in Thread : u # t => thread'[u] = thread[u]
    BY <1>0, <1>3, Zenon DEF SecondHeartbeat, UpdateStep, LockAssignment, StopProcessor,
       StartNewShards, UnlockAssignment, LoadToStop, AddProcessor
  <2>2. thread'[t].pc \notin {"drain", "final"}
    <3>1. CASE SecondHeartbeat(t) BY <1>0, <2>0, <3>1 DEF SecondHeartbeat, ThreadState
    <3>2. CASE LockAssignment(t) BY <1>0, <2>0, <3>2 DEF LockAssignment, ThreadState
    <3>3. CASE StopProcessor(t) BY <1>0, <2>0, <3>3 DEF StopProcessor, ThreadState
    <3>4. CASE StartNewShards(t) BY <1>0, <2>0, <3>4 DEF StartNewShards, ThreadState
    <3>5. CASE UnlockAssignment(t) BY <1>0, <2>0, <3>5
      DEF UnlockAssignment, ThreadState, Idle
    <3>6. ASSUME NEW s \in Shard, LoadToStop(t, s) \/ AddProcessor(t, s)
          PROVE  thread'[t].pc = thread[t].pc
      BY SMTT(60), <1>0, <2>0, <3>6 DEF LoadToStop, AddProcessor, ThreadState
    <3> QED BY <1>3, <3>1, <3>2, <3>3, <3>4, <3>5, <3>6 DEF UpdateStep
  <2> QED BY <2>1, <2>2
<1>4. ASSUME NEW c \in Caller, CheckAgain(c) \/ \E s \in Shard : GetShardProcess(c, s)
      PROVE  \A u \in Thread : thread'[u].pc \notin {"drain", "final"}
  <2>1. c \in Thread BY DEF Thread
  <2>2. CASE CheckAgain(c) BY <1>0, <2>1, <2>2 DEF CheckAgain, Idle
  <2>3. ASSUME NEW s \in Shard, GetShardProcess(c, s)
        PROVE  \A u \in Thread : thread'[u].pc \notin {"drain", "final"}
    BY <1>0, <2>1, <2>3 DEF GetShardProcess, Idle
  <2> QED BY <1>4, <2>2, <2>3
<1>5. CASE HeartbeatTimer BY <1>0, <1>5 DEF HeartbeatTimer, Idle
<1>6. ~StopAll
  <2>1. signal.drains = 0 /\ signal.drainCh \in Nat BY DEF Undisturbed, ClientTypeOK
  <2>2. ~(signal.drains > signal.drainCh) BY <2>1
  <2>3. ~stopC BY DEF Undisturbed
  <2> QED BY <2>2, <2>3 DEF StopAll
<1>7. CASE AllStopped \/ waitForUndrain
  <2>1. PICK pc \in {"exited", "drained", "idle"} : thread' = [thread EXCEPT ![Loop].pc = pc]
    BY <1>7 DEF AllStopped, waitForUndrain
  <2> QED BY <1>0, <2>1 DEF ThreadState
<1> QED
  BY <1>1, <1>2, <1>3, <1>4, <1>5, <1>6, <1>7, Zenon
  DEF ClientNext, clientVars, ChangeAssignment, ServerReads, ProcessorStep, StartReturns,
      StopReturns, StartFails, SignalDrain, SignalUndrain, Stop

LEMMA OwnedNext ==
  ASSUME ClientTypeOK, Control, Entries, Owned, [ClientNext]_clientVars
  PROVE  Owned'
<1> SUFFICES ASSUME Undisturbed' PROVE Owned' BY DEF Owned
<1>0. /\ proc \in [Processor -> ProcessorState] /\ managed \in [Shard -> Processor \cup {Nil}]
      /\ thread \in [Thread -> ThreadState] /\ thread' \in [Thread -> ThreadState]
      /\ \A t \in Thread : thread[t].held \in Processor \cup {Nil}
      /\ Nil \notin Processor /\ Nil \notin Shard /\ Nil \notin Thread
      /\ proc' \in [Processor -> ProcessorState] /\ managed' \in [Shard -> Processor \cup {Nil}]
  BY Constants, ClientTypeNext DEF ClientTypeOK, ThreadState
<1>1. Undisturbed BY UndisturbedBefore
<1>2. /\ \A t \in Thread : thread[t].pc \notin {"drain", "final"}
      /\ \A p \in Processor : proc[p].start # "failed" /\ (Live(p) => managed[proc[p].shard] = p)
      /\ \A t \in Thread : thread[t].held # Nil =>
           managed[proc[thread[t].held].shard] = thread[t].held
  BY <1>1 DEF Owned
<1>3. \A t \in Thread : thread'[t].pc \notin {"drain", "final"} BY <1>1, <1>2, NoStopAll
<1>4. \A t \in Thread : thread[t].held # Nil => mutex = t /\ thread[t].pc = "stop"
  BY <1>2 DEF Control
<1>5. /\ \A p \in Processor : proc'[p].start # "failed" /\ (Live(p)' => managed'[proc'[p].shard] = p)
      /\ \A t \in Thread : thread'[t].held # Nil =>
           managed'[proc'[thread'[t].held].shard] = thread'[t].held
  <2> DEFINE Goal ==
        /\ \A p \in Processor : proc'[p].start # "failed" /\ (Live(p)' => managed'[proc'[p].shard] = p)
        /\ \A t \in Thread : thread'[t].held # Nil =>
             managed'[proc'[thread'[t].held].shard] = thread'[t].held
  <2>1. CASE /\ UNCHANGED <<managed, proc>>
             /\ \A t \in Thread : thread'[t].held \in {Nil, thread[t].held}
    BY <1>2, <2>1 DEF Live
  <2>2. ASSUME NEW t \in Thread, NEW s \in Shard, LoadToStop(t, s) PROVE Goal
    <3>1. UNCHANGED <<managed, proc>> BY <2>2 DEF LoadToStop, procVars
    <3>2. \A u \in Thread : u # t => thread'[u] = thread[u] BY <1>0, <2>2 DEF LoadToStop
    <3>3. thread'[t].held = Nil \/ (s \in Tracked /\ thread'[t].held = managed[s])
      BY <1>0, <2>2, LoadedHold
    <3>4. s \in Tracked => proc[managed[s]].shard = s BY DEF Entries
    <3>5. ASSUME NEW u \in Thread, thread'[u].held # Nil
          PROVE  managed'[proc'[thread'[u].held].shard] = thread'[u].held
      <4>1. CASE u = t BY <3>1, <3>3, <3>4, <3>5, <4>1, Zenon
      <4>2. CASE u # t BY <1>2, <3>1, <3>2, <3>5, <4>2, Zenon
      <4> QED BY <4>1, <4>2
    <3> QED BY <1>2, <3>1, <3>5, Zenon DEF Live
  <2>3. ASSUME NEW t \in Thread, StopProcessor(t) PROVE Goal
    <3> DEFINE p == thread[t].held
    <3>1. p \in Processor /\ proc[p].shard \in Shard BY <1>0, <2>3
      DEF StopProcessor, Entries
    <3>2. /\ \A q \in Processor : q # p => proc'[q] = proc[q]
          /\ proc'[p] = [proc[p] EXCEPT !.state = "stopping", !.stopping = @ \cup {thread[t].pc}]
          /\ managed' = [managed EXCEPT ![proc[p].shard] = Nil]
      BY <1>0, <2>3, <3>1, Zenon DEF StopProcessor
    <3>3. proc'[p].stopping # {} /\ proc'[p].start = proc[p].start
      <4>1. proc[p] \in ProcessorState BY <1>0, <3>1
      <4>2. proc'[p].stopping = proc[p].stopping \cup {thread[t].pc}
            /\ proc'[p].start = proc[p].start
        BY <3>2, <4>1 DEF ProcessorState
      <4> QED BY <4>2
    <3>4. \A u \in Thread : thread'[u].held = Nil
      <4>1. thread'[t].held = Nil BY <1>0, <2>3, StoppedHold
      <4>2. \A u \in Thread : u # t => thread'[u] = thread[u] BY <1>0, <2>3, StoppedHold
      <4>3. \A u \in Thread : u # t => thread[u].held = Nil BY <1>0, <1>4, <3>1
      <4> QED BY <4>1, <4>2, <4>3
    <3>5. managed[proc[p].shard] = p BY <1>0, <1>2, <3>1
    <3>6. ASSUME NEW q \in Processor, Live(q)' PROVE managed'[proc'[q].shard] = q
      <4>1. q # p BY <3>3, <3>6 DEF Live
      <4>2. proc'[q] = proc[q] /\ Live(q) BY <3>2, <3>6, <4>1 DEF Live
      <4>3. managed[proc[q].shard] = q BY <1>2, <4>2
      <4>4. proc[q].shard # proc[p].shard BY <3>5, <4>1, <4>3
      <4> QED BY <1>0, <3>2, <4>2, <4>3, <4>4 DEF Live
    <3>7. \A q \in Processor : proc'[q].start # "failed" BY ZenonT(60), <1>2, <3>2, <3>3
    <3> QED BY <3>4, <3>6, <3>7
  <2>4. ASSUME NEW t \in Thread, NEW s \in Shard, AddProcessor(t, s) PROVE Goal
    <3>0. \A u \in Thread : thread'[u].held = thread[u].held
      BY <1>0, <2>4, AddedHold
    <3>1. CASE UNCHANGED <<managed, proc>> BY <2>1, <3>0, <3>1
    <3>2. ASSUME NEW p \in Processor, proc[p] = NoProcessor, s \notin Tracked,
                 managed' = [managed EXCEPT ![s] = p],
                 proc' = [proc EXCEPT ![p].shard = s, ![p].start = "running"]
          PROVE  Goal
      <4>1. /\ \A q \in Processor : q # p => proc'[q] = proc[q]
            /\ proc'[p] = [NoProcessor EXCEPT !.shard = s, !.start = "running"]
        BY <1>0, <3>2
      <4>2. proc'[p].shard = s /\ proc'[p].start # "failed" BY <4>1 DEF NoProcessor
      <4>3. \A u \in Thread : thread'[u].held = Nil
        <5>1. mutex = t /\ thread[t].pc = "add" BY <2>4 DEF AddProcessor, Control
        <5> QED BY <1>4, <3>0, <5>1
      <4>4. ASSUME NEW q \in Processor, Live(q)', q # p PROVE managed'[proc'[q].shard] = q
        <5>1. proc'[q] = proc[q] /\ Live(q) BY <4>1, <4>4 DEF Live
        <5>2. managed[proc[q].shard] = q BY <1>2, <5>1
        <5>3. proc[q].shard # s BY <1>0, <3>2, <5>2 DEF Tracked
        <5> QED BY <1>0, <3>2, <5>1, <5>2, <5>3 DEF Live
      <4>5. managed'[proc'[p].shard] = p BY <1>0, <3>2, <4>2
      <4>6. \A q \in Processor : proc'[q].start # "failed" BY <1>2, <4>1, <4>2, Zenon
      <4> QED BY <4>3, <4>4, <4>5, <4>6
    <3> QED BY <2>4, <3>1, <3>2, Zenon DEF AddProcessor, procVars
  \* The end of a Start or a Stop call.
  <2>5. ASSUME NEW p \in Processor, NEW P \in [Processor -> ProcessorState], proc' = Reap(P),
               \A q \in Processor : q # p => P[q] = proc[q],
               P[p].shard = proc[p].shard, P[p].start # "failed",
               (P[p].stopping = {} /\ ~P[p].stopped) => (proc[p].stopping = {} /\ ~proc[p].stopped),
               UNCHANGED <<thread, managed>>
        PROVE  Goal
    <3>1. \A q \in Processor : \/ proc'[q] = P[q]
                               \/ /\ proc'[q] = NoProcessor
                                  /\ \A t \in Thread : thread[t].held # q
      BY <2>5, Reaped
    <3>2. \A q \in Processor : P[q].shard = proc[q].shard /\ P[q].start # "failed" BY <1>2, <2>5
    <3>3. NoProcessor.shard = Nil /\ NoProcessor.start # "failed" BY DEF NoProcessor
    <3>4. \A q \in Processor : proc'[q].start # "failed" BY <3>1, <3>2, <3>3
    <3>5. ASSUME NEW q \in Processor, Live(q)' PROVE managed'[proc'[q].shard] = q
      <4>1. proc'[q] = P[q] BY <1>0, <3>1, <3>3, <3>5 DEF Live
      <4>2. Live(q) BY <2>5, <3>2, <3>5, <4>1 DEF Live
      <4> QED BY <1>2, <2>5, <3>2, <4>1, <4>2
    <3>6. ASSUME NEW t \in Thread, thread'[t].held # Nil
          PROVE  managed'[proc'[thread'[t].held].shard] = thread'[t].held
      <4>1. thread[t].held \in Processor /\ thread'[t].held = thread[t].held BY <1>0, <2>5, <3>6
      <4>2. proc'[thread[t].held].shard = proc[thread[t].held].shard BY <3>1, <3>2, <4>1
      <4> QED BY <1>2, <2>5, <3>6, <4>1, <4>2
    <3> QED BY <3>4, <3>5, <3>6
  <2>6. ASSUME NEW p \in Processor, StartReturns(p) PROVE Goal
    <3> DEFINE P == [proc EXCEPT ![p].start = "returned", ![p].state = "started"]
    <3>0. proc[p] \in ProcessorState BY <1>0
    <3>1. /\ P[p] = [proc[p] EXCEPT !.start = "returned", !.state = "started"]
          /\ \A q \in Processor : q # p => P[q] = proc[q]
      BY <1>0
    <3>2. [proc[p] EXCEPT !.start = "returned", !.state = "started"] \in ProcessorState
      BY <3>0, Zenon DEF ProcessorState
    <3>3. P \in [Processor -> ProcessorState] BY <1>0, <3>1, <3>2
    <3>4. UNCHANGED <<thread, managed>> /\ proc' = Reap(P) BY <2>6 DEF StartReturns
    <3> HIDE DEF P
    <3>5. P[p].shard = proc[p].shard /\ P[p].stopping = proc[p].stopping /\ P[p].start # "failed"
      BY <3>0, <3>1 DEF ProcessorState
    <3>6. ~P[p].stopped => ~proc[p].stopped BY <3>0, <3>1 DEF ProcessorState
    <3>7. (P[p].stopping = {} /\ ~P[p].stopped) => (proc[p].stopping = {} /\ ~proc[p].stopped)
      BY <3>5, <3>6
    <3> HIDE DEF Goal
    <3> QED BY <2>5, <3>1, <3>3, <3>4, <3>5, <3>7, Zenon
  <2>7. ASSUME NEW p \in Processor, NEW by, StopReturns(p, by) PROVE Goal
    <3> DEFINE P == [proc EXCEPT ![p].stopping = @ \ {by}, ![p].stopped = TRUE]
    <3>0. proc[p] \in ProcessorState BY <1>0
    <3>1. /\ P[p] = [proc[p] EXCEPT !.stopping = @ \ {by}, !.stopped = TRUE]
          /\ \A q \in Processor : q # p => P[q] = proc[q]
      BY <1>0
    <3>2. [proc[p] EXCEPT !.stopping = @ \ {by}, !.stopped = TRUE] \in ProcessorState
      BY <3>0, Zenon DEF ProcessorState
    <3>3. P \in [Processor -> ProcessorState] BY <1>0, <3>1, <3>2
    <3>4. UNCHANGED <<thread, managed>> /\ proc' = Reap(P) BY <2>7 DEF StopReturns
    <3> HIDE DEF P
    <3>5. P[p].shard = proc[p].shard /\ P[p].start = proc[p].start
      BY <3>0, <3>1 DEF ProcessorState
    <3>6. P[p].stopped BY <3>0, <3>1 DEF ProcessorState
    <3>7. P[p].start # "failed" BY <1>2, <3>5
    <3>8. (P[p].stopping = {} /\ ~P[p].stopped) => (proc[p].stopping = {} /\ ~proc[p].stopped)
      BY <3>6
    <3> HIDE DEF Goal
    <3> QED BY <2>5, <3>1, <3>3, <3>4, <3>5, <3>7, <3>8, Zenon
  <2>8. ASSUME NEW p \in Processor PROVE ~StartFails(p)
    <3>1. failures \in Nat /\ failures' = 0 BY Constants DEF ClientTypeOK, Undisturbed
    <3> QED BY <3>1 DEF StartFails
  <2> HIDE DEF Goal
  <2>9. Goal BY <2>2, <2>3, <2>4, <2>6, <2>7, <2>8, <2>1, ProcessorSteps, Zenon DEF Goal
  <2> QED BY <2>9 DEF Goal
<1> QED BY <1>3, <1>5 DEF Owned, Live

-----------------------------------------------------------------------------
(***************************************************************************)
(* The theorems.                                                           *)
(***************************************************************************)
ClientInv == ClientTypeOK /\ Control /\ Fresh /\ Entries /\ Owned

LEMMA ClientInvariant == ClientSpec => []ClientInv
<1>1. ClientInit => ClientInv
  <2> SUFFICES ASSUME ClientInit PROVE ClientInv OBVIOUS
  <2>0. IsFiniteSet({}) BY FS_EmptySet
  <2>1. ClientTypeOK
    <3>1. FALSE \in BOOLEAN OBVIOUS
    <3>2. stopC \in BOOLEAN BY <3>1, Zenon DEF ClientInit
    <3> QED BY SMTT(60), <3>2, Constants, IdleTyped DEF ClientInit, ClientTypeOK
  <2>2. Control BY Constants DEF ClientInit, Control, NoFlight, Idle
  <2>3. Fresh
    <3>1. flight.members = {} /\ flight.stage = "none" /\ changes = 0 BY
      DEF ClientInit, NoFlight
    <3>2. \A t \in Thread : thread[t] = Idle BY DEF ClientInit
    <3>3. Idle.pc = "idle" /\ Idle.since = 0 BY DEF Idle
    <3>4. 0 <= 0 OBVIOUS
    <3>5. FreshHeartbeat BY ONLY <3>2, <3>3 DEF FreshHeartbeat
    <3>6. IsFiniteSet(flight.members) BY <2>0, <3>1, Zenon
    <3>7. ASSUME NEW t \in Thread PROVE thread[t].since <= changes BY <3>1, <3>2, <3>3, <3>4, Zenon
    <3> QED BY <3>1, <3>5, <3>6, <3>7, Zenon DEF Fresh
  <2> QED BY <2>1, <2>2, <2>3, OwnedInit DEF ClientInv
<1>2. ClientInv /\ [ClientNext]_clientVars => ClientInv'
  BY ClientTypeNext, ControlNext, FreshNext, EntriesNext, OwnedNext DEF ClientInv
<1> QED BY <1>1, <1>2, PTL DEF ClientSpec

\* Every state is of the declared type, and the holder of assignmentMutex is inside
\* updateShardAssignment.
THEOREM ClientTypeCorrect == ClientSpec => []ClientTypeOK
<1>1. ClientInv => ClientTypeOK BY DEF ClientInv
<1> QED BY <1>1, ClientInvariant, PTL

\* However many goroutines share a heartbeat, the answer that Heartbeat returns to one of
\* them holds its shard or was read by the server after the goroutine asked.
THEOREM HeartbeatsAreFresh == ClientSpec => []FreshHeartbeat
<1>1. ClientInv => FreshHeartbeat BY DEF ClientInv, Fresh
<1> QED BY <1>1, ClientInvariant, PTL

\* As long as no Start has failed and nothing was drained or stopped, a running processor
\* that was not told to stop is the entry of its shard, whichever goroutines apply which
\* answers in which order.
THEOREM NoProcessorIsOrphaned == ClientSpec => []NoOrphan
<1>1. ClientInv => NoOrphan
  <2> SUFFICES ASSUME ClientInv, Undisturbed, NEW p \in Processor,
                      proc[p] # NoProcessor, proc[p].stopping = {}, ~proc[p].stopped
               PROVE  managed[proc[p].shard] = p
    BY DEF NoOrphan, Undisturbed
  <2>0. proc[p] \in ProcessorState BY DEF ClientInv, ClientTypeOK
  <2>a. proc[p].shard # Nil BY Zenon DEF ClientInv, Entries
  <2>1. proc[p].shard \in Shard BY <2>0, <2>a DEF ProcessorState
  <2>2. Live(p) BY <2>1 DEF Live
  <2> QED BY <2>2 DEF ClientInv, Owned
<1> QED BY <1>1, ClientInvariant, PTL

=============================================================================
