--------------------------- MODULE ExecutorClient ---------------------------
(***************************************************************************)
(* The executor client that an application embeds to run shards            *)
(* (client/executorclient and its heartbeat manager).                      *)
(*                                                                         *)
(* Two kinds of goroutine heartbeat: the heartbeat loop, and every         *)
(* GetShardProcess call that does not find its shard.  They share one RPC  *)
(* through singleflight, and each then applies the answer it got under     *)
(* assignmentMutex.  Processors are started and stopped in goroutines of   *)
(* their own, and a drain or Stop stops them without the mutex.            *)
(*                                                                         *)
(* The server is external: the set of shards it has assigned to this       *)
(* executor, which changes at any time, and which a heartbeat's handler    *)
(* reads at some moment between the request and the response.              *)
(***************************************************************************)
EXTENDS Integers, FiniteSets

CONSTANTS
    Shard,          \* shard keys
    Caller,         \* goroutines that call GetShardProcess
    Loop,           \* the goroutine of heartbeatloop
    Nil,            \* no shard, no processor, no goroutine
    Processor,      \* bound: processors that exist at the same time
    MaxChanges,     \* bound: changes of the assignment by the server
    MaxFailures,    \* bound: processors that cannot be created or started
    MaxDrains,      \* bound: drain signals
    CanStop         \* whether the application calls Stop

ASSUME ClientAssumption ==
    /\ {MaxChanges, MaxFailures, MaxDrains} \subseteq Nat
    /\ Processor \subseteq Nat
    /\ CanStop \in BOOLEAN
    /\ Loop \notin Caller
    /\ Nil \notin Shard \cup Caller \cup {Loop} \cup Processor

Thread == Caller \cup {Loop}

VARIABLES
    assigned,   \* server: the READY shards of this executor
    changes,    \* server: how often it has changed them
    flight,     \* the heartbeat in flight, and the goroutines that wait for it
    thread,     \* where each goroutine is, and the answer it holds
    mutex,      \* holder of assignmentMutex
    managed,    \* managedProcessors: shard |-> processor
    proc,       \* the processors: their shard, state, and Start and Stop calls
    failures,
    signal,     \* drain observer: signals so far, and the ones the loop waits for
    stopC       \* whether stopC is closed

serverVars == <<assigned, changes>>
procVars == <<managed, proc, failures>>
controlVars == <<signal, stopC>>
clientVars == <<serverVars, flight, thread, mutex, procVars, controlVars>>

NoFlight == [stage |-> "none", members |-> {}, answer |-> {}, at |-> 0]
Idle == [pc |-> "idle", shard |-> Nil, since |-> 0, answer |-> {}, at |-> 0,
         todo |-> {}, held |-> Nil]
NoProcessor == [shard |-> Nil, state |-> "starting", start |-> "none",
                stopping |-> {}, stopped |-> FALSE]

Tracked == {s \in Shard : managed[s] # Nil}

\* A processor is gone when no goroutine runs it or refers to it any more.
Reap(P) ==
    [p \in Processor |->
        IF /\ P[p].start # "running" /\ P[p].stopping = {}
           /\ P[p].stopped \/ P[p].start = "failed"
           /\ \A t \in Thread : thread[t].held # p
        THEN NoProcessor ELSE P[p]]

ClientInit ==
    /\ assigned = {} /\ changes = 0
    /\ flight = NoFlight
    /\ thread = [t \in Thread |-> Idle]
    /\ mutex = Nil
    /\ managed = [s \in Shard |-> Nil]
    /\ proc = [p \in Processor |-> NoProcessor]
    /\ failures = 0
    /\ signal = [drains |-> 0, undrains |-> 0, drainCh |-> 0, undrainCh |-> 0]
    /\ stopC = FALSE
-----------------------------------------------------------------------------
(***************************************************************************)
(* The server.                                                             *)
(***************************************************************************)
ChangeAssignment ==
    /\ changes < MaxChanges
    /\ assigned' \in SUBSET Shard \ {assigned}
    /\ changes' = changes + 1
    /\ UNCHANGED <<flight, thread, mutex, procVars, controlVars>>

ServerReads ==
    /\ flight.stage = "sent"
    /\ flight' = [flight EXCEPT !.stage = "read", !.answer = assigned, !.at = changes]
    /\ UNCHANGED <<serverVars, thread, mutex, procVars, controlVars>>
-----------------------------------------------------------------------------
(***************************************************************************)
(* The heartbeat manager.  doHeartbeat joins the RPC in flight or sends    *)
(* one.  When it returns, every goroutine that waited gets the answer, and *)
(* it is shared when there was more than one.                              *)
(***************************************************************************)
doHeartbeat(t) ==
    flight' = IF flight.stage = "none"
              THEN [NoFlight EXCEPT !.stage = "sent", !.members = {t}]
              ELSE [flight EXCEPT !.members = @ \cup {t}]

\* Heartbeat that takes any answer.
HeartbeatOnce(t, answer, shared) ==
    IF answer # {} THEN "apply" ELSE IF t = Loop THEN "idle" ELSE "lookup"

\* A goroutine that shared an RPC and does not find its shard in the answer
\* sends another one.  An answer without shards is decoded as a nil map, and
\* heartbeatAndUpdateAssignment does not apply a nil map.
Heartbeat(t, answer, shared) ==
    IF thread[t].pc = "first" /\ shared /\ thread[t].shard \notin answer THEN "again"
    ELSE IF answer # {} THEN "apply"
    ELSE IF t = Loop THEN "idle" ELSE "lookup"

Responds ==
    /\ flight.stage = "read"
    /\ thread' = [t \in Thread |->
          IF t \in flight.members
          THEN LET pc == Heartbeat(t, flight.answer, Cardinality(flight.members) > 1)
               IN IF pc = "idle" THEN Idle
                  ELSE [thread[t] EXCEPT !.pc = pc, !.answer = flight.answer,
                                         !.at = flight.at]
          ELSE thread[t]]
    /\ flight' = NoFlight
    /\ UNCHANGED <<serverVars, mutex, procVars, controlVars>>

\* The RPC fails or its own deadline passes, before or after the server read.
HeartbeatFails ==
    /\ flight.stage \in {"sent", "read"}
    /\ thread' = [t \in Thread |-> IF t \in flight.members THEN Idle ELSE thread[t]]
    /\ flight' = NoFlight
    /\ UNCHANGED <<serverVars, mutex, procVars, controlVars>>

SecondHeartbeat(t) ==
    /\ thread[t].pc = "again"
    /\ doHeartbeat(t)
    /\ thread' = [thread EXCEPT ![t].pc = "second", ![t].answer = {}, ![t].at = 0]
    /\ UNCHANGED <<serverVars, mutex, procVars, controlVars>>
-----------------------------------------------------------------------------
(***************************************************************************)
(* What makes a goroutine heartbeat: a GetShardProcess call that does not  *)
(* find its shard (one that does returns at once), and the timer of the    *)
(* loop.                                                                   *)
(***************************************************************************)
GetShardProcess(c, s) ==
    /\ thread[c].pc = "idle"
    /\ managed[s] = Nil
    /\ doHeartbeat(c)
    /\ thread' = [thread EXCEPT ![c] =
                    [Idle EXCEPT !.pc = "first", !.shard = s, !.since = changes]]
    /\ UNCHANGED <<serverVars, mutex, procVars, controlVars>>

\* It returns the processor of the entry, or ErrShardProcessNotFound.
CheckAgain(c) ==
    /\ thread[c].pc = "lookup"
    /\ thread' = [thread EXCEPT ![c] = Idle]
    /\ UNCHANGED <<serverVars, flight, mutex, procVars, controlVars>>

HeartbeatTimer ==
    /\ thread[Loop].pc = "idle"
    /\ doHeartbeat(Loop)
    /\ thread' = [thread EXCEPT ![Loop] = [Idle EXCEPT !.pc = "first", !.since = changes]]
    /\ UNCHANGED <<serverVars, mutex, procVars, controlVars>>
-----------------------------------------------------------------------------
(***************************************************************************)
(* updateShardAssignment, under assignmentMutex: first stop what is no     *)
(* longer assigned, then start what is not there yet.                      *)
(***************************************************************************)
\* LockAssignment without the mutex.
LockAssignmentNever(t) ==
    /\ thread[t].pc = "apply"
    /\ thread' = [thread EXCEPT ![t].pc = "stop", ![t].todo = Tracked \ thread[t].answer]
    /\ UNCHANGED <<serverVars, flight, mutex, procVars, controlVars>>

LockAssignment(t) ==
    /\ thread[t].pc = "apply"
    /\ mutex = Nil
    /\ mutex' = t
    /\ thread' = [thread EXCEPT ![t].pc = "stop", ![t].todo = Tracked \ thread[t].answer]
    /\ UNCHANGED <<serverVars, flight, procVars, controlVars>>

\* stopManagerProcessor looks at the entry of the shard,
LoadToStop(t, s) ==
    /\ thread[t].pc \in {"stop", "drain", "final"}
    /\ thread[t].held = Nil
    /\ s \in thread[t].todo
    /\ thread' = [thread EXCEPT ![t].todo = @ \ {s},
                    ![t].held = IF s \in Tracked /\ proc[managed[s]].state # "stopping"
                                THEN managed[s] ELSE Nil]
    /\ UNCHANGED <<serverVars, flight, mutex, procVars, controlVars>>

\* and then marks the processor, deletes whatever entry its shard has by now,
\* and calls Stop in a goroutine.
StopProcessor(t) ==
    LET p == thread[t].held IN
    /\ p # Nil
    /\ proc' = [proc EXCEPT ![p].state = "stopping", ![p].stopping = @ \cup {thread[t].pc}]
    /\ managed' = [managed EXCEPT ![proc[p].shard] = Nil]
    /\ thread' = [thread EXCEPT ![t].held = Nil]
    /\ UNCHANGED <<serverVars, flight, mutex, failures, controlVars>>

StartNewShards(t) ==
    /\ thread[t].pc = "stop" /\ thread[t].todo = {} /\ thread[t].held = Nil
    /\ thread' = [thread EXCEPT ![t].pc = "add", ![t].todo = thread[t].answer]
    /\ UNCHANGED <<serverVars, flight, mutex, procVars, controlVars>>

\* addManagerProcessor creates and stores a processor unless there is one, and
\* calls its Start in a goroutine.  The factory may fail.
AddProcessor(t, s) ==
    /\ thread[t].pc = "add"
    /\ s \in thread[t].todo
    /\ thread' = [thread EXCEPT ![t].todo = @ \ {s}]
    /\ \/ s \in Tracked /\ UNCHANGED procVars
       \/ /\ s \notin Tracked /\ failures < MaxFailures
          /\ failures' = failures + 1
          /\ UNCHANGED <<managed, proc>>
       \/ /\ s \notin Tracked
          /\ \E p \in Processor :
                /\ proc[p] = NoProcessor
                /\ \A q \in Processor : q < p => proc[q] # NoProcessor
                /\ managed' = [managed EXCEPT ![s] = p]
                /\ proc' = [proc EXCEPT ![p].shard = s, ![p].start = "running"]
          /\ UNCHANGED failures
    /\ UNCHANGED <<serverVars, flight, mutex, controlVars>>

UnlockAssignment(t) ==
    /\ thread[t].pc = "add" /\ thread[t].todo = {}
    /\ mutex' = Nil
    /\ thread' = [thread EXCEPT ![t] = IF t = Loop THEN Idle ELSE [@ EXCEPT !.pc = "lookup"]]
    /\ UNCHANGED <<serverVars, flight, procVars, controlVars>>
-----------------------------------------------------------------------------
(***************************************************************************)
(* The goroutines of a processor.                                          *)
(***************************************************************************)
StartReturns(p) ==
    /\ proc[p].start = "running"
    /\ proc' = Reap([proc EXCEPT ![p].start = "returned", ![p].state = "started"])
    /\ UNCHANGED <<serverVars, flight, thread, mutex, managed, failures, controlVars>>

\* StartFails that leaves the entry of the shard.
StartFailsKeepsEntry(p) ==
    /\ proc[p].start = "running"
    /\ failures < MaxFailures
    /\ failures' = failures + 1
    /\ proc' = [proc EXCEPT ![p].start = "failed"]
    /\ UNCHANGED <<serverVars, flight, thread, mutex, managed, controlVars>>

\* The entry of the shard is deleted, whichever processor it holds by now.
StartFails(p) ==
    /\ proc[p].start = "running"
    /\ failures < MaxFailures
    /\ failures' = failures + 1
    /\ proc' = Reap([proc EXCEPT ![p].start = "failed"])
    /\ managed' = [managed EXCEPT ![proc[p].shard] = Nil]
    /\ UNCHANGED <<serverVars, flight, thread, mutex, controlVars>>

StopReturns(p, by) ==
    /\ by \in proc[p].stopping
    /\ proc' = Reap([proc EXCEPT ![p].stopping = @ \ {by}, ![p].stopped = TRUE])
    /\ UNCHANGED <<serverVars, flight, thread, mutex, managed, failures, controlVars>>
-----------------------------------------------------------------------------
(***************************************************************************)
(* Drain, undrain and Stop.  The observer closes the current channel and   *)
(* replaces it: a channel obtained after n signals is closed by the next.  *)
(***************************************************************************)
SignalDrain ==
    /\ signal.drains = signal.undrains /\ signal.drains < MaxDrains
    /\ signal' = [signal EXCEPT !.drains = @ + 1]
    /\ UNCHANGED <<serverVars, flight, thread, mutex, procVars, stopC>>

SignalUndrain ==
    /\ signal.undrains < signal.drains
    /\ signal' = [signal EXCEPT !.undrains = @ + 1]
    /\ UNCHANGED <<serverVars, flight, thread, mutex, procVars, stopC>>

Stop ==
    /\ CanStop /\ ~stopC
    /\ stopC' = TRUE
    /\ UNCHANGED <<serverVars, flight, thread, mutex, procVars, signal>>

\* stopShardProcessors stops all processors, without assignmentMutex,
StopAll ==
    /\ thread[Loop].pc = "idle"
    /\ \E pc \in {"drain", "final"} :
         /\ IF pc = "final" THEN stopC ELSE signal.drains > signal.drainCh
         /\ thread' = [thread EXCEPT ![Loop].pc = pc, ![Loop].todo = Tracked]
    /\ UNCHANGED <<serverVars, flight, mutex, procVars, controlVars>>

\* waits for the Stop calls it made, and sends the draining heartbeat.  After
\* stopC the loop ends; after a drain it asks for the undrain channel.
AllStopped ==
    /\ thread[Loop].pc \in {"drain", "final"}
    /\ thread[Loop].todo = {} /\ thread[Loop].held = Nil
    /\ \A p \in Processor : thread[Loop].pc \notin proc[p].stopping
    /\ \/ /\ thread[Loop].pc = "final"
          /\ thread' = [thread EXCEPT ![Loop].pc = "exited"]
          /\ UNCHANGED signal
       \/ /\ thread[Loop].pc = "drain"
          /\ thread' = [thread EXCEPT ![Loop].pc = "drained"]
          /\ signal' = [signal EXCEPT !.undrainCh = signal.undrains]
    /\ UNCHANGED <<serverVars, flight, mutex, procVars, stopC>>

\* waitForUndrain that does not look at stopC.
waitForUndrainOnly ==
    /\ thread[Loop].pc = "drained"
    /\ signal.undrains > signal.undrainCh
    /\ thread' = [thread EXCEPT ![Loop].pc = "idle"]
    /\ signal' = [signal EXCEPT !.drainCh = signal.drains]
    /\ UNCHANGED <<serverVars, flight, mutex, procVars, stopC>>

\* The loop waits for the end of the drain, or for Stop.
waitForUndrain ==
    /\ thread[Loop].pc = "drained"
    /\ \/ stopC /\ thread' = [thread EXCEPT ![Loop].pc = "exited"] /\ UNCHANGED signal
       \/ /\ signal.undrains > signal.undrainCh
          /\ thread' = [thread EXCEPT ![Loop].pc = "idle"]
          /\ signal' = [signal EXCEPT !.drainCh = signal.drains]
    /\ UNCHANGED <<serverVars, flight, mutex, procVars, stopC>>
-----------------------------------------------------------------------------
UpdateStep(t) ==
    \/ LockAssignment(t) \/ StopProcessor(t) \/ StartNewShards(t) \/ UnlockAssignment(t)
    \/ \E s \in Shard : LoadToStop(t, s) \/ AddProcessor(t, s)

ProcessorStep(p) == StartReturns(p) \/ \E by \in {"stop", "drain", "final"} : StopReturns(p, by)

ClientNext ==
    \/ ChangeAssignment \/ ServerReads \/ Responds \/ HeartbeatFails
    \/ HeartbeatTimer \/ StopAll \/ AllStopped \/ waitForUndrain
    \/ \E t \in Thread : SecondHeartbeat(t) \/ UpdateStep(t)
    \/ \E c \in Caller : CheckAgain(c) \/ \E s \in Shard : GetShardProcess(c, s)
    \/ \E p \in Processor : ProcessorStep(p) \/ StartFails(p)
    \/ SignalDrain \/ SignalUndrain \/ Stop

ClientSpec == ClientInit /\ [][ClientNext]_clientVars

\* Goroutines run, the timer fires, neither the first nor the second heartbeat of the
\* loop fails each time, a goroutine that waits for the mutex gets it, the select of
\* the loop does not prefer the timer to a closed channel forever, and Start and Stop
\* of a processor return.
ClientFairness ==
    /\ \A pc \in {"first", "second"} :
         /\ SF_clientVars(ServerReads /\ thread[Loop].pc = pc)
         /\ SF_clientVars(Responds /\ thread[Loop].pc = pc)
    /\ WF_clientVars(HeartbeatTimer)
    /\ SF_clientVars(StopAll) /\ WF_clientVars(AllStopped) /\ WF_clientVars(waitForUndrain)
    /\ \A t \in Thread :
         WF_clientVars(SecondHeartbeat(t)) /\ SF_clientVars(UpdateStep(t))
    /\ \A c \in Caller : WF_clientVars(CheckAgain(c))
    /\ \A p \in Processor : WF_clientVars(ProcessorStep(p))

ClientLiveSpec == ClientSpec /\ ClientFairness
-----------------------------------------------------------------------------
FlightState ==
    [stage : {"none", "sent", "read"}, members : SUBSET Thread, answer : SUBSET Shard,
     at : 0..MaxChanges]

ThreadState ==
    [pc : {"idle", "first", "again", "second", "apply", "stop", "add", "lookup", "drain",
           "final", "drained", "exited"},
     shard : Shard \cup {Nil}, since : 0..MaxChanges, answer : SUBSET Shard,
     at : 0..MaxChanges, todo : SUBSET Shard, held : Processor \cup {Nil}]

ProcessorState ==
    [shard : Shard \cup {Nil}, state : {"starting", "started", "stopping"},
     start : {"none", "running", "returned", "failed"},
     stopping : SUBSET {"stop", "drain", "final"}, stopped : BOOLEAN]

ClientTypeOK ==
    /\ assigned \subseteq Shard /\ changes \in 0..MaxChanges
    /\ flight \in FlightState
    /\ thread \in [Thread -> ThreadState]
    /\ mutex \in Thread \cup {Nil}
    /\ \A t \in Thread : mutex = t => thread[t].pc \in {"stop", "add"}
    /\ managed \in [Shard -> Processor \cup {Nil}]
    /\ proc \in [Processor -> ProcessorState]
    /\ failures \in 0..MaxFailures
    /\ signal \in [drains : Nat, undrains : Nat, drainCh : Nat, undrainCh : Nat]
    /\ stopC \in BOOLEAN

\* The answer that Heartbeat returns to a goroutine holds the shard it asked for, or
\* was read by the server after the goroutine asked: "We know this was initiated
\* _after_ we got the request" (heartbeat/manager.go).
FreshHeartbeat ==
    \A t \in Thread : thread[t].pc \in {"apply", "stop", "add", "lookup"} =>
        thread[t].at >= thread[t].since \/ thread[t].shard \in thread[t].answer

\* As long as no Start has failed and nothing was drained or stopped, each processor
\* that runs and was not told to stop is the entry of its shard: no shard has two, and
\* none is forgotten, whatever the order in which answers are applied.
NoOrphan ==
    (failures = 0 /\ signal.drains = 0 /\ ~stopC) =>
        \A p \in Processor :
            proc[p] # NoProcessor /\ proc[p].stopping = {} /\ ~proc[p].stopped =>
                managed[proc[p].shard] = p

Heartbeating == thread[Loop].pc \notin {"drain", "final", "drained", "exited"}

\* Once the server leaves the assignment alone, an executor that goes on heartbeating
\* ends up with a started processor for exactly the shards assigned to it, also after
\* failed starts, lost heartbeats and answers applied out of order -- unless the
\* server assigns none.
Settles ==
    <>[](Heartbeating /\ assigned # {} =>
            /\ Tracked = assigned
            /\ \A s \in Tracked : proc[managed[s]].state = "started")

\* "Stop shards no longer assigned": a processor of a shard that is not assigned any
\* more is stopped.
StopsUnassigned == <>[](Heartbeating => Tracked \subseteq assigned)

\* Stop ends the heartbeat loop, also when it waits for the end of a drain.
StopEndsLoop == stopC ~> thread[Loop].pc = "exited"
=============================================================================
