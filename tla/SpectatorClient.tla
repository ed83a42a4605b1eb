--------------------------- MODULE SpectatorClient ---------------------------
(***************************************************************************)
(* The spectator client that an application embeds to route requests       *)
(* (client/spectatorclient), with its ResettableSignal.                    *)
(*                                                                         *)
(* One goroutine runs watchLoop, whose states are the functions connect,   *)
(* enabled and disabled.  It replaces the map of owners with each response *)
(* of the stream.  GetShardOwner calls wait for the first state, read the  *)
(* map and ask the server when the shard is not in it.  An enabled         *)
(* function of the application switches the client off and on, and Stop    *)
(* ends it at any time.                                                    *)
(*                                                                         *)
(* The servers are external.  States of the namespace are numbered.  The   *)
(* server of a stream sends states in order, may lag, and need not be as   *)
(* far as the one of the stream before.                                    *)
(***************************************************************************)
EXTENDS Integers

CONSTANTS
    Client,         \* goroutines that call GetShardOwner
    MaxState,       \* bound: states of the namespace
    MaxToggles      \* bound: changes of the enabled function

ASSUME SpectatorAssumption == MaxState \in Nat /\ MaxToggles \in Nat

VARIABLES
    current,    \* servers: the latest state of the namespace,
    everywhere, \* and the latest one that all of them know
    enabled,    \* what the enabled function returns
    toggles,
    loop,       \* where the watch loop is
    received,   \* the latest state received on the open stream, -1 for none
    shown,      \* shardToOwner and drainedShards: the state they were built from,
                \* and how often the signal had been reset by then
    done,       \* firstStateSignal: whether it is done,
    resets,     \* and how often it was reset
    stopping,   \* how far Stop is: cancel, Done, wait
    request     \* the GetShardOwner calls

streamVars == <<loop, received>>
signalVars == <<done, resets>>
outside == <<current, everywhere, enabled, toggles>>
spectatorVars == <<outside, streamVars, shown, signalVars, stopping, request>>

NoCall == [pc |-> "none", resets |-> 0, from |-> 0]

ShuttingDown == stopping # "no"

SpectatorInit ==
    /\ current = 0 /\ everywhere = 0
    /\ enabled \in BOOLEAN /\ toggles = 0
    /\ loop = "created"
    /\ received = -1
    /\ shown = [state |-> -1, resets |-> 0]
    /\ done = FALSE /\ resets = 0
    /\ stopping = "no"
    /\ request = [c \in Client |-> NoCall]
-----------------------------------------------------------------------------
(***************************************************************************)
(* ResettableSignal.  A goroutine in Wait holds the channels of its time:  *)
(* Done and Reset reach exactly the goroutines that wait when they happen. *)
(***************************************************************************)
Wake(to) ==
    request' = [c \in Client |-> IF request[c].pc = "waiting"
                                 THEN [request[c] EXCEPT !.pc = to] ELSE request[c]]

SignalDone ==
    /\ done' = TRUE
    /\ IF done THEN UNCHANGED request ELSE Wake("woken")
    /\ UNCHANGED resets

\* SignalReset that replaces the channel of those who wait and not one that is done.
SignalResetWaiting ==
    /\ UNCHANGED done
    /\ resets' = resets + 1
    /\ IF done THEN UNCHANGED request ELSE Wake("reset")

SignalReset ==
    /\ done' = FALSE
    /\ resets' = resets + 1
    /\ IF done THEN UNCHANGED request ELSE Wake("reset")

\* Wait, up to the select.
Wait(c) ==
    request' = [request EXCEPT ![c] =
                  [pc |-> IF done THEN "woken" ELSE "waiting", resets |-> resets, from |-> 0]]
-----------------------------------------------------------------------------
(***************************************************************************)
(* Start and the watch loop.                                               *)
(***************************************************************************)
Start ==
    /\ loop = "created"
    /\ loop' = IF enabled THEN "connect" ELSE "disabled"
    /\ UNCHANGED <<outside, received, shown, signalVars, stopping, request>>

ConnectState ==
    /\ loop = "connect"
    /\ \/ ~enabled /\ loop' = "disabled"
       \/ enabled /\ ~ShuttingDown /\ loop' = "enabled"
       \/ enabled /\ loop' = IF ShuttingDown THEN "exited" ELSE "retry"
    /\ received' = -1
    /\ UNCHANGED <<outside, shown, signalVars, stopping, request>>

\* The pause before the next attempt.
Retry ==
    /\ loop = "retry"
    /\ loop' = IF ShuttingDown THEN "exited" ELSE "connect"
    /\ UNCHANGED <<outside, received, shown, signalVars, stopping, request>>

EnabledState ==
    /\ loop = "enabled"
    /\ loop' = IF enabled THEN "recv" ELSE "disabled"
    /\ UNCHANGED <<outside, received, shown, signalVars, stopping, request>>

\* handleResponse that forgets the signal.
handleResponseNoSignal(s) ==
    /\ shown' = [state |-> s, resets |-> resets]
    /\ UNCHANGED <<signalVars, request>>

\* The maps are replaced before the signal.
handleResponse(s) ==
    /\ shown' = [state |-> s, resets |-> resets]
    /\ SignalDone

Recv ==
    /\ loop = "recv"
    /\ \E s \in everywhere..current :
         /\ s > received
         /\ received' = s
         /\ handleResponse(s)
    /\ loop' = "enabled"
    /\ UNCHANGED <<outside, stopping>>

\* RecvError that ends the loop.
RecvErrorGivesUp ==
    /\ loop = "recv"
    /\ loop' = "exited"
    /\ UNCHANGED <<outside, received, shown, signalVars, stopping, request>>

\* The stream breaks, its timer ends it, or the client was cancelled.
RecvError ==
    /\ loop = "recv"
    /\ loop' = IF ShuttingDown THEN "exited" ELSE "retry"
    /\ UNCHANGED <<outside, received, shown, signalVars, stopping, request>>

DisabledState ==
    /\ loop = "disabled"
    /\ loop' = IF ShuttingDown THEN "exited" ELSE "reset"
    /\ UNCHANGED <<outside, received, shown, signalVars, stopping, request>>

ResetSignal ==
    /\ loop = "reset"
    /\ SignalReset
    /\ loop' = "asleep"
    /\ UNCHANGED <<outside, received, shown, stopping>>

\* Asleep that does not look at the context.
AsleepUntilEnabled ==
    /\ loop = "asleep"
    /\ enabled /\ loop' = "connect"
    /\ UNCHANGED <<outside, received, shown, signalVars, stopping, request>>

\* The client sleeps until it is enabled or cancelled.
Asleep ==
    /\ loop = "asleep"
    /\ \/ ShuttingDown /\ loop' = "exited"
       \/ enabled /\ loop' = "connect"
    /\ UNCHANGED <<outside, received, shown, signalVars, stopping, request>>

LoopStep ==
    \/ ConnectState \/ Retry \/ EnabledState \/ DisabledState \/ ResetSignal \/ Asleep
-----------------------------------------------------------------------------
(***************************************************************************)
(* Stop cancels the context, makes the signal done and waits for the loop. *)
(***************************************************************************)
Cancel ==
    /\ stopping = "no" /\ loop # "created"
    /\ stopping' = "cancelled"
    /\ UNCHANGED <<outside, streamVars, shown, signalVars, request>>

StopSignal ==
    /\ stopping = "cancelled"
    /\ stopping' = "waiting"
    /\ SignalDone
    /\ UNCHANGED <<outside, streamVars, shown>>

StopWait ==
    /\ stopping = "waiting" /\ loop = "exited"
    /\ stopping' = "stopped"
    /\ UNCHANGED <<outside, streamVars, shown, signalVars, request>>
-----------------------------------------------------------------------------
(***************************************************************************)
(* GetShardOwner.  A reset while it waits is an error to its caller.  The  *)
(* shard may be missing from any map: then the server is asked.            *)
(***************************************************************************)
GetShardOwner(c) ==
    /\ request[c].pc = "none"
    /\ Wait(c)
    /\ UNCHANGED <<outside, streamVars, shown, signalVars, stopping>>

ReadMap(c) ==
    /\ request[c].pc = "woken"
    /\ \/ request' = [request EXCEPT ![c].pc = "answered", ![c].from = shown.resets]
       \/ request' = [request EXCEPT ![c].pc = "asking"]
    /\ UNCHANGED <<outside, streamVars, shown, signalVars, stopping>>

Return(c) ==
    /\ request[c].pc \in {"answered", "reset", "asking"}
    /\ request' = [request EXCEPT ![c] = NoCall]
    /\ UNCHANGED <<outside, streamVars, shown, signalVars, stopping>>

CallStep(c) == ReadMap(c) \/ Return(c)
-----------------------------------------------------------------------------
NewState ==
    /\ current < MaxState
    /\ current' = current + 1
    /\ UNCHANGED <<everywhere, enabled, toggles, streamVars, shown, signalVars, stopping, request>>

ServersCatchUp ==
    /\ everywhere < current
    /\ everywhere' = everywhere + 1
    /\ UNCHANGED <<current, enabled, toggles, streamVars, shown, signalVars, stopping, request>>

Toggle ==
    /\ toggles < MaxToggles
    /\ toggles' = toggles + 1
    /\ enabled' = ~enabled
    /\ UNCHANGED <<current, everywhere, streamVars, shown, signalVars, stopping, request>>

SpectatorNext ==
    \/ Start \/ LoopStep \/ Recv \/ RecvError
    \/ Cancel \/ StopSignal \/ StopWait
    \/ \E c \in Client : GetShardOwner(c) \/ CallStep(c)
    \/ NewState \/ ServersCatchUp \/ Toggle

SpectatorSpec == SpectatorInit /\ [][SpectatorNext]_spectatorVars

\* The loop runs, every server learns every state, attempts to connect do not fail
\* forever, a stream delivers the latest state before it breaks again and again, a
\* cancelled or disabled stream ends (its timer cancels it), Stop goes on and calls that
\* are woken return.
SpectatorFairness ==
    /\ WF_spectatorVars(LoopStep) /\ WF_spectatorVars(ServersCatchUp)
    /\ SF_spectatorVars(ConnectState /\ (enabled /\ ~ShuttingDown => loop' = "enabled"))
    /\ SF_spectatorVars(Recv /\ received' = current)
    /\ WF_spectatorVars(RecvError /\ (ShuttingDown \/ ~enabled))
    /\ WF_spectatorVars(StopSignal) /\ WF_spectatorVars(StopWait)
    /\ \A c \in Client : WF_spectatorVars(CallStep(c))

SpectatorLiveSpec == SpectatorSpec /\ SpectatorFairness
-----------------------------------------------------------------------------
SpectatorTypeOK ==
    /\ current \in 0..MaxState /\ everywhere \in 0..current
    /\ enabled \in BOOLEAN /\ toggles \in 0..MaxToggles
    /\ loop \in {"created", "connect", "retry", "enabled", "recv", "disabled", "reset", "asleep",
                "exited"}
    /\ received \in -1..current
    /\ shown \in [state : -1..current, resets : 0..resets]
    /\ done \in BOOLEAN /\ resets \in Nat
    /\ stopping \in {"no", "cancelled", "waiting", "stopped"}
    /\ stopping = "stopped" => loop = "exited"
    /\ request \in [Client -> [pc : {"none", "waiting", "woken", "reset", "asking", "answered"},
                              resets : 0..resets, from : 0..resets]]

\* A caller is never answered from the map of an earlier enabled period: a call that
\* starts after the client was disabled waits for "the first state to be received when
\* we re-enable", until Stop lets everybody through.
NoStaleAnswer ==
    \A c \in Client : request[c].pc = "answered" /\ ~ShuttingDown =>
        shown.state >= 0 /\ request[c].from >= request[c].resets

\* When states and switches end, a client that is enabled and not stopped shows the
\* latest state of the namespace, whatever servers its streams were connected to.
SpectatorCatchesUp ==
    <>[](loop # "created" /\ enabled /\ ~ShuttingDown => shown.state = current)

\* A call waits only as long as the client is disabled: it returns, or the client is
\* disabled or stopped.
WaitEnds ==
    \A c \in Client :
        request[c].pc = "waiting" /\ loop # "created"
            ~> request[c].pc # "waiting" \/ ~enabled \/ ShuttingDown

\* Stop returns: the loop leaves every state when the context is cancelled.
SpectatorStops == ShuttingDown ~> stopping = "stopped"

\* Stop unblocks "any goroutines waiting for first state": none waits for good.
StopUnblocks ==
    \A c \in Client : ShuttingDown /\ request[c].pc = "waiting" ~> request[c].pc # "waiting"
=============================================================================
