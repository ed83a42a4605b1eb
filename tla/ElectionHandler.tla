--------------------------- MODULE ElectionHandler ---------------------------
(***************************************************************************)
(* How one server takes part in the election of a namespace: the handler   *)
(* of leader/namespace/manager.go, which reacts to drains and to Stop, and *)
(* the elector goroutines of leader/election/election.go that it starts.   *)
(*                                                                         *)
(* A handler that leaves its campaigning state cancels its elector and     *)
(* reads no more from its channel, which has room for one notification.    *)
(* After an undrain it starts a new elector, while the old one may still   *)
(* be resigning.                                                           *)
(*                                                                         *)
(* The sessions in etcd are those of LeaderElection: an elector is one of  *)
(* its sessions, and the sessions of other servers compete with it.  An    *)
(* elector whose key outlived its resignation campaigns again when the key *)
(* is gone, which is when its next session could lead.                     *)
(***************************************************************************)
EXTENDS LeaderElection, Sequences

CONSTANTS
    Elector,        \* the sessions of this server; bound: electors at the same time
    Nobody,         \* no elector
    MaxDrains,      \* bound: drain signals
    MaxFaults       \* bound: failed etcd calls and leases that run out under a leader

ASSUME HandlerAssumption ==
    /\ Elector \subseteq Session \cap Nat /\ Nobody \notin Session
    /\ MaxDrains \in Nat /\ MaxFaults \in Nat

VARIABLES
    handler,    \* its state, its current elector and the drain channels it holds
    gauge,      \* the is-leader metric
    signal,     \* drain observer: how many drains and undrains so far
    ctxDone,    \* the context of the manager
    elector,    \* pc of each elector, and the error that ended its attempt
    cancelled,  \* the electors whose own context is cancelled
    notices,    \* leaderCh of each elector
    processing, \* the electors whose leader process runs
    faults

handlerVars == <<handler, gauge>>
electorVars == <<elector, notices, processing, electionVars>>
worldVars == <<signal, ctxDone, faults>>
electionHandlerVars == <<handlerVars, electorVars, cancelled, worldVars>>

NoElector == [pc |-> "exited", err |-> "none"]

HandlerInit ==
    /\ handler = [pc |-> "new", elector |-> Nobody, drainCh |-> 0, undrainCh |-> 0]
    /\ gauge = FALSE
    /\ signal = [drains |-> 0, undrains |-> 0]
    /\ ctxDone = FALSE
    /\ elector = [e \in Elector |-> NoElector]
    /\ cancelled = {}
    /\ notices = [e \in Elector |-> <<>>]
    /\ processing = {}
    /\ ElectionInit
    /\ faults = 0

Cancelled(e) == ctxDone \/ e \in cancelled

\* A call that takes the context of the elector fails: it is cancelled, or etcd fails.
CallFails(e) ==
    \/ Cancelled(e) /\ UNCHANGED faults
    \/ faults < MaxFaults /\ faults' = faults + 1
-----------------------------------------------------------------------------
(***************************************************************************)
(* The elector: Run and runElection.  Its own context and the lease are    *)
(* looked at only where the code selects on them.                          *)
(***************************************************************************)
Goto(e, pc, err) == elector' = [elector EXCEPT ![e] = [pc |-> pc, err |-> err]]

\* After an attempt the loop of Run ends, retries at once or waits.
NextAttempt(e, err) ==
    elector' = [elector EXCEPT ![e] =
        IF Cancelled(e) THEN NoElector
        ELSE [pc |-> IF err = "failed" THEN "cooldown" ELSE "delay", err |-> "none"]]

Delay(e) ==
    /\ elector[e].pc = "delay"
    /\ \/ Goto(e, "create", "none")
       \/ Cancelled(e) /\ NextAttempt(e, "failed")
    /\ UNCHANGED <<handlerVars, notices, processing, electionVars, cancelled, worldVars>>

\* A session that cannot be created ends the attempt without a notification.
CreateElection(e) ==
    /\ elector[e].pc = "create"
    /\ \/ ~Cancelled(e) /\ Goto(e, "campaign", "none") /\ UNCHANGED faults
       \/ CallFails(e) /\ NextAttempt(e, "failed")
    /\ UNCHANGED <<handlerVars, notices, processing, electionVars, cancelled, signal, ctxDone>>

\* Campaign puts the leader key,
Campaign(e) ==
    /\ elector[e].pc = "campaign"
    /\ \/ ~Cancelled(e) /\ StartCampaign(e) /\ Goto(e, "wait", "none") /\ UNCHANGED faults
       \/ CallFails(e) /\ Goto(e, "resign", "failed") /\ UNCHANGED electionVars
    /\ UNCHANGED <<handlerVars, notices, processing, cancelled, signal, ctxDone>>

\* and waits for the keys created before it.
WaitForKeys(e) ==
    /\ elector[e].pc = "wait"
    /\ \/ BecomeLeader(e) /\ Goto(e, "won", "none") /\ UNCHANGED faults
       \/ CallFails(e) /\ Goto(e, "resign", "failed") /\ UNCHANGED electionVars
    /\ UNCHANGED <<handlerVars, notices, processing, cancelled, signal, ctxDone>>

RunProcess(e) ==
    /\ elector[e].pc = "won"
    /\ processing' = processing \cup {e}
    /\ Goto(e, "notify", "none")
    /\ UNCHANGED <<handlerVars, notices, electionVars, cancelled, worldVars>>

\* leaderCh <- true blocks while the channel is full, whatever happens.
NotifyLeader(e) ==
    /\ elector[e].pc = "notify" /\ notices[e] = <<>>
    /\ notices' = [notices EXCEPT ![e] = <<TRUE>>]
    /\ Goto(e, "leading", "none")
    /\ UNCHANGED <<handlerVars, processing, electionVars, cancelled, worldVars>>

EndTerm(e) ==
    /\ elector[e].pc = "leading"
    /\ \/ Cancelled(e) /\ Goto(e, "resign", "none")
       \/ ~Guard(e) /\ Goto(e, "resign", "failed")
       \/ Goto(e, "resign", "self")
    /\ UNCHANGED <<handlerVars, notices, processing, electionVars, cancelled, worldVars>>

\* resign terminates the process and then gives up the key.  When that fails the
\* key stays until the lease runs out.
StepDown(e) ==
    /\ elector[e].pc = "resign"
    /\ processing' = processing \ {e}
    /\ \/ role[e] = "idle" /\ UNCHANGED <<electionVars, faults>>
       \/ role[e] # "idle" /\ Resign(e, FALSE) /\ UNCHANGED faults
       \/ /\ role[e] # "idle" /\ Resign(e, TRUE)
          /\ faults < MaxFaults /\ faults' = faults + 1
    /\ Goto(e, "notifyLost", elector[e].err)
    /\ UNCHANGED <<handlerVars, notices, cancelled, signal, ctxDone>>

\* NotifyLost without the notification.
NotifyLostSilently(e) ==
    /\ elector[e].pc = "notifyLost"
    /\ NextAttempt(e, elector[e].err)
    /\ UNCHANGED <<handlerVars, notices, processing, electionVars, cancelled, worldVars>>

\* leaderCh <- false, at the end of every attempt that had a session.
NotifyLost(e) ==
    /\ elector[e].pc = "notifyLost" /\ notices[e] = <<>>
    /\ notices' = [notices EXCEPT ![e] = <<FALSE>>]
    /\ NextAttempt(e, elector[e].err)
    /\ UNCHANGED <<handlerVars, processing, electionVars, cancelled, worldVars>>

\* Cooldown that only the context ends.
CooldownForever(e) ==
    /\ elector[e].pc = "cooldown"
    /\ Cancelled(e) /\ NextAttempt(e, "none")
    /\ UNCHANGED <<handlerVars, notices, processing, electionVars, cancelled, worldVars>>

Cooldown(e) ==
    /\ elector[e].pc = "cooldown"
    /\ NextAttempt(e, "none")
    /\ UNCHANGED <<handlerVars, notices, processing, electionVars, cancelled, worldVars>>
-----------------------------------------------------------------------------
(***************************************************************************)
(* The handler.  A channel of the drain observer that was obtained after n *)
(* signals is closed by the next one.                                      *)
(***************************************************************************)
StartManager ==
    /\ handler.pc = "new"
    /\ handler' = [handler EXCEPT !.pc = "start"]
    /\ UNCHANGED <<gauge, electorVars, cancelled, worldVars>>

\* campaigning asks for the drain channel,
EnterCampaigning ==
    /\ handler.pc = "start"
    /\ handler' = [handler EXCEPT !.pc = "check", !.drainCh = signal.drains]
    /\ UNCHANGED <<gauge, electorVars, cancelled, worldVars>>

\* and starts an elector unless that channel is closed already.
StartElection ==
    /\ handler.pc = "check"
    /\ IF signal.drains > handler.drainCh
       THEN /\ handler' = [handler EXCEPT !.pc = "drained"]
            /\ UNCHANGED <<elector, cancelled, notices>>
       ELSE \E e \in Elector :
              /\ elector[e] = NoElector
              /\ \A f \in Elector : f < e => elector[f] # NoElector
              /\ handler' = [handler EXCEPT !.pc = "campaigning", !.elector = e]
              /\ elector' = [elector EXCEPT ![e].pc = "delay"]
              /\ cancelled' = cancelled \ {e}
              /\ notices' = [notices EXCEPT ![e] = <<>>]
    /\ UNCHANGED <<gauge, processing, electionVars, worldVars>>

ReadNotice ==
    LET e == handler.elector IN
    /\ handler.pc = "campaigning"
    /\ notices[e] # <<>>
    /\ gauge' = Head(notices[e])
    /\ notices' = [notices EXCEPT ![e] = Tail(@)]
    /\ UNCHANGED <<handler, elector, processing, electionVars, cancelled, worldVars>>

\* LeaveCampaigning that leaves the elector alone.
LeaveCampaigningRunning(pc) ==
    /\ handler' = [handler EXCEPT !.pc = pc, !.elector = Nobody]
    /\ gauge' = FALSE
    /\ UNCHANGED <<electorVars, cancelled, worldVars>>

\* Whatever ends campaigning, the elector is cancelled and the metric reset.
LeaveCampaigning(pc) ==
    /\ handler' = [handler EXCEPT !.pc = pc, !.elector = Nobody]
    /\ cancelled' = cancelled \cup {handler.elector}
    /\ gauge' = FALSE
    /\ UNCHANGED <<electorVars, worldVars>>

\* The channel is closed when the elector has exited.
HandlerStops ==
    /\ handler.pc = "campaigning"
    /\ \/ ctxDone /\ LeaveCampaigning("ended")
       \/ signal.drains > handler.drainCh /\ LeaveCampaigning("drained")
       \/ /\ elector[handler.elector] = NoElector /\ notices[handler.elector] = <<>>
          /\ LeaveCampaigning(IF ctxDone THEN "ended" ELSE "start")

\* idle asks for the undrain channel and waits for it.
EnterIdle ==
    /\ handler.pc = "drained"
    /\ handler' = [handler EXCEPT !.pc = "idle", !.undrainCh = signal.undrains]
    /\ UNCHANGED <<gauge, electorVars, cancelled, worldVars>>

Idle ==
    /\ handler.pc = "idle"
    /\ \/ ctxDone /\ handler' = [handler EXCEPT !.pc = "ended"]
       \/ signal.undrains > handler.undrainCh /\ handler' = [handler EXCEPT !.pc = "start"]
    /\ UNCHANGED <<gauge, electorVars, cancelled, worldVars>>
-----------------------------------------------------------------------------
(***************************************************************************)
(* The drain observer, the manager and etcd.                               *)
(***************************************************************************)
SignalDrain ==
    /\ signal.drains = signal.undrains /\ signal.drains < MaxDrains
    /\ signal' = [signal EXCEPT !.drains = @ + 1]
    /\ UNCHANGED <<handlerVars, electorVars, cancelled, ctxDone, faults>>

SignalUndrain ==
    /\ signal.undrains < signal.drains
    /\ signal' = [signal EXCEPT !.undrains = @ + 1]
    /\ UNCHANGED <<handlerVars, electorVars, cancelled, ctxDone, faults>>

StopManager ==
    /\ ~ctxDone /\ handler.pc # "new"
    /\ ctxDone' = TRUE
    /\ UNCHANGED <<handlerVars, electorVars, cancelled, signal, faults>>

\* The lease of an elector that leads or campaigns runs out: a fault.  That of a
\* session that has ended runs out by itself.
LeaseRunsOut(e) ==
    /\ LeaseExpires(e)
    /\ IF role[e] = "idle" THEN UNCHANGED faults
       ELSE faults < MaxFaults /\ faults' = faults + 1
    /\ UNCHANGED <<handlerVars, elector, notices, processing, cancelled, signal, ctxDone>>

\* Another server campaigns, leads and resigns.
OtherServer(s) ==
    /\ StartCampaign(s) \/ BecomeLeader(s) \/ Resign(s, FALSE)
    /\ UNCHANGED <<handlerVars, elector, notices, processing, cancelled, worldVars>>
-----------------------------------------------------------------------------
ElectorStep(e) ==
    \/ Delay(e) \/ CreateElection(e) \/ Campaign(e) \/ WaitForKeys(e) \/ RunProcess(e)
    \/ NotifyLeader(e) \/ EndTerm(e) \/ StepDown(e) \/ NotifyLost(e) \/ Cooldown(e)

HandlerStep ==
    EnterCampaigning \/ StartElection \/ ReadNotice \/ HandlerStops \/ EnterIdle \/ Idle

HandlerNext ==
    \/ HandlerStep
    \/ \E e \in Elector : ElectorStep(e) \/ LeaseRunsOut(e)
    \/ \E s \in Session \ Elector : OtherServer(s)
    \/ StartManager \/ StopManager \/ SignalDrain \/ SignalUndrain

HandlerSpec == HandlerInit /\ [][HandlerNext]_electionHandlerVars

\* Goroutines run, a select does not ignore a channel forever, other servers lead
\* and resign, and the lease of a session that has ended runs out.
HandlerFairness ==
    /\ WF_electionHandlerVars(HandlerStep) /\ SF_electionHandlerVars(HandlerStops)
    /\ \A e \in Elector :
         /\ WF_electionHandlerVars(ElectorStep(e))
         /\ WF_electionHandlerVars(LeaseRunsOut(e) /\ UNCHANGED faults)
    /\ \A s \in Session \ Elector :
         WF_electionHandlerVars(OtherServer(s) /\ role[s] # "idle")

HandlerLiveSpec == HandlerSpec /\ HandlerFairness
-----------------------------------------------------------------------------
HandlerTypeOK ==
    /\ handler \in [pc : {"new", "start", "check", "campaigning", "drained", "idle", "ended"},
                   elector : Elector \cup {Nobody}, drainCh : Nat, undrainCh : Nat]
    /\ gauge \in BOOLEAN /\ ctxDone \in BOOLEAN
    /\ signal \in [drains : 0..MaxDrains, undrains : 0..MaxDrains] /\ faults \in 0..MaxFaults
    /\ elector \in [Elector -> [pc : {"exited", "delay", "create", "campaign", "wait", "won",
                                     "notify", "leading", "resign", "notifyLost", "cooldown"},
                               err : {"none", "self", "failed"}]]
    /\ notices \in [Elector -> {<<>>, <<TRUE>>, <<FALSE>>}]
    /\ cancelled \subseteq Elector /\ processing \subseteq Elector
    /\ ElectionTypeOK

\* The metric follows the elector: when the handler has read all notifications it says
\* leader exactly in a term that was announced, and no term ends unannounced.
GaugeFollowsElector ==
    LET e == handler.elector IN
    handler.pc = "campaigning" /\ notices[e] = <<>> =>
        /\ elector[e].pc = "leading" => gauge
        /\ elector[e].pc \in {"delay", "create", "campaign", "wait", "won", "notify",
                            "cooldown"} => ~gauge

\* An elector that leads and cannot go on: its handler left in the instant of the
\* election, with a notification of the term before unread.
Blocked(e) == elector[e].pc = "notify" /\ notices[e] # <<>>

\* A server that stays drained or stopped gives up leadership for good: its leader
\* process is terminated and the key is released or runs out, but for an elector
\* that was blocked on its channel when it was cancelled.
GivesUpLeadership ==
    <>[](handler.pc \in {"idle", "ended"} =>
            \A e \in Elector :
                (e \notin processing /\ ~Guard(e)) \/ (Blocked(e) /\ Cancelled(e)))

\* A server that goes on campaigning becomes leader, whatever failed before, unless an
\* earlier elector of its own is blocked and keeps the key.
BecomesLeader ==
    handler.pc = "campaigning" ~>
        gauge \/ handler.pc # "campaigning" \/ \E e \in Elector : Blocked(e)

\* Stop "waits for all election goroutines to finish": when the handler has ended after
\* Stop, no elector runs any more.
StopWaitsForElectors ==
    handler.pc = "ended" => \A e \in Elector : elector[e].pc = "exited"
=============================================================================
