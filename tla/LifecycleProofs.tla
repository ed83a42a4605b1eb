-------------------------- MODULE LifecycleProofs --------------------------
(***************************************************************************)
(* What the spectator client and the election handler keep through every   *)
(* start, stop, drain and reset, for any number of callers and electors.   *)
(***************************************************************************)
EXTENDS SpectatorClient, ElectionHandler, LeaderElectionProofs

-----------------------------------------------------------------------------
(* The spectator client. *)

\* The inductive invariant.  Until Stop the signal is done only while the maps are those
\* of the current enabled period, and a call that was woken finds maps that are not older
\* than its wait, however late it comes to read them.
SpectatorInv ==
  /\ SpectatorTypeOK
  /\ ~ShuttingDown =>
       /\ done => shown.state >= 0 /\ shown.resets = resets
       /\ \A c \in Client :
            /\ request[c].pc = "woken" =>
                 shown.state >= 0 /\ shown.resets >= request[c].resets
            /\ request[c].pc = "answered" =>
                 shown.state >= 0 /\ request[c].from >= request[c].resets

\* A client that was created has no maps and no calls.
LEMMA SpectatorInitial == SpectatorInit => SpectatorInv
<1> SUFFICES ASSUME SpectatorInit PROVE SpectatorInv
  OBVIOUS
<1>1. request \in [Client -> [pc : {"none", "waiting", "woken", "reset", "asking", "answered"},
                            resets : 0 .. resets, from : 0 .. resets]]
  BY DEF SpectatorInit, NoCall
<1>2. shown \in [state : -1 .. current, resets : 0 .. resets] BY DEF SpectatorInit
<1>3. enabled \in BOOLEAN /\ done \in BOOLEAN BY Zenon DEF SpectatorInit
<1>4. /\ current = 0 /\ everywhere = 0 /\ toggles = 0 /\ loop = "created" /\ received = -1
      /\ resets = 0 /\ stopping = "no"
  BY DEF SpectatorInit
<1>5. SpectatorTypeOK
  BY <1>1, <1>2, <1>3, <1>4, SpectatorAssumption DEF SpectatorTypeOK
<1> QED BY <1>5 DEF SpectatorInit, SpectatorInv, NoCall

\* Steps that leave the maps, the signal, Stop and the calls alone.
LEMMA SpectatorOthers ==
  ASSUME SpectatorInv, SpectatorTypeOK', UNCHANGED <<shown, done, resets, stopping, request>>
  PROVE  SpectatorInv'
  BY DEF SpectatorInv, ShuttingDown

\* What the loop does between responses.
LEMMA SpectatorLoopStep ==
  ASSUME SpectatorInv,
         \/ Start \/ ConnectState \/ Retry \/ EnabledState \/ DisabledState \/ Asleep
         \/ RecvError \/ NewState \/ ServersCatchUp \/ Toggle
  PROVE  SpectatorInv'
<1>1. UNCHANGED <<shown, done, resets, stopping, request>>
  BY
    DEF Start, ConnectState, Retry, EnabledState, DisabledState, Asleep, RecvError, NewState,
         ServersCatchUp, Toggle, outside, streamVars, signalVars
<1>2. SpectatorTypeOK BY DEF SpectatorInv
<1>3. CASE \/ Start \/ ConnectState \/ Retry \/ EnabledState \/ DisabledState \/ Asleep \/ RecvError
  <2>1. UNCHANGED outside
    BY <1>3 DEF Start, ConnectState, Retry, EnabledState, DisabledState, Asleep, RecvError
  <2>2. loop' \in {"connect", "retry", "enabled", "recv", "disabled", "reset", "exited"}
    BY <1>3 DEF Start, ConnectState, Retry, EnabledState, DisabledState, Asleep, RecvError
  <2>3. received' \in {-1, received} /\ loop # "exited"
    BY <1>3 DEF Start, ConnectState, Retry, EnabledState, DisabledState, Asleep, RecvError
  <2>4. SpectatorTypeOK' BY <1>1, <1>2, <2>1, <2>2, <2>3 DEF SpectatorTypeOK, outside
  <2> QED BY <1>1, <2>4, SpectatorOthers
<1>4. CASE NewState \/ ServersCatchUp \/ Toggle
  <2>1. UNCHANGED <<loop, received>> BY <1>4
    DEF NewState, ServersCatchUp, Toggle, streamVars
  <2>2. /\ current' \in current .. MaxState /\ everywhere' \in 0 .. current'
        /\ enabled' \in BOOLEAN /\ toggles' \in 0 .. MaxToggles
    <3>1. CASE NewState
      BY <1>2, <3>1, SpectatorAssumption DEF NewState, SpectatorTypeOK
    <3>2. CASE ServersCatchUp
      BY <1>2, <3>2, SpectatorAssumption DEF ServersCatchUp, SpectatorTypeOK
    <3>3. CASE Toggle
      BY <1>2, <3>3, SpectatorAssumption DEF Toggle, SpectatorTypeOK
    <3> QED BY <1>4, <3>1, <3>2, <3>3
  <2>3. SpectatorTypeOK'
    BY <1>1, <1>2, <2>1, <2>2, SpectatorAssumption DEF SpectatorTypeOK
  <2> QED BY <1>1, <2>3, SpectatorOthers
<1> QED BY <1>3, <1>4

\* A response replaces the maps and then wakes those who wait.
LEMMA SpectatorRecvStep ==
  ASSUME SpectatorInv, Recv
  PROVE  SpectatorInv'
<1>1. SpectatorTypeOK /\ loop' = "enabled" /\ loop = "recv"
      /\ UNCHANGED <<current, everywhere, enabled, toggles, stopping, resets>>
  BY DEF SpectatorInv, Recv, handleResponse, SignalDone, outside
<1>2. PICK s \in everywhere .. current :
        /\ received' = s /\ shown' = [state |-> s, resets |-> resets] /\ done' = TRUE
        /\ IF done THEN UNCHANGED request ELSE Wake("woken")
  BY DEF Recv, handleResponse, SignalDone
<1>3. s \in 0 .. current BY <1>1, <1>2 DEF SpectatorTypeOK
<1>4. \A c \in Client : request[c].resets \in 0 .. resets /\ request[c].from \in 0 .. resets
  BY <1>1 DEF SpectatorTypeOK
<1>5. /\ request' \in [Client -> [pc : {"none", "waiting", "woken", "reset", "asking", "answered"},
                                resets : 0 .. resets, from : 0 .. resets]]
      /\ \A c \in Client : /\ request'[c].resets = request[c].resets
                           /\ request'[c].from = request[c].from
                           /\ request'[c].pc = request[c].pc \/ request'[c].pc = "woken"
  BY <1>1, <1>2 DEF SpectatorTypeOK, Wake
<1>6. SpectatorTypeOK' BY <1>1, <1>2, <1>3, <1>5 DEF SpectatorTypeOK
<1>7. shown'.state >= 0 /\ shown'.resets = resets /\ resets \in Nat
  BY <1>1, <1>2, <1>3 DEF SpectatorTypeOK
<1> QED BY <1>1, <1>4, <1>5, <1>6, <1>7 DEF SpectatorInv, ShuttingDown

\* A disabled client forgets that its signal was done.
LEMMA SpectatorResetStep ==
  ASSUME SpectatorInv, ResetSignal
  PROVE  SpectatorInv'
<1>1. SpectatorTypeOK /\ loop' = "asleep" /\ loop = "reset" /\ resets' = resets + 1 /\ done' = FALSE
      /\ UNCHANGED <<current, everywhere, enabled, toggles, stopping, received, shown>>
      /\ IF done THEN UNCHANGED request ELSE Wake("reset")
  BY DEF SpectatorInv, ResetSignal, SignalReset, outside
<1>2. /\ request' \in [Client -> [pc : {"none", "waiting", "woken", "reset", "asking", "answered"},
                                resets : 0 .. resets, from : 0 .. resets]]
      /\ \A c \in Client : \/ request'[c] = request[c]
                           \/ request'[c].pc = "reset"
  BY <1>1 DEF SpectatorTypeOK, Wake
<1>3. resets \in Nat /\ \A n \in 0 .. resets : n \in 0 .. (resets + 1) BY <1>1
  DEF SpectatorTypeOK
<1>4. /\ request' \in [Client -> [pc : {"none", "waiting", "woken", "reset", "asking", "answered"},
                                resets : 0 .. resets', from : 0 .. resets']]
      /\ shown' \in [state : -1 .. current', resets : 0 .. resets']
  <2>1. shown \in [state : -1 .. current, resets : 0 .. resets] BY <1>1 DEF SpectatorTypeOK
  <2> QED BY <1>1, <1>2, <1>3, <2>1
<1>5. done' \in BOOLEAN /\ resets' \in Nat
  <2>1. done' \in BOOLEAN BY <1>1, Zenon
  <2> QED BY <1>1, <1>3, <2>1
<1>6. /\ UNCHANGED <<current, everywhere, enabled, toggles, stopping, received>>
      /\ loop' = "asleep" /\ loop = "reset"
  BY <1>1
<1>7. SpectatorTypeOK' BY <1>1, <1>4, <1>5, <1>6 DEF SpectatorTypeOK
<1> QED BY <1>1, <1>2, <1>7 DEF SpectatorInv, ShuttingDown

\* Stop lets everybody through.
LEMMA SpectatorStopStep ==
  ASSUME SpectatorInv, Cancel \/ StopSignal \/ StopWait
  PROVE  SpectatorInv'
<1>1. SpectatorTypeOK BY DEF SpectatorInv
<1>2. /\ UNCHANGED <<current, everywhere, enabled, toggles, loop, received, shown, resets>>
      /\ stopping' \in {"cancelled", "waiting", "stopped"}
      /\ stopping' = "stopped" => loop = "exited"
      /\ done' = TRUE \/ done' = done
      /\ request' = request \/ Wake("woken")
  BY DEF Cancel, StopSignal, StopWait, SignalDone, outside, streamVars, signalVars
<1>3. request' \in [Client -> [pc : {"none", "waiting", "woken", "reset", "asking", "answered"},
                             resets : 0 .. resets, from : 0 .. resets]]
  BY <1>1, <1>2 DEF SpectatorTypeOK, Wake
<1>4. done' \in BOOLEAN BY <1>1, <1>2, Zenon DEF SpectatorTypeOK
<1>5. SpectatorTypeOK' BY <1>1, <1>2, <1>3, <1>4 DEF SpectatorTypeOK
<1> QED BY <1>2, <1>5 DEF SpectatorInv, ShuttingDown

\* A call waits, reads the maps and returns.
LEMMA SpectatorCallStep ==
  ASSUME SpectatorInv, NEW c \in Client, GetShardOwner(c) \/ ReadMap(c) \/ Return(c)
  PROVE  SpectatorInv'
<1>1. SpectatorTypeOK BY DEF SpectatorInv
<1>2. /\ UNCHANGED <<current, everywhere, enabled, toggles, loop, received>>
      /\ UNCHANGED <<shown, resets, done, stopping>>
  BY DEF GetShardOwner, ReadMap, Return, outside, streamVars, signalVars
<1>3. resets \in Nat /\ shown.resets \in 0 .. resets /\ request[c].resets \in 0 .. resets
  BY <1>1 DEF SpectatorTypeOK
<1>4. request' \in [Client -> [pc : {"none", "waiting", "woken", "reset", "asking", "answered"},
                             resets : 0 .. resets, from : 0 .. resets]]
  BY <1>1, <1>3 DEF SpectatorTypeOK, GetShardOwner, Wait, ReadMap, Return, NoCall
<1>5. SpectatorTypeOK' BY <1>1, <1>2, <1>4 DEF SpectatorTypeOK
<1>6. \A d \in Client \ {c} : request'[d] = request[d]
  BY <1>1 DEF SpectatorTypeOK, GetShardOwner, Wait, ReadMap, Return
<1>7. ASSUME ~ShuttingDown
      PROVE  /\ request'[c].pc = "woken" => shown.state >= 0 /\ shown.resets >= request'[c].resets
             /\ request'[c].pc = "answered" =>
                  shown.state >= 0 /\ request'[c].from >= request'[c].resets
  <2>1. CASE GetShardOwner(c)
    BY <1>1, <1>3, <1>7, <2>1 DEF GetShardOwner, Wait, SpectatorInv, SpectatorTypeOK
  <2>2. CASE ReadMap(c)
    BY <1>1, <1>3, <1>7, <2>2 DEF ReadMap, SpectatorInv, SpectatorTypeOK
  <2>3. CASE Return(c)
    BY <1>1, <1>7, <2>3 DEF Return, NoCall, SpectatorTypeOK
  <2> QED BY <2>1, <2>2, <2>3
<1> QED BY <1>2, <1>5, <1>6, <1>7 DEF SpectatorInv, ShuttingDown

\* Every step keeps the invariant.
LEMMA SpectatorStep == SpectatorInv /\ [SpectatorNext]_spectatorVars => SpectatorInv'
<1> SUFFICES ASSUME SpectatorInv, [SpectatorNext]_spectatorVars PROVE SpectatorInv'
  OBVIOUS
<1>1. CASE UNCHANGED spectatorVars
  BY <1>1 DEF spectatorVars, outside, streamVars, signalVars, SpectatorInv, SpectatorTypeOK,
              ShuttingDown
<1> QED
  BY <1>1, SpectatorLoopStep, SpectatorRecvStep, SpectatorResetStep, SpectatorStopStep,
     SpectatorCallStep DEF SpectatorNext, LoopStep, CallStep

\* The client keeps its types, whatever its loop, Stop and its callers do.
THEOREM SpectatorTypeCorrect == SpectatorSpec => []SpectatorTypeOK
<1>1. SpectatorInv => SpectatorTypeOK BY DEF SpectatorInv
<1> QED BY <1>1, SpectatorInitial, SpectatorStep, PTL DEF SpectatorSpec

\* GetShardOwner never answers from the map of an earlier enabled period, for any number
\* of callers and of resets between its wait and its reading of the map.
THEOREM AnswersAreNotStale == SpectatorSpec => []NoStaleAnswer
<1>1. SpectatorInv => NoStaleAnswer BY DEF SpectatorInv, NoStaleAnswer
<1> QED BY <1>1, SpectatorInitial, SpectatorStep, PTL DEF SpectatorSpec
-----------------------------------------------------------------------------
(* The election handler. *)

\* What the metric will say when the handler has read the channel of elector e.
Announced(e) == notices[e] = <<TRUE>> \/ (notices[e] = <<>> /\ gauge)

\* The inductive invariant of the metric: it is off while no elector is campaigned for,
\* and otherwise the notifications that are under way lead it to what the elector does.
GaugeInv ==
  /\ handler.pc # "campaigning" => ~gauge /\ handler.elector = Nobody
  /\ handler.pc = "campaigning" =>
       /\ handler.elector \in Elector
       /\ elector[handler.elector].pc = "leading" => Announced(handler.elector)
       /\ elector[handler.elector].pc \in {"exited", "delay", "create", "campaign", "wait",
                                          "won", "notify", "cooldown"} =>
            ~Announced(handler.elector)

\* Where an elector is says what its session does, and its process runs only in a term.
TermInv ==
  \A e \in Elector :
    /\ elector[e].pc \in {"exited", "delay", "create", "campaign", "notifyLost", "cooldown"} =>
         role[e] = "idle"
    /\ elector[e].pc = "wait" => role[e] = "campaigning"
    /\ elector[e].pc \in {"won", "notify", "leading"} => role[e] = "leader"
    /\ e \in processing => elector[e].pc \in {"notify", "leading", "resign"} /\ role[e] = "leader"

\* A server never has two leader processes whose keys exist: an elector that was cancelled
\* by a drain and one that was started after it may both run, but the guard stops one.
OneFencedProcess ==
  \A e, f \in processing : Guard(e) /\ Guard(f) => e = f

\* An elector that the handler has left behind is cancelled: none goes on campaigning
\* once the server is drained.
LeftElectorsAreCancelled ==
  \A e \in Elector : elector[e].pc # "exited" => e = handler.elector \/ e \in cancelled

\* The inductive invariant.
HandlerInv ==
  HandlerTypeOK /\ ElectionInv /\ GaugeInv /\ TermInv /\ LeftElectorsAreCancelled
-----------------------------------------------------------------------------
(* Types, and the sessions of the electors. *)

PCs == {"exited", "delay", "create", "campaign", "wait", "won", "notify", "leading",
        "resign", "notifyLost", "cooldown"}

\* The steps of this server's electors in etcd are steps of its sessions.
LEMMA HandlerElectionStep ==
  [HandlerNext]_electionHandlerVars => [ElectionNext]_electionVars
<1> SUFFICES ASSUME [HandlerNext]_electionHandlerVars PROVE [ElectionNext]_electionVars
  OBVIOUS
<1>0. Elector \subseteq Session BY HandlerAssumption
<1>1. CASE HandlerStep
  BY <1>1, Zenon DEF HandlerStep, EnterCampaigning, StartElection, ReadNotice, HandlerStops,
              LeaveCampaigning, EnterIdle, Idle, electorVars
<1>2. ASSUME NEW e \in Elector, ElectorStep(e) PROVE [ElectionNext]_electionVars
  <2>1. CASE Campaign(e)
    BY <1>0, <2>1 DEF Campaign, ElectionNext
  <2>2. CASE WaitForKeys(e)
    BY <1>0, <2>2 DEF WaitForKeys, ElectionNext
  <2>3. CASE StepDown(e)
    <3>1. UNCHANGED electionVars \/ \E failed \in BOOLEAN : Resign(e, failed)
      BY <2>3, Zenon DEF StepDown
    <3> QED BY <1>0, <3>1 DEF ElectionNext
  <2>4. CASE \/ Delay(e) \/ CreateElection(e) \/ RunProcess(e) \/ NotifyLeader(e) \/ EndTerm(e)
             \/ NotifyLost(e) \/ Cooldown(e)
    BY <2>4, Zenon
      DEF Delay, CreateElection, RunProcess, NotifyLeader, EndTerm, NotifyLost, Cooldown
  <2> QED BY <1>2, <2>1, <2>2, <2>3, <2>4 DEF ElectorStep
<1>3. ASSUME NEW e \in Elector, LeaseRunsOut(e) PROVE [ElectionNext]_electionVars
  BY <1>0, <1>3 DEF LeaseRunsOut, ElectionNext
<1>4. ASSUME NEW s \in Session \ Elector, OtherServer(s) PROVE [ElectionNext]_electionVars
  BY <1>4, Zenon DEF OtherServer, ElectionNext
<1>5. CASE StartManager \/ StopManager \/ SignalDrain \/ SignalUndrain
  BY <1>5 DEF StartManager, StopManager, SignalDrain, SignalUndrain, electorVars
<1>6. CASE UNCHANGED electionHandlerVars
  BY <1>6 DEF electionHandlerVars, electorVars
<1> QED BY <1>1, <1>2, <1>3, <1>4, <1>5, <1>6 DEF HandlerNext

\* A server that drains, undrains, stops and starts electors side by side takes part in
\* the election as sessions of LeaderElection do.
THEOREM HandlerImplementsElection == HandlerSpec => ElectionSpec
<1>1. HandlerInit => ElectionInit BY DEF HandlerInit
<1> QED BY <1>1, HandlerElectionStep, PTL DEF HandlerSpec, ElectionSpec

\* Its first state.
LEMMA HandlerTypeInitial == HandlerInit => HandlerTypeOK
<1> SUFFICES ASSUME HandlerInit PROVE HandlerTypeOK
  OBVIOUS
<1>1. ElectionTypeOK BY ElectionInvInit DEF HandlerInit, ElectionInv
<1>2. gauge \in BOOLEAN /\ ctxDone \in BOOLEAN BY Zenon DEF HandlerInit
<1>3. /\ elector \in [Elector -> [pc : PCs, err : {"none", "self", "failed"}]]
      /\ notices \in [Elector -> {<<>>, <<TRUE>>, <<FALSE>>}]
  BY DEF HandlerInit, NoElector, PCs
<1>4. /\ handler \in [pc : {"new", "start", "check", "campaigning", "drained", "idle", "ended"},
                     elector : Elector \cup {Nobody}, drainCh : Nat, undrainCh : Nat]
      /\ signal \in [drains : 0..MaxDrains, undrains : 0..MaxDrains] /\ faults \in 0..MaxFaults
      /\ cancelled \subseteq Elector /\ processing \subseteq Elector
  BY HandlerAssumption DEF HandlerInit
<1> QED BY <1>1, <1>2, <1>3, <1>4, Zenon DEF HandlerTypeOK, PCs

\* An elector goes on at pc.
LEMMA GotoStep ==
  ASSUME HandlerTypeOK, NEW e \in Elector, NEW pc \in PCs,
         NEW err \in {"none", "self", "failed"}, Goto(e, pc, err)
  PROVE  /\ elector' \in [Elector -> [pc : PCs, err : {"none", "self", "failed"}]]
         /\ elector'[e].pc = pc
         /\ \A f \in Elector \ {e} : elector'[f] = elector[f]
  BY DEF Goto, HandlerTypeOK, PCs

\* An attempt is over.
LEMMA NextAttemptStep ==
  ASSUME HandlerTypeOK, NEW e \in Elector, NEW err, NextAttempt(e, err)
  PROVE  /\ elector' \in [Elector -> [pc : PCs, err : {"none", "self", "failed"}]]
         /\ elector'[e].pc \in {"exited", "delay", "cooldown"}
         /\ \A f \in Elector \ {e} : elector'[f] = elector[f]
  BY DEF NextAttempt, NoElector, HandlerTypeOK, PCs

\* How an elector goes on, step by step.
LEMMA ElectorMoves ==
  ASSUME HandlerTypeOK, NEW e \in Elector
  PROVE  /\ Delay(e) => elector'[e].pc \in {"create", "exited", "delay", "cooldown"}
         /\ CreateElection(e) => elector'[e].pc \in {"campaign", "exited", "delay", "cooldown"}
         /\ Campaign(e) => \/ StartCampaign(e) /\ elector'[e].pc = "wait"
                           \/ UNCHANGED electionVars /\ elector'[e].pc = "resign"
         /\ WaitForKeys(e) => \/ BecomeLeader(e) /\ elector'[e].pc = "won"
                              \/ UNCHANGED electionVars /\ elector'[e].pc = "resign"
         /\ RunProcess(e) => elector'[e].pc = "notify"
         /\ NotifyLeader(e) => elector'[e].pc = "leading"
         /\ EndTerm(e) => elector'[e].pc = "resign"
         /\ StepDown(e) => elector'[e].pc = "notifyLost"
         /\ NotifyLost(e) => elector'[e].pc \in {"exited", "delay", "cooldown"}
         /\ Cooldown(e) => elector'[e].pc \in {"exited", "delay", "cooldown"}
         /\ ElectorStep(e) =>
              /\ elector' \in [Elector -> [pc : PCs, err : {"none", "self", "failed"}]]
              /\ \A f \in Elector \ {e} : elector'[f] = elector[f]
<1>1. elector[e].err \in {"none", "self", "failed"} BY DEF HandlerTypeOK
<1> DEFINE Kept == /\ elector' \in [Elector -> [pc : PCs, err : {"none", "self", "failed"}]]
                   /\ \A f \in Elector \ {e} : elector'[f] = elector[f]
<1>2. \A pc \in PCs, err \in {"none", "self", "failed"} :
        Goto(e, pc, err) => Kept /\ elector'[e].pc = pc
  BY GotoStep
<1>3. \A err : NextAttempt(e, err) => Kept /\ elector'[e].pc \in {"exited", "delay", "cooldown"}
  BY NextAttemptStep
<1> HIDE DEF Kept
<1>4. {"create", "campaign", "wait", "resign", "won", "notify", "leading", "notifyLost"}
        \subseteq PCs
  BY DEF PCs
<1>5. Delay(e) => Kept /\ elector'[e].pc \in {"create", "exited", "delay", "cooldown"}
  BY <1>2, <1>3, <1>4 DEF Delay
<1>6. CreateElection(e) => Kept /\ elector'[e].pc \in {"campaign", "exited", "delay", "cooldown"}
  BY <1>2, <1>3, <1>4 DEF CreateElection
<1>7. Campaign(e) => Kept /\ \/ StartCampaign(e) /\ elector'[e].pc = "wait"
                             \/ UNCHANGED electionVars /\ elector'[e].pc = "resign"
  BY <1>2, <1>4 DEF Campaign
<1>8. WaitForKeys(e) => Kept /\ \/ BecomeLeader(e) /\ elector'[e].pc = "won"
                                \/ UNCHANGED electionVars /\ elector'[e].pc = "resign"
  BY <1>2, <1>4 DEF WaitForKeys
<1>9. RunProcess(e) => Kept /\ elector'[e].pc = "notify" BY <1>2, <1>4 DEF RunProcess
<1>10. NotifyLeader(e) => Kept /\ elector'[e].pc = "leading" BY <1>2, <1>4 DEF NotifyLeader
<1>11. EndTerm(e) => Kept /\ elector'[e].pc = "resign" BY <1>2, <1>4 DEF EndTerm
<1>12. StepDown(e) => Kept /\ elector'[e].pc = "notifyLost" BY <1>1, <1>2, <1>4 DEF StepDown
<1>13. NotifyLost(e) => Kept /\ elector'[e].pc \in {"exited", "delay", "cooldown"}
  BY <1>3 DEF NotifyLost
<1>14. Cooldown(e) => Kept /\ elector'[e].pc \in {"exited", "delay", "cooldown"}
  BY <1>3 DEF Cooldown
<1>15. ElectorStep(e) => Kept
  BY <1>5, <1>6, <1>7, <1>8, <1>9, <1>10, <1>11, <1>12, <1>13, <1>14 DEF ElectorStep
<1> QED
  BY <1>5, <1>6, <1>7, <1>8, <1>9, <1>10, <1>11, <1>12, <1>13, <1>14, <1>15, Zenon DEF Kept

\* What an elector leaves alone.
LEMMA ElectorFrame ==
  ASSUME HandlerTypeOK, NEW e \in Elector, ElectorStep(e)
  PROVE  /\ UNCHANGED <<handler, gauge, cancelled, signal, ctxDone>>
         /\ faults' \in 0 .. MaxFaults
         /\ elector[e].pc # "exited"
         /\ processing' \subseteq Elector
         /\ notices' \in [Elector -> {<<>>, <<TRUE>>, <<FALSE>>}]
         /\ \A f \in Elector \ {e} : /\ notices'[f] = notices[f] /\ role'[f] = role[f]
                                     /\ f \in processing' <=> f \in processing
<1>1. UNCHANGED <<handler, gauge, cancelled, signal, ctxDone>>
  BY Zenon
    DEF ElectorStep, Delay, CreateElection, Campaign, WaitForKeys, RunProcess, NotifyLeader,
         EndTerm, StepDown, NotifyLost, Cooldown, handlerVars, worldVars
<1>2. faults' = faults \/ (faults < MaxFaults /\ faults' = faults + 1)
  BY Zenon
    DEF ElectorStep, Delay, CreateElection, Campaign, WaitForKeys, RunProcess, NotifyLeader,
         EndTerm, StepDown, NotifyLost, Cooldown, worldVars, CallFails
<1>3. faults' \in 0 .. MaxFaults BY <1>2, HandlerAssumption DEF HandlerTypeOK
<1>4. elector[e].pc # "exited"
  BY Zenon
    DEF ElectorStep, Delay, CreateElection, Campaign, WaitForKeys, RunProcess, NotifyLeader,
         EndTerm, StepDown, NotifyLost, Cooldown
<1>5. processing' \in {processing, processing \cup {e}, processing \ {e}}
  BY Zenon
    DEF ElectorStep, Delay, CreateElection, Campaign, WaitForKeys, RunProcess, NotifyLeader,
         EndTerm, StepDown, NotifyLost, Cooldown
<1>6. \/ notices' = notices \/ notices' = [notices EXCEPT ![e] = <<TRUE>>]
      \/ notices' = [notices EXCEPT ![e] = <<FALSE>>]
  BY Zenon
    DEF ElectorStep, Delay, CreateElection, Campaign, WaitForKeys, RunProcess, NotifyLeader,
         EndTerm, StepDown, NotifyLost, Cooldown
<1>7. /\ notices' \in [Elector -> {<<>>, <<TRUE>>, <<FALSE>>}]
      /\ \A f \in Elector \ {e} : notices'[f] = notices[f]
  BY <1>6, Zenon DEF HandlerTypeOK
<1>8. role' = role \/ \E r \in {"idle", "campaigning", "leader"} : role' = [role EXCEPT ![e] = r]
  BY Zenon
    DEF ElectorStep, Delay, CreateElection, Campaign, WaitForKeys, RunProcess, NotifyLeader,
         EndTerm, StepDown, NotifyLost, Cooldown, electionVars, StartCampaign, BecomeLeader, Resign
<1>9. \A f \in Elector \ {e} : role'[f] = role[f]
  BY <1>8, HandlerAssumption DEF HandlerTypeOK, ElectionTypeOK
<1> QED BY <1>1, <1>3, <1>4, <1>5, <1>7, <1>9, Zenon DEF HandlerTypeOK

\* Its term is where its pc says.
LEMMA ElectorTerm ==
  ASSUME HandlerTypeOK, TermInv, NEW e \in Elector, ElectorStep(e)
  PROVE  TermInv'
<1>1. \A f \in Elector \ {e} : /\ elector'[f] = elector[f] /\ role'[f] = role[f]
                               /\ f \in processing' <=> f \in processing
  BY ElectorMoves, ElectorFrame, Zenon
<1>2. e \in Session /\ role \in [Session -> {"idle", "campaigning", "leader"}]
  BY HandlerAssumption DEF HandlerTypeOK, ElectionTypeOK
<1> DEFINE Term ==
      /\ elector'[e].pc \in {"exited", "delay", "create", "campaign", "notifyLost", "cooldown"} =>
           role'[e] = "idle"
      /\ elector'[e].pc = "wait" => role'[e] = "campaigning"
      /\ elector'[e].pc \in {"won", "notify", "leading"} => role'[e] = "leader"
      /\ e \in processing' =>
           elector'[e].pc \in {"notify", "leading", "resign"} /\ role'[e] = "leader"
<1>t. Term => TermInv'
  <2> SUFFICES ASSUME Term, NEW f \in Elector
               PROVE  (/\ elector[f].pc \in {"exited", "delay", "create", "campaign", "notifyLost",
                                            "cooldown"} => role[f] = "idle"
                       /\ elector[f].pc = "wait" => role[f] = "campaigning"
                       /\ elector[f].pc \in {"won", "notify", "leading"} => role[f] = "leader"
                       /\ f \in processing =>
                            elector[f].pc \in {"notify", "leading", "resign"} /\ role[f] = "leader")'
    BY DEF TermInv
  <2>1. CASE f = e BY <2>1
  <2>2. CASE f # e BY <1>1, <2>2 DEF TermInv
  <2> QED BY <2>1, <2>2
<1>3. CASE Delay(e) \/ CreateElection(e) \/ Cooldown(e) \/ NotifyLost(e)
  <2>1. /\ elector[e].pc \in {"delay", "create", "cooldown", "notifyLost"}
        /\ role' = role /\ processing' = processing
    BY <1>3, Zenon DEF Delay, CreateElection, Cooldown, NotifyLost, electionVars
  <2>2. elector'[e].pc \in {"exited", "delay", "create", "campaign", "cooldown"}
    BY <1>3, ElectorMoves
  <2>3. Term BY <2>1, <2>2 DEF TermInv
  <2> QED BY <1>t, <2>3
<1>4. CASE Campaign(e)
  <2>1. elector[e].pc = "campaign" /\ processing' = processing BY <1>4 DEF Campaign
  <2>2. \/ elector'[e].pc = "wait" /\ role'[e] = "campaigning"
        \/ elector'[e].pc = "resign" /\ role' = role
    BY <1>2, <1>4, ElectorMoves DEF StartCampaign, electionVars
  <2>3. Term BY <2>1, <2>2 DEF TermInv
  <2> QED BY <1>t, <2>3
<1>5. CASE WaitForKeys(e)
  <2>1. elector[e].pc = "wait" /\ processing' = processing BY <1>5 DEF WaitForKeys
  <2>2. \/ elector'[e].pc = "won" /\ role'[e] = "leader"
        \/ elector'[e].pc = "resign" /\ role' = role
    BY <1>2, <1>5, ElectorMoves DEF BecomeLeader, electionVars
  <2>3. Term BY <2>1, <2>2 DEF TermInv
  <2> QED BY <1>t, <2>3
<1>6. CASE RunProcess(e) \/ NotifyLeader(e) \/ EndTerm(e)
  <2>1. elector[e].pc \in {"won", "notify", "leading"} /\ role' = role
    BY <1>6, Zenon DEF RunProcess, NotifyLeader, EndTerm, electionVars
  <2>2. elector'[e].pc \in {"notify", "leading", "resign"} BY <1>6, ElectorMoves
  <2>3. Term BY <2>1, <2>2 DEF TermInv
  <2> QED BY <1>t, <2>3
<1>7. CASE StepDown(e)
  <2>1. processing' = processing \ {e} /\ role'[e] = "idle"
    BY <1>2, <1>7 DEF StepDown, electionVars, Resign
  <2>2. elector'[e].pc = "notifyLost" BY <1>7, ElectorMoves
  <2>3. Term BY <2>1, <2>2
  <2> QED BY <1>t, <2>3
<1> QED BY <1>3, <1>4, <1>5, <1>6, <1>7 DEF ElectorStep

\* It announces its terms.
LEMMA ElectorGauge ==
  ASSUME HandlerTypeOK, GaugeInv, NEW e \in Elector, ElectorStep(e)
  PROVE  GaugeInv'
<1>1. UNCHANGED <<handler, gauge>>
      /\ \A f \in Elector \ {e} : elector'[f] = elector[f] /\ notices'[f] = notices[f]
  BY ElectorMoves, ElectorFrame, Zenon
<1>2. CASE handler.pc # "campaigning" \/ handler.elector # e
  BY <1>1, <1>2, Zenon DEF GaugeInv, Announced
<1>3. CASE handler.pc = "campaigning" /\ handler.elector = e
  <2>1. /\ elector[e].pc = "leading" => Announced(e)
        /\ elector[e].pc \in {"exited", "delay", "create", "campaign", "wait", "won", "notify",
                             "cooldown"} => ~Announced(e)
    BY <1>3 DEF GaugeInv
  <2>2. SUFFICES /\ elector'[e].pc = "leading" => Announced(e)'
                 /\ elector'[e].pc \in {"exited", "delay", "create", "campaign", "wait", "won",
                                       "notify", "cooldown"} => ~Announced(e)'
    BY <1>1, <1>3, Zenon DEF GaugeInv, Announced
  <2>3. CASE \/ Delay(e) \/ CreateElection(e) \/ Cooldown(e) \/ Campaign(e) \/ WaitForKeys(e)
             \/ RunProcess(e)
    <3>1. elector[e].pc \in {"delay", "create", "cooldown", "campaign", "wait", "won"}
          /\ notices' = notices
      BY <2>3 DEF Delay, CreateElection, Cooldown, Campaign, WaitForKeys, RunProcess
    <3>2. elector'[e].pc # "leading" BY <2>3, ElectorMoves
    <3>3. Announced(e)' = Announced(e) BY <1>1, <3>1 DEF Announced
    <3> QED BY <2>1, <3>1, <3>2, <3>3
  <2>4. CASE NotifyLeader(e)
    <3>1. notices'[e] = <<TRUE>> BY <2>4, Zenon DEF NotifyLeader, HandlerTypeOK
    <3>2. elector'[e].pc = "leading" BY <2>4, ElectorMoves
    <3>3. Announced(e)' BY <3>1 DEF Announced
    <3> QED BY <3>2, <3>3
  <2>5. CASE EndTerm(e) \/ StepDown(e) BY <2>5, ElectorMoves
  <2>6. CASE NotifyLost(e)
    <3>1. notices'[e] = <<FALSE>> BY <2>6, Zenon DEF NotifyLost, HandlerTypeOK
    <3>2. elector'[e].pc # "leading" BY <2>6, ElectorMoves, Zenon
    <3>3. ~Announced(e)' BY <3>1 DEF Announced
    <3> QED BY <3>2, <3>3
  <2> QED BY <2>3, <2>4, <2>5, <2>6 DEF ElectorStep
<1> QED BY <1>2, <1>3

\* An elector keeps the invariant.
LEMMA ElectorKeepsInv ==
  ASSUME HandlerInv, NEW e \in Elector, ElectorStep(e), ElectionInv'
  PROVE  HandlerInv'
<1>1. HandlerTypeOK /\ GaugeInv /\ TermInv /\ LeftElectorsAreCancelled BY DEF HandlerInv
<1>2. /\ elector' \in [Elector -> [pc : PCs, err : {"none", "self", "failed"}]]
      /\ \A f \in Elector \ {e} : elector'[f] = elector[f]
  BY <1>1, ElectorMoves
<1>3. /\ UNCHANGED <<handler, gauge, cancelled, signal, ctxDone>>
      /\ faults' \in 0 .. MaxFaults /\ elector[e].pc # "exited" /\ processing' \subseteq Elector
      /\ notices' \in [Elector -> {<<>>, <<TRUE>>, <<FALSE>>}]
  BY <1>1, ElectorFrame, Zenon
<1>4. HandlerTypeOK'
  <2>1. ElectionTypeOK' BY DEF ElectionInv
  <2> QED BY <1>1, <1>2, <1>3, <2>1, Zenon DEF HandlerTypeOK, PCs
<1>5. LeftElectorsAreCancelled' BY <1>1, <1>2, <1>3 DEF LeftElectorsAreCancelled
<1>6. GaugeInv' BY <1>1, ElectorGauge
<1>7. TermInv' BY <1>1, ElectorTerm
<1> QED BY <1>4, <1>5, <1>6, <1>7 DEF HandlerInv

\* So do the leases of electors, other servers, drains and Stop.
LEMMA WorldKeepsInv ==
  ASSUME HandlerInv, ElectionInv',
         \/ \E e \in Elector : LeaseRunsOut(e)
         \/ \E s \in Session \ Elector : OtherServer(s)
         \/ StopManager \/ SignalDrain \/ SignalUndrain
  PROVE  HandlerInv'
<1>1. HandlerTypeOK /\ GaugeInv /\ TermInv /\ LeftElectorsAreCancelled BY DEF HandlerInv
<1>2. UNCHANGED <<handler, gauge, elector, notices, processing, cancelled>>
  BY Zenon
    DEF LeaseRunsOut, OtherServer, StopManager, SignalDrain, SignalUndrain, handlerVars,
         electorVars
<1>3. \A e \in Elector : role'[e] = role[e]
  <2>1. role \in [Session -> {"idle", "campaigning", "leader"}] /\ Elector \subseteq Session
    BY <1>1, HandlerAssumption DEF HandlerTypeOK, ElectionTypeOK
  <2>2. ASSUME NEW s \in Session \ Elector, OtherServer(s)
        PROVE  \E r \in {"idle", "campaigning", "leader"} : role' = [role EXCEPT ![s] = r]
    BY <2>2 DEF OtherServer, StartCampaign, BecomeLeader, Resign
  <2>3. CASE \E s \in Session \ Elector : OtherServer(s) BY <2>1, <2>2, <2>3
  <2>4. CASE \E e \in Elector : LeaseRunsOut(e) BY <2>4 DEF LeaseRunsOut, LeaseExpires
  <2>5. CASE StopManager \/ SignalDrain \/ SignalUndrain
    BY <2>5 DEF StopManager, SignalDrain, SignalUndrain, electorVars, electionVars
  <2> QED BY <2>3, <2>4, <2>5
<1>4. /\ ctxDone' \in BOOLEAN /\ faults' \in 0 .. MaxFaults
      /\ signal' \in [drains : 0..MaxDrains, undrains : 0..MaxDrains]
  <2>1. ctxDone' = ctxDone \/ ctxDone' = TRUE
    BY Zenon
      DEF LeaseRunsOut, OtherServer, StopManager, SignalDrain, SignalUndrain, worldVars
  <2>2. ctxDone' \in BOOLEAN BY <1>1, <2>1, Zenon DEF HandlerTypeOK
  <2>3. faults' = faults \/ (faults < MaxFaults /\ faults' = faults + 1)
    BY Zenon
      DEF LeaseRunsOut, OtherServer, StopManager, SignalDrain, SignalUndrain, worldVars
  <2>4. faults' \in 0 .. MaxFaults BY <1>1, <2>3, HandlerAssumption DEF HandlerTypeOK
  <2>5. \/ signal' = signal
        \/ signal.drains < MaxDrains /\ signal' = [signal EXCEPT !.drains = @ + 1]
        \/ signal.undrains < signal.drains /\ signal' = [signal EXCEPT !.undrains = @ + 1]
    BY Zenon
      DEF LeaseRunsOut, OtherServer, StopManager, SignalDrain, SignalUndrain, worldVars
  <2>6. signal' \in [drains : 0..MaxDrains, undrains : 0..MaxDrains]
    BY <1>1, <2>5, HandlerAssumption DEF HandlerTypeOK
  <2> QED BY <2>2, <2>4, <2>6
<1>5. HandlerTypeOK'
  <2>1. ElectionTypeOK' BY DEF ElectionInv
  <2> QED BY <1>1, <1>2, <1>4, <2>1, Zenon DEF HandlerTypeOK
<1>6. GaugeInv' /\ LeftElectorsAreCancelled'
  BY <1>1, <1>2, Zenon DEF GaugeInv, Announced, LeftElectorsAreCancelled
<1>7. TermInv' BY <1>1, <1>2, <1>3 DEF TermInv
<1> QED BY <1>5, <1>6, <1>7 DEF HandlerInv

\* The states of the handler.
HandlerType == [pc : {"new", "start", "check", "campaigning", "drained", "idle", "ended"},
                elector : Elector \cup {Nobody}, drainCh : Nat, undrainCh : Nat]

\* The handler goes from one state without an elector to another.
LEMMA IdleKeepsInv ==
  ASSUME HandlerInv, ElectionInv', StartManager \/ EnterCampaigning \/ EnterIdle \/ Idle
  PROVE  HandlerInv'
<1>1. HandlerTypeOK /\ GaugeInv /\ TermInv /\ LeftElectorsAreCancelled BY DEF HandlerInv
<1>2. /\ UNCHANGED <<gauge, elector, notices, processing, cancelled>>
      /\ UNCHANGED <<role, signal, ctxDone, faults>>
  BY
    DEF StartManager, EnterCampaigning, EnterIdle, Idle, electorVars, electionVars, worldVars
<1>3. handler \in HandlerType /\ signal.drains \in Nat /\ signal.undrains \in Nat
  BY <1>1, HandlerAssumption DEF HandlerTypeOK, HandlerType
<1>4. /\ handler' \in HandlerType /\ handler'.elector = handler.elector
      /\ handler.pc # "campaigning" /\ handler'.pc # "campaigning"
  BY <1>3, Zenon DEF StartManager, EnterCampaigning, EnterIdle, Idle, HandlerType
<1>5. HandlerTypeOK'
  <2>1. ElectionTypeOK' BY DEF ElectionInv
  <2> QED BY <1>1, <1>2, <1>4, <2>1, Zenon DEF HandlerTypeOK, HandlerType
<1>6. GaugeInv' BY <1>1, <1>2, <1>4 DEF GaugeInv
<1>7. TermInv' /\ LeftElectorsAreCancelled'
  BY <1>1, <1>2, <1>4 DEF TermInv, LeftElectorsAreCancelled
<1> QED BY <1>5, <1>6, <1>7 DEF HandlerInv

\* It starts an elector, unless a drain came first.
LEMMA StartElectionKeepsInv ==
  ASSUME HandlerInv, ElectionInv', StartElection
  PROVE  HandlerInv'
<1>1. HandlerTypeOK /\ GaugeInv /\ TermInv /\ LeftElectorsAreCancelled BY DEF HandlerInv
<1>2. UNCHANGED <<gauge, processing, role, signal, ctxDone, faults>>
      /\ handler.pc = "check"
  BY Zenon DEF StartElection, electionVars, worldVars
<1>3. handler \in HandlerType BY <1>1 DEF HandlerTypeOK, HandlerType
<1>4. ElectionTypeOK' BY DEF ElectionInv
<1>5. CASE /\ handler' = [handler EXCEPT !.pc = "drained"]
           /\ UNCHANGED <<elector, cancelled, notices>>
  <2>1. /\ handler' \in HandlerType /\ handler'.elector = handler.elector
        /\ handler'.pc = "drained"
    BY <1>3, <1>5 DEF HandlerType
  <2>2. HandlerTypeOK' BY <1>1, <1>2, <1>4, <1>5, <2>1, Zenon DEF HandlerTypeOK, HandlerType
  <2>3. GaugeInv' BY <1>1, <1>2, <2>1 DEF GaugeInv
  <2>4. TermInv' /\ LeftElectorsAreCancelled'
    BY <1>1, <1>2, <1>5, <2>1 DEF TermInv, LeftElectorsAreCancelled
  <2> QED BY <2>2, <2>3, <2>4 DEF HandlerInv
<1>6. ASSUME NEW e \in Elector, elector[e] = NoElector,
             handler' = [handler EXCEPT !.pc = "campaigning", !.elector = e],
             elector' = [elector EXCEPT ![e].pc = "delay"],
             cancelled' = cancelled \ {e},
             notices' = [notices EXCEPT ![e] = <<>>]
      PROVE  HandlerInv'
  <2>1. /\ handler' \in HandlerType /\ handler'.elector = e /\ handler'.pc = "campaigning"
    BY <1>3, <1>6, Zenon DEF HandlerType
  <2>2. /\ elector' \in [Elector -> [pc : PCs, err : {"none", "self", "failed"}]]
        /\ elector'[e].pc = "delay" /\ elector[e].pc = "exited"
        /\ \A f \in Elector \ {e} : elector'[f] = elector[f]
    BY <1>1, <1>6 DEF HandlerTypeOK, PCs, NoElector
  <2>3. /\ notices' \in [Elector -> {<<>>, <<TRUE>>, <<FALSE>>}] /\ notices'[e] = <<>>
    BY <1>1, <1>6, Zenon DEF HandlerTypeOK
  <2>4. HandlerTypeOK'
    BY <1>1, <1>2, <1>4, <1>6, <2>1, <2>2, <2>3, Zenon DEF HandlerTypeOK, HandlerType, PCs
  <2>5. ~gauge /\ handler.elector = Nobody BY <1>1, <1>2 DEF GaugeInv
  <2>6. ~Announced(e)'
    <3>1. notices'[e] # <<TRUE>> BY <2>3
    <3> QED BY <1>2, <2>5, <3>1, Zenon DEF Announced
  <2>7. GaugeInv' BY <2>1, <2>2, <2>6, Zenon DEF GaugeInv, Announced
  <2>8. \A f \in Elector : elector'[f].pc = elector[f].pc
                           \/ (f = e /\ elector[f].pc = "exited" /\ elector'[f].pc = "delay")
    BY <2>2
  <2>9. TermInv' BY <1>1, <1>2, <2>8 DEF TermInv
  <2>10. Nobody \notin Elector BY HandlerAssumption
  <2>11. LeftElectorsAreCancelled'
    BY <1>1, <1>6, <2>1, <2>2, <2>5, <2>10 DEF LeftElectorsAreCancelled
  <2> QED BY <2>4, <2>7, <2>9, <2>11 DEF HandlerInv
<1> QED BY <1>5, <1>6, Zenon DEF StartElection

\* A channel with one notification.
LEMMA OneNotice ==
  ASSUME NEW b
  PROVE  Head(<<b>>) = b /\ Tail(<<b>>) = <<>>
  OBVIOUS

\* It reads a notification.
LEMMA ReadNoticeKeepsInv ==
  ASSUME HandlerInv, ElectionInv', ReadNotice
  PROVE  HandlerInv'
<1> DEFINE e == handler.elector
<1>1. HandlerTypeOK /\ GaugeInv /\ TermInv /\ LeftElectorsAreCancelled BY DEF HandlerInv
<1>2. /\ UNCHANGED <<handler, elector, processing, role, cancelled>>
      /\ UNCHANGED <<signal, ctxDone, faults>>
      /\ handler.pc = "campaigning" /\ notices[e] # <<>>
      /\ gauge' = Head(notices[e]) /\ notices' = [notices EXCEPT ![e] = Tail(@)]
  BY DEF ReadNotice, electionVars, worldVars
<1>3. e \in Elector BY <1>1, <1>2, Zenon DEF GaugeInv
<1>4. \/ notices[e] = <<TRUE>> /\ gauge' = TRUE
      \/ notices[e] = <<FALSE>> /\ gauge' = FALSE
  <2>1. notices[e] = <<TRUE>> \/ notices[e] = <<FALSE>>
    BY <1>1, <1>2, <1>3, Zenon DEF HandlerTypeOK
  <2> QED BY <1>2, <2>1, OneNotice, Zenon
<1>5. notices' \in [Elector -> {<<>>, <<TRUE>>, <<FALSE>>}] /\ notices'[e] = <<>>
  <2>1. Tail(notices[e]) = <<>> BY <1>4, OneNotice, Zenon
  <2>2. notices' = [notices EXCEPT ![e] = <<>>] BY <1>2, <2>1, Zenon
  <2> QED BY <1>1, <1>3, <2>2, Zenon DEF HandlerTypeOK
<1>6. gauge' \in BOOLEAN BY <1>4, Zenon
<1>7. HandlerTypeOK'
  <2>1. ElectionTypeOK' BY DEF ElectionInv
  <2> QED BY <1>1, <1>2, <1>5, <1>6, <2>1, Zenon DEF HandlerTypeOK
<1>8. Announced(e)' <=> Announced(e)
  <2>1. <<TRUE>> # <<FALSE>> OBVIOUS
  <2>2. notices'[e] # <<TRUE>> BY <1>5
  <2>3. CASE notices[e] = <<TRUE>> /\ gauge' = TRUE BY <1>2, <1>5, <2>3, Zenon DEF Announced
  <2>4. CASE notices[e] = <<FALSE>> /\ gauge' = FALSE
    BY <1>2, <2>1, <2>2, <2>4, Zenon DEF Announced
  <2> QED BY <1>4, <2>3, <2>4, Zenon
<1>9. GaugeInv' BY <1>1, <1>2, <1>3, <1>8, Zenon DEF GaugeInv, Announced
<1>10. TermInv' /\ LeftElectorsAreCancelled'
  BY <1>1, <1>2 DEF TermInv, LeftElectorsAreCancelled
<1> QED BY <1>7, <1>9, <1>10 DEF HandlerInv

\* It leaves its elector behind, cancelled.
LEMMA HandlerStopsKeepsInv ==
  ASSUME HandlerInv, ElectionInv', HandlerStops
  PROVE  HandlerInv'
<1>1. HandlerTypeOK /\ GaugeInv /\ TermInv /\ LeftElectorsAreCancelled BY DEF HandlerInv
<1>2. PICK pc \in {"ended", "drained", "start"} :
        LeaveCampaigning(pc) /\ handler.pc = "campaigning"
  BY DEF HandlerStops
<1>3. /\ UNCHANGED <<elector, notices, processing, role, signal, ctxDone, faults>>
      /\ handler' = [handler EXCEPT !.pc = pc, !.elector = Nobody]
      /\ cancelled' = cancelled \cup {handler.elector} /\ gauge' = FALSE
  BY <1>2 DEF LeaveCampaigning, electorVars, electionVars, worldVars
<1>4. handler.elector \in Elector BY <1>1, <1>2 DEF GaugeInv
<1>5. handler \in HandlerType BY <1>1 DEF HandlerTypeOK, HandlerType
<1>6. handler' \in HandlerType /\ handler'.elector = Nobody /\ handler'.pc = pc
  BY <1>3, <1>5, Zenon DEF HandlerType
<1>7. gauge' \in BOOLEAN BY <1>3, Zenon
<1>8. HandlerTypeOK'
  <2>1. ElectionTypeOK' BY DEF ElectionInv
  <2> QED BY <1>1, <1>3, <1>4, <1>6, <1>7, <2>1, Zenon DEF HandlerTypeOK, HandlerType
<1>9. GaugeInv' BY <1>3, <1>6 DEF GaugeInv
<1>10. TermInv' /\ LeftElectorsAreCancelled'
  BY <1>1, <1>3 DEF TermInv, LeftElectorsAreCancelled
<1> QED BY <1>8, <1>9, <1>10 DEF HandlerInv

\* Every step keeps the invariant.
LEMMA HandlerStepKeepsInv == HandlerInv /\ [HandlerNext]_electionHandlerVars => HandlerInv'
<1> SUFFICES ASSUME HandlerInv, [HandlerNext]_electionHandlerVars PROVE HandlerInv'
  OBVIOUS
<1>1. ElectionInv' BY HandlerElectionStep, ElectionInvNext DEF HandlerInv
<1>2. CASE UNCHANGED electionHandlerVars
  <2>1. /\ UNCHANGED <<handler, gauge, elector, notices, processing, cancelled>>
        /\ UNCHANGED <<role, signal, ctxDone, faults>>
    BY <1>2 DEF electionHandlerVars, handlerVars, electorVars, electionVars, worldVars
  <2>2. HandlerTypeOK'
    <3>1. ElectionTypeOK' BY <1>1 DEF ElectionInv
    <3> QED BY <2>1, <3>1, Zenon DEF HandlerInv, HandlerTypeOK
  <2>3. GaugeInv' BY <2>1, Zenon DEF HandlerInv, GaugeInv, Announced
  <2>4. TermInv' /\ LeftElectorsAreCancelled'
    BY <2>1 DEF HandlerInv, TermInv, LeftElectorsAreCancelled
  <2> QED BY <1>1, <2>2, <2>3, <2>4 DEF HandlerInv
<1> QED
  BY <1>1, <1>2, ElectorKeepsInv, WorldKeepsInv, IdleKeepsInv, StartElectionKeepsInv,
     ReadNoticeKeepsInv, HandlerStopsKeepsInv DEF HandlerNext, HandlerStep

\* It holds when the manager was created.
LEMMA HandlerInitial == HandlerInit => HandlerInv
<1> SUFFICES ASSUME HandlerInit PROVE HandlerInv
  OBVIOUS
<1>1. HandlerTypeOK /\ ElectionInv
  BY HandlerTypeInitial, ElectionInvInit DEF HandlerInit
<1>2. GaugeInv BY DEF HandlerInit, GaugeInv
<1>3. TermInv /\ LeftElectorsAreCancelled
  BY HandlerAssumption
     DEF HandlerInit, ElectionInit, NoElector, TermInv, LeftElectorsAreCancelled
<1> QED BY <1>1, <1>2, <1>3 DEF HandlerInv

\* The inductive invariant of the handler and its electors.
THEOREM HandlerCorrect == HandlerSpec => []HandlerInv
  BY HandlerInitial, HandlerStepKeepsInv, PTL DEF HandlerSpec

\* The is-leader metric says what the elector announced, for any number of electors that
\* earlier drains left behind.
THEOREM GaugeIsRight == HandlerSpec => []GaugeFollowsElector
<1>1. HandlerInv => GaugeFollowsElector
  <2> SUFFICES ASSUME HandlerInv, handler.pc = "campaigning", notices[handler.elector] = <<>>
               PROVE  /\ elector[handler.elector].pc = "leading" => gauge
                      /\ elector[handler.elector].pc \in {"delay", "create", "campaign", "wait",
                                                         "won", "notify", "cooldown"} => ~gauge
    BY DEF GaugeFollowsElector
  <2>1. notices[handler.elector] # <<TRUE>> OBVIOUS
  <2> QED BY <2>1 DEF HandlerInv, GaugeInv, Announced
<1> QED BY <1>1, HandlerCorrect, PTL

\* A server with several electors never runs two leader processes with a valid guard.
THEOREM OneProcessLeads == HandlerSpec => []OneFencedProcess
<1>1. HandlerInv => OneFencedProcess
  BY ElectionInvImpliesSingle, HandlerAssumption
     DEF HandlerInv, HandlerTypeOK, TermInv, SingleFencedLeader, OneFencedProcess
<1> QED BY <1>1, HandlerCorrect, PTL

\* Whenever the handler is not campaigning, because it is drained, stopped or between two
\* electors, every elector that still runs was told to stop.
THEOREM DrainsReachElectors == HandlerSpec => []LeftElectorsAreCancelled
<1>1. HandlerInv => LeftElectorsAreCancelled BY DEF HandlerInv
<1> QED BY <1>1, HandlerCorrect, PTL
=============================================================================
