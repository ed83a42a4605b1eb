---------------------------- MODULE MCLifecycles ----------------------------
(***************************************************************************)
(* Two components that start, stop, drain and come back, for TLC: the      *)
(* spectator client and the election handler.  They share no state; a      *)
(* behaviour has one of them as its scope, and the other is never started. *)
(***************************************************************************)
EXTENDS SpectatorClient, ElectionHandler, TLC

VARIABLE scope

lifecycleVars == <<spectatorVars, electionHandlerVars, scope>>

LifecycleInit ==
    /\ SpectatorInit /\ HandlerInit
    /\ scope \in {"spectator", "election"}
    /\ scope = "election" => enabled

LifecycleNext ==
    \/ scope = "spectator" /\ SpectatorNext /\ UNCHANGED <<electionHandlerVars, scope>>
    \/ scope = "election" /\ HandlerNext /\ UNCHANGED <<spectatorVars, scope>>

LifecycleSpec ==
    /\ LifecycleInit /\ [][LifecycleNext]_lifecycleVars
    /\ SpectatorFairness /\ HandlerFairness
=============================================================================
