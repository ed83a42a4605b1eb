-------------------------- MODULE MCShardDistributor --------------------------
(***************************************************************************)
(* Instances of ShardDistributor for TLC.  The environment may act at most *)
(* MaxEvents times; the service itself is not bounded.                     *)
(***************************************************************************)
EXTENDS ShardDistributor, TLC

CONSTANTS
  MaxEvents,   \* how many times the environment acts
  h1, k1, k2, k3, s1, s2, a1, a2

VARIABLE events

mcVars == <<vars, events>>

\* Executor 1 reports a host, the others do not.
HostOfFirst == [e \in Executor |-> IF e = 1 THEN h1 ELSE NoHost]

HostOfNone == [e \in Executor |-> NoHost]

ServersAndShards == Permutations(Server) \cup Permutations(Shard)

SessionsAndShards == Permutations(Session) \cup Permutations(Shard)

MCInit == Init /\ events = 0

\* The lease of a session that has ended runs out by itself.
AbandonedLease(s) == LoseLease(s) /\ role[s] = "idle"

MCNext ==
  \/ ServiceNext /\ UNCHANGED events
  \/ (\E s \in Session : AbandonedLease(s)) /\ UNCHANGED events
  \/ EnvironmentNext /\ events < MaxEvents /\ events' = events + 1

MCSpec == MCInit /\ [][MCNext]_mcVars

-----------------------------------------------------------------------------
(* The same with fairness.  A leader period is longer than a rebalance, so an *)
(* elector that steps down in the middle of one, with its key in place, is    *)
(* an event.  So is a cleanup of statistics: each one that writes removes the *)
(* statistics of some shard, and the abstraction to one key per executor      *)
(* hides that it runs out of them.                                            *)

OrderlyStepDown(s) == StepDown(s) /\ (pc[s] = "waiting" \/ ~Guard(s))

LiveNext ==
  \/ /\ \/ \E s \in Session : \/ Elect(s) \/ OrderlyStepDown(s) \/ AbandonedLease(s)
                               \/ ProcessorStep(s) \/ FinishCleanup(s)
        \/ \E a \in Server : AssignerStep(a)
     /\ UNCHANGED events
  \/ /\ EnvironmentNext \/ (\E s \in Session : StepDown(s) \/ StartCleanup(s))
     /\ events < MaxEvents /\ events' = events + 1

\* Every elector goes on campaigning, every leader period ends, every lease
\* expires, and the loops of a processor go on.
Fairness ==
  \A s \in Session :
    /\ WF_mcVars(Elect(s) /\ UNCHANGED events)
    /\ WF_mcVars(OrderlyStepDown(s) /\ UNCHANGED events)
    /\ WF_mcVars(AbandonedLease(s) /\ UNCHANGED events)
    /\ WF_mcVars(ProcessorStep(s) /\ UNCHANGED events)

LiveSpec == MCInit /\ [][LiveNext]_mcVars /\ Fairness
=============================================================================
