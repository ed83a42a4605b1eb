-------------------------- MODULE MCExecutorClient --------------------------
(***************************************************************************)
(* Instances of ExecutorClient for TLC.  A behaviour has one of three      *)
(* scopes: callers that ask for one shard, with drains and Stop; two       *)
(* shards, heartbeats that fail and processors that fail, without callers; *)
(* and a caller and the loop that hold different answers while two shards  *)
(* change hands three times.  Together they are far smaller than one       *)
(* instance with all of it.                                                *)
(***************************************************************************)
EXTENDS ExecutorClient, TLC

CONSTANTS k1, k2, c1

VARIABLE scope

mcClientVars == <<clientVars, scope>>

MCClientInit == ClientInit /\ scope \in {"calls", "shards", "order"}

\* The assignments of the scope "order".
Turns == <<{}, {k1}, {k2}, {k1}>>

\* A Start or Stop call has not returned: in the scope "order" it does at once.
Working == \E p \in Processor : proc[p].start = "running" \/ proc[p].stopping # {}

MCClientNext ==
    /\ ClientNext
    /\ scope = "calls" => assigned' \subseteq {k1} /\ failures' = 0
    /\ scope \in {"calls", "order"} => thread'[c1].shard # k2
    /\ scope = "shards" => thread'[c1].pc = "idle"
    /\ scope \in {"shards", "order"} => signal'.drains = 0 /\ ~stopC'
    /\ scope \in {"calls", "shards"} => changes' <= 2
    /\ scope = "order" =>
         /\ failures' = 0
         /\ assigned' = Turns[changes' + 1]
         /\ flight.stage # "none" /\ flight'.stage = "none" => Responds
         /\ Working => proc' # proc /\ UNCHANGED thread
    /\ UNCHANGED scope

MCClientSpec == MCClientInit /\ [][MCClientNext]_mcClientVars /\ ClientFairness
=============================================================================
