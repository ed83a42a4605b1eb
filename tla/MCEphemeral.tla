----------------------------- MODULE MCEphemeral -----------------------------
(***************************************************************************)
(* An ephemeral namespace for TLC.  A behaviour has a scope: several       *)
(* servers that place several shards, or one server and one shard that is  *)
(* also drained and reported as DONE.  The scopes are closed under the     *)
(* permutations of servers and shards.                                     *)
(***************************************************************************)
EXTENDS MCShardDistributor

VARIABLE scope

mcEphemeralVars == <<mcVars, scope>>

Scope ==
  {[servers |-> Server, shards |-> Shard, leaving |-> {}, events |-> MaxEvents]}
    \cup {[servers |-> {a}, shards |-> {k}, leaving |-> {k}, events |-> MaxEvents - 1] :
            a \in Server, k \in Shard}

EphemeralInit == MCInit /\ scope \in Scope

EphemeralNext ==
  /\ MCNext
  /\ \A a \in Server : batch'[a] \subseteq scope.shards
  /\ \A a \in Server \ scope.servers : phase'[a] = "idle"
  /\ drainedShards' \subseteq scope.leaving
  /\ \A e \in Executor : reportedDone'[e] \subseteq scope.leaving
  /\ events' <= scope.events
  /\ UNCHANGED scope

EphemeralSpec == EphemeralInit /\ [][EphemeralNext]_mcEphemeralVars
=============================================================================
