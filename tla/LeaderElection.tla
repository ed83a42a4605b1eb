---------------------------- MODULE LeaderElection ----------------------------
(***************************************************************************)
(* Election sessions competing for the leadership of one namespace.  A     *)
(* session is one pass of runElection on some host: it opens an etcd       *)
(* session, puts a leader key of its own, waits until every leader key     *)
(* created before its own is gone, leads, and resigns.  A session whose    *)
(* resignation fails leaves its key behind until the lease runs out.       *)
(***************************************************************************)
EXTENDS Integers, FiniteSets

CONSTANT Session

VARIABLES
  role,     \* what the session's elector is doing
  keys,     \* the sessions whose leader key exists in etcd
  ahead     \* the existing leader keys created before the session's own

electionVars == <<role, keys, ahead>>

ElectionTypeOK ==
  /\ role \in [Session -> {"idle", "campaigning", "leader"}]
  /\ keys \in SUBSET Session
  /\ ahead \in [Session -> SUBSET Session]

ElectionInit ==
  /\ role = [s \in Session |-> "idle"]
  /\ keys = {}
  /\ ahead = [s \in Session |-> {}]

\* The leader keys of the sessions in D disappear; whoever waits for one of
\* them no longer does.
DeleteKeys(D) ==
  /\ keys' = keys \ D
  /\ ahead' = [s \in Session |-> ahead[s] \ D]

\* Guard without the comparison.
GuardAlways(s) == s \in Session

\* The transaction guard of a session: its own leader key still exists at the
\* revision it was created with.
Guard(s) == s \in keys

\* CreateElection and the put of Campaign.
StartCampaign(s) ==
  /\ role[s] = "idle" /\ s \notin keys
  /\ role' = [role EXCEPT ![s] = "campaigning"]
  /\ keys' = keys \cup {s}
  /\ ahead' = [ahead EXCEPT ![s] = keys]

\* BecomeLeader without the wait.
BecomeLeaderAtOnce(s) ==
  /\ role[s] = "campaigning"
  /\ role' = [role EXCEPT ![s] = "leader"]
  /\ UNCHANGED <<keys, ahead>>

\* Campaign returns once no key created earlier is left.  It does not look at
\* the session's own key again.
BecomeLeader(s) ==
  /\ role[s] = "campaigning" /\ ahead[s] = {}
  /\ role' = [role EXCEPT ![s] = "leader"]
  /\ UNCHANGED <<keys, ahead>>

\* The elector leaves: the leader period ended, the session expired, the
\* campaign failed or the context was cancelled.  The processor has been
\* terminated by then.  Resign and Cleanup delete the key unless both fail.
Resign(s, failed) ==
  /\ role[s] # "idle"
  /\ role' = [role EXCEPT ![s] = "idle"]
  /\ IF failed THEN UNCHANGED <<keys, ahead>> ELSE DeleteKeys({s})

\* The lease of a session runs out; its elector need not have noticed.
LeaseExpires(s) ==
  /\ s \in keys
  /\ DeleteKeys({s})
  /\ UNCHANGED role

\* ResetNamespace deletes every leader key and leaves the electors alone.
ResetLeaderKeys ==
  /\ DeleteKeys(Session)
  /\ UNCHANGED role

ElectionNext ==
  \/ \E s \in Session : \/ StartCampaign(s) \/ BecomeLeader(s) \/ LeaseExpires(s)
                        \/ \E failed \in BOOLEAN : Resign(s, failed)
  \/ ResetLeaderKeys

\* The election by itself.  A namespace runs it together with its processors.
ElectionSpec == ElectionInit /\ [][ElectionNext]_electionVars

-----------------------------------------------------------------------------
\* At most one session leads with its leader key still in etcd, so the guard
\* of the leader's transactions lets at most one leader write, whatever the
\* leases, the failed resignations and the resets.
SingleFencedLeader ==
  \A s, t \in Session :
    role[s] = "leader" /\ role[t] = "leader" /\ Guard(s) /\ Guard(t) => s = t
=============================================================================
