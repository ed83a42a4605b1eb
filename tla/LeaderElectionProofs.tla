------------------------ MODULE LeaderElectionProofs ------------------------
(***************************************************************************)
(* The election lets at most one leader through its guard, for every set   *)
(* of sessions.                                                            *)
(***************************************************************************)
EXTENDS LeaderElection, TLAPS

\* The inductive invariant.  The keys that a session waits for exist, any two
\* existing keys are ordered, and a leader waits for none.
ElectionInv ==
  /\ ElectionTypeOK
  /\ \A s \in Session : ahead[s] \subseteq keys \ {s}
  /\ \A s, t \in keys : s # t => s \in ahead[t] \/ t \in ahead[s]
  /\ \A s \in Session : role[s] = "leader" => ahead[s] = {}

\* Two leaders with existing keys would each have to wait for the other.
LEMMA ElectionInvImpliesSingle == ElectionInv => SingleFencedLeader
  BY DEF ElectionInv, ElectionTypeOK, SingleFencedLeader, Guard

\* No session has a key at first.
LEMMA ElectionInvInit == ElectionInit => ElectionInv
  BY DEF ElectionInit, ElectionInv, ElectionTypeOK

\* Every step of an elector, a lease or a reset keeps the order of the keys.
LEMMA ElectionInvNext == ElectionInv /\ [ElectionNext]_electionVars => ElectionInv'
<1> SUFFICES ASSUME ElectionInv, [ElectionNext]_electionVars
             PROVE  ElectionInv'
  OBVIOUS
<1> USE DEF ElectionInv, ElectionTypeOK
<1>0. ASSUME NEW D \in SUBSET Session, DeleteKeys(D),
             \A s \in Session : role'[s] = "leader" => role[s] = "leader",
             role' \in [Session -> {"idle", "campaigning", "leader"}]
      PROVE  ElectionInv'
  BY <1>0 DEF DeleteKeys
<1>1. ASSUME NEW s \in Session, StartCampaign(s)
      PROVE  ElectionInv'
  BY <1>1 DEF StartCampaign
<1>2. ASSUME NEW s \in Session, BecomeLeader(s)
      PROVE  ElectionInv'
  BY <1>2 DEF BecomeLeader
<1>3. ASSUME NEW s \in Session, LeaseExpires(s)
      PROVE  ElectionInv'
  BY <1>0, <1>3 DEF LeaseExpires
<1>4. ASSUME NEW s \in Session, NEW failed \in BOOLEAN, Resign(s, failed)
      PROVE  ElectionInv'
  <2>1. /\ role' \in [Session -> {"idle", "campaigning", "leader"}]
        /\ \A t \in Session : role'[t] = "leader" => role[t] = "leader"
    BY <1>4 DEF Resign
  <2>2. CASE failed
    BY <1>4, <2>1, <2>2 DEF Resign
  <2>3. CASE ~failed
    BY <1>0, <1>4, <2>1, <2>3 DEF Resign
  <2> QED
    BY <2>2, <2>3
<1>5. CASE ResetLeaderKeys
  BY <1>0, <1>5 DEF ResetLeaderKeys
<1>6. CASE UNCHANGED electionVars
  BY <1>6 DEF electionVars
<1> QED
  BY <1>1, <1>2, <1>3, <1>4, <1>5, <1>6 DEF ElectionNext

\* At most one session leads with its key in etcd, at every moment of every
\* election: the leadership guard never passes for two leaders at once.
THEOREM ElectionSafe == ElectionSpec => []SingleFencedLeader
  BY ElectionInvInit, ElectionInvNext, ElectionInvImpliesSingle, PTL DEF ElectionSpec
=============================================================================
