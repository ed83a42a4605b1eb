----------------------------- MODULE NamespaceView -----------------------------
(***************************************************************************)
(* What a reader of a namespace is promised, whatever lies between it and  *)
(* the store: it is shown one revision of the store at a time, never goes  *)
(* back, and does not stay with an outdated state for good.                *)
(***************************************************************************)
EXTENDS Naturals, Sequences

CONSTANTS
  Nothing,    \* what is shown before the first revision
  Revision    \* the revisions whose arrival CatchesUp speaks of

VARIABLES
  log,        \* the state of the namespace at every revision
  seen,       \* the revision that is shown, 0 before the first
  shown       \* what is shown

viewVars == <<log, seen, shown>>

ViewInit ==
  /\ Len(log) = 1
  /\ seen = 0
  /\ shown = Nothing

\* The store goes on; the reader is not affected.
Write ==
  /\ Len(log') = Len(log) + 1
  /\ log = SubSeq(log', 1, Len(log))
  /\ UNCHANGED <<seen, shown>>

\* The reader is shown a newer revision, any of them, and all of it.
Advance ==
  /\ \E r \in (seen + 1)..Len(log) : seen' = r /\ shown' = log[r]
  /\ UNCHANGED log

ViewNext == Write \/ Advance

ViewSpec == ViewInit /\ [][ViewNext]_viewVars

-----------------------------------------------------------------------------
\* What is shown is as new as revision r, or nothing happened up to r.
AsNewAs(r) ==
  \/ seen >= r
  \/ Len(log) >= r /\ \A i \in (seen + 1)..r : log[i] = shown

\* Every revision, or what it changed, is shown at some time.
CatchesUp == \A r \in Revision : (Len(log) >= r) ~> AsNewAs(r)
=============================================================================
