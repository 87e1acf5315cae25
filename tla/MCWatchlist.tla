---------------------------- MODULE MCWatchlist -----------------------------
(***************************************************************************)
(* Instances of Watchlist for TLC.                                         *)
(***************************************************************************)
EXTENDS Watchlist

Pairs == {{"POLICY_NEW", "EVIDENCE_STALE"}, {"DEADLINE"}, {"POLICY_CHANGED"}}
NotYet == {{}}

\* A first version without review and a reviewed one with another deadline.
TwoVersions == {[deadline |-> 0, verified |-> FALSE], [deadline |-> 1, verified |-> TRUE]}
=============================================================================
