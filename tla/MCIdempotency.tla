--------------------------- MODULE MCIdempotency ---------------------------
(***************************************************************************)
(* Instances of Idempotency for TLC.                                       *)
(***************************************************************************)
EXTENDS Idempotency, TLC

Alike == Permutations(Requests) \cup Permutations(Scopes) \cup Permutations(Hashes)
=============================================================================
