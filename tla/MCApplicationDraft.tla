------------------------ MODULE MCApplicationDraft -------------------------
(***************************************************************************)
(* Instances of ApplicationDraft for TLC.                                  *)
(***************************************************************************)
EXTENDS ApplicationDraft, TLC

Alike == Permutations(Updates) \cup Permutations(Actions) \cup Permutations(Reads)
=============================================================================
