------------------------- MODULE MCExtractionQueue -------------------------
(***************************************************************************)
(* Instances of ExtractionQueue for TLC.                                   *)
(***************************************************************************)
EXTENDS ExtractionQueue, TLC

Alike == Permutations(Jobs) \cup Permutations(Workers)
=============================================================================
