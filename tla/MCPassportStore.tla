-------------------------- MODULE MCPassportStore --------------------------
(***************************************************************************)
(* Instances of PassportStore for TLC, whose constants are all given in    *)
(* the configuration.                                                      *)
(***************************************************************************)
EXTENDS PassportStore
=============================================================================
