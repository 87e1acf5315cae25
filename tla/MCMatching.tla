----------------------------- MODULE MCMatching -----------------------------
(***************************************************************************)
(* Instances of Matching for TLC: a policy made from the one document.     *)
(* Its first version has a rule that the one value does not meet and a     *)
(* rule that the engine cannot decide, its second one a required rule that *)
(* the value meets, and an item of two fields.                             *)
(***************************************************************************)
EXTENDS Matching

CONSTANTS policy, document, size, sector, large, url

Asks(field, operator, accepts, required) ==
    [field |-> field, operator |-> operator, reads |-> Values, accepts |-> accepts,
     required |-> required]

TheRules == [k \in Policies \X Versions |->
    IF k[2] = 1 THEN {Asks(size, "LTE", {}, TRUE), Asks(sector, "IN", Values, TRUE)}
    ELSE {Asks(sector, "EQ", Values, TRUE), Asks(size, "LTE", {}, FALSE)}]
TheItems == [k \in Policies \X Versions |->
    IF k[2] = 1 THEN {{size}} ELSE {{size, sector}, {}}]
TheSource == [i \in Policies \cup Documents |-> url]
=============================================================================
