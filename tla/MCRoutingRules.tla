--------------------------- MODULE MCRoutingRules ---------------------------
(***************************************************************************)
(* RoutingRules for TLC: the write requests are interchangeable.           *)
(***************************************************************************)
EXTENDS RoutingRules, TLC

RequestSymmetry == Permutations(Requests)
=============================================================================
