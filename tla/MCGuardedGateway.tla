---------------------------- MODULE MCGuardedGateway ----------------------------
(***************************************************************************)
(* Three generations and three requests; the history has room for two       *)
(* complete generations of one call each, or one of two calls and the       *)
(* start of the next, and fills up in the middle of a call.                 *)
(***************************************************************************)
EXTENDS GuardedGateway, TLC

Symmetry == Permutations(Owners) \cup Permutations(Requests)
===============================================================================
