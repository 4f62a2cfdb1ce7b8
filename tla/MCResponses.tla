---------------------------- MODULE MCResponses ----------------------------
(* Instances of Responses for TLC: creates are interchangeable. *)
EXTENDS Responses, TLC

Symmetry == Permutations(Req)
=============================================================================
