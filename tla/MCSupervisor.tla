---------------------------- MODULE MCSupervisor ----------------------------
(* Small instances of Supervisor. *)
EXTENDS Supervisor, TLC

Symmetry == Permutations(Req) \cup Permutations(Conv) \cup Permutations(Model)
=============================================================================
