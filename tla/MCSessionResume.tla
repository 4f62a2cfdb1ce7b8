-------------------------- MODULE MCSessionResume ---------------------------
(***************************************************************************)
(* An instance of SessionResume for TLC: a client may ask for either model *)
(* with its last message alone, or for the first with a system prompt or   *)
(* with its history.                                                       *)
(***************************************************************************)
EXTENDS SessionResume, TLC

CONSTANTS a, b  \* models

Plain(m) == [model |-> m, system |-> FALSE, history |-> FALSE]
MCAsks == {Plain(a), Plain(b), [Plain(a) EXCEPT !.system = TRUE],
           [Plain(a) EXCEPT !.history = TRUE]}

Symmetry == Permutations(Requests)
=============================================================================
