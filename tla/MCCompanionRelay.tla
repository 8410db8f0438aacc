-------------------------- MODULE MCCompanionRelay --------------------------
(* Small instances of CompanionRelay for TLC.                              *)
EXTENDS CompanionRelay, TLC

CONSTANTS c1, c2, p1, p2

\* Calls and polls differ in nothing: safety runs may permute them.
Symmetric == Permutations(Calls) \cup Permutations(Polls)
=============================================================================
