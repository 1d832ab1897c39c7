------------------------------ MODULE AgUiTurnsMC ------------------------------
(* Small instances of AgUiTurns for TLC.                                   *)
EXTENDS AgUiTurns, TLC

CONSTANTS r1, r2, r3, r4

SomeRequests == {r1, r2, r3, r4}
Symmetry == Permutations(SomeRequests)
=============================================================================
