--------------------------- MODULE SessionTurnsMC ---------------------------
(* Small instances of SessionTurns for TLC. *)
EXTENDS SessionTurns, TLC

Slots == Permutations(Requests)

=============================================================================
