-------------------------- MODULE MigrationWavesMC --------------------------
(* Small instances of MigrationWaves for TLC.                              *)
EXTENDS MigrationWaves, FiniteSetsExt

CONSTANTS a, b, c, d

(* Every graph over some of the components that has at most five           *)
(* dependencies: two cycles, a cycle with a tail, a diamond with a chord.  *)
(* Dependencies of another kind between the same two are counted by their  *)
(* number: one takes a graph of four past the envelope.                    *)
SomeModels ==
  UNION {{[components |-> C, deps |-> D, parallel |-> IF Cardinality(D) = 4 THEN n ELSE 0] :
            n \in 0 .. 1, D \in UNION {kSubset(n, {e \in C \X C : e[1] # e[2]}) : n \in 0 .. 5}} :
         C \in {{a}, {a, b}, {a, b, c}, {a, b, c, d}}}

=============================================================================
