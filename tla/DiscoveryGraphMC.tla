--------------------------- MODULE DiscoveryGraphMC ---------------------------
(* Small instances of DiscoveryGraph for TLC.                              *)
EXTENDS DiscoveryGraph, TLC

CONSTANTS app, db, mine, theirs

(* The inventories of both accounts have the database, so that nothing     *)
(* tells the accounts apart.                                               *)
SomeMatches == [a \in {mine, theirs} |-> {db}]
AccountSymmetry == Permutations({mine, theirs})

Heard(intent, new, greenfield, signal) ==
  [intent |-> intent, components |-> new, removed |-> {}, linked |-> {}, unlinked |-> {},
   hosted |-> {}, rated |-> new, unsure |-> 0, settled |-> 0, asks |-> 0,
   answers |-> FALSE, greenfield |-> greenfield, signal |-> signal]

(* A target for a system that does not exist yet, a command to proceed, an *)
(* answer that names a component, and a correction that may be recorded as *)
(* a fact without a patch.                                                 *)
SomeReadings ==
  {Heard("target_planning", {db}, TRUE, "unknown"),
   Heard("proceed", {}, FALSE, "non_technical"),
   [Heard("current_fact", {app}, FALSE, "unknown") EXCEPT
      !.linked = {app, db}, !.hosted = {app}, !.settled = 1, !.answers = TRUE],
   [Heard("current_fact", {}, FALSE, "technical") EXCEPT
      !.removed = {db}, !.unlinked = {app, db}]}

SomeVerdicts == {[grave |-> 1, mild |-> 1, escalated |-> TRUE]}
=============================================================================
