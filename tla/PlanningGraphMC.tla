-------------------------- MODULE PlanningGraphMC --------------------------
(* Small instances of PlanningGraph for TLC.                               *)
EXTENDS PlanningGraph

CONSTANTS api, db

Calls == {<< api, db >>}

SomeProposals ==
  [c \in {api, db} |-> IF c = api THEN {"sound", "weak"} ELSE {"sound", "retired"}]

(* Strategies that lack nothing, or both parts: the rules then name the    *)
(* tier-1 components, or nobody where the model has none.                  *)
SomeDrafts == {{"criteria", "steps"}, {}}

(* No finding, or one about a component.                                   *)
SomeCritiques == {{}, {{db}}}
=============================================================================
