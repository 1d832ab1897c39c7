---------------------------- MODULE SessionGates ----------------------------
(***************************************************************************)
(* What a migration session promises its user, whatever happens inside a   *)
(* turn: the architecture is described, agreed at gate 1, planned,         *)
(* discussed together with its plan, and approved at gate 2.  A turn is    *)
(* one atomic step here; SessionTurns implements this with concurrent      *)
(* requests over database rows.                                            *)
(***************************************************************************)
CONSTANT Edits       \* the structural patches an architecture may hold

VARIABLES
  phase,             \* where the session is between its two gates
  architecture,      \* the edits of the newest architecture model
  agreed,            \* the edits of the model planning works from
  plan               \* the plan the session shows, and exports

vars == << phase, architecture, agreed, plan >>

NoPlan == [status |-> "none", basis |-> {}]
Reviewed(basis) == [status |-> "reviewed", basis |-> basis]

TypeOK ==
  /\ phase \in {"discovery", "planning", "review", "exported"}
  /\ architecture \subseteq Edits /\ agreed \subseteq Edits
  /\ plan \in [status : {"none", "reviewed", "final"}, basis : SUBSET Edits]

Init ==
  /\ phase = "discovery"
  /\ architecture = {} /\ agreed = {}
  /\ plan = NoPlan

(* A turn in discovery, or an import. *)
Describe ==
  /\ phase = "discovery"
  /\ \E e \in Edits : architecture' = architecture \cup {e}
  /\ UNCHANGED << phase, agreed, plan >>

(* Gate 1: only an architecture that describes something is agreed. *)
AcceptModel ==
  /\ phase = "discovery" /\ architecture # {}
  /\ phase' = "planning" /\ agreed' = architecture
  /\ UNCHANGED << architecture, plan >>

(* Past gate 1 a turn amends the agreed architecture itself. *)
Amend ==
  /\ \E more \in {{}} \cup {{e} : e \in Edits} : agreed' = agreed \cup more
  /\ architecture' = agreed'

(* A planning turn that asks for more context. *)
Elicit ==
  /\ phase = "planning" /\ Amend
  /\ UNCHANGED << phase, plan >>

(* A planning turn that reaches a reviewed plan. *)
MakePlan ==
  /\ phase = "planning" /\ Amend
  /\ plan' = Reviewed(agreed')
  /\ phase' = "review"

(* A discussion of the plan: it keeps the plan or shows a new one. *)
Discuss ==
  /\ phase = "review" /\ Amend
  /\ plan' \in {plan, Reviewed(agreed')}
  /\ UNCHANGED phase

(* Gate 2: the plan shown is the plan made final. *)
ApprovePlan ==
  /\ phase = "review"
  /\ plan' = [plan EXCEPT !.status = "final"]
  /\ phase' = "exported"
  /\ UNCHANGED << architecture, agreed >>

Next ==
  Describe \/ AcceptModel \/ Elicit \/ MakePlan \/ Discuss \/ ApprovePlan

Spec == Init /\ [][Next]_vars

-----------------------------------------------------------------------------
(* Past gate 1 planning works from the newest architecture: no model is    *)
(* written that the planner does not read.                                 *)
PlansNewestModel == phase # "discovery" => agreed = architecture /\ agreed # {}

(* The plan follows the phase: none before review, reviewed in it, final   *)
(* once exported (export_plan: "an unapproved plan is not a deliverable"). *)
PlanFollowsPhase ==
  /\ phase \in {"discovery", "planning"} => plan = NoPlan
  /\ phase = "review" => plan.status = "reviewed"
  /\ phase = "exported" => plan.status = "final"

(* A plan is never based on a patch the agreed model does not hold. *)
PlanCoveredByModel == plan.basis \subseteq agreed

(* Export is the end: neither the model nor the plan changes after it. *)
ExportFreezes == [][phase # "exported"]_vars

=============================================================================
