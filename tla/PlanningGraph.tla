--------------------------- MODULE PlanningGraph ---------------------------
(***************************************************************************)
(* The planning and review graphs of one session (orchestration/graph.py)  *)
(* over the checkpoint of its LangGraph thread, which outlives a turn, and *)
(* the rows _persist_turn writes when a turn comes to its end.  A step is  *)
(* one node, after which the checkpoint is written; a turn may die at      *)
(* every node and the next one starts on the checkpoint it left behind.    *)
(***************************************************************************)
EXTENDS Naturals

CONSTANTS
  None,           \* Python's None
  Components,     \* every component the session may come to hold
  Depends,        \* the dependencies among them: << source, target >>
  Tier1,          \* those whose criticality is of the first tier
  MaxRefine,      \* settings.max_refine_iterations
  Proposals,      \* bound: the work the LLM may propose for a component
  Drafts,         \* bound: what the LLM's strategies may have of Parts
  Critiques,      \* bound: what the semantic review may find
  MaxTurns        \* bound: the turns of a session

(* What the rules look for in _cutover and _rollback, which come together: *)
(* go_no_go_criteria and rollback steps.                                   *)
Parts == {"criteria", "steps"}

ASSUME PlanningAssumption ==
  /\ Depends \subseteq Components \X Components /\ Tier1 \subseteq Components
  /\ MaxRefine \in Nat /\ MaxTurns \in Nat
  /\ Proposals \in [Components -> SUBSET {"sound", "weak", "retired"}]
  /\ Drafts \subseteq SUBSET Parts
  /\ Critiques \subseteq SUBSET (SUBSET Components)

VARIABLES
  state,     \* the checkpoint of the thread: GraphState
  at,        \* the node that runs next, "persist" or "idle"
  returned,  \* whether accumulated_values, which are persisted, have a plan
  rows,      \* the session's rows
  turn       \* the number of turns begun

vars == << state, at, returned, rows, turn >>

(* A component's plan: whether it is retired, and if not, whether it has   *)
(* the rollback notes and validation checks that the rules ask for.        *)
Work == {"sound", "weak", "retired"}
Works == UNION {[M -> Work] : M \in SUBSET Components}
Proposed(M) == {w \in [M -> Work] : \A c \in M : w[c] \in Proposals[c]}
Retired(work) == {c \in DOMAIN work : work[c] = "retired"}

(* A finding: who made it, in which refine iteration, about whom.          *)
Finding == [source : {"rule", "llm"}, made : 0 .. MaxRefine, about : SUBSET Components]

Plan == [version : 1 .. MaxRefine + 1, status : {"draft", "reviewed"},
         work : Works,                     \* component_plans
         retiring : SUBSET Components,     \* component_mappings marked RETIRE
         waved : SUBSET Components,        \* waves
         costed : SUBSET Components,       \* cost_summary.estimates
         strategy : SUBSET Parts,          \* cutover_strategy, rollback_strategy
         risks : SUBSET Finding]

ASSUME NoneAssumption == None \notin Plan

Patches == SUBSET {"question", "structural", "resolution"}
Results == [asked : BOOLEAN, applied : BOOLEAN]   \* last_patch_results
NoResults == [asked |-> FALSE, applied |-> FALSE]

GraphState ==
  [model : SUBSET Components,
   patches : Patches \cup {None},          \* _patch_set
   whose : 0 .. MaxTurns,                  \* the turn whose message they are from
   results : Results,
   context : BOOLEAN, clarifying : BOOLEAN, error : BOOLEAN,
   waves : (SUBSET Components) \cup {None},  \* _waves: the components in them
   outputs : Works \cup {None},            \* _component_outputs
   strategy : (SUBSET Parts) \cup {None},  \* _cutover and _rollback
   plan : Plan \cup {None},
   findings : SUBSET Finding,
   iteration : 0 .. MaxRefine]

Shared == {"apply_patches", "compute_sequence", "per_component_planning", "strategy",
           "assemble_plan", "estimate_cost", "rules_review", "llm_review",
           "judge_review", "refine", "finalize_review"}
Nodes == Shared \cup {"after_gate_intake", "elicit_context", "review_ingest"}

Rows == [status : {"planning", "review"}, model : SUBSET Components, context : BOOLEAN,
         plans : [1 .. MaxRefine + 1 -> Plan \cup {None}]]

TypeOK ==
  /\ state \in GraphState
  /\ at \in Nodes \cup {"persist", "idle"}
  /\ returned \in BOOLEAN
  /\ rows \in Rows
  /\ turn \in 0 .. MaxTurns

Init ==
  /\ state = [model |-> {}, patches |-> None, whose |-> 0, results |-> NoResults,
              context |-> FALSE, clarifying |-> FALSE, error |-> FALSE,
              waves |-> None, outputs |-> None, strategy |-> None,
              plan |-> None, findings |-> {}, iteration |-> 0]
  /\ at = "idle"
  /\ returned = FALSE
  /\ rows \in [status : {"planning"}, model : (SUBSET Components) \ {{}}, context : {FALSE},
               plans : [1 .. MaxRefine + 1 -> {None}]]
  /\ turn = 0

-----------------------------------------------------------------------------
(* The start of a turn: what event_stream puts over the checkpoint.        *)

Versions == {v \in DOMAIN rows.plans : rows.plans[v] # None}

(* latest_plan: the row of the highest version.                            *)
LatestPlan ==
  IF Versions = {} THEN None
  ELSE rows.plans[CHOOSE v \in Versions : \A w \in Versions : w <= v]

BeginPlanning ==
  /\ at = "idle" /\ turn < MaxTurns /\ rows.status = "planning"
  /\ turn' = turn + 1
  /\ state' = [state EXCEPT !.model = rows.model, !.context = rows.context,
                            !.clarifying = FALSE, !.error = FALSE]
  /\ returned' = FALSE
  /\ at' = "after_gate_intake"
  /\ UNCHANGED rows

BeginReview ==
  /\ at = "idle" /\ turn < MaxTurns /\ rows.status = "review"
  /\ turn' = turn + 1
  /\ state' = [state EXCEPT !.model = rows.model, !.context = rows.context,
                            !.plan = LatestPlan, !.findings = {}, !.iteration = 0,
                            !.error = FALSE]
  /\ returned' = TRUE
  /\ at' = "review_ingest"
  /\ UNCHANGED rows

-----------------------------------------------------------------------------
(* The nodes.  Node(n, s) is the step of node n that leaves state s.  An   *)
(* exception a node does not catch ends the turn: AbortTurn.               *)

Goto(n) == at' = n

Node(n, s) ==
  /\ at = n
  /\ state' = s
  /\ UNCHANGED << rows, turn >>

(* A node that returns no plan where there was none.                       *)
Quiet == UNCHANGED returned

(* after_gate_intake_node and review_discuss_ingest_node: the message      *)
(* becomes patches, or an error that leaves _patch_set as it was.  A       *)
(* question about the plan is answered and becomes the empty set.          *)
Ingested(s) == {[s EXCEPT !.patches = p, !.whose = turn, !.error = FALSE] : p \in Patches}
IngestFailed(s) == [s EXCEPT !.error = TRUE, !.results = NoResults]

Ingest(n) ==
  /\ \E s \in Ingested(state) \cup {IngestFailed(state)} : Node(n, s)
  /\ Goto("apply_patches") /\ Quiet

AfterGateIntake == Ingest("after_gate_intake")
ReviewDiscussIngest == Ingest("review_ingest")

(* Mutant of the next: the plan at hand is reviewed against the new model. *)
ReviewAtOnce(s) == IF s.results.applied THEN "rules_review" ELSE "persist"

(* _planning_intake_ready; _model_materially_changed.                      *)
AfterPatchesInReview(s) == IF s.results.applied THEN "compute_sequence" ELSE "persist"
AfterPatches(s) ==
  IF rows.status = "review" THEN AfterPatchesInReview(s)
  ELSE IF s.error \/ s.results.asked THEN "persist" ELSE "elicit_context"

(* apply_patches_node.  In review, structural patches that come with no    *)
(* resolution wait for a confirmation, which event_stream answers with a   *)
(* no at once; any other patch may still be rejected by its validation, or *)
(* change a component that stays.                                          *)
Structural(s) ==
  "structural" \in s.patches /\ (rows.status = "planning" \/ "resolution" \in s.patches)

Outcomes(s) ==
  {o \in [model : SUBSET Components, applied : BOOLEAN] :
     /\ o.model # s.model => o.applied
     /\ o.applied => Structural(s)}

Applied(s) ==
  IF s.patches = None THEN {[s EXCEPT !.results = NoResults]}
  ELSE {[s EXCEPT !.model = o.model, !.patches = None, !.error = FALSE,
                  !.results = [asked |-> "question" \in s.patches, applied |-> o.applied]] :
          o \in Outcomes(s)}

ApplyPatches ==
  \E s \in Applied(state) :
    /\ Node("apply_patches", s)
    /\ Goto(AfterPatches(s)) /\ Quiet

(* elicit_context_node, and _context_ready behind it.                      *)
Elicited(s) ==
  {[s EXCEPT !.clarifying = TRUE, !.context = FALSE],
   [s EXCEPT !.clarifying = FALSE, !.context = TRUE],
   [s EXCEPT !.error = TRUE]}

ElicitContext ==
  \E s \in Elicited(state) :
    /\ Node("elicit_context", s)
    /\ Goto(IF s.error \/ s.clarifying \/ ~ s.context THEN "persist" ELSE "compute_sequence")
    /\ Quiet

(* _no_error.                                                              *)
UnlessError(s, next) == Goto(IF s.error THEN "persist" ELSE next)

(* compute_sequence_node: the waves of the whole model, or over capacity.  *)
ComputeSequence ==
  \E s \in {[state EXCEPT !.waves = state.model, !.error = FALSE], [state EXCEPT !.error = TRUE]} :
    /\ Node("compute_sequence", s)
    /\ UnlessError(s, "per_component_planning") /\ Quiet

(* per_component_planning_node: a plan for every component, each asked for *)
(* at most twice, or an error that names those without one.                *)
ComponentOutputs(s) ==
  IF s.waves \in {None, {}} \/ ~ s.context THEN {[s EXCEPT !.error = TRUE]}
  ELSE {[s EXCEPT !.error = TRUE]}
       \cup {[s EXCEPT !.outputs = w, !.error = FALSE] : w \in Proposed(s.model)}

PerComponentPlanning ==
  \E s \in ComponentOutputs(state) :
    /\ Node("per_component_planning", s)
    /\ UnlessError(s, "strategy") /\ Quiet

(* strategy_node: three calls at once; the cutover may come without its    *)
(* go/no-go criteria, and the rollback without steps.                      *)
Strategies(s) ==
  {[s EXCEPT !.error = TRUE]}
  \cup {[s EXCEPT !.strategy = x, !.error = FALSE] : x \in Drafts}

StrategyNode ==
  \E s \in Strategies(state) :
    /\ Node("strategy", s)
    /\ UnlessError(s, "assemble_plan") /\ Quiet

(* assemble_plan_node: a new plan of version 1; the scratch is cleared.    *)
Assembled(s) ==
  [version |-> 1, status |-> "draft", work |-> s.outputs,
   retiring |-> Retired(s.outputs), waved |-> s.waves, costed |-> {},
   strategy |-> s.strategy, risks |-> {}]

AssemblePlan ==
  /\ Node("assemble_plan", [state EXCEPT !.plan = Assembled(state), !.waves = None,
                                         !.outputs = None, !.strategy = None])
  /\ returned' = TRUE
  /\ Goto("estimate_cost")

(* estimate_cost_node: every component that is not retired gets an entry.  *)
EstimateCost ==
  /\ Node("estimate_cost",
          [state EXCEPT !.plan.costed = DOMAIN state.plan.work \ state.plan.retiring])
  /\ Goto("rules_review") /\ Quiet

-----------------------------------------------------------------------------
(* Review.                                                                 *)

Rule(about) == [source |-> "rule", made |-> 0, about |-> about]

(* run_rules, by what it finds wrong: RULE-002 components left out, -003   *)
(* dependents of a retired component, -004 and -005 component plans and    *)
(* strategies with gaps, -006 mappings that disagree with the plans.       *)
RuleFindings(model, p) ==
  {Rule({c}) : c \in model \ (DOMAIN p.work \cap p.waved)}
  \cup {Rule({d[1], d[2]}) : d \in {e \in Depends : /\ {e[1], e[2]} \subseteq model
                                                    /\ e[2] \in p.retiring
                                                    /\ e[1] \notin p.retiring}}
  \cup {Rule({c}) : c \in {c \in DOMAIN p.work : p.work[c] = "weak"}}
  \cup (IF "criteria" \in p.strategy THEN {} ELSE {Rule({})})
  \cup (IF "steps" \in p.strategy THEN {} ELSE {Rule(model \cap Tier1)})
  \cup {Rule({c}) : c \in (p.retiring \ Retired(p.work)) \cup (Retired(p.work) \ p.retiring)}

From(source, findings) == {f \in findings : f.source = source}

(* rules_review_node: recomputed; the LLM's findings are kept.             *)
RulesReview ==
  /\ Node("rules_review",
          [state EXCEPT !.findings =
             RuleFindings(state.model, state.plan) \cup From("llm", state.findings)])
  /\ Goto("llm_review") /\ Quiet

(* llm_review_node: its findings replace the former ones, unless it fails. *)
Critique(s, abouts) ==
  [s EXCEPT !.findings =
     From("rule", s.findings)
     \cup {[source |-> "llm", made |-> s.iteration, about |-> a \cap s.model] : a \in abouts}]

LlmReview ==
  /\ \E s \in {Critique(state, abouts) : abouts \in Critiques} \cup {state} :
       Node("llm_review", s)
  /\ Goto("judge_review") /\ Quiet

(* Mutant of the next: the budget of iterations is not looked at.          *)
RefineWithoutBudget(s) == IF s.findings = {} THEN "finalize_review" ELSE "refine"

(* should_continue_refining: no finding in the graph ever leaves "open".   *)
ShouldContinueRefining(s) ==
  IF s.findings = {} \/ s.iteration >= MaxRefine THEN "finalize_review" ELSE "refine"

(* judge_review_node: its score is left out, it decides nothing.           *)
JudgeReview ==
  /\ Node("judge_review", state)
  /\ Goto(ShouldContinueRefining(state)) /\ Quiet

(* refine_node: the components that open findings name are planned again,  *)
(* one after the other, those that fail keep their plan.                   *)
Affected(s) == (UNION {f.about : f \in s.findings}) \cap DOMAIN s.plan.work \cap s.plan.waved

(* Mutant of the next: the mapping keeps its disposition.                  *)
RefinedPlanOnly(p, work) == [p EXCEPT !.work = work, !.version = @ + 1]

Refined(p, work) == [p EXCEPT !.work = work, !.retiring = Retired(work), !.version = @ + 1]

Reworked(s) ==
  {w \in Proposed(DOMAIN s.plan.work) :
     \A c \in DOMAIN s.plan.work \ Affected(s) : w[c] = s.plan.work[c]}

(* Mutant of the next: the round is not counted.                           *)
UncountedRound(s) == s

(* The early return of refine_node, which calls no LLM.                    *)
NobodyNamed(s) == [s EXCEPT !.iteration = @ + 1]

(* Mutant of the next: only the LLM looks again at the refined plan.       *)
LlmOnly == "llm_review"

(* The edge back into the review.                                          *)
AfterRefine == "rules_review"

Refine ==
  /\ IF UNION {f.about : f \in state.findings} = {}
     THEN Node("refine", NobodyNamed(state))
     ELSE \E w \in Reworked(state) :
            Node("refine", [state EXCEPT !.plan = Refined(@, w), !.iteration = @ + 1])
  /\ Goto(AfterRefine) /\ Quiet

(* finalize_review_node: what is still open becomes a risk.                *)
Finalized(p, findings) == [p EXCEPT !.status = "reviewed", !.risks = @ \cup findings]

FinalizeReview ==
  /\ Node("finalize_review",
          [state EXCEPT !.plan = Finalized(@, state.findings), !.clarifying = FALSE])
  /\ Goto("persist") /\ Quiet

-----------------------------------------------------------------------------
(* The end of a turn.                                                      *)

(* Mutant of the next: the plan of the checkpoint is taken for this turn's.*)
PlanInCheckpoint == state.plan # None

PlanReturned == returned /\ state.plan # None

(* _persist_turn: from what the nodes of this turn returned.  A halted     *)
(* turn is persisted as well.                                              *)
PersistTurn ==
  /\ at = "persist"
  /\ LET planned == PlanReturned
     IN  rows' = [rows EXCEPT
           !.model = state.model,
           !.context = rows.context \/ state.context,
           !.plans = IF planned THEN [@ EXCEPT ![state.plan.version] = state.plan] ELSE @,
           !.status = IF planned THEN "review" ELSE @]
  /\ at' = "idle"
  /\ UNCHANGED << state, returned, turn >>

(* A dropped stream, a replica that dies, or an exception that the node    *)
(* does not catch (the provider, the token budget): the rows are rolled    *)
(* back and the checkpoint stays.                                          *)
AbortTurn ==
  /\ at # "idle"
  /\ at' = "idle"
  /\ UNCHANGED << state, returned, rows, turn >>

GraphStep ==
  \/ AfterGateIntake \/ ReviewDiscussIngest \/ ApplyPatches \/ ElicitContext
  \/ ComputeSequence \/ PerComponentPlanning \/ StrategyNode \/ AssemblePlan
  \/ EstimateCost \/ RulesReview \/ LlmReview \/ JudgeReview \/ Refine
  \/ FinalizeReview \/ PersistTurn

Next == BeginPlanning \/ BeginReview \/ GraphStep \/ AbortTurn

Spec == Init /\ [][Next]_vars

(* LangGraph runs the next node as long as the request lives.              *)
FairSpec == Spec /\ WF_vars(GraphStep)

-----------------------------------------------------------------------------
(* Properties.                                                             *)

(* A plan leaves the review only as finalize_review_node passes it on.     *)
Finalizes == at = "finalize_review" /\ at' = "persist"

(* The plan that is finalized covers the model it was planned from: every  *)
(* component has a plan, a mapping that agrees with it, and a wave, also   *)
(* when the model changed in this turn, an earlier turn died on the same   *)
(* thread, or a refinement retired or revived a component.                 *)
PlanIsWhole ==
  [][Finalizes =>
       LET p == state'.plan
       IN  /\ DOMAIN p.work = state'.model /\ p.waved = state'.model
           /\ p.retiring = Retired(p.work)
           /\ p.version <= MaxRefine + 1]_vars

(* What the rules object to in the plan that is finalized, in its last     *)
(* refinement, is in its risks, and nothing that a refinement has mended.  *)
RisksAreCurrent ==
  [][Finalizes =>
       From("rule", state'.plan.risks) = RuleFindings(state'.model, state'.plan)]_vars

(* The rows a session keeps are those its status promises: a plan was      *)
(* reviewed, and a session in review has one and the context it came from, *)
(* however many turns halted or died before.                               *)
RowsSupportReview ==
  /\ \A v \in Versions : rows.plans[v].version = v /\ rows.plans[v].status = "reviewed"
  /\ (rows.status = "review") = (Versions # {})
  /\ rows.status = "review" => rows.context

(* Violated.  check_coverage's module promises that no plan is shown that  *)
(* drops a component: in review, the plan covers the session's model.      *)
PlanCoversModel ==
  rows.status = "review" => rows.model \subseteq DOMAIN LatestPlan.work

(* The session's model outgrows the plan it shows only by a review turn    *)
(* that changed the model and either halted on its way to a new plan, or   *)
(* made one whose row a higher version of an earlier plan hides: no other  *)
(* order of patches, halts, refinements and deaths parts the two.          *)
OnlyHaltsUncover ==
  [][PlanCoversModel /\ ~ PlanCoversModel' =>
       /\ rows.status = "review" /\ state.results.applied
       /\ \/ state.plan = LatestPlan
          \/ \E v \in Versions : v > state.plan.version]_vars

(* Every turn comes to an end: no outcome of the semantic review or of the *)
(* refinements, and nothing an earlier turn left in the checkpoint, keeps  *)
(* the refine loop going.                                                  *)
TurnEnds == at # "idle" ~> at = "idle"
=============================================================================
