------------------------- MODULE PlanningGraphProofs -------------------------
(***************************************************************************)
(* Proofs about PlanningGraph, for any model, any work the LLM proposes    *)
(* and any budget of refinements: what the rows of a session promise, what *)
(* is true of every plan the review passes on, what a turn may write, how  *)
(* the model can outgrow the plan, and in how many steps a turn ends.      *)
(***************************************************************************)
EXTENDS PlanningGraph, WellFoundedInduction, TLAPS

-----------------------------------------------------------------------------
(* The invariant.                                                          *)

(* The nodes before and after assemble_plan has a plan for this turn.      *)
Early == {"after_gate_intake", "review_ingest", "apply_patches", "elicit_context",
          "compute_sequence", "per_component_planning", "strategy", "assemble_plan"}
Reviewing == {"estimate_cost", "rules_review", "llm_review", "judge_review", "refine",
              "finalize_review"}

(* A plan of the whole model s.                                            *)
WholePlan(p, M) ==
  DOMAIN p.work = M /\ p.waved = M /\ p.retiring = Retired(p.work)

PlannedFrom(s) == s.waves = s.model /\ s.outputs \in [s.model -> Work] /\ s.context

UnderReview(s) ==
  /\ s.context /\ s.plan \in Plan
  /\ WholePlan(s.plan, s.model) /\ s.plan.risks = {}
  /\ s.plan.version <= s.iteration + 1

RulesCurrent(s) == From("rule", s.findings) = RuleFindings(s.model, s.plan)

(* What a node can rely on.                                                *)
Flow ==
  /\ at = "per_component_planning" => state.waves = state.model
  /\ at \in {"strategy", "assemble_plan"} => PlannedFrom(state)
  /\ at = "assemble_plan" => state.strategy \in SUBSET Parts
  /\ at \in Reviewing => returned /\ UnderReview(state)
  /\ at \in {"llm_review", "judge_review", "refine", "finalize_review"} => RulesCurrent(state)
  /\ at = "refine" => state.iteration < MaxRefine

(* What _persist_turn will find.                                           *)
Returned ==
  /\ at \in Early => returned = (rows.status = "review")
  /\ at \in Early \cup {"persist"} /\ returned =>
       state.plan \in Plan /\ state.plan.status = "reviewed"
  /\ at = "persist" /\ returned => rows.status = "review" \/ state.context

IInv == TypeOK /\ Flow /\ Returned /\ RowsSupportReview

-----------------------------------------------------------------------------
(* Facts about the data.                                                   *)

LEMMA Largest ==
  ASSUME NEW n \in Nat, NEW S \in SUBSET (1 .. n), S # {}
  PROVE  \E x \in S : \A y \in S : y <= x
  <1> DEFINE T == {n - x : x \in S}
             Less == OpToRel(<, Nat)
  <1>1. \A x \in S : x \in Nat /\ x <= n
    OBVIOUS
  <1>2. \A x \in S : n - x \in Nat
    BY <1>1
  <1>3. T \subseteq Nat /\ T # {}
    BY <1>2
  <1>4. IsWellFoundedOn(Less, Nat)
    BY NatLessThanWellFounded
  <1>5. \A a, b \in Nat : a < b => << a, b >> \in Less
    BY DEF OpToRel
  <1>6. PICK t \in T : \A u \in T : ~ (<< u, t >> \in Less)
    <2> HIDE DEF T, Less
    <2> QED  BY <1>3, <1>4, WFMin
  <1>7. PICK x \in S : t = n - x
    OBVIOUS
  <1>8. \A y \in S : y <= x
    <2> SUFFICES ASSUME NEW y \in S PROVE y <= x
      OBVIOUS
    <2>1. n - y \in T /\ n - y \in Nat /\ n - x \in Nat
      BY <1>2
    <2>2. ~ (<< n - y, n - x >> \in Less)
      BY <1>6, <1>7, <2>1
    <2>3. ~ (n - y < n - x)
      <3> HIDE DEF Less
      <3> QED  BY <1>5, <2>1, <2>2
    <2> QED  BY <1>1, <2>3
  <1> QED  BY <1>8

(* latest_plan finds a row when there is one.                              *)
LEMMA LatestPlanTyped ==
  ASSUME rows \in Rows
  PROVE  /\ LatestPlan \in Plan \cup {None}
         /\ Versions # {} => \E v \in Versions : LatestPlan = rows.plans[v] /\ LatestPlan \in Plan
  <1>1. /\ Versions \subseteq 1 .. MaxRefine + 1
        /\ \A v \in Versions : rows.plans[v] \in Plan
    BY DEF Versions, Rows
  <1>2. CASE Versions = {}
    BY <1>2 DEF LatestPlan
  <1>3. CASE Versions # {}
    <2>1. MaxRefine + 1 \in Nat
      BY PlanningAssumption
    <2>2. \E v \in Versions : \A w \in Versions : w <= v
      BY <1>1, <1>3, <2>1, Largest
    <2> DEFINE v == CHOOSE v \in Versions : \A w \in Versions : w <= v
    <2>3. v \in Versions
      BY <2>2
    <2>4. LatestPlan = rows.plans[v]
      BY <1>3 DEF LatestPlan
    <2> HIDE DEF v
    <2> QED  BY <1>1, <2>3, <2>4
  <1> QED  BY <1>2, <1>3

LEMMA ProposedTyped ==
  ASSUME NEW M \in SUBSET Components
  PROVE  Proposed(M) \subseteq [M -> Work] /\ [M -> Work] \subseteq Works
  BY DEF Proposed, Works

LEMMA RuleFindingsTyped ==
  ASSUME NEW M \in SUBSET Components, NEW p \in Plan
  PROVE  /\ RuleFindings(M, p) \subseteq Finding
         /\ \A f \in RuleFindings(M, p) : f.source = "rule"
  <1>1. 0 \in 0 .. MaxRefine
    BY PlanningAssumption
  <1>2. \A S \in SUBSET Components : Rule(S) \in Finding /\ Rule(S).source = "rule"
    BY <1>1 DEF Rule, Finding
  <1>3. DOMAIN p.work \subseteq Components /\ p.retiring \subseteq Components
    BY DEF Plan, Works
  <1>4. Retired(p.work) \subseteq Components
    BY <1>3 DEF Retired
  <1>5. \A c \in Components : {c} \in SUBSET Components
    OBVIOUS
  <1>6. \A d \in Depends : {d[1], d[2]} \in SUBSET Components
    BY PlanningAssumption
  <1>7. {} \in SUBSET Components /\ M \cap Tier1 \in SUBSET Components
    OBVIOUS
  <1>8. \A f \in RuleFindings(M, p) : \E S \in SUBSET Components : f = Rule(S)
    BY <1>3, <1>4, <1>5, <1>6, <1>7 DEF RuleFindings
  <1> QED  BY <1>2, <1>8

(* What the rules find depends on the contents of the plan alone.          *)
LEMMA RuleFindingsOfContents ==
  ASSUME NEW M, NEW p, NEW q, q.work = p.work, q.waved = p.waved, q.retiring = p.retiring,
         q.strategy = p.strategy
  PROVE  RuleFindings(M, q) = RuleFindings(M, p)
  BY DEF RuleFindings

-----------------------------------------------------------------------------
(* Steps before a plan is assembled.                                       *)

LEMMA EarlyStep ==
  ASSUME IInv, at \in Early, at' \in Early \cup {"persist"}, state' \in GraphState,
         state'.plan = state.plan, UNCHANGED << rows, turn, returned >>,
         at' = "per_component_planning" => state'.waves = state'.model,
         at' \in {"strategy", "assemble_plan"} => PlannedFrom(state'),
         at' = "assemble_plan" => state'.strategy \in SUBSET Parts
  PROVE  IInv'
  <1>1. TypeOK'
    BY DEF IInv, TypeOK, Early, Nodes, Shared
  <1>2. Flow'
    BY DEF Flow, Early, Reviewing
  <1>3. Returned'
    BY DEF IInv, Returned, Early
  <1>4. RowsSupportReview'
    BY DEF IInv, RowsSupportReview, Versions
  <1> QED  BY <1>1, <1>2, <1>3, <1>4 DEF IInv

LEMMA BeginStep ==
  ASSUME IInv, BeginPlanning \/ BeginReview
  PROVE  IInv'
  <1>1. /\ state \in GraphState /\ rows \in Rows /\ rows' = rows
        /\ rows.model \subseteq Components /\ rows.context \in BOOLEAN
        /\ turn' \in 0 .. MaxTurns
    BY PlanningAssumption DEF IInv, TypeOK, Rows, BeginPlanning, BeginReview
  <1>2. RowsSupportReview' /\ RowsSupportReview
    BY <1>1 DEF IInv, RowsSupportReview, Versions
  <1>3. CASE BeginPlanning
    <2>1. state' \in GraphState
      BY <1>1, <1>3 DEF BeginPlanning, GraphState
    <2>2. /\ at' = "after_gate_intake" /\ returned' = FALSE /\ rows.status = "planning"
      BY <1>3 DEF BeginPlanning
    <2>3. TypeOK'
      BY <1>1, <2>1, <2>2 DEF TypeOK, Nodes
    <2> QED
      BY <1>1, <1>2, <2>2, <2>3 DEF IInv, Flow, Returned, Early, Reviewing
  <1>4. CASE BeginReview
    <2>1. LatestPlan \in Plan /\ LatestPlan.status = "reviewed"
      <3>1. Versions # {}
        BY <1>2, <1>4 DEF RowsSupportReview, BeginReview
      <3> QED  BY <1>1, <1>2, <3>1, LatestPlanTyped DEF RowsSupportReview
    <2>2. state' \in GraphState /\ state'.plan = LatestPlan
      <3>1. 0 \in 0 .. MaxRefine
        BY PlanningAssumption
      <3> QED  BY <1>1, <1>4, <2>1, <3>1 DEF BeginReview, GraphState
    <2>3. at' = "review_ingest" /\ returned' = TRUE /\ rows.status = "review"
      BY <1>4 DEF BeginReview
    <2>4. TypeOK'
      BY <1>1, <2>2, <2>3 DEF TypeOK, Nodes
    <2> QED
      BY <1>1, <1>2, <2>1, <2>2, <2>3, <2>4 DEF IInv, Flow, Returned, Early, Reviewing
  <1> QED  BY <1>3, <1>4

LEMMA IngestStep ==
  ASSUME IInv, AfterGateIntake \/ ReviewDiscussIngest
  PROVE  IInv'
  <1>1. state \in GraphState /\ turn \in 0 .. MaxTurns
    BY DEF IInv, TypeOK
  <1>2. PICK s \in Ingested(state) \cup {IngestFailed(state)} : state' = s
    BY DEF AfterGateIntake, ReviewDiscussIngest, Ingest, Node
  <1>3. state' \in GraphState /\ state'.plan = state.plan
    <2>1. CASE \E p \in Patches : s = [state EXCEPT !.patches = p, !.whose = turn, !.error = FALSE]
      <3>1. PICK p \in Patches : s = [state EXCEPT !.patches = p, !.whose = turn, !.error = FALSE]
        BY <2>1
      <3>2. p \in Patches \cup {None}
        OBVIOUS
      <3> QED  BY <1>1, <1>2, <3>1, <3>2 DEF GraphState
    <2>2. CASE s = IngestFailed(state)
      BY <1>1, <1>2, <2>2 DEF GraphState, IngestFailed, NoResults, Results
    <2> QED  BY <2>1, <2>2 DEF Ingested
  <1>4. /\ at \in Early /\ at' = "apply_patches" /\ UNCHANGED << rows, turn, returned >>
    BY DEF AfterGateIntake, ReviewDiscussIngest, Ingest, Node, Goto, Quiet, Early
  <1> QED  BY <1>3, <1>4, EarlyStep DEF Early

LEMMA ApplyStep ==
  ASSUME IInv, ApplyPatches
  PROVE  IInv'
  <1>1. state \in GraphState
    BY DEF IInv, TypeOK
  <1>2. PICK s \in Applied(state) :
          /\ state' = s /\ at = "apply_patches" /\ at' = AfterPatches(s)
          /\ UNCHANGED << rows, turn, returned >>
    BY DEF ApplyPatches, Node, Goto, Quiet
  <1>3. state' \in GraphState /\ state'.plan = state.plan
    <2>1. CASE s = [state EXCEPT !.results = NoResults]
      BY <1>1, <1>2, <2>1 DEF GraphState, NoResults, Results
    <2>2. CASE \E o \in Outcomes(state) :
                 s = [state EXCEPT !.model = o.model, !.patches = None, !.error = FALSE,
                        !.results = [asked |-> "question" \in state.patches,
                                     applied |-> o.applied]]
      <3>1. PICK o \in Outcomes(state) :
              s = [state EXCEPT !.model = o.model, !.patches = None, !.error = FALSE,
                     !.results = [asked |-> "question" \in state.patches,
                                  applied |-> o.applied]]
        BY <2>2
      <3>2. o.model \subseteq Components /\ o.applied \in BOOLEAN
        BY DEF Outcomes
      <3> DEFINE m == o.model
                 r == [asked |-> "question" \in state.patches, applied |-> o.applied]
      <3>3. r \in Results
        BY <3>2 DEF Results
      <3>4. s = [state EXCEPT !.model = m, !.patches = None, !.error = FALSE, !.results = r]
        BY <3>1
      <3> HIDE DEF r, m
      <3>5. m \subseteq Components
        BY <3>2 DEF m
      <3> QED  BY <1>1, <1>2, <3>3, <3>4, <3>5 DEF GraphState
    <2> QED  BY <1>2, <2>1, <2>2 DEF Applied
  <1>4. at \in Early /\ at' \in {"persist", "compute_sequence", "elicit_context"}
    BY <1>2 DEF AfterPatches, AfterPatchesInReview, Early
  <1> QED  BY <1>2, <1>3, <1>4, EarlyStep DEF Early

LEMMA ElicitStep ==
  ASSUME IInv, ElicitContext
  PROVE  IInv'
  <1>1. state \in GraphState
    BY DEF IInv, TypeOK
  <1>2. PICK s \in Elicited(state) :
          /\ state' = s /\ at = "elicit_context" /\ at' \in {"persist", "compute_sequence"}
          /\ UNCHANGED << rows, turn, returned >>
    BY DEF ElicitContext, Node, Goto, Quiet
  <1>3. state' \in GraphState /\ state'.plan = state.plan
    BY <1>1, <1>2 DEF Elicited, GraphState
  <1> QED  BY <1>2, <1>3, EarlyStep DEF Early

LEMMA SequenceStep ==
  ASSUME IInv, ComputeSequence
  PROVE  IInv'
  <1>1. state \in GraphState
    BY DEF IInv, TypeOK
  <1>2. PICK s \in {[state EXCEPT !.waves = state.model, !.error = FALSE],
                    [state EXCEPT !.error = TRUE]} :
          /\ state' = s /\ at = "compute_sequence"
          /\ at' = IF s.error THEN "persist" ELSE "per_component_planning"
          /\ UNCHANGED << rows, turn, returned >>
    BY DEF ComputeSequence, Node, UnlessError, Goto, Quiet
  <1>3. state' \in GraphState /\ state'.plan = state.plan
    BY <1>1, <1>2 DEF GraphState
  <1>4. at' = "per_component_planning" => state'.waves = state'.model
    BY <1>1, <1>2 DEF GraphState
  <1> QED  BY <1>2, <1>3, <1>4, EarlyStep DEF Early

LEMMA ComponentStep ==
  ASSUME IInv, PerComponentPlanning
  PROVE  IInv'
  <1>1. state \in GraphState
    BY DEF IInv, TypeOK
  <1>2. PICK s \in ComponentOutputs(state) :
          /\ state' = s /\ at = "per_component_planning"
          /\ at' = IF s.error THEN "persist" ELSE "strategy"
          /\ UNCHANGED << rows, turn, returned >>
    BY DEF PerComponentPlanning, Node, UnlessError, Goto, Quiet
  <1>3. state.waves = state.model
    BY <1>2 DEF IInv, Flow
  <1>4. CASE s = [state EXCEPT !.error = TRUE]
    <2>1. state' \in GraphState /\ state'.plan = state.plan /\ at' = "persist"
      BY <1>1, <1>2, <1>4 DEF GraphState
    <2> QED  BY <1>2, <2>1, EarlyStep DEF Early
  <1>5. CASE /\ state.context
             /\ \E w \in Proposed(state.model) : s = [state EXCEPT !.outputs = w, !.error = FALSE]
    <2>1. PICK w \in Proposed(state.model) : s = [state EXCEPT !.outputs = w, !.error = FALSE]
      BY <1>5
    <2>2. w \in [state.model -> Work] /\ w \in Works
      BY <1>1, <2>1, ProposedTyped DEF GraphState
    <2>3. /\ state' \in GraphState /\ state'.plan = state.plan /\ at' = "strategy"
          /\ state'.outputs = w /\ state'.model = state.model /\ state'.waves = state.waves
          /\ state'.context = state.context
      BY <1>1, <1>2, <2>1, <2>2 DEF GraphState
    <2>4. PlannedFrom(state')
      BY <1>3, <1>5, <2>2, <2>3 DEF PlannedFrom
    <2> QED  BY <1>2, <2>3, <2>4, EarlyStep DEF Early
  <1> QED  BY <1>1, <1>4, <1>5 DEF ComponentOutputs, GraphState

LEMMA StrategyStep ==
  ASSUME IInv, StrategyNode
  PROVE  IInv'
  <1>1. state \in GraphState
    BY DEF IInv, TypeOK
  <1>2. PICK s \in Strategies(state) :
          /\ state' = s /\ at = "strategy"
          /\ at' = IF s.error THEN "persist" ELSE "assemble_plan"
          /\ UNCHANGED << rows, turn, returned >>
    BY DEF StrategyNode, Node, UnlessError, Goto, Quiet
  <1>3. PlannedFrom(state)
    BY <1>2 DEF IInv, Flow
  <1>4. /\ state' \in GraphState /\ state'.plan = state.plan
        /\ state'.waves = state.waves /\ state'.model = state.model
        /\ state'.outputs = state.outputs /\ state'.context = state.context
        /\ at' = "assemble_plan" => state'.strategy \in SUBSET Parts
    <2>1. CASE s = [state EXCEPT !.error = TRUE]
      BY <1>1, <1>2, <2>1 DEF GraphState
    <2>2. CASE \E x \in Drafts : s = [state EXCEPT !.strategy = x, !.error = FALSE]
      <3>1. PICK x \in Drafts : s = [state EXCEPT !.strategy = x, !.error = FALSE]
        BY <2>2
      <3>2. x \in SUBSET Parts
        BY PlanningAssumption
      <3> QED  BY <1>1, <1>2, <3>1, <3>2 DEF GraphState
    <2> QED  BY <1>2, <2>1, <2>2 DEF Strategies
  <1>5. PlannedFrom(state')
    BY <1>3, <1>4 DEF PlannedFrom
  <1> QED  BY <1>2, <1>4, <1>5, EarlyStep DEF Early

-----------------------------------------------------------------------------
(* Steps of the review.                                                    *)

LEMMA ReviewStep ==
  ASSUME IInv, at' \in Reviewing, state' \in GraphState, returned' = TRUE,
         UnderReview(state'), UNCHANGED << rows, turn >>,
         at' \in {"llm_review", "judge_review", "refine", "finalize_review"} => RulesCurrent(state'),
         at' = "refine" => state'.iteration < MaxRefine
  PROVE  IInv'
  <1>1. TypeOK'
    BY DEF IInv, TypeOK, Reviewing, Nodes, Shared
  <1>2. Flow'
    BY DEF Flow, Early, Reviewing
  <1>3. Returned'
    BY DEF Returned, Early, Reviewing
  <1>4. RowsSupportReview'
    BY DEF IInv, RowsSupportReview, Versions
  <1> QED  BY <1>1, <1>2, <1>3, <1>4 DEF IInv

LEMMA AssembleStep ==
  ASSUME IInv, AssemblePlan
  PROVE  IInv'
  <1>1. /\ state \in GraphState /\ PlannedFrom(state) /\ state.strategy \in SUBSET Parts
        /\ at' = "estimate_cost" /\ returned' = TRUE /\ UNCHANGED << rows, turn >>
        /\ state' = [state EXCEPT !.plan = Assembled(state), !.waves = None,
                                  !.outputs = None, !.strategy = None]
    BY DEF IInv, TypeOK, Flow, AssemblePlan, Node, Goto
  <1> DEFINE p == Assembled(state)
  <1>2. state.model \subseteq Components /\ state.iteration \in 0 .. MaxRefine
    BY <1>1 DEF GraphState
  <1>3. state.outputs \in [state.model -> Work] /\ state.outputs \in Works
    BY <1>1, <1>2, ProposedTyped DEF PlannedFrom
  <1>4. DOMAIN state.outputs = state.model /\ Retired(state.outputs) \subseteq Components
    BY <1>2, <1>3 DEF Retired
  <1>5. p \in Plan
    <2>1. 1 \in 1 .. MaxRefine + 1
      BY PlanningAssumption
    <2>2. state.waves \subseteq Components
      BY <1>1, <1>2 DEF PlannedFrom
    <2> QED  BY <1>1, <1>3, <1>4, <2>1, <2>2 DEF Assembled, Plan
  <1>6. /\ p.work = state.outputs /\ p.retiring = Retired(state.outputs) /\ p.waved = state.waves
        /\ p.risks = {} /\ p.version = 1
        /\ state' = [state EXCEPT !.plan = p, !.waves = None, !.outputs = None,
                                  !.strategy = None]
    BY <1>1 DEF Assembled
  <1> HIDE DEF p
  <1>7. /\ state' \in GraphState /\ state'.plan = p /\ state'.model = state.model
        /\ state'.context = state.context /\ state'.iteration = state.iteration
    <2> QED  BY <1>1, <1>5, <1>6 DEF GraphState
  <1>8. UnderReview(state')
    BY <1>1, <1>2, <1>4, <1>5, <1>6, <1>7 DEF UnderReview, WholePlan, PlannedFrom
  <1> QED  BY <1>1, <1>7, <1>8, ReviewStep DEF Reviewing

(* What is common to the nodes of the review.                              *)
LEMMA ReviewState ==
  ASSUME IInv, at \in Reviewing
  PROVE  /\ state \in GraphState /\ returned = TRUE /\ UnderReview(state)
         /\ state.plan \in Plan /\ state.model \subseteq Components
         /\ state.findings \subseteq Finding /\ state.iteration \in 0 .. MaxRefine
  BY DEF IInv, TypeOK, Flow, UnderReview, GraphState

LEMMA EstimateStep ==
  ASSUME IInv, EstimateCost
  PROVE  IInv'
  <1>1. /\ at = "estimate_cost" /\ at' = "rules_review" /\ UNCHANGED << returned, rows, turn >>
        /\ state' = [state EXCEPT !.plan.costed = DOMAIN state.plan.work \ state.plan.retiring]
    BY DEF EstimateCost, Node, Goto, Quiet
  <1>2. /\ state \in GraphState /\ returned = TRUE /\ UnderReview(state) /\ state.plan \in Plan
    BY <1>1, ReviewState DEF Reviewing
  <1> DEFINE costed == DOMAIN state.plan.work \ state.plan.retiring
             p == [state.plan EXCEPT !.costed = costed]
  <1>3. costed \subseteq Components
    BY <1>2 DEF Plan, Works
  <1> HIDE DEF costed
  <1>4. p \in Plan /\ p.work = state.plan.work /\ p.waved = state.plan.waved
        /\ p.retiring = state.plan.retiring /\ p.risks = state.plan.risks
        /\ p.version = state.plan.version
    BY <1>2, <1>3 DEF Plan
  <1>5. state' = [state EXCEPT !.plan = p]
    BY <1>1, <1>2 DEF costed, GraphState
  <1> HIDE DEF p
  <1>6. /\ state' \in GraphState /\ state'.plan = p /\ state'.model = state.model
        /\ state'.context = state.context /\ state'.iteration = state.iteration
    BY <1>2, <1>4, <1>5 DEF GraphState
  <1>7. UnderReview(state')
    BY <1>2, <1>4, <1>6 DEF UnderReview, WholePlan
  <1> QED  BY <1>1, <1>2, <1>6, <1>7, ReviewStep DEF Reviewing

(* A node that changes the findings only.                                  *)
LEMMA FindingsStep ==
  ASSUME IInv, at \in Reviewing, NEW F \in SUBSET Finding, state' = [state EXCEPT !.findings = F]
  PROVE  /\ state' \in GraphState /\ UnderReview(state') /\ state'.findings = F
         /\ state'.model = state.model /\ state'.plan = state.plan
         /\ state'.iteration = state.iteration
  <1>1. state \in GraphState /\ UnderReview(state)
    BY ReviewState
  <1> QED  BY <1>1 DEF GraphState, UnderReview

LEMMA RulesStep ==
  ASSUME IInv, RulesReview
  PROVE  IInv'
  <1> DEFINE R == RuleFindings(state.model, state.plan)
             F == R \cup From("llm", state.findings)
  <1>1. /\ at = "rules_review" /\ at' = "llm_review" /\ UNCHANGED << returned, rows, turn >>
        /\ state' = [state EXCEPT !.findings = F]
    BY DEF RulesReview, Node, Goto, Quiet
  <1>2. at \in Reviewing
    BY <1>1 DEF Reviewing
  <1>3. state.model \subseteq Components /\ state.plan \in Plan /\ state.findings \subseteq Finding
        /\ returned = TRUE
    BY <1>2, ReviewState
  <1>4. R \subseteq Finding /\ \A f \in R : f.source = "rule"
    BY <1>3, RuleFindingsTyped
  <1> HIDE DEF R
  <1>5. F \in SUBSET Finding /\ From("rule", F) = R
    BY <1>3, <1>4 DEF From
  <1> HIDE DEF F
  <1>6. /\ state' \in GraphState /\ UnderReview(state') /\ state'.findings = F
        /\ state'.model = state.model /\ state'.plan = state.plan
    BY <1>1, <1>2, <1>5, FindingsStep
  <1>7. RulesCurrent(state')
    BY <1>5, <1>6 DEF RulesCurrent, R
  <1> QED  BY <1>1, <1>3, <1>6, <1>7, ReviewStep DEF Reviewing

LEMMA LlmStep ==
  ASSUME IInv, LlmReview
  PROVE  IInv'
  <1>1. /\ at = "llm_review" /\ at' = "judge_review" /\ UNCHANGED << returned, rows, turn >>
        /\ \E s \in {Critique(state, abouts) : abouts \in Critiques} \cup {state} : state' = s
    BY DEF LlmReview, Node, Goto, Quiet
  <1>2. at \in Reviewing /\ RulesCurrent(state)
    BY <1>1 DEF Reviewing, IInv, Flow
  <1>3. /\ state.model \subseteq Components /\ state.findings \subseteq Finding /\ returned = TRUE
        /\ state \in GraphState /\ UnderReview(state) /\ state.iteration \in 0 .. MaxRefine
    BY <1>2, ReviewState
  <1>4. CASE state' = state
    BY <1>1, <1>2, <1>3, <1>4, ReviewStep DEF Reviewing
  <1>5. ASSUME NEW abouts \in Critiques, state' = Critique(state, abouts)
        PROVE  IInv'
    <2> DEFINE L == {[source |-> "llm", made |-> state.iteration, about |-> a \cap state.model] :
                       a \in abouts}
               F == From("rule", state.findings) \cup L
    <2>1. L \subseteq Finding /\ \A f \in L : f.source = "llm"
      BY <1>3 DEF Finding
    <2> HIDE DEF L
    <2>2. F \in SUBSET Finding /\ From("rule", F) = From("rule", state.findings)
      BY <1>3, <2>1 DEF From
    <2>3. state' = [state EXCEPT !.findings = F]
      BY <1>5 DEF Critique, L
    <2> HIDE DEF F
    <2>4. /\ state' \in GraphState /\ UnderReview(state') /\ state'.findings = F
          /\ state'.model = state.model /\ state'.plan = state.plan
      BY <1>2, <2>2, <2>3, FindingsStep
    <2>5. RulesCurrent(state')
      BY <1>2, <2>2, <2>4 DEF RulesCurrent
    <2> QED  BY <1>1, <1>3, <2>4, <2>5, ReviewStep DEF Reviewing
  <1> QED  BY <1>1, <1>4, <1>5

LEMMA JudgeStep ==
  ASSUME IInv, JudgeReview
  PROVE  IInv'
  <1>1. /\ at = "judge_review" /\ UNCHANGED << state, returned, rows, turn >>
        /\ at' = ShouldContinueRefining(state)
    BY DEF JudgeReview, Node, Goto, Quiet
  <1>2. at \in Reviewing /\ RulesCurrent(state)
    BY <1>1 DEF Reviewing, IInv, Flow
  <1>3. /\ returned = TRUE /\ state \in GraphState /\ UnderReview(state)
        /\ state.iteration \in 0 .. MaxRefine /\ MaxRefine \in Nat
    BY <1>2, ReviewState, PlanningAssumption
  <1>4. at' \in {"refine", "finalize_review"} /\ (at' = "refine" => state.iteration < MaxRefine)
    BY <1>1, <1>3 DEF ShouldContinueRefining
  <1> QED  BY <1>1, <1>2, <1>3, <1>4, ReviewStep DEF Reviewing

LEMMA RefineStep ==
  ASSUME IInv, Refine
  PROVE  IInv'
  <1>1. /\ at = "refine" /\ at' = "rules_review" /\ UNCHANGED << returned, rows, turn >>
        /\ \/ state' = [state EXCEPT !.iteration = @ + 1]
           \/ \E w \in Reworked(state) :
                state' = [state EXCEPT !.plan = Refined(@, w), !.iteration = @ + 1]
    BY DEF Refine, Node, NobodyNamed, AfterRefine, Goto, Quiet
  <1>2. at \in Reviewing /\ state.iteration < MaxRefine
    BY <1>1 DEF Reviewing, IInv, Flow
  <1>3. /\ state \in GraphState /\ returned = TRUE /\ UnderReview(state) /\ state.plan \in Plan
        /\ state.model \subseteq Components /\ state.iteration \in 0 .. MaxRefine /\ MaxRefine \in Nat
    BY <1>2, ReviewState, PlanningAssumption
  <1> DEFINE next == state.iteration + 1
  <1>4. next \in 0 .. MaxRefine
    BY <1>2, <1>3
  <1>5. state.plan.version \in Nat /\ state.plan.version + 1 <= next + 1
        /\ state.plan.version + 1 \in 1 .. MaxRefine + 1 /\ state.plan.version <= next + 1
    BY <1>2, <1>3 DEF UnderReview, Plan
  <1> HIDE DEF next
  <1>6. CASE state' = [state EXCEPT !.iteration = @ + 1]
    <2>1. state' = [state EXCEPT !.iteration = next]
      BY <1>6 DEF next
    <2>2. /\ state' \in GraphState /\ state'.plan = state.plan /\ state'.model = state.model
          /\ state'.context = state.context /\ state'.iteration = next
      BY <1>3, <1>4, <2>1 DEF GraphState
    <2>3. UnderReview(state')
      BY <1>3, <1>5, <2>2 DEF UnderReview
    <2> QED  BY <1>1, <1>3, <2>2, <2>3, ReviewStep DEF Reviewing
  <1>7. ASSUME NEW w \in Reworked(state),
               state' = [state EXCEPT !.plan = Refined(@, w), !.iteration = @ + 1]
        PROVE  IInv'
    <2> DEFINE p == Refined(state.plan, w)
               M == state.model
    <2>1. DOMAIN state.plan.work = M /\ state.plan.waved = M /\ state.plan.risks = {}
      BY <1>3 DEF UnderReview, WholePlan
    <2>2. w \in [M -> Work] /\ w \in Works
      BY <1>3, <2>1, ProposedTyped DEF Reworked
    <2>3. Retired(w) \subseteq Components
      BY <1>3, <2>2 DEF Retired
    <2>4. p = [state.plan EXCEPT !.work = w, !.retiring = Retired(w), !.version = @ + 1]
      BY DEF Refined
    <2>5. /\ p \in Plan /\ p.work = w /\ p.retiring = Retired(w) /\ p.waved = M /\ p.risks = {}
          /\ p.version = state.plan.version + 1
      <3> HIDE DEF p, M
      <3> DEFINE v == state.plan.version + 1
                 r == Retired(w)
      <3>1. v \in 1 .. MaxRefine + 1 /\ r \subseteq Components
        BY <1>5, <2>3
      <3>2. p = [state.plan EXCEPT !.work = w, !.retiring = r, !.version = v]
        BY <2>4
      <3> HIDE DEF v, r
      <3>3. /\ p \in Plan /\ p.work = w /\ p.retiring = r /\ p.version = v
            /\ p.waved = state.plan.waved /\ p.risks = state.plan.risks
        BY <1>3, <2>2, <3>1, <3>2 DEF Plan
      <3> QED  BY <2>1, <3>3 DEF v, r
    <2>6. state' = [state EXCEPT !.plan = p, !.iteration = next]
      BY <1>7 DEF next
    <2> HIDE DEF p
    <2>7. /\ state' \in GraphState /\ state'.plan = p /\ state'.model = state.model
          /\ state'.context = state.context /\ state'.iteration = next
      BY <1>3, <1>4, <2>5, <2>6 DEF GraphState
    <2>8. UnderReview(state')
      BY <1>3, <1>5, <2>2, <2>5, <2>7 DEF UnderReview, WholePlan
    <2> QED  BY <1>1, <1>3, <2>7, <2>8, ReviewStep DEF Reviewing
  <1> QED  BY <1>1, <1>6, <1>7

(* The reviewed plan, and what it has to show for it.                      *)
LEMMA FinalizedPlan ==
  ASSUME IInv, FinalizeReview
  PROVE  LET p == Finalized(state.plan, state.findings)
         IN  /\ p \in Plan /\ p.status = "reviewed" /\ p.version = state.plan.version
             /\ p.work = state.plan.work /\ p.waved = state.plan.waved
             /\ p.retiring = state.plan.retiring /\ p.strategy = state.plan.strategy
             /\ p.risks = state.findings
             /\ state' \in GraphState /\ state'.plan = p /\ state'.model = state.model
             /\ state'.context = state.context
  <1> DEFINE p == Finalized(state.plan, state.findings)
  <1>1. /\ at = "finalize_review"
        /\ state' = [state EXCEPT !.plan = p, !.clarifying = FALSE]
    BY DEF FinalizeReview, Node
  <1>2. /\ state \in GraphState /\ UnderReview(state) /\ state.plan \in Plan
        /\ state.findings \subseteq Finding
    BY <1>1, ReviewState DEF Reviewing
  <1>3. /\ p \in Plan /\ p.status = "reviewed" /\ p.version = state.plan.version
        /\ p.work = state.plan.work /\ p.waved = state.plan.waved
        /\ p.retiring = state.plan.retiring /\ p.strategy = state.plan.strategy
        /\ p.risks = state.plan.risks \cup state.findings
    BY <1>2 DEF Finalized, Plan
  <1>4. p.risks = state.findings
    BY <1>2, <1>3 DEF UnderReview
  <1> HIDE DEF p
  <1>5. /\ state' \in GraphState /\ state'.plan = p /\ state'.model = state.model
        /\ state'.context = state.context
    BY <1>1, <1>2, <1>3 DEF GraphState
  <1> QED  BY <1>3, <1>4, <1>5 DEF p

LEMMA FinalizeStep ==
  ASSUME IInv, FinalizeReview
  PROVE  IInv'
  <1>1. /\ at = "finalize_review" /\ at' = "persist" /\ UNCHANGED << returned, rows, turn >>
    BY DEF FinalizeReview, Node, Goto, Quiet
  <1>2. state.context /\ returned = TRUE
    BY <1>1, ReviewState DEF Reviewing, UnderReview
  <1>3. /\ state' \in GraphState /\ state'.plan \in Plan /\ state'.plan.status = "reviewed"
        /\ state'.context = state.context
    BY FinalizedPlan
  <1>4. TypeOK'
    BY <1>1, <1>3 DEF IInv, TypeOK
  <1>5. RowsSupportReview'
    BY <1>1 DEF IInv, RowsSupportReview, Versions
  <1> QED
    BY <1>1, <1>2, <1>3, <1>4, <1>5 DEF IInv, Flow, Returned, Early, Reviewing

-----------------------------------------------------------------------------
(* The end of a turn.                                                      *)

LEMMA PersistStep ==
  ASSUME IInv, PersistTurn
  PROVE  IInv'
  <1>1. /\ at = "persist" /\ at' = "idle" /\ UNCHANGED << state, returned, turn >>
        /\ rows' = [rows EXCEPT
             !.model = state.model,
             !.context = rows.context \/ state.context,
             !.plans = IF PlanReturned THEN [@ EXCEPT ![state.plan.version] = state.plan] ELSE @,
             !.status = IF PlanReturned THEN "review" ELSE @]
    BY DEF PersistTurn
  <1>2. /\ state \in GraphState /\ rows \in Rows /\ RowsSupportReview
        /\ state.model \subseteq Components /\ state.context \in BOOLEAN
    BY DEF IInv, TypeOK, GraphState
  <1> DEFINE plans == IF PlanReturned THEN [rows.plans EXCEPT ![state.plan.version] = state.plan]
                      ELSE rows.plans
             status == IF PlanReturned THEN "review" ELSE rows.status
             context == rows.context \/ state.context
  <1>3. PlanReturned => /\ state.plan \in Plan /\ state.plan.status = "reviewed" /\ state.plan # None
                        /\ state.plan.version \in 1 .. MaxRefine + 1
                        /\ rows.status = "review" \/ state.context
    BY <1>1 DEF IInv, Returned, PlanReturned, Plan
  <1>4. /\ rows.plans \in [1 .. MaxRefine + 1 -> Plan \cup {None}]
        /\ rows.status \in {"planning", "review"} /\ rows.context \in BOOLEAN
    BY <1>2 DEF Rows
  <1>5. /\ plans \in [1 .. MaxRefine + 1 -> Plan \cup {None}]
        /\ status \in {"planning", "review"} /\ context \in BOOLEAN
    BY <1>2, <1>3, <1>4
  <1>6. rows' = [rows EXCEPT !.model = state.model, !.context = context, !.plans = plans,
                             !.status = status]
    BY <1>1
  <1>7. \A v \in 1 .. MaxRefine + 1 :
          plans[v] = IF PlanReturned /\ v = state.plan.version THEN state.plan ELSE rows.plans[v]
    BY <1>4
  <1>8. context = (rows.context \/ state.context)
    OBVIOUS
  <1>9. status = IF PlanReturned THEN "review" ELSE rows.status
    OBVIOUS
  <1> HIDE DEF plans, status, context
  <1>10. /\ rows' \in Rows /\ rows'.plans = plans /\ rows'.status = status /\ rows'.context = context
    BY <1>2, <1>5, <1>6 DEF Rows
  <1>11. TypeOK'
    BY <1>1, <1>10 DEF IInv, TypeOK
  <1>12. Versions' = IF PlanReturned THEN Versions \cup {state.plan.version} ELSE Versions
    <2>1. Versions' = {v \in 1 .. MaxRefine + 1 : plans[v] # None}
      BY <1>5, <1>10 DEF Versions
    <2>2. Versions = {v \in 1 .. MaxRefine + 1 : rows.plans[v] # None}
      BY <1>4 DEF Versions
    <2> QED  BY <1>3, <1>7, <2>1, <2>2
  <1>13. RowsSupportReview'
    <2>1. \A v \in Versions' : plans[v].version = v /\ plans[v].status = "reviewed"
      <3> SUFFICES ASSUME NEW v \in Versions'
                   PROVE  plans[v].version = v /\ plans[v].status = "reviewed"
        OBVIOUS
      <3>1. v \in 1 .. MaxRefine + 1
        BY <1>5, <1>10 DEF Versions
      <3>2. CASE PlanReturned /\ v = state.plan.version
        BY <1>3, <1>7, <3>1, <3>2
      <3>3. CASE ~ (PlanReturned /\ v = state.plan.version)
        <4>1. v \in Versions /\ plans[v] = rows.plans[v]
          BY <1>7, <1>12, <3>1, <3>3
        <4> QED  BY <1>2, <4>1 DEF RowsSupportReview
      <3> QED  BY <3>2, <3>3
    <2>2. (status = "review") = (Versions' # {})
      BY <1>2, <1>9, <1>12 DEF RowsSupportReview
    <2>3. status = "review" => context
      BY <1>2, <1>3, <1>8, <1>9 DEF RowsSupportReview
    <2> QED  BY <1>10, <2>1, <2>2, <2>3 DEF RowsSupportReview
  <1> QED
    BY <1>1, <1>11, <1>13 DEF IInv, Flow, Returned, Early, Reviewing

LEMMA AbortStep ==
  ASSUME IInv, AbortTurn \/ UNCHANGED vars
  PROVE  IInv'
  <1>1. CASE AbortTurn
    <2>1. at' = "idle" /\ UNCHANGED << state, returned, rows, turn >>
      BY <1>1 DEF AbortTurn
    <2>2. TypeOK' /\ RowsSupportReview'
      BY <2>1 DEF IInv, TypeOK, RowsSupportReview, Versions
    <2> QED  BY <2>1, <2>2 DEF IInv, Flow, Returned, Early, Reviewing
  <1>2. CASE UNCHANGED vars
    BY <1>2 DEF vars, IInv, TypeOK, RowsSupportReview, Versions, Flow, Returned
  <1> QED  BY <1>1, <1>2

LEMMA IInvInit == Init => IInv
  <1> SUFFICES ASSUME Init PROVE IInv
    OBVIOUS
  <1>1. 0 \in 0 .. MaxTurns /\ 0 \in 0 .. MaxRefine
    BY PlanningAssumption
  <1>2. NoResults \in Results
    BY DEF NoResults, Results
  <1>3. state \in GraphState
    <2>1. /\ {} \in SUBSET Components /\ {} \in SUBSET Finding
          /\ None \in Patches \cup {None} /\ None \in Works \cup {None}
          /\ None \in Plan \cup {None} /\ None \in (SUBSET Components) \cup {None}
      OBVIOUS
    <2> QED  BY <1>1, <1>2, <2>1 DEF Init, GraphState
  <1>4. PICK M \in SUBSET Components :
          rows = [status |-> "planning", model |-> M, context |-> FALSE,
                  plans |-> [v \in 1 .. MaxRefine + 1 |-> None]]
    BY DEF Init
  <1>5. rows \in Rows
    BY <1>4 DEF Rows
  <1>6. Versions = {}
    BY <1>4 DEF Versions
  <1>7. TypeOK /\ RowsSupportReview
    BY <1>1, <1>3, <1>4, <1>5, <1>6 DEF Init, TypeOK, RowsSupportReview
  <1> QED  BY <1>7 DEF Init, IInv, Flow, Returned, Early, Reviewing

LEMMA IInvNext == IInv /\ [Next]_vars => IInv'
  BY BeginStep, IngestStep, ApplyStep, ElicitStep, SequenceStep, ComponentStep, StrategyStep,
     AssembleStep, EstimateStep, RulesStep, LlmStep, JudgeStep, RefineStep, FinalizeStep,
     PersistStep, AbortStep
  DEF Next, GraphStep

LEMMA IInvInvariant == Spec => []IInv
  BY IInvInit, IInvNext, PTL DEF Spec

-----------------------------------------------------------------------------
(* The checkpoint and the rows keep their types; in particular no refine   *)
(* loop runs past its budget, on whatever checkpoint it was started.       *)
THEOREM TypeCorrect == Spec => []TypeOK
  BY IInvInvariant, PTL DEF IInv

(* The rows of a session are those its status promises, however its turns  *)
(* halt or die.                                                            *)
THEOREM RowsSupport == Spec => []RowsSupportReview
  BY IInvInvariant, PTL DEF IInv

(* Only finalize_review_node is at its node.                               *)
LEMMA OnlyFinalize ==
  ASSUME [Next]_vars, Finalizes
  PROVE  FinalizeReview
  BY DEF Finalizes, Next, GraphStep, BeginPlanning, BeginReview, AfterGateIntake,
         ReviewDiscussIngest, Ingest, ApplyPatches, ElicitContext, ComputeSequence,
         PerComponentPlanning, StrategyNode, AssemblePlan, EstimateCost, RulesReview,
         LlmReview, JudgeReview, Refine, PersistTurn, AbortTurn, Node, vars

(* Every plan the review passes on covers the model it was planned from,   *)
(* and its mappings agree with its component plans.                        *)
THEOREM WholePlanReviewed == Spec => PlanIsWhole
  <1>1. IInv /\ [Next]_vars =>
          [Finalizes =>
             LET p == state'.plan
             IN  /\ DOMAIN p.work = state'.model /\ p.waved = state'.model
                 /\ p.retiring = Retired(p.work)
                 /\ p.version <= MaxRefine + 1]_vars
    <2> SUFFICES ASSUME IInv, [Next]_vars, Finalizes
                 PROVE  /\ DOMAIN state'.plan.work = state'.model
                        /\ state'.plan.waved = state'.model
                        /\ state'.plan.retiring = Retired(state'.plan.work)
                        /\ state'.plan.version <= MaxRefine + 1
      OBVIOUS
    <2>1. FinalizeReview /\ at = "finalize_review"
      BY OnlyFinalize DEF Finalizes
    <2>2. UnderReview(state)
      BY <2>1, ReviewState DEF Reviewing
    <2>3. /\ state'.plan.work = state.plan.work /\ state'.plan.waved = state.plan.waved
          /\ state'.plan.retiring = state.plan.retiring /\ state'.model = state.model
          /\ state'.plan \in Plan
      BY <2>1, FinalizedPlan
    <2>4. state'.plan.version <= MaxRefine + 1
      BY <2>3, PlanningAssumption DEF Plan
    <2> QED  BY <2>2, <2>3, <2>4 DEF UnderReview, WholePlan
  <1> QED  BY <1>1, IInvInvariant, PTL DEF Spec, PlanIsWhole

(* What the rules object to in the plan that is passed on is in its risks, *)
(* and nothing that a refinement has mended.                               *)
THEOREM RisksOfThePlan == Spec => RisksAreCurrent
  <1>1. IInv /\ [Next]_vars =>
          [Finalizes =>
             From("rule", state'.plan.risks) = RuleFindings(state'.model, state'.plan)]_vars
    <2> SUFFICES ASSUME IInv, [Next]_vars, Finalizes
                 PROVE  From("rule", state'.plan.risks) = RuleFindings(state'.model, state'.plan)
      OBVIOUS
    <2>1. FinalizeReview /\ at = "finalize_review"
      BY OnlyFinalize DEF Finalizes
    <2>2. From("rule", state.findings) = RuleFindings(state.model, state.plan)
      BY <2>1 DEF IInv, Flow, RulesCurrent
    <2>3. /\ state'.plan.work = state.plan.work /\ state'.plan.waved = state.plan.waved
          /\ state'.plan.retiring = state.plan.retiring /\ state'.plan.strategy = state.plan.strategy
          /\ state'.plan.risks = state.findings /\ state'.model = state.model
      BY <2>1, FinalizedPlan
    <2>4. RuleFindings(state.model, state'.plan) = RuleFindings(state.model, state.plan)
      BY <2>3, RuleFindingsOfContents
    <2> QED  BY <2>2, <2>3, <2>4
  <1> QED  BY <1>1, IInvInvariant, PTL DEF Spec, RisksAreCurrent

-----------------------------------------------------------------------------
(* What a turn makes of the plan.                                          *)

Replanning == {"compute_sequence", "per_component_planning", "strategy", "assemble_plan"}

(* Whether a plan that is about to be persisted was made by this turn.     *)
MadeThisTurn ==
  /\ WholePlan(state.plan, state.model)
  /\ rows.status = "review" => state.results.applied

(* A review turn works on the plan and the model it was given until it has *)
(* applied patches, and goes to assemble a new plan only then.             *)
PlanOfTurn ==
  /\ at \in {"after_gate_intake", "review_ingest", "apply_patches"} => state.model = rows.model
  /\ at = "elicit_context" => rows.status # "review"
  /\ rows.status = "review" /\ at \in Early => state.plan = LatestPlan
  /\ rows.status = "review" /\ at \in Replanning \cup Reviewing => state.results.applied
  /\ at = "persist" /\ returned =>
       MadeThisTurn \/ (rows.status = "review" /\ state.plan = LatestPlan)
  /\ at = "persist" /\ rows.status = "review" =>
       returned /\ (state.results.applied \/ state.model = rows.model)

(* What graph steps leave alone, node by node. *)
LEMMA EarlySteps ==
  ASSUME IInv,
         AfterGateIntake \/ ReviewDiscussIngest \/ ApplyPatches \/ ElicitContext
           \/ ComputeSequence \/ PerComponentPlanning \/ StrategyNode
  PROVE  /\ UNCHANGED << rows, turn, returned >> /\ at \in Early
         /\ at' \in Early \cup {"persist"} /\ state'.plan = state.plan
         /\ at \in {"elicit_context"} \cup Replanning => state'.results = state.results
         /\ at \in {"after_gate_intake", "review_ingest"} => at' = "apply_patches"
         /\ at' \in Replanning =>
              \/ at \in Replanning
              \/ at = "elicit_context"
              \/ at = "apply_patches" /\ rows.status = "review" /\ state'.results.applied
         /\ at' = "elicit_context" => rows.status # "review"
         /\ state'.model = state.model \/ (at = "apply_patches" /\ state'.results.applied)
  <1>1. state \in GraphState
    BY DEF IInv, TypeOK
  <1> USE DEF Node, Goto, Quiet, Early, Replanning
  <1>2. CASE AfterGateIntake \/ ReviewDiscussIngest
    <2>1. PICK s \in Ingested(state) \cup {IngestFailed(state)} : state' = s
      BY <1>2 DEF AfterGateIntake, ReviewDiscussIngest, Ingest
    <2>2. state'.plan = state.plan /\ state'.model = state.model
      BY <1>1, <2>1 DEF Ingested, IngestFailed, GraphState
    <2> QED  BY <1>2, <2>2 DEF AfterGateIntake, ReviewDiscussIngest, Ingest
  <1>3. CASE ApplyPatches
    <2>1. PICK s \in Applied(state) : state' = s /\ at' = AfterPatches(s)
      BY <1>3 DEF ApplyPatches
    <2>2. state'.plan = state.plan /\ (state'.model = state.model \/ state'.results.applied)
      <3>1. CASE s = [state EXCEPT !.results = NoResults]
        BY <1>1, <2>1, <3>1 DEF GraphState
      <3>2. CASE \E o \in Outcomes(state) :
                   s = [state EXCEPT !.model = o.model, !.patches = None, !.error = FALSE,
                          !.results = [asked |-> "question" \in state.patches, applied |-> o.applied]]
        <4>1. PICK o \in Outcomes(state) :
                s = [state EXCEPT !.model = o.model, !.patches = None, !.error = FALSE,
                       !.results = [asked |-> "question" \in state.patches, applied |-> o.applied]]
          BY <3>2
        <4>2. o.model # state.model => o.applied
          BY DEF Outcomes
        <4> QED  BY <1>1, <2>1, <4>1, <4>2 DEF GraphState
      <3> QED  BY <2>1, <3>1, <3>2 DEF Applied
    <2> QED  BY <1>3, <2>1, <2>2 DEF ApplyPatches, AfterPatches, AfterPatchesInReview
  <1>4. CASE ElicitContext
    <2>1. PICK s \in Elicited(state) : state' = s
      BY <1>4 DEF ElicitContext
    <2>2. /\ state'.plan = state.plan /\ state'.results = state.results
          /\ state'.model = state.model
      BY <1>1, <2>1 DEF Elicited, GraphState
    <2> QED  BY <1>4, <2>2 DEF ElicitContext
  <1>5. CASE ComputeSequence
    <2>1. PICK s \in {[state EXCEPT !.waves = state.model, !.error = FALSE],
                      [state EXCEPT !.error = TRUE]} : state' = s
      BY <1>5 DEF ComputeSequence
    <2>2. /\ state'.plan = state.plan /\ state'.results = state.results
          /\ state'.model = state.model
      BY <1>1, <2>1 DEF GraphState
    <2> QED  BY <1>5, <2>2 DEF ComputeSequence, UnlessError
  <1>6. CASE PerComponentPlanning
    <2>1. PICK s \in ComponentOutputs(state) : state' = s
      BY <1>6 DEF PerComponentPlanning
    <2>2. /\ state'.plan = state.plan /\ state'.results = state.results
          /\ state'.model = state.model
      <3>1. CASE s = [state EXCEPT !.error = TRUE]
        BY <1>1, <2>1, <3>1 DEF GraphState
      <3>2. CASE \E w \in Proposed(state.model) : s = [state EXCEPT !.outputs = w, !.error = FALSE]
        BY <1>1, <2>1, <3>2 DEF GraphState
      <3> QED  BY <2>1, <3>1, <3>2 DEF ComponentOutputs
    <2> QED  BY <1>6, <2>2 DEF PerComponentPlanning, UnlessError
  <1>7. CASE StrategyNode
    <2>1. PICK s \in Strategies(state) : state' = s
      BY <1>7 DEF StrategyNode
    <2>2. /\ state'.plan = state.plan /\ state'.results = state.results
          /\ state'.model = state.model
      BY <1>1, <2>1 DEF Strategies, GraphState
    <2> QED  BY <1>7, <2>2 DEF StrategyNode, UnlessError
  <1> QED  BY <1>2, <1>3, <1>4, <1>5, <1>6, <1>7

LEMMA ReviewSteps ==
  ASSUME IInv,
         AssemblePlan \/ EstimateCost \/ RulesReview \/ LlmReview \/ JudgeReview \/ Refine
           \/ FinalizeReview
  PROVE  /\ UNCHANGED << rows, turn >> /\ at \in {"assemble_plan"} \cup Reviewing
         /\ at' \in Reviewing \cup {"persist"} /\ state'.results = state.results
         /\ state'.model = state.model
         /\ at' = "persist" => at = "finalize_review"
  <1>1. state \in GraphState
    BY DEF IInv, TypeOK
  <1> USE DEF Node, Goto, Quiet, Reviewing
  <1>2. CASE AssemblePlan
    BY <1>1, <1>2 DEF AssemblePlan, GraphState
  <1>3. CASE EstimateCost
    BY <1>1, <1>3 DEF EstimateCost, GraphState
  <1>4. CASE RulesReview
    BY <1>1, <1>4 DEF RulesReview, GraphState
  <1>5. CASE LlmReview
    BY <1>1, <1>5 DEF LlmReview, Critique, GraphState
  <1>6. CASE JudgeReview
    BY <1>1, <1>6 DEF JudgeReview, ShouldContinueRefining
  <1>7. CASE Refine
    BY <1>1, <1>7 DEF Refine, NobodyNamed, AfterRefine, GraphState
  <1>8. CASE FinalizeReview
    BY <1>1, <1>8 DEF FinalizeReview, GraphState
  <1> QED  BY <1>2, <1>3, <1>4, <1>5, <1>6, <1>7, <1>8

LEMMA PlanOfTurnNext ==
  ASSUME IInv, PlanOfTurn, [Next]_vars
  PROVE  PlanOfTurn'
  <1>1. rows' = rows => LatestPlan' = LatestPlan
    BY DEF LatestPlan, Versions
  <1>2. CASE BeginPlanning
    BY <1>2 DEF BeginPlanning, PlanOfTurn, Replanning, Reviewing
  <1>3. CASE BeginReview
    <2>1. state \in GraphState
      BY DEF IInv, TypeOK
    <2>2. /\ state'.plan = LatestPlan /\ state'.model = rows.model
          /\ at' = "review_ingest" /\ rows' = rows
      BY <1>3, <2>1 DEF BeginReview, GraphState
    <2> QED  BY <1>1, <2>2 DEF PlanOfTurn, Replanning, Reviewing
  <1>4. CASE AfterGateIntake \/ ReviewDiscussIngest \/ ApplyPatches \/ ElicitContext
               \/ ComputeSequence \/ PerComponentPlanning \/ StrategyNode
    <2>1. /\ UNCHANGED << rows, turn, returned >> /\ at \in Early
          /\ at' \in Early \cup {"persist"} /\ state'.plan = state.plan
          /\ at \in {"elicit_context"} \cup Replanning => state'.results = state.results
          /\ at' \in Replanning =>
               \/ at \in Replanning
               \/ at = "elicit_context"
               \/ at = "apply_patches" /\ rows.status = "review" /\ state'.results.applied
          /\ at' = "elicit_context" => rows.status # "review"
          /\ at \in {"after_gate_intake", "review_ingest"} => at' = "apply_patches"
          /\ state'.model = state.model \/ (at = "apply_patches" /\ state'.results.applied)
          /\ at' \in {"after_gate_intake", "review_ingest", "apply_patches"} =>
               at \in {"after_gate_intake", "review_ingest"}
      <3>1. at' \in {"after_gate_intake", "review_ingest", "apply_patches"} =>
              at \in {"after_gate_intake", "review_ingest"}
        BY <1>4 DEF AfterGateIntake, ReviewDiscussIngest, Ingest, ApplyPatches, AfterPatches,
           AfterPatchesInReview, ElicitContext, ComputeSequence, PerComponentPlanning,
           StrategyNode, UnlessError, Node, Goto
      <3> QED  BY <1>4, <3>1, EarlySteps
    <2>2. returned = (rows.status = "review")
      BY <2>1 DEF IInv, Returned
    <2> QED  BY <1>1, <2>1, <2>2 DEF PlanOfTurn, Early, Replanning, Reviewing
  <1>5. CASE AssemblePlan \/ EstimateCost \/ RulesReview \/ LlmReview \/ JudgeReview \/ Refine
               \/ FinalizeReview
    <2>1. /\ UNCHANGED rows /\ at \in {"assemble_plan"} \cup Reviewing
          /\ at' \in Reviewing \cup {"persist"} /\ state'.results = state.results
          /\ at' = "persist" => at = "finalize_review"
      BY <1>5, ReviewSteps
    <2>2. rows.status = "review" => state'.results.applied
      BY <2>1 DEF PlanOfTurn, Replanning
    <2>3. at' = "persist" => WholePlan(state'.plan, state'.model)
      <3> SUFFICES ASSUME at' = "persist"
                   PROVE  WholePlan(state'.plan, state'.model)
        OBVIOUS
      <3>1. FinalizeReview /\ UnderReview(state)
        BY <1>5, <2>1, ReviewState
        DEF AssemblePlan, EstimateCost, RulesReview, LlmReview, JudgeReview, Refine, Node, Reviewing
      <3>2. /\ state'.plan.work = state.plan.work /\ state'.plan.waved = state.plan.waved
            /\ state'.plan.retiring = state.plan.retiring /\ state'.model = state.model
        BY <3>1, FinalizedPlan
      <3> QED  BY <3>1, <3>2 DEF UnderReview, WholePlan
    <2>4. at' = "persist" => returned' = returned /\ returned
      <3> SUFFICES ASSUME at' = "persist" PROVE returned' = returned /\ returned
        OBVIOUS
      <3>1. FinalizeReview /\ at \in Reviewing
        BY <1>5, <2>1
        DEF AssemblePlan, EstimateCost, RulesReview, LlmReview, JudgeReview, Refine, Node, Reviewing
      <3> QED  BY <3>1 DEF FinalizeReview, Quiet, IInv, Flow
    <2> QED  BY <2>1, <2>2, <2>3, <2>4 DEF PlanOfTurn, MadeThisTurn, Early, Reviewing
  <1>6. CASE PersistTurn \/ AbortTurn
    BY <1>6 DEF PersistTurn, AbortTurn, PlanOfTurn, Early, Replanning, Reviewing
  <1>7. CASE UNCHANGED vars
    BY <1>1, <1>7 DEF vars, PlanOfTurn, MadeThisTurn
  <1> QED  BY <1>2, <1>3, <1>4, <1>5, <1>6, <1>7 DEF Next, GraphStep

LEMMA PlanOfTurnInvariant == Spec => []PlanOfTurn
  <1>1. Init => PlanOfTurn
    BY DEF Init, PlanOfTurn, Early, Replanning, Reviewing
  <1> QED  BY <1>1, PlanOfTurnNext, IInvInvariant, PTL DEF Spec

(* Only _persist_turn writes the rows.                                     *)
LEMMA OnlyPersistWrites ==
  ASSUME [Next]_vars, ~ PersistTurn
  PROVE  rows' = rows
  BY DEF Next, GraphStep, BeginPlanning, BeginReview, AfterGateIntake, ReviewDiscussIngest,
         Ingest, ApplyPatches, ElicitContext, ComputeSequence, PerComponentPlanning,
         StrategyNode, AssemblePlan, EstimateCost, RulesReview, LlmReview, JudgeReview,
         Refine, FinalizeReview, AbortTurn, Node, vars

LEMMA HighestIs ==
  ASSUME NEW n \in Nat, NEW S \in SUBSET (1 .. n), NEW v \in S, \A w \in S : w <= v
  PROVE  (CHOOSE x \in S : \A w \in S : w <= x) = v
  <1> DEFINE h == CHOOSE x \in S : \A w \in S : w <= x
  <1>1. h \in S /\ \A w \in S : w <= h
    OBVIOUS
  <1> HIDE DEF h
  <1>2. h <= v /\ v <= h /\ h \in Nat /\ v \in Nat
    BY <1>1
  <1>3. h = v
    BY <1>2
  <1> QED  BY <1>3 DEF h

(* What _persist_turn makes of the rows: their model is the turn's, and    *)
(* the plan of the highest version is what it was, unless the turn has     *)
(* made another one and no row of a higher version hides it.               *)
LEMMA Persisted ==
  ASSUME IInv, PlanOfTurn, PersistTurn
  PROVE  /\ rows'.model = state.model
         /\ rows'.status = IF PlanReturned THEN "review" ELSE rows.status
         /\ rows'.plans = IF PlanReturned THEN [rows.plans EXCEPT ![state.plan.version] = state.plan]
                          ELSE rows.plans
         /\ rows.status = "review" => PlanReturned
         /\ PlanReturned => MadeThisTurn \/ (rows.status = "review" /\ state.plan = LatestPlan)
         /\ rows.status = "review" /\ state.plan = LatestPlan => rows'.plans = rows.plans
         /\ ~ PlanReturned \/ (rows.status = "review" /\ state.plan = LatestPlan) =>
              LatestPlan' = LatestPlan
         /\ PlanReturned /\ (\A w \in Versions : w <= state.plan.version) =>
              LatestPlan' = state.plan
  <1>1. /\ at = "persist"
        /\ rows' = [rows EXCEPT
             !.model = state.model,
             !.context = rows.context \/ state.context,
             !.plans = IF PlanReturned THEN [@ EXCEPT ![state.plan.version] = state.plan] ELSE @,
             !.status = IF PlanReturned THEN "review" ELSE @]
    BY DEF PersistTurn
  <1>2. rows \in Rows /\ RowsSupportReview
    BY DEF IInv, TypeOK
  <1> DEFINE plans == IF PlanReturned THEN [rows.plans EXCEPT ![state.plan.version] = state.plan]
                      ELSE rows.plans
             status == IF PlanReturned THEN "review" ELSE rows.status
             context == rows.context \/ state.context
  <1>3. rows' = [rows EXCEPT !.model = state.model, !.context = context,
                             !.plans = plans, !.status = status]
    BY <1>1
  <1> HIDE DEF plans, status, context
  <1>4. rows'.model = state.model /\ rows'.plans = plans /\ rows'.status = status
    BY <1>2, <1>3 DEF Rows
  <1> USE DEF plans, status
  <1>5. rows.plans \in [1 .. MaxRefine + 1 -> Plan \cup {None}]
    BY <1>2 DEF Rows
  <1>6. returned => state.plan \in Plan
    BY <1>1 DEF IInv, Returned
  <1>7. PlanReturned => state.plan # None /\ state.plan.version \in 1 .. MaxRefine + 1
    BY <1>6 DEF PlanReturned, Plan
  <1>8. rows.status = "review" => PlanReturned
    BY <1>1, <1>6, NoneAssumption DEF PlanOfTurn, PlanReturned
  <1>9. PlanReturned => MadeThisTurn \/ (rows.status = "review" /\ state.plan = LatestPlan)
    BY <1>1 DEF PlanOfTurn, PlanReturned
  <1>10. plans = rows.plans => LatestPlan' = LatestPlan
    <2> SUFFICES ASSUME rows'.plans = rows.plans PROVE LatestPlan' = LatestPlan
      BY <1>4
    <2> HIDE DEF plans, status
    <2>1. Versions' = Versions
      BY DEF Versions
    <2> QED  BY <2>1 DEF LatestPlan
  <1>11. rows.status = "review" /\ state.plan = LatestPlan => plans = rows.plans
    <2> SUFFICES ASSUME rows.status = "review", state.plan = LatestPlan
                 PROVE  plans = rows.plans
      OBVIOUS
    <2>1. Versions # {}
      BY <1>2 DEF RowsSupportReview
    <2>2. PICK v \in Versions : LatestPlan = rows.plans[v]
      BY <1>2, <2>1, LatestPlanTyped
    <2>3. state.plan.version = v
      BY <1>2, <2>2 DEF RowsSupportReview
    <2> QED  BY <1>5, <2>2, <2>3
  <1>12. PlanReturned /\ (\A w \in Versions : w <= state.plan.version) => LatestPlan' = state.plan
    <2> SUFFICES ASSUME PlanReturned, \A w \in Versions : w <= state.plan.version
                 PROVE  LatestPlan' = state.plan
      OBVIOUS
    <2> DEFINE v == state.plan.version
    <2>1. v \in 1 .. MaxRefine + 1 /\ MaxRefine + 1 \in Nat /\ v <= v
      BY <1>7, PlanningAssumption
    <2>2. Versions' = Versions \cup {v} /\ rows'.plans[v] = state.plan
      <3>1. Versions' = {w \in 1 .. MaxRefine + 1 : plans[w] # None}
        BY <1>4, <1>5, <1>7 DEF Versions
      <3>2. Versions = {w \in 1 .. MaxRefine + 1 : rows.plans[w] # None}
        BY <1>5 DEF Versions
      <3> QED  BY <1>4, <1>5, <1>7, <3>1, <3>2
    <2>3. /\ Versions' \in SUBSET (1 .. MaxRefine + 1) /\ v \in Versions'
          /\ \A w \in Versions' : w <= v
      BY <1>5, <2>1, <2>2 DEF Versions
    <2>4. (CHOOSE x \in Versions' : \A w \in Versions' : w <= x) = v
      <3> HIDE DEF v
      <3> QED  BY <2>1, <2>3, HighestIs
    <2> QED  BY <2>2, <2>3, <2>4 DEF LatestPlan
  <1> QED  BY <1>4, <1>8, <1>9, <1>10, <1>11, <1>12

(* A plan that covered the session's model comes apart from it only where  *)
(* a review turn has applied patches, and either halted before it had a    *)
(* new plan, or made one that a row of a higher version hides.             *)
THEOREM OutgrownOnlyByHalts == Spec => OnlyHaltsUncover
  <1>1. IInv /\ PlanOfTurn /\ [Next]_vars =>
          [PlanCoversModel /\ ~ PlanCoversModel' =>
             /\ rows.status = "review" /\ state.results.applied
             /\ \/ state.plan = LatestPlan
                \/ \E v \in Versions : v > state.plan.version]_vars
    <2> SUFFICES ASSUME IInv, PlanOfTurn, [Next]_vars, PlanCoversModel, ~ PlanCoversModel'
                 PROVE  /\ rows.status = "review" /\ state.results.applied
                        /\ \/ state.plan = LatestPlan
                           \/ \E v \in Versions : v > state.plan.version
      OBVIOUS
    <2>1. PersistTurn /\ at = "persist"
      BY OnlyPersistWrites DEF PlanCoversModel, LatestPlan, Versions, PersistTurn
    <2>2. /\ rows'.model = state.model
          /\ rows'.status = IF PlanReturned THEN "review" ELSE rows.status
          /\ rows.status = "review" => PlanReturned
          /\ PlanReturned => MadeThisTurn \/ (rows.status = "review" /\ state.plan = LatestPlan)
          /\ ~ PlanReturned \/ (rows.status = "review" /\ state.plan = LatestPlan) =>
               LatestPlan' = LatestPlan
          /\ PlanReturned /\ (\A w \in Versions : w <= state.plan.version) =>
               LatestPlan' = state.plan
      BY <2>1, Persisted
    <2>3. rows'.status = "review" /\ ~ (state.model \subseteq DOMAIN (LatestPlan').work)
      BY <2>2 DEF PlanCoversModel
    <2>4. PlanReturned
      BY <2>2, <2>3
    <2>5. MadeThisTurn => \E w \in Versions : ~ (w <= state.plan.version)
      BY <2>2, <2>3, <2>4 DEF MadeThisTurn, WholePlan
    <2>6. rows.status = "review"
      BY <2>2, <2>4, <2>5 DEF IInv, RowsSupportReview
    <2>7. state.results.applied
      BY <2>1, <2>2, <2>3, <2>4, <2>6 DEF PlanOfTurn, MadeThisTurn, PlanCoversModel
    <2>8. state.plan = LatestPlan \/ \E v \in Versions : v > state.plan.version
      <3> SUFFICES ASSUME state.plan # LatestPlan
                   PROVE  \E v \in Versions : v > state.plan.version
        OBVIOUS
      <3>1. PICK v \in Versions : ~ (v <= state.plan.version)
        BY <2>2, <2>4, <2>5
      <3>2. v \in Nat
        <4>1. rows.plans \in [1 .. MaxRefine + 1 -> Plan \cup {None}]
          BY DEF IInv, TypeOK, Rows
        <4>2. v \in 1 .. MaxRefine + 1
          BY <4>1 DEF Versions
        <4> QED  BY <4>2, PlanningAssumption
      <3>3. state.plan \in Plan
        BY <2>1, <2>4 DEF IInv, Returned, PlanReturned
      <3>4. state.plan.version \in Nat
        BY <3>3 DEF Plan
      <3> QED  BY <3>1, <3>2, <3>4
    <2> QED  BY <2>6, <2>7, <2>8
  <1> QED  BY <1>1, IInvInvariant, PlanOfTurnInvariant, PTL DEF Spec, OnlyHaltsUncover

(* What a turn that is persisted may write, as SessionTurns takes it for   *)
(* granted (FinishGraph): no plan at all, or one reviewed plan of a        *)
(* version the refine budget allows that covers the model it is saved      *)
(* with, and in review only of a model this turn has patched.  A halted    *)
(* turn leaves plans and status alone.                                     *)
TurnWrites ==
  \/ rows'.plans = rows.plans /\ rows'.status = rows.status
  \/ /\ rows.status = "review" => state.results.applied
     /\ state.plan.status = "reviewed" /\ state.plan.version \in 1 .. MaxRefine + 1
     /\ WholePlan(state.plan, rows'.model)
     /\ rows'.plans = [rows.plans EXCEPT ![state.plan.version] = state.plan]
     /\ rows'.status = "review"

THEOREM TurnsWriteWholePlans == Spec => [][TurnWrites]_rows
  <1>1. IInv /\ PlanOfTurn /\ [Next]_vars => [TurnWrites]_rows
    <2> SUFFICES ASSUME IInv, PlanOfTurn, [Next]_vars, rows' # rows
                 PROVE  TurnWrites
      OBVIOUS
    <2>1. PersistTurn /\ at = "persist"
      BY OnlyPersistWrites DEF PersistTurn
    <2>2. /\ rows'.model = state.model
          /\ rows'.status = IF PlanReturned THEN "review" ELSE rows.status
          /\ rows'.plans = IF PlanReturned THEN [rows.plans EXCEPT ![state.plan.version] = state.plan]
                           ELSE rows.plans
          /\ PlanReturned => MadeThisTurn \/ (rows.status = "review" /\ state.plan = LatestPlan)
          /\ rows.status = "review" /\ state.plan = LatestPlan => rows'.plans = rows.plans
      BY <2>1, Persisted
    <2>3. CASE ~ PlanReturned \/ (rows.status = "review" /\ state.plan = LatestPlan)
      BY <2>2, <2>3 DEF TurnWrites
    <2>4. CASE PlanReturned /\ MadeThisTurn
      <3>1. state.plan \in Plan /\ state.plan.status = "reviewed"
        BY <2>1, <2>4 DEF IInv, Returned, PlanReturned
      <3>2. state.plan.version \in 1 .. MaxRefine + 1
        BY <3>1 DEF Plan
      <3> QED  BY <2>2, <2>4, <3>1, <3>2 DEF TurnWrites, MadeThisTurn
    <2> QED  BY <2>2, <2>3, <2>4
  <1> QED  BY <1>1, IInvInvariant, PlanOfTurnInvariant, PTL DEF Spec

-----------------------------------------------------------------------------
(* Progress.                                                               *)

(* The steps a turn still has at most, by the node n that runs next and    *)
(* the steps of the refinements that are left.                             *)
StepsFrom(n, round) ==
  LET whole == 5 * MaxRefine
  IN  CASE n = "idle" -> 0
        [] n = "persist" -> 1
        [] n = "finalize_review" -> 2
        [] n = "refine" -> round + 1
        [] n = "judge_review" -> round + 3
        [] n = "llm_review" -> round + 4
        [] n = "rules_review" -> round + 5
        [] n = "estimate_cost" -> whole + 6
        [] n = "assemble_plan" -> whole + 7
        [] n = "strategy" -> whole + 8
        [] n = "per_component_planning" -> whole + 9
        [] n = "compute_sequence" -> whole + 10
        [] n = "elicit_context" -> whole + 11
        [] n = "apply_patches" -> whole + 12
        [] n \in {"after_gate_intake", "review_ingest"} -> whole + 13

StepsLeft == StepsFrom(at, 5 * (MaxRefine - state.iteration))

(* Every step of a turn brings it nearer to its end, from whatever         *)
(* iteration an earlier turn left in the checkpoint.                       *)
TurnAdvances ==
  [][at # "idle" => StepsLeft' < StepsLeft /\ StepsLeft <= 5 * MaxRefine + 13]_vars

(* The edges of the graph.                                                 *)
LEMMA Edges ==
  ASSUME IInv, [Next]_vars, vars' # vars, at # "idle"
  PROVE  /\ state'.iteration \in 0 .. MaxRefine /\ state.iteration \in 0 .. MaxRefine
         /\ \/ at' = "idle"
            \/ at \in {"after_gate_intake", "review_ingest"} /\ at' = "apply_patches"
            \/ at = "apply_patches" /\ at' \in {"elicit_context", "compute_sequence", "persist"}
            \/ at = "elicit_context" /\ at' \in {"compute_sequence", "persist"}
            \/ at = "compute_sequence" /\ at' \in {"per_component_planning", "persist"}
            \/ at = "per_component_planning" /\ at' \in {"strategy", "persist"}
            \/ at = "strategy" /\ at' \in {"assemble_plan", "persist"}
            \/ at = "assemble_plan" /\ at' = "estimate_cost"
            \/ at = "estimate_cost" /\ at' = "rules_review"
            \/ /\ \/ at = "rules_review" /\ at' = "llm_review"
                  \/ at = "llm_review" /\ at' = "judge_review"
                  \/ at = "judge_review" /\ at' \in {"refine", "finalize_review"}
                  \/ at = "finalize_review" /\ at' = "persist"
               /\ state'.iteration = state.iteration
            \/ /\ at = "refine" /\ at' = "rules_review"
               /\ state'.iteration = state.iteration + 1
  <1>1. /\ state \in GraphState /\ state.iteration \in 0 .. MaxRefine
        /\ state' \in GraphState /\ state'.iteration \in 0 .. MaxRefine
    <2>1. IInv'
      BY IInvNext
    <2> QED  BY <2>1 DEF IInv, TypeOK, GraphState
  <1> USE DEF Node, Goto
  <1>2. CASE BeginPlanning \/ BeginReview
    BY <1>2 DEF BeginPlanning, BeginReview
  <1>3. CASE AfterGateIntake \/ ReviewDiscussIngest
    BY <1>1, <1>3 DEF AfterGateIntake, ReviewDiscussIngest, Ingest
  <1>4. CASE ApplyPatches
    BY <1>1, <1>4 DEF ApplyPatches, AfterPatches, AfterPatchesInReview
  <1>5. CASE ElicitContext
    BY <1>1, <1>5 DEF ElicitContext
  <1>6. CASE ComputeSequence \/ PerComponentPlanning \/ StrategyNode
    BY <1>1, <1>6 DEF ComputeSequence, PerComponentPlanning, StrategyNode, UnlessError
  <1>7. CASE AssemblePlan \/ EstimateCost
    BY <1>1, <1>7 DEF AssemblePlan, EstimateCost
  <1>8. CASE RulesReview
    BY <1>1, <1>8 DEF RulesReview, GraphState
  <1>9. CASE LlmReview
    BY <1>1, <1>9 DEF LlmReview, Critique, GraphState
  <1>10. CASE JudgeReview
    BY <1>1, <1>10 DEF JudgeReview, ShouldContinueRefining
  <1>11. CASE Refine
    <2>1. CASE state' = NobodyNamed(state)
      BY <1>1, <1>11, <2>1 DEF Refine, NobodyNamed, AfterRefine, GraphState
    <2>2. CASE \E w \in Reworked(state) :
                 state' = [state EXCEPT !.plan = Refined(@, w), !.iteration = @ + 1]
      <3>1. PICK p : state' = [state EXCEPT !.plan = p, !.iteration = @ + 1]
        BY <2>2
      <3>2. state'.iteration = state.iteration + 1
        BY <1>1, <3>1 DEF GraphState
      <3> QED  BY <1>1, <1>11, <3>2 DEF Refine, AfterRefine
    <2> QED  BY <1>11, <2>1, <2>2 DEF Refine
  <1>12. CASE FinalizeReview
    BY <1>1, <1>12 DEF FinalizeReview, GraphState
  <1>13. CASE PersistTurn \/ AbortTurn
    BY <1>1, <1>13 DEF PersistTurn, AbortTurn
  <1> QED
    BY <1>2, <1>3, <1>4, <1>5, <1>6, <1>7, <1>8, <1>9, <1>10, <1>11, <1>12, <1>13
    DEF Next, GraphStep

(* No turn takes more than 5 * MaxRefine + 13 steps, whatever the critiques *)
(* and the refinements come to: what TurnEnds needs besides that the        *)
(* scheduler goes on taking steps.                                          *)
THEOREM TurnsRunOut == Spec => TurnAdvances
  <1>1. IInv /\ [Next]_vars =>
          [at # "idle" => StepsLeft' < StepsLeft /\ StepsLeft <= 5 * MaxRefine + 13]_vars
    <2> SUFFICES ASSUME IInv, [Next]_vars, vars' # vars, at # "idle"
                 PROVE  StepsLeft' < StepsLeft /\ StepsLeft <= 5 * MaxRefine + 13
      OBVIOUS
    <2> DEFINE i == state.iteration
               j == state'.iteration
               left == 5 * (MaxRefine - i)
               next == 5 * (MaxRefine - j)
    <2>1. i \in 0 .. MaxRefine /\ j \in 0 .. MaxRefine
      BY Edges
    <2>2. /\ j = i => next = left
          /\ j = i + 1 => next + 5 = left
      BY <2>1, PlanningAssumption
    <2>3. /\ left \in Nat /\ next \in Nat /\ left <= 5 * MaxRefine /\ next <= 5 * MaxRefine
          /\ 5 * MaxRefine \in Nat
      BY <2>1, PlanningAssumption
    <2> DEFINE whole == 5 * MaxRefine
    <2>4. StepsLeft = StepsFrom(at, left) /\ StepsLeft' = StepsFrom(at', next)
      BY DEF StepsLeft, StepsFrom
    <2>5. \/ at' = "idle"
          \/ at \in {"after_gate_intake", "review_ingest"} /\ at' = "apply_patches"
          \/ at = "apply_patches" /\ at' \in {"elicit_context", "compute_sequence", "persist"}
          \/ at = "elicit_context" /\ at' \in {"compute_sequence", "persist"}
          \/ at = "compute_sequence" /\ at' \in {"per_component_planning", "persist"}
          \/ at = "per_component_planning" /\ at' \in {"strategy", "persist"}
          \/ at = "strategy" /\ at' \in {"assemble_plan", "persist"}
          \/ at = "assemble_plan" /\ at' = "estimate_cost"
          \/ at = "estimate_cost" /\ at' = "rules_review"
          \/ /\ \/ at = "rules_review" /\ at' = "llm_review"
                \/ at = "llm_review" /\ at' = "judge_review"
                \/ at = "judge_review" /\ at' \in {"refine", "finalize_review"}
                \/ at = "finalize_review" /\ at' = "persist"
             /\ next = left
          \/ at = "refine" /\ at' = "rules_review" /\ next + 5 = left
      BY <2>2, Edges
    <2>6. at \in Nodes \cup {"persist"}
      BY DEF IInv, TypeOK
    <2>7. left \in Nat /\ next \in Nat /\ whole \in Nat /\ left <= whole /\ next <= whole
      BY <2>3
    <2> HIDE DEF left, next, whole
    <2>8. StepsFrom(at', next) < StepsFrom(at, left) /\ StepsFrom(at, left) <= whole + 13
      BY <2>5, <2>6, <2>7 DEF Nodes, Shared, StepsFrom, whole
    <2> QED  BY <2>4, <2>8 DEF whole
  <1> QED  BY <1>1, IInvInvariant, PTL DEF Spec, TurnAdvances

=============================================================================
