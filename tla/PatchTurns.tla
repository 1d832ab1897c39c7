------------------------------ MODULE PatchTurns ------------------------------
(***************************************************************************)
(* What one session's turns do to its architecture model, patch by patch.  *)
(* A discovery turn (orchestration/nodes/discovery.py) completes the patch *)
(* set of the LLM, asks the user about gated patches, applies the set, and *)
(* then adds patches of its own: helper dependencies, escalated risks, and *)
(* the gaps it carries forward.  Planning and review turns apply one set.  *)
(***************************************************************************)
EXTENDS PatchEngine

CONSTANTS
  LLMPatchSets,     \* bound: the patch sets an LLM proposes
  CatalogPatchSets, \* bound: the patch sets a catalog import maps to
  HelperPatches,    \* bound: the helper dependencies the names may suggest
  MaxGaps,          \* the gaps a turn looks at, 5
  MaxRisks,         \* bound: hedges escalated in one turn
  MaxVersion        \* bound: a model of this version gets no further turn

ASSUME PatchTurnsAssumption ==
  /\ LLMPatchSets \subseteq Seq(Patch)
  /\ CatalogPatchSets \subseteq Seq(AddComponentPatch \cup AddDependencyPatch)
  /\ HelperPatches \subseteq Seq(AddDependencyPatch)
  /\ MaxGaps \in Nat /\ MaxRisks \in Nat /\ MaxVersion \in Nat

VARIABLES
  model,    \* state["model"]
  before,   \* model_before of the turn
  stage,    \* state["stage"]
  at,       \* which set of the turn is being applied
  queue,    \* its patches that are left
  gate,     \* how apply_patch_set was called for it
  results   \* state["last_patch_results"]

vars == << model, before, stage, at, queue, gate, results >>

Stages == {"discovery", "planning", "review"}
Gate == [structural : BOOLEAN, resolves : BOOLEAN, approved : BOOLEAN]
NoGate == [structural |-> FALSE, resolves |-> FALSE, approved |-> FALSE]

(* A PatchResult: the resulting version, or 0 of a rejected patch.         *)
Rejected == 0

Sets == {"capture", "import", "apply", "helpers", "risks", "carry"}

(* Mutant of the next: the results of the helpers are thrown away too.     *)
UnauditedHelpers == {"capture", "risks", "helpers"}

(* The sets whose results the caller throws away.                          *)
Unaudited == {"capture", "risks"}

-----------------------------------------------------------------------------
(* Deterministic completions of the LLM's set.                             *)
Indices(ps, op) == {i \in DOMAIN ps : ps[i].op = op}
Adds(ps) == Cardinality(Indices(ps, "add_assumption"))
Named(ps, op) == {ps[i].id : i \in Indices(ps, op)}

(* The one way to put the numbers of a finite set in order.                *)
InOrder(S) ==
  {f \in [1 .. Cardinality(S) -> S] : \A i, j \in DOMAIN f : i < j => f[i] < f[j]}

ConfirmAll(ids) == [i \in DOMAIN ids |-> ConfirmAssumption(ids[i])]
ResolveAll(ids, topic) == [i \in DOMAIN ids |-> ResolveOpenQuestion(ids[i], topic)]

(* auto_confirm_directly_stated_assumptions: predicts the ids the added    *)
(* assumptions will be given.                                              *)
AutoConfirm(m, ps) ==
  LET base == Len(m.assumptions)
      predicted == base + 1 .. base + Adds(ps)
  IN  {ps \o ConfirmAll(ids) :
         ids \in InOrder(predicted \ Named(ps, "confirm_assumption"))}

OpenQuestions(m) == {i \in DOMAIN m.open_questions : ~ m.open_questions[i].resolved}

KnownGreenfield(m) ==
  \E i \in DOMAIN m.assumptions :
    /\ m.assumptions[i].topic = "greenfield"
    /\ m.assumptions[i].status = "confirmed"

(* resolve_sparse_intake_open_question_from_target_context_answer: the     *)
(* summary answers every open question and becomes an assumption.          *)
RecordTarget(m, ps, topic) ==
  LET predicted == Len(m.assumptions) + Adds(ps) + 1
  IN  {ps \o ResolveAll(ids, topic)
          \o << AddAssumption(topic, ComponentIds(m)), ConfirmAssumption(predicted) >> :
         ids \in InOrder(OpenQuestions(m) \ Named(ps, "resolve_open_question"))}

TargetUnknown(m) ==
  /\ Cardinality(ComponentIds(m)) <= 1 /\ m.dependencies = {}
  /\ ~ KnownGreenfield(m)

(* What ingest_node makes of the LLM's set, by the intent of the message.  *)
Completions(m, ps) ==
  {ps} \cup AutoConfirm(m, ps)
    \cup (IF TargetUnknown(m)
          THEN RecordTarget(m, ps, "target") \cup RecordTarget(m, ps, "greenfield")
          ELSE {})

(* Mutant of the next: confirms before it adds.                            *)
ConfirmedTooEarly(m, n) ==
  [i \in 1 .. n |-> ConfirmAssumption(Len(m.assumptions) + i)]
    \o [i \in 1 .. n |-> AddAssumption("risk", ComponentIds(m))]

(* _record_escalated_risks                                                 *)
RiskPatches(m, n) ==
  [i \in 1 .. n |-> AddAssumption("risk", ComponentIds(m))]
    \o [i \in 1 .. n |-> ConfirmAssumption(Len(m.assumptions) + i)]

(* The gaps of a turn: the open questions, in order, and then others, each *)
(* with its related components, which an open assumption may have outlived *)
(* (analyze_gaps, and gap_analysis_node's cut).                            *)
Asked(m) ==
  {i \in OpenQuestions(m) :
     Cardinality({j \in OpenQuestions(m) : j < i}) < MaxGaps}

OtherGaps(m) ==
  LET assumed == {i \in DOMAIN m.assumptions :
                    m.assumptions[i].status = "open" /\ m.assumptions[i].raised_by = "llm"}
  IN  {ComponentIds(m)} \cup {m.assumptions[i].related : i \in assumed}

(* A question is looked up by its text: the last open one that has it.     *)
Lookups(m) ==
  {last \in [OpenQuestions(m) -> OpenQuestions(m)] :
     \A i \in OpenQuestions(m) : last[i] >= i /\ last[last[i]] = last[i]}

Assumed(gaps) == [i \in DOMAIN gaps |-> AddAssumption("carried", gaps[i])]

(* _carry_forward_remaining_gaps                                           *)
CarryPatches(m) ==
  {ResolveAll([i \in DOMAIN ids |-> last[ids[i]]], "carried") \o Assumed(others) :
     ids \in InOrder(Asked(m)), last \in Lookups(m),
     others \in UNION {[1 .. n -> OtherGaps(m)] :
                         n \in 0 .. (MaxGaps - Cardinality(Asked(m)))}} \ {<< >>}

(* _capture_raw_message_after_total_ingest_failure: not for a short one.   *)
Captures(m) == {<< >>, << AddAssumption("unparsed", ComponentIds(m)) >>}

-----------------------------------------------------------------------------
Init ==
  /\ model = EmptyModel /\ before = EmptyModel
  /\ stage = "discovery" /\ at = "idle"
  /\ queue = << >> /\ gate = NoGate /\ results = << >>

(* A turn starts from the newest model row.                                *)
Ready == at = "idle" /\ model.version < MaxVersion

Begin(set, ps, g) ==
  /\ at' = set /\ queue' = ps /\ gate' = g
  /\ before' = model /\ results' = << >>
  /\ UNCHANGED << model, stage >>

(* The gate of apply_patches_node: what is required, whether the set       *)
(* resolves a question, and, if patches are pending, the decision.  Only   *)
(* the discovery graph is run by an endpoint that can deliver an approval. *)
GatesFor(ps) ==
  LET structural == stage = "review"
      resolves == Indices(ps, "resolve_open_question") # {}
      pending == /\ ~ resolves
                 /\ \E i \in DOMAIN ps : RequiresConfirmation(model, ps[i], structural)
  IN  {[structural |-> structural, resolves |-> resolves, approved |-> a] :
         a \in {FALSE} \cup {pending /\ stage = "discovery"}}

Ingest ==
  /\ Ready
  /\ \E llm \in LLMPatchSets :
       \E ps \in IF stage = "discovery" THEN Completions(model, llm) ELSE {llm} :
         \E g \in GatesFor(ps) : Begin("apply", ps, g)

IngestFails ==
  /\ Ready /\ stage = "discovery"
  /\ \E ps \in Captures(model) : Begin("capture", ps, NoGate)

ImportCatalog ==
  /\ Ready /\ stage = "discovery"
  /\ \E ps \in CatalogPatchSets : Begin("import", ps, NoGate)

-----------------------------------------------------------------------------
(* One round of apply_patch_set's loop.                                    *)
RecordResult(version) ==
  results' = IF at \in Unaudited THEN results ELSE Append(results, version)

RejectPatch ==
  /\ queue # << >>
  /\ ~ (GatePasses(model, Head(queue), gate) /\ IsValid(model, Head(queue)))
  /\ RecordResult(Rejected)
  /\ queue' = Tail(queue)
  /\ UNCHANGED << model, before, stage, at, gate >>

ApplyPatch ==
  /\ queue # << >>
  /\ GatePasses(model, Head(queue), gate) /\ IsValid(model, Head(queue))
  /\ model' = ApplySingle(model, Head(queue))
  /\ RecordResult(model'.version)
  /\ queue' = Tail(queue)
  /\ UNCHANGED << before, stage, at, gate >>

(* The next set of the turn, once one is done.                             *)
NextSet(from, to, ps) ==
  /\ at = from /\ queue = << >>
  /\ at' = to /\ queue' = ps /\ gate' = NoGate
  /\ UNCHANGED << model, before, stage >>

InferHelpers ==
  /\ stage = "discovery"
  /\ \E ps \in HelperPatches : NextSet("apply", "helpers", ps)
  /\ UNCHANGED results

EscalateRisks ==
  /\ \E n \in 0 .. MaxRisks : NextSet("helpers", "risks", RiskPatches(model, n))
  /\ UNCHANGED results

(* The question budget is reached: the results of this set replace those   *)
(* of the turn.                                                            *)
CarryForward ==
  /\ \E ps \in CarryPatches(model) : NextSet("risks", "carry", ps)
  /\ results' = << >>

EndGraph ==
  /\ \/ NextSet("risks", "persist", << >>)
     \/ NextSet("carry", "persist", << >>)
     \/ NextSet("capture", "persist", << >>)
     \/ NextSet("import", "persist", << >>)
     \/ stage # "discovery" /\ NextSet("apply", "persist", << >>)
  /\ UNCHANGED results

PersistTurn ==
  /\ at = "persist" /\ at' = "idle"
  /\ before' = model /\ results' = << >>
  /\ UNCHANGED << model, stage, queue, gate >>

(* Gate 1, and the turn of planning that returns a plan.                   *)
AcceptModel ==
  /\ at = "idle" /\ stage = "discovery" /\ ComponentIds(model) # {}
  /\ stage' = "planning"
  /\ model' = [model EXCEPT !.version = @ + 1] /\ before' = model'
  /\ UNCHANGED << at, queue, gate, results >>

EnterReview ==
  /\ at = "idle" /\ stage = "planning" /\ stage' = "review"
  /\ UNCHANGED << model, before, at, queue, gate, results >>

Next ==
  \/ Ingest \/ IngestFails \/ ImportCatalog
  \/ RejectPatch \/ ApplyPatch
  \/ InferHelpers \/ EscalateRisks \/ CarryForward
  \/ EndGraph \/ PersistTurn
  \/ AcceptModel \/ EnterReview

Spec == Init /\ [][Next]_vars

-----------------------------------------------------------------------------
TypeOK ==
  /\ model \in ArchitectureModel /\ before \in ArchitectureModel
  /\ stage \in Stages
  /\ at \in Sets \cup {"idle", "persist"}
  /\ queue \in Seq(Patch)
  /\ gate \in Gate
  /\ results \in Seq(Nat)

(* No sequence of patches leaves a dependency on a component that is not   *)
(* there, or on the component itself: what RemoveComponentPatch's cascade  *)
(* (patch_applier.py:58-66) and validate_patch's id checks are for.        *)
NoDanglingDependency ==
  \A d \in model.dependencies :
    {d[1], d[2]} \subseteq ComponentIds(model) /\ d[1] # d[2]

(* Every resolved question has one recorded answer and every answer a      *)
(* resolved question, whichever of the LLM, the short-answer completions   *)
(* and the carry-forward resolves it.                                      *)
AnswersMatchResolutions ==
  Cardinality({i \in DOMAIN model.assumptions :
                 model.assumptions[i].raised_by = "user"})
    = Cardinality(DOMAIN model.open_questions \ OpenQuestions(model))

(* A decision in the evidence ledger is final: an assumption the user      *)
(* confirmed or rejected, and a question that was resolved, stay so, and   *)
(* under the same id (schemas/architecture.py:92-94).                      *)
DecisionsFinal ==
  [][/\ \A i \in DOMAIN model.assumptions :
          /\ i \in DOMAIN model'.assumptions
          /\ model.assumptions[i].status # "open" =>
               model'.assumptions[i] = model.assumptions[i]
     /\ \A i \in DOMAIN model.open_questions :
          /\ i \in DOMAIN model'.open_questions
          /\ model.open_questions[i].resolved =>
               model'.open_questions[i] = model.open_questions[i]]_vars

(* Until a turn reaches its discarded or replaced results, the audit rows  *)
(* account for each version between the one the turn read and the one it   *)
(* has, once; a planning or review turn also persists such rows.           *)
AppliedVersions == {results[i] : i \in DOMAIN results} \ {Rejected}
Explained ==
  /\ AppliedVersions = before.version + 1 .. model.version
  /\ \A i, j \in DOMAIN results :
       results[i] = results[j] /\ results[i] # Rejected => i = j
AuditExplainsVersions ==
  \/ at \in {"import", "apply", "helpers"}
  \/ at = "persist" /\ stage # "discovery"
  => Explained

(* A component whose platform is known gets another one from an update     *)
(* only if the user approved the patches of the turn or the set resolves a *)
(* question, although the user is asked before the set is applied and an   *)
(* earlier patch of the set may set the platform that a later one rewrites *)
(* (patch_validator.py:140-144).                                           *)
NoSilentReplatform ==
  [][\A c \in ComponentIds(model) :
       /\ c \in ComponentIds(model')
       /\ model.components[c] # {}
       /\ ~ model'.components[c] \subseteq model.components[c]
       => gate.approved \/ gate.resolves]_vars

(* The ids predicted for escalated risks are the ones they get, so a       *)
(* hedge never comes back as an unconfirmed assumption (discovery.py:1484).*)
RisksConfirmed ==
  at \in {"carry", "persist", "idle"} =>
    \A i \in DOMAIN model.assumptions :
      model.assumptions[i].topic = "risk" =>
        model.assumptions[i].status = "confirmed"
=============================================================================
