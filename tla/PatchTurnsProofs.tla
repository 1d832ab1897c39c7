--------------------------- MODULE PatchTurnsProofs ---------------------------
(***************************************************************************)
(* Theorems about PatchTurns: the model stays well formed, whatever sets   *)
(* the LLM, the catalog and the deterministic steps propose, and nothing   *)
(* that a patch changed goes unsaved.                                      *)
(***************************************************************************)
EXTENDS PatchTurns, FiniteSetTheorems, TLAPS

USE DEF ComponentIds

-----------------------------------------------------------------------------
(* The patches that the code itself builds are patches.                    *)
LEMMA BuiltPatches ==
  /\ \A t \in Topics, R \in SUBSET Components : AddAssumption(t, R) \in Patch
  /\ \A i \in Nat : ConfirmAssumption(i) \in Patch
  /\ \A i \in Nat, t \in Topics : ResolveOpenQuestion(i, t) \in Patch
BY DEF AddAssumption, ConfirmAssumption, ResolveOpenQuestion, Patch,
       AddAssumptionPatch, ConfirmAssumptionPatch, ResolveOpenQuestionPatch

(* What the record types say of a patch by its op.                         *)
LEMMA PatchByOp ==
  ASSUME NEW p \in Patch
  PROVE  /\ p.op = "add_component" => p \in AddComponentPatch
         /\ p.op = "update_component" => p \in UpdateComponentPatch
         /\ p.op = "remove_component" => p \in RemoveComponentPatch
         /\ p.op = "add_dependency" => p \in AddDependencyPatch
         /\ p.op = "remove_dependency" => p \in RemoveDependencyPatch
         /\ p.op = "add_assumption" => p \in AddAssumptionPatch
         /\ p.op = "confirm_assumption" => p \in ConfirmAssumptionPatch
         /\ p.op = "resolve_open_question" => p \in ResolveOpenQuestionPatch
         /\ p.op = "add_open_question" => p \in AddOpenQuestionPatch
         /\ p.op \in {"add_component", "update_component", "remove_component",
                      "add_dependency", "remove_dependency", "add_assumption",
                      "confirm_assumption", "resolve_open_question",
                      "add_open_question"}
BY DEF Patch, StructuralPatch, AddComponentPatch, UpdateComponentPatch,
       RemoveComponentPatch, AddDependencyPatch, RemoveDependencyPatch,
       AddAssumptionPatch, ConfirmAssumptionPatch, ResolveOpenQuestionPatch,
       AddOpenQuestionPatch

(* The components and terms of a well-formed model.                        *)
LEMMA ModelParts ==
  ASSUME NEW m \in ArchitectureModel
  PROVE  /\ ComponentIds(m) \subseteq Components
         /\ m.components \in [ComponentIds(m) -> SUBSET Terms]
         /\ m.dependencies \subseteq Edges
         /\ m.assumptions \in Seq(Assumption)
         /\ m.open_questions \in Seq(OpenQuestion)
         /\ m.version \in Nat \ {0}
<1> PICK S \in SUBSET Components : m.components \in [S -> SUBSET Terms]
  BY DEF ArchitectureModel, ComponentMaps
<1> QED
  BY DEF ArchitectureModel

LEMMA MakeComponents ==
  ASSUME NEW S \in SUBSET Components, NEW f \in [S -> SUBSET Terms]
  PROVE  f \in ComponentMaps
BY DEF ComponentMaps

(* Replacing parts of a well-formed model by well-formed parts.            *)
LEMMA UpdatedModel ==
  ASSUME NEW m \in ArchitectureModel
  PROVE  /\ \A f \in ComponentMaps : [m EXCEPT !.components = f] \in ArchitectureModel
         /\ \A D \in SUBSET Edges : [m EXCEPT !.dependencies = D] \in ArchitectureModel
         /\ \A as \in Seq(Assumption) :
              [m EXCEPT !.assumptions = as] \in ArchitectureModel
         /\ \A qs \in Seq(OpenQuestion) :
              [m EXCEPT !.open_questions = qs] \in ArchitectureModel
         /\ [m EXCEPT !.version = @ + 1] \in ArchitectureModel
<1>1. ASSUME NEW f \in ComponentMaps
      PROVE  [m EXCEPT !.components = f] \in ArchitectureModel
  BY DEF ArchitectureModel
<1>2. ASSUME NEW D \in SUBSET Edges
      PROVE  [m EXCEPT !.dependencies = D] \in ArchitectureModel
  BY DEF ArchitectureModel
<1>3. ASSUME NEW as \in Seq(Assumption)
      PROVE  [m EXCEPT !.assumptions = as] \in ArchitectureModel
  BY DEF ArchitectureModel
<1>4. ASSUME NEW qs \in Seq(OpenQuestion)
      PROVE  [m EXCEPT !.open_questions = qs] \in ArchitectureModel
  BY DEF ArchitectureModel
<1>5. [m EXCEPT !.version = @ + 1] \in ArchitectureModel
  BY DEF ArchitectureModel
<1> QED
  BY <1>1, <1>2, <1>3, <1>4, <1>5

(* The engine keeps a model well formed: every accepted patch has an       *)
(* effect of the right type.                                               *)
LEMMA EffectTyped ==
  ASSUME NEW m \in ArchitectureModel, NEW p \in Patch, IsValid(m, p)
  PROVE  Effect(m, p) \in ArchitectureModel
<1> USE ModelParts, PatchByOp
<1>1. CASE p.op = "add_component"
  <2> DEFINE f == WithTerms(m, p.id, p.terms)
  <2>1. p.id \in Components /\ p.terms \in SUBSET Terms
    BY <1>1 DEF AddComponentPatch
  <2>2. f \in [ComponentIds(m) \cup {p.id} -> SUBSET Terms]
    BY <2>1 DEF WithTerms
  <2>3. f \in ComponentMaps
    BY <2>1, <2>2, MakeComponents
  <2>4. Effect(m, p) = [m EXCEPT !.components = f]
    BY <1>1 DEF Effect
  <2> HIDE DEF f
  <2> QED
    BY <2>3, <2>4, UpdatedModel
<1>2. CASE p.op = "update_component"
  <2> DEFINE terms == p.terms \cup (m.components[p.id] \cap p.keeps)
             f == WithTerms(m, p.id, terms)
  <2>1. p.id \in ComponentIds(m)
    BY <1>2 DEF IsValid, ComponentPatchValid, DependencyPatchValid,
                AssumptionPatchValid, QuestionPatchValid
  <2>2. terms \in SUBSET Terms
    BY <1>2 DEF UpdateComponentPatch
  <2>3. f \in [ComponentIds(m) \cup {p.id} -> SUBSET Terms]
    BY <2>2 DEF WithTerms
  <2>4. f \in ComponentMaps
    BY <2>1, <2>3, MakeComponents
  <2>5. Effect(m, p) = [m EXCEPT !.components = f]
    BY <1>2 DEF Effect
  <2> HIDE DEF f
  <2> QED
    BY <2>4, <2>5, UpdatedModel
<1>3. CASE p.op = "remove_component"
  <2> DEFINE f == [c \in ComponentIds(m) \ {p.id} |-> m.components[c]]
             D == {d \in m.dependencies : ~ Touches(d, p.id)}
  <2>1. f \in [ComponentIds(m) \ {p.id} -> SUBSET Terms]
    OBVIOUS
  <2>2. f \in ComponentMaps
    BY <2>1, MakeComponents
  <2>3. D \in SUBSET Edges
    OBVIOUS
  <2>4. Effect(m, p) = [m EXCEPT !.components = f, !.dependencies = D]
    BY <1>3 DEF Effect, WithoutComponent
  <2> HIDE DEF f, D
  <2>5. [m EXCEPT !.components = f, !.dependencies = D] \in ArchitectureModel
    BY <2>2, <2>3 DEF ArchitectureModel
  <2> QED
    BY <2>4, <2>5
<1>4. CASE p.op = "add_dependency"
  <2> DEFINE D == m.dependencies \cup {p.edge}
  <2>1. p.edge \in Edges
    BY <1>4 DEF AddDependencyPatch
  <2>2. D \in SUBSET Edges
    BY <2>1
  <2>3. Effect(m, p) = [m EXCEPT !.dependencies = D]
    BY <1>4 DEF Effect, ArchitectureModel
  <2> HIDE DEF D
  <2> QED
    BY <2>2, <2>3, UpdatedModel
<1>5. CASE p.op = "remove_dependency"
  <2>1. Effect(m, p) = [m EXCEPT !.dependencies = m.dependencies \ Matches(m, p)]
    BY <1>5 DEF Effect, ArchitectureModel
  <2>2. m.dependencies \ Matches(m, p) \in SUBSET Edges
    OBVIOUS
  <2> QED
    BY <2>1, <2>2, UpdatedModel
<1>6. CASE p.op = "add_assumption"
  <2> DEFINE a == [topic |-> p.topic, status |-> "open", raised_by |-> "llm",
                   related |-> p.related]
  <2>1. p \in AddAssumptionPatch /\ p.topic # Blank
    BY <1>6 DEF IsValid, ComponentPatchValid, DependencyPatchValid,
                AssumptionPatchValid, QuestionPatchValid
  <2>2. a \in Assumption
    BY <2>1 DEF AddAssumptionPatch, Assumption
  <2>3. Effect(m, p) = [m EXCEPT !.assumptions = Append(m.assumptions, a)]
    BY <1>6 DEF Effect, WithAssumption, ArchitectureModel
  <2>4. Append(m.assumptions, a) \in Seq(Assumption)
    BY <2>2
  <2> QED
    BY <2>3, <2>4, UpdatedModel
<1>7. CASE p.op = "confirm_assumption"
  <2> DEFINE verdict == IF p.rejected THEN "rejected" ELSE "confirmed"
             as == [m.assumptions EXCEPT ![p.id].status = verdict]
  <2>1. p.id \in DOMAIN m.assumptions
    BY <1>7 DEF IsValid, ComponentPatchValid, DependencyPatchValid,
                AssumptionPatchValid, QuestionPatchValid
  <2>2. [m.assumptions[p.id] EXCEPT !.status = verdict] \in Assumption
    <3>1. m.assumptions[p.id] \in Assumption
      BY <2>1
    <3> QED
      BY <3>1 DEF Assumption
  <2>3. as \in Seq(Assumption)
    BY <2>1, <2>2
  <2>4. Effect(m, p) = [m EXCEPT !.assumptions = as]
    BY <1>7 DEF Effect, ArchitectureModel
  <2> HIDE DEF as
  <2> QED
    BY <2>3, <2>4, UpdatedModel
<1>8. CASE p.op = "resolve_open_question"
  <2> DEFINE qs == [m.open_questions EXCEPT ![p.id].resolved = TRUE]
             a == [topic |-> p.topic, status |-> "confirmed", raised_by |-> "user",
                   related |-> m.open_questions[p.id].related]
             as == Append(m.assumptions, a)
  <2>1. p.id \in DOMAIN m.open_questions
    BY <1>8 DEF IsValid, ComponentPatchValid, DependencyPatchValid,
                AssumptionPatchValid, QuestionPatchValid
  <2>2. m.open_questions[p.id] \in OpenQuestion
    BY <2>1
  <2>3. qs \in Seq(OpenQuestion)
    <3>1. [m.open_questions[p.id] EXCEPT !.resolved = TRUE] \in OpenQuestion
      BY <2>2 DEF OpenQuestion
    <3> QED
      BY <2>1, <3>1
  <2>4. as \in Seq(Assumption)
    <3>1. m.open_questions[p.id].related \in SUBSET Components
      BY <2>2 DEF OpenQuestion
    <3>2. p.topic \in Topics
      BY <1>8 DEF ResolveOpenQuestionPatch
    <3>3. a \in Assumption
      BY <3>1, <3>2 DEF Assumption
    <3> HIDE DEF a
    <3> QED
      BY <3>3
  <2>5. Effect(m, p) = [[m EXCEPT !.open_questions = qs] EXCEPT !.assumptions = as]
    BY <1>8 DEF Effect, WithAssumption, ArchitectureModel
  <2>6. [m EXCEPT !.open_questions = qs] \in ArchitectureModel
    BY <2>3, UpdatedModel
  <2> HIDE DEF qs, as
  <2> QED
    BY <2>4, <2>5, <2>6, UpdatedModel
<1>9. CASE p.op = "add_open_question"
  <2> DEFINE q == [related |-> p.related, resolved |-> FALSE]
  <2>1. q \in OpenQuestion
    BY <1>9 DEF AddOpenQuestionPatch, OpenQuestion
  <2>2. Effect(m, p) = [m EXCEPT !.open_questions = Append(m.open_questions, q)]
    BY <1>9 DEF Effect, ArchitectureModel
  <2>3. Append(m.open_questions, q) \in Seq(OpenQuestion)
    BY <2>1
  <2> QED
    BY <2>2, <2>3, UpdatedModel
<1> QED
  BY <1>1, <1>2, <1>3, <1>4, <1>5, <1>6, <1>7, <1>8, <1>9

LEMMA ApplyTyped ==
  ASSUME NEW m \in ArchitectureModel, NEW p \in Patch, IsValid(m, p)
  PROVE  /\ ApplySingle(m, p) \in ArchitectureModel
         /\ ApplySingle(m, p).version = Effect(m, p).version + 1
<1>1. Effect(m, p) \in ArchitectureModel
  BY EffectTyped
<1> QED
  BY <1>1, UpdatedModel DEF ApplySingle, ArchitectureModel

(* What each patch leaves alone.                                           *)
LEMMA EffectFrame ==
  ASSUME NEW m \in ArchitectureModel, NEW p \in Patch
  PROVE  /\ Effect(m, p).version = m.version
         /\ p.op \notin {"add_component", "update_component", "remove_component"} =>
              Effect(m, p).components = m.components
         /\ p.op \notin {"remove_component", "add_dependency", "remove_dependency"} =>
              Effect(m, p).dependencies = m.dependencies
         /\ p.op \notin {"add_assumption", "confirm_assumption",
                          "resolve_open_question"} =>
              Effect(m, p).assumptions = m.assumptions
         /\ p.op \notin {"resolve_open_question", "add_open_question"} =>
              Effect(m, p).open_questions = m.open_questions
<1> USE PatchByOp DEF Effect, ArchitectureModel
<1>1. CASE p.op \in {"add_component", "update_component"}
  BY <1>1
<1>2. CASE p.op = "remove_component"
  BY <1>2 DEF WithoutComponent
<1>3. CASE p.op \in {"add_dependency", "remove_dependency"}
  BY <1>3
<1>4. CASE p.op \in {"add_assumption", "confirm_assumption"}
  BY <1>4 DEF WithAssumption
<1>5. CASE p.op \in {"resolve_open_question", "add_open_question"}
  BY <1>5 DEF WithAssumption
<1> QED
  BY <1>1, <1>2, <1>3, <1>4, <1>5

(* Applying a patch raises the version by one and otherwise has its effect. *)
LEMMA ApplyFrame ==
  ASSUME NEW m \in ArchitectureModel, NEW p \in Patch, IsValid(m, p)
  PROVE  /\ ApplySingle(m, p) \in ArchitectureModel
         /\ ApplySingle(m, p).version = m.version + 1
         /\ ApplySingle(m, p).components = Effect(m, p).components
         /\ ApplySingle(m, p).dependencies = Effect(m, p).dependencies
         /\ ApplySingle(m, p).assumptions = Effect(m, p).assumptions
         /\ ApplySingle(m, p).open_questions = Effect(m, p).open_questions
<1>1. Effect(m, p) \in ArchitectureModel
  BY EffectTyped
<1> QED
  BY <1>1, EffectFrame, UpdatedModel DEF ApplySingle, ArchitectureModel

-----------------------------------------------------------------------------
(* The sets of patches a turn can begin or go on with.                     *)
LEMMA InOrderTyped ==
  ASSUME NEW S \in SUBSET Nat, IsFiniteSet(S), NEW ids \in InOrder(S)
  PROVE  /\ ConfirmAll(ids) \in Seq(Patch)
         /\ \A t \in Topics : ResolveAll(ids, t) \in Seq(Patch)
<1>1. Cardinality(S) \in Nat
  BY FS_CardinalityType
<1>2. ids \in [1 .. Cardinality(S) -> Nat]
  BY DEF InOrder
<1> QED
  BY <1>1, <1>2, BuiltPatches DEF ConfirmAll, ResolveAll

LEMMA AddsTyped ==
  ASSUME NEW ps \in Seq(Patch)
  PROVE  Adds(ps) \in Nat
<1>1. DOMAIN ps = 1 .. Len(ps) /\ Len(ps) \in Nat
  OBVIOUS
<1>2. IsFiniteSet(DOMAIN ps)
  BY <1>1, FS_Interval
<1>3. Indices(ps, "add_assumption") \subseteq DOMAIN ps
  BY DEF Indices
<1> QED
  BY <1>2, <1>3, FS_Subset, FS_CardinalityType DEF Adds

LEMMA OpenQuestionsFinite ==
  ASSUME NEW m \in ArchitectureModel, NEW S \in SUBSET OpenQuestions(m)
  PROVE  IsFiniteSet(S) /\ S \in SUBSET Nat
<1>1. m.open_questions \in Seq(OpenQuestion)
  BY ModelParts
<1>2. DOMAIN m.open_questions = 1 .. Len(m.open_questions)
      /\ Len(m.open_questions) \in Nat
  BY <1>1
<1>3. IsFiniteSet(1 .. Len(m.open_questions))
  BY <1>2, FS_Interval
<1>4. S \subseteq 1 .. Len(m.open_questions)
  BY <1>2 DEF OpenQuestions
<1> QED
  BY <1>2, <1>3, <1>4, FS_Subset

LEMMA CompletionsTyped ==
  ASSUME NEW m \in ArchitectureModel, NEW ps \in Seq(Patch),
         NEW qs \in Completions(m, ps)
  PROVE  qs \in Seq(Patch)
<1>1. m.assumptions \in Seq(Assumption) /\ ComponentIds(m) \in SUBSET Components
  BY ModelParts
<1>2. Len(m.assumptions) \in Nat /\ Adds(ps) \in Nat
  BY <1>1, AddsTyped
<1>3. CASE qs \in AutoConfirm(m, ps)
  <2> DEFINE S == (Len(m.assumptions) + 1 .. Len(m.assumptions) + Adds(ps))
                    \ Named(ps, "confirm_assumption")
  <2>1. PICK ids \in InOrder(S) : qs = ps \o ConfirmAll(ids)
    BY <1>3 DEF AutoConfirm
  <2>2. S \in SUBSET Nat
    BY <1>2
  <2>3. IsFiniteSet(S)
    <3> DEFINE lo == Len(m.assumptions) + 1
               hi == Len(m.assumptions) + Adds(ps)
    <3>1. lo \in Int /\ hi \in Int
      BY <1>2
    <3>2. S \subseteq lo .. hi
      OBVIOUS
    <3> HIDE DEF lo, hi, S
    <3>3. IsFiniteSet(lo .. hi)
      BY <3>1, FS_Interval
    <3> QED
      BY <3>2, <3>3, FS_Subset
  <2> HIDE DEF S
  <2>4. ConfirmAll(ids) \in Seq(Patch)
    BY <2>2, <2>3, InOrderTyped
  <2> QED
    BY <2>1, <2>4
<1>4. ASSUME NEW topic \in Topics, qs \in RecordTarget(m, ps, topic)
      PROVE  qs \in Seq(Patch)
  <2> DEFINE S == OpenQuestions(m) \ Named(ps, "resolve_open_question")
             last == << AddAssumption(topic, ComponentIds(m)),
                        ConfirmAssumption(Len(m.assumptions) + Adds(ps) + 1) >>
  <2>1. PICK ids \in InOrder(S) : qs = ps \o ResolveAll(ids, topic) \o last
    BY <1>4 DEF RecordTarget
  <2>2. S \in SUBSET Nat /\ IsFiniteSet(S)
    BY OpenQuestionsFinite
  <2>3. ResolveAll(ids, topic) \in Seq(Patch)
    BY <2>2, InOrderTyped
  <2>4. last \in Seq(Patch)
    BY <1>1, <1>2, BuiltPatches
  <2> HIDE DEF last
  <2> QED
    BY <2>1, <2>3, <2>4
<1> QED
  BY <1>3, <1>4 DEF Completions, Topics

(* The patches of the carry-forward resolve questions and add what is left. *)
LEMMA CarryParts ==
  ASSUME NEW m \in ArchitectureModel, NEW ps \in CarryPatches(m)
  PROVE  \E ids, others :
           /\ ps = ResolveAll(ids, "carried") \o Assumed(others)
           /\ ResolveAll(ids, "carried") \in Seq(Patch)
           /\ Assumed(others) \in Seq(Patch)
<1> DEFINE Left == UNION {[1 .. n -> OtherGaps(m)] :
                            n \in 0 .. (MaxGaps - Cardinality(Asked(m)))}
           Found(ids, last) == [i \in DOMAIN ids |-> last[ids[i]]]
<1>1. PICK ids \in InOrder(Asked(m)), last \in Lookups(m), others \in Left :
        ps = ResolveAll(Found(ids, last), "carried") \o Assumed(others)
  <2> DEFINE All == {ResolveAll(Found(ids, last), "carried") \o Assumed(others) :
                       ids \in InOrder(Asked(m)), last \in Lookups(m), others \in Left}
  <2>1. CarryPatches(m) = All \ {<< >>}
    BY DEF CarryPatches
  <2> HIDE DEF Left, Found
  <2>2. ps \in All
    BY <2>1
  <2> QED
    BY <2>2
<1> DEFINE found == Found(ids, last)
<1>2. Asked(m) \in SUBSET OpenQuestions(m)
  BY DEF Asked
<1>3. IsFiniteSet(Asked(m)) /\ Asked(m) \in SUBSET Nat /\ OpenQuestions(m) \in SUBSET Nat
  BY <1>2, OpenQuestionsFinite
<1>4. Cardinality(Asked(m)) \in Nat
  BY <1>3, FS_CardinalityType
<1>5. ResolveAll(found, "carried") \in Seq(Patch)
  <2>1. ids \in [1 .. Cardinality(Asked(m)) -> Asked(m)]
    BY DEF InOrder
  <2>2. last \in [OpenQuestions(m) -> OpenQuestions(m)]
    BY DEF Lookups
  <2>3. \A i \in 1 .. Cardinality(Asked(m)) : last[ids[i]] \in Nat
    BY <1>2, <1>3, <2>1, <2>2
  <2>4. \A i \in 1 .. Cardinality(Asked(m)) : ResolveOpenQuestion(last[ids[i]], "carried") \in Patch
    BY <2>3, BuiltPatches DEF Topics
  <2>5. ResolveAll(found, "carried") =
          [i \in 1 .. Cardinality(Asked(m)) |-> ResolveOpenQuestion(last[ids[i]], "carried")]
    BY <2>1 DEF ResolveAll
  <2> QED
    BY <1>4, <2>4, <2>5
<1>6. OtherGaps(m) \subseteq SUBSET Components
  <2>1. \A i \in DOMAIN m.assumptions : m.assumptions[i].related \in SUBSET Components
    <3>1. m.assumptions \in Seq(Assumption)
      BY ModelParts
    <3>2. \A i \in DOMAIN m.assumptions : m.assumptions[i] \in Assumption
      BY <3>1
    <3> QED
      BY <3>2 DEF Assumption
  <2>2. ComponentIds(m) \in SUBSET Components
    BY ModelParts
  <2> QED
    BY <2>1, <2>2 DEF OtherGaps
<1>7. Assumed(others) \in Seq(Patch)
  <2>1. PICK n \in 0 .. (MaxGaps - Cardinality(Asked(m))) : others \in [1 .. n -> OtherGaps(m)]
    OBVIOUS
  <2>2. n \in Nat
    BY <1>4, <2>1, PatchTurnsAssumption
  <2>3. \A i \in 1 .. n : AddAssumption("carried", others[i]) \in Patch
    BY <1>6, <2>1, BuiltPatches DEF Topics
  <2>4. Assumed(others) = [i \in 1 .. n |-> AddAssumption("carried", others[i])]
    BY <2>1 DEF Assumed
  <2> QED
    BY <2>2, <2>3, <2>4
<1> QED
  BY <1>1, <1>5, <1>7

LEMMA OtherSetsTyped ==
  ASSUME NEW m \in ArchitectureModel
  PROVE  /\ \A ps \in Captures(m) : ps \in Seq(Patch)
         /\ \A n \in Nat : RiskPatches(m, n) \in Seq(Patch)
         /\ \A ps \in CarryPatches(m) : ps \in Seq(Patch)
         /\ \A ps \in CatalogPatchSets \cup HelperPatches : ps \in Seq(Patch)
<1>1. /\ m.assumptions \in Seq(Assumption) /\ ComponentIds(m) \in SUBSET Components
      /\ Len(m.assumptions) \in Nat
  BY ModelParts
<1>2. ASSUME NEW ps \in Captures(m)
      PROVE  ps \in Seq(Patch)
  <2> DEFINE unparsed == AddAssumption("unparsed", ComponentIds(m))
  <2>1. unparsed \in Patch
    BY <1>1, BuiltPatches DEF Topics
  <2>2. ps \in {<< >>, << unparsed >>}
    BY DEF Captures
  <2> HIDE DEF unparsed
  <2>3. << >> \in Seq(Patch) /\ << unparsed >> \in Seq(Patch)
    BY <2>1
  <2> QED
    BY <2>2, <2>3
<1>3. ASSUME NEW n \in Nat
      PROVE  RiskPatches(m, n) \in Seq(Patch)
  <2> DEFINE adds == [i \in 1 .. n |-> AddAssumption("risk", ComponentIds(m))]
             confirms == [i \in 1 .. n |-> ConfirmAssumption(Len(m.assumptions) + i)]
  <2>1. adds \in Seq(Patch)
    BY <1>1, BuiltPatches DEF Topics
  <2>2. confirms \in Seq(Patch)
    BY <1>1, BuiltPatches
  <2> HIDE DEF adds, confirms
  <2>3. adds \o confirms \in Seq(Patch)
    BY <2>1, <2>2
  <2> QED
    BY <2>3 DEF RiskPatches, adds, confirms
<1>4. ASSUME NEW ps \in CarryPatches(m)
      PROVE  ps \in Seq(Patch)
  <2>1. PICK ids, others : /\ ps = ResolveAll(ids, "carried") \o Assumed(others)
                           /\ ResolveAll(ids, "carried") \in Seq(Patch)
                           /\ Assumed(others) \in Seq(Patch)
    BY CarryParts
  <2> QED
    BY <2>1
<1>5. ASSUME NEW ps \in CatalogPatchSets \cup HelperPatches
      PROVE  ps \in Seq(Patch)
  <2>1. AddComponentPatch \cup AddDependencyPatch \subseteq Patch
    BY DEF Patch, StructuralPatch
  <2>2. ps \in Seq(AddComponentPatch \cup AddDependencyPatch)
    BY PatchTurnsAssumption
  <2> QED
    BY <2>1, <2>2
<1> QED
  BY <1>2, <1>3, <1>4, <1>5

-----------------------------------------------------------------------------
(* The head and the rest of a queue.                                       *)
LEMMA HeadTyped ==
  ASSUME TypeOK, queue # << >>
  PROVE  Head(queue) \in Patch /\ Tail(queue) \in Seq(Patch)
BY DEF TypeOK

LEMMA EmptyModelTyped ==
  EmptyModel \in ArchitectureModel
<1>1. << >> \in [{} -> SUBSET Terms]
  OBVIOUS
<1>2. << >> \in ComponentMaps
  BY <1>1, MakeComponents
<1> QED
  BY <1>2 DEF EmptyModel, ArchitectureModel

LEMMA InitTyped ==
  Init => TypeOK
BY EmptyModelTyped DEF Init, TypeOK, Stages, Gate, NoGate

LEMMA BeginTyped ==
  ASSUME TypeOK, NEW set \in Sets, NEW ps \in Seq(Patch), NEW g \in Gate,
         Begin(set, ps, g)
  PROVE  TypeOK'
BY DEF Begin, TypeOK

LEMMA NextSetTyped ==
  ASSUME TypeOK, NEW from, NEW to \in Sets \cup {"persist"}, NEW ps \in Seq(Patch),
         NextSet(from, to, ps), results' \in Seq(Nat)
  PROVE  TypeOK'
BY DEF NextSet, TypeOK, Gate, NoGate

LEMMA ApplyPatchTyped ==
  ASSUME TypeOK, ApplyPatch
  PROVE  /\ TypeOK'
         /\ Head(queue) \in Patch /\ IsValid(model, Head(queue))
         /\ model.version \in Nat /\ model'.version = model.version + 1
         /\ model'.components = Effect(model, Head(queue)).components
         /\ model'.dependencies = Effect(model, Head(queue)).dependencies
         /\ model'.assumptions = Effect(model, Head(queue)).assumptions
         /\ model'.open_questions = Effect(model, Head(queue)).open_questions
<1> DEFINE p == Head(queue)
<1>1. /\ p \in Patch /\ Tail(queue) \in Seq(Patch) /\ IsValid(model, p)
      /\ model' = ApplySingle(model, p)
  BY HeadTyped DEF ApplyPatch
<1>2. model \in ArchitectureModel /\ model.version \in Nat
  BY ModelParts DEF TypeOK
<1> HIDE DEF p
<1>3. /\ model' \in ArchitectureModel
      /\ model'.version = model.version + 1
      /\ model'.components = Effect(model, p).components
      /\ model'.dependencies = Effect(model, p).dependencies
      /\ model'.assumptions = Effect(model, p).assumptions
      /\ model'.open_questions = Effect(model, p).open_questions
  BY <1>1, <1>2, ApplyFrame
<1>4. results' \in Seq(Nat)
  BY <1>2, <1>3 DEF ApplyPatch, RecordResult, TypeOK
<1>5. TypeOK'
  BY <1>1, <1>3, <1>4 DEF ApplyPatch, TypeOK
<1> QED
  BY <1>1, <1>2, <1>3, <1>5 DEF p

(* Every step keeps the types.                                             *)
LEMMA NextTyped ==
  ASSUME TypeOK, [Next]_vars
  PROVE  TypeOK'
<1> USE DEF TypeOK
<1>1. CASE Ingest
  <2>1. PICK llm \in LLMPatchSets :
          \E ps \in IF stage = "discovery" THEN Completions(model, llm) ELSE {llm} :
            \E g \in GatesFor(ps) : Begin("apply", ps, g)
    BY <1>1 DEF Ingest
  <2>2. PICK ps \in IF stage = "discovery" THEN Completions(model, llm) ELSE {llm} :
          \E g \in GatesFor(ps) : Begin("apply", ps, g)
    BY <2>1
  <2>3. PICK g \in GatesFor(ps) : Begin("apply", ps, g)
    BY <2>2
  <2>4. ps \in Seq(Patch)
    BY PatchTurnsAssumption, CompletionsTyped
  <2>5. g \in Gate
    <3> DEFINE structural == stage = "review"
               resolves == Indices(ps, "resolve_open_question") # {}
               pending ==
                 /\ ~ resolves
                 /\ \E i \in DOMAIN ps : RequiresConfirmation(model, ps[i], structural)
    <3>1. PICK a \in {FALSE} \cup {pending /\ stage = "discovery"} :
            g = [structural |-> structural, resolves |-> resolves, approved |-> a]
      BY DEF GatesFor
    <3>2. a \in BOOLEAN /\ structural \in BOOLEAN /\ resolves \in BOOLEAN
      OBVIOUS
    <3> HIDE DEF structural, resolves
    <3> QED
      BY <3>1, <3>2 DEF Gate
  <2> QED
    BY <2>3, <2>4, <2>5, BeginTyped DEF Sets
<1>2. CASE IngestFails
  BY <1>2, OtherSetsTyped, BeginTyped DEF IngestFails, Sets, Gate, NoGate
<1>3. CASE ImportCatalog
  BY <1>3, OtherSetsTyped, BeginTyped DEF ImportCatalog, Sets, Gate, NoGate
<1>4. CASE RejectPatch
  BY <1>4, HeadTyped DEF RejectPatch, RecordResult, Rejected
<1>5. CASE ApplyPatch
  BY <1>5, ApplyPatchTyped
<1>6. CASE InferHelpers
  BY <1>6, OtherSetsTyped, NextSetTyped DEF InferHelpers, Sets
<1>7. CASE EscalateRisks
  <2>1. PICK n \in 0 .. MaxRisks : NextSet("helpers", "risks", RiskPatches(model, n))
    BY <1>7 DEF EscalateRisks
  <2>2. RiskPatches(model, n) \in Seq(Patch)
    BY PatchTurnsAssumption, OtherSetsTyped
  <2> QED
    BY <1>7, <2>1, <2>2, NextSetTyped DEF EscalateRisks, Sets
<1>8. CASE CarryForward
  <2>1. results' \in Seq(Nat)
    BY <1>8 DEF CarryForward
  <2> QED
    BY <1>8, <2>1, OtherSetsTyped, NextSetTyped DEF CarryForward, Sets
<1>9. CASE EndGraph
  <2>1. PICK from : NextSet(from, "persist", << >>)
    BY <1>9 DEF EndGraph
  <2>2. << >> \in Seq(Patch)
    OBVIOUS
  <2> QED
    BY <1>9, <2>1, <2>2, NextSetTyped DEF EndGraph
<1>10. CASE PersistTurn
  BY <1>10 DEF PersistTurn
<1>11. CASE AcceptModel
  <2>1. model' \in ArchitectureModel
    BY <1>11, UpdatedModel DEF AcceptModel
  <2> QED
    BY <1>11, <2>1 DEF AcceptModel, Stages
<1>12. CASE EnterReview
  BY <1>12 DEF EnterReview, Stages
<1>13. CASE UNCHANGED vars
  BY <1>13 DEF vars
<1> QED
  BY <1>1, <1>2, <1>3, <1>4, <1>5, <1>6, <1>7, <1>8, <1>9, <1>10, <1>11, <1>12,
     <1>13 DEF Next

(* The session's architecture model is well formed after any sequence of   *)
(* patch sets: no state a validator accepts makes a patch ill-typed.       *)
THEOREM PatchTypes == Spec => []TypeOK
<1>1. Init => TypeOK
  BY InitTyped
<1>2. TypeOK /\ [Next]_vars => TypeOK'
  BY NextTyped
<1> QED
  BY <1>1, <1>2, PTL DEF Spec

-----------------------------------------------------------------------------
(* What patches do to components and dependencies, in terms of ids.        *)
LEMMA StructureEffects ==
  ASSUME NEW m \in ArchitectureModel, NEW p \in Patch, IsValid(m, p)
  PROVE  /\ p.op \in {"add_component", "update_component"} =>
              ComponentIds(m) \subseteq DOMAIN Effect(m, p).components
         /\ p.op = "remove_component" =>
              /\ DOMAIN Effect(m, p).components = ComponentIds(m) \ {p.id}
              /\ Effect(m, p).dependencies =
                   {d \in m.dependencies : ~ Touches(d, p.id)}
         /\ p.op = "add_dependency" =>
              /\ Effect(m, p).dependencies = m.dependencies \cup {p.edge}
              /\ {p.edge[1], p.edge[2]} \subseteq ComponentIds(m)
              /\ p.edge[1] # p.edge[2]
         /\ p.op = "remove_dependency" =>
              Effect(m, p).dependencies \subseteq m.dependencies
<1> USE ModelParts, PatchByOp DEF Effect, ArchitectureModel
<1>1. p.op \in {"add_component", "update_component"} =>
        ComponentIds(m) \subseteq DOMAIN Effect(m, p).components
  BY DEF WithTerms
<1>2. p.op = "remove_component" =>
        /\ DOMAIN Effect(m, p).components = ComponentIds(m) \ {p.id}
        /\ Effect(m, p).dependencies = {d \in m.dependencies : ~ Touches(d, p.id)}
  BY DEF WithoutComponent
<1>3. p.op = "add_dependency" => Effect(m, p).dependencies = m.dependencies \cup {p.edge}
  OBVIOUS
<1>4. p.op = "add_dependency" =>
        {p.edge[1], p.edge[2]} \subseteq ComponentIds(m) /\ p.edge[1] # p.edge[2]
  BY DEF IsValid, ComponentPatchValid, DependencyPatchValid, AssumptionPatchValid,
         QuestionPatchValid
<1>5. p.op = "remove_dependency" =>
        Effect(m, p).dependencies \subseteq m.dependencies
  OBVIOUS
<1> QED
  BY <1>1, <1>2, <1>3, <1>4, <1>5

(* The steps that change the model are ApplyPatch and, in its version      *)
(* only, AcceptModel.                                                      *)
LEMMA OtherStepsKeepModel ==
  ASSUME TypeOK, [Next]_vars, ~ ApplyPatch
  PROVE  /\ model'.components = model.components
         /\ model'.dependencies = model.dependencies
         /\ model'.assumptions = model.assumptions
         /\ model'.open_questions = model.open_questions
<1>1. CASE AcceptModel
  BY <1>1 DEF AcceptModel, TypeOK, ArchitectureModel
<1>2. CASE ~ AcceptModel
  <2>1. model' = model
    BY <1>2 DEF Next, vars, Ingest, IngestFails, ImportCatalog, Begin, RejectPatch,
                InferHelpers, EscalateRisks, CarryForward, EndGraph, NextSet,
                PersistTurn, EnterReview
  <2> QED
    BY <2>1
<1> QED
  BY <1>1, <1>2

LEMMA NoDanglingStep ==
  ASSUME TypeOK, NoDanglingDependency, [Next]_vars
  PROVE  NoDanglingDependency'
<1>1. CASE ApplyPatch
  <2> DEFINE p == Head(queue)
  <2>1. /\ p \in Patch /\ IsValid(model, p) /\ model \in ArchitectureModel
        /\ model'.components = Effect(model, p).components
        /\ model'.dependencies = Effect(model, p).dependencies
    BY <1>1, ApplyPatchTyped DEF TypeOK
  <2> HIDE DEF p
  <2>2. CASE p.op \in {"add_component", "update_component"}
    <3>1. /\ model'.dependencies = model.dependencies
          /\ ComponentIds(model) \subseteq ComponentIds(model')
      BY <2>1, <2>2, EffectFrame, StructureEffects
    <3> QED
      BY <3>1 DEF NoDanglingDependency
  <2>3. CASE p.op = "remove_component"
    <3>1. /\ ComponentIds(model') = ComponentIds(model) \ {p.id}
          /\ model'.dependencies = {d \in model.dependencies : ~ Touches(d, p.id)}
      BY <2>1, <2>3, StructureEffects
    <3> QED
      BY <3>1 DEF NoDanglingDependency, Touches
  <2>4. CASE p.op \in {"add_dependency", "remove_dependency"}
    <3>1. /\ model'.components = model.components
          /\ \A d \in model'.dependencies :
               \/ d \in model.dependencies
               \/ {d[1], d[2]} \subseteq ComponentIds(model) /\ d[1] # d[2]
      BY <2>1, <2>4, EffectFrame, StructureEffects
    <3> QED
      BY <3>1 DEF NoDanglingDependency
  <2>5. CASE p.op \notin {"add_component", "update_component", "remove_component",
                          "add_dependency", "remove_dependency"}
    <3>1. /\ model'.components = model.components
          /\ model'.dependencies = model.dependencies
      BY <2>1, <2>5, EffectFrame
    <3> QED
      BY <3>1 DEF NoDanglingDependency
  <2> QED
    BY <2>2, <2>3, <2>4, <2>5
<1>2. CASE ~ ApplyPatch
  BY <1>2, OtherStepsKeepModel DEF NoDanglingDependency
<1> QED
  BY <1>1, <1>2

(* No sequence of patch sets leaves a dangling dependency or a self loop.  *)
THEOREM ReferencesResolve == Spec => []NoDanglingDependency
<1>1. Init => TypeOK /\ NoDanglingDependency
  BY InitTyped DEF Init, EmptyModel, NoDanglingDependency
<1>2. TypeOK /\ NoDanglingDependency /\ [Next]_vars => (TypeOK /\ NoDanglingDependency)'
  BY NextTyped, NoDanglingStep
<1> QED
  BY <1>1, <1>2, PTL DEF Spec

-----------------------------------------------------------------------------
(* Which evidence a valid patch may decide, and that the rest are appended. *)
LEMMA EvidenceEffects ==
  ASSUME NEW m \in ArchitectureModel, NEW p \in Patch, IsValid(m, p)
  PROVE  /\ p.op \in {"add_assumption", "resolve_open_question"} =>
              \E a : Effect(m, p).assumptions = Append(m.assumptions, a)
         /\ p.op = "confirm_assumption" =>
              /\ p.id \in DOMAIN m.assumptions
              /\ m.assumptions[p.id].status = "open"
         /\ p.op = "resolve_open_question" =>
              /\ p.id \in DOMAIN m.open_questions
              /\ ~ m.open_questions[p.id].resolved
<1>1. p.op \in {"add_assumption", "resolve_open_question"} =>
        \E a : Effect(m, p).assumptions = Append(m.assumptions, a)
  BY ModelParts DEF Effect, WithAssumption, ArchitectureModel
<1>2. /\ p.op = "confirm_assumption" =>
           /\ p.id \in DOMAIN m.assumptions
           /\ m.assumptions[p.id].status = "open"
      /\ p.op = "resolve_open_question" =>
           /\ p.id \in DOMAIN m.open_questions
           /\ ~ m.open_questions[p.id].resolved
  BY DEF IsValid, ComponentPatchValid, DependencyPatchValid, AssumptionPatchValid,
         QuestionPatchValid
<1> QED
  BY <1>1, <1>2

(* Nothing decided in the old list is changed, or elsewhere, in the new.   *)
DecidedKept(old, new) ==
  \A i \in DOMAIN old :
    i \in DOMAIN new /\ (old[i].status # "open" => new[i] = old[i])
ResolvedKept(old, new) ==
  \A i \in DOMAIN old :
    i \in DOMAIN new /\ (old[i].resolved => new[i] = old[i])

(* A valid patch keeps every decision.                                     *)
LEMMA EffectKeepsDecisions ==
  ASSUME NEW m \in ArchitectureModel, NEW p \in Patch, IsValid(m, p)
  PROVE  /\ DecidedKept(m.assumptions, Effect(m, p).assumptions)
         /\ ResolvedKept(m.open_questions, Effect(m, p).open_questions)
<1>1. m.assumptions \in Seq(Assumption) /\ m.open_questions \in Seq(OpenQuestion)
  BY ModelParts
<1>2. DecidedKept(m.assumptions, Effect(m, p).assumptions)
  <2>1. CASE p.op \in {"add_assumption", "resolve_open_question"}
    <3>1. PICK a : Effect(m, p).assumptions = Append(m.assumptions, a)
      BY <2>1, EvidenceEffects
    <3> QED
      BY <1>1, <3>1 DEF DecidedKept
  <2>2. CASE p.op = "confirm_assumption"
    <3> DEFINE as == [m.assumptions EXCEPT
                        ![p.id].status = IF p.rejected THEN "rejected" ELSE "confirmed"]
    <3>1. Effect(m, p).assumptions = as
      BY <2>2 DEF Effect, ArchitectureModel
    <3>2. m.assumptions[p.id].status = "open"
      BY <2>2, EvidenceEffects
    <3>3. /\ DOMAIN as = DOMAIN m.assumptions
          /\ \A i \in DOMAIN as : i # p.id => as[i] = m.assumptions[i]
      OBVIOUS
    <3> HIDE DEF as
    <3> QED
      BY <3>1, <3>2, <3>3 DEF DecidedKept
  <2>3. CASE p.op \notin {"add_assumption", "confirm_assumption",
                          "resolve_open_question"}
    BY <2>3, EffectFrame DEF DecidedKept
  <2> QED
    BY <2>1, <2>2, <2>3
<1>3. ResolvedKept(m.open_questions, Effect(m, p).open_questions)
  <2>1. CASE p.op = "resolve_open_question"
    <3> DEFINE qs == [m.open_questions EXCEPT ![p.id].resolved = TRUE]
    <3>1. Effect(m, p).open_questions = qs
      BY <2>1 DEF Effect, WithAssumption, ArchitectureModel
    <3>2. ~ m.open_questions[p.id].resolved
      BY <2>1, EvidenceEffects
    <3>3. /\ DOMAIN qs = DOMAIN m.open_questions
          /\ \A i \in DOMAIN qs : i # p.id => qs[i] = m.open_questions[i]
      OBVIOUS
    <3> HIDE DEF qs
    <3> QED
      BY <3>1, <3>2, <3>3 DEF ResolvedKept
  <2>2. CASE p.op = "add_open_question"
    <3> DEFINE q == [related |-> p.related, resolved |-> FALSE]
    <3>1. Effect(m, p).open_questions = Append(m.open_questions, q)
      BY <2>2 DEF Effect, ArchitectureModel
    <3> QED
      BY <1>1, <3>1 DEF ResolvedKept
  <2>3. CASE p.op \notin {"resolve_open_question", "add_open_question"}
    BY <2>3, EffectFrame DEF ResolvedKept
  <2> QED
    BY <2>1, <2>2, <2>3
<1> QED
  BY <1>2, <1>3

(* No later patch, of any turn or import, reopens or rewrites a decided    *)
(* assumption or a resolved question, nor moves it to another id.          *)
THEOREM DecisionsStand == Spec => DecisionsFinal
<1>1. ASSUME TypeOK, [Next]_vars
      PROVE  /\ DecidedKept(model.assumptions, model'.assumptions)
             /\ ResolvedKept(model.open_questions, model'.open_questions)
  <2>1. CASE ApplyPatch
    <3>1. model \in ArchitectureModel
      BY <1>1 DEF TypeOK
    <3> QED
      BY <1>1, <2>1, <3>1, ApplyPatchTyped, EffectKeepsDecisions
  <2>2. CASE ~ ApplyPatch
    BY <1>1, <2>2, OtherStepsKeepModel DEF DecidedKept, ResolvedKept
  <2> QED
    BY <2>1, <2>2
<1>2. TypeOK /\ [Next]_vars =>
        [/\ \A i \in DOMAIN model.assumptions :
              /\ i \in DOMAIN model'.assumptions
              /\ model.assumptions[i].status # "open" =>
                   model'.assumptions[i] = model.assumptions[i]
         /\ \A i \in DOMAIN model.open_questions :
              /\ i \in DOMAIN model'.open_questions
              /\ model.open_questions[i].resolved =>
                   model'.open_questions[i] = model.open_questions[i]]_vars
  BY <1>1 DEF DecidedKept, ResolvedKept
<1> QED
  BY <1>2, PatchTypes, PTL DEF Spec, DecisionsFinal

-----------------------------------------------------------------------------
LEMMA TermsOf ==
  ASSUME NEW m, NEW id, NEW terms, NEW c \in ComponentIds(m)
  PROVE  WithTerms(m, id, terms)[c] = IF c = id THEN terms ELSE m.components[c]
BY DEF WithTerms

(* A patch that passes its gate without an approval or a resolution adds   *)
(* no platform to a component that has one.                                *)
LEMMA UngatedEffect ==
  ASSUME NEW m \in ArchitectureModel, NEW p \in Patch, IsValid(m, p),
         ~ IsReplatform(m, p),
         NEW c \in ComponentIds(m), c \in DOMAIN Effect(m, p).components,
         m.components[c] # {}
  PROVE  Effect(m, p).components[c] \subseteq m.components[c]
<1> USE ModelParts, PatchByOp
<1>1. CASE p.op = "add_component"
  <2>1. p.id \notin ComponentIds(m)
    BY <1>1 DEF IsValid, ComponentPatchValid, DependencyPatchValid,
                AssumptionPatchValid, QuestionPatchValid
  <2>2. Effect(m, p).components = WithTerms(m, p.id, p.terms)
    BY <1>1 DEF Effect, ArchitectureModel
  <2>3. Effect(m, p).components[c] = IF c = p.id THEN p.terms ELSE m.components[c]
    BY <2>2, TermsOf
  <2> QED
    BY <2>1, <2>3
<1>2. CASE p.op = "update_component"
  <2> DEFINE terms == p.terms \cup (m.components[p.id] \cap p.keeps)
  <2>1. Effect(m, p).components = WithTerms(m, p.id, terms)
    BY <1>2 DEF Effect, ArchitectureModel
  <2>2. c = p.id => terms \subseteq m.components[c]
    BY <1>2 DEF IsReplatform
  <2> HIDE DEF terms
  <2>3. Effect(m, p).components[c] = IF c = p.id THEN terms ELSE m.components[c]
    BY <2>1, TermsOf
  <2> QED
    BY <2>2, <2>3
<1>3. CASE p.op = "remove_component"
  BY <1>3 DEF Effect, ArchitectureModel, WithoutComponent
<1>4. CASE p.op \notin {"add_component", "update_component", "remove_component"}
  BY <1>4, EffectFrame
<1> QED
  BY <1>1, <1>2, <1>3, <1>4

(* However a patch set is ordered, none of its updates rewrites the        *)
(* platform of a component unless the user approved or a question is       *)
(* resolved by the set: the gate is asked again for every patch, on the    *)
(* model as the patches before it left it.                                 *)
THEOREM ReplatformsDiscussed == Spec => NoSilentReplatform
<1>1. ASSUME TypeOK, [Next]_vars, NEW c \in ComponentIds(model),
             c \in ComponentIds(model'), model.components[c] # {},
             ~ model'.components[c] \subseteq model.components[c]
      PROVE  gate.approved \/ gate.resolves
  <2>1. ApplyPatch
    BY <1>1, OtherStepsKeepModel
  <2> DEFINE p == Head(queue)
  <2>2. /\ model \in ArchitectureModel /\ p \in Patch /\ IsValid(model, p)
        /\ model'.components = Effect(model, p).components
        /\ GatePasses(model, p, gate)
    BY <1>1, <2>1, ApplyPatchTyped DEF TypeOK, ApplyPatch
  <2> HIDE DEF p
  <2>3. IsReplatform(model, p)
    BY <1>1, <2>2, UngatedEffect
  <2> QED
    BY <2>2, <2>3 DEF GatePasses, RequiresConfirmation
<1>2. TypeOK /\ [Next]_vars =>
        [\A c \in ComponentIds(model) :
           /\ c \in ComponentIds(model')
           /\ model.components[c] # {}
           /\ ~ model'.components[c] \subseteq model.components[c]
           => gate.approved \/ gate.resolves]_vars
  BY <1>1
<1> QED
  BY <1>2, PatchTypes, PTL DEF Spec, NoSilentReplatform

-----------------------------------------------------------------------------
(* The strengthening that makes AuditExplainsVersions inductive: no turn   *)
(* has lowered the version, a turn that is over has no patch left, and     *)
(* only discovery turns have further sets of patches.                      *)
AuditInv ==
  /\ TypeOK
  /\ before.version <= model.version
  /\ at \in {"idle", "persist"} => queue = << >>
  /\ at \notin {"idle", "persist", "apply"} => stage = "discovery"
  /\ AuditExplainsVersions

(* What one more row does to the account.                                  *)
LEMMA AppendedResult ==
  ASSUME NEW s \in Seq(Nat), NEW v \in Nat
  PROVE  /\ {Append(s, v)[i] : i \in DOMAIN Append(s, v)}
              = {s[i] : i \in DOMAIN s} \cup {v}
         /\ DOMAIN Append(s, v) = DOMAIN s \cup {Len(s) + 1}
         /\ Append(s, v)[Len(s) + 1] = v
         /\ \A i \in DOMAIN s : Append(s, v)[i] = s[i]
<1>1. DOMAIN Append(s, v) = DOMAIN s \cup {Len(s) + 1}
  OBVIOUS
<1>2. Append(s, v)[Len(s) + 1] = v
  OBVIOUS
<1>3. \A i \in DOMAIN s : Append(s, v)[i] = s[i]
  OBVIOUS
<1> DEFINE u == Append(s, v)
<1> HIDE DEF u
<1>4. {u[i] : i \in DOMAIN u} = {s[i] : i \in DOMAIN s} \cup {v}
  BY <1>1, <1>2, <1>3 DEF u
<1> QED
  BY <1>1, <1>2, <1>3, <1>4 DEF u

LEMMA AuditStep ==
  ASSUME AuditInv, [Next]_vars
  PROVE  AuditInv'
<1>1. /\ TypeOK /\ TypeOK'
      /\ model.version \in Nat \ {0} /\ model'.version \in Nat \ {0}
      /\ before.version \in Nat \ {0}
  BY NextTyped DEF AuditInv, TypeOK, ArchitectureModel
<1>2. CASE Ingest \/ IngestFails \/ ImportCatalog
  <2>1. PICK set \in Sets : \E ps, g : Begin(set, ps, g)
    BY <1>2 DEF Ingest, IngestFails, ImportCatalog, Sets
  <2>2. /\ at' \in Sets /\ stage' = stage /\ model' = model
        /\ before' = model /\ results' = << >>
        /\ at' = "apply" \/ stage = "discovery"
    BY <1>2, <2>1 DEF Ingest, IngestFails, ImportCatalog, Begin, Sets
  <2>3. Explained'
    BY <1>1, <2>2 DEF Explained, AppliedVersions
  <2> QED
    BY <1>1, <2>2, <2>3 DEF AuditInv, AuditExplainsVersions, Sets
<1>3. CASE RejectPatch
  <2>1. /\ at' = at /\ stage' = stage /\ model' = model /\ before' = before
        /\ queue # << >>
        /\ results' = IF at \in Unaudited THEN results ELSE Append(results, 0)
    BY <1>3 DEF RejectPatch, RecordResult, Rejected
  <2>2. at \in {"import", "apply", "helpers"} => Explained'
    <3> SUFFICES ASSUME at \in {"import", "apply", "helpers"} PROVE Explained'
      OBVIOUS
    <3>1. Explained /\ results' = Append(results, 0) /\ results \in Seq(Nat)
      BY <1>1, <2>1 DEF AuditInv, AuditExplainsVersions, Unaudited, TypeOK
    <3>2. AppliedVersions' = AppliedVersions
      BY <3>1, AppendedResult DEF AppliedVersions, Rejected
    <3>3. \A i, j \in DOMAIN results' :
            results'[i] = results'[j] /\ results'[i] # 0 => i = j
      BY <3>1, AppendedResult DEF Explained, Rejected
    <3> QED
      BY <2>1, <3>1, <3>2, <3>3 DEF Explained, Rejected
  <2> QED
    BY <1>1, <1>3, <2>1, <2>2 DEF AuditInv, AuditExplainsVersions, RejectPatch
<1>4. CASE ApplyPatch
  <2>1. /\ at' = at /\ stage' = stage /\ before' = before /\ queue # << >>
        /\ results' = IF at \in Unaudited THEN results
                      ELSE Append(results, model'.version)
    BY <1>4 DEF ApplyPatch, RecordResult
  <2>2. model'.version = model.version + 1
    BY <1>1, <1>4, ApplyPatchTyped
  <2>3. at \in {"import", "apply", "helpers"} => Explained'
    <3> SUFFICES ASSUME at \in {"import", "apply", "helpers"} PROVE Explained'
      OBVIOUS
    <3> DEFINE v == model.version + 1
    <3>1. Explained /\ results' = Append(results, v) /\ results \in Seq(Nat)
      BY <1>1, <2>1, <2>2 DEF AuditInv, AuditExplainsVersions, Unaudited, TypeOK
    <3>2. v \in Nat /\ v # 0 /\ before.version <= model.version
      BY <1>1 DEF AuditInv
    <3>3. AppliedVersions' = AppliedVersions \cup {v}
      BY <3>1, <3>2, AppendedResult DEF AppliedVersions, Rejected
    <3>4. v \notin AppliedVersions
      BY <1>1, <3>1 DEF Explained
    <3>5. \A i \in DOMAIN results : results[i] # v
      BY <3>2, <3>4 DEF AppliedVersions, Rejected
    <3>6. \A i, j \in DOMAIN results' :
            results'[i] = results'[j] /\ results'[i] # 0 => i = j
      BY <3>1, <3>2, <3>5, AppendedResult DEF Explained, Rejected
    <3>7. AppliedVersions' = before'.version + 1 .. model'.version
      BY <1>1, <2>1, <2>2, <3>1, <3>2, <3>3 DEF Explained
    <3> QED
      BY <3>6, <3>7 DEF Explained, Rejected
  <2> QED
    BY <1>1, <2>1, <2>2, <2>3 DEF AuditInv, AuditExplainsVersions
<1>5. CASE InferHelpers \/ EscalateRisks \/ CarryForward
  <2>1. /\ at \in {"apply", "helpers", "risks"} /\ stage = "discovery"
        /\ at' \in {"helpers", "risks", "carry"}
        /\ at' = "helpers" => at = "apply" /\ results' = results
        /\ model' = model /\ before' = before /\ stage' = stage
    BY <1>5 DEF InferHelpers, EscalateRisks, CarryForward, NextSet, AuditInv
  <2> QED
    BY <1>1, <2>1 DEF AuditInv, AuditExplainsVersions, Explained, AppliedVersions
<1>6. CASE EndGraph
  <2>1. /\ at' = "persist" /\ queue' = << >> /\ results' = results
        /\ at = "apply" \/ stage = "discovery"
        /\ model' = model /\ before' = before /\ stage' = stage
    BY <1>6 DEF EndGraph, NextSet, AuditInv
  <2> QED
    BY <1>1, <2>1 DEF AuditInv, AuditExplainsVersions, Explained, AppliedVersions
<1>7. CASE PersistTurn \/ AcceptModel \/ EnterReview
  <2>1. /\ at' = "idle" /\ queue' = << >>
        /\ before'.version <= model'.version
    BY <1>1, <1>7 DEF PersistTurn, AcceptModel, EnterReview, AuditInv
  <2> QED
    BY <1>1, <2>1 DEF AuditInv, AuditExplainsVersions
<1>8. CASE UNCHANGED vars
  BY <1>1, <1>8 DEF vars, AuditInv, AuditExplainsVersions, Explained, AppliedVersions
<1> QED
  BY <1>2, <1>3, <1>4, <1>5, <1>6, <1>7, <1>8 DEF Next

(* Until a turn's results are thrown away or replaced, the audit rows      *)
(* account for each new version exactly once, and those that a planning or *)
(* review turn persists always do.                                         *)
THEOREM AuditComplete == Spec => []AuditExplainsVersions
<1>1. Init => AuditInv
  <2> SUFFICES ASSUME Init PROVE AuditInv
    OBVIOUS
  <2> QED
    BY InitTyped DEF Init, EmptyModel, AuditInv, AuditExplainsVersions
<1>2. AuditInv /\ [Next]_vars => AuditInv'
  BY AuditStep
<1>3. AuditInv => AuditExplainsVersions
  BY DEF AuditInv
<1> QED
  BY <1>1, <1>2, <1>3, PTL DEF Spec

-----------------------------------------------------------------------------
(* The two sets that AnswersMatchResolutions counts, of any model.         *)
Answers(m) ==
  {i \in DOMAIN m.assumptions : m.assumptions[i].raised_by = "user"}
Resolutions(m) == DOMAIN m.open_questions \ OpenQuestions(m)

LEMMA EvidenceFinite ==
  ASSUME NEW m \in ArchitectureModel
  PROVE  IsFiniteSet(Answers(m)) /\ IsFiniteSet(Resolutions(m))
<1>1. /\ DOMAIN m.assumptions = 1 .. Len(m.assumptions)
      /\ Len(m.assumptions) \in Nat
      /\ DOMAIN m.open_questions = 1 .. Len(m.open_questions)
      /\ Len(m.open_questions) \in Nat
  BY ModelParts
<1>2. IsFiniteSet(DOMAIN m.assumptions) /\ IsFiniteSet(DOMAIN m.open_questions)
  BY <1>1, FS_Interval
<1>3. Answers(m) \subseteq DOMAIN m.assumptions
      /\ Resolutions(m) \subseteq DOMAIN m.open_questions
  BY DEF Answers, Resolutions
<1> QED
  BY <1>2, <1>3, FS_Subset

(* A patch leaves both sets alone, unless it resolves a question: then     *)
(* each of them grows by one element.                                      *)
LEMMA ResolutionEffect ==
  ASSUME NEW m \in ArchitectureModel, NEW p \in Patch, IsValid(m, p),
         NEW new, new.assumptions = Effect(m, p).assumptions,
         new.open_questions = Effect(m, p).open_questions
  PROVE  \/ Answers(new) = Answers(m) /\ Resolutions(new) = Resolutions(m)
         \/ \E a, q : /\ a \notin Answers(m) /\ Answers(new) = Answers(m) \cup {a}
                      /\ q \notin Resolutions(m)
                      /\ Resolutions(new) = Resolutions(m) \cup {q}
<1>1. m.assumptions \in Seq(Assumption) /\ m.open_questions \in Seq(OpenQuestion)
  BY ModelParts
<1>2. CASE p.op = "add_assumption"
  <2> DEFINE a == [topic |-> p.topic, status |-> "open", raised_by |-> "llm",
                   related |-> p.related]
  <2>1. new.assumptions = Append(m.assumptions, a)
    BY <1>2 DEF Effect, WithAssumption, ArchitectureModel
  <2>2. a.raised_by # "user"
    OBVIOUS
  <2> HIDE DEF a
  <2>3. Answers(new) = Answers(m)
    BY <1>1, <2>1, <2>2 DEF Answers
  <2>4. Resolutions(new) = Resolutions(m)
    BY <1>2, EffectFrame DEF Resolutions, OpenQuestions
  <2> QED
    BY <2>3, <2>4
<1>3. CASE p.op = "confirm_assumption"
  <2> DEFINE verdict == IF p.rejected THEN "rejected" ELSE "confirmed"
             as == [m.assumptions EXCEPT ![p.id].status = verdict]
  <2>1. new.assumptions = as
    BY <1>3 DEF Effect, ArchitectureModel
  <2>2. /\ DOMAIN as = DOMAIN m.assumptions
        /\ \A i \in DOMAIN as : as[i].raised_by = m.assumptions[i].raised_by
    BY <1>1 DEF Assumption
  <2> HIDE DEF as
  <2>3. Answers(new) = Answers(m)
    BY <2>1, <2>2 DEF Answers
  <2>4. Resolutions(new) = Resolutions(m)
    BY <1>3, EffectFrame DEF Resolutions, OpenQuestions
  <2> QED
    BY <2>3, <2>4
<1>4. CASE p.op = "resolve_open_question"
  <2> DEFINE qs == [m.open_questions EXCEPT ![p.id].resolved = TRUE]
             a == [topic |-> p.topic, status |-> "confirmed", raised_by |-> "user",
                   related |-> m.open_questions[p.id].related]
  <2>1. new.assumptions = Append(m.assumptions, a) /\ new.open_questions = qs
    BY <1>4 DEF Effect, WithAssumption, ArchitectureModel
  <2>2. p.id \in DOMAIN m.open_questions /\ ~ m.open_questions[p.id].resolved
    BY <1>4, EvidenceEffects
  <2>3. /\ DOMAIN qs = DOMAIN m.open_questions
        /\ qs[p.id].resolved
        /\ \A i \in DOMAIN qs : i # p.id => qs[i] = m.open_questions[i]
    <3> DEFINE q == [m.open_questions[p.id] EXCEPT !.resolved = TRUE]
    <3>1. m.open_questions[p.id] \in OpenQuestion
      BY <1>1, <2>2
    <3>2. q.resolved
      BY <3>1 DEF OpenQuestion
    <3>3. qs = [m.open_questions EXCEPT ![p.id] = q]
      BY <2>2
    <3> HIDE DEF q, qs
    <3> QED
      BY <2>2, <3>2, <3>3
  <2>4. a.raised_by = "user"
    OBVIOUS
  <2> HIDE DEF qs, a
  <2>5. /\ Len(m.assumptions) + 1 \notin Answers(m)
        /\ Answers(new) = Answers(m) \cup {Len(m.assumptions) + 1}
    BY <1>1, <2>1, <2>4 DEF Answers
  <2>6. /\ p.id \notin Resolutions(m)
        /\ Resolutions(new) = Resolutions(m) \cup {p.id}
    BY <2>1, <2>2, <2>3 DEF Resolutions, OpenQuestions
  <2> QED
    BY <2>5, <2>6
<1>5. CASE p.op = "add_open_question"
  <2> DEFINE q == [related |-> p.related, resolved |-> FALSE]
  <2>1. new.open_questions = Append(m.open_questions, q)
    BY <1>5 DEF Effect, ArchitectureModel
  <2>2. ~ q.resolved
    OBVIOUS
  <2> HIDE DEF q
  <2>3. Resolutions(new) = Resolutions(m)
    BY <1>1, <2>1, <2>2 DEF Resolutions, OpenQuestions
  <2>4. Answers(new) = Answers(m)
    BY <1>5, EffectFrame DEF Answers
  <2> QED
    BY <2>3, <2>4
<1>6. CASE p.op \notin {"add_assumption", "confirm_assumption",
                        "resolve_open_question", "add_open_question"}
  BY <1>6, EffectFrame DEF Answers, Resolutions, OpenQuestions
<1> QED
  BY <1>2, <1>3, <1>4, <1>5, <1>6

LEMMA AnswersStep ==
  ASSUME TypeOK, AnswersMatchResolutions, [Next]_vars
  PROVE  AnswersMatchResolutions'
<1>1. Cardinality(Answers(model)) = Cardinality(Resolutions(model))
  BY DEF AnswersMatchResolutions, Answers, Resolutions
<1>2. Cardinality(Answers(model')) = Cardinality(Resolutions(model'))
  <2>1. CASE ApplyPatch
    <3>1. model \in ArchitectureModel
      BY DEF TypeOK
    <3>2. \/ Answers(model') = Answers(model) /\ Resolutions(model') = Resolutions(model)
          \/ \E a, q : /\ a \notin Answers(model)
                       /\ Answers(model') = Answers(model) \cup {a}
                       /\ q \notin Resolutions(model)
                       /\ Resolutions(model') = Resolutions(model) \cup {q}
      BY <2>1, <3>1, ApplyPatchTyped, ResolutionEffect
    <3>3. IsFiniteSet(Answers(model)) /\ IsFiniteSet(Resolutions(model))
      BY <3>1, EvidenceFinite
    <3> QED
      BY <1>1, <3>2, <3>3, FS_AddElement
  <2>2. CASE ~ ApplyPatch
    BY <1>1, <2>2, OtherStepsKeepModel DEF Answers, Resolutions, OpenQuestions
  <2> QED
    BY <2>1, <2>2
<1> QED
  BY <1>2 DEF AnswersMatchResolutions, Answers, Resolutions, OpenQuestions

(* As many answers as resolved questions, whoever resolves them.           *)
THEOREM AnswersBalance == Spec => []AnswersMatchResolutions
<1>1. Init => TypeOK /\ AnswersMatchResolutions
  <2> SUFFICES ASSUME Init PROVE AnswersMatchResolutions
    BY InitTyped
  <2>1. /\ {i \in DOMAIN model.assumptions :
              model.assumptions[i].raised_by = "user"} = {}
        /\ DOMAIN model.open_questions \ OpenQuestions(model) = {}
    BY DEF Init, EmptyModel
  <2> QED
    BY <2>1 DEF AnswersMatchResolutions
<1>2. TypeOK /\ AnswersMatchResolutions /\ [Next]_vars
        => (TypeOK /\ AnswersMatchResolutions)'
  BY NextTyped, AnswersStep
<1> QED
  BY <1>1, <1>2, PTL DEF Spec

-----------------------------------------------------------------------------
(* Escalated risks.  Risk names what _record_escalated_risks adds, so no   *)
(* patch of another set carries it.                                        *)
RiskFreePatch(p) ==
  p.op \in {"add_assumption", "resolve_open_question"} => p.topic # "risk"
RiskFree(ps) == \A i \in DOMAIN ps : RiskFreePatch(ps[i])
OnlyEscalationsAreRisks == \A ps \in LLMPatchSets : RiskFree(ps)

RisksSettled(m) ==
  \A i \in DOMAIN m.assumptions :
    m.assumptions[i].topic = "risk" => m.assumptions[i].status = "confirmed"

(* Part of the way through RiskPatches: `adds' risks are still to be added *)
(* and the last `confirms' of the `total' assumptions there will be then   *)
(* are still to be confirmed.                                              *)
Escalating(adds, confirms, total) ==
  /\ total = Len(model.assumptions) + adds
  /\ adds <= confirms /\ confirms <= total
  /\ Len(queue) = adds + confirms
  /\ \A i \in 1 .. adds : queue[i] = AddAssumption("risk", ComponentIds(model))
  /\ \A i \in 1 .. confirms :
       queue[adds + i] = ConfirmAssumption(total - confirms + i)
  /\ \A i \in DOMAIN model.assumptions :
       IF i > total - confirms THEN model.assumptions[i].status = "open"
       ELSE model.assumptions[i].topic = "risk" =>
              model.assumptions[i].status = "confirmed"

RiskInv ==
  IF at = "risks" THEN \E adds, confirms, total \in Nat : Escalating(adds, confirms, total)
                  ELSE RisksSettled(model) /\ RiskFree(queue)

LEMMA RiskFreeConcat ==
  ASSUME NEW ps \in Seq(Patch), NEW qs \in Seq(Patch), RiskFree(ps), RiskFree(qs)
  PROVE  RiskFree(ps \o qs)
<1> DEFINE both == ps \o qs
<1>1. \A i \in DOMAIN both : (\E j \in DOMAIN ps : both[i] = ps[j])
                             \/ (\E j \in DOMAIN qs : both[i] = qs[j])
  <2> SUFFICES ASSUME NEW i \in 1 .. Len(ps) + Len(qs)
               PROVE  (\E j \in DOMAIN ps : both[i] = ps[j])
                      \/ (\E j \in DOMAIN qs : both[i] = qs[j])
    OBVIOUS
  <2>1. CASE i <= Len(ps)
    BY <2>1
  <2>2. CASE i > Len(ps)
    <3>1. both[i] = qs[i - Len(ps)] /\ i - Len(ps) \in DOMAIN qs
      BY <2>2
    <3> QED BY <3>1
  <2> QED BY <2>1, <2>2
<1> HIDE DEF both
<1> QED BY <1>1 DEF RiskFree, both

(* The sets the deterministic steps build, the escalated risks apart.      *)
LEMMA BuiltRiskFree ==
  /\ \A ids : RiskFree(ConfirmAll(ids))
  /\ \A ids, t : t # "risk" => RiskFree(ResolveAll(ids, t))
  /\ \A gaps : RiskFree(Assumed(gaps))
  /\ \A t, R : t # "risk" => RiskFree(<< AddAssumption(t, R) >>)
  /\ \A t, R, i : t # "risk" => RiskFree(<< AddAssumption(t, R), ConfirmAssumption(i) >>)
  /\ RiskFree(<< >>)
BY DEF RiskFree, RiskFreePatch, ConfirmAll, ResolveAll, Assumed, ConfirmAssumption,
       ResolveOpenQuestion, AddAssumption

LEMMA CompletionsRiskFree ==
  ASSUME NEW m \in ArchitectureModel, NEW ps \in Seq(Patch), RiskFree(ps),
         NEW qs \in Completions(m, ps)
  PROVE  RiskFree(qs)
<1>1. m.assumptions \in Seq(Assumption) /\ ComponentIds(m) \in SUBSET Components
  BY ModelParts
<1>2. Len(m.assumptions) \in Nat /\ Adds(ps) \in Nat
  BY <1>1, AddsTyped
<1>3. CASE qs \in AutoConfirm(m, ps)
  <2> DEFINE S == (Len(m.assumptions) + 1 .. Len(m.assumptions) + Adds(ps))
                    \ Named(ps, "confirm_assumption")
  <2>1. PICK ids \in InOrder(S) : qs = ps \o ConfirmAll(ids)
    BY <1>3 DEF AutoConfirm
  <2>2. S \in SUBSET Nat
    BY <1>2
  <2>3. IsFiniteSet(S)
    <3> DEFINE lo == Len(m.assumptions) + 1
               hi == Len(m.assumptions) + Adds(ps)
    <3>1. lo \in Int /\ hi \in Int
      BY <1>2
    <3>2. S \subseteq lo .. hi
      OBVIOUS
    <3> HIDE DEF lo, hi, S
    <3>3. IsFiniteSet(lo .. hi)
      BY <3>1, FS_Interval
    <3> QED
      BY <3>2, <3>3, FS_Subset
  <2> HIDE DEF S
  <2>4. ConfirmAll(ids) \in Seq(Patch)
    BY <2>2, <2>3, InOrderTyped
  <2> QED
    BY <2>1, <2>4, BuiltRiskFree, RiskFreeConcat
<1>4. ASSUME NEW topic \in {"target", "greenfield"}, qs \in RecordTarget(m, ps, topic)
      PROVE  RiskFree(qs)
  <2> DEFINE S == OpenQuestions(m) \ Named(ps, "resolve_open_question")
             last == << AddAssumption(topic, ComponentIds(m)),
                        ConfirmAssumption(Len(m.assumptions) + Adds(ps) + 1) >>
  <2>1. PICK ids \in InOrder(S) : qs = ps \o ResolveAll(ids, topic) \o last
    BY <1>4 DEF RecordTarget
  <2>2. S \in SUBSET Nat /\ IsFiniteSet(S)
    BY OpenQuestionsFinite
  <2>3. ResolveAll(ids, topic) \in Seq(Patch)
    BY <2>2, InOrderTyped DEF Topics
  <2>4. last \in Seq(Patch)
    BY <1>1, <1>2, BuiltPatches DEF Topics
  <2>5. RiskFree(ResolveAll(ids, topic)) /\ RiskFree(last)
    BY BuiltRiskFree
  <2> HIDE DEF last
  <2>6. ps \o ResolveAll(ids, topic) \in Seq(Patch) /\ RiskFree(ps \o ResolveAll(ids, topic))
    BY <2>3, <2>5, RiskFreeConcat
  <2> QED
    BY <2>1, <2>4, <2>5, <2>6, RiskFreeConcat
<1> QED
  BY <1>3, <1>4 DEF Completions

LEMMA OtherSetsRiskFree ==
  ASSUME NEW m \in ArchitectureModel
  PROVE  /\ \A ps \in Captures(m) : RiskFree(ps)
         /\ \A ps \in CarryPatches(m) : RiskFree(ps)
         /\ \A ps \in CatalogPatchSets \cup HelperPatches : RiskFree(ps)
<1>1. ComponentIds(m) \in SUBSET Components
  BY ModelParts
<1>2. \A ps \in Captures(m) : RiskFree(ps)
  BY BuiltRiskFree DEF Captures
<1>3. ASSUME NEW ps \in CarryPatches(m)
      PROVE  RiskFree(ps)
  <2>1. PICK ids, others : /\ ps = ResolveAll(ids, "carried") \o Assumed(others)
                           /\ ResolveAll(ids, "carried") \in Seq(Patch)
                           /\ Assumed(others) \in Seq(Patch)
    BY CarryParts
  <2>2. RiskFree(ResolveAll(ids, "carried")) /\ RiskFree(Assumed(others))
    BY BuiltRiskFree
  <2> QED
    BY <2>1, <2>2, RiskFreeConcat
<1>4. ASSUME NEW ps \in CatalogPatchSets \cup HelperPatches
      PROVE  RiskFree(ps)
  <2>1. ps \in Seq(AddComponentPatch \cup AddDependencyPatch)
    BY PatchTurnsAssumption
  <2>2. \A i \in DOMAIN ps : ps[i] \in AddComponentPatch \cup AddDependencyPatch
    BY <2>1
  <2>3. \A p \in AddComponentPatch \cup AddDependencyPatch : RiskFreePatch(p)
    BY DEF AddComponentPatch, AddDependencyPatch, RiskFreePatch
  <2> QED
    BY <2>2, <2>3 DEF RiskFree
<1> QED
  BY <1>2, <1>3, <1>4

(* What the evidence list of a model becomes.                              *)
LEMMA AssumptionEffect ==
  ASSUME NEW m \in ArchitectureModel, NEW p \in Patch
  PROVE  /\ p.op = "add_assumption" =>
              Effect(m, p).assumptions =
                Append(m.assumptions, [topic |-> p.topic, status |-> "open",
                                       raised_by |-> "llm", related |-> p.related])
         /\ p.op = "confirm_assumption" =>
              Effect(m, p).assumptions =
                [m.assumptions EXCEPT
                   ![p.id].status = IF p.rejected THEN "rejected" ELSE "confirmed"]
         /\ p.op = "resolve_open_question" =>
              Effect(m, p).assumptions =
                Append(m.assumptions, [topic |-> p.topic, status |-> "confirmed",
                                       raised_by |-> "user",
                                       related |-> m.open_questions[p.id].related])
<1>1. CASE p.op = "add_assumption"
  BY <1>1 DEF Effect, WithAssumption, ArchitectureModel
<1>2. CASE p.op = "confirm_assumption"
  BY <1>2 DEF Effect, ArchitectureModel
<1>3. CASE p.op = "resolve_open_question"
  BY <1>3 DEF Effect, WithAssumption, ArchitectureModel
<1> QED
  BY <1>1, <1>2, <1>3

LEMMA SettledKept ==
  ASSUME NEW m \in ArchitectureModel, NEW p \in Patch, IsValid(m, p), RiskFreePatch(p),
         RisksSettled(m), NEW new, new.assumptions = Effect(m, p).assumptions
  PROVE  RisksSettled(new)
<1>1. m.assumptions \in Seq(Assumption)
  BY ModelParts
<1>2. CASE p.op \in {"add_assumption", "resolve_open_question"}
  <2>1. PICK a : a.topic = p.topic /\ new.assumptions = Append(m.assumptions, a)
    <3> DEFINE added == [topic |-> p.topic, status |-> "open", raised_by |-> "llm",
                         related |-> p.related]
               answer == [topic |-> p.topic, status |-> "confirmed",
                          raised_by |-> "user",
                          related |-> m.open_questions[p.id].related]
    <3>1. added.topic = p.topic /\ answer.topic = p.topic
      OBVIOUS
    <3>2. new.assumptions \in {Append(m.assumptions, added), Append(m.assumptions, answer)}
      BY <1>2, AssumptionEffect
    <3> HIDE DEF added, answer
    <3> QED
      BY <3>1, <3>2
  <2>2. a.topic # "risk"
    BY <1>2, <2>1 DEF RiskFreePatch
  <2> QED
    BY <1>1, <2>1, <2>2 DEF RisksSettled
<1>3. CASE p.op = "confirm_assumption"
  <2> DEFINE a == [m.assumptions[p.id] EXCEPT
                     !.status = IF p.rejected THEN "rejected" ELSE "confirmed"]
  <2>1. p.id \in DOMAIN m.assumptions /\ m.assumptions[p.id].status = "open"
    BY <1>3, EvidenceEffects
  <2>2. m.assumptions[p.id].topic # "risk"
    BY <2>1 DEF RisksSettled
  <2>3. a.topic # "risk"
    BY <1>1, <2>1, <2>2 DEF Assumption
  <2>4. new.assumptions = [m.assumptions EXCEPT ![p.id] = a]
    BY <1>3, <2>1, AssumptionEffect
  <2> HIDE DEF a
  <2> QED
    BY <2>1, <2>3, <2>4 DEF RisksSettled
<1>4. CASE p.op \notin {"add_assumption", "confirm_assumption", "resolve_open_question"}
  BY <1>4, EffectFrame DEF RisksSettled
<1> QED
  BY <1>2, <1>3, <1>4

LEMMA ConcatParts ==
  ASSUME NEW s \in Seq(Patch), NEW t \in Seq(Patch)
  PROVE  /\ Len(s \o t) = Len(s) + Len(t)
         /\ \A i \in 1 .. Len(s) : (s \o t)[i] = s[i]
         /\ \A i \in 1 .. Len(t) : (s \o t)[Len(s) + i] = t[i]
<1>1. Len(s \o t) = Len(s) + Len(t) /\ \A i \in 1 .. Len(s) : (s \o t)[i] = s[i]
  OBVIOUS
<1>2. ASSUME NEW i \in 1 .. Len(t) PROVE (s \o t)[Len(s) + i] = t[i]
  <2>1. Len(s) + i \in 1 .. Len(s) + Len(t) /\ Len(s) + i > Len(s)
    OBVIOUS
  <2>2. (Len(s) + i) - Len(s) = i
    OBVIOUS
  <2> QED BY <2>1, <2>2
<1> QED BY <1>1, <1>2

(* Beginning to escalate: n risks to add and the same n to confirm.        *)
LEMMA EscalationBegins ==
  ASSUME TypeOK, RisksSettled(model), NEW n \in Nat, NextSet("helpers", "risks", RiskPatches(model, n))
  PROVE  RiskInv'
<1> DEFINE adds == [i \in 1 .. n |-> AddAssumption("risk", ComponentIds(model))]
           confirms == [i \in 1 .. n |-> ConfirmAssumption(Len(model.assumptions) + i)]
<1>1. /\ model.assumptions \in Seq(Assumption) /\ Len(model.assumptions) \in Nat
      /\ ComponentIds(model) \in SUBSET Components
  BY ModelParts DEF TypeOK
<1>2. /\ adds \in Seq(Patch) /\ Len(adds) = n
      /\ confirms \in Seq(Patch) /\ Len(confirms) = n
  BY <1>1, BuiltPatches DEF Topics
<1>3. /\ at' = "risks" /\ model' = model /\ queue' = adds \o confirms
  BY DEF NextSet, RiskPatches
<1> PICK total \in Nat : total = Len(model.assumptions) + n
  BY <1>1
<1>4. /\ \A i \in 1 .. n : adds[i] = AddAssumption("risk", ComponentIds(model))
      /\ \A i \in 1 .. n : confirms[i] = ConfirmAssumption(total - n + i)
  BY <1>1
<1> HIDE DEF adds, confirms
<1>5. /\ Len(queue') = n + n
      /\ \A i \in 1 .. n : queue'[i] = adds[i]
      /\ \A i \in 1 .. n : queue'[n + i] = confirms[i]
  <2> DEFINE both == adds \o confirms
  <2>1. /\ Len(both) = Len(adds) + Len(confirms)
        /\ \A i \in 1 .. Len(adds) : both[i] = adds[i]
        /\ \A i \in 1 .. Len(confirms) : both[Len(adds) + i] = confirms[i]
    BY <1>2, ConcatParts
  <2> HIDE DEF both
  <2>2. queue' = both
    BY <1>3 DEF both
  <2> QED BY <1>2, <2>1, <2>2
<1>6. \A i \in DOMAIN model.assumptions : ~ (i > total - n)
  BY <1>1
<1>7. total \in Nat /\ n <= total
  BY <1>1
<1>8. Escalating(n, n, total)'
  <2>1. /\ \A i \in 1 .. n : queue'[i] = AddAssumption("risk", ComponentIds(model))
        /\ \A i \in 1 .. n : queue'[n + i] = ConfirmAssumption(total - n + i)
    BY <1>4, <1>5
  <2>2. \A i \in DOMAIN model.assumptions :
          IF i > total - n THEN model.assumptions[i].status = "open"
          ELSE model.assumptions[i].topic = "risk" =>
                 model.assumptions[i].status = "confirmed"
    BY <1>6 DEF RisksSettled
  <2>3. total = Len(model'.assumptions) + n /\ n <= total /\ Len(queue') = n + n
    BY <1>3, <1>5, <1>7
  <2>4. \A i \in 1 .. n : queue'[i] = AddAssumption("risk", ComponentIds(model'))
    BY <1>3, <2>1
  <2>5. \A i \in DOMAIN model'.assumptions :
          IF i > total - n THEN model'.assumptions[i].status = "open"
          ELSE model'.assumptions[i].topic = "risk" =>
                 model'.assumptions[i].status = "confirmed"
    BY <1>3, <2>2
  <2> QED BY <2>1, <2>3, <2>4, <2>5 DEF Escalating
<1> QED
  BY <1>3, <1>7, <1>8 DEF RiskInv

(* The next patch of an escalation is accepted, and brings it nearer to    *)
(* its end.                                                                *)
LEMMA EscalationHead ==
  ASSUME TypeOK, NEW adds \in Nat, NEW confirms \in Nat, NEW total \in Nat,
         Escalating(adds, confirms, total), queue # << >>
  PROVE  /\ adds > 0 => Head(queue) = AddAssumption("risk", ComponentIds(model))
         /\ adds = 0 => /\ confirms > 0
                        /\ Head(queue) = ConfirmAssumption(total - confirms + 1)
         /\ IsValid(model, Head(queue))
         /\ GatePasses(model, Head(queue), gate)
<1>1. queue \in Seq(Patch) /\ Len(queue) > 0 /\ Len(queue) = adds + confirms
      /\ Head(queue) = queue[1]
  BY DEF TypeOK, Escalating
<1>2. adds > 0 => Head(queue) = AddAssumption("risk", ComponentIds(model))
  BY <1>1 DEF Escalating
<1>3. adds = 0 => confirms > 0 /\ Head(queue) = ConfirmAssumption(total - confirms + 1)
  <2> SUFFICES ASSUME adds = 0
               PROVE  confirms > 0 /\ Head(queue) = ConfirmAssumption(total - confirms + 1)
    OBVIOUS
  <2>1. confirms > 0 /\ 1 \in 1 .. confirms /\ adds + 1 = 1
    BY <1>1
  <2>2. queue[adds + 1] = ConfirmAssumption(total - confirms + 1)
    BY <2>1 DEF Escalating
  <2> QED BY <1>1, <2>1, <2>2
<1>4. IsValid(model, Head(queue))
  <2>1. CASE adds > 0
    <3>1. AssumptionPatchValid(model, Head(queue))
      BY <1>2, <2>1 DEF AddAssumption, AssumptionPatchValid, Blank
    <3> QED BY <3>1 DEF IsValid
  <2>2. CASE adds = 0
    <3> DEFINE id == total - confirms + 1
    <3>1. model.assumptions \in Seq(Assumption) /\ Len(model.assumptions) = total
      BY <2>2, ModelParts DEF TypeOK, Escalating
    <3>2. id \in DOMAIN model.assumptions /\ id > total - confirms
      BY <1>3, <2>2, <3>1 DEF Escalating
    <3>3. model.assumptions[id].status = "open"
      BY <3>2 DEF Escalating
    <3>4. AssumptionPatchValid(model, Head(queue))
      BY <1>3, <2>2, <3>2, <3>3 DEF ConfirmAssumption, AssumptionPatchValid
    <3> QED BY <3>4 DEF IsValid
  <2> QED BY <2>1, <2>2
<1>5. Head(queue).op \in {"add_assumption", "confirm_assumption"}
  <2>1. CASE adds > 0
    BY <1>2, <2>1 DEF AddAssumption
  <2>2. CASE adds = 0
    BY <1>3, <2>2 DEF ConfirmAssumption
  <2> QED BY <2>1, <2>2
<1>6. GatePasses(model, Head(queue), gate)
  BY <1>5 DEF GatePasses, RequiresConfirmation, IsStructural, IsReplatform
<1> QED
  BY <1>2, <1>3, <1>4, <1>6

LEMMA EscalationStep ==
  ASSUME TypeOK, NEW adds \in Nat, NEW confirms \in Nat, NEW total \in Nat,
         Escalating(adds, confirms, total), ApplyPatch
  PROVE  \E a, c \in Nat : Escalating(a, c, total)'
<1> DEFINE p == Head(queue)
<1>1. /\ queue # << >> /\ queue \in Seq(Patch) /\ queue' = Tail(queue)
      /\ model \in ArchitectureModel /\ p \in Patch
      /\ model'.components = Effect(model, p).components
      /\ model'.assumptions = Effect(model, p).assumptions
  BY ApplyPatchTyped DEF ApplyPatch, TypeOK
<1>2. /\ model.assumptions \in Seq(Assumption) /\ Len(model.assumptions) \in Nat
      /\ Len(queue) = adds + confirms /\ total = Len(model.assumptions) + adds
      /\ adds <= confirms /\ confirms <= total
  BY <1>1, ModelParts DEF Escalating
<1>3. /\ Len(queue') = adds + confirms - 1
      /\ \A i \in 1 .. Len(queue') : queue'[i] = queue[i + 1]
  BY <1>1, <1>2
<1>4. CASE adds > 0
  <2> DEFINE a == [topic |-> "risk", status |-> "open", raised_by |-> "llm",
                   related |-> ComponentIds(model)]
  <2>1. p = AddAssumption("risk", ComponentIds(model))
    BY <1>1, <1>4, EscalationHead
  <2>2. /\ p.op = "add_assumption" /\ p.topic = "risk" /\ p.related = ComponentIds(model)
    BY <2>1 DEF AddAssumption
  <2>3. model'.assumptions = Append(model.assumptions, a)
    BY <1>1, <2>2, AssumptionEffect
  <2>4. model'.components = model.components
    BY <1>1, <2>2, EffectFrame
  <2>5. a.status = "open"
    OBVIOUS
  <2> HIDE DEF a, p
  <2>6. /\ Len(model'.assumptions) = Len(model.assumptions) + 1
        /\ DOMAIN model'.assumptions = DOMAIN model.assumptions \cup {Len(model.assumptions) + 1}
        /\ \A i \in DOMAIN model.assumptions : model'.assumptions[i] = model.assumptions[i]
        /\ model'.assumptions[Len(model.assumptions) + 1].status = "open"
    BY <1>2, <2>3, <2>5
  <2>7. /\ adds - 1 \in Nat /\ total = Len(model'.assumptions) + (adds - 1)
        /\ Len(queue') = (adds - 1) + confirms /\ adds - 1 <= confirms
    BY <1>2, <1>3, <1>4, <2>6
  <2>8. \A i \in 1 .. adds - 1 : queue'[i] = AddAssumption("risk", ComponentIds(model))
    <3> SUFFICES ASSUME NEW i \in 1 .. adds - 1
                 PROVE  queue'[i] = AddAssumption("risk", ComponentIds(model))
      OBVIOUS
    <3>1. i \in 1 .. Len(queue') /\ i + 1 \in 1 .. adds
      BY <1>2, <1>3
    <3> QED BY <1>3, <3>1 DEF Escalating
  <2>9. \A i \in 1 .. confirms :
          queue'[(adds - 1) + i] = ConfirmAssumption(total - confirms + i)
    <3> SUFFICES ASSUME NEW i \in 1 .. confirms
                 PROVE  queue'[(adds - 1) + i] = ConfirmAssumption(total - confirms + i)
      OBVIOUS
    <3>1. (adds - 1) + i \in 1 .. Len(queue') /\ ((adds - 1) + i) + 1 = adds + i
      BY <1>2, <1>3, <1>4
    <3>2. queue'[(adds - 1) + i] = queue[adds + i]
      BY <1>3, <3>1
    <3> QED BY <3>2 DEF Escalating
  <2>10. \A i \in DOMAIN model'.assumptions :
           IF i > total - confirms THEN model'.assumptions[i].status = "open"
           ELSE model'.assumptions[i].topic = "risk" =>
                  model'.assumptions[i].status = "confirmed"
    <3>1. Len(model.assumptions) + 1 > total - confirms
      BY <1>2
    <3> QED BY <2>6, <3>1 DEF Escalating
  <2>11. Escalating(adds - 1, confirms, total)'
    BY <1>2, <2>4, <2>7, <2>8, <2>9, <2>10 DEF Escalating
  <2> QED BY <2>7, <2>11
<1>5. CASE adds = 0
  <2> DEFINE id == total - confirms + 1
             a == [model.assumptions[id] EXCEPT !.status = "confirmed"]
  <2>1. confirms > 0 /\ p = ConfirmAssumption(id)
    BY <1>1, <1>5, EscalationHead
  <2>2. p.op = "confirm_assumption" /\ p.id = id /\ p.rejected = FALSE
    BY <2>1 DEF ConfirmAssumption
  <2>3. id \in DOMAIN model.assumptions
    BY <1>2, <1>5, <2>1
  <2>4. model'.assumptions = [model.assumptions EXCEPT ![id] = a]
    BY <1>1, <2>2, <2>3, AssumptionEffect
  <2>5. model'.components = model.components
    BY <1>1, <2>2, EffectFrame
  <2>6. a.status = "confirmed"
    <3>1. model.assumptions[id] \in Assumption
      BY <1>2, <2>3
    <3> QED BY <3>1 DEF Assumption
  <2>7. confirms - 1 \in Nat /\ id = total - (confirms - 1)
    BY <1>2, <2>1
  <2> HIDE DEF a, p
  <2>8. /\ Len(model'.assumptions) = Len(model.assumptions)
        /\ DOMAIN model'.assumptions = DOMAIN model.assumptions
        /\ \A i \in DOMAIN model.assumptions :
             i # id => model'.assumptions[i] = model.assumptions[i]
        /\ model'.assumptions[id].status = "confirmed"
    BY <1>2, <2>3, <2>4, <2>6
  <2>9. \A i \in 1 .. confirms - 1 :
          queue'[0 + i] = ConfirmAssumption(total - (confirms - 1) + i)
    <3> SUFFICES ASSUME NEW i \in 1 .. confirms - 1
                 PROVE  queue'[0 + i] = ConfirmAssumption(total - (confirms - 1) + i)
      OBVIOUS
    <3>1. /\ i \in 1 .. Len(queue') /\ i + 1 \in 1 .. confirms /\ adds + (i + 1) = i + 1
          /\ total - confirms + (i + 1) = total - (confirms - 1) + i /\ 0 + i = i
      <4>1. i \in Nat /\ 1 <= i /\ i <= confirms - 1
        BY <2>7
      <4>2. Len(queue') = confirms - 1
        BY <1>3, <1>5
      <4> QED BY <1>5, <4>1, <4>2
    <3>2. queue'[i] = queue[adds + (i + 1)]
      BY <1>3, <3>1
    <3>3. queue[adds + (i + 1)] = ConfirmAssumption(total - confirms + (i + 1))
      BY <3>1 DEF Escalating
    <3> QED BY <3>1, <3>2, <3>3
  <2>10. \A i \in DOMAIN model'.assumptions :
           IF i > total - (confirms - 1) THEN model'.assumptions[i].status = "open"
           ELSE model'.assumptions[i].topic = "risk" =>
                  model'.assumptions[i].status = "confirmed"
    <3> SUFFICES ASSUME NEW i \in DOMAIN model.assumptions
                 PROVE  IF i > total - (confirms - 1)
                        THEN model'.assumptions[i].status = "open"
                        ELSE model'.assumptions[i].topic = "risk" =>
                               model'.assumptions[i].status = "confirmed"
      BY <2>8
    <3>1. CASE i = id
      BY <1>2, <2>7, <2>8, <3>1
    <3>2. CASE i # id
      <4>1. i > total - confirms <=> i > total - (confirms - 1)
        <5>1. i \in Nat /\ id \in Nat /\ id = total - (confirms - 1)
          BY <1>2, <2>3, <2>7
        <5> QED BY <3>2, <5>1
      <4> QED BY <2>8, <3>2, <4>1 DEF Escalating
    <3> QED BY <3>1, <3>2
  <2>11. Escalating(0, confirms - 1, total)'
    BY <1>2, <1>3, <1>5, <2>5, <2>7, <2>8, <2>9, <2>10 DEF Escalating
  <2> QED BY <2>7, <2>11
<1> QED BY <1>4, <1>5

LEMMA RiskStep ==
  ASSUME OnlyEscalationsAreRisks, TypeOK, RiskInv, [Next]_vars
  PROVE  RiskInv'
<1>1. model \in ArchitectureModel /\ queue \in Seq(Patch)
  BY DEF TypeOK
<1>2. CASE ~ ApplyPatch
  <2>1. RisksSettled(model) => RisksSettled(model')
    BY <1>2, OtherStepsKeepModel DEF RisksSettled
  <2>2. CASE Ingest \/ IngestFails \/ ImportCatalog
    <3>1. at # "risks" /\ at' # "risks"
      BY <2>2 DEF Ingest, IngestFails, ImportCatalog, Ready, Begin
    <3>2. RiskFree(queue')
      <4>1. CASE Ingest
        <5>1. PICK llm \in LLMPatchSets :
                \E ps \in IF stage = "discovery" THEN Completions(model, llm) ELSE {llm} :
                  queue' = ps
          BY <4>1 DEF Ingest, Begin
        <5>2. llm \in Seq(Patch) /\ RiskFree(llm)
          BY PatchTurnsAssumption DEF OnlyEscalationsAreRisks
        <5> QED BY <1>1, <5>1, <5>2, CompletionsRiskFree
      <4>2. CASE IngestFails \/ ImportCatalog
        BY <1>1, <4>2, OtherSetsRiskFree DEF IngestFails, ImportCatalog, Begin
      <4> QED BY <2>2, <4>1, <4>2
    <3> QED BY <2>1, <3>1, <3>2 DEF RiskInv
  <2>3. CASE RejectPatch
    <3>1. at # "risks"
      BY <2>3, EscalationHead DEF RiskInv, RejectPatch
    <3>2. RiskFree(Tail(queue))
      <4>1. \A i \in DOMAIN Tail(queue) : i + 1 \in DOMAIN queue /\ Tail(queue)[i] = queue[i + 1]
        BY <1>1, <2>3 DEF RejectPatch
      <4> QED BY <3>1, <4>1 DEF RiskInv, RiskFree
    <3> QED BY <2>1, <2>3, <3>1, <3>2 DEF RiskInv, RejectPatch
  <2>4. CASE InferHelpers
    <3>1. at = "apply" /\ at' = "helpers" /\ queue' \in HelperPatches
      BY <2>4 DEF InferHelpers, NextSet
    <3> QED BY <1>1, <2>1, <3>1, OtherSetsRiskFree DEF RiskInv
  <2>5. CASE EscalateRisks
    <3>1. PICK n \in 0 .. MaxRisks : NextSet("helpers", "risks", RiskPatches(model, n))
      BY <2>5 DEF EscalateRisks
    <3>2. n \in Nat /\ RisksSettled(model)
      BY <3>1, PatchTurnsAssumption DEF RiskInv, NextSet
    <3> QED BY <3>1, <3>2, EscalationBegins
  <2>6. CASE (CarryForward \/ EndGraph) /\ at = "risks"
    <3>1. /\ queue = << >> /\ model' = model /\ at' # "risks"
          /\ RiskFree(queue')
      BY <1>1, <2>6, OtherSetsRiskFree, BuiltRiskFree DEF CarryForward, EndGraph, NextSet
    <3>2. PICK adds, confirms, total \in Nat : Escalating(adds, confirms, total)
      BY <2>6 DEF RiskInv
    <3>3. adds = 0 /\ confirms = 0 /\ total = Len(model.assumptions)
      BY <3>1, <3>2 DEF Escalating
    <3>4. model.assumptions \in Seq(Assumption)
      BY <1>1, ModelParts
    <3>5. RisksSettled(model)
      BY <3>2, <3>3, <3>4 DEF Escalating, RisksSettled
    <3> QED BY <3>1, <3>5 DEF RiskInv
  <2>7. CASE EndGraph /\ at # "risks"
    <3>1. at' # "risks" /\ queue' = << >>
      BY <2>7 DEF EndGraph, NextSet
    <3> QED BY <2>1, <2>7, <3>1, BuiltRiskFree DEF RiskInv
  <2>8. CASE PersistTurn \/ AcceptModel \/ EnterReview
    <3>1. at # "risks" /\ at' # "risks" /\ queue' = queue
      BY <2>8 DEF PersistTurn, AcceptModel, EnterReview
    <3> QED BY <2>1, <3>1 DEF RiskInv
  <2>9. CASE UNCHANGED vars
    BY <2>9 DEF vars, RiskInv, RisksSettled, Escalating
  <2>10. CarryForward => at = "risks"
    BY DEF CarryForward, NextSet
  <2> QED
    BY <1>2, <2>2, <2>3, <2>4, <2>5, <2>6, <2>7, <2>8, <2>9, <2>10 DEF Next
<1>3. CASE ApplyPatch
  <2>1. CASE at = "risks"
    <3>1. PICK adds, confirms, total \in Nat : Escalating(adds, confirms, total)
      BY <2>1 DEF RiskInv
    <3>2. \E a, c \in Nat : Escalating(a, c, total)'
      BY <1>3, <3>1, EscalationStep
    <3>3. at' = "risks"
      BY <1>3, <2>1 DEF ApplyPatch
    <3> QED BY <3>2, <3>3 DEF RiskInv
  <2>2. CASE at # "risks"
    <3>1. /\ Head(queue) \in Patch /\ IsValid(model, Head(queue))
          /\ model'.assumptions = Effect(model, Head(queue)).assumptions
          /\ queue # << >> /\ queue' = Tail(queue) /\ at' = at
      BY <1>3, ApplyPatchTyped DEF ApplyPatch
    <3>2. RisksSettled(model) /\ RiskFree(queue)
      BY <2>2 DEF RiskInv
    <3>3. RiskFreePatch(Head(queue)) /\ RiskFree(Tail(queue))
      <4>1. /\ Head(queue) = queue[1] /\ 1 \in DOMAIN queue
            /\ \A i \in DOMAIN Tail(queue) :
                 i + 1 \in DOMAIN queue /\ Tail(queue)[i] = queue[i + 1]
        BY <1>1, <3>1
      <4> QED BY <3>2, <4>1 DEF RiskFree
    <3>4. RisksSettled(model')
      BY <1>1, <3>1, <3>2, <3>3, SettledKept
    <3> QED BY <2>2, <3>1, <3>3, <3>4 DEF RiskInv
  <2> QED BY <2>1, <2>2
<1> QED BY <1>2, <1>3

(* The ids predicted for escalated risks are those they get, however many  *)
(* are escalated in a turn and whatever the evidence list held before: no  *)
(* escalated risk is left unconfirmed.                                     *)
THEOREM RisksGetTheirIds == ASSUME OnlyEscalationsAreRisks PROVE Spec => []RisksConfirmed
<1>1. Init => RiskInv
  BY BuiltRiskFree DEF Init, EmptyModel, RiskInv, RisksSettled
<1>2. TypeOK /\ RiskInv /\ [Next]_vars => RiskInv'
  BY RiskStep
<1>3. RiskInv => RisksConfirmed
  BY DEF RiskInv, RisksSettled, RisksConfirmed
<1> QED
  BY <1>1, <1>2, <1>3, PatchTypes, PTL DEF Spec

-----------------------------------------------------------------------------
(* What _persist_turn makes of the version.                                *)

(* Between turns the model is the saved one; within a turn, one that was   *)
(* changed since it was read has a higher version, so the test of          *)
(* _persist_turn (model.version > model_before.version) skips no change.   *)
NothingUnsaved ==
  /\ at = "idle" => model = before
  /\ model # before => model.version > before.version

LEMMA VersionStep ==
  ASSUME AuditInv, [Next]_vars
  PROVE  /\ model' # model => model'.version = model.version + 1
         /\ before' = before \/ before' = model'
         /\ at' = "idle" => before' = model' \/ (at = "idle" /\ UNCHANGED << model, before >>)
<1>1. CASE ApplyPatch
  <2>1. at' = at /\ before' = before /\ queue # << >>
    BY <1>1 DEF ApplyPatch
  <2>2. model'.version = model.version + 1
    BY <1>1, ApplyPatchTyped DEF AuditInv
  <2> QED  BY <2>1, <2>2 DEF AuditInv
<1>2. CASE AcceptModel
  BY <1>2 DEF AcceptModel, AuditInv, TypeOK, ArchitectureModel
<1>3. CASE Ingest \/ IngestFails \/ ImportCatalog
  BY <1>3 DEF Ingest, IngestFails, ImportCatalog, Begin, Sets
<1>4. CASE RejectPatch \/ InferHelpers \/ EscalateRisks \/ CarryForward \/ EndGraph
  BY <1>4 DEF RejectPatch, InferHelpers, EscalateRisks, CarryForward, EndGraph, NextSet
<1>5. CASE PersistTurn \/ EnterReview \/ UNCHANGED vars
  BY <1>5 DEF PersistTurn, EnterReview, vars
<1> QED  BY <1>1, <1>2, <1>3, <1>4, <1>5 DEF Next

LEMMA AuditInvariant == Spec => []AuditInv
<1>1. Init => AuditInv
  BY InitTyped DEF Init, EmptyModel, AuditInv, AuditExplainsVersions
<1> QED
  BY <1>1, AuditStep, PTL DEF Spec

(* No patch changes the model of a turn and is left unsaved for want of a  *)
(* newer version: not in a set that is partly rejected, and not one of the *)
(* helpers, risks or carried gaps whose results are thrown away.  (What    *)
(* the cloud scan fills in is no patch: see DiscoveryGraphProofs.)         *)
THEOREM EveryPatchIsSaved == Spec => []NothingUnsaved
<1>1. Init => NothingUnsaved
  BY DEF Init, NothingUnsaved
<1>2. AuditInv /\ AuditInv' /\ NothingUnsaved /\ [Next]_vars => NothingUnsaved'
  <2> SUFFICES ASSUME AuditInv, AuditInv', NothingUnsaved, [Next]_vars PROVE NothingUnsaved'
    OBVIOUS
  <2>1. model.version \in Nat /\ model'.version \in Nat /\ before.version \in Nat
    BY DEF AuditInv, TypeOK, ArchitectureModel
  <2> QED  BY <2>1, VersionStep DEF NothingUnsaved, AuditInv
<1> QED
  BY <1>1, <1>2, AuditInvariant, PTL DEF Spec
=============================================================================
