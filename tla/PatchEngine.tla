------------------------------ MODULE PatchEngine ------------------------------
(***************************************************************************)
(* The patches of schemas/patches.py, the checks of                        *)
(* core/patch_validator.py and the effects of core/patch_applier.py, as    *)
(* operators on one architecture model.                                    *)
(*                                                                         *)
(* The prose of a component (name, technology, description) is the set of  *)
(* platform terms it mentions.  What an assumption says is one of Topics;  *)
(* its id "A<n>" and a question's "Q<n>" are positions in their lists,     *)
(* which only grow.                                                        *)
(***************************************************************************)
EXTENDS Naturals, Sequences, FiniteSets

CONSTANTS
  Components,   \* component ids
  Terms,        \* _HIGH_IMPACT_TECH_TERMS
  Kinds,        \* DependencyKind
  AnyKind       \* remove_dependency with no kind

ASSUME AnyKindAssumption == AnyKind \notin Kinds

Edges == Components \X Components \X Kinds

(* stated: by the user.  target, greenfield: the summary of a target       *)
(* answer, without and with the greenfield marker.  risk: an escalated     *)
(* hedge.  unparsed: a message kept verbatim.  carried: a gap left when    *)
(* the questions ran out.  answer: the LLM's resolution of a question.     *)
Topics == {"stated", "target", "greenfield", "risk", "unparsed", "carried", "answer"}
Blank == "blank"

Assumption == [topic : Topics, status : {"open", "confirmed", "rejected"},
               raised_by : {"llm", "user"}, related : SUBSET Components]
OpenQuestion == [related : SUBSET Components, resolved : BOOLEAN]

ComponentMaps == UNION {[S -> SUBSET Terms] : S \in SUBSET Components}

ArchitectureModel ==
  [components     : ComponentMaps,
   dependencies   : SUBSET Edges,
   assumptions    : Seq(Assumption),
   open_questions : Seq(OpenQuestion),
   version        : Nat \ {0}]

EmptyModel == [components |-> << >>, dependencies |-> {}, assumptions |-> << >>,
               open_questions |-> << >>, version |-> 1]

ComponentIds(m) == DOMAIN m.components

-----------------------------------------------------------------------------
(* wellFormed: an environment of the enum, and at least one field to       *)
(* update; for confirm_assumption, no new wording with a rejection and no  *)
(* blank one.  An update writes prose that mentions terms, and leaves      *)
(* prose unchanged that mentions keeps.                                    *)
AddComponentPatch ==
  [op : {"add_component"}, id : Components, terms : SUBSET Terms,
   wellFormed : BOOLEAN]
UpdateComponentPatch ==
  [op : {"update_component"}, id : Components, terms : SUBSET Terms,
   keeps : SUBSET Terms, wellFormed : BOOLEAN]
RemoveComponentPatch == [op : {"remove_component"}, id : Components]
AddDependencyPatch == [op : {"add_dependency"}, edge : Edges]
RemoveDependencyPatch ==
  [op : {"remove_dependency"}, source : Components, target : Components,
   kind : Kinds \cup {AnyKind}]
AddAssumptionPatch ==
  [op : {"add_assumption"}, topic : Topics \cup {Blank},
   related : SUBSET Components]
ConfirmAssumptionPatch ==
  [op : {"confirm_assumption"}, id : Nat, rejected : BOOLEAN,
   wellFormed : BOOLEAN]
ResolveOpenQuestionPatch ==
  [op : {"resolve_open_question"}, id : Nat, topic : Topics]
AddOpenQuestionPatch ==
  [op : {"add_open_question"}, blank : BOOLEAN, related : SUBSET Components]

StructuralPatch ==
  AddComponentPatch \cup UpdateComponentPatch \cup RemoveComponentPatch
    \cup AddDependencyPatch \cup RemoveDependencyPatch
Patch ==
  StructuralPatch \cup AddAssumptionPatch \cup ConfirmAssumptionPatch
    \cup ResolveOpenQuestionPatch \cup AddOpenQuestionPatch

IsStructural(p) ==
  p.op \in {"add_component", "update_component", "remove_component",
            "add_dependency", "remove_dependency"}

AddAssumption(topic, related) ==
  [op |-> "add_assumption", topic |-> topic, related |-> related]
ConfirmAssumption(id) ==
  [op |-> "confirm_assumption", id |-> id, rejected |-> FALSE,
   wellFormed |-> TRUE]
ResolveOpenQuestion(id, topic) ==
  [op |-> "resolve_open_question", id |-> id, topic |-> topic]

-----------------------------------------------------------------------------
(* patch_validator: the two gates that ask for a discussion first, and the *)
(* mechanical checks.                                                      *)
IsReplatform(m, p) ==
  /\ p.op = "update_component"
  /\ p.id \in ComponentIds(m)
  /\ m.components[p.id] # {}
  /\ ~ p.terms \subseteq m.components[p.id]

RequiresConfirmation(m, p, structural) ==
  \/ structural /\ IsStructural(p)
  \/ IsReplatform(m, p)

Matches(m, p) ==
  {d \in m.dependencies : /\ d[1] = p.source /\ d[2] = p.target
                          /\ p.kind \in {d[3], AnyKind}}

ComponentPatchValid(m, p) ==
  \/ /\ p.op = "add_component"
     /\ p.id \notin ComponentIds(m) /\ p.wellFormed
  \/ /\ p.op = "update_component"
     /\ p.id \in ComponentIds(m) /\ p.wellFormed
  \/ /\ p.op = "remove_component"
     /\ p.id \in ComponentIds(m)

DependencyPatchValid(m, p) ==
  \/ /\ p.op = "add_dependency"
     /\ {p.edge[1], p.edge[2]} \subseteq ComponentIds(m)
     /\ p.edge[1] # p.edge[2]
     /\ p.edge \notin m.dependencies
  \/ /\ p.op = "remove_dependency"
     /\ Matches(m, p) # {}
     /\ p.kind = AnyKind => \A d, e \in Matches(m, p) : d[3] = e[3]

(* Mutants of the next two definitions: each drops one check.              *)
ConfirmDecided(m, p) ==
  \/ /\ p.op = "add_assumption"
     /\ p.topic # Blank /\ p.related \subseteq ComponentIds(m)
  \/ /\ p.op = "confirm_assumption"
     /\ p.id \in DOMAIN m.assumptions /\ p.wellFormed
AddBlank(m, p) ==
  \/ p.op = "add_assumption" /\ p.related \subseteq ComponentIds(m)
  \/ /\ p.op = "confirm_assumption"
     /\ p.id \in DOMAIN m.assumptions
     /\ m.assumptions[p.id].status = "open" /\ p.wellFormed
ResolveAgain(m, p) ==
  \/ p.op = "resolve_open_question" /\ p.id \in DOMAIN m.open_questions
  \/ /\ p.op = "add_open_question"
     /\ ~ p.blank /\ p.related \subseteq ComponentIds(m)

AssumptionPatchValid(m, p) ==
  \/ /\ p.op = "add_assumption"
     /\ p.topic # Blank
     /\ p.related \subseteq ComponentIds(m)
  \/ /\ p.op = "confirm_assumption"
     /\ p.id \in DOMAIN m.assumptions
     /\ m.assumptions[p.id].status = "open"
     /\ p.wellFormed

QuestionPatchValid(m, p) ==
  \/ /\ p.op = "resolve_open_question"
     /\ p.id \in DOMAIN m.open_questions
     /\ ~ m.open_questions[p.id].resolved
  \/ /\ p.op = "add_open_question"
     /\ ~ p.blank
     /\ p.related \subseteq ComponentIds(m)

(* Mutant: a replatform is only looked for before the set is applied.      *)
StructuralGatePasses(m, p, gate) ==
  gate.approved \/ gate.resolves \/ ~ (gate.structural /\ IsStructural(p))

(* What validate_patch accepts.  A gate record says what apply_patch_set   *)
(* was called with: structural confirmation required, a resolution in the  *)
(* same set, an approval by the user.                                      *)
GatePasses(m, p, gate) ==
  \/ gate.approved \/ gate.resolves
  \/ ~ RequiresConfirmation(m, p, gate.structural)

IsValid(m, p) ==
  \/ ComponentPatchValid(m, p)
  \/ DependencyPatchValid(m, p)
  \/ AssumptionPatchValid(m, p)
  \/ QuestionPatchValid(m, p)

-----------------------------------------------------------------------------
(* patch_applier._apply_single.                                            *)
WithTerms(m, id, terms) ==
  [c \in ComponentIds(m) \cup {id} |-> IF c = id THEN terms ELSE m.components[c]]

Touches(d, id) == id \in {d[1], d[2]}

(* Mutant of the next: the dependencies stay.                              *)
WithoutCascade(m, id) ==
  [m EXCEPT !.components = [c \in ComponentIds(m) \ {id} |-> m.components[c]]]

WithoutComponent(m, id) ==
  [m EXCEPT !.components = [c \in ComponentIds(m) \ {id} |-> m.components[c]],
            !.dependencies = {d \in @ : ~ Touches(d, id)}]

WithAssumption(m, a) == [m EXCEPT !.assumptions = Append(@, a)]

Effect(m, p) ==
  CASE p.op = "add_component" ->
         [m EXCEPT !.components = WithTerms(m, p.id, p.terms)]
    [] p.op = "update_component" ->
         [m EXCEPT !.components =
            WithTerms(m, p.id, p.terms \cup (m.components[p.id] \cap p.keeps))]
    [] p.op = "remove_component" ->
         WithoutComponent(m, p.id)
    [] p.op = "add_dependency" ->
         [m EXCEPT !.dependencies = @ \cup {p.edge}]
    [] p.op = "remove_dependency" ->
         [m EXCEPT !.dependencies = @ \ Matches(m, p)]
    [] p.op = "add_assumption" ->
         WithAssumption(m, [topic |-> p.topic, status |-> "open",
                            raised_by |-> "llm", related |-> p.related])
    [] p.op = "confirm_assumption" ->
         [m EXCEPT !.assumptions[p.id].status =
                     IF p.rejected THEN "rejected" ELSE "confirmed"]
    [] p.op = "resolve_open_question" ->
         WithAssumption([m EXCEPT !.open_questions[p.id].resolved = TRUE],
                        [topic |-> p.topic, status |-> "confirmed",
                         raised_by |-> "user",
                         related |-> m.open_questions[p.id].related])
    [] p.op = "add_open_question" ->
         [m EXCEPT !.open_questions =
                     Append(@, [related |-> p.related, resolved |-> FALSE])]

ApplySingle(m, p) == [Effect(m, p) EXCEPT !.version = @ + 1]

=============================================================================
