--------------------------- MODULE MigrationWaves ---------------------------
(***************************************************************************)
(* How a plan gets its order (core/graph_engine.py), how it is assembled   *)
(* (core/plan_assembler.py) and what the deterministic review then finds   *)
(* (core/review_rules_engine.py, core/coverage_checker.py).  networkx may  *)
(* yield any topological order: one wave is placed per step, whichever can *)
(* be next.  After assembly the refine loop replans components in place.   *)
(***************************************************************************)
EXTENDS Naturals, FiniteSets

CONSTANTS
  Components,       \* what a model may be made of
  Models,           \* bound: the models that are accepted
  MaxComponents,    \* settings.max_components
  MaxDependencies,  \* settings.max_dependencies
  Retirable,        \* bound: the components the LLM may retire
  Vague,            \* bound: those whose plan may come without notes or checks
  MaxRefine         \* settings.max_refine_iterations

ASSUME WavesAssumption ==
  /\ MaxComponents \in Nat /\ MaxDependencies \in Nat /\ MaxRefine \in Nat
  /\ Retirable \subseteq Components /\ Vague \subseteq Components
  /\ \A m \in Models :
       /\ m.components \subseteq Components /\ m.components # {}
       /\ IsFiniteSet(m.components)
       /\ m.deps \subseteq m.components \X m.components
       /\ \A d \in m.deps : d[1] # d[2]
       /\ m.parallel \in Nat

VARIABLES
  model,    \* the accepted model: components, deps (source depends on target),
            \* and how many more dependencies run parallel to one of deps
  phase,    \* "sequence", "refused", "draft" or "final"
  wave,     \* component -> its wave, counted from 1; 0 when it has none yet
  waves,    \* how many waves there are
  groups,   \* wave -> its coexistence_groups, each the set of its components
  plan,     \* component -> its ComponentPlan, with its mapping's disposition
  risks,    \* cross-wave risks: a group of components each
  round     \* refinements so far

vars == << model, phase, wave, waves, groups, plan, risks, round >>

(* A ComponentPlan: its disposition, that of its ComponentMapping, and     *)
(* whether it has rollback notes and validation checks.                    *)
Disposition == {"move", "retire"}
ComponentPlan == [does : Disposition, mapped : Disposition, complete : BOOLEAN]
Output(c) == [does : IF c \in Retirable THEN Disposition ELSE {"move"},
              complete : IF c \in Vague THEN BOOLEAN ELSE {TRUE}]
Outputs(M) ==
  {os \in [M -> UNION {Output(c) : c \in M}] : \A c \in M : os[c] \in Output(c)}
NoPlans == << >>

TypeOK ==
  /\ model.components \subseteq Components
  /\ model.deps \subseteq model.components \X model.components
  /\ model.parallel \in Nat
  /\ phase \in {"sequence", "refused", "draft", "final"}
  /\ wave \in [Components -> Nat] /\ waves \in Nat
  /\ groups \in [Components -> SUBSET (SUBSET Components)]
  /\ plan = NoPlans \/ plan \in [model.components -> ComponentPlan]
  /\ risks \subseteq SUBSET Components
  /\ round \in 0 .. MaxRefine

Init ==
  /\ model \in Models
  /\ phase = "sequence"
  /\ wave = [c \in Components |-> 0] /\ waves = 0
  /\ groups = [c \in Components |-> {}]
  /\ plan = NoPlans /\ risks = {} /\ round = 0

-----------------------------------------------------------------------------
(* graph_engine.                                                           *)

(* nx.descendants with the node itself: in every set that holds a and,     *)
(* with a component, what it depends on.                                   *)
Closed(S) == \A d \in model.deps : d[1] \in S => d[2] \in S
Reaches(a, b) == \A S \in SUBSET model.components : a \in S /\ Closed(S) => b \in S

(* compute_impact.                                                         *)
Impact(c) ==
  [upstream |-> {b \in model.components \ {c} : Reaches(b, c)},
   downstream |-> {b \in model.components \ {c} : Reaches(c, b)}]

(* Mutant of the next: weakly connected instead of strongly.               *)
AnyChain(c) == {c} \cup Impact(c).upstream \cup Impact(c).downstream

(* Mutant of the next: cycles of two components only.                      *)
DirectCycle(c) ==
  {c} \cup {b \in model.components : << b, c >> \in model.deps /\ << c, b >> \in model.deps}

(* The strongly connected component of c.                                  *)
Scc(c) == {c} \cup (Impact(c).upstream \cap Impact(c).downstream)

Placed == {c \in model.components : wave[c] # 0}
Needs(M) == {d[2] : d \in {e \in model.deps : e[1] \in M}}
NeededBy(M) == {d[1] : d \in {e \in model.deps : e[2] \in M}}

WithinEnvelope ==
  /\ Cardinality(model.components) <= MaxComponents
  /\ Cardinality(model.deps) + model.parallel <= MaxDependencies

(* check_scale_envelope.                                                   *)
Refuse ==
  /\ phase = "sequence" /\ waves = 0 /\ ~ WithinEnvelope
  /\ phase' = "refused"
  /\ UNCHANGED << model, wave, waves, groups, plan, risks, round >>

(* Mutant of the next: the condensation is not reversed.                   *)
DependentsFirst(M) == NeededBy(M) \subseteq Placed \cup M

(* The order is topological on the reversed condensation.                  *)
MayBeNext(M) == Needs(M) \subseteq Placed \cup M

(* compute_sequence: the next wave, with its cycle as coexistence group.   *)
PlaceWave ==
  /\ phase = "sequence" /\ WithinEnvelope
  /\ \E c \in model.components \ Placed :
       LET M == Scc(c)
       IN  /\ MayBeNext(M)
           /\ waves' = waves + 1
           /\ wave' = [b \in Components |-> IF b \in M THEN waves + 1 ELSE wave[b]]
           /\ groups' = [b \in Components |->
                           IF b \in M /\ M # {b} THEN {M} ELSE groups[b]]
  /\ UNCHANGED << model, phase, plan, risks, round >>

(* compute_cross_wave_dependencies.                                        *)
CrossWave ==
  {{d[1], d[2]} : d \in {e \in model.deps : /\ e[1] \in Placed /\ e[2] \in Placed
                                            /\ wave[e[1]] # wave[e[2]]}}

-----------------------------------------------------------------------------
(* plan_assembler.  The groups of a wave are kept with each component of   *)
(* the wave.                                                               *)

(* Mutant of the next: the groups are computed, and written to no wave.    *)
Unattached(g) == {}

(* _attach_cross_wave_coexistence: to the waves of both ends.              *)
Attached(g) == {b \in model.components : \E c \in g : wave[b] = wave[c]}

(* The mapping and the plan of a component come from the same output.      *)
Planned(o) == [does |-> o.does, mapped |-> o.does, complete |-> o.complete]

AssemblePlan ==
  /\ phase = "sequence" /\ WithinEnvelope /\ Placed = model.components
  /\ \E os \in Outputs(model.components) :
       plan' = [c \in model.components |-> Planned(os[c])]
  /\ groups' = [b \in Components |-> groups[b] \cup {g \in CrossWave : b \in Attached(g)}]
  /\ risks' = CrossWave
  /\ phase' = "draft"
  /\ UNCHANGED << model, wave, waves, round >>

-----------------------------------------------------------------------------
(* review_rules_engine: what each rule objects to.                         *)

Retired == {c \in DOMAIN plan : plan[c].mapped = "retire"}

Rule001 == {d \in model.deps : d[1] \in Placed /\ d[2] \in Placed /\ wave[d[1]] < wave[d[2]]}
Rule002 == (model.components \ DOMAIN plan) \cup (model.components \ Placed)
Rule003 == {d \in model.deps : d[2] \in Retired /\ d[1] \notin Retired}
Rule004And005 == {c \in DOMAIN plan : ~ plan[c].complete}
Rule006 == {c \in DOMAIN plan : plan[c].does # plan[c].mapped}
Rule007 == CrossWave \ UNION {groups[c] : c \in Placed}

(* What the open findings name.                                            *)
Affected ==
  UNION {{d[1], d[2]} : d \in Rule001 \cup Rule003}
  \cup Rule002 \cup Rule004And005 \cup Rule006 \cup UNION Rule007

(* Mutant of the next: the rounds are not counted.                         *)
RefineAtWill == phase = "draft" /\ Affected # {}

(* should_continue_refining.                                               *)
MayRefine == phase = "draft" /\ round < MaxRefine /\ Affected # {}

(* refine_node: each affected component is planned again or keeps its      *)
(* plan; neither the waves nor their groups are touched.                   *)
Refine ==
  /\ MayRefine
  /\ \E replanned \in SUBSET Affected : \E os \in Outputs(replanned) :
       plan' = [c \in model.components |->
                  IF c \in replanned THEN Planned(os[c]) ELSE plan[c]]
  /\ round' = round + 1
  /\ UNCHANGED << model, phase, wave, waves, groups, risks >>

Finalize ==
  /\ phase = "draft" /\ ~ MayRefine
  /\ phase' = "final"
  /\ UNCHANGED << model, wave, waves, groups, plan, risks, round >>

Next == Refuse \/ PlaceWave \/ AssemblePlan \/ Refine \/ Finalize

Spec == Init /\ [][Next]_vars

(* The computation runs to its end.                                        *)
FairSpec == Spec /\ WF_vars(Next)

-----------------------------------------------------------------------------
(* Properties.                                                             *)

(* What is placed, is placed after all it needs: at every moment of the    *)
(* computation, whichever order networkx takes.                            *)
DependencyFirst ==
  /\ Rule001 = {}
  /\ \A c \in Placed : Needs({c}) \subseteq Placed

(* Components share a wave only when they must: every numbering that moves *)
(* no component before what it depends on gives them the same number.      *)
Numberings == {n \in [model.components -> 1 .. Cardinality(model.components)] :
                 \A d \in model.deps : n[d[2]] <= n[d[1]]}
SharedOnlyInCycles ==
  LET allowed == Numberings
  IN  \A x, y \in Placed : (wave[x] = wave[y]) = (\A n \in allowed : n[x] = n[y])

(* Of a plan that was assembled here, however it is refined, the rules on  *)
(* order, coverage, dispositions and coexistence never object to anything: *)
(* what the refine loop could not mend in any number of rounds.            *)
StructureNeverFlagged ==
  phase \in {"draft", "final"} => Rule001 = {} /\ Rule002 = {} /\ Rule006 = {} /\ Rule007 = {}

(* The sequence is computed or refused, and the plan is finished.          *)
PlanFinishes == <>(phase \in {"refused", "final"})
=============================================================================
