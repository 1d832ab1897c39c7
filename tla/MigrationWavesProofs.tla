------------------------ MODULE MigrationWavesProofs ------------------------
(***************************************************************************)
(* Proofs about MigrationWaves, for every model and every size: the order  *)
(* of the waves, what shares one, and that the structural rules of the     *)
(* review never object to a plan that was assembled, however refined; and  *)
(* that the way to it is never blocked and gets shorter with every step.   *)
(***************************************************************************)
EXTENDS MigrationWaves, FiniteSetTheorems, WellFoundedInduction, TLAPS

-----------------------------------------------------------------------------
(* Reachability.                                                           *)

LEMMA ReachesRefl == \A a : Reaches(a, a)
  BY DEF Reaches

LEMMA ReachesTrans ==
  ASSUME NEW x, NEW y, NEW z, Reaches(x, y), Reaches(y, z)
  PROVE  Reaches(x, z)
  BY DEF Reaches

(* Two components depend on each other.                                    *)
Same(x, y) == Reaches(x, y) /\ Reaches(y, x)

LEMMA SccIsSame ==
  ASSUME NEW x \in model.components, NEW y
  PROVE  y \in Scc(x) <=> y \in model.components /\ Same(x, y)
  <1>1. CASE y = x
    BY <1>1, ReachesRefl DEF Scc, Same
  <1>2. CASE y # x
    BY <1>2 DEF Scc, Impact, Same
  <1> QED  BY <1>1, <1>2

-----------------------------------------------------------------------------
(* The invariant of the waves.                                             *)

ModelOK ==
  /\ model.components \subseteq Components /\ IsFiniteSet(model.components)
  /\ model.deps \subseteq model.components \X model.components

Numbered ==
  /\ wave \in [Components -> Nat] /\ waves \in Nat
  /\ \A c \in Components : wave[c] <= waves

(* What is placed is closed under dependencies, which are never placed     *)
(* later than what needs them.                                             *)
NeedsPlaced ==
  \A x, y \in model.components : << x, y >> \in model.deps /\ wave[x] # 0 =>
    wave[y] # 0 /\ wave[y] <= wave[x]

(* A wave is a strongly connected component.                               *)
WavesAreCycles ==
  \A x, y \in model.components : wave[x] # 0 /\ wave[y] # 0 =>
    ((wave[x] = wave[y]) <=> Same(x, y))

Order == ModelOK /\ Numbered /\ NeedsPlaced /\ WavesAreCycles

LEMMA PlacedClosed ==
  ASSUME ModelOK, NeedsPlaced
  PROVE  Closed(Placed)
  BY DEF ModelOK, NeedsPlaced, Closed, Placed

(* A cycle is placed as a whole: none of it is placed when one is not.     *)
LEMMA SccUnplaced ==
  ASSUME ModelOK, NeedsPlaced, NEW x \in model.components, wave[x] = 0,
         NEW y \in Scc(x)
  PROVE  y \in model.components /\ wave[y] = 0
  <1>1. y \in model.components /\ Same(x, y)
    BY SccIsSame
  <1>2. SUFFICES ASSUME wave[y] # 0 PROVE FALSE
    BY <1>1
  <1>3. y \in Placed /\ Placed \in SUBSET model.components
    BY <1>1, <1>2 DEF Placed
  <1>4. x \in Placed
    BY <1>1, <1>3, PlacedClosed DEF Same, Reaches
  <1> QED  BY <1>4 DEF Placed

LEMMA OrderInit == Init => Order
  BY WavesAssumption DEF Init, Order, ModelOK, Numbered, NeedsPlaced, WavesAreCycles

LEMMA OrderKept ==
  ASSUME Order, UNCHANGED << model, wave, waves >>
  PROVE  Order'
  <1>1. \A x, y : Reaches(x, y)' <=> Reaches(x, y)
    BY DEF Reaches, Closed
  <1> QED
    BY <1>1 DEF Order, ModelOK, Numbered, NeedsPlaced, WavesAreCycles, Same

LEMMA OrderPlaceWave ==
  ASSUME Order, PlaceWave
  PROVE  Order'
  <1>1. PICK c \in model.components \ Placed :
          /\ MayBeNext(Scc(c))
          /\ waves' = waves + 1
          /\ wave' = [b \in Components |-> IF b \in Scc(c) THEN waves + 1 ELSE wave[b]]
    BY DEF PlaceWave
  <1> DEFINE M == Scc(c)
  <1>2. model' = model
    BY DEF PlaceWave
  <1>3. wave[c] = 0 /\ c \in model.components
    BY <1>1 DEF Placed
  <1>4. \A b \in M : b \in model.components /\ wave[b] = 0
    BY <1>3, SccUnplaced DEF Order
  <1>5. \A x \in model.components :
          x \in Components /\ wave'[x] = IF x \in M THEN waves + 1 ELSE wave[x]
    BY <1>1 DEF Order, ModelOK
  <1>6. \A x \in M, y \in model.components : << x, y >> \in model.deps => y \in M \/ wave[y] # 0
    BY <1>1, <1>3 DEF MayBeNext, Needs, Placed
  <1>7. \A x, y : Reaches(x, y)' <=> Reaches(x, y)
    BY <1>2 DEF Reaches, Closed
  <1>8. \A x, y : Same(x, y)' <=> Same(x, y)
    BY <1>7 DEF Same
  <1>9. ModelOK'
    BY <1>2 DEF Order, ModelOK
  <1>10. Numbered'
    <2> HIDE DEF M
    <2>1. waves \in Nat /\ wave \in [Components -> Nat] /\ \A b \in Components : wave[b] <= waves
      BY DEF Order, Numbered
    <2>2. wave' = [b \in Components |-> IF b \in M THEN waves + 1 ELSE wave[b]]
      BY <1>1 DEF M
    <2> QED  BY <1>1, <2>1, <2>2 DEF Numbered
  <1>11. NeedsPlaced'
    <2> SUFFICES ASSUME NEW x \in model.components, NEW y \in model.components,
                        << x, y >> \in model.deps, wave'[x] # 0
                 PROVE  wave'[y] # 0 /\ wave'[y] <= wave'[x]
      BY <1>2 DEF NeedsPlaced
    <2>1. waves \in Nat /\ wave[x] \in Nat /\ wave[y] \in Nat /\ wave[y] <= waves
      BY <1>5 DEF Order, Numbered
    <2>2. CASE x \in M
      <3>1. y \in M \/ wave[y] # 0
        BY <1>6, <2>2
      <3> HIDE DEF M
      <3> QED  BY <1>5, <2>1, <2>2, <3>1
    <2>3. CASE x \notin M
      <3>1. wave'[x] = wave[x] /\ wave[x] # 0
        BY <1>5, <2>3
      <3>2. wave[y] # 0 /\ wave[y] <= wave[x]
        BY <3>1 DEF Order, NeedsPlaced
      <3>3. wave'[y] = wave[y]
        BY <1>4, <1>5, <3>2
      <3> QED  BY <3>1, <3>2, <3>3
    <2> QED  BY <2>2, <2>3
  <1>12. WavesAreCycles'
    <2> SUFFICES ASSUME NEW x \in model.components, NEW y \in model.components,
                        wave'[x] # 0, wave'[y] # 0
                 PROVE  (wave'[x] = wave'[y]) <=> Same(x, y)
      BY <1>2, <1>8 DEF WavesAreCycles
    <2>1. waves \in Nat /\ wave[x] \in Nat /\ wave[y] \in Nat /\ wave[y] <= waves /\ wave[x] <= waves
      BY <1>5 DEF Order, Numbered
    <2>2. CASE x \in M /\ y \in M
      <3>1. Same(c, x) /\ Same(c, y)
        BY <1>3, <2>2, SccIsSame
      <3>2. Same(x, y)
        BY <3>1, ReachesTrans DEF Same
      <3> QED  BY <1>5, <2>2, <3>2
    <2>3. ASSUME NEW p \in model.components, NEW q \in M, p \notin M, wave'[p] # 0
          PROVE  wave'[p] # wave'[q] /\ ~ Reaches(p, q)
      <3>1. wave[p] # 0 /\ wave'[p] = wave[p] /\ wave'[q] = waves + 1
        BY <1>4, <1>5, <2>3
      <3>2. wave[p] <= waves /\ wave[p] \in Nat
        BY <1>5 DEF Order, Numbered
      <3>3. p \in Placed /\ Placed \in SUBSET model.components /\ Closed(Placed)
        BY <3>1, PlacedClosed DEF Placed, Order
      <3>4. q \notin Placed
        BY <1>4 DEF Placed
      <3>5. ~ Reaches(p, q)
        BY <3>3, <3>4 DEF Reaches
      <3> QED  BY <2>1, <3>1, <3>2, <3>5
    <2>4. CASE x \notin M /\ y \in M
      BY <2>3, <2>4 DEF Same
    <2>5. CASE x \in M /\ y \notin M
      BY <2>3, <2>5 DEF Same
    <2>6. CASE x \notin M /\ y \notin M
      BY <1>5, <2>6 DEF Order, WavesAreCycles
    <2> QED  BY <2>2, <2>4, <2>5, <2>6
  <1> QED  BY <1>9, <1>10, <1>11, <1>12 DEF Order

LEMMA OrderNext == Order /\ [Next]_vars => Order'
  <1> SUFFICES ASSUME Order, [Next]_vars PROVE Order'
    OBVIOUS
  <1>1. CASE PlaceWave
    BY <1>1, OrderPlaceWave
  <1>2. CASE UNCHANGED << model, wave, waves >>
    BY <1>2, OrderKept
  <1> QED
    BY <1>1, <1>2 DEF Next, Refuse, AssemblePlan, Refine, Finalize, vars

LEMMA OrderInvariant == Spec => []Order
  BY OrderInit, OrderNext, PTL DEF Spec

-----------------------------------------------------------------------------
(* What follows of the order.                                              *)

LEMMA OrderIsDependencyFirst == Order => DependencyFirst
  <1> SUFFICES ASSUME Order PROVE DependencyFirst
    OBVIOUS
  <1>1. Rule001 = {}
    <2> SUFFICES ASSUME NEW d \in model.deps, d[1] \in Placed, d[2] \in Placed,
                        wave[d[1]] < wave[d[2]]
                 PROVE  FALSE
      BY DEF Rule001
    <2>1. d[1] \in model.components /\ d[2] \in model.components /\ d = << d[1], d[2] >>
      BY DEF Order, ModelOK
    <2>2. wave[d[2]] <= wave[d[1]]
      BY <2>1 DEF Order, NeedsPlaced, Placed
    <2>3. wave[d[1]] \in Nat /\ wave[d[2]] \in Nat
      BY <2>1 DEF Order, ModelOK, Numbered
    <2> QED  BY <2>2, <2>3
  <1>2. \A c \in Placed : Needs({c}) \subseteq Placed
    BY PlacedClosed DEF Order, Closed, Needs
  <1> QED  BY <1>1, <1>2 DEF DependencyFirst

(* compute_sequence never places a component before what it depends on,    *)
(* whichever topological order networkx takes, for models of any size.     *)
THEOREM WavesFollowDependencies == Spec => []DependencyFirst
  BY OrderInvariant, OrderIsDependencyFirst, PTL

(* What depends on each other is given one number by every numbering.      *)
LEMMA NumberingOfSame ==
  ASSUME ModelOK, NEW x \in model.components, NEW y \in model.components, Reaches(x, y),
         NEW n \in Numberings
  PROVE  n[y] <= n[x]
  <1> DEFINE S == {b \in model.components : n[b] <= n[x]}
  <1>1. n \in [model.components -> Nat] /\ \A d \in model.deps : n[d[2]] <= n[d[1]]
    BY DEF Numberings
  <1>2. Closed(S)
    <2> SUFFICES ASSUME NEW d \in model.deps, d[1] \in S PROVE d[2] \in S
      BY DEF Closed
    <2>1. d[1] \in model.components /\ d[2] \in model.components
      BY DEF ModelOK
    <2>2. n[d[1]] \in Nat /\ n[d[2]] \in Nat /\ n[x] \in Nat
      BY <1>1, <2>1
    <2> QED  BY <1>1, <2>1, <2>2
  <1>3. x \in S /\ S \in SUBSET model.components
    BY <1>1
  <1>4. y \in S
    <2> HIDE DEF S
    <2> QED  BY <1>2, <1>3 DEF Reaches
  <1> QED  BY <1>4

(* What does not is told apart by one of them.                             *)
LEMMA NumberingApart ==
  ASSUME ModelOK, NEW x \in model.components, NEW y \in model.components, ~ Reaches(x, y)
  PROVE  \E n \in Numberings : n[x] # n[y]
  <1>1. PICK S \in SUBSET model.components : x \in S /\ Closed(S) /\ y \notin S
    BY DEF Reaches
  <1> DEFINE n == [b \in model.components |-> IF b \in S THEN 1 ELSE 2]
  <1>2. Cardinality(model.components) \in Nat /\ 2 <= Cardinality(model.components)
    <2>1. {x, y} \subseteq model.components /\ x # y /\ IsFiniteSet(model.components)
      BY <1>1 DEF ModelOK
    <2>2. Cardinality({x, y}) = 2
      <3>1. IsFiniteSet({x}) /\ Cardinality({x}) = 1
        BY FS_Singleton
      <3>2. Cardinality({x} \cup {y}) = 2
        <4>1. y \notin {x}
          BY <2>1
        <4>2. Cardinality({x} \cup {y}) = Cardinality({x}) + 1
          BY <3>1, <4>1, FS_AddElement
        <4> QED  BY <3>1, <4>2
      <3>3. {x} \cup {y} = {x, y}
        OBVIOUS
      <3> QED  BY <3>2, <3>3
    <2>3. Cardinality({x, y}) <= Cardinality(model.components)
      BY <2>1, FS_Subset
    <2>4. Cardinality(model.components) \in Nat
      BY <2>1, FS_CardinalityType
    <2> QED  BY <2>2, <2>3, <2>4
  <1>3. n \in [model.components -> 1 .. Cardinality(model.components)]
    BY <1>2
  <1>4. \A d \in model.deps : n[d[2]] <= n[d[1]]
    <2> SUFFICES ASSUME NEW d \in model.deps PROVE n[d[2]] <= n[d[1]]
      OBVIOUS
    <2>1. d[1] \in model.components /\ d[2] \in model.components
      BY DEF ModelOK
    <2> QED  BY <1>1, <2>1 DEF Closed
  <1>5. n \in Numberings
    <2> HIDE DEF n
    <2> QED  BY <1>3, <1>4 DEF Numberings
  <1>6. n[x] = 1 /\ n[y] = 2
    BY <1>1
  <1> QED  BY <1>5, <1>6

LEMMA OrderIsShared == Order => SharedOnlyInCycles
  <1> SUFFICES ASSUME Order, NEW x \in Placed, NEW y \in Placed
               PROVE  (wave[x] = wave[y]) <=> (\A n \in Numberings : n[x] = n[y])
    BY DEF SharedOnlyInCycles
  <1>1. x \in model.components /\ y \in model.components /\ ModelOK
    BY DEF Placed, Order
  <1>2. (wave[x] = wave[y]) <=> Same(x, y)
    BY <1>1 DEF Order, WavesAreCycles, Placed
  <1>3. ASSUME Same(x, y) PROVE \A n \in Numberings : n[x] = n[y]
    <2> SUFFICES ASSUME NEW n \in Numberings PROVE n[x] = n[y]
      OBVIOUS
    <2>1. n[x] <= n[y] /\ n[y] <= n[x]
      BY <1>1, <1>3, NumberingOfSame DEF Same
    <2>2. n[x] \in Int /\ n[y] \in Int
      BY <1>1 DEF Numberings
    <2> QED  BY <2>1, <2>2
  <1>4. ASSUME ~ Same(x, y) PROVE \E n \in Numberings : n[x] # n[y]
    BY <1>1, <1>4, NumberingApart DEF Same
  <1> QED  BY <1>2, <1>3, <1>4

(* Components share a wave exactly when every order that respects the      *)
(* dependencies puts them together: compute_sequence never merges what     *)
(* could be moved apart, and never splits a cycle.                         *)
THEOREM WavesAreSmallest == Spec => []SharedOnlyInCycles
  BY OrderInvariant, OrderIsShared, PTL

-----------------------------------------------------------------------------
(* The assembled plan.                                                     *)

(* The invariant of the plan: from its assembly on, everything is placed   *)
(* and planned, dispositions agree, and each cross-wave dependency is a    *)
(* coexistence group of some wave.                                         *)
Agreeing == {p \in ComponentPlan : p.does = p.mapped}

Whole ==
  phase \in {"draft", "final"} =>
    /\ Placed = model.components
    /\ plan \in [model.components -> Agreeing]
    /\ CrossWave \subseteq UNION {groups[c] : c \in Placed}

LEMMA OutputsArePlans ==
  ASSUME NEW M, NEW os \in Outputs(M), NEW c \in M
  PROVE  Planned(os[c]) \in Agreeing
  <1>1. os[c] \in Output(c)
    BY DEF Outputs
  <1>2. os[c].does \in Disposition /\ os[c].complete \in BOOLEAN
    BY <1>1 DEF Output, Disposition
  <1> QED  BY <1>2 DEF Planned, Agreeing, ComponentPlan

LEMMA CrossWaveOfComponents ==
  ASSUME ModelOK
  PROVE  CrossWave \subseteq SUBSET Components
  BY DEF CrossWave, ModelOK

LEMMA TypeInit == Init => TypeOK /\ Whole
  BY WavesAssumption DEF Init, TypeOK, Whole, NoPlans

LEMMA TypeNext ==
  ASSUME TypeOK, Order, Whole, [Next]_vars
  PROVE  TypeOK'
  <1> USE DEF TypeOK
  <1>1. CASE Refuse
    BY <1>1 DEF Refuse
  <1>2. CASE PlaceWave
    <2>1. PICK c \in model.components \ Placed :
            /\ waves' = waves + 1
            /\ wave' = [b \in Components |-> IF b \in Scc(c) THEN waves + 1 ELSE wave[b]]
            /\ groups' = [b \in Components |->
                            IF b \in Scc(c) /\ Scc(c) # {b} THEN {Scc(c)} ELSE groups[b]]
      BY <1>2 DEF PlaceWave
    <2>2. Scc(c) \subseteq Components
      BY SccIsSame DEF Order, ModelOK
    <2>3. waves' \in Nat /\ wave' \in [Components -> Nat]
      BY <2>1
    <2>4. groups' \in [Components -> SUBSET (SUBSET Components)]
      BY <2>1, <2>2
    <2> QED  BY <1>2, <2>3, <2>4 DEF PlaceWave
  <1>3. CASE AssemblePlan
    <2>1. CrossWave \subseteq SUBSET Components
      BY CrossWaveOfComponents DEF Order
    <2>2. groups' = [b \in Components |-> groups[b] \cup {g \in CrossWave : b \in Attached(g)}]
      BY <1>3 DEF AssemblePlan
    <2>3. groups' \in [Components -> SUBSET (SUBSET Components)]
      BY <2>1, <2>2
    <2>4. plan' \in [model.components -> ComponentPlan]
      <3>1. PICK os \in Outputs(model.components) :
              plan' = [c \in model.components |-> Planned(os[c])]
        BY <1>3 DEF AssemblePlan
      <3> QED  BY <3>1, OutputsArePlans DEF Agreeing
    <2> QED  BY <1>3, <2>1, <2>3, <2>4 DEF AssemblePlan
  <1>4. CASE Refine
    <2>1. PICK replanned \in SUBSET Affected : \E os \in Outputs(replanned) :
            plan' = [c \in model.components |->
                       IF c \in replanned THEN Planned(os[c]) ELSE plan[c]]
      BY <1>4 DEF Refine
    <2>2. PICK os \in Outputs(replanned) :
            plan' = [c \in model.components |->
                       IF c \in replanned THEN Planned(os[c]) ELSE plan[c]]
      BY <2>1
    <2>3. plan \in [model.components -> ComponentPlan]
      BY <1>4 DEF Refine, MayRefine, Whole, Agreeing
    <2>4. plan' \in [model.components -> ComponentPlan]
      BY <2>2, <2>3, OutputsArePlans DEF Agreeing
    <2>5. round' \in 0 .. MaxRefine
      BY <1>4, WavesAssumption DEF Refine, MayRefine
    <2> QED  BY <1>4, <2>4, <2>5 DEF Refine
  <1>5. CASE Finalize
    BY <1>5 DEF Finalize
  <1>6. CASE UNCHANGED vars
    BY <1>6 DEF vars
  <1> QED  BY <1>1, <1>2, <1>3, <1>4, <1>5, <1>6 DEF Next

LEMMA WholeNext ==
  ASSUME TypeOK, Order, Whole, [Next]_vars
  PROVE  Whole'
  <1>1. CASE Refuse
    BY <1>1 DEF Refuse, Whole
  <1>2. CASE PlaceWave
    BY <1>2 DEF PlaceWave, Whole
  <1>3. CASE AssemblePlan
    <2>1. /\ model' = model /\ wave' = wave /\ phase' = "draft"
          /\ Placed = model.components
          /\ groups' = [b \in Components |-> groups[b] \cup {g \in CrossWave : b \in Attached(g)}]
      BY <1>3 DEF AssemblePlan
    <2>2. Placed' = Placed /\ CrossWave' = CrossWave
      BY <2>1 DEF Placed, CrossWave
    <2>3. PICK os \in Outputs(model.components) :
            plan' = [c \in model.components |-> Planned(os[c])]
      BY <1>3 DEF AssemblePlan
    <2>4. plan' \in [model.components -> Agreeing]
      BY <2>3, OutputsArePlans
    <2>5. ASSUME NEW g \in CrossWave
          PROVE  \E c \in Placed : g \in groups'[c]
      <3>1. PICK d \in model.deps : d[1] \in Placed /\ g = {d[1], d[2]}
        BY DEF CrossWave
      <3>2. d[1] \in model.components /\ d[1] \in Components
        BY <2>1, <3>1 DEF Order, ModelOK
      <3>3. d[1] \in Attached(g)
        BY <3>1, <3>2 DEF Attached
      <3>4. g \in groups'[d[1]]
        BY <2>1, <3>2, <3>3
      <3> QED  BY <3>1, <3>4
    <2>6. CrossWave' \subseteq UNION {groups'[c] : c \in Placed'}
      BY <2>2, <2>5
    <2>7. Placed' = model'.components /\ plan' \in [model'.components -> Agreeing]
      BY <2>1, <2>2, <2>4
    <2> QED  BY <2>6, <2>7 DEF Whole
  <1>4. CASE Refine
    <2>1. /\ UNCHANGED << model, wave, groups, phase >> /\ phase = "draft"
          /\ plan \in [model.components -> Agreeing]
      BY <1>4 DEF Refine, MayRefine, Whole
    <2>2. PICK replanned \in SUBSET Affected : \E os \in Outputs(replanned) :
            plan' = [c \in model.components |->
                       IF c \in replanned THEN Planned(os[c]) ELSE plan[c]]
      BY <1>4 DEF Refine
    <2>3. PICK os \in Outputs(replanned) :
            plan' = [c \in model.components |->
                       IF c \in replanned THEN Planned(os[c]) ELSE plan[c]]
      BY <2>2
    <2>4. plan' \in [model.components -> Agreeing]
      BY <2>1, <2>3, OutputsArePlans
    <2>5. Placed' = Placed /\ CrossWave' = CrossWave
      BY <2>1 DEF Placed, CrossWave
    <2> QED  BY <2>1, <2>4, <2>5 DEF Whole
  <1>5. CASE Finalize
    BY <1>5 DEF Finalize, MayRefine, Whole, Placed, CrossWave
  <1>6. CASE UNCHANGED vars
    BY <1>6 DEF vars, Whole, Placed, CrossWave
  <1> QED  BY <1>1, <1>2, <1>3, <1>4, <1>5, <1>6 DEF Next

LEMMA PlanInvariant == Spec => [](TypeOK /\ Order /\ Whole)
  <1>1. Init => TypeOK /\ Order /\ Whole
    BY TypeInit, OrderInit
  <1>2. TypeOK /\ Order /\ Whole /\ [Next]_vars => (TypeOK /\ Order /\ Whole)'
    BY TypeNext, OrderNext, WholeNext
  <1> QED  BY <1>1, <1>2, PTL DEF Spec

(* The variables keep their types: no plan for what is not in the model,   *)
(* and no more rounds of refinement than the settings allow.               *)
THEOREM TypeCorrect == Spec => []TypeOK
  BY PlanInvariant, PTL

(* The rules on order, coverage, dispositions and coexistence never object *)
(* to a plan that assemble_plan made, however often it is refined: the     *)
(* refine loop is never asked for what it cannot mend.                     *)
THEOREM StructureHolds == Spec => []StructureNeverFlagged
  <1>1. ASSUME TypeOK, Order, Whole
        PROVE  StructureNeverFlagged
    <2> SUFFICES ASSUME phase \in {"draft", "final"}
                 PROVE  Rule001 = {} /\ Rule002 = {} /\ Rule006 = {} /\ Rule007 = {}
      BY DEF StructureNeverFlagged
    <2>1. /\ Placed = model.components /\ plan \in [model.components -> Agreeing]
          /\ CrossWave \subseteq UNION {groups[c] : c \in Placed}
      BY <1>1 DEF Whole
    <2>2. Rule001 = {}
      BY <1>1, OrderIsDependencyFirst DEF DependencyFirst
    <2>3. Rule002 = {}
      BY <2>1 DEF Rule002
    <2>4. Rule006 = {}
      BY <2>1 DEF Rule006, Agreeing
    <2>5. Rule007 = {}
      BY <2>1 DEF Rule007
    <2> QED  BY <2>2, <2>3, <2>4, <2>5
  <1> QED  BY <1>1, PlanInvariant, PTL

-----------------------------------------------------------------------------
(* Progress.  PlanFinishes is beyond the prover, but not what it rests on: *)
(* a wave can be placed as long as a component has none, and every step    *)
(* takes from a natural number.                                            *)

(* A finite family of sets of components has a member that no other member *)
(* is strictly inside of.                                                  *)
LEMMA SmallestMember ==
  ASSUME NEW S, IsFiniteSet(S), NEW F \in SUBSET (SUBSET S), F # {}
  PROVE  \E T \in F : \A U \in F : U \subseteq T => U = T
  <1> DEFINE R == StrictSubsetOrdering(S)
  <1>1. IsWellFoundedOn(R, SUBSET S)
    BY FS_StrictSubsetOrderingWellFounded, FS_FiniteSubsetsOfFinite
  <1> HIDE DEF R
  <1>2. \E T \in F : \A U \in F : ~ (<< U, T >> \in R)
    BY <1>1, WFMin
  <1>3. PICK T \in F : \A U \in F : ~ (<< U, T >> \in R)
    BY <1>2
  <1>4. ASSUME NEW U \in F, U \subseteq T, U # T
        PROVE  FALSE
    <2>1. << U, T >> \in R
      BY <1>4 DEF R, StrictSubsetOrdering
    <2> QED  BY <1>3, <2>1
  <1> QED  BY <1>3, <1>4

(* What a component needs, with all that this needs.                       *)
Below(b) == {x \in model.components : Reaches(b, x)}

LEMMA BelowClosed ==
  ASSUME ModelOK, NEW b \in model.components
  PROVE  b \in Below(b) /\ Closed(Below(b)) /\ Below(b) \in SUBSET model.components
  <1>1. ASSUME NEW d \in model.deps, d[1] \in Below(b)
        PROVE  d[2] \in Below(b)
    <2>1. d[2] \in model.components /\ Reaches(b, d[1])
      BY <1>1 DEF ModelOK, Below
    <2>2. Reaches(d[1], d[2])
      BY DEF Reaches, Closed
    <2> QED  BY <2>1, <2>2, ReachesTrans DEF Below
  <1> QED  BY <1>1, ReachesRefl DEF Below, Closed

(* Whatever is placed so far, some cycle of what is not needs nothing but  *)
(* itself and what is placed: it is found in a smallest closed set that is *)
(* not placed as a whole.                                                  *)
LEMMA NextWave ==
  ASSUME ModelOK, Placed # model.components
  PROVE  \E c \in model.components \ Placed : MayBeNext(Scc(c))
  <1> DEFINE M == model.components
             F == {S \in SUBSET M : Closed(S) /\ ~ S \subseteq Placed}
  <1>1. M \in F
    BY DEF ModelOK, Closed, Placed
  <1>2. IsFiniteSet(M) /\ F \in SUBSET (SUBSET M) /\ F # {}
    BY <1>1 DEF ModelOK
  <1>3. \E S \in F : \A U \in F : U \subseteq S => U = S
    <2> HIDE DEF F, M
    <2> QED  BY <1>2, SmallestMember
  <1>4. PICK S \in F : \A U \in F : U \subseteq S => U = S
    BY <1>3
  <1>5. PICK c \in S : c \notin Placed
    BY <1>4
  <1>6. c \in M \ Placed /\ S \in SUBSET M /\ Closed(S)
    BY <1>4, <1>5
  <1>7. ASSUME NEW d \in model.deps, d[1] \in Scc(c), d[2] \notin Placed
        PROVE  d[2] \in Scc(c)
    <2> DEFINE T == Below(d[2])
    <2>1. d[1] \in M /\ d[2] \in M /\ Same(c, d[1])
      BY <1>6, <1>7, SccIsSame DEF ModelOK
    <2>2. Reaches(d[1], d[2])
      BY DEF Reaches, Closed
    <2>3. Reaches(c, d[2])
      BY <2>1, <2>2, ReachesTrans DEF Same
    <2>4. d[2] \in S
      BY <1>5, <1>6, <2>3 DEF Reaches
    <2>5. \A x \in T : x \in S
      BY <1>6, <2>4 DEF Below, Reaches
    <2>6. T \in F
      BY <1>7, <2>1, BelowClosed
    <2>7. c \in T
      BY <1>4, <1>5, <2>5, <2>6
    <2>8. Same(c, d[2])
      BY <2>3, <2>7 DEF Below, Same
    <2> QED  BY <1>6, <2>1, <2>8, SccIsSame
  <1>8. MayBeNext(Scc(c))
    BY <1>7 DEF MayBeNext, Needs
  <1> QED  BY <1>6, <1>8

(* compute_sequence never gets stuck: a model is refused before its first  *)
(* wave or never, and until all is placed some wave can be, in every graph *)
(* and whatever order was chosen so far.                                   *)
NeverStuck ==
  phase = "sequence" =>
    \/ ~ WithinEnvelope /\ waves = 0
    \/ WithinEnvelope /\ Placed = model.components /\ Outputs(model.components) # {}
    \/ WithinEnvelope /\ \E c \in model.components \ Placed : MayBeNext(Scc(c))

RefusedAtOnce == waves # 0 => WithinEnvelope

LEMMA RefusedAtOnceInvariant == Spec => []RefusedAtOnce
  <1>1. Init => RefusedAtOnce
    BY DEF Init, RefusedAtOnce
  <1>2. RefusedAtOnce /\ [Next]_vars => RefusedAtOnce'
    BY DEF RefusedAtOnce, WithinEnvelope, Next, Refuse, PlaceWave, AssemblePlan, Refine, Finalize,
           vars
  <1> QED  BY <1>1, <1>2, PTL DEF Spec

LEMMA OutputsExist ==
  ASSUME NEW M
  PROVE  Outputs(M) # {}
  <1> DEFINE o == [does |-> "move", complete |-> TRUE]
             os == [c \in M |-> o]
  <1>1. \A c \in M : o \in Output(c)
    BY DEF Output, Disposition
  <1>2. os \in [M -> UNION {Output(c) : c \in M}] /\ \A c \in M : os[c] = o
    BY <1>1
  <1>3. os \in Outputs(M)
    BY <1>1, <1>2 DEF Outputs
  <1> QED  BY <1>3

(* The computation of the order comes to its end in every graph, with      *)
(* cycles or without: as long as it has not, it has a next step.           *)
THEOREM SequenceNeverStuck == Spec => []NeverStuck
  <1>1. Order /\ RefusedAtOnce => NeverStuck
    BY NextWave, OutputsExist DEF Order, RefusedAtOnce, NeverStuck
  <1> QED  BY <1>1, OrderInvariant, RefusedAtOnceInvariant, PTL

(* How many steps are left at most: the components without a wave, the     *)
(* refinements, and the ends of the phases.                                *)
StepsLeft ==
  CASE phase = "sequence" -> Cardinality(model.components \ Placed) + MaxRefine + 2
    [] phase = "draft"    -> (MaxRefine - round) + 1
    [] OTHER              -> 0

LEMMA UnplacedCounted ==
  ASSUME ModelOK
  PROVE  IsFiniteSet(model.components \ Placed) /\ Cardinality(model.components \ Placed) \in Nat
  BY FS_Difference, FS_CardinalityType DEF ModelOK

LEMMA PlacedFewer ==
  ASSUME Order, PlaceWave
  PROVE  /\ Cardinality(model.components \ Placed)' \in Nat
         /\ Cardinality(model.components \ Placed)' < Cardinality(model.components \ Placed)
  <1> DEFINE U == model.components \ Placed
             V == U'
  <1>1. model' = model /\ Order'
    BY OrderPlaceWave DEF PlaceWave
  <1>2. PICK c \in U : wave' = [b \in Components |-> IF b \in Scc(c) THEN waves + 1 ELSE wave[b]]
    BY DEF PlaceWave
  <1>3. c \in Scc(c) /\ waves \in Nat /\ \A b \in model.components : b \in Components
    BY DEF Scc, Order, Numbered, ModelOK
  <1>4. wave'[c] # 0 /\ \A b \in model.components : wave[b] # 0 => wave'[b] # 0
    BY <1>2, <1>3
  <1>5. V \subseteq U /\ c \in U /\ c \notin V
    BY <1>1, <1>2, <1>4 DEF Placed
  <1>6. IsFiniteSet(U)
    BY UnplacedCounted DEF Order
  <1> HIDE DEF U, V
  <1>7. IsFiniteSet(V) /\ Cardinality(V) <= Cardinality(U) /\ (Cardinality(V) = Cardinality(U) => V = U)
    BY <1>5, <1>6, FS_Subset
  <1>8. Cardinality(V) \in Nat /\ Cardinality(U) \in Nat
    BY <1>6, <1>7, FS_CardinalityType
  <1>9. Cardinality(V) < Cardinality(U)
    BY <1>5, <1>7, <1>8
  <1> QED  BY <1>8, <1>9 DEF U, V

(* Every step, a refinement too, leaves fewer to do, so a plan of n        *)
(* components is final after n + MaxRefine + 2 steps at the latest.        *)
PlanAdvances == [][StepsLeft' < StepsLeft]_vars

LEMMA StepTaken ==
  ASSUME TypeOK, Order, Next
  PROVE  StepsLeft' < StepsLeft
  <1>1. /\ MaxRefine \in Nat /\ round \in 0 .. MaxRefine /\ ModelOK
        /\ phase \in {"sequence", "refused", "draft", "final"}
    BY WavesAssumption DEF TypeOK, Order
  <1> DEFINE n == Cardinality(model.components \ Placed)
  <1>2. n \in Nat
    BY <1>1, UnplacedCounted
  <1>3. CASE Refuse
    BY <1>1, <1>2, <1>3 DEF Refuse, StepsLeft
  <1>4. CASE PlaceWave
    <2>1. n' \in Nat /\ n' < n /\ phase = "sequence" /\ phase' = "sequence"
      BY <1>4, PlacedFewer DEF PlaceWave
    <2>2. StepsLeft = n + MaxRefine + 2 /\ StepsLeft' = n' + MaxRefine + 2
      BY <2>1 DEF StepsLeft
    <2>3. \A a, b \in Nat : a < b => a + MaxRefine + 2 < b + MaxRefine + 2
      BY <1>1
    <2> HIDE DEF n
    <2> QED  BY <1>2, <2>1, <2>2, <2>3
  <1>5. CASE AssemblePlan
    BY <1>1, <1>2, <1>5 DEF AssemblePlan, StepsLeft
  <1>6. CASE Refine
    BY <1>1, <1>6 DEF Refine, MayRefine, StepsLeft
  <1>7. CASE Finalize
    BY <1>1, <1>7 DEF Finalize, StepsLeft
  <1> QED  BY <1>3, <1>4, <1>5, <1>6, <1>7 DEF Next

(* What PlanFinishes rests on, for models of any size: no step leaves as   *)
(* much to do as there was.                                                *)
THEOREM EachStepCounts == Spec => PlanAdvances
  <1>1. TypeOK /\ Order /\ [Next]_vars => [StepsLeft' < StepsLeft]_vars
    BY StepTaken
  <1>2. Spec => [](TypeOK /\ Order)
    BY PlanInvariant, PTL
  <1> QED  BY <1>1, <1>2, PTL DEF Spec, PlanAdvances

=============================================================================
