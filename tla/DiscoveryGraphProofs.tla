------------------------ MODULE DiscoveryGraphProofs ------------------------
(***************************************************************************)
(* Proofs about DiscoveryGraph, for any components, accounts, readings and *)
(* verdicts, however the requests on the cache of connections interleave   *)
(* with the nodes, and wherever turns die; and what a turn may leave       *)
(* unsaved.                                                                *)
(***************************************************************************)
EXTENDS DiscoveryGraph, FiniteSetTheorems, TLAPS

-----------------------------------------------------------------------------
(* The invariant.                                                          *)

(* The gaps that generate_questions works on: those of the model's own     *)
(* open questions can all be resolved.                                     *)
Open(m) == Some("question", m.questions)

GapsFit(s) ==
  /\ s.gaps \in SUBSET Gap /\ IsFiniteSet(s.gaps)
  /\ {g \in s.gaps : g[1] = "question"} \subseteq Open(s.model)
  /\ s.model.greenfield => \A g \in s.gaps : g[1] # "environment"

(* What a node can rely on.                                                *)
Flow ==
  /\ at = "fetch" => scan \in Accounts
  /\ at = "generate_questions" => GapsFit(state)

IInv == TypeOK /\ PatchesOfThisTurn /\ Flow

-----------------------------------------------------------------------------
(* Facts about the data.                                                   *)

LEMMA SomeGaps ==
  ASSUME NEW category \in Categories, NEW n \in Nat
  PROVE  /\ Some(category, n) \subseteq Gap
         /\ \A g \in Some(category, n) : g[1] = category
         /\ IsFiniteSet(Some(category, n)) /\ Cardinality(Some(category, n)) <= n
  <1> DEFINE S == Some(category, n)
             f == [g \in S |-> g[2]]
  <1>1. \A g \in S : g = << category, g[2] >> /\ g[1] = category /\ g[2] \in 1 .. n
    BY DEF Some
  <1>2. S \subseteq Gap
    BY <1>1 DEF Gap, Some
  <1>3. f \in Injection(S, 1 .. n)
    BY <1>1 DEF Injection, IsInjective
  <1>4. IsFiniteSet(1 .. n) /\ Cardinality(1 .. n) = n
    BY FS_Interval
  <1>5. IsFiniteSet(S) /\ Cardinality(S) <= n
    BY <1>3, <1>4, FS_Injection
  <1> QED
    BY <1>1, <1>2, <1>5

LEMMA OneGap ==
  ASSUME NEW condition \in BOOLEAN, NEW category \in Categories
  PROVE  /\ If(condition, category) \subseteq Gap
         /\ \A g \in If(condition, category) : g[1] = category
         /\ IsFiniteSet(If(condition, category))
  BY SomeGaps, FS_EmptySet DEF If

LEMMA FoundGaps ==
  ASSUME NEW m \in Model, NEW v \in Verdict
  PROVE  /\ Found(m, v) \subseteq Gap
         /\ IsFiniteSet(Found(m, v))
         /\ {g \in Found(m, v) : g[1] = "question"} \subseteq Open(m)
  <1> DEFINE A == Some("question", m.questions)
             B == Some("grave", v.grave)
             C == Some("mild", v.mild)
             D == Some("unconfirmed", m.unsure)
             E == If(Sparse(m), "sparse")
             F == If(Cardinality(m.components) > 1 /\ ~ m.components \subseteq m.linked, "orphan")
             G == If(~ m.components \subseteq m.hosted, "environment")
             H == If(~ m.components \subseteq m.rated, "criticality")
  <1>1. m.questions \in Nat /\ m.unsure \in Nat /\ v.grave \in Nat /\ v.mild \in Nat
    BY DEF Model, Verdict
  <1>2. Sparse(m) \in BOOLEAN
    BY DEF Sparse, Undetailed, Model
  <1>3. A \subseteq Gap /\ IsFiniteSet(A)
    BY <1>1, SomeGaps DEF Categories
  <1>4. B \subseteq Gap /\ IsFiniteSet(B) /\ \A g \in B : g[1] = "grave"
    BY <1>1, SomeGaps DEF Categories
  <1>5. C \subseteq Gap /\ IsFiniteSet(C) /\ \A g \in C : g[1] = "mild"
    BY <1>1, SomeGaps DEF Categories
  <1>6. D \subseteq Gap /\ IsFiniteSet(D) /\ \A g \in D : g[1] = "unconfirmed"
    BY <1>1, SomeGaps DEF Categories
  <1>7. E \subseteq Gap /\ IsFiniteSet(E) /\ \A g \in E : g[1] = "sparse"
    BY <1>2, OneGap DEF Categories
  <1>8. F \subseteq Gap /\ IsFiniteSet(F) /\ \A g \in F : g[1] = "orphan"
    BY OneGap DEF Categories
  <1>9. G \subseteq Gap /\ IsFiniteSet(G) /\ \A g \in G : g[1] = "environment"
    BY OneGap DEF Categories
  <1>10. H \subseteq Gap /\ IsFiniteSet(H) /\ \A g \in H : g[1] = "criticality"
    BY OneGap DEF Categories
  <1>11. Found(m, v) = A \cup B \cup C \cup D \cup E \cup F \cup G \cup H
    BY DEF Found
  <1>12. Open(m) = A
    BY DEF Open
  <1> HIDE DEF A, B, C, D, E, F, G, H
  <1>13. IsFiniteSet(A \cup B \cup C \cup D \cup E \cup F \cup G \cup H)
    <2>1. IsFiniteSet(A \cup B)
      BY <1>3, <1>4, FS_Union
    <2>2. IsFiniteSet(A \cup B \cup C)
      BY <2>1, <1>5, FS_Union
    <2>3. IsFiniteSet(A \cup B \cup C \cup D)
      BY <2>2, <1>6, FS_Union
    <2>4. IsFiniteSet(A \cup B \cup C \cup D \cup E)
      BY <2>3, <1>7, FS_Union
    <2>5. IsFiniteSet(A \cup B \cup C \cup D \cup E \cup F)
      BY <2>4, <1>8, FS_Union
    <2>6. IsFiniteSet(A \cup B \cup C \cup D \cup E \cup F \cup G)
      BY <2>5, <1>9, FS_Union
    <2> QED
      BY <2>6, <1>10, FS_Union
  <1>14. Found(m, v) \subseteq Gap
    BY <1>11, <1>3, <1>4, <1>5, <1>6, <1>7, <1>8, <1>9, <1>10
  <1>15. {g \in Found(m, v) : g[1] = "question"} \subseteq Open(m)
    BY <1>11, <1>12, <1>4, <1>5, <1>6, <1>7, <1>8, <1>9, <1>10
  <1> QED
    BY <1>11, <1>13, <1>14, <1>15

LEMMA GapsOfCoverage ==
  ASSUME NEW s \in GraphState, NEW v \in Verdict
  PROVE  LET gaps == Adapted(s, TopFive(Found(s.model, v)))
         IN  /\ gaps \in SUBSET Gap /\ IsFiniteSet(gaps)
             /\ {g \in gaps : g[1] = "question"} \subseteq Open(s.model)
             /\ s.model.greenfield => \A g \in gaps : g[1] # "environment"
  <1> DEFINE found == Found(s.model, v)
             gaps == Adapted(s, TopFive(found))
  <1>1. s.model \in Model
    BY DEF GraphState
  <1>2. /\ found \subseteq Gap /\ IsFiniteSet(found)
        /\ {g \in found : g[1] = "question"} \subseteq Open(s.model)
    BY <1>1, FoundGaps
  <1>3. gaps \subseteq found
    BY DEF Adapted, WithoutHosting, TopFive
  <1>4. s.model.greenfield => \A g \in gaps : g[1] # "environment"
    BY DEF Adapted, WithoutHosting
  <1>5. IsFiniteSet(gaps)
    BY <1>2, <1>3, FS_Subset
  <1> QED
    BY <1>2, <1>3, <1>4, <1>5

(* A model whose facts are changed is a model.                             *)
LEMMA ModelOfFacts ==
  ASSUME NEW m \in Model, NEW version \in Nat, NEW unsure \in Nat, NEW questions \in Nat,
         NEW noted \in BOOLEAN
  PROVE  [m EXCEPT !.version = version, !.unsure = unsure, !.questions = questions,
                   !.noted = noted] \in Model
  BY DEF Model

(* k questions are resolved and a assumptions are added.                   *)
LEMMA CarriedForm ==
  ASSUME NEW m, NEW gaps, NEW e \in Carried(m, gaps)
  PROVE  \E k \in 0 .. Count(gaps, "question"),
            a \in 0 .. (Cardinality(gaps) - Count(gaps, "question")) :
           /\ k = 0 => Count(gaps, "question") = 0
           /\ e = CarriedOver(m, Count(gaps, "question"), k, a)
  <1> DEFINE q == Count(gaps, "question")
             c == Cardinality(gaps)
             K == {n \in 0 .. q : n = 0 => q = 0}
             A == {n \in 0 .. (c - q) : (c - q) - n <= Count(gaps, "unconfirmed")}
  <1>1. Carried(m, gaps) = {CarriedOver(m, q, k, a) : k \in K, a \in A}
    BY DEF Carried
  <1>2. PICK k \in K, a \in A : e = CarriedOver(m, q, k, a)
    BY <1>1
  <1>3. k \in 0 .. q /\ a \in 0 .. (c - q) /\ (k = 0 => q = 0)
    OBVIOUS
  <1> QED
    BY <1>2, <1>3

LEMMA CarriedTyped ==
  ASSUME NEW s \in GraphState, GapsFit(s)
  PROVE  Carried(s.model, s.gaps) \subseteq Model
  <1> DEFINE m == s.model
             Q == {g \in s.gaps : g[1] = "question"}
             q == Count(s.gaps, "question")
             n == Cardinality(s.gaps)
  <1>1. m \in Model /\ m.questions \in Nat
    BY DEF GraphState, Model
  <1>2. IsFiniteSet(Open(m)) /\ Cardinality(Open(m)) \in Nat /\ Cardinality(Open(m)) <= m.questions
    BY <1>1, SomeGaps, FS_CardinalityType DEF Open, Categories
  <1>3. IsFiniteSet(Q) /\ Cardinality(Q) \in Nat /\ Cardinality(Q) <= Cardinality(Open(m))
    BY <1>2, FS_Subset, FS_CardinalityType DEF GapsFit
  <1>4. n \in Nat /\ Cardinality(Q) <= n
    BY FS_Subset, FS_CardinalityType DEF GapsFit
  <1>5. q = Cardinality(Q)
    BY DEF Count
  <1>6. q \in Nat /\ q <= m.questions /\ q <= n
    BY <1>1, <1>2, <1>3, <1>4, <1>5
  <1> HIDE DEF q, n, m
  <1>7. ASSUME NEW k \in 0 .. q, NEW a \in 0 .. (n - q)
        PROVE  CarriedOver(m, q, k, a) \in Model
    <2>1. /\ m.questions - k \in Nat
          /\ m.unsure + a \in Nat
          /\ m.version + k + a \in Nat
          /\ (m.noted \/ q > 0) \in BOOLEAN
      BY <1>1, <1>4, <1>6 DEF Model
    <2>2. [m EXCEPT !.version = m.version + k + a, !.unsure = m.unsure + a,
                    !.questions = m.questions - k, !.noted = m.noted \/ q > 0] \in Model
      BY <1>1, <2>1, ModelOfFacts
    <2>3. CarriedOver(m, q, k, a)
            = [m EXCEPT !.version = m.version + k + a, !.unsure = m.unsure + a,
                        !.questions = m.questions - k, !.noted = m.noted \/ q > 0]
      BY <1>1 DEF Model, CarriedOver
    <2> QED
      BY <2>2, <2>3
  <1>8. \A e \in Carried(m, s.gaps) :
          \E k \in 0 .. q, a \in 0 .. (n - q) : e = CarriedOver(m, q, k, a)
    BY CarriedForm DEF q, n
  <1> QED
    BY <1>7, <1>8 DEF m

LEMMA ChangedTyped ==
  ASSUME NEW m \in Model, NEW p \in PatchSet
  PROVE  Changed(m, p) \in Model
  <1> DEFINE answered == p.answers /\ m.questions > 0
             decided == IF p.settled < m.unsure THEN p.settled ELSE m.unsure
             known == (m.components \ p.removed) \cup p.components
             linked == (m.linked \ (p.removed \cup p.unlinked)) \cup (p.linked \cap known)
             hosted == (m.hosted \ p.removed) \cup (p.hosted \cap known)
             rated == (m.rated \ p.removed) \cup (p.rated \cap known)
             noted == m.noted \/ p.notes \/ answered \/ decided > 0
             unsure == (m.unsure - decided) + p.unsure
             questions == (IF p.answers THEN 0 ELSE m.questions) + p.asks
             greenfield == m.greenfield \/ p.greenfield
  <1>1. /\ m.unsure \in Nat /\ m.questions \in Nat
        /\ p.unsure \in Nat /\ p.asks \in Nat /\ p.settled \in Nat
    BY DEF Model, PatchSet
  <1>2. decided \in Nat /\ decided <= m.unsure
    BY <1>1
  <1> HIDE DEF decided
  <1>3. unsure \in Nat /\ questions \in Nat
    BY <1>1, <1>2
  <1>4. noted \in BOOLEAN /\ greenfield \in BOOLEAN
    OBVIOUS
  <1>5. /\ known \in SUBSET Components /\ linked \in SUBSET Components
        /\ hosted \in SUBSET Components /\ rated \in SUBSET Components
    BY DEF Model, PatchSet
  <1>6. Changed(m, p) =
          [m EXCEPT !.components = known, !.linked = linked, !.hosted = hosted,
                    !.rated = rated, !.noted = noted, !.unsure = unsure,
                    !.questions = questions, !.greenfield = greenfield]
    BY DEF Changed, decided
  <1> HIDE DEF known, linked, hosted, rated, noted, unsure, questions, greenfield
  <1> QED
    BY <1>3, <1>4, <1>5, <1>6 DEF Model

LEMMA RaisedTyped ==
  ASSUME NEW m \in Model
  PROVE  Raised(m) \in Model
  <1>1. m.version + 1 \in Nat
    BY DEF Model
  <1> QED
    BY <1>1 DEF Raised, Model

LEMMA AcceptedTyped ==
  ASSUME NEW m, NEW p \in PatchSet
  PROVE  Accepted(m, p) \subseteq PatchSet
  <1>1. ASSUME NEW declined
        PROVE  [p EXCEPT !.hosted = p.hosted \ declined, !.rated = p.rated \ declined] \in PatchSet
    BY DEF PatchSet
  <1>2. \A q \in Accepted(m, p) :
          \/ q = p
          \/ \E declined : q = [p EXCEPT !.hosted = p.hosted \ declined,
                                         !.rated = p.rated \ declined]
    BY DEF Accepted
  <1> QED
    BY <1>1, <1>2

LEMMA EffectsTyped ==
  ASSUME NEW m \in Model, NEW p \in PatchSet
  PROVE  Effects(m, p) \subseteq Model
  <1>1. \A q \in Accepted(m, p) : Changed(m, q) \in Model /\ Raised(Changed(m, q)) \in Model
    BY AcceptedTyped, ChangedTyped, RaisedTyped
  <1> QED
    BY <1>1, RaisedTyped DEF Effects

LEMMA UpgradedTyped ==
  ASSUME NEW m \in Model, NEW signal \in Levels
  PROVE  Upgraded(m, signal) \in Model
  BY DEF Upgraded, Model

LEMMA FilledTyped ==
  ASSUME NEW m \in Model, NEW a \in Accounts
  PROVE  Filled(m, a) \in Model
  BY DiscoveryAssumption DEF Filled, Model

LEMMA EscalatedTyped ==
  ASSUME NEW m \in Model, NEW v \in Verdict
  PROVE  /\ Escalated(m, v) \in Model
         /\ Escalated(m, v).questions = m.questions
         /\ Escalated(m, v).greenfield = m.greenfield
  <1>1. m.version + 1 \in Nat
    BY DEF Model
  <1>2. [m EXCEPT !.noted = TRUE, !.version = m.version + 1] \in Model
    BY <1>1 DEF Model
  <1>3. /\ [m EXCEPT !.noted = TRUE, !.version = m.version + 1].questions = m.questions
        /\ [m EXCEPT !.noted = TRUE, !.version = m.version + 1].greenfield = m.greenfield
    BY DEF Model
  <1> QED
    BY <1>2, <1>3 DEF Escalated

LEMMA CapturedTyped ==
  ASSUME NEW m \in Model
  PROVE  Captured(m) \subseteq Model
  <1>1. m.unsure + 1 \in Nat /\ m.version + 1 \in Nat
    BY DEF Model
  <1>2. [m EXCEPT !.unsure = m.unsure + 1, !.version = m.version + 1] \in Model
    BY <1>1 DEF Model
  <1> QED
    BY <1>2 DEF Captured

(* Everything ingest_node makes of a reading is a set of patches.          *)
LEMMA CompletedTyped ==
  ASSUME NEW m \in Model, NEW r \in Reading
  PROVE  Completed(m, r) \subseteq PatchSet
  <1>1. \A p \in PatchSet : Rebuilt(p) \in PatchSet
    BY DEF Rebuilt, PatchSet, Levels
  <1>2. \A p \in PatchSet : p.unsure \in Nat /\ p.asks \in Nat /\ p.unsure + 1 \in Nat
    BY DEF PatchSet
  <1>3. PatchesOf(r) \in PatchSet
    BY DEF PatchesOf, PatchSet, Reading
  <1>4. ASSUME NEW p \in PatchSet
        PROVE  RecordTarget(m, r, p) \subseteq PatchSet
    <2> DEFINE b == Rebuilt(p)
    <2>1. b \in PatchSet /\ r.greenfield \in BOOLEAN
      BY <1>1 DEF Reading
    <2> HIDE DEF b
    <2>2. [b EXCEPT !.notes = TRUE, !.greenfield = r.greenfield] \in PatchSet
      BY <2>1 DEF PatchSet
    <2>3. \A n \in Nat : [b EXCEPT !.answers = TRUE, !.unsure = n] \in PatchSet
      BY <2>1 DEF PatchSet
    <2>4. {1, p.unsure + 1} \subseteq Nat
      BY <1>2
    <2>5. \A q \in RecordTarget(m, r, p) :
            \/ q = p
            \/ q = [b EXCEPT !.notes = TRUE, !.greenfield = r.greenfield]
            \/ \E n \in {1, p.unsure + 1} : q = [b EXCEPT !.answers = TRUE, !.unsure = n]
      BY DEF RecordTarget, b
    <2> QED
      BY <2>2, <2>3, <2>4, <2>5
  <1>5. ASSUME NEW p \in PatchSet
        PROVE  DraftMinimal(m, r, p) \in PatchSet
    <2> DEFINE b == Rebuilt(p)
               drafted == {Database} \cup (IF m.components = {} THEN {Application} ELSE m.components)
               joined == IF Cardinality(drafted \ p.removed) > 1 THEN drafted ELSE {}
               new == drafted \ m.components
    <2>1. b \in PatchSet /\ b.unsure + 1 \in Nat
      BY <1>1, <1>2
    <2>2. drafted \in SUBSET Components /\ new \in SUBSET Components /\ joined \in SUBSET Components
      BY DiscoveryAssumption DEF Model
    <2> HIDE DEF b, drafted, joined, new
    <2>3. [b EXCEPT !.components = new, !.linked = b.linked \cup joined,
                    !.unsure = b.unsure + 1] \in PatchSet
      BY <2>1, <2>2 DEF PatchSet
    <2> QED
      BY <2>3 DEF DraftMinimal, b, drafted, joined, new
  <1>6. ASSUME NEW p \in PatchSet
        PROVE  CaptureUnpatched(r, p) \subseteq PatchSet
    <2> DEFINE b == Rebuilt(p)
    <2>1. b \in PatchSet
      BY <1>1
    <2> HIDE DEF b
    <2>2. [b EXCEPT !.unsure = 1] \in PatchSet
      BY <2>1 DEF PatchSet
    <2> QED
      BY <2>2 DEF CaptureUnpatched, b
  <1>7. ASSUME NEW p \in PatchSet
        PROVE  Critique(p) \subseteq PatchSet
    <2> DEFINE b == Rebuilt(p)
    <2>1. b \in PatchSet /\ b.unsure \in Nat /\ b.asks \in Nat
      BY <1>1, <1>2
    <2> HIDE DEF b
    <2>2. ASSUME NEW missed \in Nat, NEW contradictions \in Nat
          PROVE  [b EXCEPT !.unsure = b.unsure + missed,
                           !.asks = b.asks + contradictions] \in PatchSet
      <3>1. b.unsure + missed \in Nat /\ b.asks + contradictions \in Nat
        BY <2>1
      <3> QED
        BY <2>1, <3>1 DEF PatchSet
    <2>3. ASSUME NEW q \in Critique(p), q # p
          PROVE  q \in PatchSet
      <3>1. PICK seen \in {<< 0, 1 >>, << 1, 0 >>, << 1, 1 >>} :
              q = [b EXCEPT !.unsure = b.unsure + seen[1], !.asks = b.asks + seen[2]]
        BY <2>3 DEF Critique, b
      <3>2. seen[1] \in Nat /\ seen[2] \in Nat
        OBVIOUS
      <3> QED
        BY <2>2, <3>1, <3>2
    <2> QED
      BY <2>3
  <1>8. ASSUME NEW p \in PatchSet
        PROVE  AutoConfirm(m, r, p) \subseteq PatchSet
    <2> DEFINE b == Rebuilt(p)
    <2>1. b \in PatchSet
      BY <1>1
    <2> HIDE DEF b
    <2>2. ASSUME NEW left \in Nat, NEW notes \in BOOLEAN
          PROVE  [b EXCEPT !.notes = notes, !.unsure = left] \in PatchSet
      BY <2>1 DEF PatchSet
    <2>3. \A left \in 0 .. p.unsure : left \in Nat /\ (b.notes \/ left < p.unsure) \in BOOLEAN
      BY <1>2
    <2> QED
      BY <2>2, <2>3 DEF AutoConfirm, b
  <1> QED
    BY <1>3, <1>4, <1>5, <1>6, <1>7, <1>8 DEF Completed

LEMMA VerdictsTyped == NoVerdict \in Verdict /\ Verdicts \subseteq Verdict
  BY DiscoveryAssumption DEF NoVerdict, Verdict

-----------------------------------------------------------------------------
(* The invariant is inductive.                                             *)

LEMMA InitInv == Init => IInv
  <1> SUFFICES ASSUME Init PROVE IInv
    OBVIOUS
  <1>1. EmptyModel \in Model
    BY DEF EmptyModel, Model, Levels
  <1>2. state \in GraphState
    BY <1>1, DiscoveryAssumption DEF Init, GraphState
  <1>3. TypeOK
    BY <1>1, <1>2, DiscoveryAssumption DEF Init, TypeOK
  <1> QED
    BY <1>3 DEF Init, IInv, PatchesOfThisTurn, Flow

(* Steps that leave the graph alone.                                       *)
LEMMA CacheSteps ==
  ASSUME IInv, Connect \/ Disconnect \/ Expire
  PROVE  IInv'
  <1> USE DEF IInv
  <1>1. CASE Connect
    BY <1>1 DEF Connect, TypeOK, Connection, PatchesOfThisTurn, Flow
  <1>2. CASE Disconnect
    BY <1>2 DEF Disconnect, TypeOK, PatchesOfThisTurn, Flow
  <1>3. CASE Expire
    <2>1. conn' \in Connection
      BY <1>3 DEF Expire, TypeOK, Connection
    <2> QED
      BY <1>3, <2>1 DEF Expire, TypeOK, PatchesOfThisTurn, Flow
  <1> QED
    BY <1>1, <1>2, <1>3

LEMMA TurnSteps ==
  ASSUME IInv, BeginTurn \/ PersistTurn \/ AbortTurn
  PROVE  IInv'
  <1> USE DEF IInv
  <1>1. CASE BeginTurn
    <2>1. state' \in GraphState
      BY <1>1 DEF BeginTurn, TypeOK, GraphState
    <2>2. history' \in Nat
      BY <1>1, DiscoveryAssumption DEF BeginTurn, Shown, TypeOK
    <2>3. turn' \in 0 .. MaxTurns
      BY <1>1, DiscoveryAssumption DEF BeginTurn, TypeOK
    <2> QED
      BY <1>1, <2>1, <2>2, <2>3 DEF BeginTurn, TypeOK, Nodes, PatchesOfThisTurn, Flow
  <1>2. CASE PersistTurn
    <2>1. rows' \in Model
      BY <1>2 DEF PersistTurn, TypeOK, GraphState
    <2> QED
      BY <1>2, <2>1 DEF PersistTurn, TypeOK, PatchesOfThisTurn, Flow
  <1>3. CASE AbortTurn
    BY <1>3 DEF AbortTurn, TypeOK, PatchesOfThisTurn, Flow
  <1> QED
    BY <1>1, <1>2, <1>3

LEMMA IngestStep ==
  ASSUME IInv, Ingest
  PROVE  IInv'
  <1> USE DEF IInv
  <1>1. state \in GraphState /\ state.model \in Model
    BY DEF TypeOK, GraphState
  <1>2. PICK s : /\ \/ s = [IngestFailed(state, state.model) EXCEPT !.gaps = None]
                    \/ \E m \in Captured(state.model) : s = IngestFailed(state, m)
                    \/ \E r \in Readings : \E p \in Completed(state.model, r) :
                         s = IngestRead(state, r, p)
                 /\ Node("ingest", s, IF s.error /\ s.patches = None
                                       THEN "persist" ELSE "apply_patches")
                 /\ UNCHANGED << scan, conn >>
    BY DEF Ingest, NoScan
  <1>3. ASSUME NEW m \in Model
        PROVE  /\ IngestFailed(state, m) \in GraphState
               /\ IngestFailed(state, m).error /\ IngestFailed(state, m).patches = None
               /\ [IngestFailed(state, m) EXCEPT !.gaps = None] \in GraphState
               /\ [IngestFailed(state, m) EXCEPT !.gaps = None].error
               /\ [IngestFailed(state, m) EXCEPT !.gaps = None].patches = None
    BY <1>1 DEF IngestFailed, GraphState
  <1>4. ASSUME NEW r \in Readings, NEW p \in Completed(state.model, r)
        PROVE  /\ IngestRead(state, r, p) \in GraphState
               /\ ~ IngestRead(state, r, p).error
               /\ IngestRead(state, r, p).patches \in PatchSet
               /\ IngestRead(state, r, p).whose = turn
    <2>1. r \in Reading /\ r.greenfield \in BOOLEAN
      BY DiscoveryAssumption DEF Reading
    <2>2. p \in PatchSet
      BY <1>1, <2>1, CompletedTyped
    <2>3. turn \in 0 .. MaxTurns
      BY DEF TypeOK
    <2> QED
      BY <1>1, <2>1, <2>2, <2>3 DEF IngestRead, GraphState
  <1>5. /\ s \in GraphState
        /\ \/ s.error /\ s.patches = None
           \/ ~ s.error /\ s.patches \in PatchSet /\ s.whose = turn
    BY <1>1, <1>2, <1>3, <1>4, CapturedTyped
  <1>6. /\ state' = s /\ at' \in {"persist", "apply_patches"}
        /\ at' = "apply_patches" => s.patches \in PatchSet /\ s.whose = turn
    BY <1>2, <1>5 DEF Node
  <1>7. UNCHANGED << scan, conn, rows, history, turn, wanted >>
    BY <1>2 DEF Node
  <1> QED
    BY <1>5, <1>6, <1>7 DEF TypeOK, Nodes, PatchesOfThisTurn, Flow

LEMMA ApplyStep ==
  ASSUME IInv, ApplyPatches
  PROVE  IInv'
  <1> USE DEF IInv
  <1>1. at = "apply_patches" /\ at' = "gap_analysis"
    BY DEF ApplyPatches, Node
  <1>2. PICK m \in Effects(state.model, state.patches) :
          state' = [state EXCEPT !.model = Upgraded(m, state.patches.signal),
                                 !.patches = None, !.error = FALSE]
    BY DEF ApplyPatches, Node
  <1>3. state \in GraphState /\ state.model \in Model /\ state.patches \in PatchSet
    BY <1>1 DEF PatchesOfThisTurn, TypeOK, GraphState
  <1>4. m \in Model /\ state.patches.signal \in Levels
    BY <1>2, <1>3, EffectsTyped DEF PatchSet
  <1>5. Upgraded(m, state.patches.signal) \in Model
    BY <1>4, UpgradedTyped
  <1>6. state' \in GraphState
    BY <1>2, <1>3, <1>5 DEF GraphState
  <1>7. UNCHANGED << scan, conn, rows, history, turn, wanted >>
    BY DEF ApplyPatches, Node, NoScan
  <1> QED
    BY <1>1, <1>6, <1>7 DEF TypeOK, Nodes, PatchesOfThisTurn, Flow

(* The inventory that is used, and the one that is stored.                 *)
LEMMA ScanSteps ==
  ASSUME IInv, NotConnected \/ ScanCached \/ FetchInventory \/ ScanArrives \/ ScanFails
  PROVE  IInv'
  <1> USE DEF IInv
  <1>1. ASSUME NEW a \in Accounts
        PROVE  [state EXCEPT !.model = Filled(state.model, a)] \in GraphState
    <2>1. Filled(state.model, a) \in Model
      BY FilledTyped DEF TypeOK, GraphState
    <2> QED
      BY <2>1 DEF TypeOK, GraphState
  <1>2. CASE NotConnected
    BY <1>2 DEF NotConnected, Node, NoScan, TypeOK, Nodes, PatchesOfThisTurn, Flow
  <1>3. CASE ScanCached
    <2>1. CachedInventory \in Accounts
      BY <1>3 DEF ScanCached, CachedInventory, TypeOK, Connection
    <2>2. state' \in GraphState
      BY <1>1, <1>3, <2>1 DEF ScanCached, UseInventory, Node
    <2> QED
      BY <1>3, <2>2
         DEF ScanCached, UseInventory, Node, NoScan, TypeOK, Nodes, PatchesOfThisTurn, Flow
  <1>4. CASE FetchInventory
    <2>1. scan' \in Accounts
      BY <1>4 DEF FetchInventory, TypeOK, Connection
    <2> QED
      BY <1>4, <2>1 DEF FetchInventory, Node, TypeOK, Nodes, PatchesOfThisTurn, Flow
  <1>5. CASE ScanArrives
    <2>1. scan \in Accounts
      BY <1>5 DEF ScanArrives, UseInventory, Node, Flow
    <2>2. state' \in GraphState
      BY <1>1, <1>5, <2>1 DEF ScanArrives, UseInventory, Node
    <2>3. conn' \in Connection \cup {None}
      BY <1>5, <2>1 DEF ScanArrives, StoreInventory, TypeOK, Connection
    <2> QED
      BY <1>5, <2>2, <2>3
         DEF ScanArrives, UseInventory, Node, TypeOK, Nodes, PatchesOfThisTurn, Flow
  <1>6. CASE ScanFails
    BY <1>6 DEF ScanFails, Node, TypeOK, Nodes, PatchesOfThisTurn, Flow
  <1> QED
    BY <1>2, <1>3, <1>4, <1>5, <1>6

LEMMA CoverageStep ==
  ASSUME IInv, Coverage
  PROVE  IInv'
  <1> USE DEF IInv
  <1>1. PICK v \in {NoVerdict} \cup (IF Blank(state.model) THEN {} ELSE Verdicts) :
          Node("coverage",
               [state EXCEPT !.gaps = Adapted(state, TopFive(Found(state.model, v))),
                             !.model = Escalated(state.model, v), !.error = FALSE],
               "generate_questions")
    BY DEF Coverage
  <1>2. v \in Verdict /\ state \in GraphState /\ state.model \in Model
    BY VerdictsTyped DEF TypeOK, GraphState
  <1> DEFINE gaps == Adapted(state, TopFive(Found(state.model, v)))
             m == Escalated(state.model, v)
  <1>3. /\ gaps \in SUBSET Gap /\ IsFiniteSet(gaps)
        /\ {g \in gaps : g[1] = "question"} \subseteq Open(state.model)
        /\ state.model.greenfield => \A g \in gaps : g[1] # "environment"
    BY <1>2, GapsOfCoverage
  <1>4. m \in Model /\ m.questions = state.model.questions /\ m.greenfield = state.model.greenfield
    BY <1>2, EscalatedTyped
  <1>5. /\ state' = [state EXCEPT !.gaps = gaps, !.model = m, !.error = FALSE]
        /\ at' = "generate_questions"
        /\ UNCHANGED << scan, conn, rows, history, turn, wanted >>
    BY <1>1 DEF Node, Coverage, NoScan
  <1> HIDE DEF gaps, m
  <1>6. state' \in GraphState /\ state'.gaps = gaps /\ state'.model = m
    BY <1>2, <1>3, <1>4, <1>5 DEF GraphState
  <1>7. Open(m) = Open(state.model)
    BY <1>4 DEF Open
  <1>8. GapsFit(state')
    BY <1>3, <1>4, <1>6, <1>7 DEF GapsFit
  <1> QED
    BY <1>5, <1>6, <1>8 DEF TypeOK, Nodes, PatchesOfThisTurn, Flow

LEMMA QuestionSteps ==
  ASSUME IInv, CloseDiscovery \/ CarryForward \/ AskQuestions
  PROVE  IInv'
  <1> USE DEF IInv
  <1>1. at = "generate_questions" /\ at' = "persist"
    BY DEF CloseDiscovery, CarryForward, AskQuestions, Node
  <1>2. state' \in GraphState
    <2>1. CASE CloseDiscovery \/ AskQuestions
      BY <2>1 DEF CloseDiscovery, AskQuestions, Node, TypeOK, GraphState
    <2>2. CASE CarryForward
      <3>1. Carried(state.model, state.gaps) \subseteq Model
        BY <1>1, CarriedTyped DEF Flow, TypeOK
      <3>2. PICK m \in Carried(state.model, state.gaps) :
              state' = [state EXCEPT !.model = m, !.gaps = None, !.error = FALSE]
        BY <2>2 DEF CarryForward, Node
      <3> QED
        BY <3>1, <3>2 DEF TypeOK, GraphState
    <2> QED
      BY <2>1, <2>2
  <1>3. UNCHANGED << scan, conn, rows, history, turn, wanted >>
    BY DEF CloseDiscovery, CarryForward, AskQuestions, Node, NoScan
  <1> QED
    BY <1>1, <1>2, <1>3 DEF TypeOK, Nodes, PatchesOfThisTurn, Flow

LEMMA NextInv == IInv /\ [Next]_vars => IInv'
  <1> SUFFICES ASSUME IInv, [Next]_vars PROVE IInv'
    OBVIOUS
  <1>1. CASE UNCHANGED vars
    BY <1>1 DEF vars, IInv, TypeOK, PatchesOfThisTurn, Flow
  <1>2. CASE Next
    BY <1>2, CacheSteps, TurnSteps, IngestStep, ApplyStep, ScanSteps, CoverageStep,
       QuestionSteps DEF Next, GraphStep
  <1> QED
    BY <1>1, <1>2

-----------------------------------------------------------------------------
(* The theorems.                                                           *)

(* Types hold in every reachable state; among them that the carry-forward  *)
(* never resolves more questions than the model has open.                  *)
THEOREM TypeCorrect == Spec => []TypeOK
  <1>1. IInv => TypeOK
    BY DEF IInv
  <1> QED
    BY InitInv, NextInv, <1>1, PTL DEF Spec

(* apply_patches_node applies the patches of its own turn's message,       *)
(* whatever earlier turns left in the checkpoint when they died.           *)
THEOREM OwnPatches == Spec => []PatchesOfThisTurn
  <1>1. IInv => PatchesOfThisTurn
    BY DEF IInv
  <1> QED
    BY InitInv, NextInv, <1>1, PTL DEF Spec

(* A confirmed greenfield fact takes the hosting gap out of every later    *)
(* turn's questions.                                                       *)
THEOREM HostingSettled == Spec => []HostingNotAsked
  <1>1. IInv => HostingNotAsked
    BY DEF IInv, Flow, GapsFit, HostingNotAsked
  <1> QED
    BY InitInv, NextInv, <1>1, PTL DEF Spec

(* The cache never holds another account's credentials than those of the   *)
(* last connection, and none after a disconnection, while scans with older *)
(* credentials come back at any time.                                      *)
THEOREM ConnectionsHold == Spec => []DisconnectHolds
  <1> DEFINE Inv == TypeOK /\ DisconnectHolds
  <1>1. Init => DisconnectHolds
    BY DEF Init, DisconnectHolds
  <1>2. ASSUME TypeOK, DisconnectHolds, [Next]_vars
        PROVE  DisconnectHolds'
    <2> USE DEF DisconnectHolds
    <2>1. CASE UNCHANGED << conn, wanted >>
      BY <1>2, <2>1
    <2>2. CASE Connect
      <3>1. PICK a \in Accounts :
              conn' = [account |-> a, inventory |-> a, fresh |-> TRUE] /\ wanted' = a
        BY <2>2 DEF Connect
      <3>2. conn' \in Connection
        BY <3>1 DEF Connection
      <3> QED
        BY <3>1, <3>2
    <2>3. CASE Disconnect
      BY <2>3 DEF Disconnect
    <2>4. CASE Expire
      BY <1>2, <2>4 DEF Expire, TypeOK, Connection
    <2>5. CASE ScanArrives
      BY <1>2, <2>5 DEF ScanArrives, StoreInventory, UseInventory, Node, TypeOK, Connection
    <2>6. CASE UNCHANGED vars
      BY <1>2, <2>6 DEF vars
    <2> QED
      BY <1>2, <2>1, <2>2, <2>3, <2>4, <2>5, <2>6
         DEF Next, GraphStep, BeginTurn, AbortTurn, PersistTurn, Ingest, ApplyPatches,
             NotConnected, ScanCached, FetchInventory, ScanFails, Coverage, CloseDiscovery,
             CarryForward, AskQuestions, UseInventory, Node, NoScan
  <1> QED
    BY <1>1, <1>2, TypeCorrect, PTL DEF Spec

-----------------------------------------------------------------------------
(* What a turn leaves unsaved.                                             *)

(* n has all that m has, and differs from it at most in what               *)
(* apply_cloud_discovery fills in and in the level of the user, which is   *)
(* technical for good.                                                     *)
SameButScanAndLevel(m, n) ==
  /\ n.components = m.components /\ n.linked = m.linked /\ n.rated = m.rated
  /\ n.unsure = m.unsure /\ n.questions = m.questions /\ n.greenfield = m.greenfield
  /\ m.hosted \subseteq n.hosted /\ (m.noted => n.noted)
  /\ m.level = "technical" => n.level = "technical"

Supersedes(n, m) ==
  n.version > m.version \/ (n.version = m.version /\ SameButScanAndLevel(m, n))

(* The model of a turn is newer than the row it was read from, or differs  *)
(* from it in what the cloud scan has filled in and in the user's level    *)
(* alone.                                                                  *)
OnlyScanAndLevelUnsaved == at # "idle" => Supersedes(state.model, rows)

LEMMA SupersedesTransitive ==
  ASSUME NEW k \in Model, NEW m \in Model, NEW n \in Model,
         Supersedes(n, m), Supersedes(m, k)
  PROVE  Supersedes(n, k)
  BY DEF Supersedes, SameButScanAndLevel, Model

LEMMA NewerSupersedes ==
  ASSUME NEW m \in Model, NEW n, n.version \in Nat, n.version > m.version
  PROVE  Supersedes(n, m)
  BY DEF Supersedes

LEMMA SameSupersedes ==
  ASSUME NEW m \in Model
  PROVE  Supersedes(m, m)
  BY DEF Supersedes, SameButScanAndLevel

LEMMA EffectsSupersede ==
  ASSUME NEW m \in Model, NEW p \in PatchSet, NEW n \in Effects(m, p)
  PROVE  Supersedes(n, m)
  <1>1. n = m \/ n = Raised(m) \/ \E q \in Accepted(m, p) : n = Raised(Changed(m, q))
    BY DEF Effects
  <1>2. CASE n = m
    BY <1>2, SameSupersedes
  <1>3. CASE n = Raised(m)
    <2>1. n.version = m.version + 1 /\ m.version \in Nat
      BY <1>3 DEF Raised, Model
    <2> QED
      BY <2>1, NewerSupersedes
  <1>4. CASE \E q \in Accepted(m, p) : n = Raised(Changed(m, q))
    <2>1. PICK q \in Accepted(m, p) : n = Raised(Changed(m, q))
      BY <1>4
    <2>2. Changed(m, q) \in Model
      BY AcceptedTyped, ChangedTyped
    <2>3. Changed(m, q).version = m.version
      BY DEF Changed, Model
    <2>4. Raised(Changed(m, q)).version = Changed(m, q).version + 1
      BY <2>2 DEF Raised, Model
    <2>5. n.version = m.version + 1 /\ m.version \in Nat
      BY <2>1, <2>3, <2>4 DEF Model
    <2> QED
      BY <2>5, NewerSupersedes
  <1> QED
    BY <1>1, <1>2, <1>3, <1>4

LEMMA UpgradedSupersedes ==
  ASSUME NEW m \in Model, NEW signal \in Levels
  PROVE  Supersedes(Upgraded(m, signal), m)
  <1>1. CASE Upgraded(m, signal) = m
    BY <1>1, SameSupersedes
  <1>2. CASE m.level # "technical" /\ Upgraded(m, signal) = [m EXCEPT !.level = signal]
    BY <1>2 DEF Supersedes, SameButScanAndLevel, Model
  <1> QED
    BY <1>1, <1>2 DEF Upgraded

LEMMA FilledSupersedes ==
  ASSUME NEW m \in Model, NEW a
  PROVE  Supersedes(Filled(m, a), m)
  BY DEF Filled, Supersedes, SameButScanAndLevel, Model

LEMMA OthersSupersede ==
  ASSUME NEW m \in Model
  PROVE  /\ Supersedes(m, m)
         /\ \A n \in Captured(m) : Supersedes(n, m)
         /\ \A v : Supersedes(Escalated(m, v), m)
         /\ \A gaps : IsFiniteSet(gaps) /\ gaps # {} =>
              \A n \in Carried(m, gaps) : Supersedes(n, m)
  <1>1. m.version \in Nat
    BY DEF Model
  <1>2. Supersedes(m, m)
    BY SameSupersedes
  <1>3. \A n \in Captured(m) : n = m \/ n.version = m.version + 1
    BY DEF Captured, Model
  <1>4. \A v : Escalated(m, v) = m \/ Escalated(m, v).version = m.version + 1
    BY DEF Escalated, Model
  <1>5. ASSUME NEW gaps, IsFiniteSet(gaps), gaps # {}, NEW n \in Carried(m, gaps)
        PROVE  Supersedes(n, m)
    <2> DEFINE Q == {g \in gaps : g[1] = "question"}
               q == Count(gaps, "question")
               c == Cardinality(gaps)
    <2>1. /\ c \in Nat /\ c # 0
          /\ q \in Nat /\ q <= c
      BY <1>5, FS_CardinalityType, FS_EmptySet, FS_Subset DEF Count
    <2>2. PICK k \in 0 .. q, a \in 0 .. (c - q) :
            (k = 0 => q = 0) /\ n = CarriedOver(m, q, k, a)
      BY <1>5, CarriedForm
    <2> HIDE DEF q, c
    <2>3. CASE k + a > 0
      <3>1. n.version = m.version + k + a
        BY <2>2 DEF Model, CarriedOver
      <3>2. n.version \in Nat /\ n.version > m.version
        BY <1>1, <2>1, <2>3, <3>1
      <3> QED  BY <3>2, NewerSupersedes
    <2>4. CASE k = 0 /\ a = 0
      <3>1. /\ n.version = m.version /\ n.questions = m.questions /\ n.unsure = m.unsure
            /\ n.components = m.components /\ n.linked = m.linked /\ n.rated = m.rated
            /\ n.hosted = m.hosted /\ n.greenfield = m.greenfield /\ n.level = m.level
            /\ m.noted => n.noted
        BY <2>1, <2>2, <2>4 DEF Model, CarriedOver
      <3> QED  BY <3>1 DEF Supersedes, SameButScanAndLevel
    <2> QED  BY <2>1, <2>3, <2>4
  <1>6. \A n : n.version = m.version + 1 => Supersedes(n, m)
    BY <1>1 DEF Supersedes
  <1> QED  BY <1>2, <1>3, <1>4, <1>5, <1>6

(* Every node supersedes the model it was given.                           *)
LEMMA NodesSupersede ==
  ASSUME IInv, [Next]_vars, at # "idle", at' # "idle"
  PROVE  Supersedes(state'.model, state.model) /\ rows' = rows
  <1>1. state \in GraphState /\ state.model \in Model
    BY DEF IInv, TypeOK, GraphState
  <1>2. CASE Ingest
    <2>1. PICK s : /\ \/ s = [IngestFailed(state, state.model) EXCEPT !.gaps = None]
                      \/ \E m \in Captured(state.model) : s = IngestFailed(state, m)
                      \/ \E r \in Readings : \E p \in Completed(state.model, r) :
                           s = IngestRead(state, r, p)
                   /\ state' = s /\ rows' = rows
      BY <1>2 DEF Ingest, Node
    <2>2. CASE s = [IngestFailed(state, state.model) EXCEPT !.gaps = None]
      <3>1. s.model = state.model
        BY <1>1, <2>2 DEF IngestFailed, GraphState
      <3> QED  BY <1>1, <2>1, <3>1, OthersSupersede
    <2>3. CASE \E m \in Captured(state.model) : s = IngestFailed(state, m)
      <3>1. s.model \in Captured(state.model)
        BY <1>1, <2>3 DEF IngestFailed, GraphState
      <3> QED  BY <1>1, <2>1, <3>1, OthersSupersede
    <2>4. CASE \E r \in Readings : \E p \in Completed(state.model, r) : s = IngestRead(state, r, p)
      <3>1. s.model = state.model
        BY <1>1, <2>4 DEF IngestRead, GraphState
      <3> QED  BY <1>1, <2>1, <3>1, OthersSupersede
    <2> QED  BY <2>1, <2>2, <2>3, <2>4
  <1>3. CASE ApplyPatches
    <2>1. state.patches \in PatchSet /\ rows' = rows
      BY <1>3 DEF IInv, PatchesOfThisTurn, ApplyPatches, Node
    <2>2. PICK m \in Effects(state.model, state.patches) :
            state' = [state EXCEPT !.model = Upgraded(m, state.patches.signal),
                                   !.patches = None, !.error = FALSE]
      BY <1>3 DEF ApplyPatches, Node
    <2>3. m \in Model /\ state.patches.signal \in Levels
      BY <1>1, <2>1, EffectsTyped DEF PatchSet
    <2>4. state'.model = Upgraded(m, state.patches.signal)
      BY <1>1, <2>2 DEF GraphState
    <2>5. Supersedes(m, state.model) /\ Supersedes(Upgraded(m, state.patches.signal), m)
      BY <1>1, <2>1, <2>3, EffectsSupersede, UpgradedSupersedes
    <2>6. Upgraded(m, state.patches.signal) \in Model
      BY <2>3, UpgradedTyped
    <2> QED  BY <1>1, <2>1, <2>3, <2>4, <2>5, <2>6, SupersedesTransitive
  <1>4. CASE NotConnected \/ FetchInventory \/ ScanFails
    <2>1. state' = state /\ rows' = rows
      BY <1>4 DEF NotConnected, FetchInventory, ScanFails, Node
    <2> QED  BY <1>1, <2>1, OthersSupersede
  <1>5. CASE ScanCached \/ ScanArrives
    <2>1. rows' = rows /\ \E a : state' = [state EXCEPT !.model = Filled(@, a)]
      BY <1>5 DEF ScanCached, ScanArrives, UseInventory, Node
    <2>2. \E a : state'.model = Filled(state.model, a)
      BY <1>1, <2>1 DEF GraphState
    <2> QED  BY <1>1, <2>1, <2>2, FilledSupersedes
  <1>6. CASE Coverage
    <2>1. PICK v, gaps :
            state' = [state EXCEPT !.gaps = gaps, !.model = Escalated(@, v), !.error = FALSE]
      BY <1>6 DEF Coverage, Node
    <2>2. state'.model = Escalated(state.model, v) /\ rows' = rows
      BY <1>1, <1>6, <2>1 DEF Coverage, Node, GraphState
    <2> QED  BY <1>1, <2>2, OthersSupersede
  <1>7. CASE CloseDiscovery \/ AskQuestions
    <2>1. state'.model = state.model /\ rows' = rows
      BY <1>1, <1>7 DEF CloseDiscovery, AskQuestions, Node, GraphState
    <2> QED  BY <1>1, <2>1, OthersSupersede
  <1>8. CASE CarryForward
    <2>1. IsFiniteSet(state.gaps) /\ state.gaps # {} /\ rows' = rows
      BY <1>8 DEF CarryForward, Node, IInv, Flow, GapsFit
    <2>2. PICK m \in Carried(state.model, state.gaps) :
            state' = [state EXCEPT !.model = m, !.gaps = None, !.error = FALSE]
      BY <1>8 DEF CarryForward, Node
    <2>3. state'.model = m
      BY <1>1, <2>2 DEF GraphState
    <2> QED  BY <1>1, <2>1, <2>2, <2>3, OthersSupersede
  <1>9. CASE Connect \/ Disconnect \/ Expire \/ UNCHANGED vars
    <2>1. state' = state /\ rows' = rows
      BY <1>9 DEF Connect, Disconnect, Expire, vars
    <2> QED  BY <1>1, <2>1, OthersSupersede
  <1> QED
    BY <1>2, <1>3, <1>4, <1>5, <1>6, <1>7, <1>8, <1>9
    DEF Next, GraphStep, BeginTurn, PersistTurn, AbortTurn

(* _persist_turn saves every model that a turn's message, its helpers, its *)
(* escalated hedges or its carried gaps have changed.  What it leaves      *)
(* unsaved, as the version does not show it, is what the cloud scan filled *)
(* in and the user's level that apply_patches_node has upgraded.           *)
THEOREM OnlyScanAndLevelLeft == Spec => []OnlyScanAndLevelUnsaved
  <1>1. Init => OnlyScanAndLevelUnsaved
    BY DEF Init, OnlyScanAndLevelUnsaved
  <1>2. IInv /\ IInv' /\ OnlyScanAndLevelUnsaved /\ [Next]_vars => OnlyScanAndLevelUnsaved'
    <2> SUFFICES ASSUME IInv, IInv', OnlyScanAndLevelUnsaved, [Next]_vars, at' # "idle"
                 PROVE  Supersedes(state'.model, rows')
      BY DEF OnlyScanAndLevelUnsaved
    <2>1. /\ state.model \in Model /\ state'.model \in Model /\ rows \in Model
          /\ state \in GraphState
      BY DEF IInv, TypeOK, GraphState
    <2>2. CASE at # "idle"
      <3>1. Supersedes(state'.model, state.model) /\ rows' = rows
        BY <2>2, NodesSupersede
      <3> QED  BY <2>1, <2>2, <3>1, SupersedesTransitive DEF OnlyScanAndLevelUnsaved
    <2>3. CASE at = "idle" /\ BeginTurn
      <3>1. state'.model = rows /\ rows' = rows
        BY <2>1, <2>3 DEF BeginTurn, GraphState
      <3> QED  BY <2>1, <3>1, OthersSupersede
    <2> QED
      BY <2>2, <2>3 DEF Next, GraphStep, Connect, Disconnect, Expire, AbortTurn, PersistTurn,
         Ingest, ApplyPatches, NotConnected, ScanCached, FetchInventory, ScanArrives,
         ScanFails, Coverage, CloseDiscovery, CarryForward, AskQuestions, UseInventory, Node, vars
  <1>3. Spec => []IInv
    BY InitInv, NextInv, PTL DEF Spec
  <1> QED  BY <1>1, <1>2, <1>3, PTL DEF Spec
=============================================================================
