---------------------------- MODULE DiscoveryGraph ----------------------------
(***************************************************************************)
(* The discovery graph of one session (build_discovery_graph), the cache   *)
(* of its AWS connection, which other requests change while the graph      *)
(* awaits a scan, and the rows a turn leaves behind.  A step is a node, or *)
(* the part of a node between two awaits; a turn may die at each of them   *)
(* and the checkpoint stays.  What single patches do is in PatchEngine.    *)
(***************************************************************************)
EXTENDS Naturals, FiniteSets

CONSTANTS
  None,             \* Python's None
  Components,       \* every component the session may come to hold
  Application,      \* the component "application" of a drafted architecture
  Database,         \* and its "primary_database"
  Accounts,         \* AWS accounts the user may connect
  Matches,          \* the components that an account's inventory matches
  MaxQuestionTurns, \* settings.discovery_max_question_turns
  ListLines,        \* bound: the numbered lines of a message that is a list
  Readings,         \* bound: what an LLM may read from a message
  Verdicts,         \* bound: what the requirement coverage may conclude
  MaxTurns          \* bound: the turns of a session

Levels == {"unknown", "non_technical", "technical"}

(* unlinked: the components whose last dependency the patches remove.      *)
(* settled: how many open assumptions they confirm or reject.  answers:    *)
(* they resolve the open questions.  signal: user_technical_signal.        *)
Reading ==
  [intent : {"current_fact", "target_planning", "proceed", "other"},
   components : SUBSET Components, removed : SUBSET Components,
   linked : SUBSET Components, unlinked : SUBSET Components,
   hosted : SUBSET Components, rated : SUBSET Components,
   unsure : Nat, settled : Nat, asks : Nat, answers : BOOLEAN,
   greenfield : BOOLEAN, signal : Levels]

(* How many requirements are unknown or hedged, of a priority above and    *)
(* below that of an orphan, and whether a hedge is escalated.              *)
Verdict == [grave : Nat, mild : Nat, escalated : BOOLEAN]

ASSUME DiscoveryAssumption ==
  /\ Application \in Components /\ Database \in Components
  /\ Matches \in [Accounts -> SUBSET Components]
  /\ MaxQuestionTurns \in Nat \ {0}
  /\ ListLines \in Nat /\ MaxTurns \in Nat
  /\ Readings \subseteq Reading /\ Verdicts \subseteq Verdict
  /\ None \notin Accounts

VARIABLES
  state,    \* the checkpoint: GraphState
  at,       \* the node that runs next, "persist" or "idle"
  scan,     \* the account whose inventory is being fetched
  rows,     \* the newest model version
  history,  \* what _render_user_message_history shows: its numbered lines
  turn,     \* the number of turns begun
  conn,     \* _connections[session]
  wanted    \* history: the account last connected, None once disconnected

vars == << state, at, scan, rows, history, turn, conn, wanted >>

(* hosted: environment and technology are set.  noted: some assumption is  *)
(* settled.  unsure: assumptions of the LLM that are open.  questions:     *)
(* open questions that are not resolved.  greenfield: a confirmed          *)
(* assumption has the greenfield marker.  level: user_technical_level.     *)
Model ==
  [version : Nat, components : SUBSET Components, linked : SUBSET Components,
   hosted : SUBSET Components, rated : SUBSET Components,
   noted : BOOLEAN, unsure : Nat, questions : Nat, greenfield : BOOLEAN,
   level : Levels]

PatchSet ==
  [components : SUBSET Components, removed : SUBSET Components,
   linked : SUBSET Components, unlinked : SUBSET Components,
   hosted : SUBSET Components, rated : SUBSET Components,
   notes : BOOLEAN, unsure : Nat, settled : Nat, asks : Nat, answers : BOOLEAN,
   greenfield : BOOLEAN, signal : Levels]

Categories == {"question", "sparse", "grave", "orphan", "mild", "environment",
               "unconfirmed", "criticality"}

(* A gap: what it is about, and which one of its kind.                     *)
Gap == Categories \X (Nat \ {0})

GraphState ==
  [model : Model,
   patches : PatchSet \cup {None},           \* _patch_set
   whose : 0 .. MaxTurns,                    \* the turn whose message they are from
   gaps : (SUBSET Gap) \cup {None},          \* _gaps
   greenfield : BOOLEAN,                     \* is_greenfield_context
   error : BOOLEAN]

(* Its inventory is None, or the account that was scanned.                 *)
Connection == [account : Accounts, inventory : Accounts \cup {None}, fresh : BOOLEAN]

Nodes == {"ingest", "apply_patches", "gap_analysis", "fetch", "coverage", "generate_questions"}

TypeOK ==
  /\ state \in GraphState
  /\ at \in Nodes \cup {"persist", "idle"}
  /\ scan \in Accounts \cup {None}
  /\ rows \in Model
  /\ history \in Nat
  /\ turn \in 0 .. MaxTurns
  /\ conn \in Connection \cup {None}
  /\ wanted \in Accounts \cup {None}

EmptyModel == [version |-> 1, components |-> {}, linked |-> {}, hosted |-> {}, rated |-> {},
               noted |-> FALSE, unsure |-> 0, questions |-> 0, greenfield |-> FALSE,
               level |-> "unknown"]

Init ==
  /\ state = [model |-> EmptyModel, patches |-> None, whose |-> 0, gaps |-> None,
              greenfield |-> FALSE, error |-> FALSE]
  /\ at = "idle" /\ scan = None
  /\ rows = EmptyModel /\ history = 0 /\ turn = 0
  /\ conn = None /\ wanted = None

-----------------------------------------------------------------------------
(* The cache of connections (aws_session_cache).                           *)

(* connect_aws, once its own scan has succeeded: a new entry.              *)
Connect ==
  /\ \E a \in Accounts :
       /\ conn' = [account |-> a, inventory |-> a, fresh |-> TRUE]
       /\ wanted' = a
  /\ UNCHANGED << state, at, scan, rows, history, turn >>

Disconnect ==
  /\ conn # None
  /\ conn' = None /\ wanted' = None
  /\ UNCHANGED << state, at, scan, rows, history, turn >>

(* _INVENTORY_TTL_SECONDS pass.                                            *)
Expire ==
  /\ conn # None /\ conn.fresh
  /\ conn' = [conn EXCEPT !.fresh = FALSE]
  /\ UNCHANGED << state, at, scan, rows, history, turn, wanted >>

CachedInventory == IF conn # None /\ conn.fresh THEN conn.inventory ELSE None

(* Mutant of the next: an entry is made where there is none.               *)
StoreAnyway(a) == [account |-> a, inventory |-> a, fresh |-> TRUE]

(* store_inventory: into the entry there is by then, whosever it is.       *)
StoreInventory(a) ==
  IF conn = None THEN None ELSE [conn EXCEPT !.inventory = a, !.fresh = TRUE]

-----------------------------------------------------------------------------
(* What ingest_node makes of the reading of a message.                     *)

PatchesOf(r) ==
  [components |-> r.components, removed |-> r.removed, linked |-> r.linked,
   unlinked |-> r.unlinked, hosted |-> r.hosted, rated |-> r.rated, notes |-> FALSE,
   unsure |-> r.unsure, settled |-> r.settled, asks |-> r.asks, answers |-> r.answers,
   greenfield |-> FALSE, signal |-> r.signal]

NoPatches ==
  [components |-> {}, removed |-> {}, linked |-> {}, unlinked |-> {}, hosted |-> {},
   rated |-> {}, notes |-> FALSE, unsure |-> 0, settled |-> 0, asks |-> 0,
   answers |-> FALSE, greenfield |-> FALSE, signal |-> "unknown"]

(* A completed set is built anew, from the patches and the narration.      *)
Rebuilt(p) == [p EXCEPT !.signal = "unknown"]

Undetailed(m) == Cardinality(m.components) <= 1 /\ m.linked = {}

(* resolve_sparse_intake...: the summary of a target answer, if any fact   *)
(* is recognised in it, resolves every open question and is added as an    *)
(* assumption, whose confirmation is addressed by a predicted id.  A       *)
(* question that is resolved takes that id: the summary stays open, and an *)
(* assumption of the LLM's may be confirmed in its place.                  *)
RecordTarget(m, r, p) ==
  IF r.intent = "target_planning" /\ Undetailed(m) /\ ~ m.greenfield
  THEN (IF r.greenfield THEN {} ELSE {p}) \cup
       (IF m.questions = 0
        THEN {[Rebuilt(p) EXCEPT !.notes = TRUE, !.greenfield = r.greenfield]}
        ELSE {[Rebuilt(p) EXCEPT !.answers = TRUE, !.unsure = n] : n \in {1, p.unsure + 1}})
  ELSE {p}

(* draft_minimal_architecture_when_user_says_proceed.                      *)
DraftMinimal(m, r, p) ==
  LET drafted == {Database} \cup (IF m.components = {} THEN {Application} ELSE m.components)
      joined == IF Cardinality(drafted \ p.removed) > 1 THEN drafted ELSE {}
  IN  IF r.intent = "proceed" /\ Undetailed(m) /\ p.components = {}
      THEN [Rebuilt(p) EXCEPT !.components = drafted \ m.components,
                              !.linked = @ \cup joined, !.unsure = @ + 1]
      ELSE p

(* capture_unpatched_factual_answer..., if the message is long enough and  *)
(* its patches do not add, update, confirm or resolve anything.            *)
CaptureUnpatched(r, p) ==
  {p} \cup
  (IF /\ r.intent = "current_fact"
      /\ [Rebuilt(p) EXCEPT !.asks = 0, !.removed = {}, !.unlinked = {}] = NoPatches
   THEN {[Rebuilt(p) EXCEPT !.unsure = 1]} ELSE {})

(* critique_ingest_completeness: neither, or missed facts, a contradiction *)
(* or both.                                                                *)
Critique(p) ==
  {p} \cup {[Rebuilt(p) EXCEPT !.unsure = @ + seen[1], !.asks = @ + seen[2]] :
              seen \in {<< 0, 1 >>, << 1, 0 >>, << 1, 1 >>}}

(* auto_confirm_directly_stated_assumptions: by predicted ids, too, of     *)
(* which each question that the set resolves may take one.                 *)
AutoConfirm(m, r, p) ==
  IF r.intent = "current_fact" /\ p.unsure > 0
  THEN {[Rebuilt(p) EXCEPT !.notes = @ \/ left < p.unsure, !.unsure = left] :
          left \in {n \in 0 .. p.unsure : n <= IF p.answers THEN m.questions ELSE 0}}
  ELSE {p}

Completed(m, r) ==
  UNION {UNION {UNION {AutoConfirm(m, r, c) : c \in Critique(q)}
                  : q \in CaptureUnpatched(r, DraftMinimal(m, r, p))}
           : p \in RecordTarget(m, r, PatchesOf(r))}

-----------------------------------------------------------------------------
(* The turns.                                                              *)

(* The user's turn is saved before the history is rendered: a message is a *)
(* line, and so is every numbered line in it; one that is longer than what *)
(* is shown leaves no number at all.                                       *)
Shown(message) ==
  CASE message = "short" -> history + 1
    [] message = "list"  -> history + 1 + ListLines
    [] message = "long"  -> 0

BeginTurn ==
  /\ at = "idle" /\ turn < MaxTurns
  /\ turn' = turn + 1
  /\ \E message \in {"short", "list", "long"} : history' = Shown(message)
  /\ state' = [state EXCEPT !.model = rows]
  /\ at' = "ingest"
  /\ UNCHANGED << scan, rows, conn, wanted >>

Node(n, s, next) ==
  /\ at = n /\ at' = next
  /\ state' = s
  /\ UNCHANGED << rows, history, turn, wanted >>

NoScan == UNCHANGED << scan, conn >>

(* _capture_raw_message_after_total_ingest_failure: not for a short one.   *)
Captured(m) == {m, [m EXCEPT !.unsure = @ + 1, !.version = @ + 1]}

(* Mutant of the next: the failed ingest leaves the patches alone.         *)
IngestFailedOnly(s, m) == [s EXCEPT !.model = m, !.gaps = None, !.error = TRUE]

IngestFailed(s, m) == [s EXCEPT !.model = m, !.patches = None, !.error = TRUE]

IngestRead(s, r, p) ==
  [s EXCEPT !.patches = p, !.whose = turn, !.greenfield = r.greenfield, !.error = FALSE]

(* ingest_node and the edge behind it.  An unavailable provider clears the *)
(* gaps, too; an answer that cannot be parsed leaves them.                 *)
Ingest ==
  /\ \E s \in {[IngestFailed(state, state.model) EXCEPT !.gaps = None]}
              \cup {IngestFailed(state, m) : m \in Captured(state.model)}
              \cup UNION {{IngestRead(state, r, p) : p \in Completed(state.model, r)} : r \in Readings} :
       Node("ingest", s, IF s.error /\ s.patches = None THEN "persist" ELSE "apply_patches")
  /\ NoScan

(* What apply_patch_set makes of them, and the helper dependencies behind  *)
(* it.                                                                     *)
Changed(m, p) ==
  LET answered == p.answers /\ m.questions > 0
      decided == IF p.settled < m.unsure THEN p.settled ELSE m.unsure
      known == (m.components \ p.removed) \cup p.components
  IN  [m EXCEPT !.components = known,
                !.linked = (@ \ (p.removed \cup p.unlinked)) \cup (p.linked \cap known),
                !.hosted = (@ \ p.removed) \cup (p.hosted \cap known),
                !.rated = (@ \ p.removed) \cup (p.rated \cap known),
                !.noted = @ \/ p.notes \/ answered \/ decided > 0,
                !.unsure = (@ - decided) + p.unsure,
                !.questions = (IF p.answers THEN 0 ELSE @) + p.asks,
                !.greenfield = @ \/ p.greenfield]

(* An update of a component may be rejected as replatforming that was not  *)
(* discussed, unless the set resolves a question.                          *)
Accepted(m, p) ==
  IF p.answers THEN {p}
  ELSE {[p EXCEPT !.hosted = @ \ declined, !.rated = @ \ declined] :
          declined \in SUBSET m.components}

Raised(m) == [m EXCEPT !.version = @ + 1]

(* Only what is accepted raises the version, even if it says nothing new.  *)
Effects(m, p) ==
  UNION {IF Changed(m, q) # m THEN {Raised(Changed(m, q))}
         ELSE IF Rebuilt(p) = NoPatches THEN {m} ELSE {m, Raised(m)}
           : q \in Accepted(m, p)}

(* _upgrade_user_technical_level, which leaves the version.                *)
Upgraded(m, signal) ==
  IF signal = "unknown" \/ m.level = "technical" THEN m ELSE [m EXCEPT !.level = signal]

(* apply_patches_node, whose interrupt the endpoint answers with a no.     *)
ApplyPatches ==
  /\ at = "apply_patches"
  /\ \E m \in Effects(state.model, state.patches) :
       Node("apply_patches",
            [state EXCEPT !.model = Upgraded(m, state.patches.signal),
                          !.patches = None, !.error = FALSE],
            "gap_analysis")
  /\ NoScan

(* apply_cloud_discovery: fills what is not set, and leaves the version.   *)
Filled(m, a) == [m EXCEPT !.hosted = @ \cup (Matches[a] \cap m.components),
                          !.noted = @ \/ ~ (Matches[a] \cap m.components) \subseteq m.hosted]

UseInventory(n, a) ==
  Node(n, [state EXCEPT !.model = Filled(@, a)], "coverage")

(* gap_analysis_node until its first await.                                *)
NotConnected ==
  /\ conn = None
  /\ Node("gap_analysis", state, "coverage") /\ NoScan

ScanCached ==
  /\ CachedInventory # None
  /\ UseInventory("gap_analysis", CachedInventory) /\ NoScan

FetchInventory ==
  /\ conn # None /\ CachedInventory = None
  /\ Node("gap_analysis", state, "fetch")
  /\ scan' = conn.account
  /\ UNCHANGED << conn >>

(* ... and after it, whatever has become of the connection meanwhile.      *)
ScanArrives ==
  /\ UseInventory("fetch", scan)
  /\ conn' = StoreInventory(scan) /\ scan' = None

ScanFails ==
  /\ Node("fetch", state, "coverage")
  /\ scan' = None /\ UNCHANGED conn

(* analyze_gaps and the concerning requirements.                           *)
Some(category, n) == {category} \X (1 .. n)
If(condition, category) == IF condition THEN Some(category, 1) ELSE {}

Sparse(m) == Undetailed(m) /\ ~ m.noted /\ m.unsure = 0

Found(m, v) ==
  Some("question", m.questions) \cup Some("grave", v.grave) \cup Some("mild", v.mild)
    \cup Some("unconfirmed", m.unsure)
    \cup If(Sparse(m), "sparse")
    \cup If(Cardinality(m.components) > 1 /\ ~ m.components \subseteq m.linked, "orphan")
    \cup If(~ m.components \subseteq m.hosted, "environment")
    \cup If(~ m.components \subseteq m.rated, "criticality")

(* Their priorities, and the five first.                                   *)
Rank == [question |-> 1, sparse |-> 2, grave |-> 3, orphan |-> 4, mild |-> 5,
         environment |-> 6, unconfirmed |-> 7, criticality |-> 8]
Before(g, h) == Rank[g[1]] < Rank[h[1]] \/ (g[1] = h[1] /\ g[2] < h[2])
TopFive(gaps) == {g \in gaps : Cardinality({h \in gaps : Before(h, g)}) < 5}

WithoutHosting(gaps) == {g \in gaps : g[1] # "environment"}

(* Mutant of the next: only the latest message is looked at.               *)
AdaptedToMessage(s, gaps) == IF s.greenfield THEN WithoutHosting(gaps) ELSE gaps

(* _adapt_gaps_to_latest_user_message.                                     *)
Adapted(s, gaps) ==
  IF s.greenfield \/ s.model.greenfield THEN WithoutHosting(gaps) ELSE gaps

(* assess_dynamic_requirement_coverage: nothing on the fast path, on a     *)
(* failure, or for a blank model.  An escalated hedge becomes a confirmed  *)
(* assumption of the model.                                                *)
NoVerdict == [grave |-> 0, mild |-> 0, escalated |-> FALSE]
Blank(m) == m.components = {} /\ ~ m.noted /\ m.unsure = 0

Escalated(m, v) ==
  IF v.escalated THEN [m EXCEPT !.noted = TRUE, !.version = @ + 1] ELSE m

Coverage ==
  /\ \E v \in {NoVerdict} \cup (IF Blank(state.model) THEN {} ELSE Verdicts) :
       Node("coverage",
            [state EXCEPT !.gaps = Adapted(state, TopFive(Found(state.model, v))),
                          !.model = Escalated(@, v), !.error = FALSE],
            "generate_questions")
  /\ NoScan

(* _discovery_user_turn_count: without a numbered line, the lines: that of *)
(* the omission and the rest of the long message.                          *)
UserTurns == IF history = 0 THEN 2 ELSE history

(* _carry_forward_remaining_gaps: an open question is resolved, any other  *)
(* gap becomes an assumption that is open.                                 *)
Count(gaps, category) == Cardinality({g \in gaps : g[1] = category})

(* Mutant of the next: whatever the gap, a question is resolved.           *)
CarriedAsQuestions(m, gaps) ==
  {[m EXCEPT !.questions = @ - Cardinality(gaps), !.noted = TRUE,
             !.version = @ + Cardinality(gaps)]}

CarriedOver(m, questions, resolved, added) ==
  [m EXCEPT !.questions = @ - resolved, !.unsure = @ + added,
            !.noted = @ \/ questions > 0, !.version = @ + resolved + added]

(* A question is looked up by its text, so that of several with one text   *)
(* only one is resolved; an assumption about a component that is gone is   *)
(* not repeated.  The patches of the others are rejected.                  *)
Carried(m, gaps) ==
  LET questions == Count(gaps, "question")
      others == Cardinality(gaps) - questions
  IN  {CarriedOver(m, questions, resolved, added) :
         resolved \in {n \in 0 .. questions : n = 0 => questions = 0},
         added \in {n \in 0 .. others : others - n <= Count(gaps, "unconfirmed")}}

(* generate_questions_node: what is asked stays with the user.             *)
CloseDiscovery ==
  /\ state.gaps = {}
  /\ Node("generate_questions", [state EXCEPT !.gaps = None, !.error = FALSE], "persist")
  /\ NoScan

CarryForward ==
  /\ at = "generate_questions" /\ state.gaps # {} /\ UserTurns >= MaxQuestionTurns
  /\ \E m \in Carried(state.model, state.gaps) :
       Node("generate_questions",
            [state EXCEPT !.model = m, !.gaps = None, !.error = FALSE], "persist")
  /\ NoScan

AskQuestions ==
  /\ state.gaps # {} /\ UserTurns < MaxQuestionTurns
  /\ Node("generate_questions", [state EXCEPT !.gaps = None, !.error = FALSE], "persist")
  /\ NoScan

(* _persist_turn: a version that is not newer is not saved.                *)
PersistTurn ==
  /\ at = "persist" /\ at' = "idle"
  /\ rows' = IF state.model.version > rows.version THEN state.model ELSE rows
  /\ UNCHANGED << state, scan, history, turn, conn, wanted >>

(* A dropped stream, a replica that dies, the token budget: the checkpoint *)
(* stays as the last node left it.                                         *)
AbortTurn ==
  /\ at # "idle" /\ at' = "idle"
  /\ scan' = None
  /\ UNCHANGED << state, rows, history, turn, conn, wanted >>

GraphStep ==
  \/ Ingest \/ ApplyPatches \/ NotConnected \/ ScanCached \/ FetchInventory
  \/ ScanArrives \/ ScanFails \/ Coverage \/ CloseDiscovery \/ CarryForward
  \/ AskQuestions \/ PersistTurn

Next == BeginTurn \/ GraphStep \/ AbortTurn \/ Connect \/ Disconnect \/ Expire

Spec == Init /\ [][Next]_vars

-----------------------------------------------------------------------------
(* Properties.                                                             *)

(* What a turn applies is what its own message was read as: a turn whose   *)
(* ingest fails never applies what an aborted one left in the checkpoint.  *)
PatchesOfThisTurn == at = "apply_patches" => state.patches \in PatchSet /\ state.whose = turn

(* Once the model has a confirmed greenfield fact, no later turn considers *)
(* asking where the system is hosted, whatever it is about.                *)
HostingNotAsked ==
  at = "generate_questions" /\ state.model.greenfield =>
    \A g \in state.gaps : g[1] # "environment"

(* The credentials that later turns scan with are those of the account the *)
(* user connected last, and none once the user has disconnected, also when *)
(* a scan with other credentials was on its way.                           *)
DisconnectHolds ==
  \/ conn = None /\ wanted = None
  \/ conn \in Connection /\ conn.account = wanted
=============================================================================
