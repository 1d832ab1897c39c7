# Migration Agent: TLA+ models and proofs

The program is a conversational planner for enterprise migrations
(`src/README.md`). A user talks to a *session*: messages build a model of the
existing architecture (discovery), gate 1 accepts it, further messages lead to a
migration plan (planning), which is reviewed and discussed (review), and gate 2
approves it for export. Requests are handled by stateless FastAPI replicas over
PostgreSQL and Redis; each message runs a LangGraph graph of LLM calls and
deterministic nodes. All paths below are relative to `src/backend/app/`.

What can go wrong in it is, first, concurrency over the rows of one session: a
message turn lasts minutes, streams to a client that may go away, and shares its
rows with other messages, imports, retries and the two gates. And second, what
long sequences of LLM-proposed patches, interleaved with patches the code adds on
its own, do to the one architecture model. Then there are the graphs, whose
checkpoint outlives the turn that wrote it, whether or not that turn came to its
end; runs that pause for a decision of the user; and calls that are made at once,
retried and switched to another provider over one token meter. This project models
all of these, and the algorithm that puts a migration in order.

## The system: inventory

| Component | State it keeps | Operations | Interacts with | Hard behaviour |
|---|---|---|---|---|
| Session turns: `api/routers/sessions.py`, `services/session_service.py`, `db/models.py` | `sessions.status`, `.token_usage`, `.langgraph_thread_id`; `model_versions`, `plan_versions`, `patch_audit_records`, `processed_messages`; findings, conversation, context | `post_message`, `event_stream`, `_persist_turn`, `accept_model`, `approve_plan` | turn lock, graphs, meter, checkpointer | a handler reads, awaits for minutes and writes; disconnects; retries; gates without the lock |
| Turn lock: `security/session_lock.py`, `in_memory_redis.py` | one Redis key per session | acquire, release, expiry | every handler that edits a session | lapse of the TTL under a working holder, a holder that dies |
| Imports: `api/routers/integrations.py`, `integrations/` | none of their own | catalog, document and AWS import; AWS connect | turn lock, patch engine, model rows | race with turns and with gate 1 |
| Patch engine: `core/patch_validator.py`, `core/patch_applier.py` | pure: model x patches -> model x results | nine patch operations | discovery, planning intake, review, imports | dangling references, versions, partial application |
| Discovery graph: `orchestration/nodes/discovery.py` | graph state and checkpoint | ingest, apply, gap analysis, questions | gateway, patch engine | fallback paths that patch outside the audited results |
| Planning and review graphs: `orchestration/graph.py`, `nodes/planning.py`, `nodes/review.py` | graph state and checkpoint | intake, context, sequence, component plans, strategy, assemble, review, refine, finalize | gateway, graph engine, assembler, rules | bounded refinement; state left over in the checkpoint; partial failures |
| Checkpointer: `orchestration/checkpointer.py` | checkpoints by thread | load, save, reset of the thread | graphs | stale keys, decode errors |
| Graph engine, assembler, coverage: `core/` | pure | waves, cross-wave edges, impact, plan assembly | planning | cycles, components left out |
| LLM gateway: `llm/gateway.py`, `llm/providers/` | token meter per turn, sticky fallback flag | complete, retry, escalate, fall back | every node that calls an LLM | concurrent calls on one meter and one flag |
| AG-UI endpoint: `api/routers/ag_ui.py` | cached agents and meters per process | run, interrupt, resume | turn lock, discovery graph, `_persist_turn` | stale cached meter, resume after other turns |
| Accounts, tokens, rate limiter | users, token versions, counters per window | login, refresh, revoke, admin; check | every endpoint | revocation against refresh; window edges |
| Review rules, gap analyzer, confidence, cost, exporter | none | pure functions | graphs | none a unit test does not reach |
| AWS session cache, prompts, schemas, configuration, tracing, migrations, frontend | - | - | - | not part of the session's logic |

What makes each correct: the **session** promises that its two gates freeze what
they say, that planning works from the newest model, that no turn's patches are
lost, that a message is applied at most once and can be retried until it is, and
that its budget holds; the **lock** that turns exclude one another and that a
session never stays locked; the **patch engine** that a model never has a dangling
reference and that its version counts the applied patches; the **planner** that its
loops end, that every component is planned once, in a wave after those it
depends on, and that a reviewed plan is whole; **discovery** that a turn applies what
its own message said and that a settled question stays settled; the **gateway** that
calls end and that the budget is exceeded by no more than what was in flight; the
**AG-UI endpoint** that nothing is saved that the user had to approve and did not.

## Modules

| Module | Models | Used by |
|---|---|---|
| `TurnLock` | the Redis key: `Acquire` is `SET NX PX`, `Release` the compare-and-delete script, `Expire` the TTL. `lapsed` remembers whose key Redis expired | `SessionTurns` |
| `SessionTurns` | one session's rows and the requests on it; every handler split where it awaits around shared state | `SessionTurnsMC`, `SessionTurnsProofs` |
| `SessionGates` | the abstract session: one atomic step per turn, import or gate | instance in `SessionTurns`; `SessionGatesProofs` |
| `SessionTurnsMC` | the symmetry of the request slots; the `.cfg` files instantiate it | the runs |
| `PatchEngine` | the nine patches, what `validate_patch` accepts and what `_apply_single` does, as operators on one model | `PatchTurns` |
| `PatchTurns` | the sets of patches of a session's turns, applied one patch per step | `PatchTurnsMC`, `PatchTurnsProofs` |
| `PatchTurnsMC` | the patch sets proposed on small instances | the runs |
| `DiscoveryGraph` | the nodes of the discovery graph over its checkpoint, and the cache of the AWS connection | `DiscoveryGraphMC`, `DiscoveryGraphProofs` |
| `PlanningGraph` | the nodes of the planning and review graphs over their checkpoint, and the rows a turn leaves | `PlanningGraphMC`, `PlanningGraphProofs` |
| `MigrationWaves` | waves, assembly, and the structural review of the plan | `MigrationWavesMC`, `MigrationWavesProofs` |
| `LlmGateway` | concurrent calls on one meter over two providers | `LlmGatewayMC`, `LlmGatewayProofs` |
| `AgUiTurns` | discovery turns by both endpoints, with pauses, and imports | `AgUiTurnsMC`, `AgUiTurnsProofs` |
| `...MC` | the values a `.cfg` cannot write | the runs |
| `...Proofs` | inductive invariants and theorems | |

The modules overlap on purpose and meet in three places. What is one step of
`SessionTurns` (`FinishGraph`) is `DiscoveryGraph`, `PlanningGraph` and `PatchTurns` at
three levels of detail; what those take as any outcome of an LLM call is
`LlmGateway`; and the waves that `PlanningGraph` only knows as a set of components are
`MigrationWaves`.

### How SessionTurns corresponds to the code

A *slot* `r \in Requests` is a request in flight, `pc[r]` its place in the handler
and `view[r]` the local variables that survive an await: the session row as read
on arrival (`status`, `usage`: `expire_on_commit=False`, and the row is never read
again), `model_before`, the model and plan that leave the graph, and whether the
row about to be written was there when it was looked for.

| `pc` | Code | Actions |
|---|---|---|
| `idle` | the request arrives; `get_session_for_user` and the status check | `Arrive` |
| `acquire` | `session_lock.acquire` | `AcquireLock`, `RefuseBusy` |
| `claim` | `claim_message` (commits at once), then the meter's first check | `ClaimMessage`, `RefuseDuplicate` |
| `refuse`, `unclaim` | over budget: release the lock, then the claim | `RefuseOverBudget`, `ReleaseClaim` |
| `read` | `latest_model` | `ReadModel` |
| `stream` | the first part of `event_stream`, before its `try` | `OpenStream`, `GateErrorInStream` |
| `run` | the graph, or an import's fetch and patches | `FinishGraph`, `ApplyImport`, `FailGraph` |
| `persist` | the commit of `_persist_turn` or of an import | `PersistTurn`, `PersistImport`, `PersistConflict` |
| `release` | `finally: session_lock.release` | `ReleaseLock` |
| `gateRead`, `gateCheck`, `gateCommit` | `accept_model`, `approve_plan`: read the latest row, look for the row to write, commit | `ReadForGate`, `RefuseGate`, `CheckRow`, `AcceptModel`, `ApprovePlan`, `GateConflict` |
| `dead` | nobody executes the handler any more | `Reap`, `ExpireDead` |

Abstractions of the data:

* An architecture model is its version, its status and the set of requests
  whose structural patches it holds; a plan is its version, its status and the set
  held by the model it was planned from. A request's serial stands for its patches.
* Token usage counts turns: a message or a document costs one.
* A graph run is one step with every result its nodes and edges allow:
  any number of patches up to `MaxPatches`, structural or not, and, in planning or
  after a structural change in review, a reviewed plan of version
  `1..1+MaxRefine` (assembled as version 1, raised by each refinement). The nodes
  are in `DiscoveryGraph` and `PlanningGraph`.
* `save_model_version`'s look for an existing row happens together with the end of
  the graph, of which nothing is shared. The commit is a step of its own.
* Plans in the rows are never drafts: every path that returns a plan passes
  `finalize_review_node`, so `approve_plan`'s check for a draft has no effect.
* Left out: conversation turns, migration context, findings and review quality
  rows, the LangGraph thread and its checkpoint (so also the retry after a decode
  error), and what the response says.
* `Crash` is a replica that dies, an exception no handler of the request catches
  before the stream's `try`, or a release whose Redis error is swallowed.
  `Disconnect` cancels the generator: at `stream` it has not come to its `try`, so
  nothing of it runs; later only the `finally` does.
* The client is the environment: `Arrive` offers a fresh message id or an earlier
  one, at any time, up to `MaxRequests` requests.

The four *faults* (`disconnect`, `crash`, `lapse`, `gate_race`) are switched by the
constant `Faults`, so that a run, or a theorem, says what it assumes.

### How PatchEngine and PatchTurns correspond to the code

`PatchEngine` splits `validate_patch` by what a patch is about (components,
dependencies, assumptions, questions) and by its two gates: `GatePasses` says whether
the patch may be applied without a discussion, `IsValid` whether it fits the model.
A *gate record* holds how `apply_patch_set` was called: structural confirmation
required (review), a resolution in the same set (`allow_high_impact_changes`, which
also lifts the first), an approval (`bypass_confirmation`).

`PatchTurns` walks through a turn; `at` says whose set is in the `queue`:

| `at` | Code | Action that starts it | `PatchResult`s |
|---|---|---|---|
| `apply` | the LLM's set, completed by `ingest_node`, in `apply_patches_node` | `Ingest` | returned |
| `import` | a catalog's set | `ImportCatalog` | returned |
| `capture` | the message kept verbatim when the LLM call failed | `IngestFails` | dropped |
| `helpers` | `_apply_obvious_helper_dependencies` | `InferHelpers` | appended |
| `risks` | `_record_escalated_risks` in the gap analysis | `EscalateRisks` | dropped |
| `carry` | `_carry_forward_remaining_gaps` at the question budget | `CarryForward` | replace the turn's |
| `persist`, `idle` | `_persist_turn`; between turns | `EndGraph`, `PersistTurn` | |

`RejectPatch` and `ApplyPatch` are one round of `apply_patch_set`'s loop each. In planning
and review only `apply` runs. Turns here are sequential: races between them are
`SessionTurns`' subject.

Abstractions: a component is the set of high-impact platform terms in its prose, which
is all the replatform gate looks at; an update keeps or replaces each field's
prose, hence its terms (`keeps`). What an assumption says is one of `Topics`. Ids are
positions: both lists only grow, so `A<n>` and `Q<n>` are. A patch with no wording,
no field or a bad environment is `Blank`, `blank` or not `wellFormed`. Which
completions `ingest_node` makes depends on the intent of the message, which is the LLM's
judgement: `Completions` offers the bare set, the confirmation of stated assumptions and
the record of a target answer. The short answers about environments and
dependencies, the minimal draft and the completeness critic only append patches
to the set, which the bare set covers as long as no id is predicted. Cloud
discovery's direct additions in the gap analysis and the inferred level of the user
are left to `DiscoveryGraph`. `CarryForward` takes any cut of at most `MaxGaps` gaps that the ranking
allows: open questions come first, in any order among themselves, then assumptions
about the components that other gaps name; of questions with one text the lookup finds the
last (`Lookups`), so a resolution of it may come twice and the second is rejected.

### How DiscoveryGraph corresponds to the code

`at` is the node that runs next. `ingest_node` and `apply_patches_node` are one step
each, as nothing they share with others changes while they await; `gap_analysis_node`
is cut at its awaits into `NotConnected`, `ScanCached`, `FetchInventory`, `ScanArrives`,
`ScanFails` and `Coverage`, since the connection may be replaced while a scan is on
its way (`Connect`, `Disconnect`, `Expire` are other requests). `GenerateQuestions`
asks, or carries the gaps forward at the question budget. A turn dies at any node
(`AbortTurn`) and leaves the checkpoint, with `_patch_set` and `_gaps` as they were.

A message is a `Reading`: the intent that the LLM judges it to have, the patches
it proposes - additions, removals, confirmations, answers - and the technical level it
infers. `Completed` is what `ingest_node` adds: the target summary, the minimal
draft, the captured fact, the critics' remarks, the automatic confirmation; each builds the
set anew, without the level (`Rebuilt`). Where the code predicts the id of an
assumption and a question that is resolved takes it (finding 7), the summary stays open, and
`AutoConfirm` may leave as many of the stated assumptions unconfirmed. A model is
reduced to what the gap analysis looks at: which components are linked, hosted and
rated, whether some assumption is settled, how many assumptions and questions are
open, and to its version and the user's level. `Effects` applies a set as a whole: updates may be declined as
replatforming, and the version rises by one if anything is accepted, also something that
says nothing new, and not if nothing is; `Upgraded` then raises the level and leaves the version.
Questions are counted: that several may have one text shows in `Carried`, which
may resolve fewer than were cut. Prose, ids and single patches are `PatchEngine`'s subject.

### How PlanningGraph corresponds to the code

One action per node; `Goto` is the edge, with `_planning_intake_ready`,
`_context_ready`, `_no_error`, `_model_materially_changed` and
`should_continue_refining` behind it. `state` is the checkpoint, and keeps what the
initial dictionaries of `event_stream` (`BeginPlanning`, `BeginReview`) do not set;
`returned` says whether `accumulated_values`, which is what `_persist_turn` looks at, has
a plan; `rows` are the session's rows. A halted turn is persisted, a dead one
(`AbortTurn`: a dropped stream, a crash, an exception) is not.

A component's plan is `sound`, `weak` (the rules object) or `retired`; a plan
has besides it what is derived from it, because the derived parts are updated in
different places: mappings, waves, cost entries, risks. A finding is who made it, in which
round, about whom. Of the strategies, `Parts` says whether they have go/no-go criteria and
rollback steps; without the latter, rule 004 names the components of the first tier. The
roadmap, prose, scores, and rules 001, 007 and 008 are left
out; 001 and 007 are in `MigrationWaves`, where the order of components is known.

### How MigrationWaves corresponds to the code

`Scc` is networkx's condensation and `PlaceWave` one round of `compute_sequence`'s loop, for
any component that is next in some topological order. `AssemblePlan` is
`assemble_plan` with the cross-wave groups attached to both waves and the risks they
become; `Refine` replaces component plans as `refine_node` does. `Rule001` to `Rule007`
are translated from `review_rules_engine.py`, and a model over the capacity is
refused as in `compute_sequence_node`. Dependencies of several kinds between the same two
components are one edge of the graph, as in networkx, and counted by `parallel` for the capacity.

### How LlmGateway corresponds to the code

`Components` and `Strategies` are the calls that the two nodes gather. A component's call begins
when the semaphore has a slot (`MayBegin`), so that more of them than `Concurrency` follow one
another in one gather; the strategies' calls have no semaphore. A turn runs `ingest` (one call, the only one on the cheap tier), or
`components`, `again` for those that failed, and `strategy`. `Begin` looks the route up,
`Attempt` and `OverBudget` are the two results of `check_before_call`, `AnswerOk`,
`AnswerInvalid` and `Escalate` the loop, `FormatRejected` and `CodeVectorFails` the primary
provider, `GeminiFails` the secondary, `Deadline` the one `asyncio.timeout` around a
call. `gather` ends at its first failure and leaves the other calls running: they belong
to an earlier `turn` then and record to a meter that nobody reads.

Tokens are only counted; an answer costs one of `Costs`. Which error a provider raises is
arbitrary. A call that is left over from an earlier turn is begun again in a later one only when it
is over; the code's left-over calls are more and on meters nobody reads.

### How AgUiTurns corresponds to the code

A request is a fresh run, a decision (`resume`), a message by `POST /messages`, or an
import. `thread` is the checkpoint: the node that is next, the model and `_patch_set`,
and whether `interrupt()` has paused it. `StartRun` reads `model_before` under the lock and
seeds the graph; `Interrupt`, `Resume` and `ApplyUngated` are `apply_patches_node`, which runs
again from its top when it is resumed; `EndStream` is the `finally` of the AG-UI
stream, which also takes a run that died in the middle for a paused one; `EndTurn` is the
other endpoint. A model is its version and whose changes it has.

Of `ag-ui-langgraph` itself, which is not in the repository, two things are
assumed: a decision resumes the pause that is pending, and a fresh message on a paused
thread may only show its card again.

Mutant operators, named as such in their comments, stand beside the action they
weaken; no specification uses them. They show that each property of a passing run
depends on the code it is about.

## Runs

| Run | Question | Instance |
|---|---|---|
| `turns_any` | what holds whatever happens | 2 slots, 4 requests, messages and both gates, all faults |
| `turns_calm` | is a well-used session a sequential one | 2 slots, 5 requests, one refinement, disconnects |
| `turns_live` | is a locked session unlocked again, and when does a racing gate cost a turn's changes | 2 slots, 3 requests of four kinds, disconnects, crashes and gate races |
| `gate_race` | does gate 1 leave an accepted model | finding 1 |
| `patches` | what do arbitrary sequences of patch sets do to the model | 2 components, 2 terms, 16 patches in all pairs and two longer sets, catalogs, helpers, one risk per turn, 3 gaps in a cut, up to version 4 at the start of a turn |
| `discovery` | what may a turn inherit from dead ones and from earlier facts | 2 components, 2 accounts, 4 readings of a message, 2 turns, a question budget of 3 lines |
| `planning` | is what leaves the review a plan of the model it is for | 2 components, one dependency, strategies with and without both parts, one refinement, 2 turns |
| `halted_replan` | does the plan in review cover the model | finding 10 |
| `waves` | is the order right, and does the review accept it | every graph with up to 4 components and 4 dependencies, and those with 5 or a parallel one as over capacity |
| `gateway` | how far is the budget exceeded, and do calls end | 2 components in turn through 1 slot, 2 strategies at once, one retry per tier, both providers, 3 formats, 2 turns |
| `agui` | what do pauses, decisions and imports do to the saved models | 4 requests of any kind, 1 or 2 versions each |
| `paused_import` | is a turn serialized when it pauses | finding 11 |

What the passing runs show:

* `turns_any`: `LockOwnedUnlessLapsed` - a request in its critical section owns the
  key unless Redis expired it, so a late turn never unlocks its successor;
  `MessageAppliedOnce` and `ClaimExclusive` - idempotency of messages across
  retries, refusals, crashes and lapsed locks, although the claim and the lock
  are taken and given back in four different orders;
  `NothingAcceptedBeforeGateOne` - no race puts an accepted model into a session in
  discovery; `TypeOK` also holds both uniqueness constraints, which a lapsed lock
  or a racing gate would break without `PersistConflict`.
* `turns_calm`: `TurnsSerialized` - a turn persists over the model it started from;
  `NoLostUpdate` - what the audit calls applied is in the newest model;
  `ImplementsGates` - the handlers implement `SessionGates` under the mapping
  `phase <- status`, `architecture <-` the newest model row, `agreed <-` the newest
  accepted row, `plan <-` the plan row of the highest version. It matters that
  the row read on arrival may be stale: a message that arrived in planning and runs in
  review is one of the abstract session's discussions.
* `turns_live`: `SessionUnlocked`, under weak fairness of each handler's own steps
  and of the expiry of a dead holder's key; `OnlyRacedGatesLose` - a racing gate does cost
  structural changes, but nothing else does as long as no lock lapses. If gate 1 commits version *n+1* after
  a turn read *n* and before it looks for its own *n+1*, `save_model_version` finds the row and skips the
  turn's, whose patches are audited all the same. Or the turn wrote its draft first: then
  the newest row is no accepted one, a planning turn works from the accepted
  model below it and may write over the draft's changes or be skipped itself. Every step that
  loses an audited change is the commit of a turn or import in one of these two windows (`GateRaced`).
  The run has the first; the second takes a fourth request and is in the theorem.
* `patches`: `NoDanglingDependency` - whatever is removed and rewired;
  `AnswersMatchResolutions` - each resolved question has one answer, although three
  parts of the code resolve questions in the same turn; `DecisionsFinal` - nothing
  decided is reopened, rewritten or renumbered; `NoSilentReplatform` - the user is
  asked before a set is applied, but each patch is judged again on the model as
  it is then; `AuditExplainsVersions` - the rows name each version once, up to the point
  where results are dropped (finding 9); `RisksConfirmed` - the ids predicted for
  risks are right, unlike those of finding 7.
* `discovery`: `PatchesOfThisTurn` - the checkpoint of a turn that died before
  `apply_patches` has its patches, and a later turn whose ingest fails must not apply
  them; `HostingNotAsked` - a fact confirmed once keeps a question away in later turns,
  which is decided from two sources; `DisconnectHolds` - a scan that was on its way
  does not bring a connection back; `TypeOK` includes that the carry-forward, which
  finds questions by their text, never resolves more than are open; it may resolve fewer.
* `planning`: `PlanIsWhole`, `RisksAreCurrent` and `RowsSupportReview` - although a turn
  starts on whatever an earlier one left, and refinement replaces parts of a plan whose
  derived parts are kept elsewhere; `OnlyHaltsUncover` - the model of the session and the
  plan it shows come apart in the two ways of findings 2 and 10, and in no other;
  `TurnEnds` - the loop counts each round, also one with nothing to do.
* `waves`: `DependencyFirst` and `SharedOnlyInCycles` define the right order without the
  algorithm, by all numberings that respect the dependencies; `StructureNeverFlagged` -
  four of the rules can never object to a plan assembled here, so that they cost
  no round of refinement; `PlanFinishes`.
* `gateway`: `MeterBounded` - at most `Budget - 1` plus one largest answer for each call
  that can be let through together, however many components wait for a slot; `CallsEnd` - through retries, escalation, rejected formats and
  the switch between providers.
* `agui`: `UnapprovedNotKept`, `AppliedOnce` and `VersionsRise` - a run is resumed twice,
  superseded, declined by the other endpoint, or dies between its nodes;
  `OnlyResumedRunsLose` - only a decision saves a model that lacks a change of the newest one.

Deadlock is not checked where a run ends at a bound on turns, requests or versions: in
`patches`, `discovery`, `planning`, `halted_replan`, `waves`, `gateway`, `agui` and `paused_import`.

Bounds. Two slots are enough for every race in the code: each involves one request
between its read and its write and another one that commits in between; a third
would only queue behind the same key. Four requests allow a session to be described,
accepted, planned and approved with two of them overlapping, or a message
to be sent, retried and raced by a gate; five
allow a second discussion in review. One
patch per turn makes versions collide exactly when code paths race (`v+1` twice);
with `MaxRefine = 1` plan versions restart and collide too. `turns_any` leaves the
imports to `turns_live`, as they pass through the same critical section as a
message without its claim. Slots are interchangeable and `SYMMETRY` is used for
the safety runs only.

For the patches, two components give every relation a patch can have to a
dependency (source, target, neither, both), two terms a platform and its
replacement, and pairs of patches every effect of one patch on the validity of the
next; the steps after the LLM's set make sequences of up to eight patches in a
turn, and `MaxVersion` leaves room for three turns with effects. One dependency
kind leaves out the disambiguation of `remove_dependency`, which the proofs cover. `MaxGaps` cuts the
carried gaps at 3, where the code has 5 (`discovery.py:1257`), so that the cut happens among the few gaps of this instance; the proofs have any.

Two turns are enough for what a checkpoint can do: one leaves something, one finds
it; the proofs have any number. Two components give a plan a retired part and a
dependent one, and one refinement is enough to make each derived part differ from what
it was derived from. `waves` has all graphs of four components and four dependencies: cycles with a
tail, two cycles, diamonds, chains; the theorems have any graph. Two strategy calls are what it takes to pass
the check together, to switch the provider under another, and to be left running; two component calls
and one slot, for a call to begin when another has spent what was left. Slots reused beside a running call
are in the theorem;
`FormatStart = 0` gives all three formats, and the configured spare model, off in the
run, only adds one more try in the same place, which the proofs include. In `agui`, four
requests allow a run to be paused, the model to be changed, and the decision to be
sent twice.

Fairness. `FairSpec` has `WF(Step(r))`: what the server does on its own once a
request is there. asyncio resumes a handler whose await is done; every LLM call has
a timeout (`config.py:73-75`) and a bounded number of retries, so a graph ends or raises; Redis expires
keys. `FairSpec` of `PlanningGraph` has `WF(GraphStep)`: LangGraph runs the next node as long as the
request lives. That of `LlmGateway` has `WF(CallStep(c))` for each call, as the deadline ends
every wait, and that of `MigrationWaves` `WF(Next)`: no step of it awaits anything but LLM calls. Nothing is assumed of clients (`Arrive`, `Disconnect`), of crashes, or of a
lapse under a living holder.

`turns_calm` assumes that no lock lapses and that gates are called alone. Neither is
enforced: the TTL is 120 s while one planning call may take 300 s (`config.py:74`),
and the web app disables its gate buttons only during another gate call. Finding 6 and the
run `gate_race` show what either assumption is worth.

## Findings

1. **Gate 1 can be passed without an accepted model** (`gate_race`).
   `accept_model` takes no turn lock; a turn that commits version *n+1* between the
   gate's read and its look for the row makes `save_model_version` skip the
   accepted model silently, and the status advances. From then on every message
   ends in `GateErrorInStream`. The same race lets a turn or an import that began in
   discovery write a draft newer than the accepted model, which planning never
   reads; `integrations.py:101-103` names that case as one the status check prevents. And a gate
   that commits version *n+1* first makes `save_model_version` skip a turn's own, with its changes.
   The race is the only way: without it, and without a lapse, the theorem `GateOneHolds` states what
   the run refutes.
2. **A replan may stay invisible**. `assemble_plan_node` starts at version 1
   again, while `latest_plan` takes the highest version.
3. **A dropped stream leaves its claim**, so the retry that
   `claim_message` wants to permit is refused for good.
4. **The budget can be exceeded**, since usage is read before the lock.
5. **The lock is not always released in a `finally`**: `event_stream` can
   raise before its `try`. `SessionUnlocked` shows that the TTL covers it.
6. **Turns are not serialized once the lock lapses**. The TTL is shorter than
   a turn may be, and nothing renews it. Of two turns that overlap, the later one's
   version is silently skipped, or rejected by the constraint. Three properties still hold
   then: `LockOwnedUnlessLapsed`, `MessageAppliedOnce`, `ClaimExclusive`.
7. **A predicted id may be wrong**: a target answer that also resolves an
   open question stays unconfirmed, as the answer takes the id predicted for it;
   `auto_confirm_directly_stated_assumptions` counts in the same way.
8. **The accepted model is not frozen in planning**. Structural patches
   need a confirmation only in review, and there any resolution in the set, even a rejected
   one, lifts it.
9. **Not every patch is audited**: the results of risks and captured messages are dropped,
   and a turn that carries gaps forward audits nothing else.
10. **A halted replan leaves a plan that lacks components** (`halted_replan`): model and
    old plan are persisted together, and nothing compares them before gate 2. By
   `OutgrownOnlyByHalts`, only this and finding 2 let the model outgrow the plan.
11. **A pause gives the lock away** (`paused_import`): an import made meanwhile is
    missing from the model the resumed run saves. By `OthersLoseNothing`, no other request
   loses a change.
12. **Discovery reads messages with the cheap model**, where the comment above the call says why it
    must be the strong one.
13. **A failed intake in planning or review applies an earlier turn's patches**, if that turn died
    between intake and apply; discovery clears them.
14. **A planning turn inherits the refine count and findings** of one that died.
15. **The retry after an unreadable checkpoint reads the same thread again.**
16. **Refinement leaves roadmap, validation summary and costs** as they were for the former plan.
17. **A call retried across a switch sends CodeVector's model name to Gemini.**
18. **The sticky fallback is not sticky** when a transient failure of an earlier call comes after it.
19. **What failed turns, invalid answers and orphaned calls spend is not counted.**
20. **What the cloud scan fills in is not saved**, unless a patch raises the version in the same turn.
   Neither is a technical level inferred from the message (`sessions.py:862` looks at the version
   only), although the docstring says that it never reverts. By `OnlyScanAndLevelLeft` a discovery
   turn leaves nothing else unsaved, and by `EveryPatchIsSaved` no patch ever is.
21. **A scan of one account may be cached as another's.**
22. **Greenfield is remembered only if stated early**, with the right intent.
23. **The question budget counts lines, not turns**, and five gaps at most are carried; an
   assumption about a component that is gone is rejected, and of several open questions with the
   same text only the last is resolved.
24. **The confidence ignores requirement gaps** that discovery still asks about.
25. **A failed ingest ends the turn**, where a comment counts on nodes downstream.
26. **The cloud note overwrites the coverage note.**
27. **The AG-UI meter is cached**, so a later run overwrites usage; and the endpoint saves no agent turn.
28. **The technical signal of a message is lost** whenever a completion adds to its patch set,
   which is built anew without it (`patches.py:168-170`).

Findings without a run are what reading the code for the model brought up; each is
quoted in `PROJECT.json`.

## Proofs

`SessionTurnsProofs` proves, for every set of requests, every bound and every set of
faults (from `ConstantsAssumption` and `NoTokenAssumption` only):

* `TypeCorrect`: `Spec => []TypeOK`. `TypeOK` is not inductive: a handler that reads a
  row needs one to exist. `TypeInv` adds `RowsOK` (the first model row stays and
  each table has a newest row, so the `CHOOSE`s choose) and `KindsOK` (which kinds of
  request are at which `pc`; a message, and only a message, carries an id; a gate
  about to commit holds a plan). Lemmas `NewestAfterWrite`, `SaveModelOK` and
  `SavePlanOK` show that inserting and overwriting rows keep the tables well formed,
  where the absence of a conflict gives the uniqueness of versions.
* `LockOwned`: `LockOwnedUnlessLapsed` is inductive relative to `TypeOK`. Steps
  are grouped by what they do to the lock and the section
  (`SectionNotEntered`); the two releases and `Acquire` are cases of their own.
* `AppliedOnce`, `ClaimsExclude`: from `ClaimInv`, which adds that an applied message
  stays claimed and that a claimed message at work is not applied yet. The lock
  is not used: idempotency survives its lapse.
* `GateOneFirst`: from `GateOneInv`, which adds that no handler but gate 1's holds an
  accepted model while the session is in discovery.
* `ReleaseApproaches`: `StepsToRelease` counts how far a `pc` is from giving the lock back.
  `LockHolders` says that whoever holds the key is on that way or dead, and every
  step either keeps the holder where it is or brings it nearer: the part of
  `SessionUnlocked` that is no matter of fairness.

For every set of faults without `lapse` (`NoLapse`: gates may race turns):

* `SerializedDespiteGates` (`TurnsOverNewestEdits`, which no run checks): when a turn or import persists, the newest row
  still has the changes of the row it started from. From `RaceInv`: between the row that
  a turn in the section read and the newest one only gates have written, and they filled every
  version with the same changes (`SectionBase`); a gate about to write is at most one version above
  the newest row, and then has its changes (`GateBase`). What the turn then writes may still be
  skipped.
* `LossNeedsRacedGate` (`OnlyRacedGatesLose`): from `LossInv`. A turn in the section has read the newest
  row, unless an accepted one came after it (`ReadRow`), and works from what it read, unless gate 1 raced
  it or there is an accepted row below (`WorkRow`). Hence a turn that was not raced keeps all
  changes of the newest row (`UnracedTurnKeeps`), and by `GateBase` no gate loses any
  (`OthersLoseNothing`).

And for every set of faults without `lapse` and `gate_race` (`Calm`: disconnects and crashes
are allowed; with either of the two the properties are false, as `gate_race` shows):

* `NothingLost` (`NoLostUpdate`) and `EndToEnd` (`TurnsSerialized`): from `CalmInv`, which says of
  each request what its local state has to do with the tables. A turn between its read
  and its commit holds the newest model (`TurnFollowsTables`), what it is about to persist
  continues that row and has a version no row has (`ResultContinues`), and a gate is about
  to write one version above what it read (`GateFollowsTables`). Others cannot disturb that:
  the lock keeps turns out (`SectionAlone`, from `LockOwned` and `LapsedAreDead`) and `GatesAlone`
  the gates (`OthersOutside`). The status read on arrival stays on the right side of
  both gates (`StageKept`), so the row `accepted_model()` returns is the newest one
  (`NewestIsAccepted`).
* `GatesImplemented` (`ImplementsGates`): the refinement itself. `PersistIsTurn` maps each persisted
  turn or import to one atomic turn of `SessionGates`, `GateIsGate` the two gates, and
  `OthersInvisible` all other steps to a stutter. `AgreedModel` computes the mapped
  `agreed`; `WrittenPlan` shows that a saved plan becomes the one shown or leaves it.
* `GateOneHolds`: from `NewestIsAccepted`, for all phases after discovery.
* `PlanRestsOnAccepted` and `NothingAfterExport`: the abstract promises, said of the rows.
  `Promise` is `SessionGatesProofs` under the refinement mapping, so that its theorem
  `PlanCovered` is one about the handlers once `PromiseKept` has shown that they implement
  it. `NothingAfterExport` adds to it that no request in flight survives gate 2
  (`InFlight`).

`SessionGatesProofs` proves the abstract session's promises from one inductive
invariant: `NewestModelPlanned`, `PlanInPhase`, `PlanCovered` and `ExportIsFinal`. By
`GatesImplemented` they carry over to the handlers of any calm session.

`PatchTurnsProofs` proves, for any components, terms, kinds and patch sets (from
`PatchTurnsAssumption`, which types the sets):

* `PatchTypes`: `TypeOK` is inductive. `EffectTyped` does the work, one case per
  patch: what `IsValid` grants is what the effect needs (a component to update, an
  assumption to confirm). The sets that the code itself builds are shown to be
  patches (`CompletionsTyped`, `OtherSetsTyped`).
* `ReferencesResolve`, `DecisionsStand`, `AnswersBalance` and `ReplatformsDiscussed`: each
  follows from a lemma on the effect of one patch (`StructureEffects`,
  `EffectKeepsDecisions`, `ResolutionEffect`, `UngatedEffect`), as `OtherStepsKeepModel`
  shows that no other step changes the model. `AnswersBalance` counts finite sets that grow
  together.
* `AuditComplete`: from `AuditInv`, which adds that a turn never lowers the version, that
  the queue is empty between turns and that only discovery has further sets.
* `RisksGetTheirIds` (`RisksConfirmed`): from `RiskInv`, which describes a half-applied set by how
  many risks are still to be added and how many confirmed (`Escalating`). Its next
  patch is always accepted (`EscalationHead`) and brings it nearer to its end
  (`EscalationStep`). It is assumed that no proposed patch carries the topic `risk`
  (`OnlyEscalationsAreRisks`), which is the model's name for what `_record_escalated_risks` adds.
* `EveryPatchIsSaved`: relative to `AuditInv`. `_persist_turn` saves a model only if its version
  is above the one the turn began with; whatever changes the model within the turn raises it
  (`VersionStep`), in the sets whose results are dropped, too.

`DiscoveryGraphProofs` (from `DiscoveryAssumption`): `TypeCorrect`, `OwnPatches`, `HostingSettled`,
`ConnectionsHold` and `OnlyScanAndLevelLeft`. `IInv` adds `Flow` to `TypeOK` and `PatchesOfThisTurn`: a scan is on its way at
`fetch`, and the gaps that `generate_questions` works on are those of the model it has, of
which the carry-forward's bound on resolved questions and `HostingNotAsked` are consequences.
`OnlyScanAndLevelLeft` (`OnlyScanAndLevelUnsaved`) needs of each node that it raises the version or changes at most
what the scan fills in and the level, which only becomes technical (`SameButScanAndLevel`, `OthersSupersede`).

`PlanningGraphProofs` (from `PlanningAssumption` and `NoneAssumption`): `TypeCorrect`, `RowsSupport`,
`WholePlanReviewed`, `RisksOfThePlan`, `OutgrownOnlyByHalts`, `TurnsWriteWholePlans` and `TurnsRunOut`. `IInv` adds to `TypeOK` and `RowsSupportReview` what each node
can rely on although the checkpoint is an old one (`Flow`: waves, outputs and strategy
from this turn once their nodes have run, the plan under review that of this model) and
when `returned` means that the plan is reviewed (`Returned`). `WholePlanReviewed` and `RisksOfThePlan`
follow from what the invariant says of a plan under review. `PlanOfTurn` adds where the plan in the
checkpoint comes from: in review it is the latest row's until this turn has assembled one, which it
does only after it applied patches. Hence what a persisted turn may write (`Persisted`):
`TurnsWriteWholePlans` is what `SessionTurns` takes a graph run to do
(`FinishGraph`), and `OutgrownOnlyByHalts` leaves the halt and the hidden row. `TurnsRunOut`
lowers `StepsLeft`, whose bound counts a refinement for as many rounds as the budget has,
although the iteration it starts from may be an earlier turn's (finding 14).

`MigrationWavesProofs` (from `WavesAssumption`): `WavesFollowDependencies`, `WavesAreSmallest`,
`TypeCorrect` and `StructureHolds`, for graphs of any size. `Order` says that waves are numbered
without holes, that what is placed is closed under dependencies and that a wave is one
strongly connected component; `WavesAreSmallest` then needs, for two components in
different waves, a numbering that keeps them apart, which the waves placed so far are.
`SequenceNeverStuck` shows that any graph with components left has one to place next: `NextWave`
finds it in a smallest closed set that is not placed as a whole. `EachStepCounts` lowers
`StepsLeft`, the unplaced components and the refinements.

`LlmGatewayProofs` (from `GatewayAssumption`): `TypeCorrect`, `OverrunBounded` and `CallsRunOut`. The meter's bound is
not inductive: `Metered` charges in advance for each call in flight (`Owed`), whose answer
may still cost the most. `SlotsKept` says that what runs in this turn belongs to its
node and is no more than `AtOnce`, which bounds what is owed, however many components take turns in the
slots. `CallsRunOut` counts the attempts a call has `ToTry`: on
its tier and the stronger one, with the formats, the spare model and the provider not yet given up.

`AgUiTurnsProofs` (from `AgUiAssumption`): `TypeCorrect`, `ModelsRise`, `NothingUnapproved`, `PatchesOnce` and
`OthersLoseNothing`, for any number of requests. `Control` has the lock (`Holder`) and that a running request's
`model_before` is the newest row (`BeforeIsLatest`); `History` that what is in the checkpoint's
model or in the rows came from requests that began, was applied once, and is gated only
if approved. `FromNewest` adds that a run which is no decision works on a model with the changes of the
newest row, as `StartRun` seeds it, unless it only shows a pending card again; `OthersLoseNothing`
follows.

Each inductive invariant was checked with TLC on the instance of a run before its proof.

Model-checked only: the liveness properties `SessionUnlocked`, `TurnEnds`, `CallsEnd` and
`PlanFinishes`, since liveness under fairness and ENABLED are outside the prover. What they rest on
besides fairness is proved for all constants, as a bounded count that every step lowers and
nobody else raises: `ReleaseApproaches`, `TurnsRunOut`, `CallsRunOut`, and `EachStepCounts` with
`SequenceNeverStuck`. What is left to TLC is that a step is enabled until the count has run out
(of `compute_sequence`, this is proved, too) and that fairness then takes it. Findings with a run state
properties that are false. Every other property of a passing run is a theorem. No module is recursive:
reachability is defined by closed sets.

## Not modelled, and why

* Rule 008, request classification by phrases, discovery confidence, cost figures and export are
  stateless functions of one model or plan that unit tests reach.
* The reasoning stream (`llm/streaming.py`) orders events for the client and keeps nothing.
* Accounts, tokens and the rate limiter are not part of a session: each operation is one
  short transaction or one atomic Redis command.
* Prompts, schemas, configuration, tracing and migrations hold no session state (the
  constraints the migrations create are in `SessionTurns`).
* Which AWS resource matches which component, and what a catalog maps to, are arbitrary
  constants. The providers behind the imports are read-only calls.
* The checkpointer is modelled by what it keeps; its serializer and pool are not, nor is the
  checkpoint that cannot be decoded (finding 15).
* Rows for conversation turns, findings and review quality: they are written beside the plan and
  read by no decision of the graphs (only the questions' history is, as a count of lines).
* The frontend is a client: its requests are the environment of `SessionTurns` and `AgUiTurns`.
