---------------------------- MODULE SessionTurns ----------------------------
(***************************************************************************)
(* One migration session and the HTTP requests that act on it: message     *)
(* turns (api/routers/sessions.py post_message and _persist_turn), the     *)
(* imports of api/routers/integrations.py, and the two gates accept_model  *)
(* and approve_plan.  A handler is split at its awaits wherever shared     *)
(* state is read or committed, so any two requests may interleave there.   *)
(*                                                                         *)
(* An architecture model is abstracted to its version, its status and the  *)
(* set of requests whose structural patches it holds; a plan to its        *)
(* version, its status and the patches of the model it was planned from.   *)
(***************************************************************************)
EXTENDS TurnLock, FiniteSets

CONSTANTS
  MaxRequests,  \* bound: requests the session receives in a behaviour
  MaxPatches,   \* bound: patches one turn applies
  MaxRefine,    \* settings.max_refine_iterations
  Budget,       \* settings.session_token_budget, in turns
  Offered,      \* bound: the kinds of request the session receives
  Faults        \* what the environment may do, of FaultKinds

(* disconnect: the client drops the event stream.  crash: the replica dies *)
(* or an await fails where no handler catches it.  lapse: a turn outlives  *)
(* the time to live of its lock.  gate_race: a gate is called while        *)
(* another request of the session is in flight.                            *)
FaultKinds == {"disconnect", "crash", "lapse", "gate_race"}

GateKinds == {"accept", "approve"}
Kinds == {"message", "document", "import"} \cup GateKinds

ASSUME ConstantsAssumption ==
  /\ Offered \subseteq Kinds
  /\ MaxRequests \in Nat /\ MaxPatches \in Nat
  /\ MaxRefine \in Nat /\ Budget \in Nat
  /\ Faults \subseteq FaultKinds

VARIABLES
  status,    \* sessions.status
  usage,     \* sessions.token_usage
  models,    \* rows of model_versions
  plans,     \* rows of plan_versions
  audited,   \* serials with applied structural rows in patch_audit_records
  claims,    \* rows of processed_messages
  served,    \* requests received so far
  applied,   \* how many turns were persisted for each message id
  pc,        \* where each request is in its handler
  kind,      \* what each request asks for
  msg,       \* the message_id it carries
  view       \* the local state of its handler

rowVars == << status, usage, models, plans, audited, claims >>
vars == << lockVars, rowVars, served, applied, pc, kind, msg, view >>

-----------------------------------------------------------------------------
Statuses == {"discovery", "planning", "review", "exported"}
Model == [version : Nat, status : {"draft", "accepted"}, edits : SUBSET Nat]
NoPlan == [version |-> 0, status |-> "none", basis |-> {}]
Plan == [version : Nat, status : {"reviewed", "final"}, basis : SUBSET Nat]

NewModel == [version |-> 1, status |-> "draft", edits |-> {}]
View == [serial : 0..MaxRequests, status : Statuses, usage : Nat,
         before : Model, model : Model, plan : Plan \cup {NoPlan},
         modelSeen : BOOLEAN, planSeen : BOOLEAN]
Blank == [serial |-> 0, status |-> "discovery", usage |-> 0,
          before |-> NewModel, model |-> NewModel, plan |-> NoPlan,
          modelSeen |-> FALSE, planSeen |-> FALSE]

(* Points of the handlers inside the lock's critical section, ... *)
TurnPCs == {"claim", "refuse", "read", "stream", "run", "persist", "release"}
(* ... those where the request owns the claim of its message, ... *)
ClaimPCs == {"refuse", "read", "stream", "run", "persist", "unclaim"}
GatePCs == {"gateRead", "gateCheck", "gateCommit"}
PCs == TurnPCs \cup GatePCs \cup {"idle", "acquire", "unclaim", "dead"}

LatestModel == CHOOSE m \in models : \A o \in models : o.version <= m.version
AcceptedRows == {m \in models : m.status = "accepted"}
AcceptedModel ==
  CHOOSE m \in AcceptedRows : \A o \in AcceptedRows : o.version <= m.version
LatestPlan ==
  IF plans = {} THEN NoPlan
  ELSE CHOOSE p \in plans : \A o \in plans : o.version <= p.version

HasVersion(rows, v) == \E row \in rows : row.version = v
Upsert(rows, row) == {o \in rows : o.version # row.version} \cup {row}
InFlight(r) == pc[r] \notin {"idle", "dead"}

Goto(r, label) == pc' = [pc EXCEPT ![r] = label]

(* The turn is over, well or badly: what is left is its `finally'. *)
EndTurn(r) ==
  /\ Goto(r, "release")
  /\ view' = [view EXCEPT ![r] = Blank]

(* The handler stops where no `finally' runs: what it holds stays held. *)
Abandon(r) ==
  /\ Goto(r, "dead")
  /\ view' = [view EXCEPT ![r] = Blank]

(* The request is over: its slot may serve another one. *)
Finish(r) ==
  /\ Goto(r, "idle")
  /\ kind' = [kind EXCEPT ![r] = "none"]
  /\ msg' = [msg EXCEPT ![r] = 0]
  /\ view' = [view EXCEPT ![r] = Blank]

Init ==
  /\ LockInit
  /\ status = "discovery" /\ usage = 0
  /\ models = {NewModel} /\ plans = {}
  /\ audited = {} /\ claims = {}
  /\ served = 0 /\ applied = [m \in 1..MaxRequests |-> 0]
  /\ pc = [r \in Requests |-> "idle"]
  /\ kind = [r \in Requests |-> "none"]
  /\ msg = [r \in Requests |-> 0]
  /\ view = [r \in Requests |-> Blank]

-----------------------------------------------------------------------------
(* Mutant of Admits: post_message without its check of the status. *)
AdmitsAnyMessage(k) ==
  CASE k = "message" -> TRUE
    [] k = "approve" -> status = "review"
    [] OTHER -> status = "discovery"

(* The request arrives and reads the session row; a status that does not   *)
(* admit it ends it with a 409.  The lock is not taken yet.                *)
Admits(k) ==
  CASE k = "message" -> status # "exported"
    [] k = "approve" -> status = "review"
    [] OTHER -> status = "discovery"

GateAlone(k) ==
  "gate_race" \in Faults \/
    \A r \in Requests : InFlight(r) => k \notin GateKinds /\ kind[r] \notin GateKinds

Arrive(r, k, m) ==
  /\ pc[r] = "idle" /\ served < MaxRequests
  /\ Admits(k) /\ GateAlone(k)
  /\ served' = served + 1
  /\ Goto(r, IF k \in GateKinds THEN "gateRead" ELSE "acquire")
  /\ kind' = [kind EXCEPT ![r] = k]
  /\ msg' = [msg EXCEPT ![r] = IF k = "message" THEN m ELSE 0]
  /\ view' = [view EXCEPT ![r] = [Blank EXCEPT
       !.serial = served + 1, !.status = status, !.usage = usage]]
  /\ UNCHANGED << lockVars, rowVars, applied >>

AcquireLock(r) ==
  /\ pc[r] = "acquire"
  /\ Acquire(r)
  /\ Goto(r, IF kind[r] = "message" THEN "claim" ELSE "read")
  /\ UNCHANGED << rowVars, served, applied, kind, msg, view >>

(* SessionBusyError: 409 *)
RefuseBusy(r) ==
  /\ pc[r] = "acquire" /\ lock # NoToken
  /\ Finish(r)
  /\ UNCHANGED << lockVars, rowVars, served, applied >>

(* Mutant of ClaimMessage: without the unique constraint on message ids. *)
ClaimAgain(r) ==
  /\ pc[r] = "claim"
  /\ claims' = claims \cup {msg[r]}
  /\ Goto(r, IF view[r].usage < Budget THEN "read" ELSE "refuse")
  /\ UNCHANGED << lockVars, status, usage, models, plans, audited, served,
                  applied, kind, msg, view >>

(* The insert into processed_messages commits at once.  The meter is then  *)
(* opened on the token usage read on arrival.                              *)
ClaimMessage(r) ==
  /\ pc[r] = "claim" /\ msg[r] \notin claims
  /\ claims' = claims \cup {msg[r]}
  /\ Goto(r, IF view[r].usage < Budget THEN "read" ELSE "refuse")
  /\ UNCHANGED << lockVars, status, usage, models, plans, audited, served,
                  applied, kind, msg, view >>

(* Mutant of RefuseDuplicate: the claim is released as after a failure. *)
RefuseAndUnclaim(r) ==
  /\ pc[r] = "claim" /\ msg[r] \in claims
  /\ claims' = claims \ {msg[r]}
  /\ EndTurn(r)
  /\ UNCHANGED << lockVars, status, usage, models, plans, audited, served,
                  applied, kind, msg >>

RefuseDuplicate(r) ==
  /\ pc[r] = "claim" /\ msg[r] \in claims
  /\ EndTurn(r)
  /\ UNCHANGED << lockVars, rowVars, served, applied, kind, msg >>

(* TokenBudgetExceededError: release the lock first, then the claim. *)
RefuseOverBudget(r) ==
  /\ pc[r] = "refuse"
  /\ Release(r)
  /\ Goto(r, "unclaim")
  /\ UNCHANGED << rowVars, served, applied, kind, msg, view >>

ReleaseClaim(r) ==
  /\ pc[r] = "unclaim"
  /\ claims' = claims \ {msg[r]}
  /\ Finish(r)
  /\ UNCHANGED << lockVars, status, usage, models, plans, audited, served, applied >>

ReadModel(r) ==
  /\ pc[r] = "read"
  /\ view' = [view EXCEPT ![r] =
       [@ EXCEPT !.before = LatestModel, !.model = LatestModel]]
  /\ Goto(r, IF kind[r] = "message" THEN "stream" ELSE "run")
  /\ UNCHANGED << lockVars, rowVars, served, applied, kind, msg >>

(* Past gate 1 event_stream() seeds the graph with the accepted model, in  *)
(* review also with the plan; the stage is the status read on arrival.     *)
OpenStream(r) ==
  /\ pc[r] = "stream"
  /\ \/ view[r].status = "discovery" /\ UNCHANGED view
     \/ /\ view[r].status # "discovery" /\ AcceptedRows # {}
        /\ view' = [view EXCEPT ![r] = [@ EXCEPT
             !.model = AcceptedModel,
             !.plan = IF view[r].status = "review" THEN LatestPlan ELSE NoPlan]]
  /\ Goto(r, "run")
  /\ UNCHANGED << lockVars, rowVars, served, applied, kind, msg >>

(* accepted_model() raises GateError before the try whose finally releases *)
(* the lock.                                                               *)
GateErrorInStream(r) ==
  /\ pc[r] = "stream" /\ view[r].status # "discovery" /\ AcceptedRows = {}
  /\ Abandon(r)
  /\ UNCHANGED << lockVars, rowVars, served, applied, kind, msg >>

(* Every applied patch raises the version by one; structural ones are told *)
(* apart by the serial of the request that made them.                      *)
PatchedModel(v, patches, structural) ==
  [v.model EXCEPT !.version = @ + patches,
                  !.edits = IF structural THEN @ \cup {v.serial} ELSE @]

(* The graph ends with `patches' applied patches, structural ones among    *)
(* them or not, and, if it planned, with a reviewed plan of version `made':*)
(* assembled as version 1 and raised by each refinement.  _persist_turn    *)
(* then looks for rows with the versions it is about to write.             *)
FinishGraph(r, patches, structural, made) ==
  /\ pc[r] = "run" /\ kind[r] # "import"
  /\ structural => patches > 0
  /\ made > 0 => /\ kind[r] = "message"
                 /\ \/ view[r].status = "planning"
                    \/ view[r].status = "review" /\ structural
  /\ LET model == PatchedModel(view[r], patches, structural)
         plan == IF made = 0 THEN view[r].plan
                 ELSE [version |-> made, status |-> "reviewed", basis |-> model.edits]
     IN view' = [view EXCEPT ![r] = [@ EXCEPT
          !.model = model, !.plan = plan,
          !.modelSeen = HasVersion(models, model.version),
          !.planSeen = HasVersion(plans, plan.version)]]
  /\ Goto(r, "persist")
  /\ UNCHANGED << lockVars, rowVars, served, applied, kind, msg >>

(* An import fetches records, maps each to a patch and applies them. *)
ApplyImport(r, patches, structural) ==
  /\ pc[r] = "run" /\ kind[r] = "import"
  /\ structural => patches > 0
  /\ LET model == PatchedModel(view[r], patches, structural)
     IN view' = [view EXCEPT ![r] = [@ EXCEPT
          !.model = model, !.modelSeen = HasVersion(models, model.version)]]
  /\ Goto(r, "persist")
  /\ UNCHANGED << lockVars, rowVars, served, applied, kind, msg >>

(* The graph or the fetch raises: roll back, release the claim, then the   *)
(* lock.                                                                   *)
FailGraph(r) ==
  /\ pc[r] = "run"
  /\ claims' = claims \ {msg[r]}
  /\ EndTurn(r)
  /\ UNCHANGED << lockVars, status, usage, models, plans, audited, served,
                  applied, kind, msg >>

SavesModel(r) == view[r].model.version > view[r].before.version
SavesPlan(r) == view[r].plan # NoPlan

(* Mutant of ModelConflict: no uq_model_version_per_session. *)
NeverConflicts(r) == FALSE

(* A row that was not there when looked for and is there at the commit. *)
ModelConflict(r) ==
  ~view[r].modelSeen /\ HasVersion(models, view[r].model.version)
PlanConflict(r) ==
  ~view[r].planSeen /\ HasVersion(plans, view[r].plan.version)
Conflict(r) ==
  \/ SavesModel(r) /\ ModelConflict(r)
  \/ SavesPlan(r) /\ PlanConflict(r)

(* save_model_version keeps a row that was there; save_plan_version        *)
(* overwrites it.                                                          *)
SaveModel(r) ==
  models' = IF view[r].modelSeen THEN models ELSE models \cup {view[r].model}
SavePlan(r) == plans' = Upsert(plans, view[r].plan)

SavePatchAudit(r) ==
  audited' = audited \cup (view[r].model.edits \cap {view[r].serial})

WriteModel(r) ==
  IF SavesModel(r) THEN SaveModel(r) /\ SavePatchAudit(r)
                   ELSE UNCHANGED << models, audited >>

PersistTurn(r) ==
  /\ pc[r] = "persist" /\ kind[r] # "import" /\ ~Conflict(r)
  /\ WriteModel(r)
  /\ IF SavesPlan(r) THEN SavePlan(r) ELSE UNCHANGED plans
  /\ status' = IF SavesPlan(r) /\ view[r].status = "planning" THEN "review" ELSE status
  /\ usage' = view[r].usage + 1
  /\ applied' = IF kind[r] = "message"
                THEN [applied EXCEPT ![msg[r]] = @ + 1] ELSE applied
  /\ EndTurn(r)
  /\ UNCHANGED << lockVars, claims, served, kind, msg >>

PersistImport(r) ==
  /\ pc[r] = "persist" /\ kind[r] = "import" /\ ~Conflict(r)
  /\ WriteModel(r)
  /\ EndTurn(r)
  /\ UNCHANGED << lockVars, status, usage, plans, claims, served, applied, kind, msg >>

(* The unique constraint rejects the insert; nothing is committed. *)
PersistConflict(r) ==
  /\ pc[r] = "persist" /\ Conflict(r)
  /\ EndTurn(r)
  /\ UNCHANGED << lockVars, rowVars, served, applied, kind, msg >>

(* finally: release the lock. *)
ReleaseLock(r) ==
  /\ pc[r] = "release"
  /\ Release(r)
  /\ Finish(r)
  /\ UNCHANGED << rowVars, served, applied >>

-----------------------------------------------------------------------------
(* The gates: read what is latest, look for the row, commit.  No lock.     *)
ReadForGate(r) ==
  /\ pc[r] = "gateRead"
  /\ \/ /\ kind[r] = "accept" /\ LatestModel.edits # {}
        /\ view' = [view EXCEPT ![r] = [@ EXCEPT
             !.model = [LatestModel EXCEPT !.status = "accepted", !.version = @ + 1]]]
     \/ /\ kind[r] = "approve" /\ LatestPlan # NoPlan
        /\ view' = [view EXCEPT ![r] = [@ EXCEPT
             !.plan = [LatestPlan EXCEPT !.status = "final", !.version = @ + 1]]]
  /\ Goto(r, "gateCheck")
  /\ UNCHANGED << lockVars, rowVars, served, applied, kind, msg >>

(* GateError: 409 *)
RefuseGate(r) ==
  /\ pc[r] = "gateRead"
  /\ \/ kind[r] = "accept" /\ LatestModel.edits = {}
     \/ kind[r] = "approve" /\ LatestPlan = NoPlan
  /\ Finish(r)
  /\ UNCHANGED << lockVars, rowVars, served, applied >>

CheckRow(r) ==
  /\ pc[r] = "gateCheck"
  /\ view' = [view EXCEPT ![r] = [@ EXCEPT
       !.modelSeen = HasVersion(models, view[r].model.version),
       !.planSeen = HasVersion(plans, view[r].plan.version)]]
  /\ Goto(r, "gateCommit")
  /\ UNCHANGED << lockVars, rowVars, served, applied, kind, msg >>

(* Mutant of AcceptModel: the status does not advance. *)
AcceptWithoutAdvancing(r) ==
  /\ pc[r] = "gateCommit" /\ kind[r] = "accept" /\ ~ModelConflict(r)
  /\ SaveModel(r)
  /\ Finish(r)
  /\ UNCHANGED << lockVars, status, usage, plans, audited, claims, served, applied >>

AcceptModel(r) ==
  /\ pc[r] = "gateCommit" /\ kind[r] = "accept" /\ ~ModelConflict(r)
  /\ SaveModel(r)
  /\ status' = "planning"
  /\ Finish(r)
  /\ UNCHANGED << lockVars, usage, plans, audited, claims, served, applied >>

ApprovePlan(r) ==
  /\ pc[r] = "gateCommit" /\ kind[r] = "approve" /\ ~PlanConflict(r)
  /\ SavePlan(r)
  /\ status' = "exported"
  /\ Finish(r)
  /\ UNCHANGED << lockVars, usage, models, audited, claims, served, applied >>

GateConflict(r) ==
  /\ pc[r] = "gateCommit"
  /\ IF kind[r] = "accept" THEN ModelConflict(r) ELSE PlanConflict(r)
  /\ Finish(r)
  /\ UNCHANGED << lockVars, rowVars, served, applied >>

-----------------------------------------------------------------------------
(* The generator is cancelled: only its finally runs, and not even that    *)
(* when it has not come to its try yet.                                    *)
Disconnect(r) ==
  /\ "disconnect" \in Faults
  /\ pc[r] \in {"stream", "run", "persist"} /\ kind[r] = "message"
  /\ IF pc[r] = "stream" THEN Abandon(r) ELSE EndTurn(r)
  /\ UNCHANGED << lockVars, rowVars, served, applied, kind, msg >>

(* The handler stops where it is, and its lock stays with Redis. *)
Crash(r) ==
  /\ "crash" \in Faults
  /\ InFlight(r)
  /\ Abandon(r)
  /\ UNCHANGED << lockVars, rowVars, served, applied, kind, msg >>

Reap(r) ==
  /\ pc[r] = "dead" /\ lock # r
  /\ Finish(r)
  /\ lapsed' = lapsed \ {r}
  /\ UNCHANGED << lock, rowVars, served, applied >>

(* The time to live ends after the holder has died, ... *)
ExpireDead(r) ==
  /\ lock = r /\ pc[r] = "dead"
  /\ Expire
  /\ UNCHANGED << rowVars, served, applied, pc, kind, msg, view >>

(* ... or while it still works. *)
ExpireHeld(r) ==
  /\ "lapse" \in Faults
  /\ lock = r /\ pc[r] # "dead"
  /\ Expire
  /\ UNCHANGED << rowVars, served, applied, pc, kind, msg, view >>

-----------------------------------------------------------------------------
RunTurn(r) ==
  \E patches \in 0..MaxPatches, structural \in BOOLEAN :
    \/ ApplyImport(r, patches, structural)
    \/ \E made \in 0..(1 + MaxRefine) : FinishGraph(r, patches, structural, made)

(* What the server does by itself once a request has arrived. *)
Step(r) ==
  \/ AcquireLock(r) \/ RefuseBusy(r)
  \/ ClaimMessage(r) \/ RefuseDuplicate(r)
  \/ RefuseOverBudget(r) \/ ReleaseClaim(r)
  \/ ReadModel(r) \/ OpenStream(r) \/ GateErrorInStream(r)
  \/ RunTurn(r) \/ FailGraph(r)
  \/ PersistTurn(r) \/ PersistImport(r) \/ PersistConflict(r) \/ ReleaseLock(r)
  \/ ReadForGate(r) \/ RefuseGate(r) \/ CheckRow(r)
  \/ AcceptModel(r) \/ ApprovePlan(r) \/ GateConflict(r)
  \/ Reap(r) \/ ExpireDead(r)

(* A message id is fresh, or that of an earlier message sent again. *)
Environment(r) ==
  \/ \E k \in Offered, m \in 1..(served + 1) : Arrive(r, k, m)
  \/ Disconnect(r) \/ Crash(r) \/ ExpireHeld(r)

(* The session has received every request of the behaviour, or is in a     *)
(* status that admits none of those it is offered.                         *)
Quiet ==
  /\ served = MaxRequests \/ \A k \in Offered : ~Admits(k)
  /\ \A r \in Requests : pc[r] = "idle"
  /\ UNCHANGED vars

Next == (\E r \in Requests : Step(r) \/ Environment(r)) \/ Quiet

Spec == Init /\ [][Next]_vars
FairSpec == Spec /\ \A r \in Requests : WF_vars(Step(r))

-----------------------------------------------------------------------------
(* The rows of the database as the one session they describe. *)
Gates == INSTANCE SessionGates WITH
  Edits <- 1..MaxRequests,
  phase <- status,
  architecture <- LatestModel.edits,
  agreed <- IF AcceptedRows = {} THEN {} ELSE AcceptedModel.edits,
  plan <- [status |-> LatestPlan.status, basis |-> LatestPlan.basis]

(* While no lock lapses and no gate is called during another request, any  *)
(* interleaving of turns, imports, retries and disconnects is a session    *)
(* whose turns happen one at a time: both gates freeze what they should,   *)
(* planning always works from the newest model, and an exported session    *)
(* never changes again.                                                    *)
ImplementsGates == Gates!Spec

(* Types, and the uniqueness constraints uq_model_version_per_session and  *)
(* uq_plan_version_per_session of db/models.py.                            *)
UniqueVersions(rows) == \A a, b \in rows : a.version = b.version => a = b

RowsTypeOK ==
  /\ status \in Statuses /\ usage \in Nat
  /\ models \subseteq Model /\ UniqueVersions(models)
  /\ plans \subseteq Plan /\ UniqueVersions(plans)
  /\ audited \subseteq 1..MaxRequests /\ claims \subseteq 1..MaxRequests

HandlersTypeOK ==
  /\ served \in 0..MaxRequests
  /\ applied \in [1..MaxRequests -> Nat]
  /\ pc \in [Requests -> PCs]
  /\ kind \in [Requests -> Kinds \cup {"none"}]
  /\ msg \in [Requests -> 0..MaxRequests]

ViewsTypeOK == view \in [Requests -> View]

TypeOK == LockTypeOK /\ RowsTypeOK /\ HandlersTypeOK /\ ViewsTypeOK

(* Serialization (session_lock.py: "strictly serialized end-to-end (read   *)
(* model -> run graph -> persist)"): a request inside the critical section *)
(* still owns the key, unless Redis expired the key under it.  So a turn   *)
(* that finishes late never unlocks the turn that came after it.           *)
LockOwnedUnlessLapsed ==
  \A r \in Requests : pc[r] \in TurnPCs /\ r \notin lapsed => lock = r

(* Idempotency (FR-E6, ProcessedMessage in db/models.py): whatever is sent *)
(* again, lapses, disconnects or crashes, the graph's result is persisted  *)
(* at most once for one message_id, ...                                    *)
MessageAppliedOnce == \A m \in 1..MaxRequests : applied[m] <= 1

(* ... since no two requests work on one message_id at the same time.      *)
ClaimExclusive ==
  \A r, o \in Requests :
    r # o /\ pc[r] \in ClaimPCs /\ pc[o] \in ClaimPCs /\ msg[r] # 0 => msg[r] # msg[o]

(* A session in discovery has no accepted model: no order of turns,        *)
(* imports and gates lets planning start before gate 1 (sessions.py:       *)
(* "Planning cannot start before this").                                   *)
NothingAcceptedBeforeGateOne == status = "discovery" => AcceptedRows = {}

(* accept_model: "Gate 1 -- freezes the architecture model.  Planning      *)
(* cannot start before this": a session past gate 1 has an accepted model. *)
GateOneLeavesAcceptedModel == status # "discovery" => AcceptedRows # {}

(* session_lock.py: "A session's turns must be strictly serialized          *)
(* end-to-end (read model -> run graph -> persist)": the model a turn or   *)
(* an import persists over is the one it started from.                     *)
TurnsSerialized ==
  [][\A r \in Requests :
       PersistTurn(r) \/ PersistImport(r) => LatestModel = view[r].before]_vars

(* Gates may be called in the middle of turns, and then a change may be    *)
(* lost that the audit trail reports as applied: the row a turn would      *)
(* write is kept as the gate left it, or the turn works from the accepted  *)
(* model while a newer draft exists.  Without a lapsed lock nothing else   *)
(* loses one: not other turns, imports, retries or dying replicas, and not *)
(* the gate's own row.                                                     *)
Lost == audited \ LatestModel.edits

GateRaced(r) ==
  \/ \E m \in AcceptedRows : m.version > view[r].before.version
  \/ AcceptedRows # {} /\ LatestModel \notin AcceptedRows

OnlyRacedGatesLose ==
  [][\/ Lost' \subseteq Lost
     \/ \E r \in Requests : (PersistTurn(r) \/ PersistImport(r)) /\ GateRaced(r)]_vars

(* What the audit trail reports as applied is in the latest model: no turn *)
(* or import overwrites or silently drops another's structural patches.    *)
NoLostUpdate == audited \subseteq LatestModel.edits

(* "The TTL is a safety net against a crashed holder": a locked session is *)
(* unlocked again, whatever becomes of the turn that locked it.            *)
SessionUnlocked == \A r \in Requests : lock = r ~> lock # r

=============================================================================
