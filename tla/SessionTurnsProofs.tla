------------------------- MODULE SessionTurnsProofs -------------------------
(***************************************************************************)
(* Proofs about SessionTurns for every number of requests, every bound and *)
(* every set of faults: types, the ownership of the turn lock, the claims  *)
(* of message ids and what gate 1 keeps out of a session in discovery;     *)
(* and, while no lock lapses under a living turn and no gate races one,    *)
(* that no update is lost and SessionGates is implemented, so that what    *)
(* SessionGatesProofs promises holds of the rows.  With gates that race,   *)
(* turns still persist over the newest edits; and under all faults the     *)
(* holder of the lock comes nearer to its release.                         *)
(***************************************************************************)
EXTENDS SessionTurns, TLAPS

-----------------------------------------------------------------------------
(* The newest row of a table exists: what a CHOOSE over rows relies on. *)
HasLatest(rows) == \E m \in rows : \A o \in rows : o.version <= m.version

RowsOK ==
  /\ NewModel \in models
  /\ HasLatest(models)
  /\ AcceptedRows # {} => HasLatest(AcceptedRows)
  /\ plans # {} => HasLatest(plans)

(* Where a request of each kind can be. *)
KindsOK ==
  \A r \in Requests :
    /\ kind[r] = "message" <=> msg[r] # 0
    /\ pc[r] \in {"claim", "refuse", "stream", "unclaim"} => kind[r] = "message"
    /\ pc[r] \in TurnPCs \cup {"acquire"} => kind[r] \notin GateKinds
    /\ pc[r] \in GatePCs => kind[r] \in GateKinds
    /\ pc[r] \in {"acquire", "claim", "refuse", "read", "stream", "run", "persist"} =>
         view[r].serial # 0
    /\ pc[r] \in {"gateCheck", "gateCommit"} /\ kind[r] = "approve" =>
         view[r].plan # NoPlan

TypeInv == TypeOK /\ RowsOK /\ KindsOK

(* A claimed message is not applied before its claim is let go, and an     *)
(* applied one stays claimed.                                              *)
ClaimInv ==
  /\ MessageAppliedOnce
  /\ ClaimExclusive
  /\ \A m \in 1..MaxRequests : applied[m] > 0 => m \in claims
  /\ \A r \in Requests :
       pc[r] \in ClaimPCs /\ msg[r] # 0 => msg[r] \in claims /\ applied[msg[r]] = 0

(* Before gate 1 no handler but that of gate 1 holds an accepted model. *)
GateOneInv ==
  status = "discovery" =>
    /\ AcceptedRows = {}
    /\ \A r \in Requests : kind[r] # "accept" => view[r].model.status = "draft"

-----------------------------------------------------------------------------
(* Choosing the newest row chooses a row of the table. *)
LEMMA LatestModelIsRow == ASSUME RowsOK PROVE LatestModel \in models
  BY DEF RowsOK, HasLatest, LatestModel

LEMMA AcceptedModelIsRow ==
  ASSUME RowsOK, AcceptedRows # {} PROVE AcceptedModel \in AcceptedRows
  BY DEF RowsOK, HasLatest, AcceptedModel

LEMMA LatestPlanIsRow == ASSUME RowsOK PROVE LatestPlan \in plans \cup {NoPlan}
  BY DEF RowsOK, HasLatest, LatestPlan

(* A table that gains a row, or has one of the same version replaced by    *)
(* it, still has a newest row.                                             *)
LEMMA NewestAfterWrite ==
  ASSUME NEW rows, NEW row, NEW newRows,
         \A o \in rows \cup {row} : o.version \in Nat,
         rows # {} => HasLatest(rows),
         row \in newRows, newRows \subseteq rows \cup {row},
         \A o \in rows : o.version # row.version => o \in newRows
  PROVE  HasLatest(newRows)
<1>1. CASE \A o \in rows : o.version <= row.version
  BY <1>1 DEF HasLatest
<1>2. CASE \E o \in rows : ~(o.version <= row.version)
  <2>1. PICK m \in rows : \A o \in rows : o.version <= m.version
    BY <1>2 DEF HasLatest
  <2>2. row.version < m.version
    BY <1>2, <2>1
  <2>3. m \in newRows /\ \A o \in newRows : o.version <= m.version
    BY <2>1, <2>2
  <2> QED BY <2>3 DEF HasLatest
<1> QED BY <1>1, <1>2

(* save_model_version keeps the table well formed, whether it skips the    *)
(* write or inserts a version that no row has.                             *)
LEMMA SaveModelOK ==
  ASSUME TypeInv, NEW r \in Requests, SaveModel(r), ~ModelConflict(r)
  PROVE  /\ models' \subseteq Model /\ UniqueVersions(models')
         /\ NewModel \in models' /\ HasLatest(models')
         /\ AcceptedRows' # {} => HasLatest(AcceptedRows')
<1> DEFINE row == view[r].model
<1>1. CASE view[r].modelSeen
  BY <1>1 DEF TypeInv, TypeOK, RowsTypeOK, RowsOK, SaveModel, AcceptedRows
<1>2. CASE ~view[r].modelSeen
  <2>1. row \in Model /\ models \subseteq Model
    BY DEF TypeInv, TypeOK, RowsTypeOK, ViewsTypeOK, View
  <2>2. models' = models \cup {row} /\ \A o \in models : o.version # row.version
    BY <1>2 DEF SaveModel, ModelConflict, HasVersion
  <2>3. models' \subseteq Model /\ UniqueVersions(models')
    BY <2>1, <2>2 DEF TypeInv, TypeOK, RowsTypeOK, UniqueVersions
  <2>4. NewModel \in models' /\ HasLatest(models')
    <3>1. \A o \in models \cup {row} : o.version \in Nat
      BY <2>1 DEF Model
    <3> QED BY <2>2, <3>1, NewestAfterWrite DEF TypeInv, RowsOK
  <2>5. ASSUME AcceptedRows' # {} PROVE HasLatest(AcceptedRows')
    <3>1. CASE row.status = "accepted"
      <4>1. AcceptedRows' = AcceptedRows \cup {row}
        BY <2>2, <3>1 DEF AcceptedRows
      <4>2. \A o \in AcceptedRows \cup {row} : o.version \in Nat
        BY <2>1 DEF Model, AcceptedRows
      <4> QED BY <4>1, <4>2, NewestAfterWrite DEF TypeInv, RowsOK
    <3>2. CASE row.status # "accepted"
      BY <2>2, <2>5, <3>2 DEF TypeInv, RowsOK, AcceptedRows
    <3> QED BY <3>1, <3>2
  <2> QED BY <2>3, <2>4, <2>5
<1> QED BY <1>1, <1>2

(* save_plan_version does too, inserting or overwriting. *)
LEMMA SavePlanOK ==
  ASSUME TypeInv, NEW r \in Requests, SavePlan(r), SavesPlan(r)
  PROVE  plans' \subseteq Plan /\ UniqueVersions(plans') /\ HasLatest(plans')
<1> DEFINE row == view[r].plan
<1>1. row \in Plan /\ plans \subseteq Plan
  BY DEF TypeInv, TypeOK, RowsTypeOK, ViewsTypeOK, View, SavesPlan
<1>2. plans' = {o \in plans : o.version # row.version} \cup {row}
  BY DEF SavePlan, Upsert
<1>3. plans' \subseteq Plan /\ UniqueVersions(plans')
  BY <1>1, <1>2 DEF TypeInv, TypeOK, RowsTypeOK, UniqueVersions
<1>4. HasLatest(plans')
  <2>1. \A o \in plans \cup {row} : o.version \in Nat
    BY <1>1 DEF Plan
  <2> QED BY <1>2, <2>1, NewestAfterWrite DEF TypeInv, RowsOK
<1> QED BY <1>3, <1>4

-----------------------------------------------------------------------------
(* What the steps have in common: leaving a handler, the lock's            *)
(* operations, and leaving the tables alone.                               *)
LEMMA BlankIsView == Blank \in View
  BY ConstantsAssumption DEF Blank, View, Model, Plan, NewModel, NoPlan, Statuses

Leaves(r) ==
  \/ pc[r] \in TurnPCs /\ EndTurn(r) /\ UNCHANGED << kind, msg >>
  \/ Abandon(r) /\ UNCHANGED << kind, msg >>
  \/ Finish(r)

LEMMA LeavingIsTyped ==
  ASSUME TypeInv, NEW r \in Requests, Leaves(r), UNCHANGED << served, applied >>
  PROVE  HandlersTypeOK' /\ ViewsTypeOK' /\ KindsOK'
<1> USE DEF TypeInv, TypeOK, Goto
<1>1. ViewsTypeOK'
  BY BlankIsView DEF ViewsTypeOK, Leaves, EndTurn, Abandon, Finish
<1>2. CASE ((pc[r] \in TurnPCs /\ EndTurn(r)) \/ Abandon(r)) /\ UNCHANGED << kind, msg >>
  <2>1. HandlersTypeOK'
    BY <1>2 DEF EndTurn, Abandon, HandlersTypeOK, PCs, TurnPCs
  <2>2. CASE pc[r] \in TurnPCs /\ EndTurn(r)
    <3>1. kind[r] \notin GateKinds
      BY <2>2 DEF KindsOK
    <3>2. pc' = [pc EXCEPT ![r] = "release"] /\ view' = [view EXCEPT ![r] = Blank]
      BY <2>2 DEF EndTurn
    <3>3. KindsOK'
      BY <1>2, <3>1, <3>2
         DEF KindsOK, HandlersTypeOK, ViewsTypeOK, TurnPCs, GatePCs, GateKinds
    <3> QED BY <1>1, <2>1, <3>3
  <2>3. CASE Abandon(r)
    BY <1>1, <1>2, <2>1, <2>3
       DEF Abandon, KindsOK, HandlersTypeOK, ViewsTypeOK, TurnPCs, GatePCs, GateKinds
  <2> QED BY <1>2, <2>2, <2>3
<1>3. CASE Finish(r)
  <2>1. HandlersTypeOK'
    BY <1>3, ConstantsAssumption DEF Finish, HandlersTypeOK, PCs
  <2>2. KindsOK'
    BY <1>3 DEF Finish, KindsOK, HandlersTypeOK, ViewsTypeOK, TurnPCs, GatePCs,
                GateKinds
  <2> QED BY <1>1, <2>1, <2>2
<1> QED BY <1>2, <1>3 DEF Leaves

LEMMA LockIsTyped ==
  ASSUME TypeInv, NEW r \in Requests,
         Acquire(r) \/ Release(r) \/ Expire \/ UNCHANGED lockVars
  PROVE  LockTypeOK'
  BY DEF TypeInv, TypeOK, LockTypeOK, lockVars, Acquire, Release, Expire

LEMMA TablesKept ==
  ASSUME TypeInv, UNCHANGED << status, usage, models, plans, audited >>,
         claims' \subseteq 1..MaxRequests
  PROVE  RowsTypeOK' /\ RowsOK'
  BY DEF TypeInv, TypeOK, RowsTypeOK, RowsOK, UniqueVersions, HasLatest, AcceptedRows

(* A handler that goes on only edits its own view. *)
LEMMA ViewEdited ==
  ASSUME ViewsTypeOK, NEW r \in Requests, NEW v \in View,
         view' = [view EXCEPT ![r] = v]
  PROVE  ViewsTypeOK'
  BY DEF ViewsTypeOK

-----------------------------------------------------------------------------
LEMMA TypeInit == Init => TypeInv
<1> SUFFICES ASSUME Init PROVE TypeInv OBVIOUS
<1> USE DEF Init
<1>1. LockTypeOK BY DEF LockTypeOK, LockInit
<1>2. RowsTypeOK
  BY DEF RowsTypeOK, Statuses, Model, NewModel, UniqueVersions
<1>3. HandlersTypeOK
  BY ConstantsAssumption DEF HandlersTypeOK, PCs
<1>4. ViewsTypeOK BY BlankIsView DEF ViewsTypeOK
<1>5. RowsOK BY DEF RowsOK, HasLatest, AcceptedRows, NewModel
<1>6. KindsOK BY DEF KindsOK, TurnPCs, GatePCs
<1> QED BY <1>1, <1>2, <1>3, <1>4, <1>5, <1>6 DEF TypeInv, TypeOK

LEMMA ArriveTyped ==
  ASSUME TypeInv, NEW r \in Requests, NEW k \in Offered, NEW m \in 1..(served + 1),
         Arrive(r, k, m)
  PROVE  TypeInv'
<1> USE ConstantsAssumption DEF TypeInv, TypeOK, Arrive
<1>1. k \in Kinds /\ served < MaxRequests /\ m \in 1..MaxRequests
  BY DEF HandlersTypeOK
<1>2. LockTypeOK' /\ RowsTypeOK' /\ RowsOK'
  BY LockIsTyped, TablesKept DEF rowVars, RowsTypeOK
<1>3. HandlersTypeOK'
  BY <1>1 DEF HandlersTypeOK, Goto, PCs, TurnPCs, GatePCs
<1>4. ViewsTypeOK'
  <2>1. [Blank EXCEPT !.serial = served + 1, !.status = status, !.usage = usage] \in View
    <3>1. served + 1 \in 0..MaxRequests /\ status \in Statuses /\ usage \in Nat
      BY <1>1 DEF HandlersTypeOK, RowsTypeOK
    <3> QED BY <3>1, BlankIsView DEF View
  <2> QED BY <2>1, ViewEdited
<1>5. KindsOK'
  BY <1>1 DEF KindsOK, HandlersTypeOK, ViewsTypeOK, View, Blank, Goto, TurnPCs,
              GatePCs, GateKinds
<1> QED BY <1>2, <1>3, <1>4, <1>5

LEMMA ReadModelTyped ==
  ASSUME TypeInv, NEW r \in Requests, ReadModel(r) PROVE TypeInv'
<1> USE DEF TypeInv, TypeOK, ReadModel
<1>1. LockTypeOK' /\ RowsTypeOK' /\ RowsOK'
  BY LockIsTyped, TablesKept DEF rowVars, RowsTypeOK
<1>2. HandlersTypeOK'
  BY DEF HandlersTypeOK, Goto, PCs, TurnPCs
<1>3. ViewsTypeOK'
  <2>1. LatestModel \in Model
    BY LatestModelIsRow DEF RowsTypeOK
  <2>2. [view[r] EXCEPT !.before = LatestModel, !.model = LatestModel] \in View
    BY <2>1 DEF ViewsTypeOK, View
  <2> QED BY <2>2, ViewEdited
<1>4. KindsOK'
  BY DEF KindsOK, HandlersTypeOK, ViewsTypeOK, View, Goto, TurnPCs, GatePCs
<1> QED BY <1>1, <1>2, <1>3, <1>4

LEMMA OpenStreamTyped ==
  ASSUME TypeInv, NEW r \in Requests, OpenStream(r) PROVE TypeInv'
<1> USE DEF TypeInv, TypeOK, OpenStream
<1>1. LockTypeOK' /\ RowsTypeOK' /\ RowsOK'
  BY LockIsTyped, TablesKept DEF rowVars, RowsTypeOK
<1>2. HandlersTypeOK'
  BY DEF HandlersTypeOK, Goto, PCs, TurnPCs
<1> DEFINE seeded == [view[r] EXCEPT
             !.model = AcceptedModel,
             !.plan = IF view[r].status = "review" THEN LatestPlan ELSE NoPlan]
<1>3. CASE view[r].status = "discovery" /\ UNCHANGED view
  <2>1. ViewsTypeOK' BY <1>3 DEF ViewsTypeOK
  <2>2. KindsOK'
    BY <1>3 DEF KindsOK, HandlersTypeOK, Goto, TurnPCs, GatePCs, GateKinds
  <2> QED BY <1>1, <1>2, <2>1, <2>2
<1>4. CASE AcceptedRows # {} /\ view' = [view EXCEPT ![r] = seeded]
  <2>1. AcceptedModel \in Model /\ LatestPlan \in Plan \cup {NoPlan}
    BY <1>4, AcceptedModelIsRow, LatestPlanIsRow DEF RowsTypeOK, AcceptedRows
  <2>2. seeded \in View /\ seeded.serial = view[r].serial
    <3>1. CASE view[r].status = "review"
      BY <2>1, <3>1 DEF ViewsTypeOK, View
    <3>2. CASE view[r].status # "review"
      BY <2>1, <3>2 DEF ViewsTypeOK, View
    <3> QED BY <3>1, <3>2
  <2>3. ViewsTypeOK' BY <1>4, <2>2, ViewEdited
  <2>4. KindsOK'
    BY <1>4, <2>2 DEF KindsOK, HandlersTypeOK, ViewsTypeOK, Goto, TurnPCs, GatePCs,
                      GateKinds
  <2> QED BY <1>1, <1>2, <2>3, <2>4
<1> QED BY <1>3, <1>4

LEMMA PatchedModelIsModel ==
  ASSUME ViewsTypeOK, NEW r \in Requests, NEW patches \in 0..MaxPatches,
         NEW structural \in BOOLEAN
  PROVE  PatchedModel(view[r], patches, structural) \in Model
<1>1. view[r].model \in Model /\ view[r].serial \in Nat
  BY ConstantsAssumption DEF ViewsTypeOK, View
<1>2. view[r].model.version + patches \in Nat
  BY <1>1, ConstantsAssumption DEF Model
<1>3. view[r].model.edits \cup {view[r].serial} \subseteq Nat
  BY <1>1 DEF Model
<1> QED BY <1>1, <1>2, <1>3 DEF Model, PatchedModel

LEMMA ApplyImportTyped ==
  ASSUME TypeInv, NEW r \in Requests,
         NEW patches \in 0..MaxPatches, NEW structural \in BOOLEAN,
         ApplyImport(r, patches, structural)
  PROVE  TypeInv'
<1> USE DEF TypeInv, TypeOK, ApplyImport
<1>1. LockTypeOK' /\ RowsTypeOK' /\ RowsOK'
  BY LockIsTyped, TablesKept DEF rowVars, RowsTypeOK
<1>2. HandlersTypeOK'
  BY DEF HandlersTypeOK, Goto, PCs, TurnPCs
<1> DEFINE model == PatchedModel(view[r], patches, structural)
           done == [view[r] EXCEPT
                     !.model = model, !.modelSeen = HasVersion(models, model.version)]
<1>3. done \in View /\ done.serial = view[r].serial
  <2>1. model \in Model
    BY PatchedModelIsModel
  <2> HIDE DEF model
  <2> QED BY <2>1 DEF ViewsTypeOK, View, HasVersion
<1>4. view' = [view EXCEPT ![r] = done]
  OBVIOUS
<1>5. ViewsTypeOK' BY <1>3, <1>4, ViewEdited
<1>6. KindsOK'
  BY <1>3, <1>4 DEF KindsOK, HandlersTypeOK, ViewsTypeOK, Goto, TurnPCs, GatePCs,
                    GateKinds
<1> QED BY <1>1, <1>2, <1>5, <1>6

LEMMA FinishGraphTyped ==
  ASSUME TypeInv, NEW r \in Requests,
         NEW patches \in 0..MaxPatches, NEW structural \in BOOLEAN,
         NEW made \in 0..(1 + MaxRefine), FinishGraph(r, patches, structural, made)
  PROVE  TypeInv'
<1> USE ConstantsAssumption DEF TypeInv, TypeOK, FinishGraph
<1>1. LockTypeOK' /\ RowsTypeOK' /\ RowsOK'
  BY LockIsTyped, TablesKept DEF rowVars, RowsTypeOK
<1>2. HandlersTypeOK'
  BY DEF HandlersTypeOK, Goto, PCs, TurnPCs
<1> DEFINE model == PatchedModel(view[r], patches, structural)
           plan == IF made = 0 THEN view[r].plan
                   ELSE [version |-> made, status |-> "reviewed", basis |-> model.edits]
           done == [view[r] EXCEPT
                     !.model = model, !.plan = plan,
                     !.modelSeen = HasVersion(models, model.version),
                     !.planSeen = HasVersion(plans, plan.version)]
<1>3. model \in Model
  BY PatchedModelIsModel
<1>4. plan \in Plan \cup {NoPlan}
  BY <1>3 DEF ViewsTypeOK, View, Model, Plan
<1>5. done \in View /\ done.serial = view[r].serial
  <2> HIDE DEF model, plan
  <2> QED BY <1>3, <1>4 DEF ViewsTypeOK, View, HasVersion
<1>6. view' = [view EXCEPT ![r] = done]
  OBVIOUS
<1>7. ViewsTypeOK' BY <1>5, <1>6, ViewEdited
<1>8. KindsOK'
  BY <1>5, <1>6 DEF KindsOK, HandlersTypeOK, ViewsTypeOK, Goto, TurnPCs, GatePCs,
                    GateKinds
<1> QED BY <1>1, <1>2, <1>7, <1>8

(* Both ways to persist write the model rows and the audit alike. *)
LEMMA WriteModelOK ==
  ASSUME TypeInv, NEW r \in Requests, WriteModel(r), ~Conflict(r), pc[r] = "persist"
  PROVE  /\ models' \subseteq Model /\ UniqueVersions(models')
         /\ NewModel \in models' /\ HasLatest(models')
         /\ AcceptedRows' # {} => HasLatest(AcceptedRows')
         /\ audited' \subseteq 1..MaxRequests
<1> USE DEF TypeInv, TypeOK, WriteModel
<1>1. view[r].serial \in 1..MaxRequests
  BY ConstantsAssumption DEF KindsOK, ViewsTypeOK, View
<1>2. CASE SavesModel(r)
  BY <1>1, <1>2, SaveModelOK DEF Conflict, SavePatchAudit, RowsTypeOK
<1>3. CASE ~SavesModel(r)
  BY <1>3 DEF RowsTypeOK, RowsOK, AcceptedRows
<1> QED BY <1>2, <1>3

LEMMA PersistImportTyped ==
  ASSUME TypeInv, NEW r \in Requests, PersistImport(r) PROVE TypeInv'
<1> USE DEF TypeInv, TypeOK, PersistImport
<1>1. LockTypeOK' BY LockIsTyped
<1>2. RowsTypeOK' /\ RowsOK'
  BY WriteModelOK DEF RowsTypeOK, RowsOK, AcceptedRows, UniqueVersions, HasLatest
<1>3. HandlersTypeOK' /\ ViewsTypeOK' /\ KindsOK'
  BY LeavingIsTyped DEF Leaves, TurnPCs
<1> QED BY <1>1, <1>2, <1>3

LEMMA PersistTurnTyped ==
  ASSUME TypeInv, NEW r \in Requests, PersistTurn(r) PROVE TypeInv'
<1> USE DEF TypeInv, TypeOK, PersistTurn
<1>1. LockTypeOK' BY LockIsTyped
<1>2. kind[r] = "message" => msg[r] \in 1..MaxRequests
  BY ConstantsAssumption DEF KindsOK, HandlersTypeOK
<1>3. view[r] \in View /\ view[r].serial \in 1..MaxRequests
  BY ConstantsAssumption DEF KindsOK, ViewsTypeOK, View
<1>4. models' \subseteq Model /\ UniqueVersions(models') /\ NewModel \in models'
      /\ HasLatest(models') /\ (AcceptedRows' # {} => HasLatest(AcceptedRows'))
      /\ audited' \subseteq 1..MaxRequests
  BY WriteModelOK
<1>5. plans' \subseteq Plan /\ UniqueVersions(plans') /\ (plans' # {} => HasLatest(plans'))
  <2>1. CASE SavesPlan(r) BY <2>1, SavePlanOK
  <2>2. CASE ~SavesPlan(r) BY <2>2 DEF RowsTypeOK, RowsOK
  <2> QED BY <2>1, <2>2
<1>7. status' \in Statuses /\ usage' \in Nat
  BY <1>3 DEF RowsTypeOK, Statuses, View
<1>8. RowsTypeOK' /\ RowsOK'
  BY <1>4, <1>5, <1>7 DEF RowsTypeOK, RowsOK, AcceptedRows
<1>9. HandlersTypeOK'
  BY <1>2 DEF HandlersTypeOK, EndTurn, Goto, PCs, TurnPCs
<1>10. ViewsTypeOK' BY BlankIsView DEF EndTurn, ViewsTypeOK
<1>11. KindsOK'
  BY DEF KindsOK, HandlersTypeOK, ViewsTypeOK, EndTurn, Goto, TurnPCs, GatePCs,
         GateKinds
<1> QED BY <1>1, <1>8, <1>9, <1>10, <1>11

LEMMA ReadForGateTyped ==
  ASSUME TypeInv, NEW r \in Requests, ReadForGate(r) PROVE TypeInv'
<1> USE DEF TypeInv, TypeOK, ReadForGate
<1>1. LockTypeOK' /\ RowsTypeOK' /\ RowsOK'
  BY LockIsTyped, TablesKept DEF rowVars, RowsTypeOK
<1>2. HandlersTypeOK'
  BY DEF HandlersTypeOK, Goto, PCs, GatePCs
<1> DEFINE accepted == [LatestModel EXCEPT !.status = "accepted", !.version = @ + 1]
           final == [LatestPlan EXCEPT !.status = "final", !.version = @ + 1]
<1>3. CASE kind[r] = "accept"
  <2>1. accepted \in Model
    <3>1. LatestModel \in Model
      BY LatestModelIsRow DEF RowsTypeOK
    <3>2. LatestModel.version + 1 \in Nat
      BY <3>1 DEF Model
    <3> QED BY <3>1, <3>2 DEF Model
  <2>2. [view[r] EXCEPT !.model = accepted] \in View
    BY <2>1 DEF ViewsTypeOK, View
  <2>3. view' = [view EXCEPT ![r] = [view[r] EXCEPT !.model = accepted]]
    BY <1>3
  <2>4. ViewsTypeOK' BY <2>2, <2>3, ViewEdited
  <2>5. KindsOK'
    BY <1>3, <2>3 DEF KindsOK, HandlersTypeOK, ViewsTypeOK, Goto, TurnPCs, GatePCs,
                      GateKinds
  <2> QED BY <1>1, <1>2, <2>4, <2>5
<1>4. CASE kind[r] = "approve" /\ LatestPlan # NoPlan
  <2>1. final \in Plan /\ final # NoPlan
    <3>1. LatestPlan \in Plan
      BY <1>4, LatestPlanIsRow DEF RowsTypeOK
    <3>2. LatestPlan.version + 1 \in Nat
      BY <3>1 DEF Plan
    <3>3. final \in Plan
      BY <3>1, <3>2 DEF Plan
    <3> QED BY <3>3 DEF Plan, NoPlan
  <2>2. [view[r] EXCEPT !.plan = final] \in View
        /\ [view[r] EXCEPT !.plan = final].plan = final
    BY <2>1 DEF ViewsTypeOK, View
  <2>3. view' = [view EXCEPT ![r] = [view[r] EXCEPT !.plan = final]]
    BY <1>4
  <2>4. ViewsTypeOK' BY <2>2, <2>3, ViewEdited
  <2>5. KindsOK'
    BY <1>4, <2>1, <2>2, <2>3
       DEF KindsOK, HandlersTypeOK, ViewsTypeOK, Goto, TurnPCs, GatePCs, GateKinds
  <2> QED BY <1>1, <1>2, <2>4, <2>5
<1> QED BY <1>3, <1>4

LEMMA CheckRowTyped ==
  ASSUME TypeInv, NEW r \in Requests, CheckRow(r) PROVE TypeInv'
<1> USE DEF TypeInv, TypeOK, CheckRow
<1>1. LockTypeOK' /\ RowsTypeOK' /\ RowsOK'
  BY LockIsTyped, TablesKept DEF rowVars, RowsTypeOK
<1>2. HandlersTypeOK'
  BY DEF HandlersTypeOK, Goto, PCs, GatePCs
<1> DEFINE seen == [view[r] EXCEPT
       !.modelSeen = HasVersion(models, view[r].model.version),
       !.planSeen = HasVersion(plans, view[r].plan.version)]
<1>3. seen \in View /\ seen.plan = view[r].plan
  BY DEF ViewsTypeOK, View, HasVersion
<1>4. ViewsTypeOK' BY <1>3, ViewEdited
<1>5. KindsOK'
  BY <1>3 DEF KindsOK, HandlersTypeOK, ViewsTypeOK, Goto, TurnPCs, GatePCs, GateKinds
<1> QED BY <1>1, <1>2, <1>4, <1>5

LEMMA AcceptModelTyped ==
  ASSUME TypeInv, NEW r \in Requests, AcceptModel(r) PROVE TypeInv'
<1>1. LockTypeOK' BY LockIsTyped DEF AcceptModel
<1>2. RowsTypeOK' /\ RowsOK'
  BY SaveModelOK DEF AcceptModel, TypeInv, TypeOK, RowsTypeOK, RowsOK, Statuses,
                     AcceptedRows
<1>3. HandlersTypeOK' /\ ViewsTypeOK' /\ KindsOK'
  BY LeavingIsTyped DEF AcceptModel, Leaves
<1> QED BY <1>1, <1>2, <1>3 DEF TypeInv, TypeOK

LEMMA ApprovePlanTyped ==
  ASSUME TypeInv, NEW r \in Requests, ApprovePlan(r) PROVE TypeInv'
<1>1. LockTypeOK' BY LockIsTyped DEF ApprovePlan
<1>2. SavesPlan(r) BY DEF ApprovePlan, TypeInv, KindsOK, SavesPlan
<1>3. RowsTypeOK' /\ RowsOK'
  BY <1>2, SavePlanOK DEF ApprovePlan, TypeInv, TypeOK, RowsTypeOK, RowsOK, Statuses,
                          AcceptedRows
<1>4. HandlersTypeOK' /\ ViewsTypeOK' /\ KindsOK'
  BY LeavingIsTyped DEF ApprovePlan, Leaves
<1> QED BY <1>1, <1>3, <1>4 DEF TypeInv, TypeOK

-----------------------------------------------------------------------------
LEMMA StepTyped == ASSUME TypeInv, NEW r \in Requests, Step(r) PROVE TypeInv'
<1> USE DEF TypeInv, TypeOK
<1>1. CASE AcquireLock(r)
  <2>1. LockTypeOK' /\ RowsTypeOK' /\ RowsOK'
    BY <1>1, LockIsTyped, TablesKept DEF AcquireLock, rowVars, RowsTypeOK
  <2>2. HandlersTypeOK' /\ ViewsTypeOK'
    BY <1>1 DEF AcquireLock, HandlersTypeOK, ViewsTypeOK, Goto, PCs, TurnPCs
  <2>3. KindsOK'
    BY <1>1 DEF AcquireLock, KindsOK, HandlersTypeOK, Goto, TurnPCs, GatePCs, GateKinds
  <2> QED BY <2>1, <2>2, <2>3
<1>2. CASE RefuseBusy(r)
  BY <1>2, LeavingIsTyped, LockIsTyped, TablesKept
     DEF RefuseBusy, Leaves, rowVars, RowsTypeOK
<1>3. CASE ClaimMessage(r)
  <2>1. msg[r] \in 1..MaxRequests
    BY <1>3, ConstantsAssumption DEF ClaimMessage, KindsOK, HandlersTypeOK
  <2>2. LockTypeOK' /\ RowsTypeOK' /\ RowsOK'
    BY <1>3, <2>1, LockIsTyped, TablesKept DEF ClaimMessage, RowsTypeOK
  <2>3. HandlersTypeOK' /\ ViewsTypeOK'
    BY <1>3 DEF ClaimMessage, HandlersTypeOK, ViewsTypeOK, Goto, PCs, TurnPCs
  <2>4. KindsOK'
    BY <1>3 DEF ClaimMessage, KindsOK, HandlersTypeOK, Goto, TurnPCs, GatePCs, GateKinds
  <2> QED BY <2>2, <2>3, <2>4
<1>4. CASE RefuseDuplicate(r)
  BY <1>4, LeavingIsTyped, LockIsTyped, TablesKept
     DEF RefuseDuplicate, Leaves, rowVars, RowsTypeOK, TurnPCs
<1>5. CASE RefuseOverBudget(r)
  <2>1. LockTypeOK' /\ RowsTypeOK' /\ RowsOK'
    BY <1>5, LockIsTyped, TablesKept DEF RefuseOverBudget, rowVars, RowsTypeOK
  <2>2. HandlersTypeOK' /\ ViewsTypeOK'
    BY <1>5 DEF RefuseOverBudget, HandlersTypeOK, ViewsTypeOK, Goto, PCs
  <2>3. KindsOK'
    BY <1>5 DEF RefuseOverBudget, KindsOK, HandlersTypeOK, Goto, TurnPCs, GatePCs,
                GateKinds
  <2> QED BY <2>1, <2>2, <2>3
<1>6. CASE ReleaseClaim(r)
  BY <1>6, LeavingIsTyped, LockIsTyped, TablesKept
     DEF ReleaseClaim, Leaves, RowsTypeOK
<1>7. CASE ReadModel(r)
  BY <1>7, ReadModelTyped
<1>8. CASE OpenStream(r)
  BY <1>8, OpenStreamTyped
<1>9. CASE GateErrorInStream(r)
  BY <1>9, LeavingIsTyped, LockIsTyped, TablesKept
     DEF GateErrorInStream, Leaves, rowVars, RowsTypeOK
<1>10. CASE RunTurn(r)
  BY <1>10, ApplyImportTyped, FinishGraphTyped DEF RunTurn
<1>11. CASE FailGraph(r)
  BY <1>11, LeavingIsTyped, LockIsTyped, TablesKept
     DEF FailGraph, Leaves, RowsTypeOK, TurnPCs
<1>12. CASE PersistTurn(r) \/ PersistImport(r)
  BY <1>12, PersistTurnTyped, PersistImportTyped
<1>13. CASE PersistConflict(r)
  BY <1>13, LeavingIsTyped, LockIsTyped, TablesKept
     DEF PersistConflict, Leaves, rowVars, RowsTypeOK, TurnPCs
<1>14. CASE ReleaseLock(r)
  BY <1>14, LeavingIsTyped, LockIsTyped, TablesKept
     DEF ReleaseLock, Leaves, rowVars, RowsTypeOK
<1>15. CASE ReadForGate(r)
  BY <1>15, ReadForGateTyped
<1>16. CASE RefuseGate(r)
  BY <1>16, LeavingIsTyped, LockIsTyped, TablesKept
     DEF RefuseGate, Leaves, rowVars, RowsTypeOK
<1>17. CASE CheckRow(r)
  BY <1>17, CheckRowTyped
<1>18. CASE AcceptModel(r)
  BY <1>18, AcceptModelTyped
<1>19. CASE ApprovePlan(r)
  BY <1>19, ApprovePlanTyped
<1>20. CASE GateConflict(r)
  BY <1>20, LeavingIsTyped, LockIsTyped, TablesKept
     DEF GateConflict, Leaves, rowVars, RowsTypeOK
<1>21. CASE Reap(r)
  BY <1>21, LeavingIsTyped, TablesKept
     DEF Reap, Leaves, rowVars, RowsTypeOK, LockTypeOK
<1>22. CASE ExpireDead(r)
  <2>1. LockTypeOK' /\ RowsTypeOK' /\ RowsOK'
    BY <1>22, LockIsTyped, TablesKept DEF ExpireDead, rowVars, RowsTypeOK
  <2>2. HandlersTypeOK' /\ ViewsTypeOK' /\ KindsOK'
    BY <1>22 DEF ExpireDead, HandlersTypeOK, ViewsTypeOK, KindsOK
  <2> QED BY <2>1, <2>2
<1> QED
  BY <1>1, <1>2, <1>3, <1>4, <1>5, <1>6, <1>7, <1>8, <1>9, <1>10, <1>11, <1>12,
     <1>13, <1>14, <1>15, <1>16, <1>17, <1>18, <1>19, <1>20, <1>21, <1>22
     DEF Step

LEMMA EnvironmentTyped ==
  ASSUME TypeInv, NEW r \in Requests, Environment(r) PROVE TypeInv'
<1> USE DEF TypeInv, TypeOK
<1>1. CASE \E k \in Offered, m \in 1..(served + 1) : Arrive(r, k, m)
  BY <1>1, ArriveTyped
<1>2. CASE Disconnect(r)
  BY <1>2, LeavingIsTyped, LockIsTyped, TablesKept
     DEF Disconnect, Leaves, rowVars, RowsTypeOK, TurnPCs
<1>3. CASE Crash(r)
  BY <1>3, LeavingIsTyped, LockIsTyped, TablesKept
     DEF Crash, Leaves, rowVars, RowsTypeOK
<1>4. CASE ExpireHeld(r)
  <2>1. LockTypeOK' /\ RowsTypeOK' /\ RowsOK'
    BY <1>4, LockIsTyped, TablesKept DEF ExpireHeld, rowVars, RowsTypeOK
  <2>2. HandlersTypeOK' /\ ViewsTypeOK' /\ KindsOK'
    BY <1>4 DEF ExpireHeld, HandlersTypeOK, ViewsTypeOK, KindsOK
  <2> QED BY <2>1, <2>2
<1> QED BY <1>1, <1>2, <1>3, <1>4 DEF Environment

LEMMA StutterTyped == ASSUME TypeInv, UNCHANGED vars PROVE TypeInv'
<1> USE DEF TypeInv, TypeOK, vars
<1>1. LockTypeOK' /\ RowsTypeOK' /\ RowsOK'
  BY LockIsTyped, TablesKept DEF rowVars, lockVars, LockTypeOK, RowsTypeOK
<1>2. HandlersTypeOK' /\ ViewsTypeOK' /\ KindsOK'
  BY DEF HandlersTypeOK, ViewsTypeOK, KindsOK
<1> QED BY <1>1, <1>2

LEMMA TypeStep == TypeInv /\ [Next]_vars => TypeInv'
  BY StepTyped, EnvironmentTyped, StutterTyped DEF Next, Quiet

(* Every reachable state is well typed and no version of a model or a plan *)
(* exists twice, for any number of requests and any faults.                *)
THEOREM TypeCorrect == Spec => []TypeOK
<1>1. TypeInv => TypeOK BY DEF TypeInv
<1> QED BY <1>1, TypeInit, TypeStep, PTL DEF Spec

THEOREM TypeInvHolds == Spec => []TypeInv
  BY TypeInit, TypeStep, PTL DEF Spec

-----------------------------------------------------------------------------
(* The lock.  A request enters the critical section only by acquiring the  *)
(* key, and no other request's release can delete its key.                 *)

(* A step that leaves the key alone and takes no request into the section. *)
LEMMA SectionNotEntered ==
  ASSUME TypeOK, LockOwnedUnlessLapsed, UNCHANGED lockVars, NEW r \in Requests,
         NEW label \in PCs, pc' = [pc EXCEPT ![r] = label],
         label \in TurnPCs => pc[r] \in TurnPCs
  PROVE  LockOwnedUnlessLapsed'
  BY DEF TypeOK, HandlersTypeOK, LockOwnedUnlessLapsed, lockVars

LEMMA StepKeepsLock ==
  ASSUME TypeOK, LockOwnedUnlessLapsed, NEW r \in Requests, Step(r)
  PROVE  LockOwnedUnlessLapsed'
<1> USE DEF TypeOK, HandlersTypeOK
<1>1. CASE AcquireLock(r)
  <2>1. lock = NoToken /\ lock' = r /\ lapsed' = lapsed
    BY <1>1 DEF AcquireLock, Acquire
  <2>2. \A o \in Requests : pc[o] \in TurnPCs => o \in lapsed
    BY <2>1, NoTokenAssumption DEF LockOwnedUnlessLapsed
  <2> QED BY <1>1, <2>1, <2>2 DEF AcquireLock, Goto, LockOwnedUnlessLapsed
<1>2. CASE RefuseOverBudget(r) \/ ReleaseLock(r)
  <2>1. pc'[r] \notin TurnPCs /\ \A o \in Requests \ {r} : pc'[o] = pc[o]
    BY <1>2 DEF RefuseOverBudget, ReleaseLock, Finish, Goto, TurnPCs
  <2>2. /\ lapsed' = lapsed \ {r}
        /\ \A o \in Requests \ {r} : lock = o => lock' = o
    BY <1>2 DEF RefuseOverBudget, ReleaseLock, Release
  <2> QED BY <2>1, <2>2 DEF LockOwnedUnlessLapsed
<1>3. CASE Reap(r)
  BY <1>3 DEF Reap, Finish, Goto, LockOwnedUnlessLapsed, TurnPCs
<1>4. CASE ExpireDead(r)
  BY <1>4 DEF ExpireDead, Expire, LockOwnedUnlessLapsed
<1>5. CASE \/ ClaimMessage(r) \/ RefuseDuplicate(r) \/ ReadModel(r) \/ OpenStream(r)
           \/ RunTurn(r) \/ FailGraph(r) \/ PersistTurn(r) \/ PersistImport(r)
           \/ PersistConflict(r)
  <2>1. UNCHANGED lockVars /\ pc[r] \in TurnPCs
    BY <1>5 DEF ClaimMessage, RefuseDuplicate, ReadModel, OpenStream, RunTurn,
         ApplyImport, FinishGraph, FailGraph, PersistTurn, PersistImport, PersistConflict,
         TurnPCs, lockVars
  <2>2. PICK label \in PCs : pc' = [pc EXCEPT ![r] = label]
    BY <1>5 DEF ClaimMessage, RefuseDuplicate, ReadModel, OpenStream, RunTurn,
         ApplyImport, FinishGraph, FailGraph, PersistTurn, PersistImport, PersistConflict,
         EndTurn, Goto, PCs, TurnPCs
  <2> QED BY <2>1, <2>2, SectionNotEntered
<1>6. CASE \/ RefuseBusy(r) \/ ReleaseClaim(r) \/ GateErrorInStream(r) \/ ReadForGate(r)
           \/ RefuseGate(r) \/ CheckRow(r) \/ AcceptModel(r) \/ ApprovePlan(r)
           \/ GateConflict(r)
  <2>1. UNCHANGED lockVars
    BY <1>6 DEF RefuseBusy, ReleaseClaim, GateErrorInStream, ReadForGate, RefuseGate,
         CheckRow, AcceptModel, ApprovePlan, GateConflict, lockVars
  <2>2. PICK label \in PCs \ TurnPCs : pc' = [pc EXCEPT ![r] = label]
    BY <1>6 DEF RefuseBusy, ReleaseClaim, GateErrorInStream, ReadForGate, RefuseGate,
         CheckRow, AcceptModel, ApprovePlan, GateConflict, Finish, Abandon, Goto, PCs,
         GatePCs, TurnPCs
  <2> QED BY <2>1, <2>2, SectionNotEntered
<1> QED BY <1>1, <1>2, <1>3, <1>4, <1>5, <1>6 DEF Step

LEMMA EnvironmentKeepsLock ==
  ASSUME TypeOK, LockOwnedUnlessLapsed, NEW r \in Requests, Environment(r)
  PROVE  LockOwnedUnlessLapsed'
<1> USE DEF TypeOK, HandlersTypeOK
<1>1. CASE \E k \in Offered, m \in 1..(served + 1) : Arrive(r, k, m)
  <2>1. UNCHANGED lockVars
    BY <1>1 DEF Arrive
  <2>2. PICK label \in PCs \ TurnPCs : pc' = [pc EXCEPT ![r] = label]
    BY <1>1 DEF Arrive, Goto, PCs, GatePCs, TurnPCs
  <2> QED BY <2>1, <2>2, SectionNotEntered
<1>2. CASE Disconnect(r)
  <2>1. UNCHANGED lockVars /\ pc[r] \in TurnPCs
    BY <1>2 DEF Disconnect, TurnPCs
  <2>2. PICK label \in PCs : pc' = [pc EXCEPT ![r] = label]
    BY <1>2 DEF Disconnect, EndTurn, Abandon, Goto, PCs, TurnPCs
  <2> QED BY <2>1, <2>2, SectionNotEntered
<1>3. CASE Crash(r)
  <2>1. UNCHANGED lockVars /\ pc' = [pc EXCEPT ![r] = "dead"]
    BY <1>3 DEF Crash, Abandon, Goto
  <2> QED BY <2>1, SectionNotEntered DEF PCs, TurnPCs
<1>4. CASE ExpireHeld(r)
  BY <1>4 DEF ExpireHeld, Expire, LockOwnedUnlessLapsed
<1> QED BY <1>1, <1>2, <1>3, <1>4 DEF Environment

(* Whatever the other requests do, a request inside the critical section   *)
(* owns the key unless Redis itself expired it: turns of one session are   *)
(* serialized by the lock for every number of requests.                    *)
THEOREM LockOwned == Spec => []LockOwnedUnlessLapsed
<1>1. Init => LockOwnedUnlessLapsed
  BY DEF Init, LockOwnedUnlessLapsed, TurnPCs
<1>2. TypeOK /\ LockOwnedUnlessLapsed /\ [Next]_vars => LockOwnedUnlessLapsed'
  <2>1. ASSUME LockOwnedUnlessLapsed, UNCHANGED vars PROVE LockOwnedUnlessLapsed'
    BY <2>1 DEF vars, lockVars, LockOwnedUnlessLapsed
  <2> QED BY <2>1, StepKeepsLock, EnvironmentKeepsLock DEF Next, Quiet
<1> QED BY <1>1, <1>2, TypeCorrect, PTL DEF Spec

-----------------------------------------------------------------------------
(* The way out of the critical section.  SessionUnlocked is beyond the     *)
(* prover, but not what it rests on: the key is held by a request of the   *)
(* section or by one that died there, and each step of its holder brings   *)
(* the release closer, whatever fails on the way.                          *)
LockHolders == \A r \in Requests : lock = r => pc[r] \in TurnPCs \cup {"dead"}

(* The steps of the section that are still to come, at most. *)
StepsToRelease(label) ==
  CASE label = "claim"   -> 7
    [] label = "read"    -> 6
    [] label = "stream"  -> 5
    [] label = "run"     -> 4
    [] label = "persist" -> 3
    [] label = "release" -> 2
    [] label = "refuse"  -> 2
    [] label = "dead"    -> 1
    [] OTHER             -> 0

(* A request keeps the key only by going on to its release, or by dying:   *)
(* no failure path of a handler takes it back to an earlier point, and     *)
(* nobody else's step makes it wait longer.                                *)
HolderAdvances ==
  [][\A r \in Requests : lock = r =>
       \/ lock' # r
       \/ pc'[r] = pc[r]
       \/ StepsToRelease(pc'[r]) < StepsToRelease(pc[r])]_vars

(* What a step of o does to the holder of the key. *)
HolderMoves(o) ==
  \/ \A r \in Requests : lock' # r
  \/ lock = NoToken /\ lock' = o /\ pc'[o] \in TurnPCs
  \/ lock' = lock /\ UNCHANGED pc
  \/ /\ lock' = lock /\ \A r \in Requests \ {o} : pc'[r] = pc[r]
     /\ \/ lock # o
        \/ /\ pc'[o] \in TurnPCs \cup {"dead"}
           /\ StepsToRelease(pc'[o]) < StepsToRelease(pc[o])

LEMMA StepMovesHolder ==
  ASSUME TypeOK, LockHolders, NEW o \in Requests, Step(o) \/ Environment(o)
  PROVE  HolderMoves(o)
<1> USE DEF TypeOK, HandlersTypeOK, Goto
<1>1. CASE AcquireLock(o)
  BY <1>1 DEF AcquireLock, Acquire, HolderMoves, TurnPCs
<1>2. CASE RefuseOverBudget(o) \/ ReleaseLock(o)
  <2>1. /\ lock' = IF lock = o THEN NoToken ELSE lock
        /\ \A r \in Requests \ {o} : pc'[r] = pc[r]
    BY <1>2 DEF RefuseOverBudget, ReleaseLock, Release, Finish
  <2> QED BY <2>1, NoTokenAssumption DEF HolderMoves
<1>3. CASE ExpireDead(o) \/ ExpireHeld(o)
  BY <1>3, NoTokenAssumption DEF ExpireDead, ExpireHeld, Expire, HolderMoves
<1>4. CASE \/ \E k \in Offered, m \in 1..(served + 1) : Arrive(o, k, m)
           \/ RefuseBusy(o) \/ ReleaseClaim(o) \/ Reap(o)
           \/ ReadForGate(o) \/ RefuseGate(o) \/ CheckRow(o)
           \/ AcceptModel(o) \/ ApprovePlan(o) \/ GateConflict(o)
  <2>1. lock' = lock /\ \A r \in Requests \ {o} : pc'[r] = pc[r]
    BY <1>4 DEF Arrive, RefuseBusy, ReleaseClaim, Reap, ReadForGate, RefuseGate, CheckRow,
         AcceptModel, ApprovePlan, GateConflict, Finish, lockVars
  <2>2. CASE Reap(o)
    BY <2>1, <2>2 DEF Reap, HolderMoves
  <2>3. CASE ~ Reap(o)
    <3>1. pc[o] \notin TurnPCs \cup {"dead"}
      BY <1>4, <2>3 DEF Arrive, RefuseBusy, ReleaseClaim, ReadForGate, RefuseGate, CheckRow,
           AcceptModel, ApprovePlan, GateConflict, TurnPCs
    <3> QED BY <2>1, <3>1 DEF LockHolders, HolderMoves
  <2> QED BY <2>2, <2>3
<1>5. CASE \/ ClaimMessage(o) \/ RefuseDuplicate(o) \/ ReadModel(o) \/ OpenStream(o)
           \/ RunTurn(o) \/ FailGraph(o) \/ PersistTurn(o) \/ PersistImport(o)
           \/ PersistConflict(o)
  <2>1. lock' = lock /\ \A r \in Requests \ {o} : pc'[r] = pc[r]
    BY <1>5 DEF ClaimMessage, RefuseDuplicate, ReadModel, OpenStream, RunTurn, ApplyImport,
         FinishGraph, FailGraph, PersistTurn, PersistImport, PersistConflict, EndTurn,
         lockVars
  <2>2. \/ pc[o] = "claim" /\ pc'[o] \in {"read", "refuse", "release"}
        \/ pc[o] = "read" /\ pc'[o] \in {"stream", "run"}
        \/ pc[o] = "stream" /\ pc'[o] = "run"
        \/ pc[o] = "run" /\ pc'[o] \in {"persist", "release"}
        \/ pc[o] = "persist" /\ pc'[o] = "release"
    BY <1>5 DEF ClaimMessage, RefuseDuplicate, ReadModel, OpenStream, RunTurn, ApplyImport,
         FinishGraph, FailGraph, PersistTurn, PersistImport, PersistConflict, EndTurn
  <2> QED BY <2>1, <2>2 DEF HolderMoves, StepsToRelease, TurnPCs
<1>6. CASE GateErrorInStream(o) \/ Crash(o)
  <2>1. lock' = lock /\ pc' = [pc EXCEPT ![o] = "dead"] /\ pc[o] # "dead"
    BY <1>6 DEF GateErrorInStream, Crash, Abandon, InFlight, lockVars
  <2>2. lock = o => pc[o] \in TurnPCs
    BY <2>1 DEF LockHolders
  <2> QED BY <2>1, <2>2 DEF HolderMoves, StepsToRelease, TurnPCs
<1>7. CASE Disconnect(o)
  <2>1. /\ lock' = lock /\ \A r \in Requests \ {o} : pc'[r] = pc[r]
        /\ \/ pc[o] = "stream" /\ pc'[o] = "dead"
           \/ pc[o] \in {"run", "persist"} /\ pc'[o] = "release"
    BY <1>7 DEF Disconnect, Abandon, EndTurn, lockVars
  <2> QED BY <2>1 DEF HolderMoves, StepsToRelease, TurnPCs
<1> QED
  BY <1>1, <1>2, <1>3, <1>4, <1>5, <1>6, <1>7 DEF Step, Environment

LEMMA HoldersNext ==
  ASSUME TypeOK, LockHolders, [Next]_vars
  PROVE  /\ LockHolders'
         /\ \A r \in Requests : lock = r =>
              \/ lock' # r
              \/ pc'[r] = pc[r]
              \/ StepsToRelease(pc'[r]) < StepsToRelease(pc[r])
<1>1. CASE UNCHANGED vars
  BY <1>1 DEF vars, lockVars, LockHolders
<1>2. ASSUME NEW o \in Requests, Step(o) \/ Environment(o)
      PROVE  /\ LockHolders'
             /\ \A r \in Requests : lock = r =>
                  \/ lock' # r
                  \/ pc'[r] = pc[r]
                  \/ StepsToRelease(pc'[r]) < StepsToRelease(pc[r])
  <2>1. HolderMoves(o)
    BY <1>2, StepMovesHolder
  <2> QED BY <2>1, NoTokenAssumption DEF HolderMoves, LockHolders
<1> QED BY <1>1, <1>2 DEF Next, Quiet

(* The key is held by a request of the section, or one that died in it.    *)
LEMMA HoldersInvariant == Spec => []LockHolders
<1>1. Init => LockHolders
  BY NoTokenAssumption DEF Init, LockInit, LockHolders
<1> QED BY <1>1, HoldersNext, TypeCorrect, PTL DEF Spec

(* Every handler that holds the lock gets closer to its release with every *)
(* step, under all faults: what is left of the argument for                *)
(* SessionUnlocked is that the steps are taken, and that Redis lets the    *)
(* key of a dead request expire.                                           *)
THEOREM ReleaseApproaches == Spec => HolderAdvances
<1>1. TypeOK /\ LockHolders /\ [Next]_vars =>
        [\A r \in Requests : lock = r =>
           \/ lock' # r
           \/ pc'[r] = pc[r]
           \/ StepsToRelease(pc'[r]) < StepsToRelease(pc[r])]_vars
  BY HoldersNext
<1> QED BY <1>1, HoldersInvariant, TypeCorrect, PTL DEF Spec, HolderAdvances

-----------------------------------------------------------------------------
(* Message ids.  Only its owner lets a claim go, and only unapplied.       *)

(* A step of r that touches neither claims nor results and, if r works on  *)
(* a claimed message afterwards, did so before.                            *)
LEMMA ClaimsUntouched ==
  ASSUME TypeOK, ClaimInv, NEW r \in Requests, UNCHANGED << claims, applied >>,
         \A o \in Requests \ {r} : pc'[o] = pc[o] /\ msg'[o] = msg[o],
         pc'[r] \in ClaimPCs => (pc[r] \in ClaimPCs /\ msg'[r] = msg[r]) \/ msg'[r] = 0
  PROVE  ClaimInv'
  BY DEF ClaimInv, MessageAppliedOnce, ClaimExclusive

(* A step of r that lets its claim go without a result. *)
LEMMA ClaimLetGo ==
  ASSUME TypeOK, ClaimInv, NEW r \in Requests, UNCHANGED applied,
         pc[r] \in ClaimPCs, pc'[r] \notin ClaimPCs, claims' = claims \ {msg[r]},
         \A o \in Requests \ {r} : pc'[o] = pc[o] /\ msg'[o] = msg[o]
  PROVE  ClaimInv'
<1> USE DEF ClaimInv, MessageAppliedOnce, ClaimExclusive
<1>1. \A m \in 1..MaxRequests : applied[m] > 0 => m # msg[r]
  BY DEF TypeOK, HandlersTypeOK
<1> QED BY <1>1

LEMMA StepKeepsClaims ==
  ASSUME TypeInv, ClaimInv, NEW r \in Requests, Step(r)
  PROVE  ClaimInv'
<1> USE DEF TypeInv
<1>1. CASE AcquireLock(r)
  <2>1. pc'[r] \in ClaimPCs => msg'[r] = 0
    BY <1>1 DEF AcquireLock, Goto, KindsOK, TypeOK, HandlersTypeOK, ClaimPCs
  <2>2. /\ UNCHANGED << claims, applied >>
        /\ \A o \in Requests \ {r} : pc'[o] = pc[o] /\ msg'[o] = msg[o]
    BY <1>1 DEF AcquireLock, Goto, rowVars, TypeOK, HandlersTypeOK
  <2> QED BY <2>1, <2>2, ClaimsUntouched
<1>2. CASE ClaimMessage(r)
  <2>1. /\ msg[r] \in 1..MaxRequests /\ msg[r] \notin claims
        /\ claims' = claims \cup {msg[r]} /\ UNCHANGED << applied, msg >>
        /\ \A o \in Requests \ {r} : pc'[o] = pc[o]
    BY <1>2, ConstantsAssumption
       DEF ClaimMessage, KindsOK, TypeOK, HandlersTypeOK, Goto
  <2>2. applied[msg[r]] = 0
    BY <2>1 DEF ClaimInv, TypeOK, HandlersTypeOK
  <2>3. \A o \in Requests \ {r} : pc[o] \in ClaimPCs => msg[o] # msg[r]
    BY <2>1 DEF ClaimInv, TypeOK, HandlersTypeOK
  <2> QED BY <2>1, <2>2, <2>3 DEF ClaimInv, MessageAppliedOnce, ClaimExclusive
<1>3. CASE FailGraph(r) \/ ReleaseClaim(r)
  <2>1. /\ UNCHANGED applied /\ claims' = claims \ {msg[r]}
        /\ pc[r] \in ClaimPCs /\ pc'[r] \notin ClaimPCs
        /\ \A o \in Requests \ {r} : pc'[o] = pc[o] /\ msg'[o] = msg[o]
    BY <1>3 DEF FailGraph, ReleaseClaim, EndTurn, Finish, Goto, ClaimPCs, TypeOK,
                HandlersTypeOK
  <2> QED BY <2>1, ClaimLetGo
<1>4. CASE PersistTurn(r)
  <2>1. /\ UNCHANGED << claims, msg >>
        /\ pc[r] \in ClaimPCs /\ pc'[r] \notin ClaimPCs
        /\ \A o \in Requests \ {r} : pc'[o] = pc[o]
        /\ applied' = IF kind[r] = "message" THEN [applied EXCEPT ![msg[r]] = @ + 1]
                                             ELSE applied
    BY <1>4 DEF PersistTurn, EndTurn, Goto, ClaimPCs, TypeOK, HandlersTypeOK
  <2>2. CASE kind[r] # "message"
    BY <2>1, <2>2 DEF ClaimInv, MessageAppliedOnce, ClaimExclusive
  <2>3. CASE kind[r] = "message"
    <3>1. msg[r] \in claims /\ msg[r] # 0 /\ msg[r] \in 1..MaxRequests
          /\ applied[msg[r]] = 0
      BY <2>1, <2>3, ConstantsAssumption DEF ClaimInv, KindsOK, TypeOK, HandlersTypeOK
    <3>2. /\ applied'[msg[r]] = 1
          /\ \A m \in 1..MaxRequests : m # msg[r] => applied'[m] = applied[m]
      BY <2>1, <2>3, <3>1 DEF TypeOK, HandlersTypeOK
    <3>3. \A o \in Requests \ {r} : pc[o] \in ClaimPCs => msg[o] # msg[r]
      BY <2>1, <3>1 DEF ClaimInv, ClaimExclusive
    <3>4. \A o \in Requests : pc'[o] \in ClaimPCs =>
            o # r /\ pc[o] \in ClaimPCs /\ msg[o] \in 0..MaxRequests
      BY <2>1 DEF TypeOK, HandlersTypeOK
    <3>5. MessageAppliedOnce' /\ \A m \in 1..MaxRequests : applied'[m] > 0 => m \in claims'
      BY <2>1, <3>1, <3>2 DEF ClaimInv, MessageAppliedOnce
    <3>6. ClaimExclusive'
      BY <2>1, <3>4 DEF ClaimInv, ClaimExclusive
    <3>7. \A o \in Requests : pc'[o] \in ClaimPCs /\ msg[o] # 0 =>
            msg[o] \in claims /\ applied'[msg[o]] = 0
      <4> SUFFICES ASSUME NEW o \in Requests, pc'[o] \in ClaimPCs, msg[o] # 0
                   PROVE  msg[o] \in claims /\ applied'[msg[o]] = 0
        OBVIOUS
      <4>1. msg[o] \in 1..MaxRequests /\ msg[o] # msg[r]
        BY <3>3, <3>4, ConstantsAssumption
      <4> QED BY <3>2, <3>4, <4>1 DEF ClaimInv
    <3> QED BY <2>1, <3>5, <3>6, <3>7 DEF ClaimInv
  <2> QED BY <2>2, <2>3
<1>5. CASE \/ RefuseOverBudget(r) \/ ReadModel(r) \/ OpenStream(r) \/ RunTurn(r)
           \/ PersistImport(r) \/ PersistConflict(r) \/ GateErrorInStream(r)
  <2>1. /\ UNCHANGED << claims, applied, msg >> /\ pc[r] \in ClaimPCs
        /\ \A o \in Requests \ {r} : pc'[o] = pc[o]
    BY <1>5 DEF RefuseOverBudget, ReadModel, OpenStream, RunTurn, ApplyImport,
         FinishGraph, PersistImport, PersistConflict, GateErrorInStream, EndTurn, Abandon, Goto, rowVars, ClaimPCs,
         TypeOK, HandlersTypeOK
  <2> QED BY <2>1, ClaimsUntouched
<1>6. CASE \/ RefuseBusy(r) \/ RefuseDuplicate(r) \/ ReleaseLock(r) \/ ReadForGate(r)
           \/ RefuseGate(r) \/ CheckRow(r) \/ AcceptModel(r) \/ ApprovePlan(r)
           \/ GateConflict(r) \/ Reap(r)
  <2>1. /\ UNCHANGED << claims, applied >> /\ pc'[r] \notin ClaimPCs
        /\ \A o \in Requests \ {r} : pc'[o] = pc[o] /\ msg'[o] = msg[o]
    BY <1>6 DEF RefuseBusy, RefuseDuplicate, ReleaseLock, ReadForGate, RefuseGate,
         CheckRow, AcceptModel, ApprovePlan, GateConflict, Reap, EndTurn, Finish, Goto,
         rowVars, ClaimPCs, TypeOK, HandlersTypeOK
  <2> QED BY <2>1, ClaimsUntouched
<1>7. CASE ExpireDead(r)
  BY <1>7 DEF ExpireDead, rowVars, ClaimInv, MessageAppliedOnce, ClaimExclusive
<1> QED BY <1>1, <1>2, <1>3, <1>4, <1>5, <1>6, <1>7 DEF Step

LEMMA EnvironmentKeepsClaims ==
  ASSUME TypeInv, ClaimInv, NEW r \in Requests, Environment(r)
  PROVE  ClaimInv'
<1> USE DEF TypeInv, TypeOK, HandlersTypeOK
<1>1. CASE \/ \E k \in Offered, m \in 1..(served + 1) : Arrive(r, k, m)
           \/ Disconnect(r) \/ Crash(r)
  <2>1. /\ UNCHANGED << claims, applied >> /\ pc'[r] \notin ClaimPCs
        /\ \A o \in Requests \ {r} : pc'[o] = pc[o] /\ msg'[o] = msg[o]
    BY <1>1 DEF Arrive, Disconnect, Crash, EndTurn, Abandon, Goto, rowVars, ClaimPCs
  <2> QED BY <2>1, ClaimsUntouched
<1>2. CASE ExpireHeld(r)
  BY <1>2 DEF ExpireHeld, rowVars, ClaimInv, MessageAppliedOnce, ClaimExclusive
<1> QED BY <1>1, <1>2 DEF Environment

THEOREM ClaimInvHolds == Spec => []ClaimInv
<1>1. Init => ClaimInv
  BY DEF Init, ClaimInv, MessageAppliedOnce, ClaimExclusive, ClaimPCs
<1>2. TypeInv /\ ClaimInv /\ [Next]_vars => ClaimInv'
  <2>1. ASSUME ClaimInv, UNCHANGED vars PROVE ClaimInv'
    BY <2>1 DEF vars, rowVars, ClaimInv, MessageAppliedOnce, ClaimExclusive
  <2> QED BY <2>1, StepKeepsClaims, EnvironmentKeepsClaims DEF Next, Quiet
<1> QED BY <1>1, <1>2, TypeInvHolds, PTL DEF Spec

(* A message is applied at most once, however often it is sent and         *)
(* whatever crash, disconnect or lapsed lock comes between.                *)
THEOREM AppliedOnce == Spec => []MessageAppliedOnce
  BY ClaimInvHolds, PTL DEF ClaimInv

(* No two requests ever work on one message. *)
THEOREM ClaimsExclude == Spec => []ClaimExclusive
  BY ClaimInvHolds, PTL DEF ClaimInv

-----------------------------------------------------------------------------
(* Gate 1.  A session never returns to discovery, and only the handler of  *)
(* gate 1 makes an accepted model while it is there.                       *)
LEMMA StepKeepsGateOne ==
  ASSUME TypeInv, GateOneInv, NEW r \in Requests, Step(r) \/ Environment(r)
  PROVE  GateOneInv'
<1> SUFFICES ASSUME status' = "discovery"
             PROVE  /\ AcceptedRows' = {}
                    /\ \A o \in Requests :
                         kind'[o] # "accept" => view'[o].model.status = "draft"
  BY DEF GateOneInv
<1> USE DEF TypeInv, TypeOK, HandlersTypeOK, ViewsTypeOK
<1>1. CASE PersistTurn(r) \/ PersistImport(r)
  <2>1. status = "discovery" /\ kind[r] # "accept" /\ pc[r] = "persist"
    BY <1>1 DEF PersistTurn, PersistImport, KindsOK, TurnPCs, GateKinds
  <2>2. AcceptedRows' = {}
    BY <1>1, <2>1 DEF PersistTurn, PersistImport, WriteModel, SaveModel, GateOneInv,
                      AcceptedRows
  <2>3. \A o \in Requests : kind'[o] # "accept" => view'[o].model.status = "draft"
    <3>1. kind' = kind /\ view' = [view EXCEPT ![r] = Blank]
      BY <1>1 DEF PersistTurn, PersistImport, EndTurn
    <3> QED BY <2>1, <3>1 DEF Blank, NewModel, GateOneInv
  <2> QED BY <2>2, <2>3
<1>2. CASE AcceptModel(r) \/ ApprovePlan(r)
  BY <1>2 DEF AcceptModel, ApprovePlan
<1>3. CASE ReadModel(r)
  <2>1. LatestModel.status = "draft"
    BY <1>3, LatestModelIsRow DEF ReadModel, rowVars, RowsTypeOK, Model, GateOneInv,
                                  AcceptedRows
  <2> QED BY <1>3, <2>1 DEF ReadModel, rowVars, GateOneInv, AcceptedRows, View
<1>4. CASE OpenStream(r)
  BY <1>4 DEF OpenStream, rowVars, GateOneInv, AcceptedRows
<1>5. CASE RunTurn(r)
  <2>1. UNCHANGED << rowVars, kind >> /\ pc[r] = "run"
    BY <1>5 DEF RunTurn, ApplyImport, FinishGraph
  <2>2. view'[r].model.status = view[r].model.status
          /\ \A o \in Requests \ {r} : view'[o] = view[o]
    <3>1. PICK patches \in 0..MaxPatches, structural \in BOOLEAN :
            \/ ApplyImport(r, patches, structural)
            \/ \E made \in 0..(1 + MaxRefine) : FinishGraph(r, patches, structural, made)
      BY <1>5 DEF RunTurn
    <3>2. PatchedModel(view[r], patches, structural).status = view[r].model.status
      BY DEF PatchedModel, View, Model
    <3> DEFINE model == PatchedModel(view[r], patches, structural)
    <3>3. view'[r].model = model /\ \A o \in Requests \ {r} : view'[o] = view[o]
      <4>1. CASE ApplyImport(r, patches, structural)
        <5>1. PICK seen : view' = [view EXCEPT ![r] =
                [view[r] EXCEPT !.model = model, !.modelSeen = seen]]
          BY <4>1 DEF ApplyImport
        <5> HIDE DEF model
        <5> QED BY <5>1 DEF View
      <4>2. CASE \E made \in 0..(1 + MaxRefine) : FinishGraph(r, patches, structural, made)
        <5>1. PICK made \in 0..(1 + MaxRefine) : FinishGraph(r, patches, structural, made)
          BY <4>2
        <5> DEFINE plan == IF made = 0 THEN view[r].plan
                   ELSE [version |-> made, status |-> "reviewed", basis |-> model.edits]
        <5>2. view' = [view EXCEPT ![r] = [view[r] EXCEPT
                         !.model = model, !.plan = plan,
                         !.modelSeen = HasVersion(models, model.version),
                         !.planSeen = HasVersion(plans, plan.version)]]
          BY <5>1 DEF FinishGraph
        <5> HIDE DEF model, plan
        <5> QED BY <5>2 DEF View
      <4> QED BY <3>1, <4>1, <4>2
    <3> QED BY <3>2, <3>3
  <2> QED BY <2>1, <2>2 DEF rowVars, GateOneInv, AcceptedRows
<1>6. CASE ReadForGate(r)
  BY <1>6 DEF ReadForGate, rowVars, GateOneInv, AcceptedRows, View
<1>7. CASE CheckRow(r)
  BY <1>7 DEF CheckRow, rowVars, GateOneInv, AcceptedRows, View
<1>8. CASE \E k \in Offered, m \in 1..(served + 1) : Arrive(r, k, m)
  BY <1>8 DEF Arrive, rowVars, GateOneInv, AcceptedRows, Blank, NewModel
<1>9. CASE \/ RefuseBusy(r) \/ RefuseDuplicate(r) \/ ReleaseClaim(r)
           \/ GateErrorInStream(r) \/ FailGraph(r) \/ PersistConflict(r)
           \/ ReleaseLock(r) \/ RefuseGate(r) \/ GateConflict(r) \/ Reap(r)
           \/ Disconnect(r) \/ Crash(r)
  <2>1. status = "discovery" /\ models' = models /\ view'[r] = Blank
        /\ \A o \in Requests \ {r} : kind'[o] = kind[o] /\ view'[o] = view[o]
    BY <1>9 DEF RefuseBusy, RefuseDuplicate, ReleaseClaim, GateErrorInStream, FailGraph,
         PersistConflict, ReleaseLock, RefuseGate, GateConflict, Reap, Disconnect, Crash,
         EndTurn, Abandon, Finish, rowVars
  <2>2. AcceptedRows' = {}
    BY <2>1 DEF GateOneInv, AcceptedRows
  <2>3. view'[r].model.status = "draft"
    BY <2>1 DEF Blank, NewModel
  <2>4. \A o \in Requests \ {r} : kind'[o] # "accept" => view'[o].model.status = "draft"
    BY <2>1 DEF GateOneInv
  <2> QED BY <2>2, <2>3, <2>4
<1>10. CASE \/ AcquireLock(r) \/ ClaimMessage(r) \/ RefuseOverBudget(r)
            \/ ExpireDead(r) \/ ExpireHeld(r)
  BY <1>10 DEF AcquireLock, ClaimMessage, RefuseOverBudget, ExpireDead, ExpireHeld,
               rowVars, GateOneInv, AcceptedRows
<1> QED BY <1>1, <1>2, <1>3, <1>4, <1>5, <1>6, <1>7, <1>8, <1>9, <1>10
        DEF Step, Environment

(* Nothing is accepted before gate 1, by any order of turns, imports,      *)
(* gates and failures.                                                     *)
THEOREM GateOneFirst == Spec => []NothingAcceptedBeforeGateOne
<1>1. Init => GateOneInv
  BY DEF Init, GateOneInv, AcceptedRows, NewModel, Blank
<1>2. TypeInv /\ GateOneInv /\ [Next]_vars => GateOneInv'
  <2>1. ASSUME GateOneInv, UNCHANGED vars PROVE GateOneInv'
    BY <2>1 DEF vars, rowVars, GateOneInv, AcceptedRows
  <2> QED BY <2>1, StepKeepsGateOne DEF Next, Quiet
<1>3. GateOneInv => NothingAcceptedBeforeGateOne
  BY DEF GateOneInv, NothingAcceptedBeforeGateOne
<1> QED BY <1>1, <1>2, <1>3, TypeInvHolds, PTL DEF Spec

-----------------------------------------------------------------------------
(* Calm sessions: turns are serialized end to end, lose no update and      *)
(* implement SessionGates.                                                 *)

(* What the theorems on the composition assume of the environment: no key  *)
(* expires under a request that still works, and no gate is called during  *)
(* another request.  Clients may disconnect and replicas may crash.        *)
Calm == "lapse" \notin Faults /\ "gate_race" \notin Faults

LapsedAreDead == \A r \in lapsed : pc[r] = "dead"

GatesAlone ==
  \A r, o \in Requests :
    r # o /\ InFlight(r) /\ InFlight(o) => kind[r] \notin GateKinds

(* The tables agree with the status of the session. *)
TablesFollowStatus ==
  /\ status # "discovery" => LatestModel.status = "accepted"
  /\ status \in {"discovery", "planning"} => plans = {}
  /\ status = "review" => plans # {} /\ \A p \in plans : p.status = "reviewed"

Working == {"acquire", "claim", "refuse", "read", "stream", "run", "persist"}

(* The status a request read on arrival is still on the right side of each *)
(* gate.                                                                   *)
StageKept(r) ==
  /\ view[r].status = "discovery" <=> status = "discovery"
  /\ view[r].status = "review" => status = "review"
  /\ view[r].status # "exported"
  /\ kind[r] # "message" => view[r].status = "discovery"

GivenPlan(r) == IF view[r].status = "review" THEN LatestPlan ELSE NoPlan

(* What a turn is about to persist continues the newest rows. *)
ResultContinues(r) ==
  /\ view[r].model.status = LatestModel.status
  /\ view[r].model.version >= LatestModel.version
  /\ view[r].model.version = LatestModel.version => view[r].model.edits = LatestModel.edits
  /\ view[r].model.version > LatestModel.version => ~view[r].modelSeen
  /\ view[r].model.edits \in {LatestModel.edits, LatestModel.edits \cup {view[r].serial}}
  /\ \/ view[r].plan = GivenPlan(r)
     \/ /\ view[r].status # "discovery" /\ view[r].plan # NoPlan
        /\ view[r].plan.status = "reviewed"
        /\ view[r].plan.basis = view[r].model.edits

TurnFollowsTables(r) ==
  /\ pc[r] \in Working => StageKept(r)
  /\ pc[r] \in {"stream", "run", "persist"} => view[r].before = LatestModel
  /\ pc[r] \in {"stream", "run"} => view[r].model = LatestModel
  /\ pc[r] \in Working \ {"run", "persist"} => view[r].plan = NoPlan
  /\ pc[r] = "run" => view[r].plan = GivenPlan(r)
  /\ pc[r] = "persist" => ResultContinues(r)

(* What a gate is about to commit is the newest row it froze. *)
GateFollowsTables(r) ==
  /\ InFlight(r) => status # "exported"
  /\ InFlight(r) /\ kind[r] = "accept" => status = "discovery"
  /\ InFlight(r) /\ kind[r] = "approve" => status = "review"
  /\ pc[r] \in {"gateCheck", "gateCommit"} /\ kind[r] = "accept" =>
       /\ LatestModel.edits # {} /\ view[r].model.edits = LatestModel.edits
       /\ view[r].model.version = LatestModel.version + 1
       /\ view[r].model.status = "accepted"
  /\ pc[r] = "gateCommit" /\ kind[r] = "accept" => ~view[r].modelSeen
  /\ pc[r] \in {"gateCheck", "gateCommit"} /\ kind[r] = "approve" =>
       /\ view[r].plan.basis = LatestPlan.basis
       /\ view[r].plan.version = LatestPlan.version + 1
       /\ view[r].plan.status = "final"

CalmInv ==
  /\ LapsedAreDead /\ GatesAlone
  /\ NoLostUpdate /\ TablesFollowStatus
  /\ \A r \in Requests : TurnFollowsTables(r) /\ GateFollowsTables(r)

(* Rows written on top of the newest one. *)
LEMMA NewestModelAfter ==
  ASSUME TypeInv, NEW row \in Model, row.version > LatestModel.version,
         models' = models \cup {row}
  PROVE  LatestModel' = row
<1>1. \A m \in models : m.version \in Nat /\ m.version <= LatestModel.version
  BY DEF TypeInv, TypeOK, RowsTypeOK, Model, RowsOK, HasLatest, LatestModel
<1>2. LatestModel \in models
  BY LatestModelIsRow DEF TypeInv
<1>3. row.version \in Nat /\ \A m \in models : m.version < row.version
  BY <1>1, <1>2 DEF Model
<1>4. \A m \in models' : (\A o \in models' : o.version <= m.version) <=> m = row
  BY <1>1, <1>3
<1> QED BY <1>4 DEF LatestModel

LEMMA NoRowYet ==
  ASSUME TypeInv, NEW v \in Nat, v > LatestModel.version
  PROVE  ~HasVersion(models, v)
<1>1. \A m \in models : m.version \in Nat /\ m.version <= LatestModel.version
  BY DEF TypeInv, TypeOK, RowsTypeOK, Model, RowsOK, HasLatest, LatestModel
<1>2. LatestModel \in models
  BY LatestModelIsRow DEF TypeInv
<1> QED BY <1>1, <1>2 DEF HasVersion

(* A plan replaces the newest one, or is older than it and leaves it. *)
LEMMA NewestPlanAfter ==
  ASSUME TypeInv, NEW row \in Plan, plans' = Upsert(plans, row)
  PROVE  /\ LatestPlan' \in {row, LatestPlan}
         /\ plans = {} \/ row.version > LatestPlan.version => LatestPlan' = row
         /\ plans' # {}
<1>1. /\ \A p \in plans : p.version \in Nat
      /\ \A p, q \in plans : p.version = q.version => p = q
      /\ row.version \in Nat
  BY DEF TypeInv, TypeOK, RowsTypeOK, Plan, UniqueVersions
<1>2. plans' = {p \in plans : p.version # row.version} \cup {row}
  BY DEF Upsert
<1>3. LatestPlan' = CHOOSE p \in plans' : \A o \in plans' : o.version <= p.version
  BY <1>2 DEF LatestPlan
<1>4. CASE \A p \in plans : p.version <= row.version
  <2>1. \A p \in plans' : (\A o \in plans' : o.version <= p.version) <=> p = row
    BY <1>1, <1>2, <1>4
  <2> QED BY <1>2, <1>3, <2>1
<1>5. CASE \E p \in plans : ~(p.version <= row.version)
  <2>1. plans # {} /\ LatestPlan = CHOOSE p \in plans : \A o \in plans : o.version <= p.version
    BY <1>5 DEF LatestPlan
  <2>2. LatestPlan \in plans /\ \A o \in plans : o.version <= LatestPlan.version
    BY <2>1 DEF TypeInv, RowsOK, HasLatest
  <2>3. row.version < LatestPlan.version
    BY <1>1, <1>5, <2>2
  <2>4. \A p \in plans' : (\A o \in plans' : o.version <= p.version) <=> p = LatestPlan
    BY <1>1, <1>2, <2>2, <2>3
  <2>5. LatestPlan \in plans'
    BY <1>1, <1>2, <2>2, <2>3
  <2>6. LatestPlan' = LatestPlan
    BY <1>3, <2>4, <2>5
  <2> QED BY <1>1, <1>2, <2>2, <2>3, <2>6
<1> QED BY <1>4, <1>5

(* Past gate 1 the newest model is the newest accepted one. *)
LEMMA NewestIsAccepted ==
  ASSUME TypeInv, LatestModel.status = "accepted"
  PROVE  AcceptedRows # {} /\ AcceptedModel = LatestModel
<1>1. LatestModel \in models /\ \A o \in models : o.version <= LatestModel.version
  BY DEF TypeInv, RowsOK, HasLatest, LatestModel
<1>2. LatestModel \in AcceptedRows
  BY <1>1 DEF AcceptedRows
<1>3. \A p, q \in models : p.version = q.version => p = q
  BY DEF TypeInv, TypeOK, RowsTypeOK, UniqueVersions
<1>4. \A p \in models : p.version \in Nat
  BY DEF TypeInv, TypeOK, RowsTypeOK, Model
<1>5. \A p \in AcceptedRows :
        (\A o \in AcceptedRows : o.version <= p.version) <=> p = LatestModel
  BY <1>1, <1>2, <1>3, <1>4 DEF AcceptedRows
<1> QED BY <1>2, <1>5 DEF AcceptedModel

(* A request in the critical section is there alone. *)
LEMMA SectionAlone ==
  ASSUME TypeInv, LockOwnedUnlessLapsed, LapsedAreDead,
         NEW r \in Requests, NEW o \in Requests, pc[r] \in TurnPCs, pc[o] \in TurnPCs
  PROVE  r = o
<1>1. "dead" \notin TurnPCs BY DEF TurnPCs
<1> QED BY <1>1 DEF LockOwnedUnlessLapsed, LapsedAreDead

LEMMA CalmInit == Init => CalmInv
<1> SUFFICES ASSUME Init PROVE CalmInv OBVIOUS
<1>1. LapsedAreDead /\ GatesAlone
  BY DEF Init, LockInit, LapsedAreDead, GatesAlone, InFlight
<1>2. NoLostUpdate /\ TablesFollowStatus
  BY DEF Init, NoLostUpdate, TablesFollowStatus
<1>3. \A r \in Requests : TurnFollowsTables(r) /\ GateFollowsTables(r)
  BY DEF Init, TurnFollowsTables, GateFollowsTables, InFlight, Working
<1> QED BY <1>1, <1>2, <1>3 DEF CalmInv

(* A step of r that leaves the tables alone disturbs only what the         *)
(* invariant says of r.                                                    *)
Beside(r) ==
  \A o \in Requests \ {r} : pc'[o] = pc[o] /\ kind'[o] = kind[o] /\ view'[o] = view[o]

LEMMA TablesAlone ==
  ASSUME CalmInv, NEW r \in Requests, UNCHANGED << status, models, plans, audited >>,
         Beside(r), LapsedAreDead', GatesAlone',
         TurnFollowsTables(r)', GateFollowsTables(r)'
  PROVE  CalmInv'
<1>1. LatestModel' = LatestModel /\ LatestPlan' = LatestPlan
  BY DEF LatestModel, LatestPlan
<1>2. NoLostUpdate' /\ TablesFollowStatus'
  BY <1>1 DEF CalmInv, NoLostUpdate, TablesFollowStatus
<1>3. ASSUME NEW o \in Requests \ {r}
      PROVE  TurnFollowsTables(o)' /\ GateFollowsTables(o)'
  <2>1. /\ pc'[o] = pc[o] /\ kind'[o] = kind[o] /\ view'[o] = view[o]
        /\ TurnFollowsTables(o) /\ GateFollowsTables(o)
    BY DEF Beside, CalmInv
  <2>2. TurnFollowsTables(o)'
    BY <1>1, <2>1 DEF TurnFollowsTables, StageKept, GivenPlan, ResultContinues
  <2>3. GateFollowsTables(o)'
    BY <1>1, <2>1 DEF GateFollowsTables, InFlight
  <2> QED BY <2>2, <2>3
<1>4. \A o \in Requests : TurnFollowsTables(o)' /\ GateFollowsTables(o)'
  BY <1>3
<1> QED BY <1>2, <1>4 DEF CalmInv

(* A request that stays in flight with the same kind, or leaves, meets no  *)
(* gate it had not met before.                                             *)
LEMMA GatesStayAlone ==
  ASSUME GatesAlone, NEW r \in Requests, Beside(r),
         InFlight(r)' => InFlight(r) /\ kind'[r] = kind[r]
  PROVE  GatesAlone'
  BY DEF GatesAlone, Beside, InFlight

Away == {"idle", "dead", "release", "unclaim"}

LEMMA LeavingKeepsTables ==
  ASSUME TypeInv, CalmInv, NEW r \in Requests, Beside(r), pc'[r] \in Away,
         UNCHANGED << status, models, plans, audited >>,
         lapsed' \in {lapsed, lapsed \ {r}},
         pc'[r] = "dead" \/ pc[r] # "dead" \/ r \notin lapsed',
         InFlight(r)' => InFlight(r) /\ kind'[r] = kind[r]
  PROVE  CalmInv'
<1>1. LapsedAreDead'
  BY DEF CalmInv, LapsedAreDead, Beside, TypeInv, TypeOK, LockTypeOK
<1>2. GatesAlone'
  BY GatesStayAlone DEF CalmInv
<1>3. TurnFollowsTables(r)'
  BY DEF TurnFollowsTables, Working, Away
<1>4. GateFollowsTables(r)'
  BY DEF CalmInv, GateFollowsTables, Away
<1> QED BY <1>1, <1>2, <1>3, <1>4, TablesAlone

LEMMA StayingKeepsTables ==
  ASSUME TypeInv, CalmInv, NEW r \in Requests, Beside(r),
         pc[r] # "dead", InFlight(r), kind'[r] = kind[r],
         UNCHANGED << status, models, plans, audited, lapsed >>,
         TurnFollowsTables(r)', GateFollowsTables(r)'
  PROVE  CalmInv'
<1>1. LapsedAreDead'
  BY DEF CalmInv, LapsedAreDead, Beside, TypeInv, TypeOK, LockTypeOK
<1>2. GatesAlone'
  BY GatesStayAlone DEF CalmInv
<1> QED BY <1>1, <1>2, TablesAlone

(* Inside a turn r is no gate, and what the invariant says of gates is     *)
(* untouched.                                                              *)
LEMMA TurnIsNoGate ==
  ASSUME TypeInv, CalmInv, NEW r \in Requests, pc[r] \in Working, pc'[r] \in Working,
         kind'[r] = kind[r], UNCHANGED status
  PROVE  InFlight(r) /\ pc[r] # "dead" /\ GateFollowsTables(r)'
<1>1. kind[r] \notin GateKinds
  BY DEF TypeInv, KindsOK, Working, TurnPCs
<1>2. pc'[r] \notin GatePCs /\ InFlight(r) /\ pc[r] # "dead"
  BY DEF Working, GatePCs, InFlight
<1> QED BY <1>1, <1>2 DEF CalmInv, GateFollowsTables, GateKinds, GatePCs

LEMMA ArriveCalm ==
  ASSUME Calm, TypeInv, CalmInv, NEW r \in Requests, NEW k \in Offered,
         NEW m \in 1..(served + 1), Arrive(r, k, m)
  PROVE  CalmInv'
<1> USE ConstantsAssumption DEF TypeInv, TypeOK, HandlersTypeOK, ViewsTypeOK
<1>1. /\ UNCHANGED << status, models, plans, audited, lapsed >> /\ Beside(r)
      /\ pc[r] = "idle" /\ kind'[r] = k /\ k \in Kinds /\ Admits(k)
      /\ pc'[r] = IF k \in GateKinds THEN "gateRead" ELSE "acquire"
      /\ view'[r].status = status /\ view'[r].plan = NoPlan
  BY DEF Arrive, Goto, Beside, rowVars, lockVars, Blank
<1>2. LapsedAreDead'
  BY <1>1 DEF CalmInv, LapsedAreDead, Beside, LockTypeOK
<1>3. GatesAlone'
  <2>1. \A o \in Requests : InFlight(o) => k \notin GateKinds /\ kind[o] \notin GateKinds
    BY DEF Arrive, GateAlone, Calm
  <2>2. \A o \in Requests \ {r} : InFlight(o)' <=> InFlight(o)
    BY <1>1 DEF Beside, InFlight
  <2> QED BY <1>1, <2>1, <2>2 DEF CalmInv, GatesAlone, Beside
<1>4. TurnFollowsTables(r)'
  <2>1. /\ k \notin GateKinds /\ k # "message" => status = "discovery"
        /\ status # "exported"
    BY <1>1 DEF Admits, Kinds, GateKinds
  <2> QED BY <1>1, <2>1 DEF TurnFollowsTables, StageKept, Working
<1>5. GateFollowsTables(r)'
  <2>1. /\ status # "exported" /\ (k = "accept" => status = "discovery")
        /\ k = "approve" => status = "review"
    BY <1>1 DEF Admits
  <2> QED BY <1>1, <2>1 DEF GateFollowsTables
<1> QED BY <1>1, <1>2, <1>3, <1>4, <1>5, TablesAlone

LEMMA EnterCalm ==
  ASSUME TypeInv, CalmInv, NEW r \in Requests, AcquireLock(r) \/ ClaimMessage(r)
  PROVE  CalmInv'
<1>1. /\ UNCHANGED << status, models, plans, audited, lapsed, view, kind >>
      /\ Beside(r) /\ pc[r] \in {"acquire", "claim"}
      /\ pc'[r] \in {"claim", "refuse", "read"}
  BY DEF AcquireLock, Acquire, ClaimMessage, Goto, Beside, rowVars, lockVars,
         TypeInv, TypeOK, HandlersTypeOK
<1>2. GateFollowsTables(r)' /\ InFlight(r) /\ pc[r] # "dead"
  BY <1>1, TurnIsNoGate DEF Working
<1>3. TurnFollowsTables(r)'
  BY <1>1 DEF CalmInv, TurnFollowsTables, StageKept, Working
<1> QED BY <1>1, <1>2, <1>3, StayingKeepsTables

LEMMA ReadModelCalm ==
  ASSUME TypeInv, CalmInv, NEW r \in Requests, ReadModel(r) PROVE CalmInv'
<1>1. /\ UNCHANGED << status, models, plans, audited, lapsed, kind >>
      /\ Beside(r) /\ pc[r] = "read"
      /\ pc'[r] = IF kind[r] = "message" THEN "stream" ELSE "run"
  BY DEF ReadModel, Goto, Beside, rowVars, lockVars, TypeInv, TypeOK, HandlersTypeOK,
         ViewsTypeOK
<1>2. /\ view'[r].before = LatestModel /\ view'[r].model = LatestModel
      /\ view'[r].plan = view[r].plan /\ view'[r].status = view[r].status
  BY DEF ReadModel, TypeInv, TypeOK, ViewsTypeOK, View
<1>3. LatestModel' = LatestModel /\ LatestPlan' = LatestPlan
  BY <1>1 DEF LatestModel, LatestPlan
<1>4. GateFollowsTables(r)' /\ InFlight(r) /\ pc[r] # "dead"
  BY <1>1, TurnIsNoGate DEF Working
<1>5. StageKept(r) /\ view[r].plan = NoPlan
  BY <1>1 DEF CalmInv, TurnFollowsTables, Working
<1>6. TurnFollowsTables(r)'
  BY <1>1, <1>2, <1>3, <1>5 DEF TurnFollowsTables, StageKept, GivenPlan, Working
<1> QED BY <1>1, <1>4, <1>6, StayingKeepsTables

LEMMA OpenStreamCalm ==
  ASSUME TypeInv, CalmInv, NothingAcceptedBeforeGateOne, NEW r \in Requests,
         OpenStream(r)
  PROVE  CalmInv'
<1>1. /\ UNCHANGED << status, models, plans, audited, lapsed, kind >>
      /\ Beside(r) /\ pc[r] = "stream" /\ pc'[r] = "run"
  BY DEF OpenStream, Goto, Beside, rowVars, lockVars, TypeInv, TypeOK, HandlersTypeOK,
         ViewsTypeOK
<1>2. LatestModel' = LatestModel /\ LatestPlan' = LatestPlan
  BY <1>1 DEF LatestModel, LatestPlan
<1>3. GateFollowsTables(r)' /\ InFlight(r) /\ pc[r] # "dead"
  BY <1>1, TurnIsNoGate DEF Working
<1>4. /\ StageKept(r) /\ view[r].before = LatestModel /\ view[r].model = LatestModel
      /\ view[r].plan = NoPlan
  BY <1>1 DEF CalmInv, TurnFollowsTables, Working
<1>5. /\ view'[r].before = LatestModel /\ view'[r].model = LatestModel
      /\ view'[r].status = view[r].status /\ view'[r].plan = GivenPlan(r)
  <2>1. CASE view[r].status = "discovery" /\ UNCHANGED view
    BY <1>4, <2>1 DEF GivenPlan
  <2>2. CASE view[r].status # "discovery" /\ AcceptedRows # {}
    <3>1. LatestModel.status = "accepted"
      BY <2>2 DEF NothingAcceptedBeforeGateOne, CalmInv, TablesFollowStatus
    <3>2. AcceptedModel = LatestModel
      BY <3>1, NewestIsAccepted
    <3>3. view'[r] = [view[r] EXCEPT !.model = AcceptedModel, !.plan = GivenPlan(r)]
      BY <2>2 DEF OpenStream, GivenPlan, TypeInv, TypeOK, ViewsTypeOK
    <3> QED BY <1>4, <3>2, <3>3 DEF TypeInv, TypeOK, ViewsTypeOK, View
  <2> QED BY <2>1, <2>2 DEF OpenStream
<1>6. TurnFollowsTables(r)'
  BY <1>1, <1>2, <1>4, <1>5 DEF TurnFollowsTables, StageKept, GivenPlan, Working
<1> QED BY <1>1, <1>3, <1>6, StayingKeepsTables

(* What a graph or an import leaves to persist. *)
LEMMA RunTurnResult ==
  ASSUME TypeInv, CalmInv, NEW r \in Requests, RunTurn(r)
  PROVE  /\ UNCHANGED << status, models, plans, audited, lapsed, kind >>
         /\ Beside(r) /\ pc[r] = "run" /\ pc'[r] = "persist"
         /\ view'[r].before = view[r].before /\ view'[r].serial = view[r].serial
         /\ view'[r].status = view[r].status
         /\ \E patches \in 0..MaxPatches, structural \in BOOLEAN :
              /\ structural => patches > 0
              /\ view'[r].model = PatchedModel(view[r], patches, structural)
              /\ view'[r].modelSeen = HasVersion(models, view'[r].model.version)
         /\ \/ view'[r].plan = view[r].plan
            \/ /\ view[r].status # "discovery" /\ view'[r].plan # NoPlan
               /\ view'[r].plan.status = "reviewed"
               /\ view'[r].plan.basis = view'[r].model.edits
<1> USE DEF TypeInv, TypeOK, HandlersTypeOK, ViewsTypeOK
<1>1. /\ UNCHANGED << status, models, plans, audited, lapsed, kind >>
      /\ Beside(r) /\ pc[r] = "run" /\ pc'[r] = "persist"
  BY DEF RunTurn, ApplyImport, FinishGraph, Goto, Beside, rowVars, lockVars
<1>2. PICK patches \in 0..MaxPatches, structural \in BOOLEAN :
        \/ ApplyImport(r, patches, structural)
        \/ \E made \in 0..(1 + MaxRefine) : FinishGraph(r, patches, structural, made)
  BY DEF RunTurn
<1> DEFINE model == PatchedModel(view[r], patches, structural)
<1>3. CASE ApplyImport(r, patches, structural)
  <2>1. /\ structural => patches > 0
        /\ view' = [view EXCEPT ![r] = [view[r] EXCEPT
             !.model = model, !.modelSeen = HasVersion(models, model.version)]]
    BY <1>3 DEF ApplyImport
  <2> HIDE DEF model
  <2>2. /\ view'[r].model = model /\ view'[r].modelSeen = HasVersion(models, model.version)
        /\ view'[r].plan = view[r].plan /\ view'[r].before = view[r].before
        /\ view'[r].status = view[r].status /\ view'[r].serial = view[r].serial
    BY <2>1 DEF View
  <2> QED BY <1>1, <2>1, <2>2 DEF model
<1>4. CASE \E made \in 0..(1 + MaxRefine) : FinishGraph(r, patches, structural, made)
  <2>1. PICK made \in 0..(1 + MaxRefine) : FinishGraph(r, patches, structural, made)
    BY <1>4
  <2> DEFINE plan == IF made = 0 THEN view[r].plan
               ELSE [version |-> made, status |-> "reviewed", basis |-> model.edits]
  <2>2. /\ structural => patches > 0
        /\ made > 0 => view[r].status \in {"planning", "review"}
        /\ view' = [view EXCEPT ![r] = [view[r] EXCEPT
             !.model = model, !.plan = plan,
             !.modelSeen = HasVersion(models, model.version),
             !.planSeen = HasVersion(plans, plan.version)]]
    BY <2>1 DEF FinishGraph
  <2>3. \/ plan = view[r].plan
        \/ /\ view[r].status # "discovery" /\ plan # NoPlan
           /\ plan.status = "reviewed" /\ plan.basis = model.edits
    <3>1. CASE made = 0 BY <3>1
    <3>2. CASE made # 0
      <4>1. made > 0 /\ view[r].status # "discovery"
        BY <2>2, <3>2, ConstantsAssumption
      <4> HIDE DEF model
      <4> QED BY <3>2, <4>1 DEF NoPlan
    <3> QED BY <3>1, <3>2
  <2> HIDE DEF model, plan
  <2>4. /\ view'[r].model = model /\ view'[r].modelSeen = HasVersion(models, model.version)
        /\ view'[r].plan = plan /\ view'[r].before = view[r].before
        /\ view'[r].status = view[r].status /\ view'[r].serial = view[r].serial
    BY <2>2 DEF View
  <2> QED BY <1>1, <2>2, <2>3, <2>4 DEF model
<1> QED BY <1>2, <1>3, <1>4

LEMMA RunTurnCalm ==
  ASSUME TypeInv, CalmInv, NEW r \in Requests, RunTurn(r) PROVE CalmInv'
<1>1. /\ UNCHANGED << status, models, plans, audited, lapsed, kind >>
      /\ Beside(r) /\ pc[r] = "run" /\ pc'[r] = "persist"
  BY RunTurnResult
<1>2. LatestModel' = LatestModel /\ LatestPlan' = LatestPlan
  BY <1>1 DEF LatestModel, LatestPlan
<1>3. GateFollowsTables(r)' /\ InFlight(r) /\ pc[r] # "dead"
  BY <1>1, TurnIsNoGate DEF Working
<1>4. /\ StageKept(r) /\ view[r].before = LatestModel /\ view[r].model = LatestModel
      /\ view[r].plan = GivenPlan(r)
  BY <1>1 DEF CalmInv, TurnFollowsTables, Working
<1>5. PICK patches \in 0..MaxPatches, structural \in BOOLEAN :
              /\ structural => patches > 0
              /\ view'[r].model = PatchedModel(view[r], patches, structural)
              /\ view'[r].modelSeen = HasVersion(models, view'[r].model.version)
  BY RunTurnResult
<1>6. LatestModel \in Model
  BY LatestModelIsRow DEF TypeInv, TypeOK, RowsTypeOK
<1>7. /\ view'[r].model.status = LatestModel.status
      /\ view'[r].model.version = LatestModel.version + patches
      /\ view'[r].model.edits = IF structural THEN LatestModel.edits \cup {view[r].serial}
                                              ELSE LatestModel.edits
  BY <1>4, <1>5, <1>6 DEF PatchedModel, Model
<1>8. patches \in Nat /\ LatestModel.version \in Nat
  BY <1>6, ConstantsAssumption DEF Model
<1>9. view'[r].model.version > LatestModel.version => ~view'[r].modelSeen
  BY <1>5, <1>7, <1>8, NoRowYet
<1>10. /\ view'[r].status = view[r].status /\ view'[r].serial = view[r].serial
       /\ view'[r].before = view[r].before
  BY RunTurnResult
<1>11. GivenPlan(r)' = GivenPlan(r)
  BY <1>2, <1>10 DEF GivenPlan
<1>12. ResultContinues(r)'
  <2>1. /\ view'[r].model.version >= LatestModel.version
        /\ view'[r].model.version = LatestModel.version => view'[r].model.edits = LatestModel.edits
    BY <1>5, <1>7, <1>8
  <2>2. view'[r].model.edits \in {LatestModel.edits, LatestModel.edits \cup {view'[r].serial}}
    BY <1>7, <1>10
  <2>3. \/ view'[r].plan = GivenPlan(r)
        \/ /\ view'[r].status # "discovery" /\ view'[r].plan # NoPlan
           /\ view'[r].plan.status = "reviewed"
           /\ view'[r].plan.basis = view'[r].model.edits
    BY <1>4, <1>10, RunTurnResult
  <2> QED BY <1>2, <1>7, <1>9, <1>11, <2>1, <2>2, <2>3 DEF ResultContinues
<1>13. TurnFollowsTables(r)'
  BY <1>1, <1>2, <1>4, <1>10, <1>12 DEF TurnFollowsTables, StageKept, Working
<1> QED BY <1>1, <1>3, <1>13, StayingKeepsTables

LEMMA ReadForGateCalm ==
  ASSUME TypeInv, CalmInv, NEW r \in Requests, ReadForGate(r) PROVE CalmInv'
<1> USE DEF TypeInv, TypeOK, HandlersTypeOK, ViewsTypeOK
<1>1. /\ UNCHANGED << status, models, plans, audited, lapsed, kind >>
      /\ Beside(r) /\ pc[r] = "gateRead" /\ pc'[r] = "gateCheck"
  BY DEF ReadForGate, Goto, Beside, rowVars, lockVars
<1>2. LatestModel' = LatestModel /\ LatestPlan' = LatestPlan
  BY <1>1 DEF LatestModel, LatestPlan
<1>3. LatestModel \in Model /\ LatestPlan \in Plan \cup {NoPlan}
  BY LatestModelIsRow, LatestPlanIsRow DEF RowsTypeOK
<1>4. kind[r] = "accept" =>
       /\ LatestModel.edits # {} /\ view'[r].model.edits = LatestModel.edits
       /\ view'[r].model.version = LatestModel.version + 1
       /\ view'[r].model.status = "accepted"
  <2> SUFFICES ASSUME kind[r] = "accept"
               PROVE  /\ LatestModel.edits # {} /\ view'[r].model.edits = LatestModel.edits
                      /\ view'[r].model.version = LatestModel.version + 1
                      /\ view'[r].model.status = "accepted"
    OBVIOUS
  <2> DEFINE row == [LatestModel EXCEPT !.status = "accepted", !.version = @ + 1]
  <2>1. LatestModel.edits # {} /\ view' = [view EXCEPT ![r] = [view[r] EXCEPT !.model = row]]
    BY DEF ReadForGate
  <2>2. /\ row.edits = LatestModel.edits /\ row.version = LatestModel.version + 1
        /\ row.status = "accepted"
    BY <1>3 DEF Model
  <2> HIDE DEF row
  <2>3. view'[r].model = row
    BY <2>1 DEF View
  <2> QED BY <2>1, <2>2, <2>3
<1>5. kind[r] = "approve" =>
       /\ view'[r].plan.basis = LatestPlan.basis
       /\ view'[r].plan.version = LatestPlan.version + 1
       /\ view'[r].plan.status = "final"
  <2> SUFFICES ASSUME kind[r] = "approve"
               PROVE  /\ view'[r].plan.basis = LatestPlan.basis
                      /\ view'[r].plan.version = LatestPlan.version + 1
                      /\ view'[r].plan.status = "final"
    OBVIOUS
  <2> DEFINE row == [LatestPlan EXCEPT !.status = "final", !.version = @ + 1]
  <2>1. LatestPlan # NoPlan /\ view' = [view EXCEPT ![r] = [view[r] EXCEPT !.plan = row]]
    BY DEF ReadForGate
  <2>2. /\ row.basis = LatestPlan.basis /\ row.version = LatestPlan.version + 1
        /\ row.status = "final"
    BY <1>3, <2>1 DEF Plan
  <2> HIDE DEF row
  <2>3. view'[r].plan = row
    BY <2>1 DEF View
  <2> QED BY <2>2, <2>3
<1>6. TurnFollowsTables(r)'
  BY <1>1 DEF TurnFollowsTables, Working
<1>7. GateFollowsTables(r)' /\ InFlight(r) /\ pc[r] # "dead"
  BY <1>1, <1>2, <1>4, <1>5 DEF CalmInv, GateFollowsTables, InFlight
<1> QED BY <1>1, <1>6, <1>7, StayingKeepsTables

LEMMA CheckRowCalm ==
  ASSUME TypeInv, CalmInv, NEW r \in Requests, CheckRow(r) PROVE CalmInv'
<1> USE DEF TypeInv, TypeOK, HandlersTypeOK, ViewsTypeOK
<1>1. /\ UNCHANGED << status, models, plans, audited, lapsed, kind >>
      /\ Beside(r) /\ pc[r] = "gateCheck" /\ pc'[r] = "gateCommit"
      /\ view'[r].model = view[r].model /\ view'[r].plan = view[r].plan
      /\ view'[r].modelSeen = HasVersion(models, view[r].model.version)
  BY DEF CheckRow, Goto, Beside, rowVars, lockVars, View, HasVersion
<1>2. LatestModel' = LatestModel /\ LatestPlan' = LatestPlan
  BY <1>1 DEF LatestModel, LatestPlan
<1>3. GateFollowsTables(r)
  BY DEF CalmInv
<1>4. kind[r] = "accept" => ~view'[r].modelSeen
  <2>1. LatestModel \in Model
    BY LatestModelIsRow DEF RowsTypeOK
  <2> QED BY <1>1, <1>3, <2>1, NoRowYet DEF GateFollowsTables, Model
<1>5. TurnFollowsTables(r)'
  BY <1>1 DEF TurnFollowsTables, Working
<1>6. GateFollowsTables(r)' /\ InFlight(r) /\ pc[r] # "dead"
  BY <1>1, <1>2, <1>3, <1>4 DEF GateFollowsTables, InFlight
<1> QED BY <1>1, <1>5, <1>6, StayingKeepsTables

(* A turn or an import writes the newest model, or leaves it. *)
LEMMA WrittenModel ==
  ASSUME TypeInv, CalmInv, NEW r \in Requests, pc[r] = "persist", WriteModel(r)
  PROVE  /\ LatestModel'.edits = view[r].model.edits
         /\ LatestModel'.status = LatestModel.status
         /\ NoLostUpdate'
<1>1. ResultContinues(r) /\ view[r].before = LatestModel
  BY DEF CalmInv, TurnFollowsTables, Working
<1>2. LatestModel \in Model /\ view[r].model \in Model
  BY LatestModelIsRow DEF TypeInv, TypeOK, RowsTypeOK, ViewsTypeOK, View
<1>3. CASE SavesModel(r)
  <2>1. view[r].model.version > LatestModel.version /\ ~view[r].modelSeen
    BY <1>1, <1>3 DEF SavesModel, ResultContinues
  <2>2. models' = models \cup {view[r].model}
    BY <1>3, <2>1 DEF WriteModel, SaveModel
  <2>3. LatestModel' = view[r].model
    BY <1>2, <2>1, <2>2, NewestModelAfter
  <2>4. audited' \subseteq audited \cup view[r].model.edits
    BY <1>3 DEF WriteModel, SavePatchAudit
  <2>5. audited \subseteq LatestModel.edits /\ LatestModel.edits \subseteq view[r].model.edits
    BY <1>1 DEF CalmInv, NoLostUpdate, ResultContinues
  <2> QED BY <1>1, <2>3, <2>4, <2>5 DEF ResultContinues, NoLostUpdate
<1>4. CASE ~SavesModel(r)
  <2>1. UNCHANGED << models, audited >>
    BY <1>4 DEF WriteModel
  <2>2. LatestModel' = LatestModel
    BY <2>1 DEF LatestModel
  <2>3. view[r].model.edits = LatestModel.edits
    BY <1>1, <1>2, <1>4 DEF SavesModel, ResultContinues, Model
  <2> QED BY <2>1, <2>2, <2>3 DEF CalmInv, NoLostUpdate
<1> QED BY <1>3, <1>4

(* It does so while no other request is in the section or in a gate. *)
LEMMA OthersOutside ==
  ASSUME TypeInv, LockOwnedUnlessLapsed, CalmInv, NEW r \in Requests,
         pc[r] = "persist", NEW o \in Requests \ {r}
  PROVE  /\ pc[o] \in Away \cup {"acquire"} /\ (InFlight(o) => kind[o] \notin GateKinds)
<1>1. pc[o] \notin TurnPCs
  BY SectionAlone DEF CalmInv, TurnPCs
<1>2. InFlight(o) => kind[o] \notin GateKinds
  BY DEF CalmInv, GatesAlone, InFlight
<1>3. pc[o] \notin GatePCs
  BY <1>2 DEF TypeInv, KindsOK, InFlight, GatePCs
<1>4. pc[o] \in PCs
  BY DEF TypeInv, TypeOK, HandlersTypeOK
<1> QED BY <1>1, <1>2, <1>3, <1>4 DEF PCs, GatePCs, TurnPCs, Away

LEMMA WriteKeepsOthers ==
  ASSUME TypeInv, LockOwnedUnlessLapsed, CalmInv, NEW r \in Requests,
         pc[r] = "persist", pc'[r] = "release", Beside(r),
         UNCHANGED << lapsed, kind >>,
         NoLostUpdate', TablesFollowStatus',
         status' = status \/ (status = "planning" /\ status' = "review")
  PROVE  CalmInv'
<1>1. LapsedAreDead' /\ GatesAlone'
  BY GatesStayAlone
     DEF CalmInv, LapsedAreDead, Beside, InFlight, TypeInv, TypeOK, LockTypeOK
<1>2. TurnFollowsTables(r)' /\ GateFollowsTables(r)'
  <2>1. kind[r] \notin GateKinds /\ status # "exported"
    BY DEF TypeInv, KindsOK, TurnPCs, CalmInv, GateFollowsTables, InFlight
  <2> QED BY <2>1 DEF TurnFollowsTables, GateFollowsTables, GateKinds, Working
<1>3. ASSUME NEW o \in Requests \ {r}
      PROVE  TurnFollowsTables(o)' /\ GateFollowsTables(o)'
  <2>1. /\ pc[o] \in Away \cup {"acquire"} /\ (InFlight(o) => kind[o] \notin GateKinds)
        /\ pc'[o] = pc[o] /\ kind'[o] = kind[o] /\ view'[o] = view[o]
        /\ TurnFollowsTables(o) /\ GateFollowsTables(o)
    BY OthersOutside DEF Beside, CalmInv
  <2>2. TurnFollowsTables(o)'
    BY <2>1 DEF TurnFollowsTables, StageKept, Working, Away
  <2>3. GateFollowsTables(o)'
    BY <2>1 DEF GateFollowsTables, InFlight, GateKinds, Away
  <2> QED BY <2>2, <2>3
<1>4. \A o \in Requests : TurnFollowsTables(o)' /\ GateFollowsTables(o)'
  BY <1>2, <1>3
<1> QED BY <1>1, <1>4 DEF CalmInv

(* The plan a turn saves was given to it in review, or is a reviewed one   *)
(* that covers the model it saves.                                         *)
LEMMA WrittenPlan ==
  ASSUME TypeInv, CalmInv, NEW r \in Requests, PersistTurn(r), SavesPlan(r)
  PROVE  /\ status \in {"planning", "review"} /\ status' = "review"
         /\ plans' # {} /\ \A p \in plans' : p.status = "reviewed"
         /\ \/ LatestPlan' = LatestPlan /\ status = "review"
            \/ LatestPlan'.status = "reviewed" /\ LatestPlan'.basis = view[r].model.edits
<1>1. /\ pc[r] = "persist" /\ plans' = Upsert(plans, view[r].plan)
      /\ status' = IF view[r].status = "planning" THEN "review" ELSE status
  BY DEF PersistTurn, SavePlan
<1>2. /\ StageKept(r) /\ ResultContinues(r) /\ status # "exported"
      /\ TablesFollowStatus /\ view[r].plan # NoPlan
  BY <1>1 DEF CalmInv, TurnFollowsTables, GateFollowsTables, InFlight, Working, SavesPlan
<1>3. status \in Statuses /\ view[r].status \in Statuses /\ view[r].plan \in Plan
  BY <1>2 DEF TypeInv, TypeOK, RowsTypeOK, ViewsTypeOK, View
<1>4. view[r].status # "discovery"
  BY <1>2 DEF ResultContinues, GivenPlan
<1>5. status \in {"planning", "review"}
  BY <1>2, <1>3, <1>4 DEF StageKept, Statuses
<1>6. status' = "review"
  <2>1. CASE view[r].status = "planning"
    BY <1>1, <2>1
  <2>2. CASE view[r].status = "review"
    BY <1>1, <1>2, <2>2 DEF StageKept
  <2> QED BY <1>2, <1>3, <1>4, <2>1, <2>2 DEF StageKept, Statuses
<1>7. LatestPlan \in plans \cup {NoPlan} /\ (LatestPlan # NoPlan => plans # {})
  BY LatestPlanIsRow DEF TypeInv, LatestPlan
<1>8. view[r].plan.status = "reviewed"
  BY <1>2, <1>5, <1>7 DEF ResultContinues, GivenPlan, TablesFollowStatus
<1>9. plans' # {} /\ \A p \in plans' : p.status = "reviewed"
  BY <1>1, <1>2, <1>5, <1>8 DEF Upsert, TablesFollowStatus
<1>10. LatestPlan' \in {view[r].plan, LatestPlan}
  BY <1>1, <1>3, NewestPlanAfter
<1>11. \/ LatestPlan' = LatestPlan /\ status = "review"
       \/ LatestPlan'.status = "reviewed" /\ LatestPlan'.basis = view[r].model.edits
  <2>1. CASE view[r].status = "review" /\ view[r].plan = LatestPlan
    BY <1>2, <1>10, <2>1 DEF StageKept
  <2>2. CASE ~(view[r].status = "review" /\ view[r].plan = LatestPlan)
    <3>1. view[r].plan.basis = view[r].model.edits
      BY <1>2, <2>2 DEF ResultContinues, GivenPlan
    <3>2. status = "planning" => LatestPlan' = view[r].plan
      BY <1>1, <1>2, <1>3, NewestPlanAfter DEF TablesFollowStatus
    <3> QED BY <1>5, <1>8, <1>10, <3>1, <3>2
  <2> QED BY <2>1, <2>2
<1> QED BY <1>5, <1>6, <1>9, <1>11

LEMMA PersistCalm ==
  ASSUME TypeInv, LockOwnedUnlessLapsed, CalmInv, NEW r \in Requests,
         PersistTurn(r) \/ PersistImport(r)
  PROVE  CalmInv'
<1>1. /\ pc[r] = "persist" /\ pc'[r] = "release" /\ Beside(r) /\ WriteModel(r)
      /\ UNCHANGED << lapsed, kind >>
  BY DEF PersistTurn, PersistImport, EndTurn, Goto, Beside, lockVars, TypeInv, TypeOK,
         HandlersTypeOK, ViewsTypeOK
<1>2. NoLostUpdate' /\ LatestModel'.status = LatestModel.status
  BY <1>1, WrittenModel
<1>3. status # "discovery" => LatestModel'.status = "accepted"
  BY <1>2 DEF CalmInv, TablesFollowStatus
<1>4. CASE PersistTurn(r) /\ SavesPlan(r)
  <2>1. /\ status \in {"planning", "review"} /\ status' = "review"
        /\ plans' # {} /\ \A p \in plans' : p.status = "reviewed"
    BY <1>4, WrittenPlan
  <2>2. TablesFollowStatus'
    BY <1>3, <2>1 DEF TablesFollowStatus
  <2> QED BY <1>1, <1>2, <2>1, <2>2, WriteKeepsOthers
<1>5. CASE UNCHANGED << status, plans >>
  <2>1. TablesFollowStatus'
    BY <1>3, <1>5 DEF CalmInv, TablesFollowStatus
  <2> QED BY <1>1, <1>2, <1>5, <2>1, WriteKeepsOthers
<1> QED BY <1>4, <1>5 DEF PersistTurn, PersistImport

(* A gate commits on top of the rows it read, with nobody else in flight. *)
LEMMA GateCommits ==
  ASSUME TypeInv, CalmInv, NEW r \in Requests, AcceptModel(r) \/ ApprovePlan(r)
  PROVE  /\ pc'[r] = "idle" /\ Beside(r) /\ lapsed' = lapsed /\ r \notin lapsed
         /\ \A o \in Requests \ {r} : pc[o] \in {"idle", "dead"}
         /\ GateFollowsTables(r)
<1>1. /\ pc[r] = "gateCommit" /\ kind[r] \in GateKinds
      /\ pc'[r] = "idle" /\ Beside(r) /\ lapsed' = lapsed
  BY DEF AcceptModel, ApprovePlan, Finish, Goto, Beside, lockVars, GateKinds, TypeInv,
         TypeOK, HandlersTypeOK, ViewsTypeOK
<1>2. \A o \in Requests \ {r} : pc[o] \in {"idle", "dead"}
  BY <1>1 DEF CalmInv, GatesAlone, InFlight
<1>3. r \notin lapsed /\ GateFollowsTables(r)
  BY <1>1 DEF CalmInv, LapsedAreDead
<1> QED BY <1>1, <1>2, <1>3

LEMMA NobodyLeft ==
  ASSUME TypeInv, CalmInv, NEW r \in Requests, AcceptModel(r) \/ ApprovePlan(r),
         NoLostUpdate', TablesFollowStatus'
  PROVE  CalmInv'
<1>1. \A o \in Requests : pc'[o] \in {"idle", "dead"}
  BY GateCommits DEF Beside
<1>2. LapsedAreDead' /\ GatesAlone'
  BY <1>1, GateCommits
     DEF CalmInv, LapsedAreDead, GatesAlone, InFlight, Beside, TypeInv, TypeOK, LockTypeOK
<1>3. ASSUME NEW o \in Requests PROVE TurnFollowsTables(o)' /\ GateFollowsTables(o)'
  BY <1>1 DEF TurnFollowsTables, GateFollowsTables, InFlight, Working
<1> QED BY <1>2, <1>3 DEF CalmInv

(* Gate 1 freezes the newest model itself. *)
LEMMA AcceptedIsNewest ==
  ASSUME TypeInv, CalmInv, NEW r \in Requests, AcceptModel(r)
  PROVE  /\ status = "discovery" /\ status' = "planning" /\ plans' = plans
         /\ LatestModel.edits # {} /\ LatestModel'.edits = LatestModel.edits
         /\ LatestModel'.status = "accepted" /\ audited' = audited
<1>1. /\ pc[r] = "gateCommit" /\ kind[r] = "accept" /\ SaveModel(r)
      /\ status' = "planning" /\ plans' = plans /\ audited' = audited
  BY DEF AcceptModel
<1>2. GateFollowsTables(r) /\ InFlight(r)
  BY <1>1, GateCommits DEF InFlight
<1>3. models' = models \cup {view[r].model}
  BY <1>1, <1>2 DEF GateFollowsTables, SaveModel
<1>4. LatestModel \in Model /\ view[r].model \in Model
  BY LatestModelIsRow DEF TypeInv, TypeOK, RowsTypeOK, ViewsTypeOK, View
<1>5. view[r].model.version > LatestModel.version
  BY <1>1, <1>2, <1>4 DEF GateFollowsTables, Model
<1>6. LatestModel' = view[r].model
  BY <1>3, <1>4, <1>5, NewestModelAfter
<1> QED BY <1>1, <1>2, <1>6 DEF GateFollowsTables

(* Gate 2 makes the newest plan final. *)
LEMMA ApprovedIsNewest ==
  ASSUME TypeInv, CalmInv, NEW r \in Requests, ApprovePlan(r)
  PROVE  /\ status = "review" /\ status' = "exported" /\ models' = models
         /\ LatestPlan'.status = "final" /\ LatestPlan'.basis = LatestPlan.basis
         /\ audited' = audited
<1>1. /\ pc[r] = "gateCommit" /\ kind[r] = "approve" /\ plans' = Upsert(plans, view[r].plan)
      /\ status' = "exported" /\ models' = models /\ audited' = audited
  BY DEF ApprovePlan, SavePlan
<1>2. GateFollowsTables(r) /\ InFlight(r)
  BY <1>1, GateCommits DEF InFlight
<1>3. LatestPlan \in Plan \cup {NoPlan} /\ view[r].plan \in Plan
  BY <1>1, LatestPlanIsRow DEF TypeInv, TypeOK, RowsTypeOK, ViewsTypeOK, View, KindsOK
<1>4. view[r].plan.version > LatestPlan.version
  BY <1>1, <1>2, <1>3 DEF GateFollowsTables, Plan, NoPlan
<1>5. LatestPlan' = view[r].plan
  BY <1>1, <1>3, <1>4, NewestPlanAfter
<1> QED BY <1>1, <1>2, <1>5 DEF GateFollowsTables

LEMMA GatesCalm ==
  ASSUME TypeInv, CalmInv, NEW r \in Requests, AcceptModel(r) \/ ApprovePlan(r)
  PROVE  CalmInv'
<1>1. CASE AcceptModel(r)
  <2>1. /\ status = "discovery" /\ status' = "planning" /\ plans' = plans
        /\ LatestModel'.edits = LatestModel.edits
        /\ LatestModel'.status = "accepted" /\ audited' = audited
    BY <1>1, AcceptedIsNewest
  <2>2. NoLostUpdate' /\ TablesFollowStatus'
    BY <2>1 DEF CalmInv, NoLostUpdate, TablesFollowStatus
  <2> QED BY <1>1, <2>2, NobodyLeft
<1>2. CASE ApprovePlan(r)
  <2>1. /\ status = "review" /\ status' = "exported" /\ models' = models
        /\ audited' = audited
    BY <1>2, ApprovedIsNewest
  <2>2. LatestModel' = LatestModel
    BY <2>1 DEF LatestModel
  <2>3. NoLostUpdate' /\ TablesFollowStatus'
    BY <2>1, <2>2 DEF CalmInv, NoLostUpdate, TablesFollowStatus
  <2> QED BY <1>2, <2>3, NobodyLeft
<1> QED BY <1>1, <1>2

LEMMA LeavesCalm ==
  ASSUME TypeInv, CalmInv, NEW r \in Requests,
         \/ RefuseBusy(r) \/ RefuseDuplicate(r) \/ RefuseOverBudget(r) \/ ReleaseClaim(r)
         \/ GateErrorInStream(r) \/ FailGraph(r) \/ PersistConflict(r) \/ ReleaseLock(r)
         \/ RefuseGate(r) \/ GateConflict(r) \/ Reap(r) \/ Disconnect(r) \/ Crash(r)
  PROVE  CalmInv'
<1>1. /\ UNCHANGED << status, models, plans, audited >> /\ Beside(r)
      /\ lapsed' \in {lapsed, lapsed \ {r}} /\ pc'[r] \in Away
      /\ pc'[r] = "dead" \/ pc[r] # "dead" \/ r \notin lapsed'
      /\ InFlight(r)' => InFlight(r) /\ kind'[r] = kind[r]
  BY DEF RefuseBusy, RefuseDuplicate, RefuseOverBudget, ReleaseClaim, GateErrorInStream,
         FailGraph, PersistConflict, ReleaseLock, RefuseGate, GateConflict, Reap,
         Disconnect, Crash, EndTurn, Abandon, Finish, Release, Goto, Beside, Away,
         InFlight, rowVars, lockVars, TypeInv, TypeOK, HandlersTypeOK, ViewsTypeOK
<1> QED BY <1>1, LeavingKeepsTables

LEMMA ExpireCalm ==
  ASSUME TypeInv, CalmInv, NEW r \in Requests, ExpireDead(r) PROVE CalmInv'
<1>1. /\ UNCHANGED << status, models, plans, audited, pc, kind, view >>
      /\ lapsed' = lapsed \cup {r} /\ pc[r] = "dead"
  BY DEF ExpireDead, Expire, rowVars
<1>2. LapsedAreDead' /\ GatesAlone' /\ Beside(r)
  BY <1>1 DEF CalmInv, LapsedAreDead, GatesAlone, InFlight, Beside
<1>3. TurnFollowsTables(r)' /\ GateFollowsTables(r)'
  BY <1>1 DEF TurnFollowsTables, GateFollowsTables, InFlight, Working
<1> QED BY <1>1, <1>2, <1>3, TablesAlone

LEMMA CalmStep ==
  ASSUME Calm, TypeInv, LockOwnedUnlessLapsed, NothingAcceptedBeforeGateOne, CalmInv,
         [Next]_vars
  PROVE  CalmInv'
<1>1. ASSUME NEW r \in Requests, Step(r) PROVE CalmInv'
  BY <1>1, EnterCalm, ReadModelCalm, OpenStreamCalm, RunTurnCalm, ReadForGateCalm,
     CheckRowCalm, PersistCalm, GatesCalm, LeavesCalm, ExpireCalm DEF Step
<1>2. ASSUME NEW r \in Requests, Environment(r) PROVE CalmInv'
  BY <1>2, ArriveCalm, LeavesCalm DEF Environment, ExpireHeld, Calm
<1>3. ASSUME UNCHANGED vars PROVE CalmInv'
  <2>1. /\ UNCHANGED << status, models, plans, audited, pc, kind, view, lapsed >>
    BY <1>3 DEF vars, rowVars, lockVars
  <2>2. LatestModel' = LatestModel /\ LatestPlan' = LatestPlan
    BY <2>1 DEF LatestModel, LatestPlan
  <2>3. \A o \in Requests : TurnFollowsTables(o)'
    BY <2>1, <2>2 DEF CalmInv, TurnFollowsTables, StageKept, GivenPlan, ResultContinues
  <2>4. \A o \in Requests : GateFollowsTables(o)'
    BY <2>1, <2>2 DEF CalmInv, GateFollowsTables, InFlight
  <2> QED BY <2>1, <2>2, <2>3, <2>4
          DEF CalmInv, LapsedAreDead, GatesAlone, InFlight, NoLostUpdate, TablesFollowStatus
<1> QED BY <1>1, <1>2, <1>3 DEF Next, Quiet

(* The conjunction is inductive, with what holds of every session. *)
THEOREM CalmInvHolds == ASSUME Calm PROVE Spec => []CalmInv
<1>1. TypeInv /\ LockOwnedUnlessLapsed /\ NothingAcceptedBeforeGateOne /\ CalmInv
        /\ [Next]_vars => CalmInv'
  BY CalmStep
<1> QED BY <1>1, CalmInit, TypeInvHolds, LockOwned, GateOneFirst, PTL DEF Spec

(* No turn or import overwrites or drops what another one has written and  *)
(* reported, for any number of requests, retries, disconnects and crashes, *)
(* as long as no lock lapses under a living turn and no gate races one.    *)
THEOREM NothingLost == ASSUME Calm PROVE Spec => []NoLostUpdate
  BY CalmInvHolds, PTL DEF CalmInv

(* Under the same assumption every result is persisted over the model the  *)
(* request started from: turns are serialized end to end.                  *)
THEOREM EndToEnd == ASSUME Calm PROVE Spec => TurnsSerialized
<1>1. CalmInv => \A r \in Requests :
                  PersistTurn(r) \/ PersistImport(r) => LatestModel = view[r].before
  BY DEF CalmInv, TurnFollowsTables, PersistTurn, PersistImport, Working
<1>2. CalmInv /\ [Next]_vars =>
        [\A r \in Requests :
           PersistTurn(r) \/ PersistImport(r) => LatestModel = view[r].before]_vars
  BY <1>1
<1> QED BY <1>2, CalmInvHolds, PTL DEF Spec, TurnsSerialized

-----------------------------------------------------------------------------
(* Gates that race turns: what the lock still guarantees.                  *)

(* While no key lapses under a living request; gates may race. *)
NoLapse == "lapse" \notin Faults

(* The edits a turn or an import persists over are those it has started    *)
(* from: a gate may have added a row since, but none with other edits.     *)
TurnsOverNewestEdits ==
  [][\A r \in Requests :
       PersistTurn(r) \/ PersistImport(r) => LatestModel.edits = view[r].before.edits]_vars

(* The newest model has the edits a turn started from, and gates have      *)
(* filled every version between the two.                                   *)
SectionBase(r) ==
  pc[r] \in {"stream", "run", "persist"} =>
    /\ view[r].before.version <= LatestModel.version
    /\ view[r].before.edits = LatestModel.edits
    /\ \A v \in view[r].before.version .. LatestModel.version : HasVersion(models, v)

(* A gate writes at most the version after the newest, with its edits.     *)
GateBase(r) ==
  pc[r] \in {"gateCheck", "gateCommit"} /\ kind[r] = "accept" =>
    /\ view[r].model.version <= LatestModel.version + 1
    /\ view[r].model.version = LatestModel.version + 1 =>
         view[r].model.edits = LatestModel.edits

RaceInv == LapsedAreDead /\ \A r \in Requests : SectionBase(r) /\ GateBase(r)

LEMMA LatestModelTyped ==
  ASSUME TypeInv
  PROVE  /\ LatestModel \in models /\ LatestModel \in Model /\ LatestModel.version \in Nat
         /\ \A r \in Requests : view[r] \in View /\ view[r].model \in Model
                                /\ view[r].before \in Model
                                /\ view[r].model.version \in Nat /\ view[r].before.version \in Nat
<1>1. LatestModel \in models /\ models \subseteq Model
  BY LatestModelIsRow DEF TypeInv, TypeOK, RowsTypeOK
<1>2. \A r \in Requests : view[r] \in View /\ view[r].model \in Model /\ view[r].before \in Model
  BY DEF TypeInv, TypeOK, ViewsTypeOK, View
<1> QED BY <1>1, <1>2 DEF Model

(* A step of r that writes no model. *)
LEMMA RaceQuiet ==
  ASSUME RaceInv, NEW r \in Requests, UNCHANGED models, Beside(r), LapsedAreDead',
         SectionBase(r)', GateBase(r)'
  PROVE  RaceInv'
<1>1. LatestModel' = LatestModel
  BY DEF LatestModel
<1>2. \A o \in Requests \ {r} : SectionBase(o)' /\ GateBase(o)'
  BY <1>1 DEF RaceInv, SectionBase, GateBase, Beside
<1> QED BY <1>2 DEF RaceInv

(* One that also keeps what r works on. *)
LEMMA RaceOutside ==
  ASSUME RaceInv, NEW r \in Requests, UNCHANGED models, Beside(r), LapsedAreDead',
         pc'[r] \notin {"stream", "run", "persist", "gateCheck", "gateCommit"}
  PROVE  RaceInv'
<1>1. SectionBase(r)' /\ GateBase(r)'
  BY DEF SectionBase, GateBase
<1> QED BY <1>1, RaceQuiet

LEMMA RaceLapsed ==
  ASSUME NoLapse, TypeInv, RaceInv, NEW r \in Requests, Step(r) \/ Environment(r)
  PROVE  LapsedAreDead'
<1> USE DEF RaceInv, LapsedAreDead, TypeInv, TypeOK, HandlersTypeOK, Goto
<1>1. CASE AcquireLock(r)
  BY <1>1 DEF AcquireLock, Acquire
<1>2. CASE RefuseOverBudget(r) \/ ReleaseLock(r) \/ Reap(r)
  <2>1. /\ lapsed' = lapsed \ {r} /\ \A o \in Requests \ {r} : pc'[o] = pc[o]
    BY <1>2 DEF RefuseOverBudget, ReleaseLock, Release, Reap, Finish
  <2>2. lapsed \subseteq Requests
    BY DEF LockTypeOK
  <2> QED BY <2>1, <2>2
<1>3. CASE ExpireDead(r)
  BY <1>3 DEF ExpireDead, Expire
<1>4. CASE ExpireHeld(r)
  BY <1>4 DEF ExpireHeld, NoLapse
<1>5. CASE \/ \E k \in Offered, m \in 1..(served + 1) : Arrive(r, k, m)
           \/ ClaimMessage(r) \/ RefuseDuplicate(r) \/ ReadModel(r) \/ OpenStream(r)
           \/ RunTurn(r) \/ FailGraph(r) \/ PersistTurn(r) \/ PersistImport(r)
           \/ PersistConflict(r) \/ Disconnect(r) \/ Crash(r) \/ GateErrorInStream(r)
           \/ RefuseBusy(r) \/ ReleaseClaim(r) \/ ReadForGate(r) \/ RefuseGate(r)
           \/ CheckRow(r) \/ AcceptModel(r) \/ ApprovePlan(r) \/ GateConflict(r)
  <2>1. /\ lapsed' = lapsed /\ \A o \in Requests \ {r} : pc'[o] = pc[o]
        /\ pc[r] # "dead"
    BY <1>5 DEF Arrive, ClaimMessage, RefuseDuplicate, ReadModel, OpenStream, RunTurn,
         ApplyImport, FinishGraph, FailGraph, PersistTurn, PersistImport, PersistConflict,
         Disconnect, Crash, GateErrorInStream, RefuseBusy, ReleaseClaim, ReadForGate,
         RefuseGate, CheckRow, AcceptModel, ApprovePlan, GateConflict, EndTurn, Abandon,
         Finish, InFlight, lockVars
  <2>2. lapsed \subseteq Requests
    BY DEF LockTypeOK
  <2> QED BY <2>1, <2>2
<1> QED BY <1>1, <1>2, <1>3, <1>4, <1>5 DEF Step, Environment

LEMMA RaceSection ==
  ASSUME TypeInv, RaceInv, NEW r \in Requests, LapsedAreDead',
         ReadModel(r) \/ OpenStream(r) \/ RunTurn(r)
  PROVE  RaceInv'
<1> USE DEF TypeInv, TypeOK, HandlersTypeOK, ViewsTypeOK
<1>1. /\ models' = models /\ Beside(r) /\ view[r] \in View
      /\ pc'[r] \in {"stream", "run", "persist"}
  BY DEF ReadModel, OpenStream, RunTurn, ApplyImport, FinishGraph, Goto, Beside, rowVars
<1>2. LatestModel' = LatestModel
  BY <1>1 DEF LatestModel
<1>3. CASE ReadModel(r)
  <2>1. view'[r].before = LatestModel
    BY <1>1, <1>3 DEF ReadModel, View
  <2>2. HasVersion(models, LatestModel.version) /\ LatestModel.version \in Nat
    BY LatestModelTyped DEF HasVersion
  <2>3. SectionBase(r)'
    BY <1>1, <1>2, <2>1, <2>2 DEF SectionBase
  <2>4. GateBase(r)'
    BY <1>1 DEF GateBase
  <2> QED BY <1>1, <2>3, <2>4, RaceQuiet
<1>4. CASE OpenStream(r) \/ RunTurn(r)
  <2>1. pc[r] \in {"stream", "run"} /\ view'[r].before = view[r].before
    <3>1. CASE OpenStream(r)
      <4>1. pc[r] = "stream"
        BY <3>1 DEF OpenStream
      <4>2. CASE view' = view
        BY <4>1, <4>2
      <4>3. CASE view' # view
        <5>1. \E plan : view' = [view EXCEPT ![r] = [view[r] EXCEPT !.model = AcceptedModel,
                                                                  !.plan = plan]]
          BY <3>1, <4>3 DEF OpenStream
        <5> QED BY <1>1, <4>1, <5>1 DEF View
      <4> QED BY <4>2, <4>3
    <3>2. ASSUME NEW patches, NEW structural, ApplyImport(r, patches, structural)
          PROVE  pc[r] = "run" /\ view'[r].before = view[r].before
      BY <1>1, <3>2 DEF ApplyImport, View
    <3>3. ASSUME NEW patches, NEW structural, NEW made, FinishGraph(r, patches, structural, made)
          PROVE  pc[r] = "run" /\ view'[r].before = view[r].before
      BY <1>1, <3>3 DEF FinishGraph, View
    <3> QED BY <1>4, <3>1, <3>2, <3>3 DEF RunTurn
  <2> QED BY <1>1, <1>2, <2>1, RaceQuiet DEF RaceInv, SectionBase, GateBase, HasVersion
<1> QED BY <1>3, <1>4

LEMMA RaceGate ==
  ASSUME TypeInv, RaceInv, NEW r \in Requests, LapsedAreDead',
         ReadForGate(r) \/ CheckRow(r)
  PROVE  RaceInv'
<1> USE DEF TypeInv, TypeOK, HandlersTypeOK, ViewsTypeOK
<1>1. /\ models' = models /\ kind' = kind /\ Beside(r) /\ view[r] \in View
      /\ pc'[r] \in {"gateCheck", "gateCommit"}
  BY DEF ReadForGate, CheckRow, Goto, Beside, rowVars
<1>2. LatestModel' = LatestModel
  BY <1>1 DEF LatestModel
<1>3. SectionBase(r)'
  BY <1>1 DEF SectionBase
<1>4. CASE ReadForGate(r)
  <2>1. ASSUME kind[r] = "accept"
        PROVE  /\ view'[r].model.version = LatestModel.version + 1
               /\ view'[r].model.edits = LatestModel.edits
    <3> DEFINE row == [LatestModel EXCEPT !.status = "accepted", !.version = @ + 1]
    <3>1. view' = [view EXCEPT ![r] = [view[r] EXCEPT !.model = row]]
      BY <1>4, <2>1 DEF ReadForGate
    <3>2. row.edits = LatestModel.edits /\ row.version = LatestModel.version + 1
      BY LatestModelTyped DEF Model
    <3> HIDE DEF row
    <3> QED BY <1>1, <3>1, <3>2 DEF View
  <2>2. GateBase(r)'
    BY <1>1, <1>2, <2>1, LatestModelTyped DEF GateBase
  <2> QED BY <1>1, <1>3, <2>2, RaceQuiet
<1>5. CASE CheckRow(r)
  <2>1. pc[r] = "gateCheck" /\ view'[r].model = view[r].model
    BY <1>1, <1>5 DEF CheckRow, View
  <2>2. GateBase(r)'
    BY <1>1, <1>2, <2>1 DEF RaceInv, GateBase
  <2> QED BY <1>1, <1>3, <2>2, RaceQuiet
<1> QED BY <1>4, <1>5

(* A turn's row, when it writes one, becomes the newest. *)
LEMMA RacePersist ==
  ASSUME TypeInv, LockOwnedUnlessLapsed, RaceInv, NEW r \in Requests, LapsedAreDead',
         PersistTurn(r) \/ PersistImport(r)
  PROVE  RaceInv'
<1>1. /\ pc[r] = "persist" /\ pc'[r] = "release" /\ Beside(r) /\ WriteModel(r)
      /\ ~ Conflict(r)
  BY DEF PersistTurn, PersistImport, EndTurn, Goto, Beside, TypeInv, TypeOK, HandlersTypeOK,
         ViewsTypeOK
<1>2. CASE models' = models
  BY <1>1, <1>2, RaceOutside
<1>3. CASE models' # models
  <2>1. /\ models' = models \cup {view[r].model}
        /\ view[r].model.version > view[r].before.version
        /\ ~ HasVersion(models, view[r].model.version)
    BY <1>1, <1>3 DEF WriteModel, SaveModel, SavesModel, Conflict, ModelConflict
  <2>2. /\ \A v \in view[r].before.version .. LatestModel.version : HasVersion(models, v)
        /\ view[r].model \in Model /\ view[r].model.version \in Nat
        /\ view[r].before.version \in Nat /\ LatestModel.version \in Nat
    BY <1>1, LatestModelTyped DEF RaceInv, SectionBase
  <2>3. view[r].model.version > LatestModel.version
    BY <2>1, <2>2
  <2>4. LatestModel' = view[r].model
    BY <2>1, <2>2, <2>3, NewestModelAfter
  <2>5. \A o \in Requests \ {r} : pc[o] \notin {"stream", "run", "persist"}
    BY <1>1, SectionAlone DEF RaceInv, TurnPCs
  <2>6. \A o \in Requests \ {r} : SectionBase(o)'
    BY <1>1, <2>5 DEF Beside, SectionBase
  <2>7. \A o \in Requests \ {r} : GateBase(o)'
    BY <1>1, <2>2, <2>3, <2>4, LatestModelTyped DEF Beside, RaceInv, GateBase
  <2>8. SectionBase(r)' /\ GateBase(r)'
    BY <1>1 DEF SectionBase, GateBase
  <2> QED BY <2>6, <2>7, <2>8 DEF RaceInv
<1> QED BY <1>2, <1>3

(* A gate's row follows the newest one, or is older than it. *)
LEMMA GateRowFollows ==
  ASSUME TypeInv, RaceInv, NEW r \in Requests, AcceptModel(r)
  PROVE  /\ models \subseteq models'
         /\ \/ LatestModel' = LatestModel
            \/ /\ LatestModel' = view[r].model
               /\ LatestModel'.version = LatestModel.version + 1
               /\ LatestModel'.edits = LatestModel.edits
<1> DEFINE row == view[r].model
<1>1. /\ pc[r] = "gateCommit" /\ kind[r] = "accept"
      /\ SaveModel(r) /\ ~ ModelConflict(r)
  BY DEF AcceptModel
<1>2. CASE models' = models
  BY <1>2 DEF LatestModel
<1>3. CASE models' # models
  <2>1. models' = models \cup {row} /\ ~ HasVersion(models, row.version)
    BY <1>1, <1>3 DEF SaveModel, ModelConflict
  <2>2. /\ row.version <= LatestModel.version + 1
        /\ row.version = LatestModel.version + 1 => row.edits = LatestModel.edits
    BY <1>1 DEF RaceInv, GateBase
  <2>3. /\ row \in Model /\ row.version \in Nat /\ LatestModel.version \in Nat
        /\ LatestModel \in models
    BY LatestModelTyped
  <2>4. \/ LatestModel' = LatestModel
        \/ LatestModel' = row /\ LatestModel'.version = LatestModel.version + 1
                              /\ LatestModel'.edits = LatestModel.edits
    <3>1. CASE row.version = LatestModel.version + 1
      BY <2>1, <2>2, <2>3, <3>1, NewestModelAfter
    <3>2. CASE row.version # LatestModel.version + 1
      <4>1. row.version < LatestModel.version
        <5>1. row.version # LatestModel.version
          BY <2>1, <2>3 DEF HasVersion
        <5> QED BY <2>2, <2>3, <3>2, <5>1
      <4>2. /\ LatestModel \in models' /\ \A m \in models' : m.version <= LatestModel.version
            /\ \A m \in models' : m.version \in Nat
        BY <2>1, <2>3, <4>1 DEF TypeInv, RowsOK, HasLatest, LatestModel, TypeOK, RowsTypeOK, Model
      <4>3. \A m \in models' : (\A o \in models' : o.version <= m.version) => m = LatestModel
        <5> SUFFICES ASSUME NEW m \in models', \A o \in models' : o.version <= m.version
                     PROVE  m = LatestModel
          OBVIOUS
        <5>1. m.version = LatestModel.version
          BY <2>3, <4>2
        <5>2. m \in models
          BY <2>1, <2>3, <4>1, <5>1
        <5> QED BY <2>3, <5>1, <5>2 DEF TypeInv, TypeOK, RowsTypeOK, UniqueVersions
      <4> QED BY <4>2, <4>3 DEF LatestModel
    <3> QED BY <3>1, <3>2
  <2> QED BY <2>1, <2>4
<1> QED BY <1>2, <1>3

LEMMA RaceAccept ==
  ASSUME TypeInv, RaceInv, NEW r \in Requests, LapsedAreDead', AcceptModel(r)
  PROVE  RaceInv'
<1> DEFINE row == view[r].model
<1>1. /\ pc[r] = "gateCommit" /\ kind[r] = "accept" /\ pc'[r] = "idle" /\ Beside(r)
      /\ SaveModel(r) /\ ~ ModelConflict(r)
  BY DEF AcceptModel, Finish, Goto, Beside, TypeInv, TypeOK, HandlersTypeOK, ViewsTypeOK
<1>2. CASE models' = models
  BY <1>1, <1>2, RaceOutside
<1>3. CASE models' # models
  <2>1. models' = models \cup {row} /\ ~ HasVersion(models, row.version)
    BY <1>1, <1>3 DEF SaveModel, ModelConflict
  <2>2. /\ row.version <= LatestModel.version + 1
        /\ row.version = LatestModel.version + 1 => row.edits = LatestModel.edits
    BY <1>1 DEF RaceInv, GateBase
  <2>3. /\ row \in Model /\ row.version \in Nat /\ LatestModel.version \in Nat
        /\ LatestModel \in models
    BY LatestModelTyped
  <2>4. \A v : HasVersion(models, v) => HasVersion(models', v)
    BY <2>1 DEF HasVersion
  <2>5. HasVersion(models', row.version)
    BY <2>1 DEF HasVersion
  <2>6. \/ LatestModel' = LatestModel
        \/ /\ LatestModel'.version = LatestModel.version + 1
           /\ LatestModel'.version = row.version /\ LatestModel'.edits = LatestModel.edits
    BY GateRowFollows
  <2>7. \A o \in Requests \ {r} : SectionBase(o)'
    <3> SUFFICES ASSUME NEW o \in Requests \ {r}, pc[o] \in {"stream", "run", "persist"}
                 PROVE  /\ view[o].before.version <= LatestModel'.version
                        /\ view[o].before.edits = LatestModel'.edits
                        /\ \A v \in view[o].before.version .. LatestModel'.version :
                              HasVersion(models', v)
      BY <1>1 DEF Beside, SectionBase
    <3>1. /\ view[o].before.version <= LatestModel.version
          /\ view[o].before.edits = LatestModel.edits
          /\ \A v \in view[o].before.version .. LatestModel.version : HasVersion(models, v)
          /\ view[o].before.version \in Nat
      BY LatestModelTyped DEF RaceInv, SectionBase
    <3> DEFINE base == view[o].before.version
               latest == LatestModel.version
    <3>2. CASE LatestModel' = LatestModel
      BY <2>4, <3>1, <3>2
    <3>3. CASE LatestModel'.version = latest + 1 /\ row.version = latest + 1
      <4>1. \A v \in base .. (latest + 1) : v \in base .. latest \/ v = latest + 1
        BY <2>3, <3>1
      <4>2. HasVersion(models', latest + 1)
        BY <2>5, <3>3
      <4>3. \A v \in base .. (latest + 1) : HasVersion(models', v)
        BY <2>4, <3>1, <4>1, <4>2
      <4>4. base <= latest + 1
        BY <2>3, <3>1
      <4>5. view[o].before.edits = LatestModel'.edits
        BY <2>6, <3>1
      <4> QED BY <3>3, <4>3, <4>4, <4>5
    <3> QED BY <2>6, <3>2, <3>3
  <2>8. \A o \in Requests \ {r} : GateBase(o)'
    BY <1>1, <2>3, <2>6, LatestModelTyped DEF Beside, RaceInv, GateBase
  <2>9. SectionBase(r)' /\ GateBase(r)'
    BY <1>1 DEF SectionBase, GateBase
  <2> QED BY <2>7, <2>8, <2>9 DEF RaceInv
<1> QED BY <1>2, <1>3

LEMMA RaceNext ==
  ASSUME NoLapse, TypeInv, LockOwnedUnlessLapsed, RaceInv, [Next]_vars
  PROVE  RaceInv'
<1>1. CASE UNCHANGED vars
  <2>1. UNCHANGED << models, lapsed, pc, kind, view >>
    BY <1>1 DEF vars, rowVars, lockVars
  <2>2. LatestModel' = LatestModel
    BY <2>1 DEF LatestModel
  <2> QED BY <2>1, <2>2 DEF RaceInv, LapsedAreDead, SectionBase, GateBase, HasVersion
<1>2. ASSUME NEW r \in Requests, Step(r) \/ Environment(r)
      PROVE  RaceInv'
  <2> USE RaceLapsed, <1>2
  <2>1. CASE ReadModel(r) \/ OpenStream(r) \/ RunTurn(r)
    BY <2>1, RaceSection
  <2>2. CASE ReadForGate(r) \/ CheckRow(r)
    BY <2>2, RaceGate
  <2>3. CASE PersistTurn(r) \/ PersistImport(r)
    BY <2>3, RacePersist
  <2>4. CASE AcceptModel(r)
    BY <2>4, RaceAccept
  <2>5. CASE \/ \E k \in Offered, m \in 1..(served + 1) : Arrive(r, k, m)
             \/ AcquireLock(r) \/ ClaimMessage(r) \/ RefuseDuplicate(r) \/ FailGraph(r)
             \/ PersistConflict(r) \/ Disconnect(r) \/ Crash(r) \/ GateErrorInStream(r)
             \/ RefuseBusy(r) \/ RefuseOverBudget(r) \/ ReleaseClaim(r) \/ ReleaseLock(r)
             \/ RefuseGate(r) \/ ApprovePlan(r) \/ GateConflict(r) \/ Reap(r)
    <3>1. /\ models' = models /\ Beside(r)
          /\ pc'[r] \notin {"stream", "run", "persist", "gateCheck", "gateCommit"}
      BY <2>5 DEF Arrive, AcquireLock, ClaimMessage, RefuseDuplicate, FailGraph,
           PersistConflict, Disconnect, Crash, GateErrorInStream, RefuseBusy,
           RefuseOverBudget, ReleaseClaim, ReleaseLock, RefuseGate, ApprovePlan,
           GateConflict, Reap, EndTurn, Abandon, Finish, Goto, Beside, rowVars, GateKinds,
           TypeInv, TypeOK, HandlersTypeOK, ViewsTypeOK
    <3> QED BY <3>1, RaceOutside
  <2>6. CASE ExpireDead(r) \/ ExpireHeld(r)
    <3>1. UNCHANGED << models, pc, kind, view >>
      BY <2>6 DEF ExpireDead, ExpireHeld, rowVars
    <3>2. LatestModel' = LatestModel
      BY <3>1 DEF LatestModel
    <3> QED BY <3>1, <3>2 DEF RaceInv, SectionBase, GateBase, HasVersion
  <2> QED BY <2>1, <2>2, <2>3, <2>4, <2>5, <2>6 DEF Step, Environment
<1> QED BY <1>1, <1>2 DEF Next, Quiet

LEMMA RaceInvHolds == ASSUME NoLapse PROVE Spec => []RaceInv
<1>1. Init => RaceInv
  BY DEF Init, LockInit, RaceInv, LapsedAreDead, SectionBase, GateBase
<1>2. TypeInv /\ LockOwnedUnlessLapsed /\ RaceInv /\ [Next]_vars => RaceInv'
  BY RaceNext
<1> QED BY <1>1, <1>2, TypeInvHolds, LockOwned, PTL DEF Spec

(* While no key lapses under a living request, no turn or import persists  *)
(* over edits it has not started from, though gates commit in the middle   *)
(* of it and replicas die with the lock.                                   *)
THEOREM SerializedDespiteGates == ASSUME NoLapse PROVE Spec => TurnsOverNewestEdits
<1>1. RaceInv => \A r \in Requests :
                  PersistTurn(r) \/ PersistImport(r) => LatestModel.edits = view[r].before.edits
  BY DEF RaceInv, SectionBase, PersistTurn, PersistImport
<1>2. RaceInv /\ [Next]_vars =>
        [\A r \in Requests :
           PersistTurn(r) \/ PersistImport(r) => LatestModel.edits = view[r].before.edits]_vars
  BY <1>1
<1> QED BY <1>2, RaceInvHolds, PTL DEF Spec, TurnsOverNewestEdits

(* What a turn may lose to a gate: the same again, with what it has read.  *)
GatedSince(r) == \E m \in AcceptedRows : m.version > view[r].before.version

(* Rows that came after the one a request started from are gates' rows.    *)
ReadRow(r) ==
  pc[r] \in {"stream", "run", "persist"} =>
    view[r].before \in models /\ (LatestModel = view[r].before \/ GatedSince(r))

(* It works from that row, or past gate 1 from an accepted one.            *)
WorkRow(r) ==
  /\ pc[r] = "stream" => view[r].model = view[r].before
  /\ pc[r] \in {"run", "persist"} =>
       \/ view[r].before.edits \subseteq view[r].model.edits
       \/ GatedSince(r)
       \/ AcceptedRows # {} /\ view[r].before.status # "accepted"

(* A row seen is there, and what a gate is about to write is accepted.     *)
SeenRow(r) ==
  /\ pc[r] = "persist" /\ view[r].modelSeen => HasVersion(models, view[r].model.version)
  /\ pc[r] \in {"gateCheck", "gateCommit"} /\ kind[r] = "accept" =>
       view[r].model.status = "accepted"

LossInv == \A r \in Requests : ReadRow(r) /\ WorkRow(r) /\ SeenRow(r)

LEMMA LossQuiet ==
  ASSUME LossInv, NEW r \in Requests, UNCHANGED models, Beside(r),
         ReadRow(r)', WorkRow(r)', SeenRow(r)'
  PROVE  LossInv'
<1>1. LatestModel' = LatestModel /\ AcceptedRows' = AcceptedRows
  BY DEF LatestModel, AcceptedRows
<1>2. \A o \in Requests \ {r} : ReadRow(o)' /\ WorkRow(o)' /\ SeenRow(o)'
  BY <1>1 DEF LossInv, ReadRow, WorkRow, SeenRow, GatedSince, HasVersion, Beside
<1> QED BY <1>2 DEF LossInv

LEMMA LossOutside ==
  ASSUME LossInv, NEW r \in Requests, UNCHANGED models, Beside(r),
         pc'[r] \notin {"stream", "run", "persist", "gateCheck", "gateCommit"}
  PROVE  LossInv'
<1>1. ReadRow(r)' /\ WorkRow(r)' /\ SeenRow(r)'
  BY DEF ReadRow, WorkRow, SeenRow
<1> QED BY <1>1, LossQuiet

LEMMA LossRead ==
  ASSUME TypeInv, LossInv, NEW r \in Requests, ReadModel(r)
  PROVE  LossInv'
<1>1. /\ models' = models /\ Beside(r) /\ view[r] \in View
      /\ pc'[r] \in {"stream", "run"}
  BY DEF ReadModel, Goto, Beside, rowVars, TypeInv, TypeOK, HandlersTypeOK, ViewsTypeOK
<1>2. LatestModel' = LatestModel /\ LatestModel \in models
  BY <1>1, LatestModelTyped DEF LatestModel
<1>3. view'[r].before = LatestModel /\ view'[r].model = LatestModel
  BY <1>1 DEF ReadModel, View, TypeInv, TypeOK, ViewsTypeOK
<1>4. ReadRow(r)' /\ WorkRow(r)' /\ SeenRow(r)'
  BY <1>1, <1>2, <1>3 DEF ReadRow, WorkRow, SeenRow
<1> QED BY <1>1, <1>4, LossQuiet

LEMMA LossOpen ==
  ASSUME TypeInv, LossInv, NEW r \in Requests, OpenStream(r)
  PROVE  LossInv'
<1>1. /\ models' = models /\ Beside(r) /\ view[r] \in View
      /\ pc[r] = "stream" /\ pc'[r] = "run"
  BY DEF OpenStream, Goto, Beside, rowVars, TypeInv, TypeOK, HandlersTypeOK, ViewsTypeOK
<1>2. LatestModel' = LatestModel /\ AcceptedRows' = AcceptedRows
  BY <1>1 DEF LatestModel, AcceptedRows
<1>3. CASE view' = view
  BY <1>1, <1>2, <1>3, LossQuiet
     DEF LossInv, ReadRow, WorkRow, SeenRow, GatedSince
<1>4. CASE view' # view
  <2>1. /\ AcceptedRows # {}
        /\ \E plan : view' = [view EXCEPT ![r] = [view[r] EXCEPT !.model = AcceptedModel,
                                                                 !.plan = plan]]
    BY <1>4 DEF OpenStream
  <2>2. view'[r].before = view[r].before /\ view'[r].model = AcceptedModel
    BY <1>1, <2>1 DEF View, TypeInv, TypeOK, ViewsTypeOK
  <2>3. \/ GatedSince(r)
        \/ view[r].before.status # "accepted"
        \/ AcceptedModel = view[r].before
    <3> SUFFICES ASSUME ~ GatedSince(r), view[r].before.status = "accepted"
                 PROVE  AcceptedModel = view[r].before
      OBVIOUS
    <3>1. LatestModel = view[r].before
      BY <1>1 DEF LossInv, ReadRow
    <3> QED BY <3>1, NewestIsAccepted
  <2>4. ReadRow(r)' /\ WorkRow(r)' /\ SeenRow(r)'
    BY <1>1, <1>2, <2>1, <2>2, <2>3
       DEF LossInv, ReadRow, WorkRow, SeenRow, GatedSince
  <2> QED BY <1>1, <2>4, LossQuiet
<1> QED BY <1>3, <1>4

LEMMA LossRun ==
  ASSUME TypeInv, LossInv, NEW r \in Requests, RunTurn(r)
  PROVE  LossInv'
<1>1. /\ models' = models /\ Beside(r) /\ view[r] \in View /\ view[r].model \in Model
      /\ pc[r] = "run" /\ pc'[r] = "persist"
  BY DEF RunTurn, ApplyImport, FinishGraph, Goto, Beside, rowVars, TypeInv, TypeOK,
         HandlersTypeOK, ViewsTypeOK, View
<1>2. LatestModel' = LatestModel /\ AcceptedRows' = AcceptedRows
  BY <1>1 DEF LatestModel, AcceptedRows
<1>3. ASSUME NEW patches, NEW structural
      PROVE  view[r].model.edits \subseteq PatchedModel(view[r], patches, structural).edits
  BY <1>1 DEF PatchedModel, Model
<1> DEFINE Works ==
      /\ view'[r].before = view[r].before
      /\ view[r].model.edits \subseteq view'[r].model.edits
      /\ view'[r].modelSeen = HasVersion(models, view'[r].model.version)
<1>4. Works
  <2>1. ASSUME NEW patches, NEW structural, ApplyImport(r, patches, structural)
        PROVE  Works
    <3> DEFINE model == PatchedModel(view[r], patches, structural)
    <3>1. view' = [view EXCEPT ![r] = [view[r] EXCEPT
             !.model = model, !.modelSeen = HasVersion(models, model.version)]]
      BY <2>1 DEF ApplyImport
    <3>2. view[r].model.edits \subseteq model.edits
      BY <1>3
    <3> HIDE DEF model
    <3> QED BY <1>1, <3>1, <3>2 DEF View, TypeInv, TypeOK, ViewsTypeOK
  <2>2. ASSUME NEW patches, NEW structural, NEW made,
               FinishGraph(r, patches, structural, made)
        PROVE  Works
    <3> DEFINE model == PatchedModel(view[r], patches, structural)
               plan == IF made = 0 THEN view[r].plan
                       ELSE [version |-> made, status |-> "reviewed", basis |-> model.edits]
    <3>1. view' = [view EXCEPT ![r] = [view[r] EXCEPT
             !.model = model, !.plan = plan,
             !.modelSeen = HasVersion(models, model.version),
             !.planSeen = HasVersion(plans, plan.version)]]
      BY <2>2 DEF FinishGraph
    <3>2. view[r].model.edits \subseteq model.edits
      BY <1>3
    <3> HIDE DEF model, plan
    <3> QED BY <1>1, <3>1, <3>2 DEF View, TypeInv, TypeOK, ViewsTypeOK
  <2> QED BY <2>1, <2>2 DEF RunTurn
<1>5. ReadRow(r)' /\ WorkRow(r)' /\ SeenRow(r)'
  BY <1>1, <1>2, <1>4 DEF LossInv, ReadRow, WorkRow, SeenRow, GatedSince, HasVersion
<1> QED BY <1>1, <1>5, LossQuiet

LEMMA LossGate ==
  ASSUME TypeInv, LossInv, NEW r \in Requests, ReadForGate(r) \/ CheckRow(r)
  PROVE  LossInv'
<1> USE DEF TypeInv, TypeOK, HandlersTypeOK, ViewsTypeOK
<1>1. /\ models' = models /\ kind' = kind /\ Beside(r) /\ view[r] \in View
      /\ pc'[r] \in {"gateCheck", "gateCommit"}
  BY DEF ReadForGate, CheckRow, Goto, Beside, rowVars
<1>2. kind[r] = "accept" => view'[r].model.status = "accepted"
  <2>1. CASE ReadForGate(r) /\ kind[r] = "accept"
    <3> DEFINE row == [LatestModel EXCEPT !.status = "accepted", !.version = @ + 1]
    <3>1. view' = [view EXCEPT ![r] = [view[r] EXCEPT !.model = row]]
      BY <2>1 DEF ReadForGate
    <3>2. row.status = "accepted"
      BY LatestModelTyped DEF Model
    <3> HIDE DEF row
    <3> QED BY <1>1, <3>1, <3>2 DEF View
  <2>2. CASE CheckRow(r)
    BY <1>1, <2>2 DEF CheckRow, View, LossInv, SeenRow
  <2> QED BY <2>1, <2>2
<1>3. ReadRow(r)' /\ WorkRow(r)' /\ SeenRow(r)'
  BY <1>1, <1>2 DEF ReadRow, WorkRow, SeenRow
<1> QED BY <1>1, <1>3, LossQuiet

(* The one turn that persists is the only one in the section. *)
LEMMA LossPersist ==
  ASSUME TypeInv, LockOwnedUnlessLapsed, LapsedAreDead, LossInv, NEW r \in Requests,
         PersistTurn(r) \/ PersistImport(r)
  PROVE  LossInv'
<1>1. pc[r] = "persist" /\ pc'[r] = "release" /\ Beside(r)
  BY DEF PersistTurn, PersistImport, EndTurn, Goto, Beside, TypeInv, TypeOK, HandlersTypeOK,
         ViewsTypeOK
<1>2. \A o \in Requests \ {r} : pc'[o] \notin {"stream", "run", "persist"}
  BY <1>1, SectionAlone DEF Beside, TurnPCs
<1>3. \A o \in Requests \ {r} : ReadRow(o)' /\ WorkRow(o)' /\ SeenRow(o)'
  BY <1>1, <1>2 DEF LossInv, Beside, ReadRow, WorkRow, SeenRow
<1>4. ReadRow(r)' /\ WorkRow(r)' /\ SeenRow(r)'
  BY <1>1 DEF ReadRow, WorkRow, SeenRow
<1> QED BY <1>3, <1>4 DEF LossInv

(* A gate's row, when it is the newest, is newer than what any turn read.  *)
LEMMA LossAccept ==
  ASSUME TypeInv, RaceInv, LossInv, NEW r \in Requests, AcceptModel(r)
  PROVE  LossInv'
<1>1. pc[r] = "gateCommit" /\ kind[r] = "accept" /\ pc'[r] = "idle" /\ Beside(r)
  BY DEF AcceptModel, Finish, Goto, Beside, TypeInv, TypeOK, HandlersTypeOK, ViewsTypeOK
<1>2. models \subseteq models' /\ AcceptedRows \subseteq AcceptedRows'
  BY GateRowFollows DEF AcceptedRows
<1>3. \/ LatestModel' = LatestModel
      \/ /\ LatestModel'.version = LatestModel.version + 1
         /\ LatestModel' \in AcceptedRows'
  <2>1. CASE LatestModel' = LatestModel
    BY <2>1
  <2>2. CASE LatestModel' # LatestModel
    <3>1. /\ LatestModel' = view[r].model
          /\ LatestModel'.version = LatestModel.version + 1
      BY <2>2, GateRowFollows
    <3>2. models' # models
      BY <2>2 DEF LatestModel
    <3>3. view[r].model \in models'
      BY <3>2 DEF AcceptModel, SaveModel
    <3>4. view[r].model.status = "accepted"
      BY <1>1 DEF LossInv, SeenRow
    <3> QED BY <3>1, <3>3, <3>4 DEF AcceptedRows
  <2> QED BY <2>1, <2>2
<1>4. ASSUME NEW o \in Requests \ {r}
      PROVE  ReadRow(o)' /\ WorkRow(o)' /\ SeenRow(o)'
  <2>1. pc'[o] = pc[o] /\ kind'[o] = kind[o] /\ view'[o] = view[o]
    BY <1>1 DEF Beside
  <2>2. GatedSince(o) => GatedSince(o)'
    BY <1>2, <2>1 DEF GatedSince
  <2>3. pc[o] \in {"stream", "run", "persist"} /\ LatestModel' # LatestModel => GatedSince(o)'
    <3> SUFFICES ASSUME pc[o] \in {"stream", "run", "persist"}, LatestModel' # LatestModel
                 PROVE  GatedSince(o)'
      OBVIOUS
    <3>1. view[o].before.version <= LatestModel.version
      BY DEF RaceInv, SectionBase
    <3>2. view[o].before.version \in Nat /\ LatestModel.version \in Nat
      BY LatestModelTyped
    <3>3. LatestModel'.version > view'[o].before.version
      BY <1>3, <2>1, <3>1, <3>2
    <3> QED BY <1>3, <3>3 DEF GatedSince
  <2>4. ReadRow(o)'
    BY <1>2, <2>1, <2>2, <2>3 DEF LossInv, ReadRow
  <2>5. WorkRow(o)'
    BY <1>2, <2>1, <2>2 DEF LossInv, WorkRow
  <2>6. SeenRow(o)'
    BY <1>2, <2>1 DEF LossInv, SeenRow, HasVersion
  <2> QED BY <2>4, <2>5, <2>6
<1>5. ReadRow(r)' /\ WorkRow(r)' /\ SeenRow(r)'
  BY <1>1 DEF ReadRow, WorkRow, SeenRow
<1> QED BY <1>4, <1>5 DEF LossInv

LEMMA LossNext ==
  ASSUME TypeInv, LockOwnedUnlessLapsed, RaceInv, LossInv, [Next]_vars
  PROVE  LossInv'
<1>1. CASE UNCHANGED vars
  <2>1. UNCHANGED << models, pc, kind, view >>
    BY <1>1 DEF vars, rowVars
  <2>2. LatestModel' = LatestModel /\ AcceptedRows' = AcceptedRows
    BY <2>1 DEF LatestModel, AcceptedRows
  <2> QED BY <2>1, <2>2 DEF LossInv, ReadRow, WorkRow, SeenRow, GatedSince, HasVersion
<1>2. ASSUME NEW r \in Requests, Step(r) \/ Environment(r)
      PROVE  LossInv'
  <2> USE <1>2
  <2>1. CASE ReadModel(r)
    BY <2>1, LossRead
  <2>2. CASE OpenStream(r)
    BY <2>2, LossOpen
  <2>3. CASE RunTurn(r)
    BY <2>3, LossRun
  <2>4. CASE ReadForGate(r) \/ CheckRow(r)
    BY <2>4, LossGate
  <2>5. CASE PersistTurn(r) \/ PersistImport(r)
    BY <2>5, LossPersist DEF RaceInv
  <2>6. CASE AcceptModel(r)
    BY <2>6, LossAccept
  <2>7. CASE \/ \E k \in Offered, m \in 1..(served + 1) : Arrive(r, k, m)
             \/ AcquireLock(r) \/ ClaimMessage(r) \/ RefuseDuplicate(r) \/ FailGraph(r)
             \/ PersistConflict(r) \/ Disconnect(r) \/ Crash(r) \/ GateErrorInStream(r)
             \/ RefuseBusy(r) \/ RefuseOverBudget(r) \/ ReleaseClaim(r) \/ ReleaseLock(r)
             \/ RefuseGate(r) \/ ApprovePlan(r) \/ GateConflict(r) \/ Reap(r)
    <3>1. /\ models' = models /\ Beside(r)
          /\ pc'[r] \notin {"stream", "run", "persist", "gateCheck", "gateCommit"}
      BY <2>7 DEF Arrive, AcquireLock, ClaimMessage, RefuseDuplicate, FailGraph,
           PersistConflict, Disconnect, Crash, GateErrorInStream, RefuseBusy,
           RefuseOverBudget, ReleaseClaim, ReleaseLock, RefuseGate, ApprovePlan,
           GateConflict, Reap, EndTurn, Abandon, Finish, Goto, Beside, rowVars, GateKinds,
           TypeInv, TypeOK, HandlersTypeOK, ViewsTypeOK
    <3> QED BY <3>1, LossOutside
  <2>8. CASE ExpireDead(r) \/ ExpireHeld(r)
    <3>1. UNCHANGED << models, pc, kind, view >>
      BY <2>8 DEF ExpireDead, ExpireHeld, rowVars
    <3>2. LatestModel' = LatestModel /\ AcceptedRows' = AcceptedRows
      BY <3>1 DEF LatestModel, AcceptedRows
    <3> QED BY <3>1, <3>2 DEF LossInv, ReadRow, WorkRow, SeenRow, GatedSince, HasVersion
  <2> QED BY <2>1, <2>2, <2>3, <2>4, <2>5, <2>6, <2>7, <2>8 DEF Step, Environment
<1> QED BY <1>1, <1>2 DEF Next, Quiet

LEMMA LossInvHolds == ASSUME NoLapse PROVE Spec => []LossInv
<1>1. Init => LossInv
  BY DEF Init, LossInv, ReadRow, WorkRow, SeenRow
<1>2. TypeInv /\ LockOwnedUnlessLapsed /\ RaceInv /\ LossInv /\ [Next]_vars => LossInv'
  BY LossNext
<1> QED BY <1>1, <1>2, TypeInvHolds, LockOwned, RaceInvHolds, PTL DEF Spec

(* A turn that no gate has raced writes over what it has read, and what it *)
(* writes holds that.                                                      *)
LEMMA UnracedTurnKeeps ==
  ASSUME TypeInv, LossInv, NEW r \in Requests, PersistTurn(r) \/ PersistImport(r),
         ~ GateRaced(r)
  PROVE  Lost' \subseteq Lost
<1>1. pc[r] = "persist" /\ WriteModel(r) /\ ~ Conflict(r)
  BY DEF PersistTurn, PersistImport
<1>2. ~ GatedSince(r) /\ (AcceptedRows # {} => LatestModel \in AcceptedRows)
  BY DEF GateRaced, GatedSince
<1>3. LatestModel = view[r].before
  BY <1>1, <1>2 DEF LossInv, ReadRow
<1>4. LatestModel.edits \subseteq view[r].model.edits
  BY <1>1, <1>2, <1>3 DEF LossInv, WorkRow, AcceptedRows
<1>5. CASE SavesModel(r)
  <2>1. view[r].model.version > LatestModel.version /\ view[r].model.version \in Nat
        /\ view[r].model \in Model
    BY <1>3, <1>5, LatestModelTyped DEF SavesModel
  <2>2. ~ HasVersion(models, view[r].model.version)
    BY <2>1, NoRowYet
  <2>3. ~ view[r].modelSeen
    BY <1>1, <2>2 DEF LossInv, SeenRow
  <2>4. models' = models \cup {view[r].model}
    BY <1>1, <1>5, <2>3 DEF WriteModel, SaveModel
  <2>5. LatestModel' = view[r].model
    BY <2>1, <2>4, NewestModelAfter
  <2>6. audited' \subseteq audited \cup view[r].model.edits
    BY <1>1, <1>5 DEF WriteModel, SavePatchAudit
  <2> QED BY <1>4, <2>5, <2>6 DEF Lost
<1>6. CASE ~ SavesModel(r)
  BY <1>1, <1>6 DEF WriteModel, Lost, LatestModel
<1> QED BY <1>5, <1>6

LEMMA OthersLoseNothing ==
  ASSUME TypeInv, RaceInv, [Next]_vars,
         \A r \in Requests : ~ (PersistTurn(r) \/ PersistImport(r))
  PROVE  Lost' \subseteq Lost
<1>1. CASE UNCHANGED vars
  BY <1>1 DEF vars, rowVars, Lost, LatestModel
<1>2. ASSUME NEW r \in Requests, Step(r) \/ Environment(r)
      PROVE  Lost' \subseteq Lost
  <2>1. CASE AcceptModel(r)
    <3>1. LatestModel'.edits = LatestModel.edits
      BY <2>1, GateRowFollows
    <3> QED BY <2>1, <3>1 DEF AcceptModel, Lost
  <2>2. CASE ~ AcceptModel(r)
    <3>1. models' = models /\ audited' = audited
      BY <1>2, <2>2 DEF Step, Environment, RunTurn, Arrive, AcquireLock, ClaimMessage,
           RefuseDuplicate, FailGraph, PersistConflict, Disconnect, Crash,
           GateErrorInStream, RefuseBusy, RefuseOverBudget, ReleaseClaim, ReleaseLock,
           RefuseGate, ApprovePlan, GateConflict, Reap, ReadModel, OpenStream, ApplyImport,
           FinishGraph, ReadForGate, CheckRow, ExpireDead, ExpireHeld, rowVars
    <3> QED BY <3>1 DEF Lost, LatestModel
  <2> QED BY <2>1, <2>2
<1> QED BY <1>1, <1>2 DEF Next, Quiet

(* While no key lapses under a living request, only a turn or an import    *)
(* that gate 1 has raced loses a change that the audit trail reports, for  *)
(* any number of requests, patches, retries, disconnects and crashes.      *)
THEOREM LossNeedsRacedGate == ASSUME NoLapse PROVE Spec => OnlyRacedGatesLose
<1>1. TypeInv /\ RaceInv /\ LossInv /\ [Next]_vars =>
        [\/ Lost' \subseteq Lost
         \/ \E r \in Requests : (PersistTurn(r) \/ PersistImport(r)) /\ GateRaced(r)]_vars
  BY UnracedTurnKeeps, OthersLoseNothing
<1> QED BY <1>1, TypeInvHolds, RaceInvHolds, LossInvHolds, PTL DEF Spec, OnlyRacedGatesLose

-----------------------------------------------------------------------------
(* The refinement: a calm session is one of SessionGates.                  *)
CalmState == TypeInv /\ NothingAcceptedBeforeGateOne /\ CalmInv

Agreed == IF AcceptedRows = {} THEN {} ELSE AcceptedModel.edits
Shown == [status |-> LatestPlan.status, basis |-> LatestPlan.basis]

(* What is agreed is nothing, and past gate 1 the newest model. *)
AgreedIsNewest == Agreed = IF status = "discovery" THEN {} ELSE LatestModel.edits

LEMMA AgreedModel == CalmState => AgreedIsNewest
<1> SUFFICES ASSUME CalmState PROVE AgreedIsNewest OBVIOUS
<1> USE DEF AgreedIsNewest
<1>1. CASE status = "discovery"
  BY <1>1 DEF CalmState, NothingAcceptedBeforeGateOne, Agreed
<1>2. CASE status # "discovery"
  BY <1>2, NewestIsAccepted DEF CalmState, CalmInv, TablesFollowStatus, Agreed
<1> QED BY <1>1, <1>2

LEMMA AgreedModelNext == CalmState' => AgreedIsNewest'
  BY AgreedModel, PTL

LEMMA GatesInit == Init => Gates!Init
<1> SUFFICES ASSUME Init PROVE Gates!Init OBVIOUS
<1>1. status = "discovery" /\ LatestModel = NewModel /\ AcceptedRows = {}
      /\ LatestPlan = NoPlan
  BY DEF Init, LatestModel, AcceptedRows, LatestPlan, NewModel
<1> QED BY <1>1 DEF Gates!Init, Gates!NoPlan, NewModel, NoPlan

(* A turn or an import is one atomic turn of SessionGates.                 *)
LEMMA PersistIsTurn ==
  ASSUME CalmState, CalmState', NEW r \in Requests, PersistTurn(r) \/ PersistImport(r)
  PROVE  Gates!Next \/ UNCHANGED Gates!vars
<1> USE DEF Gates!Next
<1>1. pc[r] = "persist" /\ WriteModel(r) /\ ResultContinues(r) /\ status # "exported"
  BY DEF PersistTurn, PersistImport, CalmState, CalmInv, TurnFollowsTables,
         GateFollowsTables, InFlight, Working
<1>2. LatestModel'.edits = view[r].model.edits
  BY <1>1, WrittenModel DEF CalmState
<1>3. view[r].serial \in 1..MaxRequests
  BY <1>1, ConstantsAssumption
     DEF CalmState, TypeInv, TypeOK, ViewsTypeOK, View, KindsOK
<1>4. \/ LatestModel'.edits = LatestModel.edits
      \/ \E e \in 1..MaxRequests : LatestModel'.edits = LatestModel.edits \cup {e}
  BY <1>1, <1>2, <1>3 DEF ResultContinues
<1>5. /\ Agreed = IF status = "discovery" THEN {} ELSE LatestModel.edits
      /\ Agreed' = IF status' = "discovery" THEN {} ELSE LatestModel'.edits
  BY AgreedModel, AgreedModelNext DEF AgreedIsNewest
<1>6. status \in Statuses
  BY DEF CalmState, TypeInv, TypeOK, RowsTypeOK
<1>7. CASE PersistTurn(r) /\ SavesPlan(r)
  <2>1. /\ status \in {"planning", "review"} /\ status' = "review"
        /\ \/ LatestPlan' = LatestPlan /\ status = "review"
           \/ LatestPlan'.status = "reviewed" /\ LatestPlan'.basis = LatestModel'.edits
    BY <1>2, <1>7, WrittenPlan DEF CalmState
  <2>2. Gates!Amend
    BY <1>4, <1>5, <2>1 DEF Gates!Amend, Agreed
  <2>3. \/ Shown' = Shown /\ status = "review"
        \/ Shown' = [status |-> "reviewed", basis |-> Agreed']
    BY <1>5, <2>1 DEF Shown
  <2>4. CASE status = "planning"
    BY <2>1, <2>2, <2>3, <2>4 DEF Gates!MakePlan, Gates!Reviewed, Shown, Agreed
  <2>5. CASE status = "review"
    BY <2>1, <2>2, <2>3, <2>5 DEF Gates!Discuss, Gates!Reviewed, Shown, Agreed
  <2> QED BY <2>1, <2>4, <2>5
<1>8. CASE UNCHANGED << status, plans >>
  <2>1. LatestPlan' = LatestPlan
    BY <1>8 DEF LatestPlan
  <2>2. CASE status = "discovery" /\ LatestModel'.edits # LatestModel.edits
    BY <1>4, <1>5, <1>8, <2>1, <2>2 DEF Gates!Describe, Agreed
  <2>3. CASE status = "discovery" /\ LatestModel'.edits = LatestModel.edits
    BY <1>5, <1>8, <2>1, <2>3 DEF Gates!vars, Agreed
  <2>4. CASE status \in {"planning", "review"}
    <3>1. Gates!Amend
      BY <1>4, <1>5, <1>8, <2>4 DEF Gates!Amend, Agreed
    <3>2. Gates!Elicit \/ Gates!Discuss
      BY <1>8, <2>1, <2>4, <3>1 DEF Gates!Elicit, Gates!Discuss
    <3> QED BY <3>2
  <2> QED BY <1>1, <1>6, <2>2, <2>3, <2>4 DEF Statuses
<1> QED BY <1>7, <1>8 DEF PersistTurn, PersistImport

LEMMA GateIsGate ==
  ASSUME CalmState, CalmState', NEW r \in Requests, AcceptModel(r) \/ ApprovePlan(r)
  PROVE  Gates!Next
<1>1. /\ Agreed = IF status = "discovery" THEN {} ELSE LatestModel.edits
      /\ Agreed' = IF status' = "discovery" THEN {} ELSE LatestModel'.edits
  BY AgreedModel, AgreedModelNext DEF AgreedIsNewest
<1>2. CASE AcceptModel(r)
  <2>1. /\ status = "discovery" /\ status' = "planning" /\ plans' = plans
        /\ LatestModel.edits # {} /\ LatestModel'.edits = LatestModel.edits
    BY <1>2, AcceptedIsNewest DEF CalmState
  <2>2. LatestPlan' = LatestPlan
    BY <2>1 DEF LatestPlan
  <2> QED BY <1>1, <2>1, <2>2 DEF Gates!Next, Gates!AcceptModel, Agreed
<1>3. CASE ApprovePlan(r)
  <2>1. /\ status = "review" /\ status' = "exported" /\ models' = models
        /\ LatestPlan'.status = "final" /\ LatestPlan'.basis = LatestPlan.basis
    BY <1>3, ApprovedIsNewest DEF CalmState
  <2>2. LatestModel' = LatestModel
    BY <2>1 DEF LatestModel
  <2>3. Shown' = [Shown EXCEPT !.status = "final"]
    BY <2>1 DEF Shown
  <2> QED BY <1>1, <2>1, <2>2, <2>3 DEF Gates!Next, Gates!ApprovePlan, Agreed, Shown
<1> QED BY <1>2, <1>3

(* Every other step is invisible: it leaves the tables of models and plans *)
(* and the status alone.                                                   *)
LEMMA OthersInvisible ==
  ASSUME UNCHANGED << status, models, plans >> PROVE UNCHANGED Gates!vars
<1>1. /\ LatestModel' = LatestModel /\ LatestPlan' = LatestPlan
      /\ AcceptedRows' = AcceptedRows /\ AcceptedModel' = AcceptedModel
  BY DEF LatestModel, LatestPlan, AcceptedRows, AcceptedModel
<1> QED BY <1>1 DEF Gates!vars

LEMMA StepIsGateStep ==
  ASSUME CalmState, CalmState', [Next]_vars
  PROVE  [Gates!Next]_(Gates!vars)
<1>1. ASSUME NEW r \in Requests, Step(r) \/ Environment(r)
      PROVE  Gates!Next \/ UNCHANGED Gates!vars
  <2>1. CASE PersistTurn(r) \/ PersistImport(r)
    BY <2>1, PersistIsTurn
  <2>2. CASE AcceptModel(r) \/ ApprovePlan(r)
    BY <2>2, GateIsGate
  <2>3. CASE \/ AcquireLock(r) \/ RefuseBusy(r) \/ ClaimMessage(r) \/ RefuseDuplicate(r)
             \/ RefuseOverBudget(r) \/ ReleaseClaim(r) \/ ReadModel(r) \/ OpenStream(r)
             \/ GateErrorInStream(r) \/ RunTurn(r) \/ FailGraph(r) \/ PersistConflict(r)
             \/ ReleaseLock(r) \/ ReadForGate(r) \/ RefuseGate(r) \/ CheckRow(r)
             \/ GateConflict(r) \/ Reap(r) \/ ExpireDead(r) \/ Environment(r)
    <3>1. UNCHANGED << status, models, plans >>
      BY <2>3 DEF AcquireLock, RefuseBusy, ClaimMessage, RefuseDuplicate, RefuseOverBudget,
           ReleaseClaim, ReadModel, OpenStream, GateErrorInStream, RunTurn, ApplyImport,
           FinishGraph, FailGraph, PersistConflict, ReleaseLock, ReadForGate, RefuseGate,
           CheckRow, GateConflict, Reap, ExpireDead, Environment, Arrive, Disconnect,
           Crash, ExpireHeld, rowVars
    <3> QED BY <3>1, OthersInvisible
  <2> QED BY <1>1, <2>1, <2>2, <2>3 DEF Step
<1>2. ASSUME UNCHANGED vars PROVE UNCHANGED Gates!vars
  BY <1>2, OthersInvisible DEF vars, rowVars
<1> QED BY <1>1, <1>2 DEF Next, Quiet

(* Any interleaving of turns, imports, retries, disconnects and crashes is *)
(* a session whose turns happen one at a time, so that everything          *)
(* SessionGatesProofs proves of such a session holds of this one.          *)
THEOREM GatesImplemented == ASSUME Calm PROVE Spec => ImplementsGates
<1>1. Spec => []CalmState
  BY CalmInvHolds, TypeInvHolds, GateOneFirst, PTL DEF CalmState
<1>2. CalmState /\ CalmState' /\ [Next]_vars => [Gates!Next]_(Gates!vars)
  BY StepIsGateStep
<1> QED BY <1>1, <1>2, GatesInit, PTL DEF Spec, ImplementsGates, Gates!Spec

-----------------------------------------------------------------------------
(* What the abstract session promises, told of the tables.                 *)
Promise == INSTANCE SessionGatesProofs WITH
  Edits <- 1..MaxRequests,
  phase <- status,
  architecture <- LatestModel.edits,
  agreed <- IF AcceptedRows = {} THEN {} ELSE AcceptedModel.edits,
  plan <- [status |-> LatestPlan.status, basis |-> LatestPlan.basis]

(* The session that SessionGatesProofs is about is the one implemented. *)
LEMMA PromiseKept == ASSUME Calm PROVE Spec => Promise!Spec
<1>1. Spec => Gates!Spec
  BY GatesImplemented DEF ImplementsGates
<1>2. Gates!Init => Promise!Init
  BY DEF Gates!Init, Promise!Init, Gates!NoPlan, Promise!NoPlan
<1>3. [Gates!Next]_(Gates!vars) => [Promise!Next]_(Promise!vars)
  <2> USE DEF Gates!Amend, Promise!Amend, Gates!Reviewed, Promise!Reviewed
  <2>1. Gates!Describe => Promise!Describe
    BY DEF Gates!Describe, Promise!Describe
  <2>2. Gates!AcceptModel => Promise!AcceptModel
    BY DEF Gates!AcceptModel, Promise!AcceptModel
  <2>3. Gates!Elicit => Promise!Elicit
    BY DEF Gates!Elicit, Promise!Elicit
  <2>4. Gates!MakePlan => Promise!MakePlan
    BY DEF Gates!MakePlan, Promise!MakePlan
  <2>5. Gates!Discuss => Promise!Discuss
    BY DEF Gates!Discuss, Promise!Discuss
  <2>6. Gates!ApprovePlan => Promise!ApprovePlan
    BY DEF Gates!ApprovePlan, Promise!ApprovePlan
  <2>7. UNCHANGED Gates!vars => UNCHANGED Promise!vars
    BY DEF Gates!vars, Promise!vars
  <2> QED BY <2>1, <2>2, <2>3, <2>4, <2>5, <2>6, <2>7 DEF Gates!Next, Promise!Next
<1> QED BY <1>1, <1>2, <1>3, PTL DEF Gates!Spec, Promise!Spec

(* The plan a user reviews, approves and exports rests on nothing that the *)
(* accepted model does not hold.                                           *)
PlanWithinAccepted == plans # {} => AcceptedRows # {} /\ LatestPlan.basis \subseteq AcceptedModel.edits

(* Nothing of an exported session is ever written again. *)
ExportedFrozen == [][status # "exported"]_rowVars

(* accept_model's "planning cannot start before this" holds once gates and *)
(* turns keep apart: what the run gate_race refutes, it refutes only by a  *)
(* gate that races a turn.                                                 *)
THEOREM GateOneHolds == ASSUME Calm PROVE Spec => []GateOneLeavesAcceptedModel
<1>1. CalmState => GateOneLeavesAcceptedModel
  BY NewestIsAccepted DEF CalmState, CalmInv, TablesFollowStatus, GateOneLeavesAcceptedModel
<1>2. Spec => []CalmState
  BY CalmInvHolds, TypeInvHolds, GateOneFirst, PTL DEF CalmState
<1> QED BY <1>1, <1>2, PTL

(* What SessionGatesProofs shows of the abstract plan, it shows of the row *)
(* the session exports.                                                    *)
THEOREM PlanRestsOnAccepted == ASSUME Calm PROVE Spec => []PlanWithinAccepted
<1>1. Promise!Spec => []Promise!PlanCoveredByModel
  BY Promise!PlanCovered, PTL
<1>2. CalmState /\ Promise!PlanCoveredByModel => PlanWithinAccepted
  <2> SUFFICES ASSUME CalmState, Promise!PlanCoveredByModel, plans # {}
               PROVE  AcceptedRows # {} /\ LatestPlan.basis \subseteq AcceptedModel.edits
    BY DEF PlanWithinAccepted
  <2>1. status # "discovery"
    BY DEF CalmState, CalmInv, TablesFollowStatus
  <2>2. AcceptedRows # {}
    BY <2>1, NewestIsAccepted DEF CalmState, CalmInv, TablesFollowStatus
  <2> QED BY <2>2 DEF Promise!PlanCoveredByModel
<1>3. Spec => []CalmState
  BY CalmInvHolds, TypeInvHolds, GateOneFirst, PTL DEF CalmState
<1>4. Spec => Promise!Spec
  BY PromiseKept
<1> QED BY <1>1, <1>2, <1>3, <1>4, PTL

(* No request in flight survives gate 2, and none is admitted after it, so *)
(* no row changes once the session is exported.                            *)
THEOREM NothingAfterExport == ASSUME Calm PROVE Spec => ExportedFrozen
<1>1. CalmState /\ [Next]_vars => [status # "exported"]_rowVars
  <2> SUFFICES ASSUME CalmState, [Next]_vars, status = "exported"
               PROVE  UNCHANGED rowVars
    OBVIOUS
  <2>1. \A r \in Requests : pc[r] \in {"idle", "dead"}
    BY DEF CalmState, CalmInv, GateFollowsTables, InFlight
  <2>2. CASE UNCHANGED vars
    BY <2>2 DEF vars
  <2>3. ASSUME NEW r \in Requests, Step(r) \/ Environment(r)
        PROVE  UNCHANGED rowVars
    BY <2>1, <2>3 DEF Step, Environment, Arrive, AcquireLock, RefuseBusy, ClaimMessage,
         RefuseDuplicate, RefuseOverBudget, ReleaseClaim, ReadModel, OpenStream,
         GateErrorInStream, RunTurn, ApplyImport, FinishGraph, FailGraph, PersistTurn,
         PersistImport, PersistConflict, ReleaseLock, ReadForGate, RefuseGate, CheckRow,
         AcceptModel, ApprovePlan, GateConflict, Reap, ExpireDead, Disconnect, Crash,
         ExpireHeld, rowVars
  <2> QED BY <2>2, <2>3 DEF Next, Quiet
<1>2. Spec => []CalmState
  BY CalmInvHolds, TypeInvHolds, GateOneFirst, PTL DEF CalmState
<1> QED BY <1>1, <1>2, PTL DEF Spec, ExportedFrozen

=============================================================================
