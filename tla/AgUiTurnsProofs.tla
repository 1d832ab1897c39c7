--------------------------- MODULE AgUiTurnsProofs ---------------------------
(***************************************************************************)
(* Proofs about AgUiTurns, for any number of requests: what a paused run,  *)
(* its decision and the requests in between can make of the saved models,  *)
(* and who may lose a change that was saved.                               *)
(***************************************************************************)
EXTENDS AgUiTurns, TLAPS

-----------------------------------------------------------------------------
(* The invariant of the lock and of the thread.                            *)

(* A request that is under way holds the lock.                             *)
Holder == \A r \in Requests : req[r].at \in {"locked", "running"} => lock = r

(* What a run compares its model with is the newest row for as long as it  *)
(* runs.                                                                   *)
BeforeIsLatest == \A r \in Requests : req[r].at = "running" => req[r].before = LatestModel

PatchesAtHand == thread.next = "apply_patches" => thread.patches \in PatchSet

Control == TypeOK /\ Holder /\ BeforeIsLatest /\ PatchesAtHand

(* Each row is newer than those before it; stated by the newest row, too.  *)
Rising ==
  /\ VersionsRise
  /\ \A i \in DOMAIN rows : rows[i].version <= LatestModel.version

LEMMA LatestIsModel ==
  ASSUME rows \in Seq(Model)
  PROVE  LatestModel \in Model
  <1>1. NewModel \in Model
    BY DEF NewModel, Model
  <1>2. CASE rows = << >>
    BY <1>1, <1>2 DEF LatestModel
  <1>3. CASE rows # << >>
    BY <1>3 DEF LatestModel, Last
  <1> QED  BY <1>2, <1>3

LEMMA PatchedIsModel ==
  ASSUME NEW m \in Model, NEW p \in PatchSet, NEW bypass \in BOOLEAN
  PROVE  Patched(m, p, bypass) \in Model
  <1>1. m.version \in Nat \ {0} /\ m.changes \in Seq(Change)
    BY DEF Model
  <1>2. p.bump \in Nat \ {0} /\ p.of \in Requests
    BY AgUiAssumption DEF PatchSet
  <1>3. [of |-> p.of, gated |-> bypass /\ Pending(p)] \in Change
    BY <1>2 DEF Change, Pending
  <1>4. Append(m.changes, [of |-> p.of, gated |-> bypass /\ Pending(p)]) \in Seq(Change)
    BY <1>1, <1>3
  <1>5. m.version + p.bump \in Nat \ {0}
    BY <1>1, <1>2
  <1> QED  BY <1>4, <1>5 DEF Patched, Model

LEMMA AppliedIsThread ==
  ASSUME TypeOK, thread.patches \in PatchSet, NEW bypass \in BOOLEAN
  PROVE  /\ Applied(bypass) \in Thread
         /\ Applied(bypass).next = "gap_analysis" /\ ~ Applied(bypass).paused
         /\ Applied(bypass).model = Patched(thread.model, thread.patches, bypass)
  <1>1. thread \in Thread
    BY DEF TypeOK
  <1>2. thread.model \in Model
    BY <1>1 DEF Thread
  <1>3. Patched(thread.model, thread.patches, bypass) \in Model
    BY <1>2, PatchedIsModel
  <1> DEFINE m == Patched(thread.model, thread.patches, bypass)
  <1>4. Applied(bypass) = [thread EXCEPT !.next = "gap_analysis", !.model = m,
                                         !.patches = None, !.paused = FALSE]
    BY DEF Applied
  <1> HIDE DEF m
  <1>5. m \in Model
    BY <1>3 DEF m
  <1>6. Applied(bypass) \in Thread /\ Applied(bypass).model = m
        /\ Applied(bypass).next = "gap_analysis" /\ Applied(bypass).paused = FALSE
    BY <1>1, <1>4, <1>5 DEF Thread
  <1> QED  BY <1>6 DEF m

LEMMA SavedRows ==
  ASSUME rows \in Seq(Model), Rising, NEW m \in Model
  PROVE  LET new == Saved(m, LatestModel)
         IN  /\ new \in Seq(Model)
             /\ \A i \in DOMAIN new : new[i] = m \/ \E j \in DOMAIN rows : new[i] = rows[j]
             /\ \A i, j \in DOMAIN new : i < j => new[i].version < new[j].version
             /\ new # << >> => \A i \in DOMAIN new : new[i].version <= new[Len(new)].version
  <1> DEFINE new == Saved(m, LatestModel)
  <1>1. LatestModel \in Model
    BY LatestIsModel
  <1>2. \A i \in DOMAIN rows : rows[i] \in Model /\ rows[i].version \in Nat
    <2>1. \A i \in DOMAIN rows : rows[i] \in Model
      OBVIOUS
    <2> QED  BY <2>1 DEF Model
  <1>3. m.version \in Nat /\ LatestModel.version \in Nat
    BY <1>1 DEF Model
  <1>4. CASE new = rows
    <2>1. rows # << >> => LatestModel = rows[Len(rows)]
      BY DEF LatestModel, Last
    <2> QED  BY <1>4, <2>1 DEF Rising, VersionsRise
  <1>5. CASE new # rows
    <2>1. new = Append(rows, m) /\ m.version > LatestModel.version
      BY <1>5 DEF Saved
    <2>2. \A i \in DOMAIN rows : rows[i].version < m.version
      BY <1>2, <1>3, <2>1 DEF Rising
    <2> HIDE DEF new
    <2>3. /\ new \in Seq(Model) /\ Len(new) = Len(rows) + 1 /\ DOMAIN new = 1 .. Len(rows) + 1
          /\ \A i \in DOMAIN rows : new[i] = rows[i]
          /\ new[Len(rows) + 1] = m
          /\ DOMAIN rows = 1 .. Len(rows) /\ Len(rows) \in Nat
      BY <2>1
    <2>4. \A i \in DOMAIN new : i \in DOMAIN rows \/ i = Len(rows) + 1
      BY <2>3
    <2>5. \A i, j \in DOMAIN new : i < j => new[i].version < new[j].version
      <3> SUFFICES ASSUME NEW i \in DOMAIN new, NEW j \in DOMAIN new, i < j
                   PROVE  new[i].version < new[j].version
        OBVIOUS
      <3>1. i \in DOMAIN rows
        BY <2>3
      <3>2. CASE j \in DOMAIN rows
        BY <2>3, <3>1, <3>2 DEF Rising, VersionsRise
      <3>3. CASE j = Len(rows) + 1
        BY <2>2, <2>3, <3>1, <3>3
      <3> QED  BY <2>4, <3>2, <3>3
    <2>6. \A i \in DOMAIN new : new[i].version <= new[Len(new)].version
      <3> SUFFICES ASSUME NEW i \in DOMAIN new PROVE new[i].version <= new[Len(new)].version
        OBVIOUS
      <3>1. CASE i \in DOMAIN rows
        <4>1. rows[i].version \in Nat /\ rows[i].version < m.version
          BY <1>2, <2>2, <3>1
        <4> QED  BY <1>3, <2>3, <3>1, <4>1
      <3>2. CASE i = Len(rows) + 1
        BY <1>3, <2>3, <3>2
      <3> QED  BY <2>4, <3>1, <3>2
    <2> QED  BY <2>3, <2>4, <2>5, <2>6 DEF new
  <1> QED  BY <1>4, <1>5

-----------------------------------------------------------------------------
(* The steps of a request, by what they do to the lock and to the rows.    *)

LEMMA ControlInit == Init => Control /\ Rising
  <1> SUFFICES ASSUME Init PROVE Control /\ Rising
    OBVIOUS
  <1>1. NewModel \in Model
    BY DEF NewModel, Model
  <1>2. thread \in Thread /\ thread.next = "end" /\ ~ thread.paused
    BY <1>1 DEF Init, Thread
  <1>3. req \in [Requests -> Request] /\ \A r \in Requests : req[r].at = "new"
    BY DEF Init, Request
  <1>4. rows = << >> /\ rows \in Seq(Model)
    BY DEF Init
  <1>5. TypeOK
    BY <1>2, <1>3, <1>4 DEF Init, TypeOK
  <1>6. Rising
    BY <1>4 DEF Rising, VersionsRise
  <1> QED  BY <1>2, <1>3, <1>5, <1>6 DEF Control, Holder, BeforeIsLatest, PatchesAtHand

(* A step that leaves the rows alone and moves a request between running   *)
(* and running, or nowhere.                                                *)
LEMMA ControlRun ==
  ASSUME Control, Rising, UNCHANGED << lock, req, rows >>, approved' \subseteq Requests,
         thread' \in Thread,
         thread'.paused => thread'.next = "apply_patches" /\ thread'.patches \in PatchSet,
         thread'.next = "apply_patches" => thread'.patches \in PatchSet
  PROVE  Control' /\ Rising'
  BY DEF Control, TypeOK, Holder, BeforeIsLatest, PatchesAtHand, Rising, VersionsRise, LatestModel

LEMMA ControlLeave ==
  ASSUME Control, Rising, NEW r \in Requests, req[r].at \in {"locked", "running"}, Leave(r),
         rows' = rows \/ \E m \in Model : rows' = Saved(m, LatestModel)
  PROVE  Control' /\ Rising'
  <1> USE DEF Control
  <1>1. lock = r /\ lock' = None /\ thread' = thread /\ approved' = approved
    BY DEF Leave, Holder
  <1>2. req' = [req EXCEPT ![r].at = "done", ![r].before = None]
    BY DEF Leave
  <1>3. req' \in [Requests -> Request]
    BY <1>2 DEF TypeOK, Request
  <1>4. \A q \in Requests : req'[q].at \notin {"locked", "running"}
    BY <1>1, <1>2 DEF TypeOK, Holder, Request
  <1>5. rows' \in Seq(Model) /\ Rising'
    <2>1. CASE rows' = rows
      BY <2>1 DEF TypeOK, Rising, VersionsRise, LatestModel
    <2>2. CASE \E m \in Model : rows' = Saved(m, LatestModel)
      <3>1. PICK m \in Model : rows' = Saved(m, LatestModel)
        BY <2>2
      <3>2. /\ rows' \in Seq(Model)
            /\ \A i, j \in DOMAIN rows' : i < j => rows'[i].version < rows'[j].version
            /\ rows' # << >> =>
                 \A i \in DOMAIN rows' : rows'[i].version <= rows'[Len(rows')].version
        BY <3>1, SavedRows DEF TypeOK
      <3>3. rows' # << >> => LatestModel' = rows'[Len(rows')]
        BY DEF LatestModel, Last
      <3>4. rows' = << >> => DOMAIN rows' = {}
        OBVIOUS
      <3> QED  BY <3>2, <3>3, <3>4 DEF Rising, VersionsRise
    <2> QED  BY <2>1, <2>2
  <1>6. TypeOK'
    BY <1>1, <1>3, <1>5 DEF TypeOK
  <1> QED
    BY <1>1, <1>4, <1>5, <1>6 DEF Holder, BeforeIsLatest, PatchesAtHand

LEMMA ControlAcquire ==
  ASSUME Control, Rising, NEW r \in Requests, Acquire(r)
  PROVE  Control' /\ Rising'
  <1> USE DEF Control
  <1>1. PICK kind \in Kinds, decision \in BOOLEAN :
          req' = [req EXCEPT ![r].kind = kind, ![r].decision = decision, ![r].at = "locked"]
    BY DEF Acquire
  <1>2. lock = None /\ lock' = r /\ UNCHANGED << rows, thread, approved >>
    BY DEF Acquire
  <1>3. req' \in [Requests -> Request]
    <2>1. \A q \in Requests : req[q] \in Request
      BY DEF TypeOK
    <2>2. \A x \in Request : [x EXCEPT !.kind = kind, !.decision = decision, !.at = "locked"] \in Request
      BY DEF Request
    <2>3. req' = [req EXCEPT ![r] = [req[r] EXCEPT !.kind = kind, !.decision = decision, !.at = "locked"]]
      BY <1>1
    <2> QED  BY <2>1, <2>2, <2>3 DEF TypeOK
  <1>4. \A q \in Requests : q # r => req'[q].at = req[q].at /\ req[q].at \notin {"locked", "running"}
    BY <1>1, <1>2, AgUiAssumption DEF TypeOK, Holder
  <1>5. req'[r].at = "locked"
    <2>1. req[r] \in Request /\ r \in DOMAIN req
      BY DEF TypeOK
    <2>2. req'[r] = [req[r] EXCEPT !.kind = kind, !.decision = decision, !.at = "locked"]
      BY <1>1, <2>1
    <2> QED  BY <2>1, <2>2 DEF Request
  <1>6. TypeOK'
    BY <1>2, <1>3, <1>5 DEF TypeOK
  <1> QED
    BY <1>2, <1>4, <1>5, <1>6
    DEF Holder, BeforeIsLatest, PatchesAtHand, Rising, VersionsRise, LatestModel

LEMMA StartedIsThread ==
  ASSUME TypeOK, PatchesAtHand, NEW kind, NEW t \in Started(kind)
  PROVE  /\ t \in Thread
         /\ t.paused => t.next = "apply_patches" /\ t.patches \in PatchSet
         /\ t.next = "apply_patches" => t.patches \in PatchSet
  <1>1. CASE t = thread
    BY <1>1 DEF TypeOK, PatchesAtHand
  <1>2. CASE t = Seeded
    <2>1. LatestModel \in Model
      BY LatestIsModel DEF TypeOK
    <2> QED  BY <1>2, <2>1 DEF Seeded, TypeOK, Thread
  <1> QED  BY <1>1, <1>2 DEF Started

LEMMA ControlStartRun ==
  ASSUME Control, Rising, NEW r \in Requests, StartRun(r)
  PROVE  Control' /\ Rising'
  <1> USE DEF Control
  <1>1. /\ req[r].at = "locked" /\ UNCHANGED << lock, rows, approved >>
        /\ req' = [req EXCEPT ![r].at = "running", ![r].before = LatestModel]
        /\ thread' \in Started(req[r].kind)
    BY DEF StartRun, ModelBefore
  <1>2. LatestModel \in Model
    BY LatestIsModel DEF TypeOK
  <1>3. req' \in [Requests -> Request]
    BY <1>1, <1>2 DEF TypeOK, Request
  <1>4. /\ thread' \in Thread
        /\ thread'.paused => thread'.next = "apply_patches" /\ thread'.patches \in PatchSet
        /\ thread'.next = "apply_patches" => thread'.patches \in PatchSet
    BY <1>1, StartedIsThread
  <1>5. \A q \in Requests : q # r => req'[q] = req[q]
    BY <1>1 DEF TypeOK
  <1>6. req'[r].at = "running" /\ req'[r].before = LatestModel
    BY <1>1 DEF TypeOK, Request
  <1>7. lock = r
    BY <1>1 DEF Holder
  <1>8. TypeOK'
    BY <1>1, <1>3, <1>4, <1>6, <1>7 DEF TypeOK
  <1>9. Holder'
    BY <1>1, <1>5, <1>6, <1>7 DEF Holder
  <1>10. LatestModel' = LatestModel
    BY <1>1 DEF LatestModel
  <1>11. BeforeIsLatest'
    BY <1>5, <1>6, <1>10 DEF BeforeIsLatest
  <1> QED
    BY <1>1, <1>4, <1>8, <1>9, <1>10, <1>11 DEF PatchesAtHand, Rising, VersionsRise

LEMMA ControlNext ==
  ASSUME Control, Rising, [Next]_vars
  PROVE  Control' /\ Rising'
  <1> USE DEF Control
  <1>1. ASSUME NEW r \in Requests, Ingest(r) PROVE Control' /\ Rising'
    <2>1. UNCHANGED << lock, req, rows, approved >>
      BY <1>1 DEF Ingest
    <2>2. /\ thread' \in Thread /\ ~ thread'.paused
          /\ thread'.next = "apply_patches" => thread'.patches \in PatchSet
      <3>1. thread \in Thread /\ ~ thread.paused
        BY <1>1 DEF Ingest, TypeOK
      <3>2. CASE \E kind \in {"plain", "gated", "mixed"}, bump \in Bumps :
                   thread' = [thread EXCEPT !.next = "apply_patches",
                                            !.patches = [of |-> r, kind |-> kind, bump |-> bump]]
        <4>1. PICK p \in PatchSet :
                thread' = [thread EXCEPT !.next = "apply_patches", !.patches = p]
          BY <3>2 DEF PatchSet
        <4> QED  BY <3>1, <4>1 DEF Thread
      <3>3. CASE thread' = [thread EXCEPT !.next = "end", !.patches = None]
        BY <3>1, <3>3 DEF Thread
      <3> QED  BY <1>1, <3>2, <3>3 DEF Ingest
    <2> QED  BY <2>1, <2>2, ControlRun DEF TypeOK
  <1>2. ASSUME NEW r \in Requests, ApplyUngated(r) PROVE Control' /\ Rising'
    <2>1. UNCHANGED << lock, req, rows, approved >> /\ thread' = Applied(FALSE)
          /\ thread.patches \in PatchSet
      BY <1>2 DEF ApplyUngated, PatchesAtHand
    <2> QED  BY <2>1, AppliedIsThread, ControlRun DEF TypeOK
  <1>3. ASSUME NEW r \in Requests, Interrupt(r) PROVE Control' /\ Rising'
    <2>1. /\ UNCHANGED << lock, req, rows, approved >>
          /\ thread.next = "apply_patches" /\ thread.patches \in PatchSet
          /\ thread' = [thread EXCEPT !.paused = TRUE]
      BY <1>3 DEF Interrupt, PatchesAtHand
    <2>2. thread' \in Thread /\ thread'.next = "apply_patches" /\ thread'.patches = thread.patches
      BY <2>1 DEF TypeOK, Thread
    <2> QED  BY <2>1, <2>2, ControlRun DEF TypeOK
  <1>4. ASSUME NEW r \in Requests, Resume(r) PROVE Control' /\ Rising'
    <2>1. /\ UNCHANGED << lock, req, rows >> /\ thread' = Applied(BypassConfirmation(r))
          /\ thread.paused /\ thread.patches \in PatchSet
          /\ approved' \in {approved, approved \cup {thread.patches.of}}
      BY <1>4 DEF Resume, PatchesAtHand, TypeOK
    <2>2. BypassConfirmation(r) \in BOOLEAN
      BY DEF BypassConfirmation, TypeOK, Request
    <2>3. approved' \subseteq Requests
      BY <2>1 DEF PatchSet, TypeOK
    <2>4. /\ thread' \in Thread /\ thread'.next = "gap_analysis" /\ ~ thread'.paused
      BY <2>1, <2>2, AppliedIsThread
    <2> QED  BY <2>1, <2>3, <2>4, ControlRun
  <1>5. ASSUME NEW r \in Requests, RestOfGraph(r) PROVE Control' /\ Rising'
    <2>1. /\ UNCHANGED << lock, req, rows, approved >>
          /\ thread' = [thread EXCEPT !.next = "end"] /\ ~ thread.paused
      BY <1>5 DEF RestOfGraph, TypeOK
    <2>2. thread' \in Thread /\ thread'.next = "end" /\ ~ thread'.paused
      BY <2>1 DEF TypeOK, Thread
    <2> QED  BY <2>1, <2>2, ControlRun DEF TypeOK
  <1>6. ASSUME NEW r \in Requests, EndStream(r) \/ EndTurn(r) PROVE Control' /\ Rising'
    <2>1. req[r].at = "running" /\ req[r].before = LatestModel /\ thread.model \in Model
      BY <1>6 DEF EndStream, EndTurn, Running, BeforeIsLatest, TypeOK, Thread
    <2>2. rows' = rows \/ \E m \in Model : rows' = Saved(m, LatestModel)
      BY <1>6, <2>1 DEF EndStream, EndTurn
    <2> QED  BY <1>6, <2>1, <2>2, ControlLeave DEF EndStream, EndTurn
  <1>7. ASSUME NEW r \in Requests, Import(r) PROVE Control' /\ Rising'
    <2>1. PICK bump \in Bumps :
            rows' = Saved(Patched(LatestModel, [of |-> r, kind |-> "plain", bump |-> bump], FALSE),
                          LatestModel)
      BY <1>7 DEF Import
    <2>2. [of |-> r, kind |-> "plain", bump |-> bump] \in PatchSet
      BY DEF PatchSet
    <2>3. LatestModel \in Model
      BY LatestIsModel DEF TypeOK
    <2>4. Patched(LatestModel, [of |-> r, kind |-> "plain", bump |-> bump], FALSE) \in Model
      BY <2>2, <2>3, PatchedIsModel
    <2> QED  BY <1>7, <2>1, <2>4, ControlLeave DEF Import
  <1>8. ASSUME NEW r \in Requests, Die(r) PROVE Control' /\ Rising'
    BY <1>8, ControlLeave DEF Die
  <1>9. CASE UNCHANGED vars
    BY <1>9
    DEF vars, TypeOK, Holder, BeforeIsLatest, PatchesAtHand, Rising, VersionsRise, LatestModel
  <1> QED
    BY <1>1, <1>2, <1>3, <1>4, <1>5, <1>6, <1>7, <1>8, <1>9, ControlAcquire, ControlStartRun
    DEF Next, Step

LEMMA ControlInvariant == Spec => [](Control /\ Rising)
  BY ControlInit, ControlNext, PTL DEF Spec

(* The variables keep their types; in particular nothing but a pause at    *)
(* apply_patches, with its patches at hand, is taken for a pause.          *)
THEOREM TypeCorrect == Spec => []TypeOK
  BY ControlInvariant, PTL DEF Control

(* No run, however long it was paused and whatever was imported meanwhile, *)
(* brings back an older model: each saved model is newer than all before.  *)
THEOREM ModelsRise == Spec => []VersionsRise
  BY ControlInvariant, PTL DEF Rising

-----------------------------------------------------------------------------
(* What a model was made of.                                               *)

(* The requests that have read their message, or never will again.         *)
Seen ==
  {q \in Requests : req[q].at = "done" \/ (req[q].at = "running" /\ thread.next # "ingest")}

(* The history of m: of the requests in S, each once, and what needed a    *)
(* confirmation is of those in A.                                          *)
Made(m, A, S) ==
  /\ \A j, k \in DOMAIN m.changes : m.changes[j].of = m.changes[k].of => j = k
  /\ \A j \in DOMAIN m.changes : m.changes[j].of \in S
  /\ \A j \in DOMAIN m.changes : m.changes[j].gated => m.changes[j].of \in A

UsedBy(q, m) == \E j \in DOMAIN m.changes : m.changes[j].of = q

(* Patches that wait to be applied are of a turn that is not yet part of   *)
(* the model they will change.                                             *)
History ==
  /\ \A i \in DOMAIN rows : Made(rows[i], approved, Seen)
  /\ Made(thread.model, approved, Seen)
  /\ thread.next = "apply_patches" =>
       thread.patches.of \in Seen /\ ~ UsedBy(thread.patches.of, thread.model)

LEMMA MadeGrows ==
  ASSUME NEW m, NEW A, NEW B, NEW S, NEW T, Made(m, A, S), A \subseteq B, S \subseteq T
  PROVE  Made(m, B, T)
  BY DEF Made

LEMMA MadePatched ==
  ASSUME NEW m \in Model, NEW p \in PatchSet, NEW bypass \in BOOLEAN, NEW A, NEW S,
         Made(m, A, S), p.of \in S, ~ UsedBy(p.of, m), bypass => p.of \in A
  PROVE  Made(Patched(m, p, bypass), A, S)
  <1> DEFINE change == [of |-> p.of, gated |-> bypass /\ Pending(p)]
             new == Patched(m, p, bypass)
  <1>1. CASE new.changes = m.changes
    BY <1>1 DEF Made
  <1>2. CASE new.changes = Append(m.changes, change)
    <2>1. m.changes \in Seq(Change)
      BY DEF Model
    <2>2. change.of = p.of /\ (change.gated => p.of \in A)
      OBVIOUS
    <2> HIDE DEF change, new
    <2>3. /\ DOMAIN new.changes = 1 .. Len(m.changes) + 1 /\ DOMAIN m.changes = 1 .. Len(m.changes)
          /\ \A j \in DOMAIN m.changes : new.changes[j] = m.changes[j]
          /\ new.changes[Len(m.changes) + 1] = change
          /\ Len(m.changes) \in Nat
      BY <1>2, <2>1
    <2>4. \A j \in DOMAIN new.changes : j \in DOMAIN m.changes \/ j = Len(m.changes) + 1
      BY <2>3
    <2>5. \A j \in DOMAIN m.changes : m.changes[j].of # p.of
      BY DEF UsedBy
    <2>6. \A j, k \in DOMAIN new.changes : new.changes[j].of = new.changes[k].of => j = k
      BY <2>2, <2>3, <2>4, <2>5 DEF Made
    <2>7. \A j \in DOMAIN new.changes : new.changes[j].of \in S
      BY <2>2, <2>3, <2>4 DEF Made
    <2>8. \A j \in DOMAIN new.changes : new.changes[j].gated => new.changes[j].of \in A
      BY <2>2, <2>3, <2>4 DEF Made
    <2>9. Made(new, A, S)
      BY <2>6, <2>7, <2>8 DEF Made
    <2> QED  BY <2>9 DEF new
  <1>3. new = [version |-> m.version + p.bump, changes |-> Append(m.changes, change)] \/ new = m
    BY DEF Patched
  <1> QED
    <2> HIDE DEF change
    <2> QED  BY <1>1, <1>2, <1>3

LEMMA LatestMade ==
  ASSUME rows \in Seq(Model), History
  PROVE  Made(LatestModel, approved, Seen)
  <1>1. CASE rows = << >>
    BY <1>1 DEF LatestModel, NewModel, Made
  <1>2. CASE rows # << >>
    <2>1. LatestModel = rows[Len(rows)] /\ Len(rows) \in DOMAIN rows
      BY <1>2 DEF LatestModel, Last
    <2> QED  BY <2>1 DEF History
  <1> QED  BY <1>1, <1>2

(* Whoever has read its message has done so for good.                      *)
LEMMA SeenGrows ==
  ASSUME Control, [Next]_vars
  PROVE  Seen \subseteq Seen' /\ approved \subseteq approved'
  <1> USE DEF Control
  <1>1. ASSUME NEW r \in Requests, Acquire(r) PROVE Seen \subseteq Seen' /\ approved' = approved
    <2>1. req[r].at = "new" /\ thread' = thread /\ approved' = approved
      BY <1>1 DEF Acquire
    <2>2. \A q \in Requests : q # r => req'[q] = req[q]
      BY <1>1 DEF Acquire, TypeOK
    <2> QED  BY <2>1, <2>2 DEF Seen
  <1>2. ASSUME NEW r \in Requests, StartRun(r) PROVE Seen \subseteq Seen' /\ approved' = approved
    <2>1. req[r].at = "locked" /\ approved' = approved
      BY <1>2 DEF StartRun
    <2>2. \A q \in Requests : q # r => req'[q] = req[q] /\ req[q].at # "running"
      BY <1>2, <2>1 DEF StartRun, TypeOK, Holder
    <2> QED  BY <2>1, <2>2 DEF Seen
  <1>3. ASSUME NEW r \in Requests,
               Ingest(r) \/ ApplyUngated(r) \/ Interrupt(r) \/ Resume(r) \/ RestOfGraph(r)
        PROVE  Seen \subseteq Seen' /\ approved \subseteq approved'
    <2>1. req' = req /\ approved \subseteq approved'
      BY <1>3 DEF Ingest, ApplyUngated, Interrupt, Resume, RestOfGraph
    <2>2. thread'.next = "ingest" => thread.next = "ingest"
      BY <1>3 DEF Ingest, ApplyUngated, Interrupt, Resume, RestOfGraph, Applied, TypeOK, Thread
    <2> QED  BY <2>1, <2>2 DEF Seen
  <1>4. ASSUME NEW r \in Requests, EndStream(r) \/ EndTurn(r) \/ Import(r) \/ Die(r)
        PROVE  Seen \subseteq Seen' /\ approved' = approved
    <2>1. Leave(r)
      BY <1>4 DEF EndStream, EndTurn, Import, Die
    <2>2. thread' = thread /\ approved' = approved
      BY <2>1 DEF Leave
    <2>3. \A q \in Requests : req'[q].at = IF q = r THEN "done" ELSE req[q].at
      BY <2>1 DEF Leave, TypeOK, Request
    <2> QED  BY <2>2, <2>3 DEF Seen
  <1>5. CASE UNCHANGED vars
    BY <1>5 DEF vars, Seen
  <1> QED  BY <1>1, <1>2, <1>3, <1>4, <1>5 DEF Next, Step

LEMMA HistoryInit == Init => History
  BY DEF Init, History, Made, NewModel

(* A step whose thread keeps its model and waits for no other patches.     *)
LEMMA HistoryKept ==
  ASSUME Control, History, [Next]_vars, rows' = rows, thread'.model = thread.model,
         thread'.next = "apply_patches" =>
           thread.next = "apply_patches" /\ thread'.patches = thread.patches
  PROVE  History'
  <1>1. Seen \subseteq Seen' /\ approved \subseteq approved'
    BY SeenGrows
  <1>2. \A i \in DOMAIN rows : Made(rows[i], approved', Seen')
    BY <1>1, MadeGrows DEF History
  <1>3. Made(thread.model, approved', Seen')
    BY <1>1, MadeGrows DEF History
  <1> QED  BY <1>1, <1>2, <1>3 DEF History, UsedBy

(* A step that applies what is pending.                                    *)
LEMMA HistoryApplied ==
  ASSUME Control, History, [Next]_vars, rows' = rows, thread.next = "apply_patches",
         NEW bypass \in BOOLEAN, thread' = Applied(bypass),
         bypass => thread.patches.of \in approved'
  PROVE  History'
  <1>1. Seen \subseteq Seen' /\ approved \subseteq approved'
    BY SeenGrows
  <1>2. \A i \in DOMAIN rows : Made(rows[i], approved', Seen')
    BY <1>1, MadeGrows DEF History
  <1>3. thread.patches \in PatchSet /\ thread.model \in Model
    BY DEF Control, PatchesAtHand, TypeOK, Thread
  <1>4. Made(thread.model, approved', Seen') /\ thread.patches.of \in Seen'
        /\ ~ UsedBy(thread.patches.of, thread.model)
    BY <1>1, MadeGrows DEF History
  <1>5. Made(Patched(thread.model, thread.patches, bypass), approved', Seen')
    BY <1>3, <1>4, MadePatched
  <1>6. thread'.model = Patched(thread.model, thread.patches, bypass)
        /\ thread'.next = "gap_analysis"
    BY <1>3, AppliedIsThread DEF Control
  <1> QED  BY <1>2, <1>5, <1>6 DEF History

(* A step that saves a model of a known history.                           *)
LEMMA HistorySaved ==
  ASSUME Control, Rising, History, [Next]_vars, thread' = thread, NEW m \in Model,
         Made(m, approved', Seen'), rows' = rows \/ rows' = Saved(m, LatestModel)
  PROVE  History'
  <1>1. Seen \subseteq Seen' /\ approved \subseteq approved'
    BY SeenGrows
  <1>2. \A i \in DOMAIN rows : Made(rows[i], approved', Seen')
    BY <1>1, MadeGrows DEF History
  <1>3. \A i \in DOMAIN rows' : rows'[i] = m \/ \E j \in DOMAIN rows : rows'[i] = rows[j]
    BY SavedRows DEF Control, TypeOK
  <1>4. \A i \in DOMAIN rows' : Made(rows'[i], approved', Seen')
    BY <1>2, <1>3
  <1>5. Made(thread.model, approved', Seen')
    BY <1>1, MadeGrows DEF History
  <1> QED  BY <1>1, <1>4, <1>5 DEF History, UsedBy

LEMMA HistoryNext ==
  ASSUME Control, Rising, History, [Next]_vars
  PROVE  History'
  <1> USE DEF Control
  <1>1. ASSUME NEW r \in Requests, Acquire(r) PROVE History'
    BY <1>1, HistoryKept DEF Acquire
  <1>2. ASSUME NEW r \in Requests, StartRun(r) PROVE History'
    <2>1. rows' = rows /\ approved' = approved /\ thread' \in Started(req[r].kind)
      BY <1>2 DEF StartRun
    <2>2. CASE thread' = thread
      BY <2>1, <2>2, HistoryKept
    <2>3. CASE thread' = Seeded
      <3>1. thread'.next = "ingest" /\ thread'.model = LatestModel
        BY <2>3 DEF Seeded, TypeOK, Thread
      <3>2. Made(LatestModel, approved, Seen)
        BY LatestMade DEF TypeOK
      <3>3. Seen \subseteq Seen'
        BY SeenGrows
      <3>4. Made(LatestModel, approved, Seen') /\ \A i \in DOMAIN rows : Made(rows[i], approved, Seen')
        BY <3>2, <3>3, MadeGrows DEF History
      <3> QED  BY <2>1, <3>1, <3>4 DEF History
    <2> QED  BY <2>1, <2>2, <2>3 DEF Started
  <1>3. ASSUME NEW r \in Requests, Ingest(r) PROVE History'
    <2>1. /\ UNCHANGED << req, rows, approved >> /\ req[r].at = "running"
          /\ thread.next = "ingest" /\ thread'.model = thread.model
      BY <1>3 DEF Ingest, Running, TypeOK, Thread
    <2>2. CASE thread'.next = "apply_patches"
      <3>1. thread'.patches.of = r
        <4>1. thread \in Thread
          BY DEF TypeOK
        <4>2. thread' # [thread EXCEPT !.next = "end", !.patches = None]
          BY <2>2, <4>1 DEF Thread
        <4>3. PICK p : p.of = r /\ thread' = [thread EXCEPT !.next = "apply_patches", !.patches = p]
          BY <1>3, <4>2 DEF Ingest
        <4> QED  BY <4>1, <4>3 DEF Thread
      <3>2. r \notin Seen /\ r \in Seen'
        BY <2>1, <2>2 DEF Seen
      <3>3. ~ UsedBy(r, thread.model)
        BY <3>2 DEF History, Made, UsedBy
      <3>4. Seen \subseteq Seen'
        BY SeenGrows
      <3>5. Made(thread.model, approved, Seen') /\ \A i \in DOMAIN rows : Made(rows[i], approved, Seen')
        BY <3>4, MadeGrows DEF History
      <3> QED  BY <2>1, <3>1, <3>2, <3>3, <3>5 DEF History, UsedBy
    <2>3. CASE thread'.next # "apply_patches"
      BY <2>1, <2>3, HistoryKept
    <2> QED  BY <2>2, <2>3
  <1>4. ASSUME NEW r \in Requests, ApplyUngated(r) PROVE History'
    BY <1>4, HistoryApplied DEF ApplyUngated
  <1>5. ASSUME NEW r \in Requests, Interrupt(r) PROVE History'
    <2>1. rows' = rows /\ thread' = [thread EXCEPT !.paused = TRUE] /\ thread.next = "apply_patches"
      BY <1>5 DEF Interrupt
    <2>2. thread'.model = thread.model /\ thread'.patches = thread.patches
      BY <2>1 DEF TypeOK, Thread
    <2> QED  BY <2>1, <2>2, HistoryKept
  <1>6. ASSUME NEW r \in Requests, Resume(r) PROVE History'
    <2>1. /\ rows' = rows /\ thread.next = "apply_patches"
          /\ thread' = Applied(BypassConfirmation(r))
          /\ req[r].decision => thread.patches.of \in approved'
      BY <1>6 DEF Resume, TypeOK
    <2>2. BypassConfirmation(r) \in BOOLEAN /\ (BypassConfirmation(r) => req[r].decision)
      BY DEF BypassConfirmation, TypeOK, Request
    <2> QED  BY <2>1, <2>2, HistoryApplied
  <1>7. ASSUME NEW r \in Requests, RestOfGraph(r) PROVE History'
    <2>1. rows' = rows /\ thread' = [thread EXCEPT !.next = "end"]
      BY <1>7 DEF RestOfGraph
    <2>2. thread'.model = thread.model /\ thread'.next = "end"
      BY <2>1 DEF TypeOK, Thread
    <2> QED  BY <2>1, <2>2, HistoryKept
  <1>8. ASSUME NEW r \in Requests, EndStream(r) \/ EndTurn(r) PROVE History'
    <2>1. req[r].before = LatestModel /\ thread.model \in Model
      BY <1>8 DEF EndStream, EndTurn, Running, BeforeIsLatest, TypeOK, Thread
    <2>2. rows' = rows \/ rows' = Saved(thread.model, LatestModel)
      BY <1>8, <2>1 DEF EndStream, EndTurn
    <2>3. thread' = thread
      BY <1>8 DEF EndStream, EndTurn, Leave
    <2>4. Made(thread.model, approved', Seen')
      BY SeenGrows, MadeGrows DEF History
    <2> QED  BY <2>1, <2>2, <2>3, <2>4, HistorySaved
  <1>9. ASSUME NEW r \in Requests, Import(r) PROVE History'
    <2>1. PICK bump \in Bumps :
            rows' = Saved(Patched(LatestModel, [of |-> r, kind |-> "plain", bump |-> bump], FALSE),
                          LatestModel)
      BY <1>9 DEF Import
    <2> DEFINE p == [of |-> r, kind |-> "plain", bump |-> bump]
    <2>2. p \in PatchSet /\ p.of = r
      BY DEF PatchSet
    <2>3. LatestModel \in Model /\ Made(LatestModel, approved, Seen)
      BY LatestIsModel, LatestMade DEF TypeOK
    <2>4. req[r].at = "locked" /\ Leave(r) /\ thread' = thread /\ approved' = approved
      BY <1>9 DEF Import, Leave
    <2>5. r \notin Seen
      BY <2>4 DEF Seen
    <2>6. r \in Seen'
      BY <2>4 DEF Seen, Leave, TypeOK, Request
    <2>7. ~ UsedBy(r, LatestModel)
      BY <2>3, <2>5 DEF Made, UsedBy
    <2>8. Made(LatestModel, approved', Seen')
      BY <2>3, <2>4, SeenGrows, MadeGrows
    <2> HIDE DEF p
    <2>9. Made(Patched(LatestModel, p, FALSE), approved', Seen') /\ Patched(LatestModel, p, FALSE) \in Model
      BY <2>2, <2>3, <2>6, <2>7, <2>8, MadePatched, PatchedIsModel
    <2>10. rows' = Saved(Patched(LatestModel, p, FALSE), LatestModel)
      BY <2>1 DEF p
    <2> QED  BY <2>4, <2>9, <2>10, HistorySaved
  <1>10. ASSUME NEW r \in Requests, Die(r) PROVE History'
    <2>1. rows' = rows /\ thread' = thread
      BY <1>10 DEF Die, Leave
    <2> QED  BY <2>1, HistoryKept
  <1>11. CASE UNCHANGED vars
    BY <1>11, HistoryKept DEF vars
  <1> QED
    BY <1>1, <1>2, <1>3, <1>4, <1>5, <1>6, <1>7, <1>8, <1>9, <1>10, <1>11 DEF Next, Step

LEMMA HistoryInvariant == Spec => []History
  <1>1. Init => History
    BY HistoryInit
  <1>2. Control /\ Rising /\ History /\ [Next]_vars => History'
    BY HistoryNext
  <1> QED  BY <1>1, <1>2, ControlInvariant, PTL DEF Spec

(* No saved model has a change that needs a confirmation, unless the user  *)
(* approved that turn while it was paused: for any number of requests.     *)
THEOREM NothingUnapproved == Spec => []UnapprovedNotKept
  <1>1. History => UnapprovedNotKept
    BY DEF History, Made, UnapprovedNotKept
  <1> QED  BY <1>1, HistoryInvariant, PTL

(* No saved model has the patches of a turn twice, however often it was    *)
(* resumed, superseded or found at its end again.                          *)
THEOREM PatchesOnce == Spec => []AppliedOnce
  <1>1. History => AppliedOnce
    BY DEF History, Made, AppliedOnce
  <1> QED  BY <1>1, HistoryInvariant, PTL

-----------------------------------------------------------------------------
(* Who may lose a change.                                                  *)

Within(m, n) == ToSet(m.changes) \subseteq ToSet(n.changes)

(* A run that reads its message has every change of the newest model; only *)
(* patches that need a confirmation pause one.                             *)
FromNewest ==
  /\ thread.paused => Pending(thread.patches)
  /\ \A r \in Requests : req[r].at = "running" /\ req[r].kind \in {"fresh", "message"} =>
       Within(LatestModel, thread.model) \/ (req[r].kind = "fresh" /\ thread.paused)

LEMMA PatchedKeeps ==
  ASSUME NEW m \in Model, NEW p, NEW bypass
  PROVE  Within(m, Patched(m, p, bypass))
  <1> DEFINE change == [of |-> p.of, gated |-> bypass /\ Pending(p)]
             new == Patched(m, p, bypass)
  <1>1. m.changes \in Seq(Change)
    BY DEF Model
  <1>2. new.changes = Append(m.changes, change) \/ new = m
    BY DEF Patched
  <1> HIDE DEF change, new
  <1>3. CASE new.changes = Append(m.changes, change)
    <2>1. \A i \in DOMAIN m.changes : i \in DOMAIN new.changes /\ new.changes[i] = m.changes[i]
      BY <1>1, <1>3
    <2> QED  BY <2>1 DEF Within, ToSet, new
  <1>4. CASE new = m
    BY <1>4 DEF Within, new
  <1> QED  BY <1>2, <1>3, <1>4

LEMMA FromNewestApplied ==
  ASSUME Control, FromNewest, thread.next = "apply_patches", UNCHANGED << req, rows >>,
         NEW bypass \in BOOLEAN, thread' = Applied(bypass),
         \A r \in Requests : req[r].at = "running" /\ req[r].kind = "fresh" => ~ thread.paused
  PROVE  FromNewest'
  <1>1. thread.patches \in PatchSet /\ thread.model \in Model
    BY DEF Control, PatchesAtHand, TypeOK, Thread
  <1>2. thread'.model = Patched(thread.model, thread.patches, bypass) /\ ~ thread'.paused
    BY <1>1, AppliedIsThread DEF Control
  <1>3. Within(thread.model, thread'.model)
    BY <1>1, <1>2, PatchedKeeps
  <1>4. LatestModel' = LatestModel
    BY DEF LatestModel
  <1> QED  BY <1>2, <1>3, <1>4 DEF FromNewest, Within

(* A request that is under way is the only one.                            *)
LEMMA Alone ==
  ASSUME Control, NEW r \in Requests, req[r].at \in {"locked", "running"},
         NEW q \in Requests, q # r
  PROVE  req[q].at \notin {"locked", "running"}
  BY DEF Control, Holder

LEMMA FromNewestNext ==
  ASSUME Control, FromNewest, [Next]_vars
  PROVE  FromNewest'
  <1> USE DEF Control
  <1>1. ASSUME NEW r \in Requests, Acquire(r) PROVE FromNewest'
    <2>1. /\ UNCHANGED << rows, thread >> /\ lock' = r /\ lock = None
      BY <1>1 DEF Acquire
    <2>2. \A q \in Requests : req'[q].at # "running"
      <3>1. \A q \in Requests : req[q].at # "running"
        BY <2>1, AgUiAssumption DEF Holder
      <3>2. \A q \in Requests : q # r => req'[q] = req[q]
        BY <1>1 DEF Acquire, TypeOK
      <3>3. req'[r].at = "locked"
        <4>1. PICK kind, decision :
                req' = [req EXCEPT ![r].kind = kind, ![r].decision = decision, ![r].at = "locked"]
          BY <1>1 DEF Acquire
        <4>2. req[r] \in Request /\ r \in DOMAIN req
          BY DEF TypeOK
        <4>3. req'[r] = [req[r] EXCEPT !.kind = kind, !.decision = decision, !.at = "locked"]
          BY <4>1, <4>2
        <4> QED  BY <4>2, <4>3 DEF Request
      <3> QED  BY <3>1, <3>2, <3>3
    <2> QED  BY <2>1, <2>2 DEF FromNewest
  <1>2. ASSUME NEW r \in Requests, StartRun(r) PROVE FromNewest'
    <2>1. /\ rows' = rows /\ thread' \in Started(req[r].kind) /\ req[r].at = "locked"
          /\ req' = [req EXCEPT ![r].at = "running", ![r].before = LatestModel]
      BY <1>2 DEF StartRun, ModelBefore
    <2>2. /\ \A q \in Requests : q # r => req'[q].at # "running"
          /\ req'[r].kind = req[r].kind
      BY <2>1, Alone DEF TypeOK, Request
    <2>3. LatestModel' = LatestModel
      BY <2>1 DEF LatestModel
    <2>4. CASE thread' # Seeded
      <3>1. thread' = thread /\ req[r].kind # "message" /\ (req[r].kind = "fresh" => thread.paused)
        BY <1>2, <2>1, <2>4 DEF Started, StartRun, TypeOK, Request, Kinds
      <3> QED  BY <2>2, <2>4, <3>1 DEF FromNewest
    <2>5. CASE thread' = Seeded
      <3>1. thread'.model = LatestModel /\ ~ thread'.paused
        BY <2>5 DEF Seeded, TypeOK, Thread
      <3> QED  BY <2>2, <2>3, <3>1 DEF FromNewest, Within
    <2> QED  BY <2>1, <2>4, <2>5 DEF Started
  <1>3. ASSUME NEW r \in Requests, Ingest(r) PROVE FromNewest'
    <2>1. /\ UNCHANGED << req, rows >> /\ ~ thread.paused
          /\ thread'.model = thread.model /\ ~ thread'.paused
      BY <1>3 DEF Ingest, TypeOK, Thread
    <2>2. LatestModel' = LatestModel
      BY <2>1 DEF LatestModel
    <2> QED  BY <2>1, <2>2 DEF FromNewest, Within
  <1>4. ASSUME NEW r \in Requests, ApplyUngated(r) PROVE FromNewest'
    BY <1>4, FromNewestApplied DEF ApplyUngated, FromNewest
  <1>5. ASSUME NEW r \in Requests, Interrupt(r) PROVE FromNewest'
    <2>1. /\ UNCHANGED << req, rows >> /\ Pending(thread.patches)
          /\ thread' = [thread EXCEPT !.paused = TRUE] /\ ~ thread.paused
      BY <1>5 DEF Interrupt
    <2>2. thread'.model = thread.model /\ thread'.patches = thread.patches
      BY <2>1 DEF TypeOK, Thread
    <2>3. LatestModel' = LatestModel
      BY <2>1 DEF LatestModel
    <2> QED  BY <2>1, <2>2, <2>3 DEF FromNewest, Within, Pending
  <1>6. ASSUME NEW r \in Requests, Resume(r) PROVE FromNewest'
    <2>1. /\ UNCHANGED << req, rows >> /\ thread.next = "apply_patches"
          /\ thread' = Applied(BypassConfirmation(r))
          /\ req[r].kind # "fresh" /\ req[r].at = "running"
      BY <1>6 DEF Resume, Running, TypeOK
    <2>2. BypassConfirmation(r) \in BOOLEAN
      BY DEF BypassConfirmation, TypeOK, Request
    <2>3. \A q \in Requests : req[q].at = "running" /\ req[q].kind = "fresh" => ~ thread.paused
      BY <2>1, Alone
    <2> QED  BY <2>1, <2>2, <2>3, FromNewestApplied
  <1>7. ASSUME NEW r \in Requests, RestOfGraph(r) PROVE FromNewest'
    <2>1. UNCHANGED << req, rows >> /\ thread' = [thread EXCEPT !.next = "end"] /\ ~ thread.paused
      BY <1>7 DEF RestOfGraph, TypeOK
    <2>2. thread'.model = thread.model /\ ~ thread'.paused
      BY <2>1 DEF TypeOK, Thread
    <2>3. LatestModel' = LatestModel
      BY <2>1 DEF LatestModel
    <2> QED  BY <2>1, <2>2, <2>3 DEF FromNewest, Within
  <1>8. ASSUME NEW r \in Requests, EndStream(r) \/ EndTurn(r) \/ Import(r) \/ Die(r)
        PROVE  FromNewest'
    <2>1. Leave(r) /\ thread' = thread /\ req[r].at \in {"locked", "running"}
      BY <1>8 DEF EndStream, EndTurn, Import, Die, Leave, Running
    <2>2. \A q \in Requests : req'[q].at = IF q = r THEN "done" ELSE req[q].at
      BY <2>1 DEF Leave, TypeOK, Request
    <2>3. \A q \in Requests : req'[q].at # "running"
      BY <2>1, <2>2, Alone
    <2> QED  BY <2>1, <2>3 DEF FromNewest
  <1>9. CASE UNCHANGED vars
    BY <1>9 DEF vars, FromNewest, LatestModel
  <1> QED
    BY <1>1, <1>2, <1>3, <1>4, <1>5, <1>6, <1>7, <1>8, <1>9 DEF Next, Step

LEMMA FromNewestInvariant == Spec => []FromNewest
  <1>1. Init => FromNewest
    BY DEF Init, FromNewest
  <1> QED  BY <1>1, FromNewestNext, ControlInvariant, PTL DEF Spec

(* The newest model after m may have been saved.                           *)
LEMMA LatestSaved ==
  ASSUME rows \in Seq(Model), NEW m \in Model, rows' = Saved(m, LatestModel)
  PROVE  LatestModel' \in {LatestModel, m}
  <1>1. CASE rows' = rows
    BY <1>1 DEF LatestModel
  <1>2. CASE rows' = Append(rows, m)
    <2>1. rows' # << >> /\ rows'[Len(rows')] = m
      BY <1>2
    <2> QED  BY <2>1 DEF LatestModel, Last
  <1> QED  BY <1>1, <1>2 DEF Saved

(* Only resumed runs lose changes that were saved: every other request     *)
(* saves a model with all the changes of the newest one.                   *)
THEOREM OthersLoseNothing == Spec => OnlyResumedRunsLose
  <1>1. Control /\ FromNewest /\ [Next]_vars =>
          [\/ ToSet(LatestModel.changes) \subseteq ToSet((LatestModel').changes)
           \/ \E r \in Requests : lock = r /\ req[r].kind = "resume"]_vars
    <2> SUFFICES ASSUME Control, FromNewest, [Next]_vars,
                        ~ \E r \in Requests : lock = r /\ req[r].kind = "resume"
                 PROVE  Within(LatestModel, LatestModel')
      BY DEF Within
    <2> USE DEF Control
    <2>1. CASE rows' = rows
      BY <2>1 DEF Within, LatestModel
    <2>2. ASSUME NEW r \in Requests, EndStream(r) \/ EndTurn(r)
          PROVE  Within(LatestModel, LatestModel')
      <3>1. /\ req[r].at = "running" /\ req[r].kind \in {"fresh", "message"}
            /\ req[r].before = LatestModel
        BY <2>2 DEF EndStream, EndTurn, Running, Holder, BeforeIsLatest
      <3>2. CASE thread.next = "end"
        <4>1. rows' = Saved(thread.model, LatestModel)
          BY <2>2, <3>1, <3>2 DEF EndStream, EndTurn
        <4>2. ~ thread.paused /\ thread.model \in Model /\ rows \in Seq(Model)
          BY <3>2 DEF TypeOK, Thread
        <4>3. Within(LatestModel, thread.model)
          BY <3>1, <4>2 DEF FromNewest
        <4> QED  BY <4>1, <4>2, <4>3, LatestSaved DEF Within
      <3>3. CASE thread.next # "end"
        BY <2>1, <2>2, <3>3 DEF EndStream, EndTurn
      <3> QED  BY <3>2, <3>3
    <2>3. ASSUME NEW r \in Requests, Import(r)
          PROVE  Within(LatestModel, LatestModel')
      <3>1. PICK bump \in Bumps :
              rows' = Saved(Patched(LatestModel, [of |-> r, kind |-> "plain", bump |-> bump], FALSE),
                            LatestModel)
        BY <2>3 DEF Import
      <3> DEFINE p == [of |-> r, kind |-> "plain", bump |-> bump]
                 m == Patched(LatestModel, p, FALSE)
      <3>2. p \in PatchSet /\ LatestModel \in Model /\ rows \in Seq(Model)
        BY LatestIsModel DEF PatchSet, TypeOK
      <3> HIDE DEF p
      <3>3. m \in Model /\ Within(LatestModel, m)
        BY <3>2, PatchedIsModel, PatchedKeeps
      <3>4. rows' = Saved(m, LatestModel)
        BY <3>1 DEF p
      <3> HIDE DEF m
      <3> QED  BY <3>2, <3>3, <3>4, LatestSaved DEF Within
    <2>4. rows' = rows \/ \E r \in Requests : EndStream(r) \/ EndTurn(r) \/ Import(r)
      BY DEF Next, Step, Acquire, StartRun, Ingest, ApplyUngated, Interrupt, Resume, RestOfGraph,
             Die, vars
    <2> QED  BY <2>1, <2>2, <2>3, <2>4
  <1> QED  BY <1>1, ControlInvariant, FromNewestInvariant, PTL DEF Spec, OnlyResumedRunsLose

=============================================================================
