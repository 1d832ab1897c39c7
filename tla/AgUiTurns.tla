------------------------------ MODULE AgUiTurns ------------------------------
(***************************************************************************)
(* Discovery turns of one session by its two endpoints: ag_ui.py, where a  *)
(* patch that needs a confirmation pauses the run until another request    *)
(* brings the decision, and POST /messages, which declines at once; and    *)
(* the imports, which change the model while a run is paused.  All of them *)
(* take the turn lock, which a paused run does not hold.                   *)
(***************************************************************************)
EXTENDS Naturals, Sequences, SequencesExt

CONSTANTS
  None,       \* Python's None
  Requests,   \* the requests of the session, each served once
  Bumps       \* bound: the versions a patch set may add to a model

ASSUME AgUiAssumption == None \notin Requests /\ Bumps \subseteq Nat \ {0}

VARIABLES
  lock,      \* the request that holds the turn lock, or None
  req,       \* what each request is and where it is
  rows,      \* the model versions, the newest last
  thread,    \* the checkpoint of the LangGraph thread
  approved   \* history: the turns the user approved while they were paused

vars == << lock, req, rows, thread, approved >>

(* Whose patches a model has, and whether those that need a confirmation   *)
(* are among them.                                                         *)
Change == [of : Requests, gated : BOOLEAN]
Model == [version : Nat \ {0}, changes : Seq(Change)]

(* _patch_set: "mixed" has patches that need a confirmation and others.    *)
PatchSet == [of : Requests, kind : {"plain", "gated", "mixed"}, bump : Bumps]

(* snapshot.next, the values, and whether apply_patches is interrupted.    *)
Thread == [next : {"ingest", "apply_patches", "gap_analysis", "end"}, model : Model,
           patches : PatchSet \cup {None}, paused : BOOLEAN]

Kinds == {"fresh", "resume", "message", "import"}
Request == [kind : Kinds \cup {None}, at : {"new", "locked", "running", "done"},
            decision : BOOLEAN, before : Model \cup {None}]

TypeOK ==
  /\ lock \in {None} \cup {r \in Requests : req[r].at \in {"locked", "running"}}
  /\ req \in [Requests -> Request]
  /\ rows \in Seq(Model)
  /\ thread \in Thread
  /\ thread.paused => thread.next = "apply_patches" /\ thread.patches \in PatchSet
  /\ approved \subseteq Requests

NewModel == [version |-> 1, changes |-> << >>]

Init ==
  /\ lock = None
  /\ req = [r \in Requests |-> [kind |-> None, at |-> "new", decision |-> FALSE, before |-> None]]
  /\ rows = << >>
  /\ thread = [next |-> "end", model |-> NewModel, patches |-> None, paused |-> FALSE]
  /\ approved = {}

-----------------------------------------------------------------------------
LatestModel == IF rows = << >> THEN NewModel ELSE Last(rows)

(* Mutant of the next: a resumed run goes on with what it had read.        *)
CheckpointModel == thread.model

(* model_before.                                                           *)
ModelBefore == LatestModel

(* The start of a request.  A client sends a decision once it has seen a   *)
(* card, and may do so twice.                                              *)
Acquire(r) ==
  /\ req[r].at = "new" /\ lock = None
  /\ \E kind \in Kinds, decision \in BOOLEAN :
       /\ kind # "resume" => ~ decision
       /\ kind = "resume" => thread.paused \/ \E q \in Requests : req[q].kind = "resume"
       /\ req' = [req EXCEPT ![r].kind = kind, ![r].decision = decision, ![r].at = "locked"]
  /\ lock' = r
  /\ UNCHANGED << rows, thread, approved >>

(* Mutant of the next: the graph starts over with what the checkpoint has. *)
Unseeded == [thread EXCEPT !.next = "ingest", !.paused = FALSE]

(* model_before is read under the lock; a new message starts the graph     *)
(* over, with the newest model.  If a run is paused, ag-ui-langgraph may   *)
(* only show its card again.                                               *)
Seeded == [thread EXCEPT !.next = "ingest", !.model = LatestModel, !.paused = FALSE]

Started(kind) ==
  (IF kind = "resume" THEN {thread} ELSE {Seeded})
    \cup (IF kind = "fresh" /\ thread.paused THEN {thread} ELSE {})

StartRun(r) ==
  /\ req[r].at = "locked" /\ req[r].kind # "import"
  /\ req' = [req EXCEPT ![r].at = "running", ![r].before = ModelBefore]
  /\ thread' \in Started(req[r].kind)
  /\ UNCHANGED << lock, rows, approved >>

Running(r) == req[r].at = "running"

(* ingest_node: the patches of the message, or an error that ends the run. *)
Ingest(r) ==
  /\ Running(r) /\ thread.next = "ingest"
  /\ \/ \E kind \in {"plain", "gated", "mixed"}, bump \in Bumps :
          thread' = [thread EXCEPT !.next = "apply_patches",
                                   !.patches = [of |-> r, kind |-> kind, bump |-> bump]]
     \/ thread' = [thread EXCEPT !.next = "end", !.patches = None]
  /\ UNCHANGED << lock, req, rows, approved >>

Pending(p) == p.kind # "plain"

(* apply_patch_set, with or without bypass_confirmation.                   *)
Patched(m, p, bypass) ==
  IF bypass \/ p.kind # "gated"
  THEN [version |-> m.version + p.bump,
        changes |-> Append(m.changes, [of |-> p.of, gated |-> bypass /\ Pending(p)])]
  ELSE m

Applied(bypass) ==
  [thread EXCEPT !.next = "gap_analysis", !.model = Patched(@, thread.patches, bypass),
                 !.patches = None, !.paused = FALSE]

(* apply_patches_node: without a pending patch; up to its interrupt; and   *)
(* again from its top, with the decision.                                  *)
ApplyUngated(r) ==
  /\ Running(r) /\ thread.next = "apply_patches" /\ ~ Pending(thread.patches)
  /\ thread' = Applied(FALSE)
  /\ UNCHANGED << lock, req, rows, approved >>

(* Mutant of the next: the patches that need no confirmation come first.   *)
InterruptLate(r) ==
  /\ Running(r) /\ thread.next = "apply_patches" /\ Pending(thread.patches)
  /\ ~ thread.paused
  /\ thread' = [thread EXCEPT !.paused = TRUE, !.model = Patched(@, thread.patches, FALSE)]
  /\ UNCHANGED << lock, req, rows, approved >>

Interrupt(r) ==
  /\ Running(r) /\ thread.next = "apply_patches" /\ Pending(thread.patches)
  /\ ~ thread.paused
  /\ thread' = [thread EXCEPT !.paused = TRUE]
  /\ UNCHANGED << lock, req, rows, approved >>

(* Mutant of the next: any decision is an approval.                        *)
AnyDecision(r) == TRUE

(* decision.get("approved"); POST /messages resumes with a no.             *)
BypassConfirmation(r) == req[r].kind = "resume" /\ req[r].decision

Resume(r) ==
  /\ Running(r) /\ thread.paused /\ req[r].kind \in {"resume", "message"}
  /\ thread' = Applied(BypassConfirmation(r))
  /\ approved' = IF req[r].decision THEN approved \cup {thread.patches.of} ELSE approved
  /\ UNCHANGED << lock, req, rows >>

(* gap_analysis and generate_questions.                                    *)
RestOfGraph(r) ==
  /\ Running(r) /\ thread.next = "gap_analysis"
  /\ thread' = [thread EXCEPT !.next = "end"]
  /\ UNCHANGED << lock, req, rows, approved >>

-----------------------------------------------------------------------------
(* The end of a request.                                                   *)

(* _persist_turn: only a newer model; save_model_version: only once.       *)
Saved(m, before) ==
  IF m.version > before.version /\ \A i \in DOMAIN rows : rows[i].version # m.version
  THEN Append(rows, m) ELSE rows

(* Mutant of the next: the lock is left to its TTL.                        *)
LeaveLocked(r) ==
  /\ req' = [req EXCEPT ![r].at = "done", ![r].before = None]
  /\ UNCHANGED << lock, thread, approved >>

Leave(r) ==
  /\ req' = [req EXCEPT ![r].at = "done", ![r].before = None]
  /\ lock' = IF lock = r THEN None ELSE lock
  /\ UNCHANGED << thread, approved >>

(* The finally of the AG-UI stream, which runs however the stream ended: a *)
(* thread with a next node is taken to be paused.                          *)
EndStream(r) ==
  /\ Running(r) /\ req[r].kind \in {"fresh", "resume"}
  /\ rows' = IF thread.next = "end" THEN Saved(thread.model, req[r].before) ELSE rows
  /\ Leave(r)

(* POST /messages persists what its own run returned, or nothing.          *)
EndTurn(r) ==
  /\ Running(r) /\ req[r].kind = "message"
  /\ rows' = IF thread.next = "end" THEN Saved(thread.model, req[r].before) ELSE rows
  /\ Leave(r)

(* An import maps its catalog onto the newest model.                       *)
Import(r) ==
  /\ req[r].at = "locked" /\ req[r].kind = "import"
  /\ \E bump \in Bumps :
       rows' = Saved(Patched(LatestModel, [of |-> r, kind |-> "plain", bump |-> bump], FALSE),
                     LatestModel)
  /\ Leave(r)

(* A replica dies, or an exception comes before the stream begins: the TTL *)
(* frees the lock.                                                         *)
Die(r) ==
  /\ req[r].at \in {"locked", "running"}
  /\ rows' = rows /\ Leave(r)

Step(r) ==
  \/ Acquire(r) \/ StartRun(r) \/ Ingest(r) \/ ApplyUngated(r) \/ Interrupt(r)
  \/ Resume(r) \/ RestOfGraph(r) \/ EndStream(r) \/ EndTurn(r) \/ Import(r) \/ Die(r)

Next == \E r \in Requests : Step(r)

Spec == Init /\ [][Next]_vars

-----------------------------------------------------------------------------
(* Properties.                                                             *)

(* A patch that needs a confirmation is in a saved model only if the user  *)
(* approved it while its run was paused: not if a new message superseded   *)
(* the run, POST /messages resumed it, or the run died.                    *)
UnapprovedNotKept ==
  \A i \in DOMAIN rows : \A j \in DOMAIN rows[i].changes :
    rows[i].changes[j].gated => rows[i].changes[j].of \in approved

(* No model has the patches of a turn twice, however often its decision is *)
(* sent, the run resumed, or its checkpoint found at its end again.        *)
AppliedOnce ==
  \A i \in DOMAIN rows : \A j, k \in DOMAIN rows[i].changes :
    rows[i].changes[j].of = rows[i].changes[k].of => j = k

(* A model that is saved has a higher version than any before it: no run   *)
(* brings back a model that is older than one already saved.               *)
VersionsRise ==
  \A i, j \in DOMAIN rows : i < j => rows[i].version < rows[j].version

(* Only a request that resumes a run saves a model without all the changes *)
(* of the newest one: a new message, by either endpoint, an import and a   *)
(* card that is shown again lose none, whatever runs were paused,          *)
(* superseded or died before.                                              *)
OnlyResumedRunsLose ==
  [][\/ ToSet(LatestModel.changes) \subseteq ToSet((LatestModel').changes)
     \/ \E r \in Requests : lock = r /\ req[r].kind = "resume"]_vars

(* Violated.  session_lock.py says that the turns of a session are         *)
(* serialized from the model that is read to the one that is persisted: a  *)
(* saved model has every change of the ones before it.                     *)
NoLostUpdate ==
  \A i, j \in DOMAIN rows : i < j =>
    ToSet(rows[i].changes) \subseteq ToSet(rows[j].changes)
=============================================================================
