---------------------------- MODULE PatchTurnsMC ----------------------------
(***************************************************************************)
(* Patch sets for TLC: every set of at most two patches over a small pool  *)
(* of patches, and longer ones of the kind a document gives.               *)
(***************************************************************************)
EXTENDS PatchTurns

CONSTANTS web, db, java, python, call

Add(c, t) == [op |-> "add_component", id |-> c, terms |-> t, wellFormed |-> TRUE]
Update(c, t) == [op |-> "update_component", id |-> c, terms |-> t, keeps |-> {},
                 wellFormed |-> TRUE]
Remove(c) == [op |-> "remove_component", id |-> c]
Link(s, t, k) == [op |-> "add_dependency", edge |-> << s, t, k >>]
Unlink(s, t, k) == [op |-> "remove_dependency", source |-> s, target |-> t, kind |-> k]
Ask(b) == [op |-> "add_open_question", blank |-> b, related |-> {web}]

Pool ==
  {Add(web, {}), Add(web, {java}), Add(db, {}),
   Update(web, {java}), Update(web, {python}),
   Remove(web), Link(web, db, call), Link(web, web, call),
   Unlink(web, db, AnyKind),
   AddAssumption("stated", {web}), AddAssumption(Blank, {}),
   ConfirmAssumption(1), [ConfirmAssumption(1) EXCEPT !.rejected = TRUE],
   ResolveOpenQuestion(1, "answer"), Ask(FALSE), Ask(TRUE)}

Document == << Add(web, {java}), Add(db, {}), Link(web, db, call) >>
Merge == << Link(web, db, call), Link(web, db, call), Unlink(web, db, call), Remove(db) >>

Proposed ==
  {<< >>, Document, Merge} \cup {<< p >> : p \in Pool}
    \cup {<< p, q >> : p \in Pool, q \in Pool}
Questions == {<< >>, << [Ask(FALSE) EXCEPT !.related = {}] >>}
Catalogs == {Document, << Link(web, db, call) >>}
Helpers == {<< >>, << Link(web, db, call) >>}
=============================================================================
