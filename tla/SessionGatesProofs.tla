------------------------- MODULE SessionGatesProofs -------------------------
(* What every session that follows SessionGates guarantees, for any set of *)
(* edits.                                                                  *)
EXTENDS SessionGates, TLAPS

GatesInv == TypeOK /\ PlansNewestModel /\ PlanFollowsPhase /\ PlanCoveredByModel

LEMMA GatesInit == Init => GatesInv
  BY DEF Init, GatesInv, TypeOK, PlansNewestModel, PlanFollowsPhase,
         PlanCoveredByModel, NoPlan

LEMMA AmendTyped == ASSUME TypeOK, Amend
  PROVE  agreed \subseteq agreed' /\ agreed' \subseteq Edits /\ architecture' = agreed'
  BY DEF TypeOK, Amend

LEMMA GatesStep == GatesInv /\ [Next]_vars => GatesInv'
<1> SUFFICES ASSUME GatesInv, [Next]_vars PROVE GatesInv'
  OBVIOUS
<1> USE DEF GatesInv, TypeOK, PlansNewestModel, PlanFollowsPhase, PlanCoveredByModel,
            NoPlan, Reviewed
<1>1. CASE Describe BY <1>1 DEF Describe
<1>2. CASE AcceptModel BY <1>2 DEF AcceptModel
<1>3. CASE Elicit BY <1>3, AmendTyped DEF Elicit
<1>4. CASE MakePlan BY <1>4, AmendTyped DEF MakePlan
<1>5. CASE Discuss BY <1>5, AmendTyped DEF Discuss
<1>6. CASE ApprovePlan BY <1>6 DEF ApprovePlan
<1>7. CASE UNCHANGED vars BY <1>7 DEF vars
<1> QED BY <1>1, <1>2, <1>3, <1>4, <1>5, <1>6, <1>7 DEF Next

(* Past gate 1 planning always works from the newest, non-empty model. *)
THEOREM NewestModelPlanned == Spec => []PlansNewestModel
  BY GatesInit, GatesStep, PTL DEF Spec, GatesInv

(* What an exported session exports is final, and what gate 2 approves has *)
(* been reviewed.                                                          *)
THEOREM PlanInPhase == Spec => []PlanFollowsPhase
  BY GatesInit, GatesStep, PTL DEF Spec, GatesInv

(* No plan rests on a patch that the agreed model does not hold. *)
THEOREM PlanCovered == Spec => []PlanCoveredByModel
  BY GatesInit, GatesStep, PTL DEF Spec, GatesInv

(* An exported session never changes again. *)
THEOREM ExportIsFinal == Spec => ExportFreezes
<1>1. TypeOK /\ [Next]_vars => [phase # "exported"]_vars
  BY DEF Next, Describe, AcceptModel, Elicit, MakePlan, Discuss, ApprovePlan
<1>2. Spec => []TypeOK
  BY GatesInit, GatesStep, PTL DEF Spec, GatesInv
<1> QED BY <1>1, <1>2, PTL DEF Spec, ExportFreezes

=============================================================================
