--------------------------- MODULE LlmGatewayProofs ---------------------------
(***************************************************************************)
(* Proofs about LlmGateway, for any number of calls, retries and turns and *)
(* any budget: by how much the meter of a turn can pass its budget, and    *)
(* how much a call can try before it is over.                              *)
(***************************************************************************)
EXTENDS LlmGateway, FiniteSetTheorems, TLAPS

-----------------------------------------------------------------------------
(* Types.                                                                  *)

(* A call that waits for an answer has an attempt to use up.               *)
AttemptsLeft ==
  \A c \in Calls : /\ call[c].tried <= Attempts(call[c].tier)
                   /\ call[c].pc = "sent" => call[c].tried < Attempts(call[c].tier)

Typed == TypeOK /\ AttemptsLeft

LEMMA AttemptsTyped ==
  ASSUME NEW t \in Tier
  PROVE  Attempts(t) \in Nat \ {0} /\ Attempts(t) \in {CheapRetries + 1, StrongRetries + 1}
  BY GatewayAssumption DEF Tier, Attempts

(* A step of one call, which leaves it in a state of its type.             *)
LEMMA TypedCall ==
  ASSUME Typed, NEW c \in Calls, NEW new \in CallState, call' = [call EXCEPT ![c] = new],
         new.tried <= Attempts(new.tier),
         new.pc = "sent" => new.tried < Attempts(new.tier),
         spent' \in Nat, saved' \in Nat, usingFallback' \in BOOLEAN,
         formatStart' \in [Sendable -> Nat], node' = node, turn' = turn
  PROVE  Typed'
  <1>1. \A d \in Calls : call'[d] = IF d = c THEN new ELSE call[d]
    BY DEF Typed, TypeOK
  <1>2. call' \in [Calls -> CallState]
    BY DEF Typed, TypeOK
  <1>3. new.tried <= CheapRetries + 1 \/ new.tried <= StrongRetries + 1
    <2>1. new.tier \in Tier /\ new.tried \in Nat
      BY DEF CallState
    <2>2. Attempts(new.tier) \in {CheapRetries + 1, StrongRetries + 1}
      BY <2>1, AttemptsTyped
    <2> QED  BY <2>1, <2>2, GatewayAssumption
  <1> QED  BY <1>1, <1>2, <1>3 DEF Typed, TypeOK, AttemptsLeft

LEMMA ActiveIsProvider == Active \in Provider
  BY DEF Active, Provider

LEMMA RouteIsModel ==
  ASSUME NEW p \in Provider, NEW t \in Tier
  PROVE  << p, t >> \in Model
  BY DEF Model

(* What the operators that end or send a call make of it.                  *)
LEMMA EndsTyped ==
  ASSUME Typed, NEW c \in Calls, NEW result \in Results, Ends(c, result),
         spent' \in Nat, saved' \in Nat, usingFallback' \in BOOLEAN,
         formatStart' \in [Sendable -> Nat], node' = node, turn' = turn
  PROVE  Typed'
  <1> DEFINE new == [call[c] EXCEPT !.pc = "done", !.result = result,
                                    !.request = NoRequest, !.route = Default]
  <1>1. call[c] \in CallState /\ call[c].tried <= Attempts(call[c].tier)
    BY DEF Typed, TypeOK, AttemptsLeft
  <1>2. NoRequest \in Request /\ Default \in Model
    BY DEF NoRequest, Request, Default, Model, Provider, Tier, Sendable
  <1>3. new \in CallState /\ new.tried = call[c].tried /\ new.tier = call[c].tier /\ new.pc = "done"
    BY <1>1, <1>2 DEF CallState
  <1>4. call' = [call EXCEPT ![c] = new]
    BY DEF Ends, Typed, TypeOK
  <1> HIDE DEF new
  <1> QED  BY <1>1, <1>3, <1>4, TypedCall

LEMMA SendsTyped ==
  ASSUME Typed, NEW c \in Calls, NEW p \in Provider, NEW m \in Sendable, Sends(c, p, m),
         call[c].tried < Attempts(call[c].tier),
         usingFallback' \in BOOLEAN,
         UNCHANGED << spent, saved, formatStart, node, turn >>
  PROVE  Typed'
  <1> DEFINE request == [to |-> p, model |-> m, format |-> formatStart[m]]
             new == [call[c] EXCEPT !.pc = "sent", !.request = request]
  <1>1. call[c] \in CallState /\ call[c].tried <= Attempts(call[c].tier)
    BY DEF Typed, TypeOK, AttemptsLeft
  <1>2. request \in Request
    BY DEF Typed, TypeOK, Request
  <1>3. new \in CallState /\ new.tried = call[c].tried /\ new.tier = call[c].tier
    <2> HIDE DEF request
    <2> QED  BY <1>1, <1>2 DEF CallState
  <1>4. call' = [call EXCEPT ![c] = new]
    BY DEF Sends, Typed, TypeOK
  <1> HIDE DEF new
  <1> QED  BY <1>1, <1>3, <1>4, TypedCall DEF Typed, TypeOK

LEMMA TypedInit == Init => Typed
  <1> SUFFICES ASSUME Init PROVE Typed
    OBVIOUS
  <1>1. NoRequest \in Request /\ Default \in Model
    BY DEF NoRequest, Request, Default, Model, Provider, Tier, Sendable
  <1>2. call \in [Calls -> CallState]
    BY <1>1 DEF Init, CallState, Tier, Results
  <1>3. \A c \in Calls : call[c].tried = 0 /\ call[c].pc = "idle" /\ call[c].tier = "cheap"
    BY DEF Init
  <1>4. formatStart \in [Sendable -> Nat]
    BY GatewayAssumption DEF Init
  <1>5. Attempts("cheap") \in Nat
    BY AttemptsTyped DEF Tier
  <1>6. TypeOK
    <2>1. \A c \in Calls : call[c].tried <= CheapRetries + 1 \/ call[c].tried <= StrongRetries + 1
      BY <1>3, GatewayAssumption
    <2>2. turn \in 0 .. MaxTurns
      BY GatewayAssumption DEF Init
    <2> QED  BY <1>2, <1>4, <2>1, <2>2 DEF Init, TypeOK
  <1> QED  BY <1>3, <1>5, <1>6 DEF Typed, AttemptsLeft

LEMMA TypedBegin ==
  ASSUME Typed, NEW c \in Calls, Begin(c)
  PROVE  Typed'
  <1> DEFINE t == FirstTier
  <1>1. call' = [call EXCEPT ![c] = [@ EXCEPT !.pc = "ready", !.tier = t, !.tried = 0,
                                              !.route = << Active, t >>, !.result = "none",
                                              !.turn = turn]]
    BY DEF Begin
  <1>2. t \in Tier /\ << Active, t >> \in Model
    BY ActiveIsProvider, RouteIsModel DEF FirstTier, Tier
  <1> HIDE DEF t
  <1> DEFINE new == [call[c] EXCEPT !.pc = "ready", !.tier = t, !.tried = 0,
                                    !.route = << Active, t >>, !.result = "none", !.turn = turn]
  <1>3. call[c] \in CallState /\ turn \in Nat
    BY GatewayAssumption DEF Typed, TypeOK
  <1>4. new \in CallState /\ new.tried = 0 /\ new.pc = "ready" /\ new.tier = t
    BY <1>2, <1>3 DEF CallState, Results
  <1>5. call' = [call EXCEPT ![c] = new]
    BY <1>1 DEF Typed, TypeOK
  <1>6. Attempts(t) \in Nat
    BY <1>2, AttemptsTyped
  <1> HIDE DEF new
  <1>7. /\ spent' \in Nat /\ saved' \in Nat /\ usingFallback' \in BOOLEAN
        /\ formatStart' \in [Sendable -> Nat] /\ node' = node /\ turn' = turn
    BY DEF Begin, Typed, TypeOK
  <1>8. new.tried <= Attempts(new.tier) /\ new.pc # "sent"
    BY <1>4, <1>6
  <1> QED  BY <1>4, <1>5, <1>7, <1>8, TypedCall

LEMMA TypedCallStep ==
  ASSUME Typed, NEW c \in Calls, CallStep(c)
  PROVE  Typed'
  <1> USE DEF Typed
  <1>1. /\ call[c] \in CallState /\ call[c].request \in Request /\ call[c].route \in Model
        /\ call[c].tier \in Tier /\ call[c].tried \in Nat
        /\ call[c].request.model \in Sendable /\ call[c].request.format \in Nat
    <2>1. call[c] \in CallState
      BY DEF TypeOK
    <2> QED  BY <2>1 DEF CallState, Request
  <1>2. Attempts("strong") \in Nat \ {0} /\ Attempts(call[c].tier) \in Nat
    BY <1>1, AttemptsTyped DEF Tier
  <1>3. CASE Attempt(c)
    BY <1>1, <1>3, ActiveIsProvider, SendsTyped DEF Attempt, Sendable, TypeOK
  <1>4. CASE OverBudget(c)
    BY <1>4, EndsTyped DEF OverBudget, Results, TypeOK
  <1>5. CASE Escalate(c)
    <2>1. CASE call[c].tier = "cheap"
      <3> DEFINE new == [call[c] EXCEPT !.tier = "strong", !.tried = 0,
                                        !.route = << Active, "strong" >>]
      <3>1. << Active, "strong" >> \in Model
        BY ActiveIsProvider, RouteIsModel DEF Tier
      <3>2. new \in CallState /\ new.tried = 0 /\ new.pc = "ready" /\ new.tier = "strong"
        BY <1>1, <1>5, <3>1 DEF CallState, Tier, Escalate
      <3>3. call' = [call EXCEPT ![c] = new]
        BY <1>5, <2>1 DEF Escalate, EscalateOrFail, TypeOK
      <3> HIDE DEF new
      <3>4. new.tried <= Attempts(new.tier) /\ new.pc # "sent"
        BY <1>2, <3>2
      <3> QED  BY <1>5, <3>2, <3>3, <3>4, TypedCall DEF Escalate, TypeOK
    <2>2. CASE call[c].tier # "cheap"
      BY <1>5, <2>2, EndsTyped DEF Escalate, EscalateOrFail, Results, TypeOK
    <2> QED  BY <2>1, <2>2
  <1>6. CASE AnswerOk(c)
    <2>1. spent' \in Nat
      BY <1>6, GatewayAssumption DEF AnswerOk, TypeOK
    <2> QED  BY <1>6, <2>1, EndsTyped DEF AnswerOk, Results, TypeOK
  <1>7. CASE AnswerInvalid(c)
    <2> DEFINE new == [call[c] EXCEPT !.pc = "ready", !.tried = @ + 1, !.request = NoRequest]
    <2>1. NoRequest \in Request
      BY DEF NoRequest, Request, Default, Model, Provider, Tier, Sendable
    <2>2. /\ new \in CallState /\ new.tried = call[c].tried + 1 /\ new.pc = "ready"
          /\ new.tier = call[c].tier
      <3> DEFINE tried == call[c].tried + 1
      <3>1. tried \in Nat
        BY <1>1
      <3>2. new = [call[c] EXCEPT !.pc = "ready", !.tried = tried, !.request = NoRequest]
        OBVIOUS
      <3> HIDE DEF tried, new
      <3>3. new \in CallState /\ new.tried = tried /\ new.pc = "ready" /\ new.tier = call[c].tier
        BY <1>1, <2>1, <3>1, <3>2 DEF CallState
      <3> QED  BY <3>3 DEF tried
    <2>3. call' = [call EXCEPT ![c] = new]
      BY <1>7 DEF AnswerInvalid, TypeOK
    <2>4. call[c].tried + 1 <= Attempts(call[c].tier)
      BY <1>1, <1>2, <1>7 DEF AnswerInvalid, AttemptsLeft
    <2> HIDE DEF new
    <2>5. new.tried <= Attempts(new.tier) /\ new.pc # "sent"
      BY <2>2, <2>4
    <2> QED  BY <1>7, <2>2, <2>3, <2>5, TypedCall DEF AnswerInvalid, TypeOK
  <1>8. CASE FormatRejected(c)
    <2>1. formatStart' \in [Sendable -> Nat]
      BY <1>1, <1>8 DEF FormatRejected, TypeOK
    <2> DEFINE format == Larger(call[c].request.format + 1, formatStart'[call[c].request.model])
               request == [call[c].request EXCEPT !.format = format]
               new == [call[c] EXCEPT !.request = request]
    <2>2. format \in Nat
      BY <1>1, <2>1 DEF Larger
    <2> HIDE DEF format
    <2>3. request \in Request
      BY <1>1, <2>2 DEF Request
    <2>4. new \in CallState /\ new.tried = call[c].tried /\ new.pc = call[c].pc /\ new.tier = call[c].tier
      <3> HIDE DEF request
      <3> QED  BY <1>1, <2>3 DEF CallState
    <2>5. call' = [call EXCEPT ![c] = new]
      BY <1>8 DEF FormatRejected, TypeOK, format
    <2> HIDE DEF new
    <2> QED  BY <1>8, <2>1, <2>4, <2>5, TypedCall DEF FormatRejected, TypeOK, AttemptsLeft
  <1>9. CASE CodeVectorFails(c)
    <2>1. call[c].tried < Attempts(call[c].tier)
      BY <1>9 DEF CodeVectorFails, AttemptsLeft
    <2>2. UNCHANGED << spent, formatStart, node, saved, turn >>
      BY <1>9 DEF CodeVectorFails
    <2>3. CASE Spare /\ call[c].request.model # SpareModel
      BY <1>9, <2>1, <2>2, <2>3, SendsTyped DEF CodeVectorFails, Sendable, Provider, TypeOK
    <2>4. CASE ~ (Spare /\ call[c].request.model # SpareModel) /\ Gemini
      <3>1. << "gemini", TierOf(call[c].route) >> \in Sendable
        BY DEF TierOf, Sendable, Model, Provider, Tier
      <3> QED  BY <1>9, <2>1, <2>2, <2>4, <3>1, SendsTyped DEF CodeVectorFails, Provider, TypeOK
    <2>5. CASE ~ (Spare /\ call[c].request.model # SpareModel) /\ ~ Gemini
      BY <1>9, <2>2, <2>5, EndsTyped DEF CodeVectorFails, Results, TypeOK
    <2> QED  BY <2>3, <2>4, <2>5
  <1>10. CASE GeminiFails(c)
    BY <1>10, EndsTyped DEF GeminiFails, Results, TypeOK
  <1>11. CASE Deadline(c)
    BY <1>11, EndsTyped DEF Deadline, Results, TypeOK
  <1> QED
    BY <1>3, <1>4, <1>5, <1>6, <1>7, <1>8, <1>9, <1>10, <1>11 DEF CallStep

LEMMA TypedNext ==
  ASSUME Typed, [Next]_vars
  PROVE  Typed'
  <1> USE DEF Typed
  <1>1. CASE BeginTurn
    BY <1>1, GatewayAssumption DEF BeginTurn, TypeOK, AttemptsLeft
  <1>2. CASE AskAgain
    <2>1. call' = [c \in Calls |-> IF Done(c) /\ call[c].result # "ok"
                                   THEN [call[c] EXCEPT !.pc = "idle", !.result = "none"]
                                   ELSE call[c]]
      BY <1>2 DEF AskAgain
    <2>2. \A c \in Calls : /\ call'[c] \in CallState
                           /\ call'[c].tried = call[c].tried /\ call'[c].tier = call[c].tier
                           /\ call'[c].pc = "sent" => call[c].pc = "sent"
      BY <2>1 DEF TypeOK, CallState, Results
    <2>3. call' \in [Calls -> CallState]
      BY <2>1, <2>2
    <2> QED  BY <1>2, <2>2, <2>3 DEF AskAgain, TypeOK, AttemptsLeft
  <1>6. CASE PlanStrategies
    <2>1. call' = [c \in Calls |-> IF Done(c)
                                   THEN [call[c] EXCEPT !.pc = "idle", !.result = "none"]
                                   ELSE call[c]]
      BY <1>6 DEF PlanStrategies
    <2>2. \A c \in Calls : /\ call'[c] \in CallState
                           /\ call'[c].tried = call[c].tried /\ call'[c].tier = call[c].tier
                           /\ call'[c].pc = "sent" => call[c].pc = "sent"
      BY <2>1 DEF TypeOK, CallState, Results
    <2>3. call' \in [Calls -> CallState]
      BY <2>1, <2>2
    <2> QED  BY <1>6, <2>2, <2>3 DEF PlanStrategies, TypeOK, AttemptsLeft
  <1>3. CASE PersistTurn
    BY <1>3 DEF PersistTurn, TypeOK, AttemptsLeft
  <1>4. CASE AbortTurn
    BY <1>4 DEF AbortTurn, TypeOK, AttemptsLeft
  <1>5. CASE UNCHANGED vars
    BY <1>5 DEF vars, TypeOK, AttemptsLeft
  <1> QED
    BY <1>1, <1>2, <1>3, <1>4, <1>5, <1>6, TypedBegin, TypedCallStep DEF Next

LEMMA TypedInvariant == Spec => []Typed
  BY TypedInit, TypedNext, PTL DEF Spec

(* The variables keep their types: no call is tried more often than both   *)
(* tiers' retries allow, and no flag or format leaves its range.           *)
THEOREM TypeCorrect == Spec => []TypeOK
  BY TypedInvariant, PTL DEF Typed

-----------------------------------------------------------------------------
(* Slots.                                                                  *)

(* What runs of the turn is of the node that runs, and no more of it than  *)
(* can be at once; no call is of a turn to come.                           *)
SlotsKept ==
  /\ node \in {"components", "again"} => Running \subseteq Components
  /\ node = "strategy" => Running \subseteq Strategies
  /\ Cardinality(Running) <= AtOnce
  /\ \A c \in Calls : call[c].turn <= turn

LEMMA RunningTyped == IsFiniteSet(Running) /\ Cardinality(Running) \in Nat
  <1>1. Running \subseteq Calls
    BY DEF Running
  <1> QED  BY <1>1, GatewayAssumption, FS_Subset, FS_CardinalityType

LEMMA AtOnceTyped ==
  /\ IsFiniteSet(Strategies) /\ Cardinality(Strategies) \in Nat
  /\ AtOnce \in Nat \ {0} /\ Concurrency \in Nat
  /\ Concurrency <= AtOnce /\ Cardinality(Strategies) <= AtOnce
  <1>1. IsFiniteSet(Strategies) /\ Cardinality(Strategies) \in Nat
    BY GatewayAssumption, FS_Subset, FS_CardinalityType
  <1> QED  BY <1>1, GatewayAssumption DEF AtOnce, Larger

(* A step of a call is of one in flight, and of nobody else.               *)
LEMMA StepsAlone ==
  ASSUME Typed, NEW c \in Calls, CallStep(c)
  PROVE  /\ InFlight(c) /\ node' = node /\ turn' = turn
         /\ \A d \in Calls : call'[d].turn = call[d].turn /\ (d # c => call'[d] = call[d])
  <1> SUFFICES /\ InFlight(c) /\ node' = node /\ turn' = turn
               /\ \E new : call' = [call EXCEPT ![c] = new] /\ new.turn = call[c].turn
    BY DEF Typed, TypeOK
  <1>1. call[c] \in CallState /\ call \in [Calls -> CallState]
    BY DEF Typed, TypeOK
  <1>2. InFlight(c) /\ node' = node /\ turn' = turn
    BY DEF CallStep, Attempt, OverBudget, Escalate, AnswerOk, AnswerInvalid, FormatRejected,
           CodeVectorFails, GeminiFails, Deadline, InFlight
  <1>3. ASSUME NEW p, NEW m, Sends(c, p, m)
        PROVE  \E new : call' = [call EXCEPT ![c] = new] /\ new.turn = call[c].turn
    <2> DEFINE request == [to |-> p, model |-> m, format |-> formatStart[m]]
               new == [call[c] EXCEPT !.pc = "sent", !.request = request]
    <2>1. call' = [call EXCEPT ![c] = new]
      BY <1>1, <1>3 DEF Sends
    <2>2. new.turn = call[c].turn
      BY <1>1 DEF CallState
    <2> HIDE DEF new
    <2> QED  BY <2>1, <2>2
  <1>4. ASSUME NEW result, Ends(c, result)
        PROVE  \E new : call' = [call EXCEPT ![c] = new] /\ new.turn = call[c].turn
    <2> DEFINE new == [call[c] EXCEPT !.pc = "done", !.result = result,
                                      !.request = NoRequest, !.route = Default]
    <2>1. call' = [call EXCEPT ![c] = new]
      BY <1>1, <1>4 DEF Ends
    <2>2. new.turn = call[c].turn
      BY <1>1 DEF CallState
    <2> HIDE DEF new
    <2> QED  BY <2>1, <2>2
  <1>5. CASE Attempt(c) \/ CodeVectorFails(c)
    BY <1>2, <1>3, <1>4, <1>5 DEF Attempt, CodeVectorFails
  <1>6. CASE OverBudget(c) \/ AnswerOk(c) \/ GeminiFails(c) \/ Deadline(c)
    BY <1>2, <1>4, <1>6 DEF OverBudget, AnswerOk, GeminiFails, Deadline
  <1>7. CASE Escalate(c)
    <2>1. CASE call[c].tier = "cheap"
      <3> DEFINE new == [call[c] EXCEPT !.tier = "strong", !.tried = 0,
                                        !.route = << Active, "strong" >>]
      <3>1. call' = [call EXCEPT ![c] = new]
        BY <1>1, <1>7, <2>1 DEF Escalate, EscalateOrFail
      <3>2. new.turn = call[c].turn
        BY <1>1 DEF CallState
      <3> HIDE DEF new
      <3> QED  BY <1>2, <3>1, <3>2
    <2>2. CASE call[c].tier # "cheap"
      BY <1>2, <1>4, <1>7, <2>2 DEF Escalate, EscalateOrFail
    <2> QED  BY <2>1, <2>2
  <1>8. CASE AnswerInvalid(c)
    <2> DEFINE new == [call[c] EXCEPT !.pc = "ready", !.tried = @ + 1, !.request = NoRequest]
    <2>1. call' = [call EXCEPT ![c] = new]
      BY <1>1, <1>8 DEF AnswerInvalid
    <2>2. new.turn = call[c].turn
      BY <1>1 DEF CallState
    <2> HIDE DEF new
    <2> QED  BY <1>2, <2>1, <2>2
  <1>9. CASE FormatRejected(c)
    <2> DEFINE format == Larger(call[c].request.format + 1, formatStart'[call[c].request.model])
               new == [call[c] EXCEPT !.request = [call[c].request EXCEPT !.format = format]]
    <2> HIDE DEF format
    <2>1. call' = [call EXCEPT ![c] = new]
      BY <1>1, <1>9 DEF FormatRejected, format
    <2>2. new.turn = call[c].turn
      BY <1>1 DEF CallState
    <2> HIDE DEF new
    <2> QED  BY <1>2, <2>1, <2>2
  <1> QED  BY <1>5, <1>6, <1>7, <1>8, <1>9 DEF CallStep

(* A step that begins no call keeps the slots.                             *)
LEMMA SlotsShrink ==
  ASSUME Typed, SlotsKept, Running' \subseteq Running,
         \A c \in Calls : call'[c].turn <= turn',
         \/ node' = node
         \/ node' = "idle"
         \/ node' = "again" /\ node = "components"
         \/ Running = {}
  PROVE  SlotsKept'
  <1>1. Cardinality(Running') \in Nat /\ Cardinality(Running') <= Cardinality(Running)
    BY RunningTyped, FS_Subset, FS_CardinalityType
  <1>2. Cardinality(Running') <= AtOnce
    BY <1>1, RunningTyped, AtOnceTyped DEF SlotsKept
  <1>3. SlotsKept' = (/\ node' \in {"components", "again"} => Running' \subseteq Components
                      /\ node' = "strategy" => Running' \subseteq Strategies
                      /\ Cardinality(Running') <= AtOnce
                      /\ \A c \in Calls : call'[c].turn <= turn')
    BY DEF SlotsKept, AtOnce, Larger
  <1>4. /\ node' \in {"components", "again"} => Running' \subseteq Components
        /\ node' = "strategy" => Running' \subseteq Strategies
    BY DEF SlotsKept
  <1> QED  BY <1>2, <1>3, <1>4

LEMMA SlotsBegin ==
  ASSUME Typed, SlotsKept, NEW c \in Calls, Begin(c)
  PROVE  SlotsKept'
  <1> DEFINE new == [call[c] EXCEPT !.pc = "ready", !.tier = FirstTier, !.tried = 0,
                                    !.route = << Active, FirstTier >>,
                                    !.result = "none", !.turn = turn]
  <1>1. call[c] \in CallState /\ turn \in Nat
    BY GatewayAssumption DEF Typed, TypeOK
  <1>2. call' = [call EXCEPT ![c] = new]
    BY DEF Begin, Typed, TypeOK
  <1>3. new.pc = "ready" /\ new.turn = turn
    BY <1>1 DEF CallState
  <1> HIDE DEF new
  <1>4. \A d \in Calls : call'[d] = IF d = c THEN new ELSE call[d]
    BY <1>2 DEF Typed, TypeOK
  <1>5. node' = node /\ turn' = turn /\ MayBegin(c)
    BY DEF Begin
  <1>6. Running' \subseteq Running \cup {c}
    BY <1>4, <1>5 DEF Running, Mine, InFlight
  <1>7. \A d \in Calls : call'[d].turn <= turn'
    BY <1>1, <1>3, <1>4, <1>5 DEF SlotsKept
  <1>8. IsFiniteSet(Running') /\ Cardinality(Running') \in Nat
        /\ Cardinality(Running') <= Cardinality(Running) + 1
    <2>1. IsFiniteSet(Running \cup {c}) /\ Cardinality(Running \cup {c}) <= Cardinality(Running) + 1
      BY RunningTyped, FS_AddElement
    <2>2. IsFiniteSet(Running') /\ Cardinality(Running') <= Cardinality(Running \cup {c})
      BY <1>6, <2>1, FS_Subset
    <2> QED  BY <2>1, <2>2, RunningTyped, FS_CardinalityType
  <1>9. SlotsKept' = (/\ node' \in {"components", "again"} => Running' \subseteq Components
                      /\ node' = "strategy" => Running' \subseteq Strategies
                      /\ Cardinality(Running') <= AtOnce
                      /\ \A d \in Calls : call'[d].turn <= turn')
    BY DEF SlotsKept, AtOnce, Larger
  <1>10. CASE node = "ingest" /\ \A d \in Calls : ~ Mine(d)
    <2>1. Running = {}
      BY <1>10 DEF Running
    <2>2. Cardinality(Running) = 0
      BY <2>1, FS_EmptySet
    <2> QED  BY <1>5, <1>7, <1>8, <1>9, <1>10, <2>2, AtOnceTyped
  <1>11. CASE node \in {"components", "again"} /\ c \in Components /\ Cardinality(Running) < Concurrency
    <2>1. Cardinality(Running') <= AtOnce
      BY <1>8, <1>11, RunningTyped, AtOnceTyped
    <2>2. Running' \subseteq Components
      BY <1>6, <1>11 DEF SlotsKept
    <2> QED  BY <1>5, <1>7, <1>9, <1>11, <2>1, <2>2
  <1>12. CASE node = "strategy" /\ c \in Strategies
    <2>1. Running' \subseteq Strategies
      BY <1>6, <1>12 DEF SlotsKept
    <2>2. Cardinality(Running') <= Cardinality(Strategies)
      BY <2>1, AtOnceTyped, FS_Subset
    <2>3. Cardinality(Running') <= AtOnce
      BY <1>8, <2>2, AtOnceTyped
    <2> QED  BY <1>5, <1>7, <1>9, <1>12, <2>1, <2>3
  <1> QED  BY <1>5, <1>10, <1>11, <1>12 DEF MayBegin

LEMMA SlotsNext ==
  ASSUME Typed, SlotsKept, [Next]_vars
  PROVE  SlotsKept'
  <1>1. CASE BeginTurn
    <2>1. turn' = turn + 1 /\ call' = call /\ turn \in Nat
      BY <1>1, GatewayAssumption DEF BeginTurn, Typed, TypeOK
    <2>2. \A c \in Calls : call[c].turn <= turn /\ call[c].turn \in Nat
      <3>1. \A c \in Calls : call[c] \in CallState
        BY DEF Typed, TypeOK
      <3> QED  BY <3>1 DEF SlotsKept, CallState
    <2>3. Running' = {}
      BY <2>1, <2>2 DEF Running, Mine
    <2>4. Cardinality(Running') <= AtOnce
      BY <2>3, FS_EmptySet, AtOnceTyped
    <2>5. \A c \in Calls : call'[c].turn <= turn'
      BY <2>1, <2>2
    <2>6. SlotsKept' = (/\ node' \in {"components", "again"} => Running' \subseteq Components
                        /\ node' = "strategy" => Running' \subseteq Strategies
                        /\ Cardinality(Running') <= AtOnce
                        /\ \A c \in Calls : call'[c].turn <= turn')
      BY DEF SlotsKept, AtOnce, Larger
    <2> QED  BY <2>3, <2>4, <2>5, <2>6
  <1>2. CASE AskAgain \/ PlanStrategies
    <2>1. /\ turn' = turn
          /\ \A c \in Calls : call'[c].turn = call[c].turn /\ (call'[c] = call[c] \/ call'[c].pc = "idle")
      <3>1. \A c \in Calls : call[c] \in CallState
        BY DEF Typed, TypeOK
      <3>2. /\ turn' = turn
            /\ \A c \in Calls : \/ call'[c] = call[c]
                                \/ call'[c] = [call[c] EXCEPT !.pc = "idle", !.result = "none"]
        BY <1>2 DEF AskAgain, PlanStrategies
      <3> QED  BY <3>1, <3>2 DEF CallState
    <2>2. Running' \subseteq Running
      BY <2>1 DEF Running, Mine, InFlight
    <2>3. Running = {}
      BY <1>2 DEF AskAgain, PlanStrategies, SlotsKept, Running, InFlight, Done
    <2> QED  BY <2>1, <2>2, <2>3, SlotsShrink DEF SlotsKept
  <1>3. CASE PersistTurn \/ AbortTurn \/ UNCHANGED vars
    <2>1. call' = call /\ turn' = turn /\ (node' = node \/ node' = "idle")
      BY <1>3 DEF PersistTurn, AbortTurn, vars
    <2>2. Running' = Running
      BY <2>1 DEF Running, Mine, InFlight
    <2> QED  BY <2>1, <2>2, SlotsShrink DEF SlotsKept
  <1>4. ASSUME NEW c \in Calls, CallStep(c) PROVE SlotsKept'
    <2>1. /\ InFlight(c) /\ node' = node /\ turn' = turn
          /\ \A d \in Calls : call'[d].turn = call[d].turn /\ (d # c => call'[d] = call[d])
      BY <1>4, StepsAlone
    <2>2. Running' \subseteq Running
      BY <2>1 DEF Running, Mine, InFlight
    <2> QED  BY <2>1, <2>2, SlotsShrink DEF SlotsKept
  <1> QED  BY <1>1, <1>2, <1>3, <1>4, SlotsBegin DEF Next

LEMMA SlotsInit == Init => SlotsKept
  <1> SUFFICES ASSUME Init PROVE SlotsKept
    OBVIOUS
  <1>1. Running = {}
    BY DEF Init, Running, InFlight
  <1> QED  BY <1>1, FS_EmptySet, AtOnceTyped DEF Init, SlotsKept

-----------------------------------------------------------------------------
(* The meter.                                                              *)

(* The answers that may still be recorded in this turn's meter.            *)
Owed == {c \in Calls : Mine(c) /\ call[c].pc = "sent"}

Limit(m) == Budget - 1 + AtOnce * m

(* The inductive form of MeterBounded: what is owed counts as spent.       *)
Metered(m) ==
  /\ spent + Cardinality(Owed) * m <= Limit(m)
  /\ saved <= Limit(m)
  /\ \A c \in Calls : call[c].turn <= turn

Largest(m) == m \in Costs /\ \A c \in Costs : c <= m

LEMMA TimesMonotone ==
  ASSUME NEW a \in Nat, NEW b \in Nat, NEW m \in Nat, a <= b
  PROVE  a * m \in Nat /\ b * m \in Nat /\ a * m <= b * m /\ (a + 1) * m = a * m + m
  OBVIOUS

LEMMA OwedTyped ==
  /\ IsFiniteSet(Owed) /\ Cardinality(Owed) \in Nat
  /\ Owed \subseteq Running
  <1>1. Owed \subseteq Running
    BY DEF Owed, Running, InFlight
  <1> QED  BY <1>1, RunningTyped, FS_Subset, FS_CardinalityType

LEMMA LimitTyped ==
  ASSUME NEW m \in Nat
  PROVE  Limit(m) \in Nat /\ Limit(m) >= Budget - 1
  <1>1. AtOnce * m \in Nat
    BY AtOnceTyped, TimesMonotone
  <1> HIDE DEF Limit
  <1> QED  BY <1>1, GatewayAssumption DEF Limit

(* A step that asks for nothing more, and spends nothing.                  *)
LEMMA OwedShrinks ==
  ASSUME Typed, NEW m \in Nat, Metered(m), Owed' \subseteq Owed, spent' = spent, saved' = saved,
         \A c \in Calls : call'[c].turn <= turn'
  PROVE  Metered(m)'
  <1>1. IsFiniteSet(Owed) /\ Cardinality(Owed) \in Nat
    BY OwedTyped
  <1>2. Cardinality(Owed') \in Nat /\ Cardinality(Owed') <= Cardinality(Owed)
    BY <1>1, FS_Subset, FS_CardinalityType
  <1>3. /\ Cardinality(Owed') * m \in Nat /\ Cardinality(Owed) * m \in Nat
        /\ Cardinality(Owed') * m <= Cardinality(Owed) * m
    BY <1>1, <1>2, TimesMonotone
  <1>4. spent \in Nat /\ Limit(m) \in Nat
    BY LimitTyped DEF Typed, TypeOK
  <1>5. spent + Cardinality(Owed') * m <= Limit(m)
    BY <1>3, <1>4 DEF Metered
  <1>6. Metered(m)' = (/\ spent' + Cardinality(Owed') * m <= Limit(m)
                       /\ saved' <= Limit(m)
                       /\ \A c \in Calls : call'[c].turn <= turn')
    BY DEF Metered, Limit, AtOnce, Larger
  <1> QED  BY <1>5, <1>6 DEF Metered

(* A call that is answered, or fails, or is about to be tried again.       *)
LEMMA CallLeaves ==
  ASSUME Typed, NEW m \in Nat, Metered(m), NEW c \in Calls,
         NEW new, call' = [call EXCEPT ![c] = new],
         new.turn \in {call[c].turn, turn}, new.pc = "sent" => c \in Owed \/ ~ Mine(c),
         new.pc = "sent" => new.turn = call[c].turn,
         spent' = spent, saved' = saved, turn' = turn
  PROVE  Metered(m)'
  <1>1. \A d \in Calls : call'[d] = IF d = c THEN new ELSE call[d]
    BY DEF Typed, TypeOK
  <1>2. Owed' \subseteq Owed
    BY <1>1 DEF Owed, Mine
  <1>3. turn \in Nat
    BY GatewayAssumption DEF Typed, TypeOK
  <1>4. \A d \in Calls : call'[d].turn <= turn'
    BY <1>1, <1>3 DEF Metered
  <1> QED  BY <1>2, <1>4, OwedShrinks

LEMMA MeteredEnds ==
  ASSUME Typed, NEW m \in Nat, Metered(m), NEW c \in Calls, NEW result, Ends(c, result),
         spent' = spent, saved' = saved, turn' = turn
  PROVE  Metered(m)'
  <1> DEFINE new == [call[c] EXCEPT !.pc = "done", !.result = result,
                                    !.request = NoRequest, !.route = Default]
  <1>1. call[c] \in CallState
    BY DEF Typed, TypeOK
  <1>2. new.turn = call[c].turn /\ new.pc = "done"
    BY <1>1 DEF CallState
  <1>3. call' = [call EXCEPT ![c] = new]
    BY DEF Ends, Typed, TypeOK
  <1> HIDE DEF new
  <1> QED  BY <1>2, <1>3, CallLeaves

(* check_before_call lets a call through only while the budget is not      *)
(* spent: whatever is owed then, the limit is kept.                        *)
LEMMA MeteredSends ==
  ASSUME Typed, SlotsKept, NEW m \in Nat, Metered(m), NEW c \in Calls, InFlight(c),
         NEW p, NEW s, Sends(c, p, s), c \in Owed \/ ~ Exhausted(c),
         spent' = spent, saved' = saved, turn' = turn
  PROVE  Metered(m)'
  <1> DEFINE request == [to |-> p, model |-> s, format |-> formatStart[s]]
             new == [call[c] EXCEPT !.pc = "sent", !.request = request]
  <1>1. call[c] \in CallState
    BY DEF Typed, TypeOK
  <1>2. new.turn = call[c].turn /\ new.pc = "sent"
    BY <1>1 DEF CallState
  <1>3. call' = [call EXCEPT ![c] = new]
    BY DEF Sends, Typed, TypeOK
  <1> HIDE DEF new
  <1>4. CASE c \in Owed \/ ~ Mine(c)
    BY <1>2, <1>3, <1>4, CallLeaves
  <1>5. CASE Mine(c) /\ spent < Budget
    <2>1. Owed' \subseteq Running
      BY <1>2, <1>3, <1>5, OwedTyped DEF Owed, Running, Mine, Typed, TypeOK
    <2>2. Cardinality(Owed') \in Nat /\ Cardinality(Owed') <= Cardinality(Running)
      BY <2>1, RunningTyped, FS_Subset, FS_CardinalityType
    <2>3. /\ Cardinality(Owed') * m \in Nat /\ AtOnce * m \in Nat
          /\ Cardinality(Owed') * m <= AtOnce * m
      <3>1. Cardinality(Owed') <= AtOnce
        BY <2>2, RunningTyped, AtOnceTyped DEF SlotsKept
      <3> QED  BY <2>2, <3>1, AtOnceTyped, TimesMonotone
    <2>4. spent \in Nat /\ Budget \in Nat
      BY GatewayAssumption DEF Typed, TypeOK
    <2>5. spent + Cardinality(Owed') * m <= Budget - 1 + AtOnce * m
      BY <1>5, <2>3, <2>4
    <2>6. \A d \in Calls : call'[d].turn <= turn'
      BY <1>2, <1>3 DEF Metered, Typed, TypeOK
    <2>7. Metered(m)' = (/\ spent' + Cardinality(Owed') * m <= Limit(m)
                         /\ saved' <= Limit(m)
                         /\ \A d \in Calls : call'[d].turn <= turn')
      BY DEF Metered, Limit, AtOnce, Larger
    <2> QED  BY <2>5, <2>6, <2>7 DEF Metered, Limit
  <1>6. spent \in Nat /\ Budget \in Nat
    BY GatewayAssumption DEF Typed, TypeOK
  <1> QED  BY <1>4, <1>5, <1>6 DEF Exhausted

(* An answer that is recorded was owed, and is no larger than the largest. *)
LEMMA MeteredAnswer ==
  ASSUME Typed, NEW m, Largest(m), m \in Nat, Metered(m), NEW c \in Calls, AnswerOk(c)
  PROVE  Metered(m)'
  <1>1. CASE ~ Mine(c)
    BY <1>1, MeteredEnds DEF AnswerOk
  <1>2. CASE Mine(c)
    <2>1. PICK cost \in Costs : spent' = spent + cost
      BY <1>2 DEF AnswerOk
    <2>2. cost \in Nat /\ cost <= m /\ spent \in Nat
      BY GatewayAssumption DEF Largest, Typed, TypeOK
    <2> DEFINE new == [call[c] EXCEPT !.pc = "done", !.result = "ok",
                                      !.request = NoRequest, !.route = Default]
    <2>3. call[c] \in CallState
      BY DEF Typed, TypeOK
    <2>4. new.turn = call[c].turn /\ new.pc = "done"
      BY <2>3 DEF CallState
    <2>5. call' = [call EXCEPT ![c] = new]
      BY DEF AnswerOk, Ends, Typed, TypeOK
    <2> HIDE DEF new
    <2>6. \A d \in Calls : call'[d] = IF d = c THEN new ELSE call[d]
      BY <2>5 DEF Typed, TypeOK
    <2>7. c \in Owed /\ Owed' = Owed \ {c}
      BY <1>2, <2>4, <2>6 DEF Owed, Mine, AnswerOk
    <2>8. Cardinality(Owed') = Cardinality(Owed) - 1 /\ Cardinality(Owed') \in Nat
      BY <2>7, OwedTyped, FS_RemoveElement, FS_CardinalityType
    <2>9. Cardinality(Owed) = Cardinality(Owed') + 1
      BY <2>8, OwedTyped
    <2>10. Cardinality(Owed) * m = Cardinality(Owed') * m + m /\ Cardinality(Owed') * m \in Nat
      BY <2>8, <2>9, OwedTyped, TimesMonotone
    <2>11. Limit(m) \in Nat
      BY LimitTyped
    <2>12. spent' + Cardinality(Owed') * m <= Limit(m)
      BY <2>1, <2>2, <2>10, <2>11 DEF Metered
    <2>13. \A d \in Calls : call'[d].turn <= turn'
      BY <2>4, <2>6 DEF Metered, AnswerOk
    <2>14. Metered(m)' = (/\ spent' + Cardinality(Owed') * m <= Limit(m)
                          /\ saved' <= Limit(m)
                          /\ \A d \in Calls : call'[d].turn <= turn')
      BY DEF Metered, Limit, AtOnce, Larger
    <2> QED  BY <2>12, <2>13, <2>14 DEF Metered, AnswerOk
  <1> QED  BY <1>1, <1>2

LEMMA MeteredInit ==
  ASSUME Init, NEW m \in Nat
  PROVE  Metered(m)
  <1>1. Owed = {}
    BY DEF Init, Owed
  <1>2. Cardinality(Owed) * m = 0
    BY <1>1, FS_EmptySet
  <1>3. Limit(m) \in Nat
    BY LimitTyped
  <1> QED  BY <1>2, <1>3 DEF Init, Metered

LEMMA MeteredCallStep ==
  ASSUME Typed, SlotsKept, NEW m, Largest(m), m \in Nat, Metered(m), NEW c \in Calls, CallStep(c)
  PROVE  Metered(m)'
  <1>1. call[c] \in CallState
    BY DEF Typed, TypeOK
  <1>2. CASE Attempt(c)
    BY <1>2, MeteredSends DEF Attempt, InFlight
  <1>3. CASE OverBudget(c)
    BY <1>3, MeteredEnds DEF OverBudget
  <1>4. CASE Escalate(c)
    <2>1. CASE call[c].tier = "cheap"
      <3> DEFINE new == [call[c] EXCEPT !.tier = "strong", !.tried = 0,
                                        !.route = << Active, "strong" >>]
      <3>1. new.turn = call[c].turn /\ new.pc = "ready"
        BY <1>1, <1>4 DEF CallState, Escalate
      <3>2. call' = [call EXCEPT ![c] = new]
        BY <1>4, <2>1 DEF Escalate, EscalateOrFail, Typed, TypeOK
      <3> HIDE DEF new
      <3> QED  BY <1>4, <3>1, <3>2, CallLeaves DEF Escalate
    <2>2. CASE call[c].tier # "cheap"
      BY <1>4, <2>2, MeteredEnds DEF Escalate, EscalateOrFail
    <2> QED  BY <2>1, <2>2
  <1>5. CASE AnswerOk(c)
    BY <1>5, MeteredAnswer
  <1>6. CASE AnswerInvalid(c)
    <2> DEFINE new == [call[c] EXCEPT !.pc = "ready", !.tried = @ + 1, !.request = NoRequest]
    <2>1. new.turn = call[c].turn /\ new.pc = "ready"
      BY <1>1 DEF CallState
    <2>2. call' = [call EXCEPT ![c] = new]
      BY <1>6 DEF AnswerInvalid, Typed, TypeOK
    <2> HIDE DEF new
    <2> QED  BY <1>6, <2>1, <2>2, CallLeaves DEF AnswerInvalid
  <1>7. CASE FormatRejected(c)
    <2> DEFINE format == Larger(call[c].request.format + 1, formatStart'[call[c].request.model])
               new == [call[c] EXCEPT !.request = [call[c].request EXCEPT !.format = format]]
    <2> HIDE DEF format
    <2>1. new.turn = call[c].turn /\ new.pc = "sent"
      BY <1>1, <1>7 DEF CallState, FormatRejected
    <2>2. call' = [call EXCEPT ![c] = new]
      BY <1>7 DEF FormatRejected, Typed, TypeOK, format
    <2>3. c \in Owed \/ ~ Mine(c)
      BY <1>7 DEF FormatRejected, Owed
    <2> HIDE DEF new
    <2> QED  BY <1>7, <2>1, <2>2, <2>3, CallLeaves DEF FormatRejected
  <1>8. CASE CodeVectorFails(c)
    <2>1. c \in Owed \/ ~ Mine(c)
      BY <1>8 DEF CodeVectorFails, Owed
    <2>2. c \in Owed \/ ~ Exhausted(c)
      BY <2>1 DEF Exhausted
    <2> QED  BY <1>8, <2>2, MeteredSends, MeteredEnds DEF CodeVectorFails, InFlight
  <1>9. CASE GeminiFails(c) \/ Deadline(c)
    BY <1>9, MeteredEnds DEF GeminiFails, Deadline
  <1> QED  BY <1>2, <1>3, <1>4, <1>5, <1>6, <1>7, <1>8, <1>9 DEF CallStep

LEMMA MeteredNext ==
  ASSUME Typed, SlotsKept, NEW m, Largest(m), m \in Nat, Metered(m), [Next]_vars
  PROVE  Metered(m)'
  <1>1. CASE BeginTurn
    <2>1. turn' = turn + 1 /\ spent' = saved /\ saved' = saved /\ call' = call /\ turn \in Nat
      BY <1>1, GatewayAssumption DEF BeginTurn, Typed, TypeOK
    <2>2. \A c \in Calls : call[c].turn <= turn /\ call[c].turn \in Nat
      <3>1. \A c \in Calls : call[c] \in CallState
        BY DEF Typed, TypeOK
      <3> QED  BY <3>1 DEF Metered, CallState
    <2>3. Owed' = {}
      BY <2>1, <2>2 DEF Owed, Mine
    <2>4. Cardinality(Owed') * m = 0
      BY <2>3, FS_EmptySet
    <2>5. saved \in Nat
      BY DEF Typed, TypeOK
    <2>6. Metered(m)' = (/\ spent' + Cardinality(Owed') * m <= Limit(m)
                         /\ saved' <= Limit(m)
                         /\ \A c \in Calls : call'[c].turn <= turn')
      BY DEF Metered, Limit, AtOnce, Larger
    <2> QED  BY <2>1, <2>2, <2>4, <2>5, <2>6 DEF Metered
  <1>2. CASE AskAgain
    <2>1. call' = [c \in Calls |-> IF Done(c) /\ call[c].result # "ok"
                                   THEN [call[c] EXCEPT !.pc = "idle", !.result = "none"]
                                   ELSE call[c]]
      BY <1>2 DEF AskAgain
    <2>2. \A c \in Calls : call'[c].turn = call[c].turn /\ (call'[c].pc = "sent" => call[c].pc = "sent")
      BY <2>1 DEF Typed, TypeOK, CallState
    <2>3. Owed' \subseteq Owed
      BY <1>2, <2>2 DEF Owed, Mine, AskAgain
    <2>4. \A c \in Calls : call'[c].turn <= turn'
      BY <1>2, <2>2 DEF Metered, AskAgain
    <2> QED  BY <1>2, <2>3, <2>4, OwedShrinks DEF AskAgain
  <1>6. CASE PlanStrategies
    <2>1. call' = [c \in Calls |-> IF Done(c)
                                   THEN [call[c] EXCEPT !.pc = "idle", !.result = "none"]
                                   ELSE call[c]]
      BY <1>6 DEF PlanStrategies
    <2>2. \A c \in Calls : call'[c].turn = call[c].turn /\ (call'[c].pc = "sent" => call[c].pc = "sent")
      BY <2>1 DEF Typed, TypeOK, CallState
    <2>3. Owed' \subseteq Owed
      BY <1>6, <2>2 DEF Owed, Mine, PlanStrategies
    <2>4. \A c \in Calls : call'[c].turn <= turn'
      BY <1>6, <2>2 DEF Metered, PlanStrategies
    <2> QED  BY <1>6, <2>3, <2>4, OwedShrinks DEF PlanStrategies
  <1>3. CASE PersistTurn
    <2>1. /\ saved' = spent /\ spent' = spent /\ turn' = turn /\ Owed' = Owed
          /\ call' = call
      BY <1>3 DEF PersistTurn, Owed, Mine
    <2>2. spent \in Nat /\ Cardinality(Owed) * m \in Nat /\ Limit(m) \in Nat
      BY OwedTyped, TimesMonotone, LimitTyped DEF Typed, TypeOK
    <2>3. spent <= Limit(m)
      BY <2>2 DEF Metered
    <2>4. Metered(m)' = (/\ spent' + Cardinality(Owed') * m <= Limit(m)
                         /\ saved' <= Limit(m)
                         /\ \A c \in Calls : call'[c].turn <= turn')
      BY DEF Metered, Limit, AtOnce, Larger
    <2> QED  BY <2>1, <2>3, <2>4 DEF Metered
  <1>4. CASE AbortTurn \/ UNCHANGED vars
    BY <1>4, OwedShrinks DEF AbortTurn, vars, Owed, Mine, Metered
  <1>5. ASSUME NEW c \in Calls, Begin(c) PROVE Metered(m)'
    <2> DEFINE t == FirstTier
    <2>1. call' = [call EXCEPT ![c] = [@ EXCEPT !.pc = "ready", !.tier = t, !.tried = 0,
                                                !.route = << Active, t >>, !.result = "none",
                                                !.turn = turn]]
      BY <1>5 DEF Begin
    <2> HIDE DEF t
    <2> DEFINE new == [call[c] EXCEPT !.pc = "ready", !.tier = t, !.tried = 0,
                                      !.route = << Active, t >>, !.result = "none", !.turn = turn]
    <2>2. call[c] \in CallState
      BY DEF Typed, TypeOK
    <2>3. new.pc = "ready" /\ new.turn = turn
      BY <2>2 DEF CallState
    <2>4. call' = [call EXCEPT ![c] = new]
      BY <2>1 DEF Typed, TypeOK
    <2> HIDE DEF new
    <2> QED  BY <1>5, <2>3, <2>4, CallLeaves DEF Begin
  <1> QED  BY <1>1, <1>2, <1>3, <1>4, <1>5, <1>6, MeteredCallStep DEF Next

AllMetered == \A m \in Nat : Largest(m) => Metered(m)

LEMMA MeteredInvariant == Spec => [](Typed /\ SlotsKept /\ AllMetered)
  <1>1. Init => Typed /\ SlotsKept /\ AllMetered
    BY TypedInit, SlotsInit, MeteredInit DEF AllMetered
  <1>2. Typed /\ SlotsKept /\ AllMetered /\ [Next]_vars => (Typed /\ SlotsKept /\ AllMetered)'
    <2> SUFFICES ASSUME Typed, SlotsKept, AllMetered, [Next]_vars
                 PROVE  Typed' /\ SlotsKept' /\ AllMetered'
      OBVIOUS
    <2>1. \A m \in Nat : Largest(m) => Metered(m)'
      BY MeteredNext DEF AllMetered
    <2>2. AllMetered' = \A m \in Nat : Largest(m) => Metered(m)'
      BY DEF AllMetered, Largest
    <2> QED  BY <2>1, <2>2, TypedNext, SlotsNext
  <1> QED  BY <1>1, <1>2, PTL DEF Spec

(* No turn passes its budget by more than the calls that can be let        *)
(* through together may cost - as many as the semaphore has slots, or the  *)
(* strategies - however many components there are and however the calls    *)
(* are retried, escalated, asked again or left behind by an earlier turn.  *)
THEOREM OverrunBounded == Spec => []MeterBounded
  <1>1. Typed /\ AllMetered => MeterBounded
    <2> SUFFICES ASSUME Typed, AllMetered, NEW m \in Costs, \A c \in Costs : c <= m
                 PROVE  spent <= Budget - 1 + AtOnce * m
      BY DEF MeterBounded
    <2>1. m \in Nat /\ Largest(m)
      BY GatewayAssumption DEF Largest
    <2>2. spent + Cardinality(Owed) * m <= Limit(m)
      BY <2>1 DEF AllMetered, Metered
    <2>3. spent \in Nat /\ Cardinality(Owed) * m \in Nat /\ Limit(m) \in Nat
      BY <2>1, OwedTyped, TimesMonotone, LimitTyped DEF Typed, TypeOK
    <2>4. spent <= Limit(m)
      BY <2>2, <2>3
    <2> QED  BY <2>4 DEF Limit
  <1> QED  BY <1>1, MeteredInvariant, PTL

-----------------------------------------------------------------------------
(* Progress.  CallsEnd is beyond the prover, but not what it rests on: a   *)
(* call in flight is nobody's but its own, and every step it takes leaves  *)
(* it with less to try.                                                    *)

(* The tries of a request that are left to it: the formats of the model it *)
(* names, CodeVector's spare model with its formats, and Gemini.           *)
TriesLeft(request) ==
  IF request.to = "gemini" THEN 1
  ELSE (IF request.model = SpareModel THEN 4 ELSE 7) - request.format

(* The attempts left, those of the strong tier and the escalation included.*)
AttemptsToCome(k) ==
  (Attempts(k.tier) - k.tried) + (IF k.tier = "cheap" THEN Attempts("strong") + 1 ELSE 0)

ToTry(k) ==
  CASE k.pc = "ready" -> 8 * (AttemptsToCome(k) + 1)
    [] k.pc = "sent"  -> 8 * AttemptsToCome(k) + TriesLeft(k.request)
    [] OTHER          -> 0

MostToTry == 8 * (CheapRetries + StrongRetries + 4)

(* A call has less to try after every step that is about it, other calls   *)
(* and the nodes of the turn leave it alone, and it never has more to try  *)
(* than both tiers' retries allow, whatever formats are rejected and       *)
(* whoever switches the provider meanwhile.                                *)
CallsAdvance ==
  [][\A c \in Calls : InFlight(c) =>
       \/ call'[c] = call[c]
       \/ ToTry(call'[c]) < ToTry(call[c]) /\ ToTry(call[c]) <= MostToTry]_vars

(* No format past the last one is ever tried or remembered.                *)
FormatsOK ==
  /\ \A m \in Sendable : formatStart[m] <= 2
  /\ \A c \in Calls : call[c].request.format <= 2

LEMMA RequestTypes ==
  ASSUME TypeOK, NEW c \in Calls
  PROVE  /\ call[c] \in CallState /\ call[c].request \in Request
         /\ call[c].request.format \in Nat /\ call[c].request.model \in Sendable
         /\ call[c].route \in Model /\ call[c].route \in Sendable
  <1>1. call[c] \in CallState
    BY DEF TypeOK
  <1> QED  BY <1>1 DEF CallState, Request, Sendable

(* One call's request gets another format, the others keep theirs.         *)
LEMMA FormatsOfOne ==
  ASSUME FormatsOK, TypeOK, NEW c \in Calls, NEW new, call' = [call EXCEPT ![c] = new],
         new.request.format <= 2, \A m \in Sendable : formatStart'[m] <= 2
  PROVE  FormatsOK'
  <1>1. \A d \in Calls : call'[d] = IF d = c THEN new ELSE call[d]
    BY DEF TypeOK
  <1> QED  BY <1>1 DEF FormatsOK

LEMMA FormatsAfterSends ==
  ASSUME FormatsOK, TypeOK, NEW c \in Calls, NEW p, NEW m \in Sendable, Sends(c, p, m),
         formatStart' = formatStart
  PROVE  FormatsOK'
  <1> DEFINE request == [to |-> p, model |-> m, format |-> formatStart[m]]
             new == [call[c] EXCEPT !.pc = "sent", !.request = request]
  <1>1. call' = [call EXCEPT ![c] = new]
    BY DEF Sends, TypeOK
  <1>2. call[c] \in CallState /\ request.format <= 2
    BY RequestTypes DEF FormatsOK
  <1> HIDE DEF request
  <1>3. new.request = request
    BY <1>2 DEF CallState
  <1> HIDE DEF new
  <1> QED  BY <1>1, <1>2, <1>3, FormatsOfOne DEF FormatsOK

LEMMA FormatsAfterEnds ==
  ASSUME FormatsOK, TypeOK, NEW c \in Calls, NEW result, Ends(c, result),
         formatStart' = formatStart
  PROVE  FormatsOK'
  <1> DEFINE new == [call[c] EXCEPT !.pc = "done", !.result = result,
                                    !.request = NoRequest, !.route = Default]
  <1>1. call' = [call EXCEPT ![c] = new]
    BY DEF Ends, TypeOK
  <1>2. new.request = NoRequest
    BY RequestTypes DEF CallState
  <1> HIDE DEF new
  <1>3. new.request.format <= 2
    BY <1>2 DEF NoRequest
  <1> QED  BY <1>1, <1>3, FormatsOfOne DEF FormatsOK

LEMMA FormatsAfterCallStep ==
  ASSUME FormatsOK, Typed, NEW c \in Calls, CallStep(c)
  PROVE  FormatsOK'
  <1> USE DEF Typed
  <1>1. /\ call[c] \in CallState /\ call[c].route \in Sendable
        /\ call[c].request \in Request /\ call[c].request.model \in Sendable
        /\ call[c].request.format \in Nat /\ formatStart \in [Sendable -> Nat]
    BY RequestTypes DEF TypeOK
  <1>2. CASE Attempt(c)
    BY <1>1, <1>2, FormatsAfterSends DEF Attempt
  <1>3. CASE OverBudget(c) \/ AnswerOk(c) \/ GeminiFails(c) \/ Deadline(c)
    <2>1. formatStart' = formatStart /\ \E result : Ends(c, result)
      BY <1>3 DEF OverBudget, AnswerOk, GeminiFails, Deadline
    <2> QED  BY <2>1, FormatsAfterEnds
  <1>4. CASE Escalate(c)
    <2>1. CASE call[c].tier = "cheap"
      <3> DEFINE new == [call[c] EXCEPT !.tier = "strong", !.tried = 0,
                                        !.route = << Active, "strong" >>]
      <3>1. call' = [call EXCEPT ![c] = new] /\ formatStart' = formatStart
        BY <1>4, <2>1 DEF Escalate, EscalateOrFail, TypeOK
      <3>2. new.request = call[c].request
        BY <1>1 DEF CallState
      <3> HIDE DEF new
      <3> QED  BY <3>1, <3>2, FormatsOfOne DEF FormatsOK
    <2>2. CASE call[c].tier # "cheap"
      BY <1>4, <2>2, FormatsAfterEnds DEF Escalate, EscalateOrFail
    <2> QED  BY <2>1, <2>2
  <1>5. CASE AnswerInvalid(c)
    <2> DEFINE new == [call[c] EXCEPT !.pc = "ready", !.tried = @ + 1, !.request = NoRequest]
    <2>1. call' = [call EXCEPT ![c] = new] /\ formatStart' = formatStart
      BY <1>5 DEF AnswerInvalid, TypeOK
    <2>2. new.request = NoRequest
      BY <1>1 DEF CallState
    <2> HIDE DEF new
    <2>3. new.request.format <= 2
      BY <2>2 DEF NoRequest
    <2> QED  BY <2>1, <2>3, FormatsOfOne DEF FormatsOK
  <1>6. CASE FormatRejected(c)
    <2> DEFINE format == Larger(call[c].request.format + 1, formatStart'[call[c].request.model])
               request == [call[c].request EXCEPT !.format = format]
               new == [call[c] EXCEPT !.request = request]
    <2>1. \A m \in Sendable : formatStart'[m] <= 2
      BY <1>1, <1>6 DEF FormatRejected, FormatsOK
    <2>2. format <= 2
      BY <1>1, <1>6, <2>1 DEF FormatRejected, Larger
    <2> HIDE DEF format
    <2>3. request.format = format
      BY <1>1 DEF Request
    <2> HIDE DEF request
    <2>4. new.request = request
      BY <1>1 DEF CallState
    <2>5. call' = [call EXCEPT ![c] = new]
      BY <1>6 DEF FormatRejected, TypeOK, format, request
    <2> HIDE DEF new
    <2> QED  BY <2>1, <2>2, <2>3, <2>4, <2>5, FormatsOfOne
  <1>7. CASE CodeVectorFails(c)
    <2>1. formatStart' = formatStart
      BY <1>7 DEF CodeVectorFails
    <2>2. SpareModel \in Sendable /\ << "gemini", TierOf(call[c].route) >> \in Sendable
      BY DEF TierOf, Sendable, Model, Provider, Tier
    <2>3. \/ \E p : \E m \in Sendable : Sends(c, p, m)
          \/ Ends(c, "provider")
      BY <1>7, <2>2 DEF CodeVectorFails
    <2> QED  BY <2>1, <2>3, FormatsAfterSends, FormatsAfterEnds
  <1> QED
    BY <1>2, <1>3, <1>4, <1>5, <1>6, <1>7 DEF CallStep

LEMMA FormatsNext ==
  ASSUME FormatsOK, Typed, [Next]_vars
  PROVE  FormatsOK'
  <1>1. TypeOK
    BY DEF Typed
  <1>2. \A c \in Calls : call[c] \in CallState
    BY <1>1, RequestTypes
  <1>3. CASE \E c \in Calls : CallStep(c)
    BY <1>3, FormatsAfterCallStep
  <1>4. CASE AskAgain \/ PlanStrategies
    <2>1. /\ formatStart' = formatStart
          /\ \A c \in Calls : \/ call'[c] = call[c]
                              \/ call'[c] = [call[c] EXCEPT !.pc = "idle", !.result = "none"]
      BY <1>4 DEF AskAgain, PlanStrategies
    <2>2. \A c \in Calls : call'[c].request = call[c].request
      BY <1>2, <2>1 DEF CallState
    <2> QED  BY <2>1, <2>2 DEF FormatsOK
  <1>5. ASSUME NEW c \in Calls, Begin(c)
        PROVE  FormatsOK'
    <2> DEFINE new == [call[c] EXCEPT !.pc = "ready", !.tier = FirstTier, !.tried = 0,
                                      !.route = << Active, FirstTier >>,
                                      !.result = "none", !.turn = turn]
    <2>1. call' = [call EXCEPT ![c] = new] /\ formatStart' = formatStart
      BY <1>1, <1>5 DEF Begin, TypeOK
    <2>2. new.request = call[c].request
      BY <1>2 DEF CallState
    <2> HIDE DEF new
    <2> QED  BY <1>1, <2>1, <2>2, FormatsOfOne DEF FormatsOK
  <1>6. CASE BeginTurn \/ PersistTurn \/ AbortTurn \/ UNCHANGED vars
    BY <1>6 DEF BeginTurn, PersistTurn, AbortTurn, vars, FormatsOK
  <1> QED  BY <1>3, <1>4, <1>5, <1>6 DEF Next

LEMMA FormatsInvariant == Spec => [](Typed /\ FormatsOK)
  <1>1. Init => FormatsOK
    BY GatewayAssumption DEF Init, FormatsOK, NoRequest
  <1>2. Typed /\ FormatsOK /\ [Next]_vars => FormatsOK'
    BY FormatsNext
  <1> QED  BY <1>1, <1>2, TypedInvariant, PTL DEF Spec

(* What the measure amounts to for one call.                               *)
LEMMA ToTryTyped ==
  ASSUME Typed, FormatsOK, NEW c \in Calls
  PROVE  /\ AttemptsToCome(call[c]) \in Nat
         /\ TriesLeft(call[c].request) \in 1 .. 7
         /\ call[c].tried < Attempts(call[c].tier) => AttemptsToCome(call[c]) >= 1
         /\ ToTry(call[c]) \in Nat /\ ToTry(call[c]) <= MostToTry
  <1> DEFINE k == call[c]
  <1>1. /\ k \in CallState /\ k.request \in Request /\ k.request.format \in Nat
        /\ k.request.format <= 2
    BY RequestTypes DEF Typed, FormatsOK
  <1>2. k.tier \in Tier /\ k.tried \in Nat /\ k.pc \in {"idle", "ready", "sent", "done"}
    BY <1>1 DEF CallState
  <1>3. k.tried <= Attempts(k.tier)
    BY DEF Typed, AttemptsLeft
  <1>4. /\ CheapRetries \in Nat /\ StrongRetries \in Nat
        /\ Attempts("cheap") = CheapRetries + 1 /\ Attempts("strong") = StrongRetries + 1
        /\ k.tier = "cheap" \/ k.tier = "strong"
    BY <1>2, GatewayAssumption DEF Attempts, Tier
  <1>5. TriesLeft(k.request) \in 1 .. 7
    BY <1>1 DEF TriesLeft
  <1>6. /\ AttemptsToCome(k) \in Nat
        /\ AttemptsToCome(k) <= CheapRetries + StrongRetries + 3
        /\ k.tried < Attempts(k.tier) => AttemptsToCome(k) >= 1
    BY <1>2, <1>3, <1>4 DEF AttemptsToCome
  <1> DEFINE a == AttemptsToCome(k)
             t == TriesLeft(k.request)
  <1>7. ToTry(k) = IF k.pc = "ready" THEN 8 * (a + 1) ELSE IF k.pc = "sent" THEN 8 * a + t ELSE 0
    BY <1>2 DEF ToTry
  <1> HIDE DEF a, t, k
  <1>8. ToTry(k) \in Nat /\ ToTry(k) <= MostToTry
    <2>1. a \in Nat /\ a <= CheapRetries + StrongRetries + 3 /\ t \in 1 .. 7
      BY <1>5, <1>6 DEF a, t
    <2>2. 8 * (a + 1) \in Nat /\ 8 * (a + 1) <= MostToTry /\ 8 * a + t <= MostToTry
      BY <1>4, <2>1 DEF MostToTry
    <2> QED  BY <1>4, <1>7, <2>1, <2>2 DEF MostToTry
  <1> QED  BY <1>5, <1>6, <1>8 DEF k

(* A call that is over has nothing to try, and one in flight something.    *)
LEMMA EndsTriesNoMore ==
  ASSUME Typed, FormatsOK, NEW c \in Calls, InFlight(c), NEW result, Ends(c, result)
  PROVE  ToTry(call'[c]) < ToTry(call[c])
  <1>1. call[c] \in CallState /\ call[c].tried <= Attempts(call[c].tier)
    BY RequestTypes DEF Typed, AttemptsLeft
  <1>2. call'[c] = [call[c] EXCEPT !.pc = "done", !.result = result,
                                   !.request = NoRequest, !.route = Default]
    BY DEF Ends, Typed, TypeOK
  <1>3. call'[c].pc = "done"
    BY <1>1, <1>2 DEF CallState
  <1>4. ToTry(call'[c]) = 0
    BY <1>3 DEF ToTry
  <1> DEFINE a == AttemptsToCome(call[c])
             t == TriesLeft(call[c].request)
  <1>5. a \in Nat /\ t \in 1 .. 7
    BY ToTryTyped
  <1>6. ToTry(call[c]) = 8 * (a + 1) \/ ToTry(call[c]) = 8 * a + t
    BY DEF ToTry, InFlight
  <1> HIDE DEF a, t
  <1> QED  BY <1>4, <1>5, <1>6

(* A request that is sent again has fewer tries left than the one before.  *)
LEMMA SendsTriesLess ==
  ASSUME Typed, FormatsOK, NEW c \in Calls, NEW p, NEW m \in Sendable, Sends(c, p, m)
  PROVE  LET k == call'[c]
         IN  /\ k.pc = "sent" /\ AttemptsToCome(k) = AttemptsToCome(call[c])
             /\ k.request = [to |-> p, model |-> m, format |-> formatStart[m]]
             /\ TriesLeft(k.request) \in 1 .. 7
             /\ p = "gemini" => TriesLeft(k.request) = 1
             /\ m = SpareModel => TriesLeft(k.request) <= 4
  <1> DEFINE request == [to |-> p, model |-> m, format |-> formatStart[m]]
             k == call'[c]
  <1>1. call[c] \in CallState
    BY RequestTypes DEF Typed
  <1>2. k = [call[c] EXCEPT !.pc = "sent", !.request = request]
    BY DEF Sends, Typed, TypeOK
  <1>3. formatStart[m] \in Nat /\ formatStart[m] <= 2
    BY DEF Typed, TypeOK, FormatsOK
  <1>4. /\ TriesLeft(request) \in 1 .. 7
        /\ p = "gemini" => TriesLeft(request) = 1
        /\ m = SpareModel => TriesLeft(request) <= 4
    BY <1>3 DEF TriesLeft
  <1> HIDE DEF request
  <1>5. k.pc = "sent" /\ k.request = request /\ k.tier = call[c].tier /\ k.tried = call[c].tried
    BY <1>1, <1>2 DEF CallState
  <1>6. AttemptsToCome(k) = AttemptsToCome(call[c])
    BY <1>5 DEF AttemptsToCome
  <1> QED  BY <1>4, <1>5, <1>6 DEF request

(* Every step of a call lowers its measure.                                *)
LEMMA CallStepTriesLess ==
  ASSUME Typed, FormatsOK, NEW c \in Calls, CallStep(c)
  PROVE  InFlight(c) /\ ToTry(call'[c]) < ToTry(call[c])
  <1> DEFINE k == call[c]
             k2 == call'[c]
             a == AttemptsToCome(k)
             t == TriesLeft(k.request)
  <1>1. /\ k \in CallState /\ k.request \in Request /\ k.request.model \in Sendable
        /\ k.request.format \in Nat /\ k.request.format <= 2 /\ k.route \in Sendable
        /\ k.tier \in Tier /\ k.tried \in Nat /\ formatStart \in [Sendable -> Nat]
    BY RequestTypes DEF Typed, TypeOK, FormatsOK, CallState
  <1>2. a \in Nat /\ t \in 1 .. 7 /\ (k.tried < Attempts(k.tier) => a >= 1)
    BY ToTryTyped
  <1>3. InFlight(c)
    BY DEF CallStep, Attempt, OverBudget, Escalate, AnswerOk, AnswerInvalid, FormatRejected,
           CodeVectorFails, GeminiFails, Deadline, InFlight
  <1>4. /\ k.pc = "ready" => ToTry(k) = 8 * (a + 1)
        /\ k.pc = "sent" => ToTry(k) = 8 * a + t
    BY DEF ToTry
  <1>5. CASE Attempt(c)
    <2>1. k.pc = "ready" /\ Sends(c, Active, k.route)
      BY <1>5 DEF Attempt
    <2>2. k2.pc = "sent" /\ AttemptsToCome(k2) = a /\ TriesLeft(k2.request) \in 1 .. 7
      BY <1>1, <2>1, SendsTriesLess
    <2>3. ToTry(k2) = 8 * a + TriesLeft(k2.request)
      BY <2>2 DEF ToTry
    <2> HIDE DEF a, k, k2
    <2> QED  BY <1>2, <1>3, <1>4, <2>1, <2>2, <2>3 DEF k, k2
  <1>6. CASE OverBudget(c) \/ AnswerOk(c) \/ GeminiFails(c) \/ Deadline(c)
    <2>1. \E result : Ends(c, result)
      BY <1>6 DEF OverBudget, AnswerOk, GeminiFails, Deadline
    <2> QED  BY <1>3, <2>1, EndsTriesNoMore
  <1>7. CASE Escalate(c)
    <2>1. k.pc = "ready" /\ k.tried = Attempts(k.tier)
      BY <1>7 DEF Escalate
    <2>2. CASE k.tier = "cheap"
      <3>1. k2 = [k EXCEPT !.tier = "strong", !.tried = 0, !.route = << Active, "strong" >>]
        BY <1>7, <2>2 DEF Escalate, EscalateOrFail, Typed, TypeOK
      <3>2. k2.pc = "ready" /\ k2.tier = "strong" /\ k2.tried = 0
        BY <1>1, <2>1, <3>1 DEF CallState
      <3>3. Attempts("strong") \in Nat /\ Attempts("cheap") \in Nat
        BY GatewayAssumption DEF Attempts
      <3>4. AttemptsToCome(k2) = Attempts("strong") /\ a = Attempts("strong") + 1
        BY <1>1, <2>1, <2>2, <3>2, <3>3 DEF AttemptsToCome
      <3>5. ToTry(k2) = 8 * (Attempts("strong") + 1)
        BY <3>2, <3>4 DEF ToTry
      <3> HIDE DEF a, k, k2
      <3> QED  BY <1>3, <1>4, <2>1, <3>3, <3>4, <3>5 DEF k, k2
    <2>3. CASE k.tier # "cheap"
      BY <1>3, <1>7, <2>3, EndsTriesNoMore DEF Escalate, EscalateOrFail
    <2> QED  BY <2>2, <2>3
  <1>8. CASE AnswerInvalid(c)
    <2>1. k.pc = "sent" /\ k.tried < Attempts(k.tier)
      BY <1>8 DEF AnswerInvalid, Typed, AttemptsLeft
    <2>2. k2 = [k EXCEPT !.pc = "ready", !.tried = @ + 1, !.request = NoRequest]
      BY <1>8 DEF AnswerInvalid, Typed, TypeOK
    <2>3. k2.pc = "ready" /\ k2.tier = k.tier /\ k2.tried = k.tried + 1
      BY <1>1, <2>2 DEF CallState
    <2>4. Attempts(k.tier) \in Nat /\ Attempts("strong") \in Nat
      BY <1>1, AttemptsTyped DEF Tier
    <2>5. AttemptsToCome(k2) + 1 = a
      BY <1>1, <2>3, <2>4 DEF AttemptsToCome
    <2>6. ToTry(k2) = 8 * (AttemptsToCome(k2) + 1)
      BY <2>3 DEF ToTry
    <2>7. ToTry(k2) = 8 * a
      BY <2>5, <2>6
    <2> HIDE DEF a, k, k2, t
    <2> QED  BY <1>2, <1>3, <1>4, <2>1, <2>7 DEF k, k2
  <1>9. CASE FormatRejected(c)
    <2> DEFINE f == k.request.format
               m == k.request.model
               g == Larger(f + 1, formatStart'[m])
    <2>1. k.pc = "sent" /\ k.request.to = "codevector" /\ f < 2
      BY <1>9 DEF FormatRejected
    <2>2. formatStart'[m] \in Nat /\ formatStart'[m] <= 2
      BY <1>1, <1>9 DEF FormatRejected, FormatsOK
    <2>3. g \in Nat /\ f + 1 <= g /\ g <= 2
      BY <1>1, <2>1, <2>2 DEF Larger
    <2>4. k2 = [k EXCEPT !.request = [k.request EXCEPT !.format = g]]
      BY <1>9 DEF FormatRejected, Typed, TypeOK
    <2> HIDE DEF g
    <2>5. /\ k2.pc = "sent" /\ k2.tier = k.tier /\ k2.tried = k.tried
          /\ k2.request = [k.request EXCEPT !.format = g]
      BY <1>1, <2>1, <2>4 DEF CallState
    <2>6. k2.request.to = "codevector" /\ k2.request.model = m /\ k2.request.format = g
      BY <1>1, <2>1, <2>5 DEF Request
    <2>7. AttemptsToCome(k2) = a
      BY <2>5 DEF AttemptsToCome
    <2>8. TriesLeft(k2.request) < t /\ TriesLeft(k2.request) \in Nat
      BY <1>1, <2>1, <2>3, <2>6 DEF TriesLeft
    <2>9. ToTry(k2) = 8 * a + TriesLeft(k2.request)
      BY <2>5, <2>7 DEF ToTry
    <2> HIDE DEF a, t, k, k2
    <2> QED  BY <1>2, <1>3, <1>4, <2>1, <2>8, <2>9 DEF k, k2
  <1>10. CASE CodeVectorFails(c)
    <2>1. k.pc = "sent" /\ k.request.to = "codevector"
      BY <1>10 DEF CodeVectorFails
    <2>2. /\ t >= 2
          /\ k.request.model # SpareModel => t >= 5
      BY <1>1, <2>1 DEF TriesLeft
    <2>3. CASE Spare /\ k.request.model # SpareModel
      <3>1. Sends(c, "codevector", SpareModel) /\ SpareModel \in Sendable
        BY <1>10, <2>3 DEF CodeVectorFails, Sendable
      <3>2. /\ k2.pc = "sent" /\ AttemptsToCome(k2) = a
            /\ TriesLeft(k2.request) \in 1 .. 7 /\ TriesLeft(k2.request) <= 4
        BY <3>1, SendsTriesLess
      <3>3. ToTry(k2) = 8 * a + TriesLeft(k2.request)
        BY <3>2 DEF ToTry
      <3> HIDE DEF a, t, k2
      <3> QED  BY <1>2, <1>3, <1>4, <2>1, <2>2, <2>3, <3>2, <3>3 DEF k2
    <2>4. CASE ~ (Spare /\ k.request.model # SpareModel) /\ Gemini
      <3>1. << "gemini", TierOf(k.route) >> \in Sendable
        BY DEF TierOf, Sendable, Model, Provider, Tier
      <3>2. Sends(c, "gemini", << "gemini", TierOf(k.route) >>)
        BY <1>10, <2>4 DEF CodeVectorFails
      <3>3. k2.pc = "sent" /\ AttemptsToCome(k2) = a /\ TriesLeft(k2.request) = 1
        BY <3>1, <3>2, SendsTriesLess
      <3>4. ToTry(k2) = 8 * a + 1
        BY <3>3 DEF ToTry
      <3> HIDE DEF a, t, k2
      <3> QED  BY <1>2, <1>3, <1>4, <2>1, <2>2, <3>4 DEF k2
    <2>5. CASE ~ (Spare /\ k.request.model # SpareModel) /\ ~ Gemini
      <3>1. Ends(c, "provider")
        BY <1>10, <2>5 DEF CodeVectorFails
      <3> QED  BY <1>3, <3>1, EndsTriesNoMore
    <2> QED  BY <2>3, <2>4, <2>5
  <1> QED
    BY <1>5, <1>6, <1>7, <1>8, <1>9, <1>10 DEF CallStep

(* Whoever else takes a step leaves a call in flight as it is.             *)
LEMMA OthersLeaveAlone ==
  ASSUME Typed, NEW c \in Calls, InFlight(c), [Next]_vars, ~ CallStep(c)
  PROVE  call'[c] = call[c]
  <1>1. CASE BeginTurn \/ PersistTurn \/ AbortTurn \/ UNCHANGED vars
    BY <1>1 DEF BeginTurn, PersistTurn, AbortTurn, vars
  <1>2. CASE AskAgain \/ PlanStrategies
    BY <1>2 DEF AskAgain, PlanStrategies, Done, InFlight
  <1>3. ASSUME NEW d \in Calls, Begin(d)
        PROVE  call'[c] = call[c]
    <2>1. d # c
      BY <1>3 DEF Begin, InFlight
    <2> QED  BY <1>3, <2>1 DEF Begin, Typed, TypeOK
  <1>4. ASSUME NEW d \in Calls, CallStep(d)
        PROVE  call'[c] = call[c]
    <2>1. d # c
      BY <1>4
    <2>2. CASE Attempt(d) \/ CodeVectorFails(d)
      BY <2>1, <2>2 DEF Attempt, CodeVectorFails, Sends, Ends, Typed, TypeOK
    <2>3. CASE OverBudget(d) \/ AnswerOk(d) \/ GeminiFails(d) \/ Deadline(d) \/ Escalate(d)
      BY <2>1, <2>3 DEF OverBudget, AnswerOk, GeminiFails, Deadline, Escalate, EscalateOrFail,
                        Ends, Typed, TypeOK
    <2>4. CASE AnswerInvalid(d) \/ FormatRejected(d)
      BY <2>1, <2>4 DEF AnswerInvalid, FormatRejected, Typed, TypeOK
    <2> QED  BY <1>4, <2>2, <2>3, <2>4 DEF CallStep
  <1> QED  BY <1>1, <1>2, <1>3, <1>4 DEF Next

(* The retries, the escalation, the formats, the spare model and the       *)
(* fallback provider of one call can only run out: what is left of the     *)
(* argument for CallsEnd is that an enabled step is taken.                 *)
THEOREM CallsRunOut == Spec => CallsAdvance
  <1>1. ASSUME Typed, FormatsOK, [Next]_vars, NEW c \in Calls, InFlight(c)
        PROVE  \/ call'[c] = call[c]
               \/ ToTry(call'[c]) < ToTry(call[c]) /\ ToTry(call[c]) <= MostToTry
    <2>1. ToTry(call[c]) <= MostToTry
      BY <1>1, ToTryTyped
    <2> QED  BY <1>1, <2>1, CallStepTriesLess, OthersLeaveAlone
  <1>2. Typed /\ FormatsOK /\ [Next]_vars =>
          [\A c \in Calls : InFlight(c) =>
             \/ call'[c] = call[c]
             \/ ToTry(call'[c]) < ToTry(call[c]) /\ ToTry(call[c]) <= MostToTry]_vars
    BY <1>1
  <1> QED  BY <1>2, FormatsInvariant, PTL DEF Spec, CallsAdvance
=============================================================================
