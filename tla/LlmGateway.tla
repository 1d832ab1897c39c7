----------------------------- MODULE LlmGateway -----------------------------
(***************************************************************************)
(* The LLM calls of one session's turns: the retries, tier escalation and  *)
(* token meter of llm/gateway.py, over the FallbackLLMProvider that every  *)
(* session shares, over CodeVector (the primary) and Gemini.  The calls of *)
(* a node run at once (asyncio.gather), those for the components as far as *)
(* a semaphore has slots.  A step is what runs between two awaits: a       *)
(* request leaves, or an answer comes back and is dealt with.              *)
(***************************************************************************)
EXTENDS Naturals, FiniteSets

CONSTANTS
  Calls,          \* the calls a node makes
  Components,     \* those for the plan of a component
  Strategies,     \* those for the target, the cutover and the rollback
  Concurrency,    \* plan_concurrency
  CheapRetries,   \* cheap_tier_max_retries
  StrongRetries,  \* strong_tier_max_retries
  Budget,         \* SESSION_TOKEN_BUDGET
  Costs,          \* bound: the tokens an answer may cost
  FormatStart,    \* codevector_response_format: 0 is json_schema, 1 json_object
  Spare,          \* whether codevector_fallback_model is set
  Gemini,         \* whether the fallback provider is configured
  MaxTurns        \* bound: the turns of the session

ASSUME GatewayAssumption ==
  /\ IsFiniteSet(Calls) /\ Components \subseteq Calls /\ Strategies \subseteq Calls
  /\ Components # {} /\ Strategies # {} /\ Concurrency \in Nat \ {0}
  /\ CheapRetries \in Nat /\ StrongRetries \in Nat /\ Budget \in Nat \ {0} /\ MaxTurns \in Nat
  /\ Costs \subseteq Nat /\ Costs # {} /\ \E m \in Costs : \A c \in Costs : c <= m
  /\ FormatStart \in 0 .. 1 /\ Spare \in BOOLEAN /\ Gemini \in BOOLEAN

VARIABLES
  call,           \* the calls
  spent,          \* the meter of the turn: SessionTokenMeter._spent
  usingFallback,  \* FallbackLLMProvider._using_fallback
  formatStart,    \* CodeVectorProvider._format_start
  node,           \* the node that runs: its kind and round, or idle
  saved,          \* the session's token_usage
  turn            \* the number of turns begun

vars == << call, spent, usingFallback, formatStart, node, saved, turn >>

Tier == {"cheap", "strong"}
Provider == {"codevector", "gemini"}
Model == Provider \X Tier
SpareModel == << "codevector", "spare" >>
Default == << "codevector", "cheap" >>
Sendable == Model \cup {SpareModel}

(* The formats CodeVector tries, most constrained first: json_schema,      *)
(* json_object, none.                                                      *)
Formats == 0 .. 2

Results == {"none", "ok", "schema", "provider", "budget"}

Request == [to : Provider, model : Sendable, format : Nat]
NoRequest == [to |-> "codevector", model |-> Default, format |-> 0]

CallState ==
  [pc : {"idle", "ready", "sent", "done"},
   tier : Tier,
   tried : Nat,           \* attempts_used in this tier
   route : Model,         \* NodeRoute.model
   request : Request,     \* the one in flight
   result : Results,
   turn : Nat]

TypeOK ==
  /\ call \in [Calls -> CallState]
  /\ \A c \in Calls : call[c].tried <= CheapRetries + 1 \/ call[c].tried <= StrongRetries + 1
  /\ spent \in Nat /\ saved \in Nat
  /\ usingFallback \in BOOLEAN
  /\ formatStart \in [Sendable -> Nat]
  /\ node \in {"idle", "ingest", "components", "again", "strategy"}
  /\ turn \in 0 .. MaxTurns

Init ==
  /\ call = [c \in Calls |->
               [pc |-> "idle", tier |-> "cheap", tried |-> 0, route |-> Default,
                request |-> NoRequest, result |-> "none", turn |-> 0]]
  /\ spent = 0 /\ saved = 0
  /\ usingFallback = FALSE
  /\ formatStart = [m \in Sendable |-> FormatStart]
  /\ node = "idle"
  /\ turn = 0

-----------------------------------------------------------------------------
(* The turn and its node.                                                  *)

InFlight(c) == call[c].pc \in {"ready", "sent"}
Mine(c) == call[c].turn = turn
Done(c) == Mine(c) /\ call[c].pc = "done"

(* A turn opens its meter with already_spent=session.token_usage, and reads *)
(* the message in one call or asks for a plan per component.  What became  *)
(* of the last turn's calls is not waited for.                             *)
BeginTurn ==
  /\ node = "idle" /\ turn < MaxTurns
  /\ turn' = turn + 1
  /\ spent' = saved
  /\ node' \in {"ingest", "components"}
  /\ UNCHANGED << call, usingFallback, formatStart, saved >>

(* per_component_planning_node asks once more for what failed.             *)
AskAgain ==
  /\ node = "components"
  /\ \A c \in Components : Done(c)
  /\ \E c \in Components : call[c].result # "ok"
  /\ node' = "again"
  /\ call' = [c \in Calls |-> IF Done(c) /\ call[c].result # "ok"
                              THEN [call[c] EXCEPT !.pc = "idle", !.result = "none"]
                              ELSE call[c]]
  /\ UNCHANGED << spent, usingFallback, formatStart, saved, turn >>

(* With a plan for every component, the strategies are asked for.          *)
PlanStrategies ==
  /\ node \in {"components", "again"}
  /\ \A c \in Components : Done(c) /\ call[c].result = "ok"
  /\ node' = "strategy"
  /\ call' = [c \in Calls |-> IF Done(c)
                              THEN [call[c] EXCEPT !.pc = "idle", !.result = "none"]
                              ELSE call[c]]
  /\ UNCHANGED << spent, usingFallback, formatStart, saved, turn >>

Failed(c, results) == Done(c) /\ call[c].result \in results

(* When the graph comes back: plan_one keeps every failure to itself,      *)
(* while the gather of the strategies ends at the first failure.           *)
Returns ==
  \/ node = "ingest" /\ \E c \in Calls : Failed(c, {"ok", "schema", "provider"})
  \/ /\ node = "again" /\ \A c \in Components : Done(c)
     /\ \E c \in Components : call[c].result # "ok"
  \/ node = "strategy" /\ \A c \in Strategies : Failed(c, {"ok"})
  \/ node = "strategy" /\ \E c \in Strategies : Failed(c, {"schema", "provider"})

(* _persist_turn: token_usage = meter.spent.                               *)
PersistTurn ==
  /\ Returns
  /\ node' = "idle"
  /\ saved' = spent
  /\ UNCHANGED << call, spent, usingFallback, formatStart, turn >>

(* TokenBudgetExceededError comes up to event_stream, which rolls back;    *)
(* so does any other end of the request.                                   *)
AbortTurn ==
  /\ node \in {"ingest", "strategy"} /\ \E c \in Calls : Failed(c, {"budget"})
  /\ node' = "idle"
  /\ UNCHANGED << call, spent, usingFallback, formatStart, saved, turn >>

-----------------------------------------------------------------------------
(* The gateway.                                                            *)

Active == IF usingFallback /\ Gemini THEN "gemini" ELSE "codevector"

(* Mutant of the next: the retries are counted from one.                   *)
OneAttemptMore(tier) == IF tier = "cheap" THEN CheapRetries + 2 ELSE StrongRetries + 2

Attempts(tier) == IF tier = "cheap" THEN CheapRetries + 1 ELSE StrongRetries + 1

(* Only the reading of a message is asked of the cheap tier.               *)
FirstTier == IF node = "ingest" THEN "cheap" ELSE "strong"

(* The calls of the turn that have begun and not ended.                    *)
Running == {c \in Calls : Mine(c) /\ InFlight(c)}

(* What the node asks for and when: one reading; a component's plan as     *)
(* soon as the semaphore has a slot; the strategies all together.          *)
MayBegin(c) ==
  \/ node = "ingest" /\ \A d \in Calls : ~ Mine(d)
  \/ /\ node \in {"components", "again"} /\ c \in Components
     /\ Cardinality(Running) < Concurrency
  \/ node = "strategy" /\ c \in Strategies

(* complete: the route is looked up once, before the first attempt.        *)
Begin(c) ==
  /\ MayBegin(c)
  /\ call[c].pc = "idle" \/ (call[c].pc = "done" /\ ~ Mine(c))
  /\ call' = [call EXCEPT ![c] = [@ EXCEPT !.pc = "ready", !.tier = FirstTier, !.tried = 0,
                                           !.route = << Active, FirstTier >>,
                                           !.result = "none", !.turn = turn]]
  /\ UNCHANGED << spent, usingFallback, formatStart, node, saved, turn >>

Ends(c, result) ==
  call' = [call EXCEPT ![c].pc = "done", ![c].result = result,
                       ![c].request = NoRequest, ![c].route = Default]

Sends(c, p, m) ==
  call' = [call EXCEPT ![c].pc = "sent",
                       ![c].request = [to |-> p, model |-> m, format |-> formatStart[m]]]

(* The meter this call holds: an earlier turn's is out of reach.           *)
Exhausted(c) == Mine(c) /\ spent >= Budget

(* Mutant of the next: the meter is looked at once, before the retries.    *)
UncheckedAttempt(c) ==
  /\ call[c].pc = "ready" /\ call[c].tried < Attempts(call[c].tier)
  /\ Sends(c, Active, call[c].route)
  /\ UNCHANGED << spent, usingFallback, formatStart, node, saved, turn >>

(* check_before_call, and the request.                                     *)
Attempt(c) ==
  /\ call[c].pc = "ready" /\ call[c].tried < Attempts(call[c].tier)
  /\ ~ Exhausted(c)
  /\ Sends(c, Active, call[c].route)
  /\ UNCHANGED << spent, usingFallback, formatStart, node, saved, turn >>

OverBudget(c) ==
  /\ call[c].pc = "ready" /\ call[c].tried < Attempts(call[c].tier)
  /\ Exhausted(c)
  /\ Ends(c, "budget")
  /\ UNCHANGED << spent, usingFallback, formatStart, node, saved, turn >>

(* The strong tier is asked when the cheap one is exhausted.               *)
EscalateOrFail(c) ==
  IF call[c].tier = "cheap"
  THEN call' = [call EXCEPT ![c].tier = "strong", ![c].tried = 0,
                            ![c].route = << Active, "strong" >>]
  ELSE Ends(c, "schema")

Escalate(c) ==
  /\ call[c].pc = "ready" /\ call[c].tried = Attempts(call[c].tier)
  /\ EscalateOrFail(c)
  /\ UNCHANGED << spent, usingFallback, formatStart, node, saved, turn >>

(* Gemini does not know CodeVector's models, nor CodeVector Gemini's.      *)
Knows(request) == request.model[1] = request.to

(* A valid answer: its tokens are recorded.                                *)
AnswerOk(c) ==
  /\ call[c].pc = "sent" /\ Knows(call[c].request)
  /\ \E cost \in Costs : spent' = IF Mine(c) THEN spent + cost ELSE spent
  /\ Ends(c, "ok")
  /\ UNCHANGED << usingFallback, formatStart, node, saved, turn >>

(* Mutant of the next: an answer that is no good does not count.           *)
UncountedAnswer(c) ==
  /\ call[c].pc = "sent" /\ Knows(call[c].request)
  /\ call' = [call EXCEPT ![c].pc = "ready", ![c].request = NoRequest]
  /\ UNCHANGED << spent, usingFallback, formatStart, node, saved, turn >>

(* StructuredOutputError: the attempt is used up, its tokens are not       *)
(* recorded.                                                               *)
AnswerInvalid(c) ==
  /\ call[c].pc = "sent" /\ Knows(call[c].request)
  /\ call' = [call EXCEPT ![c].pc = "ready", ![c].tried = @ + 1, ![c].request = NoRequest]
  /\ UNCHANGED << spent, usingFallback, formatStart, node, saved, turn >>

-----------------------------------------------------------------------------
(* The providers.                                                          *)

Larger(a, b) == IF a >= b THEN a ELSE b

(* CodeVector rejects the response format: with the last one tried this is *)
(* an API error, else the next one at or after the start is tried, and the *)
(* start moves if the format as such is unsupported.                       *)
FormatRejected(c) ==
  /\ call[c].pc = "sent" /\ call[c].request.to = "codevector" /\ Knows(call[c].request)
  /\ call[c].request.format < 2
  /\ formatStart' \in
       {formatStart, [formatStart EXCEPT ![call[c].request.model] = call[c].request.format + 1]}
  /\ call' = [call EXCEPT ![c].request.format = Larger(@ + 1, formatStart'[call[c].request.model])]
  /\ UNCHANGED << spent, usingFallback, node, saved, turn >>

(* ProviderRequestError or ProviderQuotaExceededError of CodeVector.  Its  *)
(* own spare model is tried first, then the fallback provider, by the tier *)
(* of the model that was asked for.                                        *)
TierOf(m) == IF m = << "codevector", "strong" >> THEN "strong" ELSE "cheap"

CodeVectorFails(c) ==
  /\ call[c].pc = "sent" /\ call[c].request.to = "codevector"
  /\ IF Spare /\ call[c].request.model # SpareModel
     THEN Sends(c, "codevector", SpareModel) /\ UNCHANGED usingFallback
     ELSE IF Gemini
     THEN /\ usingFallback' \in BOOLEAN    \* whether it was the quota
          /\ Sends(c, "gemini", << "gemini", TierOf(call[c].route) >>)
     ELSE Ends(c, "provider") /\ UNCHANGED usingFallback
  /\ UNCHANGED << spent, formatStart, node, saved, turn >>

GeminiFails(c) ==
  /\ call[c].pc = "sent" /\ call[c].request.to = "gemini"
  /\ Ends(c, "provider")
  /\ UNCHANGED << spent, usingFallback, formatStart, node, saved, turn >>

(* asyncio.timeout: one deadline over everything the call does.            *)
Deadline(c) ==
  /\ call[c].pc = "sent"
  /\ Ends(c, "provider")
  /\ UNCHANGED << spent, usingFallback, formatStart, node, saved, turn >>

-----------------------------------------------------------------------------

CallStep(c) ==
  \/ Attempt(c) \/ OverBudget(c) \/ Escalate(c)
  \/ AnswerOk(c) \/ AnswerInvalid(c) \/ FormatRejected(c)
  \/ CodeVectorFails(c) \/ GeminiFails(c) \/ Deadline(c)

Next ==
  \/ BeginTurn \/ AskAgain \/ PlanStrategies \/ PersistTurn \/ AbortTurn
  \/ \E c \in Calls : Begin(c) \/ CallStep(c)

Spec == Init /\ [][Next]_vars

(* The event loop resumes every task, and the deadline ends every wait.    *)
FairSpec == Spec /\ \A c \in Calls : WF_vars(CallStep(c))

-----------------------------------------------------------------------------
(* Properties.                                                             *)

(* The calls that can be past check_before_call together.                  *)
AtOnce == Larger(Concurrency, Cardinality(Strategies))

(* What is spent beyond the budget of a turn is bounded by the calls that  *)
(* passed check_before_call together, however they retry, escalate, are    *)
(* asked again or take the slot of one that is over, and however many      *)
(* components there are: no answer is larger than the largest, each call   *)
(* in flight is one.                                                       *)
MeterBounded ==
  \A m \in Costs : (\A c \in Costs : c <= m) => spent <= Budget - 1 + AtOnce * m

(* Every call ends, in an answer or in an error.                           *)
CallsEnd == \A c \in Calls : InFlight(c) ~> call[c].pc = "done"
=============================================================================
