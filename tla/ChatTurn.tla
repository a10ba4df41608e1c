------------------------------ MODULE ChatTurn ------------------------------
(***************************************************************************)
(* Turns of the chat: a message is routed and recorded, a tool, a search   *)
(* and a model are awaited, and the answer is gated, handed over, reworked *)
(* and remembered.  Turns of one session overlap, and administrators       *)
(* change policies and plugins meanwhile.                                  *)
(*                                                                         *)
(* The messages and the queue of a session are in SessionHandoff, the      *)
(* prompts and the ages of cached answers in RuntimeConfig; here a session *)
(* is its intent stack, and cached answers expire at any time.             *)
(***************************************************************************)
EXTENDS Answers

CONSTANTS
  Session,        \* sessions of one tenant
  Turn,           \* bound: turns in flight
  Request,        \* what is sent: message, sent, host_auth, base, stream
  Tenant, Channel,
  Domains,        \* the knowledge domains of the settings
  Found,          \* what a search may find: hits, and the chunks of the version
  RemoteAnswer,   \* confidence and usage of the answers of a remote model
  Overlap,        \* overlaps an answer may have with its evidence
  Prices,         \* the price table
  PolicyConfig,   \* bound: the policies administrators choose among
  Switched,       \* bound: the plugins that are switched
  MaxMessages     \* bound: messages to a session

BuiltinPlugins ==
  IndustryPlugins \o EnricherPlugins \o ToolPlugins \o RoutePlugins \o HandoffPlugins
    \o PostProcessors

(* What a host may send, a store may find, a model may answer; and what    *)
(* the schema of the policies lets through.                                *)
Sent ==
  [industry : Maybe(STRING), page_type : Maybe(STRING), business_objects : Objects,
   fields : Objects, behavior_signals : [frustrated : BOOLEAN, repeat_contact_7d : Nat],
   response_format : Maybe(STRING)]

Hit ==
  [chunk_id : STRING, version_id : STRING, score : Int, overlap : Int, source : Int,
   position : Int]

ASSUME ChatTurnAssumption ==
  /\ None \notin BOOLEAN \cup Frame \cup DecisionRecord \cup Output
  /\ \A request \in Request : request.sent \in Sent
  /\ Found \subseteq [hits : Seq(Hit), chunks : Seq(Hit)]
  /\ RemoteAnswer \subseteq [confidence : Confidence, usage : UsageRecord]
  /\ <<"default">> \in DOMAIN Prices
  /\ \A name \in DOMAIN Prices : Prices[name] \in [input : Nat, output : Nat]
  /\ \A p \in PolicyConfig : /\ p.knowledge_top_k \in Nat \ {0}
                             /\ p.knowledge_min_score \in Int
                             /\ p.intent_stack_max_depth \in 1 .. 20
  /\ Switched \subseteq {BuiltinPlugins[i].plugin_id : i \in DOMAIN BuiltinPlugins}
  /\ MaxMessages \in Nat

VARIABLES
  provider,       \* llm_provider, chosen at the start
  enabled,        \* the ids of the enabled plugins
  policies,       \* the policies in force
  stack,          \* stack[s]: the intent stack of the stored session
  cache,          \* a function from the keys of cached answers to them
  turn,           \* turn[t]: where the turn is, and its locals
  seen            \* seen[s]: messages so far; whether the last decision was of low
                  \* confidence, and whether its stack was overwritten: no code reads it

vars == <<provider, enabled, policies, stack, cache, turn, seen>>

registry == [registered |-> BuiltinPlugins, enabled |-> enabled]

Idle == [at |-> "idle"]

TypeOK ==
  /\ provider \in {"local", "remote"}
  /\ enabled \subseteq {BuiltinPlugins[i].plugin_id : i \in DOMAIN BuiltinPlugins}
  /\ policies \in PolicyConfig
  /\ \A s \in Session :
       /\ stack[s] \in Seq(Frame) /\ Len(stack[s]) <= 20
       /\ \A i \in DOMAIN stack[s] : stack[s][i].low_confidence_count <= MaxMessages
       /\ seen[s].messages \in 0 .. MaxMessages
  /\ \A k \in DOMAIN cache : cache[k] \in Response
  /\ \A t \in Turn :
       /\ turn[t].at \in {"idle", "tool", "retrieving", "generating", "done"}
       /\ turn[t].at = "done" => turn[t].response \in Response

-----------------------------------------------------------------------------
(* Fault: the chunks are not part of the key.                              *)
KeyOfQuery(q, citations, model) ==
  IF q.decision.route # "knowledge" \/ q.request.host_auth \/ citations = <<>> THEN None
  ELSE [message |-> q.request.message, base |-> q.base, model |-> model]

(* The key of a cached answer, or None where nothing is cached.            *)
Key(q, citations, model) ==
  IF q.decision.route # "knowledge" \/ q.request.host_auth \/ citations = <<>> THEN None
  ELSE [message |-> q.request.message, base |-> q.base, model |-> model,
        citations |-> [i \in DOMAIN citations |-> [chunk_id |-> citations[i].chunk_id,
                                                   version_id |-> citations[i].version_id]]]

(* The turn goes on to the model, with what it has found.                  *)
ToModel(q) ==
  [q EXCEPT !.at = "generating",
            !.model = SelectModel(policies, q.decision.route, Tenant, "llm"),
            !.key = Key(q, q.citations,
                        SelectModel(policies, q.decision.route, Tenant, "llm"))]

(* What a turn holds when it is routed.                                    *)
Routed(s, request, built, decision) ==
  [at |-> "routed", session |-> s, request |-> request,
   context |-> ApplyContextSnapshot(built, decision.context_snapshot), decision |-> decision,
   stack |-> RecordRouteDecision(stack[s], decision, policies.intent_stack_max_depth),
   policies |-> policies, tool_status |-> None, base |-> request.base, citations |-> <<>>,
   effective |-> 0, model |-> None, key |-> None]

(* What comes of the check of a tool's parameters, and of the choice of a  *)
(* knowledge base.                                                         *)
WithTool(q, prepared) ==
  CASE prepared.is = "call" -> [q EXCEPT !.at = "tool"]
    [] prepared.is = "missing_parameter" ->
         ToModel([q EXCEPT !.tool_status = "missing_parameter"])
    [] prepared.is = "validation_error" -> Idle

WithBase(q, base) ==
  IF base = None THEN ToModel([q EXCEPT !.base = None])
  ELSE [q EXCEPT !.at = "retrieving", !.base = base]

(* How a routed turn goes on to its first await.                           *)
Onward(q) ==
  IF q.decision.route = "business" /\ q.decision.tool_name # None
  THEN WithTool(q, Prepare(registry, q.context, q.decision.tool_name,
                           ExtractToolParameters(q.decision.tool_name, q.request.message)))
  ELSE IF q.decision.route = "knowledge"
  THEN WithBase(q, ResolvePrimary(Domains, Tenant, q.context.industry, q.base))
  ELSE ToModel(q)

Begun(t, q) ==
  /\ stack' = [stack EXCEPT ![q.session] = q.stack]
  /\ seen' = [seen EXCEPT ![q.session] = [messages |-> @.messages + 1, lost |-> FALSE,
                                          low |-> q.decision.confidence_band = "low"]]
  /\ turn' = [turn EXCEPT ![t] = Onward(q)]

(* process_message up to its first await: context, decision, snapshot and  *)
(* stack; built-in plugins do not suspend.                                 *)
Begin(t) ==
  /\ turn[t] = Idle
  /\ \E s \in Session, request \in Request :
       /\ seen[s].messages < MaxMessages
       /\ \E built \in {Build(registry, Tenant, Channel, request.sent, request.message)} :
            \E decision \in {Decide(registry, policies, request.message, built, stack[s])} :
              Begun(t, Routed(s, request, built, decision))
  /\ UNCHANGED <<enabled, policies, cache>>

(* The business system answers.                                            *)
ToolAnswers(t) ==
  /\ turn[t].at = "tool"
  /\ \E status \in {"success", "not_found"} :
       turn' = [turn EXCEPT ![t] = ToModel([@ EXCEPT !.tool_status = status])]
  /\ UNCHANGED <<enabled, policies, stack, cache, seen>>

-----------------------------------------------------------------------------
(* The end of a turn: the session it holds is stored, whatever was stored  *)
(* meanwhile, and the response is returned.                                *)
Done(t, q, response, enqueued, deltas) ==
  LET cost == EstimatedCost(response.usage, ResolveModelPrice(Prices, provider, q.model))
      final == [response EXCEPT
                  !.cost = cost,
                  !.budget_status =
                    BudgetStatus(cost, AlertEstimatedCents(q.policies, Tenant))]
  IN /\ turn' = [turn EXCEPT ![t] =
                   [at |-> "done", request |-> q.request, decision |-> q.decision,
                    citations |-> q.citations, effective |-> q.effective, response |-> final,
                    enqueued |-> enqueued,
                    events |-> IF q.request.stream THEN StreamEvents(deltas, final.answer)
                               ELSE <<>>]]
     /\ stack' = [stack EXCEPT ![q.session] = q.stack]
     /\ seen' = [seen EXCEPT ![q.session].lost = @ \/ q.stack # stack[q.session]]

(* A search ends.  A cached answer is sent at once; otherwise the model is *)
(* asked.                                                                  *)
Retrieved(t) ==
  /\ turn[t].at = "retrieving"
  /\ \E found \in Found :
       LET q == turn[t]
           all == Retrieve(found, q.request.message, q.policies.knowledge_top_k)
           asked == ToModel([q EXCEPT
                               !.citations = Cited(all, q.policies.knowledge_min_score),
                               !.effective =
                                 Len(Effective(all, q.policies.knowledge_min_score))])
       IN IF asked.key \in DOMAIN cache /\ policies.response_cache_enabled
          THEN Done(t, asked, [cache[asked.key] EXCEPT !.cache_hit = TRUE, !.usage = NoUsage],
                    FALSE, <<>>)
          ELSE /\ turn' = [turn EXCEPT ![t] = asked]
               /\ UNCHANGED <<stack, seen>>
  /\ UNCHANGED <<enabled, policies, cache>>

(* The response to an answer of the model.                                 *)
Responded(q, answer) ==
  [route |-> q.decision.route, confidence |-> answer.confidence,
   route_confidence |-> q.decision.confidence, intent |-> q.decision.intent,
   answer |-> answer.text, citations |-> q.citations, tool_status |-> q.tool_status,
   handoff |-> None, industry |-> q.context.industry,
   requires_handoff |-> q.decision.requires_handoff, hallucination_check |-> None,
   refusal |-> None, structured_output |-> None, cache_hit |-> FALSE, usage |-> answer.usage,
   cost |-> 0, budget_status |-> "ok"]

(* The gate of knowledge answers.                                          *)
Gated(response, q, answer) ==
  LET check == Check(answer, q.citations, q.effective)
      checked == [response EXCEPT !.hallucination_check = check, !.refusal = Refused(check)]
  IN IF q.decision.route # "knowledge" THEN response
     ELSE IF ~Refused(check) THEN checked
     ELSE [checked EXCEPT !.answer = Plain("refusal"), !.citations = <<>>,
                          !.confidence = IF @ < 35 THEN @ ELSE 35]

(* Handing over: the answer announces it, whether a package is built or    *)
(* not.                                                                    *)
HandedOver(response, context, decision) ==
  IF ~decision.should_handoff THEN response
  ELSE [response EXCEPT !.handoff = Package(registry, context, decision.reason),
                        !.answer = Plain("handover"),
                        !.confidence = IF @ > 92 THEN @ ELSE 92]

(* What is remembered: knowledge answers that are neither handed over nor  *)
(* refused, while the cache is on.                                         *)
Remember(key, response) ==
  IF /\ key # None /\ policies.response_cache_enabled
     /\ response.route = "knowledge" /\ response.handoff = None /\ response.refusal # TRUE
  THEN [k \in DOMAIN cache \cup {key} |-> IF k = key THEN response ELSE cache[k]] ELSE cache

(* What the model may answer: the local one is as sure as the turn allows  *)
(* and quotes the first citation, numbers in it included; a remote one is  *)
(* as it is, and its stream may be empty and end without a response.       *)
LocalAnswer(q) ==
  [text |-> [Plain("answer") EXCEPT !.phone = q.citations # <<>>], terms |-> TRUE,
   overlap |-> 100, usage |-> EstimateUsage(60),
   confidence |-> LocalConfidence(q.decision.route, q.tool_status, q.citations)]

Remote(r, overlap) ==
  [text |-> [Plain("answer") EXCEPT !.phone = TRUE], terms |-> TRUE, overlap |-> overlap,
   usage |-> r.usage, confidence |-> r.confidence]

EmptyStream ==
  [text |-> Plain("nothing"), terms |-> FALSE, overlap |-> 100, usage |-> EstimateUsage(60),
   confidence |-> StreamConfidence(<<>>)]

Answers(q) ==
  IF provider = "local" THEN {LocalAnswer(q)}
  ELSE {Remote(r, overlap) : r \in RemoteAnswer, overlap \in Overlap}
       \cup (IF q.request.stream THEN {EmptyStream} ELSE {})

(* The model answers; there is no await from here to the end of the turn.  *)
Generated(t) ==
  /\ turn[t].at = "generating"
  /\ \E answer \in Answers(turn[t]) :
       LET q == turn[t]
           gated == Gated(Responded(q, answer), q, answer)
           decision == ShouldHandoff(registry, q.context, gated, policies)
           response == Enhance(registry, HandedOver(gated, q.context, decision), q.context)
       IN /\ cache' = Remember(q.key, response)
          /\ Done(t, q, response, decision.should_handoff,
                  IF answer.text.says = "nothing" THEN <<>> ELSE <<answer.text>>)
  /\ UNCHANGED <<enabled, policies>>

(* A call raises: the turn ends with an error, and the session stays as it *)
(* is stored.                                                              *)
CallRaises(t) ==
  /\ turn[t].at \in {"tool", "retrieving", "generating"}
  /\ turn' = [turn EXCEPT ![t] = Idle]
  /\ UNCHANGED <<enabled, policies, stack, cache, seen>>

(* The response is sent.                                                   *)
Reply(t) ==
  /\ turn[t].at = "done"
  /\ turn' = [turn EXCEPT ![t] = Idle]
  /\ UNCHANGED <<enabled, policies, stack, cache, seen>>

-----------------------------------------------------------------------------
(* Administrators.                                                         *)
PutPolicies ==
  /\ policies' \in PolicyConfig \ {policies}
  /\ cache' = IF policies'.response_cache_enabled THEN cache ELSE <<>>
  /\ UNCHANGED <<enabled, stack, turn, seen>>

SwitchPlugin(id) ==
  /\ enabled' = IF id \in enabled THEN enabled \ {id} ELSE enabled \cup {id}
  /\ UNCHANGED <<policies, stack, cache, turn, seen>>

(* The time to live of a cached answer passes.                             *)
Expire ==
  /\ \E k \in DOMAIN cache : cache' = [j \in DOMAIN cache \ {k} |-> cache[j]]
  /\ UNCHANGED <<enabled, policies, stack, turn, seen>>

Init ==
  /\ provider \in {"local", "remote"}
  /\ enabled = {BuiltinPlugins[i].plugin_id : i \in DOMAIN BuiltinPlugins}
  /\ policies \in PolicyConfig
  /\ stack = [s \in Session |-> <<>>]
  /\ cache = <<>>
  /\ turn = [t \in Turn |-> Idle]
  /\ seen = [s \in Session |-> [messages |-> 0, low |-> FALSE, lost |-> FALSE]]

Next ==
  /\ \/ \E t \in Turn : \/ Begin(t) \/ ToolAnswers(t) \/ Retrieved(t) \/ Generated(t)
                        \/ CallRaises(t) \/ Reply(t)
     \/ PutPolicies
     \/ \E id \in Switched : SwitchPlugin(id)
     \/ Expire
  /\ UNCHANGED provider

Spec == Init /\ [][Next]_vars

-----------------------------------------------------------------------------
(* Two messages of low confidence in a row bring a human, and no other     *)
(* message is escalated for its history: though the count lives in a stack *)
(* that other frames cover, the depth cuts and policies reshape, only an   *)
(* overlapping turn that stores its older stack makes a session forget.    *)
LowConfidenceEscalates ==
  [][\A t \in Turn :
       turn[t] = Idle /\ turn'[t] # Idle =>
         LET q == turn'[t]
             before == seen[q.session]
             signals == q.context.behavior_signals
             low == q.decision.confidence_band = "low"
         IN /\ low /\ before.low /\ ~before.lost => q.decision.route = "handoff"
            /\ low /\ q.decision.route = "handoff" =>
                 \/ before.low \/ before.lost
                 \/ q.decision.confidence < policies.route_handoff_confidence_threshold
                 \/ signals.frustrated \/ signals.repeat_contact_7d >= 2]_vars

(* An answer from knowledge passed the gate on effective citations when it *)
(* was made, and carries the very chunks this turn found, also where       *)
(* another turn's answer is sent from the cache; without effective         *)
(* citations it is refused; a refusal cites nothing and hands nothing      *)
(* over; who is told of a human is in the queue; nothing is sent from the  *)
(* cache to a user the host knows, or for a tool.  The documents say so    *)
(* without the exception made here: the gate and the queue are not asked   *)
(* again for an answer from the cache.                                     *)
Chunks(citations) ==
  [i \in DOMAIN citations |-> <<citations[i].chunk_id, citations[i].version_id>>]

RepliesAreGrounded ==
  \A t \in {u \in Turn : turn[u].at = "done"} :
    LET response == turn[t].response
    IN /\ turn[t].decision.route = "knowledge" /\ response.refusal = FALSE =>
            /\ response.hallucination_check.reason = "passed"
            /\ response.hallucination_check.effective_citation_count > 0
            /\ Chunks(response.citations) = Chunks(turn[t].citations)
       /\ turn[t].decision.route = "knowledge" /\ turn[t].effective = 0 =>
            response.refusal = TRUE \/ response.cache_hit
       /\ response.answer.says = "handover" => turn[t].enqueued \/ response.cache_hit
       /\ response.refusal = TRUE =>
            /\ response.answer.says = "refusal" /\ response.citations = <<>>
            /\ response.handoff = None /\ ~turn[t].enqueued /\ response.confidence <= 35
       /\ response.cache_hit =>
            /\ turn[t].decision.route = "knowledge" /\ ~turn[t].request.host_auth
            /\ response.refusal = FALSE /\ response.handoff = None /\ response.cost = 0

(* What is sent is the final answer: a stream carries that answer and      *)
(* nothing the gate, the handover or the mask took away, the titles are    *)
(* named once, and a structured output repeats the answer beside it.       *)
DeliveredIsFinal ==
  \A t \in {u \in Turn : turn[u].at = "done"} :
    LET response == turn[t].response
        events == turn[t].events
    IN /\ ~response.answer.phone /\ response.answer.titles <= 1
       /\ \A i \in DOMAIN events : events[i] = response.answer
       /\ turn[t].request.stream /\ response.answer.says # "nothing" => Len(events) = 1
       /\ response.structured_output # None =>
            /\ response.structured_output.answer = response.answer
            /\ response.structured_output.citations = response.citations
            /\ response.structured_output.handoff = response.handoff
       /\ turn[t].request.sent.response_format = "structured" /\ ~response.cache_hit =>
            response.structured_output # None

(* While the plugin that hands over by route is on, a message with words   *)
(* of risk ends with a human in the queue, unless the words of a tool, the *)
(* page and the objects on it are together surer than the risk.            *)
RiskIsHandedOver ==
  [][\A t \in Turn :
       /\ turn[t].at = "generating" /\ turn'[t].at = "done"
       /\ turn[t].request.message.risk
       /\ IsEnabled(registry, RouteDecisionHandoff)
       => \/ turn'[t].enqueued /\ turn'[t].response.answer.says = "handover"
          \/ turn[t].decision.route = "business" /\ turn[t].decision.confidence = 99]_vars
=============================================================================
