------------------------------- MODULE Answers -------------------------------
(***************************************************************************)
(* How an answer is made and changed before it is sent: the citations of a *)
(* search, the gate that refuses an answer without evidence, the plugins   *)
(* that hand a conversation over, the plugins that rework the text, the    *)
(* choice of a model and the cost of its use.  Scores, overlaps and        *)
(* confidences are in hundredths, costs in thousandths of a cent.          *)
(*                                                                         *)
(* A text is a record: says is "nothing" for the empty text and otherwise  *)
(* who speaks in it, titles how often the titles of the references are     *)
(* appended, phone whether a telephone number stands in it unmasked.       *)
(***************************************************************************)
EXTENDS IntentRouting

Text == [says : {"nothing", "answer", "tool", "refusal", "handover"}, titles : 0 .. 2,
         phone : BOOLEAN]

(* Citations, the use of a model, the check of the evidence, a structured  *)
(* output, and the response they are part of.                              *)
Citation == [chunk_id : STRING, version_id : STRING, score : Int]

UsageRecord ==
  [input_tokens : Nat, output_tokens : Nat, total_tokens : Nat, estimated : BOOLEAN]

CheckRecord ==
  [reason : {"no_effective_citation", "empty_answer", "passed", "low_evidence_overlap"},
   citation_count : Nat, effective_citation_count : Nat]

ToolStatus == Maybe({"missing_parameter", "success", "not_found"})

Reason == Maybe({"route", "low_confidence"})

(* The industry of an adapter, or one the host names.                      *)
AnyIndustry == Maybe(Industries \cup STRING)

Output ==
  [route : Route, answer : Text, industry : AnyIndustry, citations : Seq(Citation),
   tool_status : ToolStatus, handoff : Reason]

Response ==
  [route : Route, confidence : Confidence, route_confidence : Confidence, intent : Intent,
   answer : Text, citations : Seq(Citation), tool_status : ToolStatus, handoff : Reason,
   industry : AnyIndustry, requires_handoff : BOOLEAN,
   hallucination_check : Maybe(CheckRecord), refusal : Maybe(BOOLEAN),
   structured_output : Maybe(Output), cache_hit : BOOLEAN, usage : UsageRecord, cost : Nat,
   budget_status : {"ok", "alert"}]

Plain(says) == [says |-> says, titles |-> 0, phone |-> FALSE]

Shorter(s, n) == SubSeq(s, 1, IF n < Len(s) THEN n ELSE Len(s))

-----------------------------------------------------------------------------
(* Retrieval.  A hit has its chunk, the version, the score of the store,   *)
(* the overlap of the words of the question with the chunk, and the place  *)
(* of the chunk in its source.                                             *)
HybridScore(hit) ==
  LET score == (75 * hit.score + 25 * hit.overlap) \div 100
  IN IF score > 100 THEN 100 ELSE score

Before(a, b) ==
  \/ a.score > b.score
  \/ a.score = b.score /\ a.source < b.source
  \/ a.score = b.score /\ a.source = b.source /\ a.position < b.position

(* The surest hits first; of two equals the one that was found first.      *)
Ahead(hits, i, k) == Before(hits[i], hits[k]) \/ (~Before(hits[k], hits[i]) /\ i < k)

Ranked(hits) ==
  LET ahead(k) == {i \in DOMAIN hits : Ahead(hits, i, k)}
  IN [n \in DOMAIN hits |-> hits[CHOOSE k \in DOMAIN hits : Cardinality(ahead(k)) = n - 1]]

Rerank(message, hits, top_k) ==
  IF ~message.terms THEN Shorter(hits, top_k)
  ELSE Shorter(Ranked([i \in DOMAIN hits |-> [hits[i] EXCEPT !.score = HybridScore(hits[i])]]),
               top_k)

FromHits(hits) ==
  [i \in DOMAIN hits |-> [chunk_id |-> hits[i].chunk_id, version_id |-> hits[i].version_id,
                          score |-> hits[i].score]]

(* KnowledgeService.retrieve: the hits of the store, or the first chunks   *)
(* of the version where it finds none.                                     *)
Retrieve(found, message, top_k) ==
  LET chunks == Shorter(found.chunks, top_k)
      fallback == [i \in DOMAIN chunks |-> [chunks[i] EXCEPT !.score = 10]]
  IN FromHits(Rerank(message, IF found.hits = <<>> THEN fallback ELSE found.hits, top_k))

Effective(citations, min_score) ==
  Those(citations, {i \in DOMAIN citations : citations[i].score >= min_score})

(* The citations of a turn: the effective ones, or the first of all.       *)
Cited(citations, min_score) ==
  IF Effective(citations, min_score) # <<>> THEN Effective(citations, min_score)
  ELSE Shorter(citations, 1)

(* HallucinationCheckService.check of an answer with the terms and the     *)
(* overlap it has with the text of the citations.                          *)
Check(answer, citations, effective) ==
  [reason |-> IF citations = <<>> \/ effective <= 0 THEN "no_effective_citation"
              ELSE IF ~answer.terms THEN "empty_answer"
              ELSE IF answer.overlap >= 8 THEN "passed" ELSE "low_evidence_overlap",
   citation_count |-> Len(citations), effective_citation_count |-> effective]

Refused(check) == check.reason # "passed"

-----------------------------------------------------------------------------
(* LocalLLMProvider.generate: how sure it is.                              *)
LocalConfidence(route, tool_status, citations) ==
  IF route \in {"handoff", "risk"} THEN 98
  ELSE IF tool_status = "success" THEN 88
  ELSE IF tool_status # None THEN 52
  ELSE IF citations # <<>> THEN 79
  ELSE 32

(* _generate_with_stream_callback of a provider that sends no response of  *)
(* its own at the end.                                                     *)
StreamConfidence(deltas) == IF deltas # <<>> THEN 78 ELSE 0

(* Fault: what was received is sent as it came.                            *)
StreamEventsReceived(deltas, answer) ==
  IF deltas = <<>> /\ answer.says # "nothing" THEN <<answer>> ELSE deltas

(* process_message_stream: the deltas are kept back until the answer is    *)
(* final, and are sent only if they are the answer.                        *)
StreamEvents(deltas, answer) ==
  IF answer.says # "nothing" /\ deltas # <<answer>> THEN <<answer>> ELSE deltas

-----------------------------------------------------------------------------
(* The plugins that hand over.                                             *)
RouteDecisionHandoff == Descriptor("handoff.route", "human_handoff", 300)
ConfidenceHandoff == Descriptor("handoff.confidence", "human_handoff", 250)
DefaultSummaryHandoff == Descriptor("handoff.summary", "human_handoff", 100)

HandoffPlugins == <<RouteDecisionHandoff, ConfidenceHandoff, DefaultSummaryHandoff>>

NoHandoff == [should_handoff |-> FALSE, reason |-> None, priority |-> 0]

EvaluateRouteDecision(response) ==
  IF response.requires_handoff
  THEN [should_handoff |-> TRUE, reason |-> "route", priority |-> 300]
  ELSE IF response.route \in {"handoff", "risk"}
  THEN [should_handoff |-> TRUE, reason |-> "route", priority |-> 280]
  ELSE NoHandoff

EvaluateConfidence(response, policies) ==
  IF response.refusal = TRUE THEN NoHandoff
  ELSE IF response.confidence < policies.handoff_confidence_threshold
  THEN [should_handoff |-> TRUE, reason |-> "low_confidence", priority |-> 250]
  ELSE NoHandoff

Evaluate(plugin, response, policies) ==
  CASE plugin = RouteDecisionHandoff -> EvaluateRouteDecision(response)
    [] plugin = ConfidenceHandoff -> EvaluateConfidence(response, policies)
    [] plugin = DefaultSummaryHandoff -> NoHandoff

HandoffPluginsFor(registry, context) ==
  Resolve(registry, "human_handoff", context.tenant_id, context.industry, context.channel)

(* HandoffService.should_handoff: the decision of highest priority.        *)
ShouldHandoff(registry, context, response, policies) ==
  LET plugins == HandoffPluginsFor(registry, context)
      of == [i \in DOMAIN plugins |-> Evaluate(plugins[i], response, policies)]
      for == {i \in DOMAIN of : of[i].should_handoff}
  IN IF for = {} THEN NoHandoff
     ELSE of[CHOOSE i \in for :
               \A k \in for : \/ of[k].priority < of[i].priority
                              \/ of[k].priority = of[i].priority /\ i <= k]

(* create_package: the package of the only plugin that builds one, or None.*)
Package(registry, context, reason) ==
  IF \E i \in DOMAIN HandoffPluginsFor(registry, context) :
       HandoffPluginsFor(registry, context)[i] = DefaultSummaryHandoff
  THEN reason ELSE None

-----------------------------------------------------------------------------
(* Response enhancement.                                                   *)
ReferenceAppend == Descriptor("response.references", "response_post_processor", 200)
SensitiveMask == Descriptor("response.mask", "response_post_processor", 190)
StructuredOutput == Descriptor("response.structured", "response_post_processor", 100)

PostProcessors == <<ReferenceAppend, SensitiveMask, StructuredOutput>>

(* An empty answer is replaced by the summary of the tool.                 *)
FormatResponseFields(response) ==
  IF response.answer.says = "nothing" /\ response.tool_status # None
  THEN [response EXCEPT !.answer = Plain("tool")] ELSE response

AppendReferenceTitles(response) ==
  IF response.answer.says = "nothing" \/ response.citations = <<>> \/ response.answer.titles > 0
  THEN response ELSE [response EXCEPT !.answer.titles = 1]

MaskSensitive(response) == [response EXCEPT !.answer.phone = FALSE]

Structured(response) ==
  [route |-> response.route, answer |-> response.answer, industry |-> response.industry,
   citations |-> response.citations, tool_status |-> response.tool_status,
   handoff |-> response.handoff]

EnsureStructuredOutput(response, context) ==
  IF context.integration_context.response_format # "structured" THEN response
  ELSE [response EXCEPT !.structured_output = Structured(response)]

Process(plugin, response, context) ==
  CASE plugin = ReferenceAppend ->
         IF response.citations = <<>> \/ response.answer.titles > 0 THEN response
         ELSE [response EXCEPT !.answer.titles = 1]
    [] plugin = SensitiveMask -> MaskSensitive(response)
    [] plugin = StructuredOutput -> EnsureStructuredOutput(response, context)

(* The built-in enhancements, which are also the last step.                *)
ApplyBuiltinEnhancements(response, context) ==
  EnsureStructuredOutput(
    MaskSensitive(AppendReferenceTitles(FormatResponseFields(response))), context)

Enhance(registry, response, context) ==
  LET plugins == Resolve(registry, "response_post_processor", context.tenant_id,
                         context.industry, context.channel)
      after[n \in 0 .. Len(plugins)] ==
        IF n = 0 THEN ApplyBuiltinEnhancements(response, context)
        ELSE Process(plugins[n], after[n - 1], context)
  IN ApplyBuiltinEnhancements(after[Len(plugins)], context)

-----------------------------------------------------------------------------
(* _select_model: the model of the route, of the tenant, the default one,  *)
(* or the provider's.                                                      *)
SelectModel(policies, route, tenant, llm_model_name) ==
  LET mapped == {k \in {route, tenant} : /\ k \in DOMAIN policies.route_model_map
                                         /\ policies.route_model_map[k] # None}
  IN IF route \in mapped THEN policies.route_model_map[route]
     ELSE IF tenant \in mapped THEN policies.route_model_map[tenant]
     ELSE OrElse(policies.default_model, llm_model_name)

(* Usage: tokens in, out and in all, and whether they are an estimate.     *)
Usage(input, output, total, estimated) ==
  [input_tokens |-> input, output_tokens |-> output, total_tokens |-> total,
   estimated |-> estimated]

NoUsage == Usage(0, 0, 0, TRUE)

(* _estimate_usage of texts of so many pairs of characters.                *)
EstimateUsage(pairs) ==
  LET input == IF pairs < 1 THEN 1 ELSE pairs
      third == input \div 3
      output == IF third < 16 THEN 16 ELSE IF third > 256 THEN 256 ELSE third
  IN Usage(input, output, input + output, TRUE)

(* _resolve_model_price: the price of the model at the provider, of the    *)
(* model, of the provider, or the default; prices in cents per 1000 tokens.*)
ResolveModelPrice(prices, provider, model) ==
  LET names == <<<<provider, model>>, <<model>>, <<provider>>, <<"default">>>>
      named == {i \in DOMAIN names : names[i] \in DOMAIN prices}
  IN prices[names[CHOOSE i \in named : \A k \in named : i <= k]]

EstimatedCost(usage, price) ==
  IF usage.input_tokens <= 0 /\ usage.output_tokens <= 0
  THEN IF usage.total_tokens <= 0 THEN 0 ELSE usage.total_tokens * price.input
  ELSE usage.input_tokens * price.input + usage.output_tokens * price.output

(* cost_policy_for: the threshold of the tenant, else the general one.     *)
AlertEstimatedCents(policies, tenant) ==
  IF tenant \in DOMAIN policies.tenant_cost_policies
  THEN OrElse(policies.tenant_cost_policies[tenant], policies.cost_alert_estimated_cents)
  ELSE policies.cost_alert_estimated_cents

BudgetStatus(cost, threshold) == IF cost >= 1000 * threshold THEN "alert" ELSE "ok"
=============================================================================
