----------------------------- MODULE MCChatTurn -----------------------------
(* Instances of ChatTurn for TLC.                                          *)
EXTENDS ChatTurn, TLC

NoIds == NoObjects

Says(tools, flags) ==
  [terms |-> TRUE, risk |-> "risk" \in flags, human |-> "human" \in flags,
   returns |-> "returns" \in flags, question |-> "question" \in flags,
   followup |-> "followup" \in flags, tools |-> tools, page_tools |-> tools,
   ids |-> NoIds, industries |-> {}]

Sends(page, objects, format) ==
  [industry |-> None, page_type |-> page, business_objects |-> objects, fields |-> NoObjects,
   behavior_signals |-> NoBehavior, response_format |-> format]

Asks(message, sent, stream) ==
  [message |-> message, sent |-> sent, host_auth |-> FALSE, base |-> None, stream |-> stream]

Nothing == Sends(None, NoObjects, None)

OrderOnPage(page, format) == Sends(page, [NoObjects EXCEPT !["order_id"] = "ORD-1001"], format)

(* A question, streamed; words that say nothing; an order on its page, and *)
(* the risk of an order, which goes on about it if that was before; and a  *)
(* question back to the intent before, by a user the host knows.           *)
Question == Asks(Says({}, {"question"}), Nothing, TRUE)
Unclear == Asks(Says({}, {}), Nothing, FALSE)
Order == Asks(Says({"order_status"}, {}), OrderOnPage("order_detail", "structured"), FALSE)
Risky == Asks(Says({"order_status"}, {"risk", "followup"}), OrderOnPage(None, None), FALSE)
Back == [Asks(Says({}, {"question", "returns", "followup"}), Nothing, FALSE)
           EXCEPT !.host_auth = TRUE]

Requests == {Question, Unclear, Order, Risky, Back}

Chunk(id, score) ==
  [chunk_id |-> id, version_id |-> "v1", score |-> score, overlap |-> 40, source |-> 1,
   position |-> 1]

(* A middling chunk, good enough for the milder policies only, before a    *)
(* poor one, and chunks that no search found.                              *)
Finds ==
  {[hits |-> <<Chunk("c1", 40), Chunk("c2", 10)>>, chunks |-> <<>>],
   [hits |-> <<>>, chunks |-> <<Chunk("c2", 10)>>]}

DomainMap == "default" :> ("default" :> "kb_support")

RemoteAnswers == {[confidence |-> 78, usage |-> Usage(50, 20, 70, FALSE)]}

PriceTable == <<"default">> :> [input |-> 10, output |-> 30]

Base ==
  [knowledge_top_k |-> 3, knowledge_min_score |-> 18, handoff_confidence_threshold |-> 45,
   route_fallback_confidence_threshold |-> 55, route_handoff_confidence_threshold |-> 30,
   intent_stack_max_depth |-> 6, response_cache_enabled |-> TRUE,
   cost_alert_estimated_cents |-> 50, tenant_cost_policies |-> "t1" :> 1,
   default_model |-> None, route_model_map |-> "knowledge" :> None]

(* The default policies, and stricter ones with a shallow stack.           *)
Strict ==
  [Base EXCEPT !.knowledge_min_score = 60, !.handoff_confidence_threshold = 85,
               !.intent_stack_max_depth = 2]

Policies == {Base, Strict}

Symmetry == Permutations(Turn)
=============================================================================
