---------------------------- MODULE IntentRouting ----------------------------
(***************************************************************************)
(* Where a message goes: the route plugins, the candidate that continues   *)
(* or returns to an earlier intent of the session, the signals of the page *)
(* that raise or lower a confidence, and the escalation of repeated low    *)
(* confidence.  Confidences are in hundredths, as in the code.             *)
(*                                                                         *)
(* A message is a record of what its text contains: words for risk, for a  *)
(* human, for returning, of a question; the tools whose keywords it has,   *)
(* and those whose words it has on a page; whether it reads as a follow-up *)
(* (short, or referring back); the identifiers; the industries.            *)
(***************************************************************************)
EXTENDS BusinessTools

RiskRoute == Descriptor("route.risk", "route_strategy", 1000)
HumanRequestRoute == Descriptor("route.human_request", "route_strategy", 950)
BusinessIntentRoute == Descriptor("route.business_intent", "route_strategy", 800)
KnowledgeQuestionRoute == Descriptor("route.knowledge", "route_strategy", 500)
FallbackRoute == Descriptor("route.fallback", "route_strategy", 1)

RoutePlugins ==
  <<RiskRoute, HumanRequestRoute, BusinessIntentRoute, KnowledgeQuestionRoute, FallbackRoute>>

(* The tools in the order of the keyword map.                              *)
KeywordOrder == [i \in DOMAIN ToolPlugins |-> ToolPlugins[i].tool_name]

PageTool ==
  [order_detail |-> "order_status", after_sale_detail |-> "after_sale_status",
   tracking |-> "logistics_tracking", billing |-> "subscription_lookup",
   organization |-> "account_lookup", permission |-> "account_lookup",
   service_ticket |-> "ticket_lookup", course_detail |-> "course_lookup",
   learning |-> "progress_lookup", claim |-> "claim_lookup", customer_profile |-> "crm_profile"]

(* The tool of a page, or None.                                            *)
ToolOfPage(page_type) == IF page_type \in DOMAIN PageTool THEN PageTool[page_type] ELSE None

ToolsNamed(tool_name) ==
  {p \in {ToolPlugins[i] : i \in DOMAIN ToolPlugins} : p.tool_name = tool_name}

(* tool_context_keys are the parameters of the tool.                       *)
ContextKeys(tool_name) ==
  UNION {p.required_parameters \cup p.optional_parameters : p \in ToolsNamed(tool_name)}

(* extract_tool_parameters: the identifier of the tool's first parameter.  *)
ExtractToolParameters(tool_name, message) ==
  [f \in ObjectField |->
     IF \E p \in ToolsNamed(tool_name) : f \in p.required_parameters THEN message.ids[f] ELSE None]

-----------------------------------------------------------------------------
(* What is optional may be None.                                           *)
Maybe(S) == S \cup {None}

Objects == [ObjectField -> Maybe(STRING)]

Route == {"knowledge", "business", "handoff", "risk", "fallback"}

Intent ==
  ToolName \cup {"risk", "human_request", "knowledge_question", "fallback_clarification",
                 "low_confidence_handoff"}

Confidence == 0 .. 99

(* Snapshots of page and objects.                                          *)
Snapshot == [page_type : Maybe(STRING), business_objects : Objects]

NoSnapshot == [page_type |-> None, business_objects |-> NoObjects]

ContextSnapshot(context) ==
  [page_type |-> context.page_type, business_objects |-> context.business_objects]

OrElse(value, other) == IF value = None THEN other ELSE value

MergeSnapshot(base, incoming) ==
  [page_type |-> OrElse(incoming.page_type, base.page_type),
   business_objects |->
     [f \in ObjectField |-> OrElse(incoming.business_objects[f], base.business_objects[f])]]

ContextSupportsTool(tool_name, snapshot) ==
  ContextKeys(tool_name) \cap Given(snapshot.business_objects) # {}

(* apply_context_snapshot: the context of the turn that follows a decision *)
(* gains what the snapshot remembers.                                      *)
ApplyContextSnapshot(context, snapshot) ==
  LET objects == [f \in ObjectField |->
                    OrElse(context.business_objects[f], snapshot.business_objects[f])]
      sent == [f \in ObjectField |->
                 OrElse(context.integration_context.business_objects[f],
                        snapshot.business_objects[f])]
      page == OrElse(context.page_type, snapshot.page_type)
  IN [context EXCEPT
        !.page_type = page,
        !.business_objects = objects,
        !.integration_context.page_type = IF context.page_type = None THEN OrElse(page, @) ELSE @,
        !.integration_context.business_objects = sent]

-----------------------------------------------------------------------------
(* The intent stack.                                                       *)
Frame ==
  [intent : Intent, route : Route, tool_name : Maybe(ToolName), confidence : Confidence,
   low_confidence_count : Nat, context_snapshot : Snapshot]

ActiveIntent(stack) == IF stack = <<>> THEN None ELSE stack[Len(stack)]

PreviousIntent(stack) == IF Len(stack) < 2 THEN None ELSE stack[Len(stack) - 1]

SameIntent(a, b) == a.intent = b.intent /\ a.route = b.route /\ a.tool_name = b.tool_name

(* Fault: a count begins at zero for an intent that is new on the stack.   *)
RecordFromZero(stack, decision, max_depth) ==
  LET low == decision.confidence_band = "low"
      top == ActiveIntent(stack)
      count(frame) == IF low THEN frame.low_confidence_count + 1 ELSE 0
      frame(n) == [intent |-> decision.intent, route |-> decision.route,
                   tool_name |-> decision.tool_name, confidence |-> decision.confidence,
                   low_confidence_count |-> n, context_snapshot |-> decision.context_snapshot]
      next == IF top # None /\ SameIntent(top, decision)
              THEN [stack EXCEPT ![Len(stack)] = frame(count(top))]
              ELSE Append(stack, frame(0))
  IN SubSeq(next, IF Len(next) > max_depth THEN Len(next) - max_depth + 1 ELSE 1, Len(next))

(* SessionService.record_route_decision: the frame of the same intent is   *)
(* replaced, another is pushed, and the oldest ones fall out.              *)
RecordRouteDecision(stack, decision, max_depth) ==
  LET low == decision.confidence_band = "low"
      top == ActiveIntent(stack)
      previous == PreviousIntent(stack)
      again(frame) == IF low THEN frame.low_confidence_count + 1 ELSE 0
      frame(n) == [intent |-> decision.intent, route |-> decision.route,
                   tool_name |-> decision.tool_name, confidence |-> decision.confidence,
                   low_confidence_count |-> n, context_snapshot |-> decision.context_snapshot]
      next == IF top # None /\ SameIntent(top, decision)
              THEN [stack EXCEPT ![Len(stack)] = frame(again(top))]
              ELSE IF previous # None /\ SameIntent(previous, decision)
              THEN Append(stack, frame(again(previous)))
              ELSE Append(stack, frame(IF low THEN 1 ELSE 0))
  IN SubSeq(next, IF Len(next) > max_depth THEN Len(next) - max_depth + 1 ELSE 1, Len(next))

-----------------------------------------------------------------------------
(* A decision, or a candidate for it.                                      *)
DecisionRecord ==
  [route : Route, confidence : Confidence, intent : Intent, tool_name : Maybe(ToolName),
   requires_handoff : BOOLEAN, context_snapshot : Snapshot,
   confidence_band : {"high", "medium", "low"}]

Decision(route, confidence, intent, tool_name, requires_handoff, snapshot) ==
  [route |-> route, confidence |-> confidence, intent |-> intent, tool_name |-> tool_name,
   requires_handoff |-> requires_handoff, context_snapshot |-> snapshot,
   confidence_band |-> "low"]

(* Fault: nothing bounds a confidence from above.                          *)
ClampBelow(confidence) == IF confidence < 0 THEN 0 ELSE confidence

Clamp(confidence) ==
  IF confidence > 99 THEN 99 ELSE IF confidence < 0 THEN 0 ELSE confidence

AtLeast(confidence, least) == Clamp(IF confidence > least THEN confidence ELSE least)

(* Fault: a risk is less sure than a tool with its page and objects.       *)
MatchRiskUnsure(message) ==
  IF message.risk THEN Decision("risk", 90, "risk", None, TRUE, NoSnapshot) ELSE None

(* match of each route plugin: a decision, or None.                        *)
MatchRisk(message) ==
  IF message.risk THEN Decision("risk", 98, "risk", None, TRUE, NoSnapshot) ELSE None

MatchHumanRequest(message) ==
  IF message.human THEN Decision("handoff", 99, "human_request", None, TRUE, NoSnapshot) ELSE None

(* The first tool, in the order of the map, with a keyword in the message. *)
MatchBusinessIntent(message) ==
  LET named(tool) == tool \in message.tools
      first == FirstSuch(KeywordOrder, named)
  IN IF first = None THEN None ELSE Decision("business", 88, first, first, FALSE, NoSnapshot)

MatchKnowledgeQuestion(message) ==
  IF message.question THEN Decision("knowledge", 72, "knowledge_question", None, FALSE, NoSnapshot)
  ELSE None

MatchFallback == Decision("fallback", 36, "fallback_clarification", None, FALSE, NoSnapshot)

MatchRoute(plugin, message) ==
  CASE plugin = RiskRoute -> MatchRisk(message)
    [] plugin = HumanRequestRoute -> MatchHumanRequest(message)
    [] plugin = BusinessIntentRoute -> MatchBusinessIntent(message)
    [] plugin = KnowledgeQuestionRoute -> MatchKnowledgeQuestion(message)
    [] plugin = FallbackRoute -> MatchFallback

(* _infer_tool_from_context.                                               *)
InferTool(message, context, active) ==
  IF ToolOfPage(context.page_type) \in message.page_tools THEN ToolOfPage(context.page_type)
  ELSE IF active # None /\ message.followup THEN active.tool_name
  ELSE None

(* _build_contextual_candidate: back to the previous intent, on with the   *)
(* active one, or the tool of the page.                                    *)
ReturnCandidate(message, snapshot, stack) ==
  LET previous == PreviousIntent(stack)
  IN IF message.returns /\ previous # None
     THEN Decision(previous.route, AtLeast(previous.confidence, 84), previous.intent,
                   previous.tool_name, FALSE, MergeSnapshot(previous.context_snapshot, snapshot))
     ELSE None

ContinueCandidate(message, snapshot, active) ==
  LET merged == MergeSnapshot(active.context_snapshot, snapshot)
  IN IF /\ active # None
        /\ active.route = "business" /\ active.tool_name # None
        /\ message.followup
        /\ ContextSupportsTool(active.tool_name, merged)
     THEN Decision("business", AtLeast(active.confidence, 80), active.intent, active.tool_name,
                   FALSE, merged)
     ELSE None

InferCandidate(message, context, active) ==
  LET tool == InferTool(message, context, active)
      merged == MergeSnapshot(IF active = None THEN NoSnapshot ELSE active.context_snapshot,
                              ContextSnapshot(context))
  IN IF tool = None THEN None
     ELSE Decision("business", IF ContextSupportsTool(tool, merged) THEN 78 ELSE 62, tool, tool,
                   FALSE, merged)

ContextualCandidate(message, context, stack) ==
  LET active == ActiveIntent(stack)
      snapshot == ContextSnapshot(context)
      back == ReturnCandidate(message, snapshot, stack)
      on == ContinueCandidate(message, snapshot, active)
  IN IF back # None THEN back
     ELSE IF on # None THEN on
     ELSE InferCandidate(message, context, active)

(* _apply_contextual_signals.                                              *)
Signalled(decision, message, context, stack) ==
  LET active == ActiveIntent(stack)
      own == ContextSnapshot(context)
      same == active # None /\ active.tool_name = decision.tool_name /\ message.followup
      snapshot == IF same THEN MergeSnapshot(active.context_snapshot, own) ELSE own
      c0 == IF same THEN Clamp(decision.confidence + 5) ELSE decision.confidence
      c1 == IF ContextSupportsTool(decision.tool_name, snapshot) THEN Clamp(c0 + 8) ELSE c0
      c2 == IF ToolOfPage(context.page_type) = decision.tool_name THEN Clamp(c1 + 6) ELSE c1
  IN IF decision.route = "business"
     THEN [decision EXCEPT !.confidence = c2, !.context_snapshot = snapshot]
     ELSE IF /\ decision.route = "knowledge"
             /\ active # None /\ active.route = "business" /\ message.followup
     THEN [decision EXCEPT !.confidence = Clamp(@ - 12),
                           !.context_snapshot = MergeSnapshot(active.context_snapshot, own)]
     ELSE [decision EXCEPT !.context_snapshot = own]

(* _should_escalate_low_confidence.                                        *)
ShouldEscalate(context, stack) ==
  \/ context.behavior_signals.frustrated
  \/ context.behavior_signals.repeat_contact_7d >= 2
  \/ ActiveIntent(stack) # None /\ ActiveIntent(stack).low_confidence_count >= 1

ConfidenceBand(confidence, fallback_threshold) ==
  IF confidence >= 85 THEN "high" ELSE IF confidence >= fallback_threshold THEN "medium" ELSE "low"

(* _apply_confidence_strategy.                                             *)
WithStrategy(decision, context, stack, policies) ==
  LET threshold == policies.route_fallback_confidence_threshold
      snapshot == IF decision.context_snapshot = NoSnapshot THEN ContextSnapshot(context)
                  ELSE decision.context_snapshot
  IN IF decision.route \in {"handoff", "risk"}
     THEN [decision EXCEPT !.confidence_band = "high", !.context_snapshot = snapshot]
     ELSE IF decision.confidence >= threshold
     THEN [decision EXCEPT !.confidence_band = ConfidenceBand(decision.confidence, threshold),
                           !.context_snapshot = snapshot]
     ELSE IF \/ decision.confidence < policies.route_handoff_confidence_threshold
             \/ ShouldEscalate(context, stack)
     THEN Decision("handoff", decision.confidence, "low_confidence_handoff", None, TRUE, snapshot)
     ELSE Decision("fallback", decision.confidence, "fallback_clarification", None, FALSE, snapshot)

(* The candidates with their priorities and places: what the plugins match,*)
(* after the signals, and the contextual candidate, which comes first.     *)
Candidates(plugins, message, context, stack) ==
  {[decision |-> Signalled(MatchRoute(plugins[i], message), message, context, stack),
    priority |-> plugins[i].priority, place |-> i] :
      i \in {k \in DOMAIN plugins : MatchRoute(plugins[k], message) # None}}
  \cup {[decision |-> candidate, priority |-> 875, place |-> 0] :
           candidate \in {ContextualCandidate(message, context, stack)} \ {None}}

Better(a, b) ==
  \/ a.decision.confidence > b.decision.confidence
  \/ /\ a.decision.confidence = b.decision.confidence
     /\ a.priority > b.priority \/ (a.priority = b.priority /\ a.place <= b.place)

(* The surest candidate, then the one of highest priority, then the first. *)
Best(candidates, context) ==
  IF candidates = {}
  THEN Decision("fallback", 30, "fallback_clarification", None, FALSE, ContextSnapshot(context))
  ELSE (CHOOSE a \in candidates : \A b \in candidates : Better(a, b)).decision

Decide(registry, policies, message, context, stack) ==
  LET plugins == Resolve(registry, "route_strategy", context.tenant_id, context.industry,
                         context.channel)
  IN WithStrategy(Best(Candidates(plugins, message, context, stack), context),
                  context, stack, policies)
=============================================================================
