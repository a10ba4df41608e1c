----------------------------- MODULE Diagnostics -----------------------------
(***************************************************************************)
(* The diagnostic events as data, and the cost report that is computed     *)
(* from them (runtime.py, admin.py, repositories/memory.py).  The newest   *)
(* event comes first.  Costs are whole numbers; the breakdown by a         *)
(* dimension is the same for provider, route and model; records without a  *)
(* model count under None, which the report labels as unknown.  A list of  *)
(* events is the set of their places: no figure depends on the order.      *)
(***************************************************************************)
EXTENDS Python, Integers, Sequences, FiniteSets, Functions

CONSTANT MaxEvents   \* what the store keeps: 200 in the code

ChatCode == "chat.cost_recorded"

BillingCode == "provider.billing_recorded"

Trimmed(events) ==
  SubSeq(events, 1, IF Len(events) > MaxEvents THEN MaxEvents ELSE Len(events))

(* add: the newest event pushes the oldest one out.                        *)
Added(events, event) == Trimmed(<<event>> \o events)

(* Fault: the file is read from its other end.                             *)
LoadReversed(stored) == [i \in DOMAIN stored |-> stored[Len(stored) + 1 - i]]

Load(stored) == stored

(* query, for a tenant or for all, and a code: the places of the events.   *)
Query(events, tenant, code) ==
  {i \in DOMAIN events :
     events[i].code = code /\ (tenant = None \/ events[i].tenant_id = tenant)}

(* The sum of a field of the events at some places.                        *)
Total(events, places, field) == SumFunction([i \in places |-> events[i][field]])

CostReconciliation(estimated, billed, sample) ==
  [estimated_cost_cents |-> estimated, provider_billed_cost_cents |-> billed,
   variance_cents |-> billed - estimated, has_provider_billing_sample |-> sample]

(* One bucket of a breakdown.                                              *)
Accumulated(events, places) ==
  LET sources(source) == {i \in places : events[i].usage_source = source}
      billing == Cardinality(sources("provider_billing"))
  IN [request_count |-> Cardinality(places),
      total_tokens |-> Total(events, places, "total_tokens"),
      cache_hits |-> Cardinality({i \in places : events[i].cache_hit}),
      provider_usage_records |-> Cardinality(sources("provider")),
      estimated_usage_records |-> Cardinality(sources("estimated")),
      provider_billing_records |-> billing,
      reconciliation |->
        CostReconciliation(Total(events, places, "estimated_cost_cents"),
                           Total(events, places, "provider_billed_cost_cents"), billing > 0)]

Breakdown(events, places, field) ==
  [value \in {events[i][field] : i \in places} |->
     Accumulated(events, {i \in places : events[i][field] = value})]

(* What a usage record is matched by; without a session by nothing.        *)
ReconciliationKey(event) ==
  IF event.session_id = None THEN None
  ELSE <<event.tenant_id, event.session_id, event.provider, event.model>>

(* The records without a partner among the others.                         *)
Unmatched(events, places, others) ==
  LET keys == {ReconciliationKey(events[i]) : i \in others} \ {None}
  IN {i \in places : ReconciliationKey(events[i]) \notin keys}

UsageReconciliation(events, chat, billing) ==
  LET unmatched == Cardinality(Unmatched(events, billing, chat))
      runtime == Total(events, chat, "total_tokens")
      provider == Total(events, billing, "total_tokens")
  IN [runtime_total_tokens |-> runtime,
      provider_total_tokens |-> provider,
      usage_variance_tokens |-> provider - runtime,
      matched_record_count |-> Cardinality(billing) - unmatched,
      unmatched_provider_record_count |-> unmatched,
      unmatched_runtime_record_count |-> Cardinality(Unmatched(events, chat, billing)),
      weak_attribution_provider_record_count |->
        Cardinality({i \in billing : events[i].session_id = None}),
      has_provider_billing_sample |-> billing # {}]

CostSummary(events, tenant) ==
  LET chat == Query(events, tenant, ChatCode)
      billing == Query(events, tenant, BillingCode)
      all == chat \cup billing
  IN [total |-> Accumulated(events, all),
      budget_alerts |-> Cardinality({i \in all : events[i].budget_status = "alert"}),
      usage |-> UsageReconciliation(events, chat, billing),
      by_provider |-> Breakdown(events, all, "provider"),
      by_route |-> Breakdown(events, all, "route"),
      by_model |-> Breakdown(events, all, "model")]
=============================================================================
