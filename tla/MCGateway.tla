----------------------------- MODULE MCGateway -----------------------------
(* An instance of Gateway for TLC.                                         *)
EXTENDS Gateway, TLC

Credential(value, role, tenants) == [value |-> value, role |-> role, tenant_ids |-> tenants]

AdminKey == Credential("k1", "admin", {})
UserSession == Credential("c1", "customer", {"t1"})

OtherEvent(code) == [code |-> code, tenant_id |-> "t1"]

ChatEvent(tokens, cents) ==
  [code |-> ChatCode, tenant_id |-> "t1", session_id |-> "s1", provider |-> "p1",
   model |-> "m1", route |-> "knowledge", total_tokens |-> tokens, cache_hit |-> FALSE,
   usage_source |-> "estimated", estimated_cost_cents |-> cents,
   provider_billed_cost_cents |-> 0, budget_status |-> "ok"]

BillingRecord(tenant, session, model, tokens, cents) ==
  [tenant_id |-> tenant, session_id |-> session, provider |-> "p1", model |-> model,
   route |-> None, total_tokens |-> tokens, billed_cost_cents |-> cents]

Sends(credentials, route, tenant, events, records) ==
  [credentials |-> credentials, client |-> "ip1", forwarded |-> None, size |-> 1,
   route |-> route, tenant_id |-> tenant, events |-> events, records |-> records]

(* A turn of a user whom the host knows by its cookie; a request of the    *)
(* same user about another tenant; the import of the bill, together with a *)
(* record that belongs to nobody.                                          *)
Turn == Sends("auth.session" :> UserSession, "chat", "t1",
              <<OtherEvent("chat.route_decided"), ChatEvent(7, 3)>>, <<>>)
Stray == [Turn EXCEPT !.tenant_id = "t2"]
Import == Sends("auth.api_key" :> AdminKey @@ "auth.session" :> UserSession, "billing", None, <<>>,
                <<BillingRecord("t1", "s1", "m1", 5, 4), BillingRecord("t2", None, None, 2, 1)>>)

Requests == {Turn, Stray, Import}

Keys == {KeyOf(request) : request \in Requests}

AllBridges ==
  [registered |-> AuthBridges,
   enabled |-> {AuthBridges[i].plugin_id : i \in DOMAIN AuthBridges}]

Hosts == {"auth.session"}
=============================================================================
