------------------------------- MODULE Gateway -------------------------------
(***************************************************************************)
(* What every HTTP request goes through (app.py, application/auth.py,      *)
(* application/access.py, api/routes.py): the limits of the middleware,    *)
(* the bridge that authenticates it, the guards of its route, its handler. *)
(* The handlers here are the two that write the cost records among the     *)
(* diagnostic events, from which the cost report is computed; the events   *)
(* outlive the process, the buckets of the limiter do not.                 *)
(*                                                                         *)
(* A credential is a record of its value, and of the role and tenants it   *)
(* stands for, role None if nobody knows it; headers and cookies hold at   *)
(* most one for each bridge.                                               *)
(***************************************************************************)
EXTENDS RateLimiter, Diagnostics, Plugins

CONSTANTS
  Request,         \* what is sent: credentials, addresses, route and payload
  Configured,      \* the bridges the settings hold values for
  Bridges,         \* the registry: the plugins and the enabled ones
  TrustForwarded,  \* trust_x_forwarded_for
  MaxBytes,        \* max_request_bytes
  MaxLog           \* bound: events written

VARIABLES
  added,         \* added[request]: how many of its events the handler added,
                 \* None if none runs
  diagnostics,   \* the events in memory, the newest first
  stored,        \* diagnostics.json
  log,           \* every event that was added, the oldest first: no code reads it
  durable        \* how many of them the file has seen: no code reads it

ledgerVars == <<diagnostics, stored, log, durable>>

vars == <<limiterVars, added, ledgerVars>>

-----------------------------------------------------------------------------
(* The middleware.                                                         *)
ResolveClientIp(request) ==
  IF TrustForwarded /\ request.forwarded # None THEN request.forwarded ELSE request.client

Carries(request, bridge) == bridge \in DOMAIN request.credentials

(* The bucket of a request goes by the first credential it carries,        *)
(* without asking whether anybody knows it.                                *)
RateLimitSubject(request) ==
  LET order == <<"auth.api_key", "auth.jwt", "auth.custom_token", "auth.session">>
      carried == SelectSeq(order, LAMBDA bridge : Carries(request, bridge))
  IN IF carried = <<>> THEN <<"ip", ResolveClientIp(request)>>
     ELSE <<carried[1], request.credentials[carried[1]].value>>

KeyOf(request) == <<RateLimitSubject(request), request.route>>

(* The bridges, in the order of their priorities.                          *)
ApiKeyAuthBridge == Descriptor("auth.api_key", "auth_bridge", 1000)
SessionAuthBridge == Descriptor("auth.session", "auth_bridge", 700)
JWTAuthBridge == Descriptor("auth.jwt", "auth_bridge", 650)
CustomTokenAuthBridge == Descriptor("auth.custom_token", "auth_bridge", 600)

AuthBridges == <<ApiKeyAuthBridge, SessionAuthBridge, JWTAuthBridge, CustomTokenAuthBridge>>

(* can_handle: the api key bridge needs no settings for that.              *)
CanHandle(bridge, request) ==
  /\ Carries(request, bridge.plugin_id)
  /\ bridge = ApiKeyAuthBridge \/ bridge.plugin_id \in Configured

(* The first bridge that can handle a request decides: None is a 401, also *)
(* where another bridge would know a credential of it.                     *)
Authenticate(request) ==
  LET can(bridge) == CanHandle(bridge, request)
      bridge == FirstSuch(Resolve(Bridges, "auth_bridge", None, None, None), can)
  IN IF bridge = None \/ request.credentials[bridge.plugin_id].role = None THEN None
     ELSE request.credentials[bridge.plugin_id]

ValidateTenantAccess(credential, tenant) ==
  credential.role = "admin" \/ tenant \in credential.tenant_ids

RequireAdmin(credential) == credential.role = "admin"

(* The guards of the handlers.                                             *)
Admitted(request) ==
  LET credential == Authenticate(request)
  IN /\ credential # None
     /\ CASE request.route = "chat" -> ValidateTenantAccess(credential, request.tenant_id)
          [] request.route = "billing" ->
               /\ RequireAdmin(credential)
               /\ \A i \in DOMAIN request.records :
                    ValidateTenantAccess(credential, request.records[i].tenant_id)

-----------------------------------------------------------------------------
(* The handlers.                                                           *)
BillingEvent(record) ==
  [code |-> BillingCode, tenant_id |-> record.tenant_id, session_id |-> record.session_id,
   provider |-> record.provider, model |-> record.model,
   route |-> IF record.route = None THEN "provider_billing" ELSE record.route,
   total_tokens |-> record.total_tokens, cache_hit |-> FALSE,
   usage_source |-> "provider_billing", estimated_cost_cents |-> 0,
   provider_billed_cost_cents |-> record.billed_cost_cents, budget_status |-> None]

(* The events a handler adds, one after the other: record_provider_billing *)
(* and, in the course of a turn, process_message.                          *)
Events(request) ==
  CASE request.route = "billing" -> [i \in DOMAIN request.records |-> BillingEvent(request.records[i])]
    [] request.route = "chat" -> request.events

Event ==
  UNION {{Events(request)[i] : i \in DOMAIN Events(request)} : request \in Request}

(* An import has at least one record (ProviderBillingImportRequest).  The  *)
(* events of a turn are no billing records, and no provider has billed     *)
(* what they count (_record_cost); records and turns count in numbers.     *)
ASSUME GatewayAssumption ==
  /\ MaxEvents \in Nat
  /\ None \notin Nat
  /\ \A request \in Request : /\ KeyOf(request) \in Key
                              /\ request.route \in {"chat", "billing"}
                              /\ Events(request) \in Seq(Event) \ {<<>>}
  /\ \A request \in Request : request.route = "billing" =>
       \A i \in DOMAIN request.records : /\ request.records[i].total_tokens \in Int
                                         /\ request.records[i].billed_cost_cents \in Int
  /\ \A request \in Request : request.route = "chat" =>
       \A i \in DOMAIN request.events :
         LET event == request.events[i]
         IN /\ event.code # BillingCode
            /\ event.code = ChatCode => /\ event.total_tokens \in Int
                                        /\ event.estimated_cost_cents \in Int
                                        /\ event.provider_billed_cost_cents = 0
  /\ \A event \in Event : event.code \in {ChatCode, BillingCode} =>
       <<event.tenant_id, event.session_id, event.provider, event.model>> # None

(* Only turns await between two of their events.                           *)
Uninterrupted(request) ==
  \A other \in Request \ {request} : other.route = "billing" => added[other] \in {None, 0}

(* A request that is too large changes nothing.  Another one takes its     *)
(* token before anybody asks who sends it.                                 *)
Arrive(request) ==
  /\ request.size <= MaxBytes
  /\ added[request] = None
  /\ Uninterrupted(request)
  /\ Allow(KeyOf(request)) \/ Deny(KeyOf(request))
  /\ added' = IF Refilled(KeyOf(request)) >= Token /\ Admitted(request)
              THEN [added EXCEPT ![request] = 0] ELSE added
  /\ UNCHANGED ledgerVars

(* The handler adds its next event; after the last one it is done.  If the *)
(* write fails it raises, with the event in memory.                        *)
RecordNext(request) ==
  /\ added[request] # None
  /\ Uninterrupted(request)
  /\ Len(log) < MaxLog
  /\ LET n == added[request] + 1
     IN /\ diagnostics' = Added(diagnostics, Events(request)[n])
        /\ log' = Append(log, Events(request)[n])
        /\ \/ /\ stored' = diagnostics'
              /\ durable' = Len(log')
              /\ added' = [added EXCEPT ![request] = IF n = Len(Events(request)) THEN None ELSE n]
           \/ /\ added' = [added EXCEPT ![request] = None]
              /\ UNCHANGED <<stored, durable>>
  /\ UNCHANGED limiterVars

(* The handler of a turn raises; no event tells of it.                     *)
Raise(request) ==
  /\ request.route = "chat" /\ added[request] # None
  /\ Uninterrupted(request)
  /\ added' = [added EXCEPT ![request] = None]
  /\ UNCHANGED <<limiterVars, ledgerVars>>

(* Another process starts, after a crash at any time.                      *)
Restart ==
  /\ ForgetAll
  /\ added' = [request \in Request |-> None]
  /\ diagnostics' = Load(stored)
  /\ log' = SubSeq(log, 1, durable)
  /\ UNCHANGED <<stored, durable>>

Init ==
  /\ InitLimiter
  /\ added = [request \in Request |-> None]
  /\ diagnostics = <<>> /\ stored = <<>>
  /\ log = <<>> /\ durable = 0

Next ==
  \/ \E request \in Request : Arrive(request) \/ RecordNext(request) \/ Raise(request)
  \/ Tick /\ UNCHANGED <<added, ledgerVars>>
  \/ Restart

Spec == Init /\ [][Next]_vars

-----------------------------------------------------------------------------
(* The cost report tells of the newest events, the last MaxEvents that     *)
(* were added and nothing else, whatever failed, was restarted or imported *)
(* in between (get_cost_summary, InMemoryDiagnosticsRepository).  In it    *)
(* the parts of a breakdown make up the whole, every provider record is    *)
(* matched or not, and a turn goes without a match exactly if no record of *)
(* its session, provider and model is there.                               *)
ReportsFollowTheLog ==
  \A tenant \in {request.tenant_id : request \in Request} :
    LET first == IF Len(log) > MaxEvents THEN Len(log) - MaxEvents + 1 ELSE 1
        told_of(code) == {i \in first .. Len(log) :
                            log[i].code = code /\ (tenant = None \/ log[i].tenant_id = tenant)}
        chat == told_of(ChatCode)
        billing == told_of(BillingCode)
        report == CostSummary(diagnostics, tenant)
        sum(places, field) == SumFunction([i \in places |-> log[i][field]])
        match(i, j) == /\ log[i].session_id # None /\ log[i].session_id = log[j].session_id
                       /\ log[i].tenant_id = log[j].tenant_id
                       /\ log[i].provider = log[j].provider /\ log[i].model = log[j].model
        parts(breakdown, part) ==
          SumFunction([value \in DOMAIN breakdown |-> breakdown[value][part]])
    IN /\ report.total.request_count = Cardinality(chat \cup billing)
       /\ report.total.total_tokens = sum(chat \cup billing, "total_tokens")
       /\ report.total.reconciliation.variance_cents =
            sum(billing, "provider_billed_cost_cents") - sum(chat, "estimated_cost_cents")
       /\ \A breakdown \in {report.by_provider, report.by_route, report.by_model},
             part \in {"request_count", "total_tokens", "cache_hits", "provider_usage_records",
                       "estimated_usage_records", "provider_billing_records"} :
            parts(breakdown, part) = report.total[part]
       /\ report.usage.usage_variance_tokens =
            sum(billing, "total_tokens") - sum(chat, "total_tokens")
       /\ report.usage.matched_record_count =
            Cardinality({j \in billing : \E i \in chat : match(i, j)})
       /\ report.usage.matched_record_count + report.usage.unmatched_provider_record_count =
            Cardinality(billing)
       /\ report.usage.unmatched_runtime_record_count =
            Cardinality({i \in chat : \A j \in billing : ~match(i, j)})
=============================================================================
