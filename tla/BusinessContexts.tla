-------------------------- MODULE BusinessContexts --------------------------
(***************************************************************************)
(* The business context of a request: the industry that is detected from   *)
(* what the host page sends and what the user writes, and what the         *)
(* enrichers add.  The context a host sends is a record of its industry,   *)
(* the type of the page, the business objects of the page, the fields      *)
(* beside them, behaviour signals and the format of the answer.  A message *)
(* is a record of what its text contains.                                  *)
(***************************************************************************)
EXTENDS Plugins

Industries == {"ecommerce", "saas", "education", "logistics", "crm"}

(* Parameters of tools, which are also the keys of business objects.       *)
ObjectField ==
  {"order_id", "after_sale_id", "tracking_no", "carrier_code", "account_id",
   "subscription_id", "ticket_id", "course_id", "student_id", "waybill_id",
   "claim_id", "customer_id"}

NoObjects == [f \in ObjectField |-> None]

-----------------------------------------------------------------------------
(* The industry adapters.                                                  *)
ConfiguredIndustry(id, industry, page_types, preferred_tools) ==
  [plugin_id |-> id, kind |-> "industry_adapter", priority |-> 400, tenant_scopes |-> {},
   industry_scopes |-> {}, channel_scopes |-> {}, industry |-> industry,
   page_types |-> page_types, preferred_tools |-> preferred_tools]

EcommerceIndustry ==
  ConfiguredIndustry("industry.ecommerce", "ecommerce",
    {"product_detail", "order_detail", "after_sale_detail"},
    {"order_status", "after_sale_status", "logistics_tracking"})

SaaSIndustry ==
  ConfiguredIndustry("industry.saas", "saas", {"billing", "organization", "permission"},
    {"account_lookup", "subscription_lookup", "ticket_lookup"})

EducationIndustry ==
  ConfiguredIndustry("industry.education", "education", {"course_detail", "learning", "exam"},
    {"course_lookup", "progress_lookup"})

LogisticsIndustry ==
  ConfiguredIndustry("industry.logistics", "logistics", {"tracking", "claim"},
    {"waybill_lookup", "claim_lookup", "logistics_tracking"})

CRMIndustry ==
  ConfiguredIndustry("industry.crm", "crm", {"customer_profile", "service_ticket"},
    {"crm_profile", "ticket_lookup", "account_lookup"})

IndustryPlugins ==
  <<EcommerceIndustry, SaaSIndustry, EducationIndustry, LogisticsIndustry, CRMIndustry>>

(* match_industry: the confidence, in hundredths, that a request is of the *)
(* adapter's industry; 0 when it does not match.                           *)
MatchIndustry(adapter, sent, message) ==
  IF sent.industry = adapter.industry THEN 99
  ELSE IF sent.page_type \in adapter.page_types THEN 80
  ELSE IF message # None /\ adapter.industry \in message.industries THEN 65
  ELSE 0

(* IndustryService.detect: the surest adapter, the first of equals, unless *)
(* the host names the industry, known or not.                              *)
Detect(registry, tenant, channel, sent, message) ==
  LET adapters == Resolve(registry, "industry_adapter", tenant, sent.industry, channel)
      sure(i) == MatchIndustry(adapters[i], sent, message)
      best == {i \in DOMAIN adapters : /\ sure(i) > 0
                                       /\ \A k \in DOMAIN adapters : sure(k) <= sure(i)}
  IN IF sent.industry # None THEN sent.industry
     ELSE IF best = {} THEN None
     ELSE adapters[CHOOSE i \in best : \A k \in best : i <= k].industry

(* IndustryService.enrich: an adapter that still matches the industry,     *)
(* without the message, adds its preferred tools; the last one stays.      *)
PreferredTools(registry, tenant, channel, sent, industry) ==
  LET adapters == Resolve(registry, "industry_adapter", tenant, industry, channel)
      named == {i \in DOMAIN adapters : /\ adapters[i].industry = industry
                                        /\ MatchIndustry(adapters[i], sent, None) > 0}
  IN IF industry = None \/ named = {} THEN {}
     ELSE adapters[CHOOSE i \in named : \A k \in named : k <= i].preferred_tools

-----------------------------------------------------------------------------
(* The enrichers: each adds one part of the context while it is enabled.   *)
PageContextEnricher == Descriptor("context.page", "context_enricher", 300)

BusinessObjectEnricher == Descriptor("context.business_object", "context_enricher", 280)

UserProfileEnricher == Descriptor("context.user_profile", "context_enricher", 260)

BehaviorSignalsEnricher == Descriptor("context.behavior_signals", "context_enricher", 240)

SessionInsightsEnricher == Descriptor("context.session_insights", "context_enricher", 220)

EnricherPlugins ==
  <<PageContextEnricher, BusinessObjectEnricher, UserProfileEnricher,
    BehaviorSignalsEnricher, SessionInsightsEnricher>>

NoBehavior == [frustrated |-> FALSE, repeat_contact_7d |-> 0]

(* The context of an industry.                                             *)
Enriched(registry, tenant, channel, sent, industry) ==
  LET enrichers == Resolve(registry, "context_enricher", tenant, industry, channel)
      runs(enricher) == \E i \in DOMAIN enrichers : enrichers[i] = enricher
  IN [tenant_id |-> tenant, channel |-> channel, industry |-> industry,
      page_type |-> IF runs(PageContextEnricher) THEN sent.page_type ELSE None,
      business_objects |-> IF runs(BusinessObjectEnricher) THEN sent.business_objects
                           ELSE NoObjects,
      behavior_signals |-> IF runs(BehaviorSignalsEnricher) THEN sent.behavior_signals
                           ELSE NoBehavior,
      preferred_tools |-> PreferredTools(registry, tenant, channel, sent, industry),
      integration_context |-> sent]

(* BusinessContextBuilder.build.                                           *)
Build(registry, tenant, channel, sent, message) ==
  Enriched(registry, tenant, channel, sent, Detect(registry, tenant, channel, sent, message))

-----------------------------------------------------------------------------
(* KnowledgeDomainManager.resolve_primary: the base the caller names, else *)
(* the tenant's base for the industry, the tenant's default, and the same  *)
(* of the mapping that serves all tenants.  A mapping is a function from   *)
(* industries and "default" to bases or None; domains maps tenants and     *)
(* "default" to mappings or None.                                          *)
BaseOf(mapping, industry) ==
  IF mapping = None THEN None
  ELSE IF industry \in DOMAIN mapping /\ mapping[industry] # None THEN mapping[industry]
  ELSE mapping["default"]

ResolvePrimary(domains, tenant, industry, explicit) ==
  LET own == IF tenant \in DOMAIN domains THEN BaseOf(domains[tenant], industry) ELSE None
  IN IF explicit # None THEN explicit
     ELSE IF own # None THEN own
     ELSE BaseOf(domains["default"], industry)
=============================================================================
