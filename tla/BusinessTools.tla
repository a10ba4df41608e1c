---------------------------- MODULE BusinessTools ----------------------------
(***************************************************************************)
(* Business tools: the built-in tool plugins, the catalog that lists them, *)
(* the checks of ToolService before a call, the provider that picks the    *)
(* plugin to call, and the local adapter they all end in.                  *)
(*                                                                         *)
(* The catalog and the registry both match scopes, and differ where the    *)
(* industry is unknown: the catalog then offers every tool, the registry   *)
(* none that is bound to an industry, and the provider calls the adapter   *)
(* without a plugin.                                                       *)
(***************************************************************************)
EXTENDS BusinessContexts

(* Parameters: for each field a value or None.                             *)
Given(parameters) == {f \in ObjectField : parameters[f] # None}

-----------------------------------------------------------------------------
(* The tool plugins.                                                       *)
AdapterBacked(id, tool_name, category, required, optional, industries) ==
  [plugin_id |-> id, kind |-> "business_tool", priority |-> 300, tenant_scopes |-> {},
   industry_scopes |-> industries, channel_scopes |-> {}, tool_name |-> tool_name,
   category |-> category, required_parameters |-> required, optional_parameters |-> optional,
   adapter_backed |-> TRUE]

OrderStatusTool ==
  AdapterBacked("tool.order_status", "order_status", "ecommerce", {"order_id"}, {}, {"ecommerce"})

AfterSaleStatusTool ==
  AdapterBacked("tool.after_sale_status", "after_sale_status", "ecommerce",
                {"after_sale_id"}, {}, {"ecommerce"})

LogisticsTrackingTool ==
  AdapterBacked("tool.logistics_tracking", "logistics_tracking", "ecommerce",
                {"tracking_no"}, {"carrier_code"}, {"ecommerce", "logistics"})

AccountLookupTool ==
  AdapterBacked("tool.account_lookup", "account_lookup", "crm", {"account_id"}, {}, {"crm", "saas"})

SubscriptionLookupTool ==
  AdapterBacked("tool.subscription_lookup", "subscription_lookup", "saas",
                {"subscription_id"}, {}, {"saas"})

TicketLookupTool ==
  AdapterBacked("tool.ticket_lookup", "ticket_lookup", "service", {"ticket_id"}, {}, {"saas", "crm"})

CourseLookupTool ==
  AdapterBacked("tool.course_lookup", "course_lookup", "education", {"course_id"}, {}, {"education"})

ProgressLookupTool ==
  AdapterBacked("tool.progress_lookup", "progress_lookup", "education",
                {"student_id"}, {"course_id"}, {"education"})

WaybillLookupTool ==
  AdapterBacked("tool.waybill_lookup", "waybill_lookup", "logistics", {"waybill_id"}, {}, {"logistics"})

ClaimLookupTool ==
  AdapterBacked("tool.claim_lookup", "claim_lookup", "logistics", {"claim_id"}, {}, {"logistics"})

CRMProfileTool ==
  AdapterBacked("tool.crm_profile", "crm_profile", "crm", {"customer_id"}, {}, {"crm"})

ToolPlugins ==
  <<OrderStatusTool, AfterSaleStatusTool, LogisticsTrackingTool, AccountLookupTool,
    SubscriptionLookupTool, TicketLookupTool, CourseLookupTool, ProgressLookupTool,
    WaybillLookupTool, ClaimLookupTool, CRMProfileTool>>

ToolName ==
  {"order_status", "after_sale_status", "logistics_tracking", "account_lookup",
   "subscription_lookup", "ticket_lookup", "course_lookup", "progress_lookup", "waybill_lookup",
   "claim_lookup", "crm_profile"}

(* Where a parameter that is not given is looked for, in this order.       *)
LookupContextAlias(context, field) ==
  LET sent == context.integration_context
  IN IF context.business_objects[field] # None THEN context.business_objects[field]
     ELSE IF sent.business_objects[field] # None THEN sent.business_objects[field]
     ELSE sent.fields[field]

(* resolve_parameters: only what is missing is taken from the context.  A  *)
(* host's own plugin takes the parameters as they are.                     *)
ResolveParameters(plugin, context, parameters) ==
  [f \in ObjectField |->
     IF /\ plugin.adapter_backed
        /\ parameters[f] = None
        /\ f \in plugin.required_parameters \cup plugin.optional_parameters
     THEN LookupContextAlias(context, f) ELSE parameters[f]]

MissingParameters(plugin, context, parameters) ==
  plugin.required_parameters \ Given(ResolveParameters(plugin, context, parameters))

-----------------------------------------------------------------------------
(* The catalog: a scope also matches what is unknown.                      *)
MatchesScope(scopes, candidate) == candidate = None \/ ScopeMatch(scopes, candidate)

CatalogScope(plugin, tenant, industry, channel) ==
  /\ MatchesScope(plugin.tenant_scopes, tenant)
  /\ MatchesScope(plugin.industry_scopes, industry)
  /\ MatchesScope(plugin.channel_scopes, channel)

(* list_tools, as the plugins of its entries.                              *)
ListTools(registry, tenant, industry, channel, include_disabled) ==
  LET tools == PluginsOf(registry, "business_tool")
  IN Those(tools, {i \in DOMAIN tools : /\ include_disabled \/ IsEnabled(registry, tools[i])
                                        /\ CatalogScope(tools[i], tenant, industry, channel)})

(* list_categories: the tools of each category and how many are enabled.   *)
ListCategories(registry, tenant, industry, channel, include_disabled) ==
  LET tools == ListTools(registry, tenant, industry, channel, include_disabled)
      of(category) == {i \in DOMAIN tools : tools[i].category = category}
  IN {[category |-> c, tool_count |-> Cardinality(of(c)),
       enabled_count |-> Cardinality({i \in of(c) : IsEnabled(registry, tools[i])})] :
        c \in {tools[i].category : i \in DOMAIN tools}}

(* get_plugin: the first tool of a name in the catalog, or None.           *)
GetPlugin(registry, tool_name, context, include_disabled) ==
  LET named(plugin) == plugin.tool_name = tool_name
  IN FirstSuch(ListTools(registry, context.tenant_id, context.industry, context.channel,
                         include_disabled), named)

(* The flag available of a serialized tool.                                *)
Available(registry, plugin, tenant, industry, channel) ==
  IsEnabled(registry, plugin) /\ CatalogScope(plugin, tenant, industry, channel)

-----------------------------------------------------------------------------
(* The records of the local adapter, and its answer to each tool.          *)
Orders == {"ORD-1001", "ORD-1002"}
AfterSales == {"AS-2001", "AS-2002"}
Logistics == {"YT-2001"}
Accounts == {"ACC-3001"}
Subscriptions == {"SUB-4001"}
Tickets == {"TK-5001"}
Courses == {"COURSE-6001"}
Progress == {"STU-7001"}
Waybills == {"WB-8001"}
Claims == {"CLM-9001"}
CRMProfiles == {"CUS-10001"}

LocalLookup(records, id) ==
  IF id = None THEN "missing_parameter" ELSE IF id \in records THEN "success" ELSE "not_found"

LocalOrderStatus(q) == LocalLookup(Orders, q["order_id"])
LocalAfterSaleStatus(q) == LocalLookup(AfterSales, q["after_sale_id"])
LocalLogisticsTracking(q) == LocalLookup(Logistics, q["tracking_no"])
LocalAccountLookup(q) == LocalLookup(Accounts, q["account_id"])
LocalSubscriptionLookup(q) == LocalLookup(Subscriptions, q["subscription_id"])
LocalTicketLookup(q) == LocalLookup(Tickets, q["ticket_id"])
LocalCourseLookup(q) == LocalLookup(Courses, q["course_id"])
LocalProgressLookup(q) == LocalLookup(Progress, q["student_id"])
LocalWaybillLookup(q) == LocalLookup(Waybills, q["waybill_id"])
LocalClaimLookup(q) == LocalLookup(Claims, q["claim_id"])
LocalCRMProfile(q) == LocalLookup(CRMProfiles, q["customer_id"])

(* LocalBusinessAdapter.execute: the status of its result, or the code of  *)
(* the error it raises.                                                    *)
LocalExecute(tool_name, q) ==
  CASE tool_name = "order_status" -> LocalOrderStatus(q)
    [] tool_name = "after_sale_status" -> LocalAfterSaleStatus(q)
    [] tool_name = "logistics_tracking" -> LocalLogisticsTracking(q)
    [] tool_name = "account_lookup" -> LocalAccountLookup(q)
    [] tool_name = "subscription_lookup" -> LocalSubscriptionLookup(q)
    [] tool_name = "ticket_lookup" -> LocalTicketLookup(q)
    [] tool_name = "course_lookup" -> LocalCourseLookup(q)
    [] tool_name = "progress_lookup" -> LocalProgressLookup(q)
    [] tool_name = "waybill_lookup" -> LocalWaybillLookup(q)
    [] tool_name = "claim_lookup" -> LocalClaimLookup(q)
    [] tool_name = "crm_profile" -> LocalCRMProfile(q)
    [] OTHER -> "validation_error"

-----------------------------------------------------------------------------
(* RealTimeBusinessDataProvider.execute: the plugin that runs, or None for *)
(* the adapter itself.                                                     *)
Executor(registry, tool_name, context) ==
  LET named(plugin) == plugin.tool_name = tool_name
  IN FirstSuch(Resolve(registry, "business_tool", context.tenant_id, context.industry,
                       context.channel), named)

(* ToolService.execute up to the call that answers: an error, a result     *)
(* that asks for parameters, or the call with the plugin that was checked, *)
(* the plugin that runs and its parameters.                                *)
Prepare(registry, context, tool_name, parameters) ==
  LET plugin == GetPlugin(registry, tool_name, context, FALSE)
      resolved == ResolveParameters(plugin, context, parameters)
      by == Executor(registry, tool_name, context)
  IN IF plugin = None THEN [is |-> "validation_error"]
     ELSE IF MissingParameters(plugin, context, parameters) # {}
     THEN [is |-> "missing_parameter", checked |-> plugin]
     ELSE [is |-> "call", tool_name |-> tool_name, checked |-> plugin, by |-> by,
           parameters |-> IF by = None THEN resolved ELSE ResolveParameters(by, context, resolved)]
=============================================================================
