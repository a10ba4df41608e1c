--------------------------- MODULE MCToolWorkflow ---------------------------
(* Instances of ToolWorkflow for TLC.                                      *)
EXTENDS ToolWorkflow

BuiltinPlugins == IndustryPlugins \o EnricherPlugins \o ToolPlugins

(* A host's own plugin for orders of shops, before the built-in one.       *)
HostTool ==
  [OrderStatusTool EXCEPT !.plugin_id = "tool.host_order", !.priority = 500,
                          !.adapter_backed = FALSE]

HostTools == {HostTool}

FollowedIds == {"tool.host_order", "tool.order_status"}

Sends(industry, page, objects) ==
  [industry |-> industry, page_type |-> page, business_objects |-> objects, fields |-> NoObjects,
   behavior_signals |-> NoBehavior, response_format |-> None]

Step(tool, parameters) == [tool_name |-> tool, parameters |-> parameters]

Asks(sent, steps, max, allowed) ==
  [tenant_id |-> "t1", channel |-> "web", sent |-> sent, steps |-> steps, max_steps |-> max,
   allowed_tools |-> allowed]

Order == Step("order_status", NoObjects)
Tracking == Step("logistics_tracking", [NoObjects EXCEPT !["tracking_no"] = "YT-2001"])
Ticket == Step("ticket_lookup", NoObjects)
OrderOnPage == [NoObjects EXCEPT !["order_id"] = "ORD-1001"]

(* Orders on the page of a shop and beside an unknown page, a plan whose   *)
(* second step is not allowed, one that lacks a parameter and goes on to   *)
(* a tool of another industry, and one that is too long.                   *)
Requests ==
  {Asks(Sends(None, "order_detail", OrderOnPage), <<Order, Order>>, 3, {}),
   Asks(Sends(None, None, OrderOnPage), <<Order, Tracking>>, 3, {}),
   Asks(Sends("ecommerce", None, NoObjects), <<Tracking, Ticket>>, 3, {"logistics_tracking"}),
   Asks(Sends("ecommerce", None, NoObjects), <<Order, Ticket>>, 2, {}),
   Asks(Sends("saas", None, OrderOnPage), <<Order, Ticket>>, 1, {})}

(* Bound: requests are not followed once a hook raised.                    *)
FollowRuns == history.raised => \A r \in Runner : run[r] = Idle
=============================================================================
