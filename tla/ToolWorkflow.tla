---------------------------- MODULE ToolWorkflow ----------------------------
(***************************************************************************)
(* Requests that run business tools: a single query, or a workflow of      *)
(* several steps that stops at the first one without success.  Between two *)
(* steps a request awaits the business system, and plugins are registered, *)
(* removed and switched meanwhile.                                         *)
(***************************************************************************)
EXTENDS PluginRegistry, BusinessTools

CONSTANTS
  Request,       \* requests: tenant, channel, what the host sent, the steps of the plan,
                 \* max_steps and allowed_tools, empty where the request names none
  Runner,        \* bound: requests in flight
  RemoteStatus   \* statuses business systems other than the local one may answer with

ASSUME ToolWorkflowAssumption ==
  \A request \in Request :
    /\ request.tenant_id # None /\ request.channel # None
    /\ request.steps \in Seq({request.steps[i] : i \in DOMAIN request.steps})
    /\ \A i \in DOMAIN request.steps : request.steps[i].tool_name \in STRING
    /\ request.max_steps \in Nat \ {0}

VARIABLE run     \* run[r]: the request r is at, its context, trace and call

vars == <<registryVars, run>>

Idle == [at |-> "idle"]

Status == {"success", "missing_parameter", "not_found"} \cup RemoteStatus

(* A step of the trace: the tool, its status, the plugin whose parameters  *)
(* were checked and the one that ran, None for the adapter itself.         *)
IsTraceItem(item) ==
  /\ item.tool_name \in STRING
  /\ item.status \in Status
  /\ item.checked \in AllPlugins
  /\ item.by \in AllPlugins \cup {None}

TypeOK ==
  /\ RegistryTypeOK
  /\ \A r \in Runner :
       /\ run[r].at \in {"idle", "calling", "final", "repair_required", "failed"}
       /\ run[r].at # "idle" =>
            /\ run[r].request \in Request
            /\ \A i \in DOMAIN run[r].trace : IsTraceItem(run[r].trace[i])
       /\ run[r].at = "calling" => run[r].call.checked \in AllPlugins

-----------------------------------------------------------------------------
Allowed(request) ==
  IF request.allowed_tools # {} THEN request.allowed_tools
  ELSE {request.steps[i].tool_name : i \in DOMAIN request.steps}

(* How a run goes on after the steps in its trace: it is over, or the next *)
(* tool must be allowed, and is prepared and called.                       *)
Continue(r) ==
  LET k == Len(r.trace) + 1
      step == r.request.steps[k]
      prepared == Prepare(registry, r.context, step.tool_name, step.parameters)
  IN IF k > Len(r.request.steps) THEN [r EXCEPT !.at = "final"]
     ELSE IF step.tool_name \notin Allowed(r.request)
     THEN [r EXCEPT !.at = "failed", !.call = "forbidden"]
     ELSE CASE prepared.is = "validation_error" ->
                 [r EXCEPT !.at = "failed", !.call = "validation_error"]
            [] prepared.is = "missing_parameter" ->
                 [r EXCEPT !.at = "repair_required",
                           !.trace = Append(@, [tool_name |-> step.tool_name,
                                                status |-> "missing_parameter",
                                                checked |-> prepared.checked, by |-> None])]
            [] prepared.is = "call" -> [r EXCEPT !.at = "calling", !.call = prepared]

(* POST tool-workflow, and POST business-query as a plan of one step: the  *)
(* plan is measured, the context is built, and the first tool is called.   *)
Begin(r) ==
  /\ lifespan.at = "up"
  /\ run[r] = Idle
  /\ \E request \in Request :
       LET context == Build(registry, request.tenant_id, request.channel, request.sent, None)
           fresh == [at |-> "begun", request |-> request, context |-> context,
                     trace |-> <<>>, call |-> None]
       IN run' = [run EXCEPT ![r] =
                    IF Len(request.steps) > request.max_steps
                    THEN [fresh EXCEPT !.at = "failed", !.call = "validation_error"]
                    ELSE Continue(fresh)]
  /\ UNCHANGED registryVars

(* What the business system may answer: the local one by its records,      *)
(* others anything.                                                        *)
Answers(call) ==
  RemoteStatus \cup ({LocalExecute(call.tool_name, call.parameters)} \ {"validation_error"})

(* Fault: a step without success does not end the run.                     *)
AnswerGoesOn(r) ==
  /\ run[r].at = "calling"
  /\ \E status \in Answers(run[r].call) :
       LET item == [tool_name |-> run[r].call.tool_name, status |-> status,
                    checked |-> run[r].call.checked, by |-> run[r].call.by]
       IN run' = [run EXCEPT ![r] =
                    Continue([run[r] EXCEPT !.trace = Append(@, item), !.call = None])]
  /\ UNCHANGED registryVars

(* The call answers: the step enters the trace, and the run goes on if it  *)
(* was a success.                                                          *)
Answer(r) ==
  /\ run[r].at = "calling"
  /\ \E status \in Answers(run[r].call) :
       LET item == [tool_name |-> run[r].call.tool_name, status |-> status,
                    checked |-> run[r].call.checked, by |-> run[r].call.by]
           after == [run[r] EXCEPT !.trace = Append(@, item), !.call = None]
       IN run' = [run EXCEPT ![r] = IF status = "success" THEN Continue(after)
                                    ELSE [after EXCEPT !.at = "repair_required"]]
  /\ UNCHANGED registryVars

(* The call raises: the request ends with an error and its trace is lost   *)
(* to the caller, whatever the steps before did.                           *)
CallRaises(r) ==
  /\ run[r].at = "calling"
  /\ run' = [run EXCEPT ![r] = [@ EXCEPT !.at = "failed", !.call = "raised"]]
  /\ UNCHANGED registryVars

(* The response is sent.                                                   *)
Respond(r) ==
  /\ run[r].at \in {"final", "repair_required", "failed"}
  /\ run' = [run EXCEPT ![r] = Idle]
  /\ UNCHANGED registryVars

Restart ==
  /\ RestartRegistry
  /\ run' = [r \in Runner |-> Idle]

-----------------------------------------------------------------------------
Init == InitRegistry /\ run = [r \in Runner |-> Idle]

Next ==
  \/ NextRegistry /\ UNCHANGED run
  \/ \E r \in Runner : Begin(r) \/ Answer(r) \/ CallRaises(r) \/ Respond(r)
  \/ Restart

Spec == Init /\ [][Next]_vars

-----------------------------------------------------------------------------
(* A workflow keeps to its plan although the plugins change under it: its  *)
(* trace is a beginning of the plan, of allowed tools only and no longer   *)
(* than max_steps, nothing follows a step without success, and the run is  *)
(* final exactly when every step succeeded.  The plugin that runs is the   *)
(* one whose parameters were checked; only where the industry is unknown   *)
(* a tool bound to an industry is passed over.                             *)
StepsFollowThePlan ==
  \A r \in {q \in Runner : run[q].at # "idle"} :
    LET steps == run[r].request.steps
        trace == run[r].trace
        calls == {trace[i] : i \in {k \in DOMAIN trace : trace[k].status # "missing_parameter"}}
                 \cup (IF run[r].at = "calling" THEN {run[r].call} ELSE {})
        succeeded == {i \in DOMAIN trace : trace[i].status = "success"}
    IN /\ Len(trace) <= run[r].request.max_steps
       /\ \A i \in DOMAIN trace : trace[i].tool_name = steps[i].tool_name
       /\ \A i \in 1 .. Len(trace) - 1 : i \in succeeded
       /\ run[r].at = "final" <=> (succeeded = DOMAIN steps)
       /\ run[r].at = "repair_required" <=> (DOMAIN trace \ succeeded # {})
       /\ \A call \in calls :
            /\ call.tool_name \in Allowed(run[r].request)
            /\ call.by # call.checked =>
                 run[r].context.industry = None /\ call.checked.industry_scopes # {}

(* The catalog that administrators and agents see agrees with the registry *)
(* whatever is switched, registered and removed: where the industry is     *)
(* known, the tools it calls available are those that would run, in their  *)
(* order, and the categories count them; where it is not, it offers what   *)
(* runs and more.                                                          *)
CatalogOffersWhatRuns ==
  lifespan.at = "up" =>
    \A of \in {[tenant |-> q.tenant_id, channel |-> q.channel] : q \in Request},
       industry \in (UNION {p.industry_scopes : p \in PluginsWith(Switched)}) \cup {None} :
      LET run_by == Resolve(registry, "business_tool", of.tenant, industry, of.channel)
          shown == ListTools(registry, of.tenant, industry, of.channel, TRUE)
          offered == ListTools(registry, of.tenant, industry, of.channel, FALSE)
          among(tool, tools) == \E i \in DOMAIN tools : tools[i] = tool
          counted(category) == {i \in DOMAIN offered : offered[i].category = category}
      IN /\ industry # None => offered = run_by
         /\ \A i \in DOMAIN run_by : among(run_by[i], offered)
         /\ \A i \in DOMAIN shown :
              Available(registry, shown[i], of.tenant, industry, of.channel)
                <=> among(shown[i], offered)
         /\ \A c \in ListCategories(registry, of.tenant, industry, of.channel, TRUE) :
              c.enabled_count = Cardinality(counted(c.category))
=============================================================================
