------------------------------- MODULE Plugins -------------------------------
(***************************************************************************)
(* What a plugin is and how the registry chooses among plugins: the        *)
(* descriptor, its scopes, and the order of priority.  A registry is a     *)
(* record of the plugins in the order of registration and of which are     *)
(* enabled.  The built-in plugins of each kind are defined where they are  *)
(* used.                                                                   *)
(***************************************************************************)
EXTENDS Python, Integers, Sequences, FiniteSets

(* A built-in plugin serves every tenant and channel.                      *)
Descriptor(id, kind, priority) ==
  [plugin_id |-> id, kind |-> kind, priority |-> priority, tenant_scopes |-> {},
   industry_scopes |-> {}, channel_scopes |-> {}]

(* An empty scope admits everything, another one nothing unknown.          *)
ScopeMatch(scopes, candidate) == scopes = {} \/ candidate \in scopes

InScope(plugin, tenant, industry, channel) ==
  /\ ScopeMatch(plugin.tenant_scopes, tenant)
  /\ ScopeMatch(plugin.industry_scopes, industry)
  /\ ScopeMatch(plugin.channel_scopes, channel)

-----------------------------------------------------------------------------
(* A registry: registered is the sequence of plugins as the dictionary     *)
(* keeps it, enabled the ids of the enabled ones.                          *)
IsEnabled(registry, plugin) == plugin.plugin_id \in registry.enabled

(* Highest priority first; of two equals the one registered first.         *)
ByPriority(registered, at, k) ==
  \/ registered[at].priority > registered[k].priority
  \/ registered[at].priority = registered[k].priority /\ at < k

Sorted(registered, S) ==
  LET before(at) == {k \in S : ByPriority(registered, k, at)}
      sorted[n \in 0 .. Cardinality(S)] ==
        IF n = 0 THEN <<>>
        ELSE Append(sorted[n - 1], registered[CHOOSE at \in S : Cardinality(before(at)) = n - 1])
  IN sorted[Cardinality(S)]

(* Fault: the plugins of a kind in the order of registration.              *)
PluginsOfUnsorted(registry, kind) ==
  LET is(plugin) == plugin.kind = kind IN SelectSeq(registry.registered, is)

(* plugins(kind): all of a kind, enabled or not.                           *)
PluginsOf(registry, kind) ==
  Sorted(registry.registered,
         {i \in DOMAIN registry.registered : registry.registered[i].kind = kind})

(* resolve(kind, tenant, industry, channel).                               *)
Resolve(registry, kind, tenant, industry, channel) ==
  LET of == registry.registered
  IN Sorted(of, {i \in DOMAIN of : /\ of[i].kind = kind
                                   /\ IsEnabled(registry, of[i])
                                   /\ InScope(of[i], tenant, industry, channel)})

(* The first of a sequence of plugins for which a test holds, or None.     *)
FirstSuch(plugins, Test(_)) ==
  LET S == {i \in DOMAIN plugins : Test(plugins[i])}
  IN IF S = {} THEN None ELSE plugins[CHOOSE i \in S : \A k \in S : i <= k]

(* The plugins at some places of a sequence, in their order.               *)
Those(plugins, places) ==
  LET kept[n \in 0 .. Len(plugins)] ==
        IF n = 0 THEN <<>>
        ELSE IF n \in places THEN Append(kept[n - 1], plugins[n]) ELSE kept[n - 1]
  IN kept[Len(plugins)]

(* register and unregister: a plugin with a known id takes its place.      *)
Registered(registered, plugin) ==
  LET same == {i \in DOMAIN registered : registered[i].plugin_id = plugin.plugin_id}
  IN IF same = {} THEN Append(registered, plugin)
     ELSE [registered EXCEPT ![CHOOSE i \in same : TRUE] = plugin]

Unregistered(registered, id) ==
  Those(registered, {i \in DOMAIN registered : registered[i].plugin_id # id})
=============================================================================
