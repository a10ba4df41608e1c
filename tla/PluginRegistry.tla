--------------------------- MODULE PluginRegistry ---------------------------
(***************************************************************************)
(* The plugin registry of a process and the life of its plugins.           *)
(*                                                                         *)
(* The application starts the enabled plugins one by one when it comes up  *)
(* and shuts the enabled ones down, the other way round, when it goes      *)
(* down, each an await.  Hosts register and unregister plugins and         *)
(* administrators switch them in between; neither starts or stops one.     *)
(* One application may come up and go down several times in a process.     *)
(***************************************************************************)
EXTENDS Plugins

CONSTANTS
  Builtin,    \* the plugins of build_container, in the order it registers them
  Custom,     \* plugins a host may register
  Switched    \* bound: the ids of the plugins that are switched, registered or removed,
              \* and whose hooks are followed

ASSUME PluginRegistryAssumption ==
  /\ Builtin \in Seq({Builtin[i] : i \in DOMAIN Builtin})
  /\ \A i, k \in DOMAIN Builtin : Builtin[i].plugin_id = Builtin[k].plugin_id => i = k
  /\ Custom \cap {Builtin[i] : i \in DOMAIN Builtin} = {}
  /\ \A p \in Custom \cup {Builtin[i] : i \in DOMAIN Builtin} : p # None /\ p.priority \in Int

VARIABLES
  registry,   \* the registered plugins and the ids of the enabled ones
  states,     \* the persisted states: [id -> TRUE, FALSE or None]
  lifespan,   \* where the application is, whose hooks it still has to call, and
              \* whether the registry counts as started
  running,    \* plugins started and not shut down since
  history     \* what happened since the process began that no code remembers

registryVars == <<registry, states, lifespan, running, history>>

AllPlugins == {Builtin[i] : i \in DOMAIN Builtin} \cup Custom

PluginsWith(ids) == {p \in AllPlugins : p.plugin_id \in ids}

RegistryTypeOK ==
  /\ registry.registered \in Seq(AllPlugins)
  /\ registry.enabled \subseteq {p.plugin_id : p \in AllPlugins}
  /\ states \in [Switched -> BOOLEAN \cup {None}]
  /\ lifespan \in [at : {"down", "starting", "up", "stopping"}, started : BOOLEAN,
                   todo : Seq(AllPlugins)]
  /\ running \subseteq AllPlugins
  /\ history.touched \subseteq AllPlugins    \* switched, registered or removed while up
  /\ history.misfit \subseteq AllPlugins     \* started twice, or shut down when not running
  /\ history.raised \in BOOLEAN              \* a hook raised

(* Written by a change of a plugin: it matters unless the plugin rests.    *)
Touch(ids) ==
  IF lifespan.at = "down" /\ running \cap PluginsWith(ids) = {} THEN history
  ELSE [history EXCEPT !.touched = @ \cup PluginsWith(ids)]

-----------------------------------------------------------------------------
(* build_container registers the built-in plugins; register takes over a   *)
(* persisted state.                                                        *)
EnabledOf(plugins) ==
  {p.plugin_id : p \in plugins} \ {id \in Switched : states[id] = FALSE}

Built ==
  [registered |-> Builtin, enabled |-> EnabledOf({Builtin[i] : i \in DOMAIN Builtin})]

(* register_plugin of a host, at any time.                                 *)
Register(p) ==
  /\ registry' = [registered |-> Registered(registry.registered, p),
                  enabled |-> (registry.enabled \ {p.plugin_id}) \cup EnabledOf({p})]
  /\ history' = Touch({p.plugin_id})
  /\ UNCHANGED <<states, lifespan, running>>

Unregister(id) ==
  /\ registry' = [registry EXCEPT !.registered = Unregistered(@, id)]
  /\ history' = Touch({id})
  /\ UNCHANGED <<states, lifespan, running>>

(* enable and disable: a 404 for an unknown id.                            *)
Switch(id, on) ==
  /\ \E i \in DOMAIN registry.registered : registry.registered[i].plugin_id = id
  /\ registry' = [registry EXCEPT !.enabled = IF on THEN @ \cup {id} ELSE @ \ {id}]
  /\ states' = [states EXCEPT ![id] = on]
  /\ history' = Touch({id})
  /\ UNCHANGED <<lifespan, running>>

-----------------------------------------------------------------------------
(* The plugins whose hooks are followed, the highest priority first.       *)
Hooks ==
  Sorted(registry.registered,
         {i \in DOMAIN registry.registered : registry.registered[i].plugin_id \in Switched})

(* startup lists the plugins once, unless the registry counts as started.  *)
BeginStartup ==
  /\ lifespan.at = "down"
  /\ lifespan' = IF lifespan.started THEN [lifespan EXCEPT !.at = "up"]
                 ELSE [lifespan EXCEPT !.at = "starting", !.todo = Hooks]
  /\ UNCHANGED <<registry, states, running, history>>

(* What the startup hook of p leaves.                                      *)
Started(p) ==
  /\ running' = running \cup {p}
  /\ history' = IF p \in running THEN [history EXCEPT !.misfit = @ \cup {p}] ELSE history

(* Fault: startup does not ask whether a plugin is enabled.                *)
StartNextWhatever ==
  /\ lifespan.at = "starting" /\ lifespan.todo # <<>>
  /\ lifespan' = [lifespan EXCEPT !.todo = Tail(@)]
  /\ Started(Head(lifespan.todo))
  /\ UNCHANGED <<registry, states>>

(* The next plugin: enabled is read when it comes to it.                   *)
StartNext ==
  /\ lifespan.at = "starting" /\ lifespan.todo # <<>>
  /\ lifespan' = [lifespan EXCEPT !.todo = Tail(@)]
  /\ IF IsEnabled(registry, Head(lifespan.todo)) THEN Started(Head(lifespan.todo))
     ELSE UNCHANGED <<running, history>>
  /\ UNCHANGED <<registry, states>>

CompleteStartup ==
  /\ lifespan.at = "starting" /\ lifespan.todo = <<>>
  /\ lifespan' = [lifespan EXCEPT !.at = "up", !.started = TRUE]
  /\ UNCHANGED <<registry, states, running, history>>

(* shutdown lists the plugins once, the last one first.                    *)
BeginShutdown ==
  /\ lifespan.at = "up"
  /\ lifespan' = [lifespan EXCEPT !.at = "stopping",
                                  !.todo = [i \in DOMAIN Hooks |-> Hooks[Len(Hooks) + 1 - i]]]
  /\ UNCHANGED <<registry, states, running, history>>

StopNext ==
  /\ lifespan.at = "stopping" /\ lifespan.todo # <<>>
  /\ lifespan' = [lifespan EXCEPT !.todo = Tail(@)]
  /\ LET p == Head(lifespan.todo) IN
     IF IsEnabled(registry, p)
     THEN /\ running' = running \ {p}
          /\ history' = IF p \in running THEN history
                        ELSE [history EXCEPT !.misfit = @ \cup {p}]
     ELSE UNCHANGED <<running, history>>
  /\ UNCHANGED <<registry, states>>

CompleteShutdown ==
  /\ lifespan.at = "stopping" /\ lifespan.todo = <<>>
  /\ lifespan' = [lifespan EXCEPT !.at = "down", !.started = FALSE]
  /\ UNCHANGED <<registry, states, running, history>>

(* A hook raises: the application is down, the plugins still to come are   *)
(* not called, and the registry counts as started or not as before.        *)
HookRaises ==
  /\ lifespan.at \in {"starting", "stopping"} /\ lifespan.todo # <<>>
  /\ IsEnabled(registry, Head(lifespan.todo))
  /\ lifespan' = [lifespan EXCEPT !.at = "down", !.todo = <<>>]
  /\ history' = [history EXCEPT !.raised = TRUE]
  /\ UNCHANGED <<registry, states, running>>

(* The process ends and a new one builds its container.                    *)
RestartRegistry ==
  /\ registry' = Built
  /\ lifespan' = [at |-> "down", started |-> FALSE, todo |-> <<>>]
  /\ running' = {}
  /\ history' = [touched |-> {}, misfit |-> {}, raised |-> FALSE]
  /\ UNCHANGED states

-----------------------------------------------------------------------------
InitRegistry ==
  /\ states = [id \in Switched |-> None]
  /\ registry = Built
  /\ lifespan = [at |-> "down", started |-> FALSE, todo |-> <<>>]
  /\ running = {}
  /\ history = [touched |-> {}, misfit |-> {}, raised |-> FALSE]

NextRegistry ==
  \/ \E p \in PluginsWith(Switched) \cap Custom : Register(p)
  \/ \E id \in Switched : Unregister(id) \/ Switch(id, TRUE) \/ Switch(id, FALSE)
  \/ BeginStartup \/ StartNext \/ CompleteStartup
  \/ BeginShutdown \/ StopNext \/ CompleteShutdown \/ HookRaises

-----------------------------------------------------------------------------
(* As long as no hook raised, a plugin that nobody switched, registered or *)
(* removed while the application was up runs exactly while it is up and    *)
(* enabled, and its hooks are called in turns, however often the           *)
(* application comes up and goes down and whatever is switched in between. *)
LifecycleIsPaired ==
  ~history.raised =>
    \A p \in PluginsWith(Switched) \ history.touched :
      /\ p \notin history.misfit
      /\ lifespan.at = "down" => p \notin running
      /\ lifespan.at = "up" =>
           (p \in running <=> /\ IsEnabled(registry, p)
                              /\ \E i \in DOMAIN registry.registered : registry.registered[i] = p)
=============================================================================
