---------------------------- MODULE RuntimeConfig ----------------------------
(***************************************************************************)
(* The runtime configuration of a process: prompts and their ledger of     *)
(* revisions, policies, alert rules, plugin states, and the cache of       *)
(* answers that the policies govern.                                       *)
(*                                                                         *)
(* An administrator's call changes the memory and then writes the whole    *)
(* configuration to one file that is replaced atomically.  The file is     *)
(* read once, when the process starts.  A write that fails leaves the      *)
(* change in memory and answers with an error.  A file that was damaged    *)
(* while the process was down is read as far as it can be.                 *)
(*                                                                         *)
(* The cache is read and filled by knowledge turns, which keep the prompt  *)
(* they read through two awaits: the retrieval and the model.              *)
(***************************************************************************)
EXTENDS Integers, Sequences, FiniteSets

CONSTANTS
  Field,           \* the fields of PromptConfig
  Text,            \* texts of a prompt
  DefaultText,     \* the text every prompt starts with
  Ttl,             \* values of response_cache_ttl_seconds
  DefaultTtl,      \* its default
  AlertRules,      \* alert rules
  DefaultRules,    \* AlertRuleConfig()
  Plugin,          \* the plugins of the registry
  Unknown,         \* an id no plugin has
  Turn,            \* knowledge turns that may be in flight
  Query,           \* normalised questions
  KnowledgeVersion,\* versions of the knowledge base that may be active
  PutBody,         \* bodies of PUT runtime-config, as the edits they make
  None,            \* Python's None
  Invalid,         \* what does not pass validation
  MaxRevisions,    \* bound: revisions in the ledger
  MaxEntries,      \* bound: answers in the cache
  MaxAge           \* bound: the age of an answer in the cache, and one step of time

ASSUME RuntimeConfigAssumption ==
  /\ "knowledge_answer" \in Field
  /\ DefaultText \in Text
  /\ Ttl \subseteq Nat
  /\ DefaultTtl \in Ttl \ {0}
  /\ DefaultRules \in AlertRules
  /\ Unknown \notin Plugin
  /\ MaxRevisions \in Nat \ {0}
  /\ MaxEntries \in Nat
  /\ MaxAge \in Nat

VARIABLES
  mem,       \* the memory of the process, None while it is down
  file,      \* runtime_config.json: None, Invalid (unreadable) or its contents
  turn,      \* turn[t]: what a turn holds while it awaits, or was served
  promised   \* the revisions and switches whose callers got an answer

vars == <<mem, file, turn, promised>>

-----------------------------------------------------------------------------
PromptConfig == [Field -> Text]

PromptTemplateRecord ==
  [revision : 1 .. MaxRevisions, prompts : PromptConfig, active : BOOLEAN]

PolicyConfig ==
  [response_cache_enabled : BOOLEAN, response_cache_ttl_seconds : Ttl]

PluginStates == [Plugin -> BOOLEAN \cup {None}]

(* The key of a cached answer: the prompt is the one of knowledge turns.   *)
Key == [query : Query, prompt : Text, version : KnowledgeVersion]

(* A cached answer: its age by the clock, up to the bound, and what it was *)
(* generated from.                                                         *)
Entry == [age : 0 .. MaxAge, prompt : Text, version : KnowledgeVersion]

(* whole says that the ledger was never damaged or was appended to since:  *)
(* no code reads it.                                                       *)
Image ==
  [prompts : PromptConfig \cup {Invalid},
   history : Seq(PromptTemplateRecord \cup {Invalid}) \cup {Invalid},
   policies : PolicyConfig \cup {Invalid}, alerts : AlertRules,
   plugin_states : PluginStates, whole : BOOLEAN]

Memory ==
  [prompts : PromptConfig, history : Seq(PromptTemplateRecord),
   issues : SUBSET {"runtime_config_unreadable", "prompt_config_invalid",
                    "prompt_versions_invalid_type", "prompt_version_invalid",
                    "prompt_versions_empty", "prompt_versions_unusable"},
   policies : PolicyConfig, alerts : AlertRules, plugin_states : PluginStates,
   enabled : [Plugin -> BOOLEAN], cache : [Key -> Entry \cup {None}], whole : BOOLEAN]

Idle == [at |-> "idle"]

TurnState ==
  {Idle}
  \cup [at : {"retrieving"}, query : Query, prompt : Text]
  \cup [at : {"generating"}, key : Key]
  \cup [at : {"served"}, key : Key, from : Entry, ttl : Ttl]

TypeOK ==
  /\ mem \in Memory \cup {None}
  /\ file \in Image \cup {None, Invalid}
  /\ turn \in [Turn -> TurnState]
  /\ promised.revisions \subseteq [revision : 1 .. MaxRevisions, prompts : PromptConfig]
  /\ promised.switches \in [Plugin -> BOOLEAN \cup {None}]

-----------------------------------------------------------------------------
(* The ledger of prompts.                                                  *)
Revisions(history) == {history[i].revision : i \in DOMAIN history}

NextRevision(history) ==
  IF history = <<>> THEN 1
  ELSE 1 + CHOOSE n \in Revisions(history) : \A k \in Revisions(history) : k <= n

ActiveAt(history) == {i \in DOMAIN history : history[i].active}

(* Fault: the revision that was active stays so.                           *)
AppendStillActive(m) ==
  [m EXCEPT
     !.history = Append(m.history, [revision |-> NextRevision(m.history),
                                    prompts |-> m.prompts, active |-> TRUE]),
     !.whole = TRUE]

AppendPromptVersion(m) ==
  [m EXCEPT
     !.history =
        Append([i \in DOMAIN m.history |-> [m.history[i] EXCEPT !.active = FALSE]],
               [revision |-> NextRevision(m.history), prompts |-> m.prompts, active |-> TRUE]),
     !.whole = TRUE]

(* Where the first record with a revision is.                              *)
FindPromptRevision(history, revision) ==
  CHOOSE i \in DOMAIN history :
    /\ history[i].revision = revision
    /\ \A k \in 1 .. i - 1 : history[k].revision # revision

(* The record that is active, if there is just one.                        *)
ActivePromptRevision(history) ==
  IF Cardinality(ActiveAt(history)) = 1 THEN CHOOSE i \in ActiveAt(history) : TRUE ELSE None

ChangedFields(base, target) == {f \in Field : base[f] # target[f]}

(* The changed_fields of a revision against another, or the active one.    *)
DiffPromptRevision(history, revision, base) ==
  LET b == IF base = None THEN ActivePromptRevision(history)
           ELSE FindPromptRevision(history, base)
  IN IF b = None THEN {}
     ELSE ChangedFields(history[b].prompts, history[FindPromptRevision(history, revision)].prompts)

PromptRevisionIssues(m) ==
  m.issues
  \cup (IF m.history # <<>> /\ Cardinality(ActiveAt(m.history)) # 1
        THEN {"active_revision_not_unique"} ELSE {})
  \cup (IF Cardinality(Revisions(m.history)) < Len(m.history)
        THEN {"duplicate_prompt_revision"} ELSE {})

-----------------------------------------------------------------------------
(* The cache.                                                              *)
CacheOn(policies) ==
  policies.response_cache_enabled /\ policies.response_cache_ttl_seconds > 0

EmptyCache == [k \in Key |-> None]

Expired(m, k) ==
  m.cache[k] # None /\ m.cache[k].age > m.policies.response_cache_ttl_seconds

(* get_cached_response and set_cached_response.                            *)
IsHit(m, k) == CacheOn(m.policies) /\ m.cache[k] # None /\ ~Expired(m, k)

SetCachedResponse(m, k) ==
  IF CacheOn(m.policies)
  THEN [m EXCEPT !.cache[k] = [age |-> 0, prompt |-> k.prompt, version |-> k.version]]
  ELSE m

-----------------------------------------------------------------------------
(* What each part of an administrator's call does to the memory, before it *)
(* is written.  An edit is a tuple of the part and its value.              *)
PromptEdit == {<<"prompts", data>> : data \in UNION {[fs -> Text] : fs \in (SUBSET Field) \ {{}}}}

PolicyEdit == {<<"policies", p>> : p \in PolicyConfig}

AlertEdit == {<<"alerts", a>> : a \in AlertRules}

PluginEdit == {<<"plugin", p, on>> : p \in Plugin \cup {Unknown}, on \in BOOLEAN}

SetPrompts(m, data) ==
  AppendPromptVersion(
    [m EXCEPT !.prompts = [f \in Field |-> IF f \in DOMAIN data THEN data[f] ELSE @[f]]])

RolledBack(m, revision) ==
  AppendPromptVersion(
    [m EXCEPT !.prompts = m.history[FindPromptRevision(m.history, revision)].prompts])

SetPolicies(m, policies) ==
  [m EXCEPT !.policies = policies, !.cache = IF CacheOn(policies) THEN @ ELSE EmptyCache]

SetAlertRules(m, alerts) == [m EXCEPT !.alerts = alerts]

SetPlugin(m, p, on) == [m EXCEPT !.enabled[p] = on, !.plugin_states[p] = on]

Edited(m, edit) ==
  CASE edit[1] = "prompts" -> SetPrompts(m, edit[2])
    [] edit[1] = "rollback" -> RolledBack(m, edit[2])
    [] edit[1] = "policies" -> SetPolicies(m, edit[2])
    [] edit[1] = "alerts" -> SetAlertRules(m, edit[2])
    [] edit[1] = "plugin" -> SetPlugin(m, edit[2], edit[3])

(* The memory after each of a sequence of edits, the memory before at 0.   *)
After(edits) ==
  LET m[i \in 0 .. Len(edits)] == IF i = 0 THEN mem ELSE Edited(m[i - 1], edits[i]) IN m

(* _flush: what is written of the memory.                                  *)
Written(m) ==
  [prompts |-> m.prompts, history |-> m.history, policies |-> m.policies,
   alerts |-> m.alerts, plugin_states |-> m.plugin_states, whole |-> m.whole]

(* What a caller who got an answer may rely on.                            *)
Promise(m, edits) ==
  LET switched(p) == {i \in DOMAIN edits : edits[i][1] = "plugin" /\ edits[i][2] = p}
      appended == m.history # mem.history
  IN [revisions |->
        promised.revisions \cup
          {[revision |-> m.history[i].revision, prompts |-> m.history[i].prompts] :
             i \in {k \in DOMAIN m.history : appended /\ k = Len(m.history)}},
      switches |->
        [p \in Plugin |-> IF switched(p) = {} THEN promised.switches[p] ELSE m.enabled[p]]]

(* A call that failed promises nothing; what it switched is uncertain.     *)
Uncertain(edits) ==
  [promised EXCEPT !.switches =
     [p \in Plugin |-> IF \E i \in DOMAIN edits : edits[i][1] = "plugin" /\ edits[i][2] = p
                       THEN None ELSE @[p]]]

(* The edits of a call up to the first plugin nobody knows: a 404 ends it  *)
(* there, and what came before stays.                                      *)
Known(edits) ==
  LET bad == {i \in DOMAIN edits : edits[i][1] = "plugin" /\ edits[i][2] = Unknown}
  IN IF bad = {} THEN edits
     ELSE SubSeq(edits, 1, (CHOOSE i \in bad : \A k \in bad : i <= k) - 1)

(* A call makes its edits one after the other and writes the file after    *)
(* each of them.  It is complete, or a write fails, or the process dies    *)
(* between two of the writes.                                              *)
Complete(edits) ==
  LET known == Known(edits)
      m == After(known)[Len(known)]
  IN /\ mem' = m
     /\ file' = IF known = <<>> THEN file ELSE Written(m)
     /\ promised' = IF known = edits THEN Promise(m, edits) ELSE Uncertain(edits)
     /\ UNCHANGED turn

WriteFails(edits) ==
  \E i \in DOMAIN Known(edits) :
    /\ mem' = After(Known(edits))[i]
    /\ file' = IF i = 1 THEN file ELSE Written(After(Known(edits))[i - 1])
    /\ promised' = Uncertain(edits)
    /\ UNCHANGED turn

Dies(edits) ==
  \E i \in 1 .. Len(Known(edits)) - 1 :
    /\ mem' = None
    /\ file' = Written(After(Known(edits))[i])
    /\ promised' = Uncertain(edits)
    /\ turn' = [t \in Turn |-> Idle]

Call(edits) ==
  /\ mem # None
  /\ NextRevision(mem.history) + Cardinality({i \in DOMAIN edits : edits[i][1] \in {"prompts", "rollback"}})
       <= MaxRevisions + 1
  /\ Complete(edits) \/ WriteFails(edits) \/ Dies(edits)

(* The sentinels are no values of the configuration, and a request body    *)
(* is a list of edits.                                                     *)
ASSUME RuntimeConfigValues ==
  /\ None # Invalid
  /\ None \notin Nat
  /\ None \notin Memory
  /\ {None, Invalid} \cap Image = {}
  /\ Invalid \notin PromptConfig
  /\ Invalid \notin PromptTemplateRecord
  /\ Invalid \notin Seq(PromptTemplateRecord \cup {Invalid})
  /\ PutBody \subseteq Seq(PromptEdit \cup PolicyEdit \cup AlertEdit \cup PluginEdit)

(* PUT prompts.                                                            *)
UpdatePrompts == \E edit \in PromptEdit : Call(<<edit>>)

(* POST prompts/rollback; a revision nobody knows is a 404.                *)
RollbackPrompts ==
  /\ mem # None
  /\ \E revision \in Revisions(mem.history) : Call(<<<<"rollback", revision>>>>)

(* PUT policies.                                                           *)
UpdatePolicies == \E edit \in PolicyEdit : Call(<<edit>>)

(* POST plugins/{id}/enable and disable.                                   *)
SwitchPlugin == \E edit \in PluginEdit : edit[2] # Unknown /\ Call(<<edit>>)

(* PUT runtime-config: prompts, policies, alerts and plugins in turn.      *)
UpdateRuntimeConfig == \E edits \in PutBody : Call(edits)

-----------------------------------------------------------------------------
(* A process starts: what it reads of the file, part by part.              *)
DefaultPrompts == [f \in Field |-> DefaultText]

Fresh ==
  [prompts |-> DefaultPrompts, history |-> <<>>, issues |-> {},
   policies |-> [response_cache_enabled |-> TRUE, response_cache_ttl_seconds |-> DefaultTtl],
   alerts |-> DefaultRules, plugin_states |-> [p \in Plugin |-> None],
   enabled |-> [p \in Plugin |-> TRUE], cache |-> EmptyCache, whole |-> TRUE]

(* Fault: records that do not pass validation are kept.                    *)
Unvalidated(history) == history

(* _load_prompt_history: the records that pass validation, one after the   *)
(* other, and why some may be missing.                                     *)
Valid(history) ==
  LET kept[n \in 0 .. Len(history)] ==
        IF n = 0 THEN <<>>
        ELSE IF history[n] = Invalid THEN kept[n - 1] ELSE Append(kept[n - 1], history[n])
  IN kept[Len(history)]

HistoryIssues(history) ==
  CASE history = Invalid -> {"prompt_versions_invalid_type"}
    [] history = <<>> -> {"prompt_versions_empty"}
    [] OTHER -> (IF Valid(history) # history THEN {"prompt_version_invalid"} ELSE {})
                \cup (IF Valid(history) = <<>> THEN {"prompt_versions_unusable"} ELSE {})

(* Fault: plugins are registered before the states of the file are read.   *)
ReadAfterRegistering(image) ==
  [Fresh EXCEPT
     !.prompts = IF image.prompts = Invalid THEN @ ELSE image.prompts,
     !.history = IF image.history = Invalid THEN @ ELSE Valid(image.history),
     !.policies = image.policies,
     !.alerts = image.alerts,
     !.plugin_states = image.plugin_states,
     !.whole = image.whole]

Read(image) ==
  [Fresh EXCEPT
     !.prompts = IF image.prompts = Invalid THEN @ ELSE image.prompts,
     !.history = IF image.history = Invalid THEN @ ELSE Valid(image.history),
     !.issues = (IF image.prompts = Invalid THEN {"prompt_config_invalid"} ELSE {})
                \cup HistoryIssues(image.history),
     !.policies = image.policies,
     !.alerts = image.alerts,
     !.plugin_states = image.plugin_states,
     !.enabled = [p \in Plugin |-> IF image.plugin_states[p] = None THEN @[p]
                                   ELSE image.plugin_states[p]],
     !.whole = image.whole]

Loaded ==
  LET m == CASE file = None -> Fresh
             [] file = Invalid -> [Fresh EXCEPT !.issues = {"runtime_config_unreadable"}]
             [] OTHER -> Read(file)
  IN IF m.history = <<>> THEN AppendPromptVersion(m) ELSE m

(* The defaults are not written before the first edit.  Policies that do   *)
(* not pass validation keep the process from starting.                     *)
Start ==
  /\ mem = None
  /\ file \notin {None, Invalid} => file.policies # Invalid
  /\ mem' = Loaded
  /\ UNCHANGED <<file, turn, promised>>

(* The process dies while no call is in progress.                          *)
Crash ==
  /\ mem # None
  /\ mem' = None
  /\ turn' = [t \in Turn |-> Idle]
  /\ UNCHANGED <<file, promised>>

(* While the process is down somebody edits or damages the file.           *)
DamageFile ==
  /\ mem = None
  /\ file \notin {None, Invalid}
  /\ file.whole
  /\ \/ file' = Invalid
     \/ file' = [file EXCEPT !.prompts = Invalid, !.whole = FALSE]
     \/ file' = [file EXCEPT !.policies = Invalid, !.whole = FALSE]
     \/ \E history \in {Invalid, <<>>} : file' = [file EXCEPT !.history = history, !.whole = FALSE]
     \/ \E i \in DOMAIN file.history :
          \/ file' = [file EXCEPT !.history[i] = Invalid, !.whole = FALSE]
          \/ file' = [file EXCEPT !.history[i].active = ~@, !.whole = FALSE]
  /\ promised' = [revisions |-> {}, switches |-> [p \in Plugin |-> None]]
  /\ UNCHANGED <<mem, turn>>

-----------------------------------------------------------------------------
(* A knowledge turn: process_message reads the prompts and awaits the      *)
(* retrieval.                                                              *)
Ask(t) ==
  /\ mem # None
  /\ turn[t] = Idle
  /\ \E q \in Query :
       turn' = [turn EXCEPT ![t] = [at |-> "retrieving", query |-> q,
                                    prompt |-> mem.prompts["knowledge_answer"]]]
  /\ UNCHANGED <<mem, file, promised>>

(* The retrieval answers from the version that is active by then.  If it   *)
(* finds no citation there is no key, and nothing is read or stored: the   *)
(* turn just ends.  With a key, get_cached_response drops what expired.    *)
Lookup(t) ==
  /\ turn[t].at = "retrieving"
  /\ \E v \in KnowledgeVersion :
       LET k == [query |-> turn[t].query, prompt |-> turn[t].prompt, version |-> v] IN
       IF IsHit(mem, k)
       THEN /\ turn' = [turn EXCEPT ![t] = [at |-> "served", key |-> k, from |-> mem.cache[k],
                                            ttl |-> mem.policies.response_cache_ttl_seconds]]
            /\ UNCHANGED mem
       ELSE /\ turn' = [turn EXCEPT ![t] = [at |-> "generating", key |-> k]]
            /\ mem' = IF CacheOn(mem.policies) /\ Expired(mem, k)
                      THEN [mem EXCEPT !.cache[k] = None] ELSE mem
  /\ UNCHANGED <<file, promised>>

(* Fault: the key is computed again with the prompt in force by now.       *)
GenerateRekeyed(t) ==
  /\ turn[t].at = "generating"
  /\ LET k == [turn[t].key EXCEPT !.prompt = mem.prompts["knowledge_answer"]]
     IN /\ Cardinality({j \in Key \ {k} : mem.cache[j] # None}) < MaxEntries
        /\ mem' = IF CacheOn(mem.policies)
                  THEN [mem EXCEPT !.cache[k] =
                          [age |-> 0, prompt |-> turn[t].key.prompt, version |-> k.version]]
                  ELSE mem
  /\ turn' = [turn EXCEPT ![t] = Idle]
  /\ UNCHANGED <<file, promised>>

(* Fault: an answer is stored although the cache was switched off.         *)
GenerateUnchecked(t) ==
  /\ turn[t].at = "generating"
  /\ mem' = [mem EXCEPT !.cache[turn[t].key] =
               [age |-> 0, prompt |-> turn[t].key.prompt, version |-> turn[t].key.version]]
  /\ turn' = [turn EXCEPT ![t] = Idle]
  /\ UNCHANGED <<file, promised>>

(* The model answers: set_cached_response stores the answer of a turn that *)
(* was neither refused nor handed over, if the cache is on by now.         *)
Generate(t) ==
  /\ turn[t].at = "generating"
  /\ Cardinality({k \in Key \ {turn[t].key} : mem.cache[k] # None}) < MaxEntries
  /\ mem' = SetCachedResponse(mem, turn[t].key)
  /\ turn' = [turn EXCEPT ![t] = Idle]
  /\ UNCHANGED <<file, promised>>

(* The turn is over: its answer was sent, or it was refused or handed over *)
(* and is not stored, or an await of it raised.                            *)
EndTurn(t) ==
  /\ turn[t] # Idle
  /\ turn' = [turn EXCEPT ![t] = Idle]
  /\ UNCHANGED <<mem, file, promised>>

(* time() goes on, as far as the cache can tell.                           *)
Tick ==
  /\ mem # None
  /\ mem' = [mem EXCEPT !.cache =
                [k \in Key |-> IF @[k] = None THEN None ELSE [@[k] EXCEPT !.age = MaxAge]]]
  /\ UNCHANGED <<file, turn, promised>>

-----------------------------------------------------------------------------
Init ==
  /\ mem = AppendPromptVersion(Fresh)
  /\ file = None
  /\ turn = [t \in Turn |-> Idle]
  /\ promised = [revisions |-> {}, switches |-> [p \in Plugin |-> None]]

Next ==
  \/ UpdatePrompts \/ RollbackPrompts \/ UpdatePolicies
  \/ SwitchPlugin \/ UpdateRuntimeConfig
  \/ Start \/ Crash \/ DamageFile
  \/ \E t \in Turn : Ask(t) \/ Lookup(t) \/ Generate(t) \/ EndTurn(t)
  \/ Tick

Spec == Init /\ [][Next]_vars

-----------------------------------------------------------------------------
(* Revision numbers only increase along the ledger.  Unless the file was   *)
(* damaged and nothing was appended since, exactly one revision is active, *)
(* it is the last, the differences to it are those to the prompts in       *)
(* force, and no issue is reported: across updates, rollbacks, failed      *)
(* writes and restarts.                                                    *)
LedgerIsSound ==
  mem # None =>
    LET history == mem.history
    IN /\ history # <<>>
       /\ \A i, k \in DOMAIN history : i < k => history[i].revision < history[k].revision
       /\ mem.whole =>
            /\ ActiveAt(history) = {Len(history)}
            /\ \A i \in DOMAIN history :
                 DiffPromptRevision(history, history[i].revision, None)
                   = ChangedFields(mem.prompts, history[i].prompts)
            /\ PromptRevisionIssues(mem)
                 \cap {"active_revision_not_unique", "duplicate_prompt_revision"} = {}

(* What an administrator's call was answered with stays: the revision is   *)
(* in the ledger with its prompts, the plugin is switched as it was asked, *)
(* whatever writes failed and however often the process died since.        *)
AnsweredIsKept ==
  mem # None =>
    /\ \A r \in promised.revisions :
         \E i \in DOMAIN mem.history :
           mem.history[i].revision = r.revision /\ mem.history[i].prompts = r.prompts
    /\ \A p \in Plugin : promised.switches[p] # None => mem.enabled[p] = promised.switches[p]

(* A cached answer is served only to a turn that read the prompt and       *)
(* retrieved from the version it was generated with, and no later than the *)
(* lifetime in force, although prompts, versions and policies change while *)
(* turns are suspended between their reading, lookup and storing.          *)
HitsAreCurrent ==
  \A t \in Turn :
    turn[t].at = "served" =>
      /\ turn[t].from.prompt = turn[t].key.prompt
      /\ turn[t].from.version = turn[t].key.version
      /\ turn[t].from.age <= turn[t].ttl

(* A cache that is switched off is empty and stays so, also when a turn    *)
(* that began before stores its answer after.                              *)
DisabledCacheIsEmpty ==
  mem # None /\ ~CacheOn(mem.policies) => mem.cache = EmptyCache
=============================================================================
