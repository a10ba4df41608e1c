------------------------ MODULE RuntimeConfig_proofs ------------------------
(***************************************************************************)
(* Theorems of RuntimeConfig, for any prompts, policies, plugins, turns    *)
(* and requests, and any number of edits in one call.                      *)
(*                                                                         *)
(* The proof follows a call edit by edit (EditEffect, CallEffect), then    *)
(* through its writes (CallStep), and a start record by record of the      *)
(* ledger it reads (ReadsNext, StartStep).  The inductive invariant adds   *)
(* to the properties what the file on the disk must hold for the next      *)
(* process: what was promised, and a ledger whose numbers increase.        *)
(***************************************************************************)
EXTENDS RuntimeConfig, FiniteSetTheorems, WellFoundedInduction, TLAPS

-----------------------------------------------------------------------------
(* Induction over the natural numbers: a set of them has a least member.   *)
LEMMA LeastNatural ==
  ASSUME NEW S, S \subseteq Nat, S # {}
  PROVE  \E n \in S : \A k \in S : n <= k
<1>1. PICK n \in S : \A k \in S : <<k, n>> \notin OpToRel(<, Nat)
  BY WFMin, NatLessThanWellFounded
<1>2. \A k \in S : ~(k < n)
  BY <1>1 DEF OpToRel
<1> QED
  BY <1>2

-----------------------------------------------------------------------------
(* The numbers of a ledger, all of it valid, increase.                     *)
Increasing(history) ==
  \A i, k \in DOMAIN history : i < k => history[i].revision < history[k].revision

(* Its last revision is the active one and holds these prompts.            *)
Current(history, prompts) ==
  /\ history # <<>>
  /\ ActiveAt(history) = {Len(history)}
  /\ history[Len(history)].prompts = prompts

Ledger == {history \in Seq(PromptTemplateRecord) : Increasing(history)}

(* What a ledger says stays in it.                                         *)
Kept(old, new) ==
  /\ Len(old) <= Len(new)
  /\ \A i \in DOMAIN old :
       new[i].revision = old[i].revision /\ new[i].prompts = old[i].prompts

(* Fields of records, and a record that is no longer active.               *)
LEMMA RecordFields ==
  ASSUME NEW record \in PromptTemplateRecord
  PROVE  /\ record.revision \in 1 .. MaxRevisions /\ record.revision \in Nat
         /\ record.prompts \in PromptConfig
         /\ record.active \in BOOLEAN
  BY RuntimeConfigAssumption DEF PromptTemplateRecord

LEMMA Deactivated ==
  ASSUME NEW record \in PromptTemplateRecord
  PROVE  LET r == [record EXCEPT !.active = FALSE] IN
         /\ r \in PromptTemplateRecord /\ r.revision = record.revision
         /\ r.prompts = record.prompts /\ r.active = FALSE
  BY DEF PromptTemplateRecord

(* The next number is above all that a ledger has.                         *)
LEMMA NextRevisionIs ==
  ASSUME NEW history \in Ledger
  PROVE  /\ NextRevision(history) \in Nat \ {0}
         /\ history # <<>> => NextRevision(history) = history[Len(history)].revision + 1
         /\ \A i \in DOMAIN history : history[i].revision < NextRevision(history)
<1>1. CASE history = <<>>
  BY <1>1 DEF NextRevision
<1>2. CASE history # <<>>
  <2> DEFINE last == history[Len(history)].revision
  <2>1. /\ Len(history) \in DOMAIN history /\ DOMAIN history = 1 .. Len(history)
        /\ \A i \in DOMAIN history : history[i].revision \in Nat
    BY <1>2, RecordFields DEF Ledger
  <2>2. last \in Revisions(history) /\ last \in Nat
    BY <2>1 DEF Revisions
  <2>3. \A i \in DOMAIN history : history[i].revision <= last
    BY <2>1 DEF Ledger, Increasing
  <2>4. \A k \in Revisions(history) : k <= last /\ k \in Nat
    BY <2>1, <2>3 DEF Revisions
  <2> HIDE DEF last
  <2> DEFINE chosen == CHOOSE n \in Revisions(history) : \A k \in Revisions(history) : k <= n
  <2>5. chosen \in Revisions(history) /\ \A k \in Revisions(history) : k <= chosen
    BY <2>2, <2>4
  <2> HIDE DEF chosen
  <2>6. chosen = last
    BY <2>2, <2>4, <2>5
  <2>7. NextRevision(history) = 1 + chosen
    BY <1>2 DEF NextRevision, chosen
  <2>8. NextRevision(history) = last + 1 /\ last \in Nat
    BY <2>2, <2>6, <2>7
  <2>9. \A i \in DOMAIN history : history[i].revision < NextRevision(history)
    BY <2>1, <2>3, <2>8
  <2> QED
    BY <2>8, <2>9 DEF last
<1> QED
  BY <1>1, <1>2

(* A revision is found where it is.                                        *)
LEMMA FindRevision ==
  ASSUME NEW history \in Ledger
  PROVE  /\ \A i \in DOMAIN history : FindPromptRevision(history, history[i].revision) = i
         /\ \A r \in Revisions(history) : FindPromptRevision(history, r) \in DOMAIN history
<1>1. DOMAIN history = 1 .. Len(history) /\ \A i \in DOMAIN history : history[i].revision \in Nat
  BY RecordFields DEF Ledger
<1>2. ASSUME NEW i \in DOMAIN history
      PROVE  FindPromptRevision(history, history[i].revision) = i
  <2>1. \A k \in DOMAIN history : history[k].revision = history[i].revision => k = i
    BY <1>1 DEF Ledger, Increasing
  <2>2. \A k \in 1 .. i - 1 : history[k].revision # history[i].revision
    BY <1>1, <2>1
  <2> QED
    BY <2>1, <2>2 DEF FindPromptRevision
<1> QED
  BY <1>2 DEF Revisions

-----------------------------------------------------------------------------
(* A memory, whatever its prompts, with a ledger that can grow.            *)
LEMMA MemoryFields ==
  ASSUME NEW m \in Memory
  PROVE  /\ m.prompts \in PromptConfig /\ m.history \in Seq(PromptTemplateRecord)
         /\ m.policies \in PolicyConfig /\ m.alerts \in AlertRules
         /\ m.plugin_states \in PluginStates /\ m.enabled \in [Plugin -> BOOLEAN]
         /\ m.cache \in [Key -> Entry \cup {None}] /\ m.whole \in BOOLEAN
  BY DEF Memory

(* _append_prompt_version: the new revision is the last and the only one   *)
(* that is active, and nothing of the ledger is lost.                      *)
LEMMA Appended ==
  ASSUME NEW m \in Memory, m.history \in Ledger, NextRevision(m.history) <= MaxRevisions
  PROVE  LET n == AppendPromptVersion(m) IN
         /\ n \in Memory /\ n.history \in Ledger
         /\ Current(n.history, n.prompts)
         /\ NextRevision(n.history) = NextRevision(m.history) + 1
         /\ Kept(m.history, n.history)
         /\ n.history # m.history
         /\ n.policies = m.policies /\ n.cache = m.cache
         /\ n.plugin_states = m.plugin_states /\ n.enabled = m.enabled
<1> DEFINE n == AppendPromptVersion(m)
           rest == [i \in DOMAIN m.history |-> [m.history[i] EXCEPT !.active = FALSE]]
           new == [revision |-> NextRevision(m.history), prompts |-> m.prompts, active |-> TRUE]
<1>1. m.history \in Seq(PromptTemplateRecord) /\ Len(m.history) \in Nat
  BY MemoryFields
<1>2. /\ rest \in Seq(PromptTemplateRecord) /\ Len(rest) = Len(m.history)
      /\ \A i \in DOMAIN m.history : /\ rest[i].revision = m.history[i].revision
                                     /\ rest[i].prompts = m.history[i].prompts
                                     /\ rest[i].active = FALSE
  <2>1. \A i \in DOMAIN m.history :
          /\ rest[i] \in PromptTemplateRecord /\ rest[i].revision = m.history[i].revision
          /\ rest[i].prompts = m.history[i].prompts /\ rest[i].active = FALSE
    <3> SUFFICES ASSUME NEW i \in DOMAIN m.history
                 PROVE  /\ rest[i] \in PromptTemplateRecord
                        /\ rest[i].revision = m.history[i].revision
                        /\ rest[i].prompts = m.history[i].prompts /\ rest[i].active = FALSE
      OBVIOUS
    <3>1. rest[i] = [m.history[i] EXCEPT !.active = FALSE]
      OBVIOUS
    <3>2. m.history[i] \in PromptTemplateRecord
      BY <1>1
    <3> QED
      BY <3>1, <3>2, Deactivated
  <2>2. DOMAIN rest = 1 .. Len(m.history)
    BY <1>1
  <2> HIDE DEF rest
  <2>3. rest \in Seq(PromptTemplateRecord) /\ Len(rest) = Len(m.history)
    <3>1. rest = [i \in 1 .. Len(m.history) |-> rest[i]]
      BY <1>1, <2>2 DEF rest
    <3>2. \A i \in 1 .. Len(m.history) : rest[i] \in PromptTemplateRecord
      BY <1>1, <2>1
    <3> QED
      BY <1>1, <3>1, <3>2
  <2> QED
    BY <2>1, <2>3
<1>3. new \in PromptTemplateRecord /\ new.active = TRUE /\ new.prompts = m.prompts
      /\ new.revision = NextRevision(m.history)
  BY NextRevisionIs, MemoryFields, RuntimeConfigAssumption DEF PromptTemplateRecord
<1>4. n = [m EXCEPT !.history = Append(rest, new), !.whole = TRUE]
  BY DEF AppendPromptVersion
<1> HIDE DEF rest, new, n
<1>5. /\ Append(rest, new) \in Seq(PromptTemplateRecord)
      /\ Len(Append(rest, new)) = Len(m.history) + 1
      /\ Append(rest, new)[Len(m.history) + 1] = new
      /\ \A i \in DOMAIN m.history : Append(rest, new)[i] = rest[i]
      /\ DOMAIN Append(rest, new) = 1 .. Len(m.history) + 1
      /\ DOMAIN m.history = 1 .. Len(m.history)
  BY <1>1, <1>2, <1>3
<1>6. /\ n \in Memory /\ n.history = Append(rest, new) /\ n.prompts = m.prompts
      /\ n.policies = m.policies /\ n.cache = m.cache
      /\ n.plugin_states = m.plugin_states /\ n.enabled = m.enabled
  BY <1>4, <1>5 DEF Memory
<1>7. Increasing(n.history)
  <2> SUFFICES ASSUME NEW i \in DOMAIN n.history, NEW k \in DOMAIN n.history, i < k
               PROVE  n.history[i].revision < n.history[k].revision
    BY DEF Increasing
  <2>1. i \in DOMAIN m.history
    BY <1>1, <1>5, <1>6
  <2>2. n.history[i].revision = m.history[i].revision
    BY <1>2, <1>5, <1>6, <2>1
  <2>3. CASE k = Len(m.history) + 1
    BY <1>3, <1>5, <1>6, <2>1, <2>2, <2>3, NextRevisionIs
  <2>4. CASE k # Len(m.history) + 1
    <3>1. k \in DOMAIN m.history
      BY <1>1, <1>5, <1>6, <2>4
    <3>2. n.history[k].revision = m.history[k].revision
      BY <1>2, <1>5, <1>6, <3>1
    <3> QED
      BY <2>1, <2>2, <3>1, <3>2 DEF Ledger, Increasing
  <2> QED
    BY <2>3, <2>4
<1>8. n.history \in Ledger /\ n.history # <<>>
  BY <1>5, <1>6, <1>7, MemoryFields DEF Ledger
<1>9. Current(n.history, n.prompts)
  <2>1. \A i \in DOMAIN n.history : n.history[i].active <=> i = Len(n.history)
    BY <1>1, <1>2, <1>3, <1>5, <1>6
  <2>2. ActiveAt(n.history) = {Len(n.history)}
    BY <1>1, <1>5, <1>6, <2>1 DEF ActiveAt
  <2> QED
    BY <1>3, <1>5, <1>6, <1>8, <2>2 DEF Current
<1>10. NextRevision(n.history) = NextRevision(m.history) + 1
  <2>1. n.history[Len(n.history)].revision = NextRevision(m.history)
    BY <1>3, <1>5, <1>6
  <2>2. NextRevision(n.history) = n.history[Len(n.history)].revision + 1
    BY <1>8, NextRevisionIs
  <2> QED
    BY <2>1, <2>2
<1>11. Kept(m.history, n.history) /\ n.history # m.history
  BY <1>1, <1>2, <1>5, <1>6 DEF Kept
<1> QED
  BY <1>6, <1>8, <1>9, <1>10, <1>11 DEF n

-----------------------------------------------------------------------------
(* The memory of a process that is up.                                     *)
CacheOK(m) ==
  /\ \A k \in Key : m.cache[k] # None =>
       m.cache[k].prompt = k.prompt /\ m.cache[k].version = k.version
  /\ ~CacheOn(m.policies) => m.cache = EmptyCache

MemoryOK(m) ==
  /\ m \in Memory
  /\ m.history \in Ledger /\ m.history # <<>>
  /\ m.whole => Current(m.history, m.prompts)
  /\ CacheOK(m)

(* A ledger that is current has one active revision, no number twice, and  *)
(* its differences are those to the prompts.                               *)
LEMMA CurrentIsSound ==
  ASSUME NEW m, MemoryOK(m), m.whole
  PROVE  /\ ActiveAt(m.history) = {Len(m.history)}
         /\ \A i \in DOMAIN m.history :
              DiffPromptRevision(m.history, m.history[i].revision, None)
                = ChangedFields(m.prompts, m.history[i].prompts)
         /\ PromptRevisionIssues(m)
              \cap {"active_revision_not_unique", "duplicate_prompt_revision"} = {}
<1> DEFINE h == m.history
<1>1. /\ h \in Seq(PromptTemplateRecord) /\ Len(h) \in Nat /\ DOMAIN h = 1 .. Len(h)
      /\ Len(h) \in DOMAIN h /\ h \in Ledger
  BY DEF MemoryOK, Ledger
<1>2. ActiveAt(h) = {Len(h)} /\ h[Len(h)].prompts = m.prompts
  BY DEF MemoryOK, Current
<1>3. ActivePromptRevision(h) = Len(h) /\ Cardinality(ActiveAt(h)) = 1
  BY <1>2, FS_Singleton DEF ActivePromptRevision
<1>4. ASSUME NEW i \in DOMAIN h
      PROVE  DiffPromptRevision(h, h[i].revision, None) = ChangedFields(m.prompts, h[i].prompts)
  <2>1. FindPromptRevision(h, h[i].revision) = i
    BY <1>1, FindRevision
  <2>2. Len(h) # None
    BY <1>1, RuntimeConfigValues
  <2> QED
    BY <1>2, <1>3, <2>1, <2>2 DEF DiffPromptRevision
<1>5. Cardinality(Revisions(h)) = Len(h)
  <2> DEFINE f == [i \in 1 .. Len(h) |-> h[i].revision]
  <2>1. \A i, k \in 1 .. Len(h) : h[i].revision = h[k].revision => i = k
    BY <1>1, RecordFields DEF Ledger, Increasing
  <2>2. f \in Bijection(1 .. Len(h), Revisions(h))
    BY <1>1, <2>1 DEF Bijection, Injection, Surjection, IsInjective, Revisions
  <2>3. ExistsBijection(1 .. Len(h), Revisions(h))
    BY <2>2 DEF ExistsBijection
  <2> QED
    BY <1>1, <2>3, FS_CountingElements
<1>6. m.issues \subseteq {"runtime_config_unreadable", "prompt_config_invalid",
                          "prompt_versions_invalid_type", "prompt_version_invalid",
                          "prompt_versions_empty", "prompt_versions_unusable"}
  BY DEF MemoryOK, Memory
<1>7. PromptRevisionIssues(m) = m.issues
  BY <1>1, <1>3, <1>5 DEF PromptRevisionIssues
<1> QED
  BY <1>2, <1>4, <1>6, <1>7

(* What is kept twice is kept, and so are the numbers.                     *)
LEMMA KeptTransitive ==
  ASSUME NEW a \in Ledger, NEW b \in Ledger, NEW c \in Ledger, Kept(a, b), Kept(b, c)
  PROVE  Kept(a, c)
<1>1. /\ Len(a) \in Nat /\ Len(b) \in Nat /\ Len(c) \in Nat
      /\ DOMAIN a = 1 .. Len(a) /\ DOMAIN b = 1 .. Len(b)
  BY DEF Ledger
<1>2. \A i \in DOMAIN a : i \in DOMAIN b
  BY <1>1 DEF Kept
<1> QED
  BY <1>1, <1>2 DEF Kept

LEMMA KeptRevisions ==
  ASSUME NEW a \in Ledger, NEW b \in Ledger, Kept(a, b)
  PROVE  Revisions(a) \subseteq Revisions(b)
<1>1. DOMAIN a = 1 .. Len(a) /\ DOMAIN b = 1 .. Len(b) /\ Len(a) \in Nat /\ Len(b) \in Nat
  BY DEF Ledger
<1>2. \A i \in DOMAIN a : i \in DOMAIN b /\ b[i].revision = a[i].revision
  BY <1>1 DEF Kept
<1> QED
  BY <1>2 DEF Revisions

-----------------------------------------------------------------------------
(* An edit that can be made of a memory m.                                 *)
PutEdit == PromptEdit \cup PolicyEdit \cup AlertEdit \cup PluginEdit

Makes(m, edit) ==
  \/ edit \in PromptEdit \/ edit \in PolicyEdit \/ edit \in AlertEdit
  \/ edit \in PluginEdit /\ edit[2] # Unknown
  \/ edit[1] = "rollback" /\ edit[2] \in Revisions(m.history)

Appends(edit) == edit[1] \in {"prompts", "rollback"}

Switches(edit, p) == edit[1] = "plugin" /\ edit[2] = p

(* What an edit does to a memory, for what follows.                        *)
Effect(m, edit, n) ==
  /\ MemoryOK(n)
  /\ Kept(m.history, n.history)
  /\ NextRevision(n.history) = NextRevision(m.history) + (IF Appends(edit) THEN 1 ELSE 0)
  /\ \A p \in Plugin :
       IF Switches(edit, p) THEN n.enabled[p] = n.plugin_states[p]
       ELSE n.enabled[p] = m.enabled[p] /\ n.plugin_states[p] = m.plugin_states[p]

LEMMA KeptItself ==
  ASSUME NEW a
  PROVE  Kept(a, a)
  BY DEF Kept

(* New prompts are appended to the ledger, wherever they come from.        *)
LEMMA PromptsAppended ==
  ASSUME NEW m, MemoryOK(m), NEW prompts \in PromptConfig,
         NextRevision(m.history) <= MaxRevisions, NEW edit, Appends(edit)
  PROVE  Effect(m, edit, AppendPromptVersion([m EXCEPT !.prompts = prompts]))
<1> DEFINE o == [m EXCEPT !.prompts = prompts]
           n == AppendPromptVersion(o)
<1>1. /\ o \in Memory /\ o.history = m.history /\ o.policies = m.policies
      /\ o.cache = m.cache /\ o.enabled = m.enabled /\ o.plugin_states = m.plugin_states
  BY DEF MemoryOK, Memory
<1> HIDE DEF o
<1>2. o.history \in Ledger /\ NextRevision(o.history) <= MaxRevisions
  BY <1>1 DEF MemoryOK
<1>3. /\ n \in Memory /\ n.history \in Ledger
      /\ Current(n.history, n.prompts)
      /\ NextRevision(n.history) = NextRevision(o.history) + 1
      /\ Kept(o.history, n.history)
      /\ n.history # o.history
      /\ n.policies = o.policies /\ n.cache = o.cache
      /\ n.plugin_states = o.plugin_states /\ n.enabled = o.enabled
  BY <1>1, <1>2, Appended
<1>4. n.whole = TRUE
  BY <1>1 DEF AppendPromptVersion, Memory
<1> HIDE DEF n
<1>5. MemoryOK(n)
  BY <1>1, <1>3, <1>4 DEF MemoryOK, CacheOK, Current
<1>6. ~(\E p : Switches(edit, p))
  BY DEF Appends, Switches
<1> QED
  BY <1>1, <1>3, <1>4, <1>5, <1>6 DEF Effect, n, o

(* Every edit of a call has its effect, and no more.                       *)
LEMMA EditEffect ==
  ASSUME NEW m, MemoryOK(m), NEW edit, Makes(m, edit),
         Appends(edit) => NextRevision(m.history) <= MaxRevisions
  PROVE  Effect(m, edit, Edited(m, edit))
<1> DEFINE n == Edited(m, edit)
<1>0. m \in Memory /\ NextRevision(m.history) \in Nat
  BY NextRevisionIs DEF MemoryOK
<1>1. CASE edit \in PromptEdit
  <2>0. PICK data \in UNION {[fs -> Text] : fs \in (SUBSET Field) \ {{}}} : edit = <<"prompts", data>>
    BY <1>1 DEF PromptEdit
  <2>1. PICK fs \in SUBSET Field : data \in [fs -> Text]
    OBVIOUS
  <2> DEFINE prompts == [f \in Field |-> IF f \in DOMAIN data THEN data[f] ELSE m.prompts[f]]
  <2>2. n = SetPrompts(m, data) /\ Appends(edit)
    BY <2>0 DEF Edited, Appends
  <2>3. n = AppendPromptVersion([m EXCEPT !.prompts = prompts])
    BY <1>0, <2>2 DEF SetPrompts
  <2>4. prompts \in PromptConfig
    BY <1>0, <2>1, MemoryFields DEF PromptConfig
  <2> HIDE DEF prompts, n
  <2> QED
    BY <2>2, <2>3, <2>4, PromptsAppended DEF n
<1>2. CASE edit[1] = "rollback" /\ edit[2] \in Revisions(m.history)
  <2> DEFINE prompts == m.history[FindPromptRevision(m.history, edit[2])].prompts
  <2>1. n = RolledBack(m, edit[2]) /\ Appends(edit)
    BY <1>2 DEF Edited, Appends
  <2>2. n = AppendPromptVersion([m EXCEPT !.prompts = prompts])
    BY <2>1 DEF RolledBack
  <2>3. FindPromptRevision(m.history, edit[2]) \in DOMAIN m.history
    BY <1>2, FindRevision DEF MemoryOK
  <2>4. prompts \in PromptConfig
    BY <2>3, RecordFields DEF MemoryOK, Ledger
  <2> HIDE DEF prompts, n
  <2> QED
    BY <2>1, <2>2, <2>4, PromptsAppended DEF n
<1>3. CASE edit \in PolicyEdit
  <2>1. PICK policies \in PolicyConfig : edit = <<"policies", policies>>
    BY <1>3 DEF PolicyEdit
  <2>2. n = SetPolicies(m, policies) /\ ~Appends(edit) /\ \A p : ~Switches(edit, p)
    BY <2>1 DEF Edited, Appends, Switches
  <2>3. EmptyCache \in [Key -> Entry \cup {None}]
    BY DEF EmptyCache
  <2>4. /\ n \in Memory /\ n.history = m.history /\ n.whole = m.whole /\ n.prompts = m.prompts
        /\ n.enabled = m.enabled /\ n.plugin_states = m.plugin_states
        /\ n.policies = policies
        /\ n.cache = IF CacheOn(policies) THEN m.cache ELSE EmptyCache
    BY <1>0, <2>2, <2>3 DEF SetPolicies, Memory
  <2> HIDE DEF n
  <2>5. CacheOK(n)
    BY <2>4 DEF MemoryOK, CacheOK, EmptyCache
  <2> QED
    BY <1>0, <2>2, <2>4, <2>5, KeptItself DEF Effect, MemoryOK, n
<1>4. CASE edit \in AlertEdit
  <2>1. PICK alerts \in AlertRules : edit = <<"alerts", alerts>>
    BY <1>4 DEF AlertEdit
  <2>2. n = SetAlertRules(m, alerts) /\ ~Appends(edit) /\ \A p : ~Switches(edit, p)
    BY <2>1 DEF Edited, Appends, Switches
  <2>3. /\ n \in Memory /\ n.history = m.history /\ n.whole = m.whole /\ n.prompts = m.prompts
        /\ n.enabled = m.enabled /\ n.plugin_states = m.plugin_states
        /\ n.policies = m.policies /\ n.cache = m.cache
    BY <1>0, <2>2 DEF SetAlertRules, Memory
  <2> HIDE DEF n
  <2> QED
    BY <1>0, <2>2, <2>3, KeptItself DEF Effect, MemoryOK, CacheOK, n
<1>5. CASE edit \in PluginEdit /\ edit[2] # Unknown
  <2>1. PICK q \in Plugin, on \in BOOLEAN : edit = <<"plugin", q, on>>
    BY <1>5 DEF PluginEdit
  <2>2. n = SetPlugin(m, q, on) /\ ~Appends(edit) /\ \A p : Switches(edit, p) <=> p = q
    BY <2>1 DEF Edited, Appends, Switches
  <2> DEFINE enabled == [m.enabled EXCEPT ![q] = on]
             plugin_states == [m.plugin_states EXCEPT ![q] = on]
  <2>4. m.enabled \in [Plugin -> BOOLEAN] /\ m.plugin_states \in [Plugin -> BOOLEAN \cup {None}]
    BY <1>0 DEF Memory, PluginStates
  <2>6. enabled \in [Plugin -> BOOLEAN] /\ plugin_states \in PluginStates
    BY <2>4 DEF PluginStates
  <2>7. n = [m EXCEPT !.enabled = enabled, !.plugin_states = plugin_states]
    BY <2>2 DEF SetPlugin
  <2>8. /\ \A p \in Plugin : p # q => enabled[p] = m.enabled[p] /\ plugin_states[p] = m.plugin_states[p]
        /\ enabled[q] = on /\ plugin_states[q] = on
    BY <2>4
  <2> HIDE DEF enabled, plugin_states, n
  <2>3. /\ n \in Memory /\ n.history = m.history /\ n.whole = m.whole /\ n.prompts = m.prompts
        /\ n.enabled = enabled /\ n.plugin_states = plugin_states
        /\ n.policies = m.policies /\ n.cache = m.cache
    BY <1>0, <2>6, <2>7 DEF Memory
  <2>5. \A p \in Plugin :
          IF Switches(edit, p) THEN n.enabled[p] = n.plugin_states[p]
          ELSE n.enabled[p] = m.enabled[p] /\ n.plugin_states[p] = m.plugin_states[p]
    BY <2>2, <2>3, <2>8
  <2>9. MemoryOK(n)
    BY <2>3 DEF MemoryOK, CacheOK
  <2> QED
    BY <1>0, <2>2, <2>3, <2>5, <2>9, KeptItself DEF Effect, n
<1> QED
  BY <1>1, <1>2, <1>3, <1>4, <1>5 DEF Makes

-----------------------------------------------------------------------------
(* Calls: a sequence of edits, made one after the other.                   *)
(* The edits that are made are the first ones, and switch known plugins.   *)
LEMMA KnownEdits ==
  ASSUME NEW E, NEW edits \in Seq(E)
  PROVE  /\ Known(edits) \in Seq(E) /\ Len(Known(edits)) <= Len(edits)
         /\ \A i \in 1 .. Len(Known(edits)) :
              /\ i \in DOMAIN edits /\ Known(edits)[i] = edits[i]
              /\ ~(edits[i][1] = "plugin" /\ edits[i][2] = Unknown)
<1> DEFINE bad == {i \in DOMAIN edits : edits[i][1] = "plugin" /\ edits[i][2] = Unknown}
<1>1. Len(edits) \in Nat /\ DOMAIN edits = 1 .. Len(edits)
  OBVIOUS
<1>2. CASE bad = {}
  <2>1. Known(edits) = edits
    BY <1>2 DEF Known
  <2> QED
    BY <1>1, <1>2, <2>1
<1>3. CASE bad # {}
  <2> DEFINE first == CHOOSE i \in bad : \A k \in bad : i <= k
  <2>1. bad \subseteq Nat
    BY <1>1
  <2>2. \E i \in bad : \A k \in bad : i <= k
    BY <1>3, <2>1, LeastNatural
  <2>3. first \in bad /\ \A k \in bad : first <= k
    BY <2>2
  <2>4. Known(edits) = SubSeq(edits, 1, first - 1)
    BY <1>3 DEF Known
  <2>5. first \in 1 .. Len(edits) /\ \A i \in 1 .. first - 1 : i \notin bad
    BY <1>1, <2>3
  <2> HIDE DEF first
  <2>6. /\ Known(edits) \in Seq(E) /\ Len(Known(edits)) = first - 1
        /\ \A i \in 1 .. first - 1 : Known(edits)[i] = edits[i]
    BY <1>1, <2>4, <2>5
  <2>7. \A i \in 1 .. first - 1 : i \in DOMAIN edits /\ ~(edits[i][1] = "plugin" /\ edits[i][2] = Unknown)
    BY <1>1, <2>5
  <2> QED
    BY <1>1, <2>5, <2>6, <2>7
<1> QED
  BY <1>2, <1>3

(* After is the function its definition describes.                         *)
LEMMA AfterEquation ==
  ASSUME NEW edits, Len(edits) \in Nat
  PROVE  /\ After(edits)[0] = mem
         /\ \A i \in 1 .. Len(edits) : After(edits)[i] = Edited(After(edits)[i - 1], edits[i])
<1> DEFINE Defines(h, n) ==
             h = [i \in 0 .. n |-> IF i = 0 THEN mem ELSE Edited(h[i - 1], edits[i])]
           S == {n \in 0 .. Len(edits) : ~\E h : Defines(h, n)}
<1>1. S = {}
  <2> SUFFICES ASSUME S # {} PROVE FALSE
    OBVIOUS
  <2>1. PICK n \in S : \A k \in S : n <= k
    <3>1. S \subseteq Nat
      OBVIOUS
    <3> HIDE DEF S
    <3> QED
      BY <3>1, LeastNatural
  <2>2. n # 0
    <3>1. Defines([i \in 0 .. 0 |-> mem], 0)
      OBVIOUS
    <3> QED
      BY <3>1
  <2>3. n - 1 \in 0 .. Len(edits) /\ n - 1 \notin S
    BY <2>1, <2>2
  <2>4. PICK h : Defines(h, n - 1)
    BY <2>3
  <2> DEFINE g == [i \in 0 .. n |-> IF i = n THEN Edited(h[n - 1], edits[n]) ELSE h[i]]
  <2>5. g = [i \in 0 .. n |-> IF i = 0 THEN mem ELSE Edited(g[i - 1], edits[i])]
    <3>1. \A i \in 0 .. n :
            g[i] = IF i = 0 THEN mem ELSE Edited(g[i - 1], edits[i])
      <4> SUFFICES ASSUME NEW i \in 0 .. n
                   PROVE  g[i] = IF i = 0 THEN mem ELSE Edited(g[i - 1], edits[i])
        OBVIOUS
      <4>1. CASE i = n
        BY <2>2, <4>1
      <4>2. CASE i # n
        <5>1. i \in 0 .. n - 1 /\ g[i] = h[i] /\ (i # 0 => i - 1 \in 0 .. n /\ i - 1 # n)
          BY <4>2
        <5>2. i # 0 => g[i - 1] = h[i - 1]
          BY <5>1
        <5>3. h[i] = IF i = 0 THEN mem ELSE Edited(h[i - 1], edits[i])
          BY <2>4, <5>1
        <5> QED
          BY <5>1, <5>2, <5>3
      <4> QED
        BY <4>1, <4>2
    <3> QED
      BY <3>1
  <2> QED
    BY <2>1, <2>5
<1>2. PICK h : Defines(h, Len(edits))
  BY <1>1
<1> DEFINE a == After(edits)
<1>3. a = [i \in 0 .. Len(edits) |-> IF i = 0 THEN mem ELSE Edited(a[i - 1], edits[i])]
  BY <1>2 DEF After
<1> HIDE DEF a
<1>4. /\ a[0] = mem
      /\ \A i \in 1 .. Len(edits) : a[i] = Edited(a[i - 1], edits[i])
  BY <1>3
<1> QED
  BY <1>4 DEF a

(* What the first i edits do together.                                     *)
Appending(edits, i) == {k \in 1 .. i : Appends(edits[k])}

AfterOK(edits, i) ==
  LET m == After(edits)[i]
  IN /\ MemoryOK(m)
     /\ Kept(mem.history, m.history)
     /\ NextRevision(m.history) = NextRevision(mem.history) + Cardinality(Appending(edits, i))
     /\ \A p \in Plugin :
          IF \E k \in 1 .. i : Switches(edits[k], p) THEN m.enabled[p] = m.plugin_states[p]
          ELSE m.enabled[p] = mem.enabled[p] /\ m.plugin_states[p] = mem.plugin_states[p]

(* How many revisions the first i edits append.                            *)
LEMMA AppendingCount ==
  ASSUME NEW edits, NEW i \in Nat
  PROVE  /\ Cardinality(Appending(edits, 0)) = 0
         /\ IsFiniteSet(Appending(edits, i)) /\ Cardinality(Appending(edits, i)) \in Nat
         /\ Cardinality(Appending(edits, i + 1)) =
              Cardinality(Appending(edits, i)) + (IF Appends(edits[i + 1]) THEN 1 ELSE 0)
<1>1. Appending(edits, 0) = {}
  BY DEF Appending
<1>2. IsFiniteSet(1 .. i) /\ Appending(edits, i) \in SUBSET (1 .. i)
  BY FS_Interval DEF Appending
<1>3. IsFiniteSet(Appending(edits, i)) /\ Cardinality(Appending(edits, i)) \in Nat
  BY <1>2, FS_Subset, FS_CardinalityType
<1>4. Appending(edits, i + 1) =
        IF Appends(edits[i + 1]) THEN Appending(edits, i) \cup {i + 1} ELSE Appending(edits, i)
  BY DEF Appending
<1>5. i + 1 \notin Appending(edits, i)
  BY DEF Appending
<1>6. Cardinality(Appending(edits, i) \cup {i + 1}) = Cardinality(Appending(edits, i)) + 1
  BY <1>3, <1>5, FS_AddElement
<1>7. Cardinality(Appending(edits, 0)) = 0
  BY <1>1, FS_EmptySet
<1> QED
  BY <1>3, <1>4, <1>6, <1>7

(* An edit that mem can make can be made later.                            *)
LEMMA StillMakes ==
  ASSUME NEW m, MemoryOK(mem), MemoryOK(m), Kept(mem.history, m.history),
         NEW edit, Makes(mem, edit)
  PROVE  Makes(m, edit)
  BY KeptRevisions DEF Makes, MemoryOK

(* The memory after any number of edits of a call, by induction.           *)
LEMMA CallEffect ==
  ASSUME MemoryOK(mem), NEW edits, Len(edits) \in Nat,
         \A i \in 1 .. Len(edits) : Makes(mem, edits[i]),
         NextRevision(mem.history) + Cardinality(Appending(edits, Len(edits))) <= MaxRevisions + 1
  PROVE  \A i \in 0 .. Len(edits) : AfterOK(edits, i)
<1> DEFINE a == After(edits)
           S == {i \in 0 .. Len(edits) : ~AfterOK(edits, i)}
<1> SUFFICES ASSUME S # {} PROVE FALSE
  OBVIOUS
<1>0. NextRevision(mem.history) \in Nat /\ MaxRevisions \in Nat
  BY NextRevisionIs, RuntimeConfigAssumption DEF MemoryOK
<1>1. PICK i \in S : \A k \in S : i <= k
  <2>1. S \subseteq Nat
    OBVIOUS
  <2> HIDE DEF S
  <2> QED
    BY <2>1, LeastNatural
<1>2. i # 0
  <2>1. a[0] = mem
    BY AfterEquation
  <2>2. Cardinality(Appending(edits, 0)) = 0
    BY AppendingCount
  <2>3. Kept(mem.history, mem.history)
    BY KeptItself
  <2>4. AfterOK(edits, 0)
    BY <1>0, <2>1, <2>2, <2>3 DEF AfterOK
  <2> QED
    BY <2>4
<1>3. i - 1 \in Nat /\ i \in 1 .. Len(edits) /\ AfterOK(edits, i - 1)
  BY <1>1, <1>2
<1> DEFINE m == a[i - 1]
           n == a[i]
<1>4. n = Edited(m, edits[i])
  BY <1>3, AfterEquation
<1>5. /\ MemoryOK(m) /\ Kept(mem.history, m.history)
      /\ NextRevision(m.history) = NextRevision(mem.history) + Cardinality(Appending(edits, i - 1))
      /\ \A p \in Plugin :
           IF \E k \in 1 .. i - 1 : Switches(edits[k], p) THEN m.enabled[p] = m.plugin_states[p]
           ELSE m.enabled[p] = mem.enabled[p] /\ m.plugin_states[p] = mem.plugin_states[p]
  BY <1>3 DEF AfterOK
<1> HIDE DEF m, a, n
<1>6. /\ Cardinality(Appending(edits, i)) =
           Cardinality(Appending(edits, i - 1)) + (IF Appends(edits[i]) THEN 1 ELSE 0)
      /\ Cardinality(Appending(edits, i - 1)) \in Nat
  <2>1. (i - 1) + 1 = i
    BY <1>3
  <2> QED
    BY <1>3, <2>1, AppendingCount
<1>7. Cardinality(Appending(edits, i)) <= Cardinality(Appending(edits, Len(edits)))
  <2>1. IsFiniteSet(Appending(edits, Len(edits)))
    BY AppendingCount
  <2>2. Appending(edits, i) \in SUBSET Appending(edits, Len(edits))
    BY <1>3 DEF Appending
  <2> QED
    BY <2>1, <2>2, FS_Subset
<1>8. Appends(edits[i]) => NextRevision(m.history) <= MaxRevisions
  <2>1. Cardinality(Appending(edits, Len(edits))) \in Nat
    BY AppendingCount
  <2> QED
    BY <1>0, <1>5, <1>6, <1>7, <2>1
<1>9. Effect(m, edits[i], n)
  <2>1. Makes(m, edits[i])
    BY <1>3, <1>5, StillMakes
  <2> QED
    BY <1>4, <1>5, <1>8, <2>1, EditEffect
<1>10. /\ MemoryOK(n) /\ Kept(mem.history, n.history)
       /\ NextRevision(n.history) = NextRevision(mem.history) + Cardinality(Appending(edits, i))
  <2>1. MemoryOK(n) /\ Kept(m.history, n.history)
        /\ NextRevision(n.history) = NextRevision(m.history) + (IF Appends(edits[i]) THEN 1 ELSE 0)
    BY <1>9 DEF Effect
  <2>2. Kept(mem.history, n.history)
    BY <1>5, <2>1, KeptTransitive DEF MemoryOK
  <2> QED
    BY <1>0, <1>5, <1>6, <2>1, <2>2
<1>11. ASSUME NEW p \in Plugin
       PROVE  IF \E k \in 1 .. i : Switches(edits[k], p) THEN n.enabled[p] = n.plugin_states[p]
              ELSE n.enabled[p] = mem.enabled[p] /\ n.plugin_states[p] = mem.plugin_states[p]
  <2>1. IF Switches(edits[i], p) THEN n.enabled[p] = n.plugin_states[p]
        ELSE n.enabled[p] = m.enabled[p] /\ n.plugin_states[p] = m.plugin_states[p]
    BY <1>9 DEF Effect
  <2>2. (\E k \in 1 .. i : Switches(edits[k], p)) <=>
          Switches(edits[i], p) \/ \E k \in 1 .. i - 1 : Switches(edits[k], p)
    BY <1>3
  <2> QED
    BY <1>5, <2>1, <2>2
<1>12. AfterOK(edits, i)
  BY <1>10, <1>11 DEF AfterOK, n, a
<1> QED
  BY <1>12

-----------------------------------------------------------------------------
(* The inductive invariant.  A file that was damaged keeps the numbers in  *)
(* order in what is left of it.                                            *)
RecordsIncrease(history) ==
  \A i, k \in DOMAIN history :
    history[i] # Invalid /\ history[k] # Invalid /\ i < k
      => history[i].revision < history[k].revision

ImageOK(image) ==
  /\ image.history # Invalid => RecordsIncrease(image.history)
  /\ image.whole => /\ image.prompts \in PromptConfig
                    /\ image.history \in Ledger
                    /\ Current(image.history, image.prompts)

(* What was promised is there.                                             *)
Says(history, r) ==
  \E i \in DOMAIN history :
    history[i] # Invalid /\ history[i].revision = r.revision /\ history[i].prompts = r.prompts

Honours(history, states, promise) ==
  /\ \A r \in promise.revisions : history # Invalid /\ Says(history, r)
  /\ \A p \in Plugin : promise.switches[p] # None => states[p] = promise.switches[p]

Nothing(promise) ==
  promise.revisions = {} /\ \A p \in Plugin : promise.switches[p] = None

PromiseType ==
  [revisions : SUBSET [revision : 1 .. MaxRevisions, prompts : PromptConfig],
   switches : [Plugin -> BOOLEAN \cup {None}]]

(* A memory, and a file, that hold what was promised.                      *)
UpOK(m, promise) ==
  /\ MemoryOK(m)
  /\ Honours(m.history, m.plugin_states, promise)
  /\ Honours(m.history, m.enabled, promise)

FileOK(image, promise) ==
  /\ image \in Image \cup {None, Invalid}
  /\ IF image \in {None, Invalid} THEN Nothing(promise)
     ELSE ImageOK(image) /\ Honours(image.history, image.plugin_states, promise)

TurnsOK ==
  /\ turn \in [Turn -> TurnState]
  /\ mem = None => \A t \in Turn : turn[t] = Idle
  /\ HitsAreCurrent

IInv ==
  /\ mem # None => UpOK(mem, promised)
  /\ FileOK(file, promised)
  /\ promised \in PromiseType
  /\ TurnsOK

-----------------------------------------------------------------------------
(* What is written is what the memory holds.                               *)
LEMMA WrittenOK ==
  ASSUME NEW m, MemoryOK(m)
  PROVE  /\ Written(m) \in Image /\ Written(m) \notin {None, Invalid}
         /\ ImageOK(Written(m))
         /\ Written(m).history = m.history /\ Written(m).plugin_states = m.plugin_states
<1>1. /\ m \in Memory /\ m.history \in Ledger /\ m.whole => Current(m.history, m.prompts)
  BY DEF MemoryOK
<1>2. /\ Written(m).history = m.history /\ Written(m).plugin_states = m.plugin_states
      /\ Written(m).whole = m.whole /\ Written(m).prompts = m.prompts
  BY DEF Written
<1>3. m.history \in Seq(PromptTemplateRecord \cup {Invalid})
  BY <1>1 DEF MemoryOK, Ledger
<1>4. Written(m) \in Image
  BY <1>1, <1>3, MemoryFields DEF MemoryOK, Written, Image
<1>5. Written(m) \notin {None, Invalid}
  BY <1>4, RuntimeConfigValues
<1>6. RecordsIncrease(m.history)
  BY DEF MemoryOK, Ledger, Increasing, RecordsIncrease
<1>7. ImageOK(Written(m))
  BY <1>2, <1>6, MemoryFields DEF MemoryOK, ImageOK
<1> QED
  BY <1>2, <1>4, <1>5, <1>7

(* A ledger is no Invalid, nor is a record of it.                          *)
LEMMA LedgerValid ==
  ASSUME NEW history \in Ledger
  PROVE  history # Invalid /\ \A i \in DOMAIN history : history[i] # Invalid
<1>1. history \in Seq(PromptTemplateRecord \cup {Invalid})
  BY DEF Ledger
<1> QED
  BY <1>1, RuntimeConfigValues DEF Ledger

LEMMA SaysKept ==
  ASSUME NEW a \in Ledger, NEW b \in Ledger, Kept(a, b), NEW r, Says(a, r)
  PROVE  Says(b, r)
<1>1. PICK i \in DOMAIN a : a[i].revision = r.revision /\ a[i].prompts = r.prompts
  BY DEF Says
<1>2. i \in DOMAIN b /\ b[i].revision = a[i].revision /\ b[i].prompts = a[i].prompts
  BY DEF Kept, Ledger
<1> QED
  BY <1>1, <1>2, LedgerValid DEF Says

(* What a call leaves uncertain it does not promise; the rest it keeps.    *)
LEMMA UncertainHonoured ==
  ASSUME MemoryOK(mem), promised \in PromiseType,
         Honours(mem.history, mem.plugin_states, promised),
         Honours(mem.history, mem.enabled, promised),
         NEW edits, NEW m, MemoryOK(m), Kept(mem.history, m.history),
         \A p \in Plugin : (~\E i \in DOMAIN edits : Switches(edits[i], p)) =>
           m.enabled[p] = mem.enabled[p] /\ m.plugin_states[p] = mem.plugin_states[p]
  PROVE  /\ Uncertain(edits) \in PromiseType
         /\ Honours(m.history, m.plugin_states, Uncertain(edits))
         /\ Honours(m.history, m.enabled, Uncertain(edits))
<1> DEFINE u == Uncertain(edits)
           s == [p \in Plugin |-> IF \E i \in DOMAIN edits : Switches(edits[i], p)
                                  THEN None ELSE promised.switches[p]]
<1>1. u = [promised EXCEPT !.switches = s]
  BY DEF Uncertain, Switches
<1>2. promised.switches \in [Plugin -> BOOLEAN \cup {None}]
  BY DEF PromiseType
<1>3. s \in [Plugin -> BOOLEAN \cup {None}]
  BY <1>2
<1> HIDE DEF s
<1>4. u \in PromiseType /\ u.revisions = promised.revisions /\ u.switches = s
  BY <1>1, <1>3 DEF PromiseType
<1>5. \A p \in Plugin : s[p] # None =>
        s[p] = promised.switches[p] /\ ~\E i \in DOMAIN edits : Switches(edits[i], p)
  BY DEF s
<1> HIDE DEF u
<1>6. m.history # Invalid /\ \A r \in promised.revisions : Says(m.history, r)
  BY SaysKept, LedgerValid DEF MemoryOK, Honours
<1> QED
  BY <1>4, <1>5, <1>6 DEF Honours, u

(* An empty promise stays empty.                                           *)
LEMMA UncertainNothing ==
  ASSUME promised \in PromiseType, Nothing(promised), NEW edits
  PROVE  Nothing(Uncertain(edits))
  BY DEF PromiseType, Nothing, Uncertain

(* What held for the promise holds for the uncertain one.                  *)
LEMMA UncertainWeaker ==
  ASSUME promised \in PromiseType, NEW history, NEW states, NEW edits,
         Honours(history, states, promised)
  PROVE  Honours(history, states, Uncertain(edits))
  BY DEF PromiseType, Honours, Uncertain

(* A call that makes no edit promises nothing new.                         *)
LEMMA EmptyPromise ==
  ASSUME promised \in PromiseType
  PROVE  Promise(mem, <<>>) = promised
<1>1. \A p : {i \in DOMAIN <<>> : <<>>[i][1] = "plugin" /\ <<>>[i][2] = p} = {}
  OBVIOUS
<1>2. Promise(mem, <<>>) =
        [revisions |-> promised.revisions,
         switches |-> [p \in Plugin |-> promised.switches[p]]]
  BY <1>1 DEF Promise
<1> QED
  BY <1>2 DEF PromiseType

(* A call that is answered promises what it did.                           *)
LEMMA PromiseHonoured ==
  ASSUME MemoryOK(mem), promised \in PromiseType,
         Honours(mem.history, mem.plugin_states, promised),
         Honours(mem.history, mem.enabled, promised),
         NEW edits, NEW m, MemoryOK(m), Kept(mem.history, m.history),
         \A p \in Plugin :
           IF \E i \in DOMAIN edits : Switches(edits[i], p) THEN m.enabled[p] = m.plugin_states[p]
           ELSE m.enabled[p] = mem.enabled[p] /\ m.plugin_states[p] = mem.plugin_states[p]
  PROVE  /\ Promise(m, edits) \in PromiseType
         /\ Honours(m.history, m.plugin_states, Promise(m, edits))
         /\ Honours(m.history, m.enabled, Promise(m, edits))
<1> DEFINE new == {[revision |-> m.history[i].revision, prompts |-> m.history[i].prompts] :
                     i \in {k \in DOMAIN m.history : m.history # mem.history /\ k = Len(m.history)}}
           s == [p \in Plugin |-> IF \E i \in DOMAIN edits : Switches(edits[i], p)
                                  THEN m.enabled[p] ELSE promised.switches[p]]
           w == Promise(m, edits)
<1>1. w.revisions = promised.revisions \cup new
  BY DEF Promise
<1>2. w.switches = s
  <2>1. \A p \in Plugin :
          ({i \in DOMAIN edits : edits[i][1] = "plugin" /\ edits[i][2] = p} = {})
            <=> ~\E i \in DOMAIN edits : Switches(edits[i], p)
    BY DEF Switches
  <2> QED
    BY <2>1 DEF Promise
<1>3. w = [revisions |-> promised.revisions \cup new, switches |-> s]
  BY <1>1, <1>2 DEF Promise
<1>4. /\ promised.switches \in [Plugin -> BOOLEAN \cup {None}]
      /\ promised.revisions \subseteq [revision : 1 .. MaxRevisions, prompts : PromptConfig]
  BY DEF PromiseType
<1>5. s \in [Plugin -> BOOLEAN \cup {None}]
  BY <1>4 DEF MemoryOK, Memory
<1>6. \A p \in Plugin : s[p] # None => m.enabled[p] = s[p] /\ m.plugin_states[p] = s[p]
  BY DEF Honours
<1> HIDE DEF s
<1>7. new \subseteq [revision : 1 .. MaxRevisions, prompts : PromptConfig]
  BY RecordFields DEF MemoryOK, Ledger
<1>8. \A r \in new : Says(m.history, r)
  BY LedgerValid DEF MemoryOK, Says
<1>9. m.history # Invalid /\ \A r \in promised.revisions : Says(m.history, r)
  BY SaysKept, LedgerValid DEF MemoryOK, Honours
<1> HIDE DEF new, w
<1>10. w \in PromiseType
  BY <1>3, <1>4, <1>5, <1>7 DEF PromiseType
<1> QED
  BY <1>3, <1>6, <1>8, <1>9, <1>10 DEF Honours, w

-----------------------------------------------------------------------------
(* A call keeps the invariant, wherever it ends.                           *)
CallEdit(edit) ==
  \/ edit \in PutEdit
  \/ edit[1] = "rollback" /\ edit[2] \in Revisions(mem.history)

(* The process stays up, or dies.                                          *)
LEMMA UpStep ==
  ASSUME TurnsOK, turn' = turn, UpOK(mem', promised'), promised' \in PromiseType,
         FileOK(file', promised')
  PROVE  IInv'
<1>1. mem' # None
  BY RuntimeConfigValues DEF UpOK, MemoryOK
<1> QED
  BY <1>1 DEF IInv, TurnsOK, HitsAreCurrent

LEMMA IdleTurns ==
  ASSUME turn' = [t \in Turn |-> Idle]
  PROVE  TurnsOK'
  BY DEF TurnsOK, HitsAreCurrent, TurnState, Idle

(* A call that the bound on revisions lets through does its known edits.   *)
LEMMA KnownEffect ==
  ASSUME MemoryOK(mem), NEW E, NEW edits \in Seq(E), \A i \in DOMAIN edits : CallEdit(edits[i]),
         NextRevision(mem.history) + Cardinality({i \in DOMAIN edits : Appends(edits[i])})
           <= MaxRevisions + 1
  PROVE  LET known == Known(edits) IN
         /\ Len(known) \in Nat /\ DOMAIN known = 1 .. Len(known)
         /\ \A i \in 0 .. Len(known) : AfterOK(known, i)
         /\ \A i \in 1 .. Len(known) : i \in DOMAIN edits /\ known[i] = edits[i]
         /\ After(known)[0] = mem
<1> DEFINE known == Known(edits)
           all == {i \in DOMAIN edits : Appends(edits[i])}
<1>1. /\ Len(known) \in Nat /\ DOMAIN known = 1 .. Len(known)
      /\ \A i \in 1 .. Len(known) :
           /\ i \in DOMAIN edits /\ known[i] = edits[i]
           /\ ~(edits[i][1] = "plugin" /\ edits[i][2] = Unknown)
      /\ Len(edits) \in Nat /\ DOMAIN edits = 1 .. Len(edits)
  BY KnownEdits
<1> HIDE DEF known
<1>2. ASSUME NEW i \in 1 .. Len(known)
      PROVE  Makes(mem, known[i])
  <2>1. CallEdit(edits[i]) /\ known[i] = edits[i]
    BY <1>1
  <2>2. edits[i] \in PluginEdit => edits[i][2] # Unknown
    <3>1. edits[i] \in PluginEdit => edits[i][1] = "plugin"
      BY DEF PluginEdit
    <3> QED
      BY <1>1, <3>1
  <2> QED
    BY <2>1, <2>2 DEF CallEdit, PutEdit, Makes
<1>3. IsFiniteSet(all)
  <2> DEFINE n == Len(edits)
  <2>1. n \in Nat /\ all \in SUBSET (1 .. n)
    BY <1>1
  <2> HIDE DEF n, all
  <2>2. IsFiniteSet(1 .. n)
    BY <2>1, FS_Interval
  <2> QED
    BY <2>1, <2>2, FS_Subset
<1>4. NextRevision(mem.history) + Cardinality(Appending(known, Len(known))) <= MaxRevisions + 1
  <2>1. NextRevision(mem.history) \in Nat /\ MaxRevisions \in Nat
    BY NextRevisionIs, RuntimeConfigAssumption DEF MemoryOK
  <2>2. Cardinality(Appending(known, Len(known))) \in Nat
    BY <1>1, AppendingCount
  <2>3. Appending(known, Len(known)) \in SUBSET all
    BY <1>1 DEF Appending
  <2>4. NextRevision(mem.history) + Cardinality(all) <= MaxRevisions + 1
    OBVIOUS
  <2> HIDE DEF all
  <2>5. Cardinality(all) \in Nat
    BY <1>3, FS_CardinalityType
  <2>6. Cardinality(Appending(known, Len(known))) <= Cardinality(all)
    BY <1>3, <2>3, FS_Subset
  <2> QED
    BY <2>1, <2>2, <2>4, <2>5, <2>6
<1>5. \A i \in 0 .. Len(known) : AfterOK(known, i)
  BY <1>1, <1>2, <1>4, CallEffect
<1>6. After(known)[0] = mem
  BY <1>1, AfterEquation
<1> QED
  BY <1>1, <1>5, <1>6 DEF known

(* After any part of a call that is not answered.                          *)
LEMMA PartEffect ==
  ASSUME UpOK(mem, promised), promised \in PromiseType,
         NEW edits, NEW known, Len(known) \in Nat,
         \A i \in 1 .. Len(known) : i \in DOMAIN edits /\ known[i] = edits[i],
         NEW i \in 0 .. Len(known), AfterOK(known, i)
  PROVE  UpOK(After(known)[i], Uncertain(edits)) /\ Uncertain(edits) \in PromiseType
<1> DEFINE m == After(known)[i]
<1>1. /\ MemoryOK(m) /\ Kept(mem.history, m.history)
      /\ \A p \in Plugin :
           IF \E k \in 1 .. i : Switches(known[k], p) THEN m.enabled[p] = m.plugin_states[p]
           ELSE m.enabled[p] = mem.enabled[p] /\ m.plugin_states[p] = mem.plugin_states[p]
  BY DEF AfterOK
<1> HIDE DEF m
<1>2. ASSUME NEW p \in Plugin, ~\E k \in DOMAIN edits : Switches(edits[k], p)
      PROVE  m.enabled[p] = mem.enabled[p] /\ m.plugin_states[p] = mem.plugin_states[p]
  <2>1. \A k \in 1 .. i : k \in DOMAIN edits /\ known[k] = edits[k]
    OBVIOUS
  <2> QED
    BY <1>1, <1>2, <2>1
<1>3. /\ Uncertain(edits) \in PromiseType
      /\ Honours(m.history, m.plugin_states, Uncertain(edits))
      /\ Honours(m.history, m.enabled, Uncertain(edits))
  BY <1>1, <1>2, UncertainHonoured DEF UpOK
<1> QED
  BY <1>1, <1>3 DEF m, UpOK

(* A memory that is written is a file that holds as much.                  *)
LEMMA WrittenFile ==
  ASSUME NEW m, NEW promise, UpOK(m, promise)
  PROVE  FileOK(Written(m), promise)
  BY WrittenOK DEF UpOK, FileOK

(* A file that stays, when a call is not answered.                         *)
LEMMA FileStays ==
  ASSUME promised \in PromiseType, NEW edits, FileOK(file, promised)
  PROVE  FileOK(file, Uncertain(edits))
  BY UncertainNothing, UncertainWeaker DEF FileOK

(* Answered, failed at a write, or cut off between two writes: a call      *)
(* keeps the invariant.                                                    *)
LEMMA CallStep ==
  ASSUME IInv, NEW E, NEW edits \in Seq(E), \A i \in DOMAIN edits : CallEdit(edits[i]), Call(edits)
  PROVE  IInv'
<1> DEFINE known == Known(edits)
           a(i) == After(known)[i]
<1>0. /\ mem # None /\ UpOK(mem, promised) /\ promised \in PromiseType
      /\ FileOK(file, promised) /\ TurnsOK
  BY DEF Call, IInv
<1>1. /\ Len(known) \in Nat /\ DOMAIN known = 1 .. Len(known)
      /\ \A i \in 0 .. Len(known) : AfterOK(known, i)
      /\ \A i \in 1 .. Len(known) : i \in DOMAIN edits /\ known[i] = edits[i]
      /\ a(0) = mem
  <2>1. NextRevision(mem.history) + Cardinality({i \in DOMAIN edits : Appends(edits[i])})
           <= MaxRevisions + 1
    BY DEF Call, Appends
  <2> QED
    BY <1>0, <2>1, KnownEffect DEF UpOK
<1>2. ASSUME NEW i \in 0 .. Len(known)
      PROVE  /\ UpOK(a(i), Uncertain(edits)) /\ Uncertain(edits) \in PromiseType
             /\ FileOK(Written(a(i)), Uncertain(edits))
  <2>1. AfterOK(known, i)
    BY <1>1
  <2> HIDE DEF known
  <2>2. UpOK(a(i), Uncertain(edits)) /\ Uncertain(edits) \in PromiseType
    BY <1>0, <1>1, <2>1, PartEffect
  <2> HIDE DEF a
  <2> QED
    BY <2>2, WrittenFile
<1>3. FileOK(file, Uncertain(edits))
  BY <1>0, FileStays
<1>4. CASE Complete(edits)
  <2> DEFINE m == a(Len(known))
             promise == IF known = edits THEN Promise(m, edits) ELSE Uncertain(edits)
  <2>1. mem' = m /\ file' = (IF known = <<>> THEN file ELSE Written(m)) /\ promised' = promise
        /\ turn' = turn
    BY <1>4 DEF Complete
  <2>2. UpOK(m, promise) /\ promise \in PromiseType
    <3>1. UpOK(m, Uncertain(edits)) /\ Uncertain(edits) \in PromiseType
      BY <1>1, <1>2
    <3>2. CASE known # edits
      BY <3>1, <3>2
    <3>3. CASE known = edits
      <4>1. /\ Kept(mem.history, m.history)
            /\ \A p \in Plugin :
                 IF \E i \in DOMAIN edits : Switches(edits[i], p) THEN m.enabled[p] = m.plugin_states[p]
                 ELSE m.enabled[p] = mem.enabled[p] /\ m.plugin_states[p] = mem.plugin_states[p]
        BY <1>1, <3>3 DEF AfterOK
      <4> HIDE DEF m
      <4>2. /\ Promise(m, edits) \in PromiseType
            /\ Honours(m.history, m.plugin_states, Promise(m, edits))
            /\ Honours(m.history, m.enabled, Promise(m, edits))
        BY <1>0, <3>1, <4>1, PromiseHonoured DEF UpOK
      <4> QED
        BY <3>1, <3>3, <4>2 DEF UpOK
    <3> QED
      BY <3>2, <3>3
  <2>3. FileOK(file', promise)
    <3>1. CASE known # <<>>
      <4> HIDE DEF known, promise, m
      <4> QED
        BY <2>1, <2>2, <3>1, WrittenFile
    <3>2. CASE known = <<>> /\ known # edits
      BY <1>3, <2>1, <3>2
    <3>3. CASE known = <<>> /\ known = edits
      <4>1. m = mem /\ file' = file
        BY <1>1, <2>1, <3>3
      <4>2. promise = promised
        BY <1>0, <3>3, <4>1, EmptyPromise
      <4> QED
        BY <1>0, <4>1, <4>2
    <3> QED
      BY <3>1, <3>2, <3>3
  <2> HIDE DEF known, promise, m
  <2> QED
    BY <1>0, <2>1, <2>2, <2>3, UpStep
<1>5. CASE WriteFails(edits)
  <2>1. PICK i \in 1 .. Len(known) :
          /\ mem' = a(i)
          /\ file' = IF i = 1 THEN file ELSE Written(a(i - 1))
          /\ promised' = Uncertain(edits)
          /\ turn' = turn
    BY <1>1, <1>5 DEF WriteFails
  <2>2. i \in 0 .. Len(known) /\ i - 1 \in 0 .. Len(known)
    BY <1>1
  <2> HIDE DEF known, a
  <2>3. FileOK(file', Uncertain(edits))
    BY <1>2, <1>3, <2>1, <2>2
  <2> QED
    BY <1>0, <1>2, <2>1, <2>2, <2>3, UpStep
<1>6. CASE Dies(edits)
  <2>1. PICK i \in 1 .. Len(known) - 1 :
          /\ mem' = None
          /\ file' = Written(a(i))
          /\ promised' = Uncertain(edits)
          /\ turn' = [t \in Turn |-> Idle]
    BY <1>6 DEF Dies
  <2>2. i \in 0 .. Len(known)
    BY <1>1
  <2> HIDE DEF known, a
  <2> QED
    BY <1>2, <2>1, <2>2, IdleTurns DEF IInv
<1> QED
  BY <1>4, <1>5, <1>6 DEF Call

-----------------------------------------------------------------------------
(* What is read of a ledger.                                               *)
Kepts(history, kept) ==
  kept = [n \in 0 .. Len(history) |->
            IF n = 0 THEN <<>>
            ELSE IF history[n] = Invalid THEN kept[n - 1] ELSE Append(kept[n - 1], history[n])]

(* It is the function its definition describes.                            *)
LEMMA ValidEquation ==
  ASSUME NEW history, Len(history) \in Nat
  PROVE  \E kept : Kepts(history, kept) /\ Valid(history) = kept[Len(history)]
<1> DEFINE Step(h, i) ==
             IF i = 0 THEN <<>>
             ELSE IF history[i] = Invalid THEN h[i - 1] ELSE Append(h[i - 1], history[i])
           Defines(h, n) == h = [i \in 0 .. n |-> Step(h, i)]
           S == {n \in 0 .. Len(history) : ~\E h : Defines(h, n)}
<1>1. S = {}
  <2> SUFFICES ASSUME S # {} PROVE FALSE
    OBVIOUS
  <2>1. PICK n \in S : \A k \in S : n <= k
    <3>1. S \subseteq Nat
      OBVIOUS
    <3> HIDE DEF S
    <3> QED
      BY <3>1, LeastNatural
  <2>2. n # 0
    <3>1. Defines([i \in 0 .. 0 |-> <<>>], 0)
      OBVIOUS
    <3> QED
      BY <3>1
  <2>3. n - 1 \in 0 .. Len(history) /\ n - 1 \notin S
    <3>1. n \in 0 .. Len(history)
      OBVIOUS
    <3> HIDE DEF S
    <3> QED
      BY <2>1, <2>2, <3>1
  <2>4. PICK h : Defines(h, n - 1)
    BY <2>3
  <2> DEFINE g == [i \in 0 .. n |-> IF i = n THEN Step(h, n) ELSE h[i]]
  <2>5. Defines(g, n)
    <3>1. \A i \in 0 .. n : g[i] = Step(g, i)
      <4> SUFFICES ASSUME NEW i \in 0 .. n
                   PROVE  g[i] = Step(g, i)
        OBVIOUS
      <4>1. CASE i = n
        <5>1. g[n - 1] = h[n - 1]
          BY <2>2, <4>1
        <5> QED
          BY <4>1, <5>1
      <4>2. CASE i # n
        <5>1. i \in 0 .. n - 1 /\ g[i] = h[i] /\ (i # 0 => i - 1 \in 0 .. n /\ i - 1 # n)
          BY <4>2
        <5>2. i # 0 => g[i - 1] = h[i - 1]
          BY <5>1
        <5>3. h[i] = Step(h, i)
          BY <2>4, <5>1
        <5> QED
          BY <5>1, <5>2, <5>3
      <4> QED
        BY <4>1, <4>2
    <3> QED
      BY <3>1
  <2> QED
    BY <2>1, <2>5
<1>2. PICK h : Defines(h, Len(history))
  BY <1>1
<1> DEFINE f == CHOOSE kept : Kepts(history, kept)
<1>3. Kepts(history, f)
  BY <1>2 DEF Kepts
<1>4. Valid(history) = f[Len(history)]
  BY DEF Valid, Kepts
<1> HIDE DEF f
<1> QED
  BY <1>3, <1>4

(* The first n records, without what does not pass validation.             *)
Reads(history, n, kept) ==
  /\ kept \in Seq(PromptTemplateRecord) /\ Increasing(kept)
  /\ \A i \in DOMAIN kept : \E k \in 1 .. n : history[k] # Invalid /\ kept[i] = history[k]
  /\ \A k \in 1 .. n : history[k] # Invalid => \E i \in DOMAIN kept : kept[i] = history[k]
  /\ (\A k \in 1 .. n : history[k] # Invalid) =>
       Len(kept) = n /\ \A k \in 1 .. n : kept[k] = history[k]

(* One more record.                                                        *)
LEMMA ReadsNext ==
  ASSUME NEW history \in Seq(PromptTemplateRecord \cup {Invalid}), RecordsIncrease(history),
         NEW n \in 1 .. Len(history), NEW kept, Reads(history, n - 1, kept)
  PROVE  Reads(history, n, IF history[n] = Invalid THEN kept ELSE Append(kept, history[n]))
<1>1. /\ Len(history) \in Nat /\ n \in DOMAIN history /\ DOMAIN history = 1 .. Len(history)
      /\ kept \in Seq(PromptTemplateRecord) /\ Increasing(kept)
      /\ Len(kept) \in Nat /\ DOMAIN kept = 1 .. Len(kept)
  BY DEF Reads
<1>2. CASE history[n] = Invalid
  BY <1>1, <1>2 DEF Reads
<1>3. CASE history[n] # Invalid
  <2> DEFINE new == Append(kept, history[n])
  <2>1. history[n] \in PromptTemplateRecord
    BY <1>1, <1>3
  <2>2. /\ new \in Seq(PromptTemplateRecord) /\ Len(new) = Len(kept) + 1
        /\ DOMAIN new = 1 .. Len(kept) + 1
        /\ \A i \in 1 .. Len(kept) : new[i] = kept[i]
        /\ new[Len(kept) + 1] = history[n]
    BY <1>1, <2>1
  <2> HIDE DEF new
  <2>3. ASSUME NEW i \in DOMAIN new
        PROVE  \E k \in 1 .. n : history[k] # Invalid /\ new[i] = history[k]
    <3>1. CASE i = Len(kept) + 1
      BY <1>1, <1>3, <2>2, <3>1
    <3>2. CASE i # Len(kept) + 1
      <4>1. i \in DOMAIN kept /\ new[i] = kept[i]
        BY <1>1, <2>2, <3>2
      <4>2. PICK k \in 1 .. n - 1 : history[k] # Invalid /\ kept[i] = history[k]
        BY <4>1 DEF Reads
      <4> QED
        BY <4>1, <4>2
    <3> QED
      BY <3>1, <3>2
  <2>4. ASSUME NEW i \in DOMAIN new, NEW k \in DOMAIN new, i < k
        PROVE  new[i].revision < new[k].revision
    <3>1. i \in DOMAIN kept /\ new[i] = kept[i]
      BY <1>1, <2>2, <2>4
    <3>2. CASE k = Len(kept) + 1
      <4>1. PICK j \in 1 .. n - 1 : history[j] # Invalid /\ kept[i] = history[j]
        BY <3>1 DEF Reads
      <4>2. j \in DOMAIN history /\ j < n
        BY <1>1, <4>1
      <4>3. history[j].revision < history[n].revision
        BY <1>1, <1>3, <4>1, <4>2 DEF RecordsIncrease
      <4> QED
        BY <2>2, <3>1, <3>2, <4>1, <4>3
    <3>3. CASE k # Len(kept) + 1
      <4>1. k \in DOMAIN kept /\ new[k] = kept[k]
        BY <1>1, <2>2, <3>3
      <4> QED
        BY <1>1, <2>4, <3>1, <4>1 DEF Increasing
    <3> QED
      BY <3>2, <3>3
  <2>5. ASSUME NEW k \in 1 .. n, history[k] # Invalid
        PROVE  \E i \in DOMAIN new : new[i] = history[k]
    <3>1. CASE k = n
      BY <1>1, <2>2, <3>1
    <3>2. CASE k # n
      <4>1. PICK i \in DOMAIN kept : kept[i] = history[k]
        BY <2>5, <3>2 DEF Reads
      <4> QED
        BY <1>1, <2>2, <4>1
    <3> QED
      BY <3>1, <3>2
  <2>6. ASSUME \A k \in 1 .. n : history[k] # Invalid
        PROVE  Len(new) = n /\ \A k \in 1 .. n : new[k] = history[k]
    <3>1. Len(kept) = n - 1 /\ \A k \in 1 .. n - 1 : kept[k] = history[k]
      BY <2>6 DEF Reads
    <3> QED
      BY <2>2, <3>1
  <2>7. Reads(history, n, new)
    BY <2>2, <2>3, <2>4, <2>5, <2>6 DEF Reads, Increasing
  <2> QED
    BY <1>3, <2>7 DEF new
<1> QED
  BY <1>2, <1>3

(* All of them, by induction.                                              *)
LEMMA ValidReads ==
  ASSUME NEW history \in Seq(PromptTemplateRecord \cup {Invalid}), RecordsIncrease(history)
  PROVE  Reads(history, Len(history), Valid(history))
<1>0. Len(history) \in Nat
  OBVIOUS
<1>1. PICK kept : Kepts(history, kept) /\ Valid(history) = kept[Len(history)]
  BY <1>0, ValidEquation
<1>2. /\ kept[0] = <<>>
      /\ \A n \in 1 .. Len(history) :
           kept[n] = IF history[n] = Invalid THEN kept[n - 1] ELSE Append(kept[n - 1], history[n])
  <2> DEFINE Step(n) ==
               IF n = 0 THEN <<>>
               ELSE IF history[n] = Invalid THEN kept[n - 1] ELSE Append(kept[n - 1], history[n])
  <2>1. kept = [n \in 0 .. Len(history) |-> Step(n)]
    BY <1>1 DEF Kepts
  <2>2. \A n \in 0 .. Len(history) : kept[n] = Step(n)
    <3> HIDE DEF Step
    <3> QED
      BY <2>1
  <2> QED
    BY <1>0, <2>2
<1> DEFINE S == {n \in 0 .. Len(history) : ~Reads(history, n, kept[n])}
<1>3. S = {}
  <2> SUFFICES ASSUME S # {} PROVE FALSE
    OBVIOUS
  <2>1. PICK n \in S : \A k \in S : n <= k
    <3>1. S \subseteq Nat
      OBVIOUS
    <3> HIDE DEF S
    <3> QED
      BY <3>1, LeastNatural
  <2>2. n # 0
    <3>1. Reads(history, 0, <<>>)
      BY DEF Reads, Increasing
    <3> QED
      BY <1>2, <3>1
  <2>3. n \in 1 .. Len(history) /\ Reads(history, n - 1, kept[n - 1])
    BY <2>1, <2>2
  <2>4. Reads(history, n, kept[n])
    BY <1>2, <2>3, ReadsNext
  <2> QED
    BY <2>4
<1> QED
  BY <1>0, <1>1, <1>3

(* What is left is a ledger, says as much, and is all of a whole one.      *)
LEMMA ValidLedger ==
  ASSUME NEW history \in Seq(PromptTemplateRecord \cup {Invalid}), RecordsIncrease(history)
  PROVE  /\ Valid(history) \in Ledger
         /\ \A r : Says(history, r) => Says(Valid(history), r)
         /\ history \in Ledger => Valid(history) = history
<1> DEFINE h == Valid(history)
<1>1. Reads(history, Len(history), h) /\ DOMAIN history = 1 .. Len(history)
  BY ValidReads
<1> HIDE DEF h
<1>2. h \in Ledger
  BY <1>1 DEF Reads, Ledger
<1>3. ASSUME NEW r, Says(history, r)
      PROVE  Says(h, r)
  <2>1. PICK k \in DOMAIN history :
          history[k] # Invalid /\ history[k].revision = r.revision /\ history[k].prompts = r.prompts
    BY <1>3 DEF Says
  <2>2. PICK i \in DOMAIN h : h[i] = history[k]
    BY <1>1, <2>1 DEF Reads
  <2> QED
    BY <2>1, <2>2 DEF Says
<1>4. ASSUME history \in Ledger
      PROVE  h = history
  <2>1. \A k \in DOMAIN history : history[k] # Invalid
    BY <1>4, LedgerValid
  <2>2. Len(h) = Len(history) /\ \A k \in 1 .. Len(history) : h[k] = history[k]
    BY <1>1, <2>1 DEF Reads
  <2> QED
    BY <1>2, <2>2 DEF Ledger
<1> QED
  BY <1>2, <1>3, <1>4 DEF h

-----------------------------------------------------------------------------
(* A process starts with what it can read of the file.                     *)
(* The defaults.                                                           *)
LEMMA FreshOK ==
  /\ Fresh \in Memory /\ Fresh.history = <<>> /\ Fresh.history \in Ledger
  /\ Fresh.cache = EmptyCache
  /\ NextRevision(<<>>) = 1
<1>1. /\ DefaultPrompts \in PromptConfig
      /\ EmptyCache \in [Key -> Entry \cup {None}]
      /\ [response_cache_enabled |-> TRUE, response_cache_ttl_seconds |-> DefaultTtl] \in PolicyConfig
      /\ [p \in Plugin |-> None] \in PluginStates
      /\ [p \in Plugin |-> TRUE] \in [Plugin -> BOOLEAN]
      /\ <<>> \in Seq(PromptTemplateRecord)
  BY RuntimeConfigAssumption
  DEF DefaultPrompts, PromptConfig, EmptyCache, PolicyConfig, PluginStates
<1>2. Fresh \in Memory
  BY <1>1, RuntimeConfigAssumption DEF Fresh, Memory
<1> QED
  BY <1>1, <1>2 DEF Fresh, Ledger, Increasing, NextRevision

(* A memory whose ledger is empty gets its first revision.                 *)
LEMMA FirstRevision ==
  ASSUME NEW m \in Memory, m.history \in Ledger, m.cache = EmptyCache,
         m.whole /\ m.history # <<>> => Current(m.history, m.prompts)
  PROVE  LET n == IF m.history = <<>> THEN AppendPromptVersion(m) ELSE m
         IN /\ MemoryOK(n) /\ n.enabled = m.enabled /\ n.plugin_states = m.plugin_states
            /\ \A r : Says(m.history, r) => Says(n.history, r)
<1>1. ASSUME NEW n \in Memory, n.cache = EmptyCache
      PROVE  CacheOK(n)
  BY <1>1 DEF CacheOK, EmptyCache
<1>2. CASE m.history = <<>>
  <2> DEFINE n == AppendPromptVersion(m)
  <2>1. NextRevision(m.history) <= MaxRevisions
    BY <1>2, RuntimeConfigAssumption DEF NextRevision
  <2>2. /\ n \in Memory /\ n.history \in Ledger /\ Current(n.history, n.prompts)
        /\ n.cache = m.cache /\ n.plugin_states = m.plugin_states /\ n.enabled = m.enabled
    BY <2>1, Appended
  <2>3. \A r : ~Says(m.history, r)
    BY <1>2 DEF Says
  <2> HIDE DEF n
  <2>4. MemoryOK(n)
    BY <1>1, <2>2 DEF MemoryOK, Current
  <2> QED
    BY <1>2, <2>2, <2>3, <2>4 DEF n
<1>3. CASE m.history # <<>>
  BY <1>1, <1>3 DEF MemoryOK
<1> QED
  BY <1>2, <1>3

LEMMA ImageFields ==
  ASSUME NEW image \in Image
  PROVE  /\ image.prompts \in PromptConfig \cup {Invalid}
         /\ image.history \in Seq(PromptTemplateRecord \cup {Invalid}) \cup {Invalid}
         /\ image.policies \in PolicyConfig \cup {Invalid} /\ image.alerts \in AlertRules
         /\ image.plugin_states \in PluginStates /\ image.whole \in BOOLEAN
  BY DEF Image

(* What is read of a file holds what the file says.                        *)
LEMMA ReadOK ==
  ASSUME NEW image \in Image, ImageOK(image), image.policies # Invalid
  PROVE  LET m == Read(image) IN
         /\ m \in Memory /\ m.history \in Ledger /\ m.cache = EmptyCache
         /\ m.whole => Current(m.history, m.prompts)
         /\ m.plugin_states = image.plugin_states
         /\ \A p \in Plugin : image.plugin_states[p] # None => m.enabled[p] = image.plugin_states[p]
         /\ \A r : image.history # Invalid /\ Says(image.history, r) => Says(m.history, r)
<1> DEFINE m == Read(image)
           prompts == IF image.prompts = Invalid THEN Fresh.prompts ELSE image.prompts
           history == IF image.history = Invalid THEN Fresh.history ELSE Valid(image.history)
           issues == (IF image.prompts = Invalid THEN {"prompt_config_invalid"} ELSE {})
                       \cup HistoryIssues(image.history)
           enabled == [p \in Plugin |-> IF image.plugin_states[p] = None THEN Fresh.enabled[p]
                                        ELSE image.plugin_states[p]]
<1>1. /\ Fresh \in Memory /\ Fresh.history \in Ledger /\ Fresh.cache = EmptyCache
      /\ Fresh.prompts \in PromptConfig /\ Fresh.enabled \in [Plugin -> BOOLEAN]
  BY FreshOK, MemoryFields
<1>2. m = [Fresh EXCEPT !.prompts = prompts, !.history = history, !.issues = issues,
                        !.policies = image.policies, !.alerts = image.alerts,
                        !.plugin_states = image.plugin_states, !.enabled = enabled,
                        !.whole = image.whole]
  BY DEF Read
<1>3. prompts \in PromptConfig
  BY <1>1, ImageFields
<1>4. /\ image.history # Invalid =>
           /\ Valid(image.history) \in Ledger
           /\ \A r : Says(image.history, r) => Says(Valid(image.history), r)
           /\ image.history \in Ledger => Valid(image.history) = image.history
  <2> SUFFICES ASSUME image.history # Invalid
               PROVE  /\ Valid(image.history) \in Ledger
                      /\ \A r : Says(image.history, r) => Says(Valid(image.history), r)
                      /\ image.history \in Ledger => Valid(image.history) = image.history
    OBVIOUS
  <2>1. image.history \in Seq(PromptTemplateRecord \cup {Invalid})
    BY ImageFields
  <2>2. RecordsIncrease(image.history)
    BY DEF ImageOK
  <2> QED
    BY <2>1, <2>2, ValidLedger
<1>5. history \in Ledger /\ history \in Seq(PromptTemplateRecord)
  BY <1>1, <1>4 DEF Ledger
<1>6. issues \in SUBSET {"runtime_config_unreadable", "prompt_config_invalid",
                         "prompt_versions_invalid_type", "prompt_version_invalid",
                         "prompt_versions_empty", "prompt_versions_unusable"}
  BY DEF HistoryIssues
<1>7. enabled \in [Plugin -> BOOLEAN]
  BY <1>1, ImageFields DEF PluginStates
<1>8. image.policies \in PolicyConfig
  BY ImageFields
<1>9. image.whole => Current(history, prompts)
  <2> SUFFICES ASSUME image.whole
               PROVE  Current(history, prompts)
    OBVIOUS
  <2>1. /\ image.prompts \in PromptConfig /\ image.history \in Ledger
        /\ Current(image.history, image.prompts)
    BY DEF ImageOK
  <2>2. image.prompts # Invalid /\ image.history # Invalid
    BY <2>1, LedgerValid, RuntimeConfigValues
  <2> QED
    BY <1>4, <2>1, <2>2
<1>10. \A r : image.history # Invalid /\ Says(image.history, r) => Says(history, r)
  BY <1>4
<1>11. \A p \in Plugin : image.plugin_states[p] # None => enabled[p] = image.plugin_states[p]
  OBVIOUS
<1> HIDE DEF prompts, history, issues, enabled, m
<1>12. /\ m \in Memory /\ m.history = history /\ m.prompts = prompts /\ m.enabled = enabled
       /\ m.cache = Fresh.cache /\ m.whole = image.whole /\ m.plugin_states = image.plugin_states
  BY <1>1, <1>2, <1>3, <1>5, <1>6, <1>7, <1>8, ImageFields DEF Memory
<1> QED
  BY <1>1, <1>5, <1>9, <1>10, <1>11, <1>12 DEF m

(* A process starts: from nothing, from an unreadable file, or a file.     *)
LEMMA StartStep ==
  ASSUME IInv, Start
  PROVE  IInv'
<1> DEFINE m == CASE file = None -> Fresh
                  [] file = Invalid -> [Fresh EXCEPT !.issues = {"runtime_config_unreadable"}]
                  [] OTHER -> Read(file)
           n == IF m.history = <<>> THEN AppendPromptVersion(m) ELSE m
<1>1. /\ mem = None /\ mem' = n /\ file' = file /\ turn' = turn /\ promised' = promised
      /\ FileOK(file, promised) /\ promised \in PromiseType /\ TurnsOK
  BY DEF Start, Loaded, IInv
<1>2. /\ m \in Memory /\ m.history \in Ledger /\ m.cache = EmptyCache
      /\ m.whole /\ m.history # <<>> => Current(m.history, m.prompts)
      /\ Honours(m.history, m.plugin_states, promised)
      /\ Honours(m.history, m.enabled, promised)
  <2>1. CASE file = None \/ file = Invalid
    <3>1. /\ m \in Memory /\ m.history = <<>> /\ m.history \in Ledger /\ m.cache = EmptyCache
      <4>1. CASE file = None
        <5>1. m = Fresh
          BY <4>1, RuntimeConfigValues
        <5> HIDE DEF m
        <5> QED
          BY <5>1, FreshOK
      <4>2. CASE file # None
        <5>1. m = [Fresh EXCEPT !.issues = {"runtime_config_unreadable"}]
          BY <2>1, <4>2
        <5> HIDE DEF m
        <5> QED
          BY <5>1, FreshOK DEF Memory
      <4> QED
        BY <4>1, <4>2
    <3>2. Nothing(promised)
      BY <1>1, <2>1 DEF FileOK
    <3> HIDE DEF m
    <3> QED
      BY <3>1, <3>2 DEF Nothing, Honours
  <2>2. CASE file # None /\ file # Invalid
    <3>1. m = Read(file) /\ file \in Image /\ ImageOK(file) /\ file.policies # Invalid
          /\ Honours(file.history, file.plugin_states, promised)
      BY <1>1, <2>2 DEF FileOK, Start
    <3> HIDE DEF m
    <3>2. /\ m \in Memory /\ m.history \in Ledger /\ m.cache = EmptyCache
          /\ m.whole => Current(m.history, m.prompts)
          /\ m.plugin_states = file.plugin_states
          /\ \A p \in Plugin : file.plugin_states[p] # None => m.enabled[p] = file.plugin_states[p]
          /\ \A r : file.history # Invalid /\ Says(file.history, r) => Says(m.history, r)
      BY <3>1, ReadOK
    <3>3. m.history # Invalid
      BY <3>2, LedgerValid
    <3> QED
      BY <3>1, <3>2, <3>3 DEF Honours
  <2> QED
    BY <2>1, <2>2
<1> HIDE DEF m
<1>3. /\ MemoryOK(n) /\ n.enabled = m.enabled /\ n.plugin_states = m.plugin_states
      /\ \A r : Says(m.history, r) => Says(n.history, r)
  BY <1>2, FirstRevision
<1> HIDE DEF n
<1>4. n.history # Invalid
  BY <1>3, LedgerValid DEF MemoryOK
<1>5. UpOK(n, promised)
  BY <1>2, <1>3, <1>4 DEF UpOK, Honours
<1> QED
  BY <1>1, <1>5, UpStep

LEMMA Toggled ==
  ASSUME NEW record \in PromptTemplateRecord
  PROVE  LET r == [record EXCEPT !.active = ~@] IN
         r \in PromptTemplateRecord /\ r.revision = record.revision
  BY DEF PromptTemplateRecord

(* A record stays in its place when the file is damaged.                   *)
LEMMA DamagedHistory ==
  ASSUME NEW old \in Ledger, NEW i \in DOMAIN old,
         NEW record \in {Invalid, [old[i] EXCEPT !.active = ~@]}
  PROVE  LET new == [old EXCEPT ![i] = record] IN
         /\ new \in Seq(PromptTemplateRecord \cup {Invalid})
         /\ RecordsIncrease(new)
<1> DEFINE new == [old EXCEPT ![i] = record]
<1>1. /\ old \in Seq(PromptTemplateRecord) /\ DOMAIN old = 1 .. Len(old) /\ Len(old) \in Nat
      /\ Increasing(old)
  BY DEF Ledger
<1>2. /\ record \in PromptTemplateRecord \cup {Invalid}
      /\ record # Invalid => record.revision = old[i].revision
  <2>1. old[i] \in PromptTemplateRecord
    BY <1>1
  <2> QED
    BY <2>1, Toggled
<1>3. /\ new \in Seq(PromptTemplateRecord \cup {Invalid}) /\ DOMAIN new = DOMAIN old
      /\ \A k \in DOMAIN old : new[k] = IF k = i THEN record ELSE old[k]
  BY <1>1, <1>2
<1> HIDE DEF new
<1>4. \A k \in DOMAIN old : new[k] # Invalid => new[k].revision = old[k].revision
  BY <1>2, <1>3
<1> QED
  BY <1>1, <1>3, <1>4 DEF RecordsIncrease, Increasing, new

(* Damage leaves a file from which a process can start.                    *)
LEMMA DamageStep ==
  ASSUME IInv, DamageFile
  PROVE  IInv'
<1>1. /\ mem' = None /\ turn' = turn /\ mem = None /\ TurnsOK
      /\ promised' = [revisions |-> {}, switches |-> [p \in Plugin |-> None]]
      /\ file \in Image /\ ImageOK(file) /\ file.whole
  BY DEF DamageFile, IInv, FileOK
<1>2. promised' \in PromiseType /\ Nothing(promised')
  BY <1>1 DEF PromiseType, Nothing
<1>3. \A image \in Image : ImageOK(image) => FileOK(image, promised')
  BY <1>2, RuntimeConfigValues DEF FileOK, Honours, Nothing
<1>4. FileOK(Invalid, promised')
  BY <1>2 DEF FileOK
<1>5. /\ file.prompts \in PromptConfig /\ file.history \in Ledger
      /\ RecordsIncrease(file.history)
      /\ file.history \in Seq(PromptTemplateRecord \cup {Invalid})
  BY <1>1, ImageFields, LedgerValid DEF ImageOK
<1>6. FileOK(file', promised')
  <2>1. CASE file' = Invalid
    BY <1>4, <2>1
  <2>2. CASE file' = [file EXCEPT !.prompts = Invalid, !.whole = FALSE]
    <3>1. file' \in Image /\ file'.history = file.history /\ file'.whole = FALSE
      BY <1>1, <2>2 DEF Image
    <3> QED
      BY <1>3, <1>5, <3>1 DEF ImageOK
  <2>3. CASE file' = [file EXCEPT !.policies = Invalid, !.whole = FALSE]
    <3>1. file' \in Image /\ file'.history = file.history /\ file'.whole = FALSE
      BY <1>1, <2>3 DEF Image
    <3> QED
      BY <1>3, <1>5, <3>1 DEF ImageOK
  <2>4. ASSUME NEW history \in Seq(PromptTemplateRecord \cup {Invalid}) \cup {Invalid},
               history # Invalid => RecordsIncrease(history),
               file' = [file EXCEPT !.history = history, !.whole = FALSE]
        PROVE  FileOK(file', promised')
    <3>1. file' \in Image /\ file'.history = history /\ file'.whole = FALSE
      BY <1>1, <2>4 DEF Image
    <3> QED
      BY <1>3, <2>4, <3>1 DEF ImageOK
  <2>5. CASE \E history \in {Invalid, <<>>} :
               file' = [file EXCEPT !.history = history, !.whole = FALSE]
    <3>1. <<>> \in Seq(PromptTemplateRecord \cup {Invalid}) /\ RecordsIncrease(<<>>)
      BY DEF RecordsIncrease
    <3> QED
      BY <2>4, <2>5, <3>1
  <2>6. ASSUME NEW i \in DOMAIN file.history,
               \/ file' = [file EXCEPT !.history[i] = Invalid, !.whole = FALSE]
               \/ file' = [file EXCEPT !.history[i].active = ~@, !.whole = FALSE]
        PROVE  FileOK(file', promised')
    <3>1. PICK record \in {Invalid, [file.history[i] EXCEPT !.active = ~@]} :
            file' = [file EXCEPT !.history = [file.history EXCEPT ![i] = record], !.whole = FALSE]
      <4>1. CASE file' = [file EXCEPT !.history[i] = Invalid, !.whole = FALSE]
        BY <4>1
      <4>2. CASE file' = [file EXCEPT !.history[i].active = ~@, !.whole = FALSE]
        BY <4>2
      <4> QED
        BY <2>6, <4>1, <4>2
    <3> DEFINE history == [file.history EXCEPT ![i] = record]
    <3>2. history \in Seq(PromptTemplateRecord \cup {Invalid}) /\ RecordsIncrease(history)
      BY <1>5, DamagedHistory
    <3> HIDE DEF history
    <3> QED
      BY <2>4, <3>1, <3>2 DEF history
  <2> QED
    BY <2>1, <2>2, <2>3, <2>5, <2>6 DEF DamageFile
<1> QED
  BY <1>1, <1>2, <1>6 DEF IInv, TurnsOK, HitsAreCurrent

-----------------------------------------------------------------------------
(* Turns.                                                                  *)
LEMMA TurnFields ==
  ASSUME NEW s \in TurnState
  PROVE  /\ s.at = "retrieving" => s.query \in Query /\ s.prompt \in Text
         /\ s.at = "generating" => s.key \in Key
         /\ s.at = "served" => s.key \in Key /\ s.from \in Entry /\ s.ttl \in Ttl
  BY DEF TurnState, Idle

(* A change of the cache leaves the rest of a memory as it is.             *)
LEMMA CacheChanged ==
  ASSUME NEW m, NEW promise, UpOK(m, promise),
         NEW cache \in [Key -> Entry \cup {None}],
         \A k \in Key : cache[k] # None => cache[k].prompt = k.prompt /\ cache[k].version = k.version,
         ~CacheOn(m.policies) => cache = EmptyCache
  PROVE  UpOK([m EXCEPT !.cache = cache], promise)
<1> DEFINE n == [m EXCEPT !.cache = cache]
<1>1. m \in Memory
  BY DEF UpOK, MemoryOK
<1>2. /\ n \in Memory /\ n.cache = cache /\ n.history = m.history /\ n.prompts = m.prompts
      /\ n.policies = m.policies /\ n.enabled = m.enabled /\ n.plugin_states = m.plugin_states
      /\ n.whole = m.whole
  BY <1>1 DEF Memory
<1> HIDE DEF n
<1> QED
  BY <1>2 DEF UpOK, MemoryOK, CacheOK, n

LEMMA AskStep ==
  ASSUME IInv, NEW t \in Turn, Ask(t)
  PROVE  IInv'
<1>1. PICK q \in Query :
        turn' = [turn EXCEPT ![t] = [at |-> "retrieving", query |-> q,
                                     prompt |-> mem.prompts["knowledge_answer"]]]
  BY DEF Ask
<1>2. /\ mem # None /\ mem' = mem /\ file' = file /\ promised' = promised
      /\ UpOK(mem, promised) /\ TurnsOK
  BY DEF Ask, IInv
<1>3. mem.prompts["knowledge_answer"] \in Text
  BY <1>2, RuntimeConfigAssumption DEF UpOK, MemoryOK, Memory, PromptConfig
<1> DEFINE s == [at |-> "retrieving", query |-> q, prompt |-> mem.prompts["knowledge_answer"]]
<1>4. s \in TurnState /\ s.at # "served"
  BY <1>3 DEF TurnState
<1> HIDE DEF s
<1>5. turn' = [turn EXCEPT ![t] = s]
  BY <1>1 DEF s
<1>6. TurnsOK'
  BY <1>2, <1>4, <1>5 DEF TurnsOK, HitsAreCurrent
<1> QED
  BY <1>2, <1>6 DEF IInv

(* A hit was generated from what the turn asks with.                       *)
LEMMA LookupStep ==
  ASSUME IInv, NEW t \in Turn, Lookup(t)
  PROVE  IInv'
<1>1. PICK v \in KnowledgeVersion :
        LET k == [query |-> turn[t].query, prompt |-> turn[t].prompt, version |-> v] IN
        IF IsHit(mem, k)
        THEN /\ turn' = [turn EXCEPT ![t] = [at |-> "served", key |-> k, from |-> mem.cache[k],
                                             ttl |-> mem.policies.response_cache_ttl_seconds]]
             /\ UNCHANGED mem
        ELSE /\ turn' = [turn EXCEPT ![t] = [at |-> "generating", key |-> k]]
             /\ mem' = IF CacheOn(mem.policies) /\ Expired(mem, k)
                       THEN [mem EXCEPT !.cache[k] = None] ELSE mem
  BY DEF Lookup
<1>2. /\ turn[t].at = "retrieving" /\ file' = file /\ promised' = promised
      /\ TurnsOK /\ FileOK(file, promised) /\ promised \in PromiseType
  BY DEF Lookup, IInv
<1>3. mem # None
  BY <1>2 DEF TurnsOK, Idle
<1>4. /\ UpOK(mem, promised) /\ mem \in Memory
      /\ mem.cache \in [Key -> Entry \cup {None}] /\ mem.policies \in PolicyConfig
      /\ CacheOK(mem)
  BY <1>3, MemoryFields DEF IInv, UpOK, MemoryOK
<1> DEFINE k == [query |-> turn[t].query, prompt |-> turn[t].prompt, version |-> v]
<1>5. k \in Key
  BY <1>2, TurnFields DEF TurnsOK, Key
<1> HIDE DEF k
<1>6. CASE IsHit(mem, k)
  <2> DEFINE s == [at |-> "served", key |-> k, from |-> mem.cache[k],
                   ttl |-> mem.policies.response_cache_ttl_seconds]
  <2>1. turn' = [turn EXCEPT ![t] = s] /\ mem' = mem
    BY <1>1, <1>6 DEF k
  <2>2. mem.cache[k] # None /\ mem.cache[k] \in Entry
        /\ mem.policies.response_cache_ttl_seconds \in Ttl
        /\ ~(mem.cache[k].age > mem.policies.response_cache_ttl_seconds)
    BY <1>4, <1>5, <1>6 DEF IsHit, Expired, PolicyConfig
  <2>3. s.from.prompt = s.key.prompt /\ s.from.version = s.key.version
    BY <1>4, <1>5, <2>2 DEF CacheOK
  <2>4. s.from.age <= s.ttl
    <3>1. mem.cache[k].age \in Nat
      BY <2>2, RuntimeConfigAssumption DEF Entry
    <3>2. mem.policies.response_cache_ttl_seconds \in Nat
      BY <2>2, RuntimeConfigAssumption
    <3> QED
      BY <2>2, <3>1, <3>2
  <2>5. s \in TurnState
    BY <1>5, <2>2 DEF TurnState
  <2> HIDE DEF s
  <2>6. TurnsOK'
    BY <1>2, <1>3, <2>1, <2>3, <2>4, <2>5 DEF TurnsOK, HitsAreCurrent
  <2> QED
    BY <1>2, <1>4, <2>1, <2>6 DEF IInv
<1>7. CASE ~IsHit(mem, k)
  <2> DEFINE s == [at |-> "generating", key |-> k]
             cache == [mem.cache EXCEPT ![k] = None]
  <2>1. /\ turn' = [turn EXCEPT ![t] = s]
        /\ mem' = (IF CacheOn(mem.policies) /\ Expired(mem, k)
                   THEN [mem EXCEPT !.cache = cache] ELSE mem)
    BY <1>1, <1>7 DEF k
  <2>2. s \in TurnState /\ s.at # "served"
    BY <1>5 DEF TurnState
  <2>3. /\ cache \in [Key -> Entry \cup {None}]
        /\ \A j \in Key : cache[j] # None => cache[j].prompt = j.prompt /\ cache[j].version = j.version
    BY <1>4, <1>5 DEF CacheOK
  <2> HIDE DEF s, cache
  <2>4. UpOK(mem', promised)
    <3>1. CASE CacheOn(mem.policies) /\ Expired(mem, k)
      BY <1>4, <2>1, <2>3, <3>1, CacheChanged
    <3>2. CASE ~(CacheOn(mem.policies) /\ Expired(mem, k))
      BY <1>4, <2>1, <3>2
    <3> QED
      BY <3>1, <3>2
  <2>5. mem' # None
    BY <2>4, RuntimeConfigValues DEF UpOK, MemoryOK
  <2>6. TurnsOK'
    BY <1>2, <1>3, <2>1, <2>2, <2>5 DEF TurnsOK, HitsAreCurrent
  <2> QED
    BY <1>2, <2>4, <2>6 DEF IInv
<1> QED
  BY <1>6, <1>7

(* An answer is stored under what it was generated from.                   *)
LEMMA GenerateStep ==
  ASSUME IInv, NEW t \in Turn, Generate(t)
  PROVE  IInv'
<1>1. /\ turn[t].at = "generating" /\ file' = file /\ promised' = promised
      /\ mem' = SetCachedResponse(mem, turn[t].key)
      /\ turn' = [turn EXCEPT ![t] = Idle]
      /\ TurnsOK /\ FileOK(file, promised) /\ promised \in PromiseType
  BY DEF Generate, IInv
<1>2. mem # None
  BY <1>1 DEF TurnsOK, Idle
<1>3. /\ UpOK(mem, promised) /\ mem \in Memory
      /\ mem.cache \in [Key -> Entry \cup {None}]
      /\ CacheOK(mem)
  BY <1>2, MemoryFields DEF IInv, UpOK, MemoryOK
<1> DEFINE k == turn[t].key
           e == [age |-> 0, prompt |-> k.prompt, version |-> k.version]
           cache == [mem.cache EXCEPT ![k] = e]
<1>4. k \in Key
  BY <1>1, TurnFields DEF TurnsOK
<1>5. mem' = IF CacheOn(mem.policies) THEN [mem EXCEPT !.cache = cache] ELSE mem
  BY <1>1 DEF SetCachedResponse
<1> HIDE DEF k
<1>6. e \in Entry /\ e.prompt = k.prompt /\ e.version = k.version
  BY <1>4, RuntimeConfigAssumption DEF Entry, Key
<1> HIDE DEF e
<1>7. /\ cache \in [Key -> Entry \cup {None}]
      /\ \A j \in Key : cache[j] # None => cache[j].prompt = j.prompt /\ cache[j].version = j.version
  BY <1>3, <1>4, <1>6 DEF CacheOK
<1> HIDE DEF cache
<1>8. UpOK(mem', promised)
  <2>1. CASE CacheOn(mem.policies)
    BY <1>3, <1>5, <1>7, <2>1, CacheChanged
  <2>2. CASE ~CacheOn(mem.policies)
    BY <1>3, <1>5, <2>2
  <2> QED
    BY <2>1, <2>2
<1>9. mem' # None
  BY <1>8, RuntimeConfigValues DEF UpOK, MemoryOK
<1>10. Idle \in TurnState /\ Idle.at # "served"
  BY DEF TurnState, Idle
<1>11. TurnsOK'
  BY <1>1, <1>9, <1>10 DEF TurnsOK, HitsAreCurrent
<1> QED
  BY <1>1, <1>8, <1>11 DEF IInv

LEMMA Aged ==
  ASSUME NEW e \in Entry
  PROVE  LET a == [e EXCEPT !.age = MaxAge] IN
         a \in Entry /\ a.prompt = e.prompt /\ a.version = e.version
  BY RuntimeConfigAssumption DEF Entry

(* Entries only get older.                                                 *)
LEMMA TickStep ==
  ASSUME IInv, Tick
  PROVE  IInv'
<1> DEFINE cache == [k \in Key |-> IF mem.cache[k] = None THEN None
                                   ELSE [mem.cache[k] EXCEPT !.age = MaxAge]]
<1>1. /\ mem # None /\ mem' = [mem EXCEPT !.cache = cache]
      /\ file' = file /\ promised' = promised /\ turn' = turn
      /\ TurnsOK /\ FileOK(file, promised) /\ promised \in PromiseType /\ UpOK(mem, promised)
  BY DEF Tick, IInv
<1>2. mem.cache \in [Key -> Entry \cup {None}] /\ CacheOK(mem)
  BY <1>1, MemoryFields DEF UpOK, MemoryOK
<1>3. \A k \in Key :
        /\ cache[k] \in Entry \cup {None}
        /\ cache[k] # None => cache[k].prompt = k.prompt /\ cache[k].version = k.version
        /\ mem.cache[k] = None => cache[k] = None
  <2> SUFFICES ASSUME NEW k \in Key
               PROVE  /\ cache[k] \in Entry \cup {None}
                      /\ cache[k] # None => cache[k].prompt = k.prompt /\ cache[k].version = k.version
                      /\ mem.cache[k] = None => cache[k] = None
    OBVIOUS
  <2>1. CASE mem.cache[k] = None
    BY <2>1
  <2>2. CASE mem.cache[k] # None
    <3>1. /\ mem.cache[k] \in Entry /\ mem.cache[k].prompt = k.prompt
          /\ mem.cache[k].version = k.version
      BY <1>2, <2>2 DEF CacheOK
    <3>2. cache[k] = [mem.cache[k] EXCEPT !.age = MaxAge]
      BY <2>2
    <3> HIDE DEF cache
    <3> QED
      BY <2>2, <3>1, <3>2, Aged
  <2> QED
    BY <2>1, <2>2
<1>4. DOMAIN cache = Key /\ cache = [k \in Key |-> cache[k]]
  OBVIOUS
<1> HIDE DEF cache
<1>5. cache \in [Key -> Entry \cup {None}]
  BY <1>3, <1>4
<1>6. ~CacheOn(mem.policies) => cache = EmptyCache
  BY <1>2, <1>3, <1>4 DEF CacheOK, EmptyCache
<1>7. UpOK(mem', promised)
  BY <1>1, <1>3, <1>5, <1>6, CacheChanged
<1> QED
  BY <1>1, <1>7, UpStep

-----------------------------------------------------------------------------
(* A process that starts without a file.                                   *)
LEMMA InitInv ==
  ASSUME Init
  PROVE  IInv
<1>1. /\ mem = AppendPromptVersion(Fresh) /\ file = None
      /\ turn = [t \in Turn |-> Idle]
      /\ promised = [revisions |-> {}, switches |-> [p \in Plugin |-> None]]
  BY DEF Init
<1>2. promised \in PromiseType /\ Nothing(promised)
  BY <1>1 DEF PromiseType, Nothing
<1>3. MemoryOK(mem)
  BY <1>1, FreshOK, FirstRevision
<1>4. mem.history # Invalid
  BY <1>3, LedgerValid DEF MemoryOK
<1>5. UpOK(mem, promised) /\ FileOK(file, promised)
  BY <1>1, <1>2, <1>3, <1>4 DEF UpOK, FileOK, Honours, Nothing
<1>6. TurnsOK
  BY <1>1 DEF TurnsOK, HitsAreCurrent, TurnState, Idle
<1> QED
  BY <1>2, <1>5, <1>6 DEF IInv

(* Every step, of an administrator, of a turn, of the disk and the clock,   *)
(* keeps the invariant.                                                    *)
LEMMA StepInv ==
  ASSUME IInv, [Next]_vars
  PROVE  IInv'
<1>0. \A edit \in PutEdit : <<edit>> \in Seq(PutEdit)
  OBVIOUS
<1>1. ASSUME UpdatePrompts \/ UpdatePolicies \/ SwitchPlugin
      PROVE  IInv'
  <2>1. PICK edit \in PutEdit : Call(<<edit>>)
    BY <1>1 DEF UpdatePrompts, UpdatePolicies, SwitchPlugin, PutEdit
  <2>2. \A i \in DOMAIN <<edit>> : CallEdit(<<edit>>[i])
    BY DEF CallEdit
  <2> QED
    BY <1>0, <2>1, <2>2, CallStep
<1>2. CASE RollbackPrompts
  <2>1. PICK revision \in Revisions(mem.history) : Call(<<<<"rollback", revision>>>>)
    BY <1>2 DEF RollbackPrompts
  <2> DEFINE edit == <<"rollback", revision>>
  <2>2. edit[1] = "rollback" /\ edit[2] = revision /\ Call(<<edit>>)
    BY <2>1
  <2> HIDE DEF edit
  <2>3. <<edit>> \in Seq({edit}) /\ \A i \in DOMAIN <<edit>> : CallEdit(<<edit>>[i])
    BY <2>2 DEF CallEdit
  <2> QED
    BY <2>2, <2>3, CallStep
<1>3. CASE UpdateRuntimeConfig
  <2>1. PICK edits \in PutBody : Call(edits)
    BY <1>3 DEF UpdateRuntimeConfig
  <2>2. edits \in Seq(PutEdit)
    BY RuntimeConfigValues DEF PutEdit
  <2>3. \A i \in DOMAIN edits : CallEdit(edits[i])
    BY <2>2 DEF CallEdit
  <2> QED
    BY <2>1, <2>2, <2>3, CallStep
<1>4. CASE Start
  BY <1>4, StartStep
<1>5. CASE Crash
  BY <1>5, IdleTurns DEF Crash, IInv
<1>6. CASE DamageFile
  BY <1>6, DamageStep
<1>7. ASSUME NEW t \in Turn, Ask(t)
      PROVE  IInv'
  BY <1>7, AskStep
<1>8. ASSUME NEW t \in Turn, Lookup(t)
      PROVE  IInv'
  BY <1>8, LookupStep
<1>9. ASSUME NEW t \in Turn, Generate(t)
      PROVE  IInv'
  BY <1>9, GenerateStep
<1>10. ASSUME NEW t \in Turn, EndTurn(t)
       PROVE  IInv'
  <2>1. Idle \in TurnState /\ Idle.at # "served"
    BY DEF TurnState, Idle
  <2> QED
    BY <1>10, <2>1 DEF EndTurn, IInv, TurnsOK, HitsAreCurrent
<1>11. CASE Tick
  BY <1>11, TickStep
<1>12. CASE UNCHANGED vars
  BY <1>12 DEF vars, IInv, TurnsOK, HitsAreCurrent
<1> QED
  BY <1>1, <1>2, <1>3, <1>4, <1>5, <1>6, <1>7, <1>8, <1>9, <1>10, <1>11, <1>12 DEF Next

LEMMA Inductive == Spec => []IInv
<1>1. Init => IInv
  BY InitInv
<1>2. IInv /\ [Next]_vars => IInv'
  BY StepInv
<1> QED
  BY <1>1, <1>2, PTL DEF Spec

-----------------------------------------------------------------------------
(* Memory, file, turns and promises have their types.                      *)
THEOREM TypeCorrect == Spec => []TypeOK
<1>1. IInv => TypeOK
  BY DEF IInv, UpOK, FileOK, TurnsOK, MemoryOK, PromiseType, TypeOK
<1> QED
  BY <1>1, Inductive, PTL

(* The numbers of the prompts' ledger increase through updates, rollbacks, *)
(* failed writes, restarts and damaged records, and the last revision is   *)
(* the active one unless the file was damaged since                        *)
(* (_append_prompt_version, rollback_prompts, _load_prompt_history).       *)
THEOREM LedgerStaysSound == Spec => []LedgerIsSound
<1>1. IInv => LedgerIsSound
  <2> SUFFICES ASSUME IInv, mem # None
               PROVE  LedgerIsSound
    BY DEF LedgerIsSound
  <2>1. MemoryOK(mem)
    BY DEF IInv, UpOK
  <2>2. mem.history # <<>> /\ Increasing(mem.history)
    BY <2>1 DEF MemoryOK, Ledger
  <2> QED
    BY <2>1, <2>2, CurrentIsSound DEF LedgerIsSound, Increasing
<1> QED
  BY <1>1, Inductive, PTL

(* A revision or a plugin switch whose caller got an answer is there, and  *)
(* is there again after any restarts: the write comes before the answer,   *)
(* and a later write that fails takes nothing away (_flush, update_prompts,*)
(* set_plugin_state, the start of the container).                          *)
THEOREM AnswersAreKept == Spec => []AnsweredIsKept
<1>1. IInv => AnsweredIsKept
  BY DEF IInv, UpOK, Honours, Says, AnsweredIsKept
<1> QED
  BY <1>1, Inductive, PTL

(* A cached answer is served for the prompt and the version it was made    *)
(* from and within its lifetime, whatever is edited while turns wait       *)
(* (get_cached_response, set_cached_response).                             *)
THEOREM HitsStayCurrent == Spec => []HitsAreCurrent
<1>1. IInv => HitsAreCurrent
  BY DEF IInv, TurnsOK
<1> QED
  BY <1>1, Inductive, PTL

(* Switching the cache off empties it for good: no turn that began before  *)
(* stores an answer (update_policies, set_cached_response).                *)
THEOREM DisabledCacheStaysEmpty == Spec => []DisabledCacheIsEmpty
<1>1. IInv => DisabledCacheIsEmpty
  BY DEF IInv, UpOK, MemoryOK, CacheOK, DisabledCacheIsEmpty
<1> QED
  BY <1>1, Inductive, PTL
=============================================================================
