-------------------------- MODULE MCRuntimeConfig --------------------------
(* Instances of RuntimeConfig for TLC.                                     *)
EXTENDS RuntimeConfig, TLC

KnowledgeField == {"knowledge_answer"}

Symmetry == Permutations(KnowledgeVersion)

(* A new text with a switch of the cache, of a plugin, and of one that     *)
(* nobody knows between two that somebody does.                            *)
Puts ==
  {<<<<"prompts", [f \in KnowledgeField |-> t]>>, <<"plugin", p, FALSE>>>> :
     t \in Text \ {DefaultText}, p \in Plugin}
  \cup {<<<<"policies", q>>, <<"alerts", a>>, <<"plugin", p, TRUE>>, <<"plugin", Unknown, TRUE>>>> :
          q \in {r \in PolicyConfig : ~r.response_cache_enabled}, a \in AlertRules, p \in Plugin}
=============================================================================
