---------------------------- MODULE HandoffRules ----------------------------
(***************************************************************************)
(* The rules of application/handoff.py that turn a handoff reason and the  *)
(* business context into the two queue fields: a skill group and a         *)
(* priority.  They are pure functions.                                     *)
(*                                                                         *)
(* A reason is free text and the rules only ask which families of keywords *)
(* occur in it, so a reason is the set of the families it contains:        *)
(*   "refund"      one of the refund / after-sales / return words          *)
(*   "risk"        "risk", high risk, complaint, arbitration, regulator... *)
(*   "human"       "human", human agent, transfer                          *)
(*   "confidence"  "confidence" or its Chinese word                        *)
(* One text may contain several: the low-confidence escalation of          *)
(* routing.py says both "confidence" and "human".                          *)
(***************************************************************************)
EXTENDS Integers

CONSTANTS
  SkillGroup,      \* names a skill group or an industry may have
  HandoffContext   \* the contexts create_package is called with

Keyword == {"refund", "risk", "human", "confidence"}

(* What the rules read of a BusinessContext.  "" stands for an absent      *)
(* skill_group or industry.                                                *)
ContextType ==
  [reason            : SUBSET Keyword,
   skill_group       : SkillGroup \cup {""},
   industry          : SkillGroup \cup {""},
   frustrated        : BOOLEAN,
   repeat_contact_7d : Nat]

ASSUME HandoffAssumption ==
  /\ {"general", "risk", "after_sales", "ecommerce"} \subseteq SkillGroup
  /\ "" \notin SkillGroup
  /\ HandoffContext \subseteq ContextType

(* An explicit group wins; refund words matter in e-commerce only, and     *)
(* before risk words; then the industry, then "general".                   *)
ResolveSkillGroup(c) ==
  CASE c.skill_group # ""                              -> c.skill_group
    [] c.skill_group = "" /\ c.industry = "ecommerce"
                          /\ "refund" \in c.reason     -> "after_sales"
    [] c.skill_group = "" /\ "risk" \in c.reason
       /\ ~(c.industry = "ecommerce" /\ "refund" \in c.reason) -> "risk"
    [] OTHER -> IF c.industry = "" THEN "general" ELSE c.industry

(* The first family that matches sets the base.                            *)
BasePriority(reason) ==
  CASE "risk" \in reason                                        -> 90
    [] "risk" \notin reason /\ "human" \in reason               -> 80
    [] reason \cap {"risk", "human"} = {} /\ "confidence" \in reason -> 60
    [] OTHER                                                    -> 50

(* Behaviour signals raise it, and it is capped at 100.                    *)
ResolvePriority(c) ==
  LET raised == BasePriority(c.reason)
                  + (IF c.frustrated THEN 10 ELSE 0)
                  + (IF c.repeat_contact_7d >= 2 THEN 5 ELSE 0)
  IN  IF raised > 100 THEN 100 ELSE raised
=============================================================================
