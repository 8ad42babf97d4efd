----------------------------- MODULE PlanNames -----------------------------
(***************************************************************************)
(* The spelling of plan names: the two identical functions the code runs   *)
(* on them, NormalizePlan of internal/config/types.go and normalize of     *)
(* internal/quota/types.go, and the search of the rule of a plan.          *)
(*                                                                         *)
(* A text is a sequence of words (members of any set) and of three kinds   *)
(* of characters that matter: "blank" is a space, which TrimSpace cuts off *)
(* at both ends and the replacer removes everywhere; "tab" is any other    *)
(* white space, which only TrimSpace knows; "dash" is '-' or '_', which    *)
(* only the replacer knows.  The case of letters is left out.              *)
(***************************************************************************)
EXTENDS Sequences, FiniteSetsExt

TrimSpace(text) ==
  LET solid == {i \in DOMAIN text : text[i] \notin {"blank", "tab"}}
  IN IF solid = {} THEN <<>> ELSE SubSeq(text, Min(solid), Max(solid))

NormalizePlan(text) ==
  SelectSeq(TrimSpace(text), LAMBDA c : c \notin {"blank", "dash"})

(* A rule set is a function from canonical names to rules, each with the   *)
(* set of its aliases.  The rules findRule may return for the plan text of *)
(* an account: observeQuota normalises the text and findRule does again,   *)
(* the first match in the order of a Go map wins.                          *)
MatchingRules(text, rules) ==
  LET alias == NormalizePlan(NormalizePlan(text))
  IN {n \in DOMAIN rules : alias \in {NormalizePlan(a) : a \in rules[n].aliases \cup {n}}}

IsIgnored(text, ignored) ==
  NormalizePlan(NormalizePlan(text)) \in {NormalizePlan(p) : p \in ignored}
=============================================================================
