----------------------------- MODULE PlanRules -----------------------------
(***************************************************************************)
(* parseRules of internal/config/types.go: the plan rules of a new         *)
(* configuration are read one by one and each is accepted, or the whole    *)
(* configuration is refused.  The question is what the accepted rules mean *)
(* later, to findRule in internal/quota/types.go: a weight depends on the  *)
(* order of a Go map unless one plan text finds at most one rule.          *)
(***************************************************************************)
EXTENDS Naturals, FiniteSets, PlanNames

CONSTANTS
  Candidates,   \* what one element of plan_rules may be (see CandidateOK)
  IgnoredLists, \* the values of ignored_plans: sets of texts
  Plans,        \* the plan texts an account may report
  Upstream,     \* knownUpstreamPlans, normalised
  MaxRules      \* bound on the length of plan_rules

ASSUME MaxRulesAssumption == MaxRules \in Nat

(* A text is any value; a candidate is what the fields of one JSON object  *)
(* give: absent strings are empty, aliases are a set since their order     *)
(* only chooses the message of a refusal, and weight is what it is tested  *)
(* for.                                                                    *)
ASSUME CandidateOK ==
  \A r \in Candidates : DOMAIN r = {"name", "canonical", "aliases", "window", "weight"}

VARIABLES
  ignored,  \* cfg.IgnoredPlans: normalised, without the empty text
  source,   \* the candidates read so far
  rules,    \* the rules accepted so far
  aliases,  \* which rule claimed an alias
  verdict   \* "reading", then "accepted" or "refused"

rulesVars == <<ignored, source, rules, aliases, verdict>>

(* parsePlanSet *)
PlanSet(texts) == {NormalizePlan(t) : t \in texts} \ {<<>>}

RuleName(r) == NormalizePlan(IF TrimSpace(r.name) # <<>> THEN r.name ELSE r.canonical)

RuleAliases(r) == PlanSet(r.aliases) \cup {RuleName(r)}

\* Variant of ClaimedUpstreamPlans: the rule's own name is forgotten.
ClaimedByAliases(r) == {NormalizePlan(a) : a \in PlanSet(r.aliases)} \cap Upstream

(* claimedUpstreamPlans: NormalizePlan is applied once more.               *)
ClaimedUpstreamPlans(r) == {NormalizePlan(a) : a \in RuleAliases(r)} \cap Upstream

IgnoredContains(name) == NormalizePlan(name) \in ignored

WellFormed(r) ==
  /\ RuleName(r) # <<>>
  /\ r.window \in {"5h", "7d"}
  /\ r.weight > 0
  /\ \A a \in r.aliases : TrimSpace(a) # <<>>

\* Variant of NotIgnored: the aliases are not looked at.
NameNotIgnored(r) == ~IgnoredContains(RuleName(r))

NotIgnored(r) == \A a \in RuleAliases(r) : ~IgnoredContains(a)

OneTier(r) == \A u, v \in ClaimedUpstreamPlans(r) : u = v

\* Variant of Unclaimed: only the rule's name is looked up.
ClaimedByNobody(r) == RuleName(r) \notin DOMAIN aliases

(* "plan alias %q conflicts between %q and %q"                             *)
Unclaimed(r) ==
  \A a \in RuleAliases(r) : a \in DOMAIN aliases => aliases[a] = RuleName(r)

Acceptable(r) ==
  /\ WellFormed(r)
  /\ RuleName(r) \notin DOMAIN rules
  /\ NotIgnored(r)
  /\ OneTier(r)
  /\ Unclaimed(r)

Bind(f, keys, value) == [k \in DOMAIN f \cup keys |-> IF k \in keys THEN value ELSE f[k]]

Keep(r) ==
  /\ rules' = Bind(rules, {RuleName(r)},
                   [aliases |-> RuleAliases(r), window |-> r.window, weight |-> r.weight])
  /\ aliases' = Bind(aliases, RuleAliases(r), RuleName(r))
-----------------------------------------------------------------------------
RulesInit ==
  /\ ignored \in {PlanSet(l) : l \in IgnoredLists}
  /\ source = {}
  /\ rules = <<>>
  /\ aliases = <<>>
  /\ verdict = "reading"

Accept(r) ==
  /\ verdict = "reading"
  /\ Cardinality(source) < MaxRules
  /\ Acceptable(r)
  /\ source' = source \cup {r}
  /\ Keep(r)
  /\ UNCHANGED <<ignored, verdict>>

(* The caller gets no rules.                                               *)
Refuse(r) ==
  /\ verdict = "reading"
  /\ Cardinality(source) < MaxRules
  /\ ~Acceptable(r)
  /\ rules' = <<>>
  /\ aliases' = <<>>
  /\ verdict' = "refused"
  /\ UNCHANGED <<ignored, source>>

Finish ==
  /\ verdict = "reading"
  /\ verdict' = "accepted"
  /\ UNCHANGED <<ignored, source, rules, aliases>>

RulesNext ==
  \/ \E r \in Candidates : Accept(r) \/ Refuse(r)
  \/ Finish

RulesSpec == RulesInit /\ [][RulesNext]_rulesVars
-----------------------------------------------------------------------------
Names == {RuleName(r) : r \in Candidates} \ {<<>>}

Spellings == UNION {RuleAliases(r) : r \in Candidates}

RulesTypeOK ==
  /\ verdict \in {"reading", "accepted", "refused"}
  /\ source \subseteq Candidates
  /\ DOMAIN rules \subseteq Names
  /\ \A n \in DOMAIN rules : rules[n].aliases \subseteq Spellings
  /\ DOMAIN aliases \subseteq Spellings
  /\ \A a \in DOMAIN aliases : aliases[a] \in Names

(* No plan text an account may report finds two rules: the weight of an    *)
(* account never depends on the order in which Go visits a map.  The       *)
(* conflict check compares texts normalised once, findRule texts           *)
(* normalised twice.                                                       *)
RulesAreUnambiguous ==
  verdict = "accepted" =>
    \A p \in Plans : \A n, m \in MatchingRules(p, rules) : n = m

(* What the operator wrote is what counts: an account whose plan is        *)
(* spelled as a rule's name or as one of its aliases is neither ignored    *)
(* nor unknown, and gets the window and weight of that rule.               *)
SpellingsAreHonoured ==
  verdict = "accepted" =>
    \A r \in source : \A a \in r.aliases \cup {RuleName(r)} :
      NormalizePlan(a) # <<>> =>
        /\ ~IsIgnored(a, ignored)
        /\ MatchingRules(a, rules) # {}
        /\ \A n \in MatchingRules(a, rules) :
             rules[n].window = r.window /\ rules[n].weight = r.weight

(* Two plans the upstream reports as different subscriptions never share   *)
(* a rule, however their accounts spell them.                              *)
TiersStaySeparate ==
  verdict = "accepted" =>
    \A p, q \in Plans :
      LET up == NormalizePlan(NormalizePlan(p))
          uq == NormalizePlan(NormalizePlan(q))
      IN (up \in Upstream /\ uq \in Upstream /\ up # uq) =>
           MatchingRules(p, rules) \cap MatchingRules(q, rules) = {}

(* What accepted rules keep apart, whatever their texts look like.         *)
RulesAreSound == RulesTypeOK /\ TiersStaySeparate
=============================================================================
