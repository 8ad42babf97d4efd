------------------------- MODULE CalculationsProofs -------------------------
(***************************************************************************)
(* What the three calculations of the code promise, for every value of     *)
(* the constants: the plan rules that are accepted, the snapshot of one    *)
(* check, and the mail a template becomes.                                 *)
(*                                                                         *)
(* Sums over sets and filled-in texts are defined by recursion; what is    *)
(* said of them for every input is shown by a least counterexample: the    *)
(* sizes at which a claim fails are a set of numbers, and were it not      *)
(* empty, it would have a least member.                                    *)
(***************************************************************************)
EXTENDS PlanRules, Quota, MailTemplate, FiniteSetTheorems, TLAPS

(* Induction, in first order: a set of numbers that is not empty has a     *)
(* least member.                                                           *)
LEMMA Least ==
  ASSUME NEW T, T \subseteq Nat, T # {} PROVE \E m \in T : \A n \in T : m <= n
<1> DEFINE R == OpToRel(<, Nat)
<1>1. IsWellFoundedOn(R, Nat)
  BY NatLessThanWellFounded
<1>2. \A x, y \in Nat : x < y => <<x, y>> \in R
  BY DEF OpToRel
<1> HIDE DEF R
<1>3. PICK m \in T : \A n \in T : ~(<<n, m>> \in R)
  BY <1>1, WFMin
<1>4. ASSUME NEW n \in T PROVE m <= n
  <2>1. m \in Nat /\ n \in Nat /\ ~(n < m)
    BY <1>2, <1>3
  <2> QED
    BY <2>1
<1> QED
  BY <1>4
-----------------------------------------------------------------------------
(* Plan rules: the condition most of it rests on is that normalising a     *)
(* normalised text changes nothing.  NormalizePlan is never expanded.      *)

(* The texts of the configuration for which one normalisation is enough.   *)
Steady ==
  /\ \A r \in Candidates : \A a \in RuleAliases(r) : NormalizePlan(a) = a
  /\ \A l \in IgnoredLists : \A p \in PlanSet(l) : NormalizePlan(p) = p

(* The rules are those of the candidates read, one each, and what a rule   *)
(* lists it has claimed.                                                   *)
RulesAreRead ==
  \A n \in DOMAIN rules :
    \E r \in source :
      /\ n = RuleName(r)
      /\ rules[n] = [aliases |-> RuleAliases(r), window |-> r.window, weight |-> r.weight]

ReadIsKept ==
  verdict # "refused" =>
    \A r \in source :
      /\ RuleName(r) \in DOMAIN rules
      /\ rules[RuleName(r)] =
           [aliases |-> RuleAliases(r), window |-> r.window, weight |-> r.weight]
      /\ OneTier(r)
      /\ NotIgnored(r)

Claimed ==
  \A n \in DOMAIN rules : \A a \in rules[n].aliases :
    a \in DOMAIN aliases /\ aliases[a] = n

RulesInv ==
  /\ RulesTypeOK
  /\ ignored \in {PlanSet(l) : l \in IgnoredLists}
  /\ verdict # "refused" => RulesAreRead /\ Claimed
  /\ ReadIsKept

(* The name of a rule is one of its aliases.                               *)
LEMMA NameIsAlias == ASSUME NEW r PROVE RuleName(r) \in RuleAliases(r)
BY DEF RuleAliases

LEMMA RulesInitially == RulesInit => RulesInv
<1> SUFFICES ASSUME RulesInit PROVE RulesInv
  OBVIOUS
<1>1. DOMAIN rules = {} /\ DOMAIN aliases = {} /\ source = {} /\ verdict = "reading"
  BY DEF RulesInit
<1>2. RulesTypeOK
  BY <1>1 DEF RulesTypeOK
<1>3. RulesAreRead /\ Claimed /\ ReadIsKept
  BY <1>1 DEF RulesAreRead, Claimed, ReadIsKept
<1> QED
  BY <1>2, <1>3 DEF RulesInv, RulesInit

LEMMA RefuseKeeps == ASSUME RulesInv, NEW r \in Candidates, Refuse(r) PROVE RulesInv'
<1>1. DOMAIN rules' = {} /\ DOMAIN aliases' = {}
  BY DEF Refuse
<1>2. /\ verdict' = "refused"
      /\ source' = source
      /\ ignored' = ignored
  BY DEF Refuse
<1>3. RulesTypeOK'
  BY <1>1, <1>2 DEF RulesInv, RulesTypeOK
<1>4. ReadIsKept'
  BY <1>2 DEF ReadIsKept
<1> QED
  BY <1>2, <1>3, <1>4 DEF RulesInv

LEMMA FinishKeeps == ASSUME RulesInv, Finish PROVE RulesInv'
<1>1. /\ verdict = "reading" /\ verdict' = "accepted"
      /\ ignored' = ignored /\ source' = source /\ rules' = rules /\ aliases' = aliases
  BY DEF Finish
<1>2. RulesTypeOK'
  BY <1>1 DEF RulesInv, RulesTypeOK
<1>3. RulesAreRead' /\ Claimed'
  BY <1>1 DEF RulesInv, RulesAreRead, Claimed
<1>4. ReadIsKept'
  BY <1>1 DEF RulesInv, ReadIsKept, OneTier, NotIgnored, ClaimedUpstreamPlans, IgnoredContains
<1> QED
  BY <1>1, <1>2, <1>3, <1>4 DEF RulesInv

LEMMA AcceptKeeps == ASSUME RulesInv, NEW r \in Candidates, Accept(r) PROVE RulesInv'
<1> DEFINE name == RuleName(r)
           record == [aliases |-> RuleAliases(r), window |-> r.window, weight |-> r.weight]
<1>1. /\ verdict = "reading" /\ verdict' = "reading"
      /\ ignored' = ignored
      /\ source' = source \cup {r}
      /\ rules' = Bind(rules, {name}, record)
      /\ aliases' = Bind(aliases, RuleAliases(r), name)
  BY DEF Accept, Keep
<1>4. name \notin DOMAIN rules /\ OneTier(r) /\ NotIgnored(r) /\ Unclaimed(r)
  BY DEF Accept, Acceptable
<1>10. name # <<>>
  BY DEF Accept, Acceptable, WellFormed
<1>5. record.aliases = RuleAliases(r)
  OBVIOUS
<1> HIDE DEF record, name
<1>2. /\ DOMAIN rules' = DOMAIN rules \cup {name}
      /\ rules'[name] = record
      /\ \A n \in DOMAIN rules \ {name} : rules'[n] = rules[n]
  <2> DEFINE S == {name}
  <2>1. /\ DOMAIN Bind(rules, S, record) = DOMAIN rules \cup S
        /\ \A n \in S : Bind(rules, S, record)[n] = record
        /\ \A n \in DOMAIN rules \ S : Bind(rules, S, record)[n] = rules[n]
    BY DEF Bind
  <2> QED
    BY <1>1, <2>1
<1>3. /\ DOMAIN aliases' = DOMAIN aliases \cup RuleAliases(r)
      /\ \A a \in RuleAliases(r) : aliases'[a] = name
      /\ \A a \in DOMAIN aliases \ RuleAliases(r) : aliases'[a] = aliases[a]
  <2> DEFINE S == RuleAliases(r)
  <2> HIDE DEF S
  <2>1. /\ DOMAIN Bind(aliases, S, name) = DOMAIN aliases \cup S
        /\ \A a \in S : Bind(aliases, S, name)[a] = name
        /\ \A a \in DOMAIN aliases \ S : Bind(aliases, S, name)[a] = aliases[a]
    BY DEF Bind
  <2> QED
    BY <1>1, <2>1 DEF S
<1>6. RulesTypeOK'
  <2>1. name \in Names /\ RuleAliases(r) \subseteq Spellings
    BY <1>10 DEF Names, Spellings, name
  <2>2. \A n \in DOMAIN rules' : n \in Names /\ rules'[n].aliases \subseteq Spellings
    BY <1>2, <1>5, <2>1 DEF RulesInv, RulesTypeOK
  <2>3. \A a \in DOMAIN aliases' : a \in Spellings /\ aliases'[a] \in Names
    BY <1>3, <2>1 DEF RulesInv, RulesTypeOK
  <2> QED
    BY <1>1, <2>2, <2>3 DEF RulesInv, RulesTypeOK
<1>7. RulesAreRead'
  <2> SUFFICES ASSUME NEW n \in DOMAIN rules'
      PROVE \E q \in source' : /\ n = RuleName(q)
                               /\ rules'[n] = [aliases |-> RuleAliases(q),
                                               window |-> q.window, weight |-> q.weight]
    BY DEF RulesAreRead
  <2>1. CASE n = name
    BY <1>1, <1>2, <2>1 DEF name, record
  <2>2. CASE n # name
    BY <1>1, <1>2, <2>2 DEF RulesInv, RulesAreRead
  <2> QED
    BY <2>1, <2>2
<1>8. Claimed'
  <2> SUFFICES ASSUME NEW n \in DOMAIN rules', NEW a \in rules'[n].aliases
      PROVE a \in DOMAIN aliases' /\ aliases'[a] = n
    BY DEF Claimed
  <2>1. CASE n = name
    BY <1>2, <1>3, <1>5, <2>1
  <2>2. CASE n # name
    <3>1. n \in DOMAIN rules /\ a \in DOMAIN aliases /\ aliases[a] = n
      BY <1>1, <1>2, <2>2 DEF RulesInv, Claimed
    <3>2. a \notin RuleAliases(r)
      BY <1>4, <2>2, <3>1 DEF Unclaimed, name
    <3> QED
      BY <1>3, <3>1, <3>2
  <2> QED
    BY <2>1, <2>2
<1>9. ReadIsKept'
  <2> SUFFICES ASSUME NEW q \in source'
      PROVE /\ RuleName(q) \in DOMAIN rules'
            /\ rules'[RuleName(q)] = [aliases |-> RuleAliases(q),
                                      window |-> q.window, weight |-> q.weight]
            /\ OneTier(q)'
            /\ NotIgnored(q)'
    BY DEF ReadIsKept
  <2>1. OneTier(q) => OneTier(q)'
    BY DEF OneTier, ClaimedUpstreamPlans
  <2>2. NotIgnored(q) => NotIgnored(q)'
    BY <1>1 DEF NotIgnored, IgnoredContains
  <2>3. CASE q = r
    BY <1>2, <1>4, <2>1, <2>2, <2>3 DEF name, record
  <2>4. CASE q # r
    <3>1. /\ RuleName(q) \in DOMAIN rules
          /\ rules[RuleName(q)] = [aliases |-> RuleAliases(q),
                                   window |-> q.window, weight |-> q.weight]
          /\ OneTier(q) /\ NotIgnored(q)
      BY <1>1, <2>4 DEF RulesInv, ReadIsKept
    <3> QED
      BY <1>2, <1>4, <2>1, <2>2, <3>1
  <2> QED
    BY <2>3, <2>4
<1> QED
  BY <1>1, <1>6, <1>7, <1>8, <1>9 DEF RulesInv

LEMMA RulesHold == RulesSpec => []RulesInv
<1>1. RulesInv /\ [RulesNext]_rulesVars => RulesInv'
  <2> SUFFICES ASSUME RulesInv, [RulesNext]_rulesVars PROVE RulesInv'
    OBVIOUS
  <2>1. ASSUME NEW r \in Candidates, Accept(r) PROVE RulesInv'
    BY <2>1, AcceptKeeps
  <2>2. ASSUME NEW r \in Candidates, Refuse(r) PROVE RulesInv'
    BY <2>2, RefuseKeeps
  <2>3. CASE Finish
    BY <2>3, FinishKeeps
  <2>4. CASE UNCHANGED rulesVars
    BY <2>4 DEF rulesVars, RulesInv, RulesTypeOK, RulesAreRead, Claimed, ReadIsKept, OneTier, NotIgnored,
                ClaimedUpstreamPlans, IgnoredContains
  <2> QED
    BY <2>1, <2>2, <2>3, <2>4 DEF RulesNext
<1> QED
  BY RulesInitially, <1>1, PTL DEF RulesSpec

(* Types of the rules that are read.                                       *)
THEOREM RulesTypesHold == RulesSpec => []RulesTypeOK
<1>1. RulesInv => RulesTypeOK
  BY DEF RulesInv
<1> QED
  BY RulesHold, <1>1, PTL

LEMMA OneRuleFits ==
  ASSUME RulesInv, Steady, RulesAreRead, Claimed, NEW p,
         NEW n \in MatchingRules(p, rules), NEW m \in MatchingRules(p, rules)
  PROVE n = m
<1> DEFINE plan == NormalizePlan(NormalizePlan(p))
<1> HIDE DEF plan
<1>1. ASSUME NEW k \in MatchingRules(p, rules)
      PROVE plan \in DOMAIN aliases /\ aliases[plan] = k
  <2>1. k \in DOMAIN rules /\ \E a \in rules[k].aliases \cup {k} : NormalizePlan(a) = plan
    BY <1>1 DEF MatchingRules, plan
  <2>2. PICK r \in source :
          /\ k = RuleName(r)
          /\ rules[k] = [aliases |-> RuleAliases(r), window |-> r.window, weight |-> r.weight]
    BY <2>1 DEF RulesAreRead
  <2>3. rules[k].aliases = RuleAliases(r) /\ k \in RuleAliases(r) /\ r \in Candidates
    BY <2>2, NameIsAlias DEF RulesInv, RulesTypeOK
  <2>4. \A a \in rules[k].aliases \cup {k} : NormalizePlan(a) = a
    BY <2>3 DEF Steady
  <2>5. plan \in rules[k].aliases
    BY <2>1, <2>3, <2>4
  <2> QED
    BY <2>1, <2>5 DEF Claimed
<1> QED
  BY <1>1

(* For every configuration whose texts stay as they are when normalised    *)
(* once more, an accepted rule set is unambiguous: no two rules fit one    *)
(* plan, whatever an account reports.                                      *)
THEOREM SteadyRulesAreUnambiguous ==
  ASSUME Steady
  PROVE RulesSpec => []RulesAreUnambiguous
<1>1. RulesInv => RulesAreUnambiguous
  <2> SUFFICES ASSUME RulesInv, verdict = "accepted", NEW p \in Plans,
                      NEW n \in MatchingRules(p, rules), NEW m \in MatchingRules(p, rules)
      PROVE n = m
    BY DEF RulesAreUnambiguous
  <2>1. RulesAreRead /\ Claimed
    BY DEF RulesInv
  <2> QED
    BY <2>1, OneRuleFits
<1> QED
  BY RulesHold, <1>1, PTL

(* And each spelling the operator wrote finds the rule it was written in.  *)
THEOREM SteadySpellingsAreHonoured ==
  ASSUME Steady
  PROVE RulesSpec => []SpellingsAreHonoured
<1>1. RulesInv => SpellingsAreHonoured
  <2> SUFFICES ASSUME RulesInv, verdict = "accepted", NEW r \in source,
                      NEW a \in r.aliases \cup {RuleName(r)}, NormalizePlan(a) # <<>>
      PROVE /\ ~IsIgnored(a, ignored)
            /\ MatchingRules(a, rules) # {}
            /\ \A n \in MatchingRules(a, rules) :
                 rules[n].window = r.window /\ rules[n].weight = r.weight
    BY DEF SpellingsAreHonoured
  <2> DEFINE plan == NormalizePlan(a)
             name == RuleName(r)
  <2>1. r \in Candidates /\ RulesAreRead /\ Claimed
    BY DEF RulesInv, RulesTypeOK
  <2>2. /\ name \in DOMAIN rules
        /\ rules[name] = [aliases |-> RuleAliases(r), window |-> r.window, weight |-> r.weight]
        /\ NotIgnored(r)
    BY DEF RulesInv, ReadIsKept
  <2>3. name \in RuleAliases(r)
    BY NameIsAlias
  <2>4. NormalizePlan(name) = name
    BY <2>1, <2>3 DEF Steady
  <2>5. plan \in RuleAliases(r)
    <3>1. CASE a \in r.aliases
      BY <3>1 DEF RuleAliases, PlanSet
    <3>2. CASE a = name
      BY <2>3, <2>4, <3>2
    <3> QED
      BY <3>1, <3>2
  <2>6. NormalizePlan(plan) = plan
    BY <2>1, <2>5 DEF Steady
  <2>7. ~IsIgnored(a, ignored)
    <3>1. plan \notin ignored
      BY <2>2, <2>5, <2>6 DEF NotIgnored, IgnoredContains
    <3>2. \A p \in ignored : NormalizePlan(p) = p
      BY DEF RulesInv, Steady
    <3> QED
      BY <2>6, <3>1, <3>2 DEF IsIgnored
  <2>8. name \in MatchingRules(a, rules)
    BY <2>2, <2>5, <2>6 DEF MatchingRules
  <2>9. \A n \in MatchingRules(a, rules) : n = name
    BY <2>1, <2>8, OneRuleFits
  <2> QED
    BY <2>2, <2>7, <2>8, <2>9
<1> QED
  BY RulesHold, <1>1, PTL

(* Without any condition on the texts: two subscriptions of the upstream   *)
(* never get their weight from one rule.                                   *)
THEOREM TiersAreSeparate == RulesSpec => []TiersStaySeparate
<1>1. RulesInv => TiersStaySeparate
  <2> SUFFICES ASSUME RulesInv, verdict = "accepted", NEW p \in Plans, NEW q \in Plans,
                      NormalizePlan(NormalizePlan(p)) \in Upstream,
                      NormalizePlan(NormalizePlan(q)) \in Upstream,
                      NEW n \in MatchingRules(p, rules), n \in MatchingRules(q, rules)
      PROVE NormalizePlan(NormalizePlan(p)) = NormalizePlan(NormalizePlan(q))
    BY DEF TiersStaySeparate
  <2>1. PICK r \in source :
          /\ n = RuleName(r)
          /\ rules[n] = [aliases |-> RuleAliases(r), window |-> r.window, weight |-> r.weight]
    BY DEF RulesInv, RulesAreRead, MatchingRules
  <2>2. OneTier(r)
    BY DEF RulesInv, ReadIsKept
  <2>3. rules[n].aliases \cup {n} = RuleAliases(r)
    BY <2>1, NameIsAlias
  <2>4. /\ NormalizePlan(NormalizePlan(p)) \in ClaimedUpstreamPlans(r)
        /\ NormalizePlan(NormalizePlan(q)) \in ClaimedUpstreamPlans(r)
    BY <2>3 DEF MatchingRules, ClaimedUpstreamPlans
  <2> QED
    BY <2>2, <2>4 DEF OneTier
<1> QED
  BY RulesHold, <1>1, PTL

(* What accepted rules keep apart, without any condition on the texts.     *)
THEOREM RulesStaySound == RulesSpec => []RulesAreSound
  BY RulesTypesHold, TiersAreSeparate, PTL DEF RulesAreSound
-----------------------------------------------------------------------------
(* Sums.  The sum takes the members of a set one after the other: its      *)
(* recursion exists, does not depend on the set it is restricted from, and *)
(* any member may be taken first.                                          *)

Pick(s) == CHOOSE x \in s : TRUE

IsSumming(g, f, D) ==
  g = [s \in D |-> IF s = {} THEN 0 ELSE f[Pick(s)] + g[s \ {Pick(s)}]]

Summing(f, S) == CHOOSE g : IsSumming(g, f, SUBSET S)

LEMMA SumBySumming == ASSUME NEW f, NEW S PROVE SumFunctionOnSet(f, S) = Summing(f, S)[S]
  BY DEF SumFunctionOnSet, FoldFunctionOnSet, MapThenFoldSet, Summing, IsSumming, Pick

(* Removing a member.                                                      *)
LEMMA Smaller ==
  ASSUME NEW s, IsFiniteSet(s), NEW x \in s
  PROVE  /\ IsFiniteSet(s \ {x}) /\ Cardinality(s) \in Nat \ {0}
         /\ Cardinality(s \ {x}) = Cardinality(s) - 1
  BY FS_RemoveElement, FS_CardinalityType, FS_EmptySet

LEMMA Picked == ASSUME NEW s, s # {} PROVE Pick(s) \in s
  BY DEF Pick

(* The recursion up to a size.                                             *)
UpTo(S, n) == {s \in SUBSET S : Cardinality(s) <= n}

LEMMA SummingExists ==
  ASSUME NEW f, NEW S, IsFiniteSet(S) PROVE \E g : IsSumming(g, f, SUBSET S)
<1>a. \A s \in SUBSET S : IsFiniteSet(s) /\ Cardinality(s) \in Nat
  BY FS_Subset, FS_CardinalityType
<1> DEFINE T == {n \in Nat : ~\E g : IsSumming(g, f, UpTo(S, n))}
<1>1. ASSUME T # {} PROVE FALSE
  <2>1. PICK n \in T : \A j \in T : n <= j
    BY <1>1, Least
  <2>2. n # 0
    <3> DEFINE g == [s \in UpTo(S, 0) |-> 0]
    <3>1. \A s \in UpTo(S, 0) : s = {}
      BY <1>a, FS_EmptySet DEF UpTo
    <3>2. IsSumming(g, f, UpTo(S, 0))
      BY <3>1 DEF IsSumming
    <3> QED
      BY <3>2
  <2>3. n - 1 \in Nat /\ n - 1 \notin T
    BY <2>1, <2>2
  <2>4. PICK g : IsSumming(g, f, UpTo(S, n - 1))
    BY <2>3
  <2> DEFINE value(s) == IF s = {} THEN 0 ELSE f[Pick(s)] + g[s \ {Pick(s)}]
             h == [s \in UpTo(S, n) |-> value(s)]
  <2>5. \A s \in UpTo(S, n - 1) : s \in UpTo(S, n) /\ h[s] = g[s]
    <3>1. UpTo(S, n - 1) \subseteq UpTo(S, n)
      BY <1>a, <2>1, <2>3 DEF UpTo
    <3>2. g = [s \in UpTo(S, n - 1) |-> value(s)]
      BY <2>4 DEF IsSumming
    <3> HIDE DEF value
    <3>3. \A s \in UpTo(S, n - 1) : g[s] = value(s)
      BY <3>2
    <3> QED
      BY <3>1, <3>3
  <2>6. \A s \in UpTo(S, n) : s # {} => s \ {Pick(s)} \in UpTo(S, n - 1)
    BY <1>a, <2>1, Picked, Smaller DEF UpTo
  <2>7. \A s \in UpTo(S, n) :
          h[s] = IF s = {} THEN 0 ELSE f[Pick(s)] + h[s \ {Pick(s)}]
    BY <2>5, <2>6
  <2>8. IsSumming(h, f, UpTo(S, n))
    <3>1. h = [s \in UpTo(S, n) |-> h[s]]
      OBVIOUS
    <3> HIDE DEF h
    <3> QED
      BY <2>7, <3>1 DEF IsSumming
  <2> QED
    BY <2>1, <2>8
<1>2. PICK g : IsSumming(g, f, UpTo(S, Cardinality(S)))
  BY <1>a, <1>1
<1>3. UpTo(S, Cardinality(S)) = SUBSET S
  BY FS_Subset DEF UpTo
<1> QED
  BY <1>2, <1>3

LEMMA SummingIs ==
  ASSUME NEW f, NEW S, IsFiniteSet(S), NEW s \in SUBSET S
  PROVE  Summing(f, S)[s] =
           IF s = {} THEN 0 ELSE f[Pick(s)] + Summing(f, S)[s \ {Pick(s)}]
<1> DEFINE g == Summing(f, S)
<1>1. IsSumming(g, f, SUBSET S)
  BY SummingExists DEF Summing
<1> HIDE DEF g
<1>2. g[s] = IF s = {} THEN 0 ELSE f[Pick(s)] + g[s \ {Pick(s)}]
  BY <1>1 DEF IsSumming
<1> QED
  BY <1>2 DEF g

(* Two sums over the same set are equal if their terms are.                *)
LEMMA SummingAgrees ==
  ASSUME NEW f, NEW g, NEW S, NEW R, IsFiniteSet(S), IsFiniteSet(R),
         NEW s \in SUBSET (S \cap R), \A x \in s : f[x] = g[x]
  PROVE  Summing(f, S)[s] = Summing(g, R)[s]
<1>a. IsFiniteSet(s)
  BY FS_Subset
<1> DEFINE F == Summing(f, S)
           G == Summing(g, R)
           T == {n \in Nat : \E r \in SUBSET s : Cardinality(r) = n /\ F[r] # G[r]}
<1>1. \A r \in SUBSET s :
        /\ IsFiniteSet(r) /\ Cardinality(r) \in Nat
        /\ F[r] = IF r = {} THEN 0 ELSE f[Pick(r)] + F[r \ {Pick(r)}]
        /\ G[r] = IF r = {} THEN 0 ELSE g[Pick(r)] + G[r \ {Pick(r)}]
  <2> SUFFICES ASSUME NEW r \in SUBSET s
      PROVE  /\ IsFiniteSet(r) /\ Cardinality(r) \in Nat
             /\ F[r] = IF r = {} THEN 0 ELSE f[Pick(r)] + F[r \ {Pick(r)}]
             /\ G[r] = IF r = {} THEN 0 ELSE g[Pick(r)] + G[r \ {Pick(r)}]
    OBVIOUS
  <2>1. IsFiniteSet(r) /\ Cardinality(r) \in Nat
    BY <1>a, FS_Subset, FS_CardinalityType
  <2>2. r \in SUBSET S /\ r \in SUBSET R
    OBVIOUS
  <2> QED
    BY <2>1, <2>2, SummingIs
<1> HIDE DEF F, G
<1>2. ASSUME T # {} PROVE FALSE
  <2>1. PICK n \in T : \A j \in T : n <= j
    BY <1>2, Least
  <2>2. PICK r \in SUBSET s : Cardinality(r) = n /\ F[r] # G[r]
    BY <2>1
  <2>3. r # {}
    BY <1>1, <2>2
  <2> DEFINE p == Pick(r)
  <2>4. p \in r /\ Cardinality(r \ {p}) = n - 1 /\ n - 1 \in Nat
    <3>1. p \in r /\ IsFiniteSet(r)
      BY <1>1, <2>2, <2>3, Picked
    <3> QED
      BY <2>2, <3>1, Smaller
  <2>5. F[r \ {p}] = G[r \ {p}]
    BY <2>1, <2>4
  <2>6. f[p] = g[p]
    BY <2>4
  <2> QED
    BY <1>1, <2>2, <2>3, <2>5, <2>6
<1>3. F[s] = G[s]
  BY <1>1, <1>2
<1> QED
  BY <1>3 DEF F, G

(* Induction over the subsets of a finite set, in first order.             *)
LEMMA Subsets ==
  ASSUME NEW S, IsFiniteSet(S), NEW P,
         \A s \in SUBSET S : (\A x \in s : s \ {x} \in P) => s \in P
  PROVE  S \in P
<1>a. \A s \in SUBSET S : IsFiniteSet(s) /\ Cardinality(s) \in Nat
  BY FS_Subset, FS_CardinalityType
<1> DEFINE T == {n \in Nat : \E s \in SUBSET S : Cardinality(s) = n /\ s \notin P}
<1>1. ASSUME T # {} PROVE FALSE
  <2>1. PICK n \in T : \A j \in T : n <= j
    BY <1>1, Least
  <2>2. PICK s \in SUBSET S : Cardinality(s) = n /\ s \notin P
    BY <2>1
  <2>3. PICK x \in s : s \ {x} \notin P
    BY <2>2
  <2>4. Cardinality(s \ {x}) = n - 1 /\ n - 1 \in Nat
    BY <1>a, <2>2, Smaller
  <2> QED
    BY <2>1, <2>3, <2>4
<1> QED
  BY <1>a, <1>1

LEMMA SumAgrees ==
  ASSUME NEW f, NEW g, NEW S, IsFiniteSet(S), \A x \in S : f[x] = g[x]
  PROVE  SumFunctionOnSet(f, S) = SumFunctionOnSet(g, S)
  BY SumBySumming, SummingAgrees

LEMMA SumOfNone == ASSUME NEW f PROVE SumFunctionOnSet(f, {}) = 0
  BY SumBySumming, SummingIs, FS_EmptySet

LEMMA SumOfSome ==
  ASSUME NEW f, NEW S, IsFiniteSet(S), S # {}
  PROVE  SumFunctionOnSet(f, S) = f[Pick(S)] + SumFunctionOnSet(f, S \ {Pick(S)})
<1> DEFINE R == S \ {Pick(S)}
<1>1. IsFiniteSet(R) /\ R \in SUBSET (S \cap R)
  BY FS_RemoveElement
<1>2. Summing(f, S)[R] = Summing(f, R)[R]
  BY <1>1, SummingAgrees
<1> QED
  BY <1>2, SumBySumming, SummingIs

LEMMA SumIsInt ==
  ASSUME NEW f, NEW S, IsFiniteSet(S), \A x \in S : f[x] \in Int
  PROVE  SumFunctionOnSet(f, S) \in Int
<1> DEFINE P == {s \in SUBSET S : SumFunctionOnSet(f, s) \in Int}
<1>1. ASSUME NEW s \in SUBSET S, \A x \in s : s \ {x} \in P PROVE s \in P
  <2>1. CASE s = {}
    BY <2>1, SumOfNone
  <2>2. CASE s # {}
    <3>1. Pick(s) \in s /\ IsFiniteSet(s)
      BY <2>2, Picked, FS_Subset
    <3>2. SumFunctionOnSet(f, s) = f[Pick(s)] + SumFunctionOnSet(f, s \ {Pick(s)})
      BY <2>2, <3>1, SumOfSome
    <3> QED
      BY <1>1, <3>1, <3>2
  <2> QED
    BY <2>1, <2>2
<1> HIDE DEF P
<1>2. S \in P
  BY <1>1, Subsets
<1> QED
  BY <1>2 DEF P

(* Any member may be taken first.                                          *)
LEMMA SumTakes ==
  ASSUME NEW f, NEW S, IsFiniteSet(S), \A x \in S : f[x] \in Int, NEW y \in S
  PROVE  SumFunctionOnSet(f, S) = f[y] + SumFunctionOnSet(f, S \ {y})
<1> DEFINE sum(s) == SumFunctionOnSet(f, s)
           P == {s \in SUBSET S : \A z \in s : sum(s) = f[z] + sum(s \ {z})}
<1>a. \A s \in SUBSET S : IsFiniteSet(s) /\ sum(s) \in Int
  BY FS_Subset, SumIsInt
<1>b. \A s \in SUBSET S : s # {} => Pick(s) \in s /\ sum(s) = f[Pick(s)] + sum(s \ {Pick(s)})
  BY <1>a, Picked, SumOfSome
<1> HIDE DEF sum
<1>1. ASSUME NEW s \in SUBSET S, \A x \in s : s \ {x} \in P PROVE s \in P
  <2> DEFINE p == Pick(s)
  <2>1. s # {} => p \in s /\ sum(s) = f[p] + sum(s \ {p})
    BY <1>b
  <2>2. ASSUME NEW z \in s, z # p PROVE sum(s) = f[z] + sum(s \ {z})
    <3> DEFINE r == s \ {p, z}
    <3>1. sum(s \ {p}) = f[z] + sum(r)
      <4>1. z \in s \ {p} /\ (s \ {p}) \ {z} = r
        BY <2>2
      <4> QED
        BY <1>1, <2>1, <4>1
    <3>2. sum(s \ {z}) = f[p] + sum(r)
      <4>1. p \in s \ {z} /\ (s \ {z}) \ {p} = r
        BY <2>1, <2>2
      <4> QED
        BY <1>1, <4>1
    <3>3. f[p] \in Int /\ f[z] \in Int /\ sum(r) \in Int
      BY <1>a, <2>1, <2>2
    <3> QED
      BY <2>1, <3>1, <3>2, <3>3
  <2> QED
    BY <2>1, <2>2
<1> HIDE DEF P
<1>2. S \in P
  BY <1>1, Subsets
<1> QED
  BY <1>2 DEF P, sum

LEMMA SumIsMonotone ==
  ASSUME NEW f, NEW g, NEW S, IsFiniteSet(S),
         \A x \in S : f[x] \in Int /\ g[x] \in Int /\ f[x] <= g[x]
  PROVE  SumFunctionOnSet(f, S) <= SumFunctionOnSet(g, S)
<1> DEFINE F(s) == SumFunctionOnSet(f, s)
           G(s) == SumFunctionOnSet(g, s)
           P == {s \in SUBSET S : F(s) <= G(s)}
<1>a. \A s \in SUBSET S : IsFiniteSet(s) /\ F(s) \in Int /\ G(s) \in Int
  BY FS_Subset, SumIsInt
<1>b. F({}) = 0 /\ G({}) = 0
  BY SumOfNone
<1>c. \A s \in SUBSET S : \A x \in s : F(s) = f[x] + F(s \ {x}) /\ G(s) = g[x] + G(s \ {x})
  <2> SUFFICES ASSUME NEW s \in SUBSET S, NEW x \in s
      PROVE F(s) = f[x] + F(s \ {x}) /\ G(s) = g[x] + G(s \ {x})
    OBVIOUS
  <2>1. IsFiniteSet(s) /\ \A y \in s : f[y] \in Int /\ g[y] \in Int
    BY <1>a
  <2> QED
    BY <2>1, SumTakes
<1> HIDE DEF F, G
<1>1. ASSUME NEW s \in SUBSET S, \A x \in s : s \ {x} \in P PROVE s \in P
  <2>1. CASE s = {}
    BY <1>b, <2>1
  <2>2. ASSUME NEW x \in s PROVE s \in P
    <3>1. s \ {x} \in SUBSET S /\ F(s \ {x}) <= G(s \ {x})
      BY <1>1
    <3>2. F(s) = f[x] + F(s \ {x}) /\ G(s) = g[x] + G(s \ {x})
      BY <1>c
    <3>3. F(s \ {x}) \in Int /\ G(s \ {x}) \in Int
      BY <1>a, <3>1
    <3> QED
      BY <3>1, <3>2, <3>3
  <2> QED
    BY <2>1, <2>2
<1> HIDE DEF P
<1>2. S \in P
  BY <1>1, Subsets
<1> QED
  BY <1>2 DEF P, F, G

LEMMA RoundIsClose ==
  ASSUME NEW t \in Int PROVE Round4(t) \in Int /\ Round4(t) - t \in -50 .. 50
  BY DEF Round4

LEMMA RoundIsMonotone ==
  ASSUME NEW t \in Int, NEW u \in Int, t <= u PROVE Round4(t) <= Round4(u)
  BY DEF Round4

(* Rounding every part moves the sum by half a unit for each.              *)
LEMMA SumOfRounded ==
  ASSUME NEW f, IsFiniteSet(DOMAIN f), \A x \in DOMAIN f : f[x] \in Int
  PROVE  /\ Cardinality(DOMAIN f) \in Nat
         /\ SumFunction(f) \in Int /\ SumFunction(RoundAll(f)) \in Int
         /\ SumFunction(RoundAll(f)) - SumFunction(f)
              \in -(50 * Cardinality(DOMAIN f)) .. 50 * Cardinality(DOMAIN f)
<1> DEFINE S == DOMAIN f
           g == RoundAll(f)
           F(s) == SumFunctionOnSet(f, s)
           G(s) == SumFunctionOnSet(g, s)
           near(s) == G(s) - F(s) \in -(50 * Cardinality(s)) .. 50 * Cardinality(s)
           P == {s \in SUBSET S : near(s)}
<1>a. \A x \in S : g[x] \in Int /\ g[x] - f[x] \in -50 .. 50
  BY RoundIsClose DEF RoundAll
<1>b. DOMAIN g = S
  BY DEF RoundAll
<1> HIDE DEF g
<1>c. \A s \in SUBSET S :
        IsFiniteSet(s) /\ Cardinality(s) \in Nat /\ F(s) \in Int /\ G(s) \in Int
  BY <1>a, FS_Subset, FS_CardinalityType, SumIsInt
<1>d. F({}) = 0 /\ G({}) = 0 /\ Cardinality({}) = 0
  BY SumOfNone, FS_EmptySet
<1>e. \A s \in SUBSET S : \A x \in s :
        /\ F(s) = f[x] + F(s \ {x}) /\ G(s) = g[x] + G(s \ {x})
        /\ Cardinality(s) = Cardinality(s \ {x}) + 1
  <2> SUFFICES ASSUME NEW s \in SUBSET S, NEW x \in s
      PROVE /\ F(s) = f[x] + F(s \ {x}) /\ G(s) = g[x] + G(s \ {x})
            /\ Cardinality(s) = Cardinality(s \ {x}) + 1
    OBVIOUS
  <2>1. IsFiniteSet(s) /\ \A y \in s : f[y] \in Int /\ g[y] \in Int
    BY <1>a, <1>c
  <2>2. Cardinality(s) = Cardinality(s \ {x}) + 1
    BY <2>1, Smaller
  <2> QED
    BY <2>1, <2>2, SumTakes
<1> HIDE DEF F, G
<1>1. ASSUME NEW s \in SUBSET S, \A x \in s : s \ {x} \in P PROVE s \in P
  <2>1. CASE s = {}
    BY <1>d, <2>1
  <2>2. ASSUME NEW x \in s PROVE s \in P
    <3> DEFINE r == s \ {x}
    <3>1. r \in SUBSET S /\ near(r)
      BY <1>1
    <3>2. /\ F(s) = f[x] + F(r) /\ G(s) = g[x] + G(r)
          /\ Cardinality(s) = Cardinality(r) + 1
      BY <1>e
    <3>3. F(r) \in Int /\ G(r) \in Int /\ Cardinality(r) \in Nat
      BY <1>c, <3>1
    <3>4. f[x] \in Int /\ g[x] \in Int /\ g[x] - f[x] \in -50 .. 50
      BY <1>a
    <3> HIDE DEF r
    <3>5. near(s)
      BY <3>1, <3>2, <3>3, <3>4
    <3> QED
      BY <3>5
  <2> QED
    BY <2>1, <2>2
<1>2. S \in P
  <2> HIDE DEF P
  <2> QED
    BY <1>1, Subsets
<1>3. near(S) /\ Cardinality(S) \in Nat /\ F(S) \in Int /\ G(S) \in Int
  BY <1>2, <1>c
<1> QED
  BY <1>3, <1>b DEF F, G, g, SumFunction

(* Adding to one entry of a map adds as much to its sum.                   *)
LEMMA SumOfAdded ==
  ASSUME NEW f, IsFiniteSet(DOMAIN f), \A x \in DOMAIN f : f[x] \in Int,
         NEW key, NEW n \in Int
  PROVE  /\ IsFiniteSet(DOMAIN AddTo(f, key, n))
         /\ SumFunction(f) \in Int
         /\ SumFunction(AddTo(f, key, n)) = SumFunction(f) + n
<1> DEFINE S == DOMAIN f
           g == AddTo(f, key, n)
           R == S \ {key}
<1>1. /\ DOMAIN g = S \cup {key} /\ g[key] = Amount(f, key) + n
      /\ \A x \in R : g[x] = f[x]
      /\ \A x \in DOMAIN g : g[x] \in Int
  BY DEF AddTo, Amount
<1>2. IsFiniteSet(S \cup {key}) /\ IsFiniteSet(R)
  BY FS_AddElement, FS_RemoveElement
<1> HIDE DEF g
<1>3. SumFunctionOnSet(g, R) = SumFunctionOnSet(f, R) /\ SumFunctionOnSet(f, R) \in Int
  BY <1>1, <1>2, SumAgrees, SumIsInt
<1>4. SumFunctionOnSet(g, S \cup {key}) = g[key] + SumFunctionOnSet(g, R)
  <2>1. (S \cup {key}) \ {key} = R /\ key \in S \cup {key}
    OBVIOUS
  <2> QED
    BY <1>1, <1>2, <2>1, SumTakes
<1>5. SumFunctionOnSet(f, S) = Amount(f, key) + SumFunctionOnSet(f, R)
  <2>1. CASE key \in S
    BY <2>1, SumTakes DEF Amount
  <2>2. CASE key \notin S
    <3>1. R = S /\ Amount(f, key) = 0
      BY <2>2 DEF Amount
    <3> QED
      BY <1>3, <3>1
  <2> QED
    BY <2>1, <2>2
<1>6. Amount(f, key) \in Int
  BY DEF Amount
<1>7. SumFunctionOnSet(g, S \cup {key}) = SumFunctionOnSet(f, S) + n
  BY <1>1, <1>3, <1>4, <1>5, <1>6
<1>8. SumFunctionOnSet(f, S) \in Int
  BY <1>3, <1>5, <1>6
<1> QED
  BY <1>1, <1>2, <1>7, <1>8 DEF g, SumFunction

(* A sum over an interval grows at its end.                                *)
LEMMA SumOfNext ==
  ASSUME NEW f, NEW n \in Nat \ {0}, \A i \in 1 .. n : f[i] \in Int
  PROVE  /\ SumFunctionOnSet(f, 1 .. (n - 1)) \in Int
         /\ SumFunctionOnSet(f, 1 .. n) = SumFunctionOnSet(f, 1 .. (n - 1)) + f[n]
<1>1. IsFiniteSet(1 .. n) /\ IsFiniteSet(1 .. (n - 1)) /\ n \in 1 .. n
  BY FS_Interval
<1>2. (1 .. n) \ {n} = 1 .. (n - 1)
  OBVIOUS
<1>3. SumFunctionOnSet(f, 1 .. n) = f[n] + SumFunctionOnSet(f, 1 .. (n - 1))
  BY <1>1, <1>2, SumTakes
<1>4. SumFunctionOnSet(f, 1 .. (n - 1)) \in Int
  BY <1>1, SumIsInt
<1> QED
  BY <1>1, <1>3, <1>4
-----------------------------------------------------------------------------
(* The snapshot of one check: its marks.                                   *)

Fields == {"total", "byWindow", "byPlan", "accounts", "terminal", "unresolved", "unknown", "partial"}

(* The accounts counted so far are all known unless the snapshot tells     *)
(* otherwise, and it has told once the result is there.                    *)
MarksInv ==
  /\ \E n \in Nat : DOMAIN inputs = 1 .. n
  /\ next \in Nat \ {0}
  /\ DOMAIN snap = Fields
  /\ DOMAIN snap.unknown = {} /\ snap.partial = FALSE =>
       \A i \in DOMAIN inputs : i < next => QuotaIsKnown(inputs[i])
  /\ result # "counting" => next \notin DOMAIN inputs
  /\ result = "snapshot" => DOMAIN snap.unknown = {}

(* Adding to a map never leaves it empty.                                  *)
LEMMA AddedIsThere == ASSUME NEW f, NEW x, NEW n PROVE DOMAIN AddTo(f, x, n) # {}
  BY DEF AddTo

(* An observation other than an unresolved or unknown one needs a known    *)
(* quota.                                                                  *)
LEMMA KnownWhenCounted ==
  ASSUME NEW input, NEW obs \in Observations(input),
         obs.is # "unresolved", obs.is # "unknown"
  PROVE QuotaIsKnown(input)
<1>1. ASSUME NEW code \in input.code, obs = CodeObservation(code)
      PROVE QuotaIsKnown(input)
  BY <1>1 DEF CodeObservation, Unresolved, QuotaIsKnown
<1>2. ASSUME input.code = {}, NEW body \in input.body, obs \in BodyObservations(body)
      PROVE QuotaIsKnown(input)
  <2>1. BodyIsValid(body) /\ obs \in QuotaObservations(body)
    BY <1>2 DEF BodyObservations, Unresolved
  <2>2. NormalizePlan(body.plan) # <<>>
    BY <2>1 DEF QuotaObservations, Unresolved
  <2>3. CASE IsIgnored(body.plan, Ignored)
    BY <1>2, <2>1, <2>2, <2>3 DEF QuotaIsKnown
  <2>4. CASE ~IsIgnored(body.plan, Ignored)
    <3>1. MatchingRules(body.plan, Rules) # {}
      BY <2>1, <2>2, <2>4 DEF QuotaObservations, Unknown
    <3>2. PICK n \in MatchingRules(body.plan, Rules) :
            obs = IF HasWindow(body, Rules[n].window)
                    THEN Success(n, Remaining(WindowOf(body, Rules[n].window)) * Rules[n].weight)
                    ELSE Unresolved("missing_window")
      BY <2>1, <2>2, <2>4, <3>1 DEF QuotaObservations
    <3>3. HasWindow(body, Rules[n].window)
      BY <3>2 DEF Unresolved
    <3> QED
      BY <1>2, <2>1, <2>2, <3>3 DEF QuotaIsKnown
  <2> QED
    BY <2>3, <2>4
<1>3. obs # Unresolved("parse_error")
  BY DEF Unresolved
<1>4. CASE input.code # {}
  <2>1. PICK code \in input.code : obs = CodeObservation(code)
    BY <1>4 DEF Observations
  <2> QED
    BY <1>1, <2>1
<1>5. CASE input.code = {}
  <2>1. PICK body \in input.body : obs \in BodyObservations(body)
    BY <1>3, <1>5 DEF Observations
  <2> QED
    BY <1>2, <1>5, <2>1
<1> QED
  BY <1>4, <1>5

(* What counting an observation does to the marks of the snapshot.         *)
LEMMA CountedMarks ==
  ASSUME DOMAIN snap = Fields, NEW input, NEW obs \in Observations(input),
         NEW after, after = Counted(obs)
  PROVE /\ DOMAIN after = Fields
        /\ obs.is = "unresolved" => after.partial = TRUE /\ after.unknown = snap.unknown
        /\ obs.is = "unknown" => DOMAIN after.unknown # {} /\ after.partial = snap.partial
        /\ obs.is \notin {"unresolved", "unknown"} =>
             after.unknown = snap.unknown /\ after.partial = snap.partial
<1>1. obs.is \in {"nothing", "unknown", "unresolved", "terminal", "success"}
  <2>1. \A c : Terminal(c).is = "terminal" /\ Unresolved(c).is = "unresolved"
    BY DEF Terminal, Unresolved
  <2>2. \A p : Unknown(p).is = "unknown"
    BY DEF Unknown
  <2>3. \A n, a : Success(n, a).is = "success"
    BY DEF Success
  <2>4. Nothing.is = "nothing"
    BY DEF Nothing
  <2> HIDE DEF Terminal, Unresolved, Unknown, Success, Nothing
  <2>5. \A body : \A o \in QuotaObservations(body) :
          o.is \in {"nothing", "unknown", "unresolved", "terminal", "success"}
    BY <2>1, <2>2, <2>3, <2>4 DEF QuotaObservations
  <2>6. \A code : CodeObservation(code).is \in {"terminal", "unresolved"}
    BY <2>1 DEF CodeObservation
  <2>7. \A body : \A o \in BodyObservations(body) :
          o.is \in {"nothing", "unknown", "unresolved", "terminal", "success"}
    BY <2>1, <2>5 DEF BodyObservations
  <2>8. CASE input.code # {}
    <3>1. PICK code \in input.code : obs = CodeObservation(code)
      BY <2>8 DEF Observations
    <3> QED
      BY <2>6, <3>1
  <2>9. CASE input.code = {} /\ input.body # {}
    <3>1. PICK body \in input.body : obs \in BodyObservations(body)
      BY <2>9 DEF Observations
    <3> QED
      BY <2>7, <3>1
  <2>10. CASE input.code = {} /\ input.body = {}
    <3>1. obs = Unresolved("parse_error")
      BY <2>10 DEF Observations
    <3> QED
      BY <2>1, <3>1
  <2> QED
    BY <2>8, <2>9, <2>10
<1>2. CASE obs.is = "unresolved"
  BY <1>2 DEF Counted, CountUnresolved, Fields
<1>3. CASE obs.is = "unknown"
  BY <1>3, AddedIsThere DEF Counted, Fields
<1>4. CASE obs.is = "success"
  BY <1>4 DEF Counted, CountSuccess, Fields
<1>5. CASE obs.is = "terminal"
  BY <1>5 DEF Counted, Fields
<1>6. CASE obs.is = "nothing"
  BY <1>6 DEF Counted, Fields
<1> QED
  BY <1>1, <1>2, <1>3, <1>4, <1>5, <1>6

LEMMA CountKeepsMarks == ASSUME MarksInv, Count PROVE MarksInv'
<1>1. PICK obs \in Observations(inputs[next]) : snap' = Counted(obs)
  BY DEF Count
<1>2. /\ next \in DOMAIN inputs /\ next' = next + 1 /\ inputs' = inputs /\ result' = result
  BY DEF Count
<1>3. /\ DOMAIN snap' = Fields
      /\ obs.is = "unresolved" => snap'.partial = TRUE /\ snap'.unknown = snap.unknown
      /\ obs.is = "unknown" => DOMAIN snap'.unknown # {} /\ snap'.partial = snap.partial
      /\ obs.is \notin {"unresolved", "unknown"} =>
           snap'.unknown = snap.unknown /\ snap'.partial = snap.partial
  <2>1. DOMAIN snap = Fields
    BY DEF MarksInv
  <2> QED
    BY <1>1, <2>1, CountedMarks
<1>4. ASSUME DOMAIN snap'.unknown = {}, snap'.partial = FALSE,
             NEW i \in DOMAIN inputs, i < next + 1
      PROVE QuotaIsKnown(inputs[i])
  <2>1. obs.is \notin {"unresolved", "unknown"}
    BY <1>3, <1>4
  <2>2. CASE i = next
    BY <2>1, <2>2, KnownWhenCounted
  <2>3. CASE i # next
    <3>1. i < next
      BY <1>4, <2>3 DEF MarksInv
    <3> QED
      BY <1>3, <1>4, <2>1, <3>1 DEF MarksInv
  <2> QED
    BY <2>2, <2>3
<1>5. /\ \E n \in Nat : DOMAIN inputs' = 1 .. n
      /\ next' \in Nat \ {0}
      /\ result' = "counting"
  BY <1>2 DEF MarksInv
<1> QED
  BY <1>2, <1>3, <1>4, <1>5 DEF MarksInv

LEMMA CloseKeepsMarks == ASSUME MarksInv, Close PROVE MarksInv'
<1>1. /\ next \notin DOMAIN inputs /\ next' = next /\ inputs' = inputs
      /\ snap' = [snap EXCEPT !.total = Round4(@), !.byWindow = RoundAll(@),
                              !.byPlan = RoundAll(@)]
  BY DEF Close
<1>2. DOMAIN snap' = Fields /\ snap'.unknown = snap.unknown /\ snap'.partial = snap.partial
  BY <1>1 DEF MarksInv, Fields
<1>3. result' = "snapshot" => DOMAIN snap.unknown = {}
  BY DEF Close
<1> QED
  BY <1>1, <1>2, <1>3 DEF MarksInv

LEMMA MarksInitially == QuotaInit => MarksInv
<1> SUFFICES ASSUME QuotaInit PROVE MarksInv
  OBVIOUS
<1>1. PICK n \in 0 .. MaxAccounts : inputs \in [1 .. n -> Inputs]
  BY DEF QuotaInit
<1>2. DOMAIN inputs = 1 .. n /\ n \in Nat
  BY <1>1, QuotaAssumption
<1>3. next = 1 /\ result = "counting" /\ DOMAIN snap = Fields
  BY DEF QuotaInit, EmptySnapshot, Fields
<1> QED
  BY <1>2, <1>3 DEF MarksInv

(* A snapshot without the partial mark knows the quota of every account,   *)
(* for any number of accounts and whatever they replied.                   *)
THEOREM FullTotalsAreComplete == QuotaSpec => []FullTotalIsComplete
<1>1. MarksInv /\ [QuotaNext]_quotaVars => MarksInv'
  <2>1. ASSUME MarksInv, UNCHANGED quotaVars PROVE MarksInv'
    BY <2>1 DEF quotaVars, MarksInv
  <2> QED
    BY <2>1, CountKeepsMarks, CloseKeepsMarks DEF QuotaNext
<1>2. MarksInv => FullTotalIsComplete
  <2> SUFFICES ASSUME MarksInv, result = "snapshot", ~snap.partial, NEW i \in DOMAIN inputs
      PROVE QuotaIsKnown(inputs[i])
    BY DEF FullTotalIsComplete
  <2>1. i < next /\ DOMAIN snap.unknown = {}
    BY DEF MarksInv
  <2> QED
    BY <2>1 DEF MarksInv
<1> QED
  BY <1>1, <1>2, MarksInitially, PTL DEF QuotaSpec
-----------------------------------------------------------------------------
(* What an account is worth.                                               *)

LEMMA LastSlot ==
  ASSUME NEW S, S \subseteq 1 .. 6, S # {} PROVE Max(S) \in S
<1> DEFINE T == {n \in Nat : \E s \in S : n = 6 - s}
<1>1. \A s \in S : s \in Int /\ 6 - s \in Nat
  OBVIOUS
<1>2. T # {} /\ T \subseteq Nat
  BY <1>1
<1>3. PICK m \in T : \A n \in T : m <= n
  <2> HIDE DEF T
  <2> QED
    BY <1>2, Least
<1>4. PICK s \in S : m = 6 - s
  BY <1>3
<1>5. \A y \in S : s >= y
  <2> TAKE y \in S
  <2>1. 6 - y \in T
    BY <1>1
  <2> QED
    BY <1>1, <1>3, <1>4, <2>1
<1> QED
  BY <1>5 DEF Max

LEMMA RemainingIsNat ==
  ASSUME NEW raw, NEW fallback, WindowIsValid(raw, fallback) PROVE Remaining(raw) \in Nat
<1> DEFINE u == CHOOSE used \in Used(raw) : TRUE
<1>1. u \in Used(raw) /\ \A used \in Used(raw) : used \in 0 .. Full
  BY DEF WindowIsValid
<1>2. Remaining(raw) = (Full - u + 5) \div 10
  BY DEF Remaining
<1>3. Full \in Nat
  BY SMT DEF Full
<1> HIDE DEF u
<1> QED
  BY <1>1, <1>2, <1>3, SMT

LEMMA AmountIsNat ==
  ASSUME NEW input \in Inputs, NEW body \in input.body, BodyIsValid(body),
         NEW window, HasWindow(body, window)
  PROVE  Remaining(WindowOf(body, window)) \in Nat
<1>1. CASE DOMAIN body.slots = {}
  <2>1. WindowIsValid(body.whole, "none")
    BY <1>1 DEF BodyIsValid
  <2> QED
    BY <1>1, <2>1, RemainingIsNat DEF WindowOf
<1>2. CASE DOMAIN body.slots # {}
  <2> DEFINE S == SlotsOf(body, window)
  <2>1. S \subseteq 1 .. 6 /\ S # {} /\ S \subseteq DOMAIN body.slots
    BY <1>2, QuotaAssumption DEF SlotsOf, HasWindow
  <2> HIDE DEF S
  <2>2. Max(S) \in DOMAIN body.slots
    BY <2>1, LastSlot
  <2>3. WindowIsValid(body.slots[Max(S)], Fallback(Max(S)))
    BY <2>2 DEF BodyIsValid
  <2> QED
    BY <1>2, <2>3, RemainingIsNat DEF WindowOf, S
<1> QED
  BY <1>1, <1>2

(* What an observation may be.                                             *)
Kinded(obs) ==
  /\ obs.is \in {"nothing", "unknown", "unresolved", "terminal", "success"}
  /\ obs.is = "success" =>
       obs.plan \in DOMAIN Rules /\ obs.window \in Windows /\ obs.amount \in Nat

LEMMA KindsOfObservations ==
  /\ Kinded(Nothing) /\ Nothing.is = "nothing"
  /\ \A c : Kinded(Terminal(c)) /\ Terminal(c).is = "terminal"
  /\ \A c : Kinded(Unresolved(c)) /\ Unresolved(c).is = "unresolved"
  /\ \A p : Kinded(Unknown(p)) /\ Unknown(p).is = "unknown"
<1>1. Kinded(Nothing) /\ Nothing.is = "nothing"
  BY DEF Kinded, Nothing
<1>2. \A c : Kinded(Terminal(c)) /\ Terminal(c).is = "terminal"
  BY DEF Kinded, Terminal
<1>3. \A c : Kinded(Unresolved(c)) /\ Unresolved(c).is = "unresolved"
  BY DEF Kinded, Unresolved
<1>4. \A p : Kinded(Unknown(p)) /\ Unknown(p).is = "unknown"
  BY DEF Kinded, Unknown
<1> QED
  BY <1>1, <1>2, <1>3, <1>4

(* The observations of one body: a single case, but for the rule that fits.*)
LEMMA BodyKinded ==
  ASSUME NEW input \in Inputs, NEW body \in input.body, NEW obs \in BodyObservations(body)
  PROVE  /\ Kinded(obs)
         /\ obs.is = "nothing" => BodyObservations(body) = {Nothing}
         /\ (\A n, m \in MatchingRules(body.plan, Rules) : n = m) =>
              BodyObservations(body) = {obs}
<1>1. CASE ~BodyIsValid(body)
  <2>1. BodyObservations(body) = {Unresolved("parse_error")}
    BY <1>1 DEF BodyObservations
  <2> QED
    BY <2>1, KindsOfObservations
<1>2. CASE BodyIsValid(body)
  <2>1. BodyObservations(body) = QuotaObservations(body)
    BY <1>2 DEF BodyObservations
  <2>2. CASE NormalizePlan(body.plan) = <<>>
    <3>1. QuotaObservations(body) = {Unresolved("missing_plan")}
      BY <2>2 DEF QuotaObservations
    <3> QED
      BY <2>1, <3>1, KindsOfObservations
  <2>3. CASE NormalizePlan(body.plan) # <<>> /\ IsIgnored(body.plan, Ignored)
    <3>1. QuotaObservations(body) = {Nothing}
      BY <2>3 DEF QuotaObservations
    <3> QED
      BY <2>1, <3>1, KindsOfObservations
  <2> DEFINE fits == MatchingRules(body.plan, Rules)
             seen(n) == IF HasWindow(body, Rules[n].window)
                          THEN Success(n, Remaining(WindowOf(body, Rules[n].window)) * Rules[n].weight)
                          ELSE Unresolved("missing_window")
  <2>4. CASE /\ NormalizePlan(body.plan) # <<>> /\ ~IsIgnored(body.plan, Ignored)
             /\ fits = {}
    <3>1. QuotaObservations(body) = {Unknown(NormalizePlan(body.plan))}
      BY <2>4 DEF QuotaObservations
    <3> QED
      BY <2>1, <3>1, KindsOfObservations
  <2>5. CASE /\ NormalizePlan(body.plan) # <<>> /\ ~IsIgnored(body.plan, Ignored)
             /\ fits # {}
    <3>1. QuotaObservations(body) = {seen(n) : n \in fits}
      BY <2>5 DEF QuotaObservations
    <3>2. ASSUME NEW n \in fits PROVE Kinded(seen(n)) /\ seen(n).is # "nothing"
      <4>1. n \in DOMAIN Rules
        BY DEF MatchingRules
      <4>2. CASE HasWindow(body, Rules[n].window)
        <5> DEFINE a == Remaining(WindowOf(body, Rules[n].window))
        <5>1. a \in Nat
          BY <1>2, <4>2, AmountIsNat
        <5>2. Rules[n].weight \in Nat /\ Rules[n].window \in Windows
          BY <4>1, QuotaAssumption
        <5> HIDE DEF a
        <5>3. a * Rules[n].weight \in Nat
          BY <5>1, <5>2
        <5>4. Kinded(Success(n, a * Rules[n].weight)) /\ Success(n, a * Rules[n].weight).is # "nothing"
          BY <4>1, <5>2, <5>3 DEF Success, Kinded
        <5> QED
          BY <4>2, <5>4 DEF a
      <4>3. CASE ~HasWindow(body, Rules[n].window)
        BY <4>3, KindsOfObservations
      <4> QED
        BY <4>2, <4>3
    <3> HIDE DEF seen, fits
    <3>3. Kinded(obs) /\ obs.is # "nothing"
      BY <2>1, <3>1, <3>2
    <3>4. (\A n, m \in fits : n = m) => {seen(n) : n \in fits} = {obs}
      BY <2>1, <3>1
    <3> QED
      BY <2>1, <3>1, <3>3, <3>4 DEF fits
  <2> QED
    BY <2>2, <2>3, <2>4, <2>5
<1> QED
  BY <1>1, <1>2

(* No text of an input fits two rules: what RulesAreUnambiguous says of    *)
(* rules that were accepted.                                               *)
OneRuleEach ==
  \A input \in Inputs : \A body \in input.body :
    \A n, m \in MatchingRules(body.plan, Rules) : n = m

LEMMA Observed ==
  ASSUME NEW input \in Inputs
  PROVE  /\ Observations(input) # {}
         /\ \A obs \in Observations(input) :
              /\ Kinded(obs)
              /\ obs.is = "nothing" <=> Nothing \in Observations(input)
              /\ OneRuleEach => Observations(input) = {obs}
<1>1. CASE input.code # {}
  <2>1. PICK code \in input.code : TRUE
    BY <1>1
  <2>2. input.code = {code}
    BY QuotaAssumption
  <2>3. Observations(input) = {CodeObservation(code)}
    BY <2>2 DEF Observations
  <2>4. Kinded(CodeObservation(code)) /\ CodeObservation(code).is # "nothing"
    BY KindsOfObservations DEF CodeObservation
  <2> QED
    BY <2>3, <2>4, KindsOfObservations
<1>2. CASE input.code = {} /\ input.body = {}
  <2>1. Observations(input) = {Unresolved("parse_error")}
    BY <1>2 DEF Observations
  <2> QED
    BY <2>1, KindsOfObservations
<1>3. CASE input.code = {} /\ input.body # {}
  <2>1. PICK body \in input.body : TRUE
    BY <1>3
  <2>2. input.body = {body}
    BY QuotaAssumption
  <2>3. Observations(input) = BodyObservations(body)
    BY <1>3, <2>2 DEF Observations
  <2>4. BodyObservations(body) # {}
    BY DEF BodyObservations, QuotaObservations
  <2>5. OneRuleEach => \A n, m \in MatchingRules(body.plan, Rules) : n = m
    BY DEF OneRuleEach
  <2>6. \A obs \in BodyObservations(body) :
          /\ Kinded(obs)
          /\ obs.is = "nothing" => BodyObservations(body) = {Nothing}
          /\ (\A n, m \in MatchingRules(body.plan, Rules) : n = m) =>
               BodyObservations(body) = {obs}
    BY BodyKinded
  <2>7. Nothing \in BodyObservations(body) => BodyObservations(body) = {Nothing}
    BY <2>6, KindsOfObservations
  <2> HIDE DEF BodyObservations
  <2> QED
    BY <2>3, <2>4, <2>5, <2>6, <2>7, KindsOfObservations
<1> QED
  BY <1>1, <1>2, <1>3
-----------------------------------------------------------------------------
(* The sums of the snapshot.                                               *)

(* A map of the snapshot that values can be added to.                      *)
IsMap(f) == IsFiniteSet(DOMAIN f) /\ \A k \in DOMAIN f : f[k] \in Nat

LEMMA AddedMap ==
  ASSUME NEW f, IsMap(f), NEW key, NEW n \in Nat
  PROVE  /\ IsMap(AddTo(f, key, n))
         /\ DOMAIN AddTo(f, key, n) = DOMAIN f \cup {key}
         /\ SumFunction(f) \in Int
         /\ SumFunction(AddTo(f, key, n)) = SumFunction(f) + n
         /\ n # 0 /\ IsCount(f) => IsCount(AddTo(f, key, n))
<1> DEFINE g == AddTo(f, key, n)
<1>1. DOMAIN g = DOMAIN f \cup {key}
  BY DEF AddTo
<1>2. \A k \in DOMAIN g : g[k] \in Nat
  BY DEF AddTo, Amount, IsMap
<1>3. n # 0 /\ IsCount(f) => IsCount(g)
  BY DEF AddTo, Amount, IsMap, IsCount
<1>4. /\ IsFiniteSet(DOMAIN g) /\ SumFunction(f) \in Int
      /\ SumFunction(g) = SumFunction(f) + n
  BY SumOfAdded DEF IsMap
<1> QED
  BY <1>1, <1>2, <1>3, <1>4 DEF IsMap

(* The accounts counted so far that are not ignored.                       *)
CountedSoFar == {i \in 1 .. (next - 1) : Nothing \notin Observations(inputs[i])}

Counts ==
  SumFunction(snap.accounts) + SumFunction(snap.terminal)
    + SumFunction(snap.unresolved) + SumFunction(snap.unknown)

ShapeInv ==
  /\ inputs \in Seq(Inputs) /\ next \in 1 .. Len(inputs) + 1
  /\ DOMAIN snap = Fields
  /\ result # "counting" => next = Len(inputs) + 1
  /\ result \in {"counting", "snapshot", "plan_changed", "not_computable"}

MapsInv ==
  /\ snap.total \in Nat /\ snap.partial \in BOOLEAN
  /\ IsMap(snap.byWindow) /\ IsMap(snap.byPlan)
  /\ DOMAIN snap.byWindow \subseteq Windows /\ DOMAIN snap.byPlan \subseteq DOMAIN Rules
  /\ IsMap(snap.accounts) /\ IsMap(snap.terminal)
  /\ IsMap(snap.unresolved) /\ IsMap(snap.unknown)
  /\ IsCount(snap.accounts) /\ IsCount(snap.terminal)
  /\ IsCount(snap.unresolved) /\ IsCount(snap.unknown)

PartsInv ==
  /\ result = "counting" =>
       SumFunction(snap.byWindow) = snap.total /\ SumFunction(snap.byPlan) = snap.total
  /\ result # "counting" => AddsUp(snap.byWindow) /\ AddsUp(snap.byPlan)

CountsInv == Counts = Cardinality(CountedSoFar)

SumsInv == ShapeInv /\ MapsInv /\ PartsInv /\ CountsInv

(* What counting one observation adds.                                     *)
Gain(obs) == IF obs.is = "success" THEN obs.amount ELSE 0

Presence(obs) == IF obs.is = "nothing" THEN 0 ELSE 1

LEMMA GainIsNat == ASSUME NEW obs, Kinded(obs) PROVE Gain(obs) \in Nat
  BY DEF Gain, Kinded

LEMMA CountedAdds ==
  ASSUME DOMAIN snap = Fields, MapsInv, NEW obs, Kinded(obs), NEW after, after = Counted(obs)
  PROVE  /\ after.total = snap.total + Gain(obs)
         /\ after.total \in Nat /\ after.partial \in BOOLEAN
         /\ IsMap(after.byWindow) /\ IsMap(after.byPlan)
         /\ DOMAIN after.byWindow \subseteq Windows /\ DOMAIN after.byPlan \subseteq DOMAIN Rules
         /\ IsMap(after.accounts) /\ IsMap(after.terminal)
         /\ IsMap(after.unresolved) /\ IsMap(after.unknown)
         /\ IsCount(after.accounts) /\ IsCount(after.terminal)
         /\ IsCount(after.unresolved) /\ IsCount(after.unknown)
         /\ SumFunction(snap.byWindow) \in Int /\ SumFunction(snap.byPlan) \in Int
         /\ SumFunction(after.byWindow) = SumFunction(snap.byWindow) + Gain(obs)
         /\ SumFunction(after.byPlan) = SumFunction(snap.byPlan) + Gain(obs)
         /\ SumFunction(snap.accounts) \in Int /\ SumFunction(snap.terminal) \in Int
         /\ SumFunction(snap.unresolved) \in Int /\ SumFunction(snap.unknown) \in Int
         /\ SumFunction(after.accounts) + SumFunction(after.terminal)
              + SumFunction(after.unresolved) + SumFunction(after.unknown)
            = Counts + Presence(obs)
<1>0. /\ SumFunction(snap.byWindow) \in Int /\ SumFunction(snap.byPlan) \in Int
      /\ SumFunction(snap.accounts) \in Int /\ SumFunction(snap.terminal) \in Int
      /\ SumFunction(snap.unresolved) \in Int /\ SumFunction(snap.unknown) \in Int
  <2>1. \A f : IsMap(f) => SumFunction(f) \in Int
    BY AddedMap
  <2> QED
    BY <2>1 DEF MapsInv
<1>t. ASSUME NEW f, IsMap(f), IsCount(f), NEW key
      PROVE  /\ IsMap(AddTo(f, key, 1)) /\ IsCount(AddTo(f, key, 1))
             /\ SumFunction(AddTo(f, key, 1)) = SumFunction(f) + 1
  <2>1. 1 \in Nat /\ 1 # 0
    OBVIOUS
  <2> QED
    BY <1>t, <2>1, AddedMap
<1>1. CASE obs.is = "nothing"
  <2>1. after = snap /\ Gain(obs) = 0 /\ Presence(obs) = 0
    BY <1>1 DEF Counted, Gain, Presence
  <2> QED
    BY <1>0, <2>1 DEF MapsInv, Counts
<1>2. CASE obs.is = "unknown"
  <2> DEFINE g == AddTo(snap.unknown, obs.plan, 1)
  <2>1. after = [snap EXCEPT !.unknown = g]
    BY <1>2 DEF Counted
  <2>2. /\ IsMap(g) /\ IsCount(g) /\ SumFunction(g) = SumFunction(snap.unknown) + 1
    BY <1>t DEF MapsInv
  <2>3. Gain(obs) = 0 /\ Presence(obs) = 1
    BY <1>2 DEF Gain, Presence
  <2> HIDE DEF g
  <2>4. /\ after.unknown = g /\ after.total = snap.total /\ after.partial = snap.partial
        /\ after.byWindow = snap.byWindow /\ after.byPlan = snap.byPlan
        /\ after.accounts = snap.accounts /\ after.terminal = snap.terminal
        /\ after.unresolved = snap.unresolved
    BY <2>1 DEF Fields
  <2> QED
    BY <1>0, <2>2, <2>3, <2>4 DEF MapsInv, Counts
<1>3. CASE obs.is = "unresolved"
  <2> DEFINE g == AddTo(snap.unresolved, obs.code, 1)
  <2>1. after = [snap EXCEPT !.unresolved = g, !.partial = TRUE]
    BY <1>3 DEF Counted, CountUnresolved
  <2>2. /\ IsMap(g) /\ IsCount(g) /\ SumFunction(g) = SumFunction(snap.unresolved) + 1
    BY <1>t DEF MapsInv
  <2>3. Gain(obs) = 0 /\ Presence(obs) = 1
    BY <1>3 DEF Gain, Presence
  <2> HIDE DEF g
  <2>4. /\ after.unresolved = g /\ after.total = snap.total /\ after.partial \in BOOLEAN
        /\ after.byWindow = snap.byWindow /\ after.byPlan = snap.byPlan
        /\ after.accounts = snap.accounts /\ after.terminal = snap.terminal
        /\ after.unknown = snap.unknown
    BY <2>1 DEF Fields
  <2> QED
    BY <1>0, <2>2, <2>3, <2>4 DEF MapsInv, Counts
<1>4. CASE obs.is = "terminal"
  <2> DEFINE g == AddTo(snap.terminal, obs.code, 1)
  <2>1. after = [snap EXCEPT !.terminal = g]
    BY <1>4 DEF Counted
  <2>2. /\ IsMap(g) /\ IsCount(g) /\ SumFunction(g) = SumFunction(snap.terminal) + 1
    BY <1>t DEF MapsInv
  <2>3. Gain(obs) = 0 /\ Presence(obs) = 1
    BY <1>4 DEF Gain, Presence
  <2> HIDE DEF g
  <2>4. /\ after.terminal = g /\ after.total = snap.total /\ after.partial = snap.partial
        /\ after.byWindow = snap.byWindow /\ after.byPlan = snap.byPlan
        /\ after.accounts = snap.accounts /\ after.unresolved = snap.unresolved
        /\ after.unknown = snap.unknown
    BY <2>1 DEF Fields
  <2> QED
    BY <1>0, <2>2, <2>3, <2>4 DEF MapsInv, Counts
<1>5. CASE obs.is = "success"
  <2> DEFINE a == obs.amount
             w == AddTo(snap.byWindow, obs.window, a)
             p == AddTo(snap.byPlan, obs.plan, a)
             g == AddTo(snap.accounts, obs.plan, 1)
  <2>0. a \in Nat /\ obs.plan \in DOMAIN Rules /\ obs.window \in Windows
    BY <1>5 DEF Kinded
  <2>1. after = [snap EXCEPT !.total = @ + a, !.byWindow = w, !.byPlan = p, !.accounts = g]
    BY <1>5 DEF Counted, CountSuccess
  <2>2. /\ IsMap(w) /\ DOMAIN w = DOMAIN snap.byWindow \cup {obs.window}
        /\ SumFunction(w) = SumFunction(snap.byWindow) + a
    BY <2>0, AddedMap DEF MapsInv
  <2>3. /\ IsMap(p) /\ DOMAIN p = DOMAIN snap.byPlan \cup {obs.plan}
        /\ SumFunction(p) = SumFunction(snap.byPlan) + a
    BY <2>0, AddedMap DEF MapsInv
  <2>4. IsMap(g) /\ IsCount(g) /\ SumFunction(g) = SumFunction(snap.accounts) + 1
    BY <1>t DEF MapsInv
  <2>5. Gain(obs) = a /\ Presence(obs) = 1
    BY <1>5 DEF Gain, Presence
  <2> HIDE DEF g, w, p, a
  <2>6. /\ after.total = snap.total + a /\ after.partial = snap.partial
        /\ after.byWindow = w /\ after.byPlan = p /\ after.accounts = g
        /\ after.terminal = snap.terminal /\ after.unresolved = snap.unresolved
        /\ after.unknown = snap.unknown
    BY <2>1 DEF Fields
  <2> QED
    BY <1>0, <2>0, <2>2, <2>3, <2>4, <2>5, <2>6 DEF MapsInv, Counts
<1> QED
  BY <1>1, <1>2, <1>3, <1>4, <1>5 DEF Kinded

LEMMA SumsInitially == QuotaInit => SumsInv
<1> SUFFICES ASSUME QuotaInit PROVE SumsInv
  OBVIOUS
<1>1. PICK n \in 0 .. MaxAccounts : inputs \in [1 .. n -> Inputs]
  BY DEF QuotaInit
<1>2. n \in Nat
  BY <1>1, QuotaAssumption
<1>3. inputs \in Seq(Inputs) /\ Len(inputs) = n
  BY <1>1, <1>2
<1>4. /\ next = 1 /\ result = "counting"
      /\ snap = EmptySnapshot
  BY DEF QuotaInit
<1>5. ShapeInv
  BY <1>2, <1>3, <1>4 DEF ShapeInv, EmptySnapshot, Fields
<1> DEFINE none == <<>>
<1>6. IsMap(none) /\ IsCount(none) /\ DOMAIN none = {} /\ SumFunction(none) = 0
  <2>1. DOMAIN none = {}
    OBVIOUS
  <2> QED
    BY <2>1, FS_EmptySet, SumOfNone DEF IsMap, IsCount, SumFunction
<1>7. /\ snap.total = 0 /\ snap.partial \in BOOLEAN /\ snap.byWindow = none /\ snap.byPlan = none
      /\ snap.accounts = none /\ snap.terminal = none
      /\ snap.unresolved = none /\ snap.unknown = none
  BY <1>4 DEF EmptySnapshot
<1> HIDE DEF none
<1>8. MapsInv /\ PartsInv
  <2>1. MapsInv
    BY <1>6, <1>7 DEF MapsInv
  <2>2. PartsInv
    BY <1>4, <1>6, <1>7 DEF PartsInv
  <2> QED
    BY <2>1, <2>2
<1>9. CountsInv
  <2>1. CountedSoFar = {}
    BY <1>4 DEF CountedSoFar
  <2> QED
    BY <1>6, <1>7, <2>1, FS_EmptySet DEF CountsInv, Counts
<1> QED
  BY <1>5, <1>8, <1>9 DEF SumsInv

LEMMA CountKeepsSums == ASSUME SumsInv, Count PROVE SumsInv'
<1>1. PICK obs \in Observations(inputs[next]) : snap' = Counted(obs)
  BY DEF Count
<1>2. next \in DOMAIN inputs /\ next' = next + 1 /\ inputs' = inputs /\ result' = result
  BY DEF Count
<1>3. inputs[next] \in Inputs /\ next \in 1 .. Len(inputs) /\ Len(inputs) \in Nat
  BY <1>2 DEF SumsInv, ShapeInv
<1>4. Kinded(obs) /\ (obs.is = "nothing" <=> Nothing \in Observations(inputs[next]))
  BY <1>3, Observed
<1>5. DOMAIN snap = Fields /\ MapsInv
  BY DEF SumsInv, ShapeInv
<1>6. DOMAIN snap' = Fields
  BY <1>1, <1>5, CountedMarks
<1>7. result = "counting"
  BY <1>3 DEF SumsInv, ShapeInv
<1>8. ShapeInv'
  BY <1>2, <1>3, <1>6, <1>7 DEF SumsInv, ShapeInv
<1> DEFINE after == snap'
<1>9. after = Counted(obs)
  BY <1>1
<1> HIDE DEF after
<1>10. MapsInv'
  <2>1. /\ after.total \in Nat /\ after.partial \in BOOLEAN
        /\ IsMap(after.byWindow) /\ IsMap(after.byPlan)
        /\ DOMAIN after.byWindow \subseteq Windows /\ DOMAIN after.byPlan \subseteq DOMAIN Rules
        /\ IsMap(after.accounts) /\ IsMap(after.terminal)
        /\ IsMap(after.unresolved) /\ IsMap(after.unknown)
        /\ IsCount(after.accounts) /\ IsCount(after.terminal)
        /\ IsCount(after.unresolved) /\ IsCount(after.unknown)
    BY <1>4, <1>5, <1>9, CountedAdds
  <2> QED
    BY <2>1 DEF MapsInv, after
<1>11. PartsInv'
  <2>1. /\ after.total = snap.total + Gain(obs)
        /\ SumFunction(after.byWindow) = SumFunction(snap.byWindow) + Gain(obs)
        /\ SumFunction(after.byPlan) = SumFunction(snap.byPlan) + Gain(obs)
    BY <1>4, <1>5, <1>9, CountedAdds
  <2>2. SumFunction(snap.byWindow) = snap.total /\ SumFunction(snap.byPlan) = snap.total
    BY <1>7 DEF SumsInv, PartsInv
  <2>3. SumFunction(after.byWindow) = after.total /\ SumFunction(after.byPlan) = after.total
    BY <2>1, <2>2
  <2> QED
    BY <1>2, <1>7, <2>3 DEF PartsInv, after
<1>12. CountsInv'
  <2>1. /\ Counts \in Int
        /\ SumFunction(after.accounts) + SumFunction(after.terminal)
             + SumFunction(after.unresolved) + SumFunction(after.unknown)
           = Counts + Presence(obs)
    <3>1. /\ SumFunction(snap.accounts) \in Int /\ SumFunction(snap.terminal) \in Int
          /\ SumFunction(snap.unresolved) \in Int /\ SumFunction(snap.unknown) \in Int
      BY <1>4, <1>5, <1>9, CountedAdds
    <3>2. SumFunction(after.accounts) + SumFunction(after.terminal)
             + SumFunction(after.unresolved) + SumFunction(after.unknown)
           = Counts + Presence(obs)
      BY <1>4, <1>5, <1>9, CountedAdds
    <3> QED
      BY <3>1, <3>2 DEF Counts
  <2> DEFINE old == CountedSoFar
             new == {i \in 1 .. next : Nothing \notin Observations(inputs[i])}
  <2>2. IsFiniteSet(old) /\ next \notin old
    <3>1. old \in SUBSET (1 .. (next - 1))
      BY DEF CountedSoFar
    <3>2. next \notin 1 .. (next - 1) /\ 1 \in Int /\ next - 1 \in Int
      BY <1>3
    <3>3. IsFiniteSet(1 .. (next - 1))
      BY <3>2, FS_Interval
    <3> QED
      BY <3>1, <3>2, <3>3, FS_Subset
  <2>3. 1 .. next = (1 .. (next - 1)) \cup {next}
    BY <1>3
  <2>4. Cardinality(new) = Cardinality(old) + Presence(obs)
    <3>1. CASE obs.is = "nothing"
      <4>1. new = old
        BY <1>4, <2>3, <3>1 DEF CountedSoFar
      <4>2. Cardinality(old) \in Nat /\ Presence(obs) = 0
        BY <2>2, <3>1, FS_CardinalityType DEF Presence
      <4> QED
        BY <4>1, <4>2
    <3>2. CASE obs.is # "nothing"
      <4>1. new = old \cup {next}
        BY <1>4, <2>3, <3>2 DEF CountedSoFar
      <4>2. Presence(obs) = 1
        BY <3>2 DEF Presence
      <4> QED
        BY <2>2, <4>1, <4>2, FS_AddElement
    <3> QED
      BY <3>1, <3>2
  <2>5. CountedSoFar' = new
    <3>1. next' - 1 = next
      BY <1>2, <1>3
    <3> QED
      BY <1>2, <3>1 DEF CountedSoFar
  <2>6. Counts' = SumFunction(after.accounts) + SumFunction(after.terminal)
                    + SumFunction(after.unresolved) + SumFunction(after.unknown)
    BY DEF Counts, after
  <2>7. Counts = Cardinality(old)
    BY DEF SumsInv, CountsInv
  <2> HIDE DEF old, new
  <2> QED
    BY <2>1, <2>4, <2>5, <2>6, <2>7 DEF CountsInv
<1> QED
  BY <1>8, <1>10, <1>11, <1>12 DEF SumsInv

LEMMA RoundedMap ==
  ASSUME NEW f, IsMap(f)
  PROVE  /\ IsMap(RoundAll(f)) /\ DOMAIN RoundAll(f) = DOMAIN f
         /\ SumFunction(f) \in Int
         /\ Round4(SumFunction(f)) - SumFunction(RoundAll(f))
              \in -(50 * (Cardinality(DOMAIN f) + 1)) .. 50 * (Cardinality(DOMAIN f) + 1)
<1> DEFINE g == RoundAll(f)
           c == Cardinality(DOMAIN f)
           s == SumFunction(f)
           t == SumFunction(g)
<1>1. DOMAIN g = DOMAIN f /\ \A k \in DOMAIN f : g[k] = Round4(f[k])
  BY DEF RoundAll
<1>2. \A n \in Nat : Round4(n) \in Nat
  BY DEF Round4
<1>3. IsMap(g)
  BY <1>1, <1>2 DEF IsMap
<1>4. c \in Nat /\ s \in Int /\ t \in Int /\ t - s \in -(50 * c) .. 50 * c
  BY SumOfRounded DEF IsMap
<1>5. Round4(s) \in Int /\ Round4(s) - s \in -50 .. 50
  BY <1>4, RoundIsClose
<1> HIDE DEF c, s, t, g
<1>6. Round4(s) - t \in -(50 * (c + 1)) .. 50 * (c + 1)
  BY <1>4, <1>5
<1> QED
  BY <1>1, <1>3, <1>4, <1>6 DEF c, s, t, g

LEMMA CloseKeepsSums == ASSUME SumsInv, Close PROVE SumsInv'
<1>1. /\ next \notin DOMAIN inputs /\ next' = next /\ inputs' = inputs
      /\ result = "counting"
      /\ result' \in {"plan_changed", "not_computable", "snapshot"}
      /\ snap' = [snap EXCEPT !.total = Round4(@), !.byWindow = RoundAll(@),
                              !.byPlan = RoundAll(@)]
  BY DEF Close
<1>2. DOMAIN snap = Fields /\ next = Len(inputs) + 1
  BY <1>1 DEF SumsInv, ShapeInv
<1>3. /\ snap'.total = Round4(snap.total) /\ snap'.partial = snap.partial
      /\ snap'.byWindow = RoundAll(snap.byWindow) /\ snap'.byPlan = RoundAll(snap.byPlan)
      /\ snap'.accounts = snap.accounts /\ snap'.terminal = snap.terminal
      /\ snap'.unresolved = snap.unresolved /\ snap'.unknown = snap.unknown
      /\ DOMAIN snap' = Fields
  BY <1>1, <1>2 DEF Fields
<1>4. IsMap(snap.byWindow) /\ IsMap(snap.byPlan) /\ snap.total \in Nat
  BY DEF SumsInv, MapsInv
<1>5. SumFunction(snap.byWindow) = snap.total /\ SumFunction(snap.byPlan) = snap.total
  BY <1>1 DEF SumsInv, PartsInv
<1>6. ShapeInv'
  BY <1>1, <1>2, <1>3 DEF SumsInv, ShapeInv
<1>7. MapsInv'
  <2>1. /\ IsMap(snap'.byWindow) /\ DOMAIN snap'.byWindow = DOMAIN snap.byWindow
        /\ IsMap(snap'.byPlan) /\ DOMAIN snap'.byPlan = DOMAIN snap.byPlan
    BY <1>3, <1>4, RoundedMap
  <2>2. snap'.total \in Nat
    BY <1>3, <1>4 DEF Round4
  <2> QED
    BY <1>3, <2>1, <2>2 DEF SumsInv, MapsInv
<1>8. PartsInv'
  <2> DEFINE slack(f) == 50 * (Cardinality(DOMAIN f) + 1)
  <2>1. ASSUME NEW f, IsMap(f), SumFunction(f) = snap.total, NEW g, g = RoundAll(f)
        PROVE snap'.total - SumFunction(g) \in -slack(g) .. slack(g)
    <3>1. DOMAIN g = DOMAIN f
      BY <2>1, RoundedMap
    <3>2. Round4(SumFunction(f)) - SumFunction(g) \in -slack(f) .. slack(f)
      BY <2>1, RoundedMap
    <3> QED
      BY <1>3, <2>1, <3>1, <3>2
  <2>2. snap'.total - SumFunction(snap'.byWindow) \in -slack(snap'.byWindow) .. slack(snap'.byWindow)
    BY <1>3, <1>4, <1>5, <2>1
  <2>3. snap'.total - SumFunction(snap'.byPlan) \in -slack(snap'.byPlan) .. slack(snap'.byPlan)
    BY <1>3, <1>4, <1>5, <2>1
  <2>4. AddsUp(snap.byWindow)' /\ AddsUp(snap.byPlan)'
    BY <2>2, <2>3 DEF AddsUp
  <2>5. result' # "counting"
    BY <1>1
  <2> QED
    BY <2>4, <2>5 DEF PartsInv
<1>9. CountsInv'
  BY <1>1, <1>3 DEF SumsInv, CountsInv, Counts, CountedSoFar
<1> QED
  BY <1>6, <1>7, <1>8, <1>9 DEF SumsInv

LEMMA SumsHold == QuotaSpec => []SumsInv
<1>1. SumsInv /\ [QuotaNext]_quotaVars => SumsInv'
  <2>1. ASSUME SumsInv, UNCHANGED quotaVars PROVE SumsInv'
    BY <2>1 DEF quotaVars, SumsInv, ShapeInv, MapsInv, PartsInv, CountsInv, Counts,
                CountedSoFar, AddsUp
  <2> QED
    BY <2>1, CountKeepsSums, CloseKeepsSums DEF QuotaNext
<1> QED
  BY <1>1, SumsInitially, PTL DEF QuotaSpec

(* The snapshot adds up: every account that is not ignored is in exactly   *)
(* one of the counts, and the totals of the windows and of the plans sum   *)
(* to the total but for the rounding.                                      *)
THEOREM SnapshotsAddUp == QuotaSpec => []SnapshotAddsUp
<1>1. SumsInv => SnapshotAddsUp
  <2> SUFFICES ASSUME SumsInv PROVE SnapshotAddsUp
    OBVIOUS
  <2>1. QuotaTypeOK
    BY DEF SumsInv, ShapeInv, MapsInv, IsMap, QuotaTypeOK
  <2>2. EveryAccountIsCounted
    <3> SUFFICES ASSUME result # "counting"
        PROVE Counts = Cardinality({i \in DOMAIN inputs : Nothing \notin Observations(inputs[i])})
      BY DEF EveryAccountIsCounted, Counts
    <3>1. DOMAIN inputs = 1 .. (next - 1)
      BY DEF SumsInv, ShapeInv
    <3> QED
      BY <3>1 DEF SumsInv, CountsInv, CountedSoFar
  <2>3. BreakdownsAddUp
    BY DEF SumsInv, PartsInv, BreakdownsAddUp
  <2> QED
    BY <2>1, <2>2, <2>3 DEF SnapshotAddsUp
<1> QED
  BY <1>1, SumsHold, PTL
-----------------------------------------------------------------------------
(* The total as a lower bound.                                             *)

LEMMA WorthOfInput ==
  ASSUME NEW input \in Inputs
  PROVE  /\ Worth(input) \in Nat
         /\ ~QuotaIsKnown(input) => Worth(input) = 0
         /\ OneRuleEach => \A obs \in Observations(input) : Worth(input) = Gain(obs)
<1> DEFINE o == CHOOSE obs \in Observations(input) : TRUE
<1>1. o \in Observations(input) /\ Kinded(o)
  BY Observed
<1>2. Worth(input) = Gain(o)
  BY DEF Worth, Gain
<1>3. OneRuleEach => \A obs \in Observations(input) : obs = o
  BY <1>1, Observed
<1> HIDE DEF o
<1>4. ~QuotaIsKnown(input) => Gain(o) = 0
  BY <1>1, KnownWhenCounted DEF Gain
<1> QED
  BY <1>1, <1>2, <1>3, <1>4, GainIsNat

Worths == [i \in DOMAIN inputs |-> Worth(inputs[i])]

TotalInv ==
  /\ result = "counting" => snap.total = SumFunctionOnSet(Worths, 1 .. (next - 1))
  /\ result # "counting" => snap.total = Round4(SumFunction(Worths))

LEMMA TotalInitially == QuotaInit => TotalInv
<1> SUFFICES ASSUME QuotaInit PROVE TotalInv
  OBVIOUS
<1>1. snap.total = 0 /\ next = 1 /\ result = "counting" /\ 1 .. (next - 1) = {}
  BY DEF QuotaInit, EmptySnapshot
<1> QED
  BY <1>1, SumOfNone DEF TotalInv

LEMMA CountKeepsTotal ==
  ASSUME OneRuleEach, SumsInv, TotalInv, Count PROVE TotalInv'
<1>1. PICK obs \in Observations(inputs[next]) : snap' = Counted(obs)
  BY DEF Count
<1>2. next \in DOMAIN inputs /\ next' = next + 1 /\ inputs' = inputs /\ result' = result
  BY DEF Count
<1>3. /\ inputs \in Seq(Inputs) /\ next \in 1 .. Len(inputs) /\ Len(inputs) \in Nat
      /\ result = "counting" /\ DOMAIN snap = Fields /\ MapsInv
  BY <1>2 DEF SumsInv, ShapeInv
<1>4. \A i \in DOMAIN inputs : Worths[i] = Worth(inputs[i]) /\ inputs[i] \in Inputs
  BY <1>3 DEF Worths
<1>5. Kinded(obs) /\ Worth(inputs[next]) = Gain(obs)
  BY <1>2, <1>4, Observed, WorthOfInput
<1>6. snap'.total = snap.total + Gain(obs)
  BY <1>1, <1>3, <1>5, CountedAdds
<1>7. \A i \in 1 .. next : Worths[i] \in Int
  BY <1>3, <1>4, WorthOfInput
<1>8. SumFunctionOnSet(Worths, 1 .. next) = SumFunctionOnSet(Worths, 1 .. (next - 1)) + Worths[next]
  BY <1>3, <1>7, SumOfNext
<1>9. Worths' = Worths /\ next' - 1 = next
  BY <1>2, <1>3 DEF Worths
<1> HIDE DEF Worths
<1> QED
  BY <1>2, <1>3, <1>4, <1>5, <1>6, <1>8, <1>9 DEF TotalInv

LEMMA CloseKeepsTotal == ASSUME SumsInv, TotalInv, Close PROVE TotalInv'
<1>1. /\ next \notin DOMAIN inputs /\ inputs' = inputs /\ result = "counting"
      /\ result' # "counting"
      /\ snap' = [snap EXCEPT !.total = Round4(@), !.byWindow = RoundAll(@),
                              !.byPlan = RoundAll(@)]
  BY DEF Close
<1>2. snap'.total = Round4(snap.total)
  BY <1>1 DEF SumsInv, ShapeInv, Fields
<1>3. DOMAIN Worths = 1 .. (next - 1)
  BY <1>1 DEF SumsInv, ShapeInv, Worths
<1>4. Worths' = Worths
  BY <1>1 DEF Worths
<1> HIDE DEF Worths
<1> QED
  BY <1>1, <1>2, <1>3, <1>4 DEF TotalInv, SumFunction

(* A partial total is a lower bound: had the accounts without a usable     *)
(* answer answered anything, the total would not have been smaller.        *)
(* Assumed is that no plan text fits two rules; with two rules for one     *)
(* text, which of them counts is not determined.                           *)
THEOREM PartialTotalsAreLowerBounds ==
  OneRuleEach => (QuotaSpec => []PartialIsALowerBound)
<1> SUFFICES ASSUME OneRuleEach PROVE QuotaSpec => []PartialIsALowerBound
  OBVIOUS
<1> DEFINE Inv == SumsInv /\ TotalInv
<1>1. QuotaInit => Inv
  BY SumsInitially, TotalInitially
<1>2. Inv /\ [QuotaNext]_quotaVars => Inv'
  <2> SUFFICES ASSUME SumsInv, TotalInv, [QuotaNext]_quotaVars PROVE SumsInv' /\ TotalInv'
    OBVIOUS
  <2>1. CASE UNCHANGED quotaVars
    BY <2>1 DEF quotaVars, SumsInv, ShapeInv, MapsInv, PartsInv, CountsInv, Counts,
                CountedSoFar, AddsUp, TotalInv, Worths
  <2>2. CASE Count
    BY <2>2, CountKeepsSums, CountKeepsTotal
  <2>3. CASE Close
    BY <2>3, CloseKeepsSums, CloseKeepsTotal
  <2> QED
    BY <2>1, <2>2, <2>3 DEF QuotaNext
<1>3. Inv => PartialIsALowerBound
  <2> DEFINE missing == {i \in DOMAIN inputs : ~QuotaIsKnown(inputs[i])}
             other(late) ==
               [i \in DOMAIN inputs |-> Worth(IF i \in missing THEN late[i] ELSE inputs[i])]
  <2> SUFFICES ASSUME SumsInv, TotalInv, result = "snapshot", NEW late \in [missing -> Inputs]
               PROVE  snap.total <= Round4(SumFunction(other(late)))
    BY DEF PartialIsALowerBound
  <2>1. snap.total = Round4(SumFunction(Worths))
    BY DEF TotalInv
  <2>2. inputs \in Seq(Inputs) /\ DOMAIN inputs = 1 .. Len(inputs) /\ Len(inputs) \in Int
    BY DEF SumsInv, ShapeInv
  <2>3. IsFiniteSet(DOMAIN inputs)
    BY <2>2, FS_Interval
  <2> DEFINE g == other(late)
  <2>4. DOMAIN g = DOMAIN inputs /\ DOMAIN Worths = DOMAIN inputs
    BY DEF Worths
  <2>5. ASSUME NEW i \in DOMAIN inputs
        PROVE Worths[i] \in Int /\ g[i] \in Int /\ Worths[i] <= g[i]
    <3>1. inputs[i] \in Inputs /\ Worths[i] = Worth(inputs[i])
      BY <2>2 DEF Worths
    <3>2. CASE i \in missing
      <4>1. late[i] \in Inputs /\ g[i] = Worth(late[i])
        BY <3>2
      <4>2. Worth(inputs[i]) = 0
        BY <3>1, <3>2, WorthOfInput
      <4>3. Worth(late[i]) \in Nat
        BY <4>1, WorthOfInput
      <4> QED
        BY <3>1, <4>1, <4>2, <4>3
    <3>3. CASE i \notin missing
      <4>1. g[i] = Worth(inputs[i])
        BY <3>3
      <4>2. Worth(inputs[i]) \in Nat
        BY <3>1, WorthOfInput
      <4> QED
        BY <3>1, <4>1, <4>2
    <3> QED
      BY <3>2, <3>3
  <2> HIDE DEF g, Worths
  <2>6. /\ SumFunction(Worths) <= SumFunction(g)
        /\ SumFunction(Worths) \in Int /\ SumFunction(g) \in Int
    BY <2>3, <2>4, <2>5, SumIsMonotone, SumIsInt DEF SumFunction
  <2>7. Round4(SumFunction(Worths)) <= Round4(SumFunction(g))
    BY <2>6, RoundIsMonotone
  <2> QED
    BY <2>1, <2>7 DEF g
<1> HIDE DEF Inv
<1> QED
  BY <1>1, <1>2, <1>3, PTL DEF QuotaSpec
-----------------------------------------------------------------------------
(* Filling in a template.                                                  *)

(* What a token becomes.                                                   *)
Fill(token, k) == IF token \in Placeholders THEN ValueOf(token, k) ELSE <<token>>

(* The prefixes of the filled text.                                        *)
IsFilling(f, text, k, n) ==
  f = [i \in 0 .. n |-> IF i = 0 THEN <<>> ELSE f[i - 1] \o Fill(text[i], k)]

Filling(text, k) == CHOOSE f : IsFilling(f, text, k, Len(text))

LEMMA FillingExists ==
  ASSUME NEW text, NEW k, NEW n \in Nat PROVE \E f : IsFilling(f, text, k, n)
<1> DEFINE T == {m \in Nat : ~\E f : IsFilling(f, text, k, m)}
<1>1. ASSUME T # {} PROVE FALSE
  <2>1. PICK m \in T : \A j \in T : m <= j
    BY <1>1, Least
  <2>2. m # 0
    <3> DEFINE f == [i \in 0 .. 0 |-> <<>>]
    <3>1. IsFilling(f, text, k, 0)
      BY DEF IsFilling
    <3> QED
      BY <3>1
  <2>3. m - 1 \in Nat /\ m - 1 \notin T
    BY <2>1, <2>2
  <2>4. PICK f : IsFilling(f, text, k, m - 1)
    BY <2>3
  <2> DEFINE g == [i \in 0 .. m |-> IF i = m THEN f[m - 1] \o Fill(text[m], k) ELSE f[i]]
  <2>5. \A i \in 0 .. m : g[i] = IF i = 0 THEN <<>> ELSE g[i - 1] \o Fill(text[i], k)
    BY <2>1, <2>2, <2>4 DEF IsFilling
  <2>6. IsFilling(g, text, k, m)
    <3> HIDE DEF g
    <3>1. g = [i \in 0 .. m |-> g[i]]
      BY DEF g
    <3> QED
      BY <2>5, <3>1 DEF IsFilling
  <2> QED
    BY <2>1, <2>6
<1> QED
  BY <1>1

(* Filled is the last of the prefixes.                                     *)
LEMMA FilledIsFilling ==
  ASSUME NEW text, NEW k, Len(text) \in Nat
  PROVE  /\ IsFilling(Filling(text, k), text, k, Len(text))
         /\ Filled(text, k) = Filling(text, k)[Len(text)]
<1>1. IsFilling(Filling(text, k), text, k, Len(text))
  BY FillingExists DEF Filling
<1>2. Filled(text, k) = Filling(text, k)[Len(text)]
  BY DEF Filled, Filling, IsFilling, Fill
<1> QED
  BY <1>1, <1>2

AllTokens == {"word", Unlisted} \cup Spaces \cup Placeholders

LEMMA TextsAreSequences == Texts = Seq(AllTokens)
  BY DEF Texts, AllTokens

(* The tokens of two texts in a row are those of both, ...                 *)
LEMMA TokensJoin ==
  ASSUME NEW a \in Texts, NEW b \in Texts, NEW X
  PROVE  HasToken(a \o b, X) <=> HasToken(a, X) \/ HasToken(b, X)
<1>1. a \in Seq(AllTokens) /\ b \in Seq(AllTokens)
  BY TextsAreSequences
<1>2. /\ Len(a) \in Nat /\ Len(b) \in Nat
      /\ DOMAIN a = 1 .. Len(a) /\ DOMAIN b = 1 .. Len(b)
      /\ DOMAIN (a \o b) = 1 .. Len(a) + Len(b)
      /\ \A i \in 1 .. Len(a) + Len(b) :
           (a \o b)[i] = IF i <= Len(a) THEN a[i] ELSE b[i - Len(a)]
  BY <1>1
<1>3. ASSUME HasToken(a \o b, X) PROVE HasToken(a, X) \/ HasToken(b, X)
  <2>1. PICK i \in 1 .. Len(a) + Len(b) : (a \o b)[i] \in X
    BY <1>2, <1>3 DEF HasToken
  <2>2. CASE i <= Len(a)
    BY <1>2, <2>1, <2>2 DEF HasToken
  <2>3. CASE ~(i <= Len(a))
    <3>1. i - Len(a) \in 1 .. Len(b) /\ b[i - Len(a)] \in X
      BY <1>2, <2>1, <2>3
    <3> QED
      BY <1>2, <3>1 DEF HasToken
  <2> QED
    BY <2>2, <2>3
<1>4. ASSUME HasToken(a, X) PROVE HasToken(a \o b, X)
  <2>1. PICK i \in 1 .. Len(a) : a[i] \in X
    BY <1>2, <1>4 DEF HasToken
  <2>2. i \in 1 .. Len(a) + Len(b) /\ (a \o b)[i] = a[i]
    BY <1>2
  <2> QED
    BY <1>2, <2>1, <2>2 DEF HasToken
<1>5. ASSUME HasToken(b, X) PROVE HasToken(a \o b, X)
  <2>1. PICK i \in 1 .. Len(b) : b[i] \in X
    BY <1>2, <1>5 DEF HasToken
  <2> DEFINE j == i + Len(a)
  <2>2. j \in 1 .. Len(a) + Len(b) /\ (a \o b)[j] = b[i]
    BY <1>2
  <2> QED
    BY <1>2, <2>1, <2>2 DEF HasToken
<1> QED
  BY <1>3, <1>4, <1>5

(* ... and no CR is left between them.                                     *)
LEMMA CRsJoin ==
  ASSUME NEW a \in Texts, NEW b \in Texts, HasCR(a \o b)
  PROVE  HasCR(a) \/ HasCR(b)
<1>1. a \in Seq(AllTokens) /\ b \in Seq(AllTokens)
  BY TextsAreSequences
<1>2. /\ Len(a) \in Nat /\ Len(b) \in Nat /\ Len(a \o b) = Len(a) + Len(b)
      /\ DOMAIN a = 1 .. Len(a) /\ DOMAIN b = 1 .. Len(b)
      /\ DOMAIN (a \o b) = 1 .. Len(a) + Len(b)
      /\ \A i \in 1 .. Len(a) + Len(b) :
           (a \o b)[i] = IF i <= Len(a) THEN a[i] ELSE b[i - Len(a)]
  BY <1>1
<1>3. PICK i \in 1 .. Len(a) + Len(b) :
        (a \o b)[i] = "CR" /\ (i < Len(a) + Len(b) => (a \o b)[i + 1] # "LF")
  BY <1>2 DEF HasCR
<1>4. CASE i <= Len(a)
  <2>1. i \in 1 .. Len(a) /\ a[i] = "CR" /\ (i < Len(a) => a[i + 1] # "LF")
    <3>1. ASSUME i < Len(a) PROVE a[i + 1] # "LF"
      <4>1. i + 1 \in 1 .. Len(a) + Len(b) /\ i + 1 <= Len(a)
        BY <1>2, <3>1
      <4>2. (a \o b)[i + 1] = a[i + 1]
        BY <1>2, <4>1
      <4> QED
        BY <1>2, <1>3, <3>1, <4>2
    <3> QED
      BY <1>2, <1>3, <1>4, <3>1
  <2> QED
    BY <1>2, <2>1 DEF HasCR
<1>5. CASE ~(i <= Len(a))
  <2> DEFINE j == i - Len(a)
  <2>1. j \in 1 .. Len(b) /\ b[j] = "CR"
    BY <1>2, <1>3, <1>5
  <2>2. ASSUME j < Len(b) PROVE b[j + 1] # "LF"
    <3>1. i + 1 \in 1 .. Len(a) + Len(b) /\ ~(i + 1 <= Len(a)) /\ i + 1 - Len(a) = j + 1
      BY <1>2, <1>5, <2>2
    <3>2. (a \o b)[i + 1] = b[j + 1]
      BY <1>2, <3>1
    <3> QED
      BY <1>2, <1>3, <2>2, <3>2
  <2> QED
    BY <1>2, <2>1, <2>2 DEF HasCR
<1> QED
  BY <1>4, <1>5

-----------------------------------------------------------------------------
(* What a placeholder may become.                                          *)
LEMMA ValueTypes ==
  ASSUME plans \in PlanLists, NEW token, NEW k
  PROVE  ValueOf(token, k) \in {<<>>, <<"word">>, plans}
  BY DEF ValueOf

LEMMA FillTypes ==
  ASSUME plans \in PlanLists, NEW token \in AllTokens, NEW k
  PROVE  Fill(token, k) \in Texts
<1>1. {"word", "LF", "CR"} \subseteq AllTokens
  BY DEF AllTokens, Spaces
<1>2. plans \in Seq(AllTokens)
  <2>1. <<"word">> \in Seq(AllTokens) /\ <<>> \in Seq(AllTokens)
    BY <1>1
  <2>2. <<"word", "LF", "word">> \in Seq(AllTokens)
    BY <1>1
  <2>3. <<"word", "CR", "word">> \in Seq(AllTokens)
    BY <1>1
  <2>4. <<"word", "CR", "LF", "word">> \in Seq(AllTokens)
    BY <1>1
  <2> QED
    BY <2>1, <2>2, <2>3, <2>4 DEF PlanLists
<1>3. <<>> \in Seq(AllTokens) /\ <<"word">> \in Seq(AllTokens) /\ <<token>> \in Seq(AllTokens)
  BY <1>1
<1> QED
  BY <1>2, <1>3, ValueTypes, TextsAreSequences DEF Fill

(* A filled text is a text, whose tokens come from what its tokens became; *)
(* all of them are there, and a CR is left only where one was put in.      *)
LEMMA FilledTokens ==
  ASSUME plans \in PlanLists, NEW text \in Texts, NEW k
  PROVE  /\ Filled(text, k) \in Texts
         /\ \A X : HasToken(Filled(text, k), X) <=>
                     \E i \in DOMAIN text : HasToken(Fill(text[i], k), X)
         /\ HasCR(Filled(text, k)) => \E i \in DOMAIN text : HasCR(Fill(text[i], k))
<1> DEFINE f == Filling(text, k)
           Right(n) == /\ f[n] \in Texts
                       /\ \A X : HasToken(f[n], X) <=>
                                   \E i \in 1 .. n : HasToken(Fill(text[i], k), X)
                       /\ HasCR(f[n]) => \E i \in 1 .. n : HasCR(Fill(text[i], k))
<1>1. Len(text) \in Nat /\ DOMAIN text = 1 .. Len(text)
      /\ \A i \in 1 .. Len(text) : text[i] \in AllTokens
  BY TextsAreSequences
<1>2. /\ \A i \in 0 .. Len(text) : f[i] = IF i = 0 THEN <<>> ELSE f[i - 1] \o Fill(text[i], k)
      /\ Filled(text, k) = f[Len(text)]
  <2>1. IsFilling(f, text, k, Len(text)) /\ Filled(text, k) = f[Len(text)]
    BY <1>1, FilledIsFilling
  <2> HIDE DEF f
  <2> QED
    BY <2>1 DEF IsFilling
<1>3. Right(0)
  <2>1. f[0] = <<>>
    BY <1>1, <1>2
  <2>2. <<>> \in Texts
    BY TextsAreSequences
  <2> QED
    BY <2>1, <2>2 DEF HasToken, HasCR
<1> HIDE DEF f
<1>4. ASSUME NEW n \in 1 .. Len(text), Right(n - 1) PROVE Right(n)
  <2>a. n \in 0 .. Len(text) /\ n # 0
    BY <1>1
  <2>1. f[n] = f[n - 1] \o Fill(text[n], k)
    BY <1>2, <2>a
  <2>2. Fill(text[n], k) \in Texts /\ f[n - 1] \in Texts
    BY <1>1, <1>4, FillTypes
  <2>3. f[n] \in Texts
    BY <2>1, <2>2, TextsAreSequences
  <2>4. ASSUME NEW X
        PROVE  HasToken(f[n], X) <=> \E i \in 1 .. n : HasToken(Fill(text[i], k), X)
    <3>1. HasToken(f[n], X) <=> HasToken(f[n - 1], X) \/ HasToken(Fill(text[n], k), X)
      BY <2>1, <2>2, TokensJoin
    <3>2. HasToken(f[n - 1], X) <=> \E i \in 1 .. n - 1 : HasToken(Fill(text[i], k), X)
      BY <1>4
    <3>3. \A i : i \in 1 .. n <=> i \in 1 .. n - 1 \/ i = n
      BY <1>1
    <3> QED
      BY <3>1, <3>2, <3>3
  <2>5. ASSUME HasCR(f[n]) PROVE \E i \in 1 .. n : HasCR(Fill(text[i], k))
    <3>1. HasCR(f[n - 1]) \/ HasCR(Fill(text[n], k))
      BY <2>1, <2>2, <2>5, CRsJoin
    <3>2. HasCR(f[n - 1]) => \E i \in 1 .. n - 1 : HasCR(Fill(text[i], k))
      BY <1>4
    <3>3. \A i : i \in 1 .. n <=> i \in 1 .. n - 1 \/ i = n
      BY <1>1
    <3> QED
      BY <3>1, <3>2, <3>3
  <2> QED
    BY <2>3, <2>4, <2>5
<1> DEFINE T == {n \in 0 .. Len(text) : ~Right(n)}
<1> HIDE DEF Right
<1>5. ASSUME T # {} PROVE FALSE
  <2>0. T \subseteq Nat
    OBVIOUS
  <2>1. PICK m \in T : \A n \in T : m <= n
    BY <1>5, <2>0, Least
  <2>2. m # 0
    BY <1>3, <2>1
  <2>3. m \in 1 .. Len(text) /\ m - 1 \in 0 .. Len(text) /\ m - 1 \notin T
    BY <1>1, <2>1, <2>2
  <2> QED
    BY <1>4, <2>1, <2>3
<1>6. Right(Len(text))
  BY <1>1, <1>5
<1> QED
  BY <1>1, <1>2, <1>6 DEF Right

-----------------------------------------------------------------------------
(* What is filled in.                                                      *)

(* The tokens of a short text.                                             *)
LEMMA ShortTexts ==
  /\ \A X : ~HasToken(<<>>, X)
  /\ \A X, a : HasToken(<<a>>, X) <=> a \in X
  /\ \A X, a, b : HasToken(<<a, b>>, X) <=> a \in X \/ b \in X
  /\ \A X, a, b, c : HasToken(<<a, b, c>>, X) <=> a \in X \/ b \in X \/ c \in X
  /\ \A X, a, b, c, d :
       HasToken(<<a, b, c, d>>, X) <=> a \in X \/ b \in X \/ c \in X \/ d \in X
  /\ \A X, a, b, c, d, e :
       HasToken(<<a, b, c, d, e>>, X) <=>
         a \in X \/ b \in X \/ c \in X \/ d \in X \/ e \in X
  BY DEF HasToken

LEMMA ShortTypes ==
  /\ <<>> \in Texts
  /\ \A a \in AllTokens : <<a>> \in Texts
  /\ \A a, b \in AllTokens : <<a, b>> \in Texts
  /\ \A a, b, c, d, e \in AllTokens : <<a, b, c, d, e>> \in Texts
  BY TextsAreSequences

LEMMA LongText ==
  ASSUME NEW a, NEW b, NEW c, NEW X
  PROVE  HasToken(<<a, b, c, b, a>>, X) <=> a \in X \/ b \in X \/ c \in X
<1> DEFINE long == <<a, b, c, b, a>>
<1>1. /\ DOMAIN long = 1 .. 5 /\ long[1] = a /\ long[2] = b /\ long[3] = c
      /\ long[4] = b /\ long[5] = a
  OBVIOUS
<1>2. \A i : i \in 1 .. 5 <=> i \in {1, 2, 3, 4, 5}
  OBVIOUS
<1> HIDE DEF long
<1>3. HasToken(long, X) <=> a \in X \/ b \in X \/ c \in X
  BY <1>1, <1>2 DEF HasToken
<1> QED
  BY <1>3 DEF long

MailKinds == {"low", "low_reminder", "recovery", "data_error", "plan_changed",
              "test_notification"}

LEMMA KindsAreKnown == Kinds \subseteq MailKinds
  BY MailAssumption DEF MailKinds

(* The built-in templates are accepted like any other.                     *)
LEMMA DefaultsAccepted ==
  ASSUME NEW k \in MailKinds
  PROVE  /\ DefaultSubject(k) \in Texts /\ RenderAccepts(DefaultSubject(k), TRUE)
         /\ DefaultBody(k) \in Texts /\ RenderAccepts(DefaultBody(k), FALSE)
<1>a. /\ "word" \in AllTokens /\ "LF" \in AllTokens /\ " " \in AllTokens
      /\ Placeholders \subseteq AllTokens
      /\ Placeholders = {"{{kind}}", "{{total}}", "{{error_code}}", "{{unknown_plans}}"}
  BY DEF AllTokens, Spaces, Placeholders
<1>b. \A token \in {"word", "LF", " "} \cup Placeholders : token # "CR" /\ token # Unlisted
  BY DEF Placeholders, Unlisted
<1>c. /\ "word" \notin {"CR"} /\ " " \notin {"CR"} /\ "{{total}}" \notin {"CR"}
      /\ "word" \notin {"LF"} /\ " " \notin {"LF"} /\ "{{total}}" \notin {"LF"}
      /\ "word" \notin {Unlisted} /\ " " \notin {Unlisted} /\ "{{total}}" \notin {Unlisted}
  BY DEF Unlisted
<1>2. DefaultSubject(k) \in {<<"word", " ", "{{total}}", " ", "word">>, <<"word">>}
  BY DEF DefaultSubject
<1>3. DefaultSubject(k) \in Texts
  <2>1. <<"word", " ", "{{total}}", " ", "word">> \in Texts
    BY <1>a, ShortTypes
  <2> QED
    BY <1>2, <2>1, <1>a, ShortTypes
<1>4. RenderAccepts(DefaultSubject(k), TRUE)
  <2> DEFINE long == <<"word", " ", "{{total}}", " ", "word">>
             short == <<"word">>
             visible == {"word", Unlisted} \cup Placeholders
  <2>a. ASSUME NEW X
        PROVE  /\ HasToken(long, X) <=> "word" \in X \/ " " \in X \/ "{{total}}" \in X
               /\ HasToken(short, X) <=> "word" \in X
    BY LongText, ShortTexts
  <2> HIDE DEF long, short
  <2>1. HasToken(long, visible) /\ HasToken(short, visible)
    BY <2>a
  <2>2. ~HasToken(long, {"CR"}) /\ ~HasToken(short, {"CR"})
    BY <1>c, <2>a
  <2>3. ~HasToken(long, {"LF"}) /\ ~HasToken(short, {"LF"})
    BY <1>c, <2>a
  <2>4. ~HasToken(long, {Unlisted}) /\ ~HasToken(short, {Unlisted})
    BY <1>c, <2>a
  <2>5. RenderAccepts(long, TRUE) /\ RenderAccepts(short, TRUE)
    BY <2>1, <2>2, <2>3, <2>4 DEF RenderAccepts, IsBlank
  <2> QED
    BY <1>2, <2>5 DEF long, short
<1> DEFINE head == <<"word", "LF">>
           tail == CASE k \in {"low", "low_reminder", "recovery"} -> <<"{{total}}", "LF">>
                     [] k = "data_error" -> <<"{{error_code}}", "LF">>
                     [] k = "plan_changed" -> <<"{{unknown_plans}}", "LF">>
                     [] k = "test_notification" -> <<"LF">>
<1>5. DefaultBody(k) = head \o tail
  BY DEF DefaultBody
<1>6. tail = <<"LF">> \/ \E p \in Placeholders : tail = <<p, "LF">>
  BY <1>a DEF MailKinds
<1> HIDE DEF tail
<1>7. head \in Texts /\ tail \in Texts
  BY <1>6, <1>a, ShortTypes
<1>8. HasToken(head, {"word", Unlisted} \cup Placeholders)
  BY ShortTexts
<1>9. ~HasToken(head, {"CR"}) /\ ~HasToken(head, {Unlisted})
  <2>1. \A token \in {"word", "LF"} : token \notin {"CR"} /\ token \notin {Unlisted}
    BY <1>b
  <2>2. ~HasToken(head, {"CR"})
    BY <2>1, ShortTexts
  <2>3. ~HasToken(head, {Unlisted})
    BY <2>1, ShortTexts
  <2> QED
    BY <2>2, <2>3
<1>10. ~HasToken(tail, {"CR"}) /\ ~HasToken(tail, {Unlisted})
  <2>1. \A token \in {"LF"} \cup Placeholders : token \notin {"CR"} /\ token \notin {Unlisted}
    BY <1>b
  <2>2. \A X : HasToken(tail, X) => "LF" \in X \/ \E p \in Placeholders : p \in X
    BY <1>6, ShortTexts
  <2>3. ~HasToken(tail, {"CR"}) /\ ~HasToken(tail, {Unlisted})
    BY <2>1, <2>2
  <2> QED
    BY <2>3
<1> HIDE DEF head
<1>11. head \o tail \in Texts
  BY <1>7, TextsAreSequences
<1>12. RenderAccepts(head \o tail, FALSE)
  BY <1>7, <1>8, <1>9, <1>10, TokensJoin DEF RenderAccepts, IsBlank
<1> QED
  BY <1>3, <1>4, <1>5, <1>11, <1>12

(* The parser and the renderer have checked the same, so what is rendered  *)
(* has passed once already.                                                *)
TemplatesAccepted ==
  \A k \in DOMAIN templates :
    /\ templates[k].subject \in Texts /\ ConfigAccepts(templates[k].subject, TRUE)
    /\ templates[k].body \in Texts /\ ConfigAccepts(templates[k].body, FALSE)

LEMMA ResolvedAccepted ==
  ASSUME TemplatesAccepted, NEW k \in MailKinds
  PROVE  /\ SubjectOf(k) \in Texts /\ RenderAccepts(SubjectOf(k), TRUE)
         /\ BodyOf(k) \in Texts /\ RenderAccepts(BodyOf(k), FALSE)
<1>1. \A text, subject : ConfigAccepts(text, subject) => RenderAccepts(text, subject)
  BY DEF ConfigAccepts, RenderAccepts
<1> QED
  BY <1>1, DefaultsAccepted DEF TemplatesAccepted, SubjectOf, BodyOf

(* Nothing but the names of unknown plans brings a line break along, and   *)
(* nothing a placeholder.                                                  *)
LEMMA FillBrings ==
  ASSUME plans \in PlanLists, NEW token \in AllTokens \ {"CR", Unlisted}, NEW k
  PROVE  /\ HasCR(Fill(token, k)) => HasCR(plans)
         /\ HasToken(Fill(token, k), {"LF"}) =>
              \/ token = "LF"
              \/ token = "{{unknown_plans}}" /\ HasToken(plans, {"LF"})
         /\ ~HasToken(Fill(token, k), Placeholders \cup {Unlisted})
<1>1. /\ ~HasCR(<<>>) /\ ~HasCR(<<"word">>) /\ ~HasCR(<<token>>)
  BY DEF HasCR
<1>2. /\ ~HasToken(<<>>, {"LF"}) /\ ~HasToken(<<"word">>, {"LF"})
      /\ HasToken(<<token>>, {"LF"}) => token = "LF"
  BY DEF HasToken
<1>3. \A list \in PlanLists \cup {<<"word">>} : ~HasToken(list, Placeholders \cup {Unlisted})
  <2>1. \A t \in {"word", "LF", "CR"} : t \notin Placeholders \cup {Unlisted}
    BY DEF Placeholders, Unlisted
  <2> QED
    BY <2>1, ShortTexts DEF PlanLists
<1>4. CASE token \in Placeholders
  <2>1. Fill(token, k) \in {<<>>, <<"word">>, plans}
    BY <1>4, ValueTypes DEF Fill
  <2>2. Fill(token, k) = plans => token = "{{unknown_plans}}" \/ plans \in {<<>>, <<"word">>}
    BY <1>4 DEF Fill, ValueOf
  <2>3. <<>> \in PlanLists
    BY DEF PlanLists
  <2> QED
    BY <1>1, <1>2, <1>3, <2>1, <2>2, <2>3
<1>5. CASE token \notin Placeholders
  <2>1. Fill(token, k) = <<token>>
    BY <1>5 DEF Fill
  <2>2. ~HasToken(<<token>>, Placeholders \cup {Unlisted})
    BY <1>5 DEF HasToken
  <2> QED
    BY <1>1, <1>2, <2>1, <2>2
<1> QED
  BY <1>4, <1>5

(* What is meant to tell something tells it.                               *)
LEMMA FillTells ==
  ASSUME plans \in PlanLists, NEW k \in MailKinds, plans # <<>> => k = "plan_changed",
         NEW token \in {"word"} \cup Told(k)
  PROVE  HasToken(Fill(token, k), {"word"})
<1>1. HasToken(<<"word">>, {"word"})
  BY DEF HasToken
<1>2. \A list \in PlanLists \ {<<>>} : HasToken(list, {"word"})
  BY DEF PlanLists, HasToken
<1>3. CASE token = "word"
  BY <1>1, <1>3 DEF Fill, Placeholders
<1>4. CASE token = "{{unknown_plans}}"
  <2>1. k = "plan_changed" /\ plans # <<>>
    BY <1>4 DEF Told, MailKinds
  <2>2. Fill(token, k) = plans
    BY <1>4, <2>1 DEF Fill, ValueOf, Placeholders
  <2> QED
    BY <1>2, <2>1, <2>2
<1>5. CASE token \notin {"word", "{{unknown_plans}}"}
  <2>1. Fill(token, k) = <<"word">>
    BY <1>5 DEF Told, Fill, ValueOf, Placeholders, MailKinds
  <2> QED
    BY <1>1, <2>1
<1> QED
  BY <1>3, <1>4, <1>5

-----------------------------------------------------------------------------
(* From the template to the message.                                       *)

Unread == {"configured", "accepted", "rejected", "failed"}

Empty == [subject |-> <<>>, body |-> <<>>]

MailInv ==
  /\ stage \in {"configured", "accepted", "rejected", "rendered", "failed", "refused", "sent"}
  /\ kind \in Kinds /\ plans \in PlanLists /\ (plans # <<>> => kind = "plan_changed")
  /\ \A k \in DOMAIN templates : templates[k].subject \in Texts /\ templates[k].body \in Texts
  /\ stage \notin {"configured", "rejected"} => TemplatesAccepted
  /\ stage \in Unread => message = Empty
  /\ stage = "failed" =>
       ~(Applies(SubjectOf(kind), TRUE, kind) /\ Applies(BodyOf(kind), FALSE, kind))
  /\ stage \in {"rendered", "refused", "sent"} =>
       /\ Applies(SubjectOf(kind), TRUE, kind) /\ Applies(BodyOf(kind), FALSE, kind)
       /\ message = [subject |-> Filled(SubjectOf(kind), kind),
                     body |-> Filled(BodyOf(kind), kind)]
  /\ stage = "refused" => IsBlank(message.subject)
  /\ stage = "sent" => ~IsBlank(message.subject)

(* The message of a text that is accepted and applied.                     *)
LEMMA FilledKeepsTokens ==
  ASSUME plans \in PlanLists, NEW text \in Texts, NEW subject \in BOOLEAN, NEW k,
         RenderAccepts(text, subject)
  PROVE  /\ Filled(text, k) \in Texts
         /\ ~HasToken(Filled(text, k), Placeholders \cup {Unlisted})
         /\ HasCR(Filled(text, k)) => HasCR(plans)
         /\ subject /\ HasToken(Filled(text, k), {"LF"}) =>
              HasToken(text, {"{{unknown_plans}}"}) /\ HasToken(plans, {"LF"})
<1>1. \A i \in DOMAIN text : text[i] \in AllTokens \ {"CR", Unlisted}
  <2>1. \A i \in DOMAIN text : text[i] \in AllTokens
    BY TextsAreSequences
  <2>2. ~HasToken(text, {"CR"}) /\ ~HasToken(text, {Unlisted})
    BY DEF RenderAccepts
  <2> QED
    BY <2>1, <2>2 DEF HasToken
<1>2. subject => \A i \in DOMAIN text : text[i] # "LF"
  BY DEF RenderAccepts, HasToken
<1>3. ASSUME HasToken(Filled(text, k), Placeholders \cup {Unlisted}) PROVE FALSE
  <2>1. PICK i \in DOMAIN text : HasToken(Fill(text[i], k), Placeholders \cup {Unlisted})
    BY <1>3, FilledTokens
  <2> QED
    BY <1>1, <2>1, FillBrings
<1>4. ASSUME HasCR(Filled(text, k)) PROVE HasCR(plans)
  <2>1. PICK i \in DOMAIN text : HasCR(Fill(text[i], k))
    BY <1>4, FilledTokens
  <2> QED
    BY <1>1, <2>1, FillBrings
<1>5. ASSUME subject, HasToken(Filled(text, k), {"LF"})
      PROVE  HasToken(text, {"{{unknown_plans}}"}) /\ HasToken(plans, {"LF"})
  <2>1. PICK i \in DOMAIN text : HasToken(Fill(text[i], k), {"LF"})
    BY <1>5, FilledTokens
  <2>2. text[i] = "{{unknown_plans}}" /\ HasToken(plans, {"LF"})
    BY <1>1, <1>2, <1>5, <2>1, FillBrings
  <2> QED
    BY <2>2 DEF HasToken
<1> QED
  BY <1>3, <1>4, <1>5, FilledTokens

(* A subject that says something is not blank when it is filled in.        *)
LEMMA SayingIsNotBlank ==
  ASSUME plans \in PlanLists, NEW k \in MailKinds, plans # <<>> => k = "plan_changed",
         NEW text \in Texts, HasToken(text, {"word"} \cup Told(k))
  PROVE  ~IsBlank(Filled(text, k))
<1>1. PICK i \in DOMAIN text : text[i] \in {"word"} \cup Told(k)
  BY DEF HasToken
<1>2. HasToken(Fill(text[i], k), {"word"})
  BY <1>1, FillTells
<1>3. HasToken(Filled(text, k), {"word"})
  BY <1>2, FilledTokens
<1> QED
  BY <1>3 DEF IsBlank, HasToken

LEMMA MailInitially == MailInit => MailInv
<1> SUFFICES ASSUME MailInit PROVE MailInv
  OBVIOUS
<1>1. stage = "configured" /\ kind \in Kinds /\ message = Empty
  BY DEF MailInit, Empty
<1>2. plans \in PlanLists /\ (plans # <<>> => kind = "plan_changed")
  BY DEF MailInit, PlanLists
<1>3. \A k \in DOMAIN templates : templates[k].subject \in Texts /\ templates[k].body \in Texts
  <2>1. CASE templates = <<>>
    BY <2>1
  <2>2. CASE \E k \in Kinds, s \in Subjects, b \in Bodies :
               templates = [x \in {k} |-> [subject |-> s, body |-> b]]
    BY <2>2, MailAssumption
  <2> QED
    BY <2>1, <2>2 DEF MailInit
<1> QED
  BY <1>1, <1>2, <1>3 DEF MailInv, Unread

(* A trimmed text is a text.                                               *)
LEMMA TrimmedIsText == ASSUME NEW text \in Texts PROVE Trimmed(text) \in Texts
<1> DEFINE solid == {i \in DOMAIN text : text[i] \notin Spaces}
<1>1. text \in Seq(AllTokens) /\ DOMAIN text = 1 .. Len(text) /\ Len(text) \in Nat
  BY TextsAreSequences
<1>2. CASE solid = {}
  <2>1. Trimmed(text) = <<>>
    BY <1>2 DEF Trimmed
  <2> QED
    BY <2>1, TextsAreSequences
<1>3. CASE solid # {}
  <2>1. Min(solid) \in solid
    <3>1. solid \subseteq Nat
      BY <1>1
    <3>2. \E m \in solid : \A n \in solid : m <= n
      BY <1>3, <3>1, Least
    <3> HIDE DEF solid
    <3> QED
      BY <3>2 DEF Min
  <2>2. Max(solid) \in solid
    <3> DEFINE back == {Len(text) - i : i \in solid}
    <3>1. back \subseteq Nat /\ back # {} /\ \A i \in solid : i \in Nat
      BY <1>1, <1>3
    <3>2. PICK m \in back : \A n \in back : m <= n
      BY <3>1, Least
    <3>3. PICK i \in solid : m = Len(text) - i
      BY <3>2
    <3>4. ASSUME NEW j \in solid PROVE i >= j
      <4>1. Len(text) - j \in back
        OBVIOUS
      <4>2. m <= Len(text) - j
        BY <3>2, <4>1
      <4> HIDE DEF solid, back
      <4> QED
        BY <1>1, <3>1, <3>3, <4>2
    <3> HIDE DEF solid
    <3> QED
      BY <3>3, <3>4 DEF Max
  <2>3. Trimmed(text) = SubSeq(text, Min(solid), Max(solid))
    BY <1>3 DEF Trimmed
  <2> DEFINE first == Min(solid)
             last  == Max(solid)
  <2>4. first \in 1 .. Len(text) /\ last \in 1 .. Len(text)
    BY <1>1, <2>1, <2>2
  <2> HIDE DEF first, last, solid
  <2>5. SubSeq(text, first, last) \in Seq(AllTokens)
    BY <1>1, <2>4
  <2> QED
    BY <2>3, <2>5, TextsAreSequences DEF first, last
<1> QED
  BY <1>2, <1>3

LEMMA MailStepKeeps == ASSUME MailInv, [MailNext]_mailVars PROVE MailInv'
<1>1. CASE Parse
  <2>1. /\ UNCHANGED <<kind, plans, message>> /\ stage = "configured"
        /\ templates' = [k \in DOMAIN templates |->
                           [subject |-> Trimmed(templates[k].subject),
                            body |-> Trimmed(templates[k].body)]]
        /\ stage' \in {"accepted", "rejected"}
        /\ stage' = "accepted" =>
             \A k \in DOMAIN templates : /\ ConfigAccepts(templates'[k].subject, TRUE)
                                         /\ ConfigAccepts(templates'[k].body, FALSE)
    BY <1>1 DEF Parse
  <2>2. DOMAIN templates' = DOMAIN templates
    BY <2>1
  <2>3. \A k \in DOMAIN templates' : templates'[k].subject \in Texts /\ templates'[k].body \in Texts
    BY <2>1, <2>2, TrimmedIsText DEF MailInv
  <2>4. stage' = "accepted" => TemplatesAccepted'
    BY <2>1, <2>2, <2>3 DEF TemplatesAccepted
  <2> QED
    BY <2>1, <2>3, <2>4 DEF MailInv, Unread
<1>2. CASE Render
  <2> DEFINE works == Applies(SubjectOf(kind), TRUE, kind) /\ Applies(BodyOf(kind), FALSE, kind)
  <2>1. /\ UNCHANGED <<kind, plans, templates>> /\ stage = "accepted" /\ message = Empty
        /\ TemplatesAccepted
    BY <1>2 DEF Render, MailInv, Unread
  <2>2. /\ Applies(SubjectOf(kind), TRUE, kind)' <=> Applies(SubjectOf(kind), TRUE, kind)
        /\ Applies(BodyOf(kind), FALSE, kind)' <=> Applies(BodyOf(kind), FALSE, kind)
        /\ Filled(SubjectOf(kind), kind)' = Filled(SubjectOf(kind), kind)
        /\ Filled(BodyOf(kind), kind)' = Filled(BodyOf(kind), kind)
        /\ TemplatesAccepted' <=> TemplatesAccepted
    BY <2>1 DEF Applies, SubjectOf, BodyOf, Filled, ValueOf, TemplatesAccepted
  <2>3. CASE works
    BY <1>2, <2>1, <2>2, <2>3 DEF Render, MailInv, Unread
  <2>4. CASE ~works
    BY <1>2, <2>1, <2>2, <2>4 DEF Render, MailInv, Unread
  <2> QED
    BY <2>3, <2>4
<1>3. CASE Validate
  <2>1. /\ UNCHANGED <<kind, plans, templates, message>> /\ stage = "rendered"
        /\ stage' = IF IsBlank(message.subject) THEN "refused" ELSE "sent"
    BY <1>3 DEF Validate
  <2>2. /\ Applies(SubjectOf(kind), TRUE, kind)' <=> Applies(SubjectOf(kind), TRUE, kind)
        /\ Applies(BodyOf(kind), FALSE, kind)' <=> Applies(BodyOf(kind), FALSE, kind)
        /\ Filled(SubjectOf(kind), kind)' = Filled(SubjectOf(kind), kind)
        /\ Filled(BodyOf(kind), kind)' = Filled(BodyOf(kind), kind)
        /\ TemplatesAccepted' <=> TemplatesAccepted
    BY <2>1 DEF Applies, SubjectOf, BodyOf, Filled, ValueOf, TemplatesAccepted
  <2> QED
    BY <2>1, <2>2 DEF MailInv, Unread
<1>4. CASE UNCHANGED mailVars
  <2>1. UNCHANGED <<stage, kind, plans, templates, message>>
    BY <1>4 DEF mailVars
  <2>2. /\ Applies(SubjectOf(kind), TRUE, kind)' <=> Applies(SubjectOf(kind), TRUE, kind)
        /\ Applies(BodyOf(kind), FALSE, kind)' <=> Applies(BodyOf(kind), FALSE, kind)
        /\ Filled(SubjectOf(kind), kind)' = Filled(SubjectOf(kind), kind)
        /\ Filled(BodyOf(kind), kind)' = Filled(BodyOf(kind), kind)
        /\ TemplatesAccepted' <=> TemplatesAccepted
    BY <2>1 DEF Applies, SubjectOf, BodyOf, Filled, ValueOf, TemplatesAccepted
  <2> QED
    BY <2>1, <2>2 DEF MailInv
<1> QED
  BY <1>1, <1>2, <1>3, <1>4 DEF MailNext

LEMMA MailHolds == MailSpec => []MailInv
  BY MailInitially, MailStepKeeps, PTL DEF MailSpec

LEMMA MailIsSound == ASSUME MailInv PROVE AcceptedIsSent
<1>a. kind \in MailKinds /\ plans \in PlanLists /\ (plans # <<>> => kind = "plan_changed")
  BY KindsAreKnown DEF MailInv
<1>b. ASSUME TemplatesAccepted
      PROVE  /\ SubjectOf(kind) \in Texts /\ RenderAccepts(SubjectOf(kind), TRUE)
             /\ BodyOf(kind) \in Texts /\ RenderAccepts(BodyOf(kind), FALSE)
  BY <1>a, <1>b, ResolvedAccepted
<1>c. CASE stage \in {"rendered", "refused", "sent"}
  <2>1. /\ TemplatesAccepted
        /\ message = [subject |-> Filled(SubjectOf(kind), kind),
                      body |-> Filled(BodyOf(kind), kind)]
        /\ Applies(SubjectOf(kind), TRUE, kind)
    BY <1>c DEF MailInv
  <2>2. /\ message.subject \in Texts /\ message.body \in Texts
        /\ ~HasToken(message.subject, Placeholders \cup {Unlisted})
        /\ ~HasToken(message.body, Placeholders \cup {Unlisted})
    BY <1>a, <1>b, <2>1, FilledKeepsTokens
  <2>3. ~HasToken(message.subject \o message.body, Placeholders \cup {Unlisted})
    BY <2>2, TokensJoin
  <2>4. SayingSubjectIsSent
    BY <1>a, <1>b, <2>1, SayingIsNotBlank DEF SayingSubjectIsSent, MailInv
  <2>5. ~HasToken(message.subject, {"LF", "CR"})
    <3>1. ~HasCR(message.subject) /\ ~HasToken(message.subject, {"LF"})
      BY <2>1 DEF Applies, FilledIsValid
    <3>2. ASSUME NEW i \in DOMAIN message.subject, message.subject[i] = "CR" PROVE FALSE
      <4>1. i < Len(message.subject) /\ message.subject[i + 1] = "LF"
        BY <3>1, <3>2 DEF HasCR
      <4>2. i + 1 \in DOMAIN message.subject
        BY <2>2, <3>2, <4>1, TextsAreSequences
      <4> QED
        BY <3>1, <4>1, <4>2 DEF HasToken
    <3> QED
      BY <3>1, <3>2 DEF HasToken
  <2> QED
    BY <1>c, <2>2, <2>3, <2>4, <2>5
       DEF AcceptedIsSent, MailTypeOK, AcceptedIsRendered, SentSubjectIsOneLine, MailInv
<1>d. CASE stage \notin {"rendered", "refused", "sent"}
  <2>1. message = Empty
    BY <1>d DEF MailInv, Unread
  <2>2. MailTypeOK
    <3>1. <<>> \o <<>> = <<>>
      OBVIOUS
    <3>2. message.subject = <<>> /\ message.body = <<>>
      BY <2>1 DEF Empty
    <3>3. ~HasToken(message.subject \o message.body, Placeholders \cup {Unlisted})
      BY <3>1, <3>2 DEF HasToken
    <3> QED
      BY <1>d, <3>2, <3>3, ShortTypes DEF MailTypeOK, MailInv
  <2>3. AcceptedIsRendered
    <3> SUFFICES ASSUME stage = "failed", ~HasCR(plans),
                        ~(HasToken(plans, {"LF"}) /\ HasToken(SubjectOf(kind), {"{{unknown_plans}}"}))
                 PROVE  FALSE
      BY DEF AcceptedIsRendered
    <3>1. TemplatesAccepted
      BY DEF MailInv
    <3>2. Applies(SubjectOf(kind), TRUE, kind)
      BY <1>a, <1>b, <3>1, FilledKeepsTokens DEF Applies, FilledIsValid
    <3>3. Applies(BodyOf(kind), FALSE, kind)
      BY <1>a, <1>b, <3>1, FilledKeepsTokens DEF Applies, FilledIsValid
    <3> QED
      BY <3>2, <3>3 DEF MailInv
  <2> QED
    BY <1>d, <2>2, <2>3 DEF AcceptedIsSent, SayingSubjectIsSent, SentSubjectIsOneLine
<1> QED
  BY <1>c, <1>d

(* An accepted template makes a message that is sent and says what it was  *)
(* written for, whatever texts an operator configures; the exceptions are  *)
(* names of unknown plans with a line break, and a subject that says       *)
(* nothing.                                                                *)
THEOREM AcceptedTemplatesAreSent == MailSpec => []AcceptedIsSent
<1>1. MailInv => AcceptedIsSent
  BY MailIsSound
<1> QED
  BY <1>1, MailHolds, PTL
=============================================================================
