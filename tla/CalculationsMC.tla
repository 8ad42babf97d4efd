--------------------------- MODULE CalculationsMC ---------------------------
(* Instances of the three calculations of the code, one per behaviour:     *)
(* reading plan rules, aggregating the replies of accounts, and filling in *)
(* a template.  They share no state; those that are not at work stand at   *)
(* their end.                                                              *)
EXTENDS PlanRules, Quota, MailTemplate, TLC

VARIABLE calculation

(* PlanRules: two subscriptions of the upstream, one local spelling, and   *)
(* decorations of them.                                                    *)
MCUpstream == {<<"plus">>, <<"pro">>, <<"pro", "lite">>}

PlainTexts ==
  { <<"plus">>, <<"pro">>, <<"pro", "lite">>, <<"mine">>,
    <<"pro", "dash", "lite">>, <<"pro", "blank", "lite">>,
    <<"blank", "plus">>, <<"plus", "dash">>, <<"tab", "mine", "blank">>,
    <<"dash">>, <<"blank", "dash", "pro">> }

Written(names, spellings) ==
  [ name: names, canonical: {<<>>}, aliases: {{}} \cup {{a} : a \in spellings},
    window: {"5h", "7d"}, weight: {2} ]

MCCandidates ==
  Written({<<"plus">>, <<"pro">>, <<"mine">>}, PlainTexts)
    \cup { [name |-> <<"blank">>, canonical |-> <<"pro", "dash", "lite">>,
            aliases |-> {<<"plus">>, <<"mine">>}, window |-> "7d", weight |-> 1],
           [name |-> <<>>, canonical |-> <<"pro", "lite", "blank">>,
            aliases |-> {<<"mine">>, <<"dash">>}, window |-> "7d", weight |-> 1],
           [name |-> <<"dash">>, canonical |-> <<"pro">>,
            aliases |-> {}, window |-> "7d", weight |-> 1],
           [name |-> <<"plus">>, canonical |-> <<>>,
            aliases |-> {<<"tab">>}, window |-> "7d", weight |-> 1],
           [name |-> <<"plus">>, canonical |-> <<>>,
            aliases |-> {}, window |-> "", weight |-> 1],
           [name |-> <<"plus">>, canonical |-> <<>>,
            aliases |-> {}, window |-> "5h", weight |-> 0] }

MCIgnoredLists == { {}, {<<"plus">>}, {<<"pro", "dash">>, <<"dash">>} }
-----------------------------------------------------------------------------
(* Quota: three rules on both windows, an ignored plan, and replies with   *)
(* every way a window can be given, missing or wrong.                      *)
MCRules ==
  << "plus" >> :> [aliases |-> {<<"plus">>}, window |-> "7d", weight |-> 1]
  @@ << "pro" >> :> [aliases |-> {<<"pro">>, <<"pro20">>}, window |-> "7d", weight |-> 20]
  @@ << "mine" >> :> [aliases |-> {<<"mine">>}, window |-> "5h", weight |-> 3]

MCIgnored == {<<"free">>}

MCTerminal == {"token_revoked"}

Window(duration, used) ==
  [duration |-> duration, used |-> {used}, reset |-> FALSE, exhausted |-> FALSE]

Exhausted(reset) ==
  [duration |-> {}, used |-> {}, reset |-> reset, exhausted |-> TRUE]

Other == Window({86400}, 0)

(* Primary and secondary window of one reply.                              *)
Both(plan, first, second) ==
  Replied([plan |-> plan, slots |-> 1 :> first @@ 2 :> second, whole |-> Other])

Whole(plan, window) == Replied([plan |-> plan, slots |-> <<>>, whole |-> window])

Half == Window({}, 5000000)
Third == Window({}, 3333335)

(* A reply that is no JSON object.                                         *)
NoJSON == [code |-> {}, body |-> {}]

MCInputs ==
  { Failed("token_revoked"), Failed("http_500"), NoJSON,
    Both(<<"blank", "plus">>, Half, Third),
    Both(<<"pro", "dash">>, Third, Third),
    Both(<<"pro20">>, Half, Exhausted(TRUE)),
    Both(<<"mine">>, Third, Half),
    Both(<<"plus">>, Window({604800}, 9999996), Window({604800}, 0)),
    Both(<<"mine">>, Window({604800}, 0), Half),
    Both(<<"free">>, Half, Half),
    Both(<<"new">>, Half, Half),
    Both(<<"tab">>, Half, Half),
    Both(<<"pro">>, Half, Exhausted(FALSE)),
    Both(<<"pro">>, Half, Window({}, 10500000)),
    Whole(<<"plus">>, Window({604800}, 1234567)),
    Whole(<<"plus">>, Half),
    Whole(<<"mine">>, Window({18000}, 10000000)),
    Replied([plan |-> <<"plus">>, slots |-> 2 :> Half @@ 6 :> Third, whole |-> Other]),
    Replied([plan |-> <<"plus">>, slots |-> 2 :> Half @@ 4 :> Other, whole |-> Half]) }
-----------------------------------------------------------------------------
(* MailTemplate: all texts of up to two tokens, and a longer one of each   *)
(* kind.                                                                   *)
Tokens == {"word", Unlisted} \cup Spaces \cup Placeholders

MCSubjects ==
  UNION {[1 .. n -> Tokens] : n \in 0 .. 2}
    \cup {<<"word", t, p, t, q>> : t \in Spaces, p, q \in Placeholders}

MCBodies ==
  UNION {[1 .. n -> Tokens] : n \in 0 .. 1}
    \cup {<<"word", "LF", p, t>> : p \in Placeholders, t \in Tokens}

MCKinds == {"low", "data_error", "plan_changed", "test_notification"}
-----------------------------------------------------------------------------
NoRules == ignored = {} /\ source = {} /\ rules = <<>> /\ aliases = <<>> /\ verdict = "refused"

NoQuota == inputs = <<>> /\ next = 1 /\ snap = EmptySnapshot /\ result = "not_computable"

NoMail ==
  /\ stage = "rejected" /\ kind = "low" /\ plans = <<>> /\ templates = <<>>
  /\ message = [subject |-> <<>>, body |-> <<>>]

CalculationsInit ==
  \/ calculation = "rules" /\ RulesInit /\ NoQuota /\ NoMail
  \/ calculation = "quota" /\ NoRules /\ QuotaInit /\ NoMail
  \/ calculation = "mail" /\ NoRules /\ NoQuota /\ MailInit

RulesStep ==
  calculation = "rules" /\ RulesNext /\ UNCHANGED <<calculation, quotaVars, mailVars>>

QuotaStep ==
  calculation = "quota" /\ QuotaNext /\ UNCHANGED <<calculation, rulesVars, mailVars>>

MailStep ==
  calculation = "mail" /\ MailNext /\ UNCHANGED <<calculation, rulesVars, quotaVars>>

CalculationsSpec ==
  CalculationsInit
    /\ [][RulesStep \/ QuotaStep \/ MailStep]_<<calculation, rulesVars, quotaVars, mailVars>>
=============================================================================
