---------------------------- MODULE CheckHandlerMC ---------------------------
(***************************************************************************)
(* Instances of CheckHandler for TLC.  A total is 0 (low), 1 (between the  *)
(* thresholds) or 2 (recovered).                                           *)
(***************************************************************************)
EXTENDS CheckHandler

CONSTANTS c1, c2, smtp, webhook

Symmetric == Permutations({c1, c2})

Cfg(channels, dry) ==
  [channels |-> channels, dryRun |-> dry, lowThreshold |-> 1,
   recoveryThreshold |-> 2, reminderSeconds |-> 2, failureAlertCount |-> 2]

OneCaller   == {c1}
TwoCallers  == {c1, c2}
TwoChannels == {smtp, webhook}
OneChannel  == {smtp}

Both     == Cfg({smtp, webhook}, FALSE)
SmtpOnly == Cfg({smtp}, FALSE)
Often    == [SmtpOnly EXCEPT !.reminderSeconds = 1]
DryBoth  == Cfg({smtp, webhook}, TRUE)

OneConfig   == {Both}
OnlySmtp    == {SmtpOnly}
OnlyOften   == {Often}
SomeConfigs == {Both, SmtpOnly, DryBoth}

TimerOnly  == {FALSE}
AnyRequest == BOOLEAN

O(kind, total) == [kind |-> kind, total |-> total]

LowOutcomes == {O("complete", 0), O("complete", 1), O("complete", 2)}
NeverComplete == {O("partial", 0), O("error", 0), O("plan_changed", 0)}
AlertOutcomes == LowOutcomes \union NeverComplete \union {O("partial", 2)}
LowOrPlanOutcomes == LowOutcomes \union {O("plan_changed", 0)}

(* The alerts alone, as one caller raises them.  A behaviour without an    *)
(* outage goes on to MaxTime and MaxEvents, so that two reminders, and a   *)
(* recovery between them, fit in; one with an outage ends earlier.         *)
MaxOutageTime   == 2
MaxOutageEvents == 4

Outages == {e \in Alerts(disk) \union UNION {Alerts(check[c].mem) : c \in Callers} :
              e.kind \in {"data_error", "plan_changed"}}

AlertBound ==
  Outages # {} =>
    /\ clock <= MaxOutageTime
    /\ disk.eventSequence <= MaxOutageEvents
    /\ \A c \in Callers : check[c].mem.eventSequence <= MaxOutageEvents

=============================================================================
