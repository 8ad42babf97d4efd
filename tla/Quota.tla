------------------------------- MODULE Quota -------------------------------
(***************************************************************************)
(* From the replies of the accounts to the snapshot of one check:          *)
(* ParseWham, ObserveAccount and AggregateObservations of                  *)
(* internal/quota/types.go.  One step counts one account, the last one     *)
(* rounds the sums and decides between a snapshot and an error.            *)
(*                                                                         *)
(* Numbers are integers.  A percentage is read in units of 1/100000 %, a   *)
(* remaining percentage is kept in units of 1/10000 %, so that remaining   *)
(* times weight is a total in units of 1/1000000 (of one unit of quota),   *)
(* which is rounded to 1/10000.  Errors of float64 below that are left out.*)
(***************************************************************************)
EXTENDS Integers, PlanNames

CONSTANTS
  Inputs,        \* what one account may come with: Failed(code) or Replied(body)
  Rules,         \* the accepted plan rules: canonical name -> rule
  Ignored,       \* Rules.IgnoredPlans
  TerminalCodes, \* Rules.TerminalErrorCodes
  MaxAccounts    \* bound on the number of accounts

Full == 10000000

Windows == {"5h", "7d"}

(* What the configuration has checked of the rules, and the shape of an    *)
(* input: one code or one body at most, and six keys for a window.         *)
ASSUME QuotaAssumption ==
  /\ MaxAccounts \in Nat
  /\ \A n \in DOMAIN Rules : Rules[n].weight \in Nat \ {0} /\ Rules[n].window \in Windows
  /\ \A input \in Inputs :
       /\ \A c, d \in input.code : c = d
       /\ \A b, c \in input.body : b = c
       /\ \A body \in input.body : DOMAIN body.slots \subseteq 1 .. 6

(* AccountInput: an error code, or none and a body.  A body is no JSON, or *)
(* it gives a plan text, windows under the six known keys (numbered in the *)
(* order they are tried) and the limit object itself, read as a window.    *)
(* What an object may lack is a set: empty, or with the value in it.       *)
Failed(code) == [code |-> {code}, body |-> {}]
Replied(body) == [code |-> {}, body |-> {body}]
-----------------------------------------------------------------------------
(* One window object: duration in seconds, used percentage, and whether it *)
(* tells of a reset and of an exhausted limit.                             *)

Fallback(slot) == IF slot % 2 = 1 THEN "5h" ELSE "7d"

WindowName(raw, fallback) ==
  CASE raw.duration = {18000} -> "5h"
    [] raw.duration = {604800} -> "7d"
    [] raw.duration = {} -> fallback
    [] OTHER -> "invalid"

(* The used percentage, if the window tells one.                           *)
Used(raw) ==
  IF raw.used = {} /\ raw.reset /\ raw.exhausted THEN {Full} ELSE raw.used

\* Variant of WindowIsValid: the used percentage is not checked.
WindowIsNamed(raw, fallback) == WindowName(raw, fallback) \in Windows /\ Used(raw) # {}

(* parseWindow gives no error.                                             *)
WindowIsValid(raw, fallback) ==
  /\ WindowName(raw, fallback) \in Windows
  /\ Used(raw) # {} /\ \A used \in Used(raw) : used \in 0 .. Full

Remaining(raw) == (Full - (CHOOSE used \in Used(raw) : TRUE) + 5) \div 10

(* ParseWham: every window present must be valid; of two with one name the *)
(* one tried last stays; without any, the limit object must be a window.   *)
BodyIsValid(body) ==
  /\ \A s \in DOMAIN body.slots : WindowIsValid(body.slots[s], Fallback(s))
  /\ DOMAIN body.slots = {} => WindowIsValid(body.whole, "none")

SlotsOf(body, window) ==
  {s \in DOMAIN body.slots : WindowName(body.slots[s], Fallback(s)) = window}

HasWindow(body, window) ==
  \/ SlotsOf(body, window) # {}
  \/ DOMAIN body.slots = {} /\ WindowName(body.whole, "none") = window

WindowOf(body, window) ==
  IF DOMAIN body.slots = {} THEN body.whole ELSE body.slots[Max(SlotsOf(body, window))]
-----------------------------------------------------------------------------
(* AccountObservation, by the case that AggregateObservations sees.        *)
Nothing == [is |-> "nothing"]
Unresolved(code) == [is |-> "unresolved", code |-> code]
Terminal(code) == [is |-> "terminal", code |-> code]
Unknown(plan) == [is |-> "unknown", plan |-> plan]
Success(name, amount) ==
  [is |-> "success", plan |-> name, window |-> Rules[name].window, amount |-> amount]

(* observeQuota: findRule may pick any rule that fits.                     *)
QuotaObservations(body) ==
  IF NormalizePlan(body.plan) = <<>> THEN {Unresolved("missing_plan")}
  ELSE IF IsIgnored(body.plan, Ignored) THEN {Nothing}
  ELSE IF MatchingRules(body.plan, Rules) = {} THEN {Unknown(NormalizePlan(body.plan))}
  ELSE { IF HasWindow(body, Rules[n].window)
           THEN Success(n, Remaining(WindowOf(body, Rules[n].window)) * Rules[n].weight)
           ELSE Unresolved("missing_window") : n \in MatchingRules(body.plan, Rules) }

(* ObserveAccount: an error code decides, whatever the body.               *)
CodeObservation(code) ==
  IF code \in TerminalCodes THEN Terminal(code) ELSE Unresolved(code)

BodyObservations(body) ==
  IF BodyIsValid(body) THEN QuotaObservations(body) ELSE {Unresolved("parse_error")}

Observations(input) ==
  IF input.code # {} THEN {CodeObservation(code) : code \in input.code}
  ELSE IF input.body = {} THEN {Unresolved("parse_error")}
  ELSE UNION {BodyObservations(body) : body \in input.body}
-----------------------------------------------------------------------------
VARIABLES
  inputs, \* the accounts of this check
  next,   \* the account to count
  snap,   \* the Snapshot; Plans is told as two maps, its amounts and its accounts
  result  \* "counting", then "snapshot", "plan_changed" or "not_computable"

quotaVars == <<inputs, next, snap, result>>

Amount(f, key) == IF key \in DOMAIN f THEN f[key] ELSE 0

AddTo(f, key, n) ==
  [k \in DOMAIN f \cup {key} |-> IF k = key THEN Amount(f, key) + n ELSE f[k]]

Round4(total) == ((total + 50) \div 100) * 100

RoundAll(f) == [k \in DOMAIN f |-> Round4(f[k])]

EmptySnapshot ==
  [ total |-> 0, byWindow |-> <<>>, byPlan |-> <<>>, accounts |-> <<>>,
    terminal |-> <<>>, unresolved |-> <<>>, unknown |-> <<>>, partial |-> FALSE ]

QuotaInit ==
  /\ inputs \in UNION {[1 .. n -> Inputs] : n \in 0 .. MaxAccounts}
  /\ next = 1
  /\ snap = EmptySnapshot
  /\ result = "counting"

\* Variant of CountUnresolved: the total is not marked.
CountUnmarked(obs) == [snap EXCEPT !.unresolved = AddTo(@, obs.code, 1)]

CountUnresolved(obs) ==
  [snap EXCEPT !.unresolved = AddTo(@, obs.code, 1), !.partial = TRUE]

\* Variant of CountSuccess: the same plan in two accounts counts once.
CountSuccessOnce(obs) ==
  [snap EXCEPT
     !.total = @ + obs.amount,
     !.byWindow = AddTo(@, obs.window, obs.amount),
     !.byPlan = AddTo([k \in DOMAIN @ \ {obs.plan} |-> @[k]], obs.plan, obs.amount),
     !.accounts = AddTo(@, obs.plan, 1)]

CountSuccess(obs) ==
  [snap EXCEPT
     !.total = @ + obs.amount,
     !.byWindow = AddTo(@, obs.window, obs.amount),
     !.byPlan = AddTo(@, obs.plan, obs.amount),
     !.accounts = AddTo(@, obs.plan, 1)]

Counted(obs) ==
  CASE obs.is = "nothing" -> snap
    [] obs.is = "unknown" -> [snap EXCEPT !.unknown = AddTo(@, obs.plan, 1)]
    [] obs.is = "unresolved" -> CountUnresolved(obs)
    [] obs.is = "terminal" -> [snap EXCEPT !.terminal = AddTo(@, obs.code, 1)]
    [] obs.is = "success" -> CountSuccess(obs)

Count ==
  /\ next \in DOMAIN inputs
  /\ \E obs \in Observations(inputs[next]) : snap' = Counted(obs)
  /\ next' = next + 1
  /\ UNCHANGED <<inputs, result>>

Close ==
  /\ result = "counting"
  /\ next \notin DOMAIN inputs
  /\ snap' = [snap EXCEPT !.total = Round4(@), !.byWindow = RoundAll(@), !.byPlan = RoundAll(@)]
  /\ result' = CASE DOMAIN snap.unknown # {} -> "plan_changed"
                 [] /\ DOMAIN snap.unknown = {}
                    /\ DOMAIN snap.accounts = {} /\ DOMAIN snap.terminal = {} -> "not_computable"
                 [] OTHER -> "snapshot"
  /\ UNCHANGED <<inputs, next>>

QuotaNext == Count \/ Close

QuotaSpec == QuotaInit /\ [][QuotaNext]_quotaVars
-----------------------------------------------------------------------------
IsCount(f) == \A k \in DOMAIN f : f[k] \in Nat \ {0}

QuotaTypeOK ==
  /\ next \in 1 .. Len(inputs) + 1
  /\ snap.total \in Nat
  /\ DOMAIN snap.byWindow \subseteq Windows
  /\ DOMAIN snap.byPlan \subseteq DOMAIN Rules
  /\ \A k \in DOMAIN snap.byPlan : snap.byPlan[k] \in Nat
  /\ IsCount(snap.accounts) /\ IsCount(snap.terminal)
  /\ IsCount(snap.unresolved) /\ IsCount(snap.unknown)
  /\ snap.partial \in BOOLEAN
  /\ result \in {"counting", "snapshot", "plan_changed", "not_computable"}

(* No account is lost and none counts twice: every account is in exactly   *)
(* one of the four counts of the snapshot, unless its plan is ignored.     *)
EveryAccountIsCounted ==
  result # "counting" =>
    SumFunction(snap.accounts) + SumFunction(snap.terminal)
      + SumFunction(snap.unresolved) + SumFunction(snap.unknown)
    = Cardinality({i \in DOMAIN inputs : Nothing \notin Observations(inputs[i])})

(* What is known of the account behind an input, told without the          *)
(* intermediate observation.                                               *)
QuotaIsKnown(input) ==
  \/ \E code \in input.code : code \in TerminalCodes
  \/ \E body \in input.body :
       /\ input.code = {}
       /\ BodyIsValid(body)
       /\ NormalizePlan(body.plan) # <<>>
       /\ \/ IsIgnored(body.plan, Ignored)
          \/ \E n \in MatchingRules(body.plan, Rules) : HasWindow(body, Rules[n].window)

(* A total that is not marked partial rests on the quota of every account: *)
(* none of them was unreadable, failed for now, or of an unknown plan.     *)
FullTotalIsComplete ==
  result = "snapshot" /\ ~snap.partial => \A i \in DOMAIN inputs : QuotaIsKnown(inputs[i])

Worth(input) ==
  LET obs == CHOOSE o \in Observations(input) : TRUE
  IN IF obs.is = "success" THEN obs.amount ELSE 0

(* "Treat a partial total as a lower bound": whatever the accounts without *)
(* a usable answer would have answered, the total would not be smaller.    *)
PartialIsALowerBound ==
  result = "snapshot" =>
    LET missing == {i \in DOMAIN inputs : ~QuotaIsKnown(inputs[i])}
    IN \A late \in [missing -> Inputs] :
         snap.total <=
           Round4(SumFunction(
             [i \in DOMAIN inputs |-> Worth(IF i \in missing THEN late[i] ELSE inputs[i])]))

AddsUp(parts) ==
  LET slack == 50 * (Cardinality(DOMAIN parts) + 1)
  IN snap.total - SumFunction(parts) \in -slack .. slack

(* The parts a reader sees add up: the totals of the windows and those of  *)
(* the plans each sum to the total, but for the rounding of every figure.  *)
BreakdownsAddUp ==
  result # "counting" => AddsUp(snap.byWindow) /\ AddsUp(snap.byPlan)

(* The snapshot adds up, in accounts and in amounts.                       *)
SnapshotAddsUp == QuotaTypeOK /\ EveryAccountIsCounted /\ BreakdownsAddUp
=============================================================================
