------------------------------- MODULE Monitor -------------------------------
(***************************************************************************)
(* internal/monitor: the pure state machine that turns quota checks into   *)
(* alerts and keeps, per alert and channel, whether it was delivered.      *)
(* Nothing here has VARIABLES: Evaluate and MarkDelivered are functions    *)
(* from State to State, as in the Go package; CheckHandler calls them.     *)
(*                                                                         *)
(* An event's ID hashes its kind, time and EventSequence; only the         *)
(* sequence number tells two events of one state apart, so `seq' is the    *)
(* ID.  Left out of State are the fields that no code reads back           *)
(* (LastErrorCode, LastRecoveryDeliveredAt, LastErrorDeliveredAt,          *)
(* LastPlanDeliveredAt) and the two that only the status page shows        *)
(* (LastValidTotal, LastValidAt).                                          *)
(***************************************************************************)
EXTENDS Integers, Sequences, SequencesExt

CONSTANT Channels       \* the names a channel can have ("smtp", "webhook")

Kinds    == {"low", "low_reminder", "recovery", "data_error", "plan_changed"}
Statuses == {"pending", "failed", "delivered"}
Never    == 0           \* time.Time{}: the clock of the model starts at 1

Deliveries == UNION {[D -> Statuses] : D \in SUBSET Channels}

Event == [seq: Nat \ {0}, kind: Kinds, createdAt: Nat, delivery: Deliveries]

\* DeliveredEvents is a map by ID in the code and, as events are never
\* removed from it, a set of events here.
State == [lowActive:           BOOLEAN,
          planChangedActive:   BOOLEAN,
          errorActive:         BOOLEAN,
          consecutiveFailures: Nat,
          lastLowDeliveredAt:  Nat,
          pendingEvents:       Seq(Event),
          deliveredEvents:     SUBSET Event,
          eventSequence:       Nat]

\* The state of a missing state file.
EmptyState == [lowActive           |-> FALSE,
               planChangedActive   |-> FALSE,
               errorActive         |-> FALSE,
               consecutiveFailures |-> 0,
               lastLowDeliveredAt  |-> Never,
               pendingEvents       |-> << >>,
               deliveredEvents     |-> {},
               eventSequence       |-> 0]

\* The part of config.Config that Evaluate and the handler read.  Parse
\* refuses a configuration outside these ranges (validateRanges), so the
\* defaults Evaluate has for zero fields are never taken.
Config == {c \in [channels:          SUBSET Channels,
                  dryRun:            BOOLEAN,
                  lowThreshold:      Nat \ {0},
                  recoveryThreshold: Nat \ {0},
                  reminderSeconds:   Nat \ {0},
                  failureAlertCount: Nat \ {0}] :
             c.lowThreshold < c.recoveryThreshold}

\* What AggregateObservations returned: a complete or a partial snapshot
\* with its total, a PlanChangedError, or any other error.
Outcome == [kind: {"complete", "partial", "plan_changed", "error"}, total: Nat]

-----------------------------------------------------------------------------

NewEvent(kind, now, sequence, channels) ==
  [seq       |-> sequence,
   kind      |-> kind,
   createdAt |-> now,
   delivery  |-> [ch \in channels |-> "pending"]]

\* Variant of AppendEvent: the sequence number is not advanced.
AppendEventSameSeq(s, kind, now, channels) ==
  [s EXCEPT !.pendingEvents =
               Append(@, NewEvent(kind, now, s.eventSequence + 1, channels))]

AppendEvent(s, kind, now, channels) ==
  [s EXCEPT !.eventSequence = @ + 1,
            !.pendingEvents =
               Append(@, NewEvent(kind, now, s.eventSequence + 1, channels))]

\* Variant of MarkDataFailure: every failure beyond the count raises an alert.
MarkDataFailureEach(s, cfg, now) ==
  LET failed == [s EXCEPT !.consecutiveFailures = @ + 1]
  IN  IF failed.consecutiveFailures >= cfg.failureAlertCount
      THEN AppendEvent([failed EXCEPT !.errorActive = TRUE],
                       "data_error", now, cfg.channels)
      ELSE failed

MarkDataFailure(s, cfg, now) ==
  LET failed == [s EXCEPT !.consecutiveFailures = @ + 1]
  IN  IF /\ failed.consecutiveFailures >= cfg.failureAlertCount
         /\ ~failed.errorActive
      THEN AppendEvent([failed EXCEPT !.errorActive = TRUE],
                       "data_error", now, cfg.channels)
      ELSE failed

PlanChanged(s, cfg, now) ==
  LET reset == [s EXCEPT !.consecutiveFailures = 0, !.errorActive = FALSE]
  IN  IF reset.planChangedActive
      THEN reset
      ELSE AppendEvent([reset EXCEPT !.planChangedActive = TRUE],
                       "plan_changed", now, cfg.channels)

\* Variant of CompleteCheck: a success keeps ErrorActive.
CompleteKeepsError(s) ==
  [s EXCEPT !.consecutiveFailures = 0, !.planChangedActive = FALSE]

CompleteCheck(s) ==
  [s EXCEPT !.consecutiveFailures = 0,
            !.errorActive         = FALSE,
            !.planChangedActive   = FALSE]

HasPendingKind(events, kind) ==
  \E i \in DOMAIN events : events[i].kind = kind

ReminderDue(s, cfg, now) ==
  /\ s.lastLowDeliveredAt # Never
  /\ now - s.lastLowDeliveredAt >= cfg.reminderSeconds
  /\ ~HasPendingKind(s.pendingEvents, "low_reminder")

\* Variant of Threshold: recovery is announced in every check above the
\* recovery threshold.
ThresholdNotReset(s, total, cfg, now) ==
  CASE total < cfg.lowThreshold /\ ~s.lowActive ->
         AppendEvent([s EXCEPT !.lowActive = TRUE], "low", now, cfg.channels)
    [] total >= cfg.recoveryThreshold /\ s.lowActive ->
         AppendEvent(s, "recovery", now, cfg.channels)
    [] OTHER -> s

\* The hysteresis switch at the end of Evaluate.
Threshold(s, total, cfg, now) ==
  CASE total < cfg.lowThreshold /\ ~s.lowActive ->
         AppendEvent([s EXCEPT !.lowActive = TRUE], "low", now, cfg.channels)
    [] total < cfg.lowThreshold /\ s.lowActive /\ ReminderDue(s, cfg, now) ->
         AppendEvent(s, "low_reminder", now, cfg.channels)
    [] total >= cfg.recoveryThreshold /\ s.lowActive ->
         AppendEvent([s EXCEPT !.lowActive = FALSE],
                     "recovery", now, cfg.channels)
    [] OTHER -> s

\* A partial total is a lower bound: below the recovery threshold it proves
\* nothing.
Evaluate(s, outcome, cfg, now) ==
  CASE outcome.kind = "plan_changed" -> PlanChanged(s, cfg, now)
    [] outcome.kind = "error"        -> MarkDataFailure(s, cfg, now)
    [] outcome.kind = "complete"     ->
         Threshold(CompleteCheck(s), outcome.total, cfg, now)
    [] outcome.kind = "partial"      ->
         LET failed == MarkDataFailure(s, cfg, now)
         IN  IF outcome.total < cfg.recoveryThreshold
             THEN failed
             ELSE Threshold(failed, outcome.total, cfg, now)

-----------------------------------------------------------------------------

\* Variant of UpdateDeliveredTime: a delivered reminder does not count.
UpdateLowTimeOnly(s, kind, now) ==
  IF kind = "low" THEN [s EXCEPT !.lastLowDeliveredAt = now] ELSE s

UpdateDeliveredTime(s, kind, now) ==
  IF kind \in {"low", "low_reminder"}
  THEN [s EXCEPT !.lastLowDeliveredAt = now]
  ELSE s

AllConfiguredDelivered(event) ==
  /\ DOMAIN event.delivery # {}
  /\ \A ch \in DOMAIN event.delivery : event.delivery[ch] = "delivered"

\* Delivery[channel] after an attempt: a delivered channel stays delivered.
Attempted(event, channel, delivered) ==
  LET status == CASE delivered -> "delivered"
                  [] ~delivered /\ channel \in DOMAIN event.delivery
                       /\ event.delivery[channel] = "delivered" -> "delivered"
                  [] OTHER -> "failed"
  IN  [event EXCEPT !.delivery =
         [ch \in DOMAIN event.delivery \union {channel} |->
            IF ch = channel THEN status ELSE event.delivery[ch]]]

\* An event leaves the pending list with the last of its channels.
Settle(s, i, event) ==
  IF AllConfiguredDelivered(event)
  THEN [s EXCEPT !.deliveredEvents = @ \union {event},
                 !.pendingEvents   = RemoveAt(@, i)]
  ELSE [s EXCEPT !.pendingEvents[i] = event]

PendingIndex(s, seq) ==
  {i \in DOMAIN s.pendingEvents : s.pendingEvents[i].seq = seq}

\* IDs are unique among pending events, so the first match is the match.
MarkDelivered(s, seq, channel, delivered, now) ==
  IF PendingIndex(s, seq) = {}
  THEN s
  ELSE LET i     == CHOOSE j \in PendingIndex(s, seq) : TRUE
           event == s.pendingEvents[i]
           timed == IF delivered THEN UpdateDeliveredTime(s, event.kind, now)
                                 ELSE s
       IN  Settle(timed, i, Attempted(event, channel, delivered))

-----------------------------------------------------------------------------
(* What a state says of the alerts raised so far: as nothing is ever       *)
(* removed from DeliveredEvents, pending and delivered events together are *)
(* the log of all alerts.                                                  *)

PendingSet(s) == {s.pendingEvents[i] : i \in DOMAIN s.pendingEvents}
Alerts(s)     == PendingSet(s) \union s.deliveredEvents

\* (seq, channel) pairs still to be delivered, and those recorded delivered.
HasStatus(e, ch, statuses) ==
  ch \in DOMAIN e.delivery /\ e.delivery[ch] \in statuses

Owed(s) ==
  {p \in (1..s.eventSequence) \X Channels :
     \E e \in PendingSet(s) :
       e.seq = p[1] /\ HasStatus(e, p[2], {"pending", "failed"})}

Recorded(s) ==
  {p \in (1..s.eventSequence) \X Channels :
     \E e \in Alerts(s) : e.seq = p[1] /\ HasStatus(e, p[2], {"delivered"})}

\* Alerts are numbered 1..EventSequence without a gap or a repetition, the
\* pending ones stand in the order they were raised, and none is in both.
WellLogged(s) ==
  /\ {e.seq : e \in Alerts(s)} = 1..s.eventSequence
  /\ \A e, f \in Alerts(s) : e.seq = f.seq => e = f
  /\ \A i, j \in DOMAIN s.pendingEvents :
       i < j => s.pendingEvents[i].seq < s.pendingEvents[j].seq
  /\ PendingSet(s) \intersect s.deliveredEvents = {}

\* After the first n alerts the last of "low" and "recovery" was "low".
LowAt(s, n) ==
  \E e \in Alerts(s) :
    /\ e.kind = "low" /\ e.seq <= n
    /\ \A f \in Alerts(s) : f.kind = "recovery" => f.seq < e.seq \/ f.seq > n

\* Alerts that open and close a low episode alternate, reminders fall inside
\* an episode, and LowActive is the state the last of them left.
Alternates(s) ==
  /\ s.lowActive = LowAt(s, s.eventSequence)
  /\ \A e \in Alerts(s) :
       /\ e.kind = "low" => ~LowAt(s, e.seq - 1)
       /\ e.kind \in {"low_reminder", "recovery"} => LowAt(s, e.seq - 1)

=============================================================================
