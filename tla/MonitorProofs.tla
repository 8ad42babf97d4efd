---------------------------- MODULE MonitorProofs ----------------------------
(***************************************************************************)
(* What Evaluate and MarkDelivered keep, for every state, configuration    *)
(* and outcome.                                                            *)
(***************************************************************************)
EXTENDS Monitor, SequenceTheorems, TLAPS

\* A new event is an event.
LEMMA NewEventType ==
  ASSUME NEW kind \in Kinds, NEW now \in Nat, NEW n \in Nat \ {0},
         NEW channels \in SUBSET Channels
  PROVE  NewEvent(kind, now, n, channels) \in Event
<1>1. [ch \in channels |-> "pending"] \in [channels -> Statuses]
  BY DEF Statuses
<1>2. [ch \in channels |-> "pending"] \in Deliveries
  BY <1>1 DEF Deliveries
<1>3. QED
  BY <1>2 DEF NewEvent, Event

\* appendEvent yields a state.
LEMMA AppendEventType ==
  ASSUME NEW s \in State, NEW kind \in Kinds, NEW now \in Nat,
         NEW channels \in SUBSET Channels
  PROVE  AppendEvent(s, kind, now, channels) \in State
<1> DEFINE e == NewEvent(kind, now, s.eventSequence + 1, channels)
<1>1. s.eventSequence + 1 \in Nat \ {0}
  BY DEF State
<1>2. e \in Event
  BY <1>1, NewEventType
<1> HIDE DEF e
<1>3. Append(s.pendingEvents, e) \in Seq(Event)
  BY <1>2 DEF State
<1>4. AppendEvent(s, kind, now, channels) =
        [s EXCEPT !.eventSequence = s.eventSequence + 1,
                  !.pendingEvents = Append(s.pendingEvents, e)]
  BY DEF AppendEvent, e
<1>5. QED
  BY <1>1, <1>3, <1>4 DEF State

\* markDataFailure yields a state.
LEMMA MarkDataFailureType ==
  ASSUME NEW s \in State, NEW cfg \in Config, NEW now \in Nat
  PROVE  MarkDataFailure(s, cfg, now) \in State
<1> DEFINE failed == [s EXCEPT !.consecutiveFailures = @ + 1]
           active == [failed EXCEPT !.errorActive = TRUE]
<1>a. s.consecutiveFailures + 1 \in Nat
  BY DEF State
<1>b. failed \in State
  BY <1>a DEF State
<1> HIDE DEF failed
<1>c. active \in State
  BY <1>b DEF State
<1>1. failed \in State /\ active \in State
  BY <1>b, <1>c
<1>2. cfg.channels \in SUBSET Channels
  BY DEF Config
<1>3. "data_error" \in Kinds
  BY DEF Kinds
<1>4. AppendEvent(active, "data_error", now, cfg.channels) \in State
  BY <1>1, <1>2, <1>3, AppendEventType
<1>5. QED
  BY <1>1, <1>4 DEF MarkDataFailure, failed

\* The plan_changed branch of Evaluate yields a state.
LEMMA PlanChangedType ==
  ASSUME NEW s \in State, NEW cfg \in Config, NEW now \in Nat
  PROVE  PlanChanged(s, cfg, now) \in State
<1> DEFINE reset  == [s EXCEPT !.consecutiveFailures = 0, !.errorActive = FALSE]
           active == [reset EXCEPT !.planChangedActive = TRUE]
<1>1. reset \in State /\ active \in State
  BY DEF State
<1>2. cfg.channels \in SUBSET Channels
  BY DEF Config
<1>3. "plan_changed" \in Kinds
  BY DEF Kinds
<1>4. AppendEvent(active, "plan_changed", now, cfg.channels) \in State
  BY <1>1, <1>2, <1>3, AppendEventType
<1>5. QED
  BY <1>1, <1>4 DEF PlanChanged

\* The hysteresis switch yields a state.
LEMMA ThresholdType ==
  ASSUME NEW s \in State, NEW total \in Nat, NEW cfg \in Config, NEW now \in Nat
  PROVE  Threshold(s, total, cfg, now) \in State
<1> DEFINE low       == [s EXCEPT !.lowActive = TRUE]
           recovered == [s EXCEPT !.lowActive = FALSE]
<1>1. low \in State /\ recovered \in State
  BY DEF State
<1>2. cfg.channels \in SUBSET Channels
  BY DEF Config
<1>3. {"low", "low_reminder", "recovery"} \subseteq Kinds
  BY DEF Kinds
<1>4. /\ AppendEvent(low, "low", now, cfg.channels) \in State
      /\ AppendEvent(s, "low_reminder", now, cfg.channels) \in State
      /\ AppendEvent(recovered, "recovery", now, cfg.channels) \in State
  BY <1>1, <1>2, <1>3, AppendEventType
<1>5. QED
  BY <1>4 DEF Threshold

\* Evaluate yields a state.
LEMMA EvaluateType ==
  ASSUME NEW s \in State, NEW outcome \in Outcome, NEW cfg \in Config,
         NEW now \in Nat
  PROVE  Evaluate(s, outcome, cfg, now) \in State
<1>1. CompleteCheck(s) \in State
  BY DEF CompleteCheck, State
<1>2. MarkDataFailure(s, cfg, now) \in State
  BY MarkDataFailureType
<1>3. outcome.total \in Nat
  BY DEF Outcome
<1>4. outcome.kind \in {"complete", "partial", "plan_changed", "error"}
  BY DEF Outcome
<1>5. /\ Threshold(CompleteCheck(s), outcome.total, cfg, now) \in State
      /\ Threshold(MarkDataFailure(s, cfg, now), outcome.total, cfg, now) \in State
  BY <1>1, <1>2, <1>3, ThresholdType
<1>6. QED
  BY <1>2, <1>4, <1>5, PlanChangedType DEF Evaluate

-----------------------------------------------------------------------------

\* RemoveAt, element by element.
LEMMA RemoveAtShape ==
  ASSUME NEW S, NEW s \in Seq(S), NEW i \in 1..Len(s)
  PROVE  /\ RemoveAt(s, i) \in Seq(S)
         /\ Len(RemoveAt(s, i)) = Len(s) - 1
         /\ \A j \in 1..(Len(s) - 1) :
              RemoveAt(s, i)[j] = IF j < i THEN s[j] ELSE s[j + 1]
<1> DEFINE left == SubSeq(s, 1, i - 1)
           right == SubSeq(s, i + 1, Len(s))
<1>1. left \in Seq(S) /\ Len(left) = i - 1 /\ \A j \in 1..(i-1) : left[j] = s[j]
  OBVIOUS
<1>2. /\ right \in Seq(S) /\ Len(right) = Len(s) - i
      /\ \A j \in 1..(Len(s) - i) : right[j] = s[i + j]
  OBVIOUS
<1>3. RemoveAt(s, i) = left \o right
  BY DEF RemoveAt
<1> HIDE DEF left, right
<1>4. /\ left \o right \in Seq(S)
      /\ Len(left \o right) = Len(left) + Len(right)
      /\ \A j \in 1..(Len(left) + Len(right)) :
           (left \o right)[j] = IF j <= Len(left) THEN left[j]
                                                ELSE right[j - Len(left)]
  BY <1>1, <1>2, ConcatProperties
<1>5. Len(left \o right) = Len(s) - 1
  BY <1>1, <1>2, <1>4
<1>6. ASSUME NEW j \in 1..(Len(s) - 1)
      PROVE  RemoveAt(s, i)[j] = IF j < i THEN s[j] ELSE s[j + 1]
  <2>1. j \in 1..(Len(left) + Len(right))
    BY <1>1, <1>2
  <2>2. CASE j < i
    <3>1. j <= Len(left) /\ j \in 1..(i - 1)
      BY <1>1, <2>2
    <3>2. QED
      BY <1>1, <1>3, <1>4, <2>1, <2>2, <3>1
  <2>3. CASE ~(j < i)
    <3>1. ~(j <= Len(left)) /\ j - Len(left) = j - i + 1
      BY <1>1, <2>3
    <3>2. j - i + 1 \in 1..(Len(s) - i)
      BY <2>3
    <3>3. right[j - i + 1] = s[i + (j - i + 1)]
      BY <1>2, <3>2
    <3>4. i + (j - i + 1) = j + 1
      OBVIOUS
    <3>5. QED
      BY <1>3, <1>4, <2>1, <2>3, <3>1, <3>3, <3>4
  <2>4. QED
    BY <2>2, <2>3
<1>7. QED
  BY <1>3, <1>4, <1>5, <1>6

\* The event after an attempt differs in its delivery only.
LEMMA AttemptedType ==
  ASSUME NEW e \in Event, NEW ch \in Channels, NEW ok \in BOOLEAN
  PROVE  /\ Attempted(e, ch, ok) \in Event
         /\ Attempted(e, ch, ok).seq = e.seq
         /\ Attempted(e, ch, ok).kind = e.kind
         /\ Attempted(e, ch, ok).createdAt = e.createdAt
         /\ DOMAIN Attempted(e, ch, ok).delivery = DOMAIN e.delivery \union {ch}
<1>1. PICK D \in SUBSET Channels : e.delivery \in [D -> Statuses]
  BY DEF Event, Deliveries
<1> DEFINE status == CASE ok -> "delivered"
                       [] ~ok /\ ch \in DOMAIN e.delivery
                            /\ e.delivery[ch] = "delivered" -> "delivered"
                       [] OTHER -> "failed"
           d == [c \in DOMAIN e.delivery \union {ch} |->
                   IF c = ch THEN status ELSE e.delivery[c]]
<1>2. status \in Statuses
  BY DEF Statuses
<1>3. Attempted(e, ch, ok) = [e EXCEPT !.delivery = d]
  BY DEF Attempted
<1> HIDE DEF status
<1>4. d \in [D \union {ch} -> Statuses]
  BY <1>1, <1>2
<1>5. d \in Deliveries
  BY <1>4 DEF Deliveries
<1>6. DOMAIN d = DOMAIN e.delivery \union {ch}
  OBVIOUS
<1> HIDE DEF d
<1>7. QED
  BY <1>3, <1>5, <1>6 DEF Event

\* MarkDelivered yields a state.
LEMMA MarkDeliveredType ==
  ASSUME NEW s \in State, NEW n \in Nat, NEW ch \in Channels,
         NEW ok \in BOOLEAN, NEW now \in Nat
  PROVE  MarkDelivered(s, n, ch, ok, now) \in State
<1>1. CASE PendingIndex(s, n) = {}
  BY <1>1 DEF MarkDelivered
<1>2. CASE PendingIndex(s, n) # {}
  <2> DEFINE i == CHOOSE j \in PendingIndex(s, n) : TRUE
             e == s.pendingEvents[i]
             timed == IF ok THEN UpdateDeliveredTime(s, e.kind, now) ELSE s
             tried == Attempted(e, ch, ok)
  <2>1. i \in PendingIndex(s, n)
    BY <1>2
  <2>2. i \in 1..Len(s.pendingEvents) /\ e \in Event
    BY <2>1 DEF PendingIndex, State
  <2>3. timed \in State /\ timed.pendingEvents = s.pendingEvents
    BY DEF UpdateDeliveredTime, State
  <2>4. tried \in Event
    BY <2>2, AttemptedType
  <2>5. MarkDelivered(s, n, ch, ok, now) = Settle(timed, i, tried)
    BY <1>2 DEF MarkDelivered
  <2> HIDE DEF i, timed, tried, e
  <2>6. Settle(timed, i, tried) \in State
    <3>1. RemoveAt(timed.pendingEvents, i) \in Seq(Event)
      BY <2>2, <2>3, RemoveAtShape DEF State
    <3>2. [timed.pendingEvents EXCEPT ![i] = tried] \in Seq(Event)
      BY <2>2, <2>3, <2>4 DEF State
    <3>3. timed.deliveredEvents \union {tried} \in SUBSET Event
      BY <2>3, <2>4 DEF State
    <3>4. QED
      BY <2>3, <3>1, <3>2, <3>3 DEF Settle, State
  <2> QED
    BY <2>5, <2>6
<1>3. QED
  BY <1>1, <1>2

-----------------------------------------------------------------------------
(* The log.                                                                *)

\* WellLogged depends on the events and their count only.
SameLog(s, t) ==
  /\ t.pendingEvents   = s.pendingEvents
  /\ t.deliveredEvents = s.deliveredEvents
  /\ t.eventSequence   = s.eventSequence

\* A change of the other fields leaves the log well formed.
LEMMA SameLogWellLogged ==
  ASSUME NEW s, NEW t, SameLog(s, t), WellLogged(s)
  PROVE  WellLogged(t)
BY DEF SameLog, WellLogged, Alerts, PendingSet

\* appendEvent adds the one new event, with the next number.
LEMMA AppendEventLog ==
  ASSUME NEW s \in State, NEW kind \in Kinds, NEW now \in Nat,
         NEW channels \in SUBSET Channels
  PROVE  LET t == AppendEvent(s, kind, now, channels)
             e == NewEvent(kind, now, s.eventSequence + 1, channels)
         IN  /\ PendingSet(t)     = PendingSet(s) \union {e}
             /\ t.pendingEvents   = Append(s.pendingEvents, e)
             /\ t.deliveredEvents = s.deliveredEvents
             /\ t.eventSequence   = s.eventSequence + 1
<1> DEFINE t == AppendEvent(s, kind, now, channels)
           e == NewEvent(kind, now, s.eventSequence + 1, channels)
<1>1. /\ t.pendingEvents   = Append(s.pendingEvents, e)
      /\ t.deliveredEvents = s.deliveredEvents
      /\ t.eventSequence   = s.eventSequence + 1
  BY DEF AppendEvent, State
<1> HIDE DEF t, e
<1>2. s.pendingEvents \in Seq(Event)
  BY DEF State
<1>3. PendingSet(t) = PendingSet(s) \union {e}
  BY <1>1, <1>2 DEF PendingSet
<1>4. QED
  BY <1>1, <1>3 DEF t, e

\* appendEvent keeps the log gapless: its number is the next one.
LEMMA AppendEventWellLogged ==
  ASSUME NEW s \in State, NEW kind \in Kinds, NEW now \in Nat,
         NEW channels \in SUBSET Channels, WellLogged(s)
  PROVE  WellLogged(AppendEvent(s, kind, now, channels))
<1> DEFINE t == AppendEvent(s, kind, now, channels)
           e == NewEvent(kind, now, s.eventSequence + 1, channels)
           n == s.eventSequence
<1>1. /\ PendingSet(t)     = PendingSet(s) \union {e}
      /\ t.pendingEvents   = Append(s.pendingEvents, e)
      /\ t.deliveredEvents = s.deliveredEvents
      /\ t.eventSequence   = n + 1
  BY AppendEventLog
<1>2. e.seq = n + 1 /\ n \in Nat
  BY DEF NewEvent, State
<1>3. Alerts(t) = Alerts(s) \union {e}
  BY <1>1 DEF Alerts
<1>4. \A f \in Alerts(s) : f.seq \in 1..n
  BY DEF WellLogged
<1>5. s.pendingEvents \in Seq(Event)
  BY DEF State
<1> HIDE DEF t, e
<1>6. {f.seq : f \in Alerts(t)} = {f.seq : f \in Alerts(s)} \union {e.seq}
  BY <1>3
<1>7. {f.seq : f \in Alerts(t)} = 1..t.eventSequence
  <2>1. 1..(n + 1) = (1..n) \union {n + 1}
    BY <1>2
  <2>2. {f.seq : f \in Alerts(s)} = 1..n
    BY DEF WellLogged
  <2>3. QED
    BY <1>1, <1>2, <1>6, <2>1, <2>2
<1>8. \A f, g \in Alerts(t) : f.seq = g.seq => f = g
  BY <1>2, <1>3, <1>4 DEF WellLogged
<1>9. ASSUME NEW i \in DOMAIN t.pendingEvents, NEW j \in DOMAIN t.pendingEvents,
             i < j
      PROVE  t.pendingEvents[i].seq < t.pendingEvents[j].seq
  <2>1. i \in DOMAIN s.pendingEvents /\ t.pendingEvents[i] = s.pendingEvents[i]
    BY <1>1, <1>5, <1>9
  <2>2. s.pendingEvents[i].seq \in 1..n
    BY <1>4, <2>1 DEF Alerts, PendingSet
  <2>3. CASE j = Len(s.pendingEvents) + 1
    <3>1. t.pendingEvents[j] = e
      BY <1>1, <1>5, <2>3
    <3>2. QED
      BY <1>2, <2>1, <2>2, <3>1
  <2>4. CASE j # Len(s.pendingEvents) + 1
    <3>1. j \in DOMAIN s.pendingEvents /\ t.pendingEvents[j] = s.pendingEvents[j]
      BY <1>1, <1>5, <2>4
    <3>2. QED
      BY <1>9, <2>1, <3>1 DEF WellLogged
  <2>5. QED
    BY <2>3, <2>4
<1>10. e \notin s.deliveredEvents
  BY <1>2, <1>4 DEF Alerts
<1>11. PendingSet(t) \intersect t.deliveredEvents = {}
  BY <1>1, <1>10 DEF WellLogged
<1>12. QED
  BY <1>7, <1>8, <1>9, <1>11 DEF WellLogged, t

\* Pending events have different numbers.
LEMMA PendingSeqDiffer ==
  ASSUME NEW s \in State, WellLogged(s),
         NEW i \in DOMAIN s.pendingEvents, NEW j \in DOMAIN s.pendingEvents, i # j
  PROVE  s.pendingEvents[i].seq # s.pendingEvents[j].seq
<1>1. s.pendingEvents \in Seq(Event)
  BY DEF State
<1>2. s.pendingEvents[i] \in Event /\ s.pendingEvents[j] \in Event
  BY <1>1
<1>3. s.pendingEvents[i].seq \in Nat /\ s.pendingEvents[j].seq \in Nat
  BY <1>2 DEF Event
<1>4. i < j \/ j < i
  BY <1>1
<1>5. QED
  BY <1>3, <1>4 DEF WellLogged

\* Replacing the entry at i, or removing it, changes the set of pending
\* events by that entry only.
LEMMA ReplaceInLog ==
  ASSUME NEW s \in State, NEW t \in State, WellLogged(s),
         NEW i \in 1..Len(s.pendingEvents), NEW e \in Event,
         e.seq = s.pendingEvents[i].seq,
         t.deliveredEvents = s.deliveredEvents,
         t.eventSequence   = s.eventSequence,
         t.pendingEvents   = [s.pendingEvents EXCEPT ![i] = e]
  PROVE  /\ PendingSet(t) = (PendingSet(s) \ {s.pendingEvents[i]}) \union {e}
         /\ WellLogged(t)
<1> DEFINE old == s.pendingEvents[i]
           p   == s.pendingEvents
<1>1. p \in Seq(Event) /\ old \in PendingSet(s)
  BY DEF State, PendingSet
<1>2. \A j \in DOMAIN p : j # i => p[j] # old
  BY <1>1, PendingSeqDiffer
<1>3. /\ DOMAIN t.pendingEvents = DOMAIN p
      /\ \A j \in DOMAIN p : t.pendingEvents[j] = IF j = i THEN e ELSE p[j]
  BY <1>1
<1>4. PendingSet(t) = (PendingSet(s) \ {old}) \union {e}
  BY <1>1, <1>2, <1>3 DEF PendingSet
<1>5. Alerts(t) = (Alerts(s) \ {old}) \union {e}
  <2>1. old \notin s.deliveredEvents
    BY <1>1 DEF WellLogged
  <2>2. QED
    BY <1>4, <2>1 DEF Alerts
<1>6. old \in Alerts(s)
  BY <1>1 DEF Alerts
<1>7. {f.seq : f \in Alerts(t)} = {f.seq : f \in Alerts(s)}
  BY <1>5, <1>6
<1>8. \A f, g \in Alerts(t) : f.seq = g.seq => f = g
  BY <1>5, <1>6 DEF WellLogged
<1>9. \A j, k \in DOMAIN t.pendingEvents :
        j < k => t.pendingEvents[j].seq < t.pendingEvents[k].seq
  BY <1>3 DEF WellLogged
<1>10. e \notin s.deliveredEvents
  BY <1>1, <1>6 DEF WellLogged, Alerts
<1>11. PendingSet(t) \intersect t.deliveredEvents = {}
  BY <1>4, <1>10 DEF WellLogged
<1>12. QED
  BY <1>4, <1>7, <1>8, <1>9, <1>11 DEF WellLogged

\* The removal of RemoveAt, as the move of an event out of the pending list.
LEMMA RemoveFromLog ==
  ASSUME NEW s \in State, NEW t \in State, WellLogged(s),
         NEW i \in 1..Len(s.pendingEvents), NEW e \in Event,
         e.seq = s.pendingEvents[i].seq,
         t.deliveredEvents = s.deliveredEvents \union {e},
         t.eventSequence   = s.eventSequence,
         t.pendingEvents   = RemoveAt(s.pendingEvents, i)
  PROVE  /\ PendingSet(t) = PendingSet(s) \ {s.pendingEvents[i]}
         /\ WellLogged(t)
<1> DEFINE old == s.pendingEvents[i]
           p   == s.pendingEvents
           q   == t.pendingEvents
<1>1. p \in Seq(Event) /\ old \in PendingSet(s)
  BY DEF State, PendingSet
<1>2. \A j \in DOMAIN p : j # i => p[j].seq # old.seq
  BY <1>1, PendingSeqDiffer
<1>3. /\ q \in Seq(Event)
      /\ Len(q) = Len(p) - 1
      /\ \A j \in 1..(Len(p) - 1) : q[j] = IF j < i THEN p[j] ELSE p[j + 1]
  BY <1>1, RemoveAtShape
<1> HIDE DEF p, q
<1>4. PendingSet(t) = PendingSet(s) \ {old}
  <2>1. \A j \in 1..Len(q) : \E k \in 1..Len(p) : k # i /\ q[j] = p[k]
    <3>1. SUFFICES ASSUME NEW j \in 1..Len(q)
                   PROVE \E k \in 1..Len(p) : k # i /\ q[j] = p[k]
      OBVIOUS
    <3>2. CASE j < i
      <4>1. j \in 1..Len(p) /\ j # i /\ q[j] = p[j]
        BY <1>1, <1>3, <3>2 DEF p
      <4>2. QED
        BY <4>1
    <3>3. CASE ~(j < i)
      <4>1. j + 1 \in 1..Len(p) /\ j + 1 # i /\ q[j] = p[j + 1]
        BY <1>1, <1>3, <3>3 DEF p
      <4>2. QED
        BY <4>1
    <3>4. QED
      BY <3>2, <3>3
  <2>2. \A k \in 1..Len(p) : k # i => \E j \in 1..Len(q) : q[j] = p[k]
    <3>1. SUFFICES ASSUME NEW k \in 1..Len(p), k # i
                   PROVE \E j \in 1..Len(q) : q[j] = p[k]
      OBVIOUS
    <3>2. CASE k < i
      <4>1. k \in 1..Len(q) /\ q[k] = p[k]
        BY <1>1, <1>3, <3>2 DEF p
      <4>2. QED
        BY <4>1
    <3>3. CASE ~(k < i)
      <4>1. k - 1 \in 1..Len(q) /\ ~(k - 1 < i) /\ (k - 1) + 1 = k
        BY <1>1, <1>3, <3>1, <3>3 DEF p
      <4>2. q[k - 1] = p[k]
        BY <1>3, <4>1
      <4>3. QED
        BY <4>1, <4>2
    <3>4. QED
      BY <3>2, <3>3
  <2>3. PendingSet(t) = {q[j] : j \in 1..Len(q)}
    BY <1>3 DEF PendingSet, q
  <2>4. PendingSet(s) = {p[k] : k \in 1..Len(p)}
    BY <1>1 DEF PendingSet, p
  <2>5. \A k \in 1..Len(p) : p[k] = old => k = i
    BY <1>1, <1>2 DEF p
  <2>6. old = p[i] /\ i \in 1..Len(p)
    BY DEF p
  <2>7. \A f \in PendingSet(t) : f \in PendingSet(s) /\ f # old
    BY <2>1, <2>3, <2>4, <2>5
  <2>8. \A f \in PendingSet(s) : f # old => f \in PendingSet(t)
    BY <2>2, <2>3, <2>4, <2>6
  <2>9. QED
    BY <2>7, <2>8
<1>5. Alerts(t) = (Alerts(s) \ {old}) \union {e}
  <2>1. old \notin s.deliveredEvents
    BY <1>1 DEF WellLogged
  <2>2. QED
    BY <1>4, <2>1 DEF Alerts
<1>6. old \in Alerts(s)
  BY <1>1 DEF Alerts
<1>7. {f.seq : f \in Alerts(t)} = {f.seq : f \in Alerts(s)}
  BY <1>5, <1>6
<1>8. \A f, g \in Alerts(t) : f.seq = g.seq => f = g
  BY <1>5, <1>6 DEF WellLogged
<1>9. ASSUME NEW j \in 1..Len(q), NEW k \in 1..Len(q), j < k
      PROVE  q[j].seq < q[k].seq
  <2>1. \A a, b \in 1..Len(p) : a < b => p[a].seq < p[b].seq
    BY <1>1 DEF WellLogged, p
  <2>2. /\ Len(p) \in Nat /\ Len(q) = Len(p) - 1
        /\ j + 1 \in 1..Len(p) /\ k + 1 \in 1..Len(p)
        /\ j \in 1..Len(p) /\ k \in 1..Len(p)
    BY <1>1, <1>3
  <2>3. /\ q[j] = IF j < i THEN p[j] ELSE p[j + 1]
        /\ q[k] = IF k < i THEN p[k] ELSE p[k + 1]
    BY <1>3, <2>2
  <2>4. QED
    BY <1>9, <2>1, <2>2, <2>3
<1>10. PendingSet(t) \intersect t.deliveredEvents = {}
  <2>1. e \notin PendingSet(t)
    BY <1>4, <1>6 DEF WellLogged, Alerts
  <2>2. QED
    BY <1>4, <2>1 DEF WellLogged
<1>11. \A j, k \in DOMAIN t.pendingEvents :
         j < k => t.pendingEvents[j].seq < t.pendingEvents[k].seq
  BY <1>3, <1>9 DEF q
<1>12. QED
  BY <1>4, <1>7, <1>8, <1>10, <1>11 DEF WellLogged

\* MarkDelivered replaces one pending event by its attempted version, which
\* stays pending or becomes a delivered event, or does nothing.
LEMMA MarkDeliveredLog ==
  ASSUME NEW s \in State, WellLogged(s), NEW n \in Nat, NEW ch \in Channels,
         NEW ok \in BOOLEAN, NEW now \in Nat
  PROVE  LET t == MarkDelivered(s, n, ch, ok, now)
         IN  /\ WellLogged(t)
             /\ t.eventSequence = s.eventSequence
             /\ \/ t = s
                \/ \E e \in PendingSet(s) :
                     /\ e.seq = n
                     /\ Alerts(t) = (Alerts(s) \ {e}) \union {Attempted(e, ch, ok)}
<1> DEFINE t == MarkDelivered(s, n, ch, ok, now)
<1>1. CASE PendingIndex(s, n) = {}
  BY <1>1 DEF MarkDelivered
<1>2. CASE PendingIndex(s, n) # {}
  <2> DEFINE i == CHOOSE j \in PendingIndex(s, n) : TRUE
             e == s.pendingEvents[i]
             timed == IF ok THEN UpdateDeliveredTime(s, e.kind, now) ELSE s
             tried == Attempted(e, ch, ok)
  <2>1. i \in PendingIndex(s, n)
    BY <1>2
  <2>2. i \in 1..Len(s.pendingEvents) /\ e \in Event /\ e.seq = n
    BY <2>1 DEF PendingIndex, State
  <2>3. timed \in State /\ SameLog(s, timed)
    BY DEF UpdateDeliveredTime, State, SameLog
  <2>4. tried \in Event /\ tried.seq = e.seq
    BY <2>2, AttemptedType
  <2>5. t = Settle(timed, i, tried)
    BY <1>2 DEF MarkDelivered
  <2>6. t \in State
    BY MarkDeliveredType
  <2>7. e \in PendingSet(s) /\ e \notin s.deliveredEvents
    <3>1. i \in DOMAIN s.pendingEvents
      BY <2>1 DEF PendingIndex
    <3>2. e \in PendingSet(s)
      BY <3>1 DEF PendingSet
    <3>3. QED
      BY <3>2 DEF WellLogged
  <2> HIDE DEF i, timed, tried, e, t
  <2>8. CASE AllConfiguredDelivered(tried)
    <3>1. /\ t.deliveredEvents = s.deliveredEvents \union {tried}
          /\ t.eventSequence   = s.eventSequence
          /\ t.pendingEvents   = RemoveAt(s.pendingEvents, i)
      BY <2>3, <2>5, <2>8 DEF Settle, State, SameLog
    <3>2. PendingSet(t) = PendingSet(s) \ {e} /\ WellLogged(t)
      BY <2>2, <2>4, <2>6, <3>1, RemoveFromLog DEF e
    <3>3. Alerts(t) = (Alerts(s) \ {e}) \union {tried}
      BY <2>7, <3>1, <3>2 DEF Alerts
    <3>4. QED
      BY <2>2, <2>7, <3>1, <3>2, <3>3 DEF t, tried
  <2>9. CASE ~AllConfiguredDelivered(tried)
    <3>1. /\ t.deliveredEvents = s.deliveredEvents
          /\ t.eventSequence   = s.eventSequence
          /\ t.pendingEvents   = [s.pendingEvents EXCEPT ![i] = tried]
      BY <2>3, <2>5, <2>9 DEF Settle, State, SameLog
    <3>2. PendingSet(t) = (PendingSet(s) \ {e}) \union {tried} /\ WellLogged(t)
      BY <2>2, <2>4, <2>6, <3>1, ReplaceInLog DEF e
    <3>3. Alerts(t) = (Alerts(s) \ {e}) \union {tried}
      BY <2>7, <3>1, <3>2 DEF Alerts
    <3>4. QED
      BY <2>2, <2>7, <3>1, <3>2, <3>3 DEF t, tried
  <2>10. QED
    BY <2>8, <2>9
<1>3. QED
  BY <1>1, <1>2

\* MarkDelivered records at most the attempted pair, and that only for an
\* accepted attempt.
LEMMA MarkDeliveredRecorded ==
  ASSUME NEW s \in State, WellLogged(s), NEW n \in Nat, NEW ch \in Channels,
         NEW ok \in BOOLEAN, NEW now \in Nat
  PROVE  \A p \in Recorded(MarkDelivered(s, n, ch, ok, now)) :
           p \in Recorded(s) \/ (ok /\ p = <<n, ch>>)
<1> DEFINE t == MarkDelivered(s, n, ch, ok, now)
<1>1. /\ t.eventSequence = s.eventSequence
      /\ \/ t = s
         \/ \E e \in PendingSet(s) :
              /\ e.seq = n
              /\ Alerts(t) = (Alerts(s) \ {e}) \union {Attempted(e, ch, ok)}
  BY MarkDeliveredLog
<1> HIDE DEF t
<1>2. SUFFICES ASSUME NEW p \in Recorded(t), p \notin Recorded(s)
               PROVE  ok /\ p = <<n, ch>>
  BY DEF t
<1>3. PICK e \in PendingSet(s) :
        /\ e.seq = n
        /\ Alerts(t) = (Alerts(s) \ {e}) \union {Attempted(e, ch, ok)}
  BY <1>1, <1>2
<1>4. e \in Event /\ e \in Alerts(s)
  BY DEF PendingSet, State, Alerts
<1>5. PICK f \in Alerts(t) : f.seq = p[1] /\ HasStatus(f, p[2], {"delivered"})
  BY <1>2 DEF Recorded
<1>6. p \in (1..s.eventSequence) \X Channels
  BY <1>1, <1>2 DEF Recorded
<1>7. f = Attempted(e, ch, ok)
  BY <1>2, <1>3, <1>5, <1>6 DEF Recorded
<1>8. ~HasStatus(e, p[2], {"delivered"})
  <2>1. f.seq = e.seq
    BY <1>4, <1>7, AttemptedType
  <2>2. QED
    BY <1>2, <1>4, <1>5, <1>6, <2>1 DEF Recorded
<1>9. ok /\ p[2] = ch
  BY <1>5, <1>7, <1>8, <1>4 DEF HasStatus, Attempted, Event
<1>10. p[1] = n
  BY <1>3, <1>4, <1>5, <1>7, AttemptedType
<1>11. QED
  BY <1>6, <1>9, <1>10

-----------------------------------------------------------------------------
(***************************************************************************)
(* Evaluate takes at most two steps of one shape: each leaves the alerts   *)
(* and the low episode as they are, or raises one alert.  What a property  *)
(* needs to know of Evaluate is what it needs to know of such a step.      *)
(***************************************************************************)

\* No alert is raised and no low episode begins or ends.
Quiet(s, t) ==
  /\ SameLog(s, t)
  /\ t.lowActive          = s.lowActive
  /\ t.lastLowDeliveredAt = s.lastLowDeliveredAt

\* One alert is raised, of a kind that fits the low episode.
Raised(s, t, kind, cfg, now) ==
  /\ t.pendingEvents      = Append(s.pendingEvents,
                                   NewEvent(kind, now, s.eventSequence + 1,
                                            cfg.channels))
  /\ t.deliveredEvents    = s.deliveredEvents
  /\ t.eventSequence      = s.eventSequence + 1
  /\ t.lastLowDeliveredAt = s.lastLowDeliveredAt
  /\ kind = "low"          => ~s.lowActive /\ t.lowActive
  /\ kind = "low_reminder" => s.lowActive /\ t.lowActive /\ ReminderDue(s, cfg, now)
  /\ kind = "recovery"     => s.lowActive /\ ~t.lowActive
  /\ kind \in {"data_error", "plan_changed"} => t.lowActive = s.lowActive

Alerted(s, t, cfg, now) ==
  Quiet(s, t) \/ \E kind \in Kinds : Raised(s, t, kind, cfg, now)

\* A counted failure is such a step.
LEMMA MarkDataFailureAlerts ==
  ASSUME NEW s \in State, NEW cfg \in Config, NEW now \in Nat
  PROVE  Alerted(s, MarkDataFailure(s, cfg, now), cfg, now)
<1> DEFINE failed == [s EXCEPT !.consecutiveFailures = @ + 1]
           active == [failed EXCEPT !.errorActive = TRUE]
           t      == AppendEvent(active, "data_error", now, cfg.channels)
<1>1. Quiet(s, failed)
  BY DEF Quiet, SameLog, State
<1>2. Raised(s, t, "data_error", cfg, now)
  BY DEF Raised, AppendEvent, State
<1>3. "data_error" \in Kinds
  BY DEF Kinds
<1>4. MarkDataFailure(s, cfg, now) \in {failed, t}
  BY DEF MarkDataFailure
<1> HIDE DEF failed, t
<1>5. QED
  BY <1>1, <1>2, <1>3, <1>4 DEF Alerted

\* A plan change is such a step.
LEMMA PlanChangedAlerts ==
  ASSUME NEW s \in State, NEW cfg \in Config, NEW now \in Nat
  PROVE  Alerted(s, PlanChanged(s, cfg, now), cfg, now)
<1> DEFINE reset  == [s EXCEPT !.consecutiveFailures = 0, !.errorActive = FALSE]
           active == [reset EXCEPT !.planChangedActive = TRUE]
           t      == AppendEvent(active, "plan_changed", now, cfg.channels)
<1>1. Quiet(s, reset)
  BY DEF Quiet, SameLog, State
<1>2. Raised(s, t, "plan_changed", cfg, now)
  BY DEF Raised, AppendEvent, State
<1>3. "plan_changed" \in Kinds
  BY DEF Kinds
<1>4. PlanChanged(s, cfg, now) \in {reset, t}
  BY DEF PlanChanged
<1> HIDE DEF reset, t
<1>5. QED
  BY <1>1, <1>2, <1>3, <1>4 DEF Alerted

\* The hysteresis switch is such a step, also after a reset of the counters.
LEMMA ThresholdAlerts ==
  ASSUME NEW s \in State, NEW r \in State, Quiet(s, r),
         NEW total \in Nat, NEW cfg \in Config, NEW now \in Nat
  PROVE  Alerted(s, Threshold(r, total, cfg, now), cfg, now)
<1> DEFINE t    == Threshold(r, total, cfg, now)
           low  == AppendEvent([r EXCEPT !.lowActive = TRUE], "low", now, cfg.channels)
           rem  == AppendEvent(r, "low_reminder", now, cfg.channels)
           rec  == AppendEvent([r EXCEPT !.lowActive = FALSE], "recovery", now,
                               cfg.channels)
<1>1. /\ r.pendingEvents = s.pendingEvents /\ r.deliveredEvents = s.deliveredEvents
      /\ r.eventSequence = s.eventSequence /\ r.lowActive = s.lowActive
      /\ r.lastLowDeliveredAt = s.lastLowDeliveredAt
  BY DEF Quiet, SameLog
<1>2. ~r.lowActive => Raised(s, low, "low", cfg, now)
  BY <1>1 DEF Raised, AppendEvent, State
<1>3. r.lowActive /\ ReminderDue(r, cfg, now) => Raised(s, rem, "low_reminder", cfg, now)
  BY <1>1 DEF Raised, AppendEvent, State, ReminderDue
<1>4. r.lowActive => Raised(s, rec, "recovery", cfg, now)
  BY <1>1 DEF Raised, AppendEvent, State
<1>5. {"low", "low_reminder", "recovery"} \subseteq Kinds
  BY DEF Kinds
<1>6. \/ t = low /\ ~r.lowActive
      \/ t = rem /\ r.lowActive /\ ReminderDue(r, cfg, now)
      \/ t = rec /\ r.lowActive
      \/ t = r
  BY DEF Threshold
<1> HIDE DEF t, low, rem, rec
<1>7. QED
  BY <1>2, <1>3, <1>4, <1>5, <1>6 DEF Alerted, t

\* A state is reached from itself by a step that does nothing.
LEMMA QuietSelf == ASSUME NEW s, NEW cfg, NEW now PROVE Alerted(s, s, cfg, now)
BY DEF Alerted, Quiet, SameLog

\* Evaluate is at most two such steps.
LEMMA EvaluateAlerts ==
  ASSUME NEW s \in State, NEW outcome \in Outcome, NEW cfg \in Config,
         NEW now \in Nat
  PROVE  \E r \in State : /\ Alerted(s, r, cfg, now)
                          /\ Alerted(r, Evaluate(s, outcome, cfg, now), cfg, now)
<1> DEFINE complete == CompleteCheck(s)
           failed   == MarkDataFailure(s, cfg, now)
           t        == Evaluate(s, outcome, cfg, now)
<1>1. outcome.total \in Nat
  BY DEF Outcome
<1>2. complete \in State /\ Quiet(s, complete)
  BY DEF CompleteCheck, State, Quiet, SameLog
<1>3. failed \in State /\ Alerted(s, failed, cfg, now)
  BY MarkDataFailureType, MarkDataFailureAlerts
<1>4. Alerted(s, PlanChanged(s, cfg, now), cfg, now)
  BY PlanChangedAlerts
<1> HIDE DEF complete, failed
<1>5. Alerted(s, Threshold(complete, outcome.total, cfg, now), cfg, now)
  BY <1>1, <1>2, ThresholdAlerts
<1>6. Alerted(failed, Threshold(failed, outcome.total, cfg, now), cfg, now)
  <2>1. Quiet(failed, failed)
    BY DEF Quiet, SameLog
  <2>2. QED
    BY <1>1, <1>3, <2>1, ThresholdAlerts
<1>7. outcome.kind \in {"complete", "partial", "plan_changed", "error"}
  BY DEF Outcome
<1>8. \/ t = PlanChanged(s, cfg, now)
      \/ t = failed
      \/ t = Threshold(complete, outcome.total, cfg, now)
      \/ t = Threshold(failed, outcome.total, cfg, now)
  BY <1>7 DEF Evaluate, complete, failed
<1> HIDE DEF t
<1>9. QED
  BY <1>3, <1>4, <1>5, <1>6, <1>8, QuietSelf DEF t

\* Up to n alerts, which nobody has got, are added; nothing else changes.
Raises(s, t, n) ==
  /\ t.eventSequence \in s.eventSequence .. s.eventSequence + n
  /\ t.deliveredEvents = s.deliveredEvents
  /\ PendingSet(s) \subseteq PendingSet(t)
  /\ \A e \in PendingSet(t) \ PendingSet(s) :
       /\ e.seq > s.eventSequence
       /\ \A ch \in DOMAIN e.delivery : e.delivery[ch] = "pending"

\* What a state holds are events, numbered by naturals.
LEMMA AlertsAreEvents ==
  ASSUME NEW s \in State
  PROVE  PendingSet(s) \subseteq Event /\ Alerts(s) \subseteq Event
<1>1. s.pendingEvents \in Seq(Event) /\ s.deliveredEvents \in SUBSET Event
  BY DEF State
<1>2. PendingSet(s) \subseteq Event
  BY <1>1 DEF PendingSet
<1>3. QED
  BY <1>1, <1>2 DEF Alerts

\* A step of Evaluate adds one alert or none, and keeps the log gapless.
LEMMA AlertedRaises ==
  ASSUME NEW s \in State, NEW t \in State, NEW cfg \in Config, NEW now \in Nat,
         WellLogged(s), Alerted(s, t, cfg, now)
  PROVE  WellLogged(t) /\ Raises(s, t, 1)
<1>1. s.eventSequence \in Nat
  BY DEF State
<1>2. CASE Quiet(s, t)
  <2>1. SameLog(s, t)
    BY <1>2 DEF Quiet
  <2>2. t.eventSequence = s.eventSequence /\ t.deliveredEvents = s.deliveredEvents
        /\ PendingSet(t) = PendingSet(s)
    BY <2>1 DEF SameLog, PendingSet
  <2>3. QED
    BY <1>1, <2>1, <2>2, SameLogWellLogged DEF Raises
<1>3. ASSUME NEW kind \in Kinds, Raised(s, t, kind, cfg, now)
      PROVE  WellLogged(t) /\ Raises(s, t, 1)
  <2> DEFINE e == NewEvent(kind, now, s.eventSequence + 1, cfg.channels)
             u == AppendEvent(s, kind, now, cfg.channels)
  <2>1. cfg.channels \in SUBSET Channels
    BY DEF Config
  <2>2. /\ PendingSet(u)     = PendingSet(s) \union {e}
        /\ u.pendingEvents   = Append(s.pendingEvents, e)
        /\ u.deliveredEvents = s.deliveredEvents
        /\ u.eventSequence   = s.eventSequence + 1
    BY <2>1, AppendEventLog
  <2>3. WellLogged(u)
    BY <2>1, AppendEventWellLogged
  <2>4. SameLog(u, t)
    BY <1>3, <2>2 DEF Raised, SameLog
  <2>5. e.seq > s.eventSequence /\ \A ch \in DOMAIN e.delivery : e.delivery[ch] = "pending"
    BY <1>1 DEF NewEvent
  <2> HIDE DEF e, u
  <2>6. PendingSet(t) = PendingSet(s) \union {e}
    BY <2>2, <2>4 DEF SameLog, PendingSet
  <2>7. t.eventSequence = s.eventSequence + 1 /\ t.deliveredEvents = s.deliveredEvents
    BY <1>3 DEF Raised
  <2>8. QED
    BY <1>1, <2>3, <2>4, <2>5, <2>6, <2>7, SameLogWellLogged DEF Raises
<1>4. QED
  BY <1>2, <1>3 DEF Alerted

\* Evaluate adds two alerts at most.
LEMMA EvaluateRaises ==
  ASSUME NEW s \in State, NEW outcome \in Outcome, NEW cfg \in Config,
         NEW now \in Nat, WellLogged(s)
  PROVE  Raises(s, Evaluate(s, outcome, cfg, now), 2)
<1> DEFINE t == Evaluate(s, outcome, cfg, now)
<1>1. t \in State
  BY EvaluateType
<1> HIDE DEF t
<1>2. PICK r \in State : Alerted(s, r, cfg, now) /\ Alerted(r, t, cfg, now)
  BY EvaluateAlerts DEF t
<1>3. WellLogged(r) /\ Raises(s, r, 1) /\ Raises(r, t, 1)
  BY <1>1, <1>2, AlertedRaises
<1>4. s.eventSequence \in Nat /\ r.eventSequence \in Nat /\ t.eventSequence \in Nat
  BY <1>1 DEF State
<1>5. \A e \in PendingSet(t) : e.seq \in Nat
  BY <1>1, AlertsAreEvents DEF Event
<1>6. Raises(s, t, 2)
  BY <1>3, <1>4, <1>5 DEF Raises
<1>7. QED
  BY <1>6 DEF t

\* The pairs in which an alert that was raised last stands.
LEMMA StatusPairs ==
  ASSUME NEW s \in State, WellLogged(s), NEW e \in Alerts(s), NEW ch,
         NEW X, HasStatus(e, ch, X)
  PROVE  <<e.seq, ch>> \in (1..s.eventSequence) \X Channels
<1>1. e \in Event
  BY AlertsAreEvents
<1>2. DOMAIN e.delivery \subseteq Channels
  BY <1>1 DEF Event, Deliveries
<1>3. e.seq \in 1..s.eventSequence
  BY DEF WellLogged
<1>4. QED
  BY <1>2, <1>3 DEF HasStatus

\* New alerts are owed, nothing becomes recorded, and nothing is settled.
LEMMA RaisesPairs ==
  ASSUME NEW s \in State, NEW t \in State, WellLogged(s), WellLogged(t),
         NEW n \in Nat, Raises(s, t, n)
  PROVE  /\ Recorded(t) = Recorded(s)
         /\ Owed(s) \subseteq Owed(t)
         /\ Owed(t) \ Owed(s) \subseteq (s.eventSequence + 1 .. t.eventSequence) \X Channels
<1>1. s.eventSequence \in Nat /\ t.eventSequence \in Nat
  BY DEF State
<1>2. s.eventSequence <= t.eventSequence /\ 1..s.eventSequence \subseteq 1..t.eventSequence
  BY <1>1 DEF Raises
<1>3. PendingSet(s) \subseteq PendingSet(t) /\ Alerts(s) \subseteq Alerts(t)
  BY DEF Raises, Alerts
<1>4. ASSUME NEW p \in Recorded(t) PROVE p \in Recorded(s)
  <2>1. PICK f \in Alerts(t) : f.seq = p[1] /\ HasStatus(f, p[2], {"delivered"})
    BY <1>4 DEF Recorded
  <2>2. f \in Alerts(s)
    BY <2>1 DEF Raises, Alerts, HasStatus
  <2>3. <<f.seq, p[2]>> \in (1..s.eventSequence) \X Channels
    BY <2>1, <2>2, StatusPairs
  <2>4. p = <<f.seq, p[2]>>
    BY <1>4, <2>1 DEF Recorded
  <2>5. QED
    BY <2>1, <2>2, <2>3, <2>4 DEF Recorded
<1>5. Recorded(s) \subseteq Recorded(t)
  BY <1>2, <1>3 DEF Recorded
<1>6. Owed(s) \subseteq Owed(t)
  BY <1>2, <1>3 DEF Owed
<1>7. ASSUME NEW p \in Owed(t), p \notin Owed(s)
      PROVE  p \in (s.eventSequence + 1 .. t.eventSequence) \X Channels
  <2>1. PICK f \in PendingSet(t) :
          f.seq = p[1] /\ HasStatus(f, p[2], {"pending", "failed"})
    BY <1>7 DEF Owed
  <2>2. p \in (1..t.eventSequence) \X Channels
    BY <1>7 DEF Owed
  <2>3. f \notin PendingSet(s)
    <3>1. SUFFICES ASSUME f \in PendingSet(s) PROVE FALSE
      OBVIOUS
    <3>2. f \in Alerts(s)
      BY <3>1 DEF Alerts
    <3>3. <<f.seq, p[2]>> \in (1..s.eventSequence) \X Channels
      BY <2>1, <3>2, StatusPairs
    <3>4. QED
      BY <1>7, <2>1, <2>2, <3>1, <3>3 DEF Owed
  <2>4. f.seq > s.eventSequence
    BY <2>1, <2>3 DEF Raises
  <2>5. QED
    BY <1>1, <2>1, <2>2, <2>4
<1>8. QED
  BY <1>4, <1>5, <1>6, <1>7

\* Evaluate keeps the log gapless and records no delivery.
LEMMA EvaluateLog ==
  ASSUME NEW s \in State, NEW outcome \in Outcome, NEW cfg \in Config,
         NEW now \in Nat, WellLogged(s)
  PROVE  /\ WellLogged(Evaluate(s, outcome, cfg, now))
         /\ Recorded(Evaluate(s, outcome, cfg, now)) = Recorded(s)
<1> DEFINE t == Evaluate(s, outcome, cfg, now)
<1>1. t \in State
  BY EvaluateType
<1>2. Raises(s, t, 2)
  BY EvaluateRaises
<1> HIDE DEF t
<1>3. PICK r \in State : Alerted(s, r, cfg, now) /\ Alerted(r, t, cfg, now)
  BY EvaluateAlerts DEF t
<1>4. WellLogged(t)
  BY <1>1, <1>3, AlertedRaises
<1>5. Recorded(t) = Recorded(s)
  BY <1>1, <1>2, <1>4, RaisesPairs
<1>6. QED
  BY <1>4, <1>5 DEF t

\* t has every alert of s, unchanged but for its deliveries, and every
\* delivery recorded of them.
Keeps(s, t) ==
  /\ Recorded(s) \subseteq Recorded(t)
  /\ \A e \in Alerts(s) :
       \E f \in Alerts(t) :
         /\ f.seq = e.seq /\ f.kind = e.kind /\ f.createdAt = e.createdAt
         /\ DOMAIN f.delivery = DOMAIN e.delivery

\* New alerts are added to the others.
LEMMA RaisesKeeps ==
  ASSUME NEW s \in State, NEW t \in State, WellLogged(s), WellLogged(t),
         NEW n \in Nat, Raises(s, t, n)
  PROVE  Keeps(s, t)
<1>1. Alerts(s) \subseteq Alerts(t)
  BY DEF Raises, Alerts
<1>2. Recorded(s) \subseteq Recorded(t)
  BY RaisesPairs
<1>3. QED
  BY <1>1, <1>2 DEF Keeps

-----------------------------------------------------------------------------
(* What an attempt for an owed pair changes.                               *)

\* The pairs no attempt has been made for.
Fresh(s) ==
  {p \in (1..s.eventSequence) \X Channels :
     \E e \in PendingSet(s) : e.seq = p[1] /\ HasStatus(e, p[2], {"pending"})}

\* s and t differ in e, which becomes f and is still pending, or settled.
Moves(s, t, e, f) ==
  /\ e \in PendingSet(s)
  /\ \/ /\ PendingSet(t) = (PendingSet(s) \ {e}) \union {f}
        /\ t.deliveredEvents = s.deliveredEvents
        /\ ~AllConfiguredDelivered(f)
     \/ /\ PendingSet(t) = PendingSet(s) \ {e}
        /\ t.deliveredEvents = s.deliveredEvents \union {f}
        /\ AllConfiguredDelivered(f)

\* LastLowDeliveredAt is the time of the last low alert or reminder that was
\* delivered, and the rest of the state is the log.
LEMMA MarkDeliveredMoves ==
  ASSUME NEW s \in State, WellLogged(s), NEW n \in Nat, NEW ch \in Channels,
         NEW ok \in BOOLEAN, NEW now \in Nat, <<n, ch>> \in Owed(s)
  PROVE  LET t == MarkDelivered(s, n, ch, ok, now)
         IN  /\ t.eventSequence       = s.eventSequence
             /\ t.lowActive           = s.lowActive
             /\ t.errorActive         = s.errorActive
             /\ t.consecutiveFailures = s.consecutiveFailures
             /\ \E e \in PendingSet(s) :
                  /\ e.seq = n
                  /\ HasStatus(e, ch, {"pending", "failed"})
                  /\ Moves(s, t, e, Attempted(e, ch, ok))
                  /\ t.lastLowDeliveredAt =
                       IF ok /\ e.kind \in {"low", "low_reminder"} THEN now
                       ELSE s.lastLowDeliveredAt
<1> DEFINE t == MarkDelivered(s, n, ch, ok, now)
           i == CHOOSE j \in PendingIndex(s, n) : TRUE
           e == s.pendingEvents[i]
           timed == IF ok THEN UpdateDeliveredTime(s, e.kind, now) ELSE s
           tried == Attempted(e, ch, ok)
<1>1. PICK d \in PendingSet(s) : d.seq = n /\ HasStatus(d, ch, {"pending", "failed"})
  BY DEF Owed
<1>2. i \in PendingIndex(s, n)
  <2>1. PICK j \in DOMAIN s.pendingEvents : s.pendingEvents[j] = d
    BY DEF PendingSet
  <2>2. j \in PendingIndex(s, n)
    BY <1>1, <2>1 DEF PendingIndex
  <2>3. QED
    BY <2>2
<1>3. i \in DOMAIN s.pendingEvents /\ e.seq = n
  BY <1>2 DEF PendingIndex
<1>4. i \in 1..Len(s.pendingEvents) /\ e \in Event /\ e \in PendingSet(s)
  <2>1. s.pendingEvents \in Seq(Event)
    BY DEF State
  <2>2. e \in PendingSet(s)
    BY <1>3 DEF PendingSet
  <2>3. QED
    BY <1>3, <2>1, <2>2, AlertsAreEvents
<1>5. e = d
  BY <1>1, <1>3, <1>4 DEF WellLogged, Alerts
<1>6. t = Settle(timed, i, tried)
  BY <1>2 DEF MarkDelivered
<1>7. /\ timed \in State /\ SameLog(s, timed) /\ timed.lowActive = s.lowActive
      /\ timed.errorActive = s.errorActive
      /\ timed.consecutiveFailures = s.consecutiveFailures
      /\ timed.lastLowDeliveredAt =
           IF ok /\ e.kind \in {"low", "low_reminder"} THEN now
           ELSE s.lastLowDeliveredAt
  BY DEF UpdateDeliveredTime, State, SameLog
<1>8. tried \in Event /\ tried.seq = e.seq
  BY <1>4, AttemptedType
<1>9. t \in State
  BY MarkDeliveredType
<1> HIDE DEF t, timed, tried
<1>10. /\ t.eventSequence = s.eventSequence /\ t.lowActive = s.lowActive
       /\ t.errorActive = s.errorActive
       /\ t.consecutiveFailures = s.consecutiveFailures
       /\ t.lastLowDeliveredAt =
            IF ok /\ e.kind \in {"low", "low_reminder"} THEN now
            ELSE s.lastLowDeliveredAt
  BY <1>6, <1>7 DEF Settle, State, SameLog
<1> HIDE DEF e, i
<1>11. Moves(s, t, e, tried)
  <2>1. CASE AllConfiguredDelivered(tried)
    <3>1. /\ t.deliveredEvents = s.deliveredEvents \union {tried}
          /\ t.pendingEvents   = RemoveAt(s.pendingEvents, i)
      BY <1>6, <1>7, <2>1 DEF Settle, State, SameLog
    <3>2. PendingSet(t) = PendingSet(s) \ {e}
      BY <1>4, <1>8, <1>9, <1>10, <3>1, RemoveFromLog DEF e
    <3>3. QED
      BY <1>4, <2>1, <3>1, <3>2 DEF Moves
  <2>2. CASE ~AllConfiguredDelivered(tried)
    <3>1. /\ t.deliveredEvents = s.deliveredEvents
          /\ t.pendingEvents   = [s.pendingEvents EXCEPT ![i] = tried]
      BY <1>6, <1>7, <2>2 DEF Settle, State, SameLog
    <3>2. PendingSet(t) = (PendingSet(s) \ {e}) \union {tried}
      BY <1>4, <1>8, <1>9, <1>10, <3>1, ReplaceInLog DEF e
    <3>3. QED
      BY <1>4, <2>2, <3>1, <3>2 DEF Moves
  <2>3. QED
    BY <2>1, <2>2
<1>12. HasStatus(e, ch, {"pending", "failed"})
  BY <1>1, <1>5
<1>13. e.seq = n
  BY <1>3 DEF e
<1>14. QED
  BY <1>4, <1>10, <1>11, <1>12, <1>13 DEF t, tried

\* The delivery of an owed channel after an attempt.
LEMMA AttemptedStatus ==
  ASSUME NEW e \in Event, NEW ch, HasStatus(e, ch, {"pending", "failed"}),
         NEW ok \in BOOLEAN
  PROVE  /\ DOMAIN Attempted(e, ch, ok).delivery = DOMAIN e.delivery
         /\ \A c \in DOMAIN e.delivery :
              Attempted(e, ch, ok).delivery[c] =
                IF c # ch THEN e.delivery[c] ELSE IF ok THEN "delivered" ELSE "failed"
         /\ AllConfiguredDelivered(Attempted(e, ch, ok)) => ok
<1> DEFINE status == CASE ok -> "delivered"
                       [] ~ok /\ ch \in DOMAIN e.delivery
                            /\ e.delivery[ch] = "delivered" -> "delivered"
                       [] OTHER -> "failed"
           d == [c \in DOMAIN e.delivery \union {ch} |->
                   IF c = ch THEN status ELSE e.delivery[c]]
<1>1. ch \in DOMAIN e.delivery /\ e.delivery[ch] # "delivered"
  BY DEF HasStatus
<1>2. status = IF ok THEN "delivered" ELSE "failed"
  BY <1>1
<1>3. Attempted(e, ch, ok) = [e EXCEPT !.delivery = d]
  BY DEF Attempted
<1> HIDE DEF status
<1>4. DOMAIN d = DOMAIN e.delivery
  BY <1>1
<1>5. \A c \in DOMAIN e.delivery :
        d[c] = IF c # ch THEN e.delivery[c] ELSE IF ok THEN "delivered" ELSE "failed"
  BY <1>2
<1> HIDE DEF d
<1>6. Attempted(e, ch, ok).delivery = d
  BY <1>3 DEF Event
<1>7. AllConfiguredDelivered(Attempted(e, ch, ok)) => ok
  BY <1>1, <1>4, <1>5, <1>6 DEF AllConfiguredDelivered
<1>8. QED
  BY <1>4, <1>5, <1>6, <1>7

\* An accepted attempt settles the pair and records it; any other attempt
\* leaves it owed.  Either way it is no longer fresh, and other pairs keep
\* what they had.
LEMMA MarkDeliveredPairs ==
  ASSUME NEW s \in State, WellLogged(s), NEW n \in Nat, NEW ch \in Channels,
         NEW ok \in BOOLEAN, NEW now \in Nat, <<n, ch>> \in Owed(s)
  PROVE  LET t == MarkDelivered(s, n, ch, ok, now)
         IN  /\ Owed(t) = IF ok THEN Owed(s) \ {<<n, ch>>} ELSE Owed(s)
             /\ Recorded(t) = IF ok THEN Recorded(s) \union {<<n, ch>>} ELSE Recorded(s)
             /\ Fresh(t) \subseteq Fresh(s) \ {<<n, ch>>}
             /\ Keeps(s, t)
<1> DEFINE t == MarkDelivered(s, n, ch, ok, now)
<1>1. t.eventSequence = s.eventSequence
  BY MarkDeliveredMoves
<1>2. PICK e \in PendingSet(s) :
        /\ e.seq = n
        /\ HasStatus(e, ch, {"pending", "failed"})
        /\ Moves(s, t, e, Attempted(e, ch, ok))
  BY MarkDeliveredMoves
<1> DEFINE f == Attempted(e, ch, ok)
<1>3. e \in Event /\ e \in Alerts(s)
  BY AlertsAreEvents DEF Alerts
<1>4. f.seq = n /\ f.kind = e.kind /\ f.createdAt = e.createdAt
  BY <1>2, <1>3, AttemptedType
<1>5. /\ DOMAIN f.delivery = DOMAIN e.delivery
      /\ \A c \in DOMAIN e.delivery :
           f.delivery[c] =
             IF c # ch THEN e.delivery[c] ELSE IF ok THEN "delivered" ELSE "failed"
  BY <1>2, <1>3, AttemptedStatus
<1> HIDE DEF t, f
<1>6. /\ \/ PendingSet(t) = (PendingSet(s) \ {e}) \union {f}
         \/ PendingSet(t) = PendingSet(s) \ {e} /\ AllConfiguredDelivered(f)
      /\ Alerts(t) = (Alerts(s) \ {e}) \union {f}
  <2>1. e \notin s.deliveredEvents
    BY <1>2 DEF WellLogged
  <2>2. QED
    BY <1>2, <2>1 DEF Moves, Alerts, f
<1>7. \A g \in Alerts(s) : g.seq = n => g = e
  BY <1>2, <1>3 DEF WellLogged
<1>8. e.delivery[ch] # "delivered" /\ ch \in DOMAIN e.delivery
  BY <1>2 DEF HasStatus
<1>9. n \in 1..s.eventSequence
  BY DEF Owed
<1>10. ASSUME NEW m \in 1..s.eventSequence, NEW c \in Channels
       PROVE  /\ <<m, c>> \in Owed(t) <=>
                   <<m, c>> \in Owed(s) /\ (<<m, c>> = <<n, ch>> => ~ok)
              /\ <<m, c>> \in Recorded(t) <=>
                   <<m, c>> \in Recorded(s) \/ (<<m, c>> = <<n, ch>> /\ ok)
              /\ <<m, c>> \in Fresh(t) => <<m, c>> \in Fresh(s) /\ <<m, c>> # <<n, ch>>
  <2> DEFINE In(A, X) == \E g \in A : g.seq = m /\ HasStatus(g, c, X)
  <2>1. /\ <<m, c>> \in Owed(s) <=> In(PendingSet(s), {"pending", "failed"})
        /\ <<m, c>> \in Owed(t) <=> In(PendingSet(t), {"pending", "failed"})
        /\ <<m, c>> \in Recorded(s) <=> In(Alerts(s), {"delivered"})
        /\ <<m, c>> \in Recorded(t) <=> In(Alerts(t), {"delivered"})
        /\ <<m, c>> \in Fresh(s) <=> In(PendingSet(s), {"pending"})
        /\ <<m, c>> \in Fresh(t) <=> In(PendingSet(t), {"pending"})
    BY <1>1 DEF Owed, Recorded, Fresh
  <2>2. CASE m # n
    BY <1>2, <1>4, <1>6, <2>1, <2>2
  <2>3. CASE m = n
    <3>1. /\ In(PendingSet(s), {"pending", "failed"}) <=> HasStatus(e, c, {"pending", "failed"})
          /\ In(PendingSet(s), {"pending"}) <=> HasStatus(e, c, {"pending"})
          /\ In(Alerts(s), {"delivered"}) <=> HasStatus(e, c, {"delivered"})
      BY <1>2, <1>3, <1>7, <2>3 DEF Alerts
    <3>2. \A g \in Alerts(t) : g.seq = n => g = f
      BY <1>6, <1>7
    <3>3. In(Alerts(t), {"delivered"}) <=> HasStatus(f, c, {"delivered"})
      BY <1>4, <1>6, <2>3, <3>2
    <3>4. \A X \in {{"pending", "failed"}, {"pending"}} :
            In(PendingSet(t), X) <=> HasStatus(f, c, X)
      <4>1. SUFFICES ASSUME NEW X \in {{"pending", "failed"}, {"pending"}}
                     PROVE  In(PendingSet(t), X) <=> HasStatus(f, c, X)
        OBVIOUS
      <4>2. CASE f \in PendingSet(t)
        BY <1>4, <2>3, <3>2, <4>2 DEF Alerts
      <4>3. CASE f \notin PendingSet(t)
        <5>1. AllConfiguredDelivered(f) /\ ~In(PendingSet(t), X)
          BY <1>6, <2>3, <3>2, <4>3 DEF Alerts
        <5>2. ~HasStatus(f, c, X)
          BY <5>1 DEF AllConfiguredDelivered, HasStatus
        <5>3. QED
          BY <5>1, <5>2
      <4>4. QED
        BY <4>2, <4>3
    <3>5. /\ HasStatus(f, c, {"pending", "failed"}) <=>
               HasStatus(e, c, {"pending", "failed"}) /\ (c = ch => ~ok)
          /\ HasStatus(f, c, {"delivered"}) <=>
               HasStatus(e, c, {"delivered"}) \/ (c = ch /\ ok)
          /\ HasStatus(f, c, {"pending"}) => HasStatus(e, c, {"pending"}) /\ c # ch
      BY <1>2, <1>5, <1>8 DEF HasStatus
    <3>6. <<m, c>> = <<n, ch>> <=> c = ch
      BY <2>3
    <3>7. QED
      BY <2>1, <3>1, <3>3, <3>4, <3>5, <3>6
  <2>4. QED
    BY <2>2, <2>3
<1>11. /\ Owed(s) \subseteq (1..s.eventSequence) \X Channels
       /\ Owed(t) \subseteq (1..s.eventSequence) \X Channels
       /\ Recorded(s) \subseteq (1..s.eventSequence) \X Channels
       /\ Recorded(t) \subseteq (1..s.eventSequence) \X Channels
       /\ Fresh(t) \subseteq (1..s.eventSequence) \X Channels
  BY <1>1 DEF Owed, Recorded, Fresh
<1>12. Owed(t) = IF ok THEN Owed(s) \ {<<n, ch>>} ELSE Owed(s)
  <2>1. ASSUME NEW p \in (1..s.eventSequence) \X Channels
        PROVE  p \in Owed(t) <=> p \in Owed(s) /\ (p = <<n, ch>> => ~ok)
    BY <1>10
  <2>2. CASE ok
    BY <1>11, <2>1, <2>2
  <2>3. CASE ~ok
    BY <1>11, <2>1, <2>3
  <2>4. QED
    BY <2>2, <2>3
<1>13. Recorded(t) = IF ok THEN Recorded(s) \union {<<n, ch>>} ELSE Recorded(s)
  BY <1>9, <1>10, <1>11
<1>14. Fresh(t) \subseteq Fresh(s) \ {<<n, ch>>}
  BY <1>10, <1>11
<1>15. \A g \in Alerts(s) :
         \E h \in Alerts(t) :
           /\ h.seq = g.seq /\ h.kind = g.kind /\ h.createdAt = g.createdAt
           /\ DOMAIN h.delivery = DOMAIN g.delivery
  BY <1>2, <1>4, <1>5, <1>6
<1>16. Keeps(s, t)
  BY <1>13, <1>15 DEF Keeps
<1>17. QED
  BY <1>12, <1>13, <1>14, <1>16 DEF t

-----------------------------------------------------------------------------
(***************************************************************************)
(* Low episodes, the times of alerts, and outages, through Evaluate and    *)
(* through an attempt.                                                     *)
(***************************************************************************)

\* The alert a step raises has the next number.
LEMMA RaisedAlert ==
  ASSUME NEW s \in State, NEW t \in State, NEW cfg \in Config, NEW now \in Nat,
         NEW kind \in Kinds, Raised(s, t, kind, cfg, now)
  PROVE  \E e \in Event : /\ e.seq = s.eventSequence + 1
                          /\ e.kind = kind
                          /\ e.createdAt = now
                          /\ PendingSet(t) = PendingSet(s) \union {e}
                          /\ Alerts(t) = Alerts(s) \union {e}
<1> DEFINE e == NewEvent(kind, now, s.eventSequence + 1, cfg.channels)
           u == AppendEvent(s, kind, now, cfg.channels)
<1>1. cfg.channels \in SUBSET Channels /\ s.eventSequence + 1 \in Nat \ {0}
  BY DEF Config, State
<1>2. PendingSet(u) = PendingSet(s) \union {e} /\ u.pendingEvents = Append(s.pendingEvents, e)
  BY <1>1, AppendEventLog
<1>3. e \in Event
  BY <1>1, NewEventType
<1>4. e.seq = s.eventSequence + 1 /\ e.kind = kind /\ e.createdAt = now
  BY DEF NewEvent
<1>5. t.pendingEvents = Append(s.pendingEvents, e) /\ t.deliveredEvents = s.deliveredEvents
  BY DEF Raised
<1> HIDE DEF e, u
<1>6. PendingSet(t) = PendingSet(s) \union {e}
  BY <1>2, <1>5 DEF PendingSet
<1>7. Alerts(t) = Alerts(s) \union {e}
  BY <1>5, <1>6 DEF Alerts
<1>8. QED
  BY <1>3, <1>4, <1>6, <1>7

\* The alerts of a gapless log are numbered up to its length.
LEMMA AlertNumbers ==
  ASSUME NEW s \in State, WellLogged(s), NEW e \in Alerts(s)
  PROVE  e.seq \in Nat /\ 1 <= e.seq /\ e.seq <= s.eventSequence
<1>1. e.seq \in 1..s.eventSequence /\ s.eventSequence \in Nat
  BY DEF WellLogged, State
<1>2. QED
  BY <1>1

\* A new alert does not touch the episodes before it.
LEMMA LowAtGrows ==
  ASSUME NEW s \in State, WellLogged(s), NEW t, NEW e,
         e.seq = s.eventSequence + 1, Alerts(t) = Alerts(s) \union {e}
  PROVE  /\ \A n \in 0..s.eventSequence : LowAt(t, n) = LowAt(s, n)
         /\ LowAt(t, s.eventSequence + 1) =
              (e.kind = "low" \/ (e.kind # "recovery" /\ LowAt(s, s.eventSequence)))
<1> DEFINE N == s.eventSequence
<1>1. N \in Nat /\ \A f \in Alerts(s) : f.seq \in Nat /\ f.seq <= N
  BY AlertNumbers DEF State
<1>2. ASSUME NEW n \in 0..N PROVE LowAt(t, n) = LowAt(s, n)
  <2>1. e.seq \in Nat /\ e.seq > n /\ \A f \in {e} : ~(f.seq <= n)
    BY <1>1
  <2>2. ASSUME LowAt(s, n) PROVE LowAt(t, n)
    BY <1>1, <2>1, <2>2 DEF LowAt
  <2>3. ASSUME LowAt(t, n) PROVE LowAt(s, n)
    BY <1>1, <2>1, <2>3 DEF LowAt
  <2>4. LowAt(s, n) \in BOOLEAN /\ LowAt(t, n) \in BOOLEAN
    BY DEF LowAt
  <2>5. QED
    BY <2>2, <2>3, <2>4
<1>3. CASE e.kind = "low"
  <2>1. e \in Alerts(t)
    OBVIOUS
  <2>2. \A f \in Alerts(t) : f.kind = "recovery" => f.seq < e.seq
    BY <1>1, <1>3
  <2>3. e.seq <= N + 1
    BY <1>1
  <2>4. LowAt(t, N + 1)
    BY <1>3, <2>1, <2>2, <2>3 DEF LowAt
  <2>5. QED
    BY <1>2, <1>3, <2>4
<1>4. CASE e.kind = "recovery"
  <2>1. SUFFICES ASSUME LowAt(t, N + 1) PROVE FALSE
    BY <1>2, <1>4 DEF LowAt
  <2>2. PICK d \in Alerts(t) :
          /\ d.kind = "low"
          /\ \A f \in Alerts(t) : f.kind = "recovery" => f.seq < d.seq \/ f.seq > N + 1
    BY <2>1 DEF LowAt
  <2>3. d \in Alerts(s)
    BY <1>4, <2>2
  <2>4. e.seq < d.seq \/ e.seq > N + 1
    BY <1>4, <2>2
  <2>5. QED
    BY <1>1, <2>3, <2>4
<1>5. CASE e.kind # "low" /\ e.kind # "recovery"
  <2>1. ASSUME LowAt(s, N) PROVE LowAt(t, N + 1)
    <3>1. PICK d \in Alerts(s) :
            /\ d.kind = "low"
            /\ \A f \in Alerts(s) : f.kind = "recovery" => f.seq < d.seq \/ f.seq > N
      BY <2>1 DEF LowAt
    <3>2. \A f \in Alerts(t) : f.kind = "recovery" => f.seq < d.seq
      BY <1>1, <1>5, <3>1
    <3>3. d \in Alerts(t) /\ d.seq <= N + 1
      BY <1>1
    <3>4. QED
      BY <3>1, <3>2, <3>3 DEF LowAt
  <2>2. ASSUME LowAt(t, N + 1) PROVE LowAt(s, N)
    <3>1. PICK d \in Alerts(t) :
            /\ d.kind = "low"
            /\ \A f \in Alerts(t) : f.kind = "recovery" => f.seq < d.seq \/ f.seq > N + 1
      BY <2>2 DEF LowAt
    <3>2. d \in Alerts(s)
      BY <1>5, <3>1
    <3>3. \A f \in Alerts(s) : f.kind = "recovery" => f.seq < d.seq
      BY <1>1, <3>1
    <3>4. QED
      BY <1>1, <3>1, <3>2, <3>3 DEF LowAt
  <2>3. LowAt(s, N) \in BOOLEAN /\ LowAt(t, N + 1) \in BOOLEAN
    BY DEF LowAt
  <2>4. QED
    BY <1>2, <1>5, <2>1, <2>2, <2>3
<1>6. QED
  BY <1>3, <1>4, <1>5

\* A step of Evaluate keeps low and recovery alternating.
LEMMA AlertedAlternates ==
  ASSUME NEW s \in State, NEW t \in State, NEW cfg \in Config, NEW now \in Nat,
         WellLogged(s), Alerted(s, t, cfg, now), Alternates(s)
  PROVE  Alternates(t)
<1>1. CASE Quiet(s, t)
  <2>1. Alerts(t) = Alerts(s) /\ t.eventSequence = s.eventSequence
        /\ t.lowActive = s.lowActive
    BY <1>1 DEF Quiet, SameLog, Alerts, PendingSet
  <2>2. QED
    BY <2>1 DEF Alternates, LowAt
<1>2. ASSUME NEW kind \in Kinds, Raised(s, t, kind, cfg, now)
      PROVE  Alternates(t)
  <2> DEFINE N == s.eventSequence
  <2>1. PICK e \in Event : /\ e.seq = N + 1 /\ e.kind = kind
                           /\ Alerts(t) = Alerts(s) \union {e}
    BY <1>2, RaisedAlert
  <2>2. /\ \A n \in 0..N : LowAt(t, n) = LowAt(s, n)
        /\ LowAt(t, N + 1) = (kind = "low" \/ (kind # "recovery" /\ LowAt(s, N)))
    BY <2>1, LowAtGrows
  <2>3. N \in Nat /\ t.eventSequence = N + 1
    BY <1>2 DEF State, Raised
  <2>4. s.lowActive = LowAt(s, N) /\ s.lowActive \in BOOLEAN /\ t.lowActive \in BOOLEAN
    BY DEF Alternates, State
  <2>5. t.lowActive = LowAt(t, N + 1)
    BY <1>2, <2>2, <2>4 DEF Raised, Kinds
  <2>6. LowAt(t, N) = s.lowActive
    BY <2>2, <2>3, <2>4
  <2>7. ASSUME NEW f \in Alerts(s)
        PROVE  LowAt(t, f.seq - 1) = LowAt(s, f.seq - 1)
    <3>1. f.seq - 1 \in 0..N
      BY <2>3, AlertNumbers
    <3>2. QED
      BY <2>2, <3>1
  <2>8. ASSUME NEW f \in Alerts(t)
        PROVE  /\ f.kind = "low" => ~LowAt(t, f.seq - 1)
               /\ f.kind \in {"low_reminder", "recovery"} => LowAt(t, f.seq - 1)
    <3>1. CASE f \in Alerts(s)
      BY <2>7, <3>1 DEF Alternates
    <3>2. CASE f = e
      <4>1. f.seq - 1 = N
        BY <2>1, <2>3, <3>2
      <4>2. QED
        BY <1>2, <2>1, <2>6, <3>2, <4>1 DEF Raised
    <3>3. QED
      BY <2>1, <3>1, <3>2
  <2>9. QED
    BY <2>3, <2>5, <2>8 DEF Alternates
<1>3. QED
  BY <1>1, <1>2 DEF Alerted

\* The alerts of t are those of s, whatever became of their deliveries.
SameAlerts(s, t) ==
  /\ t.eventSequence = s.eventSequence
  /\ \A e \in Alerts(s) : \E f \in Alerts(t) :
       f.seq = e.seq /\ f.kind = e.kind /\ f.createdAt = e.createdAt
  /\ \A f \in Alerts(t) : \E e \in Alerts(s) :
       f.seq = e.seq /\ f.kind = e.kind /\ f.createdAt = e.createdAt

\* Deliveries have no part in the alternation.
LEMMA SameAlertsAlternate ==
  ASSUME NEW s, NEW t, SameAlerts(s, t), t.lowActive = s.lowActive, Alternates(s)
  PROVE  Alternates(t)
<1>1. ASSUME NEW n PROVE LowAt(t, n) <=> LowAt(s, n)
  <2>1. ASSUME LowAt(s, n) PROVE LowAt(t, n)
    <3>1. PICK e \in Alerts(s) :
            /\ e.kind = "low" /\ e.seq <= n
            /\ \A f \in Alerts(s) : f.kind = "recovery" => f.seq < e.seq \/ f.seq > n
      BY <2>1 DEF LowAt
    <3>2. PICK d \in Alerts(t) : d.seq = e.seq /\ d.kind = "low"
      BY <3>1 DEF SameAlerts
    <3>3. \A f \in Alerts(t) : f.kind = "recovery" => f.seq < d.seq \/ f.seq > n
      BY <3>1, <3>2 DEF SameAlerts
    <3>4. QED
      BY <3>1, <3>2, <3>3 DEF LowAt
  <2>2. ASSUME LowAt(t, n) PROVE LowAt(s, n)
    <3>1. PICK e \in Alerts(t) :
            /\ e.kind = "low" /\ e.seq <= n
            /\ \A f \in Alerts(t) : f.kind = "recovery" => f.seq < e.seq \/ f.seq > n
      BY <2>2 DEF LowAt
    <3>2. PICK d \in Alerts(s) : d.seq = e.seq /\ d.kind = "low"
      BY <3>1 DEF SameAlerts
    <3>3. \A f \in Alerts(s) : f.kind = "recovery" => f.seq < d.seq \/ f.seq > n
      BY <3>1, <3>2 DEF SameAlerts
    <3>4. QED
      BY <3>1, <3>2, <3>3 DEF LowAt
  <2>3. QED
    BY <2>1, <2>2
<1>2. LowAt(t, t.eventSequence) = LowAt(s, s.eventSequence)
  BY <1>1 DEF SameAlerts, LowAt
<1>3. ASSUME NEW f \in Alerts(t)
      PROVE  /\ f.kind = "low" => ~LowAt(t, f.seq - 1)
             /\ f.kind \in {"low_reminder", "recovery"} => LowAt(t, f.seq - 1)
  <2>1. PICK e \in Alerts(s) : f.seq = e.seq /\ f.kind = e.kind
    BY DEF SameAlerts
  <2>2. QED
    BY <1>1, <2>1 DEF Alternates
<1>4. QED
  BY <1>2, <1>3 DEF Alternates

\* No alert is younger than now, and LastLowDeliveredAt is no earlier than the
\* last reminder that left the pending list.
Timely(s, now) ==
  /\ \A e \in Alerts(s) : e.createdAt <= now
  /\ s.lastLowDeliveredAt <= now
  /\ \A e \in s.deliveredEvents :
       e.kind = "low_reminder" => e.createdAt <= s.lastLowDeliveredAt

\* Reminders are apart by the ReminderSeconds of one of the configurations.
Spaced(s, configs) ==
  \A e, f \in Alerts(s) :
    e.kind = "low_reminder" /\ f.kind = "low_reminder" /\ e.seq < f.seq
      => \E c \in configs : f.createdAt - e.createdAt >= c.reminderSeconds

\* Time goes on.
LEMMA TimelyLater ==
  ASSUME NEW s \in State, NEW n \in Nat, NEW m \in Nat, n <= m, Timely(s, n)
  PROVE  Timely(s, m)
<1>1. s.lastLowDeliveredAt \in Nat /\ \A e \in Alerts(s) : e.createdAt \in Nat
  BY AlertsAreEvents DEF State, Event
<1>2. QED
  BY <1>1 DEF Timely

\* A step of Evaluate raises an alert now, a reminder only when none is
\* pending and the last one was delivered long enough ago.
LEMMA AlertedSpaced ==
  ASSUME NEW s \in State, NEW t \in State, NEW cfg \in Config, NEW now \in Nat,
         NEW configs, cfg \in configs,
         WellLogged(s), Alerted(s, t, cfg, now), Timely(s, now), Spaced(s, configs)
  PROVE  Timely(t, now) /\ Spaced(t, configs)
<1>1. CASE Quiet(s, t)
  <2>1. Alerts(t) = Alerts(s) /\ t.deliveredEvents = s.deliveredEvents
        /\ t.lastLowDeliveredAt = s.lastLowDeliveredAt
    BY <1>1 DEF Quiet, SameLog, Alerts, PendingSet
  <2>2. QED
    BY <2>1 DEF Timely, Spaced
<1>2. ASSUME NEW kind \in Kinds, Raised(s, t, kind, cfg, now)
      PROVE  Timely(t, now) /\ Spaced(t, configs)
  <2>1. PICK e \in Event : /\ e.seq = s.eventSequence + 1
                           /\ e.kind = kind
                           /\ e.createdAt = now
                           /\ Alerts(t) = Alerts(s) \union {e}
    BY <1>2, RaisedAlert
  <2>2. t.deliveredEvents = s.deliveredEvents
        /\ t.lastLowDeliveredAt = s.lastLowDeliveredAt
    BY <1>2 DEF Raised
  <2>3. Timely(t, now)
    BY <2>1, <2>2 DEF Timely
  <2>4. \A f \in Alerts(s) : f.seq \in Nat /\ f.seq <= s.eventSequence
    BY AlertNumbers
  <2>5. s.eventSequence \in Nat /\ s.lastLowDeliveredAt \in Nat
    BY DEF State
  <2>6. ASSUME NEW f \in Alerts(s), f.kind = "low_reminder", kind = "low_reminder"
        PROVE  now - f.createdAt >= cfg.reminderSeconds
    <3>1. ReminderDue(s, cfg, now)
      BY <1>2, <2>6 DEF Raised
    <3>2. f \notin PendingSet(s)
      BY <2>6, <3>1 DEF ReminderDue, HasPendingKind, PendingSet
    <3>3. f \in s.deliveredEvents
      BY <3>2 DEF Alerts
    <3>4. f.createdAt <= s.lastLowDeliveredAt
      BY <2>6, <3>3 DEF Timely
    <3>5. f.createdAt \in Nat /\ cfg.reminderSeconds \in Nat
      BY AlertsAreEvents DEF Event, Config
    <3>6. now - s.lastLowDeliveredAt >= cfg.reminderSeconds
      BY <3>1 DEF ReminderDue
    <3>7. QED
      BY <2>5, <3>4, <3>5, <3>6
  <2>7. SUFFICES ASSUME NEW f \in Alerts(t), NEW g \in Alerts(t),
                        f.kind = "low_reminder", g.kind = "low_reminder", f.seq < g.seq
                 PROVE  \E c \in configs : g.createdAt - f.createdAt >= c.reminderSeconds
    BY <2>3 DEF Spaced
  <2>8. CASE f \in Alerts(s) /\ g \in Alerts(s)
    BY <2>7, <2>8 DEF Spaced
  <2>9. CASE f \in Alerts(s) /\ g = e
    BY <2>1, <2>6, <2>7, <2>9
  <2>10. f # e
    BY <2>1, <2>4, <2>5, <2>7
  <2>11. QED
    BY <2>1, <2>8, <2>9, <2>10
<1>3. QED
  BY <1>1, <1>2 DEF Alerted

\* Only the delivery of the alert that is tried changes.
LEMMA MarkDeliveredSameAlerts ==
  ASSUME NEW s \in State, WellLogged(s), NEW n \in Nat, NEW ch \in Channels,
         NEW ok \in BOOLEAN, NEW now \in Nat, <<n, ch>> \in Owed(s)
  PROVE  /\ SameAlerts(s, MarkDelivered(s, n, ch, ok, now))
         /\ Timely(s, now) => Timely(MarkDelivered(s, n, ch, ok, now), now)
<1> DEFINE t == MarkDelivered(s, n, ch, ok, now)
<1>1. t.eventSequence = s.eventSequence
  BY MarkDeliveredMoves
<1>2. PICK e \in PendingSet(s) :
        /\ HasStatus(e, ch, {"pending", "failed"})
        /\ Moves(s, t, e, Attempted(e, ch, ok))
        /\ t.lastLowDeliveredAt =
             IF ok /\ e.kind \in {"low", "low_reminder"} THEN now
             ELSE s.lastLowDeliveredAt
  BY MarkDeliveredMoves
<1> DEFINE f == Attempted(e, ch, ok)
<1>3. e \in Event /\ e \in Alerts(s)
  BY AlertsAreEvents DEF Alerts
<1>4. f.seq = e.seq /\ f.kind = e.kind /\ f.createdAt = e.createdAt
  BY <1>3, AttemptedType
<1>5. AllConfiguredDelivered(f) => ok
  BY <1>2, <1>3, AttemptedStatus
<1> HIDE DEF t, f
<1>6. Alerts(t) = (Alerts(s) \ {e}) \union {f}
  <2>1. e \notin s.deliveredEvents
    BY <1>2 DEF WellLogged
  <2>2. QED
    BY <1>2, <2>1 DEF Moves, Alerts, f
<1>7. SameAlerts(s, t)
  BY <1>1, <1>3, <1>4, <1>6 DEF SameAlerts
<1>8. ASSUME Timely(s, now) PROVE Timely(t, now)
  <2>1. s.lastLowDeliveredAt \in Nat /\ \A g \in Alerts(s) : g.createdAt \in Nat
    BY AlertsAreEvents DEF State, Event
  <2>2. s.lastLowDeliveredAt <= t.lastLowDeliveredAt /\ t.lastLowDeliveredAt \in Nat
        /\ t.lastLowDeliveredAt <= now
    BY <1>2, <1>8, <2>1 DEF Timely
  <2>3. \A g \in Alerts(t) : g.createdAt <= now
    BY <1>3, <1>4, <1>6, <1>8 DEF Timely
  <2>4. ASSUME NEW g \in t.deliveredEvents, g.kind = "low_reminder"
        PROVE  g.createdAt <= t.lastLowDeliveredAt
    <3>1. CASE g \in s.deliveredEvents
      <4>1. g.createdAt <= s.lastLowDeliveredAt /\ g.createdAt \in Nat
        BY <1>8, <2>1, <2>4, <3>1 DEF Timely, Alerts
      <4>2. QED
        BY <2>1, <2>2, <4>1
    <3>2. CASE g \notin s.deliveredEvents
      <4>1. g = f /\ AllConfiguredDelivered(f)
        BY <1>2, <2>4, <3>2 DEF Moves, f
      <4>2. t.lastLowDeliveredAt = now
        BY <1>2, <1>4, <1>5, <2>4, <4>1
      <4>3. QED
        BY <2>3, <2>4, <4>2 DEF Alerts
    <3>3. QED
      BY <3>1, <3>2
  <2>5. QED
    BY <2>2, <2>3, <2>4 DEF Timely
<1>9. QED
  BY <1>7, <1>8 DEF t

\* Deliveries have no part in the spacing.
LEMMA SameAlertsSpaced ==
  ASSUME NEW s, NEW t, NEW configs, SameAlerts(s, t), Spaced(s, configs)
  PROVE  Spaced(t, configs)
<1> SUFFICES ASSUME NEW e \in Alerts(t), NEW f \in Alerts(t),
                    e.kind = "low_reminder", f.kind = "low_reminder", e.seq < f.seq
             PROVE  \E c \in configs : f.createdAt - e.createdAt >= c.reminderSeconds
  BY DEF Spaced
<1>1. PICK d \in Alerts(s) : d.seq = e.seq /\ d.kind = e.kind /\ d.createdAt = e.createdAt
  BY DEF SameAlerts
<1>2. PICK g \in Alerts(s) : g.seq = f.seq /\ g.kind = f.kind /\ g.createdAt = f.createdAt
  BY DEF SameAlerts
<1>3. QED
  BY <1>1, <1>2 DEF Spaced

\* The low episodes, the times and the spacing of a state's alerts.
Episodes(s, now, configs) == Alternates(s) /\ Timely(s, now) /\ Spaced(s, configs)

\* Evaluate keeps them.
LEMMA EvaluateEpisodes ==
  ASSUME NEW s \in State, NEW outcome \in Outcome, NEW cfg \in Config,
         NEW now \in Nat, NEW configs, cfg \in configs,
         WellLogged(s), Episodes(s, now, configs)
  PROVE  Episodes(Evaluate(s, outcome, cfg, now), now, configs)
<1> DEFINE t == Evaluate(s, outcome, cfg, now)
<1>1. t \in State
  BY EvaluateType
<1>2. PICK r \in State : Alerted(s, r, cfg, now) /\ Alerted(r, t, cfg, now)
  BY EvaluateAlerts
<1> HIDE DEF t
<1>3. WellLogged(r)
  BY <1>2, AlertedRaises
<1>4. Episodes(r, now, configs)
  BY <1>2, AlertedAlternates, AlertedSpaced DEF Episodes
<1>5. Episodes(t, now, configs)
  BY <1>1, <1>2, <1>3, <1>4, AlertedAlternates, AlertedSpaced DEF Episodes
<1>6. QED
  BY <1>5 DEF t

\* So does an attempt.
LEMMA MarkDeliveredEpisodes ==
  ASSUME NEW s \in State, WellLogged(s), NEW n \in Nat, NEW ch \in Channels,
         NEW ok \in BOOLEAN, NEW now \in Nat, <<n, ch>> \in Owed(s),
         NEW configs, Episodes(s, now, configs)
  PROVE  Episodes(MarkDelivered(s, n, ch, ok, now), now, configs)
<1> DEFINE t == MarkDelivered(s, n, ch, ok, now)
<1>1. SameAlerts(s, t) /\ Timely(t, now)
  BY MarkDeliveredSameAlerts DEF Episodes
<1>2. t.lowActive = s.lowActive
  BY MarkDeliveredMoves
<1> HIDE DEF t
<1>3. Episodes(t, now, configs)
  BY <1>1, <1>2, SameAlertsAlternate, SameAlertsSpaced DEF Episodes
<1>4. QED
  BY <1>3 DEF t

-----------------------------------------------------------------------------

\* ErrorActive says that as many checks in a row failed as are worth an
\* alert, and is never set without one.
Tracks(s, failures) ==
  /\ s.errorActive <=> s.consecutiveFailures >= failures
  /\ s.errorActive => \E e \in Alerts(s) : e.kind = "data_error"

\* A state without failures and without an outage is in step.
LEMMA CalmTracks ==
  ASSUME NEW s, NEW failures \in Nat, failures > 0,
         s.errorActive = FALSE, s.consecutiveFailures = 0
  PROVE  Tracks(s, failures)
<1>1. ~(s.consecutiveFailures >= failures)
  OBVIOUS
<1>2. QED
  BY <1>1 DEF Tracks

\* The error fields are as they were, and no alert is gone.
LEMMA TracksKept ==
  ASSUME NEW s, NEW t, NEW failures, Tracks(s, failures),
         t.errorActive = s.errorActive,
         t.consecutiveFailures = s.consecutiveFailures, Alerts(s) \subseteq Alerts(t)
  PROVE  Tracks(t, failures)
BY DEF Tracks

\* The alert for an outage is raised by the check that makes it one.
LEMMA MarkDataFailureTracks ==
  ASSUME NEW s \in State, NEW cfg \in Config, NEW now \in Nat,
         Tracks(s, cfg.failureAlertCount)
  PROVE  Tracks(MarkDataFailure(s, cfg, now), cfg.failureAlertCount)
<1> DEFINE failed == [s EXCEPT !.consecutiveFailures = @ + 1]
           active == [failed EXCEPT !.errorActive = TRUE]
           t      == AppendEvent(active, "data_error", now, cfg.channels)
           k      == s.consecutiveFailures
<1>1. k \in Nat /\ cfg.failureAlertCount \in Nat /\ s.errorActive \in BOOLEAN
      /\ cfg.channels \in SUBSET Channels
  BY DEF State, Config
<1>2. failed.consecutiveFailures = k + 1 /\ failed.errorActive = s.errorActive
      /\ Alerts(failed) = Alerts(s)
  BY DEF State, Alerts, PendingSet
<1>3. active \in State /\ active.consecutiveFailures = k + 1 /\ active.errorActive = TRUE
  <2>1. failed \in State
    BY <1>1 DEF State
  <2>2. QED
    BY <1>2, <2>1 DEF State
<1>4. t.consecutiveFailures = k + 1 /\ t.errorActive = TRUE
  BY <1>3 DEF AppendEvent, State
<1> HIDE DEF failed, active
<1>5. NewEvent("data_error", now, active.eventSequence + 1, cfg.channels) \in Alerts(t)
  <2>1. "data_error" \in Kinds
    BY DEF Kinds
  <2>2. NewEvent("data_error", now, active.eventSequence + 1, cfg.channels) \in PendingSet(t)
    BY <1>1, <1>3, <2>1, AppendEventLog
  <2>3. QED
    BY <2>2 DEF Alerts
<1>6. NewEvent("data_error", now, active.eventSequence + 1, cfg.channels).kind = "data_error"
  BY DEF NewEvent
<1> HIDE DEF t
<1>7. CASE failed.consecutiveFailures >= cfg.failureAlertCount /\ ~failed.errorActive
  <2>1. MarkDataFailure(s, cfg, now) = t
    BY <1>7 DEF MarkDataFailure, failed, active, t
  <2>2. Tracks(t, cfg.failureAlertCount)
    BY <1>1, <1>2, <1>4, <1>5, <1>6, <1>7 DEF Tracks
  <2>3. QED
    BY <2>1, <2>2
<1>8. CASE ~(failed.consecutiveFailures >= cfg.failureAlertCount /\ ~failed.errorActive)
  <2>1. MarkDataFailure(s, cfg, now) = failed
    BY <1>8 DEF MarkDataFailure, failed
  <2>2. Tracks(failed, cfg.failureAlertCount)
    <3>1. CASE s.errorActive
      <4>1. k >= cfg.failureAlertCount
        BY <3>1 DEF Tracks
      <4>2. k + 1 >= cfg.failureAlertCount
        BY <1>1, <4>1
      <4>3. QED
        BY <1>1, <1>2, <3>1, <4>2 DEF Tracks
    <3>2. CASE ~s.errorActive
      <4>1. ~(k + 1 >= cfg.failureAlertCount) /\ ~failed.errorActive
        BY <1>2, <1>8, <3>2
      <4>2. failed.errorActive = FALSE
        BY <1>1, <1>2, <3>2
      <4>3. QED
        BY <1>2, <4>1, <4>2 DEF Tracks
    <3>3. QED
      BY <3>1, <3>2
  <2>3. QED
    BY <2>1, <2>2
<1>9. QED
  BY <1>7, <1>8

\* The hysteresis switch has no part in it.
LEMMA ThresholdTracks ==
  ASSUME NEW s \in State, NEW total \in Nat, NEW cfg \in Config, NEW now \in Nat,
         NEW failures, Tracks(s, failures)
  PROVE  Tracks(Threshold(s, total, cfg, now), failures)
<1>1. ASSUME NEW low \in BOOLEAN, NEW kind \in Kinds
      PROVE  Tracks(AppendEvent([s EXCEPT !.lowActive = low], kind, now, cfg.channels),
                    failures)
  <2> DEFINE r == [s EXCEPT !.lowActive = low]
             t == AppendEvent(r, kind, now, cfg.channels)
  <2>1. r \in State /\ Alerts(r) = Alerts(s) /\ r.errorActive = s.errorActive
        /\ r.consecutiveFailures = s.consecutiveFailures
    BY DEF State, Alerts, PendingSet
  <2>2. t.errorActive = r.errorActive /\ t.consecutiveFailures = r.consecutiveFailures
    BY <2>1 DEF AppendEvent, State
  <2>3. cfg.channels \in SUBSET Channels
    BY DEF Config
  <2> HIDE DEF r
  <2>4. Alerts(r) \subseteq Alerts(t)
    BY <2>1, <2>3, AppendEventLog DEF Alerts
  <2> HIDE DEF t
  <2>5. Tracks(t, failures)
    BY <2>1, <2>2, <2>4, TracksKept
  <2>6. QED
    BY <2>5 DEF t, r
<1>2. s = [s EXCEPT !.lowActive = s.lowActive] /\ s.lowActive \in BOOLEAN
  BY DEF State
<1>3. {"low", "low_reminder", "recovery"} \subseteq Kinds
  BY DEF Kinds
<1>4. Tracks(AppendEvent(s, "low_reminder", now, cfg.channels), failures)
  BY <1>1, <1>2, <1>3
<1>5. QED
  BY <1>1, <1>3, <1>4 DEF Threshold

\* Evaluate keeps ErrorActive in step with the failures.
LEMMA EvaluateTracks ==
  ASSUME NEW s \in State, NEW outcome \in Outcome, NEW cfg \in Config,
         NEW now \in Nat, Tracks(s, cfg.failureAlertCount)
  PROVE  Tracks(Evaluate(s, outcome, cfg, now), cfg.failureAlertCount)
<1> DEFINE complete == CompleteCheck(s)
           failed   == MarkDataFailure(s, cfg, now)
           reset    == [s EXCEPT !.consecutiveFailures = 0, !.errorActive = FALSE]
           active   == [reset EXCEPT !.planChangedActive = TRUE]
           changed  == AppendEvent(active, "plan_changed", now, cfg.channels)
           n        == cfg.failureAlertCount
<1>1. outcome.total \in Nat /\ n \in Nat /\ n > 0 /\ cfg.channels \in SUBSET Channels
  BY DEF Outcome, Config
<1>2. complete \in State /\ failed \in State
  BY MarkDataFailureType DEF CompleteCheck, State
<1>3. Tracks(complete, n)
  <2>1. complete.errorActive = FALSE /\ complete.consecutiveFailures = 0
    BY DEF CompleteCheck, State
  <2> HIDE DEF complete, n
  <2>2. QED
    BY <1>1, <2>1, CalmTracks
<1>4. Tracks(failed, n)
  BY MarkDataFailureTracks
<1>5. Tracks(reset, n)
  <2>1. reset.errorActive = FALSE /\ reset.consecutiveFailures = 0
    BY DEF State
  <2> HIDE DEF reset, n
  <2>2. QED
    BY <1>1, <2>1, CalmTracks
<1>6. changed.errorActive = FALSE /\ changed.consecutiveFailures = 0
  BY DEF AppendEvent, State
<1>7. Tracks(changed, n)
  <2> HIDE DEF changed, n
  <2>1. QED
    BY <1>1, <1>6, CalmTracks
<1>8. Tracks(PlanChanged(s, cfg, now), n)
  BY <1>5, <1>7 DEF PlanChanged
<1> HIDE DEF complete, failed, n
<1>9. /\ Tracks(Threshold(complete, outcome.total, cfg, now), n)
      /\ Tracks(Threshold(failed, outcome.total, cfg, now), n)
  BY <1>1, <1>2, <1>3, <1>4, ThresholdTracks
<1>10. outcome.kind \in {"complete", "partial", "plan_changed", "error"}
  BY DEF Outcome
<1>11. QED
  BY <1>4, <1>8, <1>9, <1>10 DEF Evaluate, complete, failed, n

\* An attempt has no part in it.
LEMMA MarkDeliveredTracks ==
  ASSUME NEW s \in State, WellLogged(s), NEW n \in Nat, NEW ch \in Channels,
         NEW ok \in BOOLEAN, NEW now \in Nat, <<n, ch>> \in Owed(s),
         NEW failures, Tracks(s, failures)
  PROVE  Tracks(MarkDelivered(s, n, ch, ok, now), failures)
BY MarkDeliveredMoves, MarkDeliveredSameAlerts DEF Tracks, SameAlerts

-----------------------------------------------------------------------------
(* The alerts of outages, one by one.                                      *)

\* The data_error alerts of t that s does not have.
Alarms(s, t) ==
  {e \in Alerts(t) : e.kind = "data_error" /\ e.seq > s.eventSequence}

\* One such alert comes with the outage, and none otherwise.
AlarmedOnce(s, t) ==
  IF t.errorActive /\ ~s.errorActive THEN \E e \in Alerts(t) : Alarms(s, t) = {e}
                                     ELSE Alarms(s, t) = {}

\* Nothing is new where nothing was raised.
LEMMA NoAlarms ==
  ASSUME NEW s \in State, WellLogged(s), NEW t, Alerts(t) = Alerts(s)
  PROVE  Alarms(s, t) = {}
<1>1. \A e \in Alerts(s) : ~(e.seq > s.eventSequence)
  <2> SUFFICES ASSUME NEW e \in Alerts(s) PROVE ~(e.seq > s.eventSequence)
    OBVIOUS
  <2>1. e.seq \in Nat /\ e.seq <= s.eventSequence /\ s.eventSequence \in Nat
    BY AlertNumbers DEF State
  <2>2. QED
    BY <2>1
<1>2. QED
  BY <1>1 DEF Alarms

\* appendEvent raises no alert but its own.
LEMMA AppendAlarms ==
  ASSUME NEW s \in State, NEW r \in State, NEW kind \in Kinds, NEW now \in Nat,
         NEW channels \in SUBSET Channels
  PROVE  LET t == AppendEvent(r, kind, now, channels)
             e == NewEvent(kind, now, r.eventSequence + 1, channels)
         IN  /\ t.errorActive = r.errorActive
             /\ e \in Alerts(t)
             /\ kind # "data_error" => Alarms(s, t) = Alarms(s, r)
             /\ kind = "data_error" /\ r.eventSequence = s.eventSequence =>
                  Alarms(s, t) = Alarms(s, r) \union {e}
<1> DEFINE t == AppendEvent(r, kind, now, channels)
           e == NewEvent(kind, now, r.eventSequence + 1, channels)
<1>1. t.errorActive = r.errorActive
  BY DEF AppendEvent, State
<1>2. PendingSet(t) = PendingSet(r) \union {e} /\ t.deliveredEvents = r.deliveredEvents
  BY AppendEventLog
<1>3. e.kind = kind /\ e.seq = r.eventSequence + 1 /\ r.eventSequence \in Nat
  BY DEF NewEvent, State
<1> HIDE DEF t, e
<1>4. Alerts(t) = Alerts(r) \union {e}
  BY <1>2 DEF Alerts
<1>5. r.eventSequence = s.eventSequence => e.seq > s.eventSequence
  BY <1>3
<1>6. QED
  BY <1>1, <1>3, <1>4, <1>5 DEF Alarms, t, e

\* A failure is an outage when it makes FailureAlertCount of them.
LEMMA MarkDataFailureAlarms ==
  ASSUME NEW s \in State, WellLogged(s), NEW cfg \in Config, NEW now \in Nat
  PROVE  AlarmedOnce(s, MarkDataFailure(s, cfg, now))
<1> DEFINE failed == [s EXCEPT !.consecutiveFailures = @ + 1]
           active == [failed EXCEPT !.errorActive = TRUE]
           t      == AppendEvent(active, "data_error", now, cfg.channels)
<1>1. cfg.channels \in SUBSET Channels /\ "data_error" \in Kinds
  BY DEF Config, Kinds
<1>2. failed.errorActive = s.errorActive /\ Alerts(failed) = Alerts(s)
  BY DEF State, Alerts, PendingSet
<1>3. /\ active \in State /\ active.errorActive = TRUE
      /\ active.eventSequence = s.eventSequence /\ Alerts(active) = Alerts(s)
  <2>1. failed \in State
    BY DEF State
  <2>2. QED
    BY <2>1 DEF State, Alerts, PendingSet
<1>4. MarkDataFailure(s, cfg, now) = IF /\ failed.consecutiveFailures >= cfg.failureAlertCount
                                        /\ ~failed.errorActive
                                     THEN t ELSE failed
  BY DEF MarkDataFailure
<1> HIDE DEF failed, active
<1>5. \E e \in Alerts(t) : Alarms(s, t) = Alarms(s, active) \union {e}
  BY <1>1, <1>3, AppendAlarms
<1>6. t.errorActive = active.errorActive
  BY <1>1, <1>3, AppendAlarms
<1> HIDE DEF t
<1>7. Alarms(s, active) = {} /\ Alarms(s, failed) = {}
  BY <1>2, <1>3, NoAlarms
<1>8. QED
  BY <1>2, <1>3, <1>4, <1>5, <1>6, <1>7 DEF AlarmedOnce

\* A plan change ends an outage and is an alert of its own.
LEMMA PlanChangedAlarms ==
  ASSUME NEW s \in State, WellLogged(s), NEW cfg \in Config, NEW now \in Nat
  PROVE  AlarmedOnce(s, PlanChanged(s, cfg, now))
<1> DEFINE reset  == [s EXCEPT !.consecutiveFailures = 0, !.errorActive = FALSE]
           active == [reset EXCEPT !.planChangedActive = TRUE]
           t      == AppendEvent(active, "plan_changed", now, cfg.channels)
<1>1. cfg.channels \in SUBSET Channels /\ "plan_changed" \in Kinds
  BY DEF Config, Kinds
<1>2. /\ active \in State /\ active.errorActive = FALSE /\ Alerts(active) = Alerts(s)
      /\ reset.errorActive = FALSE /\ Alerts(reset) = Alerts(s)
  <2>1. reset \in State
    BY DEF State
  <2>2. QED
    BY <2>1 DEF State, Alerts, PendingSet
<1>3. PlanChanged(s, cfg, now) \in {reset, t}
  BY DEF PlanChanged
<1> HIDE DEF reset, active
<1>4. t.errorActive = active.errorActive /\ Alarms(s, t) = Alarms(s, active)
  BY <1>1, <1>2, AppendAlarms
<1> HIDE DEF t
<1>5. Alarms(s, active) = {} /\ Alarms(s, reset) = {}
  BY <1>2, NoAlarms
<1>6. QED
  BY <1>2, <1>3, <1>4, <1>5 DEF AlarmedOnce

\* The hysteresis switch has no part in it.
LEMMA ThresholdAlarms ==
  ASSUME NEW s \in State, NEW r \in State, NEW total \in Nat, NEW cfg \in Config,
         NEW now \in Nat, AlarmedOnce(s, r)
  PROVE  AlarmedOnce(s, Threshold(r, total, cfg, now))
<1>1. ASSUME NEW low \in BOOLEAN, NEW kind \in Kinds, kind # "data_error"
      PROVE  AlarmedOnce(s, AppendEvent([r EXCEPT !.lowActive = low], kind, now, cfg.channels))
  <2> DEFINE q == [r EXCEPT !.lowActive = low]
             t == AppendEvent(q, kind, now, cfg.channels)
  <2>1. q \in State /\ Alerts(q) = Alerts(r) /\ q.errorActive = r.errorActive
    BY DEF State, Alerts, PendingSet
  <2>2. cfg.channels \in SUBSET Channels
    BY DEF Config
  <2> HIDE DEF q
  <2>3. t.errorActive = q.errorActive /\ Alarms(s, t) = Alarms(s, q)
    BY <1>1, <2>1, <2>2, AppendAlarms
  <2>4. Alerts(q) \subseteq Alerts(t)
    BY <2>1, <2>2, AppendEventLog DEF Alerts
  <2> HIDE DEF t
  <2>5. Alarms(s, t) = Alarms(s, r)
    BY <2>1, <2>3 DEF Alarms
  <2>6. AlarmedOnce(s, t)
    BY <2>1, <2>3, <2>4, <2>5 DEF AlarmedOnce
  <2>7. QED
    BY <2>6 DEF t, q
<1>2. r = [r EXCEPT !.lowActive = r.lowActive] /\ r.lowActive \in BOOLEAN
  BY DEF State
<1>3. {"low", "low_reminder", "recovery"} \subseteq Kinds
  BY DEF Kinds
<1>4. AlarmedOnce(s, AppendEvent(r, "low_reminder", now, cfg.channels))
  BY <1>1, <1>2, <1>3
<1>5. QED
  BY <1>1, <1>3, <1>4 DEF Threshold

\* Evaluate raises one data_error alert for an outage, and only then.
LEMMA EvaluateAlarms ==
  ASSUME NEW s \in State, WellLogged(s), NEW outcome \in Outcome, NEW cfg \in Config,
         NEW now \in Nat
  PROVE  AlarmedOnce(s, Evaluate(s, outcome, cfg, now))
<1> DEFINE complete == CompleteCheck(s)
           failed   == MarkDataFailure(s, cfg, now)
<1>1. outcome.total \in Nat
  BY DEF Outcome
<1>2. complete \in State /\ failed \in State
  BY MarkDataFailureType DEF CompleteCheck, State
<1>3. complete.errorActive = FALSE /\ Alerts(complete) = Alerts(s)
  BY DEF CompleteCheck, State, Alerts, PendingSet
<1>4. AlarmedOnce(s, failed) /\ AlarmedOnce(s, PlanChanged(s, cfg, now))
  BY MarkDataFailureAlarms, PlanChangedAlarms
<1> HIDE DEF complete, failed
<1>5. AlarmedOnce(s, complete)
  BY <1>3, NoAlarms DEF AlarmedOnce
<1>6. /\ AlarmedOnce(s, Threshold(complete, outcome.total, cfg, now))
      /\ AlarmedOnce(s, Threshold(failed, outcome.total, cfg, now))
  BY <1>1, <1>2, <1>4, <1>5, ThresholdAlarms
<1>7. outcome.kind \in {"complete", "partial", "plan_changed", "error"}
  BY DEF Outcome
<1>8. QED
  BY <1>4, <1>6, <1>7 DEF Evaluate, complete, failed

\* An attempt raises nothing and leaves ErrorActive.
LEMMA MarkDeliveredAlarms ==
  ASSUME NEW s \in State, WellLogged(s), NEW n \in Nat, NEW ch \in Channels,
         NEW ok \in BOOLEAN, NEW now \in Nat, <<n, ch>> \in Owed(s)
  PROVE  AlarmedOnce(s, MarkDelivered(s, n, ch, ok, now))
<1> DEFINE t == MarkDelivered(s, n, ch, ok, now)
<1>1. t.errorActive = s.errorActive
  BY MarkDeliveredMoves
<1>2. SameAlerts(s, t)
  BY MarkDeliveredSameAlerts
<1>3. s.errorActive \in BOOLEAN /\ s.eventSequence \in Nat
  BY DEF State
<1> HIDE DEF t
<1>4. \A e \in Alerts(t) : ~(e.seq > s.eventSequence)
  <2> SUFFICES ASSUME NEW e \in Alerts(t) PROVE ~(e.seq > s.eventSequence)
    OBVIOUS
  <2>1. PICK d \in Alerts(s) : e.seq = d.seq
    BY <1>2 DEF SameAlerts
  <2>2. d.seq \in Nat /\ d.seq <= s.eventSequence
    BY AlertNumbers
  <2>3. QED
    BY <1>3, <2>1, <2>2
<1>5. Alarms(s, t) = {}
  BY <1>4 DEF Alarms
<1>6. QED
  BY <1>1, <1>5 DEF AlarmedOnce, t

=============================================================================
