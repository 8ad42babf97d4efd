--------------------------- MODULE DocumentedAlerts --------------------------
(***************************************************************************)
(* What the README and the acceptance criteria say of the alerts, where    *)
(* the code does something else.                                           *)
(***************************************************************************)
EXTENDS CheckHandlerMC

\* README.md:31 "remind every 24 hours while still low": no reminder is
\* raised before ReminderSeconds have passed since the low alert of its own
\* episode.  LastLowDeliveredAt survives a recovery (types.go:123).
ReminderWaitsFullInterval ==
  \A r, e \in Alerts(disk) :
    /\ r.kind = "low_reminder" /\ e.kind = "low" /\ e.seq < r.seq
    /\ \A f \in Alerts(disk) : f.kind = "low" => f.seq <= e.seq \/ f.seq > r.seq
    => \E c \in Configs : r.createdAt - e.createdAt >= c.reminderSeconds

\* README.md:31 "while still low": no recipient gets a reminder once the
\* state says the episode is over.  A reminder that could not be delivered
\* stays pending through the recovery (handler.go:333).
NoReminderAfterRecovery ==
  \A ch \in Channels : \A e \in Alerts(disk) :
    /\ inbox'[ch] = Append(inbox[ch], e.seq)
    /\ e.kind = "low_reminder"
    => disk.lowActive

\* README.md:31 "remind every 24 hours while still low": when every check
\* sees a low total, a check that delivers leaves each channel either
\* reminded in time or with a retry pending.  A reminder stuck on one
\* channel keeps the others from being reminded (types.go:124).
EachChannelIsReminded ==
  \A c \in Callers :
    /\ At(c, "finish") /\ check[c].reply = 200
    /\ disk.lastLowDeliveredAt # Never
    /\ \A outcome \in Outcomes : outcome = O("complete", 0)
    => \A ch \in check[c].cfg.channels :
         \/ check[c].now - disk.lastLowDeliveredAt < check[c].cfg.reminderSeconds
         \/ \E p \in Owed(disk) : p[2] = ch

\* README.md:31, its three parts together: reminders come when their interval
\* is over, while the total is low, on every channel.
RemindersAsDocumented ==
  [][/\ ReminderWaitsFullInterval'
     /\ EachChannelIsReminded'
     /\ NoReminderAfterRecovery]_vars

\* docs/specs/03 (line 20): one data_error per outage, and the next only
\* after a recovery.  With checks that never complete nothing recovers, yet
\* a plan_changed check rearms the alert (types.go:79).
OneDataErrorPerOutage ==
  (\A outcome \in Outcomes : outcome.kind # "complete")
    => Cardinality({e \in Alerts(disk) : e.kind = "data_error"}) <= 1

=============================================================================
