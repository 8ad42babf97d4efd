---------------------------- MODULE CheckHandler -----------------------------
(***************************************************************************)
(* The quota check of internal/management/handler.go, run by concurrent    *)
(* management calls against one state file: check, deliverPending and the  *)
(* `running' flag, with the store of internal/pluginapp/runtime.go, whose  *)
(* Save and Load refuse to work once the App is closed.  Around it, the    *)
(* environment the code has to survive: channels that reject, or accept    *)
(* and fail to acknowledge, failing saves, reconfiguration during a check, *)
(* Close and a new App, and the death of the process.                      *)
(***************************************************************************)
EXTENDS Monitor, FiniteSets

CONSTANTS
  Callers,        \* goroutines of the host's management calls
  Configs,        \* configurations an operator may load
  InitialConfig,  \* the one the App starts with
  DryRunBodies,   \* what body.DryRun may be
  Outcomes,       \* what a round of queries may aggregate to
  MaxTime,        \* bound on clock
  MaxEvents,      \* bound on the number of alerts raised
  MaxFailures,    \* bound on the count of consecutive failures
  MaxFaults       \* bound on faults

ASSUME ConfigsAssumption  == Configs \subseteq Config /\ InitialConfig \in Configs
ASSUME OutcomesAssumption == Outcomes \subseteq Outcome
ASSUME BodiesAssumption   == DryRunBodies \subseteq BOOLEAN
ASSUME BoundsAssumption   == {MaxTime, MaxEvents, MaxFailures, MaxFaults} \subseteq Nat

VARIABLES
  disk,       \* the state file
  cfg,        \* App.current
  closed,     \* App.closed; the calls' context is cancelled with it
  running,    \* Handler.running
  check,      \* each caller's progress through check and deliverPending
  clock,      \* the wall clock
  inbox,      \* alerts each channel's recipient got, in order (history)
  faults      \* crashes, closes, failed saves and lost answers so far

vars == <<disk, cfg, closed, running, check, clock, inbox, faults>>

PCs == {"idle", "refused", "prepare", "query", "save", "deliver", "record",
        "finish"}

Replies == {0, 200, 500}     \* HTTP status, 0 while there is none

\* Local variables of one call of check.
Check == [pc:        PCs,
          dryRun:    BOOLEAN,               \* body.DryRun
          cfg:       Configs,               \* cfg, fixed for the whole check
          mem:       State,                 \* current / next / state
          now:       Nat,                   \* now, fixed for the whole check
          todo:      SUBSET (Nat \X Channels), \* what deliverPending has left
          truncated: BOOLEAN,               \* the queries saw a cancelled ctx
          reply:     Replies]

IdleCheck == [pc        |-> "idle",
              dryRun    |-> FALSE,
              cfg       |-> InitialConfig,
              mem       |-> EmptyState,
              now       |-> 0,
              todo      |-> {},
              truncated |-> FALSE,
              reply     |-> 0]

At(c, pc) == check[c].pc = pc

Init ==
  /\ disk    = EmptyState
  /\ cfg     = InitialConfig
  /\ closed  = FALSE
  /\ running = FALSE
  /\ check   = [c \in Callers |-> IdleCheck]
  /\ clock   = 1
  /\ inbox   = [ch \in Channels |-> << >>]
  /\ faults  = 0

-----------------------------------------------------------------------------
(* One check.                                                              *)

\* Variant of Start: tests `running' without holding runMu until it is set.
StartUnlocked(c, dry) ==
  /\ At(c, "idle")
  /\ ~closed
  /\ running' = TRUE
  /\ check' = [check EXCEPT ![c].pc = "prepare", ![c].dryRun = dry]
  /\ UNCHANGED <<disk, cfg, closed, clock, inbox, faults>>

\* tryStart succeeds.  A closed App takes no call.
Start(c, dry) ==
  /\ At(c, "idle")
  /\ ~closed
  /\ ~running
  /\ running' = TRUE
  /\ check' = [check EXCEPT ![c].pc = "prepare", ![c].dryRun = dry]
  /\ UNCHANGED <<disk, cfg, closed, clock, inbox, faults>>

\* tryStart fails: 409 check_in_progress, before finish is deferred.
Refuse(c) ==
  /\ At(c, "idle")
  /\ ~closed
  /\ running
  /\ check' = [check EXCEPT ![c].pc = "refused"]
  /\ UNCHANGED <<disk, cfg, closed, running, clock, inbox, faults>>

\* Variant of Leave: finish is deferred before tryStart.
LeaveFinishing(c) ==
  /\ At(c, "refused")
  /\ running' = FALSE
  /\ check' = [check EXCEPT ![c] = IdleCheck]
  /\ UNCHANGED <<disk, cfg, closed, clock, inbox, faults>>

Leave(c) ==
  /\ At(c, "refused")
  /\ check' = [check EXCEPT ![c] = IdleCheck]
  /\ UNCHANGED <<disk, cfg, closed, running, clock, inbox, faults>>

\* Configuration, stored state and channels are read before any query.
Prepare(c) ==
  /\ At(c, "prepare")
  /\ ~closed
  /\ check' = [check EXCEPT ![c].pc  = "query",
                            ![c].cfg = cfg,
                            ![c].mem = disk]
  /\ UNCHANGED <<disk, cfg, closed, running, clock, inbox, faults>>

\* Variant of Fail: an error return that skips finish.
FailHolding(c) == check' = [check EXCEPT ![c] = IdleCheck]

Fail(c) == check' = [check EXCEPT ![c].pc = "finish", ![c].reply = 500]

\* not_configured, store_*, checker_unavailable, channel_unavailable.
PrepareFails(c) ==
  /\ At(c, "prepare")
  /\ Fail(c)
  /\ UNCHANGED <<disk, cfg, closed, running, clock, inbox, faults>>

\* The queries, AggregateObservations and Evaluate.  Cancelled queries just
\* lose accounts: the outcome may look complete and is truncated.
Query(c, outcome) ==
  LET next == Evaluate(check[c].mem, outcome, check[c].cfg, clock)
  IN  /\ At(c, "query")
      /\ next.eventSequence <= MaxEvents
      /\ next.consecutiveFailures <= MaxFailures
      /\ check' = [check EXCEPT ![c].pc        = "save",
                                ![c].mem       = next,
                                ![c].now       = clock,
                                ![c].truncated = closed]
      /\ UNCHANGED <<disk, cfg, closed, running, clock, inbox, faults>>

\* Variants of Deliverable: without the test for "delivered", and without
\* the retry of "failed".
DeliverableAgain(s, channels) ==
  {p \in Owed(s) \union Recorded(s) :
     p[2] \in channels /\ p[1] \in {e.seq : e \in PendingSet(s)}}
DeliverableOnce(s, channels) ==
  {p \in Owed(s) : /\ p[2] \in channels
                   /\ \E e \in PendingSet(s) :
                        e.seq = p[1] /\ HasStatus(e, p[2], {"pending"})}

\* The (event, channel) pairs deliverPending will try, from the copy of the
\* pending events it starts with.
Deliverable(s, channels) == {p \in Owed(s) : p[2] \in channels}

\* Variants of SaveEvaluated: saved although the context is cancelled; dry run
\* and channels read from the live settings.
SaveEvaluatedCancelled(c) ==
  /\ At(c, "save")
  /\ disk' = check[c].mem
  /\ check' = [check EXCEPT ![c].pc   = "deliver",
                            ![c].todo = Deliverable(check[c].mem,
                                                    check[c].cfg.channels)]
  /\ UNCHANGED <<cfg, closed, running, clock, inbox, faults>>

SaveEvaluatedLive(c) ==
  /\ At(c, "save")
  /\ ~closed
  /\ disk' = check[c].mem
  /\ check' = IF cfg.dryRun \/ check[c].dryRun
              THEN [check EXCEPT ![c].pc = "finish", ![c].reply = 200]
              ELSE [check EXCEPT ![c].pc   = "deliver",
                                 ![c].todo = Deliverable(check[c].mem,
                                                         cfg.channels)]
  /\ UNCHANGED <<cfg, closed, running, clock, inbox, faults>>

\* store.Save of the evaluated state: nothing is sent before it.
SaveEvaluated(c) ==
  /\ At(c, "save")
  /\ ~closed
  /\ disk' = check[c].mem
  /\ check' =
       IF check[c].cfg.dryRun \/ check[c].dryRun
       THEN [check EXCEPT ![c].pc = "finish", ![c].reply = 200]
       ELSE [check EXCEPT ![c].pc   = "deliver",
                          ![c].todo = Deliverable(check[c].mem,
                                                  check[c].cfg.channels)]
  /\ UNCHANGED <<cfg, closed, running, clock, inbox, faults>>

\* Pending events are tried oldest first, the channels of one in any order.
IsNext(c, p) ==
  /\ p \in check[c].todo
  /\ \A q \in check[c].todo : p[1] <= q[1]

\* Variant of Send: its error is dropped.
SendUnchecked(c, p, result) ==
  /\ At(c, "deliver")
  /\ IsNext(c, p)
  /\ result # "unacknowledged"
  /\ inbox'  = IF result = "rejected" THEN inbox
               ELSE [inbox EXCEPT ![p[2]] = Append(@, p[1])]
  /\ check'  = [check EXCEPT
                  ![c].pc   = "record",
                  ![c].todo = @ \ {p},
                  ![c].mem  = MarkDelivered(@, p[1], p[2], TRUE, check[c].now)]
  /\ UNCHANGED <<disk, cfg, closed, running, clock, faults>>

\* One attempt: accepted, rejected (or not rendered), or accepted by the
\* recipient while Send reports an error.
Send(c, p, result) ==
  /\ At(c, "deliver")
  /\ IsNext(c, p)
  /\ result = "unacknowledged" => faults < MaxFaults
  /\ inbox'  = IF result = "rejected" THEN inbox
               ELSE [inbox EXCEPT ![p[2]] = Append(@, p[1])]
  /\ faults' = IF result = "unacknowledged" THEN faults + 1 ELSE faults
  /\ check'  = [check EXCEPT
                  ![c].pc   = "record",
                  ![c].todo = @ \ {p},
                  ![c].mem  = MarkDelivered(@, p[1], p[2],
                                            result = "accepted", check[c].now)]
  /\ UNCHANGED <<disk, cfg, closed, running, clock>>

SaveRecorded(c) ==
  /\ At(c, "record")
  /\ ~closed
  /\ disk' = check[c].mem
  /\ check' = [check EXCEPT ![c].pc = "deliver"]
  /\ UNCHANGED <<cfg, closed, running, clock, inbox, faults>>

\* store_save_failed ends the check, also in the middle of deliverPending.
\* Once the App is closed every save fails; that fault is counted by Close.
SaveFails(c) ==
  /\ check[c].pc \in {"save", "record"}
  /\ closed \/ faults < MaxFaults
  /\ faults' = IF closed THEN faults ELSE faults + 1
  /\ Fail(c)
  /\ UNCHANGED <<disk, cfg, closed, running, clock, inbox>>

DeliverDone(c) ==
  /\ At(c, "deliver")
  /\ check[c].todo = {}
  /\ check' = [check EXCEPT ![c].pc = "finish", ![c].reply = 200]
  /\ UNCHANGED <<disk, cfg, closed, running, clock, inbox, faults>>

\* The deferred finish.
Finish(c) ==
  /\ At(c, "finish")
  /\ running' = FALSE
  /\ check' = [check EXCEPT ![c] = IdleCheck]
  /\ UNCHANGED <<disk, cfg, closed, clock, inbox, faults>>

-----------------------------------------------------------------------------
(* The environment.                                                        *)

Tick ==
  /\ clock < MaxTime
  /\ clock' = clock + 1
  /\ UNCHANGED <<disk, cfg, closed, running, check, inbox, faults>>

\* plugin.reconfigure; a running check keeps the configuration it read.
Reconfigure(new) ==
  /\ ~closed
  /\ cfg # new
  /\ cfg' = new
  /\ UNCHANGED <<disk, closed, running, check, clock, inbox, faults>>

\* App.Close, from a native shutdown or a new init.
Close ==
  /\ ~closed
  /\ faults < MaxFaults
  /\ closed' = TRUE
  /\ faults' = faults + 1
  /\ UNCHANGED <<disk, cfg, running, check, clock, inbox>>

\* ShutdownAndWait has returned and a new App, with a new Handler, is
\* registered.
Reopen(new) ==
  /\ closed
  /\ \A c \in Callers : At(c, "idle")
  /\ closed'  = FALSE
  /\ running' = FALSE
  /\ cfg'     = new
  /\ UNCHANGED <<disk, check, clock, inbox, faults>>

\* The process dies and is started again: only the state file survives.
Crash ==
  /\ faults < MaxFaults
  /\ faults'  = faults + 1
  /\ closed'  = FALSE
  /\ running' = FALSE
  /\ check'   = [c \in Callers |-> IdleCheck]
  /\ UNCHANGED <<disk, cfg, clock, inbox>>

-----------------------------------------------------------------------------

Results == {"accepted", "rejected", "unacknowledged"}

CallStep(c) ==
  \/ \E dry \in DryRunBodies : Start(c, dry)
  \/ Refuse(c)
  \/ Leave(c)
  \/ Prepare(c)
  \/ PrepareFails(c)
  \/ \E outcome \in Outcomes : Query(c, outcome)
  \/ SaveEvaluated(c)
  \/ \E p \in check[c].todo, result \in Results : Send(c, p, result)
  \/ SaveRecorded(c)
  \/ SaveFails(c)
  \/ DeliverDone(c)
  \/ Finish(c)

Environment ==
  \/ Tick
  \/ \E new \in Configs : Reconfigure(new)
  \/ Close
  \/ \E new \in Configs : Reopen(new)
  \/ Crash

Next == (\E c \in Callers : CallStep(c)) \/ Environment

Spec == Init /\ [][Next]_vars

-----------------------------------------------------------------------------
(* Properties.                                                             *)

TypeOK ==
  /\ disk \in State
  /\ cfg \in Configs
  /\ closed \in BOOLEAN
  /\ running \in BOOLEAN
  /\ check \in [Callers -> Check]
  /\ clock \in Nat \ {0}
  /\ inbox \in [Channels -> Seq(Nat)]
  /\ faults \in Nat

\* A caller that passed tryStart and has not run finish.
Active(c) == check[c].pc \notin {"idle", "refused"}

\* `running' is set exactly while a check runs, and only one runs: a 409
\* call must not clear it on its way out (handler.go:265, 476).
OneCheckAtATime ==
  /\ running = (\E c \in Callers : Active(c))
  /\ \A c, d \in Callers : Active(c) /\ Active(d) => c = d

\* Types, and the exclusion that everything about the file rests on.
ChecksExclude == TypeOK /\ OneCheckAtATime

\* Load and Save of one check are far apart; what a check holds in memory
\* must be what is stored whenever it is going to build on it, or its next
\* Save would undo the work of another (handler.go:278, 307, 351).
NoLostUpdate ==
  \A c \in Callers : check[c].pc \in {"query", "deliver"} => check[c].mem = disk

\* The stored alerts are complete: numbered without a gap or a repetition,
\* each once, also after checks that died or were undone half way.
NoAlertLost == WellLogged(disk)

\* Whatever a recipient got is stored as an alert owed to it, however the
\* process ended: pending events are saved before the first Send
\* (handler.go:307) and their IDs are never given to another alert.
SentIsStored ==
  \A ch \in Channels : \A i \in DOMAIN inbox[ch] :
    \E e \in Alerts(disk) : e.seq = inbox[ch][i] /\ ch \in DOMAIN e.delivery

\* At least once: a channel is recorded as delivered, and an alert leaves
\* the pending list, only after the recipients really got it.
RecordedIsReceived ==
  \A p \in Recorded(disk) : \E i \in DOMAIN inbox[p[2]] : inbox[p[2]][i] = p[1]

\* The places at which a recipient got an alert it had already.
Repeats ==
  {r \in UNION {{ch} \X DOMAIN inbox[ch] : ch \in Channels} :
     \E i \in 1..(r[2] - 1) : inbox[r[1]][i] = inbox[r[1]][r[2]]}

\* No recipient gets an alert twice unless something failed, and one fault
\* repeats at most one message: every Send is followed by a Save
\* (handler.go:351), and a Save that fails ends the pass (handler.go:357).
RepeatsNeedFaults == Cardinality(Repeats) <= faults

\* What recipients have got is accounted for, in the file and by the faults.
InboxIsJustified == SentIsStored /\ RepeatsNeedFaults

\* The stored alerts alternate between low and recovery, over restarts and
\* undone checks, and LowActive is the state the last of them left.
LowAlertsAlternate == Alternates(disk)

\* Two reminders are never raised closer together than the ReminderSeconds of
\* some configuration, over restarts, repeated deliveries and overlapping
\* episodes.
RemindersAreSpaced ==
  \A e, f \in Alerts(disk) :
    e.kind = "low_reminder" /\ f.kind = "low_reminder" /\ e.seq < f.seq
      => \E c \in Configs : f.createdAt - e.createdAt >= c.reminderSeconds

\* A 200 answer is not given for work that is not on disk, and a check that
\* was to deliver leaves no stored alert untried on a channel it was configured
\* with, however the settings were reloaded meanwhile (handler.go:310).  The
\* try may have been an earlier check's: "failed" does not say whose.
SuccessIsComplete ==
  \A c \in Callers :
    At(c, "finish") /\ check[c].reply = 200
      => /\ disk = check[c].mem
         /\ \/ check[c].dryRun \/ check[c].cfg.dryRun
            \/ \A e \in PendingSet(disk) :
                 \A ch \in DOMAIN e.delivery \intersect check[c].cfg.channels :
                   e.delivery[ch] # "pending"

\* A save keeps every alert with its kind, time and channels, and every
\* delivery already recorded.
HistoryIsKept ==
  [][/\ Recorded(disk) \subseteq Recorded(disk')
     /\ \A e \in Alerts(disk) :
          \E f \in Alerts(disk') :
            /\ f.seq = e.seq /\ f.kind = e.kind /\ f.createdAt = e.createdAt
            /\ DOMAIN f.delivery = DOMAIN e.delivery]_vars

\* Cancelled queries drop accounts, and what is left aggregates like a full
\* round (service.go:107); nothing of it may reach the file or a recipient.
TruncatedIsDiscarded ==
  [][\A c \in Callers : check[c].truncated =>
       UNCHANGED disk /\ UNCHANGED inbox]_vars

\* No step takes anything from the history, and none adds what is not true.
HistoryIsSound == HistoryIsKept /\ TruncatedIsDiscarded

\* The stored state and the recipients implement the outbox, whose steps
\* are Query's save, an accepted Send, and the save that records it.
Promise == INSTANCE Outbox WITH
             raised   <- disk.eventSequence,
             owed     <- Owed(disk),
             received <- inbox
ImplementsOutbox == Promise!Spec

\* While one configuration is in force: ErrorActive says exactly that the
\* last FailureAlertCount checks all failed to give a complete total, and
\* it is never set without its alert (types.go:138).
ErrorAlertTracksOutage ==
  /\ disk.errorActive <=>
       disk.consecutiveFailures >= InitialConfig.failureAlertCount
  /\ disk.errorActive => \E e \in Alerts(disk) : e.kind = "data_error"

\* A save that sets ErrorActive stores one data_error alert more, and no other
\* save does: the alert comes with the crossing of FailureAlertCount, not with
\* the failures after it, also in a check that raises a recovery as well
\* (types.go:141).
ErrorAlertsComeOnce ==
  [][Cardinality({e \in Alerts(disk') : e.kind = "data_error" /\ e.seq > disk.eventSequence})
       = IF disk'.errorActive /\ ~disk.errorActive THEN 1 ELSE 0]_vars

-----------------------------------------------------------------------------
(* Liveness, for one configuration that does not change.                   *)

\* The timer calls again and again and is not refused for ever; the store
\* can be read and each channel accepts now and then; a goroutine that can
\* go on does.  Closing, crashing and losing answers is bounded by faults.
Fairness ==
  /\ SF_vars(\E c \in Callers : Start(c, FALSE))
  /\ \A c \in Callers :
       /\ WF_vars(Leave(c))
       /\ SF_vars(Prepare(c))
       /\ WF_vars(\E outcome \in Outcomes : Query(c, outcome))
       /\ WF_vars(SaveEvaluated(c))
       /\ WF_vars(SaveRecorded(c))
       /\ WF_vars(SaveFails(c) /\ closed)
       /\ WF_vars(PrepareFails(c) /\ closed)
       /\ WF_vars(\E p \in check[c].todo, result \in Results :
                    Send(c, p, result))
       /\ \A p \in (1..MaxEvents) \X Channels : SF_vars(Send(c, p, "accepted"))
       /\ WF_vars(DeliverDone(c))
       /\ WF_vars(Finish(c))
  /\ WF_vars(\E new \in Configs : Reopen(new))

FairSpec == Spec /\ Fairness

\* Every stored alert that a configured channel still owes is recorded as
\* delivered there in the end.
EventuallyDelivered ==
  \A p \in (1..MaxEvents) \X InitialConfig.channels :
    p \in Owed(disk) ~> p \in Recorded(disk)

\* A check always ends and gives the `running' flag back.
EventuallyReleased == running ~> ~running

=============================================================================
