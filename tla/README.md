# Verification of cpa-quota-alert-plugin

TLA+ models of the quota alert plugin, checked by TLC on small instances and, for
the theorems listed below, proved by TLAPS for every value of the constants.
Source paths are relative to the repository.

## 1. The system

The plugin is a shared library inside the CPA host. A systemd timer posts to its
`check` route; a check asks the upstream for the quota of every account, adds the
answers up, decides with a hysteresis whether to raise an alert, stores the
alerts in a state file and sends what is pending over SMTP and a webhook.

| component | source | state | operations | hard behaviour |
|---|---|---|---|---|
| alert state machine | `internal/monitor/types.go` | `State` (a value) | `Evaluate`, `MarkDelivered` | sequences of partial, failed and plan-changed checks; delivery times that outlive an episode |
| check handler | `internal/management/handler.go` | `running`, `lastCheckAt` | `check`, `deliverPending`, `status`, `testNotification`, ... | concurrent calls; save before send; partial delivery; failing saves |
| App and runtime | `internal/pluginapp/app.go`, `runtime.go` | `current`, `configured`, `closed`, context, wait group | `Call`, `configure`, `Close`, `ShutdownAndWait`, `NewStore`, `Channels`, ... | reload and shutdown during a check |
| native entry points | `cmd/plugin/main_linux.go` | `globalApp`, host API | init, call, shutdown | re-init beside running calls; host callbacks that re-enter |
| state file | `internal/state/store.go` | the file | `Load`, `Save` | crash, power loss or failure between file operations; concurrent `Load` |
| account queries | `internal/codexquota/service.go` | worker pool | `Check` | cancellation in the middle of dispatch |
| quota aggregation | `internal/quota/types.go` | none | `AggregateObservations`, `ObserveAccount`, `ParseWham` | partial totals as lower bounds, unknown plans, duplicate accounts |
| configuration | `internal/config/types.go`, `yaml.go` | none | `Parse` | unique plan aliases, ranges |
| senders | `internal/notify/*.go` | one connection | `Send`, `Render` | a message accepted although `Send` fails |
| secret store | `internal/secrets/store.go` | the secret file | `Lookup`, `Update` | lookups between which the file changes |
| settings page | `internal/management/ui.go`, `ui.html` | form, several requests | load, validate, save | one request of several fails; pending values |
| templates | `internal/config/types.go`, `internal/notify/template.go`, `message.go` | none | `parseMail`, `Render`, `validateMessage` | three checks that must agree |
| host ABI client | `internal/abi/client.go` | none | `CallHost...` | none of its own |

How they interact: the host calls `App.Call`, which admits the call under a lock,
counts it in the wait group and hands it to the `Handler`. `check` reads the live
configuration once, loads the state, runs the queries through the host, evaluates
and saves; `deliverPending` then sends and saves in turn. `App.Close` cancels the
context of every call in progress, which makes each later `Load` and `Save` of it
fail. A new `App` is installed only after the old one has drained.

What makes each part correct, in a line each: the *state machine* raises
alternating low and recovery alerts, spaces reminders and reports an outage; the
*handler* never runs two checks, never loses, invents or forgets an alert, and
repeats one only after a fault; the *store* replaces the file whole or not at all;
the *App* starts no check beside an old one's; the *queries* return one result
per account or are discarded; *aggregation* counts each account once and never
overstates; the *configuration* lets no plan name match two rules; *senders*
report success only for what was accepted; the *secret store* loses no update;
the *settings page* leaves no half-saved settings unreported.

## 2. Modules

| module | models |
|---|---|
| `Monitor` | `internal/monitor` as operators from `State` to `State`. No variables. |
| `CheckHandler` | `check` and `deliverPending` by concurrent callers, with the store, the App and the world as environment. |
| `Outbox` | What the handler promises: an at-least-once outbox of numbered alerts. |
| `DocumentedAlerts` | What README and acceptance criteria say of alerts where the code differs. |
| `StateStore` | `Store.Save` and `Store.Load`, file operation by file operation. |
| `AtomicFile` | What the store promises: a register replaced in one step. |
| `Lifecycle` | Init, call and shutdown of the native plugin, the App's locks, wait group and flags, host callbacks. |
| `QuotaChecker` | One round of account queries: dispatcher, workers, retries, cancellation, the ABI client's reading of replies. |
| `QuotaRound` | What a round promises: each account answered once, or the round is visibly cancelled. |
| `PlanNames` | `NormalizePlan`, `normalize`, `findRule`. No variables. |
| `PlanRules` | `parseRules`: reading the plan rules one by one. |
| `Quota` | `ParseWham`, `ObserveAccount`, `AggregateObservations`: from replies to the snapshot. |
| `Settings` | One save on the settings page as its chain of requests, the handlers, the private file, CPA's configuration and reloads. |
| `OneSend` | What a sender promises to `deliverPending`. |
| `SmtpSender` | `SMTPSender.Send` line by line, its goroutine, the server, and updates of the values. |
| `WebhookSender` | `WebhookSender.Send`, the receiver, and updates of the values. |
| `MailTemplate` | From the configured template to the message a sender accepts. |
| `*MC` | Values of the constants for TLC. `CalculationsMC` and `SendersMC` instantiate several modules that share no state, of which one is at work in each behaviour. |
| `*Proofs` | Lemmas and theorems about the module of the same name. `SendersProofs` covers `SmtpSender` and `WebhookSender`, `CalculationsProofs` covers `PlanRules`, `Quota` and `MailTemplate`; `MonitorProofs` has the lemmas about operators that `CheckHandlerProofs` cites. |

How they fit together: `CheckHandler` uses `Monitor` and is shown to implement
`Outbox`. What it takes as one step is a module of its own: its `disk` is the
`AtomicFile` that `StateStore` implements (with the exception given in section
6); its round of queries, truncated only when the context is over, is the
`QuotaRound` that `QuotaChecker` implements; the outcome of the round is what
`Quota` computes from the answers with the rules that `PlanRules` accepted, both
through `PlanNames`; a send that is accepted, rejected, or accepted with an error
is `OneSend`, which `SmtpSender` and `WebhookSender` implement, for a message that
comes out of `MailTemplate`; and the single live App at a time, which its `Close`
and `Reopen` presuppose, is what `Lifecycle` shows. `Settings` produces the
configurations between which `Reconfigure` moves.

### Monitor and the code

A total is a natural number; only its order with the two thresholds matters. A
clock value is a natural number in units of which `reminderSeconds` is a small
multiple; 0 is the zero `time.Time`. An event's ID hashes its kind, time and
sequence number, of which the number alone is unique, so `seq` is the ID.
`DeliveredEvents` is a map that nothing is removed from and is a set here;
pending and delivered events together are the log of all alerts (`Alerts`). The
defaults at the head of `Evaluate` are left out because `Parse` never yields the
zeros they replace. Fields no decision reads (`LastValidTotal`, `LastValidAt`,
`LastErrorCode`, three of the delivery times) are left out.

### CheckHandler and the code

Each caller goes through the program counters `prepare` (up to the queries),
`query`, `save`, `deliver`/`record` (an attempt and its save, in turn) and
`finish` (the deferred reset of `running`). `refused` is the 409 path between the
failed `tryStart` and its return. The local variables are a record per caller;
`mem` is `current`, `next` and `state` of the Go functions. One action is what
happens between two points where another goroutine, a crash or a cancellation can
be noticed: `Prepare` reads configuration and state, `Query` is the round of
queries with `Evaluate`, `SaveEvaluated` the save that precedes every send, `Send`
one attempt with the `MarkDelivered` of its result, `SaveRecorded` the save after
it. `SaveFails` is any failing save; on a closed App no save succeeds.

The environment: `Reconfigure` (plugin.reconfigure), `Close`, `Reopen` (a new App
once the old one is drained, with a new configuration), `Crash` (only `disk`, and
what recipients got, survive), `Tick`. A send may be accepted, rejected, or
accepted while `Send` returns an error. Cancelled queries lose accounts, so their
outcome is arbitrary; `truncated` remembers it for one property. `inbox` (what
recipients got) and `faults` are history. The clock does not run backwards, and
`state_path` is the same in all configurations.

### StateStore and the code

A file is numbered by the `Save` that created it, as its temporary name is unique.
`target` is what the name of the state file means now and `durable` what it means
after a power loss; `written` and `synced` are how much of a file is written and
whether that is on the medium. There is one writer, as only the check that holds
`running` saves; readers are calls of `status`. `Chmod` changes no content and
counts with the operation beside it.

### Lifecycle and the code

Threads of the host call `cliproxy_plugin_init`, `cliproxyPluginCall` and
`cliproxyPluginShutdown` in any order. A thread's `pc` names the lock it waits for
or the function it is in: `detach`, `close`, `drain`, `return` are the steps of
`ShutdownAndWait` under `lifecycleMu`; `configure`, `begin`, `admitted`, `current`,
`work`, `host` and `finish` are those of `App.Call` and `Handler.check`. An App is a
record of what `app.go` guards with its mutex, and `wg` is the set of calls the wait
group counts. A check may make any number of host callbacks; from inside one the
host may call the method `plugin.shutdown` (`nested`), which only closes. The native
shutdown is not called from a callback: it waits for the call it would be inside of, and
`main_linux.go:210` gives the host's promise to drain active calls first. A host callback
returns in the end; a check stops asking only when its context is cancelled.
`freed` are the Apps whose host context the host has released.

### QuotaChecker and the code

`pc` is the goroutine of `Service.Check`, `worker` the pool: each worker is at
`ready` (its receive), in one of the calls of `checkOne` and `fetchQuota`, or
`exited`. The channel is unbuffered, so a hand-over is one step. `Envelopes` are what
the host's reply tells (transport error, its `retryable` flag, both spellings of the
status, a terminal code of the body) and `Succeeds`, `Transient`, `ErrorCode` are what
`client.go` and `fetchQuota` make of it. A credential is usable or not; its parsing
is left out. The order of the result is not modelled, as aggregation does not depend on
it. A callback cannot be interrupted: `FetchReturnsLate` is the timeout or
the cancellation seen when it returns.

### PlanNames, PlanRules and Quota and the code

A plan text is a sequence of words and of three kinds of characters that
`NormalizePlan` treats differently: blanks (trimmed and removed), other white space
(only trimmed), dashes and underscores (only removed). `PlanRules` reads one
candidate per step, `Accept` or `Refuse`, as `parseRules` does; whatever order the
candidates come in is allowed. `MatchingRules` is the set `findRule` may choose from.

`Quota` counts one account per step. Percentages are integers in units of 1/100000,
totals in units of 1/1000000 of one quota, rounded to 1/10000 at the end like the
code's `round4`; errors of float64 arithmetic below that are left out. A window that
is given twice keeps the one tried last, as in `ParseWham`.

### Settings and the code

A page's `pc` names the request it waits for, in the order of `ui.html`'s save:
`validate`, `channels` (the second half of the same request), `put` and `write` (the
load and the write under the mutex of the secret store), `revalidate`, `rechannels`,
`patch`, `read`, `poll`, `status`. A configuration is whether SMTP is on and one
threshold; two values stand for the six secrets, "to", which must be addresses, and
"password", which must only be there. A stored value hides the environment, which is
constant. `Lost` is a request or its reply that is lost or given up after 20 seconds,
`PatchIsDropped` a CPA that answers without storing, `WriteFails` a failing `Update`,
with or without effect. CPA may reload at any time. Left out: reads of the private
file that fail (the code then falls back to the environment), a lost request that
arrives later, and a second App, whose store has a mutex of its own. Two pages
overwrite each other's configuration; no document promises more, so the properties
on configurations hold as long as no two pages have saved at one time, which the
history variable `mixed` tells; `UpdatesAreKept` and `SavesEnd` hold regardless. `Forms`
is what each page may be asked to save.

### SmtpSender, WebhookSender and the code

In both, a call looks up its values one by one while `Update` (the settings page)
may change them: `since` collects the values each name has had since the call
began. In `SmtpSender` `pc` is the line of `Send` up to the deferred calls
(`close`, `stop`, `join`), `watcher` the goroutine of `watchConnContext`, `conn` the
connection, `over` the context. The password stands for the user name too, the
recipients for the sender's address. Every command may be answered, refused, cut off
(`Hangup`) or never answered. `pending` is a message whose data has ended and which
the server has still to decide on; it may take it after `Send` has given up.
`OneSend` therefore allows a late acceptance after an error, and none before or
instead of success. `CheckHandler` takes the acceptance together with the return,
which differs only in when the recipient has the copy. That one message mixes old and new
values of different names is possible and not excluded (`README.md:86`: "arrange
credential changes during a quiet period").

### MailTemplate and the code

A text is a sequence of words, blanks, line breaks and placeholders, of which
three have a value for some kinds of events only. `Parse` is `parseMail`, which keeps and
checks the text without white space around it (`Trimmed`), `Render` the same checks in `template.go` with the substitution, `Validate` is
`validateMessage`. Two things no document speaks about: an accepted subject made
only of placeholders that have no value for a kind (`{{error_code}}` for a low alert)
renders empty and is refused by the senders at every check; and a plan name with a
line break makes rendering fail where it is listed in a subject.

## 3. Runs

| run | bounds | shows |
|---|---|---|
| `Delivery` | 2 callers, 2 channels, 3 configurations, 2 alerts, 2 faults | the safety properties of checks and deliveries under every interleaving, also of reloads and dry run in mid-check; refinement of `Outbox` |
| `Alerts` | 1 caller, 1 channel, 5 alerts and clock to 3 without an outage, 4 and 2 with one, up to 3 failures | the alert history over episodes, reminders, outages and plan changes |
| `Liveness` | 1 caller, 2 channels, 2 alerts, 1 fault, with fairness | delivery in the end; every check ends |
| `StateStore` | 3 saves of 2 writes, 1 reader, 2 faults | the store, and its refinement of `AtomicFile` |
| `Lifecycle` | 2 threads, 3 Apps, with fairness | one check per process, no callback after shutdown; init, shutdown and calls of a closed App end |
| `QuotaChecker` | up to 4 entries, 3 queried, 2 workers, 1 retry, with fairness | the round, its refinement of `QuotaRound`, and its end |
| `Settings` | 2 pages, 2 saves, 1 poll, 1 fault, with fairness | what a page's messages may be relied on for; no update is lost; every save ends |
| `Calculations` | lists of 3 rules over 4 plans in two spellings; 3 accounts, 19 replies, 3 rules; texts of up to 2 tokens and some longer, 4 kinds, 5 plan lists | what accepted rules mean to `findRule`; what the snapshot says of the accounts; which accepted templates reach the recipient |
| `Senders` | 2 recipients, 4 values, 2 URLs, 2 updates, with fairness | one message per call, to all, over TLS, nothing left behind, `Send` ends; refinement of `OneSend` by both senders |
| `Reminders`, `DataErrorTwice`, `SettingsCandidate` | small | the findings of section 5; each fails |

Why the bounds suffice: two callers are enough for every race on `running` and
the file, as a caller has no identity; two channels for every mixture of results
for one alert; two alerts for the order of deliveries and for an ID given twice;
two faults for a fault during the recovery from one. `Alerts` needs a low alert, a
reminder, a recovery, a low alert and a second reminder: five alerts. Its reminder
interval is one clock unit and the clock goes from 1 to 3, so that the first reminder is
raised and delivered at 2 and the second one at 3, with or without the recovery between
them. Two failures are `FailureAlertCount`, and a third one must not alert again;
`AlertBound`, the constraint of the run, ends a behaviour with a data_error or plan_changed
alert at four alerts and clock 2 (`MaxOutageEvents`, `MaxOutageTime`): enough for two
outages around a recovery, but without a second reminder. In `StateStore` a third save meets the remains of two that failed.
In `Lifecycle` one thread's call meets the other's init or shutdown, and a third App
meets the remains of a replaced one; a third thread is out of reach together with
fairness, but the theorems of section 6 cover any number. `QuotaChecker` needs more
accounts than workers, so that a worker takes a second job, and one retry, so that
first and last attempt differ. A conflict of plan rules involves two rules, the
third is there for the plan the two spare. Three accounts give a counted, a failed
and an unknown one at a time. Two saves let the second meet what a failed first one
left, or another page. A recipient may be accepted before one is refused: two. Two
updates change a value back and forth during one message.

Outcomes that would exceed `MaxEvents` or `MaxFailures` are cut off in `Query`; a
caller may still fail, finish or be refused there. Deadlock is checked in every run
but `Calculations`, each of which ends with its result. In
`Settings` and `QuotaChecker` the step that remains at the end is the environment's:
CPA reloads the plugin, the context is cancelled.

The bounds are `MaxTime` (clock), `MaxEvents` (alerts), `MaxFailures` (consecutive
failures), `MaxFaults`, `MaxSaves`, `MaxApps`, `MaxEntries`, `MaxRules`, `MaxAccounts`,
`MaxPolls` (15 in the page), `MaxUpdates`, and `MaxOutageEvents` and `MaxOutageTime` of
`Alerts`; `Concurrency`, `RetryAttempts` and
`Recipients` are settings of the code with small values.

### Fairness

`Liveness` assumes, in one configuration: a goroutine that can take its next step
takes it (weak fairness; a Go runtime and I/O with timeouts give that); the timer
starts checks again and again and is not always refused, the file can be read
every now and then, and every pending pair is now and then accepted (strong
fairness, as these are intermittent); a closed App is replaced. Failing saves,
closes, crashes and lost answers are bounded by `MaxFaults`. Nothing forces a
channel to accept at the first attempt, and a `Prepare` that fails again and again
is allowed as long as it succeeds some time.

`Lifecycle`: a thread that can run runs, a mutex does not starve a waiter
(strong fairness of `Detach`, which Go's mutexes give), and the host answers each
callback. A check is not assumed to end by itself. `QuotaChecker`: dispatcher
and workers run and callbacks return; nothing has to cancel the round.
`Settings`: a request is answered or given up, which the page's 20 second
limit gives; CPA need not reload. `Senders`: the lines of `Send` that wait
for nobody, an operation on a connection that is gone or under a context that is
over, and the watching goroutine make progress. Servers may stay silent for ever.

## 4. Properties

A property that a run checks is one of the definitions below; where it is a
conjunction of named parts (set off by a colon), each part says one thing.

* `ChecksExclude`: types and *OneCheckAtATime*. The flag does its work on every path,
  also the 409 path. `NoLostUpdate`: a check never builds on a state that has been
  replaced.
* `NoAlertLost`: stored alerts are numbered without a gap. `RecordedIsReceived`:
  whatever is recorded was received. `InboxIsJustified`: *SentIsStored*, whatever was
  sent is stored, and *RepeatsNeedFaults*, the copies a recipient gets beyond the first
  are at most the faults. `HistoryIsSound`: *HistoryIsKept*, nothing stored is ever
  lost, and *TruncatedIsDiscarded*, the outcome of cancelled queries reaches neither
  file nor recipient. `SuccessIsComplete`: a 200 answer means that everything is on disk
  and nothing is left untried on a channel of the check's own configuration; whether it
  was this check or an earlier one that tried, the file does not say. `ImplementsOutbox`
  puts these together.
* `LowAlertsAlternate`, `RemindersAreSpaced`, `ErrorAlertTracksOutage`: the alert history
  is the one the hysteresis should give. `ErrorAlertsComeOnce`: a crossing of
  `FailureAlertCount` raises one alert, and the failures after it none. `EventuallyDelivered`, `EventuallyReleased`:
  with section 3's fairness.
* `FilesAreWhole`: types, *NeverTorn* and *LoadsAreWhole*. `SaveIsAllOrNothing`.
  `SaveIsFinished`: *TempIsRemoved* and *AcknowledgedIsDurable*. `ImplementsAtomicFile`.
* `OneCheckPerProcess`: `running` belongs to one Handler, and only draining the old App
  keeps a second check out. `ChecksAreSound`: types, *NoCallbackAfterShutdown* (no check
  is inside a callback of a host context that was released), *ConfigIsReal* (none
  works with the zero configuration that `Close` leaves) and *ClosedAppsAreEmpty* (a
  reconfigure that was parsing while the App closed does not give it a configuration
  back). `CloseEnds`: *LifecycleEnds* and
  *ClosedCallsEnd*, also when the host shuts down from inside a callback.
* `ResultsAreSound`: types, *OneWorkerPerAccount* (results are written without a lock),
  *RoundIsComplete*, *CancelledIsVisible* (which `check` relies on to discard a round)
  and *TransientIsRetried*. `NoCallOnceCancelled`, `ImplementsRound`, `RoundEnds`.
* `RulesAreUnambiguous`: no plan text finds two rules, so the order of a Go map never
  decides a weight. `SpellingsAreHonoured`: what an operator wrote is found again.
  `RulesAreSound`: types and *TiersStaySeparate*, two upstream plans never share a rule.
* `SnapshotAddsUp`: types, *EveryAccountIsCounted* and *BreakdownsAddUp*.
  `FullTotalIsComplete`. `PartialIsALowerBound`, whatever the missing accounts would have
  answered.
* `StoreIsSound`: types and *UpdatesAreKept*, no update of the private file undoes
  another. `SavedIsInForce`: the message "saved" is true of CPA, the plugin and the
  channels. `PendingIsForeseen`: *ParserIsForeseen*, the parser's verdict with pending
  values is the one with stored values, and *SavedCanBeLoaded*, CPA is left with a
  configuration the plugin can start with. `SavesEnd`.
* `SendIsSound`: types, *ValuesAreCurrent* (a message uses values stored while it was
  being sent), *AllRecipientsOrNone*, *OnlyOverTLS* and *NothingIsLeftBehind* (goroutine
  and connection). `ImplementsOneSend`, `SendsEnd`. `WebhookIsSound`: types, *OnlyToTheURL*
  (whatever a receiver redirects to) and the refinement of `OneSend`.
* `AcceptedIsSent`: types, *AcceptedIsRendered*, *SayingSubjectIsSent* and
  *SentSubjectIsOneLine*. What the configuration accepted is not refused later.

Each property has a variant of a mapped definition (the `Variant of` operators)
with a plausible mistake that makes it fail under the same bounds.

## 5. Where the code differs from its documents

1. `RemindersAsDocumented` in `Reminders` (`handler.go:333`): a reminder that failed is
   retried even though the recovery has been stored, and reaches the recipient first.
   `README.md:31` says "remind every 24 hours while still low". The property has two
   more parts. *ReminderWaitsFullInterval*: `LastLowDeliveredAt` is not reset by a
   recovery (`types.go:123`), so the next episode's first reminder can be raised right
   after its low alert if that was not yet delivered. *EachChannelIsReminded*: a
   reminder pending on one channel suppresses the next one on all channels
   (`types.go:124`). TLC stops at the first of the three; put in the cfg by itself each
   of the others is violated too (the last needs two channels).
2. `OneDataErrorPerOutage` in `DataErrorTwice` (`types.go:79`): a plan change inside an
   outage rearms the monitoring alert, against `docs/specs/03-验收标准.md:20`.
3. `CandidateIsValidated` in `SettingsCandidate` (`ui.go:228`): the first validation builds
   the channels from the values in force, so recipients that are no addresses are
   stored before the second validation refuses them, against `README.md:86` ("The page
   validates the complete candidate configuration before saving"). For the same reason
   SMTP cannot be switched on in the save that gives its recipients, though
   `ui_test.go:75` expects pending values to validate.

One observation without a run: `NormalizePlan` is not idempotent (it trims before it
removes separators, so "-\tplus" becomes "\tplus" and then "plus"). `parseRules`
compares texts normalised once and `findRule` texts normalised twice, so a rule "plus"
beside a rule with the alias "-\tplus" is accepted although both fit one plan. The
page strips all white space; only a hand-written configuration has such texts. The
theorems of section 6 name the condition (`Steady`), and the texts of `Calculations`
satisfy it.

## 6. Proofs

All hold for every value of the constants (callers, channels, threads, workers,
accounts, rules, recipients, bounds) from the named assumptions of the models only:
configurations, outcomes and request bodies have their types (`Parse` guarantees
`LowThreshold < RecoveryThreshold`), bounds are natural numbers, a pool has a
worker, a weight is positive and its window a known one, an account is answered by
an error code or one body, with windows under six keys, a file has at least one
write, a message a recipient. TLC evaluates each of these assumptions. Four
theorems have a hypothesis beyond them, named where they are described below.

Every safety property of a passing run, invariant or action property, and every
refinement is a theorem; the runs check each on a small instance.

### The check and its deliveries

* `ChecksExcludeEachOther`: types (`TypeCorrect`), with one lemma per operator of
  `Monitor` (`EvaluateType`, `MarkDeliveredType`), and `OneCheckAtATime`
  (`MutualExclusion`), which is inductive over them. Steps fall in three classes:
  inside a check (`InsideCheckStep`), around it (`AroundCheckStep`), and the
  environment (`EnvironmentStep`).
* `LogIsComplete`, `RecordsAreTrue`: `NoAlertLost` and `RecordedIsReceived` speak of
  the file only, and a save copies memory to it, so neither is inductive. `LogInv`
  says the same of the copy of every check that has one. It is kept because
  `Evaluate` appends the next number and records nothing (`EvaluateWellLogged`,
  `EvaluateRecorded`), and `MarkDelivered` exchanges one event for its attempted
  version and records at most the attempted pair (`MarkDeliveredLog`,
  `MarkDeliveredRecorded`). An attempt adds to `inbox`, which `ReceivedGrows`
  shows harmless; with `MutualExclusion` no other copy is in use then.
* `HistoryStaysSound`, `SuccessesAreComplete`, `ChecksAreAnOutbox`, and `SentAlertsAreStored`
  (first half of `InboxesAreJustified`): `DeliveryInv` says for each program counter how
  the memory of a check differs from the file: not at all, by alerts raised by this
  evaluation (`Raises`, before the first save), or by one attempt (`OneAttempt`,
  before the save after a `Send`); and that what is left to do is owed and contains
  whatever is untried. `StepsOfDisk` derives that every step of `Next` does one of four
  things to file and recipients (`DiskStep`), and nothing if the round was truncated. The
  history is kept by each of the four (`DiskKept`), and each is a step of `Outbox` or
  a stutter.
* `LowAndRecoveryAlternate`, `RemindersKeepTheirDistance`, `OutagesAreTracked`:
  `AlertInv` holds of the file and of every memory that may be saved. Its `Episodes` says
  that low alerts and recoveries alternate (`Alternates`), that no alert and no
  `LastLowDeliveredAt` is later than the clock (`Timely`), and that reminders are apart
  (`Spaced`); `Tracks` relates `ErrorActive` to the count of failures. The proof rests on
  `EvaluateAlerts`: `Evaluate` is at most two steps that raise one alert each and change
  the mode with it. `OutagesAreTracked` has the hypothesis `Steady`, that all
  configurations have the same `failureAlertCount`; if an operator lowers it, the
  alert comes with the next failure only, and the property is not claimed.
* `ErrorAlertsAreRaisedOnce` has no such hypothesis: `AlarmInv` says that what a check is
  about to save has one data_error alert more than the file if it sets `ErrorActive`, and
  none more otherwise (`EvaluateAlarms`, `MarkDeliveredAlarms`).
* `InboxesAreJustified`, second half (`RepetitionsNeedFaults`): the inductive invariant
  `CountInv` is `|Repeats| + |Unsettled| + Late <= faults`. A message that was received
  but is recorded neither on file nor by a check that will still save it (`Unsettled`) can
  be repeated once, and is paid for in advance by the fault that unsettled it; so is
  the attempt that an App closed in mid-check is about to make (`Late`).

### The other components

* `UpdatesAreNotLost`: only an active check saves, and there is one.
* `FilesStayWhole` (from `StoreTypes`, `FileIsWhole`, `LoadsSeeStates`), `SavesAreAtomic`,
  `StoreIsAtomicFile`: `NeverTorn` is not inductive, as `Rename` publishes a file.
  `IInv` says how far the file `Save` works on has come at each program counter,
  that it is not synced while it is written (so it is neither the state file nor
  an open one), and that the content to be replaced is unchanged until `Rename`.
  `SavesFinish` adds `FinishedInv`, that no temporary file is left once the directory
  is about to be synced.
* `Lifecycle` (`OneCheckInTheProcess`, and `ChecksStaySound` from `NoCallbackOnceShutDown`,
  `ChecksHaveAConfig` and `ClosedStayEmpty`):
  `IInv` says who holds `lifecycleMu` (`Locked`), that an admitted call is in the wait
  group of its App (`Counted`), that a check holds its Handler's flag (`FlagIsHeld`),
  and that every App but the installed one is retired or being drained by the holder
  of the mutex (`OthersAreRetired`). Two checks are then of the same App, whose flag
  only one holds. The calls of an App share one record, so their effects on it are
  lemmas (`BeginEffect` ... `CloseEffect`).
* `QuotaChecker` (`ResultsStaySound`, from `WorkersNeverMeet`, `RoundsAreComplete`,
  `CancellationShows` and `TransientsAreRetried`; `CancellationStopsCalls`,
  `ChecksAreRounds`): `IInv` says that
  each account is with the dispatcher, with exactly one worker or answered (`Placed`),
  that the dispatcher stops early only when cancelled (`Dispatched`), and how many
  requests each attempt has cost (`Attempts`). `ChecksAreRounds` maps each step to a
  step of `QuotaRound` or a stutter.
* `PlanRules`: `SteadyRulesAreUnambiguous` and `SteadySpellingsAreHonoured` hold under
  `Steady`, that normalising a normalised text of the configuration changes nothing,
  which the observation of section 5 shows to be needed; `RulesStaySound` needs no such
  condition. `Claimed` ties every alias of a rule to that rule. `NormalizePlan` is
  never expanded, so the theorems are about the claiming, not about spelling.
* `Quota`, `FullTotalsAreComplete`: a snapshot not marked so far rests on accounts whose
  quota is known (`MarksInv`).
* `Quota`, `SnapshotsAddUp` and `PartialTotalsAreLowerBounds`: `SumsInv` says that the
  windows and the plans each sum to the total while counting, that closing moves each
  sum by at most the rounding of its parts (`SumOfRounded`), and that the four counts
  together count the accounts so far that are not ignored; `TotalInv`, that the total is
  the sum of what the accounts so far are worth. A lower bound follows as a sum
  is monotone (`SumIsMonotone`) and rounding too. The last theorem has the hypothesis
  `OneRuleEach`, that no plan text fits two rules. This is what `RulesAreUnambiguous`
  promises of accepted rules; with two rules for one text the order of a Go map would
  decide which weight counts, and the total of a second evaluation could be smaller. The
  instance of `Calculations` satisfies it.
* `MailTemplate`, `AcceptedTemplatesAreSent`: `MailInv` says what text is at hand at each
  stage. What is sent is the configured text with each placeholder replaced; lemmas
  say which tokens a filled text has (those of the template that are no placeholders,
  and those of the values). That a trimmed text is a text (`TrimmedIsText`) is all it
  takes of the trimming.
* Sums and filled texts are recursions over data. Where a fact about them is needed for
  every set or sequence, it is proved by a counterexample of least size (`Least`:
  a set of numbers that is not empty has a least member, from `WFMin`, which takes no
  operator); that the recursive function of the community module satisfies its equation
  is shown first, as it is a `CHOOSE` to the prover.
* `Settings`, `StoreStaysSound`, `SavedSettingsAreInForce`, `PendingValuesAreForeseen`: the
  inductive invariant `IInv`, which TLC checked on the instance of `Settings` before,
  says that without `mixed` one page is at work (`Alone`), that the holder of the lock
  has read what is still stored, what the page may rely on after each of its requests
  (`PageInv`: until the values are replaced its form parses with pending values, afterwards
  with the stored ones; after the patch CPA holds it), and that without faults the plugin
  runs and can load what CPA holds (`LoadInv`). The last two properties speak only of pages
  that save alone.
* `SmtpSender` (`SendsAreSound`, from `ValuesStayCurrent`, `NobodyIsLeftOut`, `AllOverTLS`
  and `NothingStays`; `SendsAreOneSend`): `IInv` says what is settled at each line of `Send`: nothing for
  the server to decide on before the data ends (`Unsent`), every recipient accepted
  after RCPT (`Counted`), when goroutine and connection exist (`Attended`), and that
  what is about to be returned is true (`Returns`).
* `WebhookSender` (`WebhooksAreSound`): `WebInv` says that no receiver has a message before
  the request is made, and none but the receiver of the URL that was looked up has it
  afterwards; every step is a step of `OneSend` or a stutter.

### Only model-checked

Everything about fairness is out of the prover's reach: `EventuallyDelivered`,
`EventuallyReleased`, `SavesEnd`, `RoundEnds`, `CloseEnds`, `SendsEnd`. So are the three
properties of section 5, which are refuted. What `NormalizePlan` makes of concrete
texts is computed by TLC only: the hypotheses `Steady` of `PlanRules` and
`OneRuleEach` are satisfied by the texts of `Calculations` and not derived from the
spelling of a text. How the modules fit together (section 2) is an argument in
words, apart from the shared operators and the abstract modules.

`CheckHandler`'s crash keeps `disk`, which `StoreIsAtomicFile` justifies for a
death of the process. After a *power loss* the file may be an earlier one if the
directory was not synced: `AcknowledgedIsDurable` says that happens only when
`syncDir` failed, whose error `Save` drops.

## 7. Not modelled, and the plan

Left out: the wording of messages, HTML and JSON, YAML syntax, the range checks of
`Parse` on single numbers, reading of credentials (JWT), the ABI's encoding, the
`status` and `effective-config` routes beyond what `Settings` takes from them (they
only read), `test-notification` (sends without state), panics (each entry point
recovers), and the growth of `DeliveredEvents`. These either change no state or
compute one value from one input, where a unit test reaches as far as a model.

Three hazards have no property, as no document says what should happen: an alert
raised with no channel stays pending, alerts raised under dry run are all sent by the
first check without it, and the state file is never pruned. The runs contain the
behaviour of the first two.

Left to prove, in this order: a condition on the spelling of a text that implies
`Steady` (no dash, underscore or space at its ends beside other white space), from
lemmas about `NormalizePlan`; that rules accepted by `PlanRules` satisfy `OneRuleEach`
of `Quota`; the safety halves of the liveness properties, as that a step of `Save` or of
`Send` never returns to an earlier line.
