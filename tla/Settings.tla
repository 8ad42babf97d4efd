------------------------------ MODULE Settings ------------------------------
(***************************************************************************)
(* Saving on the settings page (internal/management/ui.html): one save is  *)
(* a chain of requests - validate, store the notification values, validate *)
(* again, patch the configuration of CPA, read it back, wait until the     *)
(* plugin runs with it, ask its status - to the handlers of                *)
(* internal/management/ui.go, the store of internal/secrets/store.go and   *)
(* to CPA, while other pages save and CPA reloads the plugin whenever it   *)
(* likes.                                                                  *)
(*                                                                         *)
(* A configuration is what these steps tell apart: whether SMTP is on, and *)
(* one threshold.  The webhook differs only in having no value that must   *)
(* be an address.  Two notification values stand for the six: "to" must    *)
(* be a list of addresses, "password" only has to be there.                *)
(***************************************************************************)
EXTENDS Naturals, FiniteSets

CONSTANTS
  Pages,    \* browser pages with the Management Key
  NoPage,   \* nobody holds the mutex of the store
  Forms,    \* what each page may be asked to save
  BaseEnv,  \* the environment variables of the process
  MaxPolls, \* how often the page asks for the active settings (15)
  MaxSaves, \* bound on the number of saves
  MaxFaults \* bound on lost requests, lost replies, store errors and restarts

Names == {"to", "password"}

Values == {"good", "bad"}

NoValue == "none"

(* What the form asks for each value: a new one, to clear it, or nothing.  *)
Changes == [Names -> Values \cup {"clear", "keep"}]

Configs == [smtp: BOOLEAN, low: {1, 2}]

NotRunning == [smtp |-> FALSE, low |-> 0]

ASSUME SettingsAssumption ==
  /\ NoPage \notin Pages
  /\ Forms \in [Pages -> SUBSET [cfg: Configs, change: Changes]]
  /\ BaseEnv \in [Names -> Values \cup {NoValue}]
  /\ MaxPolls \in Nat /\ MaxSaves \in Nat /\ MaxFaults \in Nat

VARIABLES
  pc,       \* the request each page is waiting for
  form,     \* what it saves
  notice,   \* what it says below the button
  polls,    \* how often it has asked for the active settings
  stored,   \* the private file
  holder,   \* who holds Store.mu
  snapshot, \* the values loaded under the mutex
  saved,    \* the plugin's configuration in CPA
  active,   \* the configuration the plugin runs with
  saves,    \* how many saves were started
  faults,   \* how many faults there were
  last,     \* what all updates so far amount to; no part of the code
  mixed     \* whether two pages were saving at one time; no part of the code

pages == <<pc, form, notice, polls>>
store == <<stored, holder, snapshot, last>>
vars == <<pages, store, saved, active, saves, mixed, faults>>
-----------------------------------------------------------------------------
(* App.notificationEnv: a stored value hides the environment.              *)
Env(values) == [n \in Names |-> IF values[n] # NoValue THEN values[n] ELSE BaseEnv[n]]

(* Store.Update                                                            *)
Updated(values, change) ==
  [n \in Names |-> CASE change[n] = "keep" -> values[n]
                     [] change[n] = "clear" -> NoValue
                     [] OTHER -> change[n]]

\* Variant of PendingEnv: a value to be cleared still counts.
PendingEnvUncleared(change) ==
  [n \in Names |-> IF change[n] \in Values THEN change[n] ELSE Env(stored)[n]]

(* The lookup that validateSettings gives to the parser when the request   *)
(* tells of pending values.                                                *)
PendingEnv(change) ==
  [n \in Names |-> CASE change[n] = "keep" -> Env(stored)[n]
                     [] change[n] = "clear" -> BaseEnv[n]
                     [] OTHER -> change[n]]

(* validateNotificationEnv, the only check of the parser that reads values *)
Parses(cfg, env) == cfg.smtp => \A n \in Names : env[n] # NoValue

(* runtimeChannelFactory.Channels: recipientCount has to find addresses.   *)
HasChannels(cfg, env) == cfg.smtp => env["to"] = "good"

KeepsAll(change) == \A n \in Names : change[n] = "keep"

Goto(p, label) ==
  /\ pc' = [pc EXCEPT ![p] = label]
  /\ UNCHANGED <<form, notice, polls>>

Stop(p, text) ==
  /\ pc' = [pc EXCEPT ![p] = "idle"]
  /\ notice' = [notice EXCEPT ![p] = text]
  /\ UNCHANGED <<form, polls>>

(* The handler accepts the request, or the page stops with its error.      *)
Proceed(p, accepted, label) == IF accepted THEN Goto(p, label) ELSE Stop(p, "failed")
-----------------------------------------------------------------------------
Init ==
  /\ pc = [p \in Pages |-> "idle"]
  /\ form \in [Pages -> [cfg: {NotRunning}, change: {[n \in Names |-> "keep"]}]]
  /\ notice = [p \in Pages |-> ""]
  /\ polls = [p \in Pages |-> 0]
  /\ stored \in [Names -> Values \cup {NoValue}]
  /\ last = stored
  /\ holder = NoPage
  /\ snapshot = [p \in Pages |-> stored]
  /\ saved \in {c \in Configs : c.low = 1 /\ Parses(c, Env(stored))}
  /\ active = saved
  /\ saves = 0
  /\ mixed = FALSE
  /\ faults = 0

Press(p) ==
  /\ pc[p] = "idle"
  /\ saves < MaxSaves
  /\ saves' = saves + 1
  /\ mixed' = (mixed \/ \E q \in Pages : pc[q] # "idle")
  /\ \E f \in Forms[p] : form' = [form EXCEPT ![p] = f]
  /\ pc' = [pc EXCEPT ![p] = "validate"]
  /\ UNCHANGED <<notice, polls, store, saved, active, faults>>

(* App.beginManagementCall: without a configuration no request is served.  *)
NotConfigured(p) ==
  /\ active = NotRunning
  /\ \/ pc[p] \in {"validate", "put", "revalidate", "status"}
     \/ pc[p] = "poll" /\ polls[p] < MaxPolls
  /\ Stop(p, "failed")
  /\ UNCHANGED <<store, saved, active, saves, mixed, faults>>

(* validateSettings with pending values: the parser sees them ...          *)
Validate(p) ==
  /\ pc[p] = "validate"
  /\ active # NotRunning
  /\ Proceed(p, Parses(form[p].cfg, PendingEnv(form[p].change)), "channels")
  /\ UNCHANGED <<store, saved, active, saves, mixed, faults>>

(* ... and the channels are built from the values in force.                *)
ValidateChannels(p) ==
  /\ pc[p] = "channels"
  /\ Proceed(p, HasChannels(form[p].cfg, Env(stored)),
             IF KeepsAll(form[p].change) THEN "revalidate" ELSE "put")
  /\ UNCHANGED <<store, saved, active, saves, mixed, faults>>

\* Variant of LockAndLoad: the file is loaded before the mutex is taken.
LoadUnlocked(p) ==
  /\ pc[p] = "put"
  /\ active # NotRunning
  /\ snapshot' = [snapshot EXCEPT ![p] = stored]
  /\ Goto(p, "write")
  /\ UNCHANGED <<stored, last, holder, saved, active, saves, mixed, faults>>

(* PUT secrets                                                             *)
LockAndLoad(p) ==
  /\ pc[p] = "put"
  /\ active # NotRunning
  /\ holder = NoPage
  /\ holder' = p
  /\ snapshot' = [snapshot EXCEPT ![p] = stored]
  /\ Goto(p, "write")
  /\ UNCHANGED <<stored, last, saved, active, saves, mixed, faults>>

WriteAndUnlock(p) ==
  /\ stored' = Updated(snapshot[p], form[p].change)
  /\ last' = Updated(last, form[p].change)
  /\ holder' = NoPage
  /\ UNCHANGED snapshot

Write(p) ==
  /\ pc[p] = "write"
  /\ WriteAndUnlock(p)
  /\ Goto(p, "revalidate")
  /\ UNCHANGED <<saved, active, saves, mixed, faults>>

(* validateSettings without pending values, in two steps as above.         *)
Revalidate(p) ==
  /\ pc[p] = "revalidate"
  /\ active # NotRunning
  /\ Proceed(p, Parses(form[p].cfg, Env(stored)), "rechannels")
  /\ UNCHANGED <<store, saved, active, saves, mixed, faults>>

RevalidateChannels(p) ==
  /\ pc[p] = "rechannels"
  /\ Proceed(p, HasChannels(form[p].cfg, Env(stored)), "patch")
  /\ UNCHANGED <<store, saved, active, saves, mixed, faults>>

(* CPA stores the configuration and answers.                               *)
Patch(p) ==
  /\ pc[p] = "patch"
  /\ saved' = form[p].cfg
  /\ Goto(p, "read")
  /\ UNCHANGED <<store, active, saves, mixed, faults>>

(* CPA answers though it has kept what it had.                             *)
PatchIsDropped(p) ==
  /\ pc[p] = "patch"
  /\ faults < MaxFaults
  /\ faults' = faults + 1
  /\ Goto(p, "read")
  /\ UNCHANGED <<store, saved, active, saves, mixed>>

\* Variant of ReadBack: the answer to the patch is trusted.
ReadBackAnything(p) ==
  /\ pc[p] = "read"
  /\ pc' = [pc EXCEPT ![p] = "poll"]
  /\ polls' = [polls EXCEPT ![p] = 0]
  /\ notice' = [notice EXCEPT ![p] = "checking"]
  /\ UNCHANGED <<form, store, saved, active, saves, mixed, faults>>

ReadBack(p) ==
  /\ pc[p] = "read"
  /\ IF saved = form[p].cfg
       THEN /\ pc' = [pc EXCEPT ![p] = "poll"]
            /\ polls' = [polls EXCEPT ![p] = 0]
            /\ notice' = [notice EXCEPT ![p] = "checking"]
            /\ UNCHANGED form
       ELSE Stop(p, "failed")
  /\ UNCHANGED <<store, saved, active, saves, mixed, faults>>

\* Variant of Poll: a mismatch is not counted.
PollForever(p) ==
  /\ pc[p] = "poll"
  /\ IF active = form[p].cfg THEN Goto(p, "status") ELSE UNCHANGED pages
  /\ UNCHANGED <<store, saved, active, saves, mixed, faults>>

(* GET effective-config                                                    *)
Poll(p) ==
  /\ pc[p] = "poll"
  /\ IF polls[p] = MaxPolls THEN Stop(p, "unconfirmed")
     ELSE /\ active # NotRunning
          /\ IF active = form[p].cfg THEN Goto(p, "status")
             ELSE /\ polls' = [polls EXCEPT ![p] = @ + 1]
                  /\ UNCHANGED <<pc, form, notice>>
  /\ UNCHANGED <<store, saved, active, saves, mixed, faults>>

(* GET status builds the channels of the running configuration.            *)
Status(p) ==
  /\ pc[p] = "status"
  /\ active # NotRunning
  /\ Stop(p, IF HasChannels(active, Env(stored)) THEN "saved" ELSE "failed")
  /\ UNCHANGED <<store, saved, active, saves, mixed, faults>>
-----------------------------------------------------------------------------
(* A request or its reply is lost, or the page gives up after 20 seconds:  *)
(* the handler has not acted, or it has.                                   *)
Lost(p) ==
  /\ pc[p] \notin {"idle", "write"}
  /\ faults < MaxFaults
  /\ faults' = faults + 1
  /\ Stop(p, "failed")
  /\ \/ UNCHANGED saved
     \/ pc[p] = "patch" /\ saved' = form[p].cfg
  /\ UNCHANGED <<store, active, saves, mixed>>

WriteFails(p) ==
  /\ pc[p] = "write"
  /\ faults < MaxFaults
  /\ faults' = faults + 1
  /\ Stop(p, "failed")
  /\ \/ WriteAndUnlock(p)
     \/ holder' = NoPage /\ UNCHANGED <<stored, last, snapshot>>
  /\ UNCHANGED <<saved, active, saves, mixed>>

(* plugin.reconfigure: a configuration that does not parse changes nothing *)
Reload ==
  /\ active' = IF Parses(saved, Env(stored)) THEN saved ELSE active
  /\ UNCHANGED <<pages, store, saved, saves, mixed, faults>>

(* The process of CPA starts anew; a write in progress is gone.            *)
Restart ==
  /\ faults < MaxFaults
  /\ faults' = faults + 1
  /\ active' = NotRunning
  /\ pc' = [p \in Pages |-> IF pc[p] = "write" THEN "idle" ELSE pc[p]]
  /\ notice' = [p \in Pages |-> IF pc[p] = "write" THEN "failed" ELSE notice[p]]
  /\ holder' = NoPage
  /\ UNCHANGED <<form, polls, stored, last, snapshot, saved, saves, mixed>>

Step(p) ==
  \/ Validate(p) \/ ValidateChannels(p)
  \/ NotConfigured(p) \/ LockAndLoad(p) \/ Write(p)
  \/ Revalidate(p) \/ RevalidateChannels(p)
  \/ Patch(p) \/ ReadBack(p) \/ Poll(p) \/ Status(p)

Next ==
  \/ \E p \in Pages : Press(p) \/ Step(p) \/ PatchIsDropped(p) \/ Lost(p) \/ WriteFails(p)
  \/ Reload
  \/ Restart

Spec == Init /\ [][Next]_vars

(* Every request is answered or given up.                                  *)
FairSpec == Spec /\ \A p \in Pages : WF_vars(Step(p))
-----------------------------------------------------------------------------
Labels == {"idle", "validate", "channels", "put", "write", "revalidate", "rechannels",
           "patch", "read", "poll", "status"}

TypeOK ==
  /\ pc \in [Pages -> Labels]
  /\ form \in [Pages -> [cfg: Configs \cup {NotRunning}, change: Changes]]
  /\ notice \in [Pages -> {"", "failed", "checking", "unconfirmed", "saved"}]
  /\ polls \in [Pages -> 0 .. MaxPolls]
  /\ stored \in [Names -> Values \cup {NoValue}]
  /\ last \in [Names -> Values \cup {NoValue}]
  /\ snapshot \in [Pages -> [Names -> Values \cup {NoValue}]]
  /\ holder \in Pages \cup {NoPage}
  /\ saved \in Configs
  /\ active \in Configs \cup {NotRunning}
  /\ saves \in 0 .. MaxSaves
  /\ mixed \in BOOLEAN
  /\ faults \in 0 .. MaxFaults

(* No update of the private file undoes another one: the file always holds *)
(* what all the updates that reached it amount to, in their order, though  *)
(* each reads the whole file and writes it back.                           *)
UpdatesAreKept == stored = last

(* The private file holds values of its names, and all of them.            *)
StoreIsSound == TypeOK /\ UpdatesAreKept

(* The page says that the settings are saved and in force only when CPA    *)
(* holds them, the plugin runs with them and its channels can be built     *)
(* (as long as one page saves at a time; two overwrite each other).        *)
SavedIsInForce ==
  [][\A p \in Pages :
       ~mixed /\ pc[p] # "idle" /\ pc'[p] = "idle" /\ notice'[p] = "saved" =>
         /\ saved' = form[p].cfg
         /\ active' = form[p].cfg
         /\ HasChannels(active', Env(stored'))]_vars

(* What the parser accepts with pending values it accepts once they are    *)
(* stored: no save stops, after the values were replaced, for a value that *)
(* is missing (as long as one page saves at a time).                       *)
ParserIsForeseen ==
  \A p \in Pages :
    ~mixed /\ pc[p] = "revalidate" /\ pc'[p] = "idle" /\ active # NotRunning
      => faults' # faults

(* Without faults a save, finished or refused, leaves a configuration that *)
(* the plugin can load when it starts next; without one it would serve no  *)
(* request, not even the page's (as long as one page saves at a time).     *)
SavedCanBeLoaded ==
  ~mixed /\ faults = 0 /\ (\A p \in Pages : pc[p] = "idle") => Parses(saved, Env(stored))

(* The first validation foresees what becomes of the values it is told of. *)
PendingIsForeseen == [][ParserIsForeseen /\ SavedCanBeLoaded']_vars

(* Every save ends with one of the page's messages, whatever is lost or    *)
(* restarted meanwhile.                                                    *)
SavesEnd == \A p \in Pages : pc[p] # "idle" ~> pc[p] = "idle"

(* "The page validates the complete candidate configuration before         *)
(* saving", and "pending names did not validate" is an error of the test:  *)
(* the first validation accepts a candidate exactly if the plugin can run  *)
(* with it once its pending values are stored.                             *)
CandidateIsValidated ==
  [][\A p \in Pages :
       LET env  == PendingEnv(form[p].change)
           good == Parses(form[p].cfg, env) /\ HasChannels(form[p].cfg, env)
       IN /\ pc[p] \in {"validate", "channels"} /\ pc'[p] = "idle" =>
               ~good \/ active = NotRunning \/ faults' # faults
          /\ pc[p] = "channels" /\ pc'[p] \in {"put", "revalidate"} => good]_vars
=============================================================================
