--------------------------- MODULE SettingsProofs ---------------------------
(***************************************************************************)
(* What saving on the settings page promises, for any number of pages,     *)
(* forms, polls, saves and faults.  The inductive invariant says, for each *)
(* line of the chain of requests, what has been found out about the form   *)
(* so far and still holds: that the mutex keeps the values a page loaded,  *)
(* that the parser accepts the form together with the pending values and,  *)
(* once they are stored, with the stored ones, that CPA holds the form.    *)
(***************************************************************************)
EXTENDS Settings, TLAPS

(* Before the values are replaced, ...                                     *)
Early == {"idle", "validate", "channels", "put", "write"}

(* ... when the first validation has accepted the form, ...                *)
Foreseen == {"channels", "put", "write"}

(* ... and after that.                                                     *)
Late == {"revalidate", "rechannels", "patch", "read", "poll", "status"}

(* Unless pages were mixed, one of them saves at a time.                   *)
Alone ==
  ~mixed => \A p, q \in Pages : pc[p] # "idle" /\ pc[q] # "idle" => p = q

(* What the page knows of its form and of the values it has loaded.        *)
PageInv(p) ==
  /\ pc[p] # "idle" => form[p].cfg \in Configs
  /\ pc[p] = "write" => holder = p /\ snapshot[p] = stored
  /\ ~mixed =>
       /\ pc[p] \in Foreseen => Parses(form[p].cfg, PendingEnv(form[p].change))
       /\ pc[p] \in Late => Parses(form[p].cfg, Env(stored))
       /\ pc[p] \in {"poll", "status"} => saved = form[p].cfg
       /\ pc[p] = "read" /\ faults = 0 => saved = form[p].cfg
       /\ pc[p] = "status" => active \in {form[p].cfg, NotRunning}

(* Without faults the plugin runs, and what CPA holds can be loaded while  *)
(* no page has replaced the values.                                        *)
LoadInv ==
  ~mixed /\ faults = 0 =>
    /\ active # NotRunning
    /\ (\A p \in Pages : pc[p] \in Early) => Parses(saved, Env(stored))

IInv == TypeOK /\ UpdatesAreKept /\ Alone /\ LoadInv /\ \A p \in Pages : PageInv(p)

(* The steps a page takes, or that happen to its requests.                 *)
PageStep(p) == Press(p) \/ Step(p) \/ PatchIsDropped(p) \/ Lost(p) \/ WriteFails(p)

-----------------------------------------------------------------------------
(* The values.                                                             *)

LEMMA ConfigsRun == NotRunning \notin Configs
  BY DEF NotRunning, Configs

(* What the first validation is shown is what the update leaves behind.    *)
LEMMA UpdateIsForeseen ==
  ASSUME TypeOK, NEW change \in Changes
  PROVE  Env(Updated(stored, change)) = PendingEnv(change)
<1>1. \A n \in Names : change[n] \in Values \cup {"clear", "keep"}
  BY DEF Changes
<1>2. \A n \in Names : Env(Updated(stored, change))[n] = PendingEnv(change)[n]
  BY <1>1 DEF Env, Updated, PendingEnv, Values, NoValue
<1> QED
  BY <1>2 DEF Env, PendingEnv

(* A form that keeps all values is validated with those stored.            *)
LEMMA KeepsForeseen ==
  ASSUME NEW change, KeepsAll(change) PROVE PendingEnv(change) = Env(stored)
<1>1. \A n \in Names : PendingEnv(change)[n] = Env(stored)[n]
  BY DEF PendingEnv, KeepsAll
<1> QED
  BY <1>1 DEF Env, PendingEnv

LEMMA SamePending ==
  ASSUME stored' = stored PROVE \A change : PendingEnv(change)' = PendingEnv(change)
  BY DEF PendingEnv

LEMMA UpdatedType ==
  ASSUME NEW f \in [Names -> Values \cup {NoValue}], NEW change \in Changes
  PROVE  Updated(f, change) \in [Names -> Values \cup {NoValue}]
<1>1. \A n \in Names : change[n] \in Values \cup {"clear", "keep"}
  BY DEF Changes
<1> QED
  BY <1>1 DEF Updated

-----------------------------------------------------------------------------
(* The types.                                                              *)

Form == [cfg: Configs \cup {NotRunning}, change: Changes]

LEMMA FormTypes ==
  ASSUME TypeOK, NEW p \in Pages
  PROVE  form[p].cfg \in Configs \cup {NotRunning} /\ form[p].change \in Changes
  BY DEF TypeOK

LEMMA StopTypes ==
  ASSUME TypeOK, NEW p \in Pages, Stop(p, "failed") \/ Stop(p, "unconfirmed") \/ Stop(p, "saved")
  PROVE  /\ pc' \in [Pages -> Labels] /\ polls' \in [Pages -> 0 .. MaxPolls]
         /\ form' \in [Pages -> Form]
         /\ notice' \in [Pages -> {"", "failed", "checking", "unconfirmed", "saved"}]
  BY DEF TypeOK, Stop, Labels, Form

LEMMA GotoTypes ==
  ASSUME TypeOK, NEW p \in Pages, NEW label \in Labels, Goto(p, label)
  PROVE  /\ pc' \in [Pages -> Labels] /\ polls' \in [Pages -> 0 .. MaxPolls]
         /\ form' \in [Pages -> Form]
         /\ notice' \in [Pages -> {"", "failed", "checking", "unconfirmed", "saved"}]
  BY DEF TypeOK, Goto, Form

LEMMA Bounds == MaxPolls \in Nat /\ MaxSaves \in Nat /\ MaxFaults \in Nat
  BY SettingsAssumption

LEMMA FaultsCount == ASSUME TypeOK PROVE faults \in Nat
<1>1. faults \in 0 .. MaxFaults
  BY DEF TypeOK
<1> QED
  BY <1>1, Bounds

PageTypes ==
  /\ pc \in [Pages -> Labels] /\ polls \in [Pages -> 0 .. MaxPolls]
  /\ form \in [Pages -> Form]
  /\ notice \in [Pages -> {"", "failed", "checking", "unconfirmed", "saved"}]

StoreTypes ==
  /\ stored \in [Names -> Values \cup {NoValue}]
  /\ last \in [Names -> Values \cup {NoValue}]
  /\ snapshot \in [Pages -> [Names -> Values \cup {NoValue}]]
  /\ holder \in Pages \cup {NoPage}

RestTypes ==
  /\ saved \in Configs /\ active \in Configs \cup {NotRunning}
  /\ saves \in 0 .. MaxSaves /\ mixed \in BOOLEAN /\ faults \in 0 .. MaxFaults

LEMMA TypesTogether == TypeOK <=> PageTypes /\ StoreTypes /\ RestTypes
  BY DEF TypeOK, PageTypes, StoreTypes, RestTypes, Form

LEMMA WriteTypes ==
  ASSUME TypeOK, NEW p \in Pages, WriteAndUnlock(p) PROVE StoreTypes'
<1>1. /\ stored' = Updated(snapshot[p], form[p].change)
      /\ last' = Updated(last, form[p].change)
      /\ holder' = NoPage /\ snapshot' = snapshot
  BY DEF WriteAndUnlock
<1>2. /\ snapshot[p] \in [Names -> Values \cup {NoValue}]
      /\ last \in [Names -> Values \cup {NoValue}]
      /\ form[p].change \in Changes
  BY FormTypes DEF TypeOK
<1>3. /\ stored' \in [Names -> Values \cup {NoValue}]
      /\ last' \in [Names -> Values \cup {NoValue}]
  BY <1>1, <1>2, UpdatedType
<1> QED
  BY <1>1, <1>3 DEF TypeOK, StoreTypes

(* Every step keeps the types.                                             *)
LEMMA TypeStep ==
  ASSUME TypeOK, [Next]_vars, \A p \in Pages : PageInv(p)
  PROVE  TypeOK'
<1> USE SettingsAssumption
<1>a. PageTypes /\ StoreTypes /\ RestTypes
  BY TypesTogether
<1>t. ASSUME PageTypes', StoreTypes', RestTypes' PROVE TypeOK'
  BY <1>t DEF TypeOK, PageTypes, StoreTypes, RestTypes, Form
<1>s. ASSUME UNCHANGED store PROVE StoreTypes'
  BY <1>a, <1>s DEF store, StoreTypes
<1>r. ASSUME UNCHANGED <<saved, active, saves, mixed, faults>> PROVE RestTypes'
  BY <1>a, <1>r DEF RestTypes
<1>p. ASSUME NEW p \in Pages,
             \/ Stop(p, "failed") \/ Stop(p, "unconfirmed") \/ Stop(p, "saved")
             \/ \E label \in Labels : Goto(p, label)
      PROVE  PageTypes'
  BY <1>p, StopTypes, GotoTypes DEF PageTypes
<1>f. ASSUME NEW p \in Pages, pc[p] = "patch" PROVE form[p].cfg \in Configs
  BY <1>f DEF PageInv
<1>1. ASSUME NEW p \in Pages, Press(p) PROVE TypeOK'
  <2>1. PICK f \in Forms[p] : form' = [form EXCEPT ![p] = f]
    BY <1>1 DEF Press
  <2>2. f \in Form
    BY <2>1 DEF Form
  <2>3. PageTypes'
    BY <1>1, <1>a, <2>1, <2>2 DEF Press, PageTypes, Labels
  <2>4. StoreTypes'
    BY <1>1, <1>s DEF Press
  <2>5. RestTypes'
    BY <1>1, <1>a DEF Press, RestTypes
  <2> QED
    BY <2>3, <2>4, <2>5, <1>t
<1>2. ASSUME NEW p \in Pages, NotConfigured(p) PROVE TypeOK'
  BY <1>2, <1>s, <1>r, <1>p, <1>t DEF NotConfigured
<1>3. ASSUME NEW p \in Pages, \/ Validate(p) \/ ValidateChannels(p)
                              \/ Revalidate(p) \/ RevalidateChannels(p)
      PROVE  TypeOK'
  <2>1. UNCHANGED store /\ UNCHANGED <<saved, active, saves, mixed, faults>>
    BY <1>3 DEF Validate, ValidateChannels, Revalidate, RevalidateChannels
  <2>2. Stop(p, "failed") \/ \E label \in Labels : Goto(p, label)
    BY <1>3 DEF Validate, ValidateChannels, Revalidate, RevalidateChannels, Proceed, Labels
  <2> QED
    BY <2>1, <2>2, <1>s, <1>r, <1>p, <1>t
<1>4. ASSUME NEW p \in Pages, LockAndLoad(p) PROVE TypeOK'
  <2>1. StoreTypes'
    BY <1>4, <1>a DEF LockAndLoad, StoreTypes
  <2>2. Goto(p, "write") /\ UNCHANGED <<saved, active, saves, mixed, faults>>
    BY <1>4 DEF LockAndLoad
  <2> QED
    BY <2>1, <2>2, <1>r, <1>p, <1>t DEF Labels
<1>5. ASSUME NEW p \in Pages, Write(p) PROVE TypeOK'
  <2>1. WriteAndUnlock(p) /\ Goto(p, "revalidate")
        /\ UNCHANGED <<saved, active, saves, mixed, faults>>
    BY <1>5 DEF Write
  <2> QED
    BY <2>1, <1>r, <1>p, WriteTypes, <1>t DEF Labels
<1>6. ASSUME NEW p \in Pages, Patch(p) \/ PatchIsDropped(p) PROVE TypeOK'
  <2>1. UNCHANGED store /\ Goto(p, "read") /\ pc[p] = "patch"
    BY <1>6 DEF Patch, PatchIsDropped
  <2>2. RestTypes'
    BY <1>6, <1>a, <1>f, <2>1 DEF Patch, PatchIsDropped, RestTypes
  <2> QED
    BY <2>1, <2>2, <1>s, <1>p, <1>t DEF Labels
<1>7. ASSUME NEW p \in Pages, ReadBack(p) PROVE TypeOK'
  <2>1. UNCHANGED store /\ UNCHANGED <<saved, active, saves, mixed, faults>>
    BY <1>7 DEF ReadBack
  <2>2. CASE saved = form[p].cfg
    <3>1. /\ pc' = [pc EXCEPT ![p] = "poll"] /\ polls' = [polls EXCEPT ![p] = 0]
          /\ notice' = [notice EXCEPT ![p] = "checking"] /\ form' = form
      BY <1>7, <2>2 DEF ReadBack
    <3>2. "poll" \in Labels /\ 0 \in 0 .. MaxPolls
      BY DEF Labels
    <3>3. PageTypes'
      BY <1>a, <3>1, <3>2 DEF PageTypes
    <3> QED
      BY <2>1, <3>3, <1>s, <1>r, <1>t
  <2>3. CASE saved # form[p].cfg
    BY <1>7, <2>1, <2>3, <1>s, <1>r, <1>p, <1>t DEF ReadBack
  <2> QED
    BY <2>2, <2>3
<1>8. ASSUME NEW p \in Pages, Poll(p) PROVE TypeOK'
  <2>1. UNCHANGED store /\ UNCHANGED <<saved, active, saves, mixed, faults>>
    BY <1>8 DEF Poll
  <2>2. CASE polls[p] = MaxPolls \/ active = form[p].cfg
    <3>1. Stop(p, "unconfirmed") \/ Goto(p, "status")
      BY <1>8, <2>2 DEF Poll
    <3> QED
      BY <2>1, <3>1, <1>s, <1>r, <1>p, <1>t DEF Labels
  <2>3. CASE polls[p] # MaxPolls /\ active # form[p].cfg
    <3>1. polls' = [polls EXCEPT ![p] = @ + 1] /\ UNCHANGED <<pc, form, notice>>
      BY <1>8, <2>3 DEF Poll
    <3>2. polls[p] \in 0 .. MaxPolls /\ MaxPolls \in Nat
      BY <1>a DEF PageTypes
    <3>4. polls[p] + 1 \in 0 .. MaxPolls
      BY <2>3, <3>2
    <3>3. PageTypes'
      BY <1>a, <3>1, <3>4 DEF PageTypes
    <3> QED
      BY <2>1, <3>3, <1>s, <1>r, <1>t
  <2> QED
    BY <2>2, <2>3
<1>9. ASSUME NEW p \in Pages, Status(p) PROVE TypeOK'
  <2>1. /\ UNCHANGED store /\ UNCHANGED <<saved, active, saves, mixed, faults>>
        /\ Stop(p, "saved") \/ Stop(p, "failed")
    BY <1>9 DEF Status
  <2> QED
    BY <2>1, <1>s, <1>r, <1>p, <1>t
<1>10. ASSUME NEW p \in Pages, Lost(p) PROVE TypeOK'
  <2>1. Stop(p, "failed") /\ UNCHANGED store
    BY <1>10 DEF Lost
  <2>2. RestTypes'
    BY <1>10, <1>a, <1>f DEF Lost, RestTypes
  <2> QED
    BY <2>1, <2>2, <1>s, <1>p, <1>t
<1>11. ASSUME NEW p \in Pages, WriteFails(p) PROVE TypeOK'
  <2>1. Stop(p, "failed")
    BY <1>11 DEF WriteFails
  <2>2. StoreTypes'
    <3>1. CASE WriteAndUnlock(p)
      BY <3>1, WriteTypes
    <3>2. CASE holder' = NoPage /\ UNCHANGED <<stored, last, snapshot>>
      BY <3>2, <1>a DEF StoreTypes
    <3> QED
      BY <1>11, <3>1, <3>2 DEF WriteFails
  <2>3. RestTypes'
    BY <1>11, <1>a DEF WriteFails, RestTypes
  <2> QED
    BY <2>1, <2>2, <2>3, <1>p, <1>t
<1>12. CASE Reload
  <2>1. PageTypes' /\ StoreTypes'
    BY <1>12, <1>a, <1>s DEF Reload, pages, PageTypes
  <2>2. RestTypes'
    BY <1>12, <1>a DEF Reload, RestTypes
  <2> QED
    BY <2>1, <2>2, <1>t
<1>13. CASE Restart
  <2>1. PageTypes'
    BY <1>13, <1>a DEF Restart, PageTypes, Labels
  <2>2. StoreTypes'
    BY <1>13, <1>a DEF Restart, StoreTypes
  <2>3. RestTypes'
    BY <1>13, <1>a DEF Restart, RestTypes
  <2> QED
    BY <2>1, <2>2, <2>3, <1>t
<1>14. CASE UNCHANGED vars
  <2>1. PageTypes' /\ StoreTypes' /\ RestTypes'
    BY <1>14, <1>a, <1>s, <1>r DEF vars, pages, store, PageTypes
  <2> QED
    BY <2>1, <1>t
<1> QED
  BY <1>1, <1>2, <1>3, <1>4, <1>5, <1>6, <1>7, <1>8, <1>9, <1>10, <1>11, <1>12,
     <1>13, <1>14 DEF Next, Step

-----------------------------------------------------------------------------
(* The steps of one page.                                                  *)

(* What a page does changes nothing of the others, nor the configuration   *)
(* the plugin runs with.                                                   *)
LEMMA PageFrame ==
  ASSUME TypeOK, NEW p \in Pages, PageStep(p)
  PROVE  /\ \A q \in Pages \ {p} :
              /\ pc'[q] = pc[q] /\ form'[q] = form[q] /\ notice'[q] = notice[q]
              /\ snapshot'[q] = snapshot[q]
         /\ active' = active
<1>a. /\ pc \in [Pages -> Labels] /\ snapshot \in [Pages -> [Names -> Values \cup {NoValue}]]
      /\ form \in [Pages -> Form]
      /\ notice \in [Pages -> {"", "failed", "checking", "unconfirmed", "saved"}]
  BY DEF TypeOK, Form
<1>g. ASSUME NEW label, Goto(p, label)
      PROVE  \A q \in Pages \ {p} :
               pc'[q] = pc[q] /\ form'[q] = form[q] /\ notice'[q] = notice[q]
  BY <1>a, <1>g DEF Goto
<1>h. ASSUME NEW text, Stop(p, text)
      PROVE  \A q \in Pages \ {p} :
               pc'[q] = pc[q] /\ form'[q] = form[q] /\ notice'[q] = notice[q]
  BY <1>a, <1>h DEF Stop
<1>1. CASE Press(p)
  <2>1. PICK f \in Forms[p] : form' = [form EXCEPT ![p] = f]
    BY <1>1 DEF Press
  <2> QED
    BY <1>1, <1>a, <2>1 DEF Press, store
<1>2. CASE NotConfigured(p)
  BY <1>2, <1>h DEF NotConfigured, store
<1>3. CASE \/ Validate(p) \/ ValidateChannels(p) \/ Revalidate(p) \/ RevalidateChannels(p)
  <2>1. Stop(p, "failed") \/ \E label \in Labels : Goto(p, label)
    BY <1>3 DEF Validate, ValidateChannels, Revalidate, RevalidateChannels, Proceed, Labels
  <2>2. UNCHANGED store /\ active' = active
    BY <1>3 DEF Validate, ValidateChannels, Revalidate, RevalidateChannels
  <2> QED
    BY <2>1, <2>2, <1>g, <1>h DEF store
<1>4. CASE LockAndLoad(p)
  BY <1>4, <1>a, <1>g DEF LockAndLoad
<1>5. CASE Write(p)
  BY <1>5, <1>g DEF Write, WriteAndUnlock
<1>6. CASE Patch(p) \/ PatchIsDropped(p)
  BY <1>6, <1>g DEF Patch, PatchIsDropped, store
<1>7. CASE ReadBack(p)
  BY <1>7, <1>a, <1>h DEF ReadBack, store
<1>8. CASE Poll(p)
  BY <1>8, <1>g, <1>h DEF Poll, store
<1>9. CASE Status(p)
  BY <1>9, <1>h DEF Status, store
<1>10. CASE Lost(p)
  BY <1>10, <1>h DEF Lost, store
<1>11. CASE WriteFails(p)
  BY <1>11, <1>h DEF WriteFails, WriteAndUnlock
<1> QED
  BY <1>1, <1>2, <1>3, <1>4, <1>5, <1>6, <1>7, <1>8, <1>9, <1>10, <1>11
     DEF PageStep, Step

(* The private file is written by who holds the mutex, with what it read.  *)
LEMMA StoreFrame ==
  ASSUME TypeOK, UpdatesAreKept, NEW p \in Pages, PageInv(p), PageStep(p)
  PROVE  /\ stored' = last'
         /\ stored' # stored \/ holder' # holder => holder \in {p, NoPage}
         /\ pc[p] # "write" => stored' = stored
<1>1. CASE pc[p] = "write" /\ (Write(p) \/ WriteFails(p))
  <2>1. holder = p /\ snapshot[p] = stored /\ stored = last
    BY <1>1 DEF PageInv, UpdatesAreKept
  <2> QED
    BY <1>1, <2>1 DEF Write, WriteFails, WriteAndUnlock
<1>2. CASE LockAndLoad(p)
  BY <1>2 DEF LockAndLoad, UpdatesAreKept
<1>3. CASE UNCHANGED store
  BY <1>3 DEF store, UpdatesAreKept
<1>4. \/ pc[p] = "write" /\ (Write(p) \/ WriteFails(p))
      \/ LockAndLoad(p) \/ UNCHANGED store
  BY DEF PageStep, Step, Press, NotConfigured, Validate, ValidateChannels, Write, Revalidate,
         RevalidateChannels, Patch, PatchIsDropped, ReadBack, Poll, Status, Lost, WriteFails
<1> QED
  BY <1>1, <1>2, <1>3, <1>4

(* Only a page at rest may be the second one to save.                      *)
LEMMA MixedStep ==
  ASSUME TypeOK, Alone, NEW p \in Pages, PageStep(p), ~mixed'
  PROVE  ~mixed /\ \A q \in Pages \ {p} : pc[q] = "idle"
<1>1. CASE Press(p)
  BY <1>1 DEF Press, TypeOK
<1>2. CASE ~Press(p)
  <2>1. mixed' = mixed /\ pc[p] # "idle"
    BY <1>2 DEF PageStep, Step, NotConfigured, Validate, ValidateChannels, LockAndLoad, Write,
       Revalidate, RevalidateChannels, Patch, PatchIsDropped, ReadBack, Poll, Status, Lost,
       WriteFails
  <2> QED
    BY <2>1 DEF Alone
<1> QED
  BY <1>1, <1>2

(* What the other pages know stays true.                                   *)
LEMMA OtherPages ==
  ASSUME IInv, NEW p \in Pages, PageStep(p), NEW q \in Pages, q # p
  PROVE  PageInv(q)'
<1>1. /\ pc'[q] = pc[q] /\ form'[q] = form[q] /\ snapshot'[q] = snapshot[q]
  BY PageFrame DEF IInv
<1>2. form[q].cfg \in Configs \/ pc[q] = "idle"
  BY DEF IInv, PageInv
<1>3. ASSUME pc[q] = "write" PROVE holder' = q /\ snapshot'[q] = stored'
  <2>1. holder = q /\ snapshot[q] = stored
    BY <1>3 DEF IInv, PageInv
  <2>2. stored' = stored /\ holder' = holder
    BY <2>1, StoreFrame, SettingsAssumption DEF IInv
  <2> QED
    BY <1>1, <2>1, <2>2
<1>4. ~mixed' => pc[q] = "idle"
  BY MixedStep DEF IInv
<1> QED
  BY <1>1, <1>2, <1>3, <1>4 DEF PageInv, Foreseen, Late

(* A page that stops, and one that goes on.                                *)
LEMMA Stopped ==
  ASSUME TypeOK, NEW p \in Pages, NEW text, Stop(p, text)
  PROVE  PageInv(p)' /\ pc'[p] = "idle" /\ notice'[p] = text
  BY DEF TypeOK, Stop, PageInv, Foreseen, Late

LEMMA Gone ==
  ASSUME TypeOK, NEW p \in Pages, NEW label, Goto(p, label)
  PROVE  pc'[p] = label /\ form' = form /\ notice' = notice /\ polls' = polls
  BY DEF TypeOK, Goto

(* What a page knows of its own form after each of its steps.              *)
LEMMA OwnPage ==
  ASSUME IInv, NEW p \in Pages, PageStep(p)
  PROVE  PageInv(p)'
<1>a. TypeOK /\ Alone /\ PageInv(p)
  BY DEF IInv
<1>b. ~mixed' => ~mixed
  BY <1>a, MixedStep
<1>c. active' = active
  BY <1>a, PageFrame
<1>d. form[p].change \in Changes
  BY <1>a, FormTypes
<1>e. faults \in Nat
  BY <1>a, FaultsCount
<1>s. ASSUME NEW text, Stop(p, text) PROVE PageInv(p)'
  BY <1>a, <1>s, Stopped
<1>1. CASE Press(p)
  <2>1. PICK f \in Forms[p] : form' = [form EXCEPT ![p] = f]
    BY <1>1 DEF Press
  <2>2. f.cfg \in Configs
    BY <2>1, SettingsAssumption
  <2>3. pc'[p] = "validate" /\ form'[p] = f
    BY <1>1, <1>a, <2>1 DEF Press, TypeOK
  <2> QED
    BY <2>2, <2>3 DEF PageInv, Foreseen, Late
<1>2. CASE NotConfigured(p) \/ Status(p) \/ Lost(p) \/ WriteFails(p)
  BY <1>2, <1>s DEF NotConfigured, Status, Lost, WriteFails
<1>3. CASE Validate(p)
  <2>1. CASE Goto(p, "channels") /\ Parses(form[p].cfg, PendingEnv(form[p].change))
    <3>1. stored' = stored /\ pc'[p] = "channels" /\ form' = form /\ pc[p] = "validate"
      BY <1>3, <1>a, <2>1, Gone DEF Validate, store
    <3>2. Parses(form[p].cfg, PendingEnv(form[p].change))'
      BY <2>1, <3>1, SamePending DEF Parses
    <3> QED
      BY <1>a, <3>1, <3>2 DEF PageInv, Foreseen, Late
  <2> QED
    BY <1>3, <1>s, <2>1 DEF Validate, Proceed
<1>4. CASE ValidateChannels(p)
  <2>1. /\ stored' = stored /\ pc[p] = "channels"
    BY <1>4 DEF ValidateChannels, store
  <2>2. CASE Goto(p, "revalidate") /\ KeepsAll(form[p].change)
    <3>1. pc'[p] = "revalidate" /\ form' = form
      BY <1>a, <2>2, Gone
    <3>2. ~mixed' => Parses(form[p].cfg, Env(stored))
      BY <1>a, <1>b, <2>1, <2>2, KeepsForeseen DEF PageInv, Foreseen
    <3> QED
      BY <1>a, <2>1, <3>1, <3>2 DEF PageInv, Foreseen, Late
  <2>3. CASE Goto(p, "put")
    <3>1. pc'[p] = "put" /\ form' = form
      BY <1>a, <2>3, Gone
    <3>2. ~mixed' => Parses(form[p].cfg, PendingEnv(form[p].change))'
      BY <1>a, <1>b, <2>1, <3>1, SamePending DEF PageInv, Foreseen, Parses
    <3> QED
      BY <1>a, <2>1, <3>1, <3>2 DEF PageInv, Foreseen, Late
  <2> QED
    BY <1>4, <1>s, <2>2, <2>3 DEF ValidateChannels, Proceed
<1>5. CASE LockAndLoad(p)
  <2>1. /\ stored' = stored /\ pc[p] = "put" /\ pc'[p] = "write" /\ form' = form
        /\ holder' = p
    BY <1>5, <1>a, Gone DEF LockAndLoad
  <2>2. snapshot'[p] = stored
    BY <1>5, <1>a DEF LockAndLoad, TypeOK
  <2>3. ~mixed' => Parses(form[p].cfg, PendingEnv(form[p].change))'
    BY <1>a, <1>b, <2>1, SamePending DEF PageInv, Foreseen, Parses
  <2> QED
    BY <1>a, <2>1, <2>2, <2>3 DEF PageInv, Foreseen, Late
<1>6. CASE Write(p)
  <2>1. pc[p] = "write" /\ pc'[p] = "revalidate" /\ form' = form
    BY <1>6, <1>a, Gone DEF Write
  <2>2. stored' = Updated(stored, form[p].change)
    BY <1>6, <1>a, <2>1 DEF Write, WriteAndUnlock, PageInv
  <2>3. Env(stored') = PendingEnv(form[p].change)
    BY <1>a, <1>d, <2>2, UpdateIsForeseen
  <2>4. ~mixed' => Parses(form[p].cfg, Env(stored'))
    BY <1>a, <1>b, <2>1, <2>3 DEF PageInv, Foreseen
  <2> QED
    BY <1>a, <2>1, <2>4 DEF PageInv, Foreseen, Late
<1>7. CASE Revalidate(p) \/ RevalidateChannels(p)
  <2>1. /\ stored' = stored /\ pc[p] \in {"revalidate", "rechannels"}
    BY <1>7 DEF Revalidate, RevalidateChannels, store
  <2>2. ASSUME NEW label \in {"rechannels", "patch"}, Goto(p, label) PROVE PageInv(p)'
    <3>1. pc'[p] \in {"rechannels", "patch"} /\ form' = form
      BY <1>a, <2>2, Gone
    <3>2. ~mixed' => Parses(form[p].cfg, Env(stored))
      BY <1>a, <1>b, <2>1 DEF PageInv, Late
    <3> QED
      BY <1>a, <2>1, <3>1, <3>2 DEF PageInv, Foreseen, Late
  <2> QED
    BY <1>7, <1>s, <2>2 DEF Revalidate, RevalidateChannels, Proceed
<1>8. CASE Patch(p) \/ PatchIsDropped(p)
  <2>1. stored' = stored /\ pc[p] = "patch" /\ pc'[p] = "read" /\ form' = form
    BY <1>8, <1>a, Gone DEF Patch, PatchIsDropped, store
  <2>2. saved' = form[p].cfg \/ faults' # 0
    BY <1>8, <1>e DEF Patch, PatchIsDropped
  <2>3. ~mixed' => Parses(form[p].cfg, Env(stored))
    BY <1>a, <1>b, <2>1 DEF PageInv, Late
  <2> QED
    BY <1>a, <2>1, <2>2, <2>3 DEF PageInv, Foreseen, Late
<1>9. CASE ReadBack(p)
  <2>1. stored' = stored /\ saved' = saved /\ pc[p] = "read"
    BY <1>9 DEF ReadBack, store
  <2>2. CASE saved = form[p].cfg
    <3>1. pc'[p] = "poll" /\ form' = form
      BY <1>9, <1>a, <2>2 DEF ReadBack, TypeOK
    <3>2. ~mixed' => Parses(form[p].cfg, Env(stored))
      BY <1>a, <1>b, <2>1 DEF PageInv, Late
    <3> QED
      BY <1>a, <2>1, <2>2, <3>1, <3>2 DEF PageInv, Foreseen, Late
  <2> QED
    BY <1>9, <1>s, <2>2 DEF ReadBack
<1>10. CASE Poll(p)
  <2>1. stored' = stored /\ saved' = saved /\ pc[p] = "poll" /\ form[p].cfg \in Configs
    BY <1>10, <1>a DEF Poll, store, PageInv
  <2>2. ~mixed' => Parses(form[p].cfg, Env(stored)) /\ saved = form[p].cfg
    BY <1>a, <1>b, <2>1 DEF PageInv, Late
  <2>3. CASE Goto(p, "status") /\ active = form[p].cfg
    <3>1. pc'[p] = "status" /\ form' = form
      BY <1>a, <2>3, Gone
    <3> QED
      BY <1>c, <2>1, <2>2, <2>3, <3>1 DEF PageInv, Foreseen, Late
  <2>4. CASE UNCHANGED <<pc, form, notice>>
    BY <2>1, <2>2, <2>4 DEF PageInv, Foreseen, Late
  <2> QED
    BY <1>10, <1>s, <2>3, <2>4 DEF Poll
<1> QED
  BY <1>1, <1>2, <1>3, <1>4, <1>5, <1>6, <1>7, <1>8, <1>9, <1>10 DEF PageStep, Step

-----------------------------------------------------------------------------
(* The configuration that CPA holds.                                       *)

(* Without faults a page that stops leaves one that can be loaded.         *)
LEMMA StoppedLoads ==
  ASSUME IInv, ~mixed, faults = 0, NEW p \in Pages, PageStep(p), faults' = 0,
         \A q \in Pages \ {p} : pc[q] = "idle",
         pc'[p] \in Early
  PROVE  Parses(saved', Env(stored'))
<1>a. TypeOK /\ PageInv(p) /\ active # NotRunning
  BY DEF IInv, LoadInv
<1>b. pc[p] \in Early => Parses(saved, Env(stored))
  BY DEF IInv, LoadInv, Early
<1>g. ASSUME NEW label \in Late, Goto(p, label) PROVE FALSE
  <2>1. pc'[p] = label
    BY <1>a, <1>g, Gone
  <2> QED
    BY <2>1, <1>g DEF Late, Early
<1>1. CASE Press(p)
  BY <1>1, <1>b DEF Press, Early, store
<1>2. CASE NotConfigured(p)
  BY <1>2, <1>a DEF NotConfigured
<1>3. CASE Validate(p) \/ ValidateChannels(p)
  BY <1>3, <1>b DEF Validate, ValidateChannels, Early, store
<1>4. CASE LockAndLoad(p)
  BY <1>4, <1>b DEF LockAndLoad, Early
<1>5. CASE Write(p) \/ Patch(p)
  BY <1>5, <1>g DEF Write, Patch, Late
<1>6. CASE PatchIsDropped(p) \/ Lost(p) \/ WriteFails(p)
  BY <1>6 DEF PatchIsDropped, Lost, WriteFails
<1>7. CASE Revalidate(p)
  <2>1. Parses(form[p].cfg, Env(stored))
    BY <1>7, <1>a DEF Revalidate, PageInv, Late
  <2> QED
    BY <1>7, <1>g, <2>1 DEF Revalidate, Proceed, Late
<1>8. CASE RevalidateChannels(p)
  <2>1. ~HasChannels(form[p].cfg, Env(stored)) /\ stored' = stored /\ saved' = saved
    BY <1>8, <1>g DEF RevalidateChannels, Proceed, Late, store
  <2>2. Parses(form[p].cfg, Env(stored))
    BY <1>8, <1>a DEF RevalidateChannels, PageInv, Late
  <2>3. \A n \in Names : Env(stored)[n] # NoValue
    BY <2>1, <2>2 DEF HasChannels, Parses
  <2> QED
    BY <2>1, <2>3 DEF Parses
<1>9. CASE ReadBack(p) \/ Poll(p) \/ Status(p)
  <2>1. /\ stored' = stored /\ saved' = saved /\ pc[p] \in {"read", "poll", "status"}
    BY <1>9 DEF ReadBack, Poll, Status, store
  <2> QED
    BY <1>a, <2>1 DEF PageInv, Late
<1> QED
  BY <1>1, <1>2, <1>3, <1>4, <1>5, <1>6, <1>7, <1>8, <1>9 DEF PageStep, Step

(* Every step of a page keeps the invariant, ...                           *)
LEMMA PageKeeps ==
  ASSUME IInv, TypeOK', NEW p \in Pages, PageStep(p)
  PROVE  IInv'
<1>a. TypeOK /\ UpdatesAreKept /\ Alone /\ LoadInv /\ PageInv(p)
  BY DEF IInv
<1>m. ~mixed' => ~mixed /\ \A q \in Pages \ {p} : pc[q] = "idle"
  BY <1>a, MixedStep
<1>f. \A q \in Pages \ {p} : pc'[q] = pc[q]
  BY <1>a, PageFrame
<1>1. UpdatesAreKept'
  BY <1>a, StoreFrame DEF UpdatesAreKept
<1>2. Alone'
  BY <1>m, <1>f DEF Alone
<1>3. \A q \in Pages : PageInv(q)'
  BY OwnPage, OtherPages
<1>4. LoadInv'
  <2>1. faults' = 0 => faults = 0
    <3>1. faults \in Nat
      BY <1>a, FaultsCount
    <3>2. faults' = faults \/ faults' = faults + 1
      BY DEF PageStep, Step, Press, NotConfigured, Validate, ValidateChannels,
           LockAndLoad, Write, Revalidate, RevalidateChannels, Patch, PatchIsDropped,
           ReadBack, Poll, Status, Lost, WriteFails
    <3> QED
      BY <3>1, <3>2
  <2>2. active' = active
    BY <1>a, PageFrame
  <2> QED
    BY <1>a, <1>m, <2>1, <2>2, StoppedLoads DEF LoadInv
<1> QED
  BY <1>1, <1>2, <1>3, <1>4 DEF IInv

(* ... and so do a reload and a restart of the plugin.                     *)
LEMMA InvariantStep == ASSUME IInv, [Next]_vars PROVE IInv'
<1>a. /\ TypeOK /\ UpdatesAreKept /\ Alone /\ LoadInv
      /\ \A p \in Pages : PageInv(p)
  BY DEF IInv
<1>t. TypeOK'
  BY <1>a, TypeStep
<1>1. ASSUME NEW p \in Pages, PageStep(p) PROVE IInv'
  BY <1>1, <1>t, PageKeeps
<1>2. CASE Reload
  <2>1. /\ UNCHANGED <<pc, form, stored, last, holder, snapshot, saved, mixed, faults>>
        /\ active' \in {saved, active}
    BY <1>2 DEF Reload, pages, store
  <2>2. UpdatesAreKept' /\ Alone'
    BY <1>a, <2>1 DEF UpdatesAreKept, Alone
  <2>3. LoadInv'
    BY <1>a, <2>1, ConfigsRun DEF LoadInv, TypeOK
  <2>4. ASSUME NEW p \in Pages PROVE PageInv(p)'
    <3>1. PendingEnv(form[p].change)' = PendingEnv(form[p].change)
      BY <2>1, SamePending
    <3>2. Parses(form[p].cfg, PendingEnv(form[p].change))' <=>
            Parses(form[p].cfg, PendingEnv(form[p].change))
      BY <2>1, <3>1 DEF Parses
    <3> QED
      BY <1>a, <2>1, <3>2 DEF PageInv
  <2> QED
    BY <1>t, <2>2, <2>3, <2>4 DEF IInv
<1>3. CASE Restart
  <2>1. /\ UNCHANGED <<form, stored, last, snapshot, saved, mixed>>
        /\ faults' # 0 /\ active' = NotRunning
    BY <1>3, <1>a, FaultsCount DEF Restart
  <2>2. \A p \in Pages : pc'[p] = IF pc[p] = "write" THEN "idle" ELSE pc[p]
    BY <1>3 DEF Restart
  <2>3. UpdatesAreKept' /\ Alone' /\ LoadInv'
    BY <1>a, <2>1, <2>2 DEF UpdatesAreKept, Alone, LoadInv
  <2>4. ASSUME NEW p \in Pages PROVE PageInv(p)'
    <3>1. PendingEnv(form[p].change)' = PendingEnv(form[p].change)
      BY <2>1, SamePending
    <3>2. Parses(form[p].cfg, PendingEnv(form[p].change))' <=>
            Parses(form[p].cfg, PendingEnv(form[p].change))
      BY <2>1, <3>1 DEF Parses
    <3> QED
      BY <1>a, <2>1, <2>2, <3>2 DEF PageInv, Foreseen, Late
  <2> QED
    BY <1>t, <2>3, <2>4 DEF IInv
<1>4. CASE UNCHANGED vars
  <2>1. /\ UNCHANGED <<pc, form, stored, last, holder, snapshot, saved, mixed, faults>>
        /\ active' = active
    BY <1>4 DEF vars, pages, store
  <2>2. UpdatesAreKept' /\ Alone' /\ LoadInv'
    BY <1>a, <2>1 DEF UpdatesAreKept, Alone, LoadInv
  <2>4. ASSUME NEW p \in Pages PROVE PageInv(p)'
    <3>1. PendingEnv(form[p].change)' = PendingEnv(form[p].change)
      BY <2>1, SamePending
    <3>2. Parses(form[p].cfg, PendingEnv(form[p].change))' <=>
            Parses(form[p].cfg, PendingEnv(form[p].change))
      BY <2>1, <3>1 DEF Parses
    <3> QED
      BY <1>a, <2>1, <3>2 DEF PageInv
  <2> QED
    BY <1>t, <2>2, <2>4 DEF IInv
<1> QED
  BY <1>1, <1>2, <1>3, <1>4 DEF Next, PageStep

LEMMA Initially == Init => IInv
<1> SUFFICES ASSUME Init PROVE IInv
  OBVIOUS
<1>1. \A p \in Pages : pc[p] = "idle"
  BY DEF Init
<1>2. Alone /\ UpdatesAreKept /\ \A p \in Pages : PageInv(p)
  BY <1>1 DEF Init, Alone, UpdatesAreKept, PageInv, Foreseen, Late
<1>3. saved \in Configs /\ active = saved /\ Parses(saved, Env(stored))
  BY DEF Init
<1>4. LoadInv
  BY <1>3, ConfigsRun DEF LoadInv
<1>5. TypeOK
  <2>1. [n \in Names |-> "keep"] \in Changes
    BY DEF Changes
  <2>2. form \in [Pages -> Form]
    BY <2>1 DEF Init, Form
  <2>5. PageTypes
    <3>1. /\ pc = [p \in Pages |-> "idle"] /\ notice = [p \in Pages |-> ""]
          /\ polls = [p \in Pages |-> 0]
      BY DEF Init
    <3>2. 0 \in 0 .. MaxPolls
      BY Bounds
    <3> QED
      BY <2>2, <3>1, <3>2 DEF PageTypes, Labels
  <2>3. StoreTypes
    BY DEF Init, StoreTypes
  <2>4. RestTypes
    <3>1. saves = 0 /\ mixed = FALSE /\ faults = 0
      BY DEF Init
    <3>2. 0 \in 0 .. MaxSaves /\ 0 \in 0 .. MaxFaults
      BY Bounds
    <3> QED
      BY <1>3, <3>1, <3>2 DEF RestTypes
  <2> QED
    BY <2>5, <2>3, <2>4, TypesTogether
<1> QED
  BY <1>2, <1>4, <1>5 DEF IInv

LEMMA InvariantHolds == Spec => []IInv
  BY Initially, InvariantStep, PTL DEF Spec

-----------------------------------------------------------------------------
(* The private file always holds what all the updates amount to, for any   *)
(* number of pages that write it at the same time and wherever a write is  *)
(* lost, fails or dies with the process.                                   *)
THEOREM StoreStaysSound == Spec => []StoreIsSound
<1>1. IInv => StoreIsSound
  BY DEF IInv, StoreIsSound
<1> QED
  BY <1>1, InvariantHolds, PTL

(* "saved" is said of settings that CPA holds, with which the plugin runs  *)
(* and of which its channels can be built, whatever is lost or restarted.  *)
THEOREM SavedSettingsAreInForce == Spec => SavedIsInForce
<1> DEFINE Said(p) == ~mixed /\ pc[p] # "idle" /\ pc'[p] = "idle" /\ notice'[p] = "saved"
           Holds(p) == /\ saved' = form[p].cfg /\ active' = form[p].cfg
                       /\ HasChannels(active', Env(stored'))
<1>1. ASSUME IInv, [Next]_vars, NEW p \in Pages, Said(p) PROVE Holds(p)
  <2>a. TypeOK /\ PageInv(p)
    BY <1>1 DEF IInv
  <2>b. /\ pc'[p] # pc[p] /\ notice'[p] = "saved"
    BY <1>1
  <2>s. ASSUME NEW text, Stop(p, text) PROVE text = "saved"
    BY <2>a, <2>b, <2>s, Stopped
  <2>g. ASSUME NEW label, Goto(p, label) PROVE label = "idle"
    BY <1>1, <2>a, <2>g, Gone
  <2>1. Status(p)
    <3>1. ASSUME NEW q \in Pages, PageStep(q) PROVE q = p
      <4>1. q # p => pc'[p] = pc[p]
        BY <2>a, <3>1, PageFrame
      <4> QED
        BY <2>b, <4>1
    <3>2. ~Reload /\ vars' # vars
      BY <2>b DEF Reload, pages, vars
    <3>3. ~Restart
      BY <2>b DEF Restart
    <3>4. PageStep(p)
      BY <1>1, <3>1, <3>2, <3>3 DEF Next, PageStep
    <3>5. ~Press(p)
      BY <1>1 DEF Press
    <3>6. ~NotConfigured(p) /\ ~Lost(p) /\ ~WriteFails(p)
      BY <2>s DEF NotConfigured, Lost, WriteFails
    <3>7. ~Validate(p) /\ ~Revalidate(p) /\ ~RevalidateChannels(p) /\ ~ValidateChannels(p)
      BY <2>s, <2>g DEF Validate, Revalidate, RevalidateChannels, ValidateChannels, Proceed
    <3>8. ~LockAndLoad(p) /\ ~Write(p) /\ ~Patch(p) /\ ~PatchIsDropped(p)
      BY <2>g DEF LockAndLoad, Write, Patch, PatchIsDropped
    <3>9. ~ReadBack(p)
      <4>1. ASSUME pc' = [pc EXCEPT ![p] = "poll"] PROVE FALSE
        BY <1>1, <2>a, <4>1 DEF TypeOK
      <4> QED
        BY <2>s, <4>1 DEF ReadBack
    <3>10. ~Poll(p)
      BY <2>b, <2>s, <2>g DEF Poll
    <3> QED
      BY <3>4, <3>5, <3>6, <3>7, <3>8, <3>9, <3>10 DEF PageStep, Step
  <2>2. /\ pc[p] = "status" /\ active # NotRunning
        /\ HasChannels(active, Env(stored))
        /\ saved' = saved /\ active' = active /\ stored' = stored
    BY <2>1, <2>s DEF Status, store
  <2>3. saved = form[p].cfg /\ active = form[p].cfg
    BY <1>1, <2>a, <2>2 DEF PageInv
  <2> QED
    BY <2>2, <2>3
<1>2. IInv /\ [Next]_vars =>
        \A p \in Pages :
          ~mixed /\ pc[p] # "idle" /\ pc'[p] = "idle" /\ notice'[p] = "saved" =>
            /\ saved' = form[p].cfg
            /\ active' = form[p].cfg
            /\ HasChannels(active', Env(stored'))
  BY <1>1
<1> HIDE DEF Said, Holds
<1> QED
  BY <1>2, InvariantHolds, PTL DEF Spec, SavedIsInForce

(* What the first validation accepts is accepted once the values are       *)
(* stored, and without faults CPA is left with a configuration the plugin  *)
(* can load.                                                               *)
THEOREM PendingValuesAreForeseen == Spec => PendingIsForeseen
<1>1. ASSUME IInv, [Next]_vars PROVE ParserIsForeseen
  <2> SUFFICES ASSUME NEW p \in Pages, ~mixed, pc[p] = "revalidate", pc'[p] = "idle",
                      active # NotRunning
               PROVE  faults' # faults
    BY DEF ParserIsForeseen
  <2>a. TypeOK /\ PageInv(p)
    BY <1>1 DEF IInv
  <2>g. ASSUME NEW label, Goto(p, label) PROVE label = "idle"
    BY <2>a, <2>g, Gone
  <2>1. Parses(form[p].cfg, Env(stored))
    BY <2>a DEF PageInv, Late
  <2>2. ~Revalidate(p)
    BY <2>1, <2>g DEF Revalidate, Proceed
  <2>3. PICK q \in Pages : PageStep(q) \/ Restart
    BY <1>1 DEF Next, PageStep, Reload, pages, vars
  <2>4. CASE Restart
    BY <2>4 DEF Restart
  <2>5. CASE PageStep(q)
    <3>1. q = p
      BY <2>a, <2>5, PageFrame
    <3>2. Lost(p)
      BY <2>2, <2>5, <3>1 DEF PageStep, Step, Press, NotConfigured, Validate, ValidateChannels,
         LockAndLoad, Write, RevalidateChannels, Patch, PatchIsDropped, ReadBack, Poll,
         Status, WriteFails
    <3>3. faults' = faults + 1 /\ faults \in Nat
      BY <2>a, <3>2, FaultsCount DEF Lost
    <3> QED
      BY <3>3
  <2> QED
    BY <2>3, <2>4, <2>5
<1>2. IInv => SavedCanBeLoaded
  BY DEF IInv, LoadInv, SavedCanBeLoaded, Early
<1>3. IInv /\ [Next]_vars => ParserIsForeseen
  BY <1>1
<1> QED
  BY <1>2, <1>3, InvariantHolds, PTL DEF Spec, PendingIsForeseen
=============================================================================
