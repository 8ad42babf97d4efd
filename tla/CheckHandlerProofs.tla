-------------------------- MODULE CheckHandlerProofs -------------------------
(***************************************************************************)
(* Theorems about CheckHandler, for any callers, channels, configurations, *)
(* outcomes and bounds.  The inductive invariant adds to the stated ones   *)
(* what holds of the copy of the state a running check has in memory.      *)
(***************************************************************************)
EXTENDS CheckHandler, MonitorProofs, FiniteSetTheorems

\* The state of a missing file is a state.
LEMMA EmptyStateType == EmptyState \in State
BY DEF EmptyState, State, Never

\* A call that is not running has the type of one.
LEMMA IdleCheckType == IdleCheck \in Check
BY EmptyStateType, ConfigsAssumption DEF IdleCheck, Check, PCs, Replies

\* Each field of a check can be set to any value of its type.
LEMMA CheckFields ==
  ASSUME NEW x \in Check
  PROVE
  /\ \A v \in PCs : [x EXCEPT !.pc = v] \in Check
  /\ \A v \in BOOLEAN : [x EXCEPT !.dryRun = v] \in Check
  /\ \A v \in Configs : [x EXCEPT !.cfg = v] \in Check
  /\ \A v \in State : [x EXCEPT !.mem = v] \in Check
  /\ \A v \in Nat : [x EXCEPT !.now = v] \in Check
  /\ \A v \in SUBSET (Nat \X Channels) : [x EXCEPT !.todo = v] \in Check
  /\ \A v \in BOOLEAN : [x EXCEPT !.truncated = v] \in Check
  /\ \A v \in Replies : [x EXCEPT !.reply = v] \in Check
<1>1. \A v \in PCs : [x EXCEPT !.pc = v] \in Check
  BY DEF Check
<1>2. \A v \in BOOLEAN : [x EXCEPT !.dryRun = v] \in Check
  BY DEF Check
<1>3. \A v \in Configs : [x EXCEPT !.cfg = v] \in Check
  BY DEF Check
<1>4. \A v \in State : [x EXCEPT !.mem = v] \in Check
  BY DEF Check
<1>5. \A v \in Nat : [x EXCEPT !.now = v] \in Check
  BY DEF Check
<1>6. \A v \in SUBSET (Nat \X Channels) : [x EXCEPT !.todo = v] \in Check
  BY DEF Check
<1>7. \A v \in BOOLEAN : [x EXCEPT !.truncated = v] \in Check
  BY DEF Check
<1>8. \A v \in Replies : [x EXCEPT !.reply = v] \in Check
  BY DEF Check
<1>9. QED
  BY <1>1, <1>2, <1>3, <1>4, <1>5, <1>6, <1>7, <1>8

\* The updates the actions make of several fields at once.
LEMMA CheckSucceeds ==
  ASSUME NEW x \in Check
  PROVE  [x EXCEPT !.pc = "finish", !.reply = 200] \in Check
<1>1. [x EXCEPT !.pc = "finish"] \in Check
  BY CheckFields DEF PCs
<1>2. 200 \in Replies
  BY DEF Replies
<1>3. [[x EXCEPT !.pc = "finish"] EXCEPT !.reply = 200] \in Check
  BY <1>1, <1>2, CheckFields
<1>4. QED
  BY <1>3

\* Fail's update.
LEMMA CheckFails ==
  ASSUME NEW x \in Check
  PROVE  [x EXCEPT !.pc = "finish", !.reply = 500] \in Check
<1>1. [x EXCEPT !.pc = "finish"] \in Check
  BY CheckFields DEF PCs
<1>2. \A y \in Check : [y EXCEPT !.reply = 500] \in Check
  BY DEF Check, Replies
<1>3. [[x EXCEPT !.pc = "finish"] EXCEPT !.reply = 500] \in Check
  BY <1>1, <1>2
<1>4. QED
  BY <1>3

\* Query's update.
LEMMA CheckQueried ==
  ASSUME NEW x \in Check, NEW s \in State, NEW t \in Nat, NEW b \in BOOLEAN
  PROVE  [x EXCEPT !.pc = "save", !.mem = s, !.now = t, !.truncated = b] \in Check
<1>1. [x EXCEPT !.pc = "save"] \in Check
  BY CheckFields DEF PCs
<1>2. [[x EXCEPT !.pc = "save"] EXCEPT !.mem = s] \in Check
  BY <1>1, CheckFields
<1>3. [[[x EXCEPT !.pc = "save"] EXCEPT !.mem = s] EXCEPT !.now = t] \in Check
  BY <1>2, CheckFields
<1>4. [[[[x EXCEPT !.pc = "save"] EXCEPT !.mem = s] EXCEPT !.now = t]
          EXCEPT !.truncated = b] \in Check
  BY <1>3, CheckFields
<1>5. QED
  BY <1>4

\* SaveEvaluated's update of a check that goes on to deliver.
LEMMA CheckDelivers ==
  ASSUME NEW x \in Check, NEW todo \in SUBSET (Nat \X Channels)
  PROVE  [x EXCEPT !.pc = "deliver", !.todo = todo] \in Check
<1>1. [x EXCEPT !.pc = "deliver"] \in Check
  BY CheckFields DEF PCs
<1>2. [[x EXCEPT !.pc = "deliver"] EXCEPT !.todo = todo] \in Check
  BY <1>1, CheckFields
<1>3. QED
  BY <1>2

\* Every variable keeps its type.
LEMMA TypeStep == TypeOK /\ [Next]_vars => TypeOK'
<1> SUFFICES ASSUME TypeOK, [Next]_vars PROVE TypeOK'
  OBVIOUS
<1>a. check \in [Callers -> Check] /\ \A c \in Callers : check[c] \in Check
  BY DEF TypeOK
<1>1. ASSUME NEW c \in Callers, NEW dry \in DryRunBodies, Start(c, dry)
      PROVE  TypeOK'
  <2> DEFINE r == [check[c] EXCEPT !.pc = "prepare", !.dryRun = dry]
  <2>1. r \in Check
    <3>1. "prepare" \in PCs
      BY DEF PCs
    <3>2. [check[c] EXCEPT !.pc = "prepare"] \in Check
      BY <1>a, <3>1, CheckFields
    <3>3. [check[c] EXCEPT !.pc = "prepare", !.dryRun = dry] \in Check
      BY <3>2, CheckFields, BodiesAssumption
    <3>4. QED
      BY <3>3
  <2>2. check' = [check EXCEPT ![c] = r]
    BY <1>1 DEF Start
  <2>3. check' \in [Callers -> Check]
    BY <1>a, <2>1, <2>2
  <2>4. QED
    BY <1>1, <2>3 DEF TypeOK, Start
<1>2. ASSUME NEW c \in Callers, Refuse(c)
      PROVE  TypeOK'
  <2> DEFINE r == [check[c] EXCEPT !.pc = "refused"]
  <2>1. r \in Check
    <3>1. "refused" \in PCs
      BY DEF PCs
    <3>2. [check[c] EXCEPT !.pc = "refused"] \in Check
      BY <1>a, <3>1, CheckFields
    <3>3. QED
      BY <3>2
  <2>2. check' = [check EXCEPT ![c] = r]
    BY <1>2 DEF Refuse
  <2>3. check' \in [Callers -> Check]
    BY <1>a, <2>1, <2>2
  <2>4. QED
    BY <1>2, <2>3 DEF TypeOK, Refuse
<1>3. ASSUME NEW c \in Callers, Leave(c)
      PROVE  TypeOK'
  <2>1. check' \in [Callers -> Check]
    BY <1>3, <1>a, IdleCheckType DEF Leave
  <2>2. QED
    BY <1>3, <2>1 DEF TypeOK, Leave
<1>4. ASSUME NEW c \in Callers, Prepare(c)
      PROVE  TypeOK'
  <2> DEFINE r == [check[c] EXCEPT !.pc = "query", !.cfg = cfg, !.mem = disk]
  <2>1. r \in Check
    <3>1. "query" \in PCs
      BY DEF PCs
    <3>2. [check[c] EXCEPT !.pc = "query"] \in Check
      BY <1>a, <3>1, CheckFields
    <3>3. [check[c] EXCEPT !.pc = "query", !.cfg = cfg] \in Check
      BY <3>2, CheckFields DEF TypeOK
    <3>4. [check[c] EXCEPT !.pc = "query", !.cfg = cfg, !.mem = disk] \in Check
      BY <3>3, CheckFields DEF TypeOK
    <3>5. QED
      BY <3>4
  <2>2. check' = [check EXCEPT ![c] = r]
    BY <1>4 DEF Prepare
  <2>3. check' \in [Callers -> Check]
    BY <1>a, <2>1, <2>2
  <2>4. QED
    BY <1>4, <2>3 DEF TypeOK, Prepare
<1>5. ASSUME NEW c \in Callers, PrepareFails(c)
      PROVE  TypeOK'
  <2> DEFINE r == [check[c] EXCEPT !.pc = "finish", !.reply = 500]
  <2>1. r \in Check
    BY <1>a, CheckFails
  <2>2. check' = [check EXCEPT ![c] = r]
    <3>1. Fail(c)
      BY <1>5 DEF PrepareFails
    <3>2. QED
      BY <3>1 DEF Fail
  <2>3. check' \in [Callers -> Check]
    BY <1>a, <2>1, <2>2
  <2>4. QED
    BY <1>5, <2>3 DEF TypeOK, PrepareFails, Fail
<1>6. ASSUME NEW c \in Callers, NEW outcome \in Outcomes, Query(c, outcome)
      PROVE  TypeOK'
  <2> DEFINE next == Evaluate(check[c].mem, outcome, check[c].cfg, clock)
             r == [check[c] EXCEPT !.pc = "save", !.mem = next, !.now = clock,
                                   !.truncated = closed]
  <2>1. check[c].mem \in State /\ check[c].cfg \in Config /\ outcome \in Outcome
    BY <1>a, ConfigsAssumption, OutcomesAssumption DEF Check
  <2>2. clock \in Nat /\ closed \in BOOLEAN
    BY DEF TypeOK
  <2>3. next \in State
    BY <2>1, <2>2, EvaluateType
  <2>4. check' = [check EXCEPT ![c] = r]
    BY <1>6 DEF Query
  <2> HIDE DEF next
  <2>5. r \in Check
    BY <1>a, <2>2, <2>3, CheckQueried
  <2>6. check' \in [Callers -> Check]
    BY <1>a, <2>4, <2>5
  <2>7. QED
    BY <1>6, <2>6 DEF TypeOK, Query
<1>7. ASSUME NEW c \in Callers, SaveEvaluated(c)
      PROVE  TypeOK'
  <2> DEFINE todo == Deliverable(check[c].mem, check[c].cfg.channels)
             q == [check[c] EXCEPT !.pc = "finish", !.reply = 200]
             r == [check[c] EXCEPT !.pc = "deliver", !.todo = todo]
  <2>1. check[c].mem \in State
    BY <1>a DEF Check
  <2>2. todo \in SUBSET (Nat \X Channels)
    BY <2>1 DEF Deliverable, Owed, State
  <2>3. check' = [check EXCEPT ![c] = q] \/ check' = [check EXCEPT ![c] = r]
    BY <1>7 DEF SaveEvaluated
  <2> HIDE DEF todo
  <2>4. q \in Check /\ r \in Check
    BY <1>a, <2>2, CheckSucceeds, CheckDelivers
  <2>5. check' \in [Callers -> Check]
    BY <1>a, <2>3, <2>4
  <2>6. QED
    BY <1>7, <2>1, <2>5 DEF TypeOK, SaveEvaluated
<1>8. ASSUME NEW c \in Callers, NEW p \in check[c].todo, NEW result \in Results, Send(c, p, result)
      PROVE  TypeOK'
  <2> DEFINE next == MarkDelivered(check[c].mem, p[1], p[2], result = "accepted",
                                   check[c].now)
             r == [check[c] EXCEPT !.pc = "record", !.todo = check[c].todo \ {p},
                                   !.mem = next]
  <2>1. p \in Nat \X Channels /\ check[c].mem \in State /\ check[c].now \in Nat
    BY <1>a DEF Check
  <2>2. next \in State
    BY <2>1, MarkDeliveredType
  <2>3. check' = [check EXCEPT ![c] = r]
    BY <1>8 DEF Send
  <2> HIDE DEF next
  <2>4. r \in Check
    <3>1. "record" \in PCs
      BY DEF PCs
    <3>2. [check[c] EXCEPT !.pc = "record"] \in Check
      BY <1>a, <3>1, CheckFields
    <3>3. check[c].todo \ {p} \in SUBSET (Nat \X Channels)
      BY <1>a DEF Check
    <3>4. [check[c] EXCEPT !.pc = "record", !.todo = check[c].todo \ {p}] \in Check
      BY <3>2, <3>3, CheckFields
    <3>5. QED
      BY <2>2, <3>4, CheckFields
  <2>5. check' \in [Callers -> Check]
    BY <1>a, <2>3, <2>4
  <2>6. inbox' \in [Channels -> Seq(Nat)]
    BY <1>8, <2>1 DEF TypeOK, Send
  <2>7. QED
    BY <1>8, <2>5, <2>6 DEF TypeOK, Send
<1>9. ASSUME NEW c \in Callers, SaveRecorded(c)
      PROVE  TypeOK'
  <2> DEFINE r == [check[c] EXCEPT !.pc = "deliver"]
  <2>1. r \in Check
    <3>1. "deliver" \in PCs
      BY DEF PCs
    <3>2. [check[c] EXCEPT !.pc = "deliver"] \in Check
      BY <1>a, <3>1, CheckFields
    <3>3. QED
      BY <3>2
  <2>2. check' = [check EXCEPT ![c] = r]
    BY <1>9 DEF SaveRecorded
  <2>3. check' \in [Callers -> Check]
    BY <1>a, <2>1, <2>2
  <2>4. QED
    BY <1>9, <2>3, <1>a DEF TypeOK, SaveRecorded, Check
<1>10. ASSUME NEW c \in Callers, SaveFails(c)
      PROVE  TypeOK'
  <2> DEFINE r == [check[c] EXCEPT !.pc = "finish", !.reply = 500]
  <2>1. r \in Check
    BY <1>a, CheckFails
  <2>2. check' = [check EXCEPT ![c] = r]
    <3>1. Fail(c)
      BY <1>10 DEF SaveFails
    <3>2. QED
      BY <3>1 DEF Fail
  <2>3. check' \in [Callers -> Check]
    BY <1>a, <2>1, <2>2
  <2>4. QED
    BY <1>10, <2>3 DEF TypeOK, SaveFails, Fail
<1>11. ASSUME NEW c \in Callers, DeliverDone(c)
      PROVE  TypeOK'
  <2> DEFINE r == [check[c] EXCEPT !.pc = "finish", !.reply = 200]
  <2>1. r \in Check
    BY <1>a, CheckSucceeds
  <2>2. check' = [check EXCEPT ![c] = r]
    BY <1>11 DEF DeliverDone
  <2>3. check' \in [Callers -> Check]
    BY <1>a, <2>1, <2>2
  <2>4. QED
    BY <1>11, <2>3 DEF TypeOK, DeliverDone
<1>12. ASSUME NEW c \in Callers, Finish(c)
      PROVE  TypeOK'
  <2>1. check' \in [Callers -> Check]
    BY <1>12, <1>a, IdleCheckType DEF Finish
  <2>2. QED
    BY <1>12, <2>1 DEF TypeOK, Finish
<1>13. CASE Environment
  <2>1. CASE Tick
    BY <2>1 DEF TypeOK, Tick
  <2>2. ASSUME NEW new \in Configs, Reconfigure(new) PROVE TypeOK'
    BY <2>2 DEF TypeOK, Reconfigure
  <2>3. CASE Close
    BY <2>3 DEF TypeOK, Close
  <2>4. ASSUME NEW new \in Configs, Reopen(new) PROVE TypeOK'
    BY <2>4 DEF TypeOK, Reopen
  <2>5. CASE Crash
    <3>1. check' \in [Callers -> Check]
      BY <2>5, IdleCheckType DEF Crash
    <3>2. /\ faults' = faults + 1 /\ closed' = FALSE /\ running' = FALSE
          /\ UNCHANGED <<disk, cfg, clock, inbox>>
      BY <2>5 DEF Crash
    <3>3. /\ disk' \in State /\ cfg' \in Configs
          /\ clock' \in Nat \ {0} /\ inbox' \in [Channels -> Seq(Nat)]
      BY <3>2 DEF TypeOK
    <3>4. closed' \in BOOLEAN /\ running' \in BOOLEAN
      BY <3>2
    <3>5. faults' \in Nat
      BY <3>2 DEF TypeOK
    <3>6. QED
      BY <3>1, <3>3, <3>4, <3>5 DEF TypeOK
  <2>6. QED
    BY <1>13, <2>1, <2>2, <2>3, <2>4, <2>5 DEF Environment
<1>14. CASE UNCHANGED vars
  BY <1>14 DEF TypeOK, vars
<1>15. QED
  BY <1>1, <1>2, <1>3, <1>4, <1>5, <1>6, <1>7, <1>8, <1>9, <1>10, <1>11, <1>12,
     <1>13, <1>14 DEF Next, CallStep

\* The types hold in every reachable state.
THEOREM TypeCorrect == Spec => []TypeOK
<1>1. ASSUME Init PROVE TypeOK
  <2>1. disk \in State /\ cfg \in Configs
    BY <1>1, EmptyStateType, ConfigsAssumption DEF Init
  <2>2. check \in [Callers -> Check]
    BY <1>1, IdleCheckType DEF Init
  <2>3. closed \in BOOLEAN /\ running \in BOOLEAN
    BY <1>1 DEF Init
  <2>4. clock \in Nat \ {0} /\ inbox \in [Channels -> Seq(Nat)] /\ faults \in Nat
    BY <1>1 DEF Init
  <2>5. QED
    BY <2>1, <2>2, <2>3, <2>4 DEF TypeOK
<1>2. QED
  BY <1>1, TypeStep, PTL DEF Spec

-----------------------------------------------------------------------------
(* The `running' flag.                                                     *)

OthersKept(c) == \A d \in Callers : d # c => check'[d] = check[d]

\* A step inside a check leaves it running and the other callers alone.
InsideCheck(c) ==
  \/ Prepare(c) \/ PrepareFails(c)
  \/ \E outcome \in Outcomes : Query(c, outcome)
  \/ SaveEvaluated(c)
  \/ \E p \in check[c].todo, result \in Results : Send(c, p, result)
  \/ SaveRecorded(c) \/ SaveFails(c) \/ DeliverDone(c)

\* Such a step needs the check to be running and keeps `running' as it is.
LEMMA InsideCheckStep ==
  ASSUME TypeOK, NEW c \in Callers, InsideCheck(c)
  PROVE  Active(c) /\ Active(c)' /\ running' = running /\ OthersKept(c)
<1> USE DEF Active, At, OthersKept
<1>t. check \in [Callers -> Check]
  BY DEF TypeOK
<1>1. CASE Prepare(c)
  BY <1>1, <1>t DEF Prepare, Check
<1>2. CASE PrepareFails(c)
  BY <1>2, <1>t DEF PrepareFails, Fail, Check
<1>3. ASSUME NEW outcome \in Outcomes, Query(c, outcome)
      PROVE  Active(c) /\ Active(c)' /\ running' = running /\ OthersKept(c)
  BY <1>3, <1>t DEF Query, Check
<1>4. CASE SaveEvaluated(c)
  BY <1>4, <1>t DEF SaveEvaluated, Check
<1>5. ASSUME NEW p \in check[c].todo, NEW result \in Results, Send(c, p, result)
      PROVE  Active(c) /\ Active(c)' /\ running' = running /\ OthersKept(c)
  BY <1>5, <1>t DEF Send, Check
<1>6. CASE SaveRecorded(c)
  BY <1>6, <1>t DEF SaveRecorded, Check
<1>7. CASE SaveFails(c)
  BY <1>7, <1>t DEF SaveFails, Fail, Check
<1>8. CASE DeliverDone(c)
  BY <1>8, <1>t DEF DeliverDone, Check
<1>9. QED
  BY <1>1, <1>2, <1>3, <1>4, <1>5, <1>6, <1>7, <1>8 DEF InsideCheck

\* The steps of a call around its check.
LEMMA AroundCheckStep ==
  ASSUME TypeOK, NEW c \in Callers
  PROVE  /\ \A dry \in DryRunBodies : Start(c, dry) =>
              /\ ~Active(c) /\ Active(c)' /\ ~running /\ OthersKept(c)
              /\ check'[c].pc = "prepare"
         /\ Refuse(c) \/ Leave(c) =>
              ~Active(c) /\ ~Active(c)' /\ running' = running /\ OthersKept(c)
         /\ Finish(c) =>
              Active(c) /\ ~Active(c)' /\ running' = FALSE /\ OthersKept(c)
<1> USE DEF Active, At, OthersKept
<1>t. check \in [Callers -> Check]
  BY DEF TypeOK
<1>1. ASSUME NEW dry \in DryRunBodies, Start(c, dry)
      PROVE  /\ ~Active(c) /\ Active(c)' /\ ~running /\ OthersKept(c)
             /\ check'[c].pc = "prepare"
  BY <1>1, <1>t DEF Start, Check
<1>2. Refuse(c) => ~Active(c) /\ ~Active(c)' /\ running' = running /\ OthersKept(c)
  BY <1>t DEF Refuse, Check
<1>3. Leave(c) => ~Active(c) /\ ~Active(c)' /\ running' = running /\ OthersKept(c)
  BY <1>t DEF Leave, Check, IdleCheck
<1>4. Finish(c) => Active(c) /\ ~Active(c)' /\ running' = FALSE /\ OthersKept(c)
  BY <1>t DEF Finish, Check, IdleCheck
<1>5. QED
  BY <1>1, <1>2, <1>3, <1>4

\* The environment lets every call go on, or stops them all.
LEMMA EnvironmentStep ==
  ASSUME TypeOK, OneCheckAtATime, Environment
  PROVE  \/ check' = check /\ running' = running
         \/ check' = [c \in Callers |-> IdleCheck] /\ running' = FALSE
         \/ (\A c \in Callers : ~Active(c)) /\ check' = check /\ running' = FALSE
BY DEF Environment, Tick, Reconfigure, Close, Reopen, Crash, Active, At

\* No step starts a second check, or clears `running' under a running one.
LEMMA OneCheckStep == TypeOK /\ OneCheckAtATime /\ [Next]_vars => OneCheckAtATime'
<1> SUFFICES ASSUME TypeOK, OneCheckAtATime, [Next]_vars PROVE OneCheckAtATime'
  OBVIOUS
<1>a. \A d \in Callers : check'[d] = check[d] => (Active(d)' <=> Active(d))
  BY DEF Active
<1>1. ASSUME NEW c \in Callers, CallStep(c) PROVE OneCheckAtATime'
  <2>1. ASSUME NEW dry \in DryRunBodies, Start(c, dry) PROVE OneCheckAtATime'
    <3>1. ~Active(c) /\ Active(c)' /\ ~running /\ OthersKept(c)
      BY <2>1, AroundCheckStep
    <3>2. \A d \in Callers : Active(d)' => d = c
      BY <3>1, <1>a DEF OneCheckAtATime, OthersKept
    <3>3. running' = TRUE
      BY <2>1 DEF Start
    <3>4. QED
      BY <3>1, <3>2, <3>3 DEF OneCheckAtATime
  <2>2. CASE Refuse(c) \/ Leave(c)
    BY <2>2, <1>a, AroundCheckStep DEF OneCheckAtATime, OthersKept
  <2>3. CASE InsideCheck(c)
    <3>1. Active(c) /\ Active(c)' /\ running' = running /\ OthersKept(c)
      BY <2>3, InsideCheckStep
    <3>2. \A d \in Callers : Active(d)' <=> Active(d)
      BY <3>1, <1>a DEF OthersKept
    <3>3. QED
      BY <3>1, <3>2 DEF OneCheckAtATime
  <2>4. CASE Finish(c)
    <3>1. Active(c) /\ ~Active(c)' /\ running' = FALSE /\ OthersKept(c)
      BY <2>4, AroundCheckStep
    <3>2. \A d \in Callers : ~Active(d)'
      BY <3>1, <1>a DEF OthersKept, OneCheckAtATime
    <3>3. QED
      BY <3>1, <3>2 DEF OneCheckAtATime
  <2>5. QED
    BY <1>1, <2>1, <2>2, <2>3, <2>4 DEF CallStep, InsideCheck
<1>2. CASE Environment
  <2>1. CASE check' = check /\ running' = running
    BY <2>1 DEF OneCheckAtATime, Active
  <2>2. CASE check' = [c \in Callers |-> IdleCheck] /\ running' = FALSE
    BY <2>2 DEF OneCheckAtATime, Active, IdleCheck
  <2>3. CASE (\A c \in Callers : ~Active(c)) /\ check' = check /\ running' = FALSE
    BY <2>3 DEF OneCheckAtATime, Active
  <2>4. QED
    BY <1>2, <2>1, <2>2, <2>3, EnvironmentStep
<1>3. CASE UNCHANGED vars
  BY <1>3 DEF vars, OneCheckAtATime, Active
<1>4. QED
  BY <1>1, <1>2, <1>3 DEF Next

\* At most one check runs, and `running' is set exactly while one does.
THEOREM MutualExclusion == Spec => []OneCheckAtATime
<1>1. ASSUME Init PROVE OneCheckAtATime
  <2>1. \A c \in Callers : check[c].pc = "idle"
    BY <1>1 DEF Init, IdleCheck
  <2>2. QED
    BY <1>1, <2>1 DEF Init, OneCheckAtATime, Active
<1>2. QED
  BY <1>1, TypeCorrect, OneCheckStep, PTL DEF Spec

-----------------------------------------------------------------------------
(***************************************************************************)
(* What the state file says is true: the log of alerts has no gap, a       *)
(* delivery is recorded only after it happened, and a check never builds   *)
(* on a state that is no longer the stored one.  The inductive invariant   *)
(* says the first two also of the copy a running check holds in memory,    *)
(* from which the file is written.                                         *)
(***************************************************************************)

Received(s, box) ==
  \A p \in Recorded(s) : \E i \in DOMAIN box[p[2]] : box[p[2]][i] = p[1]

Sound(s, box) == WellLogged(s) /\ Received(s, box)

\* The check uses its copy of the state.
InMemory(c) == check[c].pc \in {"query", "save", "deliver", "record"}

LogInv ==
  /\ Sound(disk, inbox)
  /\ \A c \in Callers : InMemory(c) => Sound(check[c].mem, inbox)

\* What recipients have got they keep.
LEMMA ReceivedGrows ==
  ASSUME NEW s, NEW box \in [Channels -> Seq(Nat)], NEW ch \in Channels,
         NEW n \in Nat, Received(s, box)
  PROVE  Received(s, [box EXCEPT ![ch] = Append(@, n)])
<1> DEFINE more == [box EXCEPT ![ch] = Append(@, n)]
<1>1. SUFFICES ASSUME NEW p \in Recorded(s)
               PROVE  \E i \in DOMAIN more[p[2]] : more[p[2]][i] = p[1]
  BY DEF Received
<1>2. PICK i \in DOMAIN box[p[2]] : box[p[2]][i] = p[1]
  BY DEF Received
<1>3. p[2] \in Channels
  BY DEF Recorded
<1>4. box[p[2]] \in Seq(Nat)
  BY <1>3
<1>5. CASE p[2] = ch
  <2>1. more[p[2]] = Append(box[p[2]], n)
    BY <1>3, <1>5
  <2>2. i \in DOMAIN more[p[2]] /\ more[p[2]][i] = box[p[2]][i]
    BY <1>4, <2>1
  <2>3. QED
    BY <1>2, <2>2
<1>6. CASE p[2] # ch
  BY <1>2, <1>3, <1>6
<1>7. QED
  BY <1>5, <1>6

\* Evaluate keeps the copy sound: it adds alerts and records nothing.
LEMMA QuerySound ==
  ASSUME TypeOK, NEW c \in Callers, NEW outcome \in Outcomes, Query(c, outcome),
         Sound(check[c].mem, inbox)
  PROVE  Sound(check'[c].mem, inbox')
<1> DEFINE next == Evaluate(check[c].mem, outcome, check[c].cfg, clock)
<1>1. check \in [Callers -> Check] /\ clock \in Nat
  BY DEF TypeOK
<1>2. check[c].mem \in State /\ check[c].cfg \in Config /\ outcome \in Outcome
  BY <1>1, ConfigsAssumption, OutcomesAssumption DEF Check
<1>3. WellLogged(next) /\ Recorded(next) \subseteq Recorded(check[c].mem)
  BY <1>1, <1>2, EvaluateLog DEF Sound
<1>4. check'[c].mem = next /\ inbox' = inbox
  BY <1>1 DEF Query, Check
<1> HIDE DEF next
<1>5. Received(next, inbox)
  BY <1>3 DEF Sound, Received
<1>6. QED
  BY <1>3, <1>4, <1>5 DEF Sound

\* An attempt keeps the copy sound: only an accepted one is recorded, and
\* then the recipients have the alert.
LEMMA SendSound ==
  ASSUME TypeOK, NEW c \in Callers, NEW p \in check[c].todo,
         NEW result \in Results, Send(c, p, result), Sound(check[c].mem, inbox)
  PROVE  Sound(check'[c].mem, inbox')
<1> DEFINE ok   == result = "accepted"
           next == MarkDelivered(check[c].mem, p[1], p[2], ok, check[c].now)
           more == [inbox EXCEPT ![p[2]] = Append(@, p[1])]
<1>1. check \in [Callers -> Check] /\ inbox \in [Channels -> Seq(Nat)]
  BY DEF TypeOK
<1>2. /\ check[c].mem \in State /\ check[c].now \in Nat
      /\ p[1] \in Nat /\ p[2] \in Channels
  BY <1>1 DEF Check
<1>3. /\ WellLogged(next)
      /\ \A q \in Recorded(next) :
           q \in Recorded(check[c].mem) \/ (ok /\ q = <<p[1], p[2]>>)
  <2>1. WellLogged(check[c].mem) /\ ok \in BOOLEAN
    BY DEF Sound
  <2> HIDE DEF ok
  <2>2. WellLogged(next)
    BY <1>2, <2>1, MarkDeliveredLog
  <2>3. \A q \in Recorded(next) :
          q \in Recorded(check[c].mem) \/ (ok /\ q = <<p[1], p[2]>>)
    BY <1>2, <2>1, MarkDeliveredRecorded
  <2>4. QED
    BY <2>2, <2>3
<1>4. check'[c].mem = next
  BY <1>1 DEF Send, Check
<1>5. inbox' = IF result = "rejected" THEN inbox ELSE more
  BY DEF Send
<1> HIDE DEF next
<1>6. Received(check[c].mem, inbox) /\ Received(check[c].mem, more)
  BY <1>1, <1>2, ReceivedGrows DEF Sound
<1>7. Received(check[c].mem, inbox')
  BY <1>5, <1>6
<1>8. ok => \E i \in DOMAIN inbox'[p[2]] : inbox'[p[2]][i] = p[1]
  <2>1. SUFFICES ASSUME ok PROVE \E i \in DOMAIN more[p[2]] : more[p[2]][i] = p[1]
    BY <1>5
  <2>2. inbox[p[2]] \in Seq(Nat) /\ more[p[2]] = Append(inbox[p[2]], p[1])
    BY <1>1, <1>2
  <2>3. Len(inbox[p[2]]) + 1 \in DOMAIN more[p[2]]
    BY <2>2, <1>2
  <2>4. more[p[2]][Len(inbox[p[2]]) + 1] = p[1]
    BY <2>2, <1>2
  <2>5. QED
    BY <2>3, <2>4
<1>9. Received(next, inbox')
  BY <1>3, <1>7, <1>8 DEF Received
<1>10. QED
  BY <1>3, <1>4, <1>9 DEF Sound

\* A step that leaves the file and the recipients alone, and keeps or drops
\* the copies in memory, keeps the invariant.
LEMMA LogKept ==
  ASSUME LogInv, disk' = disk, inbox' = inbox,
         \A c \in Callers : InMemory(c)' => InMemory(c) /\ check'[c].mem = check[c].mem
  PROVE  LogInv'
BY DEF LogInv, InMemory

\* The same for a step of one caller.
LEMMA CallerLogKept ==
  ASSUME LogInv, NEW c \in Callers, OthersKept(c), disk' = disk, inbox' = inbox,
         check'[c].pc \notin {"query", "save", "deliver", "record"}
  PROVE  LogInv'
BY DEF LogInv, InMemory, OthersKept

\* Every step keeps the file and the copies in memory sound.
LEMMA LogStep == TypeOK /\ OneCheckAtATime /\ LogInv /\ [Next]_vars => LogInv'
<1> SUFFICES ASSUME TypeOK, OneCheckAtATime, LogInv, [Next]_vars PROVE LogInv'
  OBVIOUS
<1>a. check \in [Callers -> Check]
  BY DEF TypeOK
<1>b. \A d \in Callers : check'[d] = check[d] => (InMemory(d)' <=> InMemory(d))
  BY DEF InMemory
<1>1. ASSUME NEW c \in Callers, CallStep(c) PROVE LogInv'
  <2>1. ASSUME NEW dry \in DryRunBodies, Start(c, dry) PROVE LogInv'
    <3>1. OthersKept(c) /\ check'[c].pc = "prepare"
      BY <2>1, AroundCheckStep
    <3>2. QED
      BY <2>1, <3>1, CallerLogKept DEF Start
  <2>2. CASE Refuse(c)
    <3>1. OthersKept(c) /\ check'[c].pc = "refused"
      BY <2>2, <1>a, AroundCheckStep DEF Refuse, Check
    <3>2. QED
      BY <2>2, <3>1, CallerLogKept DEF Refuse
  <2>3. CASE Leave(c)
    <3>1. OthersKept(c) /\ check'[c].pc = "idle"
      BY <2>3, <1>a, AroundCheckStep DEF Leave, Check, IdleCheck
    <3>2. QED
      BY <2>3, <3>1, CallerLogKept DEF Leave
  <2>4. CASE Prepare(c)
    <3>1. OthersKept(c)
      BY <2>4, InsideCheckStep DEF InsideCheck
    <3>2. check'[c].mem = disk /\ disk' = disk /\ inbox' = inbox
      BY <2>4, <1>a DEF Prepare, Check
    <3>3. QED
      BY <3>1, <3>2, <1>b DEF LogInv, OthersKept
  <2>5. CASE PrepareFails(c)
    <3>1. OthersKept(c) /\ check'[c].pc = "finish"
      BY <2>5, <1>a, InsideCheckStep DEF InsideCheck, PrepareFails, Fail, Check
    <3>2. QED
      BY <2>5, <3>1, CallerLogKept DEF PrepareFails
  <2>6. ASSUME NEW outcome \in Outcomes, Query(c, outcome) PROVE LogInv'
    <3>1. OthersKept(c)
      BY <2>6, InsideCheckStep DEF InsideCheck
    <3>2. InMemory(c) /\ disk' = disk /\ inbox' = inbox
      BY <2>6 DEF Query, InMemory, At
    <3>3. Sound(check'[c].mem, inbox')
      BY <2>6, <3>2, QuerySound DEF LogInv
    <3>4. QED
      BY <3>1, <3>2, <3>3, <1>b DEF LogInv, OthersKept
  <2>7. CASE SaveEvaluated(c)
    <3>1. OthersKept(c)
      BY <2>7, InsideCheckStep DEF InsideCheck
    <3>2. /\ InMemory(c) /\ inbox' = inbox
          /\ disk' = check[c].mem /\ check'[c].mem = check[c].mem
      BY <2>7, <1>a DEF SaveEvaluated, InMemory, At, Check
    <3>3. QED
      BY <3>1, <3>2, <1>b DEF LogInv, OthersKept
  <2>8. ASSUME NEW p \in check[c].todo, NEW result \in Results, Send(c, p, result)
        PROVE  LogInv'
    <3>1. OthersKept(c) /\ Active(c)
      BY <2>8, InsideCheckStep DEF InsideCheck
    <3>2. InMemory(c) /\ disk' = disk
      BY <2>8 DEF Send, InMemory, At
    <3>3. Sound(check'[c].mem, inbox')
      BY <2>8, <3>2, SendSound DEF LogInv
    <3>4. \A d \in Callers : d # c => ~InMemory(d)'
      BY <3>1, <1>b DEF OneCheckAtATime, OthersKept, Active, InMemory
    <3>5. Sound(disk, inbox')
      <4>1. Received(disk, inbox) /\ WellLogged(disk)
        BY DEF LogInv, Sound
      <4>2. p[1] \in Nat /\ p[2] \in Channels /\ inbox \in [Channels -> Seq(Nat)]
        BY <1>a DEF Check, TypeOK
      <4>3. Received(disk, [inbox EXCEPT ![p[2]] = Append(@, p[1])])
        BY <4>1, <4>2, ReceivedGrows
      <4>4. \/ inbox' = inbox
            \/ inbox' = [inbox EXCEPT ![p[2]] = Append(@, p[1])]
        BY <2>8 DEF Send
      <4>5. QED
        BY <4>1, <4>3, <4>4 DEF Sound
    <3>6. QED
      BY <3>2, <3>3, <3>4, <3>5 DEF LogInv
  <2>9. CASE SaveRecorded(c)
    <3>1. OthersKept(c)
      BY <2>9, InsideCheckStep DEF InsideCheck
    <3>2. /\ InMemory(c) /\ inbox' = inbox
          /\ disk' = check[c].mem /\ check'[c].mem = check[c].mem
      BY <2>9, <1>a DEF SaveRecorded, InMemory, At, Check
    <3>3. QED
      BY <3>1, <3>2, <1>b DEF LogInv, OthersKept
  <2>10. CASE SaveFails(c)
    <3>1. OthersKept(c) /\ check'[c].pc = "finish"
      BY <2>10, <1>a, InsideCheckStep DEF InsideCheck, SaveFails, Fail, Check
    <3>2. QED
      BY <2>10, <3>1, CallerLogKept DEF SaveFails
  <2>11. CASE DeliverDone(c)
    <3>1. OthersKept(c) /\ check'[c].pc = "finish"
      BY <2>11, <1>a, InsideCheckStep DEF InsideCheck, DeliverDone, Check
    <3>2. QED
      BY <2>11, <3>1, CallerLogKept DEF DeliverDone
  <2>12. CASE Finish(c)
    <3>1. OthersKept(c) /\ check'[c].pc = "idle"
      BY <2>12, <1>a, AroundCheckStep DEF Finish, Check, IdleCheck
    <3>2. QED
      BY <2>12, <3>1, CallerLogKept DEF Finish
  <2>13. QED
    BY <1>1, <2>1, <2>2, <2>3, <2>4, <2>5, <2>6, <2>7, <2>8, <2>9, <2>10,
       <2>11, <2>12 DEF CallStep
<1>2. CASE Environment
  <2>1. disk' = disk /\ inbox' = inbox
    BY <1>2 DEF Environment, Tick, Reconfigure, Close, Reopen, Crash
  <2>2. CASE check' = check
    BY <2>1, <2>2, LogKept DEF InMemory
  <2>3. CASE check' = [c \in Callers |-> IdleCheck]
    BY <2>1, <2>3, LogKept DEF InMemory, IdleCheck
  <2>4. QED
    BY <1>2, <2>2, <2>3, EnvironmentStep
<1>3. CASE UNCHANGED vars
  BY <1>3, LogKept DEF vars, InMemory
<1>4. QED
  BY <1>1, <1>2, <1>3 DEF Next

\* LogInv is an invariant.
LEMMA LogSound == Spec => []LogInv
<1>1. ASSUME Init PROVE LogInv
  <2>1. Alerts(EmptyState) = {} /\ PendingSet(EmptyState) = {}
    BY DEF Alerts, PendingSet, EmptyState
  <2>2. EmptyState.eventSequence = 0 /\ EmptyState.pendingEvents = << >>
    BY DEF EmptyState
  <2>3. WellLogged(EmptyState)
    BY <2>1, <2>2 DEF WellLogged
  <2>4. Recorded(EmptyState) = {}
    BY <2>1 DEF Recorded
  <2>5. \A c \in Callers : ~InMemory(c)
    BY <1>1 DEF Init, IdleCheck, InMemory
  <2>6. QED
    BY <1>1, <2>3, <2>4, <2>5 DEF Init, LogInv, Sound, Received
<1>2. QED
  BY <1>1, TypeCorrect, MutualExclusion, LogStep, PTL DEF Spec

\* Stored alerts are numbered without a gap or a repetition, whatever crashes,
\* failed saves and reloads interrupt the checks.
THEOREM LogIsComplete == Spec => []NoAlertLost
<1>1. LogInv => NoAlertLost
  BY DEF LogInv, Sound, NoAlertLost
<1>2. QED
  BY <1>1, LogSound, PTL

\* A delivery on file did reach the recipients.
THEOREM RecordsAreTrue == Spec => []RecordedIsReceived
<1>1. LogInv => RecordedIsReceived
  BY DEF LogInv, Sound, Received, RecordedIsReceived
<1>2. QED
  BY <1>1, LogSound, PTL

-----------------------------------------------------------------------------
(* Load and Save of one check are not separated by another check's Save.   *)

\* A copy that will be built on stays the stored state.
LEMMA NoLostUpdateStep ==
  TypeOK /\ OneCheckAtATime /\ NoLostUpdate /\ [Next]_vars => NoLostUpdate'
<1> SUFFICES ASSUME TypeOK, OneCheckAtATime, NoLostUpdate, [Next]_vars
             PROVE  NoLostUpdate'
  OBVIOUS
<1>a. check \in [Callers -> Check]
  BY DEF TypeOK
<1>1. ASSUME NEW c \in Callers, CallStep(c) PROVE NoLostUpdate'
  <2>1. CASE InsideCheck(c)
    <3>1. Active(c) /\ OthersKept(c)
      BY <2>1, InsideCheckStep
    <3>2. \A d \in Callers : d # c => check'[d].pc \notin {"query", "deliver"}
      BY <3>1 DEF OneCheckAtATime, OthersKept, Active
    <3>3. check'[c].pc \in {"query", "deliver"} => check'[c].mem = disk'
      <4>1. CASE Prepare(c)
        BY <4>1, <1>a DEF Prepare, Check
      <4>2. CASE PrepareFails(c) \/ SaveFails(c) \/ DeliverDone(c)
        BY <4>2, <1>a DEF PrepareFails, SaveFails, DeliverDone, Fail, Check
      <4>3. ASSUME NEW outcome \in Outcomes, Query(c, outcome)
            PROVE  check'[c].pc = "save"
        BY <4>3, <1>a DEF Query, Check
      <4>4. CASE SaveEvaluated(c)
        BY <4>4, <1>a DEF SaveEvaluated, Check
      <4>5. ASSUME NEW p \in check[c].todo, NEW result \in Results, Send(c, p, result)
            PROVE  check'[c].pc = "record"
        BY <4>5, <1>a DEF Send, Check
      <4>6. CASE SaveRecorded(c)
        BY <4>6, <1>a DEF SaveRecorded, Check
      <4>7. QED
        BY <2>1, <4>1, <4>2, <4>3, <4>4, <4>5, <4>6 DEF InsideCheck
    <3>4. QED
      BY <3>2, <3>3 DEF NoLostUpdate
  <2>2. ASSUME NEW dry \in DryRunBodies, Start(c, dry) PROVE NoLostUpdate'
    <3>1. OthersKept(c) /\ check'[c].pc = "prepare" /\ disk' = disk
      BY <2>2, AroundCheckStep DEF Start
    <3>2. QED
      BY <3>1 DEF NoLostUpdate, OthersKept
  <2>3. CASE Refuse(c) \/ Leave(c) \/ Finish(c)
    <3>1. OthersKept(c) /\ disk' = disk
      BY <2>3, AroundCheckStep DEF Refuse, Leave, Finish
    <3>2. check'[c].pc \in {"refused", "idle"}
      BY <2>3, <1>a DEF Refuse, Leave, Finish, IdleCheck, Check
    <3>3. QED
      BY <3>1, <3>2 DEF NoLostUpdate, OthersKept
  <2>4. QED
    BY <1>1, <2>1, <2>2, <2>3 DEF CallStep, InsideCheck
<1>2. CASE Environment
  <2>1. disk' = disk
    BY <1>2 DEF Environment, Tick, Reconfigure, Close, Reopen, Crash
  <2>2. CASE check' = check
    BY <2>1, <2>2 DEF NoLostUpdate
  <2>3. CASE check' = [c \in Callers |-> IdleCheck]
    BY <2>1, <2>3 DEF NoLostUpdate, IdleCheck
  <2>4. QED
    BY <1>2, <2>2, <2>3, EnvironmentStep
<1>3. CASE UNCHANGED vars
  BY <1>3 DEF vars, NoLostUpdate
<1>4. QED
  BY <1>1, <1>2, <1>3 DEF Next

\* A check never builds on a state another one has replaced.
THEOREM UpdatesAreNotLost == Spec => []NoLostUpdate
<1>1. ASSUME Init PROVE NoLostUpdate
  BY <1>1 DEF Init, IdleCheck, NoLostUpdate
<1>2. QED
  BY <1>1, TypeCorrect, MutualExclusion, NoLostUpdateStep, PTL DEF Spec

\* Types and mutual exclusion, for any number of callers and channels.
THEOREM ChecksExcludeEachOther == Spec => []ChecksExclude
  BY TypeCorrect, MutualExclusion, PTL DEF ChecksExclude

-----------------------------------------------------------------------------
(***************************************************************************)
(* What deliverPending and the two saves rest on.  What a check holds is   *)
(* what is stored; or that with the alerts its queries raised; or that     *)
(* with the outcome of one attempt.  What it has left to try is owed, and  *)
(* contains everything that was never tried.  Only a closed App truncates  *)
(* queries, and what they gave is never delivered.                         *)
(***************************************************************************)

\* One pair was tried since the last save.
OneAttempt(s, t) ==
  /\ t.eventSequence = s.eventSequence
  /\ Keeps(s, t)
  /\ \E p \in Owed(s) :
       \/ Owed(t) = Owed(s) /\ Recorded(t) = Recorded(s)
       \/ Owed(t) = Owed(s) \ {p} /\ Recorded(t) = Recorded(s) \union {p}

Untried(c) == {p \in Fresh(check[c].mem) : p[2] \in check[c].cfg.channels}

CheckInv(c) ==
  /\ At(c, "query") => check[c].mem = disk
  /\ At(c, "save") => Raises(disk, check[c].mem, 2)
  /\ At(c, "deliver") => check[c].mem = disk
  /\ At(c, "record") => OneAttempt(disk, check[c].mem)
  /\ At(c, "deliver") \/ At(c, "record") =>
       check[c].todo \subseteq Owed(check[c].mem) /\ Untried(c) \subseteq check[c].todo
  /\ At(c, "finish") /\ check[c].reply = 200 =>
       /\ check[c].mem = disk
       /\ check[c].dryRun \/ check[c].cfg.dryRun \/ Untried(c) = {}
  /\ check[c].truncated => closed /\ check[c].pc \in {"save", "finish"}

DeliveryInv == \A c \in Callers : CheckInv(c)

\* A check that is not running owes the invariant next to nothing.
LEMMA InactiveInv ==
  ASSUME NEW c \in Callers, ~Active(c)
  PROVE  CheckInv(c) <=> ~check[c].truncated
BY DEF CheckInv, Active, At

\* A check keeps the invariant while others act around it.
LEMMA UntouchedInv ==
  ASSUME NEW c \in Callers, CheckInv(c), check'[c] = check[c],
         disk' = disk, closed => closed'
  PROVE  CheckInv(c)'
BY DEF CheckInv, At, Untried

\* Only one check runs: the others are inactive and stay so.
LEMMA OthersInv ==
  ASSUME OneCheckAtATime, DeliveryInv, NEW c \in Callers, Active(c), OthersKept(c)
  PROVE  \A d \in Callers : d # c => CheckInv(d)'
<1> SUFFICES ASSUME NEW d \in Callers, d # c PROVE CheckInv(d)'
  OBVIOUS
<1>1. ~Active(d) /\ check'[d] = check[d]
  BY DEF OneCheckAtATime, OthersKept
<1>2. ~check[d].truncated
  BY <1>1, InactiveInv DEF DeliveryInv
<1>3. QED
  BY <1>1, <1>2 DEF CheckInv, Active, At

\* What a running check has in memory is a state with a gapless log.
LEMMA MemIsSound ==
  ASSUME TypeOK, LogInv, NEW c \in Callers, InMemory(c)
  PROVE  /\ disk \in State /\ WellLogged(disk)
         /\ check[c].mem \in State /\ WellLogged(check[c].mem)
BY DEF TypeOK, LogInv, Sound, Check

\* Evaluate only adds alerts to the stored ones.
LEMMA QueryInv ==
  ASSUME TypeOK, LogInv, NEW c \in Callers, CheckInv(c), NEW outcome \in Outcomes,
         Query(c, outcome)
  PROVE  CheckInv(c)'
<1> DEFINE next == Evaluate(check[c].mem, outcome, check[c].cfg, clock)
<1>1. check \in [Callers -> Check] /\ clock \in Nat
  BY DEF TypeOK
<1>2. check[c].mem = disk /\ disk' = disk /\ At(c, "query") /\ closed' = closed
  BY DEF Query, CheckInv
<1>3. disk \in State /\ WellLogged(disk)
  BY <1>2, MemIsSound DEF InMemory, At
<1>4. check[c].cfg \in Config /\ outcome \in Outcome
  BY <1>1, ConfigsAssumption, OutcomesAssumption DEF Check
<1>5. Raises(disk, next, 2)
  BY <1>1, <1>2, <1>3, <1>4, EvaluateRaises
<1> HIDE DEF next
<1>6. check'[c].mem = next /\ check'[c].pc = "save" /\ check'[c].truncated = closed
  BY <1>1 DEF Query, Check, next
<1>7. QED
  BY <1>2, <1>5, <1>6 DEF CheckInv, At

\* The list of deliverPending starts with all that the check owes.
LEMMA SaveEvaluatedInv ==
  ASSUME TypeOK, LogInv, NEW c \in Callers, CheckInv(c), SaveEvaluated(c)
  PROVE  CheckInv(c)'
<1> DEFINE todo == Deliverable(check[c].mem, check[c].cfg.channels)
<1>1. check \in [Callers -> Check]
  BY DEF TypeOK
<1>2. /\ disk' = check[c].mem /\ ~closed /\ At(c, "save")
      /\ check[c].mem \in State
  BY <1>1 DEF SaveEvaluated, Check
<1>3. ~check[c].truncated
  BY <1>2 DEF CheckInv
<1>4. todo \subseteq Owed(check[c].mem)
  BY DEF Deliverable
<1>5. Untried(c) \subseteq todo
  BY DEF Untried, Deliverable, Fresh, Owed, HasStatus
<1> HIDE DEF todo
<1>6. CASE check[c].cfg.dryRun \/ check[c].dryRun
  <2>1. /\ check'[c].pc = "finish" /\ check'[c].mem = check[c].mem
        /\ check'[c].cfg = check[c].cfg /\ check'[c].dryRun = check[c].dryRun
        /\ check'[c].truncated = check[c].truncated
    BY <1>1, <1>6 DEF SaveEvaluated, Check
  <2>2. QED
    BY <1>2, <1>3, <1>6, <2>1 DEF CheckInv, At
<1>7. CASE ~(check[c].cfg.dryRun \/ check[c].dryRun)
  <2>1. /\ check'[c].pc = "deliver" /\ check'[c].mem = check[c].mem
        /\ check'[c].cfg = check[c].cfg /\ check'[c].todo = todo
        /\ check'[c].truncated = check[c].truncated
    BY <1>1, <1>7 DEF SaveEvaluated, Check, todo
  <2>2. QED
    BY <1>2, <1>3, <1>4, <1>5, <2>1 DEF CheckInv, At, Untried
<1>8. QED
  BY <1>6, <1>7

\* An attempt changes the tried pair only, and the rest stays owed.
LEMMA SendInv ==
  ASSUME TypeOK, LogInv, NEW c \in Callers, CheckInv(c), NEW p \in check[c].todo,
         NEW result \in Results, Send(c, p, result)
  PROVE  CheckInv(c)' /\ p \in Owed(disk) /\ disk' = disk
<1> DEFINE ok   == result = "accepted"
           next == MarkDelivered(check[c].mem, p[1], p[2], ok, check[c].now)
<1>1. check \in [Callers -> Check]
  BY DEF TypeOK
<1>2. /\ check[c].mem = disk /\ disk' = disk /\ At(c, "deliver")
      /\ check[c].todo \subseteq Owed(disk) /\ Untried(c) \subseteq check[c].todo
  BY DEF Send, CheckInv
<1>3. disk \in State /\ WellLogged(disk)
  BY <1>2, MemIsSound DEF InMemory, At
<1>4. /\ p[1] \in Nat /\ p[2] \in Channels /\ p = <<p[1], p[2]>>
      /\ check[c].now \in Nat /\ ok \in BOOLEAN
  BY <1>1 DEF Check
<1>5. p \in Owed(disk)
  BY <1>2
<1> HIDE DEF ok
<1>6. /\ Owed(next) = IF ok THEN Owed(disk) \ {p} ELSE Owed(disk)
      /\ Recorded(next) = IF ok THEN Recorded(disk) \union {p} ELSE Recorded(disk)
      /\ Fresh(next) \subseteq Fresh(disk) \ {p}
      /\ Keeps(disk, next)
      /\ next.eventSequence = disk.eventSequence
  <2>1. PICK n \in Nat, ch \in Channels : p = <<n, ch>>
    BY <1>4
  <2>2. next = MarkDelivered(disk, n, ch, ok, check[c].now) /\ <<n, ch>> \in Owed(disk)
    BY <1>2, <1>5, <2>1
  <2> HIDE DEF next
  <2>3. next.eventSequence = disk.eventSequence
    BY <1>3, <1>4, <2>2, MarkDeliveredMoves
  <2>4. /\ Owed(next) = IF ok THEN Owed(disk) \ {<<n, ch>>} ELSE Owed(disk)
        /\ Recorded(next) =
             IF ok THEN Recorded(disk) \union {<<n, ch>>} ELSE Recorded(disk)
        /\ Fresh(next) \subseteq Fresh(disk) \ {<<n, ch>>}
        /\ Keeps(disk, next)
    <3> DEFINE now == check[c].now
               t == MarkDelivered(disk, n, ch, ok, now)
    <3>1. now \in Nat
      BY <1>4
    <3> HIDE DEF now
    <3>2. /\ Owed(t) = IF ok THEN Owed(disk) \ {<<n, ch>>} ELSE Owed(disk)
          /\ Recorded(t) =
               IF ok THEN Recorded(disk) \union {<<n, ch>>} ELSE Recorded(disk)
          /\ Fresh(t) \subseteq Fresh(disk) \ {<<n, ch>>}
          /\ Keeps(disk, t)
      BY <1>3, <1>4, <2>2, <3>1, MarkDeliveredPairs
    <3>3. next = t
      BY <2>2 DEF now
    <3> QED
      BY <3>2, <3>3
  <2>5. QED
    BY <2>1, <2>3, <2>4
<1> HIDE DEF next
<1>7. OneAttempt(disk, next)
  BY <1>5, <1>6 DEF OneAttempt
<1>8. /\ check'[c].pc = "record" /\ check'[c].mem = next
      /\ check'[c].todo = check[c].todo \ {p}
      /\ check'[c].cfg = check[c].cfg /\ check'[c].truncated = check[c].truncated
  BY <1>1 DEF Send, Check, next, ok
<1>9. Untried(c)' \subseteq check'[c].todo
  BY <1>2, <1>6, <1>8 DEF Untried
<1>10. check'[c].todo \subseteq Owed(next)
  BY <1>2, <1>6, <1>8
<1>11. ~check[c].truncated
  BY <1>2 DEF CheckInv, At
<1>12. QED
  BY <1>2, <1>5, <1>7, <1>8, <1>9, <1>10, <1>11 DEF CheckInv, At

\* Every step of a check keeps the invariant.
LEMMA DeliveryStep ==
  TypeOK /\ OneCheckAtATime /\ LogInv /\ DeliveryInv /\ [Next]_vars => DeliveryInv'
<1> SUFFICES ASSUME TypeOK, OneCheckAtATime, LogInv, DeliveryInv, [Next]_vars
             PROVE  DeliveryInv'
  OBVIOUS
<1>a. check \in [Callers -> Check]
  BY DEF TypeOK
<1>1. ASSUME NEW c \in Callers, InsideCheck(c) PROVE DeliveryInv'
  <2>1. Active(c) /\ OthersKept(c)
    BY <1>1, InsideCheckStep
  <2>2. CheckInv(c)
    BY DEF DeliveryInv
  <2>3. CheckInv(c)'
    <3>1. CASE Prepare(c)
      <4>1. /\ check'[c].pc = "query" /\ check'[c].mem = disk /\ disk' = disk
            /\ check'[c].truncated = check[c].truncated
        BY <3>1, <1>a DEF Prepare, Check
      <4>2. ~check[c].truncated
        BY <3>1, <2>2 DEF Prepare, CheckInv, At
      <4>3. QED
        BY <4>1, <4>2 DEF CheckInv, At
    <3>2. CASE PrepareFails(c) \/ SaveFails(c)
      <4>1. /\ check'[c].pc = "finish" /\ check'[c].reply = 500
            /\ check'[c].truncated = check[c].truncated /\ closed' = closed
        BY <3>2, <1>a DEF PrepareFails, SaveFails, Fail, Check
      <4>2. check[c].truncated => closed
        BY <2>2 DEF CheckInv
      <4>3. QED
        BY <4>1, <4>2 DEF CheckInv, At
    <3>3. ASSUME NEW outcome \in Outcomes, Query(c, outcome) PROVE CheckInv(c)'
      BY <2>2, <3>3, QueryInv
    <3>4. CASE SaveEvaluated(c)
      BY <2>2, <3>4, SaveEvaluatedInv
    <3>5. ASSUME NEW p \in check[c].todo, NEW result \in Results, Send(c, p, result)
          PROVE  CheckInv(c)'
      BY <2>2, <3>5, SendInv
    <3>6. CASE SaveRecorded(c)
      <4>1. /\ At(c, "record") /\ disk' = check[c].mem /\ ~closed
            /\ check'[c].pc = "deliver" /\ check'[c].mem = check[c].mem
            /\ check'[c].todo = check[c].todo /\ check'[c].cfg = check[c].cfg
            /\ check'[c].truncated = check[c].truncated
        BY <3>6, <1>a DEF SaveRecorded, Check
      <4>2. QED
        BY <2>2, <4>1 DEF CheckInv, At, Untried
    <3>7. CASE DeliverDone(c)
      <4>1. /\ At(c, "deliver") /\ check[c].todo = {} /\ disk' = disk
            /\ check'[c].pc = "finish" /\ check'[c].mem = check[c].mem
            /\ check'[c].cfg = check[c].cfg
            /\ check'[c].truncated = check[c].truncated
        BY <3>7, <1>a DEF DeliverDone, Check
      <4>2. QED
        BY <2>2, <4>1 DEF CheckInv, At, Untried
    <3>8. QED
      BY <1>1, <3>1, <3>2, <3>3, <3>4, <3>5, <3>6, <3>7 DEF InsideCheck
  <2>4. \A d \in Callers : d # c => CheckInv(d)'
    BY <2>1, OthersInv
  <2>5. QED
    BY <2>3, <2>4 DEF DeliveryInv
<1>2. ASSUME NEW c \in Callers,
             Refuse(c) \/ Leave(c) \/ Finish(c) \/ \E dry \in DryRunBodies : Start(c, dry)
      PROVE  DeliveryInv'
  <2>1. OthersKept(c) /\ disk' = disk /\ closed' = closed
    BY <1>2, AroundCheckStep DEF Refuse, Leave, Finish, Start
  <2>2. /\ check'[c].pc \in {"prepare", "refused", "idle"}
        /\ check'[c].truncated \in {FALSE, check[c].truncated}
    <3>1. CASE Finish(c) \/ Leave(c)
      <4>1. check'[c] = IdleCheck
        BY <3>1, <1>a DEF Finish, Leave
      <4>2. QED
        BY <4>1 DEF IdleCheck
    <3>2. CASE Refuse(c)
      BY <3>2, <1>a DEF Refuse, Check
    <3>3. ASSUME NEW dry \in DryRunBodies, Start(c, dry)
          PROVE  /\ check'[c].pc = "prepare"
                 /\ check'[c].truncated = check[c].truncated
      BY <3>3, <1>a DEF Start, Check
    <3>4. QED
      BY <1>2, <3>1, <3>2, <3>3
  <2>3. ~check'[c].truncated
    <3>1. CASE Finish(c) \/ Leave(c)
      BY <3>1, <1>a DEF Finish, Leave, IdleCheck
    <3>2. CASE Refuse(c) \/ \E dry \in DryRunBodies : Start(c, dry)
      <4>1. At(c, "idle")
        BY <3>2 DEF Refuse, Start
      <4>2. QED
        BY <2>2, <4>1 DEF DeliveryInv, CheckInv, At
    <3>3. QED
      BY <1>2, <3>1, <3>2
  <2>4. CheckInv(c)'
    BY <2>2, <2>3 DEF CheckInv, At
  <2>5. \A d \in Callers : d # c => CheckInv(d)'
    BY <2>1, UntouchedInv DEF DeliveryInv, OthersKept
  <2>6. QED
    BY <2>4, <2>5 DEF DeliveryInv
<1>3. CASE Environment
  <2>1. disk' = disk
    BY <1>3 DEF Environment, Tick, Reconfigure, Close, Reopen, Crash
  <2>2. CASE Tick \/ Close \/ \E new \in Configs : Reconfigure(new)
    <3>1. check' = check /\ (closed => closed')
      BY <2>2 DEF Tick, Close, Reconfigure
    <3>2. QED
      BY <2>1, <3>1, UntouchedInv DEF DeliveryInv
  <2>3. ASSUME NEW new \in Configs, Reopen(new) PROVE DeliveryInv'
    BY <2>3 DEF Reopen, DeliveryInv, CheckInv, At
  <2>4. CASE Crash
    BY <2>4 DEF Crash, DeliveryInv, CheckInv, At, IdleCheck
  <2>5. QED
    BY <1>3, <2>2, <2>3, <2>4 DEF Environment
<1>4. CASE UNCHANGED vars
  BY <1>4, UntouchedInv DEF vars, DeliveryInv
<1>5. QED
  BY <1>1, <1>2, <1>3, <1>4 DEF Next, CallStep, InsideCheck

\* DeliveryInv is an invariant.
LEMMA DeliverySound == Spec => []DeliveryInv
<1>1. Init => DeliveryInv
  BY DEF Init, DeliveryInv, CheckInv, At, IdleCheck
<1>2. QED
  BY <1>1, TypeCorrect, MutualExclusion, LogSound, DeliveryStep, PTL DEF Spec

\* All that can happen to the file and the recipients: an evaluation is
\* saved, an attempt is saved, or recipients get what they are owed.
DiskStep ==
  \/ disk' = disk /\ inbox' = inbox
  \/ Raises(disk, disk', 2) /\ inbox' = inbox
  \/ OneAttempt(disk, disk') /\ inbox' = inbox
  \/ /\ disk' = disk
     /\ \E p \in Owed(disk) : inbox' = [inbox EXCEPT ![p[2]] = Append(@, p[1])]

\* Every step is one of these, and none comes from truncated queries.
LEMMA StepsOfDisk ==
  ASSUME TypeOK, OneCheckAtATime, LogInv, DeliveryInv, [Next]_vars
  PROVE  /\ DiskStep
         /\ \A c \in Callers :
              check[c].truncated => disk' = disk /\ inbox' = inbox
<1> DEFINE Discarded ==
      \A c \in Callers : check[c].truncated => disk' = disk /\ inbox' = inbox
<1>1. ASSUME NEW c \in Callers, InsideCheck(c), ~(disk' = disk /\ inbox' = inbox)
      PROVE  DiskStep /\ ~check[c].truncated
  <2>1. CheckInv(c)
    BY DEF DeliveryInv
  <2>2. CASE SaveEvaluated(c)
    BY <2>1, <2>2 DEF SaveEvaluated, CheckInv, DiskStep
  <2>3. CASE SaveRecorded(c)
    BY <2>1, <2>3 DEF SaveRecorded, CheckInv, DiskStep
  <2>4. ASSUME NEW p \in check[c].todo, NEW result \in Results, Send(c, p, result)
        PROVE  DiskStep /\ ~check[c].truncated
    <3>1. p \in Owed(disk) /\ disk' = disk
      BY <2>1, <2>4, SendInv
    <3>2. inbox' = [inbox EXCEPT ![p[2]] = Append(@, p[1])]
      BY <1>1, <2>4, <3>1 DEF Send
    <3>3. At(c, "deliver")
      BY <2>4 DEF Send
    <3>4. QED
      BY <2>1, <3>1, <3>2, <3>3 DEF DiskStep, CheckInv, At
  <2>5. QED
    BY <1>1, <2>2, <2>3, <2>4
       DEF InsideCheck, Prepare, PrepareFails, Query, SaveFails, DeliverDone
<1>2. ASSUME NEW c \in Callers, InsideCheck(c)
      PROVE  DiskStep /\ Discarded
  <2>1. Active(c)
    BY <1>2, InsideCheckStep
  <2>2. \A d \in Callers : check[d].truncated => d = c
    BY <2>1, InactiveInv DEF DeliveryInv, OneCheckAtATime
  <2>3. QED
    BY <1>1, <1>2, <2>2 DEF DiskStep
<1>3. ASSUME NEW c \in Callers,
             Refuse(c) \/ Leave(c) \/ Finish(c) \/ \E dry \in DryRunBodies : Start(c, dry)
      PROVE  disk' = disk /\ inbox' = inbox
  BY <1>3 DEF Refuse, Leave, Finish, Start
<1>4. Environment \/ UNCHANGED vars => disk' = disk /\ inbox' = inbox
  BY DEF Environment, Tick, Reconfigure, Close, Reopen, Crash, vars
<1>5. QED
  BY <1>2, <1>3, <1>4 DEF Next, CallStep, InsideCheck, DiskStep

\* A stored alert stays, with its kind, time and channels.
LEMMA DiskKept ==
  ASSUME TypeOK, TypeOK', LogInv, LogInv', DiskStep
  PROVE  Keeps(disk, disk')
<1>1. disk \in State /\ disk' \in State /\ WellLogged(disk) /\ WellLogged(disk')
  BY DEF TypeOK, LogInv, Sound
<1>2. CASE disk' = disk
  BY <1>2 DEF Keeps
<1>3. CASE Raises(disk, disk', 2)
  BY <1>1, <1>3, RaisesKeeps
<1>4. CASE OneAttempt(disk, disk')
  BY <1>4 DEF OneAttempt
<1>5. QED
  BY <1>2, <1>3, <1>4 DEF DiskStep

\* What recipients get is a stored alert of their channel.
LEMMA SentIsStoredStep ==
  ASSUME TypeOK, TypeOK', LogInv, LogInv', DiskStep, SentIsStored
  PROVE  SentIsStored'
<1> SUFFICES ASSUME NEW ch \in Channels, NEW i \in DOMAIN inbox'[ch]
             PROVE  \E e \in Alerts(disk') : e.seq = inbox'[ch][i] /\ ch \in DOMAIN e.delivery
  BY DEF SentIsStored
<1>1. inbox \in [Channels -> Seq(Nat)]
  BY DEF TypeOK
<1>2. \E e \in Alerts(disk) : e.seq = inbox'[ch][i] /\ ch \in DOMAIN e.delivery
  <2>1. CASE inbox' = inbox
    BY <2>1 DEF SentIsStored
  <2>2. ASSUME NEW p \in Owed(disk), inbox' = [inbox EXCEPT ![p[2]] = Append(@, p[1])]
        PROVE  \E e \in Alerts(disk) : e.seq = inbox'[ch][i] /\ ch \in DOMAIN e.delivery
    <3>1. CASE i \in DOMAIN inbox[ch] /\ inbox'[ch][i] = inbox[ch][i]
      BY <3>1 DEF SentIsStored
    <3>2. CASE ch = p[2] /\ inbox'[ch][i] = p[1]
      <4>1. PICK e \in PendingSet(disk) : e.seq = p[1] /\ HasStatus(e, p[2], {"pending", "failed"})
        BY DEF Owed
      <4>2. QED
        BY <3>2, <4>1 DEF Alerts, HasStatus
    <3>3. p[1] \in Nat /\ p[2] \in Channels /\ inbox[ch] \in Seq(Nat)
      BY <1>1 DEF Owed
    <3>4. \/ i \in DOMAIN inbox[ch] /\ inbox'[ch][i] = inbox[ch][i]
          \/ ch = p[2] /\ inbox'[ch][i] = p[1]
      <4>1. CASE ch # p[2]
        BY <1>1, <2>2, <4>1
      <4>2. CASE ch = p[2]
        <5>1. inbox'[ch] = Append(inbox[ch], p[1])
          BY <1>1, <2>2, <4>2
        <5>2. QED
          BY <3>3, <4>2, <5>1
      <4>3. QED
        BY <4>1, <4>2
    <3>5. QED
      BY <3>1, <3>2, <3>4
  <2>3. QED
    BY <2>1, <2>2 DEF DiskStep
<1>3. QED
  BY <1>2, DiskKept DEF Keeps

\* Whatever a recipient got is stored as an alert owed to it.
THEOREM SentAlertsAreStored == Spec => []SentIsStored
<1>1. Init => SentIsStored
  BY DEF Init, SentIsStored
<1>2. QED
  BY <1>1, TypeCorrect, MutualExclusion, LogSound, DeliverySound, StepsOfDisk,
     SentIsStoredStep, PTL DEF Spec

\* Nothing is taken from the log of alerts and deliveries, and nothing of a
\* cancelled round of queries gets into it.
THEOREM HistoryStaysSound == Spec => HistoryIsSound
<1> DEFINE Kept ==
      /\ Recorded(disk) \subseteq Recorded(disk')
      /\ \A e \in Alerts(disk) :
           \E f \in Alerts(disk') :
             /\ f.seq = e.seq /\ f.kind = e.kind /\ f.createdAt = e.createdAt
             /\ DOMAIN f.delivery = DOMAIN e.delivery
           Discarded ==
      \A c \in Callers : check[c].truncated => UNCHANGED disk /\ UNCHANGED inbox
<1>1. ASSUME TypeOK, TypeOK', OneCheckAtATime, LogInv, LogInv', DeliveryInv, [Next]_vars
      PROVE  Kept /\ Discarded
  <2>1. DiskStep /\ Discarded
    BY <1>1, StepsOfDisk
  <2>2. Keeps(disk, disk')
    BY <1>1, <2>1, DiskKept
  <2>3. QED
    BY <2>1, <2>2 DEF Keeps
<1>2. QED
  BY <1>1, TypeCorrect, MutualExclusion, LogSound, DeliverySound, PTL
     DEF Spec, HistoryIsSound, HistoryIsKept, TruncatedIsDiscarded

\* A check that reports success is stored, and has tried all it had to.
THEOREM SuccessesAreComplete == Spec => []SuccessIsComplete
<1>1. ASSUME TypeOK, LogInv, DeliveryInv PROVE SuccessIsComplete
  <2>1. SUFFICES ASSUME NEW c \in Callers, At(c, "finish"), check[c].reply = 200
                 PROVE  /\ disk = check[c].mem
                        /\ \/ check[c].dryRun \/ check[c].cfg.dryRun
                           \/ \A e \in PendingSet(disk) :
                                \A ch \in DOMAIN e.delivery \intersect check[c].cfg.channels :
                                  e.delivery[ch] # "pending"
    BY DEF SuccessIsComplete
  <2>2. /\ disk = check[c].mem
        /\ check[c].dryRun \/ check[c].cfg.dryRun \/ Untried(c) = {}
    BY <1>1, <2>1 DEF DeliveryInv, CheckInv
  <2>3. ASSUME NEW e \in PendingSet(disk),
               NEW ch \in DOMAIN e.delivery \intersect check[c].cfg.channels,
               e.delivery[ch] = "pending"
        PROVE  <<e.seq, ch>> \in Untried(c)
    <3>1. disk \in State /\ WellLogged(disk) /\ e \in Alerts(disk)
      BY <1>1 DEF TypeOK, LogInv, Sound, Alerts
    <3>2. HasStatus(e, ch, {"pending"})
      BY <2>3 DEF HasStatus
    <3>3. <<e.seq, ch>> \in (1..disk.eventSequence) \X Channels
      BY <3>1, <3>2, StatusPairs
    <3>4. QED
      BY <2>2, <3>2, <3>3 DEF Untried, Fresh
  <2>4. QED
    BY <2>2, <2>3
<1>2. QED
  BY <1>1, TypeCorrect, LogSound, DeliverySound, PTL

\* The file and the recipients implement the outbox: an evaluation that is
\* saved raises its alerts, recipients take what they are owed, and the save
\* after that settles it.
THEOREM ChecksAreAnOutbox == Spec => ImplementsOutbox
<1>1. ASSUME Init PROVE Promise!Init
  <2>1. disk.eventSequence = 0 /\ PendingSet(disk) = {}
    BY <1>1 DEF Init, EmptyState, PendingSet
  <2>2. QED
    BY <1>1, <2>1 DEF Init, Owed, Promise!Init
<1>2. ASSUME TypeOK, TypeOK', LogInv, LogInv', DiskStep
      PROVE  [Promise!Next]_(Promise!vars)
  <2> DEFINE raised == disk.eventSequence
             debts  == Owed(disk') \ Owed(disk)
  <2>a. /\ disk \in State /\ disk' \in State /\ WellLogged(disk) /\ WellLogged(disk')
        /\ raised \in Nat /\ disk'.eventSequence \in Nat
    BY <1>2 DEF TypeOK, LogInv, Sound, State
  <2>b. inbox \in [Channels -> Seq(Nat)]
    BY <1>2 DEF TypeOK
  <2>1. CASE disk' = disk /\ inbox' = inbox
    BY <2>1 DEF Promise!vars
  <2>2. CASE Raises(disk, disk', 2) /\ inbox' = inbox
    <3>1. /\ Owed(disk) \subseteq Owed(disk')
          /\ debts \subseteq (raised + 1 .. disk'.eventSequence) \X Channels
      BY <2>a, <2>2, RaisesPairs
    <3>2. disk'.eventSequence \in raised .. raised + 2
      BY <2>2 DEF Raises
    <3>3. Owed(disk') = Owed(disk) \union debts
      BY <3>1
    <3> HIDE DEF debts
    <3>4. CASE disk'.eventSequence = raised
      <4>1. debts = {}
        BY <2>a, <3>1, <3>4
      <4>2. QED
        BY <2>2, <3>3, <3>4, <4>1 DEF Promise!vars
    <3>5. CASE disk'.eventSequence # raised
      <4>1. PICK n \in 1..2 : disk'.eventSequence = raised + n
        BY <2>a, <3>2, <3>5
      <4>2. debts \in SUBSET ((raised + 1 .. raised + n) \X Channels)
        BY <3>1, <4>1
      <4>3. Promise!Raise(n, debts)
        BY <2>2, <3>3, <4>1, <4>2 DEF Promise!Raise
      <4>4. QED
        BY <4>2, <4>3 DEF Promise!Next
    <3>6. QED
      BY <3>4, <3>5
  <2>3. CASE OneAttempt(disk, disk') /\ inbox' = inbox
    <3>1. PICK p \in Owed(disk) :
            \/ Owed(disk') = Owed(disk)
            \/ Owed(disk') = Owed(disk) \ {p} /\ p \in Recorded(disk')
      BY <2>3 DEF OneAttempt
    <3>2. disk'.eventSequence = raised
      BY <2>3 DEF OneAttempt
    <3>3. CASE Owed(disk') = Owed(disk)
      BY <2>3, <3>2, <3>3 DEF Promise!vars
    <3>4. CASE Owed(disk') = Owed(disk) \ {p} /\ p \in Recorded(disk')
      <4>1. PICK alert \in 1..raised, ch \in Channels : p = <<alert, ch>>
        BY DEF Owed
      <4>2. \E i \in DOMAIN inbox'[ch] : inbox'[ch][i] = alert
        BY <1>2, <3>4, <4>1 DEF LogInv, Sound, Received
      <4>3. alert \in Promise!ToSet(inbox[ch])
        BY <2>3, <4>2 DEF Promise!ToSet
      <4>4. Promise!Settle(alert, ch)
        BY <2>3, <3>2, <3>4, <4>1, <4>3 DEF Promise!Settle
      <4>5. QED
        BY <4>1, <4>4 DEF Promise!Next
    <3>5. QED
      BY <3>1, <3>3, <3>4
  <2>4. ASSUME NEW p \in Owed(disk), disk' = disk,
               inbox' = [inbox EXCEPT ![p[2]] = Append(@, p[1])]
        PROVE  Promise!Next
    <3>1. PICK alert \in 1..raised, ch \in Channels : p = <<alert, ch>>
      BY DEF Owed
    <3>2. Promise!Accept(alert, ch)
      BY <2>4, <3>1 DEF Promise!Accept
    <3>3. QED
      BY <3>1, <3>2 DEF Promise!Next
  <2>5. QED
    BY <1>2, <2>1, <2>2, <2>3, <2>4 DEF DiskStep
<1>3. QED
  BY <1>1, <1>2, TypeCorrect, MutualExclusion, LogSound, DeliverySound, StepsOfDisk,
     PTL DEF Spec, ImplementsOutbox, Promise!Spec

-----------------------------------------------------------------------------
(***************************************************************************)
(* Low episodes, reminders and outages, over all checks.  The stored state *)
(* is good at the time of the clock; what a check has in memory is good at *)
(* the time of that check, which is no later and which its deliveries are  *)
(* recorded with.                                                          *)
(***************************************************************************)

\* Every configuration an operator loads has the same FailureAlertCount.
Steady == \A k \in Configs : k.failureAlertCount = InitialConfig.failureAlertCount

GoodAlerts(s, now) ==
  /\ Episodes(s, now, Configs)
  /\ Steady => Tracks(s, InitialConfig.failureAlertCount)

GoodCheck(c) ==
  check[c].pc \in {"save", "deliver", "record"} =>
    check[c].now <= clock /\ GoodAlerts(check[c].mem, check[c].now)

AlertInv == GoodAlerts(disk, clock) /\ \A c \in Callers : GoodCheck(c)

\* What was good stays good as time goes on.
LEMMA GoodLater ==
  ASSUME NEW s \in State, NEW n \in Nat, NEW m \in Nat, n <= m, GoodAlerts(s, n)
  PROVE  GoodAlerts(s, m)
BY TimelyLater DEF GoodAlerts, Episodes

\* Nothing was raised yet.
LEMMA GoodInit == Init => AlertInv
<1> SUFFICES ASSUME Init PROVE AlertInv
  OBVIOUS
<1>1. /\ disk.lowActive = FALSE /\ disk.errorActive = FALSE
      /\ disk.consecutiveFailures = 0 /\ disk.lastLowDeliveredAt = 0
      /\ disk.deliveredEvents = {} /\ disk.pendingEvents = << >>
  BY DEF Init, EmptyState, Never
<1>2. Alerts(disk) = {}
  BY <1>1 DEF Alerts, PendingSet
<1>3. Alternates(disk)
  <2>1. ~LowAt(disk, disk.eventSequence)
    BY <1>2 DEF LowAt
  <2>2. LowAt(disk, disk.eventSequence) \in BOOLEAN
    BY DEF LowAt
  <2>3. QED
    BY <1>1, <1>2, <2>1, <2>2 DEF Alternates
<1>4. Timely(disk, clock)
  BY <1>1, <1>2 DEF Timely, Init
<1>5. Spaced(disk, Configs)
  BY <1>2 DEF Spaced
<1>6. Tracks(disk, InitialConfig.failureAlertCount)
  <2>1. InitialConfig.failureAlertCount \in Nat /\ InitialConfig.failureAlertCount > 0
    BY ConfigsAssumption DEF Config
  <2>2. QED
    BY <1>1, <2>1, CalmTracks
<1>7. \A c \in Callers : GoodCheck(c)
  BY DEF Init, IdleCheck, GoodCheck
<1>8. QED
  BY <1>3, <1>4, <1>5, <1>6, <1>7 DEF AlertInv, GoodAlerts, Episodes

\* Evaluate keeps the alerts good.
LEMMA QueryGood ==
  ASSUME TypeOK, LogInv, DeliveryInv, AlertInv, NEW c \in Callers,
         NEW outcome \in Outcomes, Query(c, outcome)
  PROVE  GoodCheck(c)'
<1> DEFINE next == Evaluate(disk, outcome, check[c].cfg, clock)
           n    == InitialConfig.failureAlertCount
<1>1. check \in [Callers -> Check] /\ clock \in Nat
  BY DEF TypeOK
<1>2. At(c, "query") /\ check[c].mem = disk
  BY DEF Query, DeliveryInv, CheckInv
<1>3. disk \in State /\ WellLogged(disk)
  BY <1>2, MemIsSound DEF InMemory, At
<1>4. check[c].cfg \in Configs /\ check[c].cfg \in Config /\ outcome \in Outcome
  BY <1>1, ConfigsAssumption, OutcomesAssumption DEF Check
<1>5. Episodes(next, clock, Configs)
  <2>1. Episodes(disk, clock, Configs)
    BY DEF AlertInv, GoodAlerts
  <2>2. QED
    BY <1>1, <1>3, <1>4, <2>1, EvaluateEpisodes
<1>6. ASSUME Steady PROVE Tracks(next, n)
  <2>1. check[c].cfg.failureAlertCount = n /\ Tracks(disk, check[c].cfg.failureAlertCount)
    BY <1>4, <1>6 DEF Steady, AlertInv, GoodAlerts
  <2>2. Tracks(next, check[c].cfg.failureAlertCount)
    BY <1>1, <1>3, <1>4, <2>1, EvaluateTracks
  <2>3. QED
    BY <2>1, <2>2
<1> HIDE DEF next, n
<1>7. check'[c].mem = next /\ check'[c].now = clock /\ clock' = clock
  BY <1>1, <1>2 DEF Query, Check, next
<1>8. GoodAlerts(next, clock)
  BY <1>5, <1>6 DEF GoodAlerts, n
<1>9. QED
  BY <1>1, <1>7, <1>8 DEF GoodCheck, GoodAlerts

\* So does an attempt.
LEMMA SendGood ==
  ASSUME TypeOK, LogInv, DeliveryInv, AlertInv, NEW c \in Callers,
         NEW p \in check[c].todo, NEW result \in Results, Send(c, p, result)
  PROVE  GoodCheck(c)'
<1> DEFINE ok   == result = "accepted"
           now  == check[c].now
           next == MarkDelivered(check[c].mem, p[1], p[2], ok, now)
           n    == InitialConfig.failureAlertCount
<1>1. check \in [Callers -> Check]
  BY DEF TypeOK
<1>2. /\ check[c].mem = disk /\ At(c, "deliver")
      /\ check[c].todo \subseteq Owed(disk)
  BY DEF Send, DeliveryInv, CheckInv
<1>3. disk \in State /\ WellLogged(disk)
  BY <1>2, MemIsSound DEF InMemory, At
<1>4. PICK m \in Nat, ch \in Channels : p = <<m, ch>>
  BY <1>2 DEF Owed
<1>5. now \in Nat /\ ok \in BOOLEAN /\ <<m, ch>> \in Owed(disk)
  BY <1>1, <1>2, <1>4 DEF Check
<1>6. now <= clock /\ GoodAlerts(disk, now)
  BY <1>2 DEF AlertInv, GoodCheck, At
<1>7. /\ check'[c].mem = next /\ check'[c].now = now /\ clock' = clock
  BY <1>1 DEF Send, Check
<1>8. next = MarkDelivered(disk, m, ch, ok, now)
  BY <1>2, <1>4
<1> HIDE DEF ok, now, next
<1>9. Episodes(next, now, Configs)
  BY <1>3, <1>5, <1>6, <1>8, MarkDeliveredEpisodes DEF GoodAlerts
<1>10. ASSUME Steady PROVE Tracks(next, n)
  BY <1>3, <1>5, <1>6, <1>8, <1>10, MarkDeliveredTracks DEF GoodAlerts
<1> HIDE DEF n
<1>11. GoodAlerts(next, now)
  BY <1>9, <1>10 DEF GoodAlerts, n
<1>12. QED
  BY <1>6, <1>7, <1>11 DEF GoodCheck, GoodAlerts

\* A check keeps what it has as long as it does nothing.
LEMMA UntouchedGood ==
  ASSUME TypeOK, TypeOK', NEW c \in Callers, GoodCheck(c), check'[c] = check[c],
         clock <= clock'
  PROVE  GoodCheck(c)'
<1>1. check[c].now \in Nat /\ clock \in Nat /\ clock' \in Nat
  BY DEF TypeOK, Check
<1>2. QED
  BY <1>1 DEF GoodCheck, GoodAlerts

\* A save stores what is good now, as it was good at the time of the check.
LEMMA SaveGood ==
  ASSUME TypeOK, AlertInv, NEW c \in Callers,
         check[c].pc \in {"save", "record"}, disk' = check[c].mem, clock' = clock,
         check'[c].mem = check[c].mem, check'[c].now = check[c].now
  PROVE  GoodAlerts(disk, clock)' /\ GoodCheck(c)'
<1>1. check[c].now \in Nat /\ clock \in Nat /\ check[c].mem \in State
  BY DEF TypeOK, Check
<1>2. check[c].now <= clock /\ GoodAlerts(check[c].mem, check[c].now)
  BY DEF AlertInv, GoodCheck
<1>3. GoodAlerts(check[c].mem, clock)
  BY <1>1, <1>2, GoodLater
<1>4. QED
  BY <1>2, <1>3 DEF GoodCheck, GoodAlerts

\* Every step keeps the alerts good.
LEMMA AlertStep ==
  ASSUME TypeOK, TypeOK', OneCheckAtATime, LogInv, DeliveryInv, AlertInv, [Next]_vars
  PROVE  AlertInv'
<1>a. check \in [Callers -> Check] /\ clock \in Nat
  BY DEF TypeOK
<1>1. ASSUME NEW c \in Callers, InsideCheck(c) PROVE AlertInv'
  <2>1. Active(c) /\ OthersKept(c)
    BY <1>1, InsideCheckStep
  <2>2. clock' = clock
    BY <1>1 DEF InsideCheck, Prepare, PrepareFails, Query, SaveEvaluated, Send,
                SaveRecorded, SaveFails, DeliverDone
  <2>3. \A d \in Callers : d # c => GoodCheck(d)'
    BY <1>a, <2>1, <2>2, UntouchedGood DEF OthersKept, AlertInv
  <2>4. GoodAlerts(disk, clock)' /\ GoodCheck(c)'
    <3>1. CASE Prepare(c) \/ PrepareFails(c) \/ SaveFails(c) \/ DeliverDone(c)
      <4>1. check'[c].pc \in {"query", "finish"} /\ disk' = disk
        BY <3>1, <1>a DEF Prepare, PrepareFails, SaveFails, DeliverDone, Fail, Check
      <4>2. QED
        BY <2>2, <4>1 DEF GoodCheck, GoodAlerts, AlertInv
    <3>2. ASSUME NEW outcome \in Outcomes, Query(c, outcome)
          PROVE  GoodAlerts(disk, clock)' /\ GoodCheck(c)'
      <4>1. disk' = disk
        BY <3>2 DEF Query
      <4>2. QED
        BY <2>2, <3>2, <4>1, QueryGood DEF AlertInv, GoodAlerts
    <3>3. ASSUME NEW p \in check[c].todo, NEW result \in Results, Send(c, p, result)
          PROVE  GoodAlerts(disk, clock)' /\ GoodCheck(c)'
      <4>1. disk' = disk
        BY <3>3 DEF Send
      <4>2. QED
        BY <2>2, <3>3, <4>1, SendGood DEF AlertInv, GoodAlerts
    <3>4. CASE SaveEvaluated(c) \/ SaveRecorded(c)
      <4>1. /\ check[c].pc \in {"save", "record"} /\ disk' = check[c].mem
            /\ check'[c].mem = check[c].mem /\ check'[c].now = check[c].now
        BY <3>4, <1>a DEF SaveEvaluated, SaveRecorded, Check, At
      <4>2. QED
        BY <2>2, <4>1, SaveGood
    <3>5. QED
      BY <1>1, <3>1, <3>2, <3>3, <3>4 DEF InsideCheck
  <2>5. QED
    BY <2>3, <2>4 DEF AlertInv
<1>2. ASSUME NEW c \in Callers,
             Refuse(c) \/ Leave(c) \/ Finish(c) \/ \E dry \in DryRunBodies : Start(c, dry)
      PROVE  AlertInv'
  <2>1. OthersKept(c) /\ disk' = disk /\ clock' = clock
    BY <1>2, AroundCheckStep DEF Refuse, Leave, Finish, Start
  <2>2. check'[c].pc \in {"prepare", "refused", "idle"}
    BY <1>2, <1>a DEF Refuse, Leave, Finish, Start, Check, IdleCheck
  <2>3. \A d \in Callers : d # c => GoodCheck(d)'
    BY <1>a, <2>1, UntouchedGood DEF OthersKept, AlertInv
  <2>4. QED
    BY <2>1, <2>2, <2>3 DEF AlertInv, GoodCheck, GoodAlerts
<1>3. CASE Environment
  <2>1. disk' = disk /\ clock' \in Nat /\ clock <= clock'
    BY <1>3, <1>a DEF Environment, Tick, Reconfigure, Close, Reopen, Crash
  <2>2. GoodAlerts(disk, clock)'
    <3>1. disk \in State
      BY DEF TypeOK
    <3>2. GoodAlerts(disk, clock')
      BY <1>a, <2>1, <3>1, GoodLater DEF AlertInv
    <3>3. QED
      BY <2>1, <3>2 DEF GoodAlerts
  <2>3. check' = check \/ \A c \in Callers : check'[c] = IdleCheck
    BY <1>3 DEF Environment, Tick, Reconfigure, Close, Reopen, Crash
  <2>4. \A c \in Callers : GoodCheck(c)'
    BY <2>1, <2>3, UntouchedGood DEF AlertInv, GoodCheck, IdleCheck
  <2>5. QED
    BY <2>2, <2>4 DEF AlertInv
<1>4. CASE UNCHANGED vars
  BY <1>4 DEF vars, AlertInv, GoodCheck, GoodAlerts
<1>5. QED
  BY <1>1, <1>2, <1>3, <1>4 DEF Next, CallStep, InsideCheck

\* AlertInv is an invariant.
LEMMA AlertsStayGood == Spec => []AlertInv
<1>1. QED
  BY GoodInit, TypeCorrect, MutualExclusion, LogSound, DeliverySound, AlertStep, PTL
     DEF Spec

\* Low alerts and recoveries alternate in the file, and reminders fall
\* between them.
THEOREM LowAndRecoveryAlternate == Spec => []LowAlertsAlternate
<1>1. AlertInv => LowAlertsAlternate
  BY DEF AlertInv, GoodAlerts, Episodes, LowAlertsAlternate
<1>2. QED
  BY <1>1, AlertsStayGood, PTL

\* No two reminders are closer than some configuration allows.
THEOREM RemindersKeepTheirDistance == Spec => []RemindersAreSpaced
<1>1. AlertInv => RemindersAreSpaced
  BY DEF AlertInv, GoodAlerts, Episodes, Spaced, RemindersAreSpaced
<1>2. QED
  BY <1>1, AlertsStayGood, PTL

\* As long as no operator changes FailureAlertCount, ErrorActive says exactly
\* that so many checks in a row failed, and was announced.
THEOREM OutagesAreTracked == Steady => (Spec => []ErrorAlertTracksOutage)
<1>1. Steady /\ AlertInv => ErrorAlertTracksOutage
  BY DEF AlertInv, GoodAlerts, Tracks, ErrorAlertTracksOutage
<1>2. CASE Steady
  <2>1. AlertInv => ErrorAlertTracksOutage
    BY <1>1, <1>2
  <2>2. QED
    BY <2>1, AlertsStayGood, PTL
<1>3. QED
  BY <1>2

-----------------------------------------------------------------------------
(***************************************************************************)
(* The alerts of outages, one by one.  What a check is about to store has  *)
(* one data_error alert more than the file if it sets ErrorActive, and     *)
(* none more otherwise.                                                    *)
(***************************************************************************)

GoodAlarms(c) ==
  check[c].pc \in {"save", "record"} => AlarmedOnce(disk, check[c].mem)

AlarmInv == \A c \in Callers : GoodAlarms(c)

\* Evaluate raises what it should.
LEMMA QueryAlarms ==
  ASSUME TypeOK, LogInv, DeliveryInv, NEW c \in Callers, NEW outcome \in Outcomes,
         Query(c, outcome)
  PROVE  GoodAlarms(c)'
<1>a. check \in [Callers -> Check] /\ clock \in Nat
  BY DEF TypeOK
<1> DEFINE next == Evaluate(disk, outcome, check[c].cfg, clock)
<1>1. At(c, "query") /\ check[c].mem = disk /\ disk' = disk
  BY DEF Query, DeliveryInv, CheckInv
<1>2. disk \in State /\ WellLogged(disk)
  BY <1>1, MemIsSound DEF InMemory, At
<1>3. check[c].cfg \in Config /\ outcome \in Outcome
  BY <1>a, ConfigsAssumption, OutcomesAssumption DEF Check
<1>4. AlarmedOnce(disk, next)
  BY <1>a, <1>2, <1>3, EvaluateAlarms
<1> HIDE DEF next
<1>5. check'[c].mem = next
  BY <1>a, <1>1 DEF Query, Check, next
<1>6. QED
  BY <1>1, <1>4, <1>5 DEF GoodAlarms

\* An attempt raises nothing.
LEMMA SendAlarms ==
  ASSUME TypeOK, LogInv, DeliveryInv, NEW c \in Callers,
         NEW p \in check[c].todo, NEW result \in Results, Send(c, p, result)
  PROVE  GoodAlarms(c)'
<1>a. check \in [Callers -> Check]
  BY DEF TypeOK
<1> DEFINE ok   == result = "accepted"
           now  == check[c].now
           next == MarkDelivered(check[c].mem, p[1], p[2], ok, now)
<1>1. /\ check[c].mem = disk /\ At(c, "deliver") /\ disk' = disk
      /\ check[c].todo \subseteq Owed(disk)
  BY DEF Send, DeliveryInv, CheckInv
<1>2. disk \in State /\ WellLogged(disk)
  BY <1>1, MemIsSound DEF InMemory, At
<1>3. PICK m \in Nat, ch \in Channels : p = <<m, ch>>
  BY <1>1 DEF Owed
<1>4. now \in Nat /\ ok \in BOOLEAN /\ <<m, ch>> \in Owed(disk)
  BY <1>a, <1>1, <1>3 DEF Check
<1>5. check'[c].mem = next
  BY <1>a DEF Send, Check
<1>6. next = MarkDelivered(disk, m, ch, ok, now)
  BY <1>1, <1>3
<1> HIDE DEF ok, now, next
<1>7. AlarmedOnce(disk, next)
  BY <1>2, <1>4, <1>6, MarkDeliveredAlarms
<1>8. QED
  BY <1>1, <1>5, <1>7 DEF GoodAlarms

\* Every step keeps that.
LEMMA AlarmStep ==
  ASSUME TypeOK, OneCheckAtATime, LogInv, DeliveryInv, AlarmInv, [Next]_vars
  PROVE  AlarmInv'
<1>a. check \in [Callers -> Check]
  BY DEF TypeOK
<1>1. ASSUME NEW c \in Callers, InsideCheck(c) PROVE AlarmInv'
  <2>1. Active(c) /\ OthersKept(c)
    BY <1>1, InsideCheckStep
  <2>2. \A d \in Callers : d # c => ~Active(d) /\ check'[d] = check[d]
    BY <2>1 DEF OneCheckAtATime, OthersKept
  <2>3. \A d \in Callers : d # c => GoodAlarms(d)'
    BY <2>2 DEF GoodAlarms, Active
  <2>4. CASE \/ \E outcome \in Outcomes : Query(c, outcome)
             \/ \E p \in check[c].todo, result \in Results : Send(c, p, result)
    BY <2>3, <2>4, QueryAlarms, SendAlarms DEF AlarmInv
  <2>5. CASE \/ Prepare(c) \/ PrepareFails(c) \/ SaveEvaluated(c)
             \/ SaveRecorded(c) \/ SaveFails(c) \/ DeliverDone(c)
    <3>1. check'[c].pc \in {"query", "deliver", "finish"}
      BY <2>5, <1>a DEF Prepare, PrepareFails, SaveEvaluated, SaveRecorded, SaveFails,
                        DeliverDone, Fail, Check
    <3>2. QED
      BY <2>3, <3>1 DEF AlarmInv, GoodAlarms
  <2>6. QED
    BY <1>1, <2>4, <2>5 DEF InsideCheck
<1>2. ASSUME NEW c \in Callers,
             Refuse(c) \/ Leave(c) \/ Finish(c) \/ \E dry \in DryRunBodies : Start(c, dry)
      PROVE  AlarmInv'
  <2>1. OthersKept(c) /\ disk' = disk
    BY <1>2, AroundCheckStep DEF Refuse, Leave, Finish, Start
  <2>2. check'[c].pc \in {"prepare", "refused", "idle"}
    BY <1>2, <1>a DEF Refuse, Leave, Finish, Start, Check, IdleCheck
  <2>3. QED
    BY <2>1, <2>2 DEF AlarmInv, GoodAlarms, OthersKept
<1>3. CASE Environment \/ UNCHANGED vars
  <2>1. disk' = disk
    BY <1>3 DEF Environment, Tick, Reconfigure, Close, Reopen, Crash, vars
  <2>2. check' = check \/ \A c \in Callers : check'[c] = IdleCheck
    BY <1>3 DEF Environment, Tick, Reconfigure, Close, Reopen, Crash, vars
  <2>3. QED
    BY <2>1, <2>2 DEF AlarmInv, GoodAlarms, IdleCheck
<1>4. QED
  BY <1>1, <1>2, <1>3 DEF Next, CallStep, InsideCheck

\* A save stores what its check has in memory; nothing else changes the file.
LEMMA SavesOfDisk ==
  ASSUME TypeOK, [Next]_vars
  PROVE  \/ disk' = disk
         \/ \E c \in Callers : check[c].pc \in {"save", "record"} /\ disk' = check[c].mem
<1>1. ASSUME NEW c \in Callers, CallStep(c), disk' # disk
      PROVE  check[c].pc \in {"save", "record"} /\ disk' = check[c].mem
  BY <1>1 DEF CallStep, Start, Refuse, Leave, Prepare, PrepareFails, Query, SaveEvaluated,
              Send, SaveRecorded, SaveFails, DeliverDone, Finish, At
<1>2. Environment \/ UNCHANGED vars => disk' = disk
  BY DEF Environment, Tick, Reconfigure, Close, Reopen, Crash, vars
<1>3. QED
  BY <1>1, <1>2 DEF Next

\* The file gets one data_error alert for each outage, when it begins.
THEOREM ErrorAlertsAreRaisedOnce == Spec => ErrorAlertsComeOnce
<1> DEFINE Crossing == disk'.errorActive /\ ~disk.errorActive
           new == {e \in Alerts(disk') : e.kind = "data_error" /\ e.seq > disk.eventSequence}
<1>1. Init => AlarmInv
  BY DEF Init, AlarmInv, GoodAlarms, IdleCheck
<1>2. ASSUME TypeOK, LogInv, AlarmInv, [Next]_vars
      PROVE  Cardinality(new) = IF Crossing THEN 1 ELSE 0
  <2>1. AlarmedOnce(disk, disk')
    <3>1. CASE disk' = disk
      <4>1. disk \in State /\ WellLogged(disk)
        BY <1>2 DEF TypeOK, LogInv, Sound
      <4>2. Alarms(disk, disk) = {}
        BY <4>1, NoAlarms
      <4>3. QED
        BY <3>1, <4>2 DEF AlarmedOnce
    <3>2. CASE disk' # disk
      BY <1>2, <3>2, SavesOfDisk DEF AlarmInv, GoodAlarms
    <3>3. QED
      BY <3>1, <3>2
  <2>2. new = Alarms(disk, disk')
    BY DEF Alarms
  <2> HIDE DEF new
  <2>3. CASE Crossing
    <3>1. PICK e : new = {e}
      BY <2>1, <2>2, <2>3 DEF AlarmedOnce
    <3>2. QED
      BY <2>3, <3>1, FS_Singleton
  <2>4. CASE ~Crossing
    <3>1. new = {}
      BY <2>1, <2>2, <2>4 DEF AlarmedOnce
    <3>2. QED
      BY <2>4, <3>1, FS_EmptySet
  <2>5. QED
    BY <2>3, <2>4
<1>3. QED
  BY <1>1, <1>2, TypeCorrect, MutualExclusion, LogSound, DeliverySound, AlarmStep, PTL
     DEF Spec, ErrorAlertsComeOnce

-----------------------------------------------------------------------------
(***************************************************************************)
(* Repeated messages, counted.  A fault pays for one repetition, but is    *)
(* paid before: a recipient that got what nobody knows of will get it      *)
(* again.  So do repetitions, what was got and is not safely recorded, and *)
(* the one attempt a closed App may still make, add up to the faults at    *)
(* most.                                                                   *)
(***************************************************************************)

Got(p) == \E i \in DOMAIN inbox[p[2]] : inbox[p[2]][i] = p[1]

\* Recorded, or in the hands of a check that can still save.
Safe(p) ==
  \/ p \in Recorded(disk)
  \/ ~closed /\ \E c \in Callers : At(c, "record") /\ p \in Recorded(check[c].mem)

Unsettled == {p \in Nat \X Channels : Got(p) /\ ~Safe(p)}

\* A closed App is about to make an attempt it cannot record.
Late == IF closed /\ \E c \in Callers : At(c, "deliver") THEN 1 ELSE 0

Counts(repeats, unsettled, late, paid) ==
  /\ IsFiniteSet(repeats) /\ IsFiniteSet(unsettled)
  /\ Cardinality(repeats) + Cardinality(unsettled) + late <= paid

CountInv == Counts(Repeats, Unsettled, Late, faults)

\* Nothing more to pay for.
LEMMA CountLess ==
  ASSUME NEW R, NEW U, NEW b \in Nat, NEW f \in Nat, Counts(R, U, b, f),
         NEW V \in SUBSET U, NEW b1 \in Nat, NEW f1 \in Nat, b1 + f <= b + f1
  PROVE  Counts(R, V, b1, f1)
<1>1. IsFiniteSet(R) /\ IsFiniteSet(U) /\ Cardinality(R) \in Nat /\ Cardinality(U) \in Nat
  BY FS_CardinalityType DEF Counts
<1>2. IsFiniteSet(V) /\ Cardinality(V) \in Nat /\ Cardinality(V) <= Cardinality(U)
  BY <1>1, FS_Subset, FS_CardinalityType
<1>3. QED
  BY <1>1, <1>2 DEF Counts

\* A pair more that is not settled.
LEMMA CountOwed ==
  ASSUME NEW R, NEW U, NEW b \in Nat, NEW f \in Nat, Counts(R, U, b, f),
         NEW p, NEW V \in SUBSET (U \union {p}),
         NEW b1 \in Nat, NEW f1 \in Nat, b1 + 1 + f <= b + f1
  PROVE  Counts(R, V, b1, f1)
<1>1. IsFiniteSet(R) /\ IsFiniteSet(U) /\ Cardinality(R) \in Nat /\ Cardinality(U) \in Nat
  BY FS_CardinalityType DEF Counts
<1>2. IsFiniteSet(U \union {p}) /\ Cardinality(U \union {p}) <= Cardinality(U) + 1
      /\ Cardinality(U \union {p}) \in Nat
  <2>1. IsFiniteSet(U \union {p})
        /\ Cardinality(U \union {p}) = IF p \in U THEN Cardinality(U) ELSE Cardinality(U) + 1
    BY <1>1, FS_AddElement
  <2>2. QED
    BY <1>1, <2>1
<1>3. /\ IsFiniteSet(V) /\ Cardinality(V) \in Nat
      /\ Cardinality(V) <= Cardinality(U \union {p})
  BY <1>2, FS_Subset, FS_CardinalityType
<1>4. QED
  BY <1>1, <1>2, <1>3 DEF Counts

\* A repetition more.
LEMMA CountRepeated ==
  ASSUME NEW R, NEW U, NEW b \in Nat, NEW f \in Nat, Counts(R, U, b, f),
         NEW r, NEW V \in SUBSET U,
         NEW b1 \in Nat, NEW f1 \in Nat, b1 + 1 + f <= b + f1
  PROVE  Counts(R \union {r}, V, b1, f1)
<1>1. IsFiniteSet(R) /\ IsFiniteSet(U) /\ Cardinality(R) \in Nat /\ Cardinality(U) \in Nat
  BY FS_CardinalityType DEF Counts
<1>2. IsFiniteSet(R \union {r}) /\ Cardinality(R \union {r}) <= Cardinality(R) + 1
      /\ Cardinality(R \union {r}) \in Nat
  <2>1. IsFiniteSet(R \union {r})
        /\ Cardinality(R \union {r}) = IF r \in R THEN Cardinality(R) ELSE Cardinality(R) + 1
    BY <1>1, FS_AddElement
  <2>2. QED
    BY <1>1, <2>1
<1>3. IsFiniteSet(V) /\ Cardinality(V) \in Nat /\ Cardinality(V) <= Cardinality(U)
  BY <1>1, FS_Subset, FS_CardinalityType
<1>4. QED
  BY <1>1, <1>2, <1>3 DEF Counts

\* A repetition that settles a pair.
LEMMA CountSettled ==
  ASSUME NEW R, NEW U, NEW b \in Nat, NEW f \in Nat, Counts(R, U, b, f),
         NEW r, NEW p \in U, NEW V \in SUBSET (U \ {p}),
         NEW b1 \in Nat, NEW f1 \in Nat, b1 + f <= b + f1
  PROVE  Counts(R \union {r}, V, b1, f1)
<1>1. IsFiniteSet(R) /\ IsFiniteSet(U) /\ Cardinality(R) \in Nat /\ Cardinality(U) \in Nat
  BY FS_CardinalityType DEF Counts
<1>2. IsFiniteSet(U \ {p}) /\ Cardinality(U \ {p}) = Cardinality(U) - 1
  BY <1>1, FS_RemoveElement
<1>3. b1 + 1 + (f - 1) <= b + f1 /\ Cardinality(U) # 0
  <2>1. p \in U
    OBVIOUS
  <2>2. Cardinality(U) # 0
    BY <1>1, <2>1, FS_EmptySet
  <2>3. QED
    BY <2>2
<1>4. Cardinality(U \ {p}) \in Nat /\ f - 1 \in Nat
  BY <1>1, <1>2, <1>3 DEF Counts
<1>5. Counts(R, U \ {p}, b, f - 1)
  BY <1>1, <1>2, <1>4 DEF Counts
<1>6. QED
  BY <1>3, <1>4, <1>5, CountRepeated

\* What is recorded is not owed.
LEMMA OwedIsNotRecorded ==
  ASSUME NEW s, WellLogged(s), NEW p \in Owed(s)
  PROVE  p \notin Recorded(s)
<1>1. PICK e \in PendingSet(s) : e.seq = p[1] /\ HasStatus(e, p[2], {"pending", "failed"})
  BY DEF Owed
<1>2. SUFFICES ASSUME NEW f \in Alerts(s), f.seq = p[1], HasStatus(f, p[2], {"delivered"})
               PROVE  FALSE
  BY DEF Recorded
<1>3. f = e
  BY <1>1, <1>2 DEF WellLogged, Alerts
<1>4. QED
  BY <1>1, <1>2, <1>3 DEF HasStatus

\* Repeats, of any sequences of messages.
RepeatsIn(box) ==
  {r \in UNION {{ch} \X DOMAIN box[ch] : ch \in Channels} :
     \E i \in 1..(r[2] - 1) : box[r[1]][i] = box[r[1]][r[2]]}

\* A place is a repetition when the same alert stands before it.
LEMMA RepeatsShape ==
  ASSUME NEW box
  PROVE  /\ \A r \in RepeatsIn(box) : \E ch \in Channels : \E k \in DOMAIN box[ch] : r = <<ch, k>>
         /\ \A ch \in Channels : \A k :
              <<ch, k>> \in RepeatsIn(box) <=>
                k \in DOMAIN box[ch] /\ \E i \in 1..(k - 1) : box[ch][i] = box[ch][k]
<1> DEFINE Places == UNION {{ch} \X DOMAIN box[ch] : ch \in Channels}
<1>1. \A r : r \in Places <=> \E ch \in Channels : r \in {ch} \X DOMAIN box[ch]
  OBVIOUS
<1> HIDE DEF Places
<1>2. \A r : r \in RepeatsIn(box) <=>
        r \in Places /\ \E i \in 1..(r[2] - 1) : box[r[1]][i] = box[r[1]][r[2]]
  BY DEF RepeatsIn, Places
<1>3. ASSUME NEW r \in RepeatsIn(box)
      PROVE  \E ch \in Channels : \E k \in DOMAIN box[ch] : r = <<ch, k>>
  BY <1>1, <1>2
<1>4. ASSUME NEW ch \in Channels, NEW k
      PROVE  <<ch, k>> \in RepeatsIn(box) <=>
               k \in DOMAIN box[ch] /\ \E i \in 1..(k - 1) : box[ch][i] = box[ch][k]
  <2>1. <<ch, k>> \in Places <=> k \in DOMAIN box[ch]
    BY <1>1
  <2>2. <<ch, k>>[1] = ch /\ <<ch, k>>[2] = k
    OBVIOUS
  <2>3. QED
    BY <1>2, <2>1, <2>2
<1>5. QED
  BY <1>3, <1>4

\* One more message is one more repetition, if the recipient had it.
LEMMA RepeatsGrow ==
  ASSUME inbox \in [Channels -> Seq(Nat)], NEW n \in Nat, NEW c \in Channels,
         inbox' = [inbox EXCEPT ![c] = Append(@, n)]
  PROVE  /\ \A p \in Nat \X Channels : Got(p)' <=> Got(p) \/ p = <<n, c>>
         /\ Got(<<n, c>>)  => Repeats' = Repeats \union {<<c, Len(inbox[c]) + 1>>}
         /\ ~Got(<<n, c>>) => Repeats' = Repeats
<1> DEFINE L == Len(inbox[c])
<1>1. /\ inbox[c] \in Seq(Nat) /\ L \in Nat /\ DOMAIN inbox[c] = 1..L
      /\ inbox'[c] = Append(inbox[c], n)
      /\ \A ch \in Channels : ch # c => inbox'[ch] = inbox[ch]
  OBVIOUS
<1>2. /\ DOMAIN inbox'[c] = 1..(L + 1)
      /\ \A i \in 1..L : inbox'[c][i] = inbox[c][i]
      /\ inbox'[c][L + 1] = n
  BY <1>1
<1> HIDE DEF L
<1>3. ASSUME NEW p \in Nat \X Channels
      PROVE  Got(p)' <=> Got(p) \/ p = <<n, c>>
  <2>1. PICK m \in Nat, ch \in Channels : p = <<m, ch>>
    OBVIOUS
  <2>2. CASE ch # c
    BY <1>1, <2>1, <2>2 DEF Got
  <2>3. CASE ch = c
    <3>1. Got(p)' <=> \E i \in 1..(L + 1) : inbox'[c][i] = m
      BY <1>2, <2>1, <2>3 DEF Got
    <3>2. Got(p) <=> \E i \in 1..L : inbox[c][i] = m
      BY <1>1, <2>1, <2>3 DEF Got
    <3>3. p = <<n, c>> <=> m = n
      BY <2>1, <2>3
    <3>4. (\E i \in 1..(L + 1) : inbox'[c][i] = m)
             <=> (\E i \in 1..L : inbox[c][i] = m) \/ m = n
      <4>1. 1..(L + 1) = (1..L) \union {L + 1}
        BY <1>1
      <4>2. QED
        BY <1>2, <4>1
    <3>5. QED
      BY <3>1, <3>2, <3>3, <3>4
  <2>4. QED
    BY <2>2, <2>3
<1>4. Repeats = RepeatsIn(inbox) /\ Repeats' = RepeatsIn(inbox')
  BY DEF Repeats, RepeatsIn
<1> DEFINE Old == RepeatsIn(inbox)
           New == RepeatsIn(inbox')
           At2(box, ch, k) == k \in DOMAIN box[ch] /\ \E i \in 1..(k - 1) : box[ch][i] = box[ch][k]
<1>5. /\ \A r \in Old \union New : \E ch \in Channels : \E k : r = <<ch, k>>
      /\ \A ch \in Channels : \A k : /\ <<ch, k>> \in Old <=> At2(inbox, ch, k)
                                     /\ <<ch, k>> \in New <=> At2(inbox', ch, k)
  <2> DEFINE after == inbox'
  <2> HIDE DEF after
  <2>1. /\ \A r \in RepeatsIn(after) : \E ch \in Channels : \E k \in DOMAIN after[ch] : r = <<ch, k>>
        /\ \A ch \in Channels : \A k : <<ch, k>> \in RepeatsIn(after) <=> At2(after, ch, k)
    BY RepeatsShape
  <2>2. /\ \A r \in Old : \E ch \in Channels : \E k \in DOMAIN inbox[ch] : r = <<ch, k>>
        /\ \A ch \in Channels : \A k : <<ch, k>> \in Old <=> At2(inbox, ch, k)
    BY RepeatsShape
  <2>3. after = inbox' /\ New = RepeatsIn(after)
    BY DEF after
  <2>4. \A ch \in Channels : \A k : <<ch, k>> \in New <=> At2(inbox', ch, k)
    BY <2>1 DEF after
  <2> HIDE DEF At2, Old, New
  <2>5. \A r \in New : \E ch \in Channels : \E k : r = <<ch, k>>
    BY <2>1, <2>3
  <2>6. \A r \in Old : \E ch \in Channels : \E k : r = <<ch, k>>
    BY <2>2
  <2>7. QED
    BY <2>2, <2>4, <2>5, <2>6
<1> HIDE DEF Old, New
<1>6. ASSUME NEW ch \in Channels, NEW k, ~(ch = c /\ k = L + 1)
      PROVE  At2(inbox', ch, k) <=> At2(inbox, ch, k)
  <2>1. CASE ch # c
    BY <1>1, <2>1
  <2>2. CASE ch = c
    <3>1. k \in DOMAIN inbox'[c] <=> k \in DOMAIN inbox[c]
      <4>1. k \in 1..(L + 1) <=> k \in 1..L
        BY <1>1, <1>6, <2>2
      <4>2. QED
        BY <1>1, <1>2, <4>1
    <3>2. CASE k \notin DOMAIN inbox[c]
      BY <2>2, <3>1, <3>2
    <3>3. CASE k \in DOMAIN inbox[c]
      <4>1. k \in 1..L /\ \A i \in 1..(k - 1) : i \in 1..L
        BY <1>1, <3>3
      <4>2. inbox'[c][k] = inbox[c][k] /\ \A i \in 1..(k - 1) : inbox'[c][i] = inbox[c][i]
        BY <1>2, <4>1
      <4>3. QED
        BY <2>2, <3>1, <4>2
    <3>4. QED
      BY <3>2, <3>3
  <2>3. QED
    BY <2>1, <2>2
<1>7. At2(inbox', c, L + 1) <=> Got(<<n, c>>)
  <2>1. (L + 1) - 1 = L /\ L + 1 \in 1..(L + 1)
    BY <1>1
  <2>2. Got(<<n, c>>) <=> \E i \in 1..L : inbox[c][i] = n
    BY <1>1 DEF Got
  <2>3. At2(inbox', c, L + 1) <=> \E i \in 1..L : inbox'[c][i] = inbox'[c][L + 1]
    BY <1>2, <2>1
  <2>4. QED
    BY <1>2, <2>2, <2>3
<1>8. ~At2(inbox, c, L + 1)
  <2>1. L + 1 \notin DOMAIN inbox[c]
    BY <1>1
  <2>2. QED
    BY <2>1
<1> HIDE DEF At2
<1>9. \A r : r # <<c, L + 1>> => (r \in New <=> r \in Old)
  <2> SUFFICES ASSUME NEW r, r # <<c, L + 1>> PROVE r \in New <=> r \in Old
    OBVIOUS
  <2>1. CASE r \in Old \union New
    <3>1. PICK ch \in Channels : \E k : r = <<ch, k>>
      BY <1>5, <2>1
    <3>2. PICK k : r = <<ch, k>>
      BY <3>1
    <3>3. QED
      BY <1>5, <1>6, <3>2
  <2>2. CASE r \notin Old \union New
    BY <2>2
  <2>3. QED
    BY <2>1, <2>2
<1>10. (<<c, L + 1>> \in New <=> Got(<<n, c>>)) /\ <<c, L + 1>> \notin Old
  BY <1>5, <1>7, <1>8
<1>11. Got(<<n, c>>) => New = Old \union {<<c, L + 1>>}
  BY <1>9, <1>10
<1>12. ~Got(<<n, c>>) => New = Old
  <2>1. ASSUME ~Got(<<n, c>>) PROVE \A r : r \in New <=> r \in Old
    BY <1>9, <1>10, <2>1
  <2>2. QED
    BY <2>1
<1>13. QED
  BY <1>3, <1>4, <1>11, <1>12 DEF L, Old, New

\* With one check running, only its memory counts.
LEMMA SafeOfCheck ==
  ASSUME OneCheckAtATime, NEW c \in Callers, Active(c)
  PROVE  /\ \A p : Safe(p) <=>
              \/ p \in Recorded(disk)
              \/ ~closed /\ At(c, "record") /\ p \in Recorded(check[c].mem)
         /\ Late = IF closed /\ At(c, "deliver") THEN 1 ELSE 0
<1>1. \A d \in Callers : At(d, "record") \/ At(d, "deliver") => d = c
  BY DEF OneCheckAtATime, Active, At
<1>2. QED
  BY <1>1 DEF Safe, Late

\* The same after a step that leaves the others alone.
LEMMA SafeAfterCheck ==
  ASSUME OneCheckAtATime, NEW c \in Callers, Active(c), OthersKept(c)
  PROVE  /\ \A p : Safe(p)' <=>
              \/ p \in Recorded(disk')
              \/ ~closed' /\ check'[c].pc = "record" /\ p \in Recorded(check'[c].mem)
         /\ Late' = IF closed' /\ check'[c].pc = "deliver" THEN 1 ELSE 0
<1>1. \A d \in Callers : check'[d].pc = "record" \/ check'[d].pc = "deliver" => d = c
  BY DEF OneCheckAtATime, Active, At, OthersKept
<1>2. QED
  BY <1>1 DEF Safe, Late, At

\* A check can lose one record: it has made one attempt since its last save.
LEMMA OneToLose ==
  ASSUME OneCheckAtATime, DeliveryInv
  PROVE  \E p : \A q : Safe(q) => q \in Recorded(disk) \/ q = p
<1>1. CASE \E c \in Callers : At(c, "record")
  <2>1. PICK c \in Callers : At(c, "record")
    BY <1>1
  <2>2. \A d \in Callers : At(d, "record") => d = c
    BY <2>1 DEF OneCheckAtATime, Active, At
  <2>3. PICK p : \A q \in Recorded(check[c].mem) : q \in Recorded(disk) \/ q = p
    BY <2>1 DEF DeliveryInv, CheckInv, OneAttempt
  <2>4. QED
    BY <2>2, <2>3 DEF Safe
<1>2. CASE ~\E c \in Callers : At(c, "record")
  BY <1>2 DEF Safe
<1>3. QED
  BY <1>1, <1>2

\* What is safe is no less safe: nothing to pay for.
LEMMA CountKept ==
  ASSUME TypeOK, CountInv, inbox' = inbox, faults' \in Nat, faults <= faults',
         \A p \in Nat \X Channels : Safe(p) => Safe(p)',
         Late' + faults <= Late + faults'
  PROVE  CountInv'
<1>1. Repeats' = Repeats
  BY DEF Repeats
<1>2. Unsettled' \subseteq Unsettled
  BY DEF Unsettled, Got
<1>3. faults \in Nat /\ Late \in Nat /\ Late' \in Nat
  BY DEF TypeOK, Late
<1> HIDE DEF Late
<1>4. Counts(Repeats, Unsettled, Late, faults)
  BY DEF CountInv
<1>5. Counts(Repeats, Unsettled', Late', faults')
  BY <1>2, <1>3, <1>4, CountLess
<1>6. QED
  BY <1>1, <1>5 DEF CountInv

\* A fault loses one record, or makes a closed App late.
LEMMA CountPaid ==
  ASSUME TypeOK, OneCheckAtATime, DeliveryInv, CountInv, inbox' = inbox,
         disk' = disk, faults' = faults + 1,
         Late' = 0 \/ (Late' = 1 /\ \A p : Safe(p) => p \in Recorded(disk))
  PROVE  CountInv'
<1>1. PICK p : \A q : Safe(q) => q \in Recorded(disk) \/ q = p
  BY OneToLose
<1>2. \A q : q \in Recorded(disk) => Safe(q)'
  BY DEF Safe
<1>3. faults \in Nat /\ Late \in Nat /\ Late' \in Nat
  BY DEF TypeOK, Late
<1>a. faults + 1 \in Nat /\ faults <= faults + 1
  BY <1>3
<1>4. CASE Late' = 1
  <2>1. \A q \in Nat \X Channels : Safe(q) => Safe(q)'
    BY <1>2, <1>4
  <2>2. faults' \in Nat /\ faults <= faults' /\ Late' + faults <= Late + faults'
    BY <1>3, <1>4
  <2>3. QED
    BY <2>1, <2>2, CountKept
<1>5. CASE Late' = 0
  <2>1. Repeats' = Repeats
    BY DEF Repeats
  <2>2. Unsettled' \subseteq Unsettled \union {p}
    BY <1>1, <1>2 DEF Unsettled, Got
  <2>3. Counts(Repeats, Unsettled, Late, faults)
    BY DEF CountInv
  <2>4. faults' \in Nat /\ Late' + 1 + faults <= Late + faults'
    BY <1>3, <1>5
  <2> DEFINE f1 == faults'
             b1 == Late'
             U1 == Unsettled'
  <2>5. /\ f1 \in Nat /\ b1 \in Nat /\ U1 \in SUBSET (Unsettled \union {p})
        /\ b1 + 1 + faults <= Late + f1
    BY <1>3, <2>2, <2>4
  <2> HIDE DEF Late, f1, b1, U1
  <2>6. Counts(Repeats, U1, b1, f1)
    BY <1>3, <2>3, <2>5, CountOwed
  <2>7. QED
    BY <2>1, <2>6 DEF CountInv, f1, b1, U1
<1>6. QED
  BY <1>4, <1>5

\* What a check may still save after an attempt.
LEMMA SendRecords ==
  ASSUME TypeOK, LogInv, NEW c \in Callers, CheckInv(c), NEW p \in check[c].todo,
         NEW result \in Results, Send(c, p, result)
  PROVE  /\ p \in Owed(disk) /\ p \notin Recorded(disk) /\ disk' = disk
         /\ check'[c].pc = "record"
         /\ Recorded(check'[c].mem) =
              IF result = "accepted" THEN Recorded(disk) \union {p} ELSE Recorded(disk)
<1> DEFINE ok   == result = "accepted"
           now  == check[c].now
           next == MarkDelivered(check[c].mem, p[1], p[2], ok, now)
<1>1. check \in [Callers -> Check]
  BY DEF TypeOK
<1>2. check[c].mem = disk /\ At(c, "deliver") /\ p \in Owed(disk) /\ disk' = disk
  BY DEF Send, CheckInv
<1>3. disk \in State /\ WellLogged(disk)
  BY <1>2, MemIsSound DEF InMemory, At
<1>4. PICK m \in Nat, ch \in Channels : p = <<m, ch>>
  BY <1>2 DEF Owed
<1>5. now \in Nat /\ ok \in BOOLEAN /\ <<m, ch>> \in Owed(disk)
  BY <1>1, <1>2, <1>4 DEF Check
<1>6. next = MarkDelivered(disk, m, ch, ok, now)
  BY <1>2, <1>4
<1>7. check'[c].mem = next /\ check'[c].pc = "record"
  BY <1>1 DEF Send, Check
<1> HIDE DEF ok, now, next
<1>8. Recorded(next) = IF ok THEN Recorded(disk) \union {<<m, ch>>} ELSE Recorded(disk)
  BY <1>3, <1>5, <1>6, MarkDeliveredPairs
<1>9. p \notin Recorded(disk)
  BY <1>2, <1>3, OwedIsNotRecorded
<1>10. QED
  BY <1>2, <1>4, <1>7, <1>8, <1>9 DEF ok

\* An attempt: a repetition uses up what was unsettled, or is paid for.
LEMMA SendCount ==
  ASSUME TypeOK, TypeOK', OneCheckAtATime, LogInv, DeliveryInv, CountInv,
         NEW c \in Callers, NEW p \in check[c].todo, NEW result \in Results,
         Send(c, p, result)
  PROVE  CountInv'
<1> DEFINE ok == result = "accepted"
           f1 == faults'
           b1 == Late'
           R1 == Repeats'
           U1 == Unsettled'
           r  == <<p[2], Len(inbox[p[2]]) + 1>>
<1>1. Active(c) /\ OthersKept(c) /\ At(c, "deliver") /\ closed' = closed
  BY InsideCheckStep DEF InsideCheck, Send
<1>2. /\ p \in Owed(disk) /\ p \notin Recorded(disk) /\ disk' = disk
      /\ check'[c].pc = "record"
      /\ Recorded(check'[c].mem) = IF ok THEN Recorded(disk) \union {p} ELSE Recorded(disk)
  BY SendRecords DEF DeliveryInv
<1>3. /\ \A q : Safe(q) <=> q \in Recorded(disk)
      /\ Late = IF closed THEN 1 ELSE 0
  BY <1>1, SafeOfCheck DEF At
<1>4. /\ \A q : Safe(q)' <=> q \in Recorded(disk) \/ (~closed /\ ok /\ q = p)
      /\ b1 = 0
  BY <1>1, <1>2, SafeAfterCheck
<1>5. PICK m \in Nat, ch \in Channels : p = <<m, ch>>
  BY <1>2 DEF Owed
<1>6. faults \in Nat /\ f1 = IF result = "unacknowledged" THEN faults + 1 ELSE faults
  BY DEF TypeOK, Send
<1>7. CASE result = "rejected"
  <2>1. inbox' = inbox /\ faults' = faults
    BY <1>7 DEF Send
  <2>2. Late \in Nat /\ Late' = 0 /\ faults \in Nat
    BY <1>3, <1>4, <1>6
  <2> HIDE DEF Late, f1, b1, R1, U1, r, ok
  <2>3. Late' + faults <= Late + faults'
    BY <2>1, <2>2
  <2>4. QED
    BY <1>3, <1>4, <2>1, <2>2, <2>3, CountKept
<1>8. CASE result # "rejected"
  <2>1. inbox' = [inbox EXCEPT ![ch] = Append(@, m)] /\ inbox \in [Channels -> Seq(Nat)]
    BY <1>5, <1>8 DEF Send, TypeOK
  <2>2. /\ \A q \in Nat \X Channels : Got(q)' <=> Got(q) \/ q = p
        /\ Got(p) => R1 = Repeats \union {r}
        /\ ~Got(p) => R1 = Repeats
    BY <1>5, <2>1, RepeatsGrow
  <2>3. U1 = {q \in Nat \X Channels : (Got(q) \/ q = p) /\
                                      ~(q \in Recorded(disk) \/ (~closed /\ ok /\ q = p))}
    BY <1>4, <2>2 DEF Unsettled
  <2>4. Unsettled = {q \in Nat \X Channels : Got(q) /\ q \notin Recorded(disk)}
    BY <1>3 DEF Unsettled
  <2>5. Got(p) => p \in Unsettled
    BY <1>2, <1>5, <2>4
  <2>6. Counts(Repeats, Unsettled, Late, faults)
    BY DEF CountInv
  <2>7. Counts(R1, U1, b1, f1)
    <3>1. CASE ok /\ ~closed
      <4>1. U1 \subseteq Unsettled \ {p}
        BY <2>3, <2>4, <3>1
      <4>2. f1 = faults /\ Late = 0 /\ b1 = 0
        BY <1>3, <1>4, <1>6, <3>1
      <4> HIDE DEF Late, f1, b1, R1, U1, r, ok
      <4>3. f1 \in Nat /\ b1 \in Nat /\ Late \in Nat /\ b1 + faults <= Late + f1
        BY <1>6, <4>2
      <4>4. CASE Got(p)
        <5>1. R1 = Repeats \union {r} /\ p \in Unsettled /\ U1 \in SUBSET (Unsettled \ {p})
          BY <2>2, <2>5, <4>1, <4>4
        <5>2. QED
          BY <1>6, <2>6, <4>3, <5>1, CountSettled
      <4>5. CASE ~Got(p)
        <5>1. R1 = Repeats /\ U1 \in SUBSET Unsettled
          BY <2>2, <4>1, <4>5
        <5>2. QED
          BY <1>6, <2>6, <4>3, <5>1, CountLess
      <4>6. QED
        BY <4>4, <4>5
    <3>2. CASE ~(ok /\ ~closed)
      <4>1. U1 \subseteq Unsettled \union {p} /\ (Got(p) => U1 \subseteq Unsettled)
        BY <2>3, <2>4, <2>5, <3>2
      <4>2. f1 \in Nat /\ Late \in Nat /\ b1 \in Nat /\ b1 + 1 + faults <= Late + f1
        <5>1. CASE closed
          BY <1>3, <1>4, <1>6, <5>1
        <5>2. CASE ~ok /\ ~closed
          <6>1. result = "unacknowledged"
            BY <1>8, <5>2 DEF Results
          <6>2. QED
            BY <1>3, <1>4, <1>6, <5>2, <6>1
        <5>3. QED
          BY <3>2, <5>1, <5>2
      <4> HIDE DEF Late, f1, b1, R1, U1, r, ok
      <4>3. CASE Got(p)
        <5>1. R1 = Repeats \union {r} /\ U1 \in SUBSET Unsettled
          BY <2>2, <4>1, <4>3
        <5>2. QED
          BY <1>6, <2>6, <4>2, <5>1, CountRepeated
      <4>4. CASE ~Got(p)
        <5>1. R1 = Repeats /\ U1 \in SUBSET (Unsettled \union {p})
          BY <2>2, <4>1, <4>4
        <5>2. QED
          BY <1>6, <2>6, <4>2, <5>1, CountOwed
      <4>5. QED
        BY <4>3, <4>4
    <3>3. QED
      BY <3>1, <3>2
  <2>8. QED
    BY <2>7 DEF CountInv
<1>9. QED
  BY <1>7, <1>8

\* A failed save, counted when it fails, or when the App was closed.
LEMMA SaveFailsCount ==
  ASSUME TypeOK, OneCheckAtATime, DeliveryInv, CountInv, NEW c \in Callers, SaveFails(c)
  PROVE  CountInv'
<1>1. Active(c) /\ OthersKept(c)
  BY InsideCheckStep DEF InsideCheck
<1>2. check'[c].pc = "finish"
  BY DEF SaveFails, Fail, TypeOK, Check
<1>3. disk' = disk /\ inbox' = inbox /\ closed' = closed /\ ~At(c, "deliver")
  BY DEF SaveFails, At
<1>4. Late = 0 /\ Late' = 0 /\ \A p : Safe(p)' <=> p \in Recorded(disk)
  BY <1>1, <1>2, <1>3, SafeOfCheck, SafeAfterCheck
<1>5. CASE closed
  <2>1. \A p : Safe(p) => Safe(p)'
    BY <1>1, <1>4, <1>5, SafeOfCheck
  <2>2. faults' = faults /\ faults \in Nat
    BY <1>5 DEF SaveFails, TypeOK
  <2> HIDE DEF Late
  <2>3. faults' \in Nat /\ faults <= faults' /\ Late' + faults <= Late + faults'
    BY <1>4, <2>2
  <2>4. QED
    BY <1>3, <2>1, <2>3, CountKept
<1>6. CASE ~closed
  <2>1. faults' = faults + 1
    BY <1>6 DEF SaveFails
  <2> HIDE DEF Late
  <2>2. QED
    BY <1>3, <1>4, <2>1, CountPaid
<1>7. QED
  BY <1>5, <1>6

\* Every step pays for the repetitions it makes.
LEMMA CountStep ==
  ASSUME TypeOK, TypeOK', OneCheckAtATime, LogInv, DeliveryInv, CountInv, [Next]_vars
  PROVE  CountInv'
<1>a. check \in [Callers -> Check] /\ faults \in Nat
  BY DEF TypeOK
<1>b. Late \in Nat /\ Late' \in Nat
  BY DEF Late
<1>1. ASSUME NEW c \in Callers, InsideCheck(c) PROVE CountInv'
  <2>1. Active(c) /\ OthersKept(c)
    BY <1>1, InsideCheckStep
  <2>2. CheckInv(c)
    BY DEF DeliveryInv
  <2>3. CASE Prepare(c) \/ PrepareFails(c) \/ DeliverDone(c)
             \/ \E outcome \in Outcomes : Query(c, outcome)
    <3>a. /\ disk' = disk /\ inbox' = inbox /\ closed' = closed /\ faults' = faults
          /\ ~At(c, "record")
      BY <2>3 DEF Prepare, PrepareFails, DeliverDone, Query, Fail, At
    <3>b. check'[c].pc \in {"query", "finish", "save"}
      <4>1. CASE Prepare(c) \/ PrepareFails(c) \/ DeliverDone(c)
        BY <4>1, <1>a DEF Prepare, PrepareFails, DeliverDone, Fail, Check
      <4>2. ASSUME NEW outcome \in Outcomes, Query(c, outcome)
            PROVE  check'[c].pc = "save"
        BY <4>2, <1>a DEF Query, Check
      <4>3. QED
        BY <2>3, <4>1, <4>2
    <3>1. /\ disk' = disk /\ inbox' = inbox /\ closed' = closed /\ faults' = faults
          /\ ~At(c, "record") /\ check'[c].pc \in {"query", "finish", "save"}
      BY <3>a, <3>b
    <3>2. Late' = 0 /\ \A p : Safe(p) => Safe(p)'
      BY <2>1, <3>1, SafeOfCheck, SafeAfterCheck
    <3> HIDE DEF Late
    <3>3. Late' + faults <= Late + faults' /\ faults' \in Nat /\ faults <= faults'
      BY <1>a, <1>b, <3>1, <3>2
    <3>4. QED
      BY <3>1, <3>2, <3>3, CountKept
  <2>4. CASE SaveEvaluated(c) \/ SaveRecorded(c)
    <3>1. /\ disk' = check[c].mem /\ inbox' = inbox /\ faults' = faults
          /\ ~closed /\ closed' = closed /\ check[c].pc \in {"save", "record"}
      BY <2>4 DEF SaveEvaluated, SaveRecorded, At
    <3>2. Recorded(disk) \subseteq Recorded(disk')
      <4>1. /\ disk \in State /\ WellLogged(disk)
            /\ check[c].mem \in State /\ WellLogged(check[c].mem)
        BY <3>1, MemIsSound DEF InMemory
      <4>2. Raises(disk, disk', 2) \/ OneAttempt(disk, disk')
        BY <2>2, <3>1 DEF CheckInv, At
      <4>3. QED
        BY <3>1, <4>1, <4>2, RaisesPairs DEF OneAttempt, Keeps
    <3>3. Late' = 0 /\ \A p : Safe(p) => Safe(p)'
      BY <2>1, <3>1, <3>2, SafeOfCheck, SafeAfterCheck
    <3> HIDE DEF Late
    <3>4. Late' + faults <= Late + faults' /\ faults' \in Nat /\ faults <= faults'
      BY <1>a, <1>b, <3>1, <3>3
    <3>5. QED
      BY <3>1, <3>3, <3>4, CountKept
  <2>5. ASSUME NEW p \in check[c].todo, NEW result \in Results, Send(c, p, result)
        PROVE  CountInv'
    BY <2>5, SendCount
  <2>6. CASE SaveFails(c)
    BY <2>6, SaveFailsCount
  <2>7. QED
    BY <1>1, <2>3, <2>4, <2>5, <2>6 DEF InsideCheck
<1>2. ASSUME NEW c \in Callers,
             Refuse(c) \/ Leave(c) \/ Finish(c) \/ \E dry \in DryRunBodies : Start(c, dry)
      PROVE  CountInv'
  <2>1. /\ disk' = disk /\ inbox' = inbox /\ closed' = closed /\ faults' = faults
        /\ OthersKept(c)
    BY <1>2, AroundCheckStep DEF Refuse, Leave, Finish, Start
  <2>2. check[c].pc \notin {"record", "deliver"}
        /\ check'[c].pc \in {"prepare", "refused", "idle"}
    BY <1>2, <1>a DEF Refuse, Leave, Finish, Start, Check, IdleCheck, At
  <2>3. \A d \in Callers : /\ check'[d].pc = "record" <=> At(d, "record")
                           /\ check'[d].pc = "deliver" <=> At(d, "deliver")
                           /\ At(d, "record") => check'[d].mem = check[d].mem
    BY <2>1, <2>2 DEF OthersKept, At
  <2>4. Late' = Late /\ \A p : Safe(p) => Safe(p)'
    BY <2>1, <2>3 DEF Late, Safe, At
  <2> HIDE DEF Late
  <2>5. Late' + faults <= Late + faults' /\ faults' \in Nat /\ faults <= faults'
    BY <1>a, <1>b, <2>1, <2>4
  <2>6. QED
    BY <2>1, <2>4, <2>5, CountKept
<1>3. CASE Tick \/ (\E new \in Configs : Reconfigure(new)) \/ UNCHANGED vars
  <2>1. disk' = disk /\ inbox' = inbox /\ closed' = closed /\ check' = check
        /\ faults' = faults
    BY <1>3 DEF Tick, Reconfigure, vars
  <2>2. Late' = Late /\ \A p : Safe(p) => Safe(p)'
    BY <2>1 DEF Late, Safe, At
  <2> HIDE DEF Late
  <2>3. Late' + faults <= Late + faults' /\ faults' \in Nat /\ faults <= faults'
    BY <1>a, <1>b, <2>1, <2>2
  <2>4. QED
    BY <2>1, <2>2, <2>3, CountKept
<1>4. ASSUME NEW new \in Configs, Reopen(new) PROVE CountInv'
  <2>1. /\ disk' = disk /\ inbox' = inbox /\ faults' = faults /\ ~closed'
        /\ \A c \in Callers : At(c, "idle")
    BY <1>4 DEF Reopen
  <2>2. Late' = 0 /\ \A p : Safe(p) => Safe(p)'
    BY <2>1 DEF Late, Safe, At
  <2> HIDE DEF Late
  <2>3. Late' + faults <= Late + faults' /\ faults' \in Nat /\ faults <= faults'
    BY <1>a, <1>b, <2>1, <2>2
  <2>4. QED
    BY <2>1, <2>2, <2>3, CountKept
<1>5. CASE Close
  <2>1. /\ disk' = disk /\ inbox' = inbox /\ faults' = faults + 1 /\ ~closed /\ closed'
        /\ check' = check
    BY <1>5 DEF Close
  <2>2. CASE \E c \in Callers : At(c, "deliver")
    <3>1. Late' = 1
      BY <2>1, <2>2 DEF Late, At
    <3>2. \A c \in Callers : ~At(c, "record")
      BY <2>2 DEF OneCheckAtATime, Active, At
    <3>3. \A p : Safe(p) => p \in Recorded(disk)
      BY <3>2 DEF Safe
    <3> HIDE DEF Late
    <3>4. QED
      BY <2>1, <3>1, <3>3, CountPaid
  <2>3. CASE ~\E c \in Callers : At(c, "deliver")
    <3>1. Late' = 0
      BY <2>1, <2>3 DEF Late, At
    <3> HIDE DEF Late
    <3>2. QED
      BY <2>1, <3>1, CountPaid
  <2>4. QED
    BY <2>2, <2>3
<1>6. CASE Crash
  <2>1. disk' = disk /\ inbox' = inbox /\ faults' = faults + 1 /\ ~closed'
    BY <1>6 DEF Crash
  <2>2. Late' = 0
    BY <2>1 DEF Late
  <2> HIDE DEF Late
  <2>3. QED
    BY <2>1, <2>2, CountPaid
<1>7. QED
  BY <1>1, <1>2, <1>3, <1>4, <1>5, <1>6 DEF Next, CallStep, InsideCheck, Environment

\* No message was repeated before any was sent.
LEMMA CountInit == Init => CountInv
<1> SUFFICES ASSUME Init PROVE CountInv
  OBVIOUS
<1>1. inbox = [ch \in Channels |-> << >>] /\ ~closed /\ faults = 0
  BY DEF Init
<1>2. \A ch \in Channels : DOMAIN inbox[ch] = {}
  BY <1>1
<1>3. Repeats = {}
  <2>1. RepeatsIn(inbox) = {}
    BY <1>2, RepeatsShape
  <2>2. QED
    BY <2>1 DEF Repeats, RepeatsIn
<1>4. Unsettled = {}
  BY <1>2 DEF Unsettled, Got
<1>5. Late = 0
  BY <1>1 DEF Late
<1>6. QED
  BY <1>1, <1>3, <1>4, <1>5, FS_EmptySet DEF CountInv, Counts

\* No message is repeated without a fault, and each fault repeats one at most.
THEOREM RepetitionsNeedFaults == Spec => []RepeatsNeedFaults
<1>1. ASSUME TypeOK, CountInv PROVE RepeatsNeedFaults
  <2>1. Cardinality(Repeats) \in Nat /\ Cardinality(Unsettled) \in Nat
    BY <1>1, FS_CardinalityType DEF CountInv, Counts
  <2>2. Late \in Nat /\ faults \in Nat
    BY <1>1 DEF Late, TypeOK
  <2> HIDE DEF Late
  <2>3. QED
    BY <1>1, <2>1, <2>2 DEF CountInv, Counts, RepeatsNeedFaults
<1>2. QED
  BY <1>1, CountInit, TypeCorrect, MutualExclusion, LogSound, DeliverySound, CountStep,
     PTL DEF Spec

\* What recipients have got is stored, and got twice only after a fault.
THEOREM InboxesAreJustified == Spec => []InboxIsJustified
<1>1. SentIsStored /\ RepeatsNeedFaults => InboxIsJustified
  BY DEF InboxIsJustified
<1>2. QED
  BY <1>1, SentAlertsAreStored, RepetitionsNeedFaults, PTL

=============================================================================
