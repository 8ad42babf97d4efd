--------------------------- MODULE LifecycleProofs ---------------------------
(***************************************************************************)
(* Proofs about Lifecycle: at most one check per process, and none left    *)
(* that calls a host which was told that the plugin is shut down.          *)
(*                                                                         *)
(* The argument: the mutex makes the drain of an App exclusive, so every   *)
(* App that was ever made is the installed one, the one being drained, or  *)
(* closed for good without a call in it.                                   *)
(***************************************************************************)
EXTENDS Lifecycle, FiniteSetTheorems, TLAPS

LockPCs  == {"close", "drain", "return"}
Admitted == {"admitted", "leave"} \union Checking
WithApp  == {"close", "drain", "configure", "begin", "shutdown"} \union Admitted

\* Every init that was let in finds a number for its App.
Bounded == made + Cardinality(PendingInits) <= MaxApps

\* The mutex is held from Detach to return, and nothing is installed then.
Locked ==
  /\ \A t \in Threads : pc[t] \in LockPCs <=> lifecycleMu = t
  /\ lifecycleMu # NoThread => globalApp = 0

Numbered ==
  /\ globalApp <= made
  /\ \A t \in Threads : mine[t] <= made
  /\ \A t \in Threads : pc[t] \in WithApp => mine[t] # 0

\* An admitted call is in the wait group, a check holds its Handler's flag.
Counted ==
  \A t \in Threads : pc[t] \in Admitted => t \in app[mine[t]].wg

FlagIsHeld ==
  /\ \A t \in Threads : pc[t] \in Checking => app[mine[t]].running
  /\ \A t, u \in Threads :
       pc[t] \in Checking /\ pc[u] \in Checking /\ mine[t] = mine[u] => t = u

Retired(a) == app[a].closed /\ app[a].wg = {}

\* App a is being shut down by the holder of the mutex.
Draining(a) ==
  \E t \in Threads :
    /\ mine[t] = a
    /\ pc[t] = "close" \/ (pc[t] = "drain" /\ app[a].closed)

OthersAreRetired ==
  /\ \A a \in 1..made : a = globalApp \/ Draining(a) \/ Retired(a)
  /\ freed \subseteq 1..made
  /\ \A a \in freed : Retired(a)

RealConfig ==
  /\ \A a \in Apps : app[a].configured => app[a].current # ZeroConfig
  /\ ConfigIsReal
  /\ ClosedAppsAreEmpty

IInv ==
  /\ TypeOK
  /\ Bounded
  /\ Locked
  /\ Numbered
  /\ Counted
  /\ FlagIsHeld
  /\ OthersAreRetired
  /\ RealConfig


-----------------------------------------------------------------------------

\* The mutex is taken by Detach and given back when init or shutdown returns.
LEMMA LockedStep ==
  ASSUME IInv, NEW t \in Threads,
         Arrive(t) \/ Reenter(t) \/ LifecycleStep(t) \/ CallStep(t)
  PROVE  Locked'
<1> USE ThreadsAssumption DEF IInv, TypeOK, Locked, LockPCs, Goto, PCs
<1>1. CASE Arrive(t)
  BY <1>1 DEF Arrive, Enter, Call
<1>2. CASE Reenter(t)
  BY <1>2 DEF Reenter
<1>3. CASE LifecycleStep(t)
  <2>1. CASE Detach(t)
    BY <2>1 DEF Detach
  <2>2. CASE CloseOld(t)
    BY <2>2 DEF CloseOld
  <2>3. CASE Drain(t)
    BY <2>3 DEF Drain
  <2>4. CASE Install(t)
    BY <2>4 DEF Install
  <2>5. CASE Unload(t)
    BY <2>5 DEF Unload
  <2> QED BY <1>3, <2>1, <2>2, <2>3, <2>4, <2>5 DEF LifecycleStep
<1>4. CASE CallStep(t)
  BY <1>4 DEF CallStep, RejectConfig, ShutdownCall, Begin, Configure, TryStart,
     Current, CallHost, HostReturns, NestedShutdown, Finish, Done
<1> QED BY <1>1, <1>2, <1>3, <1>4

\* What the calls do to the App they were sent to, field by field.
KeepsConfig == \A a \in Apps :
  /\ app'[a].closed = app[a].closed
  /\ app'[a].configured = app[a].configured
  /\ app'[a].current = app[a].current

KeepsCalls == \A a \in Apps :
  app'[a].running = app[a].running /\ app'[a].wg = app[a].wg

SetsWg(m, w) ==
  /\ KeepsConfig
  /\ \A a \in Apps :
       /\ app'[a].running = app[a].running
       /\ app'[a].wg = IF a = m THEN w ELSE app[a].wg

SetsRunning(m, r) ==
  /\ KeepsConfig
  /\ \A a \in Apps :
       /\ app'[a].running <=> (a = m /\ r) \/ (a # m /\ app[a].running)
       /\ app'[a].wg = app[a].wg

Closes(m) ==
  /\ KeepsCalls
  /\ \A a \in Apps :
       /\ app'[a].closed = IF a = m THEN TRUE ELSE app[a].closed
       /\ app'[a].configured = IF a = m THEN FALSE ELSE app[a].configured
       /\ app'[a].current = IF a = m THEN ZeroConfig ELSE app[a].current

Elsewhere == UNCHANGED <<globalApp, lifecycleMu, made, op, mine, freed>>

\* Writing one field of an App leaves the others as they were.
LEMMA PutRunning ==
  ASSUME app \in [Apps -> App], NEW m \in Apps, NEW v \in BOOLEAN,
         app' = [app EXCEPT ![m].running = v]
  PROVE  app' \in [Apps -> App] /\ SetsRunning(m, v)
BY DEF App, SetsRunning, KeepsConfig

\* The same of the wait group.
LEMMA PutWg ==
  ASSUME app \in [Apps -> App], NEW m \in Apps, NEW w \in SUBSET Threads,
         app' = [app EXCEPT ![m].wg = w]
  PROVE  app' \in [Apps -> App] /\ SetsWg(m, w)
BY DEF App, SetsWg, KeepsConfig

\* The same of a configuration and the flag that goes with it.
LEMMA PutCurrent ==
  ASSUME app \in [Apps -> App], NEW m \in Apps, NEW c \in Configs,
         app' = [app EXCEPT ![m].current = c, ![m].configured = TRUE]
  PROVE  /\ app' \in [Apps -> App]
         /\ KeepsCalls
         /\ \A a \in Apps : app'[a].closed = app[a].closed
BY DEF App, KeepsCalls

\* The same of Close.
LEMMA PutClosed ==
  ASSUME app \in [Apps -> App], NEW m \in Apps,
         app' = [app EXCEPT ![m] = Closed(@)]
  PROVE  app' \in [Apps -> App] /\ Closes(m)
BY DEF App, Closed, Closes, KeepsCalls

\* A thread that has an App has one that was made.
LEMMA MineIsAnApp ==
  ASSUME IInv, NEW t \in Threads, pc[t] \in WithApp
  PROVE  mine[t] \in Apps
BY MaxAppsAssumption DEF IInv, TypeOK, Numbered, Apps

\* beginManagementCall refuses, or admits a call of an App that is not closed.
LEMMA BeginEffect ==
  ASSUME IInv, NEW t \in Threads, Begin(t)
  PROVE  /\ mine[t] \in Apps
         /\ pc[t] = "begin"
         /\ Elsewhere /\ cfg' = cfg
         /\ app' \in [Apps -> App]
         /\ \/ app' = app /\ pc' = [pc EXCEPT ![t] = "idle"]
            \/ /\ ~app[mine[t]].closed
               /\ pc' = [pc EXCEPT ![t] = "admitted"]
               /\ SetsWg(mine[t], app[mine[t]].wg \union {t})
<1>1. mine[t] \in Apps
  BY MineIsAnApp DEF Begin, WithApp
<1>2. app \in [Apps -> App]
  BY DEF IInv, TypeOK
<1>3. CASE app[mine[t]].closed \/ ~app[mine[t]].configured
  BY <1>1, <1>2, <1>3 DEF Begin, Goto, Elsewhere
<1>4. CASE ~(app[mine[t]].closed \/ ~app[mine[t]].configured)
  <2>1. app' = [app EXCEPT ![mine[t]].wg = app[mine[t]].wg \union {t}]
    BY <1>1, <1>2, <1>4 DEF Begin
  <2>2. app[mine[t]].wg \union {t} \in SUBSET Threads
    BY <1>1, <1>2 DEF App
  <2>3. app' \in [Apps -> App] /\ SetsWg(mine[t], app[mine[t]].wg \union {t})
    BY <1>1, <1>2, <2>1, <2>2, PutWg
  <2> QED BY <1>1, <1>4, <2>3 DEF Begin, Goto, Elsewhere
<1> QED BY <1>3, <1>4

\* tryStart refuses, or sets the flag that was clear.
LEMMA TryStartEffect ==
  ASSUME IInv, NEW t \in Threads, TryStart(t)
  PROVE  /\ mine[t] \in Apps
         /\ pc[t] = "admitted"
         /\ Elsewhere /\ cfg' = cfg
         /\ app' \in [Apps -> App]
         /\ \/ app' = app /\ pc' = [pc EXCEPT ![t] = "leave"]
            \/ /\ ~app[mine[t]].running
               /\ pc' = [pc EXCEPT ![t] = "current"]
               /\ SetsRunning(mine[t], TRUE)
<1>1. mine[t] \in Apps
  BY MineIsAnApp DEF TryStart, WithApp, Admitted
<1>2. app \in [Apps -> App]
  BY DEF IInv, TypeOK
<1>3. CASE app[mine[t]].running
  BY <1>1, <1>2, <1>3 DEF TryStart, Goto, Elsewhere
<1>4. CASE ~app[mine[t]].running
  <2>1. app' = [app EXCEPT ![mine[t]].running = TRUE]
    BY <1>1, <1>2, <1>4 DEF TryStart
  <2>2. app' \in [Apps -> App] /\ SetsRunning(mine[t], TRUE)
    BY <1>1, <1>2, <2>1, PutRunning
  <2> QED BY <1>1, <1>4, <2>2 DEF TryStart, Goto, Elsewhere
<1> QED BY <1>3, <1>4

\* The check gives the flag back.
LEMMA FinishEffect ==
  ASSUME IInv, NEW t \in Threads, Finish(t)
  PROVE  /\ mine[t] \in Apps
         /\ pc[t] \in {"work", "finish"}
         /\ Elsewhere /\ cfg' = cfg
         /\ app' \in [Apps -> App]
         /\ pc' = [pc EXCEPT ![t] = "leave"]
         /\ SetsRunning(mine[t], FALSE)
<1>1. mine[t] \in Apps
  BY MineIsAnApp DEF Finish, Goto, WithApp, Admitted, Checking
<1>2. app' = [app EXCEPT ![mine[t]].running = FALSE] /\ app \in [Apps -> App]
  BY DEF Finish, IInv, TypeOK
<1>3. app' \in [Apps -> App] /\ SetsRunning(mine[t], FALSE)
  BY <1>1, <1>2, PutRunning
<1> QED BY <1>1, <1>3 DEF Finish, Goto, Elsewhere

\* The call leaves the wait group.
LEMMA DoneEffect ==
  ASSUME IInv, NEW t \in Threads, Done(t)
  PROVE  /\ mine[t] \in Apps
         /\ pc[t] = "leave"
         /\ Elsewhere /\ cfg' = cfg
         /\ app' \in [Apps -> App]
         /\ pc' = [pc EXCEPT ![t] = "idle"]
         /\ SetsWg(mine[t], app[mine[t]].wg \ {t})
<1>1. mine[t] \in Apps
  BY MineIsAnApp DEF Done, Goto, WithApp, Admitted
<1>2. app' = [app EXCEPT ![mine[t]].wg = app[mine[t]].wg \ {t}] /\ app \in [Apps -> App]
  BY <1>1 DEF Done, IInv, TypeOK
<1>3. app[mine[t]].wg \ {t} \in SUBSET Threads
  BY <1>1, <1>2 DEF App
<1>4. app' \in [Apps -> App] /\ SetsWg(mine[t], app[mine[t]].wg \ {t})
  BY <1>1, <1>2, <1>3, PutWg
<1> QED BY <1>1, <1>4 DEF Done, Goto, Elsewhere

\* configure stores a parsed configuration, unless the App is closed.
LEMMA ConfigureEffect ==
  ASSUME IInv, NEW t \in Threads, NEW c \in Configs, Configure(t, c)
  PROVE  /\ mine[t] \in Apps
         /\ pc[t] = "configure"
         /\ Elsewhere /\ cfg' = cfg
         /\ app' \in [Apps -> App]
         /\ pc' = [pc EXCEPT ![t] = "idle"]
         /\ KeepsCalls
         /\ \A a \in Apps : app'[a].closed = app[a].closed
         /\ \A a \in Apps : \/ app'[a] = app[a]
                             \/ (app'[a].current = c /\ ~app[a].closed)
<1>1. mine[t] \in Apps
  BY MineIsAnApp DEF Configure, Goto, WithApp
<1>2. app \in [Apps -> App]
  BY DEF IInv, TypeOK
<1>3. CASE app[mine[t]].closed
  BY <1>1, <1>2, <1>3 DEF Configure, Goto, Elsewhere, KeepsCalls
<1>4. CASE ~app[mine[t]].closed
  <2>1. app' = [app EXCEPT ![mine[t]].current = c, ![mine[t]].configured = TRUE]
    BY <1>1, <1>2, <1>4 DEF Configure
  <2>2. app' \in [Apps -> App] /\ KeepsCalls
        /\ \A a \in Apps : app'[a].closed = app[a].closed
    BY <1>1, <1>2, <2>1, PutCurrent
  <2>3. \A a \in Apps : app'[a] = app[a] \/ (app'[a].current = c /\ ~app[a].closed)
    BY <1>1, <1>2, <1>4, <2>1 DEF App
  <2> QED BY <1>1, <2>2, <2>3 DEF Configure, Goto, Elsewhere
<1> QED BY <1>3, <1>4

\* Close, from native shutdown and init or from plugin.shutdown.
LEMMA CloseEffect ==
  ASSUME IInv, NEW t \in Threads,
         CloseOld(t) \/ ShutdownCall(t) \/ NestedShutdown(t)
  PROVE  /\ mine[t] \in Apps
         /\ app' \in [Apps -> App]
         /\ Closes(mine[t])
<1>1. mine[t] \in Apps
  BY MineIsAnApp DEF CloseOld, ShutdownCall, NestedShutdown, Goto, WithApp, Admitted,
     Checking
<1>2. app' = [app EXCEPT ![mine[t]] = Closed(@)] /\ app \in [Apps -> App]
  BY DEF CloseOld, ShutdownCall, NestedShutdown, IInv, TypeOK
<1> QED BY <1>1, <1>2, PutClosed

\* What a step does to the Apps, whichever call it belongs to: what is closed
\* stays closed and takes in nobody; a call is uncounted only as it ends; the
\* flag is given back only by the check that holds it.
AppStep(t) ==
  /\ \A a \in Apps : app[a].closed => app'[a].closed /\ app'[a].wg \subseteq app[a].wg
  /\ \A a \in Apps, u \in Threads :
       u \in app[a].wg => u \in app'[a].wg \/ (u = t /\ pc'[t] = "idle")
  /\ pc'[t] = "admitted" => t \in app'[mine[t]].wg
  /\ \A a \in Apps :
       app[a].running =>
         app'[a].running \/ (a = mine[t] /\ pc[t] \in Checking /\ pc'[t] = "leave")
  /\ pc'[t] = "current" => app'[mine[t]].running /\ ~app[mine[t]].running
  /\ \A a \in Apps : app'[a].configured => app'[a].current # ZeroConfig
  /\ \A a \in Apps :
       app'[a].closed => ~app'[a].configured /\ app'[a].current = ZeroConfig

\* How a call moves: through the checks of its App, never into the mutex.
CallFlow(t) ==
  /\ Elsewhere
  /\ pc' = [pc EXCEPT ![t] = pc'[t]]
  /\ pc[t] \in WithApp \ LockPCs
  /\ pc'[t] \in (Admitted \union {"idle"}) \ LockPCs
  /\ pc'[t] \in Admitted => pc[t] \in Admitted \/ pc'[t] = "admitted"
  /\ pc'[t] \in Checking => pc[t] \in Checking \/ pc'[t] = "current"
  /\ pc'[t] \in {"work", "host", "nested"} =>
       cfg'[t] # ZeroConfig
  /\ \A u \in Threads \ {t} : cfg'[u] = cfg[u]
  /\ app' \in [Apps -> App]
  /\ cfg' \in [Threads -> Configs \union {ZeroConfig}]

\* The steps of a call are such steps.
LEMMA CallStepEffect ==
  ASSUME IInv, NEW t \in Threads, CallStep(t)
  PROVE  AppStep(t) /\ CallFlow(t)
<1> DEFINE Goal == AppStep(t) /\ CallFlow(t)
<1>1. /\ app \in [Apps -> App]
      /\ pc \in [Threads -> PCs] /\ cfg \in [Threads -> Configs \union {ZeroConfig}]
      /\ \A a \in Apps : app[a].configured => app[a].current # ZeroConfig
      /\ \A a \in Apps :
           app[a].closed => ~app[a].configured /\ app[a].current = ZeroConfig
      /\ \A u \in Threads : pc[u] \in {"work", "host", "nested"} => cfg[u] # ZeroConfig
  BY DEF IInv, TypeOK, RealConfig, ConfigIsReal, ClosedAppsAreEmpty
<1>2. pc[t] \in Checking => app[mine[t]].running
  BY DEF IInv, FlagIsHeld
<1>3. pc[t] \in Admitted => t \in app[mine[t]].wg
  BY DEF IInv, Counted
<1>4. CASE RejectConfig(t)
  BY <1>1, <1>2, <1>3, <1>4 DEF RejectConfig, Goto, AppStep, CallFlow, Elsewhere, WithApp, LockPCs, Admitted, Checking, PCs
<1>5. CASE ShutdownCall(t)
  <2>1. /\ mine[t] \in Apps /\ app' \in [Apps -> App] /\ Closes(mine[t])
        /\ pc[t] = "shutdown"
        /\ pc' = [pc EXCEPT ![t] = "idle"]
        /\ Elsewhere /\ cfg' = cfg
    BY <1>5, CloseEffect DEF ShutdownCall, Goto, Elsewhere
  <2>2. AppStep(t)
    BY <1>1, <1>2, <1>3, <2>1 DEF AppStep, Closes, KeepsCalls, WithApp, LockPCs, Admitted, Checking, PCs
  <2>3. CallFlow(t)
    BY <1>1, <2>1 DEF CallFlow, WithApp, LockPCs, Admitted, Checking, PCs
  <2> QED BY <2>2, <2>3
<1>6. CASE Begin(t)
  <2>1. /\ mine[t] \in Apps
        /\ pc[t] = "begin"
        /\ Elsewhere /\ cfg' = cfg
        /\ app' \in [Apps -> App]
        /\ \/ app' = app /\ pc' = [pc EXCEPT ![t] = "idle"]
           \/ /\ ~app[mine[t]].closed
              /\ pc' = [pc EXCEPT ![t] = "admitted"]
              /\ SetsWg(mine[t], app[mine[t]].wg \union {t})
    BY <1>6, BeginEffect
  <2>2. AppStep(t)
    BY <1>1, <1>2, <1>3, <2>1 DEF AppStep, SetsWg, KeepsConfig, WithApp, LockPCs, Admitted, Checking, PCs
  <2>3. CallFlow(t)
    BY <1>1, <2>1 DEF CallFlow, WithApp, LockPCs, Admitted, Checking, PCs
  <2> QED BY <2>2, <2>3
<1>7. CASE TryStart(t)
  <2>1. /\ mine[t] \in Apps
        /\ pc[t] = "admitted"
        /\ Elsewhere /\ cfg' = cfg
        /\ app' \in [Apps -> App]
        /\ \/ app' = app /\ pc' = [pc EXCEPT ![t] = "leave"]
           \/ /\ ~app[mine[t]].running
              /\ pc' = [pc EXCEPT ![t] = "current"]
              /\ SetsRunning(mine[t], TRUE)
    BY <1>7, TryStartEffect
  <2>2. AppStep(t)
    BY <1>1, <1>2, <1>3, <2>1 DEF AppStep, SetsRunning, KeepsConfig, WithApp, LockPCs, Admitted, Checking, PCs
  <2>3. CallFlow(t)
    BY <1>1, <2>1 DEF CallFlow, WithApp, LockPCs, Admitted, Checking, PCs
  <2> QED BY <2>2, <2>3
<1>8. CASE Current(t)
  <2>1. mine[t] \in Apps
    BY <1>8, MineIsAnApp DEF Current, WithApp, LockPCs, Admitted, Checking, PCs
  <2>2. CASE app[mine[t]].closed \/ ~app[mine[t]].configured
    BY <1>1, <1>2, <1>3, <1>8, <2>2 DEF Current, Goto, AppStep, CallFlow, Elsewhere, WithApp, LockPCs, Admitted, Checking, PCs
  <2>3. CASE ~(app[mine[t]].closed \/ ~app[mine[t]].configured)
    <3>1. app[mine[t]].current \in (Configs \union {ZeroConfig}) \ {ZeroConfig}
      BY <1>1, <2>1, <2>3 DEF App
    <3>2. /\ pc[t] = "current" /\ pc' = [pc EXCEPT ![t] = "work"]
          /\ cfg' = [cfg EXCEPT ![t] = app[mine[t]].current]
          /\ app' = app /\ Elsewhere
      BY <1>8, <2>3 DEF Current, Goto, Elsewhere
    <3> QED BY <1>1, <1>2, <1>3, <3>1, <3>2 DEF AppStep, CallFlow, WithApp, LockPCs, Admitted, Checking, PCs
  <2> QED BY <2>2, <2>3
<1>9. CASE CallHost(t)
  BY <1>1, <1>2, <1>3, <1>9 DEF CallHost, Goto, AppStep, CallFlow, Elsewhere, WithApp, LockPCs, Admitted, Checking, PCs
<1>10. CASE HostReturns(t)
  BY <1>1, <1>2, <1>3, <1>10 DEF HostReturns, Goto, AppStep, CallFlow, Elsewhere, WithApp, LockPCs, Admitted, Checking, PCs
<1>11. CASE NestedShutdown(t)
  <2>1. /\ mine[t] \in Apps /\ app' \in [Apps -> App] /\ Closes(mine[t])
        /\ pc[t] = "nested"
        /\ pc' = [pc EXCEPT ![t] = "host"]
        /\ Elsewhere /\ cfg' = cfg
    BY <1>11, CloseEffect DEF NestedShutdown, Goto, Elsewhere
  <2>2. AppStep(t)
    BY <1>1, <1>2, <1>3, <2>1 DEF AppStep, Closes, KeepsCalls, WithApp, LockPCs, Admitted, Checking, PCs
  <2>3. CallFlow(t)
    BY <1>1, <2>1 DEF CallFlow, WithApp, LockPCs, Admitted, Checking, PCs
  <2> QED BY <2>2, <2>3
<1>12. CASE Finish(t)
  <2>1. /\ mine[t] \in Apps
        /\ pc[t] \in {"work", "finish"}
        /\ Elsewhere /\ cfg' = cfg
        /\ app' \in [Apps -> App]
        /\ pc' = [pc EXCEPT ![t] = "leave"]
        /\ SetsRunning(mine[t], FALSE)
    BY <1>12, FinishEffect
  <2>2. AppStep(t)
    BY <1>1, <1>2, <1>3, <2>1 DEF AppStep, SetsRunning, KeepsConfig, WithApp, LockPCs, Admitted, Checking, PCs
  <2>3. CallFlow(t)
    BY <1>1, <2>1 DEF CallFlow, WithApp, LockPCs, Admitted, Checking, PCs
  <2> QED BY <2>2, <2>3
<1>13. CASE Done(t)
  <2>1. /\ mine[t] \in Apps
        /\ pc[t] = "leave"
        /\ Elsewhere /\ cfg' = cfg
        /\ app' \in [Apps -> App]
        /\ pc' = [pc EXCEPT ![t] = "idle"]
        /\ SetsWg(mine[t], app[mine[t]].wg \ {t})
    BY <1>13, DoneEffect
  <2>2. AppStep(t)
    BY <1>1, <1>2, <1>3, <2>1 DEF AppStep, SetsWg, KeepsConfig, WithApp, LockPCs, Admitted, Checking, PCs
  <2>3. CallFlow(t)
    BY <1>1, <2>1 DEF CallFlow, WithApp, LockPCs, Admitted, Checking, PCs
  <2> QED BY <2>2, <2>3
<1>14. ASSUME NEW c \in Configs, Configure(t, c) PROVE Goal
  <2>1. /\ mine[t] \in Apps
        /\ pc[t] = "configure"
        /\ Elsewhere /\ cfg' = cfg
        /\ app' \in [Apps -> App]
        /\ pc' = [pc EXCEPT ![t] = "idle"]
        /\ KeepsCalls
        /\ \A a \in Apps : app'[a].closed = app[a].closed
        /\ \A a \in Apps : \/ app'[a] = app[a]
                            \/ (app'[a].current = c /\ ~app[a].closed)
    BY <1>14, ConfigureEffect
  <2>2. AppStep(t)
    <3>1. /\ \A a \in Apps : app'[a].configured => app'[a].current # ZeroConfig
          /\ \A a \in Apps :
               app'[a].closed => ~app'[a].configured /\ app'[a].current = ZeroConfig
      BY <1>1, <2>1, ConfigsAssumption
    <3>2. pc'[t] = "idle"
      BY <1>1, <2>1
    <3> QED
      BY <1>1, <2>1, <3>1, <3>2 DEF AppStep, KeepsCalls
  <2>3. CallFlow(t)
    BY <1>1, <2>1 DEF CallFlow, WithApp, LockPCs, Admitted, Checking, PCs
  <2> QED BY <2>2, <2>3
<1> QED BY <1>4, <1>5, <1>6, <1>7, <1>8, <1>9, <1>10, <1>11, <1>12, <1>13, <1>14 DEF CallStep

\* Inits in progress are counted; the bound leaves a number for each.
LEMMA BoundedStep ==
  ASSUME IInv, NEW t \in Threads,
         Arrive(t) \/ Reenter(t) \/ LifecycleStep(t) \/ CallStep(t)
  PROVE  Bounded' /\ made' \in 0..MaxApps
<1> USE MaxAppsAssumption, ThreadsAssumption
<1>1. /\ IsFiniteSet(PendingInits) /\ IsFiniteSet(PendingInits')
      /\ Cardinality(PendingInits) \in Nat /\ Cardinality(PendingInits') \in Nat
  <2>1. PendingInits \subseteq Threads /\ PendingInits' \subseteq Threads
    BY DEF PendingInits
  <2> QED BY <2>1, FS_Subset, FS_CardinalityType
<1>2. made \in 0..MaxApps /\ Bounded
  BY DEF IInv, TypeOK
<1>3. ASSUME NEW o \in {"init", "shutdown"}, Enter(t, o)
      PROVE  Bounded' /\ made' \in 0..MaxApps
  <2>1. PendingInits' = IF o = "init" THEN PendingInits \union {t} ELSE PendingInits
    BY <1>3 DEF Enter, Goto, PendingInits, IInv, TypeOK
  <2>2. t \notin PendingInits
    BY <1>3 DEF Enter, Goto, PendingInits
  <2>3. o = "init" => Cardinality(PendingInits') = Cardinality(PendingInits) + 1
    BY <1>1, <2>1, <2>2, FS_AddElement
  <2>4. made' = made /\ (o = "init" => made + Cardinality(PendingInits) < MaxApps)
    BY <1>3 DEF Enter
  <2>5. CASE o = "init"
    BY <1>1, <1>2, <2>3, <2>4, <2>5 DEF Bounded
  <2>6. CASE o # "init"
    BY <1>1, <1>2, <2>1, <2>4, <2>6 DEF Bounded
  <2> QED BY <2>5, <2>6
<1>4. CASE Install(t)
  <2>1. PendingInits' = PendingInits \ {t} /\ t \in PendingInits /\ made' = made + 1
    BY <1>4 DEF Install, Goto, PendingInits, IInv, TypeOK
  <2>2. Cardinality(PendingInits') = Cardinality(PendingInits) - 1
    BY <1>1, <2>1, FS_RemoveElement
  <2> QED BY <1>1, <1>2, <2>1, <2>2 DEF Bounded
<1>5. CASE PendingInits' \subseteq PendingInits /\ made' = made
  <2>1. Cardinality(PendingInits') <= Cardinality(PendingInits)
    BY <1>1, <1>5, FS_Subset
  <2> QED BY <1>1, <1>2, <1>5, <2>1 DEF Bounded
<1> USE DEF PendingInits, Goto, IInv, TypeOK
<1>6. ASSUME NEW m \in {"configure", "begin", "shutdown"}, Call(t, m)
      PROVE  PendingInits' \subseteq PendingInits /\ made' = made
  BY <1>6 DEF Call
<1>7. CASE Detach(t) \/ CloseOld(t) \/ Drain(t) \/ Unload(t) \/ Reenter(t)
  BY <1>5, <1>7 DEF Detach, CloseOld, Drain, Unload, Reenter
<1>8. CASE CallStep(t)
  BY <1>5, <1>8 DEF CallStep, RejectConfig, ShutdownCall, Begin, Configure, TryStart,
     Current, CallHost, HostReturns, NestedShutdown, Finish, Done
<1> QED BY <1>3, <1>4, <1>5, <1>6, <1>7, <1>8 DEF Arrive, LifecycleStep

\* The types are kept.
LEMMA TypesStep ==
  ASSUME IInv, NEW t \in Threads,
         Arrive(t) \/ Reenter(t) \/ LifecycleStep(t) \/ CallStep(t)
  PROVE  TypeOK'
<1>a. CallStep(t) => AppStep(t) /\ CallFlow(t)
  BY CallStepEffect
<1>b. CloseOld(t) => mine[t] \in Apps /\ app' \in [Apps -> App] /\ Closes(mine[t])
  BY CloseEffect
<1>1. CASE CallStep(t)
  <2>1. pc \in [Threads -> PCs] /\ pc'[t] \in PCs
    BY <1>1, <1>a DEF CallFlow, IInv, TypeOK, Admitted, Checking, PCs
  <2>2. pc' \in [Threads -> PCs]
    BY <1>1, <1>a, <2>1 DEF CallFlow
  <2> QED BY <1>1, <1>a, <2>2 DEF CallFlow, Elsewhere, IInv, TypeOK
<1> USE MaxAppsAssumption, BoundedStep DEF IInv, TypeOK, Goto, PCs, Apps, Admitted, Checking
<1>2. CASE Arrive(t)
  BY <1>2 DEF Arrive, Enter, Call
<1>3. CASE Reenter(t)
  BY <1>3 DEF Reenter
<1>4. CASE LifecycleStep(t)
  <2>1. CASE Detach(t)
    BY <2>1 DEF Detach
  <2>2. CASE CloseOld(t)
    BY <2>2, <1>b DEF CloseOld, Closes, KeepsCalls
  <2>3. CASE Drain(t)
    BY <2>3 DEF Drain
  <2>4. CASE Install(t)
    BY <2>4 DEF Install
  <2>5. CASE Unload(t)
    BY <2>5 DEF Unload
  <2> QED BY <1>4, <2>1, <2>2, <2>3, <2>4, <2>5 DEF LifecycleStep
<1> QED BY <1>1, <1>2, <1>3, <1>4

\* A thread works with an App that was made.
LEMMA NumberedStep ==
  ASSUME IInv, NEW t \in Threads,
         Arrive(t) \/ Reenter(t) \/ LifecycleStep(t) \/ CallStep(t)
  PROVE  Numbered'
<1>a. CallStep(t) => AppStep(t) /\ CallFlow(t)
  BY CallStepEffect
<1>b. CloseOld(t) => mine[t] \in Apps /\ app' \in [Apps -> App] /\ Closes(mine[t])
  BY CloseEffect
<1>2. CASE Arrive(t)
  <2>1. ASSUME NEW o \in {"init", "shutdown"}, Enter(t, o) PROVE Numbered'
    BY <2>1 DEF Enter, Goto, Numbered, WithApp, Admitted, Checking, IInv, TypeOK, PCs
  <2>2. ASSUME NEW m \in {"configure", "begin", "shutdown"}, Call(t, m) PROVE Numbered'
    BY <2>2 DEF Call, Goto, Numbered, WithApp, Admitted, Checking, IInv, TypeOK, PCs
  <2> QED BY <1>2, <2>1, <2>2 DEF Arrive
<1> USE DEF IInv, TypeOK, Goto, PCs, Apps, Numbered, WithApp, Admitted, Checking, Locked, LockPCs
<1>1. CASE CallStep(t)
  BY <1>1, <1>a DEF AppStep, CallFlow, Elsewhere, LockPCs
<1>3. CASE Reenter(t)
  BY <1>3 DEF Reenter
<1>4. CASE LifecycleStep(t)
  <2>1. CASE Detach(t)
    BY <2>1 DEF Detach
  <2>2. CASE CloseOld(t)
    BY <2>2, <1>b DEF CloseOld, Closes, KeepsCalls
  <2>3. CASE Drain(t)
    BY <2>3 DEF Drain
  <2>4. CASE Install(t)
    BY <2>4 DEF Install
  <2>5. CASE Unload(t)
    BY <2>5 DEF Unload
  <2> QED BY <1>4, <2>1, <2>2, <2>3, <2>4, <2>5 DEF LifecycleStep
<1> QED BY <1>1, <1>2, <1>3, <1>4

\* beginManagementCall counts a call before it runs; only wg.Done uncounts it.
LEMMA CountedStep ==
  ASSUME IInv, NEW t \in Threads,
         Arrive(t) \/ Reenter(t) \/ LifecycleStep(t) \/ CallStep(t)
  PROVE  Counted'
<1>a. CallStep(t) => AppStep(t) /\ CallFlow(t)
  BY CallStepEffect
<1>b. CloseOld(t) => mine[t] \in Apps /\ app' \in [Apps -> App] /\ Closes(mine[t])
  BY CloseEffect
<1>1. CASE CallStep(t)
  <2>1. AppStep(t) /\ CallFlow(t) /\ Counted
    BY <1>1, <1>a DEF IInv
  <2>2. /\ pc \in [Threads -> PCs] /\ mine' = mine
        /\ \A u \in Threads \ {t} : pc'[u] = pc[u]
        /\ \A u \in Threads : pc[u] \in Admitted => mine[u] \in Apps
    BY <2>1, MineIsAnApp DEF CallFlow, Elsewhere, IInv, TypeOK, WithApp
  <2>3. pc'[t] \in Admitted => pc'[t] # "idle"
    BY DEF Admitted, Checking
  <2> QED BY <2>1, <2>2, <2>3 DEF AppStep, CallFlow, Counted
<1> USE DEF IInv, TypeOK, Goto, PCs, Apps, Numbered, WithApp, Admitted, Checking, Counted
<1>2. CASE Arrive(t)
  BY <1>2 DEF Arrive, Enter, Call
<1>3. CASE Reenter(t)
  BY <1>3 DEF Reenter
<1>4. CASE LifecycleStep(t)
  <2>1. CASE Detach(t)
    BY <2>1 DEF Detach
  <2>2. CASE CloseOld(t)
    BY <2>2, <1>b DEF CloseOld, Closes, KeepsCalls
  <2>3. CASE Drain(t)
    BY <2>3 DEF Drain
  <2>4. CASE Install(t)
    BY <2>4 DEF Install
  <2>5. CASE Unload(t)
    BY <2>5 DEF Unload
  <2> QED BY <1>4, <2>1, <2>2, <2>3, <2>4, <2>5 DEF LifecycleStep
<1> QED BY <1>1, <1>2, <1>3, <1>4

\* tryStart lets one check of a Handler in.
LEMMA FlagIsHeldStep ==
  ASSUME IInv, NEW t \in Threads,
         Arrive(t) \/ Reenter(t) \/ LifecycleStep(t) \/ CallStep(t)
  PROVE  FlagIsHeld'
<1>a. CallStep(t) => AppStep(t) /\ CallFlow(t)
  BY CallStepEffect
<1>b. CloseOld(t) => mine[t] \in Apps /\ app' \in [Apps -> App] /\ Closes(mine[t])
  BY CloseEffect
<1>1. CASE CallStep(t)
  <2>1. AppStep(t) /\ CallFlow(t) /\ FlagIsHeld
    BY <1>1, <1>a DEF IInv
  <2>2. /\ pc \in [Threads -> PCs] /\ mine' = mine
        /\ \A u \in Threads \ {t} : pc'[u] = pc[u]
        /\ \A u \in Threads : pc[u] \in Checking => mine[u] \in Apps
    BY <2>1, MineIsAnApp DEF CallFlow, Elsewhere, IInv, TypeOK, WithApp, Admitted
  <2>3. pc'[t] = "current" => \A u \in Threads : pc[u] \in Checking => mine[u] # mine[t]
    BY <2>1 DEF AppStep, FlagIsHeld
  <2>4. \A u \in Threads : pc'[u] \in Checking => app'[mine'[u]].running
    BY <2>1, <2>2 DEF AppStep, CallFlow, FlagIsHeld, Checking
  <2>5. \A u, v \in Threads :
          pc'[u] \in Checking /\ pc'[v] \in Checking /\ mine'[u] = mine'[v] => u = v
    BY <2>1, <2>2, <2>3 DEF CallFlow, FlagIsHeld
  <2> QED BY <2>4, <2>5 DEF FlagIsHeld
<1>2. CASE Arrive(t)
  <2>1. ASSUME NEW o \in {"init", "shutdown"}, Enter(t, o) PROVE FlagIsHeld'
    BY <2>1 DEF Enter, Goto, FlagIsHeld, Checking, IInv, TypeOK, PCs
  <2>2. ASSUME NEW m \in {"configure", "begin", "shutdown"}, Call(t, m) PROVE FlagIsHeld'
    BY <2>2 DEF Call, Goto, FlagIsHeld, Checking, IInv, TypeOK, PCs
  <2> QED BY <1>2, <2>1, <2>2 DEF Arrive
<1> USE DEF IInv, TypeOK, Goto, PCs, Apps, Numbered, WithApp, Admitted, Checking, FlagIsHeld
<1>3. CASE Reenter(t)
  BY <1>3 DEF Reenter
<1>4. CASE LifecycleStep(t)
  <2>1. CASE Detach(t)
    BY <2>1 DEF Detach
  <2>2. CASE CloseOld(t)
    BY <2>2, <1>b DEF CloseOld, Closes, KeepsCalls
  <2>3. CASE Drain(t)
    BY <2>3 DEF Drain
  <2>4. CASE Install(t)
    BY <2>4 DEF Install
  <2>5. CASE Unload(t)
    BY <2>5 DEF Unload
  <2> QED BY <1>4, <2>1, <2>2, <2>3, <2>4, <2>5 DEF LifecycleStep
<1> QED BY <1>1, <1>2, <1>3, <1>4

\* A check copies a configuration that was parsed.
LEMMA RealConfigStep ==
  ASSUME IInv, NEW t \in Threads,
         Arrive(t) \/ Reenter(t) \/ LifecycleStep(t) \/ CallStep(t)
  PROVE  RealConfig'
<1>a. CallStep(t) => AppStep(t) /\ CallFlow(t)
  BY CallStepEffect
<1>b. CloseOld(t) => mine[t] \in Apps /\ app' \in [Apps -> App] /\ Closes(mine[t])
  BY CloseEffect
<1> USE ConfigsAssumption DEF IInv, TypeOK, Goto, PCs, Apps, RealConfig, ConfigIsReal, ClosedAppsAreEmpty,
           Admitted, Checking
<1>1. CASE CallStep(t)
  BY <1>1, <1>a DEF AppStep, CallFlow, Elsewhere, LockPCs
<1>2. CASE Arrive(t)
  BY <1>2 DEF Arrive, Enter, Call
<1>3. CASE Reenter(t)
  BY <1>3 DEF Reenter
<1>4. CASE LifecycleStep(t)
  <2>1. CASE Detach(t)
    BY <2>1 DEF Detach
  <2>2. CASE CloseOld(t)
    BY <2>2, <1>b DEF CloseOld, Closes, KeepsCalls
  <2>3. CASE Drain(t)
    BY <2>3 DEF Drain
  <2>4. CASE Install(t)
    BY <2>4 DEF Install
  <2>5. CASE Unload(t)
    BY <2>5 DEF Unload
  <2> QED BY <1>4, <2>1, <2>2, <2>3, <2>4, <2>5 DEF LifecycleStep
<1> QED BY <1>1, <1>2, <1>3, <1>4

\* An App leaves globalApp only into the hands of the thread that drains it.
LEMMA OthersAreRetiredStep ==
  ASSUME IInv, NEW t \in Threads,
         Arrive(t) \/ Reenter(t) \/ LifecycleStep(t) \/ CallStep(t)
  PROVE  OthersAreRetired'
<1>a. CallStep(t) => AppStep(t) /\ CallFlow(t)
  BY CallStepEffect
<1>b. CloseOld(t) => mine[t] \in Apps /\ app' \in [Apps -> App] /\ Closes(mine[t])
  BY CloseEffect
<1>1. CASE CallStep(t)
  <2>1. AppStep(t) /\ CallFlow(t) /\ OthersAreRetired
    BY <1>1, <1>a DEF IInv
  <2>2. /\ mine' = mine /\ made' = made /\ globalApp' = globalApp /\ freed' = freed
        /\ made \in 0..MaxApps /\ MaxApps \in Nat /\ pc \in [Threads -> PCs]
    BY <2>1, MaxAppsAssumption DEF CallFlow, Elsewhere, IInv, TypeOK
  <2>3. \A a \in Apps : Retired(a) => Retired(a)'
    BY <2>1 DEF AppStep, Retired
  <2>4. \A a \in Apps : Draining(a) => Draining(a)'
    BY <2>1, <2>2 DEF AppStep, CallFlow, Draining, LockPCs
  <2>5. 1..made \subseteq Apps
    BY <2>2 DEF Apps
  <2> QED BY <2>1, <2>2, <2>3, <2>4, <2>5 DEF OthersAreRetired
<1>2. CASE Arrive(t)
  <2>1. /\ OthersAreRetired /\ pc \in [Threads -> PCs] /\ mine \in [Threads -> 0..MaxApps]
        /\ app' = app /\ made' = made /\ globalApp' = globalApp /\ freed' = freed
    BY <1>2 DEF IInv, TypeOK, Arrive, Enter, Call
  <2>2. /\ \A u \in Threads \ {t} : pc'[u] = pc[u] /\ mine'[u] = mine[u]
        /\ pc[t] = "idle"
    BY <1>2, <2>1 DEF Arrive, Enter, Call, Goto
  <2>3. \A a : (Retired(a) => Retired(a)') /\ (Draining(a) => Draining(a)')
    BY <2>1, <2>2 DEF Retired, Draining
  <2> QED BY <2>1, <2>3 DEF OthersAreRetired
<1> USE DEF IInv, TypeOK, Goto, PCs, Apps, Numbered, WithApp, Admitted, Checking, OthersAreRetired, Retired, Draining, Locked, LockPCs
<1>3. CASE Reenter(t)
  BY <1>3 DEF Reenter
<1>4. CASE LifecycleStep(t)
  <2>1. CASE Detach(t)
    BY <2>1 DEF Detach
  <2>2. CASE CloseOld(t)
    <3>1. /\ OthersAreRetired /\ pc[t] = "close" /\ pc' = [pc EXCEPT ![t] = "drain"]
          /\ pc \in [Threads -> PCs] /\ mine' = mine /\ made' = made
          /\ globalApp' = globalApp /\ freed' = freed /\ Closes(mine[t])
          /\ made \in 0..MaxApps /\ MaxApps \in Nat
      BY <2>2, <1>b, MaxAppsAssumption DEF CloseOld, Goto, IInv, TypeOK
    <3>2. \A a \in Apps : Retired(a) => Retired(a)'
      BY <3>1 DEF Closes, KeepsCalls, Retired
    <3>3. \A a \in Apps : Draining(a) => Draining(a)'
      BY <3>1 DEF Closes, Draining
    <3>4. 1..made \subseteq Apps
      BY <3>1 DEF Apps
    <3> QED BY <3>1, <3>2, <3>3, <3>4 DEF OthersAreRetired
  <2>3. CASE Drain(t)
    BY <2>3 DEF Drain
  <2>4. CASE Install(t)
    <3>1. /\ OthersAreRetired /\ pc[t] = "return" /\ pc' = [pc EXCEPT ![t] = "idle"]
          /\ pc \in [Threads -> PCs] /\ mine' = mine /\ made' = made + 1
          /\ globalApp' = made + 1 /\ freed' = freed /\ app' = app
      BY <2>4 DEF Install, Goto, IInv, TypeOK
    <3>0. made \in Nat
      BY MaxAppsAssumption DEF IInv, TypeOK
    <3>2. globalApp = 0 /\ \A u \in Threads : pc[u] \in LockPCs => u = t
      BY <3>1, ThreadsAssumption DEF IInv, Locked, LockPCs
    <3>3. \A a \in 1..made : Retired(a)
      BY <3>1, <3>2 DEF OthersAreRetired, Draining, LockPCs
    <3>4. \A a : Retired(a) => Retired(a)'
      BY <3>1 DEF Retired
    <3>5. \A a \in 1..made' : a \in 1..made \/ a = globalApp'
      BY <3>0, <3>1
    <3>6. 1..made \subseteq 1..made'
      BY <3>0, <3>1
    <3> QED BY <3>1, <3>3, <3>4, <3>5, <3>6 DEF OthersAreRetired
  <2>5. CASE Unload(t)
    <3>1. /\ OthersAreRetired /\ pc[t] = "return" /\ made' = made
          /\ freed' = 1..made /\ app' = app
      BY <2>5 DEF Unload, Goto, IInv
    <3>2. globalApp = 0 /\ \A u \in Threads : pc[u] \in LockPCs => u = t
      BY <3>1, ThreadsAssumption DEF IInv, Locked, LockPCs
    <3>3. \A a \in 1..made : Retired(a)
      BY <3>1, <3>2 DEF OthersAreRetired, Draining, LockPCs
    <3>4. \A a : Retired(a) => Retired(a)'
      BY <3>1 DEF Retired
    <3> QED BY <3>1, <3>3, <3>4 DEF OthersAreRetired
  <2> QED BY <1>4, <2>1, <2>2, <2>3, <2>4, <2>5 DEF LifecycleStep
<1> QED BY <1>1, <1>2, <1>3, <1>4

\* The invariant holds at the start and is kept by every step.
LEMMA IInvHolds == Spec => []IInv
<1>1. Init => IInv
  <2> SUFFICES ASSUME Init PROVE IInv
    OBVIOUS
  <2>1. TypeOK /\ Locked /\ Numbered /\ Counted /\ FlagIsHeld /\ RealConfig
    BY MaxAppsAssumption, ThreadsAssumption DEF Init, TypeOK, Locked, LockPCs, Numbered,
       WithApp, Admitted, Checking, Counted, FlagIsHeld, RealConfig, ConfigIsReal, ClosedAppsAreEmpty, NewApp,
       App, PCs, Apps
  <2>2. PendingInits = {}
    BY DEF Init, PendingInits
  <2>3. Bounded
    BY <2>2, MaxAppsAssumption, FS_EmptySet DEF Init, Bounded
  <2>4. OthersAreRetired
    BY DEF Init, OthersAreRetired
  <2> QED BY <2>1, <2>3, <2>4 DEF IInv
<1>2. IInv /\ [Next]_vars => IInv'
  <2> SUFFICES ASSUME IInv, [Next]_vars PROVE IInv'
    OBVIOUS
  <2>1. CASE UNCHANGED vars
    BY <2>1 DEF vars, IInv, TypeOK, Bounded, PendingInits, Locked, Numbered, Counted,
       FlagIsHeld, OthersAreRetired, Retired, Draining, RealConfig, ConfigIsReal, ClosedAppsAreEmpty
  <2>2. ASSUME NEW t \in Threads,
               Arrive(t) \/ Reenter(t) \/ LifecycleStep(t) \/ CallStep(t)
        PROVE  IInv'
    BY <2>2, TypesStep, BoundedStep, LockedStep, NumberedStep, CountedStep, FlagIsHeldStep,
       OthersAreRetiredStep, RealConfigStep DEF IInv
  <2> QED BY <2>1, <2>2 DEF Next
<1> QED BY <1>1, <1>2, PTL DEF Spec

\* Types of all variables.
THEOREM TypesHold == Spec => []TypeOK
<1>1. IInv => TypeOK
  BY DEF IInv
<1> QED BY <1>1, IInvHolds, PTL

\* A check never works with the configuration of a closed App: what Current
\* copies was parsed.
THEOREM ChecksHaveAConfig == Spec => []ConfigIsReal
<1>1. IInv => ConfigIsReal
  BY DEF IInv, RealConfig
<1> QED BY <1>1, IInvHolds, PTL

\* With calls counted and only one App not retired, two checks are of one App,
\* whose flag one of them holds: one check per process, for any number of
\* threads, calls, registrations and shutdowns.
THEOREM OneCheckInTheProcess == Spec => []OneCheckPerProcess
<1>1. IInv => OneCheckPerProcess
  <2> SUFFICES ASSUME IInv, NEW t \in Threads, NEW u \in Threads,
                      pc[t] \in Checking, pc[u] \in Checking
               PROVE  t = u
    BY DEF OneCheckPerProcess
  <2> DEFINE Live(a) == a = globalApp \/ Draining(a)
  <2>1. \A s \in {t, u} : mine[s] \in 1..made /\ app[mine[s]].wg # {}
    BY MaxAppsAssumption DEF IInv, TypeOK, Numbered, Counted, WithApp, Admitted
  <2>2. \A s \in {t, u} : Live(mine[s])
    BY <2>1 DEF IInv, OthersAreRetired, Retired
  <2>3. \A a, b \in 1..made : Live(a) /\ Live(b) => a = b
    BY ThreadsAssumption DEF IInv, Locked, LockPCs, Draining
  <2>4. mine[t] = mine[u]
    BY <2>1, <2>2, <2>3
  <2> QED BY <2>4 DEF IInv, FlagIsHeld
<1> QED BY <1>1, IInvHolds, PTL

\* When shutdown returned, every App made so far is retired, so no call of one
\* can be inside a host callback, and none can get there later.
THEOREM NoCallbackOnceShutDown == Spec => []NoCallbackAfterShutdown
<1>1. IInv => NoCallbackAfterShutdown
  BY DEF IInv, NoCallbackAfterShutdown, Counted, Admitted, Checking, OthersAreRetired,
     Retired
<1> QED BY <1>1, IInvHolds, PTL

\* Close leaves an App without a configuration, and no call that was under way
\* gives it one again.
THEOREM ClosedStayEmpty == Spec => []ClosedAppsAreEmpty
<1>1. IInv => ClosedAppsAreEmpty
  BY DEF IInv, RealConfig
<1> QED BY <1>1, IInvHolds, PTL

\* A check has a host to call and a configuration, for any number of threads.
THEOREM ChecksStaySound == Spec => []ChecksAreSound
  BY TypesHold, NoCallbackOnceShutDown, ChecksHaveAConfig, ClosedStayEmpty, PTL
     DEF ChecksAreSound

=============================================================================
