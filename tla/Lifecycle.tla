------------------------------ MODULE Lifecycle ------------------------------
(***************************************************************************)
(* Init, call and shutdown of the native plugin (cmd/plugin/main_linux.go) *)
(* and the App behind them (internal/pluginapp/app.go).  Each App has a    *)
(* Handler with a `running' flag of its own, so one check at a time per    *)
(* process, which CheckHandler takes for granted, rests on what is here:   *)
(* an App is drained before the next one is installed.                     *)
(*                                                                         *)
(* Nothing is assumed of the order in which the host's threads call.  A    *)
(* check makes any number of host callbacks, and an unofficial host may    *)
(* call plugin.shutdown from inside one.                                   *)
(***************************************************************************)
EXTENDS Naturals, FiniteSets

CONSTANTS
  Threads,      \* threads of the host that call into the plugin
  NoThread,     \* nobody holds lifecycleMu
  Configs,      \* configurations plugin.register and plugin.reconfigure bring
  ZeroConfig,   \* config.Config{}, which no parse returns
  MaxApps       \* bound on the number of Apps created

ASSUME ThreadsAssumption == NoThread \notin Threads /\ IsFiniteSet(Threads)
ASSUME ConfigsAssumption == ZeroConfig \notin Configs
ASSUME MaxAppsAssumption == MaxApps \in Nat

VARIABLES
  globalApp,    \* the installed App, 0 for nil
  lifecycleMu,  \* the thread that holds the mutex
  made,         \* Apps created so far are numbered 1 to made
  app,          \* the fields of each App, and its Handler's running
  pc,           \* what each thread is about to do
  op,           \* the entry point a thread was called through
  mine,         \* the App a thread got from globalApp
  cfg,          \* the configuration a check works with
  freed         \* Apps whose host context the host has freed

vars == <<globalApp, lifecycleMu, made, app, pc, op, mine, cfg, freed>>

Apps == 1..MaxApps

PCs == {"idle", "detach", "close", "drain", "return",
        "configure", "begin", "shutdown",
        "admitted", "current", "work", "host", "nested", "finish", "leave"}

\* The pcs of a thread inside Handler.check, after a successful tryStart.
Checking == {"current", "work", "host", "nested", "finish"}

\* wg is the set of the calls that the wait group counts.
App == [closed:     BOOLEAN,
        configured: BOOLEAN,
        current:    Configs \union {ZeroConfig},
        running:    BOOLEAN,
        wg:         SUBSET Threads]

NewApp == [closed     |-> FALSE,
           configured |-> FALSE,
           current    |-> ZeroConfig,
           running    |-> FALSE,
           wg         |-> {}]

Init ==
  /\ globalApp   = 0
  /\ lifecycleMu = NoThread
  /\ made        = 0
  /\ app         = [a \in Apps |-> NewApp]
  /\ pc          = [t \in Threads |-> "idle"]
  /\ op          = [t \in Threads |-> "none"]
  /\ mine        = [t \in Threads |-> 0]
  /\ cfg         = [t \in Threads |-> ZeroConfig]
  /\ freed       = {}

Goto(t, from, to) == pc[t] = from /\ pc' = [pc EXCEPT ![t] = to]

\* Close: also cancels the context, which is cancelled exactly when closed.
Closed(a) == [a EXCEPT !.closed     = TRUE,
                       !.configured = FALSE,
                       !.current    = ZeroConfig]

-----------------------------------------------------------------------------
(* cliproxy_plugin_init and cliproxyPluginShutdown.                        *)

PendingInits == {t \in Threads : pc[t] # "idle" /\ op[t] = "init"}

\* The host calls one of the two.
Enter(t, o) ==
  /\ Goto(t, "idle", "detach")
  /\ o = "init" => made + Cardinality(PendingInits) < MaxApps
  /\ op' = [op EXCEPT ![t] = o]
  /\ UNCHANGED <<globalApp, lifecycleMu, made, app, mine, cfg, freed>>

\* Lock lifecycleMu, then take the App out of globalApp.
Detach(t) ==
  /\ lifecycleMu = NoThread
  /\ Goto(t, "detach", IF globalApp = 0 THEN "return" ELSE "close")
  /\ lifecycleMu' = t
  /\ mine'        = [mine EXCEPT ![t] = globalApp]
  /\ globalApp'   = 0
  /\ UNCHANGED <<made, app, op, cfg, freed>>

\* ShutdownAndWait, first half.
CloseOld(t) ==
  /\ Goto(t, "close", "drain")
  /\ app' = [app EXCEPT ![mine[t]] = Closed(@)]
  /\ UNCHANGED <<globalApp, lifecycleMu, made, op, mine, cfg, freed>>

\* Variant of Drain: closes the old App without waiting for its calls.
DrainAtOnce(t) ==
  /\ Goto(t, "drain", "return")
  /\ UNCHANGED <<globalApp, lifecycleMu, made, app, op, mine, cfg, freed>>

\* ShutdownAndWait, second half.
Drain(t) ==
  /\ Goto(t, "drain", "return")
  /\ app[mine[t]].wg = {}
  /\ UNCHANGED <<globalApp, lifecycleMu, made, app, op, mine, cfg, freed>>

\* The new App is installed and init returns.
Install(t) ==
  /\ op[t] = "init"
  /\ Goto(t, "return", "idle")
  /\ made'        = made + 1
  /\ globalApp'   = made + 1
  /\ lifecycleMu' = NoThread
  /\ UNCHANGED <<app, op, mine, cfg, freed>>

\* Shutdown returns, whereupon the host frees its contexts and unloads.
Unload(t) ==
  /\ op[t] = "shutdown"
  /\ Goto(t, "return", "idle")
  /\ lifecycleMu' = NoThread
  /\ freed'       = 1..made
  /\ UNCHANGED <<globalApp, made, app, op, mine, cfg>>

-----------------------------------------------------------------------------
(* cliproxyPluginCall and App.Call.                                        *)

\* currentApp; the method decides the rest.  Without an App, or with a method
\* that is unknown or malformed, the call is answered without an effect.
Call(t, method) ==
  /\ globalApp # 0
  /\ Goto(t, "idle", method)
  /\ op'   = [op   EXCEPT ![t] = "call"]
  /\ mine' = [mine EXCEPT ![t] = globalApp]
  /\ UNCHANGED <<globalApp, lifecycleMu, made, app, cfg, freed>>

\* Variant of Configure: does not look at closed again after the parsing.
ConfigureClosed(t, c) ==
  /\ Goto(t, "configure", "idle")
  /\ app' = [app EXCEPT ![mine[t]].current = c, ![mine[t]].configured = TRUE]
  /\ UNCHANGED <<globalApp, lifecycleMu, made, op, mine, cfg, freed>>

\* configure: the parsed configuration is stored unless the App was closed
\* in the meantime.
Configure(t, c) ==
  /\ Goto(t, "configure", "idle")
  /\ app' = IF app[mine[t]].closed
            THEN app
            ELSE [app EXCEPT ![mine[t]].current = c, ![mine[t]].configured = TRUE]
  /\ UNCHANGED <<globalApp, lifecycleMu, made, op, mine, cfg, freed>>

\* configure with a request or a configuration that does not parse.
RejectConfig(t) ==
  /\ Goto(t, "configure", "idle")
  /\ UNCHANGED <<globalApp, lifecycleMu, made, app, op, mine, cfg, freed>>

\* Method plugin.shutdown: Close without waiting.
ShutdownCall(t) ==
  /\ Goto(t, "shutdown", "idle")
  /\ app' = [app EXCEPT ![mine[t]] = Closed(@)]
  /\ UNCHANGED <<globalApp, lifecycleMu, made, op, mine, cfg, freed>>

\* beginManagementCall: the admission and wg.Add in one critical section.
Begin(t) ==
  /\ pc[t] = "begin"
  /\ IF app[mine[t]].closed \/ ~app[mine[t]].configured
     THEN Goto(t, "begin", "idle") /\ UNCHANGED app
     ELSE /\ Goto(t, "begin", "admitted")
          /\ app' = [app EXCEPT ![mine[t]].wg = @ \union {t}]
  /\ UNCHANGED <<globalApp, lifecycleMu, made, op, mine, cfg, freed>>

\* tryStart of a check; a second check of the same App is refused.
TryStart(t) ==
  /\ pc[t] = "admitted"
  /\ IF app[mine[t]].running
     THEN Goto(t, "admitted", "leave") /\ UNCHANGED app
     ELSE /\ Goto(t, "admitted", "current")
          /\ app' = [app EXCEPT ![mine[t]].running = TRUE]
  /\ UNCHANGED <<globalApp, lifecycleMu, made, op, mine, cfg, freed>>

\* Variant of Current: copies the configuration without looking at the flags.
CurrentUnchecked(t) ==
  /\ Goto(t, "current", "work")
  /\ cfg' = [cfg EXCEPT ![t] = app[mine[t]].current]
  /\ UNCHANGED <<globalApp, lifecycleMu, made, app, op, mine, freed>>

\* ConfigProvider.Current: not_configured once the App is closed.
Current(t) ==
  /\ pc[t] = "current"
  /\ IF app[mine[t]].closed \/ ~app[mine[t]].configured
     THEN Goto(t, "current", "finish") /\ UNCHANGED cfg
     ELSE /\ Goto(t, "current", "work")
          /\ cfg' = [cfg EXCEPT ![t] = app[mine[t]].current]
  /\ UNCHANGED <<globalApp, lifecycleMu, made, app, op, mine, freed>>

\* nativeHostCaller.Call: nothing is asked of the host after Close.
CallHost(t) ==
  /\ Goto(t, "work", "host")
  /\ ~app[mine[t]].closed
  /\ UNCHANGED <<globalApp, lifecycleMu, made, app, op, mine, cfg, freed>>

HostReturns(t) ==
  /\ Goto(t, "host", "work")
  /\ UNCHANGED <<globalApp, lifecycleMu, made, app, op, mine, cfg, freed>>

\* The host calls plugin.shutdown before it answers the callback.  With the
\* App already detached that call is answered without an effect.
Reenter(t) ==
  /\ Goto(t, "host", "nested")
  /\ globalApp = mine[t]
  /\ UNCHANGED <<globalApp, lifecycleMu, made, app, op, mine, cfg, freed>>

\* Variant of NestedShutdown: plugin.shutdown waits for the calls in progress.
NestedShutdownWaits(t) ==
  /\ pc[t] = "nested"
  /\ IF app[mine[t]].wg = {}
     THEN /\ Goto(t, "nested", "host")
          /\ app' = [app EXCEPT ![mine[t]] = Closed(@)]
          /\ UNCHANGED <<globalApp, lifecycleMu, made, op, mine, cfg, freed>>
     ELSE UNCHANGED vars

\* plugin.shutdown from inside a callback.
NestedShutdown(t) ==
  /\ Goto(t, "nested", "host")
  /\ app' = [app EXCEPT ![mine[t]] = Closed(@)]
  /\ UNCHANGED <<globalApp, lifecycleMu, made, op, mine, cfg, freed>>

\* The check returns, and with it the deferred finish.
Finish(t) ==
  /\ \/ Goto(t, "work", "leave")
     \/ Goto(t, "finish", "leave")
  /\ app' = [app EXCEPT ![mine[t]].running = FALSE]
  /\ UNCHANGED <<globalApp, lifecycleMu, made, op, mine, cfg, freed>>

\* The deferred wg.Done.
Done(t) ==
  /\ Goto(t, "leave", "idle")
  /\ app' = [app EXCEPT ![mine[t]].wg = @ \ {t}]
  /\ UNCHANGED <<globalApp, lifecycleMu, made, op, mine, cfg, freed>>

-----------------------------------------------------------------------------

Arrive(t) ==
  \/ \E o \in {"init", "shutdown"} : Enter(t, o)
  \/ \E m \in {"configure", "begin", "shutdown"} : Call(t, m)

LifecycleStep(t) ==
  Detach(t) \/ CloseOld(t) \/ Drain(t) \/ Install(t) \/ Unload(t)

CallStep(t) ==
  \/ RejectConfig(t) \/ ShutdownCall(t) \/ Begin(t)
  \/ \E c \in Configs : Configure(t, c)
  \/ TryStart(t) \/ Current(t) \/ CallHost(t) \/ HostReturns(t)
  \/ NestedShutdown(t) \/ Finish(t) \/ Done(t)

Next == \E t \in Threads :
  Arrive(t) \/ Reenter(t) \/ LifecycleStep(t) \/ CallStep(t)

Spec == Init /\ [][Next]_vars

\* A thread runs on and Go's mutexes do not starve a waiter.  The host answers
\* each callback, whatever it calls first.  Nothing makes a check end of its
\* own accord.
Fairness == \A t \in Threads :
  /\ WF_vars(LifecycleStep(t))
  /\ SF_vars(Detach(t))
  /\ SF_vars(HostReturns(t))
  /\ WF_vars(CallStep(t))

FairSpec == Spec /\ Fairness

-----------------------------------------------------------------------------
(* Properties.                                                             *)

\* Types of all variables.
TypeOK ==
  /\ globalApp \in 0..MaxApps
  /\ lifecycleMu \in Threads \union {NoThread}
  /\ made \in 0..MaxApps
  /\ app \in [Apps -> App]
  /\ pc \in [Threads -> PCs]
  /\ op \in [Threads -> {"none", "init", "shutdown", "call"}]
  /\ mine \in [Threads -> 0..MaxApps]
  /\ cfg \in [Threads -> Configs \union {ZeroConfig}]
  /\ freed \in SUBSET Apps

\* At most one check runs in the process, whichever App it belongs to: the
\* flag of a Handler says nothing of the checks of another App's Handler.
OneCheckPerProcess ==
  \A t, u \in Threads : pc[t] \in Checking /\ pc[u] \in Checking => t = u

\* No management call is inside a host callback whose context the host freed
\* after cliproxyPluginShutdown returned, however late the call arrived.
NoCallbackAfterShutdown ==
  \A t \in Threads : pc[t] \in {"host", "nested"} => mine[t] \notin freed

\* A check never works with the zero Config that Close leaves behind, which
\* has no channel and an empty state path.
ConfigIsReal ==
  \A t \in Threads : pc[t] \in {"work", "host", "nested"} => cfg[t] # ZeroConfig

\* "app remained configured after reentrant shutdown" is an error of the test:
\* a configuration that was being parsed while another thread closed the App
\* is not given to it afterwards (app.go:212).
ClosedAppsAreEmpty ==
  \A a \in Apps :
    app[a].closed => ~app[a].configured /\ app[a].current = ZeroConfig

\* No check goes on without what its App has given it, the host context of
\* its callbacks and a configuration, and Close takes these away for good.
ChecksAreSound ==
  TypeOK /\ NoCallbackAfterShutdown /\ ConfigIsReal /\ ClosedAppsAreEmpty

\* Init and shutdown return although nothing but the cancelled context makes
\* a check stop asking the host.
LifecycleEnds ==
  \A t \in Threads :
    pc[t] \in {"detach", "close", "drain", "return"} ~> pc[t] = "idle"

\* A call of a closed App returns, also when Close was called from inside it.
ClosedCallsEnd ==
  \A t \in Threads :
    (mine[t] # 0 /\ pc[t] \in Checking /\ app[mine[t]].closed) ~> pc[t] = "idle"

\* Closing comes to its end, for who closes and for who is closed.
CloseEnds == LifecycleEnds /\ ClosedCallsEnd

=============================================================================
