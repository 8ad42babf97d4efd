----------------------------- MODULE QuotaChecker ----------------------------
(***************************************************************************)
(* One round of account queries: Service.Check of internal/codexquota with *)
(* its dispatcher, its workers, retries and cancellation, and the host     *)
(* client of internal/abi below it.  The check cannot interrupt a callback *)
(* of the host: it sees a timeout or a cancellation when that returns.     *)
(***************************************************************************)
EXTENDS Integers, Sequences, FiniteSets

CONSTANTS
  MaxEntries,   \* bound on the entries of a list
  Lists,        \* what host.auth.list may return: sequences of kinds of entry
  Replies,      \* the envelopes host.http.do may return
  Concurrency,  \* config: the most workers
  RetryAttempts \* config: retries after a transient failure

ASSUME ConcurrencyAssumption == Concurrency \in Nat \ {0}
ASSUME RetryAssumption == RetryAttempts \in Nat

\* An entry that is "disabled" or of another "provider" is not queried.
Kinds == {"disabled", "provider", "no_index", "runtime_only", "codex"}

ASSUME ListsAssumption ==
  /\ MaxEntries \in Nat
  /\ Lists \subseteq {list \in Seq(Kinds) : Len(list) <= MaxEntries}

-----------------------------------------------------------------------------
(* internal/abi: what a call makes of the host's reply.                    *)

\* A status field of the result: not there, not a status, or a status.
Absent == "absent"
Invalid == "invalid"
Statuses == {"200", "404", "503"}

\* Both spellings of the field are read; they must not contradict.
StatusCode(StatusCodeField, status_code) ==
  IF Invalid \in {StatusCodeField, status_code}
  THEN Invalid
  ELSE LET given == {StatusCodeField, status_code} \ {Absent} IN
       IF Cardinality(given) = 1 THEN CHOOSE s \in given : TRUE ELSE Invalid

Fields == Statuses \union {Absent, Invalid}

Envelopes ==
       [kind : {"refused", "garbage", "error", "retryable", "null"}]
  \union [kind : {"result"}, StatusCodeField : Fields, status_code : Fields,
          terminal : BOOLEAN]

ASSUME RepliesAssumption == Replies \subseteq Envelopes

\* Client.call, HTTPDo and classifyHTTPError: the error, or "" for a response.
CallError(r) ==
  CASE r.kind = "refused"            -> "host_http_error"
    [] r.kind \in {"garbage", "null"} -> "host_invalid_envelope"
    [] r.kind = "error"              -> "host_callback"
    [] r.kind = "retryable"          -> "host_callback_retryable"
    [] r.kind = "result"             ->
         IF StatusCode(r.StatusCodeField, r.status_code) = Invalid
         THEN "host_invalid_result" ELSE ""

\* A failure worth another attempt: the host says so, or the server is at fault.
Transient(r) ==
  \/ r.kind = "retryable"
  \/ CallError(r) = "" /\ StatusCode(r.StatusCodeField, r.status_code) = "503"

\* responseErrorCode: a terminal code of the body counts before the status.
ErrorCode(r) ==
  IF CallError(r) # "" THEN CallError(r)
  ELSE IF r.terminal THEN "terminal"
  ELSE IF StatusCode(r.StatusCodeField, r.status_code) = "503"
       THEN "http_503" ELSE "http_404"

Succeeds(r) ==
  CallError(r) = "" /\ StatusCode(r.StatusCodeField, r.status_code) = "200"

-----------------------------------------------------------------------------

VARIABLES
  pc,         \* what Service.Check is doing
  cancelled,  \* the context of the check
  kind,       \* the kinds of the selected entries, by their place in the list
  todo,       \* selected entries the dispatcher has not handed over
  worker,     \* per goroutine: where it is, its job and its attempt
  results,    \* per selected entry, what a worker wrote
  out,        \* the result of Check: the entries that have an observation
  requests    \* per selected entry, requests sent to the quota URL (history)

vars == <<pc, cancelled, kind, todo, worker, results, out, requests>>

Workers == 1..Concurrency

\* An observation for an account whose plan is ignored is empty, as is the
\* slot nobody wrote; Check keeps neither.
NotWritten == "not_written"
Failures ==
  {"missing_auth_index", "runtime_auth_unreadable", "auth_get_error",
   "credential_invalid", "request_timeout", "request_canceled", "terminal",
   "http_404", "http_503", "host_http_error", "host_invalid_envelope",
   "host_callback", "host_callback_retryable", "host_invalid_result"}
Answers == Failures \union {"observed", "ignored_plan"}

\* "none" before a goroutine is started, "exited" after it returned.
Idle == [at |-> "none", job |-> 0, attempt |-> 0]

Selected == DOMAIN kind

Init ==
  /\ pc        = "list"
  /\ cancelled \in BOOLEAN
  /\ kind      = << >>
  /\ todo      = {}
  /\ worker    = [w \in Workers |-> Idle]
  /\ results   = << >>
  /\ out       = {}
  /\ requests  = << >>

Cancel ==
  /\ ~cancelled
  /\ cancelled' = TRUE
  /\ UNCHANGED <<pc, kind, todo, worker, results, out, requests>>

-----------------------------------------------------------------------------
(* Service.Check: listing and dispatch.                                    *)

\* nativeHostCaller refuses a call once the context is cancelled.
CallList ==
  /\ pc  = "list"
  /\ pc' = IF cancelled THEN "done" ELSE "listing"
  /\ UNCHANGED <<cancelled, kind, todo, worker, results, out, requests>>

ListFails ==
  /\ pc  = "listing"
  /\ pc' = "done"
  /\ UNCHANGED <<cancelled, kind, todo, worker, results, out, requests>>

\* selectCodex
Chosen(entries) ==
  {i \in DOMAIN entries : entries[i] \notin {"disabled", "provider"}}

\* The selected entries, and as many goroutines as there is work for.
ListReturns(entries) ==
  /\ pc = "listing"
  /\ ~cancelled
  /\ LET chosen == Chosen(entries) IN
     /\ pc'       = IF chosen = {} THEN "done" ELSE "dispatch"
     /\ kind'     = [i \in chosen |-> entries[i]]
     /\ todo'     = chosen
     /\ results'  = [i \in chosen |-> NotWritten]
     /\ requests' = [i \in chosen |-> 0]
     /\ worker'   = [w \in Workers |->
                        IF w <= Cardinality(chosen) THEN [Idle EXCEPT !.at = "ready"] ELSE Idle]
  /\ UNCHANGED <<cancelled, out>>

\* Variant of Offer: an entry for which no worker is ready is passed over.
OfferOrSkip ==
  /\ pc = "dispatch"
  /\ IF cancelled \/ todo = {}
     THEN pc' = "wait" /\ UNCHANGED todo
     ELSE IF \E w \in Workers : worker[w].at = "ready"
     THEN pc' = "offer" /\ UNCHANGED todo
     ELSE \E i \in todo : todo' = todo \ {i} /\ UNCHANGED pc
  /\ UNCHANGED <<cancelled, kind, worker, results, out, requests>>

\* Variant of Offer: with every entry offered the loop starts over.
OfferOnAndOn ==
  /\ pc = "dispatch"
  /\ IF cancelled THEN pc' = "wait"
     ELSE pc' = IF todo = {} THEN "dispatch" ELSE "offer"
  /\ UNCHANGED <<cancelled, kind, todo, worker, results, out, requests>>

\* The dispatcher looks at the context before it offers the next job.
Offer ==
  /\ pc  = "dispatch"
  /\ pc' = IF cancelled \/ todo = {} THEN "wait" ELSE "offer"
  /\ UNCHANGED <<cancelled, kind, todo, worker, results, out, requests>>

\* The channel has no buffer: the send and a ready worker's receive are one step.
HandOver(w) ==
  /\ pc = "offer"
  /\ worker[w].at = "ready"
  /\ \E i \in todo :
       /\ \A j \in todo : i <= j
       /\ worker' = [worker EXCEPT ![w] = [at |-> "start", job |-> i, attempt |-> 0]]
       /\ todo'   = todo \ {i}
  /\ pc' = "dispatch"
  /\ UNCHANGED <<cancelled, kind, results, out, requests>>

\* The channel is closed, so a worker's range loop ends.
WorkerExits(w) ==
  /\ pc = "wait"
  /\ worker[w].at = "ready"
  /\ worker' = [worker EXCEPT ![w].at = "exited"]
  /\ UNCHANGED <<pc, cancelled, kind, todo, results, out, requests>>

\* wg.Wait, then the results in the order of the entries.
Collect ==
  /\ pc = "wait"
  /\ \A w \in Workers : worker[w].at \in {"none", "exited"}
  /\ pc'  = "done"
  /\ out' = {i \in Selected : results[i] \notin {NotWritten, "ignored_plan"}}
  /\ UNCHANGED <<cancelled, kind, todo, worker, results, requests>>

\* Check has returned.
Returned == pc = "done" /\ UNCHANGED vars

-----------------------------------------------------------------------------
(* checkOne and fetchQuota, run by a worker.                               *)

Goto(w, from, to) ==
  /\ worker[w].at = from
  /\ worker' = [worker EXCEPT ![w].at = to]

\* The worker stores its result and goes for the next job.
Write(w, answer) ==
  /\ results' = [results EXCEPT ![worker[w].job] = answer]
  /\ worker'  = [worker EXCEPT ![w] = [Idle EXCEPT !.at = "ready"]]

\* Up to the call of host.auth.get.
CheckOne(w) ==
  /\ worker[w].at = "start"
  /\ LET k == kind[worker[w].job] IN
     \/ k = "no_index"     /\ Write(w, "missing_auth_index")
     \/ k = "runtime_only" /\ Write(w, "runtime_auth_unreadable")
     \/ k = "codex" /\ cancelled  /\ Write(w, "auth_get_error")
     \/ k = "codex" /\ ~cancelled /\ Goto(w, "start", "getting") /\ UNCHANGED results
  /\ UNCHANGED <<pc, cancelled, kind, todo, out, requests>>

\* The credential, an unreadable one, or an error, which a cancelled context is.
GetAuthReturns(w) ==
  /\ worker[w].at = "getting"
  /\ \/ Write(w, "auth_get_error")
     \/ ~cancelled /\ Write(w, "credential_invalid")
     \/ ~cancelled /\ Goto(w, "getting", "fetch") /\ UNCHANGED results
  /\ UNCHANGED <<pc, cancelled, kind, todo, out, requests>>

\* Variant of Fetch: the context is not looked at before the request.
FetchRegardless(w) ==
  /\ Goto(w, "fetch", "fetching")
  /\ requests' = [requests EXCEPT ![worker[w].job] = @ + 1]
  /\ UNCHANGED <<pc, cancelled, kind, todo, results, out>>

\* HTTPDo up to the host.
Fetch(w) ==
  /\ worker[w].at = "fetch"
  /\ IF cancelled
     THEN Write(w, "request_canceled") /\ UNCHANGED requests
     ELSE /\ Goto(w, "fetch", "fetching")
          /\ requests' = [requests EXCEPT ![worker[w].job] = @ + 1]
          /\ UNCHANGED results
  /\ UNCHANGED <<pc, cancelled, kind, todo, out>>

\* Variant of FetchReturnsLate: every context error counts as a cancellation.
FetchReturnsLateCanceled(w) ==
  /\ worker[w].at = "fetching"
  /\ Write(w, "request_canceled")
  /\ UNCHANGED <<pc, cancelled, kind, todo, out, requests>>

\* The callback returns after the deadline or after the check was cancelled.
FetchReturnsLate(w) ==
  /\ worker[w].at = "fetching"
  /\ \/ Write(w, "request_timeout")
     \/ cancelled /\ Write(w, "request_canceled")
  /\ UNCHANGED <<pc, cancelled, kind, todo, out, requests>>

\* attempt+1 < attempts
MayRetry(attempt) == attempt + 1 < RetryAttempts + 1

\* The callback returns in time, with reply r.
FetchReturns(w, r) ==
  /\ worker[w].at = "fetching"
  /\ ~cancelled
  /\ IF Succeeds(r)
     THEN \E answer \in {"observed", "ignored_plan"} : Write(w, answer)
     ELSE IF Transient(r) /\ MayRetry(worker[w].attempt)
     THEN /\ worker' = [worker EXCEPT ![w].at = "sleep", ![w].attempt = @ + 1]
          /\ UNCHANGED results
     ELSE Write(w, ErrorCode(r))
  /\ UNCHANGED <<pc, cancelled, kind, todo, out, requests>>

\* The pause ends by itself or by cancellation; its error is not looked at.
Wake(w) ==
  /\ Goto(w, "sleep", "fetch")
  /\ UNCHANGED <<pc, cancelled, kind, todo, results, out, requests>>

-----------------------------------------------------------------------------

Dispatcher ==
  \/ CallList \/ ListFails \/ Offer \/ Collect
  \/ \E entries \in Lists : ListReturns(entries)

WorkerStep(w) ==
  \/ HandOver(w) \/ WorkerExits(w) \/ CheckOne(w) \/ GetAuthReturns(w)
  \/ Fetch(w) \/ FetchReturnsLate(w) \/ Wake(w)
  \/ \E r \in Replies : FetchReturns(w, r)

Next == Cancel \/ Dispatcher \/ Returned \/ \E w \in Workers : WorkerStep(w)

Spec == Init /\ [][Next]_vars

\* Goroutines are scheduled and the host answers each callback in the end;
\* nothing has to cancel the check.
Fairness == WF_vars(Dispatcher) /\ \A w \in Workers : WF_vars(WorkerStep(w))

FairSpec == Spec /\ Fairness

-----------------------------------------------------------------------------
(* Properties.                                                             *)

Positions == {"none", "ready", "start", "getting", "fetch", "fetching", "sleep", "exited"}
Busy      == {"start", "getting", "fetch", "fetching", "sleep"}

\* Types of all variables.
TypeOK ==
  /\ pc \in {"list", "listing", "dispatch", "offer", "wait", "done"}
  /\ cancelled \in BOOLEAN
  /\ kind \in [Selected -> {"no_index", "runtime_only", "codex"}]
  /\ Selected \subseteq 1..MaxEntries
  /\ todo \subseteq Selected
  /\ worker \in [Workers -> [at : Positions, job : 0..MaxEntries, attempt : 0..RetryAttempts]]
  /\ results \in [Selected -> Answers \union {NotWritten}]
  /\ out \subseteq Selected
  /\ requests \in [Selected -> 0..RetryAttempts + 1]

\* No two goroutines work on one account, and none on one already answered:
\* the results are shared without a lock.
OneWorkerPerAccount ==
  /\ \A v, w \in Workers :
       worker[v].at \in Busy /\ worker[w].at \in Busy /\ worker[v].job = worker[w].job
         => v = w
  /\ \A w \in Workers : worker[w].at \in Busy => results[worker[w].job] = NotWritten

\* When Check returns, no goroutine is left that could still write, and each
\* account has its answer, unless the context says that the check was cancelled.
RoundIsComplete ==
  pc = "done" =>
    /\ \A w \in Workers : worker[w].at \in {"none", "exited"}
    /\ cancelled \/ \A i \in Selected : results[i] # NotWritten

\* An observation that tells of the cancellation and not of the account is
\* only in the result of a cancelled check.
CancelledIsVisible ==
  \A i \in Selected : results[i] = "request_canceled" => cancelled

\* A transient failure is reported only after every attempt that the
\* configuration allows was made, and no answer takes more attempts than that.
TransientIsRetried ==
  \A i \in Selected :
    /\ results[i] \in {"http_503", "host_callback_retryable"} =>
         requests[i] = RetryAttempts + 1
    /\ requests[i] <= RetryAttempts + 1

\* Each result is one worker's, of its account, and after all its attempts.
ResultsAreSound ==
  TypeOK /\ OneWorkerPerAccount /\ RoundIsComplete /\ CancelledIsVisible /\ TransientIsRetried

\* Once the check is cancelled, nothing more is asked of the host.
NoCallOnceCancelled ==
  [][cancelled => /\ pc' = "listing" => pc = "listing"
                  /\ \A w \in Workers :
                       worker'[w].at \in {"getting", "fetching"} =>
                         worker[w].at = worker'[w].at]_vars

\* What the check relies on: QuotaRound, with its accounts known from the
\* moment the list was read.
Round == INSTANCE QuotaRound WITH
  Accounts   <- 1..MaxEntries,
  Unanswered <- NotWritten,
  accounts   <- Selected,
  answer     <- [i \in 1..MaxEntries |->
                   IF i \in Selected THEN results[i] ELSE NotWritten],
  ended      <- pc = "done"

\* The round is a round of QuotaRound.
ImplementsRound == Round!Spec

\* Check returns, however long the host takes for each callback.
RoundEnds == <>(pc = "done")

=============================================================================
