-------------------------- MODULE QuotaCheckerProofs -------------------------
(***************************************************************************)
(* Proofs about QuotaChecker: the workers share the results without a lock *)
(* and never meet, a round that was not cancelled answers every account,   *)
(* and the whole implements QuotaRound.                                    *)
(***************************************************************************)
EXTENDS QuotaChecker, FiniteSetTheorems, TLAPS

Unstarted == {"list", "listing"}

\* Where each selected account is: with the dispatcher, with one worker, or
\* answered.
Placed ==
  /\ \A i \in todo : results[i] = NotWritten /\ requests[i] = 0
  /\ \A w \in Workers : worker[w].at \in Busy =>
       /\ worker[w].job \in Selected \ todo
       /\ results[worker[w].job] = NotWritten
  /\ \A v, w \in Workers :
       worker[v].at \in Busy /\ worker[w].at \in Busy /\ worker[v].job = worker[w].job
         => v = w
  /\ \A i \in Selected \ todo :
       results[i] # NotWritten \/ \E w \in Workers : worker[w].at \in Busy /\ worker[w].job = i

\* The dispatcher stops early only when the check is cancelled.
Dispatched ==
  /\ pc \in Unstarted => Selected = {} /\ \A w \in Workers : worker[w].at = "none"
  /\ pc = "offer" => todo # {}
  /\ pc \in {"wait", "done"} => cancelled \/ todo = {}
  /\ pc = "done" => \A w \in Workers : worker[w].at \in {"none", "exited"}

\* The requests of an account in work are those of its attempts so far.
Attempts ==
  /\ \A w \in Workers :
       /\ worker[w].at \in {"start", "getting", "fetch", "sleep"} =>
            requests[worker[w].job] = worker[w].attempt
       /\ worker[w].at = "fetching" => requests[worker[w].job] = worker[w].attempt + 1
  /\ TransientIsRetried

IInv ==
  /\ TypeOK
  /\ Placed
  /\ Dispatched
  /\ Attempts
  /\ CancelledIsVisible


-----------------------------------------------------------------------------

WorkerRecord == [at : Positions, job : 0..MaxEntries, attempt : 0..RetryAttempts]

\* A step that leaves the dispatcher alone.
OnlyWorkers == UNCHANGED <<pc, cancelled, kind, todo, out>>

\* Worker w goes from one place to another and keeps its job.
Moves(w, to, k) ==
  /\ worker' \in [Workers -> WorkerRecord]
  /\ worker'[w].at = to
  /\ worker'[w].job = worker[w].job
  /\ worker'[w].attempt = k
  /\ \A v \in Workers \ {w} : worker'[v] = worker[v]

\* What Goto does to the record of its worker.
LEMMA GotoMoves ==
  ASSUME IInv, NEW w \in Workers, NEW from, NEW to \in Positions, Goto(w, from, to)
  PROVE  worker[w].at = from /\ Moves(w, to, worker[w].attempt)
BY DEF IInv, TypeOK, Goto, Moves, WorkerRecord

\* A worker that stays busy with its job, whose requests are counted right.
LEMMA MoveKeeps ==
  ASSUME IInv, NEW w \in Workers, worker[w].at \in Busy,
         NEW to \in Busy, NEW k \in 0..RetryAttempts, Moves(w, to, k),
         NEW n \in 0..RetryAttempts + 1,
         requests' = [requests EXCEPT ![worker[w].job] = n],
         to = "fetching" => n = k + 1,
         to # "fetching" => n = k,
         OnlyWorkers, results' = results
  PROVE  IInv'
<1>1. worker[w].job \in Selected \ todo /\ results[worker[w].job] = NotWritten
  BY DEF IInv, Placed
<1>2. \A v \in Workers : v # w /\ worker[v].at \in Busy => worker[v].job # worker[w].job
  BY DEF IInv, Placed
<1>3. requests' \in [Selected -> 0..RetryAttempts + 1]
  BY <1>1 DEF IInv, TypeOK
<1>4. TypeOK'
  BY <1>3 DEF IInv, TypeOK, Moves, OnlyWorkers, WorkerRecord, Selected
<1>5. Placed'
  <2>1. \A i \in todo : requests'[i] = requests[i]
    BY <1>1 DEF IInv, TypeOK
  <2>2. \A v \in Workers : worker'[v].job = worker[v].job
                            /\ (worker'[v].at \in Busy <=> worker[v].at \in Busy)
    BY DEF Moves
  <2>3. kind' = kind /\ todo' = todo /\ results' = results
    BY DEF OnlyWorkers
  <2> QED BY <2>1, <2>2, <2>3 DEF IInv, Placed, Selected
<1>6. Dispatched'
  BY DEF IInv, Dispatched, Moves, OnlyWorkers, Selected, Busy
<1>7. Attempts'
  <2>1. \A v \in Workers \ {w} : worker[v].at \in Busy =>
          requests'[worker[v].job] = requests[worker[v].job]
    BY <1>2 DEF IInv, TypeOK, Placed
  <2>2. requests'[worker[w].job] = n
    BY <1>1 DEF IInv, TypeOK
  <2>3. \A v \in Workers :
          /\ worker'[v].at \in {"start", "getting", "fetch", "sleep"} =>
               requests'[worker'[v].job] = worker'[v].attempt
          /\ worker'[v].at = "fetching" => requests'[worker'[v].job] = worker'[v].attempt + 1
    BY <2>1, <2>2 DEF IInv, Attempts, Moves, Busy
  <2>4. TransientIsRetried'
    BY <1>1, <1>3 DEF IInv, Attempts, TransientIsRetried, OnlyWorkers, Selected, TypeOK,
       NotWritten
  <2> QED BY <2>3, <2>4 DEF Attempts
<1>8. CancelledIsVisible'
  BY DEF IInv, CancelledIsVisible, OnlyWorkers, Selected
<1> QED BY <1>4, <1>5, <1>6, <1>7, <1>8 DEF IInv

\* A worker that writes its answer and is ready for the next job.
LEMMA WriteKeeps ==
  ASSUME IInv, NEW w \in Workers, worker[w].at \in Busy,
         NEW a \in Answers, Write(w, a), OnlyWorkers, requests' = requests,
         a \in {"http_503", "host_callback_retryable"} =>
           requests[worker[w].job] = RetryAttempts + 1,
         a = "request_canceled" => cancelled
  PROVE  IInv'
<1> DEFINE i == worker[w].job
<1>1. i \in Selected \ todo /\ results[i] = NotWritten
  BY DEF IInv, Placed
<1>2. \A v \in Workers : v # w /\ worker[v].at \in Busy => worker[v].job # i
  BY DEF IInv, Placed
<1>3. /\ results' = [results EXCEPT ![i] = a]
      /\ results \in [Selected -> Answers \union {NotWritten}]
      /\ a # NotWritten
  BY DEF Write, IInv, TypeOK, Answers, Failures, NotWritten
<1>4. /\ worker' \in [Workers -> WorkerRecord]
      /\ worker'[w].at = "ready"
      /\ \A v \in Workers \ {w} : worker'[v] = worker[v]
  <2>1. [Idle EXCEPT !.at = "ready"] \in WorkerRecord
        /\ [Idle EXCEPT !.at = "ready"].at = "ready"
    BY RetryAssumption, ListsAssumption DEF Idle, WorkerRecord, Positions
  <2> QED BY <2>1 DEF Write, IInv, TypeOK, WorkerRecord
<1>5. TypeOK'
  BY <1>1, <1>3, <1>4 DEF IInv, TypeOK, OnlyWorkers, WorkerRecord, Selected
<1>6. Placed'
  <2>1. \A j \in Selected : j # i => results'[j] = results[j]
    BY <1>3
  <2>2. results'[i] = a
    BY <1>1, <1>3
  <2>3. kind' = kind /\ todo' = todo /\ requests' = requests
    BY DEF OnlyWorkers
  <2> QED BY <1>1, <1>2, <1>3, <1>4, <2>1, <2>2, <2>3 DEF IInv, Placed, TypeOK, Selected, Busy
<1>7. Dispatched'
  BY <1>4 DEF IInv, Dispatched, OnlyWorkers, Selected, Busy
<1>8. Attempts'
  <2>1. TransientIsRetried'
    BY <1>1, <1>3 DEF IInv, Attempts, TransientIsRetried, OnlyWorkers, Selected
  <2> QED BY <1>4, <2>1 DEF IInv, Attempts
<1>9. CancelledIsVisible'
  BY <1>1, <1>3 DEF IInv, CancelledIsVisible, OnlyWorkers, Selected
<1> QED BY <1>5, <1>6, <1>7, <1>8, <1>9 DEF IInv

-----------------------------------------------------------------------------

\* Every action of the dispatcher keeps the invariant.
LEMMA DispatcherKeeps ==
  ASSUME IInv, Dispatcher
  PROVE  IInv'
<1>1. CASE CallList
  BY <1>1 DEF CallList, IInv, TypeOK, Placed, Dispatched, Attempts, TransientIsRetried,
     CancelledIsVisible, Selected, Unstarted
<1>2. CASE ListFails
  BY <1>2 DEF ListFails, IInv, TypeOK, Placed, Dispatched, Attempts, TransientIsRetried,
     CancelledIsVisible, Selected, Unstarted
<1>3. ASSUME NEW entries \in Lists, ListReturns(entries) PROVE IInv'
  <2> DEFINE chosen == Chosen(entries)
  <2>1. /\ pc = "listing"
        /\ kind' = [i \in chosen |-> entries[i]]
        /\ todo' = chosen
        /\ results' = [i \in chosen |-> NotWritten]
        /\ requests' = [i \in chosen |-> 0]
        /\ pc' = IF chosen = {} THEN "done" ELSE "dispatch"
        /\ cancelled' = cancelled /\ out' = out
    BY <1>3 DEF ListReturns
  <2>2. /\ entries \in Seq(Kinds) /\ Len(entries) <= MaxEntries /\ MaxEntries \in Nat
        /\ Len(entries) \in Nat /\ DOMAIN entries = 1..Len(entries)
        /\ \A i \in DOMAIN entries : entries[i] \in Kinds
    BY ListsAssumption
  <2>3. Selected' = chosen /\ chosen \subseteq 1..MaxEntries
    BY <2>1, <2>2 DEF Selected, Chosen
  <2>4. Selected = {} /\ out = {}
    BY <2>1 DEF IInv, Dispatched, Unstarted, TypeOK
  <2>5. /\ worker' \in [Workers -> WorkerRecord]
        /\ \A w \in Workers : worker'[w].at \in {"none", "ready"}
        /\ chosen = {} => \A w \in Workers : worker'[w].at = "none"
    <3>1. /\ Idle \in WorkerRecord /\ [Idle EXCEPT !.at = "ready"] \in WorkerRecord
          /\ [Idle EXCEPT !.at = "ready"].at = "ready" /\ Idle.at = "none"
      BY RetryAssumption, ListsAssumption DEF Idle, WorkerRecord, Positions
    <3>2. worker' = [w \in Workers |->
                       IF w <= Cardinality(chosen) THEN [Idle EXCEPT !.at = "ready"] ELSE Idle]
      BY <1>3 DEF ListReturns
    <3>3. chosen = {} => \A w \in Workers : ~(w <= Cardinality(chosen))
      <4>1. Cardinality({}) = 0
        BY FS_EmptySet
      <4> QED BY <4>1 DEF Workers
    <3> QED BY <3>1, <3>2, <3>3
  <2>6. \A i \in chosen : kind'[i] \in {"no_index", "runtime_only", "codex"}
    BY <2>1, <2>2 DEF Kinds, Chosen
  <2>7. TypeOK'
    <3>1. kind' \in [chosen -> {"no_index", "runtime_only", "codex"}]
      BY <2>1, <2>6
    <3>2. requests' \in [chosen -> 0..RetryAttempts + 1]
      BY <2>1, RetryAssumption
    <3>3. results' \in [chosen -> Answers \union {NotWritten}]
      BY <2>1
    <3>4. pc' \in {"list", "listing", "dispatch", "offer", "wait", "done"}
      BY <2>1
    <3> QED BY <2>1, <2>3, <2>4, <2>5, <3>1, <3>2, <3>3, <3>4 DEF IInv, TypeOK, WorkerRecord
  <2>8. Placed'
    BY <2>1, <2>3, <2>5 DEF Placed, Busy
  <2>9. Dispatched'
    BY <2>1, <2>5 DEF Dispatched, Unstarted
  <2>10. Attempts' /\ CancelledIsVisible'
    BY <2>1, <2>3, <2>5, RetryAssumption DEF Attempts, TransientIsRetried,
       CancelledIsVisible, NotWritten
  <2> QED BY <2>7, <2>8, <2>9, <2>10 DEF IInv
<1>4. CASE Offer
  BY <1>4 DEF Offer, IInv, TypeOK, Placed, Dispatched, Attempts, TransientIsRetried,
     CancelledIsVisible, Selected, Unstarted
<1>5. CASE Collect
  BY <1>5 DEF Collect, IInv, TypeOK, Placed, Dispatched, Attempts, TransientIsRetried,
     CancelledIsVisible, Selected, Unstarted
<1> QED BY <1>1, <1>2, <1>3, <1>4, <1>5 DEF Dispatcher

\* A job goes from the dispatcher to a worker that has none.
LEMMA HandOverKeeps ==
  ASSUME IInv, NEW w \in Workers, HandOver(w)
  PROVE  IInv'
<1>1. PICK i \in todo :
        /\ worker' = [worker EXCEPT ![w] = [at |-> "start", job |-> i, attempt |-> 0]]
        /\ todo' = todo \ {i}
  BY DEF HandOver
<1>2. /\ pc' = "dispatch" /\ worker[w].at = "ready"
      /\ UNCHANGED <<cancelled, kind, results, out, requests>>
  BY DEF HandOver
<1>3. /\ i \in Selected /\ i \in 1..MaxEntries /\ results[i] = NotWritten /\ requests[i] = 0
      /\ \A v \in Workers : worker[v].at \in Busy => worker[v].job # i
  BY DEF IInv, Placed, TypeOK
<1>4. /\ worker' \in [Workers -> WorkerRecord]
      /\ worker'[w].at = "start" /\ worker'[w].job = i /\ worker'[w].attempt = 0
      /\ \A v \in Workers \ {w} : worker'[v] = worker[v]
  <2>1. [at |-> "start", job |-> i, attempt |-> 0] \in WorkerRecord
    BY <1>3, RetryAssumption, ListsAssumption DEF WorkerRecord, Positions
  <2> QED BY <1>1, <2>1 DEF IInv, TypeOK, WorkerRecord
<1>5. TypeOK'
  BY <1>1, <1>2, <1>4 DEF IInv, TypeOK, WorkerRecord, Selected
<1>6. Placed'
  <2>1. worker[w].at \notin Busy /\ worker'[w].at \in Busy
    BY <1>2, <1>4 DEF Busy
  <2>2. \A j \in Selected \ todo' : j = i \/ j \in Selected \ todo
    BY <1>1
  <2> QED BY <1>1, <1>2, <1>3, <1>4, <2>1, <2>2 DEF IInv, Placed, Selected
<1>7. Dispatched'
  BY <1>2 DEF Dispatched, Unstarted
<1>8. Attempts'
  BY <1>2, <1>3, <1>4 DEF IInv, Attempts, TransientIsRetried, Selected
<1>9. CancelledIsVisible'
  BY <1>2 DEF IInv, CancelledIsVisible, Selected
<1> QED BY <1>5, <1>6, <1>7, <1>8, <1>9 DEF IInv

\* Every action of a worker keeps the invariant.
LEMMA WorkerStepKeeps ==
  ASSUME IInv, NEW w \in Workers, WorkerStep(w)
  PROVE  IInv'
<1>1. worker[w].at \in Busy =>
        /\ worker[w].job \in Selected
        /\ requests[worker[w].job] \in 0..RetryAttempts + 1
        /\ worker[w].attempt \in 0..RetryAttempts
        /\ requests' = requests =>
             requests' = [requests EXCEPT ![worker[w].job] = requests[worker[w].job]]
  BY DEF IInv, Placed, TypeOK
<1>2. Busy \subseteq Positions
  BY DEF Busy, Positions
<1>3. CASE HandOver(w)
  BY <1>3, HandOverKeeps
<1>4. CASE WorkerExits(w)
  <2>1. /\ pc = "wait" /\ worker[w].at = "ready"
        /\ UNCHANGED <<pc, cancelled, kind, todo, results, out, requests>>
        /\ worker' = [worker EXCEPT ![w].at = "exited"]
    BY <1>4 DEF WorkerExits
  <2>2. /\ worker' \in [Workers -> WorkerRecord] /\ worker'[w].at = "exited"
        /\ \A v \in Workers \ {w} : worker'[v] = worker[v]
    BY <2>1 DEF IInv, TypeOK, WorkerRecord, Positions
  <2>3. worker[w].at \notin Busy /\ worker'[w].at \notin Busy
    BY <2>1, <2>2 DEF Busy
  <2>4. TypeOK'
    BY <2>1, <2>2 DEF IInv, TypeOK, WorkerRecord, Selected
  <2>5. Placed'
    BY <2>1, <2>2, <2>3 DEF IInv, Placed, Selected
  <2>6. Dispatched' /\ Attempts' /\ CancelledIsVisible'
    BY <2>1, <2>2 DEF IInv, Dispatched, Unstarted, Attempts, TransientIsRetried,
       CancelledIsVisible, Selected
  <2> QED BY <2>4, <2>5, <2>6 DEF IInv
<1>5. CASE CheckOne(w)
  <2>1. worker[w].at = "start" /\ worker[w].at \in Busy /\ requests' = requests /\ OnlyWorkers
    BY <1>5 DEF CheckOne, OnlyWorkers, Busy
  <2>2. CASE Write(w, "missing_auth_index") \/ Write(w, "runtime_auth_unreadable")
             \/ Write(w, "auth_get_error")
    BY <2>1, <2>2, WriteKeeps DEF Answers, Failures
  <2>3. CASE Goto(w, "start", "getting") /\ results' = results
    <3>1. Moves(w, "getting", worker[w].attempt)
      BY <2>3, GotoMoves DEF Positions
    <3>2. requests[worker[w].job] = worker[w].attempt
      BY <2>1 DEF IInv, Attempts
    <3> QED BY <1>1, <2>1, <2>3, <3>1, <3>2, MoveKeeps DEF Busy
  <2> QED BY <1>5, <2>2, <2>3 DEF CheckOne
<1>6. CASE GetAuthReturns(w)
  <2>1. worker[w].at = "getting" /\ worker[w].at \in Busy /\ requests' = requests /\ OnlyWorkers
    BY <1>6 DEF GetAuthReturns, OnlyWorkers, Busy
  <2>2. CASE Write(w, "auth_get_error") \/ Write(w, "credential_invalid")
    BY <2>1, <2>2, WriteKeeps DEF Answers, Failures
  <2>3. CASE Goto(w, "getting", "fetch") /\ results' = results
    <3>1. Moves(w, "fetch", worker[w].attempt)
      BY <2>3, GotoMoves DEF Positions
    <3>2. requests[worker[w].job] = worker[w].attempt
      BY <2>1 DEF IInv, Attempts
    <3> QED BY <1>1, <2>1, <2>3, <3>1, <3>2, MoveKeeps DEF Busy
  <2> QED BY <1>6, <2>2, <2>3 DEF GetAuthReturns
<1>7. CASE Fetch(w)
  <2>1. worker[w].at = "fetch" /\ worker[w].at \in Busy /\ OnlyWorkers
    BY <1>7 DEF Fetch, OnlyWorkers, Busy
  <2>2. CASE cancelled
    <3>1. Write(w, "request_canceled") /\ requests' = requests
      BY <1>7, <2>2 DEF Fetch
    <3> QED BY <2>1, <2>2, <3>1, WriteKeeps DEF Answers, Failures
  <2>3. CASE ~cancelled
    <3>1. /\ Goto(w, "fetch", "fetching") /\ results' = results
          /\ requests' = [requests EXCEPT ![worker[w].job] = requests[worker[w].job] + 1]
      BY <1>7, <2>3, <1>1, <2>1 DEF Fetch
    <3>2. Moves(w, "fetching", worker[w].attempt)
      BY <3>1, GotoMoves DEF Positions
    <3>3. requests[worker[w].job] = worker[w].attempt
      BY <2>1 DEF IInv, Attempts
    <3>4. worker[w].attempt + 1 \in 0..RetryAttempts + 1
      BY <1>1, <2>1, RetryAssumption
    <3> QED BY <1>1, <2>1, <3>1, <3>2, <3>3, <3>4, MoveKeeps DEF Busy
  <2> QED BY <2>2, <2>3
<1>8. CASE FetchReturnsLate(w)
  <2>1. worker[w].at = "fetching" /\ worker[w].at \in Busy /\ requests' = requests /\ OnlyWorkers
    BY <1>8 DEF FetchReturnsLate, OnlyWorkers, Busy
  <2>2. CASE Write(w, "request_timeout")
    BY <2>1, <2>2, WriteKeeps DEF Answers, Failures
  <2>3. CASE cancelled /\ Write(w, "request_canceled")
    BY <2>1, <2>3, WriteKeeps DEF Answers, Failures
  <2> QED BY <1>8, <2>2, <2>3 DEF FetchReturnsLate
<1>9. CASE Wake(w)
  <2>1. worker[w].at = "sleep" /\ worker[w].at \in Busy /\ requests' = requests
        /\ results' = results /\ OnlyWorkers /\ Goto(w, "sleep", "fetch")
    BY <1>9 DEF Wake, Goto, OnlyWorkers, Busy
  <2>2. Moves(w, "fetch", worker[w].attempt)
    BY <2>1, GotoMoves DEF Positions
  <2>3. requests[worker[w].job] = worker[w].attempt
    BY <2>1 DEF IInv, Attempts
  <2> QED BY <1>1, <2>1, <2>2, <2>3, MoveKeeps DEF Busy
<1>10. ASSUME NEW r \in Replies, FetchReturns(w, r) PROVE IInv'
  <2>1. worker[w].at = "fetching" /\ worker[w].at \in Busy /\ requests' = requests /\ OnlyWorkers
    BY <1>10 DEF FetchReturns, OnlyWorkers, Busy
  <2>2. requests[worker[w].job] = worker[w].attempt + 1
    BY <2>1 DEF IInv, Attempts
  <2>3. CASE Write(w, "observed") \/ Write(w, "ignored_plan")
    BY <2>1, <2>3, WriteKeeps DEF Answers
  <2>4. CASE /\ Transient(r) /\ MayRetry(worker[w].attempt) /\ results' = results
             /\ worker' = [worker EXCEPT ![w].at = "sleep", ![w].attempt = @ + 1]
    <3>1. worker[w].attempt + 1 \in 0..RetryAttempts
      BY <1>1, <2>1, <2>4, RetryAssumption DEF MayRetry
    <3>2. Moves(w, "sleep", worker[w].attempt + 1)
      BY <2>4, <3>1 DEF IInv, TypeOK, Moves, WorkerRecord, Positions
    <3> QED BY <1>1, <2>1, <2>2, <2>4, <3>1, <3>2, MoveKeeps DEF Busy
  <2>5. CASE ~(Transient(r) /\ MayRetry(worker[w].attempt)) /\ Write(w, ErrorCode(r))
    <3>1. r \in Envelopes
      BY RepliesAssumption
    <3>2. ErrorCode(r) \in Failures \ {"request_canceled"}
      BY <3>1 DEF ErrorCode, CallError, Envelopes, Failures
    <3>3. ErrorCode(r) \in {"http_503", "host_callback_retryable"} => Transient(r)
      BY <3>1 DEF ErrorCode, CallError, Transient, Envelopes
    <3>4. ~MayRetry(worker[w].attempt) => worker[w].attempt = RetryAttempts
      BY <1>1, <2>1, RetryAssumption DEF MayRetry
    <3> QED BY <2>1, <2>2, <2>5, <3>2, <3>3, <3>4, WriteKeeps DEF Answers
  <2> QED BY <1>10, <2>3, <2>4, <2>5 DEF FetchReturns
<1> QED BY <1>3, <1>4, <1>5, <1>6, <1>7, <1>8, <1>9, <1>10 DEF WorkerStep

-----------------------------------------------------------------------------

\* The invariant holds at the start and is kept by every step.
LEMMA IInvHolds == Spec => []IInv
<1>1. Init => IInv
  <2> SUFFICES ASSUME Init PROVE IInv
    OBVIOUS
  <2>1. Selected = {}
    BY DEF Init, Selected
  <2>2. Idle \in WorkerRecord /\ Idle.at = "none"
    BY RetryAssumption, ListsAssumption DEF Idle, WorkerRecord, Positions
  <2>3. TypeOK
    BY <2>1, <2>2 DEF Init, TypeOK, WorkerRecord
  <2>4. Placed /\ Dispatched /\ Attempts /\ CancelledIsVisible
    BY <2>1, <2>2 DEF Init, Placed, Dispatched, Unstarted, Attempts, TransientIsRetried,
       CancelledIsVisible, Busy
  <2> QED BY <2>3, <2>4 DEF IInv
<1>2. IInv /\ [Next]_vars => IInv'
  <2> SUFFICES ASSUME IInv, [Next]_vars PROVE IInv'
    OBVIOUS
  <2>1. CASE UNCHANGED vars \/ Cancel \/ Returned
    BY <2>1 DEF vars, Cancel, Returned, IInv, TypeOK, Placed, Dispatched, Attempts,
       TransientIsRetried, CancelledIsVisible, Selected
  <2>2. CASE Dispatcher
    BY <2>2, DispatcherKeeps
  <2>3. ASSUME NEW w \in Workers, WorkerStep(w) PROVE IInv'
    BY <2>3, WorkerStepKeeps
  <2> QED BY <2>1, <2>2, <2>3 DEF Next
<1> QED BY <1>1, <1>2, PTL DEF Spec

\* Types of all variables.
THEOREM TypesHold == Spec => []TypeOK
<1>1. IInv => TypeOK
  BY DEF IInv
<1> QED BY <1>1, IInvHolds, PTL

\* The workers write the shared results without a lock; an account belongs to
\* one of them at a time and to none once it has its answer.
THEOREM WorkersNeverMeet == Spec => []OneWorkerPerAccount
<1>1. IInv => OneWorkerPerAccount
  BY DEF IInv, Placed, OneWorkerPerAccount
<1> QED BY <1>1, IInvHolds, PTL

\* An account that was handed over is in a worker's hands or answered, and at
\* the end no worker holds one: only a cancelled round leaves accounts out.
THEOREM RoundsAreComplete == Spec => []RoundIsComplete
<1>1. IInv => RoundIsComplete
  BY DEF IInv, TypeOK, Placed, Dispatched, RoundIsComplete, Busy
<1> QED BY <1>1, IInvHolds, PTL

\* Only a cancelled check reports accounts as cancelled.
THEOREM CancellationShows == Spec => []CancelledIsVisible
<1>1. IInv => CancelledIsVisible
  BY DEF IInv
<1> QED BY <1>1, IInvHolds, PTL

\* Every attempt was made before a transient failure is reported.
THEOREM TransientsAreRetried == Spec => []TransientIsRetried
<1>1. IInv => TransientIsRetried
  BY DEF IInv, Attempts
<1> QED BY <1>1, IInvHolds, PTL

-----------------------------------------------------------------------------

\* The answers as QuotaRound sees them.
Ans == [i \in 1..MaxEntries |-> IF i \in Selected THEN results[i] ELSE NotWritten]

\* A write is an answer of the round.
LEMMA WriteAnswers ==
  ASSUME IInv, NEW w \in Workers, worker[w].at \in Busy, pc # "done",
         NEW a \in Answers, Write(w, a), OnlyWorkers
  PROVE  Round!Next
<1> DEFINE i == worker[w].job
<1>1. /\ i \in Selected /\ i \in 1..MaxEntries /\ results[i] = NotWritten
      /\ results \in [Selected -> Answers \union {NotWritten}]
  BY DEF IInv, Placed, TypeOK
<1>2. results' = [results EXCEPT ![i] = a] /\ Selected' = Selected
      /\ pc' = pc /\ cancelled' = cancelled
  BY DEF Write, OnlyWorkers, Selected
<1>3. Ans' = [Ans EXCEPT ![i] = a] /\ Ans[i] = NotWritten
  BY <1>1, <1>2 DEF Ans
<1>4. Round!Answer(i, a)
  BY <1>1, <1>2, <1>3 DEF Round!Answer, Ans
<1> QED BY <1>1, <1>4 DEF Round!Next

\* A round ends when Check returns.
LEMMA ReturnEnds ==
  ASSUME IInv, pc # "done", pc' = "done", UNCHANGED <<cancelled, Selected, Ans>>,
         cancelled \/ \A i \in Selected : results[i] # NotWritten
  PROVE  Round!Next
<1>1. Selected \subseteq 1..MaxEntries
  BY DEF IInv, TypeOK
<1>2. \A i \in Selected : Ans[i] = results[i]
  BY <1>1 DEF Ans
<1>3. Round!End
  BY <1>2 DEF Round!End, Ans
<1> QED BY <1>3 DEF Round!Next

\* A round of queries is a round of QuotaRound: what Check hands back is all
\* the check has to look at, together with its context.
THEOREM ChecksAreRounds == Spec => ImplementsRound
<1>1. Init => Round!Init
  BY DEF Init, Round!Init, Selected
<1>2. IInv /\ [Next]_vars => [Round!Next]_(Round!vars)
  <2> SUFFICES ASSUME IInv, [Next]_vars PROVE [Round!Next]_(Round!vars)
    OBVIOUS
  <2>0. UNCHANGED <<Selected, Ans, cancelled>> /\ (pc' = "done" <=> pc = "done")
          => UNCHANGED Round!vars
    BY DEF Round!vars, Ans
  <2>1. CASE UNCHANGED vars \/ Returned
    BY <2>0, <2>1 DEF vars, Returned, Selected, Ans
  <2>2. CASE Cancel
    <3>1. Round!Cancel
      BY <2>2 DEF Cancel, Round!Cancel, Selected
    <3> QED BY <3>1 DEF Round!Next
  <2>3. CASE CallList \/ ListFails
    <3>1. /\ pc \in Unstarted /\ UNCHANGED <<kind, results, cancelled>>
          /\ pc' = "done" \/ pc' = "listing"
      BY <2>3 DEF CallList, ListFails, Unstarted
    <3>2. Selected = {} /\ UNCHANGED <<Selected, Ans>> /\ pc # "done"
      BY <3>1 DEF IInv, Dispatched, Selected, Ans, Unstarted
    <3> QED BY <2>0, <3>1, <3>2, ReturnEnds
  <2>4. ASSUME NEW entries \in Lists, ListReturns(entries) PROVE [Round!Next]_(Round!vars)
    <3>1. TypeOK'
      BY <2>4, DispatcherKeeps DEF Dispatcher, IInv
    <3>2. /\ pc = "listing" /\ cancelled' = cancelled
          /\ \A i \in Selected' : results'[i] = NotWritten
          /\ pc' = IF Selected' = {} THEN "done" ELSE "dispatch"
      BY <2>4 DEF ListReturns, Selected
    <3>3. Selected = {} /\ Selected' \in SUBSET (1..MaxEntries)
      BY <3>1, <3>2 DEF IInv, Dispatched, Unstarted, TypeOK
    <3>4. Ans' = Ans
      BY <3>2, <3>3 DEF Ans
    <3>5. CASE Selected' = {}
      BY <3>2, <3>3, <3>4, <3>5, ReturnEnds
    <3>6. CASE Selected' # {}
      <4>1. Round!Begin(Selected')
        BY <3>2, <3>3, <3>4, <3>6 DEF Round!Begin, Ans
      <4> QED BY <3>3, <4>1 DEF Round!Next
    <3> QED BY <3>5, <3>6
  <2>5. CASE Offer
    BY <2>0, <2>5 DEF Offer, Selected, Ans
  <2>6. CASE Collect
    <3>1. UNCHANGED <<Selected, Ans, cancelled>> /\ pc = "wait" /\ pc' = "done"
      BY <2>6 DEF Collect, Selected, Ans
    <3>2. cancelled \/ \A i \in Selected : results[i] # NotWritten
      BY <2>6, <3>1 DEF Collect, IInv, Dispatched, Placed, Busy
    <3> QED BY <3>1, <3>2, ReturnEnds
  <2>7. ASSUME NEW w \in Workers, WorkerStep(w) PROVE [Round!Next]_(Round!vars)
    <3>1. worker[w].at \in Busy => pc # "done"
      BY DEF IInv, Dispatched, Busy
    <3>2. ASSUME NEW a \in Answers, Write(w, a), OnlyWorkers, worker[w].at \in Busy
          PROVE  Round!Next
      BY <3>1, <3>2, WriteAnswers
    <3>3. CASE HandOver(w) \/ WorkerExits(w) \/ Wake(w)
      BY <2>0, <3>3 DEF HandOver, WorkerExits, Wake, Selected, Ans
    <3>4. CASE CheckOne(w)
      <4>1. worker[w].at \in Busy /\ OnlyWorkers
        BY <3>4 DEF CheckOne, Busy, OnlyWorkers
      <4>2. CASE \E a \in Answers : Write(w, a)
        BY <3>2, <4>1, <4>2
      <4>3. CASE results' = results
        BY <2>0, <4>1, <4>3 DEF OnlyWorkers, Selected, Ans
      <4> QED BY <3>4, <4>2, <4>3 DEF CheckOne, Answers, Failures
    <3>5. CASE GetAuthReturns(w)
      <4>1. worker[w].at \in Busy /\ OnlyWorkers
        BY <3>5 DEF GetAuthReturns, Busy, OnlyWorkers
      <4>2. CASE \E a \in Answers : Write(w, a)
        BY <3>2, <4>1, <4>2
      <4>3. CASE results' = results
        BY <2>0, <4>1, <4>3 DEF OnlyWorkers, Selected, Ans
      <4> QED BY <3>5, <4>2, <4>3 DEF GetAuthReturns, Answers, Failures
    <3>6. CASE Fetch(w)
      <4>1. worker[w].at \in Busy /\ OnlyWorkers
        BY <3>6 DEF Fetch, Busy, OnlyWorkers
      <4>2. CASE \E a \in Answers : Write(w, a)
        BY <3>2, <4>1, <4>2
      <4>3. CASE results' = results
        BY <2>0, <4>1, <4>3 DEF OnlyWorkers, Selected, Ans
      <4> QED BY <3>6, <4>2, <4>3 DEF Fetch, Answers, Failures
    <3>7. CASE FetchReturnsLate(w)
      <4>1. worker[w].at \in Busy /\ OnlyWorkers
        BY <3>7 DEF FetchReturnsLate, Busy, OnlyWorkers
      <4> QED BY <3>2, <3>7, <4>1 DEF FetchReturnsLate, Answers, Failures
    <3>8. ASSUME NEW r \in Replies, FetchReturns(w, r) PROVE [Round!Next]_(Round!vars)
      <4>1. worker[w].at \in Busy /\ OnlyWorkers
        BY <3>8 DEF FetchReturns, Busy, OnlyWorkers
      <4>2. ErrorCode(r) \in Answers
        BY RepliesAssumption DEF ErrorCode, CallError, Envelopes, Failures, Answers
      <4>3. CASE \E a \in Answers : Write(w, a)
        BY <3>2, <4>1, <4>3
      <4>4. CASE results' = results
        BY <2>0, <4>1, <4>4 DEF OnlyWorkers, Selected, Ans
      <4> QED BY <3>8, <4>2, <4>3, <4>4 DEF FetchReturns, Answers
    <3> QED BY <2>7, <3>3, <3>4, <3>5, <3>6, <3>7, <3>8 DEF WorkerStep
  <2> QED BY <2>1, <2>2, <2>3, <2>4, <2>5, <2>6, <2>7 DEF Next, Dispatcher
<1> QED BY <1>1, <1>2, IInvHolds, PTL DEF Spec, ImplementsRound, Round!Spec

\* From the moment of the cancellation nothing new is asked of the host.
THEOREM CancellationStopsCalls == Spec => NoCallOnceCancelled
<1> DEFINE Quiet ==
      cancelled => /\ pc' = "listing" => pc = "listing"
                   /\ \A w \in Workers :
                        worker'[w].at \in {"getting", "fetching"} =>
                          worker[w].at = worker'[w].at
<1>1. TypeOK /\ [Next]_vars => [Quiet]_vars
  <2> SUFFICES ASSUME TypeOK, Next, cancelled PROVE Quiet
    OBVIOUS
  <2>2. CASE Cancel \/ Returned \/ CallList \/ ListFails \/ Offer \/ Collect
    BY <2>2 DEF Cancel, Returned, CallList, ListFails, Offer, Collect, vars
  <2>3. ASSUME NEW entries \in Lists, ListReturns(entries) PROVE Quiet
    BY <2>3 DEF ListReturns
  <2>4. ASSUME NEW w \in Workers, WorkerStep(w) PROVE Quiet
    <3>1. \A v \in Workers \ {w} : worker'[v] = worker[v]
      BY <2>4 DEF WorkerStep, HandOver, WorkerExits, CheckOne, GetAuthReturns, Fetch,
         FetchReturnsLate, Wake, FetchReturns, Write, Goto, TypeOK
    <3>2. worker'[w].at \notin {"getting", "fetching"}
      <4>1. ASSUME NEW a, Write(w, a) PROVE worker'[w].at = "ready"
        BY <4>1 DEF Write, Idle, TypeOK
      <4>2. ASSUME NEW from, NEW to, Goto(w, from, to) PROVE worker'[w].at = to
        BY <4>2 DEF Goto, TypeOK
      <4>3. CASE HandOver(w)
        BY <4>3 DEF HandOver, TypeOK
      <4>4. CASE WorkerExits(w)
        BY <4>4 DEF WorkerExits, TypeOK
      <4>5. CASE CheckOne(w) \/ GetAuthReturns(w)
        BY <4>1, <4>2, <4>5 DEF CheckOne, GetAuthReturns
      <4>6. CASE Fetch(w) \/ FetchReturnsLate(w) \/ Wake(w)
        BY <4>1, <4>2, <4>6 DEF Fetch, FetchReturnsLate, Wake
      <4> QED BY <2>4, <4>3, <4>4, <4>5, <4>6 DEF WorkerStep, FetchReturns
    <3>3. pc' = "listing" => pc = "listing"
      BY <2>4 DEF WorkerStep, HandOver, WorkerExits, CheckOne, GetAuthReturns, Fetch,
         FetchReturnsLate, Wake, FetchReturns
    <3> QED BY <3>1, <3>2, <3>3
  <2> QED BY <2>2, <2>3, <2>4 DEF Next, Dispatcher
<1> QED BY <1>1, TypesHold, PTL DEF Spec, NoCallOnceCancelled

\* The results of a round, for any number of accounts, workers and retries.
THEOREM ResultsStaySound == Spec => []ResultsAreSound
  BY TypesHold, WorkersNeverMeet, RoundsAreComplete, CancellationShows, TransientsAreRetried, PTL
     DEF ResultsAreSound

=============================================================================
