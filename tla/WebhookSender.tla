--------------------------- MODULE WebhookSender ----------------------------
(***************************************************************************)
(* WebhookSender.Send of internal/notify/webhook.go: one HTTP request with *)
(* the URL and the Authorization header that are stored at the time.       *)
(*                                                                         *)
(* Receivers are named by their URL.  One call follows another; each is    *)
(* observed until the next one begins.                                     *)
(***************************************************************************)
EXTENDS Naturals

CONSTANTS
  URLs,      \* the values that validateWebhookURL accepts
  Others,    \* values that are no such URL
  NoValue,   \* a value that is missing
  Elsewhere, \* where a receiver may redirect to
  MaxUpdates \* bound on the updates of the private file

Storable == URLs \cup Others \cup {NoValue}

Names == {"url", "auth"}

WebhookAssumption ==
  /\ URLs \cap Others = {} /\ NoValue \notin URLs \cup Others
  /\ Elsewhere \notin Storable
  /\ MaxUpdates \in Nat

VARIABLES
  pc,      \* the line Send is at
  used,    \* the values it looked up
  result,  \* what the last call returned
  over,    \* its context is cancelled or past the deadline
  reply,   \* the class of the answer the client got
  sentTo,  \* the receivers the request went to
  pending, \* a receiver has the request and has not decided
  taken,   \* the receiver has taken the message
  stored,  \* the private file
  updates  \* how often it was updated

receiver == <<reply, sentTo, pending, taken>>
values == <<stored, updates>>
vars == <<pc, used, result, over, receiver, values>>

Init ==
  /\ pc = "idle"
  /\ used = [n \in Names |-> NoValue]
  /\ result = "none"
  /\ over = FALSE
  /\ reply = "none"
  /\ sentTo = {}
  /\ pending = FALSE
  /\ taken = FALSE
  /\ stored \in [Names -> Storable]
  /\ updates = 0
-----------------------------------------------------------------------------
Begin ==
  /\ pc = "idle"
  /\ pc' = "url"
  /\ result' = "none"
  /\ over' = FALSE
  /\ reply' = "none"
  /\ sentTo' = {}
  /\ pending' = FALSE
  /\ taken' = FALSE
  /\ UNCHANGED <<used, values>>

Lookup(n, label) ==
  /\ pc = n
  /\ pc' = label
  /\ used' = [used EXCEPT ![n] = stored[n]]
  /\ UNCHANGED <<result, over, receiver, values>>

Return(outcome) ==
  /\ pc' = "idle"
  /\ result' = outcome
  /\ UNCHANGED <<used, over, receiver, values>>

CheckValues ==
  /\ pc = "check"
  /\ IF used["url"] \in URLs /\ used["auth"] # NoValue
       THEN pc' = "do" /\ UNCHANGED <<used, result, over, receiver, values>>
       ELSE Return("error")

(* client.Do hands the request to the receiver.                            *)
Do ==
  /\ pc = "do"
  /\ ~over
  /\ pc' = "wait"
  /\ sentTo' = sentTo \cup {used["url"]}
  /\ pending' = TRUE
  /\ UNCHANGED <<used, result, over, reply, taken, values>>

\* Variant of Answered: a redirection is followed.
AnsweredElsewhere ==
  /\ pc = "wait"
  /\ reply # "none"
  /\ IF reply = "3xx"
       THEN /\ sentTo' = sentTo \cup {Elsewhere}
            /\ UNCHANGED <<used, over, reply, pending, taken, values>>
            /\ pc' = "idle" /\ result' = "error"
       ELSE Return(IF reply = "2xx" THEN "ok" ELSE "error")

(* Only 2xx counts, and a redirection is an answer like any other.         *)
Answered ==
  /\ pc = "wait"
  /\ reply # "none"
  /\ Return(IF reply = "2xx" THEN "ok" ELSE "error")

(* No connection, no answer, or the context is over.                       *)
Fails ==
  /\ pc \in {"do", "wait"}
  /\ Return("error")

Send ==
  \/ Begin \/ Lookup("url", "auth") \/ Lookup("auth", "check") \/ CheckValues
  \/ Do \/ Answered \/ Fails

(* Cancelled, or timeout_seconds are over.                                 *)
Over ==
  /\ pc # "idle"
  /\ ~over
  /\ over' = TRUE
  /\ UNCHANGED <<pc, used, result, receiver, values>>

(* The receiver decides; the answer reaches the client or is lost.         *)
Decide ==
  /\ pending
  /\ pending' = FALSE
  /\ \E class \in {"2xx", "3xx", "other"} :
       /\ taken' \in IF class = "2xx" THEN {TRUE} ELSE BOOLEAN
       /\ reply' \in {class, "none"}
  /\ UNCHANGED <<pc, used, result, over, sentTo, values>>

(* PUT secrets                                                             *)
Update ==
  /\ updates < MaxUpdates
  /\ updates' = updates + 1
  /\ \E n \in Names, v \in Storable : stored' = [stored EXCEPT ![n] = v]
  /\ UNCHANGED <<pc, used, result, over, receiver>>

Next == Send \/ Over \/ Decide \/ Update

Spec == Init /\ [][Next]_vars
-----------------------------------------------------------------------------
TypeOK ==
  /\ pc \in {"idle", "url", "auth", "check", "do", "wait"}
  /\ used \in [Names -> Storable]
  /\ result \in {"none", "ok", "error"}
  /\ over \in BOOLEAN
  /\ reply \in {"none", "2xx", "3xx", "other"}
  /\ sentTo \in SUBSET (Storable \cup {Elsewhere})
  /\ pending \in BOOLEAN /\ taken \in BOOLEAN
  /\ stored \in [Names -> Storable]
  /\ updates \in 0 .. MaxUpdates

(* The message and the Authorization header go to the URL that was looked  *)
(* up and to no other, whatever a receiver answers.                        *)
OnlyToTheURL == sentTo \subseteq {used["url"]} \cap URLs

OneSend == INSTANCE OneSend WITH busy <- pc # "idle",
  result <- IF pc = "idle" THEN result ELSE "none"

(* The check may rely on what OneSend promises.                            *)
ImplementsOneSend == OneSend!Spec

(* The check and the operator may rely on both, whatever a receiver does.  *)
SendIsSound == ImplementsOneSend /\ [](TypeOK /\ OnlyToTheURL)
=============================================================================
