----------------------------- MODULE SmtpSender -----------------------------
(***************************************************************************)
(* SMTPSender.Send of internal/notify/smtp.go: it looks up its values,     *)
(* connects, has TLS set up, talks to the server command by command, and   *)
(* is watched by a goroutine that closes the connection once the context   *)
(* is over.  The settings page may store other values at any time.         *)
(*                                                                         *)
(* Of the four values the password stands for the username too, and the    *)
(* recipients for the sender's address: the latter are parsed.  One call   *)
(* follows another; each is observed until the next one begins.            *)
(***************************************************************************)
EXTENDS Naturals

CONSTANTS
  Values,     \* what the private file may hold
  NoValue,    \* a value that is missing
  Addresses,  \* the values that parse as addresses
  Recipients, \* how many addresses each of them has
  MaxUpdates  \* bound on the updates of the private file

Names == {"password", "recipients"}

ASSUME SmtpAssumption ==
  /\ Addresses \subseteq Values /\ NoValue \in Values \ Addresses
  /\ Recipients \in Nat \ {0}
  /\ MaxUpdates \in Nat

VARIABLES
  pc,       \* the line Send is at
  mode,     \* SMTPConfig.TLSMode
  used,     \* the values it looked up
  accepted, \* how many recipients the server has accepted
  result,   \* what the last call returned
  over,     \* its context is cancelled or past the deadline
  conn,     \* the connection
  tls,      \* it is encrypted
  watcher,  \* the goroutine of watchConnContext
  stop,     \* the channel that ends it is closed
  pending,  \* the server has the message and has not decided
  taken,    \* the server has taken the message
  stored,   \* the private file
  updates,  \* how often it was updated
  since     \* per name, the values stored since Send began; no part of the code

values == <<stored, updates, since>>
server == <<pending, taken>>
guard == <<over, watcher, stop>>
vars == <<pc, mode, used, accepted, result, conn, tls, server, values, guard>>

Init ==
  /\ pc = "idle"
  /\ mode = "starttls"
  /\ used = [n \in Names |-> NoValue]
  /\ accepted = 0
  /\ result = "none"
  /\ over = FALSE
  /\ conn = "none"
  /\ tls = FALSE
  /\ watcher = "none"
  /\ stop = FALSE
  /\ pending = FALSE
  /\ taken = FALSE
  /\ stored \in [Names -> Values]
  /\ updates = 0
  /\ since = [n \in Names |-> {stored[n]}]
-----------------------------------------------------------------------------
Begin ==
  /\ pc = "idle"
  /\ pc' = "password"
  /\ mode' \in {"starttls", "implicit_tls"}
  /\ accepted' = 0
  /\ result' = "none"
  /\ over' = FALSE
  /\ conn' = "none"
  /\ tls' = FALSE
  /\ watcher' = "none"
  /\ stop' = FALSE
  /\ pending' = FALSE
  /\ taken' = FALSE
  /\ since' = [n \in Names |-> {stored[n]}]
  /\ UNCHANGED <<used, stored, updates>>

(* getenv: each value is read from the file by itself.                     *)
Lookup(n, label) ==
  /\ pc = n
  /\ pc' = label
  /\ used' = [used EXCEPT ![n] = stored[n]]
  /\ UNCHANGED <<mode, accepted, result, conn, tls, server, values, guard>>

Complete == used["password"] # NoValue /\ used["recipients"] \in Addresses

(* A return before anything has to be undone.                              *)
ReturnError ==
  /\ pc' = "idle"
  /\ result' = "error"
  /\ UNCHANGED <<mode, used, accepted, tls, server, values, guard>>

CheckValues ==
  /\ pc = "check"
  /\ IF Complete
       THEN pc' = "dial" /\ UNCHANGED <<mode, used, accepted, result, tls, server, values, guard>>
       ELSE ReturnError
  /\ UNCHANGED conn

(* watchConnContext starts once a connection is there to talk on.          *)
Connected ==
  /\ pc' = "greeting"
  /\ watcher' = "watching"
  /\ UNCHANGED <<over, stop>>

Dial ==
  /\ pc = "dial"
  /\ ~over
  /\ conn' = "open"
  /\ IF mode = "implicit_tls" THEN pc' = "handshake" /\ UNCHANGED guard ELSE Connected
  /\ UNCHANGED <<mode, used, accepted, result, tls, server, values>>

DialFails ==
  /\ pc = "dial"
  /\ ReturnError
  /\ UNCHANGED conn

Handshake ==
  /\ pc = "handshake"
  /\ ~over /\ conn = "open"
  /\ tls' = TRUE
  /\ Connected
  /\ UNCHANGED <<mode, used, accepted, result, conn, server, values>>

HandshakeFails ==
  /\ pc = "handshake"
  /\ conn' = "closed"
  /\ ReturnError
-----------------------------------------------------------------------------
(* A command of the dialogue that the server answers as it should.         *)
Command(label, next) ==
  /\ pc = label
  /\ conn = "open"
  /\ pc' = next
  /\ UNCHANGED <<mode, used, result, conn, server, values, guard>>

Greeting ==
  /\ Command("greeting", IF mode = "starttls" THEN "hello" ELSE "auth")
  /\ UNCHANGED <<accepted, tls>>

(* The server offers STARTTLS; if not, the dialogue is broken off.         *)
Hello ==
  /\ Command("hello", "starttls")
  /\ UNCHANGED <<accepted, tls>>

StartTLS ==
  /\ Command("starttls", "auth")
  /\ tls' = TRUE
  /\ UNCHANGED accepted

Auth == Command("auth", "mail") /\ UNCHANGED <<accepted, tls>>

Mail == Command("mail", "rcpt") /\ UNCHANGED <<accepted, tls>>

\* Variant of Rcpt: a recipient the server refuses is left out.
RcptAnyway ==
  /\ \/ accepted + 1 < Recipients /\ Command("rcpt", "rcpt") /\ accepted' = accepted + 1
     \/ accepted + 1 = Recipients /\ Command("rcpt", "data") /\ accepted' = accepted + 1
     \/ accepted > 0 /\ Command("rcpt", "data") /\ UNCHANGED accepted
  /\ UNCHANGED tls

Rcpt ==
  /\ Command("rcpt", IF accepted + 1 = Recipients THEN "data" ELSE "rcpt")
  /\ accepted' = accepted + 1
  /\ UNCHANGED tls

Data == Command("data", "write") /\ UNCHANGED <<accepted, tls>>

Write == Command("write", "end") /\ UNCHANGED <<accepted, tls>>

(* writer.Close ends the message and waits for the answer of the server.   *)
EndData ==
  /\ pc = "end"
  /\ conn = "open"
  /\ pc' = "answer"
  /\ pending' = TRUE
  /\ UNCHANGED <<mode, used, accepted, result, conn, tls, taken, values, guard>>

\* Variant of Answer: the message is sent, whatever becomes of it.
AnswerUnread ==
  /\ Command("answer", "quit")
  /\ UNCHANGED <<accepted, tls>>

Answer ==
  /\ taken
  /\ Command("answer", "quit")
  /\ UNCHANGED <<accepted, tls>>

Quit ==
  /\ pc = "quit"
  /\ conn = "open"
  /\ pc' = "close"
  /\ result' = "ok"
  /\ UNCHANGED <<mode, used, accepted, conn, tls, server, values, guard>>

Dialogue == {"greeting", "hello", "starttls", "auth", "mail", "rcpt", "data", "write",
             "end", "answer", "quit"}

GiveUp ==
  /\ pc' = "close"
  /\ result' = "error"
  /\ UNCHANGED <<mode, used, accepted, conn, tls, server, values, guard>>

(* The server refuses, or what it says makes no sense.                     *)
Refused ==
  /\ pc \in Dialogue \ {"write", "end"}
  /\ conn = "open"
  /\ pc = "answer" => ~pending /\ ~taken
  /\ GiveUp

(* The next read or write on a connection that is gone.                    *)
Broken ==
  /\ pc \in Dialogue
  /\ conn = "closed"
  /\ GiveUp

(* The deferred calls: client.Close, stopWatch, conn.Close, cancel.        *)
CloseConn ==
  /\ pc = "close"
  /\ pc' = "stop"
  /\ conn' = "closed"
  /\ UNCHANGED <<mode, used, accepted, result, tls, server, values, guard>>

StopWatch ==
  /\ pc = "stop"
  /\ pc' = "join"
  /\ stop' = TRUE
  /\ UNCHANGED <<mode, used, accepted, result, conn, tls, server, values, over, watcher>>

Join ==
  /\ pc = "join"
  /\ watcher = "done"
  /\ pc' = "idle"
  /\ UNCHANGED <<mode, used, accepted, result, conn, tls, server, values, guard>>

Send ==
  \/ Begin
  \/ Lookup("password", "recipients") \/ Lookup("recipients", "check") \/ CheckValues
  \/ Dial \/ DialFails \/ Handshake \/ HandshakeFails
  \/ Greeting \/ Hello \/ StartTLS \/ Auth \/ Mail \/ Rcpt \/ Data \/ Write \/ EndData
  \/ Answer \/ Quit \/ Refused \/ Broken
  \/ CloseConn \/ StopWatch \/ Join
-----------------------------------------------------------------------------
\* Variant of WatchOver: the goroutine ends without closing the connection.
WatchOverIdly ==
  /\ watcher = "watching"
  /\ over
  /\ watcher' = "done"
  /\ UNCHANGED <<pc, mode, used, accepted, result, conn, tls, server, values, over, stop>>

WatchOver ==
  /\ watcher = "watching"
  /\ over
  /\ watcher' = "done"
  /\ conn' = "closed"
  /\ UNCHANGED <<pc, mode, used, accepted, result, tls, server, values, over, stop>>

WatchStop ==
  /\ watcher = "watching"
  /\ stop
  /\ watcher' = "done"
  /\ UNCHANGED <<pc, mode, used, accepted, result, conn, tls, server, values, over, stop>>

(* App.Close, or the check that called Send is given up.                   *)
Cancel ==
  /\ pc # "idle"
  /\ ~over
  /\ over' = TRUE
  /\ UNCHANGED <<pc, mode, used, accepted, result, conn, tls, server, values, watcher, stop>>

(* timeout_seconds are over, for the context and for the connection.       *)
Deadline ==
  /\ pc \notin {"idle", "password", "recipients", "check"}
  /\ ~over
  /\ over' = TRUE
  /\ conn' = IF conn = "open" THEN "closed" ELSE conn
  /\ UNCHANGED <<pc, mode, used, accepted, result, tls, server, values, watcher, stop>>

(* The server closes the connection, or the network loses it.              *)
Hangup ==
  /\ conn = "open"
  /\ conn' = "closed"
  /\ UNCHANGED <<pc, mode, used, accepted, result, tls, server, values, guard>>

(* The server decides, in its own time.                                    *)
Take ==
  /\ pending
  /\ pending' = FALSE
  /\ taken' \in BOOLEAN
  /\ UNCHANGED <<pc, mode, used, accepted, result, conn, tls, values, guard>>

(* PUT secrets                                                             *)
Update ==
  /\ updates < MaxUpdates
  /\ updates' = updates + 1
  /\ \E n \in Names, v \in Values :
       /\ stored' = [stored EXCEPT ![n] = v]
       /\ since' = [since EXCEPT ![n] = @ \cup {v}]
  /\ UNCHANGED <<pc, mode, used, accepted, result, conn, tls, server, guard>>

Next ==
  \/ Send
  \/ WatchOver \/ WatchStop
  \/ Cancel \/ Deadline \/ Hangup \/ Take \/ Update

Spec == Init /\ [][Next]_vars

(* What runs by itself: the lines of Send that wait for nobody, reads and  *)
(* writes on a connection that is gone, a dialer or a handshake whose      *)
(* context is over, and the goroutine.  Servers may stay silent for ever.  *)
Fairness ==
  /\ WF_vars(Lookup("password", "recipients") \/ Lookup("recipients", "check"))
  /\ WF_vars(CheckValues)
  /\ WF_vars(over /\ (DialFails \/ HandshakeFails))
  /\ WF_vars(Broken)
  /\ WF_vars(CloseConn \/ StopWatch \/ Join)
  /\ WF_vars(WatchOver \/ WatchStop)

FairSpec == Spec /\ Fairness
-----------------------------------------------------------------------------
TypeOK ==
  /\ pc \in Dialogue \cup {"idle", "password", "recipients", "check", "dial", "handshake",
                           "close", "stop", "join"}
  /\ mode \in {"starttls", "implicit_tls"}
  /\ used \in [Names -> Values]
  /\ accepted \in 0 .. Recipients
  /\ result \in {"none", "ok", "error"}
  /\ over \in BOOLEAN
  /\ conn \in {"none", "open", "closed"}
  /\ tls \in BOOLEAN
  /\ watcher \in {"none", "watching", "done"}
  /\ stop \in BOOLEAN
  /\ pending \in BOOLEAN /\ taken \in BOOLEAN
  /\ stored \in [Names -> Values]
  /\ updates \in 0 .. MaxUpdates
  /\ since \in [Names -> SUBSET Values]

(* A message is sent with values that were stored while it was being sent: *)
(* an update takes effect with the next call of Send, though the sender    *)
(* lives as long as the check that built it.                               *)
ValuesAreCurrent ==
  pc \in Dialogue \cup {"dial", "handshake"} => \A n \in Names : used[n] \in since[n]

(* The server is given the message for all the recipients or for none, so  *)
(* that an alert is never reported as sent when somebody was left out.     *)
AllRecipientsOrNone == pending \/ taken => accepted = Recipients

(* Credentials, addresses and the message go over TLS in both modes.       *)
OnlyOverTLS == pc \in Dialogue \ {"greeting", "hello", "starttls"} => tls

(* When Send has returned, its goroutine is gone and its connection closed *)
NothingIsLeftBehind == pc = "idle" => watcher # "watching" /\ conn # "open"

(* What Send owes the operator at every line, whatever the server does.    *)
SendIsSound ==
  TypeOK /\ ValuesAreCurrent /\ AllRecipientsOrNone /\ OnlyOverTLS /\ NothingIsLeftBehind

OneSend == INSTANCE OneSend WITH busy <- pc # "idle",
  result <- IF pc = "idle" THEN result ELSE "none"

(* The check may rely on what OneSend promises.                            *)
ImplementsOneSend == OneSend!Spec

(* Send returns once its context is over, even while the server keeps      *)
(* silent, at whatever line it is.                                         *)
SendsEnd == over /\ pc # "idle" ~> pc = "idle"
=============================================================================
