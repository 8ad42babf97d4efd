--------------------------- MODULE SendersProofs ----------------------------
(***************************************************************************)
(* Proofs about the two senders for any values, any number of recipients   *)
(* and any number of updates.  The inductive invariant of SMTPSender says  *)
(* what is settled at each line of Send: that the server has nothing to    *)
(* decide on before the end of the data, that the lines after RCPT are     *)
(* only reached with every recipient accepted, when the goroutine and the  *)
(* connection exist, and that what is about to be returned is right.       *)
(***************************************************************************)
EXTENDS SendersMC, TLAPS

Before == {"password", "recipients", "check", "dial"}

Talking == Before \cup {"handshake", "greeting", "hello", "starttls", "auth", "mail",
                        "rcpt", "data", "write", "end"}

Leaving == {"close", "stop", "join"}

(* Until the data ends there is nothing the server could have taken.       *)
Unsent ==
  /\ pc \in Talking => ~pending /\ ~taken
  /\ pending => ~taken

(* The lines after RCPT are reached with every recipient accepted.         *)
Counted ==
  /\ pc = "rcpt" => accepted < Recipients
  /\ pc \in Talking \ {"rcpt", "data", "write", "end"} => accepted = 0
  /\ pc \in {"data", "write", "end", "answer", "quit"} => accepted = Recipients

Encrypted == pc = "greeting" /\ mode = "implicit_tls" => tls

Attended ==
  /\ pc \in Before \cup {"stop", "join"} => conn # "open"
  /\ pc \in Before \cup {"handshake"} => watcher # "watching"

LookedUp ==
  /\ \A n \in Names : stored[n] \in since[n]
  /\ pc = "recipients" => used["password"] \in since["password"]
  /\ pc = "check" => \A n \in Names : used[n] \in since[n]

Returns ==
  /\ pc = "quit" => taken
  /\ pc \in Leaving => result \in {"ok", "error"}
  /\ pc \in Leaving \cup {"idle"} /\ result = "ok" => taken
  /\ pc = "idle" /\ result = "none" => ~pending

IInv ==
  /\ TypeOK
  /\ Unsent
  /\ Counted
  /\ Encrypted
  /\ Attended
  /\ LookedUp
  /\ Returns
  /\ ValuesAreCurrent
  /\ AllRecipientsOrNone
  /\ OnlyOverTLS
  /\ NothingIsLeftBehind

-----------------------------------------------------------------------------
(* Every action, and a step that changes nothing, keeps what is settled.   *)
LEMMA StepKeeps == IInv /\ [Next]_vars => IInv'
<1> SUFFICES ASSUME IInv, [Next]_vars PROVE IInv'
  OBVIOUS
<1> USE SmtpAssumption DEF IInv, TypeOK, Unsent, Counted, Encrypted, Attended, LookedUp,
      Returns, ValuesAreCurrent, AllRecipientsOrNone, OnlyOverTLS, NothingIsLeftBehind,
      Names, Before, Talking, Leaving, Dialogue, values, server, guard
<1>1. CASE Begin
  <2>1. TypeOK'
    <3>1. since' \in [Names -> SUBSET Values]
      <4>1. \A n \in Names : {stored[n]} \in SUBSET Values
        OBVIOUS
      <4> QED
        BY <1>1, <4>1 DEF Begin
    <3>2. /\ pc' = "password" /\ mode' \in {"starttls", "implicit_tls"} /\ used' = used
          /\ accepted' = 0 /\ result' = "none" /\ over' = FALSE /\ conn' = "none"
          /\ tls' = FALSE /\ watcher' = "none" /\ stop' = FALSE /\ pending' = FALSE
          /\ taken' = FALSE /\ stored' = stored /\ updates' = updates
      BY <1>1 DEF Begin
    <3>3. /\ used' \in [Names -> Values]
          /\ stored' \in [Names -> Values]
          /\ updates' \in 0 .. MaxUpdates
      BY <3>2
    <3>4. accepted' \in 0 .. Recipients
      BY <3>2
    <3>5. pending' \in BOOLEAN /\ taken' \in BOOLEAN /\ over' \in BOOLEAN /\ tls' \in BOOLEAN
            /\ stop' \in BOOLEAN
      BY <3>2
    <3>6. /\ pc' \in Dialogue \cup {"idle", "password", "recipients", "check", "dial",
                                   "handshake", "close", "stop", "join"}
          /\ result' \in {"none", "ok", "error"}
          /\ conn' \in {"none", "open", "closed"}
          /\ watcher' \in {"none", "watching", "done"}
      BY <3>2
    <3> QED
      BY ONLY <3>1, <3>2, <3>3, <3>4, <3>5, <3>6 DEF TypeOK, Names, Dialogue
  <2>2. Unsent'
    BY <1>1 DEF Begin
  <2>3. Counted'
    BY <1>1 DEF Begin
  <2>4. Encrypted'
    BY <1>1 DEF Begin
  <2>5. Attended'
    BY <1>1 DEF Begin
  <2>6. LookedUp'
    BY <1>1 DEF Begin
  <2>7. Returns'
    BY <1>1 DEF Begin
  <2>8. ValuesAreCurrent'
    BY <1>1 DEF Begin
  <2>9. AllRecipientsOrNone'
    BY <1>1 DEF Begin
  <2>10. OnlyOverTLS'
    BY <1>1 DEF Begin
  <2>11. NothingIsLeftBehind'
    BY <1>1 DEF Begin
  <2> QED
    BY <2>1, <2>2, <2>3, <2>4, <2>5, <2>6, <2>7, <2>8, <2>9, <2>10, <2>11
<1>2. CASE Lookup("password", "recipients")
  BY <1>2 DEF Lookup
<1>3. CASE Lookup("recipients", "check")
  BY <1>3 DEF Lookup
<1>4. CASE CheckValues
  BY <1>4 DEF CheckValues, ReturnError, Complete
<1>5. CASE Dial
  BY <1>5 DEF Dial, Connected
<1>6. CASE DialFails
  BY <1>6 DEF DialFails, ReturnError
<1>7. CASE Handshake
  BY <1>7 DEF Handshake, Connected
<1>8. CASE HandshakeFails
  BY <1>8 DEF HandshakeFails, ReturnError
<1>9. CASE Greeting
  BY <1>9 DEF Greeting, Command
<1>10. CASE Hello
  BY <1>10 DEF Hello, Command
<1>11. CASE StartTLS
  BY <1>11 DEF StartTLS, Command
<1>12. CASE Auth
  BY <1>12 DEF Auth, Command
<1>13. CASE Mail
  BY <1>13 DEF Mail, Command
<1>14. CASE Rcpt
  BY <1>14 DEF Rcpt, Command
<1>15. CASE Data
  BY <1>15 DEF Data, Command
<1>16. CASE Write
  BY <1>16 DEF Write, Command
<1>17. CASE EndData
  BY <1>17 DEF EndData
<1>18. CASE Answer
  BY <1>18 DEF Answer, Command
<1>19. CASE Quit
  BY <1>19 DEF Quit
<1>20. CASE Refused
  BY <1>20 DEF Refused, GiveUp
<1>21. CASE Broken
  BY <1>21 DEF Broken, GiveUp
<1>22. CASE CloseConn
  BY <1>22 DEF CloseConn
<1>23. CASE StopWatch
  BY <1>23 DEF StopWatch
<1>24. CASE Join
  BY <1>24 DEF Join
<1>25. CASE WatchOver
  BY <1>25 DEF WatchOver
<1>26. CASE WatchStop
  BY <1>26 DEF WatchStop
<1>27. CASE Cancel
  BY <1>27 DEF Cancel
<1>28. CASE Deadline
  BY <1>28 DEF Deadline
<1>29. CASE Hangup
  BY <1>29 DEF Hangup
<1>30. CASE Take
  <2>1. TypeOK'
    BY <1>30 DEF Take
  <2>2. Unsent'
    BY <1>30 DEF Take
  <2>3. Counted'
    BY <1>30 DEF Take
  <2>4. Encrypted'
    BY <1>30 DEF Take
  <2>5. Attended'
    BY <1>30 DEF Take
  <2>6. LookedUp'
    BY <1>30 DEF Take
  <2>7. Returns'
    BY <1>30 DEF Take
  <2>8. ValuesAreCurrent'
    BY <1>30 DEF Take
  <2>9. AllRecipientsOrNone'
    BY <1>30 DEF Take
  <2>10. OnlyOverTLS'
    BY <1>30 DEF Take
  <2>11. NothingIsLeftBehind'
    BY <1>30 DEF Take
  <2> QED
    BY <2>1, <2>2, <2>3, <2>4, <2>5, <2>6, <2>7, <2>8, <2>9, <2>10, <2>11
<1>31. CASE Update
  BY <1>31 DEF Update
<1>32. CASE UNCHANGED vars
  BY <1>32 DEF vars
<1> QED
  BY <1>1, <1>2, <1>3, <1>4, <1>5, <1>6, <1>7, <1>8, <1>9, <1>10, <1>11, <1>12,
     <1>13, <1>14, <1>15, <1>16, <1>17, <1>18, <1>19, <1>20, <1>21, <1>22, <1>23, <1>24,
     <1>25, <1>26, <1>27, <1>28, <1>29, <1>30, <1>31, <1>32 DEF Next, Send

LEMMA InitHolds == Init => IInv
<1> SUFFICES ASSUME Init PROVE IInv
  OBVIOUS
<1>1. TypeOK
  <2>1. since \in [Names -> SUBSET Values]
    <3>1. \A n \in Names : {stored[n]} \in SUBSET Values
      BY DEF Init
    <3> QED
      BY <3>1 DEF Init
  <2>2. /\ used \in [Names -> Values]
        /\ accepted \in 0 .. Recipients
        /\ updates \in 0 .. MaxUpdates
    BY SmtpAssumption DEF Init
  <2> QED
    BY <2>1, <2>2 DEF Init, TypeOK
<1>2. Unsent /\ Counted /\ Encrypted /\ Attended /\ LookedUp /\ Returns
  BY DEF Init, Unsent, Counted, Encrypted, Attended, LookedUp, Returns, Before, Talking, Leaving
<1>3. ValuesAreCurrent /\ AllRecipientsOrNone /\ OnlyOverTLS /\ NothingIsLeftBehind
  BY DEF Init, ValuesAreCurrent, AllRecipientsOrNone, OnlyOverTLS, NothingIsLeftBehind, Dialogue
<1> QED
  BY <1>1, <1>2, <1>3 DEF IInv

LEMMA InvariantHolds == Spec => []IInv
  BY InitHolds, StepKeeps, PTL DEF Spec
-----------------------------------------------------------------------------
(* The variables keep their types.                                         *)
THEOREM TypesHold == Spec => []TypeOK
<1>1. IInv => TypeOK
  BY DEF IInv
<1> QED
  BY <1>1, InvariantHolds, PTL

(* Whatever is stored meanwhile, a message is sent with values that were   *)
(* stored while it was being sent.                                         *)
THEOREM ValuesStayCurrent == Spec => []ValuesAreCurrent
<1>1. IInv => ValuesAreCurrent
  BY DEF IInv
<1> QED
  BY <1>1, InvariantHolds, PTL

(* The server is given the message for any number of recipients, or for    *)
(* none of them.                                                           *)
THEOREM NobodyIsLeftOut == Spec => []AllRecipientsOrNone
<1>1. IInv => AllRecipientsOrNone
  BY DEF IInv
<1> QED
  BY <1>1, InvariantHolds, PTL

(* What follows the handshake goes over TLS, in both modes.                *)
THEOREM AllOverTLS == Spec => []OnlyOverTLS
<1>1. IInv => OnlyOverTLS
  BY DEF IInv
<1> QED
  BY <1>1, InvariantHolds, PTL

(* A call that has returned leaves no goroutine and no connection.         *)
THEOREM NothingStays == Spec => []NothingIsLeftBehind
<1>1. IInv => NothingIsLeftBehind
  BY DEF IInv
<1> QED
  BY <1>1, InvariantHolds, PTL
-----------------------------------------------------------------------------
(* Send starts as OneSend does, ...                                        *)
LEMMA InitRefines == Init => OneSend!Init
  BY DEF Init, OneSend!Init

(* ... and each of its steps is one of OneSend, or none.                   *)
LEMMA StepRefines == IInv /\ [Next]_vars => [OneSend!Next]_(OneSend!vars)
<1> SUFFICES ASSUME IInv, [Next]_vars PROVE [OneSend!Next]_(OneSend!vars)
  OBVIOUS
<1> USE DEF IInv, Unsent, Returns, Talking, Before, Leaving, Dialogue, OneSend!vars,
      values, server, guard
<1>1. CASE Begin
  <2>1. OneSend!Begin
    BY <1>1 DEF Begin, OneSend!Begin
  <2> QED
    BY <2>1 DEF OneSend!Next
<1>2. CASE Take
  <2>1. OneSend!Take \/ UNCHANGED OneSend!vars
    BY <1>2 DEF Take, OneSend!Take, TypeOK
  <2> QED
    BY <2>1 DEF OneSend!Next
<1>3. CASE Join
  <2>1. OneSend!End
    BY <1>3 DEF Join, OneSend!End
  <2> QED
    BY <2>1 DEF OneSend!Next
<1>4. CASE CheckValues
  <2>1. OneSend!End \/ UNCHANGED OneSend!vars
    BY <1>4 DEF CheckValues, ReturnError, OneSend!End
  <2> QED
    BY <2>1 DEF OneSend!Next
<1>5. CASE DialFails
  <2>1. OneSend!End
    BY <1>5 DEF DialFails, ReturnError, OneSend!End
  <2> QED
    BY <2>1 DEF OneSend!Next
<1>6. CASE HandshakeFails
  <2>1. OneSend!End
    BY <1>6 DEF HandshakeFails, ReturnError, OneSend!End
  <2> QED
    BY <2>1 DEF OneSend!Next
<1>7. CASE Lookup("password", "recipients")
  BY <1>7 DEF Lookup
<1>8. CASE Lookup("recipients", "check")
  BY <1>8 DEF Lookup
<1>9. CASE Dial
  BY <1>9 DEF Dial, Connected
<1>10. CASE Handshake
  BY <1>10 DEF Handshake, Connected
<1>11. CASE Greeting
  BY <1>11 DEF Greeting, Command
<1>12. CASE Hello
  BY <1>12 DEF Hello, Command
<1>13. CASE StartTLS
  BY <1>13 DEF StartTLS, Command
<1>14. CASE Auth
  BY <1>14 DEF Auth, Command
<1>15. CASE Mail
  BY <1>15 DEF Mail, Command
<1>16. CASE Rcpt
  BY <1>16 DEF Rcpt, Command
<1>17. CASE Data
  BY <1>17 DEF Data, Command
<1>18. CASE Write
  BY <1>18 DEF Write, Command
<1>19. CASE Answer
  BY <1>19 DEF Answer, Command
<1>20. CASE EndData
  BY <1>20 DEF EndData
<1>21. CASE Quit
  BY <1>21 DEF Quit
<1>22. CASE Refused
  BY <1>22 DEF Refused, GiveUp
<1>23. CASE Broken
  BY <1>23 DEF Broken, GiveUp
<1>24. CASE CloseConn
  BY <1>24 DEF CloseConn
<1>25. CASE StopWatch
  BY <1>25 DEF StopWatch
<1>26. CASE WatchOver
  BY <1>26 DEF WatchOver
<1>27. CASE WatchStop
  BY <1>27 DEF WatchStop
<1>28. CASE Cancel
  BY <1>28 DEF Cancel
<1>29. CASE Deadline
  BY <1>29 DEF Deadline
<1>30. CASE Hangup
  BY <1>30 DEF Hangup
<1>31. CASE Update
  BY <1>31 DEF Update
<1>32. CASE UNCHANGED vars
  BY <1>32 DEF vars
<1> QED
  BY <1>1, <1>2, <1>3, <1>4, <1>5, <1>6, <1>7, <1>8, <1>9, <1>10, <1>11, <1>12,
     <1>13, <1>14, <1>15, <1>16, <1>17, <1>18, <1>19, <1>20, <1>21, <1>22, <1>23, <1>24,
     <1>25, <1>26, <1>27, <1>28, <1>29, <1>30, <1>31, <1>32 DEF Next, Send

(* Whatever the check may rely on when it calls Send, SMTPSender keeps.    *)
THEOREM SendsAreOneSend == Spec => ImplementsOneSend
<1>1. Spec => OneSend!Init /\ [][OneSend!Next]_(OneSend!vars)
  BY InitRefines, StepRefines, InvariantHolds, PTL DEF Spec
<1> QED
  BY <1>1 DEF ImplementsOneSend, OneSend!Spec

(* What Send owes the operator, for any values and any number of           *)
(* recipients.                                                             *)
THEOREM SendsAreSound == Spec => []SendIsSound
  BY TypesHold, ValuesStayCurrent, NobodyIsLeftOut, AllOverTLS, NothingStays, PTL DEF SendIsSound

-----------------------------------------------------------------------------
(* WebhookSender.  Before the request is handed to the client no receiver  *)
(* has it; afterwards only the one that was looked up may.                 *)

WebInv ==
  /\ Web!TypeOK
  /\ Web!OnlyToTheURL
  /\ webPc \in {"url", "auth", "check", "do"} =>
       webReply = "none" /\ webSentTo = {} /\ ~webPending /\ ~webTaken
  /\ webPc = "do" => webUsed["url"] \in URLs
  /\ webPending => ~webTaken /\ webReply = "none"
  /\ webReply = "2xx" => webTaken
  /\ webPc = "idle" /\ webResult = "ok" => webTaken
  /\ webPc = "idle" /\ webResult = "none" => ~webPending

LEMMA WebBound == MaxUpdates \in Nat
  BY SmtpAssumption

LEMMA WebInit == Web!Init => WebInv
<1> SUFFICES ASSUME Web!Init PROVE WebInv
  OBVIOUS
<1>1. webUsed \in [Web!Names -> Web!Storable] /\ webStored \in [Web!Names -> Web!Storable]
  BY DEF Web!Init, Web!Storable
<1>2. webUpdates \in 0 .. MaxUpdates
  BY WebBound DEF Web!Init
<1> QED
  BY <1>1, <1>2 DEF Web!Init, WebInv, Web!TypeOK, Web!OnlyToTheURL

LEMMA WebStep == WebInv /\ [Web!Next]_(Web!vars) => WebInv'
<1> SUFFICES ASSUME WebInv, [Web!Next]_(Web!vars) PROVE WebInv'
  OBVIOUS
<1> USE DEF WebInv, Web!TypeOK, Web!OnlyToTheURL, Web!receiver, Web!values, Web!Names
<1>1. CASE Web!Begin
  BY <1>1 DEF Web!Begin
<1>2. CASE Web!Lookup("url", "auth") \/ Web!Lookup("auth", "check")
  BY <1>2 DEF Web!Lookup
<1>3. CASE Web!CheckValues
  BY <1>3 DEF Web!CheckValues, Web!Return
<1>4. CASE Web!Do
  BY <1>4 DEF Web!Do
<1>5. CASE Web!Answered
  BY <1>5 DEF Web!Answered, Web!Return
<1>6. CASE Web!Fails
  BY <1>6 DEF Web!Fails, Web!Return
<1>7. CASE Web!Over
  BY <1>7 DEF Web!Over
<1>8. CASE Web!Decide
  BY <1>8 DEF Web!Decide
<1>9. CASE Web!Update
  <2>1. PICK n \in Web!Names, v \in Web!Storable : webStored' = [webStored EXCEPT ![n] = v]
    BY <1>9 DEF Web!Update
  <2>2. webUpdates' \in 0 .. MaxUpdates
    BY <1>9, WebBound DEF Web!Update
  <2>3. webStored' \in [Web!Names -> Web!Storable]
    BY <2>1
  <2>4. UNCHANGED <<webPc, webUsed, webResult, webOver, Web!receiver>>
    BY <1>9 DEF Web!Update
  <2> QED
    BY <2>2, <2>3, <2>4
<1>10. CASE UNCHANGED Web!vars
  BY <1>10 DEF Web!vars
<1> QED
  BY <1>1, <1>2, <1>3, <1>4, <1>5, <1>6, <1>7, <1>8, <1>9, <1>10 DEF Web!Next, Web!Send

(* Each of its steps is one of OneSend, or none.                           *)
LEMMA WebRefines == WebInv /\ [Web!Next]_(Web!vars) => [Web!OneSend!Next]_(Web!OneSend!vars)
<1> SUFFICES ASSUME WebInv, [Web!Next]_(Web!vars) PROVE [Web!OneSend!Next]_(Web!OneSend!vars)
  OBVIOUS
<1> USE DEF WebInv, Web!OneSend!vars, Web!receiver, Web!values
<1>e. ASSUME webPc # "idle", webPc' = "idle", webTaken' = webTaken,
             webResult' = "error" \/ (webTaken /\ webResult' = "ok")
      PROVE  Web!OneSend!Next
  BY <1>e DEF Web!OneSend!End, Web!OneSend!Next
<1>1. CASE Web!Begin
  BY <1>1 DEF Web!Begin, Web!OneSend!Begin, Web!OneSend!Next
<1>2. CASE Web!Lookup("url", "auth") \/ Web!Lookup("auth", "check")
  BY <1>2 DEF Web!Lookup
<1>3. CASE Web!CheckValues
  BY <1>3, <1>e DEF Web!CheckValues, Web!Return
<1>4. CASE Web!Do
  BY <1>4 DEF Web!Do
<1>5. CASE Web!Answered
  BY <1>5, <1>e DEF Web!Answered, Web!Return
<1>6. CASE Web!Fails
  BY <1>6, <1>e DEF Web!Fails, Web!Return
<1>7. CASE Web!Over
  BY <1>7 DEF Web!Over
<1>8. CASE Web!Decide
  <2>1. /\ ~webTaken /\ webTaken' \in BOOLEAN
        /\ webPc # "idle" \/ webResult = "error"
        /\ webPc' = webPc /\ webResult' = webResult
    BY <1>8 DEF Web!Decide, Web!TypeOK
  <2>2. CASE webTaken' = TRUE
    BY <2>1, <2>2 DEF Web!OneSend!Take, Web!OneSend!Next
  <2>3. CASE webTaken' = FALSE
    BY <2>1, <2>3 DEF Web!TypeOK
  <2> QED
    BY <2>1, <2>2, <2>3
<1>9. CASE Web!Update
  BY <1>9 DEF Web!Update
<1>10. CASE UNCHANGED Web!vars
  BY <1>10 DEF Web!vars
<1> QED
  BY <1>1, <1>2, <1>3, <1>4, <1>5, <1>6, <1>7, <1>8, <1>9, <1>10 DEF Web!Next, Web!Send

(* Whatever a receiver answers and whenever the values change, a webhook   *)
(* keeps what the check relies on, and what it is given goes to the URL    *)
(* that was looked up and to no other.                                     *)
THEOREM WebhooksAreSound == Web!Spec => WebhookIsSound
<1>1. Web!Init => Web!OneSend!Init
  BY DEF Web!Init, Web!OneSend!Init
<1>2. Web!Spec => []WebInv
  BY WebInit, WebStep, PTL DEF Web!Spec
<1>3. WebInv => Web!TypeOK /\ Web!OnlyToTheURL
  BY DEF WebInv
<1>4. Web!Spec => Web!OneSend!Spec
  BY <1>1, <1>2, WebRefines, PTL DEF Web!Spec, Web!OneSend!Spec
<1> QED
  BY <1>2, <1>3, <1>4, PTL DEF WebhookIsSound, Web!SendIsSound, Web!ImplementsOneSend
=============================================================================
