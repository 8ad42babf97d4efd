----------------------------- MODULE SendersMC -----------------------------
(* The two senders a check can use, one of them per behaviour: they share  *)
(* no state but the private file, of which each looks up other names.      *)
EXTENDS SmtpSender

CONSTANTS URLs, Others, Elsewhere \* see WebhookSender

VARIABLES
  sender, \* which of the senders is used
  webPc, webUsed, webResult, webOver, webReply, webSentTo, webPending, webTaken,
  webStored, webUpdates

webVars == <<webPc, webUsed, webResult, webOver, webReply, webSentTo, webPending, webTaken,
             webStored, webUpdates>>

Web == INSTANCE WebhookSender WITH
  pc <- webPc, used <- webUsed, result <- webResult, over <- webOver, reply <- webReply,
  sentTo <- webSentTo, pending <- webPending, taken <- webTaken, stored <- webStored,
  updates <- webUpdates

ASSUME WebhookValues == Web!WebhookAssumption

MCValues == {"none", "word", "one", "two"}
MCAddresses == {"one", "two"}
MCURLs == {"one", "two"}
MCOthers == {"word"}

(* The sender that is not used has nothing stored.                         *)
SendersInit ==
  /\ sender \in {"smtp", "webhook"}
  /\ Init
  /\ Web!Init
  /\ sender = "webhook" => \A n \in Names : stored[n] = NoValue
  /\ sender = "smtp" => \A n \in Web!Names : webStored[n] = NoValue

SmtpStep == sender = "smtp" /\ Next /\ UNCHANGED <<sender, webVars>>

WebhookStep == sender = "webhook" /\ Web!Next /\ UNCHANGED <<sender, vars>>

SendersSpec ==
  SendersInit /\ [][SmtpStep \/ WebhookStep]_<<sender, vars, webVars>> /\ Fairness

(* A webhook is asked once per call, at the URL that was looked up and at  *)
(* no other, and only what it took is reported as sent.                    *)
WebhookIsSound == Web!SendIsSound
=============================================================================
