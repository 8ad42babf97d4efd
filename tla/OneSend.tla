------------------------------ MODULE OneSend -------------------------------
(***************************************************************************)
(* What a sender promises to the check that calls Send, whatever protocol  *)
(* it speaks: a recipient takes a message at most once per call, and only  *)
(* a message that was taken is reported as sent.  An error says nothing:   *)
(* the recipient may have taken the message, or take it later.             *)
(***************************************************************************)
VARIABLES
  busy,   \* a call of Send is under way
  taken,  \* the recipient has taken its message
  result  \* what the last call returned

vars == <<busy, taken, result>>

Init == busy = FALSE /\ taken = FALSE /\ result = "none"

Begin ==
  /\ ~busy
  /\ busy' = TRUE /\ taken' = FALSE /\ result' = "none"

Take ==
  /\ ~taken
  /\ busy \/ result = "error"
  /\ taken' = TRUE
  /\ UNCHANGED <<busy, result>>

End ==
  /\ busy
  /\ busy' = FALSE
  /\ result' = "error" \/ (taken /\ result' = "ok")
  /\ UNCHANGED taken

Next == Begin \/ Take \/ End

Spec == Init /\ [][Next]_vars
=============================================================================
