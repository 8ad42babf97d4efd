------------------------------ MODULE QuotaRound -----------------------------
(***************************************************************************)
(* What a round of account queries promises to the check that started it:  *)
(* each account is answered at most once and its answer is never changed,  *)
(* and the round ends without an answer for some account only if it was    *)
(* cancelled, which the check can see in its context.                      *)
(***************************************************************************)
CONSTANTS Accounts, Answers, Unanswered

VARIABLES
  accounts,   \* the accounts the round is about
  answer,     \* per account, its answer
  cancelled,  \* the context of the check
  ended       \* the round has returned

vars == <<accounts, answer, cancelled, ended>>

Init ==
  /\ accounts  = {}
  /\ answer    = [a \in Accounts |-> Unanswered]
  /\ cancelled \in BOOLEAN
  /\ ended     = FALSE

\* The accounts become known, once.
Begin(set) ==
  /\ ~ended
  /\ accounts  = {}
  /\ accounts' = set
  /\ UNCHANGED <<answer, cancelled, ended>>

Answer(a, r) ==
  /\ ~ended
  /\ a \in accounts
  /\ answer[a] = Unanswered
  /\ answer' = [answer EXCEPT ![a] = r]
  /\ UNCHANGED <<accounts, cancelled, ended>>

Cancel ==
  /\ cancelled' = TRUE
  /\ UNCHANGED <<accounts, answer, ended>>

End ==
  /\ ~ended
  /\ cancelled \/ \A a \in accounts : answer[a] # Unanswered
  /\ ended' = TRUE
  /\ UNCHANGED <<accounts, answer, cancelled>>

Next ==
  \/ \E set \in SUBSET Accounts : Begin(set)
  \/ \E a \in Accounts, r \in Answers : Answer(a, r)
  \/ Cancel
  \/ End

Spec == Init /\ [][Next]_vars

=============================================================================
