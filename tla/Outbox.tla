-------------------------------- MODULE Outbox -------------------------------
(***************************************************************************)
(* What the check promises its recipients, without checks, files, calls or *)
(* crashes: alerts are numbered as they are raised, each is owed to the    *)
(* channels it was raised for, a channel is sent only what it is owed, and *)
(* is owed it until it got it - at least once, never invented.             *)
(***************************************************************************)
EXTENDS Naturals, Sequences, SequencesExt

CONSTANT Channels

VARIABLES
  raised,     \* the number of alerts raised
  owed,       \* (alert, channel) pairs still to be settled
  received    \* per channel, the alerts its recipient got

vars == <<raised, owed, received>>

Init ==
  /\ raised   = 0
  /\ owed     = {}
  /\ received = [ch \in Channels |-> << >>]

\* One check raises at most two alerts: a data_error and a recovery.
Raise(n, debts) ==
  /\ raised' = raised + n
  /\ debts \subseteq (raised + 1 .. raised + n) \X Channels
  /\ owed'   = owed \union debts
  /\ UNCHANGED received

Accept(alert, ch) ==
  /\ <<alert, ch>> \in owed
  /\ received' = [received EXCEPT ![ch] = Append(@, alert)]
  /\ UNCHANGED <<raised, owed>>

Settle(alert, ch) ==
  /\ <<alert, ch>> \in owed
  /\ alert \in ToSet(received[ch])
  /\ owed' = owed \ {<<alert, ch>>}
  /\ UNCHANGED <<raised, received>>

Next ==
  \/ \E n \in 1..2 :
       \E debts \in SUBSET ((raised + 1 .. raised + n) \X Channels) :
         Raise(n, debts)
  \/ \E ch \in Channels, alert \in 1..raised : Accept(alert, ch) \/ Settle(alert, ch)

Spec == Init /\ [][Next]_vars

=============================================================================
