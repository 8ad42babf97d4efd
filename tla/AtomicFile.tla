----------------------------- MODULE AtomicFile ------------------------------
(***************************************************************************)
(* What the store promises of the state file: it holds one whole value.    *)
(* A save replaces it in one step; until the change is flushed, a power    *)
(* loss may bring the flushed value back, but nothing else.                *)
(***************************************************************************)
CONSTANTS Values, Empty

VARIABLES value, flushed

vars == <<value, flushed>>

Init == value = Empty /\ flushed = Empty

Replace(v) == value' = v /\ UNCHANGED flushed
Flush      == flushed' = value /\ UNCHANGED value
PowerLoss  == value' = flushed /\ UNCHANGED flushed

Next == (\E v \in Values : Replace(v)) \/ Flush \/ PowerLoss

Spec == Init /\ [][Next]_vars

=============================================================================
