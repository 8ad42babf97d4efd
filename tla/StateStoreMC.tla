---------------------------- MODULE StateStoreMC -----------------------------
(***************************************************************************)
(* Instance of StateStore for TLC: three saves of two values, in two       *)
(* writes each, with a concurrent Load.                                    *)
(***************************************************************************)
EXTENDS StateStore

CONSTANTS empty, old, new, r1

TwoValues == {empty, old, new}
OneReader == {r1}

=============================================================================
