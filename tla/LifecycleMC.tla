----------------------------- MODULE LifecycleMC -----------------------------
(***************************************************************************)
(* Instances of Lifecycle for TLC.                                         *)
(***************************************************************************)
EXTENDS Lifecycle

CONSTANTS t1, t2

TwoThreads == {t1, t2}

=============================================================================
