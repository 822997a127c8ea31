----------------------------- MODULE MCScheduler -----------------------------
(***************************************************************************)
(* Small instances of Scheduler for TLC.                                   *)
(***************************************************************************)
EXTENDS Scheduler

MCDelays == {1, 3}
MCStarts == {1}
MCJumps == {-2, 2}
=============================================================================
