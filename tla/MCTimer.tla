------------------------------- MODULE MCTimer -------------------------------
(***************************************************************************)
(* Small instances of Timer for TLC.                                       *)
(***************************************************************************)
EXTENDS Timer, TLC

\* Timeouts differ in nothing but their name, and so do calls of Shutdown.
Symmetry == Permutations(Timeouts) \cup Permutations(Closers)
=============================================================================
