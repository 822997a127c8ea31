---------------------------- MODULE MCTimingWheel ----------------------------
(***************************************************************************)
(* Small instances of TimingWheel for TLC.                                 *)
(***************************************************************************)
EXTENDS TimingWheel, TLC

CONSTANT MaxDeadline  \* BOUND: the largest deadline

MCDeadlines == 0 .. MaxDeadline
MCStartTimes == {0, 3}

\* Entries differ in nothing but their name.
Symmetry == Permutations(Entries)
=============================================================================
