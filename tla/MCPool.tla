------------------------------- MODULE MCPool --------------------------------
(***************************************************************************)
(* Small instances of Pool for TLC.                                        *)
(***************************************************************************)
EXTENDS Pool, TLC

CONSTANTS t1, t2, t3

\* No task submits another, or one does.
NoParents == [t \in Tasks |-> None]
OneParent == [t \in Tasks |-> IF t = t3 THEN t1 ELSE None]

\* Tasks, workers and calls of Shutdown differ in nothing but their names.
Symmetry == Permutations(Tasks) \cup Permutations(Workers) \cup Permutations(Closers)
=============================================================================
