----------------------------- MODULE TaskService -----------------------------
(***************************************************************************)
(* What a worker pool promises about each task given to it, without a      *)
(* queue, workers or submitters: it is accepted or refused, an accepted    *)
(* task is run once, a closed pool accepts nothing more, and the pool      *)
(* stops only when all it accepted has been run.  Pool implements this     *)
(* specification, and Timer relies on it.                                  *)
(***************************************************************************)
CONSTANTS
  Tasks         \* the tasks that may be submitted

VARIABLES
  status,       \* [Tasks -> what has become of the task]
  closed,       \* the pool accepts nothing more
  stopped       \* the pool has stopped

vars == <<status, closed, stopped>>

Init ==
  /\ status = [t \in Tasks |-> "unknown"]
  /\ closed = FALSE
  /\ stopped = FALSE

Becomes(t, from, to) ==
  /\ status[t] = from
  /\ status' = [status EXCEPT ![t] = to]
  /\ UNCHANGED <<closed, stopped>>

Accept(t) == ~closed /\ Becomes(t, "unknown", "accepted")
Refuse(t) == Becomes(t, "unknown", "refused")
Run(t)    == ~stopped /\ Becomes(t, "accepted", "done")

Close ==
  /\ closed' = TRUE
  /\ UNCHANGED <<status, stopped>>

Stop ==
  /\ closed
  /\ \A t \in Tasks : status[t] # "accepted"
  /\ stopped' = TRUE
  /\ UNCHANGED <<status, closed>>

Next == (\E t \in Tasks : Accept(t) \/ Refuse(t) \/ Run(t)) \/ Close \/ Stop

Spec == Init /\ [][Next]_vars
=============================================================================
