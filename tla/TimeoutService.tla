--------------------------- MODULE TimeoutService ---------------------------
(***************************************************************************)
(* What a Timer promises about each timeout, without callers, commands, a  *)
(* scheduler or a worker pool.  A call of Schedule is accepted or refused. *)
(* An accepted timeout is pending until one thing happens to it: it is     *)
(* cancelled, it is handed to a worker, or the worker pool's rejection     *)
(* ends it.  Only a timeout that was handed to a worker runs, and at most  *)
(* once.  A closed service accepts nothing more.  Timer implements this    *)
(* specification.                                                          *)
(***************************************************************************)
EXTENDS Naturals

CONSTANTS
  Timeouts      \* the timeouts callers may ask for

VARIABLES
  status,       \* [Timeouts -> what has become of the timeout]
  ran,          \* [Timeouts -> 0 .. 1], how often its task has been run
  closed        \* the service accepts nothing more

vars == <<status, ran, closed>>

Init ==
  /\ status = [t \in Timeouts |-> "unknown"]
  /\ ran = [t \in Timeouts |-> 0]
  /\ closed = FALSE

Becomes(t, from, to) ==
  /\ status[t] = from
  /\ status' = [status EXCEPT ![t] = to]
  /\ UNCHANGED <<ran, closed>>

Accept(t) == ~closed /\ Becomes(t, "unknown", "pending")
Refuse(t) == Becomes(t, "unknown", "refused")
Cancel(t) == Becomes(t, "pending", "cancelled")
Hand(t)   == Becomes(t, "pending", "handed")
Reject(t) == Becomes(t, "pending", "rejected")

Run(t) ==
  /\ status[t] = "handed"
  /\ ran[t] = 0
  /\ ran' = [ran EXCEPT ![t] = 1]
  /\ UNCHANGED <<status, closed>>

Close ==
  /\ ~closed
  /\ closed' = TRUE
  /\ UNCHANGED <<status, ran>>

Next ==
  \/ \E t \in Timeouts :
       Accept(t) \/ Refuse(t) \/ Cancel(t) \/ Hand(t) \/ Reject(t) \/ Run(t)
  \/ Close

Spec == Init /\ [][Next]_vars
=============================================================================
