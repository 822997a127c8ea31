------------------------------ MODULE DelayLine ------------------------------
(***************************************************************************)
(* What the timing wheel promises its owner, without wheels, buckets or a  *)
(* heap: a line of entries that carry deadlines and leave it in deadline   *)
(* order, to within one tick.  The horizon is the time the line has        *)
(* reached; it only moves forward and never passes an entry that is still  *)
(* held.  TimingWheel implements this specification.                       *)
(***************************************************************************)
EXTENDS Integers

CONSTANTS
  Entries,      \* the entries the owner may put on the line
  Deadlines,    \* the deadlines they may carry
  Tick,         \* the resolution of the line, in milliseconds
  None          \* not an entry

VARIABLES
  held,         \* the entries on the line
  deadline,     \* [Entries -> Int], the deadline each entry carries
  horizon,      \* the time the line has reached
  due           \* the entry handed back to the owner as due, or None

vars == <<held, deadline, horizon, due>>

Init ==
  /\ held = {}
  /\ deadline \in [Entries -> Int]
  /\ horizon \in Int
  /\ due = None

\* The owner puts an entry that is not on the line, with any deadline.
Put(e, d) ==
  /\ due = None
  /\ e \notin held
  /\ held' = held \cup {e}
  /\ deadline' = [deadline EXCEPT ![e] = d]
  /\ UNCHANGED <<horizon, due>>

\* The owner puts the entry it was just handed back, with a new deadline.
PutBack(d) ==
  /\ due # None
  /\ held' = held \cup {due}
  /\ deadline' = [deadline EXCEPT ![due] = d]
  /\ due' = None
  /\ UNCHANGED horizon

\* The horizon moves forward, past nothing that is still held.
Advance ==
  /\ due = None
  /\ horizon' \in Int
  /\ horizon' > horizon
  /\ \A e \in held : horizon' <= deadline[e]
  /\ UNCHANGED <<held, deadline, due>>

\* An entry is handed back: never a full tick before its deadline, and never
\* a full tick after an entry that stays behind.
HandBack(e) ==
  /\ due = None
  /\ e \in held
  /\ deadline[e] < horizon + Tick
  /\ \A f \in held : deadline[e] < deadline[f] + Tick
  /\ held' = held \ {e}
  /\ due' = e
  /\ UNCHANGED <<deadline, horizon>>

\* An entry whose timeout was cancelled leaves the line without coming due.
Drop(e) ==
  /\ e \in held
  /\ held' = held \ {e}
  /\ UNCHANGED <<deadline, horizon, due>>

\* The owner is done with the entry that was due.
Accept ==
  /\ due # None
  /\ due' = None
  /\ UNCHANGED <<held, deadline, horizon>>

Next ==
  \/ \E e \in Entries, d \in Deadlines : Put(e, d)
  \/ \E d \in Deadlines : PutBack(d)
  \/ Advance
  \/ \E e \in Entries : HandBack(e) \/ Drop(e)
  \/ Accept

Spec == Init /\ [][Next]_vars
=============================================================================
