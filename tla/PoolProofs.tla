----------------------------- MODULE PoolProofs -----------------------------
(***************************************************************************)
(* Proofs about Pool, for any tasks, any number of workers and of calls of *)
(* Shutdown, any capacity and either policy.                               *)
(***************************************************************************)
EXTENDS Pool, ChannelLemmas

-----------------------------------------------------------------------------
(* The inductive invariant *)

\* The calls that submitsDone counts.
InSubmit == {t \in Tasks : call[t] \in {"offer", "count", "end", "fail"}}
Counting == {t \in Tasks : call[t] = "count"}
Gone     == {w \in Workers : worker[w] = "gone"}

Queued(t)  == \E i \in 1 .. Len(queue) : queue[i] = t
Running(t) == \E w \in Workers : task[w] = t

\* The channel can be received from no more, and will be sent to no more.
Drained == queueClosed /\ queue = <<>>

SubmitInv == IsFiniteSet(InSubmit) /\ submits = Cardinality(InSubmit)

\* The gate is shut before the channel is closed, and nobody is inside then.
GateInv ==
  /\ \A c \in Closers : closer[c] = "drain" => isClosed
  /\ queueClosed => isClosed /\ submits = 0

\* A task that was sent is in the queue, with one worker, or was run once.
PlaceInv ==
  /\ \A i, j \in 1 .. Len(queue) : queue[i] = queue[j] => i = j
  /\ \A w \in Workers : task[w] # None <=> worker[w] = "run"
  /\ \A v, w \in Workers : task[v] # None /\ task[v] = task[w] => v = w
  /\ \A t \in Tasks : Queued(t) => ~Running(t)
  /\ \A t \in Tasks : Queued(t) \/ Running(t) => Sent(t)
  /\ \A t \in Tasks :
       ran[t] = IF Sent(t) /\ ~Queued(t) /\ ~Running(t) THEN 1 ELSE 0

\* As long as there is something to receive, or may be, a worker leaves only
\* when a task ends it.
GoneInv ==
  /\ ~Drained => exits = Cardinality(Gone)
  /\ done => \A w \in Workers : worker[w] = "gone"

\* What calls of Shutdown have waited for.
AwaitInv ==
  \A c \in Closers : /\ closer[c] \in {"report", "returned"} => done
                     /\ closer[c] = "returned" => ~reporting

IInv ==
  TypeOK /\ SubmitInv /\ GateInv /\ PlaceInv /\ GoneInv /\ AwaitInv /\ DepthExact

-----------------------------------------------------------------------------
(* Counting *)

LEMMA FiniteCounts ==
  ASSUME TypeOK, SubmitInv
  PROVE  /\ IsFiniteSet(Busy) /\ IsFiniteSet(Counting) /\ IsFiniteSet(Gone)
         /\ Cardinality(Busy) \in Nat /\ Cardinality(Counting) \in Nat
         /\ Cardinality(Gone) \in Nat
<1>1. Busy \in SUBSET Workers /\ Gone \in SUBSET Workers /\ Counting \in SUBSET InSubmit
  BY DEF Busy, Gone, Counting, InSubmit
<1>2. QED  BY <1>1, PoolAssumption, FS_Subset, FS_CardinalityType DEF SubmitInv

-----------------------------------------------------------------------------
(* Init *)

LEMMA InitInv == Init => IInv
<1> SUFFICES ASSUME Init PROVE IInv  OBVIOUS
<1>0. queue \in Seq(Tasks) /\ Len(queue) = 0  BY DEF Init
<1>1. TypeOK
  <2>1. waits \in [Tasks -> BOOLEAN]  BY DEF Init
  <2>2. /\ Len(queue) <= QueueCapacity
        /\ submits \in Nat /\ depth \in Int /\ exits \in 0 .. MaxExits
    BY <1>0, PoolAssumption DEF Init
  <2>3. /\ task \in [Workers -> Tasks \cup {None}] /\ ran \in [Tasks -> Nat]
        /\ worker \in [Workers -> {"idle", "parked", "run", "count", "gone"}]
    BY DEF Init
  <2>4. QED  BY <1>0, <2>1, <2>2, <2>3 DEF Init, TypeOK
<1>2. InSubmit = {} /\ Counting = {} /\ Busy = {} /\ Gone = {}
  BY DEF Init, InSubmit, Counting, Busy, Gone
<1>3. SubmitInv  BY <1>2, FS_EmptySet DEF Init, SubmitInv
<1>4. GateInv /\ AwaitInv  BY DEF Init, GateInv, AwaitInv
<1>5. PlaceInv  BY PoolAssumption DEF Init, PlaceInv, Queued, Running, Sent
<1>6. GoneInv  BY <1>2, FS_EmptySet DEF Init, GoneInv, Drained
<1>7. DepthExact
  <2>1. Cardinality(Busy) = 0 /\ Cardinality(Counting) = 0  BY <1>2, FS_EmptySet
  <2>2. depth = 0 /\ exits = 0  BY DEF Init
  <2>3. QED  BY <1>0, <2>1, <2>2 DEF DepthExact, Counting
<1>8. QED  BY <1>1, <1>3, <1>4, <1>5, <1>6, <1>7 DEF IInv

-----------------------------------------------------------------------------
(* Every step preserves the invariant: one lemma for each of its parts. *)

LEMMA TypeStep ==
  ASSUME TypeOK, PlaceInv, SubmitInv, Next
  PROVE  TypeOK'
<1> USE DEF TypeOK, Goto, WorkerGoto, Step, submitVars, gateVars, queueVars, workerVars, closeVars
<1>1. ASSUME NEW t \in Tasks, Submit(t) \/ SubmitStep(t) \/ ContextDone(t) PROVE TypeOK'
  <2>1. CASE Submit(t)
    <3>1. waits' \in [Tasks -> BOOLEAN]  BY <2>1, PoolAssumption DEF Submit
    <3>2. QED  BY <2>1, <3>1 DEF Submit
  <2>2. CASE BeginSubmit(t)  BY <2>2 DEF BeginSubmit
  <2>3. CASE Offer(t)
    <3>1. CASE Parked = {} /\ queue' = Append(queue, t) /\ UNCHANGED <<worker, task>>
      <4>1. queue' \in Seq(Tasks) /\ Len(queue') <= QueueCapacity
        BY <2>3, <3>1, AppendFacts, PoolAssumption DEF Offer, HasRoom
      <4>2. QED  BY <2>3, <3>1, <4>1 DEF Offer
    <3>2. CASE \E w \in Parked : /\ worker' = [worker EXCEPT ![w] = "run"]
                                 /\ task' = [task EXCEPT ![w] = t]
                                 /\ UNCHANGED queue
      BY <2>3, <3>2 DEF Offer, Parked
    <3>3. QED  BY <2>3, <3>1, <3>2 DEF Offer
  <2>4. CASE Count(t)  BY <2>4 DEF Count
  <2>5. CASE Saturated(t) \/ WokenClosed(t) \/ ContextDone(t)
    BY <2>5 DEF Saturated, WokenClosed, ContextDone, Fail
  <2>6. CASE EndSubmit(t)
    <3>1. t \in InSubmit  BY <2>6 DEF EndSubmit, InSubmit
    <3>2. submits \in Nat \ {0}  BY <3>1, Loses DEF SubmitInv
    <3>3. QED  BY <2>6, <3>2 DEF EndSubmit
  <2>7. QED  BY <1>1, <2>1, <2>2, <2>3, <2>4, <2>5, <2>6 DEF SubmitStep
<1>2. ASSUME NEW w \in Workers, WorkerStep(w) PROVE TypeOK'
  <2>1. CASE Receive(w)
    <3>1. /\ queue' \in Seq(Tasks) /\ Len(queue') <= QueueCapacity
          /\ Head(queue) \in Tasks
      BY <2>1, TailFacts, PoolAssumption DEF Receive
    <3>2. QED  BY <2>1, <3>1 DEF Receive
  <2>2. CASE Park(w)  BY <2>2 DEF Park
  <2>3. CASE Leave(w)  BY <2>3 DEF Leave
  <2>4. CASE Uncount(w)  BY <2>4 DEF Uncount
  <2>5. CASE Finish(w)
    <3>1. task[w] \in Tasks  BY <2>5 DEF Finish, PlaceInv
    <3>2. ran' \in [Tasks -> Nat]  BY <2>5, <3>1 DEF Finish
    <3>3. QED  BY <2>5, <3>2 DEF Finish
  <2>6. CASE Exit(w)
    <3>1. task[w] \in Tasks  BY <2>6 DEF Exit, PlaceInv
    <3>2. ran' \in [Tasks -> Nat]  BY <2>6, <3>1 DEF Exit
    <3>3. exits' \in 0 .. MaxExits  BY <2>6, PoolAssumption DEF Exit
    <3>4. QED  BY <2>6, <3>2, <3>3 DEF Exit
  <2>7. QED  BY <1>2, <2>1, <2>2, <2>3, <2>4, <2>5, <2>6 DEF WorkerStep
<1>3. ASSUME NEW c \in Closers, Shutdown(c) \/ ShutdownStep(c) \/ GiveUp(c) PROVE TypeOK'
  <2>1. CASE Shutdown(c) \/ GiveUp(c)  BY <2>1 DEF Shutdown, GiveUp
  <2>2. CASE EnterOnce(c)  BY <2>2 DEF EnterOnce
  <2>3. CASE CloseGate(c) \/ CloseQueue(c)  BY <2>3 DEF CloseGate, CloseQueue
  <2>4. CASE AwaitDone(c) \/ AwaitReporter(c)  BY <2>4 DEF AwaitDone, AwaitReporter
  <2>5. QED  BY <1>3, <2>1, <2>2, <2>3, <2>4 DEF ShutdownStep
<1>4. CASE CloseDone \/ ReporterStop  BY <1>4 DEF CloseDone, ReporterStop
<1>5. CASE Terminated  BY <1>5 DEF Terminated, vars
<1>6. QED  BY <1>1, <1>2, <1>3, <1>4, <1>5 DEF Next

\* Only the calls themselves change what is recorded of them.
LEMMA OtherActionsKeepCalls ==
  ASSUME Next
  PROVE  \/ \E t \in Tasks : Submit(t) \/ SubmitStep(t) \/ ContextDone(t)
         \/ UNCHANGED submitVars
BY DEF Next, WorkerStep, Receive, Park, Leave, Finish, Exit, Uncount, CloseDone, ReporterStop,
       ShutdownStep, Shutdown, GiveUp, EnterOnce, CloseGate, CloseQueue, AwaitDone,
       AwaitReporter, Terminated, vars

\* submitsDone counts the calls between beginSubmit and endSubmit.
LEMMA SubmitsStep ==
  ASSUME TypeOK, SubmitInv, Next
  PROVE  SubmitInv'
<1> USE DEF SubmitInv
<1>1. ASSUME NEW t \in Tasks, BeginSubmit(t) PROVE SubmitInv'
  <2>1. CASE isClosed
    <3>1. InSubmit' = InSubmit  BY <1>1, <2>1 DEF BeginSubmit, Goto, InSubmit, TypeOK
    <3>2. QED  BY <1>1, <2>1, <3>1 DEF BeginSubmit
  <2>2. CASE ~isClosed
    <3>1. InSubmit' = InSubmit \cup {t} /\ t \notin InSubmit
      BY <1>1, <2>2 DEF BeginSubmit, Goto, InSubmit, TypeOK
    <3>2. QED  BY <1>1, <2>2, <3>1, Gains DEF BeginSubmit
  <2>3. QED  BY <2>1, <2>2
<1>2. ASSUME NEW t \in Tasks, EndSubmit(t) PROVE SubmitInv'
  <2>1. InSubmit' = InSubmit \ {t} /\ t \in InSubmit
    BY <1>2 DEF EndSubmit, Goto, InSubmit, TypeOK
  <2>2. QED  BY <1>2, <2>1, Loses DEF EndSubmit
<1>3. ASSUME NEW t \in Tasks,
             Submit(t) \/ Offer(t) \/ Count(t) \/ Saturated(t) \/ WokenClosed(t) \/ ContextDone(t)
      PROVE  SubmitInv'
  <2>1. InSubmit' = InSubmit
    BY <1>3 DEF Submit, Offer, Count, Saturated, WokenClosed, ContextDone, Fail, Goto, InSubmit,
                TypeOK
  <2>2. submits' = submits
    BY <1>3 DEF Submit, Offer, Count, Saturated, WokenClosed, ContextDone, Fail
  <2>3. QED  BY <2>1, <2>2
<1>4. ASSUME UNCHANGED <<call, submits>> PROVE SubmitInv'
  BY <1>4 DEF InSubmit
<1>5. QED  BY <1>1, <1>2, <1>3, <1>4, OtherActionsKeepCalls DEF SubmitStep, submitVars

\* The channel is closed with no call inside the gate, and nobody enters then.
LEMMA GateStep ==
  ASSUME TypeOK, SubmitInv, GateInv, Next
  PROVE  GateInv'
<1> USE DEF GateInv
<1>1. ASSUME NEW t \in Tasks, Submit(t) \/ SubmitStep(t) \/ ContextDone(t) PROVE GateInv'
  <2>1. UNCHANGED <<gateVars, closeVars, queueClosed>>
    BY <1>1 DEF Submit, SubmitStep, BeginSubmit, Offer, Count, Saturated, WokenClosed,
                ContextDone, Fail, EndSubmit, queueVars
  <2>2. isClosed /\ submits = 0 => submits' = 0
    <3>1. CASE BeginSubmit(t)  BY <3>1 DEF BeginSubmit
    <3>2. CASE EndSubmit(t)
      <4>1. t \in InSubmit  BY <3>2 DEF EndSubmit, Goto, InSubmit
      <4>2. submits # 0  BY <4>1, Loses DEF SubmitInv
      <4>3. QED  BY <4>2
    <3>3. CASE Submit(t) \/ Offer(t) \/ Count(t) \/ Saturated(t) \/ WokenClosed(t) \/ ContextDone(t)
      BY <3>3 DEF Submit, Offer, Count, Saturated, WokenClosed, ContextDone, Fail
    <3>4. QED  BY <1>1, <3>1, <3>2, <3>3 DEF SubmitStep
  <2>3. QED  BY <2>1, <2>2 DEF gateVars, closeVars
<1>2. ASSUME NEW c \in Closers, Shutdown(c) \/ ShutdownStep(c) \/ GiveUp(c) PROVE GateInv'
  <2>1. CASE CloseGate(c)
    BY <2>1 DEF CloseGate, Step, TypeOK, submitVars, queueVars
  <2>2. CASE CloseQueue(c)
    BY <2>2 DEF CloseQueue, Step, TypeOK, submitVars, gateVars
  <2>3. CASE Shutdown(c) \/ EnterOnce(c) \/ AwaitDone(c) \/ AwaitReporter(c) \/ GiveUp(c)
    <3>1. UNCHANGED <<submits, isClosed, queueClosed>>
      BY <2>3 DEF Shutdown, EnterOnce, AwaitDone, AwaitReporter, GiveUp, submitVars, gateVars,
                  queueVars
    <3>2. \A d \in Closers : closer'[d] = "drain" => closer[d] = "drain"
      BY <2>3 DEF Shutdown, EnterOnce, AwaitDone, AwaitReporter, GiveUp, Step, TypeOK
    <3>3. QED  BY <3>1, <3>2
  <2>4. QED  BY <1>2, <2>1, <2>2, <2>3 DEF ShutdownStep
<1>3. ASSUME UNCHANGED <<submits, isClosed, queueClosed, closer>> PROVE GateInv'
  BY <1>3
<1>4. CASE \E w \in Workers : WorkerStep(w)
  BY <1>3, <1>4 DEF WorkerStep, Receive, Park, Leave, Finish, Exit, Uncount, submitVars, gateVars,
                    queueVars, closeVars
<1>5. CASE CloseDone \/ ReporterStop \/ Terminated
  BY <1>3, <1>5 DEF CloseDone, ReporterStop, Terminated, vars, submitVars, gateVars, queueVars,
                    closeVars
<1>6. QED  BY <1>1, <1>2, <1>4, <1>5 DEF Next

\* A call at its send keeps the channel open.
LEMMA SendersOpen ==
  ASSUME SubmitInv, GateInv, NEW t \in InSubmit
  PROVE  ~queueClosed
BY Loses DEF SubmitInv, GateInv

\* Calls wait for what only ever becomes so.
LEMMA AwaitStep ==
  ASSUME TypeOK, AwaitInv, Next
  PROVE  AwaitInv'
<1>1. ASSUME NEW c \in Closers, Shutdown(c) \/ ShutdownStep(c) \/ GiveUp(c) PROVE AwaitInv'
  <2>1. UNCHANGED <<done, reporting>>
    BY <1>1 DEF Shutdown, ShutdownStep, GiveUp, EnterOnce, CloseGate, CloseQueue, AwaitDone,
                AwaitReporter
  <2>2. \A d \in Closers : d # c => closer'[d] = closer[d]
    BY <1>1 DEF Shutdown, ShutdownStep, GiveUp, EnterOnce, CloseGate, CloseQueue, AwaitDone,
                AwaitReporter, Step, TypeOK
  <2>3. /\ closer'[c] \in {"report", "returned"} => done
        /\ closer'[c] = "returned" => ~reporting
    BY <1>1 DEF Shutdown, ShutdownStep, GiveUp, EnterOnce, CloseGate, CloseQueue, AwaitDone,
                AwaitReporter, Step, TypeOK, AwaitInv
  <2>4. QED  BY <2>1, <2>2, <2>3 DEF AwaitInv
<1>2. ASSUME closer' = closer, done => done', reporting' => reporting PROVE AwaitInv'
  BY <1>2 DEF AwaitInv
<1>3. CASE \E t \in Tasks : Submit(t) \/ SubmitStep(t) \/ ContextDone(t)
  BY <1>2, <1>3 DEF Submit, SubmitStep, BeginSubmit, Offer, Count, Saturated, WokenClosed,
                    ContextDone, Fail, EndSubmit, closeVars
<1>4. CASE \E w \in Workers : WorkerStep(w)
  BY <1>2, <1>4 DEF WorkerStep, Receive, Park, Leave, Finish, Exit, Uncount, closeVars
<1>5. CASE CloseDone \/ ReporterStop \/ Terminated
  BY <1>2, <1>5 DEF CloseDone, ReporterStop, Terminated, vars, closeVars
<1>6. QED  BY <1>1, <1>3, <1>4, <1>5 DEF Next

\* What is drained stays so: it takes a sender to add a task.
LEMMA DrainedStays ==
  ASSUME TypeOK, SubmitInv, GateInv, Next, Drained
  PROVE  Drained'
<1> USE DEF Drained, queueVars
<1>1. CASE \E t \in Tasks : Submit(t) \/ SubmitStep(t) \/ ContextDone(t)
  <2>1. ASSUME NEW t \in Tasks, Offer(t) PROVE FALSE
    BY <2>1, SendersOpen DEF Offer, Goto, InSubmit
  <2>2. QED
    BY <1>1, <2>1 DEF Submit, SubmitStep, BeginSubmit, Count, Saturated, WokenClosed,
                      ContextDone, Fail, EndSubmit
<1>2. CASE \E w \in Workers : WorkerStep(w)
  BY <1>2 DEF WorkerStep, Receive, Park, Leave, Finish, Exit, Uncount
<1>3. CASE \E c \in Closers : Shutdown(c) \/ ShutdownStep(c) \/ GiveUp(c)
  BY <1>3 DEF Shutdown, ShutdownStep, GiveUp, EnterOnce, CloseGate, CloseQueue, AwaitDone,
              AwaitReporter
<1>4. CASE CloseDone \/ ReporterStop \/ Terminated
  BY <1>4 DEF CloseDone, ReporterStop, Terminated, vars
<1>5. QED  BY <1>1, <1>2, <1>3, <1>4 DEF Next

LEMMA GoneStep ==
  ASSUME TypeOK, SubmitInv, GateInv, GoneInv, Next
  PROVE  GoneInv'
<1>1. ~Drained' => ~Drained  BY DrainedStays
<1>2. ASSUME exits' = exits, Gone' = Gone, done' = done PROVE GoneInv'
  BY <1>1, <1>2 DEF GoneInv, Gone
<1>3. CASE \E t \in Tasks : Submit(t) \/ SubmitStep(t) \/ ContextDone(t)
  <2>1. UNCHANGED <<exits, done>>
    BY <1>3 DEF Submit, SubmitStep, BeginSubmit, Offer, Count, Saturated, WokenClosed,
                ContextDone, Fail, EndSubmit, workerVars
  <2>2. Gone' = Gone
    BY <1>3 DEF Submit, SubmitStep, BeginSubmit, Offer, Parked, Count, Saturated, WokenClosed,
                ContextDone, Fail, EndSubmit, workerVars, Gone, TypeOK
  <2>3. QED  BY <1>2, <2>1, <2>2
<1>4. ASSUME NEW w \in Workers, WorkerStep(w) PROVE GoneInv'
  <2>1. worker[w] # "gone" /\ ~done /\ ~done'
    BY <1>4 DEF WorkerStep, Receive, Park, Leave, Finish, Exit, Uncount, WorkerGoto, GoneInv
  <2>2. CASE Leave(w)
    <3>1. Drained  BY <2>2 DEF Leave, Drained
    <3>2. QED  BY <1>1, <2>1, <3>1 DEF GoneInv
  <2>3. CASE Exit(w)
    <3>1. Gone' = Gone \cup {w} /\ w \notin Gone /\ exits' = exits + 1
      BY <2>1, <2>3 DEF Exit, WorkerGoto, Gone, TypeOK
    <3>2. IsFiniteSet(Gone)  BY FiniteCounts
    <3>3. Cardinality(Gone') = Cardinality(Gone) + 1  BY <3>1, <3>2, Gains
    <3>4. QED  BY <1>1, <2>1, <3>1, <3>3 DEF GoneInv
  <2>4. CASE Receive(w) \/ Park(w) \/ Finish(w) \/ Uncount(w)
    <3>1. Gone' = Gone  BY <2>1, <2>4 DEF Receive, Park, Finish, Uncount, WorkerGoto, Gone, TypeOK
    <3>2. exits' = exits /\ done' = done  BY <2>4 DEF Receive, Park, Finish, Uncount
    <3>3. QED  BY <1>2, <3>1, <3>2
  <2>5. QED  BY <1>4, <2>2, <2>3, <2>4 DEF WorkerStep
<1>5. CASE \E c \in Closers : Shutdown(c) \/ ShutdownStep(c) \/ GiveUp(c)
  <2>1. UNCHANGED <<worker, exits, done>>
    BY <1>5 DEF Shutdown, ShutdownStep, GiveUp, EnterOnce, CloseGate, CloseQueue, AwaitDone,
                AwaitReporter, workerVars
  <2>2. QED  BY <1>2, <2>1 DEF Gone
<1>6. CASE CloseDone
  <2>1. UNCHANGED <<worker, exits>> /\ \A w \in Workers : worker[w] = "gone"
    BY <1>6 DEF CloseDone, workerVars
  <2>2. QED  BY <1>1, <2>1 DEF GoneInv, Gone
<1>7. CASE ReporterStop \/ Terminated
  <2>1. UNCHANGED <<worker, exits, done>>
    BY <1>7 DEF ReporterStop, Terminated, vars, workerVars
  <2>2. QED  BY <1>2, <2>1 DEF Gone
<1>8. QED  BY <1>3, <1>4, <1>5, <1>6, <1>7 DEF Next

\* Steps that neither move a task nor change what was sent.
LEMMA PlaceKept ==
  ASSUME PlaceInv, UNCHANGED <<queue, task, ran>>,
         \A w \in Workers : worker'[w] = "run" <=> worker[w] = "run",
         \A t \in Tasks : Sent(t)' <=> Sent(t)
  PROVE  PlaceInv'
<1>1. \A t \in Tasks : (Queued(t)' <=> Queued(t)) /\ (Running(t)' <=> Running(t))
  BY DEF Queued, Running
<1>2. QED  BY <1>1 DEF PlaceInv

\* A task that is sent goes to the end of the queue or to a parked worker.
LEMMA PlaceOffer ==
  ASSUME TypeOK, PlaceInv, NEW t \in Tasks, Offer(t)
  PROVE  PlaceInv'
<1>1. ~Sent(t) /\ Sent(t)' /\ \A u \in Tasks : u # t => (Sent(u)' <=> Sent(u))
  BY DEF Offer, Goto, Sent, TypeOK
<1>2. ~Queued(t) /\ ~Running(t) /\ ran[t] = 0 /\ ran' = ran
  BY <1>1 DEF PlaceInv, Offer
<1>3. t # None  BY PoolAssumption
<1>4. CASE queue' = Append(queue, t) /\ UNCHANGED <<worker, task>>
  <2>1. /\ Len(queue) \in Nat /\ Len(queue') = Len(queue) + 1 /\ queue'[Len(queue) + 1] = t
        /\ \A i \in 1 .. Len(queue) : queue'[i] = queue[i]
    BY <1>4, AppendFacts DEF TypeOK
  <2>2. \A u \in Tasks : Queued(u)' <=> Queued(u) \/ u = t
    BY <2>1 DEF Queued
  <2>3. \A u \in Tasks : Running(u)' <=> Running(u)  BY <1>4 DEF Running
  <2>4. \A i, j \in 1 .. Len(queue') : queue'[i] = queue'[j] => i = j
    <3>1. \A i \in 1 .. Len(queue) : queue[i] # t  BY <1>2 DEF Queued
    <3>2. QED  BY <2>1, <3>1 DEF PlaceInv
  <2>5. \A u \in Tasks :
          ran'[u] = IF Sent(u)' /\ ~Queued(u)' /\ ~Running(u)' THEN 1 ELSE 0
    BY <1>1, <1>2, <2>2, <2>3 DEF PlaceInv
  <2>6. QED  BY <1>1, <1>2, <1>4, <2>2, <2>3, <2>4, <2>5 DEF PlaceInv
<1>5. ASSUME NEW w \in Parked, worker' = [worker EXCEPT ![w] = "run"],
             task' = [task EXCEPT ![w] = t], UNCHANGED queue
      PROVE  PlaceInv'
  <2>1. /\ w \in Workers /\ task[w] = None /\ worker'[w] = "run" /\ task'[w] = t
        /\ \A v \in Workers : v # w => worker'[v] = worker[v] /\ task'[v] = task[v]
    BY <1>5 DEF Parked, PlaceInv, TypeOK
  <2>2. \A u \in Tasks : Running(u)' <=> Running(u) \/ u = t
    BY <2>1, PoolAssumption DEF Running
  <2>3. \A u \in Tasks : Queued(u)' <=> Queued(u)  BY <1>5 DEF Queued
  <2>4. \A v, x \in Workers : task'[v] # None /\ task'[v] = task'[x] => v = x
    <3>1. \A v \in Workers : task[v] # t  BY <1>2 DEF Running
    <3>2. QED  BY <2>1, <3>1 DEF PlaceInv
  <2>5. \A v \in Workers : task'[v] # None <=> worker'[v] = "run"
    BY <1>3, <2>1 DEF PlaceInv
  <2>6. \A u \in Tasks :
          ran'[u] = IF Sent(u)' /\ ~Queued(u)' /\ ~Running(u)' THEN 1 ELSE 0
    BY <1>1, <1>2, <2>2, <2>3 DEF PlaceInv
  <2>7. QED  BY <1>1, <1>2, <1>5, <2>2, <2>3, <2>4, <2>5, <2>6 DEF PlaceInv
<1>6. QED  BY <1>4, <1>5 DEF Offer

\* The head of the queue goes to the worker that receives it.
LEMMA PlaceReceive ==
  ASSUME TypeOK, PlaceInv, NEW w \in Workers, Receive(w)
  PROVE  PlaceInv'
<1> DEFINE t == Head(queue)
<1>1. /\ Len(queue) \in Nat \ {0} /\ t = queue[1] /\ t \in Tasks
      /\ Len(queue') = Len(queue) - 1
      /\ \A i \in 1 .. Len(queue') : queue'[i] = queue[i + 1]
  BY TailFacts DEF Receive, TypeOK
<1>2. /\ task[w] = None /\ worker'[w] = "run" /\ task'[w] = t /\ t # None
      /\ \A v \in Workers : v # w => worker'[v] = worker[v] /\ task'[v] = task[v]
  BY <1>1, PoolAssumption DEF Receive, WorkerGoto, PlaceInv, TypeOK
<1>3. Queued(t) /\ ~Running(t)  BY <1>1 DEF Queued, PlaceInv
<1>4. \A u \in Tasks : Queued(u)' <=> Queued(u) /\ u # t
  <2>1. ASSUME NEW u \in Tasks, Queued(u)' PROVE Queued(u) /\ u # t
    <3>1. PICK i \in 1 .. Len(queue') : queue'[i] = u  BY <2>1 DEF Queued
    <3>2. i + 1 \in 1 .. Len(queue) /\ queue[i + 1] = u /\ i + 1 # 1 /\ 1 \in 1 .. Len(queue)
      BY <1>1, <3>1
    <3>3. queue[1] # queue[i + 1]  BY <3>2 DEF PlaceInv
    <3>4. QED  BY <1>1, <3>2, <3>3 DEF Queued
  <2>2. ASSUME NEW u \in Tasks, Queued(u), u # t PROVE Queued(u)'
    <3>1. PICK i \in 1 .. Len(queue) : queue[i] = u  BY <2>2 DEF Queued
    <3>2. i - 1 \in 1 .. Len(queue') /\ queue'[i - 1] = u  BY <1>1, <2>2, <3>1
    <3>3. QED  BY <3>2 DEF Queued
  <2>3. QED  BY <2>1, <2>2
<1>5. \A u \in Tasks : Running(u)' <=> Running(u) \/ u = t
  BY <1>2, PoolAssumption DEF Running
<1>6. \A u \in Tasks : Sent(u)' <=> Sent(u)  BY DEF Receive, submitVars, Sent
<1>7. \A i, j \in 1 .. Len(queue') : queue'[i] = queue'[j] => i = j
  <2>1. ASSUME NEW i \in 1 .. Len(queue'), NEW j \in 1 .. Len(queue'), queue'[i] = queue'[j]
        PROVE  i = j
    <3>1. /\ i + 1 \in 1 .. Len(queue) /\ j + 1 \in 1 .. Len(queue)
          /\ queue[i + 1] = queue[j + 1]
      BY <1>1, <2>1
    <3>2. i + 1 = j + 1  BY <3>1 DEF PlaceInv
    <3>3. QED  BY <3>2
  <2>2. QED  BY <2>1
<1>8. \A v, x \in Workers : task'[v] # None /\ task'[v] = task'[x] => v = x
  <2>1. \A v \in Workers : task[v] # t  BY <1>3 DEF Running
  <2>2. QED  BY <1>2, <2>1 DEF PlaceInv
<1>9. \A v \in Workers : task'[v] # None <=> worker'[v] = "run"
  BY <1>2 DEF PlaceInv
<1>10. \A u \in Tasks :
         ran'[u] = IF Sent(u)' /\ ~Queued(u)' /\ ~Running(u)' THEN 1 ELSE 0
  BY <1>1, <1>3, <1>4, <1>5, <1>6 DEF PlaceInv, Receive
<1>11. QED  BY <1>1, <1>3, <1>4, <1>5, <1>6, <1>7, <1>8, <1>9, <1>10 DEF PlaceInv

\* A task that ends was run for the first time.
LEMMA PlaceRun ==
  ASSUME TypeOK, PlaceInv, NEW w \in Workers, Finish(w) \/ Exit(w)
  PROVE  PlaceInv'
<1> DEFINE t == task[w]
<1>1. worker[w] = "run" /\ t \in Tasks /\ t # None
  BY PoolAssumption DEF Finish, Exit, WorkerGoto, PlaceInv, TypeOK
<1>2. /\ worker'[w] # "run" /\ task'[w] = None
      /\ \A v \in Workers : v # w => worker'[v] = worker[v] /\ task'[v] = task[v]
      /\ ran' = [ran EXCEPT ![t] = ran[t] + 1] /\ queue' = queue /\ call' = call
  BY DEF Finish, Exit, WorkerGoto, TypeOK, submitVars, queueVars
<1>3. Running(t) /\ ~Queued(t) /\ Sent(t) /\ ran[t] = 0
  BY <1>1 DEF Running, PlaceInv
<1>4. \A u \in Tasks : Running(u)' <=> Running(u) /\ u # t
  BY <1>1, <1>2, PoolAssumption DEF Running, PlaceInv
<1>5. \A u \in Tasks : (Queued(u)' <=> Queued(u)) /\ (Sent(u)' <=> Sent(u))
  BY <1>2 DEF Queued, Sent
<1>6. \A u \in Tasks :
        ran'[u] = IF Sent(u)' /\ ~Queued(u)' /\ ~Running(u)' THEN 1 ELSE 0
  BY <1>1, <1>2, <1>3, <1>4, <1>5 DEF PlaceInv, TypeOK
<1>7. QED  BY <1>2, <1>4, <1>5, <1>6 DEF PlaceInv

LEMMA PlaceStep ==
  ASSUME TypeOK, PlaceInv, Next
  PROVE  PlaceInv'
<1>1. ASSUME NEW t \in Tasks, Submit(t) \/ SubmitStep(t) \/ ContextDone(t) PROVE PlaceInv'
  <2>1. CASE Offer(t)  BY <2>1, PlaceOffer
  <2>2. CASE \/ Submit(t) \/ BeginSubmit(t) \/ Count(t) \/ EndSubmit(t)
             \/ Saturated(t) \/ WokenClosed(t) \/ ContextDone(t)
    <3>1. UNCHANGED <<queue, task, ran, worker>>
      BY <2>2 DEF Submit, BeginSubmit, Count, EndSubmit, Saturated, WokenClosed, ContextDone,
                  Fail, queueVars, workerVars
    <3>2. \A u \in Tasks : Sent(u)' <=> Sent(u)
      BY <2>2 DEF Submit, BeginSubmit, Count, EndSubmit, Saturated, WokenClosed, ContextDone,
                  Fail, Goto, Sent, TypeOK
    <3>3. QED  BY <3>1, <3>2, PlaceKept
  <2>3. QED  BY <1>1, <2>1, <2>2 DEF SubmitStep
<1>2. ASSUME NEW w \in Workers, WorkerStep(w) PROVE PlaceInv'
  <2>1. CASE Receive(w)  BY <2>1, PlaceReceive
  <2>2. CASE Finish(w) \/ Exit(w)  BY <2>2, PlaceRun
  <2>3. CASE Park(w) \/ Leave(w) \/ Uncount(w)
    <3>1. UNCHANGED <<queue, task, ran, call>>
      BY <2>3 DEF Park, Leave, Uncount, queueVars, submitVars
    <3>2. \A v \in Workers : worker'[v] = "run" <=> worker[v] = "run"
      BY <2>3 DEF Park, Leave, Uncount, WorkerGoto, TypeOK
    <3>3. QED  BY <3>1, <3>2, PlaceKept DEF Sent
  <2>4. QED  BY <1>2, <2>1, <2>2, <2>3 DEF WorkerStep
<1>3. ASSUME UNCHANGED <<queue, task, ran, worker, call>> PROVE PlaceInv'
  BY <1>3, PlaceKept DEF Sent
<1>4. CASE \E c \in Closers : Shutdown(c) \/ ShutdownStep(c) \/ GiveUp(c)
  BY <1>3, <1>4 DEF Shutdown, ShutdownStep, GiveUp, EnterOnce, CloseGate, CloseQueue, AwaitDone,
                    AwaitReporter, submitVars, queueVars, workerVars
<1>5. CASE CloseDone \/ ReporterStop \/ Terminated
  BY <1>3, <1>5 DEF CloseDone, ReporterStop, Terminated, vars, submitVars, queueVars, workerVars
<1>6. QED  BY <1>1, <1>2, <1>4, <1>5 DEF Next

\* The depth counter follows the queue and the workers, its debts accounted for.
LEMMA DepthStep ==
  ASSUME TypeOK, SubmitInv, DepthExact, Next
  PROVE  DepthExact'
<1> DEFINE Exact == depth = Len(queue) + Cardinality(Busy) + exits - Cardinality(Counting)
<1>1. (DepthExact <=> Exact) /\ (DepthExact' <=> Exact')  BY DEF DepthExact, Counting
<1>2. /\ IsFiniteSet(Busy) /\ IsFiniteSet(Counting)
      /\ Cardinality(Busy) \in Nat /\ Cardinality(Counting) \in Nat
      /\ Len(queue) \in Nat /\ exits \in Int /\ depth \in Int
  BY FiniteCounts DEF TypeOK
<1> HIDE DEF Exact
<1>3. ASSUME UNCHANGED <<depth, Len(queue), exits>>, Busy' = Busy, Counting' = Counting
      PROVE  Exact'
  BY <1>1, <1>3 DEF Exact
<1>4. ASSUME NEW t \in Tasks, Submit(t) \/ SubmitStep(t) \/ ContextDone(t) PROVE Exact'
  <2>1. CASE Offer(t)
    <3>1. Counting' = Counting \cup {t} /\ t \notin Counting
      BY <2>1 DEF Offer, Goto, Counting, TypeOK
    <3>2. Cardinality(Counting') = Cardinality(Counting) + 1  BY <1>2, <3>1, Gains
    <3>3. depth' = depth /\ exits' = exits  BY <2>1 DEF Offer
    <3>4. CASE queue' = Append(queue, t) /\ UNCHANGED <<worker, task>>
      <4>1. Len(queue') = Len(queue) + 1  BY <3>4, AppendFacts DEF TypeOK
      <4>2. Busy' = Busy  BY <3>4 DEF Busy
      <4>3. QED  BY <1>1, <1>2, <3>2, <3>3, <4>1, <4>2 DEF Exact
    <3>5. ASSUME NEW w \in Parked, worker' = [worker EXCEPT ![w] = "run"], queue' = queue
          PROVE  Exact'
      <4>1. Busy' = Busy \cup {w} /\ w \notin Busy  BY <3>5 DEF Parked, Busy, TypeOK
      <4>2. Cardinality(Busy') = Cardinality(Busy) + 1  BY <1>2, <4>1, Gains
      <4>3. QED  BY <1>1, <1>2, <3>2, <3>3, <3>5, <4>2 DEF Exact
    <3>6. QED  BY <2>1, <3>4, <3>5 DEF Offer
  <2>2. CASE Count(t)
    <3>1. Counting' = Counting \ {t} /\ t \in Counting
      BY <2>2 DEF Count, Goto, Counting, TypeOK
    <3>2. Cardinality(Counting') = Cardinality(Counting) - 1  BY <1>2, <3>1, Loses
    <3>3. Busy' = Busy /\ UNCHANGED <<queue, exits>> /\ depth' = depth + 1
      BY <2>2 DEF Count, Busy, queueVars, workerVars
    <3>4. QED  BY <1>1, <1>2, <3>2, <3>3 DEF Exact
  <2>3. CASE \/ Submit(t) \/ BeginSubmit(t) \/ EndSubmit(t)
             \/ Saturated(t) \/ WokenClosed(t) \/ ContextDone(t)
    <3>1. Counting' = Counting
      BY <2>3 DEF Submit, BeginSubmit, EndSubmit, Saturated, WokenClosed, ContextDone, Fail,
                  Goto, Counting, TypeOK
    <3>2. Busy' = Busy /\ UNCHANGED <<queue, exits, depth>>
      BY <2>3 DEF Submit, BeginSubmit, EndSubmit, Saturated, WokenClosed, ContextDone, Fail,
                  Busy, queueVars, workerVars
    <3>3. QED  BY <1>3, <3>1, <3>2
  <2>4. QED  BY <1>4, <2>1, <2>2, <2>3 DEF SubmitStep
<1>5. ASSUME NEW w \in Workers, WorkerStep(w) PROVE Exact'
  <2>1. Counting' = Counting
    BY <1>5 DEF WorkerStep, Receive, Park, Leave, Finish, Exit, Uncount, submitVars, Counting
  <2>2. CASE Receive(w)
    <3>1. Busy' = Busy \cup {w} /\ w \notin Busy
      BY <2>2 DEF Receive, WorkerGoto, Busy, TypeOK
    <3>2. Cardinality(Busy') = Cardinality(Busy) + 1  BY <1>2, <3>1, Gains
    <3>3. Len(queue') = Len(queue) - 1  BY <2>2, TailFacts DEF Receive, TypeOK
    <3>4. depth' = depth /\ exits' = exits  BY <2>2 DEF Receive
    <3>5. QED  BY <1>1, <1>2, <2>1, <3>2, <3>3, <3>4 DEF Exact
  <2>3. CASE Exit(w) \/ Uncount(w)
    <3>1. Busy' = Busy \ {w} /\ w \in Busy
      BY <2>3 DEF Exit, Uncount, WorkerGoto, Busy, TypeOK
    <3>2. Cardinality(Busy') = Cardinality(Busy) - 1  BY <1>2, <3>1, Loses
    <3>3. CASE Exit(w)
      <4>1. queue' = queue /\ depth' = depth /\ exits' = exits + 1  BY <3>3 DEF Exit, queueVars
      <4>2. QED  BY <1>1, <1>2, <2>1, <3>2, <4>1 DEF Exact
    <3>4. CASE Uncount(w)
      <4>1. queue' = queue /\ depth' = depth - 1 /\ exits' = exits
        BY <3>4 DEF Uncount, queueVars
      <4>2. QED  BY <1>1, <1>2, <2>1, <3>2, <4>1 DEF Exact
    <3>5. QED  BY <2>3, <3>3, <3>4
  <2>4. CASE Park(w) \/ Leave(w) \/ Finish(w)
    <3>1. Busy' = Busy  BY <2>4 DEF Park, Leave, Finish, WorkerGoto, Busy, TypeOK
    <3>2. UNCHANGED <<queue, exits, depth>>  BY <2>4 DEF Park, Leave, Finish, queueVars
    <3>3. QED  BY <1>3, <2>1, <3>1, <3>2
  <2>5. QED  BY <1>5, <2>2, <2>3, <2>4 DEF WorkerStep
<1>6. ASSUME UNCHANGED <<call, queue, worker, exits, depth>> PROVE Exact'
  BY <1>3, <1>6 DEF Busy, Counting
<1>7. CASE \E c \in Closers : Shutdown(c) \/ ShutdownStep(c) \/ GiveUp(c)
  BY <1>1, <1>6, <1>7 DEF Shutdown, ShutdownStep, GiveUp, EnterOnce, CloseGate, CloseQueue, AwaitDone,
                    AwaitReporter, submitVars, queueVars, workerVars
<1>8. CASE CloseDone \/ ReporterStop \/ Terminated
  BY <1>1, <1>6, <1>8 DEF CloseDone, ReporterStop, Terminated, vars, submitVars, queueVars, workerVars
<1>9. QED  BY <1>1, <1>4, <1>5, <1>7, <1>8 DEF Next

LEMMA NextInv ==
  ASSUME IInv, [Next]_vars
  PROVE  IInv'
<1>1. CASE Next
  BY <1>1, TypeStep, SubmitsStep, GateStep, PlaceStep, GoneStep, AwaitStep, DepthStep DEF IInv
<1>2. CASE UNCHANGED vars
  BY <1>2 DEF vars, submitVars, gateVars, queueVars, workerVars, closeVars, IInv, TypeOK, SubmitInv,
              InSubmit, GateInv, PlaceInv, Queued, Running, Sent, GoneInv, Drained, Gone, AwaitInv,
              DepthExact, Busy
<1>3. QED  BY <1>1, <1>2

-----------------------------------------------------------------------------
(* The theorems *)

\* The inductive invariant holds in every state that can be reached.
THEOREM Invariance == Spec => []IInv
<1>1. Init => IInv  BY InitInv
<1>2. IInv /\ [Next]_vars => IInv'  BY NextInv
<1>3. QED  BY <1>1, <1>2, PTL DEF Spec

\* The variables keep their types; above all the count of submitsDone never
\* becomes negative, which would panic.
THEOREM TypeCorrect == Spec => []TypeOK
<1>1. IInv => TypeOK  BY DEF IInv
<1>2. QED  BY <1>1, Invariance, PTL

\* However Execute, TryExecute and Shutdown interleave, nobody sends on the
\* closed task channel.
THEOREM SendsOnOpen == Spec => []NoSendOnClosed
<1>1. IInv => NoSendOnClosed
  <2>1. ASSUME IInv, queueClosed, NEW t \in Tasks, call[t] = "offer" PROVE FALSE
    <3>1. t \in InSubmit  BY <2>1 DEF InSubmit
    <3>2. QED  BY <2>1, <3>1, SendersOpen DEF IInv
  <2>2. QED  BY <2>1 DEF NoSendOnClosed
<1>2. QED  BY <1>1, Invariance, PTL

\* The queueDepth metric is off by the tasks not yet counted, and by one for
\* each worker that a task has ended.
THEOREM DepthIsExact == Spec => []DepthExact
<1>1. IInv => DepthExact  BY DEF IInv
<1>2. QED  BY <1>1, Invariance, PTL

\* When all workers are gone, and not all of them by a task, nothing is left in
\* the queue and every task that was sent has been run, once.
LEMMA AllRun ==
  ASSUME IInv, MaxExits < Cardinality(Workers), \A w \in Workers : worker[w] = "gone"
  PROVE  Drained /\ \A t \in Tasks : ran[t] = IF Sent(t) THEN 1 ELSE 0
<1>1. Drained
  <2>1. Gone = Workers  BY DEF Gone
  <2>2. exits <= MaxExits /\ exits \in Int /\ Cardinality(Workers) \in Nat
    BY PoolAssumption, FS_CardinalityType DEF IInv, TypeOK
  <2>3. QED  BY <2>1, <2>2, PoolAssumption DEF IInv, GoneInv
<1>2. \A t \in Tasks : ~Queued(t)  BY <1>1 DEF Queued, Drained
<1>3. \A t \in Tasks : ~Running(t)
  BY PoolAssumption DEF IInv, PlaceInv, Running
<1>4. QED  BY <1>1, <1>2, <1>3 DEF IInv, PlaceInv

\* A Shutdown that returns without an error leaves every accepted task run, and
\* none on its way, as long as tasks do not end all the workers (see the run
\* goexit for what happens when they do).
THEOREM Drains ==
  ASSUME MaxExits < Cardinality(Workers)
  PROVE  Spec => []ShutdownDrains
<1>1. IInv => ShutdownDrains
  <2>1. ASSUME IInv, NEW c \in Closers, closer[c] = "returned"
        PROVE  /\ \A t \in Tasks : ran[t] = IF Sent(t) THEN 1 ELSE 0
               /\ \A t \in Tasks : call[t] # "offer"
               /\ ~reporting
    <3>1. ~reporting /\ \A w \in Workers : worker[w] = "gone"
      BY <2>1 DEF IInv, AwaitInv, GoneInv
    <3>2. Drained /\ \A t \in Tasks : ran[t] = IF Sent(t) THEN 1 ELSE 0
      BY <2>1, <3>1, AllRun
    <3>3. ASSUME NEW t \in Tasks, call[t] = "offer" PROVE FALSE
      <4>1. t \in InSubmit  BY <3>3 DEF InSubmit
      <4>2. QED  BY <2>1, <3>2, <4>1, SendersOpen DEF IInv, Drained
    <3>4. QED  BY <3>1, <3>2, <3>3
  <2>2. QED  BY <2>1 DEF ShutdownDrains
<1>2. QED  BY <1>1, Invariance, PTL

-----------------------------------------------------------------------------
(* The refinement of TaskService *)

\* What has become of a task, in the terms of TaskService.
statusOf(t) ==
  IF call[t] = "refused" THEN "refused"
  ELSE IF ran[t] > 0 THEN "done"
  ELSE IF Sent(t) THEN "accepted" ELSE "unknown"

status == [t \in Tasks |-> statusOf(t)]

LEMMA ServiceInit == Init => Service!Init
BY DEF Init, Service!Init, Sent

\* A change of one task's status is a step that gives it the new status.
LEMMA StatusChange ==
  ASSUME NEW t \in Tasks, \A u \in Tasks : u # t => statusOf(u)' = statusOf(u)
  PROVE  status' = [status EXCEPT ![t] = statusOf(t)']
BY DEF status

LEMMA ServiceNext ==
  ASSUME IInv, MaxExits < Cardinality(Workers), [Next]_vars
  PROVE  [Service!Next]_(Service!vars)
<1> DEFINE stutter == UNCHANGED <<status, queueClosed, done>>
<1>0. stutter => [Service!Next]_(Service!vars)
  BY DEF Service!vars, status, statusOf
<1>1. TypeOK /\ PlaceInv  BY DEF IInv
<1>2. ASSUME NEW t \in Tasks, Submit(t) \/ SubmitStep(t) \/ ContextDone(t)
      PROVE  stutter \/ Service!Accept(t) \/ Service!Refuse(t)
  <2>1. UNCHANGED <<queueClosed, done, ran>>
    BY <1>2 DEF Submit, SubmitStep, BeginSubmit, Offer, Count, Saturated, WokenClosed,
                ContextDone, Fail, EndSubmit, queueVars, workerVars
  <2>2. ~Sent(t) => ran[t] = 0  BY <1>1 DEF PlaceInv
  <2>3. \A u \in Tasks : u # t => statusOf(u)' = statusOf(u)
    <3>1. \A u \in Tasks : u # t => call'[u] = call[u]
      BY <1>1, <1>2 DEF Submit, SubmitStep, BeginSubmit, Offer, Count, Saturated, WokenClosed,
                  ContextDone, Fail, EndSubmit, Goto, TypeOK
    <3>2. QED  BY <2>1, <3>1 DEF statusOf, Sent
  <2>4. CASE Offer(t)
    <3>1. statusOf(t) = "unknown" /\ statusOf(t)' = "accepted"
      <4>1. call[t] = "offer" /\ call'[t] = "count"
        BY <1>1, <2>4 DEF Offer, Goto, TypeOK
      <4>2. QED  BY <2>1, <2>2, <4>1 DEF statusOf, Sent
    <3>2. ~queueClosed
      BY <2>4, SendersOpen DEF IInv, Offer, Goto, InSubmit
    <3>3. status' = [status EXCEPT ![t] = "accepted"]  BY <2>3, <3>1, StatusChange
    <3>4. Service!Accept(t)
      BY <2>1, <3>1, <3>2, <3>3 DEF Service!Accept, Service!Becomes, status, statusOf
    <3>5. QED  BY <3>4
  <2>5. ASSUME statusOf(t) = "unknown", statusOf(t)' = "refused" PROVE Service!Refuse(t)
    <3>1. status' = [status EXCEPT ![t] = "refused"]  BY <2>3, <2>5, StatusChange
    <3>2. QED  BY <2>1, <2>5, <3>1 DEF Service!Refuse, Service!Becomes, status, statusOf
  <2>6. ASSUME statusOf(t)' = statusOf(t) PROVE stutter
    BY <2>1, <2>3, <2>6 DEF status
  <2>7. CASE BeginSubmit(t)
    <3>1. call[t] = "begin" /\ call'[t] \in {"refused", "offer"}
      BY <1>1, <2>7 DEF BeginSubmit, Goto, TypeOK
    <3>2. statusOf(t) = "unknown" /\ statusOf(t)' \in {"refused", "unknown"}
      BY <2>1, <2>2, <3>1 DEF statusOf, Sent
    <3>3. QED  BY <2>5, <2>6, <3>2
  <2>8. CASE EndSubmit(t)
    <3>1. \/ call[t] = "end" /\ call'[t] = "accepted"
          \/ call[t] = "fail" /\ call'[t] = "refused"
      BY <1>1, <2>8 DEF EndSubmit, Goto, TypeOK
    <3>2. \/ statusOf(t)' = statusOf(t)
          \/ statusOf(t) = "unknown" /\ statusOf(t)' = "refused"
      BY <2>1, <2>2, <3>1 DEF statusOf, Sent
    <3>3. QED  BY <2>5, <2>6, <3>2
  <2>9. CASE Submit(t) \/ Count(t) \/ Saturated(t) \/ WokenClosed(t) \/ ContextDone(t)
    BY <1>1, <2>1, <2>6, <2>9 DEF Submit, Count, Saturated, WokenClosed, ContextDone, Fail, Goto,
                      statusOf, Sent, TypeOK
  <2>10. QED  BY <1>2, <2>4, <2>7, <2>8, <2>9 DEF SubmitStep
<1>3. ASSUME NEW w \in Workers, Finish(w) \/ Exit(w)
      PROVE  \E t \in Tasks : Service!Run(t)
  <2>0. worker[w] = "run" /\ task[w] \in Tasks
    BY <1>1, <1>3 DEF Finish, Exit, WorkerGoto, PlaceInv, TypeOK
  <2>1. PICK t \in Tasks : t = task[w]  BY <2>0
  <2>2. ran[t] = 0 /\ Sent(t)
    BY <1>1, <2>1 DEF PlaceInv, Running
  <2>3. ran' = [ran EXCEPT ![t] = ran[t] + 1] /\ UNCHANGED <<call, queueClosed, done>>
    BY <1>3, <2>1 DEF Finish, Exit, submitVars, queueVars
  <2>4. statusOf(t) = "accepted" /\ statusOf(t)' = "done"
    BY <1>1, <2>1, <2>2, <2>3 DEF statusOf, Sent, TypeOK
  <2>5. \A u \in Tasks : u # t => statusOf(u)' = statusOf(u)
    BY <1>1, <2>3 DEF statusOf, Sent, TypeOK
  <2>6. status' = [status EXCEPT ![t] = "done"]  BY <2>1, <2>4, <2>5, StatusChange
  <2>7. ~done  BY <2>0 DEF IInv, GoneInv
  <2>8. QED
    BY <2>1, <2>3, <2>4, <2>6, <2>7 DEF Service!Run, Service!Becomes, status, statusOf
<1>4. ASSUME UNCHANGED <<call, ran, queueClosed, done>> PROVE stutter
  BY <1>4 DEF status, statusOf, Sent
<1>5. CASE \E w \in Workers : Receive(w) \/ Park(w) \/ Leave(w) \/ Uncount(w)
  BY <1>0, <1>4, <1>5 DEF Receive, Park, Leave, Uncount, submitVars, queueVars
<1>6. ASSUME NEW c \in Closers, CloseQueue(c) PROVE Service!Close
  <2>1. queueClosed' = TRUE /\ UNCHANGED <<call, ran, done>>
    BY <1>6 DEF CloseQueue, submitVars, workerVars
  <2>2. QED  BY <2>1 DEF Service!Close, Sent
<1>7. CASE \E c \in Closers : Shutdown(c) \/ EnterOnce(c) \/ CloseGate(c) \/ AwaitDone(c)
                                \/ AwaitReporter(c) \/ GiveUp(c)
  BY <1>0, <1>4, <1>7 DEF Shutdown, EnterOnce, CloseGate, AwaitDone, AwaitReporter, GiveUp,
                    submitVars, queueVars, workerVars
<1>8. CASE CloseDone
  <2>1. done' = TRUE /\ UNCHANGED <<call, ran, queueClosed>>
    BY <1>8 DEF CloseDone, submitVars, queueVars, workerVars
  <2>2. Drained /\ \A t \in Tasks : ran[t] = IF Sent(t) THEN 1 ELSE 0
    BY <1>8, AllRun DEF CloseDone
  <2>3. \A t \in Tasks : statusOf(t) # "accepted"  BY <2>2 DEF statusOf
  <2>4. Service!Stop
    BY <2>1, <2>2, <2>3 DEF Service!Stop, Drained, statusOf, Sent
  <2>5. QED  BY <2>4 DEF Service!Next
<1>9. CASE ReporterStop \/ Terminated \/ UNCHANGED vars
  BY <1>0, <1>4, <1>9 DEF ReporterStop, Terminated, vars, submitVars, queueVars, workerVars
<1>10. CASE Next
  <2>1. CASE \E t \in Tasks : Submit(t) \/ SubmitStep(t) \/ ContextDone(t)
    BY <1>0, <1>2, <2>1 DEF Service!Next
  <2>2. CASE \E w \in Workers : Finish(w) \/ Exit(w)
    <3>1. \E t \in Tasks : Service!Run(t)  BY <1>3, <2>2
    <3>2. QED  BY <3>1 DEF Service!Next
  <2>3. CASE \E w \in Workers : Receive(w) \/ Park(w) \/ Leave(w) \/ Uncount(w)
    BY <1>5, <2>3
  <2>4. CASE \E c \in Closers : CloseQueue(c)  BY <1>6, <2>4 DEF Service!Next
  <2>5. CASE \E c \in Closers : Shutdown(c) \/ EnterOnce(c) \/ CloseGate(c) \/ AwaitDone(c)
                                  \/ AwaitReporter(c) \/ GiveUp(c)
    BY <1>7, <2>5
  <2>6. CASE CloseDone  BY <1>8, <2>6
  <2>7. CASE ReporterStop \/ Terminated  BY <1>9, <2>7
  <2>8. QED
    BY <1>10, <2>1, <2>2, <2>3, <2>4, <2>5, <2>6, <2>7 DEF Next, WorkerStep, ShutdownStep
<1>11. QED  BY <1>0, <1>9, <1>10

\* Refinement: whatever its workers, its queue and its submitters do, the pool
\* is a TaskService: it accepts nothing once closed, runs each accepted task
\* once, and stops only when all of them have been run.
THEOREM Refinement ==
  ASSUME MaxExits < Cardinality(Workers)
  PROVE  Spec => ImplementsTasks
<1>1. Init => Service!Init  BY ServiceInit
<1>2. IInv /\ [Next]_vars => [Service!Next]_(Service!vars)  BY ServiceNext
<1>3. QED  BY <1>1, <1>2, Invariance, PTL DEF Spec, ImplementsTasks, Service!Spec
=============================================================================
