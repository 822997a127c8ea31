-------------------------------- MODULE Pool ---------------------------------
(***************************************************************************)
(* pkg/executor: callers that submit tasks, worker goroutines, the bounded *)
(* queue between them, calls of Shutdown and the metric reporter.          *)
(*                                                                         *)
(* The queue is a Go channel: a send goes to a worker parked in a receive  *)
(* if there is one (so with capacity 0 only then), else into the buffer.   *)
(* submitMu needs no variable: what it protects is read and written only   *)
(* in critical sections that do not wait, each a single action here.       *)
(***************************************************************************)
EXTENDS Integers, Sequences, FiniteSets

CONSTANTS
  Tasks,          \* one call of Execute or TryExecute each
  Parent,         \* [Tasks -> the task of this pool that makes the call, or None]
  Workers,        \* WithWorkers, at least 1
  Closers,        \* one call of Shutdown each
  QueueCapacity,  \* WithQueueCapacity, may be 0
  Block,          \* TRUE: RejectPolicyBlock, FALSE: RejectPolicyReject
  MaxExits,       \* BOUND: tasks that end their goroutine (runtime.Goexit)
  None            \* no task

ASSUME PoolAssumption ==
  /\ Workers # {} /\ IsFiniteSet(Workers)
  /\ QueueCapacity \in Nat
  /\ Block \in BOOLEAN
  /\ MaxExits \in Nat
  /\ None \notin Tasks
  /\ Parent \in [Tasks -> Tasks \cup {None}]

VARIABLES
  call,         \* [Tasks -> where the submitting call is]
  waits,        \* [Tasks -> BOOLEAN], the call may wait for room in the queue
  submits,      \* the count of submitsDone
  isClosed,     \* Pool.isClosed
  shutdownC,    \* Pool.shutdownC is closed
  queue,        \* the buffer of the task channel
  queueClosed,  \* the task channel is closed
  depth,        \* metrics.queueDepth
  worker,       \* [Workers -> where the worker is]
  task,         \* [Workers -> the task it runs, or None]
  exits,        \* tasks that have ended their worker
  done,         \* Pool.done is closed
  ran,          \* [Tasks -> Nat], how often the task was run
  closer,       \* [Closers -> where the call of Shutdown is]
  once,         \* closeOnce: "new", "running" or "done"
  reporting     \* metricReporterDone is not closed

submitVars == <<call, waits, submits>>
gateVars   == <<isClosed, shutdownC>>
queueVars  == <<queue, queueClosed>>
workerVars == <<worker, task, exits, ran>>
closeVars  == <<closer, once>>
vars == <<submitVars, gateVars, queueVars, workerVars, closeVars, depth, done, reporting>>

Init ==
  /\ call = [t \in Tasks |-> "idle"]
  /\ waits = [t \in Tasks |-> FALSE]
  /\ submits = 0
  /\ isClosed = FALSE
  /\ shutdownC = FALSE
  /\ queue = <<>>
  /\ queueClosed = FALSE
  /\ depth = 0
  /\ worker = [w \in Workers |-> "idle"]
  /\ task = [w \in Workers |-> None]
  /\ exits = 0
  /\ done = FALSE
  /\ ran = [t \in Tasks |-> 0]
  /\ closer = [c \in Closers |-> "idle"]
  /\ once = "new"
  /\ reporting = TRUE

-----------------------------------------------------------------------------
(* Pool.Execute and Pool.TryExecute *)

\* The call that submits t moves on.
Goto(t, here, there) ==
  /\ call[t] = here
  /\ call' = [call EXCEPT ![t] = there]

Parked == {w \in Workers : worker[w] = "parked"}
Busy == {w \in Workers : worker[w] \in {"run", "count"}}

\* A send on the task channel would not wait.
HasRoom == Parked # {} \/ Len(queue) < QueueCapacity

Outside(t) == call[t] \in {"idle", "accepted", "refused"}

\* TryExecute never waits, Execute does under RejectPolicyBlock.
Submit(t) ==
  /\ Parent[t] = None \/ \E w \in Workers : task[w] = Parent[t]
  /\ Goto(t, "idle", "begin")
  /\ \E wait \in {FALSE, Block} : waits' = [waits EXCEPT ![t] = wait]
  /\ UNCHANGED <<submits, gateVars, queueVars, workerVars, closeVars, depth, done, reporting>>

\* beginSubmit.  Mutant: endSubmit is deferred even when it fails.
BeginSubmitBug(t) ==
  /\ Goto(t, "begin", IF isClosed THEN "fail" ELSE "offer")
  /\ submits' = IF isClosed THEN submits ELSE submits + 1
  /\ UNCHANGED <<waits, gateVars, queueVars, workerVars, closeVars, depth, done, reporting>>

BeginSubmit(t) ==
  /\ Goto(t, "begin", IF isClosed THEN "refused" ELSE "offer")
  /\ submits' = IF isClosed THEN submits ELSE submits + 1
  /\ UNCHANGED <<waits, gateVars, queueVars, workerVars, closeVars, depth, done, reporting>>

\* The send succeeds.
Offer(t) ==
  /\ HasRoom
  /\ Goto(t, "offer", "count")
  /\ \/ /\ Parked = {}
        /\ queue' = Append(queue, t)
        /\ UNCHANGED <<worker, task>>
     \/ \E w \in Parked :
          /\ worker' = [worker EXCEPT ![w] = "run"]
          /\ task' = [task EXCEPT ![w] = t]
          /\ UNCHANGED queue
  /\ UNCHANGED <<waits, submits, gateVars, queueClosed, exits, ran, closeVars, depth,
                 done, reporting>>

\* queueDepth.Add(1), which the worker may have lowered already.
Count(t) ==
  /\ Goto(t, "count", "end")
  /\ depth' = depth + 1
  /\ UNCHANGED <<waits, submits, gateVars, queueVars, workerVars, closeVars, done, reporting>>

\* A call that does not wait finds no room; one that waits is woken by the
\* shutdown or by its context.  Mutant: the task was counted before it waited.
FailBug(t) ==
  /\ Goto(t, "offer", "fail")
  /\ depth' = depth + 1
  /\ UNCHANGED <<waits, submits, gateVars, queueVars, workerVars, closeVars, done, reporting>>

Fail(t) ==
  /\ Goto(t, "offer", "fail")
  /\ UNCHANGED <<waits, submits, gateVars, queueVars, workerVars, closeVars, depth,
                 done, reporting>>

Saturated(t)   == ~waits[t] /\ ~HasRoom /\ Fail(t)
WokenClosed(t) == waits[t] /\ shutdownC /\ Fail(t)
ContextDone(t) == waits[t] /\ Fail(t)

\* endSubmit, deferred.  Mutant: it is skipped when the call fails.
EndSubmitBug(t) ==
  /\ \/ Goto(t, "end", "accepted") /\ submits' = submits - 1
     \/ Goto(t, "fail", "refused") /\ UNCHANGED submits
  /\ UNCHANGED <<waits, gateVars, queueVars, workerVars, closeVars, depth, done, reporting>>

EndSubmit(t) ==
  /\ Goto(t, "end", "accepted") \/ Goto(t, "fail", "refused")
  /\ submits' = submits - 1
  /\ UNCHANGED <<waits, gateVars, queueVars, workerVars, closeVars, depth, done, reporting>>

-----------------------------------------------------------------------------
(* Pool.worker *)

WorkerGoto(w, here, there) ==
  /\ worker[w] \in here
  /\ worker' = [worker EXCEPT ![w] = there]

\* The worker receives a task: the buffer is emptied even when it is closed.
Receive(w) ==
  /\ queue # <<>>
  /\ WorkerGoto(w, {"idle"}, "run")
  /\ task' = [task EXCEPT ![w] = Head(queue)]
  /\ queue' = Tail(queue)
  /\ UNCHANGED <<submitVars, gateVars, queueClosed, exits, ran, closeVars, depth, done,
                 reporting>>

\* It waits for one.
Park(w) ==
  /\ queue = <<>> /\ ~queueClosed
  /\ WorkerGoto(w, {"idle"}, "parked")
  /\ UNCHANGED <<submitVars, gateVars, queueVars, task, exits, ran, closeVars, depth, done,
                 reporting>>

\* The channel is closed and empty: workersDone.Done.
\* Mutant: the worker watches shutdownC instead.
LeaveBug(w) ==
  /\ shutdownC
  /\ WorkerGoto(w, {"idle", "parked"}, "gone")
  /\ UNCHANGED <<submitVars, gateVars, queueVars, task, exits, ran, closeVars, depth, done,
                 reporting>>

Leave(w) ==
  /\ queue = <<>> /\ queueClosed
  /\ WorkerGoto(w, {"idle", "parked"}, "gone")
  /\ UNCHANGED <<submitVars, gateVars, queueVars, task, exits, ran, closeVars, depth, done,
                 reporting>>

\* The task makes no call that it would have to wait for.
Free(w) == \A t \in Tasks : Parent[t] = task[w] => Outside(t)

\* run: the task returns, or panics and the worker recovers.
\* Mutant: the worker ends when it has run a task.
FinishBug(w) ==
  /\ WorkerGoto(w, {"run"}, "gone")
  /\ ran' = [ran EXCEPT ![task[w]] = ran[task[w]] + 1]
  /\ task' = [task EXCEPT ![w] = None]
  /\ UNCHANGED <<submitVars, gateVars, queueVars, exits, closeVars, depth, done, reporting>>

Finish(w) ==
  /\ Free(w)
  /\ WorkerGoto(w, {"run"}, "count")
  /\ ran' = [ran EXCEPT ![task[w]] = ran[task[w]] + 1]
  /\ task' = [task EXCEPT ![w] = None]
  /\ UNCHANGED <<submitVars, gateVars, queueVars, exits, closeVars, depth, done, reporting>>

\* The task ends its goroutine: the deferred calls of run and worker are made,
\* the rest of the loop is not.
Exit(w) ==
  /\ exits < MaxExits /\ Free(w)
  /\ WorkerGoto(w, {"run"}, "gone")
  /\ exits' = exits + 1
  /\ ran' = [ran EXCEPT ![task[w]] = ran[task[w]] + 1]
  /\ task' = [task EXCEPT ![w] = None]
  /\ UNCHANGED <<submitVars, gateVars, queueVars, closeVars, depth, done, reporting>>

\* queueDepth.Add(-1). 
Uncount(w) ==
  /\ WorkerGoto(w, {"count"}, "idle")
  /\ depth' = depth - 1
  /\ UNCHANGED <<submitVars, gateVars, queueVars, task, exits, ran, closeVars, done,
                 reporting>>

\* closeDoneWhenWorkersExit.
CloseDone ==
  /\ ~done
  /\ \A w \in Workers : worker[w] = "gone"
  /\ done' = TRUE
  /\ UNCHANGED <<submitVars, gateVars, queueVars, workerVars, closeVars, depth, reporting>>

-----------------------------------------------------------------------------
(* The metric reporter: its observations change nothing, it ends on shutdownC *)

ReporterStop ==
  /\ reporting /\ shutdownC
  /\ reporting' = FALSE
  /\ UNCHANGED <<submitVars, gateVars, queueVars, workerVars, closeVars, depth, done>>

-----------------------------------------------------------------------------
(* Pool.Shutdown *)

\* The call of Shutdown(c) moves on.
Step(c, here, there) ==
  /\ closer[c] = here
  /\ closer' = [closer EXCEPT ![c] = there]

Shutdown(c) ==
  /\ Step(c, "idle", "enter")
  /\ UNCHANGED <<submitVars, gateVars, queueVars, workerVars, once, depth, done, reporting>>

\* closeOnce.Do: the first call runs closeQueue, the others wait for it.
EnterOnce(c) ==
  /\ \/ once = "new" /\ Step(c, "enter", "gate") /\ once' = "running"
     \/ once = "done" /\ Step(c, "enter", "await") /\ once' = once
  /\ UNCHANGED <<submitVars, gateVars, queueVars, workerVars, depth, done, reporting>>

\* closeQueue: the gate is shut and the waiting submitters are woken, ...
CloseGate(c) ==
  /\ Step(c, "gate", "drain")
  /\ isClosed' = TRUE
  /\ shutdownC' = TRUE
  /\ UNCHANGED <<submitVars, queueVars, workerVars, once, depth, done, reporting>>

\* ... and the channel is closed when the last of them has left.
\* Mutant: without waiting for that.
CloseQueueBug(c) ==
  /\ Step(c, "drain", "await")
  /\ queueClosed' = TRUE
  /\ once' = "done"
  /\ UNCHANGED <<submitVars, gateVars, queue, workerVars, depth, done, reporting>>

CloseQueue(c) ==
  /\ submits = 0
  /\ Step(c, "drain", "await")
  /\ queueClosed' = TRUE
  /\ once' = "done"
  /\ UNCHANGED <<submitVars, gateVars, queue, workerVars, depth, done, reporting>>

\* Shutdown waits for the workers and then for the reporter, or for the end of
\* its context.
AwaitDone(c) ==
  /\ done
  /\ Step(c, "await", "report")
  /\ UNCHANGED <<submitVars, gateVars, queueVars, workerVars, once, depth, done, reporting>>

AwaitReporter(c) ==
  /\ ~reporting
  /\ Step(c, "report", "returned")
  /\ UNCHANGED <<submitVars, gateVars, queueVars, workerVars, once, depth, done, reporting>>

GiveUp(c) ==
  /\ Step(c, "await", "gaveUp") \/ Step(c, "report", "gaveUp")
  /\ UNCHANGED <<submitVars, gateVars, queueVars, workerVars, once, depth, done, reporting>>

-----------------------------------------------------------------------------
SubmitStep(t) ==
  \/ BeginSubmit(t) \/ Offer(t) \/ Count(t)
  \/ Saturated(t) \/ WokenClosed(t) \/ EndSubmit(t)

WorkerStep(w) ==
  Receive(w) \/ Park(w) \/ Leave(w) \/ Finish(w) \/ Exit(w) \/ Uncount(w)

ShutdownStep(c) ==
  EnterOnce(c) \/ CloseGate(c) \/ CloseQueue(c) \/ AwaitDone(c) \/ AwaitReporter(c)

\* Every call has returned and every goroutine of the pool has ended.
Terminated ==
  /\ done /\ ~reporting
  /\ \A t \in Tasks : Outside(t) /\ (Parent[t] = None => call[t] # "idle")
  /\ \A c \in Closers : closer[c] \in {"returned", "gaveUp"}
  /\ UNCHANGED vars

Next ==
  \/ \E t \in Tasks : Submit(t) \/ SubmitStep(t) \/ ContextDone(t)
  \/ \E w \in Workers : WorkerStep(w)
  \/ \E c \in Closers : Shutdown(c) \/ ShutdownStep(c) \/ GiveUp(c)
  \/ CloseDone \/ ReporterStop
  \/ Terminated

Spec == Init /\ [][Next]_vars

\* Every goroutine that can move does; tasks and metric sinks return.  Go picks
\* among the ready cases of a select at random, so that the reporter does not
\* choose its ticker for ever.
Fairness ==
  /\ \A t \in Tasks : WF_vars(SubmitStep(t))
  /\ \A w \in Workers : WF_vars(WorkerStep(w))
  /\ \A c \in Closers : WF_vars(ShutdownStep(c))
  /\ WF_vars(CloseDone)
  /\ WF_vars(ReporterStop)

FairSpec == Spec /\ Fairness

-----------------------------------------------------------------------------
(* Properties *)

TypeOK ==
  /\ call \in [Tasks -> {"idle", "begin", "offer", "count", "end", "fail", "accepted",
                          "refused"}]
  /\ waits \in [Tasks -> BOOLEAN]
  /\ submits \in Nat
  /\ isClosed \in BOOLEAN /\ shutdownC \in BOOLEAN /\ queueClosed \in BOOLEAN
  /\ done \in BOOLEAN /\ reporting \in BOOLEAN
  /\ queue \in Seq(Tasks) /\ Len(queue) <= QueueCapacity
  /\ depth \in Int
  /\ worker \in [Workers -> {"idle", "parked", "run", "count", "gone"}]
  /\ task \in [Workers -> Tasks \cup {None}]
  /\ exits \in 0 .. MaxExits
  /\ ran \in [Tasks -> Nat]
  /\ closer \in [Closers -> {"idle", "enter", "gate", "drain", "await", "report",
                              "returned", "gaveUp"}]
  /\ once \in {"new", "running", "done"}

\* No submitter is at its send when the channel is closed: a send on a closed
\* channel would panic in the caller of Execute or TryExecute.
NoSendOnClosed == queueClosed => \A t \in Tasks : call[t] # "offer"

\* The queueDepth metric counts the tasks queued or held by a worker, less the
\* ones whose submitter has yet to count them (it can be negative), plus one
\* for each worker that a task has ended.  A worker holds a task until it has
\* lowered the counter, some time after the task has run: a task whose work is
\* done can still be in the depth, which DepthZeroWhenRun is about.
DepthExact ==
  depth = Len(queue) + Cardinality(Busy) + exits
            - Cardinality({t \in Tasks : call[t] = "count"})

\* A task has been sent to the pool.
Sent(t) == call[t] \in {"count", "end", "accepted"}

\* What a test asserts of the metric (TestPoolExecuteRunsTask): 0 as soon as
\* every call has returned and every accepted task has run.  It is not so: the
\* worker lowers queueDepth after run, and nobody waits for that.
DepthZeroWhenRun ==
  (\A t \in Tasks : Outside(t) /\ (Sent(t) => ran[t] > 0)) => depth = 0

\* "Shutdown stops accepting tasks and waits for accepted tasks to drain":
\* when it returns without an error every accepted task was run, once, and no
\* other ever will be.
ShutdownDrains ==
  (\E c \in Closers : closer[c] = "returned") =>
    /\ \A t \in Tasks : ran[t] = (IF Sent(t) THEN 1 ELSE 0)
    /\ \A t \in Tasks : call[t] # "offer"
    /\ ~reporting

\* The promise of TaskService, with a task accepted when it is sent.
Service == INSTANCE TaskService WITH
  closed <- queueClosed,
  stopped <- done,
  status <- [t \in Tasks |->
    IF call[t] = "refused" THEN "refused"
    ELSE IF ran[t] > 0 THEN "done"
    ELSE IF Sent(t) THEN "accepted" ELSE "unknown"]

ImplementsTasks == Service!Spec

\* Each call is made once, so that it is enough to say what is so in the end.

\* Every worker runs a task that waits for room in the queue.
Clogged ==
  \A w \in Workers : \E t \in Tasks : Parent[t] # None /\ Parent[t] = task[w] /\ call[t] = "offer"

\* A call that submits a task returns, waiting or not - workers take tasks, or
\* the shutdown wakes it - and the task it leaves behind is run.  Only tasks that
\* wait on their own pool can prevent it.
SubmitsEnd == <>[](Clogged \/ \A t \in Tasks : Outside(t) /\ (Sent(t) => ran[t] > 0))

\* Shutdown returns, whatever submitters wait for room in the queue, and even
\* if they are tasks and the pool is clogged.
ShutdownsReturn == <>[](\A c \in Closers : closer[c] \in {"idle", "returned", "gaveUp"})
=============================================================================
