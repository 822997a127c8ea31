------------------------------ MODULE Lifecycle ------------------------------
(***************************************************************************)
(* The life of timers and of the pools they run on: New, which makes the   *)
(* pools it was not given and puts the scheduler on one of them; Shutdown, *)
(* from outside or from within a task; and callers who share pools between *)
(* timers and with tasks of their own, and close them when they like.      *)
(*                                                                         *)
(* A pool is what Pool shows it to be: the moves of its gate, its channel  *)
(* and its closing are one step here, and its metric reporter, which ends  *)
(* by itself, is left out.  A scheduler is a long task that ends when its  *)
(* timer is shut down and hands tasks to the worker pool until it does.    *)
(***************************************************************************)
EXTENDS Options, FiniteSets

CONSTANTS
  Timers,   \* one call of New each
  Shared,   \* the pools of the callers
  Callers,  \* goroutines that call Shutdown
  Tasks,    \* the users' tasks, which may call Shutdown as well
  OptionLists,  \* [Timers -> the lists of options New may be called with]
  Specs     \* [Shared -> the options of executor.New]

ASSUME LifecycleAssumption ==
  /\ \A s \in Shared : WellTypedPool(Specs[s]) /\ PoolOptions(Specs[s]) # Invalid
  /\ \A m \in Timers : \A opts \in OptionLists[m] : WellTyped(opts, Shared)
  /\ Timers \cap (Callers \cup Tasks) = {}
  /\ Shared \cap (Timers \X {"boss", "worker"}) = {}
  /\ Nil \notin Shared

VARIABLES
  given,      \* [Timers -> the options New was called with]
  config,     \* [Timers -> what they amount to]
  shutdownC,  \* [Timers -> BOOLEAN], Timer.shutdownC is closed
  reporter,   \* [Timers -> the metric reporter: "none", "running" or "ended"]
  pool,       \* [Pools -> a pool's options, its parked workers, its queue, the jobs its
              \* workers run and have run, and whether it is closed and done]
  at,         \* [Procs -> where the call of New or Shutdown is]
  timer,      \* [Closers -> the timer whose Shutdown it calls]
  ended       \* [Closers -> BOOLEAN], it has seen its context end

timerVars == <<given, config, shutdownC, reporter>>
callVars  == <<timer, ended>>
vars == <<timerVars, pool, at, callVars>>

Owned(m) == {<<m, "boss">>, <<m, "worker">>}
Pools    == Shared \cup UNION {Owned(m) : m \in Timers}
Jobs     == Timers \cup Tasks     \* a timer stands for its scheduler task
Closers  == Callers \cup Tasks
Procs    == Timers \cup Closers   \* a timer stands for its call of New

Made(spec) == [spec |-> spec, parked |-> 0, queue |-> <<>>, running |-> {}, ran |-> {},
               closed |-> FALSE, done |-> FALSE]

Init ==
  /\ given = [m \in Timers |-> Nil]
  /\ config = [m \in Timers |-> Nil]
  /\ shutdownC = [m \in Timers |-> FALSE]
  /\ reporter = [m \in Timers |-> "none"]
  /\ pool = [p \in Pools |-> IF p \in Shared THEN Made(PoolOptions(Specs[p])) ELSE Made(Nil)]
  /\ at = [c \in Procs |-> IF c \in Timers THEN "new" ELSE "idle"]
  /\ timer = [c \in Closers |-> Nil]
  /\ ended = [c \in Closers |-> FALSE]

Goto(c, here, there) ==
  /\ at[c] = here
  /\ at' = [at EXCEPT ![c] = there]

-----------------------------------------------------------------------------
(* Pools *)

Exists(p)  == pool[p].spec # Nil
Stopped(p) == pool[p].done
Queued(p)  == {pool[p].queue[i] : i \in DOMAIN pool[p].queue}
Fresh(j)   == \A p \in Pools : j \notin Queued(p) \cup pool[p].running \cup pool[p].ran
Occupied(p) == Cardinality(pool[p].running)

\* A channel takes a task if it has room, or a worker waits at its other end.
\* Mutant: one too many.
HasRoomBug(p) == pool[p].parked > 0 \/ Len(pool[p].queue) <= pool[p].spec.queueCapacity
HasRoom(p) == pool[p].parked > 0 \/ Len(pool[p].queue) < pool[p].spec.queueCapacity

\* TryExecute would take a task.  Mutant: the gate is not tested.
TakesBug(p) == HasRoom(p)
Takes(p) == ~pool[p].closed /\ HasRoom(p)

\* A worker that waits runs the task, or the buffer takes it.
Sent(s, j) ==
  IF s.parked > 0
  THEN [s EXCEPT !.parked = @ - 1, !.running = @ \cup {j}]
  ELSE [s EXCEPT !.queue = Append(@, j)]

Send(p, j) == pool' = [pool EXCEPT ![p] = Sent(pool[p], j)]

\* A worker waits to receive.  In a pool with a buffer that makes no
\* difference: a task for it is as good as one in the buffer.
Park(p) ==
  /\ Exists(p) /\ ~pool[p].closed
  /\ pool[p].spec.queueCapacity = 0
  /\ pool[p].parked + Occupied(p) < pool[p].spec.workers
  /\ pool' = [pool EXCEPT ![p].parked = @ + 1]
  /\ UNCHANGED <<timerVars, at, callVars>>

Pick(p) ==
  /\ pool[p].queue # <<>>
  /\ Occupied(p) < pool[p].spec.workers
  /\ pool' = [pool EXCEPT ![p].running = @ \cup {Head(pool[p].queue)},
                          ![p].queue = Tail(@)]
  /\ UNCHANGED <<timerVars, at, callVars>>

\* runScheduler returns, which closes schedulerDone; a task of a user returns.
\* Mutant: the worker is lost.
EndBug(p, j) ==
  /\ j \in pool[p].running \ pool[p].ran
  /\ IF j \in Timers THEN shutdownC[j] ELSE at[j] \in {"idle", "nil", "gave up", "err"}
  /\ pool' = [pool EXCEPT ![p].ran = @ \cup {j}]
  /\ UNCHANGED <<timerVars, at, callVars>>

End(p, j) ==
  /\ j \in pool[p].running
  /\ IF j \in Timers THEN shutdownC[j] ELSE at[j] \in {"idle", "nil", "gave up", "err"}
  /\ pool' = [pool EXCEPT ![p].running = @ \ {j}, ![p].ran = @ \cup {j}]
  /\ UNCHANGED <<timerVars, at, callVars>>

\* The last worker leaves.
Leave(p) ==
  /\ pool[p].closed /\ ~Stopped(p)
  /\ pool[p].queue = <<>> /\ pool[p].running = {}
  /\ pool' = [pool EXCEPT ![p].done = TRUE]
  /\ UNCHANGED <<timerVars, at, callVars>>

\* A caller gives a task to a pool of its own, or shuts that pool down.
Submit(s, x) ==
  /\ Fresh(x) /\ Takes(s)
  /\ Send(s, x)
  /\ UNCHANGED <<timerVars, at, callVars>>

Closing(p) == pool' = [pool EXCEPT ![p].closed = TRUE, ![p].parked = 0]

CloseShared(s) ==
  /\ ~pool[s].closed
  /\ Closing(s)
  /\ UNCHANGED <<timerVars, at, callVars>>

-----------------------------------------------------------------------------
(* The timer's pools, and its scheduler and reporter at work. *)

PoolOf(m, role) == IF config[m].pool[role] # Nil THEN config[m].pool[role] ELSE <<m, role>>
BossPool(m)   == PoolOf(m, "boss")
WorkerPool(m) == PoolOf(m, "worker")

SchedulerRuns(m) == at[m] = "ready" /\ m \in pool[BossPool(m)].running
SchedulerDone(m) == at[m] = "ready" /\ m \in pool[BossPool(m)].ran

\* The scheduler hands an expired timeout to the worker pool.
Dispatch(m, x) ==
  /\ SchedulerRuns(m)
  /\ Fresh(x) /\ Takes(WorkerPool(m))
  /\ Send(WorkerPool(m), x)
  /\ UNCHANGED <<timerVars, at, callVars>>

ReporterEnds(m) ==
  /\ reporter[m] = "running" /\ shutdownC[m]
  /\ reporter' = [reporter EXCEPT ![m] = "ended"]
  /\ UNCHANGED <<given, config, shutdownC, pool, at, callVars>>

-----------------------------------------------------------------------------
(* New *)

New(m) ==
  /\ \E opts \in OptionLists[m] :
       /\ given' = [given EXCEPT ![m] = opts]
       /\ config' = [config EXCEPT ![m] = TimerOptions(opts)]
       /\ Goto(m, "new", IF TimerOptions(opts) = Invalid THEN "failed" ELSE "make boss")
  /\ UNCHANGED <<shutdownC, reporter, pool, callVars>>

\* newTimer makes the pools that were not given.
Make(m, role, here, there, failure) ==
  LET spec == PoolOptions(config[m].options[role])
  IN /\ at[m] = here
     /\ IF config[m].pool[role] # Nil
        THEN Goto(m, here, there) /\ UNCHANGED pool
        ELSE IF spec = Invalid
        THEN Goto(m, here, failure) /\ UNCHANGED pool
        ELSE Goto(m, here, there) /\ pool' = [pool EXCEPT ![<<m, role>>] = Made(spec)]
     /\ UNCHANGED <<timerVars, callVars>>

MakeBoss(m) == Make(m, "boss", "make boss", "make worker", "failed")

\* Mutant: a boss pool that was made is forgotten.
MakeWorkerBug(m) == Make(m, "worker", "make worker", "start", "failed")
MakeWorker(m) == Make(m, "worker", "make worker", "start", "close boss")

\* startScheduler: Execute on a pool of its own, under its policy and with no
\* limit of time; TryExecute on one that it was given.
\* Mutant: TryExecute on either.
MayWaitBug(m) == FALSE
MayWait(m) ==
  config[m].pool["boss"] = Nil /\ pool[BossPool(m)].spec.rejectPolicy = "RejectPolicyBlock"

StartScheduler(m) ==
  /\ Goto(m, "start", "ready")
  /\ Takes(BossPool(m))
  /\ Send(BossPool(m), m)
  /\ reporter' = [reporter EXCEPT ![m] = IF config[m].metricSink # Nil THEN "running" ELSE "none"]
  /\ UNCHANGED <<given, config, shutdownC, callVars>>

StartRefused(m) ==
  /\ Goto(m, "start", "close boss")
  /\ ~Takes(BossPool(m)) /\ ~MayWait(m)
  /\ UNCHANGED <<timerVars, pool, callVars>>

-----------------------------------------------------------------------------
(* Timer.Shutdown *)

Returned(c) == at[c] \in {"idle", "nil", "gave up", "err"}

\* closeScheduler, whose steps Timer shows; a later call finds it done.
Shutdown(c, m) ==
  /\ Returned(c) /\ (c \in Tasks => at[c] = "idle" /\ \E p \in Pools : c \in pool[p].running)
  /\ at[m] = "ready"
  /\ at' = [at EXCEPT ![c] = "await"]
  /\ timer' = [timer EXCEPT ![c] = m]
  /\ shutdownC' = [shutdownC EXCEPT ![m] = TRUE]
  /\ ended' = [ended EXCEPT ![c] = FALSE]
  /\ UNCHANGED <<given, config, reporter, pool>>

\* The call leaves a wait because its context has ended.  It does not have to
\* end, but stays so: the waits that follow may end at once.
TimeOut(c, here, there) ==
  /\ Goto(c, here, there)
  /\ ended' = [ended EXCEPT ![c] = TRUE]
  /\ UNCHANGED <<timerVars, pool, timer>>

AwaitScheduler(c) ==
  /\ Goto(c, "await", "report")
  /\ SchedulerDone(timer[c])
  /\ UNCHANGED <<timerVars, pool, callVars>>

GiveUp(c) == TimeOut(c, "await", "gave up")

\* Mutant: an error ends the call.
ReporterTimeoutBug(c) == at[c] = "report" /\ reporter[timer[c]] # "none" /\ TimeOut(c, "report", "err")
ReporterTimeout(c) == at[c] = "report" /\ reporter[timer[c]] # "none" /\ TimeOut(c, "report", "close boss")

\* waitMetricReporter.
AwaitReporter(c) ==
  /\ Goto(c, "report", "close boss")
  /\ reporter[timer[c]] # "running"
  /\ UNCHANGED <<timerVars, pool, callVars>>

-----------------------------------------------------------------------------
(* closeOwnedPools, for Shutdown and for New when it fails. *)

ClosePlace == [boss |-> "close boss", worker |-> "close worker"]
AwaitPlace == [boss |-> "await boss", worker |-> "await worker"]

TimerOf(c) == IF c \in Timers THEN c ELSE timer[c]

\* Where the call goes after the pool of a role; err says whether it failed.
After(c, role, err) ==
  IF role = "boss" THEN "close worker"
  ELSE IF c \in Timers THEN "failed"
  ELSE IF err THEN "err" ELSE "nil"

Failed(c) == c \in Closers /\ ended[c]

\* The pool to close.  Mutant: whether it was made or given.
TargetBug(c, role) == PoolOf(TimerOf(c), role)
Target(c, role) == <<TimerOf(c), role>>

\* Mutant: the pool is waited for and not closed.
CloseBug(c, role) ==
  /\ at[c] = ClosePlace[role]
  /\ Goto(c, ClosePlace[role],
          IF Exists(Target(c, role)) THEN AwaitPlace[role] ELSE After(c, role, Failed(c)))
  /\ UNCHANGED <<timerVars, pool, callVars>>

Close(c, role) ==
  /\ at[c] = ClosePlace[role]
  /\ IF Exists(Target(c, role))
     THEN Goto(c, ClosePlace[role], AwaitPlace[role]) /\ Closing(Target(c, role))
     ELSE Goto(c, ClosePlace[role], After(c, role, Failed(c))) /\ UNCHANGED pool
  /\ UNCHANGED <<timerVars, callVars>>

\* Mutant: the pool is closed and not waited for.
AwaitStoppedBug(c, role) ==
  /\ Goto(c, AwaitPlace[role], After(c, role, Failed(c)))
  /\ UNCHANGED <<timerVars, pool, callVars>>

AwaitStopped(c, role) ==
  /\ Goto(c, AwaitPlace[role], After(c, role, Failed(c)))
  /\ Stopped(Target(c, role))
  /\ UNCHANGED <<timerVars, pool, callVars>>

StopTimeout(c, role) == c \in Closers /\ TimeOut(c, AwaitPlace[role], After(c, role, TRUE))

-----------------------------------------------------------------------------
NewStep(m) == MakeBoss(m) \/ MakeWorker(m) \/ StartScheduler(m) \/ StartRefused(m)
ShutdownStep(c) == AwaitScheduler(c) \/ AwaitReporter(c)
CloseStep(c) == \E role \in {"boss", "worker"} : Close(c, role) \/ AwaitStopped(c, role)
ContextEnds(c) ==
  GiveUp(c) \/ ReporterTimeout(c) \/ \E role \in {"boss", "worker"} : StopTimeout(c, role)
PoolStep(p) == Park(p) \/ Pick(p) \/ Leave(p) \/ \E j \in Jobs : End(p, j)

CallStep(c) ==
  \/ CloseStep(c)
  \/ c \in Timers /\ NewStep(c)
  \/ c \in Closers /\ (ShutdownStep(c) \/ (ended[c] /\ ContextEnds(c)))

Next ==
  \/ \E c \in Procs : CallStep(c)
  \/ \E p \in Pools : PoolStep(p)
  \/ \E m \in Timers : New(m) \/ ReporterEnds(m) \/ \E x \in Tasks : Dispatch(m, x)
  \/ \E c \in Closers : ContextEnds(c) \/ \E m \in Timers : Shutdown(c, m)
  \/ \E s \in Shared : CloseShared(s) \/ \E x \in Tasks : Submit(s, x)

Spec == Init /\ [][Next]_vars

\* Goroutines run, tasks come to an end, and a metric sink returns.  Nobody
\* has to call anything, and a context may never end.
Fairness ==
  /\ \A c \in Procs : WF_vars(CallStep(c))
  /\ \A p \in Pools : WF_vars(PoolStep(p))
  /\ \A m \in Timers : WF_vars(ReporterEnds(m))

FairSpec == Spec /\ Fairness

-----------------------------------------------------------------------------
(* Properties *)

TypeOK ==
  /\ shutdownC \in [Timers -> BOOLEAN]
  /\ reporter \in [Timers -> {"none", "running", "ended"}]
  /\ \A p \in Pools : Exists(p) =>
       /\ pool[p].parked + Occupied(p) \in 0 .. pool[p].spec.workers
       /\ Len(pool[p].queue) <= pool[p].spec.queueCapacity
       /\ Queued(p) \cup pool[p].running \cup pool[p].ran \subseteq Jobs
  /\ timer \in [Closers -> Timers \cup {Nil}]
  /\ ended \in [Closers -> BOOLEAN]

\* New takes a list of options exactly when each is good by itself and no role
\* is given both a pool and options, in whatever order; the last value wins.
OptionsHonoured ==
  \A m \in Timers : at[m] \in {"make boss", "failed"} => Amounts(given[m], config[m])

\* When New returns an error nothing is left running: the pools it made have
\* stopped, and its scheduler is on no pool.
FailedNewLeavesNothing ==
  \A m \in Timers : at[m] = "failed" =>
    Fresh(m) /\ \A p \in Owned(m) : Exists(p) => Stopped(p)

\* New fails with a boss pool of its own and a worker pool only if the boss pool
\* has no buffer and refuses instead of waiting: its worker was not there yet.
OwnBossAccepts ==
  \A m \in Timers : at[m] = "failed" /\ Exists(<<m, "boss">>) /\ Exists(WorkerPool(m)) =>
    LET spec == pool[<<m, "boss">>].spec
    IN spec.queueCapacity = 0 /\ spec.rejectPolicy = "RejectPolicyReject"

\* When Shutdown returns nil the timer is gone: the scheduler and the reporter
\* have ended, and the pools it owned have stopped.  So a task that runs on such
\* a pool and calls Shutdown never gets nil.
ShutdownComplete ==
  \A c \in Closers : at[c] = "nil" =>
    LET m == timer[c]
    IN /\ SchedulerDone(m) /\ reporter[m] # "running"
       /\ \A p \in Owned(m) : Exists(p) => Stopped(p)

\* Once the scheduler has ended, Shutdown closes the pools of the timer even if
\* the context ends while it waits for the reporter or for a pool.
PoolsClosedAnyway ==
  \A c \in Closers : at[c] = "err" =>
    \A p \in Owned(timer[c]) : Exists(p) => pool[p].closed

\* Every pool keeps the promise of TaskService, whoever shares it.
Service(p) == INSTANCE TaskService WITH
  Tasks <- Jobs,
  closed <- pool[p].closed,
  stopped <- Stopped(p),
  status <- [j \in Jobs |-> IF j \in pool[p].ran THEN "done"
                            ELSE IF j \in Queued(p) \cup pool[p].running THEN "accepted"
                            ELSE "unknown"]

ImplementsTasks ==
  /\ \A p \in Pools : Service(p)!Init
  /\ [][\A p \in Pools : pool'[p] # pool[p] =>
           Service(p)!Next \/ Service(p)!vars' = Service(p)!vars]_vars

\* New returns, although it waits without a limit of time: for its worker to
\* take the scheduler, or for the pools it closes when it fails.  (It is called
\* once for each timer, so that it is enough to say what is so in the end.)
NewReturns == <>[](\A m \in Timers : at[m] \in {"new", "ready", "failed"})

\* A worker that does not come back: it runs the scheduler of a timer nobody
\* shuts down, or a task that waits in Shutdown.
Held(j) == IF j \in Timers THEN ~shutdownC[j] ELSE ~Returned(j)

\* Every worker of the pool where j waits is held.
Starved(j) ==
  \E p \in Pools : /\ j \in Queued(p)
                   /\ Cardinality({k \in pool[p].running : Held(k)}) = pool[p].spec.workers

\* A job that a pool accepted is run, a scheduler no less than a task, unless
\* in the end all workers are held.
JobsRun == <>[](\A j \in Jobs : \A p \in Pools : j \in Queued(p) => Starved(j))

\* What Shutdown of m may wait for in vain: a scheduler that starves, or a task
\* on a pool of m that is itself in a call of Shutdown or waits behind one.
Hangs(m) ==
  \/ Starved(m)
  \/ \E p \in Owned(m) : \E x \in pool[p].running \cap Tasks : Held(x)

\* Every call of Shutdown returns - its caller is time and again outside - unless
\* in the end it hangs in that way, and its context does not end.
ShutdownsReturn ==
  \A c \in Closers : []<>Returned(c) \/ <>[](~Returned(c) /\ ~ended[c] /\ Hangs(timer[c]))
=============================================================================
