-------------------------------- MODULE Timer --------------------------------
(***************************************************************************)
(* The concurrent half of pkg/timewheel: callers of Schedule, Cancel and   *)
(* Shutdown, each in a goroutine of its own, and the scheduler goroutine.  *)
(* They share the command channel and its slot permits, the enqueue mutex, *)
(* the state word of each timeout and the pending counter; every step that *)
(* another goroutine could observe is an action here.                      *)
(*                                                                         *)
(* Time and the wheel are abstracted to what this protocol can see of      *)
(* them: the set of stored entries and those whose time has come (ripe).   *)
(* TimingWheel shows that entries come due then and not before.  The       *)
(* worker pool may refuse a task at any time, for it may be shared.        *)
(***************************************************************************)
EXTENDS Integers, Sequences, FiniteSets

CONSTANTS
  Timeouts,         \* one call of Schedule each
  Closers,          \* one call of Shutdown each
  CommandCapacity,  \* WithCommandCapacity, at least 1
  MaxPending,       \* WithMaxPending, at least 1
  Block,            \* TRUE: BackpressureBlock, FALSE: BackpressureReject
  Retry,            \* TRUE: ExpiredTaskRetry, FALSE: ExpiredTaskReject
  MaxRejects,       \* BOUND: submissions an open worker pool refuses
  None              \* no timeout, no goroutine

ASSUME TimerAssumption ==
  /\ CommandCapacity \in Nat \ {0}
  /\ MaxPending \in Nat \ {0}
  /\ Block \in BOOLEAN
  /\ Retry \in BOOLEAN
  /\ MaxRejects \in Nat
  /\ None \notin Timeouts \cup Closers
  /\ Timeouts \cap Closers = {}

VARIABLES
  call,        \* [Timeouts -> where the call of Schedule is]
  cancelling,  \* [Timeouts -> BOOLEAN], a caller's Cancel won, pending not yet lowered
  closer,      \* [Closers -> where the call of Shutdown is]
  once,        \* closeOnce: "new", "running" or "done"
  enqueueMu,   \* the goroutine that holds enqueueMu, or None
  isClosed,    \* Timer.isClosed
  shutdownC,   \* Timer.shutdownC is closed
  enqueues,    \* the count of enqueuesDone
  slots,       \* permits in commandSlots
  commands,    \* the channel of schedule commands
  pending,     \* metrics.pendingTimeouts
  depth,       \* metrics.commandQueueDepth
  state,       \* [Timeouts -> TaskEntry.state], "Unknown" until it is created
  sched,       \* where the scheduler is
  entry,       \* the entry the scheduler has in hand, or None
  back,        \* where the scheduler goes when it is done with that entry
  wheel,       \* the entries stored in the wheel
  ripe,        \* the entries whose deadline has passed
  batch,       \* the entries in the buckets the current round of polls yields
  handed,      \* [Timeouts -> Nat], how often the worker pool accepted the task
  ran,         \* [Timeouts -> Nat], how often the task was run
  poolClosed,  \* the owner of the worker pool has shut it down
  rejects      \* submissions the open worker pool has refused

callVars  == <<call, enqueueMu, enqueues>>
closeVars == <<closer, once, isClosed, shutdownC>>
wheelVars == <<wheel, ripe, batch>>
poolVars  == <<handed, ran, poolClosed, rejects>>
schedVars == <<sched, entry, back>>
chanVars  == <<slots, commands, depth>>
vars == <<callVars, closeVars, wheelVars, poolVars, schedVars, chanVars,
          cancelling, pending, state>>

Init ==
  /\ call = [t \in Timeouts |-> "idle"]
  /\ cancelling = [t \in Timeouts |-> FALSE]
  /\ closer = [c \in Closers |-> "idle"]
  /\ once = "new"
  /\ enqueueMu = None
  /\ isClosed = FALSE
  /\ shutdownC = FALSE
  /\ enqueues = 0
  /\ slots = CommandCapacity
  /\ commands = <<>>
  /\ pending = 0
  /\ depth = 0
  /\ state = [t \in Timeouts |-> "Unknown"]
  /\ sched = "drain"
  /\ entry = None
  /\ back = "drain"
  /\ wheel = {}
  /\ ripe = {}
  /\ batch = {}
  /\ handed = [t \in Timeouts |-> 0]
  /\ ran = [t \in Timeouts |-> 0]
  /\ poolClosed = FALSE
  /\ rejects = 0

\* The call of Schedule(t) moves on.
Goto(t, here, there) ==
  /\ call[t] = here
  /\ call' = [call EXCEPT ![t] = there]

\* The command of t has been sent; its timeout is neither over nor handed over.
Published(t) == call[t] \in {"publish", "end", "returned"}
Alive(t) == state[t] \in {"Scheduled", "Dispatching"}

-----------------------------------------------------------------------------
(* Timer.Schedule *)

\* The first look at isClosed, without the mutex.
Schedule(t) ==
  /\ Goto(t, "idle", IF isClosed THEN "refused" ELSE "reserve")
  /\ UNCHANGED <<enqueueMu, enqueues, closeVars, wheelVars, poolVars, schedVars,
                 chanVars, cancelling, pending, state>>

\* pendingTimeouts.Add(1), and NewTaskEntry when the quota allows it.
\* Mutant: the limit is tested before the add.
ReserveBug(t) ==
  LET full == pending > MaxPending
  IN /\ Goto(t, "reserve", IF full THEN "release" ELSE "begin")
     /\ pending' = pending + 1
     /\ state' = IF full THEN state ELSE [state EXCEPT ![t] = "Scheduled"]
     /\ UNCHANGED <<enqueueMu, enqueues, closeVars, wheelVars, poolVars, schedVars,
                    chanVars, cancelling>>

Reserve(t) ==
  LET full == pending + 1 > MaxPending
  IN /\ Goto(t, "reserve", IF full THEN "release" ELSE "begin")
     /\ pending' = pending + 1
     /\ state' = IF full THEN state ELSE [state EXCEPT ![t] = "Scheduled"]
     /\ UNCHANGED <<enqueueMu, enqueues, closeVars, wheelVars, poolVars, schedVars,
                    chanVars, cancelling>>

\* The call fails: it gives back its share of the quota.
Release(t) ==
  /\ Goto(t, "release", "refused")
  /\ pending' = pending - 1
  /\ UNCHANGED <<enqueueMu, enqueues, closeVars, wheelVars, poolVars, schedVars,
                 chanVars, cancelling, state>>

\* beginEnqueue, under the mutex.
BeginEnqueue(t) ==
  /\ enqueueMu = None
  /\ Goto(t, "begin", IF isClosed THEN "release" ELSE "slot")
  /\ enqueues' = IF isClosed THEN enqueues ELSE enqueues + 1
  /\ UNCHANGED <<enqueueMu, closeVars, wheelVars, poolVars, schedVars, chanVars,
                 cancelling, pending, state>>

\* acquireCommandSlot or tryCommandSlot takes a permit.
TakeSlot(t) ==
  /\ slots > 0
  /\ Goto(t, "slot", "send")
  /\ slots' = slots - 1
  /\ UNCHANGED <<enqueueMu, enqueues, closeVars, wheelVars, poolVars, schedVars,
                 commands, depth, cancelling, pending, state>>

\* No permit: at once under BackpressureReject, else when the timer shuts down.
NoSlot(t) ==
  /\ IF Block THEN shutdownC ELSE slots = 0
  /\ Goto(t, "slot", "fail")
  /\ UNCHANGED <<enqueueMu, enqueues, closeVars, wheelVars, poolVars, schedVars,
                 chanVars, cancelling, pending, state>>

\* The caller's context ends while it waits for a permit.
ContextDone(t) ==
  /\ Block
  /\ Goto(t, "slot", "fail")
  /\ UNCHANGED <<enqueueMu, enqueues, closeVars, wheelVars, poolVars, schedVars,
                 chanVars, cancelling, pending, state>>

\* sendReservedCommand, with the mutex held from here to PublishDepth or
\* ReturnSlot: a second look at isClosed, then a send that does not wait.
\* Mutant: the second look is missing.
SendBug(t) ==
  LET full == Len(commands) = CommandCapacity
  IN /\ enqueueMu = None
     /\ Goto(t, "send", IF full THEN "return" ELSE "publish")
     /\ enqueueMu' = t
     /\ commands' = IF full THEN commands ELSE Append(commands, t)
     /\ UNCHANGED <<enqueues, closeVars, wheelVars, poolVars, schedVars, slots,
                    depth, cancelling, pending, state>>

Send(t) ==
  LET full == Len(commands) = CommandCapacity
  IN /\ enqueueMu = None
     /\ Goto(t, "send", IF isClosed \/ full THEN "return" ELSE "publish")
     /\ enqueueMu' = t
     /\ commands' = IF isClosed \/ full THEN commands ELSE Append(commands, t)
     /\ UNCHANGED <<enqueues, closeVars, wheelVars, poolVars, schedVars, slots,
                    depth, cancelling, pending, state>>

\* commandQueueDepth.Add(1), and the mutex is unlocked.
PublishDepth(t) ==
  /\ Goto(t, "publish", "end")
  /\ depth' = depth + 1
  /\ enqueueMu' = None
  /\ UNCHANGED <<enqueues, closeVars, wheelVars, poolVars, schedVars, slots,
                 commands, cancelling, pending, state>>

\* releaseCommandSlot, which would wait if commandSlots were full, with the
\* mutex held.  Mutant: the permit is not returned.
ReturnSlotBug(t) ==
  /\ Goto(t, "return", "fail")
  /\ enqueueMu' = None
  /\ UNCHANGED <<enqueues, closeVars, wheelVars, poolVars, schedVars, chanVars,
                 cancelling, pending, state>>

ReturnSlot(t) ==
  /\ slots < CommandCapacity
  /\ Goto(t, "return", "fail")
  /\ slots' = slots + 1
  /\ enqueueMu' = None
  /\ UNCHANGED <<enqueues, closeVars, wheelVars, poolVars, schedVars, commands,
                 depth, cancelling, pending, state>>

\* endEnqueue, deferred: Schedule returns the timeout, or goes on to fail.
EndEnqueue(t) ==
  /\ Goto(t, "end", "returned") \/ Goto(t, "fail", "release")
  /\ enqueues' = enqueues - 1
  /\ UNCHANGED <<enqueueMu, closeVars, wheelVars, poolVars, schedVars, chanVars,
                 cancelling, pending, state>>

-----------------------------------------------------------------------------
(* Timeout.Cancel, by whoever holds the handle that Schedule returned *)

\* TaskEntry.Cancel.  A Cancel that loses its race changes nothing.
\* Mutant: a timeout claimed for dispatch can still be cancelled.
CancelBug(t) ==
  /\ call[t] = "returned"
  /\ Alive(t)
  /\ state' = [state EXCEPT ![t] = "Cancelled"]
  /\ cancelling' = [cancelling EXCEPT ![t] = TRUE]
  /\ UNCHANGED <<callVars, closeVars, wheelVars, poolVars, schedVars, chanVars, pending>>

Cancel(t) ==
  /\ call[t] = "returned"
  /\ state[t] = "Scheduled"
  /\ state' = [state EXCEPT ![t] = "Cancelled"]
  /\ cancelling' = [cancelling EXCEPT ![t] = TRUE]
  /\ UNCHANGED <<callVars, closeVars, wheelVars, poolVars, schedVars, chanVars, pending>>

\* Timer.cancel.  Mutant: it can happen again.
CancelPendingBug(t) ==
  /\ cancelling[t]
  /\ pending' = pending - 1
  /\ UNCHANGED <<callVars, closeVars, wheelVars, poolVars, schedVars, chanVars,
                 cancelling, state>>

CancelPending(t) ==
  /\ cancelling[t]
  /\ cancelling' = [cancelling EXCEPT ![t] = FALSE]
  /\ pending' = pending - 1
  /\ UNCHANGED <<callVars, closeVars, wheelVars, poolVars, schedVars, chanVars, state>>

-----------------------------------------------------------------------------
(* The scheduler goroutine: receiving commands *)

At(here) == sched = here

\* The scheduler turns to t and will come back to there.
Take(t, next, there) ==
  /\ entry' = t
  /\ sched' = next
  /\ back' = there

\* It is done with the entry in hand.
Return ==
  /\ entry' = None
  /\ sched' = back
  /\ UNCHANGED back

\* A command is received and commandQueueDepth lowered.
Receive(there) ==
  /\ commands # <<>>
  /\ Take(Head(commands), "permit", there)
  /\ commands' = Tail(commands)
  /\ depth' = depth - 1
  /\ UNCHANGED <<callVars, closeVars, wheelVars, poolVars, slots, cancelling, pending, state>>

\* Nothing but the scheduler's place changes.
Move(here, there) ==
  /\ At(here)
  /\ sched' = there
  /\ UNCHANGED <<callVars, closeVars, wheelVars, poolVars, entry, back, chanVars,
                 cancelling, pending, state>>

\* drainCommands: a closed shutdownC and a waiting command are both ready.
DrainCommand == At("drain") /\ Receive("drain")
DrainDone == (shutdownC \/ commands = <<>>) /\ Move("drain", "check")

\* releaseCommandSlot, which would wait if commandSlots were full.
\* Mutant: the scheduler keeps the permit.
ReleaseSlotBug ==
  /\ At("permit")
  /\ sched' = IF back = "finish" THEN "cancel" ELSE "add"
  /\ UNCHANGED <<callVars, closeVars, wheelVars, poolVars, entry, back, chanVars,
                 cancelling, pending, state>>

ReleaseSlot ==
  /\ At("permit")
  /\ slots < CommandCapacity
  /\ slots' = slots + 1
  /\ sched' = IF back = "finish" THEN "cancel" ELSE "add"
  /\ UNCHANGED <<callVars, closeVars, wheelVars, poolVars, entry, back, commands, depth,
                 cancelling, pending, state>>

\* handleCommand for an entry that is not cancelled, and the end of retry: the
\* wheel reports the entry due, or stores it.
AddDue ==
  /\ At("add") \/ At("readd")
  /\ At("add") => state[entry] # "Cancelled"
  /\ entry \in ripe
  /\ sched' = "claim"
  /\ UNCHANGED <<callVars, closeVars, wheelVars, poolVars, entry, back, chanVars,
                 cancelling, pending, state>>

AddStored ==
  /\ At("add") \/ At("readd")
  /\ At("add") => state[entry] # "Cancelled"
  /\ wheel' = wheel \cup {entry}
  /\ Return
  /\ UNCHANGED <<callVars, closeVars, ripe, batch, poolVars, chanVars, cancelling,
                 pending, state>>

\* handleCommand drops an entry that was cancelled while it was queued.
SkipCancelled ==
  /\ At("add")
  /\ state[entry] = "Cancelled"
  /\ Return
  /\ UNCHANGED <<callVars, closeVars, wheelVars, poolVars, chanVars, cancelling,
                 pending, state>>

-----------------------------------------------------------------------------
(* The scheduler goroutine: one round of the loop of runScheduler *)

\* shouldShutdown; if not, the clock is read and the polls begin.
CheckShutdown == shutdownC /\ Move("check", "finish")

BeginPoll ==
  /\ At("check")
  /\ ~shutdownC
  /\ sched' = "poll"
  /\ batch' = wheel \cap ripe
  /\ UNCHANGED <<callVars, closeVars, wheel, ripe, poolVars, entry, back, chanVars,
                 cancelling, pending, state>>

\* Flush hands an entry to requeueOrDispatch.  Mutant: the entry stays linked.
FlushEntryBug(t) ==
  /\ At("poll")
  /\ t \in batch
  /\ batch' = batch \ {t}
  /\ IF state[t] = "Cancelled" THEN UNCHANGED schedVars ELSE Take(t, "claim", "poll")
  /\ UNCHANGED <<callVars, closeVars, wheel, ripe, poolVars, chanVars, cancelling, pending,
                 state>>

FlushEntry(t) ==
  /\ At("poll")
  /\ t \in batch
  /\ batch' = batch \ {t}
  /\ wheel' = wheel \ {t}
  /\ IF state[t] = "Cancelled" THEN UNCHANGED schedVars ELSE Take(t, "claim", "poll")
  /\ UNCHANGED <<callVars, closeVars, ripe, poolVars, chanVars, cancelling, pending, state>>

\* No bucket is left to poll: sleep, unless one has come due meanwhile.
PollDone ==
  /\ batch = {}
  /\ Move("poll", IF wheel \cap ripe = {} THEN "select" ELSE "drain")

\* The select of the loop.  The timer fires when a bucket is due, and after an
\* hour if there is none.  Mutant: it always sleeps for the hour.
SelectTimerBug == wheel = {} /\ Move("select", "drain")
SelectShutdown == shutdownC /\ Move("select", "finish")
SelectCommand == At("select") /\ Receive("drain")
SelectTimer == (wheel = {} \/ wheel \cap ripe # {}) /\ Move("select", "drain")

-----------------------------------------------------------------------------
(* The scheduler goroutine: dispatch and retry *)

\* ClaimDispatch.
Claim ==
  /\ At("claim")
  /\ state[entry] = "Scheduled"
  /\ state' = [state EXCEPT ![entry] = "Dispatching"]
  /\ sched' = "submit"
  /\ UNCHANGED <<callVars, closeVars, wheelVars, poolVars, entry, back, chanVars,
                 cancelling, pending>>

\* ClaimDispatch fails: the timeout was cancelled.
ClaimLost ==
  /\ At("claim")
  /\ state[entry] # "Scheduled"
  /\ Return
  /\ UNCHANGED <<callVars, closeVars, wheelVars, poolVars, chanVars, cancelling,
                 pending, state>>

\* workerPool.TryExecute accepts the task.
SubmitAccepted ==
  /\ At("submit")
  /\ ~poolClosed
  /\ handed' = [handed EXCEPT ![entry] = handed[entry] + 1]
  /\ sched' = "expire"
  /\ UNCHANGED <<callVars, closeVars, wheelVars, ran, poolClosed, rejects, entry, back,
                 chanVars, cancelling, pending, state>>

\* workerPool.TryExecute refuses it: the pool is closed or saturated.
SubmitRejected ==
  /\ At("submit")
  /\ poolClosed \/ rejects < MaxRejects
  /\ rejects' = IF poolClosed THEN rejects ELSE rejects + 1
  /\ sched' = "rejected"
  /\ UNCHANGED <<callVars, closeVars, wheelVars, handed, ran, poolClosed, entry, back,
                 chanVars, cancelling, pending, state>>

\* Expire.
Expire ==
  /\ At("expire")
  /\ state' = [state EXCEPT ![entry] = "Expired"]
  /\ sched' = "settle"
  /\ UNCHANGED <<callVars, closeVars, wheelVars, poolVars, entry, back, chanVars,
                 cancelling, pending>>

\* handleDispatchRejected without retry: Reject.
RejectEntry ==
  /\ At("rejected")
  /\ ~Retry
  /\ state' = [state EXCEPT ![entry] = "Rejected"]
  /\ sched' = "settle"
  /\ UNCHANGED <<callVars, closeVars, wheelVars, poolVars, entry, back, chanVars,
                 cancelling, pending>>

\* retry: RestoreScheduled swaps the state back, from when on the timeout can
\* be cancelled again, ...
Restore ==
  /\ At("rejected")
  /\ Retry
  /\ state' = [state EXCEPT ![entry] = "Scheduled"]
  /\ sched' = "postpone"
  /\ UNCHANGED <<callVars, closeVars, wheelVars, poolVars, entry, back, chanVars,
                 cancelling, pending>>

\* ... and then sets the later deadline, before the entry is added again.
Postpone ==
  /\ At("postpone")
  /\ ripe' = ripe \ {entry}
  /\ sched' = "readd"
  /\ UNCHANGED <<callVars, closeVars, wheel, batch, poolVars, entry, back, chanVars,
                 cancelling, pending, state>>

\* completePending.  Mutant: a timeout settled at shutdown is forgotten.
SettleBug ==
  /\ At("settle")
  /\ pending' = IF isClosed THEN pending ELSE pending - 1
  /\ Return
  /\ UNCHANGED <<callVars, closeVars, wheelVars, poolVars, chanVars, cancelling, state>>

Settle ==
  /\ At("settle")
  /\ pending' = pending - 1
  /\ Return
  /\ UNCHANGED <<callVars, closeVars, wheelVars, poolVars, chanVars, cancelling, state>>

-----------------------------------------------------------------------------
(* The scheduler goroutine: finishScheduler *)

\* drainPendingCommands, until no command is ready.
FinishCommand == At("finish") /\ Receive("finish")
FinishDrained == commands = <<>> /\ Move("finish", "flush")

\* The buckets left in the delay queue are flushed, then the wheel.
FinishEntry(t) ==
  /\ At("flush")
  /\ t \in wheel
  /\ wheel' = wheel \ {t}
  /\ Take(t, "cancel", "flush")
  /\ UNCHANGED <<callVars, closeVars, ripe, batch, poolVars, chanVars, cancelling,
                 pending, state>>

\* cancelEntry, whose Cancel may come after the caller's.
CancelEntry ==
  /\ At("cancel")
  /\ IF state[entry] = "Scheduled"
     THEN /\ state' = [state EXCEPT ![entry] = "Cancelled"]
          /\ sched' = "settle"
          /\ UNCHANGED <<entry, back>>
     ELSE Return /\ UNCHANGED state
  /\ UNCHANGED <<callVars, closeVars, wheelVars, poolVars, chanVars, cancelling, pending>>

\* close(schedulerDone).
FinishDone == wheel = {} /\ Move("flush", "stopped")

-----------------------------------------------------------------------------
(* Timer.Shutdown *)

\* The call of Shutdown(c) moves on.
Step(c, here, there) ==
  /\ closer[c] = here
  /\ closer' = [closer EXCEPT ![c] = there]

Shutdown(c) ==
  /\ Step(c, "idle", "enter")
  /\ UNCHANGED <<callVars, once, isClosed, shutdownC, wheelVars, poolVars, schedVars,
                 chanVars, cancelling, pending, state>>

\* closeOnce.Do: the first call runs closeScheduler, the others wait for it.
EnterOnce(c) ==
  /\ \/ once = "new" /\ Step(c, "enter", "lock") /\ once' = "running"
     \/ once = "done" /\ Step(c, "enter", "await") /\ once' = once
  /\ UNCHANGED <<callVars, isClosed, shutdownC, wheelVars, poolVars, schedVars,
                 chanVars, cancelling, pending, state>>

\* closeScheduler, under the mutex: isClosed first, then shutdownC.
MarkClosed(c) ==
  /\ enqueueMu = None
  /\ Step(c, "lock", "close")
  /\ enqueueMu' = c
  /\ isClosed' = TRUE
  /\ UNCHANGED <<call, enqueues, once, shutdownC, wheelVars, poolVars, schedVars,
                 chanVars, cancelling, pending, state>>

\* Mutant: the scheduler is not told.
CloseSignalBug(c) ==
  /\ Step(c, "close", "drain")
  /\ enqueueMu' = None
  /\ UNCHANGED <<call, enqueues, once, isClosed, shutdownC, wheelVars, poolVars,
                 schedVars, chanVars, cancelling, pending, state>>

CloseSignal(c) ==
  /\ Step(c, "close", "drain")
  /\ shutdownC' = TRUE
  /\ enqueueMu' = None
  /\ UNCHANGED <<call, enqueues, once, isClosed, wheelVars, poolVars, schedVars,
                 chanVars, cancelling, pending, state>>

\* enqueuesDone.Wait(), and closeOnce is done.
EnqueuesDone(c) ==
  /\ enqueues = 0
  /\ Step(c, "drain", "await")
  /\ once' = "done"
  /\ UNCHANGED <<callVars, isClosed, shutdownC, wheelVars, poolVars, schedVars,
                 chanVars, cancelling, pending, state>>

\* Shutdown waits for schedulerDone, or for the end of its context.
AwaitScheduler(c) ==
  /\ At("stopped")
  /\ Step(c, "await", "returned")
  /\ UNCHANGED <<callVars, once, isClosed, shutdownC, wheelVars, poolVars, schedVars,
                 chanVars, cancelling, pending, state>>

GiveUp(c) ==
  /\ Step(c, "await", "gaveUp")
  /\ UNCHANGED <<callVars, once, isClosed, shutdownC, wheelVars, poolVars, schedVars,
                 chanVars, cancelling, pending, state>>

-----------------------------------------------------------------------------
(* Time and the worker pool *)

\* The deadline of t passes, as the wheel sees it.
Ripen(t) ==
  /\ state[t] # "Unknown"
  /\ t \notin ripe
  /\ ripe' = ripe \cup {t}
  /\ UNCHANGED <<callVars, closeVars, wheel, batch, poolVars, schedVars, chanVars,
                 cancelling, pending, state>>

\* A worker runs a task the pool accepted.
Run(t) ==
  /\ ran[t] < handed[t]
  /\ ran' = [ran EXCEPT ![t] = ran[t] + 1]
  /\ UNCHANGED <<callVars, closeVars, wheelVars, handed, poolClosed, rejects, schedVars,
                 chanVars, cancelling, pending, state>>

\* The owner of the worker pool shuts it down.
PoolShutdown ==
  /\ ~poolClosed
  /\ poolClosed' = TRUE
  /\ UNCHANGED <<callVars, closeVars, wheelVars, handed, ran, rejects, schedVars,
                 chanVars, cancelling, pending, state>>

-----------------------------------------------------------------------------
ScheduleStep(t) ==
  \/ Reserve(t) \/ Release(t) \/ BeginEnqueue(t) \/ TakeSlot(t) \/ NoSlot(t)
  \/ Send(t) \/ PublishDepth(t) \/ ReturnSlot(t) \/ EndEnqueue(t)

ShutdownStep(c) ==
  \/ EnterOnce(c) \/ MarkClosed(c) \/ CloseSignal(c) \/ EnqueuesDone(c)
  \/ AwaitScheduler(c)

SchedulerStep ==
  \/ DrainCommand \/ DrainDone \/ ReleaseSlot \/ AddDue \/ AddStored \/ SkipCancelled
  \/ CheckShutdown \/ BeginPoll \/ PollDone
  \/ SelectShutdown \/ SelectCommand \/ SelectTimer
  \/ Claim \/ ClaimLost \/ SubmitAccepted \/ SubmitRejected
  \/ Expire \/ RejectEntry \/ Restore \/ Postpone \/ Settle
  \/ FinishCommand \/ FinishDrained \/ CancelEntry \/ FinishDone
  \/ \E t \in Timeouts : FlushEntry(t) \/ FinishEntry(t)

\* Every call has returned and the scheduler has stopped.
Terminated ==
  /\ At("stopped")
  /\ \A t \in Timeouts : call[t] \in {"returned", "refused"} /\ ~cancelling[t]
  /\ \A c \in Closers : closer[c] \in {"returned", "gaveUp"}
  /\ UNCHANGED vars

Next ==
  \/ SchedulerStep
  \/ \E t \in Timeouts :
       \/ Schedule(t) \/ ScheduleStep(t) \/ ContextDone(t)
       \/ Cancel(t) \/ CancelPending(t) \/ Ripen(t) \/ Run(t)
  \/ \E c \in Closers : Shutdown(c) \/ ShutdownStep(c) \/ GiveUp(c)
  \/ PoolShutdown
  \/ Terminated

Spec == Init /\ [][Next]_vars

\* A goroutine that can move does, time passes and workers run their tasks.
\* Nobody has to call anything, cancel a context or close a pool.  A retry whose
\* Add finds it due again (which takes a tick below a millisecond) is refused
\* again only finitely often in a row: its deadline moves with the time, but the
\* wheel's clock stands still until the next poll; hence the strong fairness.
Fairness ==
  /\ WF_vars(SchedulerStep)
  /\ SF_vars(AddStored)
  /\ \A t \in Timeouts :
       /\ WF_vars(ScheduleStep(t))
       /\ WF_vars(CancelPending(t))
       /\ WF_vars(Ripen(t))
       /\ WF_vars(Run(t))
  /\ \A c \in Closers : WF_vars(ShutdownStep(c))

FairSpec == Spec /\ Fairness

-----------------------------------------------------------------------------
(* Properties *)

\* Where a call of Schedule, a call of Shutdown and the scheduler can be, and the
\* states of an entry.
CallPoints == {"idle", "reserve", "begin", "slot", "send", "publish", "return", "end",
               "fail", "release", "returned", "refused"}
CloserPoints == {"idle", "enter", "lock", "close", "drain", "await", "returned", "gaveUp"}
SchedPoints == {"drain", "permit", "add", "readd", "check", "poll", "select", "claim",
                "submit", "expire", "rejected", "postpone", "settle", "finish", "flush",
                "cancel", "stopped"}
EntryStates == {"Unknown", "Scheduled", "Cancelled", "Dispatching", "Expired", "Rejected"}

TypeOK ==
  /\ call \in [Timeouts -> CallPoints]
  /\ cancelling \in [Timeouts -> BOOLEAN]
  /\ closer \in [Closers -> CloserPoints]
  /\ once \in {"new", "running", "done"}
  /\ enqueueMu \in Timeouts \cup Closers \cup {None}
  /\ isClosed \in BOOLEAN /\ shutdownC \in BOOLEAN /\ poolClosed \in BOOLEAN
  /\ enqueues \in Nat /\ slots \in Nat /\ pending \in Nat /\ depth \in Int
  /\ commands \in Seq(Timeouts)
  /\ state \in [Timeouts -> EntryStates]
  /\ sched \in SchedPoints
  /\ entry \in Timeouts \cup {None}
  /\ back \in {"drain", "poll", "finish", "flush"}
  /\ wheel \subseteq Timeouts /\ ripe \subseteq Timeouts /\ batch \subseteq wheel
  /\ handed \in [Timeouts -> Nat] /\ ran \in [Timeouts -> Nat]
  /\ rejects \in 0 .. MaxRejects

\* The pending counter is raised and lowered in six places by four kinds of
\* goroutines, never together with the state it counts; still it is exact: it
\* counts each call of Schedule that has reserved and not yet failed, and each
\* accepted timeout that is alive or whose last owner has yet to lower it.
PendingExact ==
  pending = Cardinality({t \in Timeouts :
    \/ call[t] \in {"begin", "slot", "send", "return", "fail", "release"}
    \/ Published(t) /\ (Alive(t) \/ cancelling[t] \/ (At("settle") /\ entry = t))})

\* WithMaxPending bounds the accepted timeouts that are not complete, though
\* the counter it is tested against is raised before the test.
QuotaRespected == Cardinality({t \in Timeouts : Published(t) /\ Alive(t)}) <= MaxPending

\* A permit is in commandSlots, or with the call or the command that took it,
\* or in the scheduler's hand: so that a send with a permit finds room and
\* returning a permit never waits, even with the mutex held.  And the depth
\* counter lags the channel by the sends not yet counted.
PermitsConserved ==
  /\ slots + Len(commands) + Cardinality({t \in Timeouts : call[t] \in {"send", "return"}})
       + (IF At("permit") THEN 1 ELSE 0) = CommandCapacity
  /\ depth = Len(commands) - Cardinality({t \in Timeouts : call[t] = "publish"})

\* An accepted timeout is never lost on its way from the channel through the
\* wheel and round the retry loop, nor is it ever in two places.
Places(t) ==
  Cardinality({i \in DOMAIN commands : commands[i] = t})
    + (IF t \in wheel THEN 1 ELSE 0) + (IF entry = t THEN 1 ELSE 0)

InOnePlace ==
  \A t \in Timeouts : /\ Places(t) <= 1
                      /\ Published(t) /\ Alive(t) => Places(t) = 1

\* When Cancel reports success the task never runs, and it never runs twice,
\* though a retry opens the state to Cancel again while the scheduler still
\* has the entry in hand.
CancelIsFinal ==
  \A t \in Timeouts : /\ handed[t] <= 1
                      /\ handed[t] = 1 => state[t] \in {"Dispatching", "Expired"}

\* When Shutdown has returned without an error, no accepted timeout is left
\* undecided and nothing is left to do but the failing of late calls and the
\* accounting of callers' cancellations.
ShutdownComplete ==
  (\E c \in Closers : closer[c] = "returned") =>
    /\ commands = <<>> /\ wheel = {} /\ entry = None
    /\ \A t \in Timeouts : Published(t) => ~Alive(t)

\* The comment on Size: it "returns the number of accepted timeouts that are
\* still pending", which WithMaxPending bounds.
SizeWithinQuota == pending <= MaxPending

\* The comment on IsExpired: it "reports whether the timeout has been accepted
\* for worker dispatch".  But a task can run before the scheduler marks it so.
RunningIsExpired == \A t \in Timeouts : ran[t] > 0 => state[t] = "Expired"

\* The promise of TimeoutService, with a timeout accepted when its command is
\* sent and handed over when the worker pool accepts its task.
Service == INSTANCE TimeoutService WITH
  closed <- isClosed,
  status <- [t \in Timeouts |->
    IF call[t] = "refused" THEN "refused"
    ELSE IF ~Published(t) THEN "unknown"
    ELSE IF handed[t] > 0 THEN "handed"
    ELSE IF state[t] = "Cancelled" THEN "cancelled"
    ELSE IF state[t] = "Rejected" THEN "rejected"
    ELSE IF Alive(t) THEN "pending" ELSE "unknown"]

ImplementsService == Service!Spec

\* The properties that follow say what is so in the end.  As there are finitely
\* many calls, each made once, that is to say of every one that it comes to this.

\* A call of Schedule returns: it waits neither on the mutex nor, since the
\* scheduler keeps taking commands or shuts down, for a permit for ever.
SchedulesReturn ==
  <>[](\A t \in Timeouts : call[t] \in {"idle", "returned", "refused"})

\* Once Shutdown is called the scheduler stops and the call can return,
\* whatever calls of Schedule and of Shutdown are under way.
ShutdownsReturn ==
  <>[](\A c \in Closers : closer[c] \in {"idle", "returned", "gaveUp"})

\* An accepted timeout completes.  Only a worker pool that was closed under a
\* timer that retries can keep it waiting.
TimeoutsEnd ==
  <>[](\A t \in Timeouts : Published(t) => ~Alive(t) \/ (poolClosed /\ Retry))
=============================================================================
