# Verification of timewheel.go

TLA+ models of `photowey/timewheel.go`, model-checked with TLC and, where it
matters most, proved with TLAPS. The library schedules one-shot tasks on a
hierarchical timing wheel: callers put commands in a bounded queue, a single
scheduler goroutine owns the wheel, and expired tasks go to a worker pool.

## The system

| component | source | state | operations |
|---|---|---|---|
| timing wheel | `internal/timingwheel/timing_wheel.go`, `bucket.go`, `bucket_delay_queue.go` | a chain of wheels (tick, clock, ring of buckets), bucket expirations, intrusive lists, a heap of offers | Add, AdvanceClock, Flush, SetExpiration, Offer, Poll, PeekExpiration |
| task entry | `task_entry.go`, `task_state.go` | an atomic state word, a deadline | Cancel, ClaimDispatch, RestoreScheduled, Expire, Reject |
| timer | `pkg/timewheel/timer.go`, `timeout.go` | pending counter (quota), command channel, command-slot permits, `enqueueMu`, `isClosed`, `shutdownC`, `enqueuesDone`, `closeOnce` | New, Schedule, Cancel, Shutdown, Size |
| scheduler | `pkg/timewheel/scheduler.go` | its place in the loop; owns the wheel | drain commands, poll, sleep, dispatch, retry, final clean-up |
| executor pool | `pkg/executor` | task channel, `submitMu`, `isClosed`, `shutdownC`, `submitsDone`, workers, `done` | New, Execute, TryExecute, Shutdown |
| metric reporters | both `metric_sink.go` | a goroutine each | observe, end on shutdown |
| lifecycle | `pkg/timewheel/timer.go` (`New`, `startScheduler`, `closeOwnedPools`) | who made which pool | make pools, start the scheduler on one, close the owned ones |
| options | both `option.go`, `backpressure.go` | the configuration | set, refuse |
| clock, metrics | `clock.go`, both `metrics.go` | counters | read, add |

How they interact. `Schedule` reserves quota, takes a permit and sends a command
under `enqueueMu`. The scheduler receives it, returns the permit and adds the
entry to the wheel, or dispatches it at once. When a bucket expires it advances
the wheel's clock and flushes the bucket through a handler that adds each entry
*again*, so that it cascades to a lower level or comes due. A due entry is
claimed with a compare-and-swap that races with `Cancel`, and offered to the
worker pool with `TryExecute`; a refusal rejects the timeout, or restores it and
puts it back in the wheel. `Shutdown` shuts the gate under `enqueueMu`, closes
`shutdownC`, waits for the calls of `Schedule` under way, and the scheduler
cancels what is left. The pool has the same gate around its task channel.

What is hard, and what makes each part correct:

* *wheel*: nothing runs concurrently, but the wheel's clock stands still between
  expirations, buckets and their heap offers are reused, and Flush is re-entered
  by its own handler. Correct: a bucket never mixes slots of time, the delay
  queue is exact, level clocks agree, nothing comes due early or out of order,
  cascades end.
* *timer and scheduler*: callers, cancellers, several Shutdowns, the scheduler
  and workers interleave on counters, permits and states that change in separate
  steps. Correct: counters are exact, no timeout is lost, doubled, or run after a
  successful Cancel, nothing is accepted and then forgotten at shutdown, and
  nobody waits for ever.
* *pool*: submitters race with the closing of the channel they send on. Correct:
  no send on a closed channel, accepted tasks run once and before Shutdown
  returns, and waiting submitters are woken.
* *scheduler against the clock*: the loop reads the wall clock at three places
  in a round, sleeps by the monotonic one, and a command can arrive anywhere in
  between, long after its deadline too. Correct: the loop sleeps through no
  deadline, a refused timeout does not come back within the same round, and the
  end of the loop is reached.
* *lifecycle*: New can fail at four places and Shutdown give up at four; pools
  are owned or shared, and a task may shut down the timer it runs for. Correct:
  what a call leaves behind is what its result says, and waits that can be in
  vain are known.

`PROJECT.json` lists each hazard at the line where it bites, with the properties
that cover it or the reason why none does.

## The modules

| module | what it is |
|---|---|
| `DelayLine` | abstract: a line of entries that leave in deadline order, to within one tick |
| `TimingWheel` | the wheel; implements `DelayLine` |
| `GridLemmas` | proved arithmetic of multiples, rounding and rings of slots |
| `TimingWheelProofs` | the proofs about `TimingWheel` |
| `TimeoutService` | abstract: what becomes of each timeout |
| `Timer` | Schedule, Cancel, Shutdown, the scheduler; implements `TimeoutService` |
| `TaskService` | abstract: what becomes of each task given to a pool |
| `Pool` | the executor; implements `TaskService` |
| `PoolProofs` | the proofs about `Pool` |
| `TimerProofs` | the proofs about `Timer` |
| `ChannelLemmas` | proved facts about counters that follow a set, a channel's buffer, and least elements |
| `Scheduler` | the loop and the wheel against the clock; takes the steps of `TimingWheel` |
| `SchedulerProofs` | the proofs about `Scheduler`, from those about `TimingWheel` |
| `Options` | the options of both packages: what is accepted and what it sets |
| `OptionsProofs` | the proofs about `Options` |
| `Lifecycle` | New, Shutdown and the pools timers own or share; each pool implements `TaskService` |
| `LifecycleProofs` | the proofs about `Lifecycle`, from those about `Options` |
| `MCTimingWheel`, `MCTimer`, `MCPool`, `MCScheduler`, `MCLifecycle` | symmetry and values of constants for TLC |

Definitions named `...Bug` (and `AdvancedRoot`, `AdvancedNever`,
`FinishDrainedForever`) are not part of
the models. Each is a plausible defect of the definition that follows it; put in
its place, it makes TLC report the property that guards against it (the pairs
are under `mutants` in `PROJECT.json`).

### TimingWheel

`levels`, `tick`, `currentTime` are the chain of wheels; `expiration` and
`bucket` the buckets and their lists (a list is the set of entries in it: Flush
takes them in any order, a superset of the code's order); `queue` the heap (a
set: `QueueIsExact` shows that no offer is pushed twice). `adding`, `at` and
`flushing`, `due` are where Add's recursion, Flush and its handler stand, so that
Add is one action per level visited (`AddDue`, `AddToBucket`, `AddToOverflow`)
and Flush one per entry (`FlushEntry`, `FlushCancelled`, `FlushDone`). The owner
is left free: it adds any deadline, polls at any time, and does with a due entry
what it likes (`Accept`, `AddAgain`). The time of a poll is not monotone, a
superset of what the scheduler does, and covers a clock that steps back.

The comment on `BucketDelayQueue` expects stale offers in the heap.
`QueueIsExact` says that there are none: a bucket changes its expiration only
after it was polled and flushed. The discarding of stale offers is modelled all
the same, by `IsLive` and `QueueAfter`. (A poll that finds nothing due also
discards; as there is nothing to discard it is not an action.)

`TimingWheel.Flush` and the polls of the final clean-up, which leave the wheel's
clock where it is, are in `Scheduler`. Left out: integer widths.

### Timer

One variable per shared object of the code (`slots` for the permits in
`commandSlots`, `enqueues` for `enqueuesDone`, `pending` and `depth` for the two
meaningful metrics), a place per goroutine (`call`, `closer`, `sched`), and one
action per step that another goroutine could observe: the add to the pending
counter, the gate, the permit, the send, the depth counter, each
compare-and-swap. `enqueueMu` is a variable, for the send holds it over two steps
and `closeScheduler` over two others, and a third could wait in
`releaseCommandSlot` with it held.

Time and the wheel are abstracted to `wheel` (entries stored), `ripe` (entries
whose time has come) and `batch` (what this round of polls yields); the loop's
hour-long timer is `SelectTimer` with an empty wheel. The worker pool may refuse
a task at any time, for it may be shared, and may be shut down by its owner
(`PoolShutdown`); `Run` is a worker that runs an accepted task: what `TaskService`
promises. `AwaitScheduler` ends a Shutdown at `schedulerDone`; the wait for the
reporter and for owned pools comes after it and is in `Lifecycle`.

Also left out: argument checks, counters that only grow, the branch of
`dispatch` for a task of a wrong type (Schedule's signature excludes it), and the
`else` branches of compare-and-swaps that only the scheduler can make fail
(`Expire`, `Reject` and `RestoreScheduled` after its own claim; `CancelIsFinal`
and `InOnePlace` check that nobody else leaves that state).

### Pool

The task channel is a buffer plus workers `parked` in a receive: a send goes to a
parked worker if there is one, which is the only way with capacity 0. The gate's
critical sections are single actions, for nothing waits inside them. A task
returns or panics (`Finish`; the panic is recovered and changes a counter only)
or ends its goroutine with `runtime.Goexit` (`Exit`), which the code survives
while a worker is left. The reporter is modelled by when it ends. `Parent` says
which calls are made by a task of the same pool: such a call is made while the
task runs, and the task does not end before the call has returned. When every
worker runs a task that waits for room the pool is `Clogged`, and only a
shutdown or a context gets it going again.

`depth` is lowered by the worker, after the task has run (`Uncount` after
`Finish`). So `DepthExact` counts as held by a worker also a task that has run
and that its worker has yet to take off the counter. Readers of the metric may
expect otherwise, as a test does: see finding 5.

### Scheduler

The loop of `runScheduler`, place by place (`loop`), on a wheel that is an
instance of `TimingWheel` and moves by that module's own actions. What `Timer`
abstracts is concrete here, and the other way round: there are times, deadlines,
buckets, a computed sleep (`wait`), and the retry's deadline, while a caller is
reduced to two steps, and Cancel is left to `Timer`. `Schedule` computes the
deadline and keeps it in `asked`; `Send` puts the command in the channel, any
length of time later, for under `BackpressureBlock` nothing limits the wait for a
command slot in between. A deadline can have passed when its command arrives, and
the wheel can have left the slot of time it stands for.

`now` is the wall clock, in whole milliseconds. It ticks (`TimePasses`) and may
be set (`SetClock`), which does not touch a sleep under way, for Go's timers
follow the monotonic clock. `pollTime` is the reading `now` of the loop that all
polls of a round share; `Peek` reads the clock again, as the code does, between
`PeekExpiration` and `timer.Reset`. `lag` is the time a round takes apart from
its sleep. TLC bounds it by `MaxLag`; the code does not, for `drainCommands` goes
on while commands arrive, and no property promises when a timeout is handed over:
`NeverOversleeps` speaks of what the loop adds of its own accord, by going to
sleep. The final clean-up (`FinishPoll`, `FinishEntry`, `FinishBucket`,
`FlushWheel`) polls with an infinite time and cancels what it finds.

The comment on `retry` (`scheduler.go:257-258`) says that a retry delay "can already
be due if the scheduler clock advanced while handling rejection, so Add may
immediately request another dispatch". `RefusedWaits` says that this does not
happen: the deadline is at least a tick after a reading of the clock that follows
the rejection, and Add compares it with the clock of the *wheel*, which only the
polls move, to a time not after `pollTime`. With a tick of whole milliseconds it
takes a clock that is set back between the polls and the retry to make the comment
true. The code handles that case as the comment has it (Add's result is looked at),
and so do the models: `AddDue` is possible after `AddAgain`, and `Timer` allows a
dispatch straight from `readd`.

A tick below a millisecond, which `RoundDown` and the clamping of the retry delay
would treat differently, is left out; `Timer` allows the one thing it changes, a
retry that is due at once.

### Options and Lifecycle

An option is a record of a setting and a value. `PoolOptions` and `TimerOptions` apply
a list from left to right as New does, by a function of the number of options applied
so far; a list with an option that is nil or refused, by `PoolAccepts`, or by
`TimerAccepts` after those before it, is `Invalid`. `OptionsHonoured` compares the
outcome with `Amounts`, which says without any order what a list should come to.
`WellTyped` is what Go's types say of the options a caller can build.

In `Lifecycle` a timer's identity also stands for its call of New and for its
scheduler task. New is one action per point where it can fail or wait: the
options, the boss pool, the worker pool, and the start of the scheduler, which
uses Execute on a pool of its own and TryExecute on a given one. A Shutdown walks
through its waits (`AwaitScheduler`, `AwaitReporter`, then `Close` and
`AwaitStopped` for each role); its context may end at any of them and then stays
ended, so that later waits may end too (`ended`). `closeOwnedPools` is shared with a
New that fails, whose waits have no limit. A pool is reduced to what `Pool` and
`TaskService` establish: submitting and closing are single steps, and workers pick
jobs up, run and finish them. A worker of a pool without a buffer must be `parked`
to be handed a task, which is what can make New fail by chance.

## The runs

| run | instance | what it shows |
|---|---|---|
| `wheel` | 3 entries, tick 2, 2 buckets, 3 levels, deadlines 0..15, start 0 or 3 | `TypeOK`, `SlotOnTime`, `QueueIsExact`, `ClocksNested`, `NeverEarly`, `CascadeDescends`, `ImplementsLine` |
| `scheduler` | 2 entries, delays 1 and 3, tick 2, 2 buckets, retry delay 1, 1 refusal, the clock set once by 2 ms either way | `TypeOK`, `NeverOversleeps`, `RefusedWaits`, `TimeoutsEnd`, `Stops` |
| `timer` | 2 timeouts, 1 Shutdown, 1 command slot, Block, Retry, 1 refusal | `PermitsConserved`, `InOnePlace`, `CancelIsFinal`, `ImplementsService`, `SchedulesReturn`, `ShutdownsReturn`, `TimeoutsEnd` |
| `quota` | 3 timeouts, quota 1, 2 Shutdowns, 1 command slot, Reject, no retry | `TypeOK`, `PendingExact`, `QuotaRespected`, `ShutdownComplete` |
| `lifecycle` | 2 timers, 1 shared pool of 1 worker and room for 1, 1 task, 1 caller of Shutdown; 13 lists of options for the first timer, the second on the shared pool in both roles | `TypeOK`, `OptionsHonoured`, `FailedNewLeavesNothing`, `OwnBossAccepts`, `ShutdownComplete`, `PoolsClosedAnyway`, `ImplementsTasks`, `NewReturns`, `JobsRun`, `ShutdownsReturn` |
| `pool` | 3 tasks, 2 workers, capacity 1, 2 Shutdowns, 1 Goexit | `TypeOK`, `NoSendOnClosed`, `DepthExact`, `ShutdownDrains`, `ImplementsTasks` |
| `drain` | 3 tasks, one submitted by another, 1 worker, capacity 1, 1 Shutdown | `SubmitsEnd`, `ShutdownsReturn` |
| `overflow` | 1 bucket per wheel | violated: `OverflowIsCoarser` |
| `size` | quota 1 | violated: `SizeWithinQuota` |
| `expired` | as `timer`, with 2 Shutdowns | violated: `RunningIsExpired` |
| `depth` | 1 worker, no Goexit | violated: `DepthZeroWhenRun` |
| `goexit` | 1 worker, 1 Goexit | violated: `ShutdownDrains` |

What some of them say, in short. `NeverOversleeps`: unless the clock is set, the loop
goes to sleep with nothing in the wheel that was due when it read the clock for its
polls, and its sleep passes no deadline by more than the time it has itself taken
since. `PendingExact`, with the quota full, says that no share of the quota leaks
(`QuotaRespected`, that it is not exceeded, would not see a leak). `RefusedWaits`: the lower limit of a tick on the retry
delay keeps a refused timeout out of the round that refused it. `TimeoutsEnd` and
`Stops` hold even when the clock is set. `FailedNewLeavesNothing`,
`PoolsClosedAnyway` and `ShutdownComplete`: what New and Shutdown leave behind
follows from what they return, wherever they fail or give up. `JobsRun` and
`ShutdownsReturn` of `Lifecycle` hold *but for* the waits that really are in vain,
and name them: a job, a scheduler above all, queued in a pool all of whose workers
are held by schedulers nobody shuts down or by tasks that wait in Shutdown
(`Starved`); and a Shutdown of a timer that owns the pool of a task that waits in
Shutdown itself (`Hangs`).

Why the bounds are enough. Three levels of two buckets of tick 2 cover 16 ms, so
deadlines 0..15 visit every level and cascade twice, every bucket is reused, and
three entries can share, precede and follow a slot; start 3 is off the grid. The
wheel's clock passes every slot, for a retried entry may be added again with any
deadline, without limit. In `Timer` a second timeout is enough for a call to
wait while the slot is taken, to be closed out after its first look at
`isClosed`, and to race for the mutex; the quota needs a third, so that two calls
overshoot a quota of one at the same time. A quota above one is in `timer`, where it
is never full, and in the theorems `PendingIsExact` and `QuotaHolds`, which are for
every quota. A second call of
Shutdown, which waits in `closeOnce`, is in `quota`. One refusal
(`MaxRejects`) takes a timeout once round the retry loop, and a closed pool
refuses without limit. `quota` has the configuration in which a dispatch that is
refused is rejected. In `Pool` three tasks occupy a worker, the queue and a
waiting submitter; with one worker they are also enough to clog it.

In `scheduler` the wheel starts at 0 and the clock at 1, so that a delay of 3 ms ends
at 4, beyond the lowest level (2 buckets of 2 ms): an entry cascades, is refused at
the lower level, and comes back from an overflow wheel that has not moved; the retry delay is below the tick, so that
the clamp matters. `MaxLag` 1 lets a millisecond pass anywhere in each round, which
is what it takes to make a reading of the clock stale. `MaxTime` bounds the
deadlines callers ask for. `EndTime` bounds the clock itself and is late enough for
every timeout that is refused as often as `MaxRejects` allows; were it earlier the
clock would stop before the last retry and `TimeoutsEnd` be violated. The sleep of an
hour is 3 ms. In `lifecycle` a pool of one worker with room for one is the smallest
that two schedulers and a task can fill in every order; the lists of options reach
each way in which New fails, and each rule of the options.

`wheel`, `quota` and `pool` use symmetry of the names; the runs with
liveness properties do not.

Deadlock is checked in every run but `lifecycle`: `Timer`, `Pool` and `Scheduler`
stutter only in a state in which all calls have returned and all goroutines have
ended. In `Lifecycle` nobody has to call Shutdown, and a Shutdown without a limit of
time can hang, so that the system really may come to rest; there `NewReturns`,
`JobsRun` and `ShutdownsReturn` say which waits are not for ever.

### Fairness

`timer` and `drain` assume that a goroutine that can move does
(weak fairness per call of Schedule or Execute, of Shutdown, per worker, and of
the scheduler), that time passes, and that tasks and sinks return. Nobody has to
call anything, end a context, refuse a task or close a pool. Two points deserve a
comment. `SF_vars(AddStored)`: after a refused dispatch the entry is added again
at `max(retryDelay, tick)` from now; only with a tick below a millisecond can that
be due at once, and then only until the clock has moved a millisecond. And the
reporter's weak fairness stands for Go's random choice among ready cases of a
select. `TimeoutsEnd` excepts a pool closed under a retrying timer: such a timeout
really is pending until Shutdown.

`scheduler` assumes that the loop moves and that time passes; commands, shutdown
and the setting of the clock may never come. `MaxRejects` is the assumption that
the worker pool accepts in the end. `lifecycle` assumes that goroutines run, that
tasks come to an end unless they wait in Shutdown, and that sinks return; contexts
need not end.

Where each call is made once, a property is stated as `<>[]`: what is so in the
end. For finitely many calls that is to say that each of them comes to it.
`ShutdownsReturn` of `Lifecycle`, whose callers call again, is stated with `[]<>`.

### Findings

1. `WithBucketCount(1)` is accepted, but the overflow wheel then has the tick of
   the wheel below it, not "a larger tick" (`timing_wheel.go:48`), and Add
   recurses without end (run `overflow`).
2. `Size` and the `PendingTimeouts` metric can exceed `maxPending`, because
   Schedule adds before it tests (run `size`). The bound on *accepted* timeouts
   is respected (`QuotaRespected`).
3. A task can run while `IsExpired` is false (run `expired`): the worker may be
   faster than the scheduler's `Expire`.
4. A task that ends its goroutine ends its worker for good; when the last worker
   has gone Shutdown returns nil with accepted tasks in the queue (run `goexit`).
5. `TestPoolExecuteRunsTask` asserts a `QueueDepth` of 0 as soon as its task has
   signalled that it runs (`pool_test.go:428-439`). The worker lowers the counter
   only after `run` (`worker.go:22-23`), so that the metric can still be 1, even
   when every task has run to its end (run `depth`): the test races with the worker.

## The proofs

`TimingWheelProofs` proves, for any set of entries, any deadlines and start
times in Nat, any tick and bucket count of at least 1 and any number of levels
(`WheelAssumption`), every property of the run `wheel`, the refinement included.

The properties are not inductive as they stand. `IInv` adds what the code relies
on without saying so:

* `ChainInv`: a level's tick is the interval of the level below, hence a multiple
  of every lower tick;
* `ClockInv`: each level's clock is on its grid, and the root's clock is within
  its current slot;
* `BucketInv`: a bucket in use stands for a slot on its level's grid, at its own
  place in the ring, not before the root's clock and within its level's interval;
  it is in use just when it holds entries or is being flushed;
* `QueueInv`: the offers are those of the buckets in use but the flushed one;
* `FlushInv`: the bucket being flushed stands for the present time;
* `CallInv`: where Add has recursed to, its deadline is beyond the levels below.

The heart of the argument is `ChosenBucket` with `RingUnique`: two slots within
one interval that share a place in the ring are the same slot, so a bucket in use
that Add picks already has the expiration Add would set. `Nesting` shows that the
early return of AdvanceClock skips no level that should move: the current slot of
a level lies inside that of every level above. There is one lemma per action
(`AddInv` ... `FlushDoneInv`); `NextInv` joins them, and each theorem of a
property follows from `IInv`. For the refinement `StoredAhead` shows that every
entry in the wheel has a deadline at or after the root's clock, so that AdvanceClock
maps to `Advance`, each report of a due entry to `HandBack`, and everything inside
Add or Flush to a stutter. The chosen offer is the least live one, which gives
`HandBack` its order.

`OverflowIsCoarser` is not a theorem: the proofs hold for one bucket too, where
`MaxLevels` cuts the endless chain off.

`PoolProofs` proves every property of the run `pool`, for any tasks and callers of
Shutdown (finitely many workers, any capacity, either policy, calls from within
tasks or not). Its `IInv` says

* `SubmitInv`: `submitsDone` counts the calls between `beginSubmit` and `endSubmit`;
* `GateInv`: the channel is closed only after the gate was shut, with nobody inside;
* `PlaceInv`: a task that was sent is in the queue, with exactly one worker, or was
  run once, and never in two of these places;
* `GoneInv`: as long as there is something to receive, or may be, workers leave only
  when a task ends them;
* `AwaitInv`: what calls of Shutdown have waited for.

`SubmitInv` and `GateInv` give `NoSendOnClosed`: a call at its send is counted, so the
channel is open (`SendersOpen`). `DrainedStays` shows that a closed and empty channel
stays so; with `GoneInv`, workers that are all gone have left nothing behind unless
tasks ended every one of them (`AllRun`). That exception is the hypothesis
`MaxExits < Cardinality(Workers)` of `Drains` and `Refinement`, and cannot be dropped:
the run `goexit` shows what happens without it.

`TimerProofs` proves every safety property of the runs `timer` and `quota`, the
refinement included, for any timeouts and callers of Shutdown, any capacity, quota
and policies, however often the pool refuses (`TimerAssumption`). Its `IInv` says

* `EnqueueInv`: `enqueuesDone` counts the calls between `beginEnqueue` and `endEnqueue`;
* `MutexInv`: the call that is between its lock and unlock is the one that holds the mutex;
* `OnceInv`: one call of Shutdown runs `closeScheduler`, and `isClosed` comes before
  `shutdownC`;
* `SchedInv`: where the scheduler is, and what that says of the entry in its hand, the
  batch being polled, the channel and the wheel;
* `PlaceInv`: a timeout that was sent and is alive is in the channel, in the wheel or in
  the scheduler's hand, and nothing is in two of these places or twice in the channel;
* `StateInv`: how the state word follows the call and the place; an entry is
  `Dispatching` only in the scheduler's hand between the claim and its outcome;
* `HandInv`: a task was handed over just when its timeout is expired or about to be;
* `PendingInv`: the counter is exact, and the timeouts it admits keep to the quota.

The quota needs more than the exact counter, which may pass the limit: `Admitted`
leaves out the calls that found it passed and are about to undo their add. A call
joins `Admitted` only when everything counted, itself included, is within the limit
(`PendingRaised`). `NoLateSend` is why the final clean-up can take an empty channel for
good: the scheduler is past it only after `isClosed`, which a send looks at under the
mutex. `StateInv` and `HandInv` make a cancellation final: a timeout that was handed over
is `Dispatching` or `Expired`, neither of which Cancel or a retry leaves. There is one
lemma for each part of `IInv` (`TypeStep` ... `PendingStep`); they group the actions by
who takes them (`NextCases`) and rest on what each group leaves alone (`CallingKeeps`,
`ClosingKeeps`, `SchedulerKeeps`).

`SchedulerProofs` proves every safety property of the run `scheduler`, for any tick,
bucket count, retry delay, lag of the loop, delays, clock jumps and number of refusals
(`SchedulerAssumption`). Its `IInv` says

* `ClockTypes`, `UserTypes`: types, the sleep's being that of a duration above all;
* `LoopInv`: an operation of the wheel is under way only where the loop calls it;
* `WheelInv`: the wheel is in a state its own invariant allows, until
  `finishScheduler` empties it;
* `ChannelInv`: a timeout is with its caller, or once in the channel, or in the wheel,
  or in none of these;

and, while the clock has not been set (`jumps = 0`),

* `PollInv`: the polls of a round are for a time that has passed, not longer ago than
  the round has taken;
* `PostponedInv`: a timeout refused in this round is due at least a tick after the time
  of its polls;
* `SleepInv`: from the end of the polls to the end of the sleep nothing in the wheel was
  due at the time of the polls, and the sleep in front of the loop ends in time.

`WheelUse` is what makes the composition work: up to the clean-up every step of the
scheduler is one that `TimingWheel` allows its caller, or leaves the wheel alone
(`WheelUsed`). So the invariant proved there holds here (`WheelKept`), and with it
`SlotOnTime` and `NeverEarly` of the scheduler's own wheel (`WheelStaysSound`), also when
the clock is set. What `SleepInv` needs from the wheel is that the offers are exact: the
bucket the loop sleeps for is not later than any entry's slot (`OfferInTime`,
`NextIsLeast`), and after the polls no slot is left that ends before `pollTime`
(`SleepPolled`). Nothing gets into the wheel while the loop sleeps, for a command that
wakes it sends it round again; so a command may arrive however late, and `SleepInv`
needs no bound on how late that is, nor on how long a round takes. A clock that is set
voids the last three parts, for what was due by one reading is not by the next.

`OptionsProofs` proves what New makes of a list of options of *any* length:
`TimerOptionsAmount` that `TimerOptions` agrees with `Amounts`, and `PoolOptionsSound` that
an accepted pool has a worker, a capacity and a known policy. `AmountsTo` states the
result for the first `n` options, and `Induct` of `ChannelLemmas` carries it along the list:
that lemma takes the set of lengths for which it holds, which has a least missing
element (`LeastElement`), so no induction over an operator is needed. The hypothesis
`WellTyped` is what Go's compiler checks.

`LifecycleProofs` proves every safety property of the run `lifecycle`, the refinement
included, for any timers, callers, tasks, shared pools and well-typed lists of options
(`LifecycleAssumption`). Its `IInv` says, of each part of the state,

* `PoolInv`: a pool is in order (`InOrder`: no job is twice in it, and it is done only with
  nothing left) and within the limits of its options (`Within`);
* `ConfigInv`, `MadeInv`, `FreshInv`, `FailInv`, of each timer: its configuration is what
  its options amount to; the pools it makes exist from their place in New on, and nobody
  else has used them before the scheduler is started; its scheduler is on no pool before
  New succeeds; and a New that fails has stopped what it made, and has failed on a boss
  pool of its own only if that has no buffer and does not wait;
* `CallInv`, of each call of Shutdown: what it has waited for, up to its place, is over, and
  what it has closed is closed.

The argument has two halves. What each operation does to a pool's record keeps the pool in
order (`SentProper`, `ParkProper`, `PickProper`, `EndProper`, `LeaveProper`, `ClosingProper`),
and the invariant of a timer or a call survives every step that leaves alone what it is
about, and only takes away from or ends what is on its pools (`StillTimer`, `StillCall`): a
done pool stays done, a closed one closed, an ended scheduler ended. Then there is one
lemma per action (`NewKept` ... `StopTimeoutKept`). `OptionsHold` joins `ConfigInv` with
`TimerOptionsAmount`. For the refinement, `Serves` says what a step may do to a pool's
record, `ServesService` that this is a step of `TaskService` or a stutter, and
`PoolsServe` that every step does that to every pool.

What is not proved is what the prover cannot reach: the properties under fairness, of
`timer` (`SchedulesReturn`, `ShutdownsReturn`, `TimeoutsEnd`), `drain`, `scheduler`
(`TimeoutsEnd`, `Stops`) and `lifecycle` (`NewReturns`, `JobsRun`, `ShutdownsReturn`), and
the findings, which are counterexamples. These are
model-checked. Every other property of a passing run is a theorem. `Pool` and the pools
of `Lifecycle` are shown to keep the same promise, `TaskService`, each by a proof of its
own; that `Timer` may rely on it (`Run` happens once to a task that was taken) is read off
`TaskService` and not proved.

Still to do: common abstractions between modules that model the same code at different
grain, above all that the scheduler of `Scheduler`, without its times, takes the steps of
`TimeoutService` as `Timer` does; and the safety half of the liveness properties, such as
that a place from which no step is possible is one of those the properties name.

## Not modelled

* *Integer widths.* `tick * bucketCount` and its conversion to nanoseconds can exceed
  64 bits only for intervals beyond 292 years; the models' numbers are unbounded.
* *Ticks that are not whole milliseconds* in `Scheduler` (see there).
* *Argument checks* of Schedule, Execute and Shutdown (nil contexts and tasks): they
  return before anything is touched. Options, whose checks depend on each other, are
  modelled.
* *Monotone counters.* Nothing reads them but snapshots. `BucketOffers` and
  `MaxBucketDelay` of `Metrics` are never updated by the code.
* *The memory held by cancelled entries*, which stay in their bucket until it is
  flushed; the model shows them there, but no text of the repository bounds them.
* *A panic handler that panics*: it ends the process (`worker.go:42`).
* *A pool's reporter* in `Lifecycle`, where a pool stops with its workers; it is in
  `Pool`.
* The examples, and declarations without behaviour.
