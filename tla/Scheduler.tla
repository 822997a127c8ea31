------------------------------ MODULE Scheduler ------------------------------
(***************************************************************************)
(* The loop of runScheduler against the clock: when it reads the wall      *)
(* clock, how long it sleeps, what a refused dispatch does to a deadline,  *)
(* and how it empties the wheel when it ends.  It owns a TimingWheel and   *)
(* takes the wheel's own steps.                                            *)
(*                                                                         *)
(* Times are whole milliseconds.  The wall clock (time.Now) ticks, and may *)
(* be set; a sleep is measured by the monotonic clock, so that setting the *)
(* wall clock neither shortens nor lengthens it.  Callers are reduced to   *)
(* the deadline they compute and, any time later, the command they send:   *)
(* Timer has their interleavings, and Cancel.                              *)
(***************************************************************************)
EXTENDS Integers, Sequences

CONSTANTS
  Entries,      \* one timeout each
  Delays,       \* the delays Schedule is called with
  Starts,       \* readings of the clock when the scheduler starts
  Tick,         \* WithTick
  BucketCount,  \* WithBucketCount
  RetryDelay,   \* WithExpiredTaskRetryDelay; the policy is ExpiredTaskRetry
  Hour,         \* the sleep with nothing to wait for
  Jumps,        \* the amounts by which the wall clock may be set
  MaxJumps,     \* BOUND: how often it is set
  MaxLag,       \* BOUND: ms the loop takes from one reading of the clock for the
                \* polls to the next, not counting the sleep
  MaxRejects,   \* BOUND: dispatches the worker pool refuses
  MaxTime,      \* BOUND: the latest deadline a caller asks for; then time only
                \* passes while a timeout is outstanding,
  EndTime,      \* BOUND: up to this
  MaxLevels,    \* BOUND: levels the chain of wheels may grow to
  None          \* no entry

ASSUME SchedulerAssumption ==
  /\ Delays \subseteq Nat /\ Starts \subseteq 0 .. MaxTime /\ Jumps \subseteq Int
  /\ Tick \in Nat \ {0} /\ BucketCount \in Nat \ {0} /\ MaxLevels \in Nat \ {0}
  /\ None \notin Entries
  /\ RetryDelay \in Nat \ {0} /\ Hour \in Nat \ {0}
  /\ MaxJumps \in Nat /\ MaxLag \in Nat /\ MaxRejects \in Nat
  /\ MaxTime \in Nat /\ EndTime \in Nat /\ MaxTime <= EndTime

VARIABLES
  levels, tick, currentTime, expiration, bucket, deadline, queue,
  adding, at, flushing, due,  \* the wheel, as in TimingWheel
  loop,        \* where the loop of runScheduler is
  pollTime,    \* its variable now: the time of this round's polls
  wait,        \* what is left of the sleep
  postponed,   \* the entries refused since the clock was read for the polls
  now,         \* the wall clock
  lag,         \* time that has passed in this round, but for the sleep
  jumps,       \* how often the wall clock was set
  commands,    \* the command channel: entries with their deadlines
  fate,        \* [Entries -> what has become of the timeout]
  asked,       \* [Entries -> the deadline that a call of Schedule under way has computed]
  rejects,     \* dispatches refused
  shutdownC    \* Timer.shutdownC is closed

Times == 0 .. EndTime + RetryDelay + Tick

W == INSTANCE TimingWheel WITH Deadlines <- Times, StartTimes <- Starts

wheelVars == <<levels, tick, currentTime, expiration, bucket, deadline, queue,
               adding, at, flushing, due>>
loopVars  == <<loop, pollTime, wait>>
clockVars == <<now, lag, jumps>>
userVars  == <<asked, commands, shutdownC>>
taskVars  == <<fate, rejects, postponed>>
vars == <<wheelVars, loopVars, clockVars, userVars, taskVars>>

Init ==
  /\ W!Init
  /\ loop = "drain"
  /\ now \in Starts
  /\ currentTime[1] = W!RoundDown(now, Tick)
  /\ pollTime = now
  /\ wait = 0
  /\ postponed = {}
  /\ lag = 0
  /\ jumps = 0
  /\ asked = [e \in Entries |-> 0]
  /\ commands = <<>>
  /\ fate = [e \in Entries |-> "new"]
  /\ rejects = 0
  /\ shutdownC = FALSE

At(place) == loop = place /\ W!Idle /\ flushing = W!NoBucket

Goto(here, there) ==
  /\ At(here)
  /\ loop' = there

-----------------------------------------------------------------------------
(* Callers *)

\* Schedule computes the deadline.  Then it may wait for a command slot, for any
\* length of time, or fail and never send anything.
Schedule(e, delay) ==
  /\ fate[e] = "new"
  /\ now + delay <= MaxTime
  /\ fate' = [fate EXCEPT ![e] = "called"]
  /\ asked' = [asked EXCEPT ![e] = now + delay]
  /\ UNCHANGED <<wheelVars, loopVars, clockVars, commands, shutdownC, rejects, postponed>>

\* sendReservedCommand; Timer shows that nothing is sent after a shutdown.
Send(e) ==
  /\ ~shutdownC
  /\ fate[e] = "called"
  /\ commands' = Append(commands, [entry |-> e, deadline |-> asked[e]])
  /\ fate' = [fate EXCEPT ![e] = "sent"]
  /\ asked' = [asked EXCEPT ![e] = 0]
  /\ UNCHANGED <<wheelVars, loopVars, clockVars, shutdownC, rejects, postponed>>

Shutdown ==
  /\ ~shutdownC
  /\ shutdownC' = TRUE
  /\ UNCHANGED <<wheelVars, loopVars, clockVars, asked, commands, taskVars>>

-----------------------------------------------------------------------------
(* Commands *)

\* handleCommand, from drainCommands or from the select; then the loop drains.
HandleCommand(here, there) ==
  /\ Goto(here, there)
  /\ commands # <<>>
  /\ commands' = Tail(commands)
  /\ W!Add(Head(commands).entry, Head(commands).deadline)
  /\ UNCHANGED <<pollTime, wait, clockVars, asked, shutdownC, taskVars>>

DrainCommand == HandleCommand("drain", "drain")

DrainDone ==
  /\ shutdownC \/ commands = <<>>
  /\ Goto("drain", "check")
  /\ UNCHANGED <<wheelVars, pollTime, wait, clockVars, userVars, taskVars>>

-----------------------------------------------------------------------------
(* Polling *)

CheckShutdown ==
  /\ shutdownC
  /\ Goto("check", "finish")
  /\ UNCHANGED <<wheelVars, pollTime, wait, clockVars, userVars, taskVars>>

\* The clock is read for this round's polls.
\* Mutant: once and for all.
BeginPollBug ==
  /\ ~shutdownC
  /\ Goto("check", "poll")
  /\ lag' = 0
  /\ UNCHANGED <<wheelVars, pollTime, wait, now, jumps, userVars, taskVars>>

BeginPoll ==
  /\ ~shutdownC
  /\ Goto("check", "poll")
  /\ pollTime' = now
  /\ lag' = 0
  /\ postponed' = {}
  /\ UNCHANGED <<wheelVars, wait, now, jumps, userVars, fate, rejects>>

Poll ==
  /\ At("poll")
  /\ W!Poll(pollTime)
  /\ UNCHANGED <<loopVars, clockVars, userVars, taskVars>>

PollDone ==
  /\ \A o \in W!Live : o.expiration > pollTime
  /\ Goto("poll", "peek")
  /\ UNCHANGED <<wheelVars, pollTime, wait, clockVars, userVars, taskVars>>

\* The wheel's own steps: Add's recursion, and Flush with requeueOrDispatch.
WheelStep ==
  /\ \/ W!AddDue \/ W!AddToBucket \/ W!AddToOverflow
     \/ loop = "poll" /\ (W!FlushDone \/ \E e \in Entries : W!FlushEntry(e))
  /\ UNCHANGED <<loopVars, clockVars, userVars, taskVars>>

-----------------------------------------------------------------------------
(* Dispatch of an entry that is due *)

\* The worker pool accepts the task.
Dispatch ==
  /\ W!Accept
  /\ fate' = [fate EXCEPT ![due] = "handed"]
  /\ UNCHANGED <<loopVars, clockVars, userVars, rejects, postponed>>

\* Mutant: the delay may be shorter than a tick.
RetryDeadlineBug == now + RetryDelay
RetryDeadline == now + (IF RetryDelay < Tick THEN Tick ELSE RetryDelay)

\* The pool refuses it: retry gives the entry a new deadline and adds it.
RefuseDispatch ==
  /\ rejects < MaxRejects
  /\ W!AddAgain(RetryDeadline)
  /\ rejects' = rejects + 1
  /\ postponed' = postponed \cup {due}
  /\ UNCHANGED <<loopVars, clockVars, userVars, fate>>

-----------------------------------------------------------------------------
(* Sleeping *)

NextExpiration == (CHOOSE o \in W!Live : W!IsNext(o)).expiration

\* PeekExpiration and, for a bucket, a second reading of the clock.
\* Mutant: without the test for a time that has passed.
PeekBug ==
  /\ Goto("peek", "arm")
  /\ wait' = IF W!Live = {} THEN Hour ELSE NextExpiration - now
  /\ UNCHANGED <<wheelVars, pollTime, clockVars, userVars, taskVars>>

Peek ==
  /\ Goto("peek", IF W!Live # {} /\ NextExpiration <= now THEN "drain" ELSE "arm")
  /\ wait' = IF W!Live = {} THEN Hour
             ELSE IF NextExpiration <= now THEN 0 ELSE NextExpiration - now
  /\ UNCHANGED <<wheelVars, pollTime, clockVars, userVars, taskVars>>

\* timer.Reset(wait).
Arm ==
  /\ Goto("arm", "select")
  /\ UNCHANGED <<wheelVars, pollTime, wait, clockVars, userVars, taskVars>>

SelectShutdown ==
  /\ shutdownC
  /\ Goto("select", "finish")
  /\ UNCHANGED <<wheelVars, pollTime, wait, clockVars, userVars, taskVars>>

\* Mutant: the loop goes back to sleep for the rest of the time.
SelectCommandBug == HandleCommand("select", "select")
SelectCommand == HandleCommand("select", "drain")

SelectTimer ==
  /\ wait = 0
  /\ Goto("select", "drain")
  /\ UNCHANGED <<wheelVars, pollTime, wait, clockVars, userVars, taskVars>>

-----------------------------------------------------------------------------
(* finishScheduler: cancelPending *)

\* cancelEntry.
Cancelled(E) == [e \in Entries |-> IF e \in E THEN "cancelled" ELSE fate[e]]

FinishCommand ==
  /\ At("finish")
  /\ commands # <<>>
  /\ fate' = Cancelled({Head(commands).entry})
  /\ commands' = Tail(commands)
  /\ UNCHANGED <<wheelVars, loopVars, clockVars, asked, shutdownC, rejects, postponed>>

\* Mutant: a range over the channel, which nobody closes.
FinishDrainedForever == At("finish") /\ commands = <<>> /\ UNCHANGED vars

FinishDrained ==
  /\ commands = <<>>
  /\ Goto("finish", "flush")
  /\ UNCHANGED <<wheelVars, pollTime, wait, clockVars, userVars, taskVars>>

\* Poll(MaxInt64): every bucket is flushed, and the wheel's clock stands still.
FinishPoll ==
  /\ At("flush")
  /\ \E o \in queue : W!IsNext(o) /\ queue' = W!QueueAfter(o) /\ flushing' = o.bucket
  /\ UNCHANGED <<levels, tick, currentTime, expiration, bucket, deadline, adding, at, due,
                 loopVars, clockVars, userVars, taskVars>>

FinishEntry(e) ==
  /\ loop = "flush" /\ flushing # W!NoBucket
  /\ W!FlushCancelled(e)
  /\ fate' = Cancelled({e})
  /\ UNCHANGED <<loopVars, clockVars, userVars, rejects, postponed>>

FinishBucket ==
  /\ loop = "flush"
  /\ W!FlushDone
  /\ UNCHANGED <<loopVars, clockVars, userVars, taskVars>>

\* TimingWheel.Flush empties what the delay queue did not lead to.
FlushWheel ==
  /\ W!Live = {}
  /\ Goto("flush", "stopped")
  /\ fate' = Cancelled({e \in Entries : bucket[e] # W!NoBucket})
  /\ bucket' = [e \in Entries |-> W!NoBucket]
  /\ expiration' = [b \in W!Buckets |-> W!Unset]
  /\ queue' = {}
  /\ UNCHANGED <<levels, tick, currentTime, deadline, adding, at, flushing, due, pollTime,
                 wait, clockVars, userVars, rejects, postponed>>

-----------------------------------------------------------------------------
(* Time *)

\* The timeouts in the wheel, and those that are neither handed over nor cancelled.
InWheel     == {e \in Entries : bucket[e] # W!NoBucket \/ e \in {adding, due}}
Outstanding == InWheel \cup {commands[i].entry : i \in DOMAIN commands}

\* The loop has nothing to do until its timer fires.
Asleep == loop = "select" /\ wait > 0 /\ commands = <<>> /\ ~shutdownC /\ W!Idle

TimePasses ==
  /\ now < IF Outstanding = {} THEN MaxTime ELSE EndTime
  /\ Asleep \/ lag < MaxLag
  /\ now' = now + 1
  /\ wait' = IF loop = "select" /\ wait > 0 THEN wait - 1 ELSE wait
  /\ lag' = IF Asleep THEN lag ELSE lag + 1
  /\ UNCHANGED <<wheelVars, loop, pollTime, jumps, userVars, taskVars>>

\* The wall clock is set.
SetClock ==
  /\ jumps < MaxJumps
  /\ \E j \in Jumps : now' = now + j /\ now' \in 0 .. EndTime
  /\ jumps' = jumps + 1
  /\ UNCHANGED <<wheelVars, loopVars, lag, userVars, taskVars>>

-----------------------------------------------------------------------------
LoopStep ==
  \/ DrainCommand \/ DrainDone \/ CheckShutdown \/ BeginPoll \/ Poll \/ PollDone
  \/ WheelStep \/ Dispatch \/ RefuseDispatch
  \/ Peek \/ Arm \/ SelectShutdown \/ SelectCommand \/ SelectTimer
  \/ FinishCommand \/ FinishDrained \/ FinishPoll \/ FinishBucket \/ FlushWheel
  \/ \E e \in Entries : FinishEntry(e)

Stopped == At("stopped") /\ UNCHANGED vars

Next ==
  \/ LoopStep
  \/ \E e \in Entries : Send(e) \/ \E delay \in Delays : Schedule(e, delay)
  \/ Shutdown
  \/ TimePasses \/ SetClock
  \/ Stopped

Spec == Init /\ [][Next]_vars

\* The loop runs and time passes.  Nobody has to call anything, to shut the
\* timer down or to set a clock.
Fairness == WF_vars(LoopStep) /\ WF_vars(TimePasses)

FairSpec == Spec /\ Fairness

-----------------------------------------------------------------------------
(* Properties *)

\* Times and the sleep are never negative: a bucket that is already due when
\* the clock is read again must not become a negative sleep.
TypeOK ==
  /\ loop \in {"drain", "check", "poll", "peek", "arm", "select", "finish", "flush", "stopped"}
  /\ pollTime \in Nat /\ wait \in Nat /\ now \in Nat
  /\ lag \in 0 .. MaxLag /\ jumps \in 0 .. MaxJumps /\ rejects \in 0 .. MaxRejects
  /\ commands \in Seq([entry : Entries, deadline : Times])
  /\ fate \in [Entries -> {"new", "called", "sent", "handed", "cancelled"}]
  /\ asked \in [Entries -> Times]
  /\ postponed \subseteq Entries
  /\ shutdownC \in BOOLEAN

\* Unless the clock was set, no timeout is slept through, whenever its command
\* arrived, at whatever level it is stored, however often it was refused.  When
\* the loop goes to sleep, its polls have left nothing in the wheel that was due
\* when the clock was read for them - cascades end in the round in which they
\* begin, and a command that waited for a slot until after its deadline does not
\* wait in the wheel as well - and the sleep in front of the loop passes no
\* deadline by more than the time the loop itself has taken since.  How long a
\* round takes, draining included, is not for the loop to say: no bound on that
\* is claimed.
NeverOversleeps ==
  jumps = 0 /\ loop \in {"arm", "select"} =>
    \A e \in InWheel : pollTime < deadline[e] /\ now + wait <= deadline[e] + lag

\* A timeout that was refused does not come due again before the clock has been
\* read for the next polls, though the polls may find it again, in the bucket
\* of an overflow wheel: so that neither does retry recurse into dispatch, nor
\* does a round of polls, in which a shutdown goes unnoticed, go on and on.
\* This needs the delay's lower limit of a tick, and a clock not set back.  The
\* comment on retry, that a retry delay "can already be due if the scheduler
\* clock advanced while handling rejection", says otherwise; but the delay is
\* counted from a fresh reading, and the clock that Add compares it with is the
\* wheel's, which no rejection moves.
RefusedWaits == jumps = 0 => due \notin postponed

\* In the end every timeout that was sent is decided - each is sent once -
\* whether or not the clock is set.  And if the scheduler stops, it leaves none
\* of them in the channel, in a bucket or to an offer in the heap.
TimeoutsEnd == <>[](\A e \in Entries : fate[e] # "sent")

\* After a shutdown the loop comes to its end.
Stops == <>[](shutdownC => loop = "stopped")
=============================================================================
