--------------------------- MODULE SchedulerProofs ---------------------------
(***************************************************************************)
(* Proofs about Scheduler, for every tick, bucket count, retry delay, lag, *)
(* set of delays and of clock jumps, and number of timeouts.  They rest on *)
(* the proofs about the wheel that the scheduler owns.                     *)
(***************************************************************************)
EXTENDS Scheduler, ChannelLemmas

P == INSTANCE TimingWheelProofs WITH Deadlines <- Times, StartTimes <- Starts

-----------------------------------------------------------------------------
(* The inductive invariant *)

\* The clock, the sleep and the time of the polls.
ClockTypes ==
  /\ now \in 0 .. EndTime /\ pollTime \in 0 .. EndTime
  /\ wait \in Nat /\ lag \in 0 .. MaxLag
  /\ jumps \in 0 .. MaxJumps /\ rejects \in 0 .. MaxRejects

UserTypes ==
  /\ commands \in Seq([entry : Entries, deadline : Times])
  /\ fate \in [Entries -> {"new", "called", "sent", "handed", "cancelled"}]
  /\ asked \in [Entries -> Times]
  /\ postponed \subseteq Entries
  /\ shutdownC \in BOOLEAN
  /\ loop \in {"drain", "check", "poll", "peek", "arm", "select", "finish", "flush", "stopped"}

\* An operation of the wheel is under way only where the loop calls it.
LoopInv ==
  /\ ~W!Idle => loop \in {"drain", "poll"}
  /\ flushing # W!NoBucket => loop \in {"poll", "flush"}

\* Until the loop empties the wheel in the end, the wheel is in a state that
\* its own specification allows.
Emptying == loop \in {"flush", "stopped"}
WheelInv == P!TypeOK /\ (~Emptying => P!IInv)

\* A timeout is with its caller, or in the channel, or in the wheel, or in none
\* of them.
Unsent(e) == fate[e] \in {"new", "called"}
Queued(e) == \E i \in 1 .. Len(commands) : commands[i].entry = e

ChannelInv ==
  /\ \A i, j \in 1 .. Len(commands) : commands[i].entry = commands[j].entry => i = j
  /\ \A e \in Entries : Queued(e) => e \notin InWheel /\ e \notin postponed /\ ~Unsent(e)
  /\ \A e \in Entries : Unsent(e) => e \notin InWheel /\ e \notin postponed

\* As long as the clock is not set: the polls are for a time that has passed,
\* not longer ago than this round took up to its sleep.
PollInv ==
  /\ pollTime <= now
  /\ loop \in {"poll", "peek"} => now <= pollTime + lag
  /\ currentTime[1] <= pollTime

\* A refused timeout is due at least a tick after the time of the polls.
PostponedInv == \A e \in postponed : pollTime + Tick <= deadline[e]

\* Between the polls and the next round nothing in the wheel was due when the
\* clock was read, and the sleep ends in time.
SleepInv ==
  \A e \in InWheel :
    /\ loop \in {"peek", "arm", "select"} => pollTime < deadline[e]
    /\ loop \in {"arm", "select"} => now + wait <= deadline[e] + lag

IInv ==
  /\ ClockTypes
  /\ UserTypes
  /\ LoopInv
  /\ WheelInv
  /\ ChannelInv
  /\ jumps = 0 => PollInv /\ PostponedInv /\ SleepInv

-----------------------------------------------------------------------------
(* The wheel *)

\* What the proofs about the wheel assume holds here.
LEMMA WheelConstants == P!WheelAssumption
BY SchedulerAssumption DEF P!WheelAssumption, Times

\* The operations of the scheduler's wheel are those the proofs speak of.
LEMMA SameConstants ==
  /\ W!Idle <=> P!Idle
  /\ W!NoBucket = P!NoBucket
  /\ W!Live = P!Live
  /\ \A o : W!IsNext(o) <=> P!IsNext(o)
  /\ \A o : W!QueueAfter(o) = P!QueueAfter(o)
BY DEF W!Idle, P!Idle, W!NoBucket, P!NoBucket, W!Live, P!Live, W!IsLive, P!IsLive, W!IsNext,
       P!IsNext, W!QueueAfter, P!QueueAfter

LEMMA SameAdd ==
  /\ \A e, d : W!Add(e, d) <=> P!Add(e, d)
  /\ \A d : W!AddAgain(d) <=> P!AddAgain(d)
  /\ W!Accept <=> P!Accept
BY DEF W!Add, P!Add, W!AddAgain, P!AddAgain, W!Accept, P!Accept, W!Idle, P!Idle, W!CallAdd,
       P!CallAdd, W!NoBucket, P!NoBucket, W!wheelVars, P!wheelVars

LEMMA SameVisit ==
  /\ W!AddDue <=> P!AddDue
  /\ W!AddToBucket <=> P!AddToBucket
  /\ W!AddToOverflow <=> P!AddToOverflow
BY DEF W!AddDue, P!AddDue, W!AddToBucket, P!AddToBucket, W!AddToOverflow, P!AddToOverflow,
       W!IsDue, P!IsDue, W!Fits, P!Fits, W!interval, P!interval, W!BucketOf, P!BucketOf,
       W!Offer, P!Offer, W!RoundDown, P!RoundDown, W!wheelVars, P!wheelVars

LEMMA SameFlush ==
  /\ \A t : W!Poll(t) <=> P!Poll(t)
  /\ \A e : W!FlushEntry(e) <=> P!FlushEntry(e)
  /\ \A e : W!FlushCancelled(e) <=> P!FlushCancelled(e)
  /\ W!FlushDone <=> P!FlushDone
<1>1. \A t : W!Advanced(t) = P!Advanced(t)
  BY DEF W!Advanced, P!Advanced, W!RoundDown, P!RoundDown, W!Levels, P!Levels
<1>2. \A t : W!Poll(t) <=> P!Poll(t)
  BY <1>1, SameConstants DEF W!Poll, P!Poll
<1>3. QED
  BY <1>2
     DEF W!FlushEntry, P!FlushEntry, W!FlushCancelled, P!FlushCancelled, W!FlushDone,
         P!FlushDone, W!Idle, P!Idle, W!CallAdd, P!CallAdd, W!NoBucket, P!NoBucket, W!wheelVars,
         P!wheelVars, W!Unset, P!Unset

LEMMA SameInit == W!Init => P!Init
BY DEF W!Init, P!Init, W!RoundDown, P!RoundDown, W!NoBucket, P!NoBucket, W!Unset, P!Unset,
       W!Levels, P!Levels, W!Buckets, P!Buckets, W!Slots, P!Slots

\* What is in the wheel stays there or leaves it, with the deadline it has,
\* unless it is added.
LEMMA NothingNew ==
  ASSUME \/ W!AddDue \/ W!AddToBucket \/ W!AddToOverflow \/ W!Accept
         \/ W!FlushDone \/ \E t : W!Poll(t)
         \/ \E e \in Entries : W!FlushEntry(e) \/ W!FlushCancelled(e),
         P!TypeOK
  PROVE  deadline' = deadline /\ InWheel' \subseteq InWheel
<1> USE DEF InWheel, P!TypeOK, W!NoBucket, P!NoBucket
<1>1. CASE W!AddDue  BY <1>1, SchedulerAssumption DEF W!AddDue
<1>2. CASE W!AddToBucket  BY <1>2, SchedulerAssumption DEF W!AddToBucket
<1>3. CASE W!AddToOverflow  BY <1>3 DEF W!AddToOverflow
<1>4. CASE W!Accept  BY <1>4, SchedulerAssumption DEF W!Accept
<1>5. CASE W!FlushDone  BY <1>5 DEF W!FlushDone
<1>6. CASE \E t : W!Poll(t)  BY <1>6 DEF W!Poll
<1>7. ASSUME NEW e \in Entries, W!FlushEntry(e) \/ W!FlushCancelled(e)
      PROVE  deadline' = deadline /\ InWheel' \subseteq InWheel
  BY <1>7 DEF W!FlushEntry, W!FlushCancelled, W!CallAdd
<1>8. QED  BY <1>1, <1>2, <1>3, <1>4, <1>5, <1>6, <1>7

\* Add and AddAgain set the deadline of the entry they are called with.
LEMMA Added ==
  ASSUME P!TypeOK, NEW e \in Entries, NEW d \in Times, W!Add(e, d)
  PROVE  /\ InWheel' \subseteq InWheel \cup {e}
         /\ \A f \in Entries : deadline'[f] = IF f = e THEN d ELSE deadline[f]
         /\ currentTime' = currentTime
BY SchedulerAssumption DEF W!Add, W!CallAdd, W!wheelVars, InWheel, P!TypeOK

LEMMA AddedAgain ==
  ASSUME P!TypeOK, NEW d \in Times, W!AddAgain(d)
  PROVE  /\ due \in Entries
         /\ InWheel' \subseteq InWheel
         /\ \A f \in Entries : deadline'[f] = IF f = due THEN d ELSE deadline[f]
         /\ currentTime' = currentTime
<1>1. due \in Entries  BY DEF W!AddAgain, P!TypeOK
<1>2. QED  BY <1>1, SchedulerAssumption DEF W!AddAgain, W!CallAdd, W!wheelVars, InWheel, P!TypeOK

\* Only Poll moves the clock of the root wheel, and not past the polls' time.
LEMMA RootClock ==
  ASSUME P!TypeOK, \/ W!AddDue \/ W!AddToBucket \/ W!AddToOverflow \/ W!Accept
                  \/ W!FlushDone \/ \E e \in Entries : W!FlushEntry(e) \/ W!FlushCancelled(e)
  PROVE  currentTime'[1] = currentTime[1]
<1>1. CASE W!AddToOverflow
  <2>1. at \in P!Levels /\ 1 \in P!Levels /\ currentTime \in [P!Levels -> Nat]
    BY SchedulerAssumption DEF P!TypeOK, P!Levels
  <2>2. at + 1 # 1  BY <2>1 DEF P!Levels
  <2>3. QED  BY <1>1, <2>1, <2>2 DEF W!AddToOverflow
<1>2. CASE W!AddDue \/ W!AddToBucket \/ W!Accept \/ W!FlushDone
  BY <1>2 DEF W!AddDue, W!AddToBucket, W!Accept, W!FlushDone, W!wheelVars
<1>3. ASSUME NEW e \in Entries, W!FlushEntry(e) \/ W!FlushCancelled(e)
      PROVE  currentTime'[1] = currentTime[1]
  BY <1>3 DEF W!FlushEntry, W!FlushCancelled, W!wheelVars
<1>4. QED  BY <1>1, <1>2, <1>3

LEMMA RootClockPolled ==
  ASSUME P!IInv, NEW t \in Times, W!Poll(t)
  PROVE  currentTime'[1] \in Nat /\ currentTime'[1] <= t
<1>1. PICK o \in queue : o.expiration <= t /\ currentTime' = P!Advanced(o.expiration)
                         /\ W!IsNext(o)
  BY SameFlush, SameConstants DEF P!Poll
<1>2. PICK x \in Nat : x = o.expiration  BY <1>1 DEF P!IInv, P!TypeOK
<1>3. P!Poll(t)  BY SameFlush
<1>4. PICK b \in P!Buckets, y \in Nat : /\ P!InUse(b) /\ expiration[b] = y
                                        /\ currentTime[1] <= y
                                        /\ currentTime' = P!Advanced(y)
                                        /\ currentTime'[1] = y
                                        /\ \A c \in P!Buckets : P!InUse(c) => y <= expiration[c]
  BY <1>3, P!PollStep, WheelConstants
<1>5. o \in [bucket : P!Buckets, expiration : Nat]  BY DEF P!IInv, P!TypeOK
<1>6. P!InUse(o.bucket) /\ o.expiration = expiration[o.bucket]  BY <1>5 DEF P!IInv, P!QueueInv
<1>7. y <= x  BY <1>2, <1>4, <1>5, <1>6
<1>8. t \in Nat  BY SchedulerAssumption DEF Times
<1>9. QED  BY <1>1, <1>2, <1>4, <1>7, <1>8

\* A stored timeout's bucket has an offer in the queue, not after its deadline.
LEMMA OfferInTime ==
  ASSUME P!IInv, flushing = W!NoBucket, NEW e \in Entries, bucket[e] # W!NoBucket
  PROVE  \E o \in W!Live : o.expiration \in Nat /\ o.expiration <= deadline[e]
<1> USE SameConstants
<1>1. /\ bucket[e] \in P!Buckets /\ expiration[bucket[e]] \in Nat
      /\ expiration[bucket[e]] <= deadline[e] /\ P!InUse(bucket[e])
  BY P!StoredAhead, WheelConstants DEF P!Stored
<1> DEFINE o == [bucket |-> bucket[e], expiration |-> expiration[bucket[e]]]
<1>2. o \in [bucket : P!Buckets, expiration : Nat]  BY <1>1
<1>3. bucket[e] # flushing  OBVIOUS
<1>4. o \in queue  BY <1>1, <1>2, <1>3 DEF P!IInv, P!QueueInv
<1>5. o \in W!Live  BY <1>4 DEF W!Live, W!IsLive
<1>6. QED  BY <1>1, <1>5

\* PeekExpiration finds the earliest offer, however many there are.
LEMMA NextIsLeast ==
  ASSUME P!TypeOK, W!Live # {}
  PROVE  NextExpiration \in Nat /\ \A o \in W!Live : NextExpiration <= o.expiration
<1> DEFINE T == {o.expiration : o \in W!Live}
<1>1. \A o \in W!Live : o.expiration \in Nat  BY DEF P!TypeOK, W!Live
<1>2. T \in SUBSET Nat /\ T # {}  BY <1>1
<1>3. PICK x \in T : \A y \in T : x <= y
  <2> HIDE DEF T
  <2>1. QED  BY <1>2, LeastElement
<1>4. PICK o \in W!Live : o.expiration = x  OBVIOUS
<1>5. W!IsNext(o)  BY <1>3, <1>4 DEF W!IsNext
<1>6. PICK p \in W!Live : p = (CHOOSE q \in W!Live : W!IsNext(q)) /\ W!IsNext(p)
  BY <1>4, <1>5
<1>7. QED  BY <1>1, <1>6 DEF NextExpiration, W!IsNext

-----------------------------------------------------------------------------
(* Init, and the kinds of steps *)

LEMMA InitInv == Init => IInv
<1> SUFFICES ASSUME Init PROVE IInv  OBVIOUS
<1> USE SchedulerAssumption
<1>1. P!Init /\ P!IInv  BY SameInit, P!InitInv, WheelConstants DEF Init
<1>2. /\ \A e \in Entries : bucket[e] = W!NoBucket
      /\ adding = None /\ due = None /\ flushing = W!NoBucket
  BY DEF Init, W!Init
<1>3. now \in 0 .. EndTime  BY DEF Init
<1>4. \A e \in Entries : e \notin InWheel  BY <1>2 DEF InWheel
<1>5. commands = <<>> /\ Len(commands) = 0  BY DEF Init
<1>6. ClockTypes  BY <1>3 DEF ClockTypes, Init
<1>7. UserTypes
  <2>1. commands \in Seq([entry : Entries, deadline : Times])  BY <1>5
  <2>2. 0 \in Times  BY DEF Times
  <2>3. QED  BY <2>1, <2>2 DEF UserTypes, Init
<1>8. LoopInv /\ WheelInv  BY <1>1, <1>2 DEF LoopInv, WheelInv, W!Idle, P!IInv, Emptying, Init
<1>9. ChannelInv  BY <1>4, <1>5 DEF ChannelInv, Queued, Init
<1>10. PollInv
  <2>1. currentTime[1] = P!RoundDown(now, Tick)  BY DEF Init, W!RoundDown, P!RoundDown
  <2>2. now % Tick \in Nat  BY <1>3
  <2>3. QED  BY <1>3, <2>1, <2>2 DEF PollInv, Init, P!RoundDown
<1>11. PostponedInv /\ SleepInv  BY <1>4, <1>5 DEF PostponedInv, SleepInv, Init
<1>12. QED  BY <1>6, <1>7, <1>8, <1>9, <1>10, <1>11 DEF IInv

\* The loop goes on and leaves the wheel, the commands and the clock alone.
Moving ==
  \/ DrainDone \/ CheckShutdown \/ PollDone \/ Peek \/ Arm \/ SelectShutdown \/ SelectTimer
  \/ FinishDrained

\* The loop stays where it is while the wheel works.
Working == Poll \/ WheelStep \/ FinishPoll \/ FinishBucket

\* Schedule computes a deadline.
Calling == \E e \in Entries, delay \in Delays : Schedule(e, delay)

LEMMA NextCases ==
  ASSUME [Next]_vars
  PROVE  \/ Moving \/ Working \/ DrainCommand \/ SelectCommand \/ BeginPoll
         \/ Dispatch \/ RefuseDispatch \/ FinishCommand \/ FlushWheel
         \/ \E e \in Entries : FinishEntry(e)
         \/ \E e \in Entries : Send(e)
         \/ Calling \/ Shutdown \/ TimePasses \/ SetClock \/ UNCHANGED vars
BY DEF Next, LoopStep, Stopped, Moving, Working, Calling

LEMMA MovingKeeps ==
  ASSUME Moving
  PROVE  UNCHANGED <<wheelVars, clockVars, userVars, taskVars, pollTime>>
BY DEF Moving, DrainDone, CheckShutdown, PollDone, Peek, Arm, SelectShutdown, SelectTimer,
       FinishDrained

LEMMA WorkingKeeps ==
  ASSUME Working
  PROVE  UNCHANGED <<loopVars, clockVars, userVars, taskVars>>
BY DEF Working, Poll, WheelStep, FinishPoll, FinishBucket

\* A receive takes the first command and hands it to the wheel.
LEMMA Received ==
  ASSUME IInv, DrainCommand \/ SelectCommand
  PROVE  \E e \in Entries, d \in Times :
           /\ Len(commands) \in Nat \ {0}
           /\ commands[1].entry = e /\ commands[1].deadline = d
           /\ commands' \in Seq([entry : Entries, deadline : Times])
           /\ Len(commands') = Len(commands) - 1
           /\ \A i \in 1 .. Len(commands') : commands'[i] = commands[i + 1]
           /\ W!Add(e, d)
           /\ At("drain") \/ At("select")
           /\ loop' = "drain"
           /\ UNCHANGED <<pollTime, wait, clockVars, asked, shutdownC, taskVars>>
<1>1. commands \in Seq([entry : Entries, deadline : Times])  BY DEF IInv, UserTypes
<1>2. /\ commands # <<>> /\ commands' = Tail(commands)
      /\ W!Add(Head(commands).entry, Head(commands).deadline)
      /\ At("drain") \/ At("select")
      /\ loop' = "drain"
      /\ UNCHANGED <<pollTime, wait, clockVars, asked, shutdownC, taskVars>>
  BY DEF DrainCommand, SelectCommand, HandleCommand, Goto
<1>3. /\ Len(commands) \in Nat \ {0} /\ Head(commands) = commands[1]
      /\ Head(commands) \in [entry : Entries, deadline : Times]
      /\ Tail(commands) \in Seq([entry : Entries, deadline : Times])
      /\ Len(Tail(commands)) = Len(commands) - 1
      /\ \A i \in 1 .. Len(commands) - 1 : Tail(commands)[i] = commands[i + 1]
  BY <1>1, <1>2, TailFacts
<1>4. QED  BY <1>2, <1>3

\* A call that computes a deadline changes nothing else.
LEMMA Called ==
  ASSUME IInv, Calling
  PROVE  /\ \E e \in Entries : /\ fate[e] = "new"
                            /\ fate' = [fate EXCEPT ![e] = "called"]
         /\ asked' \in [Entries -> Times]
         /\ UNCHANGED <<wheelVars, loopVars, clockVars, commands, shutdownC, rejects, postponed>>
<1>1. PICK e \in Entries, delay \in Delays : Schedule(e, delay)  BY DEF Calling
<1>2. now + delay \in Times
  BY <1>1, SchedulerAssumption DEF Schedule, Times, IInv, ClockTypes
<1>3. asked' \in [Entries -> Times]  BY <1>1, <1>2 DEF Schedule, IInv, UserTypes
<1>4. QED  BY <1>1, <1>3 DEF Schedule

\* A send appends the command with the deadline that its caller has computed.
LEMMA Sent ==
  ASSUME IInv, NEW e \in Entries, Send(e)
  PROVE  /\ Len(commands) \in Nat
         /\ commands' \in Seq([entry : Entries, deadline : Times])
         /\ Len(commands') = Len(commands) + 1
         /\ \A i \in 1 .. Len(commands) : commands'[i] = commands[i]
         /\ commands'[Len(commands) + 1].entry = e
         /\ asked' \in [Entries -> Times]
<1>1. commands \in Seq([entry : Entries, deadline : Times])  BY DEF IInv, UserTypes
<1>2. asked \in [Entries -> Times] /\ asked[e] \in Times /\ 0 \in Times
  BY SchedulerAssumption DEF IInv, UserTypes, Times
<1> DEFINE x == [entry |-> e, deadline |-> asked[e]]
<1>3. x \in [entry : Entries, deadline : Times]  BY <1>2
<1>4. commands' = Append(commands, x) /\ asked' = [asked EXCEPT ![e] = 0]  BY DEF Send
<1>5. x.entry = e  OBVIOUS
<1> HIDE DEF x
<1>6. /\ Append(commands, x) \in Seq([entry : Entries, deadline : Times])
      /\ Len(Append(commands, x)) = Len(commands) + 1
      /\ \A i \in 1 .. Len(commands) : Append(commands, x)[i] = commands[i]
      /\ Append(commands, x)[Len(commands) + 1] = x
      /\ Len(commands) \in Nat
  BY <1>1, <1>3, AppendFacts
<1>7. QED  BY <1>2, <1>4, <1>5, <1>6

\* The new deadline of a timeout that is refused.
LEMMA RetryLater ==
  ASSUME IInv
  PROVE  RetryDeadline \in Times /\ RetryDeadline >= now + Tick
BY SchedulerAssumption DEF RetryDeadline, Times, IInv, ClockTypes

-----------------------------------------------------------------------------
(* Every step keeps the types, the loop and the wheel in order *)

LEMMA ClockTypesKept ==
  ASSUME IInv, [Next]_vars
  PROVE  ClockTypes'
<1> USE SchedulerAssumption DEF ClockTypes, clockVars, loopVars, taskVars
<1>0. ClockTypes  BY DEF IInv
<1>1. CASE Moving
  <2>1. UNCHANGED <<now, lag, jumps, rejects, pollTime>>  BY <1>1, MovingKeeps
  <2>2. wait' \in Nat
    <3>1. CASE Peek
      <4>1. CASE W!Live = {}  BY <3>1, <4>1 DEF Peek
      <4>2. CASE W!Live # {}
        <5>1. NextExpiration \in Nat  BY <4>2, NextIsLeast DEF IInv, WheelInv
        <5>2. QED  BY <1>0, <3>1, <4>2, <5>1 DEF Peek
      <4>3. QED  BY <4>1, <4>2
    <3>2. CASE ~Peek
      BY <1>0, <1>1, <3>2
         DEF Moving, DrainDone, CheckShutdown, PollDone, Arm, SelectShutdown, SelectTimer,
             FinishDrained
    <3>3. QED  BY <3>1, <3>2
  <2>3. QED  BY <1>0, <2>1, <2>2
<1>2. CASE Working  BY <1>0, <1>2, WorkingKeeps
<1>3. CASE DrainCommand \/ SelectCommand
  BY <1>0, <1>3 DEF DrainCommand, SelectCommand, HandleCommand
<1>4. CASE BeginPoll  BY <1>0, <1>4 DEF BeginPoll
<1>5. CASE Dispatch \/ RefuseDispatch  BY <1>0, <1>5 DEF Dispatch, RefuseDispatch
<1>6. CASE FinishCommand \/ FlushWheel  BY <1>0, <1>6 DEF FinishCommand, FlushWheel
<1>7. ASSUME NEW e \in Entries, FinishEntry(e) PROVE ClockTypes'
  BY <1>0, <1>7 DEF FinishEntry
<1>8. ASSUME NEW e \in Entries, Send(e) PROVE ClockTypes'
  BY <1>0, <1>8 DEF Send
<1>9. CASE Shutdown \/ Calling  BY <1>0, <1>9, Called DEF Shutdown
<1>10. CASE TimePasses
  <2>1. lag' \in 0 .. MaxLag  BY <1>0, <1>10 DEF TimePasses, Asleep
  <2>2. QED  BY <1>0, <1>10, <2>1 DEF TimePasses
<1>11. CASE SetClock  BY <1>0, <1>11 DEF SetClock
<1>12. CASE UNCHANGED vars  BY <1>0, <1>12 DEF vars
<1>13. QED
  BY <1>1, <1>2, <1>3, <1>4, <1>5, <1>6, <1>7, <1>8, <1>9, <1>10, <1>11, <1>12, NextCases

LEMMA UserTypesKept ==
  ASSUME IInv, [Next]_vars
  PROVE  UserTypes'
<1> USE DEF UserTypes, userVars, loopVars, taskVars
<1>0. UserTypes  BY DEF IInv
<1>1. CASE Moving
  <2>1. UNCHANGED <<userVars, taskVars>>  BY <1>1, MovingKeeps
  <2>2. loop' \in {"drain", "check", "poll", "peek", "arm", "select", "finish", "flush",
                   "stopped"}
    BY <1>1 DEF Moving, Goto, DrainDone, CheckShutdown, PollDone, Peek, Arm, SelectShutdown,
                SelectTimer, FinishDrained
  <2>3. QED  BY <1>0, <2>1, <2>2
<1>2. CASE Working  BY <1>0, <1>2, WorkingKeeps
<1>3. CASE DrainCommand \/ SelectCommand  BY <1>0, <1>3, Received
<1>4. CASE BeginPoll  BY <1>0, <1>4 DEF BeginPoll, Goto
<1>5. CASE Dispatch  BY <1>0, <1>5 DEF Dispatch
<1>6. CASE RefuseDispatch
  <2>1. due \in Entries
    BY <1>6 DEF RefuseDispatch, W!AddAgain, IInv, WheelInv, P!TypeOK
  <2>2. QED  BY <1>0, <1>6, <2>1 DEF RefuseDispatch
<1>7. CASE FinishCommand
  <2>1. commands' \in Seq([entry : Entries, deadline : Times])
    BY <1>0, <1>7, TailFacts DEF FinishCommand
  <2>2. QED  BY <1>0, <1>7, <2>1 DEF FinishCommand, Cancelled
<1>8. CASE FlushWheel  BY <1>0, <1>8 DEF FlushWheel, Goto, Cancelled
<1>9. ASSUME NEW e \in Entries, FinishEntry(e) PROVE UserTypes'
  BY <1>0, <1>9 DEF FinishEntry, Cancelled
<1>10. ASSUME NEW e \in Entries, Send(e) PROVE UserTypes'
  <2>1. commands' \in Seq([entry : Entries, deadline : Times]) /\ asked' \in [Entries -> Times]
    BY <1>10, Sent
  <2>2. QED  BY <1>0, <1>10, <2>1 DEF Send
<1>11. CASE Shutdown \/ TimePasses \/ SetClock \/ Calling
  BY <1>0, <1>11, Called DEF Shutdown, TimePasses, SetClock
<1>12. CASE UNCHANGED vars  BY <1>0, <1>12 DEF vars
<1>13. QED
  BY <1>1, <1>2, <1>3, <1>4, <1>5, <1>6, <1>7, <1>8, <1>9, <1>10, <1>11, <1>12, NextCases

LEMMA LoopKept ==
  ASSUME IInv, [Next]_vars
  PROVE  LoopInv'
<1> USE DEF LoopInv, W!Idle, W!NoBucket, loopVars, wheelVars, At, Goto
<1>0. LoopInv  BY DEF IInv
<1>1. CASE Moving
  <2>1. UNCHANGED wheelVars  BY <1>1, MovingKeeps
  <2>2. W!Idle /\ flushing = W!NoBucket
    BY <1>1 DEF Moving, DrainDone, CheckShutdown, PollDone, Peek, Arm, SelectShutdown,
                SelectTimer, FinishDrained
  <2>3. QED  BY <2>1, <2>2
<1>2. CASE Poll  BY <1>0, <1>2 DEF Poll, W!Poll
<1>3. CASE WheelStep
  <2>1. loop' = loop  BY <1>3 DEF WheelStep
  <2>2. flushing' = flushing \/ flushing' = W!NoBucket
    BY <1>3 DEF WheelStep, W!AddDue, W!AddToBucket, W!AddToOverflow, W!FlushDone, W!FlushEntry
  <2>3. ~W!Idle \/ loop = "poll"
    BY <1>3, SchedulerAssumption
       DEF WheelStep, W!AddDue, W!AddToBucket, W!AddToOverflow
  <2>4. QED  BY <1>0, <2>1, <2>2, <2>3
<1>4. CASE FinishPoll \/ FinishBucket  BY <1>0, <1>4 DEF FinishPoll, FinishBucket, W!FlushDone
<1>5. CASE DrainCommand \/ SelectCommand
  BY <1>5 DEF DrainCommand, SelectCommand, HandleCommand, W!Add
<1>6. CASE BeginPoll  BY <1>0, <1>6 DEF BeginPoll
<1>7. CASE Dispatch \/ RefuseDispatch
  BY <1>0, <1>7 DEF Dispatch, RefuseDispatch, W!Accept, W!AddAgain
<1>8. CASE FinishCommand \/ FlushWheel  BY <1>0, <1>8 DEF FinishCommand, FlushWheel
<1>9. ASSUME NEW e \in Entries, FinishEntry(e) PROVE LoopInv'
  BY <1>0, <1>9 DEF FinishEntry, W!FlushCancelled
<1>10. ASSUME NEW e \in Entries, Send(e) PROVE LoopInv'
  BY <1>0, <1>10 DEF Send
<1>11. CASE Shutdown \/ TimePasses \/ SetClock \/ Calling
  BY <1>0, <1>11, Called DEF Shutdown, TimePasses, SetClock
<1>12. CASE UNCHANGED vars  BY <1>0, <1>12 DEF vars
<1>13. QED
  BY <1>1, <1>2, <1>3, <1>4, <1>5, <1>6, <1>7, <1>8, <1>9, <1>10, <1>11, <1>12, NextCases
     DEF Working

\* The wheel is used as its specification says, until it is emptied.
LEMMA WheelUsed ==
  ASSUME IInv, [Next]_vars, ~Emptying'
  PROVE  ~Emptying /\ [P!Next]_(P!vars)
<1> USE SchedulerAssumption DEF Emptying, loopVars, P!vars, P!wheelVars, wheelVars
<1>0. ClockTypes  BY DEF IInv
<1>1. CASE Moving
  BY <1>1, MovingKeeps
     DEF Moving, Goto, At, DrainDone, CheckShutdown, PollDone, Peek, Arm, SelectShutdown,
         SelectTimer, FinishDrained
<1>2. CASE Poll
  <2>1. pollTime \in Times  BY <1>0 DEF ClockTypes, Times
  <2>2. P!Poll(pollTime) /\ loop = "poll"  BY <1>2, SameFlush DEF Poll, At
  <2>3. QED  BY <2>1, <2>2 DEF P!Next
<1>3. CASE WheelStep
  <2>1. P!Next  BY <1>3, SameVisit, SameFlush DEF WheelStep, P!Next
  <2>2. QED  BY <1>3, <2>1 DEF WheelStep
<1>4. CASE FinishPoll \/ FinishBucket \/ FlushWheel
  BY <1>4 DEF FinishPoll, FinishBucket, FlushWheel, At, Goto
<1>5. CASE DrainCommand \/ SelectCommand
  <2>1. PICK e \in Entries, d \in Times : W!Add(e, d)  BY <1>5, Received
  <2>2. P!Next  BY <2>1, SameAdd DEF P!Next
  <2>3. ~Emptying  BY <1>5 DEF DrainCommand, SelectCommand, HandleCommand, Goto, At
  <2>4. QED  BY <2>2, <2>3
<1>6. CASE BeginPoll  BY <1>6 DEF BeginPoll, Goto, At
<1>7. CASE Dispatch
  <2>1. P!Next  BY <1>7, SameAdd DEF Dispatch, P!Next
  <2>2. QED  BY <1>7, <2>1 DEF Dispatch
<1>8. CASE RefuseDispatch
  <2>1. P!Next  BY <1>8, SameAdd, RetryLater DEF RefuseDispatch, P!Next
  <2>2. QED  BY <1>8, <2>1 DEF RefuseDispatch
<1>9. CASE FinishCommand  BY <1>9 DEF FinishCommand, At
<1>10. ASSUME NEW e \in Entries, FinishEntry(e) PROVE FALSE  BY <1>10 DEF FinishEntry
<1>11. ASSUME NEW e \in Entries, Send(e)
       PROVE  ~Emptying /\ [P!Next]_(P!vars)
  BY <1>11 DEF Send
<1>12. CASE Shutdown \/ TimePasses \/ SetClock \/ Calling
  BY <1>12, Called DEF Shutdown, TimePasses, SetClock
<1>13. CASE UNCHANGED vars  BY <1>13 DEF vars
<1>14. QED
  BY <1>1, <1>2, <1>3, <1>4, <1>5, <1>6, <1>7, <1>8, <1>9, <1>10, <1>11, <1>12, <1>13,
     NextCases
     DEF Working

\* While it is emptied it keeps its types.
LEMMA EmptyingTyped ==
  ASSUME IInv, [Next]_vars, Emptying'
  PROVE  P!TypeOK'
<1> USE SchedulerAssumption DEF loopVars, wheelVars, P!TypeOK
<1>0. P!TypeOK /\ LoopInv  BY DEF IInv, WheelInv
<1>1. CASE Moving  BY <1>0, <1>1, MovingKeeps
<1>2. CASE Poll  BY <1>2 DEF Poll, At, Emptying
<1>3. CASE WheelStep
  <2>1. Emptying /\ loop # "poll"  BY <1>3 DEF WheelStep, Emptying
  <2>2. adding = None  BY <1>0, <2>1 DEF LoopInv, Emptying, W!Idle
  <2>3. QED
    BY <1>3, <2>1, <2>2 DEF WheelStep, W!AddDue, W!AddToBucket, W!AddToOverflow
<1>4. CASE FinishPoll
  BY <1>0, <1>4 DEF FinishPoll, W!QueueAfter
<1>5. CASE FinishBucket
  <2>1. expiration' = [expiration EXCEPT ![flushing] = P!Unset] /\ flushing' = P!NoBucket
    BY <1>5 DEF FinishBucket, W!FlushDone, W!Unset, P!Unset, W!NoBucket, P!NoBucket
  <2>2. expiration' \in [P!Buckets -> Nat \cup {P!Unset}]  BY <1>0, <2>1
  <2>3. QED  BY <1>0, <1>5, <2>1, <2>2 DEF FinishBucket, W!FlushDone
<1>6. CASE FlushWheel
  BY <1>0, <1>6
     DEF FlushWheel, W!NoBucket, P!NoBucket, W!Unset, P!Unset, W!Buckets, P!Buckets, W!Levels,
         P!Levels, W!Slots, P!Slots
<1>7. CASE DrainCommand \/ SelectCommand
  BY <1>7, Received DEF Emptying
<1>8. CASE BeginPoll  BY <1>8 DEF BeginPoll, Goto, Emptying
<1>9. CASE Dispatch \/ RefuseDispatch
  BY <1>0, <1>9 DEF Dispatch, RefuseDispatch, W!Accept, W!AddAgain, LoopInv, W!Idle, Emptying
<1>10. CASE FinishCommand  BY <1>0, <1>10 DEF FinishCommand
<1>11. ASSUME NEW e \in Entries, FinishEntry(e) PROVE P!TypeOK'
  BY <1>0, <1>11 DEF FinishEntry, W!FlushCancelled, W!wheelVars, W!NoBucket, P!NoBucket
<1>12. ASSUME NEW e \in Entries, Send(e) PROVE P!TypeOK'
  BY <1>0, <1>12 DEF Send
<1>13. CASE Shutdown \/ TimePasses \/ SetClock \/ Calling
  BY <1>0, <1>13, Called DEF Shutdown, TimePasses, SetClock
<1>14. CASE UNCHANGED vars  BY <1>0, <1>14 DEF vars
<1>15. QED
  BY <1>1, <1>2, <1>3, <1>4, <1>5, <1>6, <1>7, <1>8, <1>9, <1>10, <1>11, <1>12, <1>13, <1>14,
     NextCases
     DEF Working

LEMMA WheelKept ==
  ASSUME IInv, [Next]_vars
  PROVE  WheelInv'
<1>1. CASE Emptying'  BY <1>1, EmptyingTyped DEF WheelInv
<1>2. CASE ~Emptying'
  <2>1. P!IInv /\ [P!Next]_(P!vars)  BY <1>2, WheelUsed DEF IInv, WheelInv
  <2>2. P!IInv'  BY <2>1, P!NextInv, WheelConstants
  <2>3. QED  BY <2>2 DEF WheelInv, P!IInv
<1>3. QED  BY <1>1, <1>2

-----------------------------------------------------------------------------
(* Every step keeps the channel, the polls and the sleep in order *)

\* Entries neither get into the wheel nor into the channel, and few are sent.
LEMMA ChannelShrinks ==
  ASSUME IInv, commands' = commands, InWheel' \subseteq InWheel,
         \A e \in Entries : fate'[e] = fate[e] \/ ~Unsent(e)',
         postponed' \subseteq postponed \cup InWheel
  PROVE  ChannelInv'
<1>1. ASSUME NEW e \in Entries PROVE (Queued(e)' <=> Queued(e)) /\ (Unsent(e)' => Unsent(e))
  BY <1>1 DEF Queued, Unsent
<1>2. QED  BY <1>1 DEF IInv, ChannelInv

LEMMA ChannelKept ==
  ASSUME IInv, [Next]_vars
  PROVE  ChannelInv'
<1> USE DEF userVars, taskVars, loopVars, clockVars
<1>0. ChannelInv /\ UserTypes /\ P!TypeOK  BY DEF IInv, WheelInv
<1>1. CASE Moving
  BY <1>1, MovingKeeps, ChannelShrinks DEF wheelVars, InWheel
<1>2. CASE Poll \/ WheelStep \/ FinishBucket
  <2>1. InWheel' \subseteq InWheel
    BY <1>0, <1>2, NothingNew DEF Poll, WheelStep, FinishBucket
  <2>2. UNCHANGED <<userVars, taskVars>>  BY <1>2 DEF Poll, WheelStep, FinishBucket
  <2>3. QED  BY <2>1, <2>2, ChannelShrinks
<1>3. CASE FinishPoll
  BY <1>3, ChannelShrinks DEF FinishPoll, InWheel
<1>4. CASE DrainCommand \/ SelectCommand
  <2>1. PICK e \in Entries, d \in Times :
           /\ Len(commands) \in Nat \ {0}
           /\ commands[1].entry = e /\ commands[1].deadline = d
           /\ commands' \in Seq([entry : Entries, deadline : Times])
           /\ Len(commands') = Len(commands) - 1
           /\ \A i \in 1 .. Len(commands') : commands'[i] = commands[i + 1]
           /\ W!Add(e, d)
           /\ At("drain") \/ At("select")
           /\ loop' = "drain"
           /\ UNCHANGED <<pollTime, wait, clockVars, asked, shutdownC, taskVars>>
    BY <1>4, Received
  <2>2. 1 \in 1 .. Len(commands)  BY <2>1
  <2>3. \A i, j \in 1 .. Len(commands) : commands[i].entry = commands[j].entry => i = j
    BY <1>0 DEF ChannelInv
  <2>4. ASSUME NEW i \in 1 .. Len(commands'), NEW j \in 1 .. Len(commands'),
               commands'[i].entry = commands'[j].entry
        PROVE  i = j
    <3>1. i + 1 \in 1 .. Len(commands) /\ j + 1 \in 1 .. Len(commands)  BY <2>1
    <3>2. commands[i + 1].entry = commands[j + 1].entry  BY <2>1, <2>4
    <3>3. i + 1 = j + 1  BY <2>3, <3>1, <3>2
    <3>4. QED  BY <3>3
  <2>5. ASSUME NEW f \in Entries, Queued(f)' PROVE Queued(f) /\ f # e
    <3>1. PICK i \in 1 .. Len(commands') : commands'[i].entry = f  BY <2>5 DEF Queued
    <3>2. /\ i + 1 \in 1 .. Len(commands) /\ commands[i + 1].entry = f /\ i + 1 # 1
          /\ i + 1 \in Nat
      BY <2>1, <3>1
    <3>3. f # e  BY <2>1, <2>2, <2>3, <3>2
    <3>4. QED  BY <3>2, <3>3 DEF Queued
  <2>6. Queued(e)  BY <2>1, <2>2 DEF Queued
  <2>7. InWheel' \subseteq InWheel \cup {e}  BY <1>0, <2>1, Added
  <2>8. \A f \in Entries : Unsent(f)' <=> Unsent(f)  BY <2>1 DEF Unsent
  <2>9. QED  BY <1>0, <2>1, <2>4, <2>5, <2>6, <2>7, <2>8 DEF ChannelInv
<1>5. CASE BeginPoll  BY <1>5, ChannelShrinks DEF BeginPoll, wheelVars, InWheel
<1>6. CASE Dispatch
  <2>1. InWheel' \subseteq InWheel  BY <1>0, <1>6, NothingNew DEF Dispatch
  <2>2. \A e \in Entries : fate'[e] = fate[e] \/ ~Unsent(e)'
    BY <1>0, <1>6 DEF Dispatch, UserTypes, Unsent
  <2>3. QED  BY <1>6, <2>1, <2>2, ChannelShrinks DEF Dispatch
<1>7. CASE RefuseDispatch
  <2>1. InWheel' \subseteq InWheel
    BY <1>0, <1>7, RetryLater, AddedAgain DEF RefuseDispatch
  <2>2. due \in Entries /\ due \in InWheel
    BY <1>0, <1>7, RetryLater, AddedAgain DEF RefuseDispatch, InWheel
  <2>3. QED  BY <1>7, <2>1, <2>2, ChannelShrinks DEF RefuseDispatch
<1>8. CASE FinishCommand
  <2>1. /\ commands \in Seq([entry : Entries, deadline : Times]) /\ commands # <<>>
        /\ commands' = Tail(commands)
    BY <1>0, <1>8 DEF UserTypes, FinishCommand
  <2>2. /\ Len(commands) \in Nat \ {0} /\ Len(commands') = Len(commands) - 1
        /\ \A i \in 1 .. Len(commands) - 1 : commands'[i] = commands[i + 1]
    BY <2>1, TailFacts
  <2>3. ASSUME NEW i \in 1 .. Len(commands'), NEW j \in 1 .. Len(commands'),
               commands'[i].entry = commands'[j].entry
        PROVE  i = j
    <3>1. i + 1 \in 1 .. Len(commands) /\ j + 1 \in 1 .. Len(commands)  BY <2>2
    <3>2. commands[i + 1].entry = commands[j + 1].entry  BY <2>2, <2>3
    <3>3. i + 1 = j + 1  BY <1>0, <3>1, <3>2 DEF ChannelInv
    <3>4. QED  BY <3>3
  <2>4. ASSUME NEW f \in Entries, Queued(f)' PROVE Queued(f)
    <3>1. PICK i \in 1 .. Len(commands') : commands'[i].entry = f  BY <2>4 DEF Queued
    <3>2. i + 1 \in 1 .. Len(commands) /\ commands[i + 1].entry = f  BY <2>2, <3>1
    <3>3. QED  BY <3>2 DEF Queued
  <2>5. \A f \in Entries : fate'[f] = fate[f] \/ fate'[f] = "cancelled"
    BY <1>8 DEF FinishCommand, Cancelled
  <2>6. InWheel' = InWheel
    BY <1>8 DEF FinishCommand, wheelVars, InWheel
  <2>7. postponed' = postponed  BY <1>8 DEF FinishCommand
  <2>8. \A f \in Entries : Unsent(f)' => Unsent(f)  BY <2>5 DEF Unsent
  <2>9. QED  BY <1>0, <2>3, <2>4, <2>6, <2>7, <2>8 DEF ChannelInv
<1>9. CASE FlushWheel
  <2>1. InWheel' \subseteq InWheel  BY <1>9 DEF FlushWheel, InWheel
  <2>2. \A e \in Entries : fate'[e] = fate[e] \/ ~Unsent(e)'
    BY <1>9 DEF FlushWheel, Cancelled, Unsent
  <2>3. QED  BY <1>9, <2>1, <2>2, ChannelShrinks DEF FlushWheel
<1>10. ASSUME NEW e \in Entries, FinishEntry(e) PROVE ChannelInv'
  <2>1. InWheel' \subseteq InWheel
    BY <1>0, <1>10, NothingNew DEF FinishEntry
  <2>2. \A f \in Entries : fate'[f] = fate[f] \/ ~Unsent(f)'
    BY <1>10 DEF FinishEntry, Cancelled, Unsent
  <2>3. QED  BY <1>10, <2>1, <2>2, ChannelShrinks DEF FinishEntry
<1>11. ASSUME NEW e \in Entries, Send(e) PROVE ChannelInv'
  <2>1. /\ Len(commands) \in Nat
        /\ Len(commands') = Len(commands) + 1
        /\ \A i \in 1 .. Len(commands) : commands'[i] = commands[i]
        /\ commands'[Len(commands) + 1].entry = e
    BY <1>11, Sent
  <2>2. fate[e] = "called" /\ fate' = [fate EXCEPT ![e] = "sent"] /\ postponed' = postponed
    BY <1>11 DEF Send
  <2>3. \A f \in Entries : fate'[f] = IF f = e THEN "sent" ELSE fate[f]
    BY <1>0, <2>2 DEF UserTypes
  <2>4. ~Queued(e) /\ e \notin InWheel /\ e \notin postponed  BY <1>0, <2>2 DEF ChannelInv, Unsent
  <2>5. ASSUME NEW i \in 1 .. Len(commands'), NEW j \in 1 .. Len(commands'),
               commands'[i].entry = commands'[j].entry
        PROVE  i = j
    <3>1. ASSUME NEW k \in 1 .. Len(commands) PROVE commands'[k].entry # e
      BY <2>1, <2>4, <3>1 DEF Queued
    <3>2. CASE i \in 1 .. Len(commands) /\ j \in 1 .. Len(commands)
      BY <1>0, <2>1, <2>5, <3>2 DEF ChannelInv
    <3>3. CASE ~(i \in 1 .. Len(commands) /\ j \in 1 .. Len(commands))
      BY <2>1, <2>5, <3>1, <3>3
    <3>4. QED  BY <3>2, <3>3
  <2>6. ASSUME NEW f \in Entries, Queued(f)' PROVE f = e \/ Queued(f)
    <3>1. PICK i \in 1 .. Len(commands') : commands'[i].entry = f  BY <2>6 DEF Queued
    <3>2. i \in 1 .. Len(commands) \/ i = Len(commands) + 1  BY <2>1, <3>1
    <3>3. QED  BY <2>1, <3>1, <3>2 DEF Queued
  <2>7. InWheel' = InWheel
    BY <1>11 DEF Send, wheelVars, InWheel
  <2>8. \A f \in Entries : Unsent(f)' => Unsent(f) /\ f # e  BY <2>3 DEF Unsent
  <2>9. ~Unsent(e)'  BY <2>3 DEF Unsent
  <2>10. QED  BY <1>0, <2>2, <2>4, <2>5, <2>6, <2>7, <2>8, <2>9 DEF ChannelInv
<1>12. CASE Shutdown \/ TimePasses \/ SetClock
  BY <1>12, ChannelShrinks DEF Shutdown, TimePasses, SetClock, wheelVars, InWheel
<1>13. CASE Calling
  <2>1. PICK e \in Entries : fate[e] = "new" /\ fate' = [fate EXCEPT ![e] = "called"]
    BY <1>13, Called
  <2>2. \A f \in Entries : Unsent(f)' <=> Unsent(f)  BY <1>0, <2>1 DEF UserTypes, Unsent
  <2>3. commands' = commands /\ postponed' = postponed /\ InWheel' = InWheel
    BY <1>13, Called DEF wheelVars, InWheel
  <2>4. QED  BY <1>0, <2>2, <2>3 DEF ChannelInv, Queued
<1>14. CASE UNCHANGED vars  BY <1>14, ChannelShrinks DEF vars, wheelVars, InWheel
<1>15. QED
  BY <1>1, <1>2, <1>3, <1>4, <1>5, <1>6, <1>7, <1>8, <1>9, <1>10, <1>11, <1>12, <1>13, <1>14,
     NextCases
     DEF Working

LEMMA PollKept ==
  ASSUME IInv, [Next]_vars, jumps' = 0
  PROVE  jumps = 0 /\ PollInv'
<1> USE DEF PollInv, clockVars, loopVars
<1>0. /\ ClockTypes /\ P!TypeOK /\ currentTime[1] \in Nat
      /\ jumps = 0 => PollInv /\ PostponedInv
  <2>1. currentTime[1] \in Nat
    BY SchedulerAssumption DEF IInv, WheelInv, P!TypeOK, P!Levels
  <2>2. QED  BY <2>1 DEF IInv, WheelInv
<1> USE DEF ClockTypes
<1>1. CASE Moving
  <2>1. UNCHANGED <<currentTime, now, lag, jumps, pollTime>>
    BY <1>1, MovingKeeps DEF wheelVars
  <2>2. loop' \in {"poll", "peek"} => loop \in {"poll", "peek"}
    BY <1>1 DEF Moving, Goto, At, DrainDone, CheckShutdown, PollDone, Peek, Arm, SelectShutdown,
                SelectTimer, FinishDrained
  <2>3. QED  BY <1>0, <2>1, <2>2
<1>2. CASE Poll
  <2>1. pollTime \in Times  BY <1>0, SchedulerAssumption DEF Times
  <2>2. P!IInv  BY <1>2 DEF IInv, WheelInv, Emptying, Poll, At
  <2>3. currentTime'[1] \in Nat /\ currentTime'[1] <= pollTime
    BY <1>2, <2>1, <2>2, RootClockPolled DEF Poll
  <2>4. QED  BY <1>0, <1>2, <2>3 DEF Poll
<1>3. CASE WheelStep \/ FinishPoll \/ FinishBucket
  <2>1. currentTime'[1] = currentTime[1]
    BY <1>0, <1>3, RootClock DEF WheelStep, FinishPoll, FinishBucket
  <2>2. UNCHANGED <<loopVars, clockVars>>  BY <1>3 DEF WheelStep, FinishPoll, FinishBucket
  <2>3. QED  BY <1>0, <2>1, <2>2
<1>4. CASE DrainCommand \/ SelectCommand
  <2>1. PICK e \in Entries, d \in Times :
          /\ W!Add(e, d) /\ loop' = "drain"
          /\ UNCHANGED <<pollTime, wait, clockVars, asked, shutdownC, taskVars>>
    BY <1>4, Received
  <2>2. currentTime' = currentTime  BY <1>0, <2>1, Added
  <2>3. QED  BY <1>0, <2>1, <2>2
<1>5. CASE BeginPoll
  BY <1>0, <1>5 DEF BeginPoll, wheelVars
<1>6. CASE Dispatch  BY <1>0, <1>6, RootClock DEF Dispatch
<1>7. CASE RefuseDispatch
  BY <1>0, <1>7, RetryLater, AddedAgain DEF RefuseDispatch
<1>8. CASE FinishCommand \/ FlushWheel  BY <1>0, <1>8 DEF FinishCommand, FlushWheel, wheelVars, Goto
<1>9. ASSUME NEW e \in Entries, FinishEntry(e) PROVE jumps = 0 /\ PollInv'
  BY <1>0, <1>9, RootClock DEF FinishEntry
<1>10. ASSUME NEW e \in Entries, Send(e)
       PROVE  jumps = 0 /\ PollInv'
  BY <1>0, <1>10 DEF Send, wheelVars
<1>11. CASE Shutdown \/ Calling  BY <1>0, <1>11, Called DEF Shutdown, wheelVars
<1>12. CASE TimePasses  BY <1>0, <1>12 DEF TimePasses, Asleep, wheelVars
<1>13. CASE SetClock  BY <1>0, <1>13 DEF SetClock
<1>14. CASE UNCHANGED vars  BY <1>0, <1>14 DEF vars, wheelVars
<1>15. QED
  BY <1>1, <1>2, <1>3, <1>4, <1>5, <1>6, <1>7, <1>8, <1>9, <1>10, <1>11, <1>12, <1>13, <1>14,
     NextCases
     DEF Working

LEMMA PostponedKept ==
  ASSUME IInv, [Next]_vars, jumps' = 0
  PROVE  PostponedInv'
<1> USE DEF PostponedInv, clockVars, loopVars, taskVars
<1>0. /\ ClockTypes /\ UserTypes /\ P!TypeOK /\ ChannelInv
      /\ PollInv /\ PostponedInv
  BY PollKept DEF IInv, WheelInv
<1> USE DEF ClockTypes
<1>1. CASE Moving  BY <1>0, <1>1, MovingKeeps DEF wheelVars
<1>2. CASE Working
  <2>1. deadline' = deadline
    BY <1>0, <1>2, NothingNew DEF Working, Poll, WheelStep, FinishPoll, FinishBucket
  <2>2. QED  BY <1>0, <1>2, <2>1, WorkingKeeps
<1>3. CASE DrainCommand \/ SelectCommand
  <2>1. PICK e \in Entries, d \in Times :
          /\ Len(commands) \in Nat \ {0} /\ commands[1].entry = e
          /\ W!Add(e, d)
          /\ UNCHANGED <<pollTime, wait, clockVars, asked, shutdownC, taskVars>>
    BY <1>3, Received
  <2>2. 1 \in 1 .. Len(commands)  BY <2>1
  <2>3. e \notin postponed  BY <1>0, <2>1, <2>2 DEF ChannelInv, Queued
  <2>4. \A f \in postponed : deadline'[f] = deadline[f]
    BY <1>0, <2>1, <2>3, Added DEF UserTypes
  <2>5. QED  BY <1>0, <2>1, <2>4
<1>4. CASE BeginPoll  BY <1>4 DEF BeginPoll
<1>5. CASE Dispatch  BY <1>0, <1>5, NothingNew DEF Dispatch
<1>6. CASE RefuseDispatch
  <2>1. /\ due \in Entries
        /\ \A f \in Entries : deadline'[f] = IF f = due THEN RetryDeadline ELSE deadline[f]
        /\ RetryDeadline \in Times /\ RetryDeadline >= now + Tick
        /\ pollTime' = pollTime /\ postponed' = postponed \cup {due}
    BY <1>0, <1>6, RetryLater, AddedAgain DEF RefuseDispatch
  <2>2. pollTime + Tick <= RetryDeadline
    BY <1>0, <2>1, SchedulerAssumption DEF PollInv, Times
  <2>3. QED  BY <1>0, <2>1, <2>2 DEF UserTypes
<1>7. CASE FinishCommand \/ FlushWheel  BY <1>0, <1>7 DEF FinishCommand, FlushWheel, wheelVars
<1>8. ASSUME NEW e \in Entries, FinishEntry(e) PROVE PostponedInv'
  BY <1>0, <1>8, NothingNew DEF FinishEntry
<1>9. ASSUME NEW e \in Entries, Send(e) PROVE PostponedInv'
  BY <1>0, <1>9 DEF Send, wheelVars
<1>10. CASE Shutdown \/ TimePasses \/ SetClock \/ Calling
  BY <1>0, <1>10, Called DEF Shutdown, TimePasses, SetClock, wheelVars
<1>11. CASE UNCHANGED vars  BY <1>0, <1>11 DEF vars, wheelVars
<1>12. QED
  BY <1>1, <1>2, <1>3, <1>4, <1>5, <1>6, <1>7, <1>8, <1>9, <1>10, <1>11, NextCases

\* After the polls nothing that was due when the clock was read is left.
LEMMA SleepPolled ==
  ASSUME IInv, PollDone
  PROVE  SleepInv'
<1>1. /\ loop = "poll" /\ loop' = "peek" /\ W!Idle /\ flushing = W!NoBucket
      /\ \A o \in W!Live : o.expiration > pollTime
      /\ pollTime' = pollTime /\ deadline' = deadline /\ InWheel' = InWheel
  BY DEF PollDone, Goto, At, wheelVars, InWheel
<1>2. P!IInv /\ pollTime \in Nat  BY <1>1 DEF IInv, WheelInv, Emptying, ClockTypes
<1>3. ASSUME NEW e \in InWheel PROVE pollTime < deadline[e]
  <2>1. e \in Entries /\ bucket[e] # W!NoBucket
    BY <1>1, SchedulerAssumption DEF W!Idle, InWheel
  <2>2. PICK o \in W!Live : o.expiration \in Nat /\ o.expiration <= deadline[e]
    BY <1>1, <1>2, <2>1, OfferInTime
  <2>3. deadline[e] \in Nat  BY <1>2, <2>1 DEF P!IInv, P!TypeOK
  <2>4. QED  BY <1>1, <1>2, <2>2, <2>3
<1>4. QED  BY <1>1, <1>3 DEF SleepInv

\* The sleep ends before the deadline of everything in the wheel.
LEMMA SleepPeeked ==
  ASSUME IInv, SleepInv, Peek
  PROVE  SleepInv'
<1>1. /\ loop = "peek" /\ W!Idle /\ flushing = W!NoBucket
      /\ loop' = IF W!Live # {} /\ NextExpiration <= now THEN "drain" ELSE "arm"
      /\ wait' = IF W!Live = {} THEN Hour
                 ELSE IF NextExpiration <= now THEN 0 ELSE NextExpiration - now
      /\ UNCHANGED <<wheelVars, clockVars, pollTime>>
  BY DEF Peek, Goto, At
<1>2. now \in Nat /\ lag \in Nat /\ \A e \in Entries : deadline[e] \in Nat
  BY SchedulerAssumption DEF IInv, ClockTypes, WheelInv, P!TypeOK
<1>3. InWheel' = InWheel  BY <1>1 DEF wheelVars, InWheel
<1>4. ASSUME NEW e \in InWheel, loop' = "arm" PROVE now + wait' <= deadline[e]
  <2>1. e \in Entries /\ bucket[e] # W!NoBucket
    BY <1>1, SchedulerAssumption DEF W!Idle, InWheel
  <2>2. P!IInv  BY <1>1 DEF IInv, WheelInv, Emptying
  <2>3. PICK o \in W!Live : o.expiration \in Nat /\ o.expiration <= deadline[e]
    BY <1>1, <2>1, <2>2, OfferInTime
  <2>4. NextExpiration \in Nat /\ NextExpiration <= o.expiration
    BY <2>2, <2>3, NextIsLeast DEF P!IInv
  <2>5. wait' = NextExpiration - now  BY <1>1, <1>4, <2>3
  <2>6. QED  BY <1>2, <2>1, <2>3, <2>4, <2>5
<1>5. wait' \in Nat  BY ClockTypesKept DEF ClockTypes, Next, LoopStep
<1>6. ASSUME NEW e \in InWheel, loop' = "arm" PROVE now + wait' <= deadline[e] + lag
  <2>1. now + wait' <= deadline[e]  BY <1>4, <1>6
  <2>2. deadline[e] \in Nat  BY <1>2 DEF InWheel
  <2>3. QED  BY <1>2, <1>5, <2>1, <2>2
<1>7. QED  BY <1>1, <1>3, <1>6 DEF SleepInv, clockVars, wheelVars

\* Time passes: the loop is at work and falls behind, or the sleep gets shorter.
LEMMA SleepWaited ==
  ASSUME IInv, SleepInv, TimePasses
  PROVE  SleepInv'
<1>1. /\ now' = now + 1
      /\ wait' = IF loop = "select" /\ wait > 0 THEN wait - 1 ELSE wait
      /\ lag' = IF Asleep THEN lag ELSE lag + 1
      /\ UNCHANGED <<wheelVars, loop, pollTime>>
  BY DEF TimePasses
<1>2. /\ now \in Nat /\ lag \in Nat /\ wait \in Nat
      /\ \A e \in Entries : deadline[e] \in Nat
  BY SchedulerAssumption DEF IInv, ClockTypes, WheelInv, P!TypeOK
<1>3. InWheel' = InWheel  BY <1>1 DEF wheelVars, InWheel
<1>4. now' + wait' <= now + wait + (lag' - lag)
  <2>1. CASE Asleep
    <3>1. wait' = wait - 1 /\ lag' = lag  BY <1>1, <2>1 DEF Asleep
    <3>2. QED  BY <1>1, <1>2, <3>1
  <2>2. CASE ~Asleep
    <3>1. wait' <= wait /\ lag' = lag + 1 /\ wait' \in Int  BY <1>1, <1>2, <2>2
    <3>2. QED  BY <1>1, <1>2, <3>1
  <2>3. QED  BY <2>1, <2>2
<1>5. wait' \in Int /\ lag' \in Nat  BY <1>1, <1>2
<1>6. ASSUME NEW e \in InWheel, loop \in {"arm", "select"}
      PROVE  now' + wait' <= deadline[e] + lag'
  <2>1. now + wait <= deadline[e] + lag  BY <1>6 DEF SleepInv
  <2>2. deadline[e] \in Nat  BY <1>2 DEF InWheel
  <2>3. QED  BY <1>1, <1>2, <1>4, <1>5, <2>1, <2>2
<1>7. QED  BY <1>1, <1>3, <1>6 DEF SleepInv, wheelVars

LEMMA SleepKept ==
  ASSUME IInv, [Next]_vars, jumps' = 0
  PROVE  SleepInv'
<1> DEFINE Quiet == {"peek", "arm", "select"}
<1>0. ClockTypes /\ LoopInv /\ SleepInv  BY PollKept DEF IInv
<1>1. ASSUME loop' \notin Quiet PROVE SleepInv'  BY <1>1 DEF SleepInv
<1>2. ASSUME UNCHANGED <<wheelVars, clockVars, loopVars>> PROVE SleepInv'
  <2>1. InWheel' = InWheel  BY <1>2 DEF wheelVars, InWheel
  <2>2. QED  BY <1>0, <1>2, <2>1 DEF SleepInv, wheelVars, clockVars, loopVars
<1>3. CASE Moving
  <2>1. CASE PollDone  BY <2>1, SleepPolled
  <2>2. CASE Peek  BY <1>0, <2>2, SleepPeeked
  <2>3. CASE Arm
    <3>1. loop = "arm" /\ wait' = wait /\ pollTime' = pollTime  BY <2>3 DEF Arm, Goto, At
    <3>2. UNCHANGED <<wheelVars, clockVars>>  BY <2>3 DEF Arm
    <3>3. InWheel' = InWheel  BY <3>2 DEF wheelVars, InWheel
    <3>4. QED  BY <1>0, <3>1, <3>2, <3>3 DEF SleepInv, wheelVars, clockVars
  <2>4. CASE DrainDone \/ CheckShutdown \/ SelectShutdown \/ SelectTimer \/ FinishDrained
    BY <1>1, <2>4 DEF DrainDone, CheckShutdown, SelectShutdown, SelectTimer, FinishDrained, Goto
  <2>5. QED  BY <1>3, <2>1, <2>2, <2>3, <2>4 DEF Moving
<1>4. CASE Working
  <2>1. CASE WheelStep
    <3>1. loop' = loop  BY <2>1 DEF WheelStep, loopVars
    <3>2. ~W!Idle \/ loop = "poll"
      BY <2>1, SchedulerAssumption
         DEF WheelStep, W!AddDue, W!AddToBucket, W!AddToOverflow, W!Idle
    <3>3. QED  BY <1>0, <1>1, <3>1, <3>2 DEF LoopInv
  <2>2. CASE Poll \/ FinishPoll \/ FinishBucket
    BY <1>1, <2>2 DEF Poll, FinishPoll, FinishBucket, At, loopVars
  <2>3. QED  BY <1>4, <2>1, <2>2 DEF Working
<1>5. CASE DrainCommand \/ SelectCommand
  BY <1>1, <1>5 DEF DrainCommand, SelectCommand, HandleCommand, Goto
<1>6. CASE BeginPoll  BY <1>1, <1>6 DEF BeginPoll, Goto
<1>7. CASE Dispatch \/ RefuseDispatch
  <2>1. loop' = loop /\ ~W!Idle
    BY <1>7 DEF Dispatch, RefuseDispatch, W!Accept, W!AddAgain, W!Idle, loopVars
  <2>2. QED  BY <1>0, <1>1, <2>1 DEF LoopInv
<1>8. CASE FinishCommand \/ FlushWheel
  BY <1>1, <1>8 DEF FinishCommand, FlushWheel, Goto, At, loopVars
<1>9. ASSUME NEW e \in Entries, FinishEntry(e) PROVE SleepInv'
  BY <1>1, <1>9 DEF FinishEntry, loopVars
<1>10. ASSUME NEW e \in Entries, Send(e) PROVE SleepInv'  BY <1>2, <1>10 DEF Send
<1>11. CASE Shutdown \/ Calling  BY <1>2, <1>11, Called DEF Shutdown
<1>12. CASE TimePasses  BY <1>0, <1>12, SleepWaited
<1>13. CASE SetClock  BY <1>0, <1>13 DEF SetClock, ClockTypes
<1>14. CASE UNCHANGED vars  BY <1>2, <1>14 DEF vars
<1>15. QED
  BY <1>3, <1>4, <1>5, <1>6, <1>7, <1>8, <1>9, <1>10, <1>11, <1>12, <1>13, <1>14, NextCases

-----------------------------------------------------------------------------
(* The invariant and the properties of the specification *)

LEMMA NextInv == IInv /\ [Next]_vars => IInv'
<1> SUFFICES ASSUME IInv, [Next]_vars PROVE IInv'  OBVIOUS
<1>1. ClockTypes' /\ UserTypes' /\ LoopInv'  BY ClockTypesKept, UserTypesKept, LoopKept
<1>2. WheelInv' /\ ChannelInv'  BY WheelKept, ChannelKept
<1>3. jumps' = 0 => PollInv' /\ PostponedInv' /\ SleepInv'  BY PollKept, PostponedKept, SleepKept
<1>4. QED  BY <1>1, <1>2, <1>3 DEF IInv

\* The inductive invariant: it relates the wheel to the places of the loop, and
\* the deadlines in the channel and in the wheel to the clock, to the time of
\* the polls and to the sleep.
THEOREM Invariance == Spec => []IInv
<1>1. Init => IInv  BY InitInv
<1>2. IInv /\ [Next]_vars => IInv'  BY NextInv
<1>3. QED  BY <1>1, <1>2, PTL DEF Spec

\* Types; in particular the sleep that runScheduler arms its timer with is
\* never negative.
THEOREM TypeCorrect == Spec => []TypeOK
<1>1. ASSUME IInv PROVE TypeOK
  <2>1. \A i \in 0 .. EndTime : i \in Nat  OBVIOUS
  <2>2. QED  BY <1>1, <2>1 DEF IInv, ClockTypes, UserTypes, TypeOK
<1>2. QED  BY <1>1, Invariance, PTL

\* While the clock is not set, runScheduler goes to sleep with nothing in the
\* wheel that was due when it read the clock for its polls, and sleeps no
\* longer than to the first deadline (PeekExpiration, nextSchedulerWait, retry).
THEOREM NoOversleep == Spec => []NeverOversleeps
<1>1. ASSUME IInv PROVE NeverOversleeps
  BY <1>1 DEF IInv, SleepInv, NeverOversleeps
<1>2. QED  BY <1>1, Invariance, PTL

\* While the clock is not set, a round of polls does not offer a timeout to the
\* pool again that the pool refused in that round (retry, Poll, Flush).
THEOREM RefusalsWait == Spec => []RefusedWaits
<1>1. ASSUME IInv PROVE RefusedWaits
  <2> SUFFICES ASSUME jumps = 0, due \in postponed PROVE FALSE  BY DEF RefusedWaits
  <2>1. /\ PollInv /\ PostponedInv /\ LoopInv /\ ClockTypes
        /\ due \in Entries
    BY <1>1 DEF IInv, UserTypes
  <2>2. due # None  BY <2>1, SchedulerAssumption
  <2>3. P!IInv  BY <1>1, <2>1, <2>2 DEF IInv, WheelInv, LoopInv, Emptying, W!Idle
  <2>4. deadline[due] < currentTime[1] + Tick  BY <2>2, <2>3 DEF P!IInv, P!CallInv
  <2>5. pollTime + Tick <= deadline[due] /\ currentTime[1] <= pollTime
    BY <2>1 DEF PostponedInv, PollInv
  <2>6. currentTime[1] \in Nat /\ deadline[due] \in Nat /\ pollTime \in Nat /\ Tick \in Nat
    BY <2>1, <2>3, SchedulerAssumption DEF P!IInv, P!TypeOK, P!Levels, ClockTypes
  <2>7. QED  BY <2>4, <2>5, <2>6
<1>2. QED  BY <1>1, Invariance, PTL

\* Until finishScheduler empties it, the scheduler takes only those steps of
\* the wheel that the wheel's specification has, so that what TimingWheelProofs
\* proves for every caller holds for this one.
WheelStepsOnly == [][~Emptying' => [P!Next]_(P!vars)]_vars

THEOREM WheelUse == Spec => WheelStepsOnly
<1>1. IInv /\ [Next]_vars => [~Emptying' => [P!Next]_(P!vars)]_vars  BY WheelUsed
<1>2. QED  BY <1>1, Invariance, PTL DEF Spec, WheelStepsOnly

\* In particular, the wheel of a running scheduler keeps its buckets to their
\* slots of time, and hands nothing over a whole tick before its deadline.
WheelSound == ~Emptying => W!SlotOnTime /\ W!NeverEarly

THEOREM WheelStaysSound == Spec => []WheelSound
<1>1. ASSUME IInv PROVE WheelSound
  <2> SUFFICES ASSUME ~Emptying PROVE W!SlotOnTime /\ W!NeverEarly  BY DEF WheelSound
  <2>1. P!IInv  BY <1>1 DEF IInv, WheelInv
  <2>2. W!SlotOnTime
    BY <2>1, SameConstants DEF P!IInv, P!SlotOnTime, W!SlotOnTime, P!Stored, W!Stored
  <2>3. W!NeverEarly  BY <2>1 DEF P!IInv, P!CallInv, W!NeverEarly
  <2>4. QED  BY <2>2, <2>3
<1>2. QED  BY <1>1, Invariance, PTL
=============================================================================
