----------------------------- MODULE TimerProofs -----------------------------
(***************************************************************************)
(* Proofs about Timer, for any timeouts and calls of Shutdown, any command *)
(* capacity and quota, and any of its policies.                            *)
(***************************************************************************)
EXTENDS Timer, ChannelLemmas

-----------------------------------------------------------------------------
(* The inductive invariant *)

\* The calls of Schedule that enqueuesDone counts, the ones that hold a permit,
\* and the one that has sent its command and not yet counted it.
Enqueuing  == {t \in Timeouts : call[t] \in {"slot", "send", "publish", "return", "end", "fail"}}
Holding    == {t \in Timeouts : call[t] \in {"send", "return"}}
Publishing == {t \in Timeouts : call[t] = "publish"}

\* The timeouts that the pending counter counts, and those that keep to the quota.
Counted == {t \in Timeouts :
  \/ call[t] \in {"begin", "slot", "send", "return", "fail", "release"}
  \/ Published(t) /\ (Alive(t) \/ cancelling[t] \/ (At("settle") /\ entry = t))}
Admitted == {t \in Counted : call[t] # "release"}

Queued(t) == t \in Content(commands)

EnqueueInv == IsFiniteSet(Enqueuing) /\ enqueues = Cardinality(Enqueuing)

\* The mutex is held over two steps of a send, or of closeScheduler.
MutexInv ==
  /\ \A t \in Timeouts : call[t] \in {"publish", "return"} <=> enqueueMu = t
  /\ \A c \in Closers : closer[c] = "close" <=> enqueueMu = c

\* One call of Shutdown runs closeScheduler, once.
OnceInv ==
  /\ \A c \in Closers : closer[c] = "lock" => ~isClosed
  /\ \A c \in Closers : closer[c] \in {"lock", "close", "drain"} => once = "running"
  /\ \A c, d \in Closers : closer[c] \in {"lock", "close", "drain"}
                             /\ closer[d] \in {"lock", "close", "drain"} => c = d
  /\ once = "new" => ~isClosed
  /\ \A c \in Closers : closer[c] \in {"close", "drain"} => isClosed
  /\ shutdownC => isClosed

\* The scheduler is in its final clean-up, and past the command channel.
Finishing == \/ sched \in {"finish", "flush", "stopped"}
             \/ entry # None /\ back \in {"finish", "flush"}
Flushing  == \/ sched \in {"flush", "stopped"}
             \/ entry # None /\ back = "flush"

\* Where the scheduler is, and what that says of its hand, the batch, the
\* channel and the wheel.
SchedInv ==
  /\ entry = None <=> sched \in {"drain", "check", "poll", "select", "finish", "flush", "stopped"}
  /\ batch # {} => sched = "poll" \/ (entry # None /\ back = "poll")
  /\ Finishing => shutdownC
  /\ Flushing => commands = <<>>
  /\ sched = "stopped" => wheel = {}
  /\ \A c \in Closers : closer[c] = "returned" => sched = "stopped"

\* A timeout that was sent and is alive is in the channel, in the wheel or in
\* the scheduler's hand; nothing else is, or is there twice.
PlaceInv ==
  /\ Distinct(commands)
  /\ \A t \in Timeouts :
       /\ Queued(t) \/ t \in wheel \/ entry = t => Published(t)
       /\ Queued(t) => t \notin wheel /\ entry # t
       /\ t \in wheel => entry # t
       /\ Published(t) /\ Alive(t) => Queued(t) \/ t \in wheel \/ entry = t

\* How the state word follows the call and the place of its timeout.
StateInv ==
  /\ \A t \in Timeouts :
       /\ call[t] \in {"idle", "reserve"} => state[t] = "Unknown"
       /\ call[t] \in {"begin", "slot", "send", "return", "fail"} => state[t] = "Scheduled"
       /\ call[t] \in {"release", "refused"} => state[t] \in {"Unknown", "Scheduled"}
       /\ Published(t) => state[t] # "Unknown"
       /\ cancelling[t] => state[t] = "Cancelled" /\ call[t] = "returned"
       /\ Queued(t) \/ t \in wheel => state[t] \in {"Scheduled", "Cancelled"}
       /\ state[t] = "Dispatching" => entry = t /\ sched \in {"submit", "expire", "rejected"}
  /\ sched \in {"permit", "add", "readd", "claim", "postpone", "cancel"}
       => state[entry] \in {"Scheduled", "Cancelled"}
  /\ sched \in {"submit", "expire", "rejected"} => state[entry] = "Dispatching"
  /\ sched = "settle" => state[entry] \in {"Expired", "Rejected", "Cancelled"} /\ ~cancelling[entry]

\* The task of a timeout was handed over just when it is expired, or about to be.
HandInv ==
  \A t \in Timeouts :
    /\ handed[t] = IF state[t] = "Expired" \/ (entry = t /\ sched = "expire") THEN 1 ELSE 0
    /\ ran[t] <= handed[t]

\* The pending counter is exact, and keeps what it admits to the quota.
PendingInv ==
  /\ IsFiniteSet(Counted) /\ pending = Cardinality(Counted)
  /\ Cardinality(Admitted) <= MaxPending

IInv ==
  /\ TypeOK /\ EnqueueInv /\ MutexInv /\ OnceInv /\ PermitsConserved
  /\ SchedInv /\ PlaceInv /\ StateInv /\ HandInv /\ PendingInv

-----------------------------------------------------------------------------
(* The steps of Next by who takes them, and what each leaves alone *)

Calling(t) == Schedule(t) \/ ScheduleStep(t) \/ ContextDone(t)
Closing(c) == Shutdown(c) \/ ShutdownStep(c) \/ GiveUp(c)

LEMMA NextCases ==
  ASSUME Next
  PROVE  \/ SchedulerStep
         \/ \E t \in Timeouts : Calling(t) \/ Cancel(t) \/ CancelPending(t) \/ Ripen(t) \/ Run(t)
         \/ \E c \in Closers : Closing(c)
         \/ PoolShutdown
         \/ UNCHANGED vars
BY DEF Next, Calling, Closing, Terminated

LEMMA CallingKeeps ==
  ASSUME TypeOK, NEW t \in Timeouts, Calling(t)
  PROVE  /\ UNCHANGED <<closeVars, wheelVars, poolVars, schedVars, cancelling>>
         /\ \A u \in Timeouts : u # t => call'[u] = call[u] /\ state'[u] = state[u]
<1>1. UNCHANGED <<closeVars, wheelVars, poolVars, schedVars, cancelling>>
  BY DEF Calling, Schedule, ScheduleStep, Reserve, Release, BeginEnqueue, TakeSlot, NoSlot,
         ContextDone, Send, PublishDepth, ReturnSlot, EndEnqueue
<1>2. \A u \in Timeouts : u # t => call'[u] = call[u]
  BY DEF Calling, Schedule, ScheduleStep, Reserve, Release, BeginEnqueue, TakeSlot, NoSlot,
         ContextDone, Send, PublishDepth, ReturnSlot, EndEnqueue, Goto, TypeOK
<1>3. \A u \in Timeouts : u # t => state'[u] = state[u]
  BY DEF Calling, Schedule, ScheduleStep, Reserve, Release, BeginEnqueue, TakeSlot, NoSlot,
         ContextDone, Send, PublishDepth, ReturnSlot, EndEnqueue, TypeOK
<1>4. QED  BY <1>1, <1>2, <1>3

LEMMA ClosingKeeps ==
  ASSUME TypeOK, NEW c \in Closers, Closing(c)
  PROVE  /\ UNCHANGED <<call, enqueues, wheelVars, poolVars, schedVars, chanVars, cancelling,
                        pending, state>>
         /\ \A d \in Closers : d # c => closer'[d] = closer[d]
<1>1. UNCHANGED <<call, enqueues, wheelVars, poolVars, schedVars, chanVars, cancelling, pending,
                  state>>
  BY DEF Closing, Shutdown, ShutdownStep, EnterOnce, MarkClosed, CloseSignal, EnqueuesDone,
         AwaitScheduler, GiveUp, callVars
<1>2. \A d \in Closers : d # c => closer'[d] = closer[d]
  BY DEF Closing, Shutdown, ShutdownStep, EnterOnce, MarkClosed, CloseSignal, EnqueuesDone,
         AwaitScheduler, GiveUp, Step, TypeOK
<1>3. QED  BY <1>1, <1>2

LEMMA SchedulerKeeps ==
  ASSUME SchedulerStep
  PROVE  UNCHANGED <<callVars, closeVars, cancelling, ran, poolClosed>>
BY DEF SchedulerStep, DrainCommand, DrainDone, ReleaseSlot, AddDue, AddStored, SkipCancelled,
       CheckShutdown, BeginPoll, PollDone, SelectShutdown, SelectCommand, SelectTimer, Claim,
       ClaimLost, SubmitAccepted, SubmitRejected, Expire, RejectEntry, Restore, Postpone, Settle,
       FinishCommand, FinishDrained, CancelEntry, FinishDone, FlushEntry, FinishEntry, Receive,
       Move, poolVars

\* What only some actions of the scheduler write: the tasks it hands over, and
\* the states it gives the entry in hand.
LEMMA SchedulerKeepsPool ==
  ASSUME SchedulerStep, ~SubmitAccepted, ~SubmitRejected
  PROVE  UNCHANGED <<handed, rejects>>
BY DEF SchedulerStep, DrainCommand, DrainDone, ReleaseSlot, AddDue, AddStored, SkipCancelled,
       CheckShutdown, BeginPoll, PollDone, SelectShutdown, SelectCommand, SelectTimer, Claim,
       ClaimLost, Expire, RejectEntry, Restore, Postpone, Settle, FinishCommand, FinishDrained,
       CancelEntry, FinishDone, FlushEntry, FinishEntry, Receive, Move, poolVars

LEMMA SchedulerKeepsState ==
  ASSUME SchedulerStep, ~Claim, ~Expire, ~RejectEntry, ~Restore, ~CancelEntry
  PROVE  UNCHANGED state
BY DEF SchedulerStep, DrainCommand, DrainDone, ReleaseSlot, AddDue, AddStored, SkipCancelled,
       CheckShutdown, BeginPoll, PollDone, SelectShutdown, SelectCommand, SelectTimer, ClaimLost,
       SubmitAccepted, SubmitRejected, Postpone, Settle, FinishCommand, FinishDrained, FinishDone,
       FlushEntry, FinishEntry, Receive, Move

LEMMA SchedulerKeepsWheel ==
  ASSUME SchedulerStep, ~AddStored, ~BeginPoll, ~Postpone,
         \A t \in Timeouts : ~FlushEntry(t) /\ ~FinishEntry(t)
  PROVE  UNCHANGED <<wheel, ripe, batch>>
BY DEF SchedulerStep, DrainCommand, DrainDone, ReleaseSlot, AddDue, SkipCancelled, CheckShutdown,
       PollDone, SelectShutdown, SelectCommand, SelectTimer, Claim, ClaimLost, SubmitAccepted,
       SubmitRejected, Expire, RejectEntry, Restore, Settle, FinishCommand, FinishDrained,
       CancelEntry, FinishDone, Receive, Move, wheelVars

-----------------------------------------------------------------------------
(* Init *)

LEMMA InitInv == Init => IInv
<1> SUFFICES ASSUME Init PROVE IInv  OBVIOUS
<1>0. /\ commands \in Seq(Timeouts) /\ Len(commands) = 0
      /\ Content(commands) = {} /\ Distinct(commands)
  <2>1. commands = <<>> /\ commands \in Seq(Timeouts)  BY DEF Init
  <2>2. QED  BY <2>1, EmptyContent
<1>1. TypeOK
  <2>1. cancelling \in [Timeouts -> BOOLEAN]  BY DEF Init
  <2>2. /\ enqueues \in Nat /\ slots \in Nat /\ pending \in Nat /\ depth \in Int
        /\ rejects \in 0 .. MaxRejects
    BY TimerAssumption DEF Init
  <2>3. /\ call \in [Timeouts -> CallPoints] /\ closer \in [Closers -> CloserPoints]
        /\ state \in [Timeouts -> EntryStates] /\ sched \in SchedPoints
    BY DEF Init, CallPoints, CloserPoints, EntryStates, SchedPoints
  <2>4. QED  BY <1>0, <2>1, <2>2, <2>3 DEF Init, TypeOK
<1>2. /\ Enqueuing = {} /\ Counted = {} /\ Admitted = {} /\ Holding = {} /\ Publishing = {}
      /\ Cardinality({}) = 0 /\ IsFiniteSet({})
  BY FS_EmptySet DEF Init, Enqueuing, Counted, Admitted, Published, Holding, Publishing
<1>3. EnqueueInv /\ PendingInv
  BY <1>2, TimerAssumption DEF Init, EnqueueInv, PendingInv
<1>4. PermitsConserved
  <2>1. slots = CommandCapacity /\ depth = 0 /\ ~At("permit")  BY DEF Init, At
  <2>2. Cardinality(Holding) = 0 /\ Cardinality(Publishing) = 0  BY <1>2
  <2>3. QED
    BY <1>0, <2>1, <2>2, TimerAssumption DEF PermitsConserved, Holding, Publishing
<1>5. MutexInv /\ OnceInv  BY TimerAssumption DEF Init, MutexInv, OnceInv
<1>6. SchedInv  BY DEF Init, SchedInv, Finishing, Flushing
<1>7. PlaceInv  BY <1>0, TimerAssumption DEF Init, PlaceInv, Queued, Published
<1>8. StateInv  BY <1>0, TimerAssumption DEF Init, StateInv, Queued, Published
<1>9. HandInv  BY DEF Init, HandInv
<1>10. QED  BY <1>1, <1>3, <1>4, <1>5, <1>6, <1>7, <1>8, <1>9 DEF IInv

-----------------------------------------------------------------------------
(* Every step preserves the invariant: one lemma for each of its parts. *)

\* A counter that is lowered counts the one that lowers it.
LEMMA EnqueuesPositive ==
  ASSUME EnqueueInv, NEW t \in Enqueuing
  PROVE  enqueues \in Nat \ {0}
BY Loses DEF EnqueueInv

LEMMA PendingPositive ==
  ASSUME PendingInv, NEW t \in Counted
  PROVE  pending \in Nat \ {0}
BY Loses DEF PendingInv

\* The scheduler has an entry in hand wherever it deals with one.
LEMMA InHand ==
  ASSUME TypeOK, SchedInv,
         sched \notin {"drain", "check", "poll", "select", "finish", "flush", "stopped"}
  PROVE  entry \in Timeouts
BY DEF TypeOK, SchedInv

LEMMA TypeCalling ==
  ASSUME TypeOK, EnqueueInv, PendingInv, NEW t \in Timeouts, Calling(t)
  PROVE  TypeOK'
<1> USE DEF TypeOK, Goto, callVars, chanVars
<1>0. UNCHANGED <<closeVars, wheelVars, poolVars, schedVars, cancelling>>  BY CallingKeeps
<1>1. call' \in [Timeouts -> CallPoints]
  BY DEF Calling, Schedule, ScheduleStep, Reserve, Release, BeginEnqueue, TakeSlot, NoSlot,
         ContextDone, Send, PublishDepth, ReturnSlot, EndEnqueue, CallPoints
<1>2. state' \in [Timeouts -> EntryStates]
  BY DEF Calling, Schedule, ScheduleStep, Reserve, Release, BeginEnqueue, TakeSlot, NoSlot,
         ContextDone, Send, PublishDepth, ReturnSlot, EndEnqueue, EntryStates
<1>3. enqueueMu' \in Timeouts \cup Closers \cup {None}
  BY DEF Calling, Schedule, ScheduleStep, Reserve, Release, BeginEnqueue, TakeSlot, NoSlot,
         ContextDone, Send, PublishDepth, ReturnSlot, EndEnqueue
<1>4. commands' \in Seq(Timeouts)
  <2>1. Append(commands, t) \in Seq(Timeouts)  BY AppendFacts
  <2>2. QED
    BY <2>1
       DEF Calling, Schedule, ScheduleStep, Reserve, Release, BeginEnqueue, TakeSlot, NoSlot,
         ContextDone, Send, PublishDepth, ReturnSlot, EndEnqueue
<1>5. slots' \in Nat /\ depth' \in Int
  BY DEF Calling, Schedule, ScheduleStep, Reserve, Release, BeginEnqueue, TakeSlot, NoSlot,
         ContextDone, Send, PublishDepth, ReturnSlot, EndEnqueue
<1>6. enqueues' \in Nat
  <2>1. CASE EndEnqueue(t)
    <3>1. t \in Enqueuing  BY <2>1 DEF EndEnqueue, Enqueuing
    <3>2. QED  BY <2>1, <3>1, EnqueuesPositive DEF EndEnqueue
  <2>2. QED
    BY <2>1 DEF Calling, Schedule, ScheduleStep, Reserve, Release, BeginEnqueue, TakeSlot, NoSlot,
                ContextDone, Send, PublishDepth, ReturnSlot
<1>7. pending' \in Nat
  <2>1. CASE Release(t)
    <3>1. t \in Counted  BY <2>1 DEF Release, Counted
    <3>2. QED  BY <2>1, <3>1, PendingPositive DEF Release
  <2>2. QED
    BY <2>1 DEF Calling, Schedule, ScheduleStep, Reserve, BeginEnqueue, TakeSlot, NoSlot,
                ContextDone, Send, PublishDepth, ReturnSlot, EndEnqueue
<1>8. QED
  BY <1>0, <1>1, <1>2, <1>3, <1>4, <1>5, <1>6, <1>7 DEF closeVars, wheelVars, poolVars, schedVars

LEMMA TypeClosing ==
  ASSUME TypeOK, NEW c \in Closers, Closing(c)
  PROVE  TypeOK'
<1> USE DEF TypeOK, closeVars
<1>0. UNCHANGED <<call, enqueues, wheelVars, poolVars, schedVars, chanVars, cancelling, pending,
                  state>>
  BY ClosingKeeps
<1>1. closer' \in [Closers -> CloserPoints]
  BY DEF Closing, Shutdown, ShutdownStep, EnterOnce, MarkClosed, CloseSignal, EnqueuesDone,
         AwaitScheduler, GiveUp, Step, CloserPoints
<1>2. /\ once' \in {"new", "running", "done"} /\ isClosed' \in BOOLEAN /\ shutdownC' \in BOOLEAN
      /\ enqueueMu' \in Timeouts \cup Closers \cup {None}
  BY DEF Closing, Shutdown, ShutdownStep, EnterOnce, MarkClosed, CloseSignal, EnqueuesDone,
         AwaitScheduler, GiveUp, callVars
<1>3. QED  BY <1>0, <1>1, <1>2 DEF wheelVars, poolVars, schedVars, chanVars

LEMMA TypeScheduler ==
  ASSUME TypeOK, PendingInv, SchedInv, PlaceInv, SchedulerStep
  PROVE  TypeOK'
<1> USE DEF TypeOK, wheelVars, poolVars, schedVars, chanVars, At, Take, Return
<1>0. UNCHANGED <<callVars, closeVars, cancelling, ran, poolClosed>>  BY SchedulerKeeps
<1>1. sched' \in SchedPoints /\ back' \in {"drain", "poll", "finish", "flush"}
  BY DEF SchedulerStep, DrainCommand, DrainDone, ReleaseSlot, AddDue, AddStored, SkipCancelled,
         CheckShutdown, BeginPoll, PollDone, SelectShutdown, SelectCommand, SelectTimer, Claim,
         ClaimLost, SubmitAccepted, SubmitRejected, Expire, RejectEntry, Restore, Postpone,
         Settle, FinishCommand, FinishDrained, CancelEntry, FinishDone, FlushEntry, FinishEntry,
         Receive, Move, SchedPoints
<1>2. /\ commands' \in Seq(Timeouts) /\ slots' \in Nat /\ depth' \in Int
      /\ entry' \in Timeouts \cup {None}
  <2>1. CASE DrainCommand \/ SelectCommand \/ FinishCommand
    <3>1. commands # <<>>  BY <2>1 DEF DrainCommand, SelectCommand, FinishCommand, Receive
    <3>2. Tail(commands) \in Seq(Timeouts) /\ Head(commands) \in Timeouts
      BY <3>1, TailFacts
    <3>3. /\ commands' = Tail(commands) /\ entry' = Head(commands)
          /\ slots' = slots /\ depth' = depth - 1
      BY <2>1 DEF DrainCommand, SelectCommand, FinishCommand, Receive
    <3>4. QED  BY <3>2, <3>3
  <2>2. QED
    BY <2>1
       DEF SchedulerStep, DrainDone, ReleaseSlot, AddDue, AddStored, SkipCancelled, CheckShutdown,
         BeginPoll, PollDone, SelectShutdown, SelectTimer, Claim, ClaimLost, SubmitAccepted,
         SubmitRejected, Expire, RejectEntry, Restore, Postpone, Settle, FinishDrained,
         CancelEntry, FinishDone, FlushEntry, FinishEntry, Move
<1>3. state' \in [Timeouts -> EntryStates]
  <2>1. CASE Claim \/ Expire \/ RejectEntry \/ Restore \/ CancelEntry
    <3>1. state' = state
          \/ \E s \in EntryStates : state' = [state EXCEPT ![entry] = s]
      BY <2>1 DEF Claim, Expire, RejectEntry, Restore, CancelEntry, EntryStates
    <3>2. QED  BY <3>1
  <2>2. CASE ~(Claim \/ Expire \/ RejectEntry \/ Restore \/ CancelEntry)
    BY <2>2, SchedulerKeepsState
  <2>3. QED  BY <2>1, <2>2
<1>4. wheel' \subseteq Timeouts /\ ripe' \subseteq Timeouts /\ batch' \subseteq wheel'
  <2>1. ASSUME NEW t \in Timeouts, FinishEntry(t)
        PROVE  wheel' \subseteq Timeouts /\ ripe' \subseteq Timeouts /\ batch' \subseteq wheel'
    BY <2>1 DEF FinishEntry, SchedInv
  <2>2. ASSUME NEW t \in Timeouts, FlushEntry(t)
        PROVE  wheel' \subseteq Timeouts /\ ripe' \subseteq Timeouts /\ batch' \subseteq wheel'
    BY <2>2 DEF FlushEntry
  <2>3. CASE AddStored  BY <2>3, InHand DEF AddStored
  <2>4. CASE BeginPoll  BY <2>4 DEF BeginPoll
  <2>5. CASE Postpone  BY <2>5 DEF Postpone
  <2>6. CASE /\ ~AddStored /\ ~BeginPoll /\ ~Postpone
             /\ \A t \in Timeouts : ~FlushEntry(t) /\ ~FinishEntry(t)
    BY <2>6, SchedulerKeepsWheel
  <2>7. QED  BY <2>1, <2>2, <2>3, <2>4, <2>5, <2>6
<1>5. handed' \in [Timeouts -> Nat] /\ rejects' \in 0 .. MaxRejects
  <2>1. CASE SubmitAccepted  BY <2>1, InHand DEF SubmitAccepted
  <2>2. CASE SubmitRejected  BY <2>2, TimerAssumption DEF SubmitRejected
  <2>3. CASE ~SubmitAccepted /\ ~SubmitRejected  BY <2>3, SchedulerKeepsPool
  <2>4. QED  BY <2>1, <2>2, <2>3
<1>6. pending' \in Nat
  <2>1. CASE Settle
    <3>1. entry \in Counted  BY <2>1, InHand DEF Settle, Counted, PlaceInv
    <3>2. QED  BY <2>1, <3>1, PendingPositive DEF Settle
  <2>2. QED
    BY <2>1
       DEF SchedulerStep, DrainCommand, DrainDone, ReleaseSlot, AddDue, AddStored, SkipCancelled,
         CheckShutdown, BeginPoll, PollDone, SelectShutdown, SelectCommand, SelectTimer, Claim,
         ClaimLost, SubmitAccepted, SubmitRejected, Expire, RejectEntry, Restore, Postpone,
         FinishCommand, FinishDrained, CancelEntry, FinishDone, FlushEntry, FinishEntry, Receive,
         Move
<1>7. QED  BY <1>0, <1>1, <1>2, <1>3, <1>4, <1>5, <1>6 DEF callVars, closeVars

LEMMA TypeStep ==
  ASSUME TypeOK, EnqueueInv, PendingInv, SchedInv, PlaceInv, StateInv, Next
  PROVE  TypeOK'
<1> USE DEF TypeOK, callVars, closeVars, wheelVars, poolVars, schedVars, chanVars
<1>1. ASSUME NEW t \in Timeouts, Cancel(t) PROVE TypeOK'
  <2>1. cancelling' \in [Timeouts -> BOOLEAN] /\ state' \in [Timeouts -> EntryStates]
    BY <1>1 DEF Cancel, EntryStates
  <2>2. QED  BY <1>1, <2>1 DEF Cancel
<1>2. ASSUME NEW t \in Timeouts, CancelPending(t) PROVE TypeOK'
  <2>1. cancelling' \in [Timeouts -> BOOLEAN]  BY <1>2 DEF CancelPending
  <2>2. pending \in Nat \ {0}
    <3>1. t \in Counted  BY <1>2 DEF CancelPending, Counted, StateInv, Published
    <3>2. QED  BY <3>1, PendingPositive
  <2>3. QED  BY <1>2, <2>1, <2>2 DEF CancelPending
<1>3. ASSUME NEW t \in Timeouts, Ripen(t) PROVE TypeOK'
  BY <1>3 DEF Ripen
<1>4. ASSUME NEW t \in Timeouts, Run(t) PROVE TypeOK'
  BY <1>4 DEF Run
<1>5. CASE PoolShutdown  BY <1>5 DEF PoolShutdown
<1>6. CASE UNCHANGED vars  BY <1>6 DEF vars
<1>7. QED
  BY <1>1, <1>2, <1>3, <1>4, <1>5, <1>6, NextCases, TypeCalling, TypeClosing, TypeScheduler

\* Who changes the calls of Schedule, and who those of Shutdown.
LEMMA CallsKept ==
  ASSUME TypeOK, Next
  PROVE  (\E t \in Timeouts : Calling(t)) \/ UNCHANGED <<call, enqueues>>
<1>1. ASSUME NEW c \in Closers, Closing(c) PROVE UNCHANGED <<call, enqueues>>
  BY <1>1, ClosingKeeps
<1>2. CASE SchedulerStep  BY <1>2, SchedulerKeeps DEF callVars
<1>3. QED
  BY <1>1, <1>2, NextCases DEF Cancel, CancelPending, Ripen, Run, PoolShutdown, vars, callVars

LEMMA ClosersKept ==
  ASSUME TypeOK, Next
  PROVE  (\E c \in Closers : Closing(c)) \/ UNCHANGED closeVars
<1>1. ASSUME NEW t \in Timeouts, Calling(t) PROVE UNCHANGED closeVars
  BY <1>1, CallingKeeps
<1>2. CASE SchedulerStep  BY <1>2, SchedulerKeeps
<1>3. QED
  BY <1>1, <1>2, NextCases DEF Cancel, CancelPending, Ripen, Run, PoolShutdown, vars

\* enqueuesDone counts the calls between beginEnqueue and endEnqueue.
LEMMA EnqueueStep ==
  ASSUME TypeOK, EnqueueInv, Next
  PROVE  EnqueueInv'
<1> USE DEF EnqueueInv
<1>1. ASSUME NEW t \in Timeouts, BeginEnqueue(t) PROVE EnqueueInv'
  <2>1. CASE isClosed
    <3>1. Enqueuing' = Enqueuing  BY <1>1, <2>1 DEF BeginEnqueue, Goto, Enqueuing, TypeOK
    <3>2. QED  BY <1>1, <2>1, <3>1 DEF BeginEnqueue
  <2>2. CASE ~isClosed
    <3>1. Enqueuing' = Enqueuing \cup {t} /\ t \notin Enqueuing
      BY <1>1, <2>2 DEF BeginEnqueue, Goto, Enqueuing, TypeOK
    <3>2. QED  BY <1>1, <2>2, <3>1, Gains DEF BeginEnqueue
  <2>3. QED  BY <2>1, <2>2
<1>2. ASSUME NEW t \in Timeouts, EndEnqueue(t) PROVE EnqueueInv'
  <2>1. Enqueuing' = Enqueuing \ {t} /\ t \in Enqueuing
    BY <1>2 DEF EndEnqueue, Goto, Enqueuing, TypeOK
  <2>2. QED  BY <1>2, <2>1, Loses DEF EndEnqueue
<1>3. ASSUME NEW t \in Timeouts,
             \/ Schedule(t) \/ Reserve(t) \/ Release(t) \/ TakeSlot(t) \/ NoSlot(t)
             \/ ContextDone(t) \/ Send(t) \/ PublishDepth(t) \/ ReturnSlot(t)
      PROVE  EnqueueInv'
  <2>1. Enqueuing' = Enqueuing
    BY <1>3 DEF Schedule, Reserve, Release, TakeSlot, NoSlot, ContextDone, Send, PublishDepth,
                ReturnSlot, Goto, Enqueuing, TypeOK
  <2>2. enqueues' = enqueues
    BY <1>3 DEF Schedule, Reserve, Release, TakeSlot, NoSlot, ContextDone, Send, PublishDepth,
                ReturnSlot
  <2>3. QED  BY <2>1, <2>2
<1>4. CASE UNCHANGED <<call, enqueues>>  BY <1>4 DEF Enqueuing
<1>5. QED  BY <1>1, <1>2, <1>3, <1>4, CallsKept DEF Calling, ScheduleStep

\* The mutex is held by the one call that is between its lock and unlock.
LEMMA MutexStep ==
  ASSUME TypeOK, MutexInv, Next
  PROVE  MutexInv'
<1>1. ASSUME NEW t \in Timeouts, Calling(t) PROVE MutexInv'
  <2>1. UNCHANGED closer /\ \A u \in Timeouts : u # t => call'[u] = call[u]
    BY <1>1, CallingKeeps DEF closeVars
  <2>2. \/ call[t] \notin {"publish", "return"} /\ call'[t] \notin {"publish", "return"}
           /\ enqueueMu' = enqueueMu
        \/ enqueueMu = None /\ enqueueMu' = t /\ call'[t] \in {"publish", "return"}
        \/ enqueueMu' = None /\ call[t] \in {"publish", "return"}
           /\ call'[t] \notin {"publish", "return"}
    BY <1>1 DEF Calling, Schedule, ScheduleStep, Reserve, Release, BeginEnqueue, TakeSlot, NoSlot,
         ContextDone, Send, PublishDepth, ReturnSlot, EndEnqueue, Goto, TypeOK
  <2>3. QED  BY <2>1, <2>2, TimerAssumption DEF MutexInv
<1>2. ASSUME NEW c \in Closers, Closing(c) PROVE MutexInv'
  <2>1. UNCHANGED call /\ \A d \in Closers : d # c => closer'[d] = closer[d]
    BY <1>2, ClosingKeeps
  <2>2. \/ closer[c] # "close" /\ closer'[c] # "close" /\ enqueueMu' = enqueueMu
        \/ enqueueMu = None /\ enqueueMu' = c /\ closer'[c] = "close"
        \/ enqueueMu' = None /\ closer[c] = "close" /\ closer'[c] # "close"
    BY <1>2 DEF Closing, Shutdown, ShutdownStep, EnterOnce, MarkClosed, CloseSignal, EnqueuesDone,
         AwaitScheduler, GiveUp, Step, TypeOK, callVars
  <2>3. QED  BY <2>1, <2>2, TimerAssumption DEF MutexInv
<1>3. ASSUME UNCHANGED <<call, closer, enqueueMu>> PROVE MutexInv'
  BY <1>3 DEF MutexInv
<1>4. CASE SchedulerStep  BY <1>3, <1>4, SchedulerKeeps DEF callVars, closeVars
<1>5. QED
  BY <1>1, <1>2, <1>3, <1>4, NextCases DEF Cancel, CancelPending, Ripen, Run, PoolShutdown, vars,
     callVars, closeVars

\* closeOnce lets one call run closeScheduler.
LEMMA OnceStep ==
  ASSUME TypeOK, OnceInv, Next
  PROVE  OnceInv'
<1>1. ASSUME NEW c \in Closers, Closing(c) PROVE OnceInv'
  <2>1. \A d \in Closers : d # c => closer'[d] = closer[d]
    BY <1>1, ClosingKeeps
  <2>2. CASE EnterOnce(c)
    BY <2>1, <2>2 DEF EnterOnce, Step, TypeOK, OnceInv
  <2>3. CASE MarkClosed(c)
    BY <2>1, <2>3 DEF MarkClosed, Step, TypeOK, OnceInv
  <2>4. CASE CloseSignal(c)
    BY <2>1, <2>4 DEF CloseSignal, Step, TypeOK, OnceInv
  <2>5. CASE EnqueuesDone(c)
    BY <2>1, <2>5 DEF EnqueuesDone, Step, TypeOK, OnceInv
  <2>6. CASE Shutdown(c) \/ AwaitScheduler(c) \/ GiveUp(c)
    BY <2>1, <2>6 DEF Shutdown, AwaitScheduler, GiveUp, Step, TypeOK, OnceInv
  <2>7. QED  BY <1>1, <2>2, <2>3, <2>4, <2>5, <2>6 DEF Closing, ShutdownStep
<1>2. CASE UNCHANGED closeVars  BY <1>2 DEF OnceInv, closeVars
<1>3. QED  BY <1>1, <1>2, ClosersKept

\* The calls that hold a permit or have yet to count a command are finitely many.
LEMMA FiniteCalls ==
  ASSUME EnqueueInv
  PROVE  /\ IsFiniteSet(Holding) /\ IsFiniteSet(Publishing)
         /\ Cardinality(Holding) \in Nat /\ Cardinality(Publishing) \in Nat
<1>1. Holding \subseteq Enqueuing /\ Publishing \subseteq Enqueuing
  BY DEF Holding, Publishing, Enqueuing
<1>2. QED  BY <1>1, FS_Subset, FS_CardinalityType DEF EnqueueInv

\* Permits and the depth counter.
Permits == slots + Len(commands) + Cardinality(Holding) + (IF At("permit") THEN 1 ELSE 0)
Depth   == Len(commands) - Cardinality(Publishing)

LEMMA PermitStep ==
  ASSUME TypeOK, EnqueueInv, SchedInv, PermitsConserved, Next
  PROVE  PermitsConserved'
<1> DEFINE Exact == Permits = CommandCapacity /\ depth = Depth
<1>1. (PermitsConserved <=> Exact) /\ (PermitsConserved' <=> Exact')
  BY DEF PermitsConserved, Permits, Depth, Holding, Publishing
<1>2. /\ IsFiniteSet(Holding) /\ IsFiniteSet(Publishing)
      /\ Cardinality(Holding) \in Nat /\ Cardinality(Publishing) \in Nat
  BY FiniteCalls
<1>3. Len(commands) \in Nat /\ slots \in Nat /\ depth \in Int /\ CommandCapacity \in Nat
  BY TimerAssumption DEF TypeOK
<1>4. /\ slots + Len(commands) + Cardinality(Holding) + (IF At("permit") THEN 1 ELSE 0)
           = CommandCapacity
      /\ depth = Len(commands) - Cardinality(Publishing)
  BY <1>1 DEF Permits, Depth
<1> HIDE DEF Exact
<1>5. ASSUME NEW t \in Timeouts, Calling(t) PROVE Exact'
  <2>0. At("permit")' <=> At("permit")  BY <1>5, CallingKeeps DEF schedVars, At
  <2>1. CASE TakeSlot(t)
    <3>1. Holding' = Holding \cup {t} /\ t \notin Holding /\ Publishing' = Publishing
      BY <2>1 DEF TakeSlot, Goto, Holding, Publishing, TypeOK
    <3>2. Cardinality(Holding') = Cardinality(Holding) + 1  BY <1>2, <3>1, Gains
    <3>3. slots' = slots - 1 /\ commands' = commands /\ depth' = depth
      BY <2>1 DEF TakeSlot
    <3>4. QED  BY <1>2, <1>3, <1>4, <2>0, <3>1, <3>2, <3>3 DEF Exact, Permits, Depth
  <2>2. CASE Send(t) /\ call'[t] = "return"
    <3>1. Holding' = Holding /\ Publishing' = Publishing
      BY <2>2 DEF Send, Goto, Holding, Publishing, TypeOK
    <3>2. slots' = slots /\ commands' = commands /\ depth' = depth
      BY <2>2 DEF Send, Goto, TypeOK
    <3>3. QED  BY <1>2, <1>3, <1>4, <2>0, <3>1, <3>2 DEF Exact, Permits, Depth
  <2>3. CASE Send(t) /\ call'[t] # "return"
    <3>1. /\ Holding' = Holding \ {t} /\ t \in Holding
          /\ Publishing' = Publishing \cup {t} /\ t \notin Publishing
      BY <2>3 DEF Send, Goto, Holding, Publishing, TypeOK
    <3>2. /\ Cardinality(Holding') = Cardinality(Holding) - 1
          /\ Cardinality(Publishing') = Cardinality(Publishing) + 1
      BY <1>2, <3>1, Gains, Loses
    <3>3. slots' = slots /\ depth' = depth  BY <2>3 DEF Send
    <3>4. commands' = Append(commands, t)  BY <2>3 DEF Send, Goto, TypeOK
    <3>5. Len(commands') = Len(commands) + 1  BY <3>4, AppendFacts DEF TypeOK
    <3>6. depth' = Len(commands') - Cardinality(Publishing')
      BY <1>2, <1>3, <1>4, <3>2, <3>3, <3>5
    <3>7. slots' + Len(commands') + Cardinality(Holding')
            = slots + Len(commands) + Cardinality(Holding)
      BY <1>2, <1>3, <3>2, <3>3, <3>5
    <3>8. QED  BY <1>3, <1>4, <2>0, <3>6, <3>7 DEF Exact, Permits, Depth
  <2>4. CASE PublishDepth(t)
    <3>1. Publishing' = Publishing \ {t} /\ t \in Publishing /\ Holding' = Holding
      BY <2>4 DEF PublishDepth, Goto, Holding, Publishing, TypeOK
    <3>2. Cardinality(Publishing') = Cardinality(Publishing) - 1  BY <1>2, <3>1, Loses
    <3>3. slots' = slots /\ commands' = commands /\ depth' = depth + 1
      BY <2>4 DEF PublishDepth
    <3>4. QED  BY <1>2, <1>3, <1>4, <2>0, <3>1, <3>2, <3>3 DEF Exact, Permits, Depth
  <2>5. CASE ReturnSlot(t)
    <3>1. Holding' = Holding \ {t} /\ t \in Holding /\ Publishing' = Publishing
      BY <2>5 DEF ReturnSlot, Goto, Holding, Publishing, TypeOK
    <3>2. Cardinality(Holding') = Cardinality(Holding) - 1  BY <1>2, <3>1, Loses
    <3>3. slots' = slots + 1 /\ commands' = commands /\ depth' = depth
      BY <2>5 DEF ReturnSlot
    <3>4. QED  BY <1>2, <1>3, <1>4, <2>0, <3>1, <3>2, <3>3 DEF Exact, Permits, Depth
  <2>6. CASE \/ Schedule(t) \/ Reserve(t) \/ Release(t) \/ BeginEnqueue(t) \/ NoSlot(t)
             \/ ContextDone(t) \/ EndEnqueue(t)
    <3>1. Holding' = Holding /\ Publishing' = Publishing
      BY <2>6 DEF Schedule, Reserve, Release, BeginEnqueue, NoSlot, ContextDone, EndEnqueue,
                  Goto, Holding, Publishing, TypeOK
    <3>2. UNCHANGED chanVars
      BY <2>6 DEF Schedule, Reserve, Release, BeginEnqueue, NoSlot, ContextDone, EndEnqueue
    <3>3. QED  BY <1>2, <1>3, <1>4, <2>0, <3>1, <3>2 DEF Exact, Permits, Depth, chanVars
  <2>7. QED  BY <1>5, <2>1, <2>2, <2>3, <2>4, <2>5, <2>6 DEF Calling, ScheduleStep
<1>6. CASE SchedulerStep
  <2>0. Holding' = Holding /\ Publishing' = Publishing
    BY <1>6, SchedulerKeeps DEF callVars, Holding, Publishing
  <2>1. CASE DrainCommand \/ SelectCommand \/ FinishCommand
    <3>1. /\ ~At("permit") /\ At("permit")' /\ slots' = slots /\ commands' = Tail(commands)
          /\ depth' = depth - 1 /\ commands # <<>>
      BY <2>1 DEF DrainCommand, SelectCommand, FinishCommand, Receive, Take, At
    <3>2. Len(commands') = Len(commands) - 1  BY <3>1, TailFacts DEF TypeOK
    <3>3. QED  BY <1>1, <1>2, <1>3, <1>4, <2>0, <3>1, <3>2 DEF Exact, Permits, Depth
  <2>2. CASE ReleaseSlot
    <3>1. /\ At("permit") /\ ~At("permit")' /\ slots' = slots + 1 /\ commands' = commands
          /\ depth' = depth
      BY <2>2 DEF ReleaseSlot, At
    <3>2. QED  BY <1>1, <1>2, <1>3, <1>4, <2>0, <3>1 DEF Exact, Permits, Depth
  <2>3. CASE ~(DrainCommand \/ SelectCommand \/ FinishCommand \/ ReleaseSlot)
    <3>1. UNCHANGED chanVars
      BY <1>6, <2>3
         DEF SchedulerStep, DrainDone, AddDue, AddStored, SkipCancelled, CheckShutdown, BeginPoll,
             PollDone, SelectShutdown, SelectTimer, Claim, ClaimLost, SubmitAccepted,
             SubmitRejected, Expire, RejectEntry, Restore, Postpone, Settle, FinishDrained,
             CancelEntry, FinishDone, FlushEntry, FinishEntry, Move
    <3>2. ~At("permit") /\ ~At("permit")'
      BY <1>6, <2>3
         DEF SchedulerStep, DrainDone, AddDue, AddStored, SkipCancelled, CheckShutdown, BeginPoll,
             PollDone, SelectShutdown, SelectTimer, Claim, ClaimLost, SubmitAccepted,
             SubmitRejected, Expire, RejectEntry, Restore, Postpone, Settle, FinishDrained,
             CancelEntry, FinishDone, FlushEntry, FinishEntry, Move, At, Take, Return, schedVars,
             TypeOK
    <3>3. QED  BY <1>1, <1>2, <1>3, <1>4, <2>0, <3>1, <3>2 DEF Exact, Permits, Depth, chanVars
  <2>4. QED  BY <2>1, <2>2, <2>3
<1>7. ASSUME UNCHANGED <<call, chanVars, sched>> PROVE Exact'
  <2>1. Holding' = Holding /\ Publishing' = Publishing /\ (At("permit")' <=> At("permit"))
    BY <1>7 DEF Holding, Publishing, At
  <2>2. QED  BY <1>1, <1>2, <1>3, <1>4, <1>7, <2>1 DEF Exact, Permits, Depth, chanVars
<1>8. ASSUME NEW c \in Closers, Closing(c) PROVE Exact'
  BY <1>7, <1>8, ClosingKeeps DEF schedVars
<1>9. QED
  BY <1>1, <1>5, <1>6, <1>7, <1>8, NextCases DEF Cancel, CancelPending, Ripen, Run, PoolShutdown,
     vars, callVars, schedVars

\* Only a caller sends, and not once the scheduler has drained the channel.
LEMMA NoLateSend ==
  ASSUME OnceInv, SchedInv, NEW t \in Timeouts, Calling(t), Flushing
  PROVE  commands' = commands
<1>1. isClosed  BY DEF OnceInv, SchedInv, Flushing, Finishing
<1>2. QED
  BY <1>1 DEF Calling, Schedule, ScheduleStep, Reserve, Release, BeginEnqueue, TakeSlot, NoSlot,
       ContextDone, Send, PublishDepth, ReturnSlot, EndEnqueue, chanVars

\* Where the scheduler goes, and with what in hand.
LEMMA SchedStep ==
  ASSUME TypeOK, OnceInv, SchedInv, Next
  PROVE  SchedInv'
<1> USE DEF SchedInv, Finishing, Flushing
<1>1. ASSUME NEW t \in Timeouts, Calling(t) PROVE SchedInv'
  <2>1. UNCHANGED <<closer, shutdownC, wheel, batch, sched, entry, back>>
    BY <1>1, CallingKeeps DEF closeVars, wheelVars, schedVars
  <2>2. Flushing => commands' = commands  BY <1>1, NoLateSend
  <2>3. QED  BY <2>1, <2>2
<1>2. ASSUME NEW c \in Closers, Closing(c) PROVE SchedInv'
  <2>1. UNCHANGED <<commands, wheel, batch, sched, entry, back>>
    BY <1>2, ClosingKeeps DEF wheelVars, schedVars, chanVars
  <2>2. shutdownC => shutdownC'
    BY <1>2 DEF Closing, Shutdown, ShutdownStep, EnterOnce, MarkClosed, CloseSignal, EnqueuesDone,
         AwaitScheduler, GiveUp
  <2>3. closer'[c] = "returned" => closer[c] = "returned" \/ sched = "stopped"
    BY <1>2 DEF Closing, Shutdown, ShutdownStep, EnterOnce, MarkClosed, CloseSignal, EnqueuesDone,
         AwaitScheduler, GiveUp, Step, At, TypeOK
  <2>4. \A d \in Closers : closer'[d] = "returned" => sched = "stopped"
    BY <1>2, <2>3, ClosingKeeps
  <2>5. QED  BY <2>1, <2>2, <2>4
<1>3. ASSUME UNCHANGED <<closer, shutdownC, commands, wheel, batch, sched, entry, back>>
      PROVE  SchedInv'
  BY <1>3
<1>4. CASE \E t \in Timeouts : Cancel(t) \/ CancelPending(t) \/ Ripen(t) \/ Run(t)
  BY <1>3, <1>4 DEF Cancel, CancelPending, Ripen, Run, closeVars, wheelVars, schedVars, chanVars
<1>5. CASE PoolShutdown \/ UNCHANGED vars
  BY <1>3, <1>5 DEF PoolShutdown, vars, closeVars, wheelVars, schedVars, chanVars
<1>6. CASE SchedulerStep
  <2>0. UNCHANGED <<closer, shutdownC>> /\ sched # "stopped"
    <3>1. sched # "stopped"
      BY <1>6
         DEF SchedulerStep, DrainCommand, DrainDone, ReleaseSlot, AddDue, AddStored, SkipCancelled,
         CheckShutdown, BeginPoll, PollDone, SelectShutdown, SelectCommand, SelectTimer, Claim,
         ClaimLost, SubmitAccepted, SubmitRejected, Expire, RejectEntry, Restore, Postpone,
         Settle, FinishCommand, FinishDrained, CancelEntry, FinishDone, FlushEntry, FinishEntry,
         Receive, Move, At
    <3>2. QED  BY <1>6, <3>1, SchedulerKeeps DEF closeVars
  <2> USE DEF At, Take, Return, wheelVars, schedVars, chanVars
  <2>1. CASE DrainCommand \/ SelectCommand \/ FinishCommand
    <3>1. commands # <<>>  BY <2>1 DEF DrainCommand, SelectCommand, FinishCommand, Receive
    <3>2. Head(commands) # None  BY <3>1, TailFacts, TimerAssumption DEF TypeOK
    <3>3. QED  BY <2>0, <2>1, <3>2 DEF DrainCommand, SelectCommand, FinishCommand, Receive
  <2>2. CASE \/ DrainDone \/ CheckShutdown \/ PollDone \/ SelectShutdown \/ SelectTimer
             \/ FinishDrained \/ FinishDone
    BY <2>0, <2>2 DEF DrainDone, CheckShutdown, PollDone, SelectShutdown, SelectTimer,
                      FinishDrained, FinishDone, Move
  <2>3. CASE ReleaseSlot \/ AddDue
    BY <2>0, <2>3 DEF ReleaseSlot, AddDue
  <2>4. CASE AddStored \/ SkipCancelled \/ ClaimLost \/ Settle
    BY <2>0, <2>4 DEF AddStored, SkipCancelled, ClaimLost, Settle, TypeOK
  <2>5. CASE BeginPoll  BY <2>0, <2>5 DEF BeginPoll
  <2>6. ASSUME NEW t \in Timeouts, FlushEntry(t) PROVE SchedInv'
    BY <2>0, <2>6, TimerAssumption DEF FlushEntry
  <2>7. CASE \/ Claim \/ SubmitAccepted \/ SubmitRejected \/ Expire \/ RejectEntry
             \/ Restore \/ Postpone
    BY <2>0, <2>7 DEF Claim, SubmitAccepted, SubmitRejected, Expire, RejectEntry, Restore, Postpone
  <2>8. ASSUME NEW t \in Timeouts, FinishEntry(t) PROVE SchedInv'
    BY <2>0, <2>8, TimerAssumption DEF FinishEntry
  <2>9. CASE CancelEntry  BY <2>0, <2>9 DEF CancelEntry, TypeOK
  <2>10. QED
    BY <1>6, <2>1, <2>2, <2>3, <2>4, <2>5, <2>6, <2>7, <2>8, <2>9 DEF SchedulerStep
<1>7. QED  BY <1>1, <1>2, <1>4, <1>5, <1>6, NextCases

\* Steps that move no timeout.
LEMMA PlaceKept ==
  ASSUME PlaceInv, UNCHANGED <<commands, wheel, entry>>,
         \A t \in Timeouts : Published(t)' <=> Published(t),
         \A t \in Timeouts : Alive(t)' /\ Published(t) => Alive(t) \/ entry = t
  PROVE  PlaceInv'
<1>1. \A t \in Timeouts : Queued(t)' <=> Queued(t)  BY DEF Queued
<1>2. QED  BY <1>1 DEF PlaceInv

\* A timeout that is sent goes to the end of the channel.
LEMMA PlaceSend ==
  ASSUME TypeOK, PlaceInv, NEW t \in Timeouts, Send(t), commands' = Append(commands, t),
         call'[t] = "publish"
  PROVE  PlaceInv'
<1>1. /\ ~Published(t) /\ Published(t)'
      /\ \A u \in Timeouts : u # t => (Published(u)' <=> Published(u))
  BY DEF Send, Goto, Published, TypeOK
<1>2. ~Queued(t) /\ t \notin wheel /\ entry # t  BY <1>1 DEF PlaceInv
<1>3. commands \in Seq(Timeouts) /\ Distinct(commands)  BY DEF TypeOK, PlaceInv
<1>4. /\ Distinct(commands')
      /\ \A u \in Timeouts : Queued(u)' <=> Queued(u) \/ u = t
  BY <1>2, <1>3, AppendContent DEF Queued
<1>5. UNCHANGED <<wheel, entry, state>>  BY DEF Send, wheelVars, schedVars
<1>6. \A u \in Timeouts : Alive(u)' <=> Alive(u)  BY <1>5 DEF Alive
<1>7. QED  BY <1>1, <1>2, <1>4, <1>5, <1>6 DEF PlaceInv

\* The command at the head of the channel goes to the scheduler's hand.
LEMMA PlaceReceive ==
  ASSUME TypeOK, SchedInv, PlaceInv, DrainCommand \/ SelectCommand \/ FinishCommand
  PROVE  PlaceInv'
<1>1. commands # <<>> /\ entry = None
  BY DEF DrainCommand, SelectCommand, FinishCommand, Receive, At, SchedInv
<1>2. PICK t : t = Head(commands)  OBVIOUS
<1>3. commands' = Tail(commands) /\ entry' = t /\ UNCHANGED <<call, wheel, state>>
  BY <1>2 DEF DrainCommand, SelectCommand, FinishCommand, Receive, Take, callVars, wheelVars
<1>4. t \in Timeouts /\ t # None  BY <1>1, <1>2, TailFacts, TimerAssumption DEF TypeOK
<1>5. commands \in Seq(Timeouts) /\ Distinct(commands)  BY DEF TypeOK, PlaceInv
<1>6. Queued(t) /\ Distinct(commands')
  BY <1>1, <1>2, <1>3, <1>5, TailContent DEF Queued
<1>7. \A u \in Timeouts : Queued(u)' <=> Queued(u) /\ u # t
  BY <1>1, <1>2, <1>3, <1>5, TailContent DEF Queued
<1>8. \A u \in Timeouts : (Published(u)' <=> Published(u)) /\ (Alive(u)' <=> Alive(u))
  BY <1>3 DEF Published, Alive
<1>9. Published(t) /\ t \notin wheel  BY <1>4, <1>6 DEF PlaceInv
<1>10. UNCHANGED wheel /\ entry' = t  BY <1>3
<1>11. QED  BY TimerAssumption, <1>1, <1>4, <1>6, <1>7, <1>8, <1>9, <1>10 DEF PlaceInv

\* The scheduler is done with a timeout that is dead, or that it has stored.
LEMMA PlaceReturn ==
  ASSUME PlaceInv, entry \in Timeouts, Return, UNCHANGED <<call, commands, wheel>>,
         \A t \in Timeouts : Alive(t)' => Alive(t) /\ t # entry
  PROVE  PlaceInv'
<1>1. \A t \in Timeouts : (Queued(t)' <=> Queued(t)) /\ (Published(t)' <=> Published(t))
  BY DEF Queued, Published
<1>2. entry' = None  BY DEF Return
<1>3. \A t \in Timeouts : t # None  BY TimerAssumption
<1>4. QED  BY <1>1, <1>2, <1>3 DEF PlaceInv

\* It takes a timeout from the wheel, unless that is cancelled and is dropped.
LEMMA PlaceTake ==
  ASSUME TypeOK, SchedInv, PlaceInv, NEW t \in Timeouts, FlushEntry(t) \/ FinishEntry(t)
  PROVE  PlaceInv'
<1>1. UNCHANGED <<call, commands, state>> /\ t \in wheel /\ wheel' = wheel \ {t}
  BY DEF FlushEntry, FinishEntry, callVars, chanVars, TypeOK
<1>2. entry = None  BY DEF FlushEntry, FinishEntry, At, SchedInv
<1>3. \/ entry' = t
      \/ entry' = None /\ state[t] = "Cancelled"
  BY <1>2 DEF FlushEntry, FinishEntry, Take, schedVars
<1>4. \A u \in Timeouts : /\ Queued(u)' <=> Queued(u)
                          /\ Published(u)' <=> Published(u)
                          /\ Alive(u)' <=> Alive(u)
  BY <1>1 DEF Queued, Published, Alive
<1>5. state[t] = "Cancelled" => ~Alive(t)  BY DEF Alive
<1>6. \A u \in Timeouts : u # None  BY TimerAssumption
<1>7. QED  BY <1>1, <1>2, <1>3, <1>4, <1>5, <1>6 DEF PlaceInv

LEMMA PlaceStep ==
  ASSUME TypeOK, SchedInv, StateInv, PlaceInv, Next
  PROVE  PlaceInv'
<1>1. ASSUME NEW t \in Timeouts, Calling(t) PROVE PlaceInv'
  <2>1. /\ UNCHANGED <<wheel, entry>>
        /\ \A u \in Timeouts : u # t => call'[u] = call[u] /\ state'[u] = state[u]
    BY <1>1, CallingKeeps DEF wheelVars, schedVars
  <2>2. CASE Send(t) /\ call'[t] = "publish"
    <3>1. commands' = Append(commands, t)  BY <2>2 DEF Send, Goto, TypeOK
    <3>2. QED  BY <2>2, <3>1, PlaceSend
  <2>3. CASE ~(Send(t) /\ call'[t] = "publish")
    <3>1. commands' = commands
      BY <1>1, <2>3
         DEF Calling, Schedule, ScheduleStep, Reserve, Release, BeginEnqueue, TakeSlot, NoSlot,
             ContextDone, Send, PublishDepth, ReturnSlot, EndEnqueue, Goto, TypeOK, chanVars
    <3>2. Published(t)' <=> Published(t)
      BY <1>1, <2>3
         DEF Calling, Schedule, ScheduleStep, Reserve, Release, BeginEnqueue, TakeSlot, NoSlot,
             ContextDone, Send, PublishDepth, ReturnSlot, EndEnqueue, Goto, TypeOK, Published
    <3>3. Published(t) => state'[t] = state[t]
      BY <1>1
         DEF Calling, Schedule, ScheduleStep, Reserve, Release, BeginEnqueue, TakeSlot, NoSlot,
             ContextDone, Send, PublishDepth, ReturnSlot, EndEnqueue, Goto, Published
    <3>4. \A u \in Timeouts : Published(u)' <=> Published(u)
      BY <2>1, <3>2 DEF Published
    <3>5. \A u \in Timeouts : Alive(u)' /\ Published(u) => Alive(u)
      BY <2>1, <3>3 DEF Alive
    <3>6. QED  BY <2>1, <3>1, <3>4, <3>5, PlaceKept
  <2>4. QED  BY <2>2, <2>3
<1>2. ASSUME UNCHANGED <<call, commands, wheel, entry>>,
             \A t \in Timeouts : Alive(t)' => Alive(t) \/ entry = t
      PROVE  PlaceInv'
  <2>1. \A t \in Timeouts : Published(t)' <=> Published(t)  BY <1>2 DEF Published
  <2>2. QED  BY <1>2, <2>1, PlaceKept
<1>3. ASSUME NEW c \in Closers, Closing(c) PROVE PlaceInv'
  <2>1. UNCHANGED <<call, commands, wheel, entry, state>>
    BY <1>3, ClosingKeeps DEF chanVars, wheelVars, schedVars
  <2>2. QED  BY <1>2, <2>1 DEF Alive
<1>4. ASSUME NEW t \in Timeouts, Cancel(t) PROVE PlaceInv'
  BY <1>2, <1>4 DEF Cancel, callVars, chanVars, wheelVars, schedVars, Alive, TypeOK
<1>5. CASE \E t \in Timeouts : CancelPending(t) \/ Ripen(t) \/ Run(t)
  <2>1. UNCHANGED <<call, commands, wheel, entry, state>>
    BY <1>5 DEF CancelPending, Ripen, Run, callVars, chanVars, wheelVars, schedVars
  <2>2. QED  BY <1>2, <2>1 DEF Alive
<1>6. CASE PoolShutdown \/ UNCHANGED vars
  <2>1. UNCHANGED <<call, commands, wheel, entry, state>>
    BY <1>6 DEF PoolShutdown, vars, callVars, chanVars, wheelVars, schedVars
  <2>2. QED  BY <1>2, <2>1 DEF Alive
<1>7. CASE SchedulerStep
  <2>0. UNCHANGED call  BY <1>7, SchedulerKeeps DEF callVars
  <2>1. CASE DrainCommand \/ SelectCommand \/ FinishCommand  BY <2>1, PlaceReceive
  <2>2. CASE \/ DrainDone \/ CheckShutdown \/ PollDone \/ SelectShutdown \/ SelectTimer
             \/ FinishDrained \/ FinishDone \/ ReleaseSlot \/ AddDue \/ BeginPoll
             \/ SubmitAccepted \/ SubmitRejected \/ Postpone
    <3>1. UNCHANGED <<commands, wheel, entry, state>>
      BY <2>2 DEF DrainDone, CheckShutdown, PollDone, SelectShutdown, SelectTimer, FinishDrained,
                  FinishDone, Move, ReleaseSlot, AddDue, BeginPoll, SubmitAccepted,
                  SubmitRejected, Postpone, chanVars, wheelVars
    <3>2. QED  BY <1>2, <2>0, <3>1 DEF Alive
  <2>3. CASE Claim \/ Expire \/ RejectEntry \/ Restore
    <3>1. /\ UNCHANGED <<commands, wheel, entry>>
          /\ \A u \in Timeouts : u # entry => state'[u] = state[u]
      BY <2>3 DEF Claim, Expire, RejectEntry, Restore, chanVars, wheelVars, TypeOK
    <3>2. QED  BY <1>2, <2>0, <3>1 DEF Alive
  <2>4. CASE AddStored
    <3>1. entry \in Timeouts  BY <2>4, InHand DEF AddStored, At
    <3>2. /\ entry' = None /\ wheel' = wheel \cup {entry}
          /\ UNCHANGED <<commands, state>>
      BY <2>4 DEF AddStored, Return, chanVars
    <3>3. \A u \in Timeouts : /\ Queued(u)' <=> Queued(u)
                              /\ Published(u)' <=> Published(u)
                              /\ Alive(u)' <=> Alive(u)
      BY <2>0, <3>2 DEF Queued, Published, Alive
    <3>4. \A u \in Timeouts : u # None  BY TimerAssumption
    <3>5. QED  BY <3>1, <3>2, <3>3, <3>4 DEF PlaceInv
  <2>5. CASE SkipCancelled \/ ClaimLost \/ Settle
    <3>1. entry \in Timeouts /\ ~Alive(entry)
      BY <2>5, InHand DEF SkipCancelled, ClaimLost, Settle, At, StateInv, Alive
    <3>2. Return /\ UNCHANGED <<commands, wheel, state>>
      BY <2>5 DEF SkipCancelled, ClaimLost, Settle, chanVars, wheelVars
    <3>3. QED  BY <2>0, <3>1, <3>2, PlaceReturn DEF Alive
  <2>6. CASE CancelEntry
    <3>1. entry \in Timeouts  BY <2>6, InHand DEF CancelEntry, At
    <3>2. UNCHANGED <<commands, wheel>>  BY <2>6 DEF CancelEntry, chanVars, wheelVars
    <3>3. CASE state[entry] = "Scheduled"
      <4>1. UNCHANGED entry /\ \A u \in Timeouts : u # entry => state'[u] = state[u]
        BY <2>6, <3>3 DEF CancelEntry, TypeOK
      <4>2. QED  BY <1>2, <2>0, <3>2, <4>1 DEF Alive
    <3>4. CASE state[entry] # "Scheduled"
      <4>1. Return /\ UNCHANGED state /\ ~Alive(entry)
        BY <2>6, <3>4 DEF CancelEntry, At, StateInv, Alive
      <4>2. QED  BY <2>0, <3>1, <3>2, <4>1, PlaceReturn DEF Alive
    <3>5. QED  BY <3>3, <3>4
  <2>7. CASE \E t \in Timeouts : FlushEntry(t) \/ FinishEntry(t)  BY <2>7, PlaceTake
  <2>8. QED
    BY <1>7, <2>1, <2>2, <2>3, <2>4, <2>5, <2>6, <2>7 DEF SchedulerStep
<1>8. QED  BY <1>1, <1>3, <1>4, <1>5, <1>6, <1>7, NextCases

\* What a call of Schedule does to its own entry.
LEMMA CallingState ==
  ASSUME TypeOK, StateInv, NEW t \in Timeouts, Calling(t)
  PROVE  /\ state'[t] = state[t] \/ (call[t] = "reserve" /\ state'[t] = "Scheduled")
         /\ call'[t] \in {"idle", "reserve"} => state'[t] = "Unknown"
         /\ call'[t] \in {"begin", "slot", "send", "return", "fail"} => state'[t] = "Scheduled"
         /\ call'[t] \in {"release", "refused"} => state'[t] \in {"Unknown", "Scheduled"}
         /\ Published(t)' => state'[t] # "Unknown"
         /\ call[t] # "returned"
<1> USE DEF Goto, TypeOK, Published
<1>1. CASE Schedule(t)  BY <1>1 DEF Schedule, StateInv
<1>2. CASE Reserve(t)  BY <1>2 DEF Reserve, StateInv, EntryStates
<1>3. CASE Release(t)  BY <1>3 DEF Release, StateInv
<1>4. CASE BeginEnqueue(t)  BY <1>4 DEF BeginEnqueue, StateInv
<1>5. CASE TakeSlot(t) \/ NoSlot(t) \/ ContextDone(t)
  BY <1>5 DEF TakeSlot, NoSlot, ContextDone, StateInv
<1>6. CASE Send(t)  BY <1>6 DEF Send, StateInv
<1>7. CASE PublishDepth(t) \/ ReturnSlot(t)  BY <1>7 DEF PublishDepth, ReturnSlot, StateInv
<1>8. CASE EndEnqueue(t)  BY <1>8 DEF EndEnqueue, StateInv
<1>9. QED
  BY <1>1, <1>2, <1>3, <1>4, <1>5, <1>6, <1>7, <1>8 DEF Calling, ScheduleStep

\* What a call sends, and that only a call sends.
LEMMA CallingQueue ==
  ASSUME TypeOK, NEW t \in Timeouts, Calling(t)
  PROVE  \A u \in Timeouts : Queued(u)' => Queued(u) \/ (u = t /\ call[t] = "send")
<1>1. CASE UNCHANGED commands  BY <1>1 DEF Queued
<1>2. CASE Send(t) /\ commands' = Append(commands, t)
  <2>1. Content(commands') = Content(commands) \cup {t}  BY <1>2, AppendContent DEF TypeOK
  <2>2. QED  BY <1>2, <2>1 DEF Send, Goto, Queued
<1>3. QED
  BY <1>1, <1>2
     DEF Calling, Schedule, ScheduleStep, Reserve, Release, BeginEnqueue, TakeSlot, NoSlot,
         ContextDone, Send, PublishDepth, ReturnSlot, EndEnqueue, chanVars

LEMMA StateCalling ==
  ASSUME TypeOK, PlaceInv, SchedInv, StateInv, NEW t \in Timeouts, Calling(t)
  PROVE  StateInv'
<1>1. /\ UNCHANGED <<wheel, sched, entry, cancelling>>
      /\ \A u \in Timeouts : u # t => call'[u] = call[u] /\ state'[u] = state[u]
  BY CallingKeeps DEF wheelVars, schedVars
<1>2. /\ state'[t] = state[t] \/ (call[t] = "reserve" /\ state'[t] = "Scheduled")
      /\ call'[t] \in {"idle", "reserve"} => state'[t] = "Unknown"
      /\ call'[t] \in {"begin", "slot", "send", "return", "fail"} => state'[t] = "Scheduled"
      /\ call'[t] \in {"release", "refused"} => state'[t] \in {"Unknown", "Scheduled"}
      /\ Published(t)' => state'[t] # "Unknown"
      /\ call[t] # "returned"
  BY CallingState
<1>3. \A u \in Timeouts : Queued(u)' => Queued(u) \/ (u = t /\ call[t] = "send")
  BY CallingQueue
<1>4. call[t] \in {"reserve", "send"} => ~Published(t)  BY DEF Published
<1>5. ~cancelling[t]  BY <1>2 DEF StateInv
<1>6. call[t] = "send" => state'[t] = "Scheduled"  BY <1>2 DEF StateInv
<1>7. Queued(t) \/ t \in wheel \/ entry = t => state'[t] = state[t]
  BY <1>2, <1>4 DEF PlaceInv
<1>8. ASSUME NEW u \in Timeouts
      PROVE  /\ call'[u] \in {"idle", "reserve"} => state'[u] = "Unknown"
             /\ call'[u] \in {"begin", "slot", "send", "return", "fail"} => state'[u] = "Scheduled"
             /\ call'[u] \in {"release", "refused"} => state'[u] \in {"Unknown", "Scheduled"}
             /\ Published(u)' => state'[u] # "Unknown"
             /\ cancelling'[u] => state'[u] = "Cancelled" /\ call'[u] = "returned"
             /\ Queued(u)' \/ u \in wheel' => state'[u] \in {"Scheduled", "Cancelled"}
             /\ state'[u] = "Dispatching"
                  => entry' = u /\ sched' \in {"submit", "expire", "rejected"}
  <2>1. CASE u = t  BY <1>1, <1>2, <1>3, <1>5, <1>6, <1>7, <2>1 DEF StateInv
  <2>2. CASE u # t
    <3>1. Published(u)' <=> Published(u)  BY <1>1, <2>2 DEF Published
    <3>2. QED  BY <1>1, <1>3, <2>2, <3>1 DEF StateInv
  <2>3. QED  BY <2>1, <2>2
<1>9. \/ state'[entry] = state[entry]
      \/ sched \in {"drain", "check", "poll", "select", "finish", "flush", "stopped"}
  BY <1>1, <1>7 DEF SchedInv, TypeOK
<1>10. QED  BY <1>1, <1>8, <1>9 DEF StateInv

\* What the scheduler makes of the entry in its hand, of no other.
LEMMA StateScheduler ==
  ASSUME TypeOK, SchedInv, PlaceInv, StateInv, SchedulerStep
  PROVE  StateInv'
<1>0. UNCHANGED <<call, cancelling>>  BY SchedulerKeeps DEF callVars
<1>1. \A u \in Timeouts : Published(u)' <=> Published(u)  BY <1>0 DEF Published
<1> USE DEF At, Take, Return
<1>2. CASE DrainCommand \/ SelectCommand \/ FinishCommand
  <2>1. /\ commands # <<>> /\ entry = None
        /\ sched \in {"drain", "select", "finish"}
        /\ entry' = Head(commands) /\ sched' = "permit" /\ commands' = Tail(commands)
        /\ UNCHANGED <<wheel, state>>
    BY <1>2 DEF DrainCommand, SelectCommand, FinishCommand, Receive, wheelVars, SchedInv
  <2>2. commands \in Seq(Timeouts) /\ Distinct(commands)  BY DEF TypeOK, PlaceInv
  <2>3. /\ Head(commands) \in Timeouts /\ Queued(Head(commands))
        /\ \A u \in Timeouts : Queued(u)' => Queued(u)
    BY <2>1, <2>2, TailContent, TailFacts DEF Queued
  <2>4. entry' \in Timeouts /\ state'[entry'] \in {"Scheduled", "Cancelled"}
    BY <2>1, <2>3 DEF StateInv
  <2>5. QED  BY <1>0, <1>1, <2>1, <2>3, <2>4 DEF StateInv
<1>3. ASSUME \A u \in Timeouts : Queued(u)' <=> Queued(u),
             UNCHANGED state, \A u \in Timeouts : u \in wheel' => u \in wheel,
             entry' = entry \/ entry' = None,
             sched' \in {"drain", "check", "poll", "select", "finish", "flush", "stopped"},
             \A u \in Timeouts : state[u] # "Dispatching"
      PROVE  StateInv'
  BY <1>0, <1>1, <1>3 DEF StateInv
<1>4. sched \notin {"submit", "expire", "rejected"}
        => \A u \in Timeouts : state[u] # "Dispatching"
  BY DEF StateInv
<1>5. UNCHANGED commands => \A u \in Timeouts : Queued(u)' <=> Queued(u)  BY DEF Queued
<1>6. CASE \/ DrainDone \/ CheckShutdown \/ PollDone \/ SelectShutdown \/ SelectTimer
           \/ FinishDrained \/ FinishDone
  BY <1>3, <1>4, <1>5, <1>6
     DEF DrainDone, CheckShutdown, PollDone, SelectShutdown, SelectTimer, FinishDrained,
         FinishDone, Move, wheelVars, chanVars
<1>7. CASE BeginPoll
  BY <1>3, <1>4, <1>5, <1>7 DEF BeginPoll, chanVars
<1>8. CASE SkipCancelled \/ ClaimLost \/ Settle
  BY <1>3, <1>4, <1>5, <1>8 DEF SkipCancelled, ClaimLost, Settle, wheelVars, chanVars, TypeOK
<1>9. CASE ReleaseSlot \/ AddDue
  <2>1. /\ sched \in {"permit", "add", "readd"} /\ sched' \in {"add", "cancel", "claim"}
        /\ UNCHANGED <<entry, wheel, commands, state>>
    BY <1>9 DEF ReleaseSlot, AddDue, wheelVars, chanVars
  <2>2. QED  BY <1>0, <1>1, <1>5, <2>1 DEF StateInv
<1>10. CASE AddStored
  <2>1. /\ sched \in {"add", "readd"}
        /\ sched' \in {"drain", "check", "poll", "select", "finish", "flush", "stopped"}
        /\ entry' = None /\ wheel' = wheel \cup {entry} /\ UNCHANGED <<commands, state>>
    BY <1>10 DEF AddStored, chanVars, TypeOK
  <2>2. QED  BY <1>0, <1>1, <1>5, <2>1 DEF StateInv
<1>11. ASSUME NEW t \in Timeouts, FlushEntry(t) \/ FinishEntry(t) PROVE StateInv'
  <2>1. /\ sched \in {"poll", "flush"} /\ t \in wheel /\ wheel' = wheel \ {t}
        /\ UNCHANGED <<commands, state>>
        /\ \/ entry' = t /\ sched' \in {"claim", "cancel"}
           \/ UNCHANGED <<entry, sched>>
    BY <1>11 DEF FlushEntry, FinishEntry, chanVars, schedVars, TypeOK
  <2>2. QED  BY <1>0, <1>1, <1>5, <2>1 DEF StateInv
<1>12. CASE \/ SubmitAccepted \/ SubmitRejected \/ Postpone
  <2>1. /\ UNCHANGED <<entry, wheel, commands, state>>
        /\ \/ sched = "submit" /\ sched' \in {"expire", "rejected"}
           \/ sched = "postpone" /\ sched' = "readd"
    BY <1>12 DEF SubmitAccepted, SubmitRejected, Postpone, wheelVars, chanVars
  <2>2. QED  BY <1>0, <1>1, <1>5, <2>1 DEF StateInv
<1>13. ASSUME NEW s, entry \in Timeouts, state' = [state EXCEPT ![entry] = s],
              UNCHANGED <<entry, wheel, commands>>,
              \/ s = "Dispatching" /\ state[entry] = "Scheduled" /\ sched' = "submit"
              \/ s \in {"Expired", "Rejected"} /\ state[entry] = "Dispatching" /\ sched' = "settle"
              \/ s = "Scheduled" /\ state[entry] = "Dispatching" /\ sched' = "postpone"
              \/ s = "Cancelled" /\ state[entry] = "Scheduled" /\ sched' = "settle"
       PROVE  StateInv'
  <2>1. Published(entry) /\ ~Queued(entry) /\ entry \notin wheel  BY <1>13 DEF PlaceInv
  <2>2. ~cancelling[entry]  BY <1>13 DEF StateInv
  <2>3. call[entry] \in {"publish", "end", "returned"}  BY <2>1 DEF Published
  <2>4. state'[entry] = s /\ \A u \in Timeouts : u # entry => state'[u] = state[u]
    BY <1>13 DEF TypeOK
  <2>5. \A u \in Timeouts : u # entry => state[u] # "Dispatching"  BY DEF StateInv
  <2>6. QED  BY <1>0, <1>1, <1>5, <1>13, <2>1, <2>2, <2>3, <2>4, <2>5 DEF StateInv
<1>14. CASE Claim
  BY <1>13, <1>14, InHand DEF Claim, wheelVars, chanVars
<1>15. CASE Expire \/ RejectEntry \/ Restore
  BY <1>13, <1>15, InHand DEF Expire, RejectEntry, Restore, wheelVars, chanVars, StateInv
<1>16. CASE CancelEntry
  <2>1. CASE state[entry] = "Scheduled"
    BY <1>13, <1>16, <2>1, InHand DEF CancelEntry, wheelVars, chanVars
  <2>2. CASE state[entry] # "Scheduled"
    BY <1>3, <1>4, <1>5, <1>16, <2>2 DEF CancelEntry, wheelVars, chanVars, TypeOK
  <2>3. QED  BY <2>1, <2>2
<1>17. QED
  BY <1>2, <1>6, <1>7, <1>8, <1>9, <1>10, <1>11, <1>12, <1>14, <1>15, <1>16 DEF SchedulerStep

LEMMA StateStep ==
  ASSUME TypeOK, SchedInv, PlaceInv, StateInv, Next
  PROVE  StateInv'
<1>1. ASSUME UNCHANGED <<call, cancelling, commands, wheel, state, sched, entry>>
      PROVE  StateInv'
  BY <1>1 DEF StateInv, Published, Queued
<1>2. ASSUME NEW t \in Timeouts, Cancel(t) PROVE StateInv'
  <2>1. /\ call[t] = "returned" /\ state[t] = "Scheduled"
        /\ state'[t] = "Cancelled" /\ \A u \in Timeouts : u # t => state'[u] = state[u]
        /\ \A u \in Timeouts : u # t => cancelling'[u] = cancelling[u]
        /\ UNCHANGED <<call, commands, wheel, sched, entry>>
    BY <1>2 DEF Cancel, callVars, chanVars, wheelVars, schedVars, TypeOK
  <2>2. \A u \in Timeouts : (Published(u)' <=> Published(u)) /\ (Queued(u)' <=> Queued(u))
    BY <2>1 DEF Published, Queued
  <2>3. \/ entry \in Timeouts
        \/ sched \in {"drain", "check", "poll", "select", "finish", "flush", "stopped"}
    BY InHand
  <2>4. QED  BY <2>1, <2>2, <2>3 DEF StateInv
<1>3. ASSUME NEW t \in Timeouts, CancelPending(t) PROVE StateInv'
  <2>1. /\ \A u \in Timeouts : cancelling'[u] => cancelling[u]
        /\ UNCHANGED <<call, commands, wheel, state, sched, entry>>
    BY <1>3 DEF CancelPending, callVars, chanVars, wheelVars, schedVars, TypeOK
  <2>2. \A u \in Timeouts : (Published(u)' <=> Published(u)) /\ (Queued(u)' <=> Queued(u))
    BY <2>1 DEF Published, Queued
  <2>3. \/ entry \in Timeouts
        \/ sched \in {"drain", "check", "poll", "select", "finish", "flush", "stopped"}
    BY InHand
  <2>4. QED  BY <2>1, <2>2, <2>3 DEF StateInv
<1>4. ASSUME NEW c \in Closers, Closing(c) PROVE StateInv'
  BY <1>1, <1>4, ClosingKeeps DEF chanVars, wheelVars, schedVars
<1>5. QED
  BY <1>1, <1>2, <1>3, <1>4, NextCases, StateCalling, StateScheduler
     DEF Ripen, Run, PoolShutdown, vars, callVars, chanVars, wheelVars, schedVars

\* A task is handed over once, by the scheduler, between its claim and Expire.
LEMMA HandStep ==
  ASSUME TypeOK, SchedInv, StateInv, HandInv, Next
  PROVE  HandInv'
<1>1. ASSUME UNCHANGED <<handed, ran>>,
             \A u \in Timeouts : state'[u] = "Expired" <=> state[u] = "Expired",
             \A u \in Timeouts : entry' = u /\ sched' = "expire" <=> entry = u /\ sched = "expire"
      PROVE  HandInv'
  BY <1>1 DEF HandInv
<1>2. ASSUME NEW t \in Timeouts, Calling(t) PROVE HandInv'
  <2>1. state'[t] = "Expired" <=> state[t] = "Expired"
    BY <1>2, CallingState DEF StateInv
  <2>2. QED  BY <1>1, <1>2, <2>1, CallingKeeps DEF poolVars, schedVars
<1>3. ASSUME NEW t \in Timeouts, Cancel(t) PROVE HandInv'
  BY <1>1, <1>3 DEF Cancel, poolVars, schedVars, TypeOK
<1>4. ASSUME NEW t \in Timeouts, Run(t) PROVE HandInv'
  BY <1>4 DEF Run, schedVars, HandInv, TypeOK
<1>5. CASE \/ \E t \in Timeouts : CancelPending(t) \/ Ripen(t)
           \/ PoolShutdown \/ UNCHANGED vars
  BY <1>1, <1>5 DEF CancelPending, Ripen, PoolShutdown, vars, poolVars, schedVars
<1>6. ASSUME NEW c \in Closers, Closing(c) PROVE HandInv'
  BY <1>1, <1>6, ClosingKeeps DEF poolVars, schedVars
<1>7. CASE SchedulerStep
  <2>1. CASE SubmitAccepted
    <3>1. /\ entry \in Timeouts /\ sched = "submit" /\ state[entry] = "Dispatching"
          /\ sched' = "expire" /\ UNCHANGED <<ran, entry, state>>
          /\ handed' = [handed EXCEPT ![entry] = handed[entry] + 1]
      BY <2>1, InHand DEF SubmitAccepted, At, StateInv
    <3>2. handed[entry] = 0 /\ ran[entry] = 0  BY <3>1 DEF HandInv, TypeOK
    <3>3. /\ handed'[entry] = 1
          /\ \A u \in Timeouts : u # entry => handed'[u] = handed[u]
      BY <3>1, <3>2 DEF TypeOK
    <3>4. QED  BY <3>1, <3>2, <3>3 DEF HandInv
  <2>2. CASE Expire
    <3>1. /\ entry \in Timeouts /\ sched = "expire" /\ sched' = "settle"
          /\ state'[entry] = "Expired" /\ \A u \in Timeouts : u # entry => state'[u] = state[u]
          /\ UNCHANGED <<handed, ran, entry>>
      BY <2>2, InHand DEF Expire, At, poolVars, TypeOK
    <3>2. QED  BY <3>1 DEF HandInv
  <2>3. CASE ~(SubmitAccepted \/ Expire)
    <3>1. UNCHANGED <<handed, ran>>
      BY <1>7, <2>3
         DEF SchedulerStep, DrainCommand, DrainDone, ReleaseSlot, AddDue, AddStored, SkipCancelled,
         CheckShutdown, BeginPoll, PollDone, SelectShutdown, SelectCommand, SelectTimer, Claim,
         ClaimLost, SubmitRejected, RejectEntry, Restore, Postpone, Settle, FinishCommand,
         FinishDrained, CancelEntry, FinishDone, FlushEntry, FinishEntry, Receive, Move, poolVars
    <3>2. sched # "expire" /\ sched' # "expire"
      BY <1>7, <2>3
         DEF SchedulerStep, DrainCommand, DrainDone, ReleaseSlot, AddDue, AddStored, SkipCancelled,
         CheckShutdown, BeginPoll, PollDone, SelectShutdown, SelectCommand, SelectTimer, Claim,
         ClaimLost, SubmitRejected, RejectEntry, Restore, Postpone, Settle, FinishCommand,
         FinishDrained, CancelEntry, FinishDone, FlushEntry, FinishEntry, Receive, Move, At, Take,
         Return, schedVars, TypeOK
    <3>3. \A u \in Timeouts : state'[u] = "Expired" <=> state[u] = "Expired"
      <4>1. CASE Claim \/ RejectEntry \/ Restore \/ CancelEntry
        BY <4>1 DEF Claim, RejectEntry, Restore, CancelEntry, At, StateInv, TypeOK
      <4>2. CASE ~(Claim \/ RejectEntry \/ Restore \/ CancelEntry)
        BY <1>7, <2>3, <4>2
           DEF SchedulerStep, DrainCommand, DrainDone, ReleaseSlot, AddDue, AddStored,
           SkipCancelled, CheckShutdown, BeginPoll, PollDone, SelectShutdown, SelectCommand,
           SelectTimer, ClaimLost, SubmitRejected, Postpone, Settle, FinishCommand, FinishDrained,
           FinishDone, FlushEntry, FinishEntry, Receive, Move
      <4>3. QED  BY <4>1, <4>2
    <3>4. QED  BY <1>1, <3>1, <3>2, <3>3
  <2>4. QED  BY <2>1, <2>2, <2>3
<1>8. QED  BY <1>2, <1>3, <1>4, <1>5, <1>6, <1>7, NextCases

\* The steps that raise and lower the pending counter, and those that leave alone
\* what it counts.
LEMMA PendingKept ==
  ASSUME PendingInv, pending' = pending, Counted' = Counted, Admitted' \subseteq Admitted
  PROVE  PendingInv'
<1>1. IsFiniteSet(Admitted)  BY FS_Subset DEF PendingInv, Admitted
<1>2. Cardinality(Admitted') <= Cardinality(Admitted) /\ Cardinality(Admitted) \in Nat
      /\ Cardinality(Admitted') \in Nat
  BY <1>1, FS_Subset, FS_CardinalityType
<1>3. QED  BY <1>2, TimerAssumption DEF PendingInv

LEMMA PendingRaised ==
  ASSUME PendingInv, NEW t, t \notin Counted, Counted' = Counted \cup {t}, pending' = pending + 1,
         \/ Admitted' = Admitted
         \/ Admitted' \subseteq Counted' /\ pending + 1 <= MaxPending
  PROVE  PendingInv'
<1>1. IsFiniteSet(Counted') /\ pending' = Cardinality(Counted')
  BY Gains DEF PendingInv
<1>2. Cardinality(Admitted') <= MaxPending
  <2>1. CASE Admitted' = Admitted  BY <2>1 DEF PendingInv
  <2>2. CASE Admitted' \subseteq Counted' /\ pending + 1 <= MaxPending
    <3>1. /\ Cardinality(Admitted') <= Cardinality(Counted')
          /\ Cardinality(Admitted') \in Nat /\ Cardinality(Counted') \in Nat
      BY <1>1, <2>2, FS_Subset, FS_CardinalityType
    <3>2. QED  BY <1>1, <2>2, <3>1, TimerAssumption
  <2>3. QED  BY <2>1, <2>2
<1>3. QED  BY <1>1, <1>2 DEF PendingInv

LEMMA PendingLowered ==
  ASSUME PendingInv, NEW t \in Counted, Counted' = Counted \ {t}, pending' = pending - 1,
         Admitted' \subseteq Admitted
  PROVE  PendingInv'
<1>1. IsFiniteSet(Counted') /\ pending' = Cardinality(Counted')
  BY Loses DEF PendingInv
<1>2. IsFiniteSet(Admitted)  BY FS_Subset DEF PendingInv, Admitted
<1>3. Cardinality(Admitted') <= Cardinality(Admitted) /\ Cardinality(Admitted) \in Nat
      /\ Cardinality(Admitted') \in Nat
  BY <1>2, FS_Subset, FS_CardinalityType
<1>4. QED  BY <1>1, <1>3, TimerAssumption DEF PendingInv

\* The pending counter and what it counts move together.
LEMMA PendingCalling ==
  ASSUME TypeOK, SchedInv, PlaceInv, StateInv, PendingInv, NEW t \in Timeouts, Calling(t)
  PROVE  PendingInv'
<1>1. /\ UNCHANGED <<sched, entry, cancelling>>
      /\ \A u \in Timeouts : u # t => call'[u] = call[u] /\ state'[u] = state[u]
  BY CallingKeeps DEF schedVars
<1>2. \A u \in Timeouts : u # t => /\ u \in Counted' <=> u \in Counted
                                   /\ u \in Admitted' <=> u \in Admitted
  BY <1>1 DEF Counted, Admitted, Published, Alive, At
<1>3. Admitted \subseteq Counted /\ Counted \subseteq Timeouts
      /\ Admitted' \subseteq Counted' /\ Counted' \subseteq Timeouts
  BY DEF Admitted, Counted
<1>4. CASE Reserve(t)
  <2>1. /\ call[t] = "reserve" /\ pending' = pending + 1
        /\ \/ call'[t] = "release"
           \/ call'[t] = "begin" /\ pending + 1 <= MaxPending
    BY <1>4, TimerAssumption DEF Reserve, Goto, TypeOK
  <2>2. t \notin Counted /\ t \in Counted'
    BY <2>1 DEF Counted, Published
  <2>3. call'[t] = "release" => t \notin Admitted'
    BY DEF Admitted
  <2>4. Counted' = Counted \cup {t}  BY <1>2, <1>3, <2>2
  <2>5. call'[t] = "release" => Admitted' = Admitted  BY <1>2, <1>3, <2>2, <2>3
  <2>6. QED  BY <1>3, <2>1, <2>2, <2>4, <2>5, PendingRaised
<1>5. CASE Release(t)
  <2>1. call[t] = "release" /\ call'[t] = "refused" /\ pending' = pending - 1
    BY <1>5 DEF Release, Goto, TypeOK
  <2>2. t \in Counted /\ t \notin Counted'
    BY <2>1 DEF Counted, Published
  <2>3. Counted' = Counted \ {t}  BY <1>2, <1>3, <2>2
  <2>4. Admitted' \subseteq Admitted  BY <1>2, <1>3, <2>2
  <2>5. QED  BY <2>1, <2>2, <2>3, <2>4, PendingLowered
<1>6. CASE ~(Reserve(t) \/ Release(t))
  <2>1. pending' = pending
    BY <1>6
       DEF Calling, Schedule, ScheduleStep, BeginEnqueue, TakeSlot, NoSlot, ContextDone, Send,
           PublishDepth, ReturnSlot, EndEnqueue
  <2>2. state'[t] = state[t]
    BY <1>6
       DEF Calling, Schedule, ScheduleStep, BeginEnqueue, TakeSlot, NoSlot, ContextDone, Send,
           PublishDepth, ReturnSlot, EndEnqueue
  <2>3. \/ call[t] = "idle" /\ call'[t] \in {"refused", "reserve"}
        \/ /\ call[t] \in {"begin", "slot", "send", "return", "fail"}
           /\ call'[t] \in {"slot", "send", "return", "fail", "release"}
        \/ call[t] = "send" /\ call'[t] = "publish"
        \/ Published(t) /\ Published(t)'
    BY <1>6
       DEF Calling, Schedule, ScheduleStep, BeginEnqueue, TakeSlot, NoSlot, ContextDone, Send,
           PublishDepth, ReturnSlot, EndEnqueue, Goto, TypeOK, Published
  <2>4. call[t] = "send" => Alive(t)  BY DEF StateInv, Alive
  <2>5. (Alive(t)' <=> Alive(t)) /\ (At("settle")' <=> At("settle"))
    BY <1>1, <2>2 DEF Alive, At
  <2>6. t \in Counted' <=> t \in Counted
    BY <1>1, <2>3, <2>4, <2>5 DEF Counted, Published
  <2>7. t \in Admitted' => t \in Admitted
    <3>1. call'[t] # "release" /\ t \in Counted => call[t] # "release"
      BY <2>3 DEF Published
    <3>2. QED  BY <2>6, <3>1 DEF Admitted
  <2>8. Counted' = Counted /\ Admitted' \subseteq Admitted  BY <1>2, <1>3, <2>6, <2>7
  <2>9. QED  BY <2>1, <2>8, PendingKept
<1>7. QED  BY <1>4, <1>5, <1>6

LEMMA PendingScheduler ==
  ASSUME TypeOK, SchedInv, PlaceInv, StateInv, PendingInv, SchedulerStep
  PROVE  PendingInv'
<1>0. UNCHANGED <<call, cancelling>>  BY SchedulerKeeps DEF callVars
<1>1. ASSUME \A u \in Timeouts : Published(u) =>
               (Alive(u)' \/ (sched' = "settle" /\ entry' = u)
                  <=> Alive(u) \/ (sched = "settle" /\ entry = u))
      PROVE  Counted' = Counted /\ Admitted' \subseteq Admitted
  <2>1. \A u \in Timeouts : Published(u)' <=> Published(u)  BY <1>0 DEF Published
  <2>2. Counted' = Counted  BY <1>0, <1>1, <2>1 DEF Counted, At
  <2>3. QED  BY <1>0, <2>2 DEF Admitted
<1> USE DEF At, Take, Return
<1>2. CASE Settle
  <2>1. /\ entry \in Timeouts /\ sched = "settle" /\ sched' # "settle"
        /\ pending' = pending - 1 /\ UNCHANGED state
    BY <1>2, InHand DEF Settle, TypeOK
  <2>2. Published(entry) /\ ~Alive(entry) /\ ~cancelling[entry]
    BY <2>1 DEF PlaceInv, StateInv, Alive
  <2>3. call[entry] \in {"publish", "end", "returned"}  BY <2>2 DEF Published
  <2>4. \A u \in Timeouts : (Published(u)' <=> Published(u)) /\ (Alive(u)' <=> Alive(u))
    BY <1>0, <2>1 DEF Published, Alive
  <2>5. entry \in Counted /\ Counted' = Counted \ {entry}
    BY <1>0, <2>1, <2>2, <2>3, <2>4 DEF Counted
  <2>6. Admitted' \subseteq Admitted  BY <1>0, <2>5 DEF Admitted
  <2>7. QED  BY <2>1, <2>5, <2>6, PendingLowered
<1>3. CASE Expire \/ RejectEntry \/ (CancelEntry /\ state[entry] = "Scheduled")
  <2>1. /\ entry \in Timeouts /\ sched # "settle" /\ sched' = "settle"
        /\ UNCHANGED <<entry, pending>>
        /\ Alive(entry) /\ state'[entry] \notin {"Scheduled", "Dispatching"}
        /\ \A u \in Timeouts : u # entry => state'[u] = state[u]
    BY <1>3, InHand DEF Expire, RejectEntry, CancelEntry, StateInv, Alive, TypeOK
  <2>2. Counted' = Counted /\ Admitted' \subseteq Admitted
    BY <1>1, <2>1 DEF Alive
  <2>3. QED  BY <2>1, <2>2, PendingKept
<1>4. CASE ~(Settle \/ Expire \/ RejectEntry \/ (CancelEntry /\ state[entry] = "Scheduled"))
  <2>1. sched # "settle" /\ sched' # "settle" /\ pending' = pending
    BY <1>4
       DEF SchedulerStep, DrainCommand, DrainDone, ReleaseSlot, AddDue, AddStored, SkipCancelled,
         CheckShutdown, BeginPoll, PollDone, SelectShutdown, SelectCommand, SelectTimer, Claim,
         ClaimLost, SubmitAccepted, SubmitRejected, Restore, Postpone, FinishCommand,
         FinishDrained, CancelEntry, FinishDone, FlushEntry, FinishEntry, Receive, Move, schedVars,
         TypeOK
  <2>2. \A u \in Timeouts : Alive(u)' <=> Alive(u)
    <3>1. CASE Claim \/ Restore
      BY <3>1, InHand DEF Claim, Restore, StateInv, Alive, TypeOK
    <3>2. CASE ~(Claim \/ Restore)
      <4>1. UNCHANGED state
        BY <1>4, <3>2
           DEF SchedulerStep, DrainCommand, DrainDone, ReleaseSlot, AddDue, AddStored,
             SkipCancelled, CheckShutdown, BeginPoll, PollDone, SelectShutdown, SelectCommand,
             SelectTimer, ClaimLost, SubmitAccepted, SubmitRejected, Postpone, FinishCommand,
             FinishDrained, CancelEntry, FinishDone, FlushEntry, FinishEntry, Receive, Move
      <4>2. QED  BY <4>1 DEF Alive
    <3>3. QED  BY <3>1, <3>2
  <2>3. QED  BY <1>1, <2>1, <2>2, PendingKept
<1>5. QED  BY <1>2, <1>3, <1>4

LEMMA PendingStep ==
  ASSUME TypeOK, SchedInv, PlaceInv, StateInv, PendingInv, Next
  PROVE  PendingInv'
<1>1. ASSUME UNCHANGED <<call, cancelling, state, sched, entry, pending>> PROVE PendingInv'
  BY <1>1 DEF PendingInv, Counted, Admitted, Published, Alive, At
<1>2. ASSUME NEW t \in Timeouts, Cancel(t) PROVE PendingInv'
  <2>1. /\ call[t] = "returned" /\ Alive(t) /\ cancelling'[t]
        /\ \A u \in Timeouts : u # t => state'[u] = state[u] /\ cancelling'[u] = cancelling[u]
        /\ UNCHANGED <<call, sched, entry, pending>>
    BY <1>2 DEF Cancel, callVars, schedVars, Alive, TypeOK
  <2>2. \A u \in Timeouts : /\ Published(u)' <=> Published(u)
                            /\ u # t => (Alive(u)' <=> Alive(u))
    BY <2>1 DEF Published, Alive
  <2>3. \A u \in Timeouts : u \in Counted' <=> u \in Counted
    <3>1. t \in Counted /\ t \in Counted'  BY <2>1 DEF Counted, Published
    <3>2. \A u \in Timeouts : u # t => (u \in Counted' <=> u \in Counted)
      BY <2>1, <2>2 DEF Counted, At
    <3>3. QED  BY <3>1, <3>2
  <2>4. Counted' = Counted  BY <2>3 DEF Counted
  <2>5. Admitted' \subseteq Admitted  BY <2>1, <2>4 DEF Admitted
  <2>6. QED  BY <2>1, <2>4, <2>5, PendingKept
<1>3. ASSUME NEW t \in Timeouts, CancelPending(t) PROVE PendingInv'
  <2>1. /\ cancelling[t] /\ ~cancelling'[t] /\ pending' = pending - 1
        /\ \A u \in Timeouts : u # t => cancelling'[u] = cancelling[u]
        /\ UNCHANGED <<call, sched, entry, state>>
    BY <1>3 DEF CancelPending, callVars, schedVars, TypeOK
  <2>2. /\ call[t] = "returned" /\ ~Alive(t) /\ ~(sched = "settle" /\ entry = t)
    BY <2>1 DEF StateInv, Alive
  <2>3. \A u \in Timeouts : (Published(u)' <=> Published(u)) /\ (Alive(u)' <=> Alive(u))
    BY <2>1 DEF Published, Alive
  <2>4. t \in Counted /\ t \notin Counted'
    BY <2>1, <2>2, <2>3 DEF Counted, Published, At
  <2>5. \A u \in Timeouts : u # t => (u \in Counted' <=> u \in Counted)
    BY <2>1, <2>3 DEF Counted, At
  <2>6. Counted' = Counted \ {t}
    <3>1. Counted \subseteq Timeouts /\ Counted' \subseteq Timeouts  BY DEF Counted
    <3>2. QED  BY <2>4, <2>5, <3>1
  <2>7. Admitted' \subseteq Admitted  BY <2>1, <2>6 DEF Admitted
  <2>8. QED  BY <2>1, <2>4, <2>6, <2>7, PendingLowered
<1>4. ASSUME NEW c \in Closers, Closing(c) PROVE PendingInv'
  BY <1>1, <1>4, ClosingKeeps DEF schedVars
<1>5. QED
  BY <1>1, <1>2, <1>3, <1>4, NextCases, PendingCalling, PendingScheduler
     DEF Ripen, Run, PoolShutdown, vars, callVars, schedVars

LEMMA NextInv ==
  ASSUME IInv, [Next]_vars
  PROVE  IInv'
<1>1. CASE Next
  BY <1>1, TypeStep, EnqueueStep, MutexStep, OnceStep, PermitStep, SchedStep, PlaceStep, StateStep,
     HandStep, PendingStep DEF IInv
<1>2. CASE UNCHANGED vars
  <2> USE <1>2 DEF vars, callVars, closeVars, wheelVars, poolVars, schedVars, chanVars, IInv
  <2>1. TypeOK' /\ OnceInv' /\ MutexInv'  BY DEF TypeOK, OnceInv, MutexInv
  <2>2. EnqueueInv' /\ PermitsConserved' /\ PendingInv'
    BY DEF EnqueueInv, Enqueuing, PermitsConserved, At, PendingInv, Counted, Admitted, Published,
           Alive
  <2>3. SchedInv' /\ PlaceInv' /\ StateInv' /\ HandInv'
    BY DEF SchedInv, Finishing, Flushing, PlaceInv, StateInv, HandInv, Queued, Published, Alive
  <2>4. QED  BY <2>1, <2>2, <2>3
<1>3. QED  BY <1>1, <1>2

-----------------------------------------------------------------------------
(* The theorems *)

\* The inductive invariant holds in every state that can be reached.
THEOREM Invariance == Spec => []IInv
<1>1. Init => IInv  BY InitInv
<1>2. IInv /\ [Next]_vars => IInv'  BY NextInv
<1>3. QED  BY <1>1, <1>2, PTL DEF Spec

\* The variables keep their types; above all neither the pending counter nor the
\* count of enqueuesDone, which would panic, ever becomes negative.
THEOREM TypeCorrect == Spec => []TypeOK
<1>1. IInv => TypeOK  BY DEF IInv
<1>2. QED  BY <1>1, Invariance, PTL

\* Command permits are conserved, so that a send with a permit finds room in the
\* channel and returning one never waits.
THEOREM PermitsHold == Spec => []PermitsConserved
<1>1. IInv => PermitsConserved  BY DEF IInv
<1>2. QED  BY <1>1, Invariance, PTL

\* The pending counter is exact, though it is raised and lowered by callers, by
\* their cancellations and by the scheduler, each at a time of its own.
THEOREM PendingIsExact == Spec => []PendingExact
<1>1. IInv => PendingExact
  BY DEF IInv, PendingInv, PendingExact, Counted
<1>2. QED  BY <1>1, Invariance, PTL

\* The accepted timeouts that are not complete keep to the quota.
THEOREM QuotaHolds == Spec => []QuotaRespected
<1>1. IInv => QuotaRespected
  <2> SUFFICES ASSUME IInv PROVE QuotaRespected  OBVIOUS
  <2> DEFINE open == {t \in Timeouts : Published(t) /\ Alive(t)}
  <2>1. open \subseteq Admitted /\ Admitted \subseteq Counted
    BY DEF Admitted, Counted, Published
  <2>2. IsFiniteSet(Admitted) /\ IsFiniteSet(open)
    BY <2>1, FS_Subset DEF IInv, PendingInv
  <2>3. /\ Cardinality(open) <= Cardinality(Admitted)
        /\ Cardinality(open) \in Nat /\ Cardinality(Admitted) \in Nat
    BY <2>1, <2>2, FS_Subset, FS_CardinalityType
  <2>4. Cardinality(Admitted) <= MaxPending  BY DEF IInv, PendingInv
  <2>5. QED  BY <2>3, <2>4, TimerAssumption DEF QuotaRespected
<1>2. QED  BY <1>1, Invariance, PTL

\* An accepted timeout that is alive is in just one place, and none is in two.
THEOREM OnePlace == Spec => []InOnePlace
<1>1. IInv => InOnePlace
  <2> SUFFICES ASSUME IInv, NEW t \in Timeouts
               PROVE  /\ Places(t) <= 1
                      /\ Published(t) /\ Alive(t) => Places(t) = 1
    BY DEF InOnePlace
  <2>1. PlaceInv /\ commands \in Seq(Timeouts)  BY DEF IInv, TypeOK
  <2> DEFINE at == {i \in DOMAIN commands : commands[i] = t}
  <2>2. DOMAIN commands = 1 .. Len(commands)  BY <2>1
  <2>3. CASE Queued(t)
    <3>1. PICK i \in 1 .. Len(commands) : commands[i] = t  BY <2>3 DEF Queued, Content
    <3>2. at = {i}  BY <2>1, <2>2, <3>1 DEF PlaceInv, Distinct
    <3>3. Cardinality(at) = 1  BY <3>2, FS_Singleton
    <3>4. t \notin wheel /\ entry # t  BY <2>1, <2>3 DEF PlaceInv
    <3>5. QED  BY <3>3, <3>4 DEF Places
  <2>4. CASE ~Queued(t)
    <3>1. at = {}  BY <2>2, <2>4 DEF Queued, Content
    <3>2. Cardinality(at) = 0  BY <3>1, FS_EmptySet
    <3>3. t \in wheel => entry # t  BY <2>1 DEF PlaceInv
    <3>4. Published(t) /\ Alive(t) => t \in wheel \/ entry = t  BY <2>1, <2>4 DEF PlaceInv
    <3>5. QED  BY <3>2, <3>3, <3>4 DEF Places
  <2>5. QED  BY <2>3, <2>4
<1>2. QED  BY <1>1, Invariance, PTL

\* A task is handed over at most once, and not when its cancellation succeeded.
THEOREM CancelHolds == Spec => []CancelIsFinal
<1>1. IInv => CancelIsFinal
  BY DEF IInv, HandInv, StateInv, CancelIsFinal
<1>2. QED  BY <1>1, Invariance, PTL

\* A Shutdown that returned without an error left no accepted timeout undecided.
THEOREM ShutdownHolds == Spec => []ShutdownComplete
<1>1. IInv => ShutdownComplete
  <2> SUFFICES ASSUME IInv, NEW c \in Closers, closer[c] = "returned"
               PROVE  /\ commands = <<>> /\ wheel = {} /\ entry = None
                      /\ \A t \in Timeouts : Published(t) => ~Alive(t)
    BY DEF ShutdownComplete
  <2>1. sched = "stopped"  BY DEF IInv, SchedInv
  <2>2. commands = <<>> /\ wheel = {} /\ entry = None  BY <2>1 DEF IInv, SchedInv, Flushing
  <2>3. \A t \in Timeouts : ~Queued(t) /\ t # None
    BY <2>2, EmptyContent, TimerAssumption DEF IInv, TypeOK, Queued
  <2>4. QED  BY <2>2, <2>3 DEF IInv, PlaceInv
<1>2. QED  BY <1>1, Invariance, PTL

-----------------------------------------------------------------------------
(* The refinement of TimeoutService *)

\* What has become of a timeout, in the terms of TimeoutService.
statusOf(t) ==
  IF call[t] = "refused" THEN "refused"
  ELSE IF ~Published(t) THEN "unknown"
  ELSE IF handed[t] > 0 THEN "handed"
  ELSE IF state[t] = "Cancelled" THEN "cancelled"
  ELSE IF state[t] = "Rejected" THEN "rejected"
  ELSE IF Alive(t) THEN "pending" ELSE "unknown"

status == [t \in Timeouts |-> statusOf(t)]

LEMMA ServiceInit == Init => Service!Init
BY DEF Init, Service!Init, Published

\* A change of one timeout's status is a step that gives it the new status.
LEMMA StatusChange ==
  ASSUME NEW t \in Timeouts, \A u \in Timeouts : u # t => statusOf(u)' = statusOf(u)
  PROVE  status' = [status EXCEPT ![t] = statusOf(t)']
BY DEF status

LEMMA ServiceBecomes ==
  ASSUME NEW t \in Timeouts, \A u \in Timeouts : u # t => statusOf(u)' = statusOf(u),
         UNCHANGED <<ran, isClosed>>,
         NEW from, statusOf(t) = from, NEW to, statusOf(t)' = to
  PROVE  Service!Becomes(t, from, to)
<1>1. status' = [status EXCEPT ![t] = to]  BY StatusChange
<1>2. status[t] = from  BY DEF status
<1>3. QED  BY <1>1, <1>2 DEF Service!Becomes, status, statusOf

LEMMA ServiceNext ==
  ASSUME IInv, [Next]_vars
  PROVE  [Service!Next]_(Service!vars)
<1> DEFINE stutter == UNCHANGED <<status, ran, isClosed>>
<1>0. stutter => [Service!Next]_(Service!vars)
  BY DEF Service!vars, status, statusOf
<1>1. TypeOK /\ OnceInv /\ SchedInv /\ PlaceInv /\ StateInv /\ HandInv  BY DEF IInv
<1>2. ASSUME UNCHANGED <<call, state, handed, ran, isClosed>> PROVE stutter
  BY <1>2 DEF status, statusOf, Published, Alive
\* Only what is published has been handed over or is in hand.
<1>3. /\ \A u \in Timeouts :
           handed[u] > 0 => Published(u) /\ state[u] \in {"Expired", "Dispatching"}
      /\ entry \in Timeouts => Published(entry) /\ call[entry] # "refused"
  <2>1. ASSUME NEW u \in Timeouts, handed[u] > 0
        PROVE  Published(u) /\ state[u] \in {"Expired", "Dispatching"}
    <3>1. state[u] = "Expired" \/ (entry = u /\ sched = "expire")
      BY <1>1, <2>1 DEF HandInv
    <3>2. CASE state[u] = "Expired"
      BY <1>1, <3>2 DEF StateInv, Published, TypeOK, CallPoints
    <3>3. CASE entry = u /\ sched = "expire"
      BY <1>1, <3>3 DEF StateInv, PlaceInv
    <3>4. QED  BY <3>1, <3>2, <3>3
  <2>2. QED  BY <1>1, <2>1 DEF PlaceInv, Published
<1>4. ASSUME NEW t \in Timeouts, Calling(t) PROVE stutter \/ Service!Accept(t) \/ Service!Refuse(t)
  <2>1. /\ UNCHANGED <<handed, ran, isClosed, sched, entry>>
        /\ \A u \in Timeouts : u # t => call'[u] = call[u] /\ state'[u] = state[u]
    BY <1>1, <1>4, CallingKeeps DEF poolVars, closeVars, schedVars
  <2>2. \A u \in Timeouts : u # t => statusOf(u)' = statusOf(u)
    BY <2>1 DEF statusOf, Published, Alive
  <2>3. CASE Send(t) /\ call'[t] = "publish"
    <3>1. call[t] = "send" /\ ~isClosed /\ UNCHANGED state
      BY <1>1, <2>3 DEF Send, Goto, TypeOK
    <3>2. state[t] = "Scheduled" /\ ~(handed[t] > 0)
      BY <1>1, <1>3, <3>1 DEF StateInv
    <3>3. statusOf(t) = "unknown"  BY <3>1 DEF statusOf, Published
    <3>4. statusOf(t)' = "pending"
      BY <2>1, <2>3, <3>1, <3>2 DEF statusOf, Published, Alive
    <3>5. QED  BY <2>1, <2>2, <3>1, <3>3, <3>4, ServiceBecomes DEF Service!Accept
  <2>4. CASE ~(Send(t) /\ call'[t] = "publish")
    <3>1. \/ Published(t) /\ Published(t)' /\ call[t] # "refused" /\ call'[t] # "refused"
             /\ state'[t] = state[t]
          \/ ~Published(t) /\ ~Published(t)' /\ call[t] # "refused"
      BY <1>1, <1>4, <2>4
         DEF Calling, Schedule, ScheduleStep, Reserve, Release, BeginEnqueue, TakeSlot, NoSlot,
             ContextDone, Send, PublishDepth, ReturnSlot, EndEnqueue, Goto, TypeOK, Published
    <3>2. CASE statusOf(t)' = statusOf(t)
      BY <2>1, <2>2, <3>2 DEF status
    <3>3. CASE statusOf(t)' # statusOf(t)
      <4>1. statusOf(t) = "unknown" /\ statusOf(t)' = "refused"
        BY <2>1, <3>1, <3>3 DEF statusOf, Alive
      <4>2. QED  BY <2>1, <2>2, <4>1, ServiceBecomes DEF Service!Refuse
    <3>4. QED  BY <3>2, <3>3
  <2>5. QED  BY <2>3, <2>4
<1>5. ASSUME NEW t \in Timeouts, Cancel(t) PROVE Service!Cancel(t)
  <2>1. /\ call[t] = "returned" /\ state[t] = "Scheduled" /\ state'[t] = "Cancelled"
        /\ \A u \in Timeouts : u # t => state'[u] = state[u]
        /\ UNCHANGED <<call, handed, ran, isClosed>>
    BY <1>1, <1>5 DEF Cancel, callVars, poolVars, closeVars, TypeOK
  <2>2. ~(handed[t] > 0)  BY <1>3, <2>1
  <2>3. statusOf(t) = "pending" /\ statusOf(t)' = "cancelled"
    BY <2>1, <2>2 DEF statusOf, Published, Alive
  <2>4. \A u \in Timeouts : u # t => statusOf(u)' = statusOf(u)
    BY <2>1 DEF statusOf, Published, Alive
  <2>5. QED  BY <2>1, <2>3, <2>4, ServiceBecomes DEF Service!Cancel
<1>6. ASSUME NEW t \in Timeouts, Run(t) PROVE Service!Run(t)
  <2>1. ran[t] < handed[t] /\ ran' = [ran EXCEPT ![t] = ran[t] + 1]
        /\ UNCHANGED <<call, state, handed, isClosed>>
    BY <1>6 DEF Run, callVars, closeVars
  <2>2. ran[t] = 0 /\ handed[t] = 1  BY <1>1, <2>1 DEF HandInv, TypeOK
  <2>3. statusOf(t) = "handed"  BY <1>3, <2>2 DEF statusOf, Published
  <2>4. UNCHANGED status  BY <2>1 DEF status, statusOf, Published, Alive
  <2>5. QED  BY <2>1, <2>2, <2>3, <2>4 DEF Service!Run, status, statusOf
<1>7. ASSUME NEW c \in Closers, Closing(c) PROVE stutter \/ Service!Close
  <2>1. UNCHANGED <<call, state, handed, ran>>
    BY <1>1, <1>7, ClosingKeeps DEF poolVars
  <2>2. CASE MarkClosed(c)
    <3>1. ~isClosed /\ isClosed' = TRUE
      BY <1>1, <2>2 DEF MarkClosed, Step, OnceInv
    <3>2. UNCHANGED status  BY <2>1 DEF status, statusOf, Published, Alive
    <3>3. QED  BY <2>1, <3>1, <3>2 DEF Service!Close, status, statusOf
  <2>3. CASE ~MarkClosed(c)
    <3>1. isClosed' = isClosed
      BY <1>7, <2>3 DEF Closing, Shutdown, ShutdownStep, EnterOnce, CloseSignal, EnqueuesDone,
         AwaitScheduler, GiveUp
    <3>2. QED  BY <1>2, <2>1, <3>1
  <2>4. QED  BY <2>2, <2>3
<1>8. CASE SchedulerStep
  <2>0. UNCHANGED <<call, ran, isClosed>>  BY <1>8, SchedulerKeeps DEF callVars, closeVars
  <2>1. ASSUME NEW t \in Timeouts,
               \A u \in Timeouts : u # t => state'[u] = state[u] /\ handed'[u] = handed[u]
        PROVE  /\ \A u \in Timeouts : u # t => statusOf(u)' = statusOf(u)
               /\ statusOf(t)' = statusOf(t) => stutter
    <3>1. \A u \in Timeouts : u # t => statusOf(u)' = statusOf(u)
      BY <2>0, <2>1 DEF statusOf, Published, Alive
    <3>2. QED  BY <2>0, <2>1, <3>1 DEF status
  <2>2. CASE SubmitAccepted
    <3>0. entry \in Timeouts  BY <1>1, <2>2, InHand DEF SubmitAccepted, At
    <3>1. PICK t \in Timeouts : t = entry  BY <3>0
    <3>2. /\ state[t] = "Dispatching" /\ sched = "submit" /\ UNCHANGED state
          /\ handed' = [handed EXCEPT ![t] = handed[t] + 1]
      BY <1>1, <2>2, <3>1 DEF SubmitAccepted, At, StateInv
    <3>3. handed[t] = 0  BY <1>1, <3>2 DEF HandInv
    <3>4. handed'[t] = 1 /\ \A u \in Timeouts : u # t => handed'[u] = handed[u]
      BY <1>1, <3>2, <3>3 DEF TypeOK
    <3>5. statusOf(t) = "pending" /\ statusOf(t)' = "handed"
      BY <1>3, <2>0, <3>1, <3>2, <3>3, <3>4 DEF statusOf, Published, Alive
    <3>6. Service!Hand(t)
      BY <2>0, <2>1, <3>2, <3>4, <3>5, ServiceBecomes DEF Service!Hand
    <3>7. QED  BY <3>6 DEF Service!Next
  <2>3. CASE Expire
    <3>0. entry \in Timeouts  BY <1>1, <2>3, InHand DEF Expire, At
    <3>1. PICK t \in Timeouts : t = entry  BY <3>0
    <3>2. /\ sched = "expire" /\ UNCHANGED handed
          /\ \A u \in Timeouts : u # t => state'[u] = state[u]
      BY <1>1, <2>3, <3>1 DEF Expire, At, poolVars, TypeOK
    <3>3. handed[t] > 0  BY <1>1, <3>1, <3>2 DEF HandInv
    <3>4. statusOf(t)' = statusOf(t)
      BY <1>3, <2>0, <3>1, <3>2, <3>3 DEF statusOf, Published
    <3>5. QED  BY <1>0, <2>1, <3>2, <3>4
  <2>4. CASE RejectEntry \/ (CancelEntry /\ state[entry] = "Scheduled")
    <3>0. entry \in Timeouts  BY <1>1, <2>4, InHand DEF RejectEntry, CancelEntry, At
    <3>1. PICK t \in Timeouts : t = entry  BY <3>0
    <3>2. /\ Alive(t) /\ sched # "expire" /\ UNCHANGED handed
          /\ state'[t] \in {"Rejected", "Cancelled"}
          /\ \A u \in Timeouts : u # t => state'[u] = state[u]
      BY <1>1, <2>4, <3>1
         DEF RejectEntry, CancelEntry, At, poolVars, TypeOK, StateInv, Alive
    <3>3. ~(handed[t] > 0)  BY <1>1, <3>2 DEF HandInv, Alive
    <3>4. statusOf(t) = "pending"
      BY <1>3, <3>1, <3>2, <3>3 DEF statusOf, Published, Alive
    <3>5. \/ statusOf(t)' = "rejected"
          \/ statusOf(t)' = "cancelled"
      BY <1>3, <2>0, <3>1, <3>2, <3>3 DEF statusOf, Published
    <3>6. Service!Reject(t) \/ Service!Cancel(t)
      BY <2>0, <2>1, <3>2, <3>4, <3>5, ServiceBecomes DEF Service!Reject, Service!Cancel
    <3>7. QED  BY <3>6 DEF Service!Next
  <2>5. CASE Claim \/ Restore
    <3>0. entry \in Timeouts  BY <1>1, <2>5, InHand DEF Claim, Restore, At
    <3>1. PICK t \in Timeouts : t = entry  BY <3>0
    <3>2. /\ Alive(t) /\ UNCHANGED handed
          /\ state'[t] \in {"Dispatching", "Scheduled"}
          /\ \A u \in Timeouts : u # t => state'[u] = state[u]
      BY <1>1, <2>5, <3>1 DEF Claim, Restore, At, poolVars, TypeOK, StateInv, Alive
    <3>3. statusOf(t)' = statusOf(t)
      BY <2>0, <3>2 DEF statusOf, Published, Alive
    <3>4. QED  BY <1>0, <2>1, <3>2, <3>3
  <2>6. CASE ~(\/ SubmitAccepted \/ Expire \/ RejectEntry \/ Claim \/ Restore
               \/ (CancelEntry /\ state[entry] = "Scheduled"))
    <3>1. UNCHANGED <<state, handed>>
      BY <1>8, <2>6
         DEF SchedulerStep, DrainCommand, DrainDone, ReleaseSlot, AddDue, AddStored,
           SkipCancelled, CheckShutdown, BeginPoll, PollDone, SelectShutdown, SelectCommand,
           SelectTimer, ClaimLost, SubmitRejected, Postpone, Settle, FinishCommand, FinishDrained,
           CancelEntry, FinishDone, FlushEntry, FinishEntry, Receive, Move, poolVars
    <3>2. QED  BY <1>0, <1>2, <2>0, <3>1
  <2>7. QED  BY <2>2, <2>3, <2>4, <2>5, <2>6
<1>9. CASE \/ \E t \in Timeouts : CancelPending(t) \/ Ripen(t)
           \/ PoolShutdown \/ UNCHANGED vars
  BY <1>0, <1>2, <1>9
     DEF CancelPending, Ripen, PoolShutdown, vars, callVars, poolVars, closeVars
<1>10. CASE \E t \in Timeouts : Calling(t) \/ Cancel(t) \/ Run(t)
  BY <1>0, <1>4, <1>5, <1>6, <1>10 DEF Service!Next
<1>11. CASE \E c \in Closers : Closing(c)
  BY <1>0, <1>7, <1>11 DEF Service!Next
<1>12. QED  BY <1>8, <1>9, <1>10, <1>11, NextCases

\* Refinement: whatever its callers, its scheduler and its worker pool do, the
\* timer is a TimeoutService: each accepted timeout comes to one end, runs only
\* when it was handed over and then once, and none is accepted once it is closed.
THEOREM Refinement == Spec => ImplementsService
<1>1. Init => Service!Init  BY ServiceInit
<1>2. IInv /\ [Next]_vars => [Service!Next]_(Service!vars)  BY ServiceNext
<1>3. QED  BY <1>1, <1>2, Invariance, PTL DEF Spec, ImplementsService, Service!Spec
=============================================================================
