----------------------------- MODULE TimingWheel -----------------------------
(***************************************************************************)
(* The hierarchical timing wheel of internal/timingwheel: a chain of wheel *)
(* levels, their buckets, and the delay queue that orders the buckets that *)
(* hold entries.  One goroutine owns all of it, so no two operations       *)
(* overlap; but an operation is a long sequence of small moves - Add       *)
(* recurses along the chain, and the handler of a bucket's Flush adds      *)
(* entries to the very wheel that is being flushed.  Each move is an       *)
(* action here.  The owner is left free: it adds entries with any          *)
(* deadline, polls when it likes, and does with an entry that came due     *)
(* what it likes (give it to a worker, or add it again with a later        *)
(* deadline).                                                              *)
(*                                                                         *)
(* A bucket's intrusive list is modelled by the bucket each entry is in;   *)
(* the heap by the set of its offers.  QueueIsExact shows that no offer is *)
(* ever pushed twice, which is what makes a set as good as a heap.         *)
(***************************************************************************)
EXTENDS Integers

CONSTANTS
  Entries,      \* the TaskEntry nodes
  Deadlines,    \* the deadlines (ms) the owner may give an entry
  StartTimes,   \* the times (ms) the wheel may be created at
  Tick,         \* tick of the root wheel in ms, after rounding (always >= 1)
  BucketCount,  \* buckets per wheel level
  MaxLevels,    \* BOUND: levels the chain may grow to
  None          \* no entry (a nil *TaskEntry)

ASSUME WheelAssumption ==
  /\ Deadlines \subseteq Nat
  /\ StartTimes \subseteq Nat
  /\ Tick \in Nat \ {0}
  /\ BucketCount \in Nat \ {0}
  /\ MaxLevels \in Nat \ {0}
  /\ None \notin Entries

Levels  == 1 .. MaxLevels
Slots   == 0 .. BucketCount - 1
Buckets == Levels \X Slots   \* <<l, i>> is buckets[i] of the l-th wheel
NoBucket == <<0, 0>>         \* a nil *Bucket
Unset   == -1                \* unsetExpiration

VARIABLES
  levels,       \* wheels created so far: the root and its overflow chain
  tick,         \* [Levels -> Nat], TimingWheel.tick
  currentTime,  \* [Levels -> Nat], TimingWheel.currentTime
  expiration,   \* [Buckets -> Int], Bucket.expiration
  bucket,       \* [Entries -> Bucket or NoBucket], TaskEntry.bucket
  deadline,     \* [Entries -> Nat], TaskEntry.deadline
  queue,        \* the offers in BucketDelayQueue.heap
  adding,       \* the entry a running Add was called with, or None
  at,           \* the level that Add has recursed to
  flushing,     \* the bucket a running Flush empties, or NoBucket
  due           \* the entry the last Add reported due, or None

wheelVars == <<levels, tick, currentTime, expiration>>
vars == <<wheelVars, bucket, deadline, queue, adding, at, flushing, due>>

\* An offer keeps the expiration the bucket has when it is offered.
\* Mutant: the bucket is offered before its expiration is set.
OfferBug(b, x) == [bucket |-> b, expiration |-> expiration[b]]
Offer(b, x)    == [bucket |-> b, expiration |-> x]
RoundDown(t, k) == t - (t % k)
interval(l) == tick[l] * BucketCount

\* NewTimingWheel(tick, bucketCount, StartTime(clock, tick), queue)
Init ==
  /\ levels = 1
  /\ tick = [l \in Levels |-> IF l = 1 THEN Tick ELSE 0]
  /\ \E start \in StartTimes :
       currentTime = [l \in Levels |-> IF l = 1 THEN RoundDown(start, Tick) ELSE 0]
  /\ expiration = [b \in Buckets |-> Unset]
  /\ bucket = [e \in Entries |-> NoBucket]
  /\ deadline = [e \in Entries |-> 0]
  /\ queue = {}
  /\ adding = None
  /\ at = 1
  /\ flushing = NoBucket
  /\ due = None

-----------------------------------------------------------------------------
(* TimingWheel.Add, one action per level it visits *)

Idle == adding = None /\ due = None

\* The call tw.Add(entry) on the root wheel.
CallAdd(e) ==
  /\ adding' = e
  /\ at' = 1

\* A new entry, outside any flush.
Add(e, d) ==
  /\ Idle
  /\ flushing = NoBucket
  /\ bucket[e] = NoBucket
  /\ deadline' = [deadline EXCEPT ![e] = d]
  /\ CallAdd(e)
  /\ UNCHANGED <<wheelVars, bucket, queue, flushing, due>>

\* SetDeadline and Add for the entry that was due: a rejected dispatch.
AddAgain(d) ==
  /\ due # None
  /\ deadline' = [deadline EXCEPT ![due] = d]
  /\ CallAdd(due)
  /\ due' = None
  /\ UNCHANGED <<wheelVars, bucket, queue, flushing>>

\* The owner accepts the entry that was due; the wheel has forgotten it.
Accept ==
  /\ due # None
  /\ due' = None
  /\ UNCHANGED <<wheelVars, bucket, deadline, queue, adding, at, flushing>>

\* Mutant: due one millisecond too soon.
IsDueBug(l) == deadline[adding] <= currentTime[l] + tick[l]
IsDue(l)    == deadline[adding] < currentTime[l] + tick[l]

\* Mutant: the end of the interval counts as inside it.
FitsBug(l) == deadline[adding] <= currentTime[l] + interval(l)
Fits(l)    == deadline[adding] < currentTime[l] + interval(l)

\* tw.buckets[virtualID%tw.bucketCount]
BucketOf(l, virtualID) == <<l, virtualID % BucketCount>>

AddDue ==
  /\ adding # None
  /\ IsDue(at)
  /\ due' = adding
  /\ adding' = None
  /\ UNCHANGED <<wheelVars, bucket, deadline, queue, at, flushing>>

\* Bucket.Add unlinks the entry from any other bucket and links it here; the
\* bucket is offered to the delay queue when SetExpiration changes it.
AddToBucket ==
  /\ adding # None
  /\ ~IsDue(at)
  /\ Fits(at)
  /\ LET virtualID == deadline[adding] \div tick[at]
         b == BucketOf(at, virtualID)
         x == virtualID * tick[at]
     IN /\ bucket' = [bucket EXCEPT ![adding] = b]
        /\ expiration' = [expiration EXCEPT ![b] = x]
        /\ queue' = IF expiration[b] = x THEN queue
                    ELSE queue \cup {Offer(b, x)}
  /\ adding' = None
  /\ UNCHANGED <<levels, tick, currentTime, deadline, at, flushing, due>>

\* Beyond this level: recurse into the overflow wheel, created on first use.
AddToOverflow ==
  /\ adding # None
  /\ ~IsDue(at)
  /\ ~Fits(at)
  /\ at < MaxLevels
  /\ at' = at + 1
  /\ IF at = levels
     THEN /\ levels' = levels + 1
          /\ tick' = [tick EXCEPT ![at + 1] = interval(at)]
          /\ currentTime' = [currentTime EXCEPT
                               ![at + 1] = RoundDown(currentTime[at], interval(at))]
     ELSE UNCHANGED <<levels, tick, currentTime>>
  /\ UNCHANGED <<expiration, bucket, deadline, queue, adding, flushing, due>>

-----------------------------------------------------------------------------
(* BucketDelayQueue.Poll, TimingWheel.AdvanceClock and Bucket.Flush *)

IsLive(o) == expiration[o.bucket] = o.expiration
Live == {o \in queue : IsLive(o)}

\* The live offer the heap yields first; equal expirations come in any order.
\* Mutant: the queue forgets its order.
IsNextBug(o) == o \in Live
IsNext(o) == o \in Live /\ \A p \in Live : o.expiration <= p.expiration

\* Popping up to o also discards the stale offers ordered before it.
\* Mutant: live offers of the same expiration are discarded as well.
QueueAfterBug(o) == {p \in queue : p.expiration > o.expiration}
QueueAfter(o) ==
  {p \in queue \ {o} : IsLive(p) \/ p.expiration > o.expiration}

\* AdvanceClock(t) stops at the first level that t does not move by a tick.
\* Mutants: it does not reach the overflow wheels; it is not called.
AdvancedRoot(t)  == [currentTime EXCEPT ![1] = RoundDown(t, tick[1])]
AdvancedNever(t) == currentTime
Advanced(t) ==
  [l \in Levels |->
     IF l <= levels /\ \A k \in 1 .. l : t >= currentTime[k] + tick[k]
     THEN RoundDown(t, tick[l]) ELSE currentTime[l]]

\* Poll(now), and for the bucket it yields AdvanceClock(bucket.Expiration())
\* and the call of Flush.
Poll(now) ==
  /\ Idle
  /\ flushing = NoBucket
  /\ \E o \in queue :
       /\ IsNext(o)
       /\ o.expiration <= now
       /\ queue' = QueueAfter(o)
       /\ currentTime' = Advanced(o.expiration)
       /\ flushing' = o.bucket
  /\ UNCHANGED <<levels, tick, expiration, bucket, deadline, adding, at, due>>

\* Flush removes an entry and its handler adds it to the root wheel again.
FlushEntry(e) ==
  /\ Idle
  /\ flushing # NoBucket
  /\ bucket[e] = flushing
  /\ bucket' = [bucket EXCEPT ![e] = NoBucket]
  /\ CallAdd(e)
  /\ UNCHANGED <<wheelVars, deadline, queue, flushing, due>>

\* Flush removes an entry that was cancelled; its handler returns at once.
FlushCancelled(e) ==
  /\ Idle
  /\ flushing # NoBucket
  /\ bucket[e] = flushing
  /\ bucket' = [bucket EXCEPT ![e] = NoBucket]
  /\ UNCHANGED <<wheelVars, deadline, queue, adding, at, flushing, due>>

\* The bucket is empty: Flush clears its expiration and returns.
FlushDone ==
  /\ Idle
  /\ flushing # NoBucket
  /\ \A e \in Entries : bucket[e] # flushing
  /\ expiration' = [expiration EXCEPT ![flushing] = Unset]
  /\ flushing' = NoBucket
  /\ UNCHANGED <<levels, tick, currentTime, bucket, deadline, queue, adding, at, due>>

Next ==
  \/ \E e \in Entries, d \in Deadlines : Add(e, d)
  \/ \E d \in Deadlines : AddAgain(d)
  \/ Accept
  \/ AddDue
  \/ AddToBucket
  \/ AddToOverflow
  \/ \E now \in Deadlines : Poll(now)
  \/ \E e \in Entries : FlushEntry(e) \/ FlushCancelled(e)
  \/ FlushDone

Spec == Init /\ [][Next]_vars

-----------------------------------------------------------------------------
(* Properties *)

\* Every variable has its type; entries are in buckets of wheels that exist.
TypeOK ==
  /\ levels \in Levels
  /\ tick \in [Levels -> Nat]
  /\ currentTime \in [Levels -> Nat]
  /\ expiration \in [Buckets -> Nat \cup {Unset}]
  /\ bucket \in [Entries -> Buckets \cup {NoBucket}]
  /\ deadline \in [Entries -> Nat]
  /\ queue \subseteq [bucket : Buckets, expiration : Nat]
  /\ adding \in Entries \cup {None}
  /\ at \in Levels
  /\ flushing \in Buckets \cup {NoBucket}
  /\ due \in Entries \cup {None}

Stored(e) == bucket[e] # NoBucket
Occupied(b) == \E e \in Entries : bucket[e] = b

\* Buckets are reused for ever later slots of time, yet a bucket never mixes
\* two of them: whatever sequence of adds, cascades and retries came before,
\* the slot of time a bucket stands for contains the deadline of every entry
\* in it (Add's slot arithmetic and SetExpiration).
SlotOnTime ==
  \A e \in Entries : Stored(e) =>
    LET b == bucket[e]
    IN /\ expiration[b] <= deadline[e]
       /\ deadline[e] < expiration[b] + tick[b[1]]

\* No bucket is forgotten and none is offered twice: the delay queue holds one
\* offer, with the right expiration, for each bucket with entries in it, but
\* for the one being flushed - and nothing else, so that the stale offers
\* PeekExpiration and Poll know how to discard never arise.
QueueIsExact ==
  queue = {Offer(b, expiration[b]) :
             b \in {c \in Buckets : Occupied(c) /\ c # flushing}}

\* An overflow wheel may be created at any time, and AdvanceClock skips the
\* levels a step does not move; still every level's clock is the root's
\* clock rounded down to that level's tick.
ClocksNested ==
  \A l \in 1 .. levels : currentTime[l] = RoundDown(currentTime[1], tick[l])

\* An entry is only reported due by the root wheel's clock: never a whole
\* root tick before its deadline, however many levels Add visited.
NeverEarly == due # None => deadline[due] < currentTime[1] + Tick

\* A flush ends, and a cascade too: an entry added while a bucket is flushed
\* goes to another bucket, and to a lower level if its deadline is in the
\* slot of time that bucket stands for.
CascadeDescends ==
  [][ \A e \in Entries :
        flushing # NoBucket /\ ~Stored(e) /\ Stored(e)' =>
          /\ bucket'[e] # flushing
          /\ deadline[e] < expiration[flushing] + tick[flushing[1]]
                => bucket'[e][1] < flushing[1] ]_vars

\* NewTimingWheel's comment: deadlines beyond the interval go to an overflow
\* wheel "with a larger tick".  With one bucket per wheel, which the option
\* WithBucketCount accepts, the interval is the tick and this fails: Add
\* recurses into ever more wheels of the same tick.
OverflowIsCoarser == \A l \in 2 .. levels : tick[l] > tick[l - 1]

\* The wheel keeps the promise of the line of deadlines it stands for.
Line == INSTANCE DelayLine WITH
  held <- {e \in Entries : Stored(e) \/ adding = e},
  horizon <- currentTime[1]

ImplementsLine == Line!Spec
=============================================================================
