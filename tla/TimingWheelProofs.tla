-------------------------- MODULE TimingWheelProofs --------------------------
(***************************************************************************)
(* Proofs about TimingWheel, for every tick, bucket count, chain length    *)
(* and set of entries and deadlines.                                       *)
(***************************************************************************)
EXTENDS TimingWheel, GridLemmas, TLAPS

-----------------------------------------------------------------------------
(* The inductive invariant *)

\* Each level's tick is the interval of the level below it.
ChainInv ==
  /\ tick[1] = Tick
  /\ \A l \in 1 .. levels : tick[l] > 0
  /\ \A l \in 1 .. levels : l > 1 => tick[l] = tick[l - 1] * BucketCount
  /\ \A k, l \in 1 .. levels : k <= l => tick[l] % tick[k] = 0

\* Each level's clock is on its own grid, and the root's clock within a tick.
ClockInv ==
  \A l \in 1 .. levels :
    /\ currentTime[l] % tick[l] = 0
    /\ currentTime[l] <= currentTime[1]
    /\ currentTime[1] < currentTime[l] + tick[l]

\* A bucket in use stands for a slot of time its level covers.
InWindow(b) ==
  /\ b[1] <= levels
  /\ expiration[b] % tick[b[1]] = 0
  /\ (expiration[b] \div tick[b[1]]) % BucketCount = b[2]
  /\ currentTime[1] <= expiration[b]
  /\ expiration[b] < currentTime[b[1]] + interval(b[1])

InUse(b) == expiration[b] # Unset

BucketInv ==
  \A b \in Buckets :
    /\ InUse(b) => InWindow(b)
    /\ Occupied(b) => InUse(b)
    /\ InUse(b) /\ b # flushing => Occupied(b)

QueueInv ==
  \A o \in [bucket : Buckets, expiration : Nat] :
    o \in queue <=> /\ InUse(o.bucket)
                    /\ o.bucket # flushing
                    /\ o.expiration = expiration[o.bucket]

FlushInv ==
  flushing # NoBucket => InUse(flushing) /\ expiration[flushing] = currentTime[1]

CallInv ==
  /\ adding # None =>
       /\ due = None
       /\ bucket[adding] = NoBucket
       /\ at <= levels
       /\ at > 1 => deadline[adding] >= currentTime[at - 1] + interval(at - 1)
  /\ due # None => bucket[due] = NoBucket /\ deadline[due] < currentTime[1] + Tick

IInv ==
  /\ TypeOK
  /\ ChainInv
  /\ ClockInv
  /\ BucketInv
  /\ QueueInv
  /\ FlushInv
  /\ CallInv
  /\ SlotOnTime

-----------------------------------------------------------------------------
(* Facts about the chain of wheels *)

\* A wheel that exists has a positive tick and a time.
LEMMA LevelFacts ==
  ASSUME TypeOK, ChainInv, NEW l \in 1 .. levels
  PROVE  /\ l \in Levels
         /\ tick[l] \in Nat \ {0}
         /\ currentTime[l] \in Nat
  BY WheelAssumption DEF TypeOK, ChainInv, Levels

\* The root wheel always exists.
LEMMA RootExists ==
  ASSUME TypeOK
  PROVE  1 \in 1 .. levels /\ 1 \in Levels /\ levels \in Nat
  BY WheelAssumption DEF TypeOK, Levels

\* The current slot of a level lies in the current slot of each level above:
\* AdvanceClock, which stops at the first level that a time does not move,
\* leaves no level behind that should have moved.
LEMMA Nesting ==
  ASSUME TypeOK, ChainInv, ClockInv,
         NEW k \in 1 .. levels, NEW l \in 1 .. levels, k <= l
  PROVE  /\ currentTime[l] <= currentTime[k]
         /\ currentTime[k] + tick[k] <= currentTime[l] + tick[l]
<1> DEFINE a == currentTime[k]
           b == currentTime[l]
           t == currentTime[1]
           p == tick[k]
           q == tick[l]
<1>1. a \in Nat /\ b \in Nat /\ t \in Nat /\ p \in Nat \ {0} /\ q \in Nat \ {0}
  BY LevelFacts, RootExists
<1>2. /\ a % p = 0 /\ a <= t /\ t < a + p
      /\ b % q = 0 /\ b <= t /\ t < b + q
  BY DEF ClockInv
<1>3. q % p = 0  BY DEF ChainInv
<1> HIDE DEF a, b, t, p, q
<1>4. b % p = 0  BY <1>1, <1>2, <1>3, GridTrans
<1>5. (b + q) % p = 0  BY <1>1, <1>3, <1>4, GridSum
<1>6. b <= a
  <2>1. CASE a < b
    <3>1. a + p <= b  BY <2>1, <1>1, <1>2, <1>4, GridGap
    <3>2. QED  BY <3>1, <1>1, <1>2
  <2>2. QED  BY <2>1, <1>1
<1>7. a + p <= b + q
  <2>1. a < b + q /\ b + q \in Nat  BY <1>1, <1>2
  <2>2. QED  BY <2>1, <1>1, <1>2, <1>5, GridGap
<1>8. QED  BY <1>6, <1>7 DEF a, b, p, q

\* Every level's clock is the root's clock rounded down, which is what the
\* invariant ClocksNested says.
LEMMA ClockIsRounded ==
  ASSUME TypeOK, ChainInv, ClockInv, NEW l \in 1 .. levels
  PROVE  currentTime[l] = RoundDown(currentTime[1], tick[l])
<1>1. currentTime[l] \in Nat /\ currentTime[1] \in Nat /\ tick[l] \in Nat \ {0}
  BY LevelFacts, RootExists
<1>2. /\ currentTime[l] % tick[l] = 0
      /\ currentTime[l] <= currentTime[1]
      /\ currentTime[1] < currentTime[l] + tick[l]
  BY DEF ClockInv
<1>3. PICK r \in Nat : /\ r = RoundDown(currentTime[1], tick[l])
                       /\ r % tick[l] = 0
                       /\ r <= currentTime[1]
                       /\ currentTime[1] < r + tick[l]
  BY <1>1, RoundedDown DEF RoundDown
<1>4. QED  BY <1>1, <1>2, <1>3, GridUnique

\* Advancing the chain to a time the root has not passed rounds it down at
\* every level, though AdvanceClock recurses only as far as clocks move.
LEMMA AdvanceRounds ==
  ASSUME TypeOK, ChainInv, ClockInv,
         NEW t \in Nat, currentTime[1] <= t, NEW l \in 1 .. levels
  PROVE  /\ Advanced(t)[l] = RoundDown(t, tick[l])
         /\ RoundDown(t, tick[l]) \in Nat
         /\ RoundDown(t, tick[l]) % tick[l] = 0
         /\ RoundDown(t, tick[l]) <= t
         /\ t < RoundDown(t, tick[l]) + tick[l]
         /\ currentTime[l] <= RoundDown(t, tick[l])
<1> DEFINE c == currentTime[l]
           q == tick[l]
           r == RoundDown(t, q)
<1>1. c \in Nat /\ q \in Nat \ {0} /\ l \in Levels /\ currentTime[1] \in Nat
  BY LevelFacts, RootExists
<1>2. r \in Nat /\ r % q = 0 /\ r <= t /\ t < r + q
  BY <1>1, RoundedDown DEF RoundDown
<1>3. c % q = 0 /\ c <= currentTime[1]  BY DEF ClockInv
<1>4. Advanced(t)[l] = IF \A k \in 1 .. l : t >= currentTime[k] + tick[k]
                       THEN r ELSE c
  BY <1>1 DEF Advanced
<1>5. c <= r
  <2>1. CASE r < c
    <3>1. r + q <= c  BY <2>1, <1>1, <1>2, <1>3, GridGap
    <3>2. QED  BY <3>1, <1>1, <1>2, <1>3
  <2>2. QED  BY <2>1, <1>1, <1>2
<1>6. ASSUME NEW k \in 1 .. l, ~ (t >= currentTime[k] + tick[k])
      PROVE  r = c
  <2>1. k \in 1 .. levels /\ k <= l  BY RootExists
  <2>2. currentTime[k] \in Nat /\ tick[k] \in Nat  BY <2>1, LevelFacts
  <2>3. currentTime[k] + tick[k] <= c + q  BY <2>1, Nesting
  <2>4. t < c + q  BY <1>1, <1>6, <2>2, <2>3
  <2>5. c <= t  BY <1>1, <1>3
  <2>6. QED  BY <1>1, <1>2, <1>3, <2>4, <2>5, GridUnique
<1>7. Advanced(t)[l] = r  BY <1>4, <1>6
<1>8. QED  BY <1>2, <1>5, <1>7

-----------------------------------------------------------------------------
(* The inductive invariant holds initially and is kept by every action *)

\* No bucket and no entry is the nil value that stands for its absence.
LEMMA NilFacts == NoBucket \notin Buckets /\ None \notin Entries
  BY WheelAssumption DEF NoBucket, Buckets, Levels

LEMMA InitInv == Init => IInv
<1> SUFFICES ASSUME Init PROVE IInv  OBVIOUS
<1> USE DEF Init
<1>1. PICK start \in StartTimes :
        currentTime = [l \in Levels |-> IF l = 1 THEN RoundDown(start, Tick) ELSE 0]
  OBVIOUS
<1>2. start \in Nat /\ Tick \in Nat \ {0} /\ 1 \in Levels
  BY WheelAssumption DEF Levels
<1>3. PICK r \in Nat : r = RoundDown(start, Tick) /\ r % Tick = 0
  BY <1>2, RoundedDown DEF RoundDown
<1>4. currentTime = [l \in Levels |-> IF l = 1 THEN r ELSE 0]  BY <1>1, <1>3
<1>5. TypeOK
  <2>1. tick \in [Levels -> Nat] /\ currentTime \in [Levels -> Nat]  BY <1>2, <1>4
  <2>2. expiration \in [Buckets -> Nat \cup {Unset}]  OBVIOUS
  <2>3. bucket \in [Entries -> Buckets \cup {NoBucket}] /\ deadline \in [Entries -> Nat]
    OBVIOUS
  <2>4. QED  BY <1>2, <2>1, <2>2, <2>3 DEF TypeOK
<1>6. ChainInv
  <2>1. tick[1] = Tick /\ levels = 1  BY <1>2
  <2>2. Tick % Tick = 0  BY <1>2
  <2>3. QED  BY <1>2, <2>1, <2>2 DEF ChainInv
<1>7. ClockInv
  <2>1. tick[1] = Tick /\ levels = 1 /\ currentTime[1] = r  BY <1>2, <1>4
  <2>2. QED  BY <1>2, <1>3, <2>1 DEF ClockInv
<1>8. BucketInv
  <2>1. \A b \in Buckets : ~ InUse(b)  BY DEF InUse
  <2>2. \A b \in Buckets : ~ Occupied(b)  BY NilFacts DEF Occupied
  <2>3. QED  BY <2>1, <2>2 DEF BucketInv
<1>9. QueueInv  BY DEF QueueInv, InUse
<1>10. FlushInv /\ CallInv  BY DEF FlushInv, CallInv
<1>11. SlotOnTime  BY DEF SlotOnTime, Stored
<1>12. QED  BY <1>5, <1>6, <1>7, <1>8, <1>9, <1>10, <1>11 DEF IInv

\* What an action leaves alone when it moves neither clocks nor buckets.
LEMMA ChainKept ==
  ASSUME ChainInv, ClockInv, UNCHANGED <<levels, tick, currentTime>>
  PROVE  ChainInv' /\ ClockInv'
  BY DEF ChainInv, ClockInv

LEMMA BucketsKept ==
  ASSUME BucketInv, QueueInv, FlushInv,
         UNCHANGED <<wheelVars, bucket, queue, flushing>>
  PROVE  BucketInv' /\ QueueInv' /\ FlushInv'
<1> USE DEF wheelVars
<1>1. \A b : /\ InUse(b)' = InUse(b)
             /\ Occupied(b)' = Occupied(b)
             /\ InWindow(b)' = InWindow(b)
  BY DEF InUse, Occupied, InWindow, interval
<1>2. BucketInv'  BY <1>1 DEF BucketInv
<1>3. QueueInv'  BY <1>1 DEF QueueInv
<1>4. FlushInv'  BY <1>1 DEF FlushInv, InUse
<1>5. QED  BY <1>2, <1>3, <1>4

LEMMA AddInv ==
  ASSUME IInv, NEW e \in Entries, NEW d \in Deadlines, Add(e, d)
  PROVE  IInv'
<1> USE DEF Add, CallAdd, Idle, wheelVars
<1>1. TypeOK'
  BY WheelAssumption DEF IInv, TypeOK, Levels
<1>2. ChainInv' /\ ClockInv'  BY ChainKept DEF IInv
<1>3. BucketInv' /\ QueueInv' /\ FlushInv'  BY BucketsKept DEF IInv
<1>4. CallInv'
  BY RootExists, NilFacts DEF IInv, TypeOK, CallInv
<1>5. SlotOnTime'
  BY DEF IInv, TypeOK, SlotOnTime, Stored
<1>6. QED  BY <1>1, <1>2, <1>3, <1>4, <1>5 DEF IInv

LEMMA AddAgainInv ==
  ASSUME IInv, NEW d \in Deadlines, AddAgain(d)
  PROVE  IInv'
<1> USE DEF AddAgain, CallAdd, wheelVars
<1>1. due \in Entries /\ bucket[due] = NoBucket
  BY DEF IInv, TypeOK, CallInv
<1>2. TypeOK'
  BY <1>1, WheelAssumption DEF IInv, TypeOK, Levels
<1>3. ChainInv' /\ ClockInv'  BY ChainKept DEF IInv
<1>4. BucketInv' /\ QueueInv' /\ FlushInv'  BY BucketsKept DEF IInv
<1>5. CallInv'
  BY <1>1, RootExists, NilFacts DEF IInv, TypeOK, CallInv
<1>6. SlotOnTime'
  BY <1>1 DEF IInv, TypeOK, SlotOnTime, Stored
<1>7. QED  BY <1>2, <1>3, <1>4, <1>5, <1>6 DEF IInv

LEMMA AcceptInv ==
  ASSUME IInv, Accept
  PROVE  IInv'
<1> USE DEF Accept, wheelVars
<1>1. TypeOK'  BY DEF IInv, TypeOK
<1>2. ChainInv' /\ ClockInv'  BY ChainKept DEF IInv
<1>3. BucketInv' /\ QueueInv' /\ FlushInv'  BY BucketsKept DEF IInv
<1>4. CallInv'  BY DEF IInv, CallInv, interval
<1>5. SlotOnTime'  BY DEF IInv, SlotOnTime, Stored
<1>6. QED  BY <1>1, <1>2, <1>3, <1>4, <1>5 DEF IInv

\* Add only reports an entry due at the root: an entry that did not fit a
\* level is at least one slot ahead at the level above.
LEMMA DueAtRoot ==
  ASSUME IInv, adding # None, IsDue(at)
  PROVE  /\ at = 1
         /\ adding \in Entries
         /\ deadline[adding] < currentTime[1] + Tick
<1>1. /\ adding \in Entries /\ at \in 1 .. levels /\ deadline[adding] \in Nat
      /\ at > 1 => deadline[adding] >= currentTime[at - 1] + interval(at - 1)
  BY DEF IInv, TypeOK, CallInv, Levels
<1>2. CASE at > 1
  <2>1. at - 1 \in 1 .. levels  BY <1>1, <1>2, RootExists DEF IInv
  <2>2. /\ currentTime[at - 1] \in Nat /\ tick[at - 1] \in Nat
        /\ currentTime[at] \in Nat /\ tick[at] \in Nat
    BY <1>1, <2>1, LevelFacts DEF IInv
  <2>3. tick[at] = interval(at - 1)  BY <1>1, <1>2 DEF IInv, ChainInv, interval
  <2>4. currentTime[at] <= currentTime[at - 1]  BY <1>1, <2>1, Nesting DEF IInv
  <2>5. deadline[adding] >= currentTime[at] + tick[at]  BY <1>1, <1>2, <2>2, <2>3, <2>4
  <2>6. QED  BY <1>1, <2>2, <2>5 DEF IsDue
<1>3. CASE at = 1  BY <1>1, <1>3 DEF IsDue, IInv, ChainInv
<1>4. QED  BY <1>1, <1>2, <1>3, RootExists DEF IInv

LEMMA AddDueInv ==
  ASSUME IInv, AddDue
  PROVE  IInv'
<1> USE DEF AddDue, wheelVars
<1>1. adding \in Entries /\ deadline[adding] < currentTime[1] + Tick  BY DueAtRoot
<1>2. TypeOK'  BY <1>1 DEF IInv, TypeOK
<1>3. ChainInv' /\ ClockInv'  BY ChainKept DEF IInv
<1>4. BucketInv' /\ QueueInv' /\ FlushInv'  BY BucketsKept DEF IInv
<1>5. CallInv'  BY <1>1 DEF IInv, CallInv
<1>6. SlotOnTime'  BY DEF IInv, SlotOnTime, Stored
<1>7. QED  BY <1>2, <1>3, <1>4, <1>5, <1>6 DEF IInv

\* The bucket AddToBucket chooses and the expiration it sets: the bucket is
\* unused or already has that expiration, its slot holds the deadline and
\* starts at least a tick past this level's clock.
ChosenID == deadline[adding] \div tick[at]
Chosen   == BucketOf(at, ChosenID)
SlotTime == ChosenID * tick[at]

LEMMA ChosenBucket ==
  ASSUME IInv, adding # None, ~ IsDue(at), Fits(at)
  PROVE  /\ adding \in Entries /\ bucket[adding] = NoBucket
         /\ at \in 1 .. levels /\ at \in Levels
         /\ Chosen \in Buckets
         /\ SlotTime \in Nat
         /\ SlotTime % tick[at] = 0
         /\ (SlotTime \div tick[at]) % BucketCount = Chosen[2]
         /\ SlotTime <= deadline[adding]
         /\ deadline[adding] < SlotTime + tick[at]
         /\ currentTime[at] + tick[at] <= SlotTime
         /\ currentTime[1] < SlotTime
         /\ SlotTime < currentTime[at] + interval(at)
         /\ InUse(Chosen) => expiration[Chosen] = SlotTime
         /\ Chosen # flushing
<1> DEFINE d == deadline[adding]
           c == currentTime[at]
           k == tick[at]
           v == ChosenID
           x == SlotTime
<1>1. /\ adding \in Entries /\ bucket[adding] = NoBucket
      /\ at \in 1 .. levels /\ at \in Levels /\ d \in Nat
  BY DEF IInv, TypeOK, CallInv, Levels
<1>2. /\ c \in Nat /\ k \in Nat \ {0} /\ currentTime[1] \in Nat
      /\ c % k = 0 /\ c <= currentTime[1] /\ currentTime[1] < c + k
  BY <1>1, LevelFacts, RootExists DEF IInv, ClockInv
<1>3. /\ v \in Nat /\ x \in Nat /\ x % k = 0 /\ x \div k = v
      /\ x <= d /\ d < x + k
  BY <1>1, <1>2, SlotOf DEF ChosenID, SlotTime
<1>4. c + k <= d /\ d < c + interval(at)
  <2>1. interval(at) \in Nat  BY <1>2, WheelAssumption DEF interval
  <2>2. QED  BY <1>1, <1>2, <2>1 DEF IsDue, Fits
<1>5. c + k <= x  BY <1>1, <1>2, <1>3, <1>4, SlotAfter
<1>6. currentTime[1] < x  BY <1>2, <1>3, <1>5
<1>7. interval(at) = k * BucketCount /\ interval(at) \in Nat
  BY <1>2, WheelAssumption DEF interval
<1>8. x < c + interval(at)  BY <1>1, <1>2, <1>3, <1>4, <1>7
<1>9. v % BucketCount \in Slots
  BY <1>3, DivMod, WheelAssumption DEF Slots
<1>10. Chosen \in Buckets /\ Chosen[1] = at /\ Chosen[2] = v % BucketCount
  BY <1>1, <1>9 DEF Chosen, BucketOf, Buckets
<1>11. ASSUME InUse(Chosen) PROVE expiration[Chosen] = x
  <2>1. PICK y \in Nat : y = expiration[Chosen]
    BY <1>10, <1>11 DEF IInv, TypeOK, InUse
  <2>2. /\ y % k = 0
        /\ (y \div k) % BucketCount = v % BucketCount
        /\ currentTime[1] <= y
        /\ y < c + k * BucketCount
    BY <1>7, <1>10, <1>11, <2>1 DEF IInv, BucketInv, InWindow
  <2>3. c <= y  BY <1>2, <2>1, <2>2
  <2>4. c <= x /\ x < c + k * BucketCount  BY <1>2, <1>3, <1>5, <1>7, <1>8
  <2>5. y = x  BY <1>2, <1>3, <2>1, <2>2, <2>3, <2>4, SlotUnique, WheelAssumption
  <2>6. QED  BY <2>1, <2>5
<1>12. Chosen # flushing
  <2>1. CASE Chosen = flushing
    <3>1. InUse(Chosen) /\ expiration[Chosen] = currentTime[1]
      BY <1>10, <2>1, NilFacts DEF IInv, FlushInv
    <3>2. QED  BY <1>6, <1>11, <3>1, <1>2, <1>3
  <2>2. QED  BY <2>1
<1>13. QED
  BY <1>1, <1>3, <1>5, <1>6, <1>8, <1>10, <1>11, <1>12

LEMMA AddToBucketInv ==
  ASSUME IInv, AddToBucket
  PROVE  IInv'
<1>a. adding # None /\ ~ IsDue(at) /\ Fits(at)  BY DEF AddToBucket
<1>b. PICK e \in Entries, b \in Buckets, x \in Nat :
        e = adding /\ b = Chosen /\ x = SlotTime
  BY <1>a, ChosenBucket
<1>1. /\ adding # None /\ ~ IsDue(at) /\ Fits(at)
      /\ bucket' = [bucket EXCEPT ![e] = b]
      /\ expiration' = [expiration EXCEPT ![b] = x]
      /\ queue' = IF expiration[b] = x THEN queue ELSE queue \cup {Offer(b, x)}
      /\ adding' = None
      /\ UNCHANGED <<levels, tick, currentTime, deadline, at, flushing, due>>
  BY <1>b DEF AddToBucket, Chosen, ChosenID, SlotTime
<1>2. /\ bucket[e] = NoBucket /\ due = None
      /\ b[1] = at /\ at \in 1 .. levels
      /\ x % tick[at] = 0 /\ (x \div tick[at]) % BucketCount = b[2]
      /\ x <= deadline[e] /\ deadline[e] < x + tick[at]
      /\ currentTime[1] < x /\ x < currentTime[at] + interval(at)
      /\ InUse(b) => expiration[b] = x
      /\ b # flushing
  BY <1>a, <1>b, ChosenBucket DEF Chosen, BucketOf, IInv, CallInv
<1>3. currentTime[1] \in Nat  BY RootExists, LevelFacts DEF IInv
<1>4. /\ expiration' \in [Buckets -> Nat \cup {Unset}]
      /\ expiration'[b] = x
      /\ \A c \in Buckets : c # b => expiration'[c] = expiration[c]
  BY <1>1, <1>2 DEF IInv, TypeOK
<1>5. /\ bucket' \in [Entries -> Buckets \cup {NoBucket}]
      /\ bucket'[e] = b
      /\ \A f \in Entries : f # e => bucket'[f] = bucket[f]
  BY <1>1, <1>2 DEF IInv, TypeOK
<1>6. TypeOK'
  <2>1. queue' \subseteq [bucket : Buckets, expiration : Nat]
    BY <1>1, <1>2 DEF IInv, TypeOK, Offer
  <2>2. QED  BY <1>1, <1>4, <1>5, <2>1 DEF IInv, TypeOK
<1>7. ChainInv' /\ ClockInv'  BY <1>1, ChainKept DEF IInv
<1>8. BucketInv'
  <2> SUFFICES ASSUME NEW c \in Buckets
               PROVE  /\ InUse(c)' => InWindow(c)'
                      /\ Occupied(c)' => InUse(c)'
                      /\ InUse(c)' /\ c # flushing' => Occupied(c)'
    BY DEF BucketInv
  <2>1. CASE c = b
    <3>1. InUse(c)' /\ Occupied(c)'
      BY <1>2, <1>4, <1>5, <2>1 DEF InUse, Occupied, Unset
    <3>2. InWindow(c)'
      BY <1>1, <1>2, <1>3, <1>4, <2>1 DEF InWindow, interval
    <3>3. QED  BY <3>1, <3>2
  <2>2. CASE c # b
    <3>1. InUse(c)' <=> InUse(c)  BY <1>4, <2>2 DEF InUse
    <3>2. InWindow(c)' <=> InWindow(c)
      BY <1>1, <1>4, <2>2 DEF InWindow, interval
    <3>3. Occupied(c)' <=> Occupied(c)
      BY <1>2, <1>5, <2>2, NilFacts DEF Occupied
    <3>4. QED  BY <1>1, <3>1, <3>2, <3>3 DEF IInv, BucketInv
  <2>3. QED  BY <2>1, <2>2
<1>9. QueueInv'
  <2> SUFFICES ASSUME NEW o \in [bucket : Buckets, expiration : Nat]
               PROVE  o \in queue' <=> /\ InUse(o.bucket)'
                                       /\ o.bucket # flushing'
                                       /\ o.expiration = expiration'[o.bucket]
    BY DEF QueueInv
  <2>1. o \in queue <=> /\ InUse(o.bucket)
                        /\ o.bucket # flushing
                        /\ o.expiration = expiration[o.bucket]
    BY DEF IInv, QueueInv
  <2>2. o.bucket \in Buckets /\ (o = Offer(b, x) <=> o.bucket = b /\ o.expiration = x)
    BY <1>2 DEF Offer
  <2>3. InUse(b)'  BY <1>2, <1>4 DEF InUse, Unset
  <2>4. CASE o.bucket = b
    <3>1. CASE InUse(b)
      <4>1. queue' = queue /\ expiration[b] = x  BY <1>1, <1>2, <3>1
      <4>2. QED  BY <1>1, <1>4, <2>1, <2>3, <2>4, <3>1, <4>1
    <3>2. CASE ~ InUse(b)
      <4>1. expiration[b] # x  BY <1>2, <3>2 DEF InUse, Unset
      <4>2. o \in queue' <=> o.expiration = x  BY <1>1, <2>1, <2>2, <2>4, <3>2, <4>1
      <4>3. QED  BY <1>1, <1>2, <1>4, <2>3, <2>4, <4>2
    <3>3. QED  BY <3>1, <3>2
  <2>5. CASE o.bucket # b
    <3>1. o \in queue' <=> o \in queue  BY <1>1, <2>2, <2>5
    <3>2. QED  BY <1>1, <1>4, <2>1, <2>2, <2>5, <3>1 DEF InUse
  <2>6. QED  BY <2>4, <2>5
<1>10. FlushInv'
  BY <1>1, <1>2, <1>4 DEF IInv, TypeOK, FlushInv, InUse
<1>11. CallInv'  BY <1>1, <1>2 DEF CallInv
<1>12. SlotOnTime'
  <2> SUFFICES ASSUME NEW f \in Entries, Stored(f)'
               PROVE  /\ expiration'[bucket'[f]] <= deadline'[f]
                      /\ deadline'[f] < expiration'[bucket'[f]] + tick'[bucket'[f][1]]
    BY DEF SlotOnTime
  <2>1. CASE f = e  BY <1>1, <1>2, <1>4, <1>5, <2>1
  <2>2. CASE f # e
    <3>1. bucket'[f] = bucket[f] /\ bucket[f] \in Buckets
      BY <1>5, <2>2 DEF Stored, IInv, TypeOK
    <3>2. expiration'[bucket[f]] = expiration[bucket[f]]
      <4>1. CASE bucket[f] = b
        <5>1. InUse(b)  BY <1>2, <3>1, <4>1 DEF IInv, BucketInv, Occupied
        <5>2. QED  BY <1>2, <1>4, <4>1, <5>1
      <4>2. CASE bucket[f] # b  BY <1>4, <3>1, <4>2
      <4>3. QED  BY <4>1, <4>2
    <3>3. Stored(f)  BY <3>1, NilFacts DEF Stored
    <3>4. QED  BY <1>1, <3>1, <3>2, <3>3 DEF IInv, SlotOnTime
  <2>3. QED  BY <2>1, <2>2
<1>13. QED  BY <1>6, <1>7, <1>8, <1>9, <1>10, <1>11, <1>12 DEF IInv

\* A new overflow wheel's tick and clock continue the chain.
LEMMA NewOverflow ==
  ASSUME IInv, at = levels, levels < MaxLevels,
         levels' = levels + 1,
         tick' = [tick EXCEPT ![at + 1] = interval(at)],
         currentTime' = [currentTime EXCEPT
                           ![at + 1] = RoundDown(currentTime[at], interval(at))]
  PROVE  /\ levels' \in Levels
         /\ tick' \in [Levels -> Nat] /\ currentTime' \in [Levels -> Nat]
         /\ \A l \in 1 .. levels :
              tick'[l] = tick[l] /\ currentTime'[l] = currentTime[l]
         /\ ChainInv' /\ ClockInv'
<1>1. PICK n \in Nat : n = levels  BY RootExists DEF IInv
<1>2. /\ n \in 1 .. levels /\ n \in Levels /\ n + 1 \in Levels /\ n + 1 \notin 1 .. levels
      /\ 1 .. levels \subseteq Levels
  BY <1>1, WheelAssumption DEF IInv, TypeOK, Levels
<1>3. PICK k \in Nat \ {0}, c \in Nat, t \in Nat :
        k = tick[n] /\ c = currentTime[n] /\ t = currentTime[1]
  BY <1>2, LevelFacts, RootExists DEF IInv
<1>4. PICK w \in Nat \ {0} : w = interval(n) /\ w = k * BucketCount
  BY <1>3, WheelAssumption DEF interval
<1>5. w % k = 0
  <2>1. (BucketCount * k) % k = 0  BY WheelAssumption, MultipleOnGrid
  <2>2. w = BucketCount * k  BY <1>4, WheelAssumption
  <2>3. QED  BY <2>1, <2>2
<1>6. PICK r \in Nat : /\ r = RoundDown(c, w)
                       /\ r % w = 0 /\ r <= c /\ c < r + w
  BY RoundedDown DEF RoundDown
<1>7. /\ tick' \in [Levels -> Nat] /\ tick'[n + 1] = w
      /\ \A l \in 1 .. levels : tick'[l] = tick[l]
  BY <1>1, <1>2, <1>4 DEF IInv, TypeOK
<1>8. /\ currentTime' \in [Levels -> Nat] /\ currentTime'[n + 1] = r
      /\ \A l \in 1 .. levels : currentTime'[l] = currentTime[l]
  BY <1>1, <1>2, <1>3, <1>4, <1>6 DEF IInv, TypeOK
<1>9. levels' = n + 1 /\ 1 .. levels' = (1 .. levels) \cup {n + 1} /\ 1 \in 1 .. levels
  BY <1>1, RootExists DEF IInv
<1>10. ChainInv'
  <2>1. tick'[1] = Tick  BY <1>7, <1>9 DEF IInv, ChainInv
  <2>2. \A l \in 1 .. levels' : tick'[l] > 0  BY <1>7, <1>9 DEF IInv, ChainInv
  <2>3. ASSUME NEW l \in 1 .. levels', l > 1
        PROVE  tick'[l] = tick'[l - 1] * BucketCount
    <3>1. CASE l = n + 1  BY <1>1, <1>2, <1>3, <1>4, <1>7, <3>1
    <3>2. CASE l # n + 1
      <4>1. l \in 1 .. levels /\ l - 1 \in 1 .. levels  BY <1>1, <1>9, <2>3, <3>2
      <4>2. QED  BY <1>7, <2>3, <4>1 DEF IInv, ChainInv
    <3>3. QED  BY <3>1, <3>2
  <2>4. ASSUME NEW i \in 1 .. levels', NEW l \in 1 .. levels', i <= l
        PROVE  tick'[l] % tick'[i] = 0
    <3>1. CASE l # n + 1
      <4>1. l \in 1 .. levels /\ i \in 1 .. levels  BY <1>1, <1>9, <2>4, <3>1
      <4>2. QED  BY <1>7, <2>4, <4>1 DEF IInv, ChainInv
    <3>2. CASE l = n + 1 /\ i = n + 1  BY <1>7, <3>2
    <3>3. CASE l = n + 1 /\ i # n + 1
      <4>1. i \in 1 .. levels /\ i <= n  BY <1>1, <1>9, <2>4, <3>3
      <4>2. k % tick[i] = 0  BY <1>2, <1>3, <4>1 DEF IInv, ChainInv
      <4>3. tick[i] \in Nat \ {0}  BY <4>1, LevelFacts DEF IInv
      <4>4. w % tick[i] = 0  BY <1>5, <4>2, <4>3, GridTrans
      <4>5. QED  BY <1>7, <3>3, <4>1, <4>4
    <3>4. QED  BY <3>1, <3>2, <3>3
  <2>5. QED  BY <2>1, <2>2, <2>3, <2>4 DEF ChainInv
<1>11. ClockInv'
  <2>1. /\ c % k = 0 /\ c <= t /\ t < c + k  BY <1>2, <1>3 DEF IInv, ClockInv
  <2>2. c + k <= r + w
    <3>1. r % k = 0  BY <1>5, <1>6, GridTrans
    <3>2. w \in Nat /\ r + w \in Nat  OBVIOUS
    <3>3. (r + w) % k = 0  BY <1>5, <3>1, <3>2, GridSum
    <3>4. c < r + w  BY <1>6
    <3>5. QED  BY <2>1, <3>2, <3>3, <3>4, GridGap
  <2>3. r <= t /\ t < r + w  BY <1>6, <2>1, <2>2
  <2>4. ASSUME NEW l \in 1 .. levels'
        PROVE  /\ currentTime'[l] % tick'[l] = 0
               /\ currentTime'[l] <= currentTime'[1]
               /\ currentTime'[1] < currentTime'[l] + tick'[l]
    <3>1. CASE l = n + 1  BY <1>3, <1>6, <1>7, <1>8, <1>9, <2>3, <3>1
    <3>2. CASE l \in 1 .. levels  BY <1>7, <1>8, <1>9, <3>2 DEF IInv, ClockInv
    <3>3. QED  BY <1>9, <3>1, <3>2
  <2>5. QED  BY <2>4 DEF ClockInv
<1>12. QED  BY <1>1, <1>2, <1>7, <1>8, <1>9, <1>10, <1>11

LEMMA AddToOverflowInv ==
  ASSUME IInv, AddToOverflow
  PROVE  IInv'
<1>1. /\ adding # None /\ ~ Fits(at) /\ at < MaxLevels /\ at' = at + 1
      /\ UNCHANGED <<expiration, bucket, deadline, queue, adding, flushing, due>>
  BY DEF AddToOverflow
<1>2. /\ due = None /\ adding \in Entries /\ bucket[adding] = NoBucket
      /\ at \in 1 .. levels /\ deadline[adding] \in Nat /\ at \in Nat
      /\ levels \in 1 .. MaxLevels
  BY <1>1 DEF IInv, CallInv, TypeOK, Levels
<1>3. /\ levels' \in Levels
      /\ tick' \in [Levels -> Nat] /\ currentTime' \in [Levels -> Nat]
      /\ \A l \in 1 .. levels :
           tick'[l] = tick[l] /\ currentTime'[l] = currentTime[l]
      /\ ChainInv' /\ ClockInv'
      /\ levels <= levels' /\ at' <= levels' /\ at' \in Levels
  <2>1. CASE at = levels
    <3>1. /\ levels < MaxLevels
          /\ levels' = levels + 1
          /\ tick' = [tick EXCEPT ![at + 1] = interval(at)]
          /\ currentTime' = [currentTime EXCEPT
                               ![at + 1] = RoundDown(currentTime[at], interval(at))]
      BY <1>1, <2>1 DEF AddToOverflow
    <3>2. QED  BY <1>1, <1>2, <2>1, <3>1, NewOverflow DEF Levels
  <2>2. CASE at # levels
    <3>1. UNCHANGED <<levels, tick, currentTime>>  BY <2>2 DEF AddToOverflow
    <3>2. ChainInv' /\ ClockInv'  BY <3>1, ChainKept DEF IInv
    <3>3. at' <= levels' /\ at' \in Levels
      BY <1>1, <1>2, <2>2, <3>1, WheelAssumption DEF Levels
    <3>4. QED  BY <1>2, <3>1, <3>2, <3>3 DEF IInv, TypeOK, Levels
  <2>3. QED  BY <2>1, <2>2
<1>4. TypeOK'  BY <1>1, <1>3 DEF IInv, TypeOK
<1>5. 1 \in 1 .. levels  BY RootExists DEF IInv
<1>6. BucketInv'
  <2> SUFFICES ASSUME NEW b \in Buckets
               PROVE  /\ InUse(b)' => InWindow(b)'
                      /\ Occupied(b)' => InUse(b)'
                      /\ InUse(b)' /\ b # flushing' => Occupied(b)'
    BY DEF BucketInv
  <2>1. (InUse(b)' <=> InUse(b)) /\ (Occupied(b)' <=> Occupied(b))
    BY <1>1 DEF InUse, Occupied
  <2>2. ASSUME InUse(b) PROVE InWindow(b)'
    <3>1. InWindow(b) /\ b[1] \in 1 .. levels
      BY <1>2, <2>2 DEF IInv, BucketInv, InWindow, Buckets, Levels
    <3>2. /\ currentTime'[1] = currentTime[1]
          /\ currentTime'[b[1]] = currentTime[b[1]]
          /\ tick'[b[1]] = tick[b[1]]
          /\ expiration'[b] = expiration[b]
      BY <1>1, <1>3, <1>5, <3>1
    <3>3. b[1] <= levels'  BY <1>2, <1>3, <3>1 DEF Levels
    <3>4. QED  BY <3>1, <3>2, <3>3 DEF InWindow, interval
  <2>3. QED  BY <1>1, <2>1, <2>2 DEF IInv, BucketInv
<1>7. QueueInv'  BY <1>1 DEF IInv, QueueInv, InUse
<1>8. FlushInv'  BY <1>1, <1>3, <1>5 DEF IInv, FlushInv, InUse
<1>9. CallInv'
  <2>1. at' - 1 = at /\ at' - 1 \in 1 .. levels  BY <1>1, <1>2
  <2>2. tick[at] \in Nat /\ currentTime[at] \in Nat
    BY <1>2, LevelFacts DEF IInv
  <2>3. PICK w \in Nat : w = interval(at)
    BY <2>2, WheelAssumption DEF interval
  <2>4. deadline[adding] >= currentTime[at] + w  BY <1>1, <1>2, <2>2, <2>3 DEF Fits
  <2>5. /\ currentTime'[at' - 1] = currentTime[at]
        /\ interval(at - 1)' = w
    BY <1>2, <1>3, <2>1, <2>3 DEF interval
  <2>6. deadline'[adding'] >= currentTime'[at' - 1] + interval(at - 1)'
    BY <1>1, <2>4, <2>5
  <2>7. due' = None /\ bucket'[adding'] = NoBucket  BY <1>1, <1>2
  <2>8. QED  BY <1>3, <2>6, <2>7 DEF CallInv
<1>10. SlotOnTime'
  <2> SUFFICES ASSUME NEW f \in Entries, Stored(f)'
               PROVE  /\ expiration'[bucket'[f]] <= deadline'[f]
                      /\ deadline'[f] < expiration'[bucket'[f]] + tick'[bucket'[f][1]]
    BY DEF SlotOnTime
  <2>1. bucket[f] \in Buckets /\ Stored(f)  BY <1>1 DEF Stored, IInv, TypeOK
  <2>2. bucket[f][1] \in 1 .. levels
    BY <1>2, <2>1 DEF IInv, BucketInv, Occupied, InWindow, Buckets, Levels
  <2>3. QED  BY <1>1, <1>3, <2>1, <2>2 DEF IInv, SlotOnTime
<1>11. QED  BY <1>3, <1>4, <1>6, <1>7, <1>8, <1>9, <1>10 DEF IInv

\* What Poll does: it advances every clock to the earliest expiration, takes
\* that bucket's offer out of the queue and starts to flush the bucket.
LEMMA PollStep ==
  ASSUME IInv, NEW now \in Deadlines, Poll(now)
  PROVE  \E b \in Buckets, x \in Nat :
           /\ InUse(b) /\ Occupied(b) /\ expiration[b] = x
           /\ \A c \in Buckets : InUse(c) => x <= expiration[c]
           /\ currentTime[1] <= x
           /\ currentTime' = Advanced(x)
           /\ currentTime'[1] = x
           /\ queue' = queue \ {Offer(b, x)}
           /\ flushing' = b
<1>1. adding = None /\ due = None /\ flushing = NoBucket  BY DEF Poll, Idle
<1>2. PICK o \in queue : /\ IsNext(o)
                         /\ queue' = QueueAfter(o)
                         /\ currentTime' = Advanced(o.expiration)
                         /\ flushing' = o.bucket
  BY DEF Poll
<1>3. \A p \in queue : /\ p \in [bucket : Buckets, expiration : Nat]
                       /\ InUse(p.bucket) /\ p.expiration = expiration[p.bucket]
  BY DEF IInv, TypeOK, QueueInv
<1>4. PICK b \in Buckets, x \in Nat : b = o.bucket /\ x = o.expiration  BY <1>2, <1>3
<1>5. InUse(b) /\ expiration[b] = x  BY <1>2, <1>3, <1>4
<1>6. Occupied(b) /\ InWindow(b)  BY <1>1, <1>5, NilFacts DEF IInv, BucketInv
<1>7. \A p \in queue : IsLive(p)  BY <1>3 DEF IsLive
<1>8. queue' = queue \ {Offer(b, x)}
  <2>1. o = Offer(b, x)  BY <1>3, <1>4 DEF Offer
  <2>2. QED  BY <1>2, <1>7, <2>1 DEF QueueAfter
<1>9. ASSUME NEW c \in Buckets, InUse(c) PROVE x <= expiration[c]
  <2>1. expiration[c] \in Nat  BY <1>9 DEF IInv, TypeOK, InUse
  <2>2. Offer(c, expiration[c]) \in queue
    BY <1>1, <1>9, <2>1, NilFacts DEF IInv, QueueInv, Offer
  <2>3. QED  BY <1>2, <1>4, <1>7, <2>2 DEF IsNext, Live, Offer
<1>10. currentTime[1] <= x  BY <1>5, <1>6 DEF InWindow
<1>11. currentTime'[1] = x
  <2>1. b[1] \in 1 .. levels  BY <1>6, RootExists DEF InWindow, Buckets, Levels, IInv
  <2>2. tick[1] \in Nat \ {0} /\ tick[b[1]] \in Nat \ {0} /\ 1 \in 1 .. levels /\ 1 <= b[1]
    BY <2>1, RootExists, LevelFacts DEF IInv
  <2>3. x % tick[b[1]] = 0 /\ tick[b[1]] % tick[1] = 0
    BY <1>5, <1>6, <2>1, <2>2 DEF InWindow, IInv, ChainInv
  <2>4. x % tick[1] = 0  BY <2>2, <2>3, GridTrans
  <2>5. Advanced(x)[1] = RoundDown(x, tick[1])
    BY <1>10, <2>2, AdvanceRounds DEF IInv
  <2>6. QED  BY <1>2, <1>4, <2>4, <2>5 DEF RoundDown
<1>12. QED  BY <1>2, <1>4, <1>5, <1>6, <1>8, <1>9, <1>10, <1>11

LEMMA PollInv ==
  ASSUME IInv, NEW now \in Deadlines, Poll(now)
  PROVE  IInv'
<1>1. /\ adding = None /\ due = None /\ flushing = NoBucket
      /\ UNCHANGED <<levels, tick, expiration, bucket, deadline, adding, at, due>>
  BY DEF Poll, Idle
<1>2. PICK b \in Buckets, x \in Nat :
        /\ InUse(b) /\ Occupied(b) /\ expiration[b] = x
        /\ \A c \in Buckets : InUse(c) => x <= expiration[c]
        /\ currentTime[1] <= x
        /\ currentTime' = Advanced(x)
        /\ currentTime'[1] = x
        /\ queue' = queue \ {Offer(b, x)}
        /\ flushing' = b
  BY PollStep
<1>3. ASSUME NEW l \in 1 .. levels
      PROVE  /\ currentTime'[l] \in Nat
             /\ currentTime'[l] % tick[l] = 0
             /\ currentTime'[l] <= x
             /\ x < currentTime'[l] + tick[l]
             /\ currentTime[l] <= currentTime'[l]
  BY <1>2, AdvanceRounds DEF IInv
<1>4. \A c : /\ InUse(c)' <=> InUse(c)
             /\ Occupied(c)' <=> Occupied(c)
  BY <1>1 DEF InUse, Occupied
<1>5. TypeOK'
  <2>1. currentTime' \in [Levels -> Nat]
    <3>1. currentTime' = [l \in Levels |-> currentTime'[l]]  BY <1>2 DEF Advanced
    <3>2. ASSUME NEW l \in Levels, l \notin 1 .. levels PROVE currentTime'[l] = currentTime[l]
      <4>1. ~ l <= levels  BY <3>2, RootExists DEF Levels, IInv
      <4>2. QED  BY <1>2, <4>1 DEF Advanced
    <3>3. \A l \in Levels : currentTime'[l] \in Nat  BY <1>3, <3>2 DEF IInv, TypeOK
    <3>4. QED  BY <3>1, <3>3
  <2>2. QED  BY <1>1, <1>2, <2>1 DEF IInv, TypeOK
<1>6. ChainInv'  BY <1>1 DEF IInv, ChainInv
<1>7. ClockInv'  BY <1>1, <1>2, <1>3 DEF ClockInv
<1>8. BucketInv'
  <2> SUFFICES ASSUME NEW c \in Buckets, InUse(c)
               PROVE  InWindow(c)' /\ Occupied(c)
    BY <1>4 DEF BucketInv, IInv
  <2>1. Occupied(c) /\ InWindow(c)  BY <1>1, NilFacts DEF IInv, BucketInv
  <2>2. c[1] \in 1 .. levels  BY <2>1, RootExists DEF InWindow, Buckets, Levels, IInv
  <2>3. /\ currentTime[c[1]] \in Nat /\ currentTime'[c[1]] \in Nat
        /\ currentTime[c[1]] <= currentTime'[c[1]]
    BY <1>3, <2>2, LevelFacts DEF IInv
  <2>4. PICK w \in Nat : w = interval(c[1])
    BY <2>2, LevelFacts, WheelAssumption DEF interval, IInv
  <2>5. PICK y \in Nat : y = expiration[c]  BY DEF IInv, TypeOK, InUse
  <2>6. currentTime'[1] <= y /\ y < currentTime'[c[1]] + w
    BY <1>2, <2>1, <2>3, <2>4, <2>5 DEF InWindow
  <2>7. interval(c[1])' = w  BY <1>1, <2>4 DEF interval
  <2>8. InWindow(c)'  BY <1>1, <2>1, <2>5, <2>6, <2>7 DEF InWindow
  <2>9. QED  BY <2>1, <2>8
<1>9. QueueInv'
  <2> SUFFICES ASSUME NEW o \in [bucket : Buckets, expiration : Nat]
               PROVE  o \in queue' <=> /\ InUse(o.bucket)
                                       /\ o.bucket # b
                                       /\ o.expiration = expiration[o.bucket]
    BY <1>1, <1>2, <1>4 DEF QueueInv
  <2>1. o \in queue <=> InUse(o.bucket) /\ o.expiration = expiration[o.bucket]
    BY <1>1, NilFacts DEF IInv, QueueInv
  <2>2. o = Offer(b, x) <=> o.bucket = b /\ o.expiration = x  BY DEF Offer
  <2>3. QED  BY <1>2, <2>1, <2>2
<1>10. FlushInv'  BY <1>1, <1>2, <1>4 DEF FlushInv
<1>11. CallInv'  BY <1>1 DEF CallInv
<1>12. SlotOnTime'  BY <1>1 DEF IInv, SlotOnTime, Stored
<1>13. QED  BY <1>5, <1>6, <1>7, <1>8, <1>9, <1>10, <1>11, <1>12 DEF IInv

\* Flush takes an entry out of the bucket it empties.
LEMMA UnlinkInv ==
  ASSUME IInv, NEW e \in Entries, adding = None, due = None,
         flushing # NoBucket, bucket[e] = flushing,
         bucket' = [bucket EXCEPT ![e] = NoBucket],
         UNCHANGED <<wheelVars, deadline, queue, flushing>>
  PROVE  /\ bucket' \in [Entries -> Buckets \cup {NoBucket}]
         /\ bucket'[e] = NoBucket
         /\ ChainInv' /\ ClockInv' /\ BucketInv' /\ QueueInv' /\ FlushInv'
         /\ SlotOnTime'
<1> USE DEF wheelVars
<1>1. /\ bucket' \in [Entries -> Buckets \cup {NoBucket}]
      /\ bucket'[e] = NoBucket
      /\ \A f \in Entries : f # e => bucket'[f] = bucket[f]
  BY DEF IInv, TypeOK
<1>2. ChainInv' /\ ClockInv'  BY ChainKept DEF IInv
<1>3. \A c : (InUse(c)' <=> InUse(c)) /\ (InWindow(c)' <=> InWindow(c))
  BY DEF InUse, InWindow, interval
<1>4. \A c \in Buckets : /\ c # flushing => (Occupied(c)' <=> Occupied(c))
                         /\ Occupied(c)' => Occupied(c)
  BY <1>1, NilFacts DEF Occupied
<1>5. BucketInv'  BY <1>3, <1>4 DEF IInv, BucketInv
<1>6. QueueInv' /\ FlushInv'  BY <1>3 DEF IInv, QueueInv, FlushInv
<1>7. SlotOnTime'  BY <1>1 DEF IInv, SlotOnTime, Stored
<1>8. QED  BY <1>1, <1>2, <1>5, <1>6, <1>7

LEMMA FlushEntryInv ==
  ASSUME IInv, NEW e \in Entries, FlushEntry(e)
  PROVE  IInv'
<1> USE DEF FlushEntry, CallAdd, Idle, wheelVars
<1>1. /\ bucket' \in [Entries -> Buckets \cup {NoBucket}]
      /\ bucket'[e] = NoBucket
      /\ ChainInv' /\ ClockInv' /\ BucketInv' /\ QueueInv' /\ FlushInv'
      /\ SlotOnTime'
  BY UnlinkInv
<1>2. TypeOK'  BY <1>1, RootExists DEF IInv, TypeOK
<1>3. 1 <= levels'  BY RootExists DEF IInv
<1>4. CallInv'  BY <1>1, <1>3 DEF CallInv
<1>5. QED  BY <1>1, <1>2, <1>4 DEF IInv

LEMMA FlushCancelledInv ==
  ASSUME IInv, NEW e \in Entries, FlushCancelled(e)
  PROVE  IInv'
<1> USE DEF FlushCancelled, Idle, wheelVars
<1>1. /\ bucket' \in [Entries -> Buckets \cup {NoBucket}]
      /\ ChainInv' /\ ClockInv' /\ BucketInv' /\ QueueInv' /\ FlushInv'
      /\ SlotOnTime'
  BY UnlinkInv
<1>2. TypeOK'  BY <1>1 DEF IInv, TypeOK
<1>3. CallInv'  BY DEF CallInv
<1>4. QED  BY <1>1, <1>2, <1>3 DEF IInv

LEMMA FlushDoneInv ==
  ASSUME IInv, FlushDone
  PROVE  IInv'
<1> USE DEF FlushDone, Idle
<1>1. PICK b \in Buckets : b = flushing  BY DEF IInv, TypeOK
<1>2. /\ expiration' \in [Buckets -> Nat \cup {Unset}]
      /\ expiration'[b] = Unset
      /\ \A c \in Buckets : c # b => expiration'[c] = expiration[c]
  BY <1>1 DEF IInv, TypeOK
<1>3. TypeOK'  BY <1>2 DEF IInv, TypeOK
<1>4. ChainInv' /\ ClockInv'  BY ChainKept DEF IInv
<1>5. ~ Occupied(b)  BY <1>1 DEF Occupied
<1>6. \A c \in Buckets : /\ Occupied(c)' <=> Occupied(c)
                         /\ c # b => (InUse(c)' <=> InUse(c))
                         /\ c # b => (InWindow(c)' <=> InWindow(c))
  BY <1>2 DEF Occupied, InUse, InWindow, interval
<1>7. ~ InUse(b)'  BY <1>2 DEF InUse
<1>8. BucketInv'  BY <1>1, <1>5, <1>6, <1>7 DEF IInv, BucketInv
<1>9. QueueInv'
  <2> SUFFICES ASSUME NEW o \in [bucket : Buckets, expiration : Nat]
               PROVE  o \in queue <=> /\ InUse(o.bucket)'
                                      /\ o.expiration = expiration'[o.bucket]
    BY NilFacts DEF QueueInv
  <2>1. o \in queue <=> /\ InUse(o.bucket)
                        /\ o.bucket # flushing
                        /\ o.expiration = expiration[o.bucket]
    BY DEF IInv, QueueInv
  <2>2. QED  BY <1>1, <1>2, <1>6, <1>7, <2>1
<1>10. FlushInv'  BY DEF FlushInv
<1>11. CallInv'  BY DEF CallInv
<1>12. SlotOnTime'
  <2>1. \A f \in Entries : Stored(f) => bucket[f] \in Buckets /\ bucket[f] # b
    BY <1>1 DEF Stored, IInv, TypeOK
  <2>2. QED  BY <1>2, <2>1 DEF IInv, SlotOnTime, Stored
<1>13. QED  BY <1>3, <1>4, <1>8, <1>9, <1>10, <1>11, <1>12 DEF IInv

\* The invariant only speaks of the variables.
LEMMA StutterInv == IInv /\ UNCHANGED vars => IInv'
<1> SUFFICES ASSUME IInv, UNCHANGED vars PROVE IInv'  OBVIOUS
<1> USE DEF vars, wheelVars
<1>1. TypeOK'  BY DEF IInv, TypeOK
<1>2. ChainInv' /\ ClockInv'  BY ChainKept DEF IInv
<1>3. BucketInv' /\ QueueInv' /\ FlushInv'  BY BucketsKept DEF IInv
<1>4. CallInv'  BY DEF IInv, CallInv, interval
<1>5. SlotOnTime'  BY DEF IInv, SlotOnTime, Stored
<1>6. QED  BY <1>1, <1>2, <1>3, <1>4, <1>5 DEF IInv

LEMMA NextInv == IInv /\ [Next]_vars => IInv'
<1> SUFFICES ASSUME IInv, [Next]_vars PROVE IInv'  OBVIOUS
<1>1. CASE \E e \in Entries, d \in Deadlines : Add(e, d)  BY <1>1, AddInv
<1>2. CASE \E d \in Deadlines : AddAgain(d)  BY <1>2, AddAgainInv
<1>3. CASE Accept  BY <1>3, AcceptInv
<1>4. CASE AddDue  BY <1>4, AddDueInv
<1>5. CASE AddToBucket  BY <1>5, AddToBucketInv
<1>6. CASE AddToOverflow  BY <1>6, AddToOverflowInv
<1>7. CASE \E now \in Deadlines : Poll(now)  BY <1>7, PollInv
<1>8. CASE \E e \in Entries : FlushEntry(e) \/ FlushCancelled(e)
  BY <1>8, FlushEntryInv, FlushCancelledInv
<1>9. CASE FlushDone  BY <1>9, FlushDoneInv
<1>10. CASE UNCHANGED vars  BY <1>10, StutterInv
<1>11. QED
  BY <1>1, <1>2, <1>3, <1>4, <1>5, <1>6, <1>7, <1>8, <1>9, <1>10 DEF Next

\* The inductive invariant: it relates the clocks of the chain, the slots of
\* time that buckets stand for, the delay queue and the call in progress.
THEOREM Invariance == Spec => []IInv
<1>1. Init => IInv  BY InitInv
<1>2. IInv /\ [Next]_vars => IInv'  BY NextInv
<1>3. QED  BY <1>1, <1>2, PTL DEF Spec

-----------------------------------------------------------------------------
(* The properties of the specification *)

\* Types; in particular Add never indexes a wheel or a bucket out of range.
THEOREM TypeCorrect == Spec => []TypeOK
<1>1. IInv => TypeOK  BY DEF IInv
<1>2. QED  BY <1>1, Invariance, PTL

\* A bucket never mixes two slots of time (Add, SetExpiration and Flush).
THEOREM SlotsOnTime == Spec => []SlotOnTime
<1>1. IInv => SlotOnTime  BY DEF IInv
<1>2. QED  BY <1>1, Invariance, PTL

\* The delay queue holds one offer for each bucket that waits, no other.
THEOREM QueueExact == Spec => []QueueIsExact
<1>1. ASSUME IInv PROVE QueueIsExact
  <2> DEFINE waiting == {c \in Buckets : Occupied(c) /\ c # flushing}
  <2>1. ASSUME NEW o \in queue PROVE \E c \in waiting : o = Offer(c, expiration[c])
    <3>1. o \in [bucket : Buckets, expiration : Nat]  BY <1>1 DEF IInv, TypeOK
    <3>2. /\ InUse(o.bucket) /\ o.bucket # flushing
          /\ o.expiration = expiration[o.bucket]
      BY <1>1, <3>1 DEF IInv, QueueInv
    <3>3. Occupied(o.bucket)  BY <1>1, <3>1, <3>2 DEF IInv, BucketInv
    <3>4. o = Offer(o.bucket, expiration[o.bucket])  BY <3>1, <3>2 DEF Offer
    <3>5. QED  BY <3>1, <3>2, <3>3, <3>4
  <2>2. ASSUME NEW c \in waiting PROVE Offer(c, expiration[c]) \in queue
    <3>1. c \in Buckets /\ InUse(c) /\ c # flushing  BY <1>1 DEF IInv, BucketInv
    <3>2. expiration[c] \in Nat  BY <1>1, <3>1 DEF IInv, TypeOK, InUse
    <3>3. QED  BY <1>1, <3>1, <3>2 DEF IInv, QueueInv, Offer
  <2>3. QED  BY <2>1, <2>2 DEF QueueIsExact
<1>2. QED  BY <1>1, Invariance, PTL

\* Creating overflow wheels late and advancing only the levels that move
\* keeps every clock aligned with the root's.
THEOREM ClocksAligned == Spec => []ClocksNested
<1>1. IInv => ClocksNested  BY ClockIsRounded DEF IInv, ClocksNested
<1>2. QED  BY <1>1, Invariance, PTL

\* No timeout is handed back a whole root tick before its deadline.
THEOREM NotEarly == Spec => []NeverEarly
<1>1. IInv => NeverEarly  BY DEF IInv, CallInv, NeverEarly
<1>2. QED  BY <1>1, Invariance, PTL

\* An entry that a flush adds again descends, and never re-enters the bucket
\* that is being flushed, so that Flush's loop ends.
THEOREM Cascades == Spec => CascadeDescends
<1> DEFINE Descends ==
      \A e \in Entries :
        flushing # NoBucket /\ ~Stored(e) /\ Stored(e)' =>
          /\ bucket'[e] # flushing
          /\ deadline[e] < expiration[flushing] + tick[flushing[1]]
                => bucket'[e][1] < flushing[1]
<1>1. ASSUME IInv, Next PROVE Descends
  <2> SUFFICES ASSUME NEW e \in Entries, flushing # NoBucket, ~Stored(e), Stored(e)'
               PROVE  /\ bucket'[e] # flushing
                      /\ deadline[e] < expiration[flushing] + tick[flushing[1]]
                            => bucket'[e][1] < flushing[1]
    OBVIOUS
  <2>1. AddToBucket
    <3>1. \A f \in Entries : bucket' = [bucket EXCEPT ![f] = NoBucket] => ~Stored(e)'
      BY <1>1 DEF IInv, TypeOK, Stored
    <3>2. bucket' = bucket => ~Stored(e)'  BY DEF Stored
    <3>3. QED  BY <1>1, <3>1, <3>2 DEF Next, Add, AddAgain, Accept, AddDue,
                 AddToOverflow, Poll, FlushEntry, FlushCancelled, FlushDone
  <2>2. adding # None /\ ~ IsDue(at) /\ Fits(at)  BY <2>1 DEF AddToBucket
  <2>3. /\ Chosen # flushing
        /\ Chosen \in Buckets
        /\ at \in 1 .. levels
        /\ adding \in Entries
        /\ SlotTime <= deadline[adding] /\ SlotTime \in Nat
        /\ currentTime[at] + tick[at] <= SlotTime
    BY <1>1, <2>2, ChosenBucket
  <2>4. bucket' = [bucket EXCEPT ![adding] = Chosen]
    BY <2>1 DEF AddToBucket, Chosen, ChosenID
  <2>5. e = adding /\ bucket'[e] = Chosen
    BY <1>1, <2>3, <2>4 DEF IInv, TypeOK, Stored
  <2>6. PICK f \in 1 .. levels : f = flushing[1]
    <3>1. flushing \in Buckets /\ InWindow(flushing)
      BY <1>1 DEF IInv, TypeOK, FlushInv, BucketInv
    <3>2. QED  BY <1>1, <3>1, RootExists DEF InWindow, Buckets, Levels, IInv
  <2>7. ASSUME f <= at PROVE expiration[flushing] + tick[f] <= deadline[e]
    <3>1. /\ currentTime[f] \in Nat /\ tick[f] \in Nat \ {0} /\ currentTime[1] \in Nat
          /\ currentTime[at] \in Nat /\ tick[at] \in Nat
      BY <1>1, <2>3, LevelFacts, RootExists DEF IInv
    <3>2. /\ expiration[flushing] = currentTime[1]
          /\ expiration[flushing] % tick[f] = 0
      BY <1>1, <2>6 DEF IInv, TypeOK, FlushInv, BucketInv, InWindow
    <3>3. expiration[flushing] = currentTime[f]
      <4>1. /\ currentTime[f] % tick[f] = 0
            /\ currentTime[f] <= currentTime[1]
            /\ currentTime[1] < currentTime[f] + tick[f]
        BY <1>1 DEF IInv, ClockInv
      <4>2. QED  BY <3>1, <3>2, <4>1, GridUnique
    <3>4. currentTime[f] + tick[f] <= currentTime[at] + tick[at]
      BY <1>1, <2>3, <2>7, Nesting DEF IInv
    <3>5. deadline[e] \in Nat  BY <1>1 DEF IInv, TypeOK
    <3>6. QED  BY <2>3, <2>5, <3>1, <3>3, <3>4, <3>5
  <2>8. Chosen[1] = at /\ at \in Nat  BY <2>3 DEF Chosen, BucketOf
  <2>9. ASSUME ~ f <= at PROVE bucket'[e][1] < flushing[1]
    BY <2>5, <2>6, <2>8, <2>9
  <2>10. ASSUME f <= at PROVE ~ deadline[e] < expiration[flushing] + tick[flushing[1]]
    <3>1. PICK d \in Nat : d = deadline[e]  BY <1>1 DEF IInv, TypeOK
    <3>2. PICK y \in Nat : y = expiration[flushing] + tick[f]
      <4>1. expiration[flushing] \in Nat
        BY <1>1 DEF IInv, TypeOK, FlushInv, InUse
      <4>2. tick[f] \in Nat  BY <1>1, LevelFacts DEF IInv
      <4>3. QED  BY <4>1, <4>2
    <3>3. QED  BY <2>6, <2>7, <2>10, <3>1, <3>2
  <2>11. QED  BY <2>3, <2>5, <2>9, <2>10
<1>2. IInv /\ [Next]_vars => [Descends]_vars  BY <1>1
<1>3. QED  BY <1>2, Invariance, PTL DEF Spec, CascadeDescends

-----------------------------------------------------------------------------
(* The wheel implements the line of deadlines *)

\* Everything stored is due no earlier than the root's clock.
LEMMA StoredAhead ==
  ASSUME IInv, NEW e \in Entries, Stored(e)
  PROVE  /\ bucket[e] \in Buckets
         /\ expiration[bucket[e]] \in Nat
         /\ currentTime[1] <= expiration[bucket[e]]
         /\ expiration[bucket[e]] <= deadline[e]
         /\ InUse(bucket[e])
<1>1. bucket[e] \in Buckets  BY DEF IInv, TypeOK, Stored
<1>2. InUse(bucket[e]) /\ InWindow(bucket[e])  BY <1>1 DEF IInv, BucketInv, Occupied
<1>3. expiration[bucket[e]] \in Nat  BY <1>1, <1>2 DEF IInv, TypeOK, InUse
<1>4. QED  BY <1>1, <1>2, <1>3 DEF InWindow, IInv, SlotOnTime

\* The entries that are in the wheel or on their way into a bucket of it.
held == {e \in Entries : Stored(e) \/ adding = e}

LEMMA LineInit == Init => Line!Init
<1> SUFFICES ASSUME Init PROVE Line!Init  OBVIOUS
<1>1. IInv  BY InitInv
<1>2. currentTime[1] \in Int  BY <1>1, RootExists, LevelFacts DEF IInv
<1>3. held = {}  BY NilFacts DEF Init, held, Stored
<1>4. deadline \in [Entries -> Int]  BY DEF Init
<1>5. due = None  BY DEF Init
<1>6. QED  BY <1>2, <1>3, <1>4, <1>5 DEF Line!Init, held

LEMMA LineNext ==
  ASSUME IInv, [Next]_vars
  PROVE  [Line!Next]_(Line!vars)
<1> DEFINE stutter == UNCHANGED <<held, deadline, currentTime[1], due>>
<1> HIDE DEF stutter
<1>1. stutter => UNCHANGED Line!vars  BY DEF stutter, Line!vars, held
<1>2. ASSUME NEW e \in Entries, NEW d \in Deadlines, Add(e, d)
      PROVE  Line!Put(e, d)
  <2>1. /\ adding = None /\ due = None /\ bucket[e] = NoBucket
        /\ adding' = e /\ deadline' = [deadline EXCEPT ![e] = d]
        /\ UNCHANGED <<currentTime, bucket, due>>
    BY <1>2 DEF Add, Idle, CallAdd, wheelVars
  <2>2. e \notin held /\ held' = held \cup {e}
    BY <2>1, NilFacts DEF held, Stored
  <2>3. QED  BY <2>1, <2>2 DEF Line!Put, held
<1>3. ASSUME NEW d \in Deadlines, AddAgain(d)
      PROVE  Line!PutBack(d)
  <2>1. /\ due # None /\ due \in Entries /\ adding = None
        /\ adding' = due /\ due' = None /\ deadline' = [deadline EXCEPT ![due] = d]
        /\ UNCHANGED <<currentTime, bucket>>
    BY <1>3 DEF AddAgain, CallAdd, wheelVars, IInv, TypeOK, CallInv
  <2>2. held' = held \cup {due}
    BY <2>1, NilFacts DEF held, Stored
  <2>3. QED  BY <2>1, <2>2 DEF Line!PutBack, held
<1>4. ASSUME Accept PROVE Line!Accept
  BY <1>4 DEF Accept, wheelVars, Line!Accept, Stored
<1>5. ASSUME AddDue PROVE \E e \in Entries : Line!HandBack(e)
  <2>1. PICK e \in Entries : e = adding  BY <1>5, DueAtRoot DEF AddDue
  <2>2. /\ e # None /\ due' = e /\ adding' = None
        /\ UNCHANGED <<currentTime, bucket, deadline>>
    BY <1>5, <2>1 DEF AddDue, wheelVars
  <2>3. deadline[e] < currentTime[1] + Tick /\ due = None /\ bucket[e] = NoBucket
    BY <1>5, <2>1, DueAtRoot DEF AddDue, IInv, CallInv
  <2>4. ASSUME NEW f \in held PROVE deadline[e] < deadline[f] + Tick
    <3>1. /\ f \in Entries /\ deadline[f] \in Nat /\ deadline[e] \in Nat
          /\ currentTime[1] \in Nat /\ Tick \in Nat \ {0}
      BY RootExists, LevelFacts, WheelAssumption DEF IInv, TypeOK, held
    <3>2. CASE f = e  BY <3>1, <3>2
    <3>3. CASE Stored(f)
      <4>1. PICK x \in Nat : currentTime[1] <= x /\ x <= deadline[f]
        BY <3>1, <3>3, StoredAhead
      <4>2. QED  BY <2>3, <3>1, <4>1
    <3>4. QED  BY <2>1, <3>2, <3>3 DEF held
  <2>5. held' = held \ {e}  BY <2>1, <2>2, <2>3, NilFacts DEF held, Stored
  <2>6. e \in held  BY <2>1 DEF held
  <2>7. QED  BY <2>2, <2>3, <2>4, <2>5, <2>6 DEF Line!HandBack, held
<1>6. ASSUME AddToBucket PROVE stutter
  <2>1. adding # None /\ ~ IsDue(at) /\ Fits(at)  BY <1>6 DEF AddToBucket
  <2>2. Chosen \in Buckets /\ adding \in Entries  BY <2>1, ChosenBucket
  <2>3. /\ bucket' = [bucket EXCEPT ![adding] = Chosen] /\ adding' = None
        /\ UNCHANGED <<currentTime, deadline, due>>
    BY <1>6 DEF AddToBucket, Chosen, ChosenID
  <2>4. held' = held
    <3>1. \A f \in Entries : f # adding => bucket'[f] = bucket[f]
      BY <2>2, <2>3 DEF IInv, TypeOK
    <3>2. bucket'[adding] = Chosen  BY <2>2, <2>3 DEF IInv, TypeOK
    <3>3. \A f \in Entries : (Stored(f) \/ adding = f)' <=> (Stored(f) \/ adding = f)
      BY <2>2, <2>3, <3>1, <3>2, NilFacts DEF Stored
    <3>4. QED  BY <3>3 DEF held
  <2>5. QED  BY <2>3, <2>4 DEF stutter
<1>7. ASSUME AddToOverflow PROVE stutter
  <2>1. UNCHANGED <<bucket, deadline, adding, due>>  BY <1>7 DEF AddToOverflow
  <2>2. currentTime'[1] = currentTime[1]
    <3>1. at + 1 # 1 /\ 1 \in Levels  BY RootExists DEF IInv, TypeOK, Levels
    <3>2. QED  BY <1>7, <3>1 DEF AddToOverflow, IInv, TypeOK
  <2>3. QED  BY <2>1, <2>2 DEF stutter, held, Stored
<1>8. ASSUME NEW now \in Deadlines, Poll(now)
      PROVE  Line!Advance \/ stutter
  <2>1. /\ adding = None /\ due = None
        /\ UNCHANGED <<bucket, deadline, adding, due>>
    BY <1>8 DEF Poll, Idle
  <2>2. PICK x \in Nat : /\ \A c \in Buckets : InUse(c) => x <= expiration[c]
                         /\ currentTime[1] <= x
                         /\ currentTime'[1] = x
    BY <1>8, PollStep
  <2>3. ASSUME NEW e \in held PROVE x <= deadline[e]
    <3>1. e \in Entries /\ Stored(e)  BY <2>1, NilFacts DEF held
    <3>2. /\ expiration[bucket[e]] \in Nat /\ x <= expiration[bucket[e]]
          /\ expiration[bucket[e]] <= deadline[e] /\ deadline[e] \in Nat
      BY <2>2, <3>1, StoredAhead DEF IInv, TypeOK
    <3>3. QED  BY <3>2
  <2>4. held' = held  BY <2>1 DEF held, Stored
  <2>5. currentTime[1] \in Nat  BY RootExists, LevelFacts DEF IInv
  <2>6. CASE currentTime[1] = x  BY <2>1, <2>2, <2>4, <2>6 DEF stutter
  <2>7. CASE currentTime[1] < x
    BY <2>1, <2>2, <2>3, <2>4, <2>7 DEF Line!Advance, held
  <2>8. QED  BY <2>2, <2>5, <2>6, <2>7
<1>9. ASSUME NEW e \in Entries, FlushEntry(e) PROVE stutter
  <2>1. /\ adding = None /\ bucket[e] = flushing /\ flushing # NoBucket
        /\ bucket' = [bucket EXCEPT ![e] = NoBucket] /\ adding' = e
        /\ UNCHANGED <<currentTime, deadline, due>>
    BY <1>9 DEF FlushEntry, Idle, CallAdd, wheelVars
  <2>2. held' = held
    BY <2>1, NilFacts DEF held, Stored, IInv, TypeOK
  <2>3. QED  BY <2>1, <2>2 DEF stutter
<1>10. ASSUME NEW e \in Entries, FlushCancelled(e) PROVE Line!Drop(e)
  <2>1. /\ adding = None /\ bucket[e] = flushing /\ flushing # NoBucket
        /\ bucket' = [bucket EXCEPT ![e] = NoBucket]
        /\ UNCHANGED <<currentTime, deadline, due, adding>>
    BY <1>10 DEF FlushCancelled, Idle, wheelVars
  <2>2. e \in held /\ held' = held \ {e}
    BY <2>1, NilFacts DEF held, Stored, IInv, TypeOK
  <2>3. QED  BY <2>1, <2>2 DEF Line!Drop, held
<1>11. ASSUME FlushDone PROVE stutter
  BY <1>11 DEF FlushDone, stutter, held, Stored
<1>12. ASSUME UNCHANGED vars PROVE stutter
  BY <1>12 DEF vars, wheelVars, stutter, held, Stored
<1>13. CASE Next
  <2>1. CASE \E e \in Entries, d \in Deadlines : Add(e, d)
    BY <1>2, <2>1 DEF Line!Next
  <2>2. CASE \E d \in Deadlines : AddAgain(d)  BY <1>3, <2>2 DEF Line!Next
  <2>3. CASE Accept  BY <1>4, <2>3 DEF Line!Next
  <2>4. CASE AddDue  BY <1>5, <2>4 DEF Line!Next
  <2>5. CASE AddToBucket  BY <1>1, <1>6, <2>5
  <2>6. CASE AddToOverflow  BY <1>1, <1>7, <2>6
  <2>7. CASE \E now \in Deadlines : Poll(now)  BY <1>1, <1>8, <2>7 DEF Line!Next
  <2>8. CASE \E e \in Entries : FlushEntry(e)  BY <1>1, <1>9, <2>8
  <2>9. CASE \E e \in Entries : FlushCancelled(e)  BY <1>10, <2>9 DEF Line!Next
  <2>10. CASE FlushDone  BY <1>1, <1>11, <2>10
  <2>11. QED
    BY <1>13, <2>1, <2>2, <2>3, <2>4, <2>5, <2>6, <2>7, <2>8, <2>9, <2>10 DEF Next
<1>14. QED  BY <1>1, <1>12, <1>13

\* Refinement: seen from outside, the chain of wheels is a line of deadlines
\* that hands entries back in deadline order to within one tick, never a
\* whole tick early, and never forgets one.
THEOREM Refinement == Spec => ImplementsLine
<1>1. Init => Line!Init  BY LineInit
<1>2. IInv /\ [Next]_vars => [Line!Next]_(Line!vars)  BY LineNext
<1>3. QED  BY <1>1, <1>2, Invariance, PTL DEF Spec, ImplementsLine, Line!Spec
=============================================================================
