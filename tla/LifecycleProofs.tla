--------------------------- MODULE LifecycleProofs ---------------------------
(***************************************************************************)
(* Proofs about Lifecycle, for any timers, callers, tasks and shared       *)
(* pools, and any lists of options.                                        *)
(***************************************************************************)
EXTENDS Lifecycle, OptionsProofs

-----------------------------------------------------------------------------
(* The inductive invariant *)

Boss(m)   == <<m, "boss">>
Worker(m) == <<m, "worker">>

\* The places of closeOwnedPools.
ClosePlaces == {"close boss", "await boss", "close worker", "await worker"}

NewPlaces  == {"new", "make boss", "make worker", "start", "ready", "failed"} \cup ClosePlaces
CallPlaces == {"idle", "await", "report", "nil", "gave up", "err"} \cup ClosePlaces

TypeInv ==
  /\ given = [m \in Timers |-> given[m]]
  /\ config = [m \in Timers |-> config[m]]
  /\ shutdownC \in [Timers -> BOOLEAN]
  /\ reporter \in [Timers -> {"none", "running", "ended"}]
  /\ at = [c \in Procs |-> at[c]]
  /\ \A m \in Timers : at[m] \in NewPlaces
  /\ \A c \in Closers : at[c] \in CallPlaces
  /\ timer \in [Closers -> Timers \cup {Nil}]
  /\ ended \in [Closers -> BOOLEAN]
  /\ pool = [p \in Pools |-> pool[p]]

\* A pool is in order: no job is in it twice, it is done only when nothing is
\* left, ...
InOrder(s) ==
  /\ s = [spec |-> s.spec, parked |-> s.parked, queue |-> s.queue, running |-> s.running,
          ran |-> s.ran, closed |-> s.closed, done |-> s.done]
  /\ s.parked \in Nat /\ s.queue \in Seq(Jobs)
  /\ s.running \subseteq Jobs /\ s.ran \subseteq Jobs /\ IsFiniteSet(s.running)
  /\ s.closed \in BOOLEAN /\ s.done \in BOOLEAN
  /\ Distinct(s.queue)
  /\ Content(s.queue) \cap (s.running \cup s.ran) = {}
  /\ s.running \cap s.ran = {}
  /\ s.done => s.closed /\ s.queue = <<>> /\ s.running = {}

\* and within its limits, if it was made.
Within(s) ==
  /\ IsSpec(s.spec)
  /\ s.parked + Cardinality(s.running) <= s.spec.workers
  /\ Len(s.queue) <= s.spec.queueCapacity
  /\ s.parked > 0 => s.spec.queueCapacity = 0

\* The jobs that a pool knows of.
Known(s) == Content(s.queue) \cup s.running \cup s.ran

PoolInv ==
  /\ \A p \in Pools : InOrder(pool[p]) /\ (pool[p] = Made(Nil) \/ Within(pool[p]))
  /\ \A s \in Shared : Within(pool[s])

\* What a timer's place says of its configuration, ...
ConfigInv(m) ==
  /\ at[m] # "new" => given[m] \in OptionLists[m] /\ config[m] = TimerOptions(given[m])
  /\ at[m] \notin {"new", "failed"} \/ Exists(Boss(m)) => config[m] # Invalid

\* of the pools it makes, which nobody else uses before it is there, ...
MadeInv(m) ==
  /\ at[m] \in {"new", "make boss"} => pool[Boss(m)] = Made(Nil)
  /\ at[m] \in {"new", "make boss", "make worker"} => pool[Worker(m)] = Made(Nil)
  /\ at[m] \in {"make worker", "start"} => pool[Boss(m)].queue = <<>> /\ ~pool[Boss(m)].closed
  /\ at[m] \in {"make worker", "start", "ready"} /\ config[m].pool["boss"] = Nil =>
       Within(pool[Boss(m)])
  /\ at[m] \in {"start", "ready"} /\ config[m].pool["worker"] = Nil => Within(pool[Worker(m)])
  /\ Exists(Boss(m)) => config[m].pool["boss"] = Nil

\* of its scheduler, ...
FreshInv(m) == at[m] # "ready" => \A p \in Pools : m \notin Known(pool[p])

\* and, when New fails, of what is left of them.
FailInv(m) ==
  /\ at[m] \in {"close worker", "await worker", "failed"} /\ Exists(Boss(m)) => Stopped(Boss(m))
  /\ at[m] = "failed" /\ Exists(Worker(m)) => Stopped(Worker(m))
  /\ at[m] \in {"failed"} \cup ClosePlaces /\ Exists(Boss(m)) /\ Exists(WorkerPool(m)) =>
       /\ pool[Boss(m)].spec.queueCapacity = 0
       /\ pool[Boss(m)].spec.rejectPolicy = "RejectPolicyReject"

\* What the place of a call of Shutdown says of its timer.
CallInv(c) ==
  LET m == timer[c]
  IN /\ at[c] # "idle" => m \in Timers /\ at[m] = "ready"
     /\ at[c] \notin {"idle", "await", "gave up"} => SchedulerDone(m)
     /\ at[c] \in {"nil"} \cup ClosePlaces /\ ~ended[c] => reporter[m] # "running"
     /\ at[c] \in {"close worker", "await worker", "nil"} /\ ~ended[c] /\ Exists(Boss(m)) =>
          Stopped(Boss(m))
     /\ at[c] = "nil" => ~ended[c] /\ (Exists(Worker(m)) => Stopped(Worker(m)))
     /\ at[c] \in {"await boss", "close worker", "await worker", "err"} /\ Exists(Boss(m)) =>
          pool[Boss(m)].closed
     /\ at[c] \in {"await worker", "err"} /\ Exists(Worker(m)) => pool[Worker(m)].closed

TimerInv(m) == ConfigInv(m) /\ MadeInv(m) /\ FreshInv(m) /\ FailInv(m)

IInv ==
  /\ TypeInv
  /\ PoolInv
  /\ \A m \in Timers : TimerInv(m)
  /\ \A c \in Closers : CallInv(c)


-----------------------------------------------------------------------------
(* Pools, and what is done to one *)

LEMMA PoolNames ==
  /\ Shared \subseteq Pools
  /\ \A m \in Timers : \A role \in Roles : <<m, role>> \in Pools /\ <<m, role>> \notin Shared
  /\ \A p \in Pools : p \in Shared \/ \E m \in Timers, role \in Roles : p = <<m, role>>
<1>1. \A m \in Timers : \A role \in Roles : <<m, role>> \in Timers \X {"boss", "worker"}
  BY DEF Roles
<1>2. QED  BY <1>1, LifecycleAssumption DEF Pools, Owned, Roles

LEMMA KnownFacts ==
  ASSUME NEW p \in Pools, InOrder(pool[p])
  PROVE  /\ Queued(p) = Content(pool[p].queue)
         /\ Queued(p) \cup pool[p].running \cup pool[p].ran = Known(pool[p])
         /\ Known(pool[p]) \subseteq Jobs
<1>1. pool[p].queue \in Seq(Jobs)  BY DEF InOrder
<1>2. DOMAIN pool[p].queue = 1 .. Len(pool[p].queue)  BY <1>1
<1>3. Queued(p) = Content(pool[p].queue)  BY <1>2 DEF Queued, Content
<1>4. Content(pool[p].queue) \subseteq Jobs  BY <1>1 DEF Content
<1>5. QED  BY <1>3, <1>4 DEF Known, InOrder

\* What a pool has been through stays so.
Grows(s, t) ==
  /\ t.spec = s.spec
  /\ s.closed => t.closed
  /\ s.done => t.done
  /\ s.ran \subseteq t.ran

\* A step of a pool takes it from one state in order to another.
Proper(s, t) ==
  /\ InOrder(t)
  /\ Within(s) => Within(t)
  /\ Grows(s, t)

LEMMA MadeInOrder ==
  ASSUME NEW spec
  PROVE  /\ InOrder(Made(spec)) /\ Known(Made(spec)) = {}
         /\ IsSpec(spec) => Within(Made(spec))
<1>1. IsFiniteSet({}) /\ Cardinality({}) = 0  BY FS_EmptySet
<1>2. Made(spec).queue = <<>> /\ Len(<<>>) = 0 /\ <<>> \in Seq(Jobs)  BY DEF Made
<1>3. Content(<<>>) = {} /\ Distinct(<<>>)  BY <1>2 DEF Content, Distinct
<1>4. InOrder(Made(spec))  BY <1>1, <1>2, <1>3 DEF Made, InOrder
<1>5. Known(Made(spec)) = {}  BY <1>3 DEF Made, Known
<1>6. ASSUME IsSpec(spec) PROVE Within(Made(spec))
  <2>1. spec.workers \in Nat /\ spec.queueCapacity \in Nat  BY <1>6 DEF IsSpec
  <2>2. QED  BY <1>1, <1>2, <1>6, <2>1 DEF Made, Within
<1>7. QED  BY <1>4, <1>5, <1>6

\* A pool that was not made does nothing by itself and cannot be closed.
LEMMA NotMade ==
  ASSUME NEW p, pool[p] = Made(Nil)
  PROVE  /\ ~Exists(p) /\ ~Stopped(p)
         /\ pool[p].queue = <<>> /\ pool[p].running = {} /\ pool[p].ran = {} /\ ~pool[p].closed
BY DEF Made, Exists, Stopped

LEMMA Occupancy ==
  ASSUME NEW p \in Pools, InOrder(pool[p])
  PROVE  Occupied(p) = Cardinality(pool[p].running) /\ Occupied(p) \in Nat
BY FS_CardinalityType DEF InOrder, Occupied

\* The parts of a pool in order, and those of a step of it.
LEMMA OrderFacts ==
  ASSUME NEW s, InOrder(s)
  PROVE  /\ s.parked \in Nat /\ s.queue \in Seq(Jobs) /\ Len(s.queue) \in Nat
         /\ IsFiniteSet(s.running) /\ Cardinality(s.running) \in Nat
         /\ Within(s) => s.spec.workers \in Nat /\ s.spec.queueCapacity \in Nat
BY FS_CardinalityType DEF InOrder, Within, IsSpec

\* A send adds the job to those that a worker runs, or to the queue.
LEMMA SentProper ==
  ASSUME NEW s, InOrder(s), Within(s), ~s.closed, NEW j \in Jobs, j \notin Known(s),
         s.parked > 0 \/ Len(s.queue) < s.spec.queueCapacity
  PROVE  /\ Proper(s, Sent(s, j))
         /\ Known(Sent(s, j)) = Known(s) \cup {j}
         /\ Sent(s, j).ran = s.ran /\ Sent(s, j).closed = s.closed /\ Sent(s, j).done = s.done
<1> DEFINE t == Sent(s, j)
<1>1. /\ s = [spec |-> s.spec, parked |-> s.parked, queue |-> s.queue, running |-> s.running,
              ran |-> s.ran, closed |-> s.closed, done |-> s.done]
      /\ s.running \subseteq Jobs /\ s.ran \subseteq Jobs
      /\ s.closed = FALSE /\ s.done = FALSE /\ Distinct(s.queue)
      /\ Content(s.queue) \cap (s.running \cup s.ran) = {}
      /\ s.running \cap s.ran = {}
      /\ j \notin Content(s.queue) /\ j \notin s.running /\ j \notin s.ran
  BY DEF InOrder, Known
<1>2. /\ s.parked \in Nat /\ s.queue \in Seq(Jobs) /\ Len(s.queue) \in Nat
      /\ IsFiniteSet(s.running) /\ Cardinality(s.running) \in Nat
      /\ s.spec.workers \in Nat /\ s.spec.queueCapacity \in Nat
  BY OrderFacts
<1>3. CASE s.parked > 0
  <2>1. t = [spec |-> s.spec, parked |-> s.parked - 1, queue |-> s.queue,
             running |-> s.running \cup {j}, ran |-> s.ran, closed |-> s.closed,
             done |-> s.done]
    BY <1>1, <1>3 DEF Sent
  <2> HIDE DEF t
  <2>2. /\ IsFiniteSet(s.running \cup {j})
        /\ Cardinality(s.running \cup {j}) = Cardinality(s.running) + 1
    BY <1>1, <1>2, Gains
  <2>3. t.parked \in Nat  BY <1>2, <1>3, <2>1
  <2>4. InOrder(t)
    <3>1. /\ t.queue \in Seq(Jobs) /\ t.running \subseteq Jobs /\ t.ran \subseteq Jobs
          /\ IsFiniteSet(t.running) /\ t.closed \in BOOLEAN /\ t.done \in BOOLEAN
          /\ Distinct(t.queue)
      BY <1>1, <1>2, <2>1, <2>2
    <3>2. Content(t.queue) \cap (t.running \cup t.ran) = {} /\ t.running \cap t.ran = {}
      BY <1>1, <2>1
    <3>3. ~t.done  BY <1>1, <2>1
    <3>4. t = [spec |-> t.spec, parked |-> t.parked, queue |-> t.queue, running |-> t.running,
               ran |-> t.ran, closed |-> t.closed, done |-> t.done]
      BY <2>1
    <3>5. QED  BY <2>3, <3>1, <3>2, <3>3, <3>4 DEF InOrder
  <2>5. Within(t)
    <3>1. t.spec = s.spec /\ t.queue = s.queue /\ t.parked = s.parked - 1
          /\ Cardinality(t.running) = Cardinality(s.running) + 1
      BY <2>1, <2>2
    <3>2. QED  BY <1>2, <1>3, <3>1 DEF Within
  <2>6. QED  BY <2>1, <2>4, <2>5 DEF Proper, Grows, Known, t
<1>4. CASE ~(s.parked > 0)
  <2>1. t = [spec |-> s.spec, parked |-> s.parked, queue |-> Append(s.queue, j),
             running |-> s.running, ran |-> s.ran, closed |-> s.closed, done |-> s.done]
    BY <1>1, <1>4 DEF Sent
  <2> HIDE DEF t
  <2>2. /\ Append(s.queue, j) \in Seq(Jobs) /\ Len(Append(s.queue, j)) = Len(s.queue) + 1
        /\ Content(Append(s.queue, j)) = Content(s.queue) \cup {j}
        /\ Distinct(Append(s.queue, j))
    BY <1>1, <1>2, AppendFacts, AppendContent
  <2>3. InOrder(t)
    <3>1. /\ t.queue \in Seq(Jobs) /\ t.running \subseteq Jobs /\ t.ran \subseteq Jobs
          /\ IsFiniteSet(t.running) /\ t.closed \in BOOLEAN /\ t.done \in BOOLEAN
          /\ Distinct(t.queue) /\ t.parked \in Nat
      BY <1>1, <1>2, <2>1, <2>2
    <3>2. Content(t.queue) \cap (t.running \cup t.ran) = {} /\ t.running \cap t.ran = {}
      BY <1>1, <2>1, <2>2
    <3>3. ~t.done  BY <1>1, <2>1
    <3>4. t = [spec |-> t.spec, parked |-> t.parked, queue |-> t.queue, running |-> t.running,
               ran |-> t.ran, closed |-> t.closed, done |-> t.done]
      BY <2>1
    <3>5. QED  BY <3>1, <3>2, <3>3, <3>4 DEF InOrder
  <2>4. Within(t)
    <3>1. t.spec = s.spec /\ Len(t.queue) = Len(s.queue) + 1 /\ t.parked = s.parked
          /\ t.running = s.running
      BY <2>1, <2>2
    <3>2. QED  BY <1>2, <1>4, <3>1 DEF Within
  <2>5. Known(t) = Known(s) \cup {j}  BY <2>1, <2>2 DEF Known
  <2>6. t.spec = s.spec /\ t.ran = s.ran /\ t.closed = s.closed /\ t.done = s.done
    BY <2>1
  <2>7. Proper(s, t)  BY <2>3, <2>4, <2>6 DEF Proper, Grows
  <2>8. QED  BY <2>5, <2>6, <2>7 DEF t
<1>5. QED  BY <1>3, <1>4

LEMMA SendProper ==
  ASSUME NEW p \in Pools, pool = [q \in Pools |-> pool[q]], InOrder(pool[p]), Within(pool[p]),
         NEW j \in Jobs, j \notin Known(pool[p]), Takes(p), Send(p, j)
  PROVE  /\ pool' = [pool EXCEPT ![p] = pool'[p]]
         /\ Proper(pool[p], pool'[p])
         /\ Known(pool'[p]) = Known(pool[p]) \cup {j}
         /\ pool'[p].ran = pool[p].ran /\ pool'[p].closed = pool[p].closed
         /\ pool'[p].done = pool[p].done
<1>1. ~pool[p].closed /\ (pool[p].parked > 0 \/ Len(pool[p].queue) < pool[p].spec.queueCapacity)
  BY DEF Takes, HasRoom
<1>2. pool'[p] = Sent(pool[p], j) /\ pool' = [pool EXCEPT ![p] = pool'[p]]
  BY DEF Send
<1>3. QED  BY <1>1, <1>2, SentProper

\* What a pool does by itself to its own state.
LEMMA ParkProper ==
  ASSUME NEW p \in Pools, pool = [q \in Pools |-> pool[q]], InOrder(pool[p]), Within(pool[p]),
         Park(p)
  PROVE  /\ pool' = [pool EXCEPT ![p] = pool'[p]]
         /\ Proper(pool[p], pool'[p])
         /\ Known(pool'[p]) = Known(pool[p]) /\ pool'[p].ran = pool[p].ran
         /\ pool'[p].closed = pool[p].closed /\ pool'[p].done = pool[p].done
         /\ pool'[p].queue = pool[p].queue
<1> DEFINE s == pool[p]
           t == pool'[p]
<1>1. pool' = [pool EXCEPT ![p] = t]  BY DEF Park
<1>2. t = [spec |-> s.spec, parked |-> s.parked + 1, queue |-> s.queue, running |-> s.running,
           ran |-> s.ran, closed |-> s.closed, done |-> s.done]
  <2>1. t = [s EXCEPT !.parked = s.parked + 1]  BY DEF Park
  <2>2. s = [spec |-> s.spec, parked |-> s.parked, queue |-> s.queue, running |-> s.running,
             ran |-> s.ran, closed |-> s.closed, done |-> s.done]
    BY DEF InOrder
  <2>3. QED  BY <2>1, <2>2
<1>3. /\ s.spec.queueCapacity = 0 /\ s.parked + Cardinality(s.running) < s.spec.workers
      /\ s.parked \in Nat /\ Cardinality(s.running) \in Nat /\ s.spec.workers \in Nat
  BY OrderFacts DEF Park, Occupied
<1> HIDE DEF t
<1>4. InOrder(t)
  <2>1. t.parked \in Nat  BY <1>2, <1>3
  <2>2. QED  BY <1>2, <2>1 DEF InOrder
<1>5. Within(t)  BY <1>2, <1>3 DEF Within
<1>6. /\ t.spec = s.spec /\ t.ran = s.ran /\ t.closed = s.closed /\ t.done = s.done
      /\ t.queue = s.queue /\ Known(t) = Known(s)
  BY <1>2 DEF Known
<1>7. Proper(s, t)  BY <1>4, <1>5, <1>6 DEF Proper, Grows
<1>8. QED  BY <1>1, <1>6, <1>7 DEF t

LEMMA PickProper ==
  ASSUME NEW p \in Pools, pool = [q \in Pools |-> pool[q]], InOrder(pool[p]), Within(pool[p]),
         Pick(p)
  PROVE  /\ pool' = [pool EXCEPT ![p] = pool'[p]]
         /\ Proper(pool[p], pool'[p])
         /\ Known(pool'[p]) = Known(pool[p]) /\ pool'[p].ran = pool[p].ran
         /\ pool'[p].closed = pool[p].closed /\ pool'[p].done = pool[p].done
<1> DEFINE s == pool[p]
           t == pool'[p]
           j == Head(s.queue)
<1>1. pool' = [pool EXCEPT ![p] = t]  BY DEF Pick
<1>2. /\ s = [spec |-> s.spec, parked |-> s.parked, queue |-> s.queue, running |-> s.running,
              ran |-> s.ran, closed |-> s.closed, done |-> s.done]
      /\ s.running \subseteq Jobs /\ s.ran \subseteq Jobs /\ s.closed \in BOOLEAN
      /\ s.done = FALSE /\ Distinct(s.queue)
      /\ Content(s.queue) \cap (s.running \cup s.ran) = {}
      /\ s.running \cap s.ran = {}
      /\ s.queue # <<>> /\ Cardinality(s.running) < s.spec.workers
  BY DEF InOrder, Pick, Occupied
<1>3. /\ s.parked \in Nat /\ s.queue \in Seq(Jobs) /\ Len(s.queue) \in Nat
      /\ IsFiniteSet(s.running) /\ Cardinality(s.running) \in Nat
      /\ s.spec.workers \in Nat /\ s.spec.queueCapacity \in Nat
  BY OrderFacts
<1>4. t = [spec |-> s.spec, parked |-> s.parked, queue |-> Tail(s.queue),
           running |-> s.running \cup {j}, ran |-> s.ran, closed |-> s.closed, done |-> s.done]
  <2>1. t = [s EXCEPT !.running = s.running \cup {j}, !.queue = Tail(s.queue)]  BY DEF Pick
  <2>2. QED  BY <1>2, <2>1
<1>5. /\ Len(s.queue) \in Nat \ {0} /\ j \in Jobs /\ Tail(s.queue) \in Seq(Jobs)
      /\ Len(Tail(s.queue)) = Len(s.queue) - 1
      /\ Content(Tail(s.queue)) = Content(s.queue) \ {j} /\ j \in Content(s.queue)
      /\ Distinct(Tail(s.queue))
  BY <1>2, <1>3, TailFacts, TailContent
<1> HIDE DEF j, t
<1>6. /\ IsFiniteSet(s.running \cup {j})
      /\ Cardinality(s.running \cup {j}) = Cardinality(s.running) + 1
  <2>1. j \notin s.running  BY <1>2, <1>5
  <2>2. QED  BY <1>3, <2>1, Gains
<1>7. s.parked = 0
  <2>1. s.spec.queueCapacity # 0  BY <1>3, <1>5 DEF Within
  <2>2. QED  BY <1>3, <2>1 DEF Within
<1>8. InOrder(t)
  <2>1. /\ t.queue \in Seq(Jobs) /\ t.running \subseteq Jobs /\ t.ran \subseteq Jobs
        /\ IsFiniteSet(t.running) /\ t.closed \in BOOLEAN /\ t.done \in BOOLEAN
        /\ Distinct(t.queue) /\ t.parked \in Nat
    BY <1>2, <1>3, <1>4, <1>5, <1>6
  <2>2. Content(t.queue) \cap (t.running \cup t.ran) = {} /\ t.running \cap t.ran = {}
    BY <1>2, <1>4, <1>5
  <2>3. ~t.done  BY <1>2, <1>4
  <2>4. t = [spec |-> t.spec, parked |-> t.parked, queue |-> t.queue, running |-> t.running,
             ran |-> t.ran, closed |-> t.closed, done |-> t.done]
    BY <1>4
  <2>5. QED  BY <2>1, <2>2, <2>3, <2>4 DEF InOrder
<1>9. Within(t)
  <2>1. /\ t.spec = s.spec /\ t.parked = 0 /\ Len(t.queue) = Len(s.queue) - 1
        /\ Cardinality(t.running) = Cardinality(s.running) + 1
    BY <1>4, <1>5, <1>6, <1>7
  <2>2. QED  BY <1>2, <1>3, <2>1 DEF Within
<1>10. /\ t.spec = s.spec /\ t.ran = s.ran /\ t.closed = s.closed /\ t.done = s.done
  BY <1>4
<1>11. Known(t) = Known(s)  BY <1>4, <1>5 DEF Known
<1>12. Proper(s, t)  BY <1>8, <1>9, <1>10 DEF Proper, Grows
<1>13. QED  BY <1>1, <1>10, <1>11, <1>12 DEF t

\* The job ends; it is not forgotten.
LEMMA EndProper ==
  ASSUME NEW p \in Pools, pool = [q \in Pools |-> pool[q]], InOrder(pool[p]), NEW j, End(p, j)
  PROVE  /\ pool' = [pool EXCEPT ![p] = pool'[p]]
         /\ Proper(pool[p], pool'[p])
         /\ Known(pool'[p]) = Known(pool[p])
         /\ pool'[p].closed = pool[p].closed /\ pool'[p].done = pool[p].done
         /\ pool'[p].queue = pool[p].queue
         /\ pool'[p].ran = pool[p].ran \cup {j} /\ j \in pool[p].running
<1> DEFINE s == pool[p]
           t == pool'[p]
<1>1. pool' = [pool EXCEPT ![p] = t]  BY DEF End
<1>2. /\ s = [spec |-> s.spec, parked |-> s.parked, queue |-> s.queue, running |-> s.running,
              ran |-> s.ran, closed |-> s.closed, done |-> s.done]
      /\ s.running \subseteq Jobs /\ s.ran \subseteq Jobs /\ s.closed \in BOOLEAN
      /\ s.done = FALSE /\ Distinct(s.queue)
      /\ Content(s.queue) \cap (s.running \cup s.ran) = {}
      /\ s.running \cap s.ran = {} /\ j \in s.running
  BY DEF InOrder, End
<1>3. t = [spec |-> s.spec, parked |-> s.parked, queue |-> s.queue,
           running |-> s.running \ {j}, ran |-> s.ran \cup {j}, closed |-> s.closed,
           done |-> s.done]
  <2>1. t = [s EXCEPT !.running = s.running \ {j}, !.ran = s.ran \cup {j}]  BY DEF End
  <2>2. QED  BY <1>2, <2>1
<1>4. /\ s.parked \in Nat /\ s.queue \in Seq(Jobs)
      /\ IsFiniteSet(s.running) /\ Cardinality(s.running) \in Nat
      /\ IsFiniteSet(s.running \ {j})
      /\ Cardinality(s.running \ {j}) = Cardinality(s.running) - 1
  BY <1>2, OrderFacts, Loses
<1> HIDE DEF t
<1>5. InOrder(t)
  <2>1. /\ t.queue \in Seq(Jobs) /\ t.running \subseteq Jobs /\ t.ran \subseteq Jobs
        /\ IsFiniteSet(t.running) /\ t.closed \in BOOLEAN /\ t.done \in BOOLEAN
        /\ Distinct(t.queue) /\ t.parked \in Nat
    BY <1>2, <1>3, <1>4
  <2>2. Content(t.queue) \cap (t.running \cup t.ran) = {} /\ t.running \cap t.ran = {}
    BY <1>2, <1>3
  <2>3. ~t.done  BY <1>2, <1>3
  <2>4. t = [spec |-> t.spec, parked |-> t.parked, queue |-> t.queue, running |-> t.running,
             ran |-> t.ran, closed |-> t.closed, done |-> t.done]
    BY <1>3
  <2>5. QED  BY <2>1, <2>2, <2>3, <2>4 DEF InOrder
<1>6. ASSUME Within(s) PROVE Within(t)
  <2>1. s.spec.workers \in Nat  BY <1>6, OrderFacts
  <2>2. t.spec = s.spec /\ t.parked = s.parked /\ t.queue = s.queue
        /\ Cardinality(t.running) = Cardinality(s.running) - 1
    BY <1>3, <1>4
  <2>3. QED  BY <1>4, <1>6, <2>1, <2>2 DEF Within
<1>7. /\ t.spec = s.spec /\ t.ran = s.ran \cup {j} /\ t.closed = s.closed /\ t.done = s.done
      /\ t.queue = s.queue
  BY <1>3
<1>8. Known(t) = Known(s)  BY <1>2, <1>3 DEF Known
<1>9. Proper(s, t)  BY <1>5, <1>6, <1>7 DEF Proper, Grows
<1>10. QED  BY <1>1, <1>2, <1>7, <1>8, <1>9 DEF t

LEMMA LeaveProper ==
  ASSUME NEW p \in Pools, pool = [q \in Pools |-> pool[q]], InOrder(pool[p]), Leave(p)
  PROVE  /\ pool' = [pool EXCEPT ![p] = pool'[p]]
         /\ Proper(pool[p], pool'[p])
         /\ Known(pool'[p]) = Known(pool[p]) /\ pool'[p].ran = pool[p].ran
         /\ pool[p].closed /\ pool'[p].closed /\ pool'[p].done
<1> DEFINE s == pool[p]
           t == pool'[p]
<1>1. pool' = [pool EXCEPT ![p] = t]  BY DEF Leave
<1>2. t = [spec |-> s.spec, parked |-> s.parked, queue |-> s.queue, running |-> s.running,
           ran |-> s.ran, closed |-> s.closed, done |-> TRUE]
  <2>1. t = [s EXCEPT !.done = TRUE]  BY DEF Leave
  <2>2. s = [spec |-> s.spec, parked |-> s.parked, queue |-> s.queue, running |-> s.running,
             ran |-> s.ran, closed |-> s.closed, done |-> s.done]
    BY DEF InOrder
  <2>3. QED  BY <2>1, <2>2
<1>3. s.closed /\ s.queue = <<>> /\ s.running = {}  BY DEF Leave
<1> HIDE DEF t
<1>4. InOrder(t)  BY <1>2, <1>3 DEF InOrder
<1>5. Within(s) => Within(t)  BY <1>2 DEF Within
<1>6. /\ t.spec = s.spec /\ t.ran = s.ran /\ t.closed = s.closed /\ t.done
      /\ Known(t) = Known(s)
  BY <1>2 DEF Known
<1>7. Proper(s, t)  BY <1>4, <1>5, <1>6 DEF Proper, Grows
<1>8. QED  BY <1>1, <1>3, <1>6, <1>7 DEF t

LEMMA ClosingProper ==
  ASSUME NEW p \in Pools, pool = [q \in Pools |-> pool[q]], InOrder(pool[p]), Closing(p)
  PROVE  /\ pool' = [pool EXCEPT ![p] = pool'[p]]
         /\ Proper(pool[p], pool'[p])
         /\ Known(pool'[p]) = Known(pool[p]) /\ pool'[p].ran = pool[p].ran
         /\ pool'[p].closed /\ pool'[p].done = pool[p].done
<1> DEFINE s == pool[p]
           t == pool'[p]
<1>1. pool' = [pool EXCEPT ![p] = t]  BY DEF Closing
<1>2. t = [spec |-> s.spec, parked |-> 0, queue |-> s.queue, running |-> s.running,
           ran |-> s.ran, closed |-> TRUE, done |-> s.done]
  <2>1. t = [s EXCEPT !.closed = TRUE, !.parked = 0]  BY DEF Closing
  <2>2. s = [spec |-> s.spec, parked |-> s.parked, queue |-> s.queue, running |-> s.running,
             ran |-> s.ran, closed |-> s.closed, done |-> s.done]
    BY DEF InOrder
  <2>3. QED  BY <2>1, <2>2
<1> HIDE DEF t
<1>3. InOrder(t)  BY <1>2 DEF InOrder
<1>4. ASSUME Within(s) PROVE Within(t)
  <2>1. /\ s.spec.workers \in Nat /\ s.parked \in Nat /\ Cardinality(s.running) \in Nat
    BY <1>4, OrderFacts
  <2>2. QED  BY <1>2, <1>4, <2>1 DEF Within
<1>5. /\ t.spec = s.spec /\ t.ran = s.ran /\ t.closed /\ t.done = s.done
      /\ Known(t) = Known(s)
  BY <1>2 DEF Known
<1>6. Proper(s, t)  BY <1>3, <1>4, <1>5 DEF Proper, Grows
<1>7. QED  BY <1>1, <1>5, <1>6 DEF t

-----------------------------------------------------------------------------
(* What a step leaves as it was *)

\* What New was called with is good.
LEMMA Configured ==
  ASSUME IInv, NEW m \in Timers, at[m] \notin {"new", "failed"} \/ Exists(Boss(m))
  PROVE  /\ IsConfig(config[m], Shared)
         /\ \A role \in Roles : /\ config[m].pool[role] \in Shared \cup {Nil}
                                /\ WellTypedPool(config[m].options[role])
                                /\ PoolOf(m, role) \in Shared \cup {<<m, role>>}
         /\ BossPool(m) \in Pools /\ WorkerPool(m) \in Pools
<1>1. at[m] # "new"
  <2>1. pool[Boss(m)] = Made(Nil) => ~Exists(Boss(m))  BY NotMade
  <2>2. QED  BY <2>1 DEF IInv, TimerInv, MadeInv
<1>2. /\ given[m] \in OptionLists[m] /\ config[m] = TimerOptions(given[m])
      /\ config[m] # Invalid
  BY <1>1 DEF IInv, TimerInv, ConfigInv
<1>3. IsConfig(config[m], Shared)
  <2>1. WellTyped(given[m], Shared)  BY <1>2, LifecycleAssumption
  <2>2. QED  BY <1>2, <2>1, TimerOptionsAmount
<1>4. \A role \in Roles : /\ config[m].pool[role] \in Shared \cup {Nil}
                          /\ WellTypedPool(config[m].options[role])
  BY <1>3 DEF IsConfig
<1>5. \A role \in Roles : PoolOf(m, role) \in Shared \cup {<<m, role>>}
  BY <1>4 DEF PoolOf
<1>6. PoolOf(m, "boss") \in Pools /\ PoolOf(m, "worker") \in Pools
  <2>1. "boss" \in Roles /\ "worker" \in Roles  BY DEF Roles
  <2>2. QED  BY <1>5, <2>1, PoolNames
<1>7. QED  BY <1>3, <1>4, <1>5, <1>6 DEF BossPool, WorkerPool

\* The pools of timers that are there were made.
LEMMA PoolsThere ==
  ASSUME IInv, NEW m \in Timers
  PROVE  /\ at[m] \in {"start", "ready"} => Within(pool[BossPool(m)])
         /\ at[m] = "ready" => Within(pool[WorkerPool(m)])
<1>1. \A s \in Shared : Within(pool[s])  BY DEF IInv, PoolInv
<1>2. ASSUME at[m] \in {"start", "ready"} PROVE Within(pool[BossPool(m)])
  <2>1. config[m].pool["boss"] \in Shared \cup {Nil}
    BY <1>2, Configured DEF Roles
  <2>2. config[m].pool["boss"] = Nil => Within(pool[Boss(m)])
    BY <1>2 DEF IInv, TimerInv, MadeInv
  <2>3. QED  BY <1>1, <2>1, <2>2 DEF BossPool, PoolOf, Boss
<1>3. ASSUME at[m] = "ready" PROVE Within(pool[WorkerPool(m)])
  <2>1. config[m].pool["worker"] \in Shared \cup {Nil}
    BY <1>3, Configured DEF Roles
  <2>2. config[m].pool["worker"] = Nil => Within(pool[Worker(m)])
    BY <1>3 DEF IInv, TimerInv, MadeInv
  <2>3. QED  BY <1>1, <2>1, <2>2 DEF WorkerPool, PoolOf, Worker
<1>4. QED  BY <1>2, <1>3

\* A step neither spoils a pool nor makes it.
Frame(p) ==
  /\ InOrder(pool'[p]) /\ Grows(pool[p], pool'[p])
  /\ pool'[p] = pool[p] \/ Within(pool[p])
  /\ Within(pool[p]) => Within(pool'[p])

\* It gives a pool at most jobs of J.
Gives(p, J) == Known(pool'[p]) \subseteq Known(pool[p]) \cup J

\* One pool, at most, changes, and properly.
Touches(p, J) ==
  /\ pool' = [pool EXCEPT ![p] = pool'[p]]
  /\ Proper(pool[p], pool'[p])
  /\ Within(pool[p])
  /\ Gives(p, J)

LEMMA SamePools ==
  ASSUME IInv, UNCHANGED pool
  PROVE  \A p \in Pools : Frame(p) /\ \A J : Gives(p, J)
BY DEF IInv, PoolInv, Frame, Grows, Gives

LEMMA TouchedPools ==
  ASSUME IInv, NEW p \in Pools, NEW J, Touches(p, J)
  PROVE  /\ \A q \in Pools : Frame(q) /\ Gives(q, J)
         /\ \A q \in Pools \ {p} : pool'[q] = pool[q]
<1>1. pool = [q \in Pools |-> pool[q]]  BY DEF IInv, TypeInv
<1>2. \A q \in Pools \ {p} : pool'[q] = pool[q]  BY <1>1 DEF Touches
<1>3. ASSUME NEW q \in Pools PROVE Frame(q) /\ Gives(q, J)
  <2>1. CASE q = p  BY <2>1 DEF Touches, Proper, Frame
  <2>2. CASE q # p
    <3>1. pool'[q] = pool[q] /\ InOrder(pool[q])  BY <1>2, <2>2 DEF IInv, PoolInv
    <3>2. QED  BY <3>1 DEF Frame, Grows, Gives
  <2>3. QED  BY <2>1, <2>2
<1>4. QED  BY <1>2, <1>3

\* Pools that nobody spoils are still good.
LEMMA PoolsKept ==
  ASSUME IInv, \A p \in Pools : Frame(p)
  PROVE  PoolInv'
<1>1. \A p \in Pools : InOrder(pool'[p]) /\ (pool'[p] = Made(Nil) \/ Within(pool'[p]))
  BY DEF IInv, PoolInv, Frame
<1>2. \A s \in Shared : Within(pool'[s])
  BY PoolNames DEF IInv, PoolInv, Frame
<1>3. QED  BY <1>1, <1>2 DEF PoolInv

\* The pools a timer may use, whatever its options.
PoolsFor(m) == Shared \cup {Boss(m), Worker(m)}

LEMMA PoolsForFacts ==
  ASSUME NEW m \in Timers
  PROVE  /\ PoolsFor(m) \subseteq Pools /\ Boss(m) \in PoolsFor(m) /\ Worker(m) \in PoolsFor(m)
         /\ Boss(m) # Worker(m) /\ Boss(m) \notin Shared /\ Worker(m) \notin Shared
BY PoolNames DEF PoolsFor, Boss, Worker, Roles

\* Two timers never make the same pool.
LEMMA TwoTimers ==
  ASSUME NEW m \in Timers, NEW n \in Timers, m # n
  PROVE  {Boss(m), Worker(m)} \cap {Boss(n), Worker(n)} = {}
BY DEF Boss, Worker

LEMMA UsedPools ==
  ASSUME IInv, NEW m \in Timers, at[m] \notin {"new", "failed"} \/ Exists(Boss(m))
  PROVE  BossPool(m) \in PoolsFor(m) /\ WorkerPool(m) \in PoolsFor(m)
BY Configured DEF PoolsFor, Boss, Worker, Roles, BossPool, WorkerPool

\* A pool that is not touched by New exists if it existed.
LEMMA StillThere ==
  ASSUME NEW p, Frame(p)
  PROVE  /\ Exists(p)' <=> Exists(p)
         /\ Stopped(p) => Stopped(p)'
         /\ pool'[p].spec = pool[p].spec
         /\ pool[p].closed => pool'[p].closed
         /\ pool[p].ran \subseteq pool'[p].ran
BY DEF Frame, Grows, Exists, Stopped

\* A pool that is empty and open stays so, unless it is given a job or closed.
Idle(p) == pool[p].queue = <<>> /\ ~pool[p].closed

\* What New has made, or not yet, is left alone.
Untouched(m) ==
  /\ at[m] \in {"new", "make boss"} => pool'[Boss(m)] = pool[Boss(m)]
  /\ at[m] \in {"new", "make boss", "make worker"} => pool'[Worker(m)] = pool[Worker(m)]
  /\ at[m] \in {"make worker", "start"} => (Idle(Boss(m)) => Idle(Boss(m))')

\* A timer that does not move.
LEMMA StillTimer ==
  ASSUME IInv, NEW m \in Timers, at'[m] = at[m], given'[m] = given[m], config'[m] = config[m],
         \A p \in PoolsFor(m) : Frame(p),
         \A p \in Pools : m \notin Known(pool[p]) => m \notin Known(pool'[p]),
         Untouched(m)
  PROVE  TimerInv(m)'
<1>1. Frame(Boss(m)) /\ Frame(Worker(m))  BY PoolsForFacts
<1>2. /\ Exists(Boss(m))' <=> Exists(Boss(m))
      /\ Exists(Worker(m))' <=> Exists(Worker(m))
      /\ Stopped(Boss(m)) => Stopped(Boss(m))'
      /\ Stopped(Worker(m)) => Stopped(Worker(m))'
      /\ pool'[Boss(m)].spec = pool[Boss(m)].spec
  BY <1>1, StillThere
<1>3. ConfigInv(m)'  BY <1>2 DEF IInv, TimerInv, ConfigInv
<1>4. MadeInv(m)'
  <2>1. /\ Within(pool[Boss(m)]) => Within(pool'[Boss(m)])
        /\ Within(pool[Worker(m)]) => Within(pool'[Worker(m)])
    BY <1>1 DEF Frame
  <2>2. MadeInv(m)  BY DEF IInv, TimerInv
  <2>3. QED  BY <1>2, <2>1, <2>2 DEF MadeInv, Untouched, Idle
<1>5. FreshInv(m)'  BY DEF IInv, TimerInv, FreshInv
<1>6. FailInv(m)'
  <2>1. FailInv(m)  BY DEF IInv, TimerInv
  <2>2. ASSUME Exists(Boss(m)) PROVE Exists(WorkerPool(m))' <=> Exists(WorkerPool(m))
    <3>1. WorkerPool(m)' = WorkerPool(m)  BY DEF WorkerPool, PoolOf
    <3>2. Frame(WorkerPool(m))  BY <2>2, UsedPools
    <3>3. QED  BY <3>1, <3>2 DEF Frame, Grows, Exists
  <2>3. QED  BY <1>2, <2>1, <2>2 DEF FailInv
<1>7. QED  BY <1>3, <1>4, <1>5, <1>6 DEF TimerInv

\* What a timer that is ready goes on to be.
Ready(m) ==
  /\ at'[m] = "ready" /\ config'[m] = config[m]
  /\ reporter[m] # "running" => reporter'[m] # "running"
  /\ \A p \in PoolsFor(m) : Frame(p)

\* A call that does not move.
LEMMA StillCall ==
  ASSUME IInv, NEW c \in Closers, at'[c] = at[c], timer'[c] = timer[c], ended'[c] = ended[c],
         \A m \in Timers : at[m] = "ready" => Ready(m)
  PROVE  CallInv(c)'
<1>1. CASE at[c] = "idle"  BY <1>1 DEF CallInv, ClosePlaces
<1>2. CASE at[c] # "idle"
  <2> DEFINE m == timer[c]
  <2>1. CallInv(c) /\ m \in Timers /\ at[m] = "ready"  BY <1>2 DEF IInv, CallInv
  <2>2. Ready(m)  BY <2>1
  <2>3. Frame(Boss(m)) /\ Frame(Worker(m)) /\ Frame(BossPool(m))
    BY <2>1, <2>2, PoolsForFacts, UsedPools DEF Ready
  <2>4. /\ Exists(Boss(m))' <=> Exists(Boss(m))
        /\ Exists(Worker(m))' <=> Exists(Worker(m))
        /\ Stopped(Boss(m)) => Stopped(Boss(m))'
        /\ Stopped(Worker(m)) => Stopped(Worker(m))'
        /\ pool[Boss(m)].closed => pool'[Boss(m)].closed
        /\ pool[Worker(m)].closed => pool'[Worker(m)].closed
        /\ pool[BossPool(m)].ran \subseteq pool'[BossPool(m)].ran
    BY <2>3, StillThere
  <2>5. BossPool(m)' = BossPool(m)  BY <2>2 DEF Ready, BossPool, PoolOf
  <2>6. SchedulerDone(m) => SchedulerDone(m)'
    BY <2>1, <2>2, <2>4, <2>5 DEF Ready, SchedulerDone
  <2>7. timer'[c] = m /\ at'[m] = "ready" /\ (reporter[m] # "running" => reporter'[m] # "running")
    BY <2>2 DEF Ready
  <2> HIDE DEF m
  <2>8. QED  BY <2>1, <2>4, <2>6, <2>7 DEF CallInv, m
<1>3. QED  BY <1>1, <1>2

-----------------------------------------------------------------------------
(* Steps of pools, and tasks that are given to them *)

LEMMA PoolStepTouches ==
  ASSUME IInv, NEW p \in Pools, PoolStep(p)
  PROVE  /\ Touches(p, {}) /\ pool[p] # Made(Nil) /\ (Idle(p) => Idle(p)')
         /\ UNCHANGED <<timerVars, at, callVars>>
<1>1. /\ pool = [q \in Pools |-> pool[q]] /\ InOrder(pool[p])
      /\ pool[p] = Made(Nil) \/ Within(pool[p])
  BY DEF IInv, TypeInv, PoolInv
<1>2. CASE Park(p)
  <2>1. pool[p] # Made(Nil)  BY <1>2, NotMade DEF Park
  <2>2. QED  BY <1>1, <1>2, <2>1, ParkProper DEF Touches, Gives, Park, Idle
<1>3. CASE Pick(p)
  <2>1. pool[p] # Made(Nil)  BY <1>3, NotMade DEF Pick
  <2>2. ~Idle(p)  BY <1>3 DEF Pick, Idle
  <2>3. QED  BY <1>1, <1>3, <2>1, <2>2, PickProper DEF Touches, Gives, Pick
<1>4. CASE Leave(p)
  <2>1. pool[p] # Made(Nil)  BY <1>4, NotMade DEF Leave
  <2>2. ~Idle(p)  BY <1>4 DEF Leave, Idle
  <2>3. QED  BY <1>1, <1>4, <2>1, <2>2, LeaveProper DEF Touches, Gives, Leave
<1>5. CASE \E j \in Jobs : End(p, j)
  <2>1. PICK j \in Jobs : End(p, j)  BY <1>5
  <2>2. pool[p] # Made(Nil)  BY <2>1, NotMade DEF End
  <2>3. QED  BY <1>1, <2>1, <2>2, EndProper DEF Touches, Gives, End, Idle
<1>6. QED  BY <1>2, <1>3, <1>4, <1>5 DEF PoolStep

\* A pool takes only what no pool knows of.
LEMMA FreshFacts ==
  ASSUME IInv, NEW j
  PROVE  Fresh(j) <=> \A p \in Pools : j \notin Known(pool[p])
<1>1. \A p \in Pools : Queued(p) \cup pool[p].running \cup pool[p].ran = Known(pool[p])
  BY KnownFacts DEF IInv, PoolInv
<1>2. QED  BY <1>1 DEF Fresh

LEMMA SendTouches ==
  ASSUME IInv, NEW p \in Pools, Within(pool[p]), NEW j \in Jobs, Fresh(j), Takes(p), Send(p, j)
  PROVE  Touches(p, {j})
<1>1. /\ pool = [q \in Pools |-> pool[q]] /\ InOrder(pool[p]) /\ j \notin Known(pool[p])
  BY FreshFacts DEF IInv, TypeInv, PoolInv
<1>2. QED  BY <1>1, SendProper DEF Touches, Gives

\* A pool works, or is given a task or closed, by somebody who does nothing else.
LEMMA PoolWorkKept ==
  ASSUME IInv, NEW p \in Pools, Touches(p, Tasks), \A m \in Timers : Untouched(m),
         UNCHANGED <<timerVars, at, callVars>>
  PROVE  IInv'
<1>1. TypeInv'
  <2>1. pool' = [q \in Pools |-> pool'[q]]  BY DEF Touches, IInv, TypeInv
  <2>2. QED  BY <2>1 DEF IInv, TypeInv, timerVars, callVars
<1>2. \A q \in Pools : Frame(q) /\ Gives(q, Tasks)  BY TouchedPools
<1>3. PoolInv'  BY <1>2, PoolsKept
<1>4. ASSUME NEW m \in Timers PROVE TimerInv(m)'
  <2>1. \A q \in Pools : m \notin Known(pool[q]) => m \notin Known(pool'[q])
    BY <1>2, LifecycleAssumption DEF Gives
  <2>2. \A q \in PoolsFor(m) : Frame(q)  BY <1>2, PoolsForFacts
  <2>3. QED  BY <2>1, <2>2, StillTimer DEF timerVars
<1>5. ASSUME NEW c \in Closers PROVE CallInv(c)'
  <2>1. \A m \in Timers : at[m] = "ready" => Ready(m)
    BY <1>2, PoolsForFacts DEF Ready, timerVars
  <2>2. QED  BY <2>1, StillCall DEF callVars
<1>6. QED  BY <1>1, <1>3, <1>4, <1>5 DEF IInv

LEMMA PoolStepKept ==
  ASSUME IInv, NEW p \in Pools, PoolStep(p)
  PROVE  IInv'
<1>1. /\ Touches(p, {}) /\ pool[p] # Made(Nil) /\ (Idle(p) => Idle(p)')
      /\ UNCHANGED <<timerVars, at, callVars>>
  BY PoolStepTouches
<1>2. Touches(p, Tasks)  BY <1>1 DEF Touches, Gives
<1>3. ASSUME NEW m \in Timers PROVE Untouched(m)
  <2>1. \A q \in Pools \ {p} : pool'[q] = pool[q]  BY <1>1, TouchedPools
  <2>2. Boss(m) \in Pools /\ Worker(m) \in Pools  BY PoolsForFacts
  <2>3. /\ at[m] \in {"new", "make boss"} => Boss(m) # p
        /\ at[m] \in {"new", "make boss", "make worker"} => Worker(m) # p
    BY <1>1 DEF IInv, TimerInv, MadeInv
  <2>4. QED  BY <1>1, <2>1, <2>2, <2>3 DEF Untouched, Idle
<1>4. QED  BY <1>1, <1>2, <1>3, PoolWorkKept

\* A pool that no timer is about to make or to start on.
LEMMA ElsewhereUntouched ==
  ASSUME IInv, NEW p \in Pools, NEW J, Touches(p, J), NEW m \in Timers,
         p \notin {Boss(m), Worker(m)} \/ at[m] \notin {"new", "make boss", "make worker", "start"}
  PROVE  Untouched(m)
<1>1. \A q \in Pools \ {p} : pool'[q] = pool[q]  BY TouchedPools
<1>2. Boss(m) \in Pools /\ Worker(m) \in Pools  BY PoolsForFacts
<1>3. QED  BY <1>1, <1>2 DEF Untouched, Idle

LEMMA SubmitKept ==
  ASSUME IInv, NEW s \in Shared, NEW x \in Tasks, Submit(s, x)
  PROVE  IInv'
<1>1. s \in Pools /\ x \in Jobs /\ Within(pool[s])
  BY PoolNames DEF Jobs, IInv, PoolInv
<1>2. Touches(s, {x})  BY <1>1, SendTouches DEF Submit
<1>3. Touches(s, Tasks)  BY <1>2 DEF Touches, Gives
<1>4. \A m \in Timers : Untouched(m)  BY <1>1, <1>2, ElsewhereUntouched, PoolsForFacts
<1>5. UNCHANGED <<timerVars, at, callVars>>  BY DEF Submit
<1>6. QED  BY <1>1, <1>3, <1>4, <1>5, PoolWorkKept

LEMMA CloseSharedKept ==
  ASSUME IInv, NEW s \in Shared, CloseShared(s)
  PROVE  IInv'
<1>1. s \in Pools /\ Within(pool[s]) /\ InOrder(pool[s]) /\ pool = [q \in Pools |-> pool[q]]
  BY PoolNames DEF IInv, TypeInv, PoolInv
<1>2. Closing(s) /\ UNCHANGED <<timerVars, at, callVars>>  BY DEF CloseShared
<1>3. Touches(s, Tasks)  BY <1>1, <1>2, ClosingProper DEF Touches, Gives
<1>4. \A m \in Timers : Untouched(m)  BY <1>1, <1>3, ElsewhereUntouched, PoolsForFacts
<1>5. QED  BY <1>1, <1>2, <1>3, <1>4, PoolWorkKept

LEMMA DispatchKept ==
  ASSUME IInv, NEW m \in Timers, NEW x \in Tasks, Dispatch(m, x)
  PROVE  IInv'
<1> DEFINE p == WorkerPool(m)
<1>1. at[m] = "ready" /\ Fresh(x) /\ Takes(p) /\ Send(p, x)
      /\ UNCHANGED <<timerVars, at, callVars>>
  BY DEF Dispatch, SchedulerRuns
<1>2. p \in Pools /\ p \in Shared \cup {Worker(m)} /\ Within(pool[p]) /\ x \in Jobs
  BY <1>1, Configured, PoolsThere DEF Roles, WorkerPool, Worker, Jobs
<1> HIDE DEF p
<1>3. Touches(p, {x})  BY <1>1, <1>2, SendTouches
<1>4. Touches(p, Tasks)  BY <1>3 DEF Touches, Gives
<1>5. ASSUME NEW n \in Timers PROVE Untouched(n)
  <2>1. n # m => p \notin {Boss(n), Worker(n)}
    <3>1. CASE p \in Shared  BY <3>1, PoolsForFacts
    <3>2. CASE p = Worker(m)  BY <3>2, TwoTimers
    <3>3. QED  BY <1>2, <3>1, <3>2
  <2>2. QED  BY <1>1, <1>2, <1>3, <2>1, ElsewhereUntouched
<1>6. QED  BY <1>1, <1>2, <1>4, <1>5, PoolWorkKept

-----------------------------------------------------------------------------
(* Steps of New *)

\* The timers other than m, and the calls, when only m moves.
LEMMA OthersKept ==
  ASSUME IInv, NEW m \in Timers, at[m] # "ready",
         \A n \in Timers \ {m} : /\ at'[n] = at[n] /\ given'[n] = given[n]
                                 /\ config'[n] = config[n] /\ reporter'[n] = reporter[n]
                                 /\ Untouched(n)
                                 /\ \A p \in PoolsFor(n) : Frame(p)
                                 /\ \A p \in Pools : n \notin Known(pool[p]) =>
                                                       n \notin Known(pool'[p]),
         \A c \in Closers : at'[c] = at[c],
         UNCHANGED callVars
  PROVE  /\ \A n \in Timers \ {m} : TimerInv(n)'
         /\ \A c \in Closers : CallInv(c)'
<1>1. \A n \in Timers \ {m} : TimerInv(n)'  BY StillTimer
<1>2. ASSUME NEW c \in Closers PROVE CallInv(c)'
  <2>1. \A n \in Timers : at[n] = "ready" => Ready(n)  BY DEF Ready
  <2>2. QED  BY <2>1, StillCall DEF callVars
<1>3. QED  BY <1>1, <1>2

LEMMA Apart == Timers \cap Closers = {}
BY LifecycleAssumption DEF Closers

\* A timer moves and no pool does.
LEMMA MoveFrame ==
  ASSUME IInv, NEW m \in Timers, at[m] # "ready", UNCHANGED <<pool, reporter, callVars>>,
         \A n \in Timers \ {m} : given'[n] = given[n] /\ config'[n] = config[n],
         NEW there, at' = [at EXCEPT ![m] = there]
  PROVE  /\ PoolInv' /\ at'[m] = there
         /\ \A n \in Timers \ {m} : TimerInv(n)'
         /\ \A c \in Closers : CallInv(c)'
<1>1. at = [c \in Procs |-> at[c]]  BY DEF IInv, TypeInv
<1>2. \A c \in Procs \ {m} : at'[c] = at[c]  BY <1>1
<1>3. at'[m] = there  BY <1>1 DEF Procs
<1>4. \A c \in Closers : at'[c] = at[c]  BY <1>2, Apart DEF Procs
<1>5. \A p \in Pools : Frame(p)  BY SamePools
<1>6. PoolInv'  BY <1>5, PoolsKept
<1>7. \A n \in Timers \ {m} : at'[n] = at[n]  BY <1>2 DEF Procs
<1>8. \A n \in Timers : Untouched(n)  BY DEF Untouched, Idle
<1>9. \A n \in Timers : \A p \in PoolsFor(n) : Frame(p)  BY <1>5, PoolsForFacts
<1>10. QED  BY <1>3, <1>4, <1>6, <1>7, <1>8, <1>9, OthersKept

LEMMA NewKept ==
  ASSUME IInv, NEW m \in Timers, New(m)
  PROVE  IInv'
<1>1. PICK opts \in OptionLists[m] :
        /\ given' = [given EXCEPT ![m] = opts]
        /\ config' = [config EXCEPT ![m] = TimerOptions(opts)]
        /\ Goto(m, "new", IF TimerOptions(opts) = Invalid THEN "failed" ELSE "make boss")
        /\ UNCHANGED <<shutdownC, reporter, pool, callVars>>
  BY DEF New
<1> DEFINE there == IF TimerOptions(opts) = Invalid THEN "failed" ELSE "make boss"
<1>2. at[m] = "new" /\ at' = [at EXCEPT ![m] = there] /\ there \in {"failed", "make boss"}
  BY <1>1 DEF Goto
<1>3. /\ given = [n \in Timers |-> given[n]] /\ config = [n \in Timers |-> config[n]]
      /\ at = [c \in Procs |-> at[c]]
  BY DEF IInv, TypeInv
<1>4. /\ \A n \in Timers \ {m} : given'[n] = given[n] /\ config'[n] = config[n]
      /\ given'[m] = opts /\ config'[m] = TimerOptions(opts)
      /\ there = "make boss" => config'[m] # Invalid
  BY <1>1, <1>3
<1> HIDE DEF there
<1>5. /\ PoolInv' /\ at'[m] = there
      /\ \A n \in Timers \ {m} : TimerInv(n)'
      /\ \A c \in Closers : CallInv(c)'
  BY <1>1, <1>2, <1>4, MoveFrame
<1>6. TypeInv'
  <2>1. at' = [c \in Procs |-> at'[c]] /\ \A c \in Procs \ {m} : at'[c] = at[c]
    BY <1>2, <1>3
  <2>2. \A n \in Timers : at'[n] \in NewPlaces
    BY <1>2, <1>5, <2>1 DEF IInv, TypeInv, NewPlaces, Procs
  <2>3. \A c \in Closers : at'[c] \in CallPlaces
    BY <2>1, Apart DEF IInv, TypeInv, Procs
  <2>4. given' = [n \in Timers |-> given'[n]] /\ config' = [n \in Timers |-> config'[n]]
    BY <1>1, <1>3
  <2>5. QED  BY <1>1, <2>1, <2>2, <2>3, <2>4 DEF IInv, TypeInv, callVars
<1>7. TimerInv(m)'
  <2>1. pool'[Boss(m)] = Made(Nil) /\ pool'[Worker(m)] = Made(Nil)
    BY <1>1, <1>2 DEF IInv, TimerInv, MadeInv
  <2>2. ~Exists(Boss(m))' /\ ~Exists(Worker(m))'
    BY <2>1 DEF Made, Exists
  <2>3. ConfigInv(m)'  BY <1>2, <1>4, <1>5, <2>2 DEF ConfigInv
  <2>4. MadeInv(m)'  BY <1>2, <1>5, <2>1, <2>2 DEF MadeInv
  <2>5. FreshInv(m)'  BY <1>1, <1>2 DEF IInv, TimerInv, FreshInv
  <2>6. FailInv(m)'  BY <2>2 DEF FailInv
  <2>7. QED  BY <2>3, <2>4, <2>5, <2>6 DEF TimerInv
<1>8. QED  BY <1>5, <1>6, <1>7 DEF IInv

LEMMA MoveType ==
  ASSUME IInv, NEW m \in Timers, NEW there \in NewPlaces, at' = [at EXCEPT ![m] = there],
         UNCHANGED <<given, config, shutdownC, callVars>>,
         reporter' \in [Timers -> {"none", "running", "ended"}],
         pool' = [p \in Pools |-> pool'[p]]
  PROVE  TypeInv'
<1>1. at' = [c \in Procs |-> at'[c]] /\ at'[m] = there /\ \A c \in Procs \ {m} : at'[c] = at[c]
  BY DEF IInv, TypeInv, Procs
<1>2. \A n \in Timers : at'[n] \in NewPlaces  BY <1>1 DEF IInv, TypeInv, Procs
<1>3. \A c \in Closers : at'[c] \in CallPlaces  BY <1>1, Apart DEF IInv, TypeInv, Procs
<1>4. QED  BY <1>1, <1>2, <1>3 DEF IInv, TypeInv, callVars

\* A pool is made.
LEMMA MakeFrame ==
  ASSUME IInv, NEW m \in Timers, NEW role \in Roles, at[m] # "ready",
         NEW spec, IsSpec(spec), pool[<<m, role>>] = Made(Nil),
         pool' = [pool EXCEPT ![<<m, role>>] = Made(spec)],
         NEW there, at' = [at EXCEPT ![m] = there], UNCHANGED <<timerVars, callVars>>
  PROVE  /\ PoolInv' /\ at'[m] = there
         /\ pool'[<<m, role>>] = Made(spec) /\ Within(pool'[<<m, role>>])
         /\ \A p \in Pools \ {<<m, role>>} : pool'[p] = pool[p]
         /\ FreshInv(m) => \A p \in Pools : m \notin Known(pool'[p])
         /\ \A n \in Timers \ {m} : TimerInv(n)'
         /\ \A c \in Closers : CallInv(c)'
<1> DEFINE p == <<m, role>>
<1>1. p \in Pools /\ p \notin Shared /\ \A n \in Timers \ {m} : p \notin PoolsFor(n)
  BY PoolNames DEF PoolsFor, Boss, Worker
<1>2. /\ pool = [q \in Pools |-> pool[q]] /\ at = [c \in Procs |-> at[c]]
      /\ \A q \in Pools : InOrder(pool[q]) /\ (pool[q] = Made(Nil) \/ Within(pool[q]))
      /\ \A s \in Shared : Within(pool[s])
  BY DEF IInv, TypeInv, PoolInv
<1> HIDE DEF p
<1>3. pool'[p] = Made(spec) /\ \A q \in Pools \ {p} : pool'[q] = pool[q]
  BY <1>1, <1>2 DEF p
<1>4. InOrder(Made(spec)) /\ Within(Made(spec)) /\ Known(Made(spec)) = {}  BY MadeInOrder
<1>5. PoolInv'
  <2>1. \A q \in Pools : InOrder(pool'[q]) /\ (pool'[q] = Made(Nil) \/ Within(pool'[q]))
    BY <1>2, <1>3, <1>4
  <2>2. \A s \in Shared : Within(pool'[s])  BY <1>1, <1>2, <1>3, PoolNames
  <2>3. QED  BY <2>1, <2>2 DEF PoolInv
<1>6. at'[m] = there /\ \A c \in Procs \ {m} : at'[c] = at[c]  BY <1>2 DEF Procs
<1>7. ASSUME NEW n \in Timers \ {m}, NEW q \in PoolsFor(n) PROVE Frame(q) /\ pool'[q] = pool[q]
  <2>1. q \in Pools /\ q # p  BY <1>1, PoolsForFacts
  <2>2. pool'[q] = pool[q] /\ InOrder(pool'[q])  BY <1>2, <1>3, <2>1
  <2>3. QED  BY <2>2 DEF Frame, Grows
<1>8. ASSUME NEW n \in Timers, NEW q \in Pools, n \notin Known(pool[q])
      PROVE  n \notin Known(pool'[q])
  BY <1>3, <1>4, <1>8
<1>9. \A n \in Timers \ {m} : Untouched(n)
  BY <1>7, PoolsForFacts DEF Untouched, Idle
<1>10. \A c \in Closers : at'[c] = at[c]  BY <1>6, Apart DEF Procs
<1>11. /\ \A n \in Timers \ {m} : TimerInv(n)'
       /\ \A c \in Closers : CallInv(c)'
  BY <1>6, <1>7, <1>8, <1>9, <1>10, OthersKept DEF timerVars, Procs
<1>12. FreshInv(m) => \A q \in Pools : m \notin Known(pool'[q])
  <2>1. FreshInv(m) => \A q \in Pools : m \notin Known(pool[q])  BY DEF FreshInv
  <2>2. QED  BY <1>8, <2>1
<1>13. QED  BY <1>3, <1>4, <1>5, <1>6, <1>11, <1>12 DEF p

\* The options of a pool that New makes.
LEMMA SpecGood ==
  ASSUME IInv, NEW m \in Timers, at[m] \notin {"new", "failed"}, NEW role \in Roles,
         PoolOptions(config[m].options[role]) # Invalid
  PROVE  IsSpec(PoolOptions(config[m].options[role]))
BY Configured, PoolOptionsSound

LEMMA MakeBossKept ==
  ASSUME IInv, NEW m \in Timers, MakeBoss(m)
  PROVE  IInv'
<1> DEFINE spec == PoolOptions(config[m].options["boss"])
<1>1. at[m] = "make boss" /\ UNCHANGED <<timerVars, callVars>>  BY DEF MakeBoss, Make
<1>2. TimerInv(m) /\ pool[Boss(m)] = Made(Nil) /\ pool[Worker(m)] = Made(Nil)
      /\ config[m] # Invalid /\ FreshInv(m)
  BY <1>1 DEF IInv, TimerInv, MadeInv, ConfigInv
<1>3. /\ reporter \in [Timers -> {"none", "running", "ended"}] /\ pool = [p \in Pools |-> pool[p]]
      /\ config[m] = TimerOptions(given[m]) /\ given[m] \in OptionLists[m]
  BY <1>1 DEF IInv, TypeInv, TimerInv, ConfigInv
<1>4. /\ Boss(m) = <<m, "boss">> /\ "boss" \in Roles /\ Boss(m) # Worker(m)
      /\ Boss(m) \in Pools /\ Worker(m) \in Pools
  BY PoolsForFacts DEF Boss, Roles
<1> HIDE DEF spec
<1>5. CASE config[m].pool["boss"] # Nil /\ Goto(m, "make boss", "make worker") /\ UNCHANGED pool
  <2>1. at' = [at EXCEPT ![m] = "make worker"]  BY <1>5 DEF Goto
  <2>2. /\ PoolInv' /\ at'[m] = "make worker"
        /\ \A n \in Timers \ {m} : TimerInv(n)'
        /\ \A c \in Closers : CallInv(c)'
    BY <1>1, <1>5, <2>1, MoveFrame DEF timerVars
  <2>3. TypeInv'  BY <1>1, <1>3, <1>5, <2>1, MoveType DEF NewPlaces, timerVars
  <2>4. TimerInv(m)'
    <3>1. ~Exists(Boss(m))' /\ pool'[Boss(m)].queue = <<>> /\ ~pool'[Boss(m)].closed
      <4>1. pool'[Boss(m)] = Made(Nil)  BY <1>2, <1>5
      <4>2. QED  BY <4>1 DEF Made, Exists
    <3>2. ConfigInv(m)'  BY <1>1, <1>2, <1>3, <2>2 DEF ConfigInv, timerVars
    <3>3. MadeInv(m)'  BY <1>1, <1>2, <1>5, <2>2, <3>1 DEF MadeInv, timerVars
    <3>4. FreshInv(m)'  BY <1>1, <1>2, <1>5 DEF FreshInv
    <3>5. FailInv(m)'  BY <2>2 DEF FailInv, ClosePlaces
    <3>6. QED  BY <3>2, <3>3, <3>4, <3>5 DEF TimerInv
  <2>5. QED  BY <2>2, <2>3, <2>4 DEF IInv
<1>6. CASE Goto(m, "make boss", "failed") /\ UNCHANGED pool
  <2>1. at' = [at EXCEPT ![m] = "failed"]  BY <1>6 DEF Goto
  <2>2. /\ PoolInv' /\ at'[m] = "failed"
        /\ \A n \in Timers \ {m} : TimerInv(n)'
        /\ \A c \in Closers : CallInv(c)'
    BY <1>1, <1>6, <2>1, MoveFrame DEF timerVars
  <2>3. TypeInv'  BY <1>1, <1>3, <1>6, <2>1, MoveType DEF NewPlaces, timerVars
  <2>4. TimerInv(m)'
    <3>1. ~Exists(Boss(m))' /\ ~Exists(Worker(m))'
      <4>1. pool'[Boss(m)] = Made(Nil) /\ pool'[Worker(m)] = Made(Nil)  BY <1>2, <1>6
      <4>2. QED  BY <4>1 DEF Made, Exists
    <3>2. ConfigInv(m)'  BY <1>1, <1>2, <1>3, <2>2, <3>1 DEF ConfigInv, timerVars
    <3>3. MadeInv(m)'  BY <2>2, <3>1 DEF MadeInv
    <3>4. FreshInv(m)'  BY <1>1, <1>2, <1>6 DEF FreshInv
    <3>5. FailInv(m)'  BY <3>1 DEF FailInv
    <3>6. QED  BY <3>2, <3>3, <3>4, <3>5 DEF TimerInv
  <2>5. QED  BY <2>2, <2>3, <2>4 DEF IInv
<1>7. CASE /\ config[m].pool["boss"] = Nil /\ spec # Invalid
           /\ Goto(m, "make boss", "make worker")
           /\ pool' = [pool EXCEPT ![<<m, "boss">>] = Made(spec)]
  <2>1. at' = [at EXCEPT ![m] = "make worker"] /\ IsSpec(spec)
    BY <1>1, <1>4, <1>7, SpecGood DEF Goto, spec
  <2>2. /\ PoolInv' /\ at'[m] = "make worker"
        /\ pool'[Boss(m)] = Made(spec) /\ Within(pool'[Boss(m)])
        /\ \A p \in Pools \ {Boss(m)} : pool'[p] = pool[p]
        /\ \A p \in Pools : m \notin Known(pool'[p])
        /\ \A n \in Timers \ {m} : TimerInv(n)'
        /\ \A c \in Closers : CallInv(c)'
    <3>1. pool[<<m, "boss">>] = Made(Nil) /\ at[m] # "ready"  BY <1>1, <1>2, <1>4
    <3>2. /\ PoolInv' /\ at'[m] = "make worker"
          /\ pool'[<<m, "boss">>] = Made(spec) /\ Within(pool'[<<m, "boss">>])
          /\ \A p \in Pools \ {<<m, "boss">>} : pool'[p] = pool[p]
          /\ FreshInv(m) => \A p \in Pools : m \notin Known(pool'[p])
          /\ \A n \in Timers \ {m} : TimerInv(n)'
          /\ \A c \in Closers : CallInv(c)'
      BY <1>1, <1>4, <1>7, <2>1, <3>1, MakeFrame
    <3>3. QED  BY <1>2, <1>4, <3>2
  <2>3. TypeInv'  BY <1>1, <1>3, <1>7, <2>1, MoveType DEF NewPlaces, timerVars
  <2>4. TimerInv(m)'
    <3>1. pool'[Boss(m)].queue = <<>> /\ ~pool'[Boss(m)].closed
      <4>1. Made(spec).queue = <<>> /\ ~Made(spec).closed  BY DEF Made
      <4>2. QED  BY <2>2, <4>1
    <3>2. ConfigInv(m)'  BY <1>1, <1>2, <1>3, <2>2 DEF ConfigInv, timerVars
    <3>3. MadeInv(m)'  BY <1>1, <1>2, <1>4, <1>7, <2>2, <3>1 DEF MadeInv, timerVars
    <3>4. FreshInv(m)'  BY <2>2 DEF FreshInv
    <3>5. FailInv(m)'  BY <2>2 DEF FailInv, ClosePlaces
    <3>6. QED  BY <3>2, <3>3, <3>4, <3>5 DEF TimerInv
  <2>5. QED  BY <2>2, <2>3, <2>4 DEF IInv
<1>8. QED  BY <1>5, <1>6, <1>7 DEF MakeBoss, Make, spec

LEMMA MakeWorkerKept ==
  ASSUME IInv, NEW m \in Timers, MakeWorker(m)
  PROVE  IInv'
<1> DEFINE spec == PoolOptions(config[m].options["worker"])
<1>1. at[m] = "make worker" /\ UNCHANGED <<timerVars, callVars>>  BY DEF MakeWorker, Make
<1>2. /\ pool[Worker(m)] = Made(Nil) /\ config[m] # Invalid
      /\ ConfigInv(m) /\ MadeInv(m) /\ FreshInv(m)
  BY <1>1 DEF IInv, TimerInv, MadeInv, ConfigInv
<1>3. /\ reporter \in [Timers -> {"none", "running", "ended"}] /\ pool = [p \in Pools |-> pool[p]]
      /\ config[m] = TimerOptions(given[m]) /\ given[m] \in OptionLists[m]
  BY <1>1 DEF IInv, TypeInv, TimerInv, ConfigInv
<1>4. /\ Worker(m) = <<m, "worker">> /\ "worker" \in Roles /\ Boss(m) # Worker(m)
      /\ Boss(m) \in Pools /\ Worker(m) \in Pools
  BY PoolsForFacts DEF Worker, Roles
<1> HIDE DEF spec
<1>5. CASE config[m].pool["worker"] # Nil /\ Goto(m, "make worker", "start") /\ UNCHANGED pool
  <2>1. at' = [at EXCEPT ![m] = "start"]  BY <1>5 DEF Goto
  <2>2. /\ PoolInv' /\ at'[m] = "start"
        /\ \A n \in Timers \ {m} : TimerInv(n)'
        /\ \A c \in Closers : CallInv(c)'
    BY <1>1, <1>5, <2>1, MoveFrame DEF timerVars
  <2>3. TypeInv'  BY <1>1, <1>3, <1>5, <2>1, MoveType DEF NewPlaces, timerVars
  <2>4. TimerInv(m)'
    <3>2. ConfigInv(m)'  BY <1>1, <1>2, <1>3, <2>2 DEF ConfigInv, timerVars
    <3>3. MadeInv(m)'
      <4>1. Exists(Boss(m))' <=> Exists(Boss(m))  BY <1>5 DEF Exists
      <4>2. QED  BY <1>1, <1>2, <1>5, <2>2, <4>1 DEF MadeInv, timerVars
    <3>4. FreshInv(m)'  BY <1>1, <1>2, <1>5 DEF FreshInv
    <3>5. FailInv(m)'  BY <2>2 DEF FailInv, ClosePlaces
    <3>6. QED  BY <3>2, <3>3, <3>4, <3>5 DEF TimerInv
  <2>5. QED  BY <2>2, <2>3, <2>4 DEF IInv
<1>6. CASE /\ config[m].pool["worker"] = Nil
           /\ Goto(m, "make worker", "close boss") /\ UNCHANGED pool
  <2>1. at' = [at EXCEPT ![m] = "close boss"]  BY <1>6 DEF Goto
  <2>2. /\ PoolInv' /\ at'[m] = "close boss"
        /\ \A n \in Timers \ {m} : TimerInv(n)'
        /\ \A c \in Closers : CallInv(c)'
    BY <1>1, <1>6, <2>1, MoveFrame DEF timerVars
  <2>3. TypeInv'  BY <1>1, <1>3, <1>6, <2>1, MoveType DEF NewPlaces, ClosePlaces, timerVars
  <2>4. TimerInv(m)'
    <3>1. ~Exists(WorkerPool(m))'
      <4>1. WorkerPool(m)' = Worker(m)
        BY <1>1, <1>6 DEF WorkerPool, PoolOf, Worker, timerVars
      <4>2. pool'[Worker(m)].spec = Nil
        <5>1. pool'[Worker(m)] = Made(Nil)  BY <1>2, <1>6
        <5>2. QED  BY <5>1 DEF Made
      <4>3. QED  BY <4>1, <4>2 DEF Exists
    <3>2. ConfigInv(m)'  BY <1>1, <1>2, <1>3, <2>2 DEF ConfigInv, timerVars
    <3>3. MadeInv(m)'
      <4>1. Exists(Boss(m))' <=> Exists(Boss(m))  BY <1>6 DEF Exists
      <4>2. QED  BY <1>1, <1>2, <2>2, <4>1 DEF MadeInv, timerVars
    <3>4. FreshInv(m)'  BY <1>1, <1>2, <1>6 DEF FreshInv
    <3>5. FailInv(m)'  BY <2>2, <3>1 DEF FailInv
    <3>6. QED  BY <3>2, <3>3, <3>4, <3>5 DEF TimerInv
  <2>5. QED  BY <2>2, <2>3, <2>4 DEF IInv
<1>7. CASE /\ config[m].pool["worker"] = Nil /\ spec # Invalid
           /\ Goto(m, "make worker", "start")
           /\ pool' = [pool EXCEPT ![<<m, "worker">>] = Made(spec)]
  <2>1. at' = [at EXCEPT ![m] = "start"] /\ IsSpec(spec)
    BY <1>1, <1>4, <1>7, SpecGood DEF Goto, spec
  <2>2. /\ PoolInv' /\ at'[m] = "start"
        /\ pool'[Worker(m)] = Made(spec) /\ Within(pool'[Worker(m)])
        /\ \A p \in Pools \ {Worker(m)} : pool'[p] = pool[p]
        /\ \A p \in Pools : m \notin Known(pool'[p])
        /\ \A n \in Timers \ {m} : TimerInv(n)'
        /\ \A c \in Closers : CallInv(c)'
    <3>1. pool[<<m, "worker">>] = Made(Nil) /\ at[m] # "ready"  BY <1>1, <1>2, <1>4
    <3>2. /\ PoolInv' /\ at'[m] = "start"
          /\ pool'[<<m, "worker">>] = Made(spec) /\ Within(pool'[<<m, "worker">>])
          /\ \A p \in Pools \ {<<m, "worker">>} : pool'[p] = pool[p]
          /\ FreshInv(m) => \A p \in Pools : m \notin Known(pool'[p])
          /\ \A n \in Timers \ {m} : TimerInv(n)'
          /\ \A c \in Closers : CallInv(c)'
      BY <1>1, <1>4, <1>7, <2>1, <3>1, MakeFrame
    <3>3. QED  BY <1>2, <1>4, <3>2
  <2>3. TypeInv'  BY <1>1, <1>3, <1>7, <2>1, MoveType DEF NewPlaces, timerVars
  <2>4. TimerInv(m)'
    <3>1. pool'[Boss(m)] = pool[Boss(m)]  BY <1>4, <2>2
    <3>2. ConfigInv(m)'  BY <1>1, <1>2, <1>3, <2>2 DEF ConfigInv, timerVars
    <3>3. MadeInv(m)'
      <4>1. Exists(Boss(m))' <=> Exists(Boss(m))  BY <3>1 DEF Exists
      <4>2. QED  BY <1>1, <1>2, <2>2, <3>1, <4>1 DEF MadeInv, timerVars
    <3>4. FreshInv(m)'  BY <2>2 DEF FreshInv
    <3>5. FailInv(m)'  BY <2>2 DEF FailInv, ClosePlaces
    <3>6. QED  BY <3>2, <3>3, <3>4, <3>5 DEF TimerInv
  <2>5. QED  BY <2>2, <2>3, <2>4 DEF IInv
<1>8. QED  BY <1>5, <1>6, <1>7 DEF MakeWorker, Make, spec

\* A timer moves, and no pool is made.
LEMMA TimerMoves ==
  ASSUME IInv, NEW m \in Timers, at[m] \notin {"new", "failed", "ready"},
         NEW there \in NewPlaces \ {"new"}, at' = [at EXCEPT ![m] = there],
         UNCHANGED <<given, config, shutdownC, callVars>>,
         reporter' \in [Timers -> {"none", "running", "ended"}],
         \A n \in Timers \ {m} : reporter'[n] = reporter[n] /\ Untouched(n),
         pool' = [p \in Pools |-> pool'[p]],
         \A p \in Pools : Frame(p) /\ Gives(p, {m})
  PROVE  /\ TypeInv' /\ PoolInv' /\ at'[m] = there
         /\ ConfigInv(m)' /\ (Exists(Boss(m))' => config'[m].pool["boss"] = Nil)
         /\ \A n \in Timers \ {m} : TimerInv(n)'
         /\ \A c \in Closers : CallInv(c)'
<1>1. TypeInv'  BY MoveType
<1>2. PoolInv'  BY PoolsKept
<1>3. at'[m] = there /\ \A c \in Procs \ {m} : at'[c] = at[c]
  BY DEF IInv, TypeInv, Procs
<1>4. \A c \in Closers : at'[c] = at[c]  BY <1>3, Apart DEF Procs
<1>5. ASSUME NEW n \in Timers \ {m}
      PROVE  /\ at'[n] = at[n] /\ given'[n] = given[n] /\ config'[n] = config[n]
             /\ \A p \in PoolsFor(n) : Frame(p)
             /\ \A p \in Pools : n \notin Known(pool[p]) => n \notin Known(pool'[p])
  <2>1. \A p \in PoolsFor(n) : Frame(p)  BY PoolsForFacts
  <2>2. \A p \in Pools : n \notin Known(pool[p]) => n \notin Known(pool'[p])  BY DEF Gives
  <2>3. QED  BY <1>3, <2>1, <2>2 DEF Procs
<1>6. /\ \A n \in Timers \ {m} : TimerInv(n)'
      /\ \A c \in Closers : CallInv(c)'
  BY <1>4, <1>5, OthersKept
<1>7. Exists(Boss(m))' <=> Exists(Boss(m))  BY StillThere, PoolsForFacts
<1>8. ConfigInv(m) /\ MadeInv(m)  BY DEF IInv, TimerInv
<1>9. ConfigInv(m)'  BY <1>3, <1>8 DEF ConfigInv
<1>10. Exists(Boss(m))' => config'[m].pool["boss"] = Nil  BY <1>7, <1>8 DEF MadeInv
<1>11. QED  BY <1>1, <1>2, <1>3, <1>6, <1>9, <1>10

LEMMA StartSchedulerKept ==
  ASSUME IInv, NEW m \in Timers, StartScheduler(m)
  PROVE  IInv'
<1> DEFINE p == BossPool(m)
           r == IF config[m].metricSink # Nil THEN "running" ELSE "none"
<1>1. /\ at[m] = "start" /\ at' = [at EXCEPT ![m] = "ready"]
      /\ Takes(p) /\ Send(p, m) /\ UNCHANGED <<given, config, shutdownC, callVars>>
      /\ reporter' = [reporter EXCEPT ![m] = r] /\ r \in {"none", "running"}
  BY DEF StartScheduler, Goto
<1>2. p \in Pools /\ p \in Shared \cup {Boss(m)} /\ Within(pool[p]) /\ m \in Jobs
  BY <1>1, Configured, PoolsThere DEF Roles, BossPool, Boss, Jobs
<1> HIDE DEF p, r
<1>3. Fresh(m)  BY <1>1, FreshFacts DEF IInv, TimerInv, FreshInv
<1>4. Touches(p, {m})  BY <1>1, <1>2, <1>3, SendTouches
<1>5. /\ \A q \in Pools : Frame(q) /\ Gives(q, {m})
      /\ pool' = [q \in Pools |-> pool'[q]]
  <2>1. pool' = [q \in Pools |-> pool'[q]]  BY <1>4 DEF Touches, IInv, TypeInv
  <2>2. QED  BY <1>2, <1>4, <2>1, TouchedPools
<1>6. ASSUME NEW n \in Timers \ {m} PROVE reporter'[n] = reporter[n] /\ Untouched(n)
  <2>1. p \notin {Boss(n), Worker(n)}
    <3>1. CASE p \in Shared  BY <3>1, PoolsForFacts
    <3>2. CASE p = Boss(m)  BY <3>2, TwoTimers
    <3>3. QED  BY <1>2, <3>1, <3>2
  <2>2. Untouched(n)  BY <1>2, <1>4, <2>1, ElsewhereUntouched
  <2>3. QED  BY <1>1, <2>2 DEF IInv, TypeInv
<1>7. reporter' \in [Timers -> {"none", "running", "ended"}]  BY <1>1 DEF IInv, TypeInv
<1>8. /\ TypeInv' /\ PoolInv' /\ at'[m] = "ready"
      /\ ConfigInv(m)' /\ (Exists(Boss(m))' => config'[m].pool["boss"] = Nil)
      /\ \A n \in Timers \ {m} : TimerInv(n)'
      /\ \A c \in Closers : CallInv(c)'
  <2>1. "ready" \in NewPlaces \ {"new"}  BY DEF NewPlaces
  <2>2. QED  BY <1>1, <1>5, <1>6, <1>7, <2>1, TimerMoves
<1>9. TimerInv(m)'
  <2>1. Frame(Boss(m)) /\ Frame(Worker(m))  BY <1>5, PoolsForFacts
  <2>2. MadeInv(m)  BY DEF IInv, TimerInv
  <2>3. MadeInv(m)'  BY <1>1, <1>8, <2>1, <2>2 DEF MadeInv, Frame
  <2>4. FreshInv(m)' /\ FailInv(m)'  BY <1>8 DEF FreshInv, FailInv, ClosePlaces
  <2>5. QED  BY <1>8, <2>3, <2>4 DEF TimerInv
<1>10. QED  BY <1>8, <1>9 DEF IInv

\* Nothing happens to the pools.
LEMMA PoolsStill ==
  ASSUME IInv, UNCHANGED pool
  PROVE  /\ pool' = [p \in Pools |-> pool'[p]]
         /\ \A p \in Pools : Frame(p) /\ \A J : Gives(p, J)
         /\ \A m \in Timers : Untouched(m)
         /\ \A p : (Exists(p)' <=> Exists(p)) /\ (Stopped(p)' <=> Stopped(p))
<1>1. pool' = [p \in Pools |-> pool'[p]]  BY DEF IInv, TypeInv
<1>2. \A p \in Pools : Frame(p) /\ \A J : Gives(p, J)  BY SamePools
<1>3. \A m \in Timers : Untouched(m)  BY DEF Untouched, Idle
<1>4. \A p : (Exists(p)' <=> Exists(p)) /\ (Stopped(p)' <=> Stopped(p))
  BY DEF Exists, Stopped
<1>5. QED  BY <1>1, <1>2, <1>3, <1>4

LEMMA StartRefusedKept ==
  ASSUME IInv, NEW m \in Timers, StartRefused(m)
  PROVE  IInv'
<1>1. /\ at[m] = "start" /\ at' = [at EXCEPT ![m] = "close boss"]
      /\ ~Takes(BossPool(m)) /\ ~MayWait(m) /\ UNCHANGED <<timerVars, pool, callVars>>
  BY DEF StartRefused, Goto
<1>2. /\ TypeInv' /\ PoolInv' /\ at'[m] = "close boss"
      /\ ConfigInv(m)' /\ (Exists(Boss(m))' => config'[m].pool["boss"] = Nil)
      /\ \A n \in Timers \ {m} : TimerInv(n)'
      /\ \A c \in Closers : CallInv(c)'
  <2>1. "close boss" \in NewPlaces \ {"new"}  BY DEF NewPlaces, ClosePlaces
  <2>2. reporter' \in [Timers -> {"none", "running", "ended"}]
    BY <1>1 DEF IInv, TypeInv, timerVars
  <2>3. QED  BY <1>1, <2>1, <2>2, PoolsStill, TimerMoves DEF timerVars
<1>3. MadeInv(m)'  BY <1>2 DEF MadeInv
<1>4. FreshInv(m)'  BY <1>1 DEF FreshInv, IInv, TimerInv
<1>5. ASSUME Exists(Boss(m))
      PROVE  /\ pool[Boss(m)].spec.queueCapacity = 0
             /\ pool[Boss(m)].spec.rejectPolicy = "RejectPolicyReject"
  <2>1. /\ BossPool(m) = Boss(m) /\ config[m].pool["boss"] = Nil /\ Idle(Boss(m))
        /\ Within(pool[Boss(m)])
    BY <1>1, <1>5 DEF IInv, TimerInv, MadeInv, BossPool, PoolOf, Boss, Idle
  <2>2. ~pool[Boss(m)].closed /\ Len(pool[Boss(m)].queue) = 0  BY <2>1 DEF Idle
  <2>3. /\ pool[Boss(m)].spec.queueCapacity \in Nat
        /\ pool[Boss(m)].spec.rejectPolicy \in {"RejectPolicyReject", "RejectPolicyBlock"}
    BY <2>1 DEF Within, IsSpec
  <2>4. ~(0 < pool[Boss(m)].spec.queueCapacity)
    BY <1>1, <2>1, <2>2 DEF Takes, HasRoom
  <2>5. pool[Boss(m)].spec.rejectPolicy # "RejectPolicyBlock"
    BY <1>1, <2>1 DEF MayWait
  <2>6. QED  BY <2>3, <2>4, <2>5
<1>6. FailInv(m)'
  <2>1. pool'[Boss(m)] = pool[Boss(m)]  BY <1>1
  <2>2. Exists(Boss(m))' <=> Exists(Boss(m))  BY <1>1 DEF Exists
  <2>3. QED  BY <1>2, <1>5, <2>1, <2>2 DEF FailInv
<1>7. QED  BY <1>2, <1>3, <1>4, <1>6 DEF IInv, TimerInv

LEMMA ReporterEndsKept ==
  ASSUME IInv, NEW m \in Timers, ReporterEnds(m)
  PROVE  IInv'
<1>1. /\ reporter' = [reporter EXCEPT ![m] = "ended"]
      /\ UNCHANGED <<given, config, shutdownC, pool, at, callVars>>
  BY DEF ReporterEnds
<1>2. \A p \in Pools : Frame(p)  BY <1>1, PoolsStill
<1>3. TypeInv'  BY <1>1 DEF IInv, TypeInv, callVars
<1>4. PoolInv'  BY <1>2, PoolsKept
<1>5. ASSUME NEW n \in Timers PROVE TimerInv(n)'
  <2>1. \A p \in PoolsFor(n) : Frame(p)  BY <1>2, PoolsForFacts
  <2>2. \A p \in Pools : n \notin Known(pool[p]) => n \notin Known(pool'[p])  BY <1>1
  <2>3. Untouched(n)  BY <1>1, PoolsStill
  <2>4. QED  BY <1>1, <2>1, <2>2, <2>3, StillTimer
<1>6. ASSUME NEW c \in Closers PROVE CallInv(c)'
  <2>1. \A n \in Timers : reporter[n] # "running" => reporter'[n] # "running"
    BY <1>1 DEF IInv, TypeInv
  <2>2. \A n \in Timers : at[n] = "ready" => Ready(n)
    BY <1>1, <1>2, <2>1, PoolsForFacts DEF Ready
  <2>3. QED  BY <1>1, <2>2, StillCall DEF callVars
<1>7. QED  BY <1>3, <1>4, <1>5, <1>6 DEF IInv

-----------------------------------------------------------------------------
(* Steps of Shutdown *)

\* A call of Shutdown moves, and no pool is made.
LEMMA CallMoves ==
  ASSUME IInv, NEW c \in Closers, NEW there \in CallPlaces, at' = [at EXCEPT ![c] = there],
         UNCHANGED <<given, config, reporter>>, shutdownC' \in [Timers -> BOOLEAN],
         NEW m \in Timers \cup {Nil}, timer' = [timer EXCEPT ![c] = m],
         NEW e, ended' = [ended EXCEPT ![c] = e], ended' \in [Closers -> BOOLEAN],
         pool' = [p \in Pools |-> pool'[p]],
         \A p \in Pools : Frame(p) /\ Gives(p, {}),
         \A n \in Timers : Untouched(n)
  PROVE  /\ TypeInv' /\ PoolInv' /\ at'[c] = there /\ timer'[c] = m /\ ended'[c] = e
         /\ \A n \in Timers : TimerInv(n)' /\ at'[n] = at[n] /\ (at[n] = "ready" => Ready(n))
         /\ \A d \in Closers \ {c} : CallInv(d)'
<1>1. at' = [d \in Procs |-> at'[d]] /\ at'[c] = there /\ \A d \in Procs \ {c} : at'[d] = at[d]
  BY DEF IInv, TypeInv, Procs
<1>2. \A n \in Timers : at'[n] = at[n]  BY <1>1, Apart DEF Procs
<1>3. /\ timer' \in [Closers -> Timers \cup {Nil}]
      /\ timer'[c] = m /\ ended'[c] = e
      /\ \A d \in Closers \ {c} : timer'[d] = timer[d] /\ ended'[d] = ended[d]
  BY DEF IInv, TypeInv
<1>4. TypeInv'
  <2>1. \A n \in Timers : at'[n] \in NewPlaces  BY <1>2 DEF IInv, TypeInv
  <2>2. \A d \in Closers : at'[d] \in CallPlaces  BY <1>1 DEF IInv, TypeInv, Procs
  <2>3. QED  BY <1>1, <1>3, <2>1, <2>2 DEF IInv, TypeInv
<1>5. PoolInv'  BY PoolsKept
<1>6. ASSUME NEW n \in Timers
      PROVE  TimerInv(n)' /\ at'[n] = at[n] /\ (at[n] = "ready" => Ready(n))
  <2>1. \A p \in PoolsFor(n) : Frame(p)  BY PoolsForFacts
  <2>2. \A p \in Pools : n \notin Known(pool[p]) => n \notin Known(pool'[p])  BY DEF Gives
  <2>3. TimerInv(n)'  BY <1>2, <2>1, <2>2, StillTimer
  <2>4. QED  BY <1>2, <2>1, <2>3 DEF Ready
<1>7. \A d \in Closers \ {c} : CallInv(d)'
  BY <1>1, <1>3, <1>6, StillCall DEF Procs
<1>8. QED  BY <1>1, <1>3, <1>4, <1>5, <1>6, <1>7

\* What a call that is under way can rely on.
LEMMA CallFacts ==
  ASSUME IInv, NEW c \in Closers, at[c] # "idle", timer'[c] = timer[c],
         \A n \in Timers : at[n] = "ready" => Ready(n)
  PROVE  /\ timer[c] \in Timers /\ at[timer[c]] = "ready" /\ at'[timer[c]] = "ready"
         /\ SchedulerDone(timer[c]) => SchedulerDone(timer[c])'
         /\ reporter[timer[c]] # "running" => reporter'[timer[c]] # "running"
         /\ Exists(Boss(timer[c]))' <=> Exists(Boss(timer[c]))
         /\ Exists(Worker(timer[c]))' <=> Exists(Worker(timer[c]))
         /\ Stopped(Boss(timer[c])) => Stopped(Boss(timer[c]))'
         /\ Stopped(Worker(timer[c])) => Stopped(Worker(timer[c]))'
         /\ pool[Boss(timer[c])].closed => pool'[Boss(timer[c])].closed
         /\ pool[Worker(timer[c])].closed => pool'[Worker(timer[c])].closed
<1>1. PICK m \in Timers : timer[c] = m /\ at[m] = "ready"  BY DEF IInv, CallInv
<1>2. Ready(m)  BY <1>1
<1>3. Frame(Boss(m)) /\ Frame(Worker(m)) /\ Frame(BossPool(m))
  BY <1>1, <1>2, PoolsForFacts, UsedPools DEF Ready
<1>4. \A p \in {Boss(m), Worker(m)} :
        /\ pool'[p].spec # Nil <=> pool[p].spec # Nil
        /\ pool[p].done => pool'[p].done
        /\ pool[p].closed => pool'[p].closed
  BY <1>3 DEF Frame, Grows
<1>5. SchedulerDone(timer[c]) => SchedulerDone(timer[c])'
  <2>1. pool[BossPool(m)].ran \subseteq pool'[BossPool(m)].ran  BY <1>3, StillThere
  <2>2. BossPool(timer[c])' = BossPool(m) /\ BossPool(timer[c]) = BossPool(m)
    BY <1>1, <1>2 DEF Ready, BossPool, PoolOf
  <2>3. QED  BY <1>1, <1>2, <2>1, <2>2 DEF Ready, SchedulerDone
<1>6. QED  BY <1>1, <1>2, <1>4, <1>5 DEF Ready, Exists, Stopped

\* A step of a call that changes no pool, and the timer it is about stays.
LEMMA CallMovesAlone ==
  ASSUME IInv, NEW c \in Closers, at[c] # "idle", NEW there \in CallPlaces,
         at' = [at EXCEPT ![c] = there], UNCHANGED <<timerVars, pool, timer>>,
         NEW e, ended' = [ended EXCEPT ![c] = e], ended' \in [Closers -> BOOLEAN]
  PROVE  /\ TypeInv' /\ PoolInv' /\ at'[c] = there /\ timer'[c] = timer[c] /\ ended'[c] = e
         /\ \A n \in Timers : TimerInv(n)' /\ (at[n] = "ready" => Ready(n))
         /\ \A d \in Closers \ {c} : CallInv(d)'
<1>1. PICK m \in Timers \cup {Nil} : m = timer[c]  BY DEF IInv, TypeInv
<1>2. shutdownC' \in [Timers -> BOOLEAN]  BY DEF IInv, TypeInv, timerVars
<1>3. /\ pool' = [p \in Pools |-> pool'[p]]
      /\ \A p \in Pools : Frame(p) /\ Gives(p, {})
      /\ \A n \in Timers : Untouched(n)
  BY PoolsStill
<1>4. timer' = [timer EXCEPT ![c] = m]  BY <1>1 DEF IInv, TypeInv
<1>5. UNCHANGED <<given, config, reporter>>  BY DEF timerVars
<1>6. /\ TypeInv' /\ PoolInv' /\ at'[c] = there /\ timer'[c] = m /\ ended'[c] = e
      /\ \A n \in Timers : TimerInv(n)' /\ at'[n] = at[n] /\ (at[n] = "ready" => Ready(n))
      /\ \A d \in Closers \ {c} : CallInv(d)'
  BY <1>2, <1>3, <1>4, <1>5, CallMoves
<1>7. QED  BY <1>1, <1>6

LEMMA ShutdownKept ==
  ASSUME IInv, NEW c \in Closers, NEW m \in Timers, Shutdown(c, m)
  PROVE  IInv'
<1>1. /\ at[m] = "ready" /\ at' = [at EXCEPT ![c] = "await"]
      /\ timer' = [timer EXCEPT ![c] = m] /\ shutdownC' = [shutdownC EXCEPT ![m] = TRUE]
      /\ ended' = [ended EXCEPT ![c] = FALSE] /\ UNCHANGED <<given, config, reporter, pool>>
  BY DEF Shutdown
<1>2. /\ TypeInv' /\ PoolInv' /\ at'[c] = "await" /\ timer'[c] = m /\ ended'[c] = FALSE
      /\ \A n \in Timers : TimerInv(n)' /\ at'[n] = at[n] /\ (at[n] = "ready" => Ready(n))
      /\ \A d \in Closers \ {c} : CallInv(d)'
  <2>1. shutdownC' \in [Timers -> BOOLEAN]  BY <1>1 DEF IInv, TypeInv
  <2>2. "await" \in CallPlaces /\ m \in Timers \cup {Nil} /\ ended' \in [Closers -> BOOLEAN]
    BY <1>1 DEF CallPlaces, IInv, TypeInv
  <2>3. QED  BY <1>1, <2>1, <2>2, PoolsStill, CallMoves
<1>3. CallInv(c)'  BY <1>1, <1>2 DEF CallInv, ClosePlaces
<1>4. QED  BY <1>2, <1>3 DEF IInv

\* The steps of a call of Shutdown that change no pool.
LEMMA AwaitSchedulerKept ==
  ASSUME IInv, NEW c \in Closers, AwaitScheduler(c)
  PROVE  IInv'
<1>1. /\ at[c] = "await" /\ at' = [at EXCEPT ![c] = "report"] /\ SchedulerDone(timer[c])
      /\ UNCHANGED <<timerVars, pool, callVars>>
  BY DEF AwaitScheduler, Goto
<1>2. /\ "report" \in CallPlaces
      /\ ended' = [ended EXCEPT ![c] = ended[c]] /\ ended' \in [Closers -> BOOLEAN]
  BY <1>1 DEF CallPlaces, IInv, TypeInv, callVars
<1>3. /\ TypeInv' /\ PoolInv' /\ at'[c] = "report" /\ timer'[c] = timer[c]
      /\ \A n \in Timers : TimerInv(n)' /\ (at[n] = "ready" => Ready(n))
      /\ \A d \in Closers \ {c} : CallInv(d)'
  BY <1>1, <1>2, CallMovesAlone DEF callVars
<1>4. CallInv(c)'  BY <1>1, <1>3, CallFacts DEF CallInv, ClosePlaces
<1>5. QED  BY <1>3, <1>4 DEF IInv

LEMMA AwaitReporterKept ==
  ASSUME IInv, NEW c \in Closers, AwaitReporter(c)
  PROVE  IInv'
<1>1. /\ at[c] = "report" /\ at' = [at EXCEPT ![c] = "close boss"]
      /\ reporter[timer[c]] # "running" /\ UNCHANGED <<timerVars, pool, callVars>>
  BY DEF AwaitReporter, Goto
<1>2. /\ "close boss" \in CallPlaces
      /\ ended' = [ended EXCEPT ![c] = ended[c]] /\ ended' \in [Closers -> BOOLEAN]
  BY <1>1 DEF CallPlaces, ClosePlaces, IInv, TypeInv, callVars
<1>3. /\ TypeInv' /\ PoolInv' /\ at'[c] = "close boss" /\ timer'[c] = timer[c]
      /\ \A n \in Timers : TimerInv(n)' /\ (at[n] = "ready" => Ready(n))
      /\ \A d \in Closers \ {c} : CallInv(d)'
  BY <1>1, <1>2, CallMovesAlone DEF callVars
<1>4. CallInv(c) /\ SchedulerDone(timer[c])  BY <1>1 DEF IInv, CallInv, ClosePlaces
<1>5. CallInv(c)'  BY <1>1, <1>3, <1>4, CallFacts DEF CallInv, ClosePlaces
<1>6. QED  BY <1>3, <1>5 DEF IInv

LEMMA GiveUpKept ==
  ASSUME IInv, NEW c \in Closers, GiveUp(c)
  PROVE  IInv'
<1>1. /\ at[c] = "await" /\ at' = [at EXCEPT ![c] = "gave up"]
      /\ ended' = [ended EXCEPT ![c] = TRUE] /\ UNCHANGED <<timerVars, pool, timer>>
  BY DEF GiveUp, TimeOut, Goto
<1>2. /\ TypeInv' /\ PoolInv' /\ at'[c] = "gave up" /\ timer'[c] = timer[c]
      /\ \A n \in Timers : TimerInv(n)' /\ (at[n] = "ready" => Ready(n))
      /\ \A d \in Closers \ {c} : CallInv(d)'
  <2>1. "gave up" \in CallPlaces /\ ended' \in [Closers -> BOOLEAN]
    BY <1>1 DEF CallPlaces, IInv, TypeInv
  <2>2. QED  BY <1>1, <2>1, CallMovesAlone
<1>3. CallInv(c)'  BY <1>1, <1>2, CallFacts DEF CallInv, ClosePlaces
<1>4. QED  BY <1>2, <1>3 DEF IInv

LEMMA ReporterTimeoutKept ==
  ASSUME IInv, NEW c \in Closers, ReporterTimeout(c)
  PROVE  IInv'
<1>1. /\ at[c] = "report" /\ at' = [at EXCEPT ![c] = "close boss"]
      /\ ended' = [ended EXCEPT ![c] = TRUE] /\ UNCHANGED <<timerVars, pool, timer>>
  BY DEF ReporterTimeout, TimeOut, Goto
<1>2. /\ TypeInv' /\ PoolInv' /\ at'[c] = "close boss" /\ timer'[c] = timer[c] /\ ended'[c]
      /\ \A n \in Timers : TimerInv(n)' /\ (at[n] = "ready" => Ready(n))
      /\ \A d \in Closers \ {c} : CallInv(d)'
  <2>1. "close boss" \in CallPlaces /\ ended' \in [Closers -> BOOLEAN]
    BY <1>1 DEF CallPlaces, ClosePlaces, IInv, TypeInv
  <2>2. QED  BY <1>1, <2>1, CallMovesAlone
<1>3. CallInv(c) /\ SchedulerDone(timer[c])  BY <1>1 DEF IInv, CallInv, ClosePlaces
<1>4. CallInv(c)'  BY <1>1, <1>2, <1>3, CallFacts DEF CallInv, ClosePlaces
<1>5. QED  BY <1>2, <1>4 DEF IInv

-----------------------------------------------------------------------------
(* Steps of closeOwnedPools: of Shutdown, and of New when it fails *)

\* A pool that exists is closed.
LEMMA ClosingTouches ==
  ASSUME IInv, NEW p \in Pools, Exists(p), Closing(p)
  PROVE  Touches(p, {}) /\ pool'[p].closed
<1>1. /\ pool = [q \in Pools |-> pool[q]] /\ InOrder(pool[p])
      /\ pool[p] = Made(Nil) \/ Within(pool[p])
  BY DEF IInv, TypeInv, PoolInv
<1>2. Within(pool[p])  BY <1>1, NotMade
<1>3. QED  BY <1>1, <1>2, ClosingProper DEF Touches, Gives

LEMMA ClosedFrame ==
  ASSUME IInv, NEW p \in Pools, Touches(p, {})
  PROVE  /\ pool' = [q \in Pools |-> pool'[q]]
         /\ \A q \in Pools : Frame(q) /\ \A J : Gives(q, J)
<1>1. pool' = [q \in Pools |-> pool'[q]]  BY DEF Touches, IInv, TypeInv
<1>2. \A q \in Pools : Frame(q) /\ Gives(q, {})  BY TouchedPools
<1>3. \A q \in Pools : \A J : Gives(q, J)  BY <1>2 DEF Gives
<1>4. QED  BY <1>1, <1>2, <1>3

\* A timer whose New fails closes the pools that it made.
LEMMA FailedClosing ==
  ASSUME IInv, NEW m \in Timers, at[m] \in ClosePlaces,
         NEW there \in ClosePlaces \cup {"failed"}, at' = [at EXCEPT ![m] = there],
         UNCHANGED <<timerVars, callVars>>,
         UNCHANGED pool \/ \E p \in {Boss(m), Worker(m)} : Touches(p, {}),
         there \in {"close worker", "await worker", "failed"} /\ Exists(Boss(m)) =>
           Stopped(Boss(m)),
         there = "failed" /\ Exists(Worker(m)) => Stopped(Worker(m))
  PROVE  IInv'
<1>1. /\ pool' = [q \in Pools |-> pool'[q]]
      /\ \A q \in Pools : Frame(q) /\ Gives(q, {m}) /\ Gives(q, {})
  <2>1. CASE UNCHANGED pool  BY <2>1, PoolsStill
  <2>2. CASE \E p \in {Boss(m), Worker(m)} : Touches(p, {})
    <3>1. PICK p \in {Boss(m), Worker(m)} : Touches(p, {})  BY <2>2
    <3>2. p \in Pools  BY <3>1, PoolsForFacts
    <3>3. QED  BY <3>1, <3>2, ClosedFrame
  <2>3. QED  BY <2>1, <2>2
<1>2. ASSUME NEW n \in Timers \ {m} PROVE reporter'[n] = reporter[n] /\ Untouched(n)
  <2>1. CASE UNCHANGED pool  BY <2>1, PoolsStill DEF timerVars
  <2>2. CASE \E p \in {Boss(m), Worker(m)} : Touches(p, {})
    <3>1. PICK p \in {Boss(m), Worker(m)} : Touches(p, {})  BY <2>2
    <3>2. p \in Pools /\ p \notin {Boss(n), Worker(n)}
      BY <3>1, PoolsForFacts, TwoTimers
    <3>3. QED  BY <3>1, <3>2, ElsewhereUntouched DEF timerVars
  <2>3. QED  BY <2>1, <2>2
<1>3. /\ TypeInv' /\ PoolInv' /\ at'[m] = there
      /\ ConfigInv(m)' /\ (Exists(Boss(m))' => config'[m].pool["boss"] = Nil)
      /\ \A n \in Timers \ {m} : TimerInv(n)'
      /\ \A c \in Closers : CallInv(c)'
  <2>1. at[m] \notin {"new", "failed", "ready"} /\ there \in NewPlaces \ {"new"}
    BY DEF NewPlaces, ClosePlaces
  <2>2. reporter' \in [Timers -> {"none", "running", "ended"}]
    BY DEF IInv, TypeInv, timerVars
  <2>3. QED  BY <1>1, <1>2, <2>1, <2>2, TimerMoves DEF timerVars
<1>4. /\ Exists(Boss(m))' <=> Exists(Boss(m))
      /\ Exists(Worker(m))' <=> Exists(Worker(m))
      /\ Stopped(Boss(m)) => Stopped(Boss(m))'
      /\ Stopped(Worker(m)) => Stopped(Worker(m))'
      /\ pool'[Boss(m)].spec = pool[Boss(m)].spec
  BY <1>1, PoolsForFacts, StillThere
<1>5. MadeInv(m)'  BY <1>3 DEF MadeInv, ClosePlaces
<1>6. FreshInv(m)'
  <2>1. \A q \in Pools : m \notin Known(pool[q])
    BY DEF IInv, TimerInv, FreshInv, ClosePlaces
  <2>2. QED  BY <1>1, <2>1 DEF FreshInv, Gives
<1>7. FailInv(m)'
  <2>1. ASSUME Exists(Boss(m)) PROVE Exists(WorkerPool(m))' <=> Exists(WorkerPool(m))
    <3>1. WorkerPool(m)' = WorkerPool(m)  BY DEF WorkerPool, PoolOf, timerVars
    <3>2. WorkerPool(m) \in Pools  BY <2>1, Configured
    <3>3. QED  BY <1>1, <3>1, <3>2 DEF Frame, Grows, Exists
  <2>2. FailInv(m)  BY DEF IInv, TimerInv
  <2>3. QED  BY <1>3, <1>4, <2>1, <2>2 DEF FailInv
<1>8. QED  BY <1>3, <1>5, <1>6, <1>7 DEF IInv, TimerInv

\* A call of Shutdown closes the pools of its timer.
LEMMA CallClosing ==
  ASSUME IInv, NEW c \in Closers, NEW m \in Timers, timer[c] = m, at[c] \in ClosePlaces,
         NEW there \in ClosePlaces \cup {"nil", "err"}, at' = [at EXCEPT ![c] = there],
         NEW e, ended' = [ended EXCEPT ![c] = e], ended' \in [Closers -> BOOLEAN],
         UNCHANGED <<timerVars, timer>>,
         UNCHANGED pool \/ \E p \in {Boss(m), Worker(m)} : Touches(p, {})
  PROVE  /\ TypeInv' /\ PoolInv' /\ at'[c] = there /\ timer'[c] = m /\ ended'[c] = e
         /\ \A n \in Timers : TimerInv(n)' /\ (at[n] = "ready" => Ready(n))
         /\ \A d \in Closers \ {c} : CallInv(d)'
         /\ SchedulerDone(m)
<1>1. at[m] = "ready" /\ SchedulerDone(m)  BY DEF IInv, CallInv, ClosePlaces
<1>2. /\ pool' = [q \in Pools |-> pool'[q]]
      /\ \A q \in Pools : Frame(q) /\ Gives(q, {})
  <2>1. CASE UNCHANGED pool  BY <2>1, PoolsStill
  <2>2. CASE \E p \in {Boss(m), Worker(m)} : Touches(p, {})
    <3>1. PICK p \in {Boss(m), Worker(m)} : Touches(p, {})  BY <2>2
    <3>2. p \in Pools  BY <3>1, PoolsForFacts
    <3>3. QED  BY <3>1, <3>2, ClosedFrame
  <2>3. QED  BY <2>1, <2>2
<1>3. ASSUME NEW n \in Timers PROVE Untouched(n)
  <2>1. CASE UNCHANGED pool  BY <2>1, PoolsStill
  <2>2. CASE \E p \in {Boss(m), Worker(m)} : Touches(p, {})
    <3>1. PICK p \in {Boss(m), Worker(m)} : Touches(p, {})  BY <2>2
    <3>2. p \in Pools /\ (n # m => p \notin {Boss(n), Worker(n)})
      BY <3>1, PoolsForFacts, TwoTimers
    <3>3. QED  BY <1>1, <3>1, <3>2, ElsewhereUntouched
  <2>3. QED  BY <2>1, <2>2
<1>4. /\ there \in CallPlaces /\ m \in Timers \cup {Nil}
      /\ shutdownC' \in [Timers -> BOOLEAN]
      /\ timer' = [timer EXCEPT ![c] = m]
  BY DEF CallPlaces, IInv, TypeInv, timerVars
<1>5. UNCHANGED <<given, config, reporter>>  BY DEF timerVars
<1>6. /\ TypeInv' /\ PoolInv' /\ at'[c] = there /\ timer'[c] = m /\ ended'[c] = e
      /\ \A n \in Timers : TimerInv(n)' /\ at'[n] = at[n] /\ (at[n] = "ready" => Ready(n))
      /\ \A d \in Closers \ {c} : CallInv(d)'
  BY <1>2, <1>3, <1>4, <1>5, CallMoves
<1>7. QED  BY <1>1, <1>6

\* The pool that is closed, and where the call goes.
LEMMA CloseFacts ==
  ASSUME NEW c \in Procs, NEW role \in Roles, Close(c, role)
  PROVE  /\ at[c] = ClosePlace[role] /\ UNCHANGED <<timerVars, callVars>>
         /\ \/ /\ Exists(Target(c, role)) /\ Closing(Target(c, role))
               /\ at' = [at EXCEPT ![c] = AwaitPlace[role]]
            \/ /\ ~Exists(Target(c, role)) /\ UNCHANGED pool
               /\ at' = [at EXCEPT ![c] = After(c, role, Failed(c))]
BY DEF Close, Goto

LEMMA CloseNewKept ==
  ASSUME IInv, NEW m \in Timers, NEW role \in Roles, Close(m, role)
  PROVE  IInv'
<1>1. /\ at[m] = ClosePlace[role] /\ UNCHANGED <<timerVars, callVars>>
      /\ \/ /\ Exists(Target(m, role)) /\ Closing(Target(m, role))
            /\ at' = [at EXCEPT ![m] = AwaitPlace[role]]
         \/ /\ ~Exists(Target(m, role)) /\ UNCHANGED pool
            /\ at' = [at EXCEPT ![m] = After(m, role, Failed(m))]
  BY CloseFacts DEF Procs
<1>2. CASE role = "boss"
  <2>1. Target(m, role) = Boss(m) /\ at[m] = "close boss"
    BY <1>1, <1>2 DEF Target, TimerOf, Boss, ClosePlace
  <2>2. CASE Exists(Boss(m))
    <3>1. Touches(Boss(m), {}) /\ at' = [at EXCEPT ![m] = "await boss"]
      BY <1>1, <1>2, <2>1, <2>2, ClosingTouches, PoolsForFacts DEF AwaitPlace
    <3>2. QED  BY <1>1, <2>1, <3>1, FailedClosing DEF ClosePlaces
  <2>3. CASE ~Exists(Boss(m))
    <3>1. UNCHANGED pool /\ at' = [at EXCEPT ![m] = "close worker"]
      BY <1>1, <1>2, <2>1, <2>3 DEF After
    <3>2. QED  BY <1>1, <2>1, <2>3, <3>1, FailedClosing DEF ClosePlaces
  <2>4. QED  BY <2>2, <2>3
<1>3. CASE role = "worker"
  <2>1. Target(m, role) = Worker(m) /\ at[m] = "close worker"
    BY <1>1, <1>3 DEF Target, TimerOf, Worker, ClosePlace
  <2>2. Exists(Boss(m)) => Stopped(Boss(m))  BY <2>1 DEF IInv, TimerInv, FailInv
  <2>3. CASE Exists(Worker(m))
    <3>1. Touches(Worker(m), {}) /\ at' = [at EXCEPT ![m] = "await worker"]
      BY <1>1, <1>3, <2>1, <2>3, ClosingTouches, PoolsForFacts DEF AwaitPlace
    <3>2. QED  BY <1>1, <2>1, <2>2, <3>1, FailedClosing DEF ClosePlaces
  <2>4. CASE ~Exists(Worker(m))
    <3>1. UNCHANGED pool /\ at' = [at EXCEPT ![m] = "failed"]
      BY <1>1, <1>3, <2>1, <2>4 DEF After
    <3>2. QED  BY <1>1, <2>1, <2>2, <2>4, <3>1, FailedClosing DEF ClosePlaces
  <2>5. QED  BY <2>3, <2>4
<1>4. QED  BY <1>2, <1>3 DEF Roles

LEMMA CloseCallKept ==
  ASSUME IInv, NEW c \in Closers, NEW role \in Roles, Close(c, role)
  PROVE  IInv'
<1>1. /\ at[c] = ClosePlace[role] /\ UNCHANGED <<timerVars, callVars>>
      /\ \/ /\ Exists(Target(c, role)) /\ Closing(Target(c, role))
            /\ at' = [at EXCEPT ![c] = AwaitPlace[role]]
         \/ /\ ~Exists(Target(c, role)) /\ UNCHANGED pool
            /\ at' = [at EXCEPT ![c] = After(c, role, Failed(c))]
  BY CloseFacts DEF Procs
<1>2. at[c] \in ClosePlaces /\ c \notin Timers
  <2>1. ClosePlace[role] \in ClosePlaces
    <3>1. ClosePlace["boss"] \in ClosePlaces /\ ClosePlace["worker"] \in ClosePlaces
      BY DEF ClosePlaces, ClosePlace
    <3>2. QED  BY <3>1 DEF Roles
  <2>2. QED  BY <1>1, <2>1, Apart
<1>3. PICK m \in Timers : timer[c] = m  BY <1>2 DEF IInv, CallInv, ClosePlaces
<1>4. /\ ended' = [ended EXCEPT ![c] = ended[c]] /\ ended' \in [Closers -> BOOLEAN]
      /\ UNCHANGED <<timerVars, timer>>
  BY <1>1 DEF IInv, TypeInv, callVars
<1>5. CallInv(c) /\ at[c] # "idle"  BY <1>2 DEF IInv, ClosePlaces
<1>6. Target(c, role) = <<m, role>>  BY <1>2, <1>3 DEF Target, TimerOf
<1>7. Failed(c) <=> ended[c]  BY DEF Failed
<1>8. CASE role = "boss"
  <2>1. Target(c, role) = Boss(m) /\ at[c] = "close boss"
    BY <1>1, <1>6, <1>8 DEF Boss, ClosePlace
  <2>2. CASE Exists(Boss(m))
    <3>1. Closing(Boss(m)) /\ at' = [at EXCEPT ![c] = "await boss"]
      BY <1>1, <1>8, <2>1, <2>2 DEF AwaitPlace
    <3>2. Touches(Boss(m), {}) /\ pool'[Boss(m)].closed
      BY <2>2, <3>1, ClosingTouches, PoolsForFacts
    <3>3. /\ TypeInv' /\ PoolInv' /\ at'[c] = "await boss" /\ timer'[c] = m
          /\ ended'[c] = ended[c]
          /\ \A n \in Timers : TimerInv(n)' /\ (at[n] = "ready" => Ready(n))
          /\ \A d \in Closers \ {c} : CallInv(d)'
          /\ SchedulerDone(m)
      BY <1>2, <1>3, <1>4, <3>1, <3>2, CallClosing DEF ClosePlaces
    <3>4. CallInv(c)'
      BY <1>3, <1>5, <2>1, <3>2, <3>3, CallFacts DEF CallInv, ClosePlaces
    <3>5. QED  BY <3>3, <3>4 DEF IInv
  <2>3. CASE ~Exists(Boss(m))
    <3>1. UNCHANGED pool /\ at' = [at EXCEPT ![c] = "close worker"]
      BY <1>1, <1>8, <2>1, <2>3 DEF After
    <3>2. /\ TypeInv' /\ PoolInv' /\ at'[c] = "close worker" /\ timer'[c] = m
          /\ ended'[c] = ended[c]
          /\ \A n \in Timers : TimerInv(n)' /\ (at[n] = "ready" => Ready(n))
          /\ \A d \in Closers \ {c} : CallInv(d)'
          /\ SchedulerDone(m)
      BY <1>2, <1>3, <1>4, <3>1, CallClosing DEF ClosePlaces
    <3>3. CallInv(c)'
      BY <1>3, <1>5, <2>1, <2>3, <3>2, CallFacts DEF CallInv, ClosePlaces
    <3>4. QED  BY <3>2, <3>3 DEF IInv
  <2>4. QED  BY <2>2, <2>3
<1>9. CASE role = "worker"
  <2>1. Target(c, role) = Worker(m) /\ at[c] = "close worker"
    BY <1>1, <1>6, <1>9 DEF Worker, ClosePlace
  <2>2. CASE Exists(Worker(m))
    <3>1. Closing(Worker(m)) /\ at' = [at EXCEPT ![c] = "await worker"]
      BY <1>1, <1>9, <2>1, <2>2 DEF AwaitPlace
    <3>2. Touches(Worker(m), {}) /\ pool'[Worker(m)].closed
      BY <2>2, <3>1, ClosingTouches, PoolsForFacts
    <3>3. /\ TypeInv' /\ PoolInv' /\ at'[c] = "await worker" /\ timer'[c] = m
          /\ ended'[c] = ended[c]
          /\ \A n \in Timers : TimerInv(n)' /\ (at[n] = "ready" => Ready(n))
          /\ \A d \in Closers \ {c} : CallInv(d)'
          /\ SchedulerDone(m)
      BY <1>2, <1>3, <1>4, <3>1, <3>2, CallClosing DEF ClosePlaces
    <3>4. CallInv(c)'
      BY <1>3, <1>5, <2>1, <3>2, <3>3, CallFacts DEF CallInv, ClosePlaces
    <3>5. QED  BY <3>3, <3>4 DEF IInv
  <2>3. CASE ~Exists(Worker(m))
    <3>1. UNCHANGED pool /\ at' = [at EXCEPT ![c] = IF ended[c] THEN "err" ELSE "nil"]
      BY <1>1, <1>2, <1>7, <1>9, <2>1, <2>3 DEF After
    <3>2. PICK there \in {"err", "nil"} : there = IF ended[c] THEN "err" ELSE "nil"
      OBVIOUS
    <3>3. /\ TypeInv' /\ PoolInv' /\ at'[c] = there /\ timer'[c] = m
          /\ ended'[c] = ended[c]
          /\ \A n \in Timers : TimerInv(n)' /\ (at[n] = "ready" => Ready(n))
          /\ \A d \in Closers \ {c} : CallInv(d)'
          /\ SchedulerDone(m)
      BY <1>2, <1>3, <1>4, <3>1, <3>2, CallClosing
    <3>4. CallInv(c)'
      BY <1>3, <1>5, <2>1, <2>3, <3>2, <3>3, CallFacts DEF CallInv, ClosePlaces
    <3>5. QED  BY <3>3, <3>4 DEF IInv
  <2>4. QED  BY <2>2, <2>3
<1>10. QED  BY <1>8, <1>9 DEF Roles

LEMMA AwaitNewKept ==
  ASSUME IInv, NEW m \in Timers, NEW role \in Roles, AwaitStopped(m, role)
  PROVE  IInv'
<1>1. /\ at[m] = AwaitPlace[role] /\ at' = [at EXCEPT ![m] = After(m, role, Failed(m))]
      /\ Stopped(Target(m, role)) /\ UNCHANGED <<timerVars, pool, callVars>>
  BY DEF AwaitStopped, Goto
<1>2. CASE role = "boss"
  <2>1. /\ at[m] = "await boss" /\ at' = [at EXCEPT ![m] = "close worker"]
        /\ Stopped(Boss(m))
    BY <1>1, <1>2 DEF Target, TimerOf, Boss, AwaitPlace, After
  <2>2. QED  BY <1>1, <2>1, FailedClosing DEF ClosePlaces
<1>3. CASE role = "worker"
  <2>1. /\ at[m] = "await worker" /\ at' = [at EXCEPT ![m] = "failed"]
        /\ Stopped(Worker(m))
    BY <1>1, <1>3 DEF Target, TimerOf, Worker, AwaitPlace, After
  <2>2. Exists(Boss(m)) => Stopped(Boss(m))  BY <2>1 DEF IInv, TimerInv, FailInv
  <2>3. QED  BY <1>1, <2>1, <2>2, FailedClosing DEF ClosePlaces
<1>4. QED  BY <1>2, <1>3 DEF Roles

LEMMA AwaitCallKept ==
  ASSUME IInv, NEW c \in Closers, NEW role \in Roles, AwaitStopped(c, role)
  PROVE  IInv'
<1>1. /\ at[c] = AwaitPlace[role] /\ at' = [at EXCEPT ![c] = After(c, role, Failed(c))]
      /\ Stopped(Target(c, role)) /\ UNCHANGED <<timerVars, pool, callVars>>
  BY DEF AwaitStopped, Goto
<1>2. at[c] \in ClosePlaces /\ c \notin Timers
  <2>1. AwaitPlace["boss"] \in ClosePlaces /\ AwaitPlace["worker"] \in ClosePlaces
    BY DEF ClosePlaces, AwaitPlace
  <2>2. QED  BY <1>1, <2>1, Apart DEF Roles
<1>3. PICK m \in Timers : timer[c] = m  BY <1>2 DEF IInv, CallInv, ClosePlaces
<1>4. /\ ended' = [ended EXCEPT ![c] = ended[c]] /\ ended' \in [Closers -> BOOLEAN]
      /\ UNCHANGED <<timerVars, timer>>
  BY <1>1 DEF IInv, TypeInv, callVars
<1>5. CallInv(c) /\ at[c] # "idle"  BY <1>2 DEF IInv, ClosePlaces
<1>6. Target(c, role) = <<m, role>>  BY <1>2, <1>3 DEF Target, TimerOf
<1>7. Failed(c) <=> ended[c]  BY DEF Failed
<1>8. CASE role = "boss"
  <2>1. /\ at[c] = "await boss" /\ at' = [at EXCEPT ![c] = "close worker"]
        /\ Stopped(Boss(m))
    BY <1>1, <1>6, <1>8 DEF Boss, AwaitPlace, After
  <2>2. /\ TypeInv' /\ PoolInv' /\ at'[c] = "close worker" /\ timer'[c] = m
        /\ ended'[c] = ended[c]
        /\ \A n \in Timers : TimerInv(n)' /\ (at[n] = "ready" => Ready(n))
        /\ \A d \in Closers \ {c} : CallInv(d)'
        /\ SchedulerDone(m)
    BY <1>1, <1>2, <1>3, <1>4, <2>1, CallClosing DEF ClosePlaces
  <2>3. CallInv(c)'
    BY <1>3, <1>5, <2>1, <2>2, CallFacts DEF CallInv, ClosePlaces
  <2>4. QED  BY <2>2, <2>3 DEF IInv
<1>9. CASE role = "worker"
  <2>1. /\ at[c] = "await worker" /\ at' = [at EXCEPT ![c] = IF ended[c] THEN "err" ELSE "nil"]
        /\ Stopped(Worker(m))
    BY <1>1, <1>2, <1>6, <1>7, <1>9 DEF Worker, AwaitPlace, After
  <2>2. PICK there \in {"err", "nil"} : there = IF ended[c] THEN "err" ELSE "nil"
    OBVIOUS
  <2>3. /\ TypeInv' /\ PoolInv' /\ at'[c] = there /\ timer'[c] = m
        /\ ended'[c] = ended[c]
        /\ \A n \in Timers : TimerInv(n)' /\ (at[n] = "ready" => Ready(n))
        /\ \A d \in Closers \ {c} : CallInv(d)'
        /\ SchedulerDone(m)
    BY <1>1, <1>2, <1>3, <1>4, <2>1, <2>2, CallClosing
  <2>4. CallInv(c)'
    BY <1>3, <1>5, <2>1, <2>2, <2>3, CallFacts DEF CallInv, ClosePlaces
  <2>5. QED  BY <2>3, <2>4 DEF IInv
<1>10. QED  BY <1>8, <1>9 DEF Roles

LEMMA StopTimeoutKept ==
  ASSUME IInv, NEW c \in Closers, NEW role \in Roles, StopTimeout(c, role)
  PROVE  IInv'
<1>1. /\ at[c] = AwaitPlace[role] /\ at' = [at EXCEPT ![c] = After(c, role, TRUE)]
      /\ ended' = [ended EXCEPT ![c] = TRUE] /\ UNCHANGED <<timerVars, pool, timer>>
  BY DEF StopTimeout, TimeOut, Goto
<1>2. at[c] \in ClosePlaces /\ c \notin Timers
  <2>1. AwaitPlace["boss"] \in ClosePlaces /\ AwaitPlace["worker"] \in ClosePlaces
    BY DEF ClosePlaces, AwaitPlace
  <2>2. QED  BY <1>1, <2>1, Apart DEF Roles
<1>3. PICK m \in Timers : timer[c] = m  BY <1>2 DEF IInv, CallInv, ClosePlaces
<1>4. ended' \in [Closers -> BOOLEAN]  BY <1>1 DEF IInv, TypeInv
<1>5. CallInv(c) /\ at[c] # "idle"  BY <1>2 DEF IInv, ClosePlaces
<1>6. CASE role = "boss"
  <2>1. at[c] = "await boss" /\ at' = [at EXCEPT ![c] = "close worker"]
    BY <1>1, <1>6 DEF AwaitPlace, After
  <2>2. /\ TypeInv' /\ PoolInv' /\ at'[c] = "close worker" /\ timer'[c] = m /\ ended'[c]
        /\ \A n \in Timers : TimerInv(n)' /\ (at[n] = "ready" => Ready(n))
        /\ \A d \in Closers \ {c} : CallInv(d)'
        /\ SchedulerDone(m)
    BY <1>1, <1>2, <1>3, <1>4, <2>1, CallClosing DEF ClosePlaces
  <2>3. CallInv(c)'
    BY <1>3, <1>5, <2>1, <2>2, CallFacts DEF CallInv, ClosePlaces
  <2>4. QED  BY <2>2, <2>3 DEF IInv
<1>7. CASE role = "worker"
  <2>1. at[c] = "await worker" /\ at' = [at EXCEPT ![c] = "err"]
    BY <1>1, <1>2, <1>7 DEF AwaitPlace, After
  <2>2. /\ TypeInv' /\ PoolInv' /\ at'[c] = "err" /\ timer'[c] = m /\ ended'[c]
        /\ \A n \in Timers : TimerInv(n)' /\ (at[n] = "ready" => Ready(n))
        /\ \A d \in Closers \ {c} : CallInv(d)'
        /\ SchedulerDone(m)
    BY <1>1, <1>2, <1>3, <1>4, <2>1, CallClosing
  <2>3. CallInv(c)'
    BY <1>3, <1>5, <2>1, <2>2, CallFacts DEF CallInv, ClosePlaces
  <2>4. QED  BY <2>2, <2>3 DEF IInv
<1>8. QED  BY <1>6, <1>7 DEF Roles

-----------------------------------------------------------------------------
(* The invariant, and what follows from it *)

LEMMA InitInv == Init => IInv
<1> SUFFICES ASSUME Init PROVE IInv  OBVIOUS
<1>1. \A m \in Timers : at[m] = "new"  BY DEF Init, Procs
<1>2. \A c \in Closers : at[c] = "idle"  BY Apart DEF Init, Procs
<1>3. TypeInv
  <2>1. (\A m \in Timers : at[m] \in NewPlaces) /\ (\A c \in Closers : at[c] \in CallPlaces)
    BY <1>1, <1>2 DEF NewPlaces, CallPlaces
  <2>2. at = [c \in Procs |-> at[c]] /\ pool = [p \in Pools |-> pool[p]]  BY DEF Init
  <2>3. QED  BY <2>1, <2>2 DEF Init, TypeInv
<1>4. \A s \in Shared : pool[s] = Made(PoolOptions(Specs[s])) /\ IsSpec(PoolOptions(Specs[s]))
  BY PoolNames, LifecycleAssumption, PoolOptionsSound DEF Init
<1>5. \A p \in Pools \ Shared : pool[p] = Made(Nil)  BY DEF Init
<1>6. PoolInv
  <2>1. \A s \in Shared : InOrder(pool[s]) /\ Within(pool[s])  BY <1>4, MadeInOrder
  <2>2. \A p \in Pools \ Shared : InOrder(pool[p])  BY <1>5, MadeInOrder
  <2>3. QED  BY <1>5, <2>1, <2>2 DEF PoolInv
<1>7. ASSUME NEW m \in Timers PROVE TimerInv(m)
  <2>1. pool[Boss(m)] = Made(Nil) /\ pool[Worker(m)] = Made(Nil)
    BY <1>5, PoolsForFacts
  <2>2. ~Exists(Boss(m)) /\ ~Exists(Worker(m))  BY <2>1, NotMade
  <2>3. \A p \in Pools : Known(pool[p]) = {}  BY <1>4, <1>5, MadeInOrder
  <2>4. ConfigInv(m) /\ MadeInv(m) /\ FailInv(m)
    BY <1>1, <2>1, <2>2 DEF ConfigInv, MadeInv, FailInv
  <2>5. FreshInv(m)  BY <2>3 DEF FreshInv
  <2>6. QED  BY <2>4, <2>5 DEF TimerInv
<1>8. \A c \in Closers : CallInv(c)  BY <1>2 DEF CallInv, ClosePlaces
<1>9. QED  BY <1>3, <1>6, <1>7, <1>8 DEF IInv

LEMMA NextInv == IInv /\ [Next]_vars => IInv'
<1> SUFFICES ASSUME IInv, [Next]_vars PROVE IInv'  OBVIOUS
<1> USE DEF Roles
<1>1. ASSUME NEW c \in Procs, CloseStep(c) PROVE IInv'
  <2>1. PICK role \in Roles : Close(c, role) \/ AwaitStopped(c, role)  BY <1>1 DEF CloseStep
  <2>2. CASE c \in Timers  BY <2>1, <2>2, CloseNewKept, AwaitNewKept
  <2>3. CASE c \in Closers  BY <2>1, <2>3, CloseCallKept, AwaitCallKept
  <2>4. QED  BY <2>2, <2>3 DEF Procs
<1>2. ASSUME NEW m \in Timers, NewStep(m) PROVE IInv'
  BY <1>2, MakeBossKept, MakeWorkerKept, StartSchedulerKept, StartRefusedKept DEF NewStep
<1>3. ASSUME NEW c \in Closers, ShutdownStep(c) PROVE IInv'
  BY <1>3, AwaitSchedulerKept, AwaitReporterKept DEF ShutdownStep
<1>4. ASSUME NEW c \in Closers, ContextEnds(c) PROVE IInv'
  BY <1>4, GiveUpKept, ReporterTimeoutKept, StopTimeoutKept DEF ContextEnds
<1>5. ASSUME NEW c \in Procs, CallStep(c) PROVE IInv'
  BY <1>1, <1>2, <1>3, <1>4, <1>5 DEF CallStep
<1>6. ASSUME NEW m \in Timers, New(m) \/ ReporterEnds(m) \/ \E x \in Tasks : Dispatch(m, x)
      PROVE  IInv'
  BY <1>6, NewKept, ReporterEndsKept, DispatchKept
<1>7. ASSUME NEW s \in Shared, CloseShared(s) \/ \E x \in Tasks : Submit(s, x) PROVE IInv'
  BY <1>7, CloseSharedKept, SubmitKept
<1>8. CASE Next
  BY <1>4, <1>5, <1>6, <1>7, <1>8, PoolStepKept, ShutdownKept DEF Next
<1>9. CASE UNCHANGED vars
  <2>1. UNCHANGED <<timerVars, pool, at, callVars>>  BY <1>9 DEF vars
  <2>2. \A p \in Pools : Frame(p)  BY <2>1, PoolsStill
  <2>3. TypeInv'  BY <2>1 DEF IInv, TypeInv, timerVars, callVars
  <2>4. PoolInv'  BY <2>2, PoolsKept
  <2>5. ASSUME NEW m \in Timers PROVE TimerInv(m)'
    <3>1. \A p \in PoolsFor(m) : Frame(p)  BY <2>2, PoolsForFacts
    <3>2. \A p \in Pools : m \notin Known(pool[p]) => m \notin Known(pool'[p])  BY <2>1
    <3>3. Untouched(m)  BY <2>1, PoolsStill
    <3>4. QED  BY <2>1, <3>1, <3>2, <3>3, StillTimer DEF timerVars
  <2>6. ASSUME NEW c \in Closers PROVE CallInv(c)'
    <3>1. \A m \in Timers : at[m] = "ready" => Ready(m)
      BY <2>1, <2>2, PoolsForFacts DEF Ready, timerVars
    <3>2. QED  BY <2>1, <3>1, StillCall DEF callVars
  <2>7. QED  BY <2>3, <2>4, <2>5, <2>6 DEF IInv
<1>10. QED  BY <1>8, <1>9

\* The invariant holds in every state that the timers and their callers reach.
THEOREM Invariance == Spec => []IInv
BY InitInv, NextInv, PTL DEF Spec

\* Every field keeps its type, and every pool its limits: no more workers than
\* its options say, busy or waiting, no more queued jobs than its capacity.
THEOREM TypeCorrect == Spec => []TypeOK
<1>1. ASSUME IInv PROVE TypeOK
  <2>1. TypeInv  BY <1>1 DEF IInv
  <2>2. ASSUME NEW p \in Pools, Exists(p)
        PROVE  /\ pool[p].parked + Occupied(p) \in 0 .. pool[p].spec.workers
               /\ Len(pool[p].queue) <= pool[p].spec.queueCapacity
               /\ Queued(p) \cup pool[p].running \cup pool[p].ran \subseteq Jobs
    <3>1. InOrder(pool[p]) /\ Within(pool[p])  BY <1>1, <2>2, NotMade DEF IInv, PoolInv
    <3>2. Queued(p) \cup pool[p].running \cup pool[p].ran \subseteq Jobs  BY <3>1, KnownFacts
    <3>3. /\ pool[p].parked \in Nat /\ Occupied(p) \in Nat /\ pool[p].spec.workers \in Nat
          /\ Occupied(p) = Cardinality(pool[p].running)
      BY <3>1, OrderFacts, Occupancy
    <3>4. QED  BY <3>1, <3>2, <3>3 DEF Within
  <2>3. QED  BY <2>1, <2>2 DEF TypeInv, TypeOK
<1>2. QED  BY <1>1, Invariance, PTL

\* New takes a list of options exactly when each is good by itself and no role
\* is given both a pool and options, in whatever order; the last value wins.
THEOREM OptionsHold == Spec => []OptionsHonoured
<1>1. ASSUME IInv PROVE OptionsHonoured
  <2>1. ASSUME NEW m \in Timers, at[m] # "new" PROVE Amounts(given[m], config[m])
    <3>1. given[m] \in OptionLists[m] /\ config[m] = TimerOptions(given[m])
      BY <1>1, <2>1 DEF IInv, TimerInv, ConfigInv
    <3>2. WellTyped(given[m], Shared)  BY <3>1, LifecycleAssumption
    <3>3. QED  BY <3>1, <3>2, TimerOptionsAmount
  <2>2. QED  BY <2>1 DEF OptionsHonoured
<1>2. QED  BY <1>1, Invariance, PTL

\* When New returns an error, its scheduler is on no pool and the pools that it
\* made have stopped, whoever else is at work.
THEOREM FailedNewIsClean == Spec => []FailedNewLeavesNothing
<1>1. ASSUME IInv PROVE FailedNewLeavesNothing
  <2>1. ASSUME NEW m \in Timers, at[m] = "failed"
        PROVE  Fresh(m) /\ \A p \in Owned(m) : Exists(p) => Stopped(p)
    <3>1. FreshInv(m) /\ FailInv(m)  BY <1>1 DEF IInv, TimerInv
    <3>2. Fresh(m)  BY <1>1, <2>1, <3>1, FreshFacts DEF FreshInv
    <3>3. QED  BY <2>1, <3>1, <3>2 DEF FailInv, Owned, Boss, Worker
  <2>2. QED  BY <2>1 DEF FailedNewLeavesNothing
<1>2. QED  BY <1>1, Invariance, PTL

\* A boss pool that New made takes the scheduler, unless it has no buffer and
\* its policy is not to wait for its worker.
THEOREM OwnBossTakesScheduler == Spec => []OwnBossAccepts
<1>1. ASSUME IInv PROVE OwnBossAccepts
  BY <1>1 DEF IInv, TimerInv, FailInv, OwnBossAccepts, Boss
<1>2. QED  BY <1>1, Invariance, PTL

\* When Shutdown returns nil, the scheduler and the reporter have ended and the
\* pools that the timer made have stopped.
THEOREM NilMeansGone == Spec => []ShutdownComplete
<1>1. ASSUME IInv PROVE ShutdownComplete
  <2>1. ASSUME NEW c \in Closers, at[c] = "nil"
        PROVE  /\ SchedulerDone(timer[c]) /\ reporter[timer[c]] # "running"
               /\ \A p \in Owned(timer[c]) : Exists(p) => Stopped(p)
    <3>1. CallInv(c)  BY <1>1 DEF IInv
    <3>2. /\ SchedulerDone(timer[c]) /\ ~ended[c] /\ reporter[timer[c]] # "running"
          /\ Exists(Boss(timer[c])) => Stopped(Boss(timer[c]))
          /\ Exists(Worker(timer[c])) => Stopped(Worker(timer[c]))
      BY <2>1, <3>1 DEF CallInv
    <3>3. QED  BY <3>2 DEF Owned, Boss, Worker
  <2>2. QED  BY <2>1 DEF ShutdownComplete
<1>2. QED  BY <1>1, Invariance, PTL

\* Once the scheduler has ended, a call of Shutdown that returns the error of
\* its context has closed the pools of the timer all the same.
THEOREM ErrorClosesToo == Spec => []PoolsClosedAnyway
<1>1. ASSUME IInv PROVE PoolsClosedAnyway
  <2>1. ASSUME NEW c \in Closers, at[c] = "err", NEW p \in Owned(timer[c]), Exists(p)
        PROVE  pool[p].closed
    <3>1. CallInv(c)  BY <1>1 DEF IInv
    <3>2. p = Boss(timer[c]) \/ p = Worker(timer[c])  BY <2>1 DEF Owned, Boss, Worker
    <3>3. QED  BY <2>1, <3>1, <3>2 DEF CallInv
  <2>2. QED  BY <2>1 DEF PoolsClosedAnyway
<1>2. QED  BY <1>1, Invariance, PTL

-----------------------------------------------------------------------------
(* What each pool promises, to whoever shares it *)

\* What a step of a pool may do to the jobs it knows of and has run, and to its
\* gate: nothing, accept a job, run one, close, or stop.
Serves(s, t) ==
  \/ /\ Known(t) = Known(s) /\ t.ran = s.ran
     /\ t.closed = s.closed /\ t.done = s.done
  \/ \E j \in Jobs \ Known(s) : /\ ~s.closed /\ Known(t) = Known(s) \cup {j}
                                /\ t.ran = s.ran /\ t.closed = s.closed /\ t.done = s.done
  \/ \E j \in s.running : /\ Known(t) = Known(s) /\ t.ran = s.ran \cup {j}
                          /\ t.closed = s.closed /\ t.done = s.done
  \/ /\ Known(t) = Known(s) /\ t.ran = s.ran
     /\ t.closed /\ t.done = s.done
  \/ /\ Known(t) = Known(s) /\ t.ran = s.ran
     /\ Known(s) = s.ran /\ s.closed /\ t.closed /\ t.done

\* The status that the service gives the jobs of a pool.
Status(s) ==
  [j \in Jobs |-> IF j \in s.ran THEN "done" ELSE IF j \in Known(s) THEN "accepted" ELSE "unknown"]

LEMMA ServesService ==
  ASSUME NEW p \in Pools, InOrder(pool[p]), InOrder(pool'[p]), Serves(pool[p], pool'[p])
  PROVE  Service(p)!Next \/ Service(p)!vars' = Service(p)!vars
<1> DEFINE s == pool[p]
           t == pool'[p]
<1>1. Queued(p) = Content(s.queue) /\ Queued(p)' = Content(t.queue)
  <2>1. s.queue \in Seq(Jobs) /\ t.queue \in Seq(Jobs)  BY DEF InOrder
  <2>2. DOMAIN s.queue = 1 .. Len(s.queue) /\ DOMAIN t.queue = 1 .. Len(t.queue)  BY <2>1
  <2>3. QED  BY <2>2 DEF Queued, Content
<1>2. /\ [j \in Jobs |-> IF j \in pool[p].ran THEN "done"
                         ELSE IF j \in Queued(p) \cup pool[p].running THEN "accepted"
                         ELSE "unknown"] = Status(s)
      /\ [j \in Jobs |-> IF j \in pool[p].ran THEN "done"
                         ELSE IF j \in Queued(p) \cup pool[p].running THEN "accepted"
                         ELSE "unknown"]' = Status(t)
  BY <1>1 DEF Known, Status
<1>3. s.closed \in BOOLEAN /\ s.done \in BOOLEAN /\ t.closed \in BOOLEAN /\ t.done \in BOOLEAN
  BY DEF InOrder
<1>4. CASE Known(t) = Known(s) /\ t.ran = s.ran /\ t.closed = s.closed /\ t.done = s.done
  <2>1. Status(t) = Status(s)  BY <1>4 DEF Status
  <2>2. QED  BY <1>2, <1>4, <2>1 DEF Service!vars, Stopped
<1>5. CASE \E j \in Jobs \ Known(s) :
             /\ ~s.closed /\ Known(t) = Known(s) \cup {j}
             /\ t.ran = s.ran /\ t.closed = s.closed /\ t.done = s.done
  <2>1. PICK j \in Jobs \ Known(s) :
               /\ ~s.closed /\ Known(t) = Known(s) \cup {j}
               /\ t.ran = s.ran /\ t.closed = s.closed /\ t.done = s.done
    BY <1>5
  <2>2. j \notin s.ran  BY DEF Known
  <2>3. Status(s)[j] = "unknown" /\ Status(t) = [Status(s) EXCEPT ![j] = "accepted"]
    BY <2>1, <2>2 DEF Status
  <2>4. Service(p)!Accept(j)
    BY <1>2, <2>1, <2>3 DEF Service!Accept, Service!Becomes, Stopped
  <2>5. QED  BY <2>4 DEF Service!Next
<1>6. CASE \E j \in s.running :
             /\ Known(t) = Known(s) /\ t.ran = s.ran \cup {j}
             /\ t.closed = s.closed /\ t.done = s.done
  <2>1. PICK j \in s.running :
               /\ Known(t) = Known(s) /\ t.ran = s.ran \cup {j}
               /\ t.closed = s.closed /\ t.done = s.done
    BY <1>6
  <2>2. j \in Jobs /\ j \notin s.ran /\ j \in Known(s) /\ ~s.done
    BY DEF InOrder, Known
  <2>3. Status(s)[j] = "accepted" /\ Status(t) = [Status(s) EXCEPT ![j] = "done"]
    BY <2>1, <2>2 DEF Status
  <2>4. Service(p)!Run(j)
    BY <1>2, <2>1, <2>2, <2>3 DEF Service!Run, Service!Becomes, Stopped
  <2>5. QED  BY <2>2, <2>4 DEF Service!Next
<1>7. CASE Known(t) = Known(s) /\ t.ran = s.ran /\ t.closed /\ t.done = s.done
  <2>1. Status(t) = Status(s)  BY <1>7 DEF Status
  <2>2. Service(p)!Close  BY <1>2, <1>3, <1>7, <2>1 DEF Service!Close, Stopped
  <2>3. QED  BY <2>2 DEF Service!Next
<1>8. CASE /\ Known(t) = Known(s) /\ t.ran = s.ran
           /\ Known(s) = s.ran /\ s.closed /\ t.closed /\ t.done
  <2>1. Status(t) = Status(s)  BY <1>8 DEF Status
  <2>2. \A j \in Jobs : Status(s)[j] # "accepted"  BY <1>8 DEF Status
  <2>3. Service(p)!Stop  BY <1>2, <1>3, <1>8, <2>1, <2>2 DEF Service!Stop, Stopped
  <2>4. QED  BY <2>3 DEF Service!Next
<1>9. QED  BY <1>4, <1>5, <1>6, <1>7, <1>8 DEF Serves

LEMMA ServiceInit ==
  ASSUME Init, NEW p \in Pools
  PROVE  Service(p)!Init
<1>1. PICK spec : pool[p] = Made(spec)  BY DEF Init
<1>2. /\ pool[p].queue = <<>> /\ pool[p].running = {} /\ pool[p].ran = {}
      /\ pool[p].closed = FALSE /\ pool[p].done = FALSE
  BY <1>1 DEF Made
<1>3. Queued(p) = {}  BY <1>2 DEF Queued
<1>4. QED  BY <1>2, <1>3 DEF Service!Init, Stopped

LEMMA OneServes ==
  ASSUME IInv, NEW p \in Pools, pool' = [pool EXCEPT ![p] = pool'[p]],
         Serves(pool[p], pool'[p])
  PROVE  \A q \in Pools : Serves(pool[q], pool'[q])
<1>1. \A q \in Pools \ {p} : pool'[q] = pool[q]  BY DEF IInv, TypeInv
<1>2. \A q \in Pools \ {p} : Serves(pool[q], pool'[q])  BY <1>1 DEF Serves
<1>3. QED  BY <1>2

LEMMA SendServes ==
  ASSUME IInv, NEW p \in Pools, Within(pool[p]), NEW j \in Jobs, Fresh(j), Takes(p), Send(p, j)
  PROVE  \A q \in Pools : Serves(pool[q], pool'[q])
<1>1. /\ pool = [q \in Pools |-> pool[q]] /\ InOrder(pool[p]) /\ j \notin Known(pool[p])
  BY FreshFacts DEF IInv, TypeInv, PoolInv
<1>2. ~pool[p].closed  BY DEF Takes
<1>3. pool' = [pool EXCEPT ![p] = pool'[p]] /\ Serves(pool[p], pool'[p])
  BY <1>1, <1>2, SendProper DEF Serves
<1>4. QED  BY <1>3, OneServes

LEMMA ClosingServes ==
  ASSUME IInv, NEW p \in Pools, Closing(p)
  PROVE  \A q \in Pools : Serves(pool[q], pool'[q])
<1>1. pool = [q \in Pools |-> pool[q]] /\ InOrder(pool[p])  BY DEF IInv, TypeInv, PoolInv
<1>2. pool' = [pool EXCEPT ![p] = pool'[p]] /\ Serves(pool[p], pool'[p])
  BY <1>1, ClosingProper DEF Serves
<1>3. QED  BY <1>2, OneServes

LEMMA PoolStepServes ==
  ASSUME IInv, NEW p \in Pools, PoolStep(p)
  PROVE  \A q \in Pools : Serves(pool[q], pool'[q])
<1>1. /\ pool = [q \in Pools |-> pool[q]] /\ InOrder(pool[p])
      /\ pool' = [pool EXCEPT ![p] = pool'[p]] /\ Within(pool[p])
  BY PoolStepTouches DEF Touches, IInv, TypeInv, PoolInv
<1>2. CASE Park(p)  BY <1>1, <1>2, ParkProper, OneServes DEF Serves
<1>3. CASE Pick(p)  BY <1>1, <1>3, PickProper, OneServes DEF Serves
<1>4. CASE Leave(p)
  <2>1. pool[p].queue = <<>> /\ pool[p].running = {}  BY <1>4 DEF Leave
  <2>2. Content(pool[p].queue) = {}  BY <1>1, <2>1, EmptyContent DEF InOrder
  <2>3. Known(pool[p]) = pool[p].ran  BY <2>1, <2>2 DEF Known
  <2>4. Serves(pool[p], pool'[p])  BY <1>1, <1>4, <2>3, LeaveProper DEF Serves
  <2>5. QED  BY <1>1, <2>4, OneServes
<1>5. CASE \E j \in Jobs : End(p, j)
  <2>1. PICK j \in Jobs : End(p, j)  BY <1>5
  <2>2. Serves(pool[p], pool'[p])  BY <1>1, <2>1, EndProper DEF Serves
  <2>3. QED  BY <1>1, <2>2, OneServes
<1>6. QED  BY <1>2, <1>3, <1>4, <1>5 DEF PoolStep

LEMMA MakeServes ==
  ASSUME IInv, NEW m \in Timers, NEW role \in Roles, NEW here, NEW there, NEW failure,
         Make(m, role, here, there, failure), pool[<<m, role>>] = Made(Nil)
  PROVE  \A q \in Pools : Serves(pool[q], pool'[q])
<1>1. CASE UNCHANGED pool  BY <1>1 DEF Serves
<1>2. CASE pool' # pool
  <2>1. PICK spec : pool' = [pool EXCEPT ![<<m, role>>] = Made(spec)]
    BY <1>2 DEF Make
  <2>2. <<m, role>> \in Pools /\ pool = [q \in Pools |-> pool[q]]
    BY PoolNames DEF IInv, TypeInv
  <2>3. pool'[<<m, role>>] = Made(spec)  BY <2>1, <2>2
  <2>4. /\ Known(Made(spec)) = {} /\ Known(Made(Nil)) = {}
        /\ Made(spec).ran = {} /\ Made(Nil).ran = {}
        /\ Made(spec).closed = FALSE /\ Made(Nil).closed = FALSE
        /\ Made(spec).done = FALSE /\ Made(Nil).done = FALSE
    BY MadeInOrder DEF Made
  <2>5. Serves(Made(Nil), Made(spec))  BY <2>4 DEF Serves
  <2>6. Serves(pool[<<m, role>>], pool'[<<m, role>>])  BY <2>3, <2>5
  <2>7. QED  BY <2>1, <2>2, <2>3, <2>6, OneServes
<1>3. QED  BY <1>1, <1>2

\* Whoever moves, no pool breaks its promise.
LEMMA PoolsServe ==
  ASSUME IInv, [Next]_vars
  PROVE  \A p \in Pools : Serves(pool[p], pool'[p])
<1> USE DEF Roles
<1>1. CASE UNCHANGED pool  BY <1>1 DEF Serves
<1>2. ASSUME NEW c \in Procs, NEW role \in Roles, Close(c, role), pool' # pool
      PROVE  \A p \in Pools : Serves(pool[p], pool'[p])
  <2>1. Exists(Target(c, role)) /\ Closing(Target(c, role))  BY <1>2 DEF Close
  <2>2. TimerOf(c) \in Timers
    <3>1. CASE c \in Timers  BY <3>1 DEF TimerOf
    <3>2. CASE c \in Closers
      <4>1. ClosePlace["boss"] # "idle" /\ ClosePlace["worker"] # "idle"  BY DEF ClosePlace
      <4>2. at[c] # "idle"  BY <1>2, <4>1 DEF Close
      <4>3. QED  BY <3>2, <4>2, Apart DEF IInv, CallInv, TimerOf
    <3>3. QED  BY <3>1, <3>2 DEF Procs
  <2>3. Target(c, role) \in Pools  BY <2>2, PoolNames DEF Target
  <2>4. QED  BY <2>1, <2>3, ClosingServes
<1>3. ASSUME NEW m \in Timers, NewStep(m), pool' # pool
      PROVE  \A p \in Pools : Serves(pool[p], pool'[p])
  <2>1. CASE MakeBoss(m)
    <3>1. at[m] = "make boss"  BY <2>1 DEF MakeBoss, Make
    <3>2. pool[<<m, "boss">>] = Made(Nil)  BY <3>1 DEF IInv, TimerInv, MadeInv, Boss
    <3>3. QED  BY <2>1, <3>2, MakeServes DEF MakeBoss
  <2>2. CASE MakeWorker(m)
    <3>1. at[m] = "make worker"  BY <2>2 DEF MakeWorker, Make
    <3>2. pool[<<m, "worker">>] = Made(Nil)  BY <3>1 DEF IInv, TimerInv, MadeInv, Worker
    <3>3. QED  BY <2>2, <3>2, MakeServes DEF MakeWorker
  <2>3. CASE StartScheduler(m)
    <3>1. at[m] = "start" /\ Takes(BossPool(m)) /\ Send(BossPool(m), m)
      BY <2>3 DEF StartScheduler, Goto
    <3>2. BossPool(m) \in Pools /\ Within(pool[BossPool(m)]) /\ m \in Jobs
      BY <3>1, Configured, PoolsThere DEF Jobs
    <3>3. Fresh(m)  BY <3>1, FreshFacts DEF IInv, TimerInv, FreshInv
    <3>4. QED  BY <3>1, <3>2, <3>3, SendServes
  <2>4. CASE StartRefused(m)  BY <1>3, <2>4 DEF StartRefused
  <2>5. QED  BY <1>3, <2>1, <2>2, <2>3, <2>4 DEF NewStep
<1>4. ASSUME NEW m \in Timers, NEW x \in Tasks, Dispatch(m, x)
      PROVE  \A p \in Pools : Serves(pool[p], pool'[p])
  <2>1. /\ at[m] = "ready" /\ Fresh(x) /\ Takes(WorkerPool(m)) /\ Send(WorkerPool(m), x)
    BY <1>4 DEF Dispatch, SchedulerRuns
  <2>2. WorkerPool(m) \in Pools /\ Within(pool[WorkerPool(m)]) /\ x \in Jobs
    BY <2>1, Configured, PoolsThere DEF Jobs
  <2>3. QED  BY <2>1, <2>2, SendServes
<1>5. ASSUME NEW s \in Shared, NEW x \in Tasks, Submit(s, x)
      PROVE  \A p \in Pools : Serves(pool[p], pool'[p])
  <2>1. s \in Pools /\ Within(pool[s]) /\ x \in Jobs
    BY PoolNames DEF Jobs, IInv, PoolInv
  <2>2. QED  BY <1>5, <2>1, SendServes DEF Submit
<1>6. ASSUME NEW s \in Shared, CloseShared(s)
      PROVE  \A p \in Pools : Serves(pool[p], pool'[p])
  BY <1>6, PoolNames, ClosingServes DEF CloseShared
<1>7. ASSUME NEW c \in Closers, ContextEnds(c) PROVE UNCHANGED pool
  BY <1>7 DEF ContextEnds, GiveUp, ReporterTimeout, StopTimeout, TimeOut
<1>8. ASSUME NEW c \in Procs, CallStep(c), pool' # pool
      PROVE  \A p \in Pools : Serves(pool[p], pool'[p])
  <2>1. CASE CloseStep(c)
    <3>1. PICK role \in Roles : Close(c, role) \/ AwaitStopped(c, role)  BY <2>1 DEF CloseStep
    <3>2. CASE Close(c, role)  BY <1>2, <1>8, <3>2
    <3>3. CASE AwaitStopped(c, role)  BY <1>8, <3>3 DEF AwaitStopped
    <3>4. QED  BY <3>1, <3>2, <3>3
  <2>2. CASE c \in Timers /\ NewStep(c)  BY <1>3, <1>8, <2>2
  <2>3. CASE c \in Closers /\ ShutdownStep(c)
    BY <1>8, <2>3 DEF ShutdownStep, AwaitScheduler, AwaitReporter
  <2>4. CASE c \in Closers /\ ContextEnds(c)  BY <1>7, <1>8, <2>4
  <2>5. QED  BY <1>8, <2>1, <2>2, <2>3, <2>4 DEF CallStep
<1>9. CASE Next /\ pool' # pool
  <2>1. CASE \E c \in Procs : CallStep(c)  BY <1>8, <1>9, <2>1
  <2>2. CASE \E p \in Pools : PoolStep(p)  BY <2>2, PoolStepServes
  <2>3. CASE \E m \in Timers : New(m) \/ ReporterEnds(m) \/ \E x \in Tasks : Dispatch(m, x)
    <3>1. PICK m \in Timers : New(m) \/ ReporterEnds(m) \/ \E x \in Tasks : Dispatch(m, x)
      BY <2>3
    <3>2. ~New(m) /\ ~ReporterEnds(m)  BY <1>9 DEF New, ReporterEnds
    <3>3. QED  BY <1>4, <3>1, <3>2
  <2>4. CASE \E c \in Closers : ContextEnds(c) \/ \E m \in Timers : Shutdown(c, m)
    BY <1>7, <1>9, <2>4 DEF Shutdown
  <2>5. CASE \E s \in Shared : CloseShared(s) \/ \E x \in Tasks : Submit(s, x)
    BY <1>5, <1>6, <2>5
  <2>6. QED  BY <1>9, <2>1, <2>2, <2>3, <2>4, <2>5 DEF Next
<1>10. QED  BY <1>1, <1>9 DEF vars

\* Every pool, made or given, shared or not, keeps the promise of TaskService to
\* all who use it: timers that start on it and close it, schedulers that hand it
\* tasks, and callers.
THEOREM Refinement == Spec => ImplementsTasks
<1> DEFINE Step == \A p \in Pools : pool'[p] # pool[p] =>
                     Service(p)!Next \/ Service(p)!vars' = Service(p)!vars
<1>1. Init => \A p \in Pools : Service(p)!Init  BY ServiceInit
<1>2. IInv /\ IInv' /\ [Next]_vars => [Step]_vars
  <2> SUFFICES ASSUME IInv, IInv', [Next]_vars, NEW p \in Pools
               PROVE  Service(p)!Next \/ Service(p)!vars' = Service(p)!vars
    OBVIOUS
  <2>1. InOrder(pool[p]) /\ InOrder(pool'[p])  BY DEF IInv, PoolInv
  <2>2. QED  BY <2>1, PoolsServe, ServesService
<1> HIDE DEF Step
<1>3. Spec => (\A p \in Pools : Service(p)!Init) /\ [][Step]_vars
  BY <1>1, <1>2, Invariance, PTL DEF Spec
<1>4. QED  BY <1>3 DEF ImplementsTasks, Step
=============================================================================
