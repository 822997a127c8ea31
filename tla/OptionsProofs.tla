---------------------------- MODULE OptionsProofs ----------------------------
(***************************************************************************)
(* Proofs about Options: what New makes of a list of options, however long *)
(* it is.                                                                  *)
(***************************************************************************)
EXTENDS Options, ChannelLemmas

LEMMA SequenceFacts ==
  ASSUME NEW opts, IsSequence(opts)
  PROVE  Len(opts) \in Nat /\ DOMAIN opts = 1 .. Len(opts)
<1> DEFINE S == {opts[i] : i \in DOMAIN opts}
<1>1. opts \in Seq(S)  BY DEF IsSequence
<1> HIDE DEF S
<1>2. QED  BY <1>1

-----------------------------------------------------------------------------
(* executor.New *)

\* cfg is what the first n options lead to, one after the other.
AppliedPool(cfg, opts, n) ==
  cfg = [i \in 0 .. n |-> IF i = 0 THEN PoolDefaults ELSE PoolSet(cfg[i - 1], opts[i])]

LEMMA AppliedPoolExists ==
  ASSUME NEW opts, NEW n \in Nat
  PROVE  \E cfg : AppliedPool(cfg, opts, n)
<1> DEFINE T == {k \in 0 .. n : \E cfg : AppliedPool(cfg, opts, k)}
<1>1. 0 \in T
  <2>1. AppliedPool([i \in 0 .. 0 |-> PoolDefaults], opts, 0)  BY DEF AppliedPool
  <2>2. QED  BY <2>1
<1>2. ASSUME NEW k \in 0 .. n, k < n, k \in T PROVE k + 1 \in T
  <2>1. PICK cfg : AppliedPool(cfg, opts, k)  BY <1>2
  <2> DEFINE ext == [i \in 0 .. k + 1 |->
                       IF i = k + 1 THEN PoolSet(cfg[k], opts[k + 1]) ELSE cfg[i]]
  <2>2. ASSUME NEW i \in 0 .. k + 1
        PROVE  ext[i] = IF i = 0 THEN PoolDefaults ELSE PoolSet(ext[i - 1], opts[i])
    <3>1. CASE i = 0  BY <2>1, <3>1 DEF AppliedPool
    <3>2. CASE i = k + 1
      <4>1. ext[i] = PoolSet(cfg[k], opts[k + 1]) /\ ext[i - 1] = cfg[k]  BY <3>2
      <4>2. QED  BY <3>2, <4>1
    <3>3. CASE i # 0 /\ i # k + 1
      <4>1. i \in 0 .. k /\ i - 1 \in 0 .. k  BY <3>3
      <4>2. ext[i] = cfg[i] /\ ext[i - 1] = cfg[i - 1]  BY <4>1
      <4>3. cfg[i] = PoolSet(cfg[i - 1], opts[i])  BY <2>1, <3>3, <4>1 DEF AppliedPool
      <4>4. QED  BY <3>3, <4>2, <4>3
    <3>4. QED  BY <3>1, <3>2, <3>3
  <2>3. DOMAIN ext = 0 .. k + 1  OBVIOUS
  <2>4. AppliedPool(ext, opts, k + 1)
    <3>1. ext = [i \in 0 .. k + 1 |-> ext[i]]  OBVIOUS
    <3> HIDE DEF ext
    <3>2. QED  BY <2>2, <3>1 DEF AppliedPool
  <2>5. QED  BY <1>2, <2>4
<1>3. T = 0 .. n
  <2> HIDE DEF T
  <2>1. T \in SUBSET (0 .. n)  BY DEF T
  <2>2. QED  BY <1>1, <1>2, <2>1, Induct
<1>4. QED  BY <1>3

LEMMA PoolOptionsApplied ==
  ASSUME NEW opts, IsSequence(opts)
  PROVE  \E cfg : /\ AppliedPool(cfg, opts, Len(opts))
                  /\ PoolOptions(opts) =
                       IF \A i \in 1 .. Len(opts) : opts[i] # Nil /\ PoolAccepts(opts[i])
                       THEN cfg[Len(opts)] ELSE Invalid
<1> DEFINE cfg == CHOOSE f : f = [i \in 0 .. Len(opts) |->
                    IF i = 0 THEN PoolDefaults ELSE PoolSet(f[i - 1], opts[i])]
<1>1. AppliedPool(cfg, opts, Len(opts))
  BY AppliedPoolExists, SequenceFacts DEF AppliedPool
<1>2. PoolOptions(opts) =
        IF \A i \in 1 .. Len(opts) : opts[i] # Nil /\ PoolAccepts(opts[i])
        THEN cfg[Len(opts)] ELSE Invalid
  BY DEF PoolOptions
<1> HIDE DEF cfg
<1>3. QED  BY <1>1, <1>2

\* What every configuration of a pool is.
IsSpec(spec) ==
  /\ DOMAIN spec = DOMAIN PoolDefaults
  /\ spec.workers \in Nat \ {0}
  /\ spec.queueCapacity \in Nat
  /\ spec.rejectPolicy \in {"RejectPolicyReject", "RejectPolicyBlock"}

LEMMA PoolSetKeeps ==
  ASSUME NEW spec, IsSpec(spec), NEW o, PoolAccepts(o),
         o.set \in {"workers", "queueCapacity", "metricReportInterval"} => o.to \in Int
  PROVE  IsSpec(PoolSet(spec, o))
<1>1. DOMAIN PoolSet(spec, o) = DOMAIN spec  BY DEF PoolSet
<1>2. \A s \in DOMAIN spec : PoolSet(spec, o)[s] = IF s = o.set THEN o.to ELSE spec[s]
  BY DEF PoolSet
<1>3. {"workers", "queueCapacity", "rejectPolicy"} \subseteq DOMAIN spec
  BY DEF IsSpec, PoolDefaults
<1>4. /\ PoolSet(spec, o)["workers"] \in Nat \ {0}
      /\ PoolSet(spec, o)["queueCapacity"] \in Nat
      /\ PoolSet(spec, o)["rejectPolicy"] \in {"RejectPolicyReject", "RejectPolicyBlock"}
  BY <1>2, <1>3 DEF IsSpec, PoolAccepts
<1>5. QED  BY <1>1, <1>4 DEF IsSpec

\* A pool that New makes has a worker at least, a buffer of zero or more, and
\* one of the two policies.
THEOREM PoolOptionsSound ==
  ASSUME NEW opts, WellTypedPool(opts), PoolOptions(opts) # Invalid
  PROVE  IsSpec(PoolOptions(opts))
<1>1. PICK cfg : /\ AppliedPool(cfg, opts, Len(opts))
                 /\ \A i \in 1 .. Len(opts) : opts[i] # Nil /\ PoolAccepts(opts[i])
                 /\ PoolOptions(opts) = cfg[Len(opts)]
  <2>1. PICK cfg : /\ AppliedPool(cfg, opts, Len(opts))
                   /\ PoolOptions(opts) =
                        IF \A i \in 1 .. Len(opts) : opts[i] # Nil /\ PoolAccepts(opts[i])
                        THEN cfg[Len(opts)] ELSE Invalid
    BY PoolOptionsApplied DEF WellTypedPool
  <2>2. QED  BY <2>1
<1>2. Len(opts) \in Nat  BY SequenceFacts DEF WellTypedPool
<1> DEFINE T == {k \in 0 .. Len(opts) : IsSpec(cfg[k])}
<1>3. 0 \in T
  <2>1. cfg[0] = PoolDefaults  BY <1>1, <1>2 DEF AppliedPool
  <2>2. IsSpec(PoolDefaults)  BY OptionsAssumption DEF IsSpec, PoolDefaults
  <2>3. QED  BY <1>2, <2>1, <2>2
<1>4. ASSUME NEW k \in 0 .. Len(opts), k < Len(opts), k \in T PROVE k + 1 \in T
  <2>1. k + 1 \in 1 .. Len(opts) /\ k + 1 \in 0 .. Len(opts)  BY <1>2, <1>4
  <2>2. cfg[k + 1] = PoolSet(cfg[k], opts[k + 1])
    <3>1. cfg[k + 1] = PoolSet(cfg[(k + 1) - 1], opts[k + 1])
      BY <1>1, <2>1 DEF AppliedPool
    <3>2. (k + 1) - 1 = k  BY <1>4
    <3>3. QED  BY <3>1, <3>2
  <2>3. IsSpec(cfg[k + 1])  BY <1>1, <1>4, <2>1, <2>2, PoolSetKeeps DEF WellTypedPool
  <2>4. QED  BY <2>1, <2>3
<1>5. T = 0 .. Len(opts)
  <2> HIDE DEF T
  <2>1. T \in SUBSET (0 .. Len(opts))  BY DEF T
  <2>2. QED  BY <1>2, <1>3, <1>4, <2>1, Induct
<1>6. QED  BY <1>1, <1>2, <1>5

-----------------------------------------------------------------------------
(* timewheel.New *)

AppliedTimer(cfg, opts, n) ==
  cfg = [i \in 0 .. n |-> IF i = 0 THEN TimerDefaults ELSE TimerSet(cfg[i - 1], opts[i])]

LEMMA AppliedTimerExists ==
  ASSUME NEW opts, NEW n \in Nat
  PROVE  \E cfg : AppliedTimer(cfg, opts, n)
<1> DEFINE T == {k \in 0 .. n : \E cfg : AppliedTimer(cfg, opts, k)}
<1>1. 0 \in T
  <2>1. AppliedTimer([i \in 0 .. 0 |-> TimerDefaults], opts, 0)  BY DEF AppliedTimer
  <2>2. QED  BY <2>1
<1>2. ASSUME NEW k \in 0 .. n, k < n, k \in T PROVE k + 1 \in T
  <2>1. PICK cfg : AppliedTimer(cfg, opts, k)  BY <1>2
  <2> DEFINE ext == [i \in 0 .. k + 1 |->
                       IF i = k + 1 THEN TimerSet(cfg[k], opts[k + 1]) ELSE cfg[i]]
  <2>2. ASSUME NEW i \in 0 .. k + 1
        PROVE  ext[i] = IF i = 0 THEN TimerDefaults ELSE TimerSet(ext[i - 1], opts[i])
    <3>1. CASE i = 0  BY <2>1, <3>1 DEF AppliedTimer
    <3>2. CASE i = k + 1
      <4>1. ext[i] = TimerSet(cfg[k], opts[k + 1]) /\ ext[i - 1] = cfg[k]  BY <3>2
      <4>2. QED  BY <3>2, <4>1
    <3>3. CASE i # 0 /\ i # k + 1
      <4>1. i \in 0 .. k /\ i - 1 \in 0 .. k  BY <3>3
      <4>2. ext[i] = cfg[i] /\ ext[i - 1] = cfg[i - 1]  BY <4>1
      <4>3. cfg[i] = TimerSet(cfg[i - 1], opts[i])  BY <2>1, <3>3, <4>1 DEF AppliedTimer
      <4>4. QED  BY <3>3, <4>2, <4>3
    <3>4. QED  BY <3>1, <3>2, <3>3
  <2>3. AppliedTimer(ext, opts, k + 1)
    <3>1. ext = [i \in 0 .. k + 1 |-> ext[i]]  OBVIOUS
    <3> HIDE DEF ext
    <3>2. QED  BY <2>2, <3>1 DEF AppliedTimer
  <2>4. QED  BY <1>2, <2>3
<1>3. T = 0 .. n
  <2> HIDE DEF T
  <2>1. T \in SUBSET (0 .. n)  BY DEF T
  <2>2. QED  BY <1>1, <1>2, <2>1, Induct
<1>4. QED  BY <1>3

Accepted(cfg, opts) ==
  \A i \in 1 .. Len(opts) : opts[i] # Nil /\ TimerAccepts(cfg[i - 1], opts[i])

LEMMA TimerOptionsApplied ==
  ASSUME NEW opts, IsSequence(opts)
  PROVE  \E cfg : /\ AppliedTimer(cfg, opts, Len(opts))
                  /\ TimerOptions(opts) =
                       IF Accepted(cfg, opts) THEN cfg[Len(opts)] ELSE Invalid
<1> DEFINE cfg == CHOOSE f : f = [i \in 0 .. Len(opts) |->
                    IF i = 0 THEN TimerDefaults ELSE TimerSet(f[i - 1], opts[i])]
<1>1. AppliedTimer(cfg, opts, Len(opts))
  BY AppliedTimerExists, SequenceFacts DEF AppliedTimer
<1>2. TimerOptions(opts) = IF Accepted(cfg, opts) THEN cfg[Len(opts)] ELSE Invalid
  BY DEF TimerOptions, Accepted
<1> HIDE DEF cfg
<1>3. QED  BY <1>1, <1>2

-----------------------------------------------------------------------------
(* The effect of one option *)

Roles  == {"boss", "worker"}
Simple == DOMAIN TimerDefaults \ {"options", "pool", "source"}

\* What every configuration of a timer is.
IsConfig(cfg, pools) ==
  /\ DOMAIN cfg = DOMAIN TimerDefaults
  /\ DOMAIN cfg.pool = Roles /\ DOMAIN cfg.options = Roles /\ DOMAIN cfg.source = Roles
  /\ \A role \in Roles : /\ cfg.pool[role] \in pools \cup {Nil}
                         /\ WellTypedPool(cfg.options[role])

\* The indexes in I up to k.
UpTo(I, k) == {i \in I : i <= k}

LEMMA NextUpTo ==
  ASSUME NEW opts, NEW default, NEW k \in Nat, NEW I \in SUBSET Nat
  PROVE  /\ k + 1 \in I => Decided(opts, UpTo(I, k + 1), default) = opts[k + 1].to
         /\ k + 1 \notin I => UpTo(I, k + 1) = UpTo(I, k)
         /\ UpTo(I, k + 1) = {} <=> UpTo(I, k) = {} /\ k + 1 \notin I
<1>1. ASSUME k + 1 \in I PROVE Decided(opts, UpTo(I, k + 1), default) = opts[k + 1].to
  <2> DEFINE J == UpTo(I, k + 1)
  <2>1. k + 1 \in J /\ \A j \in J : j \in Nat /\ j <= k + 1  BY <1>1 DEF UpTo
  <2>2. (CHOOSE i \in J : \A j \in J : j <= i) = k + 1
    <3> HIDE DEF J
    <3>1. \A i \in J : (\A j \in J : j <= i) => i = k + 1  BY <2>1
    <3>2. QED  BY <2>1, <3>1
  <2>3. QED  BY <2>1, <2>2 DEF Decided
<1>2. \A i \in I : i <= k + 1 <=> i <= k \/ i = k + 1  OBVIOUS
<1>3. ASSUME k + 1 \notin I PROVE UpTo(I, k + 1) = UpTo(I, k)  BY <1>2, <1>3 DEF UpTo
<1>4. ASSUME UpTo(I, k + 1) # {}, k + 1 \notin I PROVE UpTo(I, k) # {}  BY <1>3, <1>4
<1>5. ASSUME UpTo(I, k) # {} \/ k + 1 \in I PROVE UpTo(I, k + 1) # {}  BY <1>2, <1>5 DEF UpTo
<1>6. QED  BY <1>1, <1>3, <1>4, <1>5

\* What the first k options amount to.
AmountsTo(opts, cfg, k) ==
  /\ \A set \in Simple :
       cfg[set] = Decided(opts, UpTo(Giving(opts, set), k), TimerDefaults[set])
  /\ \A role \in Roles :
       LET options == UpTo(GivingRole(opts, "options", role), k)
           pools   == UpTo(GivingRole(opts, "pool", role), k)
       IN /\ cfg.pool[role] = Decided(opts, pools, Nil)
          /\ pools = {} => cfg.options[role] = Decided(opts, options, TimerDefaults.options[role])
          /\ cfg.source[role] = IF pools # {} THEN "pool"
                                ELSE IF options # {} THEN "options" ELSE "default"
          /\ options = {} \/ pools = {}

LEMMA DefaultsAmount ==
  ASSUME NEW opts, IsSequence(opts), NEW pools
  PROVE  AmountsTo(opts, TimerDefaults, 0) /\ IsConfig(TimerDefaults, pools)
<1>1. \A I \in SUBSET (1 .. Len(opts)) : UpTo(I, 0) = {}
  <2> TAKE I \in SUBSET (1 .. Len(opts))
  <2>1. \A i \in I : ~(i <= 0)  BY SequenceFacts
  <2>2. QED  BY <2>1 DEF UpTo
<1>2. \A set, role : /\ Giving(opts, set) \in SUBSET (1 .. Len(opts))
                     /\ GivingRole(opts, set, role) \in SUBSET (1 .. Len(opts))
  BY SequenceFacts DEF Giving, GivingRole
<1>3. \A role \in Roles : TimerDefaults.pool[role] = Nil /\ TimerDefaults.source[role] = "default"
  BY DEF TimerDefaults, Roles
<1>4. AmountsTo(opts, TimerDefaults, 0)
  BY <1>1, <1>2, <1>3 DEF AmountsTo, Decided
<1>5. \A name : \A workers, capacity \in Int : WellTypedPool(DefaultPool(name, workers, capacity))
  <2> SUFFICES ASSUME NEW name, NEW workers \in Int, NEW capacity \in Int
               PROVE  WellTypedPool(DefaultPool(name, workers, capacity))
    OBVIOUS
  <2> DEFINE d == DefaultPool(name, workers, capacity)
  <2>1. /\ Len(d) = 4 /\ DOMAIN d = 1 .. 4
        /\ d[1].set = "name" /\ d[4].set = "rejectPolicy"
        /\ d[2].to = workers /\ d[3].to = capacity
    BY DEF DefaultPool
  <2>2. d \in Seq({d[i] : i \in DOMAIN d})
    <3>1. d = <<d[1], d[2], d[3], d[4]>>  BY DEF DefaultPool
    <3> HIDE DEF d
    <3>2. d[1] \in {d[i] : i \in DOMAIN d} /\ d[2] \in {d[i] : i \in DOMAIN d}
          /\ d[3] \in {d[i] : i \in DOMAIN d} /\ d[4] \in {d[i] : i \in DOMAIN d}
      BY <2>1
    <3> DEFINE S == {d[i] : i \in DOMAIN d}
    <3> HIDE DEF S
    <3>3. <<d[1], d[2], d[3], d[4]>> \in Seq(S)  BY <3>2 DEF S
    <3>4. QED  BY <3>1, <3>3 DEF S
  <2>3. \A i \in 1 .. 4 : i = 1 \/ i = 2 \/ i = 3 \/ i = 4  OBVIOUS
  <2> HIDE DEF d
  <2>4. QED  BY <2>1, <2>2, <2>3 DEF WellTypedPool, IsSequence, d
<1>6. \A role \in Roles : WellTypedPool(TimerDefaults.options[role])
  <2>1. TimerDefaults.options["boss"] = DefaultPool("timewheel-boss", 1, 16)
    BY DEF TimerDefaults
  <2>2. TimerDefaults.options["worker"] = DefaultPool("timewheel-worker", Processors, 100000)
    BY DEF TimerDefaults
  <2>3. QED  BY <1>5, <2>1, <2>2, OptionsAssumption DEF Roles
<1>7. IsConfig(TimerDefaults, pools)
  BY <1>3, <1>6 DEF IsConfig, TimerDefaults, Roles
<1>8. QED  BY <1>4, <1>7

\* An option that is accepted amounts to one option more.
LEMMA TimerSetKeeps ==
  ASSUME NEW opts, NEW pools, WellTyped(opts, pools),
         NEW k \in 0 .. Len(opts), k < Len(opts),
         NEW cfg, IsConfig(cfg, pools), AmountsTo(opts, cfg, k),
         opts[k + 1] # Nil, TimerAccepts(cfg, opts[k + 1])
  PROVE  /\ IsConfig(TimerSet(cfg, opts[k + 1]), pools)
         /\ AmountsTo(opts, TimerSet(cfg, opts[k + 1]), k + 1)
<1> DEFINE o    == opts[k + 1]
           next == TimerSet(cfg, o)
<1>1. /\ Len(opts) \in Nat /\ k \in Nat /\ k + 1 \in 1 .. Len(opts)
      /\ DOMAIN opts = 1 .. Len(opts)
  BY SequenceFacts DEF WellTyped
<1>2. /\ o.set \in {"options", "pool"} => o.role \in Roles
      /\ o.set = "options" => WellTypedPool(o.to)
      /\ o.set = "pool" => o.to \in pools \cup {Nil}
  BY <1>1 DEF WellTyped, Roles
<1>3. /\ o.set \in Simple \cup {"options", "pool"}
      /\ o.set = "options" => cfg.source[o.role] # "pool"
      /\ o.set = "pool" => cfg.source[o.role] # "options"
  <2>1. {"tick", "bucketCount", "commandCapacity", "maxPending", "expiredTaskRetryDelay",
         "metricReportInterval", "backpressurePolicy", "expiredTaskPolicy", "metricSink"}
          \subseteq Simple
    BY DEF Simple, TimerDefaults
  <2>2. QED  BY <2>1 DEF TimerAccepts, ValueAllowed
<1>4. \A set, role : /\ Giving(opts, set) \in SUBSET Nat
                     /\ GivingRole(opts, set, role) \in SUBSET Nat
                     /\ k + 1 \in Giving(opts, set) <=> set = o.set
                     /\ k + 1 \in GivingRole(opts, set, role) <=> set = o.set /\ role = o.role
  BY <1>1 DEF Giving, GivingRole
<1>5. /\ Simple \subseteq DOMAIN cfg
      /\ {"options", "pool", "source"} \subseteq DOMAIN cfg
      /\ Simple \cap {"options", "pool", "source"} = {}
  BY DEF Simple, IsConfig, TimerDefaults
<1> HIDE DEF o
<1>6. /\ DOMAIN next = DOMAIN cfg
      /\ \A set \in Simple : next[set] = IF set = o.set THEN o.to ELSE cfg[set]
  <2>1. CASE o.set = "options"  BY <1>5, <2>1 DEF TimerSet
  <2>2. CASE o.set = "pool"  BY <1>5, <2>2 DEF TimerSet
  <2>3. CASE o.set \in Simple
    <3>1. next = [cfg EXCEPT ![o.set] = o.to]  BY <1>5, <2>3 DEF TimerSet
    <3>2. QED  BY <1>5, <3>1
  <2>4. QED  BY <1>3, <2>1, <2>2, <2>3
<1>7. /\ DOMAIN next.pool = Roles /\ DOMAIN next.options = Roles /\ DOMAIN next.source = Roles
      /\ \A role \in Roles :
           /\ next.pool[role] = IF o.set = "pool" /\ o.role = role THEN o.to ELSE cfg.pool[role]
           /\ next.options[role] = IF o.set = "options" /\ o.role = role THEN o.to
                                   ELSE IF o.set = "pool" /\ o.role = role THEN <<>>
                                   ELSE cfg.options[role]
           /\ next.source[role] = IF o.set \in {"options", "pool"} /\ o.role = role THEN o.set
                                  ELSE cfg.source[role]
  <2>1. CASE o.set = "options"
    <3>1. /\ next.pool = cfg.pool
          /\ next.options = [cfg.options EXCEPT ![o.role] = o.to]
          /\ next.source = [cfg.source EXCEPT ![o.role] = "options"]
      BY <1>5, <2>1 DEF TimerSet
    <3>2. QED  BY <1>2, <2>1, <3>1 DEF IsConfig
  <2>2. CASE o.set = "pool"
    <3>1. /\ next.pool = [cfg.pool EXCEPT ![o.role] = o.to]
          /\ next.options = [cfg.options EXCEPT ![o.role] = <<>>]
          /\ next.source = [cfg.source EXCEPT ![o.role] = "pool"]
      BY <1>5, <2>2 DEF TimerSet
    <3>2. QED  BY <1>2, <2>2, <3>1 DEF IsConfig
  <2>3. CASE o.set \in Simple
    <3>1. next = [cfg EXCEPT ![o.set] = o.to]  BY <1>5, <2>3 DEF TimerSet
    <3>2. o.set \notin {"options", "pool", "source"}  BY <1>5, <2>3
    <3>3. next.pool = cfg.pool /\ next.options = cfg.options /\ next.source = cfg.source
      BY <1>5, <3>1, <3>2
    <3>4. QED  BY <3>2, <3>3 DEF IsConfig
  <2>4. QED  BY <1>3, <2>1, <2>2, <2>3
<1> HIDE DEF next
<1>8. WellTypedPool(<<>>)
  <2>1. Len(<<>>) = 0 /\ DOMAIN <<>> = {}  OBVIOUS
  <2>2. <<>> \in Seq({<<>>[i] : i \in DOMAIN <<>>})  OBVIOUS
  <2>3. QED  BY <2>1, <2>2 DEF WellTypedPool, IsSequence
<1>9. IsConfig(next, pools)
  <2>1. ASSUME NEW role \in Roles
        PROVE  next.pool[role] \in pools \cup {Nil} /\ WellTypedPool(next.options[role])
    BY <1>2, <1>7, <1>8 DEF IsConfig
  <2>2. QED  BY <1>6, <1>7, <2>1 DEF IsConfig
<1>10. ASSUME NEW set \in Simple
       PROVE  next[set] = Decided(opts, UpTo(Giving(opts, set), k + 1), TimerDefaults[set])
  <2> DEFINE I == Giving(opts, set)
  <2>1. I \in SUBSET Nat /\ (k + 1 \in I <=> set = o.set)  BY <1>4
  <2>2. /\ k + 1 \in I => Decided(opts, UpTo(I, k + 1), TimerDefaults[set]) = opts[k + 1].to
        /\ k + 1 \notin I => UpTo(I, k + 1) = UpTo(I, k)
    BY <1>1, <2>1, NextUpTo
  <2>3. cfg[set] = Decided(opts, UpTo(I, k), TimerDefaults[set])  BY DEF AmountsTo
  <2> HIDE DEF I
  <2>4. QED  BY <1>6, <2>1, <2>2, <2>3 DEF o, I
<1>11. ASSUME NEW role \in Roles
       PROVE  LET options == UpTo(GivingRole(opts, "options", role), k + 1)
                  given   == UpTo(GivingRole(opts, "pool", role), k + 1)
              IN /\ next.pool[role] = Decided(opts, given, Nil)
                 /\ given = {} =>
                      next.options[role] = Decided(opts, options, TimerDefaults.options[role])
                 /\ next.source[role] = IF given # {} THEN "pool"
                                        ELSE IF options # {} THEN "options" ELSE "default"
                 /\ options = {} \/ given = {}
  <2> DEFINE I == GivingRole(opts, "options", role)
             J == GivingRole(opts, "pool", role)
  <2>1. /\ I \in SUBSET Nat /\ J \in SUBSET Nat
        /\ k + 1 \in I <=> "options" = o.set /\ role = o.role
        /\ k + 1 \in J <=> "pool" = o.set /\ role = o.role
    BY <1>4
  <2>2. /\ k + 1 \in I =>
             Decided(opts, UpTo(I, k + 1), TimerDefaults.options[role]) = opts[k + 1].to
        /\ k + 1 \notin I => UpTo(I, k + 1) = UpTo(I, k)
        /\ UpTo(I, k + 1) = {} <=> UpTo(I, k) = {} /\ k + 1 \notin I
    BY <1>1, <2>1, NextUpTo
  <2>3. /\ k + 1 \in J => Decided(opts, UpTo(J, k + 1), Nil) = opts[k + 1].to
        /\ k + 1 \notin J => UpTo(J, k + 1) = UpTo(J, k)
        /\ UpTo(J, k + 1) = {} <=> UpTo(J, k) = {} /\ k + 1 \notin J
    BY <1>1, <2>1, NextUpTo
  <2>4. /\ cfg.pool[role] = Decided(opts, UpTo(J, k), Nil)
        /\ UpTo(J, k) = {} =>
             cfg.options[role] = Decided(opts, UpTo(I, k), TimerDefaults.options[role])
        /\ cfg.source[role] = IF UpTo(J, k) # {} THEN "pool"
                              ELSE IF UpTo(I, k) # {} THEN "options" ELSE "default"
        /\ UpTo(I, k) = {} \/ UpTo(J, k) = {}
    BY DEF AmountsTo
  <2> HIDE DEF I, J
  <2>5. CASE o.set = "options" /\ o.role = role
    <3>1. UpTo(J, k + 1) = UpTo(J, k) /\ UpTo(J, k) = {} /\ UpTo(I, k + 1) # {}
      BY <1>3, <2>1, <2>2, <2>3, <2>4, <2>5
    <3>2. QED  BY <1>7, <2>1, <2>2, <2>3, <2>4, <2>5, <3>1 DEF o, I, J
  <2>6. CASE o.set = "pool" /\ o.role = role
    <3>1. UpTo(I, k + 1) = UpTo(I, k) /\ UpTo(I, k) = {} /\ UpTo(J, k + 1) # {}
      BY <1>3, <2>1, <2>2, <2>3, <2>4, <2>6
    <3>2. QED  BY <1>7, <2>1, <2>2, <2>3, <2>4, <2>6, <3>1 DEF o, I, J
  <2>7. CASE ~(o.set \in {"options", "pool"} /\ o.role = role)
    <3>1. UpTo(I, k + 1) = UpTo(I, k) /\ UpTo(J, k + 1) = UpTo(J, k)
      BY <2>1, <2>2, <2>3, <2>7
    <3>2. QED  BY <1>7, <2>4, <2>7, <3>1 DEF I, J
  <2>8. QED  BY <2>5, <2>6, <2>7
<1>12. AmountsTo(opts, next, k + 1)  BY <1>10, <1>11 DEF AmountsTo
<1>13. QED  BY <1>9, <1>12 DEF next, o

-----------------------------------------------------------------------------
(* Any number of options *)

\* Options that are acceptable together are accepted one after the other.
LEMMA AcceptableNext ==
  ASSUME NEW opts, NEW pools, WellTyped(opts, pools), Acceptable(opts),
         NEW k \in 0 .. Len(opts), k < Len(opts),
         NEW cfg, AmountsTo(opts, cfg, k)
  PROVE  opts[k + 1] # Nil /\ TimerAccepts(cfg, opts[k + 1])
<1> DEFINE o == opts[k + 1]
<1>1. Len(opts) \in Nat /\ k + 1 \in 1 .. Len(opts) /\ DOMAIN opts = 1 .. Len(opts)
  BY SequenceFacts DEF WellTyped
<1>2. o # Nil /\ ValueAllowed(o)  BY <1>1 DEF Acceptable
<1>3. o.set \in {"options", "pool"} => o.role \in Roles  BY <1>1, <1>2 DEF WellTyped, Roles
<1>4. \A set : o.set = set => k + 1 \in GivingRole(opts, set, o.role)
  BY <1>1 DEF Giving, GivingRole
<1>5. ASSUME o.set = "options" PROVE cfg.source[o.role] # "pool"
  <2>1. GivingRole(opts, "pool", o.role) = {}  BY <1>3, <1>4, <1>5 DEF Acceptable, Roles
  <2>2. UpTo(GivingRole(opts, "pool", o.role), k) = {}  BY <2>1 DEF UpTo
  <2>3. QED  BY <1>3, <1>5, <2>2 DEF AmountsTo
<1>6. ASSUME o.set = "pool" PROVE cfg.source[o.role] # "options"
  <2>1. GivingRole(opts, "options", o.role) = {}  BY <1>3, <1>4, <1>6 DEF Acceptable, Roles
  <2>2. UpTo(GivingRole(opts, "options", o.role), k) = {}  BY <2>1 DEF UpTo
  <2>3. QED  BY <1>3, <1>6, <2>2 DEF AmountsTo
<1>7. QED  BY <1>2, <1>5, <1>6 DEF TimerAccepts

LEMMA AllAmount ==
  ASSUME NEW opts, NEW pools, WellTyped(opts, pools), NEW cfg,
         AppliedTimer(cfg, opts, Len(opts)),
         Accepted(cfg, opts) \/ Acceptable(opts)
  PROVE  \A k \in 0 .. Len(opts) : IsConfig(cfg[k], pools) /\ AmountsTo(opts, cfg[k], k)
<1>1. Len(opts) \in Nat  BY SequenceFacts DEF WellTyped
<1> DEFINE T == {k \in 0 .. Len(opts) : IsConfig(cfg[k], pools) /\ AmountsTo(opts, cfg[k], k)}
<1>2. 0 \in T
  <2>1. cfg[0] = TimerDefaults  BY <1>1 DEF AppliedTimer
  <2>2. QED  BY <1>1, <2>1, DefaultsAmount DEF WellTyped
<1>3. ASSUME NEW k \in 0 .. Len(opts), k < Len(opts), k \in T PROVE k + 1 \in T
  <2>1. k + 1 \in 1 .. Len(opts) /\ k + 1 \in 0 .. Len(opts) /\ (k + 1) - 1 = k
    BY <1>1, <1>3
  <2>2. cfg[k + 1] = TimerSet(cfg[k], opts[k + 1])
    <3>1. cfg[k + 1] = TimerSet(cfg[(k + 1) - 1], opts[k + 1])  BY <2>1 DEF AppliedTimer
    <3>2. QED  BY <2>1, <3>1
  <2>3. opts[k + 1] # Nil /\ TimerAccepts(cfg[k], opts[k + 1])
    <3>1. CASE Accepted(cfg, opts)
      <4>1. opts[k + 1] # Nil /\ TimerAccepts(cfg[(k + 1) - 1], opts[k + 1])
        BY <2>1, <3>1 DEF Accepted
      <4>2. QED  BY <2>1, <4>1
    <3>2. CASE Acceptable(opts)  BY <1>3, <3>2, AcceptableNext
    <3>3. QED  BY <3>1, <3>2
  <2>4. QED  BY <1>3, <2>1, <2>2, <2>3, TimerSetKeeps
<1>4. T = 0 .. Len(opts)
  <2> HIDE DEF T
  <2>1. T \in SUBSET (0 .. Len(opts))  BY DEF T
  <2>2. QED  BY <1>1, <1>2, <1>3, <2>1, Induct
<1>5. QED  BY <1>4

\* The setters refuse none of a list, each after those before it, just when the
\* list is acceptable as a whole.
LEMMA AcceptedWhenAcceptable ==
  ASSUME NEW opts, NEW pools, WellTyped(opts, pools), NEW cfg,
         AppliedTimer(cfg, opts, Len(opts))
  PROVE  Accepted(cfg, opts) <=> Acceptable(opts)
<1>1. Len(opts) \in Nat /\ DOMAIN opts = 1 .. Len(opts)  BY SequenceFacts DEF WellTyped
<1>2. ASSUME Accepted(cfg, opts) PROVE Acceptable(opts)
  <2>1. \A i \in DOMAIN opts : opts[i] # Nil /\ ValueAllowed(opts[i])
    BY <1>1, <1>2 DEF Accepted, TimerAccepts
  <2>2. AmountsTo(opts, cfg[Len(opts)], Len(opts))  BY <1>1, <1>2, AllAmount
  <2>3. ASSUME NEW role \in Roles
        PROVE  GivingRole(opts, "options", role) = {} \/ GivingRole(opts, "pool", role) = {}
    <3>1. \A set : GivingRole(opts, set, role) \subseteq 1 .. Len(opts)
      BY <1>1 DEF Giving, GivingRole
    <3>2. \A set : UpTo(GivingRole(opts, set, role), Len(opts)) = GivingRole(opts, set, role)
      BY <1>1, <3>1 DEF UpTo
    <3>3. QED  BY <2>2, <3>2 DEF AmountsTo
  <2>4. QED  BY <2>1, <2>3 DEF Acceptable, Roles
<1>3. ASSUME Acceptable(opts) PROVE Accepted(cfg, opts)
  <2> SUFFICES ASSUME NEW i \in 1 .. Len(opts)
               PROVE  opts[i] # Nil /\ TimerAccepts(cfg[i - 1], opts[i])
    BY DEF Accepted
  <2>1. i - 1 \in 0 .. Len(opts) /\ i - 1 < Len(opts) /\ (i - 1) + 1 = i  BY <1>1
  <2>2. AmountsTo(opts, cfg[i - 1], i - 1)  BY <1>3, <2>1, AllAmount
  <2>3. opts[(i - 1) + 1] # Nil /\ TimerAccepts(cfg[i - 1], opts[(i - 1) + 1])
    BY <1>3, <2>1, <2>2, AcceptableNext
  <2>4. QED  BY <2>1, <2>3
<1>4. QED  BY <1>2, <1>3

\* New accepts a list of options just when each is good by itself and no role is
\* given both a pool and options, in whatever order, and the configuration is
\* then what the last value of each setting says, of the types that the rest of
\* New relies on.
THEOREM TimerOptionsAmount ==
  ASSUME NEW opts, NEW pools, WellTyped(opts, pools)
  PROVE  /\ Amounts(opts, TimerOptions(opts))
         /\ TimerOptions(opts) # Invalid => IsConfig(TimerOptions(opts), pools)
<1>1. PICK cfg : /\ AppliedTimer(cfg, opts, Len(opts))
                 /\ TimerOptions(opts) = IF Accepted(cfg, opts) THEN cfg[Len(opts)] ELSE Invalid
  BY TimerOptionsApplied DEF WellTyped
<1>2. Len(opts) \in Nat /\ DOMAIN opts = 1 .. Len(opts)  BY SequenceFacts DEF WellTyped
<1>3. Accepted(cfg, opts) <=> Acceptable(opts)  BY <1>1, AcceptedWhenAcceptable
<1>4. CASE ~Acceptable(opts)  BY <1>1, <1>3, <1>4 DEF Amounts
<1>5. CASE Acceptable(opts)
  <2> DEFINE c == cfg[Len(opts)]
  <2>1. TimerOptions(opts) = c  BY <1>1, <1>3, <1>5
  <2>2. IsConfig(c, pools) /\ AmountsTo(opts, c, Len(opts))  BY <1>1, <1>2, <1>5, AllAmount
  <2> HIDE DEF c
  <2>3. \A set, role : /\ UpTo(Giving(opts, set), Len(opts)) = Giving(opts, set)
                       /\ UpTo(GivingRole(opts, set, role), Len(opts)) = GivingRole(opts, set, role)
    <3>1. \A set, role : /\ Giving(opts, set) \subseteq 1 .. Len(opts)
                         /\ GivingRole(opts, set, role) \subseteq 1 .. Len(opts)
      BY <1>2 DEF Giving, GivingRole
    <3>2. QED  BY <1>2, <3>1 DEF UpTo
  <2>4. ASSUME NEW role \in Roles
        PROVE  /\ c.pool[role] = Decided(opts, GivingRole(opts, "pool", role), Nil)
               /\ c.pool[role] = Nil =>
                    c.options[role] = Decided(opts, GivingRole(opts, "options", role),
                                              TimerDefaults.options[role])
    <3> DEFINE J == GivingRole(opts, "pool", role)
    <3>1. /\ c.pool[role] = Decided(opts, J, Nil)
          /\ J = {} => c.options[role] = Decided(opts, GivingRole(opts, "options", role),
                                                 TimerDefaults.options[role])
      BY <2>2, <2>3 DEF AmountsTo
    <3>2. ASSUME J # {} PROVE c.pool[role] # Nil
      <4>1. J \in SUBSET Nat /\ \A j \in J : j <= Len(opts)
        BY <1>2 DEF Giving, GivingRole
      <4>2. PICK i \in J : \A j \in J : j <= i
        <5> HIDE DEF J
        <5>1. QED  BY <1>2, <3>2, <4>1, GreatestElement
      <4>3. PICK i1 \in J : c.pool[role] = opts[i1].to
        <5> HIDE DEF J
        <5>1. (CHOOSE j \in J : \A j2 \in J : j2 <= j) \in J  BY <4>2
        <5>2. QED  BY <3>1, <3>2, <5>1 DEF Decided
      <4>4. i1 \in DOMAIN opts /\ opts[i1].set = "pool"  BY DEF Giving, GivingRole
      <4>5. ValueAllowed(opts[i1])  BY <1>5, <4>4 DEF Acceptable
      <4>6. QED  BY <4>3, <4>4, <4>5 DEF ValueAllowed
    <3>3. QED  BY <3>1, <3>2
  <2>5. \A set \in Simple : c[set] = Decided(opts, Giving(opts, set), TimerDefaults[set])
    BY <2>2, <2>3 DEF AmountsTo
  <2>6. Amounts(opts, c)  BY <1>5, <2>4, <2>5 DEF Amounts, Simple, Roles
  <2>7. QED  BY <2>1, <2>2, <2>6
<1>6. QED  BY <1>4, <1>5
=============================================================================
