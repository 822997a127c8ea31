------------------------------- MODULE Options -------------------------------
(***************************************************************************)
(* The options of timewheel.New and executor.New.  An option is a record   *)
(* with the setting it sets and the value it gives it: [set |-> "tick",    *)
(* to |-> 5].  The options that say where a pool comes from name its role  *)
(* too: WithBossPool(p) is [set |-> "pool", role |-> "boss", to |-> p],    *)
(* WithBoss(opts) is [set |-> "options", role |-> "boss", to |-> opts].    *)
(* Options are applied from left to right until one is refused: what comes *)
(* after that one makes no difference.                                     *)
(***************************************************************************)
EXTENDS Integers, Sequences

CONSTANTS
  Processors,  \* runtime.GOMAXPROCS(0)
  Nil,         \* an option, a pool or a sink that is nil
  Invalid      \* the outcome of a call that returns ErrInvalid

ASSUME OptionsAssumption == Processors \in Nat \ {0}

-----------------------------------------------------------------------------
(* executor.New.  Durations are in milliseconds. *)

PoolDefaults ==
  [name |-> "executor", workers |-> Processors, queueCapacity |-> 1024,
   rejectPolicy |-> "RejectPolicyReject", panicHandler |-> Nil, metricSink |-> Nil,
   metricReportInterval |-> 10000]

PoolAccepts(o) ==
  \/ o.set \in {"name", "metricSink"} /\ o.to # Nil
  \/ o.set \in {"workers", "metricReportInterval"} /\ o.to > 0
  \/ o.set = "queueCapacity" /\ o.to >= 0
  \/ o.set = "rejectPolicy" /\ o.to \in {"RejectPolicyReject", "RejectPolicyBlock"}
  \/ o.set = "panicHandler"

PoolSet(cfg, o) == [cfg EXCEPT ![o.set] = o.to]

PoolOptions(opts) ==
  LET cfg[i \in 0 .. Len(opts)] ==
        IF i = 0 THEN PoolDefaults ELSE PoolSet(cfg[i - 1], opts[i])
  IN IF \A i \in 1 .. Len(opts) : opts[i] # Nil /\ PoolAccepts(opts[i])
     THEN cfg[Len(opts)] ELSE Invalid

-----------------------------------------------------------------------------
(* timewheel.New *)

DefaultPool(name, workers, capacity) ==
  <<[set |-> "name", to |-> name], [set |-> "workers", to |-> workers],
    [set |-> "queueCapacity", to |-> capacity],
    [set |-> "rejectPolicy", to |-> "RejectPolicyReject"]>>

TimerDefaults ==
  [tick |-> 1, bucketCount |-> 512, commandCapacity |-> 65536, maxPending |-> 1000000,
   backpressurePolicy |-> "BackpressureReject", expiredTaskPolicy |-> "ExpiredTaskReject",
   expiredTaskRetryDelay |-> 1, metricSink |-> Nil, metricReportInterval |-> 10000,
   options |-> [boss |-> DefaultPool("timewheel-boss", 1, 16),
                worker |-> DefaultPool("timewheel-worker", Processors, 100000)],
   pool |-> [boss |-> Nil, worker |-> Nil],
   source |-> [boss |-> "default", worker |-> "default"]]

\* The values a setting may be given, whatever was set before.
ValueAllowed(o) ==
  \/ o.set \in {"tick", "bucketCount", "commandCapacity", "maxPending",
                "expiredTaskRetryDelay", "metricReportInterval"} /\ o.to > 0
  \/ o.set = "backpressurePolicy" /\ o.to \in {"BackpressureReject", "BackpressureBlock"}
  \/ o.set = "expiredTaskPolicy" /\ o.to \in {"ExpiredTaskReject", "ExpiredTaskRetry"}
  \/ o.set \in {"metricSink", "pool"} /\ o.to # Nil
  \/ o.set = "options"

\* Mutant: a pool may replace the options of the pool that was to be made.
TimerAcceptsBug(cfg, o) ==
  /\ ValueAllowed(o)
  /\ o.set = "options" => cfg.source[o.role] # "pool"

TimerAccepts(cfg, o) ==
  /\ ValueAllowed(o)
  /\ o.set = "options" => cfg.source[o.role] # "pool"
  /\ o.set = "pool" => cfg.source[o.role] # "options"

TimerSet(cfg, o) ==
  CASE o.set = "options" ->
         [cfg EXCEPT !.options[o.role] = o.to, !.source[o.role] = "options"]
    [] o.set = "pool" ->
         [cfg EXCEPT !.pool[o.role] = o.to, !.options[o.role] = <<>>, !.source[o.role] = "pool"]
    [] OTHER -> [cfg EXCEPT ![o.set] = o.to]

TimerOptions(opts) ==
  LET cfg[i \in 0 .. Len(opts)] ==
        IF i = 0 THEN TimerDefaults ELSE TimerSet(cfg[i - 1], opts[i])
  IN IF \A i \in 1 .. Len(opts) : opts[i] # Nil /\ TimerAccepts(cfg[i - 1], opts[i])
     THEN cfg[Len(opts)] ELSE Invalid

-----------------------------------------------------------------------------
(* What Go's types say of the options. *)

IsSequence(opts) == opts \in Seq({opts[i] : i \in DOMAIN opts})

WellTypedPool(opts) ==
  /\ IsSequence(opts)
  /\ \A i \in 1 .. Len(opts) :
       opts[i] # Nil /\ opts[i].set \in {"workers", "queueCapacity", "metricReportInterval"} =>
         opts[i].to \in Int

\* pools are those that a caller can have.
WellTyped(opts, pools) ==
  /\ IsSequence(opts)
  /\ \A i \in 1 .. Len(opts) : opts[i] # Nil =>
       /\ opts[i].set \in {"options", "pool"} => opts[i].role \in {"boss", "worker"}
       /\ opts[i].set = "options" => WellTypedPool(opts[i].to)
       /\ opts[i].set = "pool" => opts[i].to \in pools \cup {Nil}

-----------------------------------------------------------------------------
(* What the options amount to, without an order of evaluation. *)

\* The options of opts that give a value to a setting (of a role).
Giving(opts, set) == {i \in DOMAIN opts : opts[i].set = set}
GivingRole(opts, set, role) == {i \in Giving(opts, set) : opts[i].role = role}

Acceptable(opts) ==
  /\ \A i \in DOMAIN opts : opts[i] # Nil
  /\ \A i \in DOMAIN opts : ValueAllowed(opts[i])
  /\ \A role \in {"boss", "worker"} :
       GivingRole(opts, "options", role) = {} \/ GivingRole(opts, "pool", role) = {}

\* The last option that gives a value decides, and without one the default.
Decided(opts, I, default) ==
  IF I = {} THEN default ELSE opts[CHOOSE i \in I : \A j \in I : j <= i].to

Amounts(opts, cfg) ==
  IF Acceptable(opts)
  THEN /\ \A set \in DOMAIN TimerDefaults \ {"options", "pool", "source"} :
            cfg[set] = Decided(opts, Giving(opts, set), TimerDefaults[set])
       /\ \A role \in {"boss", "worker"} :
            /\ cfg.pool[role] = Decided(opts, GivingRole(opts, "pool", role), Nil)
            /\ cfg.pool[role] = Nil =>
                 cfg.options[role] = Decided(opts, GivingRole(opts, "options", role),
                                             TimerDefaults.options[role])
  ELSE cfg = Invalid
=============================================================================
