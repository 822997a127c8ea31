---------------------------- MODULE MCLifecycle ------------------------------
(***************************************************************************)
(* Small instances of Lifecycle for TLC.                                   *)
(***************************************************************************)
EXTENDS Lifecycle, TLC

CONSTANTS m1, m2, s1

Set(set, to) == [set |-> set, to |-> to]
With(set, role, to) == [set |-> set, role |-> role, to |-> to]

\* One worker, and room for one task.
MCSpecs == s1 :> <<Set("workers", 1), Set("queueCapacity", 1)>>

Given(role) == With("pool", role, s1)
Direct(policy) ==
  With("options", "boss", <<Set("workers", 1), Set("queueCapacity", 0), Set("rejectPolicy", policy)>>)
NoWorkers(role) == With("options", role, <<Set("workers", 0)>>)

\* Lists that New takes, some only to fail later,
Taken ==
  {<<Given("boss"), Set("metricSink", "sink")>>,
   <<Direct("RejectPolicyReject")>>,
   <<Given("worker"), Direct("RejectPolicyBlock"), Set("metricSink", "sink")>>,
   <<NoWorkers("boss"), Set("tick", 5), Set("tick", 7)>>,
   <<Direct("RejectPolicyBlock"), NoWorkers("worker")>>,
   <<Given("boss"), NoWorkers("worker"), Set("maxPending", 1), Set("expiredTaskPolicy", "ExpiredTaskRetry")>>}

\* and lists that it refuses.
Refused ==
  {<<Nil>>, <<Set("tick", 5), Set("bucketCount", 0)>>,
   <<Set("backpressurePolicy", "BackpressureOther")>>, <<With("pool", "boss", Nil)>>,
   <<Given("boss"), NoWorkers("boss")>>, <<NoWorkers("boss"), Given("boss")>>,
   <<Given("worker"), Given("boss"), NoWorkers("worker")>>}

MCOptionLists == m1 :> Taken \cup Refused @@ m2 :> {<<Given("boss"), Given("worker")>>}
=============================================================================
