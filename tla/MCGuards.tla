------------------------------- MODULE MCGuards -------------------------------
(* TLC instance of what stands in front of a call: fair scheduling, rate, cost
   and quota limits, breakers, bulkheads and the write-ahead log.  They share no
   state; focus says which of them this behaviour is about, and the others keep
   their initial state. *)
EXTENDS FairScheduler, TokenBucket, CostCeiling, RateLimiter, WalAdapter,
        ResilienceAdapters, TLC

CONSTANTS A, B, a1, a2, a3, b1, c1, c2, p1, p2

VARIABLE focus

Init ==
  /\ focus \in {"fair", "bucket", "cost", "interval", "quota",
                "wal", "resilient", "breaker"}
  /\ FairInit /\ BucketInit /\ CostInit /\ IntervalInit /\ QuotaInit
  /\ WalInit /\ RaInit /\ AbInit
  /\ focus # "fair" => thresholds.load = 80

Next ==
  /\ UNCHANGED focus
  /\ \/ focus = "fair" /\ FairNext
     \/ focus # "fair" /\ UNCHANGED fairVars
  /\ \/ focus = "bucket" /\ BucketNext
     \/ focus # "bucket" /\ UNCHANGED bucketVars
  /\ \/ focus = "cost" /\ CostNext
     \/ focus # "cost" /\ UNCHANGED costVars
  /\ \/ focus = "interval" /\ IntervalNext
     \/ focus # "interval" /\ UNCHANGED intervalVars
  /\ \/ focus = "quota" /\ QuotaNext
     \/ focus # "quota" /\ UNCHANGED quotaVars
  /\ \/ focus = "wal" /\ WalNext
     \/ focus # "wal" /\ UNCHANGED walVars
  /\ \/ focus = "resilient" /\ RaNext
     \/ focus # "resilient" /\ UNCHANGED raVars
  /\ \/ focus = "breaker" /\ AbNext
     \/ focus # "breaker" /\ UNCHANGED abVars

vars == <<focus, fairVars, bucketVars, costVars, intervalVars, quotaVars,
          walVars, raVars, abVars>>
Spec == Init /\ [][Next]_vars

Tenant == (a1 :> A) @@ (a2 :> A) @@ (a3 :> A) @@ (b1 :> B)
Configs == {[tier |-> "free", priority |-> 5, maxConcurrent |-> 1],
            [tier |-> "standard", priority |-> 6, maxConcurrent |-> 2]}
Metrics == {[load |-> 50, cpu |-> 50, memory |-> 92, queue |-> 2],
            [load |-> 96, cpu |-> 50, memory |-> 50, queue |-> 0],
            [load |-> 50, cpu |-> 50, memory |-> 50, queue |-> 4]}
Thresholds == {[load |-> 80, cpu |-> 85, memory |-> 90, queue |-> 2],
               [load |-> 97, cpu |-> 97, memory |-> 97, queue |-> 3]}

Process == (c1 :> p1) @@ (c2 :> p2)
OneTier == {[capacity |-> 1, rate |-> 1]}

\* Allowances are handed out as measured: the bucket refills by whole intervals and
\* a quota is overrun only by what ran at the same time.
AllowancesAreSound == RefillIsSound /\ OverrunWithinConcurrency

\* The two breakers of libs/adapters: an open circuit lets only those through that
\* were waiting, and the state follows the failures.
BreakersFollowFailures == OpenCircuitDrains /\ StateFollowsFailures
=============================================================================
