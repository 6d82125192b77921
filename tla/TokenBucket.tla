----------------------------- MODULE TokenBucket -----------------------------
(***************************************************************************)
(* libs/security/token_buckets.py: the TenantRateLimiter of each process   *)
(* and the bucket of one tenant (tenants have keys and objects of their    *)
(* own).  The processes share the tenant's hash in Redis; each also has    *)
(* local bucket objects, used without Redis and whenever a call to it      *)
(* fails.  Everything but a call to Redis runs without suspending.         *)
(*                                                                         *)
(* Time is counted in ticks and rates in whole tokens per tick.  The burst *)
(* allowance (refilled but never drawn on) and the request counters, which *)
(* only get_state reports, are left out.                                   *)
(***************************************************************************)
EXTENDS Integers, Sequences

CONSTANTS
  Procs,
  RedisProcs,   \* processes that were given a redis_client
  RateCalls,    \* check_rate_limit calls, repeated
  ProcOf,       \* the process a call runs in
  TierConfigs,  \* default_configs: records of capacity and rate
  Amounts,      \* tokens a call may ask for
  TTL,          \* EXPIRE of the hash
  MaxTime,      \* bound on the clock
  MaxUpdates,   \* bound on resets and tier updates together
  NoKey         \* the hash does not exist

ASSUME BucketAssumptions ==
  /\ RedisProcs \subseteq Procs
  /\ ProcOf \in [RateCalls -> Procs]
  /\ TierConfigs \subseteq [capacity : Nat, rate : Nat]
  /\ Amounts \subseteq Nat
  /\ TTL \in Nat /\ MaxTime \in Nat /\ MaxUpdates \in Nat
  \* 3600 s refill every default configuration completely
  /\ \A c \in TierConfigs : c.rate * TTL >= c.capacity

VARIABLES
  clock,      \* time.time()
  buckets,    \* buckets[p]: bucket objects made by p, the last one in tenant_buckets
  hash,       \* the tenant's hash in Redis
  rateCall,   \* where each call is, and what it sent
  deleting,   \* processes whose reset waits for its DELETE
  updates     \* resets and tier updates so far

bucketVars == <<clock, buckets, hash, rateCall, deleting, updates>>

Idle == [stage |-> "idle"]

(* A bucket and the hash carry two history fields: when they were created or
   reset, and how many tokens they granted since.  The hash also has the
   configurations that scripts were run with. *)
NewBucket(c) ==
  [conf |-> c, tokens |-> c.capacity, last |-> clock, born |-> clock, granted |-> 0]

BucketTypeOK ==
  /\ clock \in 0..MaxTime
  /\ \A p \in Procs : \A i \in DOMAIN buckets[p] :
       /\ buckets[p][i].conf \in TierConfigs
       /\ buckets[p][i].tokens \in 0..buckets[p][i].conf.capacity
       /\ buckets[p][i].last \in 0..clock /\ buckets[p][i].granted \in Nat
  /\ hash # NoKey => hash.tokens \in Int /\ hash.last \in 0..clock /\ hash.granted \in Nat
  /\ \A c \in RateCalls : rateCall[c].stage \in {"idle", "sent", "local"}
  /\ deleting \subseteq RedisProcs
  /\ updates \in 0..MaxUpdates

BucketInit ==
  /\ clock = 0
  /\ buckets = [p \in Procs |-> <<>>]
  /\ hash = NoKey
  /\ rateCall = [c \in RateCalls |-> Idle]
  /\ deleting = {}
  /\ updates = 0

AtMost(a, b) == IF a < b THEN a ELSE b

-----------------------------------------------------------------------------
(* get_or_create_bucket: the tier counts only when the tenant is new to p. *)
WithBucket(p, conf) ==
  IF buckets[p] = <<>> THEN <<NewBucket(conf)>> ELSE buckets[p]

(* check_rate_limit up to the call of eval, with the time it sends. *)
CheckRateLimit(c, conf, n) ==
  LET p == ProcOf[c]
      bs == WithBucket(p, conf)
  IN  /\ rateCall[c] = Idle
      /\ buckets' = [buckets EXCEPT ![p] = bs]
      /\ rateCall' = [rateCall EXCEPT ![c] =
           [stage |-> IF p \in RedisProcs THEN "sent" ELSE "local",
            bucket |-> Len(bs), amount |-> n, time |-> clock]]
      /\ UNCHANGED <<clock, hash, deleting, updates>>

\* Seeded fault: the refill is not limited to the capacity.
Refilled_Unlimited(tokens, last, time, conf) == tokens + (time - last) * conf.rate

\* _refill_tokens, and the first half of the script
Refilled(tokens, last, time, conf) ==
  AtMost(conf.capacity, tokens + (time - last) * conf.rate)

(* The Lua script: the hash after call c.  The elapsed time is negative when a
   call that read the clock later was run first. *)
HashAfter(c) ==
  LET conf == buckets[ProcOf[c]][rateCall[c].bucket].conf
      time == rateCall[c].time
      old == IF hash = NoKey
             THEN [tokens |-> conf.capacity, last |-> time, born |-> time,
                   granted |-> 0, confs |-> {}]
             ELSE hash
      new == Refilled(old.tokens, old.last, time, conf)
      n == IF new >= rateCall[c].amount THEN rateCall[c].amount ELSE 0
  IN  [old EXCEPT !.tokens = new - n, !.last = time,
                  !.granted = @ + n, !.confs = @ \cup {conf}]

(* The script runs and its answer arrives, ... *)
EvalReturns(c) ==
  /\ rateCall[c].stage = "sent"
  /\ hash' = HashAfter(c)
  /\ rateCall' = [rateCall EXCEPT ![c] = Idle]
  /\ UNCHANGED <<clock, buckets, deleting, updates>>

(* ... or eval raises, before or after the script ran. *)
EvalRaises(c) ==
  /\ rateCall[c].stage = "sent"
  /\ hash' \in {hash, HashAfter(c)}
  /\ rateCall' = [rateCall EXCEPT ![c].stage = "local"]
  /\ UNCHANGED <<clock, buckets, deleting, updates>>

(* _consume_local, on the bucket object the call began with *)
ConsumeLocal(c) ==
  LET p == ProcOf[c]
      i == rateCall[c].bucket
      b == buckets[p][i]
      new == Refilled(b.tokens, b.last, clock, b.conf)
      n == IF new >= rateCall[c].amount THEN rateCall[c].amount ELSE 0
  IN  /\ rateCall[c].stage = "local"
      /\ buckets' = [buckets EXCEPT ![p][i] =
           [b EXCEPT !.tokens = new - n, !.last = clock, !.granted = @ + n]]
      /\ rateCall' = [rateCall EXCEPT ![c] = Idle]
      /\ UNCHANGED <<clock, hash, deleting, updates>>

(* get_state, from get_tenant_metrics *)
GetState(p) ==
  LET i == Len(buckets[p])
      b == buckets[p][i]
  IN  /\ buckets[p] # <<>>
      /\ buckets' = [buckets EXCEPT ![p][i] =
           [b EXCEPT !.tokens = Refilled(b.tokens, b.last, clock, b.conf), !.last = clock]]
      /\ UNCHANGED <<clock, hash, rateCall, deleting, updates>>

(* reset_tenant_bucket: the local bucket at once, the hash when the DELETE runs,
   unless that fails. *)
ResetBucket(p) ==
  /\ buckets[p] # <<>> /\ p \notin deleting /\ updates < MaxUpdates
  /\ updates' = updates + 1
  /\ buckets' = [buckets EXCEPT ![p][Len(buckets[p])] = NewBucket(@.conf)]
  /\ deleting' = IF p \in RedisProcs THEN deleting \cup {p} ELSE deleting
  /\ UNCHANGED <<clock, hash, rateCall>>

DeleteEnds(p) ==
  /\ p \in deleting
  /\ hash' \in {hash, NoKey}
  /\ deleting' = deleting \ {p}
  /\ UNCHANGED <<clock, buckets, rateCall, updates>>

(* update_tenant_tier: a new, full bucket object; the hash keeps its tokens. *)
UpdateTenantTier(p, conf) ==
  /\ updates < MaxUpdates
  /\ updates' = updates + 1
  /\ buckets' = [buckets EXCEPT ![p] = Append(@, NewBucket(conf))]
  /\ UNCHANGED <<clock, hash, rateCall, deleting>>

Tick ==
  /\ clock < MaxTime
  /\ clock' = clock + 1
  /\ UNCHANGED <<buckets, hash, rateCall, deleting, updates>>

(* Redis drops the hash TTL after the last script; external. *)
Expire ==
  /\ hash # NoKey /\ hash.last + TTL <= clock
  /\ hash' = NoKey
  /\ UNCHANGED <<clock, buckets, rateCall, deleting, updates>>

BucketNext ==
  \/ \E c \in RateCalls :
       \/ \E conf \in TierConfigs, n \in Amounts : CheckRateLimit(c, conf, n)
       \/ EvalReturns(c) \/ EvalRaises(c) \/ ConsumeLocal(c)
  \/ \E p \in Procs :
       \/ GetState(p) \/ ResetBucket(p) \/ DeleteEnds(p)
       \/ \E conf \in TierConfigs : UpdateTenantTier(p, conf)
  \/ Tick \/ Expire

BucketSpec == BucketInit /\ [][BucketNext]_bucketVars

-----------------------------------------------------------------------------
\* b never granted more than its capacity and what it was refilled since it began
WithinRate(b, conf) == b.granted <= conf.capacity + conf.rate * (clock - b.born)

(* A bucket object never grants more than its capacity plus its rate times its
   age.  The same holds of the hash the processes share, whatever the order in
   which their scripts run and whatever answers are lost, as long as all of
   them run with one configuration (after update_tenant_tier in one process the
   others keep the old one). *)
GrantsWithinRate ==
  /\ BucketTypeOK
  /\ \A p \in Procs : \A i \in DOMAIN buckets[p] :
       WithinRate(buckets[p][i], buckets[p][i].conf)
  /\ hash # NoKey =>
       \A conf \in hash.confs : hash.confs = {conf} => WithinRate(hash, conf)
=============================================================================
