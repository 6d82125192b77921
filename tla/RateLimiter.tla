----------------------------- MODULE RateLimiter -----------------------------
(* libs/clients/rate_limiter.py: the client rate limiter and the quota enforcer. *)
EXTENDS Integers, FiniteSets, FiniteSetsExt

-----------------------------------------------------------------------------
(***************************************************************************)
(* libs/clients/rate_limiter.py, TokenBucketRateLimiter: one key, asked by *)
(* several callers with the same limits.  now is read (in whole seconds)   *)
(* before the call to Redis, so scripts can run out of order.  Refills are *)
(* whole intervals, and every script moves last_refill to its now.         *)
(***************************************************************************)

CONSTANTS
  Askers,
  BucketCapacity, TokensPerInterval, Interval,
  LastSecond,     \* bound on the clock
  NoBucket        \* the key does not exist

ASSUME IntervalAssumptions ==
  /\ BucketCapacity \in Nat \ {0} /\ TokensPerInterval \in Nat \ {0}
  /\ Interval \in Nat \ {0} /\ LastSecond \in Nat

VARIABLES
  second,      \* int(time.time())
  key,         \* the hash: tokens, last; history: born, granted
  asked,       \* asked[a]: the now of a's call to Redis, -1 when it has none
  disordered   \* history: a script ran whose now was before last_refill

intervalVars == <<second, key, asked, disordered>>

IntervalInit ==
  /\ second = 0
  /\ key = NoBucket
  /\ asked = [a \in Askers |-> -1]
  /\ disordered = FALSE

\* Seeded fault: the part of an interval that has begun counts as a whole one.
TokensToAdd_RoundedUp(passed) ==
  ((passed + Interval - 1) \div Interval) * TokensPerInterval

\* math.floor(time_passed / interval) * tokens; \div rounds down as floor does
TokensToAdd(passed) == (passed \div Interval) * TokensPerInterval

(* is_allowed up to the call to Redis *)
Ask(a) ==
  /\ asked[a] = -1
  /\ asked' = [asked EXCEPT ![a] = second]
  /\ UNCHANGED <<second, key, disordered>>

(* The script.  What it answers is the answer of is_allowed. *)
RunScript(a) ==
  LET now == asked[a]
      old == IF key = NoBucket
             THEN [tokens |-> BucketCapacity, last |-> now, born |-> now,
                   granted |-> 0]
             ELSE key
      sum == old.tokens + TokensToAdd(now - old.last)
      current == IF sum < BucketCapacity THEN sum ELSE BucketCapacity
      allowed == current >= 1
      left == IF allowed THEN current - 1 ELSE current
  IN  /\ now # -1
      /\ key' = [old EXCEPT !.tokens = left, !.last = now,
                            !.granted = IF allowed THEN @ + 1 ELSE @]
      /\ disordered' = (disordered \/ now < old.last)
      /\ asked' = [asked EXCEPT ![a] = -1]
      /\ UNCHANGED second

(* Redis fails before the script runs: is_allowed answers True, uncounted. *)
FailOpen(a) ==
  /\ asked[a] # -1
  /\ asked' = [asked EXCEPT ![a] = -1]
  /\ UNCHANGED <<second, key, disordered>>

NextSecond ==
  /\ second < LastSecond
  /\ second' = second + 1
  /\ UNCHANGED <<key, asked, disordered>>

IntervalNext ==
  \/ \E a \in Askers : Ask(a) \/ RunScript(a) \/ FailOpen(a)
  \/ NextSecond

IntervalSpec == IntervalInit /\ [][IntervalNext]_intervalVars

-----------------------------------------------------------------------------
(* Whatever the order in which scripts run, the requests they allowed never
   exceed the capacity and the whole intervals since the first of them, and a
   bucket whose scripts ran in order never falls below zero (out of order, each
   step back takes a whole interval's tokens, and the way forward need not give
   them back). *)
RefillIsSound ==
  key # NoBucket =>
    /\ key.granted + key.tokens <= BucketCapacity + TokensToAdd(key.last - key.born)
    /\ key.granted <= BucketCapacity + TokensToAdd(second - key.born)
    /\ ~disordered => key.tokens \in 0..BucketCapacity

-----------------------------------------------------------------------------
(***************************************************************************)
(* libs/clients/rate_limiter.py, QuotaEnforcer: one tenant and one usage   *)
(* type.  A request calls check_quota, does its work, and then calls       *)
(* increment_usage; the two reads and the upsert are separate statements   *)
(* of separate sessions.                                                   *)
(*                                                                         *)
(* A plan that has rate_limits never reaches the rate limiter: the loop    *)
(* over the plan's entries subtracts from that entry, a dictionary, and    *)
(* the TypeError lets the request pass, as a plan without the entry does   *)
(* (jsonb keeps the entry behind the shorter names of the limits).         *)
(***************************************************************************)

CONSTANTS
  QuotaRequests,   \* requests under way at a time
  QuotaLimit,      \* the plan's limit
  UsageAmounts,    \* what a request may use
  MaxUsage         \* bound on the counter

ASSUME QuotaAssumptions ==
  /\ QuotaLimit \in Nat /\ MaxUsage \in Nat
  /\ UsageAmounts \subseteq Nat
  /\ \E most \in UsageAmounts : \A a \in UsageAmounts : most >= a
  /\ IsFiniteSet(QuotaRequests)

VARIABLES
  usage,   \* usage_counters of today
  quotaAt, \* where each request is
  unread   \* history: usage counted today by requests that could not read it

quotaVars == <<usage, quotaAt, unread>>

QuotaTypeOK ==
  /\ usage \in Nat /\ unread \in Nat
  /\ quotaAt \in [QuotaRequests -> {"idle", "planned", "working", "blind"}]

QuotaInit ==
  /\ usage = 0 /\ unread = 0
  /\ quotaAt = [r \in QuotaRequests |-> "idle"]

(* _get_plan_quotas: no row, or a failure, refuses the request *)
GetPlanQuotas(r) ==
  /\ quotaAt[r] = "idle"
  /\ \E to \in {"idle", "planned"} : quotaAt' = [quotaAt EXCEPT ![r] = to]
  /\ UNCHANGED <<usage, unread>>

\* Seeded fault: a counter at its limit still passes.
WithinQuota_OffByOne(current) == current <= QuotaLimit

\* the loop of check_quota
WithinQuota(current) == current < QuotaLimit

(* _get_current_usage and the rest of check_quota *)
CheckQuota(r) ==
  /\ quotaAt[r] = "planned"
  /\ quotaAt' = [quotaAt EXCEPT ![r] = IF WithinQuota(usage) THEN "working" ELSE "idle"]
  /\ UNCHANGED <<usage, unread>>

(* ... when the counter cannot be read: it counts as zero *)
CheckQuotaBlind(r) ==
  /\ quotaAt[r] = "planned"
  /\ quotaAt' = [quotaAt EXCEPT ![r] = IF WithinQuota(0) THEN "blind" ELSE "idle"]
  /\ UNCHANGED <<usage, unread>>

(* increment_usage: one upsert *)
IncrementUsage(r, a) ==
  /\ quotaAt[r] \in {"working", "blind"}
  /\ usage + a <= MaxUsage
  /\ usage' = usage + a
  /\ unread' = IF quotaAt[r] = "blind" THEN unread + a ELSE unread
  /\ quotaAt' = [quotaAt EXCEPT ![r] = "idle"]

(* increment_usage fails, or the request does *)
IncrementLost(r) ==
  /\ quotaAt[r] \in {"working", "blind"}
  /\ quotaAt' = [quotaAt EXCEPT ![r] = "idle"]
  /\ UNCHANGED <<usage, unread>>

(* date.today() changes; requests under way are counted on the new day *)
NextDay ==
  /\ usage' = 0 /\ unread' = 0
  /\ UNCHANGED quotaAt

QuotaNext ==
  \/ \E r \in QuotaRequests :
       \/ GetPlanQuotas(r) \/ CheckQuota(r) \/ CheckQuotaBlind(r) \/ IncrementLost(r)
       \/ \E a \in UsageAmounts : IncrementUsage(r, a)
  \/ NextDay

QuotaSpec == QuotaInit /\ [][QuotaNext]_quotaVars

-----------------------------------------------------------------------------
(* The limit is checked before the work and counted after it, by requests that
   run together: the overrun of a day is less than what those under way can
   have passed the check with, apart from what was used by requests that could
   not read the counter.  With a limit of zero nothing is used at all. *)
OverrunWithinConcurrency ==
  /\ QuotaTypeOK
  /\ usage > 0 => usage < QuotaLimit + Cardinality(QuotaRequests) * Max(UsageAmounts) + unread

=============================================================================
