-------------------------- MODULE ConcurrencyTokens --------------------------
(***************************************************************************)
(* libs/security/concurrency_tokens.py: one ConcurrencyTokenPool and the   *)
(* ConcurrencyManager in front of it, which charges tokens to tenants.     *)
(* The pools of the four resource types share no state, so one is enough.  *)
(*                                                                         *)
(* Everything except waiting for a future runs without suspending, so each *)
(* public call is one action; a request that has to wait is an action when *)
(* it queues, one when its future is resolved or times out, and one when   *)
(* its task resumes.                                                       *)
(***************************************************************************)
EXTENDS Integers, Sequences, FiniteSets

CONSTANTS
  Tokens,     \* the token ids of the pool
  Requests,   \* clients, each using at most one token at a time
  Tenants,
  TenantOf,   \* TenantOf[r]: the tenant_id request r passes
  Limits,     \* values of max_concurrent_... that set_tenant_limits may get
  Nobody,     \* no request
  NoLimit     \* the tenant is not in tenant_limits

ASSUME TokenAssumptions ==
  /\ IsFiniteSet(Tokens)
  /\ TenantOf \in [Requests -> Tenants]
  /\ Limits \subseteq Nat
  /\ Nobody \notin Requests
  /\ NoLimit \notin Limits

VARIABLES
  available,     \* pool.available_tokens
  acquired,      \* pool.acquired_tokens: the request a token was issued to
  expiring,      \* the acquired tokens that have an expires_at
  waiting,       \* pool.waiting_requests: futures, oldest first
  pc,            \* where each request is
  token,         \* token[r]: the token object r has, its id and tenant_id
  tenantTokens,  \* manager.tenant_tokens
  limit,         \* manager.tenant_limits
  revoked        \* history: holders whose token was taken back from them

pool == <<available, acquired, expiring, waiting>>
tokenVars == <<pool, pc, token, tenantTokens, limit, revoked>>

NoToken == [id |-> Nobody, tenant |-> Nobody]
TokenObjects == [id : Tokens, tenant : Tenants] \cup {NoToken}

(* idle: no call; waiting: future pending and queued; expired: the timeout has
   cancelled the future, the task has not resumed; granted: the future has a
   result, the task has not resumed; held: acquire_token returned a token. *)
TokensTypeOK ==
  /\ available \subseteq Tokens
  /\ acquired \in [Tokens -> Requests \cup {Nobody}]
  /\ expiring \subseteq Tokens
  /\ waiting \in Seq(Requests)
  /\ pc \in [Requests -> {"idle", "waiting", "expired", "granted", "held"}]
  /\ token \in [Requests -> TokenObjects]
  /\ tenantTokens \in [Tenants -> SUBSET Tokens]
  /\ limit \in [Tenants -> Limits \cup {NoLimit}]
  /\ revoked \subseteq Requests

TokensInit ==
  /\ available = Tokens
  /\ acquired = [k \in Tokens |-> Nobody]
  /\ expiring = {}
  /\ waiting = <<>>
  /\ pc = [r \in Requests |-> "idle"]
  /\ token = [r \in Requests |-> NoToken]
  /\ tenantTokens = [t \in Tenants |-> {}]
  /\ limit = [t \in Tenants |-> NoLimit]
  /\ revoked = {}

-----------------------------------------------------------------------------
\* Seeded fault: the limit check admits one token too many.
CheckTenantLimits_OffByOne(t) ==
  limit[t] # NoLimit => Cardinality(tenantTokens[t]) <= limit[t]

(* _check_tenant_limits *)
CheckTenantLimits(t) ==
  limit[t] # NoLimit => Cardinality(tenantTokens[t]) < limit[t]

Elems(q) == {q[i] : i \in DOMAIN q}

(* ConcurrencyTokenPool.release_token, once per token of the sequence q of
   acquired tokens.  Each release pops the oldest future, and resolves it if it
   is not done, with a token object of the same id and of the tenant_id that is
   in the token being released.  The token stays available all the same. *)
Popped(q) == 1..(IF Len(q) < Len(waiting) THEN Len(q) ELSE Len(waiting))
Served(q) == {i \in Popped(q) : pc[waiting[i]] = "waiting"}

\* Seeded fault: a token handed over is taken out of the available set, and not
\* entered among the acquired ones either.
ReleaseInPool_HandsOver(q) ==
  /\ available' = available \cup (Elems(q) \ {q[i] : i \in Served(q)})
  /\ acquired' = [k \in Tokens |-> IF k \in Elems(q) THEN Nobody ELSE acquired[k]]
  /\ expiring' = expiring \ Elems(q)
  /\ waiting' = SubSeq(waiting, Cardinality(Popped(q)) + 1, Len(waiting))

ReleaseInPool(q) ==
  /\ available' = available \cup Elems(q)
  /\ acquired' = [k \in Tokens |-> IF k \in Elems(q) THEN Nobody ELSE acquired[k]]
  /\ expiring' = expiring \ Elems(q)
  /\ waiting' = SubSeq(waiting, Cardinality(Popped(q)) + 1, Len(waiting))

\* pc and token after the futures that q's releases resolve are resolved.
PcAfter(q) ==
  [r \in Requests |-> IF \E i \in Served(q) : waiting[i] = r THEN "granted" ELSE pc[r]]

TokenAfter(q) ==
  [r \in Requests |->
     IF \E i \in Served(q) : waiting[i] = r
     THEN LET k == q[CHOOSE i \in Served(q) : waiting[i] = r]
          IN  [id |-> k, tenant |-> TenantOf[acquired[k]]]
     ELSE token[r]]

-----------------------------------------------------------------------------
(* set_tenant_limits *)
SetTenantLimits(t, n) ==
  /\ limit' = [limit EXCEPT ![t] = n]
  /\ UNCHANGED <<pool, pc, token, tenantTokens, revoked>>

(* acquire_token with a token at hand: checked, issued and charged at once. *)
AcquireToken(r, k, exp) ==
  LET t == TenantOf[r] IN
  /\ pc[r] = "idle"
  /\ CheckTenantLimits(t)
  /\ k \in available
  /\ available' = available \ {k}
  /\ acquired' = [acquired EXCEPT ![k] = r]
  /\ expiring' = IF exp THEN expiring \cup {k} ELSE expiring
  /\ pc' = [pc EXCEPT ![r] = "held"]
  /\ token' = [token EXCEPT ![r] = [id |-> k, tenant |-> t]]
  /\ tenantTokens' = [tenantTokens EXCEPT ![t] = @ \cup {k}]
  /\ revoked' = revoked \ {r}
  /\ UNCHANGED <<waiting, limit>>

(* acquire_token with none at hand and a timeout: queue a future.  (Without a
   timeout, or over the limit, the call returns None and changes nothing.) *)
WaitForToken(r) ==
  /\ pc[r] = "idle"
  /\ CheckTenantLimits(TenantOf[r])
  /\ available = {}
  /\ waiting' = Append(waiting, r)
  /\ pc' = [pc EXCEPT ![r] = "waiting"]
  /\ revoked' = revoked \ {r}
  /\ UNCHANGED <<available, acquired, expiring, token, tenantTokens, limit>>

(* wait_for gives up: the future is cancelled and stays queued until the task
   resumes. *)
WaitTimesOut(r) ==
  /\ pc[r] = "waiting"
  /\ pc' = [pc EXCEPT ![r] = "expired"]
  /\ UNCHANGED <<pool, token, tenantTokens, limit, revoked>>

\* q without its i-th element.
RemoveAt(q, i) == SubSeq(q, 1, i - 1) \o SubSeq(q, i + 1, Len(q))

(* The task resumes with TimeoutError; the finally block dequeues the future,
   unless a release has popped it in the meantime. *)
ResumeTimedOut(r) ==
  /\ pc[r] = "expired"
  /\ pc' = [pc EXCEPT ![r] = "idle"]
  /\ \/ \E i \in DOMAIN waiting : waiting[i] = r /\ waiting' = RemoveAt(waiting, i)
     \/ r \notin Elems(waiting) /\ UNCHANGED waiting
  /\ UNCHANGED <<available, acquired, expiring, token, tenantTokens, limit, revoked>>

\* Seeded fault: the result never reaches the waiting task.
ResumeGranted_Lost(r) ==
  /\ pc[r] = "granted"
  /\ UNCHANGED tokenVars

(* The task resumes with a token object; the manager charges its own tenant. *)
ResumeGranted(r) ==
  /\ pc[r] = "granted"
  /\ pc' = [pc EXCEPT ![r] = "held"]
  /\ tenantTokens' = [tenantTokens EXCEPT ![TenantOf[r]] = @ \cup {token[r].id}]
  /\ UNCHANGED <<pool, token, limit, revoked>>

(* ConcurrencyManager.release_token: the pool goes by the id alone, the manager
   by the tenant written in the token object.  If the id is not acquired the
   call returns False and changes nothing. *)
ReleaseToken(r) ==
  LET k == token[r].id IN
  /\ pc[r] = "held"
  /\ \/ /\ acquired[k] = Nobody
        /\ pc' = [pc EXCEPT ![r] = "idle"]
        /\ token' = [token EXCEPT ![r] = NoToken]
        /\ UNCHANGED <<pool, tenantTokens>>
     \/ /\ acquired[k] # Nobody
        /\ ReleaseInPool(<<k>>)
        /\ pc' = [PcAfter(<<k>>) EXCEPT ![r] = "idle"]
        /\ token' = [TokenAfter(<<k>>) EXCEPT ![r] = NoToken]
        /\ tenantTokens' = [tenantTokens EXCEPT ![token[r].tenant] = @ \ {k}]
  /\ UNCHANGED <<limit, revoked>>

(* One pass of _cleanup_expired_tokens: the pool takes the expired tokens back,
   in the order of the dict; the manager's tenant_tokens is not touched. *)
CleanupExpiredTokens(q) ==
  /\ q # <<>>
  /\ Elems(q) \subseteq expiring
  /\ ReleaseInPool(q)
  /\ pc' = PcAfter(q)
  /\ token' = TokenAfter(q)
  /\ revoked' = revoked \cup {acquired[k] : k \in Elems(q)}
  /\ UNCHANGED <<tenantTokens, limit>>

(* force_release_tenant_tokens: release every token charged to the tenant that
   the pool knows as acquired, whoever acquired it. *)
ForceReleaseTenantTokens(t, q) ==
  /\ q # <<>>
  /\ Elems(q) = {k \in tenantTokens[t] : acquired[k] # Nobody}
  /\ ReleaseInPool(q)
  /\ pc' = PcAfter(q)
  /\ token' = TokenAfter(q)
  /\ revoked' = revoked \cup {acquired[k] : k \in Elems(q)}
  /\ tenantTokens' = [tenantTokens EXCEPT ![t] = @ \ Elems(q)]
  /\ UNCHANGED limit

\* The orders in which a loop may release a set of tokens.
Orders ==
  {q \in UNION {[1..n -> Tokens] : n \in 0..Cardinality(Tokens)} :
     \A i, j \in DOMAIN q : q[i] = q[j] => i = j}

TokensNext ==
  \/ \E t \in Tenants, n \in Limits : SetTenantLimits(t, n)
  \/ \E r \in Requests, k \in Tokens, exp \in BOOLEAN : AcquireToken(r, k, exp)
  \/ \E r \in Requests : WaitForToken(r)
  \/ \E r \in Requests : WaitTimesOut(r)
  \/ \E r \in Requests : ResumeTimedOut(r)
  \/ \E r \in Requests : ResumeGranted(r)
  \/ \E r \in Requests : ReleaseToken(r)
  \/ \E q \in Orders : CleanupExpiredTokens(q)
  \/ \E t \in Tenants, q \in Orders : ForceReleaseTenantTokens(t, q)

\* wait_for's timer fires and the event loop resumes every ready task.
TokensFairness ==
  \A r \in Requests :
    WF_tokenVars(WaitTimesOut(r)) /\ WF_tokenVars(ResumeTimedOut(r)) /\ WF_tokenVars(ResumeGranted(r))

TokensSpec == TokensInit /\ [][TokensNext]_tokenVars /\ TokensFairness

-----------------------------------------------------------------------------
(* Properties. *)

(* The pool never loses and never duplicates an id: what is not issued is
   available and conversely, through hand-overs, expiry, forced releases and
   releases of stale token objects. *)
PoolPartition == available = {k \in Tokens : acquired[k] = Nobody}

\* The tokens the pool has on record for tenant t.
AcquiredBy(t) == {k \in Tokens : acquired[k] # Nobody /\ TenantOf[acquired[k]] = t}

(* Every token the pool has issued is charged to the tenant it was issued to,
   so the limit check never undercounts them, although releases discard the
   charge of whatever tenant their token object names. *)
AcquiredIsCharged == \A t \in Tenants : AcquiredBy(t) \subseteq tenantTokens[t]

(* The pool issues a tenant a further token only within the tenant's limit at
   that moment, although waiting requests are charged without a second check
   and limits may be lowered. *)
IssuedWithinLimit ==
  [][\A t \in Tenants :
       /\ limit[t] # NoLimit
       /\ ~(AcquiredBy(t)' \subseteq AcquiredBy(t))
       => Cardinality(AcquiredBy(t)') <= limit[t]]_tokenVars

(* Every future is queued once, a pending one is always queued, and one that
   has a result never is: no waiter is skipped or served twice. *)
QueueMatchesWaiters ==
  /\ \A i, j \in DOMAIN waiting : waiting[i] = waiting[j] => i = j
  /\ \A r \in Requests :
       /\ pc[r] = "waiting" => \E i \in DOMAIN waiting : waiting[i] = r
       /\ pc[r] \in {"idle", "granted", "held"} =>
            ~ \E i \in DOMAIN waiting : waiting[i] = r

(* The pool, the charges and the waiting list account for every token and every
   waiter, in whatever order holders, waiters, timers and cleanups act. *)
TokensAccounted ==
  TokensTypeOK /\ PoolPartition /\ AcquiredIsCharged /\ QueueMatchesWaiters

(* A request that queues gets an answer: a token or a timeout. *)
WaitingEnds == \A r \in Requests : pc[r] = "waiting" ~> pc[r] \in {"held", "idle"}

(* _initialize_default_pools sizes a pool as so many "concurrent requests":
   not more requests than tokens hold one, not counting those whose token
   expired or was taken back. *)
HoldersWithinPool ==
  Cardinality({r \in Requests \ revoked : pc[r] = "held"}) <= Cardinality(Tokens)
=============================================================================
