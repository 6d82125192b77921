---------------------------- MODULE FairScheduler ----------------------------
(***************************************************************************)
(* libs/security/fairness_middleware.py: FairnessMiddleware in front of    *)
(* PreAdmissionControl and WeightedFairScheduler.  No method suspends      *)
(* (they await only one another), so each public call is one action.       *)
(*                                                                         *)
(* Weights are whole numbers and processing times are counted in units, so *)
(* virtual times are compared as fractions.  Load figures are percentages. *)
(* Counters that only reports read are left out.                           *)
(***************************************************************************)
EXTENDS Integers, Sequences, FiniteSets, FiniteSetsExt

CONSTANTS
  FairTenants,
  FairRequests,     \* request ids, each submitted once
  FairTenantOf,     \* the tenant_id a request is submitted with
  TenantConfigs,    \* what set_tenant_config may be given: tier, priority, maxConcurrent
  MetaTiers,        \* values of request_metadata["tenant_tier"]
  SystemMetrics,    \* what process_request may be given: load, cpu, memory, queue
  ThresholdChoices, \* what update_thresholds may set: load, cpu, memory, queue
  ProcessingTimes,  \* what complete_request may be given
  Workers,          \* bound on get_next_request calls not completed yet
  NoConfig          \* the tenant is not in tenant_weights

Levels == {"normal", "light", "moderate", "heavy"}
Tiers == {"free", "standard", "premium", "enterprise"}

ASSUME FairAssumptions ==
  /\ FairTenantOf \in [FairRequests -> FairTenants]
  /\ NoConfig \notin TenantConfigs
  /\ \A c \in TenantConfigs : c.tier \in Tiers
  /\ ProcessingTimes \subseteq Nat
  /\ \E most \in ProcessingTimes \cup {0} : \A time \in ProcessingTimes : most >= time
  /\ Workers \in Nat \ {0}

VARIABLES
  tenantWeights,  \* scheduler.tenant_weights
  tenantQueues,   \* scheduler.tenant_queues
  activeRequests, \* scheduler.active_requests, over all tenants
  processingTime, \* tenant_stats[t]["total_processing_time"]
  switches,       \* degradation_switches: level of the requests that have one
  thresholds,     \* admission_control thresholds
  fresh,          \* requests not submitted yet
  lead            \* history: lead[u][t] is processingTime[t] when the queue of u
                  \* last became non-empty or a weight last changed

fairVars == <<tenantWeights, tenantQueues, activeRequests, processingTime, switches,
              thresholds, fresh, lead>>

\* tier_weights of set_tenant_config
Weight(tier) ==
  CASE tier = "free" -> 1 [] tier = "standard" -> 2
    [] tier = "premium" -> 4 [] tier = "enterprise" -> 8

Queued == {t \in FairTenants : tenantQueues[t] # <<>>}
ActiveOf(t) == {r \in activeRequests : FairTenantOf[r] = t}

FairTypeOK ==
  /\ tenantWeights \in [FairTenants -> TenantConfigs \cup {NoConfig}]
  /\ tenantQueues \in [FairTenants -> Seq(FairRequests)]
  /\ activeRequests \subseteq FairRequests
  /\ processingTime \in [FairTenants -> Nat]
  /\ DOMAIN switches \subseteq FairRequests
  /\ \A r \in DOMAIN switches : switches[r] \in Levels
  /\ thresholds \in ThresholdChoices
  /\ fresh \subseteq FairRequests
  /\ lead \in [FairTenants -> [FairTenants -> Nat]]

FairInit ==
  /\ tenantWeights = [t \in FairTenants |-> NoConfig]
  /\ tenantQueues = [t \in FairTenants |-> <<>>]
  /\ activeRequests = {}
  /\ processingTime = [t \in FairTenants |-> 0]
  /\ switches = <<>>
  /\ thresholds \in ThresholdChoices
  /\ fresh = FairRequests
  /\ lead = [u \in FairTenants |-> [t \in FairTenants |-> 0]]

-----------------------------------------------------------------------------
(* PreAdmissionControl.check_admission.  Memory never gives "moderate": both
   comparisons of it use 95. *)
LoadLevel(m) ==
  CASE ~(m.load > thresholds.load \/ m.cpu > thresholds.cpu \/ m.memory > thresholds.memory)
         -> "normal"
    [] m.load > 95 \/ m.cpu > 95 \/ m.memory > 95 -> "heavy"
    [] m.load > 90 \/ m.cpu > 90 -> "moderate"
    [] OTHER -> "light"

DegradationLevel(m) ==
  LET l == LoadLevel(m)
  IN  IF m.queue <= thresholds.queue THEN l
      ELSE CASE l = "normal" -> "light" [] l = "light" -> "moderate" [] OTHER -> l

ShouldAdmit(m, tier) ==
  /\ DegradationLevel(m) = "heavy" => tier \notin {"free", "standard"}
  /\ 2 * m.queue <= 3 * thresholds.queue

(* update_thresholds *)
UpdateThresholds(th) ==
  /\ thresholds' = th
  /\ UNCHANGED <<tenantWeights, tenantQueues, activeRequests, processingTime,
                 switches, fresh, lead>>

(* set_tenant_config, set_tenant_weight *)
SetTenantConfig(t, c) ==
  /\ tenantWeights' = [tenantWeights EXCEPT ![t] = c]
  /\ lead' = [u \in FairTenants |-> processingTime]
  /\ UNCHANGED <<tenantQueues, activeRequests, processingTime, switches, thresholds, fresh>>

-----------------------------------------------------------------------------
\* enqueue_request succeeds: only the active requests count against the limit.
HasRoom(t) ==
  /\ tenantWeights[t] # NoConfig
  /\ Cardinality(ActiveOf(t)) < tenantWeights[t].maxConcurrent

(* process_request, rejected by admission control or by enqueue_request *)
RejectRequest(r, m, tier) ==
  /\ r \in fresh
  /\ ~(ShouldAdmit(m, tier) /\ HasRoom(FairTenantOf[r]))
  /\ fresh' = fresh \ {r}
  /\ UNCHANGED <<tenantWeights, tenantQueues, activeRequests, processingTime,
                 switches, thresholds, lead>>

(* process_request, admitted and enqueued *)
AdmitRequest(r, m, tier) ==
  LET t == FairTenantOf[r]
      l == DegradationLevel(m)
  IN  /\ r \in fresh /\ ShouldAdmit(m, tier) /\ HasRoom(t)
      /\ fresh' = fresh \ {r}
      /\ tenantQueues' = [tenantQueues EXCEPT ![t] = Append(@, r)]
      /\ switches' = [x \in DOMAIN switches \cup (IF l = "normal" THEN {} ELSE {r}) |->
                        IF x = r THEN l ELSE switches[x]]
      /\ lead' = IF tenantQueues[t] = <<>>
                 THEN [lead EXCEPT ![t] = processingTime] ELSE lead
      /\ UNCHANGED <<tenantWeights, activeRequests, processingTime, thresholds>>

-----------------------------------------------------------------------------
W(t) == Weight(tenantWeights[t].tier)

\* virtual time of t below that of u; a tie goes to the smaller priority number
Before(t, u) == processingTime[t] * W(u) < processingTime[u] * W(t)
SameTime(t, u) == processingTime[t] * W(u) = processingTime[u] * W(t)

\* Seeded fault: priority decides first, virtual time only among equals.
Preferred_ByPriority(t) ==
  \A u \in Queued :
    \/ tenantWeights[t].priority < tenantWeights[u].priority
    \/ tenantWeights[t].priority = tenantWeights[u].priority /\ ~Before(u, t)

(* The choice of dequeue_request.  Tenants that tie in both are taken in the
   order of the dictionary, which is left open here. *)
Preferred(t) ==
  \A u \in Queued :
    \/ Before(t, u)
    \/ SameTime(t, u) /\ tenantWeights[t].priority <= tenantWeights[u].priority

Without(f, x) == [y \in DOMAIN f \ {x} |-> f[y]]

(* get_next_request: dequeue_request, then the degradation switch is taken.
   Nothing is queued for a tenant without a configuration. *)
GetNextRequest(t) ==
  /\ Cardinality(activeRequests) < Workers
  /\ t \in Queued /\ Preferred(t)
  /\ LET r == Head(tenantQueues[t])
     IN  /\ activeRequests' = activeRequests \cup {r}
         /\ switches' = Without(switches, r)
  /\ tenantQueues' = [tenantQueues EXCEPT ![t] = Tail(@)]
  /\ UNCHANGED <<tenantWeights, processingTime, thresholds, fresh, lead>>

(* complete_request of a request that is active *)
CompleteRequest(r, time) ==
  LET t == FairTenantOf[r]
  IN  /\ r \in activeRequests
      /\ activeRequests' = activeRequests \ {r}
      /\ processingTime' = [processingTime EXCEPT ![t] = @ + time]
      /\ switches' = Without(switches, r)
      /\ UNCHANGED <<tenantWeights, tenantQueues, thresholds, fresh, lead>>

FairNext ==
  \/ \E th \in ThresholdChoices \ {thresholds} : UpdateThresholds(th)
  \/ \E t \in FairTenants, c \in TenantConfigs : SetTenantConfig(t, c)
  \/ \E r \in FairRequests, m \in SystemMetrics, tier \in MetaTiers :
       AdmitRequest(r, m, tier) \/ RejectRequest(r, m, tier)
  \/ \E t \in FairTenants : GetNextRequest(t)
  \/ \E r \in FairRequests, time \in ProcessingTimes : CompleteRequest(r, time)

FairSpec == FairInit /\ [][FairNext]_fairVars

-----------------------------------------------------------------------------
LongestTime == Max(ProcessingTimes \cup {0})

(* Weighted fairness: while u has a request waiting, the virtual time of another
   tenant t exceeds the larger of u's own and the one t had when u began to wait
   by at most what the workers can have had in hand, although time is charged
   only at completion.  (Multiplied out; lead restarts when weights change.) *)
BoundedLag ==
  /\ FairTypeOK
  /\ \A u \in Queued : \A t \in FairTenants \ {u} :
       tenantWeights[t] # NoConfig =>
         LET slack == (Workers - Cardinality(ActiveOf(t))) * LongestTime
         IN  \/ processingTime[t] <= lead[u][t] + slack
             \/ processingTime[t] * W(u) <= processingTime[u] * W(t) + slack * W(u)
=============================================================================
