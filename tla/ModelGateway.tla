----------------------------- MODULE ModelGateway -----------------------------
(***************************************************************************)
(* apps/data-plane/model-gateway/src (rate_limiter.py, circuit_breaker.py, *)
(* providers.py, main.py) and the chat adapters that call it               *)
(* (chat-adapters/src/message_processor.py): chat messages of several      *)
(* tenants, each one completion of the same model.  Nothing is awaited     *)
(* between the arrival of a request at the gateway and the call of the     *)
(* provider, so admission is one step.                                     *)
(*                                                                         *)
(* Providers and chat platforms are external: they answer or fail.  Prices *)
(* and texts are left out.  Time is in ticks of GatewayTick.               *)
(***************************************************************************)
EXTENDS Integers, Sequences, SequencesExt, FiniteSets

CONSTANTS
  Chats,          \* the messages, one request each
  ChatTenant,     \* ChatTenant[c]: tenant_id
  WindowSize,     \* window_size
  TenantRequests, \* requests_per_minute
  GlobalRequests, \* requests_per_minute * 10
  TokensMax, RefillRate, TokenCost,   \* of a tenant's bucket; estimated_tokens
  GwThreshold,    \* failure_threshold
  Recovery,       \* recovery_timeout
  LastTick        \* bound: the last tick

GwTenants == Range(ChatTenant)

ASSUME GatewayAssumptions ==
  /\ {WindowSize, TenantRequests, GlobalRequests, TokensMax, TokenCost, GwThreshold} \subseteq
       Nat \ {0}
  /\ {RefillRate, Recovery, LastTick} \subseteq Nat
  /\ DOMAIN ChatTenant = Chats /\ IsFiniteSet(Chats)

VARIABLES
  gwClock,
  globalWindow,   \* requests of global_request_limiter: times, oldest first
  tenantWindow,   \* requests of the tenants' request limiters
  gwBucket,         \* tokens and last_refill of the tenants' token limiters
  gwBreaker,        \* state, failure_count and last_failure_time
  chat,           \* of a message: "new", "limited", "refused", "calling", "completed", "failed"
  reply,          \* of a message, at the chat adapter: "none", "sent", "error"
  metered,        \* messages whose TokenMeteringEvent has been published
  granted,        \* history: when check_rate_limit said yes to a message, or -1
  lateSuccess     \* history: a success has arrived since the circuit opened

gatewayVars == <<gwClock, globalWindow, tenantWindow, gwBucket, gwBreaker, chat, reply, metered,
                 granted, lateSuccess>>

GatewayInit ==
  /\ gwClock = 0
  /\ globalWindow = <<>>
  /\ tenantWindow = [t \in GwTenants |-> <<>>]
  /\ gwBucket = [t \in GwTenants |-> [tokens |-> TokensMax, last |-> 0]]
  /\ gwBreaker = [state |-> "closed", failures |-> 0, last |-> 0]
  /\ chat = [c \in Chats |-> "new"]
  /\ reply = [c \in Chats |-> "none"]
  /\ metered = {}
  /\ granted = [c \in Chats |-> -1]
  /\ lateSuccess = FALSE

\* what the popleft loop leaves: it stops at the first request after the cutoff
LiveAfter(w, cutoff) ==
  LET popped == {i \in DOMAIN w : \A j \in 1 .. i : w[j] <= cutoff}
  IN  SubSeq(w, Cardinality(popped) + 1, Len(w))

\* is_allowed drops what has left the window before it counts
Live(w) == LiveAfter(w, gwClock - WindowSize)

\* Seeded fault: a request that leaves the window at this moment is dropped a tick early.
HasRoom_Early(w, limit) == Len(LiveAfter(w, gwClock - WindowSize + 1)) < limit

HasRoom(w, limit) == Len(Live(w)) < limit

\* ... and an allowed request is counted, whatever the later tests say
Counted(w, limit) == IF HasRoom(w, limit) THEN Append(Live(w), gwClock) ELSE Live(w)

Refill(b) ==
  LET sum == b.tokens + (gwClock - b.last) * RefillRate
  IN  IF sum > TokensMax THEN TokensMax ELSE sum

MayProbe == gwClock - gwBreaker.last >= Recovery

(* A chat message at the gateway: check_rate_limit, then the test in breaker.call *)
Request(c) ==
  LET t == ChatTenant[c]
      room == HasRoom(globalWindow, GlobalRequests)
      tenantRoom == room /\ HasRoom(tenantWindow[t], TenantRequests)
      enough == tenantRoom /\ Refill(gwBucket[t]) >= TokenCost
  IN  /\ chat[c] = "new"
      /\ globalWindow' = Counted(globalWindow, GlobalRequests)
      /\ tenantWindow' = IF room
                         THEN [tenantWindow EXCEPT ![t] = Counted(@, TenantRequests)]
                         ELSE tenantWindow
      /\ gwBucket' = IF tenantRoom
                     THEN [gwBucket EXCEPT ![t] =
                             [tokens |-> Refill(@) - IF enough THEN TokenCost ELSE 0,
                              last |-> gwClock]]
                     ELSE gwBucket
      /\ granted' = IF enough THEN [granted EXCEPT ![c] = gwClock] ELSE granted
      /\ \/ ~enough /\ chat' = [chat EXCEPT ![c] = "limited"] /\ UNCHANGED gwBreaker
         \/ /\ enough /\ gwBreaker.state = "open" /\ ~MayProbe
            /\ chat' = [chat EXCEPT ![c] = "refused"] /\ UNCHANGED gwBreaker
         \/ /\ enough
            /\ gwBreaker.state = "open" => MayProbe
            /\ chat' = [chat EXCEPT ![c] = "calling"]
            /\ gwBreaker' = [gwBreaker EXCEPT !.state = IF @ = "open" THEN "half_open" ELSE @]
      /\ reply' = IF chat'[c] = "calling" THEN reply ELSE [reply EXCEPT ![c] = "error"]
      /\ UNCHANGED <<gwClock, metered, lateSuccess>>

(* The provider answers: the breaker is told, and the metering event goes out with
   the response *)
Completes(c) ==
  /\ chat[c] = "calling"
  /\ gwBreaker' = [gwBreaker EXCEPT !.failures = 0,
                                !.state = IF @ = "half_open" THEN "closed" ELSE @]
  /\ lateSuccess' = (gwBreaker'.state = "open")
  /\ chat' = [chat EXCEPT ![c] = "completed"]
  /\ metered' = metered \cup {c}
  /\ UNCHANGED <<gwClock, globalWindow, tenantWindow, gwBucket, reply, granted>>

(* The provider fails: _record_failure *)
Fails(c) ==
  /\ chat[c] = "calling"
  /\ LET n == gwBreaker.failures + 1
     IN  /\ gwBreaker' = [state |-> IF n >= GwThreshold THEN "open" ELSE gwBreaker.state,
                        failures |-> n, last |-> gwClock]
         /\ lateSuccess' = (lateSuccess /\ n < GwThreshold)
  /\ chat' = [chat EXCEPT ![c] = "failed"]
  /\ reply' = [reply EXCEPT ![c] = "error"]
  /\ UNCHANGED <<gwClock, globalWindow, tenantWindow, gwBucket, metered, granted>>

(* _call_model_gateway gives up after its own timeout; the gateway goes on *)
ChatTimesOut(c) ==
  /\ chat[c] = "calling" /\ reply[c] = "none"
  /\ reply' = [reply EXCEPT ![c] = "error"]
  /\ UNCHANGED <<gwClock, globalWindow, tenantWindow, gwBucket, gwBreaker, chat, metered,
                 granted, lateSuccess>>

(* The completion reaches the chat adapter, which sends it to the platform *)
SendReply(c, ok) ==
  /\ chat[c] = "completed" /\ reply[c] = "none"
  /\ reply' = [reply EXCEPT ![c] = IF ok THEN "sent" ELSE "error"]
  /\ UNCHANGED <<gwClock, globalWindow, tenantWindow, gwBucket, gwBreaker, chat, metered,
                 granted, lateSuccess>>

GatewayTick ==
  /\ gwClock < LastTick
  /\ gwClock' = gwClock + 1
  /\ UNCHANGED <<globalWindow, tenantWindow, gwBucket, gwBreaker, chat, reply, metered, granted,
                 lateSuccess>>

GatewayNext ==
  \/ \E c \in Chats :
       \/ Request(c) \/ Completes(c) \/ Fails(c) \/ ChatTimesOut(c)
       \/ \E ok \in BOOLEAN : SendReply(c, ok)
  \/ GatewayTick

-----------------------------------------------------------------------------
Within(cs, x) == Cardinality({c \in cs : granted[c] > x - WindowSize /\ granted[c] <= x})

(* Whatever ticks the requests fall on, no WindowSize ticks hold more grants than the
   limits, and no tenant is granted more tokens than its bucket can have held.  The
   circuit is open or probed only after GwThreshold failures in a row, unless a success
   of a call begun earlier has arrived since: that resets the count and leaves the
   circuit open, so that its probe may fail without opening it again. *)
GatewayHolds ==
  /\ \A x \in 0 .. gwClock :
       /\ Within({c \in Chats : granted[c] >= 0}, x) <= GlobalRequests
       /\ \A t \in GwTenants :
            Within({c \in Chats : granted[c] >= 0 /\ ChatTenant[c] = t}, x) <= TenantRequests
  /\ \A t \in GwTenants :
       TokenCost * Cardinality({c \in Chats : granted[c] >= 0 /\ ChatTenant[c] = t})
         <= TokensMax + gwClock * RefillRate
  /\ gwBreaker.state = "closed" => gwBreaker.failures < GwThreshold
  /\ gwBreaker.state # "closed" /\ ~lateSuccess => gwBreaker.failures >= GwThreshold
=============================================================================
