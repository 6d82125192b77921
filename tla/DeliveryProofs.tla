---------------------------- MODULE DeliveryProofs ----------------------------
(***************************************************************************)
(* Theorems about what is handed over to other tasks and processes, for    *)
(* any constants, in the composition that the run Delivery checks.         *)
(***************************************************************************)
EXTENDS MCDelivery, SequenceTheorems, FiniteSetTheorems, TLAPS

Deliveries == BusMessages \X Nat

BusTypeOK ==
  /\ viaBus \in BOOLEAN
  /\ place \in [BusMessages -> {"absent", "ready", "held", "removed"}]
  /\ delivered \in [BusMessages -> Nat]
  /\ batch \in [BusWorkers -> Seq(Deliveries)]
  /\ stage \in [BusWorkers -> {"handle", "deadletter", "acknowledge"}]
  /\ crashes \in Nat

\* m may leave the stream.
Replaced(m) == m[2] < MaxGeneration /\ place[DeadLetter(m)] # "absent"
Excused(m) == m \in handled \cup unsent \/ (m \in swallowed /\ viaBus) \/ Replaced(m)

\* Why a worker is past its handler: it may publish a dead letter, and has done so or
\* failed to before it acknowledges.
StagesExplained ==
  \A w \in BusWorkers :
    /\ stage[w] # "handle" => batch[w] # <<>>
    /\ stage[w] = "deadletter" => Current(w)[2] < MaxGeneration
    /\ stage[w] = "acknowledge" => Current(w) \in unsent \/ Replaced(Current(w))

RemovedAreExcused == \A m \in BusMessages : place[m] = "removed" => Excused(m)

\* Until a crash somebody has the last delivery of a message that is held.
LastIsInHand ==
  crashes = 0 =>
    \A m \in BusMessages :
      place[m] = "held" /\ delivered[m] = MaxDeliver =>
        \E w \in BusWorkers : <<m, MaxDeliver>> \in ToSet(batch[w])

(* What the steps preserve. *)
BusInv == BusTypeOK /\ StagesExplained /\ RemovedAreExcused /\ LastIsInHand

-----------------------------------------------------------------------------
(* The first of a batch is a delivery of a message, and what is left of the batch
   has all the others. *)
LEMMA FirstAndRest ==
  ASSUME NEW b \in Seq(Deliveries), b # <<>>
  PROVE  /\ Head(b) \in Deliveries /\ Head(b)[1] \in BusMessages /\ Head(b)[2] \in Nat
         /\ Head(b) = <<Head(b)[1], Head(b)[2]>>
         /\ Tail(b) \in Seq(Deliveries)
         /\ \A d \in ToSet(b) : d # Head(b) => d \in ToSet(Tail(b))
<1>1. Head(b) \in Deliveries /\ Tail(b) \in Seq(Deliveries) /\ Len(Tail(b)) = Len(b) - 1
      /\ \A i \in 1..Len(Tail(b)) : Tail(b)[i] = b[i + 1]
  BY HeadTailProperties
<1>2. Head(b)[1] \in BusMessages /\ Head(b)[2] \in Nat /\ Head(b) = <<Head(b)[1], Head(b)[2]>>
  BY <1>1 DEF Deliveries
<1>3. ASSUME NEW d \in ToSet(b), d # Head(b) PROVE d \in ToSet(Tail(b))
  <2>1. DOMAIN b = 1..Len(b) /\ DOMAIN Tail(b) = 1..Len(Tail(b)) /\ Len(b) \in Nat
    BY <1>1, LenProperties
  <2>2. PICK i \in 1..Len(b) : b[i] = d
    BY <2>1 DEF ToSet
  <2>3. Head(b) = b[1]
    OBVIOUS
  <2>4. i # 1
    BY <1>3, <2>2, <2>3
  <2>5. i - 1 \in 1..Len(Tail(b)) /\ (i - 1) + 1 = i
    BY <1>1, <2>1, <2>4
  <2>6. Tail(b)[i - 1] = d
    BY <1>1, <2>2, <2>5
  <2> QED BY <2>1, <2>5, <2>6 DEF ToSet
<1> QED BY <1>1, <1>2, <1>3

(* The dead letter of a message that may have one is a message. *)
LEMMA DeadLetterIsMessage ==
  ASSUME NEW m \in BusMessages, m[2] < MaxGeneration
  PROVE  DeadLetter(m) \in BusMessages
BY EventDeliveryAssumptions DEF BusMessages, DeadLetter

\* A step that takes no message and no history back.
Grows ==
  /\ viaBus' = viaBus
  /\ \A m \in BusMessages : place[m] # "absent" => place'[m] # "absent"
  /\ handled \subseteq handled' /\ swallowed \subseteq swallowed' /\ unsent \subseteq unsent'

(* A reason to leave the stream stays one. *)
LEMMA ReasonsStay ==
  ASSUME Grows, NEW m \in BusMessages
  PROVE  (Replaced(m) => Replaced(m)') /\ (Excused(m) => Excused(m)')
<1>1. Replaced(m) => Replaced(m)'
  BY DeadLetterIsMessage DEF Grows, Replaced, DeadLetter
<1> QED BY <1>1 DEF Grows, Excused

(* The worker that moves is back at its handler and the others stay where they are. *)
LEMMA StagesMove ==
  ASSUME BusTypeOK, StagesExplained, Grows, NEW w \in BusWorkers, stage'[w] = "handle",
         \A v \in BusWorkers : v # w => batch'[v] = batch[v] /\ stage'[v] = stage[v]
  PROVE  StagesExplained'
<1> SUFFICES ASSUME NEW v \in BusWorkers
             PROVE  /\ stage'[v] # "handle" => batch'[v] # <<>>
                    /\ stage'[v] = "deadletter" => Current(v)'[2] < MaxGeneration
                    /\ stage'[v] = "acknowledge" => Current(v)' \in unsent' \/ Replaced(Current(v))'
  BY DEF StagesExplained
<1>1. CASE v = w
  BY <1>1
<1>2. CASE v # w
  <2>1. batch'[v] = batch[v] /\ stage'[v] = stage[v] /\ Current(v)' = Current(v)
    BY <1>2 DEF Current
  <2>2. stage[v] # "handle" => Current(v) \in BusMessages
    BY FirstAndRest DEF StagesExplained, BusTypeOK, Current
  <2>3. stage[v] = "acknowledge" /\ Replaced(Current(v)) => Replaced(Current(v))'
    <3>1. ASSUME stage[v] = "acknowledge", Replaced(Current(v)) PROVE Replaced(Current(v))'
      <4>1. Current(v) \in BusMessages /\ Current(v)[2] < MaxGeneration
        BY <2>2, <3>1 DEF Replaced
      <4>2. DeadLetter(Current(v)) \in BusMessages
        BY <4>1, DeadLetterIsMessage
      <4> QED BY <2>1, <3>1, <4>2 DEF Grows, Replaced, DeadLetter
    <3> QED BY <3>1
  <2> QED BY <2>1, <2>3 DEF StagesExplained, Grows
<1> QED BY <1>1, <1>2

(* A worker is done with a delivery: the last one, only if the message leaves. *)
LEMMA LastMovesOn ==
  ASSUME BusTypeOK, LastIsInHand, NEW w \in BusWorkers, batch[w] # <<>>, NextMessage(w),
         UNCHANGED <<delivered, crashes>>,
         \A m \in BusMessages : place'[m] = "held" => place[m] = "held",
         place'[Current(w)] = "held" => NumDelivered(w) # MaxDeliver
  PROVE  LastIsInHand'
<1> SUFFICES ASSUME crashes = 0, NEW m \in BusMessages, place'[m] = "held", delivered[m] = MaxDeliver
             PROVE  \E v \in BusWorkers : <<m, MaxDeliver>> \in ToSet(batch'[v])
  BY DEF LastIsInHand
<1>1. PICK v \in BusWorkers : <<m, MaxDeliver>> \in ToSet(batch[v])
  BY DEF LastIsInHand
<1>2. batch' = [batch EXCEPT ![w] = Tail(@)] /\ batch \in [BusWorkers -> Seq(Deliveries)]
  BY DEF NextMessage, BusTypeOK
<1>3. CASE v # w
  BY <1>1, <1>2, <1>3
<1>4. CASE v = w
  <2>1. <<m, MaxDeliver>> # Head(batch[w])
    BY FirstAndRest, <1>2 DEF Current, NumDelivered
  <2>2. <<m, MaxDeliver>> \in ToSet(Tail(batch[w]))
    BY <1>1, <1>2, <1>4, <2>1, FirstAndRest
  <2> QED BY <1>2, <2>2
<1> QED BY <1>3, <1>4

(* A worker takes up the next delivery: everything is as it should be, provided that
   the message it leaves behind may be where it is now. *)
LEMMA MovesOn ==
  ASSUME BusInv, NEW w \in BusWorkers, batch[w] # <<>>, NextMessage(w), Grows,
         UNCHANGED <<delivered, crashes>>,
         place' \in [BusMessages -> {"absent", "ready", "held", "removed"}],
         \A m \in BusMessages : place'[m] = "held" => place[m] = "held",
         place'[Current(w)] = "held" => NumDelivered(w) # MaxDeliver,
         \A m \in BusMessages : place'[m] = "removed" => place[m] = "removed" \/ Excused(m)'
  PROVE  BusInv'
<1>0. BusTypeOK /\ StagesExplained /\ RemovedAreExcused /\ LastIsInHand
  BY DEF BusInv
<1>1. /\ batch' = [batch EXCEPT ![w] = Tail(@)] /\ batch' \in [BusWorkers -> Seq(Deliveries)]
      /\ stage' = [stage EXCEPT ![w] = "handle"]
  BY <1>0, FirstAndRest DEF BusTypeOK, NextMessage
<1>2. BusTypeOK'
  BY <1>0, <1>1 DEF BusTypeOK, Grows
<1>3. stage'[w] = "handle" /\ \A v \in BusWorkers : v # w => batch'[v] = batch[v] /\ stage'[v] = stage[v]
  BY <1>0, <1>1 DEF BusTypeOK
<1>4. StagesExplained'
  BY <1>0, <1>3, StagesMove
<1>5. RemovedAreExcused'
  BY <1>0, ReasonsStay DEF RemovedAreExcused
<1>6. LastIsInHand'
  BY <1>0, LastMovesOn
<1> QED BY <1>2, <1>4, <1>5, <1>6 DEF BusInv

(* A step that leaves the workers alone. *)
LEMMA StreamMoves ==
  ASSUME BusInv, Grows, UNCHANGED <<delivered, batch, crashes, stage>>,
         place' \in [BusMessages -> {"absent", "ready", "held", "removed"}],
         \A m \in BusMessages : place'[m] = "held" => place[m] = "held",
         \A m \in BusMessages : place'[m] = "removed" => place[m] = "removed"
  PROVE  BusInv'
<1>0. BusTypeOK /\ StagesExplained /\ RemovedAreExcused /\ LastIsInHand
  BY DEF BusInv
<1>1. BusTypeOK'
  BY <1>0 DEF BusTypeOK, Grows
<1>2. StagesExplained'
  <2> SUFFICES ASSUME NEW v \in BusWorkers
               PROVE  /\ stage[v] # "handle" => batch[v] # <<>>
                      /\ stage[v] = "deadletter" => Current(v)[2] < MaxGeneration
                      /\ stage[v] = "acknowledge" => Current(v) \in unsent' \/ Replaced(Current(v))'
    BY DEF StagesExplained, Current
  <2>1. stage[v] # "handle" => Current(v) \in BusMessages
    BY <1>0, FirstAndRest DEF StagesExplained, BusTypeOK, Current
  <2>2. ASSUME stage[v] = "acknowledge", Replaced(Current(v)) PROVE Replaced(Current(v))'
    <3>1. Current(v) \in BusMessages /\ Current(v)[2] < MaxGeneration /\ Current(v)' = Current(v)
      BY <2>1, <2>2 DEF Replaced, Current
    <3>2. DeadLetter(Current(v)) \in BusMessages
      BY <3>1, DeadLetterIsMessage
    <3> QED BY <2>2, <3>1, <3>2 DEF Grows, Replaced, DeadLetter
  <2> QED BY <1>0, <2>2 DEF StagesExplained, Grows
<1>3. RemovedAreExcused'
  BY <1>0, ReasonsStay DEF RemovedAreExcused
<1>4. LastIsInHand'
  BY <1>0 DEF LastIsInHand
<1> QED BY <1>1, <1>2, <1>3, <1>4 DEF BusInv

(* A worker goes on with the delivery it has, towards a dead letter. *)
LEMMA StageMoves ==
  ASSUME BusInv, Grows, UNCHANGED <<delivered, batch, crashes>>,
         NEW w \in BusWorkers, NEW l \in {"deadletter", "acknowledge"},
         batch[w] # <<>>, stage' = [stage EXCEPT ![w] = l],
         l = "deadletter" => Current(w)[2] < MaxGeneration,
         l = "acknowledge" => Current(w) \in unsent' \/ Replaced(Current(w))',
         place' \in [BusMessages -> {"absent", "ready", "held", "removed"}],
         \A m \in BusMessages : place'[m] = "held" => place[m] = "held",
         \A m \in BusMessages : place'[m] = "removed" => place[m] = "removed"
  PROVE  BusInv'
<1>0. BusTypeOK /\ StagesExplained /\ RemovedAreExcused /\ LastIsInHand
  BY DEF BusInv
<1>1. BusTypeOK'
  BY <1>0 DEF BusTypeOK, Grows
<1>2. StagesExplained'
  <2> SUFFICES ASSUME NEW v \in BusWorkers
               PROVE  /\ stage'[v] # "handle" => batch[v] # <<>>
                      /\ stage'[v] = "deadletter" => Current(v)[2] < MaxGeneration
                      /\ stage'[v] = "acknowledge" => Current(v) \in unsent' \/ Replaced(Current(v))'
    BY DEF StagesExplained, Current
  <2>1. CASE v = w
    <3>1. stage'[v] = l
      BY <1>0, <2>1 DEF BusTypeOK
    <3> QED BY <2>1, <3>1
  <2>2. CASE v # w
    <3>1. stage'[v] = stage[v] /\ Current(v)' = Current(v)
      BY <1>0, <2>2 DEF BusTypeOK, Current
    <3>2. ASSUME stage[v] = "acknowledge", Replaced(Current(v)) PROVE Replaced(Current(v))'
      <4>1. Current(v) \in BusMessages /\ Current(v)[2] < MaxGeneration
        BY <1>0, <3>2, FirstAndRest DEF StagesExplained, BusTypeOK, Current, Replaced
      <4>2. DeadLetter(Current(v)) \in BusMessages
        BY <4>1, DeadLetterIsMessage
      <4> QED BY <3>1, <3>2, <4>2 DEF Grows, Replaced, DeadLetter
    <3> QED BY <1>0, <3>1, <3>2 DEF StagesExplained, Grows
  <2> QED BY <2>1, <2>2
<1>3. RemovedAreExcused'
  BY <1>0, ReasonsStay DEF RemovedAreExcused
<1>4. LastIsInHand'
  BY <1>0 DEF LastIsInHand
<1> QED BY <1>1, <1>2, <1>3, <1>4 DEF BusInv

(* fetch: the worker has every delivery that is new. *)
LEMMA FetchKeeps ==
  ASSUME BusInv, NEW w \in BusWorkers, NEW ms \in Batches, FetchBatch(w, ms)
  PROVE  BusInv'
<1>0. BusTypeOK /\ StagesExplained /\ RemovedAreExcused /\ LastIsInHand
  BY DEF BusInv
<1> DEFINE got == [i \in DOMAIN ms |-> <<ms[i], delivered[ms[i]] + 1>>]
<1>1. PICK n \in 1..BatchSize : ms \in [1..n -> Deliverable]
  BY DEF Batches
<1>2. n \in Nat /\ DOMAIN ms = 1..n /\ \A i \in 1..n : ms[i] \in Deliverable
  BY <1>1, EventDeliveryAssumptions
<1>3. ToSet(ms) \subseteq {m \in BusMessages : place[m] = "ready"}
  BY <1>2 DEF ToSet, Deliverable
<1>4. /\ batch[w] = <<>>
      /\ place' = [m \in BusMessages |-> IF m \in ToSet(ms) THEN "held" ELSE place[m]]
      /\ delivered' = [m \in BusMessages |->
                         IF m \in ToSet(ms) THEN delivered[m] + 1 ELSE delivered[m]]
      /\ batch' = [batch EXCEPT ![w] = got]
      /\ stage' = [stage EXCEPT ![w] = "handle"]
      /\ UNCHANGED <<viaBus, crashes, handled, swallowed, unsent>>
  BY DEF FetchBatch
<1>5. got \in Seq(Deliveries) /\ DOMAIN got = 1..n
  <2>1. \A i \in 1..n : <<ms[i], delivered[ms[i]] + 1>> \in Deliveries
    BY <1>0, <1>2 DEF BusTypeOK, Deliverable, Deliveries
  <2>2. got = [i \in 1..n |-> <<ms[i], delivered[ms[i]] + 1>>]
    BY <1>2
  <2>3. got \in [1..n -> Deliveries]
    BY <2>1, <2>2
  <2> QED BY <1>2, <2>2, <2>3, SeqDef
<1>6. ASSUME NEW m \in ToSet(ms) PROVE <<m, delivered[m] + 1>> \in ToSet(got)
  <2>1. PICK i \in 1..n : ms[i] = m
    BY <1>2 DEF ToSet
  <2>2. got[i] = <<m, delivered[m] + 1>>
    BY <1>2, <2>1
  <2> HIDE DEF got
  <2> QED BY <1>5, <2>1, <2>2 DEF ToSet
<1> HIDE DEF got
<1>7. BusTypeOK'
  <2>1. place' \in [BusMessages -> {"absent", "ready", "held", "removed"}]
    BY <1>0, <1>4 DEF BusTypeOK
  <2>2. delivered' \in [BusMessages -> Nat]
    BY <1>0, <1>4 DEF BusTypeOK
  <2>3. /\ batch' \in [BusWorkers -> Seq(Deliveries)]
        /\ stage' \in [BusWorkers -> {"handle", "deadletter", "acknowledge"}]
    BY <1>0, <1>4, <1>5 DEF BusTypeOK
  <2> QED BY <1>0, <1>4, <2>1, <2>2, <2>3 DEF BusTypeOK
<1>8. Grows
  BY <1>4 DEF Grows
<1>9. stage'[w] = "handle" /\ \A v \in BusWorkers : v # w => batch'[v] = batch[v] /\ stage'[v] = stage[v]
  BY <1>0, <1>4 DEF BusTypeOK
<1>10. StagesExplained'
  BY <1>0, <1>8, <1>9, StagesMove
<1>11. RemovedAreExcused'
  BY <1>0, <1>4, <1>8, ReasonsStay DEF RemovedAreExcused
<1>12. LastIsInHand'
  <2> SUFFICES ASSUME crashes = 0, NEW m \in BusMessages, place'[m] = "held", delivered'[m] = MaxDeliver
               PROVE  \E v \in BusWorkers : <<m, MaxDeliver>> \in ToSet(batch'[v])
    BY <1>4 DEF LastIsInHand
  <2>1. CASE m \in ToSet(ms)
    <3>1. <<m, MaxDeliver>> \in ToSet(got)
      BY <1>4, <1>6, <2>1
    <3>2. batch'[w] = got
      BY <1>0, <1>4 DEF BusTypeOK
    <3> QED BY <3>1, <3>2
  <2>2. CASE m \notin ToSet(ms)
    <3>1. place[m] = "held" /\ delivered[m] = MaxDeliver
      BY <1>4, <2>2
    <3>2. PICK v \in BusWorkers : <<m, MaxDeliver>> \in ToSet(batch[v])
      BY <1>0, <3>1 DEF LastIsInHand
    <3>3. v # w
      BY <1>4, <3>2 DEF ToSet
    <3> QED BY <1>9, <3>2, <3>3
  <2> QED BY <2>1, <2>2
<1> QED BY <1>7, <1>10, <1>11, <1>12 DEF BusInv

-----------------------------------------------------------------------------
(* Before anything is published. *)
LEMMA BusInvInit == DeliveryInit => BusInv
<1> SUFFICES ASSUME DeliveryInit PROVE BusInv
  OBVIOUS
<1>1. BusTypeOK
  <2>1. <<>> \in Seq(Deliveries)
    BY EmptySeq
  <2> QED BY <2>1 DEF DeliveryInit, BusTypeOK
<1>2. StagesExplained /\ RemovedAreExcused
  BY DEF DeliveryInit, StagesExplained, RemovedAreExcused
<1>3. LastIsInHand
  BY DEF DeliveryInit, LastIsInHand
<1> QED BY <1>1, <1>2, <1>3 DEF BusInv

(* Every step of the stream and of the processes keeps the invariant. *)
LEMMA BusInvStep == BusInv /\ [DeliveryNext]_deliveryVars => BusInv'
<1> SUFFICES ASSUME BusInv, [DeliveryNext]_deliveryVars PROVE BusInv'
  OBVIOUS
<1>0. /\ BusTypeOK /\ StagesExplained /\ RemovedAreExcused /\ LastIsInHand
      /\ place \in [BusMessages -> {"absent", "ready", "held", "removed"}]
      /\ delivered \in [BusMessages -> Nat] /\ MaxDeliver \in Nat
  BY EventDeliveryAssumptions DEF BusInv, BusTypeOK
<1>1. ASSUME NEW w \in BusWorkers, batch[w] # <<>>
      PROVE  Current(w) \in BusMessages /\ NumDelivered(w) \in Nat
  BY <1>0, <1>1, FirstAndRest DEF BusTypeOK, Current, NumDelivered
<1>2. ASSUME NEW e \in BusEvents, PublishEvent(e) PROVE BusInv'
  <2>1. /\ place[<<e, 0>>] = "absent" /\ place' = [place EXCEPT ![<<e, 0>>] = "ready"]
        /\ UNCHANGED <<viaBus, delivered, batch, stage, crashes, handled, swallowed, unsent>>
    BY <1>2 DEF PublishEvent
  <2>2. /\ place' \in [BusMessages -> {"absent", "ready", "held", "removed"}]
        /\ \A m \in BusMessages : place'[m] \in {place[m], "ready"}
    BY <1>0, <2>1
  <2>3. Grows
    BY <2>1, <2>2 DEF Grows
  <2> QED BY <2>1, <2>2, <2>3, StreamMoves
<1>3. ASSUME NEW w \in BusWorkers, NEW ms \in Batches, FetchBatch(w, ms) PROVE BusInv'
  BY <1>3, FetchKeeps
<1>4. ASSUME NEW w \in BusWorkers, NEW ok \in BOOLEAN, HandlerReturns(w, ok) PROVE BusInv'
  <2>1. /\ batch[w] # <<>> /\ NextMessage(w) /\ (ok \/ viaBus)
        /\ place' = [place EXCEPT ![Current(w)] = "removed"]
        /\ UNCHANGED <<viaBus, delivered, crashes, unsent>>
    BY <1>4 DEF HandlerReturns, Acked
  <2>2. /\ handled \subseteq handled' /\ swallowed \subseteq swallowed'
        /\ Current(w) \in handled' \/ (Current(w) \in swallowed' /\ viaBus)
    BY <1>4, <2>1 DEF HandlerReturns
  <2>3. /\ place' \in [BusMessages -> {"absent", "ready", "held", "removed"}]
        /\ place'[Current(w)] = "removed"
        /\ \A m \in BusMessages : m # Current(w) => place'[m] = place[m]
    BY <1>0, <1>1, <2>1
  <2>4. Grows
    BY <2>1, <2>2, <2>3 DEF Grows
  <2>5. ASSUME NEW m \in BusMessages, m = Current(w) PROVE Excused(m)'
    BY <2>1, <2>2, <2>5 DEF Excused
  <2>6. \A m \in BusMessages : place'[m] = "removed" => place[m] = "removed" \/ Excused(m)'
    BY <2>3, <2>5
  <2>7. \A m \in BusMessages : place'[m] = "held" => place[m] = "held"
    BY <2>3
  <2> QED BY <2>1, <2>3, <2>4, <2>6, <2>7, MovesOn
<1>5. ASSUME NEW w \in BusWorkers, HandlerRaises(w) PROVE BusInv'
  <2>1. /\ batch[w] # <<>> /\ stage[w] = "handle" /\ NumDelivered(w) \in Nat
        /\ UNCHANGED <<viaBus, delivered, crashes, handled, swallowed, unsent>>
    BY <1>1, <1>5 DEF HandlerRaises
  <2>2. CASE NumDelivered(w) >= MaxDeliver
    <3>1. /\ Current(w)[2] < MaxGeneration /\ stage' = [stage EXCEPT ![w] = "deadletter"]
          /\ UNCHANGED <<place, batch>>
      BY <1>5, <2>2 DEF HandlerRaises
    <3>2. Grows
      BY <2>1, <3>1 DEF Grows
    <3> QED BY <1>0, <2>1, <3>1, <3>2, StageMoves
  <2>3. CASE ~(NumDelivered(w) >= MaxDeliver)
    <3>1. /\ NextMessage(w) /\ NumDelivered(w) # MaxDeliver
          /\ place' = [place EXCEPT ![Current(w)] =
                         IF @ = "held" /\ delivered[Current(w)] < MaxDeliver THEN "ready" ELSE @]
      BY <1>0, <1>5, <2>1, <2>3 DEF HandlerRaises, Naked
    <3>2. /\ place' \in [BusMessages -> {"absent", "ready", "held", "removed"}]
          /\ \A m \in BusMessages : place'[m] = place[m] \/ (place[m] = "held" /\ place'[m] = "ready")
      BY <1>0, <3>1
    <3>3. Grows
      BY <2>1, <3>2 DEF Grows
    <3> QED BY <2>1, <3>1, <3>2, <3>3, MovesOn
  <2> QED BY <2>2, <2>3
<1>6. ASSUME NEW w \in BusWorkers, NEW ok \in BOOLEAN, SendToDlq(w, ok) PROVE BusInv'
  <2>1. /\ batch[w] # <<>> /\ stage[w] = "deadletter"
        /\ stage' = [stage EXCEPT ![w] = "acknowledge"]
        /\ UNCHANGED <<viaBus, delivered, batch, crashes, handled, swallowed>>
    BY <1>6 DEF SendToDlq
  <2>2. Current(w) \in BusMessages /\ Current(w)[2] < MaxGeneration /\ Current(w)' = Current(w)
    BY <1>0, <1>1, <2>1 DEF StagesExplained, Current
  <2>3. DeadLetter(Current(w)) \in BusMessages
    BY <2>2, DeadLetterIsMessage
  <2>4. CASE ok
    <3>1. /\ UNCHANGED unsent
          /\ place' = [place EXCEPT ![DeadLetter(Current(w))] = IF @ = "absent" THEN "ready" ELSE @]
      BY <1>6, <2>4 DEF SendToDlq
    <3>2. /\ place' \in [BusMessages -> {"absent", "ready", "held", "removed"}]
          /\ \A m \in BusMessages : place'[m] = place[m] \/ place'[m] = "ready"
          /\ place'[DeadLetter(Current(w))] # "absent"
      BY <1>0, <2>3, <3>1
    <3>3. Grows
      BY <2>1, <3>1, <3>2 DEF Grows
    <3>4. Replaced(Current(w))'
      BY <2>2, <3>2 DEF Replaced, DeadLetter
    <3> QED BY <2>1, <3>2, <3>3, <3>4, StageMoves
  <2>5. CASE ~ok
    <3>1. unsent' = unsent \cup {Current(w)} /\ UNCHANGED place
      BY <1>6, <2>5 DEF SendToDlq
    <3>2. Grows
      BY <2>1, <3>1 DEF Grows
    <3> QED BY <1>0, <2>1, <3>1, <3>2, StageMoves
  <2> QED BY <2>4, <2>5
<1>7. ASSUME NEW w \in BusWorkers, AcknowledgeDead(w) PROVE BusInv'
  <2>1. /\ batch[w] # <<>> /\ stage[w] = "acknowledge" /\ NextMessage(w)
        /\ place' = [place EXCEPT ![Current(w)] = "removed"]
        /\ UNCHANGED <<viaBus, delivered, crashes, handled, swallowed, unsent>>
    BY <1>7 DEF AcknowledgeDead, Acked
  <2>2. Current(w) \in BusMessages /\ Excused(Current(w))
    BY <1>0, <1>1, <2>1 DEF StagesExplained, Excused
  <2>3. /\ place' \in [BusMessages -> {"absent", "ready", "held", "removed"}]
        /\ place'[Current(w)] = "removed"
        /\ \A m \in BusMessages : m # Current(w) => place'[m] = place[m]
    BY <1>0, <2>1, <2>2
  <2>4. Grows
    BY <2>1, <2>3 DEF Grows
  <2>5. ASSUME NEW m \in BusMessages, m = Current(w) PROVE Excused(m)'
    BY <2>2, <2>4, <2>5, ReasonsStay
  <2>6. \A m \in BusMessages : place'[m] = "removed" => place[m] = "removed" \/ Excused(m)'
    BY <2>3, <2>5
  <2>7. \A m \in BusMessages : place'[m] = "held" => place[m] = "held"
    BY <2>3
  <2> QED BY <2>1, <2>3, <2>4, <2>6, <2>7, MovesOn
<1>8. ASSUME NEW w \in BusWorkers, NEW done \in BOOLEAN, DropBatch(w, done) PROVE BusInv'
  <2>1. /\ crashes' = crashes + 1 /\ batch' = [batch EXCEPT ![w] = <<>>]
        /\ stage' = [stage EXCEPT ![w] = "handle"] /\ handled \subseteq handled'
        /\ UNCHANGED <<viaBus, place, delivered, swallowed, unsent>>
    BY <1>8 DEF DropBatch
  <2>2. Grows
    BY <2>1 DEF Grows
  <2>3. <<>> \in Seq(Deliveries)
    BY EmptySeq
  <2>4. BusTypeOK' /\ crashes' # 0
    BY <1>0, <2>1, <2>3 DEF BusTypeOK
  <2>5. stage'[w] = "handle" /\ \A v \in BusWorkers : v # w => batch'[v] = batch[v] /\ stage'[v] = stage[v]
    BY <1>0, <2>1 DEF BusTypeOK
  <2>6. StagesExplained'
    BY <1>0, <2>2, <2>5, StagesMove
  <2>7. RemovedAreExcused'
    BY <1>0, <2>1, <2>2, ReasonsStay DEF RemovedAreExcused
  <2> QED BY <2>4, <2>6, <2>7 DEF BusInv, LastIsInHand
<1>9. ASSUME NEW m \in BusMessages, AckWaitExpires(m) PROVE BusInv'
  <2>1. /\ place[m] = "held" /\ place' = [place EXCEPT ![m] = "ready"]
        /\ UNCHANGED <<viaBus, delivered, batch, stage, crashes, handled, swallowed, unsent>>
    BY <1>9 DEF AckWaitExpires
  <2>2. /\ place' \in [BusMessages -> {"absent", "ready", "held", "removed"}]
        /\ \A x \in BusMessages : place'[x] \in {place[x], "ready"}
    BY <1>0, <2>1
  <2>3. Grows
    BY <2>1, <2>2 DEF Grows
  <2> QED BY <2>1, <2>2, <2>3, StreamMoves
<1>10. CASE UNCHANGED deliveryVars
  <2>1. UNCHANGED <<viaBus, place, delivered, batch, stage, crashes, handled, swallowed, unsent>>
    BY <1>10 DEF deliveryVars
  <2>2. Grows
    BY <2>1 DEF Grows
  <2> QED BY <1>0, <2>1, <2>2, StreamMoves
<1> QED
  BY <1>2, <1>3, <1>4, <1>5, <1>6, <1>7, <1>8, <1>9, <1>10 DEF DeliveryNext, WorkerStep

(* For any events, workers, batches, delivery limit and generations of dead letters,
   however deliveries overlap: a message of the stream is acknowledged only for one of
   the reasons named, and without a crash none is left with its deliveries used up. *)
THEOREM NothingIsLost == Spec => []NothingElseLosesEvents
<1>1. Init => BusInv
  BY BusInvInit DEF Init
<1>2. BusInv /\ [Next]_vars => BusInv'
  <2>1. [Next]_vars => [DeliveryNext]_deliveryVars
    BY DEF Next, vars
  <2> QED BY <2>1, BusInvStep
<1>3. BusInv => NothingElseLosesEvents
  <2> SUFFICES ASSUME BusInv, NEW m \in BusMessages
               PROVE  /\ place[m] = "removed" => Excused(m)
                      /\ UsedUp(m) => crashes > 0
    BY DEF NothingElseLosesEvents, Excused, Replaced
  <2>1. place[m] = "removed" => Excused(m)
    BY DEF BusInv, RemovedAreExcused
  <2>2. crashes \in Nat /\ (UsedUp(m) => crashes # 0)
    BY DEF BusInv, BusTypeOK, LastIsInHand, UsedUp
  <2> QED BY <2>1, <2>2
<1> QED BY <1>1, <1>2, <1>3, PTL DEF Spec

-----------------------------------------------------------------------------
(* The sagas of libs/adapters. *)

Metrics(active, completed, compensated) ==
  [k \in MetricNames |-> IF k = "total" THEN 1 ELSE IF k = "active" THEN active
                          ELSE IF k = "completed" THEN completed ELSE compensated]

AsTypeOK ==
  /\ shape \in [parallel : BOOLEAN, reverse : BOOLEAN]
  /\ saga \in [status : {"none", "pending", "running", "compensating", "completed", "compensated"},
               active : BOOLEAN,
               metrics : {NoMetrics, Metrics(1, 0, 0), Metrics(0, 1, 0), Metrics(0, 0, 1)}]
  /\ stepStatus \in [Positions -> {"pending", "running", "completed", "failed", "compensated"}]
  /\ task \in [Positions -> {"none", "trying", "ok", "failed"}]
  /\ awaited \in Positions
  /\ toUndo \subseteq Positions /\ effect \subseteq Positions
  /\ undoTried \in Seq(Positions)

MetricsFollow ==
  /\ saga.status \in {"pending", "running", "compensating"} => saga.metrics = Metrics(1, 0, 0)
  /\ saga.status = "completed" => saga.metrics = Metrics(0, 1, 0)
  /\ saga.status = "compensated" => saga.metrics = Metrics(0, 0, 1)

NotBegun ==
  saga.status \in {"none", "pending"} =>
    /\ awaited = 1 /\ effect = {} /\ undoTried = <<>>
    /\ \A s \in Positions : task[s] = "none" /\ stepStatus[s] = "pending"

\* Going forward, the steps before the awaited one are complete and in effect, and in a
\* sequential saga those after it have not begun.
Forward ==
  saga.status = "running" =>
    /\ undoTried = <<>>
    /\ \A s \in Positions : task[s] = "ok" <=> s \in effect
    /\ \A s \in Positions : s < awaited => task[s] = "ok" /\ stepStatus[s] = "completed"
    /\ \A s \in Positions : s >= awaited => stepStatus[s] \in {"pending", "running"}
    /\ ~shape.parallel => \A s \in Positions : s > awaited => task[s] = "none"

\* Going back, nothing before the awaited step is at work any more, and what has been
\* tried comes before what is left, in the order of the strategy.
Backward ==
  saga.status \in {"compensating", "compensated"} =>
    /\ stepStatus[awaited] = "failed" /\ task[awaited] = "failed" /\ awaited \notin effect
    /\ \A s \in Positions : s < awaited => task[s] = "ok" /\ (s \in effect => stepStatus[s] = "completed")
    /\ ~shape.parallel => \A s \in Positions : s > awaited => task[s] = "none" /\ s \notin effect
    /\ toUndo \subseteq {s \in Positions : s < awaited}
    /\ saga.status = "compensated" => toUndo = {}
    /\ ToSet(undoTried) = {s \in Undoable : s < awaited /\ s \notin toUndo}
    /\ \A i \in 1..Len(undoTried) : \A r \in toUndo : Precedes(undoTried[i], r)
    /\ \A i, j \in 1..Len(undoTried) : i < j => Precedes(undoTried[i], undoTried[j])

Finished ==
  saga.status = "completed" =>
    undoTried = <<>> /\ effect = Positions /\ \A s \in Positions : task[s] = "ok"

(* What the steps preserve. *)
AsInv == AsTypeOK /\ MetricsFollow /\ NotBegun /\ Forward /\ Backward /\ Finished

(* The saga leaves the active ones and is counted once where it ends. *)
LEMMA MetricsMove ==
  ASSUME NEW m, m = Metrics(1, 0, 0), NEW end \in {"completed", "compensated"}
  PROVE  /\ [m EXCEPT !.active = @ - 1, ![end] = @ + 1] =
              IF end = "completed" THEN Metrics(0, 1, 0) ELSE Metrics(0, 0, 1)
         /\ [NoMetrics EXCEPT !.total = 1, ![end] = 1] =
              IF end = "completed" THEN Metrics(0, 1, 0) ELSE Metrics(0, 0, 1)
<1> DEFINE n == [m EXCEPT !.active = @ - 1, ![end] = @ + 1]
           t == IF end = "completed" THEN Metrics(0, 1, 0) ELSE Metrics(0, 0, 1)
<1>1. /\ m \in [MetricNames -> Int] /\ m["total"] = 1 /\ m["active"] = 1
      /\ m["completed"] = 0 /\ m["compensated"] = 0
  BY DEF Metrics, MetricNames
<1>2. n = [k \in MetricNames |->
             IF k = "active" THEN m[k] - 1 ELSE IF k = end THEN m[k] + 1 ELSE m[k]]
  BY <1>1 DEF MetricNames
<1>3. [NoMetrics EXCEPT !.total = 1, ![end] = 1] =
        [k \in MetricNames |-> IF k = "total" \/ k = end THEN 1 ELSE 0]
  BY DEF NoMetrics, MetricNames
<1>4. t = [k \in MetricNames |-> IF k = "total" \/ k = end THEN 1 ELSE 0]
  <2>1. CASE end = "completed"
    BY <2>1 DEF Metrics, MetricNames
  <2>2. CASE end = "compensated"
    BY <2>2 DEF Metrics, MetricNames
  <2> QED BY <2>1, <2>2
<1>5. \A k \in MetricNames :
        (IF k = "active" THEN m[k] - 1 ELSE IF k = end THEN m[k] + 1 ELSE m[k]) =
        (IF k = "total" \/ k = end THEN 1 ELSE 0)
  BY <1>1 DEF MetricNames
<1> HIDE DEF n, t
<1>6. n = t
  BY <1>2, <1>4, <1>5
<1> QED BY <1>3, <1>4, <1>6 DEF n, t

(* What is tried next goes to the end. *)
LEMMA TriedGrows ==
  ASSUME NEW s \in Positions, undoTried \in Seq(Positions)
  PROVE  /\ Append(undoTried, s) \in Seq(Positions)
         /\ Len(Append(undoTried, s)) = Len(undoTried) + 1 /\ Len(undoTried) \in Nat
         /\ \A i \in 1..(Len(undoTried) + 1) :
              Append(undoTried, s)[i] = IF i = Len(undoTried) + 1 THEN s ELSE undoTried[i]
         /\ ToSet(Append(undoTried, s)) = ToSet(undoTried) \cup {s}
<1> DEFINE t == Append(undoTried, s)
<1>1. Len(undoTried) \in Nat /\ DOMAIN undoTried = 1..Len(undoTried)
  BY LenProperties
<1>2. /\ t \in Seq(Positions) /\ Len(t) = Len(undoTried) + 1
      /\ \A i \in 1..Len(undoTried) : t[i] = undoTried[i]
      /\ t[Len(undoTried) + 1] = s
  BY AppendProperties
<1>3. DOMAIN t = 1..(Len(undoTried) + 1)
  BY <1>2, LenProperties
<1> HIDE DEF t
<1>4. \A i \in 1..(Len(undoTried) + 1) : t[i] = IF i = Len(undoTried) + 1 THEN s ELSE undoTried[i]
  BY <1>1, <1>2
<1>5. ASSUME NEW x PROVE x \in ToSet(t) <=> x \in ToSet(undoTried) \cup {s}
  <2>1. x \in ToSet(t) <=> \E i \in 1..(Len(undoTried) + 1) : t[i] = x
    BY <1>3 DEF ToSet
  <2>2. x \in ToSet(undoTried) <=> \E i \in 1..Len(undoTried) : undoTried[i] = x
    BY <1>1 DEF ToSet
  <2>3. /\ Len(undoTried) + 1 \in 1..(Len(undoTried) + 1)
        /\ \A i \in 1..(Len(undoTried) + 1) : i = Len(undoTried) + 1 \/ i \in 1..Len(undoTried)
        /\ \A i \in 1..Len(undoTried) : i \in 1..(Len(undoTried) + 1) /\ i # Len(undoTried) + 1
    BY <1>1
  <2> QED BY <1>4, <2>1, <2>2, <2>3
<1> QED BY <1>1, <1>2, <1>4, <1>5 DEF t

(* Before create_saga. *)
LEMMA AsInvInit == AdapterSagaInit => AsInv
<1> SUFFICES ASSUME AdapterSagaInit PROVE AsInv
  OBVIOUS
<1>1. 1 \in Positions /\ undoTried \in Seq(Positions)
  BY AdapterSagaAssumptions, EmptySeq DEF AdapterSagaInit, Positions
<1>2. AsTypeOK
  BY <1>1 DEF AdapterSagaInit, AsTypeOK
<1>3. MetricsFollow /\ Forward /\ Backward /\ Finished
  BY DEF AdapterSagaInit, MetricsFollow, Forward, Backward, Finished
<1>4. NotBegun
  BY DEF AdapterSagaInit, NotBegun
<1> QED BY <1>2, <1>3, <1>4 DEF AsInv

(* An attempt that ends, of whatever step is at work. *)
LEMMA AttemptKeeps ==
  ASSUME AsInv, NEW s \in Positions, task[s] = "trying", NEW t \in {"trying", "ok", "failed"},
         task' = [task EXCEPT ![s] = t],
         effect' = IF t = "ok" THEN effect \cup {s} ELSE effect,
         UNCHANGED <<shape, saga, stepStatus, awaited, toUndo, undoTried>>
  PROVE  AsInv'
<1>0. /\ AsTypeOK /\ MetricsFollow /\ NotBegun /\ Forward /\ Backward /\ Finished
      /\ awaited \in Int /\ \A x \in Positions : x \in Int
  BY DEF AsInv, AsTypeOK, Positions
<1>1. task'[s] = t /\ \A x \in Positions : x # s => task'[x] = task[x]
  BY <1>0 DEF AsTypeOK
<1>2. AsTypeOK'
  <2>1. task' \in [Positions -> {"none", "trying", "ok", "failed"}] /\ effect' \subseteq Positions
    BY <1>0 DEF AsTypeOK
  <2> QED BY <1>0, <2>1 DEF AsTypeOK
<1>3. MetricsFollow'
  BY <1>0 DEF MetricsFollow
<1>4. NotBegun' /\ Finished'
  BY <1>0 DEF NotBegun, Finished
<1>5. Forward'
  <2> SUFFICES ASSUME saga.status = "running" PROVE Forward'
    BY DEF Forward
  <2>1. ~(s < awaited)
    BY <1>0 DEF Forward
  <2>2. \A x \in Positions : task'[x] = "ok" <=> x \in effect'
    BY <1>0, <1>1 DEF Forward
  <2>3. ~shape.parallel => \A x \in Positions : x > awaited => task'[x] = "none"
    BY <1>0, <1>1 DEF Forward
  <2> QED BY <1>0, <1>1, <2>1, <2>2, <2>3 DEF Forward
<1>6. Backward'
  <2> SUFFICES ASSUME saga.status \in {"compensating", "compensated"} PROVE Backward'
    BY DEF Backward
  <2>1. s # awaited /\ ~(s < awaited) /\ s > awaited /\ shape.parallel
    BY <1>0 DEF Backward
  <2>2. task'[awaited] = "failed" /\ awaited \notin effect'
    BY <1>0, <1>1, <2>1 DEF Backward, AsTypeOK
  <2>3. \A x \in Positions : x < awaited => task'[x] = "ok" /\ (x \in effect' => stepStatus[x] = "completed")
    BY <1>0, <1>1, <2>1 DEF Backward
  <2> QED BY <1>0, <2>1, <2>2, <2>3 DEF Backward, Precedes
<1> QED BY <1>2, <1>3, <1>4, <1>5, <1>6 DEF AsInv

(* The awaited step fails: what is complete is what comes before it. *)
LEMMA FailKeeps == ASSUME AsInv, StepFails PROVE AsInv'
<1>0. /\ AsTypeOK /\ MetricsFollow /\ Forward /\ awaited \in Positions
      /\ awaited \in Int /\ \A x \in Positions : x \in Int
  BY DEF AsInv, AsTypeOK, Positions
<1>1. /\ saga.status = "running" /\ task[awaited] = "failed"
      /\ stepStatus' = [stepStatus EXCEPT ![awaited] = "failed"]
      /\ saga' = [saga EXCEPT !.status = "compensating"] /\ toUndo' = CompletedSteps
      /\ UNCHANGED <<shape, task, awaited, effect, undoTried>>
  BY DEF StepFails
<1>2. saga'.status = "compensating" /\ saga'.metrics = saga.metrics
  BY <1>0, <1>1 DEF AsTypeOK
<1>3. CompletedSteps = {s \in Positions : s < awaited}
  BY <1>0, <1>1 DEF Forward, CompletedSteps
<1>4. stepStatus'[awaited] = "failed" /\ \A x \in Positions : x # awaited => stepStatus'[x] = stepStatus[x]
  BY <1>0, <1>1 DEF AsTypeOK
<1>5. AsTypeOK'
  <2>1. saga' \in [status : {"none", "pending", "running", "compensating", "completed", "compensated"},
                   active : BOOLEAN,
                   metrics : {NoMetrics, Metrics(1, 0, 0), Metrics(0, 1, 0), Metrics(0, 0, 1)}]
    BY <1>0, <1>1 DEF AsTypeOK
  <2>2. /\ stepStatus' \in [Positions -> {"pending", "running", "completed", "failed", "compensated"}]
        /\ toUndo' \subseteq Positions
    BY <1>0, <1>1, <1>3 DEF AsTypeOK
  <2> QED BY <1>0, <1>1, <2>1, <2>2 DEF AsTypeOK
<1>6. MetricsFollow'
  BY <1>0, <1>1, <1>2 DEF MetricsFollow
<1>7. Backward'
  <2>1. undoTried' = <<>> /\ Len(undoTried') = 0 /\ ToSet(undoTried') = {}
    BY <1>0, <1>1, EmptySeq DEF Forward, ToSet
  <2>2. ToSet(undoTried') = {s \in Undoable : s < awaited' /\ s \notin toUndo'}
    BY <1>1, <1>3, <2>1, AdapterSagaAssumptions DEF Positions
  <2>3. toUndo' \subseteq {s \in Positions : s < awaited'}
    BY <1>1, <1>3
  <2>4. awaited \notin effect
    BY <1>0, <1>1 DEF Forward
  <2>5. \A s \in Positions : s < awaited => task[s] = "ok" /\ stepStatus'[s] = "completed"
    BY <1>0, <1>1, <1>4 DEF Forward
  <2>6. ~shape.parallel => \A s \in Positions : s > awaited => task[s] = "none" /\ s \notin effect
    BY <1>0, <1>1 DEF Forward
  <2> QED BY <1>1, <1>2, <1>4, <2>1, <2>2, <2>3, <2>4, <2>5, <2>6 DEF Backward
<1>8. NotBegun' /\ Forward' /\ Finished'
  BY <1>2 DEF NotBegun, Forward, Finished
<1> QED BY <1>5, <1>6, <1>7, <1>8 DEF AsInv

(* One compensation, in its turn. *)
LEMMA CompensateKeeps ==
  ASSUME AsInv, NEW s \in toUndo, NEW ok \in BOOLEAN, CompensateStep(s, ok)
  PROVE  AsInv'
<1>0. /\ AsTypeOK /\ MetricsFollow /\ Backward /\ awaited \in Positions /\ s \in Positions
      /\ awaited \in Int /\ \A x \in Positions : x \in Int
      /\ undoTried \in Seq(Positions)
  BY DEF AsInv, AsTypeOK, Positions
<1>1. /\ saga.status = "compensating" /\ toUndo' = toUndo \ {s}
      /\ \A r \in toUndo \ {s} : Precedes(s, r)
      /\ UNCHANGED <<shape, saga, task, awaited>>
  BY DEF CompensateStep
<1>2. s < awaited /\ toUndo \subseteq {x \in Positions : x < awaited} /\ s # awaited
  BY <1>0, <1>1 DEF Backward
<1>3. \/ stepStatus' = [stepStatus EXCEPT ![s] = "compensated"] /\ effect' = effect \ {s}
      \/ stepStatus' = stepStatus /\ effect' = effect
  <2>1. CASE s \in Undoable /\ ok
    BY <2>1 DEF CompensateStep
  <2>2. CASE ~(s \in Undoable /\ ok)
    BY <2>2 DEF CompensateStep
  <2> QED BY <2>1, <2>2
<1>4. undoTried' = IF s \in Undoable THEN Append(undoTried, s) ELSE undoTried
  BY DEF CompensateStep
<1>5. /\ stepStatus'[awaited] = "failed" /\ effect' \subseteq effect
      /\ stepStatus' \in [Positions -> {"pending", "running", "completed", "failed", "compensated"}]
      /\ \A x \in Positions : x < awaited => (x \in effect' => stepStatus'[x] = "completed")
  <2>1. CASE stepStatus' = [stepStatus EXCEPT ![s] = "compensated"] /\ effect' = effect \ {s}
    BY <1>0, <1>1, <1>2, <2>1 DEF Backward, AsTypeOK
  <2>2. CASE stepStatus' = stepStatus /\ effect' = effect
    BY <1>0, <1>1, <2>2 DEF Backward, AsTypeOK
  <2> QED BY <1>3, <2>1, <2>2
<1>7. /\ undoTried' \in Seq(Positions)
      /\ ToSet(undoTried') = {x \in Undoable : x < awaited /\ x \notin toUndo'}
      /\ \A i \in 1..Len(undoTried') : \A r \in toUndo' : Precedes(undoTried'[i], r)
      /\ \A i, j \in 1..Len(undoTried') : i < j => Precedes(undoTried'[i], undoTried'[j])
  <2>0. /\ ToSet(undoTried) = {x \in Undoable : x < awaited /\ x \notin toUndo}
        /\ \A i \in 1..Len(undoTried) : \A r \in toUndo : Precedes(undoTried[i], r)
        /\ \A i, j \in 1..Len(undoTried) : i < j => Precedes(undoTried[i], undoTried[j])
    BY <1>0, <1>1 DEF Backward
  <2>1. CASE s \in Undoable
    <3> DEFINE n == Len(undoTried)
               t == undoTried'
    <3>1. /\ t \in Seq(Positions) /\ Len(t) = n + 1 /\ n \in Nat
          /\ \A i \in 1..(n + 1) : t[i] = IF i = n + 1 THEN s ELSE undoTried[i]
          /\ ToSet(t) = ToSet(undoTried) \cup {s}
      BY <1>0, <1>4, <2>1, TriedGrows
    <3>2. ToSet(t) = {x \in Undoable : x < awaited /\ x \notin toUndo'}
      BY <1>1, <1>2, <2>0, <2>1, <3>1
    <3> HIDE DEF n, t
    <3>3. ASSUME NEW i \in 1..(n + 1) PROVE i = n + 1 \/ (i \in 1..n /\ t[i] = undoTried[i])
      BY <3>1
    <3>4. t[n + 1] = s
      BY <3>1
    <3>5. \A i \in 1..(n + 1) : \A r \in toUndo' : Precedes(t[i], r)
      <4> SUFFICES ASSUME NEW i \in 1..(n + 1), NEW r \in toUndo' PROVE Precedes(t[i], r)
        OBVIOUS
      <4>1. CASE i = n + 1
        BY <1>1, <3>4, <4>1
      <4>2. CASE i \in 1..n /\ t[i] = undoTried[i]
        BY <1>1, <2>0, <4>2 DEF n
      <4> QED BY <3>3, <4>1, <4>2
    <3>6. \A i, j \in 1..(n + 1) : i < j => Precedes(t[i], t[j])
      <4> SUFFICES ASSUME NEW i \in 1..(n + 1), NEW j \in 1..(n + 1), i < j PROVE Precedes(t[i], t[j])
        OBVIOUS
      <4>1. i \in 1..n /\ t[i] = undoTried[i]
        BY <3>1
      <4>2. CASE j = n + 1
        BY <2>0, <3>4, <4>1, <4>2 DEF n
      <4>3. CASE j \in 1..n /\ t[j] = undoTried[j]
        BY <2>0, <4>1, <4>3 DEF n
      <4> QED BY <3>3, <4>2, <4>3
    <3> QED BY <3>1, <3>2, <3>5, <3>6 DEF t
  <2>2. CASE s \notin Undoable
    BY <1>0, <1>1, <1>4, <2>0, <2>2
  <2> QED BY <2>1, <2>2
<1>8. AsTypeOK'
  BY <1>0, <1>1, <1>5, <1>7 DEF AsTypeOK
<1>9. Backward'
  <2>1. \A x \in Positions : x < awaited => task[x] = "ok"
    BY <1>0, <1>1 DEF Backward
  <2>2. ~shape.parallel => \A x \in Positions : x > awaited => task[x] = "none" /\ x \notin effect'
    BY <1>0, <1>1, <1>5 DEF Backward
  <2>3. task[awaited] = "failed" /\ awaited \notin effect' /\ saga.status # "compensated"
    BY <1>0, <1>1, <1>5 DEF Backward
  <2>4. toUndo' \subseteq {x \in Positions : x < awaited}
    BY <1>1, <1>2
  <2>5. /\ \A i \in 1..Len(undoTried') : \A r \in toUndo' : Precedes(undoTried[i], r)'
        /\ \A i, j \in 1..Len(undoTried') : i < j => Precedes(undoTried[i], undoTried[j])'
    BY <1>1, <1>7 DEF Precedes
  <2>6. ToSet(undoTried') = {x \in Undoable : x < awaited /\ x \notin toUndo'}
    BY <1>7
  <2> QED BY <1>1, <1>5, <2>1, <2>2, <2>3, <2>4, <2>5, <2>6 DEF Backward
<1>10. MetricsFollow' /\ NotBegun' /\ Forward' /\ Finished'
  BY <1>0, <1>1 DEF MetricsFollow, NotBegun, Forward, Finished
<1> QED BY <1>8, <1>9, <1>10 DEF AsInv

(* The awaited step returns: it is the last, or the next one is awaited. *)
LEMMA CompleteKeeps == ASSUME AsInv, StepCompletes PROVE AsInv'
<1>0. /\ AsTypeOK /\ MetricsFollow /\ Forward /\ awaited \in Positions
      /\ awaited \in Int /\ (\A x \in Positions : x \in Int) /\ NSteps \in Nat
      /\ Positions = 1..NSteps
  BY AdapterSagaAssumptions DEF AsInv, AsTypeOK, Positions
<1>1. /\ saga.status = "running" /\ task[awaited] = "ok"
      /\ UNCHANGED <<shape, toUndo, effect, undoTried>>
  BY DEF StepCompletes
<1>2. CASE awaited = NSteps
  <2>1. /\ saga' = Settled("completed") /\ UNCHANGED <<task, awaited>>
        /\ stepStatus' = [stepStatus EXCEPT ![awaited] = "completed"]
    BY <1>2 DEF StepCompletes
  <2>2. saga.metrics = Metrics(1, 0, 0)
    BY <1>0, <1>1 DEF MetricsFollow
  <2>3. saga' = [status |-> "completed", active |-> FALSE, metrics |-> Metrics(0, 1, 0)]
    BY <2>1, <2>2, MetricsMove DEF Settled
  <2>4. saga'.status = "completed" /\ saga'.metrics = Metrics(0, 1, 0)
    BY <2>3
  <2>5. AsTypeOK'
    <3>1. saga' \in [status : {"none", "pending", "running", "compensating", "completed", "compensated"},
                     active : BOOLEAN,
                     metrics : {NoMetrics, Metrics(1, 0, 0), Metrics(0, 1, 0), Metrics(0, 0, 1)}]
      BY <2>3
    <3>2. stepStatus' \in [Positions -> {"pending", "running", "completed", "failed", "compensated"}]
      BY <1>0, <2>1 DEF AsTypeOK
    <3> QED BY <1>0, <1>1, <2>1, <3>1, <3>2 DEF AsTypeOK
  <2>6. Finished'
    <3>1. \A x \in Positions : x < awaited \/ x = awaited
      BY <1>0, <1>2
    <3>2. \A x \in Positions : task[x] = "ok" /\ x \in effect
      BY <1>0, <1>1, <3>1 DEF Forward
    <3>3. effect = Positions
      BY <1>0, <3>2 DEF AsTypeOK
    <3> QED BY <1>0, <1>1, <2>1, <3>2, <3>3 DEF Forward, Finished
  <2>7. MetricsFollow' /\ NotBegun' /\ Forward' /\ Backward'
    BY <2>4 DEF MetricsFollow, NotBegun, Forward, Backward
  <2> QED BY <2>5, <2>6, <2>7 DEF AsInv
<1>3. CASE awaited # NSteps
  <2>1. awaited' = awaited + 1 /\ UNCHANGED saga /\ awaited + 1 \in Positions
    BY <1>0, <1>3 DEF StepCompletes
  <2>2. /\ stepStatus' \in [Positions -> {"pending", "running", "completed", "failed", "compensated"}]
        /\ task' \in [Positions -> {"none", "trying", "ok", "failed"}]
        /\ stepStatus'[awaited] = "completed"
        /\ stepStatus'[awaited + 1] \in {stepStatus[awaited + 1], "running"}
        /\ \A x \in Positions : x \notin {awaited, awaited + 1} => stepStatus'[x] = stepStatus[x]
        /\ \A x \in Positions : x # awaited + 1 => task'[x] = task[x]
        /\ task'[awaited + 1] = IF shape.parallel THEN task[awaited + 1] ELSE "trying"
    <3>1. CASE shape.parallel
      <4>1. stepStatus' = [stepStatus EXCEPT ![awaited] = "completed"] /\ task' = task
        BY <1>3, <3>1 DEF StepCompletes
      <4> QED BY <1>0, <2>1, <3>1, <4>1 DEF AsTypeOK
    <3>2. CASE ~shape.parallel
      <4>1. /\ stepStatus' = [stepStatus EXCEPT ![awaited] = "completed", ![awaited + 1] = "running"]
            /\ task' = [task EXCEPT ![awaited + 1] = "trying"]
        BY <1>3, <3>2 DEF StepCompletes
      <4>2. awaited + 1 # awaited
        BY <1>0
      <4> QED BY <1>0, <2>1, <3>2, <4>1, <4>2 DEF AsTypeOK
    <3> QED BY <3>1, <3>2
  <2>3. AsTypeOK'
    BY <1>0, <1>1, <2>1, <2>2 DEF AsTypeOK
  <2>4. Forward'
    <3>1. \A x \in Positions : task'[x] = "ok" <=> x \in effect
      <4>1. ~shape.parallel => task[awaited + 1] = "none"
        BY <1>0, <1>1, <2>1 DEF Forward
      <4>2. task'[awaited + 1] = "ok" <=> awaited + 1 \in effect
        BY <1>0, <1>1, <2>1, <2>2, <4>1 DEF Forward
      <4> QED BY <1>0, <1>1, <2>2, <4>2 DEF Forward
    <3>2. \A x \in Positions : x < awaited + 1 => task'[x] = "ok" /\ stepStatus'[x] = "completed"
      <4> SUFFICES ASSUME NEW x \in Positions, x < awaited + 1
                   PROVE  task'[x] = "ok" /\ stepStatus'[x] = "completed"
        OBVIOUS
      <4>1. x # awaited + 1 /\ (x < awaited \/ x = awaited)
        BY <1>0
      <4>2. task[x] = "ok"
        BY <1>0, <1>1, <4>1 DEF Forward
      <4>3. x < awaited => stepStatus[x] = "completed" /\ x # awaited
        BY <1>0, <1>1 DEF Forward
      <4> QED BY <2>2, <4>1, <4>2, <4>3
    <3>3. \A x \in Positions : x >= awaited + 1 => stepStatus'[x] \in {"pending", "running"}
      <4> SUFFICES ASSUME NEW x \in Positions, x >= awaited + 1
                   PROVE  stepStatus'[x] \in {"pending", "running"}
        OBVIOUS
      <4>1. x >= awaited /\ x # awaited
        BY <1>0
      <4>2. stepStatus[x] \in {"pending", "running"}
        BY <1>0, <1>1, <4>1 DEF Forward
      <4> QED BY <2>2, <4>1, <4>2
    <3>4. ~shape.parallel => \A x \in Positions : x > awaited + 1 => task'[x] = "none"
      <4> SUFFICES ASSUME ~shape.parallel, NEW x \in Positions, x > awaited + 1 PROVE task'[x] = "none"
        OBVIOUS
      <4>1. x > awaited /\ x # awaited + 1
        BY <1>0
      <4> QED BY <1>0, <1>1, <2>2, <4>1 DEF Forward
    <3> QED BY <1>0, <1>1, <2>1, <3>1, <3>2, <3>3, <3>4 DEF Forward
  <2>5. MetricsFollow' /\ NotBegun' /\ Backward' /\ Finished'
    BY <1>0, <1>1, <2>1 DEF MetricsFollow, NotBegun, Backward, Finished
  <2> QED BY <2>3, <2>4, <2>5 DEF AsInv
<1> QED BY <1>2, <1>3

(* Every step of a saga keeps the invariant. *)
LEMMA AsInvStep == AsInv /\ [AdapterSagaNext]_adapterSagaVars => AsInv'
<1> SUFFICES ASSUME AsInv, [AdapterSagaNext]_adapterSagaVars PROVE AsInv'
  OBVIOUS
<1>0. /\ AsTypeOK /\ MetricsFollow /\ NotBegun /\ Forward /\ Backward /\ Finished
      /\ 1 \in Positions /\ \A x \in Positions : x \in Int /\ x >= 1
  BY AdapterSagaAssumptions DEF AsInv, Positions
<1>1. CASE CreateAdapterSaga
  <2>1. /\ saga.status = "none" /\ UNCHANGED <<shape, stepStatus, task, awaited, toUndo, effect, undoTried>>
        /\ saga' = [status |-> "pending", active |-> TRUE,
                    metrics |-> [NoMetrics EXCEPT !.total = 1, !.active = 1]]
    BY <1>1 DEF CreateAdapterSaga
  <2>2. [NoMetrics EXCEPT !.total = 1, !.active = 1] = Metrics(1, 0, 0)
    BY DEF NoMetrics, Metrics, MetricNames
  <2>3. saga'.status = "pending" /\ saga'.metrics = Metrics(1, 0, 0)
    BY <2>1, <2>2
  <2>4. saga' \in [status : {"none", "pending", "running", "compensating", "completed", "compensated"},
                   active : BOOLEAN,
                   metrics : {NoMetrics, Metrics(1, 0, 0), Metrics(0, 1, 0), Metrics(0, 0, 1)}]
    BY <2>1, <2>2
  <2>5. AsTypeOK'
    BY <1>0, <2>1, <2>4 DEF AsTypeOK
  <2> QED BY <1>0, <2>1, <2>3, <2>5 DEF AsInv, MetricsFollow, NotBegun, Forward, Backward, Finished
<1>2. CASE ExecuteAdapterSaga
  <2> DEFINE S == IF shape.parallel THEN Positions ELSE {1}
  <2>1. /\ saga.status = "pending" /\ saga' = [saga EXCEPT !.status = "running"]
        /\ task' = [s \in Positions |-> IF s \in S THEN "trying" ELSE task[s]]
        /\ stepStatus' = [s \in Positions |-> IF s \in S THEN "running" ELSE stepStatus[s]]
        /\ UNCHANGED <<shape, awaited, toUndo, effect, undoTried>>
    BY <1>2 DEF ExecuteAdapterSaga, Launch
  <2>2. ~shape.parallel => \A x \in Positions : x > 1 => x \notin S
    BY <1>0
  <2> HIDE DEF S
  <2>3. saga'.status = "running" /\ saga'.metrics = saga.metrics
    BY <1>0, <2>1 DEF AsTypeOK
  <2>4. AsTypeOK'
    <3>1. saga' \in [status : {"none", "pending", "running", "compensating", "completed", "compensated"},
                     active : BOOLEAN,
                     metrics : {NoMetrics, Metrics(1, 0, 0), Metrics(0, 1, 0), Metrics(0, 0, 1)}]
      BY <1>0, <2>1 DEF AsTypeOK
    <3>2. /\ task' \in [Positions -> {"none", "trying", "ok", "failed"}]
          /\ stepStatus' \in [Positions -> {"pending", "running", "completed", "failed", "compensated"}]
      BY <1>0, <2>1 DEF AsTypeOK
    <3> QED BY <1>0, <2>1, <3>1, <3>2 DEF AsTypeOK
  <2>5. Forward'
    <3>1. /\ awaited = 1 /\ effect = {} /\ undoTried = <<>>
          /\ \A s \in Positions : task[s] = "none" /\ stepStatus[s] = "pending"
      BY <1>0, <2>1 DEF NotBegun
    <3>2. \A s \in Positions : task'[s] \in {"none", "trying"} /\ stepStatus'[s] \in {"pending", "running"}
      BY <2>1, <3>1
    <3>3. ~shape.parallel => \A s \in Positions : s > awaited => task'[s] = "none"
      BY <2>1, <2>2, <3>1
    <3>4. \A s \in Positions : ~(s < awaited)
      BY <1>0, <3>1
    <3> QED BY <2>1, <3>1, <3>2, <3>3, <3>4 DEF Forward
  <2>6. MetricsFollow' /\ NotBegun' /\ Backward' /\ Finished'
    BY <1>0, <2>1, <2>3 DEF MetricsFollow, NotBegun, Backward, Finished
  <2> QED BY <2>4, <2>5, <2>6 DEF AsInv
<1>3. CASE StepCompletes
  BY <1>3, CompleteKeeps
<1>4. CASE StepFails
  BY <1>4, FailKeeps
<1>5. ASSUME NEW s \in toUndo, NEW ok \in BOOLEAN, CompensateStep(s, ok) PROVE AsInv'
  BY <1>5, CompensateKeeps
<1>6. CASE CompensationEnds
  <2>1. /\ saga.status = "compensating" /\ toUndo = {} /\ saga' = Settled("compensated")
        /\ UNCHANGED <<shape, stepStatus, task, awaited, toUndo, effect, undoTried>>
    BY <1>6 DEF CompensationEnds
  <2>2. saga.metrics = Metrics(1, 0, 0)
    BY <1>0, <2>1 DEF MetricsFollow
  <2>3. saga' = [status |-> "compensated", active |-> FALSE, metrics |-> Metrics(0, 0, 1)]
    BY <2>1, <2>2, MetricsMove DEF Settled
  <2>4. saga'.status = "compensated" /\ saga'.metrics = Metrics(0, 0, 1)
    BY <2>3
  <2>5. saga' \in [status : {"none", "pending", "running", "compensating", "completed", "compensated"},
                   active : BOOLEAN,
                   metrics : {NoMetrics, Metrics(1, 0, 0), Metrics(0, 1, 0), Metrics(0, 0, 1)}]
    BY <2>3
  <2>6. AsTypeOK'
    BY <1>0, <2>1, <2>5 DEF AsTypeOK
  <2>7. Backward'
    BY <1>0, <2>1, <2>4 DEF Backward, Precedes
  <2>8. MetricsFollow' /\ NotBegun' /\ Forward' /\ Finished'
    BY <2>4 DEF MetricsFollow, NotBegun, Forward, Finished
  <2> QED BY <2>6, <2>7, <2>8 DEF AsInv
<1>7. ASSUME NEW s \in Positions, AttemptSucceeds(s) PROVE AsInv'
  <2>1. /\ task[s] = "trying" /\ task' = [task EXCEPT ![s] = "ok"] /\ effect' = effect \cup {s}
        /\ UNCHANGED <<shape, saga, stepStatus, awaited, toUndo, undoTried>>
    BY <1>7 DEF AttemptSucceeds
  <2> QED BY <2>1, AttemptKeeps
<1>8. ASSUME NEW s \in Positions, AttemptFails(s) PROVE AsInv'
  <2>1. /\ task[s] = "trying" /\ effect' = effect
        /\ UNCHANGED <<shape, saga, stepStatus, awaited, toUndo, undoTried>>
    BY <1>8 DEF AttemptFails
  <2>2. PICK t \in {"trying", "failed"} : task' = [task EXCEPT ![s] = t]
    <3>1. CASE attempts[s] < StepRetries
      BY <1>8, <3>1 DEF AttemptFails
    <3>2. CASE ~(attempts[s] < StepRetries)
      BY <1>8, <3>2 DEF AttemptFails
    <3> QED BY <3>1, <3>2
  <2> QED BY <2>1, <2>2, AttemptKeeps
<1>9. CASE UNCHANGED adapterSagaVars
  <2>1. UNCHANGED <<shape, saga, stepStatus, task, awaited, toUndo, effect, undoTried>>
    BY <1>9 DEF adapterSagaVars
  <2>2. AsTypeOK' /\ MetricsFollow' /\ NotBegun' /\ Finished' /\ Forward'
    BY <1>0, <2>1 DEF AsTypeOK, MetricsFollow, NotBegun, Forward, Finished
  <2>3. Backward'
    BY <1>0, <2>1 DEF Backward, Precedes
  <2> QED BY <2>2, <2>3 DEF AsInv
<1> QED
  BY <1>1, <1>2, <1>3, <1>4, <1>5, <1>6, <1>7, <1>8, <1>9
     DEF AdapterSagaNext, SagaRuns, AttemptEnds

(* For any number of steps and retries, sequential and parallel sagas and both orders
   of compensation: a completed saga has every step in effect; a compensated one has
   tried every step before the failed one that can be undone, once and in order, and
   what it leaves in effect is what could not be undone and, if it was parallel, what
   comes after the step that failed. *)
THEOREM StragglersOnly == Spec => []OnlyStragglersSurvive
<1>1. Init => AsInv
  BY AsInvInit DEF Init
<1>2. AsInv /\ [Next]_vars => AsInv'
  <2>1. [Next]_vars => [AdapterSagaNext]_adapterSagaVars
    BY DEF Next, vars
  <2> QED BY <2>1, AsInvStep
<1>3. AsInv => OnlyStragglersSurvive
  <2> SUFFICES ASSUME AsInv, IsSettled PROVE OnlyStragglersSurvive
    BY DEF OnlyStragglersSurvive
  <2>0. /\ AsTypeOK /\ MetricsFollow /\ Backward /\ Finished
        /\ awaited \in Int /\ \A x \in Positions : x \in Int
    BY DEF AsInv, AsTypeOK, Positions
  <2>1. saga.metrics = [NoMetrics EXCEPT !.total = 1, ![saga.status] = 1]
    <3>1. CASE saga.status = "completed"
      BY <2>0, <3>1, MetricsMove DEF MetricsFollow
    <3>2. CASE saga.status = "compensated"
      BY <2>0, <3>2, MetricsMove DEF MetricsFollow
    <3> QED BY <3>1, <3>2 DEF IsSettled
  <2>2. saga.status = "completed" => effect = Positions /\ undoTried = <<>>
    BY <2>0 DEF Finished
  <2>3. ASSUME saga.status = "compensated"
        PROVE  /\ stepStatus[awaited] = "failed"
               /\ ToSet(undoTried) = {s \in Undoable : s < awaited}
               /\ \A i, j \in DOMAIN undoTried : i < j => Precedes(undoTried[i], undoTried[j])
    <3>1. DOMAIN undoTried = 1..Len(undoTried)
      BY <2>0, LenProperties DEF AsTypeOK
    <3> QED BY <2>0, <2>3, <3>1 DEF Backward
  <2>4. ASSUME saga.status = "compensated", NEW s \in effect
        PROVE  \/ s < awaited /\ (s \in Undoable => stepStatus[s] = "completed")
               \/ s > awaited /\ shape.parallel
    <3>1. s \in Positions /\ s # awaited /\ s \in Int
      BY <2>0, <2>4 DEF Backward, AsTypeOK
    <3>2. s < awaited => stepStatus[s] = "completed"
      BY <2>0, <2>4, <3>1 DEF Backward
    <3>3. s > awaited => shape.parallel
      BY <2>0, <2>4, <3>1 DEF Backward
    <3> QED BY <2>0, <3>1, <3>2, <3>3
  <2> QED BY <2>1, <2>2, <2>3, <2>4 DEF OnlyStragglersSurvive
<1> QED BY <1>1, <1>2, <1>3, PTL DEF Spec
=============================================================================
