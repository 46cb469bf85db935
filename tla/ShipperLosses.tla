--------------------------- MODULE ShipperLosses ---------------------------
(***************************************************************************)
(* Proofs about what Shipper loses and leaks, for every capacity, backoff  *)
(* and bound: each event lost unsent is paid for by a warning, and each    *)
(* connection left open by a failed command.                               *)
(***************************************************************************)
EXTENDS ShipperRefinement, FiniteSetTheorems

(***************************************************************************)
(* An eviction may hit the event that is being sent.  That event was       *)
(* handed over, so its warning is not yet used up; popleft() then takes a  *)
(* younger event off the buffer and loses it without a warning of its own. *)
(* Owed is the event whose warning is still to be used.                    *)
(***************************************************************************)
Owed == IF pc = "sending" /\ inflight \in evicted THEN {inflight} ELSE {}
Charged == Lost \cup Owed

EvictedIsOlder == \A e \in evicted : e <= enqueued - Len(queue)
ChargesAreWarned == Cardinality(Charged) <= Cardinality(evicted)

WarnedInv == LossInv /\ EvictedIsOlder /\ ChargesAreWarned

-----------------------------------------------------------------------------
(***************************************************************************)
(* Counting: a set grows by at most x, or trades y for x.                  *)
(***************************************************************************)
LEMMA CountGrown ==
  ASSUME NEW C, NEW D, NEW x, IsFiniteSet(C), D \subseteq C \cup {x}
  PROVE  Cardinality(D) <= Cardinality(C) + 1
<1>1. IsFiniteSet(C \cup {x}) /\ Cardinality(C \cup {x}) <= Cardinality(C) + 1
  <2>1. Cardinality(C) \in Nat
    BY FS_CardinalityType
  <2>2. /\ IsFiniteSet(C \cup {x})
        /\ Cardinality(C \cup {x}) = IF x \in C THEN Cardinality(C) ELSE Cardinality(C) + 1
    BY FS_AddElement
  <2> QED BY <2>1, <2>2
<1>2. Cardinality(D) <= Cardinality(C \cup {x}) /\ IsFiniteSet(D)
  BY <1>1, FS_Subset
<1> QED BY <1>1, <1>2, FS_CardinalityType

LEMMA CountTraded ==
  ASSUME NEW C, NEW D, NEW x, NEW y \in C, IsFiniteSet(C), D \subseteq (C \ {y}) \cup {x}
  PROVE  Cardinality(D) <= Cardinality(C)
<1>1. IsFiniteSet(C \ {y}) /\ Cardinality(C \ {y}) = Cardinality(C) - 1
  BY FS_RemoveElement
<1>2. Cardinality(D) <= Cardinality(C \ {y}) + 1
  BY <1>1, CountGrown
<1>3. Cardinality(C) \in Nat
  BY FS_CardinalityType
<1> QED BY <1>1, <1>2, <1>3

(***************************************************************************)
(* Everything counted is finite.                                           *)
(***************************************************************************)
LEMMA FiniteCounts ==
  ASSUME TypeOK
  PROVE  /\ IsFiniteSet(evicted) /\ IsFiniteSet(Lost) /\ IsFiniteSet(Charged)
         /\ Cardinality(evicted) \in Nat /\ Cardinality(Charged) \in Nat
<1>1. IsFiniteSet(1..MaxEvents) /\ evicted \subseteq 1..MaxEvents
  BY FS_Interval, BoundsAssumption DEF TypeOK, Events
<1>2. IsFiniteSet(1..enqueued)
  BY FS_Interval DEF TypeOK
<1>3. Lost \subseteq 1..enqueued /\ Charged \subseteq (1..enqueued) \cup {inflight}
  BY DEF Lost, Owed, Charged
<1>4. IsFiniteSet((1..enqueued) \cup {inflight})
  BY <1>2, FS_AddElement
<1>5. IsFiniteSet(evicted) /\ IsFiniteSet(Lost) /\ IsFiniteSet(Charged)
  BY <1>1, <1>2, <1>3, <1>4, FS_Subset
<1> QED BY <1>5, FS_CardinalityType

(***************************************************************************)
(* A step that loses nothing and evicts nothing charges nothing.           *)
(***************************************************************************)
LEMMA NothingCharged ==
  ASSUME TypeOK, ChargesAreWarned, Charged' \subseteq Charged, evicted' = evicted
  PROVE  ChargesAreWarned'
<1>1. Cardinality(Charged') <= Cardinality(Charged)
  BY FiniteCounts, FS_Subset
<1>2. Cardinality(Charged') \in Nat
  BY FiniteCounts, FS_Subset, FS_CardinalityType
<1> QED BY <1>1, <1>2, FiniteCounts DEF ChargesAreWarned

LEMMA CalmCharges ==
  ASSUME TypeOK, EvictedIsOlder, ChargesAreWarned, Calm
  PROVE  EvictedIsOlder' /\ ChargesAreWarned'
<1>1. Lost' = Lost /\ evicted' = evicted /\ Owed' \subseteq Owed
  BY DEF Calm, Lost, Queued, Written, Owed
<1>2. Charged' \subseteq Charged
  BY <1>1 DEF Charged
<1> QED BY <1>1, <1>2, NothingCharged DEF Calm, EvictedIsOlder

(***************************************************************************)
(* The event that is about to be sent is still buffered, so no eviction    *)
(* has met it.                                                             *)
(***************************************************************************)
LEMMA StartSendCharges ==
  ASSUME TypeOK, EvictedIsOlder, ChargesAreWarned, Loss, StartSend
  PROVE  EvictedIsOlder' /\ ChargesAreWarned'
<1>1. /\ UNCHANGED <<queue, enqueued, evicted>> /\ inflight' = Head(queue) /\ Head(queue) = queue[1]
      /\ Written' = Written \cup {Head(queue)} /\ 1 \in 1..Len(queue)
  BY StartSendWrites DEF StartSend, feed
<1>2. Lost' \subseteq Lost
  BY <1>1 DEF Lost, Queued
<1>3. Head(queue) \notin evicted
  <2>1. Len(queue) \in Nat /\ enqueued \in Nat /\ Head(queue) = enqueued - Len(queue) + 1
    BY <1>1 DEF TypeOK, Loss, Contiguous
  <2>2. Head(queue) \in evicted => Head(queue) <= enqueued - Len(queue)
    BY DEF EvictedIsOlder
  <2> QED BY <2>1, <2>2
<1>4. Owed' = {}
  BY <1>1, <1>3 DEF Owed
<1>5. Charged' \subseteq Charged
  BY <1>2, <1>4 DEF Charged
<1> QED BY <1>1, <1>5, NothingCharged DEF EvictedIsOlder

(***************************************************************************)
(* popleft() takes off the event that was sent, or uses up the warning of  *)
(* the event that was evicted beside the send.                             *)
(***************************************************************************)
LEMMA SendDoneCharges ==
  ASSUME TypeOK, PopsTheSentEvent, EvictedIsOlder, ChargesAreWarned, Loss, SendDone
  PROVE  EvictedIsOlder' /\ ChargesAreWarned'
<1>1. /\ queue \in Seq(Events) /\ queue # <<>> /\ pc = "sending" /\ pc' = "drain"
      /\ Len(queue) \in Nat \ {0} /\ Len(queue') = Len(queue) - 1 /\ Head(queue) = queue[1]
      /\ \A k \in 2..Len(queue) : k - 1 \in 1..Len(queue') /\ queue[k] = queue'[k - 1]
      /\ enqueued \in Nat /\ enqueued' = enqueued /\ evicted' = evicted
  BY DEF TypeOK, PopsTheSentEvent, SendDone
<1>2. Written' = Written /\ inflight \in Written
  BY <1>1 DEF SendDone, wire, Written, Loss, SendUnderWay
<1>3. Queued \subseteq Queued' \cup {Head(queue)}
  <2> SUFFICES ASSUME NEW k \in 1..Len(queue), k # 1 PROVE queue[k] \in Queued'
    BY <1>1 DEF Queued
  <2>1. k \in 2..Len(queue)
    BY <1>1
  <2> QED BY <1>1, <2>1 DEF Queued
<1>4. Lost' \subseteq Lost \cup {Head(queue)} /\ Owed' = {}
  BY <1>1, <1>2, <1>3 DEF Lost, Owed
<1>5. EvictedIsOlder'
  <2> SUFFICES ASSUME NEW e \in evicted PROVE e <= enqueued - (Len(queue) - 1)
    BY <1>1 DEF EvictedIsOlder
  <2>1. e \in Nat /\ e <= enqueued - Len(queue)
    BY BoundsAssumption DEF TypeOK, Events, EvictedIsOlder
  <2> QED BY <1>1, <2>1
<1>6. CASE Head(queue) = inflight
  <2>1. Charged' \subseteq Charged
    BY <1>2, <1>4, <1>6 DEF Charged, Lost
  <2> QED BY <1>1, <1>5, <2>1, NothingCharged
<1>7. CASE Head(queue) # inflight
  <2>1. inflight \in Charged /\ inflight \notin Lost
    BY <1>1, <1>2, <1>7 DEF PopsTheSentEvent, Owed, Charged, Lost
  <2>2. Charged' \subseteq (Charged \ {inflight}) \cup {Head(queue)}
    BY <1>4, <2>1 DEF Charged
  <2>3. Cardinality(Charged') <= Cardinality(Charged) /\ Cardinality(Charged') \in Nat
    <3>1. IsFiniteSet((Charged \ {inflight}) \cup {Head(queue)})
      BY FiniteCounts, FS_RemoveElement, FS_AddElement
    <3>2. IsFiniteSet(Charged')
      BY <2>2, <3>1, FS_Subset
    <3> QED BY <2>1, <2>2, <3>2, FiniteCounts, CountTraded, FS_CardinalityType
  <2> QED BY <1>1, <1>5, <2>3, FiniteCounts DEF ChargesAreWarned
<1> QED BY <1>6, <1>7

(***************************************************************************)
(* append() evicts the head of a full buffer with one new warning, whether *)
(* that event is lost thereby or is being sent.                            *)
(***************************************************************************)
LEMMA EnqueueCharges ==
  ASSUME TypeOK, EvictedIsOlder, ChargesAreWarned, Loss, Enqueue, UNCHANGED stream,
         pc' = "sending" => pc = "sending" /\ UNCHANGED inflight
  PROVE  EvictedIsOlder' /\ ChargesAreWarned'
<1>1. /\ queue \in Seq(Events) /\ Len(queue) \in Nat
      /\ enqueued \in Nat /\ enqueued' = enqueued + 1 /\ Written' = Written
      /\ queue' \in Seq(Events) /\ Len(queue') \in Nat
  BY EnqueueEffect DEF TypeOK, Enqueue, Written
<1>2. \A e \in evicted : e \in Nat /\ e <= enqueued - Len(queue)
  BY BoundsAssumption DEF TypeOK, Events, EvictedIsOlder
<1>3. CASE Full
  <2> DEFINE h == queue[1]
  <2>1. /\ Len(queue) \in Nat \ {0} /\ Len(queue') = Len(queue)
        /\ \A i \in 1..(Len(queue) - 1) : queue'[i] = queue[i + 1]
        /\ queue'[Len(queue)] = enqueued + 1
        /\ evicted' = evicted \cup {h}
    BY <1>1, <1>3, EnqueueEffect
  <2>2. h = enqueued - Len(queue) + 1
    BY <1>1, <2>1 DEF Loss, Contiguous
  <2>3. h \notin evicted
    BY <1>1, <1>2, <2>2
  <2>4. Queued \subseteq Queued' \cup {h} /\ enqueued + 1 \in Queued'
    <3>1. \A k \in 1..Len(queue) : k # 1 => k - 1 \in 1..(Len(queue) - 1) /\ k - 1 \in 1..Len(queue')
      BY <1>1, <2>1
    <3>2. \A k \in 1..Len(queue) : k # 1 => queue[k] = queue'[k - 1]
      BY <1>1, <2>1, <3>1
    <3>3. Len(queue) \in 1..Len(queue')
      BY <2>1
    <3>4. ASSUME NEW k \in 1..Len(queue) PROVE queue[k] \in Queued' \cup {h}
      <4>1. CASE k = 1
        BY <4>1
      <4>2. CASE k # 1
        BY <3>1, <3>2, <4>2 DEF Queued
      <4> QED BY <4>1, <4>2
    <3>5. Queued \subseteq Queued' \cup {h}
      <4> HIDE DEF h
      <4> QED BY <3>4 DEF Queued
    <3>6. enqueued + 1 \in Queued'
      BY <2>1, <3>3 DEF Queued
    <3> QED BY <3>5, <3>6
  <2>5. Lost' \subseteq Lost \cup {h}
    <3>1. 1..(enqueued + 1) = (1..enqueued) \cup {enqueued + 1}
      BY <1>1
    <3> QED BY <1>1, <2>4, <3>1 DEF Lost
  <2>6. Owed' \subseteq Owed \cup {h}
    BY <2>1 DEF Owed
  <2>7. Charged' \subseteq Charged \cup {h}
    BY <2>5, <2>6 DEF Charged
  <2>8. Cardinality(Charged') <= Cardinality(Charged) + 1 /\ Cardinality(Charged') \in Nat
    <3>1. IsFiniteSet(Charged')
      BY <2>7, FiniteCounts, FS_AddElement, FS_Subset
    <3> QED BY <2>7, <3>1, FiniteCounts, CountGrown, FS_CardinalityType
  <2>9. Cardinality(evicted') = Cardinality(evicted) + 1
    BY <2>1, <2>3, FiniteCounts, FS_AddElement
  <2>10. ChargesAreWarned'
    BY <2>8, <2>9, FiniteCounts DEF ChargesAreWarned
  <2>11. EvictedIsOlder'
    <3> SUFFICES ASSUME NEW e \in evicted \cup {h} PROVE e <= enqueued + 1 - Len(queue)
      BY <1>1, <2>1 DEF EvictedIsOlder
    <3>1. e \in Nat /\ (e <= enqueued - Len(queue) \/ e = enqueued - Len(queue) + 1)
      BY <1>1, <1>2, <2>1, <2>2, EventSeq
    <3> QED BY <1>1, <3>1
  <2> QED BY <2>10, <2>11
<1>4. CASE ~Full
  <2>1. /\ Len(queue') = Len(queue) + 1
        /\ \A i \in 1..Len(queue) : queue'[i] = queue[i]
        /\ queue'[Len(queue) + 1] = enqueued + 1
        /\ evicted' = evicted
    BY <1>4, EnqueueEffect
  <2>2. Queued \subseteq Queued' /\ enqueued + 1 \in Queued'
    <3>1. \A k \in 1..Len(queue) : k \in 1..Len(queue')
      BY <1>1, <2>1
    <3>2. Len(queue) + 1 \in 1..Len(queue')
      BY <1>1, <2>1
    <3> QED BY <2>1, <3>1, <3>2 DEF Queued
  <2>3. Lost' \subseteq Lost
    <3>1. 1..(enqueued + 1) = (1..enqueued) \cup {enqueued + 1}
      BY <1>1
    <3> QED BY <1>1, <2>2, <3>1 DEF Lost
  <2>4. Charged' \subseteq Charged
    BY <2>1, <2>3 DEF Owed, Charged
  <2>5. EvictedIsOlder'
    BY <1>1, <1>2, <2>1 DEF EvictedIsOlder
  <2> QED BY <2>1, <2>4, <2>5, NothingCharged
<1> QED BY <1>3, <1>4

LEMMA WarnedInit == Init => WarnedInv
<1> SUFFICES ASSUME Init PROVE EvictedIsOlder /\ ChargesAreWarned
  BY LossInit DEF WarnedInv
<1>1. enqueued = 0 /\ evicted = {} /\ pc = "loop"
  BY DEF Init
<1>2. Lost = {} /\ Owed = {}
  BY <1>1 DEF Lost, Owed
<1>3. Cardinality({}) \in Nat
  BY FS_EmptySet
<1> QED BY <1>1, <1>2, <1>3 DEF EvictedIsOlder, ChargesAreWarned, Charged

LEMMA WarnedNext == WarnedInv /\ [Next]_vars => WarnedInv'
<1> SUFFICES ASSUME TypeOK, PopsTheSentEvent, Loss, EvictedIsOlder, ChargesAreWarned, [Next]_vars
             PROVE  EvictedIsOlder' /\ ChargesAreWarned'
  BY LossNext DEF WarnedInv, LossInv, OrderInv, BufferInv
<1>1. CASE StartSend
  BY <1>1, StartSendCharges
<1>2. CASE SendDone
  BY <1>2, SendDoneCharges
<1>3. CASE Produce
  BY <1>3, EnqueueCharges DEF Produce, wire
<1>4. CASE RecvAnswered
  BY <1>4, EnqueueCharges DEF RecvAnswered, TakeCommand, wire
<1>5. CASE ~(StartSend \/ SendDone \/ Produce \/ RecvAnswered)
  <2>1. Calm
    BY <1>5, CalmSteps DEF Next, Run
  <2> QED BY <2>1, CalmCharges
<1> QED BY <1>1, <1>2, <1>3, <1>4, <1>5

(***************************************************************************)
(* The events lost before they were ever sent are at most as many as the   *)
(* warnings of a full ring buffer, also when an eviction hits the event    *)
(* that is being sent and popleft() takes off another one.                 *)
(***************************************************************************)
THEOREM EveryLossIsWarned == Spec => []LossIsWarned
<1>1. WarnedInv => LossIsWarned
  <2> SUFFICES ASSUME TypeOK, ChargesAreWarned PROVE LossIsWarned
    BY DEF WarnedInv, LossInv, OrderInv, BufferInv
  <2>1. Cardinality(Lost) <= Cardinality(Charged) /\ Cardinality(Lost) \in Nat
    BY FiniteCounts, FS_Subset, FS_CardinalityType DEF Charged
  <2> QED BY <2>1, FiniteCounts DEF ChargesAreWarned, LossIsWarned
<1> QED BY <1>1, WarnedInit, WarnedNext, PTL DEF Spec

-----------------------------------------------------------------------------
(***************************************************************************)
(* Connections that are forgotten.  connect() is called only with none in  *)
(* hand, which is what makes the counting inductive.                       *)
(***************************************************************************)
ConnectsWithNone == pc = "connecting" => ws = NoConn

HeldInv == BufferInv /\ ConnectsWithNone /\ LeaksAreFailures

LEMMA OpenIsFinite ==
  ASSUME TypeOK
  PROVE  IsFiniteSet(open) /\ IsFiniteSet(Leaked) /\ Cardinality(Leaked) \in Nat /\ NoConn \notin open
<1>1. IsFiniteSet(1..opened) /\ open \subseteq 1..opened
  BY FS_Interval DEF TypeOK
<1>2. IsFiniteSet(open) /\ IsFiniteSet(Leaked)
  BY <1>1, FS_Subset DEF Leaked
<1> QED BY <1>1, <1>2, FS_CardinalityType DEF NoConn

LEMMA NothingLeaked ==
  ASSUME TypeOK, LeaksAreFailures, Leaked' \subseteq Leaked, failed' = failed
  PROVE  LeaksAreFailures'
<1>1. Cardinality(Leaked') <= Cardinality(Leaked) /\ Cardinality(Leaked') \in Nat
  BY OpenIsFinite, FS_Subset, FS_CardinalityType
<1> QED BY <1>1, OpenIsFinite DEF TypeOK, LeaksAreFailures

LEMMA HeldNext == HeldInv /\ [Next]_vars => HeldInv'
<1> SUFFICES ASSUME TypeOK, ConnectsWithNone, LeaksAreFailures, [Next]_vars
             PROVE  ConnectsWithNone' /\ LeaksAreFailures'
  BY BufferNext DEF HeldInv, BufferInv
<1> USE DEF conn, wire, feed
<1>1. CASE RecvFails
  <2>1. Leaked' \subseteq Leaked \cup {ws} /\ failed' = failed + 1 /\ pc' = "sleep"
    BY <1>1 DEF RecvFails, Leaked
  <2>2. IsFiniteSet(Leaked')
    BY <2>1, OpenIsFinite, FS_AddElement, FS_Subset
  <2>3. Cardinality(Leaked') <= Cardinality(Leaked) + 1 /\ Cardinality(Leaked') \in Nat
    BY <2>1, <2>2, OpenIsFinite, CountGrown, FS_CardinalityType
  <2> QED BY <2>1, <2>3, OpenIsFinite DEF TypeOK, LeaksAreFailures, ConnectsWithNone
<1>2. CASE ConnectOk
  <2>1. Leaked' \subseteq Leaked /\ failed' = failed /\ pc' = "enrolling"
    BY <1>2, OpenIsFinite DEF ConnectOk, ConnectsWithNone, Leaked
  <2> QED BY <2>1, NothingLeaked DEF ConnectsWithNone
<1>3. CASE ConnectFail
  <2>1. UNCHANGED <<open, ws, failed>> /\ pc' = "backoff"
    BY <1>3 DEF ConnectFail, ConnectsWithNone
  <2> QED BY <2>1, NothingLeaked DEF ConnectsWithNone, Leaked
<1>4. CASE RecvClosed
  <2>1. Leaked' \subseteq Leaked /\ failed' = failed /\ pc' = "loop"
    BY <1>4 DEF RecvClosed, Leaked
  <2> QED BY <2>1, NothingLeaked DEF ConnectsWithNone
<1>5. CASE Stop \/ Network
  <2>1. UNCHANGED <<ws, failed, pc>> /\ open' \subseteq open
    BY <1>5 DEF Stop, Network, Break, Deliver
  <2> QED BY <2>1, NothingLeaked DEF ConnectsWithNone, Leaked
<1>6. CASE LoopExit \/ LoopBody \/ BackoffWake \/ EnrollOk \/ EnrollClosed
  <2>1. UNCHANGED <<ws, open, failed>> /\ (pc' = "connecting" => ws = NoConn)
    BY <1>6 DEF LoopExit, LoopBody, BackoffWake, EnrollOk, EnrollClosed
  <2> QED BY <2>1, NothingLeaked DEF ConnectsWithNone, Leaked
<1>7. CASE DrainEmpty \/ StartSend \/ SendRefused \/ SendDone \/ SendClosed
  <2>1. UNCHANGED <<ws, open, failed>> /\ pc' # "connecting"
    BY <1>7 DEF DrainEmpty, StartSend, SendRefused, SendDone, SendClosed
  <2> QED BY <2>1, NothingLeaked DEF ConnectsWithNone, Leaked
<1>8. CASE RecvTimeout \/ RecvAnswered \/ RecvIgnored \/ SleepWake \/ Produce \/ UNCHANGED vars
  <2>1. UNCHANGED <<ws, open, failed>> /\ (pc' = "connecting" => pc = "connecting")
    BY <1>8 DEF RecvTimeout, RecvAnswered, RecvIgnored, SleepWake, Produce, TakeCommand, vars
  <2> QED BY <2>1, NothingLeaked DEF ConnectsWithNone, Leaked
<1> QED BY <1>1, <1>2, <1>3, <1>4, <1>5, <1>6, <1>7, <1>8 DEF Next, Run

(***************************************************************************)
(* Connections that stay open though the shipper let go of them are at     *)
(* most as many as the commands whose handling failed.                     *)
(***************************************************************************)
THEOREM LeaksAreCounted == Spec => []LeaksAreFailures
<1>1. Init => HeldInv
  <2> SUFFICES ASSUME Init PROVE ConnectsWithNone /\ LeaksAreFailures
    BY BufferInit DEF HeldInv
  <2>1. Leaked = {} /\ failed = 0 /\ pc = "loop"
    BY DEF Init, Leaked
  <2> QED BY <2>1, FS_EmptySet DEF ConnectsWithNone, LeaksAreFailures
<1>2. HeldInv => LeaksAreFailures
  BY DEF HeldInv
<1> QED BY <1>1, <1>2, HeldNext, PTL DEF Spec
=============================================================================
