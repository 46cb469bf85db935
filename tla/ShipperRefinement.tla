------------------------- MODULE ShipperRefinement -------------------------
(***************************************************************************)
(* Proof that Shipper implements Feed, for every capacity, backoff and     *)
(* bound: what the buffer holds, and why an event that left it did.        *)
(***************************************************************************)
EXTENDS ShipperProofs

(***************************************************************************)
(* The parts of the inductive invariant.                                   *)
(***************************************************************************)
\* The buffer holds the youngest events without a gap.
Contiguous ==
  /\ Len(queue) <= enqueued
  /\ \A k \in 1..Len(queue) : queue[k] = enqueued - Len(queue) + k

\* An event that left the buffer was handed over, or had a full buffer of
\* younger events behind it when it left, or all but one.
LeftForCause ==
  \A f \in 1..(enqueued - Len(queue)) : f \in Written \/ f + Capacity <= enqueued + 1

\* While a send is under way its event has been handed over, and when it is
\* no longer at the head of the buffer then the buffer has overflowed and
\* stays full.
SendUnderWay ==
  pc = "sending" => inflight \in Written /\ (Head(queue) # inflight => Len(queue) = Capacity)

Loss == Contiguous /\ LeftForCause /\ SendUnderWay
LossInv == OrderInv /\ Loss

-----------------------------------------------------------------------------
(***************************************************************************)
(* The steps that neither enqueue nor send leave the buffer, the streams   *)
(* and the evictions as they are, and begin no send.                       *)
(***************************************************************************)
Calm ==
  /\ UNCHANGED <<queue, stream, enqueued, evicted>>
  /\ pc' = "sending" => pc = "sending" /\ UNCHANGED inflight

LEMMA CalmSteps ==
  ASSUME \/ LoopExit \/ LoopBody \/ ConnectOk \/ ConnectFail \/ BackoffWake \/ EnrollOk
         \/ EnrollClosed \/ DrainEmpty \/ SendRefused \/ SendClosed
         \/ RecvTimeout \/ RecvIgnored \/ RecvFails \/ RecvClosed \/ SleepWake
         \/ Stop \/ Network \/ UNCHANGED vars
  PROVE  Calm
<1> USE DEF Calm, conn, wire, feed
<1>1. CASE LoopExit \/ LoopBody \/ ConnectOk \/ ConnectFail \/ BackoffWake
  BY <1>1 DEF LoopExit, LoopBody, ConnectOk, ConnectFail, BackoffWake
<1>2. CASE EnrollOk \/ EnrollClosed \/ DrainEmpty \/ SendRefused \/ SendClosed
  BY <1>2 DEF EnrollOk, EnrollClosed, DrainEmpty, SendRefused, SendClosed
<1>3. CASE RecvTimeout \/ RecvIgnored \/ RecvFails \/ RecvClosed \/ SleepWake
  BY <1>3 DEF RecvTimeout, RecvIgnored, RecvFails, RecvClosed, SleepWake, TakeCommand
<1>4. CASE Stop \/ Network
  BY <1>4 DEF Stop, Network, Break, Deliver
<1>5. CASE UNCHANGED vars
  BY <1>5 DEF vars
<1> QED BY <1>1, <1>2, <1>3, <1>4, <1>5

LEMMA CalmKeepsLoss ==
  ASSUME Loss, Calm
  PROVE  Loss'
<1>1. Contiguous' /\ LeftForCause'
  BY DEF Loss, Calm, Contiguous, LeftForCause, Written
<1>2. SendUnderWay'
  BY DEF Loss, Calm, SendUnderWay, Written
<1> QED BY <1>1, <1>2 DEF Loss

(***************************************************************************)
(* Appending keeps the buffer without a gap; what a full buffer evicts has *)
(* Capacity younger events behind it.                                      *)
(***************************************************************************)
LEMMA EnqueueKeepsLoss ==
  ASSUME TypeOK, PopsTheSentEvent, Loss, Enqueue, UNCHANGED stream,
         pc' = "sending" => pc = "sending" /\ UNCHANGED inflight
  PROVE  Loss'
<1>1. /\ queue \in Seq(Events) /\ Len(queue) \in Nat /\ Len(queue) <= Capacity
      /\ enqueued \in Nat /\ enqueued' = enqueued + 1 /\ Capacity \in Nat \ {0}
      /\ queue' \in Seq(Events) /\ queue' # <<>> /\ Written' = Written
  BY EnqueueEffect, CapacityAssumption DEF TypeOK, Enqueue, Written
<1>2. CASE Full
  <2>1. /\ Len(queue) = Capacity /\ Len(queue') = Capacity
        /\ \A i \in 1..(Len(queue) - 1) : queue'[i] = queue[i + 1]
        /\ queue'[Len(queue)] = enqueued + 1
    BY <1>2, EnqueueEffect DEF Full
  <2>2. Contiguous'
    <3>1. ASSUME NEW k \in 1..Capacity PROVE queue'[k] = enqueued + 1 - Capacity + k
      <4>1. CASE k = Capacity
        BY <1>1, <2>1, <4>1
      <4>2. CASE k # Capacity
        BY <1>1, <2>1, <4>2 DEF Loss, Contiguous
      <4> QED BY <4>1, <4>2
    <3> QED BY <1>1, <2>1, <3>1 DEF Loss, Contiguous
  <2>3. LeftForCause'
    <3> SUFFICES ASSUME NEW f \in 1..(enqueued + 1 - Capacity)
                 PROVE  f \in Written \/ f + Capacity <= enqueued + 2
      BY <1>1, <2>1 DEF LeftForCause
    <3> QED BY <1>1
  <2>4. SendUnderWay'
    BY <1>1, <2>1 DEF Loss, SendUnderWay
  <2> QED BY <2>2, <2>3, <2>4 DEF Loss
<1>3. CASE ~Full
  <2>1. /\ Len(queue) < Capacity /\ Len(queue') = Len(queue) + 1
        /\ \A i \in 1..Len(queue) : queue'[i] = queue[i]
        /\ queue'[Len(queue) + 1] = enqueued + 1
    BY <1>1, <1>3, EnqueueEffect DEF Full
  <2>2. Contiguous'
    BY <1>1, <2>1 DEF Loss, Contiguous
  <2>3. LeftForCause'
    <3> SUFFICES ASSUME NEW f \in 1..(enqueued - Len(queue))
                 PROVE  f \in Written \/ f + Capacity <= enqueued + 2
      BY <1>1, <2>1 DEF LeftForCause
    <3>1. f \in Written \/ f + Capacity <= enqueued + 1
      BY DEF Loss, LeftForCause
    <3> QED BY <1>1, <3>1
  <2>4. SendUnderWay'
    <3> SUFFICES ASSUME pc = "sending", UNCHANGED inflight
                 PROVE  inflight \in Written /\ Head(queue') = inflight
      BY <1>1 DEF SendUnderWay
    <3>1. queue # <<>> /\ Head(queue) = inflight /\ inflight \in Written
      BY <2>1 DEF Loss, SendUnderWay, PopsTheSentEvent
    <3>2. Head(queue') = Head(queue)
      BY <1>1, <2>1, <3>1
    <3> QED BY <3>1, <3>2
  <2> QED BY <2>2, <2>3, <2>4 DEF Loss
<1> QED BY <1>2, <1>3

(***************************************************************************)
(* Handing the head of the buffer to the connection adds it, and nothing   *)
(* else, to what was handed over.                                          *)
(***************************************************************************)
LEMMA StartSendWrites ==
  ASSUME TypeOK, StartSend
  PROVE  /\ ws \in Conns /\ queue # <<>> /\ 1 \in 1..Len(queue) /\ Head(queue) = queue[1]
         /\ stream' = [stream EXCEPT ![ws] = Append(stream[ws], Head(queue))]
         /\ Written' = Written \cup {Head(queue)}
<1> DEFINE h == Head(queue)
<1>1. /\ ws \in Conns /\ queue \in Seq(Events) /\ queue # <<>> /\ 1 \in 1..Len(queue) /\ h = queue[1]
      /\ h \in Events
      /\ stream' = [stream EXCEPT ![ws] = Append(stream[ws], h)]
  <2>1. queue \in Seq(Events) /\ queue # <<>> /\ ws \in open
    BY DEF TypeOK, StartSend
  <2>2. 1 \in 1..Len(queue) /\ h = queue[1] /\ h \in Events
    BY <2>1
  <2>3. ws \in Conns
    BY <2>1, BoundsAssumption DEF TypeOK, Conns
  <2> QED BY <2>1, <2>2, <2>3 DEF StartSend
<1>2. \A c \in Conns : stream[c] \in Seq(Events) /\ Len(stream[c]) \in Nat
  BY DEF TypeOK
<1>3. /\ \A c \in Conns : c # ws => stream'[c] = stream[c]
      /\ Len(stream'[ws]) = Len(stream[ws]) + 1
      /\ \A i \in 1..Len(stream[ws]) : stream'[ws][i] = stream[ws][i]
      /\ stream'[ws][Len(stream[ws]) + 1] = h
  BY <1>1, <1>2 DEF TypeOK
<1>4. ASSUME NEW e PROVE e \in Written' <=> e \in Written \cup {h}
  <2>1. e \in Written <=> \E c \in Conns : \E i \in 1..Len(stream[c]) : e = stream[c][i]
    BY DEF Written
  <2>2. e \in Written' <=> \E c \in Conns : \E i \in 1..Len(stream'[c]) : e = stream'[c][i]
    BY DEF Written
  <2>3. ASSUME e \in Written PROVE e \in Written'
    <3>1. PICK c \in Conns : \E i \in 1..Len(stream[c]) : e = stream[c][i]
      BY <2>1, <2>3
    <3>2. PICK i \in 1..Len(stream[c]) : e = stream[c][i]
      BY <3>1
    <3>3. i \in 1..Len(stream'[c]) /\ e = stream'[c][i]
      BY <1>2, <1>3, <3>2
    <3> QED BY <2>2, <3>3
  <2>4. h \in Written'
    <3>1. Len(stream[ws]) + 1 \in 1..Len(stream'[ws])
      BY <1>1, <1>2, <1>3
    <3> QED BY <1>1, <1>3, <3>1 DEF Written
  <2>5. ASSUME e \in Written', e # h PROVE e \in Written
    <3>1. PICK c \in Conns : \E i \in 1..Len(stream'[c]) : e = stream'[c][i]
      BY <2>2, <2>5
    <3>2. PICK i \in 1..Len(stream'[c]) : e = stream'[c][i]
      BY <3>1
    <3>3. i \in 1..Len(stream[c]) /\ e = stream[c][i]
      BY <1>2, <1>3, <2>5, <3>2
    <3> QED BY <2>1, <3>3
  <2> QED BY <2>3, <2>4, <2>5
<1> QED BY <1>1, <1>4

LEMMA StartSendKeepsLoss ==
  ASSUME TypeOK, Loss, StartSend
  PROVE  Loss'
<1>1. UNCHANGED <<queue, enqueued>> /\ inflight' = Head(queue) /\ Written' = Written \cup {Head(queue)}
  BY StartSendWrites DEF StartSend, feed
<1> QED BY <1>1 DEF Loss, Contiguous, LeftForCause, SendUnderWay

(***************************************************************************)
(* popleft() takes off the event that was handed over, or one that has a   *)
(* buffer full of younger ones behind it.                                  *)
(***************************************************************************)
LEMMA SendDoneKeepsLoss ==
  ASSUME TypeOK, PopsTheSentEvent, Loss, SendDone
  PROVE  Loss'
<1>1. /\ queue \in Seq(Events) /\ queue # <<>> /\ pc = "sending"
      /\ Len(queue) \in Nat \ {0} /\ Len(queue') = Len(queue) - 1 /\ Head(queue) = queue[1]
      /\ \A k \in 1..Len(queue') : k + 1 \in 1..Len(queue) /\ queue'[k] = queue[k + 1]
      /\ enqueued \in Nat /\ enqueued' = enqueued /\ Capacity \in Nat
  BY CapacityAssumption DEF TypeOK, PopsTheSentEvent, SendDone
<1>2. Written' = Written
  BY DEF SendDone, wire, Written
<1>3. Contiguous'
  BY <1>1 DEF Loss, Contiguous
<1>4. LeftForCause'
  <2> SUFFICES ASSUME NEW f \in 1..(enqueued - Len(queue) + 1)
               PROVE  f \in Written \/ f + Capacity <= enqueued + 1
    BY <1>1, <1>2 DEF LeftForCause
  <2>1. CASE f \in 1..(enqueued - Len(queue))
    BY <2>1 DEF Loss, LeftForCause
  <2>2. CASE f = enqueued - Len(queue) + 1
    <3>1. 1 \in 1..Len(queue) /\ f = Head(queue)
      BY <1>1, <2>2 DEF Loss, Contiguous
    <3>2. f \in Written \/ Len(queue) = Capacity
      BY <1>1, <3>1 DEF Loss, SendUnderWay
    <3>3. Len(queue) = Capacity => f + Capacity <= enqueued + 1
      <4>1. Len(queue) \in Nat /\ enqueued \in Nat
        BY <1>1
      <4> QED BY <2>2, <4>1
    <3> QED BY <3>2, <3>3
  <2>3. Len(queue) \in Nat /\ enqueued \in Nat /\ f \in Int
    BY <1>1
  <2>4. f \in 1..(enqueued - Len(queue)) \/ f = enqueued - Len(queue) + 1
    BY <2>3
  <2> QED BY <2>1, <2>2, <2>4
<1>5. SendUnderWay'
  BY DEF SendDone, SendUnderWay
<1> QED BY <1>3, <1>4, <1>5 DEF Loss

LEMMA LossInit == Init => LossInv
<1> SUFFICES ASSUME Init PROVE Loss
  BY OrderInit DEF LossInv
<1>1. queue = <<>> /\ Len(queue) = 0 /\ enqueued = 0 /\ pc = "loop"
  BY DEF Init
<1> QED BY <1>1 DEF Loss, Contiguous, LeftForCause, SendUnderWay

LEMMA LossNext == LossInv /\ [Next]_vars => LossInv'
<1> SUFFICES ASSUME TypeOK, PopsTheSentEvent, Loss, [Next]_vars PROVE Loss'
  BY OrderNext DEF LossInv, OrderInv, BufferInv
<1>1. CASE StartSend
  BY <1>1, StartSendKeepsLoss
<1>2. CASE SendDone
  BY <1>2, SendDoneKeepsLoss
<1>3. CASE Produce
  BY <1>3, EnqueueKeepsLoss DEF Produce, wire
<1>4. CASE RecvAnswered
  BY <1>4, EnqueueKeepsLoss DEF RecvAnswered, TakeCommand, wire
<1>5. CASE ~(StartSend \/ SendDone \/ Produce \/ RecvAnswered)
  <2>1. Calm
    BY <1>5, CalmSteps DEF Next, Run
  <2> QED BY <2>1, CalmKeepsLoss
<1> QED BY <1>1, <1>2, <1>3, <1>4, <1>5

-----------------------------------------------------------------------------
(***************************************************************************)
(* Refinement: the send of the head of the buffer is Feed's Emit, enqueue  *)
(* is its Produce, and every other step changes nothing Feed speaks of.    *)
(***************************************************************************)
LEMMA GivenIsWritten == Promise!Given = Written
BY DEF Promise!Given, Promise!On, Written

LEMMA SendEmits ==
  ASSUME LossInv, StartSend
  PROVE  Promise!Emit(ws, Head(queue))
<1> DEFINE e == Head(queue)
<1>1. /\ TypeOK /\ Order /\ Loss /\ ws \in open /\ pc # "sending"
      /\ queue \in Seq(Events) /\ enqueued \in Nat /\ Capacity \in Nat \ {0} /\ Len(queue) <= Capacity
  BY CapacityAssumption DEF LossInv, OrderInv, BufferInv, TypeOK, StartSend
<1>2. /\ ws \in Conns /\ ws = opened /\ 1 \in 1..Len(queue) /\ e = queue[1] /\ Len(queue) \in Nat
      /\ stream' = [stream EXCEPT ![ws] = Append(stream[ws], e)]
  <2>1. ws \in Conns /\ ws # NoConn
    <3>1. ws \in Conns
      BY <1>1, StartSendWrites
    <3> QED BY <3>1, BoundsAssumption DEF Conns, NoConn
  <2>2. ws = opened
    BY <1>1, <2>1 DEF Order, HoldsNewest
  <2>3. Len(queue) \in Nat
    BY <1>1
  <2> QED BY <1>1, <2>1, <2>2, <2>3, StartSendWrites
<1>3. e = enqueued - Len(queue) + 1 /\ Len(queue) <= enqueued
  BY <1>1, <1>2 DEF Loss, Contiguous
<1>4. e \in 1..enqueued /\ enqueued < e + Capacity
  BY <1>1, <1>2, <1>3
<1>5. \A d \in Conns : ws < d => stream[d] = <<>>
  BY <1>1, <1>2 DEF Order, UnopenedEmpty
<1>6. \A c \in Conns : \A i \in 1..Len(stream[c]) : stream[c][i] <= e
  BY <1>1, <1>2 DEF Order, Behind
<1>7. \A f \in Written : f <= e
  BY <1>6 DEF Written
<1>8. e \notin Promise!On(ws)
  <2> SUFFICES ASSUME NEW i \in 1..Len(stream[ws]) PROVE stream[ws][i] # e
    BY DEF Promise!On
  <2>1. stream[ws][i] < e
    BY <1>1, <1>2 DEF Order, Fresh
  <2>2. stream[ws] \in Seq(Events)
    BY <1>1, <1>2 DEF TypeOK
  <2> QED BY <1>3, <1>4, <2>1, <2>2, EventSeq
<1>9. \A f \in 1..(e - 1) : f \in Written \/ f + Capacity <= enqueued + 1
  BY <1>1, <1>2, <1>3 DEF Loss, LeftForCause
<1>10. enqueued' = enqueued
  BY DEF StartSend, feed
<1> QED BY <1>2, <1>4, <1>5, <1>7, <1>8, <1>9, <1>10, GivenIsWritten DEF Promise!Emit

LEMMA EveryStepIsPromised ==
  ASSUME LossInv, [Next]_vars
  PROVE  [Promise!Next]_<<enqueued, stream>>
<1>1. CASE StartSend
  <2>1. ws \in Conns /\ Head(queue) \in 1..enqueued
    BY <1>1, SendEmits, StartSendWrites DEF Promise!Emit, LossInv, OrderInv, BufferInv
  <2> QED BY <1>1, <2>1, SendEmits DEF Promise!Next
<1>2. CASE Produce \/ RecvAnswered
  BY <1>2 DEF Produce, RecvAnswered, Enqueue, wire, Promise!Next, Promise!Produce
<1>3. CASE SendDone
  BY <1>3 DEF SendDone, wire
<1>4. CASE ~(StartSend \/ SendDone \/ Produce \/ RecvAnswered)
  <2>1. Calm
    BY <1>4, CalmSteps DEF Next, Run
  <2> QED BY <2>1 DEF Calm
<1> QED BY <1>1, <1>2, <1>3, <1>4

(***************************************************************************)
(* The shipper keeps what Feed promises of a ring buffer that is replayed  *)
(* on reconnect, through lost connections, retries, commands, stop() and   *)
(* evictions beside a send that is under way.                              *)
(***************************************************************************)
THEOREM ShipperImplementsFeed == Spec => ImplementsFeed
<1>1. Init => Promise!Init
  BY DEF Init, Promise!Init
<1>2. LossInv /\ [Next]_vars => [Promise!Next]_<<enqueued, stream>>
  BY EveryStepIsPromised
<1> QED BY <1>1, <1>2, LossInit, LossNext, PTL DEF Spec, ImplementsFeed, Promise!Spec
=============================================================================
