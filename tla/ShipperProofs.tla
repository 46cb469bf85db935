--------------------------- MODULE ShipperProofs ---------------------------
(***************************************************************************)
(* Proofs about Shipper, for every capacity, backoff and bound: the type   *)
(* invariant, the order in which events reach the connections, and what    *)
(* popleft() takes off the buffer.                                         *)
(***************************************************************************)
EXTENDS Shipper, SequenceTheorems, TLAPS

USE DEF NoConn

(***************************************************************************)
(* The parts of the inductive invariant.                                   *)
(***************************************************************************)
\* The buffer is in the order of the enqueue() calls.
QueueSorted == \A i, j \in 1..Len(queue) : i < j => queue[i] < queue[j]

\* What is buffered or was handed over has been enqueued.
QueueBounded == \A i \in 1..Len(queue) : queue[i] <= enqueued
WrittenBounded == \A c \in Conns : \A i \in 1..Len(stream[c]) : stream[c][i] <= enqueued

\* Nothing was handed to a connection that is yet to be opened, and the
\* shipper holds the newest connection or none.
UnopenedEmpty == \A c \in Conns : c > opened => stream[c] = <<>>
HoldsNewest == ws \in {NoConn, opened}

\* On the connection that is held and alive, everything buffered is still
\* to be sent, unless a send is under way.
Fresh == ws \in open /\ pc # "sending" =>
           \A i \in 1..Len(stream[ws]), k \in 1..Len(queue) : stream[ws][i] < queue[k]

\* NoOvertaking without the set Written.
Behind == \A c \in Conns : \A i \in 1..Len(stream[c]), k \in 1..Len(queue) :
            /\ stream[c][i] <= queue[k]
            /\ k > 1 => stream[c][i] < queue[k]

-----------------------------------------------------------------------------
(***************************************************************************)
(* Events are numbers: what the order of a buffer or a stream rests on.    *)
(***************************************************************************)
LEMMA EventSeq ==
  ASSUME NEW q \in Seq(Events)
  PROVE  Len(q) \in Nat /\ \A i \in 1..Len(q) : q[i] \in Events /\ q[i] \in Nat
<1>1. Len(q) \in Nat
  OBVIOUS
<1>2. \A i \in 1..Len(q) : q[i] \in Events
  BY ElementOfSeq
<1>3. \A e \in Events : e \in Nat
  BY BoundsAssumption DEF Events
<1> QED BY <1>1, <1>2, <1>3

(***************************************************************************)
(* What append() does to the buffer: it loses its head if it was full, and *)
(* ends in the new event.                                                  *)
(***************************************************************************)
LEMMA EnqueueEffect ==
  ASSUME TypeOK, Enqueue
  PROVE  /\ enqueued + 1 \in Events
         /\ queue' \in Seq(Events) /\ queue' # <<>>
         /\ Full => /\ queue # <<>>
                    /\ Len(queue') = Len(queue)
                    /\ \A i \in 1..(Len(queue) - 1) : queue'[i] = queue[i + 1]
                    /\ queue'[Len(queue)] = enqueued + 1
                    /\ evicted' = evicted \cup {queue[1]}
         /\ ~Full => /\ Len(queue') = Len(queue) + 1
                     /\ \A i \in 1..Len(queue) : queue'[i] = queue[i]
                     /\ queue'[Len(queue) + 1] = enqueued + 1
                     /\ evicted' = evicted
<1>1. enqueued + 1 \in Events
  BY BoundsAssumption DEF TypeOK, Enqueue, Events
<1>2. queue \in Seq(Events)
  BY DEF TypeOK
<1>3. CASE Full
  <2>1. queue # <<>> /\ Len(queue) \in Nat \ {0}
    BY <1>2, <1>3, CapacityAssumption DEF Full
  <2>2. /\ Tail(queue) \in Seq(Events) /\ Len(Tail(queue)) = Len(queue) - 1
        /\ \A i \in 1..(Len(queue) - 1) : Tail(queue)[i] = queue[i + 1]
        /\ Head(queue) = queue[1]
    BY <1>2, <2>1
  <2>3. queue' = Append(Tail(queue), enqueued + 1) /\ evicted' = evicted \cup {queue[1]}
    BY <1>3, <2>2 DEF Enqueue
  <2> QED BY <1>1, <1>3, <2>1, <2>2, <2>3
<1>4. CASE ~Full
  <2>1. queue' = Append(queue, enqueued + 1) /\ evicted' = evicted
    BY <1>4 DEF Enqueue
  <2> QED BY <1>1, <1>2, <1>4, <2>1
<1> QED BY <1>3, <1>4

(***************************************************************************)
(* The buffer keeps its type and its capacity.                             *)
(***************************************************************************)
LEMMA EnqueueType ==
  ASSUME TypeOK, Enqueue
  PROVE  /\ queue' \in Seq(Events) /\ Len(queue') <= Capacity
         /\ enqueued' \in 0..MaxEvents /\ evicted' \subseteq Events
<1>1. queue \in Seq(Events) /\ Len(queue) \in Nat /\ Len(queue) <= Capacity
      /\ evicted \subseteq Events /\ enqueued' = enqueued + 1
  BY DEF TypeOK, Enqueue
<1>2. Len(queue') <= Capacity
  BY <1>1, EnqueueEffect, CapacityAssumption DEF Full
<1>3. enqueued' \in 0..MaxEvents
  BY <1>1, EnqueueEffect, BoundsAssumption DEF Events
<1>4. evicted' \subseteq Events
  <2>1. Full => queue[1] \in Events
    BY <1>1, EnqueueEffect
  <2> QED BY <1>1, <2>1, EnqueueEffect
<1> QED BY <1>2, <1>3, <1>4, EnqueueEffect

(***************************************************************************)
(* Enqueueing while a send is suspended keeps the head in place or evicts  *)
(* it.                                                                     *)
(***************************************************************************)
LEMMA EnqueueKeepsHead ==
  ASSUME TypeOK, PopsTheSentEvent, pc = "sending", Enqueue, UNCHANGED inflight
  PROVE  queue' # <<>> /\ (Head(queue') = inflight' \/ inflight' \in evicted')
<1>1. queue \in Seq(Events) /\ queue # <<>> /\ queue' \in Seq(Events) /\ queue' # <<>>
  BY EnqueueEffect DEF TypeOK, PopsTheSentEvent
<1>2. Head(queue) = queue[1] /\ Head(queue') = queue'[1] /\ Len(queue) >= 1
  BY <1>1
<1>3. ~Full => Head(queue') = Head(queue)
  BY <1>1, <1>2, EnqueueEffect
<1>4. evicted \subseteq evicted' /\ (Full => queue[1] \in evicted')
  BY EnqueueEffect
<1> QED BY <1>1, <1>2, <1>3, <1>4 DEF PopsTheSentEvent

(***************************************************************************)
(* TypeOK is inductive together with PopsTheSentEvent: popleft() after a   *)
(* send keeps the buffer a sequence only because the buffer is not empty.  *)
(***************************************************************************)
BufferInv == TypeOK /\ PopsTheSentEvent

LEMMA BufferInit == Init => BufferInv
<1> SUFFICES ASSUME Init PROVE TypeOK /\ PopsTheSentEvent
  BY DEF BufferInv
<1>1. stream = [c \in Conns |-> <<>>] /\ got = [c \in Conns |-> 0]
  BY DEF Init
<1>2. stream \in [Conns -> Seq(Events)] /\ got \in [Conns -> Nat]
  BY <1>1
<1>3. \A c \in Conns : got[c] <= Len(stream[c])
  BY <1>1
<1>4. queue = <<>> /\ queue \in Seq(Events) /\ Len(queue) <= Capacity
  BY CapacityAssumption DEF Init
<1>5. backoff \in BackoffMin..BackoffMax
  BY BackoffAssumption DEF Init
<1>6. /\ enqueued = 0 /\ evicted = {} /\ ws = 0 /\ connected = FALSE
      /\ opened = 0 /\ open = {} /\ stopping = FALSE /\ pc = "loop"
      /\ inflight = 0 /\ commands = 0 /\ failed = 0
  BY DEF Init
<1>7. /\ enqueued \in 0..MaxEvents /\ evicted \subseteq Events
      /\ ws \in {NoConn} \cup Conns
      /\ opened \in 0..MaxConns /\ open \subseteq 1..opened
  BY <1>6, BoundsAssumption
<1>8. connected \in BOOLEAN /\ stopping \in BOOLEAN
  BY <1>6, Zenon
<1>9. /\ pc = "loop" /\ inflight \in {0} \cup Events
      /\ commands \in 0..MaxCommands /\ failed \in 0..commands
  BY <1>6, BoundsAssumption
<1> QED BY <1>2, <1>3, <1>4, <1>5, <1>7, <1>9, <1>8 DEF TypeOK, PopsTheSentEvent, Straight

LEMMA BufferNext == BufferInv /\ [Next]_vars => BufferInv'
<1> SUFFICES ASSUME TypeOK, PopsTheSentEvent, [Next]_vars
             PROVE  TypeOK' /\ PopsTheSentEvent'
  BY DEF BufferInv
<1> USE DEF conn, wire, feed, Awaiting, Ended, Straight
<1>1. CASE LoopExit \/ LoopBody
  BY <1>1 DEF TypeOK, PopsTheSentEvent, LoopExit, LoopBody
<1>2. CASE ConnectOk
  BY <1>2, BoundsAssumption DEF TypeOK, PopsTheSentEvent, ConnectOk, Conns
<1>3. CASE ConnectFail
  BY <1>3 DEF TypeOK, PopsTheSentEvent, ConnectFail
<1>4. CASE BackoffWake
  BY <1>4, BackoffAssumption DEF TypeOK, PopsTheSentEvent, BackoffWake, Min2
<1>5. CASE EnrollOk
  BY <1>5, BackoffAssumption DEF TypeOK, PopsTheSentEvent, EnrollOk
<1>6. CASE DrainEmpty
  BY <1>6 DEF TypeOK, PopsTheSentEvent, DrainEmpty
<1>7. CASE StartSend
  <2>1. Head(queue) \in Events /\ ws \in Conns
    BY <1>7, BoundsAssumption DEF StartSend, TypeOK, Conns
  <2>2. stream' = [stream EXCEPT ![ws] = Append(stream[ws], Head(queue))]
    BY <1>7 DEF StartSend
  <2>3. stream' \in [Conns -> Seq(Events)]
    BY <2>1, <2>2 DEF TypeOK
  <2>4. \A c \in Conns : Len(stream[c]) <= Len(stream'[c])
    BY <2>1, <2>2 DEF TypeOK
  <2>5. \A c \in Conns : got'[c] <= Len(stream'[c])
    BY <1>7, <2>3, <2>4 DEF StartSend, TypeOK
  <2> QED BY <1>7, <2>1, <2>3, <2>5 DEF StartSend, TypeOK, PopsTheSentEvent
<1>8. CASE SendRefused
  <2>1. Head(queue) \in Events
    BY <1>8 DEF SendRefused, TypeOK
  <2> QED BY <1>8, <2>1 DEF TypeOK, PopsTheSentEvent, SendRefused
<1>9. CASE SendDone
  <2>1. queue # <<>> /\ queue \in Seq(Events)
    BY <1>9 DEF SendDone, PopsTheSentEvent, TypeOK
  <2>2. Tail(queue) \in Seq(Events) /\ Len(Tail(queue)) <= Len(queue)
    BY <2>1
  <2> QED BY <1>9, <2>2, CapacityAssumption DEF TypeOK, PopsTheSentEvent, SendDone
<1>10. CASE SendClosed
  BY <1>10 DEF TypeOK, PopsTheSentEvent, SendClosed
<1>11. CASE RecvTimeout \/ RecvClosed \/ SleepWake
  BY <1>11 DEF TypeOK, PopsTheSentEvent, RecvTimeout, RecvClosed, SleepWake
<1>12. CASE RecvAnswered
  BY <1>12, EnqueueType, BoundsAssumption
  DEF TypeOK, PopsTheSentEvent, RecvAnswered, TakeCommand
<1>13. CASE RecvIgnored
  BY <1>13, BoundsAssumption DEF TypeOK, PopsTheSentEvent, RecvIgnored, TakeCommand
<1>14. CASE RecvFails
  BY <1>14, BoundsAssumption DEF TypeOK, PopsTheSentEvent, RecvFails, TakeCommand
<1>15. CASE Produce
  <2>1. TypeOK'
    BY <1>15, EnqueueType DEF TypeOK, Produce
  <2>2. PopsTheSentEvent'
    BY <1>15, EnqueueKeepsHead DEF PopsTheSentEvent, Produce
  <2> QED BY <2>1, <2>2
<1>16. CASE Stop
  BY <1>16 DEF TypeOK, PopsTheSentEvent, Stop
<1>17. CASE \E c \in Conns : Break(c)
  BY <1>17 DEF TypeOK, PopsTheSentEvent, Break
<1>18. CASE \E c \in Conns : Deliver(c)
  BY <1>18 DEF TypeOK, PopsTheSentEvent, Deliver
<1>19. CASE UNCHANGED vars
  BY <1>19 DEF TypeOK, PopsTheSentEvent, vars
<1>20. CASE EnrollClosed
  BY <1>20 DEF TypeOK, PopsTheSentEvent, EnrollClosed
<1> QED
  BY <1>1, <1>2, <1>3, <1>4, <1>5, <1>6, <1>7, <1>8, <1>9, <1>10, <1>11, <1>12,
     <1>13, <1>14, <1>15, <1>16, <1>17, <1>18, <1>19, <1>20 DEF Next, Run, Network

(***************************************************************************)
(* Every variable keeps its type: the buffer its capacity, the backoff its *)
(* range, the server's reading position its stream.                        *)
(***************************************************************************)
THEOREM TypeCorrect == Spec => []TypeOK
<1>1. BufferInv => TypeOK
  BY DEF BufferInv
<1> QED BY <1>1, BufferInit, BufferNext, PTL DEF Spec

(***************************************************************************)
(* popleft() after a completed send finds an event, and it is the one that *)
(* was sent unless append() evicted that one while send() was suspended.   *)
(***************************************************************************)
THEOREM PopCorrect == Spec => []PopsTheSentEvent
<1>1. BufferInv => PopsTheSentEvent
  BY DEF BufferInv
<1> QED BY <1>1, BufferInit, BufferNext, PTL DEF Spec

-----------------------------------------------------------------------------
(***************************************************************************)
(* The order of the events.  Most steps change neither the buffer nor the  *)
(* streams; they may forget or lose the connection that is held, and when  *)
(* they end a send without popleft() that connection is lost.              *)
(***************************************************************************)
Quiet ==
  /\ UNCHANGED <<queue, stream, enqueued, opened>>
  /\ ws' \in {ws, NoConn}
  /\ open' \subseteq open
  /\ pc = "sending" /\ pc' # "sending" => ws' \notin open'

LEMMA QuietSteps ==
  ASSUME TypeOK,
         \/ LoopExit \/ LoopBody \/ ConnectFail \/ BackoffWake \/ EnrollOk
         \/ EnrollClosed \/ DrainEmpty \/ SendRefused \/ SendClosed
         \/ RecvTimeout \/ RecvIgnored \/ RecvFails \/ RecvClosed \/ SleepWake
         \/ Stop \/ Network \/ UNCHANGED vars
  PROVE  Quiet
<1> USE DEF Quiet, conn, wire, feed
<1>1. 0 \notin open
  BY DEF TypeOK
<1>2. CASE LoopExit \/ LoopBody \/ ConnectFail \/ BackoffWake
  BY <1>2 DEF LoopExit, LoopBody, ConnectFail, BackoffWake
<1>3. CASE EnrollOk \/ EnrollClosed \/ DrainEmpty \/ SendRefused \/ SendClosed
  BY <1>3 DEF EnrollOk, EnrollClosed, DrainEmpty, SendRefused, SendClosed
<1>4. CASE RecvTimeout \/ RecvIgnored \/ RecvFails \/ RecvClosed \/ SleepWake
  BY <1>4 DEF RecvTimeout, RecvIgnored, RecvFails, RecvClosed, SleepWake, TakeCommand
<1>5. CASE Stop
  BY <1>5 DEF Stop
<1>6. CASE Network
  BY <1>6 DEF Network, Break, Deliver
<1>7. CASE UNCHANGED vars
  BY <1>7 DEF vars
<1> QED BY <1>2, <1>3, <1>4, <1>5, <1>6, <1>7

\* The order invariant without its typing part.
Order ==
  /\ QueueSorted /\ QueueBounded /\ WrittenBounded
  /\ UnopenedEmpty /\ HoldsNewest /\ Fresh /\ Behind /\ WriteOrder

LEMMA QuietKeepsOrder ==
  ASSUME TypeOK, Order, Quiet
  PROVE  Order'
<1>1. QueueSorted' /\ QueueBounded' /\ WrittenBounded' /\ UnopenedEmpty' /\ Behind'
  BY DEF Order, Quiet, QueueSorted, QueueBounded, WrittenBounded, UnopenedEmpty, Behind
<1>2. HoldsNewest'
  BY DEF Order, Quiet, HoldsNewest
<1>3. Fresh'
  <2>1. 0 \notin open
    BY DEF TypeOK
  <2> QED BY <2>1 DEF Order, Quiet, Fresh
<1>4. WriteOrder'
  BY DEF Order, Quiet, WriteOrder
<1> QED BY <1>1, <1>2, <1>3, <1>4 DEF Order

(***************************************************************************)
(* A new event is younger than everything handed over or buffered, and     *)
(* appending it shifts the buffer by one place or not at all.              *)
(***************************************************************************)
LEMMA EnqueueKeepsOrder ==
  ASSUME TypeOK, Order, Enqueue, UNCHANGED <<stream, opened, ws, open>>,
         pc = "sending" => pc' = "sending"
  PROVE  Order'
<1>1. \A k \in 1..Len(queue') :
        \/ queue'[k] = enqueued + 1 /\ k = Len(queue')
        \/ \E i \in 1..Len(queue) : /\ queue'[k] = queue[i] /\ k <= i
                                    /\ i - k = Len(queue) + 1 - Len(queue')
  <2>1. queue \in Seq(Events) /\ Len(queue) \in Nat
    BY DEF TypeOK
  <2>2. CASE Full
    <3>1. Len(queue') = Len(queue) /\ queue'[Len(queue')] = enqueued + 1
      BY <2>2, EnqueueEffect
    <3>2. \A k \in 1..Len(queue') : k # Len(queue') =>
            k + 1 \in 1..Len(queue) /\ queue'[k] = queue[k + 1]
      BY <2>1, <2>2, <3>1, EnqueueEffect
    <3> QED BY <2>1, <3>1, <3>2
  <2>3. CASE ~Full
    <3>1. Len(queue') = Len(queue) + 1 /\ queue'[Len(queue')] = enqueued + 1
      BY <2>3, EnqueueEffect
    <3>2. \A k \in 1..Len(queue') : k # Len(queue') =>
            k \in 1..Len(queue) /\ queue'[k] = queue[k]
      BY <2>1, <2>3, <3>1, EnqueueEffect
    <3> QED BY <2>1, <3>1, <3>2
  <2> QED BY <2>2, <2>3
<1>2. /\ Len(queue) \in Nat /\ Len(queue') \in Nat
      /\ enqueued \in Nat /\ enqueued' = enqueued + 1
      /\ \A i \in 1..Len(queue) : queue[i] \in Nat
      /\ \A c \in Conns : \A i \in 1..Len(stream[c]) : stream[c][i] \in Nat
  <2>1. queue \in Seq(Events) /\ queue' \in Seq(Events)
    BY EnqueueEffect DEF TypeOK
  <2>2. enqueued \in Nat /\ enqueued' = enqueued + 1
    BY DEF TypeOK, Enqueue
  <2>3. \A c \in Conns : stream[c] \in Seq(Events)
    BY DEF TypeOK
  <2> QED BY <2>1, <2>2, <2>3, EventSeq
<1>3. QueueBounded'
  <2> SUFFICES ASSUME NEW k \in 1..Len(queue')
               PROVE  queue'[k] <= enqueued + 1
    BY <1>2 DEF QueueBounded
  <2>1. CASE queue'[k] = enqueued + 1
    BY <1>2, <2>1
  <2>2. CASE queue'[k] # enqueued + 1
    <3>1. PICK i \in 1..Len(queue) : queue'[k] = queue[i]
      BY <1>1, <2>2
    <3>2. queue[i] \in Nat /\ queue[i] <= enqueued
      BY <1>2 DEF Order, QueueBounded
    <3> QED BY <1>2, <3>1, <3>2
  <2> QED BY <2>1, <2>2
<1>4. QueueSorted'
  <2> SUFFICES ASSUME NEW i \in 1..Len(queue'), NEW j \in 1..Len(queue'), i < j
               PROVE  queue'[i] < queue'[j]
    BY DEF QueueSorted
  <2>1. PICK a \in 1..Len(queue) : /\ queue'[i] = queue[a]
                                   /\ a - i = Len(queue) + 1 - Len(queue')
    <3>1. i # Len(queue')
      BY <1>2
    <3> QED BY <1>1, <3>1
  <2>2. CASE queue'[j] = enqueued + 1
    BY <1>2, <2>1, <2>2 DEF Order, QueueBounded
  <2>3. CASE queue'[j] # enqueued + 1
    <3>1. PICK b \in 1..Len(queue) : /\ queue'[j] = queue[b]
                                     /\ b - j = Len(queue) + 1 - Len(queue')
      BY <1>1, <2>3
    <3>2. a < b
      BY <1>2, <2>1, <3>1
    <3> QED BY <2>1, <3>1, <3>2 DEF Order, QueueSorted
  <2> QED BY <2>2, <2>3
<1>5. WrittenBounded'
  BY <1>2 DEF Order, WrittenBounded
<1>6. UnopenedEmpty' /\ HoldsNewest'
  BY DEF Order, UnopenedEmpty, HoldsNewest
<1>7. WriteOrder'
  BY DEF Order, WriteOrder
<1>8. Behind'
  <2> SUFFICES ASSUME NEW c \in Conns, NEW i \in 1..Len(stream[c]), NEW k \in 1..Len(queue')
               PROVE  /\ stream[c][i] <= queue'[k]
                      /\ k > 1 => stream[c][i] < queue'[k]
    BY DEF Behind
  <2>1. CASE queue'[k] = enqueued + 1
    BY <1>2, <2>1 DEF Order, WrittenBounded
  <2>2. CASE queue'[k] # enqueued + 1
    <3>1. PICK a \in 1..Len(queue) : queue'[k] = queue[a] /\ k <= a
      BY <1>1, <2>2
    <3> QED BY <1>2, <3>1 DEF Order, Behind
  <2> QED BY <2>1, <2>2
<1>9. Fresh'
  <2> SUFFICES ASSUME ws \in open, pc # "sending",
                      NEW i \in 1..Len(stream[ws]), NEW k \in 1..Len(queue')
               PROVE  stream[ws][i] < queue'[k]
    BY DEF Fresh
  <2>1. ws \in Conns
    BY DEF TypeOK
  <2>2. CASE queue'[k] = enqueued + 1
    <3>1. stream[ws][i] <= enqueued /\ stream[ws][i] \in Nat
      BY <1>2, <2>1 DEF Order, WrittenBounded
    <3> QED BY <1>2, <2>2, <3>1
  <2>3. CASE queue'[k] # enqueued + 1
    <3>1. PICK a \in 1..Len(queue) : queue'[k] = queue[a] /\ k <= a
      BY <1>1, <2>3
    <3> QED BY <3>1 DEF Order, Fresh
  <2> QED BY <2>2, <2>3
<1> QED BY <1>3, <1>4, <1>5, <1>6, <1>7, <1>8, <1>9 DEF Order

(***************************************************************************)
(* A new connection has carried nothing yet.                               *)
(***************************************************************************)
LEMMA ConnectKeepsOrder ==
  ASSUME TypeOK, Order, ConnectOk
  PROVE  Order'
<1>1. opened \in Nat /\ opened' = opened + 1 /\ ws' = opened + 1 /\ opened + 1 \in Conns
      /\ stream[opened + 1] = <<>>
  BY BoundsAssumption DEF TypeOK, ConnectOk, Order, UnopenedEmpty, Conns
<1>2. QueueSorted' /\ QueueBounded' /\ WrittenBounded' /\ Behind' /\ WriteOrder'
  BY DEF ConnectOk, feed, wire, Order,
         QueueSorted, QueueBounded, WrittenBounded, Behind, WriteOrder
<1>3. UnopenedEmpty' /\ HoldsNewest'
  BY <1>1 DEF ConnectOk, wire, Order, UnopenedEmpty, HoldsNewest, Conns
<1>4. Fresh'
  BY <1>1 DEF ConnectOk, wire, Fresh
<1> QED BY <1>2, <1>3, <1>4 DEF Order

(***************************************************************************)
(* popleft() takes off the only entry that may have been handed over: what *)
(* is left in the buffer is younger than everything that was.              *)
(***************************************************************************)
LEMMA SendDoneKeepsOrder ==
  ASSUME TypeOK, PopsTheSentEvent, Order, SendDone
  PROVE  Order'
<1>1. /\ queue \in Seq(Events) /\ queue # <<>>
      /\ queue' \in Seq(Events) /\ Len(queue) \in Nat /\ Len(queue') = Len(queue) - 1
      /\ \A k \in 1..Len(queue') : k + 1 \in 1..Len(queue) /\ queue'[k] = queue[k + 1]
  BY DEF TypeOK, PopsTheSentEvent, SendDone
<1>2. QueueSorted' /\ QueueBounded'
  BY <1>1 DEF Order, QueueSorted, QueueBounded, SendDone
<1>3. WrittenBounded' /\ UnopenedEmpty' /\ HoldsNewest' /\ WriteOrder'
  BY DEF SendDone, conn, wire, Order, WrittenBounded, UnopenedEmpty, HoldsNewest, WriteOrder
<1>4. \A c \in Conns : \A i \in 1..Len(stream[c]), k \in 1..Len(queue') :
        stream[c][i] < queue'[k]
  BY <1>1 DEF Order, Behind
<1>5. Behind'
  <2> SUFFICES ASSUME NEW c \in Conns, NEW i \in 1..Len(stream[c]), NEW k \in 1..Len(queue')
               PROVE  stream[c][i] <= queue'[k] /\ stream[c][i] < queue'[k]
    BY DEF Behind, SendDone, wire
  <2>1. stream[c] \in Seq(Events)
    BY DEF TypeOK
  <2> QED BY <1>1, <1>4, <2>1, EventSeq
<1>6. Fresh'
  <2>1. ws \in open => ws \in Conns
    BY DEF TypeOK, Conns
  <2> QED BY <1>4, <2>1 DEF Fresh, SendDone, conn, wire
<1> QED BY <1>2, <1>3, <1>5, <1>6 DEF Order

(***************************************************************************)
(* The head of the buffer is handed over: it is no older than anything on  *)
(* an earlier connection, and younger than all that is on this one.        *)
(***************************************************************************)
LEMMA StartSendKeepsOrder ==
  ASSUME TypeOK, Order, StartSend
  PROVE  Order'
<1> DEFINE h == queue[1]
<1>1. /\ queue \in Seq(Events) /\ queue # <<>> /\ Len(queue) \in Nat /\ 1 \in 1..Len(queue)
      /\ h \in Events /\ h = Head(queue) /\ UNCHANGED queue
  BY DEF TypeOK, StartSend, feed
<1>2. ws \in Conns /\ ws = opened /\ ws \in Nat
  BY DEF TypeOK, StartSend, Order, HoldsNewest, Conns
<1>3. /\ \A c \in Conns : stream[c] \in Seq(Events) /\ Len(stream[c]) \in Nat
      /\ stream' = [stream EXCEPT ![ws] = Append(stream[ws], h)]
  BY <1>1 DEF TypeOK, StartSend
<1>4. /\ \A c \in Conns : c # ws => stream'[c] = stream[c]
      /\ Len(stream'[ws]) = Len(stream[ws]) + 1
      /\ \A i \in 1..Len(stream[ws]) : stream'[ws][i] = stream[ws][i]
      /\ stream'[ws][Len(stream[ws]) + 1] = h
  BY <1>1, <1>2, <1>3 DEF TypeOK
<1>5. \A c \in Conns : \A i \in 1..Len(stream'[c]) :
        \/ i \in 1..Len(stream[c]) /\ stream'[c][i] = stream[c][i]
        \/ c = ws /\ i = Len(stream[ws]) + 1 /\ stream'[c][i] = h
  BY <1>3, <1>4
<1>6. QueueSorted' /\ QueueBounded' /\ HoldsNewest' /\ Fresh'
  BY DEF StartSend, feed, conn, Order, QueueSorted, QueueBounded, HoldsNewest, Fresh
<1>7. WrittenBounded'
  BY <1>1, <1>5 DEF StartSend, feed, Order, WrittenBounded, QueueBounded
<1>8. UnopenedEmpty'
  BY <1>2, <1>4 DEF StartSend, conn, Order, UnopenedEmpty, Conns
<1>9. Behind'
  <2> SUFFICES ASSUME NEW c \in Conns, NEW i \in 1..Len(stream'[c]), NEW k \in 1..Len(queue)
               PROVE  /\ stream'[c][i] <= queue[k]
                      /\ k > 1 => stream'[c][i] < queue[k]
    BY <1>1 DEF Behind
  <2>1. CASE stream'[c][i] = h
    <3>1. h \in Nat /\ queue[k] \in Nat
      BY <1>1, EventSeq
    <3>2. k > 1 => h < queue[k]
      BY <1>1 DEF Order, QueueSorted
    <3> QED BY <1>1, <2>1, <3>1, <3>2
  <2>2. CASE i \in 1..Len(stream[c]) /\ stream'[c][i] = stream[c][i]
    BY <2>2 DEF Order, Behind
  <2> QED BY <1>5, <2>1, <2>2
<1>10. WriteOrder'
  <2> SUFFICES ASSUME NEW c \in Conns, NEW d \in Conns,
                      NEW i \in 1..Len(stream'[c]), NEW j \in 1..Len(stream'[d])
               PROVE  /\ c < d => stream'[c][i] <= stream'[d][j]
                      /\ c = d /\ i < j => stream'[c][i] < stream'[d][j]
    BY DEF WriteOrder
  <2>1. CASE i \in 1..Len(stream[c]) /\ stream'[c][i] = stream[c][i]
             /\ j \in 1..Len(stream[d]) /\ stream'[d][j] = stream[d][j]
    BY <2>1 DEF Order, WriteOrder
  <2>2. CASE i \in 1..Len(stream[c]) /\ stream'[c][i] = stream[c][i]
             /\ d = ws /\ stream'[d][j] = h
    <3>1. stream[c][i] <= h
      BY <1>1, <2>2 DEF Order, Behind
    <3>2. c = ws => stream[c][i] < h
      BY <1>1, <2>2 DEF Order, Fresh, StartSend
    <3> QED BY <2>2, <3>1, <3>2
  <2>3. CASE c = ws /\ i = Len(stream[ws]) + 1 /\ stream'[c][i] = h
    <3>1. ~(c < d)
      <4> SUFFICES ASSUME c < d PROVE FALSE
        OBVIOUS
      <4>1. d # ws /\ stream[d] = <<>>
        BY <1>2, <2>3 DEF Order, UnopenedEmpty, Conns
      <4> QED BY <1>4, <4>1
    <3>2. ~(c = d /\ i < j)
      BY <1>3, <1>4, <2>3
    <3> QED BY <3>1, <3>2
  <2> QED BY <1>5, <2>1, <2>2, <2>3
<1> QED BY <1>6, <1>7, <1>8, <1>9, <1>10 DEF Order

-----------------------------------------------------------------------------
(***************************************************************************)
(* The inductive invariant of the event order, and its theorems.           *)
(***************************************************************************)
OrderInv == BufferInv /\ Order

LEMMA OrderInit == Init => OrderInv
<1> SUFFICES ASSUME Init PROVE Order
  BY BufferInit DEF OrderInv
<1>1. queue = <<>> /\ ws = 0 /\ open = {} /\ \A c \in Conns : stream[c] = <<>>
  BY DEF Init
<1> QED BY <1>1 DEF Order, QueueSorted, QueueBounded, WrittenBounded, UnopenedEmpty,
                    HoldsNewest, Fresh, Behind, WriteOrder

LEMMA OrderNext == OrderInv /\ [Next]_vars => OrderInv'
<1> SUFFICES ASSUME TypeOK, PopsTheSentEvent, Order, [Next]_vars PROVE Order'
  BY BufferNext DEF OrderInv, BufferInv
<1>1. CASE ConnectOk
  BY <1>1, ConnectKeepsOrder
<1>2. CASE StartSend
  BY <1>2, StartSendKeepsOrder
<1>3. CASE SendDone
  BY <1>3, SendDoneKeepsOrder
<1>4. CASE Produce
  BY <1>4, EnqueueKeepsOrder DEF Produce, conn, wire
<1>5. CASE RecvAnswered
  BY <1>5, EnqueueKeepsOrder DEF RecvAnswered, TakeCommand, conn, wire
<1>6. CASE ~(ConnectOk \/ StartSend \/ SendDone \/ Produce \/ RecvAnswered)
  <2>1. Quiet
    BY <1>6, QuietSteps DEF Next, Run
  <2> QED BY <2>1, QuietKeepsOrder
<1> QED BY <1>1, <1>2, <1>3, <1>4, <1>5, <1>6

(***************************************************************************)
(* Whatever connections fail and whatever the full buffer evicts, events   *)
(* reach the connections in the order of the enqueue() calls, each at most *)
(* once per connection.                                                    *)
(***************************************************************************)
THEOREM WritesInOrder == Spec => []WriteOrder
<1>1. OrderInv => WriteOrder
  BY DEF OrderInv, Order
<1> QED BY <1>1, OrderInit, OrderNext, PTL DEF Spec

(***************************************************************************)
(* No event is overtaken: what is still buffered is younger than all that  *)
(* was handed to a connection, save the head, which may be sent again.     *)
(***************************************************************************)
THEOREM BufferIsYounger == Spec => []NoOvertaking
<1>1. OrderInv => NoOvertaking
  <2> SUFFICES ASSUME OrderInv, NEW k \in 1..Len(queue), NEW e \in Written
               PROVE  e <= queue[k] /\ (e = queue[k] => k = 1)
    BY DEF NoOvertaking
  <2>1. PICK c \in Conns : \E i \in 1..Len(stream[c]) : e = stream[c][i]
    BY DEF Written
  <2>2. PICK i \in 1..Len(stream[c]) : e = stream[c][i]
    BY <2>1
  <2>3. stream[c] \in Seq(Events) /\ queue \in Seq(Events)
    BY DEF OrderInv, BufferInv, TypeOK
  <2>4. e \in Nat /\ queue[k] \in Nat /\ k \in Nat
    BY <2>2, <2>3, EventSeq
  <2>5. e <= queue[k] /\ (k > 1 => e < queue[k])
    BY <2>2 DEF OrderInv, Order, Behind
  <2> QED BY <2>4, <2>5
<1> QED BY <1>1, OrderInit, OrderNext, PTL DEF Spec
=============================================================================
