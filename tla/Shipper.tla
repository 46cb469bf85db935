------------------------------ MODULE Shipper ------------------------------
(***************************************************************************)
(* The telemetry shipper of the endpoint agent (agent/shipper.py): a ring  *)
(* buffer of events, the coroutine run() that keeps one WebSocket to the   *)
(* telemetry server open, drains the buffer into it and dispatches the     *)
(* commands it receives, and stop().                                       *)
(*                                                                         *)
(* The agent is one asyncio event loop.  run() gives the loop up only at   *)
(* an await, so the variable pc is the await run() is suspended at, or one *)
(* of the two straight-line stretches "loop" and "drain"; the other tasks  *)
(* (enqueue, stop) act only while run() is suspended.  The network acts at *)
(* any time.                                                               *)
(*                                                                         *)
(* An event is its position in the order of the enqueue() calls.  The      *)
(* enrolment message is not an event and is not kept.  _heartbeat_loop     *)
(* (lines 90-93) and _receive_loop (lines 95-112) are called from nowhere  *)
(* in the repository and so are no part of the behaviour.                  *)
(***************************************************************************)
EXTENDS Naturals, Sequences, FiniteSets

CONSTANTS
  Capacity,     \* ring_buffer_max_events
  BackoffMin,   \* reconnect_backoff_min_secs
  BackoffMax,   \* reconnect_backoff_max_secs
  MaxEvents,    \* bound: how many events are ever enqueued
  MaxConns,     \* bound: how many connections are ever opened
  MaxCommands   \* bound: how many server commands are ever handled

\* deque(maxlen=0) would keep nothing: the shipped policy uses 5000.
ASSUME CapacityAssumption == Capacity \in Nat \ {0}
ASSUME BackoffAssumption == /\ BackoffMin \in Nat
                            /\ BackoffMax \in Nat
                            /\ BackoffMin <= BackoffMax
ASSUME BoundsAssumption == /\ MaxEvents \in Nat
                           /\ MaxConns \in Nat
                           /\ MaxCommands \in Nat

VARIABLES
  queue,      \* self._queue, oldest event first
  ws,         \* self._ws: the connection held, NoConn when None
  connected,  \* self._connected
  stopping,   \* self._stop
  pc,         \* where run() is
  inflight,   \* the local variable event of _drain_queue
  backoff,    \* the local variable backoff of run()
  opened,     \* how many connections connect() has returned
  open,       \* connections on which the library still sends and receives
  stream,     \* stream[c]: the events handed to connection c, in order
  got,        \* got[c]: how many events of stream[c] the server has read
  enqueued,   \* how many calls of enqueue() there have been
  evicted,    \* the events append() pushed out of the full buffer
  commands,   \* how many server commands run() has taken
  failed      \* how many of them ended in the generic exception handler

conn == <<ws, connected, opened, open>>
wire == <<stream, got>>
feed == <<queue, enqueued, evicted>>
vars == <<conn, wire, feed, stopping, pc, inflight, backoff, commands, failed>>

NoConn == 0
Conns == 1..MaxConns
Events == 1..MaxEvents

\* The awaits of run(), and its two ways to end: "done" is the normal exit
\* of the while loop, "dead" an exception that escaped from run().
Awaiting == {"connecting", "enrolling", "backoff", "sending", "recv", "sleep"}
Ended == {"done", "dead"}
Straight == {"loop", "drain"}

\* Other tasks of the event loop run only when run() does not hold it.
Suspended == pc \in Awaiting \cup Ended

Written == UNION {{stream[c][i] : i \in 1..Len(stream[c])} : c \in Conns}
Queued == {queue[i] : i \in 1..Len(queue)}

Min2(a, b) == IF a <= b THEN a ELSE b

Init ==
  /\ queue = <<>> /\ enqueued = 0 /\ evicted = {}
  /\ ws = NoConn /\ connected = FALSE /\ opened = 0 /\ open = {}
  /\ stream = [c \in Conns |-> <<>>] /\ got = [c \in Conns |-> 0]
  /\ stopping = FALSE
  /\ pc = "loop" /\ inflight = 0 /\ backoff = BackoffMin
  /\ commands = 0 /\ failed = 0

-----------------------------------------------------------------------------
(***************************************************************************)
(* enqueue(): a deque with maxlen drops its head when it is appended to    *)
(* while full.                                                             *)
(***************************************************************************)
Full == Len(queue) = Capacity

\* Mutant: appendleft() in place of append().
EnqueueAtHead ==
  /\ enqueued < MaxEvents
  /\ enqueued' = enqueued + 1
  /\ queue' = <<enqueued + 1>> \o (IF Full THEN Tail(queue) ELSE queue)
  /\ evicted' = IF Full THEN evicted \cup {Head(queue)} ELSE evicted

\* Mutant: a full buffer refuses the newest event in place of the oldest.
EnqueueRefuses ==
  /\ enqueued < MaxEvents
  /\ enqueued' = enqueued + 1
  /\ queue' = IF Full THEN queue ELSE Append(queue, enqueued + 1)
  /\ evicted' = IF Full THEN evicted \cup {enqueued + 1} ELSE evicted

Enqueue ==
  /\ enqueued < MaxEvents
  /\ enqueued' = enqueued + 1
  /\ queue' = Append(IF Full THEN Tail(queue) ELSE queue, enqueued + 1)
  /\ evicted' = IF Full THEN evicted \cup {Head(queue)} ELSE evicted

\* The detection and canary loops enqueue alerts and containment results
\* until stop() clears the agent's _running flag.
Produce ==
  /\ Suspended /\ ~stopping
  /\ Enqueue
  /\ UNCHANGED <<conn, wire, stopping, pc, inflight, backoff, commands, failed>>

-----------------------------------------------------------------------------
(***************************************************************************)
(* run(): the head of the while loop, connecting and the backoff.          *)
(***************************************************************************)
LoopExit ==
  /\ pc = "loop" /\ stopping
  /\ pc' = "done"
  /\ UNCHANGED <<conn, wire, feed, stopping, inflight, backoff, commands, failed>>

\* Mutant: while True.
LoopBodyIgnoringStop ==
  /\ pc = "loop"
  /\ pc' = IF ws = NoConn THEN "connecting" ELSE "drain"
  /\ UNCHANGED <<conn, wire, feed, stopping, inflight, backoff, commands, failed>>

LoopBody ==
  /\ pc = "loop" /\ ~stopping
  /\ pc' = IF ws = NoConn THEN "connecting" ELSE "drain"
  /\ UNCHANGED <<conn, wire, feed, stopping, inflight, backoff, commands, failed>>

\* websockets.connect() returns and the enrolment message is sent.
ConnectOk ==
  /\ pc = "connecting" /\ opened < MaxConns
  /\ opened' = opened + 1
  /\ ws' = opened + 1
  /\ open' = open \cup {opened + 1}
  /\ pc' = "enrolling"
  /\ UNCHANGED <<connected, wire, feed, stopping, inflight, backoff, commands, failed>>

\* websockets.connect() raises one of the three exceptions that
\* _connect_and_enroll catches; run() goes to sleep for backoff seconds.
ConnectFail ==
  /\ pc = "connecting"
  /\ ws' = NoConn /\ connected' = FALSE
  /\ pc' = "backoff"
  /\ UNCHANGED <<opened, open, wire, feed, stopping, inflight, backoff, commands, failed>>

\* Mutant: the maximum is forgotten.
BackoffUncapped ==
  /\ pc = "backoff"
  /\ backoff' = backoff * 2
  /\ pc' = "loop"
  /\ UNCHANGED <<conn, wire, feed, stopping, inflight, commands, failed>>

BackoffWake ==
  /\ pc = "backoff"
  /\ backoff' = Min2(backoff * 2, BackoffMax)
  /\ pc' = "loop"
  /\ UNCHANGED <<conn, wire, feed, stopping, inflight, commands, failed>>

EnrollOk ==
  /\ pc = "enrolling" /\ ws \in open
  /\ connected' = TRUE
  /\ backoff' = BackoffMin
  /\ pc' = "drain"
  /\ UNCHANGED <<ws, opened, open, wire, feed, stopping, inflight, commands, failed>>

\* send(enrollment) raises ConnectionClosed, which is none of the three
\* exceptions caught around it; run() calls _connect_and_enroll outside of
\* its own try, and gather(return_exceptions=True) keeps the exception.
EnrollClosed ==
  /\ pc = "enrolling" /\ ws \notin open
  /\ pc' = "dead"
  /\ UNCHANGED <<conn, wire, feed, stopping, inflight, backoff, commands, failed>>

-----------------------------------------------------------------------------
(***************************************************************************)
(* _drain_queue(): the head of the buffer is read, sent and, when send()   *)
(* has returned, taken off the buffer.  send() hands the frame to the      *)
(* transport and then waits while the transport's buffer is full, and that *)
(* wait is where other tasks run and where the connection may close.       *)
(***************************************************************************)
DrainEmpty ==
  /\ pc = "drain" /\ queue = <<>>
  /\ pc' = "recv"
  /\ UNCHANGED <<conn, wire, feed, stopping, inflight, backoff, commands, failed>>

\* Mutant: the newest event is sent first.
StartSendNewest ==
  /\ pc = "drain" /\ queue # <<>> /\ ws \in open
  /\ inflight' = Head(queue)
  /\ stream' = [stream EXCEPT ![ws] = Append(@, queue[Len(queue)])]
  /\ pc' = "sending"
  /\ UNCHANGED <<conn, got, feed, stopping, backoff, commands, failed>>

StartSend ==
  /\ pc = "drain" /\ queue # <<>> /\ ws \in open
  /\ inflight' = Head(queue)
  /\ stream' = [stream EXCEPT ![ws] = Append(@, Head(queue))]
  /\ pc' = "sending"
  /\ UNCHANGED <<conn, got, feed, stopping, backoff, commands, failed>>

\* Mutant: popleft() before send().
SendRefusedAfterPop ==
  /\ pc = "drain" /\ queue # <<>> /\ ws \notin open
  /\ inflight' = Head(queue) /\ queue' = Tail(queue)
  /\ pc' = "recv"
  /\ UNCHANGED <<conn, wire, enqueued, evicted, stopping, backoff, commands, failed>>

\* On a closed connection send() raises at once; _drain_queue returns and
\* run() goes on to recv() since _ws is still set.
SendRefused ==
  /\ pc = "drain" /\ queue # <<>> /\ ws \notin open
  /\ inflight' = Head(queue)
  /\ pc' = "recv"
  /\ UNCHANGED <<conn, wire, feed, stopping, backoff, commands, failed>>

\* popleft() removes whatever is at the head of the buffer by now.  The frame
\* was with the transport already, so send() may return on a closing
\* connection too.
SendDone ==
  /\ pc = "sending"
  /\ queue' = Tail(queue)
  /\ pc' = "drain"
  /\ UNCHANGED <<conn, wire, enqueued, evicted, stopping, inflight, backoff, commands, failed>>

\* Mutant: the event that could not be sent goes to the back of the buffer.
SendClosedRequeues ==
  /\ pc = "sending" /\ ws \notin open
  /\ queue' = Append(Tail(queue), Head(queue))
  /\ pc' = "recv"
  /\ UNCHANGED <<conn, wire, enqueued, evicted, stopping, inflight, backoff, commands, failed>>

SendClosed ==
  /\ pc = "sending" /\ ws \notin open
  /\ pc' = "recv"
  /\ UNCHANGED <<conn, wire, feed, stopping, inflight, backoff, commands, failed>>

-----------------------------------------------------------------------------
(***************************************************************************)
(* run(): wait_for(recv(), 1.0), the command handler of agent/agent.py and *)
(* the exception handlers.                                                 *)
(***************************************************************************)
\* Mutant: a timeout is taken for a lost connection.
RecvTimeoutDrops ==
  /\ pc = "recv" /\ ws \in open
  /\ ws' = NoConn
  /\ pc' = "loop"
  /\ UNCHANGED <<connected, opened, open, wire, feed, stopping, inflight, backoff, commands, failed>>

\* Mutant: after a timeout recv() is called again without draining.
RecvTimeoutRetries ==
  /\ pc = "recv" /\ ws \in open
  /\ pc' = "recv"
  /\ UNCHANGED <<conn, wire, feed, stopping, inflight, backoff, commands, failed>>

RecvTimeout ==
  /\ pc = "recv" /\ ws \in open
  /\ pc' = "loop"
  /\ UNCHANGED <<conn, wire, feed, stopping, inflight, backoff, commands, failed>>

\* The library hands out messages it has buffered even after a close.
TakeCommand ==
  /\ pc = "recv" /\ commands < MaxCommands
  /\ commands' = commands + 1

\* "quarantine" with an integer pid enqueues a containment_result, "ping"
\* enqueues a pong.
RecvAnswered ==
  /\ TakeCommand
  /\ Enqueue
  /\ pc' = "loop"
  /\ UNCHANGED <<conn, wire, stopping, inflight, backoff, failed>>

\* Any other command is logged.
RecvIgnored ==
  /\ TakeCommand
  /\ pc' = "loop"
  /\ UNCHANGED <<conn, wire, feed, stopping, inflight, backoff, failed>>

\* The message is not JSON or its handler raises: _ws is forgotten without
\* being closed and _connected keeps its value.  The bound on connections
\* leaves one to go on with.
RecvFails ==
  /\ TakeCommand /\ opened < MaxConns
  /\ failed' = failed + 1
  /\ ws' = NoConn
  /\ pc' = "sleep"
  /\ UNCHANGED <<connected, opened, open, wire, feed, stopping, inflight, backoff>>

SleepWake ==
  /\ pc = "sleep"
  /\ pc' = "loop"
  /\ UNCHANGED <<conn, wire, feed, stopping, inflight, backoff, commands, failed>>

RecvClosed ==
  /\ pc = "recv" /\ ws \notin open
  /\ ws' = NoConn /\ connected' = FALSE
  /\ pc' = "loop"
  /\ UNCHANGED <<opened, open, wire, feed, stopping, inflight, backoff, commands, failed>>

-----------------------------------------------------------------------------
(***************************************************************************)
(* stop(), called from EDRAgent.stop() by a signal handler.  Of close()    *)
(* the shipper sees that the connection no longer sends or receives.  A    *)
(* second signal calls stop() again and may find another connection.       *)
(***************************************************************************)
Stop ==
  /\ Suspended /\ (~stopping \/ ws \in open)
  /\ stopping' = TRUE
  /\ open' = open \ {ws}
  /\ UNCHANGED <<ws, connected, opened, wire, feed, pc, inflight, backoff, commands, failed>>

(***************************************************************************)
(* The network and the server.  The library learns that a connection is    *)
(* closed in a callback of the event loop, so between two straight-line    *)
(* stretches; the last connection the bound allows stays up.  The server   *)
(* reads what was handed to a connection in order, also after the agent    *)
(* has seen it close (data in transit), or never.                          *)
(***************************************************************************)
Break(c) ==
  /\ Suspended
  /\ c \in open /\ opened < MaxConns
  /\ open' = open \ {c}
  /\ UNCHANGED <<ws, connected, opened, wire, feed, stopping, pc, inflight, backoff, commands, failed>>

Deliver(c) ==
  /\ got[c] < Len(stream[c])
  /\ got' = [got EXCEPT ![c] = @ + 1]
  /\ UNCHANGED <<conn, stream, feed, stopping, pc, inflight, backoff, commands, failed>>

Run ==
  \/ LoopExit \/ LoopBody
  \/ ConnectOk \/ ConnectFail \/ BackoffWake \/ EnrollOk \/ EnrollClosed
  \/ DrainEmpty \/ StartSend \/ SendRefused \/ SendDone \/ SendClosed
  \/ RecvTimeout \/ RecvAnswered \/ RecvIgnored \/ RecvFails \/ RecvClosed
  \/ SleepWake

Network == \E c \in Conns : Break(c) \/ Deliver(c)

Next == Run \/ Produce \/ Stop \/ Network

Spec == Init /\ [][Next]_vars

(***************************************************************************)
(* Fairness.  The event loop resumes run() whenever its await completes:   *)
(* sleeps and the recv timeout end, connect() returns or fails, send()     *)
(* returns or raises (the library's ping_timeout closes a dead peer).  A   *)
(* server that can be reached again and again is reached in the end, and   *)
(* it reads what arrives on a connection that stays open.                  *)
(***************************************************************************)
Fairness ==
  /\ WF_vars(Run)
  /\ SF_vars(ConnectOk)
  /\ \A c \in Conns : WF_vars(c \in open /\ Deliver(c))

FairSpec == Spec /\ Fairness
-----------------------------------------------------------------------------
TypeOK ==
  /\ queue \in Seq(Events) /\ Len(queue) <= Capacity
  /\ enqueued \in 0..MaxEvents /\ evicted \subseteq Events
  /\ ws \in {NoConn} \cup Conns /\ connected \in BOOLEAN
  /\ opened \in 0..MaxConns /\ open \subseteq 1..opened
  /\ stream \in [Conns -> Seq(Events)] /\ got \in [Conns -> Nat]
  /\ \A c \in Conns : got[c] <= Len(stream[c])
  /\ stopping \in BOOLEAN
  /\ pc \in Awaiting \cup Ended \cup Straight
  /\ inflight \in {0} \cup Events
  /\ backoff \in BackoffMin..BackoffMax
  /\ commands \in 0..MaxCommands /\ failed \in 0..commands

(***************************************************************************)
(* Events reach the connections in the order they were enqueued: on one    *)
(* connection strictly, so each at most once, and over a reconnect a later *)
(* connection never starts with an event older than one already handed     *)
(* over.  It is about the retry of the head of the buffer after a lost     *)
(* connection and about evictions while a send is suspended.               *)
(***************************************************************************)
WriteOrder ==
  \A c, d \in Conns : \A i \in 1..Len(stream[c]), j \in 1..Len(stream[d]) :
    /\ c < d => stream[c][i] <= stream[d][j]
    /\ c = d /\ i < j => stream[c][i] < stream[d][j]

(***************************************************************************)
(* Every event still buffered is younger than all that were handed to a    *)
(* connection, save the one that is being sent or will be sent again.      *)
(***************************************************************************)
NoOvertaking ==
  \A i \in 1..Len(queue) : \A e \in Written :
    e <= queue[i] /\ (e = queue[i] => i = 1)

\* Events enqueued that are neither buffered nor ever handed over.
Lost == (1..enqueued) \ (Queued \cup Written)

(***************************************************************************)
(* The events lost without ever being handed to a connection are at most   *)
(* as many as the warnings "Ring buffer full; dropping oldest queued       *)
(* event": as long as the buffer has not overflowed nothing is lost before *)
(* it was sent, whatever connections fail.                                 *)
(***************************************************************************)
LossIsWarned == Cardinality(Lost) <= Cardinality(evicted)

(***************************************************************************)
(* popleft() after a completed send never meets an empty deque, and while  *)
(* the buffer has not overflowed it takes off the event that was sent.     *)
(***************************************************************************)
PopsTheSentEvent ==
  pc = "sending" => /\ queue # <<>>
                    /\ Head(queue) = inflight \/ inflight \in evicted

(***************************************************************************)
(* A connection the shipper no longer holds is closed, unless a command    *)
(* handler failed: only that path of run() forgets _ws without closing it. *)
(***************************************************************************)
Leaked == open \ {ws}
LeaksAreFailures == Cardinality(Leaked) <= failed

(***************************************************************************)
(* run() ends only when the agent is stopped: the docstring calls the      *)
(* client resilient and says the buffer is replayed on reconnect.          *)
(***************************************************************************)
RunEndsOnlyWhenStopped == pc \in Ended => stopping

(***************************************************************************)
(* An event that is buffered leaves the buffer, unless run() has ended:    *)
(* neither failing connections nor commands nor backoff keep it there.     *)
(***************************************************************************)
EventuallyLeaves ==
  \A e \in Events : e \in Queued ~> (e \notin Queued \/ pc \in Ended)

(***************************************************************************)
(* The shipper implements the promise of Feed: the events handed out are   *)
(* among the youngest Capacity ones, in order, and one is passed over only *)
(* for a buffer full of younger ones, through lost connections, retries    *)
(* and evictions beside a send.                                            *)
(***************************************************************************)
Promise == INSTANCE Feed WITH produced <- enqueued, out <- stream

ImplementsFeed == Promise!Spec

(***************************************************************************)
(* Once stop() was called run() ends, wherever it was suspended.           *)
(***************************************************************************)
StopEnds == stopping ~> pc \in Ended
=============================================================================
