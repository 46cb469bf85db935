-------------------------------- MODULE Feed --------------------------------
(***************************************************************************)
(* What the telemetry shipper promises of the events it is given, whatever *)
(* becomes of the connections: agent/shipper.py says of itself that it     *)
(* "Buffers events in a bounded ring buffer during disconnects and replays *)
(* them on reconnect".  There is no buffer here and no connection to lose, *)
(* only what was produced and what was handed out; Shipper implements it.  *)
(***************************************************************************)
EXTENDS Naturals, Sequences

CONSTANTS
  Capacity,  \* how many events may wait
  Conns      \* the connections, numbered in the order they are opened

VARIABLES
  produced,  \* how many events there have been; an event is its number
  out        \* out[c]: the events handed to connection c

On(c) == {out[c][i] : i \in 1..Len(out[c])}
Given == UNION {On(c) : c \in Conns}

Init == produced = 0 /\ out = [c \in Conns |-> <<>>]

Produce == produced' = produced + 1 /\ UNCHANGED out

\* Event e goes to connection c, the last in use.  It is one of the youngest
\* Capacity events; none younger has been handed out, and it goes again only
\* to a connection it has not been on.  Whoever is passed over for good had
\* a full buffer of younger events behind it, or all but one when the send
\* of its elder was under way.
Emit(c, e) ==
  /\ e \in 1..produced /\ produced < e + Capacity
  /\ \A d \in Conns : c < d => out[d] = <<>>
  /\ \A f \in Given : f <= e
  /\ e \notin On(c)
  /\ \A f \in 1..(e - 1) : f \in Given \/ f + Capacity <= produced + 1
  /\ out' = [out EXCEPT ![c] = Append(@, e)]
  /\ UNCHANGED produced

Next == Produce \/ \E c \in Conns, e \in 1..produced : Emit(c, e)

Spec == Init /\ [][Next]_<<produced, out>>
=============================================================================
