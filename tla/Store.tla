------------------------------- MODULE Store -------------------------------
(***************************************************************************)
(* Alerts and containment results from the agent that raises them to the   *)
(* rows the server keeps of them: the names they are given (agent/         *)
(* detector.py, agent/containment.py), the order they are shipped in       *)
(* (agent/agent.py), and what the handler writes (server/routes/ws.py,     *)
(* server/database.py).                                                    *)
(*                                                                         *)
(* Of the shipper it takes over what Feed promises: messages are handed to *)
(* connections in order, never to an older one again, any may be lost, and *)
(* one may be handed once more to a later connection.  The server runs a   *)
(* handler for each connection; it handles its messages in order, and      *)
(* while it waits in a broadcast the handler of a later connection of the  *)
(* same agent may be ahead of it.  A handler stores a message without an   *)
(* await.  The row of the endpoint is there: a connection starts with an   *)
(* enrolment.                                                              *)
(***************************************************************************)
EXTENDS Naturals, Sequences, FiniteSets

CONSTANTS
  Endpoints,   \* the endpoint ids of the agents
  MaxSecond,   \* bound: the last second of the clock
  MaxSent,     \* bound: how many alerts and manual results agents ever send
  MaxConns,    \* bound: how many connections the agent of e ever makes, MaxConns[e]
  MaxOnWire    \* bound: how many messages are on their way at once

ASSUME StoreAssumption == {MaxSecond, MaxSent, MaxOnWire} \subseteq Nat /\ MaxConns \in [Endpoints -> Nat \ {0}]

VARIABLES
  enforced,   \* the database enforces foreign keys, as PostgreSQL does
  second,     \* int(time.time())
  seq,        \* seq[e]: _alert_seq of the agent of e
  conn,       \* conn[e]: the connection messages of e were last handed to
  wire,       \* the messages on their way
  alerts,     \* the table alerts
  incidents,  \* the table incidents
  sent,       \* how many of these there have been; an alert, and its result, has
              \* its number n
  handled,    \* the messages the server has handled
  crashed,    \* those on which the database raised
  closed      \* alert ids that the analyst's last verdict took from "open"

store == <<alerts, incidents, handled, crashed>>
storeVars == <<enforced, second, seq, conn, wire, store, sent, closed>>

\* Alerts are named by the second and the agent's sequence number, from 1;
\* manual quarantines by the second alone.
Ids == (0..MaxSecond) \X (0..MaxSent)
IsManual(id) == id[2] = 0
Conns == Nat \ {0}
Messages == [kind : {"alert", "result"}, ep : Endpoints, id : Ids, n : 1..MaxSent, conn : Conns]
Named(rows) == {r.id : r \in rows}

StoreInit ==
  /\ enforced \in BOOLEAN
  /\ second = 0 /\ seq = [e \in Endpoints |-> 0]
  /\ conn = [e \in Endpoints |-> 1] /\ wire = {}
  /\ alerts = {} /\ incidents = {}
  /\ sent = 0 /\ handled = {} /\ crashed = {} /\ closed = {}

-----------------------------------------------------------------------------
(***************************************************************************)
(* The agents.                                                             *)
(***************************************************************************)
\* Mutant: the second is left out.
AlertIdOfSeq(e) == <<0, seq[e] + 1>>

\* _next_alert_id().
AlertId(e) == <<second, seq[e] + 1>>

\* The ways k messages may be handed to connections first to last, one of
\* them <<i, c>> when message i goes to connection c: each message to one or,
\* when its send was interrupted, to several, and none to an older connection
\* than the messages before it.
Routes(k, first, last) ==
  {R \in SUBSET ((1..k) \X (first..last)) :
     /\ \A i \in 1..k : \E r \in R : r[1] = i
     /\ \A q, r \in R : q[1] < r[1] => q[2] <= r[2]}

\* Connections made without sending anything are not counted.
Ship(e, kinds, id) ==
  /\ sent < MaxSent /\ sent' = sent + 1
  /\ \E last \in conn[e]..MaxConns[e] : \E R \in Routes(Len(kinds), conn[e], last) :
       /\ \E r \in R : r[2] = last
       /\ Cardinality(wire) + Cardinality(R) <= MaxOnWire
       /\ conn' = [conn EXCEPT ![e] = last]
       /\ wire' = wire \cup
            {[kind |-> kinds[r[1]], ep |-> e, id |-> id, n |-> sent + 1, conn |-> r[2]] : r \in R}

\* Mutant: the alert is enqueued when respond() has returned.
ResultFirst(contained) == IF contained THEN <<"result", "alert">> ELSE <<"alert">>

\* An alert of the detection loop is shipped and then contained.  A canary
\* alert is for no process and is shipped alone, as is one whose
\* containment raises.
Shipment(contained) == IF contained THEN <<"alert", "result">> ELSE <<"alert">>

Detect(e, contained) ==
  /\ Ship(e, Shipment(contained), AlertId(e))
  /\ seq' = [seq EXCEPT ![e] = @ + 1]
  /\ UNCHANGED <<enforced, second, store, closed>>

\* The agent answers a quarantine command with a result alone.
Quarantine(e) ==
  /\ Ship(e, <<"result">>, <<second, 0>>)
  /\ UNCHANGED <<enforced, second, seq, store, closed>>

Clock ==
  /\ second < MaxSecond /\ second' = second + 1
  /\ UNCHANGED <<enforced, seq, conn, wire, store, sent, closed>>

\* The service manager waits three seconds before it restarts an agent.  With
\* no endpoint_id in its policy the agent comes back as another endpoint,
\* which to the server is one more that starts.
Restart(e) ==
  /\ second < MaxSecond /\ second' = second + 1
  /\ seq[e] > 0 /\ seq' = [seq EXCEPT ![e] = 0]
  /\ conn[e] < MaxConns[e] /\ conn' = [conn EXCEPT ![e] = @ + 1]
  /\ UNCHANGED <<enforced, wire, store, sent, closed>>

\* A message was evicted from the buffer or lost with a connection.
Lose(m) ==
  /\ m \in wire /\ wire' = wire \ {m}
  /\ UNCHANGED <<enforced, second, seq, conn, store, sent, closed>>

-----------------------------------------------------------------------------
(***************************************************************************)
(* The handlers, one for each connection.  Each takes the messages of its  *)
(* connection in order until the database raises; between two handlers of  *)
(* one agent there is no order.                                            *)
(***************************************************************************)
SameConnection(m, o) == m.ep = o.ep /\ m.conn = o.conn

\* The agent has sent m before o.
Before(m, o) == m.n < o.n \/ (m.n = o.n /\ m.kind = "alert" /\ o.kind = "result")

\* Mutant: a handler takes whichever message it likes.
ReceiveAny(m, kind) ==
  /\ m \in wire /\ m.kind = kind
  /\ \A c \in crashed : ~SameConnection(c, m)
  /\ wire' = wire \ {m} /\ handled' = handled \cup {m}
  /\ UNCHANGED <<enforced, second, seq, conn, sent, closed>>

Receive(m, kind) ==
  /\ m \in wire /\ m.kind = kind
  /\ \A o \in wire : SameConnection(o, m) => ~Before(o, m)
  /\ \A c \in crashed : ~SameConnection(c, m)
  /\ wire' = wire \ {m} /\ handled' = handled \cup {m}
  /\ UNCHANGED <<enforced, second, seq, conn, sent, closed>>

Row(m) == [id |-> m.id, ep |-> m.ep, n |-> m.n, conn |-> m.conn, status |-> "open"]

\* Mutant: an alert that is there already is replaced.
UpsertAlert(m) == {r \in alerts : r.id # m.id} \cup {Row(m)}

\* Mutant: a row is added without asking whether there is one of the name.
StoreAnyway(m) == alerts \cup {Row(m)}

\* _store_alert().
StoreAlert(m) == IF m.id \in Named(alerts) THEN alerts ELSE alerts \cup {Row(m)}

HandleAlert(m) ==
  /\ Receive(m, "alert")
  /\ alerts' = StoreAlert(m)
  /\ UNCHANGED <<incidents, crashed>>

IncidentRow(m) == [id |-> m.id, ep |-> m.ep, n |-> m.n, conn |-> m.conn]

\* _store_incident(): an incident refers to an alert.
HandleResult(m) ==
  /\ Receive(m, "result")
  /\ IF m.id \in Named(incidents) THEN UNCHANGED <<incidents, crashed>>
     ELSE IF enforced /\ m.id \notin Named(alerts)
     THEN crashed' = crashed \cup {m} /\ UNCHANGED incidents
     ELSE /\ incidents' = incidents \cup {IncidentRow(m)}
          /\ UNCHANGED crashed
  /\ UNCHANGED alerts

\* triage_alert().
Triage(r, verdict) ==
  /\ r \in alerts /\ verdict # r.status
  /\ alerts' = (alerts \ {r}) \cup {[r EXCEPT !.status = verdict]}
  /\ closed' = IF verdict = "open" THEN closed \ {r.id} ELSE closed \cup {r.id}
  /\ UNCHANGED <<enforced, second, seq, conn, wire, incidents, handled, crashed, sent>>

\* Mutant: only the alerts that are still open are listed.
NewestOpen(limit) ==
  LET open == {r \in alerts : r.status = "open"} IN
  {R \in SUBSET open :
     /\ Cardinality(R) = IF Cardinality(open) < limit THEN Cardinality(open) ELSE limit
     /\ \A r \in R, s \in open \ R : s.id[1] <= r.id[1]}

\* list_alerts(): what it may answer, the newest rows up to the limit; rows
\* of one second are in either order.
Newest(limit) ==
  {R \in SUBSET alerts :
     /\ Cardinality(R) = IF Cardinality(alerts) < limit THEN Cardinality(alerts) ELSE limit
     /\ \A r \in R, s \in alerts \ R : s.id[1] <= r.id[1]}
-----------------------------------------------------------------------------
StoreTypeOK ==
  /\ enforced \in BOOLEAN /\ second \in 0..MaxSecond
  /\ seq \in [Endpoints -> 0..MaxSent] /\ wire \subseteq Messages
  /\ conn \in [Endpoints -> Conns] /\ \A e \in Endpoints : conn[e] <= MaxConns[e]
  /\ alerts \subseteq [id : Ids, ep : Endpoints, n : 1..MaxSent, conn : Conns, status : {"open", "resolved"}]
  /\ incidents \subseteq [id : Ids, ep : Endpoints, n : 1..MaxSent, conn : Conns]
  /\ \A r, s \in alerts : r.id = s.id => r = s
  /\ \A i, j \in incidents : i.id = j.id => i = j
  /\ sent \in 0..MaxSent
  /\ handled \subseteq Messages /\ crashed \subseteq handled /\ closed \subseteq Named(alerts)

(***************************************************************************)
(* What has been handled is stored as what it is, unless another endpoint  *)
(* has sent its like under the same name or, for a manual result, there    *)
(* was another in that second: neither restarts of an agent, nor messages  *)
(* that arrive again or over an older connection, make the check of the    *)
(* name drop anything.                                                     *)
(***************************************************************************)
OnlyCollisionsAreDropped ==
  \A m \in handled \ crashed :
    \E r \in (IF m.kind = "alert" THEN alerts ELSE incidents) :
      r.id = m.id /\ (r.n = m.n \/ r.ep # m.ep \/ IsManual(m.id))

(***************************************************************************)
(* The database raises only where it enforces foreign keys, and only on a  *)
(* manual result or one whose alert was lost or held up on an older        *)
(* connection: never on one whose alert came, or is still to come, over    *)
(* the same connection or a later one.                                     *)
(***************************************************************************)
CrashHasCause ==
  \A m \in crashed :
    /\ enforced
    /\ \/ IsManual(m.id)
       \/ \A a \in handled \cup wire : a.kind = "alert" /\ a.id = m.id /\ a.ep = m.ep => a.conn < m.conn

(***************************************************************************)
(* The status of an alert is the analyst's last verdict, also when the     *)
(* alert arrives again, be it over an older connection.                    *)
(***************************************************************************)
VerdictStands == \A r \in alerts : r.status = "open" <=> r.id \notin closed

(***************************************************************************)
(* Every result the server has received is in the table of incidents: the  *)
(* shipper is to report exactly what was done back to the dashboard.       *)
(***************************************************************************)
ResultsAreStored == \A m \in handled : m.kind = "result" => m.id \in Named(incidents)
=============================================================================
