------------------------------- MODULE Ledger -------------------------------
(***************************************************************************)
(* What the server's tables promise of the alerts and incidents they keep, *)
(* however messages are lost, come again or share their names: rows are    *)
(* only added, one for each name, and those that came over one connection  *)
(* in the order in which the agent raised them, an alert before its        *)
(* incident; what comes late came over an older connection.  There are no  *)
(* messages here and no names are given; Pipeline implements it.           *)
(***************************************************************************)
EXTENDS Naturals

CONSTANTS
  Endpoints,  \* the endpoint ids of the agents
  Ids,        \* the names of alerts and incidents
  Conns       \* the connections of an agent, in order

VARIABLES
  enforced,   \* an incident must refer to an alert
  sent,       \* how many alerts and manual results have been raised
  alerts,     \* the rows of alerts; n is the number of what was raised
  incidents   \* the rows of incidents

tables == <<alerts, incidents>>

Init == enforced \in BOOLEAN /\ sent = 0 /\ alerts = {} /\ incidents = {}

Raise == sent' = sent + 1 /\ UNCHANGED <<enforced, tables>>

Of(ep, rows) == {r \in rows : r.ep = ep}

\* What a row finds recorded that its agent raised later came over a later
\* connection.
RecordAlert(a) ==
  /\ a \in [id : Ids, ep : Endpoints, n : 1..sent, conn : Conns, status : {"open"}]
  /\ \A r \in alerts : r.id # a.id
  /\ \A r \in Of(a.ep, alerts) : r.n # a.n /\ (r.n > a.n => r.conn > a.conn)
  /\ \A i \in Of(a.ep, incidents) : (i.n >= a.n => i.conn > a.conn) /\ (i.n = a.n => i.id = a.id)
  /\ alerts' = alerts \cup {a}
  /\ UNCHANGED <<enforced, sent, incidents>>

RecordIncident(i) ==
  /\ i \in [id : Ids, ep : Endpoints, n : 1..sent, conn : Conns]
  /\ \A j \in incidents : j.id # i.id
  /\ enforced => \E r \in alerts : r.id = i.id
  /\ \A j \in Of(i.ep, incidents) : j.n # i.n /\ (j.n > i.n => j.conn > i.conn)
  /\ \A r \in Of(i.ep, alerts) : (r.n > i.n => r.conn > i.conn) /\ (r.n = i.n => r.id = i.id)
  /\ incidents' = incidents \cup {i}
  /\ UNCHANGED <<enforced, sent, alerts>>

Judge(r, verdict) ==
  /\ alerts' = (alerts \ {r}) \cup {[r EXCEPT !.status = verdict]}
  /\ UNCHANGED <<enforced, sent, incidents>>

\* The row that is recorded is looked for in the table it is in afterwards.
Next ==
  \/ Raise
  \/ \E a \in alerts' \ alerts : RecordAlert(a)
  \/ \E i \in incidents' \ incidents : RecordIncident(i)
  \/ \E r \in alerts, verdict \in {"open", "resolved"} : Judge(r, verdict)

Spec == Init /\ [][Next]_<<enforced, sent, tables>>
=============================================================================
