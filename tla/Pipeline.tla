------------------------------ MODULE Pipeline ------------------------------
(***************************************************************************)
(* From the agents to the analyst: the alerts and results of Store, and a  *)
(* page of Dashboard that the server pushes alerts to and that asks for    *)
(* the list of alerts.  A broadcast is as far as this page sees it; the    *)
(* loop over the dashboards is the subject of Hub.                         *)
(***************************************************************************)
EXTENDS Store, Dashboard

vars == <<storeVars, dashboardVars>>

Init == StoreInit /\ DashboardInit

Shown(r) == [id |-> r.id, ep |-> r.ep]

\* Mutant: an alert is broadcast before it is stored, and the handler may
\* end in between.
AlertPushedFirst(m) ==
  /\ Receive(m, "alert")
  /\ alerts' \in {alerts, StoreAlert(m)}
  /\ UNCHANGED <<incidents, crashed>>
  /\ Push(Shown(m))

\* agent_ws() stores an alert and broadcasts it, new or not.
AlertArrives(m) == HandleAlert(m) /\ Push(Shown(m))

\* The page ignores the push of an incident.
ResultArrives(m) == HandleResult(m) /\ UNCHANGED dashboardVars

AnswerAlerts == \E R \in Newest(Limit) : Answer({Shown(r) : r \in R}) /\ UNCHANGED storeVars

Agents ==
  /\ \/ Clock
     \/ \E e \in Endpoints :
          Quarantine(e) \/ Restart(e) \/ \E contained \in BOOLEAN : Detect(e, contained)
     \/ \E m \in wire : Lose(m)
  /\ UNCHANGED dashboardVars

Server ==
  \/ \E m \in wire : AlertArrives(m) \/ ResultArrives(m)
  \/ AnswerAlerts
  \/ (\E r \in alerts, verdict \in {"open", "resolved"} : Triage(r, verdict)) /\ UNCHANGED dashboardVars

Browser ==
  /\ \/ Opened \/ Closed \/ Reconnect \/ AnswerArrives
     \/ \E a \in pushes : PushArrives(a)
  /\ UNCHANGED storeVars

Next == Agents \/ Server \/ Browser

(***************************************************************************)
(* Fairness.  The page asks every three seconds, the server answers, and   *)
(* the answer arrives.  Pushes and the WebSocket are owed nothing.         *)
(***************************************************************************)
Spec == Init /\ [][Next]_vars /\ WF_vars(AnswerAlerts) /\ WF_vars(AnswerArrives /\ UNCHANGED storeVars)
-----------------------------------------------------------------------------
TypeOK ==
  /\ StoreTypeOK /\ DashboardTypeOK
  /\ \A a \in pushes \cup alertCache \cup UNION {answers[i] : i \in 1..Len(answers)} : DOMAIN a = {"id", "ep"}

(***************************************************************************)
(* The page shows, of what the server sent it, only alerts that the server *)
(* has stored; it takes one for another only where two endpoints gave      *)
(* theirs the same name.                                                   *)
(***************************************************************************)
ShownIsStored ==
  \A a \in alertCache :
    \E r \in alerts :
      /\ r.id = a.id
      /\ r.ep = a.ep \/ \E m \in handled : m.kind = "alert" /\ Shown(m) = a

\* The stored alerts the page should show and does not.
Due ==
  {r \in alerts :
     /\ r.id \notin {a.id : a \in alertCache}
     /\ Cardinality({s \in alerts \ {r} : s.id[1] >= r.id[1]}) < Limit}

(***************************************************************************)
(* An alert that was stored is shown in the end, whatever becomes of its   *)
(* push and of the WebSocket, unless as many others as the page asks for   *)
(* are at least as new.                                                    *)
(***************************************************************************)
StoredIsShown == Due # {} ~> Due = {}

(***************************************************************************)
(* The tables keep the promise of Ledger: nothing is stored twice; what is *)
(* stored after something its agent raised later, or an alert after its    *)
(* incident, came over an older connection; and no incident is without an  *)
(* alert where that is enforced.                                           *)
(***************************************************************************)
Promise == INSTANCE Ledger
ImplementsLedger == Promise!Spec
=============================================================================
