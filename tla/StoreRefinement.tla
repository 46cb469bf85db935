-------------------------- MODULE StoreRefinement --------------------------
(***************************************************************************)
(* Proof that the tables of Pipeline implement Ledger, for every set of    *)
(* endpoints and every bound: a handler takes the messages of its          *)
(* connection in order, and an agent goes on to later connections only.    *)
(***************************************************************************)
EXTENDS PipelineProofs

(***************************************************************************)
(* The inductive invariant: nothing on its way comes before what was       *)
(* handled of its connection.                                              *)
(***************************************************************************)
HandledFirst == \A m \in handled : \A o \in wire : SameConnection(m, o) => ~Before(o, m)
LedgerInv == StoreInv /\ HandledFirst

-----------------------------------------------------------------------------
(***************************************************************************)
(* The order is kept.                                                      *)
(***************************************************************************)
LEMMA ShipKeepsOrder ==
  ASSUME LedgerInv, NEW e \in Endpoints, NEW id \in Ids, NEW kinds \in Kinds, Ship(e, kinds, id),
         handled' = handled
  PROVE  HandledFirst'
<1>1. WireOK /\ CountersOK /\ sent \in Nat
  BY StoreInvParts, Bounds DEF LedgerInv, CountersOK
<1>2. \A o \in wire' \ wire : o.n = sent + 1
  BY <1>1, ShipEffect
<1>3. ASSUME NEW m \in handled, NEW o \in wire' \ wire
      PROVE  ~Before(o, m)
  <2>1. m.n <= sent /\ m.n \in Nat
    BY ToldAreMessages DEF LedgerInv, StoreInv, Naming, Told
  <2>2. m.n < o.n /\ o.n \in Nat
    BY <1>1, <1>2, <2>1
  <2> QED BY <2>1, <2>2 DEF Before
<1> QED BY <1>3 DEF LedgerInv, HandledFirst, SameConnection, Before

LEMMA ReceiveKeepsOrder ==
  ASSUME LedgerInv, NEW m \in wire, NEW kind, Receive(m, kind)
  PROVE  HandledFirst'
<1>1. /\ handled' = handled \cup {m} /\ wire' \subseteq wire
      /\ \A o \in wire : SameConnection(o, m) => ~Before(o, m)
  BY DEF Receive
<1> QED BY <1>1 DEF LedgerInv, HandledFirst, SameConnection, Before

LEMMA OrderKept ==
  ASSUME LedgerInv, StoreNext \/ UNCHANGED storeVars
  PROVE  HandledFirst'
<1>1. ASSUME wire' \subseteq wire, handled' = handled
      PROVE  HandledFirst'
  BY <1>1 DEF LedgerInv, HandledFirst, SameConnection, Before
<1>2. CASE Clock \/ (\E e \in Endpoints : Restart(e)) \/ (\E m \in wire : Lose(m)) \/ UNCHANGED storeVars
  BY <1>1, <1>2 DEF Clock, Restart, Lose, storeVars, store
<1>3. ASSUME NEW e \in Endpoints, Quarantine(e)
      PROVE  HandledFirst'
  <2>1. <<"result">> \in Kinds /\ handled' = handled
    BY <1>3 DEF Kinds, Quarantine, store
  <2>2. PICK k \in Ids : k = <<second, 0>>
    <3>1. second \in 0..MaxSecond /\ 0 \in 0..MaxSent
      BY Bounds, StoreInvParts DEF LedgerInv, CountersOK
    <3>2. <<second, 0>> \in Ids
      BY <3>1 DEF Ids
    <3> QED BY <3>2
  <2>3. Ship(e, <<"result">>, k)
    BY <1>3, <2>2 DEF Quarantine
  <2> QED BY <2>1, <2>3, ShipKeepsOrder
<1>4. ASSUME NEW e \in Endpoints, NEW contained \in BOOLEAN, Detect(e, contained)
      PROVE  HandledFirst'
  <2>1. Shipment(contained) \in Kinds /\ handled' = handled
    BY <1>4 DEF Kinds, Shipment, Detect, store
  <2>2. PICK k \in Ids : k = AlertId(e)
    <3>1. second \in 0..MaxSecond /\ seq[e] \in Nat /\ seq[e] <= sent /\ sent \in Nat /\ sent < MaxSent
      BY <1>4, Bounds, StoreInvParts DEF LedgerInv, CountersOK, Naming, Detect, Ship
    <3>2. seq[e] + 1 \in 0..MaxSent
      BY <3>1, Bounds
    <3> QED BY <3>1, <3>2 DEF AlertId, Ids
  <2>3. PICK kinds \in Kinds : kinds = Shipment(contained)
    BY <2>1
  <2>4. Ship(e, kinds, k)
    BY <1>4, <2>2, <2>3 DEF Detect
  <2> QED BY <2>1, <2>4, ShipKeepsOrder
<1>5. ASSUME NEW m \in wire, HandleAlert(m) \/ HandleResult(m)
      PROVE  HandledFirst'
  BY <1>5, ReceiveKeepsOrder DEF HandleAlert, HandleResult
<1>6. ASSUME NEW r \in alerts, NEW verdict \in {"open", "resolved"}, Triage(r, verdict)
      PROVE  HandledFirst'
  BY <1>1, <1>6 DEF Triage
<1> QED BY <1>2, <1>3, <1>4, <1>5, <1>6 DEF StoreNext

-----------------------------------------------------------------------------
(***************************************************************************)
(* The steps of the store are steps of the ledger.                         *)
(***************************************************************************)
\* What was handled before m though its agent sent it later came over a
\* later connection.
LEMMA LaterCameOverLater ==
  ASSUME LedgerInv, NEW m \in wire, NEW x \in handled, x.ep = m.ep, Before(m, x)
  PROVE  m.conn < x.conn
<1>1. m \in Told /\ x \in Told /\ m.conn \in Nat /\ x.conn \in Nat
  BY ToldAreMessages DEF LedgerInv
<1>2. m.conn <= x.conn
  BY <1>1 DEF LedgerInv, StoreInv, Routed
<1>3. m.conn # x.conn
  BY DEF LedgerInv, HandledFirst, SameConnection
<1> QED BY <1>1, <1>2, <1>3

LEMMA AlertIsRecorded ==
  ASSUME LedgerInv, NEW m \in wire, HandleAlert(m)
  PROVE  [Promise!Next]_<<enforced, sent, alerts, incidents>>
<1>1. /\ m \in Messages /\ m.kind = "alert" /\ m \in Told /\ handled \subseteq Told
      /\ m.n \in Nat /\ m.ep \in Endpoints
      /\ UNCHANGED <<enforced, sent, incidents>>
  BY ReceiveEffect, MessageParts, ToldAreMessages DEF HandleAlert, LedgerInv, Receive, Told
<1>2. Rows /\ Naming
  BY StoreInvParts DEF LedgerInv, TablesInv
<1>3. \/ m.id \in Named(alerts) /\ alerts' = alerts
      \/ m.id \notin Named(alerts) /\ alerts' = alerts \cup {Row(m)}
  BY DEF HandleAlert, StoreAlert
<1>4. CASE m.id \notin Named(alerts) /\ alerts' = alerts \cup {Row(m)}
  <2>1. \A r \in alerts : r.id # m.id
    BY <1>4 DEF Named
  <2>2. ASSUME NEW r \in alerts, r.ep = m.ep
        PROVE  r.n # m.n /\ (r.n > m.n => r.conn > m.conn)
    <3>1. PICK x \in handled : x.id = r.id /\ x.ep = r.ep /\ x.n = r.n /\ x.conn = r.conn
      BY <1>2 DEF Rows
    <3>2. r.n # m.n
      BY <1>1, <1>2, <2>1, <3>1 DEF Naming
    <3>3. r.n > m.n => r.conn > m.conn
      <4> SUFFICES ASSUME r.n > m.n PROVE r.conn > m.conn
        OBVIOUS
      <4>1. x.n \in Nat /\ x.conn \in Nat /\ m.conn \in Nat
        BY <1>1, ToldAreMessages DEF LedgerInv
      <4>2. Before(m, x)
        BY <1>1, <3>1, <4>1 DEF Before
      <4>3. m.conn < x.conn
        BY <2>2, <3>1, <4>2, LaterCameOverLater
      <4> QED BY <3>1, <4>1, <4>3
    <3> QED BY <3>2, <3>3
  <2>3. ASSUME NEW i \in incidents, i.ep = m.ep
        PROVE  (i.n >= m.n => i.conn > m.conn) /\ (i.n = m.n => i.id = m.id)
    <3>1. PICK x \in handled :
            x.kind = "result" /\ x.id = i.id /\ x.ep = i.ep /\ x.n = i.n /\ x.conn = i.conn
      BY <1>2 DEF Rows
    <3>2. i.n = m.n => i.id = m.id
      BY <1>1, <1>2, <3>1 DEF Naming
    <3>3. i.n >= m.n => i.conn > m.conn
      <4> SUFFICES ASSUME i.n >= m.n PROVE i.conn > m.conn
        OBVIOUS
      <4>1. x.n \in Nat /\ x.conn \in Nat /\ m.conn \in Nat
        BY <1>1, ToldAreMessages DEF LedgerInv
      <4>2. m.n < x.n \/ m.n = x.n
        BY <1>1, <3>1, <4>1
      <4>3. Before(m, x)
        BY <1>1, <3>1, <4>2 DEF Before
      <4>4. m.conn < x.conn
        BY <2>3, <3>1, <4>3, LaterCameOverLater
      <4> QED BY <3>1, <4>1, <4>4
    <3> QED BY <3>2, <3>3
  <2>4. m.id \in Ids /\ m.n \in 1..sent /\ m.conn \in Conns
    <3>1. m.n <= sent /\ sent \in Nat
      BY <1>1, <1>2, Bounds, StoreInvParts DEF LedgerInv, Naming, CountersOK
    <3> QED BY <1>1, <3>1, MessageParts, Bounds
  <2>5. PICK a \in [id : Ids, ep : Endpoints, n : 1..sent, conn : Conns, status : {"open"}] :
          a = Row(m) /\ a.id = m.id /\ a.ep = m.ep /\ a.n = m.n /\ a.conn = m.conn
    <3>1. Row(m) \in [id : Ids, ep : Endpoints, n : 1..sent, conn : Conns, status : {"open"}]
      BY <1>1, <2>4 DEF Row
    <3> QED BY <3>1 DEF Row
  <2>6. a \in alerts' \ alerts
    BY <1>4, <2>1, <2>5
  <2>7. /\ \A r \in Promise!Of(a.ep, alerts) : r.n # a.n /\ (r.n > a.n => r.conn > a.conn)
        /\ \A i \in Promise!Of(a.ep, incidents) : (i.n >= a.n => i.conn > a.conn) /\ (i.n = a.n => i.id = a.id)
    BY <2>2, <2>3, <2>5 DEF Promise!Of
  <2>8. Promise!RecordAlert(a)
    BY <1>1, <1>4, <2>1, <2>5, <2>7 DEF Promise!RecordAlert
  <2> QED BY <2>6, <2>8 DEF Promise!Next
<1> QED BY <1>1, <1>3, <1>4

LEMMA IncidentIsRecorded ==
  ASSUME LedgerInv, NEW m \in wire, HandleResult(m)
  PROVE  [Promise!Next]_<<enforced, sent, alerts, incidents>>
<1>1. /\ m \in Messages /\ m.kind = "result" /\ m \in Told /\ handled \subseteq Told
      /\ m.n \in Nat /\ m.ep \in Endpoints
      /\ UNCHANGED <<enforced, sent, alerts>>
  BY ReceiveEffect, MessageParts, ToldAreMessages DEF HandleResult, LedgerInv, Receive, Told
<1>2. Rows /\ Naming
  BY StoreInvParts DEF LedgerInv, TablesInv
<1>3. \/ incidents' = incidents
      \/ /\ m.id \notin Named(incidents) /\ (enforced => m.id \in Named(alerts))
         /\ incidents' = incidents \cup {IncidentRow(m)}
  BY DEF HandleResult
<1>4. CASE /\ m.id \notin Named(incidents) /\ (enforced => m.id \in Named(alerts))
           /\ incidents' = incidents \cup {IncidentRow(m)}
  <2>1. /\ \A i \in incidents : i.id # m.id
        /\ enforced => \E r \in alerts : r.id = m.id
    BY <1>4 DEF Named
  <2>2. ASSUME NEW x \in handled, x.ep = m.ep, x.n > m.n
        PROVE  x.conn > m.conn
    <3>1. x.n \in Nat /\ x.conn \in Nat /\ m.conn \in Nat
      BY <1>1, ToldAreMessages DEF LedgerInv
    <3>2. Before(m, x)
      BY <1>1, <2>2, <3>1 DEF Before
    <3>3. m.conn < x.conn
      BY <2>2, <3>2, LaterCameOverLater
    <3> QED BY <3>1, <3>3
  <2>3. ASSUME NEW j \in incidents, j.ep = m.ep
        PROVE  j.n # m.n /\ (j.n > m.n => j.conn > m.conn)
    <3>1. PICK x \in handled : x.id = j.id /\ x.ep = j.ep /\ x.n = j.n /\ x.conn = j.conn
      BY <1>2 DEF Rows
    <3>2. j.n # m.n
      BY <1>1, <1>2, <2>1, <3>1 DEF Naming
    <3> QED BY <2>2, <2>3, <3>1, <3>2
  <2>4. ASSUME NEW r \in alerts, r.ep = m.ep
        PROVE  (r.n > m.n => r.conn > m.conn) /\ (r.n = m.n => r.id = m.id)
    <3>1. PICK x \in handled : x.id = r.id /\ x.ep = r.ep /\ x.n = r.n /\ x.conn = r.conn
      BY <1>2 DEF Rows
    <3>2. r.n = m.n => r.id = m.id
      BY <1>1, <1>2, <3>1 DEF Naming
    <3> QED BY <2>2, <2>4, <3>1, <3>2
  <2>5. m.id \in Ids /\ m.n \in 1..sent /\ m.conn \in Conns
    <3>1. m.n <= sent /\ sent \in Nat
      BY <1>1, <1>2, Bounds, StoreInvParts DEF LedgerInv, Naming, CountersOK
    <3> QED BY <1>1, <3>1, MessageParts, Bounds
  <2>6. PICK i \in [id : Ids, ep : Endpoints, n : 1..sent, conn : Conns] :
          i = IncidentRow(m) /\ i.id = m.id /\ i.ep = m.ep /\ i.n = m.n /\ i.conn = m.conn
    <3>1. IncidentRow(m) \in [id : Ids, ep : Endpoints, n : 1..sent, conn : Conns]
      BY <1>1, <2>5 DEF IncidentRow
    <3> QED BY <3>1 DEF IncidentRow
  <2>7. i \in incidents' \ incidents
    BY <1>4, <2>1, <2>6
  <2>8. /\ \A j \in Promise!Of(i.ep, incidents) : j.n # i.n /\ (j.n > i.n => j.conn > i.conn)
        /\ \A r \in Promise!Of(i.ep, alerts) : (r.n > i.n => r.conn > i.conn) /\ (r.n = i.n => r.id = i.id)
    BY <2>3, <2>4, <2>6 DEF Promise!Of
  <2>9. Promise!RecordIncident(i)
    BY <1>1, <1>4, <2>1, <2>6, <2>8 DEF Promise!RecordIncident
  <2> QED BY <2>7, <2>9 DEF Promise!Next
<1> QED BY <1>1, <1>3, <1>4

LEMMA EveryStepIsPromised ==
  ASSUME LedgerInv, StoreNext \/ UNCHANGED storeVars
  PROVE  [Promise!Next]_<<enforced, sent, alerts, incidents>>
<1>1. CASE Clock \/ (\E e \in Endpoints : Restart(e)) \/ (\E m \in wire : Lose(m)) \/ UNCHANGED storeVars
  BY <1>1 DEF Clock, Restart, Lose, storeVars, store
<1>2. ASSUME NEW e \in Endpoints, Quarantine(e) \/ \E contained \in BOOLEAN : Detect(e, contained)
      PROVE  Promise!Next
  <2>1. sent' = sent + 1 /\ UNCHANGED <<enforced, alerts, incidents>>
    BY <1>2 DEF Quarantine, Detect, Ship, store
  <2> QED BY <2>1 DEF Promise!Next, Promise!Raise, Promise!tables
<1>3. ASSUME NEW m \in wire, HandleAlert(m) \/ HandleResult(m)
      PROVE  [Promise!Next]_<<enforced, sent, alerts, incidents>>
  BY <1>3, AlertIsRecorded, IncidentIsRecorded
<1>4. ASSUME NEW r \in alerts, NEW verdict \in {"open", "resolved"}, Triage(r, verdict)
      PROVE  Promise!Next
  BY <1>4 DEF Triage, Promise!Next, Promise!Judge
<1> QED BY <1>1, <1>2, <1>3, <1>4 DEF StoreNext

(***************************************************************************)
(* The tables keep what Ledger promises: _store_alert() and                *)
(* _store_incident() add one row for a name, and the rows that came over   *)
(* one connection in the order in which the agent raised them, whatever is *)
(* lost, comes again, or waits at the handler of an older connection.      *)
(***************************************************************************)
THEOREM PipelineImplementsLedger == Spec => ImplementsLedger
<1>1. Init => Promise!Init
  BY DEF Init, StoreInit, Promise!Init
<1>2. Init => LedgerInv
  <2> SUFFICES ASSUME Init PROVE LedgerInv
    OBVIOUS
  <2>1. wire = {} /\ handled = {}
    BY DEF Init, StoreInit
  <2> QED BY <2>1, StoreStarts DEF Init, LedgerInv, HandledFirst
<1>3. LedgerInv /\ [Next]_vars => LedgerInv'
  BY NextOfStore, StoreKeeps, OrderKept DEF LedgerInv
<1>4. LedgerInv /\ [Next]_vars => [Promise!Next]_<<enforced, sent, Promise!tables>>
  <2> SUFFICES ASSUME LedgerInv, [Next]_vars
               PROVE  [Promise!Next]_<<enforced, sent, Promise!tables>>
    OBVIOUS
  <2>1. [Promise!Next]_<<enforced, sent, alerts, incidents>>
    BY NextOfStore, EveryStepIsPromised
  <2> QED BY <2>1 DEF Promise!tables
<1> QED BY <1>1, <1>2, <1>3, <1>4, PTL DEF Spec, ImplementsLedger, Promise!Spec
=============================================================================
