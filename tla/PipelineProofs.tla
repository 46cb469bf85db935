--------------------------- MODULE PipelineProofs ---------------------------
(***************************************************************************)
(* Proofs about Pipeline, with what it takes from Store and Dashboard, for *)
(* every set of endpoints, every limit and every bound: the types and the  *)
(* six safety invariants of the run Pipeline.                              *)
(***************************************************************************)
EXTENDS Pipeline, FiniteSetTheorems, SequenceTheorems, TLAPS

(***************************************************************************)
(* The parts of the inductive invariant.                                   *)
(***************************************************************************)
\* The messages that are on their way or were handled.
Told == handled \cup wire

\* The name a message of e got is one that e has already given.
Given(e, id) ==
  /\ id[1] <= second
  /\ ~IsManual(id) /\ id[1] = second => id[2] <= seq[e]

\* Messages are named and numbered; alerts are not named as manual results
\* are; one agent names no two alerts alike, and a number is given once.
Naming ==
  /\ \A e \in Endpoints : seq[e] <= sent
  /\ \A m \in Told : Given(m.ep, m.id) /\ m.n <= sent /\ (m.kind = "alert" => ~IsManual(m.id))
  /\ \A m, o \in Told : m.ep = o.ep /\ m.id = o.id /\ ~IsManual(m.id) => m.n = o.n
  /\ \A m, o \in Told : m.n = o.n => m.ep = o.ep /\ m.id = o.id

\* An agent goes on to later connections only.
Routed ==
  /\ \A m \in Told : m.conn <= conn[m.ep]
  /\ \A m, o \in Told : m.ep = o.ep /\ Before(m, o) => m.conn <= o.conn

\* What is in a table has been handled, and what was handled has its name
\* in its table or has made the database raise.
Rows ==
  /\ \A r \in alerts : \E m \in handled :
       m.kind = "alert" /\ m.id = r.id /\ m.ep = r.ep /\ m.n = r.n /\ m.conn = r.conn
  /\ \A r \in incidents : \E m \in handled :
       m.kind = "result" /\ m.id = r.id /\ m.ep = r.ep /\ m.n = r.n /\ m.conn = r.conn
  /\ \A m \in handled : m.kind = "alert" => m.id \in Named(alerts)
  /\ \A m \in handled \ crashed : m.kind = "result" => m.id \in Named(incidents)

\* What the page is sent of an alert has the id of one that is stored and
\* the endpoint of that one, or of a handled message of that id; a list it
\* is sent has no two alerts of one id.
Sound(a) ==
  \E r \in alerts :
    /\ r.id = a.id
    /\ r.ep = a.ep \/ \E m \in handled : m.kind = "alert" /\ Shown(m) = a
IsAlert(a) == a \in [id : Ids, ep : Endpoints] /\ Sound(a)
Distinct(A) == \A a, b \in A : a.id = b.id => a = b
IsList(A) == IsFiniteSet(A) /\ Distinct(A) /\ \A a \in A : IsAlert(a)

\* All the page has been sent, on its way or shown, are alerts that are
\* stored.
PageIsSound ==
  /\ answers \in Seq(SUBSET [id : Ids, ep : Endpoints])
  /\ \A i \in 1..Len(answers) : IsList(answers[i])
  /\ \A a \in pushes : IsAlert(a)
  /\ IsList(alertCache)

WireOK == wire \subseteq Messages
StoreInv ==
  /\ StoreTypeOK /\ IsFiniteSet(alerts) /\ Naming /\ Routed /\ Rows
  /\ CrashHasCause /\ VerdictStands
PageInv == DashboardTypeOK /\ PageIsSound /\ FallbackIsOffline /\ EachCountsOnce
Inv == StoreInv /\ PageInv

-----------------------------------------------------------------------------
(***************************************************************************)
(* Messages.                                                               *)
(***************************************************************************)
LEMMA Bounds ==
  /\ MaxSecond \in Nat /\ MaxSent \in Nat /\ MaxOnWire \in Nat
  /\ \A e \in Endpoints : MaxConns[e] \in Nat \ {0}
  /\ MaxAnswers \in Nat /\ Limit \in Nat \ {0}
BY StoreAssumption, DashboardAssumption

LEMMA MessageParts ==
  ASSUME NEW m \in Messages
  PROVE  /\ m.kind \in {"alert", "result"} /\ m.ep \in Endpoints /\ m.id \in Ids /\ m.n \in 1..MaxSent
         /\ m.id[1] \in 0..MaxSecond /\ m.id[2] \in 0..MaxSent /\ m.id = <<m.id[1], m.id[2]>>
         /\ m.n \in Nat /\ m.conn \in Conns /\ m.conn \in Nat
BY Bounds DEF Messages, Ids, Conns

\* What of StoreTypeOK is about the tables.
TablesOK ==
  /\ alerts \subseteq [id : Ids, ep : Endpoints, n : 1..MaxSent, conn : Conns, status : {"open", "resolved"}]
  /\ incidents \subseteq [id : Ids, ep : Endpoints, n : 1..MaxSent, conn : Conns]
  /\ \A r, s \in alerts : r.id = s.id => r = s
  /\ \A i, j \in incidents : i.id = j.id => i = j
  /\ handled \subseteq Messages /\ crashed \subseteq handled /\ closed \subseteq Named(alerts)

ConnOK == conn \in [Endpoints -> Conns] /\ \A e \in Endpoints : conn[e] <= MaxConns[e]

CountersOK ==
  /\ enforced \in BOOLEAN /\ second \in 0..MaxSecond /\ seq \in [Endpoints -> 0..MaxSent]
  /\ sent \in 0..MaxSent /\ ConnOK

LEMMA StoreParts == StoreTypeOK <=> WireOK /\ TablesOK /\ CountersOK
BY DEF StoreTypeOK, WireOK, TablesOK, CountersOK, ConnOK

\* What depends on the tables alone.
TablesInv == TablesOK /\ IsFiniteSet(alerts) /\ Rows /\ VerdictStands

LEMMA StoreInvParts ==
  StoreInv <=> WireOK /\ CountersOK /\ TablesInv /\ Naming /\ Routed /\ CrashHasCause
BY StoreParts DEF StoreInv, TablesInv

LEMMA StoreInvNext ==
  ASSUME WireOK', CountersOK', TablesInv', Naming', Routed', CrashHasCause'
  PROVE  StoreInv'
BY DEF StoreInv, StoreTypeOK, TablesInv, WireOK, TablesOK, CountersOK, ConnOK

LEMMA TablesStay ==
  ASSUME TablesInv, UNCHANGED <<enforced, store, closed>>
  PROVE  TablesInv'
<1>1. /\ alerts' = alerts /\ incidents' = incidents /\ handled' = handled /\ crashed' = crashed
      /\ enforced' = enforced /\ closed' = closed
  BY DEF store
<1> QED BY <1>1 DEF TablesInv, TablesOK, Rows, VerdictStands, Named

LEMMA ToldAreMessages ==
  ASSUME StoreInv
  PROVE  /\ Told \subseteq Messages /\ handled \subseteq Told /\ wire \subseteq Told /\ crashed \subseteq Told
         /\ \A m \in Told : m.ep \in Endpoints /\ m.id \in Ids /\ m.n \in Nat /\ m.conn \in Nat
<1>1. WireOK /\ handled \subseteq Messages /\ crashed \subseteq handled
  BY StoreInvParts DEF TablesInv, TablesOK
<1>2. Told \subseteq Messages
  BY <1>1 DEF Told, WireOK
<1> QED BY <1>1, <1>2, MessageParts DEF Told

-----------------------------------------------------------------------------
(***************************************************************************)
(* Nothing new is told: messages are handled, lost, or left alone, while   *)
(* the agents may only get further.                                        *)
(***************************************************************************)
LEMMA ToldKept ==
  ASSUME StoreInv, Told' \subseteq Told, sent' = sent, CountersOK',
         \A d \in Endpoints : seq'[d] <= sent /\ conn[d] <= conn'[d],
         \A d \in Endpoints, id \in Ids : Given(d, id) => Given(d, id)'
  PROVE  Naming' /\ Routed'
<1>1. \A m \in Told : m.ep \in Endpoints /\ m.id \in Ids /\ m.n \in Nat /\ m.conn \in Nat
  BY ToldAreMessages
<1>2. Naming /\ Routed /\ CountersOK
  BY StoreInvParts
<1>3. ASSUME NEW m \in Told'
      PROVE  Given(m.ep, m.id)' /\ m.n <= sent' /\ (m.kind = "alert" => ~IsManual(m.id))
  <2>1. Given(m.ep, m.id) /\ m.n <= sent /\ (m.kind = "alert" => ~IsManual(m.id)) /\ m \in Told
    BY <1>2 DEF Naming
  <2> QED BY <1>1, <2>1
<1>4. Naming'
  <2>1. \A m, o \in Told' : m.ep = o.ep /\ m.id = o.id /\ ~IsManual(m.id) => m.n = o.n
    BY <1>2 DEF Naming
  <2>2. \A m, o \in Told' : m.n = o.n => m.ep = o.ep /\ m.id = o.id
    BY <1>2 DEF Naming
  <2>3. \A d \in Endpoints : seq'[d] <= sent'
    OBVIOUS
  <2> QED BY <1>3, <2>1, <2>2, <2>3 DEF Naming
<1>5. ASSUME NEW m \in Told'
      PROVE  m.conn <= conn'[m.ep]
  <2>1. m \in Told /\ m.ep \in Endpoints /\ m.conn \in Nat
    BY <1>1
  <2>2. m.conn <= conn[m.ep] /\ conn[m.ep] <= conn'[m.ep]
    BY <1>2, <2>1 DEF Routed
  <2>3. conn[m.ep] \in Nat /\ conn'[m.ep] \in Nat
    BY <1>2, <2>1 DEF CountersOK, ConnOK, Conns
  <2> QED BY <2>1, <2>2, <2>3
<1>6. \A m, o \in Told' : m.ep = o.ep /\ Before(m, o) => m.conn <= o.conn
  BY <1>2 DEF Routed
<1> QED BY <1>4, <1>5, <1>6 DEF Routed, Before

LEMMA CausesKept ==
  ASSUME CrashHasCause, Told' \subseteq Told, enforced' = enforced, crashed' = crashed
  PROVE  CrashHasCause'
BY DEF CrashHasCause, Told

LEMMA TimePasses ==
  ASSUME StoreInv, Clock \/ \E e \in Endpoints : Restart(e)
  PROVE  StoreInv'
<1> USE StoreInvParts
<1>1. /\ UNCHANGED <<enforced, wire, store, sent, closed>>
      /\ second < MaxSecond /\ second' = second + 1
  BY DEF Clock, Restart
<1>2. seq' \in [Endpoints -> 0..MaxSent] /\ \A d \in Endpoints : seq'[d] = 0 \/ seq'[d] = seq[d]
  <2>1. seq \in [Endpoints -> 0..MaxSent] /\ 0 \in 0..MaxSent
    BY Bounds DEF CountersOK
  <2>2. CASE Clock
    BY <2>1, <2>2 DEF Clock
  <2>3. ASSUME NEW e \in Endpoints, Restart(e)
        PROVE  seq' \in [Endpoints -> 0..MaxSent] /\ \A d \in Endpoints : seq'[d] = 0 \/ seq'[d] = seq[d]
    <3>1. seq' = [seq EXCEPT ![e] = 0]
      BY <2>3 DEF Restart
    <3> QED BY <2>1, <3>1
  <2> QED BY <2>2, <2>3
<1>3. ConnOK' /\ \A d \in Endpoints : conn[d] <= conn'[d]
  <2>1. /\ conn \in [Endpoints -> Conns]
        /\ \A d \in Endpoints : conn[d] \in Nat /\ conn[d] <= MaxConns[d] /\ MaxConns[d] \in Nat
    BY Bounds DEF CountersOK, ConnOK, Conns
  <2>2. CASE Clock
    BY <2>1, <2>2 DEF Clock, ConnOK
  <2>3. ASSUME NEW e \in Endpoints, Restart(e)
        PROVE  ConnOK' /\ \A d \in Endpoints : conn[d] <= conn'[d]
    <3>1. conn[e] < MaxConns[e] /\ conn' = [conn EXCEPT ![e] = conn[e] + 1]
      BY <2>3 DEF Restart
    <3>2. conn[e] + 1 \in Conns /\ conn[e] + 1 <= MaxConns[e] /\ conn[e] <= conn[e] + 1
      BY <2>1, <3>1 DEF Conns
    <3>3. conn'[e] = conn[e] + 1 /\ \A d \in Endpoints \ {e} : conn'[d] = conn[d]
      BY <2>1, <3>1
    <3>4. conn' \in [Endpoints -> Conns]
      BY <2>1, <3>1, <3>2
    <3> QED BY <2>1, <3>2, <3>3, <3>4 DEF ConnOK
  <2> QED BY <2>2, <2>3
<1>4. /\ wire' = wire /\ handled' = handled /\ sent' = sent /\ crashed' = crashed
      /\ enforced' = enforced
  BY <1>1 DEF store
<1>5. CountersOK'
  <2>1. second' \in 0..MaxSecond
    BY <1>1, Bounds DEF CountersOK
  <2> QED BY <1>2, <1>3, <1>4, <2>1 DEF CountersOK
<1>6. \A d \in Endpoints, id \in Ids : Given(d, id) => Given(d, id)'
  <2>1. second \in Nat
    BY Bounds DEF CountersOK
  <2>2. ASSUME NEW id \in Ids, id[1] <= second
        PROVE  id[1] <= second + 1 /\ id[1] # second + 1
    <3>1. id[1] \in Nat
      BY Bounds DEF Ids
    <3> QED BY <2>1, <2>2, <3>1
  <2> QED BY <1>1, <2>2 DEF Given
<1>7. \A d \in Endpoints : seq'[d] <= sent
  <2>1. 0 <= sent /\ \A d \in Endpoints : seq[d] <= sent
    BY Bounds DEF Naming, CountersOK
  <2> QED BY <1>2, <2>1
<1>8. Told' \subseteq Told
  BY <1>4 DEF Told
<1>9. Naming' /\ Routed'
  BY <1>3, <1>4, <1>5, <1>6, <1>7, <1>8, ToldKept
<1>10. TablesInv' /\ CrashHasCause' /\ WireOK'
  BY <1>1, <1>4, <1>8, TablesStay, CausesKept DEF WireOK
<1> QED BY <1>5, <1>9, <1>10, StoreInvNext

LEMMA LoseKeeps ==
  ASSUME StoreInv, NEW m \in wire, Lose(m)
  PROVE  StoreInv'
<1>1. /\ wire' = wire \ {m} /\ handled' = handled /\ crashed' = crashed
      /\ UNCHANGED <<enforced, second, seq, conn, store, sent, closed>>
  BY DEF Lose, store
<1>2. Told' \subseteq Told
  BY <1>1 DEF Told
<1>3. CountersOK' /\ \A d \in Endpoints : conn[d] <= conn'[d]
  <2>1. \A d \in Endpoints : conn[d] \in Nat
    BY StoreInvParts DEF CountersOK, ConnOK, Conns
  <2> QED BY <1>1, <2>1, StoreInvParts DEF CountersOK, ConnOK
<1>4. /\ \A d \in Endpoints, id \in Ids : Given(d, id) => Given(d, id)'
      /\ \A d \in Endpoints : seq'[d] <= sent
  BY <1>1 DEF Given, Naming, StoreInv
<1>5. Naming' /\ Routed'
  BY <1>1, <1>2, <1>3, <1>4, ToldKept
<1>6. TablesInv' /\ CrashHasCause' /\ WireOK'
  BY <1>1, <1>2, TablesStay, CausesKept, StoreInvParts DEF WireOK
<1> QED BY <1>3, <1>5, <1>6, StoreInvNext

-----------------------------------------------------------------------------
(***************************************************************************)
(* An agent sends an alert, a result or both.                              *)
(***************************************************************************)
Kinds == {<<"alert">>, <<"result">>, <<"alert", "result">>}

LEMMA KindsOfParcels ==
  ASSUME NEW kinds \in Kinds
  PROVE  /\ Len(kinds) \in 1..2 /\ \A i \in 1..Len(kinds) : kinds[i] \in {"alert", "result"}
         /\ \A i \in 1..Len(kinds) : kinds[i] = "alert" => i = 1 /\ kinds # <<"result">>
         /\ \A i, j \in 1..Len(kinds) : kinds[i] = "alert" /\ kinds[j] = "result" => i < j
<1>1. CASE kinds = <<"alert">>
  BY <1>1
<1>2. CASE kinds = <<"result">>
  BY <1>2
<1>3. CASE kinds = <<"alert", "result">>
  BY <1>3
<1> QED BY <1>1, <1>2, <1>3 DEF Kinds

LEMMA ShipEffect ==
  ASSUME WireOK, CountersOK,
         NEW e \in Endpoints, NEW kinds \in Kinds, NEW id \in Ids, Ship(e, kinds, id)
  PROVE  /\ WireOK' /\ ConnOK' /\ wire \subseteq wire' /\ sent < MaxSent /\ sent' = sent + 1
         /\ \A d \in Endpoints : conn[d] <= conn'[d]
         /\ \A m \in wire' \ wire :
              /\ m.ep = e /\ m.id = id /\ m.n = sent + 1 /\ (m.kind = "alert" => kinds # <<"result">>)
              /\ conn[e] <= m.conn /\ m.conn <= conn'[e]
         /\ \A m, o \in wire' \ wire : m.kind = "alert" /\ o.kind = "result" => m.conn <= o.conn
<1> DEFINE Made(r) == [kind |-> kinds[r[1]], ep |-> e, id |-> id, n |-> sent + 1, conn |-> r[2]]
<1>1. sent < MaxSent /\ sent' = sent + 1 /\ sent + 1 \in 1..MaxSent
  BY Bounds DEF Ship, CountersOK
<1>0. PICK last \in conn[e]..MaxConns[e] : \E R \in Routes(Len(kinds), conn[e], last) :
        conn' = [conn EXCEPT ![e] = last] /\ wire' = wire \cup {Made(r) : r \in R}
  BY DEF Ship
<1>2. PICK R \in Routes(Len(kinds), conn[e], last) :
        conn' = [conn EXCEPT ![e] = last] /\ wire' = wire \cup {Made(r) : r \in R}
  BY <1>0
<1>3. /\ conn \in [Endpoints -> Conns] /\ conn[e] \in Nat \ {0} /\ MaxConns[e] \in Nat
      /\ \A d \in Endpoints : conn[d] \in Nat /\ conn[d] <= MaxConns[d]
  BY Bounds DEF CountersOK, ConnOK, Conns
<1>4. last \in Conns /\ last \in Nat /\ conn[e] <= last /\ last <= MaxConns[e]
  BY <1>3 DEF Conns
<1>5. conn'[e] = last /\ \A d \in Endpoints \ {e} : conn'[d] = conn[d]
  BY <1>2, <1>3
<1>6. ConnOK' /\ \A d \in Endpoints : conn[d] <= conn'[d]
  <2>1. conn' \in [Endpoints -> Conns]
    BY <1>2, <1>3, <1>4
  <2> QED BY <1>3, <1>4, <1>5, <2>1 DEF ConnOK
<1>7. /\ \A r \in R : r[1] \in 1..Len(kinds) /\ r[2] \in conn[e]..last
      /\ \A q, r \in R : q[1] < r[1] => q[2] <= r[2]
  BY DEF Routes
<1>8. ASSUME NEW r \in R
      PROVE  /\ Made(r) \in Messages /\ Made(r).ep = e /\ Made(r).id = id /\ Made(r).n = sent + 1
             /\ Made(r).kind = kinds[r[1]] /\ Made(r).conn = r[2]
             /\ conn[e] <= r[2] /\ r[2] <= last
  <2>1. kinds[r[1]] \in {"alert", "result"}
    BY <1>7, KindsOfParcels
  <2>2. r[2] \in Conns /\ conn[e] <= r[2] /\ r[2] <= last
    BY <1>3, <1>4, <1>7 DEF Conns
  <2> QED BY <1>1, <2>1, <2>2 DEF Messages
<1>9. \A m \in wire' \ wire : \E r \in R : m = Made(r)
  BY <1>2
<1>10. WireOK'
  BY <1>2, <1>8 DEF WireOK
<1> HIDE DEF Made
<1>11. ASSUME NEW m \in wire' \ wire
       PROVE  /\ m.ep = e /\ m.id = id /\ m.n = sent + 1 /\ (m.kind = "alert" => kinds # <<"result">>)
              /\ conn[e] <= m.conn /\ m.conn <= conn'[e]
  <2>1. PICK r \in R : m = Made(r)
    BY <1>9
  <2>2. m.kind = "alert" => kinds # <<"result">>
    BY <1>7, <1>8, <2>1, KindsOfParcels
  <2> QED BY <1>5, <1>8, <2>1, <2>2
<1>12. ASSUME NEW m \in wire' \ wire, NEW o \in wire' \ wire, m.kind = "alert", o.kind = "result"
       PROVE  m.conn <= o.conn
  <2>1. PICK q \in R : m = Made(q)
    BY <1>9
  <2>2. PICK r \in R : o = Made(r)
    BY <1>9
  <2>3. q[1] < r[1]
    BY <1>7, <1>8, <1>12, <2>1, <2>2, KindsOfParcels
  <2> QED BY <1>7, <1>8, <2>1, <2>2, <2>3
<1> QED BY <1>1, <1>2, <1>6, <1>10, <1>11, <1>12

\* An agent names a message or a pair of them: not as it named another, or
\* with a manual name.
LEMMA ShipKeeps ==
  ASSUME StoreInv, NEW e \in Endpoints, NEW id \in Ids, NEW kinds \in Kinds, Ship(e, kinds, id),
         UNCHANGED <<enforced, second, store, closed>>,
         seq' \in [Endpoints -> 0..MaxSent],
         \A d \in Endpoints : seq[d] <= seq'[d] /\ seq'[d] <= sent + 1,
         Given(e, id)',
         IsManual(id) \/ ~Given(e, id), IsManual(id) <=> kinds = <<"result">>
  PROVE  StoreInv'
<1>1. WireOK /\ CountersOK /\ TablesInv /\ Naming /\ Routed /\ CrashHasCause
  BY StoreInvParts
<1>2. /\ WireOK' /\ ConnOK' /\ wire \subseteq wire' /\ sent < MaxSent /\ sent' = sent + 1
      /\ \A d \in Endpoints : conn[d] <= conn'[d]
      /\ \A m \in wire' \ wire :
           /\ m.ep = e /\ m.id = id /\ m.n = sent + 1 /\ (m.kind = "alert" => kinds # <<"result">>)
           /\ conn[e] <= m.conn /\ m.conn <= conn'[e]
      /\ \A m, o \in wire' \ wire : m.kind = "alert" /\ o.kind = "result" => m.conn <= o.conn
  BY <1>1, ShipEffect
<1>3. handled' = handled /\ crashed' = crashed /\ second' = second /\ enforced' = enforced
  BY DEF store
<1>4. \A m \in Told' : m \in Told \/ m \in wire' \ wire
  BY <1>3 DEF Told
<1>5. /\ sent \in Nat /\ second \in Nat /\ \A d \in Endpoints : seq[d] \in Nat /\ seq'[d] \in Nat
      /\ \A d \in Endpoints : conn[d] \in Nat /\ conn'[d] \in Nat
  BY <1>1, <1>2, Bounds DEF CountersOK, ConnOK, Conns
<1>6. ASSUME NEW m \in Told
      PROVE  /\ Given(m.ep, m.id)' /\ Given(m.ep, m.id) /\ m.n < sent + 1 /\ m.n <= sent + 1
             /\ (m.kind = "alert" => ~IsManual(m.id))
             /\ m.conn <= conn[m.ep] /\ m.conn <= conn'[m.ep]
             /\ m.ep \in Endpoints /\ m.id \in Ids /\ m.n \in Nat /\ m.conn \in Nat
  <2>1. m.ep \in Endpoints /\ m.id \in Ids /\ m.n \in Nat /\ m.conn \in Nat
    BY ToldAreMessages
  <2>2. Given(m.ep, m.id) /\ m.n <= sent /\ (m.kind = "alert" => ~IsManual(m.id)) /\ m.conn <= conn[m.ep]
    BY <1>1 DEF Naming, Routed
  <2>3. m.n <= sent + 1 /\ m.n < sent + 1
    BY <1>5, <2>1, <2>2
  <2>4. m.conn <= conn'[m.ep]
    BY <1>2, <1>5, <2>1, <2>2
  <2> DEFINE a == seq[m.ep]
             b == seq'[m.ep]
             k == m.id[2]
  <2>5. k <= a => k <= b
    <3>1. k \in Nat
      BY <2>1, Bounds DEF Ids
    <3>2. a <= b /\ a \in Nat /\ b \in Nat
      BY <1>5, <2>1
    <3> HIDE DEF a, b, k
    <3> QED BY <3>1, <3>2
  <2>6. Given(m.ep, m.id)'
    BY <1>3, <2>2, <2>5 DEF Given
  <2> QED BY <2>1, <2>2, <2>3, <2>4, <2>6
<1>7. ASSUME NEW m \in Told', m \notin Told
      PROVE  /\ m \in wire' \ wire /\ m.ep = e /\ m.id = id /\ m.n = sent + 1
             /\ (m.kind = "alert" => ~IsManual(id))
             /\ conn[e] <= m.conn /\ m.conn <= conn'[e]
  BY <1>2, <1>4, <1>7
<1>8. Naming'
  <2>1. \A d \in Endpoints : seq'[d] <= sent'
    BY <1>2
  <2>2. ASSUME NEW m \in Told'
        PROVE  Given(m.ep, m.id)' /\ m.n <= sent' /\ (m.kind = "alert" => ~IsManual(m.id))
    <3>1. CASE m \in Told
      BY <1>2, <1>6, <3>1
    <3>2. CASE m \notin Told
      <4>1. m.ep = e /\ m.id = id /\ m.n = sent + 1 /\ (m.kind = "alert" => ~IsManual(id))
        BY <1>7, <3>2
      <4> QED BY <1>2, <1>5, <4>1
    <3> QED BY <3>1, <3>2
  <2>3. ASSUME NEW m \in Told', NEW o \in Told', m.ep = o.ep, m.id = o.id, ~IsManual(m.id)
        PROVE  m.n = o.n
    <3>1. CASE m \in Told /\ o \in Told
      BY <1>1, <2>3, <3>1 DEF Naming
    <3>2. CASE m \notin Told /\ o \notin Told
      BY <1>7, <3>2
    <3>3. CASE m \in Told /\ o \notin Told
      BY <1>6, <1>7, <2>3, <3>3
    <3>4. CASE m \notin Told /\ o \in Told
      BY <1>6, <1>7, <2>3, <3>4
    <3> QED BY <3>1, <3>2, <3>3, <3>4
  <2>4. ASSUME NEW m \in Told', NEW o \in Told', m.n = o.n
        PROVE  m.ep = o.ep /\ m.id = o.id
    <3>1. CASE m \in Told /\ o \in Told
      BY <1>1, <2>4, <3>1 DEF Naming
    <3>2. CASE m \notin Told /\ o \notin Told
      BY <1>7, <3>2
    <3>3. CASE m \in Told /\ o \notin Told
      BY <1>5, <1>6, <1>7, <2>4, <3>3
    <3>4. CASE m \notin Told /\ o \in Told
      BY <1>5, <1>6, <1>7, <2>4, <3>4
    <3> QED BY <3>1, <3>2, <3>3, <3>4
  <2> QED BY <2>1, <2>2, <2>3, <2>4 DEF Naming
<1>9. Routed'
  <2>1. ASSUME NEW m \in Told'
        PROVE  m.conn <= conn'[m.ep]
    BY <1>6, <1>7
  <2>2. ASSUME NEW m \in Told', NEW o \in Told', m.ep = o.ep, Before(m, o)
        PROVE  m.conn <= o.conn
    <3>1. CASE m \in Told /\ o \in Told
      BY <1>1, <2>2, <3>1 DEF Routed
    <3>2. CASE m \notin Told /\ o \notin Told
      <4>1. m.n = sent + 1 /\ o.n = sent + 1 /\ m \in wire' \ wire /\ o \in wire' \ wire
        BY <1>7, <3>2
      <4>2. m.kind = "alert" /\ o.kind = "result"
        BY <1>5, <2>2, <4>1 DEF Before
      <4> QED BY <1>2, <4>1, <4>2
    <3>3. CASE m \in Told /\ o \notin Told
      <4>1. m.ep = e /\ conn[e] <= o.conn /\ m.conn <= conn[e] /\ m.conn \in Nat /\ o \in Messages
        BY <1>2, <1>6, <1>7, <2>2, <3>3 DEF WireOK
      <4> QED BY <1>5, <4>1, MessageParts
    <3>4. CASE m \notin Told /\ o \in Told
      <4>1. o.n < m.n /\ o.n \in Nat /\ m.n \in Nat
        BY <1>5, <1>6, <1>7, <3>4
      <4> QED BY <2>2, <4>1 DEF Before
    <3> QED BY <3>1, <3>2, <3>3, <3>4
  <2> QED BY <2>1, <2>2 DEF Routed, Before
<1>10. CrashHasCause'
  <2>1. ASSUME NEW m \in crashed, NEW a \in Told', a.kind = "alert", a.id = m.id, a.ep = m.ep, ~IsManual(m.id)
        PROVE  a.conn < m.conn
    <3>1. m \in Told /\ Given(m.ep, m.id)
      BY <1>6, ToldAreMessages
    <3>2. CASE a \in Told
      BY <1>1, <2>1, <3>2 DEF CrashHasCause, Told
    <3>3. CASE a \notin Told
      BY <1>7, <2>1, <3>1, <3>3
    <3> QED BY <3>2, <3>3
  <2> QED BY <1>1, <1>3, <2>1 DEF CrashHasCause, Told
<1>11. CountersOK'
  <2>1. sent' \in 0..MaxSent
    BY <1>2, Bounds, <1>5
  <2> QED BY <1>1, <1>2, <1>3, <2>1 DEF CountersOK
<1>12. TablesInv'
  BY <1>1, TablesStay
<1> QED BY <1>2, <1>8, <1>9, <1>10, <1>11, <1>12, StoreInvNext

LEMMA DetectKeeps ==
  ASSUME StoreInv, NEW e \in Endpoints, NEW contained \in BOOLEAN, Detect(e, contained)
  PROVE  StoreInv'
<1> DEFINE id == AlertId(e)
           kinds == Shipment(contained)
<1>1. kinds \in Kinds /\ kinds # <<"result">>
  <2>1. CASE contained
    <3>1. kinds = <<"alert", "result">>
      BY <2>1 DEF Shipment
    <3> QED BY <3>1 DEF Kinds
  <2>2. CASE ~ contained
    <3>1. kinds = <<"alert">>
      BY <2>2 DEF Shipment
    <3> QED BY <3>1 DEF Kinds
  <2> QED BY <2>1, <2>2
<1>2. /\ second \in 0..MaxSecond /\ sent \in Nat /\ sent < MaxSent
      /\ seq \in [Endpoints -> 0..MaxSent] /\ seq[e] \in Nat /\ seq[e] <= sent
      /\ \A d \in Endpoints : seq[d] \in Nat /\ seq[d] <= sent
  BY Bounds, StoreInvParts DEF CountersOK, Naming, Detect, Ship
<1>3. seq[e] + 1 \in 1..MaxSent /\ seq[e] + 1 <= sent + 1
  BY <1>2, Bounds
<1>4. id = <<second, seq[e] + 1>> /\ id[1] = second /\ id[2] = seq[e] + 1
  BY DEF AlertId
<1>5. id \in Ids /\ ~IsManual(id)
  BY <1>2, <1>3, <1>4 DEF Ids, IsManual
<1>6. seq' = [seq EXCEPT ![e] = seq[e] + 1] /\ UNCHANGED <<enforced, second, store, closed>>
  BY DEF Detect
<1>7. seq'[e] = seq[e] + 1 /\ \A d \in Endpoints \ {e} : seq'[d] = seq[d]
  BY <1>2, <1>6
<1>8. seq' \in [Endpoints -> 0..MaxSent]
  BY <1>2, <1>3, <1>6
<1>9. \A d \in Endpoints : seq[d] <= seq'[d] /\ seq'[d] <= sent + 1
  <2>1. ASSUME NEW d \in Endpoints
        PROVE  seq[d] <= seq'[d] /\ seq'[d] <= sent + 1
    <3>1. CASE d = e
      BY <1>2, <1>3, <1>7, <3>1
    <3>2. CASE d # e
      BY <1>2, <1>7, <3>2
    <3> QED BY <3>1, <3>2
  <2> QED BY <2>1
<1>10. ASSUME NEW k \in Ids, k = id
       PROVE  Given(e, k)' /\ ~Given(e, k)
  <2>1. k[1] = second /\ k[2] = seq[e] + 1
    BY <1>4, <1>10
  <2>2. second' = second /\ seq'[e] = seq[e] + 1
    BY <1>6, <1>7
  <2>3. second <= second /\ seq[e] + 1 <= seq[e] + 1 /\ ~ seq[e] + 1 <= seq[e]
    BY <1>2, Bounds
  <2>4. ~IsManual(k)
    BY <1>5, <1>10
  <2> QED BY <2>1, <2>2, <2>3, <2>4 DEF Given
<1>11. PICK k \in Ids : k = id
  BY <1>5
<1>12. Ship(e, kinds, k)
  BY <1>11 DEF Detect
<1> HIDE DEF id, kinds
<1> QED BY <1>1, <1>5, <1>6, <1>8, <1>9, <1>10, <1>11, <1>12, ShipKeeps

LEMMA QuarantineKeeps ==
  ASSUME StoreInv, NEW e \in Endpoints, Quarantine(e)
  PROVE  StoreInv'
<1>1. <<"result">> \in Kinds
  BY DEF Kinds
<1>2. second \in 0..MaxSecond /\ seq \in [Endpoints -> 0..MaxSent] /\ sent \in Nat
      /\ \A d \in Endpoints : seq[d] \in Nat /\ seq[d] <= sent
  BY Bounds, StoreInvParts DEF CountersOK, Naming
<1>3. PICK k \in Ids : k = <<second, 0>>
  <2>1. 0 \in 0..MaxSent
    BY Bounds
  <2>2. <<second, 0>> \in Ids
    BY <1>2, <2>1 DEF Ids
  <2> QED BY <2>2
<1>4. IsManual(k) /\ k[1] = second
  BY <1>3 DEF IsManual
<1>5. Ship(e, <<"result">>, k) /\ UNCHANGED <<enforced, second, seq, store, closed>>
  BY <1>3 DEF Quarantine
<1>6. \A d \in Endpoints : seq[d] <= seq'[d] /\ seq'[d] <= sent + 1
  BY <1>2, <1>5
<1>7. Given(e, k)'
  <2>1. second' = second /\ second <= second
    BY <1>2, <1>5, Bounds
  <2> QED BY <1>4, <2>1 DEF Given
<1> QED BY <1>1, <1>2, <1>4, <1>5, <1>6, <1>7, ShipKeeps

-----------------------------------------------------------------------------
(***************************************************************************)
(* The handlers and the analyst keep the invariant of the store.           *)
(***************************************************************************)
LEMMA ReceiveEffect ==
  ASSUME StoreInv, NEW m \in wire, NEW kind, Receive(m, kind)
  PROVE  /\ m \in Messages /\ m.kind = kind
         /\ \A o \in wire : SameConnection(o, m) => ~Before(o, m)
         /\ handled' = handled \cup {m} /\ handled' \subseteq Messages /\ Told' = Told
         /\ WireOK' /\ Naming' /\ Routed' /\ CountersOK'
         /\ UNCHANGED <<enforced, closed>>
<1>1. /\ m.kind = kind /\ handled' = handled \cup {m} /\ wire' = wire \ {m}
      /\ \A o \in wire : SameConnection(o, m) => ~Before(o, m)
      /\ UNCHANGED <<enforced, second, seq, conn, sent, closed>>
  BY DEF Receive
<1>2. WireOK /\ CountersOK /\ handled \subseteq Messages
  BY StoreInvParts DEF TablesInv, TablesOK
<1>3. m \in Messages /\ handled' \subseteq Messages /\ WireOK'
  BY <1>1, <1>2 DEF WireOK
<1>4. Told' = Told
  BY <1>1 DEF Told
<1>5. CountersOK' /\ \A d \in Endpoints : conn[d] <= conn'[d]
  <2>1. \A d \in Endpoints : conn[d] \in Nat
    BY <1>2 DEF CountersOK, ConnOK, Conns
  <2> QED BY <1>1, <1>2, <2>1 DEF CountersOK, ConnOK
<1>6. /\ \A d \in Endpoints, id \in Ids : Given(d, id) => Given(d, id)'
      /\ \A d \in Endpoints : seq'[d] <= sent
  BY <1>1 DEF Given, Naming, StoreInv
<1>7. Naming' /\ Routed'
  BY <1>1, <1>4, <1>5, <1>6, ToldKept
<1> QED BY <1>1, <1>3, <1>4, <1>5, <1>7

LEMMA HandleAlertKeeps ==
  ASSUME StoreInv, NEW m \in wire, HandleAlert(m)
  PROVE  StoreInv'
<1>1. /\ m \in Messages /\ m.kind = "alert"
      /\ handled' = handled \cup {m} /\ handled' \subseteq Messages /\ Told' = Told
      /\ WireOK' /\ Naming' /\ Routed' /\ CountersOK'
      /\ UNCHANGED <<enforced, closed, incidents, crashed>>
  BY ReceiveEffect DEF HandleAlert
<1>2. \/ m.id \in Named(alerts) /\ alerts' = alerts
      \/ m.id \notin Named(alerts) /\ alerts' = alerts \cup {Row(m)}
  BY DEF HandleAlert, StoreAlert
<1>3. TablesOK /\ IsFiniteSet(alerts) /\ Rows /\ CrashHasCause /\ VerdictStands
  BY StoreInvParts DEF TablesInv
<1>4. Row(m) \in [id : Ids, ep : Endpoints, n : 1..MaxSent, conn : Conns, status : {"open", "resolved"}]
  BY <1>1, MessageParts DEF Row
<1>5. /\ Row(m).id = m.id /\ Row(m).ep = m.ep /\ Row(m).n = m.n /\ Row(m).conn = m.conn
      /\ Row(m).status = "open"
  BY DEF Row
<1>6. \A r \in alerts' : r \in alerts \/ (r = Row(m) /\ m.id \notin Named(alerts))
  BY <1>2
<1>7. alerts \subseteq alerts' /\ m.id \in Named(alerts')
  BY <1>2, <1>5 DEF Named
<1>8. TablesOK'
  <2>1. alerts' \subseteq [id : Ids, ep : Endpoints, n : 1..MaxSent, conn : Conns, status : {"open", "resolved"}]
    BY <1>3, <1>4, <1>6 DEF TablesOK
  <2>2. \A r, s \in alerts' : r.id = s.id => r = s
    BY <1>3, <1>5, <1>6 DEF TablesOK, Named
  <2>3. closed' \subseteq Named(alerts)'
    BY <1>1, <1>3, <1>7 DEF TablesOK, Named
  <2> QED BY <1>1, <1>3, <2>1, <2>2, <2>3 DEF TablesOK
<1>9. IsFiniteSet(alerts')
  BY <1>2, <1>3, FS_AddElement
<1>10. Rows'
  <2>1. ASSUME NEW r \in alerts'
        PROVE  \E x \in handled' :
                 x.kind = "alert" /\ x.id = r.id /\ x.ep = r.ep /\ x.n = r.n /\ x.conn = r.conn
    BY <1>1, <1>3, <1>5, <1>6 DEF Rows
  <2>2. \A r \in incidents' : \E x \in handled' :
          x.kind = "result" /\ x.id = r.id /\ x.ep = r.ep /\ x.n = r.n /\ x.conn = r.conn
    BY <1>1, <1>3 DEF Rows
  <2>3. \A x \in handled' : x.kind = "alert" => x.id \in Named(alerts)'
    BY <1>1, <1>3, <1>7 DEF Rows, Named
  <2>4. \A x \in handled' \ crashed' : x.kind = "result" => x.id \in Named(incidents)'
    BY <1>1, <1>3 DEF Rows, Named
  <2> QED BY <2>1, <2>2, <2>3, <2>4 DEF Rows
<1>11. CrashHasCause'
  BY <1>1, <1>3, CausesKept
<1>12. VerdictStands'
  BY <1>1, <1>3, <1>5, <1>6 DEF VerdictStands, TablesOK
<1> QED BY <1>1, <1>8, <1>9, <1>10, <1>11, <1>12, StoreInvNext DEF TablesInv

LEMMA HandleResultKeeps ==
  ASSUME StoreInv, NEW m \in wire, HandleResult(m)
  PROVE  StoreInv'
<1>1. /\ m \in Messages /\ m.kind = "result"
      /\ \A o \in wire : SameConnection(o, m) => ~Before(o, m)
      /\ handled' = handled \cup {m} /\ handled' \subseteq Messages /\ Told' = Told
      /\ WireOK' /\ Naming' /\ Routed' /\ CountersOK'
      /\ UNCHANGED <<enforced, closed, alerts>>
  BY ReceiveEffect DEF HandleResult
<1>2. \/ m.id \in Named(incidents) /\ UNCHANGED <<incidents, crashed>>
      \/ /\ enforced /\ m.id \notin Named(alerts)
         /\ crashed' = crashed \cup {m} /\ UNCHANGED incidents
      \/ /\ m.id \notin Named(incidents)
         /\ incidents' = incidents \cup {IncidentRow(m)} /\ UNCHANGED crashed
  BY DEF HandleResult
<1>3. TablesOK /\ IsFiniteSet(alerts) /\ Rows /\ CrashHasCause /\ VerdictStands /\ Naming /\ Routed
  BY StoreInvParts DEF TablesInv
<1>4. IncidentRow(m) \in [id : Ids, ep : Endpoints, n : 1..MaxSent, conn : Conns]
  BY <1>1, MessageParts DEF IncidentRow
<1>5. /\ IncidentRow(m).id = m.id /\ IncidentRow(m).ep = m.ep /\ IncidentRow(m).n = m.n
      /\ IncidentRow(m).conn = m.conn
  BY DEF IncidentRow
<1>6. /\ incidents \subseteq incidents'
      /\ \A r \in incidents' : r \in incidents \/ (r = IncidentRow(m) /\ m.id \notin Named(incidents))
      /\ m.id \in Named(incidents') \/ m \in crashed'
  BY <1>2, <1>5 DEF Named
<1>7. /\ crashed \subseteq crashed'
      /\ \A x \in crashed' : x \in crashed \/ (x = m /\ enforced /\ m.id \notin Named(alerts))
  BY <1>2
<1>8. TablesOK'
  <2>1. incidents' \subseteq [id : Ids, ep : Endpoints, n : 1..MaxSent, conn : Conns]
    BY <1>3, <1>4, <1>6 DEF TablesOK
  <2>2. \A i, j \in incidents' : i.id = j.id => i = j
    BY <1>3, <1>5, <1>6 DEF TablesOK, Named
  <2>3. crashed' \subseteq handled'
    BY <1>1, <1>3, <1>7 DEF TablesOK
  <2> QED BY <1>1, <1>3, <2>1, <2>2, <2>3 DEF TablesOK, Named
<1>9. Rows'
  <2>1. \A r \in alerts' : \E x \in handled' :
          x.kind = "alert" /\ x.id = r.id /\ x.ep = r.ep /\ x.n = r.n /\ x.conn = r.conn
    BY <1>1, <1>3 DEF Rows
  <2>2. ASSUME NEW r \in incidents'
        PROVE  \E x \in handled' :
                 x.kind = "result" /\ x.id = r.id /\ x.ep = r.ep /\ x.n = r.n /\ x.conn = r.conn
    BY <1>1, <1>3, <1>5, <1>6 DEF Rows
  <2>3. \A x \in handled' : x.kind = "alert" => x.id \in Named(alerts)'
    BY <1>1, <1>3 DEF Rows, Named
  <2>4. \A x \in handled' \ crashed' : x.kind = "result" => x.id \in Named(incidents)'
    BY <1>1, <1>3, <1>6, <1>7 DEF Rows, Named
  <2> QED BY <2>1, <2>2, <2>3, <2>4 DEF Rows
\* Of the alert of a result that makes the database raise nothing was
\* handled, and what is on its way of it is on another, older connection.
<1>10. ASSUME NEW a \in Told, a.kind = "alert", a.id = m.id, a.ep = m.ep, ~IsManual(m.id),
              m.id \notin Named(alerts)
       PROVE  a.conn < m.conn
  <2>1. a \in wire /\ m \in Told
    BY <1>3, <1>10 DEF Rows, Told
  <2>2. a.n = m.n
    BY <1>3, <1>10, <2>1 DEF Naming
  <2>3. Before(a, m)
    BY <1>1, <1>10, <2>2 DEF Before
  <2>4. a.conn <= m.conn
    BY <1>3, <1>10, <2>1, <2>3 DEF Routed
  <2>5. a.conn # m.conn
    BY <1>1, <1>10, <2>1, <2>3 DEF SameConnection
  <2>6. a.conn \in Nat /\ m.conn \in Nat
    BY <2>1, ToldAreMessages
  <2> QED BY <2>4, <2>5, <2>6
<1>11. CrashHasCause'
  <2>1. ASSUME NEW x \in crashed', NEW a \in Told, ~IsManual(x.id), a.kind = "alert", a.id = x.id, a.ep = x.ep
        PROVE  a.conn < x.conn
    <3>1. CASE x \in crashed
      BY <1>3, <2>1, <3>1 DEF CrashHasCause, Told
    <3>2. CASE x \notin crashed
      BY <1>7, <1>10, <2>1, <3>2
    <3> QED BY <3>1, <3>2
  <2>2. \A x \in crashed' : enforced'
    BY <1>1, <1>3, <1>7 DEF CrashHasCause
  <2> QED BY <1>1, <2>1, <2>2 DEF CrashHasCause, Told
<1>12. VerdictStands'
  BY <1>1, <1>3 DEF VerdictStands
<1> QED BY <1>1, <1>3, <1>8, <1>9, <1>11, <1>12, StoreInvNext DEF TablesInv

LEMMA TriageKeeps ==
  ASSUME StoreInv, NEW r \in alerts, NEW verdict \in {"open", "resolved"}, Triage(r, verdict)
  PROVE  StoreInv'
<1> DEFINE s == [r EXCEPT !.status = verdict]
<1>1. /\ alerts' = (alerts \ {r}) \cup {s}
      /\ closed' = IF verdict = "open" THEN closed \ {r.id} ELSE closed \cup {r.id}
      /\ UNCHANGED <<enforced, second, seq, conn, wire, incidents, handled, crashed, sent>>
  BY DEF Triage
<1>2. /\ WireOK /\ CountersOK /\ TablesOK /\ IsFiniteSet(alerts) /\ Rows /\ CrashHasCause
      /\ VerdictStands /\ Naming /\ Routed
  BY StoreInvParts DEF TablesInv
<1>3. r \in [id : Ids, ep : Endpoints, n : 1..MaxSent, conn : Conns, status : {"open", "resolved"}]
  BY <1>2 DEF TablesOK
<1>4. /\ s \in [id : Ids, ep : Endpoints, n : 1..MaxSent, conn : Conns, status : {"open", "resolved"}]
      /\ s.id = r.id /\ s.ep = r.ep /\ s.n = r.n /\ s.conn = r.conn /\ s.status = verdict
  BY <1>3
<1> HIDE DEF s
<1>5. \A x \in alerts' : x = s \/ (x \in alerts /\ x.id # r.id)
  BY <1>1, <1>2 DEF TablesOK
<1>6. Named(alerts') = Named(alerts)
  BY <1>1, <1>4 DEF Named
<1>7. TablesOK'
  <2>1. alerts' \subseteq [id : Ids, ep : Endpoints, n : 1..MaxSent, conn : Conns, status : {"open", "resolved"}]
    BY <1>1, <1>2, <1>4 DEF TablesOK
  <2>2. \A x, y \in alerts' : x.id = y.id => x = y
    BY <1>2, <1>4, <1>5 DEF TablesOK
  <2>3. r.id \in Named(alerts)
    BY DEF Named
  <2>4. closed' \subseteq Named(alerts)'
    BY <1>1, <1>2, <1>6, <2>3 DEF TablesOK
  <2> QED BY <1>1, <1>2, <2>1, <2>2, <2>4 DEF TablesOK
<1>8. IsFiniteSet(alerts')
  BY <1>1, <1>2, FS_AddElement, FS_RemoveElement
<1>9. Rows'
  <2>1. ASSUME NEW x \in alerts'
        PROVE  \E m \in handled' :
                 m.kind = "alert" /\ m.id = x.id /\ m.ep = x.ep /\ m.n = x.n /\ m.conn = x.conn
    BY <1>1, <1>2, <1>4, <1>5 DEF Rows
  <2>2. Named(alerts)' = Named(alerts) /\ Named(incidents)' = Named(incidents)
    BY <1>1, <1>6
  <2> QED BY <1>1, <1>2, <2>1, <2>2 DEF Rows
<1>10. ASSUME NEW x \in alerts'
       PROVE  x.status = "open" <=> x.id \notin closed'
  <2>1. CASE x = s
    BY <1>1, <1>4, <2>1
  <2>2. CASE x \in alerts /\ x.id # r.id
    BY <1>1, <1>2, <2>2 DEF VerdictStands
  <2> QED BY <1>5, <2>1, <2>2
<1>11. WireOK' /\ CountersOK' /\ CrashHasCause'
  BY <1>1, <1>2 DEF CrashHasCause, WireOK, CountersOK, ConnOK
<1>12. Naming' /\ Routed'
  BY <1>1, <1>2 DEF Naming, Routed, Told, Given, Before
<1> QED BY <1>7, <1>8, <1>9, <1>10, <1>11, <1>12, StoreInvNext DEF TablesInv, VerdictStands

-----------------------------------------------------------------------------
(***************************************************************************)
(* The invariant of the store.                                             *)
(***************************************************************************)
StoreNext ==
  \/ Clock
  \/ \E e \in Endpoints :
       Quarantine(e) \/ Restart(e) \/ \E contained \in BOOLEAN : Detect(e, contained)
  \/ \E m \in wire : Lose(m) \/ HandleAlert(m) \/ HandleResult(m)
  \/ \E r \in alerts, verdict \in {"open", "resolved"} : Triage(r, verdict)

LEMMA NextOfStore ==
  ASSUME [Next]_vars
  PROVE  StoreNext \/ UNCHANGED storeVars
BY DEF Next, vars, Agents, Server, Browser, AlertArrives, ResultArrives, AnswerAlerts, StoreNext

LEMMA StoreStarts == StoreInit => StoreInv
<1> SUFFICES ASSUME StoreInit PROVE StoreInv
  OBVIOUS
<1>1. /\ enforced \in BOOLEAN /\ second = 0 /\ seq = [e \in Endpoints |-> 0]
      /\ conn = [e \in Endpoints |-> 1] /\ wire = {}
      /\ alerts = {} /\ incidents = {}
      /\ sent = 0 /\ handled = {} /\ crashed = {} /\ closed = {}
  BY DEF StoreInit
<1>2. WireOK /\ Told = {}
  BY <1>1 DEF WireOK, Told
<1>3. CountersOK
  <2>1. 1 \in Conns /\ \A e \in Endpoints : 1 <= MaxConns[e]
    BY Bounds DEF Conns
  <2>2. ConnOK
    BY <1>1, <2>1 DEF ConnOK
  <2> QED BY <1>1, <2>2, Bounds DEF CountersOK
<1>4. TablesInv /\ CrashHasCause
  BY <1>1, FS_EmptySet DEF TablesInv, TablesOK, Rows, CrashHasCause, VerdictStands, Named
<1>5. Naming /\ Routed
  <2>1. \A e \in Endpoints : seq[e] <= sent
    BY <1>1
  <2> QED BY <1>2, <2>1 DEF Naming, Routed
<1> QED BY <1>2, <1>3, <1>4, <1>5, StoreInvParts

LEMMA StoreKeeps ==
  ASSUME StoreInv, StoreNext \/ UNCHANGED storeVars
  PROVE  StoreInv'
<1>1. CASE Clock
  BY <1>1, TimePasses
<1>2. ASSUME NEW e \in Endpoints, Quarantine(e)
      PROVE  StoreInv'
  BY <1>2, QuarantineKeeps
<1>3. ASSUME NEW e \in Endpoints, Restart(e)
      PROVE  StoreInv'
  BY <1>3, TimePasses
<1>4. ASSUME NEW m \in wire, Lose(m)
      PROVE  StoreInv'
  BY <1>4, LoseKeeps
<1>5. ASSUME NEW e \in Endpoints, NEW contained \in BOOLEAN, Detect(e, contained)
      PROVE  StoreInv'
  BY <1>5, DetectKeeps
<1>6. ASSUME NEW m \in wire, HandleAlert(m)
      PROVE  StoreInv'
  BY <1>6, HandleAlertKeeps
<1>7. ASSUME NEW m \in wire, HandleResult(m)
      PROVE  StoreInv'
  BY <1>7, HandleResultKeeps
<1>8. ASSUME NEW r \in alerts, NEW verdict \in {"open", "resolved"}, Triage(r, verdict)
      PROVE  StoreInv'
  BY <1>8, TriageKeeps
<1>9. CASE UNCHANGED storeVars
  <2>1. /\ wire' = wire /\ UNCHANGED <<enforced, store, closed>>
        /\ UNCHANGED <<enforced, second, seq, conn, sent>>
        /\ handled' = handled /\ crashed' = crashed
    BY <1>9 DEF storeVars, store
  <2>2. WireOK' /\ CountersOK' /\ CrashHasCause'
    BY <2>1, StoreInvParts DEF WireOK, CountersOK, ConnOK, CrashHasCause
  <2>3. Naming' /\ Routed'
    BY <2>1, StoreInvParts DEF Naming, Routed, Told, Given, Before
  <2> QED BY <2>1, <2>2, <2>3, StoreInvParts, StoreInvNext, TablesStay
<1> QED BY <1>1, <1>2, <1>3, <1>4, <1>5, <1>6, <1>7, <1>8, <1>9 DEF StoreNext

-----------------------------------------------------------------------------
(***************************************************************************)
(* The page.                                                               *)
(***************************************************************************)
\* What is stored stays so, under its name.
LEMMA StoredStays ==
  ASSUME StoreInv, StoreNext \/ UNCHANGED storeVars
  PROVE  /\ handled \subseteq handled'
         /\ \A r \in alerts : \E s \in alerts' : s.id = r.id /\ s.ep = r.ep
<1>1. CASE Clock
  BY <1>1 DEF Clock, store
<1>2. CASE (\E e \in Endpoints : Quarantine(e) \/ Restart(e)) \/ \E m \in wire : Lose(m)
  BY <1>2 DEF Quarantine, Restart, Lose, store
<1>3. ASSUME NEW e \in Endpoints, NEW contained \in BOOLEAN, Detect(e, contained)
      PROVE  handled' = handled /\ alerts' = alerts
  BY <1>3 DEF Detect, store
<1>4. ASSUME NEW m \in wire, HandleAlert(m)
      PROVE  handled \subseteq handled' /\ alerts \subseteq alerts'
  BY <1>4 DEF HandleAlert, Receive, StoreAlert
<1>5. ASSUME NEW m \in wire, HandleResult(m)
      PROVE  handled \subseteq handled' /\ alerts \subseteq alerts'
  BY <1>5 DEF HandleResult, Receive
<1>6. ASSUME NEW r \in alerts, NEW verdict \in {"open", "resolved"}, Triage(r, verdict)
      PROVE  handled' = handled /\ \A x \in alerts : \E s \in alerts' : s.id = x.id /\ s.ep = x.ep
  <2>1. alerts' = (alerts \ {r}) \cup {[r EXCEPT !.status = verdict]} /\ handled' = handled
    BY <1>6 DEF Triage
  <2>2. r \in [id : Ids, ep : Endpoints, n : 1..MaxSent, conn : Conns, status : {"open", "resolved"}]
    BY StoreInvParts DEF TablesInv, TablesOK
  <2>3. [r EXCEPT !.status = verdict].id = r.id /\ [r EXCEPT !.status = verdict].ep = r.ep
    BY <2>2
  <2> QED BY <2>1, <2>3
<1>7. CASE UNCHANGED storeVars
  BY <1>7 DEF storeVars, store
<1> QED BY <1>1, <1>2, <1>3, <1>4, <1>5, <1>6, <1>7 DEF StoreNext

LEMMA AlertStays ==
  ASSUME StoreInv, StoreNext \/ UNCHANGED storeVars
  PROVE  /\ \A a : IsAlert(a) => IsAlert(a)'
         /\ \A A : IsList(A) => IsList(A)'
<1>1. ASSUME NEW a, IsAlert(a)
      PROVE  IsAlert(a)'
  <2>1. PICK r \in alerts : r.id = a.id /\ (r.ep = a.ep \/ \E m \in handled : m.kind = "alert" /\ Shown(m) = a)
    BY <1>1 DEF IsAlert, Sound
  <2>2. PICK s \in alerts' : s.id = r.id /\ s.ep = r.ep
    BY StoredStays
  <2>3. s.ep = a.ep \/ \E m \in handled' : m.kind = "alert" /\ Shown(m) = a
    BY <2>1, <2>2, StoredStays
  <2> QED BY <1>1, <2>1, <2>2, <2>3 DEF IsAlert, Sound
<1> QED BY <1>1 DEF IsList

\* The page takes what it has not shown.
LEMMA ShowEffect ==
  ASSUME EachCountsOnce, NEW A, IsFiniteSet(A), Distinct(A), IsFiniteSet(alertCache), Show(A)
  PROVE  /\ EachCountsOnce' /\ IsFiniteSet(alertCache') /\ Distinct(alertCache')
         /\ alertCache' \subseteq alertCache \cup A
<1>1. New(A) \subseteq A /\ IsFiniteSet(New(A))
  <2>1. New(A) \in SUBSET A
    BY DEF New
  <2> QED BY <2>1, FS_Subset
<1>2. alertCache \cap New(A) = {}
  BY DEF New
<1>3. alertCache' = alertCache \cup New(A) /\ threatCounter' = threatCounter + Cardinality(New(A))
  BY DEF Show
<1>4. IsFiniteSet(alertCache') /\ Cardinality(alertCache') = Cardinality(alertCache) + Cardinality(New(A))
  <2>1. /\ IsFiniteSet(alertCache \cup New(A))
        /\ Cardinality(alertCache \cup New(A)) =
             Cardinality(alertCache) + Cardinality(New(A)) - Cardinality(alertCache \cap New(A))
    BY <1>1, FS_Union
  <2>2. Cardinality(alertCache \cap New(A)) = 0
    BY <1>2, FS_EmptySet
  <2>3. Cardinality(alertCache) \in Nat /\ Cardinality(New(A)) \in Nat
    BY <1>1, FS_CardinalityType
  <2> QED BY <1>3, <2>1, <2>2, <2>3
<1>5. threatCounter' = Cardinality(alertCache')
  BY <1>3, <1>4 DEF EachCountsOnce
<1>6. \A a, b \in alertCache' : a.id = b.id => a = b
  BY <1>1, <1>3 DEF EachCountsOnce, Distinct, New
<1> QED BY <1>1, <1>3, <1>4, <1>5, <1>6 DEF EachCountsOnce, Distinct

\* What list_alerts() answers are alerts that are stored.
LEMMA AnswerIsList ==
  ASSUME StoreInv, NEW R \in Newest(Limit)
  PROVE  LET A == {Shown(r) : r \in R} IN IsList(A) /\ A \subseteq [id : Ids, ep : Endpoints]
<1> DEFINE A == {Shown(r) : r \in R}
<1>1. R \in SUBSET alerts /\ IsFiniteSet(alerts) /\ TablesOK
  BY StoreInvParts DEF Newest, TablesInv
<1>2. IsFiniteSet(A)
  <2>1. IsFiniteSet(R)
    BY <1>1, FS_Subset
  <2>2. [r \in R |-> Shown(r)] \in Surjection(R, A)
    BY DEF Surjection
  <2> QED BY <2>1, <2>2, FS_Surjection
<1>3. ASSUME NEW r \in R
      PROVE  /\ Shown(r) \in [id : Ids, ep : Endpoints] /\ Shown(r).id = r.id /\ Shown(r).ep = r.ep
             /\ r \in alerts
  BY <1>1 DEF Shown, TablesOK
<1>4. \A a \in A : IsAlert(a)
  BY <1>3 DEF IsAlert, Sound
<1>5. Distinct(A)
  BY <1>1, <1>3 DEF Distinct, TablesOK
<1> QED BY <1>2, <1>3, <1>4, <1>5 DEF IsList

\* The page's steps, as far as they are not the server's.
LEMMA PageStays ==
  ASSUME Inv, StoreNext \/ UNCHANGED storeVars, UNCHANGED dashboardVars
  PROVE  PageInv'
<1>1. /\ socket' = socket /\ usingFallback' = usingFallback /\ pushes' = pushes /\ answers' = answers
      /\ alertCache' = alertCache /\ threatCounter' = threatCounter
  BY DEF dashboardVars
<1>2. PageIsSound'
  BY <1>1, AlertStays DEF Inv, PageInv, PageIsSound
<1> QED BY <1>1, <1>2 DEF Inv, PageInv, DashboardTypeOK, FallbackIsOffline, EachCountsOnce

LEMMA AlertArrivesKeepsPage ==
  ASSUME Inv, NEW m \in wire, AlertArrives(m)
  PROVE  PageInv'
<1>1. HandleAlert(m) /\ StoreNext
  BY DEF AlertArrives, StoreNext
<1>3. /\ m.kind = "alert" /\ m.ep \in Endpoints /\ m.id \in Ids /\ handled' = handled \cup {m}
      /\ m.id \in Named(alerts')
  <2>1. m.kind = "alert" /\ m.ep \in Endpoints /\ m.id \in Ids /\ handled' = handled \cup {m}
    BY <1>1, ReceiveEffect, MessageParts DEF Inv, HandleAlert
  <2>2. alerts' = StoreAlert(m) /\ Row(m).id = m.id
    BY <1>1 DEF HandleAlert, Row
  <2> QED BY <2>1, <2>2 DEF StoreAlert, Named
<1>4. IsAlert(Shown(m))'
  <2>1. Shown(m).id = m.id /\ Shown(m).ep = m.ep /\ Shown(m) \in [id : Ids, ep : Endpoints]
    BY <1>3 DEF Shown
  <2>2. PICK r \in alerts' : r.id = m.id
    BY <1>3 DEF Named
  <2>3. m \in handled'
    BY <1>3
  <2> QED BY <1>3, <2>1, <2>2, <2>3 DEF IsAlert, Sound
<1>5. /\ pushes' = IF socket = "open" THEN pushes \cup {Shown(m)} ELSE pushes
      /\ UNCHANGED <<socket, usingFallback, answers, alertCache, threatCounter>>
  BY DEF AlertArrives, Push
<1>6. PageIsSound'
  <2>1. /\ answers' \in Seq(SUBSET [id : Ids, ep : Endpoints])
        /\ \A i \in 1..Len(answers') : IsList(answers'[i])
        /\ IsList(alertCache')
    BY <1>5 DEF Inv, PageInv, PageIsSound
  <2>2. \A a \in pushes' : IsAlert(a)'
    BY <1>1, <1>4, <1>5, AlertStays DEF Inv, PageInv, PageIsSound
  <2>3. \A A : IsList(A) => IsList(A)'
    BY <1>1, AlertStays DEF Inv
  <2> QED BY <2>1, <2>2, <2>3 DEF PageIsSound
<1> QED BY <1>5, <1>6 DEF Inv, PageInv, DashboardTypeOK, FallbackIsOffline, EachCountsOnce

LEMMA AnswerKeepsPage ==
  ASSUME Inv, AnswerAlerts
  PROVE  PageInv'
<1>1. PICK R \in Newest(Limit) : Answer({Shown(r) : r \in R}) /\ UNCHANGED storeVars
  BY DEF AnswerAlerts
<1>2. PICK A \in SUBSET [id : Ids, ep : Endpoints] : A = {Shown(r) : r \in R} /\ IsList(A)
  BY AnswerIsList DEF Inv
<1>3. /\ Len(answers) < MaxAnswers /\ answers' = Append(answers, A)
      /\ UNCHANGED <<socket, usingFallback, pushes, alertCache, threatCounter>>
  BY <1>1, <1>2 DEF Answer
<1>4. answers \in Seq(SUBSET [id : Ids, ep : Endpoints])
  BY DEF Inv, PageInv, PageIsSound
<1>5. /\ answers' \in Seq(SUBSET [id : Ids, ep : Endpoints]) /\ Len(answers) \in Nat
      /\ Len(answers') = Len(answers) + 1
      /\ \A i \in 1..Len(answers') : answers'[i] = IF i <= Len(answers) THEN answers[i] ELSE A
  BY <1>3, <1>4
<1>6. \A i \in 1..Len(answers') : IsList(answers'[i])
  <2> SUFFICES ASSUME NEW i \in 1..Len(answers')
               PROVE  IsList(answers'[i])
    OBVIOUS
  <2>1. CASE i <= Len(answers)
    <3>1. i \in 1..Len(answers) /\ answers'[i] = answers[i]
      BY <1>5, <2>1
    <3> QED BY <3>1 DEF Inv, PageInv, PageIsSound
  <2>2. CASE ~ i <= Len(answers)
    BY <1>2, <1>5, <2>2
  <2> QED BY <2>1, <2>2
<1>7. /\ \A a : IsAlert(a) => IsAlert(a)'
      /\ \A B : IsList(B) => IsList(B)'
  BY <1>1, AlertStays DEF Inv
<1>8. PageIsSound'
  <2>1. (\A a \in pushes : IsAlert(a)) /\ IsList(alertCache)
    BY DEF Inv, PageInv, PageIsSound
  <2> QED BY <1>3, <1>5, <1>6, <1>7, <2>1 DEF PageIsSound
<1>9. Len(answers') <= MaxAnswers
  BY <1>3, <1>5, Bounds
<1> QED BY <1>3, <1>8, <1>9 DEF Inv, PageInv, DashboardTypeOK, FallbackIsOffline, EachCountsOnce

LEMMA BrowserKeepsPage ==
  ASSUME Inv, Browser
  PROVE  PageInv'
<1>1. UNCHANGED storeVars
  BY DEF Browser
<1>2. /\ answers \in Seq(SUBSET [id : Ids, ep : Endpoints])
      /\ \A i \in 1..Len(answers) : IsList(answers[i])
      /\ \A a \in pushes : IsAlert(a)
      /\ IsList(alertCache)
      /\ DashboardTypeOK /\ FallbackIsOffline /\ EachCountsOnce
  BY DEF Inv, PageInv, PageIsSound
<1>3. /\ \A a : IsAlert(a) => IsAlert(a)'
      /\ \A A : IsList(A) => IsList(A)'
  BY <1>1, AlertStays DEF Inv
<1>4. ASSUME Opened \/ Closed \/ Reconnect
      PROVE  PageInv'
  <2>1. /\ pushes' \subseteq pushes /\ answers' = answers /\ alertCache' = alertCache
        /\ threatCounter' = threatCounter
    BY <1>4 DEF Opened, Closed, Reconnect
  <2>2. PageIsSound'
    BY <1>2, <1>3, <2>1 DEF PageIsSound
  <2>3. EachCountsOnce' /\ Len(answers') <= MaxAnswers
    BY <1>2, <2>1 DEF EachCountsOnce, DashboardTypeOK
  <2>4. /\ socket' \in {"connecting", "open", "closed"} /\ usingFallback' \in BOOLEAN
        /\ socket' # "open" => pushes' = {}
        /\ FallbackIsOffline'
    BY <1>2, <1>4 DEF Opened, Closed, Reconnect, DashboardTypeOK, FallbackIsOffline
  <2> QED BY <2>2, <2>3, <2>4 DEF PageInv, DashboardTypeOK
<1>5. ASSUME AnswerArrives
      PROVE  PageInv'
  <2>1. /\ answers # <<>> /\ answers' = Tail(answers) /\ Show(Head(answers))
        /\ UNCHANGED <<socket, usingFallback, pushes>>
    BY <1>5 DEF AnswerArrives
  <2>2. /\ answers' \in Seq(SUBSET [id : Ids, ep : Endpoints]) /\ Len(answers') = Len(answers) - 1
        /\ Len(answers) \in Nat
        /\ \A i \in 1..Len(answers') : i + 1 \in 1..Len(answers) /\ answers'[i] = answers[i + 1]
        /\ Head(answers) = answers[1] /\ 1 \in 1..Len(answers)
    BY <1>2, <2>1
  <2>3. IsList(Head(answers))
    BY <1>2, <2>2
  <2>4. /\ EachCountsOnce' /\ IsFiniteSet(alertCache') /\ Distinct(alertCache')
        /\ alertCache' \subseteq alertCache \cup Head(answers)
    BY <1>2, <2>1, <2>3, ShowEffect DEF IsList
  <2>5. IsList(alertCache')
    BY <1>2, <2>3, <2>4 DEF IsList
  <2>6. \A i \in 1..Len(answers') : IsList(answers'[i])
    BY <1>2, <2>2
  <2>7. PageIsSound'
    BY <1>2, <1>3, <2>1, <2>2, <2>5, <2>6 DEF PageIsSound
  <2>8. Len(answers') <= MaxAnswers
    BY <1>2, <2>2, Bounds DEF DashboardTypeOK
  <2> QED BY <1>2, <2>1, <2>4, <2>7, <2>8 DEF PageInv, DashboardTypeOK, FallbackIsOffline
<1>6. ASSUME NEW a \in pushes, PushArrives(a)
      PROVE  PageInv'
  <2>1. /\ pushes' = pushes \ {a} /\ Show({a})
        /\ UNCHANGED <<socket, usingFallback, answers>>
    BY <1>6 DEF PushArrives
  <2>2. /\ EachCountsOnce' /\ IsFiniteSet(alertCache') /\ Distinct(alertCache')
        /\ alertCache' \subseteq alertCache \cup {a}
    BY <1>2, <2>1, ShowEffect, FS_Singleton DEF IsList, Distinct
  <2>3. IsList(alertCache')
    BY <1>2, <2>2 DEF IsList
  <2>4. PageIsSound'
    BY <1>2, <1>3, <2>1, <2>3 DEF PageIsSound
  <2> QED BY <1>2, <2>1, <2>2, <2>4 DEF PageInv, DashboardTypeOK, FallbackIsOffline
<1> QED BY <1>4, <1>5, <1>6 DEF Browser

LEMMA PageStarts == DashboardInit => PageInv
<1> SUFFICES ASSUME DashboardInit PROVE PageInv
  OBVIOUS
<1>1. /\ socket = "connecting" /\ usingFallback = FALSE /\ pushes = {}
      /\ answers = <<>> /\ alertCache = {} /\ threatCounter = 0
  BY DEF DashboardInit
<1>2. answers \in Seq(SUBSET [id : Ids, ep : Endpoints]) /\ Len(answers) = 0
  BY <1>1
<1>3. PageIsSound /\ EachCountsOnce
  BY <1>1, <1>2, FS_EmptySet DEF PageIsSound, IsList, Distinct, EachCountsOnce
<1>4. DashboardTypeOK /\ FallbackIsOffline
  <2>1. Len(answers) <= MaxAnswers
    BY <1>2, Bounds
  <2>2. usingFallback \in BOOLEAN /\ ~usingFallback /\ socket # "closed"
    BY <1>1
  <2> QED BY <1>1, <2>1, <2>2 DEF DashboardTypeOK, FallbackIsOffline
<1> QED BY <1>3, <1>4 DEF PageInv

-----------------------------------------------------------------------------
(***************************************************************************)
(* The invariant, and what it shows.                                       *)
(***************************************************************************)
THEOREM InvHolds == Spec => []Inv
<1>1. Init => Inv
  BY StoreStarts, PageStarts DEF Init, Inv
<1>2. Inv /\ [Next]_vars => Inv'
  <2> SUFFICES ASSUME Inv, [Next]_vars
               PROVE  Inv'
    OBVIOUS
  <2>1. StoreInv'
    BY NextOfStore, StoreKeeps DEF Inv
  <2>2. PageInv'
    <3>1. CASE Agents
      <4>1. UNCHANGED dashboardVars
        BY <3>1 DEF Agents
      <4> QED BY <4>1, NextOfStore, PageStays
    <3>2. ASSUME NEW m \in wire, AlertArrives(m)
          PROVE  PageInv'
      BY <3>2, AlertArrivesKeepsPage
    <3>3. ASSUME NEW m \in wire, ResultArrives(m)
          PROVE  PageInv'
      <4>1. UNCHANGED dashboardVars
        BY <3>3 DEF ResultArrives
      <4> QED BY <4>1, NextOfStore, PageStays
    <3>4. CASE AnswerAlerts
      BY <3>4, AnswerKeepsPage
    <3>5. CASE (\E r \in alerts, verdict \in {"open", "resolved"} : Triage(r, verdict)) /\ UNCHANGED dashboardVars
      BY <3>5, NextOfStore, PageStays
    <3>6. CASE Browser
      BY <3>6, BrowserKeepsPage
    <3>7. CASE UNCHANGED vars
      <4>1. UNCHANGED dashboardVars
        BY <3>7 DEF vars
      <4> QED BY <4>1, NextOfStore, PageStays
    <3> QED BY <3>1, <3>2, <3>3, <3>4, <3>5, <3>6, <3>7 DEF Next, Server
  <2> QED BY <2>1, <2>2 DEF Inv
<1> QED BY <1>1, <1>2, PTL DEF Spec

(***************************************************************************)
(* All variables keep their types, the tables have one row for each name,  *)
(* and nothing but alerts is sent to the page.                             *)
(***************************************************************************)
THEOREM TypeCorrect == Spec => []TypeOK
<1>1. ASSUME Inv
      PROVE  TypeOK
  <2>1. \A a : IsAlert(a) => DOMAIN a = {"id", "ep"}
    BY DEF IsAlert
  <2>2. \A a \in pushes \cup alertCache : IsAlert(a)
    BY <1>1 DEF Inv, PageInv, PageIsSound, IsList
  <2>3. \A i \in 1..Len(answers) : \A a \in answers[i] : IsAlert(a)
    BY <1>1 DEF Inv, PageInv, PageIsSound, IsList
  <2> QED BY <1>1, <2>1, <2>2, <2>3 DEF Inv, StoreInv, PageInv, TypeOK
<1> QED BY <1>1, InvHolds, PTL

(***************************************************************************)
(* _store_alert() and _store_incident() drop as known only what shares its *)
(* name with another endpoint's or is a manual result: the agent's seconds *)
(* and numbers tell its own alerts apart, over restarts and repeats.       *)
(***************************************************************************)
THEOREM DropsAreCollisions == Spec => []OnlyCollisionsAreDropped
<1>1. ASSUME Inv
      PROVE  OnlyCollisionsAreDropped
  <2> SUFFICES ASSUME NEW m \in handled \ crashed
               PROVE  \E r \in (IF m.kind = "alert" THEN alerts ELSE incidents) :
                        r.id = m.id /\ (r.n = m.n \/ r.ep # m.ep \/ IsManual(m.id))
    BY DEF OnlyCollisionsAreDropped
  <2>1. Rows /\ Naming /\ TablesOK
    BY <1>1, StoreInvParts DEF Inv, TablesInv
  <2>2. m.kind \in {"alert", "result"} /\ handled \subseteq Told
    BY <2>1, MessageParts DEF TablesOK, Told
  <2>3. PICK r \in (IF m.kind = "alert" THEN alerts ELSE incidents) : r.id = m.id
    BY <2>1, <2>2 DEF Rows, Named
  <2>4. PICK o \in handled : o.id = r.id /\ o.ep = r.ep /\ o.n = r.n
    BY <2>1, <2>3 DEF Rows
  <2>5. r.ep = m.ep /\ ~IsManual(m.id) => r.n = m.n
    BY <2>1, <2>2, <2>3, <2>4 DEF Naming
  <2> QED BY <2>3, <2>5
<1> QED BY <1>1, InvHolds, PTL

(***************************************************************************)
(* The commit of an incident raises only where foreign keys are enforced,  *)
(* on a manual result or one whose alert was lost, or waits at the handler *)
(* of an older connection.                                                 *)
(***************************************************************************)
THEOREM CrashesHaveCauses == Spec => []CrashHasCause
<1>1. Inv => CrashHasCause
  BY DEF Inv, StoreInv
<1> QED BY <1>1, InvHolds, PTL

(***************************************************************************)
(* An alert that arrives again never undoes triage_alert().                *)
(***************************************************************************)
THEOREM VerdictsStand == Spec => []VerdictStands
<1>1. Inv => VerdictStands
  BY DEF Inv, StoreInv
<1> QED BY <1>1, InvHolds, PTL

(***************************************************************************)
(* The demonstration never runs beside an open WebSocket.                  *)
(***************************************************************************)
THEOREM FallbacksAreOffline == Spec => []FallbackIsOffline
<1>1. Inv => FallbackIsOffline
  BY DEF Inv, PageInv
<1> QED BY <1>1, InvHolds, PTL

(***************************************************************************)
(* handleIncomingAlert() counts an alert once, however it comes.           *)
(***************************************************************************)
THEOREM AlertsCountOnce == Spec => []EachCountsOnce
<1>1. Inv => EachCountsOnce
  BY DEF Inv, PageInv
<1> QED BY <1>1, InvHolds, PTL

(***************************************************************************)
(* What the page shows is stored, since the server stores an alert before  *)
(* it pushes it and answers from its rows.                                 *)
(***************************************************************************)
THEOREM PageShowsStored == Spec => []ShownIsStored
<1>1. ASSUME Inv
      PROVE  ShownIsStored
  <2>1. \A a \in alertCache : Sound(a)
    BY <1>1 DEF Inv, PageInv, PageIsSound, IsList, IsAlert
  <2> QED BY <2>1 DEF Sound, ShownIsStored
<1> QED BY <1>1, InvHolds, PTL
=============================================================================
