----------------------------- MODULE HubProofs -----------------------------
(***************************************************************************)
(* Proofs about Hub, for every set of endpoints and dashboards and every   *)
(* bound: the types, the four safety invariants of the run Hub, and what a *)
(* broadcast has done when it ends.                                        *)
(***************************************************************************)
EXTENDS Hub, FiniteSetTheorems, SequenceTheorems, WellFoundedInduction, TLAPS

(***************************************************************************)
(* The parts of the inductive invariant.                                   *)
(***************************************************************************)
OnlyOnce(s) == \A i, j \in 1..Len(s) : s[i] = s[j] => i = j

\* Rows, acknowledgements and counters.
RowsOK ==
  /\ up \subseteq Conns \cup Dashboards /\ crashed \subseteq Conns
  /\ dest \in [Dashboards -> Conns \cup {None}] /\ ack \in [Dashboards -> BOOLEAN]
  /\ status \in [Endpoints -> {"absent", "online", "offline"}]
  /\ fresh \in [Endpoints -> BOOLEAN] /\ listing \subseteq Endpoints
  /\ messages \in 0..MaxMessages /\ commands \in 0..MaxCommands

Places == {"new", "accepting", "receive", "cast", "ended"}

\* Connections are numbered as they are opened, have an owner from then on,
\* and what is registered for an endpoint was accepted for it.
LinksOK ==
  /\ owner \in [Conns -> Endpoints \cup {NoOne}]
  /\ pc \in [Conns -> Places] /\ accepted \in Seq(Conns) /\ OnlyOnce(accepted)
  /\ registry \in [Endpoints -> Conns \cup {None}]
  /\ Opened = 1..Cardinality(Opened)
  /\ \A c \in Conns : pc[c] # "new" => owner[c] \in Endpoints
  /\ \A i \in 1..Len(accepted) : pc[accepted[i]] \in {"receive", "cast", "ended"}
  /\ \A e \in Endpoints : registry[e] # None =>
       owner[registry[e]] = e /\ \E i \in 1..Len(accepted) : registry[e] = accepted[i]

\* The list has each dashboard once, and only dashboards that have connected.
Known == {d \in Dashboards : dpc[d] # "new"}
BoardsOK ==
  /\ dpc \in [Dashboards -> {"new", "receive", "sending", "ack", "ended"}]
  /\ dashboards \in Seq(Dashboards) /\ OnlyOnce(dashboards) /\ Listed \subseteq Known

\* A broadcast under way: nothing ahead of its index was sent to, and it has
\* passed over at most as many as have left.
Ahead(k) == {dashboards[i] : i \in (k.at + 1)..Len(dashboards)}
Done(k) == k.reached \cup k.stale \cup {k.to}
CastOK(k) ==
  /\ k \in Casts /\ k.at >= 1 /\ IsFiniteSet(k.left)
  /\ Done(k) \cup k.due \cup k.left \subseteq Known
  /\ k.due \subseteq Listed /\ k.left \cap Listed = {}
  /\ k.to \notin k.reached \cup k.stale
  /\ Ahead(k) \cap Done(k) = {}
  /\ Cardinality(k.due \ (Done(k) \cup Ahead(k))) <= Cardinality(k.left)

CastsOK ==
  /\ cast \in [Conns -> Casts]
  /\ \A c \in Conns : \/ pc[c] = "cast" /\ CastOK(cast[c])
                      \/ pc[c] # "cast" /\ cast[c] = Idle

Inv == RowsOK /\ LinksOK /\ BoardsOK /\ CastsOK /\ RegistryIsNewest /\ LeftBehindByCrash

-----------------------------------------------------------------------------
(***************************************************************************)
(* Lists without repetitions, and what remains of them.                    *)
(***************************************************************************)
LEMMA SizeOfList ==
  ASSUME NEW S, NEW s \in Seq(S)
  PROVE  /\ IsFiniteSet(ToSet(s)) /\ Cardinality(ToSet(s)) = Len(s) <=> OnlyOnce(s)
         /\ ToSet(s) = {s[i] : i \in 1..Len(s)} /\ ToSet(s) \subseteq S
<1>1. Len(s) \in Nat /\ DOMAIN s = 1..Len(s) /\ s \in [1..Len(s) -> S]
  BY LenProperties
<1>2. ToSet(s) = {s[i] : i \in 1..Len(s)} /\ ToSet(s) \subseteq S
  BY <1>1 DEF ToSet
<1>3. s \in Surjection(1..Len(s), ToSet(s))
  BY <1>1, <1>2 DEF Surjection
<1>4. IsFiniteSet(1..Len(s)) /\ Cardinality(1..Len(s)) = Len(s)
  BY <1>1, FS_Interval
<1>5. IsFiniteSet(ToSet(s)) /\ (Cardinality(ToSet(s)) = Len(s) <=> s \in Injection(1..Len(s), ToSet(s)))
  BY <1>3, <1>4, FS_Surjection
<1>6. s \in Injection(1..Len(s), ToSet(s)) <=> OnlyOnce(s)
  BY <1>1, <1>2 DEF Injection, IsInjective, OnlyOnce
<1> QED BY <1>2, <1>5, <1>6

\* The entries of rest that are before i.
Before(rest, i) == {j \in rest : j < i}

LEMMA Ranks ==
  ASSUME NEW n \in Nat, NEW rest \in SUBSET (1..n)
  PROVE  /\ Cardinality(rest) \in Nat
         /\ \A i \in rest : Cardinality(Before(rest, i)) + 1 \in 1..Cardinality(rest)
         /\ \A i \in rest : Cardinality(Before(rest, i)) + 1 <= i
         /\ \A i, j \in rest : Cardinality(Before(rest, i)) = Cardinality(Before(rest, j)) => i = j
         /\ \A k \in 1..Cardinality(rest) : \E i \in rest : Cardinality(Before(rest, i)) = k - 1
<1>1. IsFiniteSet(rest) /\ Cardinality(rest) \in Nat
  <2>1. IsFiniteSet(1..n)
    <3>1. 1 \in Int /\ n \in Int
      OBVIOUS
    <3> QED BY <3>1, FS_Interval
  <2>2. IsFiniteSet(rest)
    BY <2>1, FS_Subset
  <2> QED BY <2>2, FS_CardinalityType
<1>2. ASSUME NEW i \in rest
      PROVE  /\ IsFiniteSet(Before(rest, i)) /\ Cardinality(Before(rest, i)) \in Nat
             /\ Cardinality(Before(rest, i)) < Cardinality(rest)
             /\ Cardinality(Before(rest, i)) <= i - 1
  <2>1. i \in 1..n
    OBVIOUS
  <2>2. Before(rest, i) \in SUBSET rest /\ i \notin Before(rest, i)
    BY <2>1 DEF Before
  <2>3. /\ IsFiniteSet(Before(rest, i)) /\ Cardinality(Before(rest, i)) <= Cardinality(rest)
        /\ Cardinality(Before(rest, i)) # Cardinality(rest)
    BY <1>1, <2>2, FS_Subset
  <2>4. Before(rest, i) \in SUBSET (1..(i - 1))
    <3>1. \A j \in rest : j \in 1..n
      OBVIOUS
    <3>2. \A j \in 1..n : j < i => j \in 1..(i - 1)
      BY <2>1
    <3> QED BY <3>1, <3>2 DEF Before
  <2>5. IsFiniteSet(1..(i - 1)) /\ Cardinality(1..(i - 1)) = i - 1
    <3>1. 1 \in Int /\ i - 1 \in Int /\ (1 > i - 1 <=> i = 1) /\ (i - 1) - 1 + 1 = i - 1
      BY <2>1
    <3> QED BY <3>1, FS_Interval
  <2>6. Cardinality(Before(rest, i)) <= i - 1
    BY <2>4, <2>5, FS_Subset
  <2>7. Cardinality(Before(rest, i)) \in Nat
    BY <2>3, FS_CardinalityType
  <2> QED BY <1>1, <2>3, <2>6, <2>7
<1>3. ASSUME NEW i \in rest, NEW j \in rest, i < j
      PROVE  Cardinality(Before(rest, i)) # Cardinality(Before(rest, j))
  <2>1. i \in 1..n /\ j \in 1..n
    OBVIOUS
  <2>2. Before(rest, i) \in SUBSET Before(rest, j) /\ i \in Before(rest, j) /\ i \notin Before(rest, i)
    <3>1. ~ i < i
      BY <2>1
    <3>2. \A k \in rest : k \in 1..n
      OBVIOUS
    <3>3. \A k \in 1..n : k < i => k < j
      BY <1>3, <2>1
    <3> QED BY <1>3, <3>1, <3>2, <3>3 DEF Before
  <2> QED BY <1>2, <2>2, FS_Subset
<1>4. ASSUME NEW i \in rest, NEW j \in rest, Cardinality(Before(rest, i)) = Cardinality(Before(rest, j))
      PROVE  i = j
  <2>1. i \in 1..n /\ j \in 1..n
    OBVIOUS
  <2>2. i < j \/ j < i \/ i = j
    BY <2>1
  <2> QED BY <1>3, <1>4, <2>2
<1> DEFINE m == Cardinality(rest)
           rank == [i \in rest |-> Cardinality(Before(rest, i)) + 1]
<1>5. \A i \in rest : rank[i] \in 1..m /\ rank[i] <= i
  <2> SUFFICES ASSUME NEW i \in rest
               PROVE  rank[i] \in 1..m /\ rank[i] <= i
    OBVIOUS
  <2>1. i \in Nat
    OBVIOUS
  <2> QED BY <1>1, <1>2, <2>1
<1>6. rank \in Injection(rest, 1..m)
  <2>1. \A i, j \in rest : rank[i] = rank[j] => i = j
    BY <1>2, <1>4
  <2> QED BY <1>5, <2>1 DEF Injection, IsInjective
<1>7. IsFiniteSet(1..m) /\ Cardinality(1..m) = m
  BY <1>1, FS_Interval
<1>8. rank \in Surjection(rest, 1..m)
  BY <1>6, <1>7, FS_Injection
<1>9. ASSUME NEW k \in 1..m
      PROVE  \E i \in rest : Cardinality(Before(rest, i)) = k - 1
  <2>1. PICK i \in rest : rank[i] = k
    BY <1>8 DEF Surjection
  <2>2. Cardinality(Before(rest, i)) + 1 = k /\ Cardinality(Before(rest, i)) \in Nat
    BY <1>2, <2>1
  <2> QED BY <2>2
<1> QED BY <1>1, <1>4, <1>5, <1>9

LEMMA BeforeSize ==
  ASSUME NEW n \in Nat, NEW rest \in SUBSET (1..n), NEW i \in rest
  PROVE  Cardinality(Before(rest, i)) \in Nat
<1>1. IsFiniteSet(1..n)
  <2>1. 1 \in Int /\ n \in Int
    OBVIOUS
  <2> QED BY <2>1, FS_Interval
<1>2. Before(rest, i) \in SUBSET (1..n)
  BY DEF Before
<1> QED BY <1>1, <1>2, FS_Subset, FS_CardinalityType

\* Removing moves no dashboard to the back.
LEMMA RemovedEffect ==
  ASSUME dashboards \in Seq(Dashboards), OnlyOnce(dashboards), NEW S
  PROVE  /\ Removed(S) \in Seq(Dashboards) /\ OnlyOnce(Removed(S))
         /\ \A k \in 1..Len(Removed(S)) : \E i \in 1..Len(dashboards) :
              k <= i /\ Removed(S)[k] = dashboards[i] /\ dashboards[i] \notin S
         /\ \A i \in 1..Len(dashboards) : dashboards[i] \notin S =>
              \E k \in 1..Len(Removed(S)) : k <= i /\ Removed(S)[k] = dashboards[i]
<1> DEFINE n == Len(dashboards)
           rest == {i \in 1..n : dashboards[i] \notin S}
           m == Cardinality(rest)
           at == [k \in 1..m |-> CHOOSE i \in rest : Cardinality(Before(rest, i)) = k - 1]
           r == Removed(S)
<1>1. n \in Nat /\ DOMAIN dashboards = 1..n /\ \A i \in 1..n : dashboards[i] \in Dashboards
  BY LenProperties, ElementOfSeq
<1>2. rest \in SUBSET (1..n)
  OBVIOUS
<1>3. /\ m \in Nat
      /\ \A i \in rest : Cardinality(Before(rest, i)) + 1 \in 1..m
      /\ \A i \in rest : Cardinality(Before(rest, i)) + 1 <= i
      /\ \A i, j \in rest : Cardinality(Before(rest, i)) = Cardinality(Before(rest, j)) => i = j
      /\ \A k \in 1..m : \E i \in rest : Cardinality(Before(rest, i)) = k - 1
  BY <1>1, <1>2, Ranks
<1>4. r = [k \in 1..m |-> dashboards[at[k]]]
  BY <1>1 DEF Removed, Before
<1>5. \A k \in 1..m : at[k] \in rest /\ Cardinality(Before(rest, at[k])) = k - 1
  BY <1>3
<1> HIDE DEF at, rest, m, r
<1>6. \A k \in 1..m : at[k] \in 1..n /\ dashboards[at[k]] \in Dashboards /\ dashboards[at[k]] \notin S
  BY <1>1, <1>5 DEF rest
<1>7. r \in [1..m -> Dashboards]
  BY <1>4, <1>6
<1>8. r \in Seq(Dashboards) /\ Len(r) = m
  BY <1>3, <1>7
<1>9. \A k \in 1..m : r[k] = dashboards[at[k]]
  BY <1>4
<1>10. ASSUME NEW k \in 1..m
       PROVE  k <= at[k]
  <2>1. Cardinality(Before(rest, at[k])) + 1 <= at[k] /\ Cardinality(Before(rest, at[k])) = k - 1
    BY <1>3, <1>5
  <2>2. k \in Nat /\ at[k] \in Nat
    BY <1>3, <1>6
  <2> QED BY <2>1, <2>2
<1>11. ASSUME NEW k \in 1..m, NEW l \in 1..m, r[k] = r[l]
       PROVE  k = l
  <2>1. at[k] = at[l]
    BY <1>6, <1>9, <1>11 DEF OnlyOnce
  <2>2. k - 1 = l - 1 /\ k \in Nat /\ l \in Nat
    BY <1>3, <1>5, <2>1
  <2> QED BY <2>2
<1>12. ASSUME NEW i \in 1..n, dashboards[i] \notin S
       PROVE  \E k \in 1..m : k <= i /\ r[k] = dashboards[i]
  <2>1. i \in rest
    BY <1>12 DEF rest
  <2>0. Cardinality(Before(rest, i)) \in Nat
    BY <1>1, <1>2, <2>1, BeforeSize
  <2>2. PICK k \in 1..m : k = Cardinality(Before(rest, i)) + 1
    BY <1>3, <2>1
  <2>3. k <= i
    BY <1>3, <2>1, <2>2
  <2>4. Cardinality(Before(rest, i)) = k - 1
    BY <2>0, <2>2
  <2>5. at[k] = i
    BY <1>3, <1>5, <2>1, <2>4
  <2> QED BY <1>9, <2>3, <2>5
<1> QED BY <1>6, <1>8, <1>9, <1>10, <1>11, <1>12 DEF OnlyOnce, r

-----------------------------------------------------------------------------
(***************************************************************************)
(* The broadcasts and the list.                                            *)
(***************************************************************************)
LEMMA NumbersOfHub ==
  /\ MaxConns \in Nat /\ MaxMessages \in Nat /\ MaxCommands \in Nat
  /\ Conns \subseteq Nat \ {0} /\ None \notin Conns
BY BoundsAssumption DEF Conns, None

LEMMA IdleIsCast == Idle \in Casts /\ Idle.at = 0 /\ Idle.bye = FALSE
<1>1. NoOne \in Dashboards \cup {NoOne} /\ 0 \in Nat /\ FALSE \in BOOLEAN /\ {} \in SUBSET Dashboards
  OBVIOUS
<1> QED BY <1>1 DEF Idle, Casts

LEMMA CastParts ==
  ASSUME NEW k \in Casts
  PROVE  /\ k.at \in Nat /\ k.to \in Dashboards \cup {NoOne} /\ k.bye \in BOOLEAN
         /\ k.stale \in SUBSET Dashboards /\ k.reached \in SUBSET Dashboards
         /\ k.due \in SUBSET Dashboards /\ k.left \in SUBSET Dashboards
BY DEF Casts

\* What is ahead of an index.
LEMMA AheadOf ==
  ASSUME BoardsOK, NEW k \in Casts
  PROVE  \A d : d \in Ahead(k) <=> \E i \in 1..Len(dashboards) : i > k.at /\ d = dashboards[i]
<1>1. Len(dashboards) \in Nat /\ k.at \in Nat
  BY CastParts DEF BoardsOK
<1>2. \A i : i \in (k.at + 1)..Len(dashboards) <=> i \in 1..Len(dashboards) /\ i > k.at
  BY <1>1
<1> QED BY <1>2 DEF Ahead

LEMMA ListedIs ==
  ASSUME BoardsOK
  PROVE  /\ IsFiniteSet(Listed) /\ Len(dashboards) \in Nat
         /\ \A i \in 1..Len(dashboards) : dashboards[i] \in Listed /\ dashboards[i] \in Dashboards
         /\ \A d \in Listed : \E i \in 1..Len(dashboards) : d = dashboards[i]
<1>1. Listed = {dashboards[i] : i \in 1..Len(dashboards)} /\ Listed \subseteq Dashboards
      /\ IsFiniteSet(Listed) /\ Len(dashboards) \in Nat
  BY SizeOfList DEF BoardsOK, Listed
<1> QED BY <1>1

\* A broadcast that begins.
LEMMA BeginsOK ==
  ASSUME BoardsOK, dashboards # <<>>, NEW bye \in BOOLEAN
  PROVE  CastOK([Idle EXCEPT !.at = 1, !.to = Head(dashboards), !.due = Listed, !.bye = bye])
<1> DEFINE k == [Idle EXCEPT !.at = 1, !.to = Head(dashboards), !.due = Listed, !.bye = bye]
<1>1. Len(dashboards) \in Nat \ {0} /\ Head(dashboards) = dashboards[1] /\ 1 \in 1..Len(dashboards)
  BY DEF BoardsOK
<1>2. /\ k.at = 1 /\ k.to = dashboards[1] /\ k.due = Listed /\ k.bye = bye
      /\ k.reached = {} /\ k.stale = {} /\ k.left = {}
  BY <1>1 DEF Idle
<1>3. Listed \subseteq Dashboards /\ dashboards[1] \in Listed /\ dashboards[1] \in Dashboards
  BY <1>1, ListedIs
<1>4. k \in Casts
  BY <1>1, <1>3 DEF Idle, Casts
<1> HIDE DEF k
<1>5. Done(k) = {dashboards[1]}
  BY <1>2 DEF Done
<1>6. Listed \subseteq Done(k) \cup Ahead(k)
  <2> SUFFICES ASSUME NEW d \in Listed
               PROVE  d \in Done(k) \cup Ahead(k)
    OBVIOUS
  <2>1. PICK i \in 1..Len(dashboards) : d = dashboards[i]
    BY ListedIs
  <2>2. CASE i = 1
    BY <1>5, <2>1, <2>2
  <2>3. CASE i # 1
    <3>1. i > 1
      BY <1>1, <2>3
    <3> QED BY <1>2, <1>4, <2>1, <3>1, AheadOf
  <2> QED BY <2>2, <2>3
<1>7. Cardinality(k.due \ (Done(k) \cup Ahead(k))) = 0 /\ Cardinality(k.left) = 0 /\ IsFiniteSet(k.left)
  <2>1. k.due \ (Done(k) \cup Ahead(k)) = {}
    BY <1>2, <1>6
  <2> QED BY <1>2, <2>1, FS_EmptySet
<1>8. Ahead(k) \cap Done(k) = {}
  <2> SUFFICES dashboards[1] \notin Ahead(k)
    BY <1>5
  <2>1. \A i \in 1..Len(dashboards) : i > 1 => dashboards[i] # dashboards[1]
    BY <1>1 DEF BoardsOK, OnlyOnce
  <2> QED BY <1>2, <1>4, <2>1, AheadOf
<1>9. Done(k) \cup k.due \cup k.left \subseteq Known
  BY <1>2, <1>3, <1>5 DEF BoardsOK
<1> QED BY <1>2, <1>4, <1>7, <1>8, <1>9 DEF CastOK, k

\* The next iteration of a broadcast.
LEMMA GoesOnOK ==
  ASSUME BoardsOK, NEW k, CastOK(k), k.at < Len(dashboards), NEW ok \in BOOLEAN
  PROVE  LET r == IF ok THEN [k EXCEPT !.reached = @ \cup {k.to}] ELSE [k EXCEPT !.stale = @ \cup {k.to}]
         IN CastOK([r EXCEPT !.at = @ + 1, !.to = dashboards[k.at + 1]])
<1> DEFINE r == IF ok THEN [k EXCEPT !.reached = @ \cup {k.to}] ELSE [k EXCEPT !.stale = @ \cup {k.to}]
           next == dashboards[k.at + 1]
           l == [r EXCEPT !.at = @ + 1, !.to = next]
<1>1. /\ k \in Casts /\ k.at \in Nat /\ k.at >= 1 /\ k.to \in Known /\ IsFiniteSet(k.left)
      /\ k.stale \in SUBSET Dashboards /\ k.reached \in SUBSET Dashboards
  BY CastParts DEF CastOK, Done
<1>2. k.at + 1 \in 1..Len(dashboards) /\ k.at + 1 > k.at /\ next \in Listed /\ next \in Dashboards /\ next \in Known
  BY <1>1, ListedIs DEF BoardsOK
<1>3. k.to \in Dashboards
  BY <1>1 DEF Known
<1>4. /\ l.at = k.at + 1 /\ l.to = next /\ l.due = k.due /\ l.left = k.left
      /\ l.reached \cup l.stale = k.reached \cup k.stale \cup {k.to}
      /\ l.reached \in SUBSET Dashboards /\ l.stale \in SUBSET Dashboards
  <2>1. CASE ok
    BY <1>1, <1>3, <2>1 DEF Casts
  <2>2. CASE ~ ok
    BY <1>1, <1>3, <2>2 DEF Casts
  <2> QED BY <2>1, <2>2
<1>5. l \in Casts
  <2>1. k.stale \cup {k.to} \in SUBSET Dashboards /\ k.reached \cup {k.to} \in SUBSET Dashboards
    BY <1>1, <1>3
  <2>2. r \in Casts /\ r.at = k.at
    <3>1. CASE ok
      BY <1>1, <2>1, <3>1 DEF Casts
    <3>2. CASE ~ ok
      BY <1>1, <2>1, <3>2 DEF Casts
    <3> QED BY <3>1, <3>2
  <2>3. r.at + 1 \in Nat /\ next \in Dashboards \cup {NoOne}
    BY <1>1, <1>2, <2>2
  <2> HIDE DEF r, next
  <2> QED BY <2>2, <2>3 DEF Casts
<1> HIDE DEF l, r
<1>6. Done(l) = Done(k) \cup {next} /\ l.reached \cup l.stale = Done(k)
  BY <1>4 DEF Done
<1>7. \A d : d \in Ahead(k) <=> d \in Ahead(l) \/ d = next
  <2>1. \A i \in 1..Len(dashboards) : i > k.at <=> i > l.at \/ i = k.at + 1
    BY <1>1, <1>4
  <2> QED BY <1>1, <1>2, <1>5, <2>1, AheadOf
<1>8. next \notin Ahead(l)
  <2>1. \A i \in 1..Len(dashboards) : i > l.at => dashboards[i] # next
    BY <1>1, <1>2, <1>4 DEF BoardsOK, OnlyOnce
  <2> QED BY <1>5, <2>1, AheadOf
<1>9. next \notin Done(k) /\ Ahead(l) \cap Done(k) = {}
  BY <1>7 DEF CastOK
<1>10. Done(l) \cup Ahead(l) = Done(k) \cup Ahead(k)
  BY <1>6, <1>7
<1>11. l.at >= 1
  BY <1>1, <1>4
<1>12. /\ Done(k) \cup k.due \cup k.left \subseteq Known /\ k.due \subseteq Listed /\ k.left \cap Listed = {}
       /\ Cardinality(k.due \ (Done(k) \cup Ahead(k))) <= Cardinality(k.left)
  BY DEF CastOK
<1>13. Done(l) \cup l.due \cup l.left \subseteq Known
  BY <1>2, <1>4, <1>6, <1>12
<1>14. Cardinality(l.due \ (Done(l) \cup Ahead(l))) <= Cardinality(l.left)
  BY <1>4, <1>10, <1>12
<1>15. l.to \notin l.reached \cup l.stale /\ Ahead(l) \cap Done(l) = {}
  BY <1>4, <1>6, <1>8, <1>9
<1> QED BY <1>1, <1>4, <1>5, <1>11, <1>12, <1>13, <1>14, <1>15 DEF CastOK, l, r

\* The first a entries of a list.
First(s, a) == {s[i] : i \in {j \in 1..Len(s) : j <= a}}

LEMMA SizeOfFirst ==
  ASSUME NEW T, NEW s \in Seq(T), OnlyOnce(s), NEW a \in Nat
  PROVE  /\ IsFiniteSet(First(s, a)) /\ Cardinality(First(s, a)) <= a
         /\ a <= Len(s) => Cardinality(First(s, a)) = a
<1> DEFINE at == {j \in 1..Len(s) : j <= a}
           f == [i \in at |-> s[i]]
<1>1. Len(s) \in Nat
  BY LenProperties
<1>2. at \in SUBSET (1..a) /\ (a <= Len(s) => at = 1..a)
  BY <1>1
<1>3. IsFiniteSet(1..a) /\ Cardinality(1..a) = a
  <2>1. 1 \in Int /\ a \in Int /\ (1 > a <=> a = 0) /\ a - 1 + 1 = a
    OBVIOUS
  <2> QED BY <2>1, FS_Interval
<1>4. IsFiniteSet(at) /\ Cardinality(at) <= a /\ (a <= Len(s) => Cardinality(at) = a)
  <2> HIDE DEF at
  <2>1. IsFiniteSet(at) /\ Cardinality(at) <= Cardinality(1..a)
    BY <1>2, <1>3, FS_Subset
  <2> QED BY <1>2, <1>3, <2>1
<1>5. f \in Surjection(at, First(s, a))
  BY DEF Surjection, First
<1>6. f \in Injection(at, First(s, a))
  BY <1>5 DEF Injection, IsInjective, Surjection, OnlyOnce
<1> HIDE DEF f, at
<1>7. /\ IsFiniteSet(First(s, a)) /\ Cardinality(First(s, a)) <= Cardinality(at)
      /\ Cardinality(First(s, a)) = Cardinality(at)
  BY <1>4, <1>5, <1>6, FS_Surjection
<1> QED BY <1>4, <1>7

\* Of the entries behind a, at most as many move to a or before it as there
\* are of S in the list.
LEMMA MovedUp ==
  ASSUME BoardsOK, NEW a \in Nat, NEW S, NEW N,
         \A d \in N : /\ \E i \in 1..Len(dashboards) : i > a /\ d = dashboards[i]
                      /\ \E j \in 1..Len(Removed(S)) : j <= a /\ d = Removed(S)[j]
  PROVE  /\ IsFiniteSet(N) /\ IsFiniteSet(S \cap Listed)
         /\ Cardinality(N) <= Cardinality(S \cap Listed)
<1> DEFINE r == Removed(S)
           A == First(dashboards, a)
           B == First(r, a)
           K == A \ S
<1>1. dashboards \in Seq(Dashboards) /\ OnlyOnce(dashboards) /\ Len(dashboards) \in Nat
  BY LenProperties DEF BoardsOK
<1>2. /\ r \in Seq(Dashboards) /\ OnlyOnce(r)
      /\ \A i \in 1..Len(dashboards) : dashboards[i] \notin S =>
              \E k \in 1..Len(r) : k <= i /\ r[k] = dashboards[i]
  BY <1>1, RemovedEffect
<1>3. IsFiniteSet(S \cap Listed)
  <2>1. S \cap Listed \in SUBSET Listed
    OBVIOUS
  <2> QED BY <2>1, ListedIs, FS_Subset
<1>4. CASE N = {}
  BY <1>3, <1>4, FS_EmptySet, FS_CardinalityType
<1>5. CASE N # {}
  <2>1. a <= Len(dashboards)
    <3>1. PICK i \in 1..Len(dashboards) : i > a
      BY <1>5
    <3> QED BY <1>1, <3>1
  <2> HIDE DEF r
  <2>2. IsFiniteSet(A) /\ Cardinality(A) = a
    BY <1>1, <2>1, SizeOfFirst
  <2>3. IsFiniteSet(B) /\ Cardinality(B) <= a
    BY <1>2, SizeOfFirst
  <2>4. N \in SUBSET B /\ K \in SUBSET B
    <3>1. N \in SUBSET B
      BY DEF First, r
    <3>2. ASSUME NEW d \in K
          PROVE  d \in B
      <4>1. PICK i \in 1..Len(dashboards) : i <= a /\ d = dashboards[i]
        BY DEF First
      <4>2. PICK k \in 1..Len(r) : k <= i /\ r[k] = dashboards[i]
        BY <1>2, <4>1
      <4>3. k <= a
        <5>1. i \in Nat /\ k \in Nat
          BY <1>1, <1>2, LenProperties
        <5> QED BY <4>1, <4>2, <5>1
      <4> QED BY <4>1, <4>2, <4>3 DEF First
    <3> QED BY <3>1, <3>2
  <2>5. N \cap K = {}
    <3> SUFFICES ASSUME NEW d \in N, d \in A
                 PROVE  FALSE
      OBVIOUS
    <3>1. PICK i \in 1..Len(dashboards) : i > a /\ d = dashboards[i]
      OBVIOUS
    <3>2. PICK j \in 1..Len(dashboards) : j <= a /\ d = dashboards[j]
      BY DEF First
    <3>3. i = j
      BY <1>1, <3>1, <3>2 DEF OnlyOnce
    <3>4. i \in Nat
      BY <1>1
    <3> QED BY <3>1, <3>2, <3>3, <3>4
  <2> HIDE DEF A, B
  <2>6. IsFiniteSet(N) /\ IsFiniteSet(K)
    BY <2>3, <2>4, FS_Subset
  <2>7. Cardinality(N) + Cardinality(K) <= a
    <3>1. /\ IsFiniteSet(N \cup K)
          /\ Cardinality(N \cup K) = Cardinality(N) + Cardinality(K) - Cardinality(N \cap K)
      BY <2>6, FS_Union
    <3>2. Cardinality(N \cap K) = 0
      BY <2>5, FS_EmptySet
    <3>3. Cardinality(N \cup K) <= Cardinality(B)
      <4>1. N \cup K \in SUBSET B
        BY <2>4
      <4> QED BY <2>3, <4>1, FS_Subset
    <3>4. Cardinality(N) \in Nat /\ Cardinality(K) \in Nat /\ Cardinality(B) \in Nat /\ Cardinality(N \cup K) \in Nat
      BY <2>3, <2>6, <3>1, FS_CardinalityType
    <3> QED BY <2>3, <3>1, <3>2, <3>3, <3>4
  <2>8. Cardinality(K) = a - Cardinality(A \cap S)
    BY <2>2, FS_Difference
  <2>9. A \cap S \in SUBSET (S \cap Listed)
    BY ListedIs DEF A, First
  <2>10. Cardinality(A \cap S) <= Cardinality(S \cap Listed)
    BY <1>3, <2>9, FS_Subset
  <2>11. /\ Cardinality(N) \in Nat /\ Cardinality(K) \in Nat
         /\ Cardinality(A \cap S) \in Nat /\ Cardinality(S \cap Listed) \in Nat
    <3>1. IsFiniteSet(A \cap S)
      BY <1>3, <2>9, FS_Subset
    <3> QED BY <1>3, <2>6, <3>1, FS_CardinalityType
  <2> HIDE DEF K
  <2>12. Cardinality(N) <= Cardinality(S \cap Listed)
    BY <2>7, <2>8, <2>10, <2>11
  <2> QED BY <1>3, <2>6, <2>12
<1> QED BY <1>4, <1>5

\* The broadcast k after the dashboards S have been removed.  What it now
\* passes over has moved to its index or before it, where at most those of S
\* that were there have made room.
LEMMA ShorterOK ==
  ASSUME BoardsOK, NEW k, CastOK(k), NEW S, NEW l, l = Without(k, S),
         dashboards' = Removed(S), Known' = Known
  PROVE  CastOK(l)'
<1> DEFINE r == Removed(S)
           out == S \cap Listed
<1>1. /\ k \in Casts /\ k.at \in Nat /\ k.at >= 1 /\ IsFiniteSet(k.left)
      /\ k.left \in SUBSET Dashboards /\ k.due \in SUBSET Dashboards
      /\ Done(k) \cup k.due \cup k.left \subseteq Known
      /\ k.due \subseteq Listed /\ k.left \cap Listed = {}
      /\ k.to \notin k.reached \cup k.stale
      /\ Ahead(k) \cap Done(k) = {}
      /\ Cardinality(k.due \ (Done(k) \cup Ahead(k))) <= Cardinality(k.left)
  BY CastParts DEF CastOK
<1>2. l = [k EXCEPT !.due = @ \ S, !.left = @ \cup out]
  <2>1. k # Idle
    BY <1>1, IdleIsCast
  <2> QED BY <2>1 DEF Without
<1>3. out \subseteq Dashboards
  BY ListedIs
<1>4. /\ l.at = k.at /\ l.to = k.to /\ l.reached = k.reached /\ l.stale = k.stale
      /\ l.due = k.due \ S /\ l.left = k.left \cup out
  BY <1>1, <1>2 DEF Casts
<1>5. l \in Casts
  <2>1. k.due \ S \in SUBSET Dashboards /\ k.left \cup out \in SUBSET Dashboards
    BY <1>1, <1>3
  <2> HIDE DEF out
  <2> QED BY <1>1, <1>2, <2>1 DEF Casts
<1>6. /\ dashboards \in Seq(Dashboards) /\ OnlyOnce(dashboards) /\ Len(dashboards) \in Nat
      /\ r \in Seq(Dashboards) /\ OnlyOnce(r) /\ Len(r) \in Nat
      /\ \A j \in 1..Len(r) : \E i \in 1..Len(dashboards) :
           j <= i /\ r[j] = dashboards[i] /\ dashboards[i] \notin S
      /\ \A i \in 1..Len(dashboards) : dashboards[i] \notin S =>
           \E j \in 1..Len(r) : j <= i /\ r[j] = dashboards[i]
  BY RemovedEffect, LenProperties DEF BoardsOK
<1>7. \A d : d \in Listed' <=> d \in Listed \ S
  <2>1. Listed' = {r[j] : j \in 1..Len(r)}
    BY <1>6, SizeOfList DEF Listed
  <2> HIDE DEF r
  <2>2. ASSUME NEW d \in Listed'
        PROVE  d \in Listed \ S
    <3>1. PICK j \in 1..Len(r) : d = r[j]
      BY <2>1
    <3>2. PICK i \in 1..Len(dashboards) : r[j] = dashboards[i] /\ dashboards[i] \notin S
      BY <1>6
    <3> QED BY <3>1, <3>2, ListedIs
  <2>3. ASSUME NEW d \in Listed \ S
        PROVE  d \in Listed'
    <3>1. PICK i \in 1..Len(dashboards) : d = dashboards[i]
      BY ListedIs
    <3>2. PICK j \in 1..Len(r) : r[j] = dashboards[i]
      BY <1>6, <3>1
    <3> QED BY <2>1, <3>1, <3>2
  <2> QED BY <2>2, <2>3
<1>8. \A d : d \in Ahead(l)' <=> \E j \in 1..Len(r) : j > k.at /\ d = r[j]
  <2>1. Ahead(l)' = {r[j] : j \in (k.at + 1)..Len(r)}
    BY <1>4 DEF Ahead
  <2>2. \A j : j \in (k.at + 1)..Len(r) <=> j \in 1..Len(r) /\ j > k.at
    BY <1>1, <1>6
  <2> QED BY <2>1, <2>2
<1>9. ASSUME NEW d \in Ahead(l)'
      PROVE  d \in Ahead(k)
  <2>1. PICK j \in 1..Len(r) : j > k.at /\ d = r[j]
    BY <1>8
  <2>2. PICK i \in 1..Len(dashboards) : j <= i /\ r[j] = dashboards[i]
    BY <1>6
  <2>3. i > k.at
    BY <1>1, <1>6, <2>1, <2>2
  <2> QED BY <1>1, <2>1, <2>2, <2>3, AheadOf
<1>10. Done(l) = Done(k)
  BY <1>4 DEF Done
<1> DEFINE P == k.due \ (Done(k) \cup Ahead(k))
           Q == {d \in l.due : d \notin Done(k) /\ ~ \E j \in 1..Len(r) : j > k.at /\ d = r[j]}
           N == Q \ P
<1>11. IsFiniteSet(N) /\ IsFiniteSet(out) /\ Cardinality(N) <= Cardinality(out)
  <2>1. ASSUME NEW d \in N
        PROVE  /\ \E i \in 1..Len(dashboards) : i > k.at /\ d = dashboards[i]
               /\ \E j \in 1..Len(r) : j <= k.at /\ d = r[j]
    <3>1. d \in k.due /\ d \in Ahead(k) /\ d \notin S
      BY <1>4
    <3>2. PICK i \in 1..Len(dashboards) : i > k.at /\ d = dashboards[i]
      BY <1>1, <3>1, AheadOf
    <3>3. PICK j \in 1..Len(r) : r[j] = d
      BY <1>6, <3>1, <3>2
    <3>4. j <= k.at
      BY <1>1, <1>6, <3>3
    <3> QED BY <3>2, <3>3, <3>4
  <2> HIDE DEF N
  <2> QED BY <1>1, <2>1, MovedUp
<1>12. IsFiniteSet(P) /\ IsFiniteSet(Q) /\ Q \in SUBSET (P \cup N)
  <2>1. P \in SUBSET Listed /\ Q \in SUBSET Listed
    BY <1>1, <1>4
  <2> QED BY <2>1, ListedIs, FS_Subset
<1> HIDE DEF P, Q, N
<1>13. Cardinality(Q) <= Cardinality(l.left) /\ IsFiniteSet(l.left)
  <2>1. IsFiniteSet(P \cup N) /\ Cardinality(P \cup N) = Cardinality(P) + Cardinality(N) - Cardinality(P \cap N)
    BY <1>11, <1>12, FS_Union
  <2>2. Cardinality(Q) <= Cardinality(P \cup N)
    BY <1>12, <2>1, FS_Subset
  <2>3. /\ IsFiniteSet(k.left \cup out)
        /\ Cardinality(k.left \cup out) = Cardinality(k.left) + Cardinality(out) - Cardinality(k.left \cap out)
    BY <1>1, <1>11, FS_Union
  <2>4. Cardinality(k.left \cap out) = 0
    <3>1. k.left \cap out = {}
      BY <1>1
    <3> QED BY <3>1, FS_EmptySet
  <2>5. Cardinality(P \cap N) \in Nat
    <3>1. IsFiniteSet(P \cap N)
      BY <1>12, FS_Intersection
    <3> QED BY <3>1, FS_CardinalityType
  <2>6. /\ Cardinality(P) \in Nat /\ Cardinality(N) \in Nat /\ Cardinality(Q) \in Nat
        /\ Cardinality(out) \in Nat /\ Cardinality(k.left) \in Nat /\ Cardinality(P \cup N) \in Nat
    BY <1>1, <1>11, <1>12, <2>1, FS_CardinalityType
  <2>7. Cardinality(P) <= Cardinality(k.left)
    BY <1>1 DEF P
  <2> HIDE DEF out
  <2>8. Cardinality(Q) <= Cardinality(k.left \cup out)
    BY <1>11, <2>1, <2>2, <2>3, <2>4, <2>5, <2>6, <2>7
  <2> QED BY <1>4, <2>3, <2>8
<1>14. Q = l.due \ (Done(l) \cup Ahead(l)')
  BY <1>8, <1>10 DEF Q
<1>15. Done(l) \cup l.due \cup l.left \subseteq Known'
  <2>1. out \subseteq Known
    BY DEF BoardsOK
  <2> QED BY <1>1, <1>4, <1>10, <2>1
<1>16. l.due \subseteq Listed' /\ l.left \cap Listed' = {}
  BY <1>1, <1>4, <1>7
<1>17. Ahead(l)' \cap Done(l) = {} /\ l.to \notin l.reached \cup l.stale /\ l.at >= 1
  BY <1>1, <1>4, <1>9, <1>10
<1>18. Done(l)' = Done(l)
  BY DEF Done
<1> QED BY <1>5, <1>13, <1>14, <1>15, <1>16, <1>17, <1>18 DEF CastOK

-----------------------------------------------------------------------------
(***************************************************************************)
(* Each step keeps the broadcasts and the list.                            *)
(***************************************************************************)
\* Nothing happens to the list, and dashboards at most get known.
LEMMA SameBoard ==
  ASSUME BoardsOK, dashboards' = dashboards, Known \subseteq Known',
         dpc' \in [Dashboards -> {"new", "receive", "sending", "ack", "ended"}]
  PROVE  BoardsOK' /\ \A k : CastOK(k) => CastOK(k)'
<1>1. Listed' = Listed /\ \A k : Ahead(k)' = Ahead(k) /\ Done(k)' = Done(k)
  BY DEF Listed, Ahead, Done
<1>2. BoardsOK'
  BY <1>1 DEF BoardsOK
<1>3. ASSUME NEW k, CastOK(k)
      PROVE  CastOK(k)'
  BY <1>1, <1>3 DEF CastOK
<1> QED BY <1>2, <1>3

\* The broadcasts, one by one.
LEMMA CastsNext ==
  ASSUME cast' \in [Conns -> Casts],
         \A c \in Conns : \A k : k = cast'[c] =>
           \/ pc'[c] = "cast" /\ CastOK(k)'
           \/ pc'[c] # "cast" /\ k = Idle
  PROVE  CastsOK'
<1>1. ASSUME NEW c \in Conns
      PROVE  (\/ pc[c] = "cast" /\ CastOK(cast[c])
              \/ pc[c] # "cast" /\ cast[c] = Idle)'
  <2>1. PICK k : k = cast'[c]
    OBVIOUS
  <2>2. CASE pc'[c] = "cast" /\ CastOK(k)'
    <3>1. (CastOK(cast[c]))'
      BY <2>1, <2>2 DEF CastOK, Done, Ahead
    <3> QED BY <2>2, <3>1
  <2>3. CASE pc'[c] # "cast" /\ k = Idle
    BY <2>1, <2>3 DEF Idle
  <2> QED BY <2>1, <2>2, <2>3
<1> QED BY <1>1 DEF CastsOK

LEMMA CastsStay ==
  ASSUME BoardsOK, CastsOK, dashboards' = dashboards, cast' = cast, Known \subseteq Known',
         dpc' \in [Dashboards -> {"new", "receive", "sending", "ack", "ended"}],
         \A c \in Conns : pc'[c] = "cast" <=> pc[c] = "cast"
  PROVE  BoardsOK' /\ CastsOK'
<1>1. BoardsOK' /\ \A k : CastOK(k) => CastOK(k)'
  BY SameBoard
<1>2. ASSUME NEW c \in Conns, NEW k, k = cast'[c]
      PROVE  \/ pc'[c] = "cast" /\ CastOK(k)'
             \/ pc'[c] # "cast" /\ k = Idle
  <2>2. CASE pc[c] = "cast"
    <3>1. CastOK(k)
      BY <1>2, <2>2 DEF CastsOK
    <3>2. CastOK(k)'
      BY <1>1, <3>1
    <3> QED BY <2>2, <3>2
  <2>3. CASE pc[c] # "cast"
    BY <1>2, <2>3 DEF CastsOK
  <2> QED BY <2>2, <2>3
<1>3. cast' \in [Conns -> Casts]
  BY DEF CastsOK
<1> QED BY <1>1, <1>2, <1>3, CastsNext

\* A handler begins a broadcast, or has no dashboard to send to.
LEMMA BeginStep ==
  ASSUME BoardsOK, CastsOK, pc \in [Conns -> Places], NEW c \in Conns, pc[c] = "receive",
         NEW bye \in BOOLEAN, Begin(c, bye), UNCHANGED <<dashboards, dpc>>
  PROVE  /\ BoardsOK' /\ CastsOK'
         /\ pc' \in [Conns -> Places] /\ pc'[c] \in {"receive", "cast", "ended"}
         /\ pc'[c] = "ended" \/ cast'[c].bye => bye
         /\ \A x \in Conns : x # c => pc'[x] = pc[x] /\ cast'[x] = cast[x]
<1>1. BoardsOK' /\ \A k : CastOK(k) => CastOK(k)'
  <2>1. Known' = Known /\ dpc' \in [Dashboards -> {"new", "receive", "sending", "ack", "ended"}]
    BY DEF Known, BoardsOK
  <2> QED BY <2>1, SameBoard
<1>2. cast \in [Conns -> Casts] /\ cast[c] = Idle
  BY DEF CastsOK
<1>3. ASSUME NEW x \in Conns, NEW k, k = cast[x]
      PROVE  \/ pc[x] = "cast" /\ CastOK(k)'
             \/ pc[x] # "cast" /\ k = Idle
  BY <1>1, <1>3 DEF CastsOK
<1>4. CASE dashboards = <<>>
  <2>1. pc' = [pc EXCEPT ![c] = AfterCast(bye)] /\ cast' = cast
    BY <1>4 DEF Begin
  <2>2. AfterCast(bye) \in {"receive", "ended"} /\ (AfterCast(bye) = "ended" => bye)
    BY DEF AfterCast
  <2>3. \A x \in Conns : pc'[x] = "cast" <=> pc[x] = "cast"
    BY <2>1, <2>2
  <2>4. CastsOK'
    BY <1>2, <1>3, <2>1, <2>3, CastsNext
  <2>5. cast'[c].bye = FALSE
    BY <1>2, <2>1, IdleIsCast
  <2>6. pc' \in [Conns -> Places]
    BY <2>1, <2>2 DEF Places
  <2> QED BY <1>1, <2>1, <2>2, <2>4, <2>5, <2>6
<1>5. CASE dashboards # <<>>
  <2>1. PICK l : l = [Idle EXCEPT !.at = 1, !.to = Head(dashboards), !.due = Listed, !.bye = bye]
    OBVIOUS
  <2>2. pc' = [pc EXCEPT ![c] = "cast"] /\ cast' = [cast EXCEPT ![c] = l]
    BY <1>5, <2>1 DEF Begin
  <2>3. CastOK(l)
    BY <1>5, <2>1, BeginsOK
  <2>4. l \in Casts /\ l.bye = bye
    <3>1. l \in Casts
      BY <2>3 DEF CastOK
    <3> QED BY <2>1, <3>1 DEF Idle
  <2>5. CastOK(l)'
    BY <1>1, <2>3
  <2>6. cast' \in [Conns -> Casts]
    BY <1>2, <2>2, <2>4
  <2>7. ASSUME NEW x \in Conns, NEW k, k = cast'[x]
        PROVE  \/ pc'[x] = "cast" /\ CastOK(k)'
               \/ pc'[x] # "cast" /\ k = Idle
    <3>1. CASE x = c
      <4>1. k = l /\ pc'[x] = "cast"
        BY <1>2, <2>2, <2>7, <3>1
      <4> QED BY <2>5, <4>1
    <3>2. CASE x # c
      <4>1. k = cast[x] /\ pc'[x] = pc[x]
        BY <1>2, <2>2, <2>7, <3>2
      <4> QED BY <1>3, <4>1
    <3> QED BY <3>1, <3>2
  <2>8. CastsOK'
    BY <2>6, <2>7, CastsNext
  <2>9. pc' \in [Conns -> Places]
    BY <2>2 DEF Places
  <2>10. cast'[c] = l /\ pc'[c] = "cast"
    BY <1>2, <2>2
  <2> QED BY <1>1, <1>2, <2>2, <2>4, <2>8, <2>9, <2>10
<1> QED BY <1>4, <1>5

\* The list after a removal.
LEMMA ShorterList ==
  ASSUME BoardsOK, NEW S, dashboards' = Removed(S), Known' = Known,
         dpc' \in [Dashboards -> {"new", "receive", "sending", "ack", "ended"}]
  PROVE  BoardsOK'
<1>1. /\ Removed(S) \in Seq(Dashboards) /\ OnlyOnce(Removed(S))
      /\ \A k \in 1..Len(Removed(S)) : \E i \in 1..Len(dashboards) :
           k <= i /\ Removed(S)[k] = dashboards[i] /\ dashboards[i] \notin S
  BY RemovedEffect DEF BoardsOK
<1>2. Listed' = {Removed(S)[j] : j \in 1..Len(Removed(S))}
  BY <1>1, SizeOfList DEF Listed
<1>3. Listed' \subseteq Listed
  BY <1>1, <1>2, ListedIs
<1> QED BY <1>1, <1>3 DEF BoardsOK

\* A dashboard is appended that no broadcast knows of.
LEMMA AppendStep ==
  ASSUME BoardsOK, CastsOK, NEW d \in Dashboards, dpc[d] = "new",
         dashboards' = Append(dashboards, d), dpc' = [dpc EXCEPT ![d] = "receive"],
         UNCHANGED <<pc, cast>>
  PROVE  BoardsOK' /\ CastsOK'
<1>1. /\ dashboards \in Seq(Dashboards) /\ OnlyOnce(dashboards) /\ Len(dashboards) \in Nat
      /\ dashboards' \in Seq(Dashboards) /\ Len(dashboards') = Len(dashboards) + 1
      /\ \A i \in 1..Len(dashboards) : dashboards'[i] = dashboards[i]
      /\ dashboards'[Len(dashboards) + 1] = d
  BY DEF BoardsOK
<1>2. d \notin Known /\ d \notin Listed /\ \A i \in 1..Len(dashboards) : dashboards[i] # d
  BY ListedIs DEF BoardsOK, Known
<1>3. Known' = Known \cup {d}
  BY DEF Known, BoardsOK
<1>4. Listed' = Listed \cup {d}
  <2>1. Listed' = {dashboards'[i] : i \in 1..Len(dashboards')}
    <3>1. DOMAIN dashboards' = 1..Len(dashboards')
      BY <1>1, LenProperties
    <3> QED BY <3>1 DEF Listed, ToSet
  <2>2. Listed = {dashboards[i] : i \in 1..Len(dashboards)}
    BY <1>1, SizeOfList DEF Listed
  <2>3. 1..Len(dashboards') = 1..Len(dashboards) \cup {Len(dashboards) + 1}
    BY <1>1
  <2> QED BY <1>1, <2>1, <2>2, <2>3
<1>5. OnlyOnce(dashboards')
  <2> SUFFICES ASSUME NEW i \in 1..Len(dashboards'), NEW j \in 1..Len(dashboards'),
                      dashboards'[i] = dashboards'[j]
               PROVE  i = j
    BY DEF OnlyOnce
  <2>1. /\ i \in 1..Len(dashboards) \/ i = Len(dashboards) + 1
        /\ j \in 1..Len(dashboards) \/ j = Len(dashboards) + 1
    BY <1>1
  <2> QED BY <1>1, <1>2, <2>1 DEF OnlyOnce
<1>6. BoardsOK'
  <2>1. OnlyOnce(dashboards)'
    BY <1>5 DEF OnlyOnce
  <2>2. dpc' \in [Dashboards -> {"new", "receive", "sending", "ack", "ended"}]
    BY DEF BoardsOK
  <2>3. Listed' \subseteq Known'
    BY <1>3, <1>4 DEF BoardsOK
  <2> QED BY <1>1, <2>1, <2>2, <2>3 DEF BoardsOK
<1>7. ASSUME NEW k, CastOK(k)
      PROVE  CastOK(k)'
  <2>1. /\ k \in Casts /\ k.at \in Nat /\ IsFiniteSet(k.left)
        /\ Done(k) \cup k.due \cup k.left \subseteq Known
        /\ k.due \subseteq Listed /\ k.left \cap Listed = {}
        /\ Ahead(k) \cap Done(k) = {}
        /\ Cardinality(k.due \ (Done(k) \cup Ahead(k))) <= Cardinality(k.left)
    BY <1>7, CastParts DEF CastOK
  <2>2. ASSUME k.at <= Len(dashboards)
        PROVE  Ahead(k)' = Ahead(k) \cup {d}
    <3> DEFINE more == (k.at + 1)..Len(dashboards')
               old == (k.at + 1)..Len(dashboards)
    <3>1. Ahead(k)' = {dashboards'[i] : i \in more} /\ Ahead(k) = {dashboards[i] : i \in old}
      BY DEF Ahead
    <3>2. more = old \cup {Len(dashboards) + 1}
      BY <1>1, <2>1, <2>2
    <3>3. \A i \in old : dashboards'[i] = dashboards[i]
      BY <1>1, <2>1
    <3> HIDE DEF more, old
    <3>4. {dashboards'[i] : i \in more} = {dashboards[i] : i \in old} \cup {dashboards'[Len(dashboards) + 1]}
      BY <3>2, <3>3
    <3> QED BY <1>1, <3>1, <3>4
  <2>3. k.at > Len(dashboards) => Ahead(k)' = {} /\ Ahead(k) = {}
    <3>1. k.at > Len(dashboards) =>
            (k.at + 1)..Len(dashboards') = {} /\ (k.at + 1)..Len(dashboards) = {}
      BY <1>1, <2>1
    <3> QED BY <3>1 DEF Ahead
  <2>4. Ahead(k)' \ {d} = Ahead(k) \ {d} /\ Ahead(k)' \subseteq Ahead(k) \cup {d}
    <3>1. k.at <= Len(dashboards) \/ k.at > Len(dashboards)
      BY <1>1, <2>1
    <3> QED BY <2>2, <2>3, <3>1
  <2>5. Done(k)' = Done(k) /\ d \notin Done(k) /\ d \notin k.due /\ d \notin k.left
    BY <1>2, <2>1 DEF Done
  <2>6. k.due \ (Done(k) \cup Ahead(k))' = k.due \ (Done(k) \cup Ahead(k))
    BY <2>4, <2>5
  <2>7. Done(k)' \cup k.due \cup k.left \subseteq Known'
    BY <1>3, <2>1, <2>5
  <2>8. k.due \subseteq Listed' /\ k.left \cap Listed' = {} /\ Ahead(k)' \cap Done(k)' = {}
    BY <1>4, <2>1, <2>4, <2>5
  <2>9. k.at >= 1 /\ k.to \notin k.reached \cup k.stale
    BY <1>7 DEF CastOK
  <2>10. Cardinality(k.due \ (Done(k) \cup Ahead(k))') <= Cardinality(k.left)
    BY <2>1, <2>6
  <2> QED BY <2>1, <2>7, <2>8, <2>9, <2>10 DEF CastOK
<1>8. ASSUME NEW x \in Conns, NEW k, k = cast'[x]
      PROVE  \/ pc'[x] = "cast" /\ CastOK(k)'
             \/ pc'[x] # "cast" /\ k = Idle
  BY <1>7, <1>8 DEF CastsOK
<1>9. cast' \in [Conns -> Casts]
  BY DEF CastsOK
<1> QED BY <1>6, <1>8, <1>9, CastsNext

\* The broadcasts, when the dashboards S leave the list.
LEMMA ShorterCast ==
  ASSUME BoardsOK, CastsOK, NEW S, dashboards' = Removed(S), Known' = Known,
         NEW x \in Conns, NEW l, l = Without(cast[x], S)
  PROVE  /\ l \in Casts /\ l.bye = cast[x].bye
         /\ \/ pc[x] = "cast" /\ CastOK(l)'
            \/ pc[x] # "cast" /\ l = Idle
<1>1. PICK k : k = cast[x]
  OBVIOUS
<1>2. l = Without(k, S)
  BY <1>1
<1>3. CASE pc[x] = "cast"
  <2>1. CastOK(k)
    BY <1>1, <1>3 DEF CastsOK
  <2>2. CastOK(l)'
    BY <1>2, <2>1, ShorterOK
  <2>3. l \in Casts
    BY <2>2 DEF CastOK
  <2>4. l.bye = k.bye
    <3>1. k \in Casts
      BY <2>1 DEF CastOK
    <3> QED BY <1>2, <3>1 DEF Without, Casts
  <2> QED BY <1>1, <1>2, <1>3, <2>2, <2>3, <2>4
<1>4. CASE pc[x] # "cast"
  <2>1. k = Idle
    BY <1>1, <1>4 DEF CastsOK
  <2>2. l = Idle
    BY <1>2, <2>1 DEF Without
  <2> QED BY <1>1, <1>2, <1>4, <2>1, <2>2, IdleIsCast
<1> QED BY <1>3, <1>4

LEMMA DashboardGoneStep ==
  ASSUME BoardsOK, CastsOK, NEW d \in Dashboards, DashboardGone(d)
  PROVE  BoardsOK' /\ CastsOK' /\ \A x \in Conns : pc'[x] = pc[x] /\ cast'[x].bye = cast[x].bye
<1>1. /\ dpc[d] # "new" /\ dpc' = [dpc EXCEPT ![d] = "ended"]
      /\ dashboards' = Removed({d}) /\ pc' = pc
      /\ cast' = [c \in Conns |-> Without(cast[c], {d})]
  BY DEF DashboardGone
<1>2. Known' = Known /\ dpc' \in [Dashboards -> {"new", "receive", "sending", "ack", "ended"}]
  BY <1>1 DEF Known, BoardsOK
<1>3. BoardsOK'
  BY <1>1, <1>2, ShorterList
<1>4. ASSUME NEW x \in Conns
      PROVE  /\ cast'[x] \in Casts /\ cast'[x].bye = cast[x].bye
             /\ \A l : l = cast'[x] => \/ pc'[x] = "cast" /\ CastOK(l)'
                                       \/ pc'[x] # "cast" /\ l = Idle
  <2>1. PICK l : l = Without(cast[x], {d})
    OBVIOUS
  <2>2. cast'[x] = l
    BY <1>1, <2>1
  <2>3. /\ l \in Casts /\ l.bye = cast[x].bye
        /\ \/ pc[x] = "cast" /\ CastOK(l)'
           \/ pc[x] # "cast" /\ l = Idle
    <3>1. PICK S : S = {d}
      OBVIOUS
    <3>2. dashboards' = Removed(S) /\ l = Without(cast[x], S)
      BY <1>1, <2>1, <3>1
    <3> QED BY <1>2, <3>2, ShorterCast
  <2> QED BY <1>1, <2>2, <2>3
<1>5. cast' \in [Conns -> Casts]
  BY <1>1, <1>4
<1> QED BY <1>1, <1>3, <1>4, <1>5, CastsNext

LEMMA SentStep ==
  ASSUME BoardsOK, CastsOK, pc \in [Conns -> Places], NEW c \in Conns, Sent(c)
  PROVE  /\ BoardsOK' /\ CastsOK'
         /\ pc[c] = "cast" /\ pc' \in [Conns -> Places] /\ pc'[c] \in {"receive", "cast", "ended"}
         /\ pc'[c] = "ended" \/ cast'[c].bye => cast[c].bye
         /\ \A x \in Conns : x # c => pc'[x] = pc[x] /\ cast'[x].bye = cast[x].bye
<1>1. PICK k : k = cast[c]
  OBVIOUS
<1>2. PICK ok \in BOOLEAN :
        LET r == IF ok THEN [cast[c] EXCEPT !.reached = @ \cup {cast[c].to}]
                       ELSE [cast[c] EXCEPT !.stale = @ \cup {cast[c].to}]
        IN IF cast[c].at < Len(dashboards)
           THEN /\ cast' = [cast EXCEPT ![c] = [r EXCEPT !.at = @ + 1, !.to = dashboards[cast[c].at + 1]]]
                /\ UNCHANGED <<pc, dashboards>>
           ELSE /\ cast' = [x \in Conns |-> IF x = c THEN Idle ELSE Without(cast[x], r.stale)]
                /\ dashboards' = Removed(r.stale)
                /\ pc' = [pc EXCEPT ![c] = AfterCast(cast[c].bye)]
  BY Zenon DEF Sent
<1>3. PICK r : r = IF ok THEN [k EXCEPT !.reached = @ \cup {k.to}]
                         ELSE [k EXCEPT !.stale = @ \cup {k.to}]
  OBVIOUS
<1>4. pc[c] = "cast" /\ dpc' = dpc
  BY DEF Sent
<1>5. CastOK(k) /\ cast \in [Conns -> Casts]
  BY <1>1, <1>4 DEF CastsOK
<1>6. Known' = Known /\ dpc' \in [Dashboards -> {"new", "receive", "sending", "ack", "ended"}]
  BY <1>4 DEF Known, BoardsOK
<1>7. CASE k.at < Len(dashboards)
  <2>1. PICK l : l = [r EXCEPT !.at = @ + 1, !.to = dashboards[k.at + 1]]
    OBVIOUS
  <2>2. cast' = [cast EXCEPT ![c] = l] /\ pc' = pc /\ dashboards' = dashboards
    BY <1>1, <1>2, <1>3, <1>7, <2>1
  <2>3. CastOK(l)
    BY <1>3, <1>5, <1>7, <2>1, GoesOnOK
  <2>4. l \in Casts /\ l.bye = k.bye
    <3>1. l \in Casts /\ k \in Casts
      BY <1>5, <2>3 DEF CastOK
    <3> QED BY <1>3, <2>1, <3>1 DEF Casts
  <2>5. BoardsOK' /\ \A j : CastOK(j) => CastOK(j)'
    BY <1>6, <2>2, SameBoard
  <2>6. cast' \in [Conns -> Casts] /\ cast'[c] = l
    BY <1>5, <2>2, <2>4
  <2>7. ASSUME NEW x \in Conns, NEW j, j = cast'[x]
        PROVE  \/ pc'[x] = "cast" /\ CastOK(j)'
               \/ pc'[x] # "cast" /\ j = Idle
    <3>1. CASE x = c
      BY <1>4, <2>2, <2>3, <2>5, <2>6, <2>7, <3>1
    <3>2. CASE x # c
      <4>1. j = cast[x] /\ pc'[x] = pc[x]
        BY <1>5, <2>2, <2>7, <3>2
      <4> QED BY <2>5, <4>1 DEF CastsOK
    <3> QED BY <3>1, <3>2
  <2>8. CastsOK'
    BY <2>6, <2>7, CastsNext
  <2>9. \A x \in Conns : x # c => cast'[x] = cast[x]
    BY <1>5, <2>2
  <2>10. pc'[c] = "cast" /\ (cast'[c].bye => cast[c].bye)
    BY <1>1, <1>4, <2>2, <2>4, <2>6
  <2> QED BY <1>4, <2>2, <2>5, <2>8, <2>9, <2>10
<1>8. CASE ~ k.at < Len(dashboards)
  <2>1. PICK S : S = r.stale
    OBVIOUS
  <2>2. /\ cast' = [x \in Conns |-> IF x = c THEN Idle ELSE Without(cast[x], S)]
        /\ dashboards' = Removed(S) /\ pc' = [pc EXCEPT ![c] = AfterCast(k.bye)]
    BY <1>1, <1>2, <1>3, <1>8, <2>1
  <2>3. BoardsOK'
    BY <1>6, <2>2, ShorterList
  <2>4. AfterCast(k.bye) \in {"receive", "ended"} /\ (AfterCast(k.bye) = "ended" => k.bye)
    BY DEF AfterCast
  <2>5. pc' \in [Conns -> Places] /\ pc'[c] = AfterCast(k.bye) /\ cast'[c] = Idle
    BY <2>2, <2>4 DEF Places
  <2>6. ASSUME NEW x \in Conns, x # c
        PROVE  /\ pc'[x] = pc[x] /\ cast'[x] \in Casts /\ cast'[x].bye = cast[x].bye
               /\ \A l : l = cast'[x] => \/ pc'[x] = "cast" /\ CastOK(l)'
                                         \/ pc'[x] # "cast" /\ l = Idle
    <3>1. PICK l : l = Without(cast[x], S)
      OBVIOUS
    <3>2. cast'[x] = l /\ pc'[x] = pc[x]
      BY <2>2, <2>6, <3>1
    <3>3. /\ l \in Casts /\ l.bye = cast[x].bye
          /\ \/ pc[x] = "cast" /\ CastOK(l)'
             \/ pc[x] # "cast" /\ l = Idle
      BY <1>6, <2>2, <3>1, ShorterCast
    <3> QED BY <3>2, <3>3
  <2>7. cast' \in [Conns -> Casts]
    <3>1. \A x \in Conns : cast'[x] \in Casts
      BY <2>5, <2>6, IdleIsCast
    <3> QED BY <2>2, <3>1
  <2>8. CastsOK'
    <3>1. pc'[c] # "cast"
      BY <2>4, <2>5
    <3> QED BY <2>5, <2>6, <2>7, <3>1, CastsNext
  <2>9. pc'[c] = "ended" \/ cast'[c].bye => cast[c].bye
    BY <1>1, <2>4, <2>5, IdleIsCast
  <2> QED BY <1>4, <2>3, <2>4, <2>5, <2>6, <2>8, <2>9
<1> QED BY <1>7, <1>8

-----------------------------------------------------------------------------
(***************************************************************************)
(* The newest connection of an endpoint.                                   *)
(***************************************************************************)
LEMMA LeastNumber ==
  ASSUME NEW T \in SUBSET Nat, T # {}
  PROVE  \E m \in T : \A k \in T : ~ (k < m)
<1> DEFINE R == {p \in Nat \X Nat : p[1] < p[2]}
<1>1. IsWellFoundedOn(R, Nat)
  BY NatLessThanWellFounded DEF OpToRel
<1>2. PICK m \in T : \A k \in T : ~ (<<k, m>> \in R)
  <2> HIDE DEF R
  <2> QED BY <1>1, WFMin
<1> QED BY <1>2

LEMMA GreatestIndex ==
  ASSUME NEW n \in Nat, NEW I \in SUBSET (1..n), I # {}
  PROVE  Max(I) \in I /\ Max(I) \in 1..n /\ \A j \in I : j <= Max(I)
<1> DEFINE T == {n - i : i \in I}
<1>1. T \in SUBSET Nat /\ T # {}
  <2>1. \A i \in 1..n : n - i \in Nat
    OBVIOUS
  <2> QED BY <2>1
<1>2. PICK m \in T : \A k \in T : ~ (k < m)
  <2> HIDE DEF T
  <2> QED BY <1>1, LeastNumber
<1>3. PICK i \in I : m = n - i
  OBVIOUS
<1>4. \A j \in I : i >= j
  <2> SUFFICES ASSUME NEW j \in I
               PROVE  i >= j
    OBVIOUS
  <2>1. ~ (n - j < n - i)
    BY <1>2, <1>3
  <2>2. i \in 1..n /\ j \in 1..n
    OBVIOUS
  <2> QED BY <2>1, <2>2
<1>5. Max(I) \in I /\ \A j \in I : Max(I) >= j
  BY <1>4 DEF Max
<1>6. \A j \in I : j \in 1..n
  OBVIOUS
<1> HIDE DEF T
<1> QED BY <1>5, <1>6

\* The entry of the list s that the function o maps to e and no later one.
Indices(s, o, e) == {i \in 1..Len(s) : o[s[i]] = e}
LastOf(s, o, e) == IF Indices(s, o, e) = {} THEN None ELSE s[Max(Indices(s, o, e))]

LEMMA NewestIsLast ==
  ASSUME accepted \in Seq(Conns), accepted' \in Seq(Conns), NEW e
  PROVE  Newest(e) = LastOf(accepted, owner, e) /\ Newest(e)' = LastOf(accepted', owner', e)
<1>1. ASSUME NEW s \in Seq(Conns), NEW o, Indices(s, o, e) # {}
      PROVE  Max(Indices(s, o, e)) # 0
  <2>1. Indices(s, o, e) \in SUBSET (1..Len(s)) /\ Len(s) \in Nat
    BY LenProperties DEF Indices
  <2>2. Max(Indices(s, o, e)) \in 1..Len(s)
    BY <1>1, <2>1, GreatestIndex
  <2> QED BY <2>1, <2>2
<1>2. Newest(e) = LastOf(accepted, owner, e)
  BY <1>1 DEF Newest, SelectLastInSeq, LastOf, Indices
<1>3. Newest(e)' = LastOf(accepted', owner', e)
  BY <1>1 DEF Newest, SelectLastInSeq, LastOf, Indices
<1> QED BY <1>2, <1>3

-----------------------------------------------------------------------------
(***************************************************************************)
(* Each step keeps the connections and the registry.                       *)
(***************************************************************************)
\* Handlers go on or end, and endpoints are at most taken off the registry.
LEMMA HandlersMove ==
  ASSUME LinksOK, RegistryIsNewest, UNCHANGED <<owner, accepted>>,
         registry' \in [Endpoints -> Conns \cup {None}],
         \A e \in Endpoints : registry'[e] \in {None, registry[e]},
         pc' \in [Conns -> Places],
         \A x \in Conns : \/ pc'[x] = pc[x]
                          \/ pc[x] # "new" /\ pc'[x] \in {"receive", "cast", "ended"}
  PROVE  LinksOK' /\ RegistryIsNewest'
<1>1. Opened' = Opened /\ OnlyOnce(accepted)' = OnlyOnce(accepted)
  BY DEF Opened, OnlyOnce
<1>2. \A e \in Endpoints : Newest(e)' = Newest(e)
  BY NewestIsLast DEF LinksOK
<1>3. RegistryIsNewest'
  BY <1>2 DEF RegistryIsNewest
<1>4. \A x \in Conns : pc'[x] # "new" => pc[x] # "new"
  OBVIOUS
<1>5. \A i \in 1..Len(accepted) : accepted[i] \in Conns
  BY ElementOfSeq DEF LinksOK
<1>6. \A i \in 1..Len(accepted) : pc'[accepted[i]] \in {"receive", "cast", "ended"}
  BY <1>5 DEF LinksOK
<1>7. \A e \in Endpoints : registry'[e] # None =>
        owner[registry'[e]] = e /\ \E i \in 1..Len(accepted) : registry'[e] = accepted[i]
  BY DEF LinksOK
<1>8. LinksOK'
  <2>1. /\ owner' \in [Conns -> Endpoints \cup {NoOne}] /\ accepted' \in Seq(Conns) /\ OnlyOnce(accepted)'
        /\ Opened' = 1..Cardinality(Opened)'
    BY <1>1 DEF LinksOK
  <2>2. \A x \in Conns : pc'[x] # "new" => owner'[x] \in Endpoints
    BY <1>4 DEF LinksOK
  <2> QED BY <1>6, <1>7, <2>1, <2>2 DEF LinksOK
<1> QED BY <1>3, <1>8

LEMMA OpenStep ==
  ASSUME LinksOK, RegistryIsNewest, NEW c \in Conns, NEW e \in Endpoints, Open(c, e)
  PROVE  /\ LinksOK' /\ RegistryIsNewest' /\ pc[c] = "new"
         /\ pc'[c] = "accepting" /\ \A x \in Conns : x # c => pc'[x] = pc[x]
<1>1. /\ owner' = [owner EXCEPT ![c] = e] /\ pc' = [pc EXCEPT ![c] = "accepting"]
      /\ UNCHANGED <<accepted, registry>> /\ c = Cardinality(Opened) + 1
  BY DEF Open
<1>2. PICK n : n = Cardinality(Opened)
  OBVIOUS
<1>3. n \in Nat /\ Opened = 1..n /\ c = n + 1
  <2>1. Opened \subseteq Conns /\ IsFiniteSet(Conns)
    <3>1. MaxConns \in Int /\ 1 \in Int
      BY BoundsAssumption
    <3> QED BY <3>1, FS_Interval DEF Opened, Conns
  <2>2. IsFiniteSet(Opened)
    BY <2>1, FS_Subset
  <2> QED BY <1>1, <1>2, <2>2, FS_CardinalityType DEF LinksOK
<1>4. pc[c] = "new"
  <2>1. c \notin Opened
    BY <1>3
  <2> QED BY <2>1 DEF Opened
<1>5. \A i \in 1..Len(accepted) : accepted[i] \in Conns /\ accepted[i] # c
  BY <1>4, ElementOfSeq DEF LinksOK
<1>6. owner' \in [Conns -> Endpoints \cup {NoOne}] /\ pc' \in [Conns -> Places]
  BY <1>1 DEF LinksOK, Places
<1>7. \A x \in Conns : x # c => pc'[x] = pc[x] /\ owner'[x] = owner[x]
  BY <1>1 DEF LinksOK
<1>8. pc'[c] = "accepting" /\ owner'[c] = e
  BY <1>1 DEF LinksOK
<1>9. Opened' = 1..Cardinality(Opened)'
  <2>1. Opened' = Opened \cup {c}
    BY <1>7, <1>8 DEF Opened
  <2>2. Opened' = 1..(n + 1)
    BY <1>3, <2>1
  <2>3. Cardinality(1..(n + 1)) = n + 1
    <3>1. 1 \in Int /\ n + 1 \in Int /\ ~ (1 > n + 1) /\ (n + 1) - 1 + 1 = n + 1
      BY <1>3
    <3> QED BY <3>1, FS_Interval
  <2> QED BY <2>2, <2>3
<1>10. ASSUME NEW f \in Endpoints
       PROVE  Newest(f)' = Newest(f)
  <2>1. Indices(accepted', owner', f) = Indices(accepted, owner, f)
    BY <1>1, <1>5, <1>7 DEF Indices
  <2>2. LastOf(accepted', owner', f) = LastOf(accepted, owner, f)
    BY <1>1, <2>1 DEF LastOf
  <2> QED BY <1>1, <2>2, NewestIsLast DEF LinksOK
<1>11. RegistryIsNewest'
  BY <1>1, <1>10 DEF RegistryIsNewest
<1>12. \A f \in Endpoints : registry'[f] # None =>
         owner'[registry'[f]] = f /\ \E i \in 1..Len(accepted) : registry'[f] = accepted[i]
  BY <1>1, <1>5, <1>7 DEF LinksOK
<1>13. \A i \in 1..Len(accepted) : pc'[accepted[i]] \in {"receive", "cast", "ended"}
  BY <1>5, <1>7 DEF LinksOK
<1>14. \A x \in Conns : pc'[x] # "new" => owner'[x] \in Endpoints
  BY <1>7, <1>8 DEF LinksOK
<1>15. accepted' \in Seq(Conns) /\ OnlyOnce(accepted)' /\ registry' \in [Endpoints -> Conns \cup {None}]
  BY <1>1 DEF LinksOK, OnlyOnce
<1>16. LinksOK'
  BY <1>1, <1>6, <1>9, <1>12, <1>13, <1>14, <1>15 DEF LinksOK
<1> QED BY <1>4, <1>7, <1>8, <1>11, <1>16

LEMMA AcceptStep ==
  ASSUME LinksOK, RegistryIsNewest, NEW c \in Conns, Accept(c)
  PROVE  /\ LinksOK' /\ RegistryIsNewest' /\ pc[c] = "accepting" /\ owner[c] \in Endpoints
         /\ pc'[c] = "receive" /\ \A x \in Conns : x # c => pc'[x] = pc[x]
<1>1. /\ pc[c] = "accepting" /\ accepted' = Append(accepted, c)
      /\ registry' = [registry EXCEPT ![owner[c]] = c]
      /\ pc' = [pc EXCEPT ![c] = "receive"] /\ owner' = owner
  BY DEF Accept
<1>2. owner[c] \in Endpoints
  BY <1>1 DEF LinksOK
<1>3. /\ accepted \in Seq(Conns) /\ OnlyOnce(accepted) /\ Len(accepted) \in Nat
      /\ accepted' \in Seq(Conns) /\ Len(accepted') = Len(accepted) + 1
      /\ \A i \in 1..Len(accepted) : accepted'[i] = accepted[i]
      /\ accepted'[Len(accepted) + 1] = c
  BY <1>1 DEF LinksOK
<1>4. \A i \in 1..Len(accepted) : accepted[i] \in Conns /\ accepted[i] # c
  BY <1>1, ElementOfSeq DEF LinksOK
<1>5. \A i \in 1..Len(accepted') : i \in 1..Len(accepted) \/ i = Len(accepted) + 1
  BY <1>3
<1>6. pc' \in [Conns -> Places] /\ pc'[c] = "receive" /\ \A x \in Conns : x # c => pc'[x] = pc[x]
  BY <1>1 DEF LinksOK, Places
<1>7. /\ registry' \in [Endpoints -> Conns \cup {None}] /\ registry'[owner[c]] = c
      /\ \A e \in Endpoints : e # owner[c] => registry'[e] = registry[e]
  BY <1>1, <1>2 DEF LinksOK
<1>8. Opened' = Opened
  BY <1>1, <1>6 DEF Opened
<1>9. OnlyOnce(accepted)'
  <2> SUFFICES ASSUME NEW i \in 1..Len(accepted'), NEW j \in 1..Len(accepted'),
                      accepted'[i] = accepted'[j]
               PROVE  i = j
    BY DEF OnlyOnce
  <2> QED BY <1>3, <1>4, <1>5 DEF OnlyOnce
<1>10. ASSUME NEW e \in Endpoints
       PROVE  registry'[e] \in {None, Newest(e)'}
  <2> DEFINE I == Indices(accepted, owner, e)
             J == Indices(accepted', owner', e)
             n == Len(accepted) + 1
  <2>0. I \in SUBSET (1..Len(accepted)) /\ J \in SUBSET (1..n) /\ n \in Nat /\ 1..n = 1..Len(accepted')
    BY <1>3 DEF Indices
  <2>1. Newest(e) = LastOf(accepted, owner, e) /\ Newest(e)' = LastOf(accepted', owner', e)
    BY <1>3, NewestIsLast
  <2>2. CASE e = owner[c]
    <3>1. n \in J
      BY <1>1, <1>3, <2>0, <2>2 DEF Indices
    <3> HIDE DEF J
    <3>2. Max(J) \in 1..n /\ n <= Max(J)
      BY <2>0, <3>1, GreatestIndex
    <3>3. Max(J) = n
      BY <2>0, <3>2
    <3>4. LastOf(accepted', owner', e) = accepted'[Max(J)]
      BY <3>1 DEF LastOf, J
    <3> HIDE DEF n
    <3>5. accepted'[n] = c
      BY <1>3 DEF n
    <3> QED BY <1>7, <2>1, <2>2, <3>3, <3>4, <3>5
  <2>3. CASE e # owner[c]
    <3>1. I = J
      BY <1>1, <1>3, <1>5, <2>3 DEF Indices
    <3>2. I # {} => Max(I) \in 1..Len(accepted)
      <4> HIDE DEF I
      <4> QED BY <1>3, <2>0, GreatestIndex
    <3>3. LastOf(accepted', owner', e) = LastOf(accepted, owner, e)
      BY <1>3, <3>1, <3>2 DEF LastOf
    <3> QED BY <1>7, <2>1, <2>3, <3>3 DEF RegistryIsNewest
  <2> QED BY <2>2, <2>3
<1>11. RegistryIsNewest'
  BY <1>10 DEF RegistryIsNewest
<1>12. ASSUME NEW e \in Endpoints, registry'[e] # None
       PROVE  owner[registry'[e]] = e /\ \E i \in 1..Len(accepted') : registry'[e] = accepted'[i]
  <2>1. CASE e = owner[c]
    <3>1. Len(accepted) + 1 \in 1..Len(accepted')
      BY <1>3
    <3> QED BY <1>3, <1>7, <2>1, <3>1
  <2>2. CASE e # owner[c]
    <3>1. owner[registry[e]] = e
      BY <1>7, <1>12, <2>2 DEF LinksOK
    <3>2. PICK i \in 1..Len(accepted) : registry[e] = accepted[i]
      BY <1>7, <1>12, <2>2 DEF LinksOK
    <3>3. i \in 1..Len(accepted')
      BY <1>3
    <3> QED BY <1>3, <1>7, <2>2, <3>1, <3>2, <3>3
  <2> QED BY <2>1, <2>2
<1>13. ASSUME NEW i \in 1..Len(accepted')
       PROVE  pc'[accepted'[i]] \in {"receive", "cast", "ended"}
  <2>1. CASE i \in 1..Len(accepted)
    <3>1. pc[accepted[i]] \in {"receive", "cast", "ended"}
      BY <2>1 DEF LinksOK
    <3> QED BY <1>3, <1>4, <1>6, <2>1, <3>1
  <2>2. CASE i = Len(accepted) + 1
    BY <1>3, <1>6, <2>2
  <2> QED BY <1>5, <2>1, <2>2
<1>14. \A x \in Conns : pc'[x] # "new" => owner[x] \in Endpoints
  BY <1>2, <1>6 DEF LinksOK
<1>15. owner' \in [Conns -> Endpoints \cup {NoOne}] /\ Opened' = 1..Cardinality(Opened)'
  BY <1>1, <1>8 DEF LinksOK
<1>16. LinksOK'
  BY <1>1, <1>3, <1>6, <1>7, <1>9, <1>12, <1>13, <1>14, <1>15 DEF LinksOK
<1> QED BY <1>1, <1>2, <1>6, <1>11, <1>16

LEMMA LeftBehindKept ==
  ASSUME LinksOK, LeftBehindByCrash, crashed \subseteq crashed',
         \A e \in Endpoints : registry'[e] \in {None, registry[e]},
         \A x \in Conns : pc'[x] = "ended" \/ cast'[x].bye =>
           \/ pc[x] = "ended" \/ cast[x].bye \/ x \in crashed'
           \/ \A e \in Endpoints : registry'[e] # x
  PROVE  LeftBehindByCrash'
<1>1. ASSUME NEW e \in Endpoints, registry'[e] # None,
             pc'[registry'[e]] = "ended" \/ cast'[registry'[e]].bye
      PROVE  registry'[e] \in crashed'
  <2>1. registry'[e] = registry[e] /\ registry[e] \in Conns
    BY <1>1 DEF LinksOK
  <2>2. pc[registry[e]] = "ended" \/ cast[registry[e]].bye \/ registry[e] \in crashed'
    BY <1>1, <2>1
  <2>3. pc[registry[e]] = "ended" \/ cast[registry[e]].bye => registry[e] \in crashed
    BY <1>1, <2>1 DEF LeftBehindByCrash
  <2> QED BY <2>1, <2>2, <2>3
<1> QED BY <1>1 DEF LeftBehindByCrash

-----------------------------------------------------------------------------
(***************************************************************************)
(* The invariant of the gateway, action by action.                         *)
(***************************************************************************)
Gateway == LinksOK /\ BoardsOK /\ CastsOK /\ RegistryIsNewest /\ LeftBehindByCrash

\* Steps that leave handlers, broadcasts, registry and list alone.
LEMMA QuietKeeps ==
  ASSUME Gateway, UNCHANGED <<owner, accepted, registry, crashed, pc, cast, dashboards>>,
         dpc' \in [Dashboards -> {"new", "receive", "sending", "ack", "ended"}],
         \A d \in Dashboards : dpc'[d] = "new" => dpc[d] = "new"
  PROVE  Gateway'
<1>1. Known \subseteq Known'
  BY DEF Known
<1>2. BoardsOK' /\ CastsOK'
  BY <1>1, CastsStay DEF Gateway
<1>3. LinksOK' /\ RegistryIsNewest'
  BY HandlersMove DEF Gateway, LinksOK
<1>4. LeftBehindByCrash'
  BY LeftBehindKept DEF Gateway
<1> QED BY <1>2, <1>3, <1>4 DEF Gateway

\* A connection that no broadcast is under way on.
LEMMA NoBye ==
  ASSUME CastsOK, NEW c \in Conns, pc[c] # "cast"
  PROVE  cast[c] = Idle /\ cast[c].bye = FALSE
BY IdleIsCast DEF CastsOK

LEMMA OpenKeeps ==
  ASSUME Gateway, NEW c \in Conns, NEW e \in Endpoints, Open(c, e)
  PROVE  Gateway'
<1>1. /\ LinksOK' /\ RegistryIsNewest' /\ pc[c] = "new"
      /\ pc'[c] = "accepting" /\ \A x \in Conns : x # c => pc'[x] = pc[x]
  BY OpenStep DEF Gateway
<1>2. UNCHANGED <<accepted, registry, crashed, cast, dashboards, dpc>>
  BY DEF Open, boards
<1>3. BoardsOK' /\ CastsOK'
  <2>1. Known' = Known /\ dpc' \in [Dashboards -> {"new", "receive", "sending", "ack", "ended"}]
    BY <1>2 DEF Known, Gateway, BoardsOK
  <2>2. \A x \in Conns : pc'[x] = "cast" <=> pc[x] = "cast"
    BY <1>1
  <2> QED BY <1>2, <2>1, <2>2, CastsStay DEF Gateway
<1>4. LeftBehindByCrash'
  BY <1>1, <1>2, LeftBehindKept DEF Gateway
<1> QED BY <1>1, <1>3, <1>4 DEF Gateway

LEMMA AcceptKeeps ==
  ASSUME Gateway, NEW c \in Conns, Accept(c)
  PROVE  Gateway'
<1>1. /\ LinksOK' /\ RegistryIsNewest' /\ pc[c] = "accepting" /\ owner[c] \in Endpoints
      /\ pc'[c] = "receive" /\ \A x \in Conns : x # c => pc'[x] = pc[x]
  BY AcceptStep DEF Gateway
<1>2. UNCHANGED <<crashed, cast, dashboards, dpc>> /\ registry' = [registry EXCEPT ![owner[c]] = c]
  BY DEF Accept, boards
<1>3. BoardsOK' /\ CastsOK'
  <2>1. Known' = Known /\ dpc' \in [Dashboards -> {"new", "receive", "sending", "ack", "ended"}]
    BY <1>2 DEF Known, Gateway, BoardsOK
  <2>2. \A x \in Conns : pc'[x] = "cast" <=> pc[x] = "cast"
    BY <1>1
  <2> QED BY <1>2, <2>1, <2>2, CastsStay DEF Gateway
<1>4. ASSUME NEW e \in Endpoints, registry'[e] # None,
             pc'[registry'[e]] = "ended" \/ cast'[registry'[e]].bye
      PROVE  registry'[e] \in crashed'
  <2>1. CASE registry'[e] = c
    <3>1. cast[c].bye = FALSE
      BY <1>1, NoBye DEF Gateway
    <3> QED BY <1>1, <1>2, <1>4, <2>1, <3>1
  <2>2. CASE registry'[e] # c
    <3>1. registry'[e] = registry[e] /\ registry[e] \in Conns
      BY <1>2, <1>4, <2>2 DEF Gateway, LinksOK
    <3>2. pc'[registry[e]] = pc[registry[e]]
      BY <1>1, <2>2, <3>1
    <3> QED BY <1>2, <1>4, <3>1, <3>2 DEF Gateway, LeftBehindByCrash
  <2> QED BY <2>1, <2>2
<1>5. LeftBehindByCrash'
  BY <1>4 DEF LeftBehindByCrash
<1> QED BY <1>1, <1>3, <1>5 DEF Gateway

\* The handler of c goes on from its loop or from its broadcast, or ends, and
\* takes its endpoint off the registry if this is the end or leads to it.
LEMMA HandlerKeeps ==
  ASSUME Gateway, NEW c \in Conns, pc[c] \notin {"new"}, UNCHANGED <<owner, accepted>>,
         BoardsOK', CastsOK', crashed \subseteq crashed',
         pc' \in [Conns -> Places], pc'[c] \in {"receive", "cast", "ended"},
         \A x \in Conns : x # c => pc'[x] = pc[x] /\ cast'[x].bye = cast[x].bye,
         \/ registry' = registry
         \/ registry' = [registry EXCEPT ![owner[c]] = None],
         pc'[c] = "ended" \/ cast'[c].bye =>
           \/ cast[c].bye \/ c \in crashed'
           \/ registry' = [registry EXCEPT ![owner[c]] = None]
           \/ pc[c] = "accepting"
  PROVE  Gateway'
<1>1. LinksOK /\ RegistryIsNewest /\ LeftBehindByCrash
  BY DEF Gateway
<1>2. /\ registry \in [Endpoints -> Conns \cup {None}] /\ owner[c] \in Endpoints
      /\ \A e \in Endpoints : registry[e] # None => owner[registry[e]] = e
      /\ \A e \in Endpoints : registry[e] # None => pc[registry[e]] \in {"receive", "cast", "ended"}
  BY <1>1 DEF LinksOK
<1>3. /\ registry' \in [Endpoints -> Conns \cup {None}]
      /\ \A e \in Endpoints : registry'[e] \in {None, registry[e]}
  BY <1>2
<1>4. LinksOK' /\ RegistryIsNewest'
  <2>1. \A x \in Conns : \/ pc'[x] = pc[x]
                         \/ pc[x] # "new" /\ pc'[x] \in {"receive", "cast", "ended"}
    OBVIOUS
  <2> QED BY <1>1, <1>3, <2>1, HandlersMove
<1>5. pc[c] = "accepting" => \A e \in Endpoints : registry[e] # c
  BY <1>2, NumbersOfHub
<1>6. registry' = [registry EXCEPT ![owner[c]] = None] => \A e \in Endpoints : registry'[e] # c
  <2> SUFFICES ASSUME registry' = [registry EXCEPT ![owner[c]] = None], NEW e \in Endpoints
               PROVE  registry'[e] # c
    OBVIOUS
  <2>1. c # None
    BY NumbersOfHub
  <2>2. CASE e = owner[c]
    BY <1>2, <2>1, <2>2
  <2>3. CASE e # owner[c]
    BY <1>2, <2>1, <2>3
  <2> QED BY <2>2, <2>3
<1>7. \A x \in Conns : pc'[x] = "ended" \/ cast'[x].bye =>
        \/ pc[x] = "ended" \/ cast[x].bye \/ x \in crashed'
        \/ \A e \in Endpoints : registry'[e] # x
  <2>1. \A e \in Endpoints : registry'[e] = c => registry[e] = c
    BY <1>3, NumbersOfHub
  <2>2. pc'[c] = "ended" \/ cast'[c].bye =>
          cast[c].bye \/ c \in crashed' \/ \A e \in Endpoints : registry'[e] # c
    BY <1>5, <1>6, <2>1
  <2> QED BY <2>2
<1>8. LeftBehindByCrash'
  BY <1>1, <1>3, <1>7, LeftBehindKept
<1> QED BY <1>4, <1>8 DEF Gateway

LEMMA HandlerStepKeeps ==
  ASSUME Gateway, NEW c \in Conns, Handler(c)
  PROVE  Gateway'
<1>0. LinksOK /\ BoardsOK /\ CastsOK /\ pc \in [Conns -> Places]
  BY DEF Gateway, LinksOK
<1>1. CASE Accept(c)
  BY <1>1, AcceptKeeps
<1>2. CASE AcceptFails(c)
  <2>1. /\ pc[c] = "accepting" /\ pc' = [pc EXCEPT ![c] = "ended"]
        /\ UNCHANGED <<owner, accepted, registry, crashed, cast, dashboards, dpc>>
    BY <1>2 DEF AcceptFails, links, boards
  <2>2. pc' \in [Conns -> Places] /\ pc'[c] = "ended" /\ \A x \in Conns : x # c => pc'[x] = pc[x]
    BY <1>0, <2>1 DEF Places
  <2>3. BoardsOK' /\ CastsOK'
    <3>1. Known' = Known /\ dpc' \in [Dashboards -> {"new", "receive", "sending", "ack", "ended"}]
      BY <1>0, <2>1 DEF Known, BoardsOK
    <3>2. \A x \in Conns : pc'[x] = "cast" <=> pc[x] = "cast"
      BY <2>1, <2>2
    <3> QED BY <1>0, <2>1, <3>1, <3>2, CastsStay
  <2> QED BY <2>1, <2>2, <2>3, HandlerKeeps
<1>3. CASE Sent(c)
  <2>1. UNCHANGED <<owner, accepted, registry, crashed>>
    BY <1>3 DEF Sent, links
  <2>2. /\ BoardsOK' /\ CastsOK'
        /\ pc[c] = "cast" /\ pc' \in [Conns -> Places] /\ pc'[c] \in {"receive", "cast", "ended"}
        /\ pc'[c] = "ended" \/ cast'[c].bye => cast[c].bye
        /\ \A x \in Conns : x # c => pc'[x] = pc[x] /\ cast'[x].bye = cast[x].bye
    BY <1>0, <1>3, SentStep
  <2> QED BY <2>1, <2>2, HandlerKeeps
<1>4. CASE Disconnect(c)
  <2>1. /\ pc[c] = "receive" /\ registry' = [registry EXCEPT ![owner[c]] = None] /\ Begin(c, TRUE)
        /\ UNCHANGED <<owner, accepted, crashed, dashboards, dpc>>
    BY <1>4 DEF Disconnect, boards
  <2>2. /\ BoardsOK' /\ CastsOK'
        /\ pc' \in [Conns -> Places] /\ pc'[c] \in {"receive", "cast", "ended"}
        /\ \A x \in Conns : x # c => pc'[x] = pc[x] /\ cast'[x] = cast[x]
    BY <1>0, <2>1, BeginStep
  <2> QED BY <2>1, <2>2, HandlerKeeps
<1>5. CASE Enrollment(c) \/ Alert(c)
  <2>1. /\ pc[c] = "receive" /\ Begin(c, FALSE)
        /\ UNCHANGED <<owner, accepted, registry, crashed, dashboards, dpc>>
    BY <1>5 DEF Enrollment, Alert, Message, boards, links
  <2>2. /\ BoardsOK' /\ CastsOK'
        /\ pc' \in [Conns -> Places] /\ pc'[c] \in {"receive", "cast", "ended"}
        /\ ~ (pc'[c] = "ended" \/ cast'[c].bye)
        /\ \A x \in Conns : x # c => pc'[x] = pc[x] /\ cast'[x] = cast[x]
    BY <1>0, <2>1, BeginStep
  <2> QED BY <2>1, <2>2, HandlerKeeps
<1>6. CASE Heartbeat(c) \/ Pong(c)
  <2>1. UNCHANGED <<owner, accepted, registry, crashed, pc, cast, dashboards, dpc>>
    BY <1>6 DEF Heartbeat, Pong, Message, links, agents, boards
  <2>2. dpc' \in [Dashboards -> {"new", "receive", "sending", "ack", "ended"}]
    BY <1>0, <2>1 DEF BoardsOK
  <2> QED BY <2>1, <2>2, QuietKeeps
<1>7. CASE Bad(c)
  <2>1. /\ pc[c] = "receive" /\ pc' = [pc EXCEPT ![c] = "ended"] /\ crashed' = crashed \cup {c}
        /\ UNCHANGED <<owner, accepted, registry, cast, dashboards, dpc>>
    BY <1>7 DEF Bad, Message, boards
  <2>2. pc' \in [Conns -> Places] /\ pc'[c] = "ended" /\ \A x \in Conns : x # c => pc'[x] = pc[x]
    BY <1>0, <2>1 DEF Places
  <2>3. BoardsOK' /\ CastsOK'
    <3>1. Known' = Known /\ dpc' \in [Dashboards -> {"new", "receive", "sending", "ack", "ended"}]
      BY <1>0, <2>1 DEF Known, BoardsOK
    <3>2. \A x \in Conns : pc'[x] = "cast" <=> pc[x] = "cast"
      BY <2>1, <2>2
    <3> QED BY <1>0, <2>1, <3>1, <3>2, CastsStay
  <2> QED BY <2>1, <2>2, <2>3, HandlerKeeps
<1> QED BY <1>1, <1>2, <1>3, <1>4, <1>5, <1>6, <1>7 DEF Handler

LEMMA DashboardStepKeeps ==
  ASSUME Gateway, NEW d \in Dashboards, Dashboard(d)
  PROVE  Gateway'
<1>0. LinksOK /\ BoardsOK /\ CastsOK /\ pc \in [Conns -> Places]
      /\ dpc \in [Dashboards -> {"new", "receive", "sending", "ack", "ended"}]
  BY DEF Gateway, LinksOK, BoardsOK
<1>1. CASE ConnectDashboard(d) \/ DashboardGone(d)
  <2>1. UNCHANGED <<owner, accepted, registry, crashed, pc>>
    BY <1>1 DEF ConnectDashboard, DashboardGone, links, agents
  <2>2. BoardsOK' /\ CastsOK' /\ \A x \in Conns : pc'[x] = pc[x] /\ cast'[x].bye = cast[x].bye
    <3>1. CASE ConnectDashboard(d)
      <4>1. /\ dpc[d] = "new" /\ dashboards' = Append(dashboards, d)
            /\ dpc' = [dpc EXCEPT ![d] = "receive"] /\ UNCHANGED <<pc, cast>>
        BY <3>1 DEF ConnectDashboard, agents
      <4> QED BY <1>0, <4>1, AppendStep
    <3>2. CASE DashboardGone(d)
      BY <1>0, <3>2, DashboardGoneStep
    <3> QED BY <1>1, <3>1, <3>2
  <2>3. LinksOK' /\ RegistryIsNewest'
    BY <2>1, HandlersMove DEF Gateway, LinksOK
  <2>4. LeftBehindByCrash'
    BY <2>1, <2>2, LeftBehindKept DEF Gateway
  <2> QED BY <2>2, <2>3, <2>4 DEF Gateway
<1>2. CASE DropDashboard(d)
  BY <1>0, <1>2, QuietKeeps DEF DropDashboard, agents, boards
<1>3. CASE DashboardBad(d)
  <2>1. /\ dpc' = [dpc EXCEPT ![d] = "ended"]
        /\ UNCHANGED <<owner, accepted, registry, crashed, pc, cast, dashboards>>
    BY <1>3 DEF DashboardBad, agents
  <2> QED BY <1>0, <2>1, QuietKeeps
<1>4. CASE CommandSent(d) \/ AckSent(d)
  <2>1. /\ \E at \in {"ack", "receive"} : dpc' = [dpc EXCEPT ![d] = at]
        /\ UNCHANGED <<owner, accepted, registry, crashed, pc, cast, dashboards>>
    BY <1>4 DEF CommandSent, AckSent, agents, links
  <2> QED BY <1>0, <2>1, QuietKeeps
<1>5. CASE \E e \in Endpoints : Command(d, e)
  <2>1. /\ \E at \in {"ack", "sending"} : dpc' = [dpc EXCEPT ![d] = at]
        /\ UNCHANGED <<owner, accepted, registry, crashed, pc, cast, dashboards>>
    BY <1>5 DEF Command, agents, links
  <2> QED BY <1>0, <2>1, QuietKeeps
<1> QED BY <1>1, <1>2, <1>3, <1>4, <1>5 DEF Dashboard

LEMMA StepKeeps ==
  ASSUME Gateway, [Next]_vars
  PROVE  Gateway'
<1>0. dpc \in [Dashboards -> {"new", "receive", "sending", "ack", "ended"}]
  BY DEF Gateway, BoardsOK
<1>1. CASE AgentSide
  <2>1. PICK c \in Conns : Drop(c) \/ \E e \in Endpoints : Open(c, e)
    BY <1>1 DEF AgentSide
  <2>2. CASE Drop(c)
    BY <1>0, <2>2, QuietKeeps DEF Drop, agents, boards
  <2> QED BY <2>1, <2>2, OpenKeeps
<1>2. CASE \E c \in Conns : Handler(c)
  BY <1>2, HandlerStepKeeps
<1>3. CASE \E d \in Dashboards : Dashboard(d)
  BY <1>3, DashboardStepKeeps
<1>4. CASE Rest \/ UNCHANGED vars
  <2>1. UNCHANGED <<owner, accepted, registry, crashed, pc, cast, dashboards, dpc>>
    BY <1>4 DEF Rest, ListQuery, ListCommit, Age, Enroll, vars, links, agents, boards
  <2> QED BY <1>0, <2>1, QuietKeeps
<1> QED BY <1>1, <1>2, <1>3, <1>4 DEF Next

-----------------------------------------------------------------------------
(***************************************************************************)
(* The rows of the endpoints, the acknowledgements and the counters.       *)
(***************************************************************************)
RowStates == {"absent", "online", "offline"}

\* A step of this kind changes of these variables nothing but the WebSockets
\* that are up, the handlers that crashed and the counters.
LEMMA CountsKept ==
  ASSUME RowsOK, up' \subseteq Conns \cup Dashboards, crashed' \subseteq Conns,
         UNCHANGED <<dest, ack, status, fresh, listing>>,
         messages' \in 0..MaxMessages, commands' \in 0..MaxCommands
  PROVE  RowsOK'
BY DEF RowsOK

\* One that changes the rows.
LEMMA RowsKept ==
  ASSUME RowsOK, UNCHANGED <<up, crashed, dest, ack, commands>>, messages' \in 0..MaxMessages,
         status' \in [Endpoints -> RowStates], fresh' \in [Endpoints -> BOOLEAN],
         listing' \subseteq Endpoints
  PROVE  RowsOK'
BY DEF RowsOK, RowStates

LEMMA OneMore ==
  ASSUME RowsOK
  PROVE  /\ messages < MaxMessages => messages + 1 \in 0..MaxMessages
         /\ commands < MaxCommands => commands + 1 \in 0..MaxCommands
         /\ messages \in 0..MaxMessages /\ commands \in 0..MaxCommands
         /\ up \subseteq Conns \cup Dashboards /\ crashed \subseteq Conns
         /\ status \in [Endpoints -> RowStates] /\ fresh \in [Endpoints -> BOOLEAN]
         /\ listing \subseteq Endpoints
BY NumbersOfHub DEF RowsOK, RowStates

LEMMA OnlineRows ==
  ASSUME RowsOK, NEW e \in Endpoints, Online(e)
  PROVE  status' \in [Endpoints -> RowStates] /\ fresh' \in [Endpoints -> BOOLEAN]
<1>1. status' = [status EXCEPT ![e] = "online"] /\ fresh' = [fresh EXCEPT ![e] = TRUE]
  BY DEF Online
<1>2. status' \in [Endpoints -> RowStates]
  BY <1>1, OneMore DEF RowStates
<1>3. fresh' \in [Endpoints -> BOOLEAN]
  BY <1>1, OneMore
<1> QED BY <1>2, <1>3

LEMMA HandlerRows ==
  ASSUME RowsOK, LinksOK, NEW c \in Conns, Handler(c)
  PROVE  RowsOK'
<1>0. pc[c] = "receive" => owner[c] \in Endpoints
  BY DEF LinksOK
<1>1. CASE Accept(c) \/ AcceptFails(c) \/ Sent(c)
  <2>1. UNCHANGED <<up, crashed, dest, ack, status, fresh, listing, messages, commands>>
    BY <1>1 DEF Accept, AcceptFails, Sent, links, boards, rows
  <2> QED BY <2>1, CountsKept, OneMore
<1>2. CASE Disconnect(c)
  <2>1. /\ UNCHANGED <<up, crashed, dest, ack, fresh, listing, messages, commands>>
        /\ status' = [status EXCEPT ![owner[c]] = IF @ = "absent" THEN @ ELSE "offline"]
    BY <1>2 DEF Disconnect, boards
  <2>2. status' \in [Endpoints -> RowStates]
    BY <2>1, OneMore DEF RowStates
  <2> QED BY <2>1, <2>2, RowsKept, OneMore
<1>3. CASE Enrollment(c)
  <2>1. /\ UNCHANGED <<up, crashed, dest, ack, commands, listing>> /\ Online(owner[c])
        /\ messages < MaxMessages /\ messages' = messages + 1 /\ pc[c] = "receive"
    BY <1>3 DEF Enrollment, Message, links, boards
  <2>2. status' \in [Endpoints -> RowStates] /\ fresh' \in [Endpoints -> BOOLEAN]
    BY <1>0, <2>1, OnlineRows
  <2> QED BY <2>1, <2>2, RowsKept, OneMore
<1>4. CASE Heartbeat(c)
  <2>1. /\ UNCHANGED <<up, crashed, dest, ack, commands, listing, messages>> /\ pc[c] = "receive"
        /\ UNCHANGED <<status, fresh>> \/ Online(owner[c])
    BY <1>4 DEF Heartbeat, links, agents, boards
  <2>2. status' \in [Endpoints -> RowStates] /\ fresh' \in [Endpoints -> BOOLEAN]
    BY <1>0, <2>1, OnlineRows, OneMore
  <2> QED BY <2>1, <2>2, RowsKept, OneMore
<1>5. CASE Alert(c) \/ Pong(c)
  <2>1. /\ UNCHANGED <<up, crashed, dest, ack, status, fresh, listing, commands>>
        /\ messages < MaxMessages /\ messages' = messages + 1
    BY <1>5 DEF Alert, Pong, Message, links, boards, rows
  <2> QED BY <2>1, CountsKept, OneMore
<1>6. CASE Bad(c)
  <2>1. /\ UNCHANGED <<dest, ack, status, fresh, listing, commands>>
        /\ messages < MaxMessages /\ messages' = messages + 1
        /\ up' = up \ {c} /\ crashed' = crashed \cup {c}
    BY <1>6 DEF Bad, Message, boards, rows
  <2>2. up' \subseteq Conns \cup Dashboards /\ crashed' \subseteq Conns
    BY <2>1, OneMore
  <2> QED BY <2>1, <2>2, CountsKept, OneMore
<1> QED BY <1>1, <1>2, <1>3, <1>4, <1>5, <1>6 DEF Handler

LEMMA DashboardRows ==
  ASSUME RowsOK, LinksOK, NEW d \in Dashboards, Dashboard(d)
  PROVE  RowsOK'
<1>1. CASE ConnectDashboard(d) \/ DropDashboard(d)
  <2>1. /\ UNCHANGED <<dest, ack, status, fresh, listing, commands, crashed, messages>>
        /\ up' \subseteq up \cup {d}
    BY <1>1 DEF ConnectDashboard, DropDashboard, agents, boards, rows
  <2>2. up' \subseteq Conns \cup Dashboards
    BY <2>1, OneMore
  <2> QED BY <2>1, <2>2, CountsKept, OneMore
<1>2. CASE DashboardGone(d) \/ AckSent(d)
  <2>1. /\ UNCHANGED <<up, crashed, dest, status, fresh, listing, commands, messages>>
        /\ ack' = [ack EXCEPT ![d] = FALSE]
    BY <1>2 DEF DashboardGone, AckSent, links, agents, rows
  <2> QED BY <2>1 DEF RowsOK
<1>3. CASE DashboardBad(d)
  <2>1. /\ UNCHANGED <<dest, ack, status, fresh, listing, crashed, messages>>
        /\ commands < MaxCommands /\ commands' = commands + 1 /\ up' = up \ {d}
    BY <1>3 DEF DashboardBad, agents, rows
  <2>2. up' \subseteq Conns \cup Dashboards
    BY <2>1, OneMore
  <2> QED BY <2>1, <2>2, CountsKept, OneMore
<1>4. CASE CommandSent(d)
  <2>1. /\ UNCHANGED <<up, crashed, status, fresh, listing, commands, messages>>
        /\ \E ok \in BOOLEAN : ack' = [ack EXCEPT ![d] = ok]
        /\ dest' = [dest EXCEPT ![d] = None]
    BY <1>4 DEF CommandSent, links, agents, rows
  <2> QED BY <2>1 DEF RowsOK
<1>5. CASE \E e \in Endpoints : Command(d, e)
  <2>1. PICK e \in Endpoints : Command(d, e)
    BY <1>5
  <2>2. /\ UNCHANGED <<up, crashed, status, fresh, listing, messages>>
        /\ commands < MaxCommands /\ commands' = commands + 1
        /\ \/ ack' = [ack EXCEPT ![d] = FALSE] /\ dest' = dest
           \/ dest' = [dest EXCEPT ![d] = registry[e]] /\ ack' = ack
    BY <2>1 DEF Command, links, agents, rows
  <2>3. registry[e] \in Conns \cup {None}
    BY DEF LinksOK
  <2>4. commands' \in 0..MaxCommands
    BY <2>2, OneMore
  <2>5. dest' \in [Dashboards -> Conns \cup {None}] /\ ack' \in [Dashboards -> BOOLEAN]
    BY <2>2, <2>3 DEF RowsOK
  <2> QED BY <2>2, <2>4, <2>5 DEF RowsOK
<1> QED BY <1>1, <1>2, <1>3, <1>4, <1>5 DEF Dashboard

LEMMA RowsStep ==
  ASSUME RowsOK, LinksOK, [Next]_vars
  PROVE  RowsOK'
<1>1. CASE AgentSide
  <2>1. PICK c \in Conns : Drop(c) \/ \E e \in Endpoints : Open(c, e)
    BY <1>1 DEF AgentSide
  <2>2. /\ UNCHANGED <<dest, ack, status, fresh, listing, crashed, messages, commands>>
        /\ up' \subseteq up \cup {c}
    BY <2>1 DEF Drop, Open, agents, boards, rows
  <2>3. up' \subseteq Conns \cup Dashboards
    BY <2>2, OneMore
  <2> QED BY <2>2, <2>3, CountsKept, OneMore
<1>2. CASE \E c \in Conns : Handler(c)
  BY <1>2, HandlerRows
<1>3. CASE \E d \in Dashboards : Dashboard(d)
  BY <1>3, DashboardRows
<1>4. CASE ListQuery
  <2>1. /\ UNCHANGED <<up, crashed, dest, ack, commands, messages, status, fresh>>
        /\ listing' \subseteq Endpoints
    BY <1>4 DEF ListQuery, links, agents, boards
  <2> QED BY <2>1, RowsKept, OneMore
<1>5. CASE ListCommit
  <2>1. /\ UNCHANGED <<up, crashed, dest, ack, commands, messages, fresh>> /\ listing' = {}
        /\ status' = [e \in Endpoints |-> IF e \in listing THEN "offline" ELSE status[e]]
    BY <1>5 DEF ListCommit, links, agents, boards
  <2>2. status' \in [Endpoints -> RowStates]
    BY <2>1, OneMore DEF RowStates
  <2> QED BY <2>1, <2>2, RowsKept, OneMore
<1>6. CASE \E e \in Endpoints : Age(e)
  <2>1. /\ UNCHANGED <<up, crashed, dest, ack, commands, messages, status, listing>>
        /\ \E e \in Endpoints : fresh' = [fresh EXCEPT ![e] = FALSE]
    BY <1>6 DEF Age, links, agents, boards
  <2>2. fresh' \in [Endpoints -> BOOLEAN]
    BY <2>1, OneMore
  <2> QED BY <2>1, <2>2, RowsKept, OneMore
<1>7. CASE \E e \in Endpoints : Enroll(e)
  <2>1. PICK e \in Endpoints : Enroll(e)
    BY <1>7
  <2>2. /\ UNCHANGED <<up, crashed, dest, ack, commands, listing>> /\ Online(e)
        /\ messages < MaxMessages /\ messages' = messages + 1
    BY <2>1 DEF Enroll, links, boards
  <2>3. status' \in [Endpoints -> RowStates] /\ fresh' \in [Endpoints -> BOOLEAN]
    BY <2>2, OnlineRows
  <2> QED BY <2>2, <2>3, RowsKept, OneMore
<1>8. CASE UNCHANGED vars
  BY <1>8 DEF vars, links, agents, boards, rows, RowsOK
<1> QED BY <1>1, <1>2, <1>3, <1>4, <1>5, <1>6, <1>7, <1>8 DEF Next, Rest

-----------------------------------------------------------------------------
(***************************************************************************)
(* The theorems.                                                           *)
(***************************************************************************)
LEMMA InitInv == Init => Inv
<1> SUFFICES ASSUME Init
             PROVE  Inv
  OBVIOUS
<1>1. RowsOK
  BY NumbersOfHub DEF Init, RowsOK
<1>2. Opened = {} /\ Listed = {} /\ Len(accepted) = 0
  BY DEF Init, Opened, Listed, ToSet
<1>3. LinksOK
  <2>1. Opened = 1..Cardinality(Opened)
    BY <1>2, FS_EmptySet
  <2> QED BY <1>2, <2>1 DEF Init, LinksOK, Places, OnlyOnce
<1>4. BoardsOK
  BY <1>2 DEF Init, BoardsOK, OnlyOnce
<1>5. CastsOK
  BY IdleIsCast DEF Init, CastsOK
<1>6. RegistryIsNewest /\ LeftBehindByCrash
  BY DEF Init, RegistryIsNewest, LeftBehindByCrash
<1> QED BY <1>1, <1>3, <1>4, <1>5, <1>6 DEF Inv

LEMMA NextInv == Inv /\ [Next]_vars => Inv'
<1> SUFFICES ASSUME Inv, [Next]_vars
             PROVE  Inv'
  OBVIOUS
<1>1. RowsOK'
  BY RowsStep DEF Inv
<1>2. Gateway'
  BY StepKeeps DEF Inv, Gateway
<1> QED BY <1>1, <1>2 DEF Inv, Gateway

(***************************************************************************)
(* The inductive invariant.                                                *)
(***************************************************************************)
THEOREM InvHolds == Spec => []Inv
BY InitInv, NextInv, PTL DEF Spec

(***************************************************************************)
(* The variables of the gateway have their types, a connection is accepted *)
(* and a dashboard listed once, and a handler is in a broadcast if and     *)
(* only if it is at its send().                                            *)
(***************************************************************************)
THEOREM TypeCorrect == Spec => []TypeOK
<1>1. Inv => TypeOK
  <2> SUFFICES ASSUME Inv
               PROVE  TypeOK
    OBVIOUS
  <2>1. Cardinality(ToSet(accepted)) = Len(accepted) /\ Cardinality(Listed) = Len(dashboards)
    BY SizeOfList DEF Inv, LinksOK, BoardsOK, Listed
  <2>2. \A c \in Conns : pc[c] = "cast" <=> cast[c] # Idle
    <3>1. \A k : CastOK(k) => k.at >= 1
      BY DEF CastOK
    <3>2. Idle.at = 0 /\ ~ 0 >= 1
      BY IdleIsCast
    <3>3. \A k : CastOK(k) => k # Idle
      BY <3>1, <3>2
    <3> QED BY <3>3 DEF Inv, CastsOK
  <2> QED BY <2>1, <2>2 DEF Inv, RowsOK, LinksOK, BoardsOK, CastsOK, Places, TypeOK
<1> QED BY <1>1, InvHolds, PTL

(***************************************************************************)
(* What is registered for an endpoint is its newest connection or nothing. *)
(***************************************************************************)
THEOREM RegistryHoldsNewest == Spec => []RegistryIsNewest
<1>1. Inv => RegistryIsNewest
  BY DEF Inv
<1> QED BY <1>1, InvHolds, PTL

(***************************************************************************)
(* Only a handler that ended in an exception leaves its connection in the  *)
(* registry.                                                               *)
(***************************************************************************)
THEOREM OnlyCrashesLeaveBehind == Spec => []LeftBehindByCrash
<1>1. Inv => LeftBehindByCrash
  BY DEF Inv
<1> QED BY <1>1, InvHolds, PTL

(***************************************************************************)
(* A broadcast is sent to no dashboard a second time, whatever joins and   *)
(* leaves the list it iterates over by index.                              *)
(***************************************************************************)
THEOREM NoneIsSentTwice == Spec => []NoSecondPush
<1>1. Inv => NoSecondPush
  BY DEF Inv, CastsOK, CastOK, NoSecondPush
<1> QED BY <1>1, InvHolds, PTL

(***************************************************************************)
(* A broadcast passes over at most as many dashboards as have left the     *)
(* list while it was under way.                                            *)
(***************************************************************************)
THEOREM SkipsAreCounted == Spec => []SkipsAreRemovals
<1>1. Inv => SkipsAreRemovals
  <2> SUFFICES ASSUME Inv, NEW c \in Conns, pc[c] = "cast"
               PROVE  Cardinality(Skipped(c)) <= Cardinality(cast[c].left)
    BY DEF SkipsAreRemovals
  <2>1. PICK k : k = cast[c]
    OBVIOUS
  <2>2. CastOK(k)
    BY <2>1 DEF Inv, CastsOK
  <2>3. Skipped(c) = k.due \ (Done(k) \cup Ahead(k))
    BY <2>1 DEF Skipped, Done, Ahead
  <2> QED BY <2>1, <2>2, <2>3 DEF CastOK
<1> QED BY <1>1, InvHolds, PTL

(***************************************************************************)
(* A broadcast during which no dashboard has left the list ends only when  *)
(* every dashboard that was in the list has been sent to.                  *)
(***************************************************************************)
UndisturbedReachesAll ==
  \A c \in Conns :
    pc[c] = "cast" /\ pc'[c] # "cast" /\ cast[c].left = {} =>
      cast[c].due \subseteq cast[c].reached \cup cast[c].stale \cup {cast[c].to}

THEOREM UndisturbedCastsComplete == Spec => [][UndisturbedReachesAll]_vars
<1>1. ASSUME Inv, [Next]_vars
      PROVE  UndisturbedReachesAll
  <2> SUFFICES ASSUME NEW c \in Conns, pc[c] = "cast", pc'[c] # "cast", cast[c].left = {}
               PROVE  cast[c].due \subseteq cast[c].reached \cup cast[c].stale \cup {cast[c].to}
    BY DEF UndisturbedReachesAll
  <2>1. Sent(c)
    <3>0. pc \in [Conns -> Places]
      BY <1>1 DEF Inv, LinksOK
    <3>1. CASE AgentSide
      <4>1. PICK x \in Conns : Drop(x) \/ \E e \in Endpoints : Open(x, e)
        BY <3>1 DEF AgentSide
      <4>2. CASE Drop(x)
        BY <4>2 DEF Drop, agents
      <4>3. CASE \E e \in Endpoints : Open(x, e)
        BY <1>1, <4>3, OpenStep DEF Inv
      <4> QED BY <4>1, <4>2, <4>3
    <3>2. CASE \E x \in Conns : Handler(x)
      <4>1. PICK x \in Conns : Handler(x)
        BY <3>2
      <4>2. CASE Sent(x)
        <5>1. x = c
          BY <1>1, <3>0, <4>2, SentStep DEF Inv
        <5> QED BY <4>2, <5>1
      <4>3. CASE Enrollment(x) \/ Alert(x) \/ Disconnect(x)
        <5>1. pc[x] = "receive" /\ \E bye \in BOOLEAN : Begin(x, bye)
          BY <4>3 DEF Enrollment, Alert, Disconnect, Message
        <5> QED BY <3>0, <5>1 DEF Begin
      <4>4. CASE Accept(x) \/ AcceptFails(x) \/ Bad(x)
        <5>1. pc[x] # "cast" /\ \E at \in Places : pc' = [pc EXCEPT ![x] = at]
          BY <4>4 DEF Accept, AcceptFails, Bad, Message, Places
        <5> QED BY <3>0, <5>1
      <4>5. CASE Heartbeat(x) \/ Pong(x)
        BY <4>5 DEF Heartbeat, Pong, Message, agents
      <4> QED BY <4>1, <4>2, <4>3, <4>4, <4>5 DEF Handler
    <3>3. CASE \E d \in Dashboards : Dashboard(d)
      BY <3>3 DEF Dashboard, ConnectDashboard, DropDashboard, DashboardGone, DashboardBad,
                  CommandSent, AckSent, Command, agents
    <3>4. CASE Rest \/ UNCHANGED vars
      BY <3>4 DEF Rest, ListQuery, ListCommit, Age, Enroll, vars, agents
    <3> QED BY <1>1, <3>1, <3>2, <3>3, <3>4 DEF Next
  <2>2. PICK k : k = cast[c]
    OBVIOUS
  <2>3. CastOK(k) /\ k.left = {} /\ k.due \subseteq Dashboards
    <3>1. CastOK(k)
      BY <1>1, <2>2 DEF Inv, CastsOK
    <3> QED BY <2>2, <3>1, CastParts DEF CastOK
  <2>4. ~ k.at < Len(dashboards)
    BY <2>1, <2>2 DEF Sent
  <2>5. Ahead(k) = {}
    <3>1. k.at \in Nat /\ Len(dashboards) \in Nat
      BY <1>1, <2>3, CastParts, ListedIs DEF CastOK, Inv
    <3>2. (k.at + 1)..Len(dashboards) = {}
      BY <2>4, <3>1
    <3> QED BY <3>2 DEF Ahead
  <2>6. k.due \ Done(k) = {}
    <3> DEFINE missed == k.due \ Done(k)
    <3>1. IsFiniteSet(missed)
      <4>1. missed \in SUBSET Listed /\ IsFiniteSet(Listed)
        BY <1>1, <2>3, ListedIs DEF CastOK, Inv
      <4> QED BY <4>1, FS_Subset
    <3>2. Cardinality(missed) <= 0
      <4>1. missed = k.due \ (Done(k) \cup Ahead(k)) /\ Cardinality(k.left) = 0
        BY <2>3, <2>5, FS_EmptySet
      <4> QED BY <2>3, <4>1 DEF CastOK
    <3> HIDE DEF missed
    <3>3. Cardinality(missed) \in Nat
      BY <3>1, FS_CardinalityType
    <3>4. missed = {}
      BY <3>1, <3>2, <3>3, FS_EmptySet
    <3> QED BY <3>4 DEF missed
  <2> QED BY <2>2, <2>6 DEF Done
<1> QED BY <1>1, InvHolds, PTL DEF Spec
=============================================================================
