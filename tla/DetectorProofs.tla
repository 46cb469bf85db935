--------------------------- MODULE DetectorProofs ---------------------------
(***************************************************************************)
(* Proofs about Detector, for every set of pids, ports and files, every    *)
(* offset, threshold and window, and every bound: the type invariant and   *)
(* the three safety invariants of the run Detector; and, for the offsets   *)
(* that keep the rules apart, that every match is reported.                *)
(***************************************************************************)
EXTENDS Detector, FiniteSetTheorems, TLAPS

(***************************************************************************)
(* The parts of the inductive invariant.                                   *)
(***************************************************************************)
\* The part of TypeOK that is about the host and the clock.
HostOK ==
  /\ role \in [Pids -> Roles] /\ ppid \in [Pids -> Pids \cup {Init1}]
  /\ peers \in [Pids -> SUBSET Ports]
  /\ \A p \in Pids : role[p] = "none" => peers[p] = {} /\ p \notin {ppid[q] : q \in Pids}
  /\ present \subseteq Files /\ version \in [Files -> 0..MaxChanges]
  /\ now \in Times /\ changes \in 0..MaxChanges

\* The part that is about the collector.
SnapshotOK ==
  /\ todo \subseteq Pids /\ at \in Times \cup {None} /\ (at = None => todo = {} /\ procs = Nothing)
  /\ procs \in [Pids -> [role : Roles, ppid : Pids \cup {Init1}]]

\* The part that is about the rules R1 to R3.
RulesOK ==
  /\ marked \subseteq Keys(Rules \X Pids)
  /\ history \in [Pids -> SUBSET (Times \X Ports)]
  /\ raised \in [Rules \X Pids -> Nat] /\ matched \subseteq Rules \X Pids
  /\ touched \subseteq Times \X Pids \X Ports

\* The part that is about the canary files.
CanaryOK ==
  /\ hashes \in [Files -> {None} \cup 0..MaxChanges]
  /\ modEvents \subseteq Times \X Files /\ Cardinality({e[2] : e \in modEvents}) < CanaryThreshold
  /\ dirty \subseteq everRead /\ everRead \subseteq Files /\ noticed \in [Files -> Times \cup {None}]

\* A file is written at most once in a change.
VersionsAreChanges == \A f \in Files : version[f] <= changes

\* A key is in the set of alerted pids when one rule has raised an alert on
\* one pid with it, and what a rule has ever applied to has its key there.
Alerts == {x \in Rules \X Pids : raised[x] > 0}
KeysAreTaken ==
  /\ \A x \in Alerts : raised[x] = 1 /\ x \in matched
  /\ \A x, y \in Alerts : Key(x[1], x[2]) = Key(y[1], y[2]) => x = y
  /\ marked = Keys(Alerts)
  /\ Keys(matched) \subseteq marked

\* Time only grows, so no snapshot is older than what was shown before.
LogIsPast ==
  /\ at # None => at <= now
  /\ \A e \in touched : e[1] <= now /\ (at # None => e[1] <= at)

\* The history of a pid is what was shown of it, less what a later snapshot
\* with a connection of that pid has found too old.
HistoryIsLog ==
  \A p \in Pids :
    /\ \A h \in history[p] : <<h[1], p, h[2]>> \in touched
    /\ \A u \in Times, x \in Ports : <<u, p, x>> \in touched =>
         \/ <<u, x>> \in history[p]
         \/ \E v \in Times, y \in Ports : <<v, p, y>> \in touched /\ v - u > ScanWindow

\* A file that was read is dirty when its hash is that of an older version.
DirtyIsOutdated ==
  \A f \in Files : /\ f \in everRead <=> hashes[f] # None
                   /\ hashes[f] <= version[f]
                   /\ f \in dirty <=> hashes[f] \notin {None, version[f]}

\* A recent notice is an event that is still counted.
NoticesCount ==
  \A f \in Files : noticed[f] # None =>
    /\ noticed[f] <= now
    /\ now - noticed[f] <= CanaryWindow => <<noticed[f], f>> \in modEvents

Inv == /\ TypeOK /\ VersionsAreChanges
       /\ KeysAreTaken /\ LogIsPast /\ HistoryIsLog /\ ScanIsFound
       /\ DirtyIsOutdated /\ NoticesCount

LEMMA TypeParts == TypeOK <=> HostOK /\ SnapshotOK /\ RulesOK /\ CanaryOK
BY DEF TypeOK, HostOK, SnapshotOK, RulesOK, CanaryOK

-----------------------------------------------------------------------------
(***************************************************************************)
(* Numbers and finite sets.                                                *)
(***************************************************************************)
LEMMA Numbers ==
  /\ MaxTime \in Nat /\ MaxChanges \in Nat /\ ScanWindow \in Nat /\ CanaryWindow \in Nat
  /\ ScanThreshold \in Nat \ {0} /\ CanaryThreshold \in Nat \ {0}
  /\ 0 \in Times /\ Times \subseteq Nat /\ None \notin Times /\ Init1 \notin Pids
  /\ Pids \subseteq Nat /\ R2Offset \in Nat /\ R3Offset \in Nat
BY KeysAssumption, RulesAssumption DEF Times, None, Init1

LEMMA Smaller ==
  ASSUME NEW S, NEW T \in SUBSET S, IsFiniteSet(S)
  PROVE  /\ IsFiniteSet(T) /\ Cardinality(T) \in Nat
         /\ Cardinality(T) <= Cardinality(S)
BY FS_Subset, FS_CardinalityType

-----------------------------------------------------------------------------
(***************************************************************************)
(* The types.                                                              *)
(***************************************************************************)
LEMMA ChangeKeeps ==
  ASSUME HostOK, Change
  PROVE  now' \in Times /\ changes' \in 0..MaxChanges /\ changes' = changes + 1
BY Numbers DEF HostOK, Change

LEMMA HostStaysOK ==
  ASSUME HostOK, VersionsAreChanges, [Next]_vars
  PROVE  HostOK' /\ VersionsAreChanges'
<1>1. ASSUME NEW p \in Pids, NEW r \in Roles \ {"none"}, NEW q \in Pids \cup {Init1}, Start(p, r, q)
      PROVE  HostOK' /\ VersionsAreChanges'
  <2>1. role' \in [Pids -> Roles] /\ ppid' \in [Pids -> Pids \cup {Init1}]
    BY <1>1 DEF Start, HostOK
  <2>2. \A s \in Pids : role'[s] = IF s = p THEN r ELSE role[s]
    BY <1>1 DEF Start, HostOK
  <2>3. \A s \in Pids : ppid'[s] = IF s = p THEN q ELSE ppid[s]
    BY <1>1 DEF Start, HostOK
  <2>4. \A s \in Pids : role'[s] = "none" => s \notin {ppid'[t] : t \in Pids}
    BY <1>1, <2>2, <2>3, Numbers DEF Start, HostOK
  <2>5. /\ UNCHANGED <<peers, present, version, now>> /\ changes' = changes + 1
        /\ changes' \in 0..MaxChanges
    BY <1>1, ChangeKeeps DEF Start, Change, disk
  <2>6. \A s \in Pids : role'[s] = "none" => peers'[s] = {}
    BY <2>2, <2>5 DEF HostOK
  <2>7. VersionsAreChanges'
    BY <2>5, Numbers DEF VersionsAreChanges, HostOK
  <2> QED BY <2>1, <2>4, <2>5, <2>6, <2>7 DEF HostOK
<1>2. ASSUME NEW p \in Pids, Exit(p)
      PROVE  HostOK' /\ VersionsAreChanges'
  <2>1. /\ role' \in [Pids -> Roles] /\ ppid' \in [Pids -> Pids \cup {Init1}]
        /\ peers' \in [Pids -> SUBSET Ports]
    BY <1>2 DEF Exit, HostOK, Roles
  <2>2. \A s \in Pids : /\ role'[s] = IF s = p THEN "none" ELSE role[s]
                        /\ peers'[s] = IF s = p THEN {} ELSE peers[s]
    BY <1>2 DEF Exit, HostOK
  <2>3. \A s \in Pids : ppid'[s] # p /\ ppid'[s] \in {ppid[s], Init1}
    BY <1>2, Numbers DEF Exit, HostOK
  <2>4. \A s \in Pids : role'[s] = "none" => peers'[s] = {} /\ s \notin {ppid'[t] : t \in Pids}
    BY <2>2, <2>3, Numbers DEF HostOK
  <2>5. /\ UNCHANGED <<present, version, now>> /\ changes' = changes + 1
        /\ changes' \in 0..MaxChanges
    BY <1>2, ChangeKeeps DEF Exit, Change, disk
  <2>6. VersionsAreChanges'
    BY <2>5, Numbers DEF VersionsAreChanges, HostOK
  <2> QED BY <2>1, <2>4, <2>5, <2>6 DEF HostOK
<1>3. ASSUME NEW p \in Pids, NEW X \in SUBSET Ports, Connect(p, X)
      PROVE  HostOK' /\ VersionsAreChanges'
  <2>1. UNCHANGED <<role, ppid, present, version, now>> /\ changes' = changes + 1
        /\ changes' \in 0..MaxChanges
    BY <1>3, ChangeKeeps DEF Connect, Change, disk
  <2>2. peers' \in [Pids -> SUBSET Ports] /\ \A s \in Pids : role[s] = "none" => peers'[s] = {}
    BY <1>3 DEF Connect, HostOK
  <2>3. VersionsAreChanges'
    BY <2>1, Numbers DEF VersionsAreChanges, HostOK
  <2> QED BY <2>1, <2>2, <2>3 DEF HostOK
<1>4. ASSUME NEW F \in SUBSET Files, Write(F)
      PROVE  HostOK' /\ VersionsAreChanges'
  <2>1. UNCHANGED <<role, ppid, peers, now>> /\ changes' = changes + 1
        /\ changes' \in 0..MaxChanges /\ present' \subseteq Files
    BY <1>4, ChangeKeeps DEF Write, Change, host, HostOK
  <2>2. \A f \in Files : version'[f] \in Nat /\ version'[f] <= changes'
    BY <1>4, <2>1, Numbers DEF Write, HostOK, VersionsAreChanges
  <2>3. version' \in [Files -> 0..MaxChanges]
    <3>1. \A f \in Files : version'[f] \in 0..MaxChanges
      BY <2>1, <2>2, Numbers
    <3> QED BY <1>4, <3>1 DEF Write
  <2> QED BY <2>1, <2>2, <2>3 DEF HostOK, VersionsAreChanges
<1>5. ASSUME NEW f \in Files, Delete(f)
      PROVE  HostOK' /\ VersionsAreChanges'
  <2>1. UNCHANGED <<role, ppid, peers, version, now>> /\ changes' = changes + 1
        /\ changes' \in 0..MaxChanges /\ present' \subseteq Files
    BY <1>5, ChangeKeeps DEF Delete, Change, host, HostOK
  <2>2. VersionsAreChanges'
    BY <2>1, Numbers DEF VersionsAreChanges, HostOK
  <2> QED BY <2>1, <2>2 DEF HostOK
<1>6. CASE Tick
  BY <1>6, Numbers DEF Tick, HostOK, VersionsAreChanges, host, disk, Times
<1>7. CASE Agent \/ Check \/ UNCHANGED vars
  BY <1>7 DEF Agent, StartSnapshot, CollectProcess, Evaluate, Check, vars, HostOK, VersionsAreChanges, host, disk
<1> QED BY <1>1, <1>2, <1>3, <1>4, <1>5, <1>6, <1>7 DEF Next, Host

LEMMA SnapshotStaysOK ==
  ASSUME HostOK, SnapshotOK, [Next]_vars
  PROVE  SnapshotOK'
<1>0. Nothing \in [Pids -> [role : Roles, ppid : Pids \cup {Init1}]]
  BY DEF Nothing, Roles
<1>1. CASE UNCHANGED snapshot
  BY <1>1 DEF snapshot, SnapshotOK, Nothing
<1>2. CASE Host
  BY <1>1, <1>2 DEF Host, Start, Exit, Connect, Write, Delete, Change
<1>3. CASE Tick \/ Check \/ UNCHANGED vars
  BY <1>1, <1>3 DEF Tick, Check, vars
<1>4. CASE StartSnapshot
  BY <1>0, <1>4, Numbers DEF StartSnapshot, SnapshotOK, HostOK
<1>5. ASSUME NEW p \in Pids, CollectProcess(p)
      PROVE  SnapshotOK'
  <2>1. procs' \in [Pids -> [role : Roles, ppid : Pids \cup {Init1}]]
    BY <1>5 DEF CollectProcess, SnapshotOK, HostOK
  <2> QED BY <1>5, <2>1 DEF CollectProcess, SnapshotOK
<1>6. CASE Evaluate
  BY <1>0, <1>6 DEF Evaluate, SnapshotOK, Nothing
<1> QED BY <1>2, <1>3, <1>4, <1>5, <1>6 DEF Next, Agent

-----------------------------------------------------------------------------
(***************************************************************************)
(* evaluate(): what the three rules report one after the other.            *)
(***************************************************************************)
New1 == {"R1"} \X Unknown("R1", ShellSpawns, marked)
New2 == {"R2"} \X Unknown("R2", C2Connections, marked \cup Keys(New1))
New3 == {"R3"} \X Unknown("R3", Scanners, marked \cup Keys(New1) \cup Keys(New2))
New == New1 \cup New2 \cup New3
Matching == ({"R1"} \X ShellSpawns) \cup ({"R2"} \X C2Connections) \cup ({"R3"} \X Scanners)

LEMMA KeysOfUnion ==
  ASSUME NEW X, NEW Y
  PROVE  Keys(X \cup Y) = Keys(X) \cup Keys(Y)
BY DEF Keys

LEMMA KeyIsOfOnePid ==
  ASSUME NEW r \in Rules, NEW p \in Pids, NEW q \in Pids, Key(r, p) = Key(r, q)
  PROVE  p = q
<1>1. p \in Nat /\ q \in Nat /\ R2Offset \in Nat /\ R3Offset \in Nat
  BY Numbers
<1>2. CASE r = "R1"
  BY <1>2 DEF Key
<1>3. CASE r = "R2"
  BY <1>1, <1>3 DEF Key
<1>4. CASE r = "R3"
  BY <1>1, <1>4 DEF Key
<1> QED BY <1>2, <1>3, <1>4 DEF Rules

LEMMA EvaluateEffect ==
  ASSUME Evaluate
  PROVE  /\ marked' = marked \cup Keys(New)
         /\ raised' = [x \in Rules \X Pids |-> raised[x] + (IF x \in New THEN 1 ELSE 0)]
         /\ matched' = matched \cup Matching
BY DEF Evaluate, New, New1, New2, New3, Matching

\* A report is new, and no two reports of one snapshot have the same key.
LEMMA NewIsNew ==
  /\ New \subseteq Matching /\ Matching \subseteq Rules \X Pids
  /\ \A x \in New : Key(x[1], x[2]) \notin marked
  /\ \A x, y \in New : Key(x[1], x[2]) = Key(y[1], y[2]) => x = y
  /\ Keys(Matching) \subseteq marked \cup Keys(New)
<1>1. ShellSpawns \subseteq Pids /\ C2Connections \subseteq Pids /\ Scanners \subseteq Pids
  BY DEF ShellSpawns, C2Connections, Scanners
<1>2. /\ New1 \subseteq {"R1"} \X ShellSpawns /\ New2 \subseteq {"R2"} \X C2Connections
      /\ New3 \subseteq {"R3"} \X Scanners
  BY DEF New1, New2, New3, Unknown
<1>3. New \subseteq Matching /\ Matching \subseteq Rules \X Pids
  BY <1>1, <1>2 DEF New, Matching, Rules
<1>4. /\ \A x \in New1 : x[1] = "R1" /\ x[2] \in Pids /\ Key(x[1], x[2]) \notin marked
      /\ \A x \in New2 : x[1] = "R2" /\ x[2] \in Pids /\ Key(x[1], x[2]) \notin marked \cup Keys(New1)
      /\ \A x \in New3 : /\ x[1] = "R3" /\ x[2] \in Pids
                         /\ Key(x[1], x[2]) \notin marked \cup Keys(New1) \cup Keys(New2)
  BY <1>1 DEF New1, New2, New3, Unknown
<1>5. \A x \in New : Key(x[1], x[2]) \notin marked
  BY <1>4 DEF New
<1>6. ASSUME NEW x \in New, NEW y \in New, Key(x[1], x[2]) = Key(y[1], y[2])
      PROVE  x = y
  <2>1. x[1] = y[1] => x = y
    BY <1>3, <1>6, KeyIsOfOnePid
  <2>2. /\ x \in New1 => Key(x[1], x[2]) \in Keys(New1)
        /\ y \in New1 => Key(y[1], y[2]) \in Keys(New1)
        /\ x \in New2 => Key(x[1], x[2]) \in Keys(New2)
        /\ y \in New2 => Key(y[1], y[2]) \in Keys(New2)
    BY DEF Keys
  <2>3. x[1] = y[1]
    BY <1>4, <1>6, <2>2 DEF New
  <2> QED BY <2>1, <2>3
<1>7. ASSUME NEW k \in Keys(Matching)
      PROVE  k \in marked \cup Keys(New)
  <2>0. Keys(New) = Keys(New1) \cup Keys(New2) \cup Keys(New3)
    BY DEF New, Keys
  <2>1. PICK x \in Matching : k = Key(x[1], x[2])
    BY DEF Keys
  <2>2. CASE x \in {"R1"} \X ShellSpawns
    <3>1. x \in New1 \/ k \in marked
      BY <2>1, <2>2 DEF New1, Unknown
    <3> QED BY <2>0, <2>1, <3>1 DEF Keys
  <2>3. CASE x \in {"R2"} \X C2Connections
    <3>1. x \in New2 \/ k \in marked \cup Keys(New1)
      BY <2>1, <2>3 DEF New2, Unknown
    <3> QED BY <2>0, <2>1, <3>1 DEF Keys
  <2>4. CASE x \in {"R3"} \X Scanners
    <3>1. x \in New3 \/ k \in marked \cup Keys(New1) \cup Keys(New2)
      BY <2>1, <2>4 DEF New3, Unknown
    <3> QED BY <2>0, <2>1, <3>1 DEF Keys
  <2> QED BY <2>1, <2>2, <2>3, <2>4 DEF Matching
<1> QED BY <1>3, <1>5, <1>6, <1>7

LEMMA KeysStayTaken ==
  ASSUME RulesOK, KeysAreTaken, [Next]_vars
  PROVE  KeysAreTaken'
<1>1. CASE UNCHANGED rules
  BY <1>1 DEF rules, KeysAreTaken, Alerts, Keys
<1>2. CASE Host \/ Tick
  BY <1>1, <1>2 DEF Host, Start, Exit, Connect, Write, Delete, Change, Tick
<1>3. ASSUME NEW p \in Pids, CollectProcess(p)
      PROVE  KeysAreTaken'
  BY <1>1, <1>3 DEF CollectProcess
<1>4. CASE StartSnapshot \/ Check \/ UNCHANGED vars
  BY <1>1, <1>4 DEF StartSnapshot, Check, vars
<1>5. CASE Evaluate
  <2>1. /\ marked' = marked \cup Keys(New) /\ matched' = matched \cup Matching
        /\ \A x \in Rules \X Pids : raised'[x] = raised[x] + (IF x \in New THEN 1 ELSE 0)
    BY <1>5, EvaluateEffect
  <2>2. \A x \in Alerts : Key(x[1], x[2]) \in marked
    BY DEF KeysAreTaken, Keys
  <2>3. \A x \in New : x \notin Alerts /\ x \in Rules \X Pids
    BY <2>2, NewIsNew
  <2>4. \A x \in Rules \X Pids : raised[x] \in Nat
    BY DEF RulesOK
  <2>5. \A x \in New : raised'[x] = 1
    BY <2>1, <2>3, <2>4 DEF Alerts
  <2>6. Alerts' = Alerts \cup New
    BY <2>1, <2>3, <2>4, <2>5 DEF Alerts
  <2>7. \A x \in Alerts' : raised'[x] = 1 /\ x \in matched'
    <3>1. \A x \in Alerts : x \notin New => raised'[x] = raised[x]
      BY <2>1, <2>4 DEF Alerts
    <3> QED BY <2>1, <2>3, <2>5, <2>6, <3>1, NewIsNew DEF KeysAreTaken
  <2>8. \A x, y \in Alerts' : Key(x[1], x[2]) = Key(y[1], y[2]) => x = y
    BY <2>2, <2>6, NewIsNew DEF KeysAreTaken
  <2>9. marked' = Keys(Alerts')
    BY <2>1, <2>6, KeysOfUnion DEF KeysAreTaken
  <2>10. Keys(matched') \subseteq marked'
    BY <2>1, NewIsNew, KeysOfUnion DEF KeysAreTaken
  <2> QED BY <2>7, <2>8, <2>9, <2>10 DEF KeysAreTaken, Keys
<1> QED BY <1>2, <1>3, <1>4, <1>5 DEF Next, Agent

LEMMA RulesStayOK ==
  ASSUME HostOK, SnapshotOK, RulesOK, [Next]_vars
  PROVE  RulesOK'
<1>1. CASE UNCHANGED rules
  BY <1>1 DEF rules, RulesOK, Keys
<1>2. CASE Host \/ Tick
  BY <1>1, <1>2 DEF Host, Start, Exit, Connect, Write, Delete, Change, Tick
<1>3. ASSUME NEW p \in Pids, CollectProcess(p)
      PROVE  RulesOK'
  BY <1>1, <1>3 DEF CollectProcess
<1>4. CASE StartSnapshot \/ Check \/ UNCHANGED vars
  BY <1>1, <1>4 DEF StartSnapshot, Check, vars
<1>5. CASE Evaluate
  <2>1. matched' \subseteq Rules \X Pids /\ Keys(New) \subseteq Keys(Rules \X Pids)
    BY <1>5, EvaluateEffect, NewIsNew DEF RulesOK, Keys
  <2>2. marked' \subseteq Keys(Rules \X Pids)
    BY <1>5, <2>1, EvaluateEffect DEF RulesOK
  <2>3. raised' \in [Rules \X Pids -> Nat]
    BY <1>5, EvaluateEffect DEF RulesOK
  <2>4. at \in Times
    BY <1>5 DEF Evaluate, SnapshotOK
  <2>5. \A p \in Pids : Connections(p) \subseteq Ports
    BY DEF Connections, HostOK
  <2>6. \A p \in Pids : Touch(p) \subseteq Times \X Ports
    BY <2>4, <2>5 DEF Touch, Recent, RulesOK
  <2>7. history' \in [Pids -> SUBSET (Times \X Ports)]
    BY <1>5, <2>6 DEF Evaluate
  <2>8. touched' \subseteq Times \X Pids \X Ports
    BY <1>5, <2>4, <2>5 DEF Evaluate, RulesOK
  <2> QED BY <2>1, <2>2, <2>3, <2>7, <2>8 DEF RulesOK, Keys
<1> QED BY <1>2, <1>3, <1>4, <1>5 DEF Next, Agent

-----------------------------------------------------------------------------
(***************************************************************************)
(* R3: the history of a pid against the full log of the snapshots.         *)
(***************************************************************************)
LEMMA LogStaysPast ==
  ASSUME HostOK, SnapshotOK, RulesOK, LogIsPast, [Next]_vars
  PROVE  LogIsPast'
<1>0. /\ now \in Nat /\ at \in Nat \cup {None}
      /\ \A e \in touched : e[1] \in Nat
  BY Numbers DEF HostOK, SnapshotOK, RulesOK
<1>1. CASE UNCHANGED <<now, at, touched>>
  BY <1>1 DEF LogIsPast
<1>2. CASE Host
  BY <1>1, <1>2 DEF Host, Start, Exit, Connect, Write, Delete, Change, snapshot, rules
<1>3. CASE Tick
  BY <1>0, <1>3 DEF Tick, snapshot, rules, LogIsPast, None
<1>4. ASSUME NEW p \in Pids, CollectProcess(p)
      PROVE  LogIsPast'
  BY <1>1, <1>4 DEF CollectProcess, rules
<1>5. CASE Check \/ UNCHANGED vars
  BY <1>1, <1>5 DEF Check, vars, snapshot, rules
<1>6. CASE StartSnapshot
  BY <1>0, <1>6 DEF StartSnapshot, rules, LogIsPast
<1>7. CASE Evaluate
  <2>1. at # None /\ at' = None /\ now' = now /\ at <= now
    BY <1>7 DEF Evaluate, LogIsPast
  <2>2. \A e \in touched' : e \in touched \/ e[1] = at
    BY <1>7 DEF Evaluate
  <2> QED BY <2>1, <2>2 DEF LogIsPast
<1> QED BY <1>2, <1>3, <1>4, <1>5, <1>6, <1>7 DEF Next, Agent

\* What evaluate() adds to the log.
LEMMA Logged ==
  ASSUME HostOK, SnapshotOK, RulesOK, Evaluate
  PROVE  /\ at \in Times /\ at \in Nat
         /\ touched \subseteq touched'
         /\ \A u \in Times, p \in Pids, x \in Ports :
              <<u, p, x>> \in touched' <=>
                <<u, p, x>> \in touched \/ (u = at /\ x \in Connections(p))
         /\ \A p \in Pids : Connections(p) \subseteq Ports /\ history'[p] = Touch(p)
<1>1. at \in Times /\ at \in Nat
  BY Numbers DEF Evaluate, SnapshotOK
<1>2. touched' = touched \cup UNION {{at} \X {p} \X Connections(p) : p \in Pids}
  BY DEF Evaluate
<1>3. \A p \in Pids : Connections(p) \subseteq Ports /\ history'[p] = Touch(p)
  BY DEF Evaluate, Connections, HostOK
<1>4. \A u \in Times, p \in Pids, x \in Ports :
        <<u, p, x>> \in touched' <=>
          <<u, p, x>> \in touched \/ (u = at /\ x \in Connections(p))
  BY <1>2
<1> QED BY <1>1, <1>2, <1>3, <1>4

LEMMA HistoryStaysLog ==
  ASSUME HostOK, SnapshotOK, RulesOK, LogIsPast, HistoryIsLog, [Next]_vars
  PROVE  HistoryIsLog'
<1>1. CASE UNCHANGED <<history, touched>>
  BY <1>1 DEF HistoryIsLog
<1>2. CASE Host \/ Tick
  BY <1>1, <1>2 DEF Host, Start, Exit, Connect, Write, Delete, Change, Tick, rules
<1>3. ASSUME NEW p \in Pids, CollectProcess(p)
      PROVE  HistoryIsLog'
  BY <1>1, <1>3 DEF CollectProcess, rules
<1>4. CASE StartSnapshot \/ Check \/ UNCHANGED vars
  BY <1>1, <1>4 DEF StartSnapshot, Check, vars, rules
<1>5. CASE Evaluate
  <2> SUFFICES ASSUME NEW p \in Pids
               PROVE  /\ \A h \in history'[p] : <<h[1], p, h[2]>> \in touched'
                      /\ \A u \in Times, x \in Ports : <<u, p, x>> \in touched' =>
                           \/ <<u, x>> \in history'[p]
                           \/ \E v \in Times, y \in Ports : <<v, p, y>> \in touched' /\ v - u > ScanWindow
    BY DEF HistoryIsLog
  <2>1. /\ at \in Times /\ at \in Nat /\ touched \subseteq touched'
        /\ \A u \in Times, x \in Ports :
             <<u, p, x>> \in touched' <=> <<u, p, x>> \in touched \/ (u = at /\ x \in Connections(p))
        /\ Connections(p) \subseteq Ports /\ history'[p] = Touch(p)
    BY <1>5, Logged
  <2>2. history[p] \subseteq Times \X Ports
    BY DEF RulesOK
  <2>3. \A h \in history'[p] : <<h[1], p, h[2]>> \in touched'
    <3>1. \A h \in history[p] : <<h[1], p, h[2]>> \in touched'
      BY <2>1 DEF HistoryIsLog
    <3>2. \A h \in {at} \X Connections(p) : h[1] = at /\ h[2] \in Connections(p)
      OBVIOUS
    <3>3. \A h \in {at} \X Connections(p) : <<h[1], p, h[2]>> \in touched'
      BY <2>1, <3>2
    <3> QED BY <2>1, <3>1, <3>3 DEF Touch, Recent
  <2>4. ASSUME NEW u \in Times, NEW x \in Ports, <<u, p, x>> \in touched', <<u, x>> \notin history'[p]
        PROVE  \E v \in Times, y \in Ports : <<v, p, y>> \in touched' /\ v - u > ScanWindow
    <3>1. u \in Nat /\ ScanWindow \in Nat
      BY Numbers
    <3>2. CASE \E v \in Times, y \in Ports : <<v, p, y>> \in touched /\ v - u > ScanWindow
      BY <2>1, <3>2
    <3>3. CASE <<u, x>> \in history[p] /\ Connections(p) # {}
      <4>1. ~ (at - u <= ScanWindow)
        BY <2>1, <2>4, <3>3 DEF Touch, Recent
      <4>2. PICK y \in Connections(p) : <<at, p, y>> \in touched'
        BY <2>1, <3>3
      <4> QED BY <2>1, <3>1, <4>1, <4>2
    <3>4. CASE <<u, x>> \in history[p] /\ Connections(p) = {}
      BY <2>1, <2>4, <3>4 DEF Touch
    <3>5. CASE u = at /\ x \in Connections(p)
      <4>1. <<u, x>> \in Touch(p)
        BY <2>1, <3>1, <3>5 DEF Touch, Recent
      <4> QED BY <2>1, <2>4, <4>1
    <3> QED BY <2>1, <2>4, <3>2, <3>3, <3>4, <3>5 DEF HistoryIsLog
  <2> QED BY <2>3, <2>4
<1> QED BY <1>2, <1>3, <1>4, <1>5 DEF Next, Agent

\* The ports a window of the log that ends at t holds of p.
Window(p, t) == {x \in Ports : \E u \in (t - ScanWindow)..t : <<u, p, x>> \in touched}

LEMMA WindowsAreFinite ==
  \A p, t : /\ IsFiniteSet(Window(p, t)) /\ Cardinality(Window(p, t)) \in Nat
            /\ IsFiniteSet(Window(p, t)') /\ Cardinality(Window(p, t)') \in Nat
<1>1. \A p, t : Window(p, t) \in SUBSET Ports /\ Window(p, t)' \in SUBSET Ports
  BY DEF Window
<1> QED BY <1>1, RulesAssumption, Smaller

(***************************************************************************)
(* With a connection in the snapshot, the pruned history holds the ports   *)
(* of the window of the log that ends now, and of any window that the new  *)
(* connections fall in.                                                    *)
(***************************************************************************)
LEMMA HistoryIsWindow ==
  ASSUME HostOK, SnapshotOK, RulesOK, LogIsPast, HistoryIsLog, Evaluate,
         NEW p \in Pids, Connections(p) # {}
  PROVE  /\ \A t \in Times : t = at => {h[2] : h \in Touch(p)} \subseteq Window(p, t)'
         /\ \A t \in Times : at <= t => Window(p, t)' \subseteq {h[2] : h \in Touch(p)}
<1>0. /\ at \in Times /\ at \in Nat /\ touched \subseteq touched' /\ ScanWindow \in Nat
      /\ \A u \in Times, x \in Ports :
           <<u, p, x>> \in touched' <=> <<u, p, x>> \in touched \/ (u = at /\ x \in Connections(p))
      /\ Connections(p) \subseteq Ports
      /\ \A u \in Times : u \in Nat
  BY Logged, Numbers
<1>1. Touch(p) = Recent(history[p] \cup ({at} \X Connections(p)), at, ScanWindow)
  BY DEF Touch
<1>2. ASSUME NEW t \in Times, t = at, NEW h \in Touch(p)
      PROVE  h[2] \in Window(p, t)'
  <2>1. h[1] \in Times /\ h[2] \in Ports /\ at - h[1] <= ScanWindow
    BY <1>0, <1>1 DEF Recent, RulesOK
  <2>2. <<h[1], p, h[2]>> \in touched' /\ h[1] <= at
    <3>1. CASE h \in history[p]
      <4>1. <<h[1], p, h[2]>> \in touched
        BY <3>1 DEF HistoryIsLog
      <4> QED BY <1>0, <4>1 DEF LogIsPast, Evaluate
    <3>2. CASE h \in {at} \X Connections(p)
      BY <1>0, <2>1, <3>2
    <3> QED BY <1>1, <3>1, <3>2 DEF Recent
  <2>3. h[1] \in (t - ScanWindow)..t
    <3>1. h[1] \in Nat /\ t \in Nat /\ ScanWindow \in Nat
      BY <2>1, Numbers
    <3>2. h[1] <= t /\ t - h[1] <= ScanWindow
      BY <1>2, <2>1, <2>2
    <3> QED BY <3>1, <3>2
  <2> QED BY <2>1, <2>2, <2>3 DEF Window
<1>3. ASSUME NEW t \in Times, at <= t, NEW x \in Window(p, t)'
      PROVE  x \in {h[2] : h \in Touch(p)}
  <2>1. PICK u \in (t - ScanWindow)..t : <<u, p, x>> \in touched'
    BY DEF Window
  <2>2. x \in Ports
    BY DEF Window
  <2>3. touched' \subseteq Times \X Pids \X Ports
    BY RulesStayOK DEF RulesOK, Next, Agent
  <2>4. u \in Times /\ at - u <= ScanWindow
    BY <1>0, <1>3, <2>1, <2>3
  <2>5. CASE u = at /\ x \in Connections(p)
    <3>1. <<u, x>> \in Touch(p)
      BY <1>0, <1>1, <2>4, <2>5 DEF Recent
    <3> QED BY <3>1
  <2>6. CASE <<u, p, x>> \in touched
    <3>1. ~ \E v \in Times, y \in Ports : <<v, p, y>> \in touched /\ v - u > ScanWindow
      <4> SUFFICES ASSUME NEW v \in Times, NEW y \in Ports, <<v, p, y>> \in touched, v - u > ScanWindow
                   PROVE  FALSE
        OBVIOUS
      <4>1. v <= at
        BY DEF LogIsPast, Evaluate
      <4> QED BY <1>0, <2>4, <4>1
    <3>2. <<u, x>> \in history[p]
      BY <2>2, <2>4, <2>6, <3>1 DEF HistoryIsLog
    <3>3. <<u, x>> \in Touch(p)
      BY <1>1, <2>4, <3>2 DEF Recent
    <3> QED BY <3>3
  <2> QED BY <1>0, <2>1, <2>2, <2>4, <2>5, <2>6
<1> QED BY <1>2, <1>3

LEMMA ScanStaysFound ==
  ASSUME HostOK, SnapshotOK, RulesOK, LogIsPast, HistoryIsLog, ScanIsFound, [Next]_vars
  PROVE  ScanIsFound'
<1> USE DEF ScanIsFound
<1>1. CASE UNCHANGED <<matched, touched>>
  BY <1>1
<1>2. CASE Host \/ Tick
  BY <1>1, <1>2 DEF Host, Start, Exit, Connect, Write, Delete, Change, Tick, rules
<1>3. ASSUME NEW p \in Pids, CollectProcess(p)
      PROVE  ScanIsFound'
  BY <1>1, <1>3 DEF CollectProcess, rules
<1>4. CASE StartSnapshot \/ Check \/ UNCHANGED vars
  BY <1>1, <1>4 DEF StartSnapshot, Check, vars, rules
<1>5. CASE Evaluate
  <2> SUFFICES ASSUME NEW p \in Pids
               PROVE  <<"R3", p>> \in matched' <=>
                        \E t \in Times : Cardinality(Window(p, t)') >= ScanThreshold
    BY DEF Window
  <2>0. /\ <<"R3", p>> \in matched <=> \E t \in Times : Cardinality(Window(p, t)) >= ScanThreshold
        /\ ScanThreshold \in Nat
    BY Numbers DEF Window
  <2>1. <<"R3", p>> \in matched' <=> <<"R3", p>> \in matched \/ p \in Scanners
    BY <1>5, EvaluateEffect DEF Matching
  <2>2. \A t \in Times : Window(p, t) \subseteq Window(p, t)'
    BY <1>5, Logged DEF Window
  <2>3. \A t \in Times : Cardinality(Window(p, t)) <= Cardinality(Window(p, t)')
    BY <2>2, WindowsAreFinite, Smaller
  <2>4. Touch(p) \subseteq Times \X Ports
    <3>1. at \in Times /\ Connections(p) \subseteq Ports
      BY <1>5, Logged
    <3> QED BY <3>1 DEF Touch, Recent, RulesOK
  <2>5. /\ {h[2] : h \in Touch(p)} \in SUBSET Ports
        /\ IsFiniteSet({h[2] : h \in Touch(p)}) /\ Cardinality({h[2] : h \in Touch(p)}) \in Nat
    <3>1. {h[2] : h \in Touch(p)} \in SUBSET Ports
      BY <2>4
    <3> QED BY <3>1, RulesAssumption, Smaller
  <2>6. ASSUME p \in Scanners
        PROVE  \E t \in Times : Cardinality(Window(p, t)') >= ScanThreshold
    <3>1. Connections(p) # {} /\ Cardinality({h[2] : h \in Touch(p)}) >= ScanThreshold
      BY <2>6 DEF Scanners
    <3>2. PICK t \in Times : t = at
      BY <1>5, Logged
    <3>3. {h[2] : h \in Touch(p)} \subseteq Window(p, t)'
      BY <1>5, <3>1, <3>2, HistoryIsWindow
    <3>4. Cardinality({h[2] : h \in Touch(p)}) <= Cardinality(Window(p, t)')
      BY <3>3, WindowsAreFinite, Smaller
    <3>5. Cardinality(Window(p, t)') >= ScanThreshold
      BY <2>0, <2>5, <3>1, <3>4, WindowsAreFinite
    <3> QED BY <3>5
  <2>7. ASSUME NEW t \in Times, Cardinality(Window(p, t)') >= ScanThreshold,
               Window(p, t)' # Window(p, t)
        PROVE  p \in Scanners
    <3>1. at <= t /\ Connections(p) # {}
      <4>1. PICK x \in Ports, u \in (t - ScanWindow)..t : <<u, p, x>> \in touched' /\ <<u, p, x>> \notin touched
        BY <2>2, <2>7 DEF Window
      <4>2. u \in Times
        BY <1>5, <4>1, RulesStayOK DEF RulesOK
      <4>3. u = at /\ x \in Connections(p)
        BY <1>5, <4>1, <4>2, Logged
      <4> QED BY <4>1, <4>3, Numbers
    <3>2. Window(p, t)' \subseteq {h[2] : h \in Touch(p)}
      BY <1>5, <3>1, HistoryIsWindow
    <3>3. Cardinality(Window(p, t)') <= Cardinality({h[2] : h \in Touch(p)})
      BY <2>5, <3>2, Smaller
    <3>4. Cardinality({h[2] : h \in Touch(p)}) >= ScanThreshold
      BY <2>0, <2>5, <2>7, <3>3, WindowsAreFinite
    <3> QED BY <3>1, <3>4 DEF Scanners
  <2>8. ASSUME <<"R3", p>> \in matched
        PROVE  \E t \in Times : Cardinality(Window(p, t)') >= ScanThreshold
    <3>1. PICK t \in Times : Cardinality(Window(p, t)) >= ScanThreshold
      BY <2>0, <2>8
    <3> QED BY <2>0, <2>3, <3>1, WindowsAreFinite
  <2> QED BY <2>0, <2>1, <2>6, <2>7, <2>8
<1> QED BY <1>2, <1>3, <1>4, <1>5 DEF Next, Agent

-----------------------------------------------------------------------------
(***************************************************************************)
(* R4: the hashes and the events of the canary files.                      *)
(***************************************************************************)
Changed == {f \in present : hashes[f] \notin {None, version[f]}}
Events == Recent(modEvents \cup ({now} \X Changed), now, CanaryWindow)
Alarm == Cardinality({e[2] : e \in Events}) >= CanaryThreshold

LEMMA CheckEffect ==
  ASSUME Check
  PROVE  /\ hashes' = Rehash /\ modEvents' = Keep(Events, Alarm)
         /\ noticed' = IF Alarm THEN [f \in Files |-> None]
                       ELSE [f \in Files |-> IF f \in dirty \cap present THEN now ELSE noticed[f]]
         /\ everRead' = everRead \cup present /\ dirty' = dirty \ present
         /\ UNCHANGED <<host, disk, now>>
BY DEF Check, Changed, Events, Alarm

LEMMA FilesOfEvents ==
  ASSUME NEW E \in SUBSET (Times \X Files)
  PROVE  /\ {e[2] : e \in E} \in SUBSET Files /\ IsFiniteSet({e[2] : e \in E})
         /\ Cardinality({e[2] : e \in E}) \in Nat
<1>1. {e[2] : e \in E} \in SUBSET Files
  OBVIOUS
<1> QED BY <1>1, RulesAssumption, Smaller

LEMMA CanaryStaysOK ==
  ASSUME HostOK, CanaryOK, [Next]_vars
  PROVE  CanaryOK'
<1>1. CASE UNCHANGED canary
  BY <1>1 DEF canary, CanaryOK
<1>2. CASE Tick \/ Agent \/ UNCHANGED vars
  BY <1>1, <1>2 DEF Tick, Agent, StartSnapshot, CollectProcess, Evaluate, vars
<1>3. ASSUME NEW p \in Pids, Exit(p) \/ \E X \in SUBSET Ports : Connect(p, X)
      PROVE  CanaryOK'
  BY <1>1, <1>3 DEF Exit, Connect
<1>4. ASSUME NEW p \in Pids, NEW r, NEW q, Start(p, r, q)
      PROVE  CanaryOK'
  BY <1>1, <1>4 DEF Start
<1>5. ASSUME NEW f \in Files, Delete(f)
      PROVE  CanaryOK'
  BY <1>1, <1>5 DEF Delete
<1>6. ASSUME NEW F \in SUBSET Files, Write(F)
      PROVE  CanaryOK'
  BY <1>6 DEF Write, CanaryOK
<1>7. CASE Check
  <2>1. /\ hashes' = Rehash /\ modEvents' = Keep(Events, Alarm)
        /\ everRead' = everRead \cup present /\ dirty' = dirty \ present
    BY <1>7, CheckEffect
  <2>2. hashes' \in [Files -> {None} \cup 0..MaxChanges]
    BY <2>1 DEF Rehash, CanaryOK, HostOK
  <2>3. Changed \subseteq Files /\ now \in Times
    BY DEF Changed, HostOK
  <2>4. Events \in SUBSET (Times \X Files)
    BY <2>3 DEF Events, Recent, CanaryOK
  <2>5. modEvents' \subseteq Times \X Files /\ Cardinality({e[2] : e \in modEvents'}) < CanaryThreshold
    <3>1. CASE Alarm
      <4>1. {e[2] : e \in modEvents'} = {}
        BY <2>1, <3>1 DEF Keep
      <4> QED BY <2>1, <3>1, <4>1, FS_EmptySet, Numbers DEF Keep
    <3>2. CASE ~ Alarm
      <4>1. modEvents' = Events
        BY <2>1, <3>2 DEF Keep
      <4>2. Cardinality({e[2] : e \in Events}) \in Nat
        BY <2>4, FilesOfEvents
      <4>3. ~ Cardinality({e[2] : e \in Events}) >= CanaryThreshold
        BY <3>2 DEF Alarm
      <4>4. Cardinality({e[2] : e \in Events}) < CanaryThreshold
        BY <4>2, <4>3, Numbers
      <4> QED BY <2>4, <4>1, <4>4
    <3> QED BY <3>1, <3>2
  <2>6. noticed' \in [Files -> Times \cup {None}]
    <3>1. CASE Alarm
      BY <1>7, <3>1, CheckEffect
    <3>2. CASE ~ Alarm
      <4>1. noticed' = [f \in Files |-> IF f \in dirty \cap present THEN now ELSE noticed[f]]
        BY <1>7, <3>2, CheckEffect
      <4> QED BY <2>3, <4>1 DEF CanaryOK
    <3> QED BY <3>1, <3>2
  <2>7. dirty' \subseteq everRead' /\ everRead' \subseteq Files
    BY <2>1 DEF CanaryOK, HostOK
  <2> QED BY <2>2, <2>5, <2>6, <2>7 DEF CanaryOK
<1> QED BY <1>2, <1>3, <1>4, <1>5, <1>6, <1>7 DEF Next, Host

LEMMA DirtyStaysOutdated ==
  ASSUME HostOK, CanaryOK, DirtyIsOutdated, [Next]_vars
  PROVE  DirtyIsOutdated'
<1>0. \A f \in Files : version[f] \in Nat /\ hashes[f] \in Int /\ None \in Int /\ version[f] # None
  BY Numbers DEF HostOK, CanaryOK, None
<1>1. ASSUME UNCHANGED <<hashes, version, everRead, dirty>>
      PROVE  DirtyIsOutdated'
  BY <1>1 DEF DirtyIsOutdated
<1>2. CASE Tick \/ Agent \/ UNCHANGED vars
  BY <1>1, <1>2 DEF Tick, Agent, StartSnapshot, CollectProcess, Evaluate, vars, canary, disk
<1>3. ASSUME NEW p \in Pids, Exit(p) \/ \E X \in SUBSET Ports : Connect(p, X)
      PROVE  DirtyIsOutdated'
  BY <1>1, <1>3 DEF Exit, Connect, canary, disk
<1>4. ASSUME NEW p \in Pids, NEW r, NEW q, Start(p, r, q)
      PROVE  DirtyIsOutdated'
  BY <1>1, <1>4 DEF Start, canary, disk
<1>5. ASSUME NEW f \in Files, Delete(f)
      PROVE  DirtyIsOutdated'
  BY <1>1, <1>5 DEF Delete, canary
<1>6. ASSUME NEW F \in SUBSET Files, Write(F)
      PROVE  DirtyIsOutdated'
  <2>1. /\ \A f \in Files : version'[f] = IF f \in F THEN version[f] + 1 ELSE version[f]
        /\ dirty' = dirty \cup (F \cap everRead) /\ UNCHANGED <<hashes, everRead>>
    BY <1>6 DEF Write
  <2> SUFFICES ASSUME NEW f \in Files
               PROVE  /\ f \in everRead' <=> hashes'[f] # None
                      /\ hashes'[f] <= version'[f]
                      /\ f \in dirty' <=> hashes'[f] \notin {None, version'[f]}
    BY DEF DirtyIsOutdated
  <2>2. f \in everRead <=> hashes[f] # None
    BY DEF DirtyIsOutdated
  <2>3. hashes[f] <= version[f] /\ (f \in dirty <=> hashes[f] \notin {None, version[f]})
    BY DEF DirtyIsOutdated
  <2>4. CASE f \in F
    BY <1>0, <2>1, <2>2, <2>3, <2>4
  <2>5. CASE f \notin F
    BY <1>0, <2>1, <2>2, <2>3, <2>5
  <2> QED BY <2>4, <2>5
<1>7. CASE Check
  <2>1. /\ \A f \in Files : hashes'[f] = IF f \in present THEN version[f] ELSE hashes[f]
        /\ everRead' = everRead \cup present /\ dirty' = dirty \ present /\ version' = version
    BY <1>7, CheckEffect DEF Rehash, disk
  <2> SUFFICES ASSUME NEW f \in Files
               PROVE  /\ f \in everRead' <=> hashes'[f] # None
                      /\ hashes'[f] <= version'[f]
                      /\ f \in dirty' <=> hashes'[f] \notin {None, version'[f]}
    BY DEF DirtyIsOutdated
  <2>2. CASE f \in present
    BY <1>0, <2>1, <2>2
  <2>3. CASE f \notin present
    BY <1>0, <2>1, <2>3 DEF DirtyIsOutdated
  <2> QED BY <2>2, <2>3
<1> QED BY <1>2, <1>3, <1>4, <1>5, <1>6, <1>7 DEF Next, Host

LEMMA NoticesStayCounted ==
  ASSUME HostOK, CanaryOK, DirtyIsOutdated, NoticesCount, [Next]_vars
  PROVE  NoticesCount'
<1>0. now \in Nat /\ CanaryWindow \in Nat /\ \A f \in Files : noticed[f] \in Nat \cup {None}
  BY Numbers DEF HostOK, CanaryOK
<1>1. ASSUME UNCHANGED <<modEvents, noticed, now>>
      PROVE  NoticesCount'
  BY <1>1 DEF NoticesCount
<1>2. CASE Tick
  BY <1>0, <1>2 DEF Tick, NoticesCount, canary
<1>3. CASE Agent \/ UNCHANGED vars
  BY <1>1, <1>3 DEF Agent, StartSnapshot, CollectProcess, Evaluate, vars, canary
<1>4. CASE Host
  BY <1>1, <1>4 DEF Host, Start, Exit, Connect, Write, Delete, Change, canary
<1>5. CASE Check
  <2>1. modEvents' = Keep(Events, Alarm) /\ now' = now
    BY <1>5, CheckEffect
  <2>2. CASE Alarm
    <3>1. noticed' = [f \in Files |-> None]
      BY <1>5, <2>2, CheckEffect
    <3> QED BY <3>1 DEF NoticesCount
  <2>3. CASE ~ Alarm
    <3>1. modEvents' = Events
      BY <2>1, <2>3 DEF Keep
    <3>2. \A f \in Files : noticed'[f] = IF f \in dirty \cap present THEN now ELSE noticed[f]
      BY <1>5, <2>3, CheckEffect
    <3>3. \A f \in dirty \cap present : <<now, f>> \in Events
      <4>1. \A f \in dirty \cap present : f \in Changed
        BY DEF Changed, DirtyIsOutdated, CanaryOK
      <4> QED BY <1>0, <4>1 DEF Events, Recent
    <3>4. \A e \in modEvents : now - e[1] <= CanaryWindow => e \in Events
      BY DEF Events, Recent
    <3>5. ASSUME NEW f \in Files, noticed'[f] # None
          PROVE  noticed'[f] <= now /\ (now - noticed'[f] <= CanaryWindow => <<noticed'[f], f>> \in Events)
      <4>1. CASE f \in dirty \cap present
        BY <1>0, <3>2, <3>3, <4>1
      <4>2. CASE f \notin dirty \cap present
        BY <3>2, <3>4, <3>5, <4>2 DEF NoticesCount
      <4> QED BY <4>1, <4>2
    <3> QED BY <2>1, <3>1, <3>5 DEF NoticesCount
  <2> QED BY <2>2, <2>3
<1> QED BY <1>2, <1>3, <1>4, <1>5 DEF Next

-----------------------------------------------------------------------------
(***************************************************************************)
(* The inductive invariant.                                                *)
(***************************************************************************)
LEMMA InvInit == Init => Inv
<1> SUFFICES ASSUME Init
             PROVE  Inv
  OBVIOUS
<1>1. HostOK
  BY Numbers DEF Init, HostOK, Roles
<1>2. SnapshotOK
  BY DEF Init, SnapshotOK, Nothing, Roles
<1>3. RulesOK
  BY DEF Init, RulesOK
<1>4. CanaryOK
  <2>1. {e[2] : e \in modEvents} = {}
    BY DEF Init
  <2>2. Cardinality({e[2] : e \in modEvents}) < CanaryThreshold
    BY <2>1, FS_EmptySet, Numbers
  <2> QED BY <2>2 DEF Init, CanaryOK
<1>5. VersionsAreChanges /\ LogIsPast /\ HistoryIsLog /\ NoticesCount
  BY DEF Init, VersionsAreChanges, LogIsPast, HistoryIsLog, NoticesCount
<1>6. KeysAreTaken
  <2>1. Alerts = {}
    BY DEF Init, Alerts
  <2> QED BY <2>1 DEF Init, KeysAreTaken, Keys
<1>7. DirtyIsOutdated
  BY DEF Init, DirtyIsOutdated, None
<1>8. ScanIsFound
  <2> SUFFICES ASSUME NEW p \in Pids, NEW t \in Times
               PROVE  ~ (Cardinality(Window(p, t)) >= ScanThreshold)
    BY DEF Init, ScanIsFound, Window
  <2>1. Window(p, t) = {}
    BY DEF Init, Window
  <2> QED BY <2>1, FS_EmptySet, Numbers
<1> QED BY <1>1, <1>2, <1>3, <1>4, <1>5, <1>6, <1>7, <1>8, TypeParts DEF Inv

LEMMA InvStep == Inv /\ [Next]_vars => Inv'
<1> SUFFICES ASSUME Inv, [Next]_vars
             PROVE  Inv'
  OBVIOUS
<1>1. HostOK /\ SnapshotOK /\ RulesOK /\ CanaryOK
  BY TypeParts DEF Inv
<1>2. HostOK' /\ SnapshotOK' /\ RulesOK' /\ CanaryOK' /\ VersionsAreChanges'
  BY <1>1, HostStaysOK, SnapshotStaysOK, RulesStayOK, CanaryStaysOK DEF Inv
<1>3. TypeOK'
  BY <1>2 DEF TypeOK, HostOK, SnapshotOK, RulesOK, CanaryOK, Nothing, Keys
<1>4. KeysAreTaken' /\ LogIsPast' /\ HistoryIsLog' /\ ScanIsFound'
  BY <1>1, KeysStayTaken, LogStaysPast, HistoryStaysLog, ScanStaysFound DEF Inv
<1>5. DirtyIsOutdated' /\ NoticesCount'
  BY <1>1, DirtyStaysOutdated, NoticesStayCounted DEF Inv
<1> QED BY <1>2, <1>3, <1>4, <1>5 DEF Inv

THEOREM InvHolds == Spec => []Inv
BY InvInit, InvStep, PTL DEF Spec

-----------------------------------------------------------------------------
(***************************************************************************)
(* The variables of the host, the collector and the rules have their       *)
(* types, and the files counted for R4 are fewer than its threshold.       *)
(***************************************************************************)
THEOREM TypeCorrect == Spec => []TypeOK
<1>1. Inv => TypeOK
  BY DEF Inv
<1> QED BY <1>1, InvHolds, PTL

(***************************************************************************)
(* Of the rules and pids that share a key exactly one has raised an alert, *)
(* and that one alert, whatever the offsets of the rules are.              *)
(***************************************************************************)
THEOREM KeysAlertOnce == Spec => []OneAlertPerKey
<1>1. ASSUME Inv
      PROVE  OneAlertPerKey
  <2>0. KeysAreTaken /\ \A x \in Rules \X Pids : raised[x] \in Nat
    BY <1>1, TypeParts DEF Inv, RulesOK
  <2>1. \A x \in Rules \X Pids : raised[x] > 0 => x \in matched
    BY <2>0 DEF KeysAreTaken, Alerts
  <2>2. ASSUME NEW k \in Keys(matched)
        PROVE  \E x \in matched : /\ Key(x[1], x[2]) = k /\ raised[x] = 1
                                  /\ \A y \in matched \ {x} : Key(y[1], y[2]) = k => raised[y] = 0
    <3>1. k \in Keys(Alerts)
      BY <2>0 DEF KeysAreTaken
    <3>2. PICK x \in Alerts : Key(x[1], x[2]) = k
      BY <3>1 DEF Keys
    <3>3. x \in matched /\ raised[x] = 1
      BY <2>0 DEF KeysAreTaken
    <3>4. ASSUME NEW y \in matched \ {x}, Key(y[1], y[2]) = k
          PROVE  raised[y] = 0
      <4>1. y \in Rules \X Pids
        BY <1>1, TypeParts DEF Inv, RulesOK
      <4>2. y \notin Alerts
        BY <2>0, <3>2, <3>4 DEF KeysAreTaken
      <4> QED BY <2>0, <4>1, <4>2 DEF Alerts
    <3> QED BY <3>2, <3>3, <3>4
  <2> QED BY <2>1, <2>2 DEF OneAlertPerKey
<1> QED BY <1>1, InvHolds, PTL

(***************************************************************************)
(* R3 finds a scan exactly when some window of all that the snapshots have *)
(* shown holds enough ports, though its history is pruned and only the     *)
(* pids with a connection are looked at.                                   *)
(***************************************************************************)
THEOREM ScansAreFound == Spec => []ScanIsFound
<1>1. Inv => ScanIsFound
  BY DEF Inv
<1> QED BY <1>1, InvHolds, PTL

(***************************************************************************)
(* No burst of writes to the canary files stays without an alarm, however  *)
(* files are deleted and written again.                                    *)
(***************************************************************************)
THEOREM BurstsAreReported == Spec => []BurstIsReported
<1>1. ASSUME Inv
      PROVE  BurstIsReported
  <2> DEFINE Counted == {e[2] : e \in modEvents}
             Noticed == {f \in Files : noticed[f] # None /\ now - noticed[f] <= CanaryWindow}
  <2>1. modEvents \in SUBSET (Times \X Files) /\ Cardinality(Counted) < CanaryThreshold
    BY <1>1, TypeParts DEF Inv, CanaryOK
  <2>2. IsFiniteSet(Counted) /\ Cardinality(Counted) \in Nat
    BY <2>1, FilesOfEvents
  <2>3. \A f \in Noticed : <<noticed[f], f>> \in modEvents
    BY <1>1 DEF Inv, NoticesCount
  <2>4. Noticed \in SUBSET Counted
    <3>1. ASSUME NEW f \in Noticed
          PROVE  f \in Counted
      <4>1. <<noticed[f], f>> \in modEvents /\ <<noticed[f], f>>[2] = f
        BY <2>3
      <4> QED BY <4>1
    <3> QED BY <3>1
  <2> HIDE DEF Counted, Noticed
  <2>5. Cardinality(Noticed) <= Cardinality(Counted) /\ Cardinality(Noticed) \in Nat
    BY <2>2, <2>4, Smaller
  <2>6. Cardinality(Noticed) < CanaryThreshold
    BY <2>1, <2>2, <2>5, Numbers
  <2> QED BY <2>6 DEF Noticed, BurstIsReported
<1> QED BY <1>1, InvHolds, PTL

(***************************************************************************)
(* With offsets that keep the namespaces of the rules apart, as 900000 and *)
(* 800000 do for pids below 100000, no rule silences another: each has     *)
(* reported, once, every pid it has ever applied to.                       *)
(***************************************************************************)
EachIsReported == \A x \in matched : raised[x] = 1

THEOREM RulesStandApart ==
  ASSUME \A p, q \in Pids : /\ p # q + R2Offset /\ p # q + R3Offset
                            /\ p + R2Offset # q + R3Offset
  PROVE  Spec => []EachIsReported
<1>1. \A x, y \in Rules \X Pids : Key(x[1], x[2]) = Key(y[1], y[2]) => x = y
  <2> SUFFICES ASSUME NEW r \in Rules, NEW p \in Pids, NEW s \in Rules, NEW q \in Pids,
                      Key(r, p) = Key(s, q)
               PROVE  r = s /\ p = q
    OBVIOUS
  <2>1. p \in Nat /\ q \in Nat /\ R2Offset \in Nat /\ R3Offset \in Nat
    BY Numbers
  <2>2. CASE r = s
    <3>1. p = q
      BY <2>1, <2>2 DEF Key, Rules
    <3> QED BY <2>2, <3>1
  <2>3. CASE r # s
    BY <2>1, <2>3 DEF Key, Rules
  <2> QED BY <2>2, <2>3
<1>2. ASSUME Inv
      PROVE  EachIsReported
  <2>1. KeysAreTaken /\ matched \subseteq Rules \X Pids
    BY <1>2, TypeParts DEF Inv, RulesOK
  <2>2. ASSUME NEW x \in matched
        PROVE  raised[x] = 1
    <3>1. Key(x[1], x[2]) \in Keys(Alerts)
      BY <2>1 DEF KeysAreTaken, Keys
    <3>2. PICK y \in Alerts : Key(x[1], x[2]) = Key(y[1], y[2])
      BY <3>1 DEF Keys
    <3>3. x = y
      BY <1>1, <2>1, <3>2 DEF Alerts
    <3> QED BY <2>1, <3>3 DEF KeysAreTaken
  <2> QED BY <2>2 DEF EachIsReported
<1> QED BY <1>2, InvHolds, PTL
=============================================================================
