------------------------- MODULE ContainmentProofs -------------------------
(***************************************************************************)
(* Proofs about Containment, for every set of pids and every bound: the    *)
(* type invariant and the seven safety invariants of the run Containment.  *)
(***************************************************************************)
EXTENDS Containment, WellFoundedInduction, TLAPS

(***************************************************************************)
(* The parts of the inductive invariant.                                   *)
(***************************************************************************)
\* The part of TypeOK that is about the host's processes.
HostOK ==
  /\ born \in Procs /\ pid \in [Procs -> Pids]
  /\ st \in [Procs -> {"unborn", "run", "stop", "zombie", "gone"}]
  /\ parent \in [Procs -> Procs \cup {Reaper}] /\ lineage \in [Procs -> SUBSET Procs]
  /\ \A n \in Procs : st[n] = "unborn" <=> n > born
  /\ \A n, m \in Present : pid[n] = pid[m] => n = m

\* The part that is about the agent.
AgentOK ==
  /\ second \in Seconds
  /\ policy \in [enabled : BOOLEAN, autoKill : BOOLEAN, maySignal : BOOLEAN]
  /\ alerted \subseteq Pids \X Rules /\ batch \subseteq Alerts /\ answered \subseteq Alerts
  /\ pc \in {"idle", "next", "freeze", "read", "query", "persist", "open",
            "list", "map", "walk", "kill", "signal", "last", "block"}
  /\ alert \in Alerts \cup {NoAlert} /\ held \in BOOLEAN /\ artifact \in Artifacts
  /\ handle \in Procs \cup {Nobody} /\ unread \subseteq Pids /\ ppids \subseteq Pids \X Pids
  /\ kids \subseteq Procs /\ aim \in Procs \cup {Nobody} /\ swapped \in BOOLEAN
  /\ killed \subseteq Pids /\ victims \subseteq Procs /\ seen \subseteq Procs
  /\ files \in [Pids \X Seconds -> Contents]

\* A process descends from the one that forked it and from what that one
\* descends from; that one is its parent as long as it is alive.
Forks ==
  /\ \A n \in Procs : n > born => lineage[n] = {} /\ parent[n] = Reaper
  /\ \A n \in Procs : \A m \in lineage[n] : m < n /\ lineage[m] \subseteq lineage[n]
  /\ \A n \in Procs : parent[n] # Reaper =>
       parent[n] \in Alive /\ lineage[n] = lineage[parent[n]] \cup {parent[n]}
  /\ \A n \in Procs : lineage[n] # {} =>
       \E p \in Procs : lineage[n] = lineage[p] \cup {p} /\ (p \in Alive => parent[n] = p)

\* Only processes that were born are known to the agent.
Born == {n \in Procs : n <= born}
KnownAreBorn ==
  /\ alert # NoAlert => alert.proc \in Born
  /\ \A a \in batch \cup answered : a.proc \in Born
  /\ kids \subseteq Born /\ victims \subseteq Born /\ seen \subseteq Born
  /\ handle \in Born \cup {Nobody} /\ aim \in Born \cup {Nobody}

\* A process that is present is the last that was given its pid.
Latest(n) == n \in Born /\ \A m \in Born : pid[m] = pid[n] => m <= n
Holders == \A n \in Present : Latest(n)

\* The local variables of respond() at each of its steps.
Outside == {"idle", "next"}
Before == Outside \cup {"freeze"}
Engaged == {"list", "map", "walk", "kill", "signal", "last"}
Holding == {"read", "query", "persist", "open"} \cup Engaged
Locals ==
  /\ pc \in Outside <=> alert = NoAlert
  /\ pc \in Before => held = FALSE /\ victims = {}
  /\ pc # "map" => unread = {}
  /\ pc \notin {"map", "walk"} => ppids = {}
  /\ pc \notin {"walk", "kill", "signal"} => kids = {}
  /\ pc \in {"signal", "last"} <=> aim # Nobody
  /\ pc = "last" => aim = handle
  /\ pc \in Engaged => handle # Nobody
  /\ pc \notin {"kill", "signal", "last", "block"} => killed = {}
  /\ held => policy.maySignal

\* The alerts of a batch are of the rules, and a manual quarantine is alone.
Batches ==
  /\ \A b \in batch \cup answered : b.rule \in {"R1", "R2"}
  /\ pc = "idle" => batch = {}
  /\ pc \notin Outside /\ alert.rule = "MANUAL" => batch = {}

\* An alert is raised once: its key is that of one alert that is answered,
\* still to be handled or being handled.
Key(b) == <<pid[b.proc], b.rule>>
Handling == IF pc \notin Outside /\ alert.rule # "MANUAL" THEN {alert} ELSE {}
Once ==
  /\ \A b \in answered \cup batch \cup Handling : Key(b) \in alerted
  /\ \A b \in batch, c \in answered : Key(b) # Key(c)
  /\ \A b, c \in batch : Key(b) = Key(c) => b = c
  /\ \A b \in Handling, c \in answered \cup batch : Key(b) # Key(c)

\* No alert is forgotten, or one with a remote address is.
Known(x) == \E b \in answered \cup batch \cup Handling : x = Key(b)
Raised ==
  /\ alerted \subseteq Pids \X {"R1", "R2"}
  /\ (\A x \in alerted : Known(x)) \/ (\E q \in Pids : <<q, "R2">> \in alerted /\ ~ Known(<<q, "R2">>))

\* As long as no pid has changed hands between psutil's look and its use,
\* each pid in the parent map is that of a process which descends from the
\* one whose pid stands beside it, and kill() hits what it means to hit.
Entry(e) == \E n, k \in Born : /\ pid[n] = e[1] /\ pid[k] = e[2]
                               /\ Latest(n) /\ Latest(k) /\ k \in lineage[n]
Mapped == pc \in {"map", "walk"} /\ ~ swapped =>
            (\A e \in ppids : Entry(e)) /\ \A n \in kids : Latest(n)
Aimed == pc \in {"signal", "last"} /\ ~ swapped =>
           \A n \in Present : pid[n] = pid[aim] => n = aim

\* What is known while the process of the alert is in hand: it stays stopped
\* until it is killed, so every pid read meanwhile is its own.
Grip ==
  InHand =>
    /\ pc \in Holding => st[alert.proc] = "stop" \/ Target \in killed
    /\ pc \in Engaged => handle = alert.proc
    /\ pc \in {"query", "persist"} => artifact.proc = alert.proc
    /\ pc = "persist" => artifact.queried = alert.proc
    /\ Target \in killed => alert.proc \in Dead

\* And as long as no pid has changed hands that way either.
InTree(n) == n = alert.proc \/ alert.proc \in lineage[n]
Spared ==
  InHand /\ ~ swapped =>
    /\ \A n \in kids \cup victims : InTree(n)
    /\ pc \in {"signal", "last"} => InTree(aim)

\* What is frozen is the process the engine is about to kill.
Frozen ==
  policy.autoKill /\ policy.maySignal =>
    \A n \in Procs : st[n] = "stop" =>
      pc \in Holding /\ pid[n] = Target /\ (pc \in Engaged => handle = n)

\* What has been alive below the process of the alert since children()
\* began, and all between the two, will be found: its pid is still to be
\* read, or stands beside the one of its parent, or it is in the list.
InSight(n) ==
  /\ n \in Alive \cap seen /\ alert.proc \in lineage[n]
  /\ \A m \in lineage[n] : alert.proc \in lineage[m] => m \in Alive \cap seen
Found ==
  InHand /\ pc \in {"map", "walk"} =>
    \A n \in Procs : InSight(n) =>
      pid[n] \in unread \/ <<pid[n], pid[parent[n]]>> \in ppids \/ n \in kids

\* Later what is alive there is still to be killed, or it was not seen, or
\* something between the two was not.
Unseen(n) == \E m \in lineage[n] \cup {n} : alert.proc \in lineage[m] /\ m \notin seen
Sight ==
  InHand /\ (pc \in {"kill", "signal", "last"} \/ (pc = "block" /\ Target \in killed)) =>
    \A n \in Alive : alert.proc \in lineage[n] =>
      n \in kids \/ Unseen(n) \/ (pc = "signal" /\ n = aim)

Inv == /\ TypeOK /\ Forks /\ KnownAreBorn /\ Holders /\ Locals /\ Batches /\ Once /\ Raised
       /\ Mapped /\ Aimed /\ Grip /\ Spared /\ Frozen /\ Found /\ Sight

-----------------------------------------------------------------------------
(***************************************************************************)
(* Numbers.                                                                *)
(***************************************************************************)
LEMMA LeastNumber ==
  ASSUME NEW T \in SUBSET Nat, T # {}
  PROVE  \E m \in T : \A k \in T : ~ (k < m)
<1> DEFINE R == {ss \in Nat \X Nat : ss[1] < ss[2]}
<1>1. IsWellFoundedOn(R, Nat)
  BY NatLessThanWellFounded DEF OpToRel
<1>2. PICK m \in T : \A k \in T : ~ (<<k, m>> \in R)
  <2> HIDE DEF R
  <2> QED BY <1>1, WFMin
<1> QED BY <1>2

LEMMA ProcsAreNumbers ==
  /\ \A n \in Procs : n \in Nat /\ n # Reaper
  /\ \A n \in Nat : n < MaxProcs => n + 1 \in Procs
BY ProcsAssumption DEF Procs, Reaper

(***************************************************************************)
(* A pid names at most one process that is present.                        *)
(***************************************************************************)
LEMMA PidsName ==
  ASSUME HostOK
  PROVE  /\ \A p : At(p) \in Procs \cup {Nobody}
         /\ \A p : At(p) # Nobody => At(p) \in Present /\ pid[At(p)] = p
         /\ \A n \in Present : At(pid[n]) = n
<1>1. ASSUME NEW p
      PROVE  /\ At(p) \in Procs \cup {Nobody}
             /\ At(p) # Nobody => At(p) \in Present /\ pid[At(p)] = p
  <2>1. CASE \E n \in Present : pid[n] = p
    BY <2>1 DEF At, Present
  <2>2. CASE ~ \E n \in Present : pid[n] = p
    BY <2>2 DEF At
  <2> QED BY <2>1, <2>2
<1>2. ASSUME NEW n \in Present
      PROVE  At(pid[n]) = n
  <2>1. At(pid[n]) \in Present /\ pid[At(pid[n])] = pid[n]
    BY DEF At
  <2> QED BY <2>1 DEF HostOK
<1> QED BY <1>1, <1>2

-----------------------------------------------------------------------------
(***************************************************************************)
(* What a step may do to the host's processes.                             *)
(***************************************************************************)
Started(a, p) ==
  /\ born < MaxProcs
  /\ a = Reaper \/ (a \in Procs /\ st[a] = "run")
  /\ At(p) = Nobody
  /\ born' = born + 1
  /\ pid' = [pid EXCEPT ![born + 1] = p]
  /\ st' = [st EXCEPT ![born + 1] = "run"]
  /\ parent' = [parent EXCEPT ![born + 1] = a]
  /\ lineage' = [lineage EXCEPT ![born + 1] = IF a = Reaper THEN {} ELSE lineage[a] \cup {a}]

Stopped(n) == n \in Alive /\ st' = [st EXCEPT ![n] = "stop"] /\ UNCHANGED <<born, pid, parent, lineage>>
Reaped(n) == st[n] = "zombie" /\ st' = [st EXCEPT ![n] = "gone"] /\ UNCHANGED <<born, pid, parent, lineage>>

HostStep ==
  \/ UNCHANGED host
  \/ \E a \in Procs \cup {Reaper}, p \in Pids : Started(a, p)
  \/ \E n \in Procs : End(n) \/ Stopped(n) \/ Reaped(n)

LEMMA StepsOfHost ==
  ASSUME HostOK, [Next]_vars
  PROVE  HostStep
<1> USE DEF HostStep, host
<1>1. ASSUME NEW a \in Procs \cup {Reaper}, NEW p \in Pids, Fork(a, p)
      PROVE  HostStep
  BY <1>1 DEF Fork, Started
<1>2. ASSUME NEW n \in Procs, Exit(n) \/ KilledByOther(n) \/ Reap(n)
      PROVE  HostStep
  BY <1>2 DEF Exit, KilledByOther, Reap, Reaped
<1>3. CASE Freeze
  <2>1. At(Target) \in Alive => At(Target) \in Procs
    BY DEF Alive
  <2> QED BY <1>3, <2>1 DEF Freeze, Stopped
<1>4. CASE Signal
  <2>1. PICK k : k = At(pid[aim])
    OBVIOUS
  <2>2. Kill(k)
    BY <1>4, <2>1 DEF Signal
  <2>3. CASE k \in Present
    BY <2>2, <2>3 DEF Kill, Present
  <2>4. CASE k \notin Present
    BY <2>2, <2>4 DEF Kill
  <2> QED BY <2>3, <2>4
<1>5. CASE ReadParent \/ Walk \/ Listed \/ TakeChild \/ TakeParent
  BY <1>5 DEF ReadParent, Walk, Listed, TakeChild, TakeParent
<1>6. CASE Evaluate \/ Quarantine \/ NextAlert \/ BatchDone \/ ReadProc \/ QueryProcess \/ Persist
  BY <1>6 DEF Evaluate, Quarantine, NextAlert, BatchDone, ReadProc, QueryProcess, Persist
<1>7. CASE OpenProcess \/ ListChildren \/ Return \/ BlockRaises \/ UNCHANGED vars
  BY <1>7 DEF OpenProcess, ListChildren, Return, BlockRaises, vars
<1> QED BY <1>1, <1>2, <1>3, <1>4, <1>5, <1>6, <1>7 DEF Next, Host, Engine

LEMMA HostStaysOK ==
  ASSUME HostOK, HostStep
  PROVE  HostOK'
<1>1. CASE UNCHANGED host
  BY <1>1 DEF HostOK, host, Present
<1>2. ASSUME NEW a \in Procs \cup {Reaper}, NEW p \in Pids, Started(a, p)
      PROVE  HostOK'
  <2>1. born + 1 \in Procs /\ born \in Nat
    BY <1>2, ProcsAreNumbers, ProcsAssumption DEF HostOK, Started, Procs
  <2>2. /\ pid' \in [Procs -> Pids] /\ parent' \in [Procs -> Procs \cup {Reaper}]
        /\ st' \in [Procs -> {"unborn", "run", "stop", "zombie", "gone"}]
    BY <1>2, <2>1 DEF HostOK, Started
  <2>3. lineage' \in [Procs -> SUBSET Procs]
    BY <1>2, <2>1 DEF HostOK, Started
  <2>4. \A n \in Procs : st'[n] = "unborn" <=> n > born'
    BY <1>2, <2>1, ProcsAreNumbers DEF HostOK, Started
  <2>5. Present' = Present \cup {born + 1}
    BY <1>2, <2>1 DEF HostOK, Started, Present
  <2>6. \A n \in Present : pid'[n] = pid[n] /\ pid[n] # p
    <3>1. \A n \in Present : n \in Procs /\ n # born + 1
      BY <2>1, ProcsAreNumbers DEF HostOK, Present
    <3>2. \A n \in Present : n # Nobody
      BY ProcsAreNumbers DEF Present, Nobody, Reaper
    <3> QED BY <1>2, <2>1, <3>1, <3>2, PidsName DEF HostOK, Started
  <2>7. pid'[born + 1] = p
    BY <1>2, <2>1 DEF HostOK, Started
  <2>8. \A n, m \in Present' : pid'[n] = pid'[m] => n = m
    BY <2>5, <2>6, <2>7 DEF HostOK
  <2> QED BY <1>2, <2>1, <2>2, <2>3, <2>4, <2>8 DEF HostOK, Started
<1>3. ASSUME NEW n \in Procs, End(n) \/ Stopped(n) \/ Reaped(n)
      PROVE  HostOK'
  <2>1. UNCHANGED <<born, pid, lineage>>
    BY <1>3 DEF End, Stopped, Reaped
  <2>2. st' \in [Procs -> {"unborn", "run", "stop", "zombie", "gone"}]
    BY <1>3 DEF End, Stopped, Reaped, HostOK
  <2>3. parent' \in [Procs -> Procs \cup {Reaper}]
    BY <1>3 DEF End, Stopped, Reaped, HostOK
  <2>4. \A m \in Procs : st'[m] = "unborn" <=> st[m] = "unborn"
    BY <1>3 DEF End, Stopped, Reaped, HostOK, Alive
  <2>5. Present' \subseteq Present
    BY <1>3 DEF End, Stopped, Reaped, HostOK, Present, Alive
  <2> QED BY <2>1, <2>2, <2>3, <2>4, <2>5 DEF HostOK
<1> QED BY <1>1, <1>2, <1>3 DEF HostStep

(***************************************************************************)
(* A process keeps its pid and its lineage from its birth on, and the dead *)
(* stay dead.                                                              *)
(***************************************************************************)
LEMMA HostKeeps ==
  ASSUME HostOK, HostStep
  PROVE  /\ Born \subseteq Born'
         /\ \A n \in Born : pid'[n] = pid[n] /\ lineage'[n] = lineage[n]
         /\ Dead \subseteq Dead'
         /\ \A n \in Procs : n \notin Born' => n \notin Born
         /\ \A n \in Alive' : n \in Alive \/ n \notin Born
         /\ Present \cup Dead \subseteq Born
<1>0. /\ \A n \in Procs : n \in Born <=> ~ (n > born)
      /\ Dead \subseteq Born /\ Alive \subseteq Born /\ Present \subseteq Born
  BY ProcsAreNumbers DEF HostOK, Born, Dead, Alive, Present
<1>1. CASE UNCHANGED host
  <2>1. Born' = Born /\ Alive' = Alive /\ Dead' = Dead
    BY <1>1 DEF host, Born, Alive, Dead
  <2> QED BY <1>0, <1>1, <2>1 DEF host
<1>2. ASSUME NEW a \in Procs \cup {Reaper}, NEW p \in Pids, Started(a, p)
      PROVE  /\ Born' = Born \cup {born + 1} /\ born + 1 \notin Born
             /\ \A n \in Born : pid'[n] = pid[n] /\ lineage'[n] = lineage[n] /\ st'[n] = st[n]
  <2>1. born + 1 \in Procs /\ born \in Nat
    BY <1>2, ProcsAreNumbers, ProcsAssumption DEF HostOK, Started, Procs
  <2>2. born' = born + 1
    BY <1>2 DEF Started
  <2>3. Born' = Born \cup {born + 1} /\ born + 1 \notin Born
    BY <2>1, <2>2, ProcsAreNumbers DEF Born
  <2>4. \A n \in Born : n \in Procs /\ n # born + 1
    BY <2>3 DEF Born
  <2> QED BY <1>2, <2>1, <2>3, <2>4 DEF HostOK, Started
<1>3. ASSUME NEW n \in Procs, End(n) \/ Stopped(n) \/ Reaped(n)
      PROVE  /\ UNCHANGED <<born, pid, lineage>>
             /\ Dead \subseteq Dead' /\ Alive' \subseteq Alive
  BY <1>3 DEF End, Stopped, Reaped, HostOK, Dead, Alive
<1>4. ASSUME NEW a \in Procs \cup {Reaper}, NEW p \in Pids, Started(a, p)
      PROVE  Dead \subseteq Dead' /\ \A n \in Alive' : n \in Alive \/ n \notin Born
  BY <1>2, <1>0, <1>4 DEF Dead, Alive
<1>5. ASSUME NEW n \in Procs, End(n) \/ Stopped(n) \/ Reaped(n)
      PROVE  Born' = Born
  BY <1>3, <1>5 DEF Born
<1> QED BY <1>0, <1>1, <1>2, <1>3, <1>4, <1>5 DEF HostStep

LEMMA ForksStay ==
  ASSUME HostOK, Forks, HostStep
  PROVE  Forks'
<1>1. CASE UNCHANGED host
  BY <1>1 DEF Forks, host, Alive
<1>2. ASSUME NEW a \in Procs \cup {Reaper}, NEW p \in Pids, Started(a, p)
      PROVE  Forks'
  <2> DEFINE new == born + 1
  <2>1. new \in Procs /\ born \in Nat /\ born' = new
    BY <1>2, ProcsAreNumbers, ProcsAssumption DEF HostOK, Started, Procs
  <2>2. \A n \in Procs : n # new => /\ lineage'[n] = lineage[n] /\ parent'[n] = parent[n]
                                    /\ st'[n] = st[n]
    BY <1>2, <2>1 DEF HostOK, Started
  <2>3. /\ lineage'[new] = IF a = Reaper THEN {} ELSE lineage[a] \cup {a}
        /\ parent'[new] = a /\ st'[new] = "run"
    BY <1>2, <2>1 DEF HostOK, Started
  <2>4. a # Reaper => a \in Procs /\ a < new /\ a \in Alive
    BY <1>2, <2>1, ProcsAreNumbers DEF HostOK, Started, Alive
  <2>5. \A n \in Procs : n <= born => \A m \in lineage[n] : m \in Procs /\ m < new
    BY <2>1, ProcsAreNumbers DEF Forks, HostOK
  <2>6. \A n \in Procs : n <= born \/ n = new \/ n > new
    BY <2>1, ProcsAreNumbers
  <2>7. \A n \in Procs : n > new => n > born /\ n # new
    BY <2>1, ProcsAreNumbers
  <2>8. \A n \in Procs : n <= born => n # new
    BY <2>1, ProcsAreNumbers
  <2>9. \A m \in Procs : m < new => m # new /\ m <= born
    BY <2>1, ProcsAreNumbers
  <2> HIDE DEF new
  <2>10. \A n \in Procs : n > new => lineage'[n] = {} /\ parent'[n] = Reaper
    BY <2>2, <2>7 DEF Forks
  <2>11. \A n \in Procs : n <= born => \A m \in lineage[n] : lineage'[m] = lineage[m] /\ lineage'[n] = lineage[n]
    BY <2>2, <2>5, <2>8, <2>9
  <2>12. \A n \in Procs : \A m \in lineage'[n] : m < n /\ lineage'[m] \subseteq lineage'[n]
    <3>1. ASSUME NEW n \in Procs, n <= born, NEW m \in lineage'[n]
          PROVE  m < n /\ lineage'[m] \subseteq lineage'[n]
      <4>1. lineage'[n] = lineage[n]
        BY <2>2, <2>8, <3>1
      <4> QED BY <2>11, <3>1, <4>1 DEF Forks
    <3>2. ASSUME NEW m \in lineage'[new]
          PROVE  m < new /\ lineage'[m] \subseteq lineage'[new]
      <4>1. a # Reaper /\ a <= born /\ lineage'[a] = lineage[a]
        BY <2>2, <2>3, <2>4, <2>9, <3>2
      <4>2. lineage'[new] = lineage[a] \cup {a}
        BY <2>3, <4>1
      <4>3. m \in lineage[a] => m < new /\ lineage'[m] = lineage[m] /\ lineage[m] \subseteq lineage[a]
        BY <2>4, <2>5, <2>11, <4>1 DEF Forks
      <4> QED BY <2>4, <3>2, <4>1, <4>2, <4>3
    <3> QED BY <2>6, <2>10, <3>1, <3>2
  <2>15. \A n \in Procs : parent'[n] # Reaper => parent'[n] \in Alive'
    <3>1. \A n \in Procs : n <= born => parent'[n] = parent[n]
      BY <2>2, <2>8
    <3>2. \A n \in Alive : n \in Alive' \/ n = new
      BY <2>2 DEF Alive
    <3>3. new \in Alive'
      BY <2>1, <2>3 DEF Alive
    <3>4. a # Reaper => a \in Alive'
      BY <2>4, <2>9, <3>2
    <3> QED BY <2>3, <2>6, <2>10, <3>1, <3>2, <3>3, <3>4 DEF Forks
  <2>13. \A n \in Procs : parent'[n] # Reaper => lineage'[n] = lineage'[parent'[n]] \cup {parent'[n]}
    <3>1. ASSUME NEW n \in Procs, n <= born, parent[n] # Reaper
          PROVE  lineage'[n] = lineage'[parent'[n]] \cup {parent'[n]}
      <4>1. parent[n] \in lineage[n]
        BY <3>1 DEF Forks
      <4> QED BY <2>2, <2>8, <2>11, <3>1, <4>1 DEF Forks
    <3>2. a # Reaper => lineage'[new] = lineage'[parent'[new]] \cup {parent'[new]}
      BY <2>2, <2>3, <2>4, <2>9
    <3>3. \A n \in Procs : n <= born => parent'[n] = parent[n]
      BY <2>2, <2>8
    <3> QED BY <2>3, <2>6, <2>10, <3>1, <3>2, <3>3
  <2>14. \A n \in Procs : lineage'[n] # {} =>
           \E q \in Procs : lineage'[n] = lineage'[q] \cup {q} /\ (q \in Alive' => parent'[n] = q)
    <3>1. ASSUME NEW n \in Procs, n <= born, lineage'[n] # {}
          PROVE  \E q \in Procs : lineage'[n] = lineage'[q] \cup {q} /\ (q \in Alive' => parent'[n] = q)
      <4>1. lineage'[n] = lineage[n] /\ parent'[n] = parent[n]
        BY <2>2, <2>8, <3>1
      <4>2. PICK q \in Procs : lineage[n] = lineage[q] \cup {q} /\ (q \in Alive => parent[n] = q)
        BY <3>1, <4>1 DEF Forks
      <4>3. q # new /\ lineage'[q] = lineage[q] /\ st'[q] = st[q]
        BY <2>2, <2>5, <2>9, <3>1, <4>2
      <4> QED BY <4>1, <4>2, <4>3 DEF Alive
    <3>2. lineage'[new] # {} =>
           \E q \in Procs : lineage'[new] = lineage'[q] \cup {q} /\ (q \in Alive' => parent'[new] = q)
      BY <2>2, <2>3, <2>4, <2>9
    <3> QED BY <2>6, <2>10, <3>1, <3>2
  <2> QED BY <2>1, <2>10, <2>12, <2>13, <2>14, <2>15 DEF Forks
<1>3. ASSUME NEW n \in Procs, End(n) \/ Stopped(n) \/ Reaped(n)
      PROVE  Forks'
  <2>1. UNCHANGED <<born, lineage>>
    BY <1>3 DEF End, Stopped, Reaped
  <2>2. \A m \in Procs : parent'[m] = parent[m] \/ (parent'[m] = Reaper /\ End(n) /\ parent[m] = n)
    BY <1>3 DEF End, Stopped, Reaped
  <2>3. Alive' \subseteq Alive /\ (End(n) => n \notin Alive')
    BY <1>3 DEF End, Stopped, Reaped, HostOK, Alive
  <2>4. \A m \in Procs : parent'[m] # Reaper => parent'[m] = parent[m]
    BY <2>2
  <2>5. \A m, q \in Procs : q \in Alive' /\ parent[m] = q => parent'[m] = q
    BY <2>2, <2>3
  <2>6. \A m \in Procs : m > born => parent'[m] = Reaper
    BY <2>2 DEF Forks
  <2>7. \A m \in Procs : parent'[m] # Reaper => parent'[m] \in Alive'
    <3>1. \A m \in Alive : m \in Alive' \/ (End(n) /\ m = n)
      BY <1>3 DEF End, Stopped, Reaped, HostOK, Alive
    <3>2. ASSUME NEW m \in Procs, parent'[m] # Reaper, End(n)
          PROVE  parent'[m] # n
      BY <3>2, ProcsAreNumbers DEF End
    <3> QED BY <2>4, <3>1, <3>2 DEF Forks
  <2> QED BY <2>1, <2>3, <2>4, <2>5, <2>6, <2>7 DEF Forks
<1> QED BY <1>1, <1>2, <1>3 DEF HostStep

LEMMA TypeParts == TypeOK <=> HostOK /\ others \subseteq Dead /\ AgentOK
BY DEF TypeOK, HostOK, AgentOK

-----------------------------------------------------------------------------
(***************************************************************************)
(* The types of the agent's variables.                                     *)
(***************************************************************************)
LocalTypes ==
  /\ alert \in Alerts \cup {NoAlert} /\ held \in BOOLEAN /\ artifact \in Artifacts
  /\ handle \in Procs \cup {Nobody} /\ unread \subseteq Pids /\ ppids \subseteq Pids \X Pids
  /\ kids \subseteq Procs /\ aim \in Procs \cup {Nobody}
  /\ killed \subseteq Pids /\ victims \subseteq Procs /\ seen \subseteq Procs

LEMMA RespondKeepsTypes ==
  ASSUME AgentOK, NEW a \in Alerts, Respond(a)
  PROVE  pc' \in {"next", "freeze"} /\ answered' \subseteq Alerts /\ LocalTypes'
BY DEF AgentOK, Respond, response, listing, LocalTypes

LEMMA KillKeepsTypes ==
  ASSUME HostOK, AgentOK, NEW n, Kill(n)
  PROVE  killed' \subseteq Pids /\ victims' \subseteq Procs
BY DEF AgentOK, HostOK, Kill, Present

LEMMA LeaveKeepsTypes ==
  ASSUME AgentOK, Leave
  PROVE  LocalTypes' /\ swapped' \in BOOLEAN
<1>1. 0 \in Seconds
  BY ClockAssumption DEF Seconds
<1>2. artifact' \in Artifacts
  BY <1>1 DEF Leave, Empty, Artifacts
<1> QED BY <1>2 DEF Leave, LocalTypes, AgentOK, listing

LEMMA AgentStaysOK ==
  ASSUME HostOK, AgentOK, pc = "block" => alert # NoAlert, [Next]_vars
  PROVE  AgentOK'
<1>1. ASSUME NEW a \in Procs \cup {Reaper}, NEW p \in Pids, Fork(a, p)
      PROVE  AgentOK'
  <2>1. swapped' \in BOOLEAN
    BY <1>1 DEF Fork, AgentOK
  <2> QED BY <1>1, <2>1 DEF Fork, AgentOK, detection, response, listing
<1>2. ASSUME NEW n \in Procs, Exit(n) \/ KilledByOther(n) \/ Reap(n)
      PROVE  AgentOK'
  BY <1>2 DEF Exit, KilledByOther, Reap, AgentOK, detection, response, listing
<1>3. CASE Evaluate
  <2>1. PICK A \in SUBSET Suspect :
          batch' = A /\ alerted' = alerted \cup {<<pid[a.proc], a.rule>> : a \in A}
    BY <1>3 DEF Evaluate
  <2>2. A \subseteq Alerts
    BY DEF Suspect, Alerts, Present, Rules
  <2>3. \A a \in A : a.proc \in Procs /\ a.rule \in Rules
    BY <2>2 DEF Alerts
  <2>4. alerted' \subseteq Pids \X Rules
    BY <2>1, <2>3 DEF HostOK, AgentOK
  <2> QED BY <1>3, <2>1, <2>2, <2>4 DEF Evaluate, AgentOK, response, listing
<1>4. CASE NextAlert
  <2>1. PICK a \in batch : batch' = batch \ {a} /\ Respond(a)
    BY <1>4 DEF NextAlert
  <2> QED BY <1>4, <2>1, RespondKeepsTypes DEF NextAlert, AgentOK, LocalTypes
<1>5. CASE Quarantine
  <2>1. PICK n \in {a.proc : a \in answered} : Respond([proc |-> n, rule |-> "MANUAL"])
    BY <1>5 DEF Quarantine
  <2>2. [proc |-> n, rule |-> "MANUAL"] \in Alerts
    BY DEF AgentOK, Alerts, Rules
  <2> QED BY <1>5, <2>1, <2>2, RespondKeepsTypes DEF Quarantine, AgentOK, LocalTypes
<1>6. CASE BatchDone
  BY <1>6 DEF BatchDone, AgentOK, detection, response, listing
<1>7. CASE Freeze
  <2>1. At(Target) \in Alive => At(Target) \in Procs
    BY DEF Alive
  <2> QED BY <1>7, <2>1 DEF Freeze, AgentOK, detection, listing
<1>8. CASE ReadProc
  <2>1. second' \in Seconds
    BY <1>8, ClockAssumption DEF ReadProc, AgentOK, Seconds
  <2>2. artifact' \in Artifacts
    BY <1>8, <2>1, PidsName DEF ReadProc, Empty, Artifacts
  <2> QED BY <1>8, <2>1, <2>2 DEF ReadProc, AgentOK, detection, listing
<1>9. CASE QueryProcess
  <2>1. artifact' \in Artifacts
    BY <1>9, PidsName DEF QueryProcess, AgentOK, Artifacts
  <2> QED BY <1>9, <2>1 DEF QueryProcess, AgentOK, detection, listing
<1>10. CASE Persist
  <2>1. artifact' \in Artifacts
    BY <1>10, ClockAssumption DEF Persist, Empty, Artifacts, Nobody, Seconds
  <2>2. files' \in [Pids \X Seconds -> Contents]
    BY <1>10 DEF Persist, AgentOK, Contents, Worth
  <2> QED BY <1>10, <2>1, <2>2 DEF Persist, AgentOK, detection, listing
<1>11. CASE OpenProcess
  BY <1>11, PidsName DEF OpenProcess, AgentOK, detection, listing
<1>12. CASE ListChildren
  <2>1. {pid[n] : n \in Present} \subseteq Pids /\ Alive \subseteq Procs
    BY DEF HostOK, Present, Alive
  <2> QED BY <1>12, <2>1 DEF ListChildren, AgentOK, detection
<1>13. CASE ReadParent
  <2>1. PICK p \in unread :
          /\ unread' = unread \ {p}
          /\ ppids' = ppids \cup {<<p, pid[parent[n]]>> : n \in {n \in Present : pid[n] = p /\ parent[n] # Reaper}}
    BY <1>13 DEF ReadParent
  <2>2. \A n \in Present : parent[n] # Reaper => pid[parent[n]] \in Pids
    BY DEF HostOK, Present, Reaper
  <2>3. p \in Pids
    BY DEF AgentOK
  <2>4. ppids' \subseteq Pids \X Pids /\ unread' \subseteq Pids
    BY <2>1, <2>2, <2>3 DEF AgentOK
  <2> QED BY <1>13, <2>4 DEF ReadParent, AgentOK, detection
<1>14. CASE Walk
  <2>1. kids' \subseteq Procs /\ ppids' \subseteq ppids
    BY <1>14 DEF Walk, AgentOK, Present
  <2> QED BY <1>14, <2>1 DEF Walk, AgentOK, detection
<1>18. CASE Listed \/ TakeParent
  BY <1>18 DEF Listed, TakeParent, Take, AgentOK, detection, listing
<1>19. CASE TakeChild
  <2>1. PICK n \in kids : Take(n, "signal", "kill") /\ kids' = kids \ {n}
    BY <1>19 DEF TakeChild
  <2>2. n \in Procs
    BY DEF AgentOK
  <2>3. aim' \in Procs \cup {Nobody} /\ pc' \in {"signal", "kill"}
    BY <2>1, <2>2 DEF Take
  <2> QED BY <1>19, <2>1, <2>3 DEF TakeChild, AgentOK, detection, listing
<1>20. CASE Signal
  <2>1. killed' \subseteq Pids /\ victims' \subseteq Procs
    BY <1>20, KillKeepsTypes DEF Signal
  <2> QED BY <1>20, <2>1 DEF Signal, AgentOK, detection, listing
<1>15. CASE Return
  <2>1. alert \in Alerts
    BY <1>15 DEF Return, AgentOK
  <2> QED BY <1>15, <2>1, LeaveKeepsTypes DEF Return, AgentOK, LocalTypes
<1>16. CASE BlockRaises
  BY <1>16, LeaveKeepsTypes DEF BlockRaises, AgentOK, LocalTypes
<1>17. CASE UNCHANGED vars
  BY <1>17 DEF vars, AgentOK, detection, response, listing
<1> QED BY <1>1, <1>2, <1>3, <1>4, <1>5, <1>6, <1>7, <1>8, <1>9, <1>10, <1>11, <1>12, <1>13,
           <1>14, <1>15, <1>16, <1>17, <1>18, <1>19, <1>20 DEF Next, Host, Engine

LEMMA OthersStayDead ==
  ASSUME HostOK, others \subseteq Dead, HostStep, [Next]_vars
  PROVE  others' \subseteq Dead'
<1>1. ASSUME NEW n \in Procs, KilledByOther(n)
      PROVE  others' \subseteq Dead'
  <2>1. n \in Dead' /\ others' = others \cup {n}
    BY <1>1 DEF KilledByOther, End, HostOK, Dead
  <2> QED BY <2>1, HostKeeps
<1>2. ASSUME NEW a \in Procs \cup {Reaper}, NEW p \in Pids, Fork(a, p)
      PROVE  others' = others
  BY <1>2 DEF Fork
<1>3. ASSUME NEW n \in Procs, Exit(n) \/ Reap(n)
      PROVE  others' = others
  BY <1>3 DEF Exit, Reap
<1>4. CASE Evaluate \/ Quarantine \/ NextAlert \/ BatchDone \/ Freeze \/ ReadProc \/ QueryProcess
  BY <1>4, HostKeeps DEF Evaluate, Quarantine, NextAlert, BatchDone, Freeze, ReadProc, QueryProcess
<1>5. CASE Persist \/ OpenProcess \/ ListChildren \/ ReadParent \/ Walk \/ Listed
  BY <1>5, HostKeeps DEF Persist, OpenProcess, ListChildren, ReadParent, Walk, Listed
<1>6. CASE Return \/ BlockRaises \/ UNCHANGED vars
  BY <1>6, HostKeeps DEF Return, BlockRaises, vars
<1>7. CASE TakeChild \/ TakeParent \/ Signal
  BY <1>7, HostKeeps DEF TakeChild, TakeParent, Signal
<1> QED BY <1>1, <1>2, <1>3, <1>4, <1>5, <1>6, <1>7, HostKeeps DEF Next, Host, Engine

LEMMA TypeStep ==
  ASSUME TypeOK, Locals, [Next]_vars
  PROVE  TypeOK' /\ HostStep
<1>1. HostOK /\ others \subseteq Dead /\ AgentOK /\ (pc = "block" => alert # NoAlert)
  BY TypeParts DEF Locals, Outside
<1>2. HostStep
  BY <1>1, StepsOfHost
<1>3. HostOK' /\ others' \subseteq Dead' /\ AgentOK'
  BY <1>1, <1>2, HostStaysOK, OthersStayDead, AgentStaysOK
<1>4. TypeOK'
  BY <1>3 DEF TypeOK, HostOK, AgentOK, Alive, Present, Dead
<1> QED BY <1>2, <1>4

-----------------------------------------------------------------------------
(***************************************************************************)
(* Only processes that were born are known to the agent.                   *)
(***************************************************************************)
LEMMA KnownStay ==
  ASSUME HostOK, AgentOK, KnownAreBorn, Locals, HostStep, [Next]_vars
  PROVE  KnownAreBorn'
<1> USE DEF KnownAreBorn
<1>0. /\ Born \subseteq Born' /\ Present \subseteq Born /\ Alive \subseteq Born
      /\ \A p : At(p) \in Born \cup {Nobody}
  <2>1. Born \subseteq Born' /\ Present \subseteq Born
    BY HostKeeps
  <2> QED BY <2>1, PidsName DEF Alive, Present
<1>1. ASSUME UNCHANGED <<batch, answered, response>>
      PROVE  KnownAreBorn'
  BY <1>0, <1>1 DEF response, listing
<1>2. ASSUME NEW a \in Procs \cup {Reaper}, NEW p \in Pids, Fork(a, p)
      PROVE  KnownAreBorn'
  BY <1>1, <1>2 DEF Fork, detection
<1>3. ASSUME NEW n \in Procs, Exit(n) \/ KilledByOther(n) \/ Reap(n)
      PROVE  KnownAreBorn'
  BY <1>1, <1>3 DEF Exit, KilledByOther, Reap, detection
<1>4. CASE BatchDone \/ UNCHANGED vars
  BY <1>1, <1>4 DEF BatchDone, vars, detection
<1>5. CASE Evaluate
  <2>1. \A b \in batch' : b.proc \in Born
    BY <1>0, <1>5 DEF Evaluate, Suspect
  <2> QED BY <1>0, <1>5, <2>1 DEF Evaluate, response, listing
<1>6. ASSUME NEW a, a.proc \in Born, Respond(a), batch' \subseteq batch
      PROVE  KnownAreBorn'
  <2>1. alert' = a \/ alert' = alert
    BY <1>6 DEF Respond, response, listing
  <2>2. \A b \in answered' : b \in answered \/ b = a
    BY <1>6 DEF Respond, Manual
  <2>3. UNCHANGED <<kids, victims, seen, handle, aim>>
    BY <1>6 DEF Respond, response, listing
  <2>4. alert' # NoAlert => alert'.proc \in Born'
    BY <1>0, <1>6, <2>1
  <2>5. \A b \in batch' \cup answered' : b.proc \in Born'
    BY <1>0, <1>6, <2>2
  <2> QED BY <1>0, <2>3, <2>4, <2>5
<1>7. CASE NextAlert
  BY <1>6, <1>7 DEF NextAlert
<1>8. CASE Quarantine
  <2>1. PICK n \in {a.proc : a \in answered} : Respond([proc |-> n, rule |-> "MANUAL"])
    BY <1>8 DEF Quarantine
  <2>2. n \in Born
    OBVIOUS
  <2> QED BY <1>6, <1>8, <2>1, <2>2 DEF Quarantine
<1>9. CASE Freeze
  BY <1>0, <1>9 DEF Freeze, detection
<1>10. CASE ReadProc \/ QueryProcess \/ Persist
  BY <1>0, <1>10 DEF ReadProc, QueryProcess, Persist, detection
<1>11. CASE OpenProcess
  BY <1>0, <1>11 DEF OpenProcess, detection
<1>12. CASE ListChildren \/ ReadParent \/ Listed
  BY <1>0, <1>12 DEF ListChildren, ReadParent, Listed, detection
<1>13. CASE Walk
  <2>1. kids' \subseteq Born
    BY <1>0, <1>13 DEF Walk
  <2> QED BY <1>0, <1>13, <2>1 DEF Walk, detection
<1>14. CASE TakeChild \/ TakeParent
  BY <1>0, <1>14 DEF TakeChild, TakeParent, Take, detection
<1>17. CASE Signal
  <2>1. PICK k : k = At(pid[aim])
    OBVIOUS
  <2>2. Kill(k)
    BY <1>17, <2>1 DEF Signal
  <2>3. victims' \subseteq Born
    BY <1>0, <2>2 DEF Kill
  <2> QED BY <1>0, <1>17, <2>3 DEF Signal, detection
<1>15. CASE Return
  <2>1. alert # NoAlert
    BY <1>15 DEF Return, Locals, Outside
  <2>2. \A b \in answered' : b \in answered \/ b = alert
    BY <1>15 DEF Return
  <2>3. \A b \in batch' \cup answered' : b.proc \in Born'
    BY <1>0, <1>15, <2>1, <2>2 DEF Return
  <2> QED BY <1>0, <1>15, <2>3 DEF Return, Leave, Nobody
<1>16. CASE BlockRaises
  BY <1>0, <1>16 DEF BlockRaises, Leave
<1> QED BY <1>2, <1>3, <1>4, <1>5, <1>7, <1>8, <1>9, <1>10, <1>11, <1>12, <1>13,
           <1>14, <1>15, <1>16, <1>17 DEF Next, Host, Engine

(***************************************************************************)
(* A pid is given anew only when nobody has it, so the processes that are  *)
(* present are the last of their pids; and one that is the last of its pid *)
(* stays so until the pid is given to another.                             *)
(***************************************************************************)
LEMMA LatestStays ==
  ASSUME HostOK, NEW a \in Procs \cup {Reaper}, NEW p \in Pids, Started(a, p)
  PROVE  /\ \A n \in Procs : Latest(n) /\ pid[n] # p => Latest(n)'
         /\ \A k : k = born + 1 => Latest(k)'
         /\ Present' = Present \cup {born + 1} /\ pid'[born + 1] = p
         /\ \A n \in Present : pid'[n] = pid[n] /\ pid[n] # p
<1>1. born + 1 \in Procs /\ born \in Nat /\ born' = born + 1
  BY ProcsAreNumbers, ProcsAssumption DEF HostOK, Started, Procs
<1>2. Born' = Born \cup {born + 1} /\ \A n \in Born : n \in Procs /\ n # born + 1 /\ n <= born + 1
  BY <1>1, ProcsAreNumbers DEF Born
<1>3. pid'[born + 1] = p /\ \A n \in Born : pid'[n] = pid[n]
  BY <1>1, <1>2 DEF HostOK, Started
<1>4. Present' = Present \cup {born + 1}
  BY <1>1 DEF HostOK, Started, Present
<1>5. Present \subseteq Born
  BY ProcsAreNumbers DEF HostOK, Present, Born
<1>6. \A n \in Present : pid'[n] = pid[n] /\ pid[n] # p
  <2>1. \A n \in Present : n # Nobody
    BY ProcsAreNumbers DEF Present, Nobody, Reaper
  <2> QED BY <1>3, <1>5, <2>1, PidsName DEF Started
<1>7. ASSUME NEW n \in Procs, Latest(n), pid[n] # p
      PROVE  Latest(n)'
  BY <1>2, <1>3, <1>7 DEF Latest
<1>8. ASSUME NEW k, k = born + 1
      PROVE  Latest(k)'
  BY <1>1, <1>2, <1>8 DEF Latest
<1> QED BY <1>3, <1>4, <1>6, <1>7, <1>8

LEMMA HoldersStay ==
  ASSUME HostOK, Holders, HostStep
  PROVE  Holders'
<1>1. CASE UNCHANGED host
  BY <1>1 DEF host, Holders, Latest, Present, Born
<1>2. ASSUME NEW a \in Procs \cup {Reaper}, NEW p \in Pids, Started(a, p)
      PROVE  Holders'
  <2>1. \A n \in Present : n \in Procs
    BY DEF Present
  <2> QED BY <1>2, <2>1, LatestStays DEF Holders
<1>3. ASSUME NEW n \in Procs, End(n) \/ Stopped(n) \/ Reaped(n)
      PROVE  Holders'
  <2>1. UNCHANGED <<born, pid>> /\ Present' \subseteq Present
    BY <1>3 DEF End, Stopped, Reaped, HostOK, Present, Alive
  <2> QED BY <2>1 DEF Holders, Latest, Born
<1> QED BY <1>1, <1>2, <1>3 DEF HostStep

(***************************************************************************)
(* What the local variables of respond() are at each of its steps.         *)
(***************************************************************************)
LEMMA NoAlertIsNone == NoAlert \notin Alerts
BY ProcsAreNumbers DEF NoAlert, Alerts, Nobody, Reaper

LEMMA LocalsStay ==
  ASSUME AgentOK, Locals, [Next]_vars
  PROVE  Locals'
<1> USE DEF Locals, Before, Outside, Engaged, listing
<1>1. ASSUME UNCHANGED <<pc, policy, response>>
      PROVE  Locals'
  BY <1>1 DEF response, listing
<1>2. ASSUME NEW a \in Procs \cup {Reaper}, NEW p \in Pids, Fork(a, p)
      PROVE  Locals'
  BY <1>1, <1>2 DEF Fork
<1>3. ASSUME NEW n \in Procs, Exit(n) \/ KilledByOther(n) \/ Reap(n)
      PROVE  Locals'
  BY <1>1, <1>3 DEF Exit, KilledByOther, Reap
<1>4. CASE UNCHANGED vars
  BY <1>1, <1>4 DEF vars
<1>5. CASE Evaluate \/ BatchDone
  BY <1>5 DEF Evaluate, BatchDone, response, listing
<1>6. ASSUME NEW a \in Alerts, Respond(a), pc \in Outside, UNCHANGED policy
      PROVE  Locals'
  BY <1>6, NoAlertIsNone DEF Respond, response, listing
<1>7. CASE NextAlert
  BY <1>6, <1>7 DEF NextAlert, AgentOK
<1>8. CASE Quarantine
  <2>1. PICK n \in {a.proc : a \in answered} : Respond([proc |-> n, rule |-> "MANUAL"])
    BY <1>8 DEF Quarantine
  <2>2. [proc |-> n, rule |-> "MANUAL"] \in Alerts
    BY DEF AgentOK, Alerts, Rules
  <2> QED BY <1>6, <1>8, <2>1, <2>2 DEF Quarantine
<1>9. CASE Freeze
  <2>1. UNCHANGED <<policy, alert, kids, killed>>
    BY <1>9 DEF Freeze
  <2>2. held' => policy.maySignal
    BY <1>9 DEF Freeze
  <2> QED BY <1>9, <2>1, <2>2 DEF Freeze
<1>10. CASE ReadProc \/ QueryProcess
  BY <1>10 DEF ReadProc, QueryProcess
<1>11. CASE Persist
  BY <1>11 DEF Persist
<1>12. CASE OpenProcess
  BY <1>12 DEF OpenProcess
<1>13. CASE ListChildren \/ ReadParent
  BY <1>13 DEF ListChildren, ReadParent
<1>14. CASE Walk \/ Listed
  BY <1>14 DEF Walk, Listed
<1>15. CASE TakeChild
  <2>1. PICK n \in kids : Take(n, "signal", "kill") /\ kids' = kids \ {n}
    BY <1>15 DEF TakeChild
  <2>2. n # Nobody
    BY ProcsAreNumbers DEF AgentOK, Nobody, Reaper
  <2> QED BY <1>15, <2>1, <2>2 DEF TakeChild, Take, listing
<1>17. CASE TakeParent
  BY <1>17 DEF TakeParent, Take, listing
<1>18. CASE Signal
  BY <1>18 DEF Signal, listing
<1>16. CASE Return \/ BlockRaises
  BY <1>16 DEF Return, BlockRaises, Leave, listing
<1> QED BY <1>2, <1>3, <1>4, <1>5, <1>7, <1>8, <1>9, <1>10, <1>11, <1>12, <1>13,
           <1>14, <1>15, <1>16, <1>17, <1>18 DEF Next, Host, Engine

LEMMA BatchesStay ==
  ASSUME AgentOK, Locals, Batches, [Next]_vars
  PROVE  Batches'
<1> USE DEF Batches, Outside
<1>1. ASSUME UNCHANGED <<batch, answered, alert>>,
             pc' = pc \/ (pc \notin Outside /\ pc' # "idle")
      PROVE  Batches'
  BY <1>1
<1>2. ASSUME NEW a \in Procs \cup {Reaper}, NEW p \in Pids, Fork(a, p)
      PROVE  Batches'
  BY <1>1, <1>2 DEF Fork, detection, response
<1>3. ASSUME NEW n \in Procs, Exit(n) \/ KilledByOther(n) \/ Reap(n)
      PROVE  Batches'
  BY <1>1, <1>3 DEF Exit, KilledByOther, Reap, detection, response
<1>4. CASE Signal \/ UNCHANGED vars
  BY <1>1, <1>4 DEF Signal, vars, detection, response
<1>5. CASE Evaluate
  <2>1. batch' \subseteq Suspect /\ pc' = "next" /\ answered' = answered /\ alert' = alert
    BY <1>5 DEF Evaluate, response
  <2>2. \A b \in Suspect : b.rule \in {"R1", "R2"}
    BY DEF Suspect
  <2> QED BY <2>1, <2>2
<1>6. CASE BatchDone
  BY <1>6 DEF BatchDone, detection, response
<1>7. CASE NextAlert
  <2>1. PICK a \in batch : batch' = batch \ {a} /\ Respond(a)
    BY <1>7 DEF NextAlert
  <2>2. /\ pc' = "next" \/ (pc' = "freeze" /\ alert' = a)
        /\ answered' \subseteq answered \cup {a}
    BY <2>1 DEF Respond
  <2> QED BY <2>1, <2>2
<1>8. CASE Quarantine
  <2>1. PICK n \in {a.proc : a \in answered} : Respond([proc |-> n, rule |-> "MANUAL"])
    BY <1>8 DEF Quarantine
  <2>2. /\ pc' = "next" \/ (pc' = "freeze" /\ alert' = [proc |-> n, rule |-> "MANUAL"])
        /\ batch' = batch /\ batch = {}
    BY <1>8, <2>1 DEF Respond, Quarantine
  <2>3. n \in Procs
    BY DEF AgentOK, Alerts
  <2>4. [proc |-> n, rule |-> "MANUAL"] \in Manual
    BY <2>3 DEF Manual
  <2>5. answered' = answered
    BY <2>1, <2>4 DEF Respond
  <2> QED BY <2>2, <2>5
<1>9. CASE Freeze \/ ReadProc \/ QueryProcess \/ Persist
  BY <1>1, <1>9 DEF Freeze, ReadProc, QueryProcess, Persist, detection
<1>10. CASE OpenProcess \/ ListChildren \/ ReadParent \/ Walk \/ Listed
  BY <1>1, <1>10 DEF OpenProcess, ListChildren, ReadParent, Walk, Listed, detection
<1>11. CASE TakeChild \/ TakeParent
  BY <1>1, <1>11 DEF TakeChild, TakeParent, Take, detection
<1>12. CASE Return
  <2>1. alert \in Alerts
    BY <1>12 DEF Return, AgentOK, Locals
  <2>2. \A b \in answered' : b \in answered \/ b.rule \in {"R1", "R2"}
    BY <1>12, <2>1 DEF Return, Manual, Alerts, Rules
  <2> QED BY <1>12, <2>2 DEF Return, Leave, NoAlert
<1>13. CASE BlockRaises
  BY <1>13 DEF BlockRaises, Leave, NoAlert
<1> QED BY <1>2, <1>3, <1>4, <1>5, <1>6, <1>7, <1>8, <1>9, <1>10, <1>11, <1>12, <1>13
        DEF Next, Host, Engine

(***************************************************************************)
(* Each alert is raised once, and none is forgotten, save where a failed   *)
(* firewall call has ended a batch: that one's alert had a remote address. *)
(***************************************************************************)
LEMMA KeysStay ==
  ASSUME HostOK, KnownAreBorn, Locals, HostStep
  PROVE  /\ \A b \in answered \cup batch : Key(b)' = Key(b)
         /\ \A b \in Handling : Key(b)' = Key(b)
         /\ pc \notin Outside => pid'[alert.proc] = pid[alert.proc]
BY HostKeeps DEF KnownAreBorn, Key, Handling, Locals

\* What the engine's steps within respond() leave to these two.
LEMMA RaisedUnmoved ==
  ASSUME UNCHANGED <<alerted, batch, answered, alert>>, Once, Raised,
         pc' = pc \/ (pc \notin Outside /\ pc' \notin Outside),
         \A b \in answered \cup batch \cup Handling : Key(b)' = Key(b)
  PROVE  Once' /\ Raised'
<1>1. Handling' = Handling
  BY DEF Handling
<1>2. \A x : Known(x)' = Known(x)
  BY <1>1 DEF Known
<1>3. Raised'
  BY <1>2 DEF Raised
<1>4. Once'
  BY <1>1 DEF Once
<1> QED BY <1>3, <1>4

LEMMA RaisedStay ==
  ASSUME HostOK, AgentOK, KnownAreBorn, Locals, Batches, Once, Raised, HostStep, [Next]_vars
  PROVE  Once' /\ Raised'
<1> USE DEF Outside
<1>0. /\ \A b \in answered \cup batch \cup Handling : Key(b)' = Key(b)
      /\ pc \notin Outside => pid'[alert.proc] = pid[alert.proc]
  BY KeysStay
<1>1. ASSUME UNCHANGED <<alerted, batch, answered, alert>>,
             pc' = pc \/ (pc \notin Outside /\ pc' \notin Outside)
      PROVE  Once' /\ Raised'
  BY <1>0, <1>1, RaisedUnmoved
<1>2. ASSUME NEW a \in Procs \cup {Reaper}, NEW p \in Pids, Fork(a, p)
      PROVE  Once' /\ Raised'
  BY <1>1, <1>2 DEF Fork, detection, response
<1>3. ASSUME NEW n \in Procs, Exit(n) \/ KilledByOther(n) \/ Reap(n)
      PROVE  Once' /\ Raised'
  BY <1>1, <1>3 DEF Exit, KilledByOther, Reap, detection, response
<1>4. CASE Freeze \/ ReadProc \/ QueryProcess \/ UNCHANGED vars
  BY <1>1, <1>4 DEF Freeze, ReadProc, QueryProcess, vars, detection, response
<1>5. CASE Persist \/ OpenProcess \/ ListChildren \/ ReadParent
  BY <1>1, <1>5 DEF Persist, OpenProcess, ListChildren, ReadParent, detection
<1>6. CASE Walk \/ Listed \/ TakeChild \/ TakeParent \/ Signal
  BY <1>1, <1>6 DEF Walk, Listed, TakeChild, TakeParent, Take, Signal, detection
<1>7. CASE Evaluate
  <2>1. PICK A \in SUBSET Suspect :
          batch' = A /\ alerted' = alerted \cup {<<pid[a.proc], a.rule>> : a \in A}
    BY <1>7 DEF Evaluate
  <2>2. pid' = pid /\ answered' = answered /\ batch = {} /\ Handling = {} /\ Handling' = {}
    BY <1>7 DEF Evaluate, host, Batches, Handling
  <2>3. \A a \in A : /\ a.proc \in Present /\ a.rule \in {"R1", "R2"}
                     /\ pid[a.proc] \in Pids /\ Key(a) \notin alerted
    BY DEF Suspect, Present, HostOK, Key
  <2>4. \A a \in A : Key(a)' = Key(a)
    BY <2>2 DEF Key
  <2>5. \A x \in alerted' : x \in alerted \/ x \in {Key(a) : a \in A}
    BY <2>1 DEF Key
  <2>6. \A b \in answered : Key(b)' = Key(b) /\ Key(b) \in alerted
    BY <1>0 DEF Once
  <2>7. ASSUME NEW b \in A, NEW c \in A, Key(b) = Key(c)
        PROVE  b = c
    <3>1. pid[b.proc] = pid[c.proc] /\ b.rule = c.rule
      BY <2>7 DEF Key
    <3>2. b.proc = c.proc
      BY <2>3, <3>1 DEF HostOK
    <3>3. b \in [proc : Present, rule : {"R1", "R2"}] /\ c \in [proc : Present, rule : {"R1", "R2"}]
      BY DEF Suspect
    <3> QED BY <3>1, <3>2, <3>3
  <2>8. Once'
    <3>1. alerted \subseteq alerted' /\ \A a \in A : Key(a) \in alerted'
      BY <2>1 DEF Key
    <3> QED BY <2>1, <2>2, <2>3, <2>4, <2>6, <2>7, <3>1 DEF Once
  <2>9. alerted' \subseteq Pids \X {"R1", "R2"}
    BY <2>1, <2>3 DEF Raised
  <2>10. ASSUME NEW x \in alerted
         PROVE  Known(x)' <=> Known(x)
    BY <2>1, <2>2, <2>3, <2>4, <2>6, <2>10 DEF Known
  <2>11. \A x \in {Key(a) : a \in A} : Known(x)'
    BY <2>1, <2>4 DEF Known
  <2>12. Raised'
    <3>1. CASE \A x \in alerted : Known(x)
      BY <2>5, <2>9, <2>10, <2>11, <3>1 DEF Raised
    <3>2. ASSUME NEW q \in Pids, <<q, "R2">> \in alerted, ~ Known(<<q, "R2">>)
          PROVE  Raised'
      <4>1. PICK x : x = <<q, "R2">>
        OBVIOUS
      <4>2. x \in alerted /\ x \in alerted' /\ ~ Known(x)'
        BY <2>1, <2>10, <3>2, <4>1
      <4> QED BY <2>9, <4>1, <4>2 DEF Raised
    <3> QED BY <3>1, <3>2 DEF Raised
  <2> QED BY <2>8, <2>12
<1>8. CASE NextAlert
  <2>1. PICK a \in batch : batch' = batch \ {a} /\ Respond(a)
    BY <1>8 DEF NextAlert
  <2>2. /\ a \notin Manual /\ a.rule # "MANUAL" /\ pc \in Outside /\ alerted' = alerted
        /\ Handling = {}
    BY <1>8 DEF NextAlert, Batches, Manual, Handling
  <2>3. \/ answered' = answered \cup {a} /\ Handling' = {}
        \/ answered' = answered /\ Handling' = {a}
    BY <2>1, <2>2 DEF Respond, Handling
  <2>4. answered' \cup batch' \cup Handling' = answered \cup batch
    BY <2>1, <2>3
  <2>5. \A b \in answered' \cup batch' \cup Handling' : Key(b)' = Key(b)
    BY <1>0, <2>4
  <2>6. \A x : Known(x)' <=> Known(x)
    BY <2>2, <2>4, <2>5 DEF Known
  <2>7. Raised'
    BY <2>2, <2>6 DEF Raised
  <2>8. Once'
    BY <2>1, <2>2, <2>3, <2>4, <2>5 DEF Once
  <2> QED BY <2>7, <2>8
<1>9. CASE Quarantine
  <2>1. PICK n \in {a.proc : a \in answered} : Respond([proc |-> n, rule |-> "MANUAL"])
    BY <1>9 DEF Quarantine
  <2>2. n \in Procs
    BY DEF AgentOK, Alerts
  <2>3. [proc |-> n, rule |-> "MANUAL"] \in Manual
    BY <2>2 DEF Manual
  <2>4. answered' = answered /\ batch' = batch /\ alerted' = alerted /\ pid' = pid /\ pc = "idle"
    BY <1>9, <2>1, <2>3 DEF Respond, Quarantine, host
  <2>5. Handling = {} /\ Handling' = {}
    BY <2>1, <2>4 DEF Handling, Respond
  <2>6. \A x : Known(x)' = Known(x)
    BY <2>4, <2>5 DEF Known, Key
  <2>7. Raised'
    BY <2>4, <2>6 DEF Raised
  <2>8. Once'
    BY <2>4, <2>5 DEF Once, Key
  <2> QED BY <2>7, <2>8
<1>10. CASE BatchDone
  <2>1. Handling = {} /\ Handling' = {} /\ UNCHANGED <<alerted, batch, answered, pid>>
    BY <1>10 DEF BatchDone, Handling, detection, host
  <2>2. \A x : Known(x)' = Known(x)
    BY <2>1 DEF Known, Key
  <2>3. Raised'
    BY <2>1, <2>2 DEF Raised
  <2>4. Once'
    BY <2>1 DEF Once, Key
  <2> QED BY <2>3, <2>4
<1>11. CASE Return
  <2>1. /\ answered' = answered \cup ({alert} \ Manual) /\ batch' = batch /\ alerted' = alerted
        /\ pc \notin Outside /\ Handling' = {}
    BY <1>11 DEF Return, Handling
  <2>2. alert \in Alerts
    BY <2>1 DEF Locals, AgentOK
  <2>3. {alert} \ Manual = Handling
    BY <2>1, <2>2 DEF Handling, Manual, Alerts
  <2>4. answered' = answered \cup Handling
    BY <2>1, <2>3
  <2>5. \A b \in answered' \cup batch' : Key(b)' = Key(b)
    BY <1>0, <2>1, <2>4
  <2>6. \A x : Known(x)' <=> Known(x)
    BY <2>1, <2>4, <2>5 DEF Known
  <2>7. Raised'
    BY <2>1, <2>6 DEF Raised
  <2>8. Once'
    <3>1. \A b \in batch, c \in answered' : Key(b) # Key(c)
      BY <2>4 DEF Once
    <3> QED BY <2>1, <2>4, <2>5, <3>1 DEF Once
  <2> QED BY <2>7, <2>8
<1>12. CASE BlockRaises
  <2>1. /\ answered' = answered /\ batch' = {} /\ alerted' = alerted /\ pid' = pid
        /\ pc = "block" /\ alert.rule = "R2" /\ Handling' = {} /\ Handling = {alert}
    BY <1>12 DEF BlockRaises, Handling, host
  <2>2. Key(alert) \in alerted /\ \A c \in answered : Key(alert) # Key(c)
    BY <2>1 DEF Once
  <2>3. \A x : Known(x)' <=> \E b \in answered : x = Key(b)
    BY <2>1 DEF Known, Key
  <2>4. PICK q : q = pid[alert.proc]
    OBVIOUS
  <2>5. Key(alert) = <<q, "R2">> /\ q \in Pids
    BY <2>1, <2>2, <2>4 DEF Key, Raised
  <2>6. Raised'
    BY <2>1, <2>2, <2>3, <2>5 DEF Raised
  <2>7. Once'
    BY <2>1 DEF Once, Key
  <2> QED BY <2>6, <2>7
<1> QED BY <1>2, <1>3, <1>4, <1>5, <1>6, <1>7, <1>8, <1>9, <1>10, <1>11, <1>12 DEF Next, Host, Engine

-----------------------------------------------------------------------------
(***************************************************************************)
(* While the process of the alert is in hand.                              *)
(***************************************************************************)
LEMMA InHandFacts ==
  ASSUME TypeOK, KnownAreBorn, Locals, Forks, InHand
  PROVE  /\ alert \in Alerts /\ alert.proc \in Born /\ alert.proc \in Procs
         /\ pc \notin Before /\ policy.maySignal
         /\ \A n \in Procs : alert.proc \in lineage[n] => n # alert.proc
<1>1. held /\ pc \notin Before /\ alert # NoAlert /\ policy.maySignal
  BY DEF InHand, Locals, Before, Outside
<1>2. alert \in Alerts /\ alert.proc \in Born /\ alert.proc \in Procs
  BY <1>1, TypeParts DEF AgentOK, KnownAreBorn, Alerts
<1>3. \A n \in Procs : alert.proc \in lineage[n] => n # alert.proc
  BY <1>2, ProcsAreNumbers DEF Forks
<1> QED BY <1>1, <1>2, <1>3

(***************************************************************************)
(* Someone else may still kill it, and then it is in hand no more.         *)
(***************************************************************************)
LEMMA HostKeepsHold ==
  ASSUME HostOK, NEW a \in Born, st[a] = "stop",
         \/ \E q \in Procs \cup {Reaper}, p \in Pids : Fork(q, p)
         \/ \E n \in Procs : Exit(n) \/ KilledByOther(n) \/ Reap(n),
         a \notin others'
  PROVE  st'[a] = "stop"
<1>1. ASSUME NEW q \in Procs \cup {Reaper}, NEW p \in Pids, Fork(q, p)
      PROVE  st'[a] = "stop"
  <2>1. a # born + 1
    BY ProcsAreNumbers DEF Born, HostOK
  <2> QED BY <1>1, <2>1 DEF Fork, HostOK, Born
<1>2. ASSUME NEW n \in Procs, Exit(n) \/ KilledByOther(n) \/ Reap(n)
      PROVE  st'[a] = "stop"
  BY <1>2 DEF Exit, KilledByOther, Reap, End, HostOK, Born
<1> QED BY <1>1, <1>2

LEMMA GripStays ==
  ASSUME TypeOK, Forks, KnownAreBorn, Locals, Grip, HostStep, [Next]_vars
  PROVE  Grip'
<1> DEFINE a == alert.proc
<1>0. /\ HostOK /\ AgentOK /\ others \subseteq Dead
      /\ Dead \subseteq Dead'
      /\ \A n \in Born : pid'[n] = pid[n] /\ lineage'[n] = lineage[n]
  BY TypeParts, HostKeeps
<1>1. ASSUME InHand
      PROVE  a \in Born /\ a \in Procs /\ pid'[a] = Target
  BY <1>0, <1>1, InHandFacts DEF Target
<1>2. ASSUME UNCHANGED <<pc, response>>, others \subseteq others',
             InHand /\ InHand' /\ st[a] = "stop" => st'[a] = "stop"
      PROVE  Grip'
  <2> SUFFICES ASSUME InHand'
               PROVE  Grip'
    BY DEF Grip
  <2>1. InHand
    BY <1>2 DEF InHand, response, listing
  <2>2. UNCHANGED <<alert, pc, handle, artifact, killed>>
    BY <1>2 DEF response, listing
  <2>3. Target' = Target
    BY <1>1, <2>1, <2>2 DEF Target
  <2>4. pc \in Holding => st'[a] = "stop" \/ Target \in killed
    BY <1>2, <2>1 DEF Grip
  <2>5. a \in Dead => a \in Dead'
    BY <1>0
  <2> QED BY <2>1, <2>2, <2>3, <2>4, <2>5 DEF Grip
<1>3. ASSUME NEW q \in Procs \cup {Reaper}, NEW p \in Pids, Fork(q, p)
      PROVE  Grip'
  <2>1. UNCHANGED <<pc, response>> /\ others' = others
    BY <1>3 DEF Fork
  <2>2. InHand /\ InHand' /\ st[a] = "stop" => st'[a] = "stop"
    BY <1>0, <1>1, <1>3, <2>1, HostKeepsHold DEF InHand, response, listing
  <2> QED BY <1>2, <2>1, <2>2
<1>4. ASSUME NEW n \in Procs, Exit(n) \/ KilledByOther(n) \/ Reap(n)
      PROVE  Grip'
  <2>1. UNCHANGED <<pc, response>> /\ others \subseteq others'
    BY <1>4 DEF Exit, KilledByOther, Reap
  <2>2. InHand /\ InHand' /\ st[a] = "stop" => st'[a] = "stop"
    BY <1>0, <1>1, <1>4, <2>1, HostKeepsHold DEF InHand, response, listing
  <2> QED BY <1>2, <2>1, <2>2
<1>5. CASE UNCHANGED vars
  BY <1>2, <1>5 DEF vars, host
<1>6. ASSUME held' = FALSE
      PROVE  Grip'
  BY <1>6 DEF Grip, InHand
<1>7. CASE Evaluate \/ BatchDone
  BY <1>6, <1>7 DEF Evaluate, BatchDone, response, listing, Locals, Before, Outside
<1>8. CASE NextAlert \/ Quarantine
  <2>1. held = FALSE
    BY <1>8 DEF NextAlert, Quarantine, Locals, Before, Outside
  <2>2. held' = held
    BY <1>8 DEF NextAlert, Quarantine, Respond, response, listing
  <2> QED BY <1>6, <2>1, <2>2
<1>9. CASE Return \/ BlockRaises
  BY <1>6, <1>9 DEF Return, BlockRaises, Leave
<1>10. CASE Freeze
  <2> SUFFICES ASSUME InHand'
               PROVE  Grip'
    BY DEF Grip
  <2>1. held = FALSE /\ killed = {}
    BY <1>10 DEF Freeze, Locals, Before, Outside
  <2>2. At(Target) = a /\ a \in Alive /\ st' = [st EXCEPT ![a] = "stop"]
    BY <1>10, <2>1 DEF Freeze, InHand
  <2>3. st'[a] = "stop"
    BY <1>0, <2>2 DEF HostOK, Alive
  <2>4. alert' = alert /\ pc' = "read" /\ killed' = {}
    BY <1>10, <2>1 DEF Freeze
  <2> QED BY <2>3, <2>4 DEF Grip, Engaged
<1>11. ASSUME InHand', UNCHANGED <<alert, held, others>>, pc \in {"read", "query", "persist", "open", "list"}
       PROVE  InHand /\ killed = {} /\ st[a] = "stop" /\ a \in Alive /\ At(Target) = a
  <2>1. InHand
    BY <1>11 DEF InHand
  <2>2. st[a] = "stop" /\ a \in Procs /\ killed = {}
    BY <1>1, <1>11, <2>1 DEF Grip, Locals, Holding, Engaged
  <2>3. a \in Present /\ a \in Alive
    BY <2>2 DEF Present, Alive
  <2>4. At(Target) = a
    BY <1>0, <2>3, PidsName DEF Target
  <2> QED BY <2>1, <2>2, <2>3, <2>4
<1>12. CASE ReadProc
  <2> SUFFICES ASSUME InHand'
               PROVE  Grip'
    BY DEF Grip
  <2>1. UNCHANGED <<alert, held, others, host, handle, killed>> /\ pc = "read" /\ pc' = "query"
    BY <1>12 DEF ReadProc
  <2>2. killed = {} /\ st[a] = "stop" /\ a \in Alive /\ At(Target) = a
    BY <1>11, <2>1
  <2>3. artifact'.proc = a
    BY <1>12, <2>2 DEF ReadProc, Empty
  <2> QED BY <2>1, <2>2, <2>3 DEF Grip, host, Engaged
<1>13. CASE QueryProcess
  <2> SUFFICES ASSUME InHand'
               PROVE  Grip'
    BY DEF Grip
  <2>1. UNCHANGED <<alert, held, others, host, handle, killed>> /\ pc = "query" /\ pc' = "persist"
    BY <1>13 DEF QueryProcess
  <2>2. InHand /\ killed = {} /\ st[a] = "stop" /\ a \in Alive /\ At(Target) = a
    BY <1>11, <2>1
  <2>3. artifact'.proc = artifact.proc /\ artifact'.queried = a
    BY <1>0, <1>13, <2>2 DEF QueryProcess, AgentOK, Artifacts
  <2> QED BY <2>1, <2>2, <2>3 DEF Grip, host, Engaged
<1>14. CASE Persist
  <2> SUFFICES ASSUME InHand'
               PROVE  Grip'
    BY DEF Grip
  <2>1. UNCHANGED <<alert, held, others, host, killed>> /\ pc = "persist" /\ pc' \in {"open", "block"}
    BY <1>14 DEF Persist
  <2>2. killed = {} /\ st[a] = "stop"
    BY <1>11, <2>1
  <2> QED BY <2>1, <2>2 DEF Grip, host, Engaged
<1>15. CASE OpenProcess
  <2> SUFFICES ASSUME InHand'
               PROVE  Grip'
    BY DEF Grip
  <2>1. UNCHANGED <<alert, held, others, host, killed>> /\ pc = "open" /\ pc' \in {"block", "list"}
    BY <1>15 DEF OpenProcess
  <2>2. killed = {} /\ st[a] = "stop" /\ At(Target) = a
    BY <1>11, <2>1
  <2>3. handle' = a
    BY <1>15, <2>2 DEF OpenProcess
  <2> QED BY <2>1, <2>2, <2>3 DEF Grip, host
<1>16. CASE ListChildren \/ ReadParent \/ Walk \/ Listed \/ TakeChild \/ TakeParent
  <2> SUFFICES ASSUME InHand'
               PROVE  Grip'
    BY DEF Grip
  <2>1. UNCHANGED <<alert, held, others, host, handle, killed>> /\ pc \in Engaged
    BY <1>16 DEF ListChildren, ReadParent, Walk, Listed, TakeChild, TakeParent, Engaged
  <2>2. pc' \in Engaged \cup {"block"}
    BY <1>16 DEF ListChildren, ReadParent, Walk, Listed, TakeChild, TakeParent, Take, Engaged
  <2>3. InHand /\ Target' = Target
    BY <2>1 DEF InHand, Target, host
  <2>4. (st'[a] = "stop" \/ Target' \in killed') /\ handle' = a
    BY <2>1, <2>3 DEF Grip, Holding, host
  <2> QED BY <2>1, <2>2, <2>3, <2>4 DEF Grip, Engaged, host, Dead
<1>17. CASE Signal
  <2> SUFFICES ASSUME InHand'
               PROVE  Grip'
    BY DEF Grip
  <2>1. UNCHANGED <<alert, held, others, handle>> /\ pc \in Engaged /\ pc' \in {"kill", "block"}
    BY <1>17 DEF Signal, Engaged
  <2>2. InHand /\ handle = a /\ (st[a] = "stop" \/ Target \in killed)
    BY <2>1 DEF InHand, Grip, Holding
  <2>3. PICK k : k = At(pid[aim])
    OBVIOUS
  <2>4. Kill(k) /\ (k = Nobody \/ k \in Present)
    BY <1>0, <1>17, <2>3, PidsName DEF Signal
  <2>5. Target' = Target /\ killed \subseteq killed'
    BY <2>1, <2>4 DEF Kill, End, host, Target
  <2>6. CASE Target \in killed
    BY <1>0, <2>1, <2>2, <2>5, <2>6 DEF Grip, Engaged
  <2>7. CASE st[a] = "stop"
    <3>1. a \in Present /\ a \in Procs
      BY <1>1, <2>2, <2>7 DEF Present
    <3>2. CASE k = a
      <4>1. End(a) /\ Target \in killed'
        BY <2>2, <2>4, <3>1, <3>2, InHandFacts DEF Kill, Target
      <4>2. a \in Dead'
        BY <1>0, <2>7, <3>1, <4>1 DEF End, HostOK, Dead
      <4> QED BY <2>1, <2>2, <2>5, <4>1, <4>2 DEF Grip, Engaged
    <3>3. CASE k # a
      <4>1. st'[a] = "stop"
        BY <1>0, <2>4, <2>7, <3>1, <3>3 DEF Kill, End, host, HostOK
      <4>2. k \in Present => pid[k] # Target
        BY <1>0, <3>1, <3>3 DEF HostOK, Target
      <4>3. Target \in killed' => Target \in killed
        BY <2>4, <4>2 DEF Kill
      <4> QED BY <1>0, <2>1, <2>2, <2>5, <4>1, <4>3 DEF Grip, Engaged
    <3> QED BY <3>2, <3>3
  <2> QED BY <2>2, <2>6, <2>7
<1> QED BY <1>3, <1>4, <1>5, <1>7, <1>8, <1>9, <1>10, <1>12, <1>13, <1>14, <1>15, <1>16, <1>17
        DEF Next, Host, Engine

(***************************************************************************)
(* What is frozen is the process the engine is about to kill.              *)
(***************************************************************************)
LEMMA FrozenStays ==
  ASSUME TypeOK, KnownAreBorn, Locals, Frozen, HostStep, [Next]_vars
  PROVE  Frozen'
<1> USE DEF Frozen, Holding, Engaged
<1>0. /\ HostOK /\ AgentOK
      /\ \A n \in Born : pid'[n] = pid[n]
      /\ \A n \in Procs : st[n] = "stop" => n \in Born /\ n \in Present /\ At(pid[n]) = n
  <2>1. HostOK /\ AgentOK
    BY TypeParts
  <2>2. \A n \in Procs : st[n] = "stop" => n \in Present
    BY DEF Present
  <2> QED BY <2>1, <2>2, HostKeeps, PidsName
<1>1. pc \in Holding => Target \in Pids /\ pid'[alert.proc] = Target
  BY <1>0, NoAlertIsNone DEF Locals, Outside, KnownAreBorn, AgentOK, HostOK, Alerts, Target
<1>2. ASSUME UNCHANGED <<policy, pc, alert, handle>>,
             \A n \in Procs : st'[n] = "stop" => st[n] = "stop"
      PROVE  Frozen'
  BY <1>0, <1>1, <1>2 DEF Target
<1>3. ASSUME NEW q \in Procs \cup {Reaper}, NEW p \in Pids, Fork(q, p)
      PROVE  Frozen'
  <2>1. \A n \in Procs : st'[n] = "stop" => st[n] = "stop"
    BY <1>0, <1>3 DEF Fork, HostOK
  <2> QED BY <1>2, <1>3, <2>1 DEF Fork, response, listing
<1>4. ASSUME NEW n \in Procs, Exit(n) \/ KilledByOther(n) \/ Reap(n)
      PROVE  Frozen'
  <2>1. \A m \in Procs : st'[m] = "stop" => st[m] = "stop"
    BY <1>0, <1>4 DEF Exit, KilledByOther, Reap, End, HostOK
  <2> QED BY <1>2, <1>4, <2>1 DEF Exit, KilledByOther, Reap, response, listing
<1>5. CASE UNCHANGED vars
  BY <1>2, <1>5 DEF vars, host, response, listing
<1>6. ASSUME UNCHANGED <<policy, st>>, pc \notin Holding
      PROVE  Frozen'
  BY <1>6
<1>7. CASE Evaluate \/ BatchDone \/ NextAlert \/ Quarantine \/ Return \/ BlockRaises
  BY <1>6, <1>7 DEF Evaluate, BatchDone, NextAlert, Quarantine, Return, BlockRaises, host
<1>8. CASE Freeze
  <2> SUFFICES ASSUME policy'.autoKill, policy'.maySignal, NEW n \in Procs, st'[n] = "stop"
               PROVE  pc' = "read" /\ pid'[n] = Target'
    OBVIOUS
  <2>1. UNCHANGED <<policy, pid, alert>> /\ pc = "freeze" /\ pc' = "read"
    BY <1>8 DEF Freeze
  <2>2. st[n] # "stop"
    BY <2>1
  <2>3. n = At(Target) /\ n \in Alive
    BY <1>0, <1>8, <2>2 DEF Freeze, HostOK
  <2>4. pid[n] = Target
    BY <1>0, <2>3, PidsName, ProcsAreNumbers DEF Nobody, Reaper
  <2> QED BY <2>1, <2>4 DEF Target
<1>9. CASE ReadProc \/ QueryProcess
  BY <1>9 DEF ReadProc, QueryProcess, host, Target
<1>10. CASE Persist
  BY <1>10 DEF Persist, host, Target
<1>11. CASE OpenProcess
  <2> SUFFICES ASSUME policy'.autoKill, policy'.maySignal, NEW n \in Procs, st'[n] = "stop"
               PROVE  pc' = "list" /\ pid'[n] = Target' /\ handle' = n
    OBVIOUS
  <2>1. UNCHANGED <<policy, host, alert>>
    BY <1>11 DEF OpenProcess
  <2>2. st[n] = "stop" /\ pid[n] = Target /\ pid'[n] = Target'
    BY <2>1 DEF host, Target
  <2>3. At(Target) = n /\ n # Nobody
    BY <1>0, <2>2, ProcsAreNumbers DEF Nobody, Reaper
  <2> QED BY <1>11, <2>2, <2>3 DEF OpenProcess
<1>12. CASE ListChildren \/ ReadParent \/ Walk \/ Listed \/ TakeChild \/ TakeParent
  <2> SUFFICES ASSUME policy'.autoKill, policy'.maySignal, NEW n \in Procs, st'[n] = "stop"
               PROVE  pc' \in Engaged /\ pid'[n] = Target' /\ handle' = n
    OBVIOUS
  <2>1. UNCHANGED <<policy, host, alert, handle>> /\ pc \in Engaged
    BY <1>12 DEF ListChildren, ReadParent, Walk, Listed, TakeChild, TakeParent
  <2>2. st[n] = "stop" /\ pid[n] = Target /\ pid'[n] = Target' /\ handle = n
    BY <2>1 DEF host, Target
  <2>3. At(pid[handle]) = handle
    BY <1>0, <2>2
  <2>4. pc' \in Engaged
    BY <1>12, <2>3 DEF ListChildren, ReadParent, Walk, Listed, TakeChild, TakeParent, Take
  <2> QED BY <2>1, <2>2, <2>4
<1>13. CASE Signal
  <2>1. PICK k : k = At(pid[aim])
    OBVIOUS
  <2>2. Kill(k) /\ UNCHANGED <<policy, alert, handle>>
    BY <1>13, <2>1 DEF Signal
  <2>3. \A m \in Procs : st'[m] = "stop" => st[m] = "stop"
    BY <1>0, <2>2 DEF Kill, End, host, HostOK
  <2>4. CASE pc = "signal"
    <3>1. pc' = "kill" /\ Target' = Target /\ \A n \in Born : pid'[n] = pid[n]
      BY <1>0, <1>1, <1>13, <2>2, <2>4 DEF Signal, Target
    <3> QED BY <1>0, <2>2, <2>3, <2>4, <3>1
  <2>5. CASE pc = "last"
    <3> SUFFICES ASSUME policy'.autoKill, policy'.maySignal, NEW n \in Procs, st'[n] = "stop"
                 PROVE  FALSE
      OBVIOUS
    <3>1. st[n] = "stop" /\ aim = n /\ policy.maySignal
      BY <2>2, <2>3, <2>5 DEF Locals
    <3>2. k = n /\ n \in Present
      BY <1>0, <2>1, <3>1
    <3> QED BY <1>0, <2>2, <3>1, <3>2 DEF Kill, End, HostOK
  <2> QED BY <1>13, <2>4, <2>5 DEF Signal
<1> QED BY <1>3, <1>4, <1>5, <1>7, <1>8, <1>9, <1>10, <1>11, <1>12, <1>13 DEF Next, Host, Engine

-----------------------------------------------------------------------------
(***************************************************************************)
(* psutil's look at a pid and its use of it.                               *)
(***************************************************************************)
LEMMA LatestIsUnique ==
  ASSUME NEW n, NEW m, Latest(n), Latest(m), pid[n] = pid[m]
  PROVE  n = m
<1>1. n \in Nat /\ m \in Nat
  BY ProcsAreNumbers DEF Latest, Born
<1>2. n <= m /\ m <= n
  BY DEF Latest
<1> QED BY <1>1, <1>2

LEMMA SwapIsRemembered ==
  ASSUME [Next]_vars, pc \in {"map", "walk"}, swapped
  PROVE  swapped'
<1>1. CASE \E a \in Procs \cup {Reaper}, p \in Pids : Fork(a, p)
  BY <1>1 DEF Fork
<1>2. CASE \E n \in Procs : Exit(n) \/ KilledByOther(n) \/ Reap(n)
  BY <1>2 DEF Exit, KilledByOther, Reap
<1>3. CASE ReadParent \/ Walk \/ Listed \/ UNCHANGED vars
  BY <1>3 DEF ReadParent, Walk, Listed, vars
<1>4. CASE Evaluate \/ Quarantine \/ NextAlert \/ BatchDone \/ Freeze \/ ReadProc \/ QueryProcess
  BY <1>4 DEF Evaluate, Quarantine, NextAlert, BatchDone, Freeze, ReadProc, QueryProcess
<1>5. CASE Persist \/ OpenProcess \/ ListChildren \/ TakeChild \/ TakeParent \/ Signal \/ Return \/ BlockRaises
  BY <1>5 DEF Persist, OpenProcess, ListChildren, TakeChild, TakeParent, Signal, Return, BlockRaises
<1> QED BY <1>1, <1>2, <1>3, <1>4, <1>5 DEF Next, Host, Engine

\* While no pid changes hands between look and use ...
LEMMA LatestKeeps ==
  ASSUME HostOK, HostStep, [Next]_vars, pc \in {"map", "walk"}, ~ swapped',
         NEW n \in Procs, Latest(n)
  PROVE  Latest(n)' /\ pid'[n] = pid[n] /\ lineage'[n] = lineage[n]
<1>0. pid'[n] = pid[n] /\ lineage'[n] = lineage[n]
  BY HostKeeps DEF Latest
<1>1. ASSUME UNCHANGED <<born, pid>>
      PROVE  Latest(n)'
  BY <1>1 DEF Latest, Born
<1>2. ASSUME NEW a \in Procs \cup {Reaper}, NEW p \in Pids, Fork(a, p)
      PROVE  Latest(n)'
  <2>1. p \notin Exposed /\ Started(a, p)
    BY <1>2 DEF Fork, Started
  <2>2. n \in 1..born
    BY ProcsAreNumbers DEF Latest, Born, HostOK, Procs
  <2>3. pid[n] # p
    BY <2>1, <2>2 DEF Exposed
  <2> QED BY <2>1, <2>3, LatestStays
<1>3. CASE UNCHANGED host
  BY <1>1, <1>3 DEF host
<1>4. CASE \E m \in Procs : End(m) \/ Stopped(m) \/ Reaped(m)
  BY <1>1, <1>4 DEF End, Stopped, Reaped
<1>5. ASSUME NEW a \in Procs \cup {Reaper}, NEW p \in Pids, Started(a, p)
      PROVE  \E q \in Procs \cup {Reaper}, r \in Pids : Fork(q, r)
  <2>1. born' # born
    BY <1>5, ProcsAreNumbers DEF Started, HostOK
  <2>2. CASE ReadParent \/ Walk \/ Listed \/ UNCHANGED vars
    BY <2>1, <2>2 DEF ReadParent, Walk, Listed, vars, host
  <2>3. CASE \E m \in Procs : Exit(m) \/ KilledByOther(m) \/ Reap(m)
    BY <2>1, <2>3 DEF Exit, KilledByOther, Reap, End
  <2>4. CASE Evaluate \/ Quarantine \/ NextAlert \/ BatchDone \/ Freeze \/ ReadProc \/ QueryProcess
    BY <2>4 DEF Evaluate, Quarantine, NextAlert, BatchDone, Freeze, ReadProc, QueryProcess
  <2>5. CASE Persist \/ OpenProcess \/ ListChildren \/ TakeChild \/ TakeParent \/ Signal \/ Return \/ BlockRaises
    BY <2>5 DEF Persist, OpenProcess, ListChildren, TakeChild, TakeParent, Signal, Return, BlockRaises
  <2> QED BY <2>2, <2>3, <2>4, <2>5 DEF Next, Host, Engine
<1> QED BY <1>0, <1>2, <1>3, <1>4, <1>5 DEF HostStep

\* ... the parent map and the list of children stay true of the host.
LEMMA MappedStays ==
  ASSUME HostOK, AgentOK, Forks, Holders, Locals, Mapped, HostStep, [Next]_vars
  PROVE  Mapped'
<1>1. ASSUME pc \in {"map", "walk"}, ~ swapped'
      PROVE  /\ \A e \in ppids : Entry(e) /\ Entry(e)'
             /\ \A n \in kids : Latest(n)'
  <2>1. ~ swapped
    BY <1>1, SwapIsRemembered
  <2>2. ASSUME NEW n \in Procs, Latest(n)
        PROVE  Latest(n)' /\ pid'[n] = pid[n] /\ lineage'[n] = lineage[n]
    BY <1>1, <2>2, LatestKeeps
  <2>3. Born \subseteq Born'
    BY HostKeeps
  <2>4. ASSUME NEW e \in ppids
        PROVE  Entry(e) /\ Entry(e)'
    <3>1. Entry(e)
      BY <1>1, <2>1 DEF Mapped
    <3>2. PICK n \in Born : \E k \in Born : /\ pid[n] = e[1] /\ pid[k] = e[2]
                                            /\ Latest(n) /\ Latest(k) /\ k \in lineage[n]
      BY <3>1 DEF Entry
    <3>3. PICK k \in Born : /\ pid[n] = e[1] /\ pid[k] = e[2]
                            /\ Latest(n) /\ Latest(k) /\ k \in lineage[n]
      BY <3>2
    <3>4. n \in Procs /\ k \in Procs /\ n \in Born' /\ k \in Born'
      BY <2>3 DEF Born
    <3>5. Latest(n)' /\ pid'[n] = pid[n] /\ lineage'[n] = lineage[n]
      BY <2>2, <3>3, <3>4
    <3>6. Latest(k)' /\ pid'[k] = pid[k]
      BY <2>2, <3>3, <3>4
    <3> QED BY <3>1, <3>3, <3>4, <3>5, <3>6 DEF Entry
  <2>5. \A n \in kids : Latest(n)'
    BY <1>1, <2>1, <2>2 DEF Mapped, AgentOK
  <2> QED BY <2>4, <2>5
<1>2. ASSUME UNCHANGED <<pc, ppids, kids>>
      PROVE  Mapped'
  BY <1>1, <1>2 DEF Mapped
<1>3. CASE \E a \in Procs \cup {Reaper}, p \in Pids : Fork(a, p)
  BY <1>2, <1>3 DEF Fork, response, listing
<1>4. CASE \E n \in Procs : Exit(n) \/ KilledByOther(n) \/ Reap(n)
  BY <1>2, <1>4 DEF Exit, KilledByOther, Reap, response, listing
<1>5. CASE UNCHANGED vars
  BY <1>2, <1>5 DEF vars, response, listing
<1>6. ASSUME pc' \notin {"map", "walk"}
      PROVE  Mapped'
  BY <1>6 DEF Mapped
<1>7. CASE Evaluate \/ Quarantine \/ NextAlert \/ BatchDone \/ Freeze \/ ReadProc \/ QueryProcess
  BY <1>6, <1>7 DEF Evaluate, Quarantine, NextAlert, Respond, BatchDone, Freeze, ReadProc, QueryProcess
<1>8. CASE Persist \/ OpenProcess \/ Listed \/ TakeChild \/ TakeParent \/ Signal \/ Return \/ BlockRaises
  BY <1>6, <1>8 DEF Persist, OpenProcess, Listed, TakeChild, TakeParent, Take, Signal, Return, BlockRaises
<1>9. CASE ListChildren
  BY <1>9 DEF ListChildren, Mapped, Locals
<1>10. CASE ReadParent
  <2> SUFFICES ASSUME ~ swapped', NEW e \in ppids', e \notin ppids
               PROVE  Entry(e)'
    BY <1>1, <1>10 DEF ReadParent, Mapped
  <2>1. UNCHANGED <<host, swapped>> /\ pc = "map"
    BY <1>10 DEF ReadParent
  <2>2. PICK n \in Present : parent[n] # Reaper /\ e = <<pid[n], pid[parent[n]]>>
    BY <1>10 DEF ReadParent
  <2>3. n \in Procs /\ n \in Born /\ Latest(n)
    BY DEF Holders, Latest, Born
  <2>4. PICK k : k = parent[n]
    OBVIOUS
  <2>5. k \in Present /\ k \in lineage[n] /\ k \in Born /\ Latest(k)
    <3>1. k \in Alive /\ lineage[n] = lineage[k] \cup {k}
      BY <2>2, <2>3, <2>4 DEF Forks
    <3>2. k \in Present
      BY <3>1 DEF Alive, Present
    <3> QED BY <3>1, <3>2 DEF Holders, Latest
  <2>6. Entry(e)
    BY <2>2, <2>3, <2>4, <2>5 DEF Entry
  <2> QED BY <2>1, <2>6 DEF Entry, Latest, Born, host
<1>11. CASE Walk
  <2> SUFFICES ASSUME ~ swapped', NEW n \in kids', n \notin kids
               PROVE  Latest(n)'
    BY <1>1, <1>11 DEF Walk, Mapped
  <2>1. UNCHANGED <<host, swapped>> /\ n \in Present
    BY <1>11 DEF Walk
  <2> QED BY <2>1 DEF Holders, Latest, Born, host
<1> QED BY <1>3, <1>4, <1>5, <1>7, <1>8, <1>9, <1>10, <1>11 DEF Next, Host, Engine

LEMMA AimedStays ==
  ASSUME HostOK, AgentOK, KnownAreBorn, Locals, Aimed, HostStep, [Next]_vars
  PROVE  Aimed'
<1>1. ASSUME UNCHANGED <<pc, aim, swapped, pid>>, Present' \subseteq Present
      PROVE  Aimed'
  BY <1>1 DEF Aimed
<1>2. ASSUME NEW a \in Procs \cup {Reaper}, NEW p \in Pids, Fork(a, p)
      PROVE  Aimed'
  <2> SUFFICES ASSUME pc \in {"signal", "last"}, ~ swapped',
                      NEW n \in Present', pid'[n] = pid'[aim]
               PROVE  n = aim
    BY <1>2 DEF Aimed, Fork, response, listing
  <2>1. ~ swapped /\ p # pid[aim] /\ Started(a, p)
    BY <1>2 DEF Fork, Started, Exposed
  <2>2. pid'[aim] = pid[aim]
    BY HostKeeps DEF KnownAreBorn, Locals
  <2>3. n \in Present /\ pid'[n] = pid[n]
    BY <2>1, <2>2, LatestStays
  <2> QED BY <2>1, <2>2, <2>3 DEF Aimed
<1>3. ASSUME NEW n \in Procs, Exit(n) \/ KilledByOther(n) \/ Reap(n)
      PROVE  Aimed'
  <2>1. Present' \subseteq Present
    BY <1>3 DEF Exit, KilledByOther, Reap, End, HostOK, Present
  <2> QED BY <1>1, <1>3, <2>1 DEF Exit, KilledByOther, Reap, End, response, listing
<1>4. CASE UNCHANGED vars
  BY <1>1, <1>4 DEF vars, host, response, listing, Present
<1>5. ASSUME pc' \notin {"signal", "last"}
      PROVE  Aimed'
  BY <1>5 DEF Aimed
<1>6. CASE Evaluate \/ Quarantine \/ NextAlert \/ BatchDone \/ Freeze \/ ReadProc \/ QueryProcess
  BY <1>5, <1>6 DEF Evaluate, Quarantine, NextAlert, Respond, BatchDone, Freeze, ReadProc, QueryProcess
<1>7. CASE Persist \/ OpenProcess \/ ListChildren \/ ReadParent \/ Walk \/ Listed
  BY <1>5, <1>7 DEF Persist, OpenProcess, ListChildren, ReadParent, Walk, Listed
<1>8. CASE Signal \/ Return \/ BlockRaises
  BY <1>5, <1>8 DEF Signal, Return, BlockRaises
<1>9. ASSUME NEW n, NEW s, NEW t, Take(n, s, t), t \notin {"signal", "last"}, UNCHANGED host
      PROVE  Aimed'
  <2>1. CASE pc' = t
    BY <1>5, <1>9, <2>1
  <2>2. CASE At(pid[n]) \in {n, Nobody} /\ aim' = n
    <3>1. \A m \in Present : pid[m] = pid[n] => m = n
      <4>1. \A m \in Present : m # Nobody /\ At(pid[m]) = m
        BY PidsName, ProcsAreNumbers DEF Present, Nobody, Reaper
      <4> QED BY <2>2, <4>1
    <3> QED BY <1>9, <2>2, <3>1 DEF Aimed, Present, host
  <2> QED BY <1>9, <2>1, <2>2 DEF Take
<1>10. CASE TakeChild \/ TakeParent
  BY <1>9, <1>10 DEF TakeChild, TakeParent
<1> QED BY <1>2, <1>3, <1>4, <1>6, <1>7, <1>8, <1>10 DEF Next, Host, Engine

(***************************************************************************)
(* So what children() finds and kill() hits descends from the process of   *)
(* the alert.                                                              *)
(***************************************************************************)
LEMMA SparedStays ==
  ASSUME TypeOK, Forks, KnownAreBorn, Holders, Locals, Mapped, Aimed, Grip, Spared,
         HostStep, [Next]_vars
  PROVE  Spared'
<1> DEFINE a == alert.proc
<1>0. /\ HostOK /\ AgentOK
      /\ \A n \in Born : pid'[n] = pid[n] /\ lineage'[n] = lineage[n]
  BY TypeParts, HostKeeps
<1>1. ASSUME InHand, UNCHANGED alert, NEW n \in Born, InTree(n)
      PROVE  InTree(n)'
  BY <1>0, <1>1 DEF InTree
<1>2. ASSUME UNCHANGED <<pc, response>>, others \subseteq others', swapped => swapped'
      PROVE  Spared'
  <2> SUFFICES ASSUME InHand', ~ swapped'
               PROVE  Spared'
    BY DEF Spared
  <2>1. InHand /\ ~ swapped /\ UNCHANGED <<alert, kids, victims, aim>>
    BY <1>2 DEF InHand, response, listing
  <2>2. \A n \in kids \cup victims : n \in Born /\ InTree(n)
    BY <2>1 DEF Spared, KnownAreBorn
  <2>3. pc \in {"signal", "last"} => aim \in Born /\ InTree(aim)
    BY <2>1 DEF Spared, KnownAreBorn, Locals
  <2>4. \A n \in kids' \cup victims' : InTree(n)'
    BY <1>1, <2>1, <2>2
  <2>5. PICK k : k = aim
    OBVIOUS
  <2>6. pc' \in {"signal", "last"} => InTree(k)'
    BY <1>1, <1>2, <2>1, <2>3, <2>5
  <2> QED BY <2>1, <2>4, <2>5, <2>6 DEF Spared, InTree
<1>3. ASSUME NEW q \in Procs \cup {Reaper}, NEW p \in Pids, Fork(q, p)
      PROVE  Spared'
  BY <1>2, <1>3 DEF Fork
<1>4. ASSUME NEW n \in Procs, Exit(n) \/ KilledByOther(n) \/ Reap(n)
      PROVE  Spared'
  BY <1>2, <1>4 DEF Exit, KilledByOther, Reap
<1>5. CASE UNCHANGED vars
  BY <1>2, <1>5 DEF vars
<1>6. ASSUME held' = FALSE
      PROVE  Spared'
  BY <1>6 DEF Spared, InHand
<1>7. CASE Evaluate \/ BatchDone
  BY <1>6, <1>7 DEF Evaluate, BatchDone, response, Locals, Before, Outside
<1>8. CASE NextAlert \/ Quarantine
  <2>1. held = FALSE
    BY <1>8 DEF NextAlert, Quarantine, Locals, Before, Outside
  <2>2. held' = held
    BY <1>8 DEF NextAlert, Quarantine, Respond, response
  <2> QED BY <1>6, <2>1, <2>2
<1>9. CASE Return \/ BlockRaises
  BY <1>6, <1>9 DEF Return, BlockRaises, Leave
<1>10. CASE Freeze
  <2> SUFFICES ASSUME InHand'
               PROVE  Spared'
    BY DEF Spared
  <2>1. held = FALSE /\ kids = {} /\ UNCHANGED <<kids, alert>> /\ pc' = "read"
    BY <1>10 DEF Freeze, Locals, Before, Outside
  <2>2. victims' = {a}
    BY <1>10, <2>1 DEF Freeze, InHand
  <2> QED BY <2>1, <2>2 DEF Spared, InTree
<1>11. ASSUME UNCHANGED <<alert, held, others, swapped, kids, victims, host>>,
              pc' \notin {"signal", "last"}
       PROVE  Spared'
  BY <1>11 DEF Spared, InHand, InTree, host
<1>12. CASE ReadProc \/ QueryProcess \/ Persist
  BY <1>11, <1>12 DEF ReadProc, QueryProcess, Persist
<1>13. CASE OpenProcess \/ ListChildren \/ ReadParent \/ Listed
  BY <1>11, <1>13 DEF OpenProcess, ListChildren, ReadParent, Listed
<1>14. CASE Walk
  <2> SUFFICES ASSUME InHand', ~ swapped', NEW n \in kids', n \notin kids
               PROVE  InTree(n)
    BY <1>14 DEF Walk, Spared, InHand, InTree, host
  <2>1. InHand /\ ~ swapped /\ pc = "walk"
    BY <1>14 DEF Walk, InHand
  <2>2. handle = a /\ Latest(a)
    <3>1. handle = a /\ st[a] = "stop"
      BY <2>1 DEF Grip, Holding, Engaged, Locals
    <3>2. a \in Present
      BY <2>1, <3>1, InHandFacts DEF Present
    <3> QED BY <3>1, <3>2 DEF Holders
  <2>3. PICK e \in ppids : e[2] \in Reached /\ n \in Present /\ pid[n] = e[1]
    BY <1>14 DEF Walk
  <2>4. Entry(e)
    BY <2>1 DEF Mapped
  <2>5. PICK m \in Born : \E k \in Born : /\ pid[m] = e[1] /\ pid[k] = e[2]
                                          /\ Latest(m) /\ Latest(k) /\ k \in lineage[m]
    BY <2>4 DEF Entry
  <2>6. PICK k \in Born : /\ pid[m] = e[1] /\ pid[k] = e[2]
                          /\ Latest(m) /\ Latest(k) /\ k \in lineage[m]
    BY <2>5
  <2>7. PICK r \in kids \cup {handle} : pid[r] = e[2]
    BY <2>3 DEF Reached
  <2>8. Latest(r) /\ InTree(r)
    BY <2>1, <2>2, <2>7 DEF Mapped, Spared, InTree
  <2>9. k = r
    BY <2>6, <2>7, <2>8, LatestIsUnique
  <2>10. m = n
    BY <2>3, <2>6, LatestIsUnique DEF Holders
  <2>11. n \in Procs /\ r \in lineage[n] /\ lineage[r] \subseteq lineage[n]
    BY <2>3, <2>6, <2>9, <2>10 DEF Forks, Present
  <2> QED BY <2>8, <2>11 DEF InTree
<1>15. CASE TakeChild
  <2> SUFFICES ASSUME InHand', ~ swapped'
               PROVE  Spared'
    BY DEF Spared
  <2>1. UNCHANGED <<alert, host, victims>> /\ InHand /\ ~ swapped
    BY <1>15 DEF TakeChild, InHand
  <2>2. PICK n \in kids : Take(n, "signal", "kill") /\ kids' = kids \ {n}
    BY <1>15 DEF TakeChild
  <2>3. InTree(n) /\ (pc' = "kill" \/ aim' = n)
    BY <2>1, <2>2 DEF Spared, Take
  <2> QED BY <2>1, <2>2, <2>3 DEF Spared, InTree, host
<1>16. CASE TakeParent
  <2> SUFFICES ASSUME InHand', ~ swapped'
               PROVE  Spared'
    BY DEF Spared
  <2>1. UNCHANGED <<alert, host, victims, kids>> /\ InHand /\ ~ swapped /\ pc = "kill"
    BY <1>16 DEF TakeParent, InHand
  <2>2. handle = a
    BY <2>1 DEF Grip, Engaged
  <2>3. pc' = "block" \/ aim' = a
    BY <1>16, <2>2 DEF TakeParent, Take
  <2> QED BY <2>1, <2>3 DEF Spared, InTree, host
<1>17. CASE Signal
  <2> SUFFICES ASSUME InHand', ~ swapped'
               PROVE  Spared'
    BY DEF Spared
  <2>1. /\ UNCHANGED <<alert, kids>> /\ InHand /\ ~ swapped /\ pc \in {"signal", "last"}
        /\ pc' \in {"kill", "block"}
    BY <1>17 DEF Signal, InHand
  <2>2. PICK k : k = At(pid[aim])
    OBVIOUS
  <2>3. Kill(k)
    BY <1>17, <2>2 DEF Signal
  <2>4. k \in Present => k = aim
    <3>1. k \in Present => pid[k] = pid[aim]
      BY <1>0, <2>2, PidsName, ProcsAreNumbers DEF Present, Nobody, Reaper
    <3> QED BY <2>1, <3>1 DEF Aimed
  <2>5. \A n \in victims' : InTree(n)
    BY <2>1, <2>3, <2>4 DEF Kill, Spared
  <2>6. UNCHANGED lineage
    BY <2>3 DEF Kill, End, host
  <2> QED BY <2>1, <2>5, <2>6 DEF Spared, InTree
<1> QED BY <1>3, <1>4, <1>5, <1>7, <1>8, <1>9, <1>10, <1>12, <1>13, <1>14, <1>15, <1>16, <1>17
        DEF Next, Host, Engine

-----------------------------------------------------------------------------
(***************************************************************************)
(* What children() finds: the parent of a process in sight is the process  *)
(* of the alert or in sight too, and stays its parent as long as it is.    *)
(***************************************************************************)
LEMMA InSightFacts ==
  ASSUME HostOK, Forks, NEW n \in Procs, InSight(n), alert.proc \in Alive
  PROVE  LET q == parent[n] IN
         /\ q \in Alive /\ q \in lineage[n] /\ q < n /\ q # Reaper
         /\ q = alert.proc \/ InSight(q)
<1>1. alert.proc \in lineage[n] /\ n \in Alive
  BY DEF InSight
<1>2. PICK q \in Procs : lineage[n] = lineage[q] \cup {q} /\ (q \in Alive => parent[n] = q)
  BY <1>1 DEF Forks
<1>3. q = alert.proc \/ alert.proc \in lineage[q]
  BY <1>1, <1>2
<1>4. q \in Alive
  BY <1>2, <1>3 DEF InSight
<1>5. parent[n] = q /\ q \in lineage[n] /\ q < n /\ q # Reaper
  BY <1>2, <1>4, ProcsAreNumbers DEF Forks
<1>6. lineage[q] \subseteq lineage[n]
  BY <1>2
<1>7. alert.proc \in lineage[q] => InSight(q)
  BY <1>5, <1>6 DEF InSight
<1> QED BY <1>3, <1>4, <1>5, <1>7

LEMMA InSightKeeps ==
  ASSUME HostOK, Forks, HostOK', Forks', KnownAreBorn, HostStep, alert.proc \in Born,
         UNCHANGED <<alert, seen>>, alert.proc \in Alive', NEW n \in Procs, InSight(n)'
  PROVE  /\ InSight(n) /\ parent'[n] = parent[n]
         /\ pid'[n] = pid[n] /\ pid'[parent[n]] = pid[parent[n]]
<1>1. n \in seen /\ n \in Born /\ n \in Alive' /\ alert.proc \in lineage'[n]
  BY DEF InSight, KnownAreBorn
<1>2. lineage'[n] = lineage[n] /\ pid'[n] = pid[n] /\ n \in Alive
  BY <1>1, HostKeeps
<1>3. \A m \in lineage[n] : m \in Born
  <2>1. \A m \in lineage[n] : m < n /\ m \in Procs
    BY DEF Forks, HostOK
  <2> QED BY <1>1, <2>1, ProcsAreNumbers DEF Born, HostOK
<1>4. InSight(n)
  <2>1. ASSUME NEW m \in lineage[n], alert.proc \in lineage[m]
        PROVE  m \in Alive \cap seen
    <3>1. m \in Born /\ lineage'[m] = lineage[m]
      BY <1>3, HostKeeps
    <3>2. m \in Alive' \cap seen
      BY <1>2, <2>1, <3>1 DEF InSight
    <3> QED BY <3>1, <3>2, HostKeeps
  <2> QED BY <1>1, <1>2, <2>1 DEF InSight
<1>5. alert.proc \in Alive
  BY HostKeeps
<1>6. parent[n] \in lineage[n] /\ parent[n] \in Alive /\ (parent[n] = alert.proc \/ InSight(parent[n]))
  BY <1>4, <1>5, InSightFacts
<1>7. pid'[parent[n]] = pid[parent[n]]
  BY <1>3, <1>6, HostKeeps
<1>8. parent[n] \in Alive'
  <2>1. CASE parent[n] = alert.proc
    BY <2>1
  <2>2. CASE alert.proc \in lineage[parent[n]]
    <3>1. lineage'[parent[n]] = lineage[parent[n]]
      BY <1>3, <1>6, HostKeeps
    <3> QED BY <1>2, <1>6, <2>2, <3>1 DEF InSight
  <2> QED BY <1>6, <2>1, <2>2 DEF InSight
<1>9. parent'[n] = parent[n]
  <2>1. CASE UNCHANGED host
    BY <2>1 DEF host
  <2>2. ASSUME NEW a \in Procs \cup {Reaper}, NEW p \in Pids, Started(a, p)
        PROVE  parent'[n] = parent[n]
    <3>1. n # born + 1
      BY <1>1, ProcsAreNumbers DEF Born, HostOK
    <3> QED BY <2>2, <3>1 DEF Started, HostOK
  <2>3. ASSUME NEW m \in Procs, End(m) \/ Stopped(m) \/ Reaped(m)
        PROVE  parent'[n] = parent[n]
    <3>1. CASE UNCHANGED parent
      BY <3>1
    <3>2. CASE End(m)
      <4>1. m \notin Alive'
        BY <3>2 DEF End, HostOK, Alive
      <4>2. parent[n] # m
        BY <1>8, <4>1
      <4> QED BY <3>2, <4>2 DEF End
    <3> QED BY <2>3, <3>1, <3>2 DEF Stopped, Reaped
  <2> QED BY <2>1, <2>2, <2>3 DEF HostStep
<1> QED BY <1>2, <1>4, <1>7, <1>9

LEMMA FoundStays ==
  ASSUME TypeOK, Forks, KnownAreBorn, Locals, Grip, Found, Grip', TypeOK', Forks', HostStep, [Next]_vars
  PROVE  Found'
<1> DEFINE a == alert.proc
<1>0. HostOK /\ AgentOK /\ HostOK'
  BY TypeParts DEF TypeOK, HostOK, Alive, Present
<1>1. ASSUME InHand', UNCHANGED <<alert, held>>, others \subseteq others',
             pc \in {"list", "map", "walk"}, pc' \in {"map", "walk"}, killed' = {}
      PROVE  InHand /\ a \in Born /\ a \in Procs /\ a \in Alive /\ a \in Alive' /\ st[a] = "stop" /\ handle = a
  <2>1. InHand
    BY <1>1 DEF InHand
  <2>2. a \in Born /\ a \in Procs /\ handle = a
    BY <1>1, <2>1, InHandFacts DEF Grip, Engaged
  <2>3. st[a] = "stop" /\ st'[a] = "stop"
    BY <1>1, <2>1 DEF Grip, Holding, Engaged, Locals
  <2> QED BY <2>1, <2>2, <2>3 DEF Alive
<1>2. ASSUME InHand', UNCHANGED <<alert, held, seen>>, others \subseteq others',
             pc \in {"map", "walk"}, pc' \in {"map", "walk"}, killed' = {},
             NEW n \in Procs, InSight(n)'
      PROVE  /\ InHand /\ InSight(n) /\ parent'[n] = parent[n]
             /\ pid'[n] = pid[n] /\ pid'[parent[n]] = pid[parent[n]]
             /\ pid[n] \in unread \/ <<pid[n], pid[parent[n]]>> \in ppids \/ n \in kids
  <2>1. InHand /\ a \in Born /\ a \in Alive'
    BY <1>1, <1>2
  <2>2. /\ InSight(n) /\ parent'[n] = parent[n]
        /\ pid'[n] = pid[n] /\ pid'[parent[n]] = pid[parent[n]]
    BY <1>0, <1>2, <2>1, InSightKeeps
  <2> QED BY <1>2, <2>1, <2>2 DEF Found
<1>3. ASSUME UNCHANGED <<pc, response>>, others \subseteq others'
      PROVE  Found'
  <2> SUFFICES ASSUME InHand', pc' \in {"map", "walk"}, NEW n \in Procs, InSight(n)'
               PROVE  pid'[n] \in unread' \/ <<pid'[n], pid'[parent'[n]]>> \in ppids' \/ n \in kids'
    BY DEF Found
  <2>1. UNCHANGED <<alert, held, seen, unread, ppids, kids>> /\ killed' = {}
    BY <1>3 DEF response, listing, Locals
  <2> QED BY <1>2, <1>3, <2>1
<1>4. CASE \E q \in Procs \cup {Reaper}, p \in Pids : Fork(q, p)
  BY <1>3, <1>4 DEF Fork
<1>5. CASE \E n \in Procs : Exit(n) \/ KilledByOther(n) \/ Reap(n)
  BY <1>3, <1>5 DEF Exit, KilledByOther, Reap
<1>6. CASE UNCHANGED vars
  BY <1>3, <1>6 DEF vars
<1>7. ASSUME pc' \notin {"map", "walk"}
      PROVE  Found'
  BY <1>7 DEF Found
<1>8. CASE Evaluate \/ Quarantine \/ NextAlert \/ BatchDone \/ Freeze \/ ReadProc \/ QueryProcess
  BY <1>7, <1>8 DEF Evaluate, Quarantine, NextAlert, Respond, BatchDone, Freeze, ReadProc, QueryProcess
<1>9. CASE Persist \/ OpenProcess \/ Listed \/ TakeChild \/ TakeParent \/ Signal \/ Return \/ BlockRaises
  BY <1>7, <1>9 DEF Persist, OpenProcess, Listed, TakeChild, TakeParent, Take, Signal, Return, BlockRaises
<1>10. CASE ListChildren
  <2> SUFFICES ASSUME pc' = "map", NEW n \in Procs, InSight(n)'
               PROVE  pid'[n] \in unread'
    BY <1>10 DEF Found, ListChildren
  <2>1. UNCHANGED host /\ unread' = {pid[m] : m \in Present}
    BY <1>10 DEF ListChildren
  <2>2. n \in Present
    BY <2>1 DEF InSight, Alive, Present, host
  <2> QED BY <2>1, <2>2 DEF host
<1>11. CASE ReadParent
  <2> SUFFICES ASSUME InHand', NEW n \in Procs, InSight(n)'
               PROVE  pid'[n] \in unread' \/ <<pid'[n], pid'[parent'[n]]>> \in ppids' \/ n \in kids'
    BY DEF Found
  <2>1. /\ UNCHANGED <<alert, held, others, host, killed, seen, kids>> /\ pc = "map" /\ killed = {}
        /\ pc' \in {"map", "walk"}
    BY <1>11 DEF ReadParent, Locals
  <2>2. /\ InSight(n) /\ a \in Alive
        /\ pid[n] \in unread \/ <<pid[n], pid[parent[n]]>> \in ppids \/ n \in kids
    BY <1>1, <1>2, <2>1
  <2>3. PICK p \in unread :
          /\ unread' = unread \ {p}
          /\ ppids' = ppids \cup {<<p, pid[parent[m]]>> : m \in {m \in Present : pid[m] = p /\ parent[m] # Reaper}}
    BY <1>11 DEF ReadParent
  <2>4. n \in Present /\ parent[n] # Reaper
    BY <1>0, <2>2, InSightFacts DEF InSight, Alive, Present
  <2>5. pid[n] = p => <<pid[n], pid[parent[n]]>> \in ppids'
    BY <2>3, <2>4
  <2> QED BY <2>1, <2>2, <2>3, <2>5 DEF host
<1>12. CASE Walk
  <2> SUFFICES ASSUME InHand', NEW n \in Procs, InSight(n)'
               PROVE  pid'[n] \in unread' \/ <<pid'[n], pid'[parent'[n]]>> \in ppids' \/ n \in kids'
    BY DEF Found
  <2>1. /\ UNCHANGED <<alert, held, others, host, killed, seen, unread>> /\ pc = "walk" /\ killed = {}
        /\ pc' = "walk"
    BY <1>12 DEF Walk, Locals
  <2>2. /\ InSight(n) /\ handle = a /\ a \in Alive
        /\ pid[n] \in unread \/ <<pid[n], pid[parent[n]]>> \in ppids \/ n \in kids
    BY <1>1, <1>2, <2>1
  <2>3. PICK e \in ppids : /\ kids' = kids \cup {m \in Present : pid[m] = e[1] /\ handle <= m}
                           /\ ppids' = ppids \ {e}
    BY <1>12 DEF Walk
  <2>4. n \in Present /\ a \in lineage[n] /\ a \in Procs
    BY <2>2 DEF InSight, Alive, Present
  <2>5. a <= n
    <3>1. a < n
      BY <2>4 DEF Forks
    <3> QED BY <2>4, <3>1, ProcsAreNumbers
  <2>6. e = <<pid[n], pid[parent[n]]>> => n \in kids'
    BY <2>2, <2>3, <2>4, <2>5
  <2> QED BY <2>1, <2>2, <2>3, <2>6 DEF host
<1> QED BY <1>4, <1>5, <1>6, <1>8, <1>9, <1>10, <1>11, <1>12 DEF Next, Host, Engine

(***************************************************************************)
(* When no pid of the map is left below the list, all that is in sight is  *)
(* in the list.  Of what is in sight and is not, the first that was        *)
(* started has a parent that is in the list, and so it is left.            *)
(***************************************************************************)
LEMMA ListIsComplete ==
  ASSUME HostOK, Forks, Found, InHand, pc = "walk", unread = {}, handle = alert.proc,
         alert.proc \in Alive, \A e \in ppids : e[2] \notin Reached, NEW n \in Procs, InSight(n)
  PROVE  n \in kids
<1> DEFINE T == {m \in Procs : InSight(m) /\ m \notin kids}
<1> SUFFICES ASSUME n \notin kids
             PROVE  FALSE
  OBVIOUS
<1>1. n \in T /\ T \subseteq Nat
  BY ProcsAreNumbers
<1>2. PICK m \in T : \A k \in T : ~ (k < m)
  <2> HIDE DEF T
  <2> QED BY <1>1, LeastNumber
<1>3. PICK q : q = parent[m]
  OBVIOUS
<1>4. q \in Alive /\ q < m /\ (q = alert.proc \/ InSight(q))
  BY <1>2, <1>3, InSightFacts
<1>5. q \in kids \cup {handle}
  BY <1>2, <1>4 DEF Alive
<1>6. <<pid[m], pid[q]>> \in ppids
  BY <1>2, <1>3 DEF Found
<1>7. pid[q] \in Reached
  BY <1>5 DEF Reached
<1> QED BY <1>6, <1>7

LEMMA SightStays ==
  ASSUME TypeOK, Forks, KnownAreBorn, Locals, Grip, Found, Sight, HostStep, [Next]_vars
  PROVE  Sight'
<1> DEFINE a == alert.proc
           Done == pc \in {"kill", "signal", "last"} \/ (pc = "block" /\ Target \in killed)
<1>0. /\ HostOK /\ AgentOK
      /\ \A n \in Born : pid'[n] = pid[n] /\ lineage'[n] = lineage[n]
      /\ \A n \in Alive' : n \in Alive \/ n \notin Born
      /\ \A n \in Alive : n \in Born /\ \A m \in lineage[n] : m \in Born
  <2>1. HostOK /\ AgentOK
    BY TypeParts
  <2>2. ASSUME NEW n \in Alive
        PROVE  n \in Born /\ \A m \in lineage[n] : m \in Born
    <3>1. n \in Born /\ n \in Procs /\ n <= born
      BY <2>1, HostKeeps DEF Alive, Present, Born
    <3>2. \A m \in lineage[n] : m \in Procs /\ m < n
      BY <2>1, <3>1 DEF HostOK, Forks
    <3>3. \A m \in lineage[n] : m <= born
      BY <2>1, <3>1, <3>2, ProcsAreNumbers DEF HostOK
    <3> QED BY <3>1, <3>2, <3>3 DEF Born
  <2> QED BY <2>1, <2>2, HostKeeps
<1>1. ASSUME UNCHANGED <<alert, seen>>, InHand, Done,
             \A n \in Alive' : n \in kids \/ (pc = "signal" /\ n = aim) =>
               n \in kids' \/ (pc' = "signal" /\ n = aim')
      PROVE  \A n \in Alive' : a \in lineage'[n] =>
               n \in kids' \/ Unseen(n)' \/ (pc' = "signal" /\ n = aim')
  <2> SUFFICES ASSUME NEW n \in Alive', a \in lineage'[n],
                      ~ (n \in kids' \/ (pc' = "signal" /\ n = aim'))
               PROVE  Unseen(n)'
    OBVIOUS
  <2>1. CASE n \notin Born
    <3>1. n \notin seen
      BY <2>1 DEF KnownAreBorn
    <3> QED BY <1>1, <3>1 DEF Unseen
  <2>2. CASE n \in Born
    <3>1. n \in Alive /\ lineage'[n] = lineage[n] /\ ~ (n \in kids \/ (pc = "signal" /\ n = aim))
      BY <1>0, <1>1, <2>2
    <3>2. Unseen(n)
      BY <1>1, <3>1 DEF Sight
    <3>3. PICK m \in lineage[n] \cup {n} : a \in lineage[m] /\ m \notin seen
      BY <3>2 DEF Unseen
    <3>4. lineage'[m] = lineage[m]
      BY <1>0, <3>1
    <3> QED BY <1>1, <3>1, <3>3, <3>4 DEF Unseen
  <2> QED BY <2>1, <2>2
<1>2. ASSUME UNCHANGED <<pc, response>>, others \subseteq others'
      PROVE  Sight'
  <2>1. UNCHANGED <<alert, held, seen, kids, aim, killed>>
    BY <1>2 DEF response, listing
  <2>2. ASSUME InHand', Done'
        PROVE  InHand /\ Done
    <3>1. InHand
      BY <1>2, <2>1, <2>2 DEF InHand
    <3>2. Target' = Target
      BY <1>0, <2>1, <3>1, InHandFacts DEF Target
    <3> QED BY <1>2, <2>1, <2>2, <3>1, <3>2
  <2> QED BY <1>1, <1>2, <2>1, <2>2 DEF Sight
<1>3. CASE \E q \in Procs \cup {Reaper}, p \in Pids : Fork(q, p)
  BY <1>2, <1>3 DEF Fork
<1>4. CASE \E n \in Procs : Exit(n) \/ KilledByOther(n) \/ Reap(n)
  BY <1>2, <1>4 DEF Exit, KilledByOther, Reap
<1>5. CASE UNCHANGED vars
  BY <1>2, <1>5 DEF vars
<1>6. ASSUME pc' \notin {"kill", "signal", "last", "block"} \/ (pc' = "block" /\ killed' = {})
      PROVE  Sight'
  BY <1>6 DEF Sight
<1>7. CASE Evaluate \/ BatchDone \/ NextAlert \/ Quarantine
  BY <1>6, <1>7 DEF Evaluate, BatchDone, NextAlert, Quarantine, Respond
<1>8. CASE Return \/ BlockRaises \/ Freeze \/ ReadProc \/ QueryProcess
  BY <1>6, <1>8 DEF Return, BlockRaises, Freeze, ReadProc, QueryProcess
<1>9. CASE Persist \/ OpenProcess \/ ListChildren \/ ReadParent \/ Walk
  BY <1>6, <1>9 DEF Persist, OpenProcess, ListChildren, ReadParent, Walk, Locals
<1>10. CASE Listed
  <2> SUFFICES ASSUME InHand', NEW n \in Alive', a \in lineage'[n], ~ Unseen(n)'
               PROVE  n \in kids'
    BY <1>10 DEF Sight, Listed
  <2>1. /\ UNCHANGED <<alert, host, held, others, kids>> /\ seen' = seen \cap Alive /\ pc = "walk"
        /\ unread = {} /\ killed = {}
    BY <1>10 DEF Listed, Locals
  <2>2. InHand /\ handle = a /\ st[a] = "stop"
    BY <2>1 DEF InHand, Grip, Holding, Engaged
  <2>3. a \in Alive
    BY <2>2, InHandFacts DEF Alive
  <2>4. InSight(n) /\ n \in Procs
    BY <2>1 DEF Unseen, InSight, host, Alive
  <2>5. n \in kids
    BY <1>0, <1>10, <2>1, <2>2, <2>3, <2>4, ListIsComplete DEF Listed
  <2> QED BY <2>1, <2>5
<1>11. CASE TakeChild
  <2> SUFFICES ASSUME InHand'
               PROVE  Sight'
    BY DEF Sight
  <2>1. UNCHANGED <<alert, held, others, seen, host>> /\ pc = "kill"
    BY <1>11 DEF TakeChild
  <2>2. InHand /\ Done
    BY <2>1 DEF InHand
  <2>3. PICK k \in kids : Take(k, "signal", "kill") /\ kids' = kids \ {k}
    BY <1>11 DEF TakeChild
  <2>4. At(pid[k]) # k => k \notin Alive'
    BY <1>0, <2>1, PidsName DEF Alive, Present, host
  <2>5. \A n \in Alive' : n \in kids \/ (pc = "signal" /\ n = aim) =>
          n \in kids' \/ (pc' = "signal" /\ n = aim')
    BY <2>1, <2>3, <2>4 DEF Take
  <2> QED BY <1>1, <2>1, <2>2, <2>5 DEF Sight
<1>12. CASE TakeParent
  <2> SUFFICES ASSUME InHand'
               PROVE  Sight'
    BY DEF Sight
  <2>1. UNCHANGED <<alert, held, others, seen, kids>> /\ pc = "kill"
    BY <1>12 DEF TakeParent
  <2>2. InHand /\ Done
    BY <2>1 DEF InHand
  <2> QED BY <1>1, <2>1, <2>2 DEF Sight
<1>13. CASE Signal
  <2> SUFFICES ASSUME InHand'
               PROVE  Sight'
    BY DEF Sight
  <2>1. UNCHANGED <<alert, held, others, seen, kids>> /\ pc \in {"signal", "last"}
    BY <1>13 DEF Signal
  <2>2. InHand /\ Done /\ policy.maySignal
    BY <2>1, InHandFacts DEF InHand
  <2>3. PICK k : k = At(pid[aim])
    OBVIOUS
  <2>4. Kill(k)
    BY <1>13, <2>3 DEF Signal
  <2>5. ASSUME NEW n \in Alive', n = aim
        PROVE  FALSE
    <3>1. n \in Born
      BY <2>1, <2>5 DEF KnownAreBorn, Locals
    <3>2. n \in Alive /\ n \in Present
      BY <1>0, <2>5, <3>1 DEF Alive, Present
    <3>3. k = n
      BY <1>0, <2>3, <2>5, <3>2, PidsName
    <3>4. n \notin Alive'
      BY <1>0, <2>2, <2>4, <3>2, <3>3 DEF Kill, End, HostOK, Alive, Present
    <3> QED BY <2>5, <3>4
  <2> QED BY <1>1, <2>1, <2>2, <2>5 DEF Sight
<1> QED BY <1>3, <1>4, <1>5, <1>7, <1>8, <1>9, <1>10, <1>11, <1>12, <1>13 DEF Next, Host, Engine

-----------------------------------------------------------------------------
(***************************************************************************)
(* The inductive invariant.                                                *)
(***************************************************************************)
LEMMA InvInit == Init => Inv
<1> SUFFICES ASSUME Init
             PROVE  Inv
  OBVIOUS
<1>0. /\ 1 \in Procs /\ 0 \in Seconds
      /\ \A n \in Procs : n > 1 <=> n # 1
  BY ProcsAssumption, ClockAssumption DEF Procs, Seconds
<1>1. HostOK
  BY <1>0 DEF Init, HostOK, Present
<1>2. AgentOK
  BY <1>0 DEF Init, AgentOK, Empty, Artifacts, Nobody, Contents
<1>3. TypeOK
  BY <1>1, <1>2, TypeParts DEF Init
<1>4. Forks
  BY DEF Init, Forks
<1>5. KnownAreBorn
  BY DEF Init, KnownAreBorn, Nobody
<1>6. Locals /\ Batches
  BY DEF Init, Locals, Batches, Before, Outside, Engaged
<1>7. Grip /\ Spared /\ Found /\ Sight /\ Mapped /\ Aimed
  BY DEF Init, Grip, Spared, Found, Sight, InHand, Mapped, Aimed
<1>9. Once /\ Raised
  BY DEF Init, Once, Raised, Handling, Outside
<1>10. Holders
  <2>1. \A n \in Present : n = 1
    BY DEF Init, Present
  <2>2. 1 \in Born /\ \A m \in Born : m = 1
    BY <1>0 DEF Init, Born, Procs
  <2> QED BY <2>1, <2>2 DEF Holders, Latest
<1>8. Frozen
  BY DEF Init, Frozen
<1> QED BY <1>3, <1>4, <1>5, <1>6, <1>7, <1>8, <1>9, <1>10 DEF Inv

LEMMA InvStep == Inv /\ [Next]_vars => Inv'
<1> SUFFICES ASSUME Inv, [Next]_vars
             PROVE  Inv'
  OBVIOUS
<1>1. TypeOK' /\ HostStep /\ HostOK /\ AgentOK
  BY TypeStep, TypeParts DEF Inv
<1>2. Forks' /\ KnownAreBorn' /\ Holders' /\ Locals' /\ Batches'
  BY <1>1, ForksStay, KnownStay, HoldersStay, LocalsStay, BatchesStay DEF Inv
<1>3. Once' /\ Raised' /\ Mapped' /\ Aimed'
  BY <1>1, RaisedStay, MappedStays, AimedStays DEF Inv
<1>4. Grip' /\ Spared' /\ Frozen' /\ Sight'
  BY <1>1, GripStays, SparedStays, FrozenStays, SightStays DEF Inv
<1>5. Found'
  BY <1>1, <1>2, <1>4, FoundStays DEF Inv
<1> QED BY <1>1, <1>2, <1>3, <1>4, <1>5 DEF Inv

THEOREM InvHolds == Spec => []Inv
BY InvInit, InvStep, PTL DEF Spec

-----------------------------------------------------------------------------
(***************************************************************************)
(* The variables of the host, of the agent's loop and of respond() have    *)
(* their types; two processes that are present never have one pid.         *)
(***************************************************************************)
THEOREM TypeCorrect == Spec => []TypeOK
<1>1. Inv => TypeOK
  BY DEF Inv
<1> QED BY <1>1, InvHolds, PTL

(***************************************************************************)
(* A response that has stopped the process of its alert harms nothing but  *)
(* that process and what descends from it, as long as no pid changes hands *)
(* within psutil's children() or kill(), between its look and its use.     *)
(***************************************************************************)
THEOREM BystandersAreSpared == Spec => []SparesBystanders
<1>1. Inv => SparesBystanders
  BY DEF Inv, Spared, InTree, SparesBystanders
<1> QED BY <1>1, InvHolds, PTL

(***************************************************************************)
(* The artifact it is about to write describes that process in both of its *)
(* halves.                                                                 *)
(***************************************************************************)
THEOREM EvidenceIsTrue == Spec => []EvidenceIsOfTarget
<1>1. Inv => EvidenceIsOfTarget
  BY DEF Inv, Grip, EvidenceIsOfTarget
<1> QED BY <1>1, InvHolds, PTL

(***************************************************************************)
(* A reported SIGKILL for the pid of the alert has met the process of the  *)
(* alert.                                                                  *)
(***************************************************************************)
THEOREM ReportIsTrue == Spec => []KillReportIsTrue
<1>1. Inv => KillReportIsTrue
  BY DEF Inv, Grip, KillReportIsTrue
<1> QED BY <1>1, InvHolds, PTL

(***************************************************************************)
(* With auto_kill and the right to signal, no response leaves a process    *)
(* frozen.                                                                 *)
(***************************************************************************)
THEOREM NothingStaysFrozen == Spec => []NothingLeftFrozen
<1>1. Inv => NothingLeftFrozen
  BY DEF Inv, Frozen, Holding, Engaged, NothingLeftFrozen
<1> QED BY <1>1, InvHolds, PTL

(***************************************************************************)
(* What of the tree outlives a completed kill was forked after children()  *)
(* had begun, or below a process that had ended by its end.                *)
(***************************************************************************)
THEOREM SurvivorsWereUnseen == Spec => []SurvivorsWereOutOfSight
<1>1. ASSUME Inv
      PROVE  SurvivorsWereOutOfSight
  <2> SUFFICES ASSUME InHand, pc = "block", Target \in killed,
                      NEW n \in Alive, alert.proc \in lineage[n]
               PROVE  n \notin seen \/ \E m \in lineage[n] : alert.proc \in lineage[m] /\ m \notin seen
    BY DEF SurvivorsWereOutOfSight
  <2>1. kids = {}
    BY <1>1 DEF Inv, Locals
  <2>2. Unseen(n)
    BY <1>1, <2>1 DEF Inv, Sight
  <2> QED BY <2>2 DEF Unseen
<1> QED BY <1>1, InvHolds, PTL

(***************************************************************************)
(* Back in the loop, every alert is answered, unless a failed firewall     *)
(* call has ended a batch.                                                 *)
(***************************************************************************)
THEOREM AlertsAreAnswered == Spec => []AnsweredDespiteFailures
<1>1. ASSUME Inv
      PROVE  AnsweredDespiteFailures
  <2> DEFINE Unanswered == alerted \ {<<pid[a.proc], a.rule>> : a \in answered}
  <2> SUFFICES ASSUME pc = "idle", NEW x \in Unanswered
               PROVE  \E q \in Pids : <<q, "R2">> \in Unanswered
    BY DEF AnsweredDespiteFailures
  <2>1. batch = {} /\ Handling = {}
    BY <1>1 DEF Inv, Batches, Handling, Outside
  <2>2. \A y : Known(y) <=> \E b \in answered : y = <<pid[b.proc], b.rule>>
    BY <2>1 DEF Known, Key
  <2>3. x \in alerted /\ ~ Known(x)
    BY <2>2
  <2>4. PICK q \in Pids : <<q, "R2">> \in alerted /\ ~ Known(<<q, "R2">>)
    BY <1>1, <2>3 DEF Inv, Raised
  <2> QED BY <2>2, <2>4
<1> QED BY <1>1, InvHolds, PTL
=============================================================================
