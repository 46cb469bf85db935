------------------------------ MODULE Detector ------------------------------
(***************************************************************************)
(* The detection engine of the endpoint agent (agent/detector.py) and the  *)
(* collector that feeds it (agent/collector.py), beside the processes,     *)
(* connections and canary files of the host.                               *)
(*                                                                         *)
(* The collector reads the processes one by one and then the connections,  *)
(* while the host goes on; evaluate() follows without a pause.  The check  *)
(* of the canary files is another task of the same event loop, so it runs  *)
(* between two evaluations.  Pids are numbers, since the rules keep what   *)
(* they have reported as numbers in one set.  A process is a shell or a    *)
(* service that should start none.  The clock does not go backwards.       *)
(***************************************************************************)
EXTENDS Integers, FiniteSets

CONSTANTS
  Pids,             \* the pids of the host
  R2Offset,         \* what R2 adds to a pid it reports: 900000
  R3Offset,         \* what R3 adds: 800000
  Ports,            \* remote ports; one on this host is to the rules as one not in C2Ports
  C2Ports,          \* reverse_shell_ports
  ScanThreshold,    \* port_scan_distinct_port_threshold
  ScanWindow,       \* scan_window_secs
  Files,            \* the files below canary_paths
  CanaryThreshold,  \* canary_modification_threshold
  CanaryWindow,     \* canary_window_secs
  MaxTime,          \* bound: the last moment of the clock
  MaxChanges        \* bound: how many changes there are on the host

ASSUME KeysAssumption == /\ Pids \subseteq Nat \ {0} /\ IsFiniteSet(Pids)
                         /\ R2Offset \in Nat /\ R3Offset \in Nat
ASSUME RulesAssumption == /\ C2Ports \subseteq Ports /\ IsFiniteSet(Ports) /\ IsFiniteSet(Files)
                          /\ {ScanThreshold, CanaryThreshold} \subseteq Nat \ {0}
                          /\ {ScanWindow, CanaryWindow, MaxTime, MaxChanges} \subseteq Nat

VARIABLES
  role,      \* role[p]: "none" when no process has pid p
  ppid,      \* ppid[p]: the pid of its parent, Init1 for any other process
  peers,     \* peers[p]: the remote ports it is connected to
  present,   \* the canary files that can be read
  version,   \* version[f]: how often file f has been written
  now,       \* time.time()
  changes,   \* how many changes there have been on the host
  todo,      \* the pids the collector still has to read
  at,        \* the timestamp of the snapshot, None when there is none
  procs,     \* procs[p]: role and parent of p as the snapshot has them
  marked,    \* _already_alerted_pids
  history,   \* history[p]: _port_touch_history, a set as time only grows
  hashes,    \* _canary_hashes, the version last read, None before
  modEvents, \* _canary_mod_events, a set likewise
  raised,    \* raised[r, p]: how many alerts of rule r there are on pid p
  matched,   \* rule and pid of whatever a rule has ever applied to
  touched,   \* every <<time, pid, port>> a snapshot has shown
  everRead,  \* the canary files that have ever been read
  dirty,     \* those of them written since they were last read
  noticed    \* noticed[f]: the last check that found f dirty since an alarm

host == <<role, ppid, peers>>
disk == <<present, version>>
snapshot == <<todo, at, procs>>
rules == <<marked, history, raised, matched, touched>>
canary == <<hashes, modEvents, everRead, dirty, noticed>>
vars == <<host, disk, now, changes, snapshot, rules, canary>>

None == -1
Init1 == 0
Roles == {"none", "shell", "service"}
Rules == {"R1", "R2", "R3"}
Nothing == [p \in Pids |-> [role |-> "none", ppid |-> Init1]]

\* What a rule puts into the set of pids already alerted.
Key(r, p) == CASE r = "R1" -> p [] r = "R2" -> p + R2Offset [] r = "R3" -> p + R3Offset

Init ==
  /\ role = [p \in Pids |-> "none"] /\ ppid = [p \in Pids |-> Init1]
  /\ peers = [p \in Pids |-> {}]
  /\ present = Files /\ version = [f \in Files |-> 0]
  /\ now = 0 /\ changes = 0
  /\ todo = {} /\ at = None /\ procs = Nothing
  /\ marked = {} /\ history = [p \in Pids |-> {}]
  /\ raised = [x \in Rules \X Pids |-> 0] /\ matched = {} /\ touched = {}
  /\ hashes = [f \in Files |-> None] /\ modEvents = {}
  /\ everRead = {} /\ dirty = {} /\ noticed = [f \in Files |-> None]

-----------------------------------------------------------------------------
(***************************************************************************)
(* The host.                                                               *)
(***************************************************************************)
Change ==
  /\ changes < MaxChanges
  /\ changes' = changes + 1
  /\ UNCHANGED <<now, snapshot, rules>>

\* A process is forked and executes its program; a parent that is no service
\* is like Init1 to the rules.
Start(p, r, q) ==
  /\ Change
  /\ role[p] = "none" /\ q \in {Init1} \cup {s \in Pids : role[s] = "service"}
  /\ role' = [role EXCEPT ![p] = r] /\ ppid' = [ppid EXCEPT ![p] = q]
  /\ UNCHANGED <<peers, disk, canary>>

Exit(p) ==
  /\ Change
  /\ role[p] # "none"
  /\ role' = [role EXCEPT ![p] = "none"]
  /\ ppid' = [q \in Pids |-> IF q = p \/ ppid[q] = p THEN Init1 ELSE ppid[q]]
  /\ peers' = [peers EXCEPT ![p] = {}]
  /\ UNCHANGED <<disk, canary>>

\* Connections are established and closed.
Connect(p, X) ==
  /\ Change
  /\ role[p] # "none" /\ peers[p] # X
  /\ peers' = [peers EXCEPT ![p] = X]
  /\ UNCHANGED <<role, ppid, disk, canary>>

\* Files are written, anew if they were deleted.
Write(F) ==
  /\ Change
  /\ version' = [f \in Files |-> IF f \in F THEN version[f] + 1 ELSE version[f]]
  /\ present' = present \cup F
  /\ dirty' = dirty \cup (F \cap everRead)
  /\ UNCHANGED <<host, hashes, modEvents, everRead, noticed>>

\* The file is deleted or no longer readable.
Delete(f) ==
  /\ Change
  /\ f \in present /\ present' = present \ {f}
  /\ UNCHANGED <<host, version, canary>>

Tick ==
  /\ now < MaxTime /\ now' = now + 1
  /\ UNCHANGED <<host, disk, changes, snapshot, rules, canary>>

-----------------------------------------------------------------------------
(***************************************************************************)
(* Collector.snapshot(): the time, the processes, the connections.         *)
(***************************************************************************)
StartSnapshot ==
  /\ at = None
  /\ at' = now /\ procs' = Nothing
  /\ todo' = {p \in Pids : role[p] # "none"}
  /\ UNCHANGED <<host, disk, now, changes, rules, canary>>

\* In the order of the pids; a process that has gone since is left out.
CollectProcess(p) ==
  /\ p \in todo /\ \A q \in todo : p <= q
  /\ todo' = todo \ {p}
  /\ procs' = [procs EXCEPT ![p] = [role |-> role[p], ppid |-> ppid[p]]]
  /\ UNCHANGED <<host, disk, now, changes, at, rules, canary>>

-----------------------------------------------------------------------------
(***************************************************************************)
(* evaluate().                                                             *)
(***************************************************************************)
\* collect_connections() is the last the collector reads, right before
\* evaluate(); a connection names its process by the pid alone.
Connections(p) == peers[p]

\* R1: a shell whose parent, as the snapshot has it, is a service.
ShellSpawns ==
  {p \in Pids : /\ procs[p].role = "shell" /\ procs[p].ppid \in Pids
                /\ procs[procs[p].ppid].role = "service"}

\* Mutant: R2 passes over a shell whose parent is not in the snapshot, as R1 does.
C2OfChildren ==
  {p \in Pids : procs[p].role = "shell" /\ procs[p].ppid \in Pids /\ Connections(p) \cap C2Ports # {}}

\* R2: a shell of the snapshot connected to a listener port.
C2Connections ==
  {p \in Pids : procs[p].role = "shell" /\ Connections(p) \cap C2Ports # {}}

\* Mutant: >= window in place of > window.
RecentTooStrict(events, t, window) == {e \in events : t - e[1] < window}

\* What the loop over popleft() leaves of events with a time each.
Recent(events, t, window) == {e \in events : t - e[1] <= window}

\* The history R3 has of a pid after this snapshot; only the pids with a
\* connection are looked at.
Touch(p) ==
  IF Connections(p) = {} THEN history[p]
  ELSE Recent(history[p] \cup ({at} \X Connections(p)), at, ScanWindow)

Scanners ==
  {p \in Pids : Connections(p) # {} /\ Cardinality({h[2] : h \in Touch(p)}) >= ScanThreshold}

\* Mutant: return in place of continue at the first pid known already.
UnknownUpToKnown(r, M, known) == {p \in M : \A q \in M : q <= p => Key(r, q) \notin known}

\* The pids of M on which rule r raises an alert and which it marks.
Unknown(r, M, known) == {p \in M : Key(r, p) \notin known}

Keys(X) == {Key(x[1], x[2]) : x \in X}

Evaluate ==
  /\ at # None /\ todo = {}
  /\ LET new1 == {"R1"} \X Unknown("R1", ShellSpawns, marked)
         known1 == marked \cup Keys(new1)
         new2 == {"R2"} \X Unknown("R2", C2Connections, known1)
         known2 == known1 \cup Keys(new2)
         new3 == {"R3"} \X Unknown("R3", Scanners, known2)
         new == new1 \cup new2 \cup new3
     IN /\ marked' = marked \cup Keys(new)
        /\ raised' = [x \in Rules \X Pids |-> raised[x] + (IF x \in new THEN 1 ELSE 0)]
  /\ matched' = matched \cup ({"R1"} \X ShellSpawns) \cup ({"R2"} \X C2Connections)
                        \cup ({"R3"} \X Scanners)
  /\ history' = [p \in Pids |-> Touch(p)]
  /\ touched' = touched \cup UNION {{at} \X {p} \X Connections(p) : p \in Pids}
  /\ at' = None /\ procs' = Nothing
  /\ UNCHANGED <<host, disk, now, changes, todo, canary>>

-----------------------------------------------------------------------------
(***************************************************************************)
(* check_canary_integrity().                                               *)
(***************************************************************************)
\* Mutant: the hash of a file that cannot be read is dropped.
RehashDropsDeleted == [f \in Files |-> IF f \in present THEN version[f] ELSE None]

Rehash == [f \in Files |-> IF f \in present THEN version[f] ELSE hashes[f]]

\* Mutant: no clear().
KeepAll(events, alarm) == events

\* An alarm clears the events it was raised for.
Keep(events, alarm) == IF alarm THEN {} ELSE events

Check ==
  LET changed == {f \in present : hashes[f] \notin {None, version[f]}}
      events == Recent(modEvents \cup ({now} \X changed), now, CanaryWindow)
      alarm == Cardinality({e[2] : e \in events}) >= CanaryThreshold
      seen == [f \in Files |-> IF f \in dirty \cap present THEN now ELSE noticed[f]]
  IN
  /\ at = None
  /\ hashes' = Rehash
  /\ modEvents' = Keep(events, alarm)
  /\ noticed' = IF alarm THEN [f \in Files |-> None] ELSE seen
  /\ everRead' = everRead \cup present /\ dirty' = dirty \ present
  /\ UNCHANGED <<host, disk, now, changes, snapshot, rules>>

Host ==
  \/ \E p \in Pids :
       \/ Exit(p)
       \/ \E X \in SUBSET Ports : Connect(p, X)
       \/ \E r \in Roles \ {"none"} : \E q \in Pids \cup {Init1} : Start(p, r, q)
  \/ \E f \in Files : Delete(f)
  \/ \E F \in SUBSET Files \ {{}} : Write(F)

Agent == StartSnapshot \/ (\E p \in Pids : CollectProcess(p)) \/ Evaluate

Next == Host \/ Tick \/ Agent \/ Check

(***************************************************************************)
(* Fairness.  The detection loop goes on: it sleeps a second between two   *)
(* snapshots, and an exception does not end it (agent/agent.py).           *)
(***************************************************************************)
Spec == Init /\ [][Next]_vars /\ WF_vars(Agent)
-----------------------------------------------------------------------------
Times == 0..MaxTime

TypeOK ==
  /\ role \in [Pids -> Roles] /\ ppid \in [Pids -> Pids \cup {Init1}]
  /\ peers \in [Pids -> SUBSET Ports]
  /\ \A p \in Pids : role[p] = "none" => peers[p] = {} /\ p \notin {ppid[q] : q \in Pids}
  /\ present \subseteq Files /\ version \in [Files -> 0..MaxChanges]
  /\ now \in Times /\ changes \in 0..MaxChanges
  /\ todo \subseteq Pids /\ at \in Times \cup {None} /\ (at = None => todo = {} /\ procs = Nothing)
  /\ procs \in [Pids -> [role : Roles, ppid : Pids \cup {Init1}]]
  /\ marked \subseteq Keys(Rules \X Pids)
  /\ history \in [Pids -> SUBSET (Times \X Ports)]
  /\ hashes \in [Files -> {None} \cup 0..MaxChanges] 
  /\ modEvents \subseteq Times \X Files /\ Cardinality({e[2] : e \in modEvents}) < CanaryThreshold
  /\ raised \in [Rules \X Pids -> Nat] /\ matched \subseteq Rules \X Pids
  /\ touched \subseteq Times \X Pids \X Ports
  /\ dirty \subseteq everRead /\ everRead \subseteq Files /\ noticed \in [Files -> Times \cup {None}]

(***************************************************************************)
(* Of all the rules and pids that share a key in the set of alerted pids   *)
(* and have ever applied, exactly one has raised an alert, and that one    *)
(* alert: nothing is reported twice, and what stays silent has its key     *)
(* taken, by an earlier process of that pid or by another rule's pid.      *)
(***************************************************************************)
OneAlertPerKey ==
  /\ \A x \in Rules \X Pids : raised[x] > 0 => x \in matched
  /\ \A k \in Keys(matched) :
       \E x \in matched : /\ Key(x[1], x[2]) = k /\ raised[x] = 1
                         /\ \A y \in matched \ {x} : Key(y[1], y[2]) = k => raised[y] = 0

(***************************************************************************)
(* R3 finds a scan exactly when some window of the full log of snapshots   *)
(* holds enough distinct ports of a pid, though it keeps a pruned history  *)
(* and looks only at pids that have a connection.                          *)
(***************************************************************************)
ScanIsFound ==
  \A p \in Pids :
    <<"R3", p>> \in matched <=>
      \E t \in Times :
        Cardinality({x \in Ports : \E u \in (t - ScanWindow)..t : <<u, p, x>> \in touched})
          >= ScanThreshold

(***************************************************************************)
(* No burst of writes to the canary files stays without an alarm: those    *)
(* found written within the window, since the last alarm, are always fewer *)
(* than the threshold, however files are deleted and written again.        *)
(***************************************************************************)
BurstIsReported ==
  Cardinality({f \in Files : noticed[f] # None /\ now - noticed[f] <= CanaryWindow}) < CanaryThreshold

\* The rules on single processes that apply to p now and whose key is free.
Due(p) ==
  {r \in {"R1", "R2"} :
     /\ role[p] = "shell" /\ Key(r, p) \notin marked
     /\ CASE r = "R1" -> ppid[p] \in Pids /\ role[ppid[p]] = "service"
          [] r = "R2" -> peers[p] \cap C2Ports # {}}

(***************************************************************************)
(* A shell below a service or with a connection to a listener port does    *)
(* not last without an alert, unless the key of the rule is taken.         *)
(***************************************************************************)
SuspectIsReported == \A p \in Pids : Due(p) # {} ~> Due(p) = {}
=============================================================================
