---------------------------- MODULE Containment ----------------------------
(***************************************************************************)
(* The containment engine of the endpoint agent (agent/containment.py,     *)
(* agent/forensics.py) beside the processes of the host it acts on.        *)
(*                                                                         *)
(* respond() is synchronous: inside the agent nothing runs beside it, but  *)
(* the host's processes fork, exit and are reaped between any two of its   *)
(* system calls, and a pid that was freed is used again.  A process is     *)
(* therefore an incarnation, a number in the order of the forks, and a pid *)
(* names at most one incarnation at a time.  os.kill() takes a pid.  A     *)
(* psutil.Process stands for one incarnation, told by its start time, but  *)
(* psutil too reads a pid here and uses it there: children() reads the     *)
(* parent of one pid after the other and only then makes a Process of each *)
(* child, and kill() looks at the start time before it signals.  Its steps *)
(* are those of the versions requirements.txt admits; they are not in the  *)
(* repository.                                                             *)
(*                                                                         *)
(* The alerts come from the detection loop, a batch per snapshot, or from  *)
(* a quarantine command.  Of the rules R1 stands for those without and R2  *)
(* for the one with a remote address.                                      *)
(***************************************************************************)
EXTENDS Naturals, FiniteSets

CONSTANTS
  Pids,        \* the pids of the host
  MaxProcs,    \* bound: how many processes are ever started
  MaxSecond,   \* bound: the last second of the clock
  MaxAlerts,   \* bound: how many alerts the rules ever raise
  MaxOthers    \* bound: how many stopped processes someone else kills

ASSUME ProcsAssumption == MaxProcs \in Nat \ {0} /\ IsFiniteSet(Pids) /\ Pids # {}
ASSUME ClockAssumption == MaxSecond \in Nat /\ MaxAlerts \in Nat /\ MaxOthers \in Nat

VARIABLES
  born,       \* how many processes have been started
  pid,        \* pid[n]: the pid of process n, of those born
  st,         \* st[n]: "unborn", "run", "stop", "zombie" or "gone"
  parent,     \* parent[n]: its parent, Reaper when it was orphaned
  lineage,    \* lineage[n]: every process it descends from by forks
  others,     \* the stopped processes someone else has killed
  second,     \* int(time.time()) when it was last read
  policy,     \* enabled, auto_kill, and whether the agent may signal
  alerted,    \* Detector._already_alerted_pids: pid and rule
  batch,      \* the alerts of evaluate() still to be handled
  answered,   \* alerts of the rules for which respond() has returned
  pc,         \* where respond() is; "idle" and "next": the agent's loop
  alert,      \* the alert being handled: the process it is about, and the rule
  held,       \* SIGSTOP has stopped the process the alert is about
  artifact,   \* the local variable artifact of respond()
  handle,     \* the psutil.Process of _kill_process_tree
  unread,     \* the pids listed whose parent children() has not read yet
  ppids,      \* what it has read: pairs of a pid and the pid of its parent
  kids,       \* the children of handle that are still to be killed
  aim,        \* the process kill() has found to be the one it stands for
  swapped,    \* a pid has changed hands between psutil's look and its use
  killed,     \* the pids of the list killed that is reported
  victims,    \* the processes this response has stopped or killed
  seen,       \* the processes running or stopped all through children()
  files       \* files[p, s]: the file forensic_{p}_{s}.json

host == <<born, pid, st, parent, lineage>>
detection == <<alerted, batch, answered>>
listing == <<unread, ppids>>
response == <<alert, held, artifact, handle, listing, kids, aim, killed, victims, seen>>
vars == <<host, others, second, policy, detection, pc, response, swapped, files>>

Procs == 1..MaxProcs
Reaper == 0
Nobody == 0
Seconds == 0..MaxSecond
Rules == {"R1", "R2", "MANUAL"}
NoAlert == [proc |-> Nobody, rule |-> "MANUAL"]
Alerts == [proc : Procs, rule : Rules]
Manual == [proc : Procs, rule : {"MANUAL"}]

\* What an artifact describes: the process whose /proc files were read and
\* the one psutil was asked about.
Artifacts == [proc : Procs \cup {Nobody}, queried : Procs \cup {Nobody}, at : Seconds]
\* A file is told apart by whether it holds the evidence on one process, a
\* complete record of nothing, or half a record.
Contents == {"none", "whole", "hollow", "torn"}
Worth(a) == IF a.proc # Nobody /\ a.queried = a.proc THEN "whole" ELSE "hollow"

Empty(s) == [proc |-> Nobody, queried |-> Nobody, at |-> s]

Alive == {n \in Procs : st[n] \in {"run", "stop"}}
Present == {n \in Procs : st[n] \in {"run", "stop", "zombie"}}
Dead == {n \in Procs : st[n] \in {"zombie", "gone"}}

\* The process a pid names, or Nobody.
At(p) == IF \E n \in Present : pid[n] = p
         THEN CHOOSE n \in Present : pid[n] = p ELSE Nobody

Init ==
  /\ born = 1 /\ \E p \in Pids : pid = [n \in Procs |-> p]
  /\ st = [n \in Procs |-> IF n = 1 THEN "run" ELSE "unborn"]
  /\ parent = [n \in Procs |-> Reaper] /\ lineage = [n \in Procs |-> {}]
  /\ others = {} /\ second = 0
  /\ policy \in [enabled : BOOLEAN, autoKill : BOOLEAN, maySignal : BOOLEAN]
  /\ alerted = {} /\ batch = {} /\ answered = {}
  /\ pc = "idle" /\ alert = NoAlert
  /\ held = FALSE /\ artifact = Empty(0) /\ handle = Nobody
  /\ unread = {} /\ ppids = {} /\ kids = {} /\ aim = Nobody /\ swapped = FALSE
  /\ killed = {} /\ victims = {} /\ seen = {}
  /\ files = [k \in Pids \X Seconds |-> "none"]

-----------------------------------------------------------------------------
(***************************************************************************)
(* The host.  A process that ends stays a zombie until it is reaped, its   *)
(* children go to the reaper, and only then is its pid free.               *)
(***************************************************************************)
\* The pids psutil has looked at and is still to use.
Exposed ==
  IF pc \in {"map", "walk"} THEN {pid[n] : n \in 1..born}
  ELSE IF pc \in {"signal", "last"} THEN {pid[aim]} ELSE {}

Fork(a, p) ==
  /\ born < MaxProcs
  /\ a = Reaper \/ (a \in Procs /\ st[a] = "run")
  /\ At(p) = Nobody
  /\ born' = born + 1
  /\ pid' = [pid EXCEPT ![born + 1] = p]
  /\ st' = [st EXCEPT ![born + 1] = "run"]
  /\ parent' = [parent EXCEPT ![born + 1] = a]
  /\ lineage' = [lineage EXCEPT ![born + 1] = IF a = Reaper THEN {} ELSE lineage[a] \cup {a}]
  /\ swapped' = (swapped \/ p \in Exposed)
  /\ UNCHANGED <<others, second, policy, detection, pc, response, files>>

\* Process n ends: of its own accord or by SIGKILL.
End(n) ==
  /\ st' = [st EXCEPT ![n] = IF st[n] \in {"run", "stop"} THEN "zombie" ELSE st[n]]
  /\ parent' = [m \in Procs |-> IF parent[m] = n THEN Reaper ELSE parent[m]]
  /\ UNCHANGED <<born, pid, lineage>>

Exit(n) ==
  /\ st[n] = "run"
  /\ End(n)
  /\ UNCHANGED <<others, second, policy, detection, pc, response, swapped, files>>

\* Someone else kills a stopped process.  To kill a running one is no other
\* than its Exit.
KilledByOther(n) ==
  /\ st[n] = "stop" /\ Cardinality(others) < MaxOthers
  /\ End(n)
  /\ others' = others \cup {n}
  /\ UNCHANGED <<second, policy, detection, pc, response, swapped, files>>

Reap(n) ==
  /\ st[n] = "zombie"
  /\ st' = [st EXCEPT ![n] = "gone"]
  /\ UNCHANGED <<born, pid, parent, lineage, others, second, policy, detection, pc, response,
                 swapped, files>>

-----------------------------------------------------------------------------
(***************************************************************************)
(* The agent's loop.  A snapshot yields alerts that were not raised before *)
(* for the same pid and rule; they are marked when they are raised and     *)
(* handled one after the other.  A zombie still has a name, but no socket. *)
(***************************************************************************)
Suspect == {a \in [proc : Present, rule : {"R1", "R2"}] :
              /\ <<pid[a.proc], a.rule>> \notin alerted
              /\ a.rule = "R2" => a.proc \in Alive}

Evaluate ==
  /\ pc = "idle"
  /\ \E A \in SUBSET Suspect :
       /\ A # {} /\ Cardinality(alerted) + Cardinality(A) <= MaxAlerts
       /\ batch' = A
       /\ alerted' = alerted \cup {<<pid[a.proc], a.rule>> : a \in A}
  /\ pc' = "next"
  /\ UNCHANGED <<host, others, second, policy, answered, response, swapped, files>>

\* respond(alert) is called.
Respond(a) ==
  IF policy.enabled
  THEN /\ pc' = "freeze" /\ alert' = a
       /\ UNCHANGED <<answered, held, artifact, handle, listing, kids, aim, killed, victims, seen>>
  ELSE /\ pc' = "next" /\ answered' = answered \cup ({a} \ Manual)
       /\ UNCHANGED response

\* The alerts of a batch come in any order: some of those R1 stands for are
\* found before those of R2, some after.
NextAlert ==
  /\ pc = "next"
  /\ \E a \in batch : batch' = batch \ {a} /\ Respond(a)
  /\ UNCHANGED <<host, others, second, policy, alerted, swapped, files>>

BatchDone ==
  /\ pc = "next" /\ batch = {}
  /\ pc' = "idle"
  /\ UNCHANGED <<host, others, second, policy, detection, response, swapped, files>>

\* manual_quarantine(): the analyst picks an alert on the dashboard; its
\* process may have ended since.
Quarantine ==
  /\ pc = "idle"
  /\ \E n \in {a.proc : a \in answered} : Respond([proc |-> n, rule |-> "MANUAL"])
  /\ UNCHANGED <<host, others, second, policy, alerted, batch, swapped, files>>

-----------------------------------------------------------------------------
(***************************************************************************)
(* respond().                                                              *)
(***************************************************************************)
Target == pid[alert.proc]

\* Mutant: signal 0 in place of SIGSTOP.
FreezeProbes ==
  /\ pc = "freeze"
  /\ LET n == At(Target) IN
     IF n \in Alive /\ policy.maySignal
     THEN held' = (n = alert.proc) /\ victims' = {n} /\ UNCHANGED st
     ELSE UNCHANGED <<st, held, victims>>
  /\ pc' = "read"
  /\ UNCHANGED <<born, pid, parent, lineage, others, second, policy, detection,
                 alert, artifact, handle, listing, kids, aim, swapped, killed, seen, files>>

\* _freeze(): SIGSTOP goes to whatever process has the pid by now; a zombie
\* takes it and is not changed.
Freeze ==
  /\ pc = "freeze"
  /\ LET n == At(Target) IN
     IF n \in Alive /\ policy.maySignal
     THEN /\ st' = [st EXCEPT ![n] = "stop"]
          /\ held' = (n = alert.proc)
          /\ victims' = {n}
     ELSE UNCHANGED <<st, held, victims>>
  /\ pc' = "read"
  /\ UNCHANGED <<born, pid, parent, lineage, others, second, policy, detection,
                 alert, artifact, handle, listing, kids, aim, swapped, killed, seen, files>>

\* Mutant: the time of the capture is rounded up.
ReadProcLate ==
  /\ pc = "read"
  /\ second' \in second..MaxSecond
  /\ artifact' = [Empty(second' + 1) EXCEPT !.proc = IF At(Target) \in Alive THEN At(Target) ELSE Nobody]
  /\ pc' = "query"
  /\ UNCHANGED <<host, others, policy, detection,
                 alert, held, handle, listing, kids, aim, swapped, killed, victims, seen, files>>

\* capture(): first the time and the files below /proc/<pid>, of which a
\* zombie has none left that say anything, then psutil.  The time is read
\* nowhere else, so here is where the clock has moved on.
ReadProc ==
  /\ pc = "read"
  /\ second' \in second..MaxSecond
  /\ artifact' = [Empty(second') EXCEPT !.proc = IF At(Target) \in Alive THEN At(Target) ELSE Nobody]
  /\ pc' = "query"
  /\ UNCHANGED <<host, others, policy, detection,
                 alert, held, handle, listing, kids, aim, swapped, killed, victims, seen, files>>

QueryProcess ==
  /\ pc = "query"
  /\ artifact' = [artifact EXCEPT !.queried = IF At(Target) \in Alive THEN At(Target) ELSE Nobody]
  /\ pc' = "persist"
  /\ UNCHANGED <<host, others, second, policy, detection,
                 alert, held, handle, listing, kids, aim, swapped, killed, victims, seen, files>>

\* Mutant: an artifact that cannot be written ends the response.
PersistOrGiveUp ==
  /\ pc = "persist"
  /\ \/ /\ files' = [files EXCEPT ![<<Target, artifact.at>>] = Worth(artifact)]
        /\ pc' = IF policy.autoKill THEN "open" ELSE "block"
     \/ UNCHANGED files /\ pc' = "block"
  /\ artifact' = Empty(0)
  /\ UNCHANGED <<host, others, second, policy, detection,
                 alert, held, handle, listing, kids, aim, swapped, killed, victims, seen>>

\* persist(): open(..., "w") empties a file of that name.  It may fail
\* before or after that; respond() goes on in any case, and has no more use
\* for the artifact.
Persist ==
  /\ pc = "persist"
  /\ files' \in {files, [files EXCEPT ![<<Target, artifact.at>>] = "torn"],
                 [files EXCEPT ![<<Target, artifact.at>>] = Worth(artifact)]}
  /\ artifact' = Empty(0)
  /\ pc' = IF policy.autoKill THEN "open" ELSE "block"
  /\ UNCHANGED <<host, others, second, policy, detection,
                 alert, held, handle, listing, kids, aim, swapped, killed, victims, seen>>

\* _kill_process_tree(): psutil.Process(pid) ...
OpenProcess ==
  /\ pc = "open"
  /\ handle' = At(Target)
  /\ pc' = IF At(Target) = Nobody THEN "block" ELSE "list"
  /\ UNCHANGED <<host, others, second, policy, detection,
                 alert, held, artifact, listing, kids, aim, swapped, killed, victims, seen, files>>

\* Mutant: the NoSuchProcess of children() leaves respond().
ListChildrenRaises ==
  /\ pc = "list"
  /\ IF At(pid[handle]) = handle
     THEN /\ unread' = {pid[n] : n \in Present} /\ seen' = Alive /\ pc' = "map"
          /\ UNCHANGED <<batch, alert, held, artifact, handle, ppids, kids, aim, killed, victims>>
     ELSE /\ batch' = {} /\ pc' = "idle"
          /\ alert' = NoAlert /\ held' = FALSE /\ artifact' = Empty(0) /\ handle' = Nobody
          /\ kids' = {} /\ killed' = {} /\ victims' = {} /\ seen' = {}
          /\ UNCHANGED <<listing, aim>>
  /\ UNCHANGED <<host, others, second, policy, alerted, answered, swapped, files>>

\* ... children(recursive=True).  It raises NoSuchProcess when the pid is
\* another's by now; when nobody has it some versions of psutil do and some
\* go on.  Then the pids of the host are listed ...
ListChildren ==
  /\ pc = "list"
  /\ \/ /\ At(pid[handle]) \in {handle, Nobody}
        /\ unread' = {pid[n] : n \in Present} /\ seen' = Alive /\ pc' = "map"
     \/ /\ At(pid[handle]) # handle
        /\ pc' = "block" /\ UNCHANGED <<unread, seen>>
  /\ UNCHANGED <<host, others, second, policy, detection,
                 alert, held, artifact, handle, ppids, kids, aim, swapped, killed, victims, files>>

\* ... the parent of each is read, that of whatever process has the pid ...
ReadParent ==
  /\ pc = "map"
  /\ \E p \in unread :
       /\ unread' = unread \ {p}
       /\ ppids' = ppids \cup {<<p, pid[parent[n]]>> : n \in {n \in Present : pid[n] = p /\ parent[n] # Reaper}}
  /\ pc' = IF unread' = {} THEN "walk" ELSE "map"
  /\ UNCHANGED <<host, others, second, policy, detection,
                 alert, held, artifact, handle, kids, aim, swapped, killed, victims, seen, files>>

\* Mutant: children() without recursive=True.
DirectlyReached == {pid[handle]}

\* The pids whose children belong to the list.
Reached == {pid[n] : n \in kids \cup {handle}}

\* ... and a Process is made of each pid below the handle's, that is of the
\* process that has the pid now; it is dropped when it is the elder.
Walk ==
  /\ pc = "walk"
  /\ \E e \in ppids :
       /\ e[2] \in Reached
       /\ kids' = kids \cup {n \in Present : pid[n] = e[1] /\ handle <= n}
       /\ ppids' = ppids \ {e}
  /\ UNCHANGED <<host, others, second, policy, detection, pc,
                 alert, held, artifact, handle, unread, aim, swapped, killed, victims, seen, files>>

Listed ==
  /\ pc = "walk" /\ \A e \in ppids : e[2] \notin Reached
  /\ ppids' = {} /\ seen' = seen \cap Alive /\ pc' = "kill"
  /\ UNCHANGED <<host, others, second, policy, detection,
                 alert, held, artifact, handle, unread, kids, aim, swapped, killed, victims, files>>

\* Mutant: os.kill(child.pid, SIGKILL) in place of child.kill().
TakeUnchecked(n, signal, skip) == aim' = n /\ pc' = signal

\* kill() of process n: it raises NoSuchProcess when the pid is another's,
\* and when nobody has it some versions go on to the signal.
Take(n, signal, skip) ==
  \/ At(pid[n]) \in {n, Nobody} /\ aim' = n /\ pc' = signal
  \/ At(pid[n]) # n /\ aim' = Nobody /\ pc' = skip

TakeChild ==
  /\ pc = "kill"
  /\ \E n \in kids : Take(n, "signal", "kill") /\ kids' = kids \ {n}
  /\ UNCHANGED <<host, others, second, policy, detection,
                 alert, held, artifact, handle, listing, swapped, killed, victims, seen, files>>

TakeParent ==
  /\ pc = "kill" /\ kids = {}
  /\ Take(handle, "last", "block")
  /\ UNCHANGED <<host, others, second, policy, detection,
                 alert, held, artifact, handle, listing, kids, swapped, killed, victims, seen, files>>

\* Mutant: terminate() in place of kill(): a stopped process lives on.
Terminate(n) ==
  IF n \in Present /\ policy.maySignal
  THEN /\ IF st[n] = "run" THEN End(n) ELSE UNCHANGED host
       /\ killed' = killed \cup {pid[n]}
       /\ victims' = victims \cup {n}
  ELSE UNCHANGED <<host, killed, victims>>

\* SIGKILL, or NoSuchProcess or AccessDenied.
Kill(n) ==
  IF n \in Present /\ policy.maySignal
  THEN /\ End(n)
       /\ killed' = killed \cup {pid[n]}
       /\ victims' = victims \cup {n}
  ELSE UNCHANGED <<host, killed, victims>>

\* The signal of kill() goes to whatever process has the pid by now.
Signal ==
  /\ pc \in {"signal", "last"}
  /\ Kill(At(pid[aim]))
  /\ aim' = Nobody
  /\ pc' = IF pc = "signal" THEN "kill" ELSE "block"
  /\ UNCHANGED <<others, second, policy, detection,
                 alert, held, artifact, handle, listing, kids, swapped, seen, files>>

\* respond() is left, and with it its local variables.
Leave ==
  /\ alert' = NoAlert
  /\ held' = FALSE /\ artifact' = Empty(0) /\ handle' = Nobody
  /\ kids' = {} /\ killed' = {} /\ victims' = {} /\ seen' = {}
  /\ swapped' = FALSE /\ UNCHANGED <<listing, aim>>

\* The firewall rule for a remote address (auto_network_isolate is shipped
\* on), whatever comes of it, and the return of the result.
Return ==
  /\ pc = "block"
  /\ answered' = answered \cup ({alert} \ Manual)
  /\ pc' = "next" /\ Leave
  /\ UNCHANGED <<host, others, second, policy, alerted, batch, files>>

\* subprocess.run() raises what _block_ip does not catch, an OSError other
\* than FileNotFoundError: it leaves respond() and the loop over the alerts.
BlockRaises ==
  /\ pc = "block" /\ alert.rule = "R2"
  /\ batch' = {}
  /\ pc' = "idle" /\ Leave
  /\ UNCHANGED <<host, others, second, policy, alerted, answered, files>>

Host ==
  \/ \E a \in Procs \cup {Reaper}, p \in Pids : Fork(a, p)
  \/ \E n \in Procs : Exit(n) \/ KilledByOther(n) \/ Reap(n)

Engine ==
  \/ NextAlert \/ BatchDone
  \/ Freeze \/ ReadProc \/ QueryProcess \/ Persist
  \/ OpenProcess \/ ListChildren \/ ReadParent \/ Walk \/ Listed
  \/ TakeChild \/ TakeParent \/ Signal
  \/ Return \/ BlockRaises

Next == Host \/ Evaluate \/ Quarantine \/ Engine

Spec == Init /\ [][Next]_vars
-----------------------------------------------------------------------------
TypeOK ==
  /\ born \in Procs /\ pid \in [Procs -> Pids]
  /\ st \in [Procs -> {"unborn", "run", "stop", "zombie", "gone"}]
  /\ parent \in [Procs -> Procs \cup {Reaper}] /\ lineage \in [Procs -> SUBSET Procs]
  /\ \A n \in Procs : st[n] = "unborn" <=> n > born
  /\ \A n, m \in Present : pid[n] = pid[m] => n = m
  /\ others \subseteq Dead /\ second \in Seconds
  /\ policy \in [enabled : BOOLEAN, autoKill : BOOLEAN, maySignal : BOOLEAN]
  /\ alerted \subseteq Pids \X Rules /\ batch \subseteq Alerts /\ answered \subseteq Alerts
  /\ pc \in {"idle", "next", "freeze", "read", "query", "persist", "open",
            "list", "map", "walk", "kill", "signal", "last", "block"}
  /\ alert \in Alerts \cup {NoAlert} /\ held \in BOOLEAN /\ artifact \in Artifacts
  /\ handle \in Procs \cup {Nobody} /\ unread \subseteq Pids /\ ppids \subseteq Pids \X Pids
  /\ kids \subseteq Procs /\ aim \in Procs \cup {Nobody} /\ swapped \in BOOLEAN
  /\ killed \subseteq Pids /\ victims \subseteq Procs /\ seen \subseteq Procs
  /\ files \in [Pids \X Seconds -> Contents]

\* The response has stopped the process of the alert and nobody else has
\* killed it since.
InHand == held /\ alert.proc \notin others

(***************************************************************************)
(* Once SIGSTOP has stopped the process of the alert, the response         *)
(* harms nothing but that process and what descends from it, although      *)
(* children come from a list that may be stale and every pid may be used   *)
(* again, before the list is made and between any two kills.  The one      *)
(* exception is a pid that changes hands within children() or kill(),      *)
(* between psutil's look at it and its use.                                *)
(***************************************************************************)
SparesBystanders ==
  InHand /\ ~ swapped =>
    \A n \in victims : n = alert.proc \/ alert.proc \in lineage[n]

(***************************************************************************)
(* Then too the artifact about to be written describes that process in     *)
(* both of its halves, though they are read one after the other and by pid. *)
(***************************************************************************)
EvidenceIsOfTarget ==
  InHand /\ pc = "persist" =>
    artifact.proc = alert.proc /\ artifact.queried = alert.proc

(***************************************************************************)
(* A result that reports SIGKILL for the pid of the alert is true of the   *)
(* process of the alert.                                                   *)
(***************************************************************************)
KillReportIsTrue == InHand /\ Target \in killed => alert.proc \in Dead

(***************************************************************************)
(* A process of the alert's tree that outlives a completed kill was forked *)
(* after children() had begun, or some process between it and the alert's  *)
(* had ended before children() was done.                                   *)
(***************************************************************************)
SurvivorsWereOutOfSight ==
  InHand /\ pc = "block" /\ Target \in killed =>
    \A n \in Alive : alert.proc \in lineage[n] =>
      \/ n \notin seen
      \/ \E m \in lineage[n] : alert.proc \in lineage[m] /\ m \notin seen

(***************************************************************************)
(* With auto_kill and the right to signal no response leaves a process     *)
(* frozen: what it has stopped, be it the process of the alert or one that *)
(* had its pid, it also kills, whatever fails in between.                  *)
(***************************************************************************)
NothingLeftFrozen ==
  pc \in {"idle", "next", "block"} /\ policy.autoKill /\ policy.maySignal =>
    \A n \in Procs : st[n] # "stop"

(***************************************************************************)
(* Where the engine kills, the evidence on a process is not replaced by a  *)
(* record of nothing, the least that README.md promises of the immutable   *)
(* JSON ledger the engine writes before it kills.                          *)
(***************************************************************************)
EvidenceImmutable ==
  [][policy.autoKill /\ policy.maySignal =>
       \A k \in Pids \X Seconds : files[k] = "whole" => files'[k] # "hollow"]_vars

(***************************************************************************)
(* When the kill of the alert's process is reported no child is alive of   *)
(* that process or of those below it that were there for children() to     *)
(* find: the engine is to kill "the PID and any live children", with the   *)
(* whole tree paused before that.                                          *)
(***************************************************************************)
TreeIsDead ==
  InHand /\ pc = "block" /\ Target \in killed =>
    \A n \in Alive : alert.proc \in lineage[n] =>
      \E m \in lineage[n] : alert.proc \in lineage[m] /\ m \notin seen

(***************************************************************************)
(* Back in the loop, each alert that was raised is answered by a           *)
(* ContainmentResult, though the process may be gone, the signals refused  *)
(* and the artifact not written; only the firewall call of an alert with a *)
(* remote address can end the batch before all are.                        *)
(***************************************************************************)
AnsweredDespiteFailures ==
  LET Unanswered == alerted \ {<<pid[a.proc], a.rule>> : a \in answered} IN
  pc = "idle" => Unanswered = {} \/ \E q \in Pids : <<q, "R2">> \in Unanswered
=============================================================================
