# TLA+ models of the micro-EDR agent and server

The repository is an endpoint agent (`agent/`) that detects suspicious
processes, contains them and ships what it found over a WebSocket to a server
(`server/`), which stores it and pushes it to dashboards (`dashboard/`). These
modules model the parts where the order of events decides whether the system
is correct: the shipper, the detector, the containment engine, the WebSocket
gateway, the tables of the server and the page an analyst looks at.

## 1. The system

| Component | State | Operations | Talks to |
|---|---|---|---|
| Telemetry shipper, `agent/shipper.py` | ring buffer `_queue`, `_ws`, `_connected`, `_stop`, the backoff | `enqueue`, `run` (connect, enrol, drain, receive, back off), `stop` | daemon (calls), server (WebSocket) |
| Agent daemon, `agent/agent.py` | `_running`, three tasks in one event loop | detection loop, canary loop, command handler, `stop` | all agent parts (calls) |
| Containment engine, `agent/containment.py` | none of its own; the host's processes and firewall | `respond`, `manual_quarantine` | kernel, forensics |
| Forensics, `agent/forensics.py` | files `forensic_<pid>_<second>.json` | `capture`, `persist` | `/proc`, disk |
| Detector, `agent/detector.py` | pids already alerted, port history, canary hashes and modifications | `evaluate` (R1-R3), `check_canary_integrity` (R4) | daemon |
| Collector, `agent/collector.py` | none | `snapshot` | `/proc` |
| WebSocket gateway, `server/routes/ws.py` | `agent_connections`, `dashboard_connections` | `agent_ws`, `dashboard_ws`, broadcast, command to an agent | agents, dashboards, database |
| Endpoint inventory, `server/routes/endpoints.py` | the endpoint rows: status, last heartbeat | `enroll_endpoint`, `list_endpoints` | database (thread pool) |
| Alert and incident store, `server/routes/alerts.py`, `server/database.py` | alert and incident rows | list, change status, summary, quarantine | database, gateway |
| Dashboard, `dashboard/js/app.js` | cache of alerts, two counters, the WebSocket with its backoff, demonstration timers | pushes, polls, filter, view of an artifact | gateway, REST |

What is hard, and what makes each part correct:

- **Shipper.** `_drain_queue` reads the head of the buffer, awaits `send()` and
  then pops: meanwhile the producers append and may evict. A connection breaks
  at any await and the head is sent again on the next one. Correct: events keep
  their order and appear once per connection, nothing is lost before it was
  sent unless the buffer overflowed, the pop takes the event that was sent,
  buffered events leave, `stop()` ends the loop.
- **Containment.** `respond()` runs alone in the agent, but the host does not
  stop: processes fork, exit, are reaped and their pids used again between any
  two system calls, those inside psutil included. Correct: no bystander is
  harmed (but for the one window named in section 2), the evidence is about the
  process of the alert, the report is true, nothing stays frozen, and every
  alert is answered.
- **Gateway.** Handlers interleave at their awaits: an agent reconnects before
  its old handler noticed, dashboards leave while a list of them is iterated,
  an exception other than `WebSocketDisconnect` skips the clean-up. Correct:
  the registry holds the live connection of an endpoint, a broadcast reaches
  each dashboard once, an endpoint that is gone is shown offline.
- **Detector.** Deduplication by pid in one set with offset keys, sliding
  windows over pruned histories, and a snapshot that is put together while the
  host goes on. Correct: one alert per key and none missed but for a taken key,
  the windows find what the full log holds, a lasting suspect is reported.
- **Store.** Ids made of the second and a counter that starts again with the
  agent, messages that are lost or arrive twice, two handlers of one agent side
  by side after a reconnect, incidents that refer to alerts. Correct: each message is stored as what it is, once, the analyst's
  verdict stands, and every result is kept.
- **Dashboard.** Pushes, repeated pushes and polled lists are merged in any
  order, beside a WebSocket that comes and goes. Correct: what is shown is
  stored, each alert counts once, and what is stored is shown in the end.

`PROJECT.json` lists the hazards at their lines and the properties on them.

## 2. Modules

### Shipper.tla (`agent/shipper.py`, the producers in `agent/agent.py`)

One asyncio loop: `run()` gives it up only at an await, so `pc` is the await it
is suspended at (`connecting`, `enrolling`, `backoff`, `sending`, `recv`,
`sleep`) or a straight-line stretch (`loop`, `drain`), and `Produce`, `Stop` and
`Break` need `Suspended`. An event is its position in the order of `enqueue()`.
`queue`, `ws`, `connected`, `stopping`, `inflight` and `backoff` are the
program's variables; `opened`, `open`, `stream`, `got` are connections as the
network sees them (numbered as opened; still usable; what was handed to each;
how much the server has read); `enqueued`, `evicted`, `commands` and `failed`
count.

| Actions | Code |
|---|---|
| `LoopExit`, `LoopBody` | head of `run()`'s loop |
| `ConnectOk`, `ConnectFail`, `EnrollOk`, `EnrollClosed`, `BackoffWake` | `_connect_and_enroll` and the backoff |
| `DrainEmpty`, `StartSend`, `SendRefused`, `SendDone`, `SendClosed` | `_drain_queue` |
| `RecvTimeout`, `RecvAnswered`, `RecvIgnored`, `RecvFails`, `RecvClosed`, `SleepWake` | `wait_for(recv(), 1.0)`, the command handler and the exception handlers |
| `Produce`, `Stop` | `enqueue` from the other tasks, `stop` |
| `Break`, `Deliver` | the network and the server (external) |

`_heartbeat_loop` and `_receive_loop` are called from nowhere and are left out.

`Feed` is what the shipper promises, with no buffer and no connections to lose:
events are produced, and handed out in order, each from among the youngest
`Capacity`; one is passed over only when a full buffer of younger events
stands behind it (or all but one, when the send of its elder was under way).
The mapping is direct: `produced` is `enqueued`, `out` is `stream`. `StartSend`
is `Emit`, every call of `enqueue()` is `Produce`, all other steps stutter.
`ShipperProofs`, `ShipperRefinement` and `ShipperLosses` hold the proofs
(section 4).

### Containment.tla (`agent/containment.py`, `agent/forensics.py`)

A process is an *incarnation*, numbered in the order of the forks; a pid names
at most one that is not yet reaped. `os.kill(pid, SIGSTOP)` and the reads below
`/proc/<pid>` go to whatever has the pid by then (`At`). Host actions:
`Fork`, `Exit`, `KilledByOther` (of a stopped process; a running one that is
killed is an `Exit`), `Reap`. `respond()` is one action per system
call or group of reads: `Freeze`, `ReadProc`, `QueryProcess`, `Persist`,
`OpenProcess`, then psutil's steps, `Return`, `BlockRaises`. `Evaluate`,
`NextAlert` and `BatchDone` are the daemon's loop; `Quarantine` is the analyst's
command. `policy` is any shipped or configured choice of `enabled` and
`auto_kill`, and whether the agent may signal. `victims`, `seen`, `swapped`,
`lineage`, `held` and `others` record history for the properties. The clock is
read in `ReadProc` only, so it moves there.

A `psutil.Process` stands for one incarnation, since psutil compares start
times, but it reads a pid in one system call and uses it in another. psutil is
not in the repository; its calls are modelled from what they are known to do in
the versions `requirements.txt` admits, with a choice where these differ:

| Actions | Step of psutil |
|---|---|
| `ListChildren` | `children()` checks that the process is still the one, and lists the pids of `/proc`; or it raises `NoSuchProcess` |
| `ReadParent` | the parent of one listed pid is read, that of whatever process has the pid by then |
| `Walk`, `Listed` | a `Process` is made of each pid found below the first, again of whatever has the pid by then, and dropped if it is older; no such pid is left |
| `TakeChild`, `TakeParent` | `kill()` compares the start time, or raises `NoSuchProcess` |
| `Signal` | `kill()` sends SIGKILL to whatever has the pid by then |

Three windows in these steps let a pid change hands after psutil has looked at
it and before it uses it: between the parent map and the `Process` made of a
pid, between two reads of the map, and between the check and the signal of
`kill()`. The children are not stopped, so one of them can exit, be reaped by
its parent and have its pid given to a bystander, which is then killed. The
variable `swapped` records that a pid was given to a new process in such a
window, and `SparesBystanders` claims nothing from then on: without
`~ swapped` TLC finds the bystander killed. Pids are used again everywhere
else: before the list is made, between `children()` and `kill()`, and between
two kills.

### Detector.tla (`agent/detector.py`, `agent/collector.py`)

`StartSnapshot` takes the time and the list of pids, `CollectProcess` reads one
process, and `Evaluate` is the reading of the connections and `evaluate()`,
which follow each other without an await. `Start`, `Exit`, `Connect`, `Write`,
`Delete` are the host; `Check` is `check_canary_integrity()`, which the canary
task calls between two evaluations. `marked` is `_already_alerted_pids`: pids
are numbers and `Key` adds the offsets of R2 and R3, since that is how two rules
come to share an entry. `history`, `hashes` and `modEvents` are the fields of
the class; `matched`, `touched`, `raised`, `everRead`, `dirty` and `noticed`
record what happened, and the properties compare the two. Of a connection the
rules look at nothing but pid and remote port, of a process at its kind and its
parent.

### Hub.tla (`server/routes/ws.py`, `server/routes/endpoints.py`)

Each step is the code from one await of a handler to the next. `Accept`,
`AcceptFails`, `Enrollment`, `Heartbeat`, `Alert`, `Pong`, `Bad`, `Disconnect`
are `agent_ws`; `Sent` is a step of a broadcast, which holds an index into a
list that others change; `ConnectDashboard`, `Command`, `CommandSent`,
`AckSent`, `DashboardGone`, `DashboardBad` are `dashboard_ws` and
`send_command_to_agent` (which `POST /quarantine` calls too). REST routes run in
a thread pool: `ListQuery` and `ListCommit` are the two halves of
`list_endpoints`. `Bad` is a message the handler raises on. The server
handles heartbeats, so the model has them, but the repository's agent sends none
(`_heartbeat_loop` is started nowhere): no run relies on one, and those that
show a violation leave that kind out.

### Store.tla, Dashboard.tla and their composition Pipeline.tla

`Store` follows an alert and its result from the agent that names them
(`_next_alert_id`, `manual_quarantine`) over a wire to the tables
(`_store_alert`, `_store_incident`, `triage_alert`, `list_alerts`). Of the
shipper it takes over what `Feed` promises: messages are handed over in order,
to the connection of the moment and never to an older one again; one whose send
was interrupted is handed to a later one too (`Routes`); any may be lost
(`Lose`). The server has a handler for each connection, and one that waits in a
broadcast (`ws.py:188`, `:195`) keeps the messages behind it waiting while the
handler of the next connection goes on. So `Receive` takes the messages of one
connection in order, and those of two connections in any order; only a
connection on which the database has raised is not read any more. `Restart` is
the agent's service, which comes back at least three seconds later with its
counter at 0 and a connection of its own. `enforced` is the kind of database: SQLite does not check foreign
keys by default; PostgreSQL does, and then `commit()` raises and the handler
ends.

`Dashboard` is `app.js`: the WebSocket with its reconnect and its fallback to
demonstration data, the poll of `syncEndpointStatus` with answers under way, and
`handleIncomingAlert`, through which pushes and lists go. `Pipeline` composes
the two: `AlertArrives` stores and broadcasts, `AnswerAlerts` answers a poll
from the tables, every other step is a step of one side.

`Ledger` is what the tables promise, with no messages and no wires: rows are
only added, one for each name, those that came over one connection in the order
in which the agent raised them, an alert before its own incident; a row that
comes late came over an older connection; where foreign keys are enforced there
is no incident without an alert of its name; only the status of a row changes. `Pipeline` implements it with the tables themselves
(`ImplementsLedger`); what is given up is that everything raised is recorded.

The modules `MC*` instantiate these for TLC. A definition commented "Mutant" is
a faulty variant of the one after it and is used nowhere: put in its place it
shows that the property it is meant for can fail.

## 3. Runs

| Run | Question | Bounds | Result |
|---|---|---|---|
| `Shipper` | order, loss, pop, forgotten connections, `Feed`, progress, stop | buffer 2, events 3, connections 3, commands 1 | holds, 103,486 states |
| `Shipper_dies` | does `run()` end only when stopped? | 2 connections | violated |
| `Containment` | bystanders, evidence, report, survivors, frozen processes, answers | 3 processes, 3 pids, 1 alert, 1 foreign kill | holds, 1,963,707 states |
| `Containment_tree` | is the whole tree dead? | as above, no foreign kill | violated |
| `Containment_ledger` | is evidence kept where the engine kills? | 1 process, 2 alerts, 2 seconds | violated |
| `Hub` | registry and broadcasts | 1 endpoint, 2 connections, 2 dashboards, 2 messages, 1 command | holds, 1,147,271 states |
| `Hub_live` | does an endpoint that is gone go offline? | 2 connections, 1 dashboard, 3 messages | holds, 15,724 states |
| `Hub_registry` | is the live connection registered? | 2 connections | violated |
| `Hub_presence` | does an endpoint that is connected go online again? | 1 connection | violated |
| `Detector` | missed and repeated alerts, both windows, progress | 2 pids, 2 ports, 2 files, 4 changes, 3 moments | holds, 661,829 states |
| `Pipeline` | what is stored, `Ledger`, what is shown, progress | 2 endpoints, one with 2 connections, 2 alerts or manual results, 2 messages on their way, 2 seconds, a list of 1 | holds, 474,708 states |
| `Pipeline_manual` | is every result stored? | 1 endpoint | violated |

Why the bounds are enough. *Shipper*: an eviction during a send needs one more
event than the buffer holds; an order fault needs two events and a second
connection; the third connection lets both earlier ones fail differently, one by
the network and one by a failed command handler. *Containment*: a tree with a
grandchild, a child that loses its parent, and a pid that is freed and used
again, in and outside psutil's windows, all occur with three processes; a
quarantine repeats the response any number of times. One alert puts no two in a
batch: that a response does not cost the others of its batch their turn is what
`AlertsAreAnswered` proves for any number (section 4). The time of the capture is in the file name only; the run
about it has two seconds. *Hub*: faults are between an old and a new connection of
one endpoint (different endpoints share only the list of dashboards), and
between a dashboard that leaves and one that stays. *Detector*: the offsets are
scaled down with the pids, to 1 and 2, so that R3 of one
pid meets R1 or R2 of the other in one key, as happens with pids above 800000. Four changes start a
service, a shell below it, connect it and end it or start it anew; windows of
one second in three moments let an entry be inside, at the edge and outside.
*Pipeline*: names collide between two endpoints in one second and between two
manual results; a restart needs the second second; a list of one is overtaken
by two alerts. The order of rows is one of pairs, so two messages on their way
show it: an alert on the older connection and its result, or its repeat, on
the newer. The second endpoint is there for the names, and keeps one connection. Pids (in `Containment`) and dashboards are interchangeable, hence
the symmetry; runs with liveness use none. Deadlock is not checked where the
system stops (agent stopped, bounds used up).

### What the violations show

- `RunEndsOnlyWhenStopped`: a connection that closes between `connect()` and the
  enrolment message raises `ConnectionClosed`, which neither
  `_connect_and_enroll` nor `run()` catches there. The shipper's task is gone,
  the agent goes on detecting, nothing is shipped.
- `TreeIsDead`: only the alert's pid is stopped and the host's processes are
  listed once; a child that forks after that leaves a survivor. What does hold
  is `SurvivorsWereOutOfSight`.
- `EvidenceImmutable`: R1 and R2 fire for one pid in one snapshot; the first
  response captures and kills, the second finds a dead process and writes its
  empty record over the first.
- `LiveIsRegistered`: a reconnect before the old handler's disconnect leaves a
  live agent unregistered; commands to it fail until it reconnects.
- `LiveTurnsOnline`: 45 seconds after its enrolment a connected agent is listed
  offline, and stays so: the heartbeats that were to undo that are never sent.
- `ResultsAreStored`: the result of a manual quarantine is named after no alert.
  Where the database enforces foreign keys it is not stored, and the handler of
  the agent ends.

Weaker than one might wish, and stated as what the code does: a broadcast
passes over a dashboard when another leaves during it (`SkipsAreRemovals`), an
exception out of the firewall command ends the batch of alerts
(`AnsweredDespiteFailures` excepts it), a process that has the pid of one
reported before is silent to the same rule (`OneAlertPerKey`), two manual
quarantines of one second leave one incident (`OnlyCollisionsAreDropped`), an
incident can be stored before its alert, or break the foreign key, when the two
went over different connections (`CrashHasCause`, `Ledger`), and a bystander
can be killed in psutil's windows (`SparesBystanders`).

Two differences between text and code need no run, since no state is involved:
`README.md:50` names "canary file deletion" among what R4 detects, but
`detector.py:249` skips a file that is gone; `detector.py:9-10` and
`config.py:49-51` name unusual high ports beside the listed ones, but
`_check_shell_c2_connection` looks at the list only.

### Fairness

*Shipper*: the event loop resumes `run()` when its await completes, and every
await does: sleeps and the receive timeout by the clock, `connect()` and
`send()` by the library's timeouts (`WF(Run)`). A server that can be reached
again and again is reached in the end (`SF(ConnectOk)`); the last connection the
bound allows stays up, which is how a bounded number of failures is said. With a
server that fails for ever events stay in the buffer, by design.
*Hub*: time passes, a dashboard that is open polls `list_endpoints` every three
seconds (`setInterval` in `app.js`), a send returns or raises, and a handler
learns of a lost connection. Agents owe nothing: no code sends a heartbeat.
Without any open dashboard no row turns offline when its handler crashed:
`GoneGoesOffline` assumes the poll.
*Detector*: the detection loop sleeps a second and goes on, whatever an
iteration raises (`WF(Agent)`); the host owes nothing. *Pipeline*: the page polls
and the answer arrives (`WF(AnswerAlerts)`, `WF(AnswerArrives)`); pushes, the
WebSocket and the agents owe nothing.

## 4. Proofs

They hold for every value of the constants, from the named assumptions of the
modules: natural bounds, positive capacities, thresholds and limits, ordered
backoffs, finite sets of pids, ports and files. The bounds on the model's inputs
(`MaxEvents`, `MaxConns`, `MaxProcs`, `MaxSent` and so on) are arbitrary numbers in
the theorems, so they bound nothing there.

| Theorem | Module | States |
|---|---|---|
| `TypeCorrect` | `ShipperProofs` | `Spec => []TypeOK`: also the size of the buffer and the range of the backoff |
| `PopCorrect` | `ShipperProofs` | `Spec => []PopsTheSentEvent` |
| `WritesInOrder` | `ShipperProofs` | `Spec => []WriteOrder` |
| `BufferIsYounger` | `ShipperProofs` | `Spec => []NoOvertaking` |
| `ShipperImplementsFeed` | `ShipperRefinement` | `Spec => ImplementsFeed` |
| `EveryLossIsWarned` | `ShipperLosses` | `Spec => []LossIsWarned` |
| `LeaksAreCounted` | `ShipperLosses` | `Spec => []LeaksAreFailures` |
| `TypeCorrect` | `ContainmentProofs` | `Spec => []TypeOK`: also that a pid names at most one process |
| `BystandersAreSpared` | `ContainmentProofs` | `Spec => []SparesBystanders` |
| `EvidenceIsTrue` | `ContainmentProofs` | `Spec => []EvidenceIsOfTarget` |
| `ReportIsTrue` | `ContainmentProofs` | `Spec => []KillReportIsTrue` |
| `SurvivorsWereUnseen` | `ContainmentProofs` | `Spec => []SurvivorsWereOutOfSight` |
| `NothingStaysFrozen` | `ContainmentProofs` | `Spec => []NothingLeftFrozen` |
| `AlertsAreAnswered` | `ContainmentProofs` | `Spec => []AnsweredDespiteFailures` |
| `TypeCorrect` | `HubProofs` | `Spec => []TypeOK`: also that nothing is accepted or listed twice |
| `RegistryHoldsNewest` | `HubProofs` | `Spec => []RegistryIsNewest` |
| `OnlyCrashesLeaveBehind` | `HubProofs` | `Spec => []LeftBehindByCrash` |
| `NoneIsSentTwice` | `HubProofs` | `Spec => []NoSecondPush` |
| `SkipsAreCounted` | `HubProofs` | `Spec => []SkipsAreRemovals` |
| `UndisturbedCastsComplete` | `HubProofs` | `Spec => [][UndisturbedReachesAll]_vars`: a broadcast during which no dashboard left ends only when all have been sent to |
| `TypeCorrect` | `DetectorProofs` | `Spec => []TypeOK` |
| `KeysAlertOnce` | `DetectorProofs` | `Spec => []OneAlertPerKey` |
| `ScansAreFound` | `DetectorProofs` | `Spec => []ScanIsFound` |
| `BurstsAreReported` | `DetectorProofs` | `Spec => []BurstIsReported` |
| `RulesStandApart` | `DetectorProofs` | with offsets that keep the keys apart, `Spec => []EachIsReported` |
| `TypeCorrect` | `PipelineProofs` | `Spec => []TypeOK`, tables and page |
| `DropsAreCollisions` | `PipelineProofs` | `Spec => []OnlyCollisionsAreDropped` |
| `CrashesHaveCauses` | `PipelineProofs` | `Spec => []CrashHasCause` |
| `VerdictsStand` | `PipelineProofs` | `Spec => []VerdictStands` |
| `FallbacksAreOffline` | `PipelineProofs` | `Spec => []FallbackIsOffline` |
| `AlertsCountOnce` | `PipelineProofs` | `Spec => []EachCountsOnce` |
| `PageShowsStored` | `PipelineProofs` | `Spec => []ShownIsStored` |
| `PipelineImplementsLedger` | `StoreRefinement` | `Spec => ImplementsLedger` |

So every invariant of a passing run is proved, and of its temporal properties the
refinements `ImplementsFeed` and `ImplementsLedger`. The invariants called `Inv`
below were checked by TLC on the instances of the runs before they were proved.

### Shipper

*Types and the pop.* `BufferInv` is `TypeOK /\ PopsTheSentEvent`. Neither is
inductive alone: `SendDone` takes the `Tail` of the buffer, which is typed only
because a send keeps the buffer non-empty. `EnqueueEffect` says what appending to
a full or not full deque does; `EnqueueKeepsHead` is the heart of it: the head
changes only by an eviction, which is recorded.

*Order.* `WriteOrder` is not inductive, since nothing in it says that the next
event sent is new. `OrderInv` adds `Order`: the buffer is strictly increasing and
bounded by `enqueued` (`QueueSorted`, `QueueBounded`), so is what was written
(`WrittenBounded`); connections not yet opened are empty (`UnopenedEmpty`) and
the one held is the newest (`HoldsNewest`); while draining, the head is fresh on
the connection held (`Fresh`), and everything written is at most the head
(`Behind`). Steps that touch neither buffer nor streams preserve it by one lemma
(`QuietKeepsOrder`); `Enqueue`, `ConnectOk`, `StartSend` and `SendDone` have a
lemma each. `NoOvertaking` follows from `QueueSorted` and `Behind`.

*Refinement.* `LossInv` adds to `OrderInv` why an event is gone: the buffer
holds the youngest events without a gap (`Contiguous`), an event that left it was
handed over or had a full buffer behind it (`LeftForCause`), and when the event
under way is no longer the head then the buffer overflowed and stays full
(`SendUnderWay`), which is what makes the pop of another event harmless to
`LeftForCause`. `SendEmits` derives each conjunct of `Feed!Emit` from it.

*Losses.* `LossIsWarned` compares two counts and is not inductive: an eviction
that hits the event under way warns of no loss, and the pop that follows loses
an event without a warning. `Owed` is that one event whose warning is still
to be used, and `ChargesAreWarned` counts it in; the evicted events are older
than all that is buffered (`EvictedIsOlder`), so each eviction is a new one.
`LeaksAreFailures` needs that `connect()` is called with no connection in hand
(`ConnectsWithNone`). `LossInv`, `EvictedIsOlder` and `ChargesAreWarned` were
checked by TLC on the instance of run `Shipper` before they were proved.

### Containment

The argument of the engine is that a stopped process can neither exit nor give
up its pid, so what is read by pid after SIGSTOP is about it. `Grip` says this
step by step: while the process of the alert is in hand it is stopped until its
own kill, and the psutil handle and both halves of the artifact are of it. It
needs that a pid names one process (`TypeOK`), that descent is fixed at the fork
while `parent` is not (`Forks`), and what each step's local variables are
(`Locals`). `Frozen` is the same for a process the engine stopped by mistake: it
too is the one with the pid, hence the one it kills.

For what psutil lists and kills, pids must be followed through its windows. A
process that is present is the last that got its pid (`Holders`), so a pid
whose last holder is `n` names `n` or nobody until it is given away. `Mapped` says
that, unless a pid was (`swapped`), each entry of the parent map still stands
for a process and one it descends from, and `Aimed` the same of the process
`kill()` is about to signal; a fork that breaks one of them is a swap
(`SwapIsRemembered`). With both, all that is listed, aimed at or killed is
in the tree (`Spared`).

`Found` says of each descendant that has been alive since `children()` began,
with all between it and the target, that its pid is still to be read, stands in
the map beside its parent's, or is listed, which takes no condition on swaps: a
process that stays alive keeps its pid and its parent. When no entry of the map
hangs below the list any more, all of them are listed; the proof chooses the
first on the line that is not (`ListIsComplete`, by `LeastNumber`). `Sight`
carries this through the kills.

`Batches`, `Once` and `Raised` give each marked alert its place: answered, still
in the batch, or in hand, and an alert is raised once for its pid and rule.

### Hub

*Registry.* Connections are accepted once and in an order, and what is
registered for an endpoint was accepted for it (`LinksOK`). `Accept` appends
the connection that becomes the newest of its endpoint and of no other
(`NewestIsLast`, `GreatestIndex`); every other step takes endpoints off the
registry at most (`HandlersMove`). `LeftBehindByCrash` then needs that a handler
that begins its last broadcast, or ends, has just unregistered its endpoint, or
crashed, or was never accepted (`HandlerKeeps`).

*Broadcasts.* `CastOK` relates an index to a list that others change: what is
ahead of the index was not sent to, and what of `due` is neither sent to nor
ahead is no more than what has left. A removal moves entries towards the front
and so past the index. `RemovedEffect` says that none moves back and that order
is kept; `MovedUp` counts: the entries that cross an index are at most as many as
the removed ones at or before it, since those behind the index and those
that stay before it fit together into its places. `ShorterOK` puts
both together; beginning (`BeginsOK`), going on (`GoesOnOK`) and appending
(`AppendStep`) are the other ways a broadcast changes.

### Detector

`KeysAreTaken` is the link between what is remembered and what happened: `marked`
holds exactly the keys of the alerts raised, no two alerts share one, and all
that ever matched has its key there. With keys that do not meet this gives
`RulesStandApart`; the hypothesis holds for 900000 and 800000 and pids below
100000, the run has the other case. `HistoryIsLog` says what pruning may drop: an
entry of the full log is in the history, or a later snapshot showed the pid
with a connection more than a window after it; with time that only grows
(`LogIsPast`) such an entry counts in no window still to come.
`DirtyIsOutdated` and `NoticesCount` do the same for the canary files: a file is
dirty when the stored hash is of an older version, and a recent notice is an
event still counted.

### Store, Dashboard and Pipeline

What is on its way counts: `Naming` says which names messages have, on their way
or handled, `Routed` that an agent goes on to later connections only, so that an
alert went to no later connection than its result, and `Rows` that what is in
the tables has been handled and the reverse. A result that breaks the foreign
key finds no alert of its name handled, and none before it on its own connection;
by `Routed` an alert that is still to come is on an older one, and none that is
raised later has its name, which is `CrashHasCause`. On the page's
side `PageIsSound` says of the pushes, the answers under way and the list shown
alike that they are stored and that no list has two alerts of one id, so that
merging one into another keeps both.

*Refinement.* `HandledFirst` says that nothing on its way comes before what was
handled of its connection: a handler takes what comes first, and new messages
have the number `sent + 1`, above all others. With `Routed`, a row whose message
the agent sent after the one now stored came over a later connection
(`LaterCameOverLater`), and one of the same number is its alert, or has its
name and keeps it from being stored twice. It was checked by TLC on the
instance of run `Pipeline` first.

### Only model-checked

`EventuallyLeaves`, `StopEnds`, `GoneGoesOffline`,
`SuspectIsReported` and `StoredIsShown` are liveness under fairness, which the
prover does not reach. The properties the code violates are for TLC alone.

## 5. Not modelled

The policy loader (`agent/config.py`: constants, read once), pydantic schemas,
page layout, the simulator and the build files keep no state worth a model, or
are no part of the program. In the modelled parts: the text of messages,
logging, the state of the firewall (whether a rule was added, only success,
failure or an exception), a SIGCONT sent by someone else (it would undo the freeze
on which the evidence and the tree rest), permissions that differ between
processes of one tree, a clock that goes backwards, start times too coarse to
tell two processes of one pid apart (the kernel counts in hundredths of a
second, and psutil goes by them), more than one server worker
(the manager is in memory, so workers share nothing but the database), several
REST requests for the endpoint list at once, the page's counter of contained
threats (it counts the alerts of the server), its filter, sounds and matrix.
Promised by nobody and therefore without a property: that the buffer is
drained at shutdown, that a slow dashboard does not hold up an agent's handler,
and that the pid of a manual quarantine still names the process the analyst saw.

## 6. Plan

Built in this order, the most important behaviour first: `Shipper` (order and
loss of telemetry), `Containment` (the only part that harms processes), `Hub`
(the way back to the agent, pushes), `ShipperProofs`; then `Feed` with its
refinement, `Detector`, `Store`, `Dashboard`, `Pipeline`, `ShipperRefinement` and
`ShipperLosses`; then `ContainmentProofs`, `DetectorProofs`, `PipelineProofs` and
`HubProofs`; then `Ledger` with `StoreRefinement`. To come:

1. Action properties: of `Containment`, that no step of the engine ends a process
   other than the stopped one and its descendants; of `Hub`, that only
   its own handlers take an endpoint off the registry.
2. `Detector`: that an alarm of R4 is never raised twice for one write.
