-------------------------------- MODULE Hub --------------------------------
(***************************************************************************)
(* The WebSocket gateway of the telemetry server (server/routes/ws.py):    *)
(* the ConnectionManager, a handler per agent connection, a handler per    *)
(* dashboard; and the status of the endpoints, which the handlers and the  *)
(* REST routes (server/routes/endpoints.py) both write.                    *)
(*                                                                         *)
(* The handlers are tasks of one event loop: each step below is the code   *)
(* from one await to the next.  The REST routes run in a thread pool, so   *)
(* list_endpoints is two steps, its query and its commit.  What an alert   *)
(* or a result contains and where it is stored is left out.                *)
(***************************************************************************)
EXTENDS Naturals, Sequences, FiniteSets, SequencesExt

CONSTANTS
  Endpoints,    \* the endpoint ids of the agents
  Dashboards,   \* the WebSockets of dashboards, each connects once
  Kinds,        \* the kinds of messages the agents send
  MaxConns,     \* bound: how many connections agents ever open
  MaxMessages,  \* bound: how many messages they send
  MaxCommands   \* bound: how many commands dashboards send

\* "alert" stands for containment_result too, and "pong" for each event type
\* on which nothing is done.  "bad" is a message the handler raises on: no
\* JSON, a payload that does not validate, an error of the database.
AllKinds == {"enrollment", "heartbeat", "alert", "pong", "bad"}
ASSUME KindsAssumption == Kinds \subseteq AllKinds
ASSUME BoundsAssumption == MaxConns \in Nat /\ MaxMessages \in Nat /\ MaxCommands \in Nat

VARIABLES
  up,          \* the WebSockets whose other end is there
  owner,       \* owner[c]: the endpoint_id of agent connection c
  accepted,    \* agent connections in the order they were accepted
  registry,    \* manager.agent_connections
  pc,          \* pc[c]: where agent_ws is
  cast,        \* cast[c]: the broadcast it is in
  dashboards,  \* manager.dashboard_connections
  dpc,         \* dpc[d]: where dashboard_ws is
  dest,        \* dest[d]: the connection its command is being sent on
  ack,         \* ack[d]: the local variable sent
  status,      \* status[e]: the row of endpoint e
  fresh,       \* fresh[e]: its last_heartbeat_at is at most 45 seconds old
  listing,     \* the endpoints list_endpoints is about to mark offline
  crashed,     \* connections whose handler ended in an exception
  messages,    \* how many messages agents have sent
  commands     \* how many commands dashboards have sent

links == <<up, owner, accepted, registry, crashed>>
agents == <<pc, cast, messages>>
boards == <<dashboards, dpc, dest, ack, commands>>
rows == <<status, fresh, listing>>
vars == <<links, agents, boards, rows>>

Conns == 1..MaxConns
None == 0
NoOne == "no one"

\* A broadcast: the list index it has reached, the dashboard whose send() is
\* awaited, the dashboards that failed, those it was sent to, those that
\* have been in the list from its start until now, those that have left the
\* list meanwhile, and whether it is the last act of the handler.
Idle == [at |-> 0, to |-> NoOne, stale |-> {}, reached |-> {}, due |-> {}, left |-> {}, bye |-> FALSE]

Listed == ToSet(dashboards)
Opened == {c \in Conns : pc[c] # "new"}
Newest(e) == LET last == SelectLastInSeq(accepted, LAMBDA c : owner[c] = e)
             IN IF last = 0 THEN None ELSE accepted[last]

Init ==
  /\ up = {} /\ owner = [c \in Conns |-> NoOne] /\ accepted = <<>>
  /\ registry = [e \in Endpoints |-> None] /\ crashed = {}
  /\ pc = [c \in Conns |-> "new"] /\ cast = [c \in Conns |-> Idle] /\ messages = 0
  /\ dashboards = <<>> /\ dpc = [d \in Dashboards |-> "new"]
  /\ dest = [d \in Dashboards |-> None] /\ ack = [d \in Dashboards |-> FALSE]
  /\ commands = 0
  /\ status = [e \in Endpoints |-> "absent"] /\ fresh = [e \in Endpoints |-> FALSE]
  /\ listing = {}

-----------------------------------------------------------------------------
(***************************************************************************)
(* Agent connections: opened by the agent, accepted by the handler, lost   *)
(* at any time.                                                            *)
(***************************************************************************)
Open(c, e) ==
  /\ c = Cardinality(Opened) + 1
  /\ up' = up \cup {c} /\ owner' = [owner EXCEPT ![c] = e]
  /\ pc' = [pc EXCEPT ![c] = "accepting"]
  /\ UNCHANGED <<accepted, registry, crashed, cast, messages, boards, rows>>

Drop(c) ==
  /\ c \in up
  /\ up' = up \ {c}
  /\ UNCHANGED <<owner, accepted, registry, crashed, agents, boards, rows>>

\* Mutant: setdefault() in place of the assignment.
AcceptKeepsFirst(c) ==
  /\ pc[c] = "accepting"
  /\ accepted' = Append(accepted, c)
  /\ registry' = [registry EXCEPT ![owner[c]] = IF @ = None THEN c ELSE @]
  /\ pc' = [pc EXCEPT ![c] = "receive"]
  /\ UNCHANGED <<up, owner, crashed, cast, messages, boards, rows>>

\* connect_agent(): when accept() has returned the connection takes the
\* place of an earlier one of the same endpoint.
Accept(c) ==
  /\ pc[c] = "accepting"
  /\ accepted' = Append(accepted, c)
  /\ registry' = [registry EXCEPT ![owner[c]] = c]
  /\ pc' = [pc EXCEPT ![c] = "receive"]
  /\ UNCHANGED <<up, owner, crashed, cast, messages, boards, rows>>

AcceptFails(c) ==
  /\ pc[c] = "accepting" /\ c \notin up
  /\ pc' = [pc EXCEPT ![c] = "ended"]
  /\ UNCHANGED <<links, cast, messages, boards, rows>>

-----------------------------------------------------------------------------
(***************************************************************************)
(* broadcast_to_dashboards(): the list is iterated by index while other    *)
(* tasks append to it and remove from it; dashboards whose send() failed   *)
(* are removed at the end.                                                 *)
(***************************************************************************)
\* Mutant: the handler does not go back to receiving.
AfterCastStuck(bye) == IF bye THEN "ended" ELSE "cast"

\* Where a handler goes on when its broadcast is over.
AfterCast(bye) == IF bye THEN "ended" ELSE "receive"

Begin(c, bye) ==
  IF dashboards = <<>>
  THEN pc' = [pc EXCEPT ![c] = AfterCast(bye)] /\ UNCHANGED cast
  ELSE /\ pc' = [pc EXCEPT ![c] = "cast"]
       /\ cast' = [cast EXCEPT ![c] = [Idle EXCEPT !.at = 1, !.to = Head(dashboards),
                                                   !.due = Listed, !.bye = bye]]

\* disconnect_dashboard() for each of S, as the broadcasts under way see it.
Without(k, S) ==
  IF k = Idle THEN k
  ELSE [k EXCEPT !.due = @ \ S, !.left = @ \cup (S \cap Listed)]

\* The k-th of what remains is the entry with k - 1 remaining ones before it.
Removed(S) ==
  LET rest == {i \in DOMAIN dashboards : dashboards[i] \notin S}
  IN [k \in 1..Cardinality(rest) |->
        dashboards[CHOOSE i \in rest : Cardinality({j \in rest : j < i}) = k - 1]]

\* Mutant: a dashboard that fails is removed in the loop.
SentRemovesAtOnce(c) ==
  LET k == cast[c]
      d == k.to
  IN
  /\ pc[c] = "cast"
  /\ \E ok \in BOOLEAN :
       /\ d \in up => ok
       /\ LET now == IF ok THEN dashboards ELSE Removed({d})
              r == IF ok THEN [k EXCEPT !.reached = @ \cup {d}] ELSE [k EXCEPT !.stale = @ \cup {d}]
          IN /\ dashboards' = now
             /\ IF k.at < Len(now)
                THEN /\ cast' = [cast EXCEPT ![c] = [r EXCEPT !.at = @ + 1, !.to = now[k.at + 1]]]
                     /\ UNCHANGED pc
                ELSE cast' = [cast EXCEPT ![c] = Idle] /\ pc' = [pc EXCEPT ![c] = AfterCast(k.bye)]
  /\ UNCHANGED <<links, messages, dpc, dest, ack, commands, rows>>

\* The awaited send() returns or raises; a send() to a dashboard that is
\* gone may do either.
Sent(c) ==
  LET k == cast[c]
      d == k.to
  IN
  /\ pc[c] = "cast"
  /\ \E ok \in BOOLEAN :
       /\ d \in up => ok
       /\ LET r == IF ok THEN [k EXCEPT !.reached = @ \cup {d}]
                         ELSE [k EXCEPT !.stale = @ \cup {d}]
          IN IF k.at < Len(dashboards)
             THEN /\ cast' = [cast EXCEPT ![c] = [r EXCEPT !.at = @ + 1, !.to = dashboards[k.at + 1]]]
                  /\ UNCHANGED <<pc, dashboards>>
             ELSE /\ cast' = [x \in Conns |-> IF x = c THEN Idle ELSE Without(cast[x], r.stale)]
                  /\ dashboards' = Removed(r.stale)
                  /\ pc' = [pc EXCEPT ![c] = AfterCast(k.bye)]
  /\ UNCHANGED <<links, messages, dpc, dest, ack, commands, rows>>

-----------------------------------------------------------------------------
(***************************************************************************)
(* agent_ws(): the loop over receive_text().  Messages already received    *)
(* are handled after the connection was lost too.                          *)
(***************************************************************************)
Message(c, kind) ==
  /\ pc[c] = "receive" /\ kind \in Kinds /\ messages < MaxMessages
  /\ messages' = messages + 1

Online(e) == status' = [status EXCEPT ![e] = "online"] /\ fresh' = [fresh EXCEPT ![e] = TRUE]

Enrollment(c) ==
  /\ Message(c, "enrollment")
  /\ Online(owner[c])
  /\ Begin(c, FALSE)
  /\ UNCHANGED <<links, boards, listing>>

\* Heartbeats need no bound, since all they change is the row.
Heartbeat(c) ==
  /\ pc[c] = "receive" /\ "heartbeat" \in Kinds
  /\ IF status[owner[c]] = "absent" THEN UNCHANGED <<status, fresh>> ELSE Online(owner[c])
  /\ UNCHANGED <<links, agents, boards, listing>>

Alert(c) ==
  /\ Message(c, "alert")
  /\ Begin(c, FALSE)
  /\ UNCHANGED <<links, boards, rows>>

Pong(c) ==
  /\ Message(c, "pong")
  /\ UNCHANGED <<links, pc, cast, boards, rows>>

\* Only WebSocketDisconnect is caught: the handler ends and leaves registry
\* and row as they are; the connection is closed for it.
Bad(c) ==
  /\ Message(c, "bad")
  /\ pc' = [pc EXCEPT ![c] = "ended"]
  /\ up' = up \ {c} /\ crashed' = crashed \cup {c}
  /\ UNCHANGED <<owner, accepted, registry, cast, boards, rows>>

\* Mutant: disconnect_agent() is not called.
DisconnectKeeps(c) ==
  /\ pc[c] = "receive" /\ c \notin up
  /\ status' = [status EXCEPT ![owner[c]] = IF @ = "absent" THEN @ ELSE "offline"]
  /\ Begin(c, TRUE)
  /\ UNCHANGED <<links, messages, boards, fresh, listing>>

\* WebSocketDisconnect: disconnect_agent() pops whatever connection of the
\* endpoint is registered by now.
Disconnect(c) ==
  /\ pc[c] = "receive" /\ c \notin up
  /\ registry' = [registry EXCEPT ![owner[c]] = None]
  /\ status' = [status EXCEPT ![owner[c]] = IF @ = "absent" THEN @ ELSE "offline"]
  /\ Begin(c, TRUE)
  /\ UNCHANGED <<up, owner, accepted, crashed, messages, boards, fresh, listing>>

-----------------------------------------------------------------------------
(***************************************************************************)
(* dashboard_ws() and send_command_to_agent().                             *)
(***************************************************************************)
\* Mutant: insert(0, ws) in place of append(ws).
ConnectDashboardFirst(d) ==
  /\ dpc[d] = "new"
  /\ up' = up \cup {d}
  /\ dashboards' = <<d>> \o dashboards
  /\ dpc' = [dpc EXCEPT ![d] = "receive"]
  /\ UNCHANGED <<owner, accepted, registry, crashed, agents, dest, ack, commands, rows>>

\* connect_dashboard().
ConnectDashboard(d) ==
  /\ dpc[d] = "new"
  /\ up' = up \cup {d}
  /\ dashboards' = Append(dashboards, d)
  /\ dpc' = [dpc EXCEPT ![d] = "receive"]
  /\ UNCHANGED <<owner, accepted, registry, crashed, agents, dest, ack, commands, rows>>

DropDashboard(d) ==
  /\ d \in up
  /\ up' = up \ {d}
  /\ UNCHANGED <<owner, accepted, registry, crashed, agents, boards, rows>>

\* A quarantine command for endpoint e.
Command(d, e) ==
  /\ dpc[d] = "receive" /\ commands < MaxCommands
  /\ commands' = commands + 1
  /\ IF registry[e] = None
     THEN ack' = [ack EXCEPT ![d] = FALSE] /\ dpc' = [dpc EXCEPT ![d] = "ack"] /\ UNCHANGED dest
     ELSE dest' = [dest EXCEPT ![d] = registry[e]] /\ dpc' = [dpc EXCEPT ![d] = "sending"]
          /\ UNCHANGED ack
  /\ UNCHANGED <<links, agents, dashboards, rows>>

CommandSent(d) ==
  /\ dpc[d] = "sending"
  /\ \E ok \in BOOLEAN : (dest[d] \in up => ok) /\ ack' = [ack EXCEPT ![d] = ok]
  /\ dest' = [dest EXCEPT ![d] = None]
  /\ dpc' = [dpc EXCEPT ![d] = "ack"]
  /\ UNCHANGED <<links, agents, dashboards, commands, rows>>

AckSent(d) ==
  /\ dpc[d] = "ack"
  /\ dpc' = [dpc EXCEPT ![d] = "receive"] /\ ack' = [ack EXCEPT ![d] = FALSE]
  /\ UNCHANGED <<links, agents, dashboards, dest, commands, rows>>

\* WebSocketDisconnect from receive_text() or from the send of the ack.
DashboardGone(d) ==
  /\ dpc[d] \in {"receive", "ack"} /\ d \notin up
  /\ dpc' = [dpc EXCEPT ![d] = "ended"] /\ ack' = [ack EXCEPT ![d] = FALSE]
  /\ dashboards' = Removed({d})
  /\ cast' = [c \in Conns |-> Without(cast[c], {d})]
  /\ UNCHANGED <<links, pc, messages, dest, commands, rows>>

\* A command that is no JSON: the handler ends, the list keeps the dashboard.
DashboardBad(d) ==
  /\ dpc[d] = "receive" /\ commands < MaxCommands
  /\ commands' = commands + 1
  /\ dpc' = [dpc EXCEPT ![d] = "ended"] /\ up' = up \ {d}
  /\ UNCHANGED <<owner, accepted, registry, crashed, agents, dashboards, dest, ack, rows>>

-----------------------------------------------------------------------------
(***************************************************************************)
(* The rows of the endpoints and the REST routes that write them.          *)
(***************************************************************************)
\* 45 seconds pass without enrolment or heartbeat.
Age(e) ==
  /\ fresh[e]
  /\ fresh' = [fresh EXCEPT ![e] = FALSE]
  /\ UNCHANGED <<links, agents, boards, status, listing>>

\* enroll_endpoint().
Enroll(e) ==
  /\ messages < MaxMessages /\ messages' = messages + 1
  /\ Online(e)
  /\ UNCHANGED <<links, pc, cast, boards, listing>>

\* list_endpoints(): the ORM writes the rows whose status it has changed,
\* and of these the column status only.
ListQuery ==
  /\ listing = {}
  /\ listing' = {e \in Endpoints : status[e] = "online" /\ ~fresh[e]}
  /\ listing' # {}
  /\ UNCHANGED <<links, agents, boards, status, fresh>>

\* Mutant: the session is closed without a commit.
ListForgets ==
  /\ listing # {}
  /\ listing' = {}
  /\ UNCHANGED <<links, agents, boards, status, fresh>>

ListCommit ==
  /\ listing # {}
  /\ status' = [e \in Endpoints |-> IF e \in listing THEN "offline" ELSE status[e]]
  /\ listing' = {}
  /\ UNCHANGED <<links, agents, boards, fresh>>

AgentSide == \E c \in Conns : Drop(c) \/ \E e \in Endpoints : Open(c, e)

Handler(c) ==
  \/ Accept(c) \/ AcceptFails(c) \/ Sent(c) \/ Disconnect(c)
  \/ Enrollment(c) \/ Heartbeat(c) \/ Alert(c) \/ Pong(c) \/ Bad(c)

Dashboard(d) ==
  \/ ConnectDashboard(d) \/ DropDashboard(d) \/ DashboardGone(d) \/ DashboardBad(d)
  \/ CommandSent(d) \/ AckSent(d)
  \/ \E e \in Endpoints : Command(d, e)

Rest == ListQuery \/ ListCommit \/ \E e \in Endpoints : Age(e) \/ Enroll(e)

Next == AgentSide \/ (\E c \in Conns : Handler(c)) \/ (\E d \in Dashboards : Dashboard(d)) \/ Rest

Spec == Init /\ [][Next]_vars

(***************************************************************************)
(* Fairness.  Time passes, a dashboard that is open asks for the list of   *)
(* endpoints every three seconds (dashboard/js/app.js), the request is     *)
(* answered; a send() returns or raises; a handler learns of a lost        *)
(* connection.  The agent owes nothing: no code of it sends a heartbeat.   *)
(***************************************************************************)
FairSpec ==
  /\ Spec
  /\ WF_vars(ListQuery) /\ WF_vars(ListCommit)
  /\ \A e \in Endpoints : WF_vars(Age(e))
  /\ \A c \in Conns : WF_vars(Sent(c)) /\ WF_vars(Disconnect(c))
-----------------------------------------------------------------------------
Casts == [at : Nat, to : Dashboards \cup {NoOne}, stale : SUBSET Dashboards, reached : SUBSET Dashboards,
          due : SUBSET Dashboards, left : SUBSET Dashboards, bye : BOOLEAN]

TypeOK ==
  /\ up \subseteq Conns \cup Dashboards
  /\ owner \in [Conns -> Endpoints \cup {NoOne}]
  /\ accepted \in Seq(Conns) /\ Cardinality(ToSet(accepted)) = Len(accepted)
  /\ registry \in [Endpoints -> Conns \cup {None}] /\ crashed \subseteq Conns
  /\ pc \in [Conns -> {"new", "accepting", "receive", "cast", "ended"}]
  /\ cast \in [Conns -> Casts] /\ \A c \in Conns : pc[c] = "cast" <=> cast[c] # Idle
  /\ dashboards \in Seq(Dashboards) /\ Cardinality(Listed) = Len(dashboards)
  /\ dpc \in [Dashboards -> {"new", "receive", "sending", "ack", "ended"}]
  /\ dest \in [Dashboards -> Conns \cup {None}] /\ ack \in [Dashboards -> BOOLEAN]
  /\ status \in [Endpoints -> {"absent", "online", "offline"}]
  /\ fresh \in [Endpoints -> BOOLEAN] /\ listing \subseteq Endpoints
  /\ messages \in 0..MaxMessages /\ commands \in 0..MaxCommands

(***************************************************************************)
(* A command never starts on a connection of its endpoint that a later one *)
(* has replaced: what is registered is the newest or nothing, in whatever  *)
(* order connections are accepted and lost.                                *)
(***************************************************************************)
RegistryIsNewest == \A e \in Endpoints : registry[e] \in {None, Newest(e)}

(***************************************************************************)
(* A handler that has ended is not left in the registry, unless it ended   *)
(* in an exception, which skips disconnect_agent().                        *)
(***************************************************************************)
LeftBehindByCrash ==
  \A e \in Endpoints :
    LET c == registry[e] IN
    c # None /\ (pc[c] = "ended" \/ cast[c].bye) => c \in crashed

(***************************************************************************)
(* A broadcast is sent at most once to a dashboard, however the list       *)
(* changes under the iteration.                                            *)
(***************************************************************************)
NoSecondPush ==
  \A c \in Conns : pc[c] = "cast" => cast[c].to \notin cast[c].reached \cup cast[c].stale

\* Dashboards in the list from the start of c's broadcast until now that it
\* has passed over.
Skipped(c) ==
  cast[c].due \ (cast[c].reached \cup cast[c].stale \cup {cast[c].to}
                 \cup {dashboards[i] : i \in (cast[c].at + 1)..Len(dashboards)})

(***************************************************************************)
(* A broadcast passes over at most as many dashboards as have left the     *)
(* list while it was under way; if none has, it reaches them all.          *)
(***************************************************************************)
SkipsAreRemovals ==
  \A c \in Conns : pc[c] = "cast" => Cardinality(Skipped(c)) <= Cardinality(cast[c].left)

(***************************************************************************)
(* The manager tracks live connections: the newest connection of an        *)
(* endpoint, while it is up and its handler runs, is the registered one.   *)
(***************************************************************************)
LiveIsRegistered ==
  \A e \in Endpoints :
    LET c == Newest(e) IN
    c \in up /\ pc[c] \in {"receive", "cast"} => registry[e] = c

Connected(e) == \E c \in up \cap Conns : owner[c] = e

(***************************************************************************)
(* An endpoint without a connection does not stay online in the list, also *)
(* when its handler ended without marking it.                              *)
(***************************************************************************)
GoneGoesOffline ==
  \A e \in Endpoints :
    status[e] = "online" /\ ~Connected(e) ~> status[e] = "offline" \/ Connected(e)

\* The newest connection of an endpoint that has enrolled is up and served.
Served(e) ==
  LET c == Newest(e) IN c \in up /\ pc[c] \in {"receive", "cast"} /\ status[e] # "absent"

(***************************************************************************)
(* An endpoint that is connected does not stay offline in the list: the    *)
(* heartbeats over /ws/agent, of which endpoints.py says that they happen, *)
(* are to undo the offline mark of the 45 seconds.                         *)
(***************************************************************************)
LiveTurnsOnline ==
  \A e \in Endpoints :
    Served(e) /\ status[e] = "offline" ~> status[e] = "online" \/ ~Served(e)
=============================================================================
