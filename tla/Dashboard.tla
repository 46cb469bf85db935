----------------------------- MODULE Dashboard -----------------------------
(***************************************************************************)
(* The dashboard page (dashboard/js/app.js): one WebSocket that is opened  *)
(* again when it closes, a request for the list of alerts every three      *)
(* seconds, and the one function all alerts go through.  Of the            *)
(* demonstration only when its timers run is modelled: its alerts have     *)
(* names of their own and add to the counters.                             *)
(***************************************************************************)
EXTENDS Naturals, Sequences, FiniteSets

CONSTANTS
  Limit,       \* how many alerts the page asks for: 50
  MaxAnswers   \* bound: how many answers are on their way at a time

ASSUME DashboardAssumption == Limit \in Nat \ {0} /\ MaxAnswers \in Nat

VARIABLES
  socket,         \* the WebSocket: "connecting", "open" or "closed"
  usingFallback,  \* the demonstration timers run
  pushes,         \* alerts pushed to the page and still on their way
  answers,        \* lists of alerts the server has answered, still on their way
  alertCache,     \* what is shown: for each alert id the first alert seen
  threatCounter

dashboardVars == <<socket, usingFallback, pushes, answers, alertCache, threatCounter>>

DashboardInit ==
  /\ socket = "connecting" /\ usingFallback = FALSE /\ pushes = {}
  /\ answers = <<>> /\ alertCache = {} /\ threatCounter = 0

-----------------------------------------------------------------------------
\* Mutant: onopen does not stop the demonstration.
OpenedQuietly ==
  /\ socket = "connecting" /\ socket' = "open"
  /\ UNCHANGED <<usingFallback, pushes, answers, alertCache, threatCounter>>

Opened ==
  /\ socket = "connecting" /\ socket' = "open"
  /\ usingFallback' = FALSE
  /\ UNCHANGED <<pushes, answers, alertCache, threatCounter>>

\* onclose, also by the timeout of three seconds or after onerror.
Closed ==
  /\ socket # "closed" /\ socket' = "closed"
  /\ usingFallback' = TRUE /\ pushes' = {}
  /\ UNCHANGED <<answers, alertCache, threatCounter>>

\* The timer of onclose calls initializeWebSocket().
Reconnect ==
  /\ socket = "closed" /\ socket' = "connecting"
  /\ UNCHANGED <<usingFallback, pushes, answers, alertCache, threatCounter>>

\* The server sends an alert to the page, if it is connected.
Push(a) ==
  /\ pushes' = IF socket = "open" THEN pushes \cup {a} ELSE pushes
  /\ UNCHANGED <<socket, usingFallback, answers, alertCache, threatCounter>>

New(A) == {a \in A : a.id \notin {c.id : c \in alertCache}}

\* Mutant: the counter is raised before the cache is asked.
CountThenShow(A) == alertCache' = alertCache \cup New(A) /\ threatCounter' = threatCounter + Cardinality(A)

\* handleIncomingAlert() for each of A, whose ids differ.
Show(A) == alertCache' = alertCache \cup New(A) /\ threatCounter' = threatCounter + Cardinality(New(A))

PushArrives(a) ==
  /\ a \in pushes /\ pushes' = pushes \ {a}
  /\ Show({a})
  /\ UNCHANGED <<socket, usingFallback, answers>>

\* syncEndpointStatus(): the server reads its rows, and later the page
\* shows what it has read.
Answer(A) ==
  /\ Len(answers) < MaxAnswers /\ answers' = Append(answers, A)
  /\ UNCHANGED <<socket, usingFallback, pushes, alertCache, threatCounter>>

AnswerArrives ==
  /\ answers # <<>> /\ answers' = Tail(answers)
  /\ Show(Head(answers))
  /\ UNCHANGED <<socket, usingFallback, pushes>>

-----------------------------------------------------------------------------
DashboardTypeOK ==
  /\ socket \in {"connecting", "open", "closed"} /\ usingFallback \in BOOLEAN
  /\ socket # "open" => pushes = {}
  /\ Len(answers) <= MaxAnswers

(***************************************************************************)
(* Demonstration data runs only beside a WebSocket that is not open, and   *)
(* always when it has closed.                                              *)
(***************************************************************************)
FallbackIsOffline == (socket = "open" => ~usingFallback) /\ (socket = "closed" => usingFallback)

(***************************************************************************)
(* The counter of threats counts each alert once, though it may come by    *)
(* push, again by a repeated push, and in every answer.                    *)
(***************************************************************************)
EachCountsOnce ==
  /\ threatCounter = Cardinality(alertCache)
  /\ \A a, b \in alertCache : a.id = b.id => a = b
=============================================================================
