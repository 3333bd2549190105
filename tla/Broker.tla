------------------------------- MODULE Broker -------------------------------
(***************************************************************************)
(* app-server-broker.mjs: one process that shares one Codex app server      *)
(* between the companion processes of a workspace.  Each of them is a       *)
(* socket: it sends one request at a time (codex.mjs), and a turn/start or  *)
(* review/start is followed by a stream of notifications up to that turn's  *)
(* turn/completed.  The broker forwards requests, answers the others        *)
(* "Shared Codex broker is busy.", and routes the notifications.            *)
(*                                                                         *)
(* The broker is one event loop.  A step is one callback up to its first    *)
(* await, or one line read from the app server, or the continuation of an   *)
(* await.  The lines of one chunk are handled one after the other before    *)
(* the continuations of the responses among them, and those run before the  *)
(* next callback.                                                           *)
(*                                                                         *)
(* A runner has one turn, known by the runner's name, on a thread it may     *)
(* share: task --resume-last continues an earlier client's thread, whose    *)
(* turn may still run if that client was cancelled or died.                *)
(***************************************************************************)
EXTENDS Naturals, Sequences

CONSTANTS
  Runner,        \* clients that run turns (withAppServer)
  Interrupter,   \* clients that interrupt a turn (interruptAppServerTurn)
  Abrupt         \* those that may die while their turn/start is in flight

Client == Runner \cup Interrupter

CONSTANTS
  Thread,        \* the threads that clients run turns on
  Subagent,      \* one that a turn has spawned
  Nobody         \* no socket

ASSUME BrokerAssumption ==
  /\ Runner \cap Interrupter = {}
  /\ Abrupt \subseteq Client
  /\ Nobody \notin Client
  /\ Subagent \notin Thread

VARIABLES
  thread,       \* the thread each runner runs its turn on
  client,       \* what each client is doing
  conn,         \* its connection: none, open, ended by the client, closed
  inbox,        \* the request it has sent and the broker not read
  requestOf,    \* activeRequestSocket
  streamOf,     \* activeStreamSocket; activeStreamThreadIds is thread[streamOf]
  forwarded,    \* the request of a socket that the app server has not answered
  ready,        \* the answers read from the app server, to be continued with
  live,         \* the clients whose turns run on the app server
  completedSeen,\* the clients that were sent turn/completed before the answer
  doubled       \* history: the clients whose turn began on a thread in a turn

owners == <<requestOf, streamOf>>
server == <<forwarded, live>>
history == <<thread, doubled>>
vars == <<client, conn, inbox, owners, server, ready, completedSeen, history>>

Streaming == "turn/start"      \* and review/start, thread/compact/start
Plain == "thread/start"        \* and thread/resume, thread/name/set, ...
Interrupt == "turn/interrupt"
Method == {Streaming, Plain, Interrupt}
Aside == "aside"               \* an interrupt forwarded during a stream
NoRequest == "none"

Methods(s) == IF s \in Runner THEN {Streaming, Plain} ELSE {Interrupt}

\* A request of s, and a turn of its own, that its client waits for.
Requesting(s) == client[s] \in Method
InTurn(s) == client[s] = "turn"
ToldOff(s) == client[s] \in {"refused", "failed", "finished"}

-----------------------------------------------------------------------------
(* What the broker sends: nothing to a socket that is destroyed            *)

AnswerUntranslated(s, outcome) ==
  client' = IF conn[s] # "open" THEN client ELSE [client EXCEPT ![s] = outcome]
Answer(s, outcome) ==
  client' =
    IF conn[s] # "open" THEN client
    ELSE [client EXCEPT ![s] =
            CASE outcome = "busy"  -> "refused"
              [] outcome = "error" -> "failed"
              [] outcome = "ok" /\ client[s] # Streaming -> "idle"
              [] OTHER -> IF s \in completedSeen THEN "finished" ELSE "turn"]

\* routeNotification of a turn/completed: whose turn it is decides whether its
\* client takes it for its own (belongsToTurn), the thread whether the broker
\* takes it for the end of the stream.
Target == IF requestOf # Nobody THEN requestOf ELSE streamOf

Deliver(s) ==
  /\ client' = [t \in Client |-> IF t = Target /\ t = s /\ conn[t] = "open" /\ InTurn(t)
                                 THEN "finished" ELSE client[t]]
  /\ completedSeen' = completedSeen \cup ({Target} \cap {s} \cap {t \in Client : Requesting(t)})

EndStreamOfAnyThread(th) ==
  IF streamOf # Nobody /\ Target = streamOf
  THEN /\ streamOf' = Nobody
       /\ requestOf' = IF requestOf = Target THEN Nobody ELSE requestOf
  ELSE UNCHANGED owners
EndStream(th) ==
  IF streamOf # Nobody /\ Target = streamOf /\ thread[streamOf] = th
  THEN /\ streamOf' = Nobody
       /\ requestOf' = IF requestOf = Target THEN Nobody ELSE requestOf
  ELSE UNCHANGED owners

-----------------------------------------------------------------------------
(* The clients *)

Connect(s) ==
  /\ conn[s] = "none"
  /\ conn' = [conn EXCEPT ![s] = "open"]
  /\ UNCHANGED <<client, inbox, owners, server, ready, completedSeen, history>>

Send(s) ==
  /\ conn[s] = "open" /\ client[s] = "idle"
  /\ \E method \in Methods(s) :
       /\ client' = [client EXCEPT ![s] = method]
       /\ inbox' = [inbox EXCEPT ![s] = method]
  /\ UNCHANGED <<conn, owners, server, ready, completedSeen, history>>

\* close(), or the death of the process.
End(s) ==
  /\ conn[s] = "open"
  /\ client[s] = Streaming => s \in Abrupt
  /\ conn' = [conn EXCEPT ![s] = "ended"]
  /\ client' = [client EXCEPT ![s] = IF ToldOff(s) THEN @ ELSE "finished"]
  /\ UNCHANGED <<inbox, owners, server, ready, completedSeen, history>>

-----------------------------------------------------------------------------
(* The broker *)

\* allowInterruptDuringActiveStream, and the busy check.
PassesAside(s, method) ==
  method = Interrupt /\ streamOf \notin {Nobody, s} /\ requestOf = Nobody
BusyWithRequests(s, method) == requestOf \notin {Nobody, s}
Busy(s, method) ==
  /\ requestOf \notin {Nobody, s} \/ streamOf \notin {Nobody, s}
  /\ ~PassesAside(s, method)

\* The data handler of a socket, up to appClient.request.
RefuseSilently(s) ==
  /\ ready = << >>
  /\ inbox[s] # NoRequest
  /\ Busy(s, inbox[s])
  /\ inbox' = [inbox EXCEPT ![s] = NoRequest]
  /\ UNCHANGED <<client, conn, owners, server, ready, completedSeen, history>>
Refuse(s) ==
  /\ ready = << >>
  /\ inbox[s] # NoRequest
  /\ Busy(s, inbox[s])
  /\ Answer(s, "busy")
  /\ inbox' = [inbox EXCEPT ![s] = NoRequest]
  /\ UNCHANGED <<conn, owners, server, ready, completedSeen, history>>

ForwardWithoutOwner(s) ==
  /\ ready = << >>
  /\ inbox[s] # NoRequest
  /\ ~Busy(s, inbox[s])
  /\ inbox' = [inbox EXCEPT ![s] = NoRequest]
  /\ IF PassesAside(s, inbox[s])
     THEN forwarded' = [forwarded EXCEPT ![s] = Aside]
     ELSE forwarded' = [forwarded EXCEPT ![s] = inbox[s]]
  /\ UNCHANGED <<client, conn, owners, live, ready, completedSeen, history>>
Forward(s) ==
  /\ ready = << >>
  /\ inbox[s] # NoRequest
  /\ ~Busy(s, inbox[s])
  /\ inbox' = [inbox EXCEPT ![s] = NoRequest]
  /\ IF PassesAside(s, inbox[s])
     THEN forwarded' = [forwarded EXCEPT ![s] = Aside] /\ UNCHANGED requestOf
     ELSE forwarded' = [forwarded EXCEPT ![s] = inbox[s]] /\ requestOf' = s
  /\ UNCHANGED <<client, conn, streamOf, live, ready, completedSeen, history>>

\* The handler goes on after the await, on a socket that may be closed by now.
Continue ==
  /\ ready # << >>
  /\ LET s == Head(ready).socket
         method == Head(ready).method
         ok == Head(ready).ok
     IN  /\ Answer(s, IF ok THEN "ok" ELSE "error")
         /\ IF method = Aside
            THEN UNCHANGED owners
            ELSE /\ requestOf' = IF requestOf = s THEN Nobody ELSE requestOf
                 /\ streamOf' = CASE ok /\ method = Streaming -> s
                                  [] ~ok /\ method # Streaming /\ streamOf = s -> Nobody
                                  [] OTHER -> streamOf
         /\ completedSeen' = completedSeen \ {s}
  /\ ready' = Tail(ready)
  /\ UNCHANGED <<conn, inbox, server, history>>

\* The close event: clearSocketOwnership.
KeepOwnership(s) ==
  /\ ready = << >>
  /\ conn[s] = "ended" /\ inbox[s] = NoRequest
  /\ conn' = [conn EXCEPT ![s] = "closed"]
  /\ UNCHANGED <<client, inbox, owners, server, ready, completedSeen, history>>
CloseEvent(s) ==
  /\ ready = << >>
  /\ conn[s] = "ended" /\ inbox[s] = NoRequest
  /\ conn' = [conn EXCEPT ![s] = "closed"]
  /\ requestOf' = IF requestOf = s THEN Nobody ELSE requestOf
  /\ streamOf' = IF streamOf = s THEN Nobody ELSE streamOf
  /\ UNCHANGED <<client, inbox, server, ready, completedSeen, history>>

-----------------------------------------------------------------------------
(* The app server: it answers every request, in any order, and completes    *)
(* every turn it has started                                               *)

InTurnAlready(s) == \E t \in live \ {s} : thread[t] = thread[s]

Respond(s) ==
  /\ forwarded[s] # NoRequest
  /\ \E ok \in BOOLEAN :
       /\ ready' = Append(ready, [socket |-> s, method |-> forwarded[s], ok |-> ok])
       /\ live' = IF ok /\ forwarded[s] = Streaming THEN live \cup {s} ELSE live
       /\ doubled' = IF ok /\ forwarded[s] = Streaming /\ InTurnAlready(s)
                     THEN doubled \cup {s} ELSE doubled
  /\ forwarded' = [forwarded EXCEPT ![s] = NoRequest]
  /\ UNCHANGED <<thread, client, conn, inbox, owners, completedSeen>>

TurnCompleted(s) ==
  /\ s \in live
  /\ live' = live \ {s}
  /\ Deliver(s)
  /\ EndStream(thread[s])
  /\ UNCHANGED <<conn, inbox, forwarded, ready, history>>

SubagentCompleted ==
  /\ live # {}
  /\ EndStream(Subagent)
  /\ UNCHANGED <<client, conn, inbox, server, ready, completedSeen, history>>

-----------------------------------------------------------------------------
Init ==
  /\ thread \in [Runner -> Thread]
  /\ client = [s \in Client |-> "idle"]
  /\ conn = [s \in Client |-> "none"]
  /\ inbox = [s \in Client |-> NoRequest]
  /\ requestOf = Nobody
  /\ streamOf = Nobody
  /\ forwarded = [s \in Client |-> NoRequest]
  /\ ready = << >>
  /\ live = {}
  /\ completedSeen = {}
  /\ doubled = {}

HandleData(s) == Refuse(s) \/ Forward(s)
Next ==
  \/ Continue \/ SubagentCompleted
  \/ \E s \in Client :
       \/ Connect(s) \/ Send(s) \/ End(s)
       \/ HandleData(s) \/ CloseEvent(s)
       \/ Respond(s) \/ TurnCompleted(s)

Spec == Init /\ [][Next]_vars

\* The event loop polls all the sockets in each round, so none of them waits
\* for ever for the others; the app server answers and ends its turns, and a
\* client that has what it came for closes its connection.
Fairness ==
  /\ WF_vars(Continue)
  /\ \A s \in Client :
       /\ SF_vars(HandleData(s))
       /\ SF_vars(CloseEvent(s))
       /\ WF_vars(Respond(s))
       /\ WF_vars(TurnCompleted(s))
       /\ WF_vars(End(s) /\ ToldOff(s))
FairSpec == Spec /\ Fairness

-----------------------------------------------------------------------------
(* Properties *)

\* The types of the variables.
TypeOK ==
  /\ thread \in [Runner -> Thread]
  /\ client \in [Client -> {"idle", "turn", "refused", "failed", "finished"} \cup Method]
  /\ conn \in [Client -> {"none", "open", "ended", "closed"}]
  /\ inbox \in [Client -> Method \cup {NoRequest}]
  /\ requestOf \in Client \cup {Nobody}
  /\ streamOf \in Client \cup {Nobody}
  /\ forwarded \in [Client -> Method \cup {Aside, NoRequest}]
  /\ \A s \in Interrupter : Streaming \notin {inbox[s], forwarded[s]}
  /\ ready \in Seq([socket : Client, method : Method \cup {Aside}, ok : BOOLEAN])
  /\ live \subseteq Runner
  /\ completedSeen \subseteq Client
  /\ doubled \subseteq Runner

\* The broker shares the app server one turn at a time: no two clients are in
\* a turn that is running, unless one of them began its turn while an earlier
\* client's ran on the same thread: the end of the earlier turn then takes the
\* stream from it, and the broker lets the next client in.
OneTurnAtATime ==
  \A s, t \in Client \ doubled : InTurn(s) /\ s \in live /\ InTurn(t) /\ t \in live => s = t

\* captureTurn has no timeout: a client that waits for its turn to end waits
\* for a turn that runs, its turn/completed was not routed to somebody else or
\* dropped, unless it shares its thread in that way.
NobodyWaitsInVain == \A s \in Client \ doubled : InTurn(s) => s \in live

\* "Shared Codex broker is busy." (line 179) only while somebody uses it: once
\* the clients are gone and the app server has nothing to do it is free.
FreeWhenUnused ==
  (/\ \A s \in Client : conn[s] \in {"none", "closed"}
   /\ \A s \in Client : forwarded[s] = NoRequest
   /\ ready = << >>
   /\ live = {})
  => requestOf = Nobody /\ streamOf = Nobody

\* Every request is answered, and every turn ends for the client that runs it,
\* with the same exception.
RequestsAreAnswered == \A s \in Client : Requesting(s) ~> ~Requesting(s)
TurnsEnd == \A s \in Client : InTurn(s) /\ s \notin doubled ~> ~InTurn(s)
=============================================================================
