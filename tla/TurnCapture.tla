---------------------------- MODULE TurnCapture ----------------------------
(***************************************************************************)
(* codex.mjs: a command connects to the app server (withAppServer), starts  *)
(* a thread and a turn on it, and follows the turn's notifications until it *)
(* is over (captureTurn).  The turn may call subagents, which run turns of  *)
(* their own on other threads, and the main turn's turn/completed may be    *)
(* missing; the end is then inferred 250 ms after the final answer, once    *)
(* the subagents are done.                                                 *)
(*                                                                         *)
(* A step is one line read from the connection, one callback, or the        *)
(* continuation of an await.  The loop that replays the buffer is           *)
(* synchronous: nothing else happens while it runs (Replaying).             *)
(*                                                                         *)
(* The app server is external.  Its threads and turns are what it has told, *)
(* in the order it told them: a turn starts and ends when the line that     *)
(* says so is read.                                                        *)
(***************************************************************************)
EXTENDS Naturals, Sequences

CONSTANTS
  Root,        \* the thread of the command
  Subagent,    \* the threads its turn may spawn
  Foreign,     \* threads of turns an earlier client has left behind
  MaxTurns,    \* bound: turns of a subagent or a foreign thread
  MaxBuffer    \* bound: notifications before the turn's id is known

ASSUME CaptureAssumption ==
  /\ Root \notin Subagent \cup Foreign
  /\ Subagent \cap Foreign = {}
  /\ MaxTurns \in Nat
  /\ MaxBuffer \in Nat

Other == Subagent \cup Foreign
Thread == {Root} \cup Other

\* Turns of the root thread; those of the others are numbered from 1.
NoTurn == 0
Earlier == 1     \* a turn that was interrupted before the thread was resumed
Own == 2         \* the turn of this command
Turn == 0 .. (MaxTurns + 2)

\* A collaboration (collabAgentToolCall) is known by its two threads.
Collab == Thread \X Other

VARIABLES
  step,        \* what the command is doing
  transport,   \* "broker" or "direct"
  response,    \* the answer to turn/start read but not continued with
  buffer,      \* bufferedNotifications
  capture,     \* the rest of the TurnCaptureState
  lost,        \* the connection is gone (handleExit)
  turns,       \* turn/start requests that app servers have accepted
  main,        \* the main turn
  said,        \* it has given its final answer
  open,        \* collaborations in progress
  asked,       \* threads that somebody has given work to
  known,       \* threads whose thread/started was sent
  running,     \* threads in a turn
  count,       \* the number of turns each has begun
  earlier      \* the earlier turn of the root thread is not over yet

client == <<step, transport, response, buffer, capture>>
subagents == <<open, asked, known, running, count>>
server == <<turns, main, said, subagents, earlier>>
vars == <<client, lost, server>>

Status == {"completed", "failed"}
Connecting == {"connect", "thread", "name"}
Capturing == {"request", "replay", "follow"}
Ended == {"done", "error"}
Replaying == step = "replay"

(* The notifications that captureTurn looks at *)
Message ==
       [kind : {"thread/started"}, thread : Other]
  \cup [kind : {"turn/started", "answer"}, thread : Thread, turn : Turn]
  \cup [kind : {"item/started", "item/completed"}, thread : Thread, turn : Turn,
        item : Collab, receivers : SUBSET Other]
  \cup [kind : {"turn/completed"}, thread : Thread, turn : Turn, status : Status]

-----------------------------------------------------------------------------
(* The capture's state, as a function of the notifications                 *)

CaptureState ==
  [threadIds : SUBSET Thread,
   threadTurnIds : [Thread -> Turn],
   finalAnswerSeen : BOOLEAN,
   pendingCollaborations : SUBSET Collab,
   activeSubagentTurns : SUBSET Other,
   completionTimer : BOOLEAN,
   outcome : {"none", "inferred"} \cup Status]

\* createTurnCaptureState
NewCapture ==
  [threadIds |-> {Root},
   threadTurnIds |-> [t \in Thread |-> NoTurn],
   finalAnswerSeen |-> FALSE,
   pendingCollaborations |-> {},
   activeSubagentTurns |-> {},
   completionTimer |-> FALSE,
   outcome |-> "none"]         \* completed, and finalTurn's status

Completed(c) == c.outcome # "none"

\* completeTurn
Complete(c, outcome) ==
  IF Completed(c) THEN c ELSE [c EXCEPT !.outcome = outcome, !.completionTimer = FALSE]

\* What scheduleInferredCompletion asks, and its timer again.
MayInfer(c) ==
  /\ ~Completed(c) /\ c.finalAnswerSeen
  /\ c.pendingCollaborations = {} /\ c.activeSubagentTurns = {}
Schedule(c) == IF MayInfer(c) THEN [c EXCEPT !.completionTimer = TRUE] ELSE c

Register(c, threads) == [c EXCEPT !.threadIds = @ \cup threads]

BelongsByThread(c, m) == m.thread \in c.threadIds
BelongsToTurn(c, m) ==
  /\ m.thread \in c.threadIds
  /\ c.threadTurnIds[m.thread] \in {NoTurn, m.turn}

\* turn/started
TurnStarted(c, m) ==
  [Register(c, {m.thread}) EXCEPT
     !.threadTurnIds[m.thread] = m.turn,
     !.activeSubagentTurns = @ \cup ({m.thread} \ {Root})]

\* recordItem of a collabAgentToolCall
CollabStarted(c, m) ==
  [Register(c, m.receivers) EXCEPT
     !.pendingCollaborations = IF m.thread = Root THEN @ \cup {m.item} ELSE @]
CollabCompleted(c, m) ==
  Register(IF m.thread # Root THEN c
           ELSE Schedule([c EXCEPT !.pendingCollaborations = @ \ {m.item}]), m.receivers)

\* recordItem of an agentMessage with phase final_answer
AnswerOfAnyThread(c, m) == Schedule([c EXCEPT !.finalAnswerSeen = TRUE])
FinalAnswer(c, m) ==
  IF m.thread # Root THEN c ELSE Schedule([c EXCEPT !.finalAnswerSeen = TRUE])

\* turn/completed
TurnCompletedUnscheduled(c, m) ==
  IF m.thread = Root THEN Complete(c, m.status)
  ELSE [c EXCEPT !.activeSubagentTurns = @ \ {m.thread}]
TurnCompleted(c, m) ==
  IF m.thread = Root THEN Complete(c, m.status)
  ELSE Schedule([c EXCEPT !.activeSubagentTurns = @ \ {m.thread}])

\* applyTurnNotification
Apply(c, m) ==
  CASE m.kind = "thread/started" -> Register(c, {m.thread})
    [] m.kind = "turn/started" -> TurnStarted(c, m)
    [] m.kind = "item/started" -> CollabStarted(c, m)
    [] m.kind = "item/completed" -> CollabCompleted(c, m)
    [] m.kind = "answer" -> FinalAnswer(c, m)
    [] m.kind = "turn/completed" -> TurnCompleted(c, m)

\* The notification handler, once the turn's id is known.
Follow(c, m) ==
  IF m.kind = "thread/started" \/ BelongsToTurn(c, m) THEN Apply(c, m) ELSE c

\* The replay holds thread/started back until a collaboration names the thread:
\* it then adds no more than a label, because the collaboration registers it.
Replay(c, m) ==
  IF m.kind # "thread/started" /\ BelongsToTurn(c, m) THEN Apply(c, m) ELSE c

-----------------------------------------------------------------------------
(* withAppServer, up to captureTurn *)

\* An app server that knows nothing of us yet; foreign turns are somebody
\* else's work, an earlier turn is on a thread that is resumed.
NewServer ==
  /\ main' = "none" /\ said' = FALSE
  /\ open' = {} /\ asked' = {} /\ known' = {} /\ running' = {}
  /\ count' = [t \in Other |-> 0] /\ earlier' = FALSE
NewClient ==
  /\ response' = "none" /\ buffer' = << >> /\ capture' = NewCapture

RetryAnything(error) == transport = "broker"
ShouldRetryDirect(error) == transport = "broker" /\ error = "busy"

\* The catch block: run it all again on an app server of our own, or give up.
Retry ==
  /\ step' = "connect" /\ transport' = "direct" /\ lost' = FALSE
  /\ NewClient /\ NewServer /\ UNCHANGED turns
GiveUp ==
  /\ step' = "error"
  /\ capture' = [capture EXCEPT !.completionTimer = FALSE]
  /\ UNCHANGED <<transport, response, buffer, server>>

Fail(error) ==
  IF ShouldRetryDirect(error) THEN Retry ELSE GiveUp /\ lost' = (error = "lost")

Connect ==
  /\ step = "connect"
  /\ step' = "thread"
  /\ UNCHANGED <<transport, response, buffer, capture, lost, server>>

\* ENOENT or ECONNREFUSED: retried only when the environment names the broker.
ConnectFailed ==
  /\ step = "connect"
  /\ \/ transport = "broker" /\ Retry
     \/ GiveUp /\ UNCHANGED lost

\* thread/start or thread/resume, then thread/name/set for some.
ThreadReady ==
  /\ step \in {"thread", "name"} /\ ~lost
  /\ step' \in (IF step = "thread" THEN {"name", "request"} ELSE {"request"})
  /\ UNCHANGED <<transport, response, buffer, capture, lost, server>>

\* A request is answered with an error, by the broker or the app server.
RequestFailed ==
  /\ step \in {"thread", "name", "request"} /\ ~lost
  /\ response = "none" /\ main = "none"
  /\ \E error \in {"busy", "other"} :
       /\ error = "busy" => transport = "broker"
       /\ Fail(error)

\* handleExit rejects the requests that wait for an answer, and nothing else.
ConnectionLost ==
  /\ step \in {"thread", "name"} \cup Capturing /\ ~Replaying /\ ~lost
  /\ IF step \in {"thread", "name", "request"} /\ response = "none"
     THEN Fail("lost")
     ELSE lost' = TRUE /\ UNCHANGED <<client, server>>

-----------------------------------------------------------------------------
(* captureTurn *)

\* The answer to turn/start is read; lines of the same chunk may follow before
\* captureTurn goes on.
Respond ==
  /\ step = "request" /\ response = "none" /\ main # "none" /\ ~lost
  /\ response' = main
  /\ UNCHANGED <<step, transport, buffer, capture, lost, server>>

\* state.turnId = response.turn.id
Continue ==
  /\ step = "request" /\ response # "none"
  /\ step' = "replay"
  /\ capture' = [capture EXCEPT !.threadTurnIds[Root] = Own]
  /\ UNCHANGED <<transport, response, buffer, lost, server>>

ForgetBuffer ==
  /\ Replaying /\ buffer # << >>
  /\ buffer' = << >>
  /\ UNCHANGED <<step, transport, response, capture, lost, server>>
ReplayNext ==
  /\ Replaying /\ buffer # << >>
  /\ capture' = Replay(capture, Head(buffer))
  /\ buffer' = Tail(buffer)
  /\ UNCHANGED <<step, transport, response, lost, server>>

\* The end of the replay: an answer with a turn that is over completes it.
RespondedAnyhow(status) == TRUE
RespondedOver(status) == status # "running"
EndReplay ==
  /\ Replaying /\ buffer = << >>
  /\ capture' = IF RespondedOver(response) THEN Complete(capture, response) ELSE capture
  /\ step' = IF Completed(capture') THEN "done" ELSE "follow"
  /\ UNCHANGED <<transport, response, buffer, lost, server>>

\* A notification is read.
Notify(m) ==
  /\ ~lost
  /\ \/ /\ step = "request"
        /\ Len(buffer) < MaxBuffer
        /\ buffer' = Append(buffer, m)
        /\ UNCHANGED <<step, capture>>
     \/ /\ step = "follow"
        /\ capture' = Follow(capture, m)
        /\ step' = IF Completed(capture') THEN "done" ELSE step
        /\ UNCHANGED buffer
  /\ UNCHANGED <<transport, response, lost>>

\* The timer's callback; what it asked when it was set, it asks again.
TimerFires ==
  /\ step = "follow" /\ capture.completionTimer
  /\ LET c == [capture EXCEPT !.completionTimer = FALSE]
     IN  /\ capture' = IF MayInfer(c) THEN Complete(c, "inferred") ELSE c
         /\ step' = IF MayInfer(c) THEN "done" ELSE step
  /\ UNCHANGED <<transport, response, buffer, lost, server>>

-----------------------------------------------------------------------------
(* The app server *)

\* It accepts turn/start.
Accept ==
  /\ step = "request" /\ main = "none" /\ ~lost
  /\ main' = "running" /\ turns' = turns + 1
  /\ UNCHANGED <<client, lost, said, subagents, earlier>>

\* The turn that a thread is in; the messages that belong to it name it.
InTurn(t) == IF t = Root THEN main = "running" ELSE t \in running
TurnOf(t) == IF t = Root THEN Own ELSE count[t]

MainStarted ==
  /\ main = "running"
  /\ Notify([kind |-> "turn/started", thread |-> Root, turn |-> Own])
  /\ UNCHANGED server

MainAnswers ==
  /\ main = "running" /\ ~said
  /\ said' = TRUE
  /\ Notify([kind |-> "answer", thread |-> Root, turn |-> Own])
  /\ UNCHANGED <<turns, main, subagents, earlier>>

MainCompleted ==
  /\ main = "running"
  /\ \E status \in Status :
       /\ main' = status
       /\ Notify([kind |-> "turn/completed", thread |-> Root, turn |-> Own, status |-> status])
  /\ UNCHANGED <<turns, said, subagents, earlier>>

\* The turn that was interrupted before the thread was resumed.
EarlierMessage ==
  /\ earlier
  /\ \/ /\ Notify([kind |-> "answer", thread |-> Root, turn |-> Earlier])
        /\ UNCHANGED earlier
     \/ /\ \E status \in Status :
             Notify([kind |-> "turn/completed", thread |-> Root, turn |-> Earlier,
                     status |-> status])
        /\ earlier' = FALSE
  /\ UNCHANGED <<turns, main, said, subagents>>

\* A thread calls another one; a call to a thread that is just being spawned
\* may not name it yet.
OpenCollab(from, to) ==
  /\ InTurn(from) /\ from # to
  /\ from = Root => ~said
  /\ from \in Foreign <=> to \in Foreign
  /\ <<from, to>> \notin open
  /\ open' = open \cup {<<from, to>>}
  /\ asked' = asked \cup {to}
  /\ \E receivers \in {{to}} \cup (IF to \in known THEN {} ELSE {{}}) :
       Notify([kind |-> "item/started", thread |-> from, turn |-> TurnOf(from),
               item |-> <<from, to>>, receivers |-> receivers])
  /\ UNCHANGED <<turns, main, said, known, running, count, earlier>>

CloseCollab(from, to) ==
  /\ InTurn(from) /\ <<from, to>> \in open
  /\ open' = open \ {<<from, to>>}
  /\ Notify([kind |-> "item/completed", thread |-> from, turn |-> TurnOf(from),
             item |-> <<from, to>>, receivers |-> {to}])
  /\ UNCHANGED <<turns, main, said, asked, known, running, count, earlier>>

ThreadStarted(t) ==
  /\ t \in asked \ known
  /\ known' = known \cup {t}
  /\ Notify([kind |-> "thread/started", thread |-> t])
  /\ UNCHANGED <<turns, main, said, open, asked, running, count, earlier>>

BeginTurn(t) ==
  /\ t \in (asked \cap known) \ running
  /\ count[t] < MaxTurns
  /\ running' = running \cup {t} /\ asked' = asked \ {t}
  /\ count' = [count EXCEPT ![t] = @ + 1]
  /\ Notify([kind |-> "turn/started", thread |-> t, turn |-> count[t] + 1])
  /\ UNCHANGED <<turns, main, said, open, known, earlier>>

OtherAnswers(t) ==
  /\ t \in running
  /\ Notify([kind |-> "answer", thread |-> t, turn |-> count[t]])
  /\ UNCHANGED server

EndTurn(t) ==
  /\ t \in running
  /\ running' = running \ {t}
  /\ open' = {c \in open : c[1] # t}
  /\ Notify([kind |-> "turn/completed", thread |-> t, turn |-> count[t], status |-> "completed"])
  /\ UNCHANGED <<turns, main, said, asked, known, count, earlier>>

-----------------------------------------------------------------------------
Init ==
  /\ step = "connect" /\ transport \in {"broker", "direct"} /\ lost = FALSE
  /\ response = "none" /\ buffer = << >> /\ capture = NewCapture
  /\ turns = 0 /\ main = "none" /\ said = FALSE
  /\ open = {} /\ running = {} /\ count = [t \in Other |-> 0]
  /\ earlier \in (IF transport = "broker" THEN BOOLEAN ELSE {FALSE})
  /\ known \in (IF transport = "broker" THEN SUBSET Foreign ELSE {{}})
  /\ asked \in (IF transport = "broker" THEN SUBSET Foreign ELSE {{}})

ClientStep ==
  \/ Connect \/ ConnectFailed \/ ThreadReady \/ RequestFailed \/ ConnectionLost
  \/ Continue \/ ReplayNext \/ EndReplay \/ TimerFires
MainStep == Accept \/ Respond \/ MainStarted \/ MainAnswers \/ MainCompleted \/ EarlierMessage
OtherStep ==
  \/ \E t \in Other : ThreadStarted(t) \/ BeginTurn(t) \/ OtherAnswers(t) \/ EndTurn(t)
  \/ \E c \in Collab : OpenCollab(c[1], c[2]) \/ CloseCollab(c[1], c[2])
Next == ClientStep \/ MainStep \/ OtherStep

Spec == Init /\ [][Next]_vars

\* The app server answers turn/start, the event loop goes on with what it was
\* given, and the timer expires unless the process ends for want of a
\* connection (the timer is unref'd).
FairSpec ==
  /\ Spec
  /\ WF_vars(Accept) /\ WF_vars(Respond)
  /\ WF_vars(Continue) /\ WF_vars(ReplayNext) /\ WF_vars(EndReplay)
  /\ WF_vars(TimerFires /\ ~lost)

-----------------------------------------------------------------------------
(* Properties *)

\* The types of the variables.
TypeOK ==
  /\ step \in Connecting \cup Capturing \cup Ended
  /\ transport \in {"broker", "direct"}
  /\ response \in {"none", "running"} \cup Status
  /\ buffer \in Seq(Message)
  /\ capture \in CaptureState
  /\ lost \in BOOLEAN
  /\ turns \in Nat
  /\ main \in {"none", "running"} \cup Status
  /\ said \in BOOLEAN
  /\ open \subseteq Collab
  /\ asked \subseteq Other /\ known \subseteq Other /\ running \subseteq Other
  /\ count \in [Other -> 0 .. MaxTurns]
  /\ earlier \in BOOLEAN

\* The status that a command reports (buildResultStatus) is that of its own
\* turn: no earlier turn of the thread, subagent or foreign turn ends the
\* capture, whenever its notifications come.
OutcomeIsTheTurns == capture.outcome \in Status => capture.outcome = main

\* "Turn completion inferred after the main thread finished" (line 363): its
\* final answer is out, it waits for no collaboration, or it has ended.
InferredAfterMainWork ==
  capture.outcome = "inferred" =>
    said /\ (main = "running" => \A c \in open : c[1] # Root)

\* "and subagent work drained" (line 363): no subagent is in a turn when the
\* end is inferred.
InferredWhenDrained ==
  [][capture.outcome = "none" /\ capture'.outcome = "inferred"
       => running \cap Subagent = {}]_vars

\* The retry of withAppServer never runs the command's turn twice.
RunsOneTurn == turns <= 1

\* A turn/completed ends the capture, whether it comes before the answer to
\* turn/start, with it or after it.
EndOfTurnEndsCapture == main \in Status ~> step \in Ended

\* The final answer ends the capture although turn/completed is missing, once
\* nobody is at work: whatever the last piece of work was.
Drained ==
  /\ step = "follow" /\ ~lost /\ said
  /\ open = {} /\ running = {}
DrainedTurnEnds == Drained ~> ~Drained
=============================================================================
