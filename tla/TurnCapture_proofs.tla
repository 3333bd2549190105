------------------------- MODULE TurnCapture_proofs -------------------------
(* Theorems about TurnCapture, for any threads and bounds.                *)
EXTENDS TurnCapture, TLAPS

USE CaptureAssumption

-----------------------------------------------------------------------------
(* What one notification does to the capture's state *)

\* A new state of createTurnCaptureState has the type of one.
LEMMA NewCaptureType == NewCapture \in CaptureState
BY DEF NewCapture, CaptureState, Thread, Other, Turn, NoTurn

\* Scheduling and completing keep the type; scheduling sets the timer alone.
LEMMA ScheduleEffect ==
  ASSUME NEW c \in CaptureState
  PROVE  /\ Schedule(c) \in CaptureState
         /\ Schedule(c).outcome = c.outcome
         /\ Schedule(c).threadTurnIds = c.threadTurnIds
BY DEF Schedule, CaptureState

LEMMA CompleteEffect ==
  ASSUME NEW c \in CaptureState, NEW o \in {"none", "inferred"} \cup Status
  PROVE  /\ Complete(c, o) \in CaptureState
         /\ Complete(c, o).outcome = IF c.outcome = "none" THEN o ELSE c.outcome
         /\ Complete(c, o).threadTurnIds = c.threadTurnIds
BY DEF Complete, Completed, CaptureState

LEMMA RegisterEffect ==
  ASSUME NEW c \in CaptureState, NEW threads \in SUBSET Thread
  PROVE  /\ Register(c, threads) \in CaptureState
         /\ Register(c, threads).outcome = c.outcome
         /\ Register(c, threads).threadTurnIds = c.threadTurnIds
BY DEF Register, CaptureState

\* Only the turn/completed of the root thread completes the capture, with its
\* own status, and only its turn/started changes the turn the capture follows.
Effect(c, m, d) ==
  /\ d \in CaptureState
  /\ \/ d.outcome = c.outcome
     \/ m.kind = "turn/completed" /\ m.thread = Root /\ d.outcome = m.status
  /\ \/ d.threadTurnIds[Root] = c.threadTurnIds[Root]
     \/ m.kind = "turn/started" /\ m.thread = Root /\ d.threadTurnIds[Root] = m.turn

LEMMA ApplyEffect ==
  ASSUME NEW c \in CaptureState, NEW m \in Message
  PROVE  Effect(c, m, Apply(c, m))
<1>1. CASE m.kind = "thread/started"
  <2>1. {m.thread} \in SUBSET Thread
    BY <1>1 DEF Message, Thread
  <2>2. Apply(c, m) = Register(c, {m.thread})
    BY <1>1 DEF Apply
  <2> QED BY <2>1, <2>2, RegisterEffect DEF Effect
<1>2. CASE m.kind = "turn/started"
  <2>1. m.thread \in Thread /\ m.turn \in Turn
    BY <1>2 DEF Message
  <2>2. Apply(c, m) = TurnStarted(c, m)
    BY <1>2 DEF Apply
  <2> DEFINE r == Register(c, {m.thread})
  <2>3. r \in CaptureState /\ r.outcome = c.outcome /\ r.threadTurnIds = c.threadTurnIds
    BY <2>1, RegisterEffect
  <2>4. {m.thread} \ {Root} \subseteq Other
    BY <2>1 DEF Thread
  <2> DEFINE ids == [r.threadTurnIds EXCEPT ![m.thread] = m.turn]
             active == r.activeSubagentTurns \cup ({m.thread} \ {Root})
  <2>5. TurnStarted(c, m) = [r EXCEPT !.threadTurnIds = ids, !.activeSubagentTurns = active]
    BY DEF TurnStarted
  <2> HIDE DEF r
  <2>6. ids \in [Thread -> Turn] /\ active \in SUBSET Other
    BY <2>1, <2>3, <2>4 DEF CaptureState
  <2>7. ids = [c.threadTurnIds EXCEPT ![m.thread] = m.turn]
    BY <2>3
  <2> HIDE DEF ids, active
  <2>8. /\ TurnStarted(c, m) \in CaptureState
        /\ TurnStarted(c, m).outcome = c.outcome
        /\ TurnStarted(c, m).threadTurnIds = ids
    BY <2>3, <2>5, <2>6 DEF CaptureState
  <2>9. c.threadTurnIds \in [Thread -> Turn] /\ Root \in Thread
    BY DEF CaptureState, Thread
  <2> QED BY <1>2, <2>1, <2>2, <2>7, <2>8, <2>9 DEF Effect
<1>3. CASE m.kind = "item/started"
  <2>1. m.receivers \in SUBSET Thread /\ m.item \in Collab
    BY <1>3 DEF Message, Thread
  <2>2. Apply(c, m) = CollabStarted(c, m)
    BY <1>3 DEF Apply
  <2> DEFINE r == Register(c, m.receivers)
  <2>3. r \in CaptureState /\ r.outcome = c.outcome /\ r.threadTurnIds = c.threadTurnIds
    BY <2>1, RegisterEffect
  <2>4. CollabStarted(c, m) =
          [r EXCEPT !.pendingCollaborations = IF m.thread = Root THEN @ \cup {m.item} ELSE @]
    BY DEF CollabStarted
  <2> HIDE DEF r
  <2>5. /\ CollabStarted(c, m) \in CaptureState
        /\ CollabStarted(c, m).outcome = c.outcome
        /\ CollabStarted(c, m).threadTurnIds = c.threadTurnIds
    BY <2>1, <2>3, <2>4 DEF CaptureState
  <2> QED BY <2>2, <2>5 DEF Effect
<1>4. CASE m.kind = "item/completed"
  <2>1. m.receivers \in SUBSET Thread
    BY <1>4 DEF Message, Thread
  <2>2. Apply(c, m) = CollabCompleted(c, m)
    BY <1>4 DEF Apply
  <2> DEFINE d == [c EXCEPT !.pendingCollaborations = @ \ {m.item}]
             r == IF m.thread # Root THEN c ELSE Schedule(d)
  <2>3. d \in CaptureState /\ d.outcome = c.outcome /\ d.threadTurnIds = c.threadTurnIds
    BY DEF CaptureState
  <2> HIDE DEF d
  <2>4. r \in CaptureState /\ r.outcome = c.outcome /\ r.threadTurnIds = c.threadTurnIds
    BY <2>3, ScheduleEffect
  <2>5. CollabCompleted(c, m) = Register(r, m.receivers)
    BY DEF CollabCompleted, d
  <2> HIDE DEF r
  <2> QED BY <2>1, <2>2, <2>4, <2>5, RegisterEffect DEF Effect
<1>5. CASE m.kind = "answer"
  <2>1. Apply(c, m) = FinalAnswer(c, m)
    BY <1>5 DEF Apply
  <2> DEFINE d == [c EXCEPT !.finalAnswerSeen = TRUE]
  <2>2. d \in CaptureState /\ d.outcome = c.outcome /\ d.threadTurnIds = c.threadTurnIds
    BY DEF CaptureState
  <2>3. FinalAnswer(c, m) = IF m.thread # Root THEN c ELSE Schedule(d)
    BY DEF FinalAnswer
  <2> HIDE DEF d
  <2> QED BY <2>1, <2>2, <2>3, ScheduleEffect DEF Effect
<1>6. CASE m.kind = "turn/completed"
  <2>1. m.status \in Status
    BY <1>6 DEF Message
  <2>2. Apply(c, m) = TurnCompleted(c, m)
    BY <1>6 DEF Apply
  <2>3. CASE m.thread = Root
    <3>1. Apply(c, m) = Complete(c, m.status)
      BY <2>2, <2>3 DEF TurnCompleted
    <3> QED BY <1>6, <2>1, <2>3, <3>1, CompleteEffect DEF Effect
  <2>4. CASE m.thread # Root
    <3> DEFINE d == [c EXCEPT !.activeSubagentTurns = @ \ {m.thread}]
    <3>1. d \in CaptureState /\ d.outcome = c.outcome /\ d.threadTurnIds = c.threadTurnIds
      BY DEF CaptureState
    <3>2. Apply(c, m) = Schedule(d)
      BY <2>2, <2>4 DEF TurnCompleted
    <3> HIDE DEF d
    <3> QED BY <3>1, <3>2, ScheduleEffect DEF Effect
  <2> QED BY <2>3, <2>4
<1> QED BY <1>1, <1>2, <1>3, <1>4, <1>5, <1>6 DEF Message

\* The handler and the replay apply a notification or leave it.
LEMMA FollowEffect ==
  ASSUME NEW c \in CaptureState, NEW m \in Message
  PROVE  Effect(c, m, Follow(c, m)) /\ Effect(c, m, Replay(c, m))
BY ApplyEffect DEF Follow, Replay, Effect

\* Once the capture follows the command's own turn, what ends it is that
\* turn's turn/completed, and it goes on following that turn.
LEMMA OnlyOwnTurnEnds ==
  ASSUME NEW c \in CaptureState, NEW m \in Message,
         c.threadTurnIds[Root] = Own,
         NEW d, d = Follow(c, m) \/ d = Replay(c, m)
  PROVE  /\ d.threadTurnIds[Root] = Own
         /\ \/ d.outcome = c.outcome
            \/ /\ m.kind = "turn/completed" /\ m.thread = Root /\ m.turn = Own
               /\ d.outcome = m.status
<1>1. Effect(c, m, d)
  BY FollowEffect
<1>2. d = c \/ m.kind = "thread/started" \/ BelongsToTurn(c, m)
  BY DEF Follow, Replay
<1>3. CASE m.kind \notin {"turn/started", "turn/completed"} \/ m.thread # Root
  BY <1>1, <1>3 DEF Effect
<1>4. CASE m.kind \in {"turn/started", "turn/completed"} /\ m.thread = Root
  <2>1. d = c \/ m.turn = Own
    BY <1>2, <1>4 DEF BelongsToTurn, NoTurn, Own
  <2> QED BY <1>1, <1>4, <2>1 DEF Effect
<1> QED BY <1>3, <1>4

-----------------------------------------------------------------------------
(* Types *)

LEMMA InitType == Init => TypeOK
<1> SUFFICES ASSUME Init PROVE TypeOK
  OBVIOUS
<1>1. capture \in CaptureState
  BY NewCaptureType DEF Init
<1>2. buffer \in Seq(Message)
  BY DEF Init
<1>3. count \in [Other -> 0 .. MaxTurns]
  BY DEF Init
<1>4. known \subseteq Other /\ asked \subseteq Other
  BY DEF Init, Other
<1> QED BY <1>1, <1>2, <1>3, <1>4 DEF Init, TypeOK, Connecting, Status

\* A notification that is read keeps the types of the client.
LEMMA NotifyType ==
  ASSUME TypeOK, NEW m \in Message, Notify(m)
  PROVE  /\ step' \in Connecting \cup Capturing \cup Ended
         /\ transport' \in {"broker", "direct"}
         /\ response' \in {"none", "running"} \cup Status
         /\ buffer' \in Seq(Message)
         /\ capture' \in CaptureState
         /\ lost' \in BOOLEAN
<1>1. Follow(capture, m) \in CaptureState
  BY FollowEffect DEF Effect, TypeOK
<1>2. Append(buffer, m) \in Seq(Message)
  BY DEF TypeOK
<1> QED BY <1>1, <1>2 DEF Notify, TypeOK, Ended, Capturing

\* A retry starts from well-typed state, and giving up keeps it.
LEMMA RetryType == ASSUME TypeOK, Retry PROVE TypeOK'
<1>1. capture' \in CaptureState
  BY NewCaptureType DEF Retry, NewClient
<1>2. buffer' \in Seq(Message)
  BY DEF Retry, NewClient
<1>3. count' \in [Other -> 0 .. MaxTurns]
  BY DEF Retry, NewServer
<1> QED BY <1>1, <1>2, <1>3 DEF Retry, NewClient, NewServer, TypeOK, Connecting

LEMMA GiveUpType ==
  ASSUME TypeOK, GiveUp, lost' \in BOOLEAN
  PROVE  TypeOK'
<1>1. capture' \in CaptureState
  BY DEF GiveUp, TypeOK, CaptureState
<1> QED BY <1>1 DEF GiveUp, TypeOK, Ended, server, subagents

LEMMA FailType ==
  ASSUME TypeOK, NEW error, Fail(error)
  PROVE  TypeOK'
BY RetryType, GiveUpType DEF Fail

LEMMA ClientStepType == ASSUME TypeOK, ClientStep PROVE TypeOK'
<1> USE DEF server, subagents, client
<1>1. CASE Connect
  BY <1>1 DEF Connect, TypeOK, Connecting
<1>2. CASE ConnectFailed
  BY <1>2, RetryType, GiveUpType DEF ConnectFailed, TypeOK
<1>3. CASE ThreadReady
  <2>1. step' \in {"name", "request"}
    BY <1>3 DEF ThreadReady
  <2> QED BY <1>3, <2>1 DEF ThreadReady, TypeOK, Connecting, Capturing
<1>4. CASE RequestFailed
  <2>1. PICK error \in {"busy", "other"} : Fail(error)
    BY <1>4 DEF RequestFailed
  <2> QED BY <2>1, FailType
<1>5. CASE ConnectionLost
  BY <1>5, FailType DEF ConnectionLost, TypeOK
<1>6. CASE Continue
  <2>1. capture' \in CaptureState
    <3> DEFINE ids == [capture.threadTurnIds EXCEPT ![Root] = Own]
    <3>1. Own \in Turn
      BY DEF Own, Turn
    <3>2. ids \in [Thread -> Turn]
      BY <3>1 DEF TypeOK, CaptureState
    <3>3. capture' = [capture EXCEPT !.threadTurnIds = ids]
      BY <1>6 DEF Continue
    <3> HIDE DEF ids
    <3> QED BY <3>2, <3>3 DEF TypeOK, CaptureState
  <2> QED BY <1>6, <2>1 DEF Continue, TypeOK, Capturing
<1>7. CASE ReplayNext
  <2>1. Head(buffer) \in Message /\ Tail(buffer) \in Seq(Message)
    BY <1>7 DEF ReplayNext, TypeOK
  <2>2. Replay(capture, Head(buffer)) \in CaptureState
    BY <2>1, FollowEffect DEF Effect, TypeOK
  <2> QED BY <1>7, <2>1, <2>2 DEF ReplayNext, TypeOK
<1>8. CASE TimerFires
  <2> DEFINE c == [capture EXCEPT !.completionTimer = FALSE]
  <2>1. c \in CaptureState
    BY DEF TypeOK, CaptureState
  <2> HIDE DEF c
  <2>2. Complete(c, "inferred") \in CaptureState
    BY <2>1, CompleteEffect
  <2>3. capture' \in CaptureState
    BY <1>8, <2>1, <2>2 DEF TimerFires, c
  <2> QED BY <1>8, <2>3 DEF TimerFires, TypeOK, Ended
<1>9. CASE EndReplay
  <2>1. capture' \in CaptureState
    BY <1>9, CompleteEffect DEF EndReplay, TypeOK, RespondedOver
  <2> QED BY <1>9, <2>1 DEF EndReplay, TypeOK, Capturing, Ended
<1> QED
  BY <1>1, <1>2, <1>3, <1>4, <1>5, <1>6, <1>7, <1>8, <1>9 DEF ClientStep

\* The turn/completed of the command's own turn.
OwnEnd(m) == m.kind = "turn/completed" /\ m.thread = Root /\ m.turn = Own

\* What other threads do, and what the main turn asks of them, is told by
\* notifications that end no turn of the root thread.
LEMMA OtherNotifies ==
  ASSUME TypeOK, OtherStep
  PROVE  \E m \in Message : Notify(m) /\ ~OwnEnd(m)
<1>1. ASSUME NEW t \in Other, ThreadStarted(t) \/ BeginTurn(t) \/ OtherAnswers(t) \/ EndTurn(t)
      PROVE  \E m \in Message : Notify(m) /\ ~OwnEnd(m)
  <2>1. t \in Thread /\ t # Root /\ count[t] \in Turn /\ count[t] \in 0 .. MaxTurns
    BY DEF Thread, Other, TypeOK, Turn
  <2>2. CASE ThreadStarted(t)
    <3>1. [kind |-> "thread/started", thread |-> t] \in Message
      BY DEF Message
    <3> QED BY <2>2, <3>1 DEF ThreadStarted, OwnEnd
  <2>3. CASE BeginTurn(t)
    <3>1. count[t] + 1 \in Turn
      BY <2>1, <2>3 DEF BeginTurn, Turn
    <3>2. [kind |-> "turn/started", thread |-> t, turn |-> count[t] + 1] \in Message
      BY <2>1, <3>1 DEF Message
    <3> QED BY <2>3, <3>2 DEF BeginTurn, OwnEnd
  <2>4. CASE OtherAnswers(t)
    <3>1. [kind |-> "answer", thread |-> t, turn |-> count[t]] \in Message
      BY <2>1 DEF Message
    <3> QED BY <2>4, <3>1 DEF OtherAnswers, OwnEnd
  <2>5. CASE EndTurn(t)
    <3>1. [kind |-> "turn/completed", thread |-> t, turn |-> count[t], status |-> "completed"]
            \in Message
      BY <2>1 DEF Message, Status
    <3> QED BY <2>1, <2>5, <3>1 DEF EndTurn, OwnEnd
  <2> QED BY <1>1, <2>2, <2>3, <2>4, <2>5
<1>2. ASSUME NEW c \in Collab, OpenCollab(c[1], c[2]) \/ CloseCollab(c[1], c[2])
      PROVE  \E m \in Message : Notify(m) /\ ~OwnEnd(m)
  <2>1. c[1] \in Thread /\ c[2] \in Other /\ <<c[1], c[2]>> \in Collab
    BY DEF Collab
  <2>2. TurnOf(c[1]) \in Turn
    BY <2>1 DEF TurnOf, Thread, TypeOK, Turn, Own
  <2>3. CASE OpenCollab(c[1], c[2])
    <3>1. PICK receivers \in SUBSET Other :
            Notify([kind |-> "item/started", thread |-> c[1], turn |-> TurnOf(c[1]),
                    item |-> <<c[1], c[2]>>, receivers |-> receivers])
      BY <2>1, <2>3 DEF OpenCollab
    <3>2. [kind |-> "item/started", thread |-> c[1], turn |-> TurnOf(c[1]),
           item |-> <<c[1], c[2]>>, receivers |-> receivers] \in Message
      BY <2>1, <2>2 DEF Message
    <3> QED BY <3>1, <3>2 DEF OwnEnd
  <2>4. CASE CloseCollab(c[1], c[2])
    <3>1. [kind |-> "item/completed", thread |-> c[1], turn |-> TurnOf(c[1]),
           item |-> <<c[1], c[2]>>, receivers |-> {c[2]}] \in Message
      BY <2>1, <2>2 DEF Message
    <3> QED BY <2>4, <3>1 DEF CloseCollab, OwnEnd
  <2> QED BY <1>2, <2>3, <2>4
<1> QED BY <1>1, <1>2 DEF OtherStep

LEMMA OtherTypes ==
  ASSUME TypeOK, OtherStep
  PROVE  /\ UNCHANGED <<turns, main, said, earlier>>
         /\ open' \subseteq Collab /\ asked' \subseteq Other
         /\ known' \subseteq Other /\ running' \subseteq Other
         /\ count' \in [Other -> 0 .. MaxTurns]
<1>1. CASE \E t \in Other : ThreadStarted(t)
  BY <1>1 DEF ThreadStarted, TypeOK
<1>2. CASE \E t \in Other : BeginTurn(t)
  <2>1. PICK t \in Other : BeginTurn(t)
    BY <1>2
  <2>2. count[t] + 1 \in 0 .. MaxTurns
    BY <2>1 DEF BeginTurn, TypeOK
  <2> QED BY <2>1, <2>2 DEF BeginTurn, TypeOK
<1>3. CASE \E t \in Other : OtherAnswers(t)
  BY <1>3 DEF OtherAnswers, TypeOK, server, subagents
<1>4. CASE \E t \in Other : EndTurn(t)
  BY <1>4 DEF EndTurn, TypeOK
<1>5. CASE \E c \in Collab : OpenCollab(c[1], c[2])
  <2>1. PICK c \in Collab : OpenCollab(c[1], c[2])
    BY <1>5
  <2>2. c[2] \in Other /\ <<c[1], c[2]>> \in Collab
    BY DEF Collab
  <2> QED BY <2>1, <2>2 DEF OpenCollab, TypeOK
<1>6. CASE \E c \in Collab : CloseCollab(c[1], c[2])
  BY <1>6 DEF CloseCollab, TypeOK
<1> QED BY <1>1, <1>2, <1>3, <1>4, <1>5, <1>6 DEF OtherStep

LEMMA ServerStepType == ASSUME TypeOK, MainStep \/ OtherStep PROVE TypeOK'
<1> USE DEF server, subagents, client
<1>1. CASE Accept
  BY <1>1 DEF Accept, TypeOK
<1>2. CASE Respond
  BY <1>2 DEF Respond, TypeOK
<1>3. CASE MainStarted
  <2>1. [kind |-> "turn/started", thread |-> Root, turn |-> Own] \in Message
    BY DEF Message, Thread, Turn, Own
  <2> QED BY <1>3, <2>1, NotifyType DEF MainStarted, TypeOK
<1>4. CASE MainAnswers
  <2>1. [kind |-> "answer", thread |-> Root, turn |-> Own] \in Message
    BY DEF Message, Thread, Turn, Own
  <2> QED BY <1>4, <2>1, NotifyType DEF MainAnswers, TypeOK
<1>5. CASE MainCompleted
  <2>1. PICK status \in Status :
          /\ main' = status
          /\ Notify([kind |-> "turn/completed", thread |-> Root, turn |-> Own, status |-> status])
    BY <1>5 DEF MainCompleted
  <2>2. [kind |-> "turn/completed", thread |-> Root, turn |-> Own, status |-> status] \in Message
    BY DEF Message, Thread, Turn, Own
  <2> QED BY <1>5, <2>1, <2>2, NotifyType DEF MainCompleted, TypeOK
<1>6. CASE EarlierMessage
  <2>1. \E m \in Message : Notify(m)
    <3>1. [kind |-> "answer", thread |-> Root, turn |-> Earlier] \in Message
      BY DEF Message, Thread, Turn, Earlier
    <3>2. \A status \in Status :
            [kind |-> "turn/completed", thread |-> Root, turn |-> Earlier, status |-> status] \in Message
      BY DEF Message, Thread, Turn, Earlier
    <3> QED BY <1>6, <3>1, <3>2 DEF EarlierMessage
  <2>2. earlier' \in BOOLEAN
    BY <1>6 DEF EarlierMessage, TypeOK
  <2> QED BY <1>6, <2>1, <2>2, NotifyType DEF EarlierMessage, TypeOK
<1>7. CASE OtherStep
  <2>1. PICK m \in Message : Notify(m)
    BY <1>7, OtherNotifies
  <2>2. /\ UNCHANGED <<turns, main, said, earlier>>
        /\ open' \subseteq Collab /\ asked' \subseteq Other
        /\ known' \subseteq Other /\ running' \subseteq Other
        /\ count' \in [Other -> 0 .. MaxTurns]
    BY <1>7, OtherTypes
  <2> QED BY <2>1, <2>2, NotifyType DEF TypeOK
<1> QED
  BY <1>1, <1>2, <1>3, <1>4, <1>5, <1>6, <1>7 DEF MainStep

\* TypeOK holds for any threads and bounds.
THEOREM TypeCorrect == Spec => []TypeOK
<1>1. Init => TypeOK
  BY InitType
<1>2. TypeOK /\ [Next]_vars => TypeOK'
  <2>1. TypeOK /\ Next => TypeOK'
    BY ClientStepType, ServerStepType DEF Next
  <2>2. TypeOK /\ UNCHANGED vars => TypeOK'
    BY DEF vars, client, server, subagents, TypeOK
  <2> QED BY <2>1, <2>2
<1> QED BY <1>1, <1>2, PTL DEF Spec

-----------------------------------------------------------------------------
(* The outcome and the retry *)

\* What waits to be replayed, and the answer, tell how the main turn has ended.
BufferTells == \A i \in 1 .. Len(buffer) : OwnEnd(buffer[i]) => buffer[i].status = main
ResponseTells == response \in Status => response = main
\* Before the capture looks at a notification it knows which turn is its own.
FollowsOwn ==
  /\ step \in {"replay", "follow"} => capture.threadTurnIds[Root] = Own
  /\ Replaying => response # "none"
\* No turn is running when the turn/start of a retry is to come.
OneAttempt ==
  /\ step \in Connecting => main = "none"
  /\ turns <= 1
  /\ main = "none" => turns = 0

Inv ==
  /\ TypeOK
  /\ BufferTells /\ ResponseTells /\ FollowsOwn /\ OneAttempt
  /\ OutcomeIsTheTurns

LEMMA InitInv == Init => Inv
<1> SUFFICES ASSUME Init PROVE Inv
  OBVIOUS
<1>1. TypeOK
  BY InitType
<1>2. capture.outcome = "none" /\ Len(buffer) = 0
  BY DEF Init, NewCapture
<1>3. step = "connect" /\ response = "none" /\ main = "none" /\ turns = 0
  BY DEF Init
<1>4. BufferTells
  BY <1>2 DEF BufferTells
<1> QED
  BY <1>1, <1>2, <1>3, <1>4
  DEF Inv, ResponseTells, FollowsOwn, OneAttempt, OutcomeIsTheTurns, Status, Replaying

\* A step that leaves the turn and what is told of it alone.
LEMMA QuietStep ==
  ASSUME Inv, TypeOK', UNCHANGED <<buffer, response, main, turns>>,
         capture'.outcome = capture.outcome \/ capture'.outcome \notin Status,
         step' \in Connecting => main = "none", FollowsOwn'
  PROVE  Inv'
<1>1. BufferTells' /\ ResponseTells'
  BY DEF Inv, BufferTells, ResponseTells
<1>2. OneAttempt' /\ OutcomeIsTheTurns'
  BY DEF Inv, OneAttempt, OutcomeIsTheTurns
<1> QED BY <1>1, <1>2 DEF Inv

\* A retry forgets everything; it comes when no turn has been accepted.
LEMMA RetryInv == ASSUME Inv, main = "none", Retry PROVE Inv'
<1>1. TypeOK'
  BY RetryType DEF Inv
<1>2. capture'.outcome = "none" /\ Len(buffer') = 0
  BY DEF Retry, NewClient, NewCapture
<1>3. step' = "connect" /\ response' = "none" /\ main' = "none" /\ turns' = 0
  BY DEF Retry, NewClient, NewServer, Inv, OneAttempt
<1>4. BufferTells'
  BY <1>2 DEF BufferTells
<1> QED
  BY <1>1, <1>2, <1>3, <1>4
  DEF Inv, ResponseTells, FollowsOwn, OneAttempt, OutcomeIsTheTurns, Status, Replaying

LEMMA GiveUpInv == ASSUME Inv, GiveUp, lost' \in BOOLEAN PROVE Inv'
<1>1. TypeOK'
  BY GiveUpType DEF Inv
<1>2. capture'.outcome = capture.outcome
  BY DEF GiveUp, Inv, TypeOK, CaptureState
<1>3. FollowsOwn'
  BY DEF GiveUp, FollowsOwn, Replaying
<1> QED
  BY <1>1, <1>2, <1>3, QuietStep DEF GiveUp, server, Connecting

LEMMA FailInv ==
  ASSUME Inv, NEW error, Fail(error), error = "busy" => main = "none"
  PROVE  Inv'
BY RetryInv, GiveUpInv DEF Fail, ShouldRetryDirect

\* A notification that is read: it may be the one that tells how the turn ends.
LEMMA NotifyInv ==
  ASSUME Inv, TypeOK', NEW m \in Message, Notify(m), UNCHANGED turns,
         OwnEnd(m) => m.status = main',
         main' = main \/ (main = "running" /\ main' \in Status)
  PROVE  Inv'
<1> USE DEF Inv
<1>1. \A i \in 1 .. Len(buffer) : OwnEnd(buffer[i]) => buffer[i].status = main'
  <2> SUFFICES ASSUME NEW i \in 1 .. Len(buffer), OwnEnd(buffer[i])
               PROVE  buffer[i].status = main'
    OBVIOUS
  <2>1. buffer[i] \in Message
    BY DEF TypeOK
  <2>2. buffer[i].status \in Status
    BY <2>1 DEF Message, OwnEnd
  <2> QED BY <2>2 DEF BufferTells, Status
<1>2. capture.outcome \in Status => capture.outcome = main'
  BY DEF OutcomeIsTheTurns, Status
<1>3. response \in Status => response = main'
  BY DEF ResponseTells, Status
<1>4. OneAttempt'
  BY DEF OneAttempt, Notify, Status, Connecting
<1>5. CASE step = "request" /\ buffer' = Append(buffer, m) /\ UNCHANGED <<step, capture>>
  <2>1. BufferTells'
    BY <1>1, <1>5 DEF BufferTells, TypeOK
  <2> QED
    BY <1>2, <1>3, <1>4, <1>5, <2>1
    DEF Notify, ResponseTells, FollowsOwn, Replaying, OutcomeIsTheTurns
<1>6. CASE step = "follow" /\ capture' = Follow(capture, m) /\ UNCHANGED buffer
  <2>1. /\ capture'.threadTurnIds[Root] = Own
        /\ capture'.outcome = capture.outcome \/ (OwnEnd(m) /\ capture'.outcome = m.status)
    BY <1>6, OnlyOwnTurnEnds DEF FollowsOwn, OwnEnd, TypeOK
  <2>2. BufferTells' /\ ResponseTells'
    BY <1>1, <1>3, <1>6 DEF BufferTells, ResponseTells, Notify
  <2>3. step' \in {"follow", "done"}
    BY <1>6 DEF Notify
  <2> QED
    BY <1>2, <1>4, <2>1, <2>2, <2>3
    DEF FollowsOwn, Replaying, OutcomeIsTheTurns
<1> QED BY <1>5, <1>6 DEF Notify

LEMMA ClientStepInv == ASSUME Inv, ClientStep PROVE Inv'
<1>0. TypeOK'
  BY ClientStepType DEF Inv
<1> USE DEF server
<1>1. CASE Connect
  <2>1. FollowsOwn'
    BY <1>1 DEF Connect, FollowsOwn, Replaying
  <2> QED BY <1>0, <1>1, <2>1, QuietStep DEF Connect, Inv, OneAttempt, Connecting
<1>2. CASE ConnectFailed
  <2>1. main = "none"
    BY <1>2 DEF ConnectFailed, Inv, OneAttempt, Connecting
  <2> QED BY <1>2, <2>1, RetryInv, GiveUpInv DEF ConnectFailed, Inv, TypeOK
<1>3. CASE ThreadReady
  <2>1. step' \in {"name", "request"} /\ main = "none"
    BY <1>3 DEF ThreadReady, Inv, OneAttempt, Connecting
  <2>2. FollowsOwn'
    BY <2>1 DEF FollowsOwn, Replaying
  <2> QED BY <1>0, <1>3, <2>1, <2>2, QuietStep DEF ThreadReady
<1>4. CASE RequestFailed
  <2>1. PICK error \in {"busy", "other"} : Fail(error)
    BY <1>4 DEF RequestFailed
  <2> QED BY <1>4, <2>1, FailInv DEF RequestFailed
<1>5. CASE ConnectionLost
  <2>1. CASE Fail("lost")
    BY <2>1, FailInv
  <2>2. CASE UNCHANGED <<client, server>>
    BY <1>0, <2>2, QuietStep DEF client, Inv, OneAttempt, FollowsOwn, Replaying
  <2> QED BY <1>5, <2>1, <2>2 DEF ConnectionLost
<1>6. CASE Continue
  <2>1. /\ capture'.outcome = capture.outcome
        /\ capture'.threadTurnIds[Root] = Own
    BY <1>6 DEF Continue, Inv, TypeOK, CaptureState, Thread
  <2>2. FollowsOwn'
    BY <1>6, <2>1 DEF Continue, FollowsOwn
  <2> QED BY <1>0, <1>6, <2>1, <2>2, QuietStep DEF Continue, Connecting
<1>7. CASE ReplayNext
  <2> DEFINE m == Head(buffer)
  <2>1. m \in Message /\ m = buffer[1] /\ 1 \in 1 .. Len(buffer)
    BY <1>7 DEF ReplayNext, Inv, TypeOK
  <2>2. capture.threadTurnIds[Root] = Own /\ capture' = Replay(capture, m)
    BY <1>7 DEF ReplayNext, Inv, FollowsOwn, Replaying
  <2>3. /\ capture'.threadTurnIds[Root] = Own
        /\ capture'.outcome = capture.outcome \/ (OwnEnd(m) /\ capture'.outcome = m.status)
    BY <2>1, <2>2, OnlyOwnTurnEnds DEF OwnEnd, Inv, TypeOK
  <2>4. OwnEnd(m) => m.status = main
    BY <2>1 DEF Inv, BufferTells
  <2>5. BufferTells'
    BY <1>7 DEF ReplayNext, Inv, BufferTells, TypeOK
  <2> HIDE DEF m
  <2> QED
    BY <1>0, <1>7, <2>3, <2>4, <2>5
    DEF ReplayNext, Inv, ResponseTells, FollowsOwn, Replaying, OneAttempt, OutcomeIsTheTurns
<1>8. CASE EndReplay
  <2>1. response # "none" /\ capture.threadTurnIds[Root] = Own /\ step' \in {"done", "follow"}
    BY <1>8 DEF EndReplay, Inv, FollowsOwn, Replaying
  <2>2. /\ capture'.threadTurnIds[Root] = Own
        /\ \/ capture'.outcome = capture.outcome
           \/ response \in Status /\ capture'.outcome = response
    BY <1>8, <2>1, CompleteEffect DEF EndReplay, Inv, TypeOK, RespondedOver
  <2>3. BufferTells' /\ ResponseTells'
    BY <1>8 DEF EndReplay, Inv, BufferTells, ResponseTells
  <2>4. FollowsOwn' /\ OneAttempt'
    BY <1>8, <2>1, <2>2 DEF EndReplay, Inv, FollowsOwn, Replaying, OneAttempt, Connecting
  <2>5. OutcomeIsTheTurns'
    BY <1>8, <2>2 DEF EndReplay, Inv, ResponseTells, OutcomeIsTheTurns
  <2> QED BY <1>0, <2>3, <2>4, <2>5 DEF Inv
<1>9. CASE TimerFires
  <2> DEFINE c == [capture EXCEPT !.completionTimer = FALSE]
  <2>1. /\ c \in CaptureState /\ c.outcome = capture.outcome
        /\ c.threadTurnIds = capture.threadTurnIds
    BY DEF Inv, TypeOK, CaptureState
  <2>2. capture' = IF MayInfer(c) THEN Complete(c, "inferred") ELSE c
    BY <1>9 DEF TimerFires
  <2> HIDE DEF c
  <2>3. /\ capture'.threadTurnIds = capture.threadTurnIds
        /\ capture'.outcome \in {capture.outcome, "inferred"}
    BY <2>1, <2>2, CompleteEffect
  <2>4. step = "follow" /\ step' \in {"done", "follow"}
    BY <1>9 DEF TimerFires
  <2>5. FollowsOwn'
    BY <2>3, <2>4 DEF Inv, FollowsOwn, Replaying
  <2> QED
    BY <1>0, <1>9, <2>3, <2>4, <2>5, QuietStep DEF TimerFires, Connecting, Status
<1> QED
  BY <1>1, <1>2, <1>3, <1>4, <1>5, <1>6, <1>7, <1>8, <1>9 DEF ClientStep

LEMMA ServerStepInv == ASSUME Inv, MainStep \/ OtherStep PROVE Inv'
<1>0. TypeOK'
  BY ServerStepType DEF Inv
<1> USE DEF server, subagents, client
<1>1. CASE Accept
  <2>1. main = "none" /\ turns = 0 /\ main' = "running" /\ turns' = 1 /\ step' = "request"
    BY <1>1 DEF Accept, Inv, OneAttempt
  <2>2. \A i \in 1 .. Len(buffer) : ~OwnEnd(buffer[i])
    <3> SUFFICES ASSUME NEW i \in 1 .. Len(buffer), OwnEnd(buffer[i]) PROVE FALSE
      OBVIOUS
    <3>1. buffer[i] \in Message
      BY DEF Inv, TypeOK
    <3>2. buffer[i].status \in Status
      BY <3>1 DEF Message, OwnEnd
    <3> QED BY <2>1, <3>2 DEF Inv, BufferTells, Status
  <2>3. BufferTells' /\ ResponseTells' /\ OutcomeIsTheTurns'
    BY <1>1, <2>1, <2>2
    DEF Accept, Inv, BufferTells, ResponseTells, OutcomeIsTheTurns, Status
  <2> QED
    BY <1>0, <1>1, <2>1, <2>3 DEF Accept, Inv, FollowsOwn, Replaying, OneAttempt, Connecting
<1>2. CASE Respond
  BY <1>0, <1>2
  DEF Respond, Inv, BufferTells, ResponseTells, FollowsOwn, Replaying, OneAttempt,
      OutcomeIsTheTurns
<1>3. CASE MainStarted
  <2>1. [kind |-> "turn/started", thread |-> Root, turn |-> Own] \in Message
    BY DEF Message, Thread, Turn, Own
  <2> QED BY <1>0, <1>3, <2>1, NotifyInv DEF MainStarted, OwnEnd
<1>4. CASE MainAnswers
  <2>1. [kind |-> "answer", thread |-> Root, turn |-> Own] \in Message
    BY DEF Message, Thread, Turn, Own
  <2> QED BY <1>0, <1>4, <2>1, NotifyInv DEF MainAnswers, OwnEnd
<1>5. CASE MainCompleted
  <2>1. PICK status \in Status :
          /\ main' = status
          /\ Notify([kind |-> "turn/completed", thread |-> Root, turn |-> Own, status |-> status])
    BY <1>5 DEF MainCompleted
  <2>2. [kind |-> "turn/completed", thread |-> Root, turn |-> Own, status |-> status] \in Message
    BY DEF Message, Thread, Turn, Own
  <2> QED BY <1>0, <1>5, <2>1, <2>2, NotifyInv DEF MainCompleted
<1>6. CASE EarlierMessage
  <2>1. PICK m \in Message : Notify(m) /\ ~OwnEnd(m)
    <3>1. [kind |-> "answer", thread |-> Root, turn |-> Earlier] \in Message
      BY DEF Message, Thread, Turn, Earlier
    <3>2. \A status \in Status :
            [kind |-> "turn/completed", thread |-> Root, turn |-> Earlier, status |-> status] \in Message
      BY DEF Message, Thread, Turn, Earlier
    <3>3. CASE Notify([kind |-> "answer", thread |-> Root, turn |-> Earlier])
      BY <3>1, <3>3 DEF OwnEnd
    <3>4. ASSUME NEW status \in Status,
                 Notify([kind |-> "turn/completed", thread |-> Root, turn |-> Earlier,
                         status |-> status])
          PROVE  \E m \in Message : Notify(m) /\ ~OwnEnd(m)
      <4>1. ~OwnEnd([kind |-> "turn/completed", thread |-> Root, turn |-> Earlier,
                     status |-> status])
        BY DEF OwnEnd, Earlier, Own
      <4> QED BY <3>2, <3>4, <4>1
    <3> QED BY <1>6, <3>3, <3>4 DEF EarlierMessage
  <2> QED BY <1>0, <1>6, <2>1, NotifyInv DEF EarlierMessage
<1>7. CASE OtherStep
  <2>0. TypeOK
    BY DEF Inv
  <2>1. \E m \in Message : Notify(m) /\ ~OwnEnd(m)
    BY <1>7, <2>0, OtherNotifies
  <2>2. UNCHANGED <<main, turns>>
    BY <1>7 DEF OtherStep, ThreadStarted, BeginTurn, OtherAnswers, EndTurn, OpenCollab, CloseCollab
  <2> QED BY <1>0, <2>1, <2>2, NotifyInv
<1> QED
  BY <1>1, <1>2, <1>3, <1>4, <1>5, <1>6, <1>7 DEF MainStep

\* The inductive invariant.
THEOREM Invariance == Spec => []Inv
<1>1. Init => Inv
  BY InitInv
<1>2. Inv /\ [Next]_vars => Inv'
  <2>1. Inv /\ Next => Inv'
    BY ClientStepInv, ServerStepInv DEF Next
  <2>2. Inv /\ UNCHANGED vars => Inv'
    BY DEF vars, client, server, subagents, Inv, TypeOK, BufferTells, ResponseTells,
           FollowsOwn, Replaying, OneAttempt, OutcomeIsTheTurns
  <2> QED BY <2>1, <2>2
<1> QED BY <1>1, <1>2, PTL DEF Spec

\* Whatever threads talk on the connection, and whenever: the status of a
\* capture that was not inferred is that of the command's own turn.
THEOREM OutcomeOfOwnTurn == Spec => []OutcomeIsTheTurns
<1>1. Inv => OutcomeIsTheTurns
  BY DEF Inv
<1> QED BY <1>1, Invariance, PTL

\* However connections fail, no command's turn runs twice.
THEOREM RetryRunsOneTurn == Spec => []RunsOneTurn
<1>1. Inv => RunsOneTurn
  BY DEF Inv, OneAttempt, RunsOneTurn
<1> QED BY <1>1, Invariance, PTL

-----------------------------------------------------------------------------
(* What the main thread does before its end is inferred *)

OfOwnTurn(m) == m.thread = Root /\ m.turn = Own
Opens(m, c) == m.kind = "item/started" /\ OfOwnTurn(m) /\ m.item = c
Closes(m, c) == m.kind = "item/completed" /\ OfOwnTurn(m) /\ m.item = c
Answers(m) == m.kind = "answer" /\ OfOwnTurn(m)

\* A collaboration that the main thread has opened waits in the capture, or in
\* the buffer, behind whatever has closed it before.
Tracked(c) ==
  \/ c \in capture.pendingCollaborations /\ \A i \in 1 .. Len(buffer) : ~Closes(buffer[i], c)
  \/ \E i \in 1 .. Len(buffer) :
       Opens(buffer[i], c) /\ \A j \in 1 .. Len(buffer) : j > i => ~Closes(buffer[j], c)
MainOpen == {c \in open : c[1] = Root}

AnswerIsSaid ==
  /\ capture.finalAnswerSeen => said
  /\ \A i \in 1 .. Len(buffer) : Answers(buffer[i]) => said
WorkIsTracked ==
  /\ main = "none" => MainOpen = {}
  /\ main = "running" /\ step \in Capturing => \A c \in MainOpen : Tracked(c)
CaptureFollows ==
  /\ Root \in capture.threadIds
  /\ step = "follow" => Len(buffer) = 0
  /\ capture.outcome = "inferred" => step = "done"

WorkInv == Inv /\ AnswerIsSaid /\ WorkIsTracked /\ CaptureFollows /\ InferredAfterMainWork

\* A notification changes what the capture waits for by its own collaboration.
Waits(c, m, d) ==
  /\ c.threadIds \subseteq d.threadIds
  /\ d.finalAnswerSeen => c.finalAnswerSeen \/ (m.kind = "answer" /\ m.thread = Root)
  /\ d.pendingCollaborations =
       IF m.kind = "item/started" /\ m.thread = Root THEN c.pendingCollaborations \cup {m.item}
       ELSE IF m.kind = "item/completed" /\ m.thread = Root THEN c.pendingCollaborations \ {m.item}
       ELSE c.pendingCollaborations

LEMMA ScheduleWaits ==
  ASSUME NEW c \in CaptureState
  PROVE  /\ Schedule(c).threadIds = c.threadIds
         /\ Schedule(c).finalAnswerSeen = c.finalAnswerSeen
         /\ Schedule(c).pendingCollaborations = c.pendingCollaborations
BY DEF Schedule, CaptureState

LEMMA CompleteWaits ==
  ASSUME NEW c \in CaptureState, NEW o
  PROVE  /\ Complete(c, o).threadIds = c.threadIds
         /\ Complete(c, o).finalAnswerSeen = c.finalAnswerSeen
         /\ Complete(c, o).pendingCollaborations = c.pendingCollaborations
BY DEF Complete, CaptureState

LEMMA RegisterWaits ==
  ASSUME NEW c \in CaptureState, NEW threads
  PROVE  /\ Register(c, threads).threadIds = c.threadIds \cup threads
         /\ Register(c, threads).finalAnswerSeen = c.finalAnswerSeen
         /\ Register(c, threads).pendingCollaborations = c.pendingCollaborations
BY DEF Register, CaptureState

LEMMA ApplyWaits ==
  ASSUME NEW c \in CaptureState, NEW m \in Message
  PROVE  Waits(c, m, Apply(c, m))
<1> USE DEF Waits
<1>1. CASE m.kind = "thread/started"
  <2>1. Apply(c, m) = Register(c, {m.thread})
    BY <1>1 DEF Apply
  <2> QED BY <1>1, <2>1, RegisterWaits
<1>2. CASE m.kind = "turn/started"
  <2> DEFINE r == Register(c, {m.thread})
  <2>1. {m.thread} \in SUBSET Thread
    BY <1>2 DEF Message
  <2>2. r \in CaptureState
    BY <2>1, RegisterEffect
  <2>3. Apply(c, m) = [r EXCEPT !.threadTurnIds[m.thread] = m.turn,
                                !.activeSubagentTurns = @ \cup ({m.thread} \ {Root})]
    BY <1>2 DEF Apply, TurnStarted
  <2>4. /\ r.threadIds = c.threadIds \cup {m.thread} /\ r.finalAnswerSeen = c.finalAnswerSeen
        /\ r.pendingCollaborations = c.pendingCollaborations
    BY RegisterWaits
  <2> HIDE DEF r
  <2>5. /\ Apply(c, m).threadIds = r.threadIds
        /\ Apply(c, m).finalAnswerSeen = r.finalAnswerSeen
        /\ Apply(c, m).pendingCollaborations = r.pendingCollaborations
    BY <2>2, <2>3 DEF CaptureState
  <2> QED BY <1>2, <2>4, <2>5
<1>3. CASE m.kind = "item/started"
  <2> DEFINE r == Register(c, m.receivers)
  <2>1. m.receivers \in SUBSET Thread
    BY <1>3 DEF Message, Thread
  <2>2. r \in CaptureState
    BY <2>1, RegisterEffect
  <2>3. Apply(c, m) =
          [r EXCEPT !.pendingCollaborations = IF m.thread = Root THEN @ \cup {m.item} ELSE @]
    BY <1>3 DEF Apply, CollabStarted
  <2>4. /\ r.threadIds = c.threadIds \cup m.receivers /\ r.finalAnswerSeen = c.finalAnswerSeen
        /\ r.pendingCollaborations = c.pendingCollaborations
    BY RegisterWaits
  <2> HIDE DEF r
  <2> QED BY <1>3, <2>2, <2>3, <2>4 DEF CaptureState
<1>4. CASE m.kind = "item/completed"
  <2> DEFINE d == [c EXCEPT !.pendingCollaborations = @ \ {m.item}]
             r == IF m.thread # Root THEN c ELSE Schedule(d)
  <2>1. /\ d \in CaptureState /\ d.threadIds = c.threadIds
        /\ d.finalAnswerSeen = c.finalAnswerSeen
        /\ d.pendingCollaborations = c.pendingCollaborations \ {m.item}
    BY DEF CaptureState
  <2>2. Apply(c, m) = Register(r, m.receivers)
    BY <1>4 DEF Apply, CollabCompleted
  <2> HIDE DEF d
  <2>3. /\ r \in CaptureState /\ r.threadIds = c.threadIds
        /\ r.finalAnswerSeen = c.finalAnswerSeen
        /\ r.pendingCollaborations =
             IF m.thread = Root THEN c.pendingCollaborations \ {m.item} ELSE c.pendingCollaborations
    BY <2>1, ScheduleWaits, ScheduleEffect
  <2> HIDE DEF r
  <2> QED BY <1>4, <2>2, <2>3, RegisterWaits
<1>5. CASE m.kind = "answer"
  <2> DEFINE d == [c EXCEPT !.finalAnswerSeen = TRUE]
  <2>1. /\ d \in CaptureState /\ d.threadIds = c.threadIds /\ d.finalAnswerSeen = TRUE
        /\ d.pendingCollaborations = c.pendingCollaborations
    BY DEF CaptureState
  <2>2. Apply(c, m) = IF m.thread # Root THEN c ELSE Schedule(d)
    BY <1>5 DEF Apply, FinalAnswer
  <2>3. c.finalAnswerSeen \in BOOLEAN
    BY DEF CaptureState
  <2> HIDE DEF d
  <2>4. CASE m.thread = Root
    BY <1>5, <2>1, <2>2, <2>4, ScheduleWaits
  <2>5. CASE m.thread # Root
    BY <1>5, <2>2, <2>3, <2>5
  <2> QED BY <2>4, <2>5
<1>6. CASE m.kind = "turn/completed"
  <2> DEFINE d == [c EXCEPT !.activeSubagentTurns = @ \ {m.thread}]
  <2>1. /\ d \in CaptureState /\ d.threadIds = c.threadIds
        /\ d.finalAnswerSeen = c.finalAnswerSeen
        /\ d.pendingCollaborations = c.pendingCollaborations
    BY DEF CaptureState
  <2>2. Apply(c, m) = IF m.thread = Root THEN Complete(c, m.status) ELSE Schedule(d)
    BY <1>6 DEF Apply, TurnCompleted
  <2> HIDE DEF d
  <2> QED BY <1>6, <2>1, <2>2, ScheduleWaits, CompleteWaits
<1> QED BY <1>1, <1>2, <1>3, <1>4, <1>5, <1>6 DEF Message

\* A capture that follows its own turn does not miss what the main thread
\* opens, and forgets no collaboration but the one that is closed.
LEMMA FollowWaits ==
  ASSUME NEW c \in CaptureState, NEW m \in Message,
         Root \in c.threadIds, c.threadTurnIds[Root] = Own,
         NEW d, d = Follow(c, m) \/ d = Replay(c, m)
  PROVE  /\ Root \in d.threadIds
         /\ d.finalAnswerSeen => c.finalAnswerSeen \/ Answers(m)
         /\ \A k : k \in c.pendingCollaborations /\ ~Closes(m, k) => k \in d.pendingCollaborations
         /\ \A k : Opens(m, k) => k \in d.pendingCollaborations
<1>1. m.kind # "thread/started" /\ m.thread = Root => (BelongsToTurn(c, m) <=> m.turn = Own)
  BY DEF BelongsToTurn, Own, NoTurn
<1>2. CASE d = c /\ (m.thread = Root => m.turn # Own)
  BY <1>2 DEF Opens, OfOwnTurn
<1>3. CASE d = c /\ m.kind = "thread/started"
  BY <1>3 DEF Opens
<1>4. CASE d = Apply(c, m) /\ (m.kind # "thread/started" /\ m.thread = Root => m.turn = Own)
  <2>1. Waits(c, m, d)
    BY <1>4, ApplyWaits
  <2> QED BY <1>4, <2>1 DEF Waits, Opens, Closes, Answers, OfOwnTurn
<1> QED BY <1>1, <1>2, <1>3, <1>4 DEF Follow, Replay, BelongsToTurn

LEMMA WorkInit == Init => WorkInv
<1> SUFFICES ASSUME Init PROVE WorkInv
  OBVIOUS
<1>1. /\ capture = NewCapture /\ Len(buffer) = 0 /\ open = {} /\ step = "connect"
      /\ main = "none"
  BY DEF Init
<1>2. capture.outcome = "none" /\ ~capture.finalAnswerSeen /\ Root \in capture.threadIds
  BY <1>1 DEF NewCapture
<1> QED
  BY <1>1, <1>2, InitInv
  DEF WorkInv, AnswerIsSaid, WorkIsTracked, CaptureFollows, InferredAfterMainWork, MainOpen

\* A step that changes nothing of the work, nor what is known of it.
LEMMA WorkQuiet ==
  ASSUME WorkInv, Inv', UNCHANGED <<buffer, main, said, open>>,
         capture'.threadIds = capture.threadIds,
         capture'.finalAnswerSeen = capture.finalAnswerSeen,
         capture'.pendingCollaborations = capture.pendingCollaborations,
         step' \in Capturing => step \in Capturing \/ main = "none",
         step' = "follow" => Len(buffer) = 0,
         capture'.outcome = "inferred" => step' = "done" /\ InferredAfterMainWork'
  PROVE  WorkInv'
<1>1. \A c \in MainOpen : Tracked(c) => Tracked(c)'
  BY DEF Tracked, Opens, Closes, OfOwnTurn
<1>2. MainOpen' = MainOpen
  BY DEF MainOpen
<1>3. WorkIsTracked'
  BY <1>1, <1>2 DEF WorkInv, WorkIsTracked
<1>4. AnswerIsSaid'
  BY DEF WorkInv, AnswerIsSaid, Answers, OfOwnTurn
<1>5. CaptureFollows' /\ InferredAfterMainWork'
  BY DEF WorkInv, CaptureFollows, InferredAfterMainWork
<1> QED BY <1>3, <1>4, <1>5 DEF WorkInv

\* A retry starts from nothing.
LEMMA WorkRetry == ASSUME WorkInv, Inv', Retry PROVE WorkInv'
<1>1. /\ capture' = NewCapture /\ Len(buffer') = 0 /\ open' = {} /\ step' = "connect"
      /\ main' = "none"
  BY DEF Retry, NewClient, NewServer
<1>2. capture'.outcome = "none" /\ ~capture'.finalAnswerSeen /\ Root \in capture'.threadIds
  BY <1>1 DEF NewCapture
<1>3. MainOpen' = {}
  BY <1>1 DEF MainOpen
<1> QED
  BY <1>1, <1>2, <1>3 DEF WorkInv, AnswerIsSaid, WorkIsTracked, CaptureFollows, InferredAfterMainWork

LEMMA WorkGiveUp ==
  ASSUME WorkInv, Inv', GiveUp, step # "done"
  PROVE  WorkInv'
<1>1. /\ capture'.threadIds = capture.threadIds /\ capture'.finalAnswerSeen = capture.finalAnswerSeen
      /\ capture'.pendingCollaborations = capture.pendingCollaborations
      /\ capture'.outcome = capture.outcome
  BY DEF GiveUp, WorkInv, Inv, TypeOK, CaptureState
<1> QED
  BY <1>1, WorkQuiet DEF GiveUp, server, subagents, WorkInv, CaptureFollows, Capturing

\* A notification that is read tells what the main thread has said, opened and
\* closed.
LEMMA WorkNotify ==
  ASSUME WorkInv, Inv', NEW m \in Message, Notify(m),
         said => said', Answers(m) => said',
         main' = "running" => main = "running",
         main' = "none" => MainOpen' = {},
         \A c \in MainOpen' : Opens(m, c) \/ (c \in MainOpen /\ ~Closes(m, c))
  PROVE  WorkInv'
<1> USE DEF WorkInv
<1>0. buffer \in Seq(Message) /\ Len(buffer) \in Nat /\ capture \in CaptureState
  BY DEF Inv, TypeOK
<1>1. step \in {"request", "follow"} /\ capture.outcome # "inferred"
  BY DEF Notify, CaptureFollows
<1>2. CASE step = "request" /\ buffer' = Append(buffer, m) /\ UNCHANGED <<step, capture>>
  <2>1. /\ Len(buffer') = Len(buffer) + 1 /\ buffer'[Len(buffer) + 1] = m
        /\ \A i \in 1 .. Len(buffer) : buffer'[i] = buffer[i]
        /\ \A i \in 1 .. (Len(buffer) + 1) : i \in 1 .. Len(buffer) \/ i = Len(buffer) + 1
    BY <1>0, <1>2
  <2>2. AnswerIsSaid'
    BY <1>0, <1>2, <2>1 DEF AnswerIsSaid, Answers, OfOwnTurn
  <2>3. ASSUME NEW c \in MainOpen', main' = "running" PROVE Tracked(c)'
    <3>1. CASE Opens(m, c)
      <4>1. /\ Len(buffer) + 1 \in 1 .. Len(buffer') /\ Opens(buffer'[Len(buffer) + 1], c)
            /\ \A j \in 1 .. Len(buffer') : ~(j > Len(buffer) + 1)
        BY <1>0, <2>1, <3>1
      <4> QED BY <4>1 DEF Tracked, Opens, Closes, OfOwnTurn
    <3>2. CASE c \in MainOpen /\ ~Closes(m, c)
      <4>1. Tracked(c)
        BY <1>1, <2>3, <3>2 DEF WorkIsTracked, Capturing
      <4>2. CASE c \in capture.pendingCollaborations /\ \A i \in 1 .. Len(buffer) : ~Closes(buffer[i], c)
        BY <1>2, <2>1, <3>2, <4>2 DEF Tracked, Closes, OfOwnTurn
      <4>3. CASE \E i \in 1 .. Len(buffer) :
                   Opens(buffer[i], c) /\ \A j \in 1 .. Len(buffer) : j > i => ~Closes(buffer[j], c)
        <5>1. PICK i \in 1 .. Len(buffer) :
                   Opens(buffer[i], c) /\ \A j \in 1 .. Len(buffer) : j > i => ~Closes(buffer[j], c)
          BY <4>3
        <5>2. i \in 1 .. Len(buffer') /\ Opens(buffer'[i], c)
          BY <1>0, <2>1, <5>1
        <5>3. \A j \in 1 .. Len(buffer') : j > i => ~Closes(buffer'[j], c)
          BY <2>1, <3>2, <5>1
        <5> QED BY <5>2, <5>3 DEF Tracked, Opens, Closes, OfOwnTurn
      <4> QED BY <4>1, <4>2, <4>3 DEF Tracked
    <3> QED BY <2>3, <3>1, <3>2
  <2>4. WorkIsTracked'
    BY <2>3 DEF WorkIsTracked
  <2>5. CaptureFollows' /\ InferredAfterMainWork'
    BY <1>1, <1>2 DEF CaptureFollows, InferredAfterMainWork
  <2> QED BY <2>2, <2>4, <2>5
<1>3. CASE step = "follow" /\ capture' = Follow(capture, m) /\ UNCHANGED buffer
  <2>1. Root \in capture.threadIds /\ capture.threadTurnIds[Root] = Own /\ Len(buffer) = 0
    BY <1>3 DEF CaptureFollows, Inv, FollowsOwn
  <2>2. /\ Root \in capture'.threadIds
        /\ capture'.finalAnswerSeen => capture.finalAnswerSeen \/ Answers(m)
        /\ \A k : k \in capture.pendingCollaborations /\ ~Closes(m, k) => k \in capture'.pendingCollaborations
        /\ \A k : Opens(m, k) => k \in capture'.pendingCollaborations
    BY <1>0, <1>3, <2>1, FollowWaits
  <2>3. capture'.outcome # "inferred"
    <3>1. capture'.outcome = capture.outcome \/ (OwnEnd(m) /\ capture'.outcome = m.status)
      BY <1>0, <1>3, <2>1, OnlyOwnTurnEnds DEF OwnEnd
    <3>2. OwnEnd(m) => m.status \in Status
      BY DEF OwnEnd, Message
    <3> QED BY <1>1, <3>1, <3>2 DEF Status
  <2>4. AnswerIsSaid'
    BY <1>3, <2>1, <2>2 DEF AnswerIsSaid
  <2>5. ASSUME NEW c \in MainOpen', main' = "running" PROVE Tracked(c)'
    <3>1. c \in MainOpen /\ ~Opens(m, c) => c \in capture.pendingCollaborations
      BY <1>3, <2>1, <2>5 DEF WorkIsTracked, Capturing, Tracked
    <3>2. c \in capture'.pendingCollaborations
      BY <2>2, <2>5, <3>1
    <3> QED BY <1>3, <2>1, <3>2 DEF Tracked
  <2>6. WorkIsTracked'
    BY <2>5 DEF WorkIsTracked
  <2> QED BY <1>3, <2>1, <2>2, <2>3, <2>4, <2>6 DEF CaptureFollows, InferredAfterMainWork
<1> QED BY <1>2, <1>3 DEF Notify

LEMMA WorkClientStep == ASSUME WorkInv, ClientStep PROVE WorkInv'
<1>0. Inv'
  BY ClientStepInv DEF WorkInv
<1> USE <1>0 DEF server, subagents
<1>f. ASSUME NEW error, Fail(error), step # "done" PROVE WorkInv'
  BY <1>f, WorkRetry, WorkGiveUp DEF Fail
<1>1. CASE Connect
  BY <1>1, WorkQuiet DEF Connect, WorkInv, CaptureFollows, Capturing
<1>2. CASE ConnectFailed
  BY <1>2, WorkRetry, WorkGiveUp DEF ConnectFailed
<1>3. CASE ThreadReady
  <2>1. main = "none" /\ step' \in {"name", "request"}
    BY <1>3 DEF ThreadReady, WorkInv, Inv, OneAttempt, Connecting
  <2> QED BY <1>3, <2>1, WorkQuiet DEF ThreadReady, WorkInv, CaptureFollows
<1>4. CASE RequestFailed
  <2>1. \E error \in {"busy", "other"} : Fail(error)
    BY <1>4 DEF RequestFailed
  <2>2. step # "done"
    BY <1>4 DEF RequestFailed
  <2> QED BY <1>f, <2>1, <2>2
<1>5. CASE ConnectionLost
  <2>1. step # "done" /\ (Fail("lost") \/ UNCHANGED <<client, server>>)
    BY <1>5 DEF ConnectionLost, Capturing
  <2>2. CASE UNCHANGED <<client, server>>
    BY <2>1, <2>2, WorkQuiet DEF client, WorkInv, CaptureFollows
  <2> QED BY <1>f, <2>1, <2>2
<1>6. CASE Continue
  <2>1. /\ capture'.threadIds = capture.threadIds /\ capture'.finalAnswerSeen = capture.finalAnswerSeen
        /\ capture'.pendingCollaborations = capture.pendingCollaborations
        /\ capture'.outcome = capture.outcome
    BY <1>6 DEF Continue, WorkInv, Inv, TypeOK, CaptureState
  <2> QED BY <1>6, <2>1, WorkQuiet DEF Continue, WorkInv, CaptureFollows, Capturing
<1>7. CASE ReplayNext
  <2> DEFINE m == Head(buffer)
  <2>0. /\ buffer \in Seq(Message) /\ capture \in CaptureState /\ Len(buffer) \in Nat
        /\ capture.threadTurnIds[Root] = Own /\ Root \in capture.threadIds
        /\ capture' = Replay(capture, m) /\ step = "replay" /\ step' = "replay"
        /\ UNCHANGED <<main, said, open>> /\ capture.outcome # "inferred"
    BY <1>7 DEF ReplayNext, WorkInv, Inv, TypeOK, FollowsOwn, Replaying, CaptureFollows
  <2>1. /\ m \in Message /\ m = buffer[1] /\ 1 \in 1 .. Len(buffer)
        /\ Len(buffer') = Len(buffer) - 1
        /\ \A i \in 1 .. Len(buffer') : i + 1 \in 1 .. Len(buffer) /\ buffer'[i] = buffer[i + 1]
    BY <1>7, <2>0 DEF ReplayNext
  <2>2. /\ Root \in capture'.threadIds
        /\ capture'.finalAnswerSeen => capture.finalAnswerSeen \/ Answers(m)
        /\ \A k : k \in capture.pendingCollaborations /\ ~Closes(m, k) => k \in capture'.pendingCollaborations
        /\ \A k : Opens(m, k) => k \in capture'.pendingCollaborations
    BY <2>0, <2>1, FollowWaits
  <2>3. capture'.outcome # "inferred"
    <3>1. capture'.outcome = capture.outcome \/ (OwnEnd(m) /\ capture'.outcome = m.status)
      BY <2>0, <2>1, OnlyOwnTurnEnds DEF OwnEnd
    <3>2. OwnEnd(m) => m.status \in Status
      BY <2>1 DEF OwnEnd, Message
    <3> QED BY <2>0, <3>1, <3>2 DEF Status
  <2> HIDE DEF m
  <2>4. AnswerIsSaid'
    <3>1. Answers(m) => said
      BY <2>1 DEF WorkInv, AnswerIsSaid
    <3>2. \A i \in 1 .. Len(buffer') : Answers(buffer'[i]) => said
      BY <2>1 DEF WorkInv, AnswerIsSaid
    <3>3. capture.finalAnswerSeen => said
      BY DEF WorkInv, AnswerIsSaid
    <3> QED BY <2>0, <2>2, <3>1, <3>2, <3>3 DEF AnswerIsSaid, Answers, OfOwnTurn
  <2>5. ASSUME NEW c \in MainOpen, main = "running" PROVE Tracked(c)'
    <3>1. Tracked(c)
      BY <2>0, <2>5 DEF WorkInv, WorkIsTracked, Capturing
    <3>2. CASE c \in capture.pendingCollaborations /\ \A i \in 1 .. Len(buffer) : ~Closes(buffer[i], c)
      <4>1. c \in capture'.pendingCollaborations
        BY <2>1, <2>2, <3>2
      <4>2. \A i \in 1 .. Len(buffer') : ~Closes(buffer'[i], c)
        BY <2>1, <3>2
      <4> QED BY <4>1, <4>2 DEF Tracked, Closes, OfOwnTurn
    <3>3. CASE \E i \in 1 .. Len(buffer) :
                 Opens(buffer[i], c) /\ \A j \in 1 .. Len(buffer) : j > i => ~Closes(buffer[j], c)
      <4>1. PICK i \in 1 .. Len(buffer) :
                 Opens(buffer[i], c) /\ \A j \in 1 .. Len(buffer) : j > i => ~Closes(buffer[j], c)
        BY <3>3
      <4>2. CASE i = 1
        <5>1. c \in capture'.pendingCollaborations
          BY <2>1, <2>2, <4>1, <4>2
        <5>2. \A j \in 1 .. Len(buffer') : ~Closes(buffer'[j], c)
          <6> SUFFICES ASSUME NEW j \in 1 .. Len(buffer') PROVE ~Closes(buffer'[j], c)
            OBVIOUS
          <6>1. j + 1 > i
            BY <2>0, <2>1, <4>2
          <6> QED BY <2>1, <4>1, <6>1
        <5> QED BY <5>1, <5>2 DEF Tracked, Closes, OfOwnTurn
      <4>3. CASE i # 1
        <5>1. i - 1 \in 1 .. Len(buffer') /\ (i - 1) + 1 = i
          BY <2>0, <2>1, <4>3
        <5>2. Opens(buffer'[i - 1], c)
          BY <2>1, <4>1, <5>1
        <5>3. \A j \in 1 .. Len(buffer') : j > i - 1 => ~Closes(buffer'[j], c)
          <6> SUFFICES ASSUME NEW j \in 1 .. Len(buffer'), j > i - 1 PROVE ~Closes(buffer'[j], c)
            OBVIOUS
          <6>1. j + 1 > i
            BY <2>0, <2>1
          <6> QED BY <2>1, <4>1, <6>1
        <5> QED BY <5>1, <5>2, <5>3 DEF Tracked, Opens, Closes, OfOwnTurn
      <4> QED BY <4>2, <4>3
    <3> QED BY <3>1, <3>2, <3>3 DEF Tracked
  <2>6. WorkIsTracked'
    BY <2>0, <2>5 DEF WorkInv, WorkIsTracked, MainOpen
  <2> QED BY <2>0, <2>2, <2>3, <2>4, <2>6 DEF WorkInv, CaptureFollows, InferredAfterMainWork
<1>8. CASE EndReplay
  <2>1. /\ capture'.threadIds = capture.threadIds /\ capture'.finalAnswerSeen = capture.finalAnswerSeen
        /\ capture'.pendingCollaborations = capture.pendingCollaborations
        /\ capture'.outcome # "inferred"
    <3>1. capture \in CaptureState /\ capture.outcome # "inferred" /\ response # "inferred"
      BY <1>8 DEF EndReplay, Replaying, WorkInv, Inv, TypeOK, CaptureFollows, Status
    <3>2. Complete(capture, response).outcome \in {response, capture.outcome}
      BY <3>1 DEF Complete, CaptureState
    <3> QED BY <1>8, <3>1, <3>2, CompleteWaits DEF EndReplay
  <2>2. Len(buffer) = 0 /\ step \in Capturing
    BY <1>8 DEF EndReplay, Replaying, Capturing
  <2> QED BY <1>8, <2>1, <2>2, WorkQuiet DEF EndReplay
<1>9. CASE TimerFires
  <2> DEFINE d == [capture EXCEPT !.completionTimer = FALSE]
  <2>1. /\ d \in CaptureState /\ d.outcome = capture.outcome /\ d.threadIds = capture.threadIds
        /\ d.finalAnswerSeen = capture.finalAnswerSeen
        /\ d.pendingCollaborations = capture.pendingCollaborations
    BY DEF WorkInv, Inv, TypeOK, CaptureState
  <2>2. /\ capture' = IF MayInfer(d) THEN Complete(d, "inferred") ELSE d
        /\ step' = IF MayInfer(d) THEN "done" ELSE step
        /\ step = "follow" /\ UNCHANGED <<buffer, main, said, open>>
    BY <1>9 DEF TimerFires
  <2> HIDE DEF d
  <2>3. /\ capture'.threadIds = capture.threadIds /\ capture'.finalAnswerSeen = capture.finalAnswerSeen
        /\ capture'.pendingCollaborations = capture.pendingCollaborations
    BY <2>1, <2>2, CompleteWaits
  <2>4. Len(buffer) = 0 /\ capture.outcome # "inferred"
    BY <2>2 DEF WorkInv, CaptureFollows
  <2>5. CASE MayInfer(d)
    <3>1. said
      BY <2>1, <2>5 DEF MayInfer, WorkInv, AnswerIsSaid
    <3>2. main = "running" => MainOpen = {}
      BY <2>1, <2>2, <2>4, <2>5 DEF MayInfer, WorkInv, WorkIsTracked, Tracked, Capturing
    <3>3. InferredAfterMainWork'
      BY <2>2, <3>1, <3>2 DEF InferredAfterMainWork, MainOpen
    <3> QED BY <2>2, <2>3, <2>4, <2>5, <3>3, WorkQuiet DEF Capturing
  <2>6. CASE ~MayInfer(d)
    BY <2>1, <2>2, <2>3, <2>4, <2>6, WorkQuiet
  <2> QED BY <2>5, <2>6
<1> QED
  BY <1>1, <1>2, <1>3, <1>4, <1>5, <1>6, <1>7, <1>8, <1>9 DEF ClientStep

\* What other threads do tells nothing of the main thread's work; what the main
\* thread opens and closes is told by its own notifications.
LEMMA OthersTell ==
  ASSUME TypeOK, OtherStep
  PROVE  \E m \in Message :
           /\ Notify(m) /\ ~Answers(m)
           /\ \A c \in MainOpen' : Opens(m, c) \/ (c \in MainOpen /\ ~Closes(m, c))
<1> DEFINE Tells(m) == \A c \in MainOpen' : Opens(m, c) \/ (c \in MainOpen /\ ~Closes(m, c))
<1>1. ASSUME NEW t \in Other, ThreadStarted(t) \/ BeginTurn(t) \/ OtherAnswers(t) \/ EndTurn(t)
      PROVE  \E m \in Message : Notify(m) /\ ~Answers(m) /\ Tells(m)
  <2>1. t \in Thread /\ t # Root /\ count[t] \in Turn /\ count[t] \in 0 .. MaxTurns
    BY DEF Thread, Other, TypeOK, Turn
  <2>2. MainOpen' \subseteq MainOpen
    BY <1>1 DEF ThreadStarted, BeginTurn, OtherAnswers, EndTurn, MainOpen, server, subagents
  <2>3. ASSUME NEW m \in Message, m.thread = t PROVE ~Answers(m) /\ Tells(m)
    BY <2>1, <2>2, <2>3 DEF Answers, Closes, OfOwnTurn
  <2>4. CASE ThreadStarted(t)
    <3>1. [kind |-> "thread/started", thread |-> t] \in Message
      BY DEF Message
    <3> QED BY <2>3, <2>4, <3>1 DEF ThreadStarted
  <2>5. CASE BeginTurn(t)
    <3>1. count[t] + 1 \in Turn
      BY <2>1, <2>5 DEF BeginTurn, Turn
    <3>2. [kind |-> "turn/started", thread |-> t, turn |-> count[t] + 1] \in Message
      BY <2>1, <3>1 DEF Message
    <3> QED BY <2>3, <2>5, <3>2 DEF BeginTurn
  <2>6. CASE OtherAnswers(t)
    <3>1. [kind |-> "answer", thread |-> t, turn |-> count[t]] \in Message
      BY <2>1 DEF Message
    <3> QED BY <2>3, <2>6, <3>1 DEF OtherAnswers
  <2>7. CASE EndTurn(t)
    <3>1. [kind |-> "turn/completed", thread |-> t, turn |-> count[t], status |-> "completed"]
            \in Message
      BY <2>1 DEF Message, Status
    <3> QED BY <2>3, <2>7, <3>1 DEF EndTurn
  <2> QED BY <1>1, <2>4, <2>5, <2>6, <2>7
<1>2. ASSUME NEW k \in Collab, OpenCollab(k[1], k[2]) \/ CloseCollab(k[1], k[2])
      PROVE  \E m \in Message : Notify(m) /\ ~Answers(m) /\ Tells(m)
  <2>1. k[1] \in Thread /\ k[2] \in Other /\ k = <<k[1], k[2]>>
    BY DEF Collab
  <2>2. TurnOf(k[1]) \in Turn /\ (k[1] = Root => TurnOf(k[1]) = Own)
    BY <2>1 DEF TurnOf, Thread, TypeOK, Turn, Own
  <2>3. CASE OpenCollab(k[1], k[2])
    <3>1. PICK receivers \in SUBSET Other :
            Notify([kind |-> "item/started", thread |-> k[1], turn |-> TurnOf(k[1]),
                    item |-> <<k[1], k[2]>>, receivers |-> receivers])
      BY <2>1, <2>3 DEF OpenCollab
    <3> DEFINE m == [kind |-> "item/started", thread |-> k[1], turn |-> TurnOf(k[1]),
                     item |-> <<k[1], k[2]>>, receivers |-> receivers]
    <3>2. m \in Message
      BY <2>1, <2>2 DEF Message
    <3>3. open' = open \cup {k}
      BY <2>1, <2>3 DEF OpenCollab
    <3>4. Tells(m)
      BY <2>1, <2>2, <3>3 DEF MainOpen, Opens, Closes, OfOwnTurn
    <3> QED BY <3>1, <3>2, <3>4 DEF Answers
  <2>4. CASE CloseCollab(k[1], k[2])
    <3> DEFINE m == [kind |-> "item/completed", thread |-> k[1], turn |-> TurnOf(k[1]),
                     item |-> <<k[1], k[2]>>, receivers |-> {k[2]}]
    <3>1. m \in Message
      BY <2>1, <2>2 DEF Message
    <3>2. open' = open \ {k} /\ Notify(m)
      BY <2>1, <2>4 DEF CloseCollab
    <3>3. Tells(m)
      BY <2>1, <3>2 DEF MainOpen, Closes
    <3> QED BY <3>1, <3>2, <3>3 DEF Answers
  <2> QED BY <1>2, <2>3, <2>4
<1> QED BY <1>1, <1>2 DEF OtherStep

\* Nothing is open for the main thread before its turn.
LEMMA OthersOpenNothingEarly ==
  ASSUME OtherStep, main = "none", MainOpen = {}
  PROVE  MainOpen' = {}
<1>1. CASE \E t \in Other : ThreadStarted(t) \/ BeginTurn(t) \/ OtherAnswers(t) \/ EndTurn(t)
  BY <1>1 DEF ThreadStarted, BeginTurn, OtherAnswers, EndTurn, MainOpen, server, subagents
<1>2. CASE \E k \in Collab : OpenCollab(k[1], k[2]) \/ CloseCollab(k[1], k[2])
  BY <1>2 DEF OpenCollab, CloseCollab, InTurn, MainOpen
<1> QED BY <1>1, <1>2 DEF OtherStep

LEMMA WorkServerStep == ASSUME WorkInv, MainStep \/ OtherStep PROVE WorkInv'
<1>0. Inv'
  BY ServerStepInv DEF WorkInv
<1>t. TypeOK
  BY DEF WorkInv, Inv
<1> USE <1>0 DEF server, subagents, client
<1>1. CASE Accept
  <2>1. /\ main = "none" /\ main' = "running" /\ step = "request"
        /\ UNCHANGED <<step, buffer, capture, said, open>>
    BY <1>1 DEF Accept
  <2>2. MainOpen = {} /\ capture.outcome # "inferred"
    BY <2>1 DEF WorkInv, WorkIsTracked, CaptureFollows
  <2>3. MainOpen' = {}
    BY <2>1, <2>2 DEF MainOpen
  <2>4. AnswerIsSaid' /\ CaptureFollows' /\ InferredAfterMainWork'
    BY <2>1, <2>2 DEF WorkInv, AnswerIsSaid, Answers, OfOwnTurn, CaptureFollows, InferredAfterMainWork
  <2>5. WorkIsTracked'
    BY <2>1, <2>3 DEF WorkIsTracked
  <2> QED BY <2>4, <2>5 DEF WorkInv
<1>2. CASE Respond
  BY <1>2, WorkQuiet DEF Respond, WorkInv, CaptureFollows
<1>3. ASSUME NEW m \in Message, Notify(m), m.kind \notin {"item/started", "item/completed"},
             open' = open, said => said', Answers(m) => said', main # "none",
             main' = main \/ main' \in Status
      PROVE  WorkInv'
  <2>1. MainOpen' = MainOpen
    BY <1>3 DEF MainOpen
  <2>2. main' # "none" /\ (main' = "running" => main = "running")
    BY <1>3 DEF Status
  <2>3. \A c \in MainOpen' : Opens(m, c) \/ (c \in MainOpen /\ ~Closes(m, c))
    BY <1>3, <2>1 DEF Closes
  <2> QED BY <1>3, <2>2, <2>3, WorkNotify
<1>4. CASE MainStarted
  <2>1. [kind |-> "turn/started", thread |-> Root, turn |-> Own] \in Message
    BY DEF Message, Thread, Turn, Own
  <2> QED BY <1>3, <1>4, <2>1 DEF MainStarted, Answers
<1>5. CASE MainAnswers
  <2>1. [kind |-> "answer", thread |-> Root, turn |-> Own] \in Message
    BY DEF Message, Thread, Turn, Own
  <2> QED BY <1>3, <1>5, <2>1 DEF MainAnswers
<1>6. CASE MainCompleted
  <2>1. PICK status \in Status :
          /\ main' = status
          /\ Notify([kind |-> "turn/completed", thread |-> Root, turn |-> Own, status |-> status])
    BY <1>6 DEF MainCompleted
  <2>2. [kind |-> "turn/completed", thread |-> Root, turn |-> Own, status |-> status] \in Message
    BY DEF Message, Thread, Turn, Own
  <2> QED BY <1>3, <1>6, <2>1, <2>2 DEF MainCompleted, Answers
<1>7. CASE EarlierMessage
  <2>1. PICK m \in Message :
          /\ Notify(m) /\ m.kind \notin {"item/started", "item/completed"} /\ ~Answers(m)
    <3>1. [kind |-> "answer", thread |-> Root, turn |-> Earlier] \in Message
      BY DEF Message, Thread, Turn, Earlier
    <3>2. \A status \in Status :
            [kind |-> "turn/completed", thread |-> Root, turn |-> Earlier, status |-> status] \in Message
      BY DEF Message, Thread, Turn, Earlier
    <3>3. CASE Notify([kind |-> "answer", thread |-> Root, turn |-> Earlier])
      <4>1. ~Answers([kind |-> "answer", thread |-> Root, turn |-> Earlier])
        BY DEF Answers, OfOwnTurn, Earlier, Own
      <4> QED BY <3>1, <3>3, <4>1
    <3>4. ASSUME NEW status \in Status,
                 Notify([kind |-> "turn/completed", thread |-> Root, turn |-> Earlier,
                         status |-> status])
          PROVE  \E m \in Message :
                   /\ Notify(m) /\ m.kind \notin {"item/started", "item/completed"} /\ ~Answers(m)
      BY <3>2, <3>4 DEF Answers
    <3> QED BY <1>7, <3>3, <3>4 DEF EarlierMessage
  <2>2. UNCHANGED <<main, said, open>>
    BY <1>7 DEF EarlierMessage
  <2>3. MainOpen' = MainOpen
    BY <2>2 DEF MainOpen
  <2>4. main' = "none" => MainOpen' = {}
    BY <2>2, <2>3 DEF WorkInv, WorkIsTracked
  <2>5. \A c \in MainOpen' : c \in MainOpen /\ ~Closes(m, c)
    BY <2>1, <2>3 DEF Closes
  <2> QED BY <2>1, <2>2, <2>4, <2>5, WorkNotify
<1>8. CASE OtherStep
  <2>1. PICK m \in Message :
           /\ Notify(m) /\ ~Answers(m)
           /\ \A c \in MainOpen' : Opens(m, c) \/ (c \in MainOpen /\ ~Closes(m, c))
    BY <1>8, <1>t, OthersTell
  <2>2. UNCHANGED <<main, said>>
    BY <1>8, <1>t, OtherTypes
  <2>3. main' = "none" => MainOpen' = {}
    BY <1>8, <2>2, OthersOpenNothingEarly DEF WorkInv, WorkIsTracked
  <2> QED BY <2>1, <2>2, <2>3, WorkNotify
<1> QED
  BY <1>1, <1>2, <1>4, <1>5, <1>6, <1>7, <1>8 DEF MainStep

\* The invariant behind the inference.
THEOREM WorkInvariance == Spec => []WorkInv
<1>1. Init => WorkInv
  BY WorkInit
<1>2. WorkInv /\ [Next]_vars => WorkInv'
  <2>1. WorkInv /\ Next => WorkInv'
    BY WorkClientStep, WorkServerStep DEF Next
  <2>2. WorkInv /\ UNCHANGED vars => WorkInv'
    <3> SUFFICES ASSUME WorkInv, UNCHANGED vars PROVE WorkInv'
      OBVIOUS
    <3>1. Inv'
      BY DEF vars, client, server, subagents, WorkInv, Inv, TypeOK, BufferTells, ResponseTells,
             FollowsOwn, Replaying, OneAttempt, OutcomeIsTheTurns
    <3> QED BY <3>1, WorkQuiet DEF vars, client, server, subagents, WorkInv, CaptureFollows, InferredAfterMainWork
  <2> QED BY <2>1, <2>2
<1> QED BY <1>1, <1>2, PTL DEF Spec

\* Whenever notifications and the answer to turn/start come, and whatever other
\* threads say: the end of a capture is inferred after the main thread's final
\* answer, with none of its collaborations in progress.
THEOREM InfersAfterMainWork == Spec => []InferredAfterMainWork
<1>1. WorkInv => InferredAfterMainWork
  BY DEF WorkInv
<1> QED BY <1>1, WorkInvariance, PTL
=============================================================================
