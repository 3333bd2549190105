---------------------------- MODULE Broker_proofs ----------------------------
(***************************************************************************)
(* Theorems about Broker, for any number of clients that run or interrupt   *)
(* turns.  The types hold whoever dies when; the rest is proved for clients *)
(* that do not die while their turn/start is in flight (Abrupt is empty),   *)
(* without which it is false: the run broker_abrupt.                        *)
(***************************************************************************)
EXTENDS Broker, SequenceTheorems, TLAPS

\* The answers that wait to be continued with.
Answers == {ready[i] : i \in DOMAIN ready}

\* A request of s is at the app server, or its answer waits.
InFlight(s, method) ==
  forwarded[s] = method \/ \E a \in Answers : a.socket = s /\ a.method = method
Pending(s) == inbox[s] # NoRequest \/ \E method \in Method \cup {Aside} : InFlight(s, method)

\* A request of a socket is in one place: unread, at the app server, or answered.
OnePlace ==
  /\ \A s \in Client :
       /\ inbox[s] # NoRequest => forwarded[s] = NoRequest
       /\ inbox[s] # NoRequest \/ forwarded[s] # NoRequest => \A a \in Answers : a.socket # s
  /\ \A i, j \in DOMAIN ready : ready[i].socket = ready[j].socket => i = j

\* What a client does, what its connection is and what it has sent agree.
ClientsAgree ==
  \A s \in Client :
    /\ Pending(s) => client[s] \in Method \/ (conn[s] # "open" /\ ToldOff(s))
    /\ client[s] = Streaming => conn[s] = "open"
    /\ conn[s] = "none" => client[s] = "idle"
    /\ inbox[s] # NoRequest => conn[s] \in {"open", "ended"}
    /\ (inbox[s] = Streaming \/ InFlight(s, Streaming)) <=> client[s] = Streaming

\* activeRequestSocket is the socket whose request is in flight, unless that
\* passed aside or the socket is closed.
RequestOwner ==
  \A s \in Client :
    requestOf = s <=> (conn[s] # "closed" /\ \E method \in Method : InFlight(s, method))

\* activeStreamSocket is a socket that waits for nothing else, and while there
\* is one there is no activeRequestSocket.
StreamOwner ==
  /\ streamOf # Nobody => requestOf = Nobody
  /\ \A s \in Client :
       streamOf = s => ~Pending(s) /\ client[s] \in {"turn", "finished"} /\ conn[s] # "closed"

\* A client in its turn has the stream, the turn runs, and no other runs on its
\* thread, unless its turn began during one; a client whose answer waits will be
\* told of the end, or has been.
TurnOwner ==
  /\ \A s \in Client : InTurn(s) => conn[s] = "open"
  /\ \A s \in Client \ doubled : InTurn(s) => streamOf = s /\ s \in live /\ ~InTurnAlready(s)
  /\ \A a \in Answers : a.ok /\ a.method = Streaming =>
       /\ a.socket \in live \cup completedSeen
       /\ a.socket \in live \ doubled => ~InTurnAlready(a.socket)

Inv == TypeOK /\ OnePlace /\ ClientsAgree /\ RequestOwner /\ StreamOwner /\ TurnOwner

-----------------------------------------------------------------------------
(* Type correctness *)

\* What an answer is.
LEMMA AnswerTypes ==
  ASSUME TypeOK, NEW a \in Answers
  PROVE  a \in [socket : Client, method : Method \cup {Aside}, ok : BOOLEAN]
<1>1. PICK i \in DOMAIN ready : a = ready[i]
  BY DEF Answers
<1>2. i \in 1 .. Len(ready)
  BY LenProperties DEF TypeOK
<1> QED BY <1>1, <1>2, ElementOfSeq DEF TypeOK

\* The first answer is one.
LEMMA FirstAnswer ==
  ASSUME TypeOK, ready # << >>
  PROVE  Head(ready) \in [socket : Client, method : Method \cup {Aside}, ok : BOOLEAN]
BY HeadTailProperties DEF TypeOK

LEMMA TypeStep == TypeOK /\ [Next]_vars => TypeOK'
<1> SUFFICES ASSUME TypeOK, [Next]_vars PROVE TypeOK'
  OBVIOUS
<1> USE DEF TypeOK, Method, Streaming, Plain, Interrupt, NoRequest, Aside
<1>1. ASSUME NEW s \in Client, NEW outcome, Answer(s, outcome)
      PROVE  client' \in [Client -> {"idle", "turn", "refused", "failed", "finished"} \cup Method]
  BY <1>1 DEF Answer
<1>2. ASSUME NEW th, EndStream(th)
      PROVE  requestOf' \in Client \cup {Nobody} /\ streamOf' \in Client \cup {Nobody}
  BY <1>2 DEF EndStream, owners
<1>3. ASSUME NEW s \in Client, Connect(s) PROVE TypeOK'
  BY <1>3 DEF Connect, owners, server, history
<1>4. ASSUME NEW s \in Client, Send(s) PROVE TypeOK'
  BY <1>4, BrokerAssumption DEF Send, Methods, owners, server, history
<1>5. ASSUME NEW s \in Client, End(s) PROVE TypeOK'
  BY <1>5 DEF End, owners, server, history
<1>6. ASSUME NEW s \in Client, Refuse(s) PROVE TypeOK'
  BY <1>1, <1>6 DEF Refuse, owners, server, history
<1>7. ASSUME NEW s \in Client, Forward(s) PROVE TypeOK'
  <2>1. PICK m \in {Aside, inbox[s]} : forwarded' = [forwarded EXCEPT ![s] = m]
    BY <1>7 DEF Forward
  <2>2. m \in Method \cup {Aside} /\ (s \in Interrupter => m # Streaming)
    BY <1>7, <2>1 DEF Forward
  <2>3. \A t \in Interrupter : Streaming \notin {inbox'[t], forwarded'[t]}
    BY <1>7, <2>1, <2>2 DEF Forward, Client
  <2> QED BY <1>7, <2>1, <2>2, <2>3 DEF Forward, history
<1>8. ASSUME NEW s \in Client, CloseEvent(s) PROVE TypeOK'
  BY <1>8 DEF CloseEvent, server, history
<1>9. ASSUME NEW s \in Client, Respond(s) PROVE TypeOK'
  <2>1. PICK ok \in BOOLEAN :
          /\ ready' = Append(ready, [socket |-> s, method |-> forwarded[s], ok |-> ok])
          /\ live' = IF ok /\ forwarded[s] = Streaming THEN live \cup {s} ELSE live
          /\ doubled' = IF ok /\ forwarded[s] = Streaming /\ InTurnAlready(s)
                        THEN doubled \cup {s} ELSE doubled
    BY <1>9 DEF Respond
  <2>2. [socket |-> s, method |-> forwarded[s], ok |-> ok]
          \in [socket : Client, method : Method \cup {Aside}, ok : BOOLEAN]
    BY <1>9 DEF Respond
  <2>3. ready' \in Seq([socket : Client, method : Method \cup {Aside}, ok : BOOLEAN])
    BY <2>1, <2>2, AppendProperties
  <2>4. live' \subseteq Runner /\ doubled' \subseteq Runner
    BY <2>1 DEF Client
  <2> QED BY <1>9, <2>3, <2>4 DEF Respond, owners
<1>10. CASE Continue
  <2>1. Head(ready).socket \in Client
    BY <1>10, FirstAnswer DEF Continue
  <2>2. ready' \in Seq([socket : Client, method : Method \cup {Aside}, ok : BOOLEAN])
    BY <1>10, HeadTailProperties DEF Continue
  <2>3. client' \in [Client -> {"idle", "turn", "refused", "failed", "finished"} \cup Method]
    BY <1>1, <1>10, <2>1 DEF Continue
  <2> QED BY <1>10, <2>1, <2>2, <2>3 DEF Continue, owners, server, history
<1>11. ASSUME NEW s \in Client, TurnCompleted(s) PROVE TypeOK'
  <2>1. /\ client' \in [Client -> {"idle", "turn", "refused", "failed", "finished"} \cup Method]
        /\ completedSeen' \subseteq Client
    BY <1>11 DEF TurnCompleted, Deliver
  <2> QED BY <1>2, <1>11, <2>1 DEF TurnCompleted, history
<1>12. CASE SubagentCompleted
  BY <1>2, <1>12 DEF SubagentCompleted, server, history
<1>13. CASE UNCHANGED vars
  BY <1>13 DEF vars, owners, server, history
<1> QED BY <1>3, <1>4, <1>5, <1>6, <1>7, <1>8, <1>9, <1>10, <1>11, <1>12, <1>13 DEF Next, HandleData

\* The variables keep their types, whoever dies when.
THEOREM TypeCorrect == Spec => []TypeOK
<1>1. Init => TypeOK
  BY EmptySeq DEF Init, TypeOK, Client, Streaming, NoRequest
<1> QED BY <1>1, TypeStep, PTL DEF Spec

-----------------------------------------------------------------------------
(* The invariant *)

\* The answer read last comes last.
LEMMA ReadAnswer ==
  ASSUME TypeOK, OnePlace, NEW a, ready' = Append(ready, a), \A b \in Answers : b.socket # a.socket
  PROVE  /\ Answers' = Answers \cup {a}
         /\ \A i, j \in DOMAIN ready' : ready'[i].socket = ready'[j].socket => i = j
<1>1. /\ Len(ready) \in Nat /\ DOMAIN ready = 1 .. Len(ready)
      /\ DOMAIN ready' = 1 .. Len(ready) + 1
      /\ \A i \in 1 .. Len(ready) : ready'[i] = ready[i]
      /\ ready'[Len(ready) + 1] = a
  BY LenProperties, AppendProperties DEF TypeOK
<1> QED BY <1>1 DEF Answers, OnePlace

\* The handler that goes on takes the first, which is the only one of its
\* socket.
LEMMA TakeAnswer ==
  ASSUME TypeOK, OnePlace, ready # << >>, ready' = Tail(ready)
  PROVE  /\ Head(ready) \in Answers
         /\ Head(ready) \in [socket : Client, method : Method \cup {Aside}, ok : BOOLEAN]
         /\ Answers' = {a \in Answers : a.socket # Head(ready).socket}
         /\ \A i, j \in DOMAIN ready' : ready'[i].socket = ready'[j].socket => i = j
<1>1. /\ Len(ready) \in Nat /\ Len(ready) > 0 /\ DOMAIN ready = 1 .. Len(ready)
      /\ Head(ready) = ready[1]
      /\ DOMAIN ready' = 1 .. Len(ready) - 1
      /\ \A i \in 1 .. Len(ready) - 1 : ready'[i] = ready[i + 1]
  BY LenProperties, HeadTailProperties, EmptySeq DEF TypeOK
<1>2. Head(ready) \in Answers
  BY <1>1 DEF Answers
<1>3. Head(ready) \in [socket : Client, method : Method \cup {Aside}, ok : BOOLEAN]
  BY FirstAnswer
<1>4. ASSUME NEW a \in Answers' PROVE a \in Answers /\ a.socket # Head(ready).socket
  <2>1. PICK i \in 1 .. Len(ready) - 1 : a = ready'[i]
    BY <1>1, <1>4 DEF Answers
  <2>2. a = ready[i + 1] /\ i + 1 \in DOMAIN ready /\ i + 1 # 1 /\ 1 \in DOMAIN ready
    BY <1>1, <2>1
  <2> QED BY <1>1, <2>2 DEF Answers, OnePlace
<1>5. ASSUME NEW a \in Answers, a.socket # Head(ready).socket PROVE a \in Answers'
  <2>1. PICK i \in 1 .. Len(ready) : a = ready[i]
    BY <1>1 DEF Answers
  <2>2. i - 1 \in 1 .. Len(ready) - 1 /\ ready'[i - 1] = ready[i]
    BY <1>1, <1>5, <2>1
  <2> QED BY <1>1, <2>1, <2>2 DEF Answers
<1>6. ASSUME NEW i \in DOMAIN ready', NEW j \in DOMAIN ready', ready'[i].socket = ready'[j].socket
      PROVE  i = j
  <2>1. i + 1 \in DOMAIN ready /\ j + 1 \in DOMAIN ready
        /\ ready'[i] = ready[i + 1] /\ ready'[j] = ready[j + 1]
    BY <1>1
  <2>2. i + 1 = j + 1
    BY <1>6, <2>1 DEF OnePlace
  <2> QED BY <1>1, <2>2
<1> QED BY <1>2, <1>3, <1>4, <1>5, <1>6

\* What a step leaves alone.
LEMMA SamePlaces ==
  ASSUME UNCHANGED <<inbox, forwarded, ready>>
  PROVE  /\ Answers' = Answers
         /\ OnePlace' <=> OnePlace
         /\ \A s, method : InFlight(s, method)' <=> InFlight(s, method)
         /\ \A s : Pending(s)' <=> Pending(s)
BY DEF Answers, OnePlace, InFlight, Pending

\* What an answer does to its client.
LEMMA AnswerBusy ==
  ASSUME NEW s, Answer(s, "busy")
  PROVE  client' = IF conn[s] = "open" THEN [client EXCEPT ![s] = "refused"] ELSE client
BY DEF Answer
LEMMA AnswerError ==
  ASSUME NEW s, Answer(s, "error")
  PROVE  client' = IF conn[s] = "open" THEN [client EXCEPT ![s] = "failed"] ELSE client
BY DEF Answer
LEMMA AnswerOk ==
  ASSUME NEW s, Answer(s, "ok")
  PROVE  client' = IF conn[s] # "open" THEN client
                   ELSE [client EXCEPT ![s] = IF client[s] # Streaming THEN "idle"
                                              ELSE IF s \in completedSeen THEN "finished" ELSE "turn"]
BY DEF Answer

\* The clients connect, send and end.
LEMMA ClientStep ==
  ASSUME Abrupt = {}, Inv, NEW s \in Client, Connect(s) \/ Send(s) \/ End(s), TypeOK'
  PROVE  Inv'
<1> USE DEF Inv, Method, Streaming, Plain, Interrupt, NoRequest, Aside
<1>1. CASE Connect(s) \/ End(s)
  <2>1. UNCHANGED <<inbox, forwarded, ready, owners, live, completedSeen, thread, doubled>>
    BY <1>1 DEF Connect, End, server, history
  <2>2. OnePlace'
    BY <2>1, SamePlaces
  <2>3. /\ \A t \in Client \ {s} : client'[t] = client[t] /\ conn'[t] = conn[t]
        /\ \/ conn[s] = "none" /\ conn'[s] = "open" /\ client'[s] = client[s]
           \/ /\ conn[s] = "open" /\ conn'[s] = "ended" /\ client[s] # Streaming
              /\ client'[s] \in {"refused", "failed", "finished"}
              /\ client[s] \in {"turn", "finished"} => client'[s] = "finished"
    BY <1>1 DEF Connect, End, TypeOK, ToldOff
  <2>4. ClientsAgree'
    BY <2>1, <2>3, SamePlaces DEF ClientsAgree, ToldOff, Pending
  <2>5. RequestOwner'
    BY <2>1, <2>3, SamePlaces DEF RequestOwner, owners
  <2>6. StreamOwner'
    BY <2>1, <2>3, SamePlaces DEF StreamOwner, owners, ClientsAgree
  <2>7. TurnOwner'
    BY <2>1, <2>3, SamePlaces DEF TurnOwner, InTurn, InTurnAlready, owners, ClientsAgree
  <2> QED BY <2>2, <2>4, <2>5, <2>6, <2>7
<1>2. CASE Send(s)
  <2>1. PICK method \in {Streaming, Plain, Interrupt} :
          client' = [client EXCEPT ![s] = method] /\ inbox' = [inbox EXCEPT ![s] = method]
    BY <1>2 DEF Send, Methods
  <2>2. /\ UNCHANGED <<conn, forwarded, ready, owners, live, completedSeen, thread, doubled>>
        /\ conn[s] = "open" /\ client[s] = "idle"
    BY <1>2 DEF Send, server, history
  <2>3. ~Pending(s)
    BY <2>2 DEF ClientsAgree
  <2>4. /\ Answers' = Answers
        /\ \A t, m : InFlight(t, m)' <=> InFlight(t, m)
    BY <2>2 DEF Answers, InFlight
  <2>5. forwarded[s] = NoRequest /\ \A a \in Answers : a.socket # s
    <3> QED BY <2>3, AnswerTypes DEF Pending, InFlight, TypeOK
  <2>6. OnePlace'
    BY <2>1, <2>2, <2>4, <2>5 DEF OnePlace, TypeOK
  <2>7. ClientsAgree'
    BY <2>1, <2>2, <2>3, <2>4 DEF ClientsAgree, ToldOff, Pending, TypeOK
  <2>8. RequestOwner'
    BY <2>2, <2>4 DEF RequestOwner, owners
  <2>9. StreamOwner'
    BY <2>1, <2>2, <2>4 DEF StreamOwner, owners, Pending, TypeOK
  <2>10. TurnOwner'
    BY <2>1, <2>2, <2>4 DEF TurnOwner, InTurn, InTurnAlready, owners, TypeOK
  <2> QED BY <2>6, <2>7, <2>8, <2>9, <2>10
<1> QED BY <1>1, <1>2

\* The data handler refuses a request or forwards it.
LEMMA DataStep ==
  ASSUME Inv, NEW s \in Client, HandleData(s), TypeOK'
  PROVE  Inv'
<1> USE DEF Inv, Method, Streaming, Plain, Interrupt, NoRequest, Aside
<1>1. /\ ready = << >> /\ UNCHANGED <<ready, conn, live, completedSeen, streamOf, thread, doubled>>
      /\ Answers = {} /\ Answers' = {}
      /\ inbox[s] \in Method /\ inbox' = [inbox EXCEPT ![s] = NoRequest]
      /\ forwarded[s] = NoRequest
  <2>1. ready = << >> /\ UNCHANGED ready
    BY DEF HandleData, Refuse, Forward
  <2>2. Answers = {} /\ Answers' = {}
    BY <2>1, EmptySeq DEF Answers
  <2> QED BY <2>1, <2>2 DEF HandleData, Refuse, Forward, owners, server, history, OnePlace, TypeOK
<1>2. Pending(s) /\ streamOf # s /\ requestOf # s
  BY <1>1 DEF Pending, StreamOwner, RequestOwner, InFlight
<1>3. ASSUME forwarded' = forwarded \/ \E m \in Method \cup {Aside} : forwarded' = [forwarded EXCEPT ![s] = m]
      PROVE  /\ \A t \in Client \ {s} : forwarded'[t] = forwarded[t] /\ inbox'[t] = inbox[t]
             /\ inbox'[s] = NoRequest
  BY <1>1, <1>3 DEF TypeOK
<1>4. CASE Refuse(s)
  <2>1. UNCHANGED <<forwarded, requestOf>>
    BY <1>4 DEF Refuse, owners, server
  <2>2. /\ \A t \in Client \ {s} : client'[t] = client[t]
        /\ client'[s] = IF conn[s] = "open" THEN "refused" ELSE client[s]
    BY <1>4, AnswerBusy DEF Refuse, TypeOK
  <2>3. \A t \in Client : \A m : InFlight(t, m)' <=> InFlight(t, m)
    BY <1>1, <2>1 DEF InFlight
  <2>4. ~\E m \in Method \cup {Aside} : InFlight(s, m)
    BY <1>1 DEF InFlight
  <2>5. ~Pending(s)' /\ \A t \in Client \ {s} : Pending(t)' <=> Pending(t)
    BY <1>1, <1>3, <2>1, <2>3, <2>4 DEF Pending
  <2>6. OnePlace'
    BY <1>1, <1>3, <2>1, EmptySeq DEF OnePlace
  <2>7. ClientsAgree'
    BY <1>1, <1>2, <1>3, <2>1, <2>2, <2>3, <2>4, <2>5 DEF ClientsAgree, ToldOff
  <2>8. RequestOwner' /\ StreamOwner'
    BY <1>1, <1>2, <2>1, <2>2, <2>3, <2>5 DEF RequestOwner, StreamOwner
  <2>9. TurnOwner'
    BY <1>1, <2>2 DEF TurnOwner, InTurn, InTurnAlready
  <2> QED BY <2>6, <2>7, <2>8, <2>9
<1>5. CASE Forward(s)
  <2>1. UNCHANGED client
    BY <1>5 DEF Forward
  <2>2. PICK m \in Method \cup {Aside} :
          /\ forwarded' = [forwarded EXCEPT ![s] = m]
          /\ m = Aside => inbox[s] = Interrupt /\ requestOf' = requestOf
          /\ m # Aside => m = inbox[s] /\ requestOf' = s /\ requestOf = Nobody /\ streamOf = Nobody
    <3>1. CASE PassesAside(s, inbox[s])
      BY <1>5, <3>1 DEF Forward, PassesAside
    <3>2. CASE ~PassesAside(s, inbox[s])
      BY <1>1, <1>2, <1>5, <3>2 DEF Forward, Busy
    <3> QED BY <3>1, <3>2
  <2>3. /\ \A t \in Client \ {s} : \A k : InFlight(t, k)' <=> InFlight(t, k)
        /\ \A k : InFlight(s, k)' <=> k = m
    BY <1>1, <2>2 DEF InFlight, TypeOK
  <2>4. Pending(s)' /\ \A t \in Client \ {s} : Pending(t)' <=> Pending(t)
    BY <1>1, <1>3, <2>2, <2>3 DEF Pending
  <2>5. OnePlace'
    BY <1>1, <1>3, <2>2, EmptySeq DEF OnePlace, TypeOK
  <2>6. ClientsAgree'
    <3>1. inbox[s] = Streaming <=> m = Streaming
      BY <1>1, <2>2
    <3>2. ~InFlight(s, Streaming)
      BY <1>1 DEF InFlight
    <3> QED BY <1>1, <1>2, <1>3, <2>1, <2>2, <2>3, <2>4, <3>1, <3>2 DEF ClientsAgree, ToldOff
  <2>7. RequestOwner'
    <3>1. conn[s] # "closed"
      BY <1>1 DEF ClientsAgree
    <3> QED BY <1>1, <1>2, <2>2, <2>3, <3>1, BrokerAssumption DEF RequestOwner
  <2>8. StreamOwner'
    BY <1>1, <1>2, <2>1, <2>2, <2>4, BrokerAssumption DEF StreamOwner
  <2>9. TurnOwner'
    BY <1>1, <2>1 DEF TurnOwner, InTurn, InTurnAlready
  <2> QED BY <2>5, <2>6, <2>7, <2>8, <2>9
<1> QED BY <1>4, <1>5 DEF HandleData

\* The close event: the ownership of the socket ends with it.
LEMMA CloseStep ==
  ASSUME Inv, NEW s \in Client, CloseEvent(s), TypeOK'
  PROVE  Inv'
<1> USE DEF Inv, NoRequest
<1>1. /\ UNCHANGED <<client, inbox, forwarded, ready, live, completedSeen, thread, doubled>>
      /\ conn[s] = "ended" /\ conn'[s] = "closed" /\ inbox[s] = NoRequest
      /\ \A t \in Client \ {s} : conn'[t] = conn[t]
      /\ requestOf' = IF requestOf = s THEN Nobody ELSE requestOf
      /\ streamOf' = IF streamOf = s THEN Nobody ELSE streamOf
  BY DEF CloseEvent, server, history, TypeOK
<1>2. OnePlace'
  BY <1>1, SamePlaces
<1>3. ClientsAgree'
  BY <1>1, SamePlaces DEF ClientsAgree, ToldOff, Pending
<1>4. RequestOwner'
  BY <1>1, SamePlaces, BrokerAssumption DEF RequestOwner
<1>5. StreamOwner'
  BY <1>1, SamePlaces, BrokerAssumption DEF StreamOwner
<1>6. TurnOwner'
  BY <1>1, SamePlaces, BrokerAssumption DEF TurnOwner, InTurn, InTurnAlready
<1> QED BY <1>2, <1>3, <1>4, <1>5, <1>6

\* The app server answers.
LEMMA RespondStep ==
  ASSUME Inv, NEW s \in Client, Respond(s), TypeOK'
  PROVE  Inv'
<1> USE DEF Inv, NoRequest
<1>1. PICK ok \in BOOLEAN :
        /\ ready' = Append(ready, [socket |-> s, method |-> forwarded[s], ok |-> ok])
        /\ live' = IF ok /\ forwarded[s] = Streaming THEN live \cup {s} ELSE live
        /\ doubled' = IF ok /\ forwarded[s] = Streaming /\ InTurnAlready(s)
                      THEN doubled \cup {s} ELSE doubled
  BY DEF Respond
<1> DEFINE a == [socket |-> s, method |-> forwarded[s], ok |-> ok]
<1>2. /\ forwarded[s] # NoRequest /\ forwarded' = [forwarded EXCEPT ![s] = NoRequest]
      /\ UNCHANGED <<client, conn, inbox, owners, completedSeen, thread>>
  BY DEF Respond
<1>3. inbox[s] = NoRequest /\ \A b \in Answers : b.socket # s
  BY <1>2 DEF OnePlace
<1>4. /\ Answers' = Answers \cup {a}
      /\ \A i, j \in DOMAIN ready' : ready'[i].socket = ready'[j].socket => i = j
  <2> HIDE DEF a
  <2>1. a.socket = s
    BY DEF a
  <2>2. ready' = Append(ready, a)
    BY <1>1 DEF a
  <2> QED BY <1>3, <2>1, <2>2, ReadAnswer
<1>5. forwarded[s] \in Method \cup {Aside} /\ \A m \in Method \cup {Aside} : m # NoRequest
  BY <1>2 DEF TypeOK, Method, Streaming, Plain, Interrupt, Aside
<1>6. \A t \in Client : \A m \in Method \cup {Aside} : InFlight(t, m)' <=> InFlight(t, m)
  <2>0. a.socket = s /\ a.method = forwarded[s]
    OBVIOUS
  <2> HIDE DEF a
  <2> SUFFICES ASSUME NEW t \in Client, NEW m \in Method \cup {Aside}
               PROVE  InFlight(t, m)' <=> InFlight(t, m)
    OBVIOUS
  <2>1. CASE t = s
    <3>1. InFlight(s, m) <=> forwarded[s] = m
      BY <1>3 DEF InFlight
    <3>2. forwarded'[s] # m
      BY <1>2, <1>5 DEF TypeOK
    <3>3. InFlight(s, m)' <=> a.method = m
      BY <1>3, <1>4, <2>0, <3>2 DEF InFlight
    <3> QED BY <2>0, <2>1, <3>1, <3>3
  <2>2. CASE t # s
    <3>1. forwarded'[t] = forwarded[t]
      BY <1>2, <2>2 DEF TypeOK
    <3> QED BY <1>4, <2>0, <2>2, <3>1 DEF InFlight
  <2> QED BY <2>1, <2>2
<1>7. \A t \in Client : Pending(t)' <=> Pending(t)
  BY <1>2, <1>6 DEF Pending
<1>8. OnePlace'
  BY <1>2, <1>3, <1>4 DEF OnePlace, TypeOK
<1>9. Streaming \in Method
  BY DEF Method
<1>10. ClientsAgree'
  BY <1>2, <1>6, <1>7, <1>9 DEF ClientsAgree, ToldOff
<1>11. RequestOwner' /\ StreamOwner'
  BY <1>2, <1>6, <1>7 DEF RequestOwner, StreamOwner, owners
<1>12. TurnOwner'
  <2> HIDE DEF a
  <2>0. a.socket = s /\ a.method = forwarded[s] /\ a.ok = ok
    BY DEF a
  <2>1. forwarded[s] = Streaming => requestOf = s
    BY <1>9 DEF InFlight, ClientsAgree, RequestOwner
  <2>2. ASSUME ~(ok /\ forwarded[s] = Streaming)
        PROVE  UNCHANGED <<live, doubled>> /\ \A t \in Client : InTurnAlready(t)' <=> InTurnAlready(t)
    BY <1>1, <1>2, <2>2 DEF InTurnAlready
  <2>3. ASSUME NEW t \in Client \ doubled', InTurn(t)'
        PROVE  streamOf' = t /\ t \in live' /\ ~InTurnAlready(t)'
    <3>1. t \notin doubled /\ InTurn(t)
      BY <1>1, <1>2, <2>3 DEF InTurn
    <3>2. streamOf = t /\ t \in live /\ ~InTurnAlready(t)
      BY <3>1 DEF TurnOwner
    <3>3. forwarded[s] # Streaming
      BY <2>1, <3>2, BrokerAssumption DEF StreamOwner
    <3> QED BY <1>2, <2>2, <3>2, <3>3 DEF owners
  <2>4. ASSUME NEW b \in Answers, b.ok, b.method = Streaming
        PROVE  /\ b.socket \in live' \cup completedSeen'
               /\ b.socket \in live' \ doubled' => ~InTurnAlready(b.socket)'
    <3>1. b.socket \in Client /\ InFlight(b.socket, Streaming)
      BY <2>4, AnswerTypes DEF InFlight
    <3>2. requestOf = b.socket
      BY <1>9, <3>1 DEF ClientsAgree, RequestOwner
    <3>3. forwarded[s] # Streaming
      BY <1>3, <2>1, <3>2
    <3> QED BY <1>2, <2>2, <2>4, <3>1, <3>3 DEF TurnOwner
  <2>5. ASSUME ok, forwarded[s] = Streaming
        PROVE  s \in live' /\ (s \notin doubled' => ~InTurnAlready(s)')
    BY <1>1, <1>2, <2>5 DEF InTurnAlready
  <2>6. \A t \in Client : InTurn(t)' => conn'[t] = "open"
    BY <1>2 DEF TurnOwner, InTurn
  <2>7. ASSUME NEW b \in Answers', b.ok, b.method = Streaming
        PROVE  /\ b.socket \in live' \cup completedSeen'
               /\ b.socket \in live' \ doubled' => ~InTurnAlready(b.socket)'
    BY <1>4, <2>0, <2>4, <2>5, <2>7
  <2> QED BY <2>3, <2>6, <2>7 DEF TurnOwner
<1> QED BY <1>8, <1>10, <1>11, <1>12

\* The end of a turn on a thread takes the stream from the client of that
\* thread.
LEMMA StreamEnds ==
  ASSUME Inv, NEW th, EndStream(th)
  PROVE  /\ requestOf' = requestOf
         /\ streamOf' \in {streamOf, Nobody}
         /\ streamOf' # streamOf => thread[streamOf] = th
BY BrokerAssumption DEF Inv, EndStream, Target, StreamOwner, TypeOK, owners

\* The clients keep what they had where only a turn has ended.
LEMMA EndedStep ==
  ASSUME Inv, UNCHANGED <<conn, inbox, forwarded, ready, requestOf>>,
         streamOf' \in {streamOf, Nobody},
         \A t \in Client : client'[t] = client[t] \/ (InTurn(t) /\ client'[t] = "finished")
  PROVE  OnePlace' /\ ClientsAgree' /\ RequestOwner' /\ StreamOwner'
<1> USE DEF Inv
<1>1. OnePlace'
  BY SamePlaces
<1>2. ClientsAgree'
  <2>1. \A t \in Client : InTurn(t) => /\ ~Pending(t) /\ conn[t] = "open"
                                       /\ client[t] # Streaming /\ client[t] # "idle"
    BY DEF TurnOwner, ClientsAgree, InTurn, ToldOff, Method, Streaming, Plain, Interrupt
  <2>2. \A t \in Client : inbox[t] = Streaming \/ InFlight(t, Streaming) => Pending(t)
    BY DEF Pending, Method, NoRequest, Streaming
  <2> QED BY <2>1, <2>2, SamePlaces DEF ClientsAgree, ToldOff, Streaming
<1>3. RequestOwner'
  BY SamePlaces DEF RequestOwner
<1>4. StreamOwner'
  BY SamePlaces, BrokerAssumption DEF StreamOwner, InTurn
<1> QED BY <1>1, <1>2, <1>3, <1>4

\* A turn ends: its client is told if it has the stream, or will find it said
\* with the answer of its turn/start; of the others only one that shares its
\* thread loses the stream.
LEMMA CompletedStep ==
  ASSUME Inv, NEW s \in Client, TurnCompleted(s), TypeOK'
  PROVE  Inv'
<1> USE DEF Inv
<1>1. /\ s \in live /\ live' = live \ {s} /\ Deliver(s) /\ EndStream(thread[s])
      /\ UNCHANGED <<conn, inbox, forwarded, ready, thread, doubled>>
  BY DEF TurnCompleted, history
<1>2. /\ requestOf' = requestOf /\ streamOf' \in {streamOf, Nobody}
      /\ streamOf' # streamOf => thread[streamOf] = thread[s]
  BY <1>1, StreamEnds
<1>3. /\ client' = [t \in Client |-> IF t = Target /\ t = s /\ conn[t] = "open" /\ InTurn(t)
                                      THEN "finished" ELSE client[t]]
      /\ completedSeen' = completedSeen \cup ({Target} \cap {s} \cap {t \in Client : Requesting(t)})
  BY <1>1 DEF Deliver
<1>4. \A t \in Client : client'[t] = client[t] \/ (InTurn(t) /\ client'[t] = "finished")
  <2> HIDE DEF InTurn, Target
  <2> QED BY <1>3
<1>5. OnePlace' /\ ClientsAgree' /\ RequestOwner' /\ StreamOwner'
  BY <1>1, <1>2, <1>4, EndedStep
<1>6. \A t \in Client : InTurnAlready(t)' => InTurnAlready(t)
  BY <1>1 DEF InTurnAlready
<1>7. \A t \in Client : InTurn(t)' => InTurn(t) /\ conn'[t] = "open"
  BY <1>1, <1>4 DEF InTurn, TurnOwner
<1>8. ASSUME NEW t \in Client \ doubled, InTurn(t)'
      PROVE  streamOf' = t /\ t \in live' /\ ~InTurnAlready(t)'
  <2>1. InTurn(t) /\ streamOf = t /\ t \in live /\ ~InTurnAlready(t) /\ conn[t] = "open"
    BY <1>7, <1>8 DEF TurnOwner
  <2>2. t # s
    <3>1. Target = t
      BY <2>1, BrokerAssumption DEF Target, StreamOwner
    <3>2. client'[t] # "finished"
      BY <1>8 DEF InTurn
    <3> HIDE DEF InTurn, Target
    <3> QED BY <1>3, <2>1, <3>1, <3>2
  <2>3. thread[s] # thread[t]
    BY <1>1, <2>1, <2>2 DEF InTurnAlready
  <2> QED BY <1>1, <1>2, <1>6, <2>1, <2>2, <2>3
<1>9. ASSUME NEW a \in Answers, a.ok, a.method = Streaming
      PROVE  /\ a.socket \in live' \cup completedSeen'
             /\ a.socket \in live' \ doubled => ~InTurnAlready(a.socket)'
  <2>0. a.socket \in Client
    BY AnswerTypes
  <2>1. CASE a.socket # s
    BY <1>1, <1>3, <1>6, <1>9, <2>0, <2>1 DEF TurnOwner
  <2>2. CASE a.socket = s
    <3>1. InFlight(s, Streaming)
      BY <1>9, <2>2 DEF InFlight
    <3>2. client[s] = Streaming /\ conn[s] = "open"
      BY <3>1 DEF ClientsAgree
    <3>3. requestOf = s
      BY <3>1, <3>2 DEF RequestOwner, Method
    <3>4. s \in completedSeen'
      BY <1>3, <3>2, <3>3, BrokerAssumption DEF Target, Requesting, Method, Client
    <3> QED BY <1>1, <2>2, <3>4
  <2> QED BY <2>1, <2>2
<1>10. TurnOwner'
  BY <1>1, <1>7, <1>8, <1>9, SamePlaces DEF TurnOwner
<1> QED BY <1>5, <1>10

\* That of a subagent takes nothing from anybody who may lose it.
LEMMA SubagentStep ==
  ASSUME Inv, SubagentCompleted, TypeOK'
  PROVE  Inv'
<1> USE DEF Inv
<1>1. EndStream(Subagent) /\ UNCHANGED <<client, conn, inbox, forwarded, live, ready, completedSeen, thread, doubled>>
  BY DEF SubagentCompleted, server, history
<1>2. /\ requestOf' = requestOf /\ streamOf' \in {streamOf, Nobody}
      /\ streamOf' # streamOf => thread[streamOf] = Subagent
  BY <1>1, StreamEnds
<1>3. OnePlace' /\ ClientsAgree' /\ RequestOwner' /\ StreamOwner'
  BY <1>1, <1>2, EndedStep
<1>4. \A t \in Client \ doubled : InTurn(t) => streamOf' = t
  BY <1>2, BrokerAssumption DEF TurnOwner, TypeOK
<1>5. TurnOwner'
  BY <1>1, <1>4, SamePlaces DEF TurnOwner, InTurn, InTurnAlready
<1> QED BY <1>3, <1>5

\* A handler goes on after its await.
LEMMA ContinueStep ==
  ASSUME Inv, Continue, TypeOK'
  PROVE  Inv'
<1> USE DEF Inv
<1>0. PICK a : a = Head(ready)
  OBVIOUS
<1> DEFINE s == a.socket
<1>1. /\ a \in Answers
      /\ a \in [socket : Client, method : Method \cup {Aside}, ok : BOOLEAN]
      /\ Answers' = {b \in Answers : b.socket # s}
      /\ \A i, j \in DOMAIN ready' : ready'[i].socket = ready'[j].socket => i = j
  BY <1>0, TakeAnswer DEF Continue
<1>2. s \in Client /\ a.method \in Method \cup {Aside} /\ a.ok \in BOOLEAN
  BY <1>1
<1>3. /\ Answer(s, IF a.ok THEN "ok" ELSE "error")
      /\ a.method = Aside => UNCHANGED owners
      /\ a.method # Aside =>
           /\ requestOf' = IF requestOf = s THEN Nobody ELSE requestOf
           /\ streamOf' = CASE a.ok /\ a.method = Streaming -> s
                            [] ~a.ok /\ a.method # Streaming /\ streamOf = s -> Nobody
                            [] OTHER -> streamOf
      /\ completedSeen' = completedSeen \ {s}
      /\ UNCHANGED <<conn, inbox, forwarded, live, thread, doubled>>
  BY <1>0 DEF Continue, server, history
<1>4. /\ InFlight(s, a.method) /\ Pending(s) /\ forwarded[s] = NoRequest /\ inbox[s] = NoRequest
      /\ \A b \in Answers : b.socket = s => b = a
  <2>1. InFlight(s, a.method) /\ Pending(s)
    BY <1>1, <1>2 DEF InFlight, Pending
  <2>2. forwarded[s] = NoRequest /\ inbox[s] = NoRequest
    BY <1>1, <1>2 DEF OnePlace
  <2>3. \A b \in Answers : b.socket = s => b = a
    BY <1>1 DEF OnePlace, Answers
  <2> QED BY <2>1, <2>2, <2>3
<1>5. \A m \in Method \cup {Aside} : m # NoRequest
  BY DEF Method, Streaming, Plain, Interrupt, Aside, NoRequest
<1>6. /\ \A m \in Method \cup {Aside} : ~InFlight(s, m)' /\ (InFlight(s, m) => m = a.method)
      /\ \A t \in Client \ {s} : \A m : InFlight(t, m)' <=> InFlight(t, m)
  BY <1>1, <1>3, <1>4, <1>5 DEF InFlight
<1>7. ~Pending(s)' /\ \A t \in Client \ {s} : Pending(t)' <=> Pending(t)
  BY <1>3, <1>4, <1>6 DEF Pending
<1>8. streamOf # s /\ (requestOf = s <=> (a.method # Aside /\ conn[s] # "closed"))
  <2>1. Aside \notin Method
    BY DEF Method, Streaming, Plain, Interrupt, Aside
  <2> QED BY <1>2, <1>4, <1>6, <2>1 DEF StreamOwner, RequestOwner
<1>9. a.method = Streaming => client[s] = Streaming /\ conn[s] = "open"
  BY <1>2, <1>4 DEF ClientsAgree
<1>10. /\ \A t \in Client \ {s} : client'[t] = client[t]
       /\ conn[s] # "open" => client'[s] = client[s]
       /\ conn[s] = "open" =>
            \/ a.ok /\ client[s] # Streaming /\ client'[s] = "idle"
            \/ a.ok /\ client[s] = Streaming /\ client'[s] = IF s \in completedSeen THEN "finished" ELSE "turn"
            \/ ~a.ok /\ client'[s] = "failed"
  <2>1. CASE a.ok
    BY <1>2, <1>3, <2>1, AnswerOk DEF TypeOK
  <2>2. CASE ~a.ok
    BY <1>2, <1>3, <2>2, AnswerError DEF TypeOK
  <2> QED BY <2>1, <2>2
<1>11. client[s] = Streaming => a.method = Streaming
  BY <1>2, <1>4, <1>6 DEF ClientsAgree, Method, Streaming, NoRequest
<1>12. OnePlace'
  BY <1>1, <1>3 DEF OnePlace
<1>13. ClientsAgree'
  <2>1. Streaming \in Method /\ NoRequest # Streaming
    BY DEF Method, Streaming, NoRequest
  <2>2. client[s] = Streaming => conn[s] = "open" /\ conn[s] # "none"
    BY <1>2 DEF ClientsAgree
  <2>3. conn[s] # "none" /\ client'[s] # Streaming
    BY <1>2, <1>4, <1>10, <2>2 DEF ClientsAgree, ToldOff, Streaming, Method, Plain, Interrupt
  <2>4. ASSUME NEW t \in Client, t = s
        PROVE  /\ client'[t] # Streaming /\ ~Pending(t)' /\ conn'[t] # "none"
               /\ inbox'[t] = NoRequest /\ ~InFlight(t, Streaming)'
    BY <1>3, <1>4, <1>6, <1>7, <2>1, <2>3, <2>4
  <2>5. ASSUME NEW t \in Client, t # s
        PROVE  /\ client'[t] = client[t] /\ (Pending(t)' <=> Pending(t)) /\ conn'[t] = conn[t]
               /\ inbox'[t] = inbox[t] /\ (InFlight(t, Streaming)' <=> InFlight(t, Streaming))
    BY <1>3, <1>6, <1>7, <1>10, <2>5
  <2> QED BY <2>1, <2>4, <2>5 DEF ClientsAgree, ToldOff
<1>14. RequestOwner'
  BY <1>2, <1>3, <1>6, <1>8, BrokerAssumption DEF RequestOwner, owners
<1>15. StreamOwner'
  BY <1>2, <1>3, <1>7, <1>8, <1>9, <1>10, BrokerAssumption DEF StreamOwner, owners
<1>16. TurnOwner'
  <2>1. Streaming # Aside
    BY DEF Streaming, Aside
  <2>0. InTurnAlready(s)' = InTurnAlready(s) /\ \A t \in Client : InTurnAlready(t)' <=> InTurnAlready(t)
    BY <1>3 DEF InTurnAlready
  <2>2. ASSUME NEW t \in Client \ doubled, t # s, InTurn(t)'
        PROVE  streamOf' = t /\ t \in live' /\ ~InTurnAlready(t)'
    <3>1. streamOf = t /\ t \in live /\ ~InTurnAlready(t)
      BY <1>10, <2>2 DEF TurnOwner, InTurn
    <3>2. a.method # Streaming
      BY <1>2, <1>8, <1>9, <2>1, <2>2, <3>1, BrokerAssumption DEF StreamOwner
    <3> QED BY <1>3, <1>8, <2>0, <3>1, <3>2 DEF owners
  <2>3. ASSUME client'[s] = "turn"
        PROVE  /\ streamOf' = s /\ s \in live' /\ conn'[s] = "open"
               /\ s \notin doubled => ~InTurnAlready(s)'
    <3>1. ~InTurn(s)
      BY <1>2, <1>4 DEF ClientsAgree, InTurn, ToldOff, Method, Streaming, Plain, Interrupt
    <3>2. conn[s] = "open" /\ a.ok /\ client[s] = Streaming /\ s \notin completedSeen
      BY <1>10, <2>3, <3>1 DEF InTurn
    <3> QED BY <1>1, <1>3, <1>11, <2>0, <2>1, <3>2 DEF TurnOwner
  <2>4. \A b \in Answers' : b.ok /\ b.method = Streaming =>
          /\ b.socket \in live' \cup completedSeen'
          /\ b.socket \in live' \ doubled => ~InTurnAlready(b.socket)'
    BY <1>1, <1>3, <2>0, AnswerTypes DEF TurnOwner
  <2>5. \A t \in Client \ {s} : InTurn(t)' => conn'[t] = "open"
    BY <1>3, <1>10 DEF TurnOwner, InTurn
  <2> QED BY <1>2, <1>3, <2>2, <2>3, <2>4, <2>5 DEF TurnOwner, InTurn
<1> QED BY <1>12, <1>13, <1>14, <1>15, <1>16

\* Every step of clients that do not die during a turn/start keeps the
\* invariant.
LEMMA InvStep == Abrupt = {} /\ Inv /\ [Next]_vars => Inv'
<1> SUFFICES ASSUME Abrupt = {}, Inv, [Next]_vars PROVE Inv'
  OBVIOUS
<1>1. TypeOK'
  BY TypeStep DEF Inv
<1>2. ASSUME NEW s \in Client, Connect(s) \/ Send(s) \/ End(s) PROVE Inv'
  BY <1>1, <1>2, ClientStep
<1>3. ASSUME NEW s \in Client, HandleData(s) PROVE Inv'
  BY <1>1, <1>3, DataStep
<1>4. ASSUME NEW s \in Client, CloseEvent(s) PROVE Inv'
  BY <1>1, <1>4, CloseStep
<1>5. ASSUME NEW s \in Client, Respond(s) PROVE Inv'
  BY <1>1, <1>5, RespondStep
<1>6. CASE Continue
  BY <1>1, <1>6, ContinueStep
<1>7. ASSUME NEW s \in Client, TurnCompleted(s) PROVE Inv'
  BY <1>1, <1>7, CompletedStep
<1>8. CASE SubagentCompleted
  BY <1>1, <1>8, SubagentStep
<1>9. CASE UNCHANGED vars
  <2>1. UNCHANGED <<inbox, forwarded, ready>>
    BY <1>9 DEF vars, server
  <2>2. OnePlace'
    BY <2>1, SamePlaces DEF Inv
  <2>3. ClientsAgree' /\ RequestOwner' /\ StreamOwner' /\ TurnOwner'
    BY <1>9, <2>1, SamePlaces
    DEF Inv, vars, owners, server, history, ClientsAgree, RequestOwner, StreamOwner, TurnOwner, ToldOff, InTurn,
        InTurnAlready
  <2> QED BY <1>1, <2>2, <2>3 DEF Inv
<1> QED BY <1>2, <1>3, <1>4, <1>5, <1>6, <1>7, <1>8, <1>9 DEF Next

LEMMA InvInit == Init => Inv
<1> SUFFICES ASSUME Init PROVE Inv
  OBVIOUS
<1>1. Answers = {} /\ DOMAIN ready = {}
  BY EmptySeq DEF Init, Answers
<1>2. TypeOK
  BY EmptySeq DEF Init, TypeOK, Client, Streaming, NoRequest
<1>3. \A s \in Client, m \in Method \cup {Aside} : ~InFlight(s, m)
  BY <1>1 DEF Init, InFlight, Method, Streaming, Plain, Interrupt, Aside, NoRequest
<1>4. \A s \in Client : ~Pending(s)
  BY <1>3 DEF Init, Pending
<1> QED BY <1>1, <1>2, <1>3, <1>4, BrokerAssumption
        DEF Init, Inv, OnePlace, ClientsAgree, RequestOwner, StreamOwner, TurnOwner, InTurn,
            Method, Streaming, NoRequest

THEOREM Invariance == ASSUME Abrupt = {} PROVE Spec => []Inv
<1>1. Inv /\ [Next]_vars => Inv'
  BY InvStep
<1> QED BY <1>1, InvInit, PTL DEF Spec

-----------------------------------------------------------------------------
(* What the broker promises *)

\* No two clients are in a turn that is running, however many there are and
\* whatever threads they share, unless the turn of one of them began while an
\* earlier one ran on its thread.
THEOREM TurnsOneAtATime == ASSUME Abrupt = {} PROVE Spec => []OneTurnAtATime
<1>1. Inv => OneTurnAtATime
  BY DEF Inv, TurnOwner, OneTurnAtATime
<1> QED BY <1>1, Invariance, PTL

\* Nobody waits for a turn that is over, with the same exception: its
\* turn/completed is neither dropped nor routed to another, also when it
\* overtakes the answer of its turn/start.
THEOREM NobodyIsForgotten == ASSUME Abrupt = {} PROVE Spec => []NobodyWaitsInVain
<1>1. Inv => NobodyWaitsInVain
  BY DEF Inv, TurnOwner, NobodyWaitsInVain
<1> QED BY <1>1, Invariance, PTL

\* Once the clients are gone nobody is told that the broker is busy.
THEOREM UnusedIsFree == ASSUME Abrupt = {} PROVE Spec => []FreeWhenUnused
<1>1. Inv => FreeWhenUnused
  <2> SUFFICES ASSUME Inv, \A s \in Client : conn[s] \in {"none", "closed"},
                      \A s \in Client : forwarded[s] = NoRequest, ready = << >>
               PROVE  requestOf = Nobody /\ streamOf = Nobody
    BY DEF FreeWhenUnused
  <2>1. \A s \in Client, m \in Method : ~InFlight(s, m)
    BY EmptySeq DEF InFlight, Answers, Method, Streaming, Plain, Interrupt, NoRequest
  <2>2. \A s \in Client : requestOf # s
    BY <2>1 DEF Inv, RequestOwner
  <2>3. \A s \in Client : streamOf # s
    BY DEF Inv, StreamOwner, ClientsAgree
  <2> QED BY <2>2, <2>3 DEF Inv, TypeOK
<1> QED BY <1>1, Invariance, PTL
=============================================================================
