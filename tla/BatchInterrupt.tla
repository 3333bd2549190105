--------------------------- MODULE BatchInterrupt ---------------------------
(***************************************************************************)
(* interruptAppServerTurnForBatch: one turn/interrupt of the batch cancel,   *)
(* raced against a deadline, by a client of its own (app-server.mjs): a      *)
(* connection to the broker, or an app server that it has spawned.  Neither  *)
(* must outlive the call, whatever the other side does.                     *)
(*                                                                         *)
(* connect() makes the client before its first await, so the client is known *)
(* before the deadline is set.  A step is a callback with the continuations  *)
(* it leads to; nothing comes between these.                                *)
(***************************************************************************)

VARIABLES
  transport,  \* broker or direct
  inner,      \* the interrupt: dialing, initializing, requesting, or settled
  outcome,    \* how the race has ended: racing, interrupted, failed, timeout
  exited,     \* the client's exitPromise is resolved
  child,      \* the app server it has spawned runs
  asked,      \* the other side has been asked to end (close, SIGTERM)
  garbled,    \* a line that is not JSON has come
  deadline,   \* the timer of the race is set
  closing,    \* the timer of the closing is set
  returned    \* the call has settled for its caller

timers == <<deadline, closing>>
batchVars == <<transport, inner, outcome, exited, child, asked, garbled, timers, returned>>

BatchInit ==
  /\ transport \in {"broker", "direct"}
  /\ inner = IF transport = "broker" THEN "dialing" ELSE "initializing"
  /\ outcome = "racing"
  /\ exited = FALSE
  /\ child = (transport = "direct")
  /\ asked = FALSE /\ garbled = FALSE
  /\ deadline = TRUE /\ closing = FALSE
  /\ returned = FALSE

-----------------------------------------------------------------------------
(* The connection and its requests *)

Dialed ==
  /\ inner = "dialing" /\ ~exited
  /\ inner' = "initializing"
  /\ UNCHANGED <<transport, outcome, exited, child, asked, garbled, timers, returned>>

Initialized ==
  /\ inner = "initializing" /\ ~exited
  /\ inner' = "requesting"
  /\ UNCHANGED <<transport, outcome, exited, child, asked, garbled, timers, returned>>

\* The race is decided before the deadline, which is cleared.  Then the client
\* is closed (closeClientWithTimeout); close() waits for exitPromise.
DecideAndClear(result, exits) ==
  /\ outcome = "racing"
  /\ inner' = "settled" /\ outcome' = result
  /\ exited' = exits
  /\ asked' = TRUE
  /\ deadline' = FALSE
  /\ closing' = FALSE
  /\ returned' = exits
  /\ UNCHANGED transport
Decide(result, exits) ==
  /\ outcome = "racing"
  /\ inner' = "settled" /\ outcome' = result
  /\ exited' = exits
  /\ asked' = TRUE
  /\ deadline' = FALSE
  /\ closing' = ~exits
  /\ returned' = exits
  /\ UNCHANGED transport

Answered == inner = "requesting" /\ Decide("interrupted", FALSE) /\ UNCHANGED <<child, garbled>>
Refused ==
  /\ inner \in {"initializing", "requesting"}
  /\ Decide("failed", FALSE)
  /\ UNCHANGED <<child, garbled>>

\* handleExit rejects what is pending: the socket has closed or does not open,
\* or the app server has ended, or cannot be spawned.
ConnectionLost == Decide("failed", TRUE) /\ child' = FALSE /\ UNCHANGED garbled

\* handleLine treats a line that is no JSON as the end of the app server.
LineGarbled ==
  /\ inner \in {"initializing", "requesting"}
  /\ Decide("failed", TRUE)
  /\ garbled' = TRUE
  /\ UNCHANGED child

-----------------------------------------------------------------------------
(* The end of the client *)

\* The end of its input, or 50 ms later SIGTERM, ends the app server; or the
\* broker's end of the socket is closed.
OtherSideEnds ==
  /\ asked /\ (child \/ ~exited)
  /\ child' = FALSE /\ exited' = TRUE
  /\ closing' = FALSE
  /\ returned' = TRUE
  /\ UNCHANGED <<transport, inner, outcome, asked, garbled, deadline>>

\* Destroyed: the socket, or the app server by SIGKILL.
DestroyPolitely == exited' = TRUE /\ asked' = TRUE /\ UNCHANGED child
ForceDestroy == exited' = TRUE /\ child' = FALSE /\ asked' = TRUE

\* What was pending ends with the same error, and closeClientIfAbandoned finds
\* nothing to do; but a socket that was not open yet never reports anything.
DeadlinePasses ==
  /\ deadline
  /\ deadline' = FALSE
  /\ outcome' = "timeout"
  /\ inner' = IF inner = "dialing" THEN inner ELSE "settled"
  /\ ForceDestroy
  /\ returned' = TRUE
  /\ UNCHANGED <<transport, garbled, closing>>

\* 250 ms after close(): it has not helped.
ClosingPasses ==
  /\ closing
  /\ closing' = FALSE
  /\ ForceDestroy
  /\ returned' = TRUE
  /\ UNCHANGED <<transport, inner, outcome, garbled, deadline>>

Timers == DeadlinePasses \/ ClosingPasses
BatchNext ==
  \/ Dialed \/ Initialized \/ Answered \/ Refused \/ ConnectionLost \/ LineGarbled
  \/ OtherSideEnds \/ Timers

BatchSafeSpec == BatchInit /\ [][BatchNext]_batchVars

\* Timers fire; the app server and the broker owe nothing, not even an end.
BatchSpec == BatchSafeSpec /\ WF_batchVars(Timers)

-----------------------------------------------------------------------------

BatchTypeOK ==
  /\ transport \in {"broker", "direct"}
  /\ inner \in {"dialing", "initializing", "requesting", "settled"}
  /\ outcome \in {"racing", "interrupted", "failed", "timeout"}
  /\ exited \in BOOLEAN /\ child \in BOOLEAN /\ asked \in BOOLEAN /\ garbled \in BOOLEAN
  /\ deadline \in BOOLEAN /\ closing \in BOOLEAN /\ returned \in BOOLEAN

\* The call returns, although nobody but the timers need ever do anything.
\* When it does, in time, late or after a failure, its connection is gone, no
\* timer is left, and the app server it has spawned has ended, also one that
\* traps SIGTERM: "event-loop quiescence" (ADR 0006:188).  The exception is an
\* app server that has sent a line that is no JSON: close() finds exitPromise
\* resolved, and nobody looks whether it ends.
Quiescent == exited /\ ~deadline /\ ~closing /\ (child => garbled)
CallReturnsQuiescent == <>returned /\ [](returned => Quiescent)
=============================================================================
