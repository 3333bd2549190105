-------------------------- MODULE Workspace_proofs --------------------------
(***************************************************************************)
(* The small parts of a workspace, for any constants: the stop gate           *)
(* (StopGate), a job's log (ProgressLog), the batch interrupt                 *)
(* (BatchInterrupt), the review budget (ReviewBudget); and that each part of  *)
(* MCWorkspace's specification behaves as it does on its own, so that what    *)
(* is proved of a part holds of the workspace.                                *)
(***************************************************************************)
EXTENDS MCWorkspace, BrokerLifecycle_proofs, StateFile_proofs, ReviewSubagents_proofs,
        FiniteSetTheorems, SequenceTheorems, WellFoundedInduction

-----------------------------------------------------------------------------
(* StopGate *)

\* The gate's variables keep their types; both clocks stay within their limits.
THEOREM GateTypeCorrect == GateSpec => []GateTypeOK
<1>1. GateInit => GateTypeOK
  BY GateAssumption DEF GateInit, GateTypeOK
<1>2. GateTypeOK /\ [GateNext]_gateVars => GateTypeOK'
  BY GateAssumption DEF GateTypeOK, GateNext, gateVars, Result, Verdict, Decides, ReadConfig,
     CheckSetup, StartTask, TaskEnds, Judge, TaskTimesOut, HookFails, HookTimesOut, TimePasses
<1> QED
  BY <1>1, <1>2, PTL DEF GateSpec

\* With the gate closed and Codex there, a stop passes on the reviewer's ALLOW
\* or without a decision, for any two limits: whichever clock runs out first,
\* and whether the task ends at its limit, in time, or after its hook.
THEOREM StopsPassOnAllow == GateSpec => []PassesOnAllow
<1> DEFINE HookIsOver == stop # "asked" => hook \in {"over", "failed", "cancelled"}
           GateInv == PassesOnAllow /\ HookIsOver
<1>1. GateInit => GateInv
  BY DEF GateInit, PassesOnAllow
<1>2. GateInv /\ [GateNext]_gateVars => GateInv'
  <2> SUFFICES ASSUME GateInv, [GateNext]_gateVars PROVE GateInv'
    OBVIOUS
  <2> USE DEF PassesOnAllow
  <2>1. CASE UNCHANGED gateVars
    BY <2>1 DEF gateVars
  <2>2. CASE ReadConfig \/ CheckSetup
    BY <2>2 DEF ReadConfig, CheckSetup, Decides
  <2>3. CASE StartTask \/ TaskEnds \/ TimePasses
    BY <2>3 DEF StartTask, TaskEnds, TimePasses
  <2>4. CASE Judge
    BY <2>4 DEF Judge, Decides, Passes
  <2>5. CASE TaskTimesOut
    BY <2>5 DEF TaskTimesOut, Decides
  <2>6. CASE HookFails \/ HookTimesOut
    BY <2>6 DEF HookFails, HookTimesOut
  <2> QED
    BY <2>1, <2>2, <2>3, <2>4, <2>5, <2>6 DEF GateNext
<1> QED
  BY <1>1, <1>2, PTL DEF GateSpec

-----------------------------------------------------------------------------
(* BatchInterrupt *)

\* Until the race is decided its deadline is set and its app server is not
\* given up; after it, either the client has exited or somebody waits for that;
\* and who has returned leaves nothing behind but an app server that garbled.
BatchInv ==
  /\ BatchTypeOK
  /\ outcome = "racing" => deadline /\ ~closing /\ ~returned /\ ~exited /\ ~asked
  /\ outcome # "racing" => ~deadline /\ (returned \/ closing)
  /\ returned => exited /\ ~closing
  /\ child /\ exited => garbled

THEOREM BatchInvariance == BatchSafeSpec => []BatchInv
<1>1. BatchInit => BatchInv
  BY DEF BatchInit, BatchInv, BatchTypeOK
<1>2. BatchInv /\ [BatchNext]_batchVars => BatchInv'
  <2> SUFFICES ASSUME BatchInv, [BatchNext]_batchVars PROVE BatchInv'
    OBVIOUS
  <2> USE DEF BatchInv, BatchTypeOK, timers
  <2>1. CASE UNCHANGED batchVars
    BY <2>1 DEF batchVars
  <2>2. CASE Dialed \/ Initialized
    BY <2>2 DEF Dialed, Initialized
  <2>3. CASE Answered \/ Refused
    BY <2>3 DEF Answered, Refused, Decide
  <2>4. CASE ConnectionLost \/ LineGarbled
    BY <2>4 DEF ConnectionLost, LineGarbled, Decide
  <2>5. CASE OtherSideEnds
    BY <2>5 DEF OtherSideEnds
  <2>6. CASE DeadlinePasses
    BY <2>6 DEF DeadlinePasses, ForceDestroy
  <2>7. CASE ClosingPasses
    BY <2>7 DEF ClosingPasses, ForceDestroy
  <2> QED
    BY <2>1, <2>2, <2>3, <2>4, <2>5, <2>6, <2>7 DEF BatchNext, Timers
<1> QED
  BY <1>1, <1>2, PTL DEF BatchSafeSpec

\* When the call has returned, whatever the other side did, its connection is
\* gone, no timer is left, and its app server has ended, unless that one sent
\* a line that is no JSON: the safety half of CallReturnsQuiescent.
THEOREM ReturnsQuiescent == BatchSafeSpec => [](returned => Quiescent)
<1>1. BatchInv => (returned => Quiescent)
  BY DEF BatchInv, BatchTypeOK, Quiescent
<1> QED
  BY <1>1, BatchInvariance, PTL

-----------------------------------------------------------------------------
(* ProgressLog *)

\* The circuit of a process is open from its first lost line on: until then all
\* it is done with was written, afterwards it does not try again.
CircuitHolds(w) ==
  /\ trying[w] > 0 => reported[w] > 0 /\ ~open[w]
  /\ ~open[w] => diagnosed[w] = 0 /\ WroteUpTo(w, DoneWith(w))
  /\ open[w] => diagnosed[w] = 1 /\ \E n \in 0 .. (reported[w] - 1) : WroteUpTo(w, n)

RemovedWhenOver == ~recordOver => gone = {}

LogInv == LogTypeOK /\ RemovedWhenOver /\ InOrder /\ \A w \in Writer : CircuitHolds(w)

\* The numbers of one writer's lines after somebody has appended a line.
LEMMA NumbersAfterAppend ==
  ASSUME LogTypeOK, NEW w \in Writer, NEW n \in 1 .. MaxLines,
         logFile' = Append(logFile, <<w, n>>)
  PROVE  \A v \in Writer :
           NumbersOf(v)' = IF v = w THEN NumbersOf(v) \cup {n} ELSE NumbersOf(v)
<1> SUFFICES ASSUME NEW v \in Writer
             PROVE  NumbersOf(v)' = IF v = w THEN NumbersOf(v) \cup {n} ELSE NumbersOf(v)
  OBVIOUS
<1>1. /\ Len(logFile) \in Nat /\ Len(logFile') = Len(logFile) + 1
      /\ logFile'[Len(logFile) + 1] = <<w, n>>
      /\ \A k \in 1 .. Len(logFile) : logFile'[k] = logFile[k]
  BY LogAssumption DEF LogTypeOK
<1>2. ASSUME NEW x PROVE x \in NumbersOf(v)' <=> x \in NumbersOf(v) \/ (v = w /\ x = n)
  <2>1. x \in NumbersOf(v)' <=>
          \E k \in 1 .. (Len(logFile) + 1) : logFile'[k][1] = v /\ x = logFile'[k][2]
    BY <1>1 DEF NumbersOf
  <2>2. x \in NumbersOf(v) <=>
          \E k \in 1 .. Len(logFile) : logFile[k][1] = v /\ x = logFile[k][2]
    BY DEF NumbersOf
  <2>3. 1 .. (Len(logFile) + 1) = 1 .. Len(logFile) \cup {Len(logFile) + 1}
    BY <1>1
  <2> QED
    BY <1>1, <2>1, <2>2, <2>3
<1> QED
  BY <1>2

\* Nothing changes for a process whose own variables and whose lines do not.
LEMMA OthersCircuitHolds ==
  ASSUME NEW v \in Writer, CircuitHolds(v), NumbersOf(v)' = NumbersOf(v), GoneOf(v)' = GoneOf(v),
         trying'[v] = trying[v], reported'[v] = reported[v],
         open'[v] = open[v], diagnosed'[v] = diagnosed[v]
  PROVE  CircuitHolds(v)'
BY DEF CircuitHolds, DoneWith, WroteUpTo

\* Removing the log takes from each what it had there; what it wrote stays what
\* it was.
LEMMA RemovalKeeps ==
  ASSUME LogTypeOK, RemoveLog, NEW w \in Writer, NEW n \in Nat, WroteUpTo(w, n)
  PROVE  WroteUpTo(w, n)'
<1>1. PICK g \in 0 .. n : GoneOf(w) = 1 .. g /\ NumbersOf(w) = (g + 1) .. n
  BY DEF WroteUpTo
<1>2. NumbersOf(w)' = {}
  BY DEF RemoveLog, NumbersOf
<1>3. ASSUME NEW k \in 1 .. Len(logFile)
      PROVE  logFile[k] = <<logFile[k][1], logFile[k][2]>> /\ logFile[k][2] \in 1 .. MaxLines
  <2>1. logFile[k] \in Writer \X (1 .. MaxLines)
    BY ElementOfSeq DEF LogTypeOK
  <2> QED
    BY <2>1
<1>4. GoneOf(w)' = GoneOf(w) \cup NumbersOf(w)
  <2>1. ASSUME NEW x \in GoneOf(w)' PROVE x \in GoneOf(w) \cup NumbersOf(w)
    <3>1. CASE <<w, x>> \in gone
      BY <2>1, <3>1 DEF GoneOf
    <3>2. CASE <<w, x>> \notin gone
      <4>1. PICK k \in 1 .. Len(logFile) : <<w, x>> = logFile[k]
        BY <2>1, <3>2 DEF GoneOf, RemoveLog
      <4> QED
        BY <4>1 DEF NumbersOf
    <3> QED
      BY <3>1, <3>2
  <2>2. ASSUME NEW x \in NumbersOf(w) PROVE x \in GoneOf(w)'
    <3>1. PICK k \in 1 .. Len(logFile) : logFile[k][1] = w /\ x = logFile[k][2]
      BY <2>2 DEF NumbersOf
    <3>2. <<w, x>> = logFile[k] /\ x \in 1 .. MaxLines
      BY <1>3, <3>1
    <3> QED
      BY <3>2 DEF GoneOf, RemoveLog
  <2>3. GoneOf(w) \subseteq GoneOf(w)'
    BY DEF GoneOf, RemoveLog
  <2> QED
    BY <2>1, <2>2, <2>3
<1>5. 1 .. g \cup (g + 1) .. n = 1 .. n /\ (n + 1) .. n = {} /\ n \in 0 .. n
  OBVIOUS
<1> QED
  BY <1>1, <1>2, <1>4, <1>5 DEF WroteUpTo

LEMMA LogSteps ==
  ASSUME LogInv, NEW w \in Writer, Report(w) \/ Appended(w) \/ TransientError(w) \/ LastError(w)
  PROVE  LogInv'
<1> USE DEF LogInv, LogTypeOK, Attempts
<1>0. ASSUME UNCHANGED logFile PROVE InOrder' /\ \A v \in Writer : NumbersOf(v)' = NumbersOf(v)
  BY <1>0 DEF InOrder, NumbersOf
<1>5. RemovedWhenOver' /\ \A v \in Writer : GoneOf(v)' = GoneOf(v)
  BY DEF Report, Appended, TransientError, LastError, RemovedWhenOver, GoneOf
<1>6. ASSUME UNCHANGED logFile PROVE \A v \in Writer : \A n : WroteUpTo(v, n)' <=> WroteUpTo(v, n)
  BY <1>0, <1>5, <1>6 DEF WroteUpTo
<1>1. CASE Report(w)
  <2>1. LogTypeOK'
    BY <1>1, LogAssumption DEF Report
  <2>2. CircuitHolds(w)'
    BY <1>1, <1>0, <1>6, LogAssumption DEF Report, CircuitHolds, DoneWith
  <2>3. ASSUME NEW v \in Writer \ {w} PROVE CircuitHolds(v)'
    BY <1>1, <1>0, <1>5, OthersCircuitHolds DEF Report
  <2> QED
    BY <1>0, <1>1, <1>5, <2>1, <2>2, <2>3 DEF Report
<1>2. CASE Appended(w)
  <2>0. /\ trying[w] > 0 /\ reported[w] \in 1 .. MaxLines
        /\ WroteUpTo(w, reported[w] - 1)
        /\ logFile' = Append(logFile, <<w, reported[w]>>)
    BY <1>2, LogAssumption DEF Appended, CircuitHolds, DoneWith
  <2>1. LogTypeOK'
    BY <1>2, <2>0, LogAssumption DEF Appended
  <2>2. \A v \in Writer : NumbersOf(v)' =
          IF v = w THEN NumbersOf(v) \cup {reported[w]} ELSE NumbersOf(v)
    BY <2>0, NumbersAfterAppend
  <2>3. CircuitHolds(w)'
    <3>1. WroteUpTo(w, reported[w])'
      <4>1. PICK g \in 0 .. (reported[w] - 1) :
              GoneOf(w) = 1 .. g /\ NumbersOf(w) = (g + 1) .. (reported[w] - 1)
        BY <2>0 DEF WroteUpTo
      <4>2. \A n \in Nat \ {0} : \A m \in 0 .. (n - 1) :
              (m + 1) .. (n - 1) \cup {n} = (m + 1) .. n /\ m \in 0 .. n
        OBVIOUS
      <4>3. reported[w] \in Nat \ {0} /\ reported'[w] = reported[w]
        BY <1>2, <2>0, LogAssumption DEF Appended
      <4>4. NumbersOf(w)' = (g + 1) .. reported[w] /\ g \in 0 .. reported[w]
        BY <2>2, <4>1, <4>2, <4>3
      <4> QED
        BY <1>5, <4>1, <4>3, <4>4 DEF WroteUpTo
    <3>2. /\ trying'[w] = 0 /\ reported'[w] = reported[w]
          /\ ~open'[w] /\ diagnosed'[w] = 0
      BY <1>2, <2>0 DEF Appended, CircuitHolds
    <3>3. DoneWith(w)' = reported[w]
      BY <2>0, <3>2 DEF DoneWith
    <3> QED
      BY <3>1, <3>2, <3>3 DEF CircuitHolds
  <2>4. ASSUME NEW v \in Writer \ {w} PROVE CircuitHolds(v)'
    BY <1>2, <1>5, <2>2, OthersCircuitHolds DEF Appended
  <2>5. InOrder'
    <3>1. /\ Len(logFile) \in Nat /\ Len(logFile') = Len(logFile) + 1
          /\ logFile'[Len(logFile) + 1] = <<w, reported[w]>>
          /\ \A k \in 1 .. Len(logFile) : logFile'[k] = logFile[k]
      BY <2>0
    <3>2. ASSUME NEW k \in 1 .. Len(logFile), logFile[k][1] = w
          PROVE  logFile[k][2] < reported[w]
      <4>1. logFile[k][2] \in NumbersOf(w)
        BY <3>2 DEF NumbersOf
      <4>2. PICK g \in 0 .. (reported[w] - 1) : NumbersOf(w) = (g + 1) .. (reported[w] - 1)
        BY <2>0 DEF WroteUpTo
      <4>3. \A n \in Nat : \A m \in (g + 1) .. (n - 1) : m < n
        OBVIOUS
      <4>4. reported[w] \in Nat
        BY <2>0, LogAssumption
      <4> QED
        BY <4>1, <4>2, <4>3, <4>4, Zenon
    <3> SUFFICES ASSUME NEW i \in 1 .. (Len(logFile) + 1), NEW j \in 1 .. (Len(logFile) + 1),
                        i < j, logFile'[i][1] = logFile'[j][1]
                 PROVE  logFile'[i][2] < logFile'[j][2]
      BY <3>1 DEF InOrder
    <3>3. i \in 1 .. Len(logFile)
      <4>1. \A m \in Nat : \A a, b \in 1 .. (m + 1) : a < b => a \in 1 .. m
        OBVIOUS
      <4> QED BY <3>1, <4>1, Zenon
    <3>4. CASE j = Len(logFile) + 1
      <4>1. logFile'[j] = <<w, reported[w]>> /\ logFile'[i] = logFile[i]
        BY <3>1, <3>3, <3>4, Zenon
      <4>2. logFile[i][1] = w
        BY <4>1
      <4>3. logFile[i][2] < reported[w]
        BY <3>2, <3>3, <4>2, Zenon
      <4> QED BY <4>1, <4>3
    <3>5. CASE j # Len(logFile) + 1
      <4>0. \A m \in Nat : \A k \in 1 .. (m + 1) : k # m + 1 => k \in 1 .. m
        OBVIOUS
      <4>1. j \in 1 .. Len(logFile)
        BY <3>1, <3>5, <4>0, Zenon
      <4>2. logFile[i][1] = logFile[j][1]
        BY <3>1, <3>3, <4>1
      <4>3. logFile[i][2] < logFile[j][2]
        BY <3>3, <4>1, <4>2 DEF InOrder
      <4> QED
        BY <3>1, <3>3, <4>1, <4>3
    <3> QED
      BY <3>4, <3>5
  <2> QED
    BY <1>5, <2>1, <2>3, <2>4, <2>5
<1>3. CASE TransientError(w)
  <2>1. LogTypeOK'
    BY <1>3, LogAssumption DEF TransientError
  <2>2. CircuitHolds(w)'
    BY <1>3, <1>0, <1>6, LogAssumption DEF TransientError, CircuitHolds, DoneWith
  <2>3. ASSUME NEW v \in Writer \ {w} PROVE CircuitHolds(v)'
    BY <1>3, <1>0, <1>5, OthersCircuitHolds DEF TransientError
  <2> QED
    BY <1>0, <1>3, <1>5, <2>1, <2>2, <2>3 DEF TransientError
<1>4. CASE LastError(w)
  <2>0. ~open[w] /\ diagnosed[w] = 0 /\ reported[w] \in 1 .. MaxLines
    BY <1>4, LogAssumption DEF LastError, CircuitHolds
  <2>1. LogTypeOK'
    BY <1>4, <2>0, LogAssumption DEF LastError
  <2>2. CircuitHolds(w)'
    BY <1>4, <1>0, <1>6, <2>0, LogAssumption DEF LastError, CircuitHolds, DoneWith
  <2>3. ASSUME NEW v \in Writer \ {w} PROVE CircuitHolds(v)'
    BY <1>4, <1>0, <1>5, OthersCircuitHolds DEF LastError
  <2> QED
    BY <1>0, <1>4, <1>5, <2>1, <2>2, <2>3 DEF LastError
<1> QED
  BY <1>1, <1>2, <1>3, <1>4

\* The end of the record and the removal of the log.
LEMMA RecordSteps ==
  ASSUME LogInv, EndRecord \/ RemoveLog
  PROVE  LogInv'
<1> USE DEF LogInv
<1>1. CASE EndRecord
  <2>1. LogTypeOK' /\ InOrder' /\ RemovedWhenOver'
    BY <1>1 DEF EndRecord, LogTypeOK, InOrder, RemovedWhenOver
  <2>2. ASSUME NEW w \in Writer PROVE CircuitHolds(w)'
    BY <1>1, OthersCircuitHolds DEF EndRecord, NumbersOf, GoneOf
  <2> QED
    BY <2>1, <2>2
<1>2. CASE RemoveLog
  <2>1. LogTypeOK' /\ InOrder' /\ RemovedWhenOver'
    <3>1. {logFile[i] : i \in 1 .. Len(logFile)} \subseteq Writer \X (1 .. MaxLines)
      BY DEF LogTypeOK
    <3> QED
      BY <1>2, <3>1 DEF RemoveLog, LogTypeOK, InOrder, RemovedWhenOver
  <2>2. ASSUME NEW w \in Writer PROVE CircuitHolds(w)'
    <3>1. UNCHANGED <<trying, reported, open, diagnosed>> /\ DoneWith(w)' = DoneWith(w)
      BY <1>2 DEF RemoveLog, DoneWith
    <3>2. CASE open[w]
      <4>1. PICK n \in 0 .. (reported[w] - 1) : WroteUpTo(w, n)
        BY <3>2 DEF CircuitHolds
      <4>2. WroteUpTo(w, n)'
        BY <1>2, <4>1, RemovalKeeps
      <4> QED
        BY <3>1, <3>2, <4>1, <4>2 DEF CircuitHolds
    <3>3. CASE ~open[w]
      <4>1. DoneWith(w) \in Nat
        BY LogAssumption DEF LogTypeOK, CircuitHolds, DoneWith, Attempts
      <4>2. WroteUpTo(w, DoneWith(w))'
        <5>1. WroteUpTo(w, DoneWith(w))
          BY <3>3 DEF CircuitHolds
        <5>2. PICK n \in Nat : n = DoneWith(w)
          BY <4>1
        <5>3. WroteUpTo(w, n)'
          BY <1>2, <5>1, <5>2, RemovalKeeps
        <5> QED
          BY <3>1, <5>2, <5>3
      <4> QED
        BY <3>1, <3>3, <4>2 DEF CircuitHolds
    <3> QED
      BY <3>2, <3>3
  <2> QED
    BY <2>1, <2>2
<1> QED
  BY <1>1, <1>2

THEOREM LogInvariance == LogSpec => []LogInv
<1>1. LogInit => LogInv
  <2> SUFFICES ASSUME LogInit PROVE LogInv
    OBVIOUS
  <2>1. LogTypeOK
    <3>1. logFile \in Seq(Writer \X (1 .. MaxLines))
      BY EmptySeq DEF LogInit
    <3>2. 0 \in 0 .. MaxLines /\ 0 \in 0 .. Attempts
      BY LogAssumption DEF Attempts
    <3>3. recordOver \in BOOLEAN /\ gone \subseteq Writer \X (1 .. MaxLines)
      BY DEF LogInit
    <3>4. /\ reported \in [Writer -> 0 .. MaxLines] /\ trying \in [Writer -> 0 .. Attempts]
          /\ open \in [Writer -> BOOLEAN] /\ diagnosed \in [Writer -> 0 .. MaxLines]
      BY <3>2 DEF LogInit
    <3> QED
      BY <3>1, <3>3, <3>4 DEF LogTypeOK
  <2>2. Len(logFile) = 0 /\ InOrder /\ RemovedWhenOver
    BY DEF LogInit, InOrder, RemovedWhenOver
  <2>3. ASSUME NEW w \in Writer PROVE CircuitHolds(w)
    <3>1. NumbersOf(w) = {} /\ GoneOf(w) = {} /\ DoneWith(w) = 0 /\ 1 .. 0 = {}
      BY <2>2 DEF LogInit, NumbersOf, GoneOf, DoneWith
    <3> QED
      BY <3>1 DEF LogInit, CircuitHolds, WroteUpTo
  <2> QED
    BY <2>1, <2>2, <2>3 DEF LogInv
<1>2. LogInv /\ [LogNext]_logVars => LogInv'
  <2> SUFFICES ASSUME LogInv, [LogNext]_logVars PROVE LogInv'
    OBVIOUS
  <2>1. CASE UNCHANGED logVars
    <3>1. LogTypeOK' /\ InOrder' /\ RemovedWhenOver'
      BY <2>1 DEF logVars, LogInv, LogTypeOK, InOrder, RemovedWhenOver
    <3>2. ASSUME NEW w \in Writer PROVE CircuitHolds(w)'
      BY <2>1, OthersCircuitHolds DEF logVars, LogInv, NumbersOf, GoneOf
    <3> QED
      BY <3>1, <3>2 DEF LogInv
  <2>2. CASE LogNext
    BY <2>2, LogSteps, RecordSteps DEF LogNext
  <2> QED
    BY <2>1, <2>2
<1> QED
  BY <1>1, <1>2, PTL DEF LogSpec

\* What any of any number of processes has in the log is a stretch of what it
\* reported, in order; its beginning is missing only where the log of a job that
\* was over has been removed, and a missing end is announced once.
THEOREM LogsHaveNoHoles == LogSpec => []LogHasNoHoles
<1>1. LogInv => LogHasNoHoles
  <2> SUFFICES ASSUME LogInv, NEW w \in Writer
               PROVE  \E n \in 0 .. DoneWith(w) :
                        /\ WroteUpTo(w, n)
                        /\ diagnosed[w] = IF n = DoneWith(w) THEN 0 ELSE 1
    BY DEF LogInv, LogHasNoHoles, RemovedWhenOver
  <2>0. LogTypeOK /\ CircuitHolds(w)
    BY DEF LogInv
  <2>1. CASE open[w]
    <3>1. trying[w] = 0 /\ reported[w] \in Nat
      <4>1. reported[w] \in 0 .. MaxLines /\ trying[w] \in 0 .. 3
        BY <2>0 DEF LogTypeOK, Attempts
      <4>2. ~(trying[w] > 0)
        BY <2>0, <2>1 DEF CircuitHolds
      <4> QED
        BY <4>1, <4>2, LogAssumption
    <3>2. DoneWith(w) = reported[w]
      BY <3>1 DEF DoneWith
    <3>3. PICK n \in 0 .. (reported[w] - 1) : WroteUpTo(w, n)
      BY <2>0, <2>1 DEF CircuitHolds
    <3>4. n \in 0 .. DoneWith(w) /\ n # DoneWith(w)
      BY <3>1, <3>2
    <3> QED
      BY <2>0, <2>1, <3>3, <3>4 DEF CircuitHolds
  <2>2. CASE ~open[w]
    <3>1. DoneWith(w) \in Nat
      BY <2>0, LogAssumption DEF LogTypeOK, CircuitHolds, DoneWith, Attempts
    <3>2. DoneWith(w) \in 0 .. DoneWith(w)
      BY <3>1
    <3> QED
      BY <2>0, <2>2, <3>2 DEF CircuitHolds
  <2> QED
    BY <2>1, <2>2
<1> QED
  BY <1>1, LogInvariance, PTL

-----------------------------------------------------------------------------
(* ReviewBudget *)

\* A review without a record is the one its reviewer is about to write; the one
\* a reviewer runs has an active record.
OneUnderway ==
  /\ \A r \in Review : made[r].by = Nobody => reviewRecord[r] = "none"
  /\ \A r \in Review : made[r].by # Nobody /\ reviewRecord[r] = "none" =>
       doing[made[r].by] = "made" /\ review[made[r].by] = r
  /\ \A p \in Reviewer : doing[p] \in {"made", "running"} =>
       /\ review[p] \in Review /\ made[review[p]].by = p
       /\ reviewRecord[review[p]] = IF doing[p] = "made" THEN "none" ELSE "active"

BudgetInv == BudgetTypeOK /\ OneUnderway /\ OverrunBounded

\* The three numbers of OverrunBounded are numbers.
LEMMA BudgetFinite ==
  /\ IsFiniteSet(Review) /\ IsFiniteSet(Caller) /\ Cardinality(Caller) \in Nat
  /\ IsFiniteSet(Counted) /\ Cardinality(Counted) \in Nat
  /\ IsFiniteSet(Unwritten) /\ Cardinality(Unwritten) \in Nat
  /\ IsFiniteSet(Allowed) /\ Cardinality(Allowed) \in Nat
<1>1. IsFiniteSet(Review)
  BY FS_Interval, BudgetAssumption DEF Review
<1>2. Counted \subseteq Review /\ Unwritten \subseteq Review /\ Allowed \subseteq Caller
  BY DEF Counted, Listed, Unwritten, Allowed
<1>3. IsFiniteSet(Counted) /\ IsFiniteSet(Unwritten) /\ IsFiniteSet(Allowed)
  BY <1>1, <1>2, FS_Subset, BudgetAssumption
<1> QED
  BY <1>1, <1>3, FS_CardinalityType, BudgetAssumption

\* Three sets that do not grow keep the bound.
LEMMA BoundRemains ==
  ASSUME OverrunBounded,
         Counted' \subseteq Counted, Unwritten' \subseteq Unwritten, Allowed' \subseteq Allowed
  PROVE  OverrunBounded'
<1>1. /\ Cardinality(Counted') <= Cardinality(Counted) /\ Cardinality(Counted') \in Nat
      /\ Cardinality(Unwritten') <= Cardinality(Unwritten) /\ Cardinality(Unwritten') \in Nat
      /\ Cardinality(Allowed') <= Cardinality(Allowed) /\ Cardinality(Allowed') \in Nat
  BY BudgetFinite, FS_Subset, FS_CardinalityType
<1> QED
  BY <1>1, BudgetFinite, BudgetAssumption DEF OverrunBounded

\* Each counted review without a record is of a caller of its own, and none of
\* these is between its check and its review.
UnderwayFit == Cardinality(Unwritten) + Cardinality(Allowed) <= Cardinality(Caller)
LEMMA UnwrittenAreOfCallers == OneUnderway => UnderwayFit
<1> SUFFICES ASSUME OneUnderway PROVE UnderwayFit
  OBVIOUS
<1> DEFINE Making == {p \in Caller : doing[p] = "made"}
           maker == [r \in Unwritten |-> made[r].by]
<1>1. \A r \in Unwritten : made[r].by \in Making /\ review[made[r].by] = r
  BY BudgetAssumption DEF Unwritten, NotUser, OneUnderway, Nobody
<1>2. maker \in Injection(Unwritten, Making)
  BY <1>1 DEF Injection, IsInjective
<1>3. IsFiniteSet(Making) /\ Cardinality(Making) \in Nat
  BY FS_Subset, FS_CardinalityType, BudgetAssumption
<1>4. Cardinality(Unwritten) <= Cardinality(Making)
  BY <1>2, <1>3, FS_Injection
<1>5. Making \cap Allowed = {} /\ Making \cup Allowed \subseteq Caller
  BY DEF Allowed
<1>6. Cardinality(Making \cup Allowed) = Cardinality(Making) + Cardinality(Allowed)
  <2> HIDE DEF Making
  <2>1. IsFiniteSet(Allowed) /\ Cardinality(Making \cap Allowed) = 0 /\ Cardinality(Allowed) \in Nat
    BY <1>5, BudgetFinite, FS_EmptySet
  <2>2. Cardinality(Making \cup Allowed)
          = Cardinality(Making) + Cardinality(Allowed) - Cardinality(Making \cap Allowed)
    BY <1>3, <2>1, FS_Union
  <2> QED
    BY <1>3, <2>1, <2>2
<1>7. Cardinality(Making \cup Allowed) <= Cardinality(Caller)
  BY <1>5, BudgetFinite, FS_Subset
<1> QED
  BY <1>3, <1>4, <1>6, <1>7, BudgetFinite DEF UnderwayFit

\* What a writing does to the records: its own, and those that had ended.
LEMMA WritingPrunes ==
  ASSUME BudgetTypeOK, NEW p \in Reviewer, NEW status \in {"active", "ended"},
         review[p] \in Review, WriteAndPrune(p, status)
  PROVE  /\ reviewRecord' \in [Review -> {"none", "active", "ended", "pruned", "removed"}]
         /\ \A r \in Review \ {review[p]} :
              \/ reviewRecord'[r] = reviewRecord[r]
              \/ reviewRecord[r] = "ended" /\ reviewRecord'[r] = "pruned"
         /\ reviewRecord'[review[p]] \in IF status = "active" THEN {"active"} ELSE {"ended", "pruned"}
BY DEF WriteAndPrune, BudgetTypeOK

\* A check lets a caller pass with room for its review, so that the callers
\* underway may overrun the budget, but none twice.
LEMMA CheckPreserves ==
  ASSUME BudgetInv, NEW p \in Reviewer, Check(p)
  PROVE  BudgetInv'
<1> USE DEF BudgetInv
<1>1. BudgetTypeOK'
  BY DEF Check, BudgetTypeOK
<1>2. OneUnderway'
  BY DEF Check, OneUnderway, BudgetTypeOK
<1>3. Counted' = Counted /\ Unwritten' = Unwritten
  BY DEF Check, Counted, Unwritten, Listed, NotUser, InWindow
<1>4. OverrunBounded'
  <2>1. CASE p \in Caller
    <3>1. Cardinality(Counted) < Count
      BY <2>1 DEF Check, WithinBudget
    <3>2. Cardinality(Unwritten') + Cardinality(Allowed') <= Cardinality(Caller)
      <4>1. UnderwayFit'
        BY <1>2, UnwrittenAreOfCallers, PTL
      <4> QED
        BY <4>1 DEF UnderwayFit
    <3>3. Cardinality(Allowed') \in Nat
      <4>1. Allowed' \subseteq Caller
        BY DEF Allowed
      <4> QED
        BY <4>1, BudgetFinite, FS_Subset, FS_CardinalityType
    <3> QED
      BY <1>3, <3>1, <3>2, <3>3, BudgetFinite, BudgetAssumption DEF OverrunBounded
  <2>2. CASE p \notin Caller
    <3>1. Allowed' = Allowed
      BY <2>2 DEF Allowed, Check, BudgetTypeOK, Reviewer
    <3> QED
      BY <1>3, <3>1, BoundRemains
  <2> QED
    BY <2>1, <2>2
<1> QED
  BY <1>1, <1>2, <1>4

\* A review that is made takes the place of its caller's permission.
LEMMA MakePreserves ==
  ASSUME BudgetInv, NEW p \in Reviewer, MakeRecord(p)
  PROVE  BudgetInv'
<1> USE DEF BudgetInv
<1>0. Nobody \notin Reviewer /\ doing[p] = "checked"
  BY BudgetAssumption DEF Reviewer, Nobody, MakeRecord
<1>1. ASSUME NEW r \in Review, made[r].by = Nobody,
             made' = [made EXCEPT ![r] = [by |-> p, time |-> now]],
             review' = [review EXCEPT ![p] = r],
             doing' = [doing EXCEPT ![p] = "made"]
      PROVE  BudgetInv'
  <2> USE <1>1
  <2>0. UNCHANGED <<now, reviewRecord>> /\ reviewRecord[r] = "none" /\ made'[r].by = p
        /\ made'[r].time = now
    BY DEF MakeRecord, OneUnderway, BudgetTypeOK
  <2>1. BudgetTypeOK'
    BY <2>0 DEF BudgetTypeOK, Review
  <2>2. OneUnderway'
    BY <1>0, <2>0 DEF OneUnderway, BudgetTypeOK
  <2>3. Counted' = Counted
    BY <2>0 DEF Counted, Listed, NotUser, InWindow, BudgetTypeOK
  <2>4. CASE p \in Caller
    <3>1. Unwritten' \subseteq Unwritten \cup {r}
      BY <2>0 DEF Unwritten, NotUser, InWindow, BudgetTypeOK
    <3>2. Allowed' = Allowed \ {p} /\ p \in Allowed
      BY <2>4, <1>0 DEF Allowed, BudgetTypeOK, Reviewer
    <3>3. /\ Cardinality(Allowed') = Cardinality(Allowed) - 1
      BY <3>2, BudgetFinite, FS_RemoveElement
    <3>4. /\ Cardinality(Unwritten') <= Cardinality(Unwritten) + 1
          /\ Cardinality(Unwritten') \in Nat
      <4>0. /\ IsFiniteSet(Unwritten \cup {r})
            /\ Cardinality(Unwritten \cup {r}) =
                 IF r \in Unwritten THEN Cardinality(Unwritten) ELSE Cardinality(Unwritten) + 1
        BY BudgetFinite, FS_AddElement
      <4>1. /\ IsFiniteSet(Unwritten \cup {r})
            /\ Cardinality(Unwritten \cup {r}) <= Cardinality(Unwritten) + 1
            /\ Cardinality(Unwritten \cup {r}) \in Nat
        BY <4>0, BudgetFinite
      <4>2. /\ Cardinality(Unwritten') <= Cardinality(Unwritten \cup {r})
            /\ IsFiniteSet(Unwritten')
        BY <3>1, <4>1, FS_Subset
      <4> QED
        BY <4>1, <4>2, BudgetFinite, FS_CardinalityType
    <3>5. OverrunBounded'
      BY <2>3, <3>3, <3>4, BudgetFinite, BudgetAssumption DEF OverrunBounded
    <3> QED
      BY <2>1, <2>2, <3>5
  <2>5. CASE p \notin Caller
    <3>1. Unwritten' = Unwritten
      BY <2>0, <2>5, BudgetAssumption DEF Unwritten, NotUser, InWindow, BudgetTypeOK, Nobody
    <3>2. Allowed' = Allowed
      BY <2>5 DEF Allowed, BudgetTypeOK, Reviewer
    <3> QED
      BY <2>1, <2>2, <2>3, <3>1, <3>2, BoundRemains
  <2> QED
    BY <2>4, <2>5
<1>2. ASSUME doing' = [doing EXCEPT ![p] = "idle"], UNCHANGED <<made, review>>
      PROVE  BudgetInv'
  <2> USE <1>2
  <2>0. UNCHANGED <<now, reviewRecord>>
    BY DEF MakeRecord
  <2>1. BudgetTypeOK'
    BY <2>0 DEF BudgetTypeOK
  <2>2. OneUnderway'
    BY <1>0, <2>0 DEF OneUnderway, BudgetTypeOK
  <2>3. Counted' = Counted /\ Unwritten' = Unwritten
    BY <2>0 DEF Counted, Unwritten, Listed, NotUser, InWindow
  <2>4. Allowed' \subseteq Allowed
    BY DEF Allowed, BudgetTypeOK, Reviewer
  <2> QED
    BY <2>1, <2>2, <2>3, <2>4, BoundRemains
<1> QED
  BY <1>1, <1>2 DEF MakeRecord

\* A record that is written counts in the place of its review.
LEMMA WritePreserves ==
  ASSUME BudgetInv, NEW p \in Reviewer, WriteRecord(p)
  PROVE  BudgetInv'
<1> USE DEF BudgetInv
<1> DEFINE r == review[p]
<1>0. /\ doing[p] = "made" /\ r \in Review /\ made[r].by = p /\ reviewRecord[r] = "none"
      /\ doing' = [doing EXCEPT ![p] = "running"] /\ UNCHANGED <<now, review, made>>
      /\ WriteAndPrune(p, "active")
  BY DEF WriteRecord, OneUnderway
<1>1. /\ reviewRecord' \in [Review -> {"none", "active", "ended", "pruned", "removed"}]
      /\ \A q \in Review \ {r} :
           \/ reviewRecord'[q] = reviewRecord[q]
           \/ reviewRecord[q] = "ended" /\ reviewRecord'[q] = "pruned"
      /\ reviewRecord'[r] = "active"
  BY <1>0, WritingPrunes
<1> HIDE DEF r
<1>2. BudgetTypeOK'
  BY <1>0, <1>1 DEF BudgetTypeOK
<1>3. OneUnderway'
  <2>1. \A q \in Review : made'[q].by = Nobody => reviewRecord'[q] = "none"
    BY <1>0, <1>1, BudgetAssumption DEF OneUnderway, Reviewer, Nobody
  <2>2. ASSUME NEW q \in Review, made'[q].by # Nobody, reviewRecord'[q] = "none"
        PROVE  doing'[made'[q].by] = "made" /\ review'[made'[q].by] = q
    <3>1. q # r /\ reviewRecord[q] = "none" /\ made[q].by # Nobody
      BY <1>0, <1>1, <2>2
    <3>2. doing[made[q].by] = "made" /\ review[made[q].by] = q /\ made[q].by # p
      BY <3>1 DEF OneUnderway, r
    <3> QED
      BY <1>0, <3>1, <3>2 DEF BudgetTypeOK
  <2>3. ASSUME NEW q \in Reviewer, doing'[q] \in {"made", "running"}
        PROVE  /\ review'[q] \in Review /\ made'[review'[q]].by = q
               /\ reviewRecord'[review'[q]] = IF doing'[q] = "made" THEN "none" ELSE "active"
    <3>1. CASE q = p
      BY <1>0, <1>1, <3>1 DEF BudgetTypeOK, r
    <3>2. CASE q # p
      <4>1. doing'[q] = doing[q] /\ review'[q] = review[q]
        BY <1>0, <3>2 DEF BudgetTypeOK
      <4>2. /\ review[q] \in Review /\ made[review[q]].by = q
            /\ reviewRecord[review[q]] = IF doing[q] = "made" THEN "none" ELSE "active"
        BY <2>3, <4>1 DEF OneUnderway
      <4>3. reviewRecord'[review[q]] = reviewRecord[review[q]]
        BY <1>0, <1>1, <3>2, <4>2
      <4> QED
        BY <1>0, <4>1, <4>2, <4>3
    <3> QED
      BY <3>1, <3>2
  <2> QED
    BY <2>1, <2>2, <2>3 DEF OneUnderway
<1>4. Allowed' = Allowed
  BY <1>0 DEF Allowed, BudgetTypeOK
<1>5. \A q \in Review : (NotUser(q)' <=> NotUser(q)) /\ (InWindow(q)' <=> InWindow(q))
  BY <1>0 DEF NotUser, InWindow
<1>6. CASE r \in Unwritten
  <2>1. Counted' \subseteq Counted \cup {r}
    BY <1>1, <1>5 DEF Counted, Listed
  <2>2. Unwritten' \subseteq Unwritten \ {r}
    BY <1>1, <1>5 DEF Unwritten
  <2>3. /\ IsFiniteSet(Counted \cup {r})
        /\ Cardinality(Counted \cup {r}) =
             IF r \in Counted THEN Cardinality(Counted) ELSE Cardinality(Counted) + 1
    BY BudgetFinite, FS_AddElement
  <2>4. /\ IsFiniteSet(Unwritten \ {r})
        /\ Cardinality(Unwritten \ {r}) = Cardinality(Unwritten) - 1
    BY <1>6, BudgetFinite, FS_RemoveElement
  <2>5. /\ Cardinality(Counted') <= Cardinality(Counted \cup {r}) /\ Cardinality(Counted') \in Nat
        /\ Cardinality(Unwritten') <= Cardinality(Unwritten \ {r}) /\ Cardinality(Unwritten') \in Nat
    BY <2>1, <2>2, <2>3, <2>4, FS_Subset, FS_CardinalityType
  <2>6. Cardinality(Counted') <= Cardinality(Counted) + 1
    BY <2>3, <2>5, BudgetFinite
  <2>7. OverrunBounded'
    BY <1>4, <2>4, <2>5, <2>6, BudgetFinite, BudgetAssumption DEF OverrunBounded
  <2> QED
    BY <1>2, <1>3, <2>7
<1>7. CASE r \notin Unwritten
  <2>1. ~(NotUser(r) /\ InWindow(r))
    BY <1>0, <1>7 DEF Unwritten
  <2>2. Counted' \subseteq Counted /\ Unwritten' \subseteq Unwritten
    BY <1>1, <1>5, <2>1 DEF Counted, Listed, Unwritten
  <2> QED
    BY <1>2, <1>3, <1>4, <2>2, BoundRemains
<1> QED
  BY <1>6, <1>7

\* The end of a review, the end of a session and the passing of time only take
\* reviews out of the count.
LEMMA EndPreserves ==
  ASSUME BudgetInv, NEW p \in Reviewer, EndReview(p)
  PROVE  BudgetInv'
<1> USE DEF BudgetInv
<1> DEFINE r == review[p]
<1>0. /\ doing[p] = "running" /\ r \in Review /\ made[r].by = p /\ reviewRecord[r] = "active"
      /\ doing' = [doing EXCEPT ![p] = "idle"] /\ review' = [review EXCEPT ![p] = 0]
      /\ UNCHANGED <<now, made>> /\ WriteAndPrune(p, "ended")
  BY DEF EndReview, OneUnderway
<1>1. /\ reviewRecord' \in [Review -> {"none", "active", "ended", "pruned", "removed"}]
      /\ \A q \in Review \ {r} :
           \/ reviewRecord'[q] = reviewRecord[q]
           \/ reviewRecord[q] = "ended" /\ reviewRecord'[q] = "pruned"
      /\ reviewRecord'[r] \in {"ended", "pruned"}
  BY <1>0, WritingPrunes
<1> HIDE DEF r
<1>2. BudgetTypeOK'
  BY <1>0, <1>1, BudgetAssumption DEF BudgetTypeOK
<1>3. OneUnderway'
  <2>1. \A q \in Review : made'[q].by = Nobody => reviewRecord'[q] = "none"
    BY <1>0, <1>1, BudgetAssumption DEF OneUnderway, Reviewer, Nobody
  <2>2. ASSUME NEW q \in Review, made'[q].by # Nobody, reviewRecord'[q] = "none"
        PROVE  doing'[made'[q].by] = "made" /\ review'[made'[q].by] = q
    <3>1. q # r /\ reviewRecord[q] = "none" /\ made[q].by # Nobody
      BY <1>0, <1>1, <2>2
    <3>2. doing[made[q].by] = "made" /\ review[made[q].by] = q /\ made[q].by # p
      BY <3>1 DEF OneUnderway, r
    <3> QED
      BY <1>0, <3>1, <3>2 DEF BudgetTypeOK
  <2>3. ASSUME NEW q \in Reviewer, doing'[q] \in {"made", "running"}
        PROVE  /\ review'[q] \in Review /\ made'[review'[q]].by = q
               /\ reviewRecord'[review'[q]] = IF doing'[q] = "made" THEN "none" ELSE "active"
    <3>1. q # p /\ doing'[q] = doing[q] /\ review'[q] = review[q]
      BY <1>0, <2>3 DEF BudgetTypeOK
    <3>2. /\ review[q] \in Review /\ made[review[q]].by = q
          /\ reviewRecord[review[q]] = IF doing[q] = "made" THEN "none" ELSE "active"
      BY <2>3, <3>1 DEF OneUnderway
    <3>3. reviewRecord'[review[q]] = reviewRecord[review[q]]
      BY <1>0, <1>1, <3>1, <3>2
    <3> QED
      BY <1>0, <3>1, <3>2, <3>3
  <2> QED
    BY <2>1, <2>2, <2>3 DEF OneUnderway
<1>4. Allowed' = Allowed
  BY <1>0 DEF Allowed, BudgetTypeOK
<1>5. \A q \in Review : (NotUser(q)' <=> NotUser(q)) /\ (InWindow(q)' <=> InWindow(q))
  BY <1>0 DEF NotUser, InWindow
<1>6. Counted' \subseteq Counted /\ Unwritten' \subseteq Unwritten
  BY <1>0, <1>1, <1>5 DEF Counted, Listed, Unwritten
<1> QED
  BY <1>2, <1>3, <1>4, <1>6, BoundRemains

LEMMA SessionEndPreserves ==
  ASSUME BudgetInv, SessionEnds
  PROVE  BudgetInv'
<1> USE DEF BudgetInv
<1>0. UNCHANGED <<now, made>>
  BY DEF SessionEnds
<1>1. /\ reviewRecord' \in [Review -> {"none", "active", "ended", "pruned", "removed"}]
      /\ \A q \in Review :
           \/ reviewRecord'[q] = reviewRecord[q]
           \/ /\ made[q].by \in Ending /\ reviewRecord[q] \in {"active", "ended"}
              /\ reviewRecord'[q] \in {"ended", "removed"}
  BY DEF SessionEnds, BudgetTypeOK
<1>2. /\ doing' = [q \in Reviewer |-> IF q \in Ending /\ doing[q] = "running" THEN "idle" ELSE doing[q]]
      /\ review' = [q \in Reviewer |-> IF q \in Ending /\ doing[q] = "running" THEN 0 ELSE review[q]]
  BY DEF SessionEnds
<1>3. BudgetTypeOK'
  BY <1>0, <1>1, <1>2, BudgetAssumption DEF BudgetTypeOK
<1>4. OneUnderway'
  <2>1. \A q \in Review : made'[q].by = Nobody => reviewRecord'[q] = "none"
    BY <1>0, <1>1 DEF OneUnderway
  <2>2. ASSUME NEW q \in Review, made'[q].by # Nobody, reviewRecord'[q] = "none"
        PROVE  doing'[made'[q].by] = "made" /\ review'[made'[q].by] = q
    <3>1. doing[made[q].by] = "made" /\ review[made[q].by] = q /\ made[q].by \in Reviewer
      BY <1>0, <1>1, <2>2 DEF OneUnderway, BudgetTypeOK
    <3> QED
      BY <1>0, <1>2, <3>1
  <2>3. ASSUME NEW q \in Reviewer, doing'[q] \in {"made", "running"}
        PROVE  /\ review'[q] \in Review /\ made'[review'[q]].by = q
               /\ reviewRecord'[review'[q]] = IF doing'[q] = "made" THEN "none" ELSE "active"
    <3>1. doing'[q] = doing[q] /\ review'[q] = review[q] /\ (doing[q] = "running" => q \notin Ending)
      BY <1>2, <2>3
    <3>2. /\ review[q] \in Review /\ made[review[q]].by = q
          /\ reviewRecord[review[q]] = IF doing[q] = "made" THEN "none" ELSE "active"
      BY <2>3, <3>1 DEF OneUnderway
    <3> QED
      BY <1>0, <1>1, <2>3, <3>1, <3>2
  <2> QED
    BY <2>1, <2>2, <2>3 DEF OneUnderway
<1>5. Allowed' = Allowed
  BY <1>2 DEF Allowed, Reviewer
<1>6. Counted' \subseteq Counted /\ Unwritten' \subseteq Unwritten
  BY <1>0, <1>1 DEF Counted, Listed, Unwritten, NotUser, InWindow
<1> QED
  BY <1>3, <1>4, <1>5, <1>6, BoundRemains

LEMMA TickPreserves ==
  ASSUME BudgetInv, Tick
  PROVE  BudgetInv'
<1> USE DEF BudgetInv, Tick
<1>1. BudgetTypeOK'
  BY BudgetAssumption DEF BudgetTypeOK
<1>2. OneUnderway'
  BY DEF OneUnderway
<1>3. Allowed' = Allowed
  BY DEF Allowed
<1>4. \A r \in Review : (NotUser(r)' <=> NotUser(r)) /\ (InWindow(r)' => InWindow(r))
  BY BudgetAssumption DEF NotUser, InWindow, BudgetTypeOK
<1>5. Counted' \subseteq Counted /\ Unwritten' \subseteq Unwritten
  BY <1>4 DEF Counted, Listed, Unwritten
<1> QED
  BY <1>1, <1>2, <1>3, <1>5, BoundRemains

THEOREM BudgetInvariance == BudgetSpec => []BudgetInv
<1>1. BudgetInit => BudgetInv
  <2> SUFFICES ASSUME BudgetInit PROVE BudgetInv
    OBVIOUS
  <2>1. BudgetTypeOK
    BY BudgetAssumption DEF BudgetInit, BudgetTypeOK
  <2>2. OneUnderway
    BY DEF BudgetInit, OneUnderway, Nobody
  <2>3. Counted = {} /\ Unwritten = {} /\ Allowed = {}
    BY BudgetAssumption
       DEF BudgetInit, Counted, Listed, Unwritten, Allowed, NotUser, Nobody, Reviewer
  <2>4. OverrunBounded
    BY <2>3, FS_EmptySet, BudgetFinite, BudgetAssumption DEF OverrunBounded
  <2> QED
    BY <2>1, <2>2, <2>4 DEF BudgetInv
<1>2. BudgetInv /\ [BudgetNext]_budgetVars => BudgetInv'
  <2> SUFFICES ASSUME BudgetInv, [BudgetNext]_budgetVars PROVE BudgetInv'
    OBVIOUS
  <2>1. CASE UNCHANGED budgetVars
    <3>1. BudgetTypeOK' /\ OneUnderway'
      BY <2>1 DEF BudgetInv, BudgetTypeOK, OneUnderway, budgetVars
    <3>2. Counted' = Counted /\ Unwritten' = Unwritten /\ Allowed' = Allowed
      BY <2>1 DEF budgetVars, Counted, Listed, Unwritten, Allowed, NotUser, InWindow
    <3> QED
      BY <3>1, <3>2, BoundRemains DEF BudgetInv
  <2>2. CASE \E p \in Reviewer : Check(p) \/ MakeRecord(p) \/ WriteRecord(p) \/ EndReview(p)
    BY <2>2, CheckPreserves, MakePreserves, WritePreserves, EndPreserves
  <2>3. CASE SessionEnds
    BY <2>3, SessionEndPreserves
  <2>4. CASE Tick
    BY <2>4, TickPreserves
  <2> QED
    BY <2>1, <2>2, <2>3, <2>4 DEF BudgetNext
<1> QED
  BY <1>1, <1>2, PTL DEF BudgetSpec

\* Any number of callers overrun any budget by no more than those of them that
\* were between the check and the record at the same time.
THEOREM OverrunIsBounded == BudgetSpec => []OverrunBounded
BY BudgetInvariance, PTL DEF BudgetInv

\* Every set of numbers has a least one, every set of reviews a newest one.
LEMMA LeastNatural ==
  ASSUME NEW T, T \subseteq Nat, T # {}
  PROVE  \E n \in T : \A m \in T : n <= m
<1>1. PICK n \in T : \A m \in T : ~(<<m, n>> \in OpToRel(<, Nat))
  BY NatLessThanWellFounded, WFMin, Zenon
<1>2. ASSUME NEW m \in T PROVE n <= m
  <2>1. ~(m < n)
    BY <1>1 DEF OpToRel
  <2> QED
    BY <2>1
<1> QED
  BY <1>2

LEMMA NewestReview ==
  ASSUME BudgetTypeOK, NEW D, D \subseteq Review, D # {}
  PROVE  \E m \in D : \A q \in D : ~Newer(q, m)
<1> DEFINE Ages == {MaxTime - made[q].time : q \in D}
<1>0. \A q \in D : made[q].time \in 0 .. MaxTime /\ q \in 1 .. MaxReview
  BY DEF BudgetTypeOK, Review
<1>1. PICK age \in Ages : \A a \in Ages : age <= a
  <2>1. Ages \subseteq Nat /\ Ages # {}
    BY <1>0, BudgetAssumption
  <2> QED
    BY <2>1, LeastNatural
<1>2. PICK latest \in D : \A q \in D : made[q].time <= made[latest].time
  <2>1. PICK latest \in D : age = MaxTime - made[latest].time
    OBVIOUS
  <2>2. ASSUME NEW q \in D PROVE made[q].time <= made[latest].time
    <3>1. MaxTime - made[latest].time <= MaxTime - made[q].time
      BY <1>1, <2>1
    <3> QED
      BY <1>0, <3>1, BudgetAssumption
  <2> QED
    BY <2>2
<1> DEFINE Latest == {q \in D : made[q].time = made[latest].time}
           Ranks == {MaxReview - q : q \in Latest}
<1>3. PICK rank \in Ranks : \A a \in Ranks : rank <= a
  <2>1. Ranks \subseteq Nat /\ Ranks # {}
    BY <1>0, BudgetAssumption
  <2> QED
    BY <2>1, LeastNatural
<1>4. PICK m \in Latest : \A q \in Latest : q <= m
  <2>1. PICK m \in Latest : rank = MaxReview - m
    OBVIOUS
  <2>2. ASSUME NEW q \in Latest PROVE q <= m
    <3>1. MaxReview - m <= MaxReview - q
      BY <1>3, <2>1
    <3> QED
      BY <1>0, <3>1, BudgetAssumption
  <2> QED
    BY <2>2
<1>5. ASSUME NEW q \in D PROVE ~Newer(q, m)
  BY <1>0, <1>2, <1>4, BudgetAssumption DEF Newer
<1> QED
  BY <1>4, <1>5

\* Whoever writes removes a review in the window only behind MaxRecent newer
\* ones: the newest of those that would be missing would have been retained.
LEMMA WritingKeepsWindow ==
  ASSUME BudgetTypeOK, NEW p \in Reviewer, NEW status \in {"active", "ended"},
         review[p] \in Review, WriteAndPrune(p, status),
         NEW r \in Review, reviewRecord[r] # "pruned", reviewRecord'[r] = "pruned", InWindow(r)
  PROVE  Cardinality({q \in Review : reviewRecord'[q] \in {"active", "ended"} /\ Newer(q, r)}) >= MaxRecent
<1> DEFINE rec == [reviewRecord EXCEPT ![review[p]] = status]
           NewerThan(m) == {q \in Listed(rec) : Recent(q) /\ Newer(q, m)}
           Left == {q \in Review : reviewRecord'[q] \in {"active", "ended"} /\ Newer(q, r)}
<1>0. \A q \in Review : made[q].time \in Nat /\ q \in Nat
  BY BudgetAssumption DEF BudgetTypeOK, Review
<1>1. \A q \in Review :
        reviewRecord'[q] # rec[q] => rec[q] = "ended" /\ ~Retained(rec, q)
  BY DEF WriteAndPrune
<1>2. rec[r] # "pruned"
  BY DEF BudgetTypeOK
<1>3. Recent(r) /\ ~Retained(rec, r)
  <2>1. ~Retained(rec, r)
    BY <1>1, <1>2
  <2>2. now \in Nat
    BY BudgetAssumption DEF BudgetTypeOK
  <2> QED
    BY <1>0, <2>1, <2>2, BudgetAssumption DEF InWindow, Recent
<1>4. \A m \in Review : /\ NewerThan(m) \subseteq Review /\ IsFiniteSet(NewerThan(m))
                         /\ Cardinality(NewerThan(m)) \in Nat
  <2> SUFFICES ASSUME NEW m \in Review
               PROVE  /\ NewerThan(m) \subseteq Review /\ IsFiniteSet(NewerThan(m))
                      /\ Cardinality(NewerThan(m)) \in Nat
    OBVIOUS
  <2>1. NewerThan(m) \subseteq Review
    BY DEF Listed
  <2>2. IsFiniteSet(NewerThan(m))
    BY <2>1, BudgetFinite, FS_Subset
  <2> QED
    BY <2>1, <2>2, FS_CardinalityType
<1>5. IsFiniteSet(Left) /\ Cardinality(Left) \in Nat
  <2>1. Left \subseteq Review
    OBVIOUS
  <2>2. IsFiniteSet(Left)
    BY <2>1, BudgetFinite, FS_Subset
  <2> QED
    BY <2>2, FS_CardinalityType
<1>6. \A m \in Review : Recent(m) /\ ~Retained(rec, m) => ~(Cardinality(NewerThan(m)) < MaxRecent)
  BY DEF Retained
<1>7. \A m \in NewerThan(r) : m \in Review /\ Newer(m, r) /\ Recent(m) /\ rec[m] \in {"active", "ended"}
  BY DEF Listed
<1>8. \A q, m \in Review : Newer(q, m) /\ Newer(m, r) => Newer(q, r)
  BY <1>0 DEF Newer
<1> HIDE DEF NewerThan, rec
<1> SUFFICES ASSUME Cardinality(Left) < MaxRecent PROVE FALSE
  BY <1>5, BudgetAssumption
<1>9. NewerThan(r) \ Left # {}
  <2> SUFFICES ASSUME NewerThan(r) \subseteq Left PROVE FALSE
    OBVIOUS
  <2>1. Cardinality(NewerThan(r)) <= Cardinality(Left)
    BY <1>5, FS_Subset
  <2> QED
    BY <1>3, <1>4, <1>5, <1>6, <2>1, BudgetAssumption
<1>10. PICK m \in NewerThan(r) \ Left : \A q \in NewerThan(r) \ Left : ~Newer(q, m)
  BY <1>4, <1>9, NewestReview
<1>11. m \in Review /\ Recent(m) /\ Newer(m, r) /\ ~Retained(rec, m)
  BY <1>1, <1>7, <1>10
<1>12. NewerThan(m) \subseteq Left
  <2>1. ASSUME NEW q \in NewerThan(m) PROVE q \in NewerThan(r) /\ Newer(q, m)
    BY <1>8, <1>11 DEF NewerThan, Listed
  <2> QED
    BY <1>10, <2>1
<1>13. Cardinality(NewerThan(m)) <= Cardinality(Left)
  BY <1>5, <1>12, FS_Subset
<1> QED
  BY <1>4, <1>5, <1>6, <1>11, <1>13, BudgetAssumption

\* No pruning takes a review out of the window for any budget, window and
\* retention that the configuration accepts, unless MaxRecent newer ones stay.
THEOREM WindowIsKept == BudgetSpec => PruningKeepsWindow
<1> DEFINE Kept ==
      \A r \in Review :
        reviewRecord[r] # "pruned" /\ reviewRecord'[r] = "pruned" /\ InWindow(r) =>
          Cardinality({q \in Review : reviewRecord'[q] \in {"active", "ended"} /\ Newer(q, r)}) >= MaxRecent
<1>1. BudgetInv /\ [BudgetNext]_budgetVars => [Kept]_budgetVars
  <2> SUFFICES ASSUME BudgetInv, BudgetNext PROVE Kept
    OBVIOUS
  <2>1. CASE \E p \in Reviewer : WriteRecord(p) \/ EndReview(p)
    <3>1. PICK p \in Reviewer : WriteRecord(p) \/ EndReview(p)
      BY <2>1
    <3>2. review[p] \in Review
      BY <3>1 DEF BudgetInv, OneUnderway, WriteRecord, EndReview
    <3>3. PICK status \in {"active", "ended"} : WriteAndPrune(p, status)
      BY <3>1 DEF WriteRecord, EndReview
    <3> QED
      BY <3>2, <3>3, WritingKeepsWindow DEF BudgetInv
  <2>2. CASE \E p \in Reviewer : Check(p) \/ MakeRecord(p)
    BY <2>2 DEF Check, MakeRecord
  <2>3. CASE SessionEnds
    BY <2>3 DEF SessionEnds
  <2>4. CASE Tick
    BY <2>4 DEF Tick
  <2> QED
    BY <2>1, <2>2, <2>3, <2>4 DEF BudgetNext
<1> QED
  BY <1>1, BudgetInvariance, PTL DEF BudgetSpec, PruningKeepsWindow

-----------------------------------------------------------------------------
(* MCWorkspace *)

\* Every part of the workspace behaves by its own specification, whatever the
\* others do: what is proved of a part holds of the workspace that TLC checks.
THEOREM PartsBehaveAlone ==
  AllSpec => Spec /\ StateSpec /\ AgentSpec /\ BudgetSpec /\ LogSpec /\ GateSpec /\ BatchSafeSpec
<1>1. AllInit => Init /\ StateInit /\ AgentInit /\ BudgetInit /\ LogInit /\ GateInit /\ BatchInit
  BY DEF AllInit
<1>2. [AllNext]_allVars =>
        /\ [Next]_vars /\ [StateNext]_stateVars /\ [AgentNext]_agentVars /\ [BudgetNext]_budgetVars
        /\ [LogNext]_logVars /\ [GateNext]_gateVars /\ [BatchNext]_batchVars
  BY DEF AllNext, allVars
<1> QED
  BY <1>1, <1>2, PTL
     DEF AllSpec, Spec, StateSpec, AgentSpec, BudgetSpec, LogSpec, GateSpec, BatchSafeSpec

\* Every variable of every part keeps its type, for any constants.
THEOREM AllTypesCorrect == AllSpec => []AllTypeOK
<1>1. /\ (StateInv => StateTypeOK) /\ (AgentInv => AgentTypeOK) /\ (BudgetInv => BudgetTypeOK)
      /\ (LogInv => LogTypeOK) /\ (BatchInv => BatchTypeOK)
  BY DEF StateInv, AgentInv, BudgetInv, LogInv, BatchInv
<1>2. AllTypeOK <=>
        /\ TypeOK /\ StateTypeOK /\ AgentTypeOK /\ BudgetTypeOK
        /\ LogTypeOK /\ GateTypeOK /\ BatchTypeOK
  BY DEF AllTypeOK
<1> QED
  BY <1>1, <1>2, PartsBehaveAlone, TypeCorrect, StateInvariance, AgentInvariance,
     BudgetInvariance, LogInvariance, GateTypeCorrect, BatchInvariance, PTL
=============================================================================
