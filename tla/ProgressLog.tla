----------------------------- MODULE ProgressLog -----------------------------
(***************************************************************************)
(* safeAppendFileSync (tracked-jobs.mjs): what a process reports goes to the *)
(* log of its job as long as the file takes it.  A transient error is tried  *)
(* again, twice; after that, or another error, the circuit of that file is   *)
(* open for the rest of the process, with one diagnostic.  A job has two     *)
(* processes on its log, the launcher and the worker, each with a circuit.   *)
(* Once its record is over, by the worker, a cancel or the end of its         *)
(* session, the job may be pruned or deleted and the log with it (state.mjs), *)
(* while they still report; the next append makes a new file.                *)
(***************************************************************************)
EXTENDS Naturals, Sequences

CONSTANTS
  Writer,     \* the processes
  MaxLines    \* bound: the lines each of them reports

ASSUME LogAssumption == MaxLines \in Nat

VARIABLES
  reported,   \* how many lines each has reported
  trying,     \* the attempts at the last one: 0 when it is done with
  open,       \* appendCircuitOpenByLogFile
  diagnosed,  \* its diagnostics
  logFile,    \* the lines in the file: <<writer, number>>; none without one
  recordOver, \* the job's record is not active any more
  gone        \* history: the lines that were in a file that is removed

logVars == <<reported, trying, open, diagnosed, logFile, recordOver, gone>>

Attempts == 3

LogInit ==
  /\ reported = [w \in Writer |-> 0]
  /\ trying = [w \in Writer |-> 0]
  /\ open = [w \in Writer |-> FALSE]
  /\ diagnosed = [w \in Writer |-> 0]
  /\ logFile = <<>>
  /\ recordOver = FALSE
  /\ gone = {}

\* appendLogLine, appendLogBlock.
ReportAnyway(w) ==
  /\ trying[w] = 0 /\ reported[w] < MaxLines
  /\ reported' = [reported EXCEPT ![w] = @ + 1]
  /\ trying' = [trying EXCEPT ![w] = 1]
  /\ UNCHANGED <<open, diagnosed, logFile, recordOver, gone>>
Report(w) ==
  /\ trying[w] = 0 /\ reported[w] < MaxLines
  /\ reported' = [reported EXCEPT ![w] = @ + 1]
  /\ trying' = [trying EXCEPT ![w] = IF open[w] THEN 0 ELSE 1]
  /\ UNCHANGED <<open, diagnosed, logFile, recordOver, gone>>

Appended(w) ==
  /\ trying[w] > 0
  /\ logFile' = Append(logFile, <<w, reported[w]>>)
  /\ trying' = [trying EXCEPT ![w] = 0]
  /\ UNCHANGED <<reported, open, diagnosed, recordOver, gone>>

\* EACCES, EBUSY, ...: 5 ms and 10 ms later it is tried again.
TransientError(w) ==
  /\ trying[w] \in 1 .. (Attempts - 1)
  /\ trying' = [trying EXCEPT ![w] = @ + 1]
  /\ UNCHANGED <<reported, open, diagnosed, logFile, recordOver, gone>>

LastError(w) ==
  /\ trying[w] > 0
  /\ trying' = [trying EXCEPT ![w] = 0]
  /\ open' = [open EXCEPT ![w] = TRUE]
  /\ diagnosed' = [diagnosed EXCEPT ![w] = @ + 1]
  /\ UNCHANGED <<reported, logFile, recordOver, gone>>

\* Somebody completes, fails or cancels the job, or finds its worker dead.
EndRecord ==
  /\ ~recordOver
  /\ recordOver' = TRUE
  /\ UNCHANGED <<reported, trying, open, diagnosed, logFile, gone>>

\* removeJobLogFiles, of pruneJobsOnDisk or deleteSessionJobs: not of an active
\* job, but also of one whose record a late patch has written again.
RemoveLog ==
  /\ recordOver
  /\ logFile' = <<>>
  /\ gone' = gone \cup {logFile[i] : i \in 1 .. Len(logFile)}
  /\ UNCHANGED <<reported, trying, open, diagnosed, recordOver>>

LogNext ==
  \/ \E w \in Writer : Report(w) \/ Appended(w) \/ TransientError(w) \/ LastError(w)
  \/ EndRecord \/ RemoveLog

LogSpec == LogInit /\ [][LogNext]_logVars

-----------------------------------------------------------------------------

LogTypeOK ==
  /\ reported \in [Writer -> 0 .. MaxLines]
  /\ trying \in [Writer -> 0 .. Attempts]
  /\ open \in [Writer -> BOOLEAN]
  /\ diagnosed \in [Writer -> 0 .. MaxLines]
  /\ logFile \in Seq(Writer \X (1 .. MaxLines))
  /\ recordOver \in BOOLEAN
  /\ gone \subseteq Writer \X (1 .. MaxLines)

\* What a process has in the log is a stretch of what it reported, in order and
\* without a hole.  It lacks a beginning only if that was removed with the log,
\* which is never while the job is active; it lacks an end only if that has been
\* announced, once, on stderr, whatever the other process of the job could
\* write meanwhile.
NumbersOf(w) == {logFile[i][2] : i \in {k \in 1 .. Len(logFile) : logFile[k][1] = w}}
GoneOf(w) == {n \in 1 .. MaxLines : <<w, n>> \in gone}
DoneWith(w) == reported[w] - (IF trying[w] > 0 THEN 1 ELSE 0)
InOrder ==
  \A i, j \in 1 .. Len(logFile) :
    i < j /\ logFile[i][1] = logFile[j][1] => logFile[i][2] < logFile[j][2]
WroteUpTo(w, n) ==
  \E g \in 0 .. n : GoneOf(w) = 1 .. g /\ NumbersOf(w) = (g + 1) .. n
LogHasNoHoles ==
  /\ ~recordOver => gone = {}
  /\ InOrder
  /\ \A w \in Writer : \E n \in 0 .. DoneWith(w) :
       /\ WroteUpTo(w, n)
       /\ diagnosed[w] = IF n = DoneWith(w) THEN 0 ELSE 1
=============================================================================
