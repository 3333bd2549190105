------------------------------ MODULE JobStore ------------------------------
(***************************************************************************)
(* One job of the job store: its record jobs/<id>.json, the process that    *)
(* launches it, the worker that runs it, and the commands and hooks that    *)
(* reconcile, tag, cancel, prune and delete it.  Jobs share no record, so   *)
(* one job stands for each.  A step is one withJobLock section (JobLock     *)
(* says what makes it one), one unlocked read with the synchronous code     *)
(* that follows it, or what a process does between two of those.            *)
(*                                                                         *)
(* The record names at most one pid, the worker's; once the worker is gone  *)
(* the system may give that pid to another process.                        *)
(***************************************************************************)
EXTENDS FiniteSets

CONSTANTS
  Cli,         \* processes that run the commands and hooks below, over and over
  Commands,    \* the commands they run
  Crashing,    \* those that may fail to take the lock, or be killed, at any step
  Sites        \* the environments the job may live in

Site == [linux : BOOLEAN,        \* process.platform
         startKnown : BOOLEAN,   \* the worker could read its own start time
         detached : BOOLEAN]     \* the worker leads its process group
AllCommands == {"status", "cancel", "cancel --force", "cancel --all-stale",
                "cancel --all-stale --force"}
Forced == {"cancel --force", "cancel --all-stale --force"}
Single == {"cancel", "cancel --force"}
Batch == {"cancel --all-stale", "cancel --all-stale --force"}

ASSUME StoreAssumption ==
  /\ Commands \subseteq AllCommands
  /\ Crashing \subseteq Cli
  /\ Sites \subseteq {s \in Site : s.startKnown => s.linux}

VARIABLES
  rec,         \* the job record
  site,        \* the environment, fixed
  launcher,    \* the process that enqueues the job: idle, queued, done
  worker,      \* where the worker is
  holder,      \* who has the worker's pid once the worker is gone
  signalled,   \* who was sent SIGTERM on account of this job
  aged,        \* updatedAt is over ACTIVE_JOB_MISSING_PID_GRACE_MS old
  overdue,     \* the thresholds that startedAt and progressUpdatedAt have crossed
  pc,          \* where each command is
  ctx,         \* its context: command, record listed, identity decided on
  unchanged,   \* those since whose listing updatedAt has not changed
  abandoned    \* a batch cancel was stopped between its tombstone and its signal

proc == <<launcher, worker, holder, signalled>>
clis == <<pc, ctx, abandoned>>
vars == <<rec, site, proc, aged, overdue, clis, unchanged>>

Active == {"queued", "running"}
Terminal == {"completed", "failed", "cancelled"}
Reason == {"ttl-exceeded", "progress-stalled"}
Kind == {"no-pid", "platform-unverifiable", "unverifiable", "dead-no-process", "mismatch", "match"}
Enders == {"worker", "launcher", "reconciler", "canceller", "session"}

\* endedBy stands for the errorMessage and the result that tell who ended the
\* job, own for the fields its creator gave the record, sessionId among them.
Record == [status : {"absent", "none"} \cup Active \cup Terminal,
           pid : BOOLEAN, turn : BOOLEAN, own : BOOLEAN,
           staleness : SUBSET Reason, endedBy : {"nobody"} \cup Enders]
Absent == [status |-> "absent", pid |-> FALSE, turn |-> FALSE, own |-> FALSE,
           staleness |-> {}, endedBy |-> "nobody"]

InTurn == worker \in {"turn", "complete", "fail"}
WorkerAlive == worker \in {"boot", "loaded"} \/ InTurn
PidHolder == IF WorkerAlive THEN "worker" ELSE holder
Context == [cmd : AllCommands, saw : Record, kind : Kind]
NoContext == [cmd |-> "status", saw |-> Absent, kind |-> "no-pid"]

IsActive(r) == r.status \in Active
IsTerminal(r) == r.status \in Terminal
OnDisk == rec.status # "absent"

-----------------------------------------------------------------------------
(* Reading and writing the record *)

\* writeJobFileUnlocked, in a section of its own: updatedAt is now.
Write(r) ==
  /\ rec' = r
  /\ aged' = FALSE
  /\ unchanged' = {}
KeepRecord == UNCHANGED <<rec, aged, unchanged>>

\* What a patch is merged onto: a file that is gone leaves only the patch.
Existing == IF OnDisk THEN rec ELSE [Absent EXCEPT !.status = "none"]

\* preserveTerminalJob: the sticky fields are those of the record on disk.
PreserveNothing(next) == next
Preserve(next) ==
  IF IsTerminal(rec)
  THEN [next EXCEPT !.status = rec.status, !.pid = rec.pid, !.endedBy = rec.endedBy]
  ELSE next

\* upsertJob's section.  The pruneJobsOnDisk it ends with is Prune.
Upsert(patched) ==
  LET merged == Preserve(patched)
  IN  Write(IF IsTerminal(merged) THEN [merged EXCEPT !.staleness = {}] ELSE merged)

EndedAsTag(r, s, who) ==
  [r EXCEPT !.status = s, !.pid = FALSE, !.staleness = {s}, !.endedBy = who]
Ended(r, s, who) == [r EXCEPT !.status = s, !.pid = FALSE, !.staleness = {}, !.endedBy = who]

\* computeStalenessForRecord: a queued record has no startedAt, and what a
\* late progress patch leaves has only progressUpdatedAt.
StaleReasons ==
  CASE rec.status = "queued" -> {}
    [] rec.status = "none"   -> overdue \cap {"progress-stalled"}
    [] OTHER                 -> overdue

-----------------------------------------------------------------------------
(* Who the recorded pid is now *)

\* ESRCH, or on Linux a process of another user.
PidGone == PidHolder = "free" \/ (site.linux /\ PidHolder = "foreign")

\* classifyActiveJobForReconciliation.
DeadOnEsrch(r) ==
  \/ ~r.pid /\ r.status = "queued" /\ aged
  \/ r.pid /\ PidGone
DeadWithPid(r) == r.pid /\ (PidGone \/ (site.startKnown /\ PidHolder = "other"))
Dead(r) ==
  \/ ~r.pid /\ r.status = "queued" /\ aged
  \/ r.pid /\ (PidGone \/ (site.startKnown /\ PidHolder = "other"))

\* classifyCancelIdentity.
Identity(hasPid) ==
  CASE ~hasPid                                -> "no-pid"
    [] hasPid /\ ~site.linux                  -> "platform-unverifiable"
    [] hasPid /\ site.linux /\ ~site.startKnown -> "unverifiable"
    [] OTHER -> IF PidGone THEN "dead-no-process"
                ELSE IF PidHolder = "worker" THEN "match" ELSE "mismatch"

\* signalRequiredForCancelIdentity, and runCancelSignal's choice.
SignalsVerifiedOnly(k, force) == k = "match" \/ (k = "unverifiable" /\ force)
Signals(k, force) ==
  \/ k \in {"match", "platform-unverifiable"}
  \/ k = "unverifiable" /\ force

\* terminateProcessTree signals the process group of that number, which the
\* worker leads if it is detached and an unrelated process may lead.
Terminate ==
  CASE PidHolder = "worker" /\ site.detached -> signalled' = signalled \cup {"worker"}
    [] PidHolder = "other" -> signalled' \in {signalled, signalled \cup {"other"}}
    [] OTHER -> UNCHANGED signalled

-----------------------------------------------------------------------------
(* The launcher and the worker *)

\* enqueueBackgroundTask: the queued record, then the detached worker.
Enqueue ==
  /\ launcher = "idle"
  /\ site.detached
  /\ launcher' = "queued"
  /\ Upsert([Existing EXCEPT !.status = "queued", !.own = TRUE])
  /\ UNCHANGED <<site, worker, holder, signalled, overdue, clis>>

SpawnWorker ==
  /\ launcher = "queued"
  /\ launcher' = "done"
  /\ worker' = "boot"
  /\ KeepRecord
  /\ UNCHANGED <<site, holder, signalled, overdue, clis>>

SpawnFails ==
  /\ launcher = "queued"
  /\ launcher' = "done"
  /\ Upsert([Ended(Existing, "failed", "launcher") EXCEPT !.own = TRUE])
  /\ UNCHANGED <<site, worker, holder, signalled, overdue, clis>>

LauncherDies ==
  /\ launcher = "queued"
  /\ launcher' = "done"
  /\ KeepRecord
  /\ UNCHANGED <<site, worker, holder, signalled, overdue, clis>>

\* runForegroundCommand: the command itself runs the job, with no record yet.
RunForeground ==
  /\ launcher = "idle"
  /\ launcher' = "done"
  /\ worker' = "loaded"
  /\ KeepRecord
  /\ UNCHANGED <<site, holder, signalled, overdue, clis>>

\* handleTaskWorker reads the request it is to run from the record.
LoadStoredJob ==
  /\ worker = "boot"
  /\ worker' = IF rec.own THEN "loaded" ELSE "gone"
  /\ KeepRecord
  /\ UNCHANGED <<site, launcher, holder, signalled, overdue, clis>>

\* runTrackedJob's first section: the running record, unless the job is over.
StartRunning ==
  /\ worker = "loaded"
  /\ IF IsTerminal(rec)
     THEN worker' = "gone" /\ KeepRecord /\ UNCHANGED overdue
     ELSE /\ worker' = "turn"
          /\ Write([Existing EXCEPT !.status = "running", !.pid = TRUE,
                                    !.own = OnDisk => rec.own])
          /\ overdue' = {}
  /\ UNCHANGED <<site, launcher, holder, signalled, clis>>

\* createJobProgressUpdater; its 5 s throttle is far below the 30 s minimum of
\* the progress timeout.
Progress ==
  /\ worker = "turn"
  /\ \E ids \in BOOLEAN : Upsert([Existing EXCEPT !.turn = @ \/ ids])
  /\ overdue' = overdue \ {"progress-stalled"}
  /\ UNCHANGED <<site, proc, clis>>

RunnerEnds ==
  /\ worker = "turn"
  /\ worker' \in {"complete", "fail"}
  /\ KeepRecord
  /\ UNCHANGED <<site, launcher, holder, signalled, overdue, clis>>

\* The completion.  Its upsertJob may throw before the write, or after it in
\* pruneJobsOnDisk: both go on to the catch block.
Complete ==
  /\ worker = "complete"
  /\ \/ /\ \E s \in {"completed", "failed"} :
             Upsert([Ended(Existing, s, "worker") EXCEPT !.own = TRUE])
        /\ worker' \in {"gone", "fail"}
     \/ KeepRecord /\ worker' = "fail"
  /\ UNCHANGED <<site, launcher, holder, signalled, overdue, clis>>

\* The catch block of runTrackedJob patches the record it reads, or its own.
Fail ==
  /\ worker = "fail"
  /\ worker' = "gone"
  /\ \/ \E own \in {TRUE, rec.own} : Upsert([Ended(Existing, "failed", "worker") EXCEPT !.own = own])
     \/ KeepRecord
  /\ UNCHANGED <<site, launcher, holder, signalled, overdue, clis>>

WorkerDies ==
  /\ WorkerAlive
  /\ worker' = "gone"
  /\ KeepRecord
  /\ UNCHANGED <<site, launcher, holder, signalled, overdue, clis>>

-----------------------------------------------------------------------------
(* The commands: each is a process of its own, whose context ends with it *)

Begins(c, commands) ==
  \E command \in commands :
    ctx' = [ctx EXCEPT ![c] = [NoContext EXCEPT !.cmd = command, !.saw = rec]]
Goto(c, l) ==
  /\ pc' = [pc EXCEPT ![c] = l]
  /\ ctx' = IF l = "idle" THEN [ctx EXCEPT ![c] = NoContext] ELSE ctx
Forces(c) == ctx[c].cmd \in Forced

-----------------------------------------------------------------------------
(* reconcileStaleActiveJobs: by every status and result command, by the      *)
(* launchers, by SessionStart, and first of all by cancel --all-stale        *)

\* The active record is listed and classified, without the lock.
List(c) ==
  /\ pc[c] = "idle"
  /\ IsActive(rec)
  /\ Begins(c, Commands \ Single)
  /\ IF Dead(rec)
     THEN pc' = [pc EXCEPT ![c] = "reconcile"] /\ unchanged' = unchanged \cup {c}
     ELSE pc' = [pc EXCEPT ![c] = "tag"] /\ UNCHANGED unchanged
  /\ UNCHANGED <<rec, site, proc, aged, overdue, abandoned>>

\* The record classified dead becomes failed if it is still the one listed.
ReconcileUnchecked(c) ==
  /\ pc[c] = "reconcile"
  /\ IF IsActive(rec) THEN Write(Ended(rec, "failed", "reconciler")) ELSE KeepRecord
  /\ Goto(c, "idle")
  /\ UNCHANGED <<site, proc, overdue, abandoned>>
Reconcile(c) ==
  /\ pc[c] = "reconcile"
  /\ IF c \in unchanged /\ IsActive(rec) /\ rec.pid = ctx[c].saw.pid
     THEN Write(Ended(rec, "failed", "reconciler"))
     ELSE KeepRecord
  /\ Goto(c, "idle")
  /\ UNCHANGED <<site, proc, overdue, abandoned>>

\* applyStalenessUnderLock: nothing on a record that is gone, over, or has
\* another pid.  A job with reasons is one of the staleIds.
TagAnything(c) ==
  /\ pc[c] = "tag"
  /\ IF OnDisk THEN Write([rec EXCEPT !.staleness = StaleReasons]) ELSE KeepRecord
  /\ Goto(c, "idle")
  /\ UNCHANGED <<site, proc, overdue, abandoned>>
ApplyStaleness(c) ==
  /\ pc[c] = "tag"
  /\ LET tags == OnDisk /\ ~IsTerminal(rec) /\ rec.pid = ctx[c].saw.pid
     IN  /\ IF tags /\ StaleReasons # rec.staleness
            THEN Write([rec EXCEPT !.staleness = StaleReasons])
            ELSE KeepRecord
         /\ Goto(c, IF tags /\ StaleReasons # {} /\ ctx[c].cmd \in Batch THEN "tombstone" ELSE "idle")
  /\ UNCHANGED <<site, proc, overdue, abandoned>>

-----------------------------------------------------------------------------
(* cancel --all-stale *)

\* commitCancelTombstoneUnderLock: still active, still stale, and not a
\* process it must not decide about.
Tombstone(c) ==
  /\ pc[c] = "tombstone"
  /\ LET k == Identity(rec.pid)
         force == Forces(c)
     IN  IF IsActive(rec) /\ StaleReasons # {} /\ (k = "unverifiable" => force)
         THEN /\ Write(Ended(rec, "cancelled", "canceller"))
              /\ Goto(c, IF Signals(k, force) THEN "signal" ELSE "idle")
         ELSE KeepRecord /\ Goto(c, "idle")
  /\ UNCHANGED <<site, proc, overdue, abandoned>>

\* runRecheckedCancelSignal, once the bounded interrupt of the turn is over.
SignalUnchecked(c) ==
  /\ pc[c] = "signal"
  /\ Terminate
  /\ KeepRecord
  /\ Goto(c, "idle")
  /\ UNCHANGED <<site, launcher, worker, holder, overdue, abandoned>>
RecheckedSignal(c) ==
  /\ pc[c] = "signal"
  /\ IF Signals(Identity(TRUE), Forces(c)) THEN Terminate ELSE UNCHANGED signalled
  /\ KeepRecord
  /\ Goto(c, "idle")
  /\ UNCHANGED <<site, launcher, worker, holder, overdue, abandoned>>

-----------------------------------------------------------------------------
(* cancel <job>: cancelOneStaleJob without allStale *)

\* resolveCancelableJob lists an active job.
CancelList(c) ==
  /\ pc[c] = "idle"
  /\ IsActive(rec)
  /\ Begins(c, Commands \cap Single)
  /\ pc' = [pc EXCEPT ![c] = "decide"]
  /\ UNCHANGED <<rec, site, proc, aged, overdue, unchanged, abandoned>>

\* The signal that a decided identity asks for; a process of another user may
\* make terminateProcessTree throw, and the cancel with it.
CancelSignals(c, k) ==
  IF Signals(k, Forces(c))
  THEN Terminate /\ (Goto(c, "commit") \/ (PidHolder = "foreign" /\ Goto(c, "idle")))
  ELSE UNCHANGED signalled /\ Goto(c, "commit")

\* The record is read again and its pid, or the listed one, classified.  With
\* a turn to interrupt the signal waits for the answer, without a bound.
CancelDecide(c) ==
  /\ pc[c] = "decide"
  /\ LET k == Identity(rec.pid \/ ctx[c].saw.pid)
     IN  IF k = "unverifiable" /\ ~Forces(c)
         THEN Goto(c, "idle") /\ UNCHANGED signalled
         ELSE IF rec.turn \/ ctx[c].saw.turn
              THEN /\ pc' = [pc EXCEPT ![c] = "interrupt"]
                   /\ ctx' = [ctx EXCEPT ![c].kind = k]
                   /\ UNCHANGED signalled
              ELSE CancelSignals(c, k)
  /\ KeepRecord
  /\ UNCHANGED <<site, launcher, worker, holder, overdue, abandoned>>

CancelInterrupted(c) ==
  /\ pc[c] = "interrupt"
  /\ CancelSignals(c, ctx[c].kind)
  /\ KeepRecord
  /\ UNCHANGED <<site, launcher, worker, holder, overdue, abandoned>>

CancelCommit(c) ==
  /\ pc[c] = "commit"
  /\ Upsert([Existing EXCEPT !.status = "cancelled", !.pid = FALSE, !.endedBy = "canceller"])
  /\ Goto(c, "idle")
  /\ UNCHANGED <<site, proc, overdue, abandoned>>

-----------------------------------------------------------------------------
(* SessionEnd and pruning: each lists the records, then takes the lock and   *)
(* goes by what it reads there                                               *)

\* deleteSessionJobs with cleanupSessionJobs' onMatchUnderLock, which throws,
\* and leaves the record as it is, for a pid it cannot identify.
SessionEnd ==
  /\ OnDisk /\ rec.own
  /\ IF IsActive(rec)
     THEN LET k == Identity(rec.pid)
          IN  /\ k \in {"no-pid", "platform-unverifiable", "match"}
              /\ Write(Ended(rec, "cancelled", "session"))
              /\ IF Signals(k, FALSE) THEN Terminate ELSE UNCHANGED signalled
     ELSE Write(Absent) /\ UNCHANGED signalled
  /\ UNCHANGED <<site, launcher, worker, holder, overdue, clis>>

\* pruneJobsOnDisk, on a record that has fallen out of the retained ones.
Prune ==
  /\ OnDisk /\ ~IsActive(rec)
  /\ Write(Absent)
  /\ UNCHANGED <<site, proc, overdue, clis>>

-----------------------------------------------------------------------------
(* The environment *)

\* A command is killed or cannot take the lock.
CliStops(c) ==
  /\ c \in Crashing
  /\ pc[c] # "idle"
  /\ Goto(c, "idle")
  /\ abandoned' = (abandoned \/ pc[c] = "signal")
  /\ KeepRecord
  /\ UNCHANGED <<site, proc, overdue>>

Age ==
  /\ rec.status = "queued" /\ ~aged
  /\ aged' = TRUE
  /\ UNCHANGED <<rec, site, proc, overdue, clis, unchanged>>

GrowOverdue ==
  /\ \E r \in Reason \ overdue : overdue' = overdue \cup {r}
  /\ UNCHANGED <<rec, site, proc, aged, clis, unchanged>>

\* The pid of the worker is given to an unrelated process, or freed again.
ReusePid ==
  /\ worker = "gone"
  /\ holder' \in {"free", "other", "foreign"} \ {holder}
  /\ (holder = "free") # (holder' = "free")
  /\ UNCHANGED <<rec, site, launcher, worker, signalled, aged, overdue, clis, unchanged>>

-----------------------------------------------------------------------------
Init ==
  /\ rec = Absent
  /\ site \in Sites
  /\ launcher = "idle"
  /\ worker = "none"
  /\ holder = "free"
  /\ signalled = {}
  /\ aged = FALSE
  /\ overdue = {}
  /\ pc = [c \in Cli |-> "idle"]
  /\ ctx = [c \in Cli |-> NoContext]
  /\ unchanged = {}
  /\ abandoned = FALSE

Launch == Enqueue \/ SpawnWorker \/ SpawnFails \/ LauncherDies \/ RunForeground
Work == LoadStoredJob \/ StartRunning \/ Progress \/ RunnerEnds \/ Complete \/ Fail
Command(c) ==
  \/ List(c) \/ Reconcile(c) \/ ApplyStaleness(c) \/ Tombstone(c) \/ RecheckedSignal(c)
  \/ CancelList(c) \/ CancelDecide(c) \/ CancelInterrupted(c) \/ CancelCommit(c)
Environment == SessionEnd \/ Prune \/ Age \/ GrowOverdue \/ ReusePid

Next ==
  \/ Launch \/ Work \/ WorkerDies \/ Environment
  \/ \E c \in Cli : Command(c) \/ CliStops(c)

Spec == Init /\ [][Next]_vars

\* Time passes, an enqueued job is spawned or its launcher dies, and somebody
\* goes on giving commands.  The worker need not go on: its turn may hang.
FairSpec ==
  /\ Spec
  /\ WF_vars(Age)
  /\ WF_vars(SpawnWorker \/ SpawnFails \/ LauncherDies)
  /\ \A c \in Cli \ Crashing : WF_vars(Command(c))

-----------------------------------------------------------------------------
(* Properties *)

\* The types of the variables.
TypeOK ==
  /\ rec \in Record
  /\ site \in Sites
  /\ launcher \in {"idle", "queued", "done"}
  /\ worker \in {"none", "boot", "loaded", "turn", "complete", "fail", "gone"}
  /\ holder \in {"free", "other", "foreign"}
  /\ signalled \subseteq {"worker", "other"}
  /\ aged \in BOOLEAN
  /\ overdue \subseteq Reason
  /\ pc \in [Cli -> {"idle", "reconcile", "tag", "tombstone", "signal",
                     "decide", "interrupt", "commit"}]
  /\ ctx \in [Cli -> Context]
  /\ unchanged \subseteq Cli
  /\ abandoned \in BOOLEAN

\* reconcileStaleActiveJobs, which classifies without the lock and writes with
\* it, never fails a job whose worker is at work or will yet be: a record it
\* ended belongs to a worker that is gone, or that will find it over and abort.
NoLiveWorkerFailed == rec.endedBy = "reconciler" => ~InTurn

\* On Linux, with a start time on record, no unrelated process is signalled on
\* account of a job, whenever the worker dies and its pid is given away.
OnlyTheWorkerIsSignalled == site.startKnown => "other" \notin signalled

\* A job shown as cancelled is not left running: a detached worker still in its
\* turn has been sent SIGTERM, or the cancel that owes it has not got there.
CancelledWorkerStops ==
  rec.status = "cancelled" /\ InTurn /\ site.detached
    => "worker" \in signalled \/ abandoned \/ \E c \in Cli : pc[c] = "signal"

\* ADR 0006: the stale tag does not outlive the end of the job, although it is
\* computed by one process while another ends it.
TagEndsWithJob == IsTerminal(rec) => rec.staleness = {}

\* The life of the record, whoever writes it when.
Lifecycle == INSTANCE JobLifecycle WITH status <- rec.status, endedBy <- rec.endedBy
FollowsLifecycle == Lifecycle!Spec

\* ADR 0005: a job whose worker died without a word does not stay active, even
\* if somebody else has its pid by now.
DeadJobSettles ==
  IsActive(rec) /\ worker = "gone" /\ site.startKnown ~> ~IsActive(rec)

\* A queued job does not wait for ever for a worker that was never spawned or
\* never got to its first section.
QueuedJobSettles == rec.status = "queued" ~> rec.status # "queued"
=============================================================================
