# Verification of the Codex companion plugin

The plugin (`plugins/codex`) lets Claude Code delegate reviews and tasks to
Codex. Its commands and hooks are short-lived Node processes that share a
directory of job records, a lock file per job, a `state.json`, and one broker
process in front of a Codex app server. This directory holds TLA+ models of the
parts where those processes meet, the TLC configurations that check them, and TLAPS proofs
about them. Paths below are relative to `plugins/codex/scripts/` unless they
start with `docs/` or `tests/`.

## Inventory

| Component | State | Operations | Interacts through |
|---|---|---|---|
| Job lock, `lib/state.mjs` 456–798 | `jobs/<id>.lock` (pid, acquiredAt, token), side files `.stealing.*`, `.releasing.*` | `acquireJobLock`, `publishJobLock`, `stealStaleJobLock`, `releaseJobLock`, `revalidateJobLock`, scan and cleanup of side files | the file system; wraps every write of a record |
| Job records, `lib/state.mjs` 800–1621 | `jobs/<id>.json`: status, phase, pid and its start time, timestamps, staleness tag, outcome | `upsertJob`, `reconcileStaleActiveJobs`, `applyStalenessUnderLock`, `commitCancelTombstoneUnderLock`, `deleteSessionJobs`, `pruneJobsOnDisk` | shared by every process of the workspace |
| Worker, `lib/tracked-jobs.mjs`, `codex-companion.mjs` 702–973 | the process, its running record | `enqueueBackgroundTask`, `runForegroundCommand`, `handleTaskWorker`, `runTrackedJob`, progress updates | record, log file, signals |
| Cancel, `codex-companion.mjs` 1133–1625 | none of its own | `cancel <job>`, `cancel --all-stale`, `--force` | record, turn interrupt, SIGTERM to a recorded pid |
| Status and result, `lib/job-control.mjs` | none | snapshots, after a reconciliation | record |
| Session hooks, `session-lifecycle-hook.mjs` | none | SessionStart reconciles, SessionEnd cancels and deletes the session's jobs, shuts the broker down | record, broker |
| Broker, `app-server-broker.mjs` | owner of the request in flight, owner of the stream | forward, refuse, route notifications, interrupt aside, shutdown | sockets, app server |
| Broker lifecycle, `lib/broker-lifecycle.mjs` | `broker.json`, pid, log and socket files | `ensureBrokerSession`, `teardownBrokerSession` | file system, broker |
| App-server client, `lib/app-server.mjs` | pending requests, exit state | `request`, `handleLine`, `handleExit`, `close`, `forceDestroy` | broker or a spawned app server |
| Turn capture, `lib/codex.mjs` 297–677 | turn id, buffered notifications, subagent turns, inferred-completion timer | `captureTurn`, `withAppServer` | client, progress updater |
| Batch interrupt, `codex-companion.mjs` 1133–1250 | deadline, disposable client | `interruptAppServerTurnForBatch` | client |
| Review rate limit, `lib/review-rate-limit.mjs` | counts job records | `enforceReviewRateLimit` | records and their retention |
| Configuration, `lib/state.mjs` 246–279, 871–889, 1430 | `state.json` | `loadState`, `migrateLegacyJobs`, `setConfig` | file system, no lock |
| Progress log, `lib/tracked-jobs.mjs` 139–190 | log file, circuit breaker | `safeAppendFileSync` | file system |
| Stop gate, `stop-review-gate-hook.mjs` | none | a review decides whether the stop is blocked | child process |
| Review subagents, `lib/review-subagents.mjs` | two agent files, temporary files | `materializeReviewSubagents`, `removeReviewSubagents` | file system, the user, reinstallation |
| Sandbox policy, git, rendering, prompts, arguments, `scripts/bump-version.mjs` | none | pure functions, subprocess input and output | – |

What is hard here: the critical sections are taken by processes that can be
killed at any point and whose lock may be stolen; several operations look at a
record without the lock and act on it with the lock, or look at a pid and
signal it later; pids are reused; the broker's handlers await between a check
and the update it guards; a worker may die without a word; files that name a
process outlive it, and deadlines race the answers they wait for.

What makes each of the modelled components correct:

* **Job lock** – no two processes are in their sections together, and no write
  to a record undoes another's (both can fail once two locks are moved away from
  the lock path at the same time: Finding 1); a stealer removes only what is
  stale; every call returns; nothing a dead process leaves behind blocks the
  others for ever.
* **Job records and worker** – one life per record (queued, running, one lasting
  outcome, removed only when over), whoever writes when; a running worker's job
  is never failed by a reconciliation; no tag on a job that is over; a dead
  job does not stay active.
* **Cancel** – only the worker is signalled; a job shown as cancelled is not
  left running.
* **Turn capture** – a command reports the end of its own turn, once, and never
  somebody else's; every way the turn can end ends the capture; a retry does
  not run the turn again.
* **Broker** – one turn at a time; a client never waits for a turn that is
  over (both with an exception for clients that share a thread); a broker nobody
  uses is free.
* **Broker lifecycle** – whoever knows a live broker does not drop it; a saved
  broker that runs can be reached; a command fails only behind a broker that has
  ended; SessionEnd leaves no broker behind that it has found.
* **Batch interrupt** – the call returns, and leaves no connection, timer or
  process behind.
* **Review rate limit** – only concurrency exceeds the budget, by a known bound,
  and pruning never makes the limiter forget.
* **Configuration and migration** – no legacy job is lost, brought back or
  written over, and settings stay.
* **Review subagents** – no file of the user's is taken away.
* **Progress log, stop gate** – a log has no holes, and lacks a beginning only
  if it was removed with its job; a stop passes on the reviewer's word, or when
  the gate itself failed.

## Modules

| Module | What it models |
|---|---|
| `JobLock` | the per-job lock, one step per file-system call that others can see |
| `JobLifecycle` | abstract: the life of one record that ADR 0003 and ADR 0005 describe |
| `JobStore` | one record, its launcher and worker, the commands, SessionEnd, pruning, the pid; one step per lock section or unlocked read |
| `Broker` | the broker's event loop, its clients and the app server's answers |
| `TurnCapture` | a command's connection, its turn, the notifications it follows, subagents and other threads on the same connection |
| `BrokerLifecycle` | the commands, interrupts and SessionEnd hooks of a workspace, `broker.json`, and the brokers they spawn, file by file |
| `StateFile` | loading, migrating and saving `state.json` |
| `ReviewSubagents` | enabling and disabling the agent files, call by call |
| `ReviewBudget` | the rate limit, the records it counts, their retention, a clock |
| `BatchInterrupt` | one interrupt of the batch cancel: connection, answer, deadline, closing |
| `ProgressLog` | the appends to a job's log and their circuit breaker |
| `StopGate` | the Stop hook, its review task and their two clocks |
| `MCJobLock`, `MCJobStore`, `MCBroker`, `MCTurnCapture` | instances for TLC: initial states, sets, symmetry |
| `MCLostUpdate` | one schedule of `JobLock`, too long for a search |
| `MCWorkspace` | `BrokerLifecycle` to `StopGate`, the seven that share no variable, in one instance |
| `JobLock_proofs`, `JobStore_proofs`, `Broker_proofs`, `TurnCapture_proofs`, `BrokerLifecycle_proofs`, `StateFile_proofs`, `ReviewSubagents_proofs` | theorems about the module they are named for |
| `Workspace_proofs` | theorems about `ReviewBudget`, `BatchInterrupt`, `ProgressLog`, `StopGate`, and about the composition `MCWorkspace` |

`JobStore` composes with `JobLock` by assumption: it takes a `withJobLock`
section as one step. What justifies that for the record is that a section that
writes has read the version on disk (`NoLostUpdate`). `UncrowdedLosesNothing`
proves it of the code's lock until two locks of live processes are away from the
lock path at the same time; Finding 1 needs just that, and `JobStore` leaves it
out. `JobStore`
implements `JobLifecycle` under the mapping `status <- rec.status, endedBy <-
rec.endedBy`. `BrokerLifecycle` takes a broker for a process that answers, and
`Broker` says what it answers; `TurnCapture` is what a command does in its
`turn`; `BatchInterrupt` is what a batch cancel does in the wait that `JobStore`
makes of an interrupt.

`MCWorkspace` extends seven modules that have no variable in common and whose
steps do not look at each other. A behaviour of all of them is then one
behaviour of each, interleaved, so TLC need not multiply them: the variable
`part` chooses the one that moves.

### JobLock

Each process makes one `withJobLock` call. `pc` follows the code. Acquiring:
`precheck` and `prescan` (list the directory, look at the entries, publish),
`verify` (token read back), `postcheck` and `postscan` (the second scan). The
function called with the lock: `revalidate`, `commit`. Releasing: `release`,
`unlinkSides` and `unlinkScan`, `settle`, `prune`. A call that has run out of
attempts: `staleRead`, `staleCheck`, `stealCheck` and `stealScan`,
`stealSettle`. A lock file is named by the order of publication; `lockAt` is the
one at the lock path and `sides` the ones that have been renamed away.

A scan is not atomic. `hasRecentBlockingJobLockSideFile` and
`removeLinkedJobLockSideFiles` list the directory first (`lib/state.mjs:660`,
`:629`) and compare each entry with the lock path later (`:672`): `listed` is
what was on disk when the directory was read and has not been looked at, the
entries are taken one by one in any order, and an entry about to be unlinked is
in the process's hand (`mySide`) for a step of its own. So a side file may come
after the listing and be missed, or be restored and moved again between the
listing and the comparison.

`current` is the set of processes whose copy of the record is the one on disk,
so `NoLostUpdate` needs no contents. A process holds the lock it has published
until it has taken it away (`Held`), and that lock is astray while it is not at
the lock path (`Astray`). One lock astray does no harm: `SectionsExclude` says
that no two processes are between reading and writing the record until a second
lock is astray at the same time, which the history variable `crowded` notes.
What puts a lock astray is a stealer, or a releaser, whose view of the lock
path is outdated.

Abstractions: the content of a lock file is complete when it is published (the
code links a flushed temporary file); a snapshot of the lock path (open, stat,
read) is one step, and so is the comparison of an entry (two stats) except for
the unlink that may follow; a token is its owner; the retry delay is the
scheduler's choice. `Age` makes files older than `JOB_LOCK_STALE_MS` in the
order of publication; with `Prompt` no call lasts that long.

### JobStore

`rec` abstracts the JSON record to what the guards read: `status`, whether it
names a pid, whether it names a turn, whether it has the fields of its creator
(`own`), the staleness tag, and who ended it (`endedBy`, for the error message
or result). The single pid a record names is the worker's; `holder` is who has
that pid once the worker is gone: nobody (`free`), a process of ours (`other`)
or of another user (`foreign`, which `/proc` shows on Linux). `site` says
whether identities can be verified at all. `aged`, `overdue` and `unchanged`
replace the clock: the grace period for a queued record, the thresholds of the
staleness tag, and "`updatedAt` is the one listed".

Every command is a process with a context (`ctx`) that holds what it listed or
decided before its next section. Abstractions:

* A write sets `updatedAt` to a time no reader has seen. Two writes within one
  millisecond can have equal stamps in the code; the listing, the lock and the
  file-system calls in between make that the case of a coarse clock only.
* The worker's last write and its exit are one step (`Complete`, `Fail`).
* Progress updates are throttled to 5 s; the thresholds are 30 s and more, so
  each progress event counts as one that writes.
* Which records pruning drops is left open: any record that is not active.
* On Windows `taskkill` replaces the signal, and `/proc` may be unreadable:
  neither is modelled.

### Broker

`requestOf` and `streamOf` are `activeRequestSocket` and `activeStreamSocket`.
`Forward` ends at the `await`, `Respond` is the answer's line read from the app
server, `Continue` the rest of the handler. Several lines of one chunk are
handled before any continuation, so `TurnCompleted` may come between `Respond`
and `Continue`, while no socket event may. The app server is external: it
answers in any order, with or without an error, and completes the turns it has
started. A client sends one request at a time, as `withAppServer`,
`captureTurn` and `interruptAppServerTurn` do, so a handler never has a second
line to read.

Clients may share threads. `task --resume-last` (`codex-companion.mjs:506`)
continues the thread of the latest job, whose client may have been cancelled or
killed while its turn goes on, and `routeNotification`
(`app-server-broker.mjs:85`) compares thread ids, not turns. `thread` says on
which thread each runner has its turn; `TurnCompleted(s)` is delivered to the
socket that owns the request or the stream, which takes it for its own only if
the turn is (`Deliver`), but ends the stream whenever the thread is the stream's
(`EndStream`). `doubled` is a history variable: the clients whose turn the app
server began while another ran on their thread. They may lose the stream to
the end of the earlier turn (Known divergences), so `OneTurnAtATime`,
`NobodyWaitsInVain` and `TurnsEnd` except them, and nobody else.

### TurnCapture

`capture` is the `TurnCaptureState` as far as it decides when the capture ends,
and `Apply`, `Follow`, `Replay` are functions of it, named for
`applyTurnNotification`, the notification handler and the replay loop. `step`
is the command's progress: `connect`, `thread`, `name`, `request` (turn/start
awaited, notifications buffered), `replay`, `follow`, `done` or `error`. The
loop of the replay is synchronous, so no other step is enabled in `replay`.

The app server is external and described by what it has told: `main` is the
main turn, `running` the threads in a turn, `open` the collaborations. A
collaboration may leave the thread it spawns unnamed until it completes, turns
of subagents may outlive the call that started them, and turn/completed of the
main turn may never come. Two sources of unrelated notifications share the
connection, because the broker routes by socket and not by thread: an
interrupted turn of the thread that is being resumed (`earlier`), and turns
that a client which is gone has left behind (`Foreign`).

Abstractions: texts, labels, progress reports and logs decide nothing;
thread/started that is held back during the replay adds only a label, since the
collaboration that releases it registers the thread; a collaboration is known
by its two threads, so two at once between the same threads are one; a
malformed line is a lost connection; a detached review, which no command asks
for, is left out. What `JobStore` calls a worker that dies without a word
includes a capture whose connection is lost: nothing tells `captureTurn`, and
its process ends (or waits) with the record still running.

### BrokerLifecycle

`step` is where each process is in `ensureBrokerSession`, `withAppServer`,
`interruptAppServerTurn` or `handleSessionEnd`; `held` is the session it has
loaded or saved; `saved`, `dir` and `socket` are the files. A broker bears the
name of the command that spawned it. Its life is `none`, `booting`,
`starting` (it has its pid file), `listening`, `closing`, `gone`, or `deaf`:
its app server has died, it listens, and nothing it forwards is answered.
`raced` is a process that ended with ENOENT because another removed the file it
had just looked for (`teardownBrokerSession` and `clearBrokerSession` check and
then unlink): another command or hook, or the broker, which unlinks its socket
and pid file when it shuts down (`app-server-broker.mjs:108`,
`BrokerCleansUp`).

Two facts of the code shape the model. A probe of `ensureBrokerSession` fails
only if nobody listens (`isBrokerEndpointReady` retries within its time, and a
refusal is immediate), so `Probe` is decided by `Accepts`; the mutant
`ProbeMayTimeOut` shows what depends on it. And no `killProcess` is given to
the teardown of a command, so that one removes files and leaves the process
alone; SessionEnd's does kill, by the pid in `broker.json`, which is taken to be
the broker's. Named pipes (Windows), where there is no socket file, are left out.

### StateFile

`stateFile` is `state.json` as the setting and the list of jobs it may still
hold; `seen` the copy a process works on; `record` the legacy jobs in `jobs/`.
`LinkJob` is `writeJobFileExclusive`, whose link fails where there is a file.
`SaveState` writes no jobs, because the migration has emptied the copy by then.
`stopReviewGate` is the only key that `setConfig` is called with. Jobs with
invalid ids, which the migration drops with a warning, are left out.

### ReviewSubagents

A file is known by who wrote it; `user` stands for what
`assertManagedRegularTarget` refuses (unmarked, no regular file, a symbolic
link). A reinstallation of the plugin wipes the directory, once and at any point
(`docs/adr/0002-opt-in-review-subagents-with-invoker-tagging.md:187`). `found` and `expected` are the snapshots of files and of the directory.
`late` is a history variable: the setups that had their last look at a path
before its present file came. Only the property and its proof read it.

### ReviewBudget

A review is dated when it is made (`createCompanionJob`), written later
(`runTrackedJob`), and pruned by every later write: `Retained` is the rule of
`pruneJobs` for reviews. Older records stay or go by `MAX_JOBS`, which is left
open. Time is counted in units of which the window has one and the retention
two, as 60 and 65 minutes round up.

### BatchInterrupt

A step is a callback with the continuations it leads to. `inner` is the
interrupt as it proceeds, `outcome` how the race with the deadline ended;
`exited` and `child` are the client's end and its process, `deadline` and
`closing` the timers that are set. The other side may answer, refuse, hang, die
or send a line that is not JSON at any point.

### ProgressLog and StopGate

Both are small. In `ProgressLog` the launcher and the worker of a job append to
the same file and each has a circuit breaker of its own. A line is known by its
writer and its number; `NumbersOf` are those in the file. Once the job's record
is over (`EndRecord`: the worker, a cancel, a SessionEnd), `RemoveLog` may take
the file away at any point (`removeJobLogFiles`, `lib/state.mjs:1482`, called by
pruning and by SessionEnd), also while a writer is between two lines or in its
retries; the next append makes a new file. `gone` is a history variable, the lines
that went that way. `LogHasNoHoles` says that the lines of a writer that went
and those that remain are one stretch from the first on, that lines go only once
the record is over, and that what is missing at the end is diagnosed. In `StopGate` the
clocks of `hooks.json` and of `spawnSync` run side by side.

## Runs

| Run | Instance | Shows |
|---|---|---|
| `lock_safety` | three processes after the death of a fourth in its section, 4 lock files, no retry | `SectionsExclude`, `StealsOnlyStale`, `TypeOK` |
| `lock_liveness` | two processes that may be killed anywhere, one of them nonblocking, one retry, 4 lock files | `CallsEnd`, `NeverWedged` |
| `lock_lost_update` | the schedule of `MCLostUpdate`: four processes after the death of a fifth in its section, none of them slow or dying | violation of `NoLostUpdate` |
| `job_safety` | two commands out of status and both batch cancels, which may both die; every environment | `NoLiveWorkerFailed`, `TagEndsWithJob`, `OnlyTheWorkerIsSignalled`, `CancelledWorkerStops`, `FollowsLifecycle`, `TypeOK` |
| `job_liveness` | status and forced cancels, one that never stops giving them and one that may; a background job | `DeadJobSettles`, `QueuedJobSettles` |
| `job_cancel_signal` | one `cancel <job>` | violation of `OnlyTheWorkerIsSignalled` |
| `job_cancel_orphan` | one `cancel <job>` | violation of `CancelledWorkerStops` |
| `broker` | two runners, on one thread or on two, and an interrupter | `OneTurnAtATime`, `NobodyWaitsInVain`, `FreeWhenUnused`, `RequestsAreAnswered`, `TurnsEnd`, `TypeOK` |
| `broker_abrupt` | one of the runners may die during its turn/start | violation of `FreeWhenUnused` (`NobodyWaitsInVain` fails too) |
| `turn` | two subagents and a foreign thread, two turns each, three buffered notifications | `OutcomeIsTheTurns`, `InferredAfterMainWork`, `RunsOneTurn`, `EndOfTurnEndsCapture`, `DrainedTurnEnds`, `TypeOK` |
| `turn_drained` | one subagent with two turns, nothing buffered | violation of `InferredWhenDrained` |
| `workspace` | two commands, an interrupt and a SessionEnd; two listings, a setConfig and two legacy jobs; an enabling and a disabling setup; three reviewers and reviews; two writers of a log that may be removed; the stop gate; one interrupt on either transport | `SavedBrokerIsReachable`, `KnownBrokerIsKept`, `FailsBehindEndedBroker`, `EveryCommandEnds`, `SessionEndEndsBroker`, `ListsEveryJob`, `MigrationKeepsUpdates`, `SettingsStay`, `TakesOnlyWhatItChecked`, `OverrunBounded`, `PruningKeepsWindow`, `LogHasNoHoles`, `PassesOnAllow`, `EveryCallReturns`, `AllTypeOK` |

`job_safety` has no `cancel <job>` among its commands: that command violates
two of the properties (`job_cancel_signal`, `job_cancel_orphan`). For the other
three, single cancels are covered by the theorems, which hold for all commands.

Every property of a passing run has a mutant in `PROJECT.json`: a plausible
bug in one definition that makes TLC find the property violated.

**Bounds.** `MaxFile` bounds the publications: a steal that is overtaken needs
three (the stale lock, the one renamed by mistake, the one published
meanwhile), so four leave room for one more. `RetryCount` is 0 or 1 in the runs
and 200 in the code (`JOB_LOCK_RETRY_COUNT`, `lib/state.mjs:31`); the number of
attempts changes nothing but the time they take. Two side-file names per process
are enough in the runs: a process unlinks or restores its side file before it
makes another, and a new one only has to differ from the names on disk and in
the listings of others. Three contenders are what an overtaken steal takes.
In `JobStore` one job stands for all, as records share nothing;
the worker runs once, as in the code, and two commands let each meet another
in any of its steps. Three clients let a runner meet both a runner and an
interrupter. In `TurnCapture` two subagents call each other and the main turn,
`MaxTurns = 2` lets each be given work again, and three buffered notifications
hold an answer, an end and one that must not count. In `workspace` two commands
can find nothing and spawn a broker each, or one can find what the other has
left, while a third process ends it; two processes and two jobs let a
migration stop half way under another's eyes; three reviews in a budget of one,
of which two are retained, let the limit be overrun and the retention bite; in
`ReviewSubagents` a single enabling setup is all TLC can take beside the
disabling one, the user and a reinstallation, and the theorem is for any number.
`MaxStart` is the time the Stop hook may take before its review starts.

`Prompt` says that no lock call lasts `JOB_LOCK_STALE_MS` (a minute; a section
reads and writes one file); all runs assume it. Without it an old lock may be
stolen from a live owner that was suspended, and `SectionsExclude` fails.
With it `NoLostUpdate` still fails, but with more contenders than `lock_safety`
has: its three do get two locks astray (`crowded` becomes true), and still
neither overlap nor lose an update. A search among four is out of reach;
the schedule in `MCLostUpdate` was found by hand, and only says whose turn it is.

**Deadlock** is not checked: each lock call is made once, a job ends, and the
clients of the broker go away, so the systems may stop.

**Fairness.** `JobLock`: the call is synchronous code with bounded sleeps, so a
process that is not killed goes on (weak fairness of its steps); nothing forces
time to pass or a call to start. `JobStore`: time passes, a launcher gets to
its spawn or dies, and the status command keeps being asked and takes the lock
in the end (what `CallsEnd` and `NeverWedged` say of it); the worker, which may
hang in its turn, and pid reuse get none. `Broker`: the event loop polls all
sockets in each round, so a socket with data or a close event is handled
(strong fairness, because continuations come in between); the app server
answers and completes its turns; a client that was refused, failed or finished
closes its connection. `TurnCapture`: the app server accepts and answers
turn/start, the event loop goes on with what it has read, and the 250 ms timer
expires while there is a connection; nobody is bound to end a turn, which is
what `DrainedTurnEnds` is about. `BrokerLifecycle`: every process and every
broker is run by the operating system, and a turn on a healthy broker ends;
nothing makes an app server die, a crash happen or a hook's five seconds pass.
`BatchInterrupt`: its two timers fire, and nobody else owes anything.
`job_liveness` lets the command that never stops choose between status and a
forced cancel each time.

## Findings

1. **An update may be lost** (`lock_lost_update`, `lib/state.mjs:672`).
   A stealer with an outdated snapshot renames whatever is at the lock path
   (`lib/state.mjs:543`) and restores it afterwards. The second scan of whoever
   publishes meanwhile is to notice the stealer's side file; but it lists the
   directory first and passes over each entry that has the lock path's inode by
   the time it is looked at. The first writer's lock is moved aside; the last
   writer publishes and lists that side file; a second stealer moves the last
   writer's lock aside, the first restores its own, and the listed entry is
   passed over. Both writers are in their sections. The first revalidates, writes
   and releases; the last writer's lock is restored, so that it revalidates too,
   and its write undoes the first. The schedule takes five processes, one of
   which has died before it begins; nobody is slow or dies in it. The comment at
   `lib/state.mjs:791` says that the sections are serialised, the name of the
   test at `tests/state.test.mjs:1463` that two stealers cannot make them overlap,
   and the error at `lib/state.mjs:127` that a theft is noticed before the
   commit.
2. **`cancel <job>` may signal another process** (`job_cancel_signal`,
   `codex-companion.mjs:1458`). The identity is verified before the awaited turn
   interrupt, the pid is signalled after it. The batch path looks again.
3. **`cancel <job>` may orphan a worker** (`job_cancel_orphan`,
   `codex-companion.mjs:1494`). On a queued record it decides that there is no
   pid; the worker's running record may come before the cancellation, which
   then erases the pid.
4. **A dead client can own the broker** (`broker_abrupt`,
   `app-server-broker.mjs:204`). The handler gives the stream to its socket
   after an await without looking whether it is closed. The stream may by then
   belong to a client whose turn has begun: its turn/completed is dropped and
   it waits for ever.
5. **A subagent's second turn is not followed** (`turn_drained`,
   `lib/codex.mjs:397`). `belongsToTurn` holds the turn id of a turn/started
   against the thread's previous turn, so a subagent that is given more work is
   not seen working, and the end of the command's turn may be inferred
   meanwhile. The message at `lib/codex.mjs:363` says that subagent work has
   drained. `InferredAfterMainWork` says what does hold.

## Known divergences

Met while modelling. No run demonstrates these; the models contain them, and a
property that would rule them out is weakened by name.

* A turn on a resumed thread may lose its stream. `task --resume-last` starts a
  turn on the thread of a job whose turn may still run on the app server
  (`codex-companion.mjs:506`); the late turn/completed of that one clears
  `activeStreamSocket` (`app-server-broker.mjs:90`), which by then is the new
  turn's client. The end of the new turn is dropped (`:85`), its client waits for
  ever, and the broker lets another client begin a turn beside it. `doubled`
  names the clients; without the exception TLC finds `NobodyWaitsInVain` violated
  with two runners and `OneTurnAtATime` with three.
* A log may begin in the middle. `removeJobLogFiles` may unlink it while a
  process of the job has lines to report, and `appendFileSync` then makes a new
  file with those only, without a diagnostic.
  `docs/adr/0004-best-effort-progress-log-writes.md:165` leaves that race open and
  expects a deleted log file to be absorbed "via the non-transient ENOENT
  branch", which is not taken as long as the directory exists. `LogHasNoHoles`
  admits it for jobs that are over.

* SessionEnd shuts down the broker it finds, also in the middle of another
  session's turn (`session-lifecycle-hook.mjs:176`), and that turn is lost.
  `docs/adr/0006-stale-job-detection-and-reaping.md:229` says that the shared
  broker serves all sessions in the workspace and that killing it would
  terminate unrelated jobs. `SessionEndEndsBroker` states what the code does.
* A broker whose app server has died goes on listening, and `request()`
  (`lib/app-server.mjs:85`) looks at `closed` only: its clients wait for ever.
  `EveryCommandEnds` excludes them.
* Two commands that start together spawn two brokers, and the second session
  hides the first (`lib/broker-lifecycle.mjs:113`). A broker that boots after
  its command gave up is in nobody's file. `KnownBrokerIsKept` says that it
  takes such a race.
* The retry of `withAppServer` without the broker (`lib/codex.mjs:655`) looks
  for ENOENT and ECONNREFUSED of a client, but a connection that fails has left
  no client to look at: such a command fails, unless the broker was given by the
  environment. `FailsBehindEndedBroker` says when.
* A spawned app server that has sent a line that is not JSON is taken for gone
  (`lib/app-server.mjs:117`), and nobody looks whether it ends. `Quiescent`
  names the exception.
* The timeout of the Stop hook (900 s, `hooks.json:32`) is as long as the
  review's (`stop-review-gate-hook.mjs:16`) and starts earlier, so a review that
  takes too long lets the stop pass where the script would block it.
  `PassesOnAllow` admits it.
* SessionEnd removes the session's finished reviews, which the limiter counts:
  the budget starts anew. `PruningKeepsWindow` is about pruning alone.
* A setting made while another process is in its migration may be undone by
  that one's `state.json`. `SettingsStay` begins when the migration is over.

## Proofs

All theorems hold for every value of the constants that satisfies the module's
assumption. The assumptions say that the sets of processes are disjoint and the
bounds are numbers, and in one case more: `BudgetAssumption` has finitely many
callers, a positive count and window, and a window below the retention, as
`parseReviewRateLimit` (positive, an hour at most) and the retention of 65 minutes
make them. `StateFile` and `BatchInterrupt` need none.

Three hypotheses go beyond that. None of them is about the size of the instance,
and each excludes a case in which TLC finds the property violated:

* `Prompt` (no lock call lasts a minute), for `LockExcludes` and
  `UncrowdedLosesNothing`;
* `Abrupt = {}` (no client dies during its turn/start), for the broker's
  properties: Finding 4;
* `Commands \cap Single = {}` (no `cancel <job>`), for the two about signals:
  Findings 2 and 3.

Every invariant and every action property that a passing run checks is proved;
the arguments are these.

* `JobLock_proofs!TypeCorrect`: `TypeOK` is inductive by itself.
* `JobLock_proofs!StealsAreOfStaleLocks`: a process past `staleCheck` has a
  snapshot that was stale when it judged it (`SnapStale`); what is stale stays
  stale (`StaleForever`: files only grow older and the dead stay dead); the
  settling of a steal unlinks the file of the snapshot or none (`StealStep`).
* `JobLock_proofs!LockExcludes`: `LockInv`. The lock files of a running call are
  recent (`FilesSinceStart`, `StartedRecently`, which is where `Prompt` comes
  in), so no scan takes a stealer's side file of one for stale. A lock that has
  gone astray is in such a side file until its owner has written
  (`AstrayIsAside`); whoever publishes another meanwhile is yet to list the
  directory, or has that side file among the entries it has not looked at
  (`OtherWillSee`), and it cannot pass it, because the inode at the lock path is
  its own as long as no second lock goes astray. A releaser that unlinks an
  entry by the inode it has compared could remove that side file, but only when
  its own lock is astray as well (`UnlinksAnothers`). `HasLock` and `AllInHand`
  say what a process in each place has published and has in its hand; `Noted`
  is the history. With nobody astray the lock path itself excludes the others,
  whose link(2) fails.
* `JobLock_proofs!UncrowdedLosesNothing`: until then nobody else writes while a
  process is between its reading and its writing, so whoever is there has read
  the version on disk (`ReadIsCurrent`).
* `JobStore_proofs!Invariance`: the inductive invariant `Inv`.
  `NoLiveWorkerFailed` alone is not inductive: it needs that a process about to
  reconcile, on a record unchanged since its listing, faces a queued record
  nobody has run or one whose worker is gone (`DeadStaysDead`), which in turn
  needs that only a worker writes a pid (`PidIsWorkers`) and that a worker in
  its turn has left the queued record behind (`TurnLeavesQueue`), for which it
  must be the only worker, spawned after the launcher's record
  (`WorkerAfterLauncher`). `TypeCorrect`, `LiveWorkersAreNotFailed` and
  `TagsEndWithJobs` follow.
* `JobStore_proofs!RecordImplementsLifecycle`: every step is a step of
  `JobLifecycle` or leaves status and outcome alone (`LifeNext`), from `Inv`
  and the effect of `upsertJob` (`UpsertEffect`).
* `JobStore_proofs!BatchSignalsTheWorker`, `BatchStopsTheWorker`: `SignalInv`. A
  worker in its turn under an active record is the process the record names
  (`ActiveNamesWorker`), so a tombstone committed on that record is owed to it;
  the signal looks again at whose the pid is; and only a forced cancel signals
  what it cannot verify (`SignalsForced`).
* `Broker_proofs!Invariance`: a request is in one place (`OnePlace`); what a
  client does agrees with what it has sent (`ClientsAgree`);
  `activeRequestSocket` is the open socket whose request is in flight
  (`RequestOwner`), `activeStreamSocket` one that waits for nothing else
  (`StreamOwner`), and a client in its turn that is not `doubled` has the stream,
  its turn runs, and no other runs on its thread (`TurnOwner`): so the only
  turn/completed that ends its stream is its own (`StreamEnds`,
  `CompletedStep`). `TurnsOneAtATime`, `NobodyIsForgotten` and `UnusedIsFree` follow;
  `TypeCorrect` holds whoever dies.
* `TurnCapture_proofs!Invariance`: that the outcome is the turn's needs what
  waits in the buffer and in the answer to tell the truth about the main turn
  (`BufferTells`, `ResponseTells`), and the capture to know its own turn before
  it looks at a notification (`FollowsOwn`); then `OnlyOwnTurnEnds` shows that
  nothing but that turn's turn/completed ends it. `OneAttempt` says that a retry
  comes only before any turn has been accepted. `TypeCorrect`,
  `OutcomeOfOwnTurn` and `RetryRunsOneTurn` follow.
* `TurnCapture_proofs!InfersAfterMainWork`: `WorkInv`. A collaboration that the
  main thread has opened waits in the capture or, while the turn's id is
  unknown, in the buffer behind whatever closed it before (`WorkIsTracked`); a
  final answer that the capture has seen or the buffer holds has been given
  (`AnswerIsSaid`); and nothing is buffered any more once the capture follows
  (`CaptureFollows`).
* `BrokerLifecycle_proofs!Invariance`: what keeps a saved broker reachable is
  that whoever is about to remove the files of a broker, or has removed them,
  has seen its end (`DropsEnded`): a teardown follows a refused probe, a hook's
  kill precedes its removal, and a command gives up on a broker that nobody has
  saved or holds (`UnsavedIsUnknown`). `TypeCorrect`, `SavedIsReachable`,
  `FailuresAreExplained` and `KnownIsKept` follow.
* `StateFile_proofs!StateInvariance`: a process in its migration has linked
  every job of its copy that is not in `toLink` (`MigratesAll`), so the rewriting
  it ends with loses none; whoever has come through `loadState` finds every job
  with a file, or removed (`LoadedAll`). `NothingIsLost`, `UpdatesStay` and
  `SettingsRemain` follow.
* `ReviewSubagents_proofs!AgentInvariance`: a setup past its last look that is
  not late faces what it saw (`LookHolds`), because whatever changes a path
  makes late all who have looked at it (`BecomesLate`). `TakesWhatItChecked`
  follows.
* `Workspace_proofs!OverrunIsBounded`: `BudgetInv`. `OverrunBounded` is inductive
  once a review without a record is known to be its reviewer's present one
  (`OneUnderway`): a check adds an allowed caller while less than the budget is
  counted and all others are callers at most, a review in the making takes its
  caller's place, and a record its review's; pruning and time only lower
  the count.
* `Workspace_proofs!WindowIsKept`: a write prunes a review only behind `MaxRecent`
  newer ones or past its retention, and what is past its retention is out of the
  window. That the `MaxRecent` newer ones are still listed after the pruning is
  an argument on the newest that is not (`NewestReview`).
* `Workspace_proofs!LogsHaveNoHoles`: until its circuit opens, all that a process
  is done with has been in the log, and what has gone with a removed file comes
  before what is there; from then on it does not try again (`CircuitHolds`). A
  removal moves the numbers in the file behind those that went before
  (`RemovalKeeps`), and waits for the end of the record (`RemovedWhenOver`).
* `Workspace_proofs!StopsPassOnAllow`, `ReturnsQuiescent`: the second is the
  safety half of `EveryCallReturns`, from `BatchInv`: the deadline is set exactly
  while the race is open, and a call that has returned has an ended client.
* `Workspace_proofs!PartsBehaveAlone`: every behaviour of `MCWorkspace` is one
  of each of its parts, so what is proved of a part holds of the composition;
  `AllTypesCorrect` puts the parts' type invariants together.

Only model-checked: all liveness (TLAPS does not reason about fairness here).
That is `CallsEnd`, `NeverWedged`, `DeadJobSettles`, `QueuedJobSettles`,
`RequestsAreAnswered`, `TurnsEnd`, `EndOfTurnEndsCapture`, `DrainedTurnEnds`,
`EveryCommandEnds`, `SessionEndEndsBroker` and the half of `EveryCallReturns`
that says that the call returns.

## Not modelled, and the plan

Proofs still worth having: that `JobStore`'s sections are those of `JobLock`
until two locks are astray, as a refinement between the two modules instead of
the argument above; and the strongest statement about the broker that holds when
clients do die in their turn/start. The schedule of Finding 1 has four
processes beside the dead one; three do not suffice within the bounds of
`lock_safety`.

Left out of the models that exist: named pipes and `taskkill` on Windows, an
unreadable `/proc`, jobs with invalid ids in an old `state.json`, an `agents`
directory that is missing or a link, detached reviews (no command asks for one),
the environment file that SessionStart writes, and requests that the app server
makes of its client, which are all refused.

Not modelled for good: the sandbox policy (a pure mapping with unit tests), git
context (subprocess output), rendering, prompts and argument parsing, and the
release script. None of them keeps state, and nothing in them is concurrent.
