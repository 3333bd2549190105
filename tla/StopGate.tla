------------------------------ MODULE StopGate ------------------------------
(***************************************************************************)
(* stop-review-gate-hook.mjs: the Stop hook, which lets Claude stop or       *)
(* blocks it, and the review task that it runs and waits for (spawnSync).    *)
(* Two clocks run: Claude Code ends a hook that takes longer than the        *)
(* timeout of hooks.json, and the hook ends a task that takes longer than    *)
(* STOP_REVIEW_TIMEOUT_MS.  The hook's clock starts first, or in the same    *)
(* unit of time.  A hook that is ended, or exits with an error, has printed  *)
(* no decision: the stop goes on.                                            *)
(***************************************************************************)
EXTENDS Naturals

CONSTANTS
  HookLimit,  \* the Stop hook's timeout in hooks.json
  TaskLimit,  \* STOP_REVIEW_TIMEOUT_MS
  MaxStart    \* bound: the time the hook takes until it starts the task

ASSUME GateAssumption == HookLimit \in Nat /\ TaskLimit \in Nat

VARIABLES
  hook,       \* config, setup, start, review, or over
  gate,       \* config.stopReviewGate
  codex,      \* whether Codex is available
  task,       \* none, running, or what it has ended with
  clock,      \* since the hook has started
  taskClock,  \* since the task has started
  stop        \* the stop of Claude's turn: asked, passed, blocked

gateVars == <<hook, gate, codex, task, clock, taskClock, stop>>

\* What the task ends with: a failed exit, output that is no JSON, an answer
\* that is empty or begins otherwise, or one of the two verdicts.
Verdict == {"ALLOW", "BLOCK"}
Result == {"failed", "invalid", "empty", "unexpected"} \cup Verdict

GateInit ==
  /\ hook = "config"
  /\ gate \in BOOLEAN
  /\ codex \in BOOLEAN
  /\ task = "none"
  /\ clock = 0 /\ taskClock = 0
  /\ stop = "asked"

Decides(decision) == hook' = "over" /\ stop' = decision

\* main: an open gate needs no review.
ReadConfig ==
  /\ hook = "config"
  /\ IF gate THEN hook' = "setup" /\ UNCHANGED stop ELSE Decides("passed")
  /\ UNCHANGED <<gate, codex, task, clock, taskClock>>

\* buildSetupNote: without Codex a note, and no review.
CheckSetup ==
  /\ hook = "setup"
  /\ IF codex THEN hook' = "start" /\ UNCHANGED stop ELSE Decides("passed")
  /\ UNCHANGED <<gate, codex, task, clock, taskClock>>

\* The prompt is built and the task spawned.
StartTask ==
  /\ hook = "start"
  /\ hook' = "review" /\ task' = "running" /\ taskClock' = 0
  /\ UNCHANGED <<gate, codex, clock, stop>>

TaskEnds ==
  /\ task = "running"
  /\ task' \in Result
  /\ UNCHANGED <<hook, gate, codex, clock, taskClock, stop>>

\* parseStopReviewOutput: only a first line that begins ALLOW: lets it pass.
PassesUnlessBlocked(result) == result \in Result \ {"BLOCK", "failed"}
Passes(result) == result = "ALLOW"
Judge ==
  /\ hook = "review" /\ task \in Result
  /\ Decides(IF Passes(task) THEN "passed" ELSE "blocked")
  /\ UNCHANGED <<gate, codex, task, clock, taskClock>>

\* ETIMEDOUT: the task is killed and the stop blocked.
TaskTimesOut ==
  /\ hook = "review" /\ task = "running" /\ taskClock = TaskLimit
  /\ task' = "timeout"
  /\ Decides("blocked")
  /\ UNCHANGED <<gate, codex, clock, taskClock>>

\* An exception before the review (a record that cannot be read, ...).
HookFails ==
  /\ hook \in {"config", "setup", "start"}
  /\ hook' = "failed" /\ stop' = "passed"
  /\ UNCHANGED <<gate, codex, task, clock, taskClock>>

\* External: Claude Code cancels the hook.
HookTimesOut ==
  /\ hook \notin {"over", "failed", "cancelled"} /\ clock = HookLimit
  /\ hook' = "cancelled" /\ stop' = "passed"
  /\ UNCHANGED <<gate, codex, task, clock, taskClock>>

\* Time stops at a limit until what it ends has been ended.
TimePasses ==
  /\ stop = "asked" /\ clock < HookLimit
  /\ hook # "review" => clock < MaxStart
  /\ task = "running" => taskClock < TaskLimit
  /\ clock' = clock + 1
  /\ taskClock' = IF task = "running" THEN taskClock + 1 ELSE taskClock
  /\ UNCHANGED <<hook, gate, codex, task, stop>>

GateNext ==
  \/ ReadConfig \/ CheckSetup \/ StartTask \/ TaskEnds \/ Judge
  \/ TaskTimesOut \/ HookFails \/ HookTimesOut \/ TimePasses

GateSpec == GateInit /\ [][GateNext]_gateVars

-----------------------------------------------------------------------------

GateTypeOK ==
  /\ hook \in {"config", "setup", "start", "review", "over", "failed", "cancelled"}
  /\ gate \in BOOLEAN /\ codex \in BOOLEAN
  /\ task \in {"none", "running", "timeout"} \cup Result
  /\ clock \in 0 .. HookLimit /\ taskClock \in 0 .. TaskLimit
  /\ stop \in {"asked", "passed", "blocked"}

\* With the gate closed and Codex there, a stop passes on the reviewer's ALLOW,
\* or because the hook never came to a decision.
PassesOnAllow ==
  stop = "passed" /\ gate /\ codex => task = "ALLOW" \/ hook \in {"failed", "cancelled"}
=============================================================================
