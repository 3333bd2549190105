---------------------------- MODULE MCWorkspace ----------------------------
(***************************************************************************)
(* What the processes of a workspace share beside the records: the broker    *)
(* (BrokerLifecycle), state.json (StateFile), the agent files                *)
(* (ReviewSubagents), the review budget (ReviewBudget), a job's log          *)
(* (ProgressLog), the stop gate (StopGate) and the interrupts of a batch     *)
(* cancel (BatchInterrupt).  These parts have no variable in common and no   *)
(* step of one looks at another, so a behaviour of all of them is one of     *)
(* each: TLC checks each by moving one at a time.                            *)
(***************************************************************************)
EXTENDS BrokerLifecycle, StateFile, ReviewSubagents, ReviewBudget, ProgressLog,
        StopGate, BatchInterrupt

CONSTANTS r1, r2, i1, h1,              \* processes of the broker
          l1, l2, s1, j1, j2,          \* processes of state.json, and its jobs
          e1, d1,                      \* setups
          c1, c2, u1, w1, w2           \* reviewers, and writers of a log

VARIABLE part  \* the part that moves

AllInit ==
  /\ part \in {"broker", "state", "agents", "budget", "log", "gate", "batch"}
  /\ Init /\ StateInit /\ AgentInit /\ BudgetInit /\ LogInit
  /\ GateInit /\ (part # "gate" => gate /\ codex)
  /\ BatchInit /\ (part # "batch" => child)
  /\ part # "agents" => agentFile = [a \in Agent |-> "none"]

AllNext ==
  /\ UNCHANGED part
  /\ \/ part = "broker" /\ Next
        /\ UNCHANGED <<stateVars, agentVars, budgetVars, logVars, gateVars, batchVars>>
     \/ part = "state" /\ StateNext
        /\ UNCHANGED <<vars, agentVars, budgetVars, logVars, gateVars, batchVars>>
     \/ part = "agents" /\ AgentNext
        /\ UNCHANGED <<vars, stateVars, budgetVars, logVars, gateVars, batchVars>>
     \/ part = "budget" /\ BudgetNext
        /\ UNCHANGED <<vars, stateVars, agentVars, logVars, gateVars, batchVars>>
     \/ part = "log" /\ LogNext
        /\ UNCHANGED <<vars, stateVars, agentVars, budgetVars, gateVars, batchVars>>
     \/ part = "gate" /\ GateNext
        /\ UNCHANGED <<vars, stateVars, agentVars, budgetVars, logVars, batchVars>>
     \/ part = "batch" /\ BatchNext
        /\ UNCHANGED <<vars, stateVars, agentVars, budgetVars, logVars, gateVars>>

allVars == <<part, vars, stateVars, agentVars, budgetVars, logVars, gateVars, batchVars>>

\* The fairness of BrokerLifecycle and of BatchInterrupt, for the part that moves.
AllSpec ==
  /\ AllInit /\ [][AllNext]_allVars
  /\ \A c \in Runner : WF_vars(part = "broker" /\ RunnerStep(c))
  /\ \A i \in Interrupter : WF_vars(part = "broker" /\ InterrupterStep(i))
  /\ \A h \in Hook : WF_vars(part = "broker" /\ HookStep(h))
  /\ \A b \in Runner : WF_vars(part = "broker" /\ BrokerStep(b))
  /\ WF_batchVars(part = "batch" /\ Timers)

-----------------------------------------------------------------------------
(* The properties that need the part that moves                            *)

\* Every variable of every part has its type.
AllTypeOK ==
  /\ TypeOK /\ StateTypeOK /\ AgentTypeOK /\ BudgetTypeOK
  /\ LogTypeOK /\ GateTypeOK /\ BatchTypeOK

\* BrokerLifecycle: every command ends, unless the app server of its broker dies.
EveryCommandEnds == part = "broker" => CommandsEnd
\* BatchInterrupt: the call returns, and leaves no connection, timer or process.
EveryCallReturns == part = "batch" => CallReturnsQuiescent
=============================================================================
