-------------------------- MODULE BrokerLifecycle --------------------------
(***************************************************************************)
(* How the commands of a workspace find, start and lose the shared broker:  *)
(* lib/broker-lifecycle.mjs, CodexAppServerClient.connect, withAppServer    *)
(* and the SessionEnd hook, on broker.json and the files of the brokers.    *)
(* Nothing here is locked: between any two steps of one process the others  *)
(* run.  What a broker does with the requests is Broker's; here a broker is *)
(* a process that boots, listens and ends.                                  *)
(*                                                                         *)
(* A broker carries the name of the command that spawned it.  A process     *)
(* that finds a file gone between its existsSync and its unlinkSync ends    *)
(* with ENOENT ("raced"); broker.json is read and written in one step.      *)
(***************************************************************************)
EXTENDS FiniteSets

CONSTANTS
  Runner,       \* commands that run a turn (withAppServer)
  Interrupter,  \* commands that interrupt one (reuseExistingBroker)
  Hook,         \* SessionEnd hooks
  None          \* no broker

ASSUME ProcessAssumption ==
  /\ None \notin Runner
  /\ Runner \cap Interrupter = {}
  /\ (Runner \cup Interrupter) \cap Hook = {}

Process == Runner \cup Interrupter \cup Hook

VARIABLES
  step,    \* where each process is
  held,    \* the broker whose session it holds
  saved,   \* the session in broker.json
  broker,  \* each broker's process
  dir,     \* whether its session directory exists
  socket   \* whether its socket file exists

vars == <<step, held, saved, broker, dir, socket>>
files == <<dir, socket>>

Running == {"load", "probe", "teardown", "clear", "spawn", "wait", "save", "giveup",
            "connect", "request", "turn", "direct", "shutdown", "kill"}
Over == {"done", "failed", "raced", "lost", "killed"}
Life == {"none", "booting", "starting", "listening", "deaf", "closing", "gone"}

\* Brokers whose process has no end in sight.  A deaf one has lost its app
\* server: it listens, and nobody answers the requests it forwards.
Up == {"listening", "deaf"}

\* A closing broker calls server.close() after its app server has ended.
Accepts(b) == broker[b] \in Up \cup {"closing"} /\ socket[b]

Goto(p, s) == step' = [step EXCEPT ![p] = s]

Init ==
  /\ step = [p \in Process |-> "load"]
  /\ held = [p \in Process |-> None]
  /\ saved = None
  /\ broker = [b \in Runner |-> "none"]
  /\ dir = [b \in Runner |-> FALSE]
  /\ socket = [b \in Runner |-> FALSE]

-----------------------------------------------------------------------------
(* The end of a broker: broker/shutdown, or SIGTERM, which it handles alike *)

CloseNoBroker(b) == UNCHANGED broker
CloseWorkingBroker(b) ==
  broker' = [broker EXCEPT ![b] = IF @ = "listening" THEN "closing" ELSE @]
CloseBroker(b) == broker' = [broker EXCEPT ![b] = IF @ \in Up THEN "closing" ELSE @]

-----------------------------------------------------------------------------
(* ensureBrokerSession *)

Load(p, none, some) ==
  /\ step[p] = "load"
  /\ held' = [held EXCEPT ![p] = saved]
  /\ Goto(p, IF saved = None THEN none ELSE some)
  /\ UNCHANGED <<saved, broker, files>>

\* isBrokerEndpointReady: an endpoint that refuses goes on refusing.
ProbeMayTimeOut(c) ==
  /\ step[c] = "probe"
  /\ \E next \in {"connect", "teardown"} : Goto(c, next)
  /\ UNCHANGED <<held, saved, broker, files>>
Probe(c) ==
  /\ step[c] = "probe"
  /\ Goto(c, IF Accepts(held[c]) THEN "connect" ELSE "teardown")
  /\ UNCHANGED <<held, saved, broker, files>>

RemoveFiles(b) ==
  /\ dir' = [dir EXCEPT ![b] = FALSE]
  /\ socket' = [socket EXCEPT ![b] = FALSE]

\* No killProcess is given: the process, if any, is left alone.
TearDown(c) ==
  /\ step[c] = "teardown"
  /\ RemoveFiles(held[c])
  /\ Goto(c, "clear")
  /\ UNCHANGED <<held, saved, broker>>

\* clearBrokerSession unlinks whatever broker.json holds by now.
Clear(p, next) ==
  /\ step[p] = "clear"
  /\ saved' = None
  /\ Goto(p, next)
  /\ UNCHANGED <<held, broker, files>>

\* Two that remove the same files: the later unlinkSync throws.  The broker is
\* one of them as it ends, for its pid file; a hook has sent the signal by then.
CleaningUp(p, q) ==
  \/ step[p] = "clear" /\ step[q] = "clear"
  \/ step[p] \in {"teardown", "kill"} /\ step[q] \in {"teardown", "kill"} /\ held[p] = held[q]
BrokerCleansUp(p) ==
  \/ step[p] = "teardown" /\ broker[held[p]] = "closing"
  \/ step[p] = "kill" /\ broker[held[p]] \in Up \cup {"closing"}
CleanupRaces(p) ==
  /\ BrokerCleansUp(p) \/ \E q \in Process \ {p} : CleaningUp(p, q)
  /\ IF step[p] = "kill" THEN CloseBroker(held[p]) ELSE UNCHANGED broker
  /\ Goto(p, "raced")
  /\ UNCHANGED <<held, saved, files>>

Spawn(c) ==
  /\ step[c] = "spawn"
  /\ dir' = [dir EXCEPT ![c] = TRUE]
  /\ broker' = [broker EXCEPT ![c] = "booting"]
  /\ Goto(c, "wait")
  /\ UNCHANGED <<held, saved, socket>>

\* waitForBrokerEndpoint; its two seconds end with a sleep after the last try.
WaitIsReady(c) ==
  /\ step[c] = "wait" /\ Accepts(c)
  /\ Goto(c, "save")
  /\ UNCHANGED <<held, saved, broker, files>>

WaitIsOver(c) ==
  /\ step[c] = "wait" /\ ~Accepts(c)
  /\ Goto(c, "giveup")
  /\ UNCHANGED <<held, saved, broker, files>>

Save(c) ==
  /\ step[c] = "save"
  /\ saved' = c
  /\ held' = [held EXCEPT ![c] = c]
  /\ Goto(c, "connect")
  /\ UNCHANGED <<broker, files>>

GiveUp(c) ==
  /\ step[c] = "giveup"
  /\ RemoveFiles(c)
  /\ held' = [held EXCEPT ![c] = None]
  /\ Goto(c, "direct")
  /\ UNCHANGED <<saved, broker>>

-----------------------------------------------------------------------------
(* The commands' use of the broker *)

\* withAppServer retries without the broker when that is busy; when it does
\* not accept, it has no client by then whose transport it could look at.
Connect(c) ==
  /\ step[c] = "connect"
  /\ Goto(c, IF Accepts(held[c]) THEN "request" ELSE "failed")
  /\ UNCHANGED <<held, saved, broker, files>>

InTurnOn(b) == {c \in Runner : step[c] = "turn" /\ held[c] = b}

\* Nobody answers a deaf broker's client, and there is no deadline.
RequestOnce(c) ==
  /\ step[c] = "request"
  /\ Goto(c, IF broker[held[c]] \notin Up \/ InTurnOn(held[c]) # {} THEN "failed" ELSE "turn")
  /\ UNCHANGED <<held, saved, broker, files>>
Request(c) ==
  /\ step[c] = "request"
  /\ Goto(c, CASE broker[held[c]] \notin Up -> "failed"
               [] broker[held[c]] \in Up /\ InTurnOn(held[c]) # {} -> "direct"
               [] OTHER -> "turn")
  /\ UNCHANGED <<held, saved, broker, files>>

FinishTurn(c) ==
  /\ step[c] = "turn" /\ broker[held[c]] = "listening"
  /\ Goto(c, "done")
  /\ UNCHANGED <<held, saved, broker, files>>

\* The broker ends the connections first; captureTurn does not hear of it,
\* and the process ends with nothing left to wait for.
DisconnectedOnExit(c) == broker[held[c]] = "gone"
Disconnected(c) == broker[held[c]] \in {"closing", "gone"}

LoseTurn(c) ==
  /\ step[c] = "turn" /\ Disconnected(c)
  /\ Goto(c, "lost")
  /\ UNCHANGED <<held, saved, broker, files>>

RunDirect(c) ==
  /\ step[c] = "direct"
  /\ Goto(c, "done")
  /\ UNCHANGED <<held, saved, broker, files>>

\* interruptAppServerTurn reports an error instead of throwing it.
Interrupt(i) ==
  /\ \/ step[i] = "connect" /\ Goto(i, IF Accepts(held[i]) THEN "request" ELSE "done")
     \/ step[i] = "request" /\ broker[held[i]] # "deaf" /\ Goto(i, "done")
  /\ UNCHANGED <<held, saved, broker, files>>

-----------------------------------------------------------------------------
(* handleSessionEnd: it ends the broker that was saved when it began, removes *)
(* its files, and clears what is saved when it ends.  In between it cancels  *)
(* the session's jobs (SessionEnd of JobStore).                             *)

SendShutdown(h) ==
  /\ step[h] = "shutdown"
  /\ IF Accepts(held[h]) THEN CloseBroker(held[h]) ELSE UNCHANGED broker
  /\ Goto(h, "kill")
  /\ UNCHANGED <<held, saved, files>>

Kill(h) ==
  /\ step[h] = "kill"
  /\ CloseBroker(held[h])
  /\ RemoveFiles(held[h])
  /\ Goto(h, "clear")
  /\ UNCHANGED <<held, saved>>

\* The hook's five seconds are over.
HookIsKilled(h) ==
  /\ step[h] \in {"shutdown", "kill", "clear"}
  /\ Goto(h, "killed")
  /\ UNCHANGED <<held, saved, broker, files>>

-----------------------------------------------------------------------------
(* The broker's process *)

\* writePidFile makes the directory if it is gone.
BootListening(b) ==
  /\ broker[b] = "booting"
  /\ broker' = [broker EXCEPT ![b] = "starting"]
  /\ dir' = [dir EXCEPT ![b] = TRUE]
  /\ socket' = [socket EXCEPT ![b] = TRUE]
  /\ UNCHANGED <<step, held, saved>>
Boot(b) ==
  /\ broker[b] = "booting"
  /\ broker' = [broker EXCEPT ![b] = "starting"]
  /\ dir' = [dir EXCEPT ![b] = TRUE]
  /\ UNCHANGED <<step, held, saved, socket>>

\* server.listen in a directory that is gone is an error nobody handles.
Listen(b) ==
  /\ broker[b] = "starting"
  /\ broker' = [broker EXCEPT ![b] = IF dir[b] THEN "listening" ELSE "gone"]
  /\ socket' = [socket EXCEPT ![b] = dir[b]]
  /\ UNCHANGED <<step, held, saved, dir>>

\* Its app server does not start; or it crashes, and the socket file stays.
Die(b) ==
  /\ broker[b] \in {"starting"} \cup Up
  /\ broker' = [broker EXCEPT ![b] = "gone"]
  /\ UNCHANGED <<step, held, saved, files>>

LoseAppServer(b) ==
  /\ broker[b] = "listening"
  /\ broker' = [broker EXCEPT ![b] = "deaf"]
  /\ UNCHANGED <<step, held, saved, files>>

\* server.close has waited for the connections.
Exit(b) ==
  /\ broker[b] = "closing"
  /\ \A c \in InTurnOn(b) : Disconnected(c)
  /\ broker' = [broker EXCEPT ![b] = "gone"]
  /\ socket' = [socket EXCEPT ![b] = FALSE]
  /\ UNCHANGED <<step, held, saved, dir>>

-----------------------------------------------------------------------------

RunnerStep(c) ==
  \/ Load(c, "spawn", "probe") \/ Probe(c) \/ TearDown(c) \/ Clear(c, "spawn")
  \/ Spawn(c) \/ WaitIsReady(c) \/ WaitIsOver(c) \/ Save(c) \/ GiveUp(c)
  \/ Connect(c) \/ Request(c) \/ FinishTurn(c) \/ LoseTurn(c) \/ RunDirect(c)

InterrupterStep(i) == Load(i, "direct", "connect") \/ Interrupt(i) \/ RunDirect(i)

HookStep(h) == Load(h, "clear", "shutdown") \/ SendShutdown(h) \/ Kill(h) \/ Clear(h, "done")

BrokerStep(b) == Boot(b) \/ Listen(b) \/ Exit(b)

Next ==
  \/ \E c \in Runner : RunnerStep(c)
  \/ \E i \in Interrupter : InterrupterStep(i)
  \/ \E h \in Hook : HookStep(h) \/ HookIsKilled(h)
  \/ \E p \in Runner \cup Hook : CleanupRaces(p)
  \/ \E b \in Runner : BrokerStep(b) \/ Die(b) \/ LoseAppServer(b)

Spec == Init /\ [][Next]_vars

\* The operating system runs every process.  A turn ends when its broker and
\* app server live; nobody owes a crash, or a hook's deadline.
Fairness ==
  /\ \A c \in Runner : WF_vars(RunnerStep(c))
  /\ \A i \in Interrupter : WF_vars(InterrupterStep(i))
  /\ \A h \in Hook : WF_vars(HookStep(h))
  /\ \A b \in Runner : WF_vars(BrokerStep(b))

FairSpec == Spec /\ Fairness

-----------------------------------------------------------------------------

TypeOK ==
  /\ step \in [Process -> Running \cup Over]
  /\ held \in [Process -> Runner \cup {None}]
  /\ saved \in Runner \cup {None}
  /\ broker \in [Runner -> Life]
  /\ dir \in [Runner -> BOOLEAN]
  /\ socket \in [Runner -> BOOLEAN]
  /\ \A b \in Runner : socket[b] => broker[b] \in Up \cup {"closing", "gone"}

-----------------------------------------------------------------------------
(* What holds whatever the interleaving *)

\* The socket file of a broker that runs is there as long as broker.json
\* names it: teardownBrokerSession removes only what cannot be reached any more.
SavedBrokerIsReachable == saved # None /\ broker[saved] \in Up => socket[saved]

\* A process that drops the session of a running broker from broker.json, by
\* saving its own or by clearing, never knew that session: it decided before
\* that broker was saved.  Whoever has loaded a session drops it only once its
\* broker is at its end, so a live broker is hidden by a race and nothing else.
KnownBrokerIsKept ==
  [][\A p \in Runner \cup Hook :
       saved # None /\ saved' # saved /\ broker[saved] \in Up /\ step'[p] # step[p]
         => held[p] # saved]_vars

\* A command fails, or loses its turn, behind a broker that has ended, never
\* because of one that is well or on its way up.
FailsBehindEndedBroker ==
  \A c \in Runner : step[c] \in {"failed", "lost"} =>
                      broker[held[c]] \in {"closing", "gone"}

\* Every command ends, unless the app server of its broker has died under it:
\* withAppServer and interruptAppServerTurn wait without a deadline.
CommandsEnd ==
  \A c \in Runner \cup Interrupter :
    <>(step[c] \in Over \/ (held[c] # None /\ broker[held[c]] = "deaf"))

\* A SessionEnd that comes to its end has ended the broker it found, whatever
\* state that was in and whoever was using it, and left no session that names it.
SessionEndEndsBroker ==
  \A h \in Hook, b \in Runner :
    step[h] = "shutdown" /\ held[h] = b
      ~> (broker[b] = "gone" /\ saved # b) \/ step[h] \in {"killed", "raced"}
=============================================================================
