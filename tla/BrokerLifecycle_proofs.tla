----------------------- MODULE BrokerLifecycle_proofs -----------------------
(***************************************************************************)
(* Proofs about BrokerLifecycle, for any number of commands and hooks.      *)
(***************************************************************************)
EXTENDS BrokerLifecycle, TLAPS

\* A broker that is at its end stays there.
Ended == {"closing", "gone"}

\* Until it is saved, a broker is in no process's hands but its spawner's.
BeforeSave == {"load", "probe", "teardown", "clear", "spawn", "wait", "save", "giveup"}
UnsavedIsUnknown ==
  \A c \in Runner : step[c] \in BeforeSave =>
    saved # c /\ \A p \in Process : held[p] # c

BeforeSpawn == {"load", "probe", "teardown", "clear", "spawn"}
UnspawnedIsNone == \A c \in Runner : step[c] \in BeforeSpawn => broker[c] = "none"

\* A broker that has been waited for listens where its session says, or ends.
Reachable(b) == broker[b] \in Up \cup Ended /\ (broker[b] \in Up => socket[b])
WaitedIsReachable == \A c \in Runner : step[c] = "save" => Reachable(c)
KnownIsReachable ==
  \A b \in Runner : saved = b \/ (\E p \in Process : held[p] = b) => Reachable(b)

\* Who is about to drop a session has none in its hands, or one that has ended.
Dropping == {"teardown", "clear", "spawn", "wait", "save", "giveup"}
DropsEnded == \A p \in Process : step[p] \in Dropping /\ held[p] # None => broker[held[p]] \in Ended

\* Who is with a broker holds its session.
WithBroker == {"probe", "teardown", "connect", "request", "turn", "failed", "lost",
               "shutdown", "kill"}
HoldsSession == \A p \in Process : step[p] \in WithBroker => held[p] # None

Inv ==
  /\ TypeOK
  /\ UnsavedIsUnknown /\ UnspawnedIsNone
  /\ WaitedIsReachable /\ KnownIsReachable
  /\ DropsEnded /\ HoldsSession
  /\ FailsBehindEndedBroker

\* A workspace without a broker, whose processes hold nothing.
LEMMA InitEstablishes == Init => Inv
BY ProcessAssumption DEF Init, Inv, TypeOK, UnsavedIsUnknown, UnspawnedIsNone,
   WaitedIsReachable, KnownIsReachable, DropsEnded, HoldsSession, FailsBehindEndedBroker,
   Process, Running, Over, Life, BeforeSave, Dropping, WithBroker, Reachable, Up, Ended

-----------------------------------------------------------------------------
(* The steps of the commands                                                *)

\* One step per action of RunnerStep.
LEMMA RunnerPreserves ==
  ASSUME Inv, NEW c \in Runner, RunnerStep(c)
  PROVE  Inv'
<1> USE ProcessAssumption DEF Inv, TypeOK, UnsavedIsUnknown, UnspawnedIsNone,
      WaitedIsReachable, KnownIsReachable, DropsEnded, HoldsSession, FailsBehindEndedBroker,
      Process, Running, Over, Life, BeforeSave, BeforeSpawn, Dropping, WithBroker,
      Reachable, Up, Ended, Goto, files
<1>1. CASE Load(c, "spawn", "probe")
  BY <1>1 DEF Load
<1>2. CASE Probe(c)
  BY <1>2 DEF Probe, Accepts
<1>3. CASE TearDown(c)
  BY <1>3 DEF TearDown, RemoveFiles
<1>4. CASE Clear(c, "spawn")
  BY <1>4 DEF Clear
<1>5. CASE Spawn(c)
  BY <1>5 DEF Spawn
<1>6. CASE WaitIsReady(c)
  BY <1>6 DEF WaitIsReady, Accepts
<1>7. CASE WaitIsOver(c)
  BY <1>7 DEF WaitIsOver
<1>8. CASE Save(c)
  BY <1>8 DEF Save
<1>9. CASE GiveUp(c)
  BY <1>9 DEF GiveUp, RemoveFiles
<1>10. CASE Connect(c)
  BY <1>10 DEF Connect, Accepts
<1>11. CASE Request(c)
  BY <1>11 DEF Request
<1>12. CASE FinishTurn(c)
  BY <1>12 DEF FinishTurn
<1>13. CASE LoseTurn(c)
  BY <1>13 DEF LoseTurn, Disconnected
<1>14. CASE RunDirect(c)
  BY <1>14 DEF RunDirect
<1> QED
  BY <1>1, <1>2, <1>3, <1>4, <1>5, <1>6, <1>7, <1>8, <1>9, <1>10, <1>11, <1>12,
     <1>13, <1>14 DEF RunnerStep

-----------------------------------------------------------------------------
(* The steps of the others                                                  *)

\* One step per action of InterrupterStep.
LEMMA InterrupterPreserves ==
  ASSUME Inv, NEW i \in Interrupter, InterrupterStep(i)
  PROVE  Inv'
<1> USE ProcessAssumption DEF Inv, TypeOK, UnsavedIsUnknown, UnspawnedIsNone,
      WaitedIsReachable, KnownIsReachable, DropsEnded, HoldsSession, FailsBehindEndedBroker,
      Process, Running, Over, Life, BeforeSave, BeforeSpawn, Dropping, WithBroker,
      Reachable, Up, Ended, Goto, files
<1>1. CASE Load(i, "direct", "connect")
  BY <1>1 DEF Load
<1>2. CASE Interrupt(i)
  BY <1>2 DEF Interrupt
<1>3. CASE RunDirect(i)
  BY <1>3 DEF RunDirect
<1> QED
  BY <1>1, <1>2, <1>3 DEF InterrupterStep

\* One step per action of the hook, its end from outside included.
LEMMA HookPreserves ==
  ASSUME Inv, NEW h \in Hook, HookStep(h) \/ HookIsKilled(h)
  PROVE  Inv'
<1> USE ProcessAssumption DEF Inv, TypeOK, UnsavedIsUnknown, UnspawnedIsNone,
      WaitedIsReachable, KnownIsReachable, DropsEnded, HoldsSession, FailsBehindEndedBroker,
      Process, Running, Over, Life, BeforeSave, BeforeSpawn, Dropping, WithBroker,
      Reachable, Up, Ended, Goto, files
<1>1. CASE Load(h, "clear", "shutdown")
  BY <1>1 DEF Load
<1>2. CASE SendShutdown(h)
  BY <1>2 DEF SendShutdown, CloseBroker
<1>3. CASE Kill(h)
  BY <1>3 DEF Kill, CloseBroker, RemoveFiles
<1>4. CASE Clear(h, "done")
  BY <1>4 DEF Clear
<1>5. CASE HookIsKilled(h)
  BY <1>5 DEF HookIsKilled
<1> QED
  BY <1>1, <1>2, <1>3, <1>4, <1>5 DEF HookStep

\* A process that finds a file gone ends; a hook has signalled the broker.
LEMMA RacePreserves ==
  ASSUME Inv, NEW p \in Runner \cup Hook, CleanupRaces(p)
  PROVE  Inv'
<1> USE ProcessAssumption DEF Inv, TypeOK, UnsavedIsUnknown, UnspawnedIsNone,
      WaitedIsReachable, KnownIsReachable, DropsEnded, HoldsSession, FailsBehindEndedBroker,
      Process, Running, Over, Life, BeforeSave, BeforeSpawn, Dropping, WithBroker,
      Reachable, Up, Ended, Goto, files
<1>1. CASE step[p] = "kill"
  BY <1>1 DEF CleanupRaces, CloseBroker
<1>2. CASE step[p] # "kill"
  BY <1>2 DEF CleanupRaces
<1> QED
  BY <1>1, <1>2

\* One step per action of a broker.
LEMMA BrokerPreserves ==
  ASSUME Inv, NEW b \in Runner, BrokerStep(b) \/ Die(b) \/ LoseAppServer(b)
  PROVE  Inv'
<1> USE ProcessAssumption DEF Inv, TypeOK, UnsavedIsUnknown, UnspawnedIsNone,
      WaitedIsReachable, KnownIsReachable, DropsEnded, HoldsSession, FailsBehindEndedBroker,
      Process, Running, Over, Life, BeforeSave, BeforeSpawn, Dropping, WithBroker,
      Reachable, Up, Ended, Goto, files
<1>1. CASE Boot(b)
  BY <1>1 DEF Boot
<1>2. CASE Listen(b)
  BY <1>2 DEF Listen
<1>3. CASE Exit(b)
  BY <1>3 DEF Exit
<1>4. CASE Die(b)
  BY <1>4 DEF Die
<1>5. CASE LoseAppServer(b)
  BY <1>5 DEF LoseAppServer
<1> QED
  BY <1>1, <1>2, <1>3, <1>4, <1>5 DEF BrokerStep

\* The invariant holds of every behaviour.
THEOREM Invariance == Spec => []Inv
<1>1. Inv /\ [Next]_vars => Inv'
  <2> SUFFICES ASSUME Inv, [Next]_vars PROVE Inv'
    OBVIOUS
  <2>1. CASE UNCHANGED vars
    BY <2>1 DEF vars, files, Inv, TypeOK, UnsavedIsUnknown, UnspawnedIsNone,
      WaitedIsReachable, KnownIsReachable, DropsEnded, HoldsSession, FailsBehindEndedBroker,
      Reachable
  <2>2. CASE Next
    BY <2>2, RunnerPreserves, InterrupterPreserves, HookPreserves, RacePreserves,
       BrokerPreserves DEF Next
  <2> QED
    BY <2>1, <2>2
<1> QED
  BY <1>1, InitEstablishes, PTL DEF Spec

-----------------------------------------------------------------------------
(* What follows                                                             *)

\* The variables keep their types, for any commands and hooks; in particular
\* no socket file comes before the broker that listens behind it.
THEOREM TypeCorrect == Spec => []TypeOK
BY Invariance, PTL DEF Inv

\* Whatever the commands and the hooks do to each other's files, a running
\* broker that broker.json names can be reached.
THEOREM SavedIsReachable == Spec => []SavedBrokerIsReachable
<1>1. Inv => SavedBrokerIsReachable
  BY DEF Inv, TypeOK, KnownIsReachable, Reachable, SavedBrokerIsReachable
<1> QED
  BY <1>1, Invariance, PTL

\* No command fails behind a broker that is well or on its way up.
THEOREM FailuresAreExplained == Spec => []FailsBehindEndedBroker
BY Invariance, PTL DEF Inv

\* Nobody who has loaded the session of a running broker drops it.
THEOREM KnownIsKept == Spec => KnownBrokerIsKept
<1> DEFINE Kept ==
      \A p \in Runner \cup Hook :
        saved # None /\ saved' # saved /\ broker[saved] \in Up /\ step'[p] # step[p]
          => held[p] # saved
<1>1. Inv /\ [Next]_vars => [Kept]_vars
  <2> SUFFICES ASSUME Inv, Next, NEW p \in Runner \cup Hook,
                      saved # None, saved' # saved, broker[saved] \in Up, step'[p] # step[p]
               PROVE  held[p] # saved
    OBVIOUS
  <2>1. \A q \in Process : step[q] \in {"clear", "save"} /\ held[q] # None => broker[held[q]] \notin Up
    BY DEF Inv, DropsEnded, Dropping, Ended, Up
  <2>2. step \in [Process -> Running \cup Over] /\ p \in Process
    BY DEF Inv, TypeOK, Process
  <2>3. ASSUME NEW c \in Runner, RunnerStep(c)
        PROVE  p = c /\ step[c] \in {"clear", "save"}
    BY <2>2, <2>3 DEF RunnerStep, Load, Probe, TearDown, Clear, Spawn, WaitIsReady, WaitIsOver,
       Save, GiveUp, Connect, Request, FinishTurn, LoseTurn, RunDirect, Goto, Process
  <2>4. ASSUME NEW h \in Hook, HookStep(h) \/ HookIsKilled(h)
        PROVE  p = h /\ step[h] = "clear"
    BY <2>2, <2>4 DEF HookStep, HookIsKilled, Load, SendShutdown, Kill, Clear, Goto, Process
  <2>5. ~ \E i \in Interrupter : InterrupterStep(i)
    BY DEF InterrupterStep, Load, Interrupt, RunDirect
  <2>6. ~ \E q \in Runner \cup Hook : CleanupRaces(q)
    BY DEF CleanupRaces
  <2>7. ~ \E b \in Runner : BrokerStep(b) \/ Die(b) \/ LoseAppServer(b)
    BY DEF BrokerStep, Boot, Listen, Exit, Die, LoseAppServer
  <2>8. step[p] \in {"clear", "save"}
    BY <2>3, <2>4, <2>5, <2>6, <2>7 DEF Next
  <2> QED
    BY <2>1, <2>2, <2>8
<1> QED
  BY <1>1, Invariance, PTL DEF Spec, KnownBrokerIsKept
=============================================================================
