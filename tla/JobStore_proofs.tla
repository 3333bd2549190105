--------------------------- MODULE JobStore_proofs ---------------------------
(***************************************************************************)
(* Theorems about JobStore, for any commands run by any number of           *)
(* processes in any environment.                                           *)
(***************************************************************************)
EXTENDS JobStore, TLAPS

-----------------------------------------------------------------------------
(* The inductive invariant                                                  *)

\* Nothing is left of a record that is not on disk.
AbsentIsBlank == rec.status = "absent" => rec = Absent

\* Only a record that is over names who ended it.
EndedIsTerminal == rec.endedBy # "nobody" => IsTerminal(rec)

\* The worker is spawned once, after the launcher's record, and before that
\* record there is nothing to command.
WorkerAfterLauncher == launcher # "done" => worker = "none"
NothingBeforeLauncher ==
  launcher = "idle" => rec.status = "absent" /\ \A c \in Cli : pc[c] = "idle"

\* A running record names the worker's pid, and only the worker writes it.
RunningHasPid == rec.status = "running" => rec.pid
PidIsWorkers == rec.pid => InTurn \/ worker = "gone"

\* A worker in its turn has left the queued record behind.
TurnLeavesQueue == InTurn => rec.status # "queued"

\* What a process classified dead without the lock is dead as long as the
\* record has not changed: nobody has run it yet, or its worker is gone.
DeadStaysDead ==
  \A c \in unchanged : pc[c] = "reconcile" =>
    \/ rec.status = "queued" /\ ~rec.pid
    \/ rec.pid /\ worker = "gone"

Inv ==
  /\ TypeOK
  /\ AbsentIsBlank
  /\ EndedIsTerminal
  /\ WorkerAfterLauncher
  /\ NothingBeforeLauncher
  /\ RunningHasPid
  /\ PidIsWorkers
  /\ TurnLeavesQueue
  /\ DeadStaysDead
  /\ TagEndsWithJob
  /\ NoLiveWorkerFailed

-----------------------------------------------------------------------------
(* What the operators on the record do                                      *)

\* No record, and what a patch of one starts from, are records.
LEMMA AbsentIsRecord == Absent \in Record
BY DEF Absent, Record

\* What a patch is merged onto is a record, with the pid and the outcome of the
\* one on disk.
LEMMA ExistingIsRecord ==
  ASSUME TypeOK, AbsentIsBlank
  PROVE  /\ Existing \in Record
         /\ Existing.status # "absent"
         /\ IsTerminal(rec) => Existing = rec
         /\ Existing.pid = rec.pid
         /\ Existing.endedBy = rec.endedBy
         /\ OnDisk => Existing.status = rec.status
         /\ ~OnDisk => Existing.status = "none"
<1>1. CASE OnDisk
  BY <1>1 DEF TypeOK, Existing, OnDisk
<1>2. CASE ~OnDisk
  BY <1>2 DEF AbsentIsBlank, OnDisk, Existing, Absent, Record, IsTerminal, Terminal, Enders
<1> QED BY <1>1, <1>2

\* upsertJob keeps the outcome of a record that is over, and otherwise writes
\* the patched one, without the tag if that ends it.
LEMMA UpsertEffect ==
  ASSUME TypeOK, NEW next \in Record, Upsert(next)
  PROVE  /\ rec' \in Record
         /\ unchanged' = {} /\ aged' = FALSE
         /\ IsTerminal(rec) => /\ rec'.status = rec.status
                               /\ rec'.endedBy = rec.endedBy
                               /\ rec'.pid = rec.pid
         /\ ~IsTerminal(rec) => /\ rec'.status = next.status
                                /\ rec'.endedBy = next.endedBy
                                /\ rec'.pid = next.pid
         /\ IsTerminal(rec') => rec'.staleness = {}
<1> DEFINE merged == Preserve(next)
           written == IF IsTerminal(merged) THEN [merged EXCEPT !.staleness = {}] ELSE merged
<1>1. merged \in Record
  BY DEF Preserve, TypeOK, Record
<1>2. /\ IsTerminal(rec) => /\ merged.status = rec.status
                            /\ merged.endedBy = rec.endedBy
                            /\ merged.pid = rec.pid
      /\ ~IsTerminal(rec) => merged = next
  BY DEF Preserve, TypeOK, Record
<1>3. /\ written \in Record
      /\ written.status = merged.status
      /\ written.endedBy = merged.endedBy
      /\ written.pid = merged.pid
      /\ IsTerminal(written) => written.staleness = {}
  <2> HIDE DEF merged
  <2>1. CASE IsTerminal(merged)
    BY <1>1, <2>1 DEF Record, IsTerminal
  <2>2. CASE ~IsTerminal(merged)
    BY <1>1, <2>2
  <2> QED BY <2>1, <2>2
<1>4. rec' = written /\ aged' = FALSE /\ unchanged' = {}
  BY DEF Upsert, Write
<1> HIDE DEF merged, written
<1> QED BY <1>1, <1>2, <1>3, <1>4

\* A command that goes on, or ends.
LEMMA CliTypes ==
  ASSUME TypeOK, NEW c \in Cli,
         NEW l \in {"idle", "tombstone", "signal", "interrupt", "commit"}, Goto(c, l)
  PROVE  /\ pc' \in [Cli -> {"idle", "reconcile", "tag", "tombstone", "signal",
                             "decide", "interrupt", "commit"}]
         /\ ctx' \in [Cli -> Context]
         /\ \A d \in Cli : pc'[d] = "reconcile" => pc[d] = "reconcile" /\ d # c
<1>1. NoContext \in Context
  BY AbsentIsRecord DEF NoContext, Context, AllCommands, Kind
<1> QED BY <1>1 DEF TypeOK, Goto

-----------------------------------------------------------------------------
(* The invariant is inductive                                               *)

\* Before anything has happened.
LEMMA InvInit == Init => Inv
<1> SUFFICES ASSUME Init PROVE Inv
  OBVIOUS
<1>1. NoContext \in Context
  BY AbsentIsRecord DEF NoContext, Context, AllCommands, Kind
<1> QED BY <1>1, AbsentIsRecord DEF Init, Inv, TypeOK, AbsentIsBlank, EndedIsTerminal, WorkerAfterLauncher, NothingBeforeLauncher, RunningHasPid,
    PidIsWorkers, TurnLeavesQueue, DeadStaysDead, TagEndsWithJob, NoLiveWorkerFailed,
    Absent, IsTerminal, Terminal, InTurn

\* Every step of every process keeps the invariant.
LEMMA InvNext == Inv /\ [Next]_vars => Inv'
<1> SUFFICES ASSUME Inv, [Next]_vars PROVE Inv'
  OBVIOUS
<1> USE DEF Inv, TypeOK, AbsentIsBlank, EndedIsTerminal, WorkerAfterLauncher, NothingBeforeLauncher, RunningHasPid,
            PidIsWorkers, TurnLeavesQueue, DeadStaysDead, TagEndsWithJob, NoLiveWorkerFailed,
            InTurn, IsTerminal, Terminal, clis
<1>0. /\ Existing \in Record
      /\ Existing.status # "absent"
      /\ IsTerminal(rec) => Existing = rec
      /\ Existing.pid = rec.pid
      /\ Existing.endedBy = rec.endedBy
      /\ OnDisk => Existing.status = rec.status
      /\ ~OnDisk => Existing.status = "none"
  BY ExistingIsRecord
<1>1. ASSUME Enqueue PROVE Inv'
  <2> DEFINE next == [Existing EXCEPT !.status = "queued", !.own = TRUE]
  <2>1. next \in Record /\ next.status = "queued" /\ next.endedBy = rec.endedBy /\ next.pid = rec.pid
    BY <1>0 DEF Record, Active
  <2>2. Upsert(next)
    BY <1>1 DEF Enqueue
  <2> HIDE DEF next
  <2> QED BY <1>1, <2>1, <2>2, UpsertEffect, <1>0
      DEF Enqueue
<1>2. ASSUME SpawnWorker \/ LauncherDies \/ RunForeground \/ LoadStoredJob \/ RunnerEnds \/ WorkerDies
      PROVE  Inv'
  <2>1. CASE SpawnWorker \/ LauncherDies
    BY <2>1 DEF SpawnWorker, LauncherDies, KeepRecord, WorkerAlive
  <2>2. CASE RunForeground \/ LoadStoredJob
    BY <2>2 DEF RunForeground, LoadStoredJob, KeepRecord, WorkerAlive
  <2>3. CASE RunnerEnds
    BY <2>3 DEF RunnerEnds, KeepRecord, WorkerAlive
  <2>4. CASE WorkerDies
    BY <2>4 DEF WorkerDies, KeepRecord, WorkerAlive
  <2> QED BY <1>2, <2>1, <2>2, <2>3, <2>4
<1>3. ASSUME SpawnFails PROVE Inv'
  <2> DEFINE next == [Ended(Existing, "failed", "launcher") EXCEPT !.own = TRUE]
  <2>1. next \in Record /\ next.status = "failed" /\ next.endedBy = "launcher" /\ ~next.pid
    BY <1>0 DEF Ended, Record, Enders
  <2>2. Upsert(next)
    BY <1>3 DEF SpawnFails
  <2> HIDE DEF next
  <2> QED BY <1>3, <2>1, <2>2, UpsertEffect
      DEF SpawnFails
<1>4. ASSUME StartRunning PROVE Inv'
  <2>1. CASE IsTerminal(rec)
    BY <1>4, <2>1
    DEF StartRunning, KeepRecord
  <2>2. CASE ~IsTerminal(rec)
    <3> DEFINE next == [Existing EXCEPT !.status = "running", !.pid = TRUE, !.own = OnDisk => rec.own]
    <3>1. next \in Record /\ next.status = "running" /\ next.endedBy = "nobody" /\ next.pid
      BY <1>0, <2>2 DEF Record, Active, OnDisk
    <3>2. rec' = next /\ unchanged' = {} /\ aged' = FALSE /\ worker' = "turn" /\ overdue' = {}
      BY <1>4, <2>2 DEF StartRunning, Write
    <3> HIDE DEF next
    <3> QED BY <1>4, <3>1, <3>2
        DEF StartRunning
  <2> QED BY <2>1, <2>2
<1>5. ASSUME Progress PROVE Inv'
  <2>1. PICK ids \in BOOLEAN : Upsert([Existing EXCEPT !.turn = @ \/ ids])
    BY <1>5 DEF Progress
  <2> DEFINE next == [Existing EXCEPT !.turn = @ \/ ids]
  <2>2. next \in Record /\ next.status = Existing.status /\ next.endedBy = rec.endedBy /\ next.pid = rec.pid
    BY <1>0 DEF Record
  <2>3. Upsert(next)
    BY <2>1
  <2> HIDE DEF next
  <2> QED BY <1>5, <2>2, <2>3, <1>0, UpsertEffect
      DEF Progress, proc, OnDisk
<1>6. ASSUME Complete \/ Fail PROVE Inv'
  <2>1. CASE UNCHANGED <<rec, aged, unchanged>>
    BY <1>6, <2>1
    DEF Complete, Fail
  <2>2. CASE \E s \in {"completed", "failed"}, own \in BOOLEAN :
               Upsert([Ended(Existing, s, "worker") EXCEPT !.own = own])
    <3>1. PICK s \in {"completed", "failed"}, own \in BOOLEAN :
                 Upsert([Ended(Existing, s, "worker") EXCEPT !.own = own])
      BY <2>2
    <3> DEFINE next == [Ended(Existing, s, "worker") EXCEPT !.own = own]
    <3>2. next \in Record /\ next.status = s /\ next.endedBy = "worker" /\ ~next.pid
      BY <1>0 DEF Ended, Record, Enders
    <3>3. Upsert(next)
      BY <3>1
    <3> HIDE DEF next
    <3> QED BY <1>6, <3>2, <3>3, UpsertEffect
        DEF Complete, Fail
  <2> QED BY <1>6, <2>1, <2>2 DEF Complete, Fail, KeepRecord, Record
<1>7. ASSUME NEW c \in Cli, List(c) \/ CancelList(c) PROVE Inv'
  <2> DEFINE l == pc'[c]
  <2>1. ctx' \in [Cli -> Context]
    <3>1. PICK command \in Commands :
            ctx' = [ctx EXCEPT ![c] = [NoContext EXCEPT !.cmd = command, !.saw = rec]]
      BY <1>7 DEF List, CancelList, Begins
    <3>2. [NoContext EXCEPT !.cmd = command, !.saw = rec] \in Context
      BY StoreAssumption DEF NoContext, Context, Kind
    <3> QED BY <3>1, <3>2
  <2>2. /\ pc' = [pc EXCEPT ![c] = l]
        /\ l \in {"reconcile", "tag", "decide"}
        /\ launcher # "idle"
        /\ unchanged' \in {unchanged, unchanged \cup {c}}
        /\ l = "reconcile" => Dead(rec)
    BY <1>7 DEF List, CancelList, IsActive, Active
  <2>3. UNCHANGED <<rec, site, proc, aged, overdue, abandoned>>
    BY <1>7 DEF List, CancelList
  <2>4. Dead(rec) => (rec.status = "queued" /\ ~rec.pid) \/ (rec.pid /\ worker = "gone")
    BY DEF Dead, PidGone, PidHolder, WorkerAlive
  <2> QED BY <2>1, <2>2, <2>3, <2>4 DEF proc
<1>8. ASSUME NEW c \in Cli, Reconcile(c) PROVE Inv'
  <2> DEFINE next == Ended(rec, "failed", "reconciler")
  <2>1. Goto(c, "idle") /\ UNCHANGED <<site, proc, overdue, abandoned>> /\ pc[c] # "idle"
    BY <1>8 DEF Reconcile
  <2>2. CASE KeepRecord
    BY <2>1, <2>2, CliTypes DEF KeepRecord, proc
  <2>3. CASE c \in unchanged /\ IsActive(rec) /\ Write(next)
    <3>1. next \in Record /\ next.status = "failed" /\ ~next.pid /\ next.staleness = {}
      BY DEF Ended, Record, Enders
    <3>2. ~InTurn
      BY <1>8, <2>3 DEF Reconcile
    <3>3. rec' = next /\ unchanged' = {} /\ aged' = FALSE
      BY <2>3 DEF Write
    <3> HIDE DEF next
    <3> QED BY <2>1, <3>1, <3>2, <3>3, CliTypes DEF proc
  <2> QED BY <1>8, <2>2, <2>3 DEF Reconcile
<1>9. ASSUME NEW c \in Cli, ApplyStaleness(c) PROVE Inv'
  <2> DEFINE next == [rec EXCEPT !.staleness = StaleReasons]
  <2>1. PICK l \in {"tombstone", "idle"} : Goto(c, l)
    BY <1>9 DEF ApplyStaleness
  <2>2. UNCHANGED <<site, proc, overdue, abandoned>> /\ pc[c] # "idle"
    BY <1>9 DEF ApplyStaleness
  <2>3. CASE KeepRecord
    BY <2>1, <2>2, <2>3, CliTypes DEF KeepRecord, proc
  <2>4. CASE ~IsTerminal(rec) /\ OnDisk /\ Write(next)
    <3>1. /\ next \in Record /\ next.status = rec.status /\ next.pid = rec.pid
          /\ next.endedBy = rec.endedBy
      BY DEF Record, StaleReasons
    <3>2. rec' = next /\ unchanged' = {} /\ aged' = FALSE
      BY <2>4 DEF Write
    <3> HIDE DEF next
    <3> QED BY <2>1, <2>2, <2>4, <3>1, <3>2, CliTypes DEF proc, OnDisk
  <2> QED BY <1>9, <2>3, <2>4 DEF ApplyStaleness
<1>10. ASSUME NEW c \in Cli, Tombstone(c) PROVE Inv'
  <2> DEFINE next == Ended(rec, "cancelled", "canceller")
  <2>1. PICK l \in {"signal", "idle"} : Goto(c, l)
    BY <1>10 DEF Tombstone
  <2>2. UNCHANGED <<site, proc, overdue, abandoned>> /\ pc[c] # "idle"
    BY <1>10 DEF Tombstone
  <2>3. CASE KeepRecord
    BY <2>1, <2>2, <2>3, CliTypes DEF KeepRecord, proc
  <2>4. CASE Write(next)
    <3>1. /\ next \in Record /\ next.status = "cancelled" /\ ~next.pid
          /\ next.endedBy = "canceller" /\ next.staleness = {}
      BY DEF Ended, Record, Enders
    <3>2. rec' = next /\ unchanged' = {} /\ aged' = FALSE
      BY <2>4 DEF Write
    <3> HIDE DEF next
    <3> QED BY <2>1, <2>2, <3>1, <3>2, CliTypes DEF proc
  <2> QED BY <1>10, <2>3, <2>4 DEF Tombstone
<1>11. ASSUME NEW c \in Cli, RecheckedSignal(c) \/ CliStops(c) PROVE Inv'
  <2>1. /\ Goto(c, "idle") /\ KeepRecord /\ pc[c] # "idle"
        /\ UNCHANGED <<site, launcher, worker, holder, overdue>>
    BY <1>11 DEF RecheckedSignal, CliStops, proc
  <2>2. signalled' \subseteq {"worker", "other"} /\ abandoned' \in BOOLEAN
    BY <1>11 DEF RecheckedSignal, CliStops, Terminate, proc
  <2> QED BY <2>1, <2>2, CliTypes DEF KeepRecord
<1>12. ASSUME NEW c \in Cli, CancelDecide(c) \/ CancelInterrupted(c) PROVE Inv'
  <2>1. KeepRecord /\ UNCHANGED <<site, launcher, worker, holder, overdue, abandoned>> /\ pc[c] # "idle"
    BY <1>12 DEF CancelDecide, CancelInterrupted
  <2>2. signalled' \subseteq {"worker", "other"}
    BY <1>12 DEF CancelDecide, CancelInterrupted, CancelSignals, Terminate
  <2>3. CASE \E l \in {"idle", "commit"} : Goto(c, l)
    BY <2>1, <2>2, <2>3, CliTypes DEF KeepRecord
  <2>4. CASE \E k \in Kind : pc' = [pc EXCEPT ![c] = "interrupt"] /\ ctx' = [ctx EXCEPT ![c].kind = k]
    <3>1. ctx' \in [Cli -> Context]
      BY <2>4 DEF Context
    <3> QED BY <2>1, <2>2, <2>4, <3>1 DEF KeepRecord
  <2>5. Identity(rec.pid \/ ctx[c].saw.pid) \in Kind
    BY DEF Identity, Kind
  <2> QED BY <1>12, <2>3, <2>4, <2>5 DEF CancelDecide, CancelInterrupted, CancelSignals
<1>13. ASSUME NEW c \in Cli, CancelCommit(c) PROVE Inv'
  <2> DEFINE next == [Existing EXCEPT !.status = "cancelled", !.pid = FALSE, !.endedBy = "canceller"]
  <2>1. next \in Record /\ next.status = "cancelled" /\ next.endedBy = "canceller" /\ ~next.pid
    BY <1>0 DEF Record, Enders
  <2>2. Upsert(next) /\ Goto(c, "idle") /\ pc[c] # "idle" /\ UNCHANGED <<site, proc, overdue, abandoned>>
    BY <1>13 DEF CancelCommit
  <2> HIDE DEF next
  <2>3. TypeOK'
    BY <2>1, <2>2, UpsertEffect, CliTypes DEF proc
  <2> QED BY <2>1, <2>2, <2>3, UpsertEffect, CliTypes DEF proc
<1>14. ASSUME SessionEnd \/ Prune PROVE Inv'
  <2>1. /\ launcher # "idle" /\ aged' = FALSE /\ unchanged' = {}
        /\ UNCHANGED <<site, launcher, worker, holder, overdue, clis>>
    BY <1>14 DEF SessionEnd, Prune, Write, OnDisk, proc
  <2>2. signalled' \subseteq {"worker", "other"}
    BY <1>14 DEF SessionEnd, Prune, Terminate, proc
  <2>3. CASE rec' = Absent
    BY <2>1, <2>2, <2>3, AbsentIsRecord DEF Absent
  <2>4. CASE rec' = Ended(rec, "cancelled", "session")
    <3> DEFINE next == Ended(rec, "cancelled", "session")
    <3>1. /\ next \in Record /\ next.status = "cancelled" /\ ~next.pid
          /\ next.endedBy = "session" /\ next.staleness = {}
      BY DEF Ended, Record, Enders
    <3>2. rec' = next
      BY <2>4
    <3> HIDE DEF next
    <3> QED BY <2>1, <2>2, <3>1, <3>2
  <2> QED BY <1>14, <2>3, <2>4 DEF SessionEnd, Prune, Write
<1>15. ASSUME Age PROVE Inv'
  BY <1>15 DEF Age, proc
<1>16. ASSUME GrowOverdue PROVE Inv'
  BY <1>16 DEF GrowOverdue, proc
<1>17. ASSUME ReusePid PROVE Inv'
  BY <1>17 DEF ReusePid
<1>18. ASSUME UNCHANGED vars PROVE Inv'
  BY <1>18 DEF vars, proc
<1> QED
  BY <1>1, <1>2, <1>3, <1>4, <1>5, <1>6, <1>7, <1>8, <1>9, <1>10, <1>11, <1>12, <1>13, <1>14, <1>15, <1>16,
     <1>17, <1>18
  DEF Next, Launch, Work, Command, Environment

-----------------------------------------------------------------------------
(* The theorems                                                             *)

\* Every reachable state satisfies the invariant, whoever interrupts whom.
THEOREM Invariance == Spec => []Inv
<1> QED BY InvInit, InvNext, PTL DEF Spec

\* The variables keep their types, whoever interrupts whom.
THEOREM TypeCorrect == Spec => []TypeOK
<1>1. Inv => TypeOK
  BY DEF Inv
<1> QED BY <1>1, Invariance, PTL

\* reconcileStaleActiveJobs never fails a job whose worker is in its turn.
THEOREM LiveWorkersAreNotFailed == Spec => []NoLiveWorkerFailed
<1>1. Inv => NoLiveWorkerFailed
  BY DEF Inv
<1> QED BY <1>1, Invariance, PTL

\* applyStalenessUnderLock and the writers that end a job leave no tag on it.
THEOREM TagsEndWithJobs == Spec => []TagEndsWithJob
<1>1. Inv => TagEndsWithJob
  BY DEF Inv
<1> QED BY <1>1, Invariance, PTL

-----------------------------------------------------------------------------
(* The record implements the life cycle                                     *)

LifeStep == [Lifecycle!Next]_<<rec.status, rec.endedBy>>

\* A job that is over changes no more until it is removed, and one that is not
\* may end with an outcome and somebody who ended it.
LEMMA UpsertEnds ==
  ASSUME Inv, NEW next \in Record, Upsert(next),
         next.status \in Terminal, next.endedBy \in Enders
  PROVE  LifeStep
BY UpsertEffect
DEF Inv, LifeStep, Lifecycle!Next, Lifecycle!End, Lifecycle!Terminal, Lifecycle!Enders,
    IsTerminal, Terminal, Enders

\* So does a section that ends an active record without upsertJob.
LEMMA WriteEnds ==
  ASSUME Inv, IsActive(rec), NEW s \in Terminal, NEW who \in Enders, Write(Ended(rec, s, who))
  PROVE  LifeStep
<1>1. rec'.status = s /\ rec'.endedBy = who
  BY DEF Write, Ended, Inv, TypeOK, Record
<1> QED BY <1>1
    DEF LifeStep, Lifecycle!Next, Lifecycle!End, Lifecycle!Terminal, Lifecycle!Enders,
        IsActive, Active, Terminal, Enders

\* No record is where the life cycle starts.
LEMMA LifeInit == Init => Lifecycle!Init
BY DEF Init, Lifecycle!Init, Absent

\* Every step is a step of the life cycle, or leaves status and outcome alone.
LEMMA LifeNext == Inv /\ [Next]_vars => LifeStep
<1> SUFFICES ASSUME Inv, [Next]_vars PROVE LifeStep
  OBVIOUS
<1>0. /\ TypeOK
      /\ Existing \in Record
      /\ IsTerminal(rec) => Existing = rec
      /\ Existing.endedBy = rec.endedBy
      /\ OnDisk => Existing.status = rec.status
      /\ ~OnDisk => Existing.status = "none" /\ rec = Absent
      /\ ~IsTerminal(rec) => rec.endedBy = "nobody"
  BY ExistingIsRecord DEF Inv, AbsentIsBlank, EndedIsTerminal, OnDisk
<1>1. CASE UNCHANGED rec
  BY <1>1 DEF LifeStep
<1>2. ASSUME Enqueue PROVE LifeStep
  <2> DEFINE next == [Existing EXCEPT !.status = "queued", !.own = TRUE]
  <2>1. next \in Record /\ next.status = "queued" /\ next.endedBy = rec.endedBy
    BY <1>0 DEF Record, Active
  <2>2. Upsert(next) /\ rec.status = "absent"
    BY <1>2 DEF Enqueue, Inv, NothingBeforeLauncher
  <2> HIDE DEF next
  <2> QED BY <1>0, <2>1, <2>2, UpsertEffect
      DEF LifeStep, Lifecycle!Next, Lifecycle!Create, Lifecycle!Active, IsTerminal, Terminal
<1>3. ASSUME SpawnFails PROVE LifeStep
  <2> DEFINE next == [Ended(Existing, "failed", "launcher") EXCEPT !.own = TRUE]
  <2>1. next \in Record /\ next.status \in Terminal /\ next.endedBy \in Enders
    BY <1>0 DEF Ended, Record, Terminal, Enders
  <2>2. Upsert(next)
    BY <1>3 DEF SpawnFails
  <2> HIDE DEF next
  <2> QED BY <2>1, <2>2, UpsertEnds
<1>4. ASSUME StartRunning, ~IsTerminal(rec) PROVE LifeStep
  <2>1. rec.status \in {"absent", "none", "queued"}
    BY <1>0, <1>4
    DEF StartRunning, Inv, TypeOK, Record, RunningHasPid, PidIsWorkers, InTurn, IsTerminal, Active
  <2>2. rec'.status = "running" /\ rec'.endedBy = rec.endedBy
    BY <1>0, <1>4 DEF StartRunning, Write, Record
  <2> QED BY <2>1, <2>2
      DEF LifeStep, Lifecycle!Next, Lifecycle!Create, Lifecycle!Run, Lifecycle!Active
<1>5. ASSUME Progress PROVE LifeStep
  <2>1. PICK ids \in BOOLEAN : Upsert([Existing EXCEPT !.turn = @ \/ ids])
    BY <1>5 DEF Progress
  <2> DEFINE next == [Existing EXCEPT !.turn = @ \/ ids]
  <2>2. next \in Record /\ next.status = Existing.status /\ next.endedBy = rec.endedBy
    BY <1>0 DEF Record
  <2>3. Upsert(next)
    BY <2>1
  <2> HIDE DEF next
  <2>4. /\ rec'.endedBy = rec.endedBy
        /\ rec'.status = rec.status \/ (~OnDisk /\ rec'.status = "none")
    <3>1. CASE IsTerminal(rec)
      BY <1>0, <2>2, <2>3, <3>1, UpsertEffect
    <3>2. CASE ~IsTerminal(rec)
      BY <1>0, <2>2, <2>3, <3>2, UpsertEffect
    <3> QED BY <3>1, <3>2
  <2> QED BY <2>4 DEF LifeStep, Lifecycle!Next, Lifecycle!Create, OnDisk
<1>6. ASSUME NEW s \in {"completed", "failed"}, NEW own \in BOOLEAN,
             Upsert([Ended(Existing, s, "worker") EXCEPT !.own = own])
      PROVE  LifeStep
  <2> DEFINE next == [Ended(Existing, s, "worker") EXCEPT !.own = own]
  <2>1. next \in Record /\ next.status \in Terminal /\ next.endedBy \in Enders
    BY <1>0 DEF Ended, Record, Terminal, Enders
  <2>2. Upsert(next)
    BY <1>6
  <2> HIDE DEF next
  <2> QED BY <2>1, <2>2, UpsertEnds
<1>7. ASSUME NEW c \in Cli, Reconcile(c) PROVE LifeStep
  BY <1>1, <1>7, WriteEnds DEF Reconcile, KeepRecord, Terminal, Enders
<1>8. ASSUME NEW c \in Cli, ApplyStaleness(c) PROVE LifeStep
  <2>1. CASE Write([rec EXCEPT !.staleness = StaleReasons])
    <3>1. rec'.status = rec.status /\ rec'.endedBy = rec.endedBy
      BY <1>0, <2>1 DEF Write, TypeOK, Record
    <3> QED BY <3>1 DEF LifeStep
  <2> QED BY <1>1, <1>8, <2>1 DEF ApplyStaleness, KeepRecord
<1>9. ASSUME NEW c \in Cli, Tombstone(c) PROVE LifeStep
  BY <1>1, <1>9, WriteEnds DEF Tombstone, KeepRecord, Terminal, Enders
<1>10. ASSUME NEW c \in Cli, CancelCommit(c) PROVE LifeStep
  <2> DEFINE next == [Existing EXCEPT !.status = "cancelled", !.pid = FALSE, !.endedBy = "canceller"]
  <2>1. next \in Record /\ next.status \in Terminal /\ next.endedBy \in Enders
    BY <1>0 DEF Record, Terminal, Enders
  <2>2. Upsert(next)
    BY <1>10 DEF CancelCommit
  <2> HIDE DEF next
  <2> QED BY <2>1, <2>2, UpsertEnds
<1>11. ASSUME SessionEnd \/ Prune PROVE LifeStep
  <2>1. CASE rec' = Absent /\ OnDisk /\ ~IsActive(rec)
    BY <1>0, <2>1
    DEF Absent, OnDisk, IsActive, Active, Terminal, TypeOK, Record,
        LifeStep, Lifecycle!Next, Lifecycle!Remove, Lifecycle!Terminal
  <2> QED BY <1>11, <2>1, WriteEnds DEF SessionEnd, Prune, Write, Terminal, Enders
<1>12. ASSUME Launch \/ WorkerDies \/ Environment \/ UNCHANGED vars PROVE LifeStep
  BY <1>1, <1>2, <1>3, <1>11, <1>12
  DEF Launch, Environment, SpawnWorker, LauncherDies, RunForeground, WorkerDies, Age, GrowOverdue,
      ReusePid, KeepRecord, vars
<1>13. ASSUME Work PROVE LifeStep
  <2>1. rec.own \in BOOLEAN
    BY <1>0 DEF TypeOK, Record
  <2> QED BY <1>1, <1>4, <1>5, <1>6, <1>13, <2>1
      DEF Work, LoadStoredJob, StartRunning, RunnerEnds, Complete, Fail, KeepRecord
<1>14. ASSUME NEW c \in Cli, Command(c) \/ CliStops(c) PROVE LifeStep
  BY <1>1, <1>7, <1>8, <1>9, <1>10, <1>14
  DEF Command, List, RecheckedSignal, CancelList, CancelDecide, CancelInterrupted, CliStops, KeepRecord
<1> QED BY <1>12, <1>13, <1>14 DEF Next

\* Whoever writes the record when, it lives the life of JobLifecycle: never
\* sent back, one outcome that lasts until the record is removed, and no
\* removal of a job that is not over.
THEOREM RecordImplementsLifecycle == Spec => FollowsLifecycle
<1>1. Inv /\ [Next]_vars => [Lifecycle!Next]_<<rec.status, rec.endedBy>>
  BY LifeNext DEF LifeStep
<1> QED BY <1>1, LifeInit, Invariance, PTL DEF Spec, FollowsLifecycle, Lifecycle!Spec

-----------------------------------------------------------------------------
(* Whom a cancellation signals: without cancel <job>, which violates both    *)
(* properties in the runs job_cancel_signal and job_cancel_orphan            *)

\* Nobody is in a cancel <job>.
NoSingle == \A c \in Cli : pc[c] \notin {"decide", "interrupt", "commit"}

\* A cancel that owes a signal to a pid it cannot verify has been forced.
SignalsForced ==
  \A c \in Cli : pc[c] = "signal" /\ site.linux /\ ~site.startKnown => Forces(c)

SignalInv == Inv /\ NoSingle /\ SignalsForced /\ OnlyTheWorkerIsSignalled /\ CancelledWorkerStops

\* A worker in its turn on an active record is the process that the record
\* names.
LEMMA ActiveNamesWorker ==
  ASSUME Inv, IsActive(rec), InTurn
  PROVE  rec.pid /\ PidHolder = "worker"
BY DEF Inv, IsActive, Active, TurnLeavesQueue, RunningHasPid, PidHolder, WorkerAlive, Record, TypeOK

\* A verified signal goes to the worker, and to nobody else.
LEMMA TerminateMatch ==
  ASSUME Terminate
  PROVE  /\ PidHolder = "worker" /\ site.detached => signalled' = signalled \cup {"worker"}
         /\ PidHolder # "other" /\ "other" \in signalled' => "other" \in signalled
         /\ signalled \subseteq signalled'
<1>1. CASE PidHolder = "worker"
  BY <1>1 DEF Terminate
<1>2. CASE PidHolder # "worker"
  BY <1>2 DEF Terminate
<1> QED BY <1>1, <1>2

\* Only a match is signalled where identities are known.
LEMMA SignalsKnown ==
  ASSUME TypeOK, site.startKnown, NEW hasPid \in BOOLEAN, NEW force \in BOOLEAN,
         Signals(Identity(hasPid), force)
  PROVE  PidHolder = "worker"
<1>1. site.linux
  BY StoreAssumption DEF TypeOK
<1> QED BY <1>1 DEF Signals, Identity

\* Whatever the environment, the worker's own pid is signalled, if only by
\* force where it cannot be verified.
LEMMA SignalsWorker ==
  ASSUME TypeOK, PidHolder = "worker", NEW force \in BOOLEAN,
         site.linux /\ ~site.startKnown => force
  PROVE  Signals(Identity(TRUE), force)
<1>1. site.linux \in BOOLEAN /\ site.startKnown \in BOOLEAN
  BY StoreAssumption DEF TypeOK, Site
<1>2. CASE site.linux /\ site.startKnown
  BY <1>2 DEF Signals, Identity, PidGone
<1>3. CASE site.linux /\ ~site.startKnown
  BY <1>3 DEF Signals, Identity
<1>4. CASE ~site.linux
  BY <1>4 DEF Signals, Identity
<1> QED BY <1>1, <1>2, <1>3, <1>4

\* A step that leaves the signals alone and cancels nothing.
LEMMA NothingCancelled ==
  ASSUME SignalInv, Inv', UNCHANGED <<site, signalled>>,
         abandoned => abandoned',
         \A c \in Cli : pc[c] = "signal" => pc'[c] = "signal",
         \A c \in Cli : pc'[c] = "signal" => pc[c] = "signal" /\ ctx'[c] = ctx[c],
         \A c \in Cli : pc'[c] \notin {"decide", "interrupt", "commit"},
         rec'.status = "cancelled" /\ InTurn' => rec.status = "cancelled" /\ InTurn
  PROVE  SignalInv'
BY DEF SignalInv, NoSingle, SignalsForced, Forces, OnlyTheWorkerIsSignalled, CancelledWorkerStops

\* The launcher, the worker and the environment, SessionEnd aside, cancel
\* nothing and signal nobody.
LEMMA OthersSignalNobody ==
  ASSUME SignalInv, Inv', Launch \/ Work \/ WorkerDies \/ Prune \/ Age \/ GrowOverdue \/ ReusePid
  PROVE  SignalInv'
<1> USE DEF SignalInv
<1>0. /\ Existing \in Record
      /\ IsTerminal(rec) => Existing = rec
      /\ OnDisk => Existing.status = rec.status
      /\ ~OnDisk => Existing.status = "none"
      /\ TypeOK
  BY ExistingIsRecord DEF Inv
<1>1. UNCHANGED <<site, signalled, clis>>
  BY DEF Launch, Work, WorkerDies, Prune, Age, GrowOverdue, ReusePid, Enqueue, SpawnWorker,
         SpawnFails, LauncherDies, RunForeground, LoadStoredJob, StartRunning, Progress,
         RunnerEnds, Complete, Fail, proc
<1>2. ASSUME NEW next \in Record, Upsert(next), next.status # "cancelled" \/ IsTerminal(rec)
      PROVE  rec'.status = "cancelled" => rec.status = "cancelled"
  BY <1>0, <1>2, UpsertEffect DEF IsTerminal
<1>3. rec'.status = "cancelled" => rec.status = "cancelled"
  <2>1. CASE Enqueue
    <3> DEFINE next == [Existing EXCEPT !.status = "queued", !.own = TRUE]
    <3>1. next \in Record /\ next.status = "queued" /\ Upsert(next)
      BY <1>0, <2>1 DEF Enqueue, Record, Active
    <3> HIDE DEF next
    <3> QED BY <1>2, <3>1
  <2>2. CASE SpawnFails
    <3> DEFINE next == [Ended(Existing, "failed", "launcher") EXCEPT !.own = TRUE]
    <3>1. next \in Record /\ next.status = "failed" /\ Upsert(next)
      BY <1>0, <2>2 DEF SpawnFails, Ended, Record, Terminal, Enders
    <3> HIDE DEF next
    <3> QED BY <1>2, <3>1
  <2>3. CASE StartRunning
    BY <1>0, <2>3 DEF StartRunning, Write, KeepRecord, Record
  <2>4. CASE Progress
    <3>1. PICK ids \in BOOLEAN : Upsert([Existing EXCEPT !.turn = @ \/ ids])
      BY <2>4 DEF Progress
    <3> DEFINE next == [Existing EXCEPT !.turn = @ \/ ids]
    <3>2. next \in Record /\ next.status = Existing.status
      BY <1>0 DEF Record
    <3>3. Upsert(next)
      BY <3>1
    <3> HIDE DEF next
    <3> QED BY <1>0, <1>2, <3>2, <3>3
  <2>5. ASSUME NEW s \in {"completed", "failed"}, NEW own \in BOOLEAN,
               Upsert([Ended(Existing, s, "worker") EXCEPT !.own = own])
        PROVE  rec'.status = "cancelled" => rec.status = "cancelled"
    <3> DEFINE next == [Ended(Existing, s, "worker") EXCEPT !.own = own]
    <3>1. next \in Record /\ next.status = s
      BY <1>0 DEF Ended, Record, Terminal, Enders
    <3>2. Upsert(next)
      BY <2>5
    <3> HIDE DEF next
    <3> QED BY <1>2, <3>1, <3>2
  <2>6. CASE Complete \/ Fail
    <3>1. rec.own \in BOOLEAN
      BY <1>0 DEF TypeOK, Record
    <3> QED BY <2>5, <2>6, <3>1 DEF Complete, Fail, KeepRecord
  <2>7. CASE Prune
    BY <2>7 DEF Prune, Write, Absent
  <2>8. CASE UNCHANGED rec
    BY <2>8
  <2> QED BY <2>1, <2>2, <2>3, <2>4, <2>6, <2>7, <2>8
          DEF Launch, Work, SpawnWorker, LauncherDies, RunForeground, LoadStoredJob, RunnerEnds,
              WorkerDies, Age, GrowOverdue, ReusePid, KeepRecord
<1>4. InTurn' /\ rec'.status = "cancelled" => InTurn
  <2>1. CASE StartRunning
    BY <1>0, <2>1 DEF StartRunning, Write, InTurn, Record
  <2>2. CASE ~StartRunning
    BY <2>2 DEF Launch, Work, WorkerDies, Prune, Age, GrowOverdue, ReusePid, Enqueue, SpawnWorker,
         SpawnFails, LauncherDies, RunForeground, LoadStoredJob, Progress, RunnerEnds, Complete,
         Fail, proc, InTurn
  <2> QED BY <2>1, <2>2
<1> QED BY <1>1, <1>3, <1>4, NothingCancelled DEF clis, NoSingle

\* A batch cancel owes a signal to the worker it cancelled, and sends it to
\* nobody else.
LEMMA CommandSignals ==
  ASSUME SignalInv, Inv', Commands \cap Single = {}, NEW c \in Cli, Command(c) \/ CliStops(c)
  PROVE  SignalInv'
<1> USE DEF SignalInv
<1>0. TypeOK /\ Forces(c) \in BOOLEAN /\ rec.pid \in BOOLEAN
  BY DEF Inv, TypeOK, Record, Forces
<1>1. UNCHANGED <<site, worker>> /\ (InTurn' <=> InTurn)
  BY DEF Command, CliStops, List, Reconcile, ApplyStaleness, Tombstone, RecheckedSignal,
         CancelList, CancelDecide, CancelInterrupted, CancelCommit, proc, InTurn
<1>2. ASSUME NEW l, Goto(c, l) PROVE pc' = [pc EXCEPT ![c] = l] /\ \A d \in Cli \ {c} : ctx'[d] = ctx[d]
  BY <1>0, <1>2 DEF Goto, TypeOK
<1>3. CASE List(c)
  <2>1. \A d \in Cli \ {c} : pc'[d] = pc[d] /\ ctx'[d] = ctx[d]
    BY <1>0, <1>3 DEF List, Begins, TypeOK
  <2>2. pc[c] = "idle" /\ pc'[c] \in {"reconcile", "tag"}
    BY <1>0, <1>3 DEF List, TypeOK
  <2>3. UNCHANGED <<rec, site, signalled, abandoned>>
    BY <1>3 DEF List, proc
  <2> QED BY <1>1, <2>1, <2>2, <2>3, NothingCancelled DEF NoSingle
<1>4. CASE Reconcile(c) \/ ApplyStaleness(c)
  <2>1. PICK l \in {"idle", "tombstone"} : Goto(c, l)
    BY <1>4 DEF Reconcile, ApplyStaleness
  <2>2. pc[c] # "signal" /\ UNCHANGED <<site, signalled, abandoned>>
    BY <1>4 DEF Reconcile, ApplyStaleness, proc
  <2>3. rec'.status = "cancelled" => rec.status = "cancelled"
    BY <1>0, <1>4 DEF Reconcile, ApplyStaleness, Write, KeepRecord, Ended, TypeOK, Record
  <2> QED BY <1>0, <1>1, <1>2, <2>1, <2>2, <2>3, NothingCancelled DEF NoSingle, TypeOK
<1>5. CASE Tombstone(c)
  <2>1. PICK l \in {"signal", "idle"} : Goto(c, l)
    BY <1>5 DEF Tombstone
  <2>2. pc[c] = "tombstone" /\ UNCHANGED <<site, signalled, abandoned>>
    BY <1>5 DEF Tombstone, proc
  <2>3. CASE UNCHANGED rec /\ l = "idle"
    BY <1>0, <1>1, <1>2, <2>1, <2>2, <2>3, NothingCancelled DEF NoSingle, TypeOK
  <2>4. CASE /\ IsActive(rec)
             /\ Identity(rec.pid) = "unverifiable" => Forces(c)
             /\ l = IF Signals(Identity(rec.pid), Forces(c)) THEN "signal" ELSE "idle"
    <3>1. l = "signal" => (site.linux /\ ~site.startKnown => Forces(c))
      BY <2>4 DEF Signals, Identity
    <3>2. InTurn => l = "signal"
      <4> SUFFICES ASSUME InTurn PROVE l = "signal"
        OBVIOUS
      <4>1. rec.pid /\ PidHolder = "worker"
        BY <2>4, ActiveNamesWorker
      <4>2. site.linux /\ ~site.startKnown => Forces(c)
        BY <2>4, <4>1 DEF Identity
      <4>3. Signals(Identity(TRUE), Forces(c))
        BY <1>0, <4>1, <4>2, SignalsWorker
      <4>4. rec.pid = TRUE
        BY <1>0, <4>1
      <4> QED BY <2>4, <4>3, <4>4
    <3>3. l = "signal" => ctx' = ctx
      BY <2>1 DEF Goto
    <3>4. pc'[c] = l /\ \A d \in Cli \ {c} : pc'[d] = pc[d] /\ ctx'[d] = ctx[d]
      BY <1>0, <1>2, <2>1 DEF TypeOK
    <3>5. NoSingle'
      BY <2>1, <3>4 DEF NoSingle
    <3>6. SignalsForced'
      BY <2>2, <3>1, <3>3, <3>4 DEF SignalsForced, Forces
    <3>7. OnlyTheWorkerIsSignalled'
      BY <2>2 DEF OnlyTheWorkerIsSignalled
    <3>8. CancelledWorkerStops'
      BY <1>1, <3>2, <3>4 DEF CancelledWorkerStops
    <3> QED BY <3>5, <3>6, <3>7, <3>8
  <2>5. Goto(c, "signal") => l = "signal"
    BY <1>0, <1>2, <2>1 DEF TypeOK
  <2>6. Goto(c, "idle") => l = "idle"
    BY <1>0, <1>2, <2>1 DEF TypeOK
  <2> QED BY <1>5, <2>3, <2>4, <2>5, <2>6 DEF Tombstone, KeepRecord
<1>6. CASE RecheckedSignal(c)
  <2>1. pc[c] = "signal" /\ Goto(c, "idle") /\ UNCHANGED <<rec, site, abandoned>>
    BY <1>6 DEF RecheckedSignal, KeepRecord
  <2>2. pc'[c] = "idle" /\ \A d \in Cli \ {c} : pc'[d] = pc[d] /\ ctx'[d] = ctx[d]
    BY <1>0, <1>2, <2>1 DEF TypeOK
  <2>3. NoSingle' /\ SignalsForced'
    BY <2>1, <2>2 DEF NoSingle, SignalsForced, Forces
  <2>4. \/ Signals(Identity(TRUE), Forces(c)) /\ Terminate
        \/ ~Signals(Identity(TRUE), Forces(c)) /\ UNCHANGED signalled
    BY <1>6 DEF RecheckedSignal
  <2>5. OnlyTheWorkerIsSignalled'
    <3>1. CASE site.startKnown /\ Signals(Identity(TRUE), Forces(c)) /\ Terminate
      <4>1. PidHolder = "worker"
        BY <1>0, <3>1, SignalsKnown
      <4> QED BY <2>1, <3>1, <4>1, TerminateMatch DEF OnlyTheWorkerIsSignalled
    <3> QED BY <2>1, <2>4, <3>1 DEF OnlyTheWorkerIsSignalled
  <2>6. CancelledWorkerStops'
    <3> SUFFICES ASSUME InTurn, site.detached, rec.status = "cancelled"
                 PROVE  "worker" \in signalled'
      BY <1>1, <2>1 DEF CancelledWorkerStops
    <3>1. PidHolder = "worker"
      BY DEF PidHolder, WorkerAlive
    <3>2. Signals(Identity(TRUE), Forces(c))
      BY <1>0, <2>1, <3>1, SignalsWorker DEF SignalsForced
    <3> QED BY <2>4, <3>1, <3>2, TerminateMatch
  <2> QED BY <2>3, <2>5, <2>6
<1>7. CASE CliStops(c)
  <2>1. /\ Goto(c, "idle") /\ UNCHANGED <<rec, site, signalled>>
        /\ abandoned' = (abandoned \/ pc[c] = "signal")
    BY <1>7 DEF CliStops, KeepRecord, proc
  <2>2. pc'[c] = "idle" /\ \A d \in Cli \ {c} : pc'[d] = pc[d] /\ ctx'[d] = ctx[d]
    BY <1>0, <1>2, <2>1 DEF TypeOK
  <2> QED BY <1>1, <2>1, <2>2
          DEF NoSingle, SignalsForced, Forces, OnlyTheWorkerIsSignalled, CancelledWorkerStops
<1>8. ~CancelList(c) /\ ~CancelDecide(c) /\ ~CancelInterrupted(c) /\ ~CancelCommit(c)
  BY DEF CancelList, Begins, CancelDecide, CancelInterrupted, CancelCommit, NoSingle
<1> QED BY <1>3, <1>4, <1>5, <1>6, <1>7, <1>8 DEF Command

\* SessionEnd signals the pid it has identified under the lock.
LEMMA SessionEndSignals ==
  ASSUME SignalInv, Inv', SessionEnd
  PROVE  SignalInv'
<1> USE DEF SignalInv
<1>0. TypeOK /\ rec.pid \in BOOLEAN
  BY DEF Inv, TypeOK, Record
<1>1. UNCHANGED <<site, worker, clis>> /\ (InTurn' <=> InTurn)
  BY DEF SessionEnd, InTurn
<1>2. NoSingle' /\ SignalsForced'
  BY <1>1 DEF clis, NoSingle, SignalsForced, Forces
<1>3. CASE ~IsActive(rec)
  BY <1>0, <1>1, <1>2, <1>3
  DEF SessionEnd, Write, Absent, OnlyTheWorkerIsSignalled, CancelledWorkerStops
<1>4. CASE IsActive(rec)
  <2> DEFINE k == Identity(rec.pid)
  <2>1. /\ k \in {"no-pid", "platform-unverifiable", "match"}
        /\ \/ Signals(k, FALSE) /\ Terminate
           \/ ~Signals(k, FALSE) /\ UNCHANGED signalled
    BY <1>4 DEF SessionEnd
  <2>2. OnlyTheWorkerIsSignalled'
    <3>1. CASE site.startKnown /\ Signals(k, FALSE) /\ Terminate
      <4>1. PidHolder = "worker"
        BY <1>0, <3>1, SignalsKnown
      <4> QED BY <1>1, <3>1, <4>1, TerminateMatch DEF OnlyTheWorkerIsSignalled
    <3> QED BY <1>1, <2>1, <3>1 DEF OnlyTheWorkerIsSignalled
  <2>3. CancelledWorkerStops'
    <3> SUFFICES ASSUME InTurn, site.detached PROVE "worker" \in signalled'
      BY <1>1 DEF CancelledWorkerStops
    <3>1. rec.pid = TRUE /\ PidHolder = "worker"
      BY <1>0, <1>4, ActiveNamesWorker
    <3>2. Signals(k, FALSE)
      BY <2>1, <3>1 DEF Identity, Signals
    <3> QED BY <2>1, <3>1, <3>2, TerminateMatch
  <2> QED BY <1>2, <2>2, <2>3
<1> QED BY <1>3, <1>4

LEMMA SignalNext ==
  Commands \cap Single = {} /\ SignalInv /\ [Next]_vars => SignalInv'
<1> SUFFICES ASSUME Commands \cap Single = {}, SignalInv, [Next]_vars PROVE SignalInv'
  OBVIOUS
<1>1. Inv'
  BY InvNext DEF SignalInv
<1>2. CASE UNCHANGED vars
  BY <1>1, <1>2, NothingCancelled DEF vars, proc, clis, SignalInv, NoSingle, InTurn
<1> QED BY <1>1, <1>2, OthersSignalNobody, CommandSignals, SessionEndSignals DEF Next, Environment

LEMMA SignalInit == Init => SignalInv
<1> SUFFICES ASSUME Init PROVE SignalInv
  OBVIOUS
<1> QED BY InvInit DEF Init, SignalInv, NoSingle, SignalsForced, OnlyTheWorkerIsSignalled,
                       CancelledWorkerStops, InTurn

THEOREM SignalInvariance == ASSUME Commands \cap Single = {} PROVE Spec => []SignalInv
<1>1. SignalInv /\ [Next]_vars => SignalInv'
  BY SignalNext
<1> QED BY <1>1, SignalInit, PTL DEF Spec

\* The batch cancels and SessionEnd signal no process but the job's worker,
\* whenever that dies and its pid is given away.
THEOREM BatchSignalsTheWorker == ASSUME Commands \cap Single = {} PROVE Spec => []OnlyTheWorkerIsSignalled
<1>1. SignalInv => OnlyTheWorkerIsSignalled
  BY DEF SignalInv
<1> QED BY <1>1, SignalInvariance, PTL

\* No worker that a batch cancel or SessionEnd has cancelled goes on unsignalled
\* unless the cancel itself was killed before its signal.
THEOREM BatchStopsTheWorker == ASSUME Commands \cap Single = {} PROVE Spec => []CancelledWorkerStops
<1>1. SignalInv => CancelledWorkerStops
  BY DEF SignalInv
<1> QED BY <1>1, SignalInvariance, PTL
=============================================================================
