--------------------------- MODULE MCLostUpdate ---------------------------
(***************************************************************************)
(* One schedule of JobLock, too long to be found by a search: five          *)
(* processes after which a write undoes another's.  The schedule only says  *)
(* whose turn it is; what each does is JobLock's.                           *)
(*                                                                         *)
(* first and last are the two writers.  The two stealers and first judged   *)
(* the lock of the dead process stale at the same time; first has removed   *)
(* it, the judgements of the others are outdated.                           *)
(***************************************************************************)
EXTENDS MCJobLock

CONSTANTS first, last, s1, s2

VARIABLE turn   \* how many turns of the schedule have been taken

Times(n, p) == [k \in 1 .. n |-> p]

\* The three see the dead process's lock and are about to steal it; last has
\* found no side file yet.
JudgeStale == Times(6, first) \o Times(6, s1) \o Times(6, s2) \o Times(2, last)

\* first steals it, publishes its own and reads the record.
FirstReads == Times(7, first)

\* s2 moves first's lock aside, last publishes its own and lists s2's side
\* file; s1 moves last's lock aside, s2 restores first's.
BothAstray == <<s2>> \o Times(3, last) \o <<s1, s2>>

\* The side file has the lock path's inode now: last passes it and reads.
LastReads == Times(2, last)

\* first revalidates, writes and releases; s1 restores last's lock, which last
\* finds in its place.
BothWrite == Times(9, first) \o <<s1, last>>

Schedule == JudgeStale \o FirstReads \o BothAstray \o LastReads \o BothWrite

ScheduledInit == AfterCrash /\ turn = 0
ScheduledNext ==
  /\ turn < Len(Schedule)
  /\ turn' = turn + 1
  /\ LET p == Schedule[turn + 1] IN Start(p) \/ Step(p)
  /\ crowded' = (crowded \/ Crowd')
ScheduledSpec == ScheduledInit /\ [][ScheduledNext]_<<vars, turn>>
=============================================================================
