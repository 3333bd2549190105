--------------------------- MODULE JobLock_proofs ---------------------------
(***************************************************************************)
(* Theorems about JobLock, for any processes, any retry bound and any      *)
(* number of lock files: the types of its state; that stealStaleJobLock    *)
(* unlinks nothing but a stale lock; that the lock excludes, and loses no  *)
(* update, until two locks are astray at the same time.                    *)
(***************************************************************************)
EXTENDS JobLock, SequenceTheorems, TLAPS

-----------------------------------------------------------------------------
(* Type correctness *)

\* What a failed attempt leaves.
LEMMA AttemptFailedTypes ==
  ASSUME TypeOK, NEW p \in Proc, AttemptFailed(p)
  PROVE  pc' \in [Proc -> PC] /\ attempts' \in [Proc -> 0 .. RetryCount]
<1>1. pc' \in [Proc -> PC]
  BY DEF TypeOK, AttemptFailed, Goto, PC, MidCallPC, AcquirePC
<1>2. attempts[p] \in 0 .. RetryCount /\ (attempts[p] >= RetryCount \/ attempts[p] + 1 \in 0 .. RetryCount)
  BY LockAssumption DEF TypeOK
<1> QED BY <1>1, <1>2 DEF TypeOK, AttemptFailed

\* And the end of a release.
LEMMA ReleasedTypes ==
  ASSUME TypeOK, NEW p \in Proc, Released(p)
  PROVE  /\ pc' \in [Proc -> PC] /\ attempts' \in [Proc -> 0 .. RetryCount]
         /\ after' \in [Proc -> {"retry", "error", "prune"}]
         /\ pc'[p] # "settle"
<1>1. CASE after[p] = "retry"
  BY <1>1, AttemptFailedTypes DEF Released, TypeOK, AttemptFailed, Goto
<1>2. CASE after[p] # "retry"
  BY <1>2 DEF Released, TypeOK, Goto, PC, MidCallPC, ReleasePC
<1> QED BY <1>1, <1>2

\* The file at the lock path keeps its number under its side name.
LEMMA RenameKeepsFile ==
  ASSUME TypeOK, NEW p \in Proc, NEW k \in {"stealing", "releasing"},
         lockAt # 0, RenameToSide(p, k)
  PROVE  \E side \in Side :
           /\ side.kind = k /\ side.file = lockAt /\ lockAt \in Published
           /\ sides' = sides \cup {side}
           /\ mySide' = [mySide EXCEPT ![p] = side]
           /\ lockAt' = 0
<1> DEFINE named == {[kind |-> k, by |-> p, seq |-> n, file |-> lockAt] : n \in SideSeq}
           side == CHOOSE s \in named \ Named : TRUE
<1>1. side \in named
  BY DEF RenameToSide
<1>2. lockAt \in Published /\ lockAt \in File
  BY LockAssumption DEF TypeOK, Published, File
<1>3. side \in Side /\ side.file = lockAt /\ side.kind = k
  <2> HIDE DEF side
  <2>1. PICK n \in SideSeq : side = [kind |-> k, by |-> p, seq |-> n, file |-> lockAt]
    BY <1>1
  <2> QED BY <1>2, <2>1 DEF Side
<1>4. sides' = sides \cup {side} /\ mySide' = [mySide EXCEPT ![p] = side] /\ lockAt' = 0
  BY DEF RenameToSide
<1> QED BY <1>2, <1>3, <1>4

\* No side file is NoSide.
LEMMA NoSideIsNone == NoSide \notin Side
BY DEF NoSide, Side

\* Types hold after every step.
LEMMA TypeStep == TypeOK /\ [Next]_vars => TypeOK'
<1> SUFFICES ASSUME TypeOK, [Next]_vars PROVE TypeOK'
  OBVIOUS
<1> USE LockAssumption DEF TypeOK
<1>0. crowded' \in BOOLEAN
  <2>1. CASE Next
    BY <2>1 DEF Next, Crowd
  <2>2. CASE UNCHANGED vars
    BY <2>2 DEF vars
  <2> QED BY <2>1, <2>2
<1>1. ASSUME NEW p \in Proc, Start(p) PROVE TypeOK'
  BY <1>0, <1>1 DEF Start, Goto, At, PC, MidCallPC, AcquirePC, disk, Published
<1>7. ASSUME NEW p \in Proc, Scan(p) PROVE TypeOK'
  <2>1. pc' \in [Proc -> PC] /\ pc'[p] # "settle" /\ \A q \in Proc \ {p} : pc'[q] = pc[q]
    BY <1>7 DEF Scan, Goto, PC, MidCallPC, AcquirePC, ScanPC
  <2>2. listed' = [listed EXCEPT ![p] = sides]
    BY <1>7 DEF Scan, List
  <2> QED BY <1>0, <1>7, <2>1, <2>2 DEF Scan, At, disk, Published
<1>2. ASSUME NEW p \in Proc, Pass(p) \/ Linked(p) PROVE TypeOK'
  <2>1. PICK s \in listed[p] :
          /\ Ticked(p, s)
          /\ \/ mySide' = [mySide EXCEPT ![p] = s]
             \/ mySide' = [mySide EXCEPT ![p] = NoSide]
    BY <1>2 DEF Pass, Linked
  <2>2. s \in Side /\ pc[p] # "settle"
    BY <1>2, <2>1 DEF Pass, Linked, ScanPC, At
  <2>3. /\ mySide' \in [Proc -> Side \cup {NoSide}] /\ listed' \in [Proc -> SUBSET Side]
        /\ \A q \in Proc : listed'[q] \subseteq listed[q]
        /\ \A q \in Proc : pc[q] = "settle" => mySide'[q] = mySide[q]
    BY <2>1, <2>2 DEF Ticked
  <2>4. UNCHANGED <<pc, attempts, snap, after, since, disk, current>>
    BY <1>2 DEF Pass, Linked
  <2>5. \A q \in Proc : \A f \in (sides \cup listed[q])' : f.file \in Published'
    BY <2>3, <2>4 DEF disk, Published
  <2>6. \A q \in Proc : At(q, "settle")' => mySide'[q] # NoSide
    BY <2>3, <2>4 DEF At
  <2> QED BY <1>0, <2>3, <2>4, <2>5, <2>6 DEF disk, Published
<1>3. ASSUME NEW p \in Proc, LinkExists(p) \/ Blocked(p) PROVE TypeOK'
  <2>1. pc' \in [Proc -> PC] /\ attempts' \in [Proc -> 0 .. RetryCount] /\ pc'[p] # "settle"
    <3>1. CASE AttemptFailed(p)
      BY <3>1, AttemptFailedTypes DEF AttemptFailed, Goto
    <3>2. CASE \E l \in {"release", "error"} : Goto(p, l) /\ UNCHANGED attempts
      BY <3>2 DEF Goto, PC, MidCallPC, ReleasePC
    <3> QED BY <1>3, <3>1, <3>2 DEF LinkExists, Blocked
  <2>2. \A q \in Proc \ {p} : pc'[q] = pc[q]
    BY <1>3 DEF LinkExists, Blocked, AttemptFailed, Goto
  <2>3. /\ after' \in [Proc -> {"retry", "error", "prune"}]
        /\ listed' \in [Proc -> SUBSET Side] /\ \A q \in Proc : listed'[q] \subseteq listed[q]
    BY <1>3 DEF LinkExists, Blocked
  <2>4. UNCHANGED <<snap, mySide, since, disk, current>>
    BY <1>3 DEF LinkExists, Blocked
  <2>5. \A q \in Proc : \A f \in (sides \cup listed[q])' : f.file \in Published'
    BY <2>3, <2>4 DEF disk, Published
  <2> QED BY <1>0, <2>1, <2>2, <2>3, <2>4, <2>5 DEF disk, Published, At
<1>4. ASSUME NEW p \in Proc, Link(p) PROVE TypeOK'
  <2>1. owner' \in Seq(Proc) /\ Len(owner') = Len(owner) + 1
    BY <1>4, AppendProperties DEF Link
  <2>2. Len(owner) \in Nat /\ Len(owner') <= MaxFile
    BY <1>4, <2>1, LenProperties DEF Link
  <2>3. Published \subseteq Published' /\ Len(owner) + 1 \in Published'
    BY <2>1, <2>2 DEF Published
  <2>4. pc' \in [Proc -> PC] /\ pc' = [pc EXCEPT ![p] = "verify"]
    BY <1>4 DEF Link, Goto, PC, MidCallPC, AcquirePC
  <2> QED BY <1>0, <1>4, <2>1, <2>2, <2>3, <2>4 DEF Link, local, At
<1>5. ASSUME NEW p \in Proc, Verify(p) \/ StaleRead(p) \/ StaleCheck(p) \/ UnlinkSides(p) PROVE TypeOK'
  <2>1. pc' \in [Proc -> PC] /\ pc'[p] # "settle" /\ \A q \in Proc \ {p} : pc'[q] = pc[q]
    BY <1>5 DEF Verify, StaleRead, StaleCheck, UnlinkSides, Goto, PC, MidCallPC, AcquirePC, ReleasePC
  <2>2. CASE Verify(p)
    BY <1>0, <2>1, <2>2 DEF Verify, At, disk, Published
  <2>3. CASE StaleRead(p)
    BY <1>0, <2>1, <2>3 DEF StaleRead, At, disk, Published
  <2>4. CASE StaleCheck(p)
    BY <1>0, <2>1, <2>4 DEF StaleCheck, At, local, disk, Published
  <2>5. CASE UnlinkSides(p)
    BY <1>0, <2>1, <2>5 DEF UnlinkSides, List, At, disk, Published
  <2> QED BY <1>5, <2>2, <2>3, <2>4, <2>5
<1>6. ASSUME NEW p \in Proc, Unlink(p) PROVE TypeOK'
  BY <1>0, <1>6 DEF Unlink, RemoveSide, ScanPC, At, Published
<1>8. ASSUME NEW p \in Proc, StealNothing(p) PROVE TypeOK'
  BY <1>0, <1>8 DEF StealNothing, TryAgain, Goto, At, PC, MidCallPC, AcquirePC, disk, Published
<1>9. ASSUME NEW p \in Proc, StealRename(p) PROVE TypeOK'
  <2>1. pc' \in [Proc -> PC] /\ pc' = [pc EXCEPT ![p] = "stealSettle"]
    BY <1>9 DEF StealRename, Goto, PC, MidCallPC, AcquirePC
  <2>2. PICK side \in Side : /\ side.file \in Published /\ sides' = sides \cup {side}
                             /\ mySide' = [mySide EXCEPT ![p] = side] /\ lockAt' = 0
    BY <1>9, RenameKeepsFile DEF StealRename
  <2> QED BY <1>0, <1>9, <2>1, <2>2 DEF StealRename, Published, At
<1>10. ASSUME NEW p \in Proc, StealSettle(p) PROVE TypeOK'
  <2>1. \/ TryAgain(p)
        \/ Goto(p, "error") /\ UNCHANGED <<attempts, snap>>
    BY <1>10 DEF StealSettle
  <2>2. /\ pc' \in [Proc -> PC] /\ attempts' \in [Proc -> 0 .. RetryCount]
        /\ snap' \in [Proc -> {0} \cup Published]
        /\ pc'[p] # "settle" /\ \A q \in Proc \ {p} : pc'[q] = pc[q]
    <3>1. 0 \in 0 .. RetryCount
      OBVIOUS
    <3>2. attempts' \in [Proc -> 0 .. RetryCount] /\ snap' \in [Proc -> {0} \cup Published]
      BY <2>1, <3>1 DEF TryAgain
    <3> QED BY <2>1, <3>2 DEF TryAgain, Goto, PC, MidCallPC, AcquirePC
  <2>3. sides' \subseteq sides /\ lockAt' \in {0} \cup Published
    BY <1>10 DEF StealSettle, RemoveSide, Restore
  <2> QED BY <1>0, <1>10, <2>2, <2>3 DEF StealSettle, Published, At
<1>11. ASSUME NEW p \in Proc, ReadRecord(p) \/ SkipWrite(p) \/ Revalidate(p) \/ Commit(p)
       PROVE  TypeOK'
  BY <1>0, <1>11 DEF ReadRecord, SkipWrite, Revalidate, Commit, Goto, At, PC, MidCallPC, FnPC,
               ReleasePC, local, disk, Published
<1>12. ASSUME NEW p \in Proc, Released(p)
       PROVE  \A q \in Proc \ {p} : pc'[q] = pc[q]
  BY <1>12 DEF Released, AttemptFailed, Goto
<1>13. ASSUME NEW p \in Proc, Release(p) PROVE TypeOK'
  <2>1. CASE HoldsPath(p)
    BY <1>0, <1>13, <2>1 DEF Release, Goto, At, PC, MidCallPC, ReleasePC, disk, Published
  <2>2. CASE ~HoldsPath(p)
    BY <1>0, <1>12, <1>13, <2>2, ReleasedTypes DEF Release, At, disk, Published
  <2> QED BY <2>1, <2>2
<1>14. ASSUME NEW p \in Proc, Prune(p) PROVE TypeOK'
  BY <1>0, <1>14 DEF Prune, Goto, At, PC, local, Published
<1>15. ASSUME NEW p \in Proc, RenameAway(p) PROVE TypeOK'
  <2>2. CASE lockAt = 0
    BY <1>0, <1>12, <1>15, <2>2, ReleasedTypes DEF RenameAway, Published, At
  <2>3. CASE lockAt # 0
    <3>1. pc' \in [Proc -> PC] /\ pc' = [pc EXCEPT ![p] = "settle"]
      BY <1>15, <2>3 DEF RenameAway, Goto, PC, MidCallPC, ReleasePC
    <3>2. PICK side \in Side : /\ side.file \in Published /\ sides' = sides \cup {side}
                               /\ mySide' = [mySide EXCEPT ![p] = side] /\ lockAt' = 0
      BY <1>15, <2>3, RenameKeepsFile DEF RenameAway
    <3> QED BY <1>0, <1>15, <2>3, <3>1, <3>2, NoSideIsNone DEF RenameAway, Published, At
  <2> QED BY <2>2, <2>3
<1>16. ASSUME NEW p \in Proc, Settle(p) PROVE TypeOK'
  <2>2. sides' \subseteq sides /\ lockAt' \in {0} \cup Published
    BY <1>16 DEF Settle, RemoveSide, Restore
  <2> QED BY <1>0, <1>12, <1>16, <2>2, ReleasedTypes DEF Settle, Published, At
<1>17. ASSUME NEW p \in Proc, Exit(p) PROVE TypeOK'
  BY <1>0, <1>17 DEF Exit, Goto, At, PC, disk, Published
<1>18. ASSUME Age PROVE TypeOK'
  BY <1>0, <1>18, LenProperties DEF Age, local, Published, At
<1>19. CASE UNCHANGED vars
  BY <1>19 DEF vars, state, local, disk, Published, At
<1> QED
  BY <1>1, <1>2, <1>3, <1>4, <1>5, <1>6, <1>7, <1>8, <1>9, <1>10, <1>11, <1>13, <1>14,
     <1>15, <1>16, <1>17, <1>18, <1>19
  DEF Next, Step, Acquire, Fn, ReleaseLock

LEMMA InitTypes == Init => TypeOK
<1> SUFFICES ASSUME Init PROVE TypeOK
  OBVIOUS
<1>1. owner \in Seq(Proc) /\ Len(owner) = 0
  BY EmptySeq DEF Init
<1>2. \A p \in Proc : \A s \in sides \cup listed[p] : s.file \in Published
  BY DEF Init
<1>3. /\ pc \in [Proc -> PC] /\ attempts \in [Proc -> 0 .. RetryCount]
      /\ \A p \in Proc : ~At(p, "settle")
  BY LockAssumption DEF Init, PC, At
<1>4. listed \in [Proc -> SUBSET Side] /\ mySide \in [Proc -> Side \cup {NoSide}]
  BY DEF Init
<1>5. /\ since \in [Proc -> {0} \cup Published] /\ snap \in [Proc -> {0} \cup Published]
      /\ after \in [Proc -> {"retry", "error", "prune"}]
  BY DEF Init
<1>6. lockAt = 0 /\ sides = {} /\ oldUpTo = 0 /\ current = {} /\ crowded = FALSE
  BY DEF Init
<1>7. crowded \in BOOLEAN
  BY <1>6
<1> QED BY LockAssumption, <1>1, <1>2, <1>3, <1>4, <1>5, <1>6, <1>7 DEF TypeOK

\* The variables keep their types, whoever steals, releases or dies.
THEOREM TypeCorrect == Spec => []TypeOK
BY InitTypes, TypeStep, PTL DEF Spec

-----------------------------------------------------------------------------
(* What a step of a process does to its own place in the call *)

\* Its lock is published and it is not yet past its write.
SectPC == {"verify", "postcheck", "postscan"} \cup FnPC

\* The stealers, whose snapshot was judged stale.
Judged == {"stealCheck", "stealScan", "stealSettle"}

Moved(p) ==
  /\ \A q \in Proc \ {p} : /\ pc'[q] = pc[q] /\ snap'[q] = snap[q] /\ since'[q] = since[q]
                           /\ mySide'[q] = mySide[q] /\ listed'[q] = listed[q]
  /\ pc[p] # "dead" /\ pc'[p] # "idle"
  /\ Start(p) \/ (since'[p] = since[p] /\ (MidCall(p)' => MidCall(p)))
  /\ pc'[p] \in HoldPC => pc[p] \in HoldPC \/ Link(p)
  /\ pc'[p] = "settle" => RenameAway(p)
  /\ pc'[p] \in SectPC => pc[p] \in SectPC \/ Link(p)
  /\ InFn(p)' => InFn(p) \/ ReadRecord(p)
  /\ pc'[p] = "postscan" => \/ listed'[p] = sides
                            \/ pc[p] = "postscan" /\ (Pass(p) \/ Unlink(p))
  /\ pc'[p] \in Judged =>
       snap'[p] = snap[p] /\ (pc[p] \in Judged \/ Stale(snap[p]))
  /\ UNCHANGED owner \/ Link(p)
  /\ UNCHANGED oldUpTo

LEMMA Moves ==
  ASSUME TypeOK, NEW p \in Proc, Start(p) \/ Step(p) \/ Exit(p)
  PROVE  Moved(p)
<1> USE DEF TypeOK
<1>1. ASSUME AttemptFailed(p) \/ Released(p)
      PROVE  /\ \A q \in Proc \ {p} : pc'[q] = pc[q]
             /\ pc'[p] \in {"precheck", "staleRead", "error", "prune"}
  BY <1>1 DEF AttemptFailed, Released, Goto
<1> USE DEF Moved, Goto, At, InFn, FnPC, MidCall, MidCallPC, AcquirePC, ScanPC, ReleasePC,
            HoldPC, SectPC, Judged
<1>2. CASE Start(p) \/ Exit(p)
  BY <1>2 DEF Start, Exit, disk
<1>3. CASE Scan(p)
  BY <1>3 DEF Scan, List, disk
<1>4. CASE Pass(p) \/ Linked(p)
  BY <1>4 DEF Pass, Linked, Ticked, disk
<1>5. CASE Unlink(p)
  BY <1>5 DEF Unlink
<1>6. CASE Blocked(p) \/ LinkExists(p)
  BY <1>1, <1>6 DEF Blocked, LinkExists, disk
<1>7. CASE Link(p) \/ Verify(p)
  BY <1>7 DEF Link, Verify, local, disk
<1>8. CASE StaleRead(p)
  BY <1>8 DEF StaleRead, disk
<1>9. CASE StaleCheck(p)
  BY <1>9 DEF StaleCheck, local, disk
<1>10. CASE StealNothing(p)
  BY <1>10 DEF StealNothing, TryAgain, disk
<1>11. CASE StealRename(p)
  BY <1>11 DEF StealRename, RenameToSide
<1>12. CASE StealSettle(p)
  BY <1>12 DEF StealSettle, TryAgain
<1>13. CASE ReadRecord(p) \/ SkipWrite(p) \/ Revalidate(p) \/ Commit(p)
  BY <1>13 DEF ReadRecord, SkipWrite, Revalidate, Commit, local, disk
<1>14. CASE Release(p) \/ UnlinkSides(p)
  BY <1>1, <1>14 DEF Release, UnlinkSides, List, disk
<1>15. CASE RenameAway(p)
  BY <1>1, <1>15 DEF RenameAway, RenameToSide
<1>16. CASE Settle(p) \/ Prune(p)
  BY <1>1, <1>16 DEF Settle, Prune, local
<1> QED BY <1>2, <1>3, <1>4, <1>5, <1>6, <1>7, <1>8, <1>9, <1>10, <1>11, <1>12, <1>13, <1>14,
           <1>15, <1>16 DEF Step, Acquire, Fn, ReleaseLock

\* The side file in its hand: one it has renamed, or one to be unlinked.
InHand(p) ==
  mySide[p] # NoSide =>
    \/ pc[p] \in ScanPC /\ mySide[p].kind = "releasing"
    \/ pc[p] \in {"unlinkScan", "stealSettle", "settle"}

LEMMA HandMoves ==
  ASSUME TypeOK, NEW p \in Proc, Start(p) \/ Step(p) \/ Exit(p), InHand(p)
  PROVE  /\ InHand(p)'
         /\ pc'[p] = "unlinkScan" => mySide'[p] = NoSide \/ Linked(p)
<1> USE DEF TypeOK
<1>1. ASSUME AttemptFailed(p) \/ Released(p)
      PROVE  pc'[p] \in {"precheck", "staleRead", "error", "prune"}
  BY <1>1 DEF AttemptFailed, Released, Goto
<1> USE DEF InHand, Goto, At, ScanPC
<1>2. CASE UNCHANGED mySide /\ pc[p] \notin ScanPC \cup {"unlinkScan", "stealSettle", "settle"}
  BY <1>2
<1>3. CASE UNCHANGED mySide /\ mySide[p] = NoSide
  BY <1>3
<1>4. CASE Start(p) \/ Scan(p) \/ Link(p) \/ LinkExists(p) \/ Verify(p) \/ StaleRead(p) \/ StaleCheck(p)
           \/ StealNothing(p) \/ Blocked(p)
  BY <1>2, <1>3, <1>4 DEF Start, Scan, Link, LinkExists, Verify, StaleRead, StaleCheck, StealNothing,
                          Blocked, Scanned, local
<1>5. CASE Fn(p) \/ Release(p) \/ UnlinkSides(p) \/ Prune(p)
  BY <1>2, <1>3, <1>5 DEF Fn, ReadRecord, SkipWrite, Revalidate, Commit, Scanned, Release, UnlinkSides,
                          Prune, local
<1>6. CASE Pass(p)
  <2>1. PICK s \in listed[p] :
          mySide' = [mySide EXCEPT ![p] =
                       IF s.kind = "releasing" /\ s.file # lockAt THEN s ELSE NoSide]
    BY <1>6 DEF Pass
  <2>2. UNCHANGED pc /\ pc[p] \in ScanPC
    BY <1>6 DEF Pass
  <2> QED BY <2>1, <2>2
<1>7. CASE Linked(p)
  BY <1>7 DEF Linked
<1>8. CASE Unlink(p) \/ StealSettle(p) \/ Settle(p) \/ Exit(p)
  BY <1>8 DEF Unlink, StealSettle, Settle, Exit
<1>9. CASE StealRename(p)
  BY <1>9 DEF StealRename
<1>10. CASE RenameAway(p)
  BY <1>1, <1>10 DEF RenameAway, Scanned
<1> QED BY <1>4, <1>5, <1>6, <1>7, <1>8, <1>9, <1>10 DEF Step, Acquire, ReleaseLock

\* Next is such a step, or time passes.
LEMMA NextMoves ==
  ASSUME TypeOK, [Next]_vars
  PROVE  \/ \E p \in Proc : (Start(p) \/ Step(p) \/ Exit(p)) /\ Moved(p)
         \/ (Age \/ UNCHANGED vars) /\ UNCHANGED <<pc, local, lockAt, sides, owner, current>>
BY Moves DEF Next, Age, vars, state, disk

\* Locks keep their owners, and the next one is the one a link publishes.
LEMMA OwnersStay ==
  ASSUME TypeOK, [Next]_vars
  PROVE  /\ Published \subseteq Published' /\ Published \subseteq Nat \ {0}
         /\ \A n \in Published : owner'[n] = owner[n] /\ owner[n] \in Proc /\ n <= Len(owner)
         /\ \A n \in Published' \ Published :
              /\ n = Len(owner) + 1 /\ owner'[n] \in Proc
              /\ Link(owner'[n])
         /\ oldUpTo \in Nat /\ oldUpTo' \in Nat /\ oldUpTo <= oldUpTo'
<1> USE DEF TypeOK
<1>1. \A n \in Published : n \in Nat \ {0} /\ owner[n] \in Proc /\ n <= Len(owner)
  BY ElementOfSeq, LenProperties DEF Published
<1>2. ASSUME NEW p \in Proc, Link(p) PROVE
         /\ Published \subseteq Published'
         /\ \A n \in Published : owner'[n] = owner[n]
         /\ \A n \in Published' \ Published :
              /\ n = Len(owner) + 1 /\ owner'[n] \in Proc
              /\ Link(owner'[n])
  <2>1. owner' = Append(owner, p) /\ Len(owner) \in Nat
    BY <1>2, LenProperties DEF Link
  <2>2. /\ Len(owner') = Len(owner) + 1
        /\ \A n \in 1 .. Len(owner) : owner'[n] = owner[n]
        /\ owner'[Len(owner) + 1] = p
    BY <2>1, AppendProperties
  <2> QED BY <1>2, <2>1, <2>2 DEF Published
<1>3. UNCHANGED owner => Published' = Published
  BY DEF Published
<1>4. UNCHANGED owner \/ \E p \in Proc : Link(p)
  BY NextMoves DEF Moved
<1>5. oldUpTo \in Nat /\ oldUpTo' \in Nat /\ oldUpTo <= oldUpTo'
  <2>1. oldUpTo \in Nat
    BY <1>1
  <2>2. oldUpTo' = oldUpTo \/ oldUpTo' = oldUpTo + 1
    BY NextMoves DEF Moved, Age, vars, state, disk
  <2> QED BY <2>1, <2>2
<1> QED BY <1>1, <1>2, <1>3, <1>4, <1>5

-----------------------------------------------------------------------------
(* StealsOnlyStale *)

\* The stealers judged the file of their snapshot stale.  It stays so, for a
\* file grows no younger and a process that died does not come back.
SnapStale == \A p \in Proc : pc[p] \in Judged => Stale(snap[p])

\* What is stale stays stale.
LEMMA StaleForever ==
  ASSUME TypeOK, [Next]_vars, NEW n \in {0} \cup Published, Stale(n)
  PROVE  Stale(n)'
<1>1. \A q \in Proc : ~Alive(q) => ~Alive(q)'
  BY NextMoves DEF Moved, Alive, TypeOK
<1> QED BY <1>1, OwnersStay DEF Stale, Old

LEMMA SnapStaleStep == TypeOK /\ SnapStale /\ [Next]_vars => SnapStale'
<1> SUFFICES ASSUME TypeOK, SnapStale, [Next]_vars, NEW q \in Proc, pc'[q] \in Judged
             PROVE  Stale(snap[q])'
  BY DEF SnapStale
<1>1. snap'[q] = snap[q] /\ Stale(snap[q])
  BY NextMoves DEF SnapStale, Moved, local
<1> QED BY <1>1, StaleForever DEF TypeOK

\* Only the settling of a steal leaves stealSettle with a file unlinked, and
\* the file it unlinks is the one of the snapshot.
LEMMA StealStep ==
  ASSUME TypeOK, SnapStale, NEW n \in Published, OnDisk(n), ~OnDisk(n)',
         NEW p \in Proc, At(p, "stealSettle"), ~At(p, "stealSettle")', [Next]_vars
  PROVE  Stale(n)
<1> USE DEF TypeOK
<1>1. StealSettle(p)
  <2>1. UNCHANGED <<lockAt, sides>> => FALSE
    BY DEF OnDisk
  <2>2. PICK q \in Proc : (Start(q) \/ Step(q) \/ Exit(q)) /\ Moved(q)
    BY <2>1, NextMoves
  <2>3. q = p
    BY <2>2 DEF Moved, At
  <2> QED
    BY <2>1, <2>2, <2>3
    DEF At, ScanPC, Start, Exit, disk, Step, Acquire, Fn, ReleaseLock, Scan, Pass, Blocked,
        LinkExists, Link, Verify, StaleRead, StaleCheck, StealNothing, StealRename, Unlink,
        ReadRecord, SkipWrite, Revalidate, Commit, Release, UnlinkSides, Linked, RenameAway,
        Settle, Prune
<1>2. Stale(snap[p])
  BY DEF SnapStale, Judged, At
<1>3. CASE mySide[p] \in sides /\ mySide[p].file = snap[p]
  <2>1. UNCHANGED lockAt /\ sides' = sides \ {mySide[p]}
    BY <1>1, <1>3 DEF StealSettle, RemoveSide
  <2>2. n = snap[p]
    BY <1>3, <2>1 DEF OnDisk
  <2> QED BY <1>2, <2>2
<1>4. CASE ~(mySide[p] \in sides /\ mySide[p].file = snap[p])
  <2>1. UNCHANGED sides /\ (lockAt' = lockAt \/ lockAt = 0)
    BY <1>1, <1>4 DEF StealSettle, Restore
  <2>2. n # 0
    BY OwnersStay
  <2> QED BY <2>1, <2>2 DEF OnDisk
<1> QED BY <1>3, <1>4

\* stealStaleJobLock never unlinks a lock published since it read the one it
\* found stale, however many others steal, release and publish meanwhile.
THEOREM StealsAreOfStaleLocks == Spec => StealsOnlyStale
<1>1. Init => SnapStale
  BY DEF Init, SnapStale, Judged
<1>2. TypeOK /\ SnapStale /\ [Next]_vars
        => [\A n \in Published :
              OnDisk(n) /\ ~OnDisk(n)' /\ (\E p \in Proc : At(p, "stealSettle") /\ ~At(p, "stealSettle")')
                => Stale(n)]_vars
  BY StealStep
<1> QED BY <1>1, <1>2, TypeCorrect, SnapStaleStep, PTL DEF Spec, StealsOnlyStale

-----------------------------------------------------------------------------
(* The invariant of the lock *)

\* With Prompt, the files of the calls that run are recent: a process publishes
\* only after its call started, and Age waits for the calls that started earlier.
FilesSinceStart ==
  \A n \in Published :
    ~At(owner[n], "idle") /\ (MidCall(owner[n]) => since[owner[n]] < n)
StartedRecently == \A p \in Proc : MidCall(p) => oldUpTo <= since[p]

\* Who holds a lock has published one, and the last is the one it holds.
HasLock ==
  \A p \in Proc : pc[p] \in HoldPC \cup {"settle"} =>
    \E n \in Published : owner[n] = p /\ \A m \in Published : owner[m] = p => m <= n

AllInHand == \A p \in Proc : InHand(p)
Noted == Crowd => crowded

\* A stealer's side file of lock n.
IsAside(s, n) == s.kind = "stealing" /\ s.file = n

\* A lock that has gone astray is in a stealer's side file until its owner has
\* written.
AstrayIsAside ==
  \A n \in Published : Astray(n) /\ pc[owner[n]] \in SectPC => \E s \in sides : IsAside(s, n)

\* And whoever has published another meanwhile has that side file before it,
\* or is yet to list it.
OtherWillSee ==
  \A n, m \in Published :
    Astray(n) /\ pc[owner[n]] \in SectPC /\ Held(m) /\ lockAt = m =>
      /\ ~InFn(owner[m])
      /\ At(owner[m], "postscan") => \E s \in sides \cap listed[owner[m]] : IsAside(s, n)

\* A releaser is about to unlink a side file of another's lock only when its
\* own is astray.
UnlinksAnothers ==
  \A r \in Proc : \A f, n \in Published :
    (/\ At(r, "unlinkScan") /\ mySide[r] # NoSide /\ mySide[r].file = f
     /\ Held(f) /\ owner[f] # r
     /\ Held(n) /\ owner[n] = r) => lockAt # n

LockInv ==
  /\ TypeOK /\ SnapStale
  /\ FilesSinceStart /\ StartedRecently
  /\ HasLock /\ AllInHand /\ Noted
  /\ ~crowded => AstrayIsAside /\ OtherWillSee /\ UnlinksAnothers

-----------------------------------------------------------------------------
(* Its parts, one by one *)

LEMMA RecencyStep ==
  ASSUME Prompt, TypeOK, FilesSinceStart, StartedRecently, [Next]_vars
  PROVE  FilesSinceStart' /\ StartedRecently'
<1>1. \A p \in Proc : since[p] \in Nat /\ since[p] <= Len(owner) /\ Len(owner) \in Nat
  BY LenProperties DEF TypeOK, Published
<1>2. oldUpTo <= Len(owner)
  BY LenProperties DEF TypeOK, Published
<1>3. FilesSinceStart'
  <2> SUFFICES ASSUME NEW n \in Published'
               PROVE  ~At(owner[n], "idle")' /\ (MidCall(owner[n]) => since[owner[n]] < n)'
    BY DEF FilesSinceStart
  <2> DEFINE q == owner'[n]
  <2>1. CASE n \in Published
    <3>1. q = owner[n] /\ q \in Proc
      BY <2>1, OwnersStay
    <3>2. pc[q] # "idle" /\ (MidCall(q) => since[q] < n)
      BY <2>1, <3>1 DEF FilesSinceStart, At
    <3> QED BY <3>1, <3>2, NextMoves DEF Moved, Start, At, MidCall, local
  <2>2. CASE n \notin Published
    <3>1. n = Len(owner) + 1 /\ q \in Proc /\ Link(q)
      BY <2>2, OwnersStay
    <3>2. pc'[q] # "idle" /\ since'[q] = since[q]
      BY <3>1 DEF Link, Goto, TypeOK, local
    <3> QED BY <1>1, <3>1, <3>2 DEF At
  <2> QED BY <2>1, <2>2
<1>4. StartedRecently'
  <2> SUFFICES ASSUME NEW q \in Proc, MidCall(q)' PROVE oldUpTo' <= since'[q]
    BY DEF StartedRecently
  <2>1. ASSUME NEW p \in Proc, Moved(p) PROVE oldUpTo' <= since'[q]
    <3>1. CASE q = p /\ Start(p)
      BY <1>1, <1>2, <2>1, <3>1 DEF Moved, Start, TypeOK
    <3>2. CASE ~(q = p /\ Start(p))
      BY <2>1, <3>2 DEF Moved, StartedRecently, MidCall
    <3> QED BY <3>1, <3>2
  <2>2. CASE Age
    <3>1. MidCall(q) /\ since[q] > oldUpTo /\ since'[q] = since[q] /\ oldUpTo' = oldUpTo + 1
      BY <2>2 DEF Age, local, MidCall
    <3> QED BY <1>1, <3>1, OwnersStay
  <2>3. CASE UNCHANGED vars
    BY <2>3 DEF StartedRecently, vars, state, local, disk, MidCall
  <2> QED BY <2>1, <2>2, <2>3, NextMoves
<1> QED BY <1>3, <1>4

\* Whoever holds a lock is alive and has published it less than a minute ago.
LEMMA HeldIsRecent ==
  ASSUME TypeOK, FilesSinceStart, StartedRecently, NEW n \in Published, Held(n)
  PROVE  ~Stale(n) /\ ~Old(n)
<1>1. owner[n] \in Proc /\ n \in Nat \ {0}
  BY ElementOfSeq, LenProperties DEF Published, TypeOK
<1>2. MidCall(owner[n])
  BY DEF Held, HoldPC, At, MidCall, MidCallPC, AcquirePC, ScanPC, FnPC, ReleasePC
<1>3. oldUpTo <= since[owner[n]] /\ since[owner[n]] < n
  BY <1>1, <1>2 DEF FilesSinceStart, StartedRecently
<1>4. oldUpTo \in Nat /\ since[owner[n]] \in Nat
  BY <1>1, LenProperties DEF TypeOK, Published
<1>5. ~Old(n)
  BY <1>1, <1>3, <1>4 DEF Old
<1> QED BY <1>1, <1>2, <1>5 DEF Stale, Alive, MidCall, MidCallPC, AcquirePC, ScanPC, FnPC, ReleasePC

\* Nobody holds two.
LEMMA OneHeld ==
  ASSUME TypeOK, NEW n \in Published, NEW m \in Published, Held(n), Held(m), owner[n] = owner[m]
  PROVE  n = m
<1>1. n \in Nat /\ m \in Nat
  BY LenProperties DEF Published, TypeOK
<1> QED BY <1>1 DEF Held

\* A lock that is held was held before, or has just been published.
LEMMA HeldStep ==
  ASSUME TypeOK, [Next]_vars, NEW n \in Published, Held(n)'
  PROVE  Held(n) /\ (pc'[owner[n]] \in SectPC => pc[owner[n]] \in SectPC)
<1> DEFINE q == owner[n]
<1>1. q \in Proc /\ owner'[n] = q /\ n \in Nat /\ Published \subseteq Published'
  BY OwnersStay
<1>2. \A m \in Published : owner[m] = q => m <= n
  BY <1>1, OwnersStay DEF Held
<1>3. ~Link(q)
  <2> SUFFICES ASSUME Link(q) PROVE FALSE
    OBVIOUS
  <2>1. /\ owner' = Append(owner, q) /\ Len(owner) \in Nat /\ n <= Len(owner)
        /\ owner \in Seq(Proc)
    BY OwnersStay, LenProperties DEF Link, TypeOK
  <2>2. Len(owner) + 1 \in Published' /\ owner'[Len(owner) + 1] = q
    BY <1>1, <2>1, AppendProperties DEF Published
  <2>3. Len(owner) + 1 <= n
    BY <1>1, <2>2 DEF Held
  <2> QED BY <1>1, <2>1, <2>3
<1>4. pc'[q] \in HoldPC \/ (pc'[q] = "settle" /\ mySide'[q].file # n)
  BY <1>1 DEF Held, At
<1>5. CASE \E p \in Proc : Moved(p)
  BY <1>1, <1>2, <1>3, <1>4, <1>5 DEF Moved, Held, At, RenameAway, HoldPC
<1>6. CASE UNCHANGED <<pc, mySide>>
  BY <1>1, <1>2, <1>4, <1>6 DEF Held, At
<1> QED BY <1>5, <1>6, NextMoves DEF local

LEMMA HasLockStep == TypeOK /\ HasLock /\ [Next]_vars => HasLock'
<1> SUFFICES ASSUME TypeOK, HasLock, [Next]_vars,
                    NEW q \in Proc, pc'[q] \in HoldPC \cup {"settle"}
             PROVE  \E n \in Published' :
                      owner'[n] = q /\ \A m \in Published' : owner'[m] = q => m <= n
  BY DEF HasLock
<1>1. CASE Link(q)
  <2>1. owner' = Append(owner, q) /\ Len(owner) \in Nat /\ owner \in Seq(Proc)
    BY <1>1, LenProperties DEF Link, TypeOK
  <2>2. Published' = 1 .. Len(owner) + 1 /\ owner'[Len(owner) + 1] = q
    BY <2>1, AppendProperties DEF Published
  <2> QED BY <2>1, <2>2
<1>2. CASE ~Link(q)
  <2>1. pc[q] \in HoldPC \cup {"settle"}
    BY <1>2, NextMoves DEF Moved, RenameAway, At, HoldPC
  <2>2. PICK n \in Published : owner[n] = q /\ \A m \in Published : owner[m] = q => m <= n
    BY <2>1 DEF HasLock
  <2>3. \A m \in Published' \ Published : owner'[m] # q
    BY <1>2, OwnersStay
  <2> QED BY <2>2, <2>3, OwnersStay
<1> QED BY <1>1, <1>2

LEMMA InHandStep == TypeOK /\ AllInHand /\ [Next]_vars => AllInHand'
<1> SUFFICES ASSUME TypeOK, AllInHand, [Next]_vars, NEW q \in Proc PROVE InHand(q)'
  BY DEF AllInHand
<1>1. InHand(q)
  BY DEF AllInHand
<1>2. CASE pc'[q] = pc[q] /\ mySide'[q] = mySide[q]
  BY <1>1, <1>2 DEF InHand
<1> QED BY <1>1, <1>2, HandMoves, NextMoves DEF Moved, local

LEMMA NotedStep == Noted /\ [Next]_vars => Noted' /\ (crowded => crowded')
<1>1. CASE Next
  BY <1>1 DEF Next, Noted
<1>2. CASE UNCHANGED vars
  BY <1>2 DEF Noted, Crowd, Astray, Held, At, Published, vars, state, local, disk
<1> QED BY <1>1, <1>2

-----------------------------------------------------------------------------
(* Where locks and side files go *)

\* A lock comes back to the lock path only when it is free.
LEMMA ComesToFreePath ==
  ASSUME TypeOK, [Next]_vars, NEW n \in Published, lockAt' = n, lockAt # n
  PROVE  lockAt = 0
<1>1. n # 0 /\ n <= Len(owner) /\ n \in Nat /\ Len(owner) \in Nat
  BY OwnersStay, LenProperties DEF TypeOK
<1>2. ASSUME NEW p \in Proc, Start(p) \/ Step(p) \/ Exit(p), lockAt # 0 PROVE FALSE
  BY <1>1, <1>2
  DEF Start, Exit, disk, Step, Acquire, Fn, ReleaseLock, Scan, Pass, Blocked, LinkExists, Link,
      Verify, StaleRead, StaleCheck, StealNothing, StealRename, StealSettle, Unlink, ReadRecord,
      SkipWrite, Revalidate, Commit, Release, UnlinkSides, Linked, RenameAway, Settle, Prune,
      RenameToSide, RemoveSide, Restore
<1> QED BY <1>2, NextMoves

\* It leaves into a stealer's side file or a releaser's.
LEMMA LeavesToSide ==
  ASSUME TypeOK, [Next]_vars, NEW n \in Published, lockAt = n, lockAt' # n
  PROVE  \/ \E s \in sides' : IsAside(s, n)
         \/ \E p \in Proc : RenameAway(p) /\ pc'[p] = "settle" /\ mySide'[p].file = n
<1>1. n # 0
  BY OwnersStay
<1>2. PICK p \in Proc : Start(p) \/ Step(p) \/ Exit(p)
  BY NextMoves
<1>3. StealRename(p) \/ RenameAway(p)
  BY <1>1, <1>2
  DEF Start, Exit, disk, Step, Acquire, Fn, ReleaseLock, Scan, Pass, Blocked, LinkExists, Link,
      Verify, StaleRead, StaleCheck, StealNothing, StealSettle, Unlink, ReadRecord,
      SkipWrite, Revalidate, Commit, Release, UnlinkSides, Linked, Settle, Prune,
      RemoveSide, Restore
<1>4. CASE StealRename(p)
  BY <1>1, <1>4, RenameKeepsFile DEF StealRename, IsAside
<1>5. CASE RenameAway(p)
  BY <1>1, <1>5, RenameKeepsFile DEF RenameAway, Goto, TypeOK
<1> QED BY <1>3, <1>4, <1>5

\* The side file of a stealer stays as long as it keeps a live lock, unless a
\* second lock is astray.
LEMMA AsideStays ==
  ASSUME LockInv, ~crowded, [Next]_vars, NEW n \in Published,
         Astray(n), pc[owner[n]] \in SectPC, NEW s \in sides, IsAside(s, n)
  PROVE  s \in sides'
<1> SUFFICES ASSUME s \notin sides' PROVE FALSE
  OBVIOUS
<1>1. TypeOK /\ Held(n) /\ ~Stale(n) /\ ~Old(n) /\ owner[n] \in Proc
  BY HeldIsRecent, OwnersStay DEF LockInv, Astray
<1>2. PICK p \in Proc : Start(p) \/ Step(p) \/ Exit(p)
  BY <1>1, NextMoves
<1>3. Unlink(p) \/ StealSettle(p) \/ Settle(p)
  <2>1. ASSUME NEW k \in {"stealing", "releasing"}, RenameToSide(p, k) PROVE FALSE
    BY <2>1 DEF RenameToSide
  <2> QED
    BY <1>1, <1>2, <2>1
    DEF Start, Exit, disk, Step, Acquire, Fn, ReleaseLock, Scan, Pass, Blocked, LinkExists, Link,
        Verify, StaleRead, StaleCheck, StealNothing, StealRename, ReadRecord,
        SkipWrite, Revalidate, Commit, Release, UnlinkSides, Linked, RenameAway, Prune, IsAside
<1>4. s = mySide[p] /\ mySide[p] # NoSide
  BY <1>1, <1>3, NoSideIsNone DEF Unlink, StealSettle, Settle, RemoveSide, Restore, TypeOK
<1>5. CASE Unlink(p)
  <2>1. At(p, "unlinkScan")
    BY <1>4, <1>5 DEF Unlink, At, LockInv, AllInHand, InHand, IsAside, ScanPC
  <2>2. owner[n] # p
    BY <2>1 DEF At, SectPC, FnPC
  <2>3. PICK m \in Published : owner[m] = p /\ Held(m)
    BY <2>1 DEF LockInv, HasLock, Held, HoldPC, At
  <2>4. lockAt # m
    BY <1>1, <1>4, <2>1, <2>2, <2>3 DEF LockInv, UnlinksAnothers, IsAside
  <2> QED BY <2>2, <2>3, <2>4 DEF LockInv, Noted, Crowd, Astray
<1>6. CASE StealSettle(p)
  <2>1. mySide[p].file = snap[p] /\ At(p, "stealSettle")
    BY <1>6 DEF StealSettle, Restore
  <2> QED BY <1>1, <1>4, <2>1 DEF LockInv, SnapStale, Judged, At, IsAside
<1>7. CASE Settle(p)
  BY <1>4, <1>7 DEF Settle, Restore, IsAside, At, SectPC, FnPC
<1> QED BY <1>3, <1>5, <1>6, <1>7

-----------------------------------------------------------------------------
(* Until two locks are astray *)

LEMMA AstrayIsAsideStep ==
  ASSUME LockInv, ~crowded', [Next]_vars
  PROVE  AstrayIsAside'
<1> SUFFICES ASSUME NEW n \in Published', Astray(n)', pc'[owner'[n]] \in SectPC
             PROVE  \E s \in sides' : IsAside(s, n)
  BY DEF AstrayIsAside, IsAside
<1>1. TypeOK /\ TypeOK' /\ ~crowded /\ Noted'
  BY NotedStep, TypeStep DEF LockInv
<1>2. n \in Published
  BY <1>1, OwnersStay DEF Astray, Link
<1>3. Held(n) /\ pc[owner[n]] \in SectPC /\ owner'[n] = owner[n] /\ owner[n] \in Proc
  BY <1>1, <1>2, HeldStep, OwnersStay DEF Astray
<1>4. CASE lockAt # n
  <2>1. PICK s \in sides : IsAside(s, n)
    BY <1>1, <1>2, <1>3, <1>4 DEF LockInv, AstrayIsAside, Astray
  <2> QED BY <1>1, <1>2, <1>3, <1>4, <2>1, AsideStays DEF Astray
<1>5. CASE lockAt = n
  <2> SUFFICES ASSUME NEW p \in Proc, RenameAway(p), pc'[p] = "settle", mySide'[p].file = n
               PROVE  FALSE
    BY <1>1, <1>2, <1>5, LeavesToSide DEF Astray
  <2>1. p # owner[n] /\ At(p, "unlinkScan")
    BY <1>3 DEF RenameAway, At, SectPC, FnPC
  <2>2. PICK m \in Published : owner[m] = p /\ \A k \in Published : owner[k] = p => k <= m
    BY <2>1 DEF LockInv, HasLock, HoldPC, At
  <2>3. UNCHANGED owner
    BY DEF RenameAway
  <2>4. m \in Published' /\ Held(m)'
    BY <1>3, <2>1, <2>2, <2>3 DEF Held, At, Published
  <2>5. lockAt' # m
    <3>1. lockAt' = 0
      BY <1>1, <1>2, <1>5, RenameKeepsFile, OwnersStay DEF RenameAway, Astray, TypeOK, Goto
    <3> QED BY <1>1, <3>1, OwnersStay
  <2> QED BY <1>1, <1>3, <2>1, <2>2, <2>4, <2>5 DEF Noted, Crowd, Astray
<1> QED BY <1>4, <1>5

LEMMA OtherWillSeeStep ==
  ASSUME LockInv, ~crowded', [Next]_vars
  PROVE  OtherWillSee'
<1> SUFFICES ASSUME NEW n \in Published', NEW m \in Published',
                    Astray(n)', pc'[owner'[n]] \in SectPC, Held(m)', lockAt' = m
             PROVE  /\ ~InFn(owner[m])'
                    /\ At(owner[m], "postscan")'
                         => \E s \in sides' \cap listed'[owner'[m]] : IsAside(s, n)
  BY DEF OtherWillSee, IsAside
<1>1. TypeOK /\ TypeOK' /\ ~crowded
  BY NotedStep, TypeStep DEF LockInv
<1>2. n \in Published /\ n # m
  BY <1>1, OwnersStay DEF Astray, Link
<1>3. Held(n) /\ pc[owner[n]] \in SectPC /\ ~Old(n)
  BY <1>1, <1>2, HeldStep, HeldIsRecent, OwnersStay DEF Astray, LockInv
<1>4. CASE m \notin Published
  <2>1. Link(owner'[m]) /\ owner'[m] \in Proc
    BY <1>1, <1>4, OwnersStay
  <2> QED BY <1>1, <2>1 DEF Link, Goto, TypeOK, At, InFn, FnPC
<1>5. CASE m \in Published
  <2> DEFINE q == owner[m]
  <2>1. Held(m) /\ q \in Proc /\ owner'[m] = q
    BY <1>1, <1>5, HeldStep, OwnersStay
  <2>2. lockAt = m
    <3> SUFFICES ASSUME lockAt # m PROVE FALSE
      OBVIOUS
    <3>1. lockAt = 0
      BY <1>1, <1>5, ComesToFreePath
    <3>2. n # 0
      BY <1>1, <1>2, OwnersStay
    <3> QED BY <1>1, <1>2, <1>3, <1>5, <2>1, <3>1, <3>2 DEF LockInv, Noted, Crowd, Astray
  <2>3. Astray(n)
    BY <1>2, <1>3, <2>2 DEF Astray
  <2>4. /\ ~InFn(q)
        /\ At(q, "postscan") => \E s \in sides \cap listed[q] : IsAside(s, n)
    BY <1>1, <1>2, <1>3, <1>5, <2>1, <2>2, <2>3 DEF LockInv, OtherWillSee
  <2>5. \A s \in sides : IsAside(s, n) => s \in sides'
    BY <1>1, <1>2, <1>3, <2>3, AsideStays
  <2>6. CASE pc'[q] = pc[q] /\ listed'[q] = listed[q]
    BY <2>1, <2>4, <2>5, <2>6 DEF InFn, At
  <2>7. CASE Start(q) \/ Step(q) \/ Exit(q)
    <3>1. Moved(q)
      BY <1>1, <2>1, <2>7, Moves
    <3>2. ~InFn(q)'
      BY <2>4, <3>1 DEF Moved, ReadRecord, Scanned, At
    <3>3. ASSUME pc'[q] = "postscan" PROVE \E s \in sides' \cap listed'[q] : IsAside(s, n)
      <4>1. CASE listed'[q] = sides
        <5>1. \E s \in sides : IsAside(s, n)
          BY <1>2, <1>3, <1>1, <2>3 DEF LockInv, AstrayIsAside
        <5> QED BY <2>5, <4>1, <5>1
      <4>2. CASE pc[q] = "postscan" /\ Unlink(q)
        BY <2>4, <2>5, <4>2 DEF Unlink, At
      <4>3. CASE pc[q] = "postscan" /\ Pass(q)
        <5>1. PICK s \in sides \cap listed[q] : IsAside(s, n)
          BY <2>4, <4>3 DEF At
        <5>2. Blocks(s)
          BY <1>2, <1>3, <2>2, <5>1 DEF Blocks, IsAside
        <5>3. s \in listed'[q]
          BY <1>1, <2>1, <4>3, <5>1, <5>2 DEF Pass, Ticked, TypeOK
        <5> QED BY <2>5, <5>1, <5>3
      <4> QED BY <3>1, <3>3, <4>1, <4>2, <4>3 DEF Moved
    <3> QED BY <2>1, <3>2, <3>3 DEF At
  <2>8. \/ Start(q) \/ Step(q) \/ Exit(q)
        \/ pc'[q] = pc[q] /\ listed'[q] = listed[q]
    BY <1>1, <2>1, NextMoves DEF Moved, local
  <2> QED BY <2>6, <2>7, <2>8
<1> QED BY <1>4, <1>5

LEMMA UnlinksAnothersStep ==
  ASSUME LockInv, ~crowded', [Next]_vars
  PROVE  UnlinksAnothers'
<1> SUFFICES ASSUME NEW r \in Proc, NEW f \in Published', NEW n \in Published',
                    At(r, "unlinkScan")', mySide'[r] # NoSide, mySide'[r].file = f,
                    Held(f)', owner'[f] # r, Held(n)', owner'[n] = r
             PROVE  lockAt' # n
  BY DEF UnlinksAnothers
<1> SUFFICES ASSUME lockAt' = n PROVE FALSE
  OBVIOUS
<1>1. TypeOK /\ TypeOK' /\ ~crowded /\ InHand(r)
  BY NotedStep, TypeStep DEF LockInv, AllInHand
<1>2. n \in Published
  <2>1. ~Link(r)
    BY <1>1 DEF Link, Goto, At, TypeOK
  <2> QED BY <1>1, <2>1, OwnersStay
<1>3. Held(n) /\ owner[n] = r
  BY <1>1, <1>2, HeldStep, OwnersStay
<1>4. f \in Published
  BY <1>1, <1>2, OwnersStay DEF Link
<1>5. Held(f) /\ owner[f] # r /\ f # n
  BY <1>1, <1>3, <1>4, HeldStep, OwnersStay
<1>6. CASE Linked(r)
  BY <1>1, <1>5, <1>6 DEF Linked, disk, TypeOK
<1>7. CASE pc'[r] = pc[r] /\ mySide'[r] = mySide[r]
  <2>1. lockAt # n
    BY <1>1, <1>2, <1>3, <1>4, <1>5, <1>7 DEF LockInv, UnlinksAnothers, At
  <2>2. lockAt = 0
    BY <1>1, <1>2, <2>1, ComesToFreePath
  <2>3. f # 0
    BY <1>1, <1>4, OwnersStay
  <2> QED BY <1>1, <1>2, <1>3, <1>4, <1>5, <2>1, <2>2, <2>3 DEF LockInv, Noted, Crowd, Astray
<1>8. Linked(r) \/ (pc'[r] = pc[r] /\ mySide'[r] = mySide[r])
  BY <1>1, HandMoves, NextMoves DEF Moved, local, At
<1> QED BY <1>6, <1>7, <1>8

LEMMA LockInvStep == Prompt /\ LockInv /\ [Next]_vars => LockInv'
<1> SUFFICES ASSUME Prompt, LockInv, [Next]_vars PROVE LockInv'
  OBVIOUS
<1>1. TypeOK' /\ SnapStale' /\ FilesSinceStart' /\ StartedRecently'
  BY TypeStep, SnapStaleStep, RecencyStep DEF LockInv
<1>2. HasLock' /\ AllInHand' /\ Noted'
  BY HasLockStep, InHandStep, NotedStep DEF LockInv
<1>3. ~crowded' => AstrayIsAside' /\ OtherWillSee' /\ UnlinksAnothers'
  BY AstrayIsAsideStep, OtherWillSeeStep, UnlinksAnothersStep
<1> QED BY <1>1, <1>2, <1>3 DEF LockInv

LEMMA LockInvInit == Init => LockInv
<1> SUFFICES ASSUME Init PROVE LockInv
  OBVIOUS
<1>1. Published = {}
  BY EmptySeq DEF Init, Published
<1>2. \A p \in Proc : pc[p] = "idle" /\ mySide[p] = NoSide
  BY DEF Init
<1>3. SnapStale /\ HasLock /\ AllInHand /\ StartedRecently
  BY <1>2 DEF SnapStale, Judged, HasLock, HoldPC, FnPC, AllInHand, InHand, StartedRecently,
              MidCall, MidCallPC, AcquirePC, ScanPC, ReleasePC
<1>4. FilesSinceStart /\ Noted /\ AstrayIsAside /\ OtherWillSee /\ UnlinksAnothers
  BY <1>1 DEF FilesSinceStart, Noted, Crowd, AstrayIsAside, OtherWillSee, UnlinksAnothers
<1> QED BY <1>3, <1>4, InitTypes DEF LockInv

-----------------------------------------------------------------------------
(* What the lock achieves *)

\* Two in their sections hold two locks; one of them is astray, the other at the
\* lock path, and its owner would have seen it.
LEMMA InvExcludes == LockInv => SectionsExclude
<1> SUFFICES ASSUME LockInv, ~crowded, NEW p \in Proc, NEW q \in Proc, InFn(p), InFn(q), p # q
             PROVE  FALSE
  BY DEF SectionsExclude
<1>1. \A r \in {p, q} : \E n \in Published : owner[n] = r /\ Held(n)
  BY DEF LockInv, HasLock, Held, HoldPC, InFn
<1>2. PICK n \in Published : owner[n] = p /\ Held(n)
  BY <1>1
<1>3. PICK m \in Published : owner[m] = q /\ Held(m)
  BY <1>1
<1>4. lockAt = n \/ lockAt = m
  BY <1>2, <1>3 DEF LockInv, Noted, Crowd, Astray
<1>5. pc[p] \in SectPC /\ pc[q] \in SectPC
  BY DEF InFn, SectPC
<1> QED BY <1>2, <1>3, <1>4, <1>5 DEF LockInv, OtherWillSee, Astray

\* No two processes are in their sections together, whatever stealers and
\* releasers have made of the lock path and whatever has changed while a
\* directory was scanned, until a second lock goes astray while one is.
THEOREM LockExcludes == ASSUME Prompt PROVE Spec => []SectionsExclude
<1>1. LockInv /\ [Next]_vars => LockInv'
  BY LockInvStep
<1> QED BY <1>1, LockInvInit, InvExcludes, PTL DEF Spec

\* Who is in its section has read the version on disk: a write ends the
\* section of whoever makes it, and nobody else is in one.
ReadIsCurrent == ~crowded => \A p \in Proc : InFn(p) => p \in current

\* Until then no write undoes another's.
THEOREM UncrowdedLosesNothing == ASSUME Prompt PROVE Spec => [](~crowded => NoLostUpdate)
<1>1. LockInv /\ [Next]_vars => LockInv'
  BY LockInvStep
<1>2. Init => ReadIsCurrent
  BY DEF Init, ReadIsCurrent, InFn, FnPC
<1>3. LockInv /\ ReadIsCurrent /\ [Next]_vars => ReadIsCurrent'
  <2> SUFFICES ASSUME LockInv, ReadIsCurrent, [Next]_vars, ~crowded', NEW q \in Proc, InFn(q)'
               PROVE  q \in current'
    BY DEF ReadIsCurrent
  <2>1. TypeOK /\ ~crowded
    BY NotedStep DEF LockInv
  <2>2. CASE \E p \in Proc : Commit(p)
    <3>1. PICK p \in Proc : Commit(p)
      BY <2>2
    <3>2. pc'[p] = "release" /\ \A r \in Proc \ {p} : pc'[r] = pc[r]
      BY <2>1, <3>1 DEF Commit, Goto, TypeOK
    <3>3. InFn(p)
      BY <3>1 DEF Commit, At, InFn, FnPC
    <3>4. q # p /\ InFn(q)
      BY <3>2 DEF InFn, FnPC
    <3> QED BY <2>1, <3>3, <3>4, InvExcludes DEF SectionsExclude
  <2>3. CASE ReadRecord(q)
    BY <2>3 DEF ReadRecord
  <2>4. CASE ~ReadRecord(q) /\ ~\E p \in Proc : Commit(p)
    <3>1. InFn(q)
      BY <2>1, <2>4, NextMoves DEF Moved, InFn
    <3>2. current \subseteq current'
      <4>1. CASE \E p \in Proc : Start(p) \/ Step(p) \/ Exit(p)
        BY <2>4, <4>1
        DEF Start, Exit, disk, Step, Acquire, Fn, ReleaseLock, Scan, Pass, Blocked, LinkExists,
            Link, Verify, StaleRead, StaleCheck, StealNothing, StealRename, StealSettle, Unlink,
            ReadRecord, SkipWrite, Revalidate, Release, UnlinkSides, Linked, RenameAway,
            Settle, Prune
      <4> QED BY <2>1, <4>1, NextMoves
    <3> QED BY <2>1, <3>1, <3>2 DEF ReadIsCurrent
  <2> QED BY <2>2, <2>3, <2>4
<1>4. ReadIsCurrent => (~crowded => NoLostUpdate)
  BY DEF ReadIsCurrent, NoLostUpdate, InFn, FnPC, At
<1> QED BY <1>1, <1>2, <1>3, <1>4, LockInvInit, PTL DEF Spec
=============================================================================
