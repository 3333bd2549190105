------------------------------ MODULE JobLock ------------------------------
(***************************************************************************)
(* The per-job advisory lock of lib/state.mjs: one lock path jobs/<id>.lock *)
(* shared by short-lived processes, each of which makes one withJobLock    *)
(* call around a read-modify-write of jobs/<id>.json.  A step is one file- *)
(* system call, or a run of calls of which only one concerns the others.   *)
(*                                                                         *)
(* A lock file is known by the order of publication: file n is the n-th    *)
(* successful link(2) and owner[n] the process whose pid, acquiredAt and   *)
(* token it holds.  Files 1 .. oldUpTo were published more than            *)
(* JOB_LOCK_STALE_MS ago; rename(2) and link(2) keep the mtime, so a side  *)
(* file is as old as the lock file it was.                                 *)
(***************************************************************************)
EXTENDS Naturals, Sequences

CONSTANTS
  Proc,          \* the processes, one withJobLock call each
  Nonblocking,   \* those whose call has options.nonblocking
  Crashing,      \* those that may die in the middle of the call
  RetryCount,    \* JOB_LOCK_RETRY_COUNT, scaled down
  MaxFile,       \* bound: lock files published in a behaviour
  Prompt         \* no call lasts JOB_LOCK_STALE_MS

ASSUME LockAssumption ==
  /\ Nonblocking \subseteq Proc
  /\ Crashing \subseteq Proc
  /\ RetryCount \in Nat
  /\ MaxFile \in Nat
  /\ Prompt \in BOOLEAN

VARIABLES
  pc,         \* where each process is in its call
  attempts,   \* acquireJobLock's attempts
  snap,       \* the file its stale snapshot describes, 0 for "no lock file"
  mySide,     \* the side file it renamed the lock path to, or is about to unlink
  listed,     \* the entries of its last readdir(3) that it has not looked at
  after,      \* what it does once releaseJobLock returns
  since,      \* how many files had been published when its call started
  lockAt,     \* the file at the lock path, 0 for none
  sides,      \* the side files on disk
  owner,      \* owner[n]: the process that published file n
  oldUpTo,    \* files 1 .. oldUpTo are older than JOB_LOCK_STALE_MS
  current,    \* the processes whose copy of the job record is the one on disk
  crowded     \* history: two locks have been astray at the same time

local == <<attempts, snap, mySide, listed, after, since>>
disk == <<lockAt, sides, owner, oldUpTo>>
state == <<pc, local, disk, current>>   \* what the program has
vars == <<state, crowded>>

ScanPC == {"prescan", "postscan", "stealScan"}
AcquirePC == {"precheck", "verify", "postcheck",
              "staleRead", "staleCheck", "stealCheck", "stealSettle"} \cup ScanPC
FnPC == {"revalidate", "commit"}   \* the record is read and not yet written
ReleasePC == {"release", "unlinkSides", "unlinkScan", "settle", "prune"}
MidCallPC == AcquirePC \cup FnPC \cup ReleasePC
PC == {"idle", "done", "error", "dead"} \cup MidCallPC

File == 1 .. MaxFile
Published == 1 .. Len(owner)
SideSeq == 0 .. 1    \* bound: names one process gives the same file at a time
Side == [kind : {"stealing", "releasing"}, by : Proc, seq : SideSeq, file : File]
NoSide == [kind |-> "none"]

At(p, l) == pc[p] = l
Goto(p, l) == pc' = [pc EXCEPT ![p] = l]
MidCall(p) == pc[p] \in MidCallPC
InFn(p) == pc[p] \in FnPC
Alive(p) == pc[p] # "dead"
Old(n) == n <= oldUpTo

\* readJobLockSnapshot finds p's token at the lock path.
HoldsPath(p) == lockAt # 0 /\ owner[lockAt] = p

-----------------------------------------------------------------------------
(* Side files *)

\* A scan lists the directory first and looks at the entries later, one by one
\* and in any order: meanwhile they come and go, and so does the lock path.
List(p) == listed' = [listed EXCEPT ![p] = sides]
Ticked(p, s) == listed' = [listed EXCEPT ![p] = @ \ {s}]
Scanned(p) == listed[p] = {} /\ mySide[p] = NoSide

\* What stops hasRecentBlockingJobLockSideFile: a ".stealing." that is recent
\* and has not the lock path's inode.
BlocksForEver(s) == s \in sides /\ s.kind = "stealing" /\ s.file # lockAt
Blocks(s) == s \in sides /\ s.kind = "stealing" /\ s.file # lockAt /\ ~Old(s.file)

\* Another's ".releasing." is deleted on sight: a step of its own, when the lock
\* path may have another inode.
Pass(p) ==
  /\ pc[p] \in ScanPC /\ mySide[p] = NoSide
  /\ \E s \in listed[p] :
       /\ ~Blocks(s)
       /\ Ticked(p, s)
       /\ mySide' = [mySide EXCEPT ![p] =
                       IF s.kind = "releasing" /\ s.file # lockAt THEN s ELSE NoSide]
  /\ UNCHANGED <<pc, attempts, snap, after, since, disk, current>>

\* Names on disk or still in a process's memory: a new one is like none of them.
Named == sides \cup UNION {listed[q] \cup {mySide[q]} : q \in Proc}

\* rename(2) of the lock path, whatever it holds by now, to a new side path.
RenameToSide(p, k) ==
  LET unused == {[kind |-> k, by |-> p, seq |-> n, file |-> lockAt] : n \in SideSeq} \ Named
      side == CHOOSE s \in unused : TRUE
  IN  /\ unused # {}
      /\ sides' = sides \cup {side}
      /\ mySide' = [mySide EXCEPT ![p] = side]
      /\ lockAt' = 0

\* restoreRenamedLockFile: link(2) the side path back unless the lock path is
\* taken (EEXIST) or the side file gone (ENOENT).  The side file stays.
Restore(p) ==
  /\ lockAt' = IF mySide[p] \in sides /\ lockAt = 0 THEN mySide[p].file ELSE lockAt
  /\ UNCHANGED sides

RemoveSide(p) ==
  /\ sides' = sides \ {mySide[p]}
  /\ UNCHANGED lockAt

\* removeFileIfExists of the entry just looked at, in either scan.
Unlink(p) ==
  /\ pc[p] \in ScanPC \cup {"unlinkScan"} /\ mySide[p] # NoSide
  /\ RemoveSide(p)
  /\ mySide' = [mySide EXCEPT ![p] = NoSide]
  /\ UNCHANGED <<pc, attempts, snap, listed, after, since, owner, oldUpTo, current>>

-----------------------------------------------------------------------------
(* acquireJobLock *)

Start(p) ==
  /\ At(p, "idle")
  /\ Goto(p, "precheck")
  /\ since' = [since EXCEPT ![p] = Len(owner)]
  /\ UNCHANGED <<attempts, snap, mySide, listed, after, disk, current>>

\* An attempt failed: try again after JOB_LOCK_RETRY_DELAY_MS, or see whether
\* the lock is stale.
AttemptFailedOnceMore(p) ==
  IF p \in Nonblocking \/ attempts[p] > RetryCount
  THEN Goto(p, "staleRead") /\ UNCHANGED attempts
  ELSE Goto(p, "precheck") /\ attempts' = [attempts EXCEPT ![p] = @ + 1]
AttemptFailedForever(p) == Goto(p, "precheck") /\ UNCHANGED attempts
AttemptFailed(p) ==
  IF p \in Nonblocking \/ attempts[p] >= RetryCount
  THEN Goto(p, "staleRead") /\ UNCHANGED attempts
  ELSE Goto(p, "precheck") /\ attempts' = [attempts EXCEPT ![p] = @ + 1]

\* hasRecentBlockingJobLockSideFile, up to its loop.
Scan(p) ==
  /\ \/ At(p, "precheck") /\ Goto(p, "prescan")
     \/ At(p, "postcheck") /\ Goto(p, "postscan")
     \/ At(p, "stealCheck") /\ Goto(p, "stealScan")
  /\ List(p)
  /\ UNCHANGED <<attempts, snap, mySide, after, since, disk, current>>

\* The first scan, the second after the publication, or the one before a steal
\* has met a recent ".stealing.".
Blocked(p) ==
  /\ pc[p] \in ScanPC /\ mySide[p] = NoSide
  /\ \E s \in listed[p] : Blocks(s)
  /\ listed' = [listed EXCEPT ![p] = {}]
  /\ \/ At(p, "prescan") /\ AttemptFailed(p) /\ UNCHANGED after
     \/ At(p, "postscan") /\ Goto(p, "release") /\ after' = [after EXCEPT ![p] = "retry"]
        /\ UNCHANGED attempts
     \/ At(p, "stealScan") /\ Goto(p, "error") /\ UNCHANGED <<attempts, after>>
  /\ UNCHANGED <<snap, mySide, since, disk, current>>

\* publishJobLock: link(2) of a flushed temporary file, false on EEXIST.
LinkExists(p) ==
  /\ At(p, "prescan") /\ Scanned(p)
  /\ lockAt # 0
  /\ AttemptFailed(p)
  /\ UNCHANGED <<snap, mySide, listed, after, since, disk, current>>

Link(p) ==
  /\ At(p, "prescan") /\ Scanned(p)
  /\ lockAt = 0
  /\ Len(owner) < MaxFile
  /\ owner' = Append(owner, p)
  /\ lockAt' = Len(owner) + 1
  /\ Goto(p, "verify")
  /\ UNCHANGED <<local, sides, oldUpTo, current>>

\* The token is read back; another's makes the call throw once released.
Verify(p) ==
  /\ At(p, "verify")
  /\ IF HoldsPath(p)
     THEN Goto(p, "postcheck") /\ UNCHANGED after
     ELSE Goto(p, "release") /\ after' = [after EXCEPT ![p] = "error"]
  /\ UNCHANGED <<attempts, snap, mySide, listed, since, disk, current>>

StaleRead(p) ==
  /\ At(p, "staleRead")
  /\ snap' = [snap EXCEPT ![p] = lockAt]
  /\ Goto(p, "staleCheck")
  /\ UNCHANGED <<attempts, mySide, listed, after, since, disk, current>>

\* getStaleJobLockSnapshot on the content just read: no file, an acquiredAt
\* over a minute ago whoever holds it, or an owner that is dead by now.
Stale(n) == n # 0 => Old(n) \/ ~Alive(owner[n])

\* A live owner, or a live process that was given a dead owner's pid, makes a
\* recent lock count as held: JobLockTimeoutError or JobLockUnavailableError.
StaleCheck(p) ==
  /\ At(p, "staleCheck")
  /\ \/ Stale(snap[p]) /\ Goto(p, "stealCheck")
     \/ snap[p] # 0 /\ ~Old(snap[p]) /\ Goto(p, "error")
  /\ UNCHANGED <<local, disk, current>>

\* The lock may be free: attempts start again from zero, with no snapshot.
TryAgain(p) ==
  /\ attempts' = [attempts EXCEPT ![p] = 0]
  /\ snap' = [snap EXCEPT ![p] = 0]
  /\ Goto(p, "precheck")

\* stealStaleJobLock: nothing to rename counts as stolen.
StealNothing(p) ==
  /\ At(p, "stealScan") /\ Scanned(p)
  /\ snap[p] = 0 \/ lockAt = 0
  /\ TryAgain(p)
  /\ UNCHANGED <<mySide, listed, after, since, disk, current>>

StealRename(p) ==
  /\ At(p, "stealScan") /\ Scanned(p)
  /\ snap[p] # 0 /\ lockAt # 0
  /\ RenameToSide(p, "stealing")
  /\ Goto(p, "stealSettle")
  /\ UNCHANGED <<attempts, snap, listed, after, since, owner, oldUpTo, current>>

\* The renamed file is unlinked if it is the one of the snapshot, or it goes
\* back.
StealSettleUnmatched(p) ==
  /\ At(p, "stealSettle")
  /\ mySide' = [mySide EXCEPT ![p] = NoSide]
  /\ RemoveSide(p)
  /\ TryAgain(p)
  /\ UNCHANGED <<listed, after, since, owner, oldUpTo, current>>
StealSettle(p) ==
  /\ At(p, "stealSettle")
  /\ mySide' = [mySide EXCEPT ![p] = NoSide]
  /\ IF mySide[p] \in sides /\ mySide[p].file = snap[p]
     THEN RemoveSide(p) /\ TryAgain(p)
     ELSE /\ Restore(p)
          /\ IF p \in Nonblocking
             THEN Goto(p, "error") /\ UNCHANGED <<attempts, snap>>
             ELSE TryAgain(p)
  /\ UNCHANGED <<listed, after, since, owner, oldUpTo, current>>

-----------------------------------------------------------------------------
(* fn(revalidate): read the record, then replace or remove it *)

\* The second scan has found nothing: the lock is p's.
ReadUnscanned(p) ==
  /\ At(p, "postscan")
  /\ current' = current \cup {p}
  /\ Goto(p, "revalidate")
  /\ UNCHANGED <<local, disk>>
ReadRecord(p) ==
  /\ At(p, "postscan") /\ Scanned(p)
  /\ current' = current \cup {p}
  /\ Goto(p, "revalidate")
  /\ UNCHANGED <<local, disk>>

\* fn decided to write nothing.
SkipWrite(p) ==
  /\ At(p, "revalidate")
  /\ Goto(p, "release")
  /\ UNCHANGED <<local, disk, current>>

\* revalidateJobLock, just before the rename: JobLockStolenError otherwise.
Revalidate(p) ==
  /\ At(p, "revalidate")
  /\ IF HoldsPath(p)
     THEN Goto(p, "commit") /\ UNCHANGED after
     ELSE Goto(p, "release") /\ after' = [after EXCEPT ![p] = "error"]
  /\ UNCHANGED <<attempts, snap, mySide, listed, since, disk, current>>

\* atomicWriteJsonFile's rename(2) over the record, or removeJobFile.
Commit(p) ==
  /\ At(p, "commit")
  /\ current' = {p}
  /\ Goto(p, "release")
  /\ UNCHANGED <<local, disk>>

-----------------------------------------------------------------------------
(* releaseJobLock *)

\* It returned: to acquireJobLock's loop, or out of withJobLock.
Released(p) ==
  /\ IF after[p] = "retry" THEN AttemptFailed(p) ELSE Goto(p, after[p]) /\ UNCHANGED attempts
  /\ after' = [after EXCEPT ![p] = "prune"]

Release(p) ==
  /\ At(p, "release")
  /\ IF HoldsPath(p)
     THEN Goto(p, "unlinkSides") /\ UNCHANGED <<attempts, after>>
     ELSE Released(p)
  /\ UNCHANGED <<snap, mySide, listed, since, disk, current>>

\* removeLinkedJobLockSideFiles: those with the lock path's inode.
UnlinkSides(p) ==
  /\ At(p, "unlinkSides")
  /\ List(p)
  /\ Goto(p, "unlinkScan")
  /\ UNCHANGED <<attempts, snap, mySide, after, since, disk, current>>

Linked(p) ==
  /\ At(p, "unlinkScan") /\ mySide[p] = NoSide
  /\ \E s \in listed[p] :
       /\ Ticked(p, s)
       /\ mySide' = [mySide EXCEPT ![p] = IF s.file = lockAt THEN s ELSE NoSide]
  /\ UNCHANGED <<pc, attempts, snap, after, since, disk, current>>

RenameAway(p) ==
  /\ At(p, "unlinkScan") /\ Scanned(p)
  /\ IF lockAt = 0
     THEN Released(p) /\ UNCHANGED <<mySide, sides, lockAt>>
     ELSE RenameToSide(p, "releasing") /\ Goto(p, "settle") /\ UNCHANGED <<attempts, after>>
  /\ UNCHANGED <<snap, listed, since, owner, oldUpTo, current>>

\* The renamed file is unlinked if it holds p's token, or it goes back.
Settle(p) ==
  /\ At(p, "settle")
  /\ mySide' = [mySide EXCEPT ![p] = NoSide]
  /\ IF mySide[p] \in sides /\ owner[mySide[p].file] = p THEN RemoveSide(p) ELSE Restore(p)
  /\ Released(p)
  /\ UNCHANGED <<snap, listed, since, owner, oldUpTo, current>>

\* upsertJob goes on to pruneJobsOnDisk, whose cleanupStaleJobLockSideFiles
\* removes the side files over a minute old, one by one; the other callers do not.
Prune(p) ==
  /\ At(p, "prune")
  /\ \/ Goto(p, "done") /\ UNCHANGED sides
     \/ \E s \in sides : Old(s.file) /\ sides' = sides \ {s} /\ UNCHANGED pc
  /\ UNCHANGED <<local, lockAt, owner, oldUpTo, current>>

-----------------------------------------------------------------------------
(* The environment *)

\* A process ends after its call, or is killed in the middle of it, and what it
\* had in memory is gone.
Exit(p) ==
  /\ pc[p] \in {"done", "error"} \/ (p \in Crashing /\ MidCall(p))
  /\ Goto(p, "dead")
  /\ snap' = [snap EXCEPT ![p] = 0]
  /\ mySide' = [mySide EXCEPT ![p] = NoSide]
  /\ listed' = [listed EXCEPT ![p] = {}]
  /\ UNCHANGED <<attempts, after, since, disk, current>>

\* A minute has passed since the next lock file was published: under Prompt
\* the calls that run now all started later; otherwise at least no process
\* sleeps that long between its revalidation and the rename it guards.
Age ==
  /\ oldUpTo < Len(owner)
  /\ IF Prompt
     THEN \A p \in Proc : MidCall(p) => since[p] > oldUpTo
     ELSE ~At(owner[oldUpTo + 1], "commit")
  /\ oldUpTo' = oldUpTo + 1
  /\ UNCHANGED <<pc, local, lockAt, sides, owner, current>>

-----------------------------------------------------------------------------
Init ==
  /\ pc = [p \in Proc |-> "idle"]
  /\ attempts = [p \in Proc |-> 0]
  /\ snap = [p \in Proc |-> 0]
  /\ mySide = [p \in Proc |-> NoSide]
  /\ listed = [p \in Proc |-> {}]
  /\ after = [p \in Proc |-> "prune"]
  /\ since = [p \in Proc |-> 0]
  /\ lockAt = 0
  /\ sides = {}
  /\ owner = << >>
  /\ oldUpTo = 0
  /\ current = {}
  /\ crowded = FALSE

Acquire(p) ==
  \/ Scan(p) \/ Pass(p) \/ Blocked(p) \/ LinkExists(p) \/ Link(p) \/ Verify(p)
  \/ StaleRead(p) \/ StaleCheck(p) \/ StealNothing(p) \/ StealRename(p) \/ StealSettle(p)
Fn(p) == ReadRecord(p) \/ SkipWrite(p) \/ Revalidate(p) \/ Commit(p)
ReleaseLock(p) ==
  \/ Release(p) \/ UnlinkSides(p) \/ Linked(p) \/ RenameAway(p) \/ Settle(p)
  \/ Prune(p)
Step(p) == Acquire(p) \/ Unlink(p) \/ Fn(p) \/ ReleaseLock(p)

\* A process holds the lock it has published last until it has taken it away;
\* meanwhile the lock should be at the lock path.
HoldPC == {"verify", "postcheck", "postscan", "release", "unlinkSides", "unlinkScan"} \cup FnPC
Held(n) ==
  LET p == owner[n]
  IN  /\ pc[p] \in HoldPC \/ (At(p, "settle") /\ mySide[p].file # n)
      /\ \A m \in Published : owner[m] = p => m <= n
Astray(n) == Held(n) /\ lockAt # n
Crowd == \E m, n \in Published : m # n /\ Astray(m) /\ Astray(n)

Next ==
  /\ (\E p \in Proc : Start(p) \/ Step(p) \/ Exit(p)) \/ Age
  /\ crowded' = (crowded \/ Crowd')

Spec == Init /\ [][Next]_vars

\* The calls are synchronous code with bounded sleeps: a process that is not
\* killed goes on.
FairSpec == Spec /\ \A p \in Proc : WF_state(Step(p))

-----------------------------------------------------------------------------
(* Properties *)

\* The types of the variables.
TypeOK ==
  /\ pc \in [Proc -> PC]
  /\ attempts \in [Proc -> 0 .. RetryCount]
  /\ snap \in [Proc -> {0} \cup Published]
  /\ mySide \in [Proc -> Side \cup {NoSide}]
  /\ \A p \in Proc : At(p, "settle") => mySide[p] # NoSide
  /\ listed \in [Proc -> SUBSET Side]
  /\ after \in [Proc -> {"retry", "error", "prune"}]
  /\ since \in [Proc -> {0} \cup Published]
  /\ owner \in Seq(Proc)
  /\ Len(owner) <= MaxFile
  /\ lockAt \in {0} \cup Published
  /\ sides \subseteq Side
  /\ \A p \in Proc : \A s \in sides \cup listed[p] : s.file \in Published
  /\ oldUpTo \in {0} \cup Published
  /\ current \subseteq Proc
  /\ crowded \in BOOLEAN

\* Two processes are never between their reading of the record and their
\* writing, although stealers whose judgement is outdated move live locks
\* away: one lock astray is harmless, because the second scan of whoever
\* publishes another meets the stealer's side file.  It takes a second lock that
\* goes astray before the first is back.
SectionsExclude ==
  ~crowded => \A p, q \in Proc : InFn(p) /\ InFn(q) => p = q

\* withJobLock's comment: the lock serializes read and write.  A process about
\* to replace the job record read the version that is on disk, so its write
\* undoes no other's.
NoLostUpdate == \A p \in Proc : At(p, "commit") => p \in current

OnDisk(n) == n = lockAt \/ \E s \in sides : s.file = n

\* A stealer unlinks only a stale lock: the one whose staleness it judged
\* before it renamed the lock path, never a lock published meanwhile.
StealsOnlyStale ==
  [][\A n \in Published :
       OnDisk(n) /\ ~OnDisk(n)' /\ (\E p \in Proc : At(p, "stealSettle") /\ ~At(p, "stealSettle")')
         => Stale(n)]_vars

\* Every call of a process that lives returns, with the lock or with an error.
CallsEnd == \A p \in Proc : MidCall(p) ~> ~MidCall(p)

\* However the others died (in a critical section, with the lock path renamed
\* to a side file, after a failed restore), once a minute has passed over what
\* they left the next call takes the lock.
NeverWedged ==
  \A p \in Proc :
    (/\ At(p, "precheck")
     /\ \A q \in Proc \ {p} : ~Alive(q)
     /\ \A n \in Published : Old(n)) ~> (InFn(p) \/ ~Alive(p))
=============================================================================
