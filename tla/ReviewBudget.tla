---------------------------- MODULE ReviewBudget ----------------------------
(***************************************************************************)
(* review-rate-limit.mjs over the records it counts: a review command        *)
(* checks the budget, makes its record in memory, writes it (runTrackedJob)  *)
(* and ends it.  Every writing prunes the records (pruneJobs), and a         *)
(* SessionEnd removes those of its session that have ended.  The check and   *)
(* the writing are steps of their own, with other commands in between.       *)
(***************************************************************************)
EXTENDS Naturals, FiniteSets

CONSTANTS
  Caller,      \* processes that run reviews and are not user-slash
  User,        \* processes that run user-slash reviews
  Ending,      \* those whose session may end
  Count,       \* the budget: Count reviews
  Window,      \*   in Window units of time
  Retention,   \* RECENT_REVIEW_RETENTION_MS, longer than every window
  MaxRecent,   \* MAX_RECENT_REVIEW_JOBS
  MaxReview,   \* bound: the reviews that are made
  MaxTime      \* bound: the time that passes

\* parseReviewRateLimit takes positive numbers, and windows that are shorter
\* than the retention.
ASSUME BudgetAssumption ==
  /\ IsFiniteSet(Caller)
  /\ Caller \cap User = {} /\ "nobody" \notin Caller \cup User
  /\ Count \in Nat \ {0}
  /\ Window \in Nat \ {0} /\ Retention \in Nat /\ Window < Retention
  /\ {MaxRecent, MaxReview, MaxTime} \subseteq Nat

Reviewer == Caller \cup User
Review == 1 .. MaxReview

VARIABLES
  now,
  doing,      \* what each reviewer is at
  review,     \* the review it has made
  made,       \* of each review, who made it (Nobody: not yet) and when
  reviewRecord  \* its record: none, active, ended, pruned, or removed

budgetVars == <<now, doing, review, made, reviewRecord>>

Nobody == "nobody"

BudgetInit ==
  /\ now = 0
  /\ doing = [p \in Reviewer |-> "idle"]
  /\ review = [p \in Reviewer |-> 0]
  /\ made = [r \in Review |-> [by |-> Nobody, time |-> 0]]
  /\ reviewRecord = [r \in Review |-> "none"]

Listed(rec) == {r \in Review : rec[r] \in {"active", "ended"}}
NotUser(r) == made[r].by \in Caller

\* createdMs >= cutoff, with time counted from Window on.
InWindow(r) == made[r].time + Window >= now
Counted == {r \in Listed(reviewRecord) : NotUser(r) /\ InWindow(r)}

-----------------------------------------------------------------------------
(* enforceReviewRateLimit, in handleReviewCommand *)

WithinOneMore == Cardinality(Counted) <= Count
WithinBudget == Cardinality(Counted) < Count

Check(p) ==
  /\ doing[p] = "idle"
  /\ p \in Caller => WithinBudget
  /\ doing' = [doing EXCEPT ![p] = "checked"]
  /\ UNCHANGED <<now, review, made, reviewRecord>>

\* createCompanionJob dates the record; or the target or the request is bad.
MakeRecord(p) ==
  /\ doing[p] = "checked"
  /\ \/ \E r \in Review :
          /\ made[r].by = Nobody /\ \A q \in 1 .. (r - 1) : made[q].by # Nobody
          /\ made' = [made EXCEPT ![r] = [by |-> p, time |-> now]]
          /\ review' = [review EXCEPT ![p] = r]
          /\ doing' = [doing EXCEPT ![p] = "made"]
     \/ doing' = [doing EXCEPT ![p] = "idle"] /\ UNCHANGED <<made, review>>
  /\ UNCHANGED <<now, reviewRecord>>

-----------------------------------------------------------------------------
(* pruneJobs: of the reviews made less than Retention ago the newest         *)
(* MaxRecent stay, whoever asked for them.  Of the older ones as many as fit  *)
(* MAX_JOBS, by their last update; an active record is never removed.        *)

RecentAsWindow(r) == made[r].time + Window > now
Recent(r) == made[r].time + Retention >= now
Newer(q, r) == made[q].time > made[r].time \/ (made[q].time = made[r].time /\ q > r)
Retained(rec, r) ==
  Recent(r) /\ Cardinality({q \in Listed(rec) : Recent(q) /\ Newer(q, r)}) < MaxRecent

WriteAndPrune(p, status) ==
  LET rec == [reviewRecord EXCEPT ![review[p]] = status]
      excess == {r \in Review : rec[r] = "ended" /\ ~Retained(rec, r)}
  IN \E kept \in SUBSET {r \in excess : ~Recent(r)} :
       reviewRecord' = [r \in Review |-> IF r \in excess \ kept THEN "pruned" ELSE rec[r]]

WriteRecord(p) ==
  /\ doing[p] = "made"
  /\ WriteAndPrune(p, "active")
  /\ doing' = [doing EXCEPT ![p] = "running"]
  /\ UNCHANGED <<now, review, made>>

\* A record that SessionEnd has cancelled stays as it is.
EndReview(p) ==
  /\ doing[p] = "running"
  /\ WriteAndPrune(p, "ended")
  /\ doing' = [doing EXCEPT ![p] = "idle"]
  /\ review' = [review EXCEPT ![p] = 0]
  /\ UNCHANGED <<now, made>>

-----------------------------------------------------------------------------

\* deleteSessionJobs: an active record is cancelled and stays, an ended one is
\* removed.  The process of an active one has been signalled.
SessionEnds ==
  LET ofSession == {r \in Review : made[r].by \in Ending}
  IN /\ \E r \in ofSession : reviewRecord[r] \in {"active", "ended"}
     /\ reviewRecord' = [r \in Review |->
          CASE r \in ofSession /\ reviewRecord[r] = "active" -> "ended"
            [] r \in ofSession /\ reviewRecord[r] = "ended" -> "removed"
            [] OTHER -> reviewRecord[r]]
     /\ doing' = [p \in Reviewer |->
          IF p \in Ending /\ doing[p] = "running" THEN "idle" ELSE doing[p]]
     /\ review' = [p \in Reviewer |->
          IF p \in Ending /\ doing[p] = "running" THEN 0 ELSE review[p]]
     /\ UNCHANGED <<now, made>>

Tick ==
  /\ now < MaxTime
  /\ now' = now + 1
  /\ UNCHANGED <<doing, review, made, reviewRecord>>

BudgetNext ==
  \/ \E p \in Reviewer : Check(p) \/ MakeRecord(p) \/ WriteRecord(p) \/ EndReview(p)
  \/ SessionEnds
  \/ Tick

BudgetSpec == BudgetInit /\ [][BudgetNext]_budgetVars

-----------------------------------------------------------------------------

BudgetTypeOK ==
  /\ now \in 0 .. MaxTime
  /\ doing \in [Reviewer -> {"idle", "checked", "made", "running"}]
  /\ review \in [Reviewer -> 0 .. MaxReview]
  /\ made \in [Review -> [by : Reviewer \cup {Nobody}, time : 0 .. MaxTime]]
  /\ reviewRecord \in [Review -> {"none", "active", "ended", "pruned", "removed"}]

\* The reviews that count against the budget exceed it by no more than the
\* callers that were between the check and the record at the same time, the
\* accepted limitation of the check.
Unwritten == {r \in Review : NotUser(r) /\ reviewRecord[r] = "none" /\ InWindow(r)}
Allowed == {p \in Caller : doing[p] = "checked"}
OverrunBounded ==
  Cardinality(Counted) + Cardinality(Unwritten) + Cardinality(Allowed)
    <= Count + Cardinality(Caller) - 1

\* "State pruning preserves review records less than 65 minutes old so this
\* limiter can count the configured one-hour window": pruning takes no review
\* out of the window, unless MaxRecent newer ones are listed, of users too.
PruningKeepsWindow ==
  [][\A r \in Review :
       reviewRecord[r] # "pruned" /\ reviewRecord'[r] = "pruned" /\ InWindow(r) =>
         Cardinality({q \in Review : reviewRecord'[q] \in {"active", "ended"} /\ Newer(q, r)}) >= MaxRecent]_budgetVars
=============================================================================
