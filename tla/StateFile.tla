----------------------------- MODULE StateFile -----------------------------
(***************************************************************************)
(* state.json: the configuration of a workspace, and the jobs of a version  *)
(* that kept them there.  Whoever loads it and finds such a list drains it   *)
(* into jobs/ and rewrites the file; setConfig loads and saves it.  No lock  *)
(* is taken: a process works from what it has read, and may die anywhere.   *)
(***************************************************************************)

CONSTANTS
  Lister,     \* processes that list the jobs (loadState, then jobs/)
  Setter,     \* processes that set stopReviewGate
  LegacyJob   \* the jobs of the first state.json

Loader == Lister \cup Setter

VARIABLES
  at,        \* where each process is
  seen,      \* the state.json it has read
  toLink,    \* the legacy jobs it has still to write
  listed,    \* the jobs it has found in jobs/
  stateFile, \* stopReviewGate and jobs[] of state.json
  record     \* the legacy jobs' files in jobs/: none, legacy, updated, removed

stateVars == <<at, seen, toLink, listed, stateFile, record>>

State == [gate : BOOLEAN, jobs : SUBSET LegacyJob]

StateInit ==
  /\ at = [p \in Loader |-> "load"]
  /\ stateFile = [gate |-> FALSE, jobs |-> LegacyJob]
  /\ seen = [p \in Loader |-> stateFile]
  /\ toLink = [p \in Loader |-> {}]
  /\ listed = [p \in Loader |-> {}]
  /\ record = [j \in LegacyJob |-> "none"]

Exists(j) == record[j] \in {"legacy", "updated"}

-----------------------------------------------------------------------------
(* loadState *)

Loaded(p) == IF p \in Setter THEN "save" ELSE "list"

ReadAndRewrite(p) ==
  /\ at[p] = "load"
  /\ seen' = [seen EXCEPT ![p] = stateFile]
  /\ toLink' = [toLink EXCEPT ![p] = stateFile.jobs]
  /\ at' = [at EXCEPT ![p] = "migrate"]
  /\ UNCHANGED <<listed, stateFile, record>>
ReadState(p) ==
  /\ at[p] = "load"
  /\ seen' = [seen EXCEPT ![p] = stateFile]
  /\ toLink' = [toLink EXCEPT ![p] = stateFile.jobs]
  /\ at' = [at EXCEPT ![p] = IF stateFile.jobs # {} THEN "migrate" ELSE Loaded(p)]
  /\ UNCHANGED <<listed, stateFile, record>>

\* writeJobFileExclusive: the link fails if the job has a file, old or new.
LinkOver(p, j) ==
  /\ at[p] = "migrate" /\ j \in toLink[p]
  /\ toLink' = [toLink EXCEPT ![p] = @ \ {j}]
  /\ record' = [record EXCEPT ![j] = "legacy"]
  /\ UNCHANGED <<at, seen, listed, stateFile>>
LinkJob(p, j) ==
  /\ at[p] = "migrate" /\ j \in toLink[p]
  /\ toLink' = [toLink EXCEPT ![p] = @ \ {j}]
  /\ record' = [record EXCEPT ![j] = IF Exists(j) THEN @ ELSE "legacy"]
  /\ UNCHANGED <<at, seen, listed, stateFile>>

RewriteEarly(p) ==
  /\ at[p] = "migrate"
  /\ stateFile' = [gate |-> seen[p].gate, jobs |-> {}]
  /\ at' = [at EXCEPT ![p] = IF toLink[p] = {} THEN Loaded(p) ELSE "migrate"]
  /\ UNCHANGED <<seen, toLink, listed, record>>
RewriteState(p) ==
  /\ at[p] = "migrate" /\ toLink[p] = {}
  /\ stateFile' = [gate |-> seen[p].gate, jobs |-> {}]
  /\ at' = [at EXCEPT ![p] = Loaded(p)]
  /\ UNCHANGED <<seen, toLink, listed, record>>

-----------------------------------------------------------------------------
(* What the state is loaded for *)

\* setConfig: updateState saves what was loaded with the gate changed.
SaveState(p) ==
  /\ at[p] = "save"
  /\ \E on \in BOOLEAN : stateFile' = [gate |-> on, jobs |-> {}]
  /\ at' = [at EXCEPT ![p] = "end"]
  /\ UNCHANGED <<seen, toLink, listed, record>>

ListJobs(p) ==
  /\ at[p] = "list"
  /\ listed' = [listed EXCEPT ![p] = {j \in LegacyJob : Exists(j)}]
  /\ at' = [at EXCEPT ![p] = "use"]
  /\ UNCHANGED <<seen, toLink, stateFile, record>>

\* A job that was listed is updated (upsertJob, a reconciliation, a cancel)
\* or removed (deleteSessionJobs, pruneJobsOnDisk), under that job's lock.
UseJob(p) ==
  /\ at[p] = "use"
  /\ \/ \E j \in listed[p], outcome \in {"updated", "removed"} :
          Exists(j) /\ record' = [record EXCEPT ![j] = outcome]
     \/ UNCHANGED record
  /\ at' = [at EXCEPT ![p] = "end"]
  /\ UNCHANGED <<seen, toLink, listed, stateFile>>

LoaderDies(p) ==
  /\ at[p] \notin {"end", "dead"}
  /\ at' = [at EXCEPT ![p] = "dead"]
  /\ UNCHANGED <<seen, toLink, listed, stateFile, record>>

LoaderStep(p) ==
  \/ ReadState(p) \/ (\E j \in LegacyJob : LinkJob(p, j)) \/ RewriteState(p)
  \/ SaveState(p) \/ ListJobs(p) \/ UseJob(p) \/ LoaderDies(p)

StateNext == \E p \in Loader : LoaderStep(p)

StateSpec == StateInit /\ [][StateNext]_stateVars

-----------------------------------------------------------------------------

StateTypeOK ==
  /\ at \in [Loader -> {"load", "migrate", "save", "list", "use", "end", "dead"}]
  /\ stateFile \in State
  /\ seen \in [Loader -> State]
  /\ toLink \in [Loader -> SUBSET LegacyJob]
  /\ listed \in [Loader -> SUBSET LegacyJob]
  /\ record \in [LegacyJob -> {"none", "legacy", "updated", "removed"}]

\* A legacy job is in state.json until it has a file in jobs/, wherever the
\* migrations of several processes stop: all the links come before the rewriting.
NoLegacyJobLost == \A j \in LegacyJob : j \in stateFile.jobs \/ record[j] # "none"

\* So whoever lists the jobs has every legacy job that was not removed, the
\* one that comes second or after a crash included.
ListsEveryJob ==
  \A p \in Lister : at[p] = "list" => \A j \in LegacyJob : record[j] # "none"

\* A late migration does not write the old record of a job over its new one.
MigrationKeepsUpdates ==
  [][\A j \in LegacyJob : record[j] = "updated" => record'[j] # "legacy"]_stateVars

\* Once state.json has been migrated, and nobody works any more from a copy
\* made before, a setting stays until it is set again.
Migrated == stateFile.jobs = {} /\ \A p \in Loader : at[p] = "migrate" => seen[p].jobs = {}
SettingsStay ==
  [][Migrated /\ stateFile'.gate # stateFile.gate
       => \E p \in Setter : at[p] = "save" /\ at'[p] = "end"]_stateVars
=============================================================================
