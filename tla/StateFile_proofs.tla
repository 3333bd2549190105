-------------------------- MODULE StateFile_proofs --------------------------
(***************************************************************************)
(* Proofs about StateFile, for any number of processes and legacy jobs.     *)
(***************************************************************************)
EXTENDS StateFile, TLAPS

\* A migration has linked, or has still to link, every job without a file.
MigratesAll ==
  \A p \in Loader : at[p] = "migrate" =>
    \A j \in LegacyJob : j \in toLink[p] \/ record[j] # "none"

\* Whoever has come through loadState finds every job with a file, or removed.
LoadedAll ==
  \A p \in Loader : at[p] \in {"save", "list", "use"} =>
    \A j \in LegacyJob : record[j] # "none"

\* Only a file with jobs is migrated, and only setters save.
MigratesSomething == \A p \in Loader : at[p] = "migrate" => seen[p].jobs # {}
OnlySettersSave == \A p \in Loader : at[p] = "save" => p \in Setter

StateInv ==
  /\ StateTypeOK
  /\ NoLegacyJobLost /\ MigratesAll /\ LoadedAll
  /\ MigratesSomething /\ OnlySettersSave

\* A first state.json with its jobs, and nobody beyond the start.
LEMMA StateInitEstablishes == StateInit => StateInv
<1> SUFFICES ASSUME StateInit PROVE StateInv
  OBVIOUS
<1> USE DEF StateInit
<1>1. stateFile \in State
  BY DEF State
<1>2. StateTypeOK
  BY <1>1 DEF StateTypeOK
<1>3. NoLegacyJobLost
  BY DEF NoLegacyJobLost
<1>4. MigratesAll /\ LoadedAll /\ MigratesSomething /\ OnlySettersSave
  BY DEF MigratesAll, LoadedAll, MigratesSomething, OnlySettersSave
<1> QED
  BY <1>2, <1>3, <1>4 DEF StateInv

\* A job that has a file, or had one, never looks as if it had had none.
LEMMA RecordsRemain ==
  ASSUME StateTypeOK, StateNext
  PROVE  \A j \in LegacyJob : record[j] # "none" => record'[j] # "none"
<1>1. PICK p \in Loader : LoaderStep(p)
  BY DEF StateNext
<1>2. ASSUME NEW i \in LegacyJob, LinkJob(p, i)
      PROVE  \A j \in LegacyJob : record[j] # "none" => record'[j] # "none"
  BY <1>2 DEF LinkJob, StateTypeOK
<1>3. CASE UseJob(p)
  BY <1>3 DEF UseJob, StateTypeOK
<1>4. CASE ReadState(p) \/ RewriteState(p) \/ SaveState(p) \/ ListJobs(p) \/ LoaderDies(p)
  BY <1>4 DEF ReadState, RewriteState, SaveState, ListJobs, LoaderDies
<1> QED
  BY <1>1, <1>2, <1>3, <1>4 DEF LoaderStep

\* One step per action of LoaderStep.
LEMMA StateStepPreserves == StateInv /\ [StateNext]_stateVars => StateInv'
<1> SUFFICES ASSUME StateInv, [StateNext]_stateVars PROVE StateInv'
  OBVIOUS
<1> USE DEF StateInv
<1>1. CASE UNCHANGED stateVars
  BY <1>1 DEF stateVars, StateTypeOK, NoLegacyJobLost, MigratesAll, LoadedAll,
              MigratesSomething, OnlySettersSave
<1>2. CASE StateNext
  <2>1. PICK p \in Loader : LoaderStep(p)
    BY <1>2 DEF StateNext
  <2>2. \A j \in LegacyJob : record[j] # "none" => record'[j] # "none"
    BY <1>2, RecordsRemain
  <2> USE DEF StateTypeOK
  <2>3. CASE ReadState(p)
    <3> USE <2>3 DEF ReadState
    <3>1. stateFile.jobs \subseteq LegacyJob
      BY DEF State
    <3>2. StateTypeOK'
      BY <3>1 DEF Loaded
    <3>3. \A q \in Loader : q # p => at'[q] = at[q] /\ toLink'[q] = toLink[q] /\ seen'[q] = seen[q]
      OBVIOUS
    <3>4. toLink'[p] = stateFile.jobs /\ seen'[p] = stateFile
      OBVIOUS
    <3>5. at'[p] = IF stateFile.jobs # {} THEN "migrate" ELSE Loaded(p)
      OBVIOUS
    <3>6. NoLegacyJobLost'
      BY DEF NoLegacyJobLost
    <3>7. MigratesAll' /\ MigratesSomething'
      BY <3>3, <3>4, <3>5 DEF MigratesAll, MigratesSomething, NoLegacyJobLost, Loaded
    <3>8. LoadedAll'
      BY <3>3, <3>5 DEF LoadedAll, NoLegacyJobLost, Loaded
    <3>9. OnlySettersSave'
      BY <3>3, <3>5 DEF OnlySettersSave, Loaded
    <3> QED
      BY <3>2, <3>6, <3>7, <3>8, <3>9
  <2>4. ASSUME NEW i \in LegacyJob, LinkJob(p, i) PROVE StateInv'
    <3> USE <2>4 DEF LinkJob
    <3>1. StateTypeOK'
      OBVIOUS
    <3>2. record'[i] # "none"
      BY DEF Exists
    <3>3. \A q \in Loader : \A j \in toLink[q] : j \in toLink'[q] \/ j = i
      OBVIOUS
    <3>4. MigratesAll'
      BY <2>2, <3>2, <3>3 DEF MigratesAll
    <3>5. NoLegacyJobLost' /\ LoadedAll' /\ MigratesSomething' /\ OnlySettersSave'
      BY <2>2 DEF NoLegacyJobLost, LoadedAll, MigratesSomething, OnlySettersSave
    <3> QED
      BY <3>1, <3>4, <3>5
  <2>5. CASE RewriteState(p)
    <3> USE <2>5 DEF RewriteState
    <3>1. seen[p].gate \in BOOLEAN
      BY DEF State
    <3>2. stateFile' \in State
      BY <3>1 DEF State
    <3>3. StateTypeOK'
      BY <3>2 DEF Loaded
    <3>4. \A j \in LegacyJob : record[j] # "none"
      BY DEF MigratesAll
    <3>5. \A q \in Loader : q # p => at'[q] = at[q]
      OBVIOUS
    <3>6. at'[p] = Loaded(p)
      OBVIOUS
    <3>7. NoLegacyJobLost' /\ LoadedAll' /\ MigratesAll'
      BY <3>4 DEF NoLegacyJobLost, LoadedAll, MigratesAll
    <3>8. MigratesSomething' /\ OnlySettersSave'
      BY <3>5, <3>6 DEF MigratesSomething, OnlySettersSave, Loaded
    <3> QED
      BY <3>3, <3>7, <3>8
  <2>6. CASE SaveState(p)
    <3> USE <2>6 DEF SaveState
    <3>1. stateFile' \in State
      BY DEF State
    <3>2. StateTypeOK'
      BY <3>1
    <3>3. \A j \in LegacyJob : record[j] # "none"
      BY DEF LoadedAll
    <3> QED
      BY <3>2, <3>3 DEF NoLegacyJobLost, LoadedAll, MigratesAll, MigratesSomething, OnlySettersSave
  <2>7. CASE ListJobs(p)
    BY <2>7 DEF ListJobs, NoLegacyJobLost, LoadedAll, MigratesAll, MigratesSomething, OnlySettersSave
  <2>8. CASE UseJob(p)
    <3>1. StateTypeOK'
      BY <2>8 DEF UseJob
    <3> QED
      BY <2>2, <2>8, <3>1 DEF UseJob, NoLegacyJobLost, LoadedAll, MigratesAll, MigratesSomething, OnlySettersSave
  <2>9. CASE LoaderDies(p)
    BY <2>9 DEF LoaderDies, NoLegacyJobLost, LoadedAll, MigratesAll, MigratesSomething, OnlySettersSave
  <2> QED
    BY <2>1, <2>3, <2>4, <2>5, <2>6, <2>7, <2>8, <2>9 DEF LoaderStep
<1> QED
  BY <1>1, <1>2

\* The invariant holds of every behaviour of the loaders.
THEOREM StateInvariance == StateSpec => []StateInv
BY StateInitEstablishes, StateStepPreserves, PTL DEF StateSpec

\* Whoever lists the jobs has every legacy job that was not removed, for any
\* number of loaders that come late, interleave and die anywhere.
THEOREM NothingIsLost == StateSpec => [](NoLegacyJobLost /\ ListsEveryJob)
<1>1. StateInv => NoLegacyJobLost /\ ListsEveryJob
  BY DEF StateInv, LoadedAll, ListsEveryJob, Loader
<1> QED
  BY <1>1, StateInvariance, PTL

\* A late migration never writes the old record of a job over its new one.
THEOREM UpdatesStay == StateSpec => MigrationKeepsUpdates
<1>1. StateInv /\ [StateNext]_stateVars =>
        [\A j \in LegacyJob : record[j] = "updated" => record'[j] # "legacy"]_stateVars
  <2> SUFFICES ASSUME StateInv, StateNext, NEW j \in LegacyJob, record[j] = "updated"
               PROVE  record'[j] # "legacy"
    OBVIOUS
  <2>1. PICK p \in Loader : LoaderStep(p)
    BY DEF StateNext
  <2>2. ASSUME NEW i \in LegacyJob, LinkJob(p, i) PROVE record'[j] # "legacy"
    BY <2>2 DEF LinkJob, Exists, StateInv, StateTypeOK
  <2>3. CASE UseJob(p)
    BY <2>3 DEF UseJob, StateInv, StateTypeOK
  <2>4. CASE ReadState(p) \/ RewriteState(p) \/ SaveState(p) \/ ListJobs(p) \/ LoaderDies(p)
    BY <2>4 DEF ReadState, RewriteState, SaveState, ListJobs, LoaderDies
  <2> QED
    BY <2>1, <2>2, <2>3, <2>4 DEF LoaderStep
<1> QED
  BY <1>1, StateInvariance, PTL DEF StateSpec, MigrationKeepsUpdates

\* Once state.json is migrated, nothing but setConfig changes a setting.
THEOREM SettingsRemain == StateSpec => SettingsStay
<1> DEFINE SetBySetter ==
      Migrated /\ stateFile'.gate # stateFile.gate
        => \E p \in Setter : at[p] = "save" /\ at'[p] = "end"
<1>1. StateInv /\ [StateNext]_stateVars => [SetBySetter]_stateVars
  <2> SUFFICES ASSUME StateInv, StateNext, Migrated, stateFile'.gate # stateFile.gate
               PROVE  \E p \in Setter : at[p] = "save" /\ at'[p] = "end"
    OBVIOUS
  <2>1. PICK p \in Loader : LoaderStep(p)
    BY DEF StateNext
  <2>2. CASE SaveState(p)
    BY <2>2 DEF SaveState, StateInv, OnlySettersSave, StateTypeOK
  <2>3. CASE RewriteState(p)
    BY <2>3 DEF RewriteState, StateInv, MigratesSomething, Migrated
  <2>4. CASE \/ ReadState(p) \/ (\E j \in LegacyJob : LinkJob(p, j))
             \/ ListJobs(p) \/ UseJob(p) \/ LoaderDies(p)
    BY <2>4 DEF ReadState, LinkJob, ListJobs, UseJob, LoaderDies
  <2> QED
    BY <2>1, <2>2, <2>3, <2>4 DEF LoaderStep
<1> QED
  BY <1>1, StateInvariance, PTL DEF StateSpec, SettingsStay
=============================================================================
