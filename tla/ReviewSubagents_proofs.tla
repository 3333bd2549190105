----------------------- MODULE ReviewSubagents_proofs -----------------------
(***************************************************************************)
(* TakesOnlyWhatItChecked for any number of setups: between its last look at *)
(* a path and its change, a setup is late or the file there is as it saw it. *)
(***************************************************************************)
EXTENDS ReviewSubagents, TLAPS

\* A setup about to change a path that is not late knows what is there: an
\* enabling one, that it is not the user's; a disabling one, that it is the
\* file it found, unless the whole directory is a new one.
LookHolds(p) ==
  Looked(p, agent[p]) /\ p \notin late[agent[p]] =>
    IF p \in Enabling
    THEN agentFile[agent[p]] # "user"
    ELSE agentFile[agent[p]] \in {"none", found[p][agent[p]]}

AgentInv == AgentTypeOK /\ \A p \in Setup : LookHolds(p)

-----------------------------------------------------------------------------

\* AgentInit: nobody has looked at anything.
LEMMA AgentsBegin == AgentInit => AgentInv
BY SetupAssumption DEF AgentInit, AgentInv, AgentTypeOK, LookHolds, Looked, File, Agent

\* GoOn and NextAgent keep the types of where a setup is.
LEMMA NextAgentTyped ==
  ASSUME AgentTypeOK, NEW p \in Setup, NEW again, NEW after, NextAgent(p, again, after)
  PROVE  /\ agent' \in [Setup -> Agent]
         /\ place' \in {[place EXCEPT ![p] = again], [place EXCEPT ![p] = after]}
         /\ \A q \in Setup \ {p} : place'[q] = place[q] /\ agent'[q] = agent[q]
BY DEF AgentTypeOK, NextAgent, Agent

\* Becomes: whoever had looked at the path is late now, and the other path is
\* as it was.
LEMMA BecomesLate ==
  ASSUME AgentTypeOK, NEW a \in Agent, NEW file \in File, Becomes(a, file)
  PROVE  /\ agentFile' \in [Agent -> File]
         /\ late' \in [Agent -> SUBSET Setup]
         /\ agentFile'[a] = file
         /\ \A q \in Setup : q \in late'[a] <=> Looked(q, a)
         /\ \A b \in Agent \ {a} : agentFile'[b] = agentFile[b] /\ late'[b] = late[b]
BY DEF AgentTypeOK, Becomes

\* A setup whose place, agent and finds stay is still late or right after
\* somebody else's change of a path.
LEMMA OtherLookHolds ==
  ASSUME AgentInv, NEW q \in Setup,
         place'[q] = place[q], agent'[q] = agent[q], found'[q] = found[q],
         \/ UNCHANGED <<agentFile, late>>
         \/ \E a \in Agent, file \in File : Becomes(a, file)
  PROVE  LookHolds(q)'
<1>1. CASE UNCHANGED <<agentFile, late>>
  BY <1>1 DEF AgentInv, LookHolds, Looked
<1>2. CASE \E a \in Agent, file \in File : Becomes(a, file)
  <2>1. PICK a \in Agent, file \in File : Becomes(a, file)
    BY <1>2
  <2>2. agent[q] \in Agent
    BY DEF AgentInv, AgentTypeOK
  <2>3. CASE agent[q] = a
    BY <2>1, <2>3, BecomesLate DEF AgentInv, LookHolds, Looked
  <2>4. CASE agent[q] # a
    <3>1. agentFile'[agent[q]] = agentFile[agent[q]] /\ late'[agent[q]] = late[agent[q]]
      BY <2>1, <2>2, <2>4, BecomesLate DEF AgentInv
    <3> QED
      BY <3>1 DEF AgentInv, LookHolds, Looked
  <2> QED
    BY <2>3, <2>4
<1> QED
  BY <1>1, <1>2

\* A setup's step keeps the invariant if it keeps the types and its own look.
LEMMA OwnStep ==
  ASSUME AgentInv, NEW p \in Setup, AgentTypeOK', LookHolds(p)',
         \A q \in Setup \ {p} :
           place'[q] = place[q] /\ agent'[q] = agent[q] /\ found'[q] = found[q],
         \/ UNCHANGED <<agentFile, late>>
         \/ \E a \in Agent, file \in File : Becomes(a, file)
  PROVE  AgentInv'
<1> SUFFICES ASSUME NEW q \in Setup \ {p}
             PROVE  LookHolds(q)'
  BY DEF AgentInv
<1> QED
  BY OtherLookHolds

-----------------------------------------------------------------------------
(* The steps of a setup *)

\* The first looks, and what an enabling setup does before it looks again.
LEMMA EarlyStepsPreserve ==
  ASSUME AgentInv, NEW p \in Setup,
         Begin(p) \/ Inspect(p) \/ Snapshot(p) \/ WriteTemp(p) \/ SetupDies(p)
  PROVE  AgentInv'
<1> USE DEF AgentInv
<1>1. CASE Begin(p)
  <2>1. AgentTypeOK' BY <1>1 DEF Begin, GoOn, AgentTypeOK
  <2>2. LookHolds(p)' BY <1>1 DEF Begin, GoOn, AgentTypeOK, LookHolds, Looked
  <2> QED BY <1>1, <2>1, <2>2, OwnStep DEF Begin, GoOn, AgentTypeOK
<1>2. CASE Inspect(p)
  <2>1. CASE agentFile[agent[p]] = "user"
    <3>1. AgentTypeOK' BY <1>2, <2>1 DEF Inspect, GoOn, AgentTypeOK
    <3>2. LookHolds(p)' BY <1>2, <2>1 DEF Inspect, GoOn, AgentTypeOK, LookHolds, Looked
    <3> QED BY <1>2, <2>1, <3>1, <3>2, OwnStep DEF Inspect, GoOn, AgentTypeOK
  <2>2. CASE agentFile[agent[p]] # "user"
    <3> DEFINE after == IF p \in Enabling THEN "snapshot" ELSE "recheck"
    <3>1. NextAgent(p, "inspect", after)
      BY <1>2, <2>2 DEF Inspect
    <3>2. /\ agent' \in [Setup -> Agent]
          /\ place' \in {[place EXCEPT ![p] = "inspect"], [place EXCEPT ![p] = after]}
          /\ \A q \in Setup \ {p} : place'[q] = place[q] /\ agent'[q] = agent[q]
      BY <3>1, NextAgentTyped
    <3>3. AgentTypeOK' BY <1>2, <3>2 DEF Inspect, AgentTypeOK
    <3>4. LookHolds(p)' BY <1>2, <3>2 DEF Inspect, AgentTypeOK, LookHolds, Looked
    <3> QED BY <1>2, <3>2, <3>3, <3>4, OwnStep DEF Inspect, AgentTypeOK
  <2> QED BY <2>1, <2>2
<1>3. CASE Snapshot(p)
  <2>1. AgentTypeOK' BY <1>3 DEF Snapshot, GoOn, AgentTypeOK
  <2>2. LookHolds(p)' BY <1>3 DEF Snapshot, GoOn, AgentTypeOK, LookHolds, Looked
  <2> QED BY <1>3, <2>1, <2>2, OwnStep DEF Snapshot, GoOn, AgentTypeOK
<1>4. CASE WriteTemp(p)
  <2>1. AgentTypeOK' BY <1>4 DEF WriteTemp, GoOn, AgentTypeOK
  <2>2. LookHolds(p)' BY <1>4 DEF WriteTemp, GoOn, AgentTypeOK, LookHolds, Looked
  <2> QED BY <1>4, <2>1, <2>2, OwnStep DEF WriteTemp, GoOn, AgentTypeOK
<1>5. CASE SetupDies(p)
  <2>1. AgentTypeOK' BY <1>5 DEF SetupDies, GoOn, AgentTypeOK
  <2>2. LookHolds(p)' BY <1>5 DEF SetupDies, GoOn, AgentTypeOK, LookHolds, Looked
  <2> QED BY <1>5, <2>1, <2>2, OwnStep DEF SetupDies, GoOn, AgentTypeOK
<1> QED
  BY <1>1, <1>2, <1>3, <1>4, <1>5

\* The looks just before a change, and the one after a rename.
LEMMA LooksPreserve ==
  ASSUME AgentInv, NEW p \in Setup, CheckAgain(p) \/ Recheck(p) \/ Identify(p) \/ VerifyRename(p),
         CheckAgain(p) \/ VerifyRename(p) => p \in Enabling, Recheck(p) => p \in Disabling
  PROVE  AgentInv'
<1> USE DEF AgentInv
<1>1. CASE CheckAgain(p)
  <2>1. AgentTypeOK' BY <1>1 DEF CheckAgain, GoOn, AgentTypeOK
  <2>2. LookHolds(p)' BY <1>1 DEF CheckAgain, GoOn, AgentTypeOK, LookHolds, Looked
  <2> QED BY <1>1, <2>1, <2>2, OwnStep DEF CheckAgain, GoOn, AgentTypeOK
<1>2. CASE Recheck(p)
  <2>1. CASE NextAgent(p, "recheck", "done")
    <3>1. /\ agent' \in [Setup -> Agent]
          /\ place' \in {[place EXCEPT ![p] = "recheck"], [place EXCEPT ![p] = "done"]}
          /\ \A q \in Setup \ {p} : place'[q] = place[q] /\ agent'[q] = agent[q]
      BY <2>1, NextAgentTyped
    <3>2. AgentTypeOK' BY <1>2, <3>1 DEF Recheck, AgentTypeOK
    <3>3. LookHolds(p)' BY <1>2, <3>1 DEF Recheck, AgentTypeOK, LookHolds, Looked
    <3> QED BY <1>2, <3>1, <3>2, <3>3, OwnStep DEF Recheck, AgentTypeOK
  <2>2. CASE GoOn(p, "identity") /\ agentFile[agent[p]] = found[p][agent[p]]
    <3>1. AgentTypeOK' BY <1>2, <2>2 DEF Recheck, GoOn, AgentTypeOK
    <3>2. LookHolds(p)'
      BY <1>2, <2>2, SetupAssumption DEF Recheck, GoOn, AgentTypeOK, LookHolds, Looked
    <3> QED BY <1>2, <2>2, <3>1, <3>2, OwnStep DEF Recheck, GoOn, AgentTypeOK
  <2>3. CASE GoOn(p, "refused")
    <3>1. AgentTypeOK' BY <1>2, <2>3 DEF Recheck, GoOn, AgentTypeOK
    <3>2. LookHolds(p)' BY <1>2, <2>3 DEF Recheck, GoOn, AgentTypeOK, LookHolds, Looked
    <3> QED BY <1>2, <2>3, <3>1, <3>2, OwnStep DEF Recheck, GoOn, AgentTypeOK
  <2> QED BY <1>2, <2>1, <2>2, <2>3 DEF Recheck
<1>3. CASE Identify(p)
  <2>1. PICK next \in {"refused", "rename", "unlink"} : GoOn(p, next)
    BY <1>3 DEF Identify
  <2>2. AgentTypeOK' BY <1>3, <2>1 DEF Identify, GoOn, AgentTypeOK
  <2>3. LookHolds(p)' BY <1>3, <2>1 DEF Identify, GoOn, AgentTypeOK, LookHolds, Looked
  <2> QED BY <1>3, <2>1, <2>2, <2>3, OwnStep DEF Identify, GoOn, AgentTypeOK
<1>4. CASE VerifyRename(p)
  <2>1. CASE NextAgent(p, "snapshot", "done")
    <3>1. /\ agent' \in [Setup -> Agent]
          /\ place' \in {[place EXCEPT ![p] = "snapshot"], [place EXCEPT ![p] = "done"]}
          /\ \A q \in Setup \ {p} : place'[q] = place[q] /\ agent'[q] = agent[q]
      BY <2>1, NextAgentTyped
    <3>2. AgentTypeOK' BY <1>4, <3>1 DEF VerifyRename, AgentTypeOK
    <3>3. LookHolds(p)' BY <1>4, <3>1 DEF VerifyRename, AgentTypeOK, LookHolds, Looked
    <3> QED BY <1>4, <3>1, <3>2, <3>3, OwnStep DEF VerifyRename, AgentTypeOK
  <2>2. CASE GoOn(p, "refused")
    <3>1. AgentTypeOK' BY <1>4, <2>2 DEF VerifyRename, GoOn, AgentTypeOK
    <3>2. LookHolds(p)' BY <1>4, <2>2 DEF VerifyRename, GoOn, AgentTypeOK, LookHolds, Looked
    <3> QED BY <1>4, <2>2, <3>1, <3>2, OwnStep DEF VerifyRename, GoOn, AgentTypeOK
  <2> QED BY <1>4, <2>1, <2>2 DEF VerifyRename
<1> QED
  BY <1>1, <1>2, <1>3, <1>4

\* The changes: whoever had looked at the path is late for the new file.
LEMMA ChangesPreserve ==
  ASSUME AgentInv, NEW p \in Setup, Rename(p) \/ Unlink(p)
  PROVE  AgentInv'
<1> USE DEF AgentInv
<1>0. agent[p] \in Agent /\ p \in File /\ "none" \in File
  BY DEF AgentTypeOK, File
<1>1. CASE GoOn(p, "refused") /\ UNCHANGED <<agentFile, late>>
  <2>1. AgentTypeOK' BY <1>1 DEF Rename, Unlink, GoOn, AgentTypeOK
  <2>2. LookHolds(p)' BY <1>1 DEF GoOn, AgentTypeOK, LookHolds, Looked
  <2> QED BY <1>1, <2>1, <2>2, OwnStep DEF Rename, Unlink, GoOn, AgentTypeOK
<1>2. CASE Rename(p) /\ Becomes(agent[p], p) /\ GoOn(p, "verify")
  <2>1. agentFile' \in [Agent -> File] /\ late' \in [Agent -> SUBSET Setup]
    BY <1>0, <1>2, BecomesLate
  <2>2. AgentTypeOK' BY <1>2, <2>1 DEF Rename, GoOn, AgentTypeOK
  <2>3. LookHolds(p)' BY <1>2 DEF GoOn, AgentTypeOK, LookHolds, Looked
  <2> QED BY <1>0, <1>2, <2>2, <2>3, OwnStep DEF Rename, GoOn, AgentTypeOK
<1>3. CASE Unlink(p) /\ Becomes(agent[p], "none") /\ NextAgent(p, "recheck", "done")
  <2>1. agentFile' \in [Agent -> File] /\ late' \in [Agent -> SUBSET Setup]
    BY <1>0, <1>3, BecomesLate
  <2>2. /\ agent' \in [Setup -> Agent]
        /\ place' \in {[place EXCEPT ![p] = "recheck"], [place EXCEPT ![p] = "done"]}
        /\ \A q \in Setup \ {p} : place'[q] = place[q] /\ agent'[q] = agent[q]
    BY <1>3, NextAgentTyped
  <2>3. AgentTypeOK' BY <1>3, <2>1, <2>2 DEF Unlink, AgentTypeOK
  <2>4. LookHolds(p)' BY <2>2 DEF AgentTypeOK, LookHolds, Looked
  <2> QED BY <1>0, <1>3, <2>2, <2>3, <2>4, OwnStep DEF Unlink, AgentTypeOK
<1> QED
  BY <1>1, <1>2, <1>3 DEF Rename, Unlink

\* The user and an update of the plugin.
LEMMA OthersPreserve ==
  ASSUME AgentInv, (\E a \in Agent : UserActs(a)) \/ Reinstall
  PROVE  AgentInv'
<1> USE DEF AgentInv
<1>1. CASE \E a \in Agent : UserActs(a)
  <2>1. PICK a \in Agent, file \in File : UserActs(a) /\ Becomes(a, file)
    BY <1>1 DEF UserActs, File
  <2>2. AgentTypeOK' BY <2>1, BecomesLate DEF UserActs, AgentTypeOK
  <2>3. \A q \in Setup : LookHolds(q)' BY <2>1, OtherLookHolds DEF UserActs
  <2> QED BY <2>2, <2>3
<1>2. CASE Reinstall
  <2>1. AgentTypeOK' BY <1>2 DEF Reinstall, AgentTypeOK, File
  <2>2. \A q \in Setup : LookHolds(q)' BY <1>2 DEF Reinstall, AgentTypeOK, LookHolds, Looked
  <2> QED BY <2>1, <2>2
<1> QED
  BY <1>1, <1>2

-----------------------------------------------------------------------------

\* The invariant holds in every behaviour.
THEOREM AgentInvariance == AgentSpec => []AgentInv
<1>1. AgentInv /\ [AgentNext]_agentVars => AgentInv'
  <2> SUFFICES ASSUME AgentInv, [AgentNext]_agentVars PROVE AgentInv'
    OBVIOUS
  <2>1. CASE \E p \in Setup : Begin(p) \/ Inspect(p) \/ Identify(p) \/ SetupDies(p)
    <3>1. PICK p \in Setup : Begin(p) \/ Inspect(p) \/ Identify(p) \/ SetupDies(p)
      BY <2>1
    <3>2. CASE Identify(p)
      <4>1. ~CheckAgain(p) /\ ~VerifyRename(p) /\ ~Recheck(p)
        BY <3>2 DEF Identify, CheckAgain, VerifyRename, Recheck
      <4> QED BY <3>2, <4>1, LooksPreserve
    <3> QED BY <3>1, <3>2, EarlyStepsPreserve
  <2>2. CASE \E p \in Enabling :
               Snapshot(p) \/ WriteTemp(p) \/ CheckAgain(p) \/ Rename(p) \/ VerifyRename(p)
    <3>1. PICK p \in Enabling :
               Snapshot(p) \/ WriteTemp(p) \/ CheckAgain(p) \/ Rename(p) \/ VerifyRename(p)
      BY <2>2
    <3>2. p \in Setup BY DEF Setup
    <3>3. CASE CheckAgain(p) \/ VerifyRename(p)
      <4>1. ~Recheck(p) BY <3>3 DEF CheckAgain, VerifyRename, Recheck
      <4> QED BY <3>2, <3>3, <4>1, LooksPreserve
    <3> QED BY <3>1, <3>2, <3>3, EarlyStepsPreserve, ChangesPreserve
  <2>3. CASE \E p \in Disabling : Recheck(p) \/ Unlink(p)
    <3>1. PICK p \in Disabling : Recheck(p) \/ Unlink(p)
      BY <2>3
    <3>2. p \in Setup BY DEF Setup
    <3>3. CASE Recheck(p)
      <4>1. ~CheckAgain(p) /\ ~VerifyRename(p) BY <3>3 DEF CheckAgain, VerifyRename, Recheck
      <4> QED BY <3>2, <3>3, <4>1, LooksPreserve
    <3> QED BY <3>1, <3>2, <3>3, ChangesPreserve
  <2>4. CASE (\E a \in Agent : UserActs(a)) \/ Reinstall
    BY <2>4, OthersPreserve
  <2>5. CASE UNCHANGED agentVars
    BY <2>5 DEF agentVars, AgentInv, AgentTypeOK, LookHolds, Looked
  <2> QED
    BY <2>1, <2>2, <2>3, <2>4, <2>5 DEF AgentNext
<1> QED
  BY <1>1, AgentsBegin, PTL DEF AgentSpec

\* A setup replaces no file of the user's and removes none but the one it has
\* found, except one that came after its last look.
THEOREM TakesWhatItChecked == AgentSpec => TakesOnlyWhatItChecked
<1> DEFINE Checked ==
      \A p \in Setup, a \in Agent :
        place'[p] # place[p] /\ agentFile'[a] # agentFile[a] /\ p \notin late[a] =>
          IF p \in Enabling THEN agentFile[a] # "user" ELSE agentFile[a] = found[p][a]
<1>1. AgentInv /\ [AgentNext]_agentVars => [Checked]_agentVars
  <2> SUFFICES ASSUME AgentInv, AgentNext, NEW p \in Setup, NEW a \in Agent,
                      place'[p] # place[p], agentFile'[a] # agentFile[a], p \notin late[a]
               PROVE  IF p \in Enabling THEN agentFile[a] # "user" ELSE agentFile[a] = found[p][a]
    BY DEF agentVars
  <2>1. AgentTypeOK /\ LookHolds(p)
    BY DEF AgentInv
  <2>2. PICK q \in Setup : \/ q \in Enabling /\ Rename(q) /\ Becomes(agent[q], q)
                           \/ Unlink(q) /\ Becomes(agent[q], "none")
    BY DEF AgentNext, Begin, Inspect, Identify, SetupDies, Snapshot, WriteTemp, CheckAgain,
           Rename, VerifyRename, Recheck, Unlink, UserActs, Reinstall, Setup
  <2>3. p = q
    BY <2>1, <2>2, NextAgentTyped DEF Rename, Unlink, GoOn, AgentTypeOK
  <2>4. a = agent[p]
    BY <2>1, <2>2, <2>3, BecomesLate DEF AgentTypeOK, File
  <2>5. Looked(p, a)
    BY <2>2, <2>3, <2>4 DEF Rename, Unlink, Looked
  <2>6. CASE p \in Enabling
    BY <2>1, <2>4, <2>5, <2>6 DEF LookHolds
  <2>7. CASE p \notin Enabling
    <3>1. agentFile[a] \in {"none", found[p][a]}
      BY <2>1, <2>4, <2>5, <2>7 DEF LookHolds
    <3>2. Unlink(p) /\ Becomes(agent[p], "none")
      BY <2>2, <2>3, <2>7
    <3>3. agentFile'[a] = "none"
      BY <2>1, <2>4, <3>2 DEF Becomes, AgentTypeOK
    <3> QED BY <2>7, <3>1, <3>3
  <2> QED
    BY <2>6, <2>7
<1> QED
  BY <1>1, AgentInvariance, PTL DEF AgentSpec, TakesOnlyWhatItChecked
=============================================================================
