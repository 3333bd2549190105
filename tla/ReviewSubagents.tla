-------------------------- MODULE ReviewSubagents --------------------------
(***************************************************************************)
(* review-subagents.mjs: setup writes the two agent files from templates,    *)
(* each through a temporary file and a rename, or removes them.  Files that  *)
(* are not marked as its own it leaves alone, and it looks again before each *)
(* change, because sessions share the directory with each other, with the    *)
(* user and with updates of the plugin.  Nothing is locked, every call of    *)
(* the file system is a step, and a setup may die in between.                *)
(***************************************************************************)
EXTENDS Naturals

CONSTANTS
  Enabling,   \* setups with --enable-review-subagents
  Disabling   \* setups with --disable-review-subagents

Setup == Enabling \cup Disabling

ASSUME SetupAssumption ==
  /\ Enabling \cap Disabling = {}
  /\ {"none", "user", "older"} \cap Setup = {}

Agent == 1 .. 2

VARIABLES
  place,      \* where each setup is
  agent,      \* the agent it is at
  expected,   \* the directory it has seen (inodeSnapshot)
  found,      \* the files it has found
  temp,       \* whether its temporary file is in the directory
  agentsDir,  \* which directory agents/ is
  agentFile,  \* the file of each agent
  late        \* the setups whose last look at that path was before that file

agentVars == <<place, agent, expected, found, temp, agentsDir, agentFile, late>>

\* A file is named by the setup that wrote it; "older" is from before, and
\* "user" stands for what is unmarked, no regular file, or a symbolic link.
File == Setup \cup {"none", "user", "older"}

AgentInit ==
  /\ place = [p \in Setup |-> "start"]
  /\ agent = [p \in Setup |-> 1]
  /\ expected = [p \in Setup |-> 1]
  /\ found = [p \in Setup |-> [a \in Agent |-> "none"]]
  /\ temp = [p \in Setup |-> FALSE]
  /\ agentsDir = 1
  /\ agentFile \in [Agent -> {"none", "older"}]
  /\ late = [a \in Agent |-> {}]

GoOn(p, next) == place' = [place EXCEPT ![p] = next] /\ UNCHANGED agent

\* The loop over the agents: the second one is next, or what follows the loop.
NextAgent(p, again, after) ==
  IF agent[p] = 1
  THEN place' = [place EXCEPT ![p] = again] /\ agent' = [agent EXCEPT ![p] = 2]
  ELSE place' = [place EXCEPT ![p] = after] /\ agent' = [agent EXCEPT ![p] = 1]

\* What is at the path changes; it is late for whoever has looked already.
Looked(p, a) == agent[p] = a /\ place[p] \in {"identity", "rename", "unlink"}
Becomes(a, file) ==
  /\ agentFile' = [agentFile EXCEPT ![a] = file]
  /\ late' = [late EXCEPT ![a] = {p \in Setup : Looked(p, a)}]

-----------------------------------------------------------------------------
(* Both: the directory, and a first look at the files *)

Begin(p) ==
  /\ place[p] = "start"
  /\ expected' = [expected EXCEPT ![p] = agentsDir]
  /\ GoOn(p, "inspect")
  /\ UNCHANGED <<found, temp, agentsDir, agentFile, late>>

\* assertManagedRegularTarget
Inspect(p) ==
  /\ place[p] = "inspect"
  /\ found' = [found EXCEPT ![p][agent[p]] = agentFile[agent[p]]]
  /\ IF agentFile[agent[p]] = "user"
     THEN GoOn(p, "refused")
     ELSE NextAgent(p, "inspect", IF p \in Enabling THEN "snapshot" ELSE "recheck")
  /\ UNCHANGED <<expected, temp, agentsDir, agentFile, late>>

\* assertAgentsDirIdentity
Identify(p) ==
  /\ place[p] = "identity"
  /\ \/ agentsDir # expected[p] /\ GoOn(p, "refused")
     \/ agentsDir = expected[p] /\ GoOn(p, IF p \in Enabling THEN "rename" ELSE "unlink")
  /\ temp' = [temp EXCEPT ![p] = @ /\ agentsDir = expected[p]]
  /\ UNCHANGED <<expected, found, agentsDir, agentFile, late>>

-----------------------------------------------------------------------------
(* atomicWriteFile *)

Snapshot(p) ==
  /\ place[p] = "snapshot"
  /\ expected' = [expected EXCEPT ![p] = agentsDir]
  /\ GoOn(p, "write")
  /\ UNCHANGED <<found, temp, agentsDir, agentFile, late>>

WriteTemp(p) ==
  /\ place[p] = "write"
  /\ temp' = [temp EXCEPT ![p] = TRUE]
  /\ GoOn(p, "check")
  /\ UNCHANGED <<expected, found, agentsDir, agentFile, late>>

\* The temporary file is looked at first; a refusal removes it.
CheckTemp(p) ==
  /\ place[p] = "check"
  /\ GoOn(p, IF temp[p] THEN "identity" ELSE "refused")
  /\ UNCHANGED <<expected, found, temp, agentsDir, agentFile, late>>
CheckAgain(p) ==
  LET sound == temp[p] /\ agentFile[agent[p]] # "user" IN
  /\ place[p] = "check"
  /\ GoOn(p, IF sound THEN "identity" ELSE "refused")
  /\ temp' = [temp EXCEPT ![p] = sound]
  /\ UNCHANGED <<expected, found, agentsDir, agentFile, late>>

Rename(p) ==
  /\ place[p] = "rename"
  /\ IF temp[p]
     THEN Becomes(agent[p], p) /\ GoOn(p, "verify")
     ELSE GoOn(p, "refused") /\ UNCHANGED <<agentFile, late>>
  /\ temp' = [temp EXCEPT ![p] = FALSE]
  /\ UNCHANGED <<expected, found, agentsDir>>

\* The inode at the path must be the one that was renamed.
VerifyRename(p) ==
  /\ place[p] = "verify"
  /\ IF agentFile[agent[p]] = p
     THEN NextAgent(p, "snapshot", "done")
     ELSE GoOn(p, "refused")
  /\ UNCHANGED <<expected, found, temp, agentsDir, agentFile, late>>

-----------------------------------------------------------------------------
(* removeReviewSubagents *)

\* A file that was not there, or is gone, is no reason to refuse.
Recheck(p) ==
  LET before == found[p][agent[p]]
      now == agentFile[agent[p]]
  IN /\ place[p] = "recheck"
     /\ \/ "none" \in {before, now} /\ NextAgent(p, "recheck", "done")
        \/ before = now /\ now # "none" /\ GoOn(p, "identity")
        \/ before # now /\ "none" \notin {before, now} /\ GoOn(p, "refused")
     /\ UNCHANGED <<expected, found, temp, agentsDir, agentFile, late>>

Unlink(p) ==
  /\ place[p] = "unlink"
  /\ IF agentFile[agent[p]] = "none"
     THEN GoOn(p, "refused") /\ UNCHANGED <<agentFile, late>>
     ELSE Becomes(agent[p], "none") /\ NextAgent(p, "recheck", "done")
  /\ UNCHANGED <<expected, found, temp, agentsDir>>

-----------------------------------------------------------------------------

SetupDies(p) ==
  /\ place[p] \notin {"done", "refused", "dead"}
  /\ GoOn(p, "dead")
  /\ UNCHANGED <<expected, found, temp, agentsDir, agentFile, late>>

\* External: the user writes or removes an agent file.
UserActs(a) ==
  /\ \E file \in {"none", "user"} : file # agentFile[a] /\ Becomes(a, file)
  /\ UNCHANGED <<place, agent, expected, found, temp, agentsDir>>

\* External, once: the plugin is installed anew.
Reinstall ==
  /\ agentsDir = 1 /\ agentsDir' = 2
  /\ agentFile' = [a \in Agent |-> "none"]
  /\ late' = [a \in Agent |-> {}]
  /\ temp' = [p \in Setup |-> FALSE]
  /\ UNCHANGED <<place, agent, expected, found>>

AgentNext ==
  \/ \E p \in Setup : Begin(p) \/ Inspect(p) \/ Identify(p) \/ SetupDies(p)
  \/ \E p \in Enabling :
       Snapshot(p) \/ WriteTemp(p) \/ CheckAgain(p) \/ Rename(p) \/ VerifyRename(p)
  \/ \E p \in Disabling : Recheck(p) \/ Unlink(p)
  \/ \E a \in Agent : UserActs(a)
  \/ Reinstall

AgentSpec == AgentInit /\ [][AgentNext]_agentVars

-----------------------------------------------------------------------------

AgentTypeOK ==
  /\ place \in [Setup -> {"start", "inspect", "snapshot", "write", "check", "identity",
                          "rename", "verify", "recheck", "unlink", "done", "refused", "dead"}]
  /\ agent \in [Setup -> Agent]
  /\ expected \in [Setup -> 1 .. 2]
  /\ found \in [Setup -> [Agent -> File]]
  /\ temp \in [Setup -> BOOLEAN]
  /\ agentsDir \in 1 .. 2
  /\ agentFile \in [Agent -> File]
  /\ late \in [Agent -> SUBSET Setup]

\* Whatever the user, the other setups and an update do meanwhile, a setup
\* replaces no file of the user's, and removes no file but the one it has
\* found.  The exception is the one the code documents ("a tiny TOCTOU
\* window"): a file that came after its last look at that path.
TakesOnlyWhatItChecked ==
  [][\A p \in Setup, a \in Agent :
       place'[p] # place[p] /\ agentFile'[a] # agentFile[a] /\ p \notin late[a] =>
         IF p \in Enabling THEN agentFile[a] # "user" ELSE agentFile[a] = found[p][a]]_agentVars
=============================================================================
