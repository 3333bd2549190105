---------------------------- MODULE MCJobLock ----------------------------
(* TLC instances of JobLock.                                              *)
EXTENDS JobLock, TLC

\* A process that died inside its critical section before the others start:
\* a state of Spec, given here as the initial one to leave the depth of the
\* search to the others.
CONSTANT Victim

AfterCrash ==
  /\ pc = [p \in Proc |-> IF p = Victim THEN "dead" ELSE "idle"]
  /\ attempts = [p \in Proc |-> 0]
  /\ snap = [p \in Proc |-> 0]
  /\ mySide = [p \in Proc |-> NoSide]
  /\ listed = [p \in Proc |-> {}]
  /\ after = [p \in Proc |-> "prune"]
  /\ since = [p \in Proc |-> 0]
  /\ lockAt = 1
  /\ sides = {}
  /\ owner = <<Victim>>
  /\ oldUpTo = 0
  /\ current = {Victim}
  /\ crowded = FALSE

AfterCrashSpec == AfterCrash /\ [][Next]_vars
AfterCrashFairSpec == AfterCrashSpec /\ \A p \in Proc : WF_state(Step(p))

\* The processes that differ in nothing but their name.
Symmetry == Permutations(Proc \ ({Victim} \cup Crashing \cup Nonblocking))
=============================================================================
