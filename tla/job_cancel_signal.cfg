SPECIFICATION Spec
CONSTANTS
  c1 = c1  c2 = c2
  Cli = {c1}
  Commands = {"cancel"}
  Crashing = {}
  Sites <- VerifiableSites
INVARIANT OnlyTheWorkerIsSignalled
CHECK_DEADLOCK FALSE
