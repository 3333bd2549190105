SPECIFICATION Spec
CONSTANTS
  c1 = c1  c2 = c2
  Cli = {c1, c2}
  Commands = {"status", "cancel --all-stale", "cancel --all-stale --force"}
  Crashing = {c1, c2}
  Sites <- EverySite
SYMMETRY Symmetry
INVARIANTS
  TypeOK NoLiveWorkerFailed TagEndsWithJob
  OnlyTheWorkerIsSignalled CancelledWorkerStops
PROPERTY FollowsLifecycle
CHECK_DEADLOCK FALSE
