SPECIFICATION FairSpec
CONSTANTS
  c1 = c1  c2 = c2
  Cli = {c1, c2}
  Commands = {"status", "cancel --force"}
  Crashing = {c2}
  Sites <- DetachedSites
PROPERTIES DeadJobSettles QueuedJobSettles
CHECK_DEADLOCK FALSE
