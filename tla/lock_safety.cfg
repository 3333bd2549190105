SPECIFICATION AfterCrashSpec
CONSTANTS
  p1 = p1  p2 = p2  p3 = p3  p4 = p4
  Proc = {p1, p2, p3, p4}
  Nonblocking = {}
  Crashing = {}
  RetryCount = 0
  MaxFile = 4
  Prompt = TRUE
  Victim = p1
SYMMETRY Symmetry
INVARIANTS TypeOK SectionsExclude
PROPERTY StealsOnlyStale
CHECK_DEADLOCK FALSE
