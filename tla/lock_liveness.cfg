SPECIFICATION AfterCrashFairSpec
CONSTANTS
  p1 = p1  p2 = p2  p3 = p3  p4 = p4
  Proc = {p1, p2, p3}
  Nonblocking = {p3}
  Crashing = {p2, p3}
  RetryCount = 1
  MaxFile = 4
  Prompt = TRUE
  Victim = p1
PROPERTIES CallsEnd NeverWedged
CHECK_DEADLOCK FALSE
