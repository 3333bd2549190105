SPECIFICATION ScheduledSpec
CONSTANTS
  Victim = Victim
  first = first  last = last  s1 = s1  s2 = s2
  Proc = {Victim, first, last, s1, s2}
  Nonblocking = {}
  Crashing = {}
  RetryCount = 0
  MaxFile = 3
  Prompt = TRUE
INVARIANT NoLostUpdate
CHECK_DEADLOCK FALSE
