SPECIFICATION MCFairSpec
CONSTANTS
  r1 = r1  r2 = r2  i1 = i1
  Runner = {r1, r2}
  Interrupter = {i1}
  Abrupt = {}
  Thread = {t1, t2}
  t1 = t1  t2 = t2
  Nobody = Nobody
  Subagent = Subagent
INVARIANTS TypeOK OneTurnAtATime NobodyWaitsInVain FreeWhenUnused
PROPERTIES RequestsAreAnswered TurnsEnd
CHECK_DEADLOCK FALSE
