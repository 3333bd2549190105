SPECIFICATION MCSpec
CONSTANTS
  r1 = r1  r2 = r2  i1 = i1
  Runner = {r1, r2}
  Interrupter = {i1}
  Abrupt = {r1}
  Thread = {t1, t2}
  t1 = t1  t2 = t2
  Nobody = Nobody
  Subagent = Subagent
INVARIANT FreeWhenUnused
CHECK_DEADLOCK FALSE
