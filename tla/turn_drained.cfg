SPECIFICATION Spec
CONSTANTS
  s1 = s1  s2 = s2  f1 = f1
  Root = Root
  Subagent = {s1}
  Foreign = {}
  MaxTurns = 2
  MaxBuffer = 0
PROPERTY InferredWhenDrained
CHECK_DEADLOCK FALSE
