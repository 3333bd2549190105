SPECIFICATION FairSpec
CONSTANTS
  s1 = s1  s2 = s2  f1 = f1
  Root = Root
  Subagent = {s1, s2}
  Foreign = {f1}
  MaxTurns = 2
  MaxBuffer = 3
INVARIANTS TypeOK OutcomeIsTheTurns InferredAfterMainWork RunsOneTurn
PROPERTIES EndOfTurnEndsCapture DrainedTurnEnds
CHECK_DEADLOCK FALSE
