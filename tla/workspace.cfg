SPECIFICATION AllSpec
CONSTANTS
  r1 = r1  r2 = r2  i1 = i1  h1 = h1  None = None
  Runner = {r1, r2}
  Interrupter = {i1}
  Hook = {h1}
  l1 = l1  l2 = l2  s1 = s1  j1 = j1  j2 = j2
  Lister = {l1, l2}
  Setter = {s1}
  LegacyJob = {j1, j2}
  e1 = e1  d1 = d1
  Enabling = {e1}
  Disabling = {d1}
  c1 = c1  c2 = c2  u1 = u1
  Caller = {c1, c2}
  User = {u1}
  Ending = {c2}
  Count = 1
  Window = 1
  Retention = 2
  MaxRecent = 2
  MaxReview = 3
  MaxTime = 3
  w1 = w1  w2 = w2
  Writer = {w1, w2}
  MaxLines = 3
  HookLimit = 5
  TaskLimit = 5
  MaxStart = 2
INVARIANTS
  AllTypeOK SavedBrokerIsReachable FailsBehindEndedBroker
  ListsEveryJob OverrunBounded LogHasNoHoles PassesOnAllow
PROPERTIES
  KnownBrokerIsKept EveryCommandEnds SessionEndEndsBroker
  MigrationKeepsUpdates SettingsStay PruningKeepsWindow TakesOnlyWhatItChecked EveryCallReturns
CHECK_DEADLOCK FALSE
