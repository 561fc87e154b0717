SPECIFICATION BackSpec
CONSTANTS
  cron = cron start = start parents = parents children = children
  EventRow = {e1}
  AuditRow = {a1, a2}
  MaxRows = 2
  MaxAttempts = 2
  Pod = {p1, p2}
  Value = {v1, bad}
  Malformed = {bad}
  Bare = v0
  Nothing = Nothing
  MaxEdits = 2
  MaxTroubles = 1
  Owed = {r1, r2, r3}
  Hopeless = {r2, r3}
  Sweep = {cron, start}
  Limit <- SweepLimit
  MaxWrites = 1
  MaxLapses = 1
  Kind = {parents, children}
  Id = {1, 2}
  KindLists <- PushKinds
  Filters = {{1, 2}, {2}}
  Given = Given
  Project = parents
  Concurrencies = {1, 2}
  MaxReopens = 1
  Limits = {0, 2}
  MaxRuns = 2
  MaxChanges = 1
  NoState = NoState
  NoRun = NoRun
  Old = {o1, o2}
  New = {n1}
  Runner = {q1, q2}
  MaxFailures = 1
  Pin = {g1, g2}
  MaxPins = 3
  MaxTries = 2
  MaxPinEdits = 1
INVARIANTS RowsAccounted MigrationsHold  
PROPERTIES TurnsKept  EveryRowHasItsTurn
CHECK_DEADLOCK FALSE
