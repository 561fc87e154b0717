SPECIFICATION FairSpec
CONSTANTS
  Call = {c1, c2, c3}
  Concurrency = 1
  QueueMax = 1
  Attempts = 2
  ThrottleRetries = 1
INVARIANTS TypeOK SlotsAccounted NoIdleSlot RequestsBounded UnsentIsExact
PROPERTIES NoOvertaking KeepsPromise EveryCallSettles
CHECK_DEADLOCK FALSE
