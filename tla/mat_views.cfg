SPECIFICATION Spec
CONSTANTS
  a1 = a1 a2 = a2 a3 = a3 k1 = k1 k2 = k2 cold = cold
  Job = {j1, j2}
  LockId = {cold}
  LockOf <- Cold
  Plan <- CountingPlan
  Audit = {a1, a2, a3}
  Key = {k1, k2}
  KeyOf <- FirstOther
  Stale = 2
  MaxRun = 1
  Days = 1
  SaveDelay = 1
  MaxNow = 3
  Fault = {"view", "release", "crash"}
SYMMETRY Symmetry
INVARIANTS OneJobPerLock StatusIsTrue NoneCountedTwice 
CHECK_DEADLOCK FALSE
