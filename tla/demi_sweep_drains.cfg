SPECIFICATION FairSpec
CONSTANTS
  Pod = {p1}
  Writer = {w1}
  Sweeper = {s1}
  Drift <- NoDrift
  MaxDrift = 0
  Skew = 1
  MongoDelay = 1
  MaxNow = 4
  Fault = {"refuse", "late", "reread", "deadline", "record", "abandon", "crash"}
  Calm = 2
PROPERTIES OwedIsSettled Converges
CHECK_DEADLOCK FALSE
