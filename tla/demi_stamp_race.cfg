SPECIFICATION Spec
CONSTANTS
  Pod = {p1, p2}
  Writer = {w1, w2}
  Sweeper = {}
  Drift <- NoDrift
  MaxDrift = 0
  Skew = 1
  MongoDelay = 1
  MaxNow = 3
  Fault = {}
  Calm = 0
PROPERTIES NewerStampIsNewerBody
CHECK_DEADLOCK FALSE
