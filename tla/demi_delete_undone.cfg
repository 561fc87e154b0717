SPECIFICATION Spec
CONSTANTS
  Pod = {p1}
  Writer = {w1, w2}
  Sweeper = {}
  Drift <- NoDrift
  MaxDrift = 0
  Skew = 1
  MongoDelay = 1
  MaxNow = 3
  Fault = {}
  Calm = 0
PROPERTIES DeleteSticks
CHECK_DEADLOCK FALSE
