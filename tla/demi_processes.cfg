SPECIFICATION Spec
CONSTANTS
  Pod = {p1, p2}
  Writer = {w1, w2}
  Sweeper = {s1}
  Drift <- OneAhead
  MaxDrift = 1
  Skew = 2
  MongoDelay = 1
  MaxNow = 4
  Fault = {"refuse"}
  Calm = 2
SYMMETRY Symmetry
PROPERTIES ClearCoversFlag
CHECK_DEADLOCK FALSE
