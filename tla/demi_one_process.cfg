SPECIFICATION Spec
CONSTANTS
  Pod = {p1}
  Writer = {w1, w2}
  Sweeper = {s1}
  Drift <- NoDrift
  MaxDrift = 0
  Skew = 1
  MongoDelay = 1
  MaxNow = 3
  Fault = {"refuse", "late", "reread", "deadline", "record", "abandon", "crash"}
  Calm = 2
SYMMETRY Symmetry
INVARIANTS TypeOK MirroredOrOwed MirroredReplyIsTrue
PROPERTIES NewestIsKept KeepsMirrorPromise
CHECK_DEADLOCK FALSE
