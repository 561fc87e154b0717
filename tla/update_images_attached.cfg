SPECIFICATION Spec
CONSTANTS
  own = own foreign = foreign here = here there = there
  Request = {r1, r2}
  Update = {u1, u2}
  Image = {own, foreign}
  Project <- Projects
  Content <- Contents
  Fault = {}
SYMMETRY Symmetry
INVARIANT PublicOnlyWhileShown
CHECK_DEADLOCK FALSE
