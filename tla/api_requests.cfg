SPECIFICATION ApiSpec
CONSTANTS
  Request = {1, 2, 3}
  FewRequests = 2
  Doc = {d1, d2}
  File = {f1, f2}
  Deposit = {x1}
  FeatureLimit = 1
  Prefix = p
  NoDoc = NoDoc
  Act = {a, b, l}
  Locked = {l}
  Extension = {e1, e2}
  NoAct = NoAct
  NoProject = NoProject
  Period = {cp1}
  Comment = {1, 2}
  Sent = {1, 2}
  MaxEra = 1
  NoPeriod = NoPeriod
  NoComment = NoComment
  Org = {o1}
  User = {u}
  Name = {eao, other}
  Eao = eao
  Member = {m1, m2}
  Email = {e}
  None = None
  Rename = {r1}
  Put = {w1}
  Person = {u1, u2}
  Nobody = Nobody
  MaxFaults = 2
  Item = {1, 2}
  Label = {1, 2}
  PageSize = 1
  LastPage = 1
  MaxWrites = 2
INVARIANTS FilesMatchRows  ChecksHold ProjectHolds NumbersUnique  DirectoryAgrees UsersMirroredOrOwed  PagesPartition
PROPERTY LockedActKept
CHECK_DEADLOCK FALSE
