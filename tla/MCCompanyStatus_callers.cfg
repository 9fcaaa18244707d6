SPECIFICATION Spec
CONSTANTS
  d1 = d1
  d2 = d2
  k1 = k1
  x1 = x1
  Stages = {d1, d2, k1}
  StageKind <- Kinds
  Clients = {c1}
  ClientStatuses <- RestStatuses
  Reviewers = {r1}
  InitialStatuses <- RestStatuses
  NoRequest = NoRequest
INVARIANTS ReviewsStand WorkingMeansWorked
CHECK_DEADLOCK FALSE
