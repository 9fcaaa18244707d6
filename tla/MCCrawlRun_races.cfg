\* Two workers, so that an execution and two retries overlap; a job dies anywhere.
SPECIFICATION Spec
CONSTANTS
  Targets = {home}
  Homepage = home
  NoTarget = none
  Workers = {w1, w2}
  RetryRequests = {r1, r2}
  CancelRequests = {}
  RetryFrom <- RunStatuses
  HomepageFailureStatus = "failed"
  RetryIncludesBlocked = FALSE
  InitialCompany = {"discovered"}
  MaxCrashes = 1
  RedisMayFail = FALSE
SYMMETRY Symmetry
INVARIANT PagePrecedesTarget
PROPERTIES SettledTargetsStay RunIsOptimisticRecord
CHECK_DEADLOCK FALSE
