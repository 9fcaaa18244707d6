\* Cancellations against an execution and a retry; Redis may fail.
SPECIFICATION FairSpec
CONSTANTS
  Targets = {home, t1}
  Homepage = home
  NoTarget = none
  Workers = {w1}
  RetryRequests = {r1}
  CancelRequests = {c1}
  RetryFrom <- RunStatuses
  HomepageFailureStatus = "partial"
  RetryIncludesBlocked = FALSE
  InitialCompany = {"discovered", "crawled"}
  MaxCrashes = 0
  RedisMayFail = TRUE
INVARIANTS CompanyNotStranded ExecutionStopsAfterCancel
PROPERTIES CancelSurvivesExecution CancelDrains
CHECK_DEADLOCK FALSE
