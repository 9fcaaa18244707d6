\* Retries of a finished run; nothing is cancelled and nothing dies.
SPECIFICATION FairSpec
CONSTANTS
  Targets = {home, t1}
  Homepage = home
  NoTarget = none
  Workers = {w1}
  RetryRequests = {r1, r2}
  CancelRequests = {}
  RetryFrom <- TerminalRun
  HomepageFailureStatus = "partial"
  RetryIncludesBlocked = TRUE
  InitialCompany = {"discovered"}
  MaxCrashes = 0
  RedisMayFail = FALSE
INVARIANTS SummaryAccurate StatusAccurate PagesMatchTargets
PROPERTIES EveryRunSettles
CHECK_DEADLOCK FALSE
