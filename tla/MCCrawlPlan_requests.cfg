SPECIFICATION Spec
CONSTANTS
  Requests = {q1, q2}
  Retries = {y1, y2}
  Asked <- MCAsked
  KnownRun = "known"
  Config <- MCConfig
  Findings <- MCFindings
  PageSize = 2
  MaxWorkers = 2
SYMMETRY Symmetry
CONSTRAINT Bounds
INVARIANTS TwinsOverlap SettledListingsAreWhole BestTargetsSelected
CHECK_DEADLOCK FALSE
