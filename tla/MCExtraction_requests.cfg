SPECIFICATION Spec
CONSTANTS
  Requests = {x1, x2}
  Key <- OwnKeys
  Fields = {f}
  ArrayFields = {}
  Values = {a, b}
  Starts = {"imported", "discovered", "crawling", "crawled", "extracted", "failed"}
  MaxPages = 2
  MaxCancels = 1
  MaxDeaths = 1
SYMMETRY Symmetric
INVARIANTS CompanyNotStranded OneCurrentFact KnownStaysKnown
PROPERTIES CancelledStays HistoryIsKept
CHECK_DEADLOCK FALSE
