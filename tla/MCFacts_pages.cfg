SPECIFICATION Spec
CONSTANTS
  Pages <- MCPages
  PageLists <- MCPageLists
  MaxFaults = 1
INVARIANTS FactsAreEvidenced FailuresStayLocal OrderDecidesNothing DenialsAreExplicit
CHECK_DEADLOCK FALSE
