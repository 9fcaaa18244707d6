SPECIFICATION FairSpec
CONSTANTS
  UserAgent = "us"
  NoDelay = NoDelay
  PathOf <- MCPathOf
  RobotsFiles <- MCRobotsFiles
  Bodies <- MCBodies
  ExternalKinds <- MCExternalKinds
  Scenarios <- MCScenarios
  MaxRuns = 3
  DefaultDelay = 2
  MinDelay = 1
  MaxCrawlDelay = 3
  TotalTimeout = 4
  MaxAttempts = 2
  MaxRedirects = 1
  BaseBackoff = 2
  MaxBackoff = 2
  MaxRetryAfter = 6
  MinScripts = 2
INVARIANTS
  UnchangedPagesLoad
  ContentIsCurrent
  RobotsObeyed
  TextIsSeen
PROPERTIES
  FetchesArePaced
  DoneStaysDone
  JobsEnd
CHECK_DEADLOCK FALSE
