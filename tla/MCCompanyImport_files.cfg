SPECIFICATION Spec
CONSTANTS
  Importers = {i1, i2}
  Clients = {c1}
  Shown <- MCShown
  Files <- MCFiles
  Wanted <- MCWanted
  AtFirst <- MCAtFirst
  MaxFaults = 1
  MaxDeaths = 1
SYMMETRY Symmetry
INVARIANTS ImportsAreWhole OneCreator
CHECK_DEADLOCK FALSE
