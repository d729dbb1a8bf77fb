CONSTANTS
  Job = {j1}
  Cli = {}
  Contents <- Versions
  LiveKicks = {5}
  DedupWindow = 2
  StaleAfter = 1
  JobTimeout = 1
  MaxRuns = 1
  MaxClock = 2
SPECIFICATION IngestionSpec
INVARIANTS
  ClosingLands
