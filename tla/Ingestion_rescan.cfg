CONSTANTS
  Job = {worker, cli}
  Cli = {cli}
  Contents <- Versions
  LiveKicks = {5}
  DedupWindow = 2
  StaleAfter = 1
  JobTimeout = 1
  MaxRuns = 3
  MaxClock = 2
SPECIFICATION IngestionSpec
INVARIANTS
  OddsTimeline
  OneRowPerMatch
  RunLogIsTrue
