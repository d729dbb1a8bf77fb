CONSTANTS
  Worker = {w1, w2}
  Job = {j1, j2, j3}
  Interval = 2
  JobTimeout = 2
  Cleanup = 1
  MaxStarts = 3
  MaxFailures = 2
  NoJob = NoJob
SPECIFICATION FairSpec
INVARIANTS
  SingleFlight
  NoStaleRelease
PROPERTIES
  LoopGoesOn
