CONSTANTS
  Task = {t1, t2}
  MaxMatch = 2
  MaxTries = 2
  MaxOpens = 2
SPECIFICATION FairSpec
INVARIANTS
  LogIsTheRecord
PROPERTIES
  TailingViewerReceives
