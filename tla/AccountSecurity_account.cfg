CONSTANTS
  Request = {r1, r2}
  MainPool = 2
  SecurityPool = 1
  MaxFailures = 2
  LockBase = 1
  LockMax = 2
  Kinds = {"login", "password", "disable", "enable", "setup", "confirm", "drop"}
  MaxStrikes = 3
  MaxStamps = 2
  MaxSecrets = 1
  MaxClock = 1
SPECIFICATION Spec
INVARIANTS
  SweptStayDead
  AccessDiesWithCredentials
  NobodyWaitsForever
PROPERTIES
  FailuresHold
SYMMETRY RequestSymmetry
