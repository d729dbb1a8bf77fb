CONSTANTS
  Job = {j1, j2, j3}
  Fixture = {f1, f2}
  Subs = 2
  Limit = 1
  Window = 3
  RetryDelay = 1
  JobTimeout = 2
  Second = 2
  DayLength = 4
  MaxClock = 5
SPECIFICATION Spec
INVARIANTS
  DailyBudget
  WindowsAreHonoured
SYMMETRY DispatchSymmetry
