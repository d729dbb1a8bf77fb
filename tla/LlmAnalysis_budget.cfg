CONSTANTS
  Request = {r1, r2}
  Budgets = {1, 2}
  MaxTokens = 2
  CacheTtl = 1
  DayLength = 2
  MaxClock = 2
  MaxCalls = 5
SPECIFICATION LlmSpec
INVARIANTS
  OverspendBounded
  LedgersAgree
SYMMETRY RequestSymmetry
