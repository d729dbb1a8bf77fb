CONSTANTS
  Method = {1, 2}
  Key <- Untrained
  Worker = {w1}
  Admin = {a1, a2}
  MaxBrier = 1
  Margin = 1
  MaxSnapshots = 1
  NoProc = NoProc
  Match <- Matches
  Team = {0, 1, 2}
  League = {0, 1}
  Schedules <- AllSchedules
  Late = {4}
  MinTotal = 4
  Floor = 1
  LightgbmCuts <- TrainCuts
  ConsensusCuts <- TrainCuts
  OofCuts <- FoldCuts
  Fixtures <- SomeFixtures
  Label = {"2025-2026", "2026"}
  Canonical = {"2025-2026"}
  Outcomes = {"home", "away"}
  Quotes <- SomeQuotes
  Now = 2
  DuplicateWindow = 2
  SeasonOverAfter = 0
  MaxRows = 3
  MaxLate = 1
  Club = {1, 2}
  Name = {"a", "b", "c"}
  Game = {1, 2}
  Spelling <- TwoSpellings
  Moments = {4, 5, 6}
  DaySlots = 4
  Summer = {1}
  MaxOdds = 2
SPECIFICATION LearningSpec
INVARIANTS
  SingleChampion
  NothingIsOverwritten
  NoLookAhead
  ReportIsSound
  IdentityKept
  NothingMerged
PROPERTIES
  RollbackNamesTheChampion
SYMMETRY AdminSymmetry
