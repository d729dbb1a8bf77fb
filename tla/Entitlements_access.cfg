CONSTANTS
  Request = {r1, r2, r3}
  User = {u1, u2}
  Card = {c1, c2}
  Offers <- AllOffers
  MaxActivations = 2
  RedeemLimit = 2
  TrialDays = 1
  Limits = {0, 1}
  Edited = {"free"}
  TTL = 1
  MaxRequest = 1
  HourLength = 2
  DayLength = 2
  MaxClock = 2
SPECIFICATION Spec
INVARIANTS
  StalenessIsBounded
PROPERTIES
  RedemptionsHold
  ViewsHold
SYMMETRY EntitlementSymmetry
