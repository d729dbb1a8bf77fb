CONSTANTS
  Token = {t1, t2, t3}
  Proc = {p1, p2}
  Family = {1}
  Client = {c1}
  MaxUses = 1
  NoToken = NoToken
  NoProc = NoProc
  NoFamily = NoFamily
  NoAgent = NoAgent
SPECIFICATION Spec
INVARIANTS
  OneLivePerFamily
  EndedFamilyStaysDead
  ReplayIsBounded
PROPERTIES
  RotatedOnce
SYMMETRY RowSymmetry
