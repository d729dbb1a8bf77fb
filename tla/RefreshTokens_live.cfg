CONSTANTS
  Token = {t1, t2}
  Proc = {p1, p2}
  Family = {1, 2}
  Client = {}
  MaxUses = 1
  NoToken = NoToken
  NoProc = NoProc
  NoFamily = NoFamily
  NoAgent = NoAgent
SPECIFICATION FairSpec
PROPERTIES
  RequestsFinish
  ImplementsSessionFamily
