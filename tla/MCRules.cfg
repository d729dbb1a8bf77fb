CONSTANTS
  Method = {1, 2}
  Key <- TwoVersions
  MaxBrier = 2
  Margin = 2
  Kicks = {3, 5}
  Switch = 4
  Goals = {0, 1}
  Season = {1, 2}
  Scores <- SomeScores
  Prices = {2, 4}
  MaxStored = 3
  MaxQuotes = 3
  Clients = {"c"}
  Proxies = {"web"}
  Gateways = {"gateway"}
  Unknown = "unknown"
  Garbage = "garbage"
  MaxForged = 2
  MaxSightings = 2
  Account = {1, 2}
  MaxAnswers = 3
  MaxOthers = 1
  Training = {t1, t2}
  Bars = {"elo"}
  Alone = {"consensus"}
  Coverings <- SomeCoverings
  Second = 2
  MaxTicks = 2
  MaxEdits = 1
  Listable = {1, 2, 3}
  Kickoffs <- TwoKickoffs
  PageSize = 2
  Owner = {"u", "v"}
  Chat = {"x", "y"}
  Token = {"s", "t"}
  Delivery = {1, 2}
  TokenTtl = 2
  LastMinute = 3
  Source = {"a", "b"}
  Prefix <- OnePrefix
  Member = {"m"}
  Scopes = {"refresh", "match_list", "totp_code"}
  Limit <- OneEach
  WindowSeconds <- OneEach
  PerSecond = 3
  LastTick = 5
  MaxAsked = 3
  MaxStamp = 1
SPECIFICATION RulesSpec
INVARIANTS
  ChampionSettled
  BacktestIsSound
  CallersAreKnown
  SessionsAreKept
  RenewalGoesOn
  MatchPagesAgree
  LinksAreEarned
  LimitsHold
