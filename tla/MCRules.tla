------------------------------- MODULE MCRules -------------------------------
(***************************************************************************)
(* The parts of the platform that meet no other one, each on its own: a    *)
(* behaviour picks one part and the others stay as they began.             *)
(***************************************************************************)
EXTENDS Champion, Backtest, ClientIdentity, BrowserSession, MatchCard, TelegramLink,
        RateLimits

VARIABLE part   \* the part that moves

rulesVars ==
  <<part, championVars, backtestVars, clientVars, browserVars, matchVars, telegramVars,
    limitVars>>

Part ==
  {"champion", "store", "engine", "clients", "browser", "card", "list", "telegram", "limits"}

-----------------------------------------------------------------------------
(* Constants of the instance.                                               *)

TwoVersions == {<<1, 1>>, <<1, 2>>, <<2, 1>>, <<2, 2>>}
SomeScores == {<<1, 0>>, <<1, 1>>, <<1, 2>>}

\* The card: one method of its own and the consensus.
SomeCoverings == {{"elo"}, {"elo", "consensus"}}
TwoKickoffs == [Listable -> {1, 2}]

\* The limits: two addresses of one /64, and a limit of each kind.
OnePrefix == [a \in {"a", "b"} |-> "prefix"]
OneEach == [s \in {"refresh", "match_list", "totp_code"} |-> 1]

-----------------------------------------------------------------------------

\* Where a part that does not move stays.
AnyMatch == CHOOSE m \in [kick : Kicks, goals : Goals] : TRUE
AnyRule == CHOOSE r \in RunRequest : TRUE
AnyCalendar == [m \in Listable |-> [kick |-> 1, status |-> "scheduled", predicted |-> TRUE]]

RulesInit ==
  /\ part \in Part
  /\ BacktestInit /\ (part # "store" => match = AnyMatch) /\ (part # "engine" => rule = AnyRule)
  /\ ClientInit
  /\ BrowserInit /\ (part # "browser" => jar = Nobody)
  /\ MatchInit /\ (part # "list" => calendar = AnyCalendar)
  /\ TelegramInit /\ LimitInit
  /\ IF part = "champion" THEN ChampionInit ELSE standing = NoView /\ weighting = "auto"

Others(moving) ==
  /\ IF moving = "champion" THEN TRUE ELSE UNCHANGED championVars
  /\ IF moving \in {"store", "engine"} THEN TRUE ELSE UNCHANGED backtestVars
  /\ IF moving = "clients" THEN TRUE ELSE UNCHANGED clientVars
  /\ IF moving = "browser" THEN TRUE ELSE UNCHANGED browserVars
  /\ IF moving \in {"card", "list"} THEN TRUE ELSE UNCHANGED matchVars
  /\ IF moving = "telegram" THEN TRUE ELSE UNCHANGED telegramVars
  /\ IF moving = "limits" THEN TRUE ELSE UNCHANGED limitVars

RulesNext ==
  /\ UNCHANGED part
  /\ \/ part = "champion" /\ Evaluate
     \/ part = "store" /\ StoreNext
     \/ part = "engine" /\ EngineNext
     \/ part = "clients" /\ ClientNext
     \/ part = "browser" /\ BrowserNext
     \/ part = "card" /\ CardNext
     \/ part = "list" /\ ListNext
     \/ part = "telegram" /\ TelegramNext
     \/ part = "limits" /\ LimitNext
  /\ Others(part)

RulesSpec == RulesInit /\ [][RulesNext]_rulesVars

=============================================================================
