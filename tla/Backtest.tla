------------------------------- MODULE Backtest -------------------------------
(***************************************************************************)
(* The backtester: its store of one row per finished match, filled from    *)
(* the matches and the quotes while ingestion changes both, and the        *)
(* settlement of a rule's bets at the stored closing prices.               *)
(*                                                                         *)
(* One match of the store is followed.  A quote is its bookmaker, its      *)
(* instant and whether it is a closing one; the 1X2 market stands for      *)
(* both, and a source's quotes are complete.  The engine is modelled on    *)
(* stores of a few rows, with whole prices; a row carries the price of the *)
(* pick only, and the numeric filters are left out.                        *)
(***************************************************************************)
EXTENDS Integers, FiniteSets, FiniteSetsExt, SequencesExt

CONSTANTS
  Kicks,       \* kickoffs the match may be given
  Switch,      \* the first instant of the second reference bookmaker
  Goals,       \* results it may be given
  Season, Scores, Prices,  \* what a row may hold
  MaxStored, MaxQuotes     \* bounds

ASSUME BacktestAssumption ==
  /\ Kicks \subseteq Nat \ {0} /\ Goals \subseteq Nat /\ Switch \in Nat
  /\ Scores \subseteq Nat \X Nat /\ Prices \subseteq Nat \ {0, 1}
  /\ MaxStored \in Nat /\ MaxQuotes \in Nat

VARIABLES
  match,       \* the fixture: kickoff and result
  quotes,      \* its rows in odds
  row,         \* its row in backtest_features
  populating,  \* what a running population has read, or NoRead
  changed,     \* history: match or quotes changed after a population read them
  stored,      \* rows of the store, in order of kickoff
  rule      \* the rule: its pick, and its season or all

backtestVars == <<match, quotes, row, populating, changed, stored, rule>>

Bookmaker == {"pinnacle", "market_avg"}
Quote == [by : Bookmaker, ts : Nat, closing : BOOLEAN]
NoPrice == 0
NotStored == [kick |-> 0, goals |-> 0, price |-> NoPrice]
NoRead == [kick |-> 0, goals |-> 0]

Picks == [x12 |-> {"home", "draw", "away"}, total |-> {"over", "under"}]
StoredRow == [season : Season, score : Scores, price : Prices \cup {NoPrice}]
RunRequest == [pick : Picks.x12 \cup Picks.total, season : {{y} : y \in Season} \cup {Season}]

BacktestInit ==
  /\ match \in [kick : Kicks, goals : Goals]
  /\ quotes = {} /\ row = NotStored /\ populating = NoRead
  /\ changed = TRUE
  /\ stored = <<>> /\ rule \in RunRequest

-----------------------------------------------------------------------------
(* Ingestion, as far as it touches the match (module Ingestion).            *)

\* A closing quote lands at the kickoff, an earlier one a slot before it; a
\* bookmaker has one quote per instant.
AddQuote(by, closing) ==
  LET q == [by |-> by, closing |-> closing,
            ts |-> IF closing THEN match.kick ELSE match.kick - 1] IN
  /\ Cardinality(quotes) < MaxQuotes
  /\ \A p \in quotes : p.by = by => p.ts # q.ts
  /\ quotes' = quotes \cup {q}
  /\ changed' = TRUE
  /\ UNCHANGED <<match, row, populating, stored, rule>>

Correct(goals) ==
  /\ goals # match.goals
  /\ match' = [match EXCEPT !.goals = goals]
  /\ changed' = TRUE
  /\ UNCHANGED <<quotes, row, populating, stored, rule>>

\* A moved kickoff drops the quotes that would no longer be earlier, and the
\* others are closing ones no more.
MoveKickoff(kick) ==
  /\ kick # match.kick
  /\ match' = [match EXCEPT !.kick = kick]
  /\ quotes' = {[q EXCEPT !.closing = FALSE] : q \in {p \in quotes : p.ts < kick}}
  /\ changed' = TRUE
  /\ UNCHANGED <<row, populating, stored, rule>>

-----------------------------------------------------------------------------
(* The quote rule (odds_selection) and the population.                      *)

ReferenceBookmakerFor(kick) == IF kick < Switch THEN "pinnacle" ELSE "market_avg"

\* quote_at: the latest quote at or before an instant.
QuoteAt(rows, asOf) ==
  LET earlier == {q.ts : q \in {p \in rows : p.ts <= asOf}}
  IN IF earlier = {} THEN NoPrice ELSE Max(earlier)
LatestQuotes(kick) ==
  QuoteAt({q \in quotes : q.by = ReferenceBookmakerFor(kick)}, kick)
ClosingQuotes(kick) ==
  QuoteAt({q \in quotes : q.closing /\ q.by = ReferenceBookmakerFor(kick)}, kick)

\* populate_backtest_features: the matches are read first.
ReadMatches ==
  /\ populating = NoRead
  /\ populating' = match
  /\ changed' = FALSE
  /\ UNCHANGED <<match, quotes, row, stored, rule>>

\* Then the quotes; an existing row gets its features and prices renewed.
WriteRow ==
  /\ populating # NoRead
  /\ LET price == ClosingQuotes(populating.kick) IN
     row' = IF row = NotStored
            THEN [kick |-> populating.kick, goals |-> populating.goals, price |-> price]
            ELSE [row EXCEPT !.price = price]
  /\ populating' = NoRead
  /\ UNCHANGED <<match, quotes, changed, stored, rule>>

-----------------------------------------------------------------------------
(* The engine.                                                              *)

Store(r) ==
  /\ Len(stored) < MaxStored
  /\ stored' = Append(stored, r)
  /\ UNCHANGED <<match, quotes, row, populating, changed, rule>>

Over(score) == 2 * (score[1] + score[2]) > 5
Won(score, pick) ==
  CASE pick = "home" -> score[1] > score[2]
    [] pick = "draw" -> score[1] = score[2]
    [] pick = "away" -> score[1] < score[2]
    [] pick = "over" -> Over(score)
    [] pick = "under" -> ~Over(score)

\* _settle: a bet of one unit.
Settle(r, pick) ==
  [season |-> r.season, profit |-> IF Won(r.score, pick) THEN r.price - 1 ELSE -1]

\* _fetch_rows and _collect_bets: the rows of the rule that have a price.
Bets ==
  LET bettable == SelectSeq(stored, LAMBDA r : r.season \in rule.season /\ r.price # NoPrice)
  IN [i \in DOMAIN bettable |-> Settle(bettable[i], rule.pick)]

\* _max_drawdown: one pass with the running sum, its peak and the worst fall.
Curve(bets) ==
  FoldLeft(LAMBDA c, b :
      LET running == c.running + b.profit
          peak == IF running > c.peak THEN running ELSE c.peak
          fall == peak - running
      IN [equity |-> Append(c.equity, running), running |-> running, peak |-> peak,
          worst |-> IF fall > c.worst THEN fall ELSE c.worst],
    [equity |-> <<>>, running |-> 0, peak |-> 0, worst |-> 0], bets)

\* _roi, as the return on unit stakes before the division.
Returned(bets) == FoldLeft(LAMBDA sum, b : sum + b.profit + 1, 0, bets)

\* _season_splits: every season of the bets, with its own ones.
SeasonSplits(bets) ==
  [s \in {bets[i].season : i \in DOMAIN bets} |->
     SelectSeq(bets, LAMBDA b : b.season = s)]

\* The store and the engine are apart: the engine reads, and is modelled on
\* lists of its own.
StoreNext ==
  \/ \E by \in Bookmaker, closing \in BOOLEAN : AddQuote(by, closing)
  \/ \E goals \in Goals : Correct(goals)
  \/ \E kick \in Kicks : MoveKickoff(kick)
  \/ ReadMatches \/ WriteRow
EngineNext ==
  \/ \E r \in StoredRow : Store(r)
  \/ Len(stored) = MaxStored /\ UNCHANGED backtestVars

BacktestSpec == BacktestInit /\ [][StoreNext \/ EngineNext]_backtestVars

-----------------------------------------------------------------------------
(* Properties.                                                              *)

\* After a population that nothing has overtaken, the price a bet settles at
\* is the reference bookmaker's quote at the match's kickoff, and there is
\* none if it gave none: however the kickoff was moved, no quote from before a
\* move or from the running match stands in (odds_selection, _reconcile).
FreshPriceCloses ==
  ~changed /\ populating = NoRead =>
    LET given == {q \in quotes : q.closing /\ q.by = ReferenceBookmakerFor(match.kick)}
    IN row.price = IF given = {} THEN NoPrice ELSE match.kick

\* A result's parts agree: a stake is lost or comes back at the price, on one
\* pick of each market; the drawdown is the deepest fall between any two points
\* of the curve, the start included; the total return is the curve's end over
\* the stakes, and the seasons' returns add up to it (run_backtest).
ResultAddsUp ==
  LET bets == Bets
      c == Curve(bets)
      At(i) == IF i = 0 THEN 0 ELSE c.equity[i]
      points == 0..Len(bets)
      splits == SeasonSplits(bets)
  IN /\ c.worst = Max({At(p[1]) - At(p[2]) : p \in {q \in points \X points : q[1] <= q[2]}})
     /\ At(Len(bets)) = Returned(bets) - Len(bets)
     /\ Returned(bets) = MapThenSumSet(LAMBDA s : Returned(splits[s]), DOMAIN splits)
     /\ \A market \in {"x12", "total"}, r \in {stored[i] : i \in DOMAIN stored} :
          r.price # NoPrice =>
            MapThenSumSet(LAMBDA p : Settle(r, p).profit + 1, Picks[market]) = r.price

\* Bets settle at the closing prices, and their sums agree.
BacktestIsSound == FreshPriceCloses /\ ResultAddsUp

\* The claim of populate_backtest_features: running it again updates existing
\* rows.
RowIsRenewed ==
  ~changed /\ populating = NoRead => row.goals = match.goals /\ row.kick = match.kick
=============================================================================
