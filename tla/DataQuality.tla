------------------------------ MODULE DataQuality ------------------------------
(***************************************************************************)
(* The data-quality report over fixtures and odds, which reads them in     *)
(* four queries, for all seasons or for some, while ingestion writes.      *)
(*                                                                         *)
(* All fixtures are of one league and one pairing.  The 1X2 market of one  *)
(* bookmaker stands for every market and bookmaker; the first fixture has  *)
(* the odds.  Old imports and operators can have left any row, which is    *)
(* what the report looks for.                                              *)
(***************************************************************************)
EXTENDS Integers, FiniteSets, FiniteSetsExt

CONSTANTS
  Fixtures,         \* the rows each fixture may be stored as; the first has the odds
  Label, Canonical, \* season labels, and those of a canonical form
  Outcomes,         \* of the market
  Quotes,           \* the odds rows that may be stored
  Now, DuplicateWindow, SeasonOverAfter,
  MaxRows, MaxLate  \* bounds: odds rows; writes while a report runs

ASSUME ReportAssumption ==
  /\ 1 \in DOMAIN Fixtures /\ DOMAIN Fixtures \subseteq Nat /\ Canonical \subseteq Label
  /\ \A f \in DOMAIN Fixtures :
       Fixtures[f] \subseteq [kick : Nat, season : Label, finished : BOOLEAN, score : STRING]
  /\ Quotes \subseteq [outcome : Outcomes, ts : Nat, usable : BOOLEAN, closing : BOOLEAN]
  /\ IsFiniteSet(Outcomes) /\ Now \in Nat /\ DuplicateWindow \in Nat /\ SeasonOverAfter \in Nat
  /\ MaxRows \in Nat /\ MaxLate \in Nat

VARIABLES
  fixtures,   \* rows of fixtures, by number
  odds,       \* rows of odds
  conflicts,  \* fixtures with a recorded score conflict
  report,     \* the report under way: its scope, and what it has read
  late        \* bound and history: writes since the report began

qualityVars == <<fixtures, odds, conflicts, report, late>>

NoFixture == [kick |-> 0, season |-> "none", finished |-> FALSE, score |-> "none"]
Numbered == DOMAIN Fixtures
Times == {fx.kick : fx \in Fixtures[1]}
NoReport == [at |-> "idle", scope |-> {}, byId |-> <<>>, pairs |-> {}, odds |-> {}, conflicts |-> {}]

QualityInit ==
  /\ fixtures = [f \in Numbered |-> NoFixture] /\ odds = {} /\ conflicts = {}
  /\ report = NoReport /\ late = 0

Known == {f \in Numbered : fixtures[f] # NoFixture}

-----------------------------------------------------------------------------
(* What is written.                                                         *)

Writes ==
  /\ report.at # "done" /\ (report.at = "idle" \/ late < MaxLate)
  /\ late' = IF report.at = "idle" THEN 0 ELSE late + 1

StoreFixture(f, fx) ==
  /\ Writes /\ fixtures[f] = NoFixture
  /\ fixtures' = [fixtures EXCEPT ![f] = fx]
  /\ UNCHANGED <<odds, conflicts, report>>

\* One row per bookmaker, market, outcome and instant.
StoreOdds(o) ==
  /\ Writes /\ fixtures[1] # NoFixture /\ Cardinality(odds) < MaxRows
  /\ \A p \in odds : <<p.outcome, p.ts>> # <<o.outcome, o.ts>>
  /\ odds' = odds \cup {o}
  /\ UNCHANGED <<fixtures, conflicts, report>>

\* _reconcile: the kickoff moves, with the quotes of the new one.
ShiftKickoff(kick) ==
  /\ Writes /\ fixtures[1] # NoFixture /\ kick # fixtures[1].kick
  /\ fixtures' = [fixtures EXCEPT ![1].kick = kick]
  /\ odds' = {[o EXCEPT !.closing = FALSE] : o \in {p \in odds : p.ts < kick}}
             \cup {[outcome |-> x, ts |-> kick, usable |-> TRUE, closing |-> TRUE] : x \in Outcomes}
  /\ UNCHANGED <<conflicts, report>>

RecordConflict ==
  /\ Writes /\ fixtures[1] # NoFixture /\ conflicts = {}
  /\ conflicts' = {1}
  /\ UNCHANGED <<fixtures, odds, report>>

-----------------------------------------------------------------------------
(* build_report: one action per query.                                      *)

InScope(fxs, scope) == {f \in DOMAIN fxs : fxs[f] # NoFixture /\ fxs[f].season \in scope}

ScanFixtures(scope) ==
  /\ report.at = "idle" /\ Known # {}
  /\ report' = [NoReport EXCEPT !.at = "pairs", !.scope = scope,
                  !.byId = [f \in InScope(fixtures, scope) |-> fixtures[f]]]
  /\ late' = 0
  /\ UNCHANGED <<fixtures, odds, conflicts>>

\* The self-join: a pair within the window, either of it in the scope.
Near(a, b) ==
  LET gap == fixtures[a].kick - fixtures[b].kick
  IN a < b /\ gap <= DuplicateWindow /\ -gap <= DuplicateWindow
FirstInScope(scope) ==
  {p \in Known \X Known : Near(p[1], p[2]) /\ p[1] \in InScope(fixtures, scope)}
DuplicatePairs(scope) ==
  {p \in Known \X Known :
     Near(p[1], p[2]) /\ {p[1], p[2]} \cap InScope(fixtures, scope) # {}}

ScanPairs ==
  /\ report.at = "pairs"
  /\ report' = [report EXCEPT !.at = "odds",
       !.pairs = {[of |-> p, seasons |-> <<fixtures[p[1]].season, fixtures[p[2]].season>>] :
                    p \in DuplicatePairs(report.scope)}]
  /\ UNCHANGED <<fixtures, odds, conflicts, late>>

ScanOdds ==
  /\ report.at = "odds"
  /\ report' = [report EXCEPT !.at = "conflicts",
                  !.odds = IF 1 \in InScope(fixtures, report.scope) /\ 1 \in DOMAIN report.byId
                           THEN odds ELSE {}]
  /\ UNCHANGED <<fixtures, odds, conflicts, late>>

ScanConflicts ==
  /\ report.at = "conflicts"
  /\ report' = [report EXCEPT !.at = "done", !.conflicts = conflicts \cap DOMAIN report.byId]
  /\ UNCHANGED <<fixtures, odds, conflicts, late>>

NextReport ==
  /\ report.at = "done"
  /\ report' = NoReport /\ late' = 0
  /\ UNCHANGED <<fixtures, odds, conflicts>>

QualityNext ==
  \/ \E f \in Numbered : \E fx \in Fixtures[f] : StoreFixture(f, fx)
  \/ \E o \in Quotes : StoreOdds(o)
  \/ \E kick \in Times : ShiftKickoff(kick)
  \/ RecordConflict
  \/ \E scope \in (SUBSET Label) \ {{}} : ScanFixtures(scope)
  \/ ScanPairs \/ ScanOdds \/ ScanConflicts \/ NextReport

QualitySpec == QualityInit /\ [][QualityNext]_qualityVars

-----------------------------------------------------------------------------
(* What the report says.                                                    *)

Issue(code, label, of, what) == [code |-> code, season |-> label, fixtures |-> of, what |-> what]

FixtureIssues(r) ==
  LET Of(f, code) == Issue(code, r.byId[f].season, {f}, {})
      done == {f \in DOMAIN r.byId : r.byId[f].finished}
  IN {Of(f, "finished_without_score") : f \in {g \in done : r.byId[g].score = "none"}}
     \cup {Of(f, "finished_in_future") : f \in {g \in done : r.byId[g].kick > Now}}
     \cup {Of(f, "impossible_score") : f \in {g \in DOMAIN r.byId : r.byId[g].score = "absurd"}}
     \cup {Of(f, "score_conflict_across_sources") : f \in r.conflicts}

PairIssues(r) ==
  {Issue("duplicate_fixture", IF p.of[1] \in DOMAIN r.byId THEN p.seasons[1] ELSE p.seasons[2],
         {p.of[1], p.of[2]}, {}) : p \in r.pairs}

OddsIssues(r) ==
  LET Of(code, rows) == {Issue(code, r.byId[1].season, {1}, o) : o \in rows}
      At(ts) == {o \in r.odds : o.ts = ts}
  IN Of("odds_price_out_of_range", {o \in r.odds : ~o.usable})
     \cup Of("closing_after_kickoff", {o \in r.odds : o.closing /\ o.ts > r.byId[1].kick})
     \cup Of("incomplete_odds_snapshot",
             {At(o.ts) : o \in {p \in r.odds : Cardinality(At(p.ts)) # Cardinality(Outcomes)}})

\* Closing coverage: a whole snapshot before or at kickoff, each price usable
\* and marked as closing.
Covered(r) ==
  \E ts \in {o.ts : o \in r.odds} :
    LET snapshot == {o \in r.odds : o.ts = ts}
    IN /\ Cardinality(snapshot) = Cardinality(Outcomes) /\ ts <= r.byId[1].kick
       /\ \A o \in snapshot : o.usable /\ o.closing

\* A season's group; its two teams should play 2 matches.
Group(r, s) == {f \in DOMAIN r.byId : r.byId[f].season = s}
Groups(r) == {r.byId[f].season : f \in DOMAIN r.byId}
SeasonIssues(r) ==
  LET Of(code, seasons) == {Issue(code, s, Group(r, s), {}) : s \in seasons}
      finished == [s \in Groups(r) |-> {f \in Group(r, s) : r.byId[f].finished}]
      over == {s \in Groups(r) : Max({r.byId[f].kick : f \in Group(r, s)}) < Now - SeasonOverAfter}
      withOdds == [s \in Groups(r) |-> IF Covered(r) THEN finished[s] \cap {1} ELSE {}]
  IN Of("non_canonical_season", Groups(r) \ Canonical)
     \cup Of("unusual_team_count", Groups(r))
     \cup Of("season_incomplete", {s \in over : Cardinality(Group(r, s)) < 2})
     \cup Of("uneven_team_schedule", {s \in over : Cardinality(Group(r, s)) # 2})
     \cup Of("odds_coverage_low",
             {s \in Groups(r) : 10 * Cardinality(withOdds[s]) < 9 * Cardinality(finished[s])})

Issues(r) == FixtureIssues(r) \cup PairIssues(r) \cup OddsIssues(r) \cup SeasonIssues(r)

\* What a report reads when nothing comes between.
Whole(scope) ==
  [at |-> "done", scope |-> scope,
   byId |-> [f \in InScope(fixtures, scope) |-> fixtures[f]],
   pairs |-> {[of |-> p, seasons |-> <<fixtures[p[1]].season, fixtures[p[2]].season>>] :
                p \in {q \in Known \X Known : Near(q[1], q[2])}},
   odds |-> IF 1 \in InScope(fixtures, scope) THEN odds ELSE {},
   conflicts |-> conflicts \cap InScope(fixtures, scope)]

-----------------------------------------------------------------------------
(* Properties.                                                              *)

\* A report on some seasons says of their fixtures what the report on all
\* seasons says, a partner under another label included.
ScopeLosesNothing ==
  LET Said(r) == {[code |-> i.code, fixtures |-> i.fixtures, what |-> i.what] : i \in Issues(r)}
      all == Said(Whole(Label))
  IN Said(report) = {i \in all : i.fixtures \cap DOMAIN report.byId # {}}

\* Every issue is counted in a row of the report.
EveryIssueHasRow == \A i \in Issues(report) : i.season \in Groups(report)

\* Coverage counts what the closing-quote rule will find: a counted fixture has
\* a closing quote, and a closing quote is counted unless an error names one of
\* its prices (odds_selection.quote_at).
QuoteFound ==
  LET rows == {o \in odds : o.closing /\ o.ts <= fixtures[1].kick}
      At(ts) == {o \in rows : o.ts = ts}
      complete == {ts \in {o.ts : o \in rows} : Cardinality(At(ts)) = Cardinality(Outcomes)}
  IN IF complete = {} THEN {} ELSE At(Max(complete))
CoverageIsTrue ==
  1 \in DOMAIN report.byId =>
    /\ Covered(report) => QuoteFound # {}
    /\ QuoteFound # {} /\ ~Covered(report) =>
         \E i \in Issues(report) : i.code = "odds_price_out_of_range" /\ i.what \in QuoteFound

\* A report that nothing has overtaken is complete, counted and true.
ReportIsSound ==
  report.at = "done" /\ late = 0 => ScopeLosesNothing /\ EveryIssueHasRow /\ CoverageIsTrue

\* The claim of build_report: an error is data that would corrupt training.
ErrorsAreReal ==
  report.at = "done" =>
    \A i \in Issues(report) : i.code = "closing_after_kickoff" =>
      i.what \in odds /\ i.what.ts > fixtures[1].kick
=============================================================================
