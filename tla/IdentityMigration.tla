--------------------------- MODULE IdentityMigration ---------------------------
(***************************************************************************)
(* The data migration 0015: canonical season labels, kickoffs from UK wall *)
(* clock to UTC with the quotes that sit at them, and external references; *)
(* up and down again, with matches stored in between.                      *)
(*                                                                         *)
(* All matches are of one league and one pairing, and one bookmaker's      *)
(* outcome stands for all odds.  Time counts slots of a day whose first is *)
(* midnight; summer time is one slot ahead.  No match kicks off in the     *)
(* hour in which the clocks change.                                        *)
(***************************************************************************)
EXTENDS Integers, FiniteSets

CONSTANTS
  Game,        \* fixtures
  Spelling,    \* season labels as sources wrote them
  Moments,    \* kickoffs and instants of quotes, as stored
  DaySlots, Summer,  \* slots of a day; the days with summer time
  MaxOdds      \* bound

ASSUME MigrationAssumption ==
  /\ IsFiniteSet(Game) /\ Moments \subseteq Nat /\ Summer \subseteq Nat
  /\ DaySlots \in Nat /\ DaySlots > 2 /\ DaySlots % 2 = 0 /\ MaxOdds \in Nat

VARIABLES
  schema,     \* "old" or "new": which convention the data follow
  splitYear,  \* the league's seasons span two years
  game,       \* fixtures: label, kickoff, source, and whether the time is known
  tested,     \* backtest_features: label and kickoff of each fixture it has
  priced,     \* odds: fixture and instant
  refs,       \* fixture_external_refs: fixture, season and day
  stayed,     \* history: fixtures whose quote was stored at the kickoff
  before      \* history: the kickoffs and the number of quotes before the
              \* last upgrade, unless a match or a quote was stored since

migrationVars == <<schema, splitYear, game, tested, priced, refs, stayed, before>>

Unreadable == [form |-> "other", first |-> 0, second |-> 0]
NoGame == [label |-> Unreadable, kick |-> 0, known |-> TRUE, source |-> "none"]
Unkept == [kicks |-> {}, odds |-> -1]
FileRow(label, kick, source) == [label |-> label, kick |-> kick, known |-> TRUE, source |-> source]
Stored == {g \in Game : game[g] # NoGame}
FromFile == {g \in Stored : game[g].source = "football-data"}

MigrationInit ==
  /\ schema = "old" /\ splitYear \in BOOLEAN
  /\ game = [g \in Game |-> NoGame] /\ tested = game /\ priced = {} /\ refs = {}
  /\ stayed = {} /\ before = Unkept

-----------------------------------------------------------------------------
(* canonical_season.                                                        *)

Expand(short, start) ==
  LET candidate == start - (start % 100) + short
  IN IF candidate > start THEN candidate ELSE candidate + 100

CanonicalSeason(s, split) ==
  LET start == IF s.form = "short" THEN 2000 + s.first ELSE s.first
      end == IF s.second < 100 THEN Expand(s.second, start) ELSE s.second
  IN CASE s.form = "single" /\ split -> [form |-> "dash", first |-> start, second |-> start + 1]
       [] s.form = "single" /\ ~split -> s
       [] s.form \in {"dash", "slash", "short"} /\ split /\ end = start + 1 ->
            [form |-> "dash", first |-> start, second |-> end]
       [] OTHER -> Unreadable

\* A label that cannot be read stays.
Relabelled(s) ==
  IF CanonicalSeason(s, splitYear) = Unreadable THEN s ELSE CanonicalSeason(s, splitYear)

-----------------------------------------------------------------------------
(* The two conventions.                                                     *)

DayAt(t) == t \div DaySlots
\* _corrected: midnight meant a date only, any other time the UK wall clock.
Corrected(t) ==
  IF t % DaySlots = 0 THEN [kick |-> t + DaySlots \div 2, known |-> FALSE]
  ELSE [kick |-> IF DayAt(t) \in Summer THEN t - 1 ELSE t, known |-> TRUE]
\* _original.
Original(t, known) ==
  IF ~known THEN t - (t % DaySlots) ELSE IF DayAt(t) \in Summer THEN t + 1 ELSE t

\* The unique key of fixtures.
NoneAlike(rows) ==
  \A g, h \in Stored : g # h => <<rows[g].label, rows[g].kick>> # <<rows[h].label, rows[h].kick>>

\* The rows at an old kickoff move to the new one, by insert and delete; the
\* check looks for a row that is there already.
MovedOdds(after) ==
  {[o EXCEPT !.ts = IF o.ts = game[o.game].kick THEN after[o.game].kick ELSE @] : o \in priced}
OddsUnchecked(after) == FALSE
OddsCollide(after) ==
  \E o \in priced :
    /\ o.ts = game[o.game].kick /\ after[o.game].kick # o.ts
    /\ [o EXCEPT !.ts = after[o.game].kick] \in priced
NoneCollide(after) == NoneAlike(after) /\ ~OddsCollide(after)

\* PostgreSQL checks the unique key row by row, so a row that moves to where
\* another still is may fail the whole migration.
MayTrip(after) ==
  \E g, h \in Stored :
    g # h /\ after[g] # game[g] /\ after[g].kick = game[h].kick /\ after[h] # game[h]

-----------------------------------------------------------------------------
(* The migration: one transaction, which changes nothing if it stops.       *)

Seasons == [g \in Game |-> IF g \in Stored THEN [game[g] EXCEPT !.label = Relabelled(@)] ELSE NoGame]
Kickoffs0015(rows) ==
  [g \in Game |-> IF g \in FromFile
     THEN [rows[g] EXCEPT !.kick = Corrected(@).kick, !.known = Corrected(game[g].kick).known]
     ELSE rows[g]]
WithOriginals ==
  [g \in Game |-> IF g \in FromFile
     THEN [game[g] EXCEPT !.kick = Original(@, game[g].known)] ELSE game[g]]

\* backtest_features follows its fixture.
Followed(after) ==
  [g \in Game |-> IF tested[g] = NoGame THEN NoGame
                  ELSE [tested[g] EXCEPT !.kick = IF g \in FromFile THEN after[g].kick ELSE @,
                                         !.label = IF schema = "old" THEN Relabelled(@) ELSE @]]

\* The references of the file's adapter: the day is the old wall clock's.  Of
\* rows with the same reference, one gets it.
RefOf(g, after) == [game |-> g, label |-> after[g].label, day |-> DayAt(game[g].kick)]
SameRef(p, q) == p.label = q.label /\ p.day = q.day

Upgrade ==
  /\ schema = "old"
  /\ LET after == Kickoffs0015(Seasons)
         wanted == {RefOf(g, after) : g \in FromFile}
     IN /\ NoneAlike(Seasons) /\ NoneCollide(after)
        /\ game' = after
        /\ tested' = Followed(after)
        /\ priced' = MovedOdds(after)
        /\ refs' \in {kept \in SUBSET wanted :
                        /\ \A p \in wanted : \E q \in kept : SameRef(p, q)
                        /\ \A p, q \in kept : SameRef(p, q) => p = q}
  /\ schema' = "new"
  /\ before' = [kicks |-> {<<g, game[g].kick>> : g \in Stored}, odds |-> Cardinality(priced)]
  /\ UNCHANGED <<splitYear, stayed>>

Downgrade ==
  /\ schema = "new" /\ NoneCollide(WithOriginals)
  /\ game' = WithOriginals
  /\ tested' = Followed(WithOriginals)
  /\ priced' = MovedOdds(WithOriginals)
  /\ refs' = {}
  /\ schema' = "old"
  /\ UNCHANGED <<splitYear, stayed, before>>

\* _stop_on_conflicts, or the database: the operator is told, nothing changed.
Stop ==
  /\ IF schema = "old"
     THEN LET after == Kickoffs0015(Seasons)
          IN ~NoneAlike(Seasons) \/ ~NoneCollide(after) \/ MayTrip(after)
     ELSE ~NoneCollide(WithOriginals) \/ MayTrip(WithOriginals)
  /\ UNCHANGED migrationVars

-----------------------------------------------------------------------------
(* The data plane between migrations.                                       *)

\* A match as the adapter of the day stores it; the new one is stored under a
\* canonical label and with its reference.
StoreMatch(g, label, kick, source) ==
  LET row == IF schema = "old" \/ source # "football-data" THEN FileRow(label, kick, source)
             ELSE [FileRow(Relabelled(label), Corrected(kick).kick, source)
                     EXCEPT !.known = Corrected(kick).known]
  IN /\ game[g] = NoGame
     /\ \A h \in Stored : <<game[h].label, game[h].kick>> # <<row.label, row.kick>>
     /\ game' = [game EXCEPT ![g] = row]
     /\ IF schema = "old" \/ source # "football-data" THEN UNCHANGED refs
        ELSE /\ \A p \in refs : ~(p.label = row.label /\ p.day = DayAt(kick))
             /\ refs' = refs \cup {[game |-> g, label |-> row.label, day |-> DayAt(kick)]}
     /\ before' = Unkept
     /\ UNCHANGED <<schema, splitYear, tested, priced, stayed>>

\* A quote at the kickoff, or at another instant.
StoreQuote(g, ts) ==
  /\ g \in Stored /\ Cardinality(priced) < MaxOdds
  /\ [game |-> g, ts |-> ts] \notin priced
  /\ priced' = priced \cup {[game |-> g, ts |-> ts]}
  /\ stayed' = IF ts = game[g].kick THEN stayed \cup {g} ELSE stayed
  /\ before' = Unkept
  /\ UNCHANGED <<schema, splitYear, game, tested, refs>>

\* populate_backtest_features.
Populate(g) ==
  /\ g \in Stored /\ tested[g] = NoGame
  /\ tested' = [tested EXCEPT ![g] = game[g]]
  /\ UNCHANGED <<schema, splitYear, game, priced, refs, stayed, before>>

MigrationNext ==
  \/ Upgrade \/ Downgrade \/ Stop
  \/ \E g \in Game :
       \/ \E label \in Spelling, kick \in Moments, source \in {"football-data", "live"} :
            StoreMatch(g, label, kick, source)
       \/ \E ts \in Moments : StoreQuote(g, ts)
       \/ Populate(g)

MigrationSpec == MigrationInit /\ [][MigrationNext]_migrationVars

-----------------------------------------------------------------------------
(* Properties.                                                              *)

\* No migration merges, drops or strands a row, whatever it is run on and how
\* often it is run up and down: a quote stored at a kickoff stays at it, the
\* backtester's row follows its fixture, and the table's key holds
\* (_football_data_kickoffs, downgrade).
NothingIsStranded ==
  /\ NoneAlike(game)
  /\ \A g \in stayed : [game |-> g, ts |-> game[g].kick] \in priced
  /\ \A g \in Stored : tested[g] # NoGame =>
       tested[g].kick = game[g].kick /\ tested[g].label = game[g].label

\* No quote is merged or dropped on the way, and a downgrade brings back the
\* kickoffs of before the upgrade.
DowngradeRestores ==
  before # Unkept =>
    /\ Cardinality(priced) = before.odds
    /\ schema = "old" => before.kicks = {<<g, game[g].kick>> : g \in Stored}

\* What the migration leaves behind is what was there, under its new names.
NothingMerged == NothingIsStranded /\ DowngradeRestores

\* The claim of the migration: a re-run of the same file finds the rows.
EveryRowHasRef ==
  schema = "new" => \A g \in FromFile : \E p \in refs : p.game = g
=============================================================================
