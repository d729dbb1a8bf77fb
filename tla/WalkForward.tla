----------------------------- MODULE WalkForward -----------------------------
(***************************************************************************)
(* One training run over the finished matches: the rating passes walk the  *)
(* matches batch by batch, LightGBM and the consensus learn on time        *)
(* windows.  Numbers are left out: a rating, a probability or a fitted     *)
(* model is the set of matches whose results went into it.                 *)
(*                                                                         *)
(* Time is in slots, three to a day.  A match whose time of day is unknown *)
(* is stored at noon, the middle slot.                                     *)
(***************************************************************************)
EXTENDS Naturals, FiniteSets, Sequences

CONSTANTS
  Match, Team, League,
  Schedules,     \* the fixture tables to train on
  Late,          \* matches whose result may come while the training reads
  MinTotal,      \* MIN_TOTAL
  Floor,         \* the least rows of a window (MIN_TRAIN and its like)
  LightgbmCuts, ConsensusCuts, OofCuts  \* fractions, as <<part, whole>>

Fixture == [kick : Nat, timed : BOOLEAN, home : Team, away : Team, league : League]

ASSUME MatchAssumption == IsFiniteSet(Match) /\ Late \subseteq Match
\* A match without a time of day is stored at noon.
ASSUME ScheduleAssumption ==
  /\ Schedules \subseteq [Match -> Fixture]
  /\ \A table \in Schedules, m \in Match : ~table[m].timed => table[m].kick % 3 = 1
ASSUME FloorAssumption == MinTotal \in Nat /\ Floor \in Nat \ {0}
ASSUME CutAssumption ==
  \A cuts \in {LightgbmCuts, ConsensusCuts, OofCuts} :
    cuts \in Seq({c \in Nat \X (Nat \ {0}) : c[1] < c[2]})
ASSUME WindowAssumption == Len(LightgbmCuts) = 2 /\ Len(ConsensusCuts) = 2 /\ Len(OofCuts) = 3

VARIABLES
  fx,        \* fixtures; only whether a result is known changes
  finished,  \* the matches with a committed result
  listed,    \* those the training's first query returned
  tabled,    \* those the query of the feature table returned
  stage,     \* where the training is
  left,      \* the matches the current pass has not reached
  folded,    \* those it has folded into its state
  known,     \* what the state of a team was computed from
  seen       \* per result of the run: match -> what its number was computed from

walkVars == <<fx, finished, listed, tabled, stage, left, folded, known, seen>>

Rated == {"elo", "glicko2", "dixon_coles"}
Result == Rated \cup {"features", "lightgbm", "meta", "calibration", "consensus"}
Stage == {"start", "read", "table", "ratings", "lightgbm", "consensus", "done", "failed"}
Empty == [m \in {} |-> {}]
Nothing == [r \in Result |-> Empty]
Unrated == [t \in Team |-> {}]

WalkTypeOK ==
  /\ fx \in Schedules
  /\ finished \subseteq Match /\ listed \subseteq Match /\ tabled \subseteq Match
  /\ stage \in Stage
  /\ left \subseteq Match /\ folded \subseteq Match
  /\ known \in [Team -> SUBSET Match]
  /\ DOMAIN seen = Result
  /\ \A r \in Result :
       DOMAIN seen[r] \subseteq Match /\ seen[r] \in [DOMAIN seen[r] -> SUBSET Match]

WalkInit ==
  /\ fx \in Schedules
  /\ finished \in {Match, Match \ Late}
  /\ listed = {} /\ tabled = {} /\ left = {} /\ folded = {}
  /\ stage = "start" /\ known = Unrated /\ seen = Nothing

-----------------------------------------------------------------------------
(* The queries, each a statement of its own at READ COMMITTED.              *)

CommitResult(m) ==
  /\ m \in Late \ finished
  /\ finished' = finished \cup {m}
  /\ UNCHANGED <<fx, listed, tabled, stage, left, folded, known, seen>>

ReadFixtures ==
  /\ stage = "start" /\ finished # {}
  /\ listed' = finished
  /\ stage' = "read"
  /\ UNCHANGED <<fx, finished, tabled, left, folded, known, seen>>

ReadTable ==
  /\ stage = "read"
  /\ tabled' = finished /\ left' = finished
  /\ stage' = "table"
  /\ UNCHANGED <<fx, finished, listed, folded, known, seen>>

-----------------------------------------------------------------------------
(* The passes.                                                              *)

\* chronological_batches: the matches of the next kickoff instant.
NextInIdOrder == {CHOOSE m \in left : \A n \in left : fx[m].kick <= fx[n].kick}
Batch == {m \in left : \A n \in left : fx[m].kick <= fx[n].kick}

Sides(m) == {fx[m].home, fx[m].away}
RatingsOf(m) == known[fx[m].home] \cup known[fx[m].away]

\* _league_prior: the running mean of the league's matches.
LeaguePrior(m) == {n \in folded : fx[n].league = fx[m].league}
FeatureRow(m) == RatingsOf(m) \cup LeaguePrior(m)

\* A team's rating after the batch: from both sides' ratings before it and all
\* its results in the batch at once.
Rate(t, batch) ==
  known[t] \cup UNION {{m} \cup RatingsOf(m) : m \in {b \in batch : t \in Sides(b)}}
Update(batch) == [t \in Team |-> Rate(t, batch)]

Put(table, rows, Value(_)) ==
  [m \in DOMAIN table \cup rows |-> IF m \in rows THEN Value(m) ELSE table[m]]

\* build_feature_table: the rows of the batch, then _advance_batch.
AdvanceBatch ==
  /\ stage = "table" /\ left # {}
  /\ seen' = [seen EXCEPT !["features"] = Put(@, Batch, FeatureRow)]
  /\ known' = Update(Batch)
  /\ folded' = folded \cup Batch
  /\ left' = left \ Batch
  /\ UNCHANGED <<fx, finished, listed, tabled, stage>>

TableDone ==
  /\ stage = "table" /\ left = {}
  /\ stage' = "ratings"
  /\ left' = listed /\ folded' = {} /\ known' = Unrated
  /\ UNCHANGED <<fx, finished, listed, tabled, seen>>

\* _run_elo, _run_glicko and _run_dixon_coles, side by side: the last reads the
\* league average of every match before the batch.
RunElo(m) == RatingsOf(m)
RunGlicko(m) == RatingsOf(m)
RunDixonColes(m) == folded
RunPasses ==
  /\ stage = "ratings" /\ left # {}
  /\ seen' = [seen EXCEPT !["elo"] = Put(@, Batch, RunElo),
                          !["glicko2"] = Put(@, Batch, RunGlicko),
                          !["dixon_coles"] = Put(@, Batch, RunDixonColes)]
  /\ known' = Update(Batch)
  /\ folded' = folded \cup Batch
  /\ left' = left \ Batch
  /\ UNCHANGED <<fx, finished, listed, tabled, stage>>

PassesDone ==
  /\ stage = "ratings" /\ left = {}
  /\ stage' = "lightgbm"
  /\ UNCHANGED <<fx, finished, listed, tabled, left, folded, known, seen>>

-----------------------------------------------------------------------------
(* Time windows over the rows of the feature table.                         *)

Instants(rows) == {fx[m].kick : m \in rows}

\* The instant that has the given fraction of the distinct instants before it.
Boundary(rows, cut) ==
  LET instants == Instants(rows)
      n == Cardinality(instants)
      part == (n * cut[1]) \div cut[2]
      before == IF part < n THEN part ELSE n - 1
  IN CHOOSE t \in instants : Cardinality({s \in instants : s < t}) = before

\* Window k of temporal_windows, from 0: no instant is divided.
Window(rows, cuts, k) ==
  {m \in rows : /\ k > 0 => Boundary(rows, cuts[k]) <= fx[m].kick
                /\ k < Len(cuts) => fx[m].kick < Boundary(rows, cuts[k + 1])}
TemporalWindows(rows, cuts) == [k \in 0..Len(cuts) |-> Window(rows, cuts, k)]

\* assert_ordered_disjoint.
OrderedDisjoint(windows) ==
  \A i, j \in DOMAIN windows :
    i < j => \A m \in windows[i], n \in windows[j] : fx[m].kick < fx[n].kick

\* What a model fitted on rows has learnt: their labels and their features.
Fitted(rows) == rows \cup UNION {seen["features"][m] : m \in rows}

\* _stack: the base methods' numbers for a match, LightGBM's among them.
Stacked(m, model) ==
  model \cup seen["features"][m] \cup UNION {seen[r][m] : r \in Rated}

\* What the meta-model, or the calibration, has learnt from its inputs and their
\* labels; and a prediction of the consensus.
Learnt(table) == DOMAIN table \cup UNION {table[m] : m \in DOMAIN table}
Calibrated(m, base, meta, calibration) ==
  Stacked(m, base) \cup Learnt(meta) \cup Learnt(calibration)

TooFew == Cardinality(tabled) < MinTotal

\* train_lightgbm, or its explicit reason to skip.
TrainLightgbm ==
  /\ stage = "lightgbm"
  /\ LET w == TemporalWindows(tabled, LightgbmCuts)
         skip == TooFew \/ \E k \in 0..2 : Cardinality(w[k]) < Floor IN
     /\ OrderedDisjoint(w)
     /\ seen' = IF skip THEN seen
                ELSE [seen EXCEPT !["lightgbm"] =
                        [m \in w[2] |-> Fitted(w[0] \cup w[1]) \cup seen["features"][m]]]
  /\ stage' = "consensus"
  /\ UNCHANGED <<fx, finished, listed, tabled, left, folded, known>>

Windows == TemporalWindows(tabled, ConsensusCuts)
Region == Windows[0]
Blocks == TemporalWindows(Region, OofCuts)
MetaRows == Blocks[1] \cup Blocks[2] \cup Blocks[3]

\* The LightGBM that predicts a block is fitted on the blocks before it.
OofModel(b) == Fitted(UNION {Blocks[a] : a \in 0..(b - 1)})
MetaInput(m) ==
  LET b == CHOOSE c \in 1..3 : m \in Blocks[c] IN Stacked(m, OofModel(b))

\* A base method has not predicted a match that the table has.
BasesMissing == ~(tabled \subseteq listed)
TooSmall == \E rows \in {MetaRows, Windows[1], Windows[2]} : Cardinality(rows) < Floor
\* Cutting or fitting on no rows raises.
NoRows == Region = {} \/ (~TooSmall /\ Blocks[0] = {})

TrainConsensus ==
  /\ stage = "consensus"
  /\ ~TooFew /\ ~BasesMissing /\ ~NoRows /\ ~TooSmall
  /\ OrderedDisjoint(Windows) /\ OrderedDisjoint(Blocks)
  /\ LET meta == [m \in MetaRows |-> MetaInput(m)]
         calibration == [m \in Windows[1] |-> Stacked(m, Fitted(Region))]
         base == Fitted(Region \cup Windows[1])
     IN seen' = [seen EXCEPT
          !["meta"] = meta,
          !["calibration"] = calibration,
          !["consensus"] = [m \in Windows[2] |-> Calibrated(m, base, meta, calibration)]]
  /\ stage' = "done"
  /\ UNCHANGED <<fx, finished, listed, tabled, left, folded, known>>

\* train_consensus returns a reason: too few rows, a missing base, a small
\* window, or rows with one class of label only (labels are left out).
SkipConsensus ==
  /\ stage = "consensus"
  /\ TooFew \/ BasesMissing \/ Region # {}
  /\ stage' = "done"
  /\ UNCHANGED <<fx, finished, listed, tabled, left, folded, known, seen>>

\* An exception rolls the whole run back.
Raise ==
  /\ stage = "consensus"
  /\ ~TooFew /\ ~BasesMissing /\ NoRows
  /\ stage' = "failed" /\ seen' = Nothing
  /\ UNCHANGED <<fx, finished, listed, tabled, left, folded, known>>

Trained == stage \in {"done", "failed"} /\ UNCHANGED walkVars

WalkNext ==
  \/ \E m \in Match : CommitResult(m)
  \/ ReadFixtures \/ ReadTable
  \/ AdvanceBatch \/ TableDone \/ RunPasses \/ PassesDone
  \/ TrainLightgbm \/ TrainConsensus \/ SkipConsensus \/ Raise \/ Trained

WalkSpec == WalkInit /\ [][WalkNext]_walkVars

-----------------------------------------------------------------------------
(* Properties.                                                              *)

\* When a match was really played, as far as its row tells.
Day(t) == t \div 3
Earliest(m) == IF fx[m].timed THEN fx[m].kick ELSE 3 * Day(fx[m].kick)
Latest(m) == IF fx[m].timed THEN fx[m].kick ELSE 3 * Day(fx[m].kick) + 2

\* No day has matches with a known and with an unknown time.
UniformDays ==
  \A m, n \in Match : Day(fx[m].kick) = Day(fx[n].kick) => fx[m].timed = fx[n].timed

\* No number that training computes for a match, a feature, a rating's
\* prediction, an out-of-fold input of the stack, a calibration input or a
\* prediction of the learned methods, comes from a match that may have been
\* played at the same time or later (features, training, ml_training).
NoLookAhead ==
  \A r \in Result : \A m \in DOMAIN seen[r] : \A n \in seen[r][m] :
    Latest(n) < Earliest(m) \/ ~UniformDays

=============================================================================
