-------------------------- MODULE MCModelRegistry --------------------------
(***************************************************************************)
(* The model registry with the data behind it: the training that fills it, *)
(* the report on what training reads, the teams of the stored matches and  *)
(* the migration of their identities.  They meet only in the database, so  *)
(* a behaviour picks one part, which moves, and the others stay as they    *)
(* began.                                                                  *)
(***************************************************************************)
EXTENDS ModelRegistry, WalkForward, DataQuality, TeamIdentity, IdentityMigration, TLC

VARIABLE part   \* the part that moves

learningVars == <<part, vars, walkVars, qualityVars, identityVars, migrationVars>>

-----------------------------------------------------------------------------
(* Constants of the instance.                                               *)

\* Two methods, trained at any time; the admins are interchangeable.
Untrained == {<<1, 1>>, <<2, 1>>}
AdminSymmetry == Permutations(Admin)

\* Nine matches over four days, two of which may share an earlier one's slot,
\* on one day at most without a time of day; and a day with both kinds.
Matches == 1..9
Slot(simultaneous, i) == i - Cardinality({j \in simultaneous : j <= i})
Scheduled(simultaneous, dateOnly) ==
  [i \in Matches |->
     LET slot == Slot(simultaneous, i)
         timed == slot \div 3 \notin dateOnly
     IN [kick |-> IF timed THEN slot ELSE 3 * (slot \div 3) + 1, timed |-> timed,
         home |-> i % 3, away |-> (i + 1) % 3, league |-> i % 2]]
MixedDay == [Scheduled({}, {}) EXCEPT ![7].timed = FALSE]
AllSchedules ==
  {Scheduled(s, d) : s \in {x \in SUBSET (2..9) : Cardinality(x) <= 2},
                     d \in {x \in SUBSET (0..3) : Cardinality(x) <= 1}} \cup {MixedDay}
TrainCuts == <<<<3, 5>>, <<4, 5>>>>
FoldCuts == <<<<1, 4>>, <<1, 2>>, <<3, 4>>>>

\* The report: a label that is canonical and one that is not; two kickoffs.
StoredAs(kick, label, done) ==
  [kick |-> kick, season |-> label, finished |-> done,
   score |-> IF label = "2026" THEN "real" ELSE IF done THEN "none" ELSE "absurd"]
SomeFixtures ==
  <<{StoredAs(k, "2025-2026", done) : k \in {1, 3}, done \in BOOLEAN},
    {StoredAs(k, label, TRUE) : k \in {1, 3}, label \in Label}>>
SomeQuotes ==
  {q \in [outcome : Outcomes, ts : {1, 3}, usable : BOOLEAN, closing : BOOLEAN] :
     q.usable \/ q.closing}

\* The migration: the label of one year, which a league of one year keeps, and
\* the short form, which it cannot read.
TwoSpellings ==
  {[form |-> "single", first |-> 2026, second |-> 0],
   [form |-> "short", first |-> 26, second |-> 27]}

-----------------------------------------------------------------------------

\* Where the teams stay when they do not move.
AnyNames == CHOOSE f \in [Club -> Name] : Injective(f)

LearningInit ==
  /\ part \in {"registry", "training", "report", "teams", "migration"}
  /\ Init /\ (part # "registry" => mode = "auto")
  /\ WalkInit /\ (part # "training" => fx = MixedDay /\ finished = Match)
  /\ QualityInit
  /\ IdentityInit /\ (part # "teams" => called = AnyNames)
  /\ MigrationInit /\ (part # "migration" => splitYear)

Others(moving) ==
  /\ IF moving = "registry" THEN TRUE ELSE UNCHANGED vars
  /\ IF moving = "training" THEN TRUE ELSE UNCHANGED walkVars
  /\ IF moving = "report" THEN TRUE ELSE UNCHANGED qualityVars
  /\ IF moving = "teams" THEN TRUE ELSE UNCHANGED identityVars
  /\ IF moving = "migration" THEN TRUE ELSE UNCHANGED migrationVars

LearningNext ==
  /\ UNCHANGED part
  /\ \/ part = "registry" /\ Next
     \/ part = "training" /\ WalkNext
     \/ part = "report" /\ QualityNext
     \/ part = "teams" /\ IdentityNext
     \/ part = "migration" /\ MigrationNext
  /\ Others(part)

LearningSpec == LearningInit /\ [][LearningNext]_learningVars

=============================================================================
