---------------------------- MODULE ChampionRule ----------------------------
(***************************************************************************)
(* The rows of the model registry and the rule by which a re-evaluation    *)
(* picks the champion (apply_champion_selection), as a function from the   *)
(* rows and the metrics of one evaluation to the rows it leaves.           *)
(*                                                                         *)
(* Metrics are reduced to what the rule compares: a Brier score, or Unfit  *)
(* (a metric is not finite, or too few samples); log loss only breaks ties *)
(* and is left out.  A weight is reduced to who set it.                    *)
(***************************************************************************)
EXTENDS Naturals

CONSTANTS
  Method,        \* method names; integers stand for their name order
  Key,           \* the (method, version) pairs that may be trained (bound)
  MaxBrier,      \* Brier scores are 0..MaxBrier (bound)
  Margin         \* CHAMPION_MIN_BRIER_IMPROVEMENT, in the same unit

ASSUME KeyAssumption ==
  Method \subseteq Nat /\ Method # {} /\ Key \subseteq Method \X (Nat \ {0})
ASSUME BrierAssumption == MaxBrier \in Nat /\ Margin \in Nat \ {0}

Version == {k[2] : k \in Key}
Weight == {"auto", "manual"}  \* who set it: the rule, zero included, or an admin
Mode == {"auto", "manual"}
Row == [champion : BOOLEAN, enabled : BOOLEAN, weight : Weight]
NoRow == [champion |-> FALSE, enabled |-> FALSE, weight |-> "no row"]
Rows == [Key -> Row \cup {NoRow}]
NoView == [k \in Key |-> NoRow]
NewRow == [champion |-> FALSE, enabled |-> TRUE, weight |-> "auto"]

\* Metrics of one evaluation: for some methods, the version scored (the most
\* recently trained one, which any retraining may change) and its Brier
\* score, or Unfit.
Unfit == MaxBrier + 1
Metrics ==
  UNION {[scored -> [version : Version, brier : 0..Unfit]] : scored \in SUBSET Method}

Exists(rows, k) == k \in Key /\ rows[k] # NoRow
Champions(rows) == {k \in Key : Exists(rows, k) /\ rows[k].champion}

\* demote_champions, then the promotion of keep.
DemoteNobody(rows, keep) == [k \in Key |->
  IF k = keep THEN [rows[k] EXCEPT !.champion = TRUE] ELSE rows[k]]
DemoteKeepToo(rows, keep) == [k \in Key |->
  IF Exists(rows, k) THEN [rows[k] EXCEPT !.champion = (k = keep /\ ~@)] ELSE NoRow]
OnlyChampion(rows, keep) == [k \in Key |->
  IF Exists(rows, k) THEN [rows[k] EXCEPT !.champion = (k = keep)] ELSE NoRow]

Scored(m, metrics) == <<m, metrics[m].version>>

Eligible(rows, metrics) ==
  {m \in DOMAIN metrics : /\ Exists(rows, Scored(m, metrics))
                          /\ rows[Scored(m, metrics)].enabled
                          /\ metrics[m].brier # Unfit}

\* Lowest Brier score, then name.
Best(eligible, metrics) ==
  CHOOSE m \in eligible : \A o \in eligible :
    \/ metrics[m].brier < metrics[o].brier
    \/ metrics[m].brier = metrics[o].brier /\ m <= o

\* The champion's method, if it competes in this evaluation.
IncumbentRow(rows, eligible, metrics) ==
  {k[1] : k \in {c \in Champions(rows) : c[1] \in eligible /\ c = Scored(c[1], metrics)}}
Incumbents(rows, eligible, metrics) ==
  {k[1] : k \in Champions(rows)} \cap eligible

\* A gap below the margin leaves the title where it is.
TooClose(best, incumbent, metrics) ==
  metrics[incumbent].brier < metrics[best].brier + Margin

Winner(rows, eligible, metrics) ==
  LET best == Best(eligible, metrics)
      holders == Incumbents(rows, eligible, metrics)
  IN IF \E m \in holders : TooClose(best, m, metrics)
       THEN CHOOSE m \in holders : TRUE
       ELSE best

\* Every version of a method with a scored row gets the rule's weight (the
\* softmax if scored and eligible, else none); other methods keep theirs.
AutoWeights(rows, metrics) ==
  LET scored == {m \in DOMAIN metrics : Exists(rows, Scored(m, metrics))} IN
  [k \in Key |->
     IF Exists(rows, k) /\ k[1] \in scored
       THEN [rows[k] EXCEPT !.weight = "auto"] ELSE rows[k]]

Select(rows, metrics, weightMode) ==
  LET eligible == Eligible(rows, metrics)
      crowned == OnlyChampion(rows, Scored(Winner(rows, eligible, metrics), metrics))
  IN IF eligible = {} THEN rows
     ELSE IF weightMode = "auto" THEN AutoWeights(crowned, metrics) ELSE crowned

-----------------------------------------------------------------------------

\* Running the same evaluation twice changes nothing the second time, so a
\* repeated nightly run writes no snapshot (apply_champion_selection).
ReevaluationSettles(rows, metrics, weightMode) ==
  LET once == Select(rows, metrics, weightMode)
  IN Select(once, metrics, weightMode) = once

\* A re-evaluation takes the title from a method that still competes only for
\* a gap of at least the margin, also when the champion row is an older
\* version of the evaluated method.
NarrowGapKeepsTitle(rows, metrics, weightMode) ==
  LET eligible == Eligible(rows, metrics)
      after == Select(rows, metrics, weightMode)
  IN \A c \in Champions(rows), d \in Champions(after) :
       c[1] \in eligible /\ d[1] # c[1] =>
         metrics[d[1]].brier + Margin <= metrics[c[1]].brier

=============================================================================
