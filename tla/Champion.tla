------------------------------ MODULE Champion ------------------------------
(***************************************************************************)
(* The champion rule on its own: evaluation after evaluation of any        *)
(* registry with at most one champion, whatever each of them measures.     *)
(* How a registry gets there, and who else writes it, is ModelRegistry.    *)
(***************************************************************************)
EXTENDS ChampionRule

VARIABLES
  standing,   \* model_registry by (method, version)
  weighting   \* model_weighting.mode

championVars == <<standing, weighting>>

ChampionInit ==
  /\ weighting \in Mode
  /\ standing \in {r \in Rows : \A k, l \in Champions(r) : k = l}

\* reevaluate_champions with the lock: whatever it measured.
Evaluate ==
  /\ \E metrics \in Metrics : standing' = Select(standing, metrics, weighting)
  /\ UNCHANGED weighting

ChampionSpec == ChampionInit /\ [][Evaluate]_championVars

-----------------------------------------------------------------------------

\* Whatever the next evaluation measures, the title neither flips when it is
\* repeated nor on a narrow gap (apply_champion_selection).  An empty registry
\* has no title.
ChampionSettled ==
  standing # NoView =>
    \A metrics \in Metrics :
      /\ ReevaluationSettles(standing, metrics, weighting)
      /\ NarrowGapKeepsTitle(standing, metrics, weighting)

=============================================================================
