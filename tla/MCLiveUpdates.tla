--------------------------- MODULE MCLiveUpdates ---------------------------
(* TLC instances of LiveUpdates: jobs are interchangeable.                  *)
EXTENDS LiveUpdates, TLC

TaskSymmetry == Permutations(Task)
=============================================================================
