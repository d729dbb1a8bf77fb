----------------------------- MODULE MCIngestion -----------------------------
(* TLC instances of Ingestion.                                              *)
EXTENDS Ingestion

\* A first version, and one that moves the match by hours, one that moves it to
\* the next day and one that corrects the score.
Versions ==
  {[kick |-> 5, score |-> 1, quoted |-> TRUE], [kick |-> 4, score |-> 1, quoted |-> TRUE],
   [kick |-> 6, score |-> 2, quoted |-> TRUE], [kick |-> 5, score |-> 2, quoted |-> FALSE]}
=============================================================================
