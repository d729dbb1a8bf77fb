-------------------------- MODULE MCRefreshTokens --------------------------
(* TLC instances of RefreshTokens: rows and requests are interchangeable.   *)
EXTENDS RefreshTokens, TLC

RowSymmetry == Permutations(Token) \cup Permutations(Proc)
=============================================================================
