-------------------------- MODULE MCAccountSecurity --------------------------
(* TLC instances of AccountSecurity: requests are interchangeable.          *)
EXTENDS AccountSecurity, TLC

RequestSymmetry == Permutations(Request)
=============================================================================
