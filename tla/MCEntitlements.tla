--------------------------- MODULE MCEntitlements ---------------------------
(* TLC instances of Entitlements: requests, users and cards are             *)
(* interchangeable.                                                         *)
EXTENDS Entitlements, TLC

AllOffers == {[type |-> "trial", expires |-> Forever], [type |-> "upgrade", expires |-> 2],
              [type |-> "discount", expires |-> Forever]}
EntitlementSymmetry ==
  Permutations(Request) \cup Permutations(User) \cup Permutations(Card)
=============================================================================
