-------------------------- MODULE MCPushDispatch ---------------------------
(* TLC instances of PushDispatch: jobs and fixtures are interchangeable.    *)
EXTENDS PushDispatch, TLC

DispatchSymmetry == Permutations(Job) \cup Permutations(Fixture)
=============================================================================
