---------------------------- MODULE MCLlmAnalysis ----------------------------
(* TLC instances of LlmAnalysis: requests are interchangeable.              *)
EXTENDS LlmAnalysis, TLC

RequestSymmetry == Permutations(Request)
=============================================================================
