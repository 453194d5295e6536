-------------------------- MODULE MCMatchingEngine --------------------------
(***************************************************************************)
(* Small instances of MatchingEngine for TLC.  Order ids are only compared *)
(* for equality, so they may be permuted where only safety is checked.     *)
(***************************************************************************)
EXTENDS MatchingEngine

IdSymmetry == Permutations(OrderId)
=============================================================================
