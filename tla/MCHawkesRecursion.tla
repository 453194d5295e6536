-------------------------- MODULE MCHawkesRecursion --------------------------
(***************************************************************************)
(* Buys and sells under a fast and a slow component, with decays that      *)
(* differ by pair and include one that does not decay at all.              *)
(***************************************************************************)
EXTENDS HawkesRecursion

TwoScales ==
    [i \in Dim |-> [j \in Dim |-> IF i = j THEN [p \in Comp |-> p] ELSE [p \in Comp |-> 2 * (p - 1)]]]

Backgrounds == [i \in Dim |-> i + 1]
Excitations == [i \in Dim |-> [j \in Dim |-> [p \in Comp |-> 1 + i + 2 * j + p]]]
=============================================================================
