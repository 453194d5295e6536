---------------------------- MODULE MCOrderFlow -----------------------------
(***************************************************************************)
(* A tape whose trades can empty the book and whose cancels can make it    *)
(* one-sided; three bid prices over a depth of two, so that a level can be *)
(* pushed out of the snapshot and come back.                               *)
(***************************************************************************)
EXTENDS OrderFlow

Event(t, s, p, n, i) == [type |-> t, side |-> s, price |-> p, qty |-> n, id |-> i]

SmallTape ==
    {Event("Add", "Buy", 1, 2, 1), Event("Add", "Sell", 3, 1, 2), Event("Add", "Sell", 4, 2, 3),
     Event("Cancel", "Buy", 1, 0, 1), Event("Trade", "Buy", 4, 2, 4), Event("Trade", "Sell", 1, 1, 5)}
=============================================================================
