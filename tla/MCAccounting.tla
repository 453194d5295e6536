---------------------------- MODULE MCAccounting ----------------------------
(***************************************************************************)
(* Small instances of Accounting for TLC.                                  *)
(***************************************************************************)
EXTENDS Accounting

Event(t, s, p, n, i) == [type |-> t, side |-> s, price |-> p, qty |-> n, id |-> i]

Own(s, t, p, n) == [side |-> s, type |-> t, price |-> p, qty |-> n]

\* Two levels of asks and one of bids, and an aggressor against each side.
TwoLevelTape ==
    {Event("Add", "Sell", 3, 1, 11), Event("Add", "Sell", 4, 1, 12),
     Event("Add", "Buy", 2, 2, 13),
     Event("Trade", "Buy", 4, 2, 14), Event("Trade", "Sell", 2, 2, 15)}

\* A quote on each side and takers that sweep both levels.
QuotesAndSweeps ==
    {Own("Buy", "Limit", 2, 1), Own("Sell", "Limit", 4, 2),
     Own("Buy", "IOC", 4, 2), Own("Sell", "Limit", 2, 1)}
=============================================================================
