---------------------------- MODULE MCBacktester ----------------------------
(***************************************************************************)
(* Small instances of Backtester for TLC.  Strategy ids count from 1; the  *)
(* tape's ids are above them.                                              *)
(***************************************************************************)
EXTENDS Backtester

Event(t, s, p, n, i) == [type |-> t, side |-> s, price |-> p, qty |-> n, id |-> i]

Own(s, t, p, n) == [side |-> s, type |-> t, price |-> p, qty |-> n]

\* Depth on both sides, aggressors that sweep through it, a withdrawal, and a
\* row with an empty quantity field.
SweepTape ==
    {Event("Add", "Sell", 2, 1, 11), Event("Add", "Buy", 1, 2, 12),
     Event("Trade", "Buy", 2, 2, 13), Event("Trade", "Sell", 1, 2, 14),
     Event("Add", "Buy", 2, 0, 14), Event("Cancel", "Buy", 0, 0, 12)}

\* Quotes at the touch, an aggressive limit order and a taker.
QuotesAndTakers ==
    {Own("Buy", "Limit", 1, 2), Own("Sell", "Limit", 2, 1),
     Own("Buy", "Limit", 2, 2), Own("Sell", "IOC", 1, 1)}
=============================================================================
