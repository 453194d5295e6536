----------------------- MODULE MCHawkesOFIMarketMaker -----------------------
(***************************************************************************)
(* A market two units deep on either side of four ticks, and aggressors    *)
(* that take one quote, or all that is out and the market behind it.       *)
(* Commands overtake each other, and events come while they are under way. *)
(***************************************************************************)
EXTENDS HawkesOFIMarketMaker

Event(t, s, p, n, i) == [type |-> t, side |-> s, price |-> p, qty |-> n, id |-> i]

WideTape ==
    {Event("Add", "Sell", 6, 2, 51), Event("Add", "Buy", 2, 2, 52),
     Event("Trade", "Buy", 6, 1, 53), Event("Trade", "Sell", 2, 4, 54)}

\* Bound: the book is there before the strategy has to act on it.
OpensWithABook ==
    at = "feed" /\ at' = "drain" /\ event' # EndOfTape =>
        (seen < 2 <=> event'.type = "Add") /\ (seen < 2 => event'.id = 51 + seen)
=============================================================================
