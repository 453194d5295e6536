---------------------------- MODULE MCStrategies ----------------------------
(***************************************************************************)
(* MarketMaker or MeanReversion in the loop: run_backtest takes one, and   *)
(* each gets the market that brings out what can go wrong with it.         *)
(*   MarketMaker: a market two units deep on either side of a spread of    *)
(*   four ticks, and aggressors that take quotes in part, whole, or with   *)
(*   the market behind them.                                               *)
(*   MeanReversion: offers that are added, withdrawn and taken move the    *)
(*   mid up, down and back.                                                *)
(* With gaps of 0 and 1 and a latency of 0 or 1, commands overtake each    *)
(* other and arrive before, between and after the events that follow.      *)
(***************************************************************************)
EXTENDS Strategies

Event(t, s, p, n, i) == [type |-> t, side |-> s, price |-> p, qty |-> n, id |-> i]

SpreadTape ==
    {Event("Add", "Sell", 5, 2, 51), Event("Add", "Buy", 1, 2, 52),
     Event("Trade", "Buy", 5, 1, 53), Event("Trade", "Sell", 1, 2, 54)}

MovingTape ==
    {Event("Add", "Buy", 1, 4, 61), Event("Add", "Sell", 6, 3, 62),
     Event("Add", "Sell", 3, 1, 63), Event("Trade", "Buy", 3, 1, 64),
     Event("Add", "Buy", 2, 2, 65), Event("Cancel", "Buy", 0, 0, 65)}

BothTapes == SpreadTape \cup MovingTape

Markets ==
    [mm |-> [ids |-> 51 .. 54, events |-> 5],
     meanrev |-> [ids |-> 61 .. 65, events |-> MaxEvents]]
=============================================================================
