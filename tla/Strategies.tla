----------------------------- MODULE Strategies -----------------------------
(***************************************************************************)
(* run_backtest takes one of the simple strategies, MarketMaker or         *)
(* MeanReversion, and runs it over one market: its events and the length   *)
(* of the tape go with the strategy.                                       *)
(***************************************************************************)
EXTENDS MarketMaker, MeanReversion

CONSTANT Market     \* of each strategy: [ids, events]

VARIABLE name       \* run_backtest's --strategy

OnItsMarket ==
    at = "feed" /\ at' = "drain" /\ event' # EndOfTape =>
        /\ event'.id \in Market[name].ids
        /\ seen < Market[name].events

STInit == \/ name = "mm" /\ MMInit
          \/ name = "meanrev" /\ MRInit

STNext ==
    /\ \/ name = "mm" /\ MMNext
       \/ name = "meanrev" /\ MRNext
    /\ OnItsMarket
    /\ UNCHANGED name

STSpec == STInit /\ [][STNext]_<<slVars, name>>

(***************************************************************************)
(* Each property is about one of the two.                                  *)
(***************************************************************************)

\* MarketMaker: what it remembers as its quote can still trade, and what it
\* loses sight of is the rest of a partly filled quote or a lost cancel's.
MakerKnowsItsQuotes == name = "mm" => OnlyPartFilledStray /\ RememberedIsOpen

\* MarketMaker: it quotes each side exactly while the cap allows, at the cap it
\* asks for nothing that adds to its position, and passes it only by what was out.
MakerQuotesToTheCap ==
    name = "mm" => QuotedUpToTheCap /\ NothingAddsAtTheCap /\ PositionWithinReach

\* MeanReversion: beyond an entry on top of less than one entry, the position
\* goes only by what was in flight at the decision.
TakerCapped == name = "meanrev" => PositionCapped

\* MeanReversion: a flatten passes zero only by what was in flight at the decision.
TakerFlattens == name = "meanrev" => FlattensToFlat
=============================================================================
