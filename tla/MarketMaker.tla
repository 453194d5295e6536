---------------------------- MODULE MarketMaker -----------------------------
(***************************************************************************)
(* The strategy of market_maker.hpp, run by the loop over the engine.      *)
(* inventory_ / max_pos_ * half_spread_, in doubles there, is exact here.  *)
(***************************************************************************)
EXTENDS StrategyLoop

CONSTANTS MakerSize, HalfSpread, MaxPos
ASSUME MMAssumption == MakerSize \in Nat \ {0} /\ HalfSpread \in Nat /\ MaxPos \in Nat \ {0}

MMInit == SLInit([last_mid |-> -1, bid_id |-> 0, ask_id |-> 0, inventory |-> 0,
                  have_quotes |-> FALSE])

Mid == (BestBid + BestAsk) \div 2

Skew == Trunc(st.inventory * HalfSpread, MaxPos)

\* Mutant: the cap is not looked at.
Uncapped(long) == MakerSize

\* bsz and asz.
Capped(long) == IF long < MaxPos THEN MakerSize ELSE 0

Unchanged == Mid = st.last_mid /\ st.have_quotes

\* Mutant: only the bid is withdrawn.
WithdrawBid == Withdraw(st.bid_id)

WithdrawQuotes == Withdraw(st.bid_id) \o Withdraw(st.ask_id)

MMOnMarketData ==
    IF ~TwoSided \/ Unchanged THEN OnMarketData(st, << >>, "none")
    ELSE LET bsz == Capped(st.inventory)
             asz == Capped(0 - st.inventory)
             bid == IF bsz = 0 THEN 0 ELSE next_our_id
             ask == IF asz = 0 THEN 0 ELSE IF bsz = 0 THEN next_our_id ELSE next_our_id + 1
         IN  OnMarketData([st EXCEPT !.last_mid = Mid, !.bid_id = bid, !.ask_id = ask,
                                     !.have_quotes = TRUE],
                 WithdrawQuotes
                   \o Place("Buy", "Limit", Mid - HalfSpread - Skew, bsz)
                   \o Place("Sell", "Limit", Mid + HalfSpread - Skew, asz), "quote")

MMOnFill(m, f) ==
    [m EXCEPT !.inventory = @ + SignedQty(f),
              !.bid_id = IF @ = f.order_id THEN 0 ELSE @,
              !.ask_id = IF @ = f.order_id THEN 0 ELSE @,
              !.have_quotes = FALSE]

MMNext == MMOnMarketData \/ ToldFill(MMOnFill(st, NextFill)) \/ SLStep

MMSpec == MMInit /\ [][MMNext]_slVars

(***************************************************************************)
(* Properties.                                                             *)
(***************************************************************************)
Remembered == {st.bid_id, st.ask_id} \ {0}

\* A quote the strategy has lost sight of while it can still trade is one that
\* was partly filled (on_fill forgets the id, line 38) or whose cancel was due
\* before it; any other is remembered or has its cancel on the way.
OnlyPartFilledStray ==
    Quiet => \A id \in DOMAIN orders :
        Open(id) /\ id \notin Remembered => Recalled(id) \/ filled[id] > 0

\* What the strategy remembers as its quote can still trade: on_fill and the
\* requote never leave it cancelling, or relying on, an order that is gone.
RememberedIsOpen == Quiet => \A id \in Remembered : Open(id)

\* A strategy that believes it has quotes out has one on each side where the
\* cap allows it, however fills and requotes alternate.
QuotedUpToTheCap ==
    Quiet /\ st.have_quotes =>
        /\ st.bid_id # 0 \/ st.inventory >= MaxPos
        /\ st.ask_id # 0 \/ st.inventory <= 0 - MaxPos

\* With its quotes out and the position at the cap, whatever could still add
\* to it is a stray or has its cancel on the way.
NothingAddsAtTheCap ==
    Quiet /\ st.have_quotes =>
        \A s \in Side : Toward(s, st.inventory) >= MaxPos =>
            \A id \in OpenQuotes(s) : Recalled(id) \/ filled[id] > 0

\* The overshoot is not asked for: the position passes the cap by less than one
\* quote and what earlier quotes had left out when it was placed.
PositionWithinReach == Contained(st.inventory, MaxPos + MakerSize - 1)
=============================================================================
