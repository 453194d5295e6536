------------------------ MODULE HawkesOFIMarketMaker ------------------------
(***************************************************************************)
(* The quoting of hawkes_ofi_mm.hpp, run by the loop over the engine.  The *)
(* fused signal is an arbitrary number of [-1, 1] (its weights add up to   *)
(* 1), so the skew is any that the inventory pull leaves within reach;     *)
(* modules Ofi and HawkesRecursion have what the signal is made of.        *)
(***************************************************************************)
EXTENDS StrategyLoop

CONSTANTS
    QuoteSize, BaseHalfSpread, MaxSkewTicks, MaxInventory,
    UnitsPerTick    \* 1 / inventory_gamma
ASSUME HMAssumption ==
    /\ QuoteSize \in Nat \ {0} /\ BaseHalfSpread \in Nat \ {0}
    /\ MaxSkewTicks \in Nat /\ MaxInventory \in Nat \ {0} /\ UnitsPerTick \in Nat \ {0}

HMInit == SLInit([bid_id |-> 0, ask_id |-> 0, inventory |-> 0])

\* std::round of n / d.
Round(n, d) == Trunc(2 * n + (IF n >= 0 THEN d ELSE 0 - d), 2 * d)

ClampSkew(x) == IF x > MaxSkewTicks THEN MaxSkewTicks
                ELSE IF x < 0 - MaxSkewTicks THEN 0 - MaxSkewTicks ELSE x

\* round(clamp(inv_skew + sig_skew)) over all signals.
Skews ==
    LET pull == 0 - st.inventory
        reach == MaxSkewTicks * UnitsPerTick
    IN  ClampSkew(Round(pull - reach, UnitsPerTick)) .. ClampSkew(Round(pull + reach, UnitsPerTick))

\* The branches at the cap: which sides are quoted.
QuotedSides ==
    IF st.inventory >= MaxInventory THEN {"Sell"}
    ELSE IF st.inventory <= 0 - MaxInventory THEN {"Buy"}
    ELSE Side

\* Mutant: cancel_quotes forgets the bid.
CancelOffer == Withdraw(st.ask_id)

CancelQuotes == Withdraw(st.bid_id) \o Withdraw(st.ask_id)

\* Mutant: inventory is not looked at.
QuoteAlways(s) == QuoteSize

Lots(s) == IF s \in QuotedSides THEN QuoteSize ELSE 0

\* bid_px and ask_px.
QuotePrice(s, mid, skew) ==
    IF s = "Buy" THEN mid - BaseHalfSpread + skew ELSE mid + BaseHalfSpread + skew

HMOnMarketData ==
    IF ~TwoSided THEN OnMarketData(st, << >>, "none")
    ELSE \E skew \in Skews :
           LET mid_px == (BestBid + BestAsk) \div 2
               quote(s) == Place(s, "Limit", QuotePrice(s, mid_px, skew), Lots(s))
               bid == quote("Buy")
               ask == quote("Sell")
           IN  OnMarketData(
                 [st EXCEPT !.bid_id = IF bid = << >> THEN 0 ELSE next_our_id,
                            !.ask_id = IF ask = << >> THEN 0 ELSE next_our_id + Len(bid)],
                 CancelQuotes \o bid \o ask, "quote")

\* Mutant: on_fill forgets the quote, as MarketMaker's does.
ForgetsQuote(m, f) ==
    [m EXCEPT !.inventory = @ + SignedQty(f),
              !.bid_id = IF @ = f.order_id THEN 0 ELSE @,
              !.ask_id = IF @ = f.order_id THEN 0 ELSE @]

HMOnFill(m, f) == [m EXCEPT !.inventory = @ + SignedQty(f)]

HMNext == HMOnMarketData \/ ToldFill(HMOnFill(st, NextFill)) \/ SLStep

HMSpec == HMInit /\ [][HMNext]_slVars

(***************************************************************************)
(* Properties.  The shipped latency is jittered, so cancels overtake their *)
(* orders and new quotes overtake the cancels of old ones.                 *)
(***************************************************************************)

\* on_fill keeps the ids, so partial fills leave no strays: every order that
\* can still trade is a current quote, has its cancel on the way, or is one
\* whose cancel was due before the order itself.
StraysAreLostCancels ==
    Quiet => \A id \in DOMAIN orders :
        Open(id) => id \in {st.bid_id, st.ask_id} \/ Recalled(id)

\* Quotes of two generations do meet, but only when the commands in between
\* overtook each other: one of the two was recalled and is still there.
MeetsOnlyRecalled ==
    OwnOnBothSides => \E f \in {fills[Len(fills)], fills[Len(fills) - 1]} : Recalled(f.order_id)

\* Lines 102-108: over the cap the strategy stops adding risk, but keeps
\* quoting the other side.  (With one side of the book gone it does not act.)
OverTheCapOnlyReduces ==
    at = "feed" /\ TwoSided =>
        \A s \in Side : Toward(s, st.inventory) >= MaxInventory =>
            /\ \A id \in OpenQuotes(s) : Recalled(id)
            /\ \E id \in OpenQuotes(Opposite(s)) : ~Recalled(id)

\* The cap stops one side only, and in time: the position passes it by less
\* than one quote and what earlier quotes had left out when it was placed.
InventoryContained ==
    OverTheCapOnlyReduces /\ Contained(st.inventory, MaxInventory + QuoteSize - 1)
=============================================================================
