----------------------------- MODULE Accounting -----------------------------
(***************************************************************************)
(* The loop of module Backtester with the portfolio it feeds: which fills  *)
(* reach Portfolio::on_fill, at which price and compared with which mid,   *)
(* and when the loop marks.  Every action of the loop is taken together    *)
(* with what it does to the portfolio; PF is that portfolio.               *)
(*                                                                         *)
(*   extra    ticks apply_our_order adds to the price of its taker fills,  *)
(*            0 outside of it                                              *)
(***************************************************************************)
EXTENDS Backtester

CONSTANTS
    MarkEvery,              \* Config::mark_every
    ImpactNum, ImpactDen    \* Config::slippage_impact, as a fraction

ASSUME MarkAssumption == MarkEvery \in Nat \ {0}
ASSUME ImpactAssumption == ImpactNum \in Nat /\ ImpactDen \in Nat \ {0}

VARIABLES
    extra,
    position, cash, avg_px, realized, last_mark, n_fills,
    directional, spread, ref_position, ref_mid, has_ref,
    traded_notional, edge_tracked, edge_positive

account == <<position, cash, avg_px, realized, last_mark, n_fills,
             directional, spread, ref_position, ref_mid, has_ref,
             traded_notional, edge_tracked, edge_positive>>

\* SlippageModel::extra_ticks: llround(impact * qty / visible).
ExtraTicks(qty, visible) ==
    IF visible <= 0 THEN 1
    ELSE (2 * ImpactNum * qty + ImpactDen * visible) \div (2 * ImpactDen * visible)

\* What the portfolio can be given.
MaxFills == MaxCommands * MaxQty
FillQty == 1 .. MaxQty
FillPrice ==
    {p + d : p \in Price, d \in (0 - ExtraTicks(MaxQty, 1)) .. ExtraTicks(MaxQty, 1)}
Mid == {p + q : p \in Price, q \in Price}

PF == INSTANCE Portfolio

\* current_mid in half ticks, 0 for an empty book.
CurrentMid ==
    LET bids == Prices(book, "Buy")
        asks == Prices(book, "Sell")
    IN  IF bids # {} /\ asks # {} THEN Best(book, "Buy") + Best(book, "Sell")
        ELSE IF bids # {} THEN 2 * Best(book, "Buy")
        ELSE IF asks # {} THEN 2 * Best(book, "Sell")
        ELSE 0

MarkNow == IF CurrentMid > 0 THEN PF!OnMark(CurrentMid) ELSE UNCHANGED account

OppositeVisible(s) ==
    LET o == Opposite(s)
    IN  IF Prices(book, o) = {} THEN 0 ELSE book.levels[o][Best(book, o)].total_qty

\* Mutant: slippage moves the price in the order's favour.
Favourable(f) ==
    IF at = "ours" /\ ~f.is_maker
      THEN [f EXCEPT !.price = IF f.side = "Buy" THEN @ - extra ELSE @ + extra]
      ELSE f

\* The fill as apply_our_order's callback passes it on.
Adjusted(f) ==
    IF at = "ours" /\ ~f.is_maker
      THEN [f EXCEPT !.price = IF f.side = "Buy" THEN @ + extra ELSE @ - extra]
      ELSE f

ACInit == BTInit /\ extra = 0 /\ PF!PFInit

NoAccount == UNCHANGED <<account, extra>>

AccountedFill ==
    /\ RouteFill
    /\ LET f == fills[told + 1]
       IN  IF Reported(f) THEN PF!OnFill(Adjusted(f), CurrentMid)
                          ELSE UNCHANGED account
    /\ UNCHANGED extra

SlippedOrder ==
    /\ DrainOrder
    /\ extra' = ExtraTicks(orders[Top.id].qty, OppositeVisible(orders[Top.id].side))
    /\ UNCHANGED account

SlippedOrderDone == OursDone /\ extra' = 0 /\ UNCHANGED account

\* run after the callbacks of an event (on_start has none).
SampledMark ==
    /\ EndCallback
    /\ IF event # EndOfTape /\ seen % MarkEvery = 0 THEN MarkNow ELSE UNCHANGED account
    /\ UNCHANGED extra

\* Mutant: mark_now(clock_) is called before the flush.
FinalMarkEarly ==
    /\ Drained
    /\ UNCHANGED <<account, extra>>

\* run's last mark, when the final flush has run dry.
FinalMark ==
    /\ Drained
    /\ IF event = EndOfTape THEN MarkNow ELSE UNCHANGED account
    /\ UNCHANGED extra

ACNext ==
    \/ \E o \in OwnOrders, lat \in Latency : SubmitOwn(o, lat) /\ NoAccount
    \/ \E id \in DOMAIN orders, lat \in Latency : CancelOwn(id, lat) /\ NoAccount
    \/ \E e \in Tape, gap \in Gaps : NextEvent(e, gap) /\ NoAccount
    \/ AccountedFill
    \/ SlippedOrder \/ SlippedOrderDone
    \/ SampledMark \/ FinalMark
    \/ (Flush \/ DrainCancel \/ ApplyCancel \/ ApplyOrder \/ TapeDone \/ EngineStep \/ Stopped)
         /\ NoAccount

ACSpec == ACInit /\ [][ACNext]_<<vars, extra, account>>

(***************************************************************************)
(* Properties.                                                             *)
(***************************************************************************)

\* The portfolio the loop drives is the one of module Portfolio: each of its
\* steps is a fill of ours or a mark, and both always come with a positive mid,
\* although the mid is read from the book in the middle of a match.
ImplementsPortfolio == PF!PFSpec

\* Spread PnL means what portfolio.hpp lines 65-70 say: read in the middle of
\* the match, the mid is never on the wrong side of a fill.  A maker never pays
\* the spread and a taker, whose price slippage moves further, never earns it.
MakersEarnTheSpread ==
    phase = "traded" /\ told < Len(fills) =>
        LET f == fills[told + 1]
            edge == PF!Edge(Adjusted(f), CurrentMid)
        IN  Reported(f) => IF f.is_maker THEN edge >= 0 ELSE edge <= 0

SignedFilled(id) == IF orders[id].side = "Buy" THEN filled[id] ELSE 0 - filled[id]

\* The portfolio holds what the strategy was told it traded, over all orders.
PositionsAgree ==
    position = SumFunctionOnSet([id \in DOMAIN orders |-> SignedFilled(id)], DOMAIN orders)

\* portfolio.hpp lines 118-120: when run has returned, directional and spread
\* PnL make up the total, whatever was filled since the last sampled mark and
\* in the flush, as long as the book the run leaves behind has a mid.
ResidualVanishes == at = "ended" /\ CurrentMid > 0 => PF!Residual = 0

\* What the loop keeps beside the strategy closes with it: the position at any
\* time, the decomposition once the run has returned.
AccountsClose == PositionsAgree /\ ResidualVanishes
=============================================================================
