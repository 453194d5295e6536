----------------------------- MODULE Portfolio -----------------------------
(***************************************************************************)
(* The position and PnL accounting of portfolio.hpp under any sequence of  *)
(* fills and marks.                                                        *)
(*                                                                         *)
(* Prices are in half ticks (a mid price is the average of two ticks), so  *)
(* money is in half ticks times units and exact; tick_ and qty_scale_ are  *)
(* factors of every amount and left out.  cash counts from start_.  The    *)
(* average price, a quotient in the code, and the realised PnL are exact   *)
(* fractions.  curve_ is output only and left out.                         *)
(***************************************************************************)
EXTENDS Integers, FiniteSetsExt

CONSTANTS
    FillPrice,  \* prices of fills, in ticks
    FillQty,    \* quantities of fills
    Mid,        \* mids the portfolio is given with fills and marks, in half ticks
    MaxFills    \* bound: fills of a run

ASSUME FillAssumption == FillPrice \subseteq Int /\ FillQty \subseteq Nat \ {0}
ASSUME MidAssumption == Mid \subseteq Nat \ {0}

VARIABLES
    position, cash, avg_px, realized, last_mark, n_fills,
    directional, spread,            \* directional_pnl_, spread_pnl_
    ref_position, ref_mid, has_ref, \* the shared reference-mid timeline
    traded_notional, edge_tracked, edge_positive

ledger == <<position, cash, avg_px, realized, n_fills>>
clock == <<directional, ref_mid, has_ref>>
edges == <<spread, traded_notional, edge_tracked, edge_positive>>
pfVars == <<ledger, last_mark, clock, edges, ref_position>>

(***************************************************************************)
(* Fractions.                                                              *)
(***************************************************************************)
Ratio(n, d) ==
    LET g == Max({k \in 1 .. d : n % k = 0 /\ d % k = 0})
    IN  [num |-> n \div g, den |-> d \div g]

Zero == [num |-> 0, den |-> 1]

Abs(n) == IF n < 0 THEN 0 - n ELSE n

Lesser(m, n) == IF m < n THEN m ELSE n

PFInit ==
    /\ position = 0 /\ cash = 0 /\ n_fills = 0
    /\ avg_px = Zero /\ realized = Zero
    /\ last_mark = 0
    /\ directional = 0 /\ spread = 0
    /\ ref_position = 0 /\ ref_mid = 0 /\ has_ref = FALSE
    /\ traded_notional = 0 /\ edge_tracked = 0 /\ edge_positive = 0

(***************************************************************************)
(* on_fill.                                                                *)
(***************************************************************************)
\* The fill's quantity as a change of position.
Signed(f) == IF f.side = "Buy" THEN f.qty ELSE 0 - f.qty

\* Mutant: the PnL of the old position is not brought up to the new mid.
JumpClock(mid) ==
    /\ directional' = directional
    /\ ref_mid' = mid
    /\ has_ref' = TRUE

\* advance_pnl_clock.
AdvanceClock(mid) ==
    /\ directional' = IF has_ref THEN directional + ref_position * (mid - ref_mid)
                                 ELSE directional
    /\ ref_mid' = mid
    /\ has_ref' = TRUE

Opposed(sq) == (position > 0 /\ sq < 0) \/ (position < 0 /\ sq > 0)

\* The average price of the position after sq more units at px: weighted when
\* it grows, the fill's price when it changes sign, else what it was.
Averaged(px, sq) ==
    LET a == Abs(position)
        b == Abs(sq)
    IN  IF ~Opposed(sq)
          THEN Ratio(avg_px.num * a + px * b * avg_px.den, avg_px.den * (a + b))
        ELSE IF b > a THEN Ratio(px, 1)
        ELSE avg_px

\* Mutant: the whole fill is realised, also what goes beyond the position.
RealizedWhole(px, sq) ==
    IF Opposed(sq)
      THEN LET gain == IF position > 0 THEN px * avg_px.den - avg_px.num
                                       ELSE avg_px.num - px * avg_px.den
           IN  Ratio(realized.num * avg_px.den + gain * Abs(sq) * realized.den,
                     realized.den * avg_px.den)
      ELSE realized

\* Realised PnL once the part of the fill that reduces the position is closed.
Realized(px, sq) ==
    IF Opposed(sq)
      THEN LET closing == Lesser(Abs(sq), Abs(position))
               gain == IF position > 0 THEN px * avg_px.den - avg_px.num
                                       ELSE avg_px.num - px * avg_px.den
           IN  Ratio(realized.num * avg_px.den + gain * closing * realized.den,
                     realized.den * avg_px.den)
      ELSE realized

Edge(f, mid) == IF f.side = "Buy" THEN mid - 2 * f.price ELSE 2 * f.price - mid

RecordEdge(f, mid) ==
    /\ spread' = spread + Edge(f, mid) * f.qty
    /\ edge_tracked' = edge_tracked + 1
    /\ edge_positive' = IF Edge(f, mid) > 0 THEN edge_positive + 1 ELSE edge_positive

\* mid is 0 when there is no mid to compare with.
OnFill(f, mid) ==
    LET sq == Signed(f)
        px == 2 * f.price
    IN  /\ IF mid > 0 THEN AdvanceClock(mid) /\ RecordEdge(f, mid)
                      ELSE UNCHANGED <<clock, spread, edge_tracked, edge_positive>>
        /\ realized' = Realized(px, sq)
        /\ avg_px' = Averaged(px, sq)
        /\ cash' = cash - sq * px
        /\ position' = position + sq
        /\ n_fills' = n_fills + 1
        /\ traded_notional' = traded_notional + f.qty * px
        /\ ref_position' = position'
        /\ UNCHANGED last_mark

(***************************************************************************)
(* mark, which the loop calls with a positive mid only.                    *)
(***************************************************************************)
OnMark(mid) ==
    /\ AdvanceClock(mid)
    /\ last_mark' = mid
    /\ UNCHANGED <<ledger, edges, ref_position>>

Fills == [side : {"Buy", "Sell"}, price : FillPrice, qty : FillQty]

PFNext ==
    \/ \E f \in Fills, mid \in Mid : n_fills < MaxFills /\ OnFill(f, mid)
    \/ \E mid \in Mid : OnMark(mid)

PFSpec == PFInit /\ [][PFNext]_pfVars

(***************************************************************************)
(* Properties.                                                             *)
(***************************************************************************)
\* decomposition(): total PnL at the last mark minus the two components.
Residual == cash + position * last_mark - (directional + spread)

\* The claim behind decomposition(): whatever the order of fills and marks,
\* directional and spread PnL share one timeline, so what they leave of the
\* total is only the move since the last mark.  In particular it is 0 after a mark.
ResidualIsUnmarkedMove == Residual = position * (last_mark - ref_mid)

\* Realised and unrealised PnL add up to the total, through partial closes,
\* averaging in and flips through zero (realized(), unrealized(), pnl()).
RealizedAndUnrealizedAddUp ==
    realized.num * avg_px.den + position * (0 - avg_px.num) * realized.den
      = cash * realized.den * avg_px.den
=============================================================================
