--------------------------- MODULE MeanReversion ----------------------------
(***************************************************************************)
(* The strategy of mean_reversion.hpp, run by the loop over the engine.    *)
(* Mids are in half ticks.  The comparisons of the z-score are exact: with *)
(* n values of sum S and sum of squares Q, z^2 = (n x - S)^2 / (n Q - S^2),*)
(* and the deviation is zero exactly when n Q = S^2.                       *)
(***************************************************************************)
EXTENDS StrategyLoop

CONSTANTS Window, EntryZ, TakerSize
ASSUME MRAssumption == Window \in Nat \ {0} /\ EntryZ \in Nat /\ TakerSize \in Nat \ {0}

MRInit == SLInit([buf |-> << >>, pos |-> 0])

SumOf(q, f(_)) == FoldLeft(LAMBDA acc, x : acc + f(x), 0, q)

Push(q, x) == IF Len(q) = Window THEN Append(Tail(q), x) ELSE Append(q, x)

Distance(q) == Len(q) * Last(q) - SumOf(q, LAMBDA x : x)
Variance(q) == Len(q) * SumOf(q, LAMBDA x : x * x)
                 - SumOf(q, LAMBDA x : x) * SumOf(q, LAMBDA x : x)

\* z > entry_z, z < -entry_z and |z| < 0.5 of the last value.
High(q) == Distance(q) > 0 /\ Distance(q) * Distance(q) > EntryZ * EntryZ * Variance(q)
Low(q) == Distance(q) < 0 /\ Distance(q) * Distance(q) > EntryZ * EntryZ * Variance(q)
Near(q) == 4 * Distance(q) * Distance(q) < Variance(q)

\* Mutant: the position is not looked at before an entry.
RoomAlways(n) == TRUE

\* Room to add to a position that is n in the direction of the entry.
Room(n) == n < TakerSize

Take(s, p, n) == Place(s, "IOC", p, n)

Enter(q) ==
    IF High(q) /\ Room(0 - st.pos) THEN Take("Sell", BestBid, TakerSize)
    ELSE IF Low(q) /\ Room(st.pos) THEN Take("Buy", BestAsk, TakerSize)
    ELSE << >>

\* Mutant: a whole entry is traded back, whatever the position.
RevertEntry(q) ==
    IF ~Near(q) THEN << >>
    ELSE IF st.pos > 0 THEN Take("Sell", BestBid, TakerSize)
    ELSE IF st.pos < 0 THEN Take("Buy", BestAsk, TakerSize)
    ELSE << >>

\* Back to flat.
Revert(q) ==
    IF ~Near(q) THEN << >>
    ELSE IF st.pos > 0 THEN Take("Sell", BestBid, st.pos)
    ELSE IF st.pos < 0 THEN Take("Buy", BestAsk, 0 - st.pos)
    ELSE << >>

MROnMarketData ==
    IF ~TwoSided THEN OnMarketData(st, << >>, "none")
    ELSE LET q == Push(st.buf, BestBid + BestAsk)
             decide(commands, purpose) == OnMarketData([st EXCEPT !.buf = q], commands, purpose)
         IN  IF Len(q) < Window \/ Variance(q) = 0 THEN decide(<< >>, "none")
             ELSE IF Enter(q) # << >> THEN decide(Enter(q), "enter")
             ELSE decide(Revert(q), "revert")

MROnFill(m, f) == [m EXCEPT !.pos = @ + SignedQty(f)]

MRNext == MROnMarketData \/ ToldFill(MROnFill(st, NextFill)) \/ SLStep

MRSpec == MRInit /\ [][MRNext]_slVars

(***************************************************************************)
(* Properties.                                                             *)
(***************************************************************************)

\* An entry is decided on with less than TakerSize in its direction, as far as
\* on_fill has told.  The position goes beyond two entries by no more than what
\* was on its way to that side when the last order to it was decided on.
PositionCapped == Contained(st.pos, 2 * TakerSize - 1)

\* Line 31, "revert to flat": a flatten opens no position on the other side.  One
\* that is decided on while others are on their way there may, by no more than
\* those: the second flatten goes as far as the first one was meant to.
FlattensToFlat ==
    \A s \in Side : sent[s].purpose = "revert" => Toward(s, st.pos) <= sent[s].beside
=============================================================================
