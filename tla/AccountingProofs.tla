-------------------------- MODULE AccountingProofs --------------------------
(***************************************************************************)
(* The money side of a backtest for every tape, latency and strategy: what *)
(* the loop tells the portfolio while the engine is in the middle of a     *)
(* match, and what the portfolio makes of it by the end of the run.        *)
(***************************************************************************)
EXTENDS Accounting, BacktesterProofs

acVars == <<vars, extra, account>>

(***************************************************************************)
(* The portfolio only listens: the loop takes the steps of module          *)
(* Backtester, so what is proved there holds here.                         *)
(***************************************************************************)
LEMMA AccountingStepsLoop ==
    ASSUME [ACNext]_acVars
    PROVE  [BTNext]_vars
<1>1. CASE \E o \in OwnOrders, lat \in Latency : SubmitOwn(o, lat) /\ NoAccount
    BY <1>1 DEF BTNext
<1>2. CASE \E id \in DOMAIN orders, lat \in Latency : CancelOwn(id, lat) /\ NoAccount
    BY <1>2 DEF BTNext
<1>3. CASE \E e \in Tape, gap \in Gaps : NextEvent(e, gap) /\ NoAccount
    BY <1>3 DEF BTNext
<1>4. CASE AccountedFill \/ SlippedOrder \/ SlippedOrderDone \/ SampledMark \/ FinalMark
    BY <1>4 DEF AccountedFill, SlippedOrder, SlippedOrderDone, SampledMark, FinalMark,
                BTNext, BTStep
<1>5. CASE (Flush \/ DrainCancel \/ ApplyCancel \/ ApplyOrder \/ TapeDone \/ EngineStep
              \/ Stopped) /\ NoAccount
    BY <1>5 DEF BTNext, BTStep
<1>6. CASE UNCHANGED acVars
    BY <1>6 DEF acVars
<1> QED
    BY <1>1, <1>2, <1>3, <1>4, <1>5, <1>6 DEF ACNext

\* The loop with a portfolio is the loop of module Backtester: what the portfolio
\* does never holds up, reorders or adds a step of it.
THEOREM AccountingUsesLoop == ACSpec => BTSpec
<1>1. ACInit => BTInit
    BY DEF ACInit
<1>2. [ACNext]_acVars => [BTNext]_vars
    BY AccountingStepsLoop
<1> QED
    BY <1>1, <1>2, PTL DEF ACSpec, BTSpec, acVars

\* What a callback sees is the trade just made, and slippage never favours the
\* strategy.
FInv == extra \in Nat /\ LastTrade

\* llround of a quotient of non-negative quantities.
LEMMA QuotientType ==
    ASSUME NEW a \in Nat, NEW b \in Nat \ {0}
    PROVE  a \div b \in Nat /\ (a \div b) * b <= a /\ a < (a \div b + 1) * b
OBVIOUS

LEMMA ExtraTicksType ==
    ASSUME NEW q \in Nat, NEW v \in Int
    PROVE  ExtraTicks(q, v) \in Nat
<1>1. CASE v <= 0
    BY <1>1 DEF ExtraTicks
<1>2. CASE v > 0
    <2>1. /\ 2 * ImpactNum * q + ImpactDen * v \in Nat
          /\ 2 * ImpactDen * v \in Nat \ {0}
        BY <1>2, ImpactAssumption
    <2> QED
        BY <1>2, <2>1, QuotientType DEF ExtraTicks
<1> QED
    BY <1>1, <1>2

LEMMA StepExtra ==
    ASSUME BInv, extra \in Nat, [ACNext]_acVars
    PROVE  extra' \in Nat
<1>1. CASE SlippedOrder
    <2>1. /\ at = "drain" /\ Due
          /\ extra' = ExtraTicks(orders[Top.id].qty, OppositeVisible(orders[Top.id].side))
        BY <1>1 DEF SlippedOrder, DrainOrder
    <2>2. Top \in pending /\ LoopTypes /\ InFlight
        BY <2>1, TopIsFirst DEF BInv, LInv, Due
    <2>3. orders[Top.id] \in OwnOrder
        BY <2>2 DEF LoopTypes, InFlight
    <2>4. orders[Top.id].qty \in Nat /\ orders[Top.id].side \in Side
        BY <2>3, MaxQtyAssumption DEF OwnOrder, Quantity
    <2>5. OppositeVisible(orders[Top.id].side) \in Int
        <3>1. \A s \in Side : Opposite(s) \in Side
            BY DEF Opposite, Side
        <3>2. IsBook(book)
            BY InvBook DEF BInv
        <3>3. ASSUME NEW s \in Side, Prices(book, s) # {}
              PROVE  book.levels[s][Best(book, s)].total_qty \in Int
            BY <3>2, <3>3, BestIsBest DEF IsBook, Prices, PriceLevel
        <3> QED
            BY <2>4, <3>1, <3>3 DEF OppositeVisible
    <2> QED
        BY <2>1, <2>4, <2>5, ExtraTicksType
<1>2. CASE SlippedOrderDone
    BY <1>2 DEF SlippedOrderDone
<1>3. CASE extra' = extra
    BY <1>3
<1> QED
    BY <1>1, <1>2, <1>3 DEF ACNext, NoAccount, AccountedFill, SampledMark, FinalMark, acVars

LEMMA FillsInvariant == ACSpec => [](BInv /\ FInv)
<1>1. ACInit => FInv
    BY DEF ACInit, BTInit, Init, FInv, LastTrade
<1>2. BInv /\ FInv /\ [ACNext]_acVars => FInv'
    BY AccountingStepsLoop, LoopCovers, StepLastTrade, StepExtra DEF FInv, BInv
<1> QED
    BY <1>1, <1>2, AccountingUsesLoop, LoopInvariant, PTL DEF ACSpec, acVars

\* Which of the two legs of the trade route_fill is called for.
LEMMA LegInQuestion ==
    ASSUME BInv, LastTrade, phase = "traded", told < Len(fills)
    PROVE  LET f == fills[told + 1]
           IN  /\ f \in Fill /\ f.price = Best(book, Opp) /\ f.qty > 0
               /\ f.side = IF f.is_maker THEN Opp ELSE in.side
<1>1. /\ told \in Nat /\ told >= Len(fills) - 2 /\ Len(fills) \in Nat
    BY DEF BInv, Routing, IInv, TypeOK
<1>2. told + 1 = Len(fills) - 1 \/ told + 1 = Len(fills)
    BY <1>1
<1>3. fills[told + 1] \in Fill
    BY FillInQuestion DEF BInv
<1> QED
    BY <1>2, <1>3 DEF LastTrade

\* A maker never pays the spread and a taker never earns it, whatever slippage
\* is added: the mid the portfolio compares a fill with is read in the middle
\* of the match, with the level that traded still on the book.
THEOREM MakersEarn == ACSpec => []MakersEarnTheSpread
<1>1. ASSUME BInv, FInv
      PROVE  MakersEarnTheSpread
    <2> SUFFICES ASSUME phase = "traded", told < Len(fills)
                 PROVE  LET f == fills[told + 1]
                            edge == PF!Edge(Adjusted(f), CurrentMid)
                        IN  IF f.is_maker THEN edge >= 0 ELSE edge <= 0
        BY DEF MakersEarnTheSpread
    <2> DEFINE f == fills[told + 1]
               p == Best(book, Opp)
               s == in.side
    <2>1. /\ f \in Fill /\ f.price = p /\ f.side = IF f.is_maker THEN Opp ELSE s
        BY <1>1, LegInQuestion DEF FInv
    <2>2. IsBook(book) /\ s \in Side /\ Opp \in Side /\ Opp = Opposite(s)
        BY <1>1, InvBook DEF BInv, Opp
    <2>3. Prices(book, Opp) # {} /\ NotCrossed(book)
        BY <1>1 DEF BInv, IInv, BookUncrossed
    <2>4. \A t \in Side : Prices(book, t) # {} => Best(book, t) \in Prices(book, t)
        BY <2>2, BestIsBest
    <2>5. \A t \in Side : Prices(book, t) \subseteq Int
        BY <2>2, PriceAssumption DEF IsBook
    <2>6. p \in Int /\ p \in Prices(book, Opp)
        BY <2>2, <2>3, <2>4, <2>5
    <2>7. extra \in Nat
        BY <1>1 DEF FInv
    <2> DEFINE g == Adjusted(f)
    <2>8. /\ g.side = f.side /\ g.price \in Int
          /\ IF f.is_maker THEN g.price = p
             ELSE IF f.side = "Buy" THEN g.price >= p ELSE g.price <= p
        <3> HIDE DEF f, p
        <3>1. f.price \in Int
            BY <2>1, <2>6
        <3>2. g = f \/ (~f.is_maker
                         /\ g = [f EXCEPT !.price = IF f.side = "Buy" THEN f.price + extra
                                                                      ELSE f.price - extra])
            BY DEF Adjusted
        <3> QED
            BY <2>1, <2>7, <3>1, <3>2 DEF Fill
    <2>9. CASE s = "Buy"
        <3>1. Opp = "Sell" /\ p = Best(book, "Sell") /\ Prices(book, "Sell") # {}
            BY <2>2, <2>3, <2>9 DEF Opposite
        <3>2. /\ CurrentMid \in Int /\ CurrentMid <= 2 * p
            BY <2>3, <2>4, <2>5, <2>6, <3>1 DEF CurrentMid, NotCrossed, Side
        <3> HIDE DEF f, g, p, s
        <3>3. PF!Edge(g, CurrentMid) = IF g.side = "Buy" THEN CurrentMid - 2 * g.price
                                       ELSE 2 * g.price - CurrentMid
            BY DEF PF!Edge
        <3> QED
            BY <2>1, <2>6, <2>8, <2>9, <3>1, <3>2, <3>3 DEF g, f
    <2>10. CASE s = "Sell"
        <3>1. Opp = "Buy" /\ p = Best(book, "Buy") /\ Prices(book, "Buy") # {}
            BY <2>2, <2>3, <2>10 DEF Opposite
        <3>2. /\ CurrentMid \in Int /\ CurrentMid >= 2 * p
            BY <2>3, <2>4, <2>5, <2>6, <3>1 DEF CurrentMid, NotCrossed, Side
        <3> HIDE DEF f, g, p, s
        <3>3. PF!Edge(g, CurrentMid) = IF g.side = "Buy" THEN CurrentMid - 2 * g.price
                                       ELSE 2 * g.price - CurrentMid
            BY DEF PF!Edge
        <3> QED
            BY <2>1, <2>6, <2>8, <2>10, <3>1, <3>2, <3>3 DEF g, f
    <2> QED
        BY <2>2, <2>9, <2>10 DEF Side
<1> QED
    BY <1>1, FillsInvariant, PTL

(***************************************************************************)
(* Position and fills.  The sums run over the strategy's orders; a fill    *)
(* changes one term of each, a new order adds a zero.                      *)
(***************************************************************************)
Holdings == [id \in DOMAIN orders |-> SignedFilled(id)]

\* The portfolio's position, and that each fill it has counted was for something.
HInv ==
    /\ position = SumFunctionOnSet(Holdings, DOMAIN orders)
    /\ n_fills \in Nat /\ n_fills <= SumFunctionOnSet(filled, DOMAIN orders)

LEMMA HoldingsSummable ==
    ASSUME BInv
    PROVE  /\ Summable(Holdings, DOMAIN orders) /\ Summable(filled, DOMAIN orders)
           /\ position = SumFunctionOnSet(Holdings, DOMAIN orders) => position \in Int
           /\ SumFunctionOnSet(filled, DOMAIN orders) \in Int
<1>1. /\ DOMAIN orders = 1 .. Len(orders) /\ Len(orders) \in Nat
      /\ \A id \in DOMAIN orders : filled[id] \in Int
    BY OwnIds, OwnTypes DEF BInv, LInv
<1>2. IsFiniteSet(DOMAIN orders)
    BY <1>1, FS_Interval
<1>3. \A id \in DOMAIN orders : Holdings[id] \in Int
    BY <1>1 DEF Holdings, SignedFilled
<1>4. Summable(Holdings, DOMAIN orders) /\ Summable(filled, DOMAIN orders)
    BY <1>1, <1>2, <1>3 DEF Summable
<1> QED
    BY <1>4, SumType

LEMMA KeptHInv ==
    ASSUME HInv, orders' = orders, filled' = filled, position' = position, n_fills' = n_fills
    PROVE  HInv'
    BY DEF HInv, Holdings, SignedFilled

LEMMA SubmitHInv ==
    ASSUME BInv, HInv, NEW o \in OwnOrders, NEW lat \in Latency, SubmitOwn(o, lat),
           position' = position, n_fills' = n_fills
    PROVE  HInv'
<1> DEFINE D == DOMAIN orders
           k == Len(orders) + 1
<1>1. PICK r : orders' = Append(orders, r) /\ filled' = Append(filled, 0)
    BY DEF SubmitOwn
<1>2. /\ orders \in Seq(OwnOrder) /\ filled \in Seq(Int) /\ Len(filled) = Len(orders)
      /\ D = 1 .. Len(orders) /\ Len(orders) \in Nat
    BY OwnIds DEF BInv, LInv, LoopTypes
<1>3. /\ DOMAIN orders' = D \cup {k} /\ k \notin D
      /\ filled'[k] = 0
      /\ \A id \in D : orders'[id] = orders[id] /\ filled'[id] = filled[id]
    BY <1>1, <1>2
<1>4. Holdings' = [id \in D \cup {k} |-> IF orders'[id].side = "Buy" THEN filled'[id]
                                                                     ELSE 0 - filled'[id]]
    BY <1>3 DEF Holdings, SignedFilled
<1>5. Holdings'[k] = 0 /\ \A id \in D : Holdings'[id] = Holdings[id]
    <2> HIDE DEF k
    <2> QED
        BY <1>3, <1>4 DEF Holdings, SignedFilled
<1>6. Summable(Holdings, D) /\ Summable(filled, D)
    BY HoldingsSummable
<1> HIDE DEF D, k
<1>7. /\ Summable(Holdings', D) /\ SumFunctionOnSet(Holdings, D) = SumFunctionOnSet(Holdings', D)
      /\ Summable(filled', D) /\ SumFunctionOnSet(filled, D) = SumFunctionOnSet(filled', D)
    BY <1>3, <1>5, <1>6, SumSame
<1>8. /\ SumFunctionOnSet(Holdings', D \cup {k}) = SumFunctionOnSet(Holdings', D) + 0
      /\ SumFunctionOnSet(filled', D \cup {k}) = SumFunctionOnSet(filled', D) + 0
    BY <1>3, <1>5, <1>7, SumAdd
<1>9. SumFunctionOnSet(Holdings', D) \in Int /\ SumFunctionOnSet(filled', D) \in Int
    BY <1>7, SumType
<1>10. position = SumFunctionOnSet(Holdings, D) /\ n_fills \in Nat
       /\ n_fills <= SumFunctionOnSet(filled, D)
    BY DEF HInv, D
<1>11. /\ position' = SumFunctionOnSet(Holdings', D \cup {k})
       /\ n_fills' \in Nat /\ n_fills' <= SumFunctionOnSet(filled', D \cup {k})
    BY <1>7, <1>8, <1>9, <1>10
<1> QED
    BY <1>3, <1>11 DEF HInv

\* A fill of ours belongs to an order the strategy was given an id for, on that
\* order's side, and the order had as much left to report.
LEMMA RoomForFill ==
    ASSUME BInv, OInv, LastTrade, phase = "traded", told < Len(fills),
           Reported(fills[told + 1])
    PROVE  LET f == fills[told + 1]
           IN  /\ f.order_id \in DOMAIN orders /\ f.side = orders[f.order_id].side
               /\ f.qty \in Quantity /\ f.qty > 0
               /\ filled[f.order_id] + f.qty <= MaxQty
<1> DEFINE f == fills[told + 1]
           id == f.order_id
<1>1. /\ told \in Nat /\ told >= Len(fills) - 2 /\ Len(fills) \in Nat /\ fills \in Seq(Fill)
    BY DEF BInv, Routing, IInv, TypeOK
<1>2. told + 1 \in DOMAIN fills
    BY <1>1
<1>3. id \in DOMAIN orders /\ f.side = orders[id].side /\ f.is_ours
    BY <1>2 DEF OInv, Ownership, Belongs, Reported
<1>4. f \in Fill /\ f.qty > 0
    BY LegInQuestion
<1>5. f.qty \in Quantity
    BY <1>4 DEF Fill
<1>6. LegQty(told + 1, id) = f.qty
    BY <1>3 DEF LegQty
<1>7. LegQty(Len(fills), id) \in Nat
    <2>1. Len(fills) \in DOMAIN fills
        BY <1>1, <1>2
    <2>2. fills[Len(fills)] \in Fill
        BY <1>1, <2>1
    <2>3. fills[Len(fills)].qty \in Nat
        BY <2>2, MaxQtyAssumption DEF Fill, Quantity
    <2> QED
        BY <2>3 DEF LegQty
<1>8. UnroutedQty(id) >= f.qty /\ UnroutedQty(id) \in Int
    <2>1. f.qty \in Nat
        BY <1>5, MaxQtyAssumption DEF Quantity
    <2>2. CASE told + 2 = Len(fills)
        <3>1. LegQty(Len(fills) - 1, id) = f.qty
            <4>1. Len(fills) - 1 = told + 1
                BY <1>1, <2>2
            <4> QED
                BY <1>6, <4>1
        <3>2. UnroutedQty(id) = LegQty(Len(fills) - 1, id) + LegQty(Len(fills), id)
            BY <1>1, <2>2 DEF UnroutedQty
        <3> HIDE DEF f, id
        <3> QED
            BY <1>7, <2>1, <3>1, <3>2
    <2>3. CASE told + 1 = Len(fills)
        <3>1. UnroutedQty(id) = 0 + f.qty
            BY <1>1, <1>6, <2>3 DEF UnroutedQty
        <3> HIDE DEF f, id
        <3> QED
            BY <2>1, <3>1
    <2> QED
        BY <1>1, <2>2, <2>3
<1>9. /\ RestingQty(id) \in Nat /\ WorkingQty(id) \in Nat /\ PendingQty(id) \in Nat
      /\ filled[id] \in Int
    BY <1>3, OwnTypes
<1>10. filled[id] + UnroutedQty(id) + OpenQty(id) <= orders[id].qty
    BY <1>3 DEF OInv, Accounted, KnownQty
<1>11. orders[id].qty \in Quantity
    <2>1. orders \in Seq(OwnOrder)
        BY DEF BInv, LInv, LoopTypes
    <2>2. orders[id] \in OwnOrder
        BY <1>3, <2>1
    <2> QED
        BY <2>2 DEF OwnOrder
<1>12. OpenQty(id) \in Nat
    BY <1>9 DEF OpenQty
<1> HIDE DEF f, id
<1>13. filled[id] + f.qty <= MaxQty
    BY <1>5, <1>8, <1>9, <1>10, <1>11, <1>12, MaxQtyAssumption DEF Quantity
<1> QED
    BY <1>3, <1>4, <1>5, <1>13 DEF f, id

LEMMA FillHInv ==
    ASSUME BInv, OInv, LastTrade, HInv, AccountedFill
    PROVE  HInv'
<1> DEFINE f == fills[told + 1]
           k == f.order_id
           D == DOMAIN orders
<1>1. /\ RouteFill /\ phase = "traded" /\ told < Len(fills) /\ orders' = orders
      /\ filled' = IF Reported(f) THEN [filled EXCEPT ![k] = filled[k] + f.qty] ELSE filled
      /\ IF Reported(f) THEN PF!OnFill(Adjusted(f), CurrentMid) ELSE UNCHANGED account
    BY DEF AccountedFill, RouteFill, ownVars
<1>2. CASE ~Reported(f)
    BY <1>1, <1>2, KeptHInv DEF account
<1>3. CASE Reported(f)
    <2>1. /\ k \in D /\ f.side = orders[k].side /\ f.qty \in Nat /\ f.qty > 0
        BY <1>1, <1>3, RoomForFill, MaxQtyAssumption DEF Quantity
    <2>2. Adjusted(f).side = f.side /\ Adjusted(f).qty = f.qty
        <3>1. f \in Fill
            BY <1>1, LegInQuestion
        <3> HIDE DEF f
        <3> QED
            BY <3>1 DEF Adjusted, Fill
    <2>3. /\ position' = position + (IF f.side = "Buy" THEN f.qty ELSE 0 - f.qty)
          /\ n_fills' = n_fills + 1
        BY <1>1, <1>3, <2>2 DEF PF!OnFill, PF!Signed
    <2>4. /\ Summable(Holdings, D) /\ Summable(filled, D)
          /\ D = DOMAIN filled
        BY HoldingsSummable, OwnIds DEF BInv, LInv
    <2>5. /\ filled'[k] = filled[k] + f.qty
          /\ \A id \in D \ {k} : filled'[id] = filled[id]
          /\ filled[k] \in Int
        <3> HIDE DEF f, k
        <3> QED
            BY <1>1, <1>3, <2>1, <2>4 DEF Summable
    <2>6. /\ Holdings'[k] = Holdings[k] + (IF f.side = "Buy" THEN f.qty ELSE 0 - f.qty)
          /\ Holdings'[k] \in Int /\ Holdings[k] \in Int
          /\ \A id \in D \ {k} : Holdings'[id] = Holdings[id]
        <3>1. /\ Holdings = [id \in D |-> IF orders[id].side = "Buy" THEN filled[id]
                                                                    ELSE 0 - filled[id]]
              /\ Holdings' = [id \in D |-> IF orders[id].side = "Buy" THEN filled'[id]
                                                                     ELSE 0 - filled'[id]]
            BY <1>1 DEF Holdings, SignedFilled
        <3> HIDE DEF f, k, D
        <3> QED
            BY <2>1, <2>5, <3>1
    <2> DEFINE n == f.qty
               d == IF f.side = "Buy" THEN f.qty ELSE 0 - f.qty
    <2>7. n \in Nat /\ n > 0 /\ d \in Int
        BY <2>1
    <2> HIDE DEF f, k, D, n, d
    <2>8. /\ SumFunctionOnSet(Holdings', D) = SumFunctionOnSet(Holdings, D)
                                                + (Holdings'[k] - Holdings[k])
          /\ SumFunctionOnSet(filled', D) = SumFunctionOnSet(filled, D) + (filled'[k] - filled[k])
        <3>1. filled'[k] \in Int
            BY <2>5, <2>7 DEF n
        <3>2. PICK h, g : h = Holdings' /\ g = filled'
            OBVIOUS
        <3>3. /\ h[k] \in Int /\ \A id \in D \ {k} : Holdings[id] = h[id]
              /\ g[k] \in Int /\ \A id \in D \ {k} : filled[id] = g[id]
            BY <2>5, <2>6, <3>1, <3>2
        <3>4. SumFunctionOnSet(h, D) = SumFunctionOnSet(Holdings, D) + (h[k] - Holdings[k])
            <4>1. PICK u : u = Holdings
                OBVIOUS
            <4>2. Summable(u, D) /\ k \in D /\ h[k] \in Int /\ \A id \in D \ {k} : u[id] = h[id]
                BY <2>1, <2>4, <3>3, <4>1
            <4>3. SumFunctionOnSet(h, D) = SumFunctionOnSet(u, D) + (h[k] - u[k])
                BY <4>2, SumChange
            <4> QED
                BY <4>1, <4>3
        <3>5. SumFunctionOnSet(g, D) = SumFunctionOnSet(filled, D) + (g[k] - filled[k])
            BY <2>1, <2>4, <3>3, SumChange
        <3> QED
            BY <3>2, <3>4, <3>5
    <2>9. SumFunctionOnSet(Holdings, D) \in Int /\ SumFunctionOnSet(filled, D) \in Int
        BY <2>4, SumType
    <2>10. position = SumFunctionOnSet(Holdings, D) /\ n_fills \in Nat
           /\ n_fills <= SumFunctionOnSet(filled, D)
        BY DEF HInv, D
    <2>11. position' = SumFunctionOnSet(Holdings', D)
        <3>1. position' = position + d /\ Holdings'[k] = Holdings[k] + d
            BY <2>3, <2>6 DEF d
        <3> QED
            BY <2>6, <2>7, <2>8, <2>9, <2>10, <3>1
    <2>12. n_fills' \in Nat /\ n_fills' <= SumFunctionOnSet(filled', D)
        <3>1. n_fills' = n_fills + 1 /\ filled'[k] = filled[k] + n
            BY <2>3, <2>5 DEF n
        <3> QED
            BY <2>5, <2>7, <2>8, <2>9, <2>10, <3>1
    <2> QED
        BY <1>1, <2>11, <2>12 DEF HInv, D
<1> QED
    BY <1>2, <1>3

LEMMA StepHInv ==
    ASSUME BInv, OInv, LastTrade, HInv, [ACNext]_acVars
    PROVE  HInv'
<1>1. CASE \E o \in OwnOrders, lat \in Latency : SubmitOwn(o, lat) /\ NoAccount
    BY <1>1, SubmitHInv DEF NoAccount, account
<1>2. CASE AccountedFill
    BY <1>2, FillHInv
<1>3. CASE \/ \E id \in DOMAIN orders, lat \in Latency : CancelOwn(id, lat) /\ NoAccount
           \/ \E e \in Tape, gap \in Gaps : NextEvent(e, gap) /\ NoAccount
           \/ (Flush \/ DrainCancel \/ ApplyCancel \/ ApplyOrder \/ TapeDone \/ EngineStep
                 \/ Stopped) /\ NoAccount
    <2>1. orders' = orders /\ filled' = filled
        BY <1>3 DEF CancelOwn, NextEvent, Flush, DrainCancel, ApplyCancel, ApplyOrder, TapeDone,
                    EngineStep, Stopped, ownVars, vars
    <2>2. position' = position /\ n_fills' = n_fills
        BY <1>3 DEF NoAccount, account
    <2> QED
        BY <2>1, <2>2, KeptHInv
<1>4. CASE SlippedOrder \/ SlippedOrderDone \/ SampledMark \/ FinalMark
    <2>1. orders' = orders /\ filled' = filled
        BY <1>4 DEF SlippedOrder, SlippedOrderDone, SampledMark, FinalMark, DrainOrder, OursDone,
                    EndCallback, Drained, ownVars
    <2>2. MarkNow \/ UNCHANGED account
        BY <1>4 DEF SlippedOrder, SlippedOrderDone, SampledMark, FinalMark
    <2>3. position' = position /\ n_fills' = n_fills
        BY <2>2 DEF MarkNow, account, PF!OnMark, PF!ledger
    <2> QED
        BY <2>1, <2>3, KeptHInv
<1>5. CASE UNCHANGED acVars
    BY <1>5, KeptHInv DEF acVars, vars, ownVars, account
<1> QED
    BY <1>1, <1>2, <1>3, <1>4, <1>5 DEF ACNext

LEMMA InitHInv == ACInit => HInv
<1> SUFFICES ASSUME ACInit PROVE HInv
    OBVIOUS
<1>1. orders = << >> /\ position = 0 /\ n_fills = 0
    BY DEF ACInit, BTInit, PF!PFInit
<1>2. DOMAIN orders = {}
    BY <1>1
<1>3. /\ SumFunctionOnSet(Holdings, DOMAIN orders) = 0
      /\ SumFunctionOnSet(filled, DOMAIN orders) = 0
    BY <1>2, SumEmpty
<1> QED
    BY <1>1, <1>3 DEF HInv

(***************************************************************************)
(* Slippage: an order that can trade at all is moved by at most what the   *)
(* largest order pays on one visible unit.                                 *)
(***************************************************************************)
SlipBound ==
    at = "ours" /\ phase \in {"match", "traded"} /\ Prices(book, Opp) # {} =>
        extra <= ExtraTicks(MaxQty, 1)

\* (2k - 1) D v <= 2 I q with v >= 1 leaves (2k - 1) D <= 2 I q.
LEMMA RoundedQuotient ==
    ASSUME NEW I \in Nat, NEW D \in Nat \ {0}, NEW q \in Nat, NEW m \in Nat, q <= m,
           NEW v \in Nat \ {0},
           NEW k \in Nat, k * (2 * D * v) <= 2 * I * q + D * v,
           NEW l \in Nat, 2 * I * m + D < (l + 1) * (2 * D)
    PROVE  k <= l
<1>1. CASE k = 0
    BY <1>1
<1>2. CASE k >= 1
    <2> DEFINE j == 2 * k - 1
    <2>1. j \in Nat /\ j * D \in Nat /\ I * q \in Nat /\ I * m \in Nat /\ D * v \in Nat
        BY <1>2
    <2>2. I * q <= I * m
        OBVIOUS
    <2>3. k * (2 * D * v) = (2 * k) * (D * v)
        OBVIOUS
    <2>4. j * (D * v) = (2 * k) * (D * v) - D * v
        BY <2>1
    <2>5. j * (D * v) = (j * D) * v
        BY <2>1
    <2>6. (j * D) * v >= j * D
        <3> HIDE DEF j
        <3>1. \A a \in Nat : a * v >= a
            OBVIOUS
        <3> QED
            BY <2>1, <3>1
    <2>7. 2 * I * q = 2 * (I * q) /\ 2 * I * m = 2 * (I * m)
        OBVIOUS
    <2>8. j * D <= 2 * (I * m)
        <3> HIDE DEF j
        <3> QED
            BY <2>1, <2>2, <2>3, <2>4, <2>5, <2>6, <2>7
    <2>9. j * D + D = (2 * k) * D /\ (2 * k) * D = k * (2 * D)
        BY <2>1
    <2>10. k * (2 * D) < (l + 1) * (2 * D)
        <3> HIDE DEF j
        <3> QED
            BY <2>1, <2>7, <2>8, <2>9
    <2>11. \A a, b \in Nat : a * (2 * D) < b * (2 * D) => a < b
        OBVIOUS
    <2> QED
        BY <2>10, <2>11
<1> QED
    BY <1>1, <1>2

LEMMA ExtraTicksBound ==
    ASSUME NEW q \in Quantity, NEW v \in Int, v > 0
    PROVE  ExtraTicks(q, v) <= ExtraTicks(MaxQty, 1)
<1> DEFINE a == 2 * ImpactNum * q + ImpactDen * v
           b == 2 * ImpactDen * v
           c == 2 * ImpactNum * MaxQty + ImpactDen * 1
           d == 2 * ImpactDen * 1
<1>1. q \in Nat /\ q <= MaxQty /\ MaxQty \in Nat /\ v \in Nat \ {0}
    BY MaxQtyAssumption DEF Quantity
<1>2. a \in Nat /\ b \in Nat \ {0} /\ c \in Nat /\ d \in Nat \ {0}
    BY <1>1, ImpactAssumption
<1>3. ExtraTicks(q, v) = a \div b /\ ExtraTicks(MaxQty, 1) = c \div d
    BY DEF ExtraTicks
<1>4. PICK k \in Nat, l \in Nat : k = a \div b /\ l = c \div d
    <2> HIDE DEF a, b, c, d
    <2> QED
        BY <1>2, QuotientType
<1>5. k * b <= a /\ c < (l + 1) * d
    <2> HIDE DEF a, b, c, d
    <2> QED
        BY <1>2, <1>4, QuotientType
<1>6. /\ k * (2 * ImpactDen * v) <= 2 * ImpactNum * q + ImpactDen * v
      /\ 2 * ImpactNum * MaxQty + ImpactDen < (l + 1) * (2 * ImpactDen)
    BY <1>5, ImpactAssumption
<1>7. k <= l
    BY <1>1, <1>6, ImpactAssumption, RoundedQuotient
<1> QED
    BY <1>3, <1>4, <1>7

\* What is visible at the best price is something.
LEMMA VisibleDepth ==
    ASSUME IInv, phase # "traded", NEW s \in Side, Prices(book, s) # {}
    PROVE  /\ book.levels[s][Best(book, s)].total_qty \in Int
           /\ book.levels[s][Best(book, s)].total_qty > 0
<1> DEFINE p == Best(book, s)
           q == book.levels[s][p].queue
<1>1. WellFormed(book) /\ IsBook(book) /\ p \in Prices(book, s)
    BY InvBook, BestIsBest
<1>2. q \in Queue /\ 1 \in DOMAIN q
    BY <1>1, LevelTypes, FrontTypes
<1>3. q[1].qty > 0
    BY <1>1, <1>2, NodesUnspent
<1>4. book.levels[s][p].total_qty = QueueQty(q)
    BY <1>1 DEF IInv, BookTotals, LevelTotals
<1> HIDE DEF q
<1>5. QueueQty(q) >= q[1].qty /\ QueueQty(q) \in Int /\ q[1].qty \in Nat
    <2>1. q[1].qty \in Nat
        BY <1>2, NodeTypes
    <2>2. QueueQty(q) \in Int
        BY <1>2, PrefixSumsExist, QueueQtyFromSums
    <2> QED
        BY <1>2, <2>1, <2>2, QueueQtyCovers
<1> QED
    BY <1>3, <1>4, <1>5

LEMMA StepSlipBound ==
    ASSUME BInv, SlipBound, [ACNext]_acVars
    PROVE  SlipBound'
<1>1. CASE SlippedOrder
    <2> DEFINE o == OwnSubmission(Top.id)
    <2>1. /\ at = "drain" /\ Due /\ phase = "idle" /\ Submit(o) /\ book' = book
          /\ extra' = ExtraTicks(orders[Top.id].qty, OppositeVisible(orders[Top.id].side))
        BY <1>1 DEF SlippedOrder, DrainOrder, Submit
    <2>2. Top \in pending /\ LoopTypes /\ InFlight /\ IInv
        BY <2>1, TopIsFirst DEF BInv, LInv, Due
    <2>3. orders[Top.id] \in OwnOrder
        BY <2>2 DEF LoopTypes, InFlight
    <2>4. orders[Top.id].qty \in Quantity /\ orders[Top.id].side \in Side
        BY <2>3 DEF OwnOrder
    <2>5. PICK s \in Side : s = orders[Top.id].side
        BY <2>4
    <2>6. in'.side = s
        <3>1. o.side = s /\ DOMAIN o = {"id", "side", "type", "price", "qty", "remaining", "status",
                                        "is_ours"}
            BY <2>5 DEF OwnSubmission
        <3> HIDE DEF o
        <3> QED
            BY <2>1, <3>1 DEF Submit, OnAccept, OnReject
    <2>7. Opp' = Opposite(s) /\ Opposite(s) \in Side
        BY <2>6 DEF Opp, Opposite, Side
    <2>8. CASE Prices(book, Opposite(s)) = {}
        BY <2>1, <2>7, <2>8 DEF SlipBound
    <2>9. CASE Prices(book, Opposite(s)) # {}
        <3>1. /\ OppositeVisible(s) = book.levels[Opposite(s)][Best(book, Opposite(s))].total_qty
              /\ OppositeVisible(s) \in Int /\ OppositeVisible(s) > 0
            BY <2>1, <2>2, <2>7, <2>9, VisibleDepth DEF OppositeVisible
        <3>2. extra' <= ExtraTicks(MaxQty, 1)
            BY <2>1, <2>4, <2>5, <3>1, ExtraTicksBound
        <3> QED
            BY <3>2 DEF SlipBound
    <2> QED
        BY <2>8, <2>9
<1>2. CASE EngineStep /\ NoAccount
    <2>1. at' = at /\ extra' = extra
        BY <1>2 DEF EngineStep, NoAccount, loopVars
    <2>2. CASE Trade
        <3>1. phase = "match" /\ Prices(book, Opp) # {}
            BY <2>2 DEF Trade, Matching
        <3> QED
            BY <2>1, <3>1 DEF SlipBound
    <2>3. CASE Settle
        <3>1. phase = "traded" /\ Prices(book, Opp) # {}
            BY <2>3 DEF Settle, BInv, IInv
        <3> QED
            BY <2>1, <3>1 DEF SlipBound
    <2>4. CASE Rest \/ Discard \/ Complete
        BY <2>4 DEF Rest, Discard, Complete, SlipBound
    <2> QED
        BY <1>2, <2>2, <2>3, <2>4 DEF EngineStep
<1>3. CASE UNCHANGED <<engineVars, at, extra>>
    BY <1>3 DEF SlipBound, engineVars, Opp
<1>4. CASE \/ \E o \in OwnOrders, lat \in Latency : SubmitOwn(o, lat) /\ NoAccount
           \/ \E id \in DOMAIN orders, lat \in Latency : CancelOwn(id, lat) /\ NoAccount
    BY <1>3, <1>4 DEF SubmitOwn, CancelOwn, NoAccount, loopVars
<1>5. CASE AccountedFill \/ UNCHANGED acVars
    BY <1>3, <1>5 DEF AccountedFill, RouteFill, acVars, vars, loopVars
<1>6. CASE at' # "ours"
    BY <1>6 DEF SlipBound
<1>7. CASE \E e \in Tape, gap \in Gaps : NextEvent(e, gap) /\ NoAccount
    BY <1>6, <1>7 DEF NextEvent
<1>8. CASE SlippedOrderDone \/ SampledMark \/ FinalMark
    BY <1>6, <1>8 DEF SlippedOrderDone, SampledMark, FinalMark, OursDone, EndCallback, Drained
<1>9. CASE (Flush \/ DrainCancel \/ ApplyCancel \/ ApplyOrder \/ TapeDone \/ Stopped) /\ NoAccount
    BY <1>6, <1>9 DEF Flush, DrainCancel, ApplyCancel, ApplyOrder, TapeDone, Stopped, loopVars, vars
<1> QED
    BY <1>1, <1>2, <1>4, <1>5, <1>7, <1>8, <1>9 DEF ACNext

(***************************************************************************)
(* The portfolio of module Portfolio is the one the loop drives, provided  *)
(* prices are positive: the loop takes a mid of 0 for an empty book.       *)
(***************************************************************************)
PositivePrices == Price \subseteq Nat \ {0}

\* A book with an order on it has a mid, and one the portfolio expects.
LEMMA MidOfBook ==
    ASSUME PositivePrices, IsBook(book)
    PROVE  /\ CurrentMid \in Nat
           /\ CurrentMid > 0 => CurrentMid \in Mid
           /\ \A s \in Side : Prices(book, s) # {} => CurrentMid > 0
<1>1. \A s \in Side : Prices(book, s) # {} => Best(book, s) \in Price
    BY BestIsBest DEF IsBook
<1>2. \A p \in Price : p \in Nat /\ p > 0
    BY DEF PositivePrices
<1>3. \A p, q \in Price : p + q \in Mid
    BY DEF Mid
<1>4. CASE Prices(book, "Buy") # {} /\ Prices(book, "Sell") # {}
    <2>1. CurrentMid = Best(book, "Buy") + Best(book, "Sell")
        BY <1>4 DEF CurrentMid
    <2>2. Best(book, "Buy") \in Price /\ Best(book, "Sell") \in Price
        BY <1>1, <1>4 DEF Side
    <2> QED
        BY <1>2, <1>3, <2>1, <2>2
<1>5. ASSUME NEW s \in Side, Prices(book, s) # {}, Prices(book, Opposite(s)) = {}
      PROVE  CurrentMid \in Nat /\ CurrentMid > 0 /\ CurrentMid \in Mid
    <2>1. CurrentMid = 2 * Best(book, s)
        BY <1>5 DEF CurrentMid, Side, Opposite
    <2>2. PICK p \in Price : p = Best(book, s)
        BY <1>1, <1>5
    <2>3. p + p \in Mid /\ p \in Nat /\ p > 0
        BY <1>2, <1>3
    <2> QED
        BY <2>1, <2>2, <2>3
<1>6. CASE Prices(book, "Buy") = {} /\ Prices(book, "Sell") = {}
    BY <1>6 DEF CurrentMid, Side
<1> QED
    BY <1>4, <1>5, <1>6 DEF Side, Opposite

LEMMA MarkIsMark ==
    ASSUME PositivePrices, BInv, MarkNow
    PROVE  [PF!PFNext]_(PF!pfVars)
<1>1. CurrentMid > 0 => CurrentMid \in Mid
    <2>1. IsBook(book)
        BY InvBook DEF BInv
    <2> QED
        BY <2>1, MidOfBook
<1> QED
    BY <1>1 DEF MarkNow, PF!PFNext, PF!pfVars, PF!ledger, PF!clock, PF!edges, account

\* The prices fills come with, after slippage.
LEMMA AdjustedFill ==
    ASSUME BInv, LastTrade, SlipBound, extra \in Nat, phase = "traded", told < Len(fills)
    PROVE  LET f == fills[told + 1]
               g == Adjusted(f)
           IN  g.price \in FillPrice /\ g.side = f.side /\ g.qty = f.qty /\ f.side \in Side
<1> DEFINE f == fills[told + 1]
           g == Adjusted(f)
           x == ExtraTicks(MaxQty, 1)
<1>1. f \in Fill
    BY LegInQuestion
<1>2. x \in Nat
    <2>1. MaxQty \in Nat /\ 1 \in Int
        BY MaxQtyAssumption
    <2> QED
        BY <2>1, ExtraTicksType
<1>3. at = "ours" => extra <= x
    BY DEF SlipBound, BInv, IInv
<1> HIDE DEF f, x
<1>4. /\ g.side = f.side /\ g.qty = f.qty
      /\ \E d \in (0 - x) .. x : g.price = f.price + d
    <2>1. f.price \in Int
        BY <1>1, PriceAssumption DEF Fill
    <2>2. CASE at = "ours" /\ ~f.is_maker
        <3>1. PICK e \in (0 - x) .. x : e = IF f.side = "Buy" THEN extra ELSE 0 - extra
            BY <1>2, <1>3, <2>2
        <3>2. g = [f EXCEPT !.price = IF f.side = "Buy" THEN f.price + extra ELSE f.price - extra]
            BY <2>2 DEF Adjusted
        <3>3. g.side = f.side /\ g.qty = f.qty /\ g.price = f.price + e
            BY <1>1, <2>1, <3>1, <3>2 DEF Fill
        <3> QED
            BY <3>1, <3>3
    <2>3. CASE ~(at = "ours" /\ ~f.is_maker)
        <3>1. g = f
            BY <2>3 DEF Adjusted
        <3>2. 0 \in (0 - x) .. x /\ f.price = f.price + 0
            BY <1>2, <2>1
        <3> QED
            BY <3>1, <3>2
    <2> QED
        BY <2>2, <2>3
<1>5. f.price \in Price /\ f.side \in Side
    BY <1>1 DEF Fill
<1> HIDE DEF g
<1>6. g.price \in FillPrice
    BY <1>4, <1>5 DEF FillPrice, x
<1> QED
    BY <1>4, <1>5, <1>6 DEF g, f

\* The strategy's orders leave room for one more fill: each fill counted was
\* for something, and no order is filled for more than it was for.
LEMMA RoomToCount ==
    ASSUME BInv, OInv, LastTrade, HInv, AccountedFill, Reported(fills[told + 1])
    PROVE  n_fills \in Int /\ n_fills < MaxFills
<1> DEFINE f == fills[told + 1]
           k == f.order_id
           D == DOMAIN orders
           h == [filled EXCEPT ![k] = filled[k] + f.qty]
<1>1. phase = "traded" /\ told < Len(fills)
    BY DEF AccountedFill, RouteFill
<1>2. k \in D /\ f.qty \in Nat /\ f.qty > 0 /\ filled[k] + f.qty <= MaxQty
    BY <1>1, RoomForFill, MaxQtyAssumption DEF Quantity
<1>3. Summable(filled, D) /\ D = DOMAIN filled /\ D = 1 .. Len(orders) /\ Len(orders) \in Nat
    BY HoldingsSummable, OwnIds DEF BInv, LInv
<1>4. \A id \in D : filled[id] \in Int /\ filled[id] <= MaxQty
    <2> SUFFICES ASSUME NEW id \in D PROVE filled[id] \in Int /\ filled[id] <= MaxQty
        OBVIOUS
    <2>1. /\ RestingQty(id) \in Nat /\ WorkingQty(id) \in Nat /\ PendingQty(id) \in Nat
          /\ filled[id] \in Int /\ UnroutedQty(id) \in Int
        BY OwnTypes
    <2>2. UnroutedQty(id) >= 0
        <3>1. \A i \in DOMAIN fills : LegQty(i, id) \in Nat
            <4>1. \A i \in DOMAIN fills : fills[i] \in Fill
                BY DEF BInv, IInv, TypeOK
            <4>2. \A i \in DOMAIN fills : fills[i].qty \in Nat
                BY <4>1, MaxQtyAssumption DEF Fill, Quantity
            <4> QED
                BY <4>2 DEF LegQty
        <3>2. /\ told \in Nat /\ Len(fills) \in Nat /\ fills \in Seq(Fill)
            BY DEF BInv, Routing, IInv, TypeOK
        <3>3. /\ told + 2 = Len(fills) => Len(fills) - 1 \in DOMAIN fills
              /\ told < Len(fills) => Len(fills) \in DOMAIN fills
            BY <3>2
        <3> QED
            BY <3>1, <3>3 DEF UnroutedQty
    <2>3. filled[id] + UnroutedQty(id) + OpenQty(id) <= orders[id].qty
        BY DEF OInv, Accounted, KnownQty
    <2>4. orders[id].qty \in Quantity
        <3>1. orders[id] \in OwnOrder
            BY DEF BInv, LInv, LoopTypes
        <3> QED
            BY <3>1 DEF OwnOrder
    <2>5. OpenQty(id) \in Nat
        BY <2>1 DEF OpenQty
    <2> QED
        BY <2>1, <2>2, <2>3, <2>4, <2>5, MaxQtyAssumption DEF Quantity
<1>5. h[k] = filled[k] + f.qty /\ \A id \in D \ {k} : h[id] = filled[id]
    <2> HIDE DEF f, k
    <2> QED
        BY <1>2, <1>3
<1> HIDE DEF f, k, D, h
<1>6. Summable(h, D) /\ SumFunctionOnSet(h, D) = SumFunctionOnSet(filled, D) + (h[k] - filled[k])
    <2>1. h[k] \in Int /\ \A id \in D \ {k} : filled[id] = h[id]
        BY <1>2, <1>4, <1>5
    <2> QED
        BY <1>2, <1>3, <2>1, SumChange
<1>7. \A id \in D : h[id] <= MaxQty
    BY <1>2, <1>4, <1>5
<1>8. Cardinality(D) = Len(orders) /\ Len(orders) <= MaxCommands
    <2>1. Cardinality(1 .. Len(orders)) = Len(orders)
        <3>1. PICK m \in Nat : m = Len(orders)
            BY <1>3
        <3>2. Cardinality(1 .. m) = IF 1 > m THEN 0 ELSE m - 1 + 1
            BY FS_Interval
        <3> QED
            BY <3>1, <3>2
    <2>2. seq \in Nat /\ seq <= MaxCommands /\ Len(orders) <= seq
        BY <1>3 DEF BInv, LInv, LoopTypes
    <2> QED
        BY <1>3, <2>1, <2>2, BoundsAssumption
<1>9. SumFunctionOnSet(h, D) <= Len(orders) * MaxQty
    BY <1>6, <1>7, <1>8, SumBound, MaxQtyAssumption
<1>10. Len(orders) * MaxQty <= MaxFills /\ MaxFills \in Int /\ Len(orders) * MaxQty \in Int
    BY <1>3, <1>8, MaxQtyAssumption, BoundsAssumption DEF MaxFills
<1>11. n_fills \in Nat /\ n_fills <= SumFunctionOnSet(filled, D)
    BY DEF HInv, D
<1>12. SumFunctionOnSet(filled, D) \in Int /\ SumFunctionOnSet(h, D) \in Int
    BY <1>3, <1>6, SumType
<1>13. SumFunctionOnSet(filled, D) < SumFunctionOnSet(h, D)
    BY <1>2, <1>4, <1>5, <1>6, <1>12
<1> QED
    BY <1>9, <1>10, <1>11, <1>12, <1>13

LEMMA FillIsFill ==
    ASSUME PositivePrices, BInv, OInv, FInv, SlipBound, HInv, AccountedFill
    PROVE  [PF!PFNext]_(PF!pfVars)
<1> DEFINE f == fills[told + 1]
           g == Adjusted(f)
           h == [side |-> g.side, price |-> g.price, qty |-> g.qty]
<1>1. /\ phase = "traded" /\ told < Len(fills)
      /\ IF Reported(f) THEN PF!OnFill(g, CurrentMid) ELSE UNCHANGED account
    BY DEF AccountedFill, RouteFill
<1>2. CASE ~Reported(f)
    BY <1>1, <1>2 DEF account, PF!pfVars, PF!ledger, PF!clock, PF!edges
<1>3. CASE Reported(f)
    <2>1. g.price \in FillPrice /\ g.side = f.side /\ g.qty = f.qty /\ f.side \in Side
        BY <1>1, AdjustedFill DEF FInv
    <2>2. f.qty \in FillQty
        BY <1>1, <1>3, RoomForFill, MaxQtyAssumption DEF FInv, Quantity, FillQty
    <2>3. h \in PF!Fills
        <3> HIDE DEF f, g
        <3> QED
            BY <2>1, <2>2 DEF PF!Fills, Side
    <2>4. CurrentMid \in Mid
        <3>1. IsBook(book) /\ Opp \in Side
            BY <1>1, InvBook DEF BInv
        <3>2. Prices(book, Opp) # {}
            BY <1>1 DEF BInv, IInv
        <3> QED
            BY <3>1, <3>2, MidOfBook
    <2>5. PF!OnFill(h, CurrentMid)
        <3>1. h.side = g.side /\ h.price = g.price /\ h.qty = g.qty
            OBVIOUS
        <3> HIDE DEF f, g, h
        <3> QED
            BY <1>1, <1>3, <3>1 DEF PF!OnFill, PF!Signed, PF!RecordEdge, PF!Edge
    <2>6. n_fills < MaxFills
        BY <1>3, RoomToCount DEF FInv
    <2> HIDE DEF f, g, h
    <2> QED
        BY <2>3, <2>4, <2>5, <2>6 DEF PF!PFNext
<1> QED
    BY <1>2, <1>3

LEMMA StepPortfolio ==
    ASSUME PositivePrices, BInv, OInv, FInv, SlipBound, HInv, [ACNext]_acVars
    PROVE  [PF!PFNext]_(PF!pfVars)
<1>1. CASE AccountedFill
    BY <1>1, FillIsFill
<1>2. CASE MarkNow
    BY <1>2, MarkIsMark
<1>3. CASE UNCHANGED account
    BY <1>3 DEF account, PF!pfVars, PF!ledger, PF!clock, PF!edges
<1> QED
    BY <1>1, <1>2, <1>3 DEF ACNext, NoAccount, SampledMark, FinalMark, SlippedOrder,
                            SlippedOrderDone, acVars

\* All that is known of a state of the loop with its portfolio.
AInv == BInv /\ OInv /\ FInv /\ SlipBound /\ HInv

LEMMA AccountsInvariant ==
    ASSUME TapeIdsApart
    PROVE  ACSpec => []AInv
<1>1. ACInit => BTInit
    BY DEF ACInit
<1>2. ACInit => SlipBound /\ HInv
    BY InitHInv DEF ACInit, BTInit, SlipBound
<1>3. BInv /\ OInv /\ FInv /\ SlipBound /\ HInv /\ [ACNext]_acVars => SlipBound' /\ HInv'
    BY StepSlipBound, StepHInv DEF FInv
<1> QED
    BY <1>1, <1>2, <1>3, AccountingUsesLoop, OwnOrdersInvariant, FillsInvariant, PTL
       DEF ACSpec, acVars, AInv

\* The loop implements the portfolio's specification: each step is a fill of the
\* strategy's or a mark, both always come with a positive mid although the mid is
\* read in the middle of a match, and a fill's price is moved within the bound.
THEOREM AccountingImplementsPortfolio ==
    ASSUME TapeIdsApart, PositivePrices
    PROVE  ACSpec => ImplementsPortfolio
<1>1. ACInit => PF!PFInit
    BY DEF ACInit
<1>2. AInv /\ [ACNext]_acVars => [PF!PFNext]_(PF!pfVars)
    BY StepPortfolio DEF AInv
<1> QED
    BY <1>1, <1>2, AccountsInvariant, PTL DEF ACSpec, acVars, ImplementsPortfolio, PF!PFSpec

(***************************************************************************)
(* The end of a run.  Module PortfolioProofs leaves of the total, beside   *)
(* directional and spread PnL, what the mid has moved since the last mark; *)
(* run's last mark leaves nothing of that.                                 *)
(***************************************************************************)
PFP == INSTANCE PortfolioProofs

MarkedAtEnd == at = "ended" /\ CurrentMid > 0 => last_mark = ref_mid

LEMMA StepMarkedAtEnd ==
    ASSUME BInv, MarkedAtEnd, [ACNext]_acVars
    PROVE  MarkedAtEnd'
<1>0. phase # "idle" => at \in {"ours", "tape"}
    BY DEF BInv, LInv, Control
<1>1. CASE FinalMark
    <2>1. /\ at = "drain" /\ book' = book
          /\ event # EndOfTape => at' = "event"
          /\ event = EndOfTape => MarkNow
        BY <1>1 DEF FinalMark, Drained, engineVars
    <2>2. CurrentMid' = CurrentMid
        BY <2>1 DEF CurrentMid
    <2>3. MarkNow /\ CurrentMid > 0 => last_mark' = CurrentMid /\ ref_mid' = CurrentMid
        BY DEF MarkNow, PF!OnMark, PF!AdvanceClock
    <2>4. CASE event = EndOfTape
        BY <2>1, <2>2, <2>3, <2>4 DEF MarkedAtEnd
    <2>5. CASE event # EndOfTape
        BY <2>1, <2>5 DEF MarkedAtEnd
    <2> QED
        BY <2>4, <2>5
<1>2. CASE UNCHANGED <<book, at, last_mark, ref_mid>>
    BY <1>2 DEF MarkedAtEnd, CurrentMid
<1>3. CASE at' # "ended"
    BY <1>3 DEF MarkedAtEnd
<1>4. CASE (Stopped /\ NoAccount) \/ UNCHANGED acVars
    BY <1>2, <1>4 DEF Stopped, NoAccount, acVars, vars, engineVars, loopVars, account
<1>5. CASE \/ \E o \in OwnOrders, lat \in Latency : SubmitOwn(o, lat) /\ NoAccount
           \/ \E id \in DOMAIN orders, lat \in Latency : CancelOwn(id, lat) /\ NoAccount
    BY <1>0, <1>3, <1>5 DEF SubmitOwn, CancelOwn, InCallback, InFillCallback, loopVars
<1>6. CASE AccountedFill \/ (EngineStep /\ NoAccount)
    <2>1. phase # "idle" /\ at' = at
        BY <1>6 DEF AccountedFill, RouteFill, EngineStep, Trade, Settle, Rest, Discard, Complete,
                    loopVars
    <2> QED
        BY <1>0, <1>3, <2>1
<1>7. CASE \/ \E e \in Tape, gap \in Gaps : NextEvent(e, gap) /\ NoAccount
           \/ SlippedOrder \/ SlippedOrderDone \/ SampledMark
           \/ (Flush \/ DrainCancel \/ ApplyCancel \/ ApplyOrder \/ TapeDone) /\ NoAccount
    BY <1>3, <1>7 DEF NextEvent, SlippedOrder, SlippedOrderDone, SampledMark, DrainOrder, OursDone,
                      EndCallback, Flush, DrainCancel, ApplyCancel, ApplyOrder, TapeDone, loopVars
<1> QED
    BY <1>1, <1>4, <1>5, <1>6, <1>7 DEF ACNext

LEMMA EndsMarked == ACSpec => []MarkedAtEnd
<1>1. ACInit => MarkedAtEnd
    BY DEF ACInit, BTInit, MarkedAtEnd
<1>2. BInv /\ MarkedAtEnd /\ [ACNext]_acVars => MarkedAtEnd'
    BY StepMarkedAtEnd
<1> QED
    BY <1>1, <1>2, AccountingUsesLoop, LoopInvariant, PTL DEF ACSpec, acVars

\* What the portfolio can be given is what module Portfolio assumes it is given.
LEMMA PortfolioAssumptions ==
    ASSUME PositivePrices
    PROVE  /\ FillPrice \subseteq Int /\ FillQty \subseteq Nat \ {0}
           /\ Mid \subseteq Nat \ {0}
<1>1. \A p \in Price : p \in Nat /\ p > 0
    BY DEF PositivePrices
<1> QED
    BY <1>1, MaxQtyAssumption DEF FillPrice, FillQty, Mid

\* The two instances of module Portfolio, by itself and within its proofs, are
\* the same specification.
LEMMA SamePortfolio ==
    /\ PF!PFInit => PFP!PFInit
    /\ [PF!PFNext]_(PF!pfVars) => [PFP!PFNext]_(PFP!pfVars)
<1>1. \A n, d : PF!Ratio(n, d) = PFP!Ratio(n, d)
    BY DEF PF!Ratio, PFP!Ratio, PF!Max, PFP!Max
<1>2. \A n : PF!Abs(n) = PFP!Abs(n)
    BY DEF PF!Abs, PFP!Abs
<1>3. \A m, n : PF!Lesser(m, n) = PFP!Lesser(m, n)
    BY DEF PF!Lesser, PFP!Lesser
<1>4. \A sq : PF!Opposed(sq) <=> PFP!Opposed(sq)
    BY DEF PF!Opposed, PFP!Opposed
<1>5. \A px, sq : PF!Averaged(px, sq) = PFP!Averaged(px, sq)
    BY <1>1, <1>2, <1>4 DEF PF!Averaged, PFP!Averaged
<1>6. \A px, sq : PF!Realized(px, sq) = PFP!Realized(px, sq)
    BY <1>1, <1>2, <1>3, <1>4 DEF PF!Realized, PFP!Realized
<1>7. \A mid : PF!AdvanceClock(mid) <=> PFP!AdvanceClock(mid)
    BY DEF PF!AdvanceClock, PFP!AdvanceClock
<1>8. ASSUME NEW f, NEW mid, PF!OnFill(f, mid)
      PROVE  PFP!OnFill(f, mid)
    <2>1. PF!Signed(f) = PFP!Signed(f) /\ PF!Edge(f, mid) = PFP!Edge(f, mid)
        BY DEF PF!Signed, PFP!Signed, PF!Edge, PFP!Edge
    <2>2. PF!RecordEdge(f, mid) <=> PFP!RecordEdge(f, mid)
        BY <2>1 DEF PF!RecordEdge, PFP!RecordEdge
    <2> QED
        BY <1>5, <1>6, <1>7, <1>8, <2>1, <2>2 DEF PF!OnFill, PFP!OnFill, PF!clock, PFP!clock
<1>9. ASSUME NEW mid, PF!OnMark(mid)
      PROVE  PFP!OnMark(mid)
    BY <1>7, <1>9 DEF PF!OnMark, PFP!OnMark, PF!ledger, PFP!ledger, PF!edges, PFP!edges
<1>10. PF!Fills = PFP!Fills
    BY DEF PF!Fills, PFP!Fills
<1>11. PF!PFNext => PFP!PFNext
    BY <1>8, <1>9, <1>10 DEF PF!PFNext, PFP!PFNext
<1>12. UNCHANGED PF!pfVars <=> UNCHANGED PFP!pfVars
    BY DEF PF!pfVars, PFP!pfVars, PF!ledger, PFP!ledger, PF!clock, PFP!clock, PF!edges, PFP!edges
<1>13. PF!PFInit => PFP!PFInit
    BY DEF PF!PFInit, PFP!PFInit, PF!Zero, PFP!Zero
<1> QED
    BY <1>11, <1>12, <1>13

\* The residual is the move since the last mark, by the portfolio's own theorem.
LEMMA ResidualIsMove ==
    ASSUME TapeIdsApart, PositivePrices
    PROVE  ACSpec => [](/\ PF!Residual = position * (last_mark - ref_mid)
                        /\ position \in Int /\ last_mark \in Int)
<1>1. /\ FillPrice \subseteq Int /\ FillQty \subseteq Nat \ {0}
      /\ Mid \subseteq Nat \ {0}
    BY PortfolioAssumptions
<1>2. PFP!PFSpec => []PFP!ResidualIsUnmarkedMove /\ []PFP!DecompositionInv
    BY <1>1, PFP!DecompositionIsExact, PFP!DecompositionHolds
<1>3. ACSpec => PFP!PFSpec
    BY SamePortfolio, AccountingImplementsPortfolio, PTL
       DEF ImplementsPortfolio, PF!PFSpec, PFP!PFSpec
<1>4. PFP!ResidualIsUnmarkedMove => PF!Residual = position * (last_mark - ref_mid)
    BY DEF PFP!ResidualIsUnmarkedMove, PFP!Residual, PF!Residual
<1>5. PFP!DecompositionInv => position \in Int /\ last_mark \in Int
    BY DEF PFP!DecompositionInv, PFP!Amounts
<1> QED
    BY <1>2, <1>3, <1>4, <1>5, PTL

\* The portfolio holds what the strategy was told it traded, over all its orders
\* (PositionsAgree); and when the run has returned with a mid on the book,
\* directional and spread PnL make up the total (portfolio.hpp lines 118-120),
\* whatever was filled since the last sampled mark and in the flush.
THEOREM AccountsAreClosed ==
    ASSUME TapeIdsApart, PositivePrices
    PROVE  ACSpec => []AccountsClose
<1>1. AInv => PositionsAgree
    BY DEF AInv, HInv, PositionsAgree, Holdings
<1>2. ASSUME position \in Int, last_mark \in Int, MarkedAtEnd,
             PF!Residual = position * (last_mark - ref_mid)
      PROVE  ResidualVanishes
    <2> SUFFICES ASSUME at = "ended", CurrentMid > 0
                 PROVE  PF!Residual = 0
        BY DEF ResidualVanishes
    <2>1. last_mark = ref_mid
        BY <1>2 DEF MarkedAtEnd
    <2>2. last_mark - last_mark = 0
        BY <1>2
    <2> QED
        BY <1>2, <2>1, <2>2
<1>3. /\ PF!Residual = position * (last_mark - ref_mid)
      /\ position \in Int /\ last_mark \in Int
      /\ MarkedAtEnd
      => ResidualVanishes
    BY <1>2
<1>4. PositionsAgree /\ ResidualVanishes => AccountsClose
    BY DEF AccountsClose
<1> QED
    BY <1>1, <1>3, <1>4, AccountsInvariant, ResidualIsMove, EndsMarked, PTL

=============================================================================
