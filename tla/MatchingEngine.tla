--------------------------- MODULE MatchingEngine ---------------------------
(***************************************************************************)
(* MatchingEngine::submit and cancel of matching_engine.hpp over the book  *)
(* of module OrderBook, with the status transitions of order.hpp.          *)
(*                                                                         *)
(* submit is cut where somebody can look: match_against calls on_fill for  *)
(* both legs of a trade after it has reduced the front order and the level *)
(* total and before it has removed a spent front order, and the callee     *)
(* (Backtester::route_fill, then the strategy) reads the book there.  One  *)
(* iteration of the inner loop is therefore two steps, Trade and Settle.   *)
(*                                                                         *)
(*   phase     idle -> match <-> traded, then done -> idle                 *)
(*   in        the order submit works on (its by-value parameter o)        *)
(*   fills     the fills delivered to the callback during this submit      *)
(***************************************************************************)
EXTENDS OrderBook

CONSTANT Owners     \* values is_ours takes: TRUE for strategy orders
ASSUME OwnersAssumption == Owners \in (SUBSET BOOLEAN) \ {{}}

VARIABLES book, in, fills, phase

engineVars == <<book, in, fills, phase>>

Phase == {"idle", "match", "traded", "done"}

NoOrder == [status |-> "New"]

Fill == [order_id : OrderId, side : Side, price : Price, qty : Quantity,
         is_ours : BOOLEAN, is_maker : BOOLEAN]

\* What a caller may hand to submit.  Zero quantities do occur: load_csv_feed
\* reads an empty quantity field as 0.
Submission == [id : OrderId, side : Side, type : OrderType, price : Price,
               qty : Quantity, remaining : {0}, status : {"New"}, is_ours : Owners]

Opp == Opposite(in.side)

Init ==
    /\ book = EmptyBook
    /\ in = NoOrder
    /\ fills = << >>
    /\ phase = "idle"

(***************************************************************************)
(* Order's on_accept, on_fill, on_cancel and on_reject.                    *)
(***************************************************************************)
OnAccept(o) == [o EXCEPT !.status = "Accepted"]

OnFill(o, n) ==
    [o EXCEPT !.remaining = @ - n,
              !.status = IF o.remaining - n <= 0 THEN "Filled" ELSE "PartiallyFilled"]

OnCancel(o) == [o EXCEPT !.status = IF @ = "Filled" THEN @ ELSE "Canceled"]

OnReject(o) == [o EXCEPT !.status = "Rejected"]

(***************************************************************************)
(* submit.                                                                 *)
(***************************************************************************)
\* Mutant: strict comparison, an order at the touch does not trade.
CrossesStrictly(o, p) ==
    \/ o.type = "Market"
    \/ IF o.side = "Buy" THEN o.price > p ELSE o.price < p

Crosses(o, p) ==
    \/ o.type = "Market"
    \/ IF o.side = "Buy" THEN o.price >= p ELSE o.price <= p

\* The cached totals of a side.
Totals(b, s) == [p \in Prices(b, s) |-> b.levels[s][p].total_qty]

\* Mutant: the walk does not break at the limit price.
WholeDepth(b, o) == SumFunction(Totals(b, Opposite(o.side)))

\* The prices fully_fillable and match_against visit before they break.
Marketable(b, o) == {p \in Prices(b, Opposite(o.side)) : Crosses(o, p)}

\* The quantity fully_fillable can collect before it breaks out of its loop.
MarketableDepth(b, o) == SumFunctionOnSet(Totals(b, Opposite(o.side)), Marketable(b, o))

FullyFillable(b, o) == MarketableDepth(b, o) >= o.qty

Refused(b, o) == o.type = "FOK" /\ ~FullyFillable(b, o)

Submit(sub) ==
    LET o == OnAccept([sub EXCEPT !.remaining = sub.qty])
    IN  /\ phase = "idle"
        /\ in' = IF Refused(book, o) THEN OnReject(o) ELSE o
        /\ phase' = IF Refused(book, o) THEN "done" ELSE "match"
        /\ UNCHANGED <<book, fills>>

\* The loop conditions of match_against: there is something left to trade
\* and the best opposite level crosses.
Matching ==
    /\ in.remaining > 0
    /\ Prices(book, Opp) # {}
    /\ Crosses(in, Best(book, Opp))

FillOf(o_id, s, p, n, ours, maker) ==
    [order_id |-> o_id, side |-> s, price |-> p, qty |-> n,
     is_ours |-> ours, is_maker |-> maker]

\* Mutant: the front order always trades whole.
TradedWhole(r) == r.qty

Traded(r) == IF in.remaining < r.qty THEN in.remaining ELSE r.qty

\* Mutant: a spent front order is popped before the fills are reported.
TradeThenPop ==
    /\ phase = "match"
    /\ Matching
    /\ LET p == Best(book, Opp)
           r == FrontNode(book, Opp, p)
           n == Traded(r)
           b == TradeFront(book, Opp, p, n)
       IN  /\ in' = OnFill(in, n)
           /\ book' = IF n = r.qty THEN PopFront(b, Opp, p) ELSE b
           /\ fills' = fills \o <<FillOf(in.id, in.side, p, n, in.is_ours, FALSE),
                                  FillOf(r.id, Opp, p, n, r.is_ours, TRUE)>>
    /\ phase' = "traded"

Trade ==
    /\ phase = "match"
    /\ Matching
    /\ LET p == Best(book, Opp)
           r == FrontNode(book, Opp, p)
           n == Traded(r)
       IN  /\ in' = OnFill(in, n)
           /\ book' = TradeFront(book, Opp, p, n)
           /\ fills' = fills \o <<FillOf(in.id, in.side, p, n, in.is_ours, FALSE),
                                  FillOf(r.id, Opp, p, n, r.is_ours, TRUE)>>
    /\ phase' = "traded"

Settle ==
    /\ phase = "traded"
    /\ LET p == Best(book, Opp)
       IN  book' = IF FrontNode(book, Opp, p).qty <= 0 THEN PopFront(book, Opp, p) ELSE book
    /\ phase' = "match"
    /\ UNCHANGED <<in, fills>>

\* The loop is over: rest the remainder of a Limit order, cancel any other.
\* insert's result is not looked at.
Rest ==
    /\ phase = "match"
    /\ ~Matching
    /\ in.remaining > 0 /\ in.type = "Limit"
    /\ book' = Insert(book, in)
    /\ phase' = "done"
    /\ UNCHANGED <<in, fills>>

Discard ==
    /\ phase = "match"
    /\ ~Matching
    /\ in.remaining > 0 /\ in.type # "Limit"
    /\ in' = OnCancel(in)
    /\ phase' = "done"
    /\ UNCHANGED <<book, fills>>

Complete ==
    /\ phase = "match"
    /\ in.remaining = 0
    /\ phase' = "done"
    /\ UNCHANGED <<book, in, fills>>

Return ==
    /\ phase = "done"
    /\ phase' = "idle"
    /\ in' = NoOrder
    /\ fills' = << >>
    /\ UNCHANGED book

\* cancel: never in the middle of a submit, callbacks cannot reach the engine.
Cancel(id) ==
    /\ phase = "idle"
    /\ book' = CancelOrder(book, id)
    /\ UNCHANGED <<in, fills, phase>>

Step == Trade \/ Settle \/ Rest \/ Discard \/ Complete \/ Return

Next ==
    \/ \E o \in Submission : Submit(o)
    \/ \E id \in OrderId : Cancel(id)
    \/ Step

Spec == Init /\ [][Next]_engineVars

(***************************************************************************)
(* Properties.                                                             *)
(***************************************************************************)

\* Every variable stays in its type; in is an order exactly while one is processed.
TypeOK ==
    /\ IsBook(book)
    /\ fills \in Seq(Fill)
    /\ phase \in Phase
    /\ IF phase = "idle" THEN in = NoOrder ELSE in \in Order

\* Whatever sequence of submits, sweeps and cancels ran, and in the middle of
\* a match as well: index_ and the queues hold the same orders.
BookIndexed == IndexMatchesQueues(book)

\* total_qty, kept by += and -= in four places, is always the queue's sum;
\* fully_fillable and the snapshot read it instead of the queue.
BookTotals == LevelTotals(book)

\* A resting order has something left and a level has an order, except that
\* the callbacks of a trade may see the spent front order of the best level.
NothingSpentRests ==
    /\ NoEmptyLevel(book)
    /\ \A s \in Side : \A p \in Prices(book, s) :
         LET q == book.levels[s][p].queue
         IN  \A i \in DOMAIN q :
               q[i].qty > 0 \/ (phase = "traded" /\ s = Opp /\ p = Best(book, s) /\ i = 1)

\* The book's three stores, each updated apart in rest, match_against and cancel,
\* say the same of what rests.
BookConsistent == BookIndexed /\ BookTotals /\ NothingSpentRests

\* Matching before resting keeps the best bid below the best ask, at every
\* point a callback or a cancel can look.
BookUncrossed == NotCrossed(book)

\* A FOK order either executes in full or leaves no fill and no trace.
FOKAllOrNothing ==
    phase = "done" /\ in.type = "FOK" =>
        \/ in.remaining = 0
        \/ in.remaining = in.qty /\ in.status = "Rejected" /\ fills = << >>

\* The legs of one kind, and what they add up to.
Legs(fs, m) == {i \in DOMAIN fs : fs[i].is_maker = m}

FilledOn(fs, m) == SumFunctionOnSet([i \in DOMAIN fs |-> fs[i].qty], Legs(fs, m))

\* The fills reported so far add up to what the order has lost, on the taker
\* legs and on the maker legs alike.
FillsAddUp ==
    phase # "idle" => \A m \in BOOLEAN : FilledOn(fills, m) = in.qty - in.remaining

\* order.hpp says the status never drifts out of sync with the remaining
\* quantity: an order for something whose processing ended is Filled exactly
\* when nothing of it remains.  (An order for nothing ends Accepted.)
StatusTracksRemaining ==
    phase = "done" /\ in.qty > 0 => (in.status = "Filled" <=> in.remaining = 0)

\* What a submit leaves of its order: the fills say what it has lost, the status
\* what remains, and the FOK promise holds.
OrderSettled == FillsAddUp /\ StatusTracksRemaining /\ FOKAllOrNothing

(***************************************************************************)
(* The engine implements the abstract book.  Resting orders are the nodes  *)
(* with something left; who is ahead of whom is read off the queues; the   *)
(* trade is the abstract step, settling a stutter.                         *)
(***************************************************************************)
Unspent == {id \in Resting(book) : NodeQty(book, id) > 0}

RestingOrders ==
    [id \in Unspent |-> [side |-> book.index[id].side, price |-> book.index[id].price,
                         qty |-> NodeQty(book, id)]]

AheadInQueue ==
    LET ids == Unspent
    IN  {ab \in ids \X ids :
            /\ book.index[ab[1]].side = book.index[ab[2]].side
            /\ book.index[ab[1]].price = book.index[ab[2]].price
            /\ PlaceOf(book, ab[1]) < PlaceOf(book, ab[2])}

Taker ==
    IF phase = "idle" THEN [stage |-> "none"]
    ELSE [stage |-> IF phase = "done" THEN "over" ELSE "working",
          order |-> [id |-> in.id, side |-> in.side, type |-> in.type,
                     price |-> in.price, left |-> in.remaining]]

Promise == INSTANCE PriceTimeBook
             WITH resting <- RestingOrders, ahead <- AheadInQueue, taker <- Taker

\* Strict price-time priority, FOK on the true depth, no early stop: every
\* step of the engine is a step of the abstract book or leaves it alone.
ImplementsPriceTimeBook == Promise!Spec
=============================================================================
