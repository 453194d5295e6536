----------------------------- MODULE OrderBook -----------------------------
(***************************************************************************)
(* The limit order book of include/backtest/order_book.hpp, as a value and *)
(* the operations that turn one book into the next.  A book is             *)
(*                                                                         *)
(*   levels[s]  the std::map of side s: a partial function from price to   *)
(*              PriceLevel, its domain the prices that have a level;       *)
(*   index      the unordered_map index_, a partial function from order id *)
(*              to Locator.                                                *)
(*                                                                         *)
(* The list iterator of a Locator designates one node of one queue.  Nodes *)
(* never move between queues, so the node is the one that carries the id   *)
(* the locator is stored under: that is how CancelOrder finds it.          *)
(***************************************************************************)
EXTENDS Integers, FiniteSets, Sequences, SequencesExt

CONSTANTS
    OrderId,    \* order ids, shared by the strategy and the market feed
    Price,      \* prices in ticks
    MaxQty      \* largest quantity an order is submitted with

ASSUME PriceAssumption == Price \subseteq Int /\ IsFiniteSet(Price)
ASSUME MaxQtyAssumption == MaxQty \in Nat \ {0}

Side == {"Buy", "Sell"}

Opposite(s) == IF s = "Buy" THEN "Sell" ELSE "Buy"

OrderType == {"Limit", "Market", "IOC", "FOK"}

OrderStatus == {"New", "Accepted", "PartiallyFilled", "Filled", "Canceled", "Rejected"}

Quantity == 0 .. MaxQty

Order == [id : OrderId, side : Side, type : OrderType, price : Price,
          qty : Quantity, remaining : Quantity, status : OrderStatus,
          is_ours : BOOLEAN]

RestingOrder == [id : OrderId, qty : Quantity, is_ours : BOOLEAN]

PriceLevel == [total_qty : Int, queue : Seq(RestingOrder)]

Locator == [side : Side, price : Price]

(***************************************************************************)
(* Reading the book.                                                       *)
(***************************************************************************)
EmptyBook == [levels |-> [s \in Side |-> << >>], index |-> << >>]

Prices(b, s) == DOMAIN b.levels[s]

Resting(b) == DOMAIN b.index

\* The comparators of BidMap and AskMap: p comes before q on side s.
Better(s, p, q) == IF s = "Buy" THEN p > q ELSE p < q

\* begin() of the side's map: best_bid / best_ask.
Best(b, s) == CHOOSE p \in Prices(b, s) : \A q \in Prices(b, s) \ {p} : Better(s, p, q)

\* The quantity resting in a queue, added up node by node.
QueueQty(q) ==
    LET sum[i \in 0 .. Len(q)] == IF i = 0 THEN 0 ELSE sum[i - 1] + q[i].qty
    IN  sum[Len(q)]

IsBook(b) ==
    /\ b = [levels |-> b.levels, index |-> b.index]
    /\ b.levels = [s \in Side |-> b.levels[s]]
    /\ \A s \in Side : /\ Prices(b, s) \subseteq Price
                       /\ b.levels[s] \in [Prices(b, s) -> PriceLevel]
    /\ Resting(b) \subseteq OrderId
    /\ b.index \in [Resting(b) -> Locator]

(***************************************************************************)
(* Updates of one side's map.                                              *)
(***************************************************************************)
PutLevel(m, p, lvl) == [q \in DOMAIN m \cup {p} |-> IF q = p THEN lvl ELSE m[q]]

DropLevel(m, p) == [q \in DOMAIN m \ {p} |-> m[q]]

\* A level is stored back, or dropped from the map once its queue is empty.
Keep(m, p, lvl) == IF lvl.queue = << >> THEN DropLevel(m, p) ELSE PutLevel(m, p, lvl)

Unindex(ix, id) == [i \in DOMAIN ix \ {id} |-> ix[i]]

(***************************************************************************)
(* insert / insert_into: rest an order at the back of its level.  Nothing  *)
(* happens (the code returns false) when the id is already in the index.   *)
(***************************************************************************)
LevelOrNew(m, p) == IF p \in DOMAIN m THEN m[p] ELSE [total_qty |-> 0, queue |-> << >>]

\* Mutant: push_front for push_back.
InsertAtFront(b, o) ==
    LET old == LevelOrNew(b.levels[o.side], o.price)
        new == [total_qty |-> old.total_qty + o.remaining,
                queue |-> <<[id |-> o.id, qty |-> o.remaining, is_ours |-> o.is_ours]>>
                          \o old.queue]
    IN  [levels |-> [b.levels EXCEPT ![o.side] = PutLevel(@, o.price, new)],
         index  |-> [i \in DOMAIN b.index \cup {o.id} |->
                       IF i = o.id THEN [side |-> o.side, price |-> o.price]
                       ELSE b.index[i]]]

InsertInto(b, o) ==
    LET old == LevelOrNew(b.levels[o.side], o.price)
        new == [total_qty |-> old.total_qty + o.remaining,
                queue |-> Append(old.queue, [id |-> o.id, qty |-> o.remaining,
                                             is_ours |-> o.is_ours])]
    IN  [levels |-> [b.levels EXCEPT ![o.side] = PutLevel(@, o.price, new)],
         index  |-> [i \in DOMAIN b.index \cup {o.id} |->
                       IF i = o.id THEN [side |-> o.side, price |-> o.price]
                       ELSE b.index[i]]]

Insert(b, o) == IF o.id \in Resting(b) THEN b ELSE InsertInto(b, o)

(***************************************************************************)
(* cancel / erase_locator: unlink the node the index points to, drop the   *)
(* level if that was its last node, and drop the index entry.              *)
(***************************************************************************)
NodeOf(q, id) == CHOOSE i \in DOMAIN q : q[i].id = id

\* Mutant: the level total keeps the cancelled quantity.
WithoutNodeStaleTotal(lvl, i) == [lvl EXCEPT !.queue = RemoveAt(@, i)]

WithoutNode(lvl, i) ==
    [total_qty |-> lvl.total_qty - lvl.queue[i].qty, queue |-> RemoveAt(lvl.queue, i)]

EraseLocator(m, p, id) ==
    IF p \in DOMAIN m THEN Keep(m, p, WithoutNode(m[p], NodeOf(m[p].queue, id))) ELSE m

CancelOrder(b, id) ==
    IF id \in Resting(b)
      THEN LET loc == b.index[id]
           IN  [levels |-> [b.levels EXCEPT ![loc.side] = EraseLocator(@, loc.price, id)],
                index  |-> Unindex(b.index, id)]
      ELSE b

(***************************************************************************)
(* The two halves of one iteration of match_against's inner loop on side s *)
(* at price p: the trade of n units with the front node, after which the   *)
(* fill callbacks run, and the removal of the front node if it is spent    *)
(* (with its level, once the queue is empty).                              *)
(***************************************************************************)
FrontNode(b, s, p) == Head(b.levels[s][p].queue)

TradeFront(b, s, p, n) ==
    LET lvl == b.levels[s][p]
        new == [total_qty |-> lvl.total_qty - n,
                queue |-> [lvl.queue EXCEPT ![1].qty = lvl.queue[1].qty - n]]
    IN  [levels |-> [b.levels EXCEPT ![s] = PutLevel(@, p, new)],
         index  |-> b.index]

PopFront(b, s, p) ==
    LET lvl == b.levels[s][p]
        new == [total_qty |-> lvl.total_qty, queue |-> Tail(lvl.queue)]
    IN  [levels |-> [b.levels EXCEPT ![s] = Keep(@, p, new)],
         index  |-> Unindex(b.index, Head(lvl.queue).id)]

(***************************************************************************)
(* Where a resting order waits, and what is left of it.                    *)
(***************************************************************************)
QueueOf(b, id) == b.levels[b.index[id].side][b.index[id].price].queue

PlaceOf(b, id) == NodeOf(QueueOf(b, id), id)

NodeQty(b, id) == QueueOf(b, id)[PlaceOf(b, id)].qty

(***************************************************************************)
(* What the book promises.                                                 *)
(***************************************************************************)

\* index_ and the queues describe the same orders: every node is indexed
\* under its id at the level it sits in, no id has two nodes, and every index
\* entry leads to a node.
IndexMatchesQueues(b) ==
    /\ \A s \in Side : \A p \in Prices(b, s) :
         LET q == b.levels[s][p].queue
         IN  \A i \in DOMAIN q :
               /\ q[i].id \in Resting(b)
               /\ b.index[q[i].id] = [side |-> s, price |-> p]
               /\ \A j \in DOMAIN q : q[i].id = q[j].id => i = j
    /\ \A id \in Resting(b) :
         LET loc == b.index[id]
         IN  /\ loc.price \in Prices(b, loc.side)
             /\ \E i \in DOMAIN b.levels[loc.side][loc.price].queue :
                  b.levels[loc.side][loc.price].queue[i].id = id

\* The cached total_qty of a level is the sum of its queue.
LevelTotals(b) ==
    \A s \in Side : \A p \in Prices(b, s) :
      b.levels[s][p].total_qty = QueueQty(b.levels[s][p].queue)

\* No level of the map is empty: a level without orders is a phantom best price.
NoEmptyLevel(b) ==
    \A s \in Side : \A p \in Prices(b, s) : b.levels[s][p].queue # << >>

\* The best bid is below the best ask.
NotCrossed(b) == \A p \in Prices(b, "Buy"), q \in Prices(b, "Sell") : p < q
=============================================================================
