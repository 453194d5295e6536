--------------------------- MODULE PriceTimeBook ---------------------------
(***************************************************************************)
(* What a price-time priority book promises (order_book.hpp lines 22-27,   *)
(* matching_engine.hpp lines 7-11), without levels, queues, cached totals  *)
(* or an index: a set of resting orders, the relation "arrived at the same *)
(* side and price earlier", and the order being worked on, if any.         *)
(*                                                                         *)
(*   - an execution takes the best-priced acceptable order, and among      *)
(*     those of one price the one nobody is ahead of;                      *)
(*   - a FOK order is taken on exactly when the acceptable resting orders  *)
(*     add up to its quantity;                                             *)
(*   - work on an order stops only when it is spent or nothing resting is  *)
(*     acceptable to it; the remainder of a limit order then joins the     *)
(*     back of its price, unless its id is in use.                         *)
(*                                                                         *)
(* MatchingEngine implements this module under the mapping given there.    *)
(***************************************************************************)
EXTENDS Integers, Functions

CONSTANTS OrderId, Price, MaxQty

VARIABLES
    resting,    \* partial function: id -> [side, price, qty]
    ahead,      \* <<a, b>>: a and b rest at the same side and price, a came first
    taker       \* the order worked on, or Nobody

vars == <<resting, ahead, taker>>

Nobody == [stage |-> "none"]

Side == {"Buy", "Sell"}

Init ==
    /\ resting = << >>
    /\ ahead = {}
    /\ taker = Nobody

Arrivals == [id : OrderId, side : Side, type : {"Limit", "Market", "IOC", "FOK"},
             price : Price, left : 0 .. MaxQty]

Accepts(o, p) ==
    \/ o.type = "Market"
    \/ o.side = "Buy" /\ p <= o.price
    \/ o.side = "Sell" /\ p >= o.price

\* The resting orders o can trade with.
Acceptable(o) ==
    {id \in DOMAIN resting : resting[id].side # o.side /\ Accepts(o, resting[id].price)}

Available(o) ==
    SumFunctionOnSet([id \in DOMAIN resting |-> resting[id].qty], Acceptable(o))

FirstInLine(id, o) ==
    \A other \in Acceptable(o) \ {id} :
        /\ IF o.side = "Buy" THEN resting[id].price <= resting[other].price
                             ELSE resting[id].price >= resting[other].price
        /\ <<other, id>> \notin ahead

Without(id) == [i \in DOMAIN resting \ {id} |-> resting[i]]

NotInvolving(id) == {pair \in ahead : pair[1] # id /\ pair[2] # id}

Arrive(o) ==
    /\ taker = Nobody
    /\ taker' = [stage |-> "working", order |-> o]
    /\ o.type = "FOK" => Available(o) >= o.left
    /\ UNCHANGED <<resting, ahead>>

TurnAway(o) ==
    /\ taker = Nobody
    /\ taker' = [stage |-> "over", order |-> o]
    /\ o.type = "FOK" /\ Available(o) < o.left
    /\ UNCHANGED <<resting, ahead>>

Execute(id) ==
    /\ taker.stage = "working"
    /\ taker.order.left > 0
    /\ id \in Acceptable(taker.order)
    /\ FirstInLine(id, taker.order)
    /\ LET n == IF taker.order.left < resting[id].qty THEN taker.order.left
                                                      ELSE resting[id].qty
       IN  /\ taker' = [taker EXCEPT !.order.left = @ - n]
           /\ IF n = resting[id].qty
                THEN resting' = Without(id) /\ ahead' = NotInvolving(id)
                ELSE resting' = [resting EXCEPT ![id].qty = @ - n] /\ UNCHANGED ahead

Exhausted == taker.order.left = 0 \/ Acceptable(taker.order) = {}

Join(o) ==
    /\ resting' = [id \in DOMAIN resting \cup {o.id} |->
                     IF id = o.id THEN [side |-> o.side, price |-> o.price, qty |-> o.left]
                     ELSE resting[id]]
    /\ ahead' = ahead \cup {<<id, o.id>> : id \in {i \in DOMAIN resting :
                                resting[i].side = o.side /\ resting[i].price = o.price}}

Finish ==
    /\ taker.stage = "working"
    /\ Exhausted
    /\ IF taker.order.type = "Limit" /\ taker.order.left > 0
          /\ taker.order.id \notin DOMAIN resting
         THEN Join(taker.order)
         ELSE UNCHANGED <<resting, ahead>>
    /\ taker' = [taker EXCEPT !.stage = "over"]

Leave ==
    /\ taker.stage = "over"
    /\ taker' = Nobody
    /\ UNCHANGED <<resting, ahead>>

Withdraw(id) ==
    /\ taker = Nobody
    /\ id \in DOMAIN resting
    /\ resting' = Without(id)
    /\ ahead' = NotInvolving(id)
    /\ UNCHANGED taker

Next ==
    \/ Finish
    \/ Leave
    \/ \E id \in OrderId : Execute(id) \/ Withdraw(id)
    \/ taker = Nobody /\ \E o \in Arrivals : Arrive(o) \/ TurnAway(o)

Spec == Init /\ [][Next]_vars
=============================================================================
