----------------------------- MODULE Backtester -----------------------------
(***************************************************************************)
(* The event loop of backtester.hpp around the matching engine: run merges *)
(* the market tape with the strategy's own commands, which it receives in  *)
(* callbacks and holds back for a latency.                                 *)
(*                                                                         *)
(* The strategy is left open: in any callback it may submit any order of   *)
(* OwnOrders and cancel any id it was given, any number of times up to     *)
(* MaxCommands in total.  So what holds here holds for every strategy.     *)
(*                                                                         *)
(*   at       feed -> drain <-> ours -> event -> tape -> data -> feed, or  *)
(*            feed -> drain (the final flush) -> ended                     *)
(*   event    the market event being processed, EndOfTape in the flush     *)
(*   told     how many of the engine's fills have been routed              *)
(***************************************************************************)
EXTENDS MatchingEngine

CONSTANTS
    Tape,           \* events a feed is made of: [type, side, price, qty, id]
    Gaps,           \* time from one tape event to the next
    OwnOrders,      \* what the strategy may submit: [side, type, price, qty]
    LatencyBase,    \* Config::latency_base
    LatencyJitter,  \* Config::latency_jitter
    MaxEvents,      \* bound: length of the tape
    MaxCommands     \* bound: commands the strategy issues in a run

ASSUME LatencyAssumption == LatencyBase \in Nat /\ LatencyJitter \in Int
ASSUME GapsAssumption == Gaps \subseteq Nat
ASSUME BoundsAssumption == MaxEvents \in Nat /\ MaxCommands \in Nat

\* MdType and the fields of MarketEvent; a Cancel row is read for its id only.
ASSUME TapeAssumption ==
    \A e \in Tape :
        /\ e.type \in {"Add", "Trade", "Cancel"}
        /\ e.id \in OrderId
        /\ e.type # "Cancel" => e.side \in Side /\ e.price \in Price /\ e.qty \in Quantity

ASSUME OwnOrdersAssumption ==
    OwnOrders \subseteq [side : Side, type : OrderType, price : Price, qty : Quantity]

\* next_our_id_ counts from 1, in the type the tape's ids have.
ASSUME IdsAssumption == 1 .. MaxCommands \subseteq OrderId

ASSUME BothOwnersAssumption == Owners = BOOLEAN

VARIABLES
    at, event, clock, saved,
    pending,        \* pending_, the commands in flight
    next_our_id, seq,
    told,
    seen,           \* md_seen_
    orders,         \* the orders the strategy was given an id for
    filled,         \* what on_fill has reported on each of them
    withdrawn,      \* history: ids whose cancel, due no sooner than the order, was executed
    horizon         \* history: when the book was last acted upon

loopVars == <<at, event, clock, saved, seen>>
ownVars == <<pending, next_our_id, seq, orders>>
vars == <<engineVars, loopVars, ownVars, told, filled, withdrawn, horizon>>

EndOfTape == [type |-> "End"]

\* LatencyModel::sample.
Latency ==
    IF LatencyJitter <= 0 THEN {LatencyBase}
    ELSE {IF LatencyBase + d < 0 THEN 0 ELSE LatencyBase + d :
            d \in (0 - LatencyJitter) .. LatencyJitter}

BTInit ==
    /\ Init
    /\ at = "data"                  \* on_start
    /\ event = EndOfTape
    /\ clock = 0 /\ saved = 0
    /\ pending = {}
    /\ next_our_id = 1 /\ seq = 0
    /\ told = 0 /\ seen = 0
    /\ orders = << >> /\ filled = << >>
    /\ withdrawn = {} /\ horizon = 0

(***************************************************************************)
(* OrderContext: what the strategy can do while a callback runs, that is   *)
(* between events and right after one of its fills was routed.             *)
(***************************************************************************)
InFillCallback == phase = "traded" /\ told > Len(fills) - 2 /\ fills[told].is_ours

InCallback == at = "data" \/ InFillCallback

Enqueue(p) == pending' = pending \cup {p} /\ seq' = seq + 1

SubmitOwn(o, lat) ==
    LET id == next_our_id
    IN  /\ InCallback
        /\ seq < MaxCommands
        /\ Enqueue([ts |-> clock + lat, seq |-> seq, is_cancel |-> FALSE, id |-> id])
        /\ next_our_id' = id + 1
        /\ orders' = Append(orders, [side |-> o.side, type |-> o.type, price |-> o.price,
                                     qty |-> o.qty, ts_active |-> clock + lat])
        /\ filled' = Append(filled, 0)
        /\ UNCHANGED <<engineVars, loopVars, told, withdrawn, horizon>>

CancelOwn(id, lat) ==
    /\ InCallback
    /\ seq < MaxCommands
    /\ Enqueue([ts |-> clock + lat, seq |-> seq, is_cancel |-> TRUE, id |-> id])
    /\ UNCHANGED <<engineVars, loopVars, next_our_id, orders, told, filled,
                   withdrawn, horizon>>

(***************************************************************************)
(* run.                                                                    *)
(***************************************************************************)
EndCallback ==
    /\ at = "data"
    /\ at' = "feed"
    /\ UNCHANGED <<engineVars, event, clock, saved, seen, ownVars, told, filled,
                   withdrawn, horizon>>

NextEvent(e, gap) ==
    /\ at = "feed"
    /\ seen < MaxEvents
    /\ at' = "drain"
    /\ event' = [type |-> e.type, side |-> e.side, price |-> e.price, qty |-> e.qty,
                 id |-> e.id, ts |-> clock + gap]
    /\ clock' = clock + gap
    /\ UNCHANGED <<engineVars, saved, seen, ownVars, told, filled, withdrawn, horizon>>

Flush ==
    /\ at = "feed"
    /\ at' = "drain"
    /\ event' = EndOfTape
    /\ UNCHANGED <<engineVars, clock, saved, seen, ownVars, told, filled, withdrawn, horizon>>

\* Mutant: the heap is ordered the wrong way round.
Latest(p, q) == p.ts > q.ts \/ (p.ts = q.ts /\ p.seq > q.seq)

\* Mutant: PendCmp breaks ties against the order of issue.
EarliestUnstable(p, q) == p.ts < q.ts \/ (p.ts = q.ts /\ p.seq > q.seq)

\* PendCmp: p is popped before q.
Earliest(p, q) == p.ts < q.ts \/ (p.ts = q.ts /\ p.seq < q.seq)

Top == CHOOSE p \in pending : \A q \in pending \ {p} : Earliest(p, q)

\* drain_pending's loop condition, upto being the event's time or kMaxTs.
Due == pending # {} /\ (event # EndOfTape => Top.ts <= event.ts)

\* Mutant: top() without pop().
NotPopped == pending

Popped == pending \ {Top}

DrainCancel ==
    /\ at = "drain"
    /\ Due
    /\ Top.is_cancel
    /\ Cancel(Top.id)
    /\ pending' = Popped
    /\ withdrawn' = IF Top.ts < orders[Top.id].ts_active THEN withdrawn
                    ELSE withdrawn \cup {Top.id}
    /\ horizon' = Top.ts
    /\ UNCHANGED <<loopVars, next_our_id, seq, orders, told, filled>>

\* The Order submit built, as engine_.submit receives it.
OwnSubmission(id) ==
    [id |-> id, side |-> orders[id].side, type |-> orders[id].type,
     price |-> orders[id].price, qty |-> orders[id].qty,
     remaining |-> 0, status |-> "New", is_ours |-> TRUE]

DrainOrder ==
    /\ at = "drain"
    /\ Due
    /\ ~Top.is_cancel
    /\ Submit(OwnSubmission(Top.id))
    /\ at' = "ours"
    /\ pending' = Popped
    /\ saved' = clock
    /\ clock' = Top.ts
    /\ horizon' = Top.ts
    /\ UNCHANGED <<event, seen, next_our_id, seq, orders, told, filled, withdrawn>>

\* Mutant: clock_ = saved is forgotten.
NotResumed == clock

Resumed == saved

OursDone ==
    /\ at = "ours"
    /\ Return
    /\ at' = "drain"
    /\ clock' = Resumed
    /\ told' = 0
    /\ UNCHANGED <<event, saved, seen, ownVars, filled, withdrawn, horizon>>

Drained ==
    /\ at = "drain"
    /\ ~Due
    /\ at' = IF event = EndOfTape THEN "ended" ELSE "event"
    /\ UNCHANGED <<engineVars, event, clock, saved, seen, ownVars, told, filled,
                   withdrawn, horizon>>

ApplyCancel ==
    /\ at = "event"
    /\ event.type = "Cancel"
    /\ Cancel(event.id)
    /\ at' = "data"
    /\ seen' = seen + 1
    /\ horizon' = event.ts
    /\ UNCHANGED <<event, clock, saved, ownVars, told, filled, withdrawn>>

ApplyOrder ==
    /\ at = "event"
    /\ event.type # "Cancel"
    /\ Submit([id |-> event.id, side |-> event.side,
               type |-> IF event.type = "Add" THEN "Limit" ELSE "IOC",
               price |-> event.price, qty |-> event.qty,
               remaining |-> 0, status |-> "New", is_ours |-> FALSE])
    /\ at' = "tape"
    /\ horizon' = event.ts
    /\ UNCHANGED <<event, clock, saved, seen, ownVars, told, filled, withdrawn>>

TapeDone ==
    /\ at = "tape"
    /\ Return
    /\ at' = "data"
    /\ seen' = seen + 1
    /\ told' = 0
    /\ UNCHANGED <<event, clock, saved, ownVars, filled, withdrawn, horizon>>

\* Mutant: only taker fills are reported to the strategy.
TakersOnly(f) == f.is_ours /\ ~f.is_maker

\* The early return of route_fill.
Reported(f) == f.is_ours

\* route_fill of the next leg: Portfolio::on_fill and Strategy::on_fill both
\* add the fill to their position.
RouteFill ==
    /\ phase = "traded"
    /\ told < Len(fills)
    /\ told' = told + 1
    /\ LET f == fills[told + 1]
       IN  filled' = IF Reported(f) THEN [filled EXCEPT ![f.order_id] = @ + f.qty]
                                    ELSE filled
    /\ UNCHANGED <<engineVars, loopVars, ownVars, withdrawn, horizon>>

\* The engine's own steps; the loop goes on when both callbacks have returned.
EngineStep ==
    /\ \/ Trade
       \/ told = Len(fills) /\ Settle
       \/ Rest
       \/ Discard
       \/ Complete
    /\ UNCHANGED <<loopVars, ownVars, told, filled, withdrawn, horizon>>

\* run has returned.
Stopped == at = "ended" /\ UNCHANGED vars

BTStep ==
    \/ EndCallback
    \/ Flush
    \/ DrainCancel \/ DrainOrder \/ OursDone \/ Drained
    \/ ApplyCancel \/ ApplyOrder \/ TapeDone
    \/ RouteFill
    \/ EngineStep

BTNext ==
    \/ \E o \in OwnOrders, lat \in Latency : SubmitOwn(o, lat)
    \/ \E id \in DOMAIN orders, lat \in Latency : CancelOwn(id, lat)
    \/ \E e \in Tape, gap \in Gaps : NextEvent(e, gap)
    \/ BTStep
    \/ Stopped

BTSpec == BTInit /\ [][BTNext]_vars

\* run is one thread, and callbacks return.
BTFairSpec == BTSpec /\ WF_vars(BTStep)

(***************************************************************************)
(* Properties.                                                             *)
(***************************************************************************)

\* Causality (backtester.hpp lines 20-22): whatever has been done to the book,
\* no command still in flight should have reached it before that; and the clock
\* is behind the event being processed only while an own order is processed.
NothingOverdue ==
    /\ \A p \in pending : p.ts >= horizon
    /\ event # EndOfTape =>
         IF at = "ours" THEN clock <= event.ts ELSE clock = event.ts

\* The two streams are merged on one clock: events and commands reach the
\* book in time order, in the drains before an event and in the final flush.
TimeOrder == [][horizon' >= horizon]_vars

RestingQty(id) == IF id \in Resting(book) THEN NodeQty(book, id) ELSE 0

WorkingQty(id) == IF phase \in {"match", "traded"} /\ in.id = id THEN in.remaining ELSE 0

PendingQty(id) ==
    IF \E p \in pending : ~p.is_cancel /\ p.id = id THEN orders[id].qty ELSE 0

\* What on_fill reported of an order and what is still open of it, in flight,
\* in the engine or on the book, add up to the order, until it is withdrawn or
\* its remainder discarded; it is never reported more than it was for.
OwnQuantityAccounted ==
    told = Len(fills) =>
        \A id \in DOMAIN orders :
            LET known == filled[id] + RestingQty(id) + WorkingQty(id) + PendingQty(id)
            IN  /\ known <= orders[id].qty
                /\ \/ known = orders[id].qty
                   \/ id \in withdrawn
                   \/ orders[id].type # "Limit"

\* submit and cancel draw their latencies independently, so a cancel may be due
\* before its order and is then lost (the engine knows no such id).  A cancel
\* due with its order or later always finds it, and the order is gone for good.
CancelSticks ==
    \A id \in withdrawn : RestingQty(id) + WorkingQty(id) + PendingQty(id) = 0

\* run returns, with every command flushed and none left in the heap.
RunEnds == <>(at = "ended" /\ pending = {})
=============================================================================
