-------------------------- MODULE BacktesterProofs --------------------------
(***************************************************************************)
(* The safety of the event loop for every tape, every latency and every    *)
(* strategy.                                                               *)
(*                                                                         *)
(* The argument goes through three layers.  Whatever the loop does, the    *)
(* engine only takes steps of its own specification, so everything proved  *)
(* of MatchingEngine holds in the loop.  The commands in flight have a     *)
(* first one, and the clock and the book's horizon stay on the right side  *)
(* of it.  On both rests the account of an own order's quantity over the   *)
(* four places it can be.                                                  *)
(***************************************************************************)
EXTENDS Backtester, MatchingEngineProofs

MarketEvent == {e \in [type : {"Add", "Trade", "Cancel"}, side : {f.side : f \in Tape},
                       price : {f.price : f \in Tape}, qty : {f.qty : f \in Tape},
                       id : OrderId, ts : Nat] :
                  e.type # "Cancel" => e.side \in Side /\ e.price \in Price /\ e.qty \in Quantity}

OwnOrder == [side : Side, type : OrderType, price : Price, qty : Quantity, ts_active : Nat]

Command == [ts : Nat, seq : Nat, is_cancel : BOOLEAN, id : Nat]

(***************************************************************************)
(* The loop with any order the engine takes, in place of those of          *)
(* OwnOrders: what is proved of its steps serves the strategies as well,   *)
(* which make up their orders as they go.                                  *)
(***************************************************************************)
Submittable == [side : Side, type : OrderType, price : Price, qty : Quantity]

LoopNext ==
    \/ \E o \in Submittable, lat \in Latency : SubmitOwn(o, lat)
    \/ \E id \in DOMAIN orders, lat \in Latency : CancelOwn(id, lat)
    \/ \E e \in Tape, gap \in Gaps : NextEvent(e, gap)
    \/ BTStep
    \/ Stopped

LEMMA LoopCovers == [BTNext]_vars => [LoopNext]_vars
    BY OwnOrdersAssumption DEF BTNext, LoopNext, Submittable

(***************************************************************************)
(* Types, and which parts of the loop are active together.                 *)
(***************************************************************************)
LoopTypes ==
    /\ at \in {"data", "feed", "drain", "ours", "event", "tape", "ended"}
    /\ event \in MarketEvent \cup {EndOfTape}
    /\ clock \in Nat /\ saved \in Nat /\ horizon \in Nat /\ seq \in Nat
    /\ orders \in Seq(OwnOrder)
    /\ Len(orders) = next_our_id - 1 /\ next_our_id \in Nat /\ next_our_id <= seq + 1
    /\ seq <= MaxCommands
    /\ filled \in Seq(Int) /\ Len(filled) = Len(orders)

\* The commands in flight are finitely many, numbered apart, and about orders
\* that exist; a submission is due when its order is.
InFlight ==
    /\ pending \subseteq Command /\ IsFiniteSet(pending)
    /\ \A p \in pending : p.seq < seq /\ p.id \in DOMAIN orders
    /\ \A p, q \in pending : p.seq = q.seq => p = q
    /\ \A p \in pending : ~p.is_cancel => p.ts = orders[p.id].ts_active

\* The engine works exactly while the loop waits for it, and an event is being
\* applied only when there is one.
Control ==
    /\ phase # "idle" <=> at \in {"ours", "tape"}
    /\ at \in {"event", "tape"} => event # EndOfTape

\* How clock, horizon, event and the commands in flight stand to each other.
Timing ==
    /\ \A p \in pending : p.ts >= horizon
    /\ event # EndOfTape =>
         IF at = "ours" THEN clock <= event.ts /\ saved = event.ts ELSE clock = event.ts
    /\ at \in {"data", "feed", "tape"} => horizon <= clock
    /\ at = "ours" => horizon = clock
    /\ event # EndOfTape => horizon <= event.ts
    /\ at = "event" => \A p \in pending : p.ts > event.ts

LInv == LoopTypes /\ InFlight /\ Control /\ Timing

\* Fills are routed in the window between a trade and its settling, the two
\* legs of that trade only.
Routing ==
    /\ told \in Nat /\ told <= Len(fills)
    /\ phase # "traded" => told = Len(fills)
    /\ phase = "traded" => told >= Len(fills) - 2

LEMMA LatencyType == Latency \subseteq Nat
<1>1. \A d \in (0 - LatencyJitter) .. LatencyJitter : LatencyBase + d \in Int
    BY LatencyAssumption
<1> QED
    BY <1>1, LatencyAssumption DEF Latency

(***************************************************************************)
(* The heap: a finite set of commands that are numbered apart has one that *)
(* is due before all others.                                               *)
(***************************************************************************)
NumberedApart(X) == \A p, q \in X : p.seq = q.seq => p = q

LEMMA FirstExists ==
    ASSUME NEW X \in SUBSET Command, IsFiniteSet(X), NumberedApart(X), X # {}
    PROVE  \E p \in X : \A q \in X \ {p} : Earliest(p, q)
<1> DEFINE S == {n \in Nat : \A Y \in SUBSET X : Cardinality(Y) = n /\ Y # {}
                    => \E p \in Y : \A q \in Y \ {p} : Earliest(p, q)}
<1>0. \A Y \in SUBSET X : IsFiniteSet(Y) /\ Cardinality(Y) \in Nat
    BY FS_Subset, FS_CardinalityType
<1>1. 0 \in S
    BY <1>0, FS_EmptySet
<1>2. ASSUME NEW n \in Nat, n \in S PROVE n + 1 \in S
    <2> SUFFICES ASSUME NEW Y \in SUBSET X, Cardinality(Y) = n + 1, Y # {}
                 PROVE  \E p \in Y : \A q \in Y \ {p} : Earliest(p, q)
        OBVIOUS
    <2> PICK y \in Y : TRUE
        OBVIOUS
    <2>1. Cardinality(Y \ {y}) = n
        BY <1>0, FS_RemoveElement
    <2>2. CASE Y \ {y} = {}
        BY <2>2
    <2>3. CASE Y \ {y} # {}
        <3>1. PICK p \in Y \ {y} : \A q \in (Y \ {y}) \ {p} : Earliest(p, q)
            BY <1>2, <2>1, <2>3
        <3>2. CASE Earliest(p, y)
            BY <3>1, <3>2
        <3>3. CASE ~ Earliest(p, y)
            <4>1. \A q \in Y : q.ts \in Nat /\ q.seq \in Nat
                BY DEF Command
            <4>2. p.seq # y.seq
                BY <3>1 DEF NumberedApart
            <4>3. Earliest(y, p)
                BY <3>3, <4>1, <4>2 DEF Earliest
            <4>4. \A q \in Y \ {y} : Earliest(y, q)
                BY <3>1, <4>1, <4>3 DEF Earliest
            <4> QED
                BY <4>4
        <3> QED
            BY <3>2, <3>3
    <2> QED
        BY <2>2, <2>3
<1>3. Nat \subseteq S
    <2> HIDE DEF S
    <2> QED
        BY <1>1, <1>2, SetInduction
<1>4. Cardinality(X) \in S
    BY <1>0, <1>3
<1> QED
    BY <1>4

\* top() is a command in flight and nothing in flight is due before it.
LEMMA TopIsFirst ==
    ASSUME InFlight, pending # {}
    PROVE  /\ Top \in pending
           /\ Top.ts \in Nat /\ Top.seq \in Nat /\ Top.id \in DOMAIN orders
           /\ \A q \in pending : q.ts >= Top.ts
           /\ \A q \in pending \ {Top} : Earliest(Top, q)
<1>1. \E p \in pending : \A q \in pending \ {p} : Earliest(p, q)
    BY FirstExists DEF InFlight, NumberedApart
<1>2. Top \in pending /\ \A q \in pending \ {Top} : Earliest(Top, q)
    BY <1>1 DEF Top
<1>3. \A q \in pending : q.ts \in Nat /\ q.seq \in Nat /\ q.id \in DOMAIN orders
    BY DEF InFlight, Command
<1>4. \A q \in pending : q.ts >= Top.ts
    BY <1>2, <1>3 DEF Earliest
<1> QED
    BY <1>2, <1>3, <1>4

\* Ids the strategy has been given are ids an order may have.
LEMMA OwnIds ==
    ASSUME LoopTypes
    PROVE  /\ DOMAIN orders = 1 .. Len(orders) /\ Len(orders) \in Nat
           /\ DOMAIN filled = DOMAIN orders
           /\ DOMAIN orders \subseteq 1 .. MaxCommands
           /\ DOMAIN orders \subseteq OrderId
<1>1. DOMAIN orders = 1 .. Len(orders) /\ Len(orders) \in Nat /\ DOMAIN filled = 1 .. Len(filled)
    BY DEF LoopTypes
<1>2. Len(orders) <= MaxCommands
    BY <1>1, BoundsAssumption DEF LoopTypes
<1>3. DOMAIN orders \subseteq 1 .. MaxCommands
    BY <1>1, <1>2, BoundsAssumption
<1> QED
    BY <1>1, <1>3, IdsAssumption DEF LoopTypes

(***************************************************************************)
(* What the loop submits are submissions the engine expects.               *)
(***************************************************************************)
LEMMA OwnSubmissionType ==
    ASSUME LoopTypes, NEW id \in DOMAIN orders
    PROVE  OwnSubmission(id) \in Submission
<1>1. orders[id] \in OwnOrder /\ id \in OrderId
    BY OwnIds DEF LoopTypes
<1> QED
    BY <1>1, BothOwnersAssumption DEF OwnSubmission, Submission, OwnOrder

TapeOrder ==
    [id |-> event.id, side |-> event.side,
     type |-> IF event.type = "Add" THEN "Limit" ELSE "IOC",
     price |-> event.price, qty |-> event.qty,
     remaining |-> 0, status |-> "New", is_ours |-> FALSE]

LEMMA TapeOrderType ==
    ASSUME LoopTypes, event # EndOfTape, event.type # "Cancel"
    PROVE  TapeOrder \in Submission
<1>1. event \in MarketEvent
    BY DEF LoopTypes
<1>2. /\ event.id \in OrderId /\ event.side \in Side
      /\ event.price \in Price /\ event.qty \in Quantity
    BY <1>1 DEF MarketEvent
<1>3. (IF event.type = "Add" THEN "Limit" ELSE "IOC") \in OrderType
    BY DEF OrderType
<1> QED
    BY <1>2, <1>3, BothOwnersAssumption DEF TapeOrder, Submission

\* Every step of the loop is a step of the engine or leaves the engine alone.
LEMMA LoopStepsEngine ==
    ASSUME LInv, [LoopNext]_vars
    PROVE  [Next]_engineVars
<1> USE DEF LInv
<1>1. CASE DrainCancel
    <2>1. pending # {} /\ Cancel(Top.id)
        BY <1>1 DEF DrainCancel, Due
    <2>2. Top.id \in OrderId
        BY <2>1, TopIsFirst, OwnIds
    <2> QED
        BY <2>1, <2>2 DEF Next
<1>2. CASE DrainOrder
    <2>1. pending # {} /\ Submit(OwnSubmission(Top.id))
        BY <1>2 DEF DrainOrder, Due
    <2>2. Top.id \in DOMAIN orders
        BY <2>1, TopIsFirst
    <2>3. OwnSubmission(Top.id) \in Submission
        BY <2>2, OwnSubmissionType
    <2> QED
        BY <2>1, <2>3 DEF Next
<1>3. CASE ApplyCancel
    <2>1. at = "event" /\ Cancel(event.id)
        BY <1>3 DEF ApplyCancel
    <2>2. event.id \in OrderId
        BY <2>1 DEF Control, LoopTypes, MarketEvent
    <2> QED
        BY <2>1, <2>2 DEF Next
<1>4. CASE ApplyOrder
    <2>1. at = "event" /\ event.type # "Cancel" /\ Submit(TapeOrder)
        BY <1>4 DEF ApplyOrder, TapeOrder
    <2>2. TapeOrder \in Submission
        BY <2>1, TapeOrderType DEF Control
    <2> QED
        BY <2>1, <2>2 DEF Next
<1>5. CASE OursDone \/ TapeDone
    BY <1>5 DEF OursDone, TapeDone, Next, Step
<1>6. CASE EngineStep
    BY <1>6 DEF EngineStep, Next, Step
<1>7. CASE \/ \E o \in Submittable, lat \in Latency : SubmitOwn(o, lat)
           \/ \E id \in DOMAIN orders, lat \in Latency : CancelOwn(id, lat)
           \/ \E e \in Tape, gap \in Gaps : NextEvent(e, gap)
           \/ EndCallback \/ Flush \/ Drained \/ RouteFill
    BY <1>7 DEF SubmitOwn, CancelOwn, NextEvent, EndCallback, Flush, Drained, RouteFill
<1>8. CASE Stopped \/ UNCHANGED vars
    BY <1>8 DEF Stopped, vars, engineVars
<1> QED
    BY <1>1, <1>2, <1>3, <1>4, <1>5, <1>6, <1>7, <1>8 DEF LoopNext, BTStep

(***************************************************************************)
(* LInv is inductive: one lemma per action.                                *)
(***************************************************************************)
LEMMA InitLInv == BTInit => LInv
<1> SUFFICES ASSUME BTInit PROVE LInv
    OBVIOUS
<1>1. phase = "idle"
    BY DEF BTInit, Init
<1>2. LoopTypes
    BY BoundsAssumption DEF BTInit, LoopTypes
<1>3. InFlight
    BY FS_EmptySet DEF BTInit, InFlight
<1>4. Control /\ Timing
    BY <1>1 DEF BTInit, Control, Timing
<1> QED
    BY <1>2, <1>3, <1>4 DEF LInv

\* A callback runs when the loop's clock is not behind the book.
LEMMA CallbackTime ==
    ASSUME LInv, InCallback
    PROVE  /\ at \in {"data", "ours", "tape"}
           /\ horizon <= clock
<1>1. at \in {"data", "ours", "tape"}
    BY DEF InCallback, InFillCallback, LInv, Control
<1>2. clock \in Nat /\ horizon \in Nat
    BY DEF LInv, LoopTypes
<1> QED
    BY <1>1, <1>2 DEF LInv, Timing

\* Issuing a command: it joins the heap as the last one issued, due no sooner
\* than the book was last acted upon.
LEMMA EnqueueInFlight ==
    ASSUME LInv, NEW c \in Command, c.seq = seq, c.ts >= horizon, at # "event",
           pending' = pending \cup {c}, seq' = seq + 1,
           DOMAIN orders \subseteq DOMAIN orders', c.id \in DOMAIN orders',
           \A k \in DOMAIN orders : orders'[k] = orders[k],
           ~c.is_cancel => c.ts = orders'[c.id].ts_active,
           event' = event, clock' = clock, saved' = saved, at' = at, horizon' = horizon
    PROVE  InFlight' /\ Timing'
<1>1. /\ pending \subseteq Command /\ IsFiniteSet(pending)
      /\ \A p \in pending : p.seq < seq /\ p.id \in DOMAIN orders
      /\ \A p, q \in pending : p.seq = q.seq => p = q
      /\ \A p \in pending : ~p.is_cancel => p.ts = orders[p.id].ts_active
    BY DEF LInv, InFlight
<1>2. seq \in Nat /\ \A p \in pending : p.seq \in Nat
    BY <1>1 DEF LInv, LoopTypes, Command
<1>3. IsFiniteSet(pending')
    BY <1>1, FS_AddElement
<1>4. \A p \in pending' : p.seq < seq' /\ p.id \in DOMAIN orders'
    BY <1>1, <1>2
<1>5. \A p, q \in pending' : p.seq = q.seq => p = q
    BY <1>1, <1>2
<1>6. \A p \in pending' : ~p.is_cancel => p.ts = orders'[p.id].ts_active
    BY <1>1
<1>7. InFlight'
    BY <1>1, <1>3, <1>4, <1>5, <1>6 DEF InFlight
<1>8. Timing'
    BY DEF LInv, Timing
<1> QED
    BY <1>7, <1>8

LEMMA SubmitOwnLInv ==
    ASSUME LInv, NEW o \in Submittable, NEW lat \in Latency, SubmitOwn(o, lat)
    PROVE  LInv' /\ horizon' = horizon
<1> DEFINE c == [ts |-> clock + lat, seq |-> seq, is_cancel |-> FALSE, id |-> next_our_id]
           new == [side |-> o.side, type |-> o.type, price |-> o.price,
                   qty |-> o.qty, ts_active |-> clock + lat]
<1>1. /\ InCallback /\ seq < MaxCommands
      /\ pending' = pending \cup {c} /\ seq' = seq + 1
      /\ next_our_id' = next_our_id + 1
      /\ orders' = Append(orders, new)
      /\ filled' = Append(filled, 0)
      /\ at' = at /\ event' = event /\ clock' = clock /\ saved' = saved
      /\ horizon' = horizon /\ phase' = phase
    BY DEF SubmitOwn, Enqueue, loopVars, engineVars
<1>2. /\ clock \in Nat /\ horizon \in Nat /\ seq \in Nat /\ next_our_id \in Nat
      /\ orders \in Seq(OwnOrder) /\ filled \in Seq(Int) /\ Len(filled) = Len(orders)
      /\ Len(orders) = next_our_id - 1 /\ next_our_id <= seq + 1 /\ seq <= MaxCommands
    BY DEF LInv, LoopTypes
<1>3. lat \in Nat /\ clock + lat \in Nat /\ clock + lat >= horizon
    BY <1>1, <1>2, LatencyType, CallbackTime
<1>4. new \in OwnOrder
    BY <1>3 DEF OwnOrder, Submittable
<1>5. c \in Command /\ c.seq = seq /\ c.ts = clock + lat /\ c.id = next_our_id /\ ~c.is_cancel
    BY <1>2, <1>3 DEF Command
<1>6. new.ts_active = clock + lat
    OBVIOUS
<1> HIDE DEF c, new
<1>7. /\ orders' \in Seq(OwnOrder) /\ Len(orders') = Len(orders) + 1
      /\ \A k \in DOMAIN orders : k \in DOMAIN orders' /\ orders'[k] = orders[k]
      /\ next_our_id \in DOMAIN orders' /\ orders'[next_our_id] = new
      /\ filled' \in Seq(Int) /\ Len(filled') = Len(filled) + 1
    BY <1>1, <1>2, <1>4
<1>8. LoopTypes'
    BY <1>1, <1>2, <1>7, BoundsAssumption DEF LInv, LoopTypes
<1>9. at # "event"
    BY <1>1, CallbackTime
<1>10. InFlight' /\ Timing'
    BY <1>1, <1>3, <1>5, <1>6, <1>7, <1>9, EnqueueInFlight
<1>11. Control'
    BY <1>1 DEF LInv, Control
<1> QED
    BY <1>1, <1>8, <1>10, <1>11 DEF LInv

LEMMA CancelOwnLInv ==
    ASSUME LInv, NEW id \in DOMAIN orders, NEW lat \in Latency, CancelOwn(id, lat)
    PROVE  LInv' /\ horizon' = horizon
<1> DEFINE c == [ts |-> clock + lat, seq |-> seq, is_cancel |-> TRUE, id |-> id]
<1>1. /\ InCallback /\ seq < MaxCommands
      /\ pending' = pending \cup {c} /\ seq' = seq + 1
      /\ next_our_id' = next_our_id /\ orders' = orders /\ filled' = filled
      /\ at' = at /\ event' = event /\ clock' = clock /\ saved' = saved
      /\ horizon' = horizon /\ phase' = phase
    BY DEF CancelOwn, Enqueue, loopVars, engineVars
<1>2. /\ clock \in Nat /\ horizon \in Nat /\ seq \in Nat /\ id \in Nat
    BY OwnIds DEF LInv, LoopTypes
<1>3. lat \in Nat /\ clock + lat \in Nat /\ clock + lat >= horizon
    BY <1>1, <1>2, LatencyType, CallbackTime
<1>4. c \in Command /\ c.seq = seq /\ c.ts = clock + lat /\ c.id = id /\ c.is_cancel
    BY <1>2, <1>3 DEF Command
<1> HIDE DEF c
<1>5. LoopTypes'
    BY <1>1, <1>2, BoundsAssumption DEF LInv, LoopTypes
<1>6. at # "event"
    BY <1>1, CallbackTime
<1>7. InFlight' /\ Timing'
    BY <1>1, <1>3, <1>4, <1>6, EnqueueInFlight
<1>8. Control'
    BY <1>1 DEF LInv, Control
<1> QED
    BY <1>1, <1>5, <1>7, <1>8 DEF LInv

\* Taking the first command out leaves the others as they were.
LEMMA PopInFlight ==
    ASSUME LInv, pending # {}, pending' = Popped, orders' = orders, seq' = seq
    PROVE  /\ InFlight'
           /\ \A p \in pending' : p.ts >= Top.ts
<1>1. /\ pending' \subseteq pending
      /\ pending \subseteq Command /\ IsFiniteSet(pending)
      /\ \A p \in pending : p.seq < seq /\ p.id \in DOMAIN orders
      /\ \A p, q \in pending : p.seq = q.seq => p = q
      /\ \A p \in pending : ~p.is_cancel => p.ts = orders[p.id].ts_active
    BY DEF LInv, InFlight, Popped
<1>2. IsFiniteSet(pending')
    BY <1>1, FS_Subset
<1>3. InFlight'
    BY <1>1, <1>2 DEF InFlight
<1> QED
    BY <1>1, <1>3, TopIsFirst DEF LInv

LEMMA DrainCancelLInv ==
    ASSUME LInv, DrainCancel
    PROVE  LInv' /\ horizon' >= horizon
<1>1. /\ at = "drain" /\ pending # {} /\ (event # EndOfTape => Top.ts <= event.ts)
      /\ phase' = phase /\ pending' = Popped /\ horizon' = Top.ts
      /\ at' = at /\ event' = event /\ clock' = clock /\ saved' = saved
      /\ next_our_id' = next_our_id /\ seq' = seq /\ orders' = orders /\ filled' = filled
    BY DEF DrainCancel, Due, Cancel, loopVars
<1>2. Top \in pending /\ Top.ts \in Nat /\ Top.ts >= horizon
    BY <1>1, TopIsFirst DEF LInv, Timing
<1>3. InFlight' /\ \A p \in pending' : p.ts >= horizon'
    BY <1>1, PopInFlight
<1>4. LoopTypes' /\ Control'
    BY <1>1, <1>2 DEF LInv, LoopTypes, Control
<1>5. Timing'
    BY <1>1, <1>3 DEF LInv, Timing
<1> QED
    BY <1>1, <1>2, <1>3, <1>4, <1>5 DEF LInv

LEMMA DrainOrderLInv ==
    ASSUME LInv, DrainOrder
    PROVE  LInv' /\ horizon' >= horizon
<1>1. /\ at = "drain" /\ pending # {} /\ (event # EndOfTape => Top.ts <= event.ts)
      /\ phase' # "idle" /\ pending' = Popped /\ horizon' = Top.ts
      /\ at' = "ours" /\ event' = event /\ clock' = Top.ts /\ saved' = clock
      /\ next_our_id' = next_our_id /\ seq' = seq /\ orders' = orders /\ filled' = filled
    BY DEF DrainOrder, Due, Submit
<1>2. Top \in pending /\ Top.ts \in Nat /\ Top.ts >= horizon
    BY <1>1, TopIsFirst DEF LInv, Timing
<1>3. InFlight' /\ \A p \in pending' : p.ts >= horizon'
    BY <1>1, PopInFlight
<1>4. LoopTypes' /\ Control'
    BY <1>1, <1>2 DEF LInv, LoopTypes, Control
<1>5. event # EndOfTape => clock = event.ts
    BY <1>1 DEF LInv, Timing
<1>6. Timing'
    BY <1>1, <1>3, <1>5 DEF Timing
<1> QED
    BY <1>1, <1>2, <1>3, <1>4, <1>6 DEF LInv

\* The steps that neither issue nor execute a command.
LEMMA SameInFlight ==
    ASSUME LInv, pending' = pending, orders' = orders, seq' = seq
    PROVE  InFlight'
    BY DEF LInv, InFlight

LEMMA NextEventLInv ==
    ASSUME LInv, NEW e \in Tape, NEW gap \in Gaps, NextEvent(e, gap)
    PROVE  LInv' /\ horizon' = horizon
<1> DEFINE ev == [type |-> e.type, side |-> e.side, price |-> e.price, qty |-> e.qty,
                  id |-> e.id, ts |-> clock + gap]
<1>1. /\ at = "feed" /\ at' = "drain" /\ event' = ev /\ clock' = clock + gap
      /\ phase' = phase /\ pending' = pending /\ horizon' = horizon /\ saved' = saved
      /\ next_our_id' = next_our_id /\ seq' = seq /\ orders' = orders /\ filled' = filled
    BY DEF NextEvent, engineVars, ownVars
<1>2. clock \in Nat /\ gap \in Nat /\ horizon \in Nat /\ horizon <= clock
    BY <1>1, GapsAssumption DEF LInv, LoopTypes, Timing
<1>3. /\ ev \in MarketEvent
      /\ ev # EndOfTape
    <2>1. e.type \in {"Add", "Trade", "Cancel"} /\ e.id \in OrderId
        BY TapeAssumption
    <2>2. /\ ev.type = e.type /\ ev.side = e.side /\ ev.price = e.price /\ ev.qty = e.qty
          /\ ev \in [type : {"Add", "Trade", "Cancel"}, side : {f.side : f \in Tape},
                     price : {f.price : f \in Tape}, qty : {f.qty : f \in Tape},
                     id : OrderId, ts : Nat]
        BY <1>2, <2>1
    <2>3. EndOfTape.type = "End"
        BY DEF EndOfTape
    <2> HIDE DEF ev
    <2>4. ev # EndOfTape
        BY <2>1, <2>2, <2>3
    <2> QED
        BY <2>2, <2>4, TapeAssumption DEF MarketEvent
<1>4. ev.ts = clock + gap
    OBVIOUS
<1> HIDE DEF ev
<1>5. LoopTypes' /\ Control'
    BY <1>1, <1>2, <1>3 DEF LInv, LoopTypes, Control
<1>6. Timing'
    BY <1>1, <1>2, <1>4 DEF LInv, Timing
<1> QED
    BY <1>1, <1>5, <1>6, SameInFlight DEF LInv

LEMMA OursDoneLInv ==
    ASSUME LInv, OursDone
    PROVE  LInv' /\ horizon' = horizon
<1>1. /\ at = "ours" /\ at' = "drain" /\ clock' = saved /\ phase' = "idle"
      /\ event' = event /\ pending' = pending /\ horizon' = horizon /\ saved' = saved
      /\ next_our_id' = next_our_id /\ seq' = seq /\ orders' = orders /\ filled' = filled
    BY DEF OursDone, Resumed, Return, ownVars
<1>2. LoopTypes' /\ Control'
    BY <1>1 DEF LInv, LoopTypes, Control
<1>3. Timing'
    BY <1>1 DEF LInv, Timing
<1> QED
    BY <1>1, <1>2, <1>3, SameInFlight DEF LInv

LEMMA DrainedLInv ==
    ASSUME LInv, Drained
    PROVE  LInv' /\ horizon' = horizon
<1>1. /\ at = "drain" /\ ~Due /\ at' = (IF event = EndOfTape THEN "ended" ELSE "event")
      /\ phase' = phase /\ clock' = clock
      /\ event' = event /\ pending' = pending /\ horizon' = horizon /\ saved' = saved
      /\ next_our_id' = next_our_id /\ seq' = seq /\ orders' = orders /\ filled' = filled
    BY DEF Drained, engineVars, ownVars
<1>2. LoopTypes' /\ Control'
    BY <1>1 DEF LInv, LoopTypes, Control
<1>3. ASSUME event # EndOfTape, NEW p \in pending
      PROVE  p.ts > event.ts
    <2>1. ~(Top.ts <= event.ts)
        BY <1>1, <1>3 DEF Due
    <2>2. p.ts \in Nat /\ Top.ts \in Nat /\ p.ts >= Top.ts
        BY <1>3, TopIsFirst DEF LInv, InFlight, Command
    <2>3. event.ts \in Nat
        BY <1>3 DEF LInv, LoopTypes, MarketEvent
    <2> QED
        BY <2>1, <2>2, <2>3
<1>4. Timing'
    BY <1>1, <1>3 DEF LInv, Timing
<1> QED
    BY <1>1, <1>2, <1>4, SameInFlight DEF LInv

LEMMA ApplyLInv ==
    ASSUME LInv, ApplyCancel \/ ApplyOrder
    PROVE  LInv' /\ horizon' >= horizon
<1>1. /\ at = "event" /\ horizon' = event.ts
      /\ (at' = "data" /\ phase' = "idle") \/ (at' = "tape" /\ phase' # "idle")
      /\ clock' = clock /\ event' = event /\ pending' = pending /\ saved' = saved
      /\ next_our_id' = next_our_id /\ seq' = seq /\ orders' = orders /\ filled' = filled
    BY DEF ApplyCancel, ApplyOrder, Submit, Cancel, ownVars
<1>2. /\ event # EndOfTape /\ event.ts \in Nat /\ clock = event.ts /\ horizon <= event.ts
      /\ \A p \in pending : p.ts > event.ts
      /\ \A p \in pending : p.ts \in Nat
    BY <1>1 DEF LInv, LoopTypes, MarketEvent, Control, Timing, InFlight, Command
<1>3. LoopTypes' /\ Control'
    BY <1>1, <1>2 DEF LInv, LoopTypes, Control
<1>4. Timing'
    BY <1>1, <1>2 DEF Timing
<1>5. horizon' >= horizon
    BY <1>1, <1>2 DEF LInv, LoopTypes
<1> QED
    BY <1>1, <1>3, <1>4, <1>5, SameInFlight DEF LInv

\* TapeDone, EndCallback and Flush.
LEMMA QuietLInv ==
    ASSUME LInv, TapeDone \/ EndCallback \/ Flush
    PROVE  LInv' /\ horizon' = horizon
<1>1. /\ \/ at = "tape" /\ at' = "data" /\ phase' = "idle" /\ event' = event
         \/ at = "data" /\ at' = "feed" /\ phase' = phase /\ event' = event
         \/ at = "feed" /\ at' = "drain" /\ phase' = phase /\ event' = EndOfTape
      /\ clock' = clock /\ pending' = pending /\ saved' = saved /\ horizon' = horizon
      /\ next_our_id' = next_our_id /\ seq' = seq /\ orders' = orders /\ filled' = filled
    BY DEF TapeDone, EndCallback, Flush, Return, ownVars, engineVars
<1>2. LoopTypes'
    BY <1>1 DEF LInv, LoopTypes
<1>3. Control'
    BY <1>1 DEF LInv, Control
<1>4. Timing'
    BY <1>1 DEF LInv, Timing
<1> QED
    BY <1>1, <1>2, <1>3, <1>4, SameInFlight DEF LInv

\* The engine's own steps.
LEMMA EngineStepLInv ==
    ASSUME LInv, EngineStep
    PROVE  LInv' /\ horizon' = horizon
<1>1. /\ phase # "idle" /\ phase' # "idle"
      /\ at' = at /\ event' = event
      /\ clock' = clock /\ pending' = pending /\ saved' = saved /\ horizon' = horizon
      /\ next_our_id' = next_our_id /\ seq' = seq /\ orders' = orders /\ filled' = filled
    BY DEF EngineStep, Trade, Settle, Rest, Discard, Complete, loopVars, ownVars
<1>2. LoopTypes'
    BY <1>1 DEF LInv, LoopTypes
<1>3. Control' /\ Timing'
    BY <1>1 DEF LInv, Control, Timing
<1> QED
    BY <1>1, <1>2, <1>3, SameInFlight DEF LInv

\* Adding to one entry keeps a sequence of integers one.
LEMMA AddToEntry ==
    ASSUME NEW f \in Seq(Int), NEW k, NEW n \in Int
    PROVE  /\ [f EXCEPT ![k] = f[k] + n] \in Seq(Int)
           /\ Len([f EXCEPT ![k] = f[k] + n]) = Len(f)
<1> DEFINE g == [f EXCEPT ![k] = f[k] + n]
           m == Len(f)
<1>1. m \in Nat /\ f \in [1 .. m -> Int]
    OBVIOUS
<1>2. g = [i \in 1 .. m |-> IF i = k THEN f[i] + n ELSE f[i]]
    BY <1>1
<1>3. \A i \in 1 .. m : (IF i = k THEN f[i] + n ELSE f[i]) \in Int
    BY <1>1
<1>4. g \in [1 .. m -> Int]
    BY <1>2, <1>3
<1> HIDE DEF g, m
<1>5. g \in Seq(Int) /\ Len(g) = m
    BY <1>1, <1>4
<1> QED
    BY <1>5 DEF g, m

\* The fill route_fill is called for is one of the fills reported.
LEMMA FillInQuestion ==
    ASSUME Routing, IInv, told < Len(fills)
    PROVE  fills[told + 1] \in Fill /\ fills[told + 1].qty \in Int
<1>1. fills \in Seq(Fill) /\ told \in Nat
    BY DEF IInv, TypeOK, Routing
<1>2. fills[told + 1] \in Fill
    BY <1>1
<1> QED
    BY <1>2, MaxQtyAssumption DEF Fill, Quantity

LEMMA RouteFillLInv ==
    ASSUME LInv, IInv, Routing, RouteFill
    PROVE  LInv' /\ horizon' = horizon
<1> DEFINE f == fills[told + 1]
<1>1. /\ phase' = phase /\ at' = at /\ event' = event
      /\ clock' = clock /\ pending' = pending /\ saved' = saved /\ horizon' = horizon
      /\ next_our_id' = next_our_id /\ seq' = seq /\ orders' = orders
      /\ filled' = IF Reported(f) THEN [filled EXCEPT ![f.order_id] = filled[f.order_id] + f.qty]
                                  ELSE filled
      /\ told < Len(fills)
    BY DEF RouteFill, engineVars, loopVars, ownVars
<1>2. f.qty \in Int
    BY <1>1, FillInQuestion
<1> HIDE DEF f
<1>3. filled' \in Seq(Int) /\ Len(filled') = Len(filled)
    BY <1>1, <1>2, AddToEntry DEF LInv, LoopTypes
<1>4. LoopTypes'
    BY <1>1, <1>3 DEF LInv, LoopTypes
<1>5. Control' /\ Timing'
    BY <1>1 DEF LInv, Control, Timing
<1> QED
    BY <1>1, <1>4, <1>5, SameInFlight DEF LInv

LEMMA StepLInv ==
    ASSUME LInv, IInv, Routing, [LoopNext]_vars
    PROVE  LInv' /\ horizon' >= horizon
<1>0. horizon \in Nat
    BY DEF LInv, LoopTypes
<1>1. CASE \E o \in Submittable, lat \in Latency : SubmitOwn(o, lat)
    BY <1>0, <1>1, SubmitOwnLInv
<1>2. CASE \E id \in DOMAIN orders, lat \in Latency : CancelOwn(id, lat)
    BY <1>0, <1>2, CancelOwnLInv
<1>3. CASE \E e \in Tape, gap \in Gaps : NextEvent(e, gap)
    BY <1>0, <1>3, NextEventLInv
<1>4. CASE DrainCancel
    BY <1>4, DrainCancelLInv
<1>5. CASE DrainOrder
    BY <1>5, DrainOrderLInv
<1>6. CASE OursDone
    BY <1>0, <1>6, OursDoneLInv
<1>7. CASE Drained
    BY <1>0, <1>7, DrainedLInv
<1>8. CASE ApplyCancel \/ ApplyOrder
    BY <1>8, ApplyLInv
<1>9. CASE TapeDone \/ EndCallback \/ Flush
    BY <1>0, <1>9, QuietLInv
<1>10. CASE RouteFill
    BY <1>0, <1>10, RouteFillLInv
<1>11. CASE EngineStep
    BY <1>0, <1>11, EngineStepLInv
<1>12. CASE Stopped \/ UNCHANGED vars
    <2>1. UNCHANGED vars
        BY <1>12 DEF Stopped
    <2>2. /\ phase' = phase /\ at' = at /\ event' = event
          /\ clock' = clock /\ pending' = pending /\ saved' = saved /\ horizon' = horizon
          /\ next_our_id' = next_our_id /\ seq' = seq /\ orders' = orders /\ filled' = filled
        BY <2>1 DEF vars, engineVars, loopVars, ownVars
    <2>3. LoopTypes' /\ Control' /\ Timing'
        BY <2>2 DEF LInv, LoopTypes, Control, Timing
    <2> QED
        BY <1>0, <2>2, <2>3, SameInFlight DEF LInv
<1> QED
    BY <1>1, <1>2, <1>3, <1>4, <1>5, <1>6, <1>7, <1>8, <1>9, <1>10, <1>11, <1>12
       DEF LoopNext, BTStep

\* The engine inside the loop only ever takes steps of its own specification.
LEMMA StepEngine ==
    ASSUME LInv, IInv, SInv, [LoopNext]_vars
    PROVE  IInv' /\ SInv'
<1>1. [Next]_engineVars
    BY LoopStepsEngine
<1> QED
    BY <1>1, StepIInv, StepSInv

LEMMA StepRouting ==
    ASSUME LInv, IInv, SInv, Routing, [LoopNext]_vars
    PROVE  Routing'
<1>0. fills \in Seq(Fill) /\ Len(fills) \in Nat
    BY DEF IInv, TypeOK
<1>1. CASE DrainOrder \/ ApplyOrder
    <2>1. phase = "idle" /\ phase' # "traded" /\ fills' = fills /\ told' = told
        BY <1>1 DEF DrainOrder, ApplyOrder, Submit
    <2> QED
        BY <2>1 DEF Routing
<1>2. CASE OursDone \/ TapeDone
    <2>1. phase' = "idle" /\ fills' = << >> /\ told' = 0
        BY <1>2 DEF OursDone, TapeDone, Return
    <2> QED
        BY <2>1 DEF Routing
<1>3. CASE RouteFill
    <2>1. /\ phase = "traded" /\ phase' = phase /\ fills' = fills
          /\ told < Len(fills) /\ told' = told + 1
        BY <1>3 DEF RouteFill, engineVars
    <2> QED
        BY <1>0, <2>1 DEF Routing
<1>4. CASE EngineStep
    <2>1. told' = told
        BY <1>4 DEF EngineStep
    <2>2. CASE Trade
        <3>1. phase = "match" /\ phase' = "traded" /\ \E x, y : fills' = fills \o <<x, y>>
            BY <2>2 DEF Trade
        <3>2. Len(fills') = Len(fills) + 2
            BY <1>0, <3>1
        <3> QED
            BY <1>0, <2>1, <3>1, <3>2 DEF Routing
    <2>3. CASE told = Len(fills) /\ Settle
        BY <2>1, <2>3 DEF Routing, Settle
    <2>4. CASE Rest \/ Discard \/ Complete
        BY <2>1, <2>4 DEF Routing, Rest, Discard, Complete
    <2> QED
        BY <1>4, <2>2, <2>3, <2>4 DEF EngineStep
<1>5. CASE UNCHANGED <<fills, phase, told>>
    BY <1>5 DEF Routing
<1>6. CASE DrainCancel \/ ApplyCancel
    BY <1>5, <1>6 DEF DrainCancel, ApplyCancel, Cancel
<1>7. CASE \/ \E o \in Submittable, lat \in Latency : SubmitOwn(o, lat)
           \/ \E id \in DOMAIN orders, lat \in Latency : CancelOwn(id, lat)
           \/ \E e \in Tape, gap \in Gaps : NextEvent(e, gap)
           \/ EndCallback \/ Flush \/ Drained
    BY <1>5, <1>7 DEF SubmitOwn, CancelOwn, NextEvent, EndCallback, Flush, Drained, engineVars
<1>8. CASE Stopped \/ UNCHANGED vars
    BY <1>5, <1>8 DEF Stopped, vars, engineVars
<1> QED
    BY <1>1, <1>2, <1>3, <1>4, <1>6, <1>7, <1>8 DEF LoopNext, BTStep

BInv == LInv /\ Routing /\ IInv /\ SInv

LEMMA InitBInv == BTInit => BInv
<1>1. BTInit => Routing
    BY DEF BTInit, Init, Routing
<1> QED
    BY <1>1, InitLInv, InitIInv, InitSInv DEF BTInit, BInv

LEMMA StepBInv ==
    ASSUME BInv, [LoopNext]_vars
    PROVE  BInv'
    BY StepLInv, StepEngine, StepRouting DEF BInv

LEMMA LoopInvariant == BTSpec => []BInv
<1>1. BInv /\ [BTNext]_vars => BInv'
    BY LoopCovers, StepBInv
<1> QED
    BY <1>1, InitBInv, PTL DEF BTSpec

\* The loop implements the matching engine's specification: whatever tape,
\* latencies and strategy, the engine is only used as its own module says, so
\* what is proved there of every run of the engine holds in every backtest.
THEOREM LoopUsesEngine == BTSpec => Spec
<1>1. BTInit => Init
    BY DEF BTInit
<1>2. BInv /\ [BTNext]_vars => [Next]_engineVars
    BY LoopCovers, LoopStepsEngine DEF BInv
<1> QED
    BY <1>1, <1>2, LoopInvariant, PTL DEF BTSpec, Spec

\* Causality: no command in flight should have reached the book before what
\* has already been done to it, and the clock is the event's time except while
\* an own order is processed at its earlier time of arrival.
THEOREM Causality == BTSpec => []NothingOverdue
<1>1. BInv => NothingOverdue
    BY DEF BInv, LInv, Timing, NothingOverdue
<1> QED
    BY <1>1, LoopInvariant, PTL

\* Events and commands reach the book in one time order, merged from the tape
\* and the heap, in the drains before an event and in the final flush.
THEOREM OneTimeOrder == BTSpec => TimeOrder
<1>1. BInv /\ [BTNext]_vars => [horizon' >= horizon]_vars
    BY LoopCovers, StepLInv DEF BInv
<1> QED
    BY <1>1, LoopInvariant, PTL DEF BTSpec, TimeOrder

(***************************************************************************)
(* What a callback sees: the last two fills are the legs of the trade the  *)
(* engine has just made, at the best price still standing on the maker's   *)
(* side.                                                                   *)
(***************************************************************************)
LastTrade ==
    phase = "traded" =>
        /\ Len(fills) >= 2
        /\ LET x == fills[Len(fills) - 1]
               y == fills[Len(fills)]
           IN  /\ x.side = in.side /\ ~x.is_maker /\ x.price = Best(book, Opp) /\ x.qty > 0
               /\ y.side = Opp /\ y.is_maker /\ y.price = Best(book, Opp) /\ y.qty > 0

\* A trade reports its two legs, for something, at a price that is still the best.
LEMMA TradeLegs ==
    ASSUME IInv, Trade
    PROVE  LastTrade'
<1> DEFINE p == Best(book, Opp)
           r == FrontNode(book, Opp, p)
           n == Traded(r)
           x == FillOf(in.id, in.side, p, n, in.is_ours, FALSE)
           y == FillOf(r.id, Opp, p, n, r.is_ours, TRUE)
<1>1. /\ phase = "match" /\ Matching /\ in' = OnFill(in, n)
      /\ book' = TradeFront(book, Opp, p, n) /\ fills' = fills \o <<x, y>>
    BY DEF Trade
<1>2. WellFormed(book) /\ IsBook(book) /\ in \in Order /\ Opp \in Side
    BY <1>1, InvBook
<1>3. p \in Prices(book, Opp)
    BY <1>1, <1>2, BestIsBest DEF Matching
<1>4. r.qty \in Quantity /\ r.qty > 0
    <2>1. /\ 1 \in DOMAIN book.levels[Opp][p].queue /\ r = book.levels[Opp][p].queue[1]
          /\ r.qty \in Quantity
        BY <1>2, <1>3, FrontTypes
    <2>2. book.levels[Opp][p].queue[1].qty > 0
        BY <1>1, <1>2, <1>3, <2>1, NodesUnspent
    <2> QED
        BY <2>1, <2>2
<1>5. n \in Nat /\ n <= r.qty /\ n > 0
    <2> HIDE DEF r
    <2> QED
        BY <1>1, <1>2, <1>4, MaxQtyAssumption DEF Traded, Matching, Order, Quantity
<1>6. in'.side = in.side /\ Opp' = Opp
    <2>1. in'.side = in.side
        <3> HIDE DEF n
        <3> QED
            BY <1>1, <1>2 DEF OnFill, Order
    <2> QED
        BY <2>1 DEF Opp
<1>7. Best(book', Opp) = p
    <2>1. Prices(book', Opp) = Prices(book, Opp)
        <3> HIDE DEF n
        <3> QED
            BY <1>1, <1>2, <1>3, <1>5, TradeNodes
    <2> QED
        BY <2>1, SameBest
<1>8. /\ x.side = in.side /\ ~x.is_maker /\ x.price = p /\ x.qty = n
      /\ y.side = Opp /\ y.is_maker /\ y.price = p /\ y.qty = n
    BY DEF FillOf
<1> HIDE DEF p, r, n, x, y
<1>9. Len(fills') = Len(fills) + 2 /\ Len(fills) \in Nat
      /\ fills'[Len(fills) + 1] = x /\ fills'[Len(fills) + 2] = y
    <2>1. fills \in Seq(Fill)
        BY DEF IInv, TypeOK
    <2> QED
        BY <1>1, <2>1
<1>10. PICK m \in Nat : Len(fills') = m + 2 /\ fills'[m + 1] = x /\ fills'[m + 2] = y
    BY <1>9
<1> QED
    BY <1>5, <1>6, <1>7, <1>8, <1>10 DEF LastTrade

\* Outside of a trade, and while its fills are routed, there is nothing new to see.
LEMMA LastTradeKept ==
    ASSUME LastTrade, phase' # "traded" \/ UNCHANGED engineVars
    PROVE  LastTrade'
    BY DEF LastTrade, engineVars, Opp

LEMMA StepLastTrade ==
    ASSUME IInv, LastTrade, [LoopNext]_vars
    PROVE  LastTrade'
<1>1. CASE DrainCancel \/ ApplyCancel
    BY <1>1, LastTradeKept DEF DrainCancel, ApplyCancel, Cancel
<1>2. CASE DrainOrder \/ ApplyOrder
    <2>1. phase' # "traded"
        BY <1>2 DEF DrainOrder, ApplyOrder, Submit
    <2> QED
        BY <2>1, LastTradeKept
<1>3. CASE OursDone \/ TapeDone
    BY <1>3, LastTradeKept DEF OursDone, TapeDone, Return
<1>4. CASE EngineStep
    <2>1. Trade \/ phase' # "traded"
        BY <1>4 DEF EngineStep, Settle, Rest, Discard, Complete
    <2> QED
        BY <2>1, TradeLegs, LastTradeKept
<1>5. CASE RouteFill \/ EndCallback \/ Flush \/ Drained \/ Stopped \/ UNCHANGED vars
    BY <1>5, LastTradeKept DEF RouteFill, EndCallback, Flush, Drained, Stopped, vars
<1>6. CASE \/ \E o \in Submittable, lat \in Latency : SubmitOwn(o, lat)
           \/ \E id \in DOMAIN orders, lat \in Latency : CancelOwn(id, lat)
           \/ \E e \in Tape, gap \in Gaps : NextEvent(e, gap)
    BY <1>6, LastTradeKept DEF SubmitOwn, CancelOwn, NextEvent
<1> QED
    BY <1>1, <1>2, <1>3, <1>4, <1>5, <1>6 DEF LoopNext, BTStep

(***************************************************************************)
(* The strategy's orders.  A strategy order carries an id the strategy was *)
(* given, and nothing else does, when the tape keeps clear of those ids:   *)
(* data_feed.hpp reserves ids from kMarketIdBase on for the tape it makes. *)
(* A CSV tape brings its own ids and nothing enforces it there, so it is a *)
(* hypothesis of the theorems and not an assumption.                       *)
(***************************************************************************)
TapeIdsApart == \A e \in Tape : e.id \notin 1 .. MaxCommands

\* An order on side s with this id and owner is one the strategy submitted, or
\* one that the strategy cannot mean.
Belongs(id, ours, s) ==
    IF ours THEN id \in DOMAIN orders /\ s = orders[id].side
            ELSE id \notin 1 .. MaxCommands

Ownership ==
    /\ event # EndOfTape => event.id \notin 1 .. MaxCommands
    /\ \A id \in Resting(book) : Belongs(id, Entry(book, id).is_ours, book.index[id].side)
    /\ phase # "idle" =>
         /\ Belongs(in.id, in.is_ours, in.side)
         /\ in.is_ours => in.type = orders[in.id].type
    /\ \A i \in DOMAIN fills : Belongs(fills[i].order_id, fills[i].is_ours, fills[i].side)

\* The submission of id is still in flight.
Awaited(id) == \E p \in pending : ~p.is_cancel /\ p.id = id

Working(id) == phase \in {"match", "traded"} /\ in.id = id

\* An own order is in one place at a time, it has been due when it is in the
\* engine or on the book, and it is nowhere once withdrawn.
OnePlace ==
    /\ withdrawn \subseteq DOMAIN orders
    /\ \A id \in DOMAIN orders :
         /\ Awaited(id) => id \notin Resting(book) /\ (phase # "idle" => in.id # id)
         /\ Working(id) => id \notin Resting(book)
         /\ id \in withdrawn => ~Awaited(id) /\ ~Working(id) /\ id \notin Resting(book)
         /\ id \in Resting(book) \/ Working(id) => orders[id].ts_active <= horizon

\* A submission and the cancels issued for it are in flight in that order.
CancelsFollow ==
    /\ \A p, q \in pending : ~p.is_cancel /\ ~q.is_cancel /\ p.id = q.id => p = q
    /\ \A p, q \in pending : p.is_cancel /\ ~q.is_cancel /\ p.id = q.id => q.seq < p.seq

\* What the fills not yet routed say of an order: at most two legs, one trade.
LegQty(i, id) == IF fills[i].is_ours /\ fills[i].order_id = id THEN fills[i].qty ELSE 0

UnroutedQty(id) ==
    (IF told + 2 = Len(fills) THEN LegQty(Len(fills) - 1, id) ELSE 0)
      + (IF told < Len(fills) THEN LegQty(Len(fills), id) ELSE 0)

OpenQty(id) == RestingQty(id) + WorkingQty(id) + PendingQty(id)

KnownQty(id) == filled[id] + UnroutedQty(id) + OpenQty(id)

Accounted ==
    \A id \in DOMAIN orders :
        /\ KnownQty(id) <= orders[id].qty
        /\ KnownQty(id) = orders[id].qty \/ id \in withdrawn \/ orders[id].type # "Limit"

OInv == Ownership /\ OnePlace /\ CancelsFollow /\ Accounted

(***************************************************************************)
(* OInv is inductive: what the quantities are, then one lemma per action.  *)
(***************************************************************************)
LEMMA LegType ==
    ASSUME IInv, NEW id, NEW i \in DOMAIN fills
    PROVE  LegQty(i, id) \in Int
<1>1. fills \in Seq(Fill)
    BY DEF IInv, TypeOK
<1>2. fills[i] \in Fill
    BY <1>1
<1>3. fills[i].qty \in Int
    BY <1>2, MaxQtyAssumption DEF Fill, Quantity
<1> QED
    BY <1>3 DEF LegQty

LEMMA OwnTypes ==
    ASSUME BInv, NEW id \in DOMAIN orders
    PROVE  /\ id \in 1 .. MaxCommands
           /\ orders[id].qty \in Nat /\ orders[id].ts_active \in Nat /\ filled[id] \in Int
           /\ RestingQty(id) \in Nat /\ WorkingQty(id) \in Nat /\ PendingQty(id) \in Nat
           /\ UnroutedQty(id) \in Int
           /\ told = Len(fills) => UnroutedQty(id) = 0
<1>0. LoopTypes /\ IInv /\ Routing
    BY DEF BInv, LInv
<1>1. /\ orders[id] \in OwnOrder /\ filled[id] \in Int /\ id \in 1 .. MaxCommands
    BY <1>0, OwnIds DEF LoopTypes
<1>2. Quantity \subseteq Nat
    BY MaxQtyAssumption DEF Quantity
<1>3. orders[id].qty \in Nat /\ orders[id].ts_active \in Nat
    BY <1>1, <1>2 DEF OwnOrder
<1>4. RestingQty(id) \in Nat
    BY <1>0, EntryType, InvBook DEF RestingQty
<1>5. WorkingQty(id) \in Nat
    BY <1>0, <1>2, InvBook DEF WorkingQty, Order
<1>6. PendingQty(id) \in Nat
    BY <1>3 DEF PendingQty
<1>7. fills \in Seq(Fill) /\ told \in Nat /\ Len(fills) \in Nat
    BY <1>0 DEF IInv, TypeOK, Routing
<1>8. \A i \in DOMAIN fills : LegQty(i, id) \in Int
    BY <1>0, LegType
<1>9. /\ told + 2 = Len(fills) => Len(fills) - 1 \in DOMAIN fills
      /\ told < Len(fills) => Len(fills) \in DOMAIN fills
    BY <1>7
<1>10. UnroutedQty(id) \in Int
    BY <1>8, <1>9 DEF UnroutedQty
<1>11. told = Len(fills) => UnroutedQty(id) = 0
    BY <1>7 DEF UnroutedQty
<1> QED
    BY <1>1, <1>3, <1>4, <1>5, <1>6, <1>10, <1>11

\* An account stays right when nothing is lost, or what is lost may be.
LEMMA AccountKept ==
    ASSUME BInv, Accounted, orders' = orders, withdrawn \subseteq withdrawn',
           \A id \in DOMAIN orders :
               \/ KnownQty(id)' = KnownQty(id)
               \/ /\ KnownQty(id)' <= KnownQty(id) /\ KnownQty(id)' \in Int
                  /\ id \in withdrawn' \/ orders[id].type # "Limit"
    PROVE  Accounted'
<1> SUFFICES ASSUME NEW id \in DOMAIN orders
             PROVE  /\ KnownQty(id)' <= orders[id].qty
                    /\ \/ KnownQty(id)' = orders[id].qty
                       \/ id \in withdrawn' \/ orders[id].type # "Limit"
    BY DEF Accounted
<1>1. /\ KnownQty(id) <= orders[id].qty
      /\ KnownQty(id) = orders[id].qty \/ id \in withdrawn \/ orders[id].type # "Limit"
    BY DEF Accounted
<1>2. KnownQty(id) \in Int /\ orders[id].qty \in Int
    <2>1. /\ orders[id].qty \in Nat /\ filled[id] \in Int /\ UnroutedQty(id) \in Int
          /\ RestingQty(id) \in Nat /\ WorkingQty(id) \in Nat /\ PendingQty(id) \in Nat
        BY OwnTypes
    <2> QED
        BY <2>1 DEF KnownQty, OpenQty
<1>3. CASE KnownQty(id)' = KnownQty(id)
    BY <1>1, <1>3
<1>4. CASE /\ KnownQty(id)' <= KnownQty(id) /\ KnownQty(id)' \in Int
           /\ id \in withdrawn' \/ orders[id].type # "Limit"
    BY <1>1, <1>2, <1>4
<1> QED
    BY <1>3, <1>4

LEMMA InitOInv == BTInit => OInv
<1> SUFFICES ASSUME BTInit PROVE OInv
    OBVIOUS
<1>1. /\ Resting(book) = {} /\ phase = "idle" /\ fills = << >> /\ pending = {}
      /\ withdrawn = {} /\ DOMAIN orders = {} /\ event = EndOfTape
    BY DEF BTInit, Init, EmptyBook, Resting
<1> QED
    BY <1>1 DEF OInv, Ownership, OnePlace, CancelsFollow, Accounted

\* Steps that touch neither an order nor a command.
LEMMA QuietOInv ==
    ASSUME BInv, OInv, UNCHANGED <<engineVars, ownVars, told, filled, withdrawn, horizon>>,
           event' # EndOfTape => event'.id \notin 1 .. MaxCommands
    PROVE  OInv'
<1>1. /\ book' = book /\ in' = in /\ fills' = fills /\ phase' = phase
      /\ pending' = pending /\ orders' = orders
      /\ told' = told /\ filled' = filled /\ withdrawn' = withdrawn /\ horizon' = horizon
    BY DEF engineVars, ownVars
<1>2. Ownership'
    BY <1>1 DEF OInv, Ownership, Belongs
<1>3. OnePlace' /\ CancelsFollow'
    BY <1>1 DEF OInv, OnePlace, CancelsFollow, Awaited, Working
<1>4. \A id : KnownQty(id)' = KnownQty(id)
    BY <1>1 DEF KnownQty, OpenQty, UnroutedQty, LegQty, RestingQty, WorkingQty, PendingQty
<1>5. Accounted'
    BY <1>1, <1>4, AccountKept DEF OInv
<1> QED
    BY <1>2, <1>3, <1>5 DEF OInv

\* A new id is one that nothing carries.
LEMMA NewIdIsNew ==
    ASSUME BInv, OInv, seq < MaxCommands
    PROVE  /\ next_our_id \in 1 .. MaxCommands /\ next_our_id \notin DOMAIN orders
           /\ DOMAIN orders = 1 .. next_our_id - 1
           /\ next_our_id \notin Resting(book)
           /\ phase # "idle" => in.id # next_our_id
           /\ \A i \in DOMAIN fills : fills[i].order_id # next_our_id
<1>1. LoopTypes
    BY DEF BInv, LInv
<1>2. /\ next_our_id \in 1 .. MaxCommands /\ next_our_id \notin DOMAIN orders
      /\ DOMAIN orders = 1 .. next_our_id - 1
    BY <1>1, OwnIds, BoundsAssumption DEF LoopTypes
<1> QED
    BY <1>2 DEF OInv, Ownership, Belongs

LEMMA SubmitOwnOInv ==
    ASSUME BInv, OInv, NEW o \in Submittable, NEW lat \in Latency, SubmitOwn(o, lat)
    PROVE  OInv'
<1> PICK n : n = next_our_id
    OBVIOUS
<1> DEFINE c == [ts |-> clock + lat, seq |-> seq, is_cancel |-> FALSE, id |-> n]
           new == [side |-> o.side, type |-> o.type, price |-> o.price,
                   qty |-> o.qty, ts_active |-> clock + lat]
<1>1. /\ seq < MaxCommands /\ pending' = pending \cup {c}
      /\ orders' = Append(orders, new) /\ filled' = Append(filled, 0)
      /\ book' = book /\ in' = in /\ fills' = fills /\ phase' = phase /\ event' = event
      /\ told' = told /\ withdrawn' = withdrawn /\ horizon' = horizon
    BY DEF SubmitOwn, Enqueue, engineVars, loopVars
<1>2. /\ n \in 1 .. MaxCommands /\ n \notin DOMAIN orders /\ DOMAIN orders = 1 .. n - 1
      /\ n \notin Resting(book) /\ (phase # "idle" => in.id # n)
      /\ \A i \in DOMAIN fills : fills[i].order_id # n
    BY <1>1, NewIdIsNew
<1>3. c.id = n /\ c.seq = seq /\ c.is_cancel = FALSE
    OBVIOUS
<1>4. o.qty \in Nat
    BY MaxQtyAssumption DEF Submittable, Quantity
<1>5. new.qty = o.qty
    OBVIOUS
<1> HIDE DEF c, new
<1>6. /\ orders \in Seq(OwnOrder) /\ filled \in Seq(Int) /\ Len(orders) = n - 1
      /\ Len(filled) = Len(orders)
    BY DEF BInv, LInv, LoopTypes
<1>7. /\ DOMAIN orders' = DOMAIN orders \cup {n} /\ orders'[n] = new
      /\ \A k \in DOMAIN orders : orders'[k] = orders[k]
      /\ filled'[n] = 0 /\ \A k \in DOMAIN orders : filled'[k] = filled[k]
    BY <1>1, <1>2, <1>6
<1>8. \A p \in pending : p.id \in DOMAIN orders /\ p.seq < seq
    BY DEF BInv, LInv, InFlight
<1>9. Awaited(n)' /\ \A id \in DOMAIN orders : Awaited(id)' <=> Awaited(id)
    BY <1>1, <1>2, <1>3 DEF Awaited
<1>10. Ownership'
    BY <1>1, <1>7 DEF OInv, Ownership, Belongs
<1>11. CancelsFollow'
    <2>1. /\ \A p, q \in pending : ~p.is_cancel /\ ~q.is_cancel /\ p.id = q.id => p = q
          /\ \A p, q \in pending : p.is_cancel /\ ~q.is_cancel /\ p.id = q.id => q.seq < p.seq
        BY DEF OInv, CancelsFollow
    <2> QED
        BY <1>1, <1>2, <1>3, <1>8, <2>1 DEF CancelsFollow
<1>12. OnePlace'
    <2>1. ~Working(n)' /\ n \notin withdrawn
        BY <1>1, <1>2 DEF Working, OInv, OnePlace
    <2>2. \A id \in DOMAIN orders : Working(id)' <=> Working(id)
        BY <1>1 DEF Working
    <2> QED
        BY <1>1, <1>2, <1>7, <1>9, <2>1, <2>2 DEF OInv, OnePlace
<1>13. Accounted'
    <2>1. ASSUME NEW id \in DOMAIN orders
          PROVE  KnownQty(id)' = KnownQty(id) /\ orders'[id] = orders[id]
        <3>1. PendingQty(id)' = PendingQty(id)
            BY <1>7, <1>9 DEF PendingQty, Awaited
        <3>2. /\ RestingQty(id)' = RestingQty(id) /\ WorkingQty(id)' = WorkingQty(id)
              /\ UnroutedQty(id)' = UnroutedQty(id) /\ filled'[id] = filled[id]
            BY <1>1, <1>7 DEF RestingQty, WorkingQty, UnroutedQty, LegQty
        <3> QED
            BY <1>7, <3>1, <3>2 DEF KnownQty, OpenQty
    <2>2. KnownQty(n)' = orders'[n].qty
        <3>1. PendingQty(n)' = o.qty
            BY <1>5, <1>7, <1>9 DEF PendingQty, Awaited
        <3>2. RestingQty(n)' = 0 /\ WorkingQty(n)' = 0
            BY <1>1, <1>2 DEF RestingQty, WorkingQty
        <3>3. UnroutedQty(n)' = 0
            <4>1. told \in Nat /\ told <= Len(fills) /\ fills \in Seq(Fill)
                BY DEF BInv, Routing, IInv, TypeOK
            <4>2. \A i \in DOMAIN fills : LegQty(i, n)' = 0
                BY <1>1, <1>2 DEF LegQty
            <4>3. /\ told + 2 = Len(fills) => Len(fills) - 1 \in DOMAIN fills
                  /\ told < Len(fills) => Len(fills) \in DOMAIN fills
                BY <4>1
            <4> QED
                BY <1>1, <4>2, <4>3 DEF UnroutedQty
        <3> QED
            BY <1>4, <1>5, <1>7, <3>1, <3>2, <3>3 DEF KnownQty, OpenQty
    <2>3. orders'[n].qty \in Nat
        BY <1>4, <1>5, <1>7
    <2> QED
        BY <1>1, <1>7, <2>1, <2>2, <2>3 DEF OInv, Accounted
<1> QED
    BY <1>10, <1>11, <1>12, <1>13 DEF OInv

LEMMA CancelOwnOInv ==
    ASSUME BInv, OInv, NEW id \in DOMAIN orders, NEW lat \in Latency, CancelOwn(id, lat)
    PROVE  OInv'
<1> DEFINE c == [ts |-> clock + lat, seq |-> seq, is_cancel |-> TRUE, id |-> id]
<1>1. /\ pending' = pending \cup {c} /\ orders' = orders /\ filled' = filled
      /\ book' = book /\ in' = in /\ fills' = fills /\ phase' = phase /\ event' = event
      /\ told' = told /\ withdrawn' = withdrawn /\ horizon' = horizon
    BY DEF CancelOwn, Enqueue, engineVars, loopVars
<1>2. c.seq = seq /\ c.is_cancel = TRUE
    OBVIOUS
<1> HIDE DEF c
<1>3. \A p \in pending : p.seq < seq
    BY DEF BInv, LInv, InFlight
<1>4. \A k : Awaited(k)' = Awaited(k)
    BY <1>1, <1>2 DEF Awaited
<1>5. Ownership'
    BY <1>1 DEF OInv, Ownership, Belongs
<1>6. CancelsFollow'
    <2>1. /\ \A p, q \in pending : ~p.is_cancel /\ ~q.is_cancel /\ p.id = q.id => p = q
          /\ \A p, q \in pending : p.is_cancel /\ ~q.is_cancel /\ p.id = q.id => q.seq < p.seq
        BY DEF OInv, CancelsFollow
    <2> QED
        BY <1>1, <1>2, <1>3, <2>1 DEF CancelsFollow
<1>7. OnePlace'
    BY <1>1, <1>4 DEF OInv, OnePlace, Working
<1>8. \A k : KnownQty(k)' = KnownQty(k)
    <2>1. \A k : PendingQty(k)' = PendingQty(k)
        BY <1>1, <1>4 DEF PendingQty, Awaited
    <2> QED
        BY <1>1, <2>1 DEF KnownQty, OpenQty, UnroutedQty, LegQty, RestingQty, WorkingQty
<1>9. Accounted'
    BY <1>1, <1>8, AccountKept DEF OInv
<1> QED
    BY <1>5, <1>6, <1>7, <1>9 DEF OInv

\* A command leaves the heap: what is awaited then.
LEMMA PoppedAwaited ==
    ASSUME BInv, OInv, pending # {}, pending' = Popped, NEW k, k = Top.id
    PROVE  /\ Top.is_cancel => \A id : Awaited(id)' <=> Awaited(id)
           /\ ~Top.is_cancel =>
                /\ Awaited(k) /\ ~Awaited(k)'
                /\ \A id : id # k => (Awaited(id)' <=> Awaited(id))
           /\ CancelsFollow'
<1>1. Top \in pending
    BY TopIsFirst DEF BInv, LInv
<1>2. PICK top : top = Top
    OBVIOUS
<1>3. pending' = pending \ {top} /\ top \in pending /\ k = top.id
    BY <1>1, <1>2 DEF Popped
<1>4. /\ \A p, q \in pending : ~p.is_cancel /\ ~q.is_cancel /\ p.id = q.id => p = q
      /\ \A p, q \in pending : p.is_cancel /\ ~q.is_cancel /\ p.id = q.id => q.seq < p.seq
    BY DEF OInv, CancelsFollow
<1>5. CancelsFollow'
    BY <1>3, <1>4 DEF CancelsFollow
<1>6. top.is_cancel => \A id : Awaited(id)' <=> Awaited(id)
    BY <1>3 DEF Awaited
<1>7. ~top.is_cancel =>
        /\ Awaited(k) /\ ~Awaited(k)'
        /\ \A id : id # k => (Awaited(id)' <=> Awaited(id))
    BY <1>3, <1>4 DEF Awaited
<1> QED
    BY <1>2, <1>5, <1>6, <1>7

\* A cancel that is due no sooner than its order leaves the heap after it.
LEMMA OrderNotAwaited ==
    ASSUME BInv, OInv, pending # {}, Top.is_cancel, Top.ts >= orders[Top.id].ts_active
    PROVE  ~Awaited(Top.id)
<1> SUFFICES ASSUME NEW p \in pending, ~p.is_cancel, p.id = Top.id
             PROVE  FALSE
    BY DEF Awaited
<1>1. InFlight
    BY DEF BInv, LInv
<1>2. /\ Top \in pending /\ Top.ts \in Nat /\ Top.seq \in Nat
      /\ \A q \in pending \ {Top} : Earliest(Top, q)
    BY <1>1, TopIsFirst
<1>3. p.seq < Top.seq
    BY <1>2 DEF OInv, CancelsFollow
<1>4. p.ts = orders[Top.id].ts_active /\ p.ts \in Nat /\ p.seq \in Nat
    BY <1>1 DEF InFlight, Command
<1>5. p # Top
    BY <1>2, <1>3
<1> QED
    BY <1>2, <1>3, <1>4, <1>5 DEF Earliest

LEMMA DrainCancelOInv ==
    ASSUME BInv, OInv, DrainCancel
    PROVE  OInv'
<1> PICK k : k = Top.id
    OBVIOUS
<1>1. /\ pending # {} /\ Top.is_cancel /\ pending' = Popped
      /\ phase = "idle" /\ phase' = phase /\ in' = in /\ fills' = fills
      /\ book' = CancelOrder(book, k)
      /\ withdrawn' = IF Top.ts < orders[k].ts_active THEN withdrawn ELSE withdrawn \cup {k}
      /\ horizon' = Top.ts /\ event' = event /\ orders' = orders
      /\ told' = told /\ filled' = filled
    BY DEF DrainCancel, Due, Cancel, loopVars
<1>2. Top \in pending /\ Top.ts \in Nat /\ k \in DOMAIN orders
    BY <1>1, TopIsFirst DEF BInv, LInv
<1>3. horizon \in Nat /\ horizon <= Top.ts /\ \A id \in DOMAIN orders : orders[id].ts_active \in Nat
    BY <1>2, OwnTypes DEF BInv, LInv, LoopTypes, Timing
<1>4. WellFormed(book)
    BY InvBook DEF BInv
<1>5. /\ Resting(book') = Resting(book) \ {k}
      /\ \A j \in Resting(book') :
            book'.index[j] = book.index[j] /\ Entry(book', j) = Entry(book, j)
    BY <1>1, <1>4, CancelEntries
<1>6. (\A id : Awaited(id)' <=> Awaited(id)) /\ CancelsFollow'
    BY <1>1, PoppedAwaited
<1>7. k \in withdrawn' \/ k \notin Resting(book)
    BY <1>1, <1>2, <1>3 DEF OInv, OnePlace
<1>8. k \in withdrawn' => ~Awaited(k)
    <2>1. CASE k \in withdrawn
        BY <1>2, <2>1 DEF OInv, OnePlace
    <2>2. CASE Top.ts >= orders[k].ts_active
        BY <1>1, <2>2, OrderNotAwaited
    <2> QED
        BY <1>1, <1>2, <1>3, <2>1, <2>2
<1>9. Ownership'
    BY <1>1, <1>5 DEF OInv, Ownership, Belongs
<1>10. OnePlace'
    <2>1. \A id : ~Working(id) /\ ~Working(id)'
        BY <1>1 DEF Working
    <2>2. withdrawn' \subseteq DOMAIN orders' /\ withdrawn' \subseteq withdrawn \cup {k}
        BY <1>1, <1>2 DEF OInv, OnePlace
    <2>3. \A id \in DOMAIN orders :
            /\ Awaited(id) => id \notin Resting(book) /\ (phase # "idle" => in.id # id)
            /\ id \in withdrawn => ~Awaited(id) /\ id \notin Resting(book)
            /\ id \in Resting(book) => orders[id].ts_active <= horizon
        BY DEF OInv, OnePlace
    <2>4. \A id \in DOMAIN orders : id \in Resting(book) => orders[id].ts_active <= horizon'
        BY <1>1, <1>2, <1>3, <2>3
    <2> QED
        BY <1>1, <1>2, <1>5, <1>6, <1>8, <2>1, <2>2, <2>3, <2>4 DEF OnePlace
<1>11. Accounted'
    <2>1. ASSUME NEW id \in DOMAIN orders
          PROVE  \/ KnownQty(id)' = KnownQty(id)
                 \/ /\ KnownQty(id)' <= KnownQty(id) /\ KnownQty(id)' \in Int
                    /\ id \in withdrawn' \/ orders[id].type # "Limit"
        <3>1. /\ UnroutedQty(id)' = UnroutedQty(id) /\ WorkingQty(id)' = WorkingQty(id)
              /\ filled'[id] = filled[id]
            BY <1>1 DEF UnroutedQty, LegQty, WorkingQty
        <3>2. PendingQty(id)' = PendingQty(id)
            BY <1>1, <1>6 DEF PendingQty, Awaited
        <3>3. CASE id # k \/ k \notin Resting(book)
            <4>1. RestingQty(id)' = RestingQty(id)
                <5>1. CASE id \in Resting(book)
                    <6>1. id \in Resting(book')
                        BY <1>5, <3>3, <5>1
                    <6>2. NodeQty(book', id) = NodeQty(book, id)
                        BY <1>5, <6>1 DEF NodeQty, Entry
                    <6> QED
                        BY <5>1, <6>1, <6>2 DEF RestingQty
                <5>2. CASE id \notin Resting(book)
                    BY <1>5, <5>2 DEF RestingQty
                <5> QED
                    BY <5>1, <5>2
            <4> QED
                BY <3>1, <3>2, <4>1 DEF KnownQty, OpenQty
        <3>4. CASE id = k /\ k \in Resting(book)
            <4>1. RestingQty(id)' = 0
                BY <1>5, <3>4 DEF RestingQty
            <4>2. /\ RestingQty(id) \in Nat /\ WorkingQty(id) \in Nat /\ PendingQty(id) \in Nat
                  /\ UnroutedQty(id) \in Int /\ filled[id] \in Int
                BY OwnTypes
            <4>3. KnownQty(id)' = filled[id] + UnroutedQty(id) + (0 + WorkingQty(id) + PendingQty(id))
                BY <3>1, <3>2, <4>1 DEF KnownQty, OpenQty
            <4>4. KnownQty(id)' <= KnownQty(id) /\ KnownQty(id)' \in Int
                BY <4>2, <4>3 DEF KnownQty, OpenQty
            <4> QED
                BY <1>7, <3>4, <4>4
        <3> QED
            BY <3>3, <3>4
    <2>2. withdrawn \subseteq withdrawn'
        BY <1>1
    <2> QED
        BY <1>1, <2>1, <2>2, AccountKept DEF OInv
<1> QED
    BY <1>6, <1>9, <1>10, <1>11 DEF OInv

LEMMA ApplyCancelOInv ==
    ASSUME BInv, OInv, ApplyCancel
    PROVE  OInv'
<1> PICK k : k = event.id
    OBVIOUS
<1>1. /\ phase = "idle" /\ phase' = phase /\ in' = in /\ fills' = fills
      /\ book' = CancelOrder(book, k) /\ at = "event"
      /\ withdrawn' = withdrawn /\ pending' = pending
      /\ horizon' = event.ts /\ event' = event /\ orders' = orders
      /\ told' = told /\ filled' = filled
    BY DEF ApplyCancel, Cancel, ownVars
<1>2. event # EndOfTape
    BY <1>1 DEF BInv, LInv, Control
<1>3. k \notin DOMAIN orders
    BY <1>2, OwnIds DEF BInv, LInv, OInv, Ownership
<1>4. /\ horizon \in Nat /\ event.ts \in Nat /\ horizon <= event.ts
      /\ \A id \in DOMAIN orders : orders[id].ts_active \in Nat
    BY <1>2, OwnTypes DEF BInv, LInv, LoopTypes, MarketEvent, Timing
<1>5. WellFormed(book)
    BY InvBook DEF BInv
<1>6. /\ Resting(book') = Resting(book) \ {k}
      /\ \A j \in Resting(book') :
            book'.index[j] = book.index[j] /\ Entry(book', j) = Entry(book, j)
    BY <1>1, <1>5, CancelEntries
<1>7. Ownership'
    BY <1>1, <1>6 DEF OInv, Ownership, Belongs
<1>8. OnePlace' /\ CancelsFollow'
    <2>1. CancelsFollow'
        BY <1>1 DEF OInv, CancelsFollow
    <2>2. \A id : (Awaited(id)' <=> Awaited(id)) /\ (Working(id)' <=> Working(id))
        BY <1>1 DEF Awaited, Working
    <2>3. \A id \in DOMAIN orders :
            id \in Resting(book) \/ Working(id) => orders[id].ts_active <= horizon'
        BY <1>1, <1>4 DEF OInv, OnePlace
    <2> QED
        BY <1>1, <1>6, <2>1, <2>2, <2>3 DEF OInv, OnePlace
<1>9. Accounted'
    <2>1. ASSUME NEW id \in DOMAIN orders
          PROVE  KnownQty(id)' = KnownQty(id)
        <3>1. /\ UnroutedQty(id)' = UnroutedQty(id) /\ WorkingQty(id)' = WorkingQty(id)
              /\ PendingQty(id)' = PendingQty(id) /\ filled'[id] = filled[id]
            BY <1>1 DEF UnroutedQty, LegQty, WorkingQty, PendingQty
        <3>2. RestingQty(id)' = RestingQty(id)
            <4>1. CASE id \in Resting(book)
                <5>1. id \in Resting(book')
                    BY <1>3, <1>6, <4>1
                <5>2. NodeQty(book', id) = NodeQty(book, id)
                    BY <1>6, <5>1 DEF NodeQty, Entry
                <5> QED
                    BY <4>1, <5>1, <5>2 DEF RestingQty
            <4>2. CASE id \notin Resting(book)
                BY <1>6, <4>2 DEF RestingQty
            <4> QED
                BY <4>1, <4>2
        <3> QED
            BY <3>1, <3>2 DEF KnownQty, OpenQty
    <2> QED
        BY <1>1, <2>1, AccountKept DEF OInv
<1> QED
    BY <1>7, <1>8, <1>9 DEF OInv

\* An own order is submitted: it leaves the heap and is in the engine, whole,
\* unless it is a FOK order that is refused.
LEMMA DrainOrderOInv ==
    ASSUME BInv, OInv, DrainOrder
    PROVE  OInv'
<1> PICK k : k = Top.id
    OBVIOUS
<1>1. /\ pending # {} /\ ~Top.is_cancel /\ pending' = Popped
      /\ Submit(OwnSubmission(k))
      /\ horizon' = Top.ts /\ event' = event /\ orders' = orders
      /\ told' = told /\ filled' = filled /\ withdrawn' = withdrawn
    BY DEF DrainOrder, Due
<1>2. /\ Top \in pending /\ Top.ts \in Nat /\ k \in DOMAIN orders
      /\ Top.ts = orders[k].ts_active
    BY <1>1, TopIsFirst DEF BInv, LInv, InFlight
<1>3. horizon \in Nat /\ horizon <= Top.ts /\ \A id \in DOMAIN orders : orders[id].ts_active \in Nat
    BY <1>2, OwnTypes DEF BInv, LInv, LoopTypes, Timing
<1>4. /\ phase = "idle" /\ book' = book /\ fills' = fills
      /\ in'.id = k /\ in'.side = orders[k].side /\ in'.type = orders[k].type
      /\ in'.is_ours = TRUE /\ in'.remaining = orders[k].qty
      /\ phase' = "match" \/ (phase' = "done" /\ orders[k].type = "FOK")
    <2> DEFINE o == OnAccept([OwnSubmission(k) EXCEPT !.remaining = OwnSubmission(k).qty])
    <2>1. /\ phase = "idle" /\ book' = book /\ fills' = fills
          /\ in' = IF Refused(book, o) THEN OnReject(o) ELSE o
          /\ phase' = IF Refused(book, o) THEN "done" ELSE "match"
        BY <1>1 DEF Submit
    <2>2. /\ o.id = k /\ o.side = orders[k].side /\ o.type = orders[k].type
          /\ o.is_ours = TRUE /\ o.remaining = orders[k].qty
        BY DEF OnAccept, OwnSubmission
    <2>3. /\ OnReject(o).id = o.id /\ OnReject(o).side = o.side /\ OnReject(o).type = o.type
          /\ OnReject(o).is_ours = o.is_ours /\ OnReject(o).remaining = o.remaining
        BY DEF OnReject, OnAccept, OwnSubmission
    <2> HIDE DEF o
    <2>4. Refused(book, o) => o.type = "FOK"
        BY DEF Refused
    <2> QED
        BY <2>1, <2>2, <2>3, <2>4
<1>5. /\ Awaited(k) /\ ~Awaited(k)' /\ (\A id : id # k => (Awaited(id)' <=> Awaited(id)))
      /\ CancelsFollow'
    BY <1>1, PoppedAwaited
<1>6. Ownership'
    BY <1>1, <1>2, <1>4 DEF OInv, Ownership, Belongs
<1>7. OnePlace'
    <2>1. \A id : ~Working(id) /\ (Working(id)' => id = k)
        BY <1>4 DEF Working
    <2>2. /\ withdrawn \subseteq DOMAIN orders
          /\ \A id \in DOMAIN orders :
               /\ Awaited(id) => id \notin Resting(book)
               /\ id \in withdrawn => ~Awaited(id) /\ id \notin Resting(book)
               /\ id \in Resting(book) => orders[id].ts_active <= horizon
        BY DEF OInv, OnePlace
    <2>3. \A id \in DOMAIN orders : id \in Resting(book) => orders[id].ts_active <= horizon'
        BY <1>1, <1>2, <1>3, <2>2
    <2>4. orders[k].ts_active <= horizon'
        BY <1>1, <1>2
    <2> QED
        BY <1>1, <1>2, <1>4, <1>5, <2>1, <2>2, <2>3, <2>4 DEF OnePlace
<1>8. Accounted'
    <2>1. ASSUME NEW id \in DOMAIN orders
          PROVE  \/ KnownQty(id)' = KnownQty(id)
                 \/ /\ KnownQty(id)' <= KnownQty(id) /\ KnownQty(id)' \in Int
                    /\ id \in withdrawn' \/ orders[id].type # "Limit"
        <3>1. /\ UnroutedQty(id)' = UnroutedQty(id) /\ RestingQty(id)' = RestingQty(id)
              /\ filled'[id] = filled[id]
            BY <1>1, <1>4 DEF UnroutedQty, LegQty, RestingQty
        <3>2. WorkingQty(id) = 0
            BY <1>4 DEF WorkingQty
        <3>3. CASE id # k
            <4>1. WorkingQty(id)' = 0 /\ PendingQty(id)' = PendingQty(id)
                BY <1>1, <1>4, <1>5, <3>3 DEF WorkingQty, PendingQty, Awaited
            <4> QED
                BY <3>1, <3>2, <4>1 DEF KnownQty, OpenQty
        <3>4. CASE id = k
            <4>0. /\ RestingQty(id) \in Nat /\ orders[id].qty \in Nat
                  /\ UnroutedQty(id) \in Int /\ filled[id] \in Int
                BY OwnTypes
            <4>1. PendingQty(id) = orders[id].qty /\ PendingQty(id)' = 0
                BY <1>5, <3>4 DEF PendingQty, Awaited
            <4>2. /\ phase' = "match" => WorkingQty(id)' = orders[id].qty
                  /\ phase' = "done" => WorkingQty(id)' = 0
                BY <1>4, <3>4 DEF WorkingQty
            <4>3. KnownQty(id) = filled[id] + UnroutedQty(id) + (RestingQty(id) + 0 + orders[id].qty)
                BY <3>2, <4>1 DEF KnownQty, OpenQty
            <4>4. KnownQty(id)' = filled[id] + UnroutedQty(id) + (RestingQty(id) + WorkingQty(id)' + 0)
                BY <3>1, <4>1 DEF KnownQty, OpenQty
            <4>5. CASE phase' = "match"
                BY <4>0, <4>2, <4>3, <4>4, <4>5
            <4>6. CASE phase' = "done" /\ orders[k].type = "FOK"
                BY <3>4, <4>0, <4>2, <4>3, <4>4, <4>6
            <4> QED
                BY <1>4, <4>5, <4>6
        <3> QED
            BY <3>3, <3>4
    <2> QED
        BY <1>1, <2>1, AccountKept DEF OInv
<1> QED
    BY <1>5, <1>6, <1>7, <1>8 DEF OInv

\* A market order is submitted: it is none of the strategy's.
LEMMA ApplyOrderOInv ==
    ASSUME BInv, OInv, ApplyOrder
    PROVE  OInv'
<1>1. /\ at = "event" /\ Submit(TapeOrder)
      /\ horizon' = event.ts /\ event' = event /\ orders' = orders /\ pending' = pending
      /\ told' = told /\ filled' = filled /\ withdrawn' = withdrawn
    BY DEF ApplyOrder, TapeOrder, ownVars
<1>2. event # EndOfTape
    BY <1>1 DEF BInv, LInv, Control
<1>3. event.id \notin 1 .. MaxCommands /\ event.id \notin DOMAIN orders
    BY <1>2, OwnIds DEF BInv, LInv, OInv, Ownership
<1>4. /\ horizon \in Nat /\ event.ts \in Nat /\ horizon <= event.ts
      /\ \A id \in DOMAIN orders : orders[id].ts_active \in Nat
    BY <1>2, OwnTypes DEF BInv, LInv, LoopTypes, MarketEvent, Timing
<1>5. /\ phase = "idle" /\ book' = book /\ fills' = fills
      /\ in'.id = event.id /\ in'.is_ours = FALSE
    <2> DEFINE o == OnAccept([TapeOrder EXCEPT !.remaining = TapeOrder.qty])
    <2>1. /\ phase = "idle" /\ book' = book /\ fills' = fills
          /\ in' = IF Refused(book, o) THEN OnReject(o) ELSE o
        BY <1>1 DEF Submit
    <2>2. o.id = event.id /\ o.is_ours = FALSE
        BY DEF OnAccept, TapeOrder
    <2>3. OnReject(o).id = event.id /\ OnReject(o).is_ours = FALSE
        BY DEF OnAccept, OnReject, TapeOrder
    <2> HIDE DEF o
    <2> QED
        BY <2>1, <2>2, <2>3
<1>6. Ownership'
    BY <1>1, <1>3, <1>5 DEF OInv, Ownership, Belongs
<1>7. OnePlace' /\ CancelsFollow'
    <2>1. CancelsFollow'
        BY <1>1 DEF OInv, CancelsFollow
    <2>2. \A id : Awaited(id)' <=> Awaited(id)
        BY <1>1 DEF Awaited
    <2>3. \A id \in DOMAIN orders : ~Working(id)' /\ in'.id # id
        BY <1>3, <1>5 DEF Working
    <2>4. \A id \in DOMAIN orders : id \in Resting(book) => orders[id].ts_active <= horizon'
        BY <1>1, <1>4 DEF OInv, OnePlace
    <2> QED
        BY <1>1, <1>5, <2>1, <2>2, <2>3, <2>4 DEF OInv, OnePlace
<1>8. Accounted'
    <2>1. ASSUME NEW id \in DOMAIN orders
          PROVE  KnownQty(id)' = KnownQty(id)
        <3>1. /\ UnroutedQty(id)' = UnroutedQty(id) /\ RestingQty(id)' = RestingQty(id)
              /\ PendingQty(id)' = PendingQty(id) /\ filled'[id] = filled[id]
            BY <1>1, <1>5 DEF UnroutedQty, LegQty, RestingQty, PendingQty
        <3>2. WorkingQty(id) = 0 /\ WorkingQty(id)' = 0
            BY <1>3, <1>5 DEF WorkingQty
        <3> QED
            BY <3>1, <3>2 DEF KnownQty, OpenQty
    <2> QED
        BY <1>1, <2>1, AccountKept DEF OInv
<1> QED
    BY <1>6, <1>7, <1>8 DEF OInv

\* submit returns: nothing is left in the engine, and no fill unrouted.
LEMMA DoneOInv ==
    ASSUME BInv, OInv, OursDone \/ TapeDone
    PROVE  OInv'
<1>1. /\ phase = "done" /\ phase' = "idle" /\ fills' = << >> /\ told' = 0
      /\ book' = book /\ event' = event /\ orders' = orders /\ pending' = pending
      /\ filled' = filled /\ withdrawn' = withdrawn /\ horizon' = horizon
    BY DEF OursDone, TapeDone, Return, ownVars
<1>2. told = Len(fills)
    BY <1>1 DEF BInv, Routing
<1>3. Ownership'
    BY <1>1 DEF OInv, Ownership, Belongs
<1>4. OnePlace' /\ CancelsFollow'
    <2>1. \A id : ~Working(id) /\ ~Working(id)' /\ (Awaited(id)' <=> Awaited(id))
        BY <1>1 DEF Working, Awaited
    <2>2. CancelsFollow'
        BY <1>1 DEF OInv, CancelsFollow
    <2> QED
        BY <1>1, <2>1, <2>2 DEF OInv, OnePlace
<1>5. Accounted'
    <2>1. ASSUME NEW id \in DOMAIN orders
          PROVE  KnownQty(id)' = KnownQty(id)
        <3>1. /\ RestingQty(id)' = RestingQty(id) /\ PendingQty(id)' = PendingQty(id)
              /\ filled'[id] = filled[id]
            BY <1>1 DEF RestingQty, PendingQty
        <3>2. WorkingQty(id) = 0 /\ WorkingQty(id)' = 0
            BY <1>1 DEF WorkingQty
        <3>3. UnroutedQty(id)' = 0
            BY <1>1 DEF UnroutedQty
        <3>4. UnroutedQty(id) = 0
            BY <1>2, OwnTypes
        <3> QED
            BY <3>1, <3>2, <3>3, <3>4 DEF KnownQty, OpenQty
    <2> QED
        BY <1>1, <2>1, AccountKept DEF OInv
<1> QED
    BY <1>3, <1>4, <1>5 DEF OInv

\* A fill is routed: what was unrouted of an order is reported of it.
LEMMA RoutedIsReported ==
    ASSUME BInv, RouteFill, NEW id \in DOMAIN orders
    PROVE  filled'[id] + UnroutedQty(id)' = filled[id] + UnroutedQty(id)
<1> DEFINE f == fills[told + 1]
<1>1. /\ phase = "traded" /\ told < Len(fills) /\ told' = told + 1 /\ fills' = fills
      /\ filled' = IF f.is_ours THEN [filled EXCEPT ![f.order_id] = @ + f.qty] ELSE filled
    BY DEF RouteFill, Reported, engineVars
<1>2. told \in Nat /\ Len(fills) \in Nat /\ told >= Len(fills) - 2
    BY <1>1 DEF BInv, Routing, IInv, TypeOK
<1>3. f.qty \in Int
    BY <1>1, FillInQuestion DEF BInv
<1>4. filled[id] \in Int /\ id \in DOMAIN filled
    BY OwnTypes, OwnIds DEF BInv, LInv
<1>5. LegQty(told + 1, id) = IF f.is_ours /\ f.order_id = id THEN f.qty ELSE 0
    BY DEF LegQty
<1> HIDE DEF f
<1>6. filled'[id] = filled[id] + LegQty(told + 1, id)
    BY <1>1, <1>3, <1>4, <1>5
<1>7. LegQty(told + 1, id) \in Int
    BY <1>3, <1>5
<1>8. \A i : LegQty(i, id)' = LegQty(i, id)
    BY <1>1 DEF LegQty
<1>9. CASE told + 1 = Len(fills)
    <2>1. UnroutedQty(id) = LegQty(told + 1, id)
        BY <1>2, <1>7, <1>9 DEF UnroutedQty
    <2>2. UnroutedQty(id)' = 0
        BY <1>1, <1>2, <1>9 DEF UnroutedQty
    <2> QED
        BY <1>4, <1>6, <1>7, <2>1, <2>2
<1>10. CASE told + 2 = Len(fills)
    <2>0. LegQty(Len(fills), id) \in Int
        <3>1. Len(fills) \in DOMAIN fills /\ IInv
            BY <1>2, <1>10 DEF BInv, IInv, TypeOK
        <3> QED
            BY <3>1, LegType
    <2>1. UnroutedQty(id) = LegQty(told + 1, id) + LegQty(Len(fills), id)
        <3>1. Len(fills) - 1 = told + 1 /\ told < Len(fills)
            BY <1>2, <1>10
        <3> QED
            BY <1>10, <3>1 DEF UnroutedQty
    <2>2. UnroutedQty(id)' = LegQty(Len(fills), id)
        <3>1. told' + 2 # Len(fills') /\ told' < Len(fills')
            BY <1>1, <1>2, <1>10
        <3> QED
            BY <1>1, <1>8, <2>0, <3>1 DEF UnroutedQty
    <2> QED
        BY <1>4, <1>6, <1>7, <2>0, <2>1, <2>2
<1> QED
    BY <1>1, <1>2, <1>9, <1>10

LEMMA RouteFillOInv ==
    ASSUME BInv, OInv, RouteFill
    PROVE  OInv'
<1>1. /\ book' = book /\ in' = in /\ fills' = fills /\ phase' = phase /\ event' = event
      /\ orders' = orders /\ pending' = pending /\ withdrawn' = withdrawn /\ horizon' = horizon
    BY DEF RouteFill, engineVars, loopVars, ownVars
<1>2. Ownership'
    BY <1>1 DEF OInv, Ownership, Belongs
<1>3. OnePlace' /\ CancelsFollow'
    BY <1>1 DEF OInv, OnePlace, CancelsFollow, Awaited, Working
<1>4. Accounted'
    <2>1. ASSUME NEW id \in DOMAIN orders
          PROVE  KnownQty(id)' = KnownQty(id)
        <3>1. filled'[id] + UnroutedQty(id)' = filled[id] + UnroutedQty(id)
            BY RoutedIsReported
        <3>2. /\ RestingQty(id)' = RestingQty(id) /\ WorkingQty(id)' = WorkingQty(id)
              /\ PendingQty(id)' = PendingQty(id)
            BY <1>1 DEF RestingQty, WorkingQty, PendingQty
        <3> QED
            BY <3>1, <3>2 DEF KnownQty, OpenQty
    <2> QED
        BY <1>1, <2>1, AccountKept DEF OInv
<1> QED
    BY <1>2, <1>3, <1>4 DEF OInv

\* What a trade is: the quantity n leaves the order submitted and the front
\* order r, and is what both new fills are for.
LEMMA TradeFacts ==
    ASSUME IInv, Trade
    PROVE  \E r \in RestingOrder, n \in Nat, x \in Fill, y \in Fill :
             /\ n <= r.qty /\ n <= in.remaining
             /\ r.id \in Resting(book) /\ book.index[r.id].side = Opp /\ Entry(book, r.id) = r
             /\ Resting(book') = Resting(book) /\ book'.index = book.index
             /\ Entry(book', r.id) = [r EXCEPT !.qty = r.qty - n]
             /\ \A k \in Resting(book) \ {r.id} : Entry(book', k) = Entry(book, k)
             /\ in'.id = in.id /\ in'.side = in.side /\ in'.type = in.type
             /\ in'.is_ours = in.is_ours /\ in'.remaining = in.remaining - n
             /\ fills' = fills \o <<x, y>>
             /\ x.order_id = in.id /\ x.side = in.side /\ x.is_ours = in.is_ours /\ x.qty = n
             /\ y.order_id = r.id /\ y.side = Opp /\ y.is_ours = r.is_ours /\ y.qty = n
<1> DEFINE p == Best(book, Opp)
           r == FrontNode(book, Opp, p)
           n == Traded(r)
           x == FillOf(in.id, in.side, p, n, in.is_ours, FALSE)
           y == FillOf(r.id, Opp, p, n, r.is_ours, TRUE)
<1>1. /\ phase = "match" /\ Matching /\ in' = OnFill(in, n)
      /\ book' = TradeFront(book, Opp, p, n) /\ fills' = fills \o <<x, y>>
    BY DEF Trade
<1>2. WellFormed(book) /\ IsBook(book) /\ in \in Order /\ Opp \in Side /\ in.side \in Side
    BY <1>1, InvBook
<1>3. p \in Prices(book, Opp)
    BY <1>1, <1>2, BestIsBest DEF Matching
<1>4. r \in RestingOrder /\ r.qty \in Quantity /\ r.id \in OrderId /\ p \in Price
    BY <1>2, <1>3, FrontTypes DEF IsBook
<1>5. n \in Nat /\ n <= r.qty /\ n <= in.remaining /\ n \in Quantity
    <2> HIDE DEF r
    <2> QED
        BY <1>1, <1>2, <1>4, MaxQtyAssumption DEF Traded, Matching, Order, Quantity
<1>6. /\ in'.id = in.id /\ in'.side = in.side /\ in'.type = in.type
      /\ in'.is_ours = in.is_ours /\ in'.remaining = in.remaining - n
    <2> HIDE DEF n
    <2> QED
        BY <1>1, <1>2 DEF OnFill, Order
<1>7. x \in Fill /\ y \in Fill
    <2> HIDE DEF p, n, r
    <2>1. in.id \in OrderId /\ in.is_ours \in BOOLEAN /\ r.is_ours \in BOOLEAN
        BY <1>2, <1>4 DEF Order, RestingOrder
    <2> QED
        BY <1>2, <1>4, <1>5, <2>1, FillType
<1>8. /\ x.order_id = in.id /\ x.side = in.side /\ x.is_ours = in.is_ours /\ x.qty = n
      /\ y.order_id = r.id /\ y.side = Opp /\ y.is_ours = r.is_ours /\ y.qty = n
    BY DEF FillOf
<1>9. /\ r.id \in Resting(book) /\ book.index[r.id].side = Opp /\ Entry(book, r.id) = r
      /\ Resting(book') = Resting(book) /\ book'.index = book.index
      /\ Entry(book', r.id) = [r EXCEPT !.qty = r.qty - n]
      /\ \A k \in Resting(book) \ {r.id} : Entry(book', k) = Entry(book, k)
    <2> HIDE DEF n
    <2> QED
        BY <1>1, <1>2, <1>3, <1>5, TradeEntries
<1> HIDE DEF r, n, x, y
<1> QED
    BY <1>1, <1>4, <1>5, <1>6, <1>7, <1>8, <1>9

LEMMA TradeOInv ==
    ASSUME BInv, OInv, Trade, UNCHANGED <<loopVars, ownVars, told, filled, withdrawn, horizon>>
    PROVE  OInv'
<1>1. /\ phase = "match" /\ phase' = "traded"
      /\ event' = event /\ orders' = orders /\ pending' = pending
      /\ told' = told /\ filled' = filled /\ withdrawn' = withdrawn /\ horizon' = horizon
    BY DEF Trade, loopVars, ownVars
<1>2. IInv /\ LInv /\ fills \in Seq(Fill) /\ told = Len(fills) /\ told \in Nat
    BY <1>1 DEF BInv, IInv, TypeOK, Routing
<1>3. PICK r \in RestingOrder, n \in Nat, x \in Fill, y \in Fill :
        /\ n <= r.qty /\ n <= in.remaining
        /\ r.id \in Resting(book) /\ book.index[r.id].side = Opp /\ Entry(book, r.id) = r
        /\ Resting(book') = Resting(book) /\ book'.index = book.index
        /\ Entry(book', r.id) = [r EXCEPT !.qty = r.qty - n]
        /\ \A k \in Resting(book) \ {r.id} : Entry(book', k) = Entry(book, k)
        /\ in'.id = in.id /\ in'.side = in.side /\ in'.type = in.type
        /\ in'.is_ours = in.is_ours /\ in'.remaining = in.remaining - n
        /\ fills' = fills \o <<x, y>>
        /\ x.order_id = in.id /\ x.side = in.side /\ x.is_ours = in.is_ours /\ x.qty = n
        /\ y.order_id = r.id /\ y.side = Opp /\ y.is_ours = r.is_ours /\ y.qty = n
    BY <1>2, TradeFacts
<1>4. /\ Len(fills') = Len(fills) + 2
      /\ \A i \in DOMAIN fills : fills'[i] = fills[i]
      /\ fills'[Len(fills) + 1] = x /\ fills'[Len(fills) + 2] = y
      /\ DOMAIN fills' = DOMAIN fills \cup {Len(fills) + 1, Len(fills) + 2}
    BY <1>2, <1>3
<1>5. Entry(book', r.id).is_ours = r.is_ours /\ Entry(book', r.id).qty = r.qty - n
    BY <1>3 DEF RestingOrder
<1>6. Belongs(in.id, in.is_ours, in.side) /\ Belongs(r.id, r.is_ours, Opp)
    BY <1>1, <1>3 DEF OInv, Ownership
<1>7. Ownership'
    <2>1. \A id \in Resting(book') :
            Belongs(id, Entry(book', id).is_ours, book'.index[id].side)
        BY <1>3, <1>5 DEF OInv, Ownership
    <2>2. \A i \in DOMAIN fills' : Belongs(fills'[i].order_id, fills'[i].is_ours, fills'[i].side)
        BY <1>3, <1>4, <1>6 DEF OInv, Ownership
    <2>3. in.is_ours => in.type = orders[in.id].type
        BY <1>1 DEF OInv, Ownership
    <2>4. event' # EndOfTape => event'.id \notin 1 .. MaxCommands
        BY <1>1 DEF OInv, Ownership
    <2> QED
        BY <1>1, <1>3, <1>6, <2>1, <2>2, <2>3, <2>4 DEF Ownership, Belongs
<1>8. OnePlace' /\ CancelsFollow'
    <2>1. CancelsFollow'
        BY <1>1 DEF OInv, CancelsFollow
    <2>2. \A id : (Awaited(id)' <=> Awaited(id)) /\ (Working(id)' <=> Working(id))
        BY <1>1, <1>3 DEF Awaited, Working
    <2> QED
        BY <1>1, <1>3, <2>1, <2>2 DEF OInv, OnePlace
<1>9. Accounted'
    <2>1. ASSUME NEW id \in DOMAIN orders
          PROVE  KnownQty(id)' = KnownQty(id)
        <3> DEFINE taken == IF in.id = id THEN n ELSE 0
                   given == IF r.id = id THEN n ELSE 0
        <3>0. /\ id \in 1 .. MaxCommands /\ filled[id] \in Int
              /\ RestingQty(id) \in Nat /\ WorkingQty(id) \in Nat /\ PendingQty(id) \in Nat
              /\ UnroutedQty(id) = 0
            BY <1>2, OwnTypes
        <3> PICK m \in Nat : m = Len(fills)
            BY <1>2
        <3>1. LegQty(m + 1, id)' = taken
            <4>1. fills'[m + 1] = x /\ (in.id = id => in.is_ours)
                BY <1>4, <1>6, <3>0 DEF Belongs
            <4> QED
                BY <1>3, <4>1 DEF LegQty
        <3>2. LegQty(m + 2, id)' = given
            <4>1. fills'[m + 2] = y /\ (r.id = id => r.is_ours)
                BY <1>4, <1>6, <3>0 DEF Belongs
            <4> QED
                BY <1>3, <4>1 DEF LegQty
        <3>3. UnroutedQty(id)' = taken + given
            <4>1. told' + 2 = Len(fills') /\ told' < Len(fills') /\ Len(fills') - 1 = m + 1
                  /\ Len(fills') = m + 2
                BY <1>1, <1>2, <1>4
            <4>2. UnroutedQty(id)' = LegQty(m + 1, id)' + LegQty(m + 2, id)'
                BY <4>1 DEF UnroutedQty, LegQty
            <4> QED
                BY <3>1, <3>2, <4>2
        <3>4. WorkingQty(id)' = WorkingQty(id) - taken
            BY <1>1, <1>3 DEF WorkingQty
        <3>5. RestingQty(id)' = RestingQty(id) - given
            <4>1. WellFormed(book) /\ WellFormed(book')
                <5>1. IInv'
                    BY <1>2, TradeIInv
                <5> QED
                    BY <1>2, <5>1 DEF IInv, TypeOK, BookIndexed, BookTotals, NothingSpentRests, WellFormed
            <4>2. CASE id = r.id
                <5>1. id \in Resting(book) /\ id \in Resting(book')
                    BY <1>3, <4>2
                <5>2. NodeQty(book, id) = Entry(book, id).qty /\ NodeQty(book', id) = Entry(book', id).qty
                    BY <4>1, <5>1, EntryType
                <5>3. NodeQty(book, id) = r.qty /\ NodeQty(book', id) = r.qty - n
                    BY <1>3, <1>5, <4>2, <5>2
                <5> QED
                    BY <4>2, <5>1, <5>3 DEF RestingQty
            <4>3. CASE id # r.id
                <5>1. id \in Resting(book) => NodeQty(book', id) = NodeQty(book, id)
                    BY <1>3, <4>3 DEF NodeQty, Entry
                <5>2. RestingQty(id)' = RestingQty(id)
                    BY <1>3, <5>1 DEF RestingQty
                <5> QED
                    BY <3>0, <4>3, <5>2
            <4> QED
                BY <4>2, <4>3
        <3>6. PendingQty(id)' = PendingQty(id)
            BY <1>1 DEF PendingQty
        <3>7. taken \in Int /\ given \in Int
            OBVIOUS
        <3> HIDE DEF taken, given
        <3>8. KnownQty(id)' = filled[id] + UnroutedQty(id)'
                                + (RestingQty(id)' + WorkingQty(id)' + PendingQty(id)')
            BY <1>1 DEF KnownQty, OpenQty
        <3>9. KnownQty(id) = filled[id] + 0 + (RestingQty(id) + WorkingQty(id) + PendingQty(id))
            BY <3>0 DEF KnownQty, OpenQty
        <3> QED
            BY <3>0, <3>3, <3>4, <3>5, <3>6, <3>7, <3>8, <3>9, SMTT(30)
    <2> QED
        BY <1>1, <2>1, AccountKept DEF OInv
<1> QED
    BY <1>7, <1>8, <1>9 DEF OInv

\* Settling removes at most a spent order and leaves the rest as it is.
LEMMA SettleEntries ==
    ASSUME IInv, Settle
    PROVE  /\ Resting(book') \subseteq Resting(book)
           /\ \A k \in Resting(book') :
                 book'.index[k] = book.index[k] /\ Entry(book', k) = Entry(book, k)
           /\ \A k \in Resting(book) \ Resting(book') : NodeQty(book, k) = 0
<1> DEFINE p == Best(book, Opp)
           r == FrontNode(book, Opp, p)
<1>0. phase = "traded"
    BY DEF Settle
<1>1. book' = IF r.qty <= 0 THEN PopFront(book, Opp, p) ELSE book
    BY DEF Settle
<1>2. CASE ~(r.qty <= 0)
    BY <1>1, <1>2
<1>3. CASE r.qty <= 0
    <2>1. WellFormed(book) /\ IsBook(book) /\ Opp \in Side
        BY <1>0, InvBook
    <2>2. p \in Prices(book, Opp)
        BY <1>0, <2>1, BestIsBest DEF IInv
    <2>3. r.qty = 0
        BY <1>3, <2>1, <2>2, FrontTypes, MaxQtyAssumption DEF Quantity
    <2>4. book' = CancelOrder(book, r.id) /\ r.id \in Resting(book)
        BY <1>1, <1>3, <2>1, <2>2, <2>3, PopIsCancel
    <2>5. NodeQty(book, r.id) = 0
        <3>1. Entry(book, r.id) = r
            <4>1. HasNode(book, Opp, p, r)
                BY <2>1, <2>2, FrontTypes DEF HasNode
            <4> HIDE DEF r
            <4> QED
                BY <2>1, <4>1, NodeIsEntry
        <3>2. NodeQty(book, r.id) = Entry(book, r.id).qty
            BY <2>1, <2>4, EntryType
        <3> QED
            BY <2>3, <3>1, <3>2
    <2> HIDE DEF r
    <2> QED
        BY <2>1, <2>4, <2>5, CancelEntries
<1> QED
    BY <1>2, <1>3

\* A trade is settled: an order that is removed had nothing left.
LEMMA SettleOInv ==
    ASSUME BInv, OInv, Settle, UNCHANGED <<loopVars, ownVars, told, filled, withdrawn, horizon>>
    PROVE  OInv'
<1>1. /\ phase = "traded" /\ phase' = "match" /\ in' = in /\ fills' = fills
      /\ event' = event /\ orders' = orders /\ pending' = pending
      /\ told' = told /\ filled' = filled /\ withdrawn' = withdrawn /\ horizon' = horizon
    BY DEF Settle, loopVars, ownVars
<1>2. /\ Resting(book') \subseteq Resting(book)
      /\ \A k \in Resting(book') :
            book'.index[k] = book.index[k] /\ Entry(book', k) = Entry(book, k)
      /\ \A k \in Resting(book) \ Resting(book') : NodeQty(book, k) = 0
    BY SettleEntries DEF BInv
<1>3. Ownership'
    BY <1>1, <1>2 DEF OInv, Ownership, Belongs
<1>4. OnePlace' /\ CancelsFollow'
    <2>1. CancelsFollow'
        BY <1>1 DEF OInv, CancelsFollow
    <2>2. \A id : (Awaited(id)' <=> Awaited(id)) /\ (Working(id)' <=> Working(id))
        BY <1>1 DEF Awaited, Working
    <2> QED
        BY <1>1, <1>2, <2>1, <2>2 DEF OInv, OnePlace
<1>5. Accounted'
    <2>1. ASSUME NEW id \in DOMAIN orders
          PROVE  KnownQty(id)' = KnownQty(id)
        <3>1. /\ UnroutedQty(id)' = UnroutedQty(id) /\ WorkingQty(id)' = WorkingQty(id)
              /\ PendingQty(id)' = PendingQty(id) /\ filled'[id] = filled[id]
            BY <1>1 DEF UnroutedQty, LegQty, WorkingQty, PendingQty
        <3>2. RestingQty(id)' = RestingQty(id)
            <4>1. id \in Resting(book') => id \in Resting(book) /\ NodeQty(book', id) = NodeQty(book, id)
                BY <1>2 DEF NodeQty, Entry
            <4> QED
                BY <1>2, <4>1 DEF RestingQty
        <3> QED
            BY <3>1, <3>2 DEF KnownQty, OpenQty
    <2> QED
        BY <1>1, <2>1, AccountKept DEF OInv
<1> QED
    BY <1>3, <1>4, <1>5 DEF OInv

\* The remainder of a Limit order moves from the engine to the book.
LEMMA RestOInv ==
    ASSUME BInv, OInv, Rest, UNCHANGED <<loopVars, ownVars, told, filled, withdrawn, horizon>>
    PROVE  OInv'
<1>1. /\ phase = "match" /\ phase' = "done" /\ in' = in /\ fills' = fills
      /\ book' = Insert(book, in)
      /\ event' = event /\ orders' = orders /\ pending' = pending
      /\ told' = told /\ filled' = filled /\ withdrawn' = withdrawn /\ horizon' = horizon
    BY DEF Rest, loopVars, ownVars
<1>2. WellFormed(book) /\ in \in Order /\ Belongs(in.id, in.is_ours, in.side)
    BY <1>1, InvBook DEF BInv, OInv, Ownership
<1>3. \A id \in DOMAIN orders : id \in 1 .. MaxCommands
    BY OwnTypes
<1>4. CASE in.id \in Resting(book)
    <2>1. book' = book
        BY <1>1, <1>4 DEF Insert
    <2>2. \A id \in DOMAIN orders : ~Working(id) /\ ~Working(id)' /\ in.id # id
        BY <1>1, <1>4 DEF OInv, OnePlace, Working
    <2>3. Ownership'
        BY <1>1, <2>1 DEF OInv, Ownership, Belongs
    <2>4. CancelsFollow'
        BY <1>1 DEF OInv, CancelsFollow
    <2>5. OnePlace'
        <3>1. \A id : Awaited(id)' <=> Awaited(id)
            BY <1>1 DEF Awaited
        <3> QED
            BY <1>1, <2>1, <2>2, <3>1 DEF OInv, OnePlace
    <2>6. Accounted'
        <3>1. ASSUME NEW id \in DOMAIN orders
              PROVE  KnownQty(id)' = KnownQty(id)
            <4>1. /\ UnroutedQty(id)' = UnroutedQty(id) /\ RestingQty(id)' = RestingQty(id)
                  /\ PendingQty(id)' = PendingQty(id) /\ filled'[id] = filled[id]
                BY <1>1, <2>1 DEF UnroutedQty, LegQty, RestingQty, PendingQty
            <4>2. WorkingQty(id) = 0 /\ WorkingQty(id)' = 0
                BY <1>1, <2>2 DEF WorkingQty
            <4> QED
                BY <4>1, <4>2 DEF KnownQty, OpenQty
        <3> QED
            BY <1>1, <3>1, AccountKept DEF OInv
    <2> QED
        BY <2>3, <2>4, <2>5, <2>6 DEF OInv
<1>5. CASE in.id \notin Resting(book)
    <2>1. /\ Resting(book') = Resting(book) \cup {in.id}
          /\ book'.index[in.id].side = in.side /\ Entry(book', in.id) = NodeFor(in)
          /\ \A k \in Resting(book) :
                book'.index[k] = book.index[k] /\ Entry(book', k) = Entry(book, k)
        BY <1>1, <1>2, <1>5, InsertEntries
    <2>2. NodeFor(in).is_ours = in.is_ours /\ NodeFor(in).qty = in.remaining
        BY DEF NodeFor
    <2>3. Ownership'
        <3>1. \A id \in Resting(book') :
                Belongs(id, Entry(book', id).is_ours, book'.index[id].side)
            BY <1>2, <2>1, <2>2 DEF OInv, Ownership
        <3> QED
            BY <1>1, <3>1 DEF OInv, Ownership, Belongs
    <2>4. CancelsFollow'
        BY <1>1 DEF OInv, CancelsFollow
    <2>5. OnePlace'
        <3>1. \A id : (Awaited(id)' <=> Awaited(id)) /\ ~Working(id)' /\ (Working(id) <=> in.id = id)
            BY <1>1 DEF Awaited, Working
        <3>2. phase # "idle" /\ phase' # "idle"
            BY <1>1
        <3> QED
            BY <1>1, <2>1, <3>1, <3>2 DEF OInv, OnePlace
    <2>6. Accounted'
        <3>1. ASSUME NEW id \in DOMAIN orders
              PROVE  KnownQty(id)' = KnownQty(id)
            <4>1. /\ UnroutedQty(id)' = UnroutedQty(id)
                  /\ PendingQty(id)' = PendingQty(id) /\ filled'[id] = filled[id]
                BY <1>1 DEF UnroutedQty, LegQty, PendingQty
            <4>2. WorkingQty(id)' = 0 /\ WorkingQty(id) = IF in.id = id THEN in.remaining ELSE 0
                BY <1>1 DEF WorkingQty
            <4>3. /\ RestingQty(id) \in Nat /\ WorkingQty(id) \in Nat /\ PendingQty(id) \in Nat
                  /\ UnroutedQty(id) \in Int /\ filled[id] \in Int
                BY OwnTypes
            <4>4. CASE in.id = id
                <5>1. RestingQty(id) = 0
                    BY <1>5, <4>4 DEF RestingQty
                <5>2. RestingQty(id)' = in.remaining
                    BY <2>1, <2>2, <4>4 DEF RestingQty, NodeQty, Entry
                <5> QED
                    BY <4>1, <4>2, <4>3, <4>4, <5>1, <5>2 DEF KnownQty, OpenQty
            <4>5. CASE in.id # id
                <5>1. id \in Resting(book) => NodeQty(book', id) = NodeQty(book, id)
                    BY <2>1 DEF NodeQty, Entry
                <5>2. RestingQty(id)' = RestingQty(id)
                    BY <2>1, <4>5, <5>1 DEF RestingQty
                <5> QED
                    BY <4>1, <4>2, <4>5, <5>2 DEF KnownQty, OpenQty
            <4> QED
                BY <4>4, <4>5
        <3> QED
            BY <1>1, <3>1, AccountKept DEF OInv
    <2> QED
        BY <2>3, <2>4, <2>5, <2>6 DEF OInv
<1> QED
    BY <1>4, <1>5

\* submit ends without resting: nothing is left, or the order may not rest.
LEMMA EndOInv ==
    ASSUME BInv, OInv, Discard \/ Complete,
           UNCHANGED <<loopVars, ownVars, told, filled, withdrawn, horizon>>
    PROVE  OInv'
<1>1. /\ phase = "match" /\ phase' = "done" /\ book' = book /\ fills' = fills
      /\ event' = event /\ orders' = orders /\ pending' = pending
      /\ told' = told /\ filled' = filled /\ withdrawn' = withdrawn /\ horizon' = horizon
    BY DEF Discard, Complete, loopVars, ownVars
<1>2. in \in Order /\ in.remaining \in Nat
    BY <1>1, InvBook, MaxQtyAssumption DEF BInv, Order, Quantity
<1>3. /\ in'.id = in.id /\ in'.side = in.side /\ in'.type = in.type /\ in'.is_ours = in.is_ours
      /\ in.remaining = 0 \/ in.type # "Limit"
    BY <1>2 DEF Discard, Complete, OnCancel, Order
<1>4. Ownership'
    BY <1>1, <1>3 DEF OInv, Ownership, Belongs
<1>5. OnePlace' /\ CancelsFollow'
    <2>1. CancelsFollow'
        BY <1>1 DEF OInv, CancelsFollow
    <2>2. \A id : (Awaited(id)' <=> Awaited(id)) /\ ~Working(id)'
        BY <1>1 DEF Awaited, Working
    <2>3. phase # "idle"
        BY <1>1
    <2> QED
        BY <1>1, <1>3, <2>1, <2>2, <2>3 DEF OInv, OnePlace
<1>6. Accounted'
    <2>1. ASSUME NEW id \in DOMAIN orders
          PROVE  \/ KnownQty(id)' = KnownQty(id)
                 \/ /\ KnownQty(id)' <= KnownQty(id) /\ KnownQty(id)' \in Int
                    /\ id \in withdrawn' \/ orders[id].type # "Limit"
        <3>1. /\ UnroutedQty(id)' = UnroutedQty(id) /\ RestingQty(id)' = RestingQty(id)
              /\ PendingQty(id)' = PendingQty(id) /\ filled'[id] = filled[id]
            BY <1>1 DEF UnroutedQty, LegQty, RestingQty, PendingQty
        <3>2. WorkingQty(id)' = 0 /\ WorkingQty(id) = IF in.id = id THEN in.remaining ELSE 0
            BY <1>1 DEF WorkingQty
        <3>3. /\ RestingQty(id) \in Nat /\ WorkingQty(id) \in Nat /\ PendingQty(id) \in Nat
              /\ UnroutedQty(id) \in Int /\ filled[id] \in Int /\ id \in 1 .. MaxCommands
            BY OwnTypes
        <3>4. KnownQty(id)' = filled[id] + UnroutedQty(id) + (RestingQty(id) + 0 + PendingQty(id))
            BY <3>1, <3>2 DEF KnownQty, OpenQty
        <3>5. KnownQty(id)' <= KnownQty(id) /\ KnownQty(id)' \in Int
            BY <3>3, <3>4 DEF KnownQty, OpenQty
        <3>6. CASE in.id = id /\ in.type # "Limit"
            <4>1. orders[id].type # "Limit"
                BY <1>1, <3>3, <3>6 DEF OInv, Ownership, Belongs
            <4> QED
                BY <3>5, <4>1
        <3>7. CASE in.id # id \/ in.remaining = 0
            <4>1. WorkingQty(id) = 0
                BY <3>2, <3>7
            <4> QED
                BY <3>1, <3>2, <4>1 DEF KnownQty, OpenQty
        <3> QED
            BY <1>3, <3>6, <3>7
    <2> QED
        BY <1>1, <2>1, AccountKept DEF OInv
<1> QED
    BY <1>4, <1>5, <1>6 DEF OInv

LEMMA StepOInv ==
    ASSUME TapeIdsApart, BInv, OInv, [LoopNext]_vars
    PROVE  OInv'
<1>1. CASE \E o \in Submittable, lat \in Latency : SubmitOwn(o, lat)
    BY <1>1, SubmitOwnOInv
<1>2. CASE \E id \in DOMAIN orders, lat \in Latency : CancelOwn(id, lat)
    BY <1>2, CancelOwnOInv
<1>3. CASE \E e \in Tape, gap \in Gaps : NextEvent(e, gap)
    <2>1. PICK e \in Tape, gap \in Gaps : NextEvent(e, gap)
        BY <1>3
    <2>2. event'.id = e.id /\ UNCHANGED <<engineVars, ownVars, told, filled, withdrawn, horizon>>
        BY <2>1 DEF NextEvent
    <2> QED
        BY <2>2, QuietOInv DEF TapeIdsApart
<1>4. CASE EndCallback \/ Flush \/ Drained \/ Stopped \/ UNCHANGED vars
    <2>1. /\ event' = event \/ event' = EndOfTape
          /\ UNCHANGED <<engineVars, ownVars, told, filled, withdrawn, horizon>>
        BY <1>4 DEF EndCallback, Flush, Drained, Stopped, vars, loopVars
    <2>2. event' # EndOfTape => event'.id \notin 1 .. MaxCommands
        BY <2>1 DEF OInv, Ownership
    <2> QED
        BY <2>1, <2>2, QuietOInv
<1>5. CASE DrainCancel \/ DrainOrder \/ OursDone \/ ApplyCancel \/ ApplyOrder \/ TapeDone \/ RouteFill
    BY <1>5, DrainCancelOInv, DrainOrderOInv, DoneOInv, ApplyCancelOInv, ApplyOrderOInv, RouteFillOInv
<1>6. CASE EngineStep
    BY <1>6, TradeOInv, SettleOInv, RestOInv, EndOInv DEF EngineStep
<1> QED
    BY <1>1, <1>2, <1>3, <1>4, <1>5, <1>6 DEF LoopNext, BTStep

LEMMA OwnOrdersInvariant ==
    ASSUME TapeIdsApart
    PROVE  BTSpec => [](BInv /\ OInv)
<1>1. BTInit => OInv
    BY InitOInv
<1>2. BInv /\ OInv /\ [BTNext]_vars => OInv'
    BY LoopCovers, StepOInv
<1> QED
    BY <1>1, <1>2, LoopInvariant, PTL DEF BTSpec

\* Of an own order, what on_fill reported, what rests, what the engine works on
\* and what is in flight add up to its quantity, until it is withdrawn or its
\* remainder discarded; it is never filled for more than it was submitted for.
THEOREM QuantityIsAccountedFor ==
    ASSUME TapeIdsApart
    PROVE  BTSpec => []OwnQuantityAccounted
<1>1. ASSUME BInv, Accounted
      PROVE  OwnQuantityAccounted
    <2> SUFFICES ASSUME told = Len(fills), NEW id \in DOMAIN orders
                 PROVE  LET known == filled[id] + RestingQty(id) + WorkingQty(id) + PendingQty(id)
                        IN  /\ known <= orders[id].qty
                            /\ \/ known = orders[id].qty
                               \/ id \in withdrawn
                               \/ orders[id].type # "Limit"
        BY DEF OwnQuantityAccounted
    <2>1. /\ RestingQty(id) \in Nat /\ WorkingQty(id) \in Nat /\ PendingQty(id) \in Nat
          /\ UnroutedQty(id) = 0 /\ filled[id] \in Int
        BY <1>1, OwnTypes
    <2>2. KnownQty(id) = filled[id] + RestingQty(id) + WorkingQty(id) + PendingQty(id)
        BY <2>1 DEF KnownQty, OpenQty
    <2> QED
        BY <1>1, <2>2 DEF Accounted
<1>2. BInv /\ OInv => OwnQuantityAccounted
    BY <1>1 DEF OInv
<1> QED
    BY <1>2, OwnOrdersInvariant, PTL

\* A cancel that is due with its order or after it always finds it, and what it
\* withdrew neither rests nor waits nor comes back.
THEOREM CancelsStick ==
    ASSUME TapeIdsApart
    PROVE  BTSpec => []CancelSticks
<1>1. ASSUME OnePlace
      PROVE  CancelSticks
    <2> SUFFICES ASSUME NEW id \in withdrawn
                 PROVE  RestingQty(id) + WorkingQty(id) + PendingQty(id) = 0
        BY DEF CancelSticks
    <2>1. ~Awaited(id) /\ ~Working(id) /\ id \notin Resting(book)
        BY <1>1 DEF OnePlace
    <2>2. RestingQty(id) = 0 /\ WorkingQty(id) = 0 /\ PendingQty(id) = 0
        BY <2>1 DEF RestingQty, WorkingQty, PendingQty, Awaited, Working
    <2> QED
        BY <2>2
<1>2. BInv /\ OInv => CancelSticks
    BY <1>1 DEF OInv
<1> QED
    BY <1>2, OwnOrdersInvariant, PTL
=============================================================================
