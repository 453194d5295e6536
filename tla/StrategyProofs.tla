--------------------------- MODULE StrategyProofs ---------------------------
(***************************************************************************)
(* The strategies of the repository in the loop over the engine, for every *)
(* tape and every setting of their parameters.                             *)
(*                                                                         *)
(* A strategy acts through a list of commands that reach the book one by   *)
(* one, later and in any order, so what it knows of its orders is always   *)
(* behind.  The argument is about how far behind: an order can only go on  *)
(* from the heap into the engine and from there to the book, a cancel      *)
(* leaves nothing of its order unless it was due before it, what the two   *)
(* market makers do is one kind of step, a requote, seen from there, and   *)
(* only a decision makes the position and what is still out grow together. *)
(***************************************************************************)
EXTENDS Strategies, HawkesOFIMarketMaker, BacktesterProofs

(***************************************************************************)
(* Hypothesis of the theorems: the orders a strategy makes up are orders   *)
(* the engine takes; its prices lie in Price, finite but of any size.      *)
(***************************************************************************)
OrdersFit == \A i \in DOMAIN todo : todo[i].is_cancel \/ todo[i].order \in Submittable

(***************************************************************************)
(* A step of the loop with any strategy.                                   *)
(***************************************************************************)
MadeUpOrder == [side : Side, type : OrderType, price : Int, qty : Nat \ {0}]

ToDo == [is_cancel : {TRUE}, id : Nat] \cup [is_cancel : {FALSE}, order : MadeUpOrder]

\* Cancels are for ids that were given out.
Addressed(commands) ==
    \A i \in DOMAIN commands : commands[i].is_cancel => commands[i].id \in DOMAIN orders

StrategyStep ==
    \/ \E members, commands, purpose :
          /\ commands \in Seq(ToDo) /\ Addressed(commands)
          /\ OnMarketData(members, commands, purpose)
    \/ \E after : ToldFill(after)
    \/ SLStep

\* Commands wait to be issued only in on_market_data, which has decided on them.
CallbackInv ==
    /\ todo \in Seq(ToDo) /\ Addressed(todo)
    /\ todo # << >> => at = "data" /\ decided
    /\ ~decided => at = "data"

LEMMA HeadOfTodo ==
    ASSUME CallbackInv, todo # << >>
    PROVE  /\ 1 \in DOMAIN todo /\ Head(todo) = todo[1] /\ Head(todo) \in ToDo
           /\ Tail(todo) \in Seq(ToDo) /\ Len(Tail(todo)) = Len(todo) - 1
           /\ \A i \in DOMAIN Tail(todo) : i + 1 \in DOMAIN todo /\ Tail(todo)[i] = todo[i + 1]
           /\ \A i \in DOMAIN todo : i = 1 \/ i - 1 \in DOMAIN Tail(todo)
           /\ Head(todo).is_cancel => Head(todo).id \in DOMAIN orders
           /\ at = "data" /\ decided
<1>1. /\ todo \in Seq(ToDo) /\ at = "data" /\ decided
    BY DEF CallbackInv
<1>2. /\ 1 \in DOMAIN todo /\ Head(todo) = todo[1] /\ Head(todo) \in ToDo
      /\ Tail(todo) \in Seq(ToDo) /\ Len(Tail(todo)) = Len(todo) - 1
      /\ \A i \in DOMAIN Tail(todo) : i + 1 \in DOMAIN todo /\ Tail(todo)[i] = todo[i + 1]
      /\ \A i \in DOMAIN todo : i = 1 \/ i - 1 \in DOMAIN Tail(todo)
    BY <1>1
<1> QED
    BY <1>1, <1>2 DEF CallbackInv, Addressed

\* What Issue does with the first command.
LEMMA IssueCases ==
    ASSUME CallbackInv, OrdersFit, Issue
    PROVE  /\ todo # << >> /\ todo' = Tail(todo) /\ st' = st /\ decided' = decided
           /\ at = "data" /\ decided
           /\ \E lat \in Latency :
                \/ Head(todo).is_cancel /\ Head(todo).id \in DOMAIN orders
                     /\ CancelOwn(Head(todo).id, lat)
                \/ ~Head(todo).is_cancel /\ Head(todo).order \in Submittable
                     /\ SubmitOwn(Head(todo).order, lat)
<1>1. /\ todo # << >> /\ todo' = Tail(todo) /\ st' = st /\ decided' = decided
      /\ \E lat \in Latency : IF Head(todo).is_cancel THEN CancelOwn(Head(todo).id, lat)
                                                      ELSE SubmitOwn(Head(todo).order, lat)
    BY DEF Issue
<1>2. /\ at = "data" /\ decided /\ 1 \in DOMAIN todo /\ Head(todo) = todo[1]
      /\ Head(todo).is_cancel => Head(todo).id \in DOMAIN orders
    BY <1>1, HeadOfTodo
<1>3. ~Head(todo).is_cancel => Head(todo).order \in Submittable
    BY <1>2 DEF OrdersFit
<1> QED
    BY <1>1, <1>2, <1>3

\* A strategy uses the loop as any strategy may.
LEMMA StrategyStepsLoop ==
    ASSUME CallbackInv, OrdersFit, [StrategyStep]_slVars
    PROVE  [LoopNext]_vars
<1>1. CASE \E members, commands, purpose : OnMarketData(members, commands, purpose)
    BY <1>1 DEF OnMarketData
<1>2. CASE \E after : ToldFill(after)
    BY <1>2 DEF ToldFill, LoopNext, BTStep
<1>3. CASE Issue
    BY <1>3, IssueCases DEF LoopNext
<1>4. CASE EventApplied
    BY <1>4 DEF EventApplied, LoopNext, BTStep
<1>5. CASE LoopStep
    BY <1>5 DEF LoopStep, LoopNext, BTStep
<1>6. CASE CancelArrives
    BY <1>6 DEF CancelArrives, LoopNext, BTStep
<1>7. CASE UNCHANGED slVars
    BY <1>7 DEF slVars
<1> QED
    BY <1>1, <1>2, <1>3, <1>4, <1>5, <1>6, <1>7 DEF StrategyStep, SLStep

\* Ids given out stay given out.
LEMMA OrdersGrow ==
    ASSUME BInv, [LoopNext]_vars
    PROVE  /\ DOMAIN orders \subseteq DOMAIN orders'
           /\ \A id \in DOMAIN orders : orders'[id] = orders[id]
           /\ orders' = orders \/ \E o \in Submittable, lat \in Latency : SubmitOwn(o, lat)
<1>1. CASE \E o \in Submittable, lat \in Latency : SubmitOwn(o, lat)
    <2>1. \E r : orders' = Append(orders, r)
        BY <1>1 DEF SubmitOwn
    <2>2. orders \in Seq(OwnOrder)
        BY DEF BInv, LInv, LoopTypes
    <2> QED
        BY <1>1, <2>1, <2>2
<1>2. CASE orders' = orders
    BY <1>2
<1>3. CASE \/ \E id \in DOMAIN orders, lat \in Latency : CancelOwn(id, lat)
           \/ \E e \in Tape, gap \in Gaps : NextEvent(e, gap)
           \/ Stopped \/ UNCHANGED vars
    BY <1>2, <1>3 DEF CancelOwn, NextEvent, Stopped, vars, ownVars
<1>4. CASE BTStep
    BY <1>2, <1>4 DEF BTStep, EndCallback, Flush, DrainCancel, DrainOrder, OursDone, Drained,
                      ApplyCancel, ApplyOrder, TapeDone, RouteFill, EngineStep, ownVars
<1> QED
    BY <1>1, <1>3, <1>4 DEF LoopNext

LEMMA InitCallbackInv ==
    ASSUME NEW members, SLInit(members)
    PROVE  CallbackInv
    BY DEF SLInit, CallbackInv, Addressed

LEMMA StepCallbackInv ==
    ASSUME BInv, CallbackInv, OrdersFit, [StrategyStep]_slVars
    PROVE  CallbackInv'
<1>0. DOMAIN orders \subseteq DOMAIN orders'
    BY StrategyStepsLoop, OrdersGrow
<1>1. CASE \E members, commands, purpose :
              /\ commands \in Seq(ToDo) /\ Addressed(commands)
              /\ OnMarketData(members, commands, purpose)
    <2>1. PICK members, commands, purpose :
              /\ commands \in Seq(ToDo) /\ Addressed(commands)
              /\ OnMarketData(members, commands, purpose)
        BY <1>1
    <2>2. todo' = commands /\ at' = at /\ at = "data" /\ decided' = TRUE /\ orders' = orders
        BY <2>1 DEF OnMarketData, vars, loopVars, ownVars
    <2>3. Addressed(todo)'
        BY <2>1, <2>2 DEF Addressed
    <2> QED
        BY <2>1, <2>2, <2>3 DEF CallbackInv
<1>2. CASE Issue
    <2>1. /\ todo # << >> /\ todo' = Tail(todo) /\ decided' = decided /\ at = "data" /\ decided
          /\ at' = at
        BY <1>2, IssueCases DEF SubmitOwn, CancelOwn, loopVars
    <2>2. \A i \in DOMAIN todo' : i + 1 \in DOMAIN todo /\ todo'[i] = todo[i + 1]
        BY <2>1, HeadOfTodo
    <2>3. Addressed(todo)'
        BY <1>0, <2>2 DEF CallbackInv, Addressed
    <2>4. todo' \in Seq(ToDo)
        BY <2>1, HeadOfTodo
    <2> QED
        BY <2>1, <2>3, <2>4 DEF CallbackInv
<1>3. ASSUME todo' = todo, decided' = decided \/ at' = "data", todo = << >>,
             ~decided' => at' = "data"
      PROVE  CallbackInv'
    BY <1>3 DEF CallbackInv, Addressed
<1>4. CASE \E after : ToldFill(after)
    <2>1. todo' = todo /\ decided' = decided /\ at' = at /\ at # "data"
        BY <1>4 DEF ToldFill, RouteFill, loopVars, BInv, LInv, Control
    <2> QED
        BY <1>3, <2>1 DEF CallbackInv
<1>5. CASE EventApplied
    <2>1. todo' = todo /\ decided' = FALSE /\ at' = "data" /\ at # "data"
        BY <1>5 DEF EventApplied, ApplyCancel, TapeDone
    <2> QED
        BY <1>3, <2>1 DEF CallbackInv
<1>6. CASE LoopStep
    <2>1. todo' = todo /\ decided' = decided
        BY <1>6 DEF LoopStep, stratVars
    <2>2. at # "data" \/ (decided /\ todo = << >>)
        BY <1>6 DEF LoopStep, EndCallback, NextEvent, Flush, DrainOrder, OursDone, Drained,
                    ApplyOrder, EngineStep, Trade, Settle, Rest, Discard, Complete,
                    Stopped, BInv, LInv, Control
    <2>3. decided /\ todo = << >>
        BY <2>2 DEF CallbackInv
    <2> QED
        BY <1>3, <2>1, <2>3
<1>7. CASE CancelArrives
    <2>1. todo' = todo /\ decided' = decided /\ at # "data"
        BY <1>7 DEF CancelArrives, DrainCancel, Due
    <2>2. decided /\ todo = << >>
        BY <2>1 DEF CallbackInv
    <2> QED
        BY <1>3, <2>1, <2>2
<1>8. CASE UNCHANGED slVars
    <2>1. todo' = todo /\ decided' = decided /\ at' = at /\ orders' = orders
        BY <1>8 DEF slVars, stratVars, vars, loopVars, ownVars
    <2> QED
        BY <2>1 DEF CallbackInv, Addressed
<1> QED
    BY <1>1, <1>2, <1>4, <1>5, <1>6, <1>7, <1>8 DEF StrategyStep, SLStep

(***************************************************************************)
(* Time and the heap.                                                      *)
(***************************************************************************)

\* What a step that issues no command does to the heap.
LEMMA TimeGoesOn ==
    ASSUME BInv, [LoopNext]_vars, seq' = seq
    PROVE  /\ orders' = orders /\ next_our_id' = next_our_id
           /\ \/ pending' = pending
              \/ pending # {} /\ pending' = Popped /\ (DrainOrder \/ DrainCancel)
           /\ pending' \subseteq pending
<1>0. seq \in Nat /\ pending \subseteq pending
    BY DEF BInv, LInv, LoopTypes
<1>1. CASE \/ \E o \in Submittable, lat \in Latency : SubmitOwn(o, lat)
           \/ \E id \in DOMAIN orders, lat \in Latency : CancelOwn(id, lat)
    <2>1. seq' = seq + 1
        BY <1>1 DEF SubmitOwn, CancelOwn, Enqueue
    <2> QED
        BY <1>0, <2>1
<1>2. CASE \E e \in Tape, gap \in Gaps : NextEvent(e, gap)
    BY <1>2 DEF NextEvent, ownVars
<1>3. CASE DrainOrder
    BY <1>0, <1>3 DEF DrainOrder, Due, Popped
<1>4. CASE DrainCancel
    BY <1>0, <1>4 DEF DrainCancel, Due, Popped
<1>5. CASE OursDone
    BY <1>5 DEF OursDone, ownVars
<1>6. CASE Stopped \/ UNCHANGED vars
    BY <1>6 DEF Stopped, vars, ownVars
<1>7. CASE \/ EndCallback \/ Flush \/ Drained \/ ApplyCancel \/ ApplyOrder \/ TapeDone
           \/ RouteFill \/ EngineStep
    BY <1>7 DEF EndCallback, Flush, Drained, ApplyCancel, ApplyOrder, TapeDone, RouteFill,
                EngineStep, ownVars
<1> QED
    BY <1>1, <1>2, <1>3, <1>4, <1>5, <1>6, <1>7 DEF LoopNext, BTStep

\* What a command issued from the list brings with it.
LEMMA Issued ==
    ASSUME BInv, CallbackInv, OrdersFit, Issue
    PROVE  /\ seq' = seq + 1 /\ UNCHANGED <<engineVars, loopVars, lost, sent>>
           /\ UNCHANGED <<told, withdrawn, horizon>>
           /\ \E c \in Command :
                /\ pending' = pending \cup {c} /\ c.seq = seq
                /\ c.is_cancel = Head(todo).is_cancel
                /\ IF c.is_cancel
                     THEN c.id = Head(todo).id /\ UNCHANGED <<orders, next_our_id, filled>>
                     ELSE /\ c.id = next_our_id /\ next_our_id' = next_our_id + 1
                          /\ filled' = Append(filled, 0)
                          /\ \E new \in OwnOrder :
                               /\ orders' = Append(orders, new)
                               /\ new.side = Head(todo).order.side
                               /\ new.type = Head(todo).order.type
                               /\ new.price = Head(todo).order.price
                               /\ new.qty = Head(todo).order.qty
<1>1. PICK lat \in Latency :
        \/ Head(todo).is_cancel /\ Head(todo).id \in DOMAIN orders /\ CancelOwn(Head(todo).id, lat)
        \/ ~Head(todo).is_cancel /\ Head(todo).order \in Submittable
             /\ SubmitOwn(Head(todo).order, lat)
    BY IssueCases
<1>2. lat \in Nat /\ lost' = lost /\ sent' = sent
    BY LatencyType DEF Issue
<1>3. at = "data" /\ todo # << >> /\ Head(todo) \in ToDo
    BY IssueCases, HeadOfTodo
<1>4. clock \in Nat /\ seq \in Nat /\ next_our_id \in Nat /\ DOMAIN orders \subseteq Nat
    BY OwnIds DEF BInv, LInv, LoopTypes
<1>5. CASE Head(todo).is_cancel /\ Head(todo).id \in DOMAIN orders
             /\ CancelOwn(Head(todo).id, lat)
    <2> DEFINE c == [ts |-> clock + lat, seq |-> seq, is_cancel |-> TRUE, id |-> Head(todo).id]
    <2>1. c \in Command /\ c.is_cancel = TRUE /\ c.id = Head(todo).id /\ c.seq = seq
        BY <1>2, <1>4, <1>5 DEF Command
    <2>2. Head(todo).is_cancel = TRUE
        BY <1>3, <1>5 DEF ToDo
    <2>3. /\ pending' = pending \cup {c} /\ seq' = seq + 1
          /\ UNCHANGED <<engineVars, loopVars, next_our_id, orders, told, filled, withdrawn, horizon>>
        BY <1>5 DEF CancelOwn, Enqueue
    <2> HIDE DEF c
    <2> QED
        BY <1>2, <2>1, <2>2, <2>3
<1>6. CASE ~Head(todo).is_cancel /\ Head(todo).order \in Submittable
             /\ SubmitOwn(Head(todo).order, lat)
    <2> DEFINE c == [ts |-> clock + lat, seq |-> seq, is_cancel |-> FALSE, id |-> next_our_id]
               o == Head(todo).order
               new == [side |-> o.side, type |-> o.type, price |-> o.price,
                       qty |-> o.qty, ts_active |-> clock + lat]
    <2>1. c \in Command /\ c.is_cancel = FALSE /\ c.id = next_our_id /\ c.seq = seq
        BY <1>2, <1>4 DEF Command
    <2>2. Head(todo).is_cancel = FALSE
        BY <1>3, <1>6 DEF ToDo
    <2>3. /\ pending' = pending \cup {c} /\ seq' = seq + 1
          /\ next_our_id' = next_our_id + 1 /\ filled' = Append(filled, 0)
          /\ orders' = Append(orders, new)
          /\ UNCHANGED <<engineVars, loopVars, told, withdrawn, horizon>>
        BY <1>6 DEF SubmitOwn, Enqueue
    <2>4. /\ new \in OwnOrder /\ new.side = o.side /\ new.type = o.type
          /\ new.price = o.price /\ new.qty = o.qty
        BY <1>2, <1>4, <1>6 DEF OwnOrder, Submittable
    <2> HIDE DEF c, o, new
    <2> QED
        BY <1>2, <2>1, <2>2, <2>3, <2>4 DEF o
<1> QED
    BY <1>1, <1>5, <1>6

LEMMA NothingIssued ==
    ASSUME BInv, [StrategyStep]_slVars, ~Issue
    PROVE  seq' = seq
<1>1. CASE \E members, commands, purpose : OnMarketData(members, commands, purpose)
    BY <1>1 DEF OnMarketData, vars, ownVars
<1>2. CASE \E after : ToldFill(after)
    BY <1>2 DEF ToldFill, RouteFill, ownVars
<1>3. CASE EventApplied
    BY <1>3 DEF EventApplied, ApplyCancel, TapeDone, ownVars
<1>4. CASE LoopStep
    BY <1>4 DEF LoopStep, EndCallback, NextEvent, Flush, DrainOrder, OursDone,
                Drained, ApplyOrder, EngineStep, Stopped, vars, ownVars
<1>5. CASE CancelArrives
    BY <1>5 DEF CancelArrives, DrainCancel, ownVars
<1>6. CASE UNCHANGED slVars
    BY <1>6 DEF slVars, vars, ownVars
<1> QED
    BY <1>1, <1>2, <1>3, <1>4, <1>5, <1>6 DEF StrategyStep, SLStep

\* What a step that issues nothing does to the heap and to the lost cancels.
LEMMA HeapSteps ==
    ASSUME [StrategyStep]_slVars, ~Issue
    PROVE  \/ pending' = pending /\ lost' = lost
           \/ DrainOrder /\ lost' = lost
           \/ CancelArrives
<1>1. CASE \E members, commands, purpose : OnMarketData(members, commands, purpose)
    BY <1>1 DEF OnMarketData, vars, ownVars
<1>2. CASE \E after : ToldFill(after)
    BY <1>2 DEF ToldFill, RouteFill, ownVars
<1>3. CASE EventApplied
    BY <1>3 DEF EventApplied, ApplyCancel, TapeDone, ownVars
<1>4. CASE LoopStep
    BY <1>4 DEF LoopStep, stratVars, EndCallback, NextEvent, Flush, OursDone, Drained,
                ApplyOrder, EngineStep, Stopped, vars, ownVars
<1>5. CASE UNCHANGED slVars
    BY <1>5 DEF slVars, stratVars, vars, ownVars
<1> QED
    BY <1>1, <1>2, <1>3, <1>4, <1>5 DEF StrategyStep, SLStep


(***************************************************************************)
(* Where an own order can be: on its way, in the engine, on the book.  It  *)
(* goes on in that order, and only issuing a command can start it.         *)
(***************************************************************************)
Outstanding(id) == Awaited(id) \/ Working(id) \/ id \in Resting(book)

SameEntry(id) == id \in Resting(book) /\ book'.index[id] = book.index[id]

\* From the engine to the book, at the order's price.
Rested(id) ==
    /\ Working(id) /\ ~Working(id)' /\ Rest
    /\ book'.index[id].side = in.side /\ book'.index[id].price = in.price

Passes(id) ==
    /\ Awaited(id)' => Awaited(id)
    /\ Awaited(id) => Awaited(id)' \/ (DrainOrder /\ id = Top.id)
    /\ Working(id)' => \/ Working(id) /\ in'.id = in.id /\ phase # "idle"
                       \/ DrainOrder /\ id = Top.id /\ Awaited(id) /\ ~Awaited(id)'
    /\ id \in Resting(book)' => SameEntry(id) \/ Rested(id)

\* Popping a command takes at most the submission of its own order away.
LEMMA PoppedPasses ==
    ASSUME BInv, OInv, pending # {}, pending' = Popped, NEW id
    PROVE  /\ Awaited(id)' => Awaited(id)
           /\ Awaited(id) => Awaited(id)' \/ (~Top.is_cancel /\ id = Top.id)
<1>1. PICK k : k = Top.id
    OBVIOUS
<1>2. Top.is_cancel => (Awaited(id)' <=> Awaited(id))
    BY <1>1, PoppedAwaited
<1>3. ~Top.is_cancel => /\ Awaited(k) /\ ~Awaited(k)'
                        /\ id # k => (Awaited(id)' <=> Awaited(id))
    BY <1>1, PoppedAwaited
<1> QED
    BY <1>1, <1>2, <1>3

LEMMA Passage ==
    ASSUME BInv, OInv, [LoopNext]_vars, seq' = seq, NEW id \in DOMAIN orders
    PROVE  Passes(id)
<1>0. /\ LInv /\ IInv /\ WellFormed(book) /\ id \in 1 .. MaxCommands
      /\ pending' = pending => (Awaited(id)' <=> Awaited(id))
    BY OwnTypes DEF BInv, IInv, TypeOK, BookIndexed, BookTotals, NothingSpentRests, WellFormed,
                    Awaited
<1>1. CASE \/ \E o \in Submittable, lat \in Latency : SubmitOwn(o, lat)
           \/ \E k \in DOMAIN orders, lat \in Latency : CancelOwn(k, lat)
    <2>1. seq' = seq + 1 /\ seq \in Nat
        BY <1>0, <1>1 DEF SubmitOwn, CancelOwn, Enqueue, LInv, LoopTypes
    <2> QED
        BY <2>1
<1>2. CASE DrainCancel
    <2>1. PICK k : k = Top.id
        OBVIOUS
    <2>2. /\ pending # {} /\ pending' = Popped /\ Top.is_cancel
          /\ phase = "idle" /\ phase' = "idle" /\ book' = CancelOrder(book, k)
        BY <1>2, <2>1 DEF DrainCancel, Due, Cancel
    <2>3. ~Working(id)'
        BY <2>2 DEF Working
    <2>4. id \in Resting(book)' => SameEntry(id)
        BY <1>0, <2>2, CancelEntries DEF SameEntry
    <2> QED
        BY <2>2, <2>3, <2>4, PoppedPasses DEF Passes
<1>3. CASE DrainOrder
    <2>1. PICK k : k = Top.id
        OBVIOUS
    <2>2. /\ pending # {} /\ pending' = Popped /\ ~Top.is_cancel
          /\ Submit(OwnSubmission(k))
        BY <1>3, <2>1 DEF DrainOrder, Due
    <2>3. book' = book /\ in'.id = k
        BY <2>2 DEF Submit, OnAccept, OnReject, OwnSubmission
    <2>4. Awaited(k) /\ ~Awaited(k)'
        BY <2>1, <2>2, PoppedAwaited
    <2>5. Working(id)' => id = k
        BY <2>3 DEF Working
    <2>6. id \in Resting(book)' => SameEntry(id)
        BY <2>3 DEF SameEntry
    <2> QED
        BY <1>3, <2>1, <2>2, <2>4, <2>5, <2>6, PoppedPasses DEF Passes
<1>4. CASE ApplyCancel
    <2>1. PICK k : k = event.id
        OBVIOUS
    <2>2. /\ pending' = pending
          /\ phase = "idle" /\ phase' = "idle" /\ book' = CancelOrder(book, k)
        BY <1>4, <2>1 DEF ApplyCancel, Cancel, ownVars
    <2>3. ~Working(id)'
        BY <2>2 DEF Working
    <2>4. id \in Resting(book)' => SameEntry(id)
        BY <1>0, <2>2, CancelEntries DEF SameEntry
    <2> QED
        BY <1>0, <2>2, <2>3, <2>4 DEF Passes
<1>5. CASE ApplyOrder
    <2>1. /\ pending' = pending /\ book' = book /\ in'.id = event.id /\ at = "event"
        BY <1>5 DEF ApplyOrder, Submit, OnAccept, OnReject, ownVars
    <2>2. event.id \notin 1 .. MaxCommands
        BY <1>0, <2>1 DEF LInv, Control, OInv, Ownership
    <2>3. ~Working(id)'
        BY <1>0, <2>1, <2>2 DEF Working
    <2> QED
        BY <1>0, <2>1, <2>3 DEF Passes, SameEntry
<1>6. CASE EngineStep
    <2>1. pending' = pending
        BY <1>6 DEF EngineStep, ownVars
    <2>2. CASE Trade
        <3>1. PICK r \in RestingOrder, n \in Nat, x \in Fill, y \in Fill :
                /\ Resting(book') = Resting(book) /\ book'.index = book.index /\ in'.id = in.id
            BY <1>0, <2>2, TradeFacts
        <3>2. phase = "match"
            BY <2>2 DEF Trade
        <3> QED
            BY <1>0, <2>1, <3>1, <3>2 DEF Passes, SameEntry, Working
    <2>3. CASE Settle
        <3>1. in' = in /\ phase = "traded"
            BY <2>3 DEF Settle
        <3>2. id \in Resting(book)' => SameEntry(id)
            BY <1>0, <2>3, SettleEntries DEF SameEntry
        <3> QED
            BY <1>0, <2>1, <3>1, <3>2 DEF Passes, Working
    <2>4. CASE Rest
        <3>1. /\ phase = "match" /\ phase' = "done" /\ in' = in
              /\ book' = Insert(book, in) /\ in \in Order
            BY <1>0, <2>4 DEF Rest, IInv, TypeOK
        <3>2. ~Working(id)'
            BY <3>1 DEF Working
        <3>3. CASE in.id \in Resting(book)
            <4>1. book' = book
                BY <3>1, <3>3 DEF Insert
            <4> QED
                BY <1>0, <2>1, <3>2, <4>1 DEF Passes, SameEntry
        <3>4. CASE in.id \notin Resting(book)
            <4>1. /\ Resting(book') = Resting(book) \cup {in.id}
                  /\ \A k \in Resting(book) : book'.index[k] = book.index[k]
                BY <1>0, <3>1, <3>4, InsertEntries
            <4>2. book'.index[in.id] = [side |-> in.side, price |-> in.price]
                BY <3>1, <3>4 DEF Insert, InsertInto
            <4>3. id \in Resting(book)' /\ id \notin Resting(book) => Rested(id)
                BY <2>4, <3>1, <3>2, <4>1, <4>2 DEF Rested, Working
            <4> QED
                BY <1>0, <2>1, <3>2, <4>1, <4>3 DEF Passes, SameEntry
        <3> QED
            BY <3>3, <3>4
    <2>5. CASE Discard \/ Complete
        <3>1. book' = book /\ phase' = "done"
            BY <2>5 DEF Discard, Complete
        <3> QED
            BY <1>0, <2>1, <3>1 DEF Passes, SameEntry, Working
    <2> QED
        BY <1>6, <2>2, <2>3, <2>4, <2>5 DEF EngineStep
<1>7. CASE OursDone \/ TapeDone
    <2>1. pending' = pending /\ book' = book /\ phase' = "idle"
        BY <1>7 DEF OursDone, TapeDone, Return, ownVars
    <2> QED
        BY <1>0, <2>1 DEF Passes, SameEntry, Working
<1>8. CASE \/ \E e \in Tape, gap \in Gaps : NextEvent(e, gap)
           \/ EndCallback \/ Flush \/ Drained \/ RouteFill \/ Stopped \/ UNCHANGED vars
    <2>1. UNCHANGED <<engineVars, pending>>
        BY <1>8 DEF NextEvent, EndCallback, Flush, Drained, RouteFill, Stopped, vars, ownVars
    <2>2. pending' = pending /\ book' = book /\ phase' = phase /\ in' = in
        BY <2>1 DEF engineVars
    <2>3. Working(id)' => Working(id) /\ phase # "idle"
        BY <2>2 DEF Working
    <2> QED
        BY <1>0, <2>2, <2>3 DEF Passes, SameEntry
<1> QED
    BY <1>1, <1>2, <1>3, <1>4, <1>5, <1>6, <1>7, <1>8 DEF LoopNext, BTStep

\* No step but issuing makes an order outstanding.
LEMMA OutstandingShrinks ==
    ASSUME BInv, OInv, [LoopNext]_vars, seq' = seq, NEW id \in DOMAIN orders
    PROVE  Outstanding(id)' => Outstanding(id)
    BY Passage DEF Passes, Outstanding, SameEntry, Rested

(***************************************************************************)
(* The commands of a requote: cancels of the quotes remembered, then at    *)
(* most one bid, then at most one ask.                                     *)
(***************************************************************************)
IsPlace(c, s) == ~c.is_cancel /\ c.order.side = s

HasPlace(s) == \E i \in DOMAIN todo : IsPlace(todo[i], s)

WithdrawalDue(id) == \E i \in DOMAIN todo : todo[i].is_cancel /\ todo[i].id = id

BidFirst(list) ==
    \A i, j \in DOMAIN list :
        i < j /\ ~list[i].is_cancel => IsPlace(list[i], "Buy") /\ IsPlace(list[j], "Sell")

LimitsOf(list, n) ==
    \A i \in DOMAIN list :
        ~list[i].is_cancel => list[i].order.type = "Limit" /\ list[i].order.qty = n

LEMMA ConcatElements ==
    ASSUME NEW S, NEW q \in Seq(S), NEW t \in Seq(S), NEW u, u = q \o t
    PROVE  /\ u \in Seq(S)
           /\ \A i \in DOMAIN u :
                 \/ i \in DOMAIN q /\ u[i] = q[i]
                 \/ /\ i - Len(q) \in DOMAIN t /\ u[i] = t[i - Len(q)]
                    /\ \A k \in DOMAIN q : k < i
           /\ \A i \in DOMAIN q : i \in DOMAIN u /\ u[i] = q[i]
           /\ \A i \in DOMAIN t : i + Len(q) \in DOMAIN u /\ u[i + Len(q)] = t[i]
    OBVIOUS

OnlyCancels(list, ids) ==
    /\ list \in Seq(ToDo)
    /\ \A i \in DOMAIN list : list[i].is_cancel /\ list[i].id \in ids
    /\ \A id \in ids : \E i \in DOMAIN list : list[i].id = id

LEMMA Withdrawals ==
    ASSUME NEW id \in Nat
    PROVE  OnlyCancels(Withdraw(id), {id} \ {0})
<1> DEFINE c == [is_cancel |-> TRUE, id |-> id]
<1>1. c \in ToDo /\ c.is_cancel /\ c.id = id
    BY DEF ToDo
<1>2. Withdraw(id) = IF id = 0 THEN << >> ELSE <<c>>
    BY DEF Withdraw
<1> HIDE DEF c
<1>3. CASE id = 0
    BY <1>2, <1>3 DEF OnlyCancels
<1>4. CASE id # 0
    <2>1. Withdraw(id) = <<c>> /\ <<c>> \in Seq(ToDo) /\ DOMAIN <<c>> = {1} /\ <<c>>[1] = c
        BY <1>1, <1>2, <1>4
    <2> QED
        BY <1>1, <1>4, <2>1 DEF OnlyCancels
<1> QED
    BY <1>3, <1>4

OnlyPlace(list, s, type, p, n) ==
    /\ list \in Seq(ToDo) /\ DOMAIN list \subseteq {1}
    /\ \A i \in DOMAIN list :
         /\ n # 0 /\ IsPlace(list[i], s)
         /\ list[i].order.type = type /\ list[i].order.price = p /\ list[i].order.qty = n
    /\ n # 0 => 1 \in DOMAIN list

LEMMA Placements ==
    ASSUME NEW s \in Side, NEW p \in Int, NEW n \in Nat, NEW type \in OrderType
    PROVE  OnlyPlace(Place(s, type, p, n), s, type, p, n)
<1> DEFINE c == [is_cancel |-> FALSE,
                 order |-> [side |-> s, type |-> type, price |-> p, qty |-> n]]
<1>1. /\ n # 0 => c \in ToDo
      /\ ~c.is_cancel /\ c.order.side = s /\ c.order.type = type
      /\ c.order.price = p /\ c.order.qty = n
    BY DEF ToDo, MadeUpOrder
<1>2. Place(s, type, p, n) = IF n = 0 THEN << >> ELSE <<c>>
    BY DEF Place
<1> HIDE DEF c
<1> QED
    BY <1>1, <1>2 DEF OnlyPlace, IsPlace

LEMMA CancelsJoined ==
    ASSUME NEW X, NEW Y, NEW q, OnlyCancels(q, X), NEW t, OnlyCancels(t, Y)
    PROVE  OnlyCancels(q \o t, X \cup Y)
<1>0. q \in Seq(ToDo) /\ t \in Seq(ToDo)
    BY DEF OnlyCancels
<1>1. PICK u : u = q \o t
    OBVIOUS
<1>2. /\ u \in Seq(ToDo)
      /\ \A i \in DOMAIN u : \/ i \in DOMAIN q /\ u[i] = q[i]
                             \/ i - Len(q) \in DOMAIN t /\ u[i] = t[i - Len(q)]
      /\ \A i \in DOMAIN q : i \in DOMAIN u /\ u[i] = q[i]
      /\ \A i \in DOMAIN t : i + Len(q) \in DOMAIN u /\ u[i + Len(q)] = t[i]
    BY <1>0, <1>1, ConcatElements
<1>3. \A i \in DOMAIN u : u[i].is_cancel /\ u[i].id \in X \cup Y
    BY <1>2 DEF OnlyCancels
<1>4. ASSUME NEW id \in X PROVE \E i \in DOMAIN u : u[i].id = id
    <2>1. PICK i \in DOMAIN q : q[i].id = id
        BY DEF OnlyCancels
    <2> QED
        BY <1>2, <2>1
<1>5. ASSUME NEW id \in Y PROVE \E i \in DOMAIN u : u[i].id = id
    <2>1. PICK i \in DOMAIN t : t[i].id = id
        BY DEF OnlyCancels
    <2>2. i + Len(q) \in DOMAIN u /\ u[i + Len(q)] = t[i]
        BY <1>2
    <2> QED
        BY <2>1, <2>2
<1> QED
    BY <1>1, <1>2, <1>3, <1>4, <1>5 DEF OnlyCancels

Requoting(x, y, pb, nb, pa, na) ==
    Withdraw(x) \o Withdraw(y) \o Place("Buy", "Limit", pb, nb) \o Place("Sell", "Limit", pa, na)

\* The list, in terms of its elements.
RequoteOf(list, ids, n, pb, nb, pa, na) ==
    /\ list \in Seq(ToDo) /\ BidFirst(list) /\ LimitsOf(list, n)
    /\ \A i \in DOMAIN list : list[i].is_cancel => list[i].id \in ids
    /\ \A id \in ids : \E i \in DOMAIN list : list[i].is_cancel /\ list[i].id = id
    /\ \A i \in DOMAIN list : IsPlace(list[i], "Buy") => nb # 0 /\ list[i].order.price = pb
    /\ \A i \in DOMAIN list : IsPlace(list[i], "Sell") => na # 0 /\ list[i].order.price = pa
    /\ nb # 0 => \E i \in DOMAIN list : IsPlace(list[i], "Buy")
    /\ na # 0 => \E i \in DOMAIN list : IsPlace(list[i], "Sell")

LEMMA RequoteList ==
    ASSUME NEW x \in Nat, NEW y \in Nat, NEW pb \in Int, NEW pa \in Int, NEW n \in Nat,
           NEW nb, nb \in {0, n}, NEW na, na \in {0, n}
    PROVE  RequoteOf(Requoting(x, y, pb, nb, pa, na), {x, y} \ {0}, n, pb, nb, pa, na)
<1>1. PICK w : w = Withdraw(x) \o Withdraw(y)
    OBVIOUS
<1>2. PICK bid : bid = Place("Buy", "Limit", pb, nb)
    OBVIOUS
<1>3. PICK ask : ask = Place("Sell", "Limit", pa, na)
    OBVIOUS
<1>4. PICK wb : wb = w \o bid
    OBVIOUS
<1>5. PICK list : list = wb \o ask
    OBVIOUS
<1>6. PICK ids : ids = {x, y} \ {0}
    OBVIOUS
<1>7. OnlyCancels(w, ids)
    <2>1. OnlyCancels(w, ({x} \ {0}) \cup ({y} \ {0}))
        BY <1>1, Withdrawals, CancelsJoined
    <2>2. ({x} \ {0}) \cup ({y} \ {0}) = ids
        BY <1>6
    <2> QED
        BY <2>1, <2>2
<1>8. nb \in Nat /\ na \in Nat
    OBVIOUS
<1>9. OnlyPlace(bid, "Buy", "Limit", pb, nb) /\ OnlyPlace(ask, "Sell", "Limit", pa, na)
    BY <1>2, <1>3, <1>8, Placements DEF Side, OrderType
<1>10. /\ wb \in Seq(ToDo)
       /\ \A i \in DOMAIN wb : \/ i \in DOMAIN w /\ wb[i] = w[i]
                               \/ i - Len(w) = 1 /\ 1 \in DOMAIN bid /\ wb[i] = bid[1]
       /\ \A i \in DOMAIN w : i \in DOMAIN wb /\ wb[i] = w[i]
       /\ \A i \in DOMAIN bid : i + Len(w) \in DOMAIN wb /\ wb[i + Len(w)] = bid[i]
    <2>1. w \in Seq(ToDo) /\ bid \in Seq(ToDo) /\ DOMAIN bid \subseteq {1}
        BY <1>7, <1>9 DEF OnlyCancels, OnlyPlace
    <2> QED
        BY <1>4, <2>1, ConcatElements
<1>11. /\ list \in Seq(ToDo)
       /\ \A i \in DOMAIN list : \/ i \in DOMAIN wb /\ list[i] = wb[i]
                                 \/ i - Len(wb) = 1 /\ 1 \in DOMAIN ask /\ list[i] = ask[1]
       /\ \A i \in DOMAIN wb : i \in DOMAIN list /\ list[i] = wb[i]
       /\ \A i \in DOMAIN ask : i + Len(wb) \in DOMAIN list /\ list[i + Len(wb)] = ask[i]
    <2>1. ask \in Seq(ToDo) /\ DOMAIN ask \subseteq {1}
        BY <1>9 DEF OnlyPlace
    <2> QED
        BY <1>5, <1>10, <2>1, ConcatElements
<1>12. /\ \A i \in DOMAIN w : w[i].is_cancel /\ w[i].id \in ids
       /\ \A id \in ids : \E i \in DOMAIN w : w[i].id = id
       /\ w \in Seq(ToDo) /\ bid \in Seq(ToDo) /\ ask \in Seq(ToDo)
       /\ DOMAIN bid \subseteq {1} /\ DOMAIN ask \subseteq {1}
    BY <1>7, <1>9 DEF OnlyCancels, OnlyPlace
<1>13. /\ 1 \in DOMAIN bid =>
            /\ nb = n /\ nb # 0 /\ ~bid[1].is_cancel /\ bid[1].order.side = "Buy"
            /\ bid[1].order.type = "Limit" /\ bid[1].order.price = pb /\ bid[1].order.qty = n
       /\ 1 \in DOMAIN ask =>
            /\ na = n /\ na # 0 /\ ~ask[1].is_cancel /\ ask[1].order.side = "Sell"
            /\ ask[1].order.type = "Limit" /\ ask[1].order.price = pa /\ ask[1].order.qty = n
       /\ nb # 0 => 1 \in DOMAIN bid
       /\ na # 0 => 1 \in DOMAIN ask
    BY <1>9 DEF OnlyPlace, IsPlace
<1>14. \A i \in DOMAIN list :
         \/ i \in DOMAIN w /\ list[i] = w[i]
         \/ i = Len(w) + 1 /\ 1 \in DOMAIN bid /\ list[i] = bid[1]
         \/ i = Len(wb) + 1 /\ 1 \in DOMAIN ask /\ list[i] = ask[1]
    <2>1. Len(w) \in Nat /\ Len(wb) \in Nat /\ DOMAIN list \subseteq Int
        BY <1>10, <1>11, <1>12
    <2> QED
        BY <1>10, <1>11, <2>1
<1>15. /\ DOMAIN w = 1 .. Len(w) /\ Len(w) \in Nat /\ Len(wb) \in Nat
       /\ Len(wb) >= Len(w) /\ (1 \in DOMAIN bid => Len(wb) = Len(w) + 1)
    BY <1>4, <1>12
<1>16. BidFirst(list)
    <2> SUFFICES ASSUME NEW i \in DOMAIN list, NEW j \in DOMAIN list, i < j, ~list[i].is_cancel
                 PROVE  IsPlace(list[i], "Buy") /\ IsPlace(list[j], "Sell")
        BY DEF BidFirst
    <2>1. \/ i = Len(w) + 1 /\ 1 \in DOMAIN bid /\ list[i] = bid[1]
          \/ i = Len(wb) + 1 /\ 1 \in DOMAIN ask /\ list[i] = ask[1]
        BY <1>12, <1>14
    <2>2. \/ j \in 1 .. Len(w)
          \/ j = Len(w) + 1
          \/ j = Len(wb) + 1 /\ 1 \in DOMAIN ask /\ list[j] = ask[1]
        BY <1>14, <1>15
    <2>3. i = Len(w) + 1 /\ j = Len(wb) + 1 /\ i # j
        BY <1>15, <2>1, <2>2
    <2>4. list[i] = bid[1] /\ 1 \in DOMAIN bid /\ list[j] = ask[1] /\ 1 \in DOMAIN ask
        BY <1>15, <2>1, <2>2, <2>3
    <2> QED
        BY <1>13, <2>4 DEF IsPlace
<1>17. LimitsOf(list, n)
    BY <1>12, <1>13, <1>14 DEF LimitsOf
<1>18. /\ \A i \in DOMAIN list : list[i].is_cancel => list[i].id \in ids
       /\ \A i \in DOMAIN list : IsPlace(list[i], "Buy") => nb # 0 /\ list[i].order.price = pb
       /\ \A i \in DOMAIN list : IsPlace(list[i], "Sell") => na # 0 /\ list[i].order.price = pa
    BY <1>12, <1>13, <1>14 DEF IsPlace
<1>19. \A id \in ids : \E i \in DOMAIN list : list[i].is_cancel /\ list[i].id = id
    BY <1>10, <1>11, <1>12
<1>20. nb # 0 => \E i \in DOMAIN list : IsPlace(list[i], "Buy")
    <2>1. nb # 0 => /\ 1 + Len(w) \in DOMAIN list /\ list[1 + Len(w)] = bid[1] /\ 1 \in DOMAIN bid
        BY <1>10, <1>11, <1>13
    <2> QED
        BY <1>13, <2>1 DEF IsPlace
<1>21. na # 0 => \E i \in DOMAIN list : IsPlace(list[i], "Sell")
    <2>1. na # 0 => /\ 1 + Len(wb) \in DOMAIN list /\ list[1 + Len(wb)] = ask[1] /\ 1 \in DOMAIN ask
        BY <1>11, <1>13
    <2> QED
        BY <1>13, <2>1 DEF IsPlace
<1>22. RequoteOf(list, ids, n, pb, nb, pa, na)
    BY <1>11, <1>16, <1>17, <1>18, <1>19, <1>20, <1>21 DEF RequoteOf
<1> QED
    BY <1>1, <1>2, <1>3, <1>4, <1>5, <1>6, <1>22 DEF Requoting

(***************************************************************************)
(* The step of a market maker, as far as its orders are concerned.         *)
(* forgets: on_fill forgets the quote that was filled; n: the size of its  *)
(* quotes; apart: its bid is placed below its ask.                         *)
(***************************************************************************)
Requote(pb, nb, pa, na) ==
    \E m : /\ OnMarketData(m, Requoting(st.bid_id, st.ask_id, pb, nb, pa, na), "quote")
           /\ m.bid_id = IF nb = 0 THEN 0 ELSE next_our_id
           /\ m.ask_id = IF na = 0 THEN 0 ELSE IF nb = 0 THEN next_our_id ELSE next_our_id + 1

Remembers(m, forgets) ==
    /\ m.bid_id = IF forgets /\ st.bid_id = NextFill.order_id THEN 0 ELSE st.bid_id
    /\ m.ask_id = IF forgets /\ st.ask_id = NextFill.order_id THEN 0 ELSE st.ask_id

QuoteStep(forgets, n, apart) ==
    \/ OnMarketData(st, << >>, "none")
    \/ \E pb, pa \in Int, nb, na \in {0, n} : Requote(pb, nb, pa, na) /\ (apart => pb < pa)
    \/ \E m : ToldFill(m) /\ Remembers(m, forgets)
    \/ SLStep

\* The ids it remembers are ids it was given or, while its new quotes wait to be
\* issued, the ids they are going to get.
QuoteIds ==
    /\ st.bid_id \in Nat /\ st.ask_id \in Nat
    /\ IF HasPlace("Buy") THEN st.bid_id = next_our_id ELSE st.bid_id < next_our_id
    /\ IF HasPlace("Sell")
         THEN st.ask_id = IF HasPlace("Buy") THEN next_our_id + 1 ELSE next_our_id
         ELSE st.ask_id < next_our_id
    /\ HasPlace("Buy") /\ ~HasPlace("Sell") => st.ask_id = 0
    /\ st.bid_id \in DOMAIN orders => orders[st.bid_id].side = "Buy"
    /\ st.ask_id \in DOMAIN orders => orders[st.ask_id].side = "Sell"

OwnAre(n) == \A id \in DOMAIN orders : orders[id].type = "Limit" /\ orders[id].qty = n

Quoted == {st.bid_id, st.ask_id}

\* No cancel is out, or was lost, for an id it remembers.
Fresh == \A id \in Quoted : ~Recalled(id) /\ ~WithdrawalDue(id)

\* No order of its own is out that it neither remembers nor has recalled,
\* except one it forgot at a fill.
Tracked(forgets) ==
    \A id \in DOMAIN orders :
        Outstanding(id) => \/ id \in Quoted \/ Recalled(id) \/ WithdrawalDue(id)
                           \/ forgets /\ filled[id] > 0

FilledNat == \A id \in DOMAIN orders : filled[id] \in Nat

QInv(forgets, n) ==
    /\ BidFirst(todo) /\ LimitsOf(todo, n)
    /\ QuoteIds /\ OwnAre(n) /\ Fresh /\ Tracked(forgets) /\ FilledNat

\* Orders are for something, and only cancels of orders are lost.
Given == (\A id \in DOMAIN orders : orders[id].qty \in Nat \ {0}) /\ lost \subseteq DOMAIN orders

\* What holds of any strategy.
SBase == BInv /\ OInv /\ LastTrade /\ CallbackInv /\ Given

LEMMA InitSBase ==
    ASSUME NEW members, SLInit(members)
    PROVE  SBase
<1>1. BTInit /\ phase = "idle" /\ orders = << >> /\ lost = {}
    BY DEF SLInit, BTInit, Init
<1> QED
    BY <1>1, InitBInv, InitOInv, InitCallbackInv DEF SBase, Given, LastTrade

LEMMA StepGiven ==
    ASSUME BInv, CallbackInv, OrdersFit, Given, [StrategyStep]_slVars
    PROVE  Given'
<1>1. CASE Issue
    <2>1. lost' = lost /\ Head(todo) \in ToDo
        BY <1>1, Issued, IssueCases, HeadOfTodo
    <2>2. CASE orders' = orders
        BY <2>1, <2>2 DEF Given
    <2>3. CASE orders' # orders
        <3>1. PICK new \in OwnOrder :
                orders' = Append(orders, new) /\ new.qty = Head(todo).order.qty
            BY <1>1, <2>3, Issued
        <3>2. ~Head(todo).is_cancel
            BY <1>1, <2>3, Issued
        <3>3. new.qty \in Nat \ {0}
            BY <2>1, <3>1, <3>2 DEF ToDo, MadeUpOrder
        <3>4. orders \in Seq(OwnOrder)
            BY DEF BInv, LInv, LoopTypes
        <3>5. /\ DOMAIN orders' = DOMAIN orders \cup {Len(orders) + 1}
              /\ \A id \in DOMAIN orders : orders'[id] = orders[id]
              /\ orders'[Len(orders) + 1] = new
            BY <3>1, <3>4
        <3> QED
            BY <2>1, <3>3, <3>5 DEF Given
    <2> QED
        BY <2>2, <2>3
<1>2. CASE ~Issue
    <2>1. orders' = orders
        BY <1>2, NothingIssued, StrategyStepsLoop, TimeGoesOn
    <2>2. lost' = lost \/ (lost' \subseteq lost \cup {Top.id} /\ Top \in pending)
        <3>1. CASE CancelArrives
            <4>1. pending # {}
                BY <3>1 DEF CancelArrives, DrainCancel, Due
            <4> QED
                BY <3>1, <4>1, TopIsFirst DEF CancelArrives, BInv, LInv
        <3> QED
            BY <1>2, <3>1, HeapSteps
    <2>3. \A p \in pending : p.id \in DOMAIN orders
        BY DEF BInv, LInv, InFlight
    <2> QED
        BY <2>1, <2>2, <2>3 DEF Given
<1> QED
    BY <1>1, <1>2

LEMMA StepSBase ==
    ASSUME TapeIdsApart, SBase, OrdersFit, [StrategyStep]_slVars
    PROVE  SBase'
<1>1. BInv /\ IInv /\ OInv /\ LastTrade /\ CallbackInv /\ Given
    BY DEF SBase, BInv
<1>2. [LoopNext]_vars
    BY <1>1, StrategyStepsLoop
<1> QED
    BY <1>1, <1>2, StepBInv, StepOInv, StepLastTrade, StepCallbackInv, StepGiven DEF SBase

\* Ids are positive and below the next one.
LEMMA GivenIds ==
    ASSUME SBase
    PROVE  /\ DOMAIN orders = 1 .. next_our_id - 1 /\ next_our_id \in Nat
           /\ \A id \in Nat : id \in DOMAIN orders <=> id # 0 /\ id < next_our_id
           /\ DOMAIN filled = DOMAIN orders
           /\ \A p \in pending : p.id \in DOMAIN orders
           /\ \A id : Awaited(id) \/ Recalled(id) => id \in DOMAIN orders
<1>1. /\ DOMAIN orders = 1 .. next_our_id - 1 /\ next_our_id \in Nat
      /\ DOMAIN filled = DOMAIN orders
    BY OwnIds DEF SBase, BInv, LInv, LoopTypes
<1>2. \A p \in pending : p.id \in DOMAIN orders
    BY DEF SBase, BInv, LInv, InFlight
<1> QED
    BY <1>1, <1>2 DEF Awaited, BeingCancelled, Recalled, SBase, Given

\* Between callbacks and while it decides, a strategy has no commands waiting.
LEMMA NothingWaits ==
    ASSUME SBase, ~decided \/ todo = << >>
    PROVE  /\ todo = << >> /\ DOMAIN todo = {}
           /\ \A s : ~HasPlace(s)
           /\ \A id : ~WithdrawalDue(id)
<1>1. todo = << >>
    BY DEF SBase, CallbackInv
<1>2. DOMAIN todo = {}
    BY <1>1
<1> QED
    BY <1>1, <1>2 DEF HasPlace, WithdrawalDue

\* The ids remembered when it decides are ids it was given, or 0.
LEMMA QuotedGiven ==
    ASSUME SBase, QuoteIds, ~decided
    PROVE  st.bid_id \in Nat /\ st.ask_id \in Nat /\ Quoted \ {0} \subseteq DOMAIN orders
<1>1. st.bid_id \in Nat /\ st.ask_id \in Nat /\ st.bid_id < next_our_id /\ st.ask_id < next_our_id
    BY NothingWaits DEF QuoteIds
<1> QED
    BY <1>1, GivenIds DEF Quoted

LEMMA QuoteStepsStrategy ==
    ASSUME SBase, QuoteIds, NEW forgets, NEW n \in Nat, NEW apart,
           [QuoteStep(forgets, n, apart)]_slVars
    PROVE  [StrategyStep]_slVars
<1>1. CASE OnMarketData(st, << >>, "none")
    <2>1. << >> \in Seq(ToDo) /\ Addressed(<< >>)
        BY DEF Addressed
    <2> QED
        BY <1>1, <2>1 DEF StrategyStep
<1>2. ASSUME NEW pb \in Int, NEW pa \in Int, NEW nb \in {0, n}, NEW na \in {0, n},
             Requote(pb, nb, pa, na)
      PROVE  StrategyStep
    <2>1. PICK m : OnMarketData(m, Requoting(st.bid_id, st.ask_id, pb, nb, pa, na), "quote")
        BY <1>2 DEF Requote
    <2>2. PICK list : list = Requoting(st.bid_id, st.ask_id, pb, nb, pa, na)
        OBVIOUS
    <2>3. ~decided
        BY <2>1 DEF OnMarketData
    <2>4. RequoteOf(list, Quoted \ {0}, n, pb, nb, pa, na)
        BY <2>2, <2>3, QuotedGiven, RequoteList DEF Quoted
    <2>5. list \in Seq(ToDo) /\ Addressed(list)
        BY <2>3, <2>4, QuotedGiven DEF RequoteOf, Addressed
    <2> QED
        BY <2>1, <2>2, <2>5 DEF StrategyStep
<1>3. CASE \E m : ToldFill(m) /\ Remembers(m, forgets)
    BY <1>3 DEF StrategyStep
<1> QED
    BY <1>1, <1>2, <1>3 DEF QuoteStep, StrategyStep

(***************************************************************************)
(* What a step that issues nothing does to the cancels, to the fills an    *)
(* order was told of, and with both to what a market maker knows.          *)
(***************************************************************************)

\* A cancel that does not overtake its order leaves nothing of it.
LEMMA CancelDelivered ==
    ASSUME SBase, DrainCancel, NEW k, k = Top.id, ~Overtakes
    PROVE  ~Outstanding(k)'
<1>1. /\ pending # {} /\ pending' = Popped /\ Top.is_cancel
      /\ phase = "idle" /\ phase' = "idle" /\ book' = CancelOrder(book, k)
    BY DEF DrainCancel, Due, Cancel
<1>2. BInv /\ OInv /\ WellFormed(book)
    BY DEF SBase, BInv, IInv, TypeOK, BookIndexed, BookTotals, NothingSpentRests, WellFormed
<1>3. ~Working(k)'
    BY <1>1 DEF Working
<1>4. k \notin Resting(book)'
    BY <1>1, <1>2, CancelEntries
<1>5. ~Awaited(k)
    <2> SUFFICES ASSUME NEW q \in pending, ~q.is_cancel, q.id = k
                 PROVE  FALSE
        BY DEF Awaited
    <2>1. /\ Top \in pending /\ Top.seq \in Nat /\ q.seq \in Nat /\ Top.ts \in Nat /\ q.ts \in Nat
          /\ q # Top => Earliest(Top, q)
        BY <1>1, <1>2, TopIsFirst DEF BInv, LInv, InFlight, Command
    <2>2. q.seq < Top.seq
        BY <1>1, <1>2, <2>1 DEF OInv, CancelsFollow
    <2>3. q.ts = orders[q.id].ts_active
        BY <1>2 DEF BInv, LInv, InFlight
    <2>4. q.ts <= Top.ts
        BY <2>1, <2>3 DEF Overtakes
    <2> QED
        BY <1>1, <2>1, <2>2, <2>4 DEF Earliest
<1>6. ~Awaited(k)'
    BY <1>1, <1>2, <1>5, PoppedPasses
<1> QED
    BY <1>3, <1>4, <1>6 DEF Outstanding

LEMMA CancelsRemain ==
    ASSUME SBase, [StrategyStep]_slVars, ~Issue, NEW id
    PROVE  /\ Recalled(id)' => Recalled(id)
           /\ Recalled(id) => Recalled(id)' \/ ~Outstanding(id)'
<1>1. CASE pending' = pending /\ lost' = lost
    BY <1>1 DEF Recalled, BeingCancelled
<1>2. CASE DrainOrder /\ lost' = lost
    <2>1. pending' \subseteq pending /\ \A p \in pending : p.is_cancel => p \in pending'
        BY <1>2 DEF DrainOrder, Popped
    <2> QED
        BY <1>2, <2>1 DEF Recalled, BeingCancelled
<1>3. CASE CancelArrives
    <2>1. PICK k : k = Top.id
        OBVIOUS
    <2>2. DrainCancel /\ lost' = IF Overtakes THEN lost \cup {k} ELSE lost
        BY <1>3, <2>1 DEF CancelArrives
    <2>3. pending # {} /\ Top.is_cancel /\ pending' = pending \ {Top} /\ Top \in pending
        BY <2>2, TopIsFirst DEF DrainCancel, Due, Popped, SBase, BInv, LInv
    <2>4. BeingCancelled(k)
        BY <2>1, <2>3 DEF BeingCancelled
    <2>5. Recalled(id)' => Recalled(id)
        BY <2>2, <2>3, <2>4 DEF Recalled, BeingCancelled
    <2>6. CASE id = k
        BY <2>1, <2>2, <2>5, <2>6, CancelDelivered DEF Recalled
    <2>7. CASE id # k
        <3>1. \A p \in pending : p.id = id => p \in pending'
            BY <2>1, <2>3, <2>7
        <3> QED
            BY <2>2, <2>5, <3>1 DEF Recalled, BeingCancelled
    <2> QED
        BY <2>6, <2>7
<1> QED
    BY <1>1, <1>2, <1>3, HeapSteps

\* The fill being routed is for something.
LEMMA FillTold ==
    ASSUME SBase, RouteFill
    PROVE  /\ NextFill \in Fill /\ NextFill.qty \in Nat \ {0}
           /\ NextFill.is_ours => NextFill.order_id \in DOMAIN orders
           /\ phase = "traded" /\ todo = << >>
<1>1. /\ phase = "traded" /\ told < Len(fills)
      /\ told \in Nat /\ told >= Len(fills) - 2 /\ fills \in Seq(Fill)
    BY DEF RouteFill, SBase, BInv, Routing, IInv, TypeOK
<1>2. PICK i \in DOMAIN fills : i = told + 1 /\ i \in {Len(fills) - 1, Len(fills)}
    BY <1>1
<1>3. fills[i] \in Fill /\ fills[i].qty > 0
    BY <1>1, <1>2 DEF SBase, LastTrade
<1>4. fills[i].qty \in Nat
    BY <1>3, MaxQtyAssumption DEF Fill, Quantity
<1>5. Belongs(fills[i].order_id, fills[i].is_ours, fills[i].side)
    BY DEF SBase, OInv, Ownership
<1>6. todo = << >>
    BY <1>1 DEF SBase, CallbackInv, BInv, LInv, Control
<1> QED
    BY <1>1, <1>2, <1>3, <1>4, <1>5, <1>6 DEF NextFill, Belongs

LEMMA FilledGrows ==
    ASSUME SBase, FilledNat, [LoopNext]_vars, seq' = seq
    PROVE  /\ orders' = orders
           /\ \A id \in DOMAIN orders : filled'[id] \in Nat /\ filled'[id] >= filled[id]
           /\ RouteFill /\ NextFill.is_ours => filled'[NextFill.order_id] > 0
<1>0. orders' = orders /\ DOMAIN filled = DOMAIN orders
    BY TimeGoesOn, GivenIds DEF SBase
<1>1. CASE RouteFill
    <2>1. PICK f : f = NextFill
        OBVIOUS
    <2>2. f.qty \in Nat \ {0} /\ (f.is_ours => f.order_id \in DOMAIN orders)
        BY <1>1, <2>1, FillTold
    <2>3. filled' = IF f.is_ours THEN [filled EXCEPT ![f.order_id] = filled[f.order_id] + f.qty]
                                 ELSE filled
        BY <1>1, <2>1 DEF RouteFill, Reported, NextFill
    <2>4. \A id \in DOMAIN orders :
            filled'[id] = IF f.is_ours /\ id = f.order_id THEN filled[id] + f.qty ELSE filled[id]
        BY <1>0, <2>2, <2>3
    <2> QED
        BY <1>0, <2>1, <2>2, <2>4 DEF FilledNat
<1>2. CASE filled' = filled
    <2>1. \A id \in DOMAIN orders : filled'[id] \in Nat /\ filled'[id] >= filled[id]
        BY <1>2 DEF FilledNat
    <2>2. CASE RouteFill
        BY <1>1, <2>2
    <2> QED
        BY <1>0, <2>1, <2>2
<1>3. CASE \/ \E o \in Submittable, lat \in Latency : SubmitOwn(o, lat)
           \/ \E k \in DOMAIN orders, lat \in Latency : CancelOwn(k, lat)
    <2>1. seq' = seq + 1 /\ seq \in Nat
        BY <1>3 DEF SubmitOwn, CancelOwn, Enqueue, SBase, BInv, LInv, LoopTypes
    <2> QED
        BY <2>1
<1>4. CASE \/ \E e \in Tape, gap \in Gaps : NextEvent(e, gap)
           \/ Stopped \/ UNCHANGED vars
    BY <1>2, <1>4 DEF NextEvent, Stopped, vars
<1>5. CASE EndCallback \/ Flush \/ DrainCancel \/ DrainOrder \/ OursDone \/ Drained
           \/ ApplyCancel \/ ApplyOrder \/ TapeDone \/ EngineStep
    BY <1>2, <1>5 DEF EndCallback, Flush, DrainCancel, DrainOrder, OursDone, Drained,
                      ApplyCancel, ApplyOrder, TapeDone, EngineStep
<1> QED
    BY <1>1, <1>3, <1>4, <1>5 DEF LoopNext, BTStep

\* An id is kept, or forgotten at a fill.
KeptOrForgotten(forgets, x, y) ==
    y = x \/ (forgets /\ y = 0 /\ x \in DOMAIN orders /\ filled'[x] > 0)

LEMMA QuietQInv ==
    ASSUME SBase, OrdersFit, NEW forgets, NEW n \in Nat, QInv(forgets, n),
           [StrategyStep]_slVars, ~Issue, todo' = todo, KeptOrForgotten(forgets, st.bid_id, st'.bid_id),
           KeptOrForgotten(forgets, st.ask_id, st'.ask_id)
    PROVE  QInv(forgets, n)'
<1>0. [LoopNext]_vars /\ seq' = seq
    BY StrategyStepsLoop, NothingIssued DEF SBase
<1>1. orders' = orders /\ next_our_id' = next_our_id
    BY <1>0, TimeGoesOn DEF SBase
<1>2. /\ BidFirst(todo)' /\ LimitsOf(todo, n)' /\ OwnAre(n)' /\ FilledNat'
      /\ \A s : HasPlace(s)' <=> HasPlace(s)
      /\ \A id : WithdrawalDue(id)' <=> WithdrawalDue(id)
    BY <1>0, <1>1, FilledGrows
       DEF QInv, BidFirst, LimitsOf, OwnAre, FilledNat, HasPlace, WithdrawalDue
<1>3. next_our_id \in Nat /\ 0 < next_our_id /\ 0 \notin DOMAIN orders
      /\ next_our_id \notin DOMAIN orders /\ next_our_id + 1 \notin DOMAIN orders
    BY OwnIds DEF SBase, BInv, LInv, LoopTypes
<1>4. PICK b, a, x, y : b = st.bid_id /\ a = st.ask_id /\ x = st'.bid_id /\ y = st'.ask_id
    OBVIOUS
<1>5. /\ x = b \/ (x = 0 /\ b \in DOMAIN orders)
      /\ y = a \/ (y = 0 /\ a \in DOMAIN orders)
    BY <1>4 DEF KeptOrForgotten
<1>6. QuoteIds'
    <2>1. QuoteIds
        BY DEF QInv
    <2> QED
        BY <1>1, <1>2, <1>3, <1>4, <1>5, <2>1 DEF QuoteIds
<1>7. ~Recalled(0) /\ ~WithdrawalDue(0)
    <2>1. ~Recalled(0)
        BY <1>3, GivenIds
    <2>2. \A i \in DOMAIN todo : todo[i].is_cancel => todo[i].id \in DOMAIN orders
        BY DEF SBase, CallbackInv, Addressed
    <2> QED
        BY <1>3, <2>1, <2>2 DEF WithdrawalDue
<1>8. Fresh'
    <2>1. \A id : Recalled(id)' => Recalled(id)
        BY CancelsRemain
    <2> QED
        BY <1>2, <1>4, <1>5, <1>7, <2>1 DEF Fresh, QInv, Quoted
<1>9. Tracked(forgets)'
    <2> SUFFICES ASSUME NEW id \in DOMAIN orders, Outstanding(id)'
                 PROVE  \/ id \in Quoted' \/ Recalled(id)' \/ WithdrawalDue(id)'
                        \/ forgets /\ filled'[id] > 0
        BY <1>1 DEF Tracked
    <2>1. \/ id \in Quoted \/ Recalled(id) \/ WithdrawalDue(id)
          \/ forgets /\ filled[id] > 0
        BY <1>0, OutstandingShrinks DEF SBase, QInv, Tracked
    <2>2. CASE id \in Quoted
        BY <2>2, <1>3 DEF Quoted, KeptOrForgotten
    <2>3. CASE Recalled(id)
        BY <2>3, CancelsRemain
    <2>4. CASE forgets /\ filled[id] > 0
        <3>1. filled'[id] \in Nat /\ filled'[id] >= filled[id] /\ filled[id] \in Nat
            BY <1>0, FilledGrows DEF QInv, FilledNat
        <3> QED
            BY <2>4, <3>1
    <2> QED
        BY <1>2, <2>1, <2>2, <2>3, <2>4
<1> QED
    BY <1>2, <1>6, <1>8, <1>9 DEF QInv

\* What a requote leaves to be issued.
LEMMA RequoteTodo ==
    ASSUME SBase, QuoteIds, NEW n \in Nat \ {0},
           NEW pb \in Int, NEW pa \in Int, NEW nb \in {0, n}, NEW na \in {0, n},
           Requote(pb, nb, pa, na)
    PROVE  /\ ~decided /\ decided' /\ UNCHANGED vars
           /\ RequoteOf(todo', Quoted \ {0}, n, pb, nb, pa, na)
           /\ HasPlace("Buy")' <=> nb # 0
           /\ HasPlace("Sell")' <=> na # 0
           /\ \A id : WithdrawalDue(id)' <=> id \in Quoted \ {0}
           /\ st'.bid_id = IF nb = 0 THEN 0 ELSE next_our_id
           /\ st'.ask_id = IF na = 0 THEN 0 ELSE IF nb = 0 THEN next_our_id ELSE next_our_id + 1
           /\ lost' = lost
<1>1. PICK m, list :
        /\ list = Requoting(st.bid_id, st.ask_id, pb, nb, pa, na)
        /\ OnMarketData(m, list, "quote")
        /\ m.bid_id = IF nb = 0 THEN 0 ELSE next_our_id
        /\ m.ask_id = IF na = 0 THEN 0 ELSE IF nb = 0 THEN next_our_id ELSE next_our_id + 1
    BY DEF Requote
<1>2. ~decided /\ decided' /\ UNCHANGED vars /\ todo' = list /\ st' = m /\ lost' = lost
    BY <1>1 DEF OnMarketData
<1>3. RequoteOf(list, Quoted \ {0}, n, pb, nb, pa, na)
    <2>1. RequoteOf(list, {st.bid_id, st.ask_id} \ {0}, n, pb, nb, pa, na)
        <3>1. st.bid_id \in Nat /\ st.ask_id \in Nat /\ n \in Nat
            BY DEF QuoteIds
        <3> QED
            BY <1>1, <3>1, RequoteList
    <2> QED
        BY <2>1 DEF Quoted
<1>4. (HasPlace("Buy")' <=> nb # 0) /\ (HasPlace("Sell")' <=> na # 0)
    BY <1>2, <1>3 DEF RequoteOf, HasPlace
<1>5. \A id : WithdrawalDue(id)' <=> id \in Quoted \ {0}
    BY <1>2, <1>3 DEF RequoteOf, WithdrawalDue
<1> QED
    BY <1>1, <1>2, <1>3, <1>4, <1>5

LEMMA SameVarsOrders ==
    ASSUME UNCHANGED vars
    PROVE  /\ orders' = orders /\ next_our_id' = next_our_id /\ filled' = filled
           /\ pending' = pending /\ clock' = clock /\ at' = at /\ seq' = seq
           /\ book' = book /\ in' = in /\ phase' = phase /\ fills' = fills /\ told' = told
           /\ \A id : /\ Outstanding(id)' <=> Outstanding(id)
                      /\ BeingCancelled(id)' <=> BeingCancelled(id)
                      /\ Awaited(id)' <=> Awaited(id)
                      /\ Working(id)' <=> Working(id)
<1>1. /\ orders' = orders /\ next_our_id' = next_our_id /\ filled' = filled
      /\ pending' = pending /\ clock' = clock /\ at' = at /\ seq' = seq
      /\ book' = book /\ in' = in /\ phase' = phase /\ fills' = fills /\ told' = told
    BY DEF vars, engineVars, loopVars, ownVars
<1>2. \A id : /\ BeingCancelled(id)' <=> BeingCancelled(id)
              /\ Awaited(id)' <=> Awaited(id)
              /\ Working(id)' <=> Working(id)
    BY <1>1 DEF BeingCancelled, Awaited, Working
<1> QED
    BY <1>1, <1>2 DEF Outstanding

LEMMA RequoteQInv ==
    ASSUME SBase, NEW forgets, NEW n \in Nat \ {0}, QInv(forgets, n),
           NEW pb \in Int, NEW pa \in Int, NEW nb \in {0, n}, NEW na \in {0, n},
           Requote(pb, nb, pa, na)
    PROVE  QInv(forgets, n)'
<1>1. /\ ~decided /\ UNCHANGED vars /\ RequoteOf(todo', Quoted \ {0}, n, pb, nb, pa, na)
      /\ HasPlace("Buy")' <=> nb # 0
      /\ HasPlace("Sell")' <=> na # 0
      /\ \A id : WithdrawalDue(id)' <=> id \in Quoted \ {0}
      /\ st'.bid_id = IF nb = 0 THEN 0 ELSE next_our_id
      /\ st'.ask_id = IF na = 0 THEN 0 ELSE IF nb = 0 THEN next_our_id ELSE next_our_id + 1
      /\ lost' = lost
    BY RequoteTodo DEF QInv
<1>2. next_our_id \in Nat /\ 0 < next_our_id /\ 0 \notin DOMAIN orders
      /\ next_our_id \notin DOMAIN orders /\ next_our_id + 1 \notin DOMAIN orders
    BY OwnIds DEF SBase, BInv, LInv, LoopTypes
<1>3. PICK x, y : x = st'.bid_id /\ y = st'.ask_id
    OBVIOUS
<1>4. x \notin DOMAIN orders /\ y \notin DOMAIN orders
    BY <1>1, <1>2, <1>3
<1>5. BidFirst(todo)' /\ LimitsOf(todo, n)' /\ OwnAre(n)' /\ FilledNat'
    BY <1>1, SameVarsOrders
       DEF RequoteOf, QInv, OwnAre, FilledNat, BidFirst, LimitsOf
<1>6. QuoteIds'
    BY <1>1, <1>2, <1>3, <1>4, SameVarsOrders DEF QuoteIds
<1>7. Fresh'
    <2>1. \A id \in {x, y} : ~Recalled(id) /\ id \notin Quoted \ {0}
        BY <1>1, <1>4, GivenIds, QuotedGiven DEF QInv
    <2> QED
        BY <1>1, <1>3, <2>1, SameVarsOrders DEF Fresh, Quoted, Recalled
<1>8. Tracked(forgets)'
    <2> SUFFICES ASSUME NEW id \in DOMAIN orders, Outstanding(id)'
                 PROVE  \/ Recalled(id)' \/ WithdrawalDue(id)'
                        \/ forgets /\ filled'[id] > 0
        BY <1>1, SameVarsOrders DEF Tracked
    <2>1. \/ id \in Quoted \ {0} \/ Recalled(id) \/ WithdrawalDue(id)
          \/ forgets /\ filled[id] > 0
        BY <1>1, <1>2, SameVarsOrders DEF QInv, Tracked
    <2>2. ~WithdrawalDue(id)
        BY <1>1, NothingWaits
    <2> QED
        BY <1>1, <2>1, <2>2, SameVarsOrders DEF Recalled
<1> QED
    BY <1>5, <1>6, <1>7, <1>8 DEF QInv

\* Issuing the first command takes it off the list.
LEMMA TailOfTodo ==
    ASSUME CallbackInv, todo # << >>, todo' = Tail(todo)
    PROVE  /\ \A id : /\ WithdrawalDue(id)' => WithdrawalDue(id)
                      /\ WithdrawalDue(id) => \/ WithdrawalDue(id)'
                                              \/ Head(todo).is_cancel /\ Head(todo).id = id
           /\ \A s : /\ HasPlace(s)' => HasPlace(s)
                     /\ HasPlace(s) => HasPlace(s)' \/ IsPlace(Head(todo), s)
           /\ \A s : IsPlace(Head(todo), s) => HasPlace(s)
           /\ \A i \in DOMAIN todo' : i + 1 \in DOMAIN todo /\ todo'[i] = todo[i + 1]
<1>1. /\ 1 \in DOMAIN todo /\ Head(todo) = todo[1]
      /\ \A i \in DOMAIN todo' : i + 1 \in DOMAIN todo /\ todo'[i] = todo[i + 1]
      /\ \A i \in DOMAIN todo : i = 1 \/ (i - 1 \in DOMAIN todo' /\ todo'[i - 1] = todo[i])
    <2>1. /\ 1 \in DOMAIN todo /\ Head(todo) = todo[1] /\ DOMAIN todo \subseteq Int
          /\ \A i \in DOMAIN Tail(todo) : i + 1 \in DOMAIN todo /\ Tail(todo)[i] = todo[i + 1]
          /\ \A i \in DOMAIN todo : i = 1 \/ i - 1 \in DOMAIN Tail(todo)
        BY HeadOfTodo DEF CallbackInv
    <2> QED
        BY <2>1
<1>2. PICK rest : rest = todo'
    OBVIOUS
<1>3. ASSUME NEW id
      PROVE  /\ WithdrawalDue(id)' => WithdrawalDue(id)
             /\ WithdrawalDue(id) => \/ WithdrawalDue(id)'
                                     \/ Head(todo).is_cancel /\ Head(todo).id = id
    <2>1. WithdrawalDue(id)' <=> \E i \in DOMAIN rest : rest[i].is_cancel /\ rest[i].id = id
        BY <1>2 DEF WithdrawalDue
    <2>2. WithdrawalDue(id) <=> \E i \in DOMAIN todo : todo[i].is_cancel /\ todo[i].id = id
        BY DEF WithdrawalDue
    <2>3. WithdrawalDue(id)' => WithdrawalDue(id)
        BY <1>1, <1>2, <2>1, <2>2
    <2>4. ASSUME WithdrawalDue(id), ~(Head(todo).is_cancel /\ Head(todo).id = id)
          PROVE  WithdrawalDue(id)'
        <3>1. PICK i \in DOMAIN todo : todo[i].is_cancel /\ todo[i].id = id
            BY <2>2, <2>4
        <3>2. i - 1 \in DOMAIN rest /\ rest[i - 1] = todo[i]
            BY <1>1, <1>2, <2>4, <3>1
        <3> QED
            BY <2>1, <3>1, <3>2
    <2> QED
        BY <2>3, <2>4
<1>4. ASSUME NEW s
      PROVE  /\ HasPlace(s)' => HasPlace(s)
             /\ HasPlace(s) => HasPlace(s)' \/ IsPlace(Head(todo), s)
             /\ IsPlace(Head(todo), s) => HasPlace(s)
    <2>1. HasPlace(s)' <=> \E i \in DOMAIN rest : IsPlace(rest[i], s)
        BY <1>2 DEF HasPlace
    <2>2. HasPlace(s) <=> \E i \in DOMAIN todo : IsPlace(todo[i], s)
        BY DEF HasPlace
    <2> QED
        BY <1>1, <1>2, <2>1, <2>2
<1> QED
    BY <1>1, <1>3, <1>4

LEMMA TailShape ==
    ASSUME CallbackInv, todo # << >>, todo' = Tail(todo), BidFirst(todo), NEW n, LimitsOf(todo, n)
    PROVE  /\ BidFirst(todo)' /\ LimitsOf(todo, n)'
           /\ IsPlace(Head(todo), "Buy") => ~HasPlace("Buy")'
           /\ IsPlace(Head(todo), "Sell") => ~HasPlace("Buy") /\ ~HasPlace("Sell")'
           /\ ~Head(todo).is_cancel =>
                /\ IsPlace(Head(todo), "Buy") \/ IsPlace(Head(todo), "Sell")
                /\ Head(todo).order.type = "Limit" /\ Head(todo).order.qty = n
                /\ \A id : ~WithdrawalDue(id)
<1>1. /\ 1 \in DOMAIN todo /\ Head(todo) = todo[1] /\ Head(todo) \in ToDo
      /\ \A i \in DOMAIN todo : i \in Nat /\ i >= 1
    BY HeadOfTodo DEF CallbackInv
<1>2. \A i \in DOMAIN todo' : i + 1 \in DOMAIN todo /\ todo'[i] = todo[i + 1] /\ i \in Nat /\ i >= 1
    <2>1. todo' \in Seq(ToDo)
        BY HeadOfTodo
    <2> QED
        BY <2>1, TailOfTodo
<1>3. BidFirst(todo)'
    BY <1>2 DEF BidFirst
<1>4. LimitsOf(todo, n)'
    BY <1>2 DEF LimitsOf
<1>5. IsPlace(Head(todo), "Buy") => ~HasPlace("Buy")'
    BY <1>1, <1>2 DEF HasPlace, IsPlace, BidFirst
<1>6. IsPlace(Head(todo), "Sell") => ~HasPlace("Buy") /\ ~HasPlace("Sell")'
    BY <1>1, <1>2 DEF HasPlace, IsPlace, BidFirst
<1>7. ~Head(todo).is_cancel =>
                /\ IsPlace(Head(todo), "Buy") \/ IsPlace(Head(todo), "Sell")
                /\ Head(todo).order.type = "Limit" /\ Head(todo).order.qty = n
                /\ \A id : ~WithdrawalDue(id)
    <2> SUFFICES ASSUME ~Head(todo).is_cancel
                 PROVE  /\ IsPlace(Head(todo), "Buy") \/ IsPlace(Head(todo), "Sell")
                        /\ Head(todo).order.type = "Limit" /\ Head(todo).order.qty = n
                        /\ \A id : ~WithdrawalDue(id)
        OBVIOUS
    <2>1. PICK c : c = todo[1] /\ c = Head(todo)
        BY <1>1
    <2>2. c \in [is_cancel : {FALSE}, order : MadeUpOrder]
        BY <1>1, <2>1 DEF ToDo
    <2>3. c.order.side \in Side
        BY <2>2 DEF MadeUpOrder
    <2>4. \A j \in DOMAIN todo : j = 1 \/ ~todo[j].is_cancel
        BY <1>1, <2>1 DEF BidFirst, IsPlace
    <2>5. \A id : ~WithdrawalDue(id)
        BY <2>1, <2>4 DEF WithdrawalDue
    <2>6. c.order.type = "Limit" /\ c.order.qty = n
        BY <1>1, <2>1 DEF LimitsOf
    <2> QED
        BY <2>1, <2>3, <2>5, <2>6 DEF IsPlace, Side
<1> QED
    BY <1>3, <1>4, <1>5, <1>6, <1>7

LEMMA IssuedCancel ==
    ASSUME SBase, OrdersFit, Issue, Head(todo).is_cancel, NEW h, h = Head(todo).id
    PROVE  /\ orders' = orders /\ next_our_id' = next_our_id /\ filled' = filled /\ st' = st
           /\ h \in DOMAIN orders /\ WithdrawalDue(h)
           /\ \A id : /\ Outstanding(id)' <=> Outstanding(id)
                      /\ Awaited(id)' <=> Awaited(id)
                      /\ Working(id)' <=> Working(id)
                      /\ Recalled(id)' <=> Recalled(id) \/ id = h
<1>1. PICK c \in Command :
        /\ pending' = pending \cup {c} /\ c.is_cancel /\ c.id = h
        /\ UNCHANGED <<orders, next_our_id, filled, lost>>
    BY Issued DEF SBase
<1>2. UNCHANGED engineVars /\ st' = st /\ todo # << >>
    BY Issued, IssueCases DEF SBase
<1>3. book' = book /\ in' = in /\ phase' = phase
    BY <1>2 DEF engineVars
<1>4. h \in DOMAIN orders /\ WithdrawalDue(h)
    BY <1>2, HeadOfTodo DEF SBase, WithdrawalDue
<1>5. ASSUME NEW id
      PROVE  /\ Awaited(id)' <=> Awaited(id)
             /\ Working(id)' <=> Working(id)
             /\ Recalled(id)' <=> Recalled(id) \/ id = h
    BY <1>1, <1>3 DEF Awaited, Working, BeingCancelled, Recalled
<1> QED
    BY <1>1, <1>2, <1>3, <1>4, <1>5 DEF Outstanding

LEMMA IssuedOrder ==
    ASSUME SBase, OrdersFit, Issue, ~Head(todo).is_cancel, NEW k, k = next_our_id
    PROVE  /\ st' = st /\ next_our_id' = k + 1 /\ k \in Nat \ {0}
           /\ DOMAIN orders' = DOMAIN orders \cup {k} /\ k \notin DOMAIN orders
           /\ \A id \in DOMAIN orders : orders'[id] = orders[id] /\ filled'[id] = filled[id]
           /\ filled'[k] = 0
           /\ orders'[k].side = Head(todo).order.side /\ orders'[k].type = Head(todo).order.type
           /\ orders'[k].price = Head(todo).order.price /\ orders'[k].qty = Head(todo).order.qty
           /\ ~Outstanding(k) /\ Awaited(k)' /\ ~Working(k)'
           /\ k \notin Resting(book)'
           /\ \A id : id # k => /\ Outstanding(id)' <=> Outstanding(id)
                                /\ Awaited(id)' <=> Awaited(id)
           /\ \A id : /\ Recalled(id)' <=> Recalled(id)
                      /\ Working(id)' <=> Working(id)
<1>1. PICK c \in Command, new \in OwnOrder :
        /\ pending' = pending \cup {c} /\ ~c.is_cancel /\ c.id = k
        /\ next_our_id' = k + 1
        /\ filled' = Append(filled, 0) /\ orders' = Append(orders, new)
        /\ new.side = Head(todo).order.side /\ new.type = Head(todo).order.type
        /\ new.price = Head(todo).order.price /\ new.qty = Head(todo).order.qty
    <2>1. PICK c \in Command :
        /\ pending' = pending \cup {c} /\ ~c.is_cancel /\ c.id = k
        /\ next_our_id' = k + 1
        /\ filled' = Append(filled, 0)
        /\ \E new \in OwnOrder :
                               /\ orders' = Append(orders, new)
                               /\ new.side = Head(todo).order.side
                               /\ new.type = Head(todo).order.type
                               /\ new.price = Head(todo).order.price
                               /\ new.qty = Head(todo).order.qty
        BY Issued DEF SBase
    <2> QED
        BY <2>1
<1>2. UNCHANGED engineVars /\ st' = st /\ lost' = lost /\ todo # << >> /\ seq < MaxCommands
    BY Issued, IssueCases DEF SBase, SubmitOwn, CancelOwn
<1>3. book' = book /\ in' = in /\ phase' = phase
    BY <1>2 DEF engineVars
<1>4. /\ orders \in Seq(OwnOrder) /\ filled \in Seq(Int) /\ Len(filled) = Len(orders)
      /\ Len(orders) = k - 1 /\ k \in Nat
    BY DEF SBase, BInv, LInv, LoopTypes
<1>5. /\ DOMAIN orders' = DOMAIN orders \cup {k} /\ k \notin DOMAIN orders /\ k \in Nat \ {0}
      /\ \A id \in DOMAIN orders : orders'[id] = orders[id] /\ filled'[id] = filled[id]
      /\ filled'[k] = 0 /\ orders'[k] = new
    BY <1>1, <1>4
<1>6. k \notin Resting(book) /\ (phase # "idle" => in.id # k)
    BY <1>2, NewIdIsNew DEF SBase
<1>7. ~Awaited(k)
    BY <1>5, GivenIds
<1>8. ~Working(k)
    BY <1>6 DEF Working
<1>9. ASSUME NEW id
      PROVE  /\ Working(id)' <=> Working(id)
             /\ Recalled(id)' <=> Recalled(id)
             /\ Awaited(id)' <=> Awaited(id) \/ id = k
    BY <1>1, <1>2, <1>3 DEF Awaited, Working, BeingCancelled, Recalled
<1> QED
    BY <1>1, <1>2, <1>3, <1>5, <1>6, <1>7, <1>8, <1>9 DEF Outstanding

LEMMA IssueQInv ==
    ASSUME SBase, OrdersFit, NEW forgets, NEW n \in Nat \ {0}, QInv(forgets, n), Issue
    PROVE  QInv(forgets, n)'
<1>0. /\ CallbackInv /\ todo # << >> /\ todo' = Tail(todo)
      /\ QuoteIds /\ OwnAre(n) /\ Fresh /\ Tracked(forgets) /\ FilledNat
    BY IssueCases DEF SBase, QInv
<1>1. /\ BidFirst(todo)' /\ LimitsOf(todo, n)'
      /\ IsPlace(Head(todo), "Buy") => ~HasPlace("Buy")'
      /\ IsPlace(Head(todo), "Sell") => ~HasPlace("Buy") /\ ~HasPlace("Sell")'
      /\ ~Head(todo).is_cancel =>
           /\ IsPlace(Head(todo), "Buy") \/ IsPlace(Head(todo), "Sell")
           /\ Head(todo).order.type = "Limit" /\ Head(todo).order.qty = n
           /\ \A id : ~WithdrawalDue(id)
    BY <1>0, TailShape DEF QInv
<1>2. /\ \A id : /\ WithdrawalDue(id)' => WithdrawalDue(id)
                 /\ WithdrawalDue(id) => \/ WithdrawalDue(id)'
                                         \/ Head(todo).is_cancel /\ Head(todo).id = id
      /\ \A s : /\ HasPlace(s)' => HasPlace(s)
                /\ HasPlace(s) => HasPlace(s)' \/ IsPlace(Head(todo), s)
      /\ \A s : IsPlace(Head(todo), s) => HasPlace(s)
    BY <1>0, TailOfTodo
<1>3. CASE Head(todo).is_cancel
    <2>1. PICK h : h = Head(todo).id
        OBVIOUS
    <2>2. /\ orders' = orders /\ next_our_id' = next_our_id /\ filled' = filled /\ st' = st
          /\ h \in DOMAIN orders /\ WithdrawalDue(h)
          /\ \A id : /\ Outstanding(id)' <=> Outstanding(id)
                     /\ Recalled(id)' <=> Recalled(id) \/ id = h
        BY <1>3, <2>1, IssuedCancel
    <2>3. \A s : HasPlace(s)' <=> HasPlace(s)
        BY <1>2, <1>3 DEF IsPlace
    <2>4. QuoteIds'
        BY <1>0, <2>2, <2>3 DEF QuoteIds
    <2>5. Fresh'
        BY <1>0, <1>2, <2>2 DEF Fresh, Quoted
    <2>6. Tracked(forgets)'
        BY <1>0, <1>2, <2>1, <2>2 DEF Tracked, Quoted
    <2>7. OwnAre(n)' /\ FilledNat'
        BY <1>0, <2>2 DEF OwnAre, FilledNat
    <2> QED
        BY <1>1, <2>4, <2>5, <2>6, <2>7 DEF QInv
<1>4. CASE ~Head(todo).is_cancel
    <2>1. PICK k : k = next_our_id
        OBVIOUS
    <2>2. /\ st' = st /\ next_our_id' = k + 1 /\ k \in Nat \ {0}
          /\ DOMAIN orders' = DOMAIN orders \cup {k} /\ k \notin DOMAIN orders
          /\ \A id \in DOMAIN orders : orders'[id] = orders[id] /\ filled'[id] = filled[id]
          /\ filled'[k] = 0
          /\ orders'[k].side = Head(todo).order.side /\ orders'[k].type = Head(todo).order.type
          /\ orders'[k].qty = Head(todo).order.qty
          /\ \A id : id # k => (Outstanding(id)' <=> Outstanding(id))
          /\ \A id : Recalled(id)' <=> Recalled(id)
        BY <1>4, <2>1, IssuedOrder
    <2>3. \/ IsPlace(Head(todo), "Buy") /\ ~HasPlace("Buy")'
                 /\ (HasPlace("Sell")' <=> HasPlace("Sell"))
          \/ IsPlace(Head(todo), "Sell") /\ ~HasPlace("Buy")' /\ ~HasPlace("Sell")'
                 /\ ~HasPlace("Buy")
        BY <1>1, <1>2, <1>4 DEF IsPlace
    <2>4. PICK x, y : x = st.bid_id /\ y = st.ask_id /\ x = st'.bid_id /\ y = st'.ask_id
        BY <2>2
    <2>5. \/ IsPlace(Head(todo), "Buy") /\ HasPlace("Buy") /\ x = k
          \/ IsPlace(Head(todo), "Sell") /\ HasPlace("Sell") /\ y = k
        BY <1>0, <1>2, <2>1, <2>3, <2>4 DEF QuoteIds
    <2>6. QuoteIds'
        <3>1. CASE IsPlace(Head(todo), "Buy") /\ HasPlace("Buy")
            <4>1. orders'[k].side = "Buy" /\ x = k /\ ~HasPlace("Buy")'
                  /\ (HasPlace("Sell")' <=> HasPlace("Sell"))
                BY <1>0, <2>1, <2>2, <2>3, <2>4, <3>1 DEF QuoteIds, IsPlace
            <4>2. y \in Nat /\ (IF HasPlace("Sell") THEN y = k + 1 ELSE y = 0)
                BY <1>0, <2>1, <2>4, <3>1 DEF QuoteIds
            <4>3. y \notin DOMAIN orders'
                BY <2>2, <4>2, GivenIds
            <4> QED
                BY <2>1, <2>2, <2>4, <4>1, <4>2, <4>3 DEF QuoteIds
        <3>2. CASE IsPlace(Head(todo), "Sell") /\ HasPlace("Sell")
            <4>1. orders'[k].side = "Sell" /\ ~HasPlace("Buy")' /\ ~HasPlace("Sell")' /\ ~HasPlace("Buy")
                BY <2>2, <2>3, <3>2 DEF IsPlace
            <4>2. y = k /\ x \in Nat /\ x < k /\ (x \in DOMAIN orders => orders[x].side = "Buy")
                BY <1>0, <2>1, <2>4, <3>2, <4>1 DEF QuoteIds
            <4>3. x \in DOMAIN orders' => orders'[x].side = "Buy"
                BY <2>2, <4>2
            <4> QED
                BY <2>1, <2>2, <2>4, <4>1, <4>2, <4>3 DEF QuoteIds
        <3> QED
            BY <2>5, <3>1, <3>2
    <2>7. Fresh'
        BY <1>0, <1>2, <2>2 DEF Fresh, Quoted
    <2>8. Tracked(forgets)'
        <3> SUFFICES ASSUME NEW id \in DOMAIN orders', Outstanding(id)'
                     PROVE  \/ id \in Quoted' \/ Recalled(id)' \/ WithdrawalDue(id)'
                            \/ forgets /\ filled'[id] > 0
            BY DEF Tracked
        <3>1. CASE id = k
            BY <2>4, <2>5, <3>1 DEF Quoted
        <3>2. CASE id # k
            <4>1. id \in DOMAIN orders /\ Outstanding(id) /\ filled'[id] = filled[id]
                BY <2>2, <3>2
            <4>2. id \in Quoted \/ Recalled(id) \/ (forgets /\ filled[id] > 0)
                BY <1>0, <1>1, <1>4, <4>1 DEF Tracked
            <4> QED
                BY <2>2, <4>1, <4>2 DEF Quoted
        <3> QED
            BY <3>1, <3>2
    <2>9. OwnAre(n)'
        BY <1>0, <1>1, <1>4, <2>2 DEF OwnAre
    <2>10. FilledNat'
        BY <1>0, <2>2 DEF FilledNat
    <2> QED
        BY <1>1, <2>6, <2>7, <2>8, <2>9, <2>10 DEF QInv
<1> QED
    BY <1>3, <1>4

LEMMA InitQInv ==
    ASSUME NEW forgets, NEW n, NEW members, members.bid_id = 0, members.ask_id = 0, SLInit(members)
    PROVE  QInv(forgets, n)
<1>1. /\ st = members /\ todo = << >> /\ orders = << >> /\ pending = {} /\ next_our_id = 1 /\ lost = {}
    BY DEF SLInit, BTInit
<1>2. DOMAIN todo = {} /\ DOMAIN orders = {}
    BY <1>1
<1>3. ~HasPlace("Buy") /\ ~HasPlace("Sell") /\ ~WithdrawalDue(0) /\ ~Recalled(0)
    BY <1>1, <1>2 DEF HasPlace, WithdrawalDue, BeingCancelled, Recalled
<1> QED
    BY <1>1, <1>2, <1>3
       DEF QInv, BidFirst, LimitsOf, QuoteIds, OwnAre, Fresh, Quoted, Tracked, FilledNat

\* Whatever a market maker does, it knows its orders.
LEMMA StepQInv ==
    ASSUME SBase, OrdersFit, NEW forgets \in BOOLEAN, NEW n \in Nat \ {0}, NEW apart,
           QInv(forgets, n), [QuoteStep(forgets, n, apart)]_slVars
    PROVE  QInv(forgets, n)'
<1>1. [StrategyStep]_slVars /\ [LoopNext]_vars
    <2>1. QuoteIds /\ n \in Nat
        BY DEF QInv
    <2>2. [StrategyStep]_slVars
        BY <2>1, QuoteStepsStrategy
    <2> QED
        BY <2>2, StrategyStepsLoop DEF SBase
<1>2. CASE Issue
    BY <1>2, IssueQInv
<1>3. CASE ~Issue
    <2>1. seq' = seq
        BY <1>1, <1>3, NothingIssued DEF SBase
    <2>2. ASSUME st' = st, todo' = todo
          PROVE  QInv(forgets, n)'
        BY <1>1, <1>3, <2>2, QuietQInv DEF KeptOrForgotten
    <2>3. CASE OnMarketData(st, << >>, "none")
        <3>1. ~decided /\ todo' = << >> /\ st' = st
            BY <2>3 DEF OnMarketData
        <3> QED
            BY <2>2, <3>1, NothingWaits
    <2>4. CASE \E pb, pa \in Int, nb, na \in {0, n} : Requote(pb, nb, pa, na)
        BY <2>4, RequoteQInv
    <2>5. ASSUME NEW m, ToldFill(m), Remembers(m, forgets)
          PROVE  QInv(forgets, n)'
        <3>1. /\ RouteFill /\ todo' = todo
              /\ st' = IF NextFill.is_ours THEN m ELSE st
            BY <2>5 DEF ToldFill
        <3>2. CASE ~NextFill.is_ours
            BY <2>2, <3>1, <3>2
        <3>3. CASE NextFill.is_ours
            <4>1. PICK k : k = NextFill.order_id
                OBVIOUS
            <4>2. filled'[k] > 0 /\ k \in DOMAIN orders
                BY <1>1, <2>1, <3>1, <3>3, <4>1, FilledGrows, FillTold DEF QInv
            <4>3. /\ st'.bid_id = IF forgets /\ st.bid_id = k THEN 0 ELSE st.bid_id
                  /\ st'.ask_id = IF forgets /\ st.ask_id = k THEN 0 ELSE st.ask_id
                BY <2>5, <3>1, <3>3, <4>1 DEF Remembers
            <4>4. /\ KeptOrForgotten(forgets, st.bid_id, st'.bid_id)
                  /\ KeptOrForgotten(forgets, st.ask_id, st'.ask_id)
                BY <4>2, <4>3 DEF KeptOrForgotten
            <4> QED
                BY <1>1, <1>3, <3>1, <4>4, QuietQInv
        <3> QED
            BY <3>2, <3>3
    <2>6. CASE EventApplied \/ CancelArrives \/ LoopStep \/ UNCHANGED slVars
        BY <2>2, <2>6 DEF EventApplied, CancelArrives, LoopStep, slVars, stratVars
    <2> QED
        BY <1>3, <2>3, <2>4, <2>5, <2>6 DEF QuoteStep, SLStep
<1> QED
    BY <1>2, <1>3

(***************************************************************************)
(* HawkesOFIMarketMaker.                                                   *)
(***************************************************************************)
HMType == st \in [bid_id : Nat, ask_id : Nat, inventory : Int]

LEMMA MidType ==
    ASSUME SBase, TwoSided
    PROVE  BestBid \in Int /\ BestAsk \in Int /\ (BestBid + BestAsk) \div 2 \in Int
<1>1. IsBook(book)
    BY DEF SBase, BInv, IInv, TypeOK
<1>2. "Buy" \in Side /\ "Sell" \in Side
    BY DEF Side
<1>3. Best(book, "Buy") \in Prices(book, "Buy") /\ Best(book, "Sell") \in Prices(book, "Sell")
    BY <1>1, <1>2, BestIsBest DEF TwoSided
<1>4. PICK x, y : x = BestBid /\ y = BestAsk /\ x \in Int /\ y \in Int
    BY <1>1, <1>2, <1>3, PriceAssumption DEF BestBid, BestAsk, IsBook
<1> QED
    BY <1>4

\* on_market_data requotes, with the bid below the ask.
LEMMA HMRequotes ==
    ASSUME SBase, HMType, TwoSided, HMOnMarketData
    PROVE  \E pb, pa \in Int, nb, na \in {0, QuoteSize} :
             /\ Requote(pb, nb, pa, na) /\ pb < pa
             /\ nb = IF "Buy" \in QuotedSides THEN QuoteSize ELSE 0
             /\ na = IF "Sell" \in QuotedSides THEN QuoteSize ELSE 0
             /\ st'.inventory = st.inventory /\ HMType'
<1> DEFINE mid == (BestBid + BestAsk) \div 2
           bidAt(k) == Place("Buy", "Limit", QuotePrice("Buy", mid, k), Lots("Buy"))
           askAt(k) == Place("Sell", "Limit", QuotePrice("Sell", mid, k), Lots("Sell"))
<1>1. PICK k \in Skews :
        OnMarketData([st EXCEPT !.bid_id = IF bidAt(k) = << >> THEN 0 ELSE next_our_id,
                                !.ask_id = IF askAt(k) = << >> THEN 0
                                           ELSE next_our_id + Len(bidAt(k))],
                     CancelQuotes \o bidAt(k) \o askAt(k), "quote")
    BY DEF HMOnMarketData
<1>2. k \in Int /\ mid \in Int /\ BaseHalfSpread \in Nat \ {0} /\ QuoteSize \in Nat \ {0}
    BY MidType, HMAssumption DEF Skews
<1>3. PICK pb \in Int, pa \in Int :
        pb = QuotePrice("Buy", mid, k) /\ pa = QuotePrice("Sell", mid, k) /\ pb < pa
    <2> HIDE DEF mid
    <2> QED
        BY <1>2 DEF QuotePrice
<1>4. PICK nb \in {0, QuoteSize}, na \in {0, QuoteSize} :
        /\ nb = IF "Buy" \in QuotedSides THEN QuoteSize ELSE 0
        /\ na = IF "Sell" \in QuotedSides THEN QuoteSize ELSE 0
    OBVIOUS
<1>5. PICK bid, ask : bid = Place("Buy", "Limit", pb, nb) /\ ask = Place("Sell", "Limit", pa, na)
    OBVIOUS
<1>6. bid = bidAt(k) /\ ask = askAt(k)
    BY <1>3, <1>4, <1>5 DEF Lots
<1>7. PICK m :
        /\ m = [st EXCEPT !.bid_id = IF bid = << >> THEN 0 ELSE next_our_id,
                          !.ask_id = IF ask = << >> THEN 0 ELSE next_our_id + Len(bid)]
        /\ OnMarketData(m, CancelQuotes \o bid \o ask, "quote")
    BY <1>1, <1>6
<1> HIDE DEF mid, bidAt, askAt
<1>8. /\ bid = << >> <=> nb = 0
      /\ ask = << >> <=> na = 0
      /\ nb # 0 => Len(bid) = 1
    BY <1>5 DEF Place
<1>9. next_our_id \in Nat /\ next_our_id + 1 \in Nat
    BY GivenIds
<1>10. /\ m.bid_id = IF nb = 0 THEN 0 ELSE next_our_id
       /\ m.ask_id = IF na = 0 THEN 0 ELSE IF nb = 0 THEN next_our_id ELSE next_our_id + 1
       /\ m.inventory = st.inventory
       /\ m \in [bid_id : Nat, ask_id : Nat, inventory : Int]
    <2>1. st \in [bid_id : Nat, ask_id : Nat, inventory : Int]
        BY DEF HMType
    <2>2. nb = 0 => Len(bid) = 0
        BY <1>8
    <2>3. PICK x, y :
            /\ x = IF nb = 0 THEN 0 ELSE next_our_id
            /\ y = IF na = 0 THEN 0 ELSE IF nb = 0 THEN next_our_id ELSE next_our_id + 1
        OBVIOUS
    <2>4. m = [st EXCEPT !.bid_id = x, !.ask_id = y]
        <3>1. x = IF bid = << >> THEN 0 ELSE next_our_id
            BY <1>8, <2>3
        <3>2. y = IF ask = << >> THEN 0 ELSE next_our_id + Len(bid)
            <4>1. CASE na = 0
                BY <1>8, <2>3, <4>1
            <4>2. CASE na # 0 /\ nb = 0
                <5>1. ask # << >> /\ Len(bid) = 0 /\ y = next_our_id
                    BY <1>8, <2>2, <2>3, <4>2
                <5> QED
                    BY <1>9, <5>1
            <4>3. CASE na # 0 /\ nb # 0
                <5>1. ask # << >> /\ Len(bid) = 1 /\ y = next_our_id + 1
                    BY <1>8, <2>3, <4>3
                <5> QED
                    BY <5>1
            <4> QED
                BY <4>1, <4>2, <4>3
        <3> QED
            BY <1>7, <3>1, <3>2
    <2>5. /\ m \in [bid_id : Nat, ask_id : Nat, inventory : Int]
          /\ m.bid_id = x /\ m.ask_id = y /\ m.inventory = st.inventory
        <3>1. x \in Nat /\ y \in Nat
            BY <1>9, <2>3
        <3> QED
            BY <2>1, <2>4, <3>1
    <2> QED
        BY <2>3, <2>5
<1>11. CancelQuotes \o bid \o ask = Requoting(st.bid_id, st.ask_id, pb, nb, pa, na)
    BY <1>5 DEF CancelQuotes, Requoting
<1>12. Requote(pb, nb, pa, na)
    BY <1>7, <1>10, <1>11 DEF Requote
<1>13. st' = m
    BY <1>7 DEF OnMarketData
<1> QED
    BY <1>3, <1>4, <1>10, <1>12, <1>13 DEF HMType

LEMMA HMFills ==
    ASSUME SBase, HMType, ToldFill(HMOnFill(st, NextFill))
    PROVE  /\ Remembers(HMOnFill(st, NextFill), FALSE)
           /\ st'.inventory = IF NextFill.is_ours THEN st.inventory + SignedQty(NextFill)
                                                  ELSE st.inventory
           /\ SignedQty(NextFill) \in Int
           /\ HMType'
<1>1. RouteFill /\ st' = IF NextFill.is_ours THEN HMOnFill(st, NextFill) ELSE st
    BY DEF ToldFill
<1>2. NextFill.qty \in Nat
    BY <1>1, FillTold
<1>3. SignedQty(NextFill) \in Int
    BY <1>2 DEF SignedQty
<1>4. PICK f, d : f = HMOnFill(st, NextFill) /\ d = SignedQty(NextFill)
    OBVIOUS
<1>5. st \in [bid_id : Nat, ask_id : Nat, inventory : Int]
    BY DEF HMType
<1>6. f = [st EXCEPT !.inventory = st.inventory + d]
    BY <1>4 DEF HMOnFill
<1>7. /\ f \in [bid_id : Nat, ask_id : Nat, inventory : Int]
      /\ f.bid_id = st.bid_id /\ f.ask_id = st.ask_id /\ f.inventory = st.inventory + d
    BY <1>3, <1>4, <1>5, <1>6
<1> QED
    BY <1>1, <1>3, <1>4, <1>5, <1>7 DEF Remembers, HMType

LEMMA HMStepsQuote ==
    ASSUME SBase, HMType, [HMNext]_slVars
    PROVE  [QuoteStep(FALSE, QuoteSize, TRUE)]_slVars /\ HMType'
<1>1. CASE HMOnMarketData /\ TwoSided
    BY <1>1, HMRequotes DEF QuoteStep
<1>2. CASE HMOnMarketData /\ ~TwoSided
    BY <1>2 DEF HMOnMarketData, QuoteStep, OnMarketData, HMType
<1>3. CASE ToldFill(HMOnFill(st, NextFill))
    BY <1>3, HMFills DEF QuoteStep
<1>4. CASE SLStep \/ UNCHANGED slVars
    <2>1. st' = st
        BY <1>4 DEF SLStep, Issue, EventApplied, CancelArrives, LoopStep, slVars, stratVars
    <2> QED
        BY <1>4, <2>1 DEF QuoteStep, HMType
<1> QED
    BY <1>1, <1>2, <1>3, <1>4 DEF HMNext

HMInv == SBase /\ HMType /\ QInv(FALSE, QuoteSize)

LEMMA InitHMInv == HMInit => HMInv
<1> SUFFICES ASSUME HMInit PROVE HMInv
    OBVIOUS
<1>1. PICK m : m = [bid_id |-> 0, ask_id |-> 0, inventory |-> 0] /\ SLInit(m)
    BY DEF HMInit
<1>2. m \in [bid_id : Nat, ask_id : Nat, inventory : Int] /\ m.bid_id = 0 /\ m.ask_id = 0
    BY <1>1
<1>3. st = m
    BY <1>1 DEF SLInit
<1>4. SBase
    BY <1>1, InitSBase
<1>5. QInv(FALSE, QuoteSize)
    BY <1>1, <1>2, InitQInv
<1> QED
    BY <1>2, <1>3, <1>4, <1>5 DEF HMInv, HMType

LEMMA StepHMInv ==
    ASSUME TapeIdsApart, HMInv, OrdersFit, [HMNext]_slVars
    PROVE  HMInv'
<1>1. SBase /\ HMType /\ QInv(FALSE, QuoteSize) /\ QuoteIds
    BY DEF HMInv, QInv
<1>2. QuoteSize \in Nat \ {0} /\ QuoteSize \in Nat /\ FALSE \in BOOLEAN
    BY HMAssumption
<1>3. [QuoteStep(FALSE, QuoteSize, TRUE)]_slVars /\ HMType'
    BY <1>1, HMStepsQuote
<1>4. [StrategyStep]_slVars
    BY <1>1, <1>2, <1>3, QuoteStepsStrategy
<1>5. SBase'
    BY <1>1, <1>4, StepSBase
<1>6. QInv(FALSE, QuoteSize)'
    BY <1>1, <1>2, <1>3, StepQInv
<1> QED
    BY <1>3, <1>5, <1>6 DEF HMInv

\* Partial fills leave no strays: between callbacks every order of the strategy
\* that can still trade is a quote it remembers, has its cancel on the way, or
\* is one whose cancel overtook it.
THEOREM NothingStrays ==
    ASSUME TapeIdsApart
    PROVE  HMSpec /\ []OrdersFit => []StraysAreLostCancels
<1>1. ASSUME HMInv
      PROVE  StraysAreLostCancels
    <2> SUFFICES ASSUME Quiet, NEW id \in DOMAIN orders, Open(id)
                 PROVE  id \in {st.bid_id, st.ask_id} \/ Recalled(id)
        BY DEF StraysAreLostCancels
    <2>1. Outstanding(id)
        BY DEF Open, RestingQty, PendingQty, Outstanding, Awaited
    <2>2. ~WithdrawalDue(id)
        BY <1>1, NothingWaits DEF HMInv, Quiet
    <2> QED
        BY <1>1, <2>1, <2>2 DEF HMInv, QInv, Tracked, Quoted
<1>2. HMInit => HMInv
    BY InitHMInv
<1>3. HMInv /\ OrdersFit /\ [HMNext]_slVars => HMInv'
    BY StepHMInv
<1>4. HMInv => StraysAreLostCancels
    BY <1>1
<1> QED
    BY <1>2, <1>3, <1>4, PTL DEF HMSpec

\* What the engine works on when it is an own order: one it worked on already,
\* or the one just taken from the heap.
LEMMA OursInTheEngine ==
    ASSUME IInv, [LoopNext]_vars, phase' # "idle", in'.is_ours
    PROVE  \/ /\ phase # "idle" /\ in.is_ours
              /\ in'.id = in.id /\ in'.price = in.price /\ in'.side = in.side
              /\ in'.qty = in.qty /\ in'.type = in.type
           \/ /\ DrainOrder /\ in'.id = Top.id /\ in'.price = orders[Top.id].price
              /\ in'.qty = orders[Top.id].qty /\ in'.remaining = orders[Top.id].qty
<1>1. CASE DrainOrder
    <2>1. PICK k : k = Top.id
        OBVIOUS
    <2>2. Submit(OwnSubmission(k))
        BY <1>1, <2>1 DEF DrainOrder
    <2> QED
        BY <1>1, <2>1, <2>2 DEF Submit, OwnSubmission, OnAccept, OnReject
<1>2. CASE ApplyOrder
    BY <1>2 DEF ApplyOrder, Submit, OnAccept, OnReject
<1>3. CASE DrainCancel \/ ApplyCancel \/ OursDone \/ TapeDone
    BY <1>3 DEF DrainCancel, ApplyCancel, Cancel, OursDone, TapeDone, Return
<1>4. CASE EngineStep
    <2>1. phase # "idle" /\ (in' = in \/ in' = OnCancel(in) \/ \E n : in' = OnFill(in, n))
        BY <1>4 DEF EngineStep, Trade, Settle, Rest, Discard, Complete
    <2>2. in \in Order
        BY <2>1 DEF IInv, TypeOK
    <2> QED
        BY <2>1, <2>2 DEF OnCancel, OnFill, Order
<1>5. CASE \/ \E o \in Submittable, lat \in Latency : SubmitOwn(o, lat)
           \/ \E k \in DOMAIN orders, lat \in Latency : CancelOwn(k, lat)
           \/ \E e \in Tape, gap \in Gaps : NextEvent(e, gap)
           \/ EndCallback \/ Flush \/ Drained \/ RouteFill \/ Stopped \/ UNCHANGED vars
    <2>1. UNCHANGED engineVars
        BY <1>5 DEF SubmitOwn, CancelOwn, NextEvent, EndCallback, Flush, Drained, RouteFill,
                    Stopped, vars
    <2> QED
        BY <2>1 DEF engineVars
<1> QED
    BY <1>1, <1>2, <1>3, <1>4, <1>5 DEF LoopNext, BTStep

(***************************************************************************)
(* Own orders carry their price with them, and the bid of one requote is   *)
(* below its ask.                                                          *)
(***************************************************************************)
OwnPrices ==
    /\ \A id \in DOMAIN orders : id \in Resting(book) => book.index[id].price = orders[id].price
    /\ phase # "idle" /\ in.is_ours => in.price = orders[in.id].price

LEMMA StepOwnPrices ==
    ASSUME SBase, OrdersFit, OwnPrices, [StrategyStep]_slVars
    PROVE  OwnPrices'
<1>1. CASE Issue
    <2>1. UNCHANGED engineVars
        BY <1>1, Issued DEF SBase
    <2>2. book' = book /\ in' = in /\ phase' = phase
        BY <2>1 DEF engineVars
    <2>3. \A id \in DOMAIN orders : id \in DOMAIN orders' /\ orders'[id] = orders[id]
        BY StrategyStepsLoop, OrdersGrow DEF SBase
    <2>4. phase # "idle" /\ in.is_ours => in.id \in DOMAIN orders
        BY DEF SBase, OInv, Ownership, Belongs
    <2>5. \A id \in DOMAIN orders' \ DOMAIN orders : id \notin Resting(book)
        <3>1. CASE Head(todo).is_cancel
            BY <1>1, <3>1, IssuedCancel
        <3>2. CASE ~Head(todo).is_cancel
            <4>1. PICK k : k = next_our_id
                OBVIOUS
            <4>2. DOMAIN orders' = DOMAIN orders \cup {k} /\ ~Outstanding(k)
                BY <1>1, <3>2, <4>1, IssuedOrder
            <4> QED
                BY <4>2 DEF Outstanding
        <3> QED
            BY <3>1, <3>2
    <2> QED
        BY <2>2, <2>3, <2>4, <2>5 DEF OwnPrices
<1>2. CASE ~Issue
    <2>1. seq' = seq /\ [LoopNext]_vars
        BY <1>2, NothingIssued, StrategyStepsLoop DEF SBase
    <2>2. orders' = orders
        BY <2>1, TimeGoesOn DEF SBase
    <2>3. \A id \in DOMAIN orders : Passes(id)
        BY <2>1, Passage DEF SBase
    <2>4. phase' # "idle" /\ in'.is_ours =>
            \/ phase # "idle" /\ in.is_ours /\ in'.id = in.id /\ in'.price = in.price
            \/ in'.id = Top.id /\ in'.price = orders[Top.id].price
        BY <2>1, OursInTheEngine DEF SBase, BInv
    <2>5. phase' # "idle" /\ in'.is_ours => in'.price = orders[in'.id].price
        BY <2>4 DEF OwnPrices
    <2>6. ASSUME NEW id \in DOMAIN orders, id \in Resting(book')
          PROVE  book'.index[id].price = orders[id].price
        <3>1. CASE SameEntry(id)
            BY <3>1 DEF SameEntry, OwnPrices
        <3>2. CASE Rested(id)
            <4>1. phase # "idle" /\ in.id = id /\ book'.index[id].price = in.price
                BY <3>2 DEF Rested, Working
            <4>2. in.is_ours
                <5>1. id \in 1 .. MaxCommands
                    BY OwnTypes DEF SBase
                <5> QED
                    BY <4>1, <5>1 DEF SBase, OInv, Ownership, Belongs
            <4> QED
                BY <4>1, <4>2 DEF OwnPrices
        <3> QED
            BY <2>3, <2>6, <3>1, <3>2 DEF Passes
    <2> QED
        BY <2>2, <2>5, <2>6 DEF OwnPrices
<1> QED
    BY <1>1, <1>2

\* The bid waiting to be placed, or placed last, is below the ask waiting, and
\* when both are placed below the ask.
Wide ==
    /\ \A i, j \in DOMAIN todo :
          i < j /\ ~todo[i].is_cancel => todo[i].order.price < todo[j].order.price
    /\ ~HasPlace("Buy") /\ st.bid_id \in DOMAIN orders =>
          \A i \in DOMAIN todo :
              IsPlace(todo[i], "Sell") => orders[st.bid_id].price < todo[i].order.price
    /\ st.bid_id \in DOMAIN orders /\ st.ask_id \in DOMAIN orders =>
          orders[st.bid_id].price < orders[st.ask_id].price

LEMMA StepWide ==
    ASSUME SBase, OrdersFit, NEW n \in Nat \ {0}, QInv(FALSE, n), Wide,
           [QuoteStep(FALSE, n, TRUE)]_slVars
    PROVE  Wide'
<1>0. QuoteIds /\ BidFirst(todo) /\ LimitsOf(todo, n)
    BY DEF QInv
<1>1. ASSUME todo' = todo, orders' = orders, st'.bid_id = st.bid_id, st'.ask_id = st.ask_id
      PROVE  Wide'
    BY <1>1 DEF Wide, HasPlace
<1>2. CASE \E pb, pa \in Int, nb, na \in {0, n} : Requote(pb, nb, pa, na) /\ pb < pa
    <2>1. PICK pb \in Int, pa \in Int, nb \in {0, n}, na \in {0, n} :
            Requote(pb, nb, pa, na) /\ pb < pa
        BY <1>2
    <2>2. /\ UNCHANGED vars /\ RequoteOf(todo', Quoted \ {0}, n, pb, nb, pa, na)
          /\ st'.bid_id = IF nb = 0 THEN 0 ELSE next_our_id
        BY <1>0, <2>1, RequoteTodo
    <2>3. orders' = orders
        BY <2>2, SameVarsOrders
    <2>4. st'.bid_id \notin DOMAIN orders'
        BY <2>2, <2>3, GivenIds
    <2> QED
        BY <2>1, <2>2, <2>4 DEF RequoteOf, BidFirst, Wide
<1>3. CASE OnMarketData(st, << >>, "none")
    <2>1. todo' = << >> /\ st' = st /\ orders' = orders
        BY <1>3 DEF OnMarketData, vars, ownVars
    <2>2. DOMAIN todo' = {}
        BY <2>1
    <2> QED
        BY <2>1, <2>2 DEF Wide
<1>4. CASE Issue
    <2>0. CallbackInv /\ todo # << >> /\ todo' = Tail(todo) /\ todo \in Seq(ToDo)
        BY <1>4, IssueCases DEF SBase, CallbackInv
    <2>1. /\ IsPlace(Head(todo), "Buy") => ~HasPlace("Buy")'
          /\ IsPlace(Head(todo), "Sell") => ~HasPlace("Buy") /\ ~HasPlace("Sell")'
          /\ ~Head(todo).is_cancel =>
                IsPlace(Head(todo), "Buy") \/ IsPlace(Head(todo), "Sell")
        BY <1>0, <2>0, TailShape
    <2>2. /\ \A i \in DOMAIN todo' : i + 1 \in DOMAIN todo /\ todo'[i] = todo[i + 1] /\ i \in Nat
                                     /\ 1 < i + 1
          /\ 1 \in DOMAIN todo /\ Head(todo) = todo[1]
        <3>1. todo' \in Seq(ToDo)
            BY <2>0, HeadOfTodo
        <3> QED
            BY <2>0, <3>1, TailOfTodo
    <2>3. \A i, j \in DOMAIN todo' :
            i < j /\ ~todo'[i].is_cancel => todo'[i].order.price < todo'[j].order.price
        BY <2>2 DEF Wide
    <2>4. ASSUME ~HasPlace("Buy")', st'.bid_id \in DOMAIN orders',
                 NEW i \in DOMAIN todo', IsPlace(todo'[i], "Sell")
          PROVE  orders'[st'.bid_id].price < todo'[i].order.price
        <3>1. CASE Head(todo).is_cancel
            <4>1. orders' = orders /\ st' = st
                BY <1>4, <3>1, IssuedCancel
            <4>2. ~HasPlace("Buy")
                BY <2>0, <2>4, <3>1, TailOfTodo DEF IsPlace
            <4> QED
                BY <2>2, <2>4, <4>1, <4>2 DEF Wide
        <3>2. CASE IsPlace(Head(todo), "Buy")
            <4>1. PICK k : k = next_our_id
                OBVIOUS
            <4>2. st' = st /\ orders'[k].price = Head(todo).order.price
                BY <1>4, <3>2, <4>1, IssuedOrder DEF IsPlace
            <4>3. st.bid_id = k
                BY <1>0, <2>0, <3>2, <4>1, TailOfTodo DEF QuoteIds
            <4>4. todo[1].order.price < todo[i + 1].order.price
                BY <2>2, <2>4, <3>2 DEF Wide, IsPlace
            <4> QED
                BY <2>2, <4>2, <4>3, <4>4
        <3>3. CASE IsPlace(Head(todo), "Sell")
            BY <2>1, <2>4, <3>3 DEF HasPlace
        <3> QED
            BY <2>1, <3>1, <3>2, <3>3
    <2>5. ASSUME st'.bid_id \in DOMAIN orders', st'.ask_id \in DOMAIN orders'
          PROVE  orders'[st'.bid_id].price < orders'[st'.ask_id].price
        <3>1. CASE Head(todo).is_cancel
            <4>1. orders' = orders /\ st' = st
                BY <1>4, <3>1, IssuedCancel
            <4> QED
                BY <2>5, <4>1 DEF Wide
        <3>2. CASE IsPlace(Head(todo), "Buy")
            <4>1. PICK k : k = next_our_id
                OBVIOUS
            <4>2. st' = st /\ DOMAIN orders' = DOMAIN orders \cup {k} /\ k \in Nat \ {0}
                BY <1>4, <3>2, <4>1, IssuedOrder DEF IsPlace
            <4>3. st.ask_id = k + 1 \/ st.ask_id = 0
                BY <1>0, <2>0, <3>2, <4>1, TailOfTodo DEF QuoteIds
            <4>4. k + 1 \notin DOMAIN orders /\ 0 \notin DOMAIN orders
                BY <4>1, GivenIds
            <4> QED
                BY <2>5, <4>2, <4>3, <4>4
        <3>3. CASE IsPlace(Head(todo), "Sell")
            <4>1. PICK k : k = next_our_id
                OBVIOUS
            <4>2. /\ st' = st /\ orders'[k].price = Head(todo).order.price
                  /\ DOMAIN orders' = DOMAIN orders \cup {k} /\ k \in Nat \ {0}
                  /\ \A id \in DOMAIN orders : orders'[id] = orders[id]
                BY <1>4, <3>3, <4>1, IssuedOrder DEF IsPlace
            <4>3. st.ask_id = k /\ st.bid_id < k /\ ~HasPlace("Buy")
                BY <1>0, <2>0, <2>1, <3>3, <4>1, TailOfTodo DEF QuoteIds
            <4>4. st.bid_id \in DOMAIN orders
                BY <2>5, <4>2, <4>3
            <4>5. orders[st.bid_id].price < todo[1].order.price
                BY <2>2, <3>3, <4>3, <4>4 DEF Wide
            <4> QED
                BY <2>2, <4>2, <4>3, <4>4, <4>5
        <3> QED
            BY <2>1, <3>1, <3>2, <3>3
    <2> QED
        BY <2>3, <2>4, <2>5 DEF Wide
<1>5. ASSUME ~Issue
      PROVE  orders' = orders
    <2>1. [StrategyStep]_slVars
        BY <1>0, QuoteStepsStrategy
    <2>2. seq' = seq /\ [LoopNext]_vars
        BY <1>5, <2>1, NothingIssued, StrategyStepsLoop DEF SBase
    <2> QED
        BY <2>2, TimeGoesOn DEF SBase
<1>6. CASE ~Issue /\ \E m : ToldFill(m) /\ Remembers(m, FALSE)
    <2>1. todo' = todo /\ st'.bid_id = st.bid_id /\ st'.ask_id = st.ask_id
        BY <1>6 DEF ToldFill, Remembers
    <2> QED
        BY <1>1, <1>5, <1>6, <2>1
<1>7. CASE ~Issue /\ (EventApplied \/ CancelArrives \/ LoopStep \/ UNCHANGED slVars)
    <2>1. todo' = todo /\ st' = st
        BY <1>7 DEF EventApplied, CancelArrives, LoopStep, slVars, stratVars
    <2> QED
        BY <1>1, <1>5, <1>7, <2>1
<1> QED
    BY <1>2, <1>3, <1>4, <1>6, <1>7 DEF QuoteStep, SLStep
\* A trade is with the front order of the best level, which the price crosses.
LEMMA TradeCrosses ==
    ASSUME IInv, Trade
    PROVE  \E r \in RestingOrder, p \in Price, x \in Fill, y \in Fill :
             /\ Crosses(in, p) /\ Entry(book, r.id) = r /\ r.id \in Resting(book)
             /\ book.index[r.id] = [side |-> Opp, price |-> p]
             /\ fills' = fills \o <<x, y>>
             /\ x.is_ours = in.is_ours /\ y.is_ours = r.is_ours
             /\ x.order_id = in.id /\ y.order_id = r.id
<1> DEFINE p == Best(book, Opp)
           r == FrontNode(book, Opp, p)
           n == Traded(r)
           x == FillOf(in.id, in.side, p, n, in.is_ours, FALSE)
           y == FillOf(r.id, Opp, p, n, r.is_ours, TRUE)
<1>1. phase = "match" /\ Matching /\ fills' = fills \o <<x, y>>
    BY DEF Trade
<1>2. WellFormed(book) /\ IsBook(book) /\ in \in Order /\ Opp \in Side /\ in.side \in Side
    BY <1>1, InvBook
<1>3. p \in Prices(book, Opp) /\ Crosses(in, p)
    BY <1>1, <1>2, BestIsBest DEF Matching
<1>4. r \in RestingOrder /\ r.qty \in Quantity /\ r.id \in OrderId /\ p \in Price
    BY <1>2, <1>3, FrontTypes DEF IsBook
<1>5. n \in Quantity
    <2> HIDE DEF r
    <2> QED
        BY <1>1, <1>2, <1>4, MaxQtyAssumption DEF Traded, Matching, Order, Quantity
<1>6. x \in Fill /\ y \in Fill
    <2> HIDE DEF p, n, r
    <2>1. in.id \in OrderId /\ in.is_ours \in BOOLEAN /\ r.is_ours \in BOOLEAN
        BY <1>2, <1>4 DEF Order, RestingOrder
    <2> QED
        BY <1>2, <1>4, <1>5, <2>1, FillType
<1>7. x.is_ours = in.is_ours /\ y.is_ours = r.is_ours /\ x.order_id = in.id /\ y.order_id = r.id
    BY DEF FillOf
<1>8. r.id \in Resting(book) /\ book.index[r.id] = [side |-> Opp, price |-> p]
      /\ Entry(book, r.id) = r
    <2>1. HasNode(book, Opp, p, r)
        BY <1>2, <1>3, FrontTypes DEF HasNode
    <2> HIDE DEF r
    <2> QED
        BY <1>2, <2>1, NodeIsEntry
<1> HIDE DEF p, r, n, x, y
<1> QED
    BY <1>1, <1>3, <1>4, <1>6, <1>7, <1>8

\* A step that leaves a trade to be reported is the trade, or changes nothing of it.
LEMMA OnlyTradeTrades ==
    ASSUME [LoopNext]_vars, phase' = "traded"
    PROVE  Trade \/ UNCHANGED engineVars
<1>1. CASE DrainCancel \/ ApplyCancel \/ DrainOrder \/ ApplyOrder \/ OursDone \/ TapeDone
    <2>1. phase' # "traded"
        BY <1>1 DEF DrainCancel, ApplyCancel, DrainOrder, ApplyOrder, OursDone, TapeDone,
                    Cancel, Submit, Return
    <2> QED
        BY <2>1
<1>2. CASE EngineStep
    BY <1>2 DEF EngineStep, Settle, Rest, Discard, Complete
<1>3. CASE RouteFill \/ EndCallback \/ Flush \/ Drained \/ Stopped \/ UNCHANGED vars
    BY <1>3 DEF RouteFill, EndCallback, Flush, Drained, Stopped, vars
<1>4. CASE \/ \E o \in Submittable, lat \in Latency : SubmitOwn(o, lat)
           \/ \E id \in DOMAIN orders, lat \in Latency : CancelOwn(id, lat)
           \/ \E e \in Tape, gap \in Gaps : NextEvent(e, gap)
    BY <1>4 DEF SubmitOwn, CancelOwn, NextEvent
<1> QED
    BY <1>1, <1>2, <1>3, <1>4 DEF LoopNext, BTStep

\* When an own order at work meets another of its own, one of them is recalled.
LEMMA TradeIsWithRecalled ==
    ASSUME SBase, NEW n \in Nat \ {0}, QInv(FALSE, n), OwnPrices, Wide, Trade,
           pending' = pending, lost' = lost
    PROVE  MeetsOnlyRecalled'
<1>1. PICK r \in RestingOrder, p \in Price, x \in Fill, y \in Fill :
             /\ Crosses(in, p) /\ Entry(book, r.id) = r /\ r.id \in Resting(book)
             /\ book.index[r.id] = [side |-> Opp, price |-> p]
             /\ fills' = fills \o <<x, y>>
             /\ x.is_ours = in.is_ours /\ y.is_ours = r.is_ours
             /\ x.order_id = in.id /\ y.order_id = r.id
    BY TradeCrosses DEF SBase, BInv
<1>2. PICK m \in Nat : Len(fills') = m + 2 /\ fills'[m + 1] = x /\ fills'[m + 2] = y
    <2>1. fills \in Seq(Fill)
        BY DEF SBase, BInv, IInv, TypeOK
    <2>2. PICK q \in Seq(Fill) : fills' = q \o <<x, y>>
        BY <1>1, <2>1
    <2>3. ASSUME NEW u \in Seq(Fill), u = q \o <<x, y>>
          PROVE  Len(u) = Len(q) + 2 /\ u[Len(q) + 1] = x /\ u[Len(q) + 2] = y
        BY <2>3
    <2>4. q \o <<x, y>> \in Seq(Fill) /\ Len(q) \in Nat
        OBVIOUS
    <2> QED
        BY <2>2, <2>3, <2>4
<1>3. PICK a : a = in.id
    OBVIOUS
<1>4. PICK k : k = r.id
    OBVIOUS
<1>5. fills'[Len(fills')] = y /\ fills'[Len(fills') - 1] = x
    BY <1>2
<1>6. \A id : Recalled(id)' <=> Recalled(id)
    BY DEF Recalled, BeingCancelled
<1>7. SUFFICES ASSUME in.is_ours, r.is_ours, ~Recalled(a), ~Recalled(k)
               PROVE  FALSE
    <2>1. OwnOnBothSides' => in.is_ours /\ r.is_ours
        BY <1>1, <1>5 DEF OwnOnBothSides
    <2>2. Recalled(a) \/ Recalled(k) =>
            \E f \in {fills'[Len(fills')], fills'[Len(fills') - 1]} : Recalled(f.order_id)'
        BY <1>1, <1>3, <1>4, <1>5, <1>6
    <2> QED
        BY <2>1, <2>2 DEF MeetsOnlyRecalled
<1>8. phase = "match" /\ in \in Order
    BY DEF Trade, SBase, BInv, IInv, TypeOK
<1>9. a \in DOMAIN orders /\ orders[a].side = in.side /\ in.type = orders[a].type
      /\ in.price = orders[a].price
    BY <1>3, <1>7, <1>8 DEF SBase, OInv, Ownership, Belongs, OwnPrices
<1>10. k \in DOMAIN orders /\ orders[k].side = Opp /\ orders[k].price = p /\ k \in Resting(book)
    <2>1. Entry(book, k).is_ours /\ book.index[k].side = Opp /\ book.index[k].price = p
          /\ k \in Resting(book)
        BY <1>1, <1>4, <1>7
    <2>2. Belongs(k, TRUE, Opp)
        BY <2>1 DEF SBase, OInv, Ownership
    <2> QED
        BY <2>1, <2>2 DEF Belongs, OwnPrices
<1>11. a \in Quoted /\ k \in Quoted
    <2>1. Outstanding(a) /\ Outstanding(k)
        BY <1>3, <1>8, <1>10 DEF Outstanding, Working
    <2>2. at # "data"
        BY <1>8 DEF SBase, BInv, LInv, Control
    <2>3. \A id : ~WithdrawalDue(id)
        BY <2>2, NothingWaits DEF SBase, CallbackInv
    <2> QED
        BY <1>7, <1>9, <1>10, <2>1, <2>3 DEF QInv, Tracked
<1>12. in.side \in Side /\ in.type = "Limit" /\ in.price \in Int /\ p \in Int
    <2>1. in.type = "Limit"
        BY <1>9 DEF QInv, OwnAre
    <2>2. in.side \in Side /\ in.price \in Price
        BY <1>8 DEF Order
    <2> QED
        BY <2>1, <2>2, PriceAssumption
<1>13. /\ st.bid_id \in DOMAIN orders => orders[st.bid_id].side = "Buy"
       /\ st.ask_id \in DOMAIN orders => orders[st.ask_id].side = "Sell"
    BY DEF QInv, QuoteIds
<1>14. CASE in.side = "Buy"
    <2>1. a = st.bid_id /\ k = st.ask_id
        BY <1>9, <1>10, <1>11, <1>13, <1>14 DEF Quoted, Opp, Opposite
    <2>2. in.price < p
        BY <1>9, <1>10, <2>1 DEF Wide
    <2> QED
        BY <1>1, <1>12, <1>14, <2>2 DEF Crosses
<1>15. CASE in.side = "Sell"
    <2>1. a = st.ask_id /\ k = st.bid_id
        BY <1>9, <1>10, <1>11, <1>13, <1>15 DEF Quoted, Opp, Opposite
    <2>2. p < in.price
        BY <1>9, <1>10, <2>1 DEF Wide
    <2> QED
        BY <1>1, <1>12, <1>15, <2>2 DEF Crosses
<1> QED
    BY <1>12, <1>14, <1>15 DEF Side

LEMMA StepMeets ==
    ASSUME SBase, OrdersFit, NEW n \in Nat \ {0}, QInv(FALSE, n), OwnPrices, Wide,
           MeetsOnlyRecalled, [StrategyStep]_slVars
    PROVE  MeetsOnlyRecalled'
<1>1. [LoopNext]_vars
    BY StrategyStepsLoop DEF SBase
<1>2. phase # "idle" => pending' = pending /\ lost' = lost
    <2> SUFFICES ASSUME phase # "idle"
                 PROVE  pending' = pending /\ lost' = lost
        OBVIOUS
    <2>1. ~Issue
        BY IssueCases DEF SBase, BInv, LInv, Control
    <2>2. ~DrainOrder /\ ~CancelArrives
        BY DEF DrainOrder, Submit, CancelArrives, DrainCancel, Cancel
    <2> QED
        BY <2>1, <2>2, HeapSteps
<1>3. CASE phase' # "traded"
    BY <1>3 DEF MeetsOnlyRecalled, OwnOnBothSides
<1>4. CASE Trade
    <2>1. phase # "idle"
        BY <1>4 DEF Trade
    <2> QED
        BY <1>2, <1>4, <2>1, TradeIsWithRecalled
<1>5. CASE phase' = "traded" /\ UNCHANGED engineVars
    <2>1. phase = "traded" /\ fills' = fills
        BY <1>5 DEF engineVars
    <2>2. pending' = pending /\ lost' = lost
        BY <1>2, <2>1
    <2> QED
        BY <1>5, <2>1, <2>2 DEF MeetsOnlyRecalled, OwnOnBothSides, Recalled, BeingCancelled
<1> QED
    BY <1>1, <1>3, <1>4, <1>5, OnlyTradeTrades

HMMeets == HMInv /\ OwnPrices /\ Wide /\ MeetsOnlyRecalled

LEMMA InitHMMeets == HMInit => HMMeets
<1> SUFFICES ASSUME HMInit
             PROVE  HMMeets
    OBVIOUS
<1>1. HMInv
    BY InitHMInv
<1>2. BTInit /\ todo = << >>
    BY DEF HMInit, SLInit
<1>3. orders = << >> /\ phase = "idle" /\ Resting(book) = {}
    BY <1>2 DEF BTInit, Init, EmptyBook, Resting
<1>4. DOMAIN orders = {} /\ DOMAIN todo = {}
    BY <1>2, <1>3
<1> QED
    BY <1>1, <1>3, <1>4 DEF HMMeets, OwnPrices, Wide, MeetsOnlyRecalled, OwnOnBothSides

LEMMA StepHMMeets ==
    ASSUME TapeIdsApart, HMMeets, OrdersFit, [HMNext]_slVars
    PROVE  HMMeets'
<1>1. SBase /\ HMType /\ QInv(FALSE, QuoteSize) /\ QuoteIds
    BY DEF HMMeets, HMInv, QInv
<1>2. QuoteSize \in Nat \ {0} /\ QuoteSize \in Nat
    BY HMAssumption
<1>3. [QuoteStep(FALSE, QuoteSize, TRUE)]_slVars
    BY <1>1, HMStepsQuote
<1>4. HMInv'
    BY StepHMInv DEF HMMeets
<1>5. [StrategyStep]_slVars
    BY <1>1, <1>2, <1>3, QuoteStepsStrategy
<1>6. OwnPrices'
    BY <1>1, <1>5, StepOwnPrices DEF HMMeets
<1>7. Wide'
    BY <1>1, <1>2, <1>3, StepWide DEF HMMeets
<1>8. MeetsOnlyRecalled'
    BY <1>1, <1>2, <1>5, StepMeets DEF HMMeets
<1> QED
    BY <1>4, <1>6, <1>7, <1>8 DEF HMMeets

\* The two quotes of one requote never meet, wherever the signal moves the skew
\* to, and a quote of an earlier one only if a cancel sent for it has not stopped
\* it: the new quote overtook the cancel, or the cancel its order.
THEOREM OldQuotesMeetOnlyRecalled ==
    ASSUME TapeIdsApart
    PROVE  HMSpec /\ []OrdersFit => []MeetsOnlyRecalled
<1>1. HMInit => HMMeets
    BY InitHMMeets
<1>2. HMMeets /\ OrdersFit /\ [HMNext]_slVars => HMMeets'
    BY StepHMMeets
<1>3. HMMeets => MeetsOnlyRecalled
    BY DEF HMMeets
<1> QED
    BY <1>1, <1>2, <1>3, PTL DEF HMSpec

(***************************************************************************)
(* MarketMaker, which forgets a quote as soon as something of it is filled. *)
(* What it still remembers is therefore unfilled, and no cancel of it has  *)
(* been executed: it is open.                                              *)
(***************************************************************************)
MMType ==
    st \in [last_mid : Int, bid_id : Nat, ask_id : Nat, inventory : Int, have_quotes : BOOLEAN]

Untouched == \A id \in Quoted : id \in DOMAIN orders => filled[id] = 0 /\ id \notin withdrawn

\* Having quotes means having those that the cap allows.
Posted ==
    st.have_quotes => /\ st.bid_id = 0 <=> st.inventory >= MaxPos
                      /\ st.ask_id = 0 <=> 0 - st.inventory >= MaxPos

LEMMA MMRequotes ==
    ASSUME SBase, MMType, TwoSided, ~Unchanged, MMOnMarketData
    PROVE  \E pb, pa \in Int, nb, na \in {0, MakerSize} :
             /\ Requote(pb, nb, pa, na) /\ MMType' /\ Posted'
             /\ nb = 0 <=> st.inventory >= MaxPos
             /\ na = 0 <=> 0 - st.inventory >= MaxPos
             /\ st'.inventory = st.inventory
<1>1. PICK bsz, asz, mid, skew :
        /\ bsz = Capped(st.inventory) /\ asz = Capped(0 - st.inventory)
        /\ mid = Mid /\ skew = Skew
    OBVIOUS
<1>2. st \in [last_mid : Int, bid_id : Nat, ask_id : Nat, inventory : Int, have_quotes : BOOLEAN]
      /\ MakerSize \in Nat \ {0} /\ HalfSpread \in Nat /\ MaxPos \in Nat \ {0}
      /\ next_our_id \in Nat /\ next_our_id # 0
    BY MMAssumption, OwnIds DEF MMType, SBase, BInv, LInv, LoopTypes
<1>3. /\ bsz \in {0, MakerSize} /\ (bsz = 0 <=> st.inventory >= MaxPos)
      /\ asz \in {0, MakerSize} /\ (asz = 0 <=> 0 - st.inventory >= MaxPos)
    <2>1. PICK v \in Int : v = st.inventory
        BY <1>2
    <2> QED
        BY <1>1, <1>2, <2>1 DEF Capped
<1>4. mid \in Int /\ skew \in Int
    <2>1. PICK v \in Int : v = st.inventory * HalfSpread
        BY <1>2
    <2>2. skew = Trunc(v, MaxPos)
        BY <1>1, <2>1 DEF Skew
    <2> QED
        BY <1>1, <1>2, <2>2, MidType DEF Mid, Trunc
<1>5. PICK pb \in Int, pa \in Int : pb = mid - HalfSpread - skew /\ pa = mid + HalfSpread - skew
    BY <1>2, <1>4
<1>6. PICK bid, ask :
        /\ bid = IF bsz = 0 THEN 0 ELSE next_our_id
        /\ ask = IF asz = 0 THEN 0 ELSE IF bsz = 0 THEN next_our_id ELSE next_our_id + 1
    OBVIOUS
<1>7. PICK m : m = [st EXCEPT !.last_mid = mid, !.bid_id = bid, !.ask_id = ask,
                              !.have_quotes = TRUE]
    OBVIOUS
<1>8. OnMarketData(m, WithdrawQuotes \o Place("Buy", "Limit", pb, bsz)
                                     \o Place("Sell", "Limit", pa, asz), "quote")
    BY <1>1, <1>5, <1>6, <1>7 DEF MMOnMarketData
<1>9. bid \in Nat /\ ask \in Nat /\ (bid = 0 <=> bsz = 0) /\ (ask = 0 <=> asz = 0)
    BY <1>2, <1>6
<1>10. /\ m \in [last_mid : Int, bid_id : Nat, ask_id : Nat, inventory : Int,
                 have_quotes : BOOLEAN]
       /\ m.bid_id = bid /\ m.ask_id = ask /\ m.inventory = st.inventory
    BY <1>2, <1>4, <1>7, <1>9
<1>11. st' = m /\ Requote(pb, bsz, pa, asz)
    BY <1>6, <1>8, <1>10 DEF OnMarketData, Requote, Requoting, WithdrawQuotes
<1>12. MMType' /\ Posted'
    BY <1>3, <1>9, <1>10, <1>11 DEF MMType, Posted
<1> QED
    BY <1>3, <1>10, <1>11, <1>12

LEMMA MMFills ==
    ASSUME SBase, MMType, Posted, ToldFill(MMOnFill(st, NextFill))
    PROVE  /\ Remembers(MMOnFill(st, NextFill), TRUE) /\ MMType' /\ Posted'
           /\ st'.inventory = IF NextFill.is_ours THEN st.inventory + SignedQty(NextFill)
                                                  ELSE st.inventory
<1>1. RouteFill /\ st' = IF NextFill.is_ours THEN MMOnFill(st, NextFill) ELSE st
    BY DEF ToldFill
<1>2. NextFill.qty \in Nat
    BY <1>1, FillTold
<1>3. SignedQty(NextFill) \in Int
    BY <1>2 DEF SignedQty
<1>4. PICK f, d, x, y :
        /\ f = MMOnFill(st, NextFill) /\ d = SignedQty(NextFill)
        /\ x = IF st.bid_id = NextFill.order_id THEN 0 ELSE st.bid_id
        /\ y = IF st.ask_id = NextFill.order_id THEN 0 ELSE st.ask_id
    OBVIOUS
<1>5. st \in [last_mid : Int, bid_id : Nat, ask_id : Nat, inventory : Int, have_quotes : BOOLEAN]
    BY DEF MMType
<1>6. f = [st EXCEPT !.inventory = st.inventory + d, !.bid_id = x, !.ask_id = y,
                     !.have_quotes = FALSE]
    BY <1>4 DEF MMOnFill
<1>7. x \in Nat /\ y \in Nat
    BY <1>4, <1>5
<1>8. /\ f \in [last_mid : Int, bid_id : Nat, ask_id : Nat, inventory : Int,
                have_quotes : BOOLEAN]
      /\ f.bid_id = x /\ f.ask_id = y /\ ~f.have_quotes /\ f.inventory = st.inventory + d
    <2>1. PICK e \in Int : e = st.inventory + d
        BY <1>3, <1>4, <1>5
    <2>2. f = [st EXCEPT !.inventory = e, !.bid_id = x, !.ask_id = y, !.have_quotes = FALSE]
        BY <1>6, <2>1
    <2> QED
        BY <1>5, <1>7, <2>1, <2>2
<1>9. st' = f \/ st' = st
    BY <1>1, <1>4
<1>10. MMType' /\ Posted'
    BY <1>5, <1>8, <1>9 DEF MMType, Posted
<1> QED
    BY <1>1, <1>4, <1>8, <1>10 DEF Remembers

LEMMA MMStepsQuote ==
    ASSUME SBase, MMType, Posted, [MMNext]_slVars
    PROVE  [QuoteStep(TRUE, MakerSize, FALSE)]_slVars /\ MMType' /\ Posted'
<1>1. CASE MMOnMarketData /\ ~(~TwoSided \/ Unchanged)
    BY <1>1, MMRequotes DEF QuoteStep
<1>2. CASE MMOnMarketData /\ (~TwoSided \/ Unchanged)
    <2>1. OnMarketData(st, << >>, "none")
        BY <1>2 DEF MMOnMarketData
    <2>2. st' = st
        BY <2>1 DEF OnMarketData
    <2> QED
        BY <2>1, <2>2 DEF QuoteStep, MMType, Posted
<1>3. CASE ToldFill(MMOnFill(st, NextFill))
    BY <1>3, MMFills DEF QuoteStep
<1>4. CASE SLStep \/ UNCHANGED slVars
    <2>1. st' = st
        BY <1>4 DEF SLStep, Issue, EventApplied, CancelArrives, LoopStep, slVars, stratVars
    <2> QED
        BY <1>4, <2>1 DEF QuoteStep, MMType, Posted
<1> QED
    BY <1>1, <1>2, <1>3, <1>4 DEF MMNext

\* Who is filled and who is withdrawn in a step that issues nothing.
LEMMA FilledOrWithdrawn ==
    ASSUME SBase, [LoopNext]_vars, seq' = seq
    PROVE  /\ withdrawn' = withdrawn \/ (DrainCancel /\ withdrawn' \subseteq withdrawn \cup {Top.id})
           /\ \A id \in DOMAIN orders :
                 \/ filled'[id] = filled[id]
                 \/ RouteFill /\ NextFill.is_ours /\ id = NextFill.order_id
<1>1. CASE RouteFill
    <2>1. PICK f : f = NextFill
        OBVIOUS
    <2>2. f.is_ours => f.order_id \in DOMAIN orders
        BY <1>1, <2>1, FillTold
    <2>3. filled' = IF f.is_ours THEN [filled EXCEPT ![f.order_id] = filled[f.order_id] + f.qty]
                                 ELSE filled
        BY <1>1, <2>1 DEF RouteFill, Reported, NextFill
    <2>4. \A id \in DOMAIN orders : filled'[id] = filled[id] \/ (f.is_ours /\ id = f.order_id)
        BY <2>2, <2>3, GivenIds
    <2>5. withdrawn' = withdrawn
        BY <1>1 DEF RouteFill
    <2> QED
        BY <1>1, <2>1, <2>4, <2>5
<1>2. CASE DrainCancel
    BY <1>2 DEF DrainCancel
<1>3. CASE \/ \E o \in Submittable, lat \in Latency : SubmitOwn(o, lat)
           \/ \E k \in DOMAIN orders, lat \in Latency : CancelOwn(k, lat)
    <2>1. seq' = seq + 1 /\ seq \in Nat
        BY <1>3 DEF SubmitOwn, CancelOwn, Enqueue, SBase, BInv, LInv, LoopTypes
    <2> QED
        BY <2>1
<1>4. CASE \/ \E e \in Tape, gap \in Gaps : NextEvent(e, gap)
           \/ Stopped \/ UNCHANGED vars
    BY <1>4 DEF NextEvent, Stopped, vars
<1>5. CASE EndCallback \/ Flush \/ DrainOrder \/ OursDone \/ Drained
           \/ ApplyCancel \/ ApplyOrder \/ TapeDone \/ EngineStep
    BY <1>5 DEF EndCallback, Flush, DrainOrder, OursDone, Drained,
                ApplyCancel, ApplyOrder, TapeDone, EngineStep
<1> QED
    BY <1>1, <1>2, <1>3, <1>4, <1>5 DEF LoopNext, BTStep

LEMMA QuietUntouched ==
    ASSUME SBase, NEW n \in Nat \ {0}, QInv(TRUE, n), Untouched, [LoopNext]_vars, seq' = seq,
           \/ st'.bid_id = st.bid_id /\ st'.ask_id = st.ask_id /\ ~(RouteFill /\ NextFill.is_ours)
           \/ NextFill.is_ours /\ \E m : st' = m /\ Remembers(m, TRUE)
    PROVE  Untouched'
<1>1. orders' = orders /\ 0 \notin DOMAIN orders
    BY TimeGoesOn, GivenIds DEF SBase
<1>2. ASSUME NEW id \in DOMAIN orders, id \in Quoted'
      PROVE  id \in Quoted /\ ~(RouteFill /\ NextFill.is_ours /\ id = NextFill.order_id)
    <2>1. CASE st'.bid_id = st.bid_id /\ st'.ask_id = st.ask_id /\ ~(RouteFill /\ NextFill.is_ours)
        BY <1>2, <2>1 DEF Quoted
    <2>2. CASE NextFill.is_ours /\ \E m : st' = m /\ Remembers(m, TRUE)
        <3>1. PICK k : k = NextFill.order_id
            OBVIOUS
        <3>2. /\ st'.bid_id = IF st.bid_id = k THEN 0 ELSE st.bid_id
              /\ st'.ask_id = IF st.ask_id = k THEN 0 ELSE st.ask_id
            BY <2>2, <3>1 DEF Remembers
        <3>3. id \in {st'.bid_id, st'.ask_id} /\ id # 0
            BY <1>1, <1>2 DEF Quoted
        <3>4. id \in {st.bid_id, st.ask_id} /\ id # k
            BY <3>2, <3>3
        <3> QED
            BY <3>1, <3>4 DEF Quoted
    <2> QED
        BY <2>1, <2>2
<1>3. ASSUME NEW id \in Quoted, id \in DOMAIN orders
      PROVE  id \notin withdrawn'
    <2>1. DrainCancel => id # Top.id
        <3> SUFFICES ASSUME DrainCancel PROVE id # Top.id
            OBVIOUS
        <3>1. Top \in pending /\ Top.is_cancel
            BY TopIsFirst DEF DrainCancel, Due, SBase, BInv, LInv
        <3>2. BeingCancelled(Top.id)
            BY <3>1 DEF BeingCancelled
        <3> QED
            BY <1>3, <3>2 DEF QInv, Fresh, Recalled
    <2> QED
        BY <1>3, <2>1, FilledOrWithdrawn DEF Untouched
<1>4. ASSUME NEW id \in DOMAIN orders, id \in Quoted'
      PROVE  filled'[id] = 0 /\ id \notin withdrawn'
    BY <1>2, <1>3, <1>4, FilledOrWithdrawn DEF Untouched
<1> QED
    BY <1>1, <1>4 DEF Untouched

LEMMA StepUntouched ==
    ASSUME SBase, OrdersFit, NEW n \in Nat \ {0}, QInv(TRUE, n), Untouched,
           [QuoteStep(TRUE, n, FALSE)]_slVars
    PROVE  Untouched'
<1>0. [StrategyStep]_slVars /\ [LoopNext]_vars
    <2>1. QuoteIds /\ n \in Nat
        BY DEF QInv
    <2>2. [StrategyStep]_slVars
        BY <2>1, QuoteStepsStrategy
    <2> QED
        BY <2>2, StrategyStepsLoop DEF SBase
<1>1. CASE Issue
    <2>1. /\ st' = st /\ withdrawn' = withdrawn
          /\ \A id \in DOMAIN orders' :
                \/ id \in DOMAIN orders /\ filled'[id] = filled[id]
                \/ id \notin DOMAIN orders /\ filled'[id] = 0
        <3>1. CASE Head(todo).is_cancel
            <4>1. orders' = orders /\ filled' = filled /\ st' = st
                BY <1>1, <3>1, IssuedCancel
            <4> QED
                BY <1>1, <3>1, <4>1 DEF Issue, CancelOwn
        <3>2. CASE ~Head(todo).is_cancel
            <4>1. PICK k : k = next_our_id
                OBVIOUS
            <4>2. /\ DOMAIN orders' = DOMAIN orders \cup {k} /\ k \notin DOMAIN orders
                  /\ \A id \in DOMAIN orders : filled'[id] = filled[id]
                  /\ filled'[k] = 0 /\ st' = st
                BY <1>1, <3>2, <4>1, IssuedOrder
            <4> QED
                BY <1>1, <3>2, <4>2 DEF Issue, SubmitOwn
        <3> QED
            BY <3>1, <3>2
    <2>2. withdrawn \subseteq DOMAIN orders
        BY DEF SBase, OInv, OnePlace
    <2> QED
        BY <2>1, <2>2 DEF Untouched, Quoted
<1>2. CASE ~Issue
    <2>1. seq' = seq
        BY <1>0, <1>2, NothingIssued DEF SBase
    <2>2. CASE \E pb, pa \in Int, nb, na \in {0, n} : Requote(pb, nb, pa, na)
        <3>1. PICK pb \in Int, pa \in Int, nb \in {0, n}, na \in {0, n} : Requote(pb, nb, pa, na)
            BY <2>2
        <3>2. /\ UNCHANGED vars
              /\ st'.bid_id = IF nb = 0 THEN 0 ELSE next_our_id
              /\ st'.ask_id = IF na = 0 THEN 0 ELSE IF nb = 0 THEN next_our_id ELSE next_our_id + 1
            BY <3>1, RequoteTodo DEF QInv
        <3>3. 0 \notin DOMAIN orders /\ next_our_id \notin DOMAIN orders
              /\ next_our_id + 1 \notin DOMAIN orders
            BY OwnIds DEF SBase, BInv, LInv, LoopTypes
        <3>4. orders' = orders
            BY <3>2, SameVarsOrders
        <3> QED
            BY <3>2, <3>3, <3>4 DEF Untouched, Quoted
    <2>3. ASSUME NEW m, ToldFill(m), Remembers(m, TRUE)
          PROVE  Untouched'
        <3>1. RouteFill /\ st' = IF NextFill.is_ours THEN m ELSE st
            BY <2>3 DEF ToldFill
        <3> QED
            BY <1>0, <2>1, <2>3, <3>1, QuietUntouched
    <2>4. CASE \/ OnMarketData(st, << >>, "none") \/ EventApplied \/ CancelArrives \/ LoopStep
               \/ UNCHANGED slVars
        <3>1. st' = st
            BY <2>4 DEF OnMarketData, EventApplied, CancelArrives, LoopStep, slVars, stratVars
        <3>2. ~RouteFill
            <4> SUFFICES ASSUME RouteFill PROVE FALSE
                OBVIOUS
            <4>1. told' = told + 1 /\ told \in Nat /\ phase = "traded" /\ phase' = "traded"
                  /\ at' = at /\ seq' = seq
                BY DEF RouteFill, SBase, BInv, Routing, engineVars, loopVars, ownVars
            <4>2. told' # told
                BY <4>1
            <4> QED
                BY <2>4, <4>1, <4>2
                   DEF OnMarketData, EventApplied, CancelArrives, LoopStep, slVars, vars, ApplyCancel, TapeDone,
                       EndCallback, NextEvent, Flush, DrainCancel, DrainOrder, OursDone, Drained,
                       ApplyOrder, EngineStep, Stopped, Return, Cancel, Submit
        <3> QED
            BY <1>0, <2>1, <3>1, <3>2, QuietUntouched
    <2> QED
        BY <1>2, <2>2, <2>3, <2>4 DEF QuoteStep, SLStep
<1> QED
    BY <1>1, <1>2

MMInv == SBase /\ MMType /\ QInv(TRUE, MakerSize) /\ Untouched /\ Posted

LEMMA InitMMInv == MMInit => MMInv
<1> SUFFICES ASSUME MMInit PROVE MMInv
    OBVIOUS
<1>1. PICK m : /\ m = [last_mid |-> -1, bid_id |-> 0, ask_id |-> 0, inventory |-> 0,
                       have_quotes |-> FALSE]
               /\ SLInit(m)
    BY DEF MMInit
<1>2. /\ m \in [last_mid : Int, bid_id : Nat, ask_id : Nat, inventory : Int,
                have_quotes : BOOLEAN]
      /\ m.bid_id = 0 /\ m.ask_id = 0 /\ ~m.have_quotes
    BY <1>1
<1>3. st = m /\ orders = << >>
    BY <1>1 DEF SLInit, BTInit
<1>4. SBase
    BY <1>1, InitSBase
<1>5. QInv(TRUE, MakerSize)
    BY <1>1, <1>2, InitQInv
<1>6. Untouched
    BY <1>3 DEF Untouched
<1> QED
    BY <1>2, <1>3, <1>4, <1>5, <1>6 DEF MMInv, MMType, Posted

LEMMA StepMMInv ==
    ASSUME TapeIdsApart, MMInv, OrdersFit, [MMNext]_slVars
    PROVE  MMInv'
<1>1. SBase /\ MMType /\ QInv(TRUE, MakerSize) /\ QuoteIds /\ Untouched /\ Posted
    BY DEF MMInv, QInv
<1>2. MakerSize \in Nat \ {0} /\ MakerSize \in Nat /\ TRUE \in BOOLEAN
    BY MMAssumption
<1>3. [QuoteStep(TRUE, MakerSize, FALSE)]_slVars /\ MMType' /\ Posted'
    BY <1>1, MMStepsQuote
<1>4. [StrategyStep]_slVars
    BY <1>1, <1>2, <1>3, QuoteStepsStrategy
<1>5. SBase'
    BY <1>1, <1>4, StepSBase
<1>6. QInv(TRUE, MakerSize)'
    BY <1>1, <1>2, <1>3, StepQInv
<1>7. Untouched'
    BY <1>1, <1>2, <1>3, StepUntouched
<1> QED
    BY <1>3, <1>5, <1>6, <1>7 DEF MMInv

\* An order of its own that can still trade is out, and it is one side's quote.
LEMMA MakerTracks ==
    ASSUME MMInv, Quiet, NEW id \in DOMAIN orders, Open(id)
    PROVE  \/ id \in Quoted \/ Recalled(id) \/ filled[id] > 0
<1>1. Outstanding(id)
    BY DEF Open, RestingQty, PendingQty, Outstanding, Awaited
<1>2. ~WithdrawalDue(id)
    BY NothingWaits DEF MMInv, Quiet
<1> QED
    BY <1>1, <1>2 DEF MMInv, QInv, Tracked

\* What is remembered, unfilled and not withdrawn has its whole quantity open.
LEMMA RememberedOpen ==
    ASSUME MMInv, Quiet, NEW id \in Remembered
    PROVE  Open(id)
<1>1. SBase /\ QuoteIds /\ Untouched /\ OwnAre(MakerSize) /\ MakerSize \in Nat \ {0}
    BY MMAssumption DEF MMInv, QInv
<1>2. id \in DOMAIN orders
    <2>1. st.bid_id \in Nat /\ st.ask_id \in Nat /\ st.bid_id < next_our_id /\ st.ask_id < next_our_id
        BY <1>1, NothingWaits DEF QuoteIds, Quiet
    <2> QED
        BY <1>1, <2>1, GivenIds DEF Remembered
<1>3. filled[id] = 0 /\ id \notin withdrawn /\ orders[id].type = "Limit" /\ orders[id].qty = MakerSize
    BY <1>1, <1>2 DEF Remembered, Untouched, Quoted, OwnAre
<1>4. KnownQty(id) = orders[id].qty
    BY <1>1, <1>2, <1>3 DEF SBase, OInv, Accounted
<1>5. WorkingQty(id) = 0
    BY DEF Quiet, WorkingQty
<1>6. UnroutedQty(id) = 0
    BY <1>1 DEF Quiet, UnroutedQty, SBase, BInv, Routing
<1>7. RestingQty(id) \in Nat /\ PendingQty(id) \in Nat
    BY <1>1, <1>2, OwnTypes DEF SBase
<1>8. PICK r \in Nat, p \in Nat : r = RestingQty(id) /\ p = PendingQty(id)
    BY <1>7
<1>9. r + p = MakerSize
    BY <1>1, <1>3, <1>4, <1>5, <1>6, <1>8 DEF KnownQty, OpenQty
<1> QED
    BY <1>1, <1>8, <1>9 DEF Open

LEMMA STInvariant ==
    ASSUME TapeIdsApart
    PROVE  STSpec /\ []OrdersFit => [](name = "mm" => MMInv)
<1> DEFINE I == name = "mm" => MMInv
<1>1. STInit => I
    BY InitMMInv DEF STInit
<1>2. I /\ OrdersFit /\ [STNext]_<<slVars, name>> => I'
    <2> SUFFICES ASSUME I, OrdersFit, [STNext]_<<slVars, name>>, name' = "mm"
                 PROVE  MMInv'
        OBVIOUS
    <2>1. name = "mm" /\ [MMNext]_slVars
        BY DEF STNext
    <2> QED
        BY <2>1, StepMMInv
<1> HIDE DEF I
<1>3. STSpec /\ []OrdersFit => []I
    BY <1>1, <1>2, PTL DEF STSpec
<1> QED
    BY <1>3 DEF I

\* The market maker knows its quotes: what it remembers can still trade, so it
\* never cancels or relies on an order that is gone, and what can still trade
\* without being remembered or cancelled is the rest of a quote that was filled,
\* or of one whose cancel overtook it.
THEOREM MakerKnows ==
    ASSUME TapeIdsApart
    PROVE  STSpec /\ []OrdersFit => []MakerKnowsItsQuotes
<1>1. ASSUME name = "mm" => MMInv
      PROVE  MakerKnowsItsQuotes
    <2> SUFFICES ASSUME name = "mm", MMInv
                 PROVE  OnlyPartFilledStray /\ RememberedIsOpen
        BY <1>1 DEF MakerKnowsItsQuotes
    <2>1. OnlyPartFilledStray
        <3> SUFFICES ASSUME Quiet, NEW id \in DOMAIN orders, Open(id), id \notin Remembered
                     PROVE  Recalled(id) \/ filled[id] > 0
            BY DEF OnlyPartFilledStray
        <3>1. id # 0
            BY GivenIds DEF MMInv
        <3> QED
            BY <3>1, MakerTracks DEF Quoted, Remembered
    <2>2. RememberedIsOpen
        BY RememberedOpen DEF RememberedIsOpen
    <2> QED
        BY <2>1, <2>2
<1>2. (name = "mm" => MMInv) => MakerKnowsItsQuotes
    BY <1>1
<1> QED
    BY <1>2, STInvariant, PTL

\* The first half of MakerQuotesToTheCap.
LEMMA MakerStopsAtTheCap ==
    ASSUME MMInv
    PROVE  QuotedUpToTheCap /\ NothingAddsAtTheCap
<1>1. QuotedUpToTheCap
    <2>1. st.inventory \in Int /\ MaxPos \in Nat
        BY MMAssumption DEF MMInv, MMType
    <2>2. 0 - st.inventory >= MaxPos => st.inventory <= 0 - MaxPos
        BY <2>1
    <2> QED
        BY <2>2 DEF QuotedUpToTheCap, MMInv, Posted
<1>2. NothingAddsAtTheCap
    <2> SUFFICES ASSUME Quiet, st.have_quotes, NEW s \in Side,
                        Toward(s, st.inventory) >= MaxPos,
                        NEW id \in OpenQuotes(s)
                 PROVE  Recalled(id) \/ filled[id] > 0
        BY DEF NothingAddsAtTheCap
    <2>1. id \in DOMAIN orders /\ Open(id) /\ orders[id].side = s
        BY DEF OpenQuotes
    <2>2. id # 0
        BY <2>1, GivenIds DEF MMInv
    <2>3. id \notin Quoted
        <3>1. CASE s = "Buy"
            BY <2>1, <2>2, <3>1 DEF MMInv, Posted, Toward, QInv, QuoteIds, Quoted
        <3>2. CASE s = "Sell"
            BY <2>1, <2>2, <3>2 DEF MMInv, Posted, Toward, QInv, QuoteIds, Quoted
        <3> QED
            BY <3>1, <3>2 DEF Side
    <2> QED
        BY <2>1, <2>3, MakerTracks
<1> QED
    BY <1>1, <1>2
(***************************************************************************)
(* HawkesOFIMarketMaker at its cap.  It requotes whenever it can, so from  *)
(* one event to the next a side at the cap has no quote, and the other     *)
(* side has one that has not arrived yet.                                  *)
(***************************************************************************)
QuoteOn(s) == IF s = "Buy" THEN st.bid_id ELSE st.ask_id

AtCap ==
    at \in {"data", "feed"} /\ decided /\ TwoSided =>
        \A s \in Side : Toward(s, st.inventory) >= MaxInventory =>
            /\ QuoteOn(s) = 0
            /\ HasPlace(Opposite(s)) \/ Awaited(QuoteOn(Opposite(s)))

LEMMA OtherSide ==
    ASSUME NEW s \in Side
    PROVE  /\ Opposite(s) \in Side /\ Opposite(s) # s
           /\ s = "Buy" => Opposite(s) = "Sell"
           /\ s = "Sell" => Opposite(s) = "Buy"
    BY DEF Side, Opposite

\* A side at the cap is not quoted, and the other one is.
LEMMA CapStopsOneSide ==
    ASSUME HMType, NEW s \in Side
    PROVE  /\ Toward(s, st.inventory) \in Int
           /\ Toward(s, st.inventory) >= MaxInventory => s \notin QuotedSides /\ Opposite(s) \in QuotedSides
           /\ s \in QuotedSides => Toward(s, st.inventory) <= MaxInventory - 1
<1>1. PICK v \in Int, c \in Nat \ {0} : v = st.inventory /\ c = MaxInventory
    BY HMAssumption DEF HMType
<1>2. QuotedSides = IF v >= c THEN {"Sell"} ELSE IF v <= 0 - c THEN {"Buy"} ELSE Side
    BY <1>1 DEF QuotedSides
<1>3. Toward(s, st.inventory) = IF s = "Buy" THEN v ELSE 0 - v
    BY <1>1 DEF Toward
<1>4. CASE s = "Buy"
    <2>1. Opposite(s) = "Sell" /\ Toward(s, st.inventory) = v
        BY <1>3, <1>4, OtherSide
    <2>2. v >= c => ~(v <= 0 - c)
        BY <1>1
    <2>3. "Buy" \in QuotedSides => ~(v >= c)
        BY <1>2
    <2>4. v >= c => "Buy" \notin QuotedSides /\ "Sell" \in QuotedSides
        BY <1>2
    <2> QED
        BY <1>1, <1>4, <2>1, <2>3, <2>4
<1>5. CASE s = "Sell"
    <2>1. Opposite(s) = "Buy" /\ Toward(s, st.inventory) = 0 - v
        BY <1>3, <1>5, OtherSide
    <2>2. 0 - v >= c => ~(v >= c) /\ v <= 0 - c
        BY <1>1
    <2>3. 0 - v >= c => QuotedSides = {"Buy"}
        BY <1>2, <2>2
    <2>4. "Sell" \in QuotedSides => ~(0 - v >= c)
        BY <2>3
    <2>5. 0 - v >= c => "Sell" \notin QuotedSides /\ "Buy" \in QuotedSides
        BY <2>3
    <2> QED
        BY <1>1, <1>5, <2>1, <2>4, <2>5
<1> QED
    BY <1>4, <1>5 DEF Side

\* Issuing a placement gives the quote the id that is remembered for it.
LEMMA IssuedQuote ==
    ASSUME SBase, OrdersFit, NEW n \in Nat \ {0}, QInv(FALSE, n), Issue,
           NEW s \in Side, HasPlace(s) \/ Awaited(QuoteOn(s))
    PROVE  HasPlace(s)' \/ Awaited(QuoteOn(s))'
<1>0. CallbackInv /\ QuoteIds /\ BidFirst(todo) /\ LimitsOf(todo, n)
    BY DEF SBase, QInv
<1>1. todo # << >> /\ todo' = Tail(todo) /\ st' = st
    BY <1>0, IssueCases
<1>2. PICK q : q = QuoteOn(s) /\ q = QuoteOn(s)'
    BY <1>1 DEF QuoteOn
<1>3. CASE Awaited(QuoteOn(s))
    <2>1. Awaited(q)
        BY <1>2, <1>3
    <2>2. PICK c : pending' = pending \cup {c}
        BY Issued DEF SBase
    <2>3. Awaited(q)'
        <3>1. PICK p \in pending : ~p.is_cancel /\ p.id = q
            BY <2>1 DEF Awaited
        <3>2. p \in pending'
            BY <2>2
        <3> QED
            BY <3>1, <3>2 DEF Awaited
    <2> QED
        BY <1>2, <2>3
<1>4. CASE HasPlace(s) /\ ~IsPlace(Head(todo), s)
    BY <1>0, <1>1, <1>4, TailOfTodo
<1>5. CASE HasPlace(s) /\ IsPlace(Head(todo), s)
    <2>1. ~Head(todo).is_cancel
        BY <1>5 DEF IsPlace
    <2>2. PICK k : k = next_our_id
        OBVIOUS
    <2>3. Awaited(k)'
        BY <2>1, <2>2, IssuedOrder
    <2>4. q = k
        <3>1. CASE s = "Buy"
            BY <1>0, <1>2, <1>5, <2>2, <3>1 DEF QuoteIds, QuoteOn
        <3>2. CASE s = "Sell"
            <4>1. ~HasPlace("Buy")
                BY <1>0, <1>1, <1>5, <3>2, TailShape
            <4> QED
                BY <1>0, <1>2, <1>5, <2>2, <3>2, <4>1 DEF QuoteIds, QuoteOn
        <3> QED
            BY <3>1, <3>2 DEF Side
    <2> QED
        BY <1>2, <2>3, <2>4
<1> QED
    BY <1>3, <1>4, <1>5

LEMMA StepAtCap ==
    ASSUME HMInv, OrdersFit, AtCap, [HMNext]_slVars
    PROVE  AtCap'
<1>0. /\ SBase /\ HMType /\ QInv(FALSE, QuoteSize) /\ QuoteIds /\ CallbackInv
      /\ QuoteSize \in Nat \ {0}
    BY HMAssumption DEF HMInv, QInv, SBase
<1>1. CASE HMOnMarketData /\ TwoSided
    <2>1. PICK pb \in Int, pa \in Int, nb \in {0, QuoteSize}, na \in {0, QuoteSize} :
            /\ Requote(pb, nb, pa, na)
            /\ nb = IF "Buy" \in QuotedSides THEN QuoteSize ELSE 0
            /\ na = IF "Sell" \in QuotedSides THEN QuoteSize ELSE 0
            /\ st'.inventory = st.inventory
        BY <1>0, <1>1, HMRequotes
    <2>2. /\ HasPlace("Buy")' <=> nb # 0
          /\ HasPlace("Sell")' <=> na # 0
          /\ st'.bid_id = IF nb = 0 THEN 0 ELSE next_our_id
          /\ st'.ask_id = IF na = 0 THEN 0 ELSE IF nb = 0 THEN next_our_id ELSE next_our_id + 1
        BY <1>0, <2>1, RequoteTodo
    <2>3. ASSUME NEW s \in Side, Toward(s, st'.inventory) >= MaxInventory
          PROVE  QuoteOn(s)' = 0 /\ HasPlace(Opposite(s))'
        <3>1. Toward(s, st'.inventory) = Toward(s, st.inventory)
            BY <2>1
        <3>2. s \notin QuotedSides /\ Opposite(s) \in QuotedSides
            BY <1>0, <2>3, <3>1, CapStopsOneSide
        <3>3. CASE s = "Buy"
            BY <1>0, <2>1, <2>2, <3>2, <3>3, OtherSide DEF QuoteOn
        <3>4. CASE s = "Sell"
            BY <1>0, <2>1, <2>2, <3>2, <3>4, OtherSide DEF QuoteOn
        <3> QED
            BY <3>3, <3>4 DEF Side
    <2> QED
        BY <2>3 DEF AtCap
<1>2. CASE HMOnMarketData /\ ~TwoSided
    <2>1. book' = book
        BY <1>2, SameVarsOrders DEF HMOnMarketData, OnMarketData
    <2> QED
        BY <1>2, <2>1 DEF AtCap, TwoSided
<1>3. CASE ToldFill(HMOnFill(st, NextFill))
    <2>1. at' \in {"ours", "tape"}
        BY <1>0, <1>3 DEF ToldFill, RouteFill, loopVars, SBase, BInv, LInv, Control
    <2> QED
        BY <2>1 DEF AtCap
<1>4. CASE Issue
    <2>1. /\ st' = st /\ decided' = decided /\ book' = book /\ at' = at
        BY <1>0, <1>4, IssueCases, Issued DEF SBase, engineVars, loopVars
    <2>2. \A s : Toward(s, st'.inventory) = Toward(s, st.inventory) /\ QuoteOn(s)' = QuoteOn(s)
        BY <2>1 DEF QuoteOn
    <2>3. ASSUME NEW s \in Side, HasPlace(s) \/ Awaited(QuoteOn(s))
          PROVE  HasPlace(s)' \/ Awaited(QuoteOn(s))'
        BY <1>0, <1>4, <2>3, IssuedQuote
    <2> QED
        BY <2>1, <2>2, <2>3, OtherSide DEF AtCap, TwoSided
<1>5. CASE EventApplied
    BY <1>5 DEF EventApplied, AtCap
<1>6. CASE UNCHANGED slVars \/ (LoopStep /\ EndCallback) \/ (LoopStep /\ Stopped)
    <2>1. /\ st' = st /\ decided' = decided /\ todo' = todo /\ book' = book /\ pending' = pending
          /\ at' \in {"data", "feed"} => at \in {"data", "feed"}
        BY <1>6 DEF slVars, stratVars, vars, LoopStep, EndCallback, Stopped, engineVars, loopVars,
                    ownVars
    <2>2. \A s : /\ Toward(s, st'.inventory) = Toward(s, st.inventory) /\ QuoteOn(s)' = QuoteOn(s)
                 /\ HasPlace(s)' <=> HasPlace(s)
        BY <2>1 DEF QuoteOn, HasPlace
    <2>3. \A s : Awaited(QuoteOn(s))' <=> Awaited(QuoteOn(s))
        BY <2>1, <2>2 DEF Awaited
    <2> QED
        BY <2>1, <2>2, <2>3 DEF AtCap, TwoSided
<1>7. CASE \/ \E e \in Tape, gap \in Gaps : NextEvent(e, gap)
           \/ Flush \/ CancelArrives \/ DrainOrder \/ OursDone \/ Drained
           \/ ApplyOrder \/ EngineStep
    <2>1. at' \notin {"data", "feed"}
        BY <1>0, <1>7 DEF NextEvent, Flush, CancelArrives, DrainCancel, DrainOrder, OursDone, Drained, ApplyOrder,
                          EngineStep, Trade, Settle, Rest, Discard, Complete, loopVars,
                          SBase, BInv, LInv, Control
    <2> QED
        BY <2>1 DEF AtCap
<1>8. LoopStep => \/ EndCallback \/ Stopped
                  \/ \E e \in Tape, gap \in Gaps : NextEvent(e, gap)
                  \/ Flush \/ DrainOrder \/ OursDone \/ Drained
                  \/ ApplyOrder \/ EngineStep
    BY DEF LoopStep
<1> QED
    BY <1>1, <1>2, <1>3, <1>4, <1>5, <1>6, <1>7, <1>8 DEF HMNext, SLStep

\* The first half of InventoryContained.
LEMMA CapReduces ==
    ASSUME HMInv, AtCap
    PROVE  OverTheCapOnlyReduces
<1> SUFFICES ASSUME at = "feed", TwoSided, NEW s \in Side, Toward(s, st.inventory) >= MaxInventory
             PROVE  /\ \A id \in OpenQuotes(s) : Recalled(id)
                    /\ \E id \in OpenQuotes(Opposite(s)) : ~Recalled(id)
    BY DEF OverTheCapOnlyReduces
<1>0. /\ SBase /\ QInv(FALSE, QuoteSize) /\ QuoteIds /\ OwnAre(QuoteSize) /\ Fresh /\ Tracked(FALSE)
      /\ QuoteSize \in Nat \ {0}
    BY HMAssumption DEF HMInv, QInv
<1>1. decided
    BY <1>0 DEF SBase, CallbackInv
<1>2. todo = << >>
    BY <1>0 DEF SBase, CallbackInv
<1>3. (\A id : ~WithdrawalDue(id)) /\ \A k : ~HasPlace(k)
    BY <1>0, <1>2, NothingWaits
<1>4. QuoteOn(s) = 0 /\ Awaited(QuoteOn(Opposite(s)))
    BY <1>1, <1>3 DEF AtCap
<1>5. ASSUME NEW id \in OpenQuotes(s)
      PROVE  Recalled(id)
    <2>1. id \in DOMAIN orders /\ orders[id].side = s /\ Open(id)
        BY DEF OpenQuotes
    <2>2. Outstanding(id)
        BY <2>1 DEF Open, RestingQty, PendingQty, Outstanding, Awaited
    <2>3. id \in Quoted \/ Recalled(id)
        BY <1>0, <1>3, <2>1, <2>2 DEF Tracked
    <2>4. id # 0
        BY <1>0, <2>1, GivenIds
    <2>5. id \notin Quoted
        <3>1. CASE s = "Buy"
            BY <1>0, <1>4, <2>1, <2>4, <3>1 DEF QuoteOn, QuoteIds, Quoted
        <3>2. CASE s = "Sell"
            BY <1>0, <1>4, <2>1, <2>4, <3>2 DEF QuoteOn, QuoteIds, Quoted
        <3> QED
            BY <3>1, <3>2 DEF Side
    <2> QED
        BY <2>3, <2>5
<1>6. PICK q : q = QuoteOn(Opposite(s))
    OBVIOUS
<1>7. Awaited(q) /\ q \in DOMAIN orders /\ q \in Quoted
    BY <1>0, <1>4, <1>6, GivenIds DEF QuoteOn, Quoted
<1>8. orders[q].side = Opposite(s)
    <2>1. CASE s = "Buy"
        BY <1>0, <1>6, <1>7, <2>1, OtherSide DEF QuoteOn, QuoteIds
    <2>2. CASE s = "Sell"
        BY <1>0, <1>6, <1>7, <2>2, OtherSide DEF QuoteOn, QuoteIds
    <2> QED
        BY <2>1, <2>2 DEF Side
<1>9. Open(q)
    <2>1. PendingQty(q) = QuoteSize
        BY <1>0, <1>7 DEF PendingQty, Awaited, OwnAre
    <2>2. RestingQty(q) \in Nat
        BY <1>0, <1>7, OwnTypes DEF SBase
    <2> QED
        BY <1>0, <2>1, <2>2 DEF Open
<1>10. ~Recalled(q)
    BY <1>0, <1>7 DEF Fresh
<1> QED
    BY <1>5, <1>7, <1>8, <1>9, <1>10 DEF OpenQuotes


(***************************************************************************)
(* How far a position can go.  What an order has left counts as committed  *)
(* while the order is out and until its last fills are told.  Commitments  *)
(* end or become position, one for one; only a placement adds to them, and *)
(* each was decided on with what was out beside it in view.                *)
(***************************************************************************)
Unfinished(id) == Outstanding(id) \/ UnroutedQty(id) > 0

LiveIds(s) == {id \in DOMAIN orders : orders[id].side = s /\ Unfinished(id)}

Left == [id \in DOMAIN orders |-> orders[id].qty - filled[id]]

Committed(s) == SumFunctionOnSet(Left, LiveIds(s))

\* On each side the position, what is committed to it and the order still to be
\* placed stay within the limit.
Reach(pos, limit) ==
    /\ \A i, j \in DOMAIN todo :
         ~todo[i].is_cancel /\ ~todo[j].is_cancel /\ todo[i].order.side = todo[j].order.side => i = j
    /\ \A s \in Side :
         /\ Toward(s, pos) + Committed(s) <= limit[s]
         /\ \A i \in DOMAIN todo :
              IsPlace(todo[i], s) => Toward(s, pos) + Committed(s) + todo[i].order.qty <= limit[s]

\* A sum of what is not negative is not negative, nor less than that of a part.
LEMMA SumNat ==
    ASSUME NEW f, NEW S, Summable(f, S), \A x \in S : f[x] >= 0
    PROVE  SumFunctionOnSet(f, S) \in Nat
<1> DEFINE N == {n \in Nat : \A T \in SUBSET S : Cardinality(T) = n =>
                               SumFunctionOnSet(f, T) >= 0}
<1>0. \A T \in SUBSET S : /\ Summable(f, T) /\ IsFiniteSet(T) /\ Cardinality(T) \in Nat
                          /\ SumFunctionOnSet(f, T) \in Int
    BY FS_Subset, FS_CardinalityType, SumType DEF Summable
<1>1. 0 \in N
    BY <1>0, FS_EmptySet, SumEmpty
<1>2. ASSUME NEW n \in Nat, n \in N PROVE n + 1 \in N
    <2> SUFFICES ASSUME NEW T \in SUBSET S, Cardinality(T) = n + 1
                 PROVE  SumFunctionOnSet(f, T) >= 0
        OBVIOUS
    <2>1. T # {}
        BY FS_EmptySet
    <2>2. Pick(T) \in T /\ Cardinality(T \ {Pick(T)}) = n
        BY <1>0, <2>1, PickLeaves
    <2>3. SumFunctionOnSet(f, T \ {Pick(T)}) >= 0
        BY <1>2, <2>2
    <2>4. SumFunctionOnSet(f, T) = f[Pick(T)] + SumFunctionOnSet(f, T \ {Pick(T)})
        BY <1>0, <2>1, SumByPick
    <2>5. /\ f[Pick(T)] \in Int /\ f[Pick(T)] >= 0
          /\ SumFunctionOnSet(f, T \ {Pick(T)}) \in Int
        BY <1>0, <2>2 DEF Summable
    <2> QED
        BY <2>3, <2>4, <2>5
<1>3. Nat \subseteq N
    <2> HIDE DEF N
    <2> QED
        BY <1>1, <1>2, SetInduction
<1> QED
    BY <1>0, <1>3

LEMMA SumSubset ==
    ASSUME NEW f, NEW S, Summable(f, S), \A x \in S : f[x] >= 0, NEW T \in SUBSET S
    PROVE  SumFunctionOnSet(f, T) <= SumFunctionOnSet(f, S)
<1>1. Summable(f, T) /\ Summable(f, S \ T)
    BY FS_Subset DEF Summable
<1>2. S \ T \in SUBSET S /\ T \cap (S \ T) = {} /\ T \cup (S \ T) = S
    OBVIOUS
<1>3. SumFunctionOnSet(f, S) = SumFunctionOnSet(f, T) + SumFunctionOnSet(f, S \ T)
    BY <1>2, SumDisjoint
<1>4. SumFunctionOnSet(f, T) \in Int /\ SumFunctionOnSet(f, S \ T) \in Nat
    BY <1>1, SumType, SumNat
<1> QED
    BY <1>3, <1>4

LEMMA UnroutedNat ==
    ASSUME SBase, NEW id
    PROVE  UnroutedQty(id) \in Nat
<1>1. fills \in Seq(Fill) /\ told \in Nat
    BY DEF SBase, BInv, IInv, TypeOK, Routing
<1>2. \A i \in DOMAIN fills : LegQty(i, id) \in Nat
    <2> SUFFICES ASSUME NEW i \in DOMAIN fills
                 PROVE  LegQty(i, id) \in Nat
        OBVIOUS
    <2>1. fills[i] \in Fill
        BY <1>1
    <2>2. fills[i].qty \in Nat
        BY <2>1, MaxQtyAssumption DEF Fill, Quantity
    <2> QED
        BY <2>2 DEF LegQty
<1>3. /\ told + 2 = Len(fills) => Len(fills) - 1 \in DOMAIN fills
      /\ told < Len(fills) => Len(fills) \in DOMAIN fills
    BY <1>1
<1> QED
    BY <1>2, <1>3 DEF UnroutedQty

\* What is left of an order covers what is known of it.
LeftNat ==
    /\ DOMAIN Left = DOMAIN orders /\ IsFiniteSet(DOMAIN orders)
    /\ \A id \in DOMAIN orders : Left[id] = orders[id].qty - filled[id] /\ Left[id] \in Nat
    /\ \A id : UnroutedQty(id) \in Nat
    /\ \A s : /\ LiveIds(s) \subseteq DOMAIN orders
             /\ Summable(Left, LiveIds(s)) /\ Committed(s) \in Nat

LEMMA LeftIsNat == SBase => LeftNat
<1> SUFFICES ASSUME SBase PROVE LeftNat
    OBVIOUS
<1>1. DOMAIN orders = 1 .. next_our_id - 1 /\ next_our_id \in Nat
    BY GivenIds
<1>2. IsFiniteSet(DOMAIN orders)
    BY <1>1, FS_Interval
<1>3. \A id \in DOMAIN orders : Left[id] = orders[id].qty - filled[id] /\ Left[id] \in Nat
    <2> SUFFICES ASSUME NEW id \in DOMAIN orders
                 PROVE  Left[id] = orders[id].qty - filled[id] /\ Left[id] \in Nat
        OBVIOUS
    <2>1. /\ orders[id].qty \in Nat /\ filled[id] \in Int
          /\ RestingQty(id) \in Nat /\ WorkingQty(id) \in Nat /\ PendingQty(id) \in Nat
        BY OwnTypes DEF SBase
    <2>2. PICK u \in Nat, r \in Nat, w \in Nat, p \in Nat :
            u = UnroutedQty(id) /\ r = RestingQty(id) /\ w = WorkingQty(id) /\ p = PendingQty(id)
        BY <2>1, UnroutedNat
    <2>3. filled[id] + u + (r + w + p) <= orders[id].qty
        BY <2>2 DEF SBase, OInv, Accounted, KnownQty, OpenQty
    <2>4. Left[id] = orders[id].qty - filled[id]
        BY DEF Left
    <2> QED
        BY <2>1, <2>2, <2>3, <2>4
<1>4. DOMAIN Left = DOMAIN orders
    BY DEF Left
<1>5. ASSUME NEW s
      PROVE  LiveIds(s) \subseteq DOMAIN orders /\ Summable(Left, LiveIds(s)) /\ Committed(s) \in Nat
    <2>1. LiveIds(s) \subseteq DOMAIN orders
        BY DEF LiveIds
    <2>2. Summable(Left, LiveIds(s)) /\ \A id \in LiveIds(s) : Left[id] >= 0
        BY <1>2, <1>3, <2>1, FS_Subset DEF Summable
    <2>3. SumFunctionOnSet(Left, LiveIds(s)) \in Nat
        BY <2>2, SumNat
    <2> QED
        BY <2>1, <2>2, <2>3 DEF Committed
<1> QED
    BY <1>2, <1>3, <1>4, <1>5, UnroutedNat DEF LeftNat

\* Fills wait to be told only of orders that are, or just were, at work.
LEMMA UnroutedSteps ==
    ASSUME SBase, SBase', FilledNat, [LoopNext]_vars, seq' = seq, NEW id \in DOMAIN orders
    PROVE  UnroutedQty(id)' > 0 => UnroutedQty(id) > 0 \/ Outstanding(id)
<1>0. phase # "traded" => told = Len(fills)
    BY DEF SBase, BInv, Routing
<1>1. CASE fills' = fills /\ told' = told
    BY <1>1 DEF UnroutedQty, LegQty
<1>2. CASE told' = 0 /\ fills' = << >>
    <2>1. Len(fills') = 0
        BY <1>2
    <2>2. UnroutedQty(id)' = 0
        BY <1>2, <2>1 DEF UnroutedQty
    <2> QED
        BY <2>2
<1>3. CASE RouteFill
    <2>1. filled'[id] + UnroutedQty(id)' = filled[id] + UnroutedQty(id)
        BY <1>3, RoutedIsReported DEF SBase
    <2>2. filled'[id] \in Nat /\ filled[id] \in Nat /\ filled'[id] >= filled[id]
        BY FilledGrows DEF FilledNat
    <2>3. PICK u \in Nat, v \in Nat : u = UnroutedQty(id) /\ v = UnroutedQty(id)'
        <3>1. LeftNat /\ LeftNat'
            BY LeftIsNat, PTL
        <3> QED
            BY <3>1 DEF LeftNat
    <2> QED
        BY <2>1, <2>2, <2>3
<1>4. CASE EngineStep /\ Trade
    <2>0. IInv /\ Trade
        BY <1>4 DEF SBase, BInv
    <2>1. PICK r \in RestingOrder, n \in Nat, x \in Fill, y \in Fill :
            /\ n <= r.qty /\ n <= in.remaining
            /\ r.id \in Resting(book) /\ book.index[r.id].side = Opp /\ Entry(book, r.id) = r
            /\ Resting(book') = Resting(book) /\ book'.index = book.index
            /\ Entry(book', r.id) = [r EXCEPT !.qty = r.qty - n]
            /\ \A k \in Resting(book) \ {r.id} : Entry(book', k) = Entry(book, k)
            /\ in'.id = in.id /\ in'.side = in.side /\ in'.type = in.type
            /\ in'.is_ours = in.is_ours /\ in'.remaining = in.remaining - n
            /\ fills' = fills \o <<x, y>>
            /\ x.order_id = in.id /\ x.side = in.side /\ x.is_ours = in.is_ours /\ x.qty = n
            /\ y.order_id = r.id /\ y.side = Opp /\ y.is_ours = r.is_ours /\ y.qty = n
        BY <2>0, TradeFacts
    <2>2. phase = "match" /\ told' = told
        BY <1>4 DEF EngineStep, Trade
    <2>3. PICK m \in Nat : /\ told' = m /\ Len(fills') = m + 2
                           /\ fills'[m + 1] = x /\ fills'[m + 2] = y
        <3>1. fills \in Seq(Fill) /\ told = Len(fills)
            BY <2>2 DEF SBase, BInv, IInv, TypeOK, Routing
        <3>2. PICK m \in Nat : m = Len(fills)
            BY <3>1
        <3>3. Len(fills') = m + 2 /\ fills'[m + 1] = x /\ fills'[m + 2] = y
            BY <2>1, <3>1, <3>2
        <3> QED
            BY <2>2, <3>1, <3>2, <3>3
    <2>4. id = in.id \/ id = r.id \/ UnroutedQty(id)' = 0
        <3>1. Len(fills') - 1 = m + 1 /\ Len(fills') = m + 2
            BY <2>3
        <3>2. id # in.id => LegQty(m + 1, id)' = 0
            BY <2>1, <2>3 DEF LegQty
        <3>3. id # r.id => LegQty(m + 2, id)' = 0
            BY <2>1, <2>3 DEF LegQty
        <3>4. id # in.id /\ id # r.id => UnroutedQty(id)' = 0
            BY <2>3, <3>1, <3>2, <3>3 DEF UnroutedQty
        <3> QED
            BY <3>4
    <2> QED
        BY <2>1, <2>2, <2>4 DEF Outstanding, Working
<1>5. CASE EngineStep /\ ~Trade
    BY <1>1, <1>5 DEF EngineStep, Settle, Rest, Discard, Complete
<1>6. CASE OursDone \/ TapeDone
    BY <1>2, <1>6 DEF OursDone, TapeDone, Return
<1>7. CASE DrainCancel \/ DrainOrder \/ ApplyCancel \/ ApplyOrder
    BY <1>1, <1>7 DEF DrainCancel, DrainOrder, ApplyCancel, ApplyOrder, Cancel, Submit
<1>8. CASE \/ \E o \in Submittable, lat \in Latency : SubmitOwn(o, lat)
           \/ \E k \in DOMAIN orders, lat \in Latency : CancelOwn(k, lat)
           \/ \E e \in Tape, gap \in Gaps : NextEvent(e, gap)
           \/ EndCallback \/ Flush \/ Drained \/ Stopped \/ UNCHANGED vars
    <2>1. UNCHANGED <<engineVars, told>>
        BY <1>8 DEF SubmitOwn, CancelOwn, NextEvent, EndCallback, Flush, Drained, Stopped, vars
    <2> QED
        BY <1>1, <2>1 DEF engineVars
<1> QED
    BY <1>3, <1>4, <1>5, <1>6, <1>7, <1>8 DEF LoopNext, BTStep

LEMMA LiveShrinks ==
    ASSUME SBase, SBase', FilledNat, [LoopNext]_vars, seq' = seq, NEW id \in DOMAIN orders
    PROVE  Unfinished(id)' => Unfinished(id)
<1>1. Outstanding(id)' => Outstanding(id)
    BY OutstandingShrinks DEF SBase
<1> QED
    BY <1>1, UnroutedSteps DEF Unfinished

\* A step that issues nothing commits to nothing; telling a fill ends as much of
\* the commitment of its side.
LEMMA CommittedFalls ==
    ASSUME SBase, SBase', FilledNat, [LoopNext]_vars, seq' = seq, NEW s
    PROVE  /\ Committed(s)' <= Committed(s)
           /\ RouteFill /\ NextFill.is_ours /\ NextFill.side = s =>
                Committed(s)' + NextFill.qty <= Committed(s)
<1>1. orders' = orders /\ DOMAIN filled = DOMAIN orders
    BY FilledGrows, GivenIds
<1>0. LeftNat /\ LeftNat'
    BY LeftIsNat, PTL
<1>2. PICK f, g, S, T : f = Left /\ g = Left' /\ S = LiveIds(s) /\ T = LiveIds(s)'
    OBVIOUS
<1>3. /\ DOMAIN f = DOMAIN orders /\ IsFiniteSet(DOMAIN orders) /\ S \subseteq DOMAIN orders
      /\ \A id \in DOMAIN orders : f[id] = orders[id].qty - filled[id] /\ f[id] \in Nat
      /\ Summable(f, S) /\ Committed(s) = SumFunctionOnSet(f, S)
    BY <1>0, <1>2 DEF LeftNat, Committed
<1>4. /\ T \subseteq DOMAIN orders
      /\ \A id \in DOMAIN orders : g[id] = orders[id].qty - filled'[id] /\ g[id] \in Nat
      /\ Summable(g, T) /\ Committed(s)' = SumFunctionOnSet(g, T)
    <2>1. Committed(s)' = SumFunctionOnSet(g, T)
        BY <1>2 DEF Committed
    <2> QED
        BY <1>0, <1>1, <1>2, <2>1 DEF LeftNat
<1>5. T \subseteq S
    <2> SUFFICES ASSUME NEW id \in T
                 PROVE  id \in S
        OBVIOUS
    <2>1. id \in DOMAIN orders /\ orders[id].side = s /\ Unfinished(id)'
        BY <1>1, <1>2 DEF LiveIds
    <2> QED
        BY <1>2, <2>1, LiveShrinks DEF LiveIds
<1>6. Summable(g, S) /\ \A id \in S : g[id] >= 0
    BY <1>3, <1>4 DEF Summable
<1>7. SumFunctionOnSet(g, T) <= SumFunctionOnSet(g, S)
    BY <1>5, <1>6, SumSubset
<1>8. /\ SumFunctionOnSet(g, T) \in Int /\ SumFunctionOnSet(g, S) \in Int
      /\ SumFunctionOnSet(f, S) \in Int
    BY <1>3, <1>4, <1>6, SumType
<1>9. CASE RouteFill /\ NextFill.is_ours
    <2>1. PICK k \in DOMAIN orders, q \in Nat \ {0} : k = NextFill.order_id /\ q = NextFill.qty
        BY <1>9, FillTold
    <2>2. orders[k].side = NextFill.side
        <3>1. /\ phase = "traded" /\ told < Len(fills) /\ told \in Nat /\ fills \in Seq(Fill)
            BY <1>9 DEF RouteFill, SBase, BInv, Routing, IInv, TypeOK
        <3>2. told + 1 \in DOMAIN fills
            BY <3>1
        <3>3. Belongs(NextFill.order_id, NextFill.is_ours, NextFill.side)
            BY <3>2 DEF NextFill, SBase, OInv, Ownership
        <3> QED
            BY <1>9, <2>1, <3>3 DEF Belongs
    <2>3. \A id \in DOMAIN orders : g[id] = IF id = k THEN f[id] - q ELSE f[id]
        <3>1. filled' = [filled EXCEPT ![k] = filled[k] + q]
            BY <1>9, <2>1 DEF RouteFill, Reported, NextFill
        <3>2. \A id \in DOMAIN orders : filled[id] \in Nat /\ orders[id].qty \in Nat
            BY DEF FilledNat, SBase, Given
        <3>3. \A id \in DOMAIN orders : filled'[id] = IF id = k THEN filled[id] + q ELSE filled[id]
            BY <1>1, <3>1
        <3> QED
            BY <1>3, <1>4, <3>2, <3>3
    <2>4. CASE NextFill.side = s
        <3>1. k \in S
            <4>1. filled'[k] + UnroutedQty(k)' = filled[k] + UnroutedQty(k)
                BY <1>9, RoutedIsReported DEF SBase
            <4>2. filled'[k] = filled[k] + q /\ filled[k] \in Nat
                BY <1>1, <1>9, <2>1 DEF RouteFill, Reported, NextFill, FilledNat
            <4>3. PICK u \in Nat, v \in Nat : u = UnroutedQty(k) /\ v = UnroutedQty(k)'
                BY <1>0 DEF LeftNat
            <4>4. UnroutedQty(k) > 0
                BY <4>1, <4>2, <4>3
            <4> QED
                BY <1>2, <2>2, <2>4, <4>4 DEF LiveIds, Unfinished
        <3>2. SumFunctionOnSet(g, S) = SumFunctionOnSet(f, S) + (g[k] - f[k])
            <4>1. /\ Summable(f, S) /\ k \in S /\ g[k] \in Int
                  /\ \A x \in S \ {k} : f[x] = g[x]
                BY <1>3, <1>4, <2>3, <3>1
            <4> QED
                BY <4>1, SumChange
        <3>3. g[k] - f[k] = 0 - q
            BY <1>3, <2>3
        <3> QED
            BY <1>3, <1>4, <1>7, <1>8, <2>1, <3>2, <3>3
    <2>5. CASE NextFill.side # s
        <3>1. k \notin S
            BY <1>2, <2>2, <2>5 DEF LiveIds
        <3>2. SumFunctionOnSet(f, S) = SumFunctionOnSet(g, S)
            BY <1>3, <2>3, <3>1, SumSame
        <3> QED
            BY <1>3, <1>4, <1>7, <2>5, <3>2
    <2> QED
        BY <2>4, <2>5
<1>10. CASE ~(RouteFill /\ NextFill.is_ours)
    <2>1. \A id \in DOMAIN orders : filled'[id] = filled[id]
        BY <1>10, FilledOrWithdrawn
    <2>2. SumFunctionOnSet(f, S) = SumFunctionOnSet(g, S)
        BY <1>3, <1>4, <2>1, SumSame
    <2> QED
        BY <1>3, <1>4, <1>7, <1>10, <2>2
<1> QED
    BY <1>9, <1>10

LEMMA StepFilledNat ==
    ASSUME SBase, FilledNat, OrdersFit, [StrategyStep]_slVars
    PROVE  FilledNat'
<1>1. CASE Issue /\ Head(todo).is_cancel
    <2>1. orders' = orders /\ filled' = filled
        BY <1>1, IssuedCancel
    <2> QED
        BY <2>1 DEF FilledNat
<1>2. CASE Issue /\ ~Head(todo).is_cancel
    <2>1. PICK k : k = next_our_id
        OBVIOUS
    <2>2. /\ DOMAIN orders' = DOMAIN orders \cup {k} /\ filled'[k] = 0
          /\ \A id \in DOMAIN orders : filled'[id] = filled[id]
        BY <1>2, <2>1, IssuedOrder
    <2> QED
        BY <2>2 DEF FilledNat
<1>3. CASE ~Issue
    <2>1. [LoopNext]_vars /\ seq' = seq
        BY <1>3, StrategyStepsLoop, NothingIssued DEF SBase
    <2> QED
        BY <2>1, FilledGrows DEF FilledNat
<1> QED
    BY <1>1, <1>2, <1>3

\* A cancel that is sent changes no commitment.
LEMMA CancelCommits ==
    ASSUME SBase, OrdersFit, Issue, Head(todo).is_cancel, NEW s
    PROVE  Committed(s)' = Committed(s)
<1>1. /\ orders' = orders /\ filled' = filled
      /\ \A id : Outstanding(id)' <=> Outstanding(id)
    BY IssuedCancel
<1>2. fills' = fills /\ told' = told
    BY Issued DEF SBase, engineVars
<1>3. \A id : UnroutedQty(id)' = UnroutedQty(id)
    BY <1>2 DEF UnroutedQty, LegQty
<1>4. LiveIds(s)' = LiveIds(s) /\ Left' = Left
    BY <1>1, <1>3 DEF LiveIds, Unfinished, Left
<1> QED
    BY <1>4 DEF Committed

\* An order that is sent commits its side to its quantity.
LEMMA OrderCommits ==
    ASSUME SBase, OrdersFit, Issue, ~Head(todo).is_cancel, NEW s
    PROVE  Committed(s)' = Committed(s) + (IF Head(todo).order.side = s THEN Head(todo).order.qty ELSE 0)
<1>0. LeftNat
    BY LeftIsNat
<1>1. PICK k : k = next_our_id
    OBVIOUS
<1>2. PICK z, q : z = Head(todo).order.side /\ q = Head(todo).order.qty
    OBVIOUS
<1>3. /\ DOMAIN orders' = DOMAIN orders \cup {k} /\ k \notin DOMAIN orders
      /\ \A id \in DOMAIN orders : orders'[id] = orders[id] /\ filled'[id] = filled[id]
      /\ filled'[k] = 0 /\ orders'[k].side = z /\ orders'[k].qty = q
      /\ Awaited(k)'
      /\ \A id : id # k => (Outstanding(id)' <=> Outstanding(id))
    BY <1>1, <1>2, IssuedOrder
<1>4. q \in Nat
    <2>1. Head(todo) \in ToDo /\ ~Head(todo).is_cancel
        BY HeadOfTodo DEF SBase, Issue
    <2> QED
        BY <1>2, <2>1 DEF ToDo, MadeUpOrder
<1>5. fills' = fills /\ told' = told
    BY Issued DEF SBase, engineVars
<1>6. \A id : UnroutedQty(id)' = UnroutedQty(id)
    BY <1>5 DEF UnroutedQty, LegQty
<1>7. \A id \in DOMAIN orders : Unfinished(id)' <=> Unfinished(id)
    BY <1>3, <1>6 DEF Unfinished
<1>8. Unfinished(k)'
    BY <1>3 DEF Unfinished, Outstanding
<1>9. PICK f, g, S, T : f = Left /\ g = Left' /\ S = LiveIds(s) /\ T = LiveIds(s)'
    OBVIOUS
<1>10. T = IF z = s THEN S \cup {k} ELSE S
    BY <1>3, <1>7, <1>8, <1>9 DEF LiveIds
<1>11. \A id \in DOMAIN orders' : g[id] = orders'[id].qty - filled'[id]
    BY <1>9 DEF Left
<1>12. /\ Summable(f, S) /\ S \subseteq DOMAIN orders
       /\ \A id \in DOMAIN orders : f[id] = orders[id].qty - filled[id]
    BY <1>0, <1>9 DEF LeftNat
<1>13. g[k] = q /\ \A id \in S : f[id] = g[id]
    BY <1>3, <1>4, <1>11, <1>12
<1>14. Summable(g, S) /\ SumFunctionOnSet(f, S) = SumFunctionOnSet(g, S)
    BY <1>12, <1>13, SumSame
<1>15. /\ Committed(s) = SumFunctionOnSet(f, S) /\ Committed(s)' = SumFunctionOnSet(g, T)
       /\ SumFunctionOnSet(f, S) \in Int
    BY <1>9, <1>12, SumType DEF Committed
<1>16. CASE z = s
    <2>1. k \notin S /\ g[k] \in Int
        BY <1>3, <1>4, <1>12, <1>13
    <2>2. SumFunctionOnSet(g, S \cup {k}) = SumFunctionOnSet(g, S) + g[k]
        BY <1>14, <2>1, SumAdd
    <2> QED
        BY <1>2, <1>10, <1>13, <1>14, <1>15, <1>16, <2>2
<1>17. CASE z # s
    BY <1>2, <1>10, <1>14, <1>15, <1>17
<1> QED
    BY <1>16, <1>17

\* An order that rests between two matches has something left.
LEMMA RestsForSomething ==
    ASSUME SBase, phase = "idle", NEW id \in Resting(book)
    PROVE  RestingQty(id) > 0
<1>1. WellFormed(book) /\ NothingSpentRests
    BY DEF SBase, BInv, IInv, TypeOK, BookIndexed, BookTotals, NothingSpentRests, WellFormed
<1>2. NodeQty(book, id) = Entry(book, id).qty
    BY <1>1, EntryType
<1>3. PICK s \in Side, p \in Price : HasNode(book, s, p, Entry(book, id))
    BY <1>1, EntryIsNode
<1>4. PICK i \in DOMAIN book.levels[s][p].queue :
        book.levels[s][p].queue[i] = Entry(book, id) /\ p \in Prices(book, s)
    BY <1>3 DEF HasNode
<1>5. book.levels[s][p].queue[i].qty > 0
    BY <1>1, <1>4 DEF NothingSpentRests
<1> QED
    BY <1>2, <1>4, <1>5 DEF RestingQty

\* While a strategy decides, what is committed is what it can see is unfilled.
LEMMA CommittedIsUnfilled ==
    ASSUME SBase, at = "data", NEW s
    PROVE  Committed(s) = Unfilled(s)
<1>1. phase = "idle" /\ told = Len(fills)
    BY DEF SBase, BInv, LInv, Control, Routing
<1>2. ASSUME NEW id \in DOMAIN orders
      PROVE  Unfinished(id) <=> Open(id)
    <2>1. UnroutedQty(id) = 0 /\ RestingQty(id) \in Nat /\ PendingQty(id) \in Nat
        BY <1>1, OwnTypes DEF SBase
    <2>2. ~Working(id)
        BY <1>1 DEF Working
    <2>3. id \in Resting(book) <=> RestingQty(id) > 0
        BY <1>1, RestsForSomething DEF RestingQty
    <2>4. Awaited(id) <=> PendingQty(id) > 0
        BY DEF SBase, Given, Awaited, PendingQty
    <2>5. Unfinished(id) <=> RestingQty(id) > 0 \/ PendingQty(id) > 0
        BY <2>1, <2>2, <2>3, <2>4 DEF Unfinished, Outstanding
    <2>6. PICK r \in Nat, p \in Nat : r = RestingQty(id) /\ p = PendingQty(id)
        BY <2>1
    <2> QED
        BY <2>5, <2>6 DEF Open
<1>3. LiveIds(s) = OpenQuotes(s)
    BY <1>2 DEF LiveIds, OpenQuotes
<1> QED
    BY <1>3 DEF Committed, Unfilled, Left

LEMMA TowardType ==
    ASSUME NEW s \in Side, NEW n \in Int
    PROVE  Toward(s, n) \in Int
    BY DEF Toward

\* Within its reach a position is within the limit.
LEMMA ReachLimits ==
    ASSUME SBase, NEW pos \in Int, NEW limit \in [Side -> Int], Reach(pos, limit), NEW s \in Side
    PROVE  Toward(s, pos) <= limit[s]
<1>1. PICK x \in Int, c \in Nat, m \in Int : x = Toward(s, pos) /\ c = Committed(s) /\ m = limit[s]
    BY LeftIsNat, TowardType DEF LeftNat
<1>2. x + c <= m
    BY <1>1 DEF Reach
<1> QED
    BY <1>1, <1>2

\* A step that adds to the position no more than it ends of the commitments.
LEMMA ReachKept ==
    ASSUME SBase, SBase', NEW pos \in Int, NEW after \in Int, NEW limit \in [Side -> Int],
           Reach(pos, limit), todo' = todo,
           \A s \in Side : Toward(s, after) + Committed(s)' <= Toward(s, pos) + Committed(s)
    PROVE  Reach(after, limit)'
<1>0. LeftNat /\ LeftNat'
    BY LeftIsNat, PTL
<1>1. ASSUME NEW s \in Side
      PROVE  /\ Toward(s, after) + Committed(s)' <= limit[s]
             /\ \A i \in DOMAIN todo :
                  IsPlace(todo[i], s) =>
                     Toward(s, after) + Committed(s)' + todo[i].order.qty <= limit[s]
    <2>1. PICK x \in Int, y \in Int, c \in Nat, d \in Nat, m \in Int :
            /\ x = Toward(s, pos) /\ y = Toward(s, after) /\ c = Committed(s)
            /\ d = Committed(s)' /\ m = limit[s]
        BY <1>0, TowardType DEF LeftNat
    <2>2. y + d <= x + c /\ x + c <= m
        BY <2>1 DEF Reach
    <2>3. ASSUME NEW i \in DOMAIN todo, IsPlace(todo[i], s)
          PROVE  y + d + todo[i].order.qty <= m
        <3>1. todo[i] \in ToDo
            BY DEF SBase, CallbackInv
        <3>2. PICK q \in Nat : q = todo[i].order.qty
            BY <2>3, <3>1 DEF ToDo, MadeUpOrder, IsPlace
        <3>3. x + c + q <= m
            BY <2>1, <2>3, <3>2 DEF Reach
        <3> QED
            BY <2>2, <3>2, <3>3
    <2> QED
        BY <2>1, <2>2, <2>3
<1> QED
    BY <1>1 DEF Reach

\* Issuing a placement commits to what was reckoned with.
LEMMA ReachIssued ==
    ASSUME SBase, SBase', OrdersFit, Issue, NEW pos \in Int, NEW limit \in [Side -> Int],
           Reach(pos, limit)
    PROVE  Reach(pos, limit)'
<1>0. LeftNat /\ CallbackInv
    BY LeftIsNat DEF SBase
<1>1. todo # << >> /\ todo' = Tail(todo)
    BY DEF Issue
<1>2. /\ 1 \in DOMAIN todo /\ Head(todo) = todo[1] /\ Head(todo) \in ToDo /\ DOMAIN todo \subseteq Nat
      /\ \A i \in DOMAIN todo' : i \in Nat /\ i # 0 /\ i + 1 \in DOMAIN todo /\ todo'[i] = todo[i + 1]
    <2>1. DOMAIN todo \subseteq Nat /\ DOMAIN todo' \subseteq Nat \ {0}
        BY <1>0, <1>1, HeadOfTodo DEF CallbackInv
    <2> QED
        BY <1>0, <1>1, <2>1, HeadOfTodo
<1>3. \A i, j \in DOMAIN todo' :
        ~todo'[i].is_cancel /\ ~todo'[j].is_cancel /\ todo'[i].order.side = todo'[j].order.side => i = j
    <2> SUFFICES ASSUME NEW i \in DOMAIN todo', NEW j \in DOMAIN todo',
                        ~todo'[i].is_cancel, ~todo'[j].is_cancel,
                        todo'[i].order.side = todo'[j].order.side
                 PROVE  i = j
        OBVIOUS
    <2>1. i + 1 = j + 1
        BY <1>2 DEF Reach
    <2> QED
        BY <1>2, <2>1
<1>4. ASSUME NEW s \in Side
      PROVE  /\ Toward(s, pos) + Committed(s)' <= limit[s]
             /\ \A i \in DOMAIN todo' :
                  IsPlace(todo'[i], s) =>
                     Toward(s, pos) + Committed(s)' + todo'[i].order.qty <= limit[s]
    <2>1. PICK x \in Int, c \in Nat, m \in Int :
            x = Toward(s, pos) /\ c = Committed(s) /\ m = limit[s]
        BY <1>0, TowardType DEF LeftNat
    <2>2. x + c <= m /\ \A i \in DOMAIN todo : IsPlace(todo[i], s) => x + c + todo[i].order.qty <= m
        BY <2>1 DEF Reach
    <2>3. CASE IsPlace(Head(todo), s)
        <3>1. PICK q \in Nat : q = Head(todo).order.qty
            BY <1>2, <2>3 DEF ToDo, MadeUpOrder, IsPlace
        <3>2. Committed(s)' = c + q
            BY <2>1, <2>3, <3>1, OrderCommits DEF IsPlace
        <3>3. x + (c + q) <= m
            <4>1. x + c + q <= m
                BY <1>2, <2>2, <2>3, <3>1
            <4> QED
                BY <2>1, <3>1, <4>1
        <3>4. ASSUME NEW i \in DOMAIN todo', IsPlace(todo'[i], s)
              PROVE  FALSE
            <4>1. i + 1 = 1
                BY <1>2, <2>3, <3>4 DEF Reach, IsPlace
            <4> QED
                BY <1>2, <4>1
        <3> QED
            BY <2>1, <3>2, <3>3, <3>4
    <2>4. CASE ~IsPlace(Head(todo), s)
        <3>1. Committed(s)' = c
            <4>1. CASE Head(todo).is_cancel
                BY <2>1, <4>1, CancelCommits
            <4>2. CASE ~Head(todo).is_cancel
                <5>1. Committed(s)' = Committed(s) + 0
                    BY <2>4, <4>2, OrderCommits DEF IsPlace
                <5> QED
                    BY <2>1, <5>1
            <4> QED
                BY <4>1, <4>2
        <3> QED
            BY <1>2, <2>1, <2>2, <3>1
    <2> QED
        BY <2>3, <2>4
<1> QED
    BY <1>3, <1>4 DEF Reach

\* A decision may set new limits for the sides it sends an order to, with room
\* for that order.
LEMMA ReachDecided ==
    ASSUME SBase, SBase', NEW m, NEW list, NEW purpose, OnMarketData(m, list, purpose),
           NEW pos \in Int, NEW limit \in [Side -> Int], NEW next \in [Side -> Int], Reach(pos, limit),
           list \in Seq(ToDo),
           \A i, j \in DOMAIN list :
              ~list[i].is_cancel /\ ~list[j].is_cancel /\ list[i].order.side = list[j].order.side => i = j,
           \A s \in Side : ~Sends(list, s) => next[s] = limit[s],
           \A s \in Side, i \in DOMAIN list :
              IsPlace(list[i], s) => Toward(s, pos) + list[i].order.qty <= next[s] - Unfilled(s)
    PROVE  Reach(pos, next)'
<1>0. LeftNat /\ todo' = list /\ at = "data" /\ UNCHANGED vars
    BY LeftIsNat DEF OnMarketData
<1>1. \A s : Committed(s)' = Committed(s)
    <2>1. /\ orders' = orders /\ filled' = filled /\ fills' = fills /\ told' = told
          /\ \A id : Outstanding(id)' <=> Outstanding(id)
        BY <1>0, SameVarsOrders
    <2>2. \A id : UnroutedQty(id)' = UnroutedQty(id)
        BY <2>1 DEF UnroutedQty, LegQty
    <2>3. Left' = Left /\ \A s : LiveIds(s)' = LiveIds(s)
        BY <2>1, <2>2 DEF Left, LiveIds, Unfinished
    <2> QED
        BY <2>3 DEF Committed
<1>2. ASSUME NEW s \in Side
      PROVE  /\ Toward(s, pos) + Committed(s) <= next[s]
             /\ \A i \in DOMAIN list :
                  IsPlace(list[i], s) => Toward(s, pos) + Committed(s) + list[i].order.qty <= next[s]
    <2>1. PICK x \in Int, c \in Nat, l \in Int, k \in Int :
            x = Toward(s, pos) /\ c = Committed(s) /\ l = limit[s] /\ k = next[s]
        BY <1>0, TowardType DEF LeftNat
    <2>2. x + c <= l /\ c = Unfilled(s)
        BY <1>0, <2>1, CommittedIsUnfilled DEF Reach
    <2>3. ASSUME NEW i \in DOMAIN list, IsPlace(list[i], s)
          PROVE  x + c + list[i].order.qty <= k /\ x + c <= k
        <3>1. PICK q \in Nat : q = list[i].order.qty
            <4>1. list[i] \in ToDo
                OBVIOUS
            <4> QED
                BY <2>3, <4>1 DEF ToDo, MadeUpOrder, IsPlace
        <3>2. x + q <= k - c
            BY <2>1, <2>2, <2>3, <3>1
        <3> QED
            BY <3>1, <3>2
    <2>4. Sends(list, s) \/ x + c <= k
        BY <2>1, <2>2
    <2>5. x + c <= k
        BY <2>3, <2>4 DEF Sends, IsPlace
    <2> QED
        BY <2>1, <2>3, <2>5
<1> QED
    BY <1>0, <1>1, <1>2 DEF Reach

LEMMA InitReach ==
    ASSUME NEW members, SLInit(members), NEW limit \in [Side -> Int], \A s \in Side : limit[s] >= 0
    PROVE  Reach(0, limit)
<1>1. DOMAIN todo = {} /\ DOMAIN orders = {}
    BY DEF SLInit, BTInit
<1>2. \A s : Committed(s) = 0
    <2>1. \A s : LiveIds(s) = {}
        BY <1>1 DEF LiveIds
    <2> QED
        BY <2>1, SumEmpty DEF Committed
<1>3. \A s : Toward(s, 0) = 0
    BY DEF Toward
<1>4. \A s \in Side : limit[s] \in Int
    OBVIOUS
<1> QED
    BY <1>1, <1>2, <1>3, <1>4 DEF Reach

\* All steps of a strategy but its decisions.
LEMMA ReachGoesOn ==
    ASSUME SBase, SBase', FilledNat, OrdersFit, NEW pos \in Int, NEW after \in Int,
           NEW limit \in [Side -> Int], Reach(pos, limit),
           \/ (\E m : ToldFill(m)) /\ after = IF NextFill.is_ours THEN pos + SignedQty(NextFill) ELSE pos
           \/ (SLStep \/ UNCHANGED slVars) /\ after = pos
    PROVE  Reach(after, limit)' /\ sent' = sent
<1>0. [StrategyStep]_slVars
    BY DEF StrategyStep
<1>1. CASE Issue /\ after = pos
    BY <1>1, ReachIssued DEF Issue
<1>2. CASE ~Issue
    <2>0. [LoopNext]_vars /\ seq' = seq
        BY <1>0, <1>2, StrategyStepsLoop, NothingIssued DEF SBase
    <2>1. todo' = todo /\ sent' = sent
        BY <1>2 DEF ToldFill, SLStep, EventApplied, CancelArrives, LoopStep, slVars, stratVars
    <2>2. LeftNat /\ LeftNat'
        BY LeftIsNat, PTL
    <2>3. ASSUME NEW s \in Side
          PROVE  Toward(s, after) + Committed(s)' <= Toward(s, pos) + Committed(s)
        <3>1. PICK x \in Int, y \in Int, c \in Nat, d \in Nat :
                x = Toward(s, pos) /\ y = Toward(s, after) /\ c = Committed(s) /\ d = Committed(s)'
            BY <2>2, TowardType DEF LeftNat
        <3>2. d <= c
            BY <2>0, <3>1, CommittedFalls
        <3>3. CASE after = pos
            BY <3>1, <3>2, <3>3
        <3>4. CASE (\E m : ToldFill(m)) /\ NextFill.is_ours /\ after = pos + SignedQty(NextFill)
            <4>1. RouteFill
                BY <3>4 DEF ToldFill
            <4>2. PICK q \in Nat, z \in Side : q = NextFill.qty /\ z = NextFill.side
                BY <4>1, FillTold DEF Fill
            <4>3. z = s => d + q <= c
                BY <2>0, <3>1, <3>4, <4>1, <4>2, CommittedFalls
            <4>4. after = IF z = "Buy" THEN pos + q ELSE pos + (0 - q)
                BY <3>4, <4>2 DEF SignedQty
            <4>5. y = IF z = s THEN x + q ELSE x - q
                BY <3>1, <4>2, <4>4 DEF Toward, Side
            <4> QED
                BY <3>1, <3>2, <4>2, <4>3, <4>5
        <3> QED
            BY <3>3, <3>4
    <2> QED
        BY <2>1, <2>3, ReachKept
<1>3. ~(Issue /\ after # pos)
    <2> SUFFICES ASSUME Issue, \E m : ToldFill(m)
                 PROVE  FALSE
        OBVIOUS
    <2>1. seq' = seq + 1 /\ seq' = seq /\ seq \in Nat
        BY Issued DEF SBase, ToldFill, RouteFill, ownVars, BInv, LInv, LoopTypes
    <2> QED
        BY <2>1
<1> QED
    BY <1>1, <1>2, <1>3

(***************************************************************************)
(* The two market makers stop quoting a side at their cap.                 *)
(***************************************************************************)
CapLimit(cap) == [s \in Side |-> cap + sent[s].beside]

SentNat == \A s \in Side : sent[s].beside \in Nat

Far(pos, cap) == SentNat /\ Reach(pos, CapLimit(cap))

LEMMA CapLimitType ==
    ASSUME SentNat, NEW cap \in Int
    PROVE  CapLimit(cap) \in [Side -> Int]
    BY DEF SentNat, CapLimit

\* A decision sets beside for the sides it sends an order to.
LEMMA SentBeside ==
    ASSUME SBase, SentNat, NEW m, NEW list, NEW purpose, OnMarketData(m, list, purpose)
    PROVE  /\ SentNat'
           /\ \A s \in Side : sent'[s].beside = IF Sends(list, s) THEN Unfilled(s) ELSE sent[s].beside
           /\ \A s \in Side : sent'[s].purpose = IF Sends(list, s) THEN purpose ELSE sent[s].purpose
<1>1. at = "data" /\ LeftNat
    BY LeftIsNat DEF OnMarketData
<1>2. \A s : Unfilled(s) \in Nat
    <2> SUFFICES ASSUME NEW s PROVE Unfilled(s) \in Nat
        OBVIOUS
    <2>1. Committed(s) \in Nat
        BY <1>1 DEF LeftNat
    <2> QED
        BY <1>1, <2>1, CommittedIsUnfilled
<1>3. \A s \in Side : sent'[s] = IF Sends(list, s) THEN [purpose |-> purpose, beside |-> Unfilled(s)]
                                                   ELSE sent[s]
    BY DEF OnMarketData
<1>4. ASSUME NEW s \in Side
      PROVE  /\ sent'[s].beside = IF Sends(list, s) THEN Unfilled(s) ELSE sent[s].beside
             /\ sent'[s].purpose = IF Sends(list, s) THEN purpose ELSE sent[s].purpose
    <2>1. PICK r : r = [purpose |-> purpose, beside |-> Unfilled(s)]
        OBVIOUS
    <2>2. r.purpose = purpose /\ r.beside = Unfilled(s)
        BY <2>1
    <2>3. sent'[s] = IF Sends(list, s) THEN r ELSE sent[s]
        BY <1>3, <2>1
    <2> QED
        BY <2>2, <2>3
<1>6. \A s \in Side : sent'[s].beside \in Nat
    BY <1>2, <1>4 DEF SentNat
<1> QED
    BY <1>4, <1>6 DEF SentNat

LEMMA EmptyList == << >> \in Seq(ToDo) /\ DOMAIN << >> = {} /\ \A s : ~Sends(<< >>, s)
<1>1. << >> \in Seq(ToDo)
    OBVIOUS
<1>2. DOMAIN << >> = {}
    OBVIOUS
<1> QED
    BY <1>1, <1>2 DEF Sends

LEMMA QuoteFar ==
    ASSUME SBase, SBase', FilledNat, OrdersFit, QuoteIds, NEW n \in Nat \ {0}, NEW cap \in Int,
           NEW pos \in Int, NEW after \in Int, Far(pos, cap),
           \/ OnMarketData(st, << >>, "none") /\ after = pos
           \/ after = pos /\ \E pb, pa \in Int, nb, na \in {0, n} :
                 /\ Requote(pb, nb, pa, na)
                 /\ nb # 0 => Toward("Buy", pos) <= cap - n
                 /\ na # 0 => Toward("Sell", pos) <= cap - n
           \/ (\E m : ToldFill(m)) /\ after = IF NextFill.is_ours THEN pos + SignedQty(NextFill) ELSE pos
           \/ (SLStep \/ UNCHANGED slVars) /\ after = pos
    PROVE  Far(after, cap)'
<1>0. SentNat /\ Reach(pos, CapLimit(cap)) /\ CapLimit(cap) \in [Side -> Int]
    BY CapLimitType DEF Far
<1>1. PICK limit \in [Side -> Int] : limit = CapLimit(cap)
    BY <1>0
<1>2. \A s \in Side : limit[s] = cap + sent[s].beside
    BY <1>1 DEF CapLimit
<1>3. PICK next : next = CapLimit(cap)'
    OBVIOUS
<1>4. /\ next = [s \in Side |-> cap + sent'[s].beside]
      /\ \A s \in Side : next[s] = cap + sent'[s].beside
    BY <1>3 DEF CapLimit
<1>5. ASSUME SentNat', Reach(after, next)'
      PROVE  Far(after, cap)'
    BY <1>3, <1>5 DEF Far
<1>6. CASE \/ (\E m : ToldFill(m)) /\ after = IF NextFill.is_ours THEN pos + SignedQty(NextFill) ELSE pos
           \/ (SLStep \/ UNCHANGED slVars) /\ after = pos
    <2>1. Reach(after, limit)' /\ sent' = sent
        BY <1>0, <1>1, <1>6, ReachGoesOn
    <2>2. next = limit /\ SentNat'
        BY <1>0, <1>1, <1>4, <2>1 DEF CapLimit, SentNat
    <2> QED
        BY <1>5, <2>1, <2>2
<1>7. CASE OnMarketData(st, << >>, "none") /\ after = pos
    <2>1. PICK list : list = << >>
        OBVIOUS
    <2>2. list \in Seq(ToDo) /\ DOMAIN list = {} /\ \A s : ~Sends(list, s)
        BY <2>1, EmptyList
    <2>3. /\ OnMarketData(st, list, "none") /\ SentNat'
          /\ \A s \in Side : sent'[s].beside = sent[s].beside
        <3>1. OnMarketData(st, list, "none")
            BY <1>7, <2>1
        <3> QED
            BY <1>0, <2>2, <3>1, SentBeside
    <2>4. next \in [Side -> Int] /\ \A s \in Side : next[s] = limit[s]
        BY <1>0, <1>2, <1>4, <2>3 DEF SentNat
    <2>5. Reach(pos, next)'
        <3>1. /\ \A i, j \in DOMAIN list :
                    ~list[i].is_cancel /\ ~list[j].is_cancel
                    /\ list[i].order.side = list[j].order.side => i = j
              /\ \A s \in Side, i \in DOMAIN list :
                    IsPlace(list[i], s) => Toward(s, pos) + list[i].order.qty <= next[s] - Unfilled(s)
            BY <2>2
        <3>2. Reach(pos, limit)
            BY <1>0, <1>1
        <3> QED
            BY <2>2, <2>3, <2>4, <3>1, <3>2, ReachDecided
    <2> QED
        BY <1>5, <1>7, <2>3, <2>5
<1>8. CASE after = pos /\ \E pb, pa \in Int, nb, na \in {0, n} :
                 /\ Requote(pb, nb, pa, na)
                 /\ nb # 0 => Toward("Buy", pos) <= cap - n
                 /\ na # 0 => Toward("Sell", pos) <= cap - n
    <2>1. PICK pb \in Int, pa \in Int, nb \in {0, n}, na \in {0, n} :
                 /\ Requote(pb, nb, pa, na)
                 /\ nb # 0 => Toward("Buy", pos) <= cap - n
                 /\ na # 0 => Toward("Sell", pos) <= cap - n
        BY <1>8
    <2>2. PICK m, list : OnMarketData(m, list, "quote")
        BY <2>1 DEF Requote
    <2>3. todo' = list
        BY <2>2 DEF OnMarketData
    <2>4. RequoteOf(list, Quoted \ {0}, n, pb, nb, pa, na)
        BY <2>1, <2>3, RequoteTodo
    <2>5. /\ list \in Seq(ToDo) /\ DOMAIN list \subseteq Nat
          /\ \A i, j \in DOMAIN list :
               ~list[i].is_cancel /\ ~list[j].is_cancel /\ list[i].order.side = list[j].order.side
                  => i = j
        <3>1. list \in Seq(ToDo) /\ BidFirst(list)
            BY <2>4 DEF RequoteOf
        <3>2. \A i, j \in DOMAIN list :
                ~list[i].is_cancel /\ ~list[j].is_cancel /\ i < j =>
                   list[i].order.side = "Buy" /\ list[j].order.side = "Sell"
            BY <3>1 DEF BidFirst, IsPlace
        <3>3. DOMAIN list \subseteq Nat
            BY <3>1
        <3>4. \A i, j \in Nat : i < j \/ j < i \/ i = j
            OBVIOUS
        <3> QED
            BY <3>1, <3>2, <3>3, <3>4
    <2>6. SentNat' /\ \A s \in Side : sent'[s].beside = IF Sends(list, s) THEN Unfilled(s)
                                                                          ELSE sent[s].beside
        BY <1>0, <2>2, SentBeside
    <2>7. /\ next \in [Side -> Int]
          /\ \A s \in Side : ~Sends(list, s) => next[s] = limit[s]
        BY <1>0, <1>2, <1>4, <2>6 DEF SentNat
    <2>8. ASSUME NEW s \in Side, NEW i \in DOMAIN list, IsPlace(list[i], s)
          PROVE  Toward(s, pos) + list[i].order.qty <= next[s] - Unfilled(s)
        <3>1. list[i].order.qty = n
            BY <2>4, <2>8 DEF RequoteOf, LimitsOf, IsPlace
        <3>2. Toward(s, pos) <= cap - n
            <4>1. CASE s = "Buy"
                BY <2>1, <2>4, <2>8, <4>1 DEF RequoteOf
            <4>2. CASE s = "Sell"
                BY <2>1, <2>4, <2>8, <4>2 DEF RequoteOf
            <4> QED
                BY <4>1, <4>2 DEF Side
        <3>3. Sends(list, s) /\ sent'[s].beside = Unfilled(s)
            BY <2>6, <2>8 DEF Sends, IsPlace
        <3>4. PICK x \in Int, u \in Nat : x = Toward(s, pos) /\ u = Unfilled(s)
            BY <2>6, <3>3, TowardType DEF SentNat
        <3>5. next[s] = cap + u
            BY <1>4, <3>3, <3>4
        <3> QED
            BY <3>1, <3>2, <3>4, <3>5
    <2>9. Reach(pos, next)'
        BY <1>0, <1>1, <2>2, <2>5, <2>7, <2>8, ReachDecided
    <2> QED
        BY <1>5, <1>8, <2>6, <2>9
<1> QED
    BY <1>6, <1>7, <1>8

LEMMA FarContained ==
    ASSUME SBase, NEW cap \in Int, NEW pos \in Int, Far(pos, cap)
    PROVE  Contained(pos, cap)
<1>1. SentNat /\ CapLimit(cap) \in [Side -> Int] /\ Reach(pos, CapLimit(cap))
    BY CapLimitType DEF Far
<1>2. PICK limit \in [Side -> Int] : limit = CapLimit(cap)
    BY <1>1
<1>3. \A s \in Side : Toward(s, pos) <= limit[s]
    BY <1>1, <1>2, ReachLimits
<1> QED
    BY <1>2, <1>3 DEF Contained, CapLimit

LEMMA InitFar ==
    ASSUME NEW members, SLInit(members), NEW cap \in Nat
    PROVE  Far(0, cap)
<1>1. SentNat /\ \A s \in Side : sent[s].beside = 0
    BY DEF SLInit, SentNat
<1>2. PICK limit \in [Side -> Int] : limit = CapLimit(cap)
    BY <1>1, CapLimitType
<1>3. \A s \in Side : limit[s] >= 0
    BY <1>1, <1>2 DEF CapLimit
<1>4. Reach(0, limit)
    BY <1>3, InitReach
<1> QED
    BY <1>1, <1>2, <1>4 DEF Far

(***************************************************************************)
(* HawkesOFIMarketMaker and MarketMaker.                                   *)
(***************************************************************************)
HMFar == Far(st.inventory, MaxInventory + QuoteSize - 1)

LEMMA StepHMFar ==
    ASSUME HMInv, HMInv', HMFar, OrdersFit, [HMNext]_slVars
    PROVE  HMFar'
<1>0. /\ SBase /\ SBase' /\ HMType /\ HMType' /\ FilledNat /\ QuoteIds
      /\ QuoteSize \in Nat \ {0}
    BY HMAssumption DEF HMInv, QInv
<1>1. PICK cap \in Int : cap = MaxInventory + QuoteSize - 1
    BY HMAssumption
<1>2. PICK pos \in Int, after \in Int : pos = st.inventory /\ after = st'.inventory
    BY <1>0 DEF HMType
<1>3. Far(pos, cap)
    BY <1>1, <1>2 DEF HMFar
<1>4. \/ OnMarketData(st, << >>, "none") /\ after = pos
      \/ after = pos /\ \E pb, pa \in Int, nb, na \in {0, QuoteSize} :
            /\ Requote(pb, nb, pa, na)
            /\ nb # 0 => Toward("Buy", pos) <= cap - QuoteSize
            /\ na # 0 => Toward("Sell", pos) <= cap - QuoteSize
      \/ /\ \E m : ToldFill(m)
         /\ after = IF NextFill.is_ours THEN pos + SignedQty(NextFill) ELSE pos
      \/ (SLStep \/ UNCHANGED slVars) /\ after = pos
    <2>1. CASE HMOnMarketData /\ TwoSided
        <3>1. PICK pb \in Int, pa \in Int, nb \in {0, QuoteSize}, na \in {0, QuoteSize} :
                /\ Requote(pb, nb, pa, na)
                /\ nb = IF "Buy" \in QuotedSides THEN QuoteSize ELSE 0
                /\ na = IF "Sell" \in QuotedSides THEN QuoteSize ELSE 0
                /\ st'.inventory = st.inventory
            BY <1>0, <2>1, HMRequotes
        <3>2. ASSUME NEW s \in Side, s \in QuotedSides
              PROVE  Toward(s, pos) <= cap - QuoteSize
            <4>1. Toward(s, pos) <= MaxInventory - 1
                BY <1>0, <1>2, <3>2, CapStopsOneSide
            <4>2. cap - QuoteSize = MaxInventory - 1
                BY <1>1, HMAssumption
            <4> QED
                BY <4>1, <4>2
        <3> QED
            BY <1>2, <3>1, <3>2 DEF Side
    <2>2. CASE HMOnMarketData /\ ~TwoSided
        BY <1>2, <2>2 DEF HMOnMarketData, OnMarketData
    <2>3. CASE ToldFill(HMOnFill(st, NextFill))
        BY <1>0, <1>2, <2>3, HMFills
    <2>4. CASE SLStep \/ UNCHANGED slVars
        BY <1>2, <2>4 DEF SLStep, Issue, EventApplied, CancelArrives, LoopStep, slVars, stratVars
    <2> QED
        BY <2>1, <2>2, <2>3, <2>4 DEF HMNext
<1>5. Far(after, cap)'
    BY <1>0, <1>3, <1>4, QuoteFar
<1> QED
    BY <1>1, <1>2, <1>5 DEF HMFar

MMFar == Far(st.inventory, MaxPos + MakerSize - 1)

LEMMA StepMMFar ==
    ASSUME MMInv, MMInv', MMFar, OrdersFit, [MMNext]_slVars
    PROVE  MMFar'
<1>0. /\ SBase /\ SBase' /\ MMType /\ MMType' /\ Posted /\ FilledNat /\ QuoteIds
      /\ MakerSize \in Nat \ {0} /\ MaxPos \in Nat \ {0}
    BY MMAssumption DEF MMInv, QInv
<1>1. PICK cap \in Int : cap = MaxPos + MakerSize - 1
    BY <1>0
<1>2. PICK pos \in Int, after \in Int : pos = st.inventory /\ after = st'.inventory
    BY <1>0 DEF MMType
<1>3. Far(pos, cap)
    BY <1>1, <1>2 DEF MMFar
<1>4. \/ OnMarketData(st, << >>, "none") /\ after = pos
      \/ after = pos /\ \E pb, pa \in Int, nb, na \in {0, MakerSize} :
            /\ Requote(pb, nb, pa, na)
            /\ nb # 0 => Toward("Buy", pos) <= cap - MakerSize
            /\ na # 0 => Toward("Sell", pos) <= cap - MakerSize
      \/ /\ \E m : ToldFill(m)
         /\ after = IF NextFill.is_ours THEN pos + SignedQty(NextFill) ELSE pos
      \/ (SLStep \/ UNCHANGED slVars) /\ after = pos
    <2>1. CASE MMOnMarketData /\ ~(~TwoSided \/ Unchanged)
        <3>1. PICK pb \in Int, pa \in Int, nb \in {0, MakerSize}, na \in {0, MakerSize} :
                /\ Requote(pb, nb, pa, na)
                /\ nb = 0 <=> st.inventory >= MaxPos
                /\ na = 0 <=> 0 - st.inventory >= MaxPos
                /\ st'.inventory = st.inventory
            BY <1>0, <2>1, MMRequotes
        <3>2. /\ nb # 0 => pos <= cap - MakerSize
              /\ na # 0 => 0 - pos <= cap - MakerSize
            BY <1>0, <1>1, <1>2, <3>1
        <3> QED
            BY <1>2, <3>1, <3>2 DEF Toward
    <2>2. CASE MMOnMarketData /\ (~TwoSided \/ Unchanged)
        BY <1>2, <2>2 DEF MMOnMarketData, OnMarketData
    <2>3. CASE ToldFill(MMOnFill(st, NextFill))
        BY <1>0, <1>2, <2>3, MMFills
    <2>4. CASE SLStep \/ UNCHANGED slVars
        BY <1>2, <2>4 DEF SLStep, Issue, EventApplied, CancelArrives, LoopStep, slVars, stratVars
    <2> QED
        BY <2>1, <2>2, <2>3, <2>4 DEF MMNext
<1>5. Far(after, cap)'
    BY <1>0, <1>3, <1>4, QuoteFar
<1> QED
    BY <1>1, <1>2, <1>5 DEF MMFar

\* Over the cap only the other side is quoted, and the position passes the cap by
\* no more than one quote, less one, and what was out beside the last order.
THEOREM InventoryStaysContained ==
    ASSUME TapeIdsApart
    PROVE  HMSpec /\ []OrdersFit => []InventoryContained
<1> DEFINE I == HMInv /\ AtCap /\ HMFar
<1>1. HMInit => I
    <2> SUFFICES ASSUME HMInit PROVE AtCap /\ HMFar
        BY InitHMInv
    <2>1. PICK m : m = [bid_id |-> 0, ask_id |-> 0, inventory |-> 0] /\ SLInit(m)
        BY DEF HMInit
    <2>2. st = m /\ st.inventory = 0 /\ book = EmptyBook
        BY <2>1 DEF SLInit, BTInit, Init
    <2>3. ~TwoSided
        <3>1. \A s \in Side : Prices(EmptyBook, s) = {}
            BY DEF EmptyBook, Prices
        <3> QED
            BY <2>2, <3>1 DEF TwoSided, Side
    <2>4. MaxInventory + QuoteSize - 1 \in Nat
        BY HMAssumption
    <2>5. Far(0, MaxInventory + QuoteSize - 1)
        BY <2>1, <2>4, InitFar
    <2> QED
        BY <2>2, <2>3, <2>5 DEF AtCap, HMFar
<1>2. I /\ OrdersFit /\ [HMNext]_slVars => I'
    BY StepHMInv, StepAtCap, StepHMFar
<1>3. I => InventoryContained
    <2> SUFFICES ASSUME HMInv, AtCap, HMFar PROVE InventoryContained
        OBVIOUS
    <2>1. SBase /\ st.inventory \in Int /\ MaxInventory + QuoteSize - 1 \in Int
        BY HMAssumption DEF HMInv, HMType
    <2>2. Contained(st.inventory, MaxInventory + QuoteSize - 1)
        BY <2>1, FarContained DEF HMFar
    <2> QED
        BY <2>2, CapReduces DEF InventoryContained
<1> HIDE DEF I
<1> QED
    BY <1>1, <1>2, <1>3, PTL DEF HMSpec

\* MarketMaker quotes each side exactly while the cap allows, asks for nothing
\* that adds at the cap, and passes it only by what was out.
THEOREM MakerKeepsToTheCap ==
    ASSUME TapeIdsApart
    PROVE  STSpec /\ []OrdersFit => []MakerQuotesToTheCap
<1> DEFINE I == name = "mm" => MMInv /\ MMFar
<1>1. STInit => I
    <2> SUFFICES ASSUME STInit, name = "mm" PROVE MMInv /\ MMFar
        OBVIOUS
    <2>1. MMInit
        BY DEF STInit
    <2>2. PICK m : /\ m = [last_mid |-> -1, bid_id |-> 0, ask_id |-> 0, inventory |-> 0,
                           have_quotes |-> FALSE]
                   /\ SLInit(m)
        BY <2>1 DEF MMInit
    <2>3. st = m /\ st.inventory = 0
        BY <2>2 DEF SLInit
    <2>4. MaxPos + MakerSize - 1 \in Nat
        BY MMAssumption
    <2>5. Far(0, MaxPos + MakerSize - 1)
        BY <2>2, <2>4, InitFar
    <2> QED
        BY <2>1, <2>3, <2>5, InitMMInv DEF MMFar
<1>2. I /\ OrdersFit /\ [STNext]_<<slVars, name>> => I'
    <2> SUFFICES ASSUME I, OrdersFit, [STNext]_<<slVars, name>>, name' = "mm"
                 PROVE  MMInv' /\ MMFar'
        OBVIOUS
    <2>1. name = "mm" /\ [MMNext]_slVars
        BY DEF STNext
    <2>2. MMInv /\ MMFar
        BY <2>1
    <2>3. MMInv'
        BY <2>1, <2>2, StepMMInv
    <2> QED
        BY <2>1, <2>2, <2>3, StepMMFar
<1>3. I => MakerQuotesToTheCap
    <2> SUFFICES ASSUME name = "mm", MMInv, MMFar
                 PROVE  QuotedUpToTheCap /\ NothingAddsAtTheCap /\ PositionWithinReach
        BY DEF MakerQuotesToTheCap
    <2>1. SBase /\ st.inventory \in Int /\ MaxPos + MakerSize - 1 \in Int
        BY MMAssumption DEF MMInv, MMType
    <2>2. Contained(st.inventory, MaxPos + MakerSize - 1)
        BY <2>1, FarContained DEF MMFar
    <2> QED
        BY <2>2, MakerStopsAtTheCap DEF PositionWithinReach
<1> HIDE DEF I
<1> QED
    BY <1>1, <1>2, <1>3, PTL DEF STSpec

(***************************************************************************)
(* MeanReversion.  An entry leaves room for one order, a flatten for none. *)
(***************************************************************************)
MRType == st = [buf |-> st.buf, pos |-> st.pos] /\ st.pos \in Int

MRInv == SBase /\ MRType /\ FilledNat

TakerLimit ==
    [s \in Side |-> (IF sent[s].purpose = "revert" THEN 0 ELSE 2 * TakerSize - 1) + sent[s].beside]

MRFar == SentNat /\ Reach(st.pos, TakerLimit)

LEMMA TakerLimitType ==
    ASSUME SentNat
    PROVE  TakerLimit \in [Side -> Int]
    BY MRAssumption DEF SentNat, TakerLimit

\* What MeanReversion may decide on: n on the side s, for the given purpose.
Intended(s, n, purpose) ==
    \/ purpose = "enter" /\ n = TakerSize /\ Toward(s, st.pos) < TakerSize
    \/ purpose = "revert" /\ Toward(s, st.pos) + n = 0

LEMMA MRDecides ==
    ASSUME SBase, MRType, MROnMarketData
    PROVE  \E m, list, purpose :
             /\ OnMarketData(m, list, purpose) /\ m = [buf |-> m.buf, pos |-> st.pos]
             /\ \/ list = << >>
                \/ \E s \in Side, p \in Int, n \in Nat \ {0} :
                      list = Place(s, "IOC", p, n) /\ Intended(s, n, purpose)
<1>1. CASE ~TwoSided
    <2>1. OnMarketData(st, << >>, "none") /\ st = [buf |-> st.buf, pos |-> st.pos]
        BY <1>1 DEF MROnMarketData, MRType
    <2> QED
        BY <2>1
<1>2. CASE TwoSided
    <2>1. PICK q : q = Push(st.buf, BestBid + BestAsk)
        OBVIOUS
    <2>2. PICK m, entry, revert :
            m = [st EXCEPT !.buf = q] /\ entry = Enter(q) /\ revert = Revert(q)
        OBVIOUS
    <2>3. m = [buf |-> m.buf, pos |-> st.pos]
        BY <2>2 DEF MRType
    <2>4. PICK bid \in Int, ask \in Int, n \in Int, t \in Nat \ {0} :
            bid = BestBid /\ ask = BestAsk /\ n = st.pos /\ t = TakerSize
        BY <1>2, MidType, MRAssumption DEF MRType
    <2>5. /\ \/ entry = << >>
             \/ entry = Place("Sell", "IOC", bid, t) /\ 0 - n < t
             \/ entry = Place("Buy", "IOC", ask, t) /\ n < t
          /\ \/ revert = << >>
             \/ revert = Place("Sell", "IOC", bid, n) /\ n > 0
             \/ revert = Place("Buy", "IOC", ask, 0 - n) /\ n < 0
        BY <2>2, <2>4 DEF Enter, Revert, Take, Room
    <2>6. "Buy" \in Side /\ "Sell" \in Side /\ "Sell" # "Buy"
        BY DEF Side
    <2>7. /\ 0 - n < t => Intended("Sell", t, "enter")
          /\ n < t => Intended("Buy", t, "enter")
          /\ n > 0 => Intended("Sell", n, "revert") /\ n \in Nat \ {0}
          /\ n < 0 => Intended("Buy", 0 - n, "revert") /\ 0 - n \in Nat \ {0}
        BY <2>4, <2>6 DEF Intended, Toward
    <2>8. /\ \/ entry = << >>
             \/ \E s \in Side, p \in Int, k \in Nat \ {0} :
                   entry = Place(s, "IOC", p, k) /\ Intended(s, k, "enter")
          /\ \/ revert = << >>
             \/ \E s \in Side, p \in Int, k \in Nat \ {0} :
                   revert = Place(s, "IOC", p, k) /\ Intended(s, k, "revert")
        BY <2>4, <2>5, <2>6, <2>7
    <2>9. \/ OnMarketData(m, << >>, "none")
          \/ OnMarketData(m, entry, "enter")
          \/ OnMarketData(m, revert, "revert")
        BY <1>2, <2>1, <2>2 DEF MROnMarketData
    <2> QED
        BY <2>3, <2>8, <2>9
<1> QED
    BY <1>1, <1>2

\* The decision is one a strategy may take, and is for no more than intended.
LEMMA MRLists ==
    ASSUME SBase, MRType, MROnMarketData
    PROVE  \E m, list, purpose :
             /\ OnMarketData(m, list, purpose) /\ list \in Seq(ToDo) /\ Addressed(list)
             /\ m = [buf |-> m.buf, pos |-> st.pos]
             /\ \A i \in DOMAIN list :
                   /\ i = 1 /\ ~list[i].is_cancel /\ list[i].order.side \in Side
                   /\ Intended(list[i].order.side, list[i].order.qty, purpose)
<1>1. PICK m, list, purpose :
             /\ OnMarketData(m, list, purpose) /\ m = [buf |-> m.buf, pos |-> st.pos]
             /\ \/ list = << >>
                \/ \E s \in Side, p \in Int, n \in Nat \ {0} :
                      list = Place(s, "IOC", p, n) /\ Intended(s, n, purpose)
    BY MRDecides
<1>2. /\ list \in Seq(ToDo)
      /\ \A i \in DOMAIN list :
            /\ i = 1 /\ ~list[i].is_cancel /\ list[i].order.side \in Side
            /\ Intended(list[i].order.side, list[i].order.qty, purpose)
    <2>1. CASE list = << >>
        BY <2>1
    <2>2. CASE list # << >>
        <3>1. PICK s \in Side, p \in Int, n \in Nat \ {0} :
                list = Place(s, "IOC", p, n) /\ Intended(s, n, purpose)
            BY <1>1, <2>2
        <3>2. OnlyPlace(list, s, "IOC", p, n)
            BY <3>1, Placements DEF OrderType
        <3> QED
            BY <3>1, <3>2 DEF OnlyPlace, IsPlace
    <2> QED
        BY <2>1, <2>2
<1>3. Addressed(list)
    BY <1>2 DEF Addressed
<1> QED
    BY <1>1, <1>2, <1>3

LEMMA MRStepsStrategy ==
    ASSUME SBase, MRType, [MRNext]_slVars
    PROVE  [StrategyStep]_slVars
<1>1. CASE MROnMarketData
    <2>1. \E m, list, purpose :
            OnMarketData(m, list, purpose) /\ list \in Seq(ToDo) /\ Addressed(list)
        BY <1>1, MRLists
    <2> QED
        BY <2>1 DEF StrategyStep
<1>2. CASE ToldFill(MROnFill(st, NextFill)) \/ SLStep
    BY <1>2 DEF StrategyStep
<1> QED
    BY <1>1, <1>2 DEF MRNext

LEMMA MRFills ==
    ASSUME SBase, MRType, ToldFill(MROnFill(st, NextFill))
    PROVE  /\ MRType'
           /\ st'.pos = IF NextFill.is_ours THEN st.pos + SignedQty(NextFill) ELSE st.pos
<1>1. RouteFill /\ st' = (IF NextFill.is_ours THEN MROnFill(st, NextFill) ELSE st)
    BY DEF ToldFill
<1>2. NextFill.qty \in Nat
    BY <1>1, FillTold
<1>3. SignedQty(NextFill) \in Int
    BY <1>2 DEF SignedQty
<1>4. PICK f, d, b, p :
        f = MROnFill(st, NextFill) /\ d = SignedQty(NextFill) /\ b = st.buf /\ p = st.pos
    OBVIOUS
<1>5. f = [st EXCEPT !.pos = p + d] /\ st = [buf |-> b, pos |-> p] /\ p \in Int /\ d \in Int
    BY <1>3, <1>4 DEF MROnFill, MRType
<1>6. f = [buf |-> b, pos |-> p + d] /\ f.pos = p + d /\ f.buf = b /\ f.pos \in Int
    BY <1>5
<1>7. MRType'
    BY <1>1, <1>4, <1>5, <1>6 DEF MRType
<1> QED
    BY <1>1, <1>4, <1>6, <1>7

LEMMA StepMRInv ==
    ASSUME TapeIdsApart, MRInv, OrdersFit, [MRNext]_slVars
    PROVE  MRInv'
<1>0. SBase /\ MRType /\ FilledNat
    BY DEF MRInv
<1>1. [StrategyStep]_slVars
    BY <1>0, MRStepsStrategy
<1>2. SBase' /\ FilledNat'
    BY <1>0, <1>1, StepSBase, StepFilledNat
<1>3. MRType'
    <2>1. CASE MROnMarketData
        <3>1. PICK m, list, purpose :
                OnMarketData(m, list, purpose) /\ m = [buf |-> m.buf, pos |-> st.pos]
            BY <1>0, <2>1, MRLists
        <3>2. PICK pos : pos = st.pos
            OBVIOUS
        <3>3. st' = m /\ m.pos = pos
            BY <3>1, <3>2 DEF OnMarketData
        <3> QED
            BY <1>0, <3>1, <3>2, <3>3 DEF MRType
    <2>2. CASE ToldFill(MROnFill(st, NextFill))
        BY <1>0, <2>2, MRFills
    <2>3. CASE SLStep \/ UNCHANGED slVars
        <3>1. st' = st
            BY <2>3 DEF SLStep, Issue, EventApplied, CancelArrives, LoopStep, slVars, stratVars
        <3> QED
            BY <1>0, <3>1 DEF MRType
    <2> QED
        BY <2>1, <2>2, <2>3 DEF MRNext
<1> QED
    BY <1>2, <1>3 DEF MRInv

LEMMA StepMRFar ==
    ASSUME MRInv, MRInv', MRFar, OrdersFit, [MRNext]_slVars
    PROVE  MRFar'
<1>0. SBase /\ SBase' /\ MRType /\ MRType' /\ FilledNat /\ SentNat /\ TakerSize \in Nat \ {0}
    BY MRAssumption DEF MRInv, MRFar
<1>1. PICK limit \in [Side -> Int] : limit = TakerLimit
    BY <1>0, TakerLimitType
<1>2. PICK pos \in Int, after \in Int : pos = st.pos /\ after = st'.pos
    BY <1>0 DEF MRType
<1>3. Reach(pos, limit)
    BY <1>1, <1>2 DEF MRFar
<1>4. PICK next : next = TakerLimit'
    OBVIOUS
<1>5. ASSUME SentNat', Reach(after, next)'
      PROVE  MRFar'
    BY <1>2, <1>4, <1>5 DEF MRFar
<1>6. CASE ToldFill(MROnFill(st, NextFill)) \/ SLStep \/ UNCHANGED slVars
    <2>1. \/ (\E m : ToldFill(m)) /\ after = IF NextFill.is_ours THEN pos + SignedQty(NextFill) ELSE pos
          \/ (SLStep \/ UNCHANGED slVars) /\ after = pos
        <3>1. CASE ToldFill(MROnFill(st, NextFill))
            BY <1>0, <1>2, <3>1, MRFills
        <3>2. CASE SLStep \/ UNCHANGED slVars
            BY <1>2, <3>2 DEF SLStep, Issue, EventApplied, CancelArrives, LoopStep, slVars, stratVars
        <3> QED
            BY <1>6, <3>1, <3>2
    <2>2. Reach(after, limit)' /\ sent' = sent
        BY <1>0, <1>3, <2>1, ReachGoesOn
    <2>3. next = limit /\ SentNat'
        BY <1>0, <1>1, <1>4, <2>2 DEF TakerLimit, SentNat
    <2> QED
        BY <1>5, <2>2, <2>3
<1>7. CASE MROnMarketData
    <2>1. PICK m, list, purpose :
             /\ OnMarketData(m, list, purpose) /\ list \in Seq(ToDo) /\ Addressed(list)
             /\ m = [buf |-> m.buf, pos |-> st.pos]
             /\ \A i \in DOMAIN list :
                   /\ i = 1 /\ ~list[i].is_cancel /\ list[i].order.side \in Side
                   /\ Intended(list[i].order.side, list[i].order.qty, purpose)
        BY <1>0, <1>7, MRLists
    <2>2. after = pos
        <3>1. st' = m
            BY <2>1 DEF OnMarketData
        <3>2. m.pos = pos
            BY <1>2, <2>1
        <3> QED
            BY <1>2, <3>1, <3>2
    <2>3. /\ SentNat'
          /\ \A s \in Side : sent'[s].beside = IF Sends(list, s) THEN Unfilled(s) ELSE sent[s].beside
          /\ \A s \in Side : sent'[s].purpose = IF Sends(list, s) THEN purpose ELSE sent[s].purpose
        BY <1>0, <2>1, SentBeside
    <2>4. /\ \A s \in Side : limit[s] = (IF sent[s].purpose = "revert" THEN 0 ELSE 2 * TakerSize - 1)
                                        + sent[s].beside
          /\ \A s \in Side : next[s] = (IF sent'[s].purpose = "revert" THEN 0 ELSE 2 * TakerSize - 1)
                                       + sent'[s].beside
        BY <1>1, <1>4 DEF TakerLimit
    <2>5. next \in [Side -> Int]
        <3>1. next = [s \in Side |-> (IF sent'[s].purpose = "revert" THEN 0 ELSE 2 * TakerSize - 1)
                                     + sent'[s].beside]
            BY <1>4 DEF TakerLimit
        <3>2. \A s \in Side : sent'[s].beside \in Nat
            BY <2>3 DEF SentNat
        <3> QED
            BY <1>0, <3>1, <3>2
    <2>6. \A s \in Side : ~Sends(list, s) => next[s] = limit[s]
        BY <2>3, <2>4
    <2>7. ASSUME NEW s \in Side, NEW i \in DOMAIN list, IsPlace(list[i], s)
          PROVE  Toward(s, pos) + list[i].order.qty <= next[s] - Unfilled(s)
        <3>1. list[i].order.side = s /\ Sends(list, s) /\ list[i] \in ToDo
            BY <2>1, <2>7 DEF IsPlace, Sends
        <3>2. PICK n \in Nat : n = list[i].order.qty
            BY <2>7, <3>1 DEF ToDo, MadeUpOrder, IsPlace
        <3>3. sent'[s].beside = Unfilled(s) /\ sent'[s].purpose = purpose
            BY <2>3, <3>1
        <3>4. PICK x \in Int, u \in Nat, t \in Nat \ {0} :
                x = Toward(s, pos) /\ u = Unfilled(s) /\ t = TakerSize
            BY <1>0, <2>3, <3>3, TowardType DEF SentNat
        <3>5. \/ purpose = "enter" /\ n = t /\ x < t
              \/ purpose = "revert" /\ x + n = 0
            BY <1>2, <2>1, <3>1, <3>2, <3>4 DEF Intended
        <3>6. next[s] = (IF purpose = "revert" THEN 0 ELSE 2 * t - 1) + u
            BY <2>4, <3>3, <3>4
        <3> QED
            BY <3>2, <3>4, <3>5, <3>6
    <2>8. \A i, j \in DOMAIN list :
            ~list[i].is_cancel /\ ~list[j].is_cancel /\ list[i].order.side = list[j].order.side => i = j
        BY <2>1
    <2>9. Reach(pos, next)'
        BY <1>0, <1>3, <2>1, <2>5, <2>6, <2>7, <2>8, ReachDecided
    <2> QED
        BY <1>5, <2>2, <2>3, <2>9
<1> QED
    BY <1>6, <1>7 DEF MRNext

LEMMA MRFarCapped ==
    ASSUME MRInv, MRFar
    PROVE  PositionCapped /\ FlattensToFlat
<1>1. SBase /\ st.pos \in Int /\ SentNat /\ TakerSize \in Nat \ {0}
    BY MRAssumption DEF MRInv, MRType, MRFar
<1>2. PICK limit \in [Side -> Int] : limit = TakerLimit
    BY <1>1, TakerLimitType
<1>3. \A s \in Side : Toward(s, st.pos) <= limit[s]
    BY <1>1, <1>2, ReachLimits DEF MRFar
<1>4. ASSUME NEW s \in Side
      PROVE  /\ Toward(s, st.pos) <= 2 * TakerSize - 1 + sent[s].beside
             /\ sent[s].purpose = "revert" => Toward(s, st.pos) <= sent[s].beside
    <2>1. PICK x \in Int, b \in Nat, t \in Nat \ {0} :
            x = Toward(s, st.pos) /\ b = sent[s].beside /\ t = TakerSize
        BY <1>1, TowardType DEF SentNat
    <2>2. x <= (IF sent[s].purpose = "revert" THEN 0 ELSE 2 * t - 1) + b
        BY <1>2, <1>3, <2>1 DEF TakerLimit
    <2> QED
        BY <2>1, <2>2
<1> QED
    BY <1>4 DEF PositionCapped, Contained, FlattensToFlat

LEMMA InitMR == MRInit => MRInv /\ MRFar
<1> SUFFICES ASSUME MRInit PROVE MRInv /\ MRFar
    OBVIOUS
<1>1. PICK m : m = [buf |-> << >>, pos |-> 0] /\ SLInit(m)
    BY DEF MRInit
<1>2. st = m /\ st.pos = 0 /\ st.buf = << >> /\ orders = << >>
    BY <1>1 DEF SLInit, BTInit
<1>3. MRInv
    <2>1. MRType
        BY <1>1, <1>2 DEF MRType
    <2> QED
        BY <1>1, <1>2, <2>1, InitSBase DEF MRInv, FilledNat
<1>4. SentNat /\ \A s \in Side : sent[s].beside = 0 /\ sent[s].purpose = "none"
    BY <1>1 DEF SLInit, SentNat
<1>5. PICK limit \in [Side -> Int] : limit = TakerLimit
    BY <1>4, TakerLimitType
<1>6. \A s \in Side : limit[s] >= 0
    BY <1>4, <1>5, MRAssumption DEF TakerLimit
<1>7. Reach(0, limit)
    BY <1>1, <1>6, InitReach
<1> QED
    BY <1>2, <1>3, <1>4, <1>5, <1>7 DEF MRFar

LEMMA STTaker ==
    ASSUME TapeIdsApart
    PROVE  STSpec /\ []OrdersFit => [](name = "meanrev" => MRInv /\ MRFar)
<1> DEFINE I == name = "meanrev" => MRInv /\ MRFar
<1>1. STInit => I
    BY InitMR DEF STInit
<1>2. I /\ OrdersFit /\ [STNext]_<<slVars, name>> => I'
    <2> SUFFICES ASSUME I, OrdersFit, [STNext]_<<slVars, name>>, name' = "meanrev"
                 PROVE  MRInv' /\ MRFar'
        OBVIOUS
    <2>1. name = "meanrev" /\ [MRNext]_slVars
        BY DEF STNext
    <2>2. MRInv /\ MRFar
        BY <2>1
    <2>3. MRInv'
        BY <2>1, <2>2, StepMRInv
    <2> QED
        BY <2>1, <2>2, <2>3, StepMRFar
<1> HIDE DEF I
<1>3. STSpec /\ []OrdersFit => []I
    BY <1>1, <1>2, PTL DEF STSpec
<1> QED
    BY <1>3 DEF I

\* MeanReversion enters only below one entry in that direction: its position
\* passes two entries, less one, by no more than what was out beside the last order.
THEOREM TakerStaysCapped ==
    ASSUME TapeIdsApart
    PROVE  STSpec /\ []OrdersFit => []TakerCapped
<1> DEFINE I == name = "meanrev" => MRInv /\ MRFar
<1>1. STSpec /\ []OrdersFit => []I
    BY STTaker
<1>2. I => TakerCapped
    BY MRFarCapped DEF TakerCapped
<1> HIDE DEF I
<1> QED
    BY <1>1, <1>2, PTL

\* A flatten goes through zero by no more than what was out beside it.
THEOREM TakerRevertsToFlat ==
    ASSUME TapeIdsApart
    PROVE  STSpec /\ []OrdersFit => []TakerFlattens
<1> DEFINE I == name = "meanrev" => MRInv /\ MRFar
<1>1. STSpec /\ []OrdersFit => []I
    BY STTaker
<1>2. I => TakerFlattens
    BY MRFarCapped DEF TakerFlattens
<1> HIDE DEF I
<1> QED
    BY <1>1, <1>2, PTL
=============================================================================
