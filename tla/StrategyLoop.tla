---------------------------- MODULE StrategyLoop ----------------------------
(***************************************************************************)
(* The loop of module Backtester with a strategy that is a program instead *)
(* of arbitrary choices.  A strategy is a record of its members; in        *)
(* on_market_data it decides on a list of commands, which reach the        *)
(* OrderContext one by one, each with a latency of its own; in on_fill the *)
(* strategies of the repository only change their members.  A module of    *)
(* one strategy gives both as functions of the members and closes Next.    *)
(***************************************************************************)
EXTENDS Backtester

VARIABLES
    st,         \* the strategy's members
    todo,       \* commands of the callback that is running, still to issue
    decided,    \* on_market_data has run for the last event
    lost,       \* history: ids whose cancel was due before the order, and found nothing
    sent        \* history: of each side, the last order decided on for it

stratVars == <<st, todo, decided, lost, sent>>
slVars == <<vars, stratVars>>

\* The snapshot handed to on_market_data.
TwoSided == Prices(book, "Buy") # {} /\ Prices(book, "Sell") # {}
BestBid == Best(book, "Buy")
BestAsk == Best(book, "Sell")

\* Commands.  A cancel is issued only for an id that is not 0.
Withdraw(id) == IF id = 0 THEN << >> ELSE <<[is_cancel |-> TRUE, id |-> id]>>

Place(s, type, p, n) ==
    IF n = 0 THEN << >>
    ELSE <<[is_cancel |-> FALSE,
            order |-> [side |-> s, type |-> type, price |-> p, qty |-> n]]>>

\* What a fill adds to the strategy's position.
SignedQty(f) == IF f.side = "Buy" THEN f.qty ELSE 0 - f.qty

\* Quantity and price arithmetic truncates towards 0; d > 0.
Trunc(n, d) == IF n >= 0 THEN n \div d ELSE 0 - ((0 - n) \div d)

SLInit(members) ==
    /\ BTInit
    /\ st = members
    /\ todo = << >>
    /\ decided = TRUE           \* on_start issues nothing
    /\ lost = {}
    /\ sent = [s \in Side |-> [purpose |-> "none", beside |-> 0]]

\* Something of the order can still trade, now or when it arrives.
Open(id) == RestingQty(id) + PendingQty(id) > 0

OpenQuotes(s) == {id \in DOMAIN orders : orders[id].side = s /\ Open(id)}

\* What can still be filled on a side, however much of it is on its way.
Unfilled(s) ==
    SumFunctionOnSet([id \in DOMAIN orders |-> orders[id].qty - filled[id]], OpenQuotes(s))

Sends(commands, s) ==
    \E i \in DOMAIN commands : ~commands[i].is_cancel /\ commands[i].order.side = s

\* on_market_data: new members and the commands, in the order of the code.
\* What the commands are meant for, and what is out beside them, is history.
OnMarketData(members, commands, purpose) ==
    /\ at = "data" /\ ~decided
    /\ decided' = TRUE
    /\ st' = members
    /\ todo' = commands
    /\ sent' = [s \in Side |-> IF Sends(commands, s)
                                 THEN [purpose |-> purpose, beside |-> Unfilled(s)]
                                 ELSE sent[s]]
    /\ UNCHANGED <<vars, lost>>

Issue ==
    /\ todo # << >>
    /\ \E lat \in Latency :
          IF Head(todo).is_cancel THEN CancelOwn(Head(todo).id, lat)
                                  ELSE SubmitOwn(Head(todo).order, lat)
    /\ todo' = Tail(todo)
    /\ UNCHANGED <<st, decided, lost, sent>>

NextFill == fills[told + 1]

\* route_fill; on_fill, when it is called, leaves the members as in after.
ToldFill(after) ==
    /\ RouteFill
    /\ st' = IF NextFill.is_ours THEN after ELSE st
    /\ UNCHANGED <<todo, decided, lost, sent>>

EventApplied ==
    /\ ApplyCancel \/ TapeDone
    /\ decided' = FALSE
    /\ UNCHANGED <<st, todo, lost, sent>>

\* A cancel draws a latency of its own: due before its order, it is dropped.
Overtakes == Top.ts < orders[Top.id].ts_active

CancelArrives ==
    /\ DrainCancel
    /\ lost' = IF Overtakes THEN lost \cup {Top.id} ELSE lost
    /\ UNCHANGED <<st, todo, decided, sent>>

\* The rest of run.
LoopStep ==
    /\ \/ decided /\ todo = << >> /\ EndCallback
       \/ \E e \in Tape, gap \in Gaps : NextEvent(e, gap)
       \/ Flush
       \/ DrainOrder \/ OursDone \/ Drained
       \/ ApplyOrder
       \/ EngineStep
       \/ Stopped
    /\ UNCHANGED stratVars

SLStep == Issue \/ EventApplied \/ CancelArrives \/ LoopStep

(***************************************************************************)
(* What the strategies' properties are made of.                            *)
(***************************************************************************)

\* No callback and no match is under way.
Quiet == todo = << >> /\ decided /\ phase = "idle"

BeingCancelled(id) == \E p \in pending : p.is_cancel /\ p.id = id

\* A cancel was sent that has not stopped the order: not yet, or never will.
Recalled(id) == BeingCancelled(id) \/ id \in lost

\* A position in the direction of side s.
Toward(s, n) == IF s = "Buy" THEN n ELSE 0 - n

\* The position n passes the cap, on either side, by no more than what was out
\* when the last order was decided on.
Contained(n, cap) == \A s \in Side : Toward(s, n) <= cap + sent[s].beside

\* The trade being reported has the strategy's own orders on both sides.
OwnOnBothSides ==
    /\ phase = "traded"
    /\ fills[Len(fills)].is_ours /\ fills[Len(fills) - 1].is_ours
=============================================================================
