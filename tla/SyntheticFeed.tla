---------------------------- MODULE SyntheticFeed ----------------------------
(***************************************************************************)
(* generate_synthetic_feed: depth is added around a random-walk mid, the   *)
(* oldest orders are cancelled from a bounded ring, aggressors sweep.  The *)
(* random numbers are choices; times and quantities are left out.          *)
(***************************************************************************)
EXTENDS Integers, Sequences, FiniteSets, FiniteSetsExt

CONSTANTS
    N,          \* events asked for
    Mid0,       \* mid0
    MinMid,     \* 100 in the code
    Levels,     \* 5 in the code
    MaxLive,    \* 2000 in the code
    MaxDrift    \* bound on the walk, either way

ASSUME SyntheticFeedAssumption ==
    /\ N \in Nat /\ MaxDrift \in Nat
    /\ Levels \in Nat \ {0} /\ MaxLive \in Nat \ {0}
    /\ Mid0 \in Nat /\ MinMid \in Nat
    /\ MinMid > Levels + 1          \* so that no price is zero

VARIABLES
    ev,         \* the tape
    mid,
    next,       \* next id; kMarketIdBase is 0
    live,       \* the ring of ids, oldest first
    done        \* the tape was resized and returned

sfVars == <<ev, mid, next, live, done>>

SFInit ==
    /\ ev = << >> /\ mid = Mid0 /\ next = 0 /\ live = << >>
    /\ done = FALSE

Feed == [ev |-> ev, next |-> next, live |-> live]

AddEvent(side, px, id) == [type |-> "Add", side |-> side, price |-> px, id |-> id]
CancelEvent(id) == [type |-> "Cancel", side |-> "Buy", price |-> 0, id |-> id]
TradeEvent(side, px, id) == [type |-> "Trade", side |-> side, price |-> px, id |-> id]

\* The order the ring gives up.
Oldest(ids) == ids[1]

\* Mutant: the ring keeps the id it cancelled.
KeepsIt(f) ==
    IF Len(f.live) > MaxLive
    THEN [f EXCEPT !.ev = Append(@, CancelEvent(Oldest(f.live)))]
    ELSE f

\* A ring over its capacity withdraws one order.
Evict(f) ==
    IF Len(f.live) > MaxLive
    THEN [f EXCEPT !.ev = Append(@, CancelEvent(Oldest(f.live))), !.live = Tail(@)]
    ELSE f

EmitAdd(f, side, px) ==
    Evict([ev   |-> Append(f.ev, AddEvent(side, px, f.next)),
           live |-> Append(f.live, f.next),
           next |-> f.next + 1])

\* One level of replenishment, skipped when the tape is long enough.
Replenish(f, i, m, bids, asks) ==
    LET b == IF i \in bids THEN EmitAdd(f, "Buy", m - i) ELSE f
    IN  IF Len(f.ev) >= N THEN f
        ELSE IF i \in asks THEN EmitAdd(b, "Sell", m + i) ELSE b

EmitTrade(f, side, m) ==
    LET px == IF side = "Buy" THEN m + (Levels + 1) ELSE m - (Levels + 1)
    IN  IF side = "None" \/ Len(f.ev) >= N THEN f
        ELSE [f EXCEPT !.ev = Append(@, TradeEvent(side, px, f.next)), !.next = @ + 1]

\* All of them, from two ticks out.
Replenished(m, bids, asks) ==
    LET upto[i \in 1 .. Levels + 1] ==
            IF i = 1 THEN Feed ELSE Replenish(upto[i - 1], i, m, bids, asks)
    IN  upto[Levels + 1]

\* One iteration of the while loop: the coin tosses are the parameters.
Iterate(move, bids, asks, aggressor) ==
    LET m == Max({mid + move, MinMid})
        f == EmitTrade(Replenished(m, bids, asks), aggressor, m)
    IN  /\ Len(ev) < N
        /\ m \in Mid0 - MaxDrift .. Mid0 + MaxDrift
        /\ mid' = m /\ ev' = f.ev /\ live' = f.live /\ next' = f.next
        /\ UNCHANGED done

\* ev.resize(n) cuts what the last iteration wrote beyond n.
Resize ==
    /\ Len(ev) >= N /\ ~done
    /\ ev' = SubSeq(ev, 1, N)
    /\ done' = TRUE
    /\ UNCHANGED <<mid, next, live>>

SFNext ==
    \/ \E move \in {0 - 1, 0, 1}, aggressor \in {"None", "Buy", "Sell"},
          bids, asks \in SUBSET (2 .. Levels + 1) : Iterate(move, bids, asks, aggressor)
    \/ Resize

SFSpec == SFInit /\ [][SFNext]_sfVars

(***************************************************************************)
(* Properties.                                                             *)
(***************************************************************************)

Prefix(k) == SubSeq(ev, 1, k)

Ids(s, type) == {s[i].id : i \in {j \in DOMAIN s : s[j].type = type}}

\* Added and not withdrawn: what the book holds unless a trade took it.
LiveOn(s) == Ids(s, "Add") \ Ids(s, "Cancel")

\* Lines 39-40: whoever replays the tape, and wherever it was cut, never holds
\* more orders than the ring and the one its cancel follows, and has lost the
\* oldest ones only.
RingBoundsTheBook ==
    \A k \in 0 .. Len(ev) :
        /\ Cardinality(LiveOn(Prefix(k))) <= MaxLive + 1
        /\ \A old \in Ids(Prefix(k), "Cancel"), new \in LiveOn(Prefix(k)) : old < new

\* Every id is given once, to an order or an aggressor, every cancel names an
\* order that is still there, once, and no order has a price of zero or less.
IdsAreUsedOnce ==
    /\ \A i, j \in DOMAIN ev :
         i # j /\ ev[i].id = ev[j].id =>
            /\ {ev[i].type, ev[j].type} = {"Add", "Cancel"}
            /\ i < j => ev[i].type = "Add"
    /\ \A i \in DOMAIN ev : ev[i].type = "Cancel" => ev[i].id \in Ids(Prefix(i), "Add")
    /\ \A i \in DOMAIN ev : ev[i].type # "Cancel" => ev[i].price > 0

\* The generator in a sentence: the ring bounds what the replayed book holds,
\* and ids are given once and withdrawn at most once.
SyntheticBookBounded == RingBoundsTheBook /\ IdsAreUsedOnce
=============================================================================
