----------------------------- MODULE OfiStream ------------------------------
(***************************************************************************)
(* The snapshots a RollingOFI compares, of a book that changes one level   *)
(* at a time, with any number of changes between two updates (a strategy   *)
(* that returns early on a one-sided book does not update).  The rolling   *)
(* sum of the differences is in CalibrationReplay.                         *)
(***************************************************************************)
EXTENDS Ofi

CONSTANTS
    BidPrices, AskPrices,   \* every bid price is below every ask price
    LevelQty                \* what a level may hold
ASSUME StreamAssumption ==
    /\ BidPrices \subseteq Price /\ AskPrices \subseteq Price
    /\ LevelQty \subseteq Nat \ {0}

VARIABLES
    levels,
    prev,       \* prev_: << >> before the first update
    last        \* history: the levels at the last update

osVars == <<levels, prev, last>>

Book(l) ==
    [levels |-> [s \in Side |-> [p \in DOMAIN l[s] |-> [total_qty |-> l[s][p], queue |-> << >>]]],
     index |-> << >>]

NoLevels == [s \in Side |-> << >>]

OSInit == levels = NoLevels /\ prev = NewRollingOfi.prev /\ last = NoLevels

ChangeLevel(s, p, n) ==
    /\ levels' = [levels EXCEPT ![s] = IF n = 0 THEN DropLevel(@, p) ELSE PutLevel(@, p, n)]
    /\ UNCHANGED <<prev, last>>

UpdateOfi ==
    /\ prev' = SnapshotLevels(Book(levels))
    /\ last' = levels
    /\ UNCHANGED levels

OSNext ==
    \/ \E p \in BidPrices, n \in LevelQty \cup {0} : ChangeLevel("Buy", p, n)
    \/ \E p \in AskPrices, n \in LevelQty \cup {0} : ChangeLevel("Sell", p, n)
    \/ UpdateOfi

OSSpec == OSInit /\ [][OSNext]_osVars

(***************************************************************************)
(* Properties.                                                             *)
(***************************************************************************)
Now == SnapshotLevels(Book(levels))

QtyAt(l, s, p) == IF p \in DOMAIN l[s] THEN l[s][p] ELSE 0

Grew(s) == \A p \in Price : QtyAt(levels, s, p) >= QtyAt(last, s, p)
Shrank(s) == \A p \in Price : QtyAt(levels, s, p) <= QtyAt(last, s, p)

\* ofi.hpp lines 17-18: growth of the bids and depletion of the asks, in any
\* combination and at any depth, push OFI up and never down, and the other way
\* round; also when a level that appears shifts the ones behind it.
GrowthPushesUp ==
    prev # << >> =>
        /\ Grew("Buy") /\ Shrank("Sell") => MultilevelOfi(prev, Now) >= 0
        /\ Shrank("Buy") /\ Grew("Sell") => MultilevelOfi(prev, Now) <= 0

\* A book that goes back to where it was takes back what it signalled: there
\* is no drift from flicker, whatever levels appear or vanish.
ReversalCancels ==
    prev # << >> =>
        MultilevelOfi(prev, Now) + MultilevelOfi(Now, prev) = 0
=============================================================================
