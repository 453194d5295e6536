-------------------------------- MODULE Ofi ---------------------------------
(***************************************************************************)
(* Order flow imbalance of ofi.hpp: the top levels of a book of OrderBook, *)
(* the difference of two such snapshots, and the rolling sum RollingOFI    *)
(* keeps of it.  A snapshot side is the sequence of its levels, best first; *)
(* a level beyond its end is the LevelState with has = false.              *)
(***************************************************************************)
EXTENDS OrderBook

CONSTANTS Depth, Window
ASSUME OfiAssumption == Depth \in Nat \ {0} /\ Window \in Nat \ {0}

\* The prices the map of a side has before p, and its m-th price.
BetterThan(b, s, p) == {q \in Prices(b, s) : Better(s, q, p)}

NthPrice(b, s, m) == CHOOSE p \in Prices(b, s) : Cardinality(BetterThan(b, s, p)) = m - 1

Shown(b, s) == 1 .. Min({Depth, Cardinality(Prices(b, s))})

\* snapshot_levels.
TopLevels(b, s) ==
    [m \in Shown(b, s) |->
        [px |-> NthPrice(b, s, m), qty |-> b.levels[s][NthPrice(b, s, m)].total_qty]]

SnapshotLevels(b) == [s \in Side |-> TopLevels(b, s)]

\* Mutant: only a strict improvement counts the new quantity.
StrictSideTerm(s, prev, curr, m) ==
    LET n == m \in DOMAIN curr[s]
        p == m \in DOMAIN prev[s]
    IN  (IF n /\ (p => Better(s, curr[s][m].px, prev[s][m].px)) THEN curr[s][m].qty ELSE 0)
      - (IF p /\ (n => ~Better(s, curr[s][m].px, prev[s][m].px)) THEN prev[s][m].qty ELSE 0)

\* bid_term and ask_term of level_ofi: what the m-th level gained, unless it
\* moved away from the touch, less what it had, unless it moved towards it.
SideTerm(s, prev, curr, m) ==
    LET n == m \in DOMAIN curr[s]
        p == m \in DOMAIN prev[s]
    IN  (IF n /\ (p => ~Better(s, prev[s][m].px, curr[s][m].px)) THEN curr[s][m].qty ELSE 0)
      - (IF p /\ (n => ~Better(s, curr[s][m].px, prev[s][m].px)) THEN prev[s][m].qty ELSE 0)

LevelOfi(prev, curr, m) == SideTerm("Buy", prev, curr, m) - SideTerm("Sell", prev, curr, m)

MultilevelOfi(prev, curr) == SumFunction([m \in 1 .. Depth |-> LevelOfi(prev, curr, m)])

\* RollingOFI.  Before the first update there is no previous snapshot.
NewRollingOfi == [prev |-> << >>, hist |-> << >>, sum |-> 0]

Increment(r, curr) == IF r.prev = << >> THEN 0 ELSE MultilevelOfi(r.prev, curr)

Update(r, b) ==
    LET curr == SnapshotLevels(b)
        inc == Increment(r, curr)
        full == Len(r.hist) = Window
    IN  [prev |-> curr,
         hist |-> Append(IF full THEN Tail(r.hist) ELSE r.hist, inc),
         sum |-> r.sum + inc - (IF full THEN Head(r.hist) ELSE 0)]
=============================================================================
