---------------------------- MODULE SignalProofs -----------------------------
(***************************************************************************)
(* The two signals a strategy trades on: order flow imbalance, and the     *)
(* intensity of a Hawkes process.                                          *)
(*                                                                         *)
(* Order flow imbalance on any two books, and the samples the calibration  *)
(* takes of it, for every depth, window, horizon and tape.  First          *)
(* snapshots: the m-th price of a side is the one with m - 1 better ones,  *)
(* so when a side only grows its m-th price can only improve, and every    *)
(* term of OFI has the sign of the change.  Then the replay: the rolling   *)
(* sum is the sum over the last snapshots, and the mids are those of the   *)
(* latest two-sided one.                                                   *)
(*                                                                         *)
(* The recursive state of the Hawkes kernel is the sum over the history it *)
(* stands for, in all three copies, for every kernel and every tape.       *)
(* First powers of two and what double sums need.  Then one invariant:     *)
(* R[i][j][p] of each copy is, at that copy's own clock, the sum of the    *)
(* decayed weights of the arrivals marked j.  It fixes R, so that two      *)
(* copies agree as soon as they are taken at the same time.  The last part *)
(* adds the compensator charged so far.                                    *)
(*                                                                         *)
(* Sums over finite sets are in MatchingEngineProofs.                      *)
(***************************************************************************)
EXTENDS OrderFlow, HawkesRecursion, MatchingEngineProofs, FunctionTheorems

(***************************************************************************)
(* The prices of a side, ranked.                                           *)
(***************************************************************************)

Earlier(s, X, p) == {q \in X : Better(s, q, p)}

\* A better price has fewer prices before it.
LEMMA BetterIsEarlier ==
    ASSUME NEW s \in Side, NEW X \in SUBSET Int, IsFiniteSet(X),
           NEW p \in X, NEW q \in X, Better(s, p, q)
    PROVE  Cardinality(Earlier(s, X, p)) < Cardinality(Earlier(s, X, q))
<1>1. Earlier(s, X, p) \subseteq Earlier(s, X, q)
    <2>1. \A u, v, w \in Int : Better(s, u, v) /\ Better(s, v, w) => Better(s, u, w)
        BY DEF Better
    <2>2. \A r \in X : Better(s, r, p) => Better(s, r, q)
        BY <2>1
    <2> QED
        BY <2>2 DEF Earlier
<1>2. p \in Earlier(s, X, q) /\ p \notin Earlier(s, X, p)
    BY DEF Earlier, Better
<1>3. IsFiniteSet(Earlier(s, X, q))
    BY FS_Subset DEF Earlier
<1>4. /\ Cardinality(Earlier(s, X, p)) \in Nat /\ Cardinality(Earlier(s, X, q)) \in Nat
      /\ Cardinality(Earlier(s, X, p)) <= Cardinality(Earlier(s, X, q))
      /\ Cardinality(Earlier(s, X, p)) # Cardinality(Earlier(s, X, q))
    <2>1. IsFiniteSet(Earlier(s, X, p))
        BY FS_Subset DEF Earlier
    <2> QED
        BY <1>1, <1>2, <1>3, <2>1, FS_Subset, FS_CardinalityType
<1> QED
    BY <1>4

\* Some price has any given number of prices before it, below their number.
LEMMA EveryRankIsTaken ==
    ASSUME NEW s \in Side, NEW X \in SUBSET Int, IsFiniteSet(X),
           NEW k \in 0 .. Cardinality(X) - 1
    PROVE  \E p \in X : Cardinality(Earlier(s, X, p)) = k
<1> DEFINE n == Cardinality(X)
           f == [p \in X |-> Cardinality(Earlier(s, X, p))]
<1>1. n \in Nat
    BY FS_CardinalityType
<1>2. ASSUME NEW p \in X PROVE Cardinality(Earlier(s, X, p)) \in 0 .. n - 1
    <2>1. Earlier(s, X, p) \in SUBSET X /\ p \notin Earlier(s, X, p)
        BY DEF Earlier, Better
    <2>2. /\ Cardinality(Earlier(s, X, p)) \in Nat
          /\ Cardinality(Earlier(s, X, p)) <= n
          /\ Cardinality(Earlier(s, X, p)) # n
        BY <2>1, FS_Subset, FS_CardinalityType
    <2> QED
        BY <1>1, <2>2
<1>3. f \in Injection(X, 0 .. n - 1)
    <2>1. f \in [X -> 0 .. n - 1]
        BY <1>2
    <2>2. ASSUME NEW p \in X, NEW q \in X, f[p] = f[q] PROVE p = q
        <3>1. ~ Better(s, p, q) /\ ~ Better(s, q, p)
            BY <1>2, <2>2, BetterIsEarlier
        <3>2. p \in Int /\ q \in Int
            OBVIOUS
        <3> QED
            BY <3>1, <3>2 DEF Better
    <2> HIDE DEF f
    <2> QED
        BY <2>1, <2>2 DEF Injection, IsInjective
<1>4. IsFiniteSet(0 .. n - 1) /\ Cardinality(0 .. n - 1) = n
    BY <1>1, FS_Interval
<1>5. f \in Surjection(X, 0 .. n - 1)
    <2> HIDE DEF f
    <2> QED
        BY <1>3, <1>4, FS_Injection
<1>6. k \in 0 .. n - 1
    OBVIOUS
<1>7. PICK p \in X : f[p] = k
    <2> HIDE DEF f, n
    <2> QED
        BY <1>5, <1>6 DEF Surjection
<1> QED
    BY <1>7

\* The m-th price is a price of the side, with m - 1 better ones.
LEMMA NthPriceIs ==
    ASSUME NEW b, NEW s \in Side, Prices(b, s) \in SUBSET Int, IsFiniteSet(Prices(b, s)),
           NEW m \in 1 .. Cardinality(Prices(b, s))
    PROVE  /\ NthPrice(b, s, m) \in Prices(b, s)
           /\ Cardinality(Earlier(s, Prices(b, s), NthPrice(b, s, m))) = m - 1
<1>1. Cardinality(Prices(b, s)) \in Nat
    BY FS_CardinalityType
<1>2. m - 1 \in 0 .. Cardinality(Prices(b, s)) - 1
    BY <1>1
<1>3. \E p \in Prices(b, s) : Cardinality(Earlier(s, Prices(b, s), p)) = m - 1
    BY <1>2, EveryRankIsTaken
<1> QED
    BY <1>3 DEF NthPrice, BetterThan, Earlier

(***************************************************************************)
(* The terms of OFI.                                                       *)
(***************************************************************************)

\* A snapshot has, on either side, the prices and quantities of its levels.
IsSnapshot(x) ==
    \A s \in Side : /\ \E n \in Nat : DOMAIN x[s] = 1 .. n
                    /\ \A m \in DOMAIN x[s] : x[s][m].px \in Int /\ x[s][m].qty \in Int

\* What a book shows: as many levels as it has, up to the depth, the m-th being
\* the level of its m-th price.
LEMMA SnapshotShows ==
    ASSUME NEW b, NEW s \in Side, Prices(b, s) \in SUBSET Int, IsFiniteSet(Prices(b, s))
    PROVE  LET x == SnapshotLevels(b)[s]
               n == Cardinality(Prices(b, s))
           IN  /\ n \in Nat
               /\ DOMAIN x = 1 .. (IF n <= Depth THEN n ELSE Depth)
               /\ \A m \in DOMAIN x :
                    /\ m \in 1 .. n /\ m <= Depth
                    /\ x[m].px = NthPrice(b, s, m) /\ x[m].px \in Prices(b, s)
                    /\ x[m].qty = b.levels[s][x[m].px].total_qty
<1> DEFINE n == Cardinality(Prices(b, s))
           least == IF n <= Depth THEN n ELSE Depth
<1>1. n \in Nat /\ Depth \in Nat /\ Depth > 0
    BY FS_CardinalityType, OfiAssumption
<1>2. Min({Depth, n}) = least
    <2>1. least \in {Depth, n} /\ \A y \in {Depth, n} : least <= y
        BY <1>1
    <2>2. \A z \in {Depth, n} : (\A y \in {Depth, n} : z <= y) => z = least
        BY <1>1
    <2> HIDE DEF least, n
    <2> QED
        BY <2>1, <2>2 DEF Min
<1>3. SnapshotLevels(b)[s] =
        [m \in 1 .. least |-> [px |-> NthPrice(b, s, m),
                               qty |-> b.levels[s][NthPrice(b, s, m)].total_qty]]
    BY <1>2 DEF SnapshotLevels, TopLevels, Shown
<1>4. \A m \in 1 .. least : m \in 1 .. n /\ m <= Depth
    BY <1>1
<1>5. \A m \in 1 .. least : NthPrice(b, s, m) \in Prices(b, s)
    BY <1>4, NthPriceIs
<1> HIDE DEF n
<1> QED
    BY <1>1, <1>3, <1>4, <1>5 DEF n

\* Each side of a level's OFI is an integer, and turns its sign when the two
\* snapshots change places.
LEMMA TermTurns ==
    ASSUME NEW x, NEW y, IsSnapshot(x), IsSnapshot(y), NEW s \in Side, NEW m \in Nat
    PROVE  SideTerm(s, x, y, m) \in Int /\ SideTerm(s, x, y, m) = 0 - SideTerm(s, y, x, m)
<1>1. /\ m \in DOMAIN x[s] => x[s][m].qty \in Int
      /\ m \in DOMAIN y[s] => y[s][m].qty \in Int
    BY DEF IsSnapshot
<1> DEFINE inX == m \in DOMAIN x[s]
           inY == m \in DOMAIN y[s]
           gains == inY /\ (inX => ~ Better(s, x[s][m].px, y[s][m].px))
           loses == inX /\ (inY => ~ Better(s, y[s][m].px, x[s][m].px))
<1>2. /\ SideTerm(s, x, y, m) = (IF gains THEN y[s][m].qty ELSE 0) - (IF loses THEN x[s][m].qty ELSE 0)
      /\ SideTerm(s, y, x, m) = (IF loses THEN x[s][m].qty ELSE 0) - (IF gains THEN y[s][m].qty ELSE 0)
    BY DEF SideTerm
<1>3. (gains => y[s][m].qty \in Int) /\ (loses => x[s][m].qty \in Int)
    BY <1>1
<1> HIDE DEF gains, loses
<1> QED
    BY <1>2, <1>3

LEMMA LevelTurns ==
    ASSUME NEW x, NEW y, IsSnapshot(x), IsSnapshot(y), NEW m \in Nat
    PROVE  LevelOfi(x, y, m) \in Int /\ LevelOfi(x, y, m) = 0 - LevelOfi(y, x, m)
<1>1. "Buy" \in Side /\ "Sell" \in Side
    BY DEF Side
<1>2. /\ SideTerm("Buy", x, y, m) \in Int /\ SideTerm("Buy", y, x, m) \in Int
      /\ SideTerm("Buy", x, y, m) = 0 - SideTerm("Buy", y, x, m)
      /\ SideTerm("Sell", x, y, m) \in Int /\ SideTerm("Sell", y, x, m) \in Int
      /\ SideTerm("Sell", x, y, m) = 0 - SideTerm("Sell", y, x, m)
    BY <1>1, TermTurns
<1> QED
    BY <1>2 DEF LevelOfi

(***************************************************************************)
(* The sum of the terms.                                                   *)
(***************************************************************************)

\* Opposite values have opposite sums.
LEMMA SumTurns ==
    ASSUME NEW f, NEW g, NEW S, Summable(f, S), Summable(g, S), \A x \in S : f[x] = 0 - g[x]
    PROVE  SumFunctionOnSet(f, S) = 0 - SumFunctionOnSet(g, S)
<1> DEFINE N == {n \in Nat : \A T \in SUBSET S : Cardinality(T) = n =>
                               SumFunctionOnSet(f, T) = 0 - SumFunctionOnSet(g, T)}
<1>0. \A T \in SUBSET S : /\ Summable(f, T) /\ Summable(g, T)
                          /\ IsFiniteSet(T) /\ Cardinality(T) \in Nat
    BY FS_Subset, FS_CardinalityType DEF Summable
<1>1. 0 \in N
    <2> SUFFICES ASSUME NEW T \in SUBSET S, Cardinality(T) = 0
                 PROVE  SumFunctionOnSet(f, T) = 0 - SumFunctionOnSet(g, T)
        OBVIOUS
    <2>1. T = {}
        BY <1>0, FS_EmptySet
    <2> QED
        BY <2>1, SumEmpty
<1>2. ASSUME NEW n \in Nat, n \in N PROVE n + 1 \in N
    <2> SUFFICES ASSUME NEW T \in SUBSET S, Cardinality(T) = n + 1
                 PROVE  SumFunctionOnSet(f, T) = 0 - SumFunctionOnSet(g, T)
        OBVIOUS
    <2>1. T # {}
        BY FS_EmptySet
    <2>2. Pick(T) \in T /\ Cardinality(T \ {Pick(T)}) = n
        BY <1>0, <2>1, PickLeaves
    <2>3. SumFunctionOnSet(f, T \ {Pick(T)}) = 0 - SumFunctionOnSet(g, T \ {Pick(T)})
        BY <1>2, <2>2
    <2>4. /\ SumFunctionOnSet(f, T) = f[Pick(T)] + SumFunctionOnSet(f, T \ {Pick(T)})
          /\ SumFunctionOnSet(g, T) = g[Pick(T)] + SumFunctionOnSet(g, T \ {Pick(T)})
        BY <1>0, <2>1, SumByPick
    <2>5. /\ g[Pick(T)] \in Int /\ f[Pick(T)] = 0 - g[Pick(T)]
          /\ SumFunctionOnSet(g, T \ {Pick(T)}) \in Int
        BY <1>0, <2>2, SumType DEF Summable
    <2> QED
        BY <2>3, <2>4, <2>5
<1>3. Nat \subseteq N
    <2> HIDE DEF N
    <2> QED
        BY <1>1, <1>2, SetInduction
<1> QED
    BY <1>0, <1>3

Terms(x, y) == [m \in 1 .. Depth |-> LevelOfi(x, y, m)]

LEMMA OfiIsASum ==
    ASSUME NEW x, NEW y, IsSnapshot(x), IsSnapshot(y)
    PROVE  /\ MultilevelOfi(x, y) = SumFunctionOnSet(Terms(x, y), 1 .. Depth)
           /\ Summable(Terms(x, y), 1 .. Depth)
           /\ IsFiniteSet(1 .. Depth)
<1>1. Depth \in Nat /\ IsFiniteSet(1 .. Depth)
    BY OfiAssumption, FS_Interval
<1>2. \A m \in 1 .. Depth : m \in Nat /\ LevelOfi(x, y, m) \in Int
    BY <1>1, LevelTurns
<1>3. MultilevelOfi(x, y) = SumFunctionOnSet(Terms(x, y), 1 .. Depth)
    BY DEF MultilevelOfi, SumFunction, Terms
<1> QED
    BY <1>1, <1>2, <1>3 DEF Summable, Terms

\* OFI turns its sign when the two snapshots change places.
LEMMA OfiTurns ==
    ASSUME NEW x, NEW y, IsSnapshot(x), IsSnapshot(y)
    PROVE  MultilevelOfi(x, y) \in Int /\ MultilevelOfi(x, y) = 0 - MultilevelOfi(y, x)
<1>1. \A m \in 1 .. Depth : Terms(x, y)[m] = 0 - Terms(y, x)[m]
    BY OfiAssumption, LevelTurns DEF Terms
<1>2. /\ MultilevelOfi(x, y) = SumFunctionOnSet(Terms(x, y), 1 .. Depth)
      /\ MultilevelOfi(y, x) = SumFunctionOnSet(Terms(y, x), 1 .. Depth)
      /\ Summable(Terms(x, y), 1 .. Depth) /\ Summable(Terms(y, x), 1 .. Depth)
    BY OfiIsASum
<1>3. \A f, g, S : Summable(f, S) /\ Summable(g, S) /\ (\A m \in S : f[m] = 0 - g[m])
                     => SumFunctionOnSet(f, S) = 0 - SumFunctionOnSet(g, S)
    BY SumTurns
<1>4. SumFunctionOnSet(Terms(x, y), 1 .. Depth) = 0 - SumFunctionOnSet(Terms(y, x), 1 .. Depth)
    <2> DEFINE f == Terms(x, y)
               g == Terms(y, x)
               S == 1 .. Depth
    <2>1. Summable(f, S) /\ Summable(g, S) /\ \A m \in S : f[m] = 0 - g[m]
        BY <1>1, <1>2
    <2> HIDE DEF f, g, S
    <2>2. SumFunctionOnSet(f, S) = 0 - SumFunctionOnSet(g, S)
        BY <1>3, <2>1
    <2> QED
        BY <2>2 DEF f, g, S
<1> QED
    BY <1>2, <1>4, SumType

\* OFI is not positive when no level's is.
LEMMA OfiOfFalls ==
    ASSUME NEW x, NEW y, IsSnapshot(x), IsSnapshot(y),
           \A m \in 1 .. Depth : LevelOfi(x, y, m) <= 0
    PROVE  MultilevelOfi(x, y) <= 0
<1>1. \A m \in 1 .. Depth : Terms(x, y)[m] <= 0
    BY DEF Terms
<1>2. /\ MultilevelOfi(x, y) = SumFunctionOnSet(Terms(x, y), 1 .. Depth)
      /\ Summable(Terms(x, y), 1 .. Depth) /\ IsFiniteSet(1 .. Depth)
    BY OfiIsASum
<1>3. SumFunctionOnSet(Terms(x, y), 1 .. Depth) <= Cardinality(1 .. Depth) * 0
    BY <1>1, <1>2, SumBound
<1>4. Cardinality(1 .. Depth) * 0 = 0
    BY <1>2, FS_CardinalityType
<1> QED
    BY <1>2, <1>3, <1>4

(***************************************************************************)
(* A side that only grows.                                                 *)
(***************************************************************************)

\* A book of which only the levels matter, with nothing negative in them.
IsShown(b) ==
    \A s \in Side : /\ Prices(b, s) \in SUBSET Int /\ IsFiniteSet(Prices(b, s))
                    /\ \A p \in Prices(b, s) : b.levels[s][p].total_qty \in Nat

GrownTo(b, c, s) ==
    \A p \in Prices(b, s) : /\ p \in Prices(c, s)
                           /\ b.levels[s][p].total_qty <= c.levels[s][p].total_qty

LEMMA ShownIsSnapshot ==
    ASSUME NEW b, IsShown(b)
    PROVE  IsSnapshot(SnapshotLevels(b))
<1> SUFFICES ASSUME NEW s \in Side
             PROVE  LET x == SnapshotLevels(b)
                    IN  /\ \E n \in Nat : DOMAIN x[s] = 1 .. n
                        /\ \A m \in DOMAIN x[s] : x[s][m].px \in Int /\ x[s][m].qty \in Int
    BY DEF IsSnapshot
<1> DEFINE x == SnapshotLevels(b)[s]
           n == Cardinality(Prices(b, s))
<1>1. Prices(b, s) \in SUBSET Int /\ IsFiniteSet(Prices(b, s))
    BY DEF IsShown
<1>2. /\ n \in Nat
      /\ DOMAIN x = 1 .. (IF n <= Depth THEN n ELSE Depth)
      /\ \A m \in DOMAIN x : x[m].px \in Prices(b, s)
                           /\ x[m].qty = b.levels[s][x[m].px].total_qty
    BY <1>1, SnapshotShows
<1>3. (IF n <= Depth THEN n ELSE Depth) \in Nat
    BY <1>2, OfiAssumption
<1>4. \A m \in DOMAIN x : x[m].px \in Int /\ x[m].qty \in Int
    BY <1>1, <1>2 DEF IsShown
<1> HIDE DEF x, n
<1>5. (\E k \in Nat : DOMAIN x = 1 .. k) /\ \A m \in DOMAIN x : x[m].px \in Int /\ x[m].qty \in Int
    BY <1>2, <1>3, <1>4
<1> QED
    BY <1>5 DEF x

\* The m-th price does not get worse.
LEMMA PricesImprove ==
    ASSUME NEW b, NEW c, IsShown(b), IsShown(c), NEW s \in Side, GrownTo(b, c, s),
           NEW m \in 1 .. Cardinality(Prices(b, s))
    PROVE  /\ m \in 1 .. Cardinality(Prices(c, s))
           /\ ~ Better(s, NthPrice(b, s, m), NthPrice(c, s, m))
<1> DEFINE P == Prices(b, s)
           C == Prices(c, s)
           x == NthPrice(b, s, m)
           y == NthPrice(c, s, m)
<1>1. /\ P \subseteq C /\ P \in SUBSET Int /\ C \in SUBSET Int
      /\ IsFiniteSet(P) /\ IsFiniteSet(C)
    BY DEF IsShown, GrownTo
<1>2. Cardinality(P) \in Nat /\ Cardinality(C) \in Nat /\ Cardinality(P) <= Cardinality(C)
    BY <1>1, FS_Subset, FS_CardinalityType
<1>3. m \in 1 .. Cardinality(C)
    BY <1>2
<1>4. /\ x \in P /\ Cardinality(Earlier(s, P, x)) = m - 1
      /\ y \in C /\ Cardinality(Earlier(s, C, y)) = m - 1
    BY <1>1, <1>3, NthPriceIs
<1>5. Earlier(s, P, x) \subseteq Earlier(s, C, x) /\ IsFiniteSet(Earlier(s, C, x))
    BY <1>1, FS_Subset DEF Earlier
<1>6. /\ Cardinality(Earlier(s, C, x)) \in Nat /\ m - 1 \in Int
      /\ m - 1 <= Cardinality(Earlier(s, C, x))
    BY <1>4, <1>5, FS_Subset, FS_CardinalityType
<1>7. ASSUME Better(s, x, y) PROVE FALSE
    <2>1. Cardinality(Earlier(s, C, x)) < Cardinality(Earlier(s, C, y))
        BY <1>1, <1>4, <1>7, BetterIsEarlier
    <2> HIDE DEF P, C, x, y
    <2> QED
        BY <1>4, <1>6, <2>1
<1> QED
    BY <1>3, <1>7

\* Whatever levels appear, and in front of whichever, each term of a side that
\* only grows is a gain.
LEMMA GrownTerm ==
    ASSUME NEW b, NEW c, IsShown(b), IsShown(c), NEW s \in Side, GrownTo(b, c, s), NEW m \in Nat
    PROVE  SideTerm(s, SnapshotLevels(b), SnapshotLevels(c), m) >= 0
<1> DEFINE B == SnapshotLevels(b)
           C == SnapshotLevels(c)
           k == Cardinality(Prices(b, s))
           n == Cardinality(Prices(c, s))
<1>0. /\ Prices(b, s) \in SUBSET Int /\ IsFiniteSet(Prices(b, s))
      /\ Prices(c, s) \in SUBSET Int /\ IsFiniteSet(Prices(c, s))
    BY DEF IsShown
<1>1. /\ k \in Nat /\ DOMAIN B[s] = 1 .. (IF k <= Depth THEN k ELSE Depth)
      /\ \A i \in DOMAIN B[s] : /\ i \in 1 .. k /\ i <= Depth
                               /\ B[s][i].px = NthPrice(b, s, i) /\ B[s][i].px \in Prices(b, s)
                               /\ B[s][i].qty = b.levels[s][B[s][i].px].total_qty
    BY <1>0, SnapshotShows
<1>2. /\ n \in Nat /\ DOMAIN C[s] = 1 .. (IF n <= Depth THEN n ELSE Depth)
      /\ \A i \in DOMAIN C[s] : /\ i \in 1 .. n /\ i <= Depth
                               /\ C[s][i].px = NthPrice(c, s, i) /\ C[s][i].px \in Prices(c, s)
                               /\ C[s][i].qty = c.levels[s][C[s][i].px].total_qty
    BY <1>0, SnapshotShows
<1> HIDE DEF B, C, k, n
<1>3. m \in DOMAIN C[s] => C[s][m].qty \in Nat /\ C[s][m].px \in Int
    BY <1>0, <1>2 DEF IsShown
<1>4. CASE m \notin DOMAIN B[s]
    BY <1>3, <1>4 DEF SideTerm, B, C
<1>5. CASE m \in DOMAIN B[s]
    <2>1. m \in 1 .. k /\ m <= Depth
        BY <1>1, <1>5
    <2>2. m \in 1 .. n /\ ~ Better(s, B[s][m].px, NthPrice(c, s, m))
        BY <1>1, <1>5, <2>1, PricesImprove DEF k, n
    <2>3. m \in DOMAIN C[s]
        BY <1>2, <2>1, <2>2, OfiAssumption
    <2>4. /\ ~ Better(s, B[s][m].px, C[s][m].px)
          /\ B[s][m].px \in Prices(b, s) /\ B[s][m].px \in Int /\ B[s][m].qty \in Nat
        BY <1>0, <1>1, <1>2, <1>5, <2>2, <2>3 DEF IsShown
    <2>5. ~ Better(s, C[s][m].px, B[s][m].px) => B[s][m].qty <= C[s][m].qty
        <3> SUFFICES ASSUME ~ Better(s, C[s][m].px, B[s][m].px)
                     PROVE  B[s][m].qty <= C[s][m].qty
            OBVIOUS
        <3>1. B[s][m].px = C[s][m].px
            BY <1>3, <2>3, <2>4 DEF Better
        <3>2. b.levels[s][B[s][m].px].total_qty <= c.levels[s][B[s][m].px].total_qty
            BY <2>4 DEF GrownTo
        <3> QED
            BY <1>1, <1>2, <1>5, <2>3, <3>1, <3>2
    <2>6. SideTerm(s, B, C, m) =
            C[s][m].qty - (IF ~ Better(s, C[s][m].px, B[s][m].px) THEN B[s][m].qty ELSE 0)
        BY <1>5, <2>3, <2>4 DEF SideTerm
    <2>7. C[s][m].qty \in Nat
        BY <1>3, <2>3
    <2>8. SideTerm(s, B, C, m) >= 0
        BY <2>4, <2>5, <2>6, <2>7
    <2> QED
        BY <2>8 DEF B, C
<1> QED
    BY <1>4, <1>5

(***************************************************************************)
(* The stream.                                                             *)
(***************************************************************************)

\* The levels of both sides, none of them empty.
IsLevels(l) ==
    /\ l = [s \in Side |-> l[s]]
    /\ \A s \in Side : DOMAIN l[s] \subseteq Price /\ \A p \in DOMAIN l[s] : l[s][p] \in Nat \ {0}

OSInv ==
    /\ IsLevels(levels) /\ IsLevels(last)
    /\ prev # << >> => prev = SnapshotLevels(Book(last))

LEMMA LevelsShown ==
    ASSUME NEW l, IsLevels(l)
    PROVE  /\ IsShown(Book(l))
           /\ \A s \in Side : /\ Prices(Book(l), s) = DOMAIN l[s]
                             /\ \A p \in DOMAIN l[s] : Book(l).levels[s][p].total_qty = l[s][p]
<1>1. ASSUME NEW s \in Side
      PROVE  /\ Prices(Book(l), s) = DOMAIN l[s]
             /\ \A p \in DOMAIN l[s] : Book(l).levels[s][p].total_qty = l[s][p]
    BY DEF Book, Prices
<1>2. ASSUME NEW s \in Side
      PROVE  /\ DOMAIN l[s] \in SUBSET Int /\ IsFiniteSet(DOMAIN l[s])
             /\ \A p \in DOMAIN l[s] : l[s][p] \in Nat
    BY PriceAssumption, FS_Subset DEF IsLevels
<1> QED
    BY <1>1, <1>2 DEF IsShown

LEMMA InitOSInv == OSInit => OSInv
<1> SUFFICES ASSUME OSInit PROVE OSInv
    OBVIOUS
<1>1. levels = [s \in Side |-> << >>] /\ last = [s \in Side |-> << >>] /\ prev = << >>
    BY DEF OSInit, NoLevels, NewRollingOfi
<1>2. IsLevels([s \in Side |-> << >>])
    BY DEF IsLevels
<1> QED
    BY <1>1, <1>2 DEF OSInv

LEMMA StepOSInv ==
    ASSUME OSInv, [OSNext]_osVars
    PROVE  OSInv'
<1>1. ASSUME NEW s \in Side, NEW p \in Price, NEW n \in LevelQty \cup {0}, ChangeLevel(s, p, n)
      PROVE  OSInv'
    <2>1. levels' = [levels EXCEPT ![s] = IF n = 0 THEN DropLevel(@, p) ELSE PutLevel(@, p, n)]
        BY <1>1 DEF ChangeLevel
    <2>2. last' = last /\ prev' = prev
        BY <1>1 DEF ChangeLevel
    <2>3. n # 0 => n \in Nat \ {0}
        BY StreamAssumption
    <2>4. levels' = [t \in Side |-> levels'[t]] /\ \A t \in Side : t # s => levels'[t] = levels[t]
        BY <2>1 DEF OSInv, IsLevels
    <2>5. levels'[s] = IF n = 0 THEN DropLevel(levels[s], p) ELSE PutLevel(levels[s], p, n)
        BY <2>1 DEF OSInv, IsLevels
    <2>6. DOMAIN levels'[s] \subseteq Price /\ \A q \in DOMAIN levels'[s] : levels'[s][q] \in Nat \ {0}
        <3>1. DOMAIN levels[s] \subseteq Price /\ \A q \in DOMAIN levels[s] : levels[s][q] \in Nat \ {0}
            BY DEF OSInv, IsLevels
        <3>2. CASE n = 0
            BY <2>5, <3>1, <3>2 DEF DropLevel
        <3>3. CASE n # 0
            BY <2>3, <2>5, <3>1, <3>3 DEF PutLevel
        <3> QED
            BY <3>2, <3>3
    <2>7. IsLevels(levels')
        BY <2>4, <2>6 DEF OSInv, IsLevels
    <2> QED
        BY <2>2, <2>7 DEF OSInv
<1>2. CASE UpdateOfi
    BY <1>2 DEF UpdateOfi, OSInv
<1>3. CASE UNCHANGED osVars
    BY <1>3 DEF osVars, OSInv
<1>4. \A p \in BidPrices \cup AskPrices : p \in Price
    BY StreamAssumption
<1>5. "Buy" \in Side /\ "Sell" \in Side
    BY DEF Side
<1> QED
    BY <1>1, <1>2, <1>3, <1>4, <1>5 DEF OSNext

\* A side that grew since the last update grew as a book.
LEMMA GrewIsGrownTo ==
    ASSUME OSInv, NEW s \in Side
    PROVE  /\ Grew(s) => GrownTo(Book(last), Book(levels), s)
           /\ Shrank(s) => GrownTo(Book(levels), Book(last), s)
<1>1. ASSUME NEW l, NEW k, IsLevels(l), IsLevels(k), \A p \in Price : QtyAt(k, s, p) >= QtyAt(l, s, p)
      PROVE  GrownTo(Book(l), Book(k), s)
    <2>1. /\ Prices(Book(l), s) = DOMAIN l[s] /\ Prices(Book(k), s) = DOMAIN k[s]
          /\ \A p \in DOMAIN l[s] : Book(l).levels[s][p].total_qty = l[s][p]
          /\ \A p \in DOMAIN k[s] : Book(k).levels[s][p].total_qty = k[s][p]
        BY <1>1, LevelsShown
    <2>2. ASSUME NEW p \in DOMAIN l[s] PROVE p \in DOMAIN k[s] /\ l[s][p] <= k[s][p]
        <3>1. p \in Price /\ l[s][p] \in Nat /\ l[s][p] > 0
            BY <1>1 DEF IsLevels
        <3>2. QtyAt(k, s, p) >= l[s][p]
            BY <1>1, <3>1 DEF QtyAt
        <3> QED
            BY <3>1, <3>2 DEF QtyAt
    <2> QED
        BY <2>1, <2>2 DEF GrownTo
<1>2. \A a, b \in Int : a <= b <=> b >= a
    OBVIOUS
<1>3. ASSUME NEW p \in Price PROVE QtyAt(levels, s, p) \in Int /\ QtyAt(last, s, p) \in Int
    BY DEF OSInv, IsLevels, QtyAt
<1> QED
    BY <1>1, <1>2, <1>3 DEF OSInv, Grew, Shrank

LEMMA OSInvIsEnough ==
    ASSUME OSInv
    PROVE  GrowthPushesUp /\ ReversalCancels
<1> SUFFICES ASSUME prev # << >>
             PROVE  /\ Grew("Buy") /\ Shrank("Sell") => MultilevelOfi(prev, Now) >= 0
                    /\ Shrank("Buy") /\ Grew("Sell") => MultilevelOfi(prev, Now) <= 0
                    /\ MultilevelOfi(prev, Now) + MultilevelOfi(Now, prev) = 0
    BY DEF GrowthPushesUp, ReversalCancels
<1>1. /\ prev = SnapshotLevels(Book(last)) /\ Now = SnapshotLevels(Book(levels))
      /\ IsShown(Book(last)) /\ IsShown(Book(levels))
      /\ IsSnapshot(prev) /\ IsSnapshot(Now)
    BY LevelsShown, ShownIsSnapshot DEF OSInv, Now
<1>2. "Buy" \in Side /\ "Sell" \in Side
    BY DEF Side
<1>3. /\ MultilevelOfi(prev, Now) \in Int /\ MultilevelOfi(Now, prev) \in Int
      /\ MultilevelOfi(prev, Now) = 0 - MultilevelOfi(Now, prev)
    BY <1>1, OfiTurns
<1>4. ASSUME NEW s \in Side, NEW m \in 1 .. Depth
      PROVE  /\ SideTerm(s, prev, Now, m) \in Int /\ SideTerm(s, Now, prev, m) \in Int
             /\ SideTerm(s, prev, Now, m) = 0 - SideTerm(s, Now, prev, m)
             /\ Grew(s) => SideTerm(s, prev, Now, m) >= 0
             /\ Shrank(s) => SideTerm(s, Now, prev, m) >= 0
    <2>1. m \in Nat
        BY OfiAssumption
    <2>2. /\ SideTerm(s, prev, Now, m) \in Int /\ SideTerm(s, Now, prev, m) \in Int
          /\ SideTerm(s, prev, Now, m) = 0 - SideTerm(s, Now, prev, m)
        BY <1>1, <2>1, TermTurns
    <2>3. Grew(s) => SideTerm(s, prev, Now, m) >= 0
        BY <1>1, <2>1, GrewIsGrownTo, GrownTerm
    <2>4. Shrank(s) => SideTerm(s, Now, prev, m) >= 0
        BY <1>1, <2>1, GrewIsGrownTo, GrownTerm
    <2> QED
        BY <2>2, <2>3, <2>4
<1>5. ASSUME Grew("Buy"), Shrank("Sell") PROVE MultilevelOfi(Now, prev) <= 0
    <2>1. ASSUME NEW m \in 1 .. Depth PROVE LevelOfi(Now, prev, m) <= 0
        <3>1. /\ SideTerm("Buy", Now, prev, m) \in Int /\ SideTerm("Buy", Now, prev, m) <= 0
              /\ SideTerm("Sell", Now, prev, m) \in Int /\ SideTerm("Sell", Now, prev, m) >= 0
            BY <1>2, <1>4, <1>5
        <3> QED
            BY <3>1 DEF LevelOfi
    <2> QED
        BY <1>1, <2>1, OfiOfFalls
<1>6. ASSUME Shrank("Buy"), Grew("Sell") PROVE MultilevelOfi(prev, Now) <= 0
    <2>1. ASSUME NEW m \in 1 .. Depth PROVE LevelOfi(prev, Now, m) <= 0
        <3>1. /\ SideTerm("Buy", prev, Now, m) \in Int /\ SideTerm("Buy", prev, Now, m) <= 0
              /\ SideTerm("Sell", prev, Now, m) \in Int /\ SideTerm("Sell", prev, Now, m) >= 0
            BY <1>2, <1>4, <1>6
        <3> QED
            BY <3>1 DEF LevelOfi
    <2> QED
        BY <1>1, <2>1, OfiOfFalls
<1>7. MultilevelOfi(prev, Now) + MultilevelOfi(Now, prev) = 0
    BY <1>3
<1>8. MultilevelOfi(Now, prev) <= 0 => MultilevelOfi(prev, Now) >= 0
    BY <1>3
<1> QED
    BY <1>5, <1>6, <1>7, <1>8

\* Whatever levels come, go or change, at any depth and with any number of
\* changes between two updates: OFI has the sign of a change that is all in one
\* direction, and a change undone takes back what it signalled.
THEOREM OfiHasTheSignOfTheChange == FlowSpec => []OfiFollowsTheBook
<1>1. FlowInit => OSInv
    BY InitOSInv DEF FlowInit
<1>2. OSInv /\ [FlowNext]_flowVars => OSInv'
    <2> SUFFICES ASSUME OSInv, [FlowNext]_flowVars PROVE OSInv'
        OBVIOUS
    <2>1. [OSNext]_osVars
        BY DEF FlowNext, flowVars
    <2> QED
        BY <2>1, StepOSInv
<1>3. OSInv => OfiFollowsTheBook
    BY OSInvIsEnough DEF OfiFollowsTheBook
<1> QED
    BY <1>1, <1>2, <1>3, PTL DEF FlowSpec

(***************************************************************************)
(* The replay.  What the book shows is kept in snaps, so what the code     *)
(* keeps can be compared with it.                                          *)
(***************************************************************************)

Level == [px : Price, qty : Int]

Snap == [Side -> Seq(Level)]

LEMMA SnapIsSnapshot ==
    ASSUME NEW x \in Snap
    PROVE  IsSnapshot(x) /\ x # << >>
<1>1. ASSUME NEW s \in Side
      PROVE  /\ \E n \in Nat : DOMAIN x[s] = 1 .. n
             /\ \A m \in DOMAIN x[s] : x[s][m].px \in Int /\ x[s][m].qty \in Int
    <2>1. x[s] \in Seq(Level)
        BY DEF Snap
    <2>2. DOMAIN x[s] = 1 .. Len(x[s]) /\ Len(x[s]) \in Nat /\ \A m \in 1 .. Len(x[s]) : x[s][m] \in Level
        BY <2>1
    <2>3. \A l \in Level : l.px \in Int /\ l.qty \in Int
        BY PriceAssumption DEF Level
    <2> QED
        BY <2>2, <2>3
<1>2. x # << >>
    <2>1. DOMAIN x = Side /\ "Buy" \in Side
        BY DEF Snap, Side
    <2> QED
        BY <2>1
<1> QED
    BY <1>1, <1>2 DEF IsSnapshot

\* The snapshot of a book starts with its best prices.
LEMMA BookSnap ==
    ASSUME NEW b, IsBook(b)
    PROVE  /\ SnapshotLevels(b) \in Snap
           /\ \A s \in Side :
                /\ SnapshotLevels(b)[s] # << >> <=> Prices(b, s) # {}
                /\ Prices(b, s) # {} => SnapshotLevels(b)[s][1].px = Best(b, s)
<1> DEFINE x == SnapshotLevels(b)
<1>1. ASSUME NEW s \in Side
      PROVE  /\ x[s] \in Seq(Level)
             /\ x[s] # << >> <=> Prices(b, s) # {}
             /\ Prices(b, s) # {} => x[s][1].px = Best(b, s)
    <2> DEFINE n == Cardinality(Prices(b, s))
               k == IF n <= Depth THEN n ELSE Depth
    <2>1. Prices(b, s) \in SUBSET Int /\ IsFiniteSet(Prices(b, s)) /\ Prices(b, s) \subseteq Price
        BY PriceAssumption, FS_Subset DEF IsBook
    <2>2. /\ n \in Nat /\ DOMAIN x[s] = 1 .. k
          /\ \A m \in DOMAIN x[s] :
               /\ m \in 1 .. n /\ m <= Depth
               /\ x[s][m].px = NthPrice(b, s, m) /\ x[s][m].px \in Prices(b, s)
               /\ x[s][m].qty = b.levels[s][x[s][m].px].total_qty
        BY <2>1, SnapshotShows
    <2>3. k \in Nat /\ (k = 0 <=> n = 0)
        BY <2>2, OfiAssumption
    <2>4. n = 0 <=> Prices(b, s) = {}
        BY <2>1, FS_EmptySet
    <2>5. x[s] = [m \in 1 .. k |-> x[s][m]] /\ \A m \in 1 .. k : x[s][m] = [px |-> x[s][m].px, qty |-> x[s][m].qty]
        <3>1. x[s] = [m \in Shown(b, s) |->
                        [px |-> NthPrice(b, s, m), qty |-> b.levels[s][NthPrice(b, s, m)].total_qty]]
            BY DEF SnapshotLevels, TopLevels
        <3> HIDE DEF x, k
        <3> QED
            BY <2>2, <3>1
    <2>6. \A p \in Prices(b, s) : b.levels[s][p].total_qty \in Int
        BY DEF IsBook, PriceLevel
    <2> HIDE DEF x, n, k
    <2>7. ASSUME NEW m \in 1 .. k PROVE x[s][m] \in Level
        <3>1. x[s][m].px \in Price /\ x[s][m].qty \in Int
            BY <2>1, <2>2, <2>6
        <3>2. \A u \in Price, v \in Int : [px |-> u, qty |-> v] \in Level
            BY DEF Level
        <3> QED
            BY <2>5, <3>1, <3>2
    <2>8. x[s] \in Seq(Level)
        <3>1. x[s] \in [1 .. k -> Level]
            BY <2>5, <2>7
        <3> QED
            BY <2>3, <3>1, SeqDef
    <2> USE DEF k
    <2>9. x[s] # << >> <=> Prices(b, s) # {}
        <3>1. Len(x[s]) = k
            BY <2>2, <2>3, <2>8
        <3> QED
            BY <2>3, <2>4, <2>8, <3>1
    <2>10. ASSUME Prices(b, s) # {} PROVE x[s][1].px = Best(b, s)
        <3>1. 1 \in 1 .. n /\ 1 \in DOMAIN x[s]
            BY <2>2, <2>3, <2>4, <2>10
        <3> DEFINE p == NthPrice(b, s, 1)
        <3>2. p \in Prices(b, s) /\ Cardinality(Earlier(s, Prices(b, s), p)) = 0
            BY <2>1, <3>1, NthPriceIs DEF n
        <3>3. Earlier(s, Prices(b, s), p) = {}
            <4>1. IsFiniteSet(Earlier(s, Prices(b, s), p))
                BY <2>1, FS_Subset DEF Earlier
            <4> QED
                BY <3>2, <4>1, FS_EmptySet
        <3>4. Best(b, s) \in Prices(b, s) /\ \A q \in Prices(b, s) \ {Best(b, s)} : Better(s, Best(b, s), q)
            BY <2>10, BestIsBest
        <3>5. p = Best(b, s)
            BY <3>2, <3>3, <3>4 DEF Earlier
        <3> QED
            BY <2>2, <3>1, <3>5
    <2> QED
        BY <2>8, <2>9, <2>10
<1>2. x = [s \in Side |-> x[s]]
    BY DEF SnapshotLevels
<1> HIDE DEF x
<1>3. x \in Snap
    BY <1>1, <1>2 DEF Snap
<1> QED
    BY <1>1, <1>3 DEF x

(***************************************************************************)
(* The sum over a window that moves on by one snapshot.                    *)
(***************************************************************************)

\* The increment of the i-th update; the first one has nothing to compare with.
IncAt(ss, i) == IF i = 1 THEN 0 ELSE MultilevelOfi(ss[i - 1], ss[i])

Increments(ss, k) == [i \in 2 .. k |-> MultilevelOfi(ss[i - 1], ss[i])]

InWindow(k) == {i \in 2 .. k : i > k - Window}

UpTo(ss, k) == SumFunctionOnSet(Increments(ss, k), InWindow(k))

LEMMA IncrementsSummable ==
    ASSUME NEW ss \in Seq(Snap), NEW k \in 0 .. Len(ss)
    PROVE  /\ \A i \in 2 .. k : Increments(ss, k)[i] = IncAt(ss, i) /\ IncAt(ss, i) \in Int
           /\ \A T \in SUBSET (2 .. k) : Summable(Increments(ss, k), T)
<1>1. ASSUME NEW i \in 2 .. k PROVE Increments(ss, k)[i] = IncAt(ss, i) /\ IncAt(ss, i) \in Int
    <2>1. ss[i - 1] \in Snap /\ ss[i] \in Snap
        BY ElementOfSeq
    <2> QED
        BY <2>1, SnapIsSnapshot, OfiTurns DEF IncAt, Increments
<1>2. IsFiniteSet(2 .. k)
    BY FS_Interval
<1> QED
    BY <1>1, <1>2, FS_Subset DEF Summable

\* What is shown later does not change the sum.
LEMMA UpToKept ==
    ASSUME NEW ss \in Seq(Snap), NEW x \in Snap, NEW k \in 0 .. Len(ss)
    PROVE  UpTo(Append(ss, x), k) = UpTo(ss, k)
<1> DEFINE tt == Append(ss, x)
<1>1. tt \in Seq(Snap) /\ Len(tt) = Len(ss) + 1 /\ \A i \in 1 .. k : tt[i] = ss[i]
    OBVIOUS
<1> HIDE DEF tt
<1>2. InWindow(k) \in SUBSET (2 .. k)
    BY DEF InWindow
<1>3. \A i \in 2 .. k : Increments(tt, k)[i] = Increments(ss, k)[i]
    BY <1>1 DEF Increments
<1>4. Summable(Increments(ss, k), InWindow(k))
    BY <1>2, IncrementsSummable
<1>5. SumFunctionOnSet(Increments(ss, k), InWindow(k)) = SumFunctionOnSet(Increments(tt, k), InWindow(k))
    <2> DEFINE f == Increments(ss, k)
               g == Increments(tt, k)
               S == InWindow(k)
    <2>1. Summable(f, S) /\ \A i \in S : f[i] = g[i]
        BY <1>2, <1>3, <1>4
    <2> HIDE DEF f, g, S
    <2>2. SumFunctionOnSet(f, S) = SumFunctionOnSet(g, S)
        BY <2>1, SumSame
    <2> QED
        BY <2>2 DEF f, g, S
<1> QED
    BY <1>5 DEF UpTo, tt

\* One more snapshot adds its increment, and a full window loses its first.
LEMMA UpToNext ==
    ASSUME NEW ss \in Seq(Snap), NEW x \in Snap
    PROVE  LET tt == Append(ss, x)
               n == Len(ss)
           IN  /\ UpTo(ss, n) \in Int /\ IncAt(tt, n + 1) \in Int
               /\ n >= Window => IncAt(tt, n + 1 - Window) \in Int
               /\ UpTo(tt, n + 1) = UpTo(ss, n) + IncAt(tt, n + 1)
                                      - (IF n >= Window THEN IncAt(tt, n + 1 - Window) ELSE 0)
<1> DEFINE tt == Append(ss, x)
           n == Len(ss)
           f == Increments(tt, n + 1)
           U == InWindow(n) \cup {n + 1}
           y == n + 1 - Window
<1>1. n \in Nat /\ Window \in Nat /\ Window > 0 /\ tt \in Seq(Snap) /\ Len(tt) = n + 1
    BY OfiAssumption
<1>2. UpTo(tt, n) = UpTo(ss, n)
    BY <1>1, UpToKept
<1> HIDE DEF tt, n
<1>3. /\ \A i \in 2 .. n + 1 : f[i] = IncAt(tt, i) /\ IncAt(tt, i) \in Int
      /\ \A T \in SUBSET (2 .. n + 1) : Summable(f, T)
    BY <1>1, IncrementsSummable
<1>4. /\ \A i \in 2 .. n : Increments(tt, n)[i] = IncAt(tt, i)
      /\ \A T \in SUBSET (2 .. n) : Summable(Increments(tt, n), T)
    <2>1. n \in 0 .. Len(tt)
        BY <1>1
    <2> QED
        BY <1>1, <2>1, IncrementsSummable
<1>5. InWindow(n) \in SUBSET (2 .. n) /\ InWindow(n) \in SUBSET (2 .. n + 1) /\ n + 1 \notin InWindow(n)
    BY <1>1 DEF InWindow
<1>6. UpTo(tt, n) = SumFunctionOnSet(f, InWindow(n)) /\ UpTo(tt, n) \in Int
    <2> DEFINE g == Increments(tt, n)
               S == InWindow(n)
    <2>1. Summable(g, S) /\ \A i \in S : g[i] = f[i]
        BY <1>1, <1>3, <1>4, <1>5
    <2>2. UpTo(tt, n) = SumFunctionOnSet(g, S)
        BY DEF UpTo
    <2> HIDE DEF f, g, S
    <2>3. SumFunctionOnSet(g, S) = SumFunctionOnSet(f, S) /\ SumFunctionOnSet(g, S) \in Int
        BY <2>1, SumSame, SumType
    <2> QED
        BY <2>2, <2>3 DEF S
<1>7. UpTo(tt, n + 1) = SumFunctionOnSet(f, InWindow(n + 1))
    BY DEF UpTo
<1> HIDE DEF f
<1>8. IncAt(tt, 1) = 0
    BY DEF IncAt
<1>9. CASE n = 0
    <2>1. InWindow(n) = {} /\ InWindow(n + 1) = {}
        BY <1>9 DEF InWindow
    <2>2. UpTo(tt, n) = 0 /\ UpTo(tt, n + 1) = 0
        BY <1>6, <1>7, <2>1, SumEmpty
    <2> QED
        BY <1>1, <1>2, <1>8, <1>9, <2>2 DEF tt, n
<1>10. CASE n > 0
    <2>1. n + 1 \in 2 .. n + 1 /\ f[n + 1] = IncAt(tt, n + 1) /\ IncAt(tt, n + 1) \in Int
        BY <1>1, <1>3, <1>10
    <2>2. SumFunctionOnSet(f, U) = UpTo(tt, n) + IncAt(tt, n + 1) /\ Summable(f, U)
        BY <1>3, <1>5, <1>6, <2>1, SumAdd
    <2>3. CASE n >= Window /\ y >= 2
        <3>1. y \in 2 .. n /\ y > n - Window
            BY <1>1, <2>3
        <3>2. y \in U /\ U \ {y} = InWindow(n + 1)
            BY <1>1, <2>3, <3>1 DEF InWindow
        <3>3. f[y] = IncAt(tt, y) /\ IncAt(tt, y) \in Int
            BY <1>1, <1>3, <3>1
        <3>4. SumFunctionOnSet(f, U) = f[y] + SumFunctionOnSet(f, InWindow(n + 1))
            BY <2>2, <3>2, SumTake
        <3>5. SumFunctionOnSet(f, InWindow(n + 1)) \in Int
            <4>1. InWindow(n + 1) \in SUBSET (2 .. n + 1)
                BY DEF InWindow
            <4> QED
                BY <1>3, <4>1, SumType
        <3> QED
            BY <1>2, <1>6, <1>7, <2>1, <2>2, <2>3, <3>3, <3>4, <3>5 DEF tt, n
    <2>4. CASE ~ (n >= Window /\ y >= 2)
        <3>1. U = InWindow(n + 1)
            BY <1>1, <1>10, <2>4 DEF InWindow
        <3>2. n >= Window => y = 1
            BY <1>1, <2>4
        <3>3. n >= Window => IncAt(tt, y) = 0
            BY <1>8, <3>2
        <3>4. UpTo(tt, n + 1) = UpTo(tt, n) + IncAt(tt, n + 1)
            BY <1>7, <2>2, <3>1
        <3> QED
            BY <1>2, <1>6, <2>1, <3>3, <3>4 DEF tt, n
    <2> QED
        BY <2>3, <2>4
<1> QED
    BY <1>1, <1>9, <1>10

(***************************************************************************)
(* The rolling sum.                                                        *)
(***************************************************************************)

\* RollingOFI after the snapshots ss: the last increments and their sum.
RollsOver(r, ss) ==
    LET n == Len(ss)
    IN  /\ r.prev = IF n = 0 THEN << >> ELSE ss[n]
        /\ r.hist \in Seq(Int)
        /\ Len(r.hist) = IF n < Window THEN n ELSE Window
        /\ \A j \in 1 .. Len(r.hist) : r.hist[j] = IncAt(ss, n - Len(r.hist) + j)
        /\ r.sum = UpTo(ss, n)

LEMMA NewRolls == RollsOver(NewRollingOfi, << >>)
<1>1. InWindow(0) = {}
    BY DEF InWindow
<1>2. UpTo(<< >>, 0) = 0
    BY <1>1, SumEmpty DEF UpTo
<1>3. << >> \in Seq(Int) /\ Len(<< >>) = 0
    OBVIOUS
<1> QED
    BY <1>2, <1>3, OfiAssumption DEF RollsOver, NewRollingOfi

LEMMA UpdateRolls ==
    ASSUME NEW ss \in Seq(Snap), NEW r, RollsOver(r, ss), NEW b, SnapshotLevels(b) \in Snap
    PROVE  RollsOver(Update(r, b), Append(ss, SnapshotLevels(b)))
<1> DEFINE x == SnapshotLevels(b)
           tt == Append(ss, x)
           n == Len(ss)
           h == Len(r.hist)
           full == h = Window
           u == Update(r, b)
           inc == IncAt(tt, n + 1)
           kept == IF full THEN Tail(r.hist) ELSE r.hist
<1>1. /\ n \in Nat /\ tt \in Seq(Snap) /\ Len(tt) = n + 1 /\ tt[n + 1] = x
      /\ \A i \in 1 .. n : tt[i] = ss[i]
    OBVIOUS
<1>2. Window \in Nat /\ Window > 0
    BY OfiAssumption
<1>3. /\ r.prev = IF n = 0 THEN << >> ELSE ss[n]
      /\ r.hist \in Seq(Int)
      /\ h = IF n < Window THEN n ELSE Window
      /\ \A j \in 1 .. h : r.hist[j] = IncAt(ss, n - h + j)
      /\ r.sum = UpTo(ss, n)
    BY DEF RollsOver
<1>4. Increment(r, x) = inc
    <2>1. CASE n = 0
        BY <1>3, <2>1 DEF Increment, IncAt
    <2>2. CASE n # 0
        <3>1. n \in 1 .. n /\ tt[n] = ss[n] /\ ss[n] \in Snap
            BY <1>1, <2>2, ElementOfSeq
        <3>2. r.prev # << >> /\ r.prev = tt[n]
            BY <1>3, <2>2, <3>1, SnapIsSnapshot
        <3> QED
            BY <1>1, <2>2, <3>2 DEF Increment, IncAt
    <2> QED
        BY <2>1, <2>2
<1>5. /\ UpTo(ss, n) \in Int /\ inc \in Int
      /\ n >= Window => IncAt(tt, n + 1 - Window) \in Int
      /\ UpTo(tt, n + 1) = UpTo(ss, n) + inc - (IF n >= Window THEN IncAt(tt, n + 1 - Window) ELSE 0)
    BY UpToNext
<1>6. /\ u.prev = x
      /\ u.hist = Append(kept, inc)
      /\ u.sum = r.sum + inc - (IF full THEN Head(r.hist) ELSE 0)
    BY <1>4 DEF Update
<1>7. \A i \in 1 .. n : IncAt(tt, i) = IncAt(ss, i)
    <2> SUFFICES ASSUME NEW i \in 1 .. n PROVE IncAt(tt, i) = IncAt(ss, i)
        OBVIOUS
    <2>1. tt[i] = ss[i] /\ (i # 1 => tt[i - 1] = ss[i - 1])
        BY <1>1
    <2> HIDE DEF tt
    <2> QED
        BY <2>1 DEF IncAt
<1> HIDE DEF x, tt, n, h, u, inc
<1>8. full <=> n >= Window
    BY <1>1, <1>2, <1>3
<1>9. full => Head(r.hist) = IncAt(tt, n + 1 - Window)
    <2> SUFFICES ASSUME full PROVE Head(r.hist) = IncAt(tt, n + 1 - Window)
        OBVIOUS
    <2>1. 1 \in 1 .. h /\ n - h + 1 \in 1 .. n /\ n - h + 1 = n + 1 - Window
        BY <1>1, <1>2, <1>8
    <2>2. Head(r.hist) = r.hist[1]
        BY <1>3
    <2> QED
        BY <1>3, <1>7, <2>1, <2>2
<1>10. u.sum = UpTo(tt, n + 1)
    BY <1>3, <1>5, <1>6, <1>8, <1>9
<1>11. /\ kept \in Seq(Int)
       /\ Len(kept) = IF full THEN h - 1 ELSE h
       /\ \A j \in 1 .. Len(kept) : kept[j] = IncAt(tt, n + 1 - (Len(kept) + 1) + j)
    <2>1. CASE full
        <3>1. r.hist # << >> /\ h \in Nat /\ h = Len(r.hist)
            BY <1>2, <1>3, <2>1 DEF h
        <3>2. /\ Tail(r.hist) \in Seq(Int) /\ Len(Tail(r.hist)) = h - 1
              /\ \A j \in 1 .. h - 1 : Tail(r.hist)[j] = r.hist[j + 1]
            BY <1>3, <3>1, HeadTailProperties
        <3>3. ASSUME NEW j \in 1 .. h - 1 PROVE Tail(r.hist)[j] = IncAt(tt, n + 1 - h + j)
            <4>1. j + 1 \in 1 .. h /\ n - h + (j + 1) \in 1 .. n /\ n - h + (j + 1) = n + 1 - h + j
                BY <1>1, <1>3, <2>1, <3>1
            <4>2. r.hist[j + 1] = IncAt(ss, n - h + (j + 1))
                BY <1>3, <4>1
            <4> QED
                BY <1>7, <3>2, <4>1, <4>2
        <3>4. h - 1 + 1 = h
            BY <3>1
        <3> QED
            BY <2>1, <3>2, <3>3, <3>4
    <2>2. CASE ~ full
        <3>1. h = n /\ h = Len(r.hist)
            BY <1>3, <2>2 DEF h
        <3>2. ASSUME NEW j \in 1 .. h PROVE r.hist[j] = IncAt(tt, n + 1 - (h + 1) + j)
            <4>1. n - h + j = j /\ n + 1 - (h + 1) + j = j /\ j \in 1 .. n
                BY <1>1, <3>1
            <4> QED
                BY <1>3, <1>7, <4>1
        <3> QED
            BY <1>3, <2>2, <3>1, <3>2
    <2> QED
        BY <2>1, <2>2
<1> HIDE DEF kept, full
<1>12. /\ u.hist \in Seq(Int) /\ Len(u.hist) = Len(kept) + 1
       /\ Len(kept) \in Nat
       /\ \A j \in 1 .. Len(kept) : u.hist[j] = kept[j]
       /\ u.hist[Len(kept) + 1] = inc
    BY <1>5, <1>6, <1>11
<1>13. \A j \in 1 .. Len(u.hist) : u.hist[j] = IncAt(tt, n + 1 - Len(u.hist) + j)
    <2> SUFFICES ASSUME NEW j \in 1 .. Len(kept) + 1
                 PROVE  u.hist[j] = IncAt(tt, n + 1 - (Len(kept) + 1) + j)
        BY <1>12
    <2>1. CASE j \in 1 .. Len(kept)
        BY <1>11, <1>12, <2>1
    <2>2. CASE j = Len(kept) + 1
        <3>1. n + 1 - (Len(kept) + 1) + j = n + 1
            BY <1>1, <1>12, <2>2
        <3> QED
            BY <1>12, <2>2, <3>1 DEF inc
    <2> QED
        BY <1>12, <2>1, <2>2
<1>14. Len(u.hist) = IF n + 1 < Window THEN n + 1 ELSE Window
    BY <1>1, <1>2, <1>3, <1>11, <1>12 DEF full
<1>15. n + 1 # 0 /\ Len(tt) = n + 1 /\ u.prev = tt[n + 1]
    BY <1>1, <1>6
<1>16. RollsOver(u, tt)
    <2>1. /\ u.prev = (IF Len(tt) = 0 THEN << >> ELSE tt[Len(tt)])
          /\ u.sum = UpTo(tt, Len(tt))
          /\ Len(u.hist) = IF Len(tt) < Window THEN Len(tt) ELSE Window
        BY <1>10, <1>14, <1>15
    <2>2. \A j \in 1 .. Len(u.hist) : u.hist[j] = IncAt(tt, Len(tt) - Len(u.hist) + j)
        <3> SUFFICES ASSUME NEW j \in 1 .. Len(u.hist)
                     PROVE  u.hist[j] = IncAt(tt, Len(tt) - Len(u.hist) + j)
            OBVIOUS
        <3>1. u.hist[j] = IncAt(tt, n + 1 - Len(u.hist) + j)
            BY <1>13
        <3>2. Len(tt) - Len(u.hist) + j = n + 1 - Len(u.hist) + j
            BY <1>1, <1>12, <1>15
        <3> QED
            BY <3>1, <3>2
    <2> QED
        BY <1>12, <2>1, <2>2 DEF RollsOver
<1> QED
    BY <1>16 DEF u, tt, x

(***************************************************************************)
(* What resolving the samples gathers.  Resolve builds the pairs by a      *)
(* recursive function over the samples; that function exists, is unique,   *)
(* and ends with the pair of every sample whose mids are known.            *)
(***************************************************************************)

\* g[n] holds the pr of those of the first n numbers that are in K, in order.
Gathers(g, K, pr, N) ==
    g = [k \in 0 .. N |-> IF k = 0 THEN << >>
                          ELSE IF k \in K THEN Append(g[k - 1], pr[k]) ELSE g[k - 1]]

LEMMA GatherExists ==
    ASSUME NEW N \in Nat, NEW K \in SUBSET (1 .. N), NEW pr
    PROVE  \E g : Gathers(g, K, pr, N)
<1> DEFINE S == {n \in Nat : \E g : Gathers(g, K, pr, n)}
<1>1. 0 \in S
    <2> DEFINE g == [k \in 0 .. 0 |-> << >>]
    <2>1. Gathers(g, K, pr, 0)
        BY DEF Gathers
    <2> QED
        BY <2>1
<1>2. ASSUME NEW n \in Nat, n \in S PROVE n + 1 \in S
    <2>1. PICK g : Gathers(g, K, pr, n)
        BY <1>2
    <2> DEFINE h == [k \in 0 .. n + 1 |->
                       IF k = n + 1 THEN (IF k \in K THEN Append(g[n], pr[k]) ELSE g[n]) ELSE g[k]]
    <2>2. \A k \in 0 .. n : g[k] = IF k = 0 THEN << >>
                                   ELSE IF k \in K THEN Append(g[k - 1], pr[k]) ELSE g[k - 1]
        BY <2>1 DEF Gathers
    <2>3. ASSUME NEW k \in 0 .. n + 1
          PROVE  h[k] = IF k = 0 THEN << >>
                        ELSE IF k \in K THEN Append(h[k - 1], pr[k]) ELSE h[k - 1]
        <3>1. CASE k = n + 1
            <4>1. k # 0 /\ k - 1 = n /\ n \in 0 .. n + 1 /\ n # n + 1
                BY <3>1
            <4>2. h[n] = g[n]
                BY <4>1
            <4> QED
                BY <3>1, <4>1, <4>2
        <3>2. CASE k \in 1 .. n
            <4>1. k - 1 \in 0 .. n + 1 /\ k - 1 # n + 1 /\ k # n + 1 /\ k # 0 /\ k \in 0 .. n
                BY <3>2
            <4>2. h[k - 1] = g[k - 1] /\ h[k] = g[k]
                BY <4>1
            <4> HIDE DEF h
            <4> QED
                BY <2>2, <4>1, <4>2
        <3>3. CASE k = 0
            BY <2>2, <3>3
        <3> QED
            BY <3>1, <3>2, <3>3
    <2>4. Gathers(h, K, pr, n + 1)
        <3>1. h = [k \in 0 .. n + 1 |-> h[k]]
            OBVIOUS
        <3> HIDE DEF h
        <3> QED
            BY <2>3, <3>1 DEF Gathers
    <2> QED
        BY <2>4
<1>3. Nat \subseteq S
    <2> HIDE DEF S
    <2> QED
        BY <1>1, <1>2, SetInduction
<1> QED
    BY <1>3

LEMMA GatherUnique ==
    ASSUME NEW N \in Nat, NEW K \in SUBSET (1 .. N), NEW pr, NEW g, NEW h,
           Gathers(g, K, pr, N), Gathers(h, K, pr, N)
    PROVE  g = h
<1> DEFINE S == {n \in Nat : n <= N => g[n] = h[n]}
<1>0. /\ \A k \in 0 .. N : g[k] = IF k = 0 THEN << >>
                                  ELSE IF k \in K THEN Append(g[k - 1], pr[k]) ELSE g[k - 1]
      /\ \A k \in 0 .. N : h[k] = IF k = 0 THEN << >>
                                  ELSE IF k \in K THEN Append(h[k - 1], pr[k]) ELSE h[k - 1]
    BY DEF Gathers
<1>1. 0 \in S
    BY <1>0
<1>2. ASSUME NEW n \in Nat, n \in S PROVE n + 1 \in S
    <2> SUFFICES ASSUME n + 1 <= N PROVE g[n + 1] = h[n + 1]
        OBVIOUS
    <2>1. n + 1 \in 0 .. N /\ n + 1 # 0 /\ n + 1 - 1 = n /\ g[n] = h[n]
        BY <1>2
    <2> QED
        BY <1>0, <2>1
<1>3. Nat \subseteq S
    <2> HIDE DEF S
    <2> QED
        BY <1>1, <1>2, SetInduction
<1>4. \A n \in 0 .. N : g[n] = h[n]
    BY <1>3
<1>5. g = [k \in 0 .. N |-> g[k]] /\ h = [k \in 0 .. N |-> h[k]]
    BY DEF Gathers
<1> QED
    BY <1>4, <1>5

LEMMA GatherIs ==
    ASSUME NEW N \in Nat, NEW K \in SUBSET (1 .. N), NEW pr, NEW g, Gathers(g, K, pr, N)
    PROVE  g[N] \in Seq({pr[i] : i \in K}) /\ Len(g[N]) = Cardinality(K)
<1> DEFINE R == {pr[i] : i \in K}
           S == {n \in Nat : n <= N =>
                               g[n] \in Seq(R) /\ Len(g[n]) = Cardinality(K \cap (1 .. n))}
<1>0. \A k \in 0 .. N : g[k] = IF k = 0 THEN << >>
                               ELSE IF k \in K THEN Append(g[k - 1], pr[k]) ELSE g[k - 1]
    BY DEF Gathers
<1>1. 0 \in S
    <2>1. K \cap (1 .. 0) = {} /\ g[0] = << >>
        BY <1>0
    <2>2. << >> \in Seq(R) /\ Len(<< >>) = 0
        OBVIOUS
    <2> QED
        BY <2>1, <2>2, FS_EmptySet
<1>2. ASSUME NEW n \in Nat, n \in S PROVE n + 1 \in S
    <2> SUFFICES ASSUME n + 1 <= N
                 PROVE  g[n + 1] \in Seq(R) /\ Len(g[n + 1]) = Cardinality(K \cap (1 .. n + 1))
        OBVIOUS
    <2>1. /\ n + 1 \in 0 .. N /\ n + 1 # 0 /\ n + 1 - 1 = n
          /\ g[n] \in Seq(R) /\ Len(g[n]) = Cardinality(K \cap (1 .. n))
        BY <1>2
    <2>2. g[n + 1] = IF n + 1 \in K THEN Append(g[n], pr[n + 1]) ELSE g[n]
        BY <1>0, <2>1
    <2>3. CASE n + 1 \in K
        <3>1. pr[n + 1] \in R
            BY <2>3
        <3> HIDE DEF R
        <3>2. g[n + 1] \in Seq(R) /\ Len(g[n + 1]) = Len(g[n]) + 1
            BY <2>1, <2>2, <2>3, <3>1
        <3>3. K \cap (1 .. n + 1) = (K \cap (1 .. n)) \cup {n + 1} /\ n + 1 \notin K \cap (1 .. n)
            BY <2>3
        <3>4. IsFiniteSet(K \cap (1 .. n))
            BY FS_Interval, FS_Subset
        <3>5. Cardinality((K \cap (1 .. n)) \cup {n + 1}) = Cardinality(K \cap (1 .. n)) + 1
            BY <3>3, <3>4, FS_AddElement
        <3> QED
            BY <2>1, <3>2, <3>3, <3>5
    <2>4. CASE n + 1 \notin K
        <3>1. K \cap (1 .. n + 1) = K \cap (1 .. n)
            BY <2>4
        <3> QED
            BY <2>1, <2>2, <2>4, <3>1
    <2> QED
        BY <2>3, <2>4
<1>3. Nat \subseteq S
    <2> HIDE DEF S
    <2> QED
        BY <1>1, <1>2, SetInduction
<1>4. K \cap (1 .. N) = K
    OBVIOUS
<1>5. N \in S
    BY <1>3
<1>6. g[N] \in Seq(R) /\ Len(g[N]) = Cardinality(K \cap (1 .. N))
    BY <1>5
<1> QED
    BY <1>4, <1>6

(***************************************************************************)
(* The mids: a book without one of its sides shows the mid it had last.    *)
(***************************************************************************)

TwoSided(x) == x["Buy"] # << >> /\ x["Sell"] # << >>

MidOf(x) == x["Buy"][1].px + x["Sell"][1].px

MidsFollow(mm, ss) ==
    \A k \in 1 .. Len(ss) :
      mm[k] = IF TwoSided(ss[k]) THEN MidOf(ss[k]) ELSE IF k = 1 THEN 0 ELSE mm[k - 1]

\* i is the latest two-sided one of the first k snapshots.
IsLatest(ss, k, i) ==
    /\ i \in 1 .. k
    /\ TwoSided(ss[i])
    /\ \A j \in (i + 1) .. k : ~ TwoSided(ss[j])

LEMMA MidIsPositive ==
    ASSUME NEW x \in Snap, TwoSided(x)
    PROVE  MidOf(x) \in Int /\ MidOf(x) > 0
<1>1. ASSUME NEW s \in Side, x[s] # << >> PROVE x[s][1].px \in Int /\ x[s][1].px > 0
    <2>1. x[s] \in Seq(Level)
        BY DEF Snap
    <2>2. x[s][1] \in Level
        BY <1>1, <2>1
    <2> QED
        BY <2>2, PriceAssumption, ReplayAssumption DEF Level
<1>2. "Buy" \in Side /\ "Sell" \in Side
    BY DEF Side
<1> QED
    BY <1>1, <1>2 DEF TwoSided, MidOf

LEMMA MidsAreLatest ==
    ASSUME NEW ss \in Seq(Snap), NEW mm \in Seq(Int), Len(mm) = Len(ss), MidsFollow(mm, ss),
           NEW k \in 1 .. Len(ss)
    PROVE  \/ mm[k] = 0 /\ \A i \in 1 .. k : ~ TwoSided(ss[i])
           \/ \E i \in 1 .. k : IsLatest(ss, k, i) /\ mm[k] = MidOf(ss[i]) /\ mm[k] > 0
<1> DEFINE Good(n) ==
             \/ mm[n] = 0 /\ \A i \in 1 .. n : ~ TwoSided(ss[i])
             \/ \E i \in 1 .. n : IsLatest(ss, n, i) /\ mm[n] = MidOf(ss[i]) /\ mm[n] > 0
           S == {n \in Nat : n + 1 <= Len(ss) => Good(n + 1)}
<1>0. ASSUME NEW n \in 1 .. Len(ss), TwoSided(ss[n]) PROVE Good(n)
    <2>1. ss[n] \in Snap
        BY ElementOfSeq
    <2>2. mm[n] = MidOf(ss[n]) /\ mm[n] > 0
        BY <1>0, <2>1, MidIsPositive DEF MidsFollow
    <2>3. n \in 1 .. n /\ (n + 1) .. n = {}
        OBVIOUS
    <2>4. IsLatest(ss, n, n)
        BY <1>0, <2>3 DEF IsLatest
    <2> QED
        BY <2>2, <2>3, <2>4
<1>1. 0 \in S
    <2> SUFFICES ASSUME 1 <= Len(ss) PROVE Good(1)
        OBVIOUS
    <2>1. 1 \in 1 .. Len(ss) /\ \A i \in 1 .. 1 : i = 1
        OBVIOUS
    <2>2. CASE TwoSided(ss[1])
        BY <1>0, <2>1, <2>2
    <2>3. CASE ~ TwoSided(ss[1])
        BY <2>1, <2>3 DEF MidsFollow
    <2> QED
        BY <2>2, <2>3
<1>2. ASSUME NEW n \in Nat, n \in S PROVE n + 1 \in S
    <2> DEFINE m == n + 1
    <2> SUFFICES ASSUME m + 1 <= Len(ss) PROVE Good(m + 1)
        OBVIOUS
    <2>1. Good(m)
        BY <1>2
    <2>2. m \in 1 .. Len(ss) /\ m + 1 \in 1 .. Len(ss) /\ m + 1 # 1 /\ m + 1 - 1 = m
        OBVIOUS
    <2> HIDE DEF m
    <2>3. CASE TwoSided(ss[m + 1])
        BY <1>0, <2>2, <2>3
    <2>4. CASE ~ TwoSided(ss[m + 1])
        <3>1. mm[m + 1] = mm[m]
            BY <2>2, <2>4 DEF MidsFollow
        <3>2. \A i \in 1 .. m + 1 : i \in 1 .. m \/ i = m + 1
            BY <2>2
        <3>3. CASE mm[m] = 0 /\ \A i \in 1 .. m : ~ TwoSided(ss[i])
            BY <2>4, <3>1, <3>2, <3>3
        <3>4. ASSUME NEW i \in 1 .. m, IsLatest(ss, m, i), mm[m] = MidOf(ss[i]), mm[m] > 0
              PROVE  Good(m + 1)
            <4>1. i \in 1 .. m + 1 /\ \A j \in (i + 1) .. (m + 1) : j \in (i + 1) .. m \/ j = m + 1
                BY <2>2
            <4>2. IsLatest(ss, m + 1, i)
                BY <2>4, <3>4, <4>1 DEF IsLatest
            <4> QED
                BY <3>1, <3>4, <4>1, <4>2
        <3> QED
            BY <2>1, <3>3, <3>4
    <2> QED
        BY <2>3, <2>4
<1>3. Nat \subseteq S
    <2> HIDE DEF S
    <2> QED
        BY <1>1, <1>2, SetInduction
<1>4. k - 1 \in Nat /\ k - 1 + 1 = k
    OBVIOUS
<1> HIDE DEF Good
<1>5. Good(k)
    <2>1. k - 1 \in S /\ k <= Len(ss)
        <3> HIDE DEF S
        <3> QED
            BY <1>3, <1>4
    <2>2. Good(k - 1 + 1)
        BY <1>4, <2>1
    <2> QED
        BY <1>4, <2>2
<1> QED
    BY <1>5 DEF Good

\* There is one latest snapshot.
LEMMA LatestIsUnique ==
    ASSUME NEW ss, NEW k \in Nat, NEW i, IsLatest(ss, k, i)
    PROVE  (CHOOSE j \in 1 .. k : TwoSided(ss[j]) /\ \A l \in (j + 1) .. k : ~ TwoSided(ss[l])) = i
<1> DEFINE P(j) == TwoSided(ss[j]) /\ \A l \in (j + 1) .. k : ~ TwoSided(ss[l])
<1>1. i \in 1 .. k /\ P(i)
    BY DEF IsLatest
<1>2. ASSUME NEW j \in 1 .. k, P(j) PROVE j = i
    <2>1. ~ (j < i)
        <3> SUFFICES ASSUME j < i PROVE FALSE
            OBVIOUS
        <3>1. i \in (j + 1) .. k
            BY <1>1
        <3> QED
            BY <1>1, <1>2, <3>1
    <2>2. ~ (i < j)
        <3> SUFFICES ASSUME i < j PROVE FALSE
            OBVIOUS
        <3>1. j \in (i + 1) .. k
            BY <1>1
        <3> QED
            BY <1>1, <1>2, <3>1
    <2> QED
        BY <1>1, <2>1, <2>2
<1> HIDE DEF P
<1>3. (CHOOSE j \in 1 .. k : P(j)) = i
    BY <1>1, <1>2
<1> QED
    BY <1>3 DEF P

(***************************************************************************)
(* The replay's invariant.                                                 *)
(***************************************************************************)

SampleType == [ofi : Int, idx : Nat]

\* Every sample holds the rolling sum as it was at its own snapshot.
SamplesFollow(smp, ss) ==
    \A k \in DOMAIN smp : smp[k].idx \in 1 .. Len(ss) /\ smp[k].ofi = UpTo(ss, smp[k].idx)

Recorded ==
    /\ snaps \in Seq(Snap) /\ mids \in Seq(Int) /\ Len(mids) = Len(snaps)
    /\ RollsOver(rolling, snaps)
    /\ samples \in Seq(SampleType) /\ SamplesFollow(samples, snaps)
    /\ MidsFollow(mids, snaps)

KnownOnes == {k \in DOMAIN samples : Known(samples[k])}

Resolved ==
    /\ Len(pairs) = Cardinality(KnownOnes)
    /\ \A k \in DOMAIN pairs : \E i \in KnownOnes : pairs[k] = PairOf(samples[i])

CRInv ==
    /\ IInv
    /\ at \in {"read", "apply", "busy", "resolved"}
    /\ at = "apply" => event.id \in OrderId /\ TapeOrder \in Submission
    /\ Recorded
    /\ IF at = "resolved" THEN Resolved ELSE pairs = << >>

LEMMA InitCRInv == CRInit => CRInv
<1> SUFFICES ASSUME CRInit PROVE CRInv
    OBVIOUS
<1>1. /\ Init /\ at = "read" /\ mids = << >> /\ snaps = << >> /\ samples = << >> /\ pairs = << >>
      /\ rolling = NewRollingOfi
    BY DEF CRInit
<1>2. IInv
    BY <1>1, InitIInv
<1>3. SamplesFollow(<< >>, << >>) /\ MidsFollow(<< >>, << >>)
    BY DEF SamplesFollow, MidsFollow
<1>4. << >> \in Seq(Snap) /\ << >> \in Seq(Int) /\ << >> \in Seq(SampleType) /\ Len(<< >>) = 0
    OBVIOUS
<1>5. Recorded
    BY <1>1, <1>3, <1>4, NewRolls DEF Recorded
<1> QED
    BY <1>1, <1>2, <1>5 DEF CRInv

\* Reading an event appends what the book shows and what follows from it.
LEMMA ReadRecords ==
    ASSUME CRInv, NEW e \in Events, NEW gap \in Gaps, ReadEvent(e, gap)
    PROVE  Recorded'
<1> DEFINE x == SnapshotLevels(book)
           tt == Append(snaps, x)
           n == Len(snaps)
<1>1. /\ snaps \in Seq(Snap) /\ mids \in Seq(Int) /\ Len(mids) = n
      /\ RollsOver(rolling, snaps)
      /\ samples \in Seq(SampleType) /\ SamplesFollow(samples, snaps)
      /\ MidsFollow(mids, snaps)
    BY DEF CRInv, Recorded
<1>2. IsBook(book)
    BY InvBook DEF CRInv
<1>3. /\ x \in Snap
      /\ \A s \in Side :
           /\ x[s] # << >> <=> Prices(book, s) # {}
           /\ Prices(book, s) # {} => x[s][1].px = Best(book, s)
    BY <1>2, BookSnap
<1>4. /\ snaps' = tt /\ mids' = Append(mids, Mid) /\ rolling' = Update(rolling, book)
      /\ samples' = (IF e.type = "Trade" THEN Append(samples, Sample) ELSE samples)
    BY DEF ReadEvent
<1>5. RollsOver(rolling', tt)
    BY <1>1, <1>3, <1>4, UpdateRolls
<1>6. Mid = IF TwoSided(x) THEN MidOf(x) ELSE IF n = 0 THEN 0 ELSE mids[n]
    <2>1. TwoSided(x) <=> Prices(book, "Buy") # {} /\ Prices(book, "Sell") # {}
        BY <1>3 DEF TwoSided, Side
    <2>2. CASE TwoSided(x)
        <3>1. MidOf(x) = Best(book, "Buy") + Best(book, "Sell")
            BY <1>3, <2>1, <2>2 DEF MidOf, Side
        <3> QED
            BY <2>1, <2>2, <3>1 DEF Mid
    <2>3. CASE ~ TwoSided(x)
        <3>1. mids = << >> <=> n = 0
            BY <1>1
        <3>2. Last(mids) = mids[n]
            BY <1>1 DEF Last
        <3> HIDE DEF x, n
        <3> QED
            BY <2>1, <2>3, <3>1, <3>2 DEF Mid
    <2> QED
        BY <2>2, <2>3
<1> HIDE DEF x
<1>7. n \in Nat /\ tt \in Seq(Snap) /\ Len(tt) = n + 1 /\ tt[n + 1] = x /\ \A i \in 1 .. n : tt[i] = snaps[i]
    BY <1>1, <1>3
<1>8. Mid \in Int
    <2>1. TwoSided(x) => MidOf(x) \in Int
        BY <1>3, MidIsPositive
    <2>2. n # 0 => mids[n] \in Int
        <3> SUFFICES ASSUME n # 0 PROVE mids[n] \in Int
            OBVIOUS
        <3>1. n \in 1 .. Len(mids)
            BY <1>1, <1>7
        <3> QED
            BY <1>1, <3>1, ElementOfSeq
    <2> QED
        BY <1>6, <2>1, <2>2
<1> HIDE DEF tt, n
<1>9. /\ mids' \in Seq(Int) /\ Len(mids') = n + 1 /\ mids'[n + 1] = Mid
      /\ \A i \in 1 .. n : mids'[i] = mids[i]
    BY <1>1, <1>4, <1>7, <1>8
<1>10. MidsFollow(mids', tt)
    <2> SUFFICES ASSUME NEW k \in 1 .. n + 1
                 PROVE  mids'[k] = IF TwoSided(tt[k]) THEN MidOf(tt[k])
                                   ELSE IF k = 1 THEN 0 ELSE mids'[k - 1]
        BY <1>7 DEF MidsFollow
    <2>1. CASE k = n + 1
        <3>1. (k = 1 <=> n = 0) /\ (n # 0 => k - 1 = n /\ n \in 1 .. n)
            BY <1>7, <2>1
        <3> QED
            BY <1>6, <1>7, <1>9, <2>1, <3>1
    <2>2. CASE k \in 1 .. n
        <3>1. k # 1 => k - 1 \in 1 .. n
            BY <1>7, <2>2
        <3>2. mids[k] = IF TwoSided(snaps[k]) THEN MidOf(snaps[k]) ELSE IF k = 1 THEN 0 ELSE mids[k - 1]
            BY <1>1, <2>2 DEF MidsFollow, n
        <3> QED
            BY <1>7, <1>9, <2>2, <3>1, <3>2
    <2> QED
        BY <1>7, <2>1, <2>2
<1>11. /\ Sample \in SampleType /\ Sample.idx = n + 1 /\ Sample.ofi = UpTo(tt, n + 1)
    <2>1. UpTo(tt, n + 1) \in Int
        <3>1. /\ UpTo(snaps, n) \in Int /\ IncAt(tt, n + 1) \in Int
              /\ n >= Window => IncAt(tt, n + 1 - Window) \in Int
              /\ UpTo(tt, n + 1) = UpTo(snaps, n) + IncAt(tt, n + 1)
                                     - (IF n >= Window THEN IncAt(tt, n + 1 - Window) ELSE 0)
            BY <1>1, <1>3, UpToNext DEF tt, n
        <3> QED
            BY <3>1
    <2>2. Update(rolling, book).sum = UpTo(tt, n + 1)
        BY <1>4, <1>5, <1>7 DEF RollsOver
    <2>3. Sample = [ofi |-> UpTo(tt, n + 1), idx |-> n + 1]
        BY <1>1, <2>2 DEF Sample
    <2> QED
        BY <1>7, <2>1, <2>3 DEF SampleType
<1>12. ASSUME NEW k \in DOMAIN samples
       PROVE  samples[k].idx \in 1 .. n + 1 /\ samples[k].ofi = UpTo(tt, samples[k].idx)
    <2>1. samples[k].idx \in 1 .. n /\ samples[k].ofi = UpTo(snaps, samples[k].idx)
        BY <1>1 DEF SamplesFollow, n
    <2>2. samples[k].idx \in 0 .. Len(snaps)
        BY <1>7, <2>1 DEF n
    <2>3. UpTo(tt, samples[k].idx) = UpTo(snaps, samples[k].idx)
        BY <1>1, <1>3, <2>2, UpToKept DEF tt
    <2> QED
        BY <1>7, <2>1, <2>3
<1>13. samples' \in Seq(SampleType) /\ SamplesFollow(samples', tt)
    <2>1. CASE e.type # "Trade"
        BY <1>1, <1>4, <1>7, <1>12, <2>1 DEF SamplesFollow
    <2>2. CASE e.type = "Trade"
        <3>1. samples' = Append(samples, Sample)
            BY <1>4, <2>2
        <3>2. /\ samples' \in Seq(SampleType) /\ Len(samples) \in Nat
              /\ DOMAIN samples' = 1 .. Len(samples) + 1 /\ DOMAIN samples = 1 .. Len(samples)
              /\ samples'[Len(samples) + 1] = Sample
              /\ \A k \in 1 .. Len(samples) : samples'[k] = samples[k]
            BY <1>1, <1>11, <3>1
        <3>3. ASSUME NEW k \in DOMAIN samples'
              PROVE  samples'[k].idx \in 1 .. n + 1 /\ samples'[k].ofi = UpTo(tt, samples'[k].idx)
            <4>1. CASE k = Len(samples) + 1
                BY <1>7, <1>11, <3>2, <4>1
            <4>2. CASE k \in 1 .. Len(samples)
                BY <1>12, <3>2, <4>2
            <4> QED
                BY <3>2, <4>1, <4>2
        <3> QED
            BY <1>7, <3>2, <3>3 DEF SamplesFollow
    <2> QED
        BY <2>1, <2>2
<1> QED
    BY <1>4, <1>5, <1>7, <1>9, <1>10, <1>13 DEF Recorded

\* What an event asks of the engine is something a caller may ask.
LEMMA EventIsTyped ==
    ASSUME NEW e \in Events, NEW gap \in Gaps, ReadEvent(e, gap)
    PROVE  event'.id \in OrderId /\ TapeOrder' \in Submission
<1>1. e \in [type : {"Add", "Cancel", "Trade"}, side : Side, price : Price, qty : Quantity, id : OrderId]
    BY ReplayAssumption
<1>2. FALSE \in Owners
    BY ReplayAssumption
<1>3. /\ event'.type = e.type /\ event'.side = e.side /\ event'.price = e.price
      /\ event'.qty = e.qty /\ event'.id = e.id
    BY DEF ReadEvent
<1>4. TapeOrder' = [id |-> e.id, side |-> e.side,
                    type |-> IF e.type = "Add" THEN "Limit" ELSE "IOC", price |-> e.price,
                    qty |-> e.qty, remaining |-> 0, status |-> "New", is_ours |-> FALSE]
    BY <1>3 DEF TapeOrder
<1> QED
    BY <1>1, <1>2, <1>3, <1>4 DEF Submission, OrderType

\* The recursion of Resolve, and what it comes to.
LEMMA ResolveResolves ==
    ASSUME CRInv, Resolve
    PROVE  Resolved'
<1> DEFINE N == Len(samples)
           pr == [i \in 1 .. N |-> PairOf(samples[i])]
           over == CHOOSE g : g = [k \in 0 .. N |->
                     IF k = 0 THEN << >>
                     ELSE IF Known(samples[k]) THEN Append(g[k - 1], PairOf(samples[k]))
                     ELSE g[k - 1]]
<1>1. samples \in Seq(SampleType) /\ N \in Nat /\ DOMAIN samples = 1 .. N
    BY DEF CRInv, Recorded
<1>2. pairs' = over[N] /\ samples' = samples /\ mids' = mids
    BY DEF Resolve
<1>3. KnownOnes \in SUBSET (1 .. N) /\ \A k \in 1 .. N : k \in KnownOnes <=> Known(samples[k])
    BY <1>1 DEF KnownOnes
<1>4. ASSUME NEW g
      PROVE  Gathers(g, KnownOnes, pr, N) <=>
               g = [k \in 0 .. N |->
                     IF k = 0 THEN << >>
                     ELSE IF Known(samples[k]) THEN Append(g[k - 1], PairOf(samples[k]))
                     ELSE g[k - 1]]
    <2>1. ASSUME NEW k \in 0 .. N
          PROVE  (IF k = 0 THEN << >> ELSE IF k \in KnownOnes THEN Append(g[k - 1], pr[k]) ELSE g[k - 1])
                 = (IF k = 0 THEN << >>
                    ELSE IF Known(samples[k]) THEN Append(g[k - 1], PairOf(samples[k]))
                    ELSE g[k - 1])
        <3>1. CASE k = 0
            BY <3>1
        <3>2. CASE k # 0
            <4>1. k \in 1 .. N
                BY <1>1, <3>2
            <4>2. pr[k] = PairOf(samples[k]) /\ (k \in KnownOnes <=> Known(samples[k]))
                BY <1>3, <4>1
            <4> HIDE DEF pr
            <4> QED
                BY <3>2, <4>2
        <3> QED
            BY <3>1, <3>2
    <2>2. [k \in 0 .. N |-> IF k = 0 THEN << >>
                            ELSE IF k \in KnownOnes THEN Append(g[k - 1], pr[k]) ELSE g[k - 1]]
          = [k \in 0 .. N |-> IF k = 0 THEN << >>
                              ELSE IF Known(samples[k]) THEN Append(g[k - 1], PairOf(samples[k]))
                              ELSE g[k - 1]]
        <3> HIDE DEF pr
        <3> QED
            BY <2>1
    <2> HIDE DEF pr, N
    <2> QED
        BY <2>2 DEF Gathers
<1>5. Gathers(over, KnownOnes, pr, N)
    <2>1. \E g : Gathers(g, KnownOnes, pr, N)
        BY <1>1, <1>3, GatherExists
    <2> HIDE DEF pr, N
    <2> QED
        BY <1>4, <2>1
<1> HIDE DEF over
<1>6. pairs' \in Seq({pr[i] : i \in KnownOnes}) /\ Len(pairs') = Cardinality(KnownOnes)
    <2> HIDE DEF pr, N
    <2> QED
        BY <1>1, <1>2, <1>3, <1>5, GatherIs
<1>7. ASSUME NEW k \in DOMAIN pairs' PROVE \E i \in KnownOnes : pairs'[k] = PairOf(samples[i])
    <2>1. pairs'[k] \in {pr[i] : i \in KnownOnes}
        <3> DEFINE R == {pr[i] : i \in KnownOnes}
        <3>1. pairs' \in Seq(R)
            BY <1>6
        <3> HIDE DEF R
        <3>2. pairs'[k] \in R
            BY <1>7, <3>1
        <3> QED
            BY <3>2 DEF R
    <2>2. PICK i \in KnownOnes : pairs'[k] = pr[i]
        BY <2>1
    <2> QED
        BY <1>3, <2>2
<1>8. KnownOnes' = KnownOnes
    BY <1>2 DEF KnownOnes, Known, Ahead
<1>9. \A i : PairOf(samples[i])' = PairOf(samples[i])
    BY <1>2 DEF PairOf, Ahead
<1> HIDE DEF pr, N
<1>10. Len(pairs') = Cardinality(KnownOnes')
    BY <1>6, <1>8
<1>11. \A k \in DOMAIN pairs' : \E i \in KnownOnes' : pairs'[k] = PairOf(samples[i])'
    BY <1>7, <1>8, <1>9
<1> QED
    BY <1>10, <1>11 DEF Resolved

LEMMA RecordedKept ==
    ASSUME Recorded, UNCHANGED <<snaps, mids, rolling, samples>>
    PROVE  Recorded'
    BY DEF Recorded, RollsOver, SamplesFollow, MidsFollow

LEMMA StepCRInv ==
    ASSUME CRInv, [CRNext]_crVars
    PROVE  CRInv'
<1>0. IInv /\ Recorded /\ at \in {"read", "apply", "busy", "resolved"}
    BY DEF CRInv
<1>1. ASSUME NEW e \in Events, NEW gap \in Gaps, ReadEvent(e, gap) PROVE CRInv'
    <2>1. at = "read" /\ at' = "apply" /\ UNCHANGED engineVars /\ pairs' = pairs
        BY <1>1 DEF ReadEvent
    <2>2. IInv'
        BY <1>0, <2>1, StepIInv
    <2>3. Recorded'
        BY <1>1, ReadRecords
    <2>4. event'.id \in OrderId /\ TapeOrder' \in Submission
        BY <1>1, EventIsTyped
    <2> QED
        BY <2>1, <2>2, <2>3, <2>4 DEF CRInv
<1>2. CASE ApplyMarketEvent
    <2>1. /\ at = "apply" /\ at' \in {"read", "busy"} /\ pairs' = pairs
          /\ UNCHANGED <<snaps, mids, rolling, samples>>
          /\ Cancel(event.id) \/ Submit(TapeOrder)
        BY <1>2 DEF ApplyMarketEvent
    <2>2. event.id \in OrderId /\ TapeOrder \in Submission
        BY <2>1 DEF CRInv
    <2>3. IInv'
        BY <1>0, <2>1, <2>2, SubmitIInv, CancelIInv
    <2>4. Recorded'
        BY <1>0, <2>1, RecordedKept
    <2> QED
        BY <2>1, <2>3, <2>4 DEF CRInv
<1>3. CASE InEngine
    <2>1. /\ at = "busy" /\ at' \in {"read", "busy"} /\ pairs' = pairs
          /\ UNCHANGED <<snaps, mids, rolling, samples>> /\ Step
        BY <1>3 DEF InEngine
    <2>2. IInv'
        BY <1>0, <2>1, StepIInv DEF Next
    <2>3. Recorded'
        BY <1>0, <2>1, RecordedKept
    <2> QED
        BY <2>1, <2>2, <2>3 DEF CRInv
<1>4. CASE Resolve
    <2>1. /\ at = "read" /\ at' = "resolved"
          /\ UNCHANGED engineVars /\ UNCHANGED <<snaps, mids, rolling, samples>>
        BY <1>4 DEF Resolve
    <2>2. IInv'
        BY <1>0, <2>1, StepIInv
    <2>3. Recorded'
        BY <1>0, <2>1, RecordedKept
    <2>4. Resolved'
        BY <1>4, ResolveResolves
    <2> QED
        BY <2>1, <2>2, <2>3, <2>4 DEF CRInv
<1>5. CASE UNCHANGED crVars
    <2>1. /\ UNCHANGED engineVars /\ UNCHANGED <<snaps, mids, rolling, samples>>
          /\ UNCHANGED <<at, event, pairs>>
        BY <1>5 DEF crVars, replayVars
    <2>2. IInv'
        BY <1>0, <2>1, StepIInv
    <2>3. Recorded'
        BY <1>0, <2>1, RecordedKept
    <2>4. TapeOrder' = TapeOrder
        BY <2>1 DEF TapeOrder
    <2>5. Resolved => Resolved'
        BY <2>1 DEF Resolved, KnownOnes, Known, PairOf, Ahead
    <2> QED
        BY <2>1, <2>2, <2>3, <2>4, <2>5 DEF CRInv
<1> QED
    BY <1>1, <1>2, <1>3, <1>4, <1>5 DEF CRNext

\* The invariant gives both halves of the property.
LEMMA CRInvIsEnough ==
    ASSUME CRInv
    PROVE  SamplesSeeThePast /\ PairsUseLatestMids
<1> DEFINE n == Len(snaps)
<1>1. /\ snaps \in Seq(Snap) /\ mids \in Seq(Int) /\ Len(mids) = n /\ n \in Nat
      /\ samples \in Seq(SampleType) /\ SamplesFollow(samples, snaps)
      /\ MidsFollow(mids, snaps)
    BY DEF CRInv, Recorded
<1>2. SamplesSeeThePast
    <2> SUFFICES ASSUME NEW k \in DOMAIN samples
                 PROVE  samples[k].ofi = OfiUpTo(samples[k].idx)
        BY DEF SamplesSeeThePast
    <2>1. samples[k].ofi = UpTo(snaps, samples[k].idx)
        BY <1>1 DEF SamplesFollow
    <2> QED
        BY <2>1 DEF OfiUpTo, UpTo, Increments, InWindow
<1> DEFINE two(k) == snaps[k]["Buy"] # << >> /\ snaps[k]["Sell"] # << >>
           latest(k) == CHOOSE i \in 1 .. k : two(i) /\ \A j \in (i + 1) .. k : ~ two(j)
           mid(k) == snaps[latest(k)]["Buy"][1].px + snaps[latest(k)]["Sell"][1].px
           known == {k \in DOMAIN samples : \E i \in 1 .. samples[k].idx : two(i)}
<1>3. \A k : two(k) <=> TwoSided(snaps[k])
    BY DEF TwoSided
<1>4. ASSUME NEW k \in 1 .. n
      PROVE  /\ mids[k] > 0 <=> \E i \in 1 .. k : TwoSided(snaps[i])
             /\ mids[k] > 0 => mids[k] = mid(k)
    <2>1. CASE mids[k] = 0 /\ \A i \in 1 .. k : ~ TwoSided(snaps[i])
        BY <2>1
    <2>2. ASSUME NEW i \in 1 .. k, IsLatest(snaps, k, i), mids[k] = MidOf(snaps[i]), mids[k] > 0
          PROVE  mids[k] = mid(k) /\ \E j \in 1 .. k : TwoSided(snaps[j])
        <3>1. latest(k) = i
            <4>1. (CHOOSE j \in 1 .. k : TwoSided(snaps[j]) /\ \A l \in (j + 1) .. k : ~ TwoSided(snaps[l])) = i
                BY <2>2, LatestIsUnique
            <4> QED
                BY <4>1 DEF TwoSided
        <3>2. TwoSided(snaps[i])
            BY <2>2 DEF IsLatest
        <3> HIDE DEF latest
        <3> QED
            BY <2>2, <3>1, <3>2 DEF MidOf
    <2>3. \/ mids[k] = 0 /\ \A i \in 1 .. k : ~ TwoSided(snaps[i])
          \/ \E i \in 1 .. k : IsLatest(snaps, k, i) /\ mids[k] = MidOf(snaps[i]) /\ mids[k] > 0
        BY <1>1, MidsAreLatest
    <2> HIDE DEF mid
    <2> QED
        BY <2>1, <2>2, <2>3
<1>5. ASSUME NEW k \in DOMAIN samples
      PROVE  LET s == samples[k]
             IN  /\ s.idx \in 1 .. n /\ Ahead(s) \in 1 .. n /\ s.idx <= Ahead(s)
                 /\ Ahead(s) - s.idx = Horizon \/ Ahead(s) = n
    <2>1. samples[k].idx \in 1 .. n /\ Horizon \in Nat
        BY <1>1, ReplayAssumption DEF SamplesFollow
    <2> QED
        BY <1>1, <2>1 DEF Ahead
<1> HIDE DEF mid, two, n
<1>6. known = KnownOnes
    <2> SUFFICES ASSUME NEW k \in DOMAIN samples
                 PROVE  (\E i \in 1 .. samples[k].idx : two(i)) <=> Known(samples[k])
        BY DEF KnownOnes
    <2> DEFINE a == samples[k].idx
               c == Ahead(samples[k])
    <2>1. a \in 1 .. n /\ c \in 1 .. n /\ a <= c
        BY <1>5
    <2>2. /\ mids[a] > 0 <=> \E i \in 1 .. a : TwoSided(snaps[i])
          /\ mids[c] > 0 <=> \E i \in 1 .. c : TwoSided(snaps[i])
        BY <1>4, <2>1
    <2>3. 1 .. a \subseteq 1 .. c
        BY <2>1
    <2>4. Known(samples[k]) <=> mids[a] > 0 /\ mids[c] > 0
        BY DEF Known
    <2> HIDE DEF a, c
    <2>5. (\E i \in 1 .. a : TwoSided(snaps[i])) <=> Known(samples[k])
        BY <2>2, <2>3, <2>4
    <2> QED
        BY <1>3, <2>5 DEF a
<1>7. ASSUME NEW k \in DOMAIN pairs
      PROVE  /\ pairs[k].fwd = mid(pairs[k].upto) - mid(pairs[k].idx)
             /\ pairs[k].upto - pairs[k].idx = Horizon \/ pairs[k].upto = n
    <2>1. at = "resolved" /\ Resolved
        <3>1. DOMAIN << >> = {}
            OBVIOUS
        <3> QED
            BY <1>7, <3>1 DEF CRInv
    <2>2. PICK i \in KnownOnes : pairs[k] = PairOf(samples[i])
        BY <2>1 DEF Resolved
    <2>3. i \in DOMAIN samples /\ Known(samples[i])
        BY DEF KnownOnes
    <2> DEFINE a == samples[i].idx
               c == Ahead(samples[i])
    <2>4. pairs[k].fwd = mids[c] - mids[a] /\ pairs[k].idx = a /\ pairs[k].upto = c
        BY <2>2 DEF PairOf
    <2>5. a \in 1 .. n /\ c \in 1 .. n /\ (c - a = Horizon \/ c = n)
        BY <1>5, <2>3
    <2>6. mids[a] > 0 /\ mids[c] > 0
        BY <2>3 DEF Known
    <2> HIDE DEF a, c
    <2>7. mids[a] = mid(a) /\ mids[c] = mid(c)
        BY <1>4, <2>5, <2>6
    <2> QED
        BY <2>4, <2>5, <2>7
<1>8. at = "resolved" => Len(pairs) = Cardinality(known)
    BY <1>6 DEF CRInv, Resolved
<1>9. PairsUseLatestMids
    <2> HIDE DEF known
    <2>1. /\ at = "resolved" => Len(pairs) = Cardinality(known)
          /\ \A k \in DOMAIN pairs :
               /\ pairs[k].fwd = mid(pairs[k].upto) - mid(pairs[k].idx)
               /\ pairs[k].upto - pairs[k].idx = Horizon \/ pairs[k].upto = n
        BY <1>7, <1>8
    <2> USE DEF known, mid, two, n
    <2> QED
        BY <2>1 DEF PairsUseLatestMids
<1> QED
    BY <1>2, <1>9

\* Whatever the tape does to the book: the signal of a sample is the order flow of
\* the last Window books before its trade and of nothing later, and the return it
\* is set against runs between the mids of the latest two-sided books at either end.
THEOREM RegressionUsesThePast == FlowSpec => []RegressionIsCausal
<1>1. FlowInit => CRInv
    BY InitCRInv DEF FlowInit
<1>2. CRInv /\ [FlowNext]_flowVars => CRInv'
    <2> SUFFICES ASSUME CRInv, [FlowNext]_flowVars PROVE CRInv'
        OBVIOUS
    <2>1. [CRNext]_crVars
        BY DEF FlowNext, flowVars
    <2> QED
        BY <2>1, StepCRInv
<1>3. CRInv => RegressionIsCausal
    BY CRInvIsEnough DEF RegressionIsCausal
<1> QED
    BY <1>1, <1>2, <1>3, PTL DEF FlowSpec

(***************************************************************************)
(* Powers of two.                                                          *)
(***************************************************************************)

\* g has the powers of two up to n.
Powers(g, n) == g = [i \in 0 .. n |-> IF i = 0 THEN 1 ELSE 2 * g[i - 1]]

LEMMA PowersExist ==
    ASSUME NEW n \in Nat
    PROVE  \E g : Powers(g, n)
<1> DEFINE S == {m \in Nat : \E g : Powers(g, m)}
<1>1. 0 \in S
    <2> DEFINE g == [i \in 0 .. 0 |-> 1]
    <2>1. Powers(g, 0)
        BY DEF Powers
    <2> QED
        BY <2>1
<1>2. ASSUME NEW m \in Nat, m \in S PROVE m + 1 \in S
    <2>1. PICK g : Powers(g, m)
        BY <1>2
    <2>2. \A i \in 0 .. m : g[i] = IF i = 0 THEN 1 ELSE 2 * g[i - 1]
        BY <2>1 DEF Powers
    <2> DEFINE h == [i \in 0 .. m + 1 |-> IF i = m + 1 THEN 2 * g[m] ELSE g[i]]
    <2>3. ASSUME NEW i \in 0 .. m + 1
          PROVE  h[i] = IF i = 0 THEN 1 ELSE 2 * h[i - 1]
        <3>1. CASE i = m + 1
            BY <3>1
        <3>2. CASE i \in 0 .. m
            BY <2>2, <3>2
        <3> QED
            BY <3>1, <3>2
    <2>4. h = [i \in 0 .. m + 1 |-> h[i]]
        OBVIOUS
    <2>5. Powers(h, m + 1)
        <3> HIDE DEF h
        <3> QED
            BY <2>3, <2>4 DEF Powers
    <2> QED
        BY <2>5
<1>3. Nat \subseteq S
    <2> HIDE DEF S
    <2> QED
        BY <1>1, <1>2, SetInduction
<1> QED
    BY <1>3

LEMMA PowersUnique ==
    ASSUME NEW m \in Nat, NEW n \in Nat, NEW g, NEW h, Powers(g, m), Powers(h, n)
    PROVE  \A i \in Nat : i <= m /\ i <= n => g[i] = h[i]
<1> DEFINE S == {i \in Nat : i <= m /\ i <= n => g[i] = h[i]}
<1>0. /\ \A i \in 0 .. m : g[i] = IF i = 0 THEN 1 ELSE 2 * g[i - 1]
      /\ \A i \in 0 .. n : h[i] = IF i = 0 THEN 1 ELSE 2 * h[i - 1]
    BY DEF Powers
<1>1. 0 \in S
    BY <1>0
<1>2. ASSUME NEW i \in Nat, i \in S PROVE i + 1 \in S
    BY <1>0, <1>2
<1>3. Nat \subseteq S
    <2> HIDE DEF S
    <2> QED
        BY <1>1, <1>2, SetInduction
<1> QED
    BY <1>3

\* TwoTo is what its definition says: such a function exists.
LEMMA TwoToIs == \A n \in Nat : TwoTo[n] = IF n = 0 THEN 1 ELSE 2 * TwoTo[n - 1]
<1> DEFINE G(n) == CHOOSE g : Powers(g, n)
           f == [n \in Nat |-> G(n)[n]]
<1>1. \A n \in Nat : Powers(G(n), n)
    BY PowersExist
<1>2. ASSUME NEW n \in Nat
      PROVE  f[n] = IF n = 0 THEN 1 ELSE 2 * f[n - 1]
    <2> HIDE DEF G
    <2>1. G(n)[n] = IF n = 0 THEN 1 ELSE 2 * G(n)[n - 1]
        <3>1. Powers(G(n), n)
            BY <1>1
        <3> QED
            BY <3>1 DEF Powers
    <2>2. n > 0 => G(n)[n - 1] = G(n - 1)[n - 1]
        <3>1. SUFFICES ASSUME n > 0 PROVE G(n)[n - 1] = G(n - 1)[n - 1]
            OBVIOUS
        <3>2. n - 1 \in Nat /\ n - 1 <= n
            BY <3>1
        <3>3. Powers(G(n), n) /\ Powers(G(n - 1), n - 1)
            BY <1>1, <3>2
        <3> QED
            BY <3>2, <3>3, PowersUnique
    <2> QED
        BY <2>1, <2>2
<1>3. f = [n \in Nat |-> IF n = 0 THEN 1 ELSE 2 * f[n - 1]]
    <2>1. f = [n \in Nat |-> f[n]]
        OBVIOUS
    <2> HIDE DEF f
    <2> QED
        BY <1>2, <2>1
<1> HIDE DEF f
<1>4. TwoTo = [n \in Nat |-> IF n = 0 THEN 1 ELSE 2 * TwoTo[n - 1]]
    BY <1>3 DEF TwoTo
<1> QED
    BY <1>4

LEMMA TwoToType == \A n \in Nat : TwoTo[n] \in Nat /\ TwoTo[n] > 0
<1> DEFINE S == {n \in Nat : TwoTo[n] \in Nat /\ TwoTo[n] > 0}
<1>1. 0 \in S
    BY TwoToIs
<1>2. ASSUME NEW n \in Nat, n \in S PROVE n + 1 \in S
    BY <1>2, TwoToIs
<1>3. Nat \subseteq S
    <2> HIDE DEF S
    <2> QED
        BY <1>1, <1>2, SetInduction
<1> QED
    BY <1>3

LEMMA TwoToSum ==
    ASSUME NEW a \in Nat, NEW b \in Nat
    PROVE  TwoTo[a + b] = TwoTo[a] * TwoTo[b]
<1> DEFINE S == {n \in Nat : TwoTo[a + n] = TwoTo[a] * TwoTo[n]}
<1>1. 0 \in S
    BY TwoToIs, TwoToType
<1>2. ASSUME NEW n \in Nat, n \in S PROVE n + 1 \in S
    <2>1. TwoTo[n + 1] = 2 * TwoTo[n] /\ TwoTo[a + (n + 1)] = 2 * TwoTo[a + n]
        BY TwoToIs
    <2>2. PICK x, y \in Nat : x = TwoTo[a] /\ y = TwoTo[n]
        BY TwoToType
    <2>3. x * (2 * y) = 2 * (x * y)
        OBVIOUS
    <2> QED
        BY <1>2, <2>1, <2>2, <2>3
<1>3. Nat \subseteq S
    <2> HIDE DEF S
    <2> QED
        BY <1>1, <1>2, SetInduction
<1> QED
    BY <1>3

\* A multiple divided.
LEMMA ExactQuotient ==
    ASSUME NEW m \in Nat, m > 0, NEW x \in Int
    PROVE  (m * x) \div m = x
<1>1. PICK d \in Int : d = (m * x) \div m
    OBVIOUS
<1>2. PICK y \in Int : y = m * x
    OBVIOUS
<1>3. m * d <= y /\ y < m * d + m
    BY <1>1, <1>2
<1>4. ~ d > x
    <2>1. d > x => m * d >= m * (x + 1)
        OBVIOUS
    <2>2. m * (x + 1) = m * x + m
        OBVIOUS
    <2> QED
        BY <1>2, <1>3, <2>1, <2>2
<1>5. ~ d < x
    <2>1. d < x => m * x >= m * (d + 1)
        OBVIOUS
    <2>2. m * (d + 1) = m * d + m
        OBVIOUS
    <2> QED
        BY <1>2, <1>3, <2>1, <2>2
<1> QED
    BY <1>1, <1>4, <1>5

(***************************************************************************)
(* Sums of sums.                                                           *)
(***************************************************************************)

LEMMA SumPlus ==
    ASSUME NEW f, NEW g, NEW h, NEW S, Summable(f, S), Summable(g, S),
           \A x \in S : h[x] = f[x] + g[x]
    PROVE  /\ Summable(h, S)
           /\ SumFunctionOnSet(h, S) = SumFunctionOnSet(f, S) + SumFunctionOnSet(g, S)
<1> DEFINE N == {n \in Nat : \A T \in SUBSET S : Cardinality(T) = n =>
                   SumFunctionOnSet(h, T) = SumFunctionOnSet(f, T) + SumFunctionOnSet(g, T)}
<1>0. \A T \in SUBSET S : /\ Summable(f, T) /\ Summable(g, T) /\ Summable(h, T)
                          /\ IsFiniteSet(T) /\ Cardinality(T) \in Nat
    BY FS_Subset, FS_CardinalityType DEF Summable
<1>1. 0 \in N
    BY <1>0, FS_EmptySet, SumEmpty
<1>2. ASSUME NEW n \in Nat, n \in N PROVE n + 1 \in N
    <2> SUFFICES ASSUME NEW T \in SUBSET S, Cardinality(T) = n + 1
                 PROVE  SumFunctionOnSet(h, T) = SumFunctionOnSet(f, T) + SumFunctionOnSet(g, T)
        OBVIOUS
    <2>1. T # {}
        BY FS_EmptySet
    <2>2. Pick(T) \in T /\ Cardinality(T \ {Pick(T)}) = n
        BY <1>0, <2>1, PickLeaves
    <2> DEFINE z == Pick(T)
               U == T \ {z}
    <2> HIDE DEF z
    <2>3. SumFunctionOnSet(h, U) = SumFunctionOnSet(f, U) + SumFunctionOnSet(g, U)
        BY <1>2, <2>2 DEF z
    <2>4. /\ SumFunctionOnSet(f, T) = f[z] + SumFunctionOnSet(f, U)
          /\ SumFunctionOnSet(g, T) = g[z] + SumFunctionOnSet(g, U)
          /\ SumFunctionOnSet(h, T) = h[z] + SumFunctionOnSet(h, U)
        BY <1>0, <2>1, SumByPick DEF z
    <2>5. /\ SumFunctionOnSet(f, U) \in Int /\ SumFunctionOnSet(g, U) \in Int
          /\ f[z] \in Int /\ g[z] \in Int /\ h[z] = f[z] + g[z]
        BY <1>0, <2>2, SumType DEF z, Summable
    <2> QED
        BY <2>3, <2>4, <2>5
<1>3. Nat \subseteq N
    <2> HIDE DEF N
    <2> QED
        BY <1>1, <1>2, SetInduction
<1> QED
    BY <1>0, <1>3

LEMMA SumScale ==
    ASSUME NEW f, NEW h, NEW S, Summable(f, S), NEW c \in Int, \A x \in S : h[x] = c * f[x]
    PROVE  /\ Summable(h, S)
           /\ SumFunctionOnSet(h, S) = c * SumFunctionOnSet(f, S)
<1> DEFINE N == {n \in Nat : \A T \in SUBSET S : Cardinality(T) = n =>
                   SumFunctionOnSet(h, T) = c * SumFunctionOnSet(f, T)}
<1>0. \A T \in SUBSET S : /\ Summable(f, T) /\ Summable(h, T)
                          /\ IsFiniteSet(T) /\ Cardinality(T) \in Nat
    <2>1. \A x \in S : f[x] \in Int /\ h[x] \in Int
        BY DEF Summable
    <2> QED
        BY <2>1, FS_Subset, FS_CardinalityType DEF Summable
<1>1. 0 \in N
    BY <1>0, FS_EmptySet, SumEmpty
<1>2. ASSUME NEW n \in Nat, n \in N PROVE n + 1 \in N
    <2> SUFFICES ASSUME NEW T \in SUBSET S, Cardinality(T) = n + 1
                 PROVE  SumFunctionOnSet(h, T) = c * SumFunctionOnSet(f, T)
        OBVIOUS
    <2>1. T # {}
        BY FS_EmptySet
    <2>2. Pick(T) \in T /\ Cardinality(T \ {Pick(T)}) = n
        BY <1>0, <2>1, PickLeaves
    <2> DEFINE z == Pick(T)
               U == T \ {z}
    <2> HIDE DEF z
    <2>3. SumFunctionOnSet(h, U) = c * SumFunctionOnSet(f, U)
        BY <1>2, <2>2 DEF z
    <2>4. /\ SumFunctionOnSet(f, T) = f[z] + SumFunctionOnSet(f, U)
          /\ SumFunctionOnSet(h, T) = h[z] + SumFunctionOnSet(h, U)
        BY <1>0, <2>1, SumByPick DEF z
    <2>5. PICK a, b \in Int : a = f[z] /\ b = SumFunctionOnSet(f, U)
        BY <1>0, <2>2, SumType DEF z, Summable
    <2>6. h[z] = c * a
        BY <2>2, <2>5 DEF z
    <2>7. c * (a + b) = c * a + c * b
        OBVIOUS
    <2> QED
        BY <2>3, <2>4, <2>5, <2>6, <2>7
<1>3. Nat \subseteq N
    <2> HIDE DEF N
    <2> QED
        BY <1>1, <1>2, SetInduction
<1> QED
    BY <1>0, <1>3

\* A sum of zeros.
LEMMA SumZero ==
    ASSUME NEW f, NEW S, IsFiniteSet(S), \A x \in S : f[x] = 0
    PROVE  Summable(f, S) /\ SumFunctionOnSet(f, S) = 0
<1>1. Summable(f, S)
    BY DEF Summable
<1>2. \A x \in S : f[x] = 0 * f[x]
    OBVIOUS
<1>3. SumFunctionOnSet(f, S) = 0 * SumFunctionOnSet(f, S) /\ SumFunctionOnSet(f, S) \in Int
    BY <1>1, <1>2, SumScale, SumType
<1> QED
    BY <1>1, <1>3

\* G is the table F of integers with rows and columns exchanged.
Transposed(F, G, A, B) == \A x \in A : \A y \in B : F[x][y] \in Int /\ G[y][x] = F[x][y]

\* rows has the sums of the rows of F.
RowTotals(rows, F, A, B) == \A x \in A : rows[x] = SumFunctionOnSet(F[x], B)

\* A table adds up to the same by rows and by columns.
LEMMA SumSwap ==
    ASSUME NEW A, NEW B, IsFiniteSet(A), IsFiniteSet(B), NEW F, NEW G, NEW rows, NEW cols,
           Transposed(F, G, A, B), RowTotals(rows, F, A, B), RowTotals(cols, G, B, A)
    PROVE  /\ Summable(rows, A) /\ Summable(cols, B)
           /\ SumFunctionOnSet(rows, A) = SumFunctionOnSet(cols, B)
<1> DEFINE Col(T) == [y \in B |-> SumFunctionOnSet(G[y], T)]
           N == {n \in Nat : \A T \in SUBSET A : Cardinality(T) = n =>
                   SumFunctionOnSet(rows, T) = SumFunctionOnSet(Col(T), B)}
<1>0. \A T \in SUBSET A : IsFiniteSet(T) /\ Cardinality(T) \in Nat
    BY FS_Subset, FS_CardinalityType
<1>t. /\ \A x \in A : \A y \in B : F[x][y] \in Int /\ G[y][x] = F[x][y]
      /\ \A x \in A : rows[x] = SumFunctionOnSet(F[x], B)
      /\ \A y \in B : cols[y] = SumFunctionOnSet(G[y], A)
    BY DEF Transposed, RowTotals
<1>a. /\ \A x \in A : Summable(F[x], B)
      /\ \A y \in B : \A T \in SUBSET A : Summable(G[y], T)
    BY <1>0, <1>t DEF Summable
<1>b. /\ \A x \in A : rows[x] \in Int
      /\ \A y \in B : cols[y] \in Int
      /\ \A y \in B : \A T \in SUBSET A : Col(T)[y] \in Int
    <2>1. \A x \in A : rows[x] \in Int
        BY <1>a, <1>t, SumType
    <2>2. ASSUME NEW y \in B, NEW T \in SUBSET A PROVE SumFunctionOnSet(G[y], T) \in Int
        BY <1>a, SumType
    <2>3. \A y \in B : cols[y] \in Int
        BY <1>t, <2>2
    <2> QED
        BY <2>1, <2>2, <2>3
<1>c. \A T \in SUBSET A : Summable(rows, T) /\ Summable(Col(T), B)
    <2> HIDE DEF Col
    <2> QED
        BY <1>0, <1>b DEF Summable
<1>1. 0 \in N
    <2> SUFFICES ASSUME NEW T \in SUBSET A, Cardinality(T) = 0
                 PROVE  SumFunctionOnSet(rows, T) = SumFunctionOnSet(Col(T), B)
        OBVIOUS
    <2>1. T = {}
        BY <1>0, FS_EmptySet
    <2>2. \A y \in B : Col(T)[y] = 0
        BY <2>1, SumEmpty
    <2>3. SumFunctionOnSet(Col(T), B) = 0
        <3> HIDE DEF Col
        <3> QED
            BY <2>2, SumZero
    <2> QED
        BY <2>1, <2>3, SumEmpty
<1>2. ASSUME NEW n \in Nat, n \in N PROVE n + 1 \in N
    <2> SUFFICES ASSUME NEW T \in SUBSET A, Cardinality(T) = n + 1
                 PROVE  SumFunctionOnSet(rows, T) = SumFunctionOnSet(Col(T), B)
        OBVIOUS
    <2>1. PICK z \in T : TRUE
        BY FS_EmptySet
    <2> DEFINE U == T \ {z}
    <2>2. U \in SUBSET A /\ Cardinality(U) = n /\ z \in A
        <3>1. IsFiniteSet(T)
            BY <1>0
        <3>2. Cardinality(T \ {z}) = Cardinality(T) - 1
            BY <2>1, <3>1, FS_RemoveElement
        <3> QED
            BY <3>2
    <2>3. SumFunctionOnSet(rows, U) = SumFunctionOnSet(Col(U), B)
        BY <1>2, <2>2
    <2>4. SumFunctionOnSet(rows, T) = rows[z] + SumFunctionOnSet(rows, U)
        <3>1. Summable(rows, T)
            BY <1>c
        <3> QED
            BY <2>1, <3>1, SumTake
    <2>5. ASSUME NEW y \in B
          PROVE  Col(T)[y] = F[z][y] + Col(U)[y]
        <3>1. Summable(G[y], T)
            BY <1>a
        <3>2. SumFunctionOnSet(G[y], T) = G[y][z] + SumFunctionOnSet(G[y], U)
            BY <2>1, <3>1, SumTake
        <3>3. G[y][z] = F[z][y]
            BY <1>t, <2>2
        <3> QED
            BY <3>2, <3>3
    <2>6. SumFunctionOnSet(Col(T), B) = SumFunctionOnSet(F[z], B) + SumFunctionOnSet(Col(U), B)
        <3>1. Summable(F[z], B) /\ Summable(Col(U), B)
            BY <1>a, <1>c, <2>2
        <3> DEFINE h == Col(T)
                   f == F[z]
                   g == Col(U)
        <3>2. \A y \in B : h[y] = f[y] + g[y]
            BY <2>5
        <3>3. Summable(f, B) /\ Summable(g, B)
            BY <3>1
        <3> HIDE DEF f, g, h
        <3>4. SumFunctionOnSet(h, B) = SumFunctionOnSet(f, B) + SumFunctionOnSet(g, B)
            BY <3>2, <3>3, SumPlus
        <3> QED
            BY <3>4 DEF f, g, h
    <2>7. rows[z] = SumFunctionOnSet(F[z], B)
        BY <1>t, <2>2
    <2> HIDE DEF Col, U
    <2> QED
        BY <2>3, <2>4, <2>6, <2>7
<1>3. Nat \subseteq N
    <2> HIDE DEF N
    <2> QED
        BY <1>1, <1>2, SetInduction
<1>4. SumFunctionOnSet(rows, A) = SumFunctionOnSet(Col(A), B)
    <2> HIDE DEF Col
    <2> QED
        BY <1>0, <1>3
<1>5. Summable(Col(A), B)
    BY <1>c
<1>6. \A y \in B : Col(A)[y] = cols[y]
    BY <1>t
<1> HIDE DEF Col
<1> QED
    BY <1>4, <1>5, <1>6, <1>c, SumSame

(***************************************************************************)
(* What the constants are, and how one arrival's weight decays.            *)
(***************************************************************************)

Decays == {Beta[k[1]][k[2]][k[3]] : k \in Kernels}

LEMMA FastestIs ==
    /\ FastestDecay \in Nat
    /\ \A i, j \in Dim, p \in Comp : Beta[i][j][p] \in Nat /\ Beta[i][j][p] <= FastestDecay
<1>0. \A i, j \in Dim, p \in Comp : Beta[i][j][p] \in Nat /\ <<i, j, p>> \in Kernels
    BY HawkesAssumption DEF Kernels
<1>1. IsFiniteSet(Kernels)
    <2>1. IsFiniteSet(Dim \X Comp) /\ IsFiniteSet(Dim \X Dim)
        BY HawkesAssumption, FS_Product
    <2>2. IsFiniteSet((Dim \X Dim) \X Comp)
        BY <2>1, HawkesAssumption, FS_Product
    <2> DEFINE f == [k \in (Dim \X Dim) \X Comp |-> <<k[1][1], k[1][2], k[2]>>]
    <2>3. f \in Surjection((Dim \X Dim) \X Comp, Kernels)
        <3>1. f \in [(Dim \X Dim) \X Comp -> Kernels]
            BY DEF Kernels
        <3>2. ASSUME NEW k \in Kernels PROVE \E x \in (Dim \X Dim) \X Comp : f[x] = k
            <4>1. f[<< <<k[1], k[2]>>, k[3]>>] = k
                BY DEF Kernels
            <4>2. << <<k[1], k[2]>>, k[3]>> \in (Dim \X Dim) \X Comp
                BY DEF Kernels
            <4> QED
                BY <4>1, <4>2
        <3> HIDE DEF f
        <3> QED
            BY <3>1, <3>2, Fun_IsSurj
    <2> QED
        BY <2>2, <2>3, FS_Surjection
<1>2. IsFiniteSet(Decays) /\ Decays \in SUBSET Int /\ Decays # {}
    <2> DEFINE f == [k \in Kernels |-> Beta[k[1]][k[2]][k[3]]]
    <2>1. f \in Surjection(Kernels, Decays)
        <3>1. f \in [Kernels -> Decays] /\ \A b \in Decays : \E k \in Kernels : f[k] = b
            BY DEF Decays
        <3> HIDE DEF f
        <3> QED
            BY <3>1, Fun_IsSurj
    <2>2. IsFiniteSet(Decays)
        BY <1>1, <2>1, FS_Surjection
    <2>3. Decays \in SUBSET Int
        BY <1>0 DEF Decays, Kernels
    <2> QED
        BY <2>2, <2>3, HawkesAssumption DEF Decays
<1>3. PICK b \in Decays : \A c \in Decays \ {b} : Better("Buy", b, c)
    BY <1>2, BestOfFinite DEF Side
<1>4. \A c \in Decays : b >= c
    BY <1>2, <1>3 DEF Better
<1>5. FastestDecay \in Decays /\ \A c \in Decays : FastestDecay >= c
    <2>1. FastestDecay = CHOOSE x \in Decays : \A y \in Decays : x >= y
        BY DEF FastestDecay, Max, Decays
    <2> QED
        BY <1>3, <1>4, <2>1
<1>6. ASSUME NEW i \in Dim, NEW j \in Dim, NEW p \in Comp PROVE Beta[i][j][p] \in Decays
    <2> DEFINE k == <<i, j, p>>
    <2>1. k \in Kernels /\ k[1] = i /\ k[2] = j /\ k[3] = p
        BY <1>0
    <2> HIDE DEF k
    <2>2. Beta[k[1]][k[2]][k[3]] \in Decays
        BY <2>1 DEF Decays
    <2> QED
        BY <2>1, <2>2
<1>7. Decays \subseteq Nat
    BY <1>0 DEF Decays, Kernels
<1> QED
    BY <1>0, <1>5, <1>6, <1>7

\* A decay and an age of the model, and the exponent they make.
LEMMA Exponents ==
    ASSUME NEW b \in Nat, b <= FastestDecay, NEW a \in Nat, a <= MaxDuration
    PROVE  /\ b * a \in Nat /\ FastestDecay * MaxDuration \in Nat
           /\ b * a <= FastestDecay * MaxDuration
<1>1. PICK f, h \in Nat : f = FastestDecay /\ h = MaxDuration
    BY FastestIs, HawkesAssumption
<1>2. b * a <= f * a
    <2>1. (f - b) * a >= 0
        BY <1>1
    <2>2. (f - b) * a = f * a - b * a
        BY <1>1
    <2> QED
        BY <1>1, <2>1, <2>2
<1>3. f * a <= f * h
    <2>1. f * (h - a) >= 0
        BY <1>1
    <2>2. f * (h - a) = f * h - f * a
        BY <1>1
    <2> QED
        BY <1>1, <2>1, <2>2
<1> QED
    BY <1>1, <1>2, <1>3

LEMMA UnitDecays ==
    ASSUME NEW b \in Nat, b <= FastestDecay, NEW a \in Nat, a <= MaxDuration
    PROVE  /\ Decayed(Unit, b, a) \in Nat
           /\ Decayed(Unit, b, a) = TwoTo[FastestDecay * MaxDuration - b * a]
<1>1. PICK x, u \in Nat : x = b * a /\ u = FastestDecay * MaxDuration /\ x <= u
    BY Exponents
<1>2. TwoTo[x + (u - x)] = TwoTo[x] * TwoTo[u - x]
    <2>1. u - x \in Nat
        BY <1>1
    <2> QED
        BY <2>1, TwoToSum
<1>3. x + (u - x) = u
    BY <1>1
<1>4. (TwoTo[x] * TwoTo[u - x]) \div TwoTo[x] = TwoTo[u - x]
    <2>1. u - x \in Nat
        BY <1>1
    <2>2. /\ TwoTo[x] \in Nat /\ TwoTo[x] > 0
          /\ TwoTo[u - x] \in Nat
        BY <1>1, <2>1, TwoToType
    <2> QED
        BY <2>2, ExactQuotient
<1>5. TwoTo[u - x] \in Nat
    BY <1>1, TwoToType
<1> QED
    BY <1>1, <1>2, <1>3, <1>4, <1>5 DEF Decayed, Unit

\* A weight later decays exactly from the weight now.
LEMMA UnitDecaysOn ==
    ASSUME NEW b \in Nat, b <= FastestDecay, NEW a \in Nat, NEW d \in Nat, a + d <= MaxDuration
    PROVE  /\ Decayed(Unit, b, a) = TwoTo[b * d] * Decayed(Unit, b, a + d)
           /\ Decayed(Decayed(Unit, b, a), b, d) = Decayed(Unit, b, a + d)
           /\ TwoTo[b * d] \in Nat /\ TwoTo[b * d] > 0
<1>1. PICK x, y, z, u \in Nat : /\ x = b * a /\ y = b * d /\ z = b * (a + d) /\ z <= u
                                /\ u = FastestDecay * MaxDuration
    <2>1. /\ b * (a + d) \in Nat /\ FastestDecay * MaxDuration \in Nat
          /\ b * (a + d) <= FastestDecay * MaxDuration
        BY Exponents
    <2>2. b * a \in Nat /\ b * d \in Nat
        OBVIOUS
    <2> QED
        BY <2>1, <2>2
<1>2. z = x + y
    BY <1>1
<1>3. TwoTo[u - x] = TwoTo[y] * TwoTo[u - z]
    <2>1. y + (u - z) = u - x /\ u - z \in Nat
        BY <1>1, <1>2
    <2>2. TwoTo[y + (u - z)] = TwoTo[y] * TwoTo[u - z]
        BY <2>1, TwoToSum
    <2> QED
        BY <2>1, <2>2
<1>4. Decayed(Unit, b, a) = TwoTo[u - x] /\ Decayed(Unit, b, a + d) = TwoTo[u - z]
    BY <1>1, UnitDecays, HawkesAssumption
<1>5. TwoTo[y] \in Nat /\ TwoTo[y] > 0 /\ TwoTo[u - z] \in Nat
    BY <1>1, <1>2, TwoToType
<1>6. (TwoTo[y] * TwoTo[u - z]) \div TwoTo[y] = TwoTo[u - z]
    BY <1>5, ExactQuotient
<1>7. Decayed(TwoTo[u - x], b, d) = TwoTo[u - x] \div TwoTo[y]
    BY <1>1 DEF Decayed
<1> QED
    BY <1>1, <1>3, <1>4, <1>5, <1>6, <1>7

(***************************************************************************)
(* The state as a sum over the history.                                    *)
(***************************************************************************)

Arrivals == Seq([t : Int, mark : Dim])

\* es is a history at time t: nothing is later, or older than the tape can be.
HistoryAt(es, t) ==
    es \in Arrivals /\ t \in Int /\ \A k \in DOMAIN es : es[k].t <= t /\ t - es[k].t <= MaxDuration

OfMark(es, j) == {k \in DOMAIN es : es[k].mark = j}

Weights(b, es, t) == [k \in DOMAIN es |-> Decayed(Unit, b, t - es[k].t)]

\* R is the sum of the weights of the history es at time t.
IsStateOf(R, es, t) ==
    /\ R \in [Dim -> [Dim -> [Comp -> Int]]]
    /\ \A i, j \in Dim, p \in Comp :
         R[i][j][p] = SumFunctionOnSet(Weights(Beta[i][j][p], es, t), OfMark(es, j))

LEMMA ArrivalTypes ==
    ASSUME NEW es \in Arrivals
    PROVE  /\ Len(es) \in Nat /\ DOMAIN es = 1 .. Len(es) /\ IsFiniteSet(DOMAIN es)
           /\ \A k \in DOMAIN es : es[k].t \in Int /\ es[k].mark \in Dim
           /\ \A j : IsFiniteSet(OfMark(es, j))
<1>1. Len(es) \in Nat /\ DOMAIN es = 1 .. Len(es)
    BY DEF Arrivals
<1>2. \A k \in DOMAIN es : es[k].t \in Int /\ es[k].mark \in Dim
    <2>1. \A k \in DOMAIN es : es[k] \in [t : Int, mark : Dim]
        BY <1>1, ElementOfSeq DEF Arrivals
    <2> QED
        BY <2>1
<1>3. IsFiniteSet(DOMAIN es)
    BY <1>1, FS_Interval
<1>4. ASSUME NEW j PROVE IsFiniteSet(OfMark(es, j))
    BY <1>3, FS_Subset DEF OfMark
<1> QED
    BY <1>1, <1>2, <1>3, <1>4

LEMMA WeightsSummable ==
    ASSUME NEW es, NEW t, HistoryAt(es, t), NEW b \in Nat, b <= FastestDecay,
           NEW S \in SUBSET (DOMAIN es)
    PROVE  Summable(Weights(b, es, t), S)
<1>1. \A k \in S : t - es[k].t \in Nat /\ t - es[k].t <= MaxDuration
    BY ArrivalTypes DEF HistoryAt
<1>2. \A k \in S : Weights(b, es, t)[k] \in Int
    BY <1>1, UnitDecays DEF Weights
<1>3. IsFiniteSet(S)
    BY ArrivalTypes, FS_Subset DEF HistoryAt
<1> QED
    BY <1>2, <1>3 DEF Summable

\* Without arrivals the state is NoR, at whatever time.
LEMMA NoHistory == ASSUME NEW R, NEW t PROVE IsStateOf(R, << >>, t) <=> R = NoR
<1>1. ASSUME NEW i \in Dim, NEW j \in Dim, NEW p \in Comp
      PROVE  SumFunctionOnSet(Weights(Beta[i][j][p], << >>, t), OfMark(<< >>, j)) = 0
    <2>1. OfMark(<< >>, j) = {}
        BY DEF OfMark
    <2> QED
        BY <2>1, SumEmpty
<1>2. IsStateOf(R, << >>, t)
        <=> /\ R \in [Dim -> [Dim -> [Comp -> Int]]]
            /\ \A i, j \in Dim, p \in Comp : R[i][j][p] = 0
    BY <1>1 DEF IsStateOf
<1>3. ASSUME R \in [Dim -> [Dim -> [Comp -> Int]]], \A i, j \in Dim, p \in Comp : R[i][j][p] = 0
      PROVE  R = NoR
    <2>1. R = [i \in Dim |-> [j \in Dim |-> [p \in Comp |-> R[i][j][p]]]]
        BY <1>3
    <2> QED
        BY <1>3, <2>1 DEF NoR
<1>4. NoR \in [Dim -> [Dim -> [Comp -> Int]]] /\ \A i, j \in Dim, p \in Comp : NoR[i][j][p] = 0
    BY DEF NoR
<1> QED
    BY <1>2, <1>3, <1>4

\* Time passes: every weight decays, and so does their sum.
LEMMA WeightsDecay ==
    ASSUME NEW es, NEW t, NEW d \in Nat, HistoryAt(es, t), HistoryAt(es, t + d),
           NEW b \in Nat, b <= FastestDecay, NEW S \in SUBSET (DOMAIN es)
    PROVE  Decayed(SumFunctionOnSet(Weights(b, es, t), S), b, d)
             = SumFunctionOnSet(Weights(b, es, t + d), S)
<1> DEFINE f == Weights(b, es, t)
           g == Weights(b, es, t + d)
           m == TwoTo[b * d]
<1>1. ASSUME NEW k \in S
      PROVE  f[k] = m * g[k]
    <2>1. PICK a \in Nat : a = t - es[k].t /\ a + d <= MaxDuration /\ (t + d) - es[k].t = a + d
        BY ArrivalTypes DEF HistoryAt
    <2>2. Decayed(Unit, b, a) = m * Decayed(Unit, b, a + d)
        BY <2>1, UnitDecaysOn
    <2> QED
        BY <2>1, <2>2 DEF Weights
<1>2. m \in Nat /\ m > 0
    <2>1. b * d \in Nat
        OBVIOUS
    <2> QED
        BY <2>1, TwoToType
<1>3. Summable(f, S) /\ Summable(g, S)
    BY WeightsSummable
<1>4. Decayed(SumFunctionOnSet(f, S), b, d) = SumFunctionOnSet(f, S) \div m
    BY DEF Decayed
<1> HIDE DEF f, g, m
<1>5. SumFunctionOnSet(f, S) = m * SumFunctionOnSet(g, S)
    BY <1>1, <1>2, <1>3, SumScale
<1>6. SumFunctionOnSet(g, S) \in Int
    BY <1>3, SumType
<1>7. (m * SumFunctionOnSet(g, S)) \div m = SumFunctionOnSet(g, S)
    BY <1>2, <1>6, ExactQuotient
<1> QED
    BY <1>4, <1>5, <1>7 DEF f, g

LEMMA DecayState ==
    ASSUME NEW R, NEW es, NEW t, NEW d \in Nat, HistoryAt(es, t), HistoryAt(es, t + d),
           IsStateOf(R, es, t)
    PROVE  IsStateOf(DecayAll(R, d), es, t + d)
<1> DEFINE Q == DecayAll(R, d)
<1>1. ASSUME NEW i \in Dim, NEW j \in Dim, NEW p \in Comp
      PROVE  /\ Q[i][j][p] = SumFunctionOnSet(Weights(Beta[i][j][p], es, t + d), OfMark(es, j))
             /\ Q[i][j][p] \in Int
    <2>1. Beta[i][j][p] \in Nat /\ Beta[i][j][p] <= FastestDecay
        BY FastestIs
    <2>2. OfMark(es, j) \in SUBSET (DOMAIN es)
        BY DEF OfMark
    <2>3. Q[i][j][p] = Decayed(R[i][j][p], Beta[i][j][p], d)
        BY DEF DecayAll
    <2>4. R[i][j][p] = SumFunctionOnSet(Weights(Beta[i][j][p], es, t), OfMark(es, j))
        BY DEF IsStateOf
    <2>5. Q[i][j][p] = SumFunctionOnSet(Weights(Beta[i][j][p], es, t + d), OfMark(es, j))
        BY <2>1, <2>2, <2>3, <2>4, WeightsDecay
    <2>6. Summable(Weights(Beta[i][j][p], es, t + d), OfMark(es, j))
        BY <2>1, <2>2, WeightsSummable
    <2> QED
        BY <2>5, <2>6, SumType
<1>2. Q \in [Dim -> [Dim -> [Comp -> Int]]]
    <2>1. Q = [i \in Dim |-> [j \in Dim |-> [p \in Comp |-> Q[i][j][p]]]]
        BY DEF DecayAll
    <2> HIDE DEF Q
    <2> QED
        BY <1>1, <2>1
<1> HIDE DEF Q
<1>3. IsStateOf(Q, es, t + d)
    BY <1>1, <1>2 DEF IsStateOf
<1> QED
    BY <1>3 DEF Q

LEMMA AppendedHistory ==
    ASSUME NEW es, NEW t, HistoryAt(es, t), NEW m \in Dim
    PROVE  /\ HistoryAt(Append(es, [t |-> t, mark |-> m]), t)
           /\ Len(Append(es, [t |-> t, mark |-> m])) = Len(es) + 1
           /\ DOMAIN Append(es, [t |-> t, mark |-> m]) = DOMAIN es \cup {Len(es) + 1}
           /\ Len(es) + 1 \notin DOMAIN es
           /\ \A k \in DOMAIN es : Append(es, [t |-> t, mark |-> m])[k] = es[k]
           /\ Append(es, [t |-> t, mark |-> m])[Len(es) + 1] = [t |-> t, mark |-> m]
<1> DEFINE e == [t |-> t, mark |-> m]
           fs == Append(es, e)
<1>1. e \in [t : Int, mark : Dim] /\ e.t = t
    BY DEF HistoryAt
<1> HIDE DEF e
<1>2. /\ fs \in Arrivals /\ Len(fs) = Len(es) + 1
      /\ \A k \in 1 .. Len(es) : fs[k] = es[k]
      /\ fs[Len(es) + 1] = e
    BY <1>1 DEF HistoryAt, Arrivals
<1>3. Len(es) \in Nat /\ DOMAIN es = 1 .. Len(es) /\ DOMAIN fs = 1 .. (Len(es) + 1)
    BY <1>2, ArrivalTypes DEF HistoryAt
<1> HIDE DEF fs
<1>4. \A k \in DOMAIN fs : fs[k].t <= t /\ t - fs[k].t <= MaxDuration
    <2>1. ASSUME NEW k \in DOMAIN fs PROVE fs[k].t <= t /\ t - fs[k].t <= MaxDuration
        <3>1. CASE k \in DOMAIN es
            BY <1>2, <1>3, <3>1 DEF HistoryAt
        <3>2. CASE k = Len(es) + 1
            BY <1>1, <1>2, <3>2, HawkesAssumption DEF HistoryAt
        <3> QED
            BY <1>3, <3>1, <3>2
    <2> QED
        BY <2>1
<1>5. HistoryAt(fs, t)
    BY <1>2, <1>4 DEF HistoryAt
<1> QED
    BY <1>2, <1>3, <1>5 DEF fs, e

\* An arrival: its own weight is Unit.
LEMMA MarkState ==
    ASSUME NEW R, NEW es, NEW t, HistoryAt(es, t), IsStateOf(R, es, t), NEW m \in Dim
    PROVE  IsStateOf(Marked(R, m), Append(es, [t |-> t, mark |-> m]), t)
<1> DEFINE fs == Append(es, [t |-> t, mark |-> m])
           Q == Marked(R, m)
           n == Len(es) + 1
<1>1. /\ HistoryAt(fs, t) /\ DOMAIN fs = DOMAIN es \cup {n} /\ n \notin DOMAIN es
      /\ \A k \in DOMAIN es : fs[k] = es[k]
      /\ fs[n].t = t /\ fs[n].mark = m
    BY AppendedHistory
<1> HIDE DEF fs, n
<1>2. ASSUME NEW i \in Dim, NEW j \in Dim, NEW p \in Comp
      PROVE  /\ Q[i][j][p] = SumFunctionOnSet(Weights(Beta[i][j][p], fs, t), OfMark(fs, j))
             /\ Q[i][j][p] \in Int
    <2> DEFINE b == Beta[i][j][p]
               f == Weights(b, es, t)
               g == Weights(b, fs, t)
    <2>0. R[i][j][p] = SumFunctionOnSet(f, OfMark(es, j)) /\ R \in [Dim -> [Dim -> [Comp -> Int]]]
        BY DEF IsStateOf
    <2>1. b \in Nat /\ b <= FastestDecay
        BY FastestIs
    <2>2. OfMark(es, j) \in SUBSET (DOMAIN es) /\ OfMark(fs, j) \in SUBSET (DOMAIN fs)
        BY DEF OfMark
    <2>3. Summable(f, OfMark(es, j)) /\ Summable(g, OfMark(fs, j))
        BY <1>1, <2>1, <2>2, WeightsSummable
    <2>4. \A k \in DOMAIN es : f[k] = g[k]
        BY <1>1 DEF Weights
    <2>5. g[n] = Unit /\ Unit \in Int
        <3>1. g[n] = Decayed(Unit, b, t - t)
            BY <1>1 DEF Weights
        <3>2. t - t = 0 /\ b * 0 = 0
            BY <2>1 DEF HistoryAt
        <3>3. Unit \in Nat
            BY FastestIs, HawkesAssumption, Exponents, TwoToType DEF Unit
        <3> QED
            BY <3>1, <3>2, <3>3, TwoToIs DEF Decayed
    <2> HIDE DEF b, f, g
    <2>6. Summable(g, OfMark(es, j)) /\ SumFunctionOnSet(g, OfMark(es, j)) = R[i][j][p]
        BY <2>0, <2>2, <2>3, <2>4, SumSame
    <2>7. CASE j = m
        <3>1. OfMark(fs, j) = OfMark(es, j) \cup {n} /\ n \notin OfMark(es, j)
            BY <1>1, <2>7 DEF OfMark
        <3>2. SumFunctionOnSet(g, OfMark(fs, j)) = R[i][j][p] + Unit
            BY <2>5, <2>6, <3>1, SumAdd
        <3>3. Q[i][j][p] = R[i][j][p] + Unit
            BY <2>0, <2>7 DEF Marked
        <3> QED
            BY <2>0, <2>5, <3>2, <3>3 DEF b, g
    <2>8. CASE j # m
        <3>1. OfMark(fs, j) = OfMark(es, j)
            BY <1>1, <2>8 DEF OfMark
        <3>2. Q[i][j][p] = R[i][j][p]
            BY <2>0, <2>8 DEF Marked
        <3> QED
            BY <2>0, <2>6, <3>1, <3>2 DEF b, g
    <2> QED
        BY <2>7, <2>8
<1>3. Q \in [Dim -> [Dim -> [Comp -> Int]]]
    <2>0. R \in [Dim -> [Dim -> [Comp -> Int]]]
        BY DEF IsStateOf
    <2>1. Q = [i \in Dim |-> [j \in Dim |-> [p \in Comp |-> Q[i][j][p]]]]
        BY <2>0 DEF Marked
    <2> HIDE DEF Q
    <2> QED
        BY <1>2, <2>1
<1> HIDE DEF Q
<1>4. IsStateOf(Q, fs, t)
    BY <1>2, <1>3 DEF IsStateOf
<1> QED
    BY <1>4 DEF Q, fs

\* w[j][p] has what an arrival marked j weighs in component p, r[j][p] the sum
\* of these weights.
WeighedBy(es, w, r) ==
    \A j \in Dim, p \in Comp :
        /\ \A k \in OfMark(es, j) : w[j][p][k] \in Int
        /\ r[j][p] = SumFunctionOnSet(w[j][p], OfMark(es, j))

\* What the arrivals, and what the kernels, add to dimension i.
ArrivalTerms(i, es, w, terms) ==
    \A k \in DOMAIN es : \A p \in Comp :
        terms[k][p] = Alpha[i][es[k].mark][p] * w[es[k].mark][p][k]

KernelTerms(i, r, terms) == \A j \in Dim, p \in Comp : terms[j][p] = Alpha[i][j][p] * r[j][p]

\* The history adds up to the same arrival by arrival and kernel by kernel.
LEMMA OverHistory ==
    ASSUME NEW es \in Arrivals, NEW i \in Dim, NEW w, NEW r, WeighedBy(es, w, r),
           NEW terms, ArrivalTerms(i, es, w, terms),
           NEW scaled, KernelTerms(i, r, scaled),
           NEW byArrival, RowTotals(byArrival, terms, DOMAIN es, Comp),
           NEW byMark, RowTotals(byMark, scaled, Dim, Comp)
    PROVE  /\ Summable(byArrival, DOMAIN es) /\ Summable(byMark, Dim)
           /\ SumFunctionOnSet(byArrival, DOMAIN es) = SumFunctionOnSet(byMark, Dim)
<1>0. /\ IsFiniteSet(Dim) /\ IsFiniteSet(Comp)
      /\ \A j \in Dim, p \in Comp : Alpha[i][j][p] \in Int
    BY HawkesAssumption
<1>1. /\ IsFiniteSet(DOMAIN es) /\ \A k \in DOMAIN es : es[k].mark \in Dim
      /\ \A j \in Dim : IsFiniteSet(OfMark(es, j))
    BY ArrivalTypes
<1>2. ASSUME NEW j \in Dim
      PROVE  /\ Summable(byArrival, OfMark(es, j))
             /\ SumFunctionOnSet(byArrival, OfMark(es, j)) = byMark[j]
    <2> DEFINE S == OfMark(es, j)
               col == [p \in Comp |-> [k \in S |-> terms[k][p]]]
               cols == [p \in Comp |-> SumFunctionOnSet(col[p], S)]
    <2>1. \A k \in S : k \in DOMAIN es /\ es[k].mark = j
        BY DEF OfMark
    <2>2. \A k \in S : \A p \in Comp : /\ terms[k][p] = Alpha[i][j][p] * w[j][p][k]
                                       /\ w[j][p][k] \in Int
        BY <2>1 DEF ArrivalTerms, WeighedBy
    <2>3. Transposed(terms, col, S, Comp)
        BY <1>0, <2>2 DEF Transposed
    <2>4. RowTotals(byArrival, terms, S, Comp)
        BY <2>1 DEF RowTotals
    <2>5. RowTotals(cols, col, Comp, S)
        BY DEF RowTotals
    <2>6. ASSUME NEW p \in Comp
          PROVE  cols[p] = scaled[j][p]
        <3> DEFINE f == w[j][p]
                   h == col[p]
                   c == Alpha[i][j][p]
        <3>1. c \in Int /\ Summable(f, S)
            BY <1>0, <1>1, <2>2 DEF Summable
        <3>2. \A k \in S : h[k] = c * f[k]
            BY <2>2
        <3>3. scaled[j][p] = c * SumFunctionOnSet(f, S) /\ cols[p] = SumFunctionOnSet(h, S)
            BY DEF KernelTerms, WeighedBy
        <3> HIDE DEF f, h, c, S, cols
        <3>4. SumFunctionOnSet(h, S) = c * SumFunctionOnSet(f, S)
            BY <3>1, <3>2, SumScale
        <3> QED
            BY <3>3, <3>4
    <2>7. IsFiniteSet(S) /\ IsFiniteSet(Comp)
        BY <1>0, <1>1
    <2> HIDE DEF S, col, cols
    <2>8. /\ Summable(byArrival, S) /\ Summable(cols, Comp)
          /\ SumFunctionOnSet(byArrival, S) = SumFunctionOnSet(cols, Comp)
        BY ONLY <2>3, <2>4, <2>5, <2>7, SumSwap
    <2>9. SumFunctionOnSet(cols, Comp) = SumFunctionOnSet(scaled[j], Comp)
        <3> DEFINE f == scaled[j]
        <3>1. \A p \in Comp : cols[p] = f[p]
            BY <2>6
        <3> HIDE DEF f
        <3>2. SumFunctionOnSet(cols, Comp) = SumFunctionOnSet(f, Comp)
            BY <2>8, <3>1, SumSame
        <3> QED
            BY <3>2 DEF f
    <2>10. byMark[j] = SumFunctionOnSet(scaled[j], Comp)
        BY DEF RowTotals
    <2> QED
        BY <2>8, <2>9, <2>10 DEF S
<1> DEFINE part == [j \in Dim |-> OfMark(es, j)]
<1>3. \A j \in Dim : Summable(byArrival, part[j]) /\ byMark[j] = SumFunctionOnSet(byArrival, part[j])
    BY <1>2
<1>4. \A j, l \in Dim : j # l => part[j] \cap part[l] = {}
    BY DEF OfMark
<1>5. Whole(part, Dim) = DOMAIN es
    <2>1. \A j \in Dim : part[j] \subseteq DOMAIN es
        BY DEF OfMark
    <2>2. \A k \in DOMAIN es : k \in part[es[k].mark] /\ es[k].mark \in Dim
        BY <1>1 DEF OfMark
    <2> HIDE DEF part
    <2> QED
        BY <2>1, <2>2 DEF Whole
<1>6. \A j \in Dim : byMark[j] \in Int
    BY <1>3, SumType
<1> HIDE DEF part
<1>7. /\ Summable(byArrival, Whole(part, Dim))
      /\ SumFunctionOnSet(byArrival, Whole(part, Dim)) = SumFunctionOnSet(byMark, Dim)
    <2>1. IsFiniteSet(Dim)
        BY <1>0
    <2> QED
        BY ONLY <2>1, <1>3, <1>4, SumByParts
<1> QED
    BY <1>0, <1>5, <1>6, <1>7 DEF Summable

\* The recursion's intensity is the sum over the history.
LEMMA IntensityIsTheSum ==
    ASSUME NEW R, NEW es, NEW t, HistoryAt(es, t), IsStateOf(R, es, t), NEW i \in Dim
    PROVE  Intensity(R, i) = KernelSum(i, t, es)
<1> DEFINE w == [j \in Dim |-> [p \in Comp |-> Weights(Beta[i][j][p], es, t)]]
           r == R[i]
           terms == [k \in DOMAIN es |-> [p \in Comp |->
                       Alpha[i][es[k].mark][p]
                         * Decayed(Unit, Beta[i][es[k].mark][p], t - es[k].t)]]
           byArrival == [k \in DOMAIN es |-> SumFunction(terms[k])]
           scaled == [j \in Dim |-> [p \in Comp |-> Alpha[i][j][p] * R[i][j][p]]]
           byMark == [j \in Dim |-> SumFunction(scaled[j])]
<1>0. es \in Arrivals /\ \A k \in DOMAIN es : es[k].mark \in Dim
    BY ArrivalTypes DEF HistoryAt
<1>1. WeighedBy(es, w, r)
    <2>1. ASSUME NEW j \in Dim, NEW p \in Comp
          PROVE  /\ \A k \in OfMark(es, j) : w[j][p][k] \in Int
                 /\ r[j][p] = SumFunctionOnSet(w[j][p], OfMark(es, j))
        <3>1. Summable(Weights(Beta[i][j][p], es, t), OfMark(es, j))
            BY FastestIs, WeightsSummable DEF OfMark
        <3> QED
            BY <3>1 DEF IsStateOf, Summable
    <2> HIDE DEF w, r
    <2> QED
        BY <2>1 DEF WeighedBy
<1>2. ArrivalTerms(i, es, w, terms)
    BY <1>0 DEF ArrivalTerms, Weights
<1>3. RowTotals(byArrival, terms, DOMAIN es, Comp)
    BY DEF RowTotals, SumFunction
<1>4. KernelTerms(i, r, scaled)
    BY DEF KernelTerms
<1>5. RowTotals(byMark, scaled, Dim, Comp)
    BY DEF RowTotals, SumFunction
<1>6. /\ KernelSum(i, t, es) = Mu[i] * Unit + SumFunctionOnSet(byArrival, DOMAIN es)
      /\ Intensity(R, i) = Mu[i] * Unit + SumFunctionOnSet(byMark, Dim)
    BY DEF KernelSum, Intensity, OverKernels, SumFunction
<1> HIDE DEF w, r, terms, byArrival, scaled, byMark
<1>7. SumFunctionOnSet(byArrival, DOMAIN es) = SumFunctionOnSet(byMark, Dim)
    BY <1>0, <1>1, <1>2, <1>3, <1>4, <1>5, OverHistory
<1> QED
    BY <1>6, <1>7

\* The history fixes the state.
LEMMA SameState ==
    ASSUME NEW Q, NEW R, NEW es, NEW t, IsStateOf(Q, es, t), IsStateOf(R, es, t)
    PROVE  Q = R
<1>1. \A i, j \in Dim, p \in Comp : Q[i][j][p] = R[i][j][p]
    BY DEF IsStateOf
<1>2. /\ Q = [i \in Dim |-> [j \in Dim |-> [p \in Comp |-> Q[i][j][p]]]]
      /\ R = [i \in Dim |-> [j \in Dim |-> [p \in Comp |-> R[i][j][p]]]]
    BY DEF IsStateOf
<1> QED
    BY <1>1, <1>2

(***************************************************************************)
(* The three copies.                                                       *)
(***************************************************************************)

\* The tape: arrivals in the order of their times, none later than now.
TapeInv ==
    /\ now \in Int /\ Epoch <= now /\ now <= Epoch + MaxDuration
    /\ events \in Arrivals
    /\ \A k \in DOMAIN events :
         /\ Epoch <= events[k].t /\ events[k].t <= now
         /\ events[k].t <= LastArrival.t

\* The two offline copies have the state at the last arrival.
InStep(c) ==
    /\ c.any_prev = (events # << >>)
    /\ IF events = << >> THEN c.R = NoR
       ELSE c.prev_t = LastArrival.t /\ IsStateOf(c.R, events, LastArrival.t)

\* The live one has it at its own clock, which no arrival is ahead of.
OnlineInv ==
    /\ IsStateOf(online.R, events, online.prev_t)
    /\ online.have \in BOOLEAN
    /\ online.have => online.prev_t \in Int /\ online.prev_t <= now
    /\ events # << >> => online.have /\ LastArrival.t <= online.prev_t

RInv == TapeInv /\ InStep(likelihood) /\ InStep(residuals) /\ OnlineInv

\* A prefix does not see what is appended.
LEMMA PrefixOfAppend ==
    ASSUME NEW S, NEW es \in Seq(S), NEW e \in S, NEW n \in 0 .. Len(es)
    PROVE  SubSeq(Append(es, e), 1, n) = SubSeq(es, 1, n)
<1>1. Len(es) \in Nat /\ n \in Int /\ \A k \in 1 .. n : es[k] \in S /\ Append(es, e)[k] = es[k]
    BY ElementOfSeq
<1>2. /\ SubSeq(es, 1, n) \in Seq(S)
      /\ Len(SubSeq(es, 1, n)) = IF 1 <= n THEN n - 1 + 1 ELSE 0
      /\ \A i \in 1 .. n - 1 + 1 : SubSeq(es, 1, n)[i] = es[1 + i - 1]
    BY <1>1, SubSeqProperties
<1> DEFINE fs == Append(es, e)
<1>3. \A k \in 1 .. n : fs[k] \in S /\ fs[k] = es[k]
    BY <1>1
<1> HIDE DEF fs
<1>4. /\ SubSeq(fs, 1, n) \in Seq(S)
      /\ Len(SubSeq(fs, 1, n)) = IF 1 <= n THEN n - 1 + 1 ELSE 0
      /\ \A i \in 1 .. n - 1 + 1 : SubSeq(fs, 1, n)[i] = fs[1 + i - 1]
    BY <1>1, <1>3, SubSeqProperties
<1>5. \A i \in 1 .. Len(SubSeq(fs, 1, n)) : SubSeq(fs, 1, n)[i] = SubSeq(es, 1, n)[i]
    BY <1>2, <1>3, <1>4
<1>6. SubSeq(fs, 1, n) = SubSeq(es, 1, n)
    BY <1>2, <1>4, <1>5, SeqEqual
<1> QED
    BY <1>6 DEF fs

\* From the last arrival to now, the tape is a history.
LEMMA TapeIsHistory ==
    ASSUME TapeInv, NEW t \in Int, t <= Epoch + MaxDuration,
           events # << >> => LastArrival.t <= t
    PROVE  HistoryAt(events, t)
<1>1. \A k \in DOMAIN events : events[k].t \in Int /\ Epoch <= events[k].t /\ events[k].t <= t
    <2>1. ASSUME NEW k \in DOMAIN events
          PROVE  events[k].t \in Int /\ Epoch <= events[k].t /\ events[k].t <= t
        <3>1. events # << >> /\ Len(events) \in DOMAIN events
            BY ArrivalTypes DEF TapeInv
        <3> QED
            BY <3>1, ArrivalTypes DEF TapeInv, LastArrival
    <2> QED
        BY <2>1
<1> QED
    BY <1>1, HawkesAssumption DEF HistoryAt, TapeInv

LEMMA LastIsKnown ==
    ASSUME TapeInv, events # << >>
    PROVE  /\ LastArrival.t \in Int /\ Epoch <= LastArrival.t /\ LastArrival.t <= now
           /\ LastArrival.mark \in Dim /\ Len(events) \in DOMAIN events
<1>1. Len(events) \in DOMAIN events
    BY ArrivalTypes, EmptySeq DEF TapeInv, Arrivals
<1> QED
    BY <1>1, ArrivalTypes DEF TapeInv, LastArrival

\* An offline copy, decayed to t, has the state at t, whether the decay is
\* left out before the first arrival (the likelihood) or is one of no time
\* (the residuals).
LEMMA CopyDecays ==
    ASSUME TapeInv, NEW c, InStep(c), NEW t \in Int, now <= t, t <= Epoch + MaxDuration
    PROVE  /\ IsStateOf(IF c.any_prev THEN DecayAll(c.R, t - c.prev_t) ELSE c.R, events, t)
           /\ IsStateOf(DecayAll(c.R, IF c.any_prev THEN t - c.prev_t ELSE 0), events, t)
           /\ c.any_prev => t - c.prev_t \in Nat
<1>0. HistoryAt(events, t)
    BY TapeIsHistory, LastIsKnown DEF TapeInv
<1>1. CASE events = << >>
    <2>1. c.any_prev = FALSE /\ c.R = NoR
        BY <1>1 DEF InStep
    <2>2. IsStateOf(c.R, events, t)
        BY <1>1, <2>1, NoHistory
    <2>3. IsStateOf(DecayAll(c.R, 0), events, t + 0)
        <3>1. t + 0 = t
            OBVIOUS
        <3> QED
            BY <1>0, <2>2, <3>1, DecayState
    <2>4. t + 0 = t
        OBVIOUS
    <2> QED
        BY <2>1, <2>2, <2>3, <2>4
<1>2. CASE events # << >>
    <2> DEFINE u == LastArrival.t
    <2>1. u \in Int /\ Epoch <= u /\ u <= now
        BY <1>2, LastIsKnown
    <2>2. c.any_prev = TRUE /\ c.prev_t = u /\ IsStateOf(c.R, events, u)
        BY <1>2 DEF InStep
    <2>h. u <= Epoch + MaxDuration /\ (events # << >> => LastArrival.t <= u)
        BY <2>1, HawkesAssumption DEF TapeInv
    <2> HIDE DEF u
    <2>3. HistoryAt(events, u)
        BY <2>1, <2>h, TapeIsHistory
    <2>4. t - u \in Nat /\ u + (t - u) = t
        BY <2>1 DEF TapeInv
    <2>5. IsStateOf(DecayAll(c.R, t - u), events, u + (t - u))
        BY <1>0, <2>2, <2>3, <2>4, DecayState
    <2> QED
        BY <2>2, <2>4, <2>5
<1> QED
    BY <1>1, <1>2

\* The live copy, decayed to t.
LEMMA OnlineDecays ==
    ASSUME TapeInv, OnlineInv, NEW t \in Int, now <= t, t <= Epoch + MaxDuration
    PROVE  IsStateOf(UpdateHawkesDecay(online, t).R, events, t)
<1>0. HistoryAt(events, t)
    BY TapeIsHistory, LastIsKnown DEF TapeInv
<1>1. CASE ~ online.have
    <2>1. events = << >> /\ UpdateHawkesDecay(online, t).R = online.R
        BY <1>1 DEF OnlineInv, UpdateHawkesDecay
    <2> QED
        BY <2>1, NoHistory DEF OnlineInv
<1>2. CASE online.have
    <2> DEFINE u == online.prev_t
    <2>1. u \in Int /\ u <= now /\ IsStateOf(online.R, events, u)
        BY <1>2 DEF OnlineInv
    <2>2. HistoryAt(events, u)
        <3>1. u <= Epoch + MaxDuration /\ (events # << >> => LastArrival.t <= u)
            BY <2>1, HawkesAssumption DEF TapeInv, OnlineInv
        <3> HIDE DEF u
        <3> QED
            BY <2>1, <3>1, TapeIsHistory
    <2>3. UpdateHawkesDecay(online, t).R = DecayAll(online.R, t - u)
        BY <1>2 DEF UpdateHawkesDecay
    <2> HIDE DEF u
    <2>4. t - u \in Nat /\ u + (t - u) = t
        BY <2>1 DEF TapeInv
    <2>5. IsStateOf(DecayAll(online.R, t - u), events, u + (t - u))
        BY <1>0, <2>1, <2>2, <2>4, DecayState
    <2> QED
        BY <2>3, <2>4, <2>5
<1> QED
    BY <1>1, <1>2 DEF OnlineInv

\* A second decay to the same time changes nothing.
LEMMA DecaysOnce ==
    ASSUME NEW o, NEW es, NEW t, HistoryAt(es, t), IsStateOf(o.R, es, t),
           o.have = TRUE, o.prev_t = t, NEW q, q = o \/ q = UpdateHawkesDecay(o, t)
    PROVE  IsStateOf(q.R, es, t) /\ q.have = TRUE /\ q.prev_t = t
<1>1. t - t = 0 /\ t + 0 = t
    BY DEF HistoryAt
<1>2. IsStateOf(DecayAll(o.R, 0), es, t + 0)
    BY <1>1, DecayState
<1>3. CASE q = UpdateHawkesDecay(o, t)
    <2>1. q = [R |-> DecayAll(o.R, 0), have |-> TRUE, prev_t |-> t]
        BY <1>1, <1>3 DEF UpdateHawkesDecay
    <2> QED
        BY <1>1, <1>2, <2>1
<1> QED
    BY <1>3

LEMMA InitRInv == HKInit => RInv /\ RecursionIsTheSum
<1> SUFFICES ASSUME HKInit PROVE RInv /\ RecursionIsTheSum
    OBVIOUS
<1>1. TapeInv
    <2>1. events = << >> /\ << >> \in Arrivals /\ DOMAIN << >> = {}
        BY DEF HKInit, Arrivals
    <2> QED
        BY <2>1, HawkesAssumption DEF HKInit, TapeInv
<1>2. InStep(likelihood) /\ InStep(residuals)
    BY DEF HKInit, InStep
<1>3. OnlineInv
    BY NoHistory DEF HKInit, OnlineInv
<1> QED
    BY <1>1, <1>2, <1>3 DEF RInv, RecursionIsTheSum, HKInit

\* Time passes.
LEMMA TapeGoesOn ==
    ASSUME TapeInv, NEW d \in Nat, now' = now + d, now + d <= Epoch + MaxDuration, UNCHANGED events
    PROVE  TapeInv'
<1>1. now' \in Int /\ Epoch <= now' /\ now <= now'
    BY HawkesAssumption DEF TapeInv
<1>2. \A k \in DOMAIN events : events[k].t <= now'
    BY <1>1, ArrivalTypes DEF TapeInv
<1> QED
    BY <1>1, <1>2 DEF TapeInv, LastArrival

LEMMA QuoteRInv ==
    ASSUME RInv, RecursionIsTheSum, NEW d \in Nat, NEW twoSided \in BOOLEAN,
           now + d <= Epoch + MaxDuration, Quote(d, twoSided)
    PROVE  RInv' /\ RecursionIsTheSum'
<1>1. /\ now' = now + d /\ UNCHANGED <<events, likelihood, residuals>>
      /\ online' = OnMarketData(online, now', twoSided)
    BY DEF Quote
<1>2. TapeInv'
    BY <1>1, TapeGoesOn DEF RInv
<1>3. InStep(likelihood)' /\ InStep(residuals)'
    BY <1>1 DEF RInv, InStep, LastArrival
<1>4. OnlineInv'
    <2>1. now' \in Int /\ now <= now' /\ now' <= Epoch + MaxDuration
        BY <1>1 DEF RInv, TapeInv
    <2>2. events # << >> => LastArrival.t <= now'
        BY <2>1, LastIsKnown DEF RInv, TapeInv
    <2>3. CASE twoSided
        <3>1. online' = [R |-> UpdateHawkesDecay(online, now').R, have |-> TRUE, prev_t |-> now']
            BY <1>1, <2>3 DEF OnMarketData, UpdateHawkesDecay
        <3>2. IsStateOf(UpdateHawkesDecay(online, now').R, events, now')
            BY <2>1, OnlineDecays DEF RInv
        <3>3. online'.R = UpdateHawkesDecay(online, now').R /\ online'.have = TRUE /\ online'.prev_t = now'
            BY <3>1
        <3>4. IsStateOf(online'.R, events', online'.prev_t)
            BY <1>1, <3>2, <3>3
        <3>5. events' # << >> => LastArrival'.t <= online'.prev_t
            BY <1>1, <2>2, <3>3 DEF LastArrival
        <3>6. online'.have \in BOOLEAN
            BY <3>3
        <3>7. online'.prev_t \in Int /\ online'.prev_t <= now'
            BY <2>1, <3>3
        <3> QED
            BY <3>3, <3>4, <3>5, <3>6, <3>7, Zenon DEF OnlineInv
    <2>4. CASE ~ twoSided
        <3>1. online' = online
            BY <1>1, <2>4 DEF OnMarketData
        <3>2. online.have => online.prev_t \in Int /\ online.prev_t <= now'
            BY <2>1 DEF RInv, OnlineInv, TapeInv
        <3> QED
            BY <1>1, <3>1, <3>2 DEF RInv, OnlineInv, LastArrival
    <2> QED
        BY <2>3, <2>4
<1>5. RecursionIsTheSum'
    BY <1>1 DEF RecursionIsTheSum, LastArrival, History, KernelSum
<1> QED
    BY <1>2, <1>3, <1>4, <1>5 DEF RInv

LEMMA ArrivalRInv ==
    ASSUME RInv, NEW d \in Nat, NEW m \in Dim, NEW twoSided \in BOOLEAN,
           now + d <= Epoch + MaxDuration, Arrival(d, m, twoSided)
    PROVE  RInv' /\ RecursionIsTheSum'
<1> DEFINE t == now'
           e == [t |-> t, mark |-> m]
<1>1. /\ now' = now + d /\ events' = Append(events, e)
      /\ likelihood' = LikelihoodStep(likelihood, t, m)
      /\ residuals' = ResidualsStep(residuals, t, m)
      /\ online' = OnMarketData(MarkEvent(UpdateHawkesDecay(online, t), m), t, twoSided)
    BY DEF Arrival
<1>2. t \in Int /\ now <= t /\ t <= Epoch + MaxDuration /\ Epoch <= t
    BY <1>1, HawkesAssumption DEF RInv, TapeInv
<1>3. HistoryAt(events, t)
    BY <1>2, TapeIsHistory, LastIsKnown DEF RInv, TapeInv
<1>4. /\ HistoryAt(events', t) /\ Len(events') = Len(events) + 1 /\ events' \in Arrivals
      /\ DOMAIN events' = DOMAIN events \cup {Len(events) + 1}
      /\ \A k \in DOMAIN events : events'[k] = events[k]
      /\ events'[Len(events) + 1] = e
    BY <1>1, <1>3, AppendedHistory DEF HistoryAt
<1>5. events' # << >> /\ LastArrival' = e /\ e.t = t /\ e.mark = m
    <2>1. Len(events) + 1 # 0
        BY <1>3, ArrivalTypes DEF HistoryAt
    <2> QED
        BY <1>4, <2>1 DEF LastArrival
<1> HIDE DEF e
<1>6. TapeInv'
    <2>1. \A k \in DOMAIN events' : Epoch <= events'[k].t /\ events'[k].t <= t
        <3>1. ASSUME NEW k \in DOMAIN events
              PROVE  Epoch <= events'[k].t /\ events'[k].t <= t
            <4>1. events'[k] = events[k] /\ events[k].t \in Int
                BY <1>3, <1>4, ArrivalTypes DEF HistoryAt
            <4> QED
                BY <1>2, <4>1 DEF RInv, TapeInv
        <3>2. Epoch <= events'[Len(events) + 1].t /\ events'[Len(events) + 1].t <= t
            BY <1>2, <1>4, <1>5
        <3> QED
            BY <1>4, <3>1, <3>2
    <2> QED
        BY <1>2, <1>4, <1>5, <2>1 DEF TapeInv
<1>7. InStep(likelihood)' /\ RecursionIsTheSum'
    <2> DEFINE c == likelihood
               R == IF c.any_prev THEN DecayAll(c.R, t - c.prev_t) ELSE c.R
    <2>1. IsStateOf(R, events, t)
        BY <1>2, CopyDecays DEF RInv
    <2>2. likelihood' = [R |-> Marked(R, m), any_prev |-> TRUE, prev_t |-> t, lam |-> Intensity(R, m)]
        BY <1>1 DEF LikelihoodStep
    <2> HIDE DEF R
    <2>3. IsStateOf(Marked(R, m), events', t)
        BY <1>1, <1>3, <2>1, MarkState DEF e
    <2>4. InStep(likelihood)'
        BY <1>5, <2>2, <2>3 DEF InStep
    <2>5. History' = events
        <3>1. SubSeq(Append(events, e), 1, Len(events)) = SubSeq(events, 1, Len(events))
            <4>1. events \in Seq([t : Int, mark : Dim]) /\ e \in [t : Int, mark : Dim]
                BY <1>2, <1>3 DEF HistoryAt, Arrivals, e
            <4>2. Len(events) \in 0 .. Len(events)
                BY <4>1
            <4> QED
                BY <4>1, <4>2, PrefixOfAppend
        <3>2. Len(events') - 1 = Len(events)
            BY <1>3, <1>4, ArrivalTypes DEF HistoryAt
        <3>3. SubSeq(events, 1, Len(events)) = events
            BY <1>3, SubSeqFull DEF HistoryAt, Arrivals
        <3> QED
            BY <1>1, <3>1, <3>2, <3>3 DEF History
    <2>6. Intensity(R, m) = KernelSum(m, t, events)
        BY <1>3, <2>1, IntensityIsTheSum
    <2>7. likelihood'.lam = KernelSum(LastArrival'.mark, LastArrival'.t, History')
        BY <1>5, <2>2, <2>5, <2>6
    <2>8. RecursionIsTheSum'
        BY <2>7 DEF RecursionIsTheSum, KernelSum
    <2> QED
        BY <2>4, <2>8
<1>8. InStep(residuals)'
    <2> DEFINE c == residuals
               R == DecayAll(c.R, IF c.any_prev THEN t - c.prev_t ELSE 0)
    <2>1. IsStateOf(R, events, t)
        BY <1>2, CopyDecays DEF RInv
    <2>2. residuals'.R = Marked(R, m) /\ residuals'.any_prev = TRUE /\ residuals'.prev_t = t
        BY <1>1 DEF ResidualsStep
    <2> HIDE DEF R
    <2>3. IsStateOf(Marked(R, m), events', t)
        BY <1>1, <1>3, <2>1, MarkState DEF e
    <2> QED
        BY <1>5, <2>2, <2>3 DEF InStep
<1>9. OnlineInv'
    <2> DEFINE u == UpdateHawkesDecay(online, t)
               o == MarkEvent(u, m)
    <2>1. IsStateOf(u.R, events, t)
        BY <1>2, OnlineDecays DEF RInv
    <2>2. u = [R |-> u.R, have |-> TRUE, prev_t |-> t]
        BY DEF UpdateHawkesDecay
    <2> HIDE DEF u
    <2>3. o.R = Marked(u.R, m) /\ o.prev_t = t
        BY <2>2 DEF MarkEvent
    <2>4. o.have = TRUE
        BY <2>2 DEF MarkEvent
    <2>5. IsStateOf(o.R, events', t)
        <3>1. IsStateOf(Marked(u.R, m), events', t)
            BY <1>1, <1>3, <2>1, MarkState DEF e
        <3> QED
            BY <2>3, <3>1
    <2>6. online'.prev_t = t /\ online'.have = TRUE /\ IsStateOf(online'.R, events', t)
        <3>1. online' = o \/ online' = UpdateHawkesDecay(o, t)
            BY <1>1 DEF OnMarketData, u
        <3>2. HistoryAt(events', t)
            BY <1>4
        <3> HIDE DEF o, t
        <3> QED
            BY <2>3, <2>4, <2>5, <3>1, <3>2, DecaysOnce
    <2>7. LastArrival'.t <= online'.prev_t
        BY <1>2, <1>5, <2>6
    <2>8. IsStateOf(online'.R, events', online'.prev_t)
        BY <2>6
    <2>9. online'.have \in BOOLEAN
        BY <2>6
    <2>10. online'.prev_t \in Int /\ online'.prev_t <= now'
        BY <1>2, <2>6
    <2> QED
        BY <2>6, <2>7, <2>8, <2>9, <2>10, Zenon DEF OnlineInv
<1> QED
    BY <1>6, <1>7, <1>8, <1>9 DEF RInv

LEMMA StepRInv ==
    ASSUME RInv, RecursionIsTheSum, [HKNext]_hkVars
    PROVE  RInv' /\ RecursionIsTheSum'
<1>1. CASE HKNext
    <2>1. PICK d \in 0 .. MaxGap, twoSided \in BOOLEAN :
             /\ now + d <= Epoch + MaxDuration
             /\ Quote(d, twoSided) \/ \E m \in Dim : Arrival(d, m, twoSided)
        BY <1>1 DEF HKNext
    <2>2. d \in Nat
        BY HawkesAssumption
    <2>3. CASE Quote(d, twoSided)
        BY <2>1, <2>2, <2>3, QuoteRInv
    <2>4. CASE \E m \in Dim : Arrival(d, m, twoSided)
        BY <2>1, <2>2, <2>4, ArrivalRInv
    <2> QED
        BY <2>1, <2>3, <2>4
<1>2. CASE UNCHANGED hkVars
    <2>1. UNCHANGED <<now, events, likelihood, residuals, online>>
        BY <1>2 DEF hkVars
    <2> QED
        BY <2>1 DEF RInv, TapeInv, InStep, OnlineInv, RecursionIsTheSum, LastArrival, History, KernelSum
<1> QED
    BY <1>1, <1>2

\* The intensity the likelihood takes the logarithm of is the background and
\* every earlier arrival at the weight of its age: what intensity_naive adds
\* up, of which the recursion keeps only R.
THEOREM RecursionSumsTheHistory == HKSpec => []RecursionIsTheSum
<1>1. HKInit => RInv /\ RecursionIsTheSum
    BY InitRInv
<1>2. RInv /\ RecursionIsTheSum /\ [HKNext]_hkVars => RInv' /\ RecursionIsTheSum'
    BY StepRInv
<1> QED
    BY <1>1, <1>2, PTL DEF HKSpec

LEMMA OnlineIsOffline == RInv => OnlineAgreesOffline
<1> SUFFICES ASSUME RInv PROVE OnlineAgreesOffline
    OBVIOUS
<1>1. CASE events = << >>
    BY <1>1, NoHistory DEF RInv, OnlineInv, OnlineAgreesOffline
<1>2. CASE events # << >>
    <2> DEFINE u == LastArrival.t
               v == online.prev_t
    <2>1. u \in Int /\ v \in Int /\ u <= v /\ u <= now /\ v <= now
        BY <1>2, LastIsKnown DEF RInv, OnlineInv
    <2>2. u <= Epoch + MaxDuration /\ v <= Epoch + MaxDuration
        BY <2>1, HawkesAssumption DEF RInv, TapeInv
    <2>3. HistoryAt(events, u) /\ HistoryAt(events, v)
        <3>1. \A x \in Int : x <= Epoch + MaxDuration /\ u <= x => HistoryAt(events, x)
            BY TapeIsHistory DEF RInv
        <3> HIDE DEF u, v
        <3> QED
            BY <2>1, <2>2, <3>1
    <2>4. IsStateOf(likelihood.R, events, u) /\ IsStateOf(online.R, events, v)
        BY <1>2 DEF RInv, InStep, OnlineInv
    <2> HIDE DEF u, v
    <2>5. v - u \in Nat /\ u + (v - u) = v
        BY <2>1
    <2>6. IsStateOf(DecayAll(likelihood.R, v - u), events, u + (v - u))
        BY <2>3, <2>4, <2>5, DecayState
    <2>7. online.R = DecayAll(likelihood.R, v - u)
        BY <2>4, <2>5, <2>6, SameState
    <2> QED
        BY <1>2, <2>7 DEF OnlineAgreesOffline, u, v
<1> QED
    BY <1>1, <1>2

\* The strategy's live state is the calibrated one: decayed at quotes and
\* trades, and only when both sides of the book are there, it never drifts
\* from what the likelihood computes for the same arrivals.
THEOREM LiveStateIsTheOfflineOne == HKSpec => []OnlineAgreesOffline
<1>1. HKInit => RInv /\ RecursionIsTheSum
    BY InitRInv
<1>2. RInv /\ RecursionIsTheSum /\ [HKNext]_hkVars => RInv' /\ RecursionIsTheSum'
    BY StepRInv
<1>3. RInv => OnlineAgreesOffline
    BY OnlineIsOffline
<1> QED
    BY <1>1, <1>2, <1>3, PTL DEF HKSpec

(***************************************************************************)
(* Residuals and compensator.                                              *)
(***************************************************************************)

\* The decays that are integrated as none are none: true of every calibrated
\* beta, the smallest of which is many times 1e-12.
SlowIsNone == \A i, j \in Dim, p \in Comp : Beta[i][j][p] <= NoDecayBelow => Beta[i][j][p] = 0

LEMMA MassType ==
    ASSUME NEW r \in Int, NEW b \in Nat, NEW d \in Nat
    PROVE  Mass(r, b, d) \in Int
<1>1. PICK u \in Nat : u = TwoTo[b * d] /\ u > 0
    <2>1. b * d \in Nat
        OBVIOUS
    <2> QED
        BY <2>1, TwoToType
<1>2. Decayed(r, b, d) \in Int
    BY <1>1 DEF Decayed
<1>3. NoDecayBelow \in Nat /\ BetaScale \in Nat
    BY HawkesAssumption
<1>4. CASE b <= NoDecayBelow
    BY <1>3, <1>4 DEF Mass
<1>5. CASE ~ b <= NoDecayBelow
    <2>1. BetaScale \div b \in Int /\ r - Decayed(r, b, d) \in Int
        BY <1>2, <1>3, <1>5
    <2>2. Mass(r, b, d) = (BetaScale \div b) * (r - Decayed(r, b, d))
        BY <1>5 DEF Mass
    <2> QED
        BY <2>1, <2>2
<1> QED
    BY <1>4, <1>5

\* Over no time there is no mass.
LEMMA NoMass ==
    ASSUME NEW r \in Int, NEW b \in Nat
    PROVE  Mass(r, b, 0) = 0
<1>1. b * 0 = 0 /\ NoDecayBelow \in Nat /\ BetaScale \in Nat
    BY HawkesAssumption
<1>2. Decayed(r, b, 0) = r
    BY <1>1, TwoToIs DEF Decayed
<1>3. CASE b <= NoDecayBelow
    <2>1. BetaScale * r * 0 = 0
        BY <1>1
    <2> QED
        BY <1>3, <2>1 DEF Mass
<1>4. CASE ~ b <= NoDecayBelow
    <2>1. BetaScale \div b \in Int /\ r - r = 0
        BY <1>1, <1>4
    <2>2. (BetaScale \div b) * 0 = 0
        BY <2>1
    <2> QED
        BY <1>2, <1>4, <2>1, <2>2 DEF Mass
<1> QED
    BY <1>3, <1>4

\* The mass of one arrival, from then to later, in two pieces.
LEMMA MassGrows ==
    ASSUME NEW b \in Nat, b <= FastestDecay, b <= NoDecayBelow => b = 0,
           NEW a \in Nat, NEW d \in Nat, a + d <= MaxDuration
    PROVE  Mass(Unit, b, a + d) = Mass(Unit, b, a) + Mass(Decayed(Unit, b, a), b, d)
<1>1. PICK u, x, y \in Nat : /\ u = Unit /\ x = Decayed(Unit, b, a) /\ y = Decayed(Unit, b, a + d)
                             /\ Decayed(x, b, d) = y
    <2>1. Decayed(Unit, b, a) \in Nat /\ Decayed(Unit, b, a + d) \in Nat
        BY UnitDecays, HawkesAssumption
    <2>2. Unit \in Nat
        BY FastestIs, HawkesAssumption, Exponents, TwoToType DEF Unit
    <2>3. Decayed(Decayed(Unit, b, a), b, d) = Decayed(Unit, b, a + d)
        BY UnitDecaysOn
    <2> QED
        BY <2>1, <2>2, <2>3
<1>2. NoDecayBelow \in Nat /\ BetaScale \in Nat
    BY HawkesAssumption
<1>3. CASE b <= NoDecayBelow
    <2>1. b = 0 /\ 0 * a = 0
        BY <1>3
    <2>2. x = u
        BY <1>1, <2>1, TwoToIs DEF Decayed
    <2>3. PICK s \in Int : s = BetaScale * u
        BY <1>2
    <2>4. s * (a + d) = s * a + s * d
        OBVIOUS
    <2> QED
        BY <1>1, <1>3, <2>2, <2>3, <2>4 DEF Mass
<1>4. CASE ~ b <= NoDecayBelow
    <2>1. PICK c \in Int : c = BetaScale \div b
        BY <1>2, <1>4
    <2>2. c * (u - y) = c * (u - x) + c * (x - y)
        OBVIOUS
    <2> QED
        BY <1>1, <1>4, <2>1, <2>2 DEF Mass
<1> QED
    BY <1>3, <1>4

Masses(b, es, t, d) == [k \in DOMAIN es |-> Mass(Decayed(Unit, b, t - es[k].t), b, d)]

LEMMA MassOfSum ==
    ASSUME NEW es, NEW t, NEW d \in Nat, HistoryAt(es, t), HistoryAt(es, t + d),
           NEW b \in Nat, b <= FastestDecay, NEW S \in SUBSET (DOMAIN es)
    PROVE  /\ Summable(Masses(b, es, t, d), S)
           /\ Mass(SumFunctionOnSet(Weights(b, es, t), S), b, d)
                = SumFunctionOnSet(Masses(b, es, t, d), S)
<1> DEFINE f == Weights(b, es, t)
           g == Weights(b, es, t + d)
           h == Masses(b, es, t, d)
<1>1. Summable(f, S) /\ Summable(g, S)
    BY WeightsSummable
<1>2. Decayed(SumFunctionOnSet(f, S), b, d) = SumFunctionOnSet(g, S)
    BY WeightsDecay
<1>3. ASSUME NEW k \in S
      PROVE  /\ f[k] \in Int /\ g[k] \in Int
             /\ h[k] = IF b <= NoDecayBelow THEN BetaScale * f[k] * d
                       ELSE (BetaScale \div b) * (f[k] - g[k])
    <2>1. PICK a \in Nat : a = t - es[k].t /\ a + d <= MaxDuration /\ (t + d) - es[k].t = a + d
        BY ArrivalTypes DEF HistoryAt
    <2>2. Decayed(Decayed(Unit, b, a), b, d) = Decayed(Unit, b, a + d)
        BY <2>1, UnitDecaysOn
    <2>3. f[k] = Decayed(Unit, b, a) /\ g[k] = Decayed(Unit, b, a + d) /\ h[k] = Mass(f[k], b, d)
        BY <2>1 DEF Weights, Masses
    <2>4. f[k] \in Int /\ g[k] \in Int
        BY <1>1 DEF Summable
    <2> QED
        BY <2>2, <2>3, <2>4 DEF Mass
<1>4. SumFunctionOnSet(f, S) \in Int /\ SumFunctionOnSet(g, S) \in Int
    BY <1>1, SumType
<1>5. NoDecayBelow \in Nat /\ BetaScale \in Nat
    BY HawkesAssumption
<1> HIDE DEF f, g, h
<1>6. CASE b <= NoDecayBelow
    <2>1. PICK c \in Int : c = BetaScale * d
        BY <1>5
    <2>2. \A x \in Int : BetaScale * x * d = c * x
        BY <1>5, <2>1
    <2>3. \A k \in S : h[k] = c * f[k]
        BY <1>3, <1>6, <2>2
    <2>4. Summable(h, S) /\ SumFunctionOnSet(h, S) = c * SumFunctionOnSet(f, S)
        BY <1>1, <2>3, SumScale
    <2> QED
        BY <1>4, <1>6, <2>2, <2>4 DEF Mass, f, h
<1>7. CASE ~ b <= NoDecayBelow
    <2>1. PICK c \in Int : c = BetaScale \div b
        BY <1>5, <1>7
    <2> DEFINE ff == [k \in S |-> c * f[k]]
               gg == [k \in S |-> (-c) * g[k]]
    <2>2. /\ Summable(ff, S) /\ SumFunctionOnSet(ff, S) = c * SumFunctionOnSet(f, S)
          /\ Summable(gg, S) /\ SumFunctionOnSet(gg, S) = (-c) * SumFunctionOnSet(g, S)
        <3>1. \A k \in S : ff[k] = c * f[k] /\ gg[k] = (-c) * g[k]
            OBVIOUS
        <3>2. -c \in Int
            OBVIOUS
        <3> HIDE DEF ff, gg
        <3>3. Summable(ff, S) /\ SumFunctionOnSet(ff, S) = c * SumFunctionOnSet(f, S)
            BY <1>1, <3>1, SumScale
        <3>4. \A n \in Int : (\A k \in S : gg[k] = n * g[k]) =>
                 Summable(gg, S) /\ SumFunctionOnSet(gg, S) = n * SumFunctionOnSet(g, S)
            BY <1>1, SumScale
        <3> QED
            BY <3>1, <3>2, <3>3, <3>4
    <2>3. \A x, y \in Int : c * (x - y) = c * x + (-c) * y
        OBVIOUS
    <2>4. \A k \in S : h[k] = ff[k] + gg[k]
        BY <1>3, <1>7, <2>1, <2>3
    <2> HIDE DEF ff, gg
    <2>5. Summable(h, S) /\ SumFunctionOnSet(h, S) = SumFunctionOnSet(ff, S) + SumFunctionOnSet(gg, S)
        BY <2>2, <2>4, SumPlus
    <2>6. Mass(SumFunctionOnSet(f, S), b, d) = c * (SumFunctionOnSet(f, S) - SumFunctionOnSet(g, S))
        BY <1>2, <1>7, <2>1 DEF Mass
    <2> QED
        BY <1>4, <2>2, <2>3, <2>5, <2>6 DEF f, h
<1> QED
    BY <1>6, <1>7

\* What each arrival adds to compensator i between t and t + d.
Grown(i, es, t, d) ==
    [k \in DOMAIN es |-> SumFunction([p \in Comp |->
        Alpha[i][es[k].mark][p]
          * Mass(Decayed(Unit, Beta[i][es[k].mark][p], t - es[k].t), Beta[i][es[k].mark][p], d)])]

Background(i) == Mu[i] * Unit * BetaScale

LEMMA BackgroundType == \A i \in Dim : Background(i) \in Int
<1>1. Unit \in Nat /\ BetaScale \in Nat /\ \A i \in Dim : Mu[i] \in Nat
    BY FastestIs, HawkesAssumption, Exponents, TwoToType DEF Unit
<1> QED
    BY <1>1 DEF Background

LEMMA ContributionIs ==
    ASSUME NEW R, NEW es, NEW t, NEW d \in Nat, HistoryAt(es, t), HistoryAt(es, t + d),
           IsStateOf(R, es, t), NEW i \in Dim
    PROVE  /\ Summable(Grown(i, es, t, d), DOMAIN es)
           /\ Contribution(R, i, d)
                = Background(i) * d + SumFunctionOnSet(Grown(i, es, t, d), DOMAIN es)
           /\ Contribution(R, i, d) \in Int
<1> DEFINE w == [j \in Dim |-> [p \in Comp |-> Masses(Beta[i][j][p], es, t, d)]]
           r == [j \in Dim |-> [p \in Comp |-> Mass(R[i][j][p], Beta[i][j][p], d)]]
           terms == [k \in DOMAIN es |-> [p \in Comp |->
                       Alpha[i][es[k].mark][p]
                         * Mass(Decayed(Unit, Beta[i][es[k].mark][p], t - es[k].t),
                                Beta[i][es[k].mark][p], d)]]
           byArrival == [k \in DOMAIN es |-> SumFunction(terms[k])]
           scaled == [j \in Dim |-> [p \in Comp |->
                        Alpha[i][j][p] * Mass(R[i][j][p], Beta[i][j][p], d)]]
           byMark == [j \in Dim |-> SumFunction(scaled[j])]
<1>0. es \in Arrivals /\ \A k \in DOMAIN es : es[k].mark \in Dim
    BY ArrivalTypes DEF HistoryAt
<1>1. WeighedBy(es, w, r)
    <2>1. ASSUME NEW j \in Dim, NEW p \in Comp
          PROVE  /\ \A k \in OfMark(es, j) : w[j][p][k] \in Int
                 /\ r[j][p] = SumFunctionOnSet(w[j][p], OfMark(es, j))
        <3> DEFINE b == Beta[i][j][p]
        <3>1. b \in Nat /\ b <= FastestDecay
            BY FastestIs
        <3>2. OfMark(es, j) \in SUBSET (DOMAIN es)
            BY DEF OfMark
        <3>3. R[i][j][p] = SumFunctionOnSet(Weights(b, es, t), OfMark(es, j))
            BY DEF IsStateOf
        <3>4. w[j][p] = Masses(b, es, t, d) /\ r[j][p] = Mass(R[i][j][p], b, d)
            OBVIOUS
        <3> HIDE DEF b, w, r
        <3>5. /\ Summable(Masses(b, es, t, d), OfMark(es, j))
              /\ Mass(SumFunctionOnSet(Weights(b, es, t), OfMark(es, j)), b, d)
                   = SumFunctionOnSet(Masses(b, es, t, d), OfMark(es, j))
            BY <3>1, <3>2, MassOfSum
        <3> QED
            BY <3>3, <3>4, <3>5 DEF Summable
    <2> HIDE DEF w, r
    <2> QED
        BY <2>1 DEF WeighedBy
<1>2. ArrivalTerms(i, es, w, terms)
    BY <1>0 DEF ArrivalTerms, Masses
<1>3. RowTotals(byArrival, terms, DOMAIN es, Comp)
    BY DEF RowTotals, SumFunction
<1>4. KernelTerms(i, r, scaled)
    BY DEF KernelTerms
<1>5. RowTotals(byMark, scaled, Dim, Comp)
    BY DEF RowTotals, SumFunction
<1>6. /\ byArrival = Grown(i, es, t, d)
      /\ Contribution(R, i, d) = Background(i) * d + SumFunctionOnSet(byMark, Dim)
    BY DEF Grown, Contribution, Background, OverKernels, SumFunction
<1> HIDE DEF w, r, terms, byArrival, scaled, byMark
<1>7. /\ Summable(byArrival, DOMAIN es) /\ Summable(byMark, Dim)
      /\ SumFunctionOnSet(byArrival, DOMAIN es) = SumFunctionOnSet(byMark, Dim)
    BY <1>0, <1>1, <1>2, <1>3, <1>4, <1>5, OverHistory
<1>8. SumFunctionOnSet(byMark, Dim) \in Int /\ Background(i) * d \in Int
    BY <1>7, SumType, BackgroundType
<1> QED
    BY <1>6, <1>7, <1>8

\* What the arrivals have added to compensator i by t.
Charged(i, es, t) ==
    [k \in DOMAIN es |-> SumFunction([p \in Comp |->
        Alpha[i][es[k].mark][p] * Mass(Unit, Beta[i][es[k].mark][p], t - es[k].t)])]

LEMMA ChargedType ==
    ASSUME NEW es, NEW t, HistoryAt(es, t), NEW i \in Dim
    PROVE  /\ Summable(Charged(i, es, t), DOMAIN es)
           /\ \A k \in DOMAIN es :
                Summable([p \in Comp |-> Alpha[i][es[k].mark][p]
                                           * Mass(Unit, Beta[i][es[k].mark][p], t - es[k].t)], Comp)
<1>0. es \in Arrivals /\ IsFiniteSet(DOMAIN es) /\ IsFiniteSet(Comp)
    BY ArrivalTypes, HawkesAssumption DEF HistoryAt
<1>1. ASSUME NEW k \in DOMAIN es
      PROVE  Summable([p \in Comp |-> Alpha[i][es[k].mark][p]
                                        * Mass(Unit, Beta[i][es[k].mark][p], t - es[k].t)], Comp)
    <2>1. es[k].mark \in Dim /\ t - es[k].t \in Nat
        BY ArrivalTypes DEF HistoryAt
    <2>2. Unit \in Int
        BY FastestIs, HawkesAssumption, Exponents, TwoToType DEF Unit
    <2>3. \A p \in Comp : Mass(Unit, Beta[i][es[k].mark][p], t - es[k].t) \in Int
        BY <2>1, <2>2, FastestIs, MassType
    <2>4. \A p \in Comp : Alpha[i][es[k].mark][p] \in Int
        BY <2>1, HawkesAssumption
    <2> QED
        BY <1>0, <2>3, <2>4 DEF Summable
<1>2. \A k \in DOMAIN es : Charged(i, es, t)[k] \in Int
    <2>1. ASSUME NEW k \in DOMAIN es PROVE Charged(i, es, t)[k] \in Int
        <3> DEFINE f == [p \in Comp |-> Alpha[i][es[k].mark][p]
                                          * Mass(Unit, Beta[i][es[k].mark][p], t - es[k].t)]
        <3>1. Summable(f, Comp) /\ Charged(i, es, t)[k] = SumFunctionOnSet(f, Comp)
            BY <1>1 DEF Charged, SumFunction
        <3> HIDE DEF f
        <3> QED
            BY <3>1, SumType
    <2> QED
        BY <2>1
<1> QED
    BY <1>0, <1>1, <1>2 DEF Summable

LEMMA ChargedGrows ==
    ASSUME SlowIsNone, NEW es, NEW t, NEW d \in Nat, HistoryAt(es, t), HistoryAt(es, t + d),
           NEW i \in Dim, NEW k \in DOMAIN es
    PROVE  Charged(i, es, t + d)[k] = Charged(i, es, t)[k] + Grown(i, es, t, d)[k]
<1> DEFINE j == es[k].mark
           a == t - es[k].t
           f == [p \in Comp |-> Alpha[i][j][p] * Mass(Unit, Beta[i][j][p], a)]
           g == [p \in Comp |-> Alpha[i][j][p]
                                  * Mass(Decayed(Unit, Beta[i][j][p], a), Beta[i][j][p], d)]
           h == [p \in Comp |-> Alpha[i][j][p]
                                  * Mass(Unit, Beta[i][j][p], (t + d) - es[k].t)]
<1>1. j \in Dim /\ a \in Nat /\ a + d <= MaxDuration /\ (t + d) - es[k].t = a + d
    BY ArrivalTypes DEF HistoryAt
<1>2. /\ Charged(i, es, t)[k] = SumFunctionOnSet(f, Comp)
      /\ Charged(i, es, t + d)[k] = SumFunctionOnSet(h, Comp)
      /\ Grown(i, es, t, d)[k] = SumFunctionOnSet(g, Comp)
    BY DEF Charged, Grown, SumFunction
<1> HIDE DEF j, a
<1>3. ASSUME NEW p \in Comp
      PROVE  f[p] \in Int /\ g[p] \in Int /\ h[p] = f[p] + g[p]
    <2> DEFINE b == Beta[i][j][p]
    <2>1. b \in Nat /\ b <= FastestDecay /\ (b <= NoDecayBelow => b = 0)
        BY <1>1, FastestIs DEF SlowIsNone
    <2>2. Unit \in Int /\ Decayed(Unit, b, a) \in Int
        <3>1. a <= MaxDuration
            BY <1>1, HawkesAssumption
        <3> HIDE DEF b
        <3>2. Decayed(Unit, b, a) \in Nat
            BY <1>1, <2>1, <3>1, UnitDecays
        <3> QED
            BY <3>2, FastestIs, HawkesAssumption, Exponents, TwoToType DEF Unit
    <2> HIDE DEF b
    <2>3. Mass(Unit, b, a + d) = Mass(Unit, b, a) + Mass(Decayed(Unit, b, a), b, d)
        BY <1>1, <2>1, MassGrows
    <2>4. Mass(Unit, b, a) \in Int /\ Mass(Decayed(Unit, b, a), b, d) \in Int
        BY <1>1, <2>1, <2>2, MassType
    <2>5. PICK c \in Int : c = Alpha[i][j][p]
        BY <1>1, HawkesAssumption
    <2>6. \A x, y \in Int : c * (x + y) = c * x + c * y
        OBVIOUS
    <2>7. /\ f[p] = c * Mass(Unit, b, a)
          /\ g[p] = c * Mass(Decayed(Unit, b, a), b, d)
          /\ h[p] = c * Mass(Unit, b, a + d)
        BY <1>1, <2>5 DEF b
    <2> HIDE DEF f, g, h
    <2>8. PICK x, y \in Int : x = Mass(Unit, b, a) /\ y = Mass(Decayed(Unit, b, a), b, d)
        BY <2>4
    <2>9. f[p] = c * x /\ g[p] = c * y /\ h[p] = c * (x + y)
        BY <2>3, <2>7, <2>8
    <2> QED
        BY <2>6, <2>9
<1>4. IsFiniteSet(Comp)
    BY HawkesAssumption
<1> HIDE DEF f, g, h
<1>5. Summable(f, Comp) /\ Summable(g, Comp)
    BY <1>3, <1>4 DEF Summable
<1>6. \A p \in Comp : h[p] = f[p] + g[p]
    BY <1>3
<1>7. SumFunctionOnSet(h, Comp) = SumFunctionOnSet(f, Comp) + SumFunctionOnSet(g, Comp)
    BY <1>5, <1>6, SumPlus
<1> QED
    BY <1>2, <1>7

\* What the likelihood charges dimension i for the tape es, in its own time.
Upto(i, es) == Compensator(i, ShiftToRelativeTime(es).events, ShiftToRelativeTime(es).T)

LEMMA UptoNothing == \A i \in Dim : Upto(i, << >>) = 0
<1> SUFFICES ASSUME NEW i \in Dim PROVE Upto(i, << >>) = 0
    OBVIOUS
<1>1. Upto(i, << >>) = Compensator(i, << >>, 0)
    BY DEF Upto, ShiftToRelativeTime
<1> DEFINE f == [k \in DOMAIN << >> |-> SumFunction([p \in Comp |->
                   Alpha[i][<< >>[k].mark][p] * Mass(Unit, Beta[i][<< >>[k].mark][p], 0 - << >>[k].t)])]
<1>2. Compensator(i, << >>, 0) = Background(i) * 0 + SumFunctionOnSet(f, {})
    BY DEF Compensator, Background, SumFunction
<1> HIDE DEF f
<1>3. SumFunctionOnSet(f, {}) = 0
    BY SumEmpty
<1>4. Background(i) * 0 = 0
    BY BackgroundType
<1> QED
    BY <1>1, <1>2, <1>3, <1>4

LEMMA SomeArrivals ==
    ASSUME NEW es \in Arrivals, es # << >>
    PROVE  /\ Len(es) \in Nat /\ Len(es) # 0 /\ DOMAIN es = 1 .. Len(es)
           /\ 1 \in DOMAIN es /\ Len(es) \in DOMAIN es
           /\ \A k \in DOMAIN es : es[k].t \in Int /\ es[k].mark \in Dim
<1>1. Len(es) \in Nat \ {0}
    BY EmptySeq DEF Arrivals
<1>2. DOMAIN es = 1 .. Len(es) /\ \A k \in DOMAIN es : es[k].t \in Int /\ es[k].mark \in Dim
    BY ArrivalTypes
<1> QED
    BY <1>1, <1>2

\* It does not matter when the tape began.
LEMMA UptoIs ==
    ASSUME NEW es \in Arrivals, es # << >>, NEW i \in Dim
    PROVE  Upto(i, es) = Background(i) * (es[Len(es)].t - es[1].t)
                           + SumFunctionOnSet(Charged(i, es, es[Len(es)].t), DOMAIN es)
<1> DEFINE n == Len(es)
           fs == ShiftToRelativeTime(es).events
           T == ShiftToRelativeTime(es).T
<1>1. /\ n \in Nat /\ n # 0 /\ DOMAIN es = 1 .. n /\ 1 \in DOMAIN es /\ n \in DOMAIN es
      /\ \A k \in DOMAIN es : es[k].t \in Int /\ es[k].mark \in Dim
    BY SomeArrivals
<1>2. /\ fs = [k \in DOMAIN es |-> [es[k] EXCEPT !.t = @ - es[1].t]]
      /\ T = es[n].t - es[1].t
    BY DEF ShiftToRelativeTime
<1>3. DOMAIN fs = DOMAIN es
    BY <1>2
<1>4. ASSUME NEW k \in DOMAIN es
      PROVE  fs[k].mark = es[k].mark /\ T - fs[k].t = es[n].t - es[k].t
    <2>1. es[k] \in [t : Int, mark : Dim]
        BY <1>1, ElementOfSeq DEF Arrivals
    <2>2. fs[k] = [es[k] EXCEPT !.t = @ - es[1].t]
        BY <1>2
    <2>3. fs[k].t = es[k].t - es[1].t /\ fs[k].mark = es[k].mark
        BY <2>1, <2>2
    <2> HIDE DEF fs, T, n
    <2> QED
        BY <1>1, <1>2, <2>3
<1> HIDE DEF fs, T, n
<1> DEFINE f == [k \in DOMAIN fs |-> SumFunction([p \in Comp |->
                   Alpha[i][fs[k].mark][p] * Mass(Unit, Beta[i][fs[k].mark][p], T - fs[k].t)])]
<1>5. Upto(i, es) = Background(i) * T + SumFunctionOnSet(f, DOMAIN fs)
    BY DEF Upto, Compensator, Background, SumFunction, fs, T
<1>6. f = Charged(i, es, es[n].t)
    <2>1. ASSUME NEW k \in DOMAIN es
          PROVE  SumFunction([p \in Comp |->
                     Alpha[i][fs[k].mark][p] * Mass(Unit, Beta[i][fs[k].mark][p], T - fs[k].t)])
                   = SumFunction([p \in Comp |->
                     Alpha[i][es[k].mark][p] * Mass(Unit, Beta[i][es[k].mark][p], es[n].t - es[k].t)])
        BY <1>4
    <2> QED
        BY <1>3, <2>1 DEF Charged
<1> HIDE DEF f
<1> QED
    BY <1>2, <1>3, <1>5, <1>6 DEF n

\* Between two arrivals the compensator grows by the contribution.
LEMMA UptoGrows ==
    ASSUME SlowIsNone, NEW es, NEW t, HistoryAt(es, t), es # << >>, es[Len(es)].t = t,
           NEW d \in Nat, NEW u, u = t + d, HistoryAt(es, u), NEW R, IsStateOf(R, es, t),
           NEW m \in Dim, NEW i \in Dim
    PROVE  /\ Upto(i, Append(es, [t |-> u, mark |-> m])) = Upto(i, es) + Contribution(R, i, d)
           /\ Upto(i, es) \in Int
<1> DEFINE n == Len(es)
           fs == Append(es, [t |-> u, mark |-> m])
<1>1. /\ HistoryAt(fs, u) /\ Len(fs) = n + 1 /\ DOMAIN fs = DOMAIN es \cup {n + 1}
      /\ n + 1 \notin DOMAIN es /\ \A k \in DOMAIN es : fs[k] = es[k]
      /\ fs[n + 1] = [t |-> u, mark |-> m]
    BY AppendedHistory
<1>2. /\ n \in Nat /\ n # 0 /\ DOMAIN es = 1 .. n /\ 1 \in DOMAIN es /\ IsFiniteSet(DOMAIN es)
      /\ \A k \in DOMAIN es : es[k].t \in Int /\ es[k].mark \in Dim
    BY ArrivalTypes, SomeArrivals DEF HistoryAt
<1>3. u \in Int /\ t \in Int /\ es \in Arrivals
    BY DEF HistoryAt
<1> HIDE DEF fs
<1> DEFINE a == Charged(i, es, t)
           g == Grown(i, es, t, d)
           b == Charged(i, es, u)
           c == Charged(i, fs, u)
<1>4. Upto(i, es) = Background(i) * (t - es[1].t) + SumFunctionOnSet(a, DOMAIN es)
    BY <1>3, UptoIs
<1>5. Upto(i, fs) = Background(i) * (u - es[1].t) + SumFunctionOnSet(c, DOMAIN fs)
    <2>1. fs \in Arrivals /\ fs # << >> /\ fs[Len(fs)].t = u /\ fs[1] = es[1]
        <3>1. fs \in Arrivals
            BY <1>1 DEF HistoryAt
        <3>2. fs # << >>
            BY <1>1, <1>2
        <3> QED
            BY <1>1, <1>2, <3>1, <3>2
    <2> QED
        BY <2>1, UptoIs
<1>6. /\ Contribution(R, i, d) = Background(i) * d + SumFunctionOnSet(g, DOMAIN es)
      /\ Summable(g, DOMAIN es)
    BY ContributionIs
<1>7. Summable(a, DOMAIN es) /\ Summable(c, DOMAIN fs)
    BY <1>1, ChargedType
<1>8. \A k \in DOMAIN es : b[k] = a[k] + g[k]
    BY ChargedGrows
<1>9. \A k \in DOMAIN es : c[k] = b[k]
    BY <1>1 DEF Charged
<1>10. c[n + 1] = 0
    <2> DEFINE f == [p \in Comp |-> Alpha[i][m][p] * Mass(Unit, Beta[i][m][p], u - u)]
    <2>1. c[n + 1] = SumFunctionOnSet(f, Comp)
        BY <1>1 DEF Charged, SumFunction
    <2>2. ASSUME NEW p \in Comp PROVE f[p] = 0
        <3>1. u - u = 0 /\ Beta[i][m][p] \in Nat /\ Alpha[i][m][p] \in Nat /\ Unit \in Int
            BY <1>3, FastestIs, HawkesAssumption, Exponents, TwoToType DEF Unit
        <3>2. Mass(Unit, Beta[i][m][p], 0) = 0
            BY <3>1, NoMass
        <3> QED
            BY <3>1, <3>2
    <2>3. IsFiniteSet(Comp)
        BY HawkesAssumption
    <2> HIDE DEF f
    <2> QED
        BY <2>1, <2>2, <2>3, SumZero
<1> HIDE DEF a, b, c, g
<1>11. Summable(b, DOMAIN es) /\ SumFunctionOnSet(b, DOMAIN es)
                                  = SumFunctionOnSet(a, DOMAIN es) + SumFunctionOnSet(g, DOMAIN es)
    <2>1. Summable(a, DOMAIN es) /\ Summable(g, DOMAIN es)
        BY <1>6, <1>7
    <2> HIDE DEF n
    <2> QED
        BY ONLY <2>1, <1>8, SumPlus
<1>12. SumFunctionOnSet(c, DOMAIN fs) = SumFunctionOnSet(b, DOMAIN es)
    <2>1. \A k \in DOMAIN es : b[k] = c[k]
        BY <1>9
    <2>2. Summable(c, DOMAIN es) /\ SumFunctionOnSet(b, DOMAIN es) = SumFunctionOnSet(c, DOMAIN es)
        BY <1>11, <2>1, SumSame
    <2>3. c[n + 1] \in Int /\ n + 1 \notin DOMAIN es
        BY <1>1, <1>10
    <2> HIDE DEF n
    <2>4. SumFunctionOnSet(c, DOMAIN es \cup {n + 1}) = SumFunctionOnSet(c, DOMAIN es) + c[n + 1]
        BY <2>2, <2>3, SumAdd
    <2>5. SumFunctionOnSet(c, DOMAIN es) \in Int
        BY <2>2, SumType
    <2> QED
        BY <1>1, <1>10, <2>2, <2>4, <2>5 DEF n
<1>13. PICK x, y, z \in Int : /\ x = SumFunctionOnSet(a, DOMAIN es)
                              /\ y = SumFunctionOnSet(g, DOMAIN es) /\ z = Background(i)
    BY <1>6, <1>7, SumType, BackgroundType
<1>14. PICK s \in Int : s = es[1].t
    BY <1>2
<1>15. z * (u - s) = z * (t - s) + z * d
    <2>1. u - s = (t - s) + d
        BY <1>3
    <2>2. z * ((t - s) + d) = z * (t - s) + z * d
        BY <1>3
    <2> QED
        BY <2>1, <2>2
<1>16. z * (t - s) \in Int /\ z * d \in Int
    BY <1>3
<1>17. Upto(i, fs) = Upto(i, es) + Contribution(R, i, d) /\ Upto(i, es) \in Int
    <2>1. Upto(i, es) = z * (t - s) + x
        BY <1>4, <1>13, <1>14
    <2>2. Upto(i, fs) = z * (u - s) + (x + y)
        BY <1>5, <1>11, <1>12, <1>13, <1>14
    <2>3. Contribution(R, i, d) = z * d + y
        BY <1>6, <1>13
    <2> QED
        BY <1>15, <1>16, <2>1, <2>2, <2>3
<1> QED
    BY <1>17 DEF fs

\* From the last arrival of es, where the state is R, to u.
Interval(es, t, d, u, R) ==
    /\ HistoryAt(es, t) /\ es # << >> /\ es[Len(es)].t = t
    /\ d \in Nat /\ u = t + d /\ HistoryAt(es, u) /\ IsStateOf(R, es, t)

LEMMA UptoGrowsFrom ==
    ASSUME SlowIsNone, NEW es, NEW t, NEW d, NEW u, NEW R, Interval(es, t, d, u, R),
           NEW m \in Dim, NEW i \in Dim
    PROVE  /\ Upto(i, Append(es, [t |-> u, mark |-> m])) = Upto(i, es) + Contribution(R, i, d)
           /\ Upto(i, es) \in Int
    BY UptoGrows DEF Interval

\* The first arrival starts the clock: nothing is charged yet.
LEMMA UptoFirst ==
    ASSUME NEW z, z = << >>, NEW t \in Int, NEW m \in Dim, NEW i \in Dim
    PROVE  /\ Upto(i, Append(z, [t |-> t, mark |-> m])) = 0
           /\ Contribution(NoR, i, 0) = 0
<1> DEFINE es == Append(z, [t |-> t, mark |-> m])
           c == Charged(i, es, t)
<1>0. HistoryAt(z, t)
    BY DEF HistoryAt, Arrivals
<1>1. /\ HistoryAt(es, t) /\ Len(es) = 1 /\ DOMAIN es = {1} /\ es[1] = [t |-> t, mark |-> m]
    <2>1. Len(z) = 0 /\ DOMAIN z = {}
        OBVIOUS
    <2>2. /\ HistoryAt(es, t) /\ Len(es) = Len(z) + 1
          /\ DOMAIN es = DOMAIN z \cup {Len(z) + 1}
          /\ es[Len(z) + 1] = [t |-> t, mark |-> m]
        BY ONLY <1>0, m \in Dim, AppendedHistory DEF es
    <2> HIDE DEF es
    <2> QED
        BY <2>1, <2>2
<1>2. es \in Arrivals /\ es # << >>
    BY <1>1 DEF HistoryAt
<1> HIDE DEF es
<1>3. Upto(i, es) = Background(i) * (t - t) + SumFunctionOnSet(c, {1})
    BY <1>1, <1>2, UptoIs
<1>4. c[1] = 0
    <2> DEFINE f == [p \in Comp |-> Alpha[i][m][p] * Mass(Unit, Beta[i][m][p], t - t)]
    <2>1. c[1] = SumFunctionOnSet(f, Comp)
        BY <1>1 DEF Charged, SumFunction
    <2>2. ASSUME NEW p \in Comp PROVE f[p] = 0
        <3>1. t - t = 0 /\ Beta[i][m][p] \in Nat /\ Alpha[i][m][p] \in Nat /\ Unit \in Int
            BY FastestIs, HawkesAssumption, Exponents, TwoToType DEF Unit
        <3>2. Mass(Unit, Beta[i][m][p], 0) = 0
            BY <3>1, NoMass
        <3> QED
            BY <3>1, <3>2
    <2>3. IsFiniteSet(Comp)
        BY HawkesAssumption
    <2> HIDE DEF f
    <2> QED
        BY <2>1, <2>2, <2>3, SumZero
<1> HIDE DEF c
<1>5. SumFunctionOnSet(c, {1}) = 0
    <2>1. IsFiniteSet({1}) /\ \A k \in {1} : c[k] = 0
        BY <1>4, FS_Singleton
    <2> QED
        BY <2>1, SumZero
<1>6. t - t = 0 /\ Background(i) * 0 = 0
    BY BackgroundType
<1>7. Contribution(NoR, i, 0) = 0
    <2>0. PICK d \in Nat : d = 0
        OBVIOUS
    <2> DEFINE g == Grown(i, z, t, d)
    <2>1. IsStateOf(NoR, z, t) /\ HistoryAt(z, t + d)
        BY <1>0, <2>0, NoHistory
    <2>2. Contribution(NoR, i, d) = Background(i) * d + SumFunctionOnSet(g, DOMAIN z)
        BY <1>0, <2>1, ContributionIs
    <2>3. DOMAIN z = {}
        OBVIOUS
    <2> HIDE DEF g
    <2> QED
        BY <1>6, <2>0, <2>2, <2>3, SumEmpty
<1> QED
    BY <1>3, <1>5, <1>6, <1>7 DEF es

LEMMA SumAppend ==
    ASSUME NEW q \in Seq(Int), NEW x \in Int
    PROVE  SumFunction(Append(q, x)) = SumFunction(q) + x
<1> DEFINE n == Len(q)
           r == Append(q, x)
<1>1. /\ n \in Nat /\ DOMAIN q = 1 .. n /\ IsFiniteSet(DOMAIN q) /\ n + 1 \notin DOMAIN q
      /\ \A k \in DOMAIN q : q[k] \in Int
    BY FS_Interval, ElementOfSeq
<1>2. DOMAIN r = DOMAIN q \cup {n + 1} /\ r[n + 1] = x /\ \A k \in DOMAIN q : q[k] = r[k]
    OBVIOUS
<1> HIDE DEF n, r
<1>3. Summable(q, DOMAIN q)
    BY <1>1 DEF Summable
<1>4. Summable(r, DOMAIN q) /\ SumFunctionOnSet(q, DOMAIN q) = SumFunctionOnSet(r, DOMAIN q)
    BY <1>2, <1>3, SumSame
<1>5. SumFunctionOnSet(r, DOMAIN q \cup {n + 1}) = SumFunctionOnSet(r, DOMAIN q) + r[n + 1]
    BY <1>1, <1>2, <1>4, SumAdd
<1> QED
    BY <1>2, <1>4, <1>5 DEF SumFunction, r

LEMMA SeqSumType ==
    ASSUME NEW q \in Seq(Int)
    PROVE  /\ SumFunction(q) \in Int
           /\ q = << >> => SumFunction(q) = 0
<1>1. DOMAIN q = 1 .. Len(q) /\ IsFiniteSet(DOMAIN q) /\ \A k \in DOMAIN q : q[k] \in Int
    BY FS_Interval, ElementOfSeq
<1>2. SumFunction(q) \in Int
    BY <1>1, SumType DEF SumFunction, Summable
<1>3. q = << >> => DOMAIN q = {}
    OBVIOUS
<1> QED
    BY <1>2, <1>3, SumEmpty DEF SumFunction

LEMMA MinIs ==
    ASSUME NEW S \in SUBSET Nat, S # {}
    PROVE  Min(S) \in S /\ \A x \in S : Min(S) <= x
<1>1. \E x \in S : \A y \in S : x <= y
    BY LeastNatural
<1> QED
    BY <1>1 DEF Min

\* Where the charge to dimension i begins: its first arrival.
Since(i, es) == IF OfMark(es, i) = {} THEN 0 ELSE Upto(i, SubSeq(es, 1, Min(OfMark(es, i))))

ResidInv ==
    /\ residuals.resid \in [Dim -> Seq(Int)] /\ residuals.running \in [Dim -> Int]
    /\ \A i \in Dim :
         /\ (i \in residuals.seen) <=> (OfMark(events, i) # {})
         /\ i \notin residuals.seen => residuals.resid[i] = << >>
         /\ Upto(i, events) \in Int /\ Since(i, events) \in Int
         /\ SumFunction(residuals.resid[i]) + residuals.running[i]
              = Upto(i, events) - Since(i, events)

LEMMA OfMarkGrows ==
    ASSUME NEW es \in Arrivals, NEW e \in [t : Int, mark : Dim], NEW i \in Dim
    PROVE  /\ OfMark(es, i) \subseteq 1 .. Len(es)
           /\ e.mark # i => OfMark(Append(es, e), i) = OfMark(es, i)
           /\ e.mark = i => OfMark(Append(es, e), i) = OfMark(es, i) \cup {Len(es) + 1}
<1> DEFINE n == Len(es)
           fs == Append(es, e)
           S == OfMark(es, i)
           T == OfMark(fs, i)
<1>1. /\ n \in Nat /\ DOMAIN es = 1 .. n /\ DOMAIN fs = 1 .. (n + 1)
      /\ \A k \in 1 .. n : fs[k] = es[k]
      /\ fs[n + 1] = e
    BY DEF Arrivals
<1> HIDE DEF fs, n
<1>2. \A k : k \in 1 .. (n + 1) <=> (k \in 1 .. n \/ k = n + 1)
    BY <1>1
<1>3. \A k : k \in S <=> (k \in 1 .. n /\ es[k].mark = i)
    BY <1>1 DEF OfMark
<1>4. \A k : k \in T <=> (k \in 1 .. (n + 1) /\ fs[k].mark = i)
    BY <1>1 DEF OfMark
<1>5. \A k : k \in T <=> (k \in S \/ (k = n + 1 /\ e.mark = i))
    BY <1>1, <1>2, <1>3, <1>4
<1> HIDE DEF S, T
<1>6. S \subseteq 1 .. n
    BY <1>3
<1>7. e.mark # i => T = S
    BY <1>5
<1>8. e.mark = i => T = S \cup {n + 1}
    BY <1>5
<1> QED
    BY <1>6, <1>7, <1>8 DEF S, T, n, fs

\* A further arrival leaves an earlier beginning where it was.
LEMMA SinceStays ==
    ASSUME NEW es \in Arrivals, NEW e \in [t : Int, mark : Dim], NEW i \in Dim,
           OfMark(es, i) # {} \/ e.mark # i
    PROVE  /\ Since(i, Append(es, e)) = Since(i, es)
           /\ OfMark(Append(es, e), i) = {} <=> OfMark(es, i) = {}
<1> DEFINE n == Len(es)
           fs == Append(es, e)
           S == OfMark(es, i)
           T == OfMark(fs, i)
<1>1. /\ n \in Nat /\ DOMAIN es = 1 .. n /\ DOMAIN fs = 1 .. (n + 1)
      /\ \A k \in 1 .. n : fs[k] = es[k]
      /\ fs[n + 1] = e
    BY DEF Arrivals
<1>2. /\ S \subseteq 1 .. n /\ S \subseteq T
      /\ \A k \in T : k \in S \/ (k = n + 1 /\ e.mark = i)
    BY OfMarkGrows
<1>3. (T = {}) <=> (S = {})
    BY <1>2
<1>4. CASE S = {}
    BY <1>3, <1>4 DEF Since
<1>5. CASE S # {}
    <2>1. S \in SUBSET Nat /\ T \in SUBSET Nat /\ T # {}
        BY <1>1, <1>2, <1>5
    <2> HIDE DEF S, T, fs, n
    <2>2. Min(S) \in S /\ (\A x \in S : Min(S) <= x) /\ Min(T) \in T /\ (\A x \in T : Min(T) <= x)
        BY <1>5, <2>1, MinIs
    <2>3. Min(T) = Min(S) /\ Min(S) \in 0 .. n
        <3>1. PICK x, y \in Nat : x = Min(S) /\ y = Min(T)
            BY <2>1, <2>2
        <3>2. x \in S /\ y \in T /\ x <= n
            BY <1>1, <1>2, <2>2, <3>1
        <3>5. y <= x
            BY <1>2, <2>2, <3>1, <3>2
        <3>3. y \in S
            BY <1>1, <1>2, <3>2, <3>5
        <3>4. x <= y
            BY <2>2, <3>1, <3>3
        <3> QED
            BY <1>1, <3>1, <3>2, <3>4, <3>5
    <2>4. SubSeq(fs, 1, Min(S)) = SubSeq(es, 1, Min(S))
        BY <2>3, PrefixOfAppend DEF Arrivals, fs, n
    <2>5. Since(i, es) = Upto(i, SubSeq(es, 1, Min(S)))
        BY <1>5 DEF Since, S
    <2>6. Since(i, fs) = Upto(i, SubSeq(fs, 1, Min(T)))
        BY <2>1 DEF Since, T
    <2> QED
        BY <1>3, <2>3, <2>4, <2>5, <2>6 DEF fs, S, T
<1> QED
    BY <1>3, <1>4, <1>5

\* The first arrival of a mark is where the charge begins.
LEMMA SinceBegins ==
    ASSUME NEW es \in Arrivals, NEW e \in [t : Int, mark : Dim], NEW i \in Dim,
           OfMark(es, i) = {}, e.mark = i
    PROVE  /\ Since(i, Append(es, e)) = Upto(i, Append(es, e))
           /\ OfMark(Append(es, e), i) # {}
<1> DEFINE n == Len(es)
           fs == Append(es, e)
           T == OfMark(fs, i)
<1>1. /\ n \in Nat /\ DOMAIN es = 1 .. n /\ DOMAIN fs = 1 .. (n + 1) /\ Len(fs) = n + 1
      /\ \A k \in 1 .. n : fs[k] = es[k]
      /\ fs[n + 1] = e /\ fs \in Arrivals
    BY DEF Arrivals
<1>2. T = {n + 1}
    <2>1. T = OfMark(es, i) \cup {n + 1}
        BY OfMarkGrows
    <2> HIDE DEF T, n
    <2> QED
        BY <2>1
<1> HIDE DEF T, fs, n
<1>3. Min(T) = n + 1
    <2>1. T \in SUBSET Nat /\ T # {}
        BY <1>1, <1>2
    <2>2. Min(T) \in T
        BY <2>1, MinIs
    <2> QED
        BY <1>2, <2>2
<1>4. SubSeq(fs, 1, n + 1) = fs
    BY <1>1, SubSeqFull DEF Arrivals
<1> QED
    BY <1>2, <1>3, <1>4 DEF Since, T, fs

\* An arrival, whatever its mark, adds the contribution to every compensator.
LEMMA ChargeGrows ==
    ASSUME SlowIsNone, RInv, NEW d \in Nat, NEW m \in Dim, NEW i \in Dim, NEW c, NEW C,
           c = IF residuals.any_prev THEN (now + d) - residuals.prev_t ELSE 0,
           C = Contribution(residuals.R, i, c), now + d <= Epoch + MaxDuration
    PROVE  /\ Upto(i, events) \in Int /\ C \in Int
           /\ Upto(i, Append(events, [t |-> now + d, mark |-> m])) = Upto(i, events) + C
<1>0. now \in Int /\ now + d \in Int /\ now <= now + d
    BY DEF RInv, TapeInv
<1>1. CASE events = << >>
    <2>1. residuals.any_prev = FALSE /\ residuals.R = NoR
        BY <1>1 DEF RInv, InStep
    <2>2. C = Contribution(NoR, i, 0)
        BY <2>1
    <2>3. PICK z : z = << >>
        OBVIOUS
    <2>4. PICK u \in Int : u = now + d
        BY <1>0
    <2>5. Upto(i, Append(z, [t |-> u, mark |-> m])) = 0 /\ Contribution(NoR, i, 0) = 0
        BY <2>3, UptoFirst
    <2>6. Upto(i, events) = 0
        BY <1>1, UptoNothing
    <2> QED
        BY <1>1, <2>2, <2>3, <2>4, <2>5, <2>6
<1>2. CASE events # << >>
    <2>1. /\ LastArrival.t \in Int /\ Epoch <= LastArrival.t /\ LastArrival.t <= now
        BY <1>2, LastIsKnown DEF RInv
    <2>2. PICK t \in Int : t = LastArrival.t
        BY <2>1
    <2>3. /\ residuals.any_prev = TRUE /\ residuals.prev_t = t /\ IsStateOf(residuals.R, events, t)
        BY <1>2, <2>2 DEF RInv, InStep
    <2>4. c = (now + d) - t /\ c \in Nat /\ t + c = now + d
        BY <1>0, <2>1, <2>2, <2>3
    <2>5. t <= Epoch + MaxDuration
        BY <1>0, <2>1, <2>2, HawkesAssumption
    <2>6. HistoryAt(events, t) /\ HistoryAt(events, t + c)
        <3>1. \A x \in Int : x <= Epoch + MaxDuration /\ t <= x => HistoryAt(events, x)
            BY <2>2, TapeIsHistory DEF RInv
        <3>2. t + c \in Int /\ t + c <= Epoch + MaxDuration /\ t <= t + c
            BY <2>4
        <3> QED
            BY <2>5, <3>1, <3>2
    <2>7. events[Len(events)].t = t
        BY <2>2 DEF LastArrival
    <2>8. /\ Upto(i, Append(events, [t |-> t + c, mark |-> m]))
               = Upto(i, events) + Contribution(residuals.R, i, c)
          /\ Upto(i, events) \in Int
        <3>1. PICK R, es, u : R = residuals.R /\ es = events /\ u = t + c
            OBVIOUS
        <3>2. Interval(es, t, c, u, R)
            BY <1>2, <2>3, <2>4, <2>6, <2>7, <3>1 DEF Interval
        <3>3. /\ Upto(i, Append(es, [t |-> u, mark |-> m])) = Upto(i, es) + Contribution(R, i, c)
              /\ Upto(i, es) \in Int
            BY ONLY SlowIsNone, m \in Dim, i \in Dim, <3>2, UptoGrowsFrom
        <3> QED
            BY <3>1, <3>3
    <2>9. Contribution(residuals.R, i, c) \in Int
        <3>1. /\ Contribution(residuals.R, i, c)
                   = Background(i) * c + SumFunctionOnSet(Grown(i, events, t, c), DOMAIN events)
              /\ Summable(Grown(i, events, t, c), DOMAIN events)
            BY <2>3, <2>4, <2>6, ContributionIs
        <3>2. SumFunctionOnSet(Grown(i, events, t, c), DOMAIN events) \in Int
            BY <3>1, SumType
        <3>3. Background(i) * c \in Int
            BY <2>4, BackgroundType
        <3> QED
            BY <3>1, <3>2, <3>3
    <2> QED
        BY <2>4, <2>8, <2>9
<1> QED
    BY <1>1, <1>2

LEMMA ArrivalResidInv ==
    ASSUME SlowIsNone, RInv, ResidInv, NEW d \in Nat, NEW m \in Dim, NEW twoSided \in BOOLEAN,
           now + d <= Epoch + MaxDuration, Arrival(d, m, twoSided)
    PROVE  ResidInv'
<1> DEFINE c == residuals
           t == now + d
           e == [t |-> t, mark |-> m]
           dt == IF c.any_prev THEN t - c.prev_t ELSE 0
           C(i) == Contribution(c.R, i, dt)
           run == [i \in Dim |-> c.running[i] + C(i)]
<1>1. /\ events' = Append(events, e)
      /\ residuals'.running = [run EXCEPT ![m] = 0]
      /\ residuals'.seen = c.seen \cup {m}
      /\ residuals'.resid = IF m \in c.seen THEN [c.resid EXCEPT ![m] = Append(@, run[m])] ELSE c.resid
    BY DEF Arrival, ResidualsStep
<1>2. events \in Arrivals /\ e \in [t : Int, mark : Dim] /\ e.mark = m
    BY DEF RInv, TapeInv
<1>3. \A i \in Dim : /\ Upto(i, events) \in Int /\ C(i) \in Int
                     /\ Upto(i, events') = Upto(i, events) + C(i)
    <2>1. ASSUME NEW i \in Dim
          PROVE  /\ Upto(i, events) \in Int /\ C(i) \in Int
                 /\ Upto(i, Append(events, e)) = Upto(i, events) + C(i)
        <3>1. PICK b : b = dt
            OBVIOUS
        <3>2. PICK x : x = Contribution(residuals.R, i, b)
            OBVIOUS
        <3>3. b = IF residuals.any_prev THEN (now + d) - residuals.prev_t ELSE 0
            BY ONLY <3>1 DEF dt, c, t
        <3>4. C(i) = x
            BY <3>1, <3>2
        <3>5. /\ Upto(i, events) \in Int /\ x \in Int
              /\ Upto(i, Append(events, [t |-> now + d, mark |-> m])) = Upto(i, events) + x
            BY ONLY SlowIsNone, RInv, d \in Nat, m \in Dim, i \in Dim, now + d <= Epoch + MaxDuration,
                    <3>2, <3>3, ChargeGrows
        <3> QED
            BY <3>4, <3>5
    <2> HIDE DEF C, e
    <2> QED
        BY <1>1, <2>1
<1>4. /\ c.resid \in [Dim -> Seq(Int)] /\ c.running \in [Dim -> Int]
      /\ \A i \in Dim :
           /\ (i \in c.seen) <=> (OfMark(events, i) # {})
           /\ i \notin c.seen => c.resid[i] = << >>
           /\ Since(i, events) \in Int
           /\ SumFunction(c.resid[i]) + c.running[i] = Upto(i, events) - Since(i, events)
    BY DEF ResidInv
<1> HIDE DEF e, C, dt, c
<1>5. run \in [Dim -> Int] /\ \A i \in Dim : run[i] = c.running[i] + C(i)
    BY <1>3, <1>4
<1> HIDE DEF run
<1>6. residuals'.running \in [Dim -> Int] /\ residuals'.resid \in [Dim -> Seq(Int)]
    <2>1. residuals'.running \in [Dim -> Int]
        BY <1>1, <1>5
    <2>2. run[m] \in Int /\ c.resid[m] \in Seq(Int)
        BY <1>4, <1>5
    <2>3. Append(c.resid[m], run[m]) \in Seq(Int)
        BY <2>2
    <2>4. residuals'.resid \in [Dim -> Seq(Int)]
        BY <1>1, <1>4, <2>3
    <2> QED
        BY <2>1, <2>4
<1>7. ASSUME NEW i \in Dim
      PROVE  /\ (i \in residuals'.seen) <=> (OfMark(events', i) # {})
             /\ i \notin residuals'.seen => residuals'.resid[i] = << >>
             /\ Upto(i, events') \in Int /\ Since(i, events') \in Int
             /\ SumFunction(residuals'.resid[i]) + residuals'.running[i]
                  = Upto(i, events') - Since(i, events')
    <2>1. PICK x, y, s, r \in Int : /\ x = Upto(i, events) /\ y = C(i)
                                    /\ s = Since(i, events) /\ r = c.running[i]
        BY <1>3, <1>4
    <2>2. Upto(i, events') = x + y /\ run[i] = r + y
        BY <1>3, <1>5, <2>1
    <2>3. SumFunction(c.resid[i]) + r = x - s
        BY <1>4, <2>1
    <2>4. CASE i # m
        <3>1. residuals'.running[i] = run[i] /\ residuals'.resid[i] = c.resid[i]
            BY <1>1, <1>4, <1>5, <2>4
        <3>2. Since(i, events') = s /\ (OfMark(events', i) = {} <=> OfMark(events, i) = {})
            BY <1>1, <1>2, <2>1, <2>4, SinceStays
        <3>3. i \in residuals'.seen <=> i \in c.seen
            BY <1>1, <2>4
        <3>4. SumFunction(c.resid[i]) \in Int
            BY <1>4, SeqSumType
        <3>5. SumFunction(residuals'.resid[i]) + residuals'.running[i]
                = Upto(i, events') - Since(i, events')
            BY <2>2, <2>3, <3>1, <3>2, <3>4
        <3>6. /\ (i \in residuals'.seen) <=> (OfMark(events', i) # {})
              /\ i \notin residuals'.seen => residuals'.resid[i] = << >>
            BY <1>4, <3>1, <3>2, <3>3
        <3> QED
            BY <2>2, <3>2, <3>5, <3>6
    <2>5. CASE i = m /\ i \notin c.seen
        <3>1. residuals'.running[i] = 0 /\ residuals'.resid[i] = c.resid[i] /\ i \in residuals'.seen
            BY <1>1, <1>5, <2>5
        <3>2. OfMark(events, i) = {} /\ c.resid[i] = << >>
            BY <1>4, <2>5
        <3>3. Since(i, events') = Upto(i, events') /\ OfMark(events', i) # {}
            BY <1>1, <1>2, <2>5, <3>2, SinceBegins
        <3>4. SumFunction(c.resid[i]) = 0
            <4>1. c.resid[i] \in Seq(Int)
                BY <1>4
            <4> QED
                BY <3>2, <4>1, SeqSumType
        <3>5. residuals'.resid[i] = c.resid[i] /\ Since(i, events') = x + y
            BY <2>2, <3>1, <3>3
        <3> QED
            BY <2>2, <3>1, <3>3, <3>4, <3>5
    <2>6. CASE i = m /\ i \in c.seen
        <3>1. residuals'.running[i] = 0 /\ i \in residuals'.seen
            BY <1>1, <1>5, <2>6
        <3>2. residuals'.resid[i] = Append(c.resid[i], r + y)
            BY <1>1, <1>4, <2>2, <2>6
        <3>3. c.resid[i] \in Seq(Int) /\ r + y \in Int
            BY <1>4
        <3>4. /\ SumFunction(residuals'.resid[i]) = SumFunction(c.resid[i]) + (r + y)
              /\ SumFunction(c.resid[i]) \in Int
            BY <3>2, <3>3, SumAppend, SeqSumType
        <3>5. OfMark(events, i) # {}
            BY <1>4, <2>6
        <3>6. Since(i, events') = s /\ OfMark(events', i) # {}
            BY <1>1, <1>2, <2>1, <3>5, SinceStays
        <3> QED
            BY <2>2, <2>3, <3>1, <3>4, <3>6
    <2> QED
        BY <2>4, <2>5, <2>6
<1> QED
    BY <1>6, <1>7 DEF ResidInv

LEMMA InitResidInv == HKInit => ResidInv
<1> SUFFICES ASSUME HKInit PROVE ResidInv
    OBVIOUS
<1>1. PICK z : z = << >>
    OBVIOUS
<1>2. /\ events = z /\ residuals.seen = {}
      /\ residuals.running = [i \in Dim |-> 0] /\ residuals.resid = [i \in Dim |-> z]
    BY <1>1 DEF HKInit
<1>3. z \in Seq(Int) /\ SumFunction(z) = 0
    <2>1. z \in Seq(Int)
        BY <1>1
    <2> QED
        BY <1>1, <2>1, SeqSumType
<1>4. ASSUME NEW i \in Dim PROVE OfMark(z, i) = {} /\ Upto(i, z) = 0 /\ Since(i, z) = 0
    <2>1. DOMAIN z = {}
        BY <1>1
    <2>2. OfMark(z, i) = {}
        BY <2>1 DEF OfMark
    <2> QED
        BY <1>1, <2>2, UptoNothing DEF Since
<1> QED
    BY <1>1, <1>2, <1>3, <1>4 DEF ResidInv

LEMMA StepResidInv ==
    ASSUME SlowIsNone, RInv, ResidInv, [HKNext]_hkVars
    PROVE  ResidInv'
<1>1. CASE UNCHANGED <<events, residuals>>
    BY <1>1 DEF ResidInv, OfMark, Since, Upto
<1>2. ASSUME NEW d \in 0 .. MaxGap, NEW twoSided \in BOOLEAN, NEW m \in Dim,
             now + d <= Epoch + MaxDuration, Arrival(d, m, twoSided)
      PROVE  ResidInv'
    <2>1. d \in Nat
        BY HawkesAssumption
    <2> QED
        BY <1>2, <2>1, ArrivalResidInv
<1> QED
    BY <1>1, <1>2 DEF HKNext, Quote, hkVars

LEMMA ResidualTotals ==
    ASSUME RInv, ResidInv
    PROVE  ResidualsAreTheCompensator
<1> DEFINE prefix(k) == SubSeq(events, 1, k)
           upto(i, k) == Compensator(i, ShiftToRelativeTime(prefix(k)).events,
                                        ShiftToRelativeTime(prefix(k)).T)
<1>1. \A i \in Dim, k \in Int : upto(i, k) = Upto(i, prefix(k))
    BY DEF Upto
<1>2. prefix(Len(events)) = events /\ Len(events) \in Int
    BY SubSeqFull DEF RInv, TapeInv, Arrivals
<1> HIDE DEF upto
<1>3. ASSUME NEW i \in Dim
      PROVE  SumFunction(residuals.resid[i]) + residuals.running[i]
               = upto(i, Len(events))
                   - (IF OfMark(events, i) = {} THEN 0 ELSE upto(i, Min(OfMark(events, i))))
    <2> DEFINE S == OfMark(events, i)
    <2>1. upto(i, Len(events)) = Upto(i, events)
        BY <1>1, <1>2
    <2>2. (IF S = {} THEN 0 ELSE upto(i, Min(S))) = Since(i, events)
        <3>1. CASE S = {}
            BY <3>1 DEF Since
        <3>2. CASE S # {}
            <4>1. S \in SUBSET Nat
                BY ArrivalTypes DEF RInv, TapeInv, OfMark
            <4>2. Min(S) \in Int
                <5> HIDE DEF S
                <5>1. Min(S) \in S
                    BY <3>2, <4>1, MinIs
                <5>2. \A x \in S : x \in Int
                    BY <4>1
                <5> QED
                    BY <5>1, <5>2
            <4> QED
                BY <1>1, <3>2, <4>2 DEF Since
        <3> QED
            BY <3>1, <3>2
    <2> HIDE DEF S
    <2> QED
        BY <2>1, <2>2 DEF ResidInv, S
<1> QED
    BY <1>3 DEF ResidualsAreTheCompensator, OfMark, upto

\* The residuals of a mark, with what is running towards its next one, add up
\* to the compensator that the likelihood charges from the mark's first
\* arrival on: time is integrated once, piece by piece, although the pieces
\* are cut where other marks arrive and the clock starts with the tape. It
\* takes SlowIsNone: a positive decay that is integrated as none would be
\* charged in full by the one and not by the other.
THEOREM ResidualsAddUp == SlowIsNone => (HKSpec => []ResidualsAreTheCompensator)
<1> SUFFICES ASSUME SlowIsNone PROVE HKSpec => []ResidualsAreTheCompensator
    OBVIOUS
<1>1. HKInit => RInv /\ RecursionIsTheSum /\ ResidInv
    BY InitRInv, InitResidInv
<1>2. RInv /\ RecursionIsTheSum /\ ResidInv /\ [HKNext]_hkVars
        => RInv' /\ RecursionIsTheSum' /\ ResidInv'
    BY StepRInv, StepResidInv
<1>3. RInv /\ ResidInv => ResidualsAreTheCompensator
    BY ResidualTotals
<1> QED
    BY <1>1, <1>2, <1>3, PTL DEF HKSpec
=============================================================================
