-------------------------- MODULE PortfolioProofs --------------------------
(***************************************************************************)
(* The PnL decomposition of portfolio.hpp is exact for every sequence of   *)
(* fills and marks, whatever the prices, quantities and mids.              *)
(***************************************************************************)
EXTENDS Portfolio, WellFoundedInduction, TLAPS

\* One timeline: the position that earns directional PnL is the position held,
\* and at the reference mid the two components are all there is.
OneTimeline ==
    /\ ref_position = position
    /\ cash + position * ref_mid = directional + spread

Amounts ==
    /\ position \in Int /\ cash \in Int
    /\ directional \in Int /\ spread \in Int
    /\ ref_mid \in Int /\ last_mark \in Int

\* Until the first fill or mark has set a reference mid nothing is held.
NothingBeforeTheClock == ~has_ref => position = 0 /\ directional = 0

DecompositionInv == Amounts /\ NothingBeforeTheClock /\ OneTimeline

\* Moving the reference mid from r to m is paid for by the directional PnL.
LEMMA ClockIdentity ==
    ASSUME NEW c \in Int, NEW p \in Int, NEW r \in Int, NEW d \in Int, NEW s \in Int,
           NEW m \in Int,
           c + p * r = d + s
    PROVE  c + p * m = (d + p * (m - r)) + s
OBVIOUS

\* A change of position by q at price x costs what the edge over the mid pays.
LEMMA FillIdentity ==
    ASSUME NEW c \in Int, NEW p \in Int, NEW d \in Int, NEW s \in Int,
           NEW m \in Int, NEW q \in Int, NEW x \in Int,
           c + p * m = d + s
    PROVE  (c - q * x) + (p + q) * m = d + (s + q * (m - x))
OBVIOUS

\* The clock's step, before the fill that may come with it.
LEMMA ClockAdvances ==
    ASSUME DecompositionInv, NEW mid \in Int, AdvanceClock(mid)
    PROVE  /\ directional' \in Int /\ ref_mid' = mid /\ has_ref'
           /\ cash + position * mid = directional' + spread
<1>1. CASE has_ref
  <2>1. directional' = directional + position * (mid - ref_mid)
    BY <1>1 DEF AdvanceClock, DecompositionInv, OneTimeline
  <2>2. cash + position * mid = (directional + position * (mid - ref_mid)) + spread
    BY ClockIdentity DEF DecompositionInv, Amounts, OneTimeline
  <2>3. directional + position * (mid - ref_mid) \in Int
    BY DEF DecompositionInv, Amounts
  <2>. QED BY <2>1, <2>2, <2>3 DEF AdvanceClock
<1>2. CASE ~has_ref
  <2>1. position = 0 /\ directional = 0 /\ directional' = directional
    BY <1>2 DEF DecompositionInv, NothingBeforeTheClock, AdvanceClock
  <2>2. cash = directional + spread
    BY <2>1 DEF DecompositionInv, Amounts, OneTimeline
  <2>. QED BY <2>1, <2>2 DEF AdvanceClock, DecompositionInv, Amounts
<1>. QED BY <1>1, <1>2

\* The edge of a fill times its quantity, as a signed quantity times a distance.
LEMMA EdgeIsSigned ==
    ASSUME NEW f \in Fills, NEW mid \in Int
    PROVE  /\ Signed(f) \in Int /\ 2 * f.price \in Int
           /\ Edge(f, mid) * f.qty = Signed(f) * (mid - 2 * f.price)
<1>1. f.price \in Int /\ f.qty \in Int /\ f.side \in {"Buy", "Sell"}
  <2>1. f.price \in FillPrice /\ f.qty \in FillQty /\ f.side \in {"Buy", "Sell"}
    BY DEF Fills
  <2>2. FillPrice \subseteq Int /\ FillQty \subseteq Int
    BY FillAssumption
  <2>. QED BY <2>1, <2>2
<1>2. CASE f.side = "Buy"
  BY <1>1, <1>2 DEF Edge, Signed
<1>3. CASE f.side = "Sell"
  BY <1>1, <1>3 DEF Edge, Signed
<1>. QED BY <1>1, <1>2, <1>3

LEMMA FillKeeps ==
    ASSUME DecompositionInv, NEW f \in Fills, NEW mid \in Mid, OnFill(f, mid)
    PROVE  DecompositionInv'
<1>. DEFINE q == Signed(f)
            x == 2 * f.price
<1>1. mid \in Int /\ mid > 0
  BY MidAssumption
<1>2. AdvanceClock(mid) /\ RecordEdge(f, mid)
  BY <1>1 DEF OnFill
<1>3. /\ directional' \in Int /\ ref_mid' = mid /\ has_ref'
      /\ cash + position * mid = directional' + spread
  BY <1>1, <1>2, ClockAdvances
<1>4. q \in Int /\ x \in Int /\ spread' = spread + q * (mid - x)
  BY <1>1, <1>2, EdgeIsSigned DEF RecordEdge
<1>5. /\ cash' = cash - q * x /\ position' = position + q
      /\ ref_position' = position' /\ last_mark' = last_mark
  BY DEF OnFill
<1>. HIDE DEF q, x
<1>6. position \in Int /\ cash \in Int /\ spread \in Int /\ last_mark \in Int
  BY DEF DecompositionInv, Amounts
<1>7. PICK d \in Int : directional' = d /\ cash + position * mid = d + spread
  BY <1>3
<1>8. (cash - q * x) + (position + q) * mid = d + (spread + q * (mid - x))
  BY <1>1, <1>4, <1>6, <1>7, FillIdentity
<1>9. OneTimeline'
  BY <1>3, <1>4, <1>5, <1>7, <1>8 DEF OneTimeline
<1>10. q * x \in Int /\ q * (mid - x) \in Int
  BY <1>1, <1>4
<1>11. Amounts'
  BY <1>1, <1>3, <1>4, <1>5, <1>6, <1>10 DEF Amounts
<1>. QED BY <1>3, <1>9, <1>11 DEF DecompositionInv, NothingBeforeTheClock

LEMMA MarkKeeps ==
    ASSUME DecompositionInv, NEW mid \in Mid, OnMark(mid)
    PROVE  DecompositionInv'
<1>1. mid \in Int
  BY MidAssumption
<1>2. /\ directional' \in Int /\ ref_mid' = mid /\ has_ref'
      /\ cash + position * mid = directional' + spread
  BY <1>1, ClockAdvances DEF OnMark
<1>3. /\ position' = position /\ cash' = cash /\ spread' = spread
      /\ ref_position' = ref_position /\ last_mark' = mid
  BY DEF OnMark, ledger, edges
<1>. QED BY <1>1, <1>2, <1>3
         DEF DecompositionInv, Amounts, OneTimeline, NothingBeforeTheClock

\* The invariant behind the decomposition holds throughout.
THEOREM DecompositionHolds == PFSpec => []DecompositionInv
<1>1. PFInit => DecompositionInv
  BY DEF PFInit, DecompositionInv, Amounts, OneTimeline, NothingBeforeTheClock
<1>2. DecompositionInv /\ [PFNext]_pfVars => DecompositionInv'
  <2>. SUFFICES ASSUME DecompositionInv, [PFNext]_pfVars PROVE DecompositionInv'
    OBVIOUS
  <2>1. CASE \E f \in Fills, mid \in Mid : n_fills < MaxFills /\ OnFill(f, mid)
    BY <2>1, FillKeeps
  <2>2. CASE \E mid \in Mid : OnMark(mid)
    BY <2>2, MarkKeeps
  <2>3. CASE UNCHANGED pfVars
    BY <2>3 DEF pfVars, ledger, clock, edges, DecompositionInv, Amounts, OneTimeline,
                NothingBeforeTheClock
  <2>. QED BY <2>1, <2>2, <2>3 DEF PFNext
<1>. QED BY <1>1, <1>2, PTL DEF PFSpec

\* Whatever the order of fills and marks, what directional and spread PnL leave
\* of the total is the move since the last mark (portfolio.hpp lines 117-120).
THEOREM DecompositionIsExact == PFSpec => []ResidualIsUnmarkedMove
<1>1. DecompositionInv => ResidualIsUnmarkedMove
  <2>. SUFFICES ASSUME DecompositionInv PROVE ResidualIsUnmarkedMove
    OBVIOUS
  <2>1. position * (last_mark - ref_mid) = position * last_mark - position * ref_mid
    BY DEF DecompositionInv, Amounts
  <2>. QED BY <2>1 DEF DecompositionInv, Amounts, OneTimeline,
                       ResidualIsUnmarkedMove, Residual
<1>. QED BY <1>1, DecompositionHolds, PTL

(***************************************************************************)
(* Fractions in lowest terms.                                              *)
(***************************************************************************)
Divisors(n, d) == {k \in 1 .. d : n % k = 0 /\ d % k = 0}

\* 1 divides both and d bounds them: there is a greatest common divisor.
LEMMA GreatestDivisor ==
    ASSUME NEW n \in Int, NEW d \in Nat \ {0}
    PROVE  Max(Divisors(n, d)) \in Divisors(n, d)
<1>1. 1 \in Divisors(n, d)
  BY DEF Divisors
<1>. DEFINE R == {ss \in Nat \X Nat : ss[1] < ss[2]}
            T == {x \in Nat : x <= d /\ d - x \in Divisors(n, d)}
<1>2. IsWellFoundedOn(R, Nat)
  BY NatLessThanWellFounded DEF OpToRel
<1>3. T \subseteq Nat /\ d - 1 \in T
  BY <1>1
<1>4. PICK x \in T : \A y \in T : ~ (<<y, x>> \in R)
  <2>. HIDE DEF R, T
  <2>. QED BY <1>2, <1>3, WFMin
<1>5. d - x \in Divisors(n, d) /\ x \in Nat
  OBVIOUS
<1>6. ASSUME NEW y \in Divisors(n, d)
      PROVE  d - x >= y
  <2>1. y \in Int /\ d - y \in Nat /\ d - y <= d /\ d - (d - y) = y
    BY DEF Divisors
  <2>2. d - y \in T
    BY <2>1
  <2>3. ~ (d - y < x)
    BY <1>4, <1>5, <2>1, <2>2
  <2>. QED BY <1>5, <2>1, <2>3
<1>. QED BY <1>5, <1>6 DEF Max

\* Whatever n and d > 0, Ratio(n, d) is the fraction n/d.
LEMMA RatioIs ==
    ASSUME NEW n \in Int, NEW d \in Nat \ {0}
    PROVE  /\ Ratio(n, d).num \in Int /\ Ratio(n, d).den \in Nat \ {0}
           /\ Ratio(n, d).num * d = n * Ratio(n, d).den
<1>1. PICK g : g = Max(Divisors(n, d))
  OBVIOUS
<1>2. g \in 1 .. d /\ n % g = 0 /\ d % g = 0
  BY <1>1, GreatestDivisor DEF Divisors
<1>3. Ratio(n, d) = [num |-> n \div g, den |-> d \div g]
  BY <1>1 DEF Ratio, Divisors
<1>4. PICK p, q : p = n \div g /\ q = d \div g
  OBVIOUS
<1>5. p \in Int /\ q \in Int
  BY <1>2, <1>4
<1>6. n = g * p /\ d = g * q
  BY <1>2, <1>4
<1>7. q > 0
  BY <1>2, <1>5, <1>6
<1>8. p * d = n * q
  <2>1. p * (g * q) = (g * p) * q
    BY <1>2, <1>5
  <2>. QED BY <1>6, <2>1
<1>. QED BY <1>3, <1>4, <1>5, <1>7, <1>8

(***************************************************************************)
(* The algebra of a fill of q units at x, a position p with average an/ad, *)
(* cash c and realised PnL rn/rd.                                          *)
(***************************************************************************)
LEMMA Cancelling ==
    ASSUME NEW k \in Int, NEW x \in Int, NEW y \in Int, k # 0, k * x = k * y
    PROVE  x = y
<1>1. k * (x - y) = 0
  OBVIOUS
<1>. QED BY <1>1

\* The position grows: the new average is weighted by the quantities.
LEMMA GrowIdentity ==
    ASSUME NEW rn \in Int, NEW rd \in Int, NEW an \in Int, NEW ad \in Int,
           NEW an2 \in Int, NEW ad2 \in Int,
           NEW p \in Int, NEW q \in Int, NEW c \in Int, NEW x \in Int, ad # 0,
           rn * ad + p * (0 - an) * rd = c * rd * ad,
           an2 * (ad * (p + q)) = (an * p + x * q * ad) * ad2
    PROVE  rn * ad2 + (p + q) * (0 - an2) * rd = (c - q * x) * rd * ad2
<1>1. PICK e \in Int, f \in Int :
         /\ e = rn * ad2 + (p + q) * (0 - an2) * rd
         /\ f = (c - q * x) * rd * ad2
  OBVIOUS
<1>2. ad * e = (rn * ad) * ad2 - (an2 * (ad * (p + q))) * rd
  BY <1>1
<1>3. rn * ad = c * rd * ad + p * an * rd
  OBVIOUS
<1>4. ad * e = (c * rd * ad + p * an * rd) * ad2 - ((an * p + x * q * ad) * ad2) * rd
  BY <1>2, <1>3
<1>5. (c * rd * ad + p * an * rd) * ad2 - ((an * p + x * q * ad) * ad2) * rd
        = ad * ((c - q * x) * rd * ad2)
  OBVIOUS
<1>6. ad * e = ad * f
  BY <1>1, <1>4, <1>5
<1>. QED BY <1>1, <1>6, Cancelling

\* Part of the position is closed: its average stays.
LEMMA ReduceIdentity ==
    ASSUME NEW rn \in Int, NEW rd \in Int, NEW an \in Int, NEW ad \in Int,
           NEW rn2 \in Int, NEW rd2 \in Int,
           NEW p \in Int, NEW q \in Int, NEW c \in Int, NEW x \in Int, rd # 0,
           rn * ad + p * (0 - an) * rd = c * rd * ad,
           rn2 * (rd * ad) = (rn * ad - q * (x * ad - an) * rd) * rd2
    PROVE  rn2 * ad + (p + q) * (0 - an) * rd2 = (c - q * x) * rd2 * ad
<1>1. PICK e \in Int, f \in Int :
         /\ e = rn2 * ad + (p + q) * (0 - an) * rd2
         /\ f = (c - q * x) * rd2 * ad
  OBVIOUS
<1>2. rd * e = rn2 * (rd * ad) - (p + q) * an * rd2 * rd
  BY <1>1
<1>3. rn * ad = c * rd * ad + p * an * rd
  OBVIOUS
<1>4. rd * e = ((c * rd * ad + p * an * rd) - q * (x * ad - an) * rd) * rd2
                 - (p + q) * an * rd2 * rd
  BY <1>2, <1>3
<1>5. ((c * rd * ad + p * an * rd) - q * (x * ad - an) * rd) * rd2 - (p + q) * an * rd2 * rd
        = rd * ((c - q * x) * rd2 * ad)
  OBVIOUS
<1>6. rd * e = rd * f
  BY <1>1, <1>4, <1>5
<1>. QED BY <1>1, <1>6, Cancelling

\* The position is closed and what is left of the fill opens the other side.
LEMMA FlipIdentity ==
    ASSUME NEW rn \in Int, NEW rd \in Int, NEW an \in Int, NEW ad \in Int,
           NEW rn2 \in Int, NEW rd2 \in Int, NEW an2 \in Int, NEW ad2 \in Int,
           NEW p \in Int, NEW q \in Int, NEW c \in Int, NEW x \in Int, rd * ad # 0,
           rn * ad + p * (0 - an) * rd = c * rd * ad,
           rn2 * (rd * ad) = (rn * ad + p * (x * ad - an) * rd) * rd2,
           an2 = x * ad2
    PROVE  rn2 * ad2 + (p + q) * (0 - an2) * rd2 = (c - q * x) * rd2 * ad2
<1>1. rn * ad = c * rd * ad + p * an * rd
  OBVIOUS
<1>2. rn2 * (rd * ad) = ((c * rd * ad + p * an * rd) + p * (x * ad - an) * rd) * rd2
  BY <1>1
<1>3. ((c * rd * ad + p * an * rd) + p * (x * ad - an) * rd) * rd2
        = (rd * ad) * ((c + p * x) * rd2)
  OBVIOUS
<1>4. PICK k \in Int, y \in Int : k = rd * ad /\ y = (c + p * x) * rd2
  OBVIOUS
<1>5. k * rn2 = k * y
  BY <1>2, <1>3, <1>4
<1>6. rn2 = (c + p * x) * rd2
  BY <1>4, <1>5, Cancelling
<1>7. ((c + p * x) * rd2) * ad2 + (p + q) * (0 - x * ad2) * rd2 = (c - q * x) * rd2 * ad2
  OBVIOUS
<1>. QED BY <1>6, <1>7

(***************************************************************************)
(* Realised and unrealised PnL.                                            *)
(***************************************************************************)
IsFraction(r) == r.num \in Int /\ r.den \in Nat \ {0}

ValueInv ==
    /\ position \in Int /\ cash \in Int
    /\ IsFraction(avg_px) /\ IsFraction(realized)
    /\ RealizedAndUnrealizedAddUp

\* What a fill does to the two fractions, in its three cases.
FillCase(x, q, an2, ad2, rn2, rd2) ==
    LET an == avg_px.num
        ad == avg_px.den
        rn == realized.num
        rd == realized.den
    IN  \/ /\ rn2 = rn /\ rd2 = rd
           /\ an2 * (ad * (position + q)) = (an * position + x * q * ad) * ad2
        \/ /\ an2 = an /\ ad2 = ad
           /\ rn2 * (rd * ad) = (rn * ad - q * (x * ad - an) * rd) * rd2
        \/ /\ an2 = x * ad2
           /\ rn2 * (rd * ad) = (rn * ad + position * (x * ad - an) * rd) * rd2

\* The average of a position that grows, whichever side it is on.
LEMMA AverageGrows ==
    ASSUME ValueInv, NEW x \in Int, NEW q \in Int, q # 0, ~Opposed(q)
    PROVE  /\ IsFraction(Averaged(x, q))
           /\ Averaged(x, q).num * (avg_px.den * (position + q))
                = (avg_px.num * position + x * q * avg_px.den) * Averaged(x, q).den
<1>1. PICK an, ad, a, b : /\ an = avg_px.num /\ ad = avg_px.den
                          /\ a = Abs(position) /\ b = Abs(q)
  OBVIOUS
<1>2. /\ an \in Int /\ ad \in Nat \ {0} /\ a \in Nat /\ b \in Nat \ {0}
      /\ position \in Int
  BY <1>1 DEF ValueInv, IsFraction, Abs
<1>3. PICK n, d : n = an * a + x * b * ad /\ d = ad * (a + b)
  OBVIOUS
<1>4. n \in Int /\ d \in Nat \ {0}
  <2>1. a + b \in Nat \ {0}
    BY <1>2
  <2>2. ad * (a + b) \in Nat \ {0}
    <3>1. PICK k : k = a + b
      OBVIOUS
    <3>2. ad * k \in Nat \ {0}
      BY <1>2, <2>1, <3>1
    <3>. QED BY <3>1, <3>2
  <2>. QED BY <1>2, <1>3, <2>2
<1>5. Averaged(x, q) = Ratio(n, d)
  BY <1>1, <1>3 DEF Averaged
<1>6. PICK an2, ad2 : an2 = Ratio(n, d).num /\ ad2 = Ratio(n, d).den
  OBVIOUS
<1>7. an2 \in Int /\ ad2 \in Nat \ {0} /\ an2 * d = n * ad2
  BY <1>4, <1>6, RatioIs
<1>8. an2 * (ad * (a + b)) = (an * a + x * b * ad) * ad2
  BY <1>3, <1>7
<1>9. an2 * (ad * (position + q)) = (an * position + x * q * ad) * ad2
  <2>1. CASE a = position /\ b = q
    BY <1>8, <2>1
  <2>2. CASE a = 0 - position /\ b = 0 - q
    <3>1. an2 * (ad * (a + b)) = 0 - an2 * (ad * (position + q))
      BY <1>2, <1>7, <2>2
    <3>2. (an * a + x * b * ad) * ad2 = 0 - (an * position + x * q * ad) * ad2
      BY <1>2, <1>7, <2>2
    <3>3. PICK u \in Int, v \in Int :
             /\ u = an2 * (ad * (position + q))
             /\ v = (an * position + x * q * ad) * ad2
      BY <1>2, <1>7
    <3>. QED BY <1>8, <3>1, <3>2, <3>3
  <2>3. (a = position /\ b = q) \/ (a = 0 - position /\ b = 0 - q)
    BY <1>1, <1>2 DEF Opposed, Abs
  <2>. QED BY <2>1, <2>2, <2>3
<1>. QED BY <1>1, <1>5, <1>6, <1>7, <1>9 DEF IsFraction

\* What is realised when a fill of q units meets a position of the other side.
LEMMA RealizedOnClose ==
    ASSUME ValueInv, NEW x \in Int, NEW q \in Int, Opposed(q)
    PROVE  /\ IsFraction(Realized(x, q))
           /\ LET an == avg_px.num
                  ad == avg_px.den
                  rn == realized.num
                  rd == realized.den
                  closed == IF Abs(q) > Abs(position) THEN 0 - position ELSE q
              IN  Realized(x, q).num * (rd * ad)
                    = (rn * ad - closed * (x * ad - an) * rd) * Realized(x, q).den
<1>1. PICK an, ad, rn, rd : /\ an = avg_px.num /\ ad = avg_px.den
                            /\ rn = realized.num /\ rd = realized.den
  OBVIOUS
<1>2. /\ an \in Int /\ ad \in Nat \ {0} /\ rn \in Int /\ rd \in Nat \ {0}
      /\ position \in Int
  BY <1>1 DEF ValueInv, IsFraction
<1>3. PICK closing, gain, closed :
         /\ closing = Lesser(Abs(q), Abs(position))
         /\ gain = IF position > 0 THEN x * ad - an ELSE an - x * ad
         /\ closed = IF Abs(q) > Abs(position) THEN 0 - position ELSE q
  OBVIOUS
<1>4. closing \in Int /\ gain \in Int /\ closed \in Int
  BY <1>2, <1>3 DEF Lesser, Abs
<1>5. gain * closing = 0 - closed * (x * ad - an)
  <2>1. CASE position > 0
    <3>1. closing = 0 - closed
      BY <1>2, <1>3, <2>1 DEF Lesser, Abs, Opposed
    <3>. QED BY <1>2, <1>3, <1>4, <2>1, <3>1
  <2>2. CASE ~(position > 0)
    <3>1. closing = closed
      BY <1>2, <1>3, <2>2 DEF Lesser, Abs, Opposed
    <3>. QED BY <1>2, <1>3, <1>4, <2>2, <3>1
  <2>. QED BY <2>1, <2>2
<1>6. PICK n, d : n = rn * ad + gain * closing * rd /\ d = rd * ad
  OBVIOUS
<1>7. n \in Int /\ d \in Nat \ {0}
  BY <1>2, <1>4, <1>6
<1>8. n = rn * ad - closed * (x * ad - an) * rd
  BY <1>2, <1>4, <1>5, <1>6
<1>9. Realized(x, q) = Ratio(n, d)
  BY <1>1, <1>3, <1>6 DEF Realized
<1>10. /\ Ratio(n, d).num \in Int /\ Ratio(n, d).den \in Nat \ {0}
       /\ Ratio(n, d).num * d = n * Ratio(n, d).den
  BY <1>7, RatioIs
<1>. QED BY <1>1, <1>3, <1>6, <1>8, <1>9, <1>10 DEF IsFraction

LEMMA FillCases ==
    ASSUME ValueInv, NEW x \in Int, NEW q \in Int, q # 0
    PROVE  /\ IsFraction(Averaged(x, q)) /\ IsFraction(Realized(x, q))
           /\ FillCase(x, q, Averaged(x, q).num, Averaged(x, q).den,
                             Realized(x, q).num, Realized(x, q).den)
<1>1. CASE ~Opposed(q)
  <2>1. Realized(x, q) = realized
    BY <1>1 DEF Realized
  <2>2. IsFraction(realized)
    BY DEF ValueInv
  <2>. QED BY <1>1, <2>1, <2>2, AverageGrows DEF FillCase
<1>2. CASE Opposed(q) /\ ~(Abs(q) > Abs(position))
  <2>1. Averaged(x, q) = avg_px
    BY <1>2 DEF Averaged
  <2>2. IsFraction(avg_px)
    BY DEF ValueInv
  <2>. QED BY <1>2, <2>1, <2>2, RealizedOnClose DEF FillCase
<1>3. CASE Opposed(q) /\ Abs(q) > Abs(position)
  <2>1. Averaged(x, q) = Ratio(x, 1)
    BY <1>3 DEF Averaged
  <2>2. /\ Ratio(x, 1).num \in Int /\ Ratio(x, 1).den \in Nat \ {0}
        /\ Ratio(x, 1).num = x * Ratio(x, 1).den
    <3>1. /\ Ratio(x, 1).num \in Int /\ Ratio(x, 1).den \in Nat \ {0}
          /\ Ratio(x, 1).num * 1 = x * Ratio(x, 1).den
      BY RatioIs
    <3>. QED BY <3>1
  <2>3. /\ IsFraction(Realized(x, q))
        /\ Realized(x, q).num * (realized.den * avg_px.den)
             = (realized.num * avg_px.den
                  - (0 - position) * (x * avg_px.den - avg_px.num) * realized.den)
                 * Realized(x, q).den
    BY <1>3, RealizedOnClose
  <2>4. realized.num * avg_px.den
          - (0 - position) * (x * avg_px.den - avg_px.num) * realized.den
          = realized.num * avg_px.den
              + position * (x * avg_px.den - avg_px.num) * realized.den
    BY DEF ValueInv, IsFraction
  <2>. QED BY <2>1, <2>2, <2>3, <2>4 DEF FillCase, IsFraction
<1>. QED BY <1>1, <1>2, <1>3

LEMMA FillAddsUp ==
    ASSUME ValueInv, NEW f \in Fills, NEW mid \in Mid, OnFill(f, mid)
    PROVE  ValueInv'
<1>1. PICK x, q : x = 2 * f.price /\ q = Signed(f)
  OBVIOUS
<1>2. x \in Int /\ q \in Int /\ q # 0
  <2>1. f.price \in FillPrice /\ f.qty \in FillQty /\ f.side \in {"Buy", "Sell"}
    BY DEF Fills
  <2>2. f.price \in Int /\ f.qty \in Nat \ {0}
    BY <2>1, FillAssumption
  <2>. QED BY <1>1, <2>1, <2>2 DEF Signed
<1>3. /\ realized' = Realized(x, q) /\ avg_px' = Averaged(x, q)
      /\ cash' = cash - q * x /\ position' = position + q
  BY <1>1 DEF OnFill
<1>4. PICK an2, ad2, rn2, rd2 :
         /\ an2 = Averaged(x, q).num /\ ad2 = Averaged(x, q).den
         /\ rn2 = Realized(x, q).num /\ rd2 = Realized(x, q).den
  OBVIOUS
<1>5. PICK an, ad, rn, rd, p, c :
         /\ an = avg_px.num /\ ad = avg_px.den /\ rn = realized.num /\ rd = realized.den
         /\ p = position /\ c = cash
  OBVIOUS
<1>6. /\ an2 \in Int /\ ad2 \in Nat \ {0} /\ rn2 \in Int /\ rd2 \in Nat \ {0}
      /\ FillCase(x, q, an2, ad2, rn2, rd2)
  BY <1>2, <1>4, FillCases DEF IsFraction
<1>7. /\ an \in Int /\ ad \in Nat \ {0} /\ rn \in Int /\ rd \in Nat \ {0}
      /\ p \in Int /\ c \in Int
      /\ rn * ad + p * (0 - an) * rd = c * rd * ad
  BY <1>5 DEF ValueInv, IsFraction, RealizedAndUnrealizedAddUp
<1>8. rn2 * ad2 + (p + q) * (0 - an2) * rd2 = (c - q * x) * rd2 * ad2
  <2>1. CASE rn2 = rn /\ rd2 = rd /\ an2 * (ad * (p + q)) = (an * p + x * q * ad) * ad2
    BY <1>2, <1>6, <1>7, <2>1, GrowIdentity
  <2>2. CASE an2 = an /\ ad2 = ad
             /\ rn2 * (rd * ad) = (rn * ad - q * (x * ad - an) * rd) * rd2
    BY <1>2, <1>6, <1>7, <2>2, ReduceIdentity
  <2>3. CASE an2 = x * ad2
             /\ rn2 * (rd * ad) = (rn * ad + p * (x * ad - an) * rd) * rd2
    <3>1. rd * ad # 0
      BY <1>7
    <3>. QED BY <1>2, <1>6, <1>7, <2>3, <3>1, FlipIdentity
  <2>. QED BY <1>5, <1>6, <2>1, <2>2, <2>3 DEF FillCase
<1>9. RealizedAndUnrealizedAddUp'
  BY <1>3, <1>4, <1>5, <1>8 DEF RealizedAndUnrealizedAddUp
<1>10. position' \in Int /\ cash' \in Int
  BY <1>2, <1>3, <1>5, <1>7
<1>11. IsFraction(avg_px') /\ IsFraction(realized')
  BY <1>3, <1>4, <1>6 DEF IsFraction
<1>. QED BY <1>9, <1>10, <1>11 DEF ValueInv

\* Through averaging in, partial closes and flips through zero, in any order and
\* for all prices and quantities, realised plus unrealised PnL at the average
\* price is the cash spent: on_fill's bookkeeping loses nothing (portfolio.hpp,
\* on_fill, realized(), unrealized(), pnl()).
THEOREM ProfitAddsUp == PFSpec => []RealizedAndUnrealizedAddUp
<1>1. PFInit => ValueInv
  BY DEF PFInit, ValueInv, IsFraction, Zero, RealizedAndUnrealizedAddUp
<1>2. ValueInv /\ [PFNext]_pfVars => ValueInv'
  <2>. SUFFICES ASSUME ValueInv, [PFNext]_pfVars PROVE ValueInv'
    OBVIOUS
  <2>1. CASE \E f \in Fills, mid \in Mid : n_fills < MaxFills /\ OnFill(f, mid)
    BY <2>1, FillAddsUp
  <2>2. CASE \E mid \in Mid : OnMark(mid)
    BY <2>2 DEF OnMark, ledger, ValueInv, IsFraction, RealizedAndUnrealizedAddUp
  <2>3. CASE UNCHANGED pfVars
    BY <2>3 DEF pfVars, ledger, ValueInv, IsFraction, RealizedAndUnrealizedAddUp
  <2>. QED BY <2>1, <2>2, <2>3 DEF PFNext
<1>3. ValueInv => RealizedAndUnrealizedAddUp
  BY DEF ValueInv
<1>. QED BY <1>1, <1>2, <1>3, PTL DEF PFSpec
=============================================================================
