----------------------------- MODULE Analytics -------------------------------
(***************************************************************************)
(* The drawdown of analytics.hpp on an equity curve that grows mark by     *)
(* mark, and the percentile of bootstrap_ci.cpp on the same values.  A     *)
(* ratio is the pair of its numerator and its positive denominator.        *)
(***************************************************************************)
EXTENDS Integers, Sequences, SequencesExt, FiniteSets, FiniteSetsExt

CONSTANTS
    Equities,   \* values the equity may have at a mark
    MaxMarks    \* bound on the curve

AnalyticsAssumption == Equities \subseteq Int /\ MaxMarks \in Nat

VARIABLE curve      \* the curve as a sequence of equities

ANInit == curve = << >>

Mark(e) == Len(curve) < MaxMarks /\ curve' = Append(curve, e)

ANNext == \E e \in Equities : Mark(e)

ANSpec == ANInit /\ [][ANNext]_curve

(***************************************************************************)
(* Ratios.                                                                 *)
(***************************************************************************)
Above(a, b) == a[1] * b[2] > b[1] * a[2]
AtLeast(a, b) == a[1] * b[2] >= b[1] * a[2]
Larger(a, b) == IF Above(b, a) THEN b ELSE a

(***************************************************************************)
(* Drawdown.                                                               *)
(***************************************************************************)

\* Mutant: the decline is relative to the value it ends at.
DeclineOfTrough(peak, e) == <<peak - e, IF e > 0 THEN e ELSE peak>>

Decline(peak, e) == <<peak - e, peak>>

\* One iteration of max_drawdown; peak is -1e300 at first: the least equity here.
DrawdownStep(acc, e) ==
    LET peak == Max({acc.peak, e})
    IN  [peak |-> peak,
         mdd  |-> IF peak > 0 THEN Larger(acc.mdd, Decline(peak, e)) ELSE acc.mdd]

max_drawdown(c) ==
    FoldLeft(DrawdownStep, [peak |-> Min(Equities), mdd |-> <<0, 1>>], c).mdd

(***************************************************************************)
(* Percentiles, for p = pn / pd.                                           *)
(***************************************************************************)

Sorted(v) == SortSeq(v, LAMBDA x, y : x < y)

\* v[lo] * (1 - frac) + v[hi] * frac, times pd.
percentile(v, pn, pd) ==
    LET s == Sorted(v)
        idx == pn * (Len(v) - 1)
        lo == idx \div pd
        hi == Min({lo + 1, Len(v) - 1})
        frac == idx % pd
    IN  s[lo + 1] * (pd - frac) + s[hi + 1] * frac

(***************************************************************************)
(* Properties.                                                             *)
(***************************************************************************)

Indices == 1 .. Len(curve)

\* Line 62, "largest peak-to-trough decline": no value of the curve lies
\* further below an earlier positive one, relative to it, than the drawdown
\* says, while equity is not negative; and some pair of values is that far
\* apart.  The scan keeps one peak, so a deep trough under a peak that a
\* later one replaced must not be lost, nor measured from the later one.
DrawdownIsTheWorstDecline ==
    LET mdd == max_drawdown(curve)
        Pairs == {p \in Indices \X Indices : p[1] <= p[2] /\ curve[p[1]] > 0}
    IN  /\ \A p \in Pairs : curve[p[2]] >= 0
                              => AtLeast(mdd, <<curve[p[1]] - curve[p[2]], curve[p[1]]>>)
        /\ mdd[1] > 0 => \E p \in Pairs :
                            mdd[1] * curve[p[1]] = mdd[2] * (curve[p[1]] - curve[p[2]])

\* The bootstrap's confidence bounds: the value at pn/pd has at least that
\* share of the sample at or below it and the rest at or above it, and bounds
\* of a wider level lie outside those of a narrower one.
PercentileSplits ==
    curve # << >> =>
        \A pn \in 0 .. 4 :
            LET v == percentile(curve, pn, 4)
                Below == {i \in Indices : 4 * curve[i] <= v}
                Over == {i \in Indices : 4 * curve[i] >= v}
            IN  /\ 4 * Cardinality(Below) >= pn * (Len(curve) - 1) + 1
                /\ 4 * Cardinality(Over) >= (4 - pn) * (Len(curve) - 1) + 1
                /\ pn > 0 => percentile(curve, pn - 1, 4) <= v
=============================================================================
