------------------------------ MODULE Fidelity -------------------------------
(***************************************************************************)
(* The three executions of validate_fidelity.cpp: one path of parent       *)
(* orders, filled at the mid (naive), with the drawn friction (live) and   *)
(* with the calibrated friction (model).  Mids, drawn costs and deviations *)
(* are arbitrary; prices and costs are in ticks.                           *)
(***************************************************************************)
EXTENDS Integers

CONSTANTS
    Mids,       \* mids in ticks
    Devs,       \* targets the deviation asks for, -dev * 45 rounded
    Cap,        \* bound on the target; 4000 in the code
    LiveCosts,  \* adverse selection plus slippage of a fill, per unit
    ModelCost,  \* [1 .. 2 * Cap -> Nat]: the same from the calibration, by size
    MaxSteps    \* bound on the path

ASSUME FidelityAssumption ==
    /\ Mids \subseteq Int /\ Devs \subseteq Int
    /\ Cap \in Nat \ {0} /\ MaxSteps \in Nat
    /\ LiveCosts \subseteq Nat
    /\ ModelCost \in [1 .. 2 * Cap -> Nat]

VARIABLES
    prev,                       \* the last target
    mid_ticks,
    pos_n, pos_l, pos_m,
    cash_n, cash_l, cash_m,
    steps,
    gross, cost_l, cost_m       \* for the properties: position times move, and friction paid

fdVars == <<prev, mid_ticks, pos_n, pos_l, pos_m, cash_n, cash_l, cash_m,
            steps, gross, cost_l, cost_m>>

FDInit ==
    /\ prev = 0 /\ mid_ticks = 0
    /\ pos_n = 0 /\ pos_l = 0 /\ pos_m = 0
    /\ cash_n = 0 /\ cash_l = 0 /\ cash_m = 0
    /\ steps = 0
    /\ gross = 0 /\ cost_l = 0 /\ cost_m = 0

Clamp(x) == IF x > Cap THEN Cap ELSE IF x < 0 - Cap THEN 0 - Cap ELSE x

Sgn(x) == IF x > 0 THEN 1 ELSE 0 - 1
Size(x) == IF x > 0 THEN x ELSE 0 - x

\* Mutant: friction raises the price of sells, too.
Upwards(mid, parent, cost) == 0 - Sgn(parent) * (mid + cost) * Size(parent)

\* What a fill adds to the cash: the price is the mid, worse by cost.
FillCash(mid, parent, cost) == 0 - Sgn(parent) * (mid + Sgn(parent) * cost) * Size(parent)

NoTrade(mid) ==
    /\ UNCHANGED <<pos_n, pos_l, pos_m, cash_n, cash_l, cash_m, cost_l, cost_m>>
    /\ gross' = gross + pos_n * (mid - mid_ticks)

Execute(mid, parent, live, model) ==
    /\ cash_n' = cash_n + FillCash(mid, parent, 0)
    /\ cash_l' = cash_l + FillCash(mid, parent, live)
    /\ cash_m' = cash_m + FillCash(mid, parent, model)
    /\ pos_n' = pos_n + parent /\ pos_l' = pos_l + parent /\ pos_m' = pos_m + parent
    /\ cost_l' = cost_l + live * Size(parent)
    /\ cost_m' = cost_m + model * Size(parent)
    /\ gross' = gross + pos_n * (mid - mid_ticks)

\* One step of the path and of the loop over it.
DecisionStep(mid, dev, live) ==
    LET target == Clamp(dev)
        parent == target - prev
    IN  /\ steps < MaxSteps
        /\ steps' = steps + 1
        /\ mid_ticks' = mid
        /\ prev' = target
        /\ IF parent = 0 THEN NoTrade(mid)
                         ELSE Execute(mid, parent, live, ModelCost[Size(parent)])

FDNext == \E mid \in Mids, dev \in Devs, live \in LiveCosts : DecisionStep(mid, dev, live)

FDSpec == FDInit /\ [][FDNext]_fdVars

\* The points of the three series.
pnl_n == cash_n + pos_n * mid_ticks
pnl_l == cash_l + pos_l * mid_ticks
pnl_m == cash_m + pos_m * mid_ticks

(***************************************************************************)
(* Properties.                                                             *)
(***************************************************************************)

\* Lines 8-11 and 27: the gross PnL is identical across the runs, and each
\* differs from it by the friction it paid and nothing else, at every mark of
\* every path, through reversals and flat spells.
OnlyFrictionDiffers ==
    /\ pnl_n = gross
    /\ pnl_l = gross - cost_l
    /\ pnl_m = gross - cost_m

\* The three runs hold what the strategy wants, which is bounded, so that no
\* parent order is larger than the calibration's sizes.
OnTarget ==
    /\ pos_n = prev /\ pos_l = prev /\ pos_m = prev
    /\ prev \in 0 - Cap .. Cap
=============================================================================
