--------------------------- MODULE HawkesRecursion ---------------------------
(***************************************************************************)
(* The recursive state R of the sum-of-exponentials kernel, which the code *)
(* keeps three times over the same arrivals: in the likelihood and in the  *)
(* compensator residuals of hawkes.hpp, and live in hawkes_ofi_mm.hpp,     *)
(* where it also decays at events that are not arrivals.                   *)
(*                                                                         *)
(* Arithmetic is exact: time is in ticks, a kernel decays by two to the    *)
(* power of Beta per tick, and a new arrival counts for Unit.              *)
(***************************************************************************)
EXTENDS Integers, Sequences, SequencesExt, FiniteSetsExt, Functions

CONSTANTS
    Dim, Comp,      \* dimensions and kernel components
    Beta,           \* [Dim -> [Dim -> [Comp -> Nat]]]
    Mu, Alpha,      \* [Dim -> Nat], and as Beta
    NoDecayBelow,   \* the 1e-12 of the code: such a decay is integrated as none
    BetaScale,      \* a common multiple of the positive decays
    Epoch,          \* the raw time of the tape's start
    MaxDuration,    \* bound on the duration of the tape
    MaxGap,         \* bound on the time between two events
    MaxArrivals     \* bound on the arrivals

Kernels == Dim \X Dim \X Comp

ASSUME HawkesAssumption ==
    /\ IsFiniteSet(Dim) /\ IsFiniteSet(Comp) /\ Kernels # {}
    /\ Beta \in [Dim -> [Dim -> [Comp -> Nat]]]
    /\ Mu \in [Dim -> Nat] /\ Alpha \in [Dim -> [Dim -> [Comp -> Nat]]]
    /\ NoDecayBelow \in Nat /\ BetaScale \in Nat
    /\ Epoch \in Nat /\ MaxDuration \in Nat /\ MaxGap \in Nat /\ MaxArrivals \in Nat
    /\ \A k \in Kernels :
         LET b == Beta[k[1]][k[2]][k[3]] IN b > 0 => BetaScale % b = 0

TwoTo[n \in Nat] == IF n = 0 THEN 1 ELSE 2 * TwoTo[n - 1]

FastestDecay == Max({Beta[k[1]][k[2]][k[3]] : k \in Kernels})

Unit == TwoTo[FastestDecay * MaxDuration]

\* r * exp(-b * dt).
Decayed(r, b, dt) == r \div TwoTo[b * dt]

\* The kernel's mass over dt, BetaScale times: (r / b) * (1 - exp(-b * dt)),
\* and r * dt for what the code takes not to decay.
Mass(r, b, dt) ==
    IF b <= NoDecayBelow THEN BetaScale * r * dt ELSE (BetaScale \div b) * (r - Decayed(r, b, dt))

NoR == [i \in Dim |-> [j \in Dim |-> [p \in Comp |-> 0]]]

DecayAll(R, dt) ==
    [i \in Dim |-> [j \in Dim |-> [p \in Comp |-> Decayed(R[i][j][p], Beta[i][j][p], dt)]]]

Marked(R, m) ==
    [i \in Dim |-> [R[i] EXCEPT ![m] = [p \in Comp |-> @[p] + Unit]]]

\* The sum over j and p of a double loop.
OverKernels(f) == SumFunction([j \in Dim |-> SumFunction(f[j])])

Intensity(R, i) ==
    Mu[i] * Unit + OverKernels([j \in Dim |-> [p \in Comp |-> Alpha[i][j][p] * R[i][j][p]]])

VARIABLES
    now,        \* raw time
    events,     \* arrivals so far, with raw times
    likelihood, \* the loop of log_likelihood_and_grad; lam: the last intensity
    residuals,  \* the loop of compensator_residuals
    online      \* R_, prev_t_ and have_prev_t_ of the strategy

hkVars == <<now, events, likelihood, residuals, online>>

HKInit ==
    /\ now = Epoch
    /\ events = << >>
    /\ likelihood = [R |-> NoR, any_prev |-> FALSE, prev_t |-> 0, lam |-> 0]
    /\ residuals = [R |-> NoR, any_prev |-> FALSE, prev_t |-> 0,
                    running |-> [i \in Dim |-> 0], seen |-> {}, resid |-> [i \in Dim |-> << >>]]
    /\ online = [R |-> NoR, have |-> FALSE, prev_t |-> 0]

\* Mutant: an arrival counts before its own intensity is read.
LikelihoodExcitesItself(l, t, m) ==
    LET R == Marked(IF l.any_prev THEN DecayAll(l.R, t - l.prev_t) ELSE l.R, m)
    IN  [R |-> R, any_prev |-> TRUE, prev_t |-> t, lam |-> Intensity(R, m)]

LikelihoodStep(l, t, m) ==
    LET R == IF l.any_prev THEN DecayAll(l.R, t - l.prev_t) ELSE l.R
    IN  [R |-> Marked(R, m), any_prev |-> TRUE, prev_t |-> t, lam |-> Intensity(R, m)]

\* What compensator i grows by between two arrivals.
Contribution(R, i, dt) ==
    Mu[i] * Unit * BetaScale * dt
      + OverKernels([j \in Dim |-> [p \in Comp |->
                       Alpha[i][j][p] * Mass(R[i][j][p], Beta[i][j][p], dt)]])

\* Mutant: R decays before it is integrated.
ResidualsDecayFirst(c, t, m) ==
    LET dt == IF c.any_prev THEN t - c.prev_t ELSE 0
        R == DecayAll(c.R, dt)
        run == [i \in Dim |-> c.running[i] + Contribution(R, i, dt)]
    IN  [R |-> Marked(R, m), any_prev |-> TRUE, prev_t |-> t,
         running |-> [run EXCEPT ![m] = 0],
         seen |-> c.seen \cup {m},
         resid |-> IF m \in c.seen THEN [c.resid EXCEPT ![m] = Append(@, run[m])] ELSE c.resid]

ResidualsStep(c, t, m) ==
    LET dt == IF c.any_prev THEN t - c.prev_t ELSE 0
        run == [i \in Dim |-> c.running[i] + Contribution(c.R, i, dt)]
    IN  [R |-> Marked(DecayAll(c.R, dt), m), any_prev |-> TRUE, prev_t |-> t,
         running |-> [run EXCEPT ![m] = 0],
         seen |-> c.seen \cup {m},
         resid |-> IF m \in c.seen THEN [c.resid EXCEPT ![m] = Append(@, run[m])] ELSE c.resid]

\* Mutant: the clock moves before the time passed is read.
ClockFirst(o, t) == [o EXCEPT !.have = TRUE, !.prev_t = t]

UpdateHawkesDecay(o, t) ==
    [R |-> IF o.have THEN DecayAll(o.R, t - o.prev_t) ELSE o.R, have |-> TRUE, prev_t |-> t]

MarkEvent(o, m) == [o EXCEPT !.R = Marked(@, m)]

\* on_market_data decays only when both sides of the book are there.
OnMarketData(o, t, twoSided) == IF twoSided THEN UpdateHawkesDecay(o, t) ELSE o

\* An event of the tape that is not a trade.
Quote(dt, twoSided) ==
    /\ now' = now + dt
    /\ online' = OnMarketData(online, now', twoSided)
    /\ UNCHANGED <<events, likelihood, residuals>>

Arrival(dt, m, twoSided) ==
    /\ Len(events) < MaxArrivals
    /\ now' = now + dt
    /\ events' = Append(events, [t |-> now', mark |-> m])
    /\ likelihood' = LikelihoodStep(likelihood, now', m)
    /\ residuals' = ResidualsStep(residuals, now', m)
    /\ online' = OnMarketData(MarkEvent(UpdateHawkesDecay(online, now'), m), now', twoSided)

HKNext ==
    \E dt \in 0 .. MaxGap, twoSided \in BOOLEAN :
        /\ now + dt <= Epoch + MaxDuration
        /\ Quote(dt, twoSided) \/ \E m \in Dim : Arrival(dt, m, twoSided)

HKSpec == HKInit /\ [][HKNext]_hkVars

\* shift_to_relative_time: the shifted arrivals, and T.
ShiftToRelativeTime(es) ==
    IF es = << >> THEN [events |-> es, T |-> 0]
    ELSE [events |-> [k \in DOMAIN es |-> [es[k] EXCEPT !.t = @ - es[1].t]],
          T |-> es[Len(es)].t - es[1].t]

\* What log_likelihood_and_grad subtracts for dimension i.
Compensator(i, es, T) ==
    Mu[i] * Unit * BetaScale * T
      + SumFunction([k \in DOMAIN es |-> SumFunction([p \in Comp |->
          Alpha[i][es[k].mark][p] * Mass(Unit, Beta[i][es[k].mark][p], T - es[k].t)])])

\* intensity_naive, over a whole history: the code takes what is before t.
KernelSum(i, t, hist) ==
    Mu[i] * Unit
      + SumFunction([k \in DOMAIN hist |-> SumFunction([p \in Comp |->
          Alpha[i][hist[k].mark][p] * Decayed(Unit, Beta[i][hist[k].mark][p], t - hist[k].t)])])

(***************************************************************************)
(* Properties.                                                             *)
(***************************************************************************)
History == SubSeq(events, 1, Len(events) - 1)
LastArrival == events[Len(events)]

\* The recursion counts every earlier arrival of the tape once, at the weight
\* of its age, those at the same time in full; never the arrival itself.
\* (intensity_naive, which test_hawkes.cpp compares it with, leaves arrivals
\* at the same time out; the test has none.)
RecursionIsTheSum ==
    events # << >> =>
        likelihood.lam = KernelSum(LastArrival.mark, LastArrival.t, History)

\* The live state, decayed at every event and whether or not the book was
\* two-sided, is what the offline recursion has for the same arrivals.
OnlineAgreesOffline ==
    IF events = << >> THEN online.R = NoR
    ELSE online.R = DecayAll(likelihood.R, online.prev_t - LastArrival.t)

\* The residuals of a mark add up to the compensator the likelihood charges
\* from its first arrival on: no time is integrated twice or left out, and it
\* does not matter when the tape started.
ResidualsAreTheCompensator ==
    \A i \in Dim :
        LET ofI == {k \in DOMAIN events : events[k].mark = i}
            upto(k) == LET s == ShiftToRelativeTime(SubSeq(events, 1, k))
                       IN  Compensator(i, s.events, s.T)
        IN  events # << >> =>
              SumFunction(residuals.resid[i]) + residuals.running[i]
                = upto(Len(events)) - (IF ofI = {} THEN 0 ELSE upto(Min(ofI)))
=============================================================================
