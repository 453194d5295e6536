------------------------------ MODULE HawkesFit ------------------------------
(***************************************************************************)
(* The control of fit_mle in hawkes.hpp: the projection into the stable    *)
(* region, the tolerance that has to hold Patience times in a row, and     *)
(* what the result says.  Where Adam's step leads is arbitrary: a          *)
(* parameter vector is its log-likelihood and, in hundredths, the spectral *)
(* radius of its branching matrix.                                         *)
(***************************************************************************)
EXTENDS Integers, Sequences

CONSTANTS
    MaxIters, Patience,
    LogLik,         \* the log-likelihoods there are, integers
    Radius,         \* the spectral radii there are, in hundredths
    InverseTol      \* 1 / tol

ASSUME FitAssumption ==
    /\ MaxIters \in Nat /\ Patience \in Nat \ {0} /\ InverseTol \in Nat \ {0}
    /\ LogLik \subseteq Int /\ Radius \subseteq Nat

VARIABLES
    params,     \* mu_ and alpha_: [ll, radius]
    lls,        \* g.ll of every iteration so far
    patience_counter,
    res,        \* [iterations, converged, final_ll, spectral_radius]
    done

fitVars == <<params, lls, patience_counter, res, done>>

Params == [ll : LogLik, radius : Radius \cup {95}]

\* The starting point, alpha 1e-4 everywhere, may have any radius: it is
\* divided by decays of any scale.
FitInit ==
    /\ params \in Params
    /\ lls = << >>
    /\ patience_counter = 0
    /\ res = [iterations |-> 0, converged |-> FALSE, final_ll |-> 0, spectral_radius |-> 0]
    /\ done = FALSE

Abs(x) == IF x >= 0 THEN x ELSE 0 - x
AtLeastOne(x) == IF x >= 1 THEN x ELSE 1

\* Mutant: the first log-likelihood is compared with 0.
CloseToZero(ll) ==
    LET prev == IF lls = << >> THEN 0 ELSE lls[Len(lls)]
    IN  Abs(ll - prev) * InverseTol < AtLeastOne(Abs(prev))

\* |g.ll - prev_ll| < tol * max(1, |prev_ll|).  At first prev_ll is -1e300,
\* which nothing is close to.
Close(ll) ==
    /\ lls # << >>
    /\ Abs(ll - lls[Len(lls)]) * InverseTol < AtLeastOne(Abs(lls[Len(lls)]))

\* Mutant: a projected step is only scaled back half way.
HalfProjected(p) ==
    IF p.radius >= 98 THEN {[ll |-> l, radius |-> (p.radius + 95) \div 2] : l \in LogLik} ELSE {p}

\* Scaled by 0.95 / sr when the radius is 0.98 or more; what that does to the
\* likelihood is open.
Projected(p) == IF p.radius >= 98 THEN {[ll |-> l, radius |-> 95] : l \in LogLik} ELSE {p}

PatienceAfter(ll) == IF Close(ll) THEN patience_counter + 1 ELSE 0

\* One iteration: the gradient is taken at params, the step moves them.
Iterate ==
    /\ ~done /\ Len(lls) < MaxIters /\ ~res.converged
    /\ \E step \in Params : params' \in Projected(step)
    /\ lls' = Append(lls, params.ll)
    /\ patience_counter' = PatienceAfter(params.ll)
    /\ res' = [res EXCEPT !.iterations = Len(lls'),
                          !.converged = patience_counter' >= Patience]
    /\ UNCHANGED done

Finish ==
    /\ ~done /\ (Len(lls) = MaxIters \/ res.converged)
    /\ done' = TRUE
    /\ res' = [res EXCEPT !.final_ll = IF lls = << >> THEN @ ELSE lls[Len(lls)],
                          !.spectral_radius = params.radius]
    /\ UNCHANGED <<params, lls, patience_counter>>

FitNext == Iterate \/ Finish

FitSpec == FitInit /\ [][FitNext]_fitVars

(***************************************************************************)
(* Properties.                                                             *)
(***************************************************************************)
Changed(k) == ~(Abs(lls[k] - lls[k - 1]) * InverseTol < AtLeastOne(Abs(lls[k - 1])))

\* converged = true is only reported when each of the last Patience iterations
\* moved the likelihood by less than the tolerance, and so never within the
\* first Patience iterations.
ConvergedMeansPlateau ==
    res.converged =>
        /\ res.iterations > Patience
        /\ \A k \in (res.iterations - Patience + 1) .. res.iterations : ~Changed(k)

\* Whatever the optimiser does, the parameters are stable after every
\* iteration, whichever way the loop ends.
AlwaysStable ==
    lls # << >> => params.radius < 98 /\ (done => res.spectral_radius < 98)
=============================================================================
