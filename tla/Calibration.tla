----------------------------- MODULE Calibration ----------------------------
(***************************************************************************)
(* calibrate_hawkes from its start to the files: the fit of HawkesFit runs *)
(* inside a run of CalibrationFiles, which can stop in the middle of it.   *)
(* Each run constructs a MultivariateHawkes of its own, so no state of an  *)
(* earlier fit remains.                                                    *)
(***************************************************************************)
EXTENDS HawkesFit, CalibrationFiles

VARIABLE fitted     \* history: [runs that reached their result -> it]

calVars == <<fitVars, cfVars, fitted>>

CalInit == FitInit /\ CFInit /\ fitted = << >>

\* A MultivariateHawkes of this run's own, where fit_mle starts from.
NewFit ==
    /\ params' \in Params
    /\ lls' = << >>
    /\ patience_counter' = 0
    /\ res' = [iterations |-> 0, converged |-> FALSE, final_ll |-> 0, spectral_radius |-> 0]
    /\ done' = FALSE

StartCalibration == StartRun /\ NewFit /\ UNCHANGED fitted

FitStep == pc = "Replay" /\ FitNext /\ UNCHANGED <<cfVars, fitted>>

FitDone == Fit /\ done /\ fitted' = Put(fitted, run, res) /\ UNCHANGED fitVars

\* Too few arrivals are noticed before the fit begins.
TooFew == GiveUp /\ lls = << >> /\ UNCHANGED <<fitVars, fitted>>

CalNext ==
    \/ StartCalibration
    \/ FitStep
    \/ FitDone
    \/ TooFew
    \/ (Persist \/ Crash \/ Second \/ RunBacktest \/ ReplaceLatest)
         /\ UNCHANGED <<fitVars, fitted>>

CalSpec == CalInit /\ [][CalNext]_calVars

(***************************************************************************)
(* Properties.                                                             *)
(***************************************************************************)

\* What a backtest loads from a run of the calibration is the result of a fit
\* that ended, with a stable branching matrix, also when the run after it
\* crashed in its own fit.
LoadedIsAStableFit ==
    loaded.outcome = "Loaded" /\ loaded.from.run # 0 =>
        /\ loaded.from.run \in DOMAIN fitted
        /\ fitted[loaded.from.run].iterations = MaxIters \/ fitted[loaded.from.run].converged
        /\ fitted[loaded.from.run].spectral_radius \in 1 .. 97

\* What a backtest loads, wherever runs stopped: one run's finished fit, whole,
\* with its dated copy.
LoadedIsAFinishedRun == LoadedIsAStableFit /\ ReadsAWholeCalibration /\ LoadedHasItsCopy
=============================================================================
