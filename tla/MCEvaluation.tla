----------------------------- MODULE MCEvaluation -----------------------------
(***************************************************************************)
(* What is computed over a finished tape or curve, one of the three in     *)
(* each behaviour; the variables of the others rest.                       *)
(*   bootstrap  three blocks over spans that divide evenly and spans that  *)
(*              do not, and pairs in blocks of two with one left over      *)
(*   curve      every curve over five values, a loss beyond the capital    *)
(*              among them                                                 *)
(*   fidelity   targets beyond the cap on both sides, so that a parent     *)
(*              order can be of any size up to twice the cap               *)
(***************************************************************************)
EXTENDS Fidelity

CONSTANTS Span, MaxArrivals, MaxMarks

VARIABLES
    subject,
    tape, n_pairs, slot, slot_start, resampled, drawn, branching,
    curve

BB == INSTANCE BlockBootstrap WITH NBlocks <- 3, MinArrivals <- 3, OfiBlock <- 2, MaxPairs <- 4

AN == INSTANCE Analytics WITH Equities <- {-4, 0, 4, 6, 9}

ASSUME EvaluationAssumption == BB!BootstrapAssumption /\ AN!AnalyticsAssumption

bootstrap == <<tape, n_pairs, slot, slot_start, resampled, drawn, branching>>
evaluationVars == <<subject, bootstrap, curve, fdVars>>

BootstrapAtRest ==
    /\ tape = <<0, 1>> /\ n_pairs = 1 /\ slot = 0 /\ slot_start = 0
    /\ resampled = << >> /\ drawn = << >> /\ branching = "none"

EvaluationInit ==
    /\ FDInit /\ AN!ANInit
    /\ \/ subject = "bootstrap" /\ BB!BBInit
       \/ subject \in {"curve", "fidelity"} /\ BootstrapAtRest

EvaluationNext ==
    /\ UNCHANGED subject
    /\ \/ subject = "bootstrap" /\ BB!BBNext /\ UNCHANGED <<curve, fdVars>>
       \/ subject = "curve" /\ AN!ANNext /\ UNCHANGED <<bootstrap, fdVars>>
       \/ subject = "fidelity" /\ FDNext /\ UNCHANGED <<bootstrap, curve>>

EvaluationSpec == EvaluationInit /\ [][EvaluationNext]_evaluationVars

Linear == [q \in 1 .. 2 * Cap |-> 1 + 2 * q]
Swings == {-5, -1, 0, 2, 9}

(***************************************************************************)
(* Each property is explained where it is defined; the others of this run  *)
(* are Fidelity's own.                                                     *)
(***************************************************************************)

\* Bootstrap: blocks are copied whole, at the gaps of the tape and within their
\* slot or chunk; the draw of every block in its place is the tape.
BlocksAreCopiedWhole ==
    BB!SlotsKeepStructure /\ BB!OrderlyDrawIsTheTape /\ BB!ChunksAreContiguous

\* Curve: max_drawdown is the worst decline over all pairs of marks, and a
\* percentile has its share of the sample on either side.
StatisticsAreDefinite == AN!DrawdownIsTheWorstDecline /\ AN!PercentileSplits
=============================================================================
