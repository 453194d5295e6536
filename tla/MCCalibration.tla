---------------------------- MODULE MCCalibration ---------------------------
(***************************************************************************)
(* Two runs of Calibration.  The log-likelihoods are such that some are    *)
(* close to each other and some only in one direction (the tolerance is    *)
(* relative to the earlier one); the foreign file is a copied calibration. *)
(***************************************************************************)
EXTENDS Calibration

Likelihoods == {-16, -12, 0}

Copied == {[run |-> 0, fields |-> 17, junk |-> 0]}
=============================================================================
