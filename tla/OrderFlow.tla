----------------------------- MODULE OrderFlow ------------------------------
(***************************************************************************)
(* OFI on the books an engine can produce and on any books, one of the two *)
(* in each behaviour; the variables of the other rest.                     *)
(*   replay   CalibrationReplay: the tape of a market                      *)
(*   stream   OfiStream: a book that changes level by level                *)
(***************************************************************************)
EXTENDS CalibrationReplay, OfiStream

VARIABLE subject

flowVars == <<crVars, osVars, subject>>

FlowInit == CRInit /\ OSInit /\ subject \in {"replay", "stream"}

FlowNext ==
    /\ UNCHANGED subject
    /\ \/ subject = "replay" /\ CRNext /\ UNCHANGED osVars
       \/ subject = "stream" /\ OSNext /\ UNCHANGED crVars

FlowSpec == FlowInit /\ [][FlowNext]_flowVars

(***************************************************************************)
(* Each property is about one of the two and explained where it is defined.*)
(***************************************************************************)

\* Growth of the bids and depletion of the asks push OFI up, never down, and a
\* book that goes back to where it was takes back what it signalled.
OfiFollowsTheBook == subject = "stream" => GrowthPushesUp /\ ReversalCancels

\* What the calibration regresses on what: a signal from before the trade, and
\* the move of the mid from there.
RegressionIsCausal == subject = "replay" => SamplesSeeThePast /\ PairsUseLatestMids
=============================================================================
