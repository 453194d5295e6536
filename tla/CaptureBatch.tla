----------------------------- MODULE CaptureBatch ----------------------------
(***************************************************************************)
(* The scripts around a calibration: capture_loop.py runs the windows one  *)
(* after another, each a process of capture_kraken_ws.py with its          *)
(* reconnects, and process_all_captures.py, started now and then beside    *)
(* it, converts and calibrates what is there.  A capture file is as long   *)
(* as the time it was connected for; the connection, the calibration's     *)
(* outcome and the gap between windows are arbitrary.                      *)
(***************************************************************************)
EXTENDS Integers, FiniteSetsExt

CONSTANTS
    Count,          \* windows
    Duration,       \* of a window
    Grace,          \* before a window is killed; 120 s in the code
    FirstDelay,     \* of a reconnection; 2 s in the code
    MaxDelay,       \* 60 s in the code
    ConnectTime,    \* longest attempt to connect
    MaxBatches      \* bound on the runs of process_all_captures

ASSUME CaptureBatchAssumption ==
    /\ Count \in Nat /\ Duration \in Nat \ {0} /\ Grace \in Nat
    /\ FirstDelay \in Nat \ {0} /\ MaxDelay \in Nat
    /\ ConnectTime \in Nat /\ MaxBatches \in Nat

VARIABLES
    window,         \* the one under way or next
    status,         \* [windows -> "todo", "running" or its result]
    conn,           \* where the capture is
    t,              \* time since the window started
    wake, delay,    \* end of the sleep, reconnect_delay
    recorded,       \* [windows -> length of the .jsonl file], -1 without one
    converted,      \* [windows -> length of the .csv file], -1 without one
    batch,          \* the run of process_all_captures
    batches,
    summary         \* multi_window_summary.csv: what the run that wrote it measured

captureVars == <<window, status, conn, t, wake, delay, recorded>>
batchVars == <<converted, batch, batches, summary>>
cbVars == <<captureVars, batchVars>>

Windows == 1 .. Count
None == [w \in Windows |-> 0 - 1]
NoBatch == [at |-> "off"]
NoSummary == [results |-> None, force |-> FALSE, complete |-> FALSE]

CBInit ==
    /\ window = 1 /\ status = [w \in Windows |-> "todo"]
    /\ conn = "none" /\ t = 0 /\ wake = 0 /\ delay = FirstDelay
    /\ recorded = None /\ converted = None
    /\ batch = NoBatch /\ batches = 0
    /\ summary = NoSummary

(***************************************************************************)
(* capture: one window.                                                    *)
(***************************************************************************)
StartWindow ==
    /\ window <= Count /\ status[window] = "todo"
    /\ status' = [status EXCEPT ![window] = "running"]
    /\ recorded' = [recorded EXCEPT ![window] = 0]
    /\ conn' = "top" /\ t' = 0 /\ delay' = FirstDelay
    /\ UNCHANGED <<window, wake, batchVars>>

\* The loop of capture_loop goes on, whatever became of the window.
EndWindow(result) ==
    /\ status' = [status EXCEPT ![window] = result]
    /\ window' = window + 1
    /\ conn' = "none"
    /\ UNCHANGED <<t, wake, delay, recorded, batchVars>>

LoopTop ==
    /\ conn = "top" /\ t < Duration
    /\ conn' = "connecting" /\ wake' = t + ConnectTime
    /\ UNCHANGED <<window, status, t, delay, recorded, batchVars>>

Connected ==
    /\ conn = "connecting"
    /\ conn' = "on" /\ delay' = FirstDelay
    /\ UNCHANGED <<window, status, t, wake, recorded, batchVars>>

\* Mutant: the delay has no bound.
NoCap(d) == 2 * d

NextDelay(d) == Min({2 * d, MaxDelay})

\* An attempt fails or a connection drops with time left.
Dropped ==
    /\ conn \in {"connecting", "on"} /\ t < Duration
    /\ conn' = "sleep" /\ wake' = t + delay /\ delay' = NextDelay(delay)
    /\ UNCHANGED <<window, status, t, recorded, batchVars>>

Awake ==
    /\ conn = "sleep" /\ t >= wake
    /\ conn' = "top"
    /\ UNCHANGED <<window, status, t, wake, delay, recorded, batchVars>>

\* Out of the loop, at its top, in the inner one, or after a drop.
CloseWindow ==
    /\ conn \in {"top", "connecting", "on"} /\ t >= Duration
    /\ EndWindow("ok")

\* An exception nobody catches; the process stops doing anything.
Raise == conn \in {"top", "connecting", "on"} /\ EndWindow("exit_code")

Hang ==
    /\ conn \in {"connecting", "on"}
    /\ conn' = "hung"
    /\ UNCHANGED <<window, status, t, wake, delay, recorded, batchVars>>

\* subprocess.run's timeout.
Kill == conn # "none" /\ t >= Duration + Grace /\ EndWindow("timeout")

\* What a capture has to do at once: it runs whenever it is not waiting.
Due ==
    \/ conn = "top"
    \/ conn = "on" /\ t >= Duration
    \/ conn \in {"sleep", "connecting"} /\ t >= wake
    \/ t >= Duration + Grace

OneSecond ==
    /\ conn # "none" /\ ~Due
    /\ t' = t + 1
    /\ recorded' = IF conn = "on" THEN [recorded EXCEPT ![window] = @ + 1] ELSE recorded
    /\ UNCHANGED <<window, status, conn, wake, delay, batchVars>>

\* Mutant: a window that failed ends the loop.
CaptureUnlessFailed ==
    /\ \A w \in Windows : status[w] # "timeout"
    /\ \/ StartWindow \/ LoopTop \/ Connected \/ Dropped \/ Awake \/ CloseWindow \/ Raise \/ Hang
       \/ Kill \/ OneSecond

Capture ==
    \/ StartWindow \/ LoopTop \/ Connected \/ Dropped \/ Awake \/ CloseWindow \/ Raise \/ Hang
    \/ Kill \/ OneSecond

(***************************************************************************)
(* process_all_captures: the files of the glob, one by one.                *)
(***************************************************************************)
StartBatch(force) ==
    /\ batch = NoBatch /\ batches < MaxBatches
    /\ \E w \in Windows : recorded[w] >= 0
    /\ batches' = batches + 1
    /\ batch' = [at |-> "convert", force |-> force, complete |-> window > Count,
                 todo |-> {w \in Windows : recorded[w] >= 0}, results |-> None]
    /\ UNCHANGED <<captureVars, converted, summary>>

Next1 == Min(batch.todo)

\* Mutant: --force does not reach convert_window.
SkipsAnyway(w) == converted[w] >= 0

\* The file is there and need not be written again.
Skips(w) == converted[w] >= 0 /\ ~batch.force

Done == [batch EXCEPT !.at = "convert", !.todo = @ \ {Next1}]

\* The conversion reads the capture as far as it is written, and one that fails
\* leaves the rows of any part of it.
ConvertWindow ==
    /\ batch.at = "convert" /\ batch.todo # {}
    /\ LET length == recorded[Next1]
       IN  \/ /\ Skips(Next1) /\ batch' = [batch EXCEPT !.at = "calibrate"]
              /\ UNCHANGED converted
           \/ /\ ~Skips(Next1) /\ batch' = [batch EXCEPT !.at = "calibrate"]
              /\ converted' = [converted EXCEPT ![Next1] = length]
           \/ /\ ~Skips(Next1) /\ batch' = Done
              /\ \E k \in 0 .. length : converted' = [converted EXCEPT ![Next1] = k]
    /\ UNCHANGED <<captureVars, batches, summary>>

CalibrateWindow ==
    /\ batch.at = "calibrate"
    /\ \/ batch' = [Done EXCEPT !.results[Next1] = converted[Next1]]
       \/ batch' = Done                             \* too few events
    /\ UNCHANGED <<captureVars, converted, batches, summary>>

EndBatch ==
    /\ batch' = NoBatch
    /\ UNCHANGED <<captureVars, converted, batches>>

\* TimeoutExpired of a calibration is caught by nobody.
CalibrationTimesOut == batch.at = "calibrate" /\ EndBatch /\ UNCHANGED summary

\* Nothing is written if no window was calibrated.
Summarise ==
    /\ batch.at = "convert" /\ batch.todo = {}
    /\ EndBatch
    /\ summary' = IF batch.results = None THEN summary
                  ELSE [results |-> batch.results, force |-> batch.force, complete |-> batch.complete]

Batch ==
    \/ \E force \in BOOLEAN : StartBatch(force)
    \/ ConvertWindow \/ CalibrateWindow \/ CalibrationTimesOut \/ Summarise

CBNext == Capture \/ Batch

\* The scripts run; whether the network answers or the window is interrupted
\* is open.
CBSpec == CBInit /\ [][CBNext]_cbVars /\ WF_cbVars(Capture)

(***************************************************************************)
(* Properties.                                                             *)
(***************************************************************************)

\* A capture that cannot connect any more, or loses its connection just before
\* its end, still ends by itself: its longest sleep is shorter than the grace
\* its parent allows, so only a hung process is killed.
OnlyTheHungAreKilled == conn \notin {"none", "hung"} => t < Duration + Grace

\* capture_loop.py:16-20: a window that fails does not cost the others.
EveryWindowIsTried == <>(\A w \in Windows : status[w] \notin {"todo", "running"})

\* A summary written by a run with --force after the last window is of whole
\* captures, whatever earlier runs had converted in the middle of one.
ForcedSeesWholeWindows ==
    summary.force /\ summary.complete =>
        \A w \in Windows : summary.results[w] >= 0 => summary.results[w] = recorded[w]
=============================================================================
