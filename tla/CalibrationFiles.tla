--------------------------- MODULE CalibrationFiles --------------------------
(***************************************************************************)
(* The files calibrate_hawkes leaves and run_backtest loads.  Runs of the  *)
(* calibration follow one another and may stop at any point; a backtest    *)
(* may start at any point.  File names carry the second a run started in.  *)
(* ofstream truncates its file when it is opened and, for a file this      *)
(* short, writes it when it is closed.                                     *)
(***************************************************************************)
EXTENDS Integers, FiniteSetsExt

CONSTANTS
    Fields,     \* numbers of a calibration: 17 in the code
    FitSeconds, \* seconds a fit takes at least
    Foreign,    \* files somebody else may put in place of the latest one
    MaxRuns,    \* bound on the runs
    MaxClock    \* bound on the seconds

ASSUME CalibrationFilesAssumption ==
    /\ Fields \in Nat \ {0} /\ FitSeconds \in Nat
    /\ MaxRuns \in Nat /\ MaxClock \in Nat
    /\ \A f \in Foreign : f.fields \in Nat /\ f.junk \in Nat

VARIABLES
    clock,
    run,        \* number of the last run started
    stamp,      \* [runs -> clock]: utc_timestamp of a run
    pc,         \* what the running calibration does next
    dated,      \* [stamps -> file]
    latest,     \* hawkes_calibration.csv
    loaded      \* what the last backtest made of it

cfVars == <<clock, run, stamp, pc, dated, latest, loaded>>

\* A file: the run it is from, the numbers on its second line, and the place
\* of one that is not a number.  Absent and empty files have no second line.
Absent == [run |-> 0, fields |-> 0 - 2, junk |-> 0]
Empty == [run |-> 0, fields |-> 0 - 1, junk |-> 0]
Calibration(r) == [run |-> r, fields |-> Fields, junk |-> 0]

Defaults == [outcome |-> "Defaults", from |-> Absent]

CFInit ==
    /\ clock = 0 /\ run = 0 /\ stamp = << >> /\ pc = "Idle"
    /\ dated = << >>
    /\ latest = Absent
    /\ loaded = Defaults

Put(files, name, content) ==
    [n \in DOMAIN files \cup {name} |-> IF n = name THEN content ELSE files[n]]

\* main up to the replay; the log is left out.
StartRun ==
    /\ pc = "Idle" /\ run < MaxRuns
    /\ run' = run + 1
    /\ stamp' = Put(stamp, run + 1, clock)
    /\ pc' = "Replay"
    /\ UNCHANGED <<clock, dated, latest, loaded>>

\* An empty feed, or too few aggressor events to fit.
GiveUp ==
    /\ pc = "Replay"
    /\ pc' = "Idle"
    /\ UNCHANGED <<clock, run, stamp, dated, latest, loaded>>

Fit ==
    /\ pc = "Replay" /\ clock >= stamp[run] + FitSeconds
    /\ pc' = "OpenDated"
    /\ UNCHANGED <<clock, run, stamp, dated, latest, loaded>>

\* Mutant: the name the backtest loads is written before the dated copy.
LatestFirst(from, name, next, content) ==
    /\ pc = from
    /\ IF name = "Latest"
       THEN dated' = Put(dated, stamp[run], content) /\ UNCHANGED latest
       ELSE latest' = content /\ UNCHANGED dated
    /\ pc' = next
    /\ UNCHANGED <<clock, run, stamp, loaded>>

\* One half of write_calib.
WriteCalib(from, name, next, content) ==
    /\ pc = from
    /\ IF name = "Dated"
       THEN dated' = Put(dated, stamp[run], content) /\ UNCHANGED latest
       ELSE latest' = content /\ UNCHANGED dated
    /\ pc' = next
    /\ UNCHANGED <<clock, run, stamp, loaded>>

Persist ==
    \/ WriteCalib("OpenDated", "Dated", "CloseDated", Empty)
    \/ WriteCalib("CloseDated", "Dated", "OpenLatest", Calibration(run))
    \/ WriteCalib("OpenLatest", "Latest", "CloseLatest", Empty)
    \/ WriteCalib("CloseLatest", "Latest", "Idle", Calibration(run))

\* The process ends where it is.
Crash ==
    /\ pc # "Idle"
    /\ pc' = "Idle"
    /\ UNCHANGED <<clock, run, stamp, dated, latest, loaded>>

Second ==
    /\ clock < MaxClock
    /\ clock' = clock + 1
    /\ UNCHANGED <<run, stamp, pc, dated, latest, loaded>>

\* Which field of the line the i-th call of next() reads: at its end getline
\* leaves the token as it was.
Token(file, i) == Min({i, file.fields})

HasLine(file) == file.fields >= 0

\* load_hawkes_calibration; stod throws at an empty line or a bad number.
Load(file) ==
    [from |-> file,
     outcome |->
        IF ~HasLine(file) THEN "Defaults"
        ELSE IF file.fields < 1
                \/ \E i \in 1 .. Fields : file.junk = Token(file, i)
        THEN "Terminated"
        ELSE "Loaded"]

RunBacktest ==
    /\ loaded' = Load(latest)
    /\ UNCHANGED <<clock, run, stamp, pc, dated, latest>>

ReplaceLatest ==
    /\ pc = "Idle"
    /\ latest' \in Foreign
    /\ UNCHANGED <<clock, run, stamp, pc, dated, loaded>>

CFNext ==
    \/ StartRun \/ GiveUp \/ Fit \/ Persist \/ Crash
    \/ Second
    \/ RunBacktest
    \/ ReplaceLatest

CFSpec == CFInit /\ [][CFNext]_cfVars

(***************************************************************************)
(* Properties.                                                             *)
(***************************************************************************)

\* What a backtest loads has a dated copy, whichever run wrote it and wherever
\* a later one crashed: lines 286-289, the history outlives the latest file.
LoadedHasItsCopy ==
    loaded.outcome = "Loaded" /\ loaded.from.run # 0 =>
        /\ stamp[loaded.from.run] \in DOMAIN dated
        /\ dated[stamp[loaded.from.run]] = loaded.from

\* Started at any moment, between two runs or in the middle of a write, a
\* backtest uses one run's calibration as a whole or its defaults.
ReadsAWholeCalibration ==
    loaded.outcome # "Terminated" /\ (loaded.outcome = "Loaded" => loaded.from.fields = Fields)
=============================================================================
