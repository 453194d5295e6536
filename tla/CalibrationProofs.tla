-------------------------- MODULE CalibrationProofs --------------------------
(***************************************************************************)
(* The applications beside the backtest.  What fit_mle reports, for every  *)
(* number of iterations, every patience, and every way the optimiser can   *)
(* move; what a backtest can load from the files of calibrations that      *)
(* start, fit, write and crash; then that the three series of              *)
(* validate_fidelity.cpp, whose friction is calibrated, differ by friction *)
(* alone, for every path and every friction drawn.  Last the captures that *)
(* are calibrated, for any windows, delays and numbers of batches: only a  *)
(* hung one is killed, and a forced batch reports finished windows whole.  *)
(***************************************************************************)
EXTENDS Calibration, CaptureBatch, Fidelity, WellFoundedInduction, TLAPS

FitTypeOK ==
    /\ params.ll \in Int /\ params.radius \in Nat
    /\ lls \in Seq(Int)
    /\ patience_counter \in Nat
    /\ res \in [iterations : Nat, converged : BOOLEAN, final_ll : Int, spectral_radius : Nat]

\* The count is that of the iterations at the end that moved too little; the
\* first, which has nothing before it, is never one of them.
RunIsCounted ==
    /\ res.iterations = Len(lls)
    /\ res.converged => patience_counter >= Patience
    /\ patience_counter > 0 => patience_counter < Len(lls)
    /\ \A k \in (Len(lls) - patience_counter + 1) .. Len(lls) : ~Changed(k)

FitInv == FitTypeOK /\ RunIsCounted /\ AlwaysStable

LEMMA ParamsAre == ASSUME NEW p \in Params PROVE p.ll \in Int /\ p.radius \in Nat
<1>1. p.ll \in LogLik /\ p.radius \in Radius \cup {95}
  BY DEF Params
<1>2. LogLik \subseteq Int /\ Radius \cup {95} \subseteq Nat
  BY FitAssumption
<1> QED
  BY <1>1, <1>2, Zenon

\* After the projection a step is a parameter vector within the bound.
LEMMA ProjectedAre ==
    ASSUME NEW step \in Params, NEW p \in Projected(step)
    PROVE  p.ll \in Int /\ p.radius \in Nat /\ p.radius < 98
<1>1. step.radius \in Nat /\ step.ll \in Int
  BY ParamsAre
<1>2. CASE step.radius >= 98
  <2>1. PICK l \in LogLik : p = [ll |-> l, radius |-> 95]
    BY <1>2 DEF Projected
  <2>2. l \in Int
    BY FitAssumption
  <2> QED
    BY <2>1, <2>2
<1>3. CASE ~(step.radius >= 98)
  <2>1. p = step
    BY <1>3 DEF Projected
  <2> QED
    BY <1>1, <1>3, <2>1, ParamsAre
<1> QED
  BY <1>2, <1>3

LEMMA FitInitInv == FitInit => FitInv
<1> SUFFICES ASSUME FitInit PROVE FitInv
  OBVIOUS
<1>1. params.ll \in Int /\ params.radius \in Nat
  BY ParamsAre DEF FitInit
<1>2. FitTypeOK
  <2>1. res \in [iterations : Nat, converged : BOOLEAN, final_ll : Int, spectral_radius : Nat]
    BY DEF FitInit
  <2> QED
    BY <1>1, <2>1 DEF FitInit, FitTypeOK
<1>3. lls = << >> /\ Len(lls) = 0 /\ patience_counter = 0
  BY DEF FitInit
<1>4. RunIsCounted
  BY <1>3 DEF FitInit, RunIsCounted
<1>5. AlwaysStable
  BY <1>3 DEF AlwaysStable
<1> QED
  BY <1>2, <1>4, <1>5 DEF FitInv

\* Appending keeps what was there, and the verdict on it.
LEMMA ChangedStays ==
    ASSUME lls \in Seq(Int), NEW x \in Int, lls' = Append(lls, x),
           NEW k \in 2 .. Len(lls)
    PROVE  Changed(k)' <=> Changed(k)
  BY DEF Changed

LEMMA IterateInv ==
    ASSUME FitInv, Iterate
    PROVE  FitInv'
<1>1. PICK n \in Nat : n = Len(lls)
  BY DEF FitInv, FitTypeOK
<1>2. PICK count \in Nat : count = patience_counter
  BY DEF FitInv, FitTypeOK
<1>3. /\ params.ll \in Int /\ lls \in Seq(Int) /\ res.iterations = n
      /\ count > 0 => count < n
      /\ \A k \in (n - count + 1) .. n : ~Changed(k)
  BY <1>1, <1>2 DEF FitInv, FitTypeOK, RunIsCounted
<1>4. /\ lls' = Append(lls, params.ll) /\ lls' \in Seq(Int) /\ Len(lls') = n + 1
      /\ \A k \in 1 .. n : lls'[k] = lls[k]
      /\ lls'[n + 1] = params.ll
  BY <1>1, <1>3 DEF Iterate
<1>5. params'.ll \in Int /\ params'.radius \in Nat /\ params'.radius < 98
  BY ProjectedAre DEF Iterate
<1>6. res' = [res EXCEPT !.iterations = n + 1, !.converged = patience_counter' >= Patience]
  BY <1>4 DEF Iterate
<1>7. res \in [iterations : Nat, converged : BOOLEAN, final_ll : Int, spectral_radius : Nat]
  BY DEF FitInv, FitTypeOK
<1>8. /\ res' \in [iterations : Nat, converged : BOOLEAN, final_ll : Int, spectral_radius : Nat]
      /\ res'.iterations = n + 1
      /\ res'.converged <=> patience_counter' >= Patience
  <2>1. (patience_counter' >= Patience) \in BOOLEAN /\ n + 1 \in Nat
    OBVIOUS
  <2> QED
    BY <1>6, <1>7, <2>1, Zenon
<1>9. PICK count2 \in Nat :
        /\ count2 = patience_counter'
        /\ count2 > 0 => count2 < n + 1
        /\ \A k \in (n - count2 + 2) .. n + 1 : ~Changed(k)'
  <2>1. CASE Close(params.ll)
    <3>1. n >= 1 /\ patience_counter' = count + 1
      BY <1>1, <1>2, <1>3, <2>1 DEF Close, Iterate, PatienceAfter
    <3>2. ~Changed(n + 1)'
      BY <1>1, <1>3, <1>4, <2>1, <3>1 DEF Close, Changed
    <3>3. ASSUME NEW k \in (n - count + 1) .. n + 1
          PROVE  ~Changed(k)'
      <4>1. CASE k = n + 1
        BY <3>2, <4>1
      <4>2. CASE k # n + 1
        <5>1. k \in (n - count + 1) .. n /\ k \in 2 .. n
          BY <1>3, <4>2
        <5>2. ~Changed(k)
          BY <1>3, <5>1
        <5> QED
          BY <1>1, <1>3, <1>4, <5>1, <5>2, ChangedStays
      <4> QED
        BY <4>1, <4>2
    <3> QED
      BY <1>3, <3>1, <3>3
  <2>2. CASE ~Close(params.ll)
    <3>1. patience_counter' = 0
      BY <2>2 DEF Iterate, PatienceAfter
    <3> QED
      BY <3>1
  <2> QED
    BY <2>1, <2>2
<1>10. FitTypeOK'
  BY <1>4, <1>5, <1>8, <1>9 DEF FitTypeOK
<1>11. RunIsCounted'
  <2>1. patience_counter' > 0 => patience_counter' < Len(lls')
    BY <1>4, <1>9
  <2>2. \A k \in (Len(lls') - patience_counter' + 1) .. Len(lls') : ~Changed(k)'
    <3>1. Len(lls') - patience_counter' + 1 = n - count2 + 2 /\ Len(lls') = n + 1
      BY <1>4, <1>9
    <3> QED
      BY <1>9, <3>1, Zenon
  <2>3. res'.iterations = Len(lls')
    BY <1>4, <1>8
  <2> QED
    BY <1>8, <2>1, <2>2, <2>3, Zenon DEF RunIsCounted
<1>12. done' = FALSE
  BY DEF Iterate
<1>13. AlwaysStable'
  BY <1>5, <1>12 DEF AlwaysStable
<1> QED
  BY <1>10, <1>11, <1>13 DEF FitInv

LEMMA FinishInv ==
    ASSUME FitInv, Finish
    PROVE  FitInv'
<1>1. UNCHANGED <<params, lls, patience_counter>>
  BY DEF Finish
<1>2. PICK x \in Int :
        res' = [res EXCEPT !.final_ll = x, !.spectral_radius = params.radius]
  <2>1. lls # << >> => lls[Len(lls)] \in Int
    BY DEF FitInv, FitTypeOK
  <2>2. res.final_ll \in Int
    BY DEF FitInv, FitTypeOK
  <2>3. CASE lls = << >>
    BY <2>2, <2>3 DEF Finish
  <2>4. CASE lls # << >>
    BY <2>1, <2>4 DEF Finish
  <2> QED
    BY <2>3, <2>4
<1>3. /\ res' \in [iterations : Nat, converged : BOOLEAN, final_ll : Int, spectral_radius : Nat]
      /\ res'.iterations = res.iterations /\ res'.converged = res.converged
      /\ res'.spectral_radius = params.radius
  <2>1. /\ res \in [iterations : Nat, converged : BOOLEAN, final_ll : Int, spectral_radius : Nat]
        /\ params.radius \in Nat
    BY DEF FitInv, FitTypeOK
  <2> QED
    BY <1>2, <2>1, Zenon
<1>4. FitTypeOK'
  BY <1>1, <1>3 DEF FitInv, FitTypeOK
<1>5. RunIsCounted'
  BY <1>1, <1>3 DEF FitInv, RunIsCounted, Changed
<1>6. AlwaysStable'
  BY <1>1, <1>3 DEF FitInv, AlwaysStable
<1> QED
  BY <1>4, <1>5, <1>6 DEF FitInv

LEMMA FitStutter ==
    ASSUME FitInv, UNCHANGED fitVars
    PROVE  FitInv'
  BY DEF FitInv, FitTypeOK, RunIsCounted, AlwaysStable, Changed, fitVars

\* The inductive invariant holds in every state of a fit.
THEOREM FitInvariant == FitSpec => []FitInv
<1>1. FitInv /\ [FitNext]_fitVars => FitInv'
  BY IterateInv, FinishInv, FitStutter DEF FitNext
<1> QED
  BY FitInitInv, <1>1, PTL DEF FitSpec

\* converged is only reported on a plateau of Patience iterations.
THEOREM ConvergenceIsAPlateau == FitSpec => []ConvergedMeansPlateau
<1>1. FitInv => ConvergedMeansPlateau
  BY FitAssumption DEF FitInv, FitTypeOK, RunIsCounted, ConvergedMeansPlateau
<1> QED
  BY FitInvariant, <1>1, PTL

\* The fitted parameters are stable, however the loop ends.
THEOREM FitIsStable == FitSpec => []AlwaysStable
<1>1. FitInv => AlwaysStable
  BY DEF FitInv
<1> QED
  BY FitInvariant, <1>1, PTL

\* With no more iterations than patience, as fit_mle's defaults and those of
\* calibrate_hawkes have it, no data converge.
THEOREM DefaultsNeverConverge ==
    ASSUME MaxIters <= Patience
    PROVE  FitSpec => []~res.converged
<1> DEFINE Bounded == Len(lls) <= MaxIters
<1>1. FitInit => Bounded
  BY FitAssumption DEF FitInit
<1>2. FitInv /\ Bounded /\ [FitNext]_fitVars => Bounded'
  BY FitAssumption DEF FitInv, FitTypeOK, FitNext, Iterate, Finish, fitVars
<1>3. FitInv /\ Bounded => ~res.converged
  BY FitAssumption DEF FitInv, FitTypeOK, RunIsCounted
<1> QED
  BY FitInvariant, <1>1, <1>2, <1>3, PTL DEF FitSpec

(***************************************************************************)
(* From the fit to the files.                                              *)
(***************************************************************************)

\* A fit iterates, an excitation exp(w) is above 0 and so is the radius, and a
\* fit takes long enough for the name of its dated copy to be its own; whoever
\* replaces the latest file puts a whole calibration, or none, in its place.
CarefulUse ==
    /\ MaxIters > 0 /\ 0 \notin Radius /\ FitSeconds > 0
    /\ \A f \in Foreign :
          /\ f.run = 0 /\ Load(f).outcome # "Terminated"
          /\ Load(f).outcome = "Loaded" => f.fields = Fields

GoodFit(f) ==
    /\ f.iterations = MaxIters \/ f.converged
    /\ f.spectral_radius \in 1 .. 97

\* A fit that has ended is a good one.
FitEnds == FitInv /\ params.radius > 0 /\ (done => GoodFit(res))

LEMMA RadiusAboveZero ==
    ASSUME CarefulUse, NEW p \in Params
    PROVE  p.radius > 0
<1>1. p.radius \in Radius \cup {95}
  BY DEF Params
<1>2. Radius \subseteq Nat /\ 0 \notin Radius
  BY FitAssumption DEF CarefulUse
<1>3. PICK r : r = p.radius
  OBVIOUS
<1>4. r \in Radius \/ r = 95
  BY <1>1, <1>3
<1>5. CASE r \in Radius
  <2>1. r \in Nat
    BY <1>2, <1>5
  <2>2. r # 0
    BY <1>2, <1>5
  <2>. QED BY <1>3, <2>1, <2>2
<1>6. CASE r = 95
  BY <1>3, <1>6
<1>. QED BY <1>4, <1>5, <1>6

LEMMA FreshFitEnds ==
    ASSUME CarefulUse, FitInit
    PROVE  FitEnds
  BY FitInitInv, RadiusAboveZero DEF FitInit, FitEnds

LEMMA FitStepEnds ==
    ASSUME CarefulUse, FitEnds, FitNext
    PROVE  FitEnds'
<1>1. CASE Iterate
  <2>1. FitInv' /\ done' = FALSE
    BY <1>1, IterateInv DEF FitEnds, Iterate
  <2>2. params'.radius > 0
    <3>1. PICK step \in Params : params' \in Projected(step)
      BY <1>1 DEF Iterate
    <3>2. params' = step \/ params'.radius = 95
      BY <3>1 DEF Projected
    <3>. QED BY <3>2, RadiusAboveZero
  <2>. QED BY <2>1, <2>2 DEF FitEnds
<1>2. CASE Finish
  <2>1. FitInv' /\ params' = params
    BY <1>2, FinishInv DEF FitEnds, Finish
  <2>2. /\ res'.iterations = res.iterations /\ res'.converged = res.converged
        /\ res'.spectral_radius = params.radius
    <3>1. res \in [iterations : Nat, converged : BOOLEAN, final_ll : Int, spectral_radius : Nat]
      BY DEF FitEnds, FitInv, FitTypeOK
    <3>. QED BY <1>2, <3>1 DEF Finish
  <2>3. res.iterations = Len(lls) /\ (Len(lls) = MaxIters \/ res.converged)
    BY <1>2 DEF Finish, FitEnds, FitInv, RunIsCounted
  <2>4. lls # << >>
    <3>1. MaxIters > 0 /\ Patience > 0 /\ Patience \in Nat /\ MaxIters \in Nat
      BY FitAssumption DEF CarefulUse
    <3>2. /\ lls \in Seq(Int) /\ patience_counter \in Nat
          /\ res.converged => patience_counter >= Patience
          /\ patience_counter > 0 => patience_counter < Len(lls)
      BY DEF FitEnds, FitInv, FitTypeOK, RunIsCounted
    <3>. QED BY <2>3, <3>1, <3>2
  <2>5. params.radius \in 1 .. 97
    <3>1. params.radius \in Nat /\ params.radius > 0
      BY DEF FitEnds, FitInv, FitTypeOK
    <3>2. params.radius < 98
      BY <2>4 DEF FitEnds, FitInv, AlwaysStable
    <3>. QED BY <3>1, <3>2
  <2>. QED BY <2>1, <2>2, <2>3, <2>5 DEF FitEnds, GoodFit
<1>. QED BY <1>1, <1>2 DEF FitNext

LEMMA FitEndsStays ==
    ASSUME FitEnds, UNCHANGED fitVars
    PROVE  FitEnds'
<1>1. FitInv'
  BY FitStutter DEF FitEnds
<1>. QED BY <1>1 DEF FitEnds, GoodFit, fitVars

\* Run r has a finished fit and its dated copy, and no run that is writing, now
\* or later, has a name of the same second.
Secured(r) ==
    /\ r \in 1 .. run /\ r \in DOMAIN fitted /\ GoodFit(fitted[r])
    /\ stamp[r] \in DOMAIN dated /\ dated[stamp[r]] = Calibration(r)
    /\ stamp[r] < clock
    /\ \A s \in r + 1 .. run : stamp[r] < stamp[s]
    /\ r = run => pc \notin {"Replay", "OpenDated", "CloseDated"}

\* What the latest file can hold.
Genuine(file) ==
    \/ file = Absent \/ file = Empty \/ file \in Foreign
    \/ \E r \in Nat : Secured(r) /\ file = Calibration(r)

RunsCounted ==
    /\ run \in Nat /\ clock \in Nat
    /\ DOMAIN stamp = 1 .. run
    /\ \A r \in 1 .. run : stamp[r] \in Nat /\ stamp[r] <= clock
    /\ pc # "Idle" => run > 0

Stages ==
    /\ pc \in {"Idle", "Replay", "OpenDated", "CloseDated", "OpenLatest", "CloseLatest"}
    /\ pc \in {"OpenDated", "CloseDated"} =>
          run \in DOMAIN fitted /\ GoodFit(fitted[run]) /\ stamp[run] < clock
    /\ pc \in {"OpenLatest", "CloseLatest"} => Secured(run)

WholeFiles == Genuine(latest) /\ Genuine(loaded.from) /\ loaded = Load(loaded.from)

FilesInv == RunsCounted /\ Stages /\ WholeFiles

\* Only an ordinary calibration line loads, with the numbers of its own run.
LEMMA WhatLoads ==
    /\ Load(Absent).outcome = "Defaults" /\ Load(Empty).outcome = "Defaults"
    /\ \A r : Load(Calibration(r)).outcome = "Loaded"
<1>1. Load(Absent).outcome = "Defaults" /\ Load(Empty).outcome = "Defaults"
  BY DEF Load, HasLine, Absent, Empty
<1>2. ASSUME NEW r, NEW i \in 1 .. Fields
      PROVE  Token(Calibration(r), i) = i
  <2>1. i <= Fields /\ i \in Int /\ Fields \in Int
    BY CalibrationFilesAssumption
  <2>2. \A x \in {i, Fields} : (\A y \in {i, Fields} : x <= y) <=> x = i
    BY <2>1
  <2>. QED BY <2>2 DEF Token, Calibration, Min
<1>3. ASSUME NEW r
      PROVE  Load(Calibration(r)).outcome = "Loaded"
  <2>1. PICK file : file = Calibration(r)
    OBVIOUS
  <2>2. file.junk = 0 /\ file.fields = Fields /\ Fields \in Nat \ {0}
    BY <2>1, CalibrationFilesAssumption DEF Calibration
  <2>3. \A i \in 1 .. Fields : file.junk # Token(file, i)
    BY <1>2, <2>1, <2>2
  <2>4. HasLine(file) /\ ~(file.fields < 1)
    BY <2>2 DEF HasLine
  <2>. QED BY <2>1, <2>2, <2>3, <2>4 DEF Load
<1>. QED BY <1>1, <1>3

LEMMA GenuineLoads ==
    ASSUME CarefulUse, FilesInv
    PROVE  LoadedIsAFinishedRun
<1>1. PICK f : f = loaded.from
  OBVIOUS
<1>2. Genuine(f) /\ loaded.outcome = Load(f).outcome
  BY <1>1 DEF FilesInv, WholeFiles
<1>3. CASE f = Absent \/ f = Empty
  BY <1>2, <1>3, WhatLoads
  DEF LoadedIsAFinishedRun, LoadedIsAStableFit, ReadsAWholeCalibration, LoadedHasItsCopy
<1>4. CASE f \in Foreign
  BY <1>1, <1>2, <1>4
  DEF CarefulUse, LoadedIsAFinishedRun, LoadedIsAStableFit, ReadsAWholeCalibration,
      LoadedHasItsCopy
<1>5. ASSUME NEW r \in Nat, Secured(r), f = Calibration(r)
      PROVE  LoadedIsAFinishedRun
  <2>1. f.run = r /\ f.fields = Fields /\ Load(f).outcome = "Loaded"
    BY <1>5, WhatLoads DEF Calibration
  <2>. QED BY <1>1, <1>2, <1>5, <2>1
       DEF Secured, GoodFit, LoadedIsAFinishedRun, LoadedIsAStableFit,
           ReadsAWholeCalibration, LoadedHasItsCopy
<1>. QED BY <1>2, <1>3, <1>4, <1>5 DEF Genuine

\* If a step takes no run's copy away, what was genuine stays so.
LEMMA GenuineStays ==
    ASSUME \A r \in Nat : Secured(r) => Secured(r)', NEW f, Genuine(f)
    PROVE  Genuine(f)'
  BY DEF Genuine

\* Most steps leave the latest file and what was loaded alone.
LEMMA FilesStay ==
    ASSUME WholeFiles, \A r \in Nat : Secured(r) => Secured(r)',
           latest' = latest, loaded' = loaded
    PROVE  WholeFiles'
<1>1. PICK f, g : f = latest /\ g = loaded.from
  OBVIOUS
<1>2. Genuine(f)' /\ Genuine(g)'
  BY <1>1, GenuineStays DEF WholeFiles
<1>3. latest' = f /\ loaded'.from = g /\ loaded' = Load(g)
  BY <1>1 DEF WholeFiles
<1>4. loaded' = Load(loaded'.from)
  BY <1>3
<1>. QED BY <1>2, <1>3, <1>4 DEF WholeFiles

\* A run that starts has a later second than every secured one.
LEMMA StartKeeps ==
    ASSUME FilesInv, StartRun, UNCHANGED fitted
    PROVE  FilesInv'
<1>1. /\ run \in Nat /\ clock \in Nat /\ DOMAIN stamp = 1 .. run
      /\ \A r \in 1 .. run : stamp[r] \in Nat /\ stamp[r] <= clock
      /\ pc = "Idle"
  BY DEF FilesInv, RunsCounted, StartRun
<1>2. PICK n : n = run + 1
  OBVIOUS
<1>3. /\ run' = n /\ pc' = "Replay" /\ clock' = clock /\ fitted' = fitted
      /\ dated' = dated /\ latest' = latest /\ loaded' = loaded
      /\ stamp' = Put(stamp, n, clock)
  BY <1>2 DEF StartRun
<1>4. /\ DOMAIN stamp' = 1 .. n
      /\ stamp'[n] = clock
      /\ \A r \in 1 .. run : stamp'[r] = stamp[r] /\ r # n
  <2>1. DOMAIN stamp \cup {n} = 1 .. n
    BY <1>1, <1>2
  <2>2. \A r \in 1 .. run : r # n
    BY <1>1, <1>2
  <2>. QED BY <1>1, <1>3, <2>1, <2>2 DEF Put
<1>5. RunsCounted'
  <2>1. \A r \in 1 .. n : r = n \/ r \in 1 .. run
    BY <1>1, <1>2
  <2>2. n \in Nat /\ n > 0
    BY <1>1, <1>2
  <2>3. \A r \in 1 .. n : stamp'[r] \in Nat /\ stamp'[r] <= clock
    BY <1>1, <1>4, <2>1
  <2>. QED BY <1>1, <1>3, <1>4, <2>2, <2>3 DEF RunsCounted
<1>6. ASSUME NEW r \in Nat, Secured(r)
      PROVE  Secured(r)'
  <2>1. r \in 1 .. run /\ stamp[r] < clock /\ stamp'[r] = stamp[r] /\ r # n /\ r \in 1 .. n
    BY <1>1, <1>2, <1>4, <1>6 DEF Secured
  <2>2. \A s \in r + 1 .. n : stamp'[r] < stamp'[s]
    <3>1. \A s \in r + 1 .. n : s = n \/ (s \in r + 1 .. run /\ s \in 1 .. run)
      BY <1>1, <1>2, <2>1
    <3>. QED BY <1>4, <1>6, <2>1, <3>1 DEF Secured
  <2>. QED BY <1>3, <1>6, <2>1, <2>2 DEF Secured
<1>7. Stages'
  BY <1>3 DEF Stages
<1>8. WholeFiles'
  BY <1>3, <1>6, FilesStay DEF FilesInv
<1>. QED BY <1>5, <1>7, <1>8 DEF FilesInv

\* Giving up and crashing leave the files; nobody is writing any more.
LEMMA StopKeeps ==
    ASSUME FilesInv, pc' = "Idle",
           UNCHANGED <<clock, run, stamp, dated, latest, loaded, fitted>>
    PROVE  FilesInv'
<1>1. RunsCounted'
  BY DEF FilesInv, RunsCounted
<1>2. \A r \in Nat : Secured(r) => Secured(r)'
  BY DEF Secured
<1>3. Stages'
  BY DEF Stages
<1>4. WholeFiles'
  BY <1>2, FilesStay DEF FilesInv
<1>. QED BY <1>1, <1>3, <1>4 DEF FilesInv

\* The fit of the current run is entered; no secured run is the current one.
LEMMA FittedKeeps ==
    ASSUME CarefulUse, FilesInv, FitEnds, FitDone
    PROVE  FilesInv'
<1>1. /\ pc = "Replay" /\ pc' = "OpenDated" /\ clock >= stamp[run] + FitSeconds
      /\ UNCHANGED <<clock, run, stamp, dated, latest, loaded>>
      /\ fitted' = Put(fitted, run, res)
      /\ done
  BY DEF FitDone, Fit
<1>2. /\ run \in Nat /\ run > 0 /\ clock \in Nat /\ stamp[run] \in Nat
  <2>1. run \in Nat /\ run > 0 /\ clock \in Nat
    BY <1>1 DEF FilesInv, RunsCounted
  <2>2. run \in 1 .. run
    BY <2>1
  <2>. QED BY <2>1, <2>2 DEF FilesInv, RunsCounted
<1>3. stamp[run] < clock
  BY <1>1, <1>2, CalibrationFilesAssumption DEF CarefulUse
<1>4. RunsCounted'
  BY <1>1, <1>2 DEF FilesInv, RunsCounted
<1>5. GoodFit(res)
  BY <1>1 DEF FitEnds
<1>6. /\ run \in DOMAIN fitted' /\ fitted'[run] = res
      /\ \A r \in DOMAIN fitted : r # run => r \in DOMAIN fitted' /\ fitted'[r] = fitted[r]
  BY <1>1 DEF Put
<1>7. Stages'
  BY <1>1, <1>3, <1>5, <1>6 DEF Stages
<1>8. ASSUME NEW r \in Nat, Secured(r)
      PROVE  Secured(r)'
  <2>1. r # run /\ r \in DOMAIN fitted
    BY <1>1, <1>8 DEF Secured
  <2>2. r \in DOMAIN fitted' /\ fitted'[r] = fitted[r]
    BY <1>6, <2>1
  <2>. QED BY <1>1, <1>8, <2>1, <2>2 DEF Secured
<1>9. WholeFiles'
  BY <1>1, <1>8, FilesStay DEF FilesInv
<1>. QED BY <1>4, <1>7, <1>9 DEF FilesInv

\* The dated copy has a name of its own: writing it leaves the others.
LEMMA DatedKeeps ==
    ASSUME FilesInv, NEW content,
           WriteCalib("OpenDated", "Dated", "CloseDated", content)
             \/ (WriteCalib("CloseDated", "Dated", "OpenLatest", content)
                   /\ content = Calibration(run)),
           UNCHANGED fitted
    PROVE  FilesInv'
<1>1. /\ pc \in {"OpenDated", "CloseDated"}
      /\ pc' \in {"CloseDated", "OpenLatest"}
      /\ pc' = "OpenLatest" => content = Calibration(run)
      /\ UNCHANGED <<clock, run, stamp, latest, loaded, fitted>>
      /\ dated' = Put(dated, stamp[run], content)
  BY DEF WriteCalib
<1>2. /\ run \in Nat /\ run > 0 /\ clock \in Nat
      /\ run \in DOMAIN fitted /\ GoodFit(fitted[run]) /\ stamp[run] < clock
  BY <1>1 DEF FilesInv, RunsCounted, Stages
<1>3. RunsCounted'
  BY <1>1, <1>2 DEF FilesInv, RunsCounted
<1>4. /\ stamp[run] \in DOMAIN dated' /\ dated'[stamp[run]] = content
      /\ \A s \in DOMAIN dated : s # stamp[run] => s \in DOMAIN dated' /\ dated'[s] = dated[s]
  BY <1>1 DEF Put
<1>5. ASSUME NEW r \in Nat, Secured(r)
      PROVE  Secured(r)'
  <2>1. r \in 1 .. run /\ r # run
    BY <1>1, <1>5 DEF Secured
  <2>2. run \in r + 1 .. run
    BY <1>2, <2>1
  <2>3. stamp[r] < stamp[run] /\ stamp[r] \in Nat /\ stamp[run] \in Nat
    <3>1. run \in 1 .. run
      BY <1>2
    <3>2. stamp[r] \in Nat /\ stamp[run] \in Nat
      BY <2>1, <3>1 DEF FilesInv, RunsCounted
    <3>3. stamp[r] < stamp[run]
      BY <1>5, <2>2 DEF Secured
    <3>. QED BY <3>2, <3>3
  <2>4. stamp[r] # stamp[run]
    BY <2>3
  <2>5. stamp[r] \in DOMAIN dated' /\ dated'[stamp[r]] = dated[stamp[r]]
    BY <1>4, <1>5, <2>4 DEF Secured
  <2>. QED BY <1>1, <1>5, <2>1, <2>5 DEF Secured
<1>6. pc' = "OpenLatest" => Secured(run)'
  <2>1. run \in 1 .. run /\ run + 1 .. run = {}
    BY <1>2
  <2>2. PICK r : r = run
    OBVIOUS
  <2>3. pc' = "OpenLatest" => Secured(r)'
    BY <1>1, <1>2, <1>4, <2>1, <2>2 DEF Secured
  <2>. QED BY <1>1, <2>2, <2>3
<1>7. Stages'
  BY <1>1, <1>2, <1>6 DEF Stages
<1>8. WholeFiles'
  BY <1>1, <1>5, FilesStay DEF FilesInv
<1>. QED BY <1>3, <1>7, <1>8 DEF FilesInv

\* The latest file is emptied and written by a run that is secured.
LEMMA LatestKeeps ==
    ASSUME FilesInv, NEW content,
           \/ WriteCalib("OpenLatest", "Latest", "CloseLatest", content) /\ content = Empty
           \/ WriteCalib("CloseLatest", "Latest", "Idle", content)
                /\ content = Calibration(run),
           UNCHANGED fitted
    PROVE  FilesInv'
<1>1. /\ pc \in {"OpenLatest", "CloseLatest"} /\ pc' \in {"CloseLatest", "Idle"}
      /\ UNCHANGED <<clock, run, stamp, dated, loaded, fitted>>
      /\ latest' = content
      /\ content = Empty \/ content = Calibration(run)
  BY DEF WriteCalib
<1>2. RunsCounted'
  BY <1>1 DEF FilesInv, RunsCounted
<1>3. \A r \in Nat : Secured(r) => Secured(r)'
  BY <1>1 DEF Secured
<1>4. PICK n \in Nat : n = run /\ Secured(n)
  BY <1>1 DEF FilesInv, Stages, RunsCounted
<1>5. Secured(n)' /\ n = run'
  BY <1>1, <1>3, <1>4
<1>6. Stages'
  BY <1>1, <1>5 DEF Stages
<1>7. PICK f, g : f = content /\ g = loaded.from
  OBVIOUS
<1>8. Genuine(f)'
  BY <1>1, <1>4, <1>5, <1>7 DEF Genuine
<1>9. Genuine(g)'
  BY <1>3, <1>7, GenuineStays DEF FilesInv, WholeFiles
<1>10. latest' = f /\ loaded'.from = g /\ loaded' = loaded
  BY <1>1, <1>7
<1>11. loaded' = Load(loaded'.from)
  BY <1>10 DEF FilesInv, WholeFiles
<1>12. WholeFiles'
  BY <1>8, <1>9, <1>10, <1>11 DEF WholeFiles
<1>. QED BY <1>2, <1>6, <1>12 DEF FilesInv

\* Time goes on, a backtest loads, or another puts a file in place.
LEMMA OthersKeep ==
    ASSUME FilesInv, Second \/ RunBacktest \/ ReplaceLatest, UNCHANGED fitted
    PROVE  FilesInv'
<1>1. /\ UNCHANGED <<run, stamp, pc, dated, fitted>>
      /\ clock' = clock \/ clock' = clock + 1
      /\ \/ latest' = latest /\ loaded' = loaded
         \/ latest' = latest /\ loaded' = Load(latest)
         \/ latest' \in Foreign /\ loaded' = loaded
  BY DEF Second, RunBacktest, ReplaceLatest
<1>2. /\ run \in Nat /\ clock \in Nat /\ DOMAIN stamp = 1 .. run
      /\ \A r \in 1 .. run : stamp[r] \in Nat /\ stamp[r] <= clock
      /\ pc # "Idle" => run > 0
  BY DEF FilesInv, RunsCounted
<1>3. clock' \in Nat /\ clock' >= clock
  BY <1>1, <1>2
<1>4. \A r \in 1 .. run : stamp[r] <= clock'
  BY <1>2, <1>3
<1>5. RunsCounted'
  BY <1>1, <1>2, <1>3, <1>4 DEF RunsCounted
<1>6. \A r \in 1 .. run : stamp[r] < clock => stamp[r] < clock'
  BY <1>2, <1>3
<1>7. ASSUME NEW r \in Nat, Secured(r)
      PROVE  Secured(r)'
  <2>1. r \in 1 .. run /\ stamp[r] < clock'
    BY <1>6, <1>7 DEF Secured
  <2>. QED BY <1>1, <1>7, <2>1 DEF Secured
<1>8. Stages'
  <2>1. pc \in {"OpenDated", "CloseDated"} => stamp[run] < clock'
    <3>1. pc \in {"OpenDated", "CloseDated"} => stamp[run] < clock /\ run \in 1 .. run
      BY <1>2 DEF FilesInv, Stages
    <3>. QED BY <1>6, <3>1
  <2>2. PICK n : n = run
    OBVIOUS
  <2>3. pc \in {"OpenLatest", "CloseLatest"} => Secured(n)'
    BY <1>2, <1>7, <2>2 DEF FilesInv, Stages
  <2>. QED BY <1>1, <2>1, <2>2, <2>3 DEF FilesInv, Stages
<1>9. PICK f, g, h : f = latest /\ g = loaded.from /\ h = latest'
  OBVIOUS
<1>10. Genuine(f)' /\ Genuine(g)'
  BY <1>7, <1>9, GenuineStays DEF FilesInv, WholeFiles
<1>11. Genuine(h)'
  BY <1>1, <1>9, <1>10 DEF Genuine
<1>12. /\ loaded'.from = f \/ loaded'.from = g
       /\ loaded' = Load(loaded'.from)
  <2>1. CASE loaded' = loaded
    BY <1>9, <2>1 DEF FilesInv, WholeFiles
  <2>2. CASE loaded' = Load(latest)
    <3>1. Load(f).from = f
      BY DEF Load
    <3>2. loaded' = Load(f)
      BY <1>9, <2>2
    <3>. QED BY <3>1, <3>2
  <2>. QED BY <1>1, <2>1, <2>2
<1>13. PICK k : k = loaded'.from
  OBVIOUS
<1>14. Genuine(k)'
  BY <1>10, <1>12, <1>13
<1>15. latest' = h /\ loaded'.from = k /\ loaded' = Load(loaded'.from)
  BY <1>9, <1>12, <1>13
<1>16. WholeFiles'
  BY <1>11, <1>14, <1>15 DEF WholeFiles
<1>. QED BY <1>5, <1>8, <1>16 DEF FilesInv

LEMMA FilesUntouched ==
    ASSUME FilesInv, UNCHANGED <<cfVars, fitted>>
    PROVE  FilesInv'
<1>1. UNCHANGED <<clock, run, stamp, pc, dated, latest, loaded, fitted>>
  BY DEF cfVars
<1>2. \A r \in Nat : Secured(r) => Secured(r)'
  BY <1>1 DEF Secured
<1>3. RunsCounted' /\ WholeFiles'
  BY <1>1, <1>2, FilesStay DEF FilesInv, RunsCounted
<1>4. PICK n : n = run
  OBVIOUS
<1>5. Stages'
  BY <1>1 DEF FilesInv, Stages, Secured
<1>. QED BY <1>3, <1>5 DEF FilesInv

CalInv == FitEnds /\ FilesInv

LEMMA CalStep ==
    ASSUME CarefulUse, CalInv, [CalNext]_calVars
    PROVE  CalInv'
<1>1. CASE StartCalibration
  <2>1. FilesInv'
    BY <1>1, StartKeeps DEF CalInv, StartCalibration
  <2>2. FitInit'
    BY <1>1 DEF StartCalibration, NewFit, FitInit
  <2>3. FitEnds'
    <3>1. FitInv'
      BY <2>2, FitInitInv, PTL
    <3>2. params'.radius > 0 /\ done' = FALSE
      BY <1>1, RadiusAboveZero DEF StartCalibration, NewFit
    <3>. QED BY <3>1, <3>2 DEF FitEnds
  <2>. QED BY <2>1, <2>3 DEF CalInv
<1>2. CASE FitStep
  BY <1>2, FitStepEnds, FilesUntouched DEF CalInv, FitStep
<1>3. CASE FitDone
  BY <1>3, FittedKeeps, FitEndsStays DEF CalInv, FitDone
<1>4. CASE TooFew
  BY <1>4, StopKeeps, FitEndsStays DEF CalInv, TooFew, GiveUp
<1>5. CASE (Persist \/ Crash \/ Second \/ RunBacktest \/ ReplaceLatest)
             /\ UNCHANGED <<fitVars, fitted>>
  <2>1. FitEnds'
    BY <1>5, FitEndsStays DEF CalInv
  <2>2. CASE Persist
    BY <1>5, <2>1, <2>2, DatedKeeps, LatestKeeps DEF CalInv, Persist
  <2>3. CASE Crash
    BY <1>5, <2>1, <2>3, StopKeeps DEF CalInv, Crash
  <2>4. CASE Second \/ RunBacktest \/ ReplaceLatest
    BY <1>5, <2>1, <2>4, OthersKeep DEF CalInv
  <2>. QED BY <1>5, <2>2, <2>3, <2>4
<1>6. CASE UNCHANGED calVars
  BY <1>6, FitEndsStays, FilesUntouched DEF CalInv, calVars
<1>. QED BY <1>1, <1>2, <1>3, <1>4, <1>5, <1>6 DEF CalNext

LEMMA CalStart ==
    ASSUME CarefulUse, CalInit
    PROVE  CalInv
<1>1. FitEnds
  BY FreshFitEnds DEF CalInit
<1>2. RunsCounted /\ Stages
  BY DEF CalInit, CFInit, RunsCounted, Stages
<1>3. Genuine(Absent) /\ Defaults.from = Absent /\ Defaults = Load(Absent)
  BY DEF Genuine, Defaults, Load, HasLine, Absent
<1>4. WholeFiles
  BY <1>3 DEF CalInit, CFInit, WholeFiles
<1>. QED BY <1>1, <1>2, <1>4 DEF CalInv, FilesInv

\* Wherever calibrations crash, whenever a backtest starts, and for any number
\* of runs: what run_backtest loads is one run's whole calibration, of a fit
\* that ended in the stable region, and its dated copy is there
\* (calibrate_hawkes.cpp, the persistence at the end of main; run_backtest's
\* load_hawkes_calibration).
THEOREM BacktestsLoadFinishedRuns ==
    ASSUME CarefulUse
    PROVE  CalSpec => []LoadedIsAFinishedRun
<1>1. CalInit => CalInv
  BY CalStart
<1>2. CalInv /\ [CalNext]_calVars => CalInv'
  BY CalStep
<1>3. CalInv => LoadedIsAFinishedRun
  BY GenuineLoads DEF CalInv
<1>. QED BY <1>1, <1>2, <1>3, PTL DEF CalSpec

(***************************************************************************)
(* validate_fidelity: three executions of one path.                        *)
(***************************************************************************)

FDTypeOK ==
    /\ prev \in Int /\ mid_ticks \in Int
    /\ pos_n \in Int /\ cash_n \in Int /\ cash_l \in Int /\ cash_m \in Int
    /\ gross \in Int /\ cost_l \in Int /\ cost_m \in Int

\* The cash of a run with friction is the naive cash less what it paid.
CashApart == cash_l = cash_n - cost_l /\ cash_m = cash_n - cost_m

FDInv == FDTypeOK /\ OnTarget /\ CashApart /\ pnl_n = gross

LEMMA ClampIn == ASSUME NEW x \in Int PROVE Clamp(x) \in 0 - Cap .. Cap
  BY FidelityAssumption DEF Clamp

\* Buying or selling, a fill costs the mid and, on top, the friction.
LEMMA FillCashIs ==
    ASSUME NEW mid \in Int, NEW parent \in Int, NEW cost \in Int, parent # 0
    PROVE  /\ FillCash(mid, parent, cost) = FillCash(mid, parent, 0) - cost * Size(parent)
           /\ FillCash(mid, parent, 0) = 0 - mid * parent
           /\ cost * Size(parent) \in Int
<1>1. CASE parent > 0
  BY <1>1, SMT DEF FillCash, Sgn, Size
<1>2. CASE parent < 0
  BY <1>2, SMT DEF FillCash, Sgn, Size
<1> QED
  BY <1>1, <1>2

\* Trading at the mid does not change the value, a move of the mid adds the
\* position times the move.
LEMMA ValueMoves ==
    ASSUME NEW cash \in Int, NEW pos \in Int, NEW m0 \in Int, NEW m1 \in Int, NEW parent \in Int
    PROVE  (cash - m1 * parent) + (pos + parent) * m1 = (cash + pos * m0) + pos * (m1 - m0)
  OBVIOUS

LEMMA StepInv ==
    ASSUME FDInv, NEW mid \in Mids, NEW dev \in Devs, NEW live \in LiveCosts,
           DecisionStep(mid, dev, live)
    PROVE  FDInv'
<1>1. PICK target : target = Clamp(dev)
  OBVIOUS
<1>2. PICK parent : parent = target - prev
  OBVIOUS
<1>3. mid \in Int /\ live \in Int /\ target \in 0 - Cap .. Cap /\ parent \in Int
  <2>1. mid \in Int /\ dev \in Int
    BY FidelityAssumption
  <2>2. live \in Nat
    BY FidelityAssumption
  <2>3. live \in Int
    BY <2>2
  <2>4. target \in 0 - Cap .. Cap
    BY <1>1, <2>1, ClampIn
  <2>5. Cap \in Int
    BY FidelityAssumption
  <2>6. target \in Int
    BY <2>4, <2>5
  <2>7. prev \in Int
    BY DEF FDInv, FDTypeOK
  <2>8. parent \in Int
    BY <1>2, <2>6, <2>7
  <2> QED
    BY <2>1, <2>3, <2>4, <2>8
<1>4. /\ mid_ticks' = mid /\ prev' = target
      /\ IF parent = 0 THEN NoTrade(mid)
                       ELSE Execute(mid, parent, live, ModelCost[Size(parent)])
  BY <1>1, <1>2 DEF DecisionStep
<1>5. /\ pos_n \in Int /\ cash_n \in Int /\ mid_ticks \in Int /\ gross \in Int
      /\ cash_l \in Int /\ cash_m \in Int /\ cost_l \in Int /\ cost_m \in Int
      /\ pos_n = prev /\ pos_l = prev /\ pos_m = prev /\ prev \in 0 - Cap .. Cap
      /\ cash_l = cash_n - cost_l /\ cash_m = cash_n - cost_m
      /\ cash_n + pos_n * mid_ticks = gross
  BY DEF FDInv, FDTypeOK, OnTarget, CashApart, pnl_n
<1>6. CASE parent = 0
  <2>1. /\ UNCHANGED <<pos_n, pos_l, pos_m, cash_n, cash_l, cash_m, cost_l, cost_m>>
        /\ gross' = gross + pos_n * (mid - mid_ticks)
    BY <1>4, <1>6 DEF NoTrade
  <2>2. target = prev
    BY <1>2, <1>3, <1>5, <1>6
  <2>3. cash_n + pos_n * mid = gross + pos_n * (mid - mid_ticks)
    BY <1>3, <1>5
  <2>4. gross + pos_n * (mid - mid_ticks) \in Int
    BY <1>3, <1>5
  <2> QED
    BY <1>3, <1>4, <1>5, <2>1, <2>2, <2>3, <2>4
    DEF FDInv, FDTypeOK, OnTarget, CashApart, pnl_n
<1>7. CASE parent # 0
  <2>1. Size(parent) \in 1 .. 2 * Cap
    BY <1>2, <1>3, <1>5, <1>7, FidelityAssumption DEF Size
  <2>2. PICK model \in Int : model = ModelCost[Size(parent)]
    BY <2>1, FidelityAssumption
  <2>3. PICK paid_l \in Int, paid_m \in Int, paid \in Int :
          /\ paid_l = live * Size(parent) /\ paid_m = model * Size(parent) /\ paid = mid * parent
          /\ FillCash(mid, parent, live) = 0 - paid - paid_l
          /\ FillCash(mid, parent, model) = 0 - paid - paid_m
          /\ FillCash(mid, parent, 0) = 0 - paid
    <3>1. mid * parent \in Int /\ model \in Int
      BY <1>3, <2>2
    <3>2. PICK x \in Int : x = mid * parent
      BY <3>1
    <3>3. PICK pl \in Int : pl = live * Size(parent)
      BY <1>3, <1>7, FillCashIs
    <3>4. PICK pm \in Int : pm = model * Size(parent)
      BY <1>3, <1>7, <3>1, FillCashIs
    <3>5. FillCash(mid, parent, 0) = 0 - x
      BY <1>3, <1>7, <3>2, FillCashIs
    <3>6. FillCash(mid, parent, live) = 0 - x - pl
      BY <1>3, <1>7, <3>3, <3>5, FillCashIs
    <3>7. FillCash(mid, parent, model) = 0 - x - pm
      <4>1. FillCash(mid, parent, model) = FillCash(mid, parent, 0) - model * Size(parent)
        BY <1>3, <1>7, <3>1, FillCashIs
      <4> QED
        BY <3>4, <3>5, <4>1
    <3> QED
      BY <3>2, <3>3, <3>4, <3>5, <3>6, <3>7
  <2>4. /\ cash_n' = cash_n - paid /\ cash_l' = cash_l - paid - paid_l
        /\ cash_m' = cash_m - paid - paid_m
        /\ cost_l' = cost_l + paid_l /\ cost_m' = cost_m + paid_m
        /\ pos_n' = pos_n + parent /\ pos_l' = pos_l + parent /\ pos_m' = pos_m + parent
        /\ gross' = gross + pos_n * (mid - mid_ticks)
    BY <1>4, <1>5, <1>7, <2>2, <2>3 DEF Execute
  <2>5. prev + parent = target
    BY <1>2, <1>3, <1>5
  <2>6. gross + pos_n * (mid - mid_ticks) \in Int
    BY <1>3, <1>5
  <2>7. FDTypeOK'
    BY <1>3, <1>4, <1>5, <2>3, <2>4, <2>5, <2>6 DEF FDTypeOK
  <2>8. OnTarget'
    BY <1>3, <1>4, <1>5, <2>4, <2>5 DEF OnTarget
  <2>9. CashApart'
    BY <1>5, <2>3, <2>4 DEF CashApart
  <2>10. (cash_n - paid) + (pos_n + parent) * mid = gross + pos_n * (mid - mid_ticks)
    BY <1>3, <1>5, <2>3, ValueMoves
  <2>11. (pnl_n = gross)'
    BY <1>4, <2>4, <2>10 DEF pnl_n
  <2> QED
    BY <2>7, <2>8, <2>9, <2>11 DEF FDInv
<1> QED
  BY <1>6, <1>7

\* The inductive invariant: one position, cash apart by the friction paid.
THEOREM FidelityInvariant == FDSpec => []FDInv
<1>1. FDInit => FDInv
  BY FidelityAssumption DEF FDInit, FDInv, FDTypeOK, OnTarget, CashApart, pnl_n
<1>2. FDInv /\ [FDNext]_fdVars => FDInv'
  <2>1. FDInv /\ FDNext => FDInv'
    BY StepInv DEF FDNext
  <2>2. FDInv /\ UNCHANGED fdVars => FDInv'
    BY DEF FDInv, FDTypeOK, OnTarget, CashApart, pnl_n, fdVars
  <2> QED
    BY <2>1, <2>2
<1> QED
  BY <1>1, <1>2, PTL DEF FDSpec

\* The gross PnL is identical, and each series is below it by its friction:
\* what the tracking error measures is the error of the modelled cost.
THEOREM FrictionIsAllThatDiffers == FDSpec => []OnlyFrictionDiffers
<1>1. ASSUME FDInv PROVE OnlyFrictionDiffers
  <2>1. PICK v \in Int : v = prev * mid_ticks
    BY <1>1 DEF FDInv, FDTypeOK
  <2>2. pnl_n = cash_n + v /\ pnl_l = cash_l + v /\ pnl_m = cash_m + v
    BY <1>1, <2>1 DEF FDInv, OnTarget, pnl_n, pnl_l, pnl_m
  <2> QED
    BY <1>1, <2>1, <2>2 DEF FDInv, FDTypeOK, CashApart, OnlyFrictionDiffers
<1> QED
  BY FidelityInvariant, <1>1, PTL

\* Every run holds the bounded target.
THEOREM RunsStayOnTarget == FDSpec => []OnTarget
<1>1. FDInv => OnTarget
  BY DEF FDInv
<1> QED
  BY FidelityInvariant, <1>1, PTL

(***************************************************************************)
(* The capture loop and the batches beside it.                             *)
(***************************************************************************)

\* Waiting times that fit into the grace: 2 s and at most 60 s between two
\* attempts, 120 s of grace in the code.
WaitsFit == FirstDelay <= Grace /\ MaxDelay <= Grace /\ ConnectTime <= Grace

LastWake == Duration - 1 + Grace

\* No wait that was begun in the window ends after LastWake.
ClockInv ==
    /\ t \in Nat /\ wake \in Nat
    /\ delay \in Nat /\ delay <= Grace
    /\ conn \in {"connecting", "sleep"} => wake <= LastWake
    /\ conn \notin {"none", "hung"} => t <= LastWake
    /\ conn \in {"none", "top", "connecting", "on", "sleep", "hung"}

LEMMA ConstantsAre ==
    /\ Duration \in Nat /\ Duration > 0 /\ Grace \in Nat /\ Count \in Nat
    /\ FirstDelay \in Nat /\ FirstDelay > 0 /\ MaxDelay \in Nat /\ ConnectTime \in Nat
  BY CaptureBatchAssumption

LEMMA NextDelayFits ==
    ASSUME WaitsFit, NEW d \in Nat
    PROVE  NextDelay(d) \in Nat /\ NextDelay(d) <= Grace
<1>1. PICK e, m : e = 2 * d /\ m = MaxDelay /\ e \in Nat /\ m \in Nat /\ m <= Grace
  BY ConstantsAre DEF WaitsFit
<1>2. PICK x \in {e, m} : \A y \in {e, m} : x <= y
  <2>1. e <= m \/ m <= e
    BY <1>1
  <2>. QED BY <1>1, <2>1
<1>3. Min({e, m}) \in {e, m} /\ \A y \in {e, m} : Min({e, m}) <= y
  BY <1>2 DEF Min
<1>4. PICK n : n = NextDelay(d)
  OBVIOUS
<1>5. n = Min({e, m})
  BY <1>1, <1>4 DEF NextDelay
<1>6. (n = e \/ n = m) /\ n <= m
  BY <1>3, <1>5
<1>7. n \in Nat /\ n <= Grace
  BY <1>1, <1>6, ConstantsAre
<1>. QED BY <1>4, <1>7

LEMMA EndClock ==
    ASSUME ClockInv, NEW result, EndWindow(result)
    PROVE  ClockInv'
  BY DEF EndWindow, ClockInv

LEMMA SecondClock ==
    ASSUME WaitsFit, ClockInv, OneSecond
    PROVE  ClockInv'
<1>1. /\ conn # "none" /\ ~Due /\ t' = t + 1
      /\ UNCHANGED <<conn, wake, delay>>
  BY DEF OneSecond
<1>2. t' \in Nat
  BY <1>1 DEF ClockInv
<1>3. CASE conn = "hung"
  BY <1>1, <1>2, <1>3 DEF ClockInv
<1>4. CASE conn = "top"
  BY <1>1, <1>4 DEF Due
<1>5. CASE conn = "on"
  <2>1. ~(t >= Duration)
    BY <1>1, <1>5 DEF Due
  <2>2. t' <= LastWake
    <3>1. t \in Nat
      BY DEF ClockInv
    <3>2. Grace > 0
      BY ConstantsAre DEF WaitsFit
    <3>. QED BY <1>1, <2>1, <3>1, <3>2, ConstantsAre DEF LastWake
  <2>. QED BY <1>1, <1>2, <1>5, <2>2 DEF ClockInv
<1>6. CASE conn \in {"connecting", "sleep"}
  <2>1. ~(t >= wake) /\ wake <= LastWake /\ t \in Nat /\ wake \in Nat
    BY <1>1, <1>6 DEF Due, ClockInv
  <2>2. LastWake \in Int
    BY ConstantsAre DEF LastWake
  <2>3. t' <= LastWake
    BY <1>1, <2>1, <2>2
  <2>. QED BY <1>1, <1>2, <1>6, <2>3 DEF ClockInv
<1>. QED BY <1>1, <1>3, <1>4, <1>5, <1>6 DEF ClockInv

\* Every action of the capture but the ends of a window and the second.
LEMMA CaptureClock ==
    ASSUME WaitsFit, ClockInv, Capture
    PROVE  ClockInv'
<1>1. CASE StartWindow
  <2>1. 0 <= LastWake /\ FirstDelay \in Nat /\ FirstDelay <= Grace
    BY ConstantsAre DEF LastWake, WaitsFit
  <2>2. t' = 0 /\ wake' = wake /\ delay' = FirstDelay /\ conn' = "top"
    BY <1>1 DEF StartWindow, batchVars
  <2>. QED BY <2>1, <2>2 DEF ClockInv
<1>2. CASE LoopTop
  <2>1. /\ conn' = "connecting" /\ wake' = t + ConnectTime /\ t < Duration
        /\ t' = t /\ delay' = delay
    BY <1>2 DEF LoopTop
  <2>2. t \in Nat /\ ConnectTime <= Grace
    BY DEF ClockInv, WaitsFit
  <2>3. wake' \in Nat /\ wake' <= LastWake /\ t <= LastWake
    BY <2>1, <2>2, ConstantsAre DEF LastWake
  <2>. QED BY <2>1, <2>3 DEF ClockInv
<1>3. CASE Connected
  <2>1. FirstDelay \in Nat /\ FirstDelay <= Grace
    BY ConstantsAre DEF WaitsFit
  <2>. QED BY <1>3, <2>1 DEF Connected, ClockInv
<1>4. CASE Dropped
  <2>1. /\ conn' = "sleep" /\ wake' = t + delay /\ t < Duration
        /\ t' = t /\ delay' = NextDelay(delay)
    BY <1>4 DEF Dropped
  <2>2. t \in Nat /\ delay \in Nat /\ delay <= Grace
    BY DEF ClockInv
  <2>3. wake' \in Nat /\ wake' <= LastWake /\ t <= LastWake
    BY <2>1, <2>2, ConstantsAre DEF LastWake
  <2>4. delay' \in Nat /\ delay' <= Grace
    BY <2>1, <2>2, NextDelayFits
  <2>. QED BY <2>1, <2>2, <2>3, <2>4 DEF ClockInv
<1>5. CASE Awake
  BY <1>5 DEF Awake, ClockInv
<1>6. CASE CloseWindow \/ Raise \/ Kill
  BY <1>6, EndClock DEF CloseWindow, Raise, Kill
<1>7. CASE Hang
  BY <1>7 DEF Hang, ClockInv
<1>8. CASE OneSecond
  BY <1>8, SecondClock
<1>. QED BY <1>1, <1>2, <1>3, <1>4, <1>5, <1>6, <1>7, <1>8 DEF Capture

LEMMA BatchLeavesCapture ==
    ASSUME Batch
    PROVE  UNCHANGED captureVars
  BY DEF Batch, StartBatch, ConvertWindow, CalibrateWindow, CalibrationTimesOut,
         Summarise, EndBatch

\* Whatever the network does, the parent's timeout ends a capture only if it
\* hangs: every wait the capture begins ends within its window and the grace
\* (capture_kraken_ws.py, the reconnect loop; capture_loop.py, the timeout of
\* subprocess.run).
THEOREM CapturesEndByThemselves ==
    ASSUME WaitsFit
    PROVE  CBSpec => []OnlyTheHungAreKilled
<1>1. CBInit => ClockInv
  <2>. SUFFICES ASSUME CBInit PROVE ClockInv
    OBVIOUS
  <2>1. FirstDelay \in Nat /\ FirstDelay <= Grace
    BY ConstantsAre DEF WaitsFit
  <2>. QED BY <2>1 DEF CBInit, ClockInv
<1>2. ClockInv /\ [CBNext]_cbVars => ClockInv'
  <2>. SUFFICES ASSUME ClockInv, [CBNext]_cbVars PROVE ClockInv'
    OBVIOUS
  <2>1. CASE Capture
    BY <2>1, CaptureClock
  <2>2. CASE UNCHANGED captureVars
    BY <2>2 DEF captureVars, ClockInv
  <2>. QED BY <2>1, <2>2, BatchLeavesCapture DEF CBNext, cbVars
<1>3. ClockInv => OnlyTheHungAreKilled
  <2>. SUFFICES ASSUME ClockInv, conn \notin {"none", "hung"} PROVE t < Duration + Grace
    BY DEF OnlyTheHungAreKilled
  <2>1. t \in Nat /\ t <= LastWake
    BY DEF ClockInv
  <2>. QED BY <2>1, ConstantsAre DEF LastWake
<1>. QED BY <1>1, <1>2, <1>3, PTL DEF CBSpec

(***************************************************************************)
(* The batch.                                                              *)
(***************************************************************************)

\* The first window to do is one of them.
LEMMA FirstToDo ==
    ASSUME NEW T \in SUBSET Windows, T # {}
    PROVE  Min(T) \in T
<1>. DEFINE R == {ss \in Nat \X Nat : ss[1] < ss[2]}
<1>1. T \subseteq Nat
  BY ConstantsAre DEF Windows
<1>2. IsWellFoundedOn(R, Nat)
  BY NatLessThanWellFounded DEF OpToRel
<1>3. PICK x \in T : \A y \in T : ~ (<<y, x>> \in R)
  <2>. HIDE DEF R
  <2>. QED BY <1>1, <1>2, WFMin
<1>4. ASSUME NEW y \in T
      PROVE  x <= y
  <2>1. x \in Nat /\ y \in Nat
    BY <1>1
  <2>2. ~ (y < x)
    BY <1>3, <2>1
  <2>. QED BY <2>1, <2>2
<1>. QED BY <1>3, <1>4 DEF Min

CaptureInv ==
    /\ window \in Nat
    /\ conn # "none" => window <= Count
    /\ recorded \in [Windows -> Int] /\ converted \in [Windows -> Int]

\* No capture is under way or to come: the files are what they will be.
AllCaptured == window > Count

\* What a batch that converts everything anew has measured of whole captures.
Whole(results) == \A w \in Windows : results[w] >= 0 => results[w] = recorded[w]

BatchInv ==
    \/ batch = NoBatch
    \/ /\ batch \in [at : {"convert", "calibrate"}, force : BOOLEAN, complete : BOOLEAN,
                     todo : SUBSET Windows, results : [Windows -> Int]]
       /\ batch.at = "calibrate" => batch.todo # {}
       /\ batch.complete => AllCaptured
       /\ batch.force /\ batch.complete =>
            /\ Whole(batch.results)
            /\ batch.at = "calibrate" => converted[Next1] = recorded[Next1]

SummaryInv ==
    summary.force /\ summary.complete => AllCaptured /\ Whole(summary.results)

ReportInv == CaptureInv /\ BatchInv /\ SummaryInv

\* Once all windows are captured the capture does not touch a file any more.
LEMMA CaptureReport ==
    ASSUME ReportInv, Capture
    PROVE  ReportInv'
<1>1. UNCHANGED batchVars
  BY DEF Capture, StartWindow, LoopTop, Connected, Dropped, Awake, CloseWindow,
             Raise, Hang,
         Kill, OneSecond, EndWindow
<1>2. CaptureInv'
  <2>1. converted' = converted
    BY <1>1 DEF batchVars
  <2>2. CASE StartWindow
    <3>1. window' = window /\ window <= Count /\ recorded' = [recorded EXCEPT ![window] = 0]
      BY <2>2 DEF StartWindow
    <3>2. recorded' \in [Windows -> Int]
      <4>1. PICK r, x, w : r = recorded /\ w = window /\ x = 0 /\ x \in Int
        OBVIOUS
      <4>2. r \in [Windows -> Int] /\ recorded' = [r EXCEPT ![w] = x]
        BY <3>1, <4>1 DEF ReportInv, CaptureInv
      <4>. QED BY <4>1, <4>2
    <3>. QED BY <2>1, <3>1, <3>2 DEF ReportInv, CaptureInv
  <2>3. CASE LoopTop \/ Connected \/ Dropped \/ Awake \/ Hang
    BY <2>1, <2>3 DEF LoopTop, Connected, Dropped, Awake, Hang, ReportInv, CaptureInv
  <2>4. CASE CloseWindow \/ Raise \/ Kill
    BY <2>1, <2>4 DEF CloseWindow, Raise, Kill, EndWindow, ReportInv, CaptureInv
  <2>5. CASE OneSecond
    <3>1. /\ window' = window /\ conn' = conn
          /\ recorded' = recorded \/ recorded' = [recorded EXCEPT ![window] = @ + 1]
      BY <2>5 DEF OneSecond
    <3>2. recorded' \in [Windows -> Int]
      BY <3>1 DEF ReportInv, CaptureInv
    <3>. QED BY <2>1, <3>1, <3>2 DEF ReportInv, CaptureInv
  <2>. QED BY <2>2, <2>3, <2>4, <2>5 DEF Capture
<1>3. AllCaptured => AllCaptured' /\ recorded' = recorded
  <2>. SUFFICES ASSUME AllCaptured PROVE AllCaptured' /\ recorded' = recorded
    OBVIOUS
  <2>1. conn = "none" /\ window \in Nat /\ window > Count
    BY ConstantsAre DEF ReportInv, CaptureInv, AllCaptured
  <2>2. FALSE
    BY <2>1, ConstantsAre DEF Capture, StartWindow, LoopTop, Connected, Dropped, Awake, CloseWindow,
             Raise, Hang, Kill, OneSecond
  <2>. QED BY <2>2
<1>4. batch' = batch /\ converted' = converted /\ summary' = summary
  BY <1>1 DEF batchVars
<1>5. BatchInv'
  BY <1>3, <1>4 DEF ReportInv, BatchInv, Whole, Next1
<1>6. SummaryInv'
  BY <1>3, <1>4 DEF ReportInv, SummaryInv, Whole
<1>. QED BY <1>2, <1>5, <1>6 DEF ReportInv


LEMMA StartReport ==
    ASSUME ReportInv, NEW force \in BOOLEAN, StartBatch(force)
    PROVE  BatchInv'
<1>1. PICK b : b = [at |-> "convert", force |-> force, complete |-> window > Count,
                    todo |-> {w \in Windows : recorded[w] >= 0}, results |-> None]
  OBVIOUS
<1>2. batch' = b /\ window' = window /\ recorded' = recorded
  BY <1>1 DEF StartBatch, captureVars
<1>3. None \in [Windows -> Int] /\ \A w \in Windows : ~(None[w] >= 0)
  BY DEF None
<1>4. (window > Count) \in BOOLEAN
  BY ConstantsAre DEF ReportInv, CaptureInv
<1>5. b \in [at : {"convert", "calibrate"}, force : BOOLEAN, complete : BOOLEAN,
             todo : SUBSET Windows, results : [Windows -> Int]]
  BY <1>1, <1>3, <1>4
<1>6. b.at = "convert" /\ b.complete = (window > Count) /\ b.results = None
  BY <1>1
<1>. QED BY <1>2, <1>3, <1>5, <1>6 DEF BatchInv, AllCaptured, Whole

\* The window's file is converted; with force what is calibrated is the whole capture.
LEMMA ConvertReport ==
    ASSUME ReportInv, ConvertWindow
    PROVE  BatchInv' /\ converted' \in [Windows -> Int]
<1>1. PICK b, n : b = batch /\ n = Next1
  OBVIOUS
<1>2. /\ b.at = "convert" /\ b.todo # {}
      /\ \/ /\ batch' = [b EXCEPT !.at = "calibrate"]
            /\ converted' = IF Skips(n) THEN converted
                            ELSE [converted EXCEPT ![n] = recorded[n]]
         \/ /\ batch' = [b EXCEPT !.at = "convert", !.todo = @ \ {n}]
            /\ \E k \in 0 .. recorded[n] : converted' = [converted EXCEPT ![n] = k]
      /\ window' = window /\ recorded' = recorded
  BY <1>1 DEF ConvertWindow, captureVars, Done
<1>3. /\ b \in [at : {"convert", "calibrate"}, force : BOOLEAN, complete : BOOLEAN,
                todo : SUBSET Windows, results : [Windows -> Int]]
      /\ b.complete => AllCaptured
      /\ b.force /\ b.complete => Whole(b.results)
  BY <1>1, <1>2 DEF ReportInv, BatchInv, NoBatch
<1>4. n \in Windows
  <2>1. b.todo \in SUBSET Windows
    BY <1>3
  <2>. QED BY <1>1, <1>2, <2>1, FirstToDo DEF Next1
<1>5. recorded \in [Windows -> Int] /\ converted \in [Windows -> Int]
  BY DEF ReportInv, CaptureInv
<1>6. converted' \in [Windows -> Int]
  BY <1>2, <1>4, <1>5
<1>7. batch' = [b EXCEPT !.at = "calibrate"] => (b.force => converted'[n] = recorded[n])
  <2>1. ASSUME batch' = [b EXCEPT !.at = "calibrate"]
        PROVE  converted' = IF Skips(n) THEN converted
                            ELSE [converted EXCEPT ![n] = recorded[n]]
    <3>1. batch'.at = "calibrate"
      BY <1>3, <2>1
    <3>2. batch' # [b EXCEPT !.at = "convert", !.todo = @ \ {n}]
      BY <1>3, <3>1
    <3>. QED BY <1>2, <3>2
  <2>. QED BY <1>1, <1>4, <1>5, <2>1 DEF Skips
<1>8. PICK c : c = batch'
  OBVIOUS
<1>9. AllCaptured' <=> AllCaptured
  BY <1>2 DEF AllCaptured
<1>10. CASE c = [b EXCEPT !.at = "calibrate"]
  <2>1. /\ c \in [at : {"convert", "calibrate"}, force : BOOLEAN, complete : BOOLEAN,
                  todo : SUBSET Windows, results : [Windows -> Int]]
        /\ c.todo = b.todo /\ c.force = b.force /\ c.complete = b.complete
        /\ c.results = b.results
    BY <1>3, <1>10
  <2>2. Next1' = n
    BY <1>1, <1>8, <2>1 DEF Next1
  <2>3. b.force => converted'[n] = recorded[n]
    BY <1>7, <1>8, <1>10
  <2>. QED BY <1>2, <1>3, <1>6, <1>8, <1>9, <2>1, <2>2, <2>3 DEF BatchInv, Whole
<1>11. CASE c = [b EXCEPT !.at = "convert", !.todo = @ \ {n}]
  <2>1. /\ c \in [at : {"convert", "calibrate"}, force : BOOLEAN, complete : BOOLEAN,
                  todo : SUBSET Windows, results : [Windows -> Int]]
        /\ c.at = "convert" /\ c.force = b.force /\ c.complete = b.complete
        /\ c.results = b.results
    BY <1>3, <1>11
  <2>. QED BY <1>2, <1>3, <1>6, <1>8, <1>9, <2>1 DEF BatchInv, Whole
<1>. QED BY <1>2, <1>8, <1>10, <1>11

LEMMA CalibrateReport ==
    ASSUME ReportInv, CalibrateWindow
    PROVE  BatchInv'
<1>1. PICK b, n : b = batch /\ n = Next1
  OBVIOUS
<1>2. /\ b.at = "calibrate"
      /\ \/ batch' = [b EXCEPT !.at = "convert", !.todo = @ \ {n}]
         \/ batch' = [b EXCEPT !.at = "convert", !.todo = @ \ {n},
                               !.results[n] = converted[n]]
      /\ window' = window /\ recorded' = recorded
  BY <1>1 DEF CalibrateWindow, captureVars, Done
<1>3. /\ b \in [at : {"convert", "calibrate"}, force : BOOLEAN, complete : BOOLEAN,
                todo : SUBSET Windows, results : [Windows -> Int]]
      /\ b.complete => AllCaptured
      /\ b.force /\ b.complete => Whole(b.results) /\ converted[n] = recorded[n]
  BY <1>1, <1>2 DEF ReportInv, BatchInv, NoBatch
<1>4. converted \in [Windows -> Int]
  BY DEF ReportInv, CaptureInv
<1>5. n \in Windows
  <2>1. b.todo \in SUBSET Windows
    BY <1>3
  <2>2. b.todo # {}
    BY <1>1, <1>2 DEF ReportInv, BatchInv, NoBatch
  <2>. QED BY <1>1, <2>1, <2>2, FirstToDo DEF Next1
<1>6. PICK c : c = batch'
  OBVIOUS
<1>7. PICK r : r = [b.results EXCEPT ![n] = converted[n]]
  OBVIOUS
<1>8. /\ r \in [Windows -> Int]
      /\ b.force /\ b.complete => Whole(r)
  <2>1. b.results \in [Windows -> Int]
    BY <1>3
  <2>2. r \in [Windows -> Int]
    BY <1>4, <1>5, <1>7, <2>1
  <2>3. \A w \in Windows : r[w] = IF w = n THEN converted[n] ELSE b.results[w]
    BY <1>5, <1>7, <2>1
  <2>. QED BY <1>3, <2>2, <2>3 DEF Whole
<1>9. /\ c \in [at : {"convert", "calibrate"}, force : BOOLEAN, complete : BOOLEAN,
                todo : SUBSET Windows, results : [Windows -> Int]]
      /\ c.at = "convert" /\ c.force = b.force /\ c.complete = b.complete
      /\ c.results = b.results \/ c.results = r
  <2>1. CASE c = [b EXCEPT !.at = "convert", !.todo = @ \ {n}]
    BY <1>3, <2>1
  <2>2. CASE c = [b EXCEPT !.at = "convert", !.todo = @ \ {n}, !.results[n] = converted[n]]
    <3>1. c = [b EXCEPT !.at = "convert", !.todo = @ \ {n}, !.results = r]
      BY <1>3, <1>7, <2>2
    <3>. QED BY <1>3, <1>8, <3>1
  <2>. QED BY <1>2, <1>6, <2>1, <2>2
<1>10. AllCaptured' <=> AllCaptured
  BY <1>2 DEF AllCaptured
<1>11. c.force /\ c.complete => Whole(c.results)
  BY <1>3, <1>8, <1>9
<1>. QED BY <1>2, <1>3, <1>6, <1>9, <1>10, <1>11 DEF BatchInv, Whole

\* The summary is of the batch that ends with it.
LEMMA SummariseReport ==
    ASSUME ReportInv, Summarise
    PROVE  SummaryInv'
<1>1. /\ batch.at = "convert" /\ window' = window /\ recorded' = recorded
      /\ summary' = summary
           \/ summary' = [results |-> batch.results, force |-> batch.force,
                          complete |-> batch.complete]
  BY DEF Summarise, EndBatch, captureVars
<1>2. batch.force /\ batch.complete => AllCaptured /\ Whole(batch.results)
  BY <1>1 DEF ReportInv, BatchInv, NoBatch
<1>. QED BY <1>1, <1>2 DEF ReportInv, SummaryInv, AllCaptured, Whole

LEMMA BatchReport ==
    ASSUME ReportInv, Batch
    PROVE  ReportInv'
<1>1. UNCHANGED <<window, status, conn, t, wake, delay, recorded>>
  BY BatchLeavesCapture DEF captureVars
<1>2. ASSUME converted' \in [Windows -> Int]
      PROVE  CaptureInv'
  BY <1>1, <1>2 DEF ReportInv, CaptureInv
<1>3. ASSUME converted' = converted
      PROVE  CaptureInv'
  BY <1>1, <1>3 DEF ReportInv, CaptureInv
<1>4. ASSUME summary' = summary
      PROVE  SummaryInv'
  BY <1>1, <1>4 DEF ReportInv, SummaryInv, Whole, AllCaptured
<1>5. ASSUME NEW force \in BOOLEAN, StartBatch(force)
      PROVE  ReportInv'
  <2>1. converted' = converted /\ summary' = summary
    BY <1>5 DEF StartBatch
  <2>. QED BY <1>3, <1>4, <1>5, <2>1, StartReport DEF ReportInv
<1>6. CASE ConvertWindow
  <2>1. summary' = summary
    BY <1>6 DEF ConvertWindow
  <2>. QED BY <1>2, <1>4, <1>6, <2>1, ConvertReport DEF ReportInv
<1>7. CASE CalibrateWindow
  <2>1. converted' = converted /\ summary' = summary
    BY <1>7 DEF CalibrateWindow
  <2>. QED BY <1>3, <1>4, <1>7, <2>1, CalibrateReport DEF ReportInv
<1>8. CASE CalibrationTimesOut \/ Summarise
  <2>1. converted' = converted /\ batch' = NoBatch
    BY <1>8 DEF CalibrationTimesOut, Summarise, EndBatch
  <2>2. SummaryInv'
    BY <1>4, <1>8, SummariseReport DEF CalibrationTimesOut
  <2>3. BatchInv'
    BY <2>1 DEF BatchInv
  <2>. QED BY <1>3, <2>1, <2>2, <2>3 DEF ReportInv
<1>. QED BY <1>5, <1>6, <1>7, <1>8 DEF Batch

\* A batch with --force that starts after the last window reports the length of
\* the whole capture for each window it has a result of, whatever earlier
\* batches left converted half way (process_all_captures.py, convert_window and
\* the summary; capture_loop.py).
THEOREM ForcedSummariesAreWhole == CBSpec => []ForcedSeesWholeWindows
<1>1. CBInit => ReportInv
  <2>. SUFFICES ASSUME CBInit PROVE ReportInv
    OBVIOUS
  <2>1. None \in [Windows -> Int]
    BY DEF None
  <2>2. CaptureInv
    BY <2>1 DEF CBInit, CaptureInv
  <2>. QED BY <2>2 DEF CBInit, ReportInv, BatchInv, SummaryInv, NoSummary
<1>2. ReportInv /\ [CBNext]_cbVars => ReportInv'
  <2>. SUFFICES ASSUME ReportInv, [CBNext]_cbVars PROVE ReportInv'
    OBVIOUS
  <2>1. CASE UNCHANGED cbVars
    BY <2>1 DEF cbVars, captureVars, batchVars, ReportInv, CaptureInv, BatchInv, SummaryInv,
                AllCaptured, Whole, Next1
  <2>. QED BY <2>1, CaptureReport, BatchReport DEF CBNext
<1>3. ReportInv => ForcedSeesWholeWindows
  BY DEF ReportInv, SummaryInv, Whole, ForcedSeesWholeWindows
<1>. QED BY <1>1, <1>2, <1>3, PTL DEF CBSpec
=============================================================================
