-------------------------- MODULE CalibrationReplay --------------------------
(***************************************************************************)
(* The replay that calibrate_hawkes.cpp and bootstrap_ci.cpp share: the    *)
(* tape goes through an engine of its own, and before each event the mid   *)
(* and the rolling OFI are read off the book; trades become arrivals of    *)
(* the Hawkes process and samples of the OFI / forward-return correlation. *)
(***************************************************************************)
EXTENDS MatchingEngine, Ofi

CONSTANTS
    Events,     \* market events the tape may carry: [type, side, price, qty, id]
    Gaps,       \* time between two of them
    MaxEvents,  \* bound on the tape
    Horizon     \* events ahead of a forward return; 20 in the code

ASSUME ReplayAssumption ==
    /\ MaxEvents \in Nat /\ Horizon \in Nat \ {0}
    /\ Gaps \subseteq Nat
    /\ \A p \in Price : p > 0
    /\ Events \subseteq [type : {"Add", "Cancel", "Trade"}, side : Side, price : Price,
                         qty : Quantity, id : OrderId]
    /\ FALSE \in Owners

VARIABLES
    at,         \* "read", "apply", "busy" in submit, "resolved"
    event,      \* the event under way
    mids,       \* bid + ask, twice the mid; 0 while unknown
    rolling,    \* the RollingOFI
    hawkes_events, samples,     \* samples: "pending" in the code
    pairs,      \* ofi_signal and fwd_return
    snaps       \* for the properties: what the book showed before each event

replayVars == <<at, event, mids, rolling, hawkes_events, samples, pairs, snaps>>
crVars == <<engineVars, replayVars>>

CRInit ==
    /\ Init
    /\ at = "read"
    /\ event = [ts |-> 0]
    /\ mids = << >> /\ snaps = << >>
    /\ rolling = NewRollingOfi
    /\ hawkes_events = << >> /\ samples = << >> /\ pairs = << >>

Mid ==
    IF Prices(book, "Buy") # {} /\ Prices(book, "Sell") # {}
      THEN Best(book, "Buy") + Best(book, "Sell")
      ELSE IF mids = << >> THEN 0 ELSE Last(mids)

\* Mutant: the sample is taken before the rolling sum is brought up to date.
StaleSample == [ofi |-> rolling.sum, idx |-> Len(mids) + 1]

Sample == [ofi |-> Update(rolling, book).sum, idx |-> Len(mids) + 1]

ReadEvent(e, gap) ==
    /\ at = "read" /\ Len(mids) < MaxEvents
    /\ event' = [type |-> e.type, side |-> e.side, price |-> e.price, qty |-> e.qty,
                 id |-> e.id, ts |-> event.ts + gap]
    /\ mids' = Append(mids, Mid)
    /\ rolling' = Update(rolling, book)
    /\ IF e.type = "Trade"
         THEN /\ hawkes_events' = Append(hawkes_events, [t |-> event'.ts, mark |-> e.side])
              /\ samples' = Append(samples, Sample)
         ELSE UNCHANGED <<hawkes_events, samples>>
    /\ snaps' = Append(snaps, SnapshotLevels(book))
    /\ at' = "apply"
    /\ UNCHANGED <<engineVars, pairs>>

TapeOrder ==
    [id |-> event.id, side |-> event.side, type |-> IF event.type = "Add" THEN "Limit" ELSE "IOC",
     price |-> event.price, qty |-> event.qty, remaining |-> 0, status |-> "New",
     is_ours |-> FALSE]

ApplyMarketEvent ==
    /\ at = "apply"
    /\ IF event.type = "Cancel" THEN Cancel(event.id) /\ at' = "read"
                                ELSE Submit(TapeOrder) /\ at' = "busy"
    /\ UNCHANGED <<event, mids, rolling, hawkes_events, samples, pairs, snaps>>

InEngine ==
    /\ at = "busy"
    /\ Step
    /\ at' = IF phase = "done" THEN "read" ELSE "busy"
    /\ UNCHANGED <<event, mids, rolling, hawkes_events, samples, pairs, snaps>>

\* min(idx + horizon, last).
Ahead(s) == IF s.idx + Horizon < Len(mids) THEN s.idx + Horizon ELSE Len(mids)

Known(s) == mids[s.idx] > 0 /\ mids[Ahead(s)] > 0

PairOf(s) ==
    [ofi |-> s.ofi, fwd |-> mids[Ahead(s)] - mids[s.idx], idx |-> s.idx, upto |-> Ahead(s)]

\* The tape is read: forward returns of the samples whose mids are known.
Resolve ==
    /\ at = "read" /\ mids # << >>
    /\ pairs' = LET over[k \in 0 .. Len(samples)] ==
                      IF k = 0 THEN << >>
                      ELSE IF Known(samples[k]) THEN Append(over[k - 1], PairOf(samples[k]))
                      ELSE over[k - 1]
                IN  over[Len(samples)]
    /\ at' = "resolved"
    /\ UNCHANGED <<engineVars, event, mids, rolling, hawkes_events, samples, snaps>>

CRNext ==
    \/ \E e \in Events, gap \in Gaps : ReadEvent(e, gap)
    \/ ApplyMarketEvent
    \/ InEngine
    \/ Resolve

CRSpec == CRInit /\ [][CRNext]_crVars

(***************************************************************************)
(* Properties.                                                             *)
(***************************************************************************)

\* The last Window differences between consecutive snapshots up to the k-th.
OfiUpTo(k) ==
    SumFunctionOnSet([i \in 2 .. k |-> MultilevelOfi(snaps[i - 1], snaps[i])],
                     {i \in 2 .. k : i > k - Window})

\* The signal of a sample is the order flow of the books before its trade,
\* through the book as it stood right before it, and nothing later: neither
\* the trade's own effect nor an event short of it.
SamplesSeeThePast ==
    \A k \in DOMAIN samples : samples[k].ofi = OfiUpTo(samples[k].idx)

\* Every sample taken after the book was first two-sided makes a pair; its mids
\* are those of the latest two-sided book at either end, and the later end is
\* Horizon events on, or the last event.
PairsUseLatestMids ==
    LET twoSided(k) == snaps[k]["Buy"] # << >> /\ snaps[k]["Sell"] # << >>
        latest(k) == CHOOSE i \in 1 .. k : twoSided(i) /\ \A j \in (i + 1) .. k : ~twoSided(j)
        mid(k) == snaps[latest(k)]["Buy"][1].px + snaps[latest(k)]["Sell"][1].px
        known == {k \in DOMAIN samples : \E i \in 1 .. samples[k].idx : twoSided(i)}
    IN  /\ at = "resolved" => Len(pairs) = Cardinality(known)
        /\ \A k \in DOMAIN pairs :
          /\ pairs[k].fwd = mid(pairs[k].upto) - mid(pairs[k].idx)
          /\ pairs[k].upto - pairs[k].idx = Horizon \/ pairs[k].upto = Len(snaps)
=============================================================================
