--------------------------- MODULE BlockBootstrap ----------------------------
(***************************************************************************)
(* The two block bootstraps of bootstrap_ci.cpp.  Arrivals are put into    *)
(* the time blocks they fall in; a replicate fills NBlocks slots, each     *)
(* with the arrivals of a block drawn at random, moved to the slot.  The   *)
(* pairs of the correlation are resampled by runs of OfiBlock indices.     *)
(*                                                                         *)
(* Times are in units of 1 / NBlocks of the tape's tick, so that a block   *)
(* lasts the whole number T.                                               *)
(***************************************************************************)
EXTENDS Integers, Sequences, SequencesExt, FiniteSetsExt

CONSTANTS
    NBlocks,
    Span,           \* bound on the tape's duration in ticks
    MaxArrivals,    \* bound on the arrivals
    MinArrivals,    \* a replicate with fewer is not fitted; 20 in the code
    OfiBlock,
    MaxPairs        \* bound on the pairs

BootstrapAssumption ==
    /\ NBlocks \in Nat \ {0} /\ Span \in Nat \ {0} /\ MaxArrivals \in Nat
    /\ MinArrivals \in Nat /\ OfiBlock \in Nat \ {0} /\ MaxPairs \in Nat

VARIABLES
    tape,       \* times of the arrivals, shifted to start at 0
    n_pairs,    \* length of ofi_signal
    slot, slot_start,
    resampled,  \* [t, of, slot]: the arrival it is a copy of, for the properties
    drawn,      \* indices of bx and by
    branching   \* the replicate's entry in boot_branching: "none", "zero", "fitted"

bbVars == <<tape, n_pairs, slot, slot_start, resampled, drawn, branching>>

\* Duration of a block: T / n_blocks.
BlockDur == Last(tape)

T == NBlocks * BlockDur

Tapes ==
    {q \in UNION {[1 .. n -> 0 .. Span] : n \in 2 .. MaxArrivals} :
       q[1] = 0 /\ q[Len(q)] > 0 /\ \A k \in 1 .. Len(q) - 1 : q[k] <= q[k + 1]}

BBInit ==
    /\ tape \in Tapes
    /\ n_pairs \in 1 .. MaxPairs
    /\ slot = 0 /\ slot_start = 0
    /\ resampled = << >> /\ drawn = << >>
    /\ branching = "none"

Time(k) == tape[k] * NBlocks

\* Mutant: rounded to the nearest block.
NearestBlock(k) == Min({(2 * Time(k) + BlockDur) \div (2 * BlockDur), NBlocks - 1})

\* min(e.t / block_dur, n_blocks - 1).
BlockOf(k) == Min({Time(k) \div BlockDur, NBlocks - 1})

\* Where arrivals of block src land in the slot.
InSlot(src) == [k \in DOMAIN tape |-> slot_start + Time(k) - src * BlockDur]

DrawBlock(src) ==
    /\ slot < NBlocks
    /\ LET at == InSlot(src)
           bucket == SelectSeq([k \in DOMAIN tape |-> k], LAMBDA k : BlockOf(k) = src)
       IN  resampled' = resampled \o
             [i \in DOMAIN bucket |-> [t |-> at[bucket[i]], of |-> bucket[i], slot |-> slot]]
    /\ slot' = slot + 1
    /\ slot_start' = slot_start + BlockDur
    /\ UNCHANGED <<tape, n_pairs, drawn, branching>>

\* The replicate is sorted, and fitted if there is enough of it.  The order of
\* arrivals with one time is open in the code, and no property looks at it.
FinishReplicate ==
    /\ slot = NBlocks /\ branching = "none"
    /\ resampled' = SortSeq(resampled, LAMBDA a, b : a.t < b.t)
    /\ branching' = IF Len(resampled) < MinArrivals THEN "zero" ELSE "fitted"
    /\ UNCHANGED <<tape, n_pairs, slot, slot_start, drawn>>

NOfiBlocks == (n_pairs + OfiBlock - 1) \div OfiBlock

\* One past the last index of block src; indices start at 0.
BlockEnd(src) == Min({(src + 1) * OfiBlock, n_pairs})

DrawPairs(src) ==
    /\ Len(drawn) < NOfiBlocks
    /\ drawn' = Append(drawn, [i \in 1 .. BlockEnd(src) - src * OfiBlock |-> src * OfiBlock + i - 1])
    /\ UNCHANGED <<tape, n_pairs, slot, slot_start, resampled, branching>>

BBNext ==
    \/ \E src \in 0 .. NBlocks - 1 : DrawBlock(src)
    \/ FinishReplicate
    \/ \E src \in 0 .. NOfiBlocks - 1 : DrawPairs(src)

BBSpec == BBInit /\ [][BBNext]_bbVars

(***************************************************************************)
(* Properties.                                                             *)
(***************************************************************************)

\* The fit is given slot_start for T: no resampled arrival lies beyond it (its
\* compensator would be negative) or before 0, each stays within its slot, and
\* between arrivals of one slot the gaps are those of the tape.
SlotsKeepStructure ==
    \A i \in DOMAIN resampled :
        LET a == resampled[i]
        IN  /\ a.t \in a.slot * BlockDur .. (a.slot + 1) * BlockDur
            /\ a.t <= slot_start
            /\ \A j \in DOMAIN resampled :
                 resampled[j].slot = a.slot =>
                   resampled[j].t - a.t = Time(resampled[j].of) - Time(a.of)

\* The buckets lose no arrival and have none twice: any draw copies whole
\* blocks, and the draw that takes every block in its own place is the tape.
OrderlyDrawIsTheTape ==
    branching # "none" =>
        /\ LET copies(k) == Cardinality({i \in DOMAIN resampled : resampled[i].of = k})
           IN  \A k, l \in DOMAIN tape : BlockOf(k) = BlockOf(l) => copies(k) = copies(l)
        /\ (\A i \in DOMAIN resampled : BlockOf(resampled[i].of) = resampled[i].slot) =>
             \A i \in DOMAIN resampled : resampled[i].t = Time(resampled[i].of)

\* bootstrap_ci.cpp lines 6-8: contiguous chunks are resampled.  All chunks
\* together cover the pairs, and only the chunk with the end of the sample is
\* shorter than the others.
ChunksAreContiguous ==
    \A b \in DOMAIN drawn :
        /\ \A i \in 1 .. Len(drawn[b]) - 1 : drawn[b][i + 1] = drawn[b][i] + 1
        /\ drawn[b] # << >> /\ drawn[b][1] % OfiBlock = 0
        /\ Len(drawn[b]) = OfiBlock \/ Last(drawn[b]) = n_pairs - 1
=============================================================================
