------------------------------ MODULE TapeReplay -----------------------------
(***************************************************************************)
(* The rows a converter writes, on their way through load_csv_feed and     *)
(* apply_market_event to the engine.  They are replayed as they are        *)
(* written: only their order matters to the book.                          *)
(***************************************************************************)
EXTENDS MatchingEngine

CONSTANT Units      \* sizes of an exchange in one unit of the tape

\* Rows are replayed as orders of the market.
ASSUME TapeAssumption == Units \in Nat \ {0} /\ FALSE \in Owners

VARIABLES
    rows,       \* written and not yet replayed
    n           \* things the exchange has done, which the converters bound

ReplayInit == Init /\ rows = << >> /\ n = 0

\* round(size * qty_scale), half to even.
Scaled(q) ==
    LET down == q \div Units
        twice == 2 * (q % Units)
    IN  IF twice > Units \/ (twice = Units /\ down % 2 = 1) THEN down + 1 ELSE down

Row(type, side, price, qty, id) ==
    [type |-> type, side |-> side, price |-> price, qty |-> qty, id |-> id]

RowOrder(row) ==
    [id |-> row.id, side |-> row.side, type |-> IF row.type = "Add" THEN "Limit" ELSE "IOC",
     price |-> row.price, qty |-> row.qty, remaining |-> 0, status |-> "New",
     is_ours |-> FALSE]

ReplayRow ==
    /\ rows # << >>
    /\ IF rows[1].type = "Cancel" THEN Cancel(rows[1].id) ELSE Submit(RowOrder(rows[1]))
    /\ rows' = Tail(rows)

ReplayStep == ReplayRow \/ (Step /\ UNCHANGED rows)

Replayed == rows = << >> /\ phase = "idle"

\* What the book of the tape shows at a level.
OnTape(s, p) == IF p \in Prices(book, s) THEN book.levels[s][p].total_qty ELSE 0

\* The ways to list a set.
Listings(S) ==
    {q \in [1 .. Cardinality(S) -> S] : \A x \in S : \E i \in DOMAIN q : q[i] = x}
=============================================================================
