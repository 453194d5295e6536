--------------------------- MODULE BitmexConverter ---------------------------
(***************************************************************************)
(* bitmex_ws_to_csv.py between BitMEX's order book feed (external) and the *)
(* replay of its rows.  The feed names levels by ids that stand for one    *)
(* price for good; only a partial and an insert carry the price.  Level    *)
(* ids are the prices here, trades have the id 0.  A message is the        *)
(* entries of its data, which the converter treats one by one.             *)
(***************************************************************************)
EXTENDS TapeReplay

CONSTANTS
    BitmexSizes,    \* sizes a level may be given
    BitmexMessages  \* bound on what the exchange does

ASSUME BitmexAssumption ==
    /\ BitmexSizes \subseteq Nat \ {0} /\ \A q \in BitmexSizes : Scaled(q) <= MaxQty
    /\ BitmexMessages \in Nat
    /\ Price \subseteq Nat \ {0} /\ Price \cup {0} \subseteq OrderId

VARIABLES
    exch,           \* [levels there are -> [side, size]]
    connected,
    wire,           \* entries sent and not yet converted
    id_to_price,    \* [ids tracked -> side]
    late,           \* history: levels of which a trade came after the size it left,
                    \* or that came to lie across a stale one
    stale,          \* history: levels tracked whose end, or last listing, was missed
    dust            \* history: levels not tracked for a size that rounds to nothing

history == <<late, stale, dust>>
bmVars == <<engineVars, rows, n, exch, connected, wire, id_to_price, history>>

BMInit ==
    /\ ReplayInit
    /\ exch = << >> /\ connected = FALSE /\ wire = << >>
    /\ id_to_price = << >>
    /\ late = {} /\ stale = {} /\ dust = {}

BMQuiet == wire = << >> /\ Replayed

(***************************************************************************)
(* The exchange.                                                           *)
(***************************************************************************)
With(f, id, x) == [i \in DOMAIN f \cup {id} |-> IF i = id THEN x ELSE f[i]]
Gone(f, id) == [i \in DOMAIN f \ {id} |-> f[i]]

BidsBelowAsks(b) ==
    \A p, q \in DOMAIN b : b[p].side = "Buy" /\ b[q].side = "Sell" => p < q

LevelEntry(action, id, side, size) == [action |-> action, id |-> id, side |-> side, size |-> size]

\* What happens out of connection is not seen.
Becomes(b, entries) ==
    /\ exch' = b
    /\ wire' = IF connected THEN entries ELSE << >>

\* The levels of b that a stale one of the other side lies across.
Met(b) ==
    {p \in DOMAIN b : \E z \in stale \ {p} :
        id_to_price[z] # b[p].side /\ ~Better(b[p].side, z, p)}

Relisted(levels, b) ==
    LET nothing == {p \in levels : Scaled(b[p].size) = 0}
    IN  /\ late' = (late \ levels) \cup Met(b)
        /\ stale' = (stale \ levels) \cup {p \in nothing : p \in DOMAIN id_to_price}
        /\ dust' = (dust \ levels) \cup {p \in nothing : p \notin DOMAIN id_to_price}

Resized(id, b, traded) ==
    LET nothing == {p \in {id} : Scaled(b[p].size) = 0}
    IN  IF ~connected THEN UNCHANGED history
        ELSE /\ late' = (late \ {id}) \cup Met(b) \cup traded
             /\ stale' = stale \ nothing
             /\ dust' = dust \cup nothing

Removed(id) ==
    /\ late' = late \ {id} /\ dust' = dust \ {id}
    /\ stale' = IF connected THEN stale \ {id}
                ELSE stale \cup {p \in {id} : p \in DOMAIN id_to_price}

Inserts(id) ==
    /\ id \notin DOMAIN exch
    /\ \E s \in Side, q \in BitmexSizes :
         LET b == With(exch, id, [side |-> s, size |-> q])
         IN  /\ BidsBelowAsks(b)
             /\ Becomes(b, <<LevelEntry("insert", id, s, q)>>)
             /\ IF connected THEN Relisted({id}, b) ELSE UNCHANGED history

Resizes(id) ==
    /\ id \in DOMAIN exch
    /\ \E q \in BitmexSizes \ {exch[id].size} :
         LET b == [exch EXCEPT ![id].size = q]
         IN  /\ Becomes(b, <<LevelEntry("update", id, exch[id].side, q)>>)
             /\ Resized(id, b, {})

Deletes(id) ==
    /\ id \in DOMAIN exch
    /\ Becomes(Gone(exch, id), <<LevelEntry("delete", id, exch[id].side, exch[id].size)>>)
    /\ Removed(id)

\* The best level of a side trades, in part or whole: the trade and what becomes
\* of the level come in two tables, in either order.
Fills(id) ==
    /\ id \in DOMAIN exch
    /\ \A p \in DOMAIN exch \ {id} :
         exch[p].side = exch[id].side => Better(exch[id].side, id, p)
    /\ \E q \in 1 .. exch[id].size, first \in BOOLEAN :
         LET s == exch[id].side
             left == exch[id].size - q
             b == [exch EXCEPT ![id].size = left]
             trade == LevelEntry("trade", id, Opposite(s), q)
             with(entry) == IF first THEN <<trade, entry>> ELSE <<entry, trade>>
         IN  \/ /\ left > 0
                /\ Becomes(b, with(LevelEntry("update", id, s, left)))
                /\ Resized(id, b, IF first THEN {} ELSE {id})
             \/ /\ left = 0
                /\ Becomes(Gone(exch, id), with(LevelEntry("delete", id, s, 0)))
                /\ Removed(id)

BMExchange ==
    /\ BMQuiet /\ n < BitmexMessages
    /\ n' = n + 1
    /\ \E id \in Price : Inserts(id) \/ Resizes(id) \/ Deletes(id) \/ Fills(id)
    /\ UNCHANGED <<engineVars, rows, connected, id_to_price>>

\* Connecting brings a partial with the levels there are.
BMConnect ==
    /\ BMQuiet /\ n < BitmexMessages /\ ~connected
    /\ n' = n + 1 /\ connected' = TRUE
    /\ \E l \in Listings(DOMAIN exch) :
         wire' = [i \in DOMAIN l |-> LevelEntry("partial", l[i], exch[l[i]].side, exch[l[i]].size)]
    /\ Relisted(DOMAIN exch, exch)
    /\ UNCHANGED <<engineVars, rows, exch, id_to_price>>

BMDrop ==
    /\ BMQuiet /\ connected /\ connected' = FALSE
    /\ UNCHANGED <<engineVars, rows, n, exch, wire, id_to_price, history>>

(***************************************************************************)
(* convert.                                                                *)
(***************************************************************************)
Known(id) == id \in DOMAIN id_to_price

AddRow(id, side, units) == <<Row("Add", side, id, units, id)>>

\* Mutant: an order is added beside the one the id has.
NoCancel(id, side) == << >>

CancelRow(id, side) == <<Row("Cancel", side, id, 0, id)>>

\* partial and insert; the cancel is by id, whatever side and price it says.
InsertEntry(e) ==
    IF Scaled(e.size) = 0 THEN UNCHANGED <<rows, id_to_price>>
    ELSE /\ rows' = (IF Known(e.id) THEN CancelRow(e.id, e.side) ELSE << >>)
                    \o AddRow(e.id, e.side, Scaled(e.size))
         /\ id_to_price' = With(id_to_price, e.id, e.side)

UpdateEntry(e) ==
    IF ~Known(e.id) THEN UNCHANGED <<rows, id_to_price>>
    ELSE LET side == id_to_price[e.id]
         IN  IF Scaled(e.size) > 0
             THEN /\ rows' = CancelRow(e.id, side) \o AddRow(e.id, side, Scaled(e.size))
                  /\ UNCHANGED id_to_price
             ELSE rows' = CancelRow(e.id, side) /\ id_to_price' = Gone(id_to_price, e.id)

DeleteEntry(e) ==
    IF ~Known(e.id) THEN UNCHANGED <<rows, id_to_price>>
    ELSE /\ rows' = CancelRow(e.id, id_to_price[e.id])
         /\ id_to_price' = Gone(id_to_price, e.id)

TradeEntry(e) ==
    /\ rows' = IF Scaled(e.size) = 0 THEN << >>
               ELSE <<Row("Trade", e.side, e.id, Scaled(e.size), 0)>>
    /\ UNCHANGED id_to_price

BMConvert ==
    /\ wire # << >> /\ Replayed
    /\ wire' = Tail(wire)
    /\ \/ wire[1].action \in {"partial", "insert"} /\ InsertEntry(wire[1])
       \/ wire[1].action = "update" /\ UpdateEntry(wire[1])
       \/ wire[1].action = "delete" /\ DeleteEntry(wire[1])
       \/ wire[1].action = "trade" /\ TradeEntry(wire[1])
    /\ UNCHANGED <<engineVars, n, exch, connected, history>>

BMReplay == ReplayStep /\ UNCHANGED <<n, exch, connected, wire, id_to_price, history>>

BMNext == BMExchange \/ BMConnect \/ BMDrop \/ BMConvert \/ BMReplay

BMSpec == BMInit /\ [][BMNext]_bmVars

(***************************************************************************)
(* Properties.                                                             *)
(***************************************************************************)

\* Every order on the book is of a tracked id, on its side: through partials,
\* sizes that round to nothing and sides that changed unseen, a delete can
\* still reach it.
EveryOrderIsTracked ==
    BMQuiet => \A id \in Resting(book) :
                  /\ Known(id)
                  /\ book.index[id] = [side |-> id_to_price[id], price |-> id]

\* What the exchange has at a level, in units of the tape.
Due(s, p) == IF p \in DOMAIN exch /\ exch[p].side = s THEN Scaled(exch[p].size) ELSE 0

\* A partial is no reset, and what was deleted unseen stays on the tape.  No
\* other level is deeper there than at the exchange: through partials, updates,
\* drops and trades whose resize is converted first or last.
NoLevelIsDeeper ==
    BMQuiet /\ connected =>
        \A s \in Side, p \in Price \ stale : OnTape(s, p) <= Due(s, p)

\* And it is as deep, unless a trade came after the size it left, and was taken
\* from it twice, or a stale level of the other side was in its way, or its size
\* once rounded to nothing.
LevelsAreAsDeep ==
    BMQuiet /\ connected =>
        \A s \in Side, p \in Price \ (stale \cup late \cup dust) : OnTape(s, p) = Due(s, p)

\* BitMEX: a delete can reach every order on the tape, and but for what was missed
\* and what was traded late the tape's book is the exchange's.
BitmexBookFollows == EveryOrderIsTracked /\ NoLevelIsDeeper /\ LevelsAreAsDeep
=============================================================================
