--------------------------- MODULE KrakenConverter ---------------------------
(***************************************************************************)
(* A Kraken capture on its way to the book of a backtest: the exchange and *)
(* the connection of capture_kraken_ws.py (external), the conversion of    *)
(* kraken_ws_to_csv.py, which keeps one synthetic order per price level,   *)
(* and the replay of its rows through the engine.  Prices are in ticks.    *)
(* A message is its levels, bids before asks, which the converter treats   *)
(* one by one; a snapshot begins with an item of its own.                  *)
(***************************************************************************)
EXTENDS TapeReplay

CONSTANTS
    KrakenSizes,    \* sizes a level may change to
    MaxChanges,     \* levels one update may change
    KrakenMessages  \* bound on what the exchange does

\* The most items one thing that happens at the exchange sends.
Items == 2 * Cardinality(Price) + 1

ASSUME KrakenAssumption ==
    /\ KrakenSizes \subseteq Nat \ {0} /\ \A q \in KrakenSizes : Scaled(q) <= MaxQty
    /\ MaxChanges \in Nat \ {0} /\ KrakenMessages \in Nat
    /\ OrderId \subseteq Nat /\ 0 .. Items * KrakenMessages \subseteq OrderId

VARIABLES
    quotes,         \* [Side -> [Price -> size]]: the exchange's book, 0 for no level
    subscribed,
    socket,         \* items sent and not yet converted
    ids,            \* price_to_id, 0 for no entry
    next_id,
    fresh           \* history: nothing has happened since the last snapshot

krVars == <<engineVars, rows, n, quotes, subscribed, socket, ids, next_id, fresh>>

Nowhere == [s \in Side |-> [p \in Price |-> 0]]

KRInit ==
    /\ ReplayInit
    /\ quotes = Nowhere
    /\ subscribed = FALSE /\ socket = << >>
    /\ ids = Nowhere /\ next_id = 1
    /\ fresh = FALSE

KRQuiet == socket = << >> /\ Replayed

(***************************************************************************)
(* The exchange and the connection.                                        *)
(***************************************************************************)
Quoted(b) == {x \in Side \X Price : b[x[1]][x[2]] > 0}

Uncrossed(b) == \A p, q \in Price : b["Buy"][p] > 0 /\ b["Sell"][q] > 0 => p < q

Changed(b) == {x \in Side \X Price : b[x[1]][x[2]] # quotes[x[1]][x[2]]}

Item(what, s, p, qty) == [what |-> what, side |-> s, price |-> p, qty |-> qty]

\* The ways to list some levels of a book.
Listed(b, levels) ==
    {[i \in DOMAIN l |-> Item("level", l[i][1], l[i][2], b[l[i][1]][l[i][2]])] :
        l \in {k \in Listings(levels) :
                 \A i, j \in DOMAIN k : i < j /\ k[j][1] = "Buy" => k[i][1] = "Buy"}}

\* What happens out of connection is not seen.
Sent(messages) == socket' \in IF subscribed THEN messages ELSE {<< >>}

\* Orders come and go.
Moves ==
    \E ps \in SUBSET (Side \X Price) :
        /\ ps # {} /\ Cardinality(ps) <= MaxChanges
        /\ \E q \in [ps -> KrakenSizes \cup {0}] :
             LET b == [s \in Side |-> [p \in Price |-> IF <<s, p>> \in ps THEN q[<<s, p>>]
                                                       ELSE quotes[s][p]]]
             IN  /\ Changed(b) = ps /\ Uncrossed(b)
                 /\ quotes' = b
                 /\ Sent(Listed(b, ps))

\* An aggressor takes from the best level; its trade and the level's new size
\* travel on two channels, in either order.
Trades(s, p) ==
    /\ quotes[s][p] > 0
    /\ \A r \in Price \ {p} : quotes[s][r] > 0 => Better(s, p, r)
    /\ \E q \in 1 .. quotes[s][p] :
         LET trade == Item("trade", Opposite(s), p, q)
             level == Item("level", s, p, quotes[s][p] - q)
         IN  /\ quotes' = [quotes EXCEPT ![s][p] = @ - q]
             /\ Sent({<<trade, level>>, <<level, trade>>})

KRExchange ==
    /\ KRQuiet /\ n < KrakenMessages
    /\ n' = n + 1 /\ fresh' = FALSE
    /\ Moves \/ \E s \in Side, p \in Price : Trades(s, p)
    /\ UNCHANGED <<engineVars, rows, subscribed, ids, next_id>>

\* A drop is noticed, and connecting again brings a snapshot.
KRDrop ==
    /\ KRQuiet /\ subscribed
    /\ subscribed' = FALSE
    /\ UNCHANGED <<engineVars, rows, n, quotes, socket, ids, next_id, fresh>>

KRConnect ==
    /\ KRQuiet /\ ~subscribed /\ n < KrakenMessages
    /\ n' = n + 1 /\ subscribed' = TRUE /\ fresh' = TRUE
    /\ \E l \in Listed(quotes, Quoted(quotes)) :
         socket' = <<[what |-> "snapshot"]>> \o l
    /\ UNCHANGED <<engineVars, rows, quotes, ids, next_id>>

(***************************************************************************)
(* convert.                                                                *)
(***************************************************************************)

\* The level's order is cancelled, if there is one.
CancelRows(s, p) ==
    IF ids[s][p] = 0 THEN << >> ELSE <<Row("Cancel", s, p, 0, ids[s][p])>>

NothingKnown(s) == \A p \in Price : ids[s][p] = 0

\* Mutant: a snapshot is an update.
KeepOnSnapshot == socket' = Tail(socket) /\ UNCHANGED <<rows, ids, next_id>>

\* One iteration of the loops over the known levels of a side, or their end.
Reset ==
    /\ \/ \E s \in Side, p \in Price :
            /\ ids[s][p] # 0 /\ (s = "Buy" \/ NothingKnown("Buy"))
            /\ rows' = CancelRows(s, p)
            /\ ids' = [ids EXCEPT ![s][p] = 0]
            /\ UNCHANGED socket
       \/ /\ \A s \in Side : NothingKnown(s)
          /\ socket' = Tail(socket)
          /\ UNCHANGED <<rows, ids>>
    /\ UNCHANGED next_id

\* One level of a message.
ConvertLevel(s, p, qty) ==
    \/ /\ qty <= 0
       /\ rows' = CancelRows(s, p)
       /\ ids' = [ids EXCEPT ![s][p] = 0]
       /\ UNCHANGED next_id
    \/ /\ qty > 0 /\ Scaled(qty) <= 0
       /\ UNCHANGED <<rows, ids, next_id>>
    \/ /\ qty > 0 /\ Scaled(qty) > 0
       /\ rows' = CancelRows(s, p) \o <<Row("Add", s, p, Scaled(qty), next_id)>>
       /\ ids' = [ids EXCEPT ![s][p] = next_id]
       /\ next_id' = next_id + 1

\* The default of entry.get("trade_id", new_id()) takes an id in any case.
ConvertTrade(s, p, qty) ==
    /\ rows' = IF Scaled(qty) <= 0 THEN << >> ELSE <<Row("Trade", s, p, Scaled(qty), 0)>>
    /\ next_id' = next_id + 1
    /\ UNCHANGED ids

KRConvert ==
    /\ socket # << >> /\ Replayed
    /\ LET item == socket[1]
       IN  \/ item.what = "snapshot" /\ Reset
           \/ /\ item.what = "level" /\ ConvertLevel(item.side, item.price, item.qty)
              /\ socket' = Tail(socket)
           \/ /\ item.what = "trade" /\ ConvertTrade(item.side, item.price, item.qty)
              /\ socket' = Tail(socket)
    /\ UNCHANGED <<engineVars, n, quotes, subscribed, fresh>>

KRReplay ==
    /\ ReplayStep
    /\ UNCHANGED <<n, quotes, subscribed, socket, ids, next_id, fresh>>

KRNext == KRExchange \/ KRDrop \/ KRConnect \/ KRConvert \/ KRReplay

KRSpec == KRInit /\ [][KRNext]_krVars

(***************************************************************************)
(* Properties, of the moments in which the tape has caught up.             *)
(***************************************************************************)

\* Through updates, trades, drops and snapshots every order on the book is the
\* one price_to_id has for its level: an order the converter lost track of
\* would stay to the end of the tape, since nothing can cancel it.
NoGhosts ==
    KRQuiet => \A id \in Resting(book) : ids[book.index[id].side][book.index[id].price] = id

\* A snapshot is "an authoritative full-book reset" (lines 104-111): after it
\* the book is the exchange's, whatever was missed and however far the trades
\* had taken the tape's book apart before.
SnapshotResyncs ==
    KRQuiet /\ subscribed /\ fresh =>
        \A s \in Side, p \in Price : OnTape(s, p) = Scaled(quotes[s][p])

\* The replay may take a level that the feed still has (a bid that moves up meets
\* the ask its message withdraws later), but it never shows a level deeper than
\* the feed last gave it in whole units.
NeverDeeper ==
    KRQuiet /\ subscribed =>
        \A s \in Side, p \in Price :
            quotes[s][p] = 0 \/ Scaled(quotes[s][p]) > 0
              => OnTape(s, p) <= Scaled(quotes[s][p])

\* Kraken: after a snapshot the tape's book is the exchange's, before that no
\* level is deeper than in the feed, and no order on the tape is one that the
\* converter has lost track of.
KrakenBookFollows == SnapshotResyncs /\ NeverDeeper /\ NoGhosts
=============================================================================
