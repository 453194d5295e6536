--------------------------- MODULE LobsterConverter --------------------------
(***************************************************************************)
(* lobster_to_csv.py between the exchange that LOBSTER recorded (external: *)
(* visible orders in price-time priority) and the replay of its rows.      *)
(***************************************************************************)
EXTENDS TapeReplay

CONSTANTS MaxOrders, LobsterMessages      \* bounds

ASSUME LobsterAssumption ==
    /\ MaxOrders \in Nat /\ LobsterMessages \in Nat
    /\ OrderId \subseteq Nat /\ 1 .. MaxOrders \subseteq OrderId

VARIABLES
    visible,    \* [Side -> [Price -> sequence of [id, size]]]: the exchange's orders
    message,    \* the row of the message file under way
    remaining,  \* the converter's dict
    born,       \* orders so far
    overtaken   \* history: an order with others behind it was reduced

lbVars == <<engineVars, rows, n, visible, message, remaining, born, overtaken>>

NoMessage == [type |-> 0]

NoOrders == [s \in Side |-> [p \in Price |-> << >>]]

LBInit ==
    /\ ReplayInit
    /\ visible = NoOrders /\ message = NoMessage
    /\ remaining = << >>
    /\ born = 0 /\ overtaken = FALSE

LBQuiet == message = NoMessage /\ Replayed

(***************************************************************************)
(* The exchange.                                                           *)
(***************************************************************************)
VisiblePrices(s) == {p \in Price : visible[s][p] # << >>}

BestVisible(s) ==
    CHOOSE p \in VisiblePrices(s) : \A q \in VisiblePrices(s) \ {p} : Better(s, p, q)

Message(type, s, p, o, size) ==
    [type |-> type, id |-> o.id, size |-> size, price |-> p, side |-> s]

\* The i-th order of a queue loses some of its size, or all of it.
Less(q, i, size) ==
    IF size < q[i].size THEN [q EXCEPT ![i].size = @ - size] ELSE RemoveAt(q, i)

Loses(type, s, p, i, size) ==
    /\ visible' = [visible EXCEPT ![s][p] = Less(@, i, size)]
    /\ message' = Message(type, s, p, visible[s][p][i], size)

NewOrder(s, p) ==
    \E size \in 1 .. MaxQty :
        LET o == [id |-> born + 1, size |-> size]
        IN  /\ born < MaxOrders
            /\ \A q \in VisiblePrices(Opposite(s)) : Better(Opposite(s), p, q)
            /\ visible' = [visible EXCEPT ![s][p] = Append(@, o)]
            /\ message' = Message(1, s, p, o, size)
            /\ born' = born + 1
            /\ UNCHANGED overtaken

PartialCancellation(s, p) ==
    \E i \in DOMAIN visible[s][p], size \in 1 .. MaxQty :
        /\ size < visible[s][p][i].size
        /\ Loses(2, s, p, i, size)
        /\ overtaken' = (overtaken \/ i < Len(visible[s][p]))
        /\ UNCHANGED born

Deletion(s, p) ==
    \E i \in DOMAIN visible[s][p] :
        /\ Loses(3, s, p, i, visible[s][p][i].size)
        /\ UNCHANGED <<born, overtaken>>

\* An aggressor meets the oldest order at the best price.
Execution(s, p) ==
    \E size \in 1 .. MaxQty :
        /\ VisiblePrices(s) # {} /\ p = BestVisible(s)
        /\ size <= visible[s][p][1].size
        /\ Loses(4, s, p, 1, size)
        /\ UNCHANGED <<born, overtaken>>

Hidden == message' = [type |-> 5] /\ UNCHANGED <<visible, born, overtaken>>

LBExchange ==
    /\ LBQuiet /\ n < LobsterMessages
    /\ n' = n + 1
    /\ \/ \E s \in Side, p \in Price :
            NewOrder(s, p) \/ PartialCancellation(s, p) \/ Deletion(s, p) \/ Execution(s, p)
       \/ Hidden
    /\ UNCHANGED <<engineVars, rows, remaining>>

(***************************************************************************)
(* convert.                                                                *)
(***************************************************************************)
Tracked(id) == id \in DOMAIN remaining

Put(id, size) ==
    remaining' = [i \in DOMAIN remaining \cup {id} |-> IF i = id THEN size ELSE remaining[i]]

\* What a partial cancellation leaves; an order never added has nothing left.
LeftAfter(m) == Max({0, (IF Tracked(m.id) THEN remaining[m.id] ELSE m.size) - m.size})

ConvertNew(m) ==
    /\ Put(m.id, m.size)
    /\ rows' = <<Row("Add", m.side, m.price, m.size, m.id)>>

ConvertPartial(m) ==
    /\ Put(m.id, LeftAfter(m))
    /\ rows' = <<Row("Cancel", m.side, m.price, 0, m.id)>>
                 \o IF LeftAfter(m) > 0 THEN <<Row("Add", m.side, m.price, LeftAfter(m), m.id)>>
                                        ELSE << >>

ConvertDeletion(m) ==
    /\ remaining' = [i \in DOMAIN remaining \ {m.id} |-> remaining[i]]
    /\ rows' = <<Row("Cancel", m.side, m.price, 0, m.id)>>

\* Mutant: executions are not tracked.
UntrackedExecution(m) ==
    /\ UNCHANGED remaining
    /\ rows' = <<Row("Trade", Opposite(m.side), m.price, m.size, m.id)>>

ConvertExecution(m) ==
    /\ IF Tracked(m.id) THEN Put(m.id, Max({0, remaining[m.id] - m.size})) ELSE UNCHANGED remaining
    /\ rows' = <<Row("Trade", Opposite(m.side), m.price, m.size, m.id)>>

LBConvert ==
    /\ message # NoMessage /\ Replayed
    /\ message' = NoMessage
    /\ \/ message.type = 1 /\ ConvertNew(message)
       \/ message.type = 2 /\ ConvertPartial(message)
       \/ message.type = 3 /\ ConvertDeletion(message)
       \/ message.type = 4 /\ ConvertExecution(message)
       \/ message.type > 4 /\ UNCHANGED <<remaining, rows>>
    /\ UNCHANGED <<engineVars, visible, born, n, overtaken>>

LBReplay == ReplayStep /\ UNCHANGED <<visible, message, remaining, born, n, overtaken>>

LBNext == LBExchange \/ LBConvert \/ LBReplay

LBSpec == LBInit /\ [][LBNext]_lbVars

(***************************************************************************)
(* Properties.                                                             *)
(***************************************************************************)

\* Lines 13-14, "our engine reconstructs the book itself": order by order, in
\* the exchange's priority, as long as no order with others behind it is reduced
\* (the cancel and add that stand for it send it to the back).
ReconstructsTheBook ==
    LBQuiet /\ ~overtaken =>
        \A s \in Side, p \in Price :
            LET theirs == visible[s][p]
                ours == IF p \in Prices(book, s) THEN book.levels[s][p].queue ELSE << >>
            IN  /\ Len(ours) = Len(theirs)
                /\ \A i \in DOMAIN ours : ours[i].id = theirs[i].id /\ ours[i].qty = theirs[i].size

\* The converter knows what is left of every order the exchange shows: type 2
\* rows do not say it (lines 30-33), and executions change it, too.
KnowsWhatIsLeft ==
    message = NoMessage =>
        \A s \in Side, p \in Price : \A i \in DOMAIN visible[s][p] :
            LET o == visible[s][p][i]
            IN  Tracked(o.id) /\ remaining[o.id] = o.size

\* LOBSTER: the tape's book is the exchange's, order by order, and the converter
\* knows what is left of every visible order.
LobsterBookFollows == ReconstructsTheBook /\ KnowsWhatIsLeft
=============================================================================
