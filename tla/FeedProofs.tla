----------------------------- MODULE FeedProofs -----------------------------
(***************************************************************************)
(* The four sources of a tape, for every value of the constants.           *)
(*                                                                         *)
(* The first part is about the synthetic tape, for every length, ring and  *)
(* number of levels, and all coin tosses: the ring bounds what a replay    *)
(* holds, wherever the tape is cut, and ids are given once and withdrawn   *)
(* at most once.  A tape is sound if it has both; emitting an event keeps  *)
(* it sound when the ring is what GenInv says: the live ids, oldest first. *)
(*                                                                         *)
(* The second part follows a LOBSTER message through the converter and the *)
(* replay to the book.  A view is what the exchange shows.  Each row leads *)
(* from one view to the next; in the middle of a row the engine's book is  *)
(* described by where its remaining steps lead (InProgress), so that only  *)
(* the step that takes a row up has something to show.                     *)
(*                                                                         *)
(* The third is about converters that keep one order for each level:       *)
(* through the rows and the engine's steps, whatever rests or is about to  *)
(* is an order they track, no larger than a cap (Tracks).  It is used for  *)
(* Kraken, whose snapshots lead the book level by level to the exchange's, *)
(* and for BitMEX, where the cap of a level that is not stale is what the  *)
(* exchange has there.                                                     *)
(***************************************************************************)
EXTENDS SyntheticFeed, KrakenConverter, BitmexConverter, LobsterConverter,
        MatchingEngineProofs, FunctionTheorems

(***************************************************************************)
(* Maxima.                                                                 *)
(***************************************************************************)

LEMMA LargerOfTwo ==
    ASSUME NEW a \in Int, NEW b \in Int
    PROVE  Max({a, b}) \in Int /\ Max({a, b}) >= a /\ Max({a, b}) >= b
<1>1. \E x \in {a, b} : \A y \in {a, b} : x >= y
    OBVIOUS
<1>2. Max({a, b}) \in {a, b} /\ \A y \in {a, b} : Max({a, b}) >= y
    BY <1>1 DEF Max
<1> QED
    BY <1>2

(***************************************************************************)
(* Tapes.                                                                  *)
(***************************************************************************)

Event ==
    [type : {"Add", "Cancel", "Trade"}, side : {"Buy", "Sell"}, price : Int, id : Nat]

\* What the first k events give and take.
IdsTo(s, k, type) == {s[i].id : i \in {j \in 1 .. k : s[j].type = type}}

LiveTo(s, k) == IdsTo(s, k, "Add") \ IdsTo(s, k, "Cancel")

\* The ring's promise, of the first k events.
BoundedTo(s, k) ==
    /\ IsFiniteSet(LiveTo(s, k)) /\ Cardinality(LiveTo(s, k)) <= MaxLive + 1
    /\ \A old \in IdsTo(s, k, "Cancel"), new \in LiveTo(s, k) : old < new

\* Event i is the only one with its id, but for a cancel after its order.
UsedOnce(s, i) ==
    /\ \A j \in 1 .. Len(s) : i # j /\ s[i].id = s[j].id =>
         {s[i].type, s[j].type} = {"Add", "Cancel"} /\ (i < j => s[i].type = "Add")
    /\ s[i].type = "Cancel" => s[i].id \in IdsTo(s, i, "Add")
    /\ s[i].type # "Cancel" => s[i].price > 0

Sound(s) ==
    /\ s \in Seq(Event)
    /\ \A k \in 0 .. Len(s) : BoundedTo(s, k)
    /\ \A i \in 1 .. Len(s) : UsedOnce(s, i)

LEMMA TapeTypes ==
    ASSUME NEW s \in Seq(Event)
    PROVE  /\ Len(s) \in Nat /\ DOMAIN s = 1 .. Len(s)
           /\ \A i \in 1 .. Len(s) :
                /\ s[i] \in Event /\ s[i].id \in Nat /\ s[i].price \in Int
                /\ s[i].type \in {"Add", "Cancel", "Trade"}
<1>1. \A i \in 1 .. Len(s) : s[i] \in Event
    BY ElementOfSeq
<1> QED
    BY <1>1 DEF Event

\* Only the events count.
LEMMA SameIds ==
    ASSUME NEW r, NEW s, NEW k, \A i \in 1 .. k : r[i] = s[i]
    PROVE  /\ \A type : IdsTo(r, k, type) = IdsTo(s, k, type)
           /\ LiveTo(r, k) = LiveTo(s, k)
           /\ BoundedTo(r, k) <=> BoundedTo(s, k)
<1>1. \A type : IdsTo(r, k, type) = IdsTo(s, k, type)
    BY DEF IdsTo
<1>2. LiveTo(r, k) = LiveTo(s, k)
    BY <1>1 DEF LiveTo
<1> QED
    BY <1>1, <1>2 DEF BoundedTo

\* One event more.
LEMMA NextIds ==
    ASSUME NEW s, NEW k \in Nat, NEW type
    PROVE  IdsTo(s, k + 1, type)
             = IdsTo(s, k, type) \cup (IF s[k + 1].type = type THEN {s[k + 1].id} ELSE {})
<1>1. \A i : i \in 1 .. k + 1 <=> (i \in 1 .. k \/ i = k + 1)
    OBVIOUS
<1>2. ASSUME NEW x
      PROVE  x \in IdsTo(s, k + 1, type)
               <=> (x \in IdsTo(s, k, type) \/ (s[k + 1].type = type /\ x = s[k + 1].id))
    BY <1>1 DEF IdsTo
<1> QED
    BY <1>2

LEMMA IdsGrow ==
    ASSUME NEW s, NEW k \in Nat, NEW type, s[k + 1].type = type
    PROVE  \A y : y \in IdsTo(s, k + 1, type)
                    <=> (y \in IdsTo(s, k, type) \/ y = s[k + 1].id)
<1>1. IdsTo(s, k + 1, type)
        = IdsTo(s, k, type) \cup (IF s[k + 1].type = type THEN {s[k + 1].id} ELSE {})
    BY NextIds
<1> QED
    BY <1>1

LEMMA IdsStay ==
    ASSUME NEW s, NEW k \in Nat, NEW type, s[k + 1].type # type
    PROVE  IdsTo(s, k + 1, type) = IdsTo(s, k, type)
<1>1. IdsTo(s, k + 1, type)
        = IdsTo(s, k, type) \cup (IF s[k + 1].type = type THEN {s[k + 1].id} ELSE {})
    BY NextIds
<1> QED
    BY <1>1

\* A tape that is cut is sound.
LEMMA CutIsSound ==
    ASSUME NEW s, Sound(s), NEW r \in Seq(Event), Len(r) <= Len(s),
           \A i \in 1 .. Len(r) : r[i] = s[i]
    PROVE  Sound(r)
<1>1. Len(r) \in Nat /\ Len(s) \in Nat
    BY DEF Sound
<1>2. ASSUME NEW k \in 0 .. Len(r)
      PROVE  /\ \A type : IdsTo(r, k, type) = IdsTo(s, k, type)
             /\ BoundedTo(r, k) <=> BoundedTo(s, k)
    <2>1. \A i \in 1 .. k : r[i] = s[i]
        BY <1>1
    <2> QED
        BY <2>1, SameIds
<1>3. ASSUME NEW k \in 0 .. Len(r) PROVE BoundedTo(r, k)
    <2>1. k \in 0 .. Len(s)
        BY <1>1
    <2> QED
        BY <1>2, <2>1 DEF Sound
<1>4. ASSUME NEW i \in 1 .. Len(r) PROVE UsedOnce(r, i)
    <2>1. i \in 1 .. Len(s) /\ i \in 0 .. Len(r) /\ \A j \in 1 .. Len(r) : j \in 1 .. Len(s)
        BY <1>1
    <2>2. UsedOnce(s, i)
        BY <2>1 DEF Sound
    <2>3. IdsTo(r, i, "Add") = IdsTo(s, i, "Add")
        BY <1>2, <2>1
    <2> QED
        BY <2>1, <2>2, <2>3 DEF UsedOnce
<1> QED
    BY <1>3, <1>4 DEF Sound

\* What an event must be for the tape to stay sound.
Fits(s, e) ==
    /\ e.type # "Cancel" => e.price > 0 /\ \A i \in 1 .. Len(s) : s[i].id # e.id
    /\ e.type = "Cancel" =>
         /\ e.id \in IdsTo(s, Len(s), "Add")
         /\ \A i \in 1 .. Len(s) : s[i].id = e.id => s[i].type = "Add"

LEMMA SoundGrows ==
    ASSUME NEW s, Sound(s), NEW e \in Event, Fits(s, e),
           BoundedTo(Append(s, e), Len(s) + 1)
    PROVE  Sound(Append(s, e))
<1> DEFINE len == Len(s)
           r == Append(s, e)
<1>1. /\ s \in Seq(Event) /\ len \in Nat /\ Len(r) = len + 1 /\ r \in Seq(Event)
      /\ r[len + 1] = e /\ \A i \in 1 .. len : r[i] = s[i]
    BY DEF Sound
<1> HIDE DEF len, r
<1>2. ASSUME NEW k \in 0 .. len
      PROVE  /\ \A type : IdsTo(r, k, type) = IdsTo(s, k, type)
             /\ BoundedTo(r, k) <=> BoundedTo(s, k)
    <2>1. \A i \in 1 .. k : r[i] = s[i]
        BY <1>1
    <2> QED
        BY <2>1, SameIds
<1>3. ASSUME NEW k \in 0 .. len + 1 PROVE BoundedTo(r, k)
    <2>1. CASE k = len + 1
        BY <2>1 DEF r, len
    <2>2. CASE k \in 0 .. len
        BY <1>2, <2>2 DEF Sound, len
    <2> QED
        BY <1>1, <2>1, <2>2
<1>4. \A i \in 1 .. len + 1 : i \in 1 .. len \/ i = len + 1
    BY <1>1
<1>5. ASSUME NEW i \in 1 .. len PROVE UsedOnce(r, i)
    <2>1. UsedOnce(s, i) /\ r[i] = s[i]
        BY <1>1 DEF Sound, len
    <2>2. IdsTo(r, i, "Add") = IdsTo(s, i, "Add")
        <3>1. i \in 0 .. len
            BY <1>1
        <3> QED
            BY <1>2, <3>1
    <2>3. ASSUME NEW j \in 1 .. len + 1, i # j, r[i].id = r[j].id
          PROVE  {r[i].type, r[j].type} = {"Add", "Cancel"} /\ (i < j => r[i].type = "Add")
        <3>1. CASE j \in 1 .. len
            BY <1>1, <2>1, <2>3, <3>1 DEF UsedOnce, len
        <3>2. CASE j = len + 1
            <4>1. s[i].id = e.id
                BY <1>1, <2>1, <2>3, <3>2
            <4>2. e.type = "Cancel" /\ s[i].type = "Add"
                BY <4>1 DEF Fits, len
            <4> QED
                BY <1>1, <2>1, <3>2, <4>2
        <3> QED
            BY <1>4, <3>1, <3>2
    <2> QED
        BY <1>1, <2>1, <2>2, <2>3 DEF UsedOnce
<1>6. UsedOnce(r, len + 1)
    <2>1. ASSUME NEW j \in 1 .. len + 1, len + 1 # j, r[len + 1].id = r[j].id
          PROVE  /\ {r[len + 1].type, r[j].type} = {"Add", "Cancel"}
                 /\ len + 1 < j => r[len + 1].type = "Add"
        <3>1. j \in 1 .. len /\ s[j].id = e.id /\ r[j] = s[j] /\ ~ (len + 1 < j)
            BY <1>1, <1>4, <2>1
        <3>2. e.type = "Cancel" /\ s[j].type = "Add"
            BY <3>1 DEF Fits, len
        <3> QED
            BY <1>1, <3>1, <3>2
    <2>2. ASSUME e.type = "Cancel" PROVE e.id \in IdsTo(r, len + 1, "Add")
        <3>1. e.id \in IdsTo(s, len, "Add")
            BY <2>2 DEF Fits, len
        <3>2. len \in 0 .. len
            BY <1>1
        <3>3. e.id \in IdsTo(r, len, "Add")
            BY <1>2, <3>1, <3>2
        <3> QED
            BY <1>1, <3>3, NextIds
    <2>3. e.type # "Cancel" => e.price > 0
        BY DEF Fits
    <2> QED
        BY <1>1, <2>1, <2>2, <2>3 DEF UsedOnce
<1>7. \A i \in 1 .. len + 1 : UsedOnce(r, i)
    BY <1>4, <1>5, <1>6
<1> QED
    BY <1>1, <1>3, <1>7 DEF Sound, r

(***************************************************************************)
(* The generator.                                                          *)
(***************************************************************************)

\* The ring q has the live ids X, oldest first.
Holds(q, X) ==
    /\ \A i, j \in 1 .. Len(q) : i < j => q[i] < q[j]
    /\ \A x : x \in X <=> \E i \in 1 .. Len(q) : q[i] = x

\* The generator between two events, its ring not above m.
GenInv(f, m) ==
    /\ f \in [ev : Seq(Event), next : Nat, live : Seq(Nat)]
    /\ Sound(f.ev)
    /\ Len(f.live) <= m
    /\ Holds(f.live, LiveTo(f.ev, Len(f.ev)))
    /\ \A i \in 1 .. Len(f.ev) : f.ev[i].id < f.next

LEMMA RingCounts ==
    ASSUME NEW q \in Seq(Nat), NEW X, Holds(q, X)
    PROVE  IsFiniteSet(X) /\ Cardinality(X) <= Len(q)
<1>1. Len(q) \in Nat /\ DOMAIN q = 1 .. Len(q)
    OBVIOUS
<1>2. q \in [1 .. Len(q) -> X]
    BY <1>1 DEF Holds
<1>3. q \in Surjection(1 .. Len(q), X)
    BY <1>2 DEF Holds, Surjection
<1>4. IsFiniteSet(1 .. Len(q)) /\ Cardinality(1 .. Len(q)) = Len(q)
    BY <1>1, FS_Interval
<1> QED
    BY <1>3, <1>4, FS_Surjection

LEMMA ConstantsOfFeed ==
    /\ N \in Nat /\ Levels \in Nat /\ Levels > 0 /\ MaxLive \in Nat /\ MaxLive > 0
    /\ Mid0 \in Nat /\ MinMid \in Nat /\ MinMid > Levels + 1 /\ MaxDrift \in Nat
    BY SyntheticFeedAssumption

\* The events of a tape have ids below the next one.
LEMMA IdsBelow ==
    ASSUME NEW s, NEW len \in Nat, NEW m, \A i \in 1 .. len : s[i].id < m, NEW type
    PROVE  \A x \in IdsTo(s, len, type) : x < m
BY DEF IdsTo

LEMMA OrderEmitted ==
    ASSUME NEW f, GenInv(f, MaxLive), NEW side \in {"Buy", "Sell"}, NEW px \in Int, px > 0
    PROVE  GenInv([ev   |-> Append(f.ev, AddEvent(side, px, f.next)),
                   live |-> Append(f.live, f.next),
                   next |-> f.next + 1], MaxLive + 1)
<1> DEFINE s == f.ev
           q == f.live
           m == f.next
           len == Len(s)
           e == AddEvent(side, px, m)
           r == Append(s, e)
           z == Append(q, m)
<1>1. /\ s \in Seq(Event) /\ q \in Seq(Nat) /\ m \in Nat /\ len \in Nat /\ Len(q) \in Nat
      /\ Sound(s) /\ Len(q) <= MaxLive /\ Holds(q, LiveTo(s, len))
      /\ \A i \in 1 .. len : s[i].id < m
    BY DEF GenInv
<1>2. e \in Event /\ e.type = "Add" /\ e.id = m /\ e.price = px
    BY <1>1 DEF AddEvent, Event
<1> HIDE DEF s, q, m, len, e
<1>3. /\ r \in Seq(Event) /\ Len(r) = len + 1 /\ r[len + 1] = e /\ \A i \in 1 .. len : r[i] = s[i]
      /\ z \in Seq(Nat) /\ Len(z) = Len(q) + 1 /\ z[Len(q) + 1] = m
      /\ \A i \in 1 .. Len(q) : z[i] = q[i]
    BY <1>1, <1>2 DEF len
<1> HIDE DEF r, z
<1>4. \A type : \A x \in IdsTo(s, len, type) : x < m
    BY <1>1, IdsBelow
<1>5. /\ IdsTo(r, len + 1, "Add") = IdsTo(s, len, "Add") \cup {m}
      /\ IdsTo(r, len + 1, "Cancel") = IdsTo(s, len, "Cancel")
    <2>1. \A type : IdsTo(r, len, type) = IdsTo(s, len, type)
        BY <1>3, SameIds
    <2>2. r[len + 1].type = "Add" /\ r[len + 1].id = m
        BY <1>2, <1>3
    <2>3. \A y : y \in IdsTo(r, len + 1, "Add")
                   <=> (y \in IdsTo(r, len, "Add") \/ y = r[len + 1].id)
        BY <1>1, <2>2, IdsGrow
    <2>4. IdsTo(r, len + 1, "Cancel") = IdsTo(r, len, "Cancel")
        BY <1>1, <2>2, IdsStay
    <2> QED
        BY <2>1, <2>2, <2>3, <2>4
<1>6. LiveTo(r, len + 1) = LiveTo(s, len) \cup {m}
    <2>1. m \notin IdsTo(s, len, "Cancel")
        BY <1>1, <1>4
    <2> QED
        BY <1>5, <2>1 DEF LiveTo
<1>7. Holds(z, LiveTo(r, len + 1))
    <2>1. \A i \in 1 .. Len(q) : q[i] < m
        <3>1. ASSUME NEW i \in 1 .. Len(q) PROVE q[i] < m
            <4>1. q[i] \in LiveTo(s, len)
                BY <1>1 DEF Holds
            <4> QED
                BY <1>4, <4>1 DEF LiveTo
        <3> QED
            BY <3>1
    <2>2. \A i \in 1 .. Len(z) : i \in 1 .. Len(q) \/ i = Len(q) + 1
        BY <1>1, <1>3
    <2>3. ASSUME NEW i \in 1 .. Len(z), NEW j \in 1 .. Len(z), i < j PROVE z[i] < z[j]
        <3>1. i \in 1 .. Len(q)
            BY <1>1, <1>3, <2>3
        <3>2. CASE j \in 1 .. Len(q)
            BY <1>1, <1>3, <2>3, <3>1, <3>2 DEF Holds
        <3>3. CASE j = Len(q) + 1
            BY <1>3, <2>1, <3>1, <3>3
        <3> QED
            BY <2>2, <3>2, <3>3
    <2>4. ASSUME NEW x
          PROVE  x \in LiveTo(r, len + 1) <=> \E i \in 1 .. Len(z) : z[i] = x
        <3>1. x \in LiveTo(s, len) <=> \E i \in 1 .. Len(q) : q[i] = x
            BY <1>1 DEF Holds
        <3>2. 1 .. Len(q) \subseteq 1 .. Len(z) /\ Len(q) + 1 \in 1 .. Len(z)
            BY <1>1, <1>3
        <3>3. (\E i \in 1 .. Len(z) : z[i] = x) <=> ((\E i \in 1 .. Len(q) : q[i] = x) \/ x = m)
            BY <1>3, <2>2, <3>2
        <3> QED
            BY <1>6, <3>1, <3>3
    <2> QED
        BY <2>3, <2>4 DEF Holds
<1>8. BoundedTo(r, len + 1)
    <2>1. IsFiniteSet(LiveTo(r, len + 1)) /\ Cardinality(LiveTo(r, len + 1)) <= Len(z)
        BY <1>3, <1>7, RingCounts
    <2>2. Len(z) <= MaxLive + 1
        BY <1>1, <1>3, ConstantsOfFeed
    <2>3. ASSUME NEW old \in IdsTo(r, len + 1, "Cancel"), NEW new \in LiveTo(r, len + 1)
          PROVE  old < new
        <3>1. old \in IdsTo(s, len, "Cancel") /\ old < m
            BY <1>4, <1>5
        <3>2. CASE new \in LiveTo(s, len)
            <4>1. BoundedTo(s, len)
                BY <1>1 DEF Sound, len
            <4> QED
                BY <3>1, <3>2, <4>1 DEF BoundedTo
        <3> QED
            BY <1>6, <3>1, <3>2
    <2>4. Cardinality(LiveTo(r, len + 1)) <= MaxLive + 1
        <3>1. Cardinality(LiveTo(r, len + 1)) \in Nat
            BY <2>1, FS_CardinalityType
        <3> QED
            BY <1>1, <1>3, <2>1, <2>2, <3>1, ConstantsOfFeed
    <2> QED
        BY <2>1, <2>3, <2>4 DEF BoundedTo
<1>9. Sound(r)
    <2>1. Fits(s, e)
        <3>1. \A i \in 1 .. Len(s) : s[i].id # e.id
            BY <1>1, <1>2, TapeTypes DEF len
        <3> QED
            BY <1>2, <3>1 DEF Fits
    <2> QED
        BY <1>1, <1>2, <1>8, <2>1, SoundGrows DEF r, len
<1>10. \A i \in 1 .. Len(r) : r[i].id < m + 1
    <2>1. ASSUME NEW i \in 1 .. Len(r) PROVE r[i].id < m + 1
        <3>1. CASE i = len + 1
            BY <1>1, <1>2, <1>3, <3>1
        <3>2. CASE i \in 1 .. len
            <4>1. s[i].id \in Nat /\ s[i].id < m /\ r[i] = s[i]
                BY <1>1, <1>3, <3>2, TapeTypes DEF len
            <4> QED
                BY <1>1, <4>1
        <3> QED
            BY <1>1, <1>3, <3>1, <3>2
    <2> QED
        BY <2>1
<1>11. Len(z) <= MaxLive + 1
    BY <1>1, <1>3, ConstantsOfFeed
<1> DEFINE g == [ev |-> r, live |-> z, next |-> m + 1]
<1>12. GenInv(g, MaxLive + 1)
    <2>1. g.ev = r /\ g.live = z /\ g.next = m + 1
        OBVIOUS
    <2>2. g \in [ev : Seq(Event), next : Nat, live : Seq(Nat)]
        BY <1>1, <1>3
    <2>3. Holds(z, LiveTo(r, Len(r)))
        BY <1>3, <1>7
    <2> HIDE DEF g
    <2> QED
        BY <1>9, <1>10, <1>11, <2>1, <2>2, <2>3 DEF GenInv
<1> QED
    BY <1>12 DEF g, r, z, e, s, q, m

\* The ring gives up its oldest id.
LEMMA RingEvicts ==
    ASSUME NEW f, GenInv(f, MaxLive + 1)
    PROVE  GenInv(Evict(f), MaxLive)
<1> DEFINE s == f.ev
           q == f.live
           m == f.next
           len == Len(s)
           x == Oldest(q)
           e == CancelEvent(x)
           r == Append(s, e)
           z == Tail(q)
<1>1. /\ s \in Seq(Event) /\ q \in Seq(Nat) /\ m \in Nat /\ len \in Nat /\ Len(q) \in Nat
      /\ Sound(s) /\ Len(q) <= MaxLive + 1 /\ Holds(q, LiveTo(s, len))
      /\ \A i \in 1 .. len : s[i].id < m
    BY DEF GenInv
<1>2. CASE ~ (Len(q) > MaxLive)
    <2>1. Evict(f) = f /\ Len(f.live) <= MaxLive
        BY <1>1, <1>2, ConstantsOfFeed DEF Evict
    <2> QED
        BY <2>1 DEF GenInv
<1>3. CASE Len(q) > MaxLive
    <2>1. q # << >> /\ 1 \in 1 .. Len(q) /\ x = q[1] /\ x \in Nat
        BY <1>1, <1>3, ConstantsOfFeed DEF Oldest
    <2>2. e \in Event /\ e.type = "Cancel" /\ e.id = x
        BY <2>1 DEF CancelEvent, Event
    <2>3. z \in Seq(Nat) /\ Len(z) = Len(q) - 1 /\ \A i \in 1 .. Len(z) : z[i] = q[i + 1]
        BY <1>1, <2>1, HeadTailProperties
    <2>4. Evict(f) = [ev |-> r, next |-> m, live |-> z]
        <3>1. f \in [ev : Seq(Event), next : Nat, live : Seq(Nat)]
            BY DEF GenInv
        <3> QED
            BY <1>3, <3>1 DEF Evict
    <2> HIDE DEF s, q, m, len, x, e, z
    <2>5. r \in Seq(Event) /\ Len(r) = len + 1 /\ r[len + 1] = e /\ \A i \in 1 .. len : r[i] = s[i]
        BY <1>1, <2>2 DEF len
    <2> HIDE DEF r
    <2>6. x \in LiveTo(s, len)
        BY <1>1, <2>1 DEF Holds
    <2>7. /\ IdsTo(r, len + 1, "Add") = IdsTo(s, len, "Add")
          /\ IdsTo(r, len + 1, "Cancel") = IdsTo(s, len, "Cancel") \cup {x}
        <3>1. \A type : IdsTo(r, len, type) = IdsTo(s, len, type)
            BY <2>5, SameIds
        <3>2. r[len + 1].type = "Cancel" /\ r[len + 1].id = x
            BY <2>2, <2>5
        <3>3. IdsTo(r, len + 1, "Add") = IdsTo(r, len, "Add")
            BY <1>1, <3>2, IdsStay
        <3>4. \A y : y \in IdsTo(r, len + 1, "Cancel")
                       <=> (y \in IdsTo(r, len, "Cancel") \/ y = r[len + 1].id)
            BY <1>1, <3>2, IdsGrow
        <3> QED
            BY <3>1, <3>2, <3>3, <3>4
    <2>8. LiveTo(r, len + 1) = LiveTo(s, len) \ {x}
        BY <2>7 DEF LiveTo
    <2>9. \A i \in 2 .. Len(q) : x < q[i] /\ q[i] \in Nat
        <3>1. ASSUME NEW i \in 2 .. Len(q) PROVE x < q[i] /\ q[i] \in Nat
            <4>1. i \in 1 .. Len(q) /\ 1 < i
                BY <1>1
            <4> QED
                BY <1>1, <2>1, <4>1, ElementOfSeq DEF Holds
        <3> QED
            BY <3>1
    <2>10. \A y \in LiveTo(r, len + 1) : x < y
        <3>1. ASSUME NEW y \in LiveTo(r, len + 1) PROVE x < y
            <4>1. y \in LiveTo(s, len) /\ y # x
                BY <2>8
            <4>2. PICK i \in 1 .. Len(q) : q[i] = y
                BY <1>1, <4>1 DEF Holds
            <4>3. i \in 2 .. Len(q)
                BY <1>1, <2>1, <4>1, <4>2
            <4> QED
                BY <2>9, <4>2, <4>3
        <3> QED
            BY <3>1
    <2>11. Holds(z, LiveTo(r, len + 1))
        <3>1. \A i \in 1 .. Len(z) : i + 1 \in 2 .. Len(q) /\ i + 1 \in 1 .. Len(q)
            BY <1>1, <2>3
        <3>2. ASSUME NEW i \in 1 .. Len(z), NEW j \in 1 .. Len(z), i < j PROVE z[i] < z[j]
            <4>1. i + 1 < j + 1
                BY <3>2
            <4>2. q[i + 1] < q[j + 1]
                BY <1>1, <3>1, <4>1 DEF Holds
            <4> QED
                BY <2>3, <4>2
        <3>3. ASSUME NEW y
              PROVE  y \in LiveTo(r, len + 1) <=> \E i \in 1 .. Len(z) : z[i] = y
            <4>1. ASSUME y \in LiveTo(r, len + 1) PROVE \E i \in 1 .. Len(z) : z[i] = y
                <5>1. y \in LiveTo(s, len) /\ y # x
                    BY <2>8, <4>1
                <5>2. PICK i \in 1 .. Len(q) : q[i] = y
                    BY <1>1, <5>1 DEF Holds
                <5>3. i # 1
                    BY <2>1, <5>1, <5>2
                <5>4. i - 1 \in 1 .. Len(z) /\ (i - 1) + 1 = i
                    BY <1>1, <2>3, <5>3
                <5>5. z[i - 1] = q[i]
                    BY <2>3, <5>4
                <5> QED
                    BY <5>2, <5>4, <5>5
            <4>2. ASSUME NEW i \in 1 .. Len(z), z[i] = y PROVE y \in LiveTo(r, len + 1)
                <5>1. y = q[i + 1] /\ i + 1 \in 1 .. Len(q) /\ i + 1 \in 2 .. Len(q)
                    BY <2>3, <3>1, <4>2
                <5>2. y \in LiveTo(s, len)
                    BY <1>1, <5>1 DEF Holds
                <5>3. x < y /\ y \in Nat
                    BY <2>9, <5>1
                <5> QED
                    BY <2>1, <2>8, <5>2, <5>3
            <4> QED
                BY <4>1, <4>2
        <3> QED
            BY <3>2, <3>3 DEF Holds
    <2>12. BoundedTo(r, len + 1)
        <3>1. IsFiniteSet(LiveTo(r, len + 1)) /\ Cardinality(LiveTo(r, len + 1)) <= Len(z)
            BY <2>3, <2>11, RingCounts
        <3>2. Cardinality(LiveTo(r, len + 1)) <= MaxLive + 1
            <4>1. Cardinality(LiveTo(r, len + 1)) \in Nat
                BY <3>1, FS_CardinalityType
            <4> QED
                BY <1>1, <2>3, <3>1, <4>1, ConstantsOfFeed
        <3>3. ASSUME NEW old \in IdsTo(r, len + 1, "Cancel"), NEW new \in LiveTo(r, len + 1)
              PROVE  old < new
            <4>1. CASE old = x
                BY <2>10, <4>1
            <4>2. CASE old \in IdsTo(s, len, "Cancel")
                <5>1. BoundedTo(s, len) /\ new \in LiveTo(s, len)
                    BY <1>1, <2>8 DEF Sound, len
                <5> QED
                    BY <4>2, <5>1 DEF BoundedTo
            <4> QED
                BY <2>7, <4>1, <4>2
        <3> QED
            BY <3>1, <3>2, <3>3 DEF BoundedTo
    <2>13. Sound(r)
        <3>1. ASSUME NEW i \in 1 .. len, s[i].id = x PROVE s[i].type = "Add"
            <4>1. x \in IdsTo(s, len, "Add") /\ x \notin IdsTo(s, len, "Cancel")
                BY <2>6 DEF LiveTo
            <4>2. PICK j \in 1 .. len : s[j].type = "Add" /\ s[j].id = x
                BY <4>1 DEF IdsTo
            <4>3. CASE i = j
                BY <4>2, <4>3
            <4>4. CASE i # j
                <5>1. UsedOnce(s, i)
                    BY <1>1 DEF Sound, len
                <5>2. {s[i].type, s[j].type} = {"Add", "Cancel"}
                    BY <3>1, <4>2, <4>4, <5>1 DEF UsedOnce, len
                <5>3. s[i].type = "Cancel"
                    BY <4>2, <5>2
                <5> QED
                    BY <3>1, <4>1, <5>3 DEF IdsTo
            <4> QED
                BY <4>3, <4>4
        <3>2. Fits(s, e)
            <4>1. x \in IdsTo(s, len, "Add")
                BY <2>6 DEF LiveTo
            <4> QED
                BY <2>2, <3>1, <4>1 DEF Fits, len
        <3> QED
            BY <1>1, <2>2, <2>12, <3>2, SoundGrows DEF r, len
    <2>14. \A i \in 1 .. Len(r) : r[i].id < m
        <3>1. x < m
            <4>1. x \in IdsTo(s, len, "Add")
                BY <2>6 DEF LiveTo
            <4> QED
                BY <1>1, <4>1, IdsBelow
        <3>2. ASSUME NEW i \in 1 .. Len(r) PROVE r[i].id < m
            <4>1. i \in 1 .. len \/ i = len + 1
                BY <1>1, <2>5
            <4> QED
                BY <1>1, <2>2, <2>5, <3>1, <4>1
        <3> QED
            BY <3>2
    <2>15. Len(z) <= MaxLive
        BY <1>1, <2>3, ConstantsOfFeed
    <2> DEFINE g == [ev |-> r, next |-> m, live |-> z]
    <2>16. GenInv(g, MaxLive)
        <3>1. g.ev = r /\ g.live = z /\ g.next = m
            OBVIOUS
        <3>2. g \in [ev : Seq(Event), next : Nat, live : Seq(Nat)]
            BY <1>1, <2>3, <2>5
        <3>3. Holds(z, LiveTo(r, Len(r)))
            BY <2>5, <2>11
        <3> HIDE DEF g
        <3> QED
            BY <2>13, <2>14, <2>15, <3>1, <3>2, <3>3 DEF GenInv
    <2> QED
        BY <2>4, <2>16
<1> QED
    BY <1>2, <1>3

LEMMA AddEmitted ==
    ASSUME NEW f, GenInv(f, MaxLive), NEW side \in {"Buy", "Sell"}, NEW px \in Int, px > 0
    PROVE  GenInv(EmitAdd(f, side, px), MaxLive)
BY OrderEmitted, RingEvicts DEF EmitAdd

\* An aggressor is neither in the ring nor in the book.
LEMMA TradeEmitted ==
    ASSUME NEW f, GenInv(f, MaxLive), NEW side \in {"None", "Buy", "Sell"},
           NEW c \in Int, c >= MinMid
    PROVE  GenInv(EmitTrade(f, side, c), MaxLive)
<1> DEFINE s == f.ev
           q == f.live
           m == f.next
           len == Len(s)
           px == IF side = "Buy" THEN c + (Levels + 1) ELSE c - (Levels + 1)
           e == TradeEvent(side, px, m)
           r == Append(s, e)
<1>1. /\ s \in Seq(Event) /\ q \in Seq(Nat) /\ m \in Nat /\ len \in Nat /\ Len(q) \in Nat
      /\ Sound(s) /\ Len(q) <= MaxLive /\ Holds(q, LiveTo(s, len))
      /\ \A i \in 1 .. len : s[i].id < m
    BY DEF GenInv
<1>2. CASE side = "None" \/ Len(f.ev) >= N
    BY <1>2 DEF EmitTrade
<1>3. CASE ~ (side = "None" \/ Len(f.ev) >= N)
    <2>1. px \in Int /\ px > 0
        BY ConstantsOfFeed
    <2> HIDE DEF px
    <2>2. side \in {"Buy", "Sell"}
        BY <1>3
    <2>3. e \in Event /\ e.type = "Trade" /\ e.id = m /\ e.price = px
        BY <1>1, <2>1, <2>2 DEF TradeEvent, Event
    <2>4. EmitTrade(f, side, c) = [ev |-> r, next |-> m + 1, live |-> q]
        <3>1. f \in [ev : Seq(Event), next : Nat, live : Seq(Nat)]
            BY DEF GenInv
        <3> QED
            BY <1>3, <3>1 DEF EmitTrade, px
    <2> HIDE DEF s, q, m, len, e
    <2>5. r \in Seq(Event) /\ Len(r) = len + 1 /\ r[len + 1] = e /\ \A i \in 1 .. len : r[i] = s[i]
        BY <1>1, <2>3 DEF len
    <2> HIDE DEF r
    <2>6. \A type \in {"Add", "Cancel"} : IdsTo(r, len + 1, type) = IdsTo(s, len, type)
        <3>1. \A type : IdsTo(r, len, type) = IdsTo(s, len, type)
            BY <2>5, SameIds
        <3>2. r[len + 1].type = "Trade"
            BY <2>3, <2>5
        <3>3. IdsTo(r, len + 1, "Add") = IdsTo(r, len, "Add")
            BY <1>1, <3>2, IdsStay
        <3>4. IdsTo(r, len + 1, "Cancel") = IdsTo(r, len, "Cancel")
            BY <1>1, <3>2, IdsStay
        <3> QED
            BY <3>1, <3>3, <3>4
    <2>7. LiveTo(r, len + 1) = LiveTo(s, len)
        BY <2>6 DEF LiveTo
    <2>8. BoundedTo(r, len + 1)
        <3>1. BoundedTo(s, len)
            BY <1>1 DEF Sound, len
        <3> QED
            BY <2>6, <2>7, <3>1 DEF BoundedTo
    <2>9. Sound(r)
        <3>1. \A i \in 1 .. Len(s) : s[i].id # e.id
            BY <1>1, <2>3, TapeTypes DEF len
        <3>2. Fits(s, e)
            BY <2>1, <2>3, <3>1 DEF Fits
        <3> QED
            BY <1>1, <2>3, <2>8, <3>2, SoundGrows DEF r, len
    <2>10. \A i \in 1 .. Len(r) : r[i].id < m + 1
        <3>1. ASSUME NEW i \in 1 .. Len(r) PROVE r[i].id < m + 1
            <4>1. CASE i = len + 1
                BY <1>1, <2>3, <2>5, <4>1
            <4>2. CASE i \in 1 .. len
                <5>1. s[i].id \in Nat /\ s[i].id < m /\ r[i] = s[i]
                    BY <1>1, <2>5, <4>2, TapeTypes DEF len
                <5> QED
                    BY <1>1, <5>1
            <4> QED
                BY <1>1, <2>5, <4>1, <4>2
        <3> QED
            BY <3>1
    <2> DEFINE g == [ev |-> r, next |-> m + 1, live |-> q]
    <2>11. GenInv(g, MaxLive)
        <3>1. g.ev = r /\ g.live = q /\ g.next = m + 1
            OBVIOUS
        <3>2. g \in [ev : Seq(Event), next : Nat, live : Seq(Nat)]
            BY <1>1, <2>5
        <3>3. Holds(q, LiveTo(r, Len(r)))
            BY <1>1, <2>5, <2>7
        <3> HIDE DEF g
        <3> QED
            BY <1>1, <2>9, <2>10, <3>1, <3>2, <3>3 DEF GenInv
    <2> QED
        BY <2>4, <2>11
<1> QED
    BY <1>2, <1>3

LEMMA LevelReplenished ==
    ASSUME NEW f, GenInv(f, MaxLive), NEW i \in 2 .. Levels + 1, NEW c \in Int, c >= MinMid,
           NEW bids, NEW asks
    PROVE  GenInv(Replenish(f, i, c, bids, asks), MaxLive)
<1> DEFINE b == IF i \in bids THEN EmitAdd(f, "Buy", c - i) ELSE f
<1>1. c - i \in Int /\ c - i > 0 /\ c + i \in Int /\ c + i > 0
    BY ConstantsOfFeed
<1>2. GenInv(b, MaxLive)
    BY <1>1, AddEmitted
<1> HIDE DEF b
<1>3. GenInv(EmitAdd(b, "Sell", c + i), MaxLive)
    BY <1>1, <1>2, AddEmitted
<1>4. Replenish(f, i, c, bids, asks)
        = IF Len(f.ev) >= N THEN f ELSE IF i \in asks THEN EmitAdd(b, "Sell", c + i) ELSE b
    BY DEF Replenish, b
<1> QED
    BY <1>2, <1>3, <1>4

(***************************************************************************)
(* One iteration: the levels up to the outermost, as Replenished builds    *)
(* them.                                                                   *)
(***************************************************************************)

Builds(u, L, c, bids, asks) ==
    u = [i \in 1 .. L |-> IF i = 1 THEN Feed ELSE Replenish(u[i - 1], i, c, bids, asks)]

LEMMA BuildsExist ==
    ASSUME NEW L \in Nat, NEW c, NEW bids, NEW asks
    PROVE  \E u : Builds(u, L + 1, c, bids, asks)
<1> DEFINE S == {len \in Nat : \E u : Builds(u, len + 1, c, bids, asks)}
<1>1. 0 \in S
    <2> DEFINE u == [i \in 1 .. 1 |-> Feed]
    <2>1. u = [i \in 1 .. 0 + 1 |->
                 IF i = 1 THEN Feed ELSE Replenish(u[i - 1], i, c, bids, asks)]
        <3>1. \A i \in 1 .. 0 + 1 : i = 1
            OBVIOUS
        <3> QED
            BY <3>1
    <2> QED
        BY <2>1 DEF Builds
<1>2. ASSUME NEW len \in Nat, len \in S PROVE len + 1 \in S
    <2>1. PICK u : Builds(u, len + 1, c, bids, asks)
        BY <1>2
    <2> DEFINE h == [i \in 1 .. (len + 1) + 1 |->
                       IF i = len + 2 THEN Replenish(u[len + 1], i, c, bids, asks) ELSE u[i]]
    <2>2. \A i \in 1 .. len + 1 :
            u[i] = IF i = 1 THEN Feed ELSE Replenish(u[i - 1], i, c, bids, asks)
        BY <2>1 DEF Builds
    <2>3. ASSUME NEW i \in 1 .. (len + 1) + 1
          PROVE  h[i] = IF i = 1 THEN Feed ELSE Replenish(h[i - 1], i, c, bids, asks)
        <3>1. CASE i = len + 2
            <4>1. i # 1 /\ i - 1 = len + 1 /\ len + 1 \in 1 .. (len + 1) + 1 /\ len + 1 # len + 2
                BY <3>1
            <4>2. h[len + 1] = u[len + 1]
                BY <4>1
            <4> QED
                BY <3>1, <4>1, <4>2
        <3>2. CASE i \in 2 .. len + 1
            <4>1. i - 1 \in 1 .. (len + 1) + 1 /\ i - 1 # len + 2 /\ i # len + 2 /\ i # 1 /\ i \in 1 .. len + 1
                BY <3>2
            <4>2. h[i - 1] = u[i - 1] /\ h[i] = u[i]
                BY <4>1
            <4> HIDE DEF h
            <4> QED
                BY <2>2, <4>1, <4>2
        <3>3. CASE i = 1
            BY <2>2, <3>3
        <3> QED
            BY <3>1, <3>2, <3>3
    <2>4. Builds(h, (len + 1) + 1, c, bids, asks)
        <3>1. h = [i \in 1 .. (len + 1) + 1 |-> h[i]]
            OBVIOUS
        <3> HIDE DEF h
        <3> QED
            BY <2>3, <3>1 DEF Builds
    <2> QED
        BY <2>4
<1>3. Nat \subseteq S
    <2> HIDE DEF S
    <2> QED
        BY <1>1, <1>2, SetInduction
<1> QED
    BY <1>3

LEMMA ReplenishedIsSound ==
    ASSUME GenInv(Feed, MaxLive), NEW c \in Int, c >= MinMid, NEW bids, NEW asks
    PROVE  GenInv(Replenished(c, bids, asks), MaxLive)
<1> DEFINE u == CHOOSE f : Builds(f, Levels + 1, c, bids, asks)
<1>1. Builds(u, Levels + 1, c, bids, asks)
    BY BuildsExist, ConstantsOfFeed
<1>2. Replenished(c, bids, asks) = u[Levels + 1]
    BY DEF Replenished, Builds
<1> HIDE DEF u
<1>3. \A i \in 1 .. Levels + 1 :
        u[i] = IF i = 1 THEN Feed ELSE Replenish(u[i - 1], i, c, bids, asks)
    BY <1>1 DEF Builds
<1> DEFINE S == {len \in Nat : len <= Levels => GenInv(u[len + 1], MaxLive)}
<1>4. 0 \in S
    BY <1>3, ConstantsOfFeed
<1>5. ASSUME NEW len \in Nat, len \in S PROVE len + 1 \in S
    <2> SUFFICES ASSUME len + 1 <= Levels PROVE GenInv(u[(len + 1) + 1], MaxLive)
        OBVIOUS
    <2>1. /\ (len + 1) + 1 \in 2 .. Levels + 1 /\ (len + 1) + 1 \in 1 .. Levels + 1
          /\ (len + 1) + 1 # 1 /\ ((len + 1) + 1) - 1 = len + 1 /\ len <= Levels
        BY ConstantsOfFeed
    <2>2. GenInv(u[len + 1], MaxLive)
        BY <1>5, <2>1
    <2>3. u[(len + 1) + 1] = Replenish(u[len + 1], (len + 1) + 1, c, bids, asks)
        BY <1>3, <2>1
    <2> QED
        BY <2>1, <2>2, <2>3, LevelReplenished
<1>6. Nat \subseteq S
    <2> HIDE DEF S
    <2> QED
        BY <1>4, <1>5, SetInduction
<1> QED
    BY <1>2, <1>6, ConstantsOfFeed

(***************************************************************************)
(* The properties are those of a sound tape.                               *)
(***************************************************************************)

LEMMA PrefixOf ==
    ASSUME NEW k \in 0 .. Len(ev), ev \in Seq(Event)
    PROVE  /\ \A type : Ids(Prefix(k), type) = IdsTo(ev, k, type)
           /\ LiveOn(Prefix(k)) = LiveTo(ev, k)
<1> DEFINE p == Prefix(k)
<1>1. Len(ev) \in Nat /\ 1 \in Int /\ k \in Int
    OBVIOUS
<1>2. p \in Seq(Event) /\ Len(p) = k /\ \A i \in 1 .. k : p[i] = ev[i]
    BY <1>1 DEF Prefix
<1>3. DOMAIN p = 1 .. k
    BY <1>2
<1> HIDE DEF p
<1>4. \A type : Ids(p, type) = IdsTo(ev, k, type)
    BY <1>2, <1>3 DEF Ids, IdsTo
<1>5. LiveOn(p) = LiveTo(ev, k)
    BY <1>4 DEF LiveOn, LiveTo
<1> QED
    BY <1>4, <1>5 DEF p

LEMMA SoundIsTheProperty ==
    ASSUME Sound(ev)
    PROVE  SyntheticBookBounded
<1>1. ev \in Seq(Event) /\ Len(ev) \in Nat /\ DOMAIN ev = 1 .. Len(ev)
    BY DEF Sound
<1>2. RingBoundsTheBook
    <2>1. ASSUME NEW k \in 0 .. Len(ev)
          PROVE  /\ Cardinality(LiveOn(Prefix(k))) <= MaxLive + 1
                 /\ \A old \in Ids(Prefix(k), "Cancel"), new \in LiveOn(Prefix(k)) : old < new
        <3>1. BoundedTo(ev, k)
            BY DEF Sound
        <3>2. /\ Ids(Prefix(k), "Cancel") = IdsTo(ev, k, "Cancel")
              /\ LiveOn(Prefix(k)) = LiveTo(ev, k)
            BY <1>1, PrefixOf
        <3> QED
            BY <3>1, <3>2 DEF BoundedTo
    <2> QED
        BY <2>1 DEF RingBoundsTheBook
<1>3. IdsAreUsedOnce
    <2>1. ASSUME NEW i \in DOMAIN ev
          PROVE  /\ UsedOnce(ev, i)
                 /\ Ids(Prefix(i), "Add") = IdsTo(ev, i, "Add")
        <3>1. i \in 1 .. Len(ev) /\ i \in 0 .. Len(ev)
            BY <1>1
        <3> QED
            BY <1>1, <3>1, PrefixOf DEF Sound
    <2> QED
        BY <1>1, <2>1 DEF UsedOnce, IdsAreUsedOnce
<1> QED
    BY <1>2, <1>3 DEF SyntheticBookBounded

(***************************************************************************)
(* The inductive invariant and the theorem.                                *)
(***************************************************************************)

\* Between two iterations the ring is that of the tape; afterwards the tape is
\* sound and as long as was asked.
SFInv ==
    /\ mid \in Int /\ done \in BOOLEAN
    /\ ~done => GenInv(Feed, MaxLive)
    /\ done => Sound(ev) /\ Len(ev) >= N

LEMMA SFInvInit == SFInit => SFInv
<1> SUFFICES ASSUME SFInit PROVE SFInv
    OBVIOUS
<1>1. ev = << >> /\ live = << >> /\ next = 0 /\ mid \in Int /\ done = FALSE
    BY ConstantsOfFeed DEF SFInit
<1>2. /\ Feed.ev = ev /\ Feed.live = live /\ Feed.next = next
      /\ Feed \in [ev : Seq(Event), next : Nat, live : Seq(Nat)]
    BY <1>1 DEF Feed
<1>3. Len(ev) = 0 /\ Len(live) = 0 /\ ev \in Seq(Event)
    BY <1>1
<1>4. \A type : IdsTo(ev, 0, type) = {}
    BY DEF IdsTo
<1>5. LiveTo(ev, 0) = {}
    BY <1>4 DEF LiveTo
<1>6. Sound(ev)
    <2>1. BoundedTo(ev, 0)
        BY <1>4, <1>5, FS_EmptySet, ConstantsOfFeed DEF BoundedTo
    <2>2. \A k \in 0 .. Len(ev) : k = 0
        BY <1>3
    <2> QED
        BY <1>3, <2>1, <2>2 DEF Sound
<1>7. Holds(live, LiveTo(ev, Len(ev)))
    BY <1>3, <1>5 DEF Holds
<1>8. GenInv(Feed, MaxLive)
    BY <1>2, <1>3, <1>6, <1>7, ConstantsOfFeed DEF GenInv
<1> QED
    BY <1>1, <1>8 DEF SFInv

LEMMA SFInvNext == SFInv /\ [SFNext]_sfVars => SFInv'
<1> SUFFICES ASSUME SFInv, [SFNext]_sfVars PROVE SFInv'
    OBVIOUS
<1>1. ASSUME NEW move \in {0 - 1, 0, 1}, NEW aggressor \in {"None", "Buy", "Sell"},
             NEW bids \in SUBSET (2 .. Levels + 1), NEW asks \in SUBSET (2 .. Levels + 1),
             Iterate(move, bids, asks, aggressor)
      PROVE  SFInv'
    <2> DEFINE c == Max({mid + move, MinMid})
               f == EmitTrade(Replenished(c, bids, asks), aggressor, c)
    <2>1. /\ Len(ev) < N
          /\ mid' = c /\ ev' = f.ev /\ live' = f.live /\ next' = f.next /\ done' = done
        BY <1>1 DEF Iterate
    <2>2. done = FALSE
        <3>1. CASE done = TRUE
            <4>1. Sound(ev) /\ Len(ev) >= N
                BY <3>1 DEF SFInv
            <4> QED
                BY <2>1, <4>1, ConstantsOfFeed DEF Sound
        <3> QED
            BY <3>1 DEF SFInv
    <2>3. c \in Int /\ c >= MinMid
        <3>1. mid + move \in Int /\ MinMid \in Int
            BY ConstantsOfFeed DEF SFInv
        <3> QED
            BY <3>1, LargerOfTwo
    <2> HIDE DEF c
    <2>4. GenInv(f, MaxLive)
        BY <2>2, <2>3, ReplenishedIsSound, TradeEmitted DEF SFInv
    <2> HIDE DEF f
    <2>5. Feed' = [ev |-> f.ev, next |-> f.next, live |-> f.live]
        BY <2>1 DEF Feed
    <2>6. Feed' = f
        BY <2>4, <2>5 DEF GenInv
    <2>7. GenInv(Feed, MaxLive)'
        BY <2>4, <2>6 DEF GenInv
    <2> QED
        BY <2>1, <2>2, <2>3, <2>7 DEF SFInv
<1>2. CASE Resize
    <2>1. Len(ev) >= N /\ done = FALSE /\ ev' = SubSeq(ev, 1, N) /\ done' = TRUE /\ mid' = mid
        BY <1>2 DEF Resize, SFInv
    <2>2. Sound(ev) /\ ev \in Seq(Event) /\ Len(ev) \in Nat
        BY <2>1 DEF SFInv, GenInv, Feed, Sound
    <2>3. /\ SubSeq(ev, 1, N) \in Seq(Event) /\ Len(SubSeq(ev, 1, N)) = N
          /\ \A i \in 1 .. N : SubSeq(ev, 1, N)[i] = ev[i]
        BY <2>1, <2>2, ConstantsOfFeed
    <2>4. Sound(SubSeq(ev, 1, N))
        BY <2>1, <2>2, <2>3, CutIsSound
    <2>5. Sound(ev') /\ Len(ev') >= N
        BY <2>1, <2>3, <2>4, ConstantsOfFeed
    <2>6. Sound(ev)'
        BY <2>5 DEF Sound
    <2> QED
        BY <2>1, <2>5, <2>6 DEF SFInv
<1>3. CASE UNCHANGED sfVars
    BY <1>3 DEF sfVars, SFInv, Feed, GenInv, Sound
<1> QED
    BY <1>1, <1>2, <1>3 DEF SFNext

\* generate_synthetic_feed, data_feed.hpp:39-92: however long the tape, however
\* the coins fall and wherever the replay stops, no more orders rest than the
\* ring's and one, only the oldest were withdrawn, each once and after it was
\* added, ids are never given twice, and every price is positive.
THEOREM TheRingBoundsTheBook == SFSpec => []SyntheticBookBounded
<1>1. SFInv => SyntheticBookBounded
    <2> SUFFICES ASSUME SFInv PROVE SyntheticBookBounded
        OBVIOUS
    <2>1. Sound(ev)
        BY DEF SFInv, GenInv, Feed
    <2> QED
        BY <2>1, SoundIsTheProperty
<1> QED
    BY <1>1, SFInvInit, SFInvNext, PTL DEF SFSpec

(***************************************************************************)
(* Queues of the book.                                                     *)
(***************************************************************************)

\* Unlinking keeps the order of the others.
LEMMA RemoveFacts ==
    ASSUME NEW S, NEW q \in Seq(S), NEW k \in 1 .. Len(q)
    PROVE  LET a == RemoveAt(q, k)
           IN  /\ a \in Seq(S) /\ Len(a) = Len(q) - 1
               /\ \A i \in 1 .. Len(a) : OldPlace(k, i) \in 1 .. Len(q) /\ a[i] = q[OldPlace(k, i)]
<1> DEFINE a == RemoveAt(q, k)
           l == SubSeq(q, 1, k - 1)
           r == SubSeq(q, k + 1, Len(q))
<1>1. /\ Len(q) \in Nat /\ k \in Nat /\ 1 <= k /\ k <= Len(q)
      /\ \A i \in 1 .. Len(q) : q[i] \in S
    BY ElementOfSeq
<1>2. l \in Seq(S) /\ Len(l) = k - 1 /\ \A i \in 1 .. k - 1 : l[i] = q[i]
    BY <1>1, SubSeqProperties
<1>3. r \in Seq(S) /\ Len(r) = Len(q) - k /\ \A i \in 1 .. Len(q) - k : r[i] = q[k + i]
    <2>1. \A i \in k + 1 .. Len(q) : q[i] \in S
        BY <1>1
    <2>2. /\ r \in Seq(S)
          /\ Len(r) = IF k + 1 <= Len(q) THEN Len(q) - (k + 1) + 1 ELSE 0
          /\ \A i \in 1 .. Len(q) - (k + 1) + 1 : r[i] = q[k + 1 + i - 1]
        BY <2>1, <1>1, SubSeqProperties
    <2> HIDE DEF r
    <2>3. ASSUME NEW i \in 1 .. Len(q) - k PROVE r[i] = q[k + i]
        <3>1. k + 1 + i - 1 = k + i /\ Len(q) - (k + 1) + 1 = Len(q) - k
            BY <1>1
        <3> QED
            BY <2>2, <3>1
    <2> QED
        BY <2>2, <2>3, <1>1
<1>4. a = l \o r
    BY DEF RemoveAt
<1> HIDE DEF a, l, r
<1>5. /\ a \in Seq(S) /\ Len(a) = Len(l) + Len(r)
      /\ \A i \in 1 .. Len(l) + Len(r) : a[i] = IF i <= Len(l) THEN l[i] ELSE r[i - Len(l)]
    BY <1>2, <1>3, <1>4, ConcatProperties
<1>6. Len(a) = Len(q) - 1
    BY <1>1, <1>2, <1>3, <1>5
<1>7. ASSUME NEW i \in 1 .. Len(a)
      PROVE  OldPlace(k, i) \in 1 .. Len(q) /\ a[i] = q[OldPlace(k, i)]
    <2>1. CASE i < k
        BY <2>1, <1>1, <1>2, <1>3, <1>5, <1>6 DEF OldPlace
    <2>2. CASE i >= k
        <3>1. i - Len(l) = i - (k - 1) /\ i - (k - 1) \in 1 .. Len(q) - k
            BY <2>2, <1>1, <1>2, <1>6
        <3>2. a[i] = r[i - (k - 1)] /\ r[i - (k - 1)] = q[k + (i - (k - 1))]
            BY <2>2, <3>1, <1>1, <1>2, <1>3, <1>5
        <3>3. k + (i - (k - 1)) = i + 1 /\ OldPlace(k, i) = i + 1 /\ i + 1 \in 1 .. Len(q)
            BY <2>2, <3>1, <1>1, <1>6 DEF OldPlace
        <3> QED
            BY <3>2, <3>3
    <2> QED
        BY <2>1, <2>2, <1>1, <1>6
<1> QED
    BY <1>5, <1>6, <1>7 DEF a

\* The queue of a price, with or without a level.
QueueAt(b, s, p) == IF p \in Prices(b, s) THEN b.levels[s][p].queue ELSE << >>

\* From b to c only the queue of one price changes.
BookTo(b, c, s, p, q) ==
    /\ QueueAt(c, s, p) = q
    /\ \A t \in Side, r \in Price : t # s \/ r # p => QueueAt(c, t, r) = QueueAt(b, t, r)

LEMMA QueueType ==
    ASSUME NEW b, WellFormed(b), NEW s \in Side, NEW p
    PROVE  /\ QueueAt(b, s, p) \in Queue
           /\ QueueAt(b, s, p) # << >> <=> p \in Prices(b, s)
<1>1. IsBook(b) /\ NoEmptyLevel(b)
    BY DEF WellFormed
<1>2. CASE p \in Prices(b, s)
    BY <1>1, <1>2, LevelTypes DEF QueueAt, NoEmptyLevel
<1>3. CASE p \notin Prices(b, s)
    BY <1>3 DEF QueueAt, Queue
<1> QED
    BY <1>2, <1>3

LEMMA RewrittenQueues ==
    ASSUME NEW b, IsBook(b), NEW s \in Side, NEW p, NEW lvl, NEW ix,
           NEW c, c = Rewritten(b, s, p, lvl, ix)
    PROVE  BookTo(b, c, s, p, lvl.queue)
<1>1. /\ Prices(c, s) = IF lvl.queue = << >> THEN Prices(b, s) \ {p}
                                             ELSE Prices(b, s) \cup {p}
      /\ \A q \in Prices(c, s) : c.levels[s][q] = IF q = p THEN lvl ELSE b.levels[s][q]
      /\ \A t \in Side \ {s} : c.levels[t] = b.levels[t]
    BY RewrittenPrices
<1>2. QueueAt(c, s, p) = lvl.queue
    BY <1>1 DEF QueueAt
<1>3. ASSUME NEW r \in Price, r # p PROVE QueueAt(c, s, r) = QueueAt(b, s, r)
    BY <1>1, <1>3 DEF QueueAt
<1>4. ASSUME NEW t \in Side, t # s, NEW r \in Price PROVE QueueAt(c, t, r) = QueueAt(b, t, r)
    BY <1>1, <1>4 DEF QueueAt, Prices
<1> QED
    BY <1>2, <1>3, <1>4 DEF BookTo

LEMMA InsertQueues ==
    ASSUME NEW b, WellFormed(b), NEW o \in Order, o.id \notin Resting(b)
    PROVE  BookTo(b, Insert(b, o), o.side, o.price,
                  Append(QueueAt(b, o.side, o.price), NodeFor(o)))
<1> DEFINE old == LevelOrNew(b.levels[o.side], o.price)
           nq == Append(QueueAt(b, o.side, o.price), NodeFor(o))
           new == [total_qty |-> old.total_qty + o.remaining, queue |-> nq]
           ix == [i \in DOMAIN b.index \cup {o.id} |->
                    IF i = o.id THEN [side |-> o.side, price |-> o.price] ELSE b.index[i]]
<1>1. o.side \in Side /\ IsBook(b) /\ QueueAt(b, o.side, o.price) \in Queue
    BY QueueType DEF Order, WellFormed
<1>2. old.queue = QueueAt(b, o.side, o.price)
    BY DEF QueueAt, LevelOrNew, Prices
<1>3. nq # << >>
    BY <1>1 DEF Queue
<1>4. Insert(b, o) = Rewritten(b, o.side, o.price, new, ix)
    BY <1>2, <1>3 DEF Insert, InsertInto, Rewritten, Keep, NodeFor
<1>5. new.queue = nq
    OBVIOUS
<1> HIDE DEF new, ix, nq
<1>6. BookTo(b, Insert(b, o), o.side, o.price, new.queue)
    BY <1>1, <1>4, RewrittenQueues
<1> QED
    BY <1>5, <1>6 DEF nq

LEMMA CancelQueues ==
    ASSUME NEW b, WellFormed(b), NEW s \in Side, NEW p \in Price,
           NEW i \in DOMAIN QueueAt(b, s, p)
    PROVE  /\ QueueAt(b, s, p)[i].id \in Resting(b)
           /\ BookTo(b, CancelOrder(b, QueueAt(b, s, p)[i].id), s, p,
                     RemoveAt(QueueAt(b, s, p), i))
<1> DEFINE q == b.levels[s][p].queue
           id == q[i].id
<1>1. p \in Prices(b, s) /\ QueueAt(b, s, p) = q /\ i \in DOMAIN q
    BY DEF QueueAt
<1>2. IsBook(b) /\ IndexMatchesQueues(b)
    BY DEF WellFormed
<1>3. SoundNode(b, s, p, i)
    BY <1>1, <1>2, NodeIsSound
<1>4. /\ id \in Resting(b) /\ b.index[id] = [side |-> s, price |-> p]
      /\ \A j \in DOMAIN q : id = q[j].id => i = j
    BY <1>3 DEF SoundNode
<1>5. NodeOf(q, id) = i
    <2> HIDE DEF q
    <2> QED
        BY <1>1, <1>4 DEF NodeOf
<1> HIDE DEF id
<1>6. b.index[id].side = s /\ b.index[id].price = p
    BY <1>4
<1> DEFINE new == [total_qty |-> b.levels[s][p].total_qty - q[i].qty, queue |-> RemoveAt(q, i)]
           ix == Unindex(b.index, id)
<1>7. CancelOrder(b, id) = Rewritten(b, s, p, new, ix)
    BY <1>1, <1>4, <1>5, <1>6 DEF CancelOrder, EraseLocator, WithoutNode, Rewritten, Prices
<1>8. new.queue = RemoveAt(q, i)
    OBVIOUS
<1> HIDE DEF new, ix
<1>9. BookTo(b, CancelOrder(b, id), s, p, new.queue)
    BY <1>2, <1>7, RewrittenQueues
<1> QED
    BY <1>1, <1>4, <1>8, <1>9 DEF id

LEMMA TradeQueues ==
    ASSUME NEW b, WellFormed(b), NEW s \in Side, NEW p \in Prices(b, s), NEW taken
    PROVE  LET q == QueueAt(b, s, p)
           IN  BookTo(b, TradeFront(b, s, p, taken), s, p, [q EXCEPT ![1].qty = q[1].qty - taken])
<1> DEFINE q == b.levels[s][p].queue
           nq == [q EXCEPT ![1].qty = q[1].qty - taken]
           new == [total_qty |-> b.levels[s][p].total_qty - taken, queue |-> nq]
<1>1. IsBook(b) /\ q # << >> /\ q \in Queue /\ QueueAt(b, s, p) = q
    BY QueueType DEF WellFormed, QueueAt
<1>2. nq # << >>
    <2>1. 1 \in DOMAIN q /\ DOMAIN nq = DOMAIN q
        <3> HIDE DEF q
        <3> QED
            BY <1>1, EmptySeq DEF Queue
    <2> HIDE DEF nq, q
    <2> QED
        BY <2>1
<1>3. TradeFront(b, s, p, taken) = Rewritten(b, s, p, new, b.index)
    BY <1>2 DEF TradeFront, Rewritten, Keep
<1>4. new.queue = nq
    OBVIOUS
<1> HIDE DEF new, nq
<1>5. BookTo(b, TradeFront(b, s, p, taken), s, p, new.queue)
    BY <1>1, <1>3, RewrittenQueues
<1> QED
    BY <1>1, <1>4, <1>5 DEF nq

LEMMA PopQueues ==
    ASSUME NEW b, WellFormed(b), NEW s \in Side, NEW p \in Prices(b, s),
           FrontNode(b, s, p).qty = 0
    PROVE  BookTo(b, PopFront(b, s, p), s, p, RemoveAt(QueueAt(b, s, p), 1))
<1>1. PopFront(b, s, p) = CancelOrder(b, FrontNode(b, s, p).id)
    BY PopIsCancel
<1>2. /\ 1 \in DOMAIN QueueAt(b, s, p) /\ FrontNode(b, s, p) = QueueAt(b, s, p)[1]
    BY FrontTypes DEF QueueAt
<1>3. p \in Price
    BY DEF WellFormed, IsBook
<1> QED
    BY <1>1, <1>2, <1>3, CancelQueues

(***************************************************************************)
(* What the exchange shows, and the book that shows the same.              *)
(***************************************************************************)

Shown == [id : OrderId, size : 1 .. MaxQty]

View == [Side -> [Price -> Seq(Shown)]]

LEMMA ViewTypes ==
    ASSUME NEW v \in View, NEW s \in Side, NEW p \in Price
    PROVE  /\ v[s][p] \in Seq(Shown) /\ Len(v[s][p]) \in Nat
           /\ DOMAIN v[s][p] = 1 .. Len(v[s][p])
           /\ \A i \in 1 .. Len(v[s][p]) :
                /\ v[s][p][i] \in Shown /\ v[s][p][i].id \in OrderId
                /\ v[s][p][i].size \in 1 .. MaxQty /\ v[s][p][i].size \in Nat
<1>1. v[s][p] \in Seq(Shown)
    BY DEF View
<1>2. Len(v[s][p]) \in Nat /\ DOMAIN v[s][p] = 1 .. Len(v[s][p])
    BY <1>1, LenProperties
<1>3. ASSUME NEW i \in 1 .. Len(v[s][p])
      PROVE  v[s][p][i] \in Shown /\ v[s][p][i].id \in OrderId
             /\ v[s][p][i].size \in 1 .. MaxQty /\ v[s][p][i].size \in Nat
    <2>1. v[s][p][i] \in Shown
        BY <1>1, ElementOfSeq
    <2> QED
        BY <2>1, MaxQtyAssumption DEF Shown
<1> QED
    BY <1>1, <1>2, <1>3

\* From v to w only the orders of one price change.
ViewTo(v, w, s, p, l) ==
    /\ w[s][p] = l
    /\ \A t \in Side, r \in Price : t # s \/ r # p => w[t][r] = v[t][r]

LEMMA ViewStep ==
    ASSUME NEW v \in View, NEW s \in Side, NEW p \in Price, NEW l \in Seq(Shown),
           NEW w, w = [v EXCEPT ![s][p] = l]
    PROVE  w \in View /\ ViewTo(v, w, s, p, l)
    BY DEF View, ViewTo

LEMMA ViewMade ==
    ASSUME NEW v \in View, NEW s \in Side, NEW p \in Price, NEW l \in Seq(Shown)
    PROVE  \E w \in View : ViewTo(v, w, s, p, l)
<1> DEFINE w == [v EXCEPT ![s][p] = l]
<1>1. w = [v EXCEPT ![s][p] = l]
    OBVIOUS
<1> HIDE DEF w
<1>2. w \in View /\ ViewTo(v, w, s, p, l)
    BY <1>1, ViewStep
<1> QED
    BY <1>2

\* The nodes of a queue are the orders shown, in their order.
Same(q, l) ==
    Len(q) = Len(l) /\ \A i \in 1 .. Len(l) : q[i].id = l[i].id /\ q[i].qty = l[i].size

Mirrors(b, v) == \A s \in Side, p \in Price : Same(QueueAt(b, s, p), v[s][p])

LEMMA MirrorsOn ==
    ASSUME NEW b, NEW v, NEW c, NEW w, NEW s \in Side, NEW p \in Price, NEW q, NEW l,
           Mirrors(b, v), BookTo(b, c, s, p, q), ViewTo(v, w, s, p, l), Same(q, l)
    PROVE  Mirrors(c, w)
<1> SUFFICES ASSUME NEW t \in Side, NEW r \in Price
             PROVE  Same(QueueAt(c, t, r), w[t][r])
    BY DEF Mirrors
<1>1. CASE t = s /\ r = p
    BY <1>1 DEF BookTo, ViewTo
<1>2. CASE t # s \/ r # p
    BY <1>2 DEF BookTo, ViewTo, Mirrors
<1> QED
    BY <1>1, <1>2

LEMMA SameAppend ==
    ASSUME NEW q \in Queue, NEW l \in Seq(Shown), Same(q, l), NEW x, NEW o,
           x.id = o.id, x.qty = o.size
    PROVE  Same(Append(q, x), Append(l, o))
<1>1. Len(q) \in Nat /\ Len(l) = Len(q)
    BY NodeTypes DEF Same
<1>2. /\ Len(Append(q, x)) = Len(q) + 1 /\ Len(Append(l, o)) = Len(l) + 1
      /\ Append(q, x)[Len(q) + 1] = x /\ Append(l, o)[Len(l) + 1] = o
      /\ \A i \in 1 .. Len(q) : Append(q, x)[i] = q[i] /\ Append(l, o)[i] = l[i]
    BY <1>1 DEF Queue
<1>3. ASSUME NEW i \in 1 .. Len(l) + 1
      PROVE  Append(q, x)[i].id = Append(l, o)[i].id /\ Append(q, x)[i].qty = Append(l, o)[i].size
    <2>1. CASE i = Len(l) + 1
        BY <2>1, <1>1, <1>2
    <2>2. CASE i # Len(l) + 1
        <3>1. i \in 1 .. Len(l)
            BY <2>2, <1>1
        <3>2. q[i].id = l[i].id /\ q[i].qty = l[i].size
            BY <3>1 DEF Same
        <3> QED
            BY <3>1, <3>2, <1>1, <1>2
    <2> QED
        BY <2>1, <2>2
<1> QED
    BY <1>1, <1>2, <1>3 DEF Same

LEMMA SameRemove ==
    ASSUME NEW q \in Queue, NEW l \in Seq(Shown), Same(q, l), NEW k \in 1 .. Len(l)
    PROVE  Same(RemoveAt(q, k), RemoveAt(l, k))
<1>1. Len(q) = Len(l) /\ q \in Seq(RestingOrder) /\ k \in 1 .. Len(q)
    BY DEF Same, Queue
<1> DEFINE a == RemoveAt(q, k)
           c == RemoveAt(l, k)
<1>2. /\ Len(a) = Len(q) - 1
      /\ \A i \in 1 .. Len(a) : a[i] = q[OldPlace(k, i)]
    BY <1>1, RemoveFacts
<1>3. /\ Len(c) = Len(l) - 1
      /\ \A i \in 1 .. Len(c) : OldPlace(k, i) \in 1 .. Len(l) /\ c[i] = l[OldPlace(k, i)]
    BY RemoveFacts
<1> HIDE DEF a, c
<1>4. ASSUME NEW i \in 1 .. Len(c)
      PROVE  a[i].id = c[i].id /\ a[i].qty = c[i].size
    <2> DEFINE j == OldPlace(k, i)
    <2>1. j \in 1 .. Len(l) /\ a[i] = q[j] /\ c[i] = l[j]
        BY <1>1, <1>2, <1>3
    <2> HIDE DEF j
    <2>2. q[j].id = l[j].id /\ q[j].qty = l[j].size
        BY <2>1 DEF Same
    <2> QED
        BY <2>1, <2>2
<1> QED
    BY <1>1, <1>2, <1>3, <1>4 DEF Same, a, c

\* What an order loses when it is not the whole of it.
LEMMA LessFacts ==
    ASSUME NEW l \in Seq(Shown), NEW k \in 1 .. Len(l), NEW size \in 1 .. MaxQty,
           size <= l[k].size
    PROVE  /\ Less(l, k, size) \in Seq(Shown)
           /\ size < l[k].size =>
                /\ Len(Less(l, k, size)) = Len(l)
                /\ \A i \in 1 .. Len(l) :
                     /\ Less(l, k, size)[i].id = l[i].id
                     /\ Less(l, k, size)[i].size = IF i = k THEN l[k].size - size ELSE l[i].size
           /\ size = l[k].size => Less(l, k, size) = RemoveAt(l, k)
<1>1. l[k] \in Shown /\ l[k].size \in 1 .. MaxQty /\ Len(l) \in Nat /\ DOMAIN l = 1 .. Len(l)
    <2>1. l[k] \in Shown
        BY ElementOfSeq
    <2> QED
        BY <2>1, LenProperties DEF Shown
<1>2. CASE size = l[k].size
    <2>1. Less(l, k, size) = RemoveAt(l, k)
        BY <1>1, <1>2 DEF Less
    <2> QED
        BY <1>1, <1>2, <2>1, RemoveFacts
<1>3. CASE size < l[k].size
    <2> DEFINE o == [l[k] EXCEPT !.size = l[k].size - size]
               m == [l EXCEPT ![k] = o]
    <2>1. o \in Shown /\ o.id = l[k].id /\ o.size = l[k].size - size
        BY <1>1, <1>3, MaxQtyAssumption DEF Shown
    <2>2. Less(l, k, size) = m
        BY <1>1, <1>3 DEF Less
    <2> HIDE DEF o
    <2>3. m \in Seq(Shown) /\ Len(m) = Len(l) /\ \A i \in 1 .. Len(l) : m[i] = IF i = k THEN o ELSE l[i]
        BY <2>1, <1>1
    <2> HIDE DEF m
    <2> QED
        BY <1>1, <1>3, <2>1, <2>2, <2>3
<1> QED
    BY <1>1, <1>2, <1>3

(***************************************************************************)
(* What a row does to a book that mirrors a view.                          *)
(***************************************************************************)

\* An order with this id may be added here: nobody has the id, nothing is crossed.
Welcome(v, s, p, id) ==
    /\ \A t \in Side, r \in Price : \A i \in DOMAIN v[t][r] : v[t][r][i].id # id
    /\ \A r \in Price : v[Opposite(s)][r] # << >> => Better(Opposite(s), p, r)

AddLeads(v, s, p, id, size, w) ==
    /\ id \in OrderId /\ size \in 1 .. MaxQty
    /\ Welcome(v, s, p, id)
    /\ ViewTo(v, w, s, p, Append(v[s][p], [id |-> id, size |-> size]))

CancelLeads(v, s, p, k, w) ==
    k \in DOMAIN v[s][p] /\ ViewTo(v, w, s, p, RemoveAt(v[s][p], k))

TradeLeads(v, s, p, size, w) ==
    /\ v[s][p] # << >> /\ size \in 1 .. MaxQty /\ size <= v[s][p][1].size
    /\ \A r \in Price \ {p} : v[s][r] # << >> => Better(s, p, r)
    /\ ViewTo(v, w, s, p, Less(v[s][p], 1, size))

\* A spent front order of the best level is popped.
Settled(b, s) ==
    LET p == Best(b, s)
    IN  IF FrontNode(b, s, p).qty <= 0 THEN PopFront(b, s, p) ELSE b

\* A level for every price at which something is shown, and no other.
LEMMA MirrorPrices ==
    ASSUME NEW b, WellFormed(b), NEW v \in View, Mirrors(b, v), NEW s \in Side, NEW p \in Price
    PROVE  /\ QueueAt(b, s, p) \in Queue /\ v[s][p] \in Seq(Shown)
           /\ Same(QueueAt(b, s, p), v[s][p])
           /\ DOMAIN QueueAt(b, s, p) = DOMAIN v[s][p]
           /\ p \in Prices(b, s) <=> v[s][p] # << >>
<1> DEFINE q == QueueAt(b, s, p)
<1>1. q \in Queue /\ (q # << >> <=> p \in Prices(b, s)) /\ v[s][p] \in Seq(Shown)
    BY QueueType, ViewTypes
<1>2. Same(q, v[s][p])
    BY DEF Mirrors
<1> HIDE DEF q
<1>3. Len(q) = Len(v[s][p]) /\ DOMAIN q = 1 .. Len(q) /\ DOMAIN v[s][p] = 1 .. Len(v[s][p])
    BY <1>1, <1>2, ViewTypes, NodeTypes DEF Same
<1>4. (q = << >> <=> Len(q) = 0) /\ (v[s][p] = << >> <=> Len(v[s][p]) = 0)
    BY <1>1, EmptySeq DEF Queue
<1> QED
    BY <1>1, <1>2, <1>3, <1>4 DEF q

LEMMA AddDone ==
    ASSUME NEW b, WellFormed(b), NEW v \in View, Mirrors(b, v), NEW w, NEW o \in Order,
           AddLeads(v, o.side, o.price, o.id, o.remaining, w)
    PROVE  /\ Mirrors(Insert(b, o), w)
           /\ \A r \in Prices(b, Opposite(o.side)) : Better(Opposite(o.side), o.price, r)
<1> DEFINE s == o.side
           p == o.price
           x == [id |-> o.id, size |-> o.remaining]
<1>1. s \in Side /\ Opposite(s) \in Side /\ p \in Price
    BY DEF Order, Side, Opposite
<1>2. IsBook(b) /\ IndexMatchesQueues(b)
    BY DEF WellFormed
<1>3. o.id \notin Resting(b)
    <2> SUFFICES ASSUME o.id \in Resting(b) PROVE FALSE
        OBVIOUS
    <2>1. PICK t \in Side, r \in Price : EntryAt(b, o.id, t, r)
        BY <1>2, EntryLeads
    <2>2. PICK i \in DOMAIN b.levels[t][r].queue : b.levels[t][r].queue[i].id = o.id
        BY <2>1 DEF EntryAt
    <2>3. QueueAt(b, t, r) = b.levels[t][r].queue
        BY <2>1 DEF EntryAt, QueueAt
    <2>4. Same(QueueAt(b, t, r), v[t][r]) /\ DOMAIN QueueAt(b, t, r) = DOMAIN v[t][r]
        BY MirrorPrices
    <2>5. i \in DOMAIN v[t][r] /\ DOMAIN v[t][r] = 1 .. Len(v[t][r])
        BY <2>2, <2>3, <2>4, ViewTypes
    <2>6. v[t][r][i].id = o.id
        BY <2>2, <2>3, <2>4, <2>5 DEF Same
    <2> QED
        BY <2>5, <2>6 DEF AddLeads, Welcome
<1>4. BookTo(b, Insert(b, o), s, p, Append(QueueAt(b, s, p), NodeFor(o)))
    BY <1>3, InsertQueues
<1>5. ViewTo(v, w, s, p, Append(v[s][p], x))
    BY DEF AddLeads
<1>6. QueueAt(b, s, p) \in Queue /\ v[s][p] \in Seq(Shown) /\ Same(QueueAt(b, s, p), v[s][p])
    BY <1>1, MirrorPrices
<1>7. NodeFor(o).id = x.id /\ NodeFor(o).qty = x.size
    BY DEF NodeFor
<1>8. ASSUME NEW r \in Prices(b, Opposite(s)) PROVE Better(Opposite(s), p, r)
    <2>1. r \in Price
        BY <1>1, <1>2 DEF IsBook
    <2>2. v[Opposite(s)][r] # << >>
        BY <1>1, <2>1, MirrorPrices
    <2> QED
        BY <2>1, <2>2 DEF AddLeads, Welcome
<1> HIDE DEF s, p, x
<1>9. Same(Append(QueueAt(b, s, p), NodeFor(o)), Append(v[s][p], x))
    BY <1>6, <1>7, SameAppend
<1>10. Mirrors(Insert(b, o), w)
    BY <1>1, <1>4, <1>5, <1>9, MirrorsOn
<1> QED
    BY <1>8, <1>10 DEF s, p

LEMMA CancelDone ==
    ASSUME NEW b, WellFormed(b), NEW v \in View, Mirrors(b, v), NEW w,
           NEW s \in Side, NEW p \in Price, NEW k, CancelLeads(v, s, p, k, w)
    PROVE  Mirrors(CancelOrder(b, v[s][p][k].id), w)
<1>1. /\ QueueAt(b, s, p) \in Queue /\ v[s][p] \in Seq(Shown)
      /\ Same(QueueAt(b, s, p), v[s][p]) /\ DOMAIN QueueAt(b, s, p) = DOMAIN v[s][p]
    BY MirrorPrices
<1>2. k \in DOMAIN QueueAt(b, s, p) /\ k \in 1 .. Len(v[s][p])
    BY <1>1, ViewTypes DEF CancelLeads
<1>3. v[s][p][k].id = QueueAt(b, s, p)[k].id
    BY <1>1, <1>2 DEF Same
<1>4. BookTo(b, CancelOrder(b, v[s][p][k].id), s, p, RemoveAt(QueueAt(b, s, p), k))
    BY <1>2, <1>3, CancelQueues
<1>5. Same(RemoveAt(QueueAt(b, s, p), k), RemoveAt(v[s][p], k))
    BY <1>1, <1>2, SameRemove
<1>6. ViewTo(v, w, s, p, RemoveAt(v[s][p], k))
    BY DEF CancelLeads
<1> QED
    BY <1>4, <1>5, <1>6, MirrorsOn

LEMMA TradeDone ==
    ASSUME NEW b, WellFormed(b), NEW v \in View, Mirrors(b, v), NEW w,
           NEW s \in Side, NEW p \in Price, NEW taken, TradeLeads(v, s, p, taken, w)
    PROVE  /\ p \in Prices(b, s) /\ Best(b, s) = p
           /\ taken <= FrontNode(b, s, p).qty
           /\ Mirrors(Settled(TradeFront(b, s, p, taken), s), w)
<1> DEFINE q == QueueAt(b, s, p)
           l == v[s][p]
           c == TradeFront(b, s, p, taken)
           nq == [q EXCEPT ![1].qty = q[1].qty - taken]
<1>1. q \in Queue /\ l \in Seq(Shown) /\ Same(q, l) /\ p \in Prices(b, s)
    BY MirrorPrices DEF TradeLeads
<1>2. IsBook(b)
    BY DEF WellFormed
<1>3. Best(b, s) = p
    <2>1. Best(b, s) \in Prices(b, s) /\ \A r \in Prices(b, s) \ {Best(b, s)} : Better(s, Best(b, s), r)
        BY <1>1, <1>2, BestIsBest
    <2>2. Best(b, s) \in Price /\ Best(b, s) \in Int /\ p \in Int
        BY <1>2, <2>1, PriceAssumption DEF IsBook
    <2>3. v[s][Best(b, s)] # << >>
        BY <2>1, <2>2, MirrorPrices
    <2>4. ASSUME Best(b, s) # p PROVE FALSE
        <3>1. Better(s, p, Best(b, s)) /\ Better(s, Best(b, s), p)
            BY <1>1, <2>1, <2>2, <2>3, <2>4 DEF TradeLeads
        <3> QED
            BY <2>2, <3>1 DEF Better
    <2> QED
        BY <2>4
<1>4. FrontNode(b, s, p) = q[1] /\ q[1] \in RestingOrder /\ 1 \in 1 .. Len(l)
    <2>1. l # << >>
        BY DEF TradeLeads
    <2>2. 1 \in 1 .. Len(l)
        <3> HIDE DEF l
        <3> QED
            BY <1>1, <2>1, EmptySeq
    <2>3. q = b.levels[s][p].queue
        BY <1>1 DEF QueueAt
    <2> QED
        BY <1>1, <2>2, <2>3, FrontTypes
<1>5. taken \in 1 .. MaxQty /\ taken <= l[1].size /\ q[1].qty = l[1].size /\ ViewTo(v, w, s, p, Less(l, 1, taken))
    BY <1>1, <1>4 DEF TradeLeads, Same
<1>6. taken \in Nat /\ taken <= FrontNode(b, s, p).qty /\ l[1].size \in Nat
    <2>1. l[1].size \in Nat
        BY <1>4, ViewTypes
    <2> QED
        BY <1>4, <1>5, <2>1, MaxQtyAssumption
<1>7. BookTo(b, c, s, p, nq)
    BY <1>1, TradeQueues
<1>8. WellFormed(c) /\ Prices(c, s) = Prices(b, s)
    BY <1>1, <1>6, TradeWellFormed, TradeNodes
<1>9. Best(c, s) = p /\ p \in Prices(c, s)
    BY <1>1, <1>3, <1>8, SameBest
<1> HIDE DEF c, q, l
<1>10. /\ nq \in Queue /\ Len(nq) = Len(q)
       /\ nq[1].qty = q[1].qty - taken /\ nq[1].id = q[1].id
       /\ \A i \in 1 .. Len(q) : i # 1 => nq[i] = q[i]
    <2>1. 1 \in DOMAIN q /\ DOMAIN q = 1 .. Len(q) /\ q # << >>
        BY <1>1, <1>4, NodeTypes DEF Same
    <2>2. nq \in Queue /\ DOMAIN nq = DOMAIN q /\ nq[1] = [q[1] EXCEPT !.qty = q[1].qty - taken]
          /\ \A i \in DOMAIN q : i # 1 => nq[i] = q[i]
        BY <1>1, <1>4, <1>5, <1>6, <2>1, QueueQtyFront
    <2> HIDE DEF nq
    <2> QED
        BY <1>4, <2>1, <2>2, NodeTypes DEF RestingOrder
<1> HIDE DEF nq
<1>11. QueueAt(c, s, p) = nq /\ FrontNode(c, s, p) = nq[1]
    <2>1. QueueAt(c, s, p) = nq
        BY <1>7 DEF BookTo
    <2>2. QueueAt(c, s, p) = c.levels[s][p].queue
        BY <1>9 DEF QueueAt
    <2> QED
        BY <1>8, <1>9, <2>1, <2>2, FrontTypes
<1>12. /\ Less(l, 1, taken) \in Seq(Shown)
       /\ taken < l[1].size =>
            /\ Len(Less(l, 1, taken)) = Len(l)
            /\ \A i \in 1 .. Len(l) :
                 /\ Less(l, 1, taken)[i].id = l[i].id
                 /\ Less(l, 1, taken)[i].size = IF i = 1 THEN l[1].size - taken ELSE l[i].size
       /\ taken = l[1].size => Less(l, 1, taken) = RemoveAt(l, 1)
    BY <1>1, <1>4, <1>5, LessFacts
<1>13. CASE taken < l[1].size
    <2>1. Settled(c, s) = c
        BY <1>5, <1>6, <1>9, <1>10, <1>11, <1>13 DEF Settled
    <2>2. Same(nq, Less(l, 1, taken))
        BY <1>1, <1>4, <1>5, <1>10, <1>12, <1>13 DEF Same
    <2>3. Mirrors(c, w)
        BY <1>5, <1>7, <2>2, MirrorsOn
    <2> QED
        BY <1>1, <1>3, <1>6, <2>1, <2>3 DEF c
<1>14. CASE taken = l[1].size
    <2>1. FrontNode(c, s, p).qty = 0
        BY <1>5, <1>6, <1>10, <1>11, <1>14
    <2>2. Settled(c, s) = PopFront(c, s, p)
        BY <1>9, <2>1 DEF Settled
    <2>3. BookTo(c, PopFront(c, s, p), s, p, RemoveAt(nq, 1))
        BY <1>8, <1>9, <1>11, <2>1, PopQueues
    <2>4. BookTo(b, PopFront(c, s, p), s, p, RemoveAt(nq, 1))
        BY <1>7, <2>3 DEF BookTo
    <2>5. Same(RemoveAt(nq, 1), RemoveAt(l, 1))
        <3>1. /\ Len(q) = Len(l) /\ Len(l) \in Nat /\ 1 \in 1 .. Len(nq)
              /\ nq \in Seq(RestingOrder)
              /\ \A i \in 1 .. Len(l) : i # 1 => nq[i].id = l[i].id /\ nq[i].qty = l[i].size
            BY <1>1, <1>4, <1>10 DEF Same, Queue
        <3> DEFINE a == RemoveAt(nq, 1)
                   d == RemoveAt(l, 1)
        <3>2. Len(a) = Len(nq) - 1 /\ \A i \in 1 .. Len(a) : a[i] = nq[OldPlace(1, i)]
            BY <3>1, RemoveFacts
        <3>3. Len(d) = Len(l) - 1 /\ \A i \in 1 .. Len(d) : d[i] = l[OldPlace(1, i)]
            BY <1>1, <1>4, RemoveFacts
        <3> HIDE DEF a, d
        <3>4. \A i \in 1 .. Len(d) : OldPlace(1, i) \in 1 .. Len(l) /\ OldPlace(1, i) # 1
            BY <3>1, <3>3 DEF OldPlace
        <3> QED
            BY <1>10, <3>1, <3>2, <3>3, <3>4 DEF Same, a, d
    <2>6. Mirrors(PopFront(c, s, p), w)
        BY <1>5, <1>12, <1>14, <2>4, <2>5, MirrorsOn
    <2> QED
        BY <1>1, <1>3, <1>6, <2>2, <2>6 DEF c
<1> QED
    BY <1>5, <1>6, <1>13, <1>14

(***************************************************************************)
(* The replay.  A view is in progress when the engine's remaining steps    *)
(* with the order at hand lead the book there.                             *)
(***************************************************************************)

TapeRow == [type : {"Add", "Cancel", "Trade"}, side : Side, price : Price,
            qty : Quantity, id : OrderId]

\* Nobody is shown under the id.
Unseen(v, id) ==
    \A s \in Side, p \in Price : \A k \in DOMAIN v[s][p] : v[s][p][k].id # id

\* Replaying the row takes a book that mirrors v to one that mirrors w.
RowLeads(v, row, w) ==
    /\ row \in TapeRow
    /\ \/ row.type = "Add" /\ AddLeads(v, row.side, row.price, row.id, row.qty, w)
       \/ /\ row.type = "Cancel"
          /\ \E k \in DOMAIN v[row.side][row.price] :
               v[row.side][row.price][k].id = row.id /\ CancelLeads(v, row.side, row.price, k, w)
       \/ row.type = "Cancel" /\ Unseen(v, row.id) /\ w = v
       \/ row.type = "Trade" /\ TradeLeads(v, Opposite(row.side), row.price, row.qty, w)

InProgress(u) ==
    \/ phase \in {"idle", "done"} /\ Mirrors(book, u)
    \/ phase = "match" /\ in.remaining = 0 /\ Mirrors(book, u)
    \/ /\ phase = "match" /\ in.remaining > 0 /\ in.type = "Limit" /\ ~Matching
       /\ Mirrors(Insert(book, in), u)
    \/ /\ phase = "match" /\ in.remaining > 0 /\ in.type = "IOC" /\ Matching
       /\ in.remaining <= FrontNode(book, Opp, Best(book, Opp)).qty
       /\ Mirrors(Settled(TradeFront(book, Opp, Best(book, Opp), in.remaining), Opp), u)
    \/ phase = "traded" /\ in.remaining = 0 /\ Mirrors(Settled(book, Opp), u)

\* The order an Add or a Trade row becomes, as submit accepts it.
LEMMA RowAccepted ==
    ASSUME NEW row \in TapeRow, NEW o, o = OnAccept([RowOrder(row) EXCEPT !.remaining = row.qty])
    PROVE  /\ RowOrder(row) \in Submission /\ RowOrder(row).qty = row.qty
           /\ o \in Order /\ o.id = row.id /\ o.side = row.side /\ o.price = row.price
           /\ o.remaining = row.qty /\ o.qty = row.qty
           /\ o.type = IF row.type = "Add" THEN "Limit" ELSE "IOC"
<1>1. RowOrder(row) \in Submission
    BY TapeAssumption DEF TapeRow, RowOrder, Submission, OrderType
<1>2. o = [id |-> row.id, side |-> row.side,
           type |-> IF row.type = "Add" THEN "Limit" ELSE "IOC", price |-> row.price,
           qty |-> row.qty, remaining |-> row.qty, status |-> "Accepted", is_ours |-> FALSE]
    BY DEF OnAccept, RowOrder
<1>3. /\ o.id = row.id /\ o.side = row.side /\ o.price = row.price
      /\ o.remaining = row.qty /\ o.qty = row.qty
      /\ o.type = IF row.type = "Add" THEN "Limit" ELSE "IOC"
    BY <1>2
<1>4. o \in Order
    <2> DEFINE sub == RowOrder(row)
    <2>1. /\ sub \in [id : OrderId, side : Side, type : OrderType, price : Price,
                      qty : Quantity, remaining : {0}, status : {"New"}, is_ours : Owners]
          /\ Owners \subseteq BOOLEAN /\ "Accepted" \in OrderStatus /\ row.qty \in Quantity
        BY <1>1, OwnersAssumption DEF Submission, OrderStatus, TapeRow
    <2> HIDE DEF sub
    <2>2. o = OnAccept([sub EXCEPT !.remaining = row.qty])
        BY DEF sub
    <2> QED
        BY <2>1, <2>2 DEF OnAccept, Order
<1>5. RowOrder(row).qty = row.qty
    BY DEF RowOrder
<1> QED
    BY <1>1, <1>3, <1>4, <1>5

\* Nothing rests under an id that nobody is shown under.
LEMMA UnseenRests ==
    ASSUME NEW b, WellFormed(b), NEW v \in View, Mirrors(b, v), NEW id, Unseen(v, id)
    PROVE  id \notin Resting(b)
<1> SUFFICES ASSUME id \in Resting(b) PROVE FALSE
    OBVIOUS
<1>1. /\ Entry(b, id).id = id
      /\ \E s \in Side, p \in Price :
           b.index[id] = [side |-> s, price |-> p] /\ HasNode(b, s, p, Entry(b, id))
    BY EntryIsNode
<1>2. PICK s \in Side, p \in Price : HasNode(b, s, p, Entry(b, id))
    BY <1>1
<1>3. PICK i \in DOMAIN QueueAt(b, s, p) : QueueAt(b, s, p)[i] = Entry(b, id)
    BY <1>2 DEF HasNode, QueueAt
<1>4. Same(QueueAt(b, s, p), v[s][p]) /\ DOMAIN QueueAt(b, s, p) = DOMAIN v[s][p]
    BY MirrorPrices
<1>5. i \in DOMAIN v[s][p] /\ DOMAIN v[s][p] = 1 .. Len(v[s][p])
    BY <1>3, <1>4, ViewTypes
<1>6. v[s][p][i].id = id
    BY <1>1, <1>3, <1>4, <1>5 DEF Same
<1> QED
    BY <1>5, <1>6 DEF Unseen

LEMMA RowStarts ==
    ASSUME IInv, phase = "idle", NEW v \in View, Mirrors(book, v), NEW w,
           RowLeads(v, rows[1], w), ReplayRow
    PROVE  IInv' /\ InProgress(w)'
<1> DEFINE row == rows[1]
           o == OnAccept([RowOrder(row) EXCEPT !.remaining = row.qty])
<1>1. row \in TapeRow /\ WellFormed(book)
    BY InvBook DEF RowLeads
<1>2. row.id \in OrderId /\ row.side \in Side /\ row.price \in Price /\ row.qty \in Quantity
    BY <1>1 DEF TapeRow
<1>3. CASE row.type = "Cancel"
    <2>1. Cancel(row.id)
        BY <1>3 DEF ReplayRow
    <2>2. IInv'
        BY <1>2, <2>1, CancelIInv
    <2>3. ASSUME \E k \in DOMAIN v[row.side][row.price] :
                   v[row.side][row.price][k].id = row.id
                   /\ CancelLeads(v, row.side, row.price, k, w)
          PROVE  Mirrors(CancelOrder(book, row.id), w)
        <3>1. PICK k \in DOMAIN v[row.side][row.price] :
                v[row.side][row.price][k].id = row.id /\ CancelLeads(v, row.side, row.price, k, w)
            BY <2>3
        <3> QED
            BY <1>1, <1>2, <3>1, CancelDone
    <2>4. ASSUME Unseen(v, row.id), w = v
          PROVE  Mirrors(CancelOrder(book, row.id), w)
        <3>1. row.id \notin Resting(book)
            BY <1>1, <2>4, UnseenRests
        <3>2. CancelOrder(book, row.id) = book
            BY <3>1 DEF CancelOrder
        <3> QED
            BY <2>4, <3>2
    <2>6. Mirrors(CancelOrder(book, row.id), w)
        BY <1>3, <2>3, <2>4 DEF RowLeads
    <2>5. phase' = "idle" /\ book' = CancelOrder(book, row.id)
        BY <2>1 DEF Cancel
    <2> QED
        BY <2>2, <2>6, <2>5 DEF InProgress
<1>4. CASE row.type # "Cancel"
    <2>1. Submit(RowOrder(row))
        BY <1>4 DEF ReplayRow
    <2> HIDE DEF o, row
    <2>2. /\ RowOrder(row) \in Submission /\ RowOrder(row).qty = row.qty
          /\ o \in Order /\ o.id = row.id /\ o.side = row.side /\ o.price = row.price
          /\ o.remaining = row.qty /\ o.qty = row.qty
          /\ o.type = IF row.type = "Add" THEN "Limit" ELSE "IOC"
        BY <1>1, RowAccepted DEF o
    <2>3. IInv'
        BY <2>1, <2>2, SubmitIInv
    <2>4. ~Refused(book, o)
        BY <2>2 DEF Refused
    <2>5. in' = o /\ phase' = "match" /\ book' = book
        BY <2>1, <2>2, <2>4 DEF Submit, o
    <2>6. in'.remaining = row.qty /\ in'.type = o.type /\ Opp' = Opposite(row.side)
        BY <2>2, <2>5 DEF Opp
    <2>7. CASE row.type = "Add"
        <3>1. AddLeads(v, o.side, o.price, o.id, o.remaining, w)
            BY <2>2, <2>7 DEF RowLeads, row
        <3>2. /\ Mirrors(Insert(book, o), w)
              /\ \A r \in Prices(book, Opposite(o.side)) : Better(Opposite(o.side), o.price, r)
            BY <1>1, <2>2, <3>1, AddDone
        <3>3. in'.remaining > 0 /\ in'.type = "Limit"
            BY <2>2, <2>6, <2>7, <3>1 DEF AddLeads
        <3>4. ~Matching'
            <4> SUFFICES ASSUME Prices(book, Opposite(o.side)) # {},
                                Crosses(o, Best(book, Opposite(o.side)))
                         PROVE  FALSE
                BY <2>2, <2>5, <2>6 DEF Matching
            <4> DEFINE r == Best(book, Opposite(o.side))
            <4>1. Opposite(o.side) \in Side /\ IsBook(book)
                BY <1>1 DEF Opposite, Side, WellFormed
            <4>2. r \in Prices(book, Opposite(o.side))
                BY <4>1, BestIsBest
            <4>3. r \in Int /\ o.price \in Int
                BY <2>2, <4>1, <4>2, PriceAssumption DEF IsBook, Order
            <4>4. Better(Opposite(o.side), o.price, r) /\ Crosses(o, r)
                BY <3>2, <4>2
            <4>5. o.side \in {"Buy", "Sell"} /\ o.type = "Limit"
                BY <2>2, <2>7 DEF Order, Side
            <4> HIDE DEF r
            <4> QED
                BY <4>3, <4>4, <4>5 DEF Better, Crosses, Opposite
        <3> QED
            BY <2>3, <2>5, <3>2, <3>3, <3>4 DEF InProgress
    <2>8. CASE row.type = "Trade"
        <3> DEFINE t == Opposite(row.side)
        <3>1. TradeLeads(v, t, row.price, row.qty, w) /\ t \in Side
            BY <1>2, <2>8 DEF RowLeads, row, Opposite, Side
        <3> HIDE DEF t
        <3>2. /\ row.price \in Prices(book, t) /\ Best(book, t) = row.price
              /\ row.qty <= FrontNode(book, t, row.price).qty
              /\ Mirrors(Settled(TradeFront(book, t, row.price, row.qty), t), w)
            BY <1>1, <1>2, <3>1, TradeDone
        <3>3. in'.remaining > 0 /\ in'.type = "IOC"
            BY <2>2, <2>6, <2>8, <3>1 DEF TradeLeads
        <3>4. Crosses(o, row.price)
            <4>1. o.price = row.price /\ row.price \in Int
                BY <1>2, <2>2, PriceAssumption
            <4> QED
                BY <4>1 DEF Crosses
        <3>5. Matching'
            BY <2>5, <2>6, <3>2, <3>3, <3>4 DEF Matching, t
        <3>6. Best(book, Opp)' = row.price
            BY <2>5, <2>6, <3>2 DEF t
        <3> QED
            BY <2>3, <2>5, <2>6, <3>2, <3>3, <3>5, <3>6 DEF InProgress, t
    <2> QED
        BY <1>1, <1>4, <2>7, <2>8 DEF TapeRow
<1> QED
    BY <1>3, <1>4

LEMMA StepsOn ==
    ASSUME IInv, Step, NEW w, InProgress(w)
    PROVE  IInv' /\ InProgress(w)'
<1>1. IInv'
    BY StepIInv DEF Next
<1>2. phase # "idle" => in \in Order /\ in.remaining \in Nat
    BY InvBook, MaxQtyAssumption DEF Order, Quantity
<1>3. CASE Trade
    <2> DEFINE p == Best(book, Opp)
               m == Traded(FrontNode(book, Opp, p))
    <2>1. /\ phase = "match" /\ in.remaining > 0 /\ Matching
          /\ in' = OnFill(in, m) /\ book' = TradeFront(book, Opp, p, m) /\ phase' = "traded"
        BY <1>3 DEF Trade, Matching
    <2>2. /\ in.remaining <= FrontNode(book, Opp, p).qty
          /\ Mirrors(Settled(TradeFront(book, Opp, p, in.remaining), Opp), w)
        BY <2>1 DEF InProgress
    <2>3. FrontNode(book, Opp, p).qty \in Nat
        <3>1. Prices(book, Opp) # {} /\ WellFormed(book) /\ IsBook(book) /\ Opp \in Side
            BY <2>1, InvBook DEF Matching
        <3>2. p \in Prices(book, Opp)
            BY <3>1, BestIsBest
        <3> QED
            BY <3>1, <3>2, FrontTypes, MaxQtyAssumption DEF Quantity
    <2>4. m = in.remaining
        BY <1>2, <2>1, <2>2, <2>3 DEF Traded
    <2> HIDE DEF p, m
    <2>5. in'.remaining = 0 /\ in'.side = in.side
        BY <1>2, <2>1, <2>4 DEF OnFill, Order
    <2>6. Opp' = Opp
        BY <2>5 DEF Opp
    <2>7. Mirrors(Settled(book', Opp'), w)
        BY <2>1, <2>2, <2>4, <2>6
    <2> QED
        BY <1>1, <2>1, <2>5, <2>7 DEF InProgress
<1>4. CASE Settle
    <2>1. phase = "traded" /\ phase' = "match" /\ in' = in /\ book' = Settled(book, Opp)
        BY <1>4 DEF Settle, Settled
    <2>2. in.remaining = 0 /\ Mirrors(Settled(book, Opp), w)
        BY <2>1 DEF InProgress
    <2> QED
        BY <1>1, <2>1, <2>2 DEF InProgress
<1>5. CASE Rest
    <2>1. /\ phase = "match" /\ phase' = "done" /\ book' = Insert(book, in)
          /\ in.remaining > 0 /\ in.type = "Limit" /\ ~Matching
        BY <1>5 DEF Rest
    <2>2. Mirrors(Insert(book, in), w)
        BY <1>2, <2>1 DEF InProgress
    <2> QED
        BY <1>1, <2>1, <2>2 DEF InProgress
<1>6. CASE Discard
    <2>1. phase = "match" /\ in.remaining > 0 /\ in.type # "Limit" /\ ~Matching
        BY <1>6 DEF Discard
    <2> QED
        BY <1>2, <2>1 DEF InProgress
<1>7. CASE Complete
    <2>1. phase = "match" /\ in.remaining = 0 /\ phase' = "done" /\ book' = book
        BY <1>7 DEF Complete
    <2>2. Mirrors(book, w)
        BY <2>1 DEF InProgress
    <2> QED
        BY <1>1, <2>1, <2>2 DEF InProgress
<1>8. CASE Return
    <2>1. phase = "done" /\ phase' = "idle" /\ book' = book
        BY <1>8 DEF Return
    <2>2. Mirrors(book, w)
        BY <2>1 DEF InProgress
    <2> QED
        BY <1>1, <2>1, <2>2 DEF InProgress
<1> QED
    BY <1>3, <1>4, <1>5, <1>6, <1>7, <1>8 DEF Step

LEMMA WholeIds == \A id \in OrderId : id \in Int
    BY LobsterAssumption

(***************************************************************************)
(* The exchange's orders: ids are given once and in order, and the sides   *)
(* are apart.                                                              *)
(***************************************************************************)

Distinct(v) ==
    \A s, t \in Side, p, r \in Price : \A i \in DOMAIN v[s][p], j \in DOMAIN v[t][r] :
        v[s][p][i].id = v[t][r][j].id => s = t /\ p = r /\ i = j

BornBy(v, m) == \A s \in Side, p \in Price : \A i \in DOMAIN v[s][p] : v[s][p][i].id <= m

Apart(v) == \A p, r \in Price : v["Buy"][p] # << >> /\ v["Sell"][r] # << >> => p < r

Good(v, m) == Distinct(v) /\ BornBy(v, m) /\ Apart(v)

\* From v to w an order shrinks or goes: which order it was, at place k.
Shrinks(v, s, p, k, size, w) ==
    /\ k \in DOMAIN v[s][p] /\ size \in 1 .. MaxQty /\ size <= v[s][p][k].size
    /\ ViewTo(v, w, s, p, Less(v[s][p], k, size))

\* Where an order was before.
Origin(l, k, size, j) == IF size < l[k].size THEN j ELSE OldPlace(k, j)

LEMMA LessOrigins ==
    ASSUME NEW l \in Seq(Shown), NEW k \in 1 .. Len(l), NEW size \in 1 .. MaxQty,
           size <= l[k].size, NEW a, a = Less(l, k, size)
    PROVE  /\ DOMAIN a = 1 .. Len(a) /\ Len(a) \in Nat
           /\ \A j \in 1 .. Len(a) :
                LET o == Origin(l, k, size, j)
                IN  /\ o \in 1 .. Len(l) /\ a[j].id = l[o].id
                    /\ o # k => a[j] = l[o]
                    /\ o = k => size < l[k].size /\ a[j].size = l[k].size - size
           /\ \A i, j \in 1 .. Len(a) : Origin(l, k, size, i) = Origin(l, k, size, j) => i = j
<1>0. /\ a \in Seq(Shown) /\ DOMAIN a = 1 .. Len(a) /\ Len(a) \in Nat /\ Len(l) \in Nat
      /\ k \in Int /\ size \in Int /\ l[k].size \in Int
      /\ \A i \in 1 .. Len(l) : l[i] \in Shown
      /\ \A j \in 1 .. Len(a) : a[j] \in Shown
    <2>1. a \in Seq(Shown)
        BY LessFacts
    <2>2. \A i \in 1 .. Len(l) : l[i] \in Shown
        BY ElementOfSeq
    <2>3. \A j \in 1 .. Len(a) : a[j] \in Shown
        BY <2>1, ElementOfSeq
    <2>4. l[k].size \in Int
        BY <2>2 DEF Shown
    <2> QED
        BY <2>1, <2>2, <2>3, <2>4, LenProperties
<1>1. CASE size < l[k].size
    <2>1. /\ Len(a) = Len(l)
          /\ \A i \in 1 .. Len(l) :
               a[i].id = l[i].id /\ a[i].size = IF i = k THEN l[k].size - size ELSE l[i].size
        BY <1>1, LessFacts
    <2>2. \A j : Origin(l, k, size, j) = j
        BY <1>1 DEF Origin
    <2>3. ASSUME NEW j \in 1 .. Len(a), j # k PROVE a[j] = l[j]
        <3>1. \A x, y \in Shown : x.id = y.id /\ x.size = y.size => x = y
            BY DEF Shown
        <3>2. a[j] \in Shown /\ l[j] \in Shown /\ a[j].id = l[j].id /\ a[j].size = l[j].size
            BY <1>0, <2>1, <2>3
        <3> QED
            BY <3>1, <3>2
    <2> QED
        BY <1>0, <1>1, <2>1, <2>2, <2>3
<1>2. CASE size = l[k].size
    <2>1. a = RemoveAt(l, k)
        BY <1>2, LessFacts
    <2>2. /\ Len(a) = Len(l) - 1
          /\ \A i \in 1 .. Len(a) : OldPlace(k, i) \in 1 .. Len(l) /\ a[i] = l[OldPlace(k, i)]
        BY <2>1, RemoveFacts
    <2>3. \A j : Origin(l, k, size, j) = OldPlace(k, j)
        BY <1>0, <1>2 DEF Origin
    <2>4. \A j \in 1 .. Len(a) : OldPlace(k, j) # k
        BY <1>0 DEF OldPlace
    <2>5. \A i, j \in 1 .. Len(a) : OldPlace(k, i) = OldPlace(k, j) => i = j
        BY <1>0 DEF OldPlace
    <2> QED
        BY <1>0, <2>2, <2>3, <2>4, <2>5
<1> QED
    BY <1>0, <1>1, <1>2

\* What is shown afterwards was shown before, but for what the order lost.
LEMMA Reduced ==
    ASSUME NEW v \in View, NEW m \in Int, Good(v, m), NEW w \in View,
           NEW s \in Side, NEW p \in Price, NEW k, NEW size, Shrinks(v, s, p, k, size, w)
    PROVE  /\ Good(w, m)
           /\ \A t \in Side, r \in Price : \A j \in DOMAIN w[t][r] :
                \/ /\ w[t][r][j].id # v[s][p][k].id
                   /\ \E i \in DOMAIN v[t][r] : w[t][r][j] = v[t][r][i]
                \/ /\ w[t][r][j].id = v[s][p][k].id /\ size < v[s][p][k].size
                   /\ w[t][r][j].size = v[s][p][k].size - size
<1> DEFINE l == v[s][p]
           From(t, r, j) == IF t = s /\ r = p THEN Origin(l, k, size, j) ELSE j
<1>1. /\ l \in Seq(Shown) /\ DOMAIN l = 1 .. Len(l) /\ k \in 1 .. Len(l)
      /\ size \in 1 .. MaxQty /\ size <= l[k].size /\ w[s][p] = Less(l, k, size)
      /\ \A t \in Side, r \in Price : t # s \/ r # p => w[t][r] = v[t][r]
    BY ViewTypes DEF Shrinks, ViewTo
<1>2. /\ DOMAIN w[s][p] = 1 .. Len(w[s][p])
      /\ \A j \in DOMAIN w[s][p] :
           /\ Origin(l, k, size, j) \in DOMAIN l /\ w[s][p][j].id = l[Origin(l, k, size, j)].id
           /\ Origin(l, k, size, j) # k => w[s][p][j] = l[Origin(l, k, size, j)]
           /\ Origin(l, k, size, j) = k =>
                size < l[k].size /\ w[s][p][j].size = l[k].size - size
      /\ \A i, j \in DOMAIN w[s][p] : Origin(l, k, size, i) = Origin(l, k, size, j) => i = j
    <2> HIDE DEF l
    <2> QED
        BY <1>1, LessOrigins
<1>3. ASSUME NEW t \in Side, NEW r \in Price, NEW j \in DOMAIN w[t][r]
      PROVE  /\ From(t, r, j) \in DOMAIN v[t][r] /\ w[t][r][j].id = v[t][r][From(t, r, j)].id
             /\ \A i \in DOMAIN w[t][r] : From(t, r, i) = From(t, r, j) => i = j
    BY <1>1, <1>2
<1>4. Distinct(w)
    <2> SUFFICES ASSUME NEW t \in Side, NEW t2 \in Side, NEW r \in Price, NEW r2 \in Price,
                        NEW i \in DOMAIN w[t][r], NEW j \in DOMAIN w[t2][r2],
                        w[t][r][i].id = w[t2][r2][j].id
                 PROVE  t = t2 /\ r = r2 /\ i = j
        BY DEF Distinct
    <2> HIDE DEF From
    <2>1. v[t][r][From(t, r, i)].id = v[t2][r2][From(t2, r2, j)].id
        BY <1>3
    <2>2. t = t2 /\ r = r2 /\ From(t, r, i) = From(t2, r2, j)
        BY <1>3, <2>1 DEF Good, Distinct
    <2> QED
        BY <1>3, <2>2
<1>5. BornBy(w, m)
    <2> HIDE DEF From
    <2> QED
        BY <1>3 DEF Good, BornBy
<1>6. Apart(w)
    <2>1. ASSUME NEW t \in Side, NEW r \in Price, w[t][r] # << >> PROVE v[t][r] # << >>
        <3>1. 1 \in DOMAIN w[t][r]
            BY <2>1, ViewTypes, EmptySeq
        <3>2. From(t, r, 1) \in DOMAIN v[t][r]
            BY <1>3, <3>1
        <3> HIDE DEF From
        <3> QED
            BY <3>2
    <2> QED
        BY <2>1 DEF Good, Apart, Side
<1>7. ASSUME NEW t \in Side, NEW r \in Price, NEW j \in DOMAIN w[t][r]
      PROVE  \/ /\ w[t][r][j].id # l[k].id
                /\ \E i \in DOMAIN v[t][r] : w[t][r][j] = v[t][r][i]
             \/ /\ w[t][r][j].id = l[k].id /\ size < l[k].size
                /\ w[t][r][j].size = l[k].size - size
    <2>1. CASE t = s /\ r = p
        <3>1. CASE Origin(l, k, size, j) = k
            BY <1>2, <2>1, <3>1
        <3>2. CASE Origin(l, k, size, j) # k
            <4>1. /\ Origin(l, k, size, j) \in DOMAIN l
                  /\ w[s][p][j] = l[Origin(l, k, size, j)]
                BY <1>2, <2>1, <3>2
            <4>2. l[Origin(l, k, size, j)].id # l[k].id
                BY <1>1, <4>1, <3>2 DEF Good, Distinct
            <4> QED
                BY <2>1, <4>1, <4>2
        <3> QED
            BY <3>1, <3>2
    <2>2. CASE t # s \/ r # p
        <3>1. w[t][r] = v[t][r] /\ j \in DOMAIN v[t][r]
            BY <1>1, <2>2
        <3>2. v[t][r][j].id # l[k].id
            BY <1>1, <2>2, <3>1 DEF Good, Distinct
        <3> QED
            BY <3>1, <3>2
    <2> QED
        BY <2>1, <2>2
<1> QED
    BY <1>4, <1>5, <1>6, <1>7 DEF Good

LEMMA Added ==
    ASSUME NEW v \in View, NEW m \in Int, Good(v, m), NEW w \in View,
           NEW s \in Side, NEW p \in Price, NEW id \in OrderId, NEW size, id <= m + 1,
           AddLeads(v, s, p, id, size, w)
    PROVE  /\ Good(w, m + 1)
           /\ \A t \in Side, r \in Price : \A j \in DOMAIN w[t][r] :
                \/ w[t][r][j].id # id /\ j \in DOMAIN v[t][r] /\ w[t][r][j] = v[t][r][j]
                \/ w[t][r][j].id = id /\ w[t][r][j].size = size /\ t = s /\ r = p
                     /\ j = Len(v[s][p]) + 1
<1> DEFINE x == [id |-> id, size |-> size]
<1>1. /\ v[s][p] \in Seq(Shown) /\ Len(v[s][p]) \in Nat
      /\ w[s][p] = Append(v[s][p], x) /\ x.id = id /\ x.size = size
      /\ \A t \in Side, r \in Price : t # s \/ r # p => w[t][r] = v[t][r]
      /\ Welcome(v, s, p, id)
    BY ViewTypes DEF AddLeads, ViewTo
<1> HIDE DEF x
<1>2. /\ DOMAIN w[s][p] = 1 .. Len(v[s][p]) + 1 /\ w[s][p][Len(v[s][p]) + 1] = x
      /\ \A j \in 1 .. Len(v[s][p]) : w[s][p][j] = v[s][p][j]
      /\ DOMAIN v[s][p] = 1 .. Len(v[s][p])
    BY <1>1
<1>3. ASSUME NEW t \in Side, NEW r \in Price, NEW j \in DOMAIN w[t][r]
      PROVE  \/ w[t][r][j].id # id /\ j \in DOMAIN v[t][r] /\ w[t][r][j] = v[t][r][j]
             \/ w[t][r][j].id = id /\ w[t][r][j].size = size /\ t = s /\ r = p
                  /\ j = Len(v[s][p]) + 1
    <2>1. CASE t = s /\ r = p /\ j = Len(v[s][p]) + 1
        BY <2>1, <1>1, <1>2
    <2>2. CASE ~(t = s /\ r = p /\ j = Len(v[s][p]) + 1)
        <3>1. CASE t = s /\ r = p
            <4>1. j \in 1 .. Len(v[s][p])
                BY <2>2, <3>1, <1>1, <1>2
            <4> QED
                BY <3>1, <4>1, <1>1, <1>2 DEF Welcome
        <3>2. CASE t # s \/ r # p
            BY <3>2, <1>1 DEF Welcome
        <3> QED
            BY <3>1, <3>2
    <2> QED
        BY <2>1, <2>2
<1>4. Distinct(w)
    BY <1>3 DEF Good, Distinct
<1>5. BornBy(w, m + 1)
    <2> SUFFICES ASSUME NEW t \in Side, NEW r \in Price, NEW j \in DOMAIN w[t][r]
                 PROVE  w[t][r][j].id <= m + 1
        BY DEF BornBy
    <2>1. CASE j \in DOMAIN v[t][r] /\ w[t][r][j] = v[t][r][j]
        <3>1. v[t][r][j].id <= m
            BY <2>1 DEF Good, BornBy
        <3>2. v[t][r][j].id \in Int
            BY <2>1, ViewTypes, WholeIds
        <3> QED
            BY <2>1, <3>1, <3>2
    <2> QED
        BY <1>3, <2>1
<1>6. Apart(w)
    <2> SUFFICES ASSUME NEW r \in Price, NEW q \in Price,
                        w["Buy"][r] # << >>, w["Sell"][q] # << >>
                 PROVE  r < q
        BY DEF Apart
    <2>1. r \in Int /\ q \in Int /\ p \in Int /\ "Buy" \in Side /\ "Sell" \in Side
        BY PriceAssumption DEF Side
    <2>2. v["Buy"][r] # << >> \/ (s = "Buy" /\ p = r)
        BY <1>1, <2>1
    <2>3. v["Sell"][q] # << >> \/ (s = "Sell" /\ p = q)
        BY <1>1, <2>1
    <2>4. CASE v["Buy"][r] # << >> /\ v["Sell"][q] # << >>
        BY <2>4 DEF Good, Apart
    <2>5. CASE s = "Buy" /\ p = r /\ v["Sell"][q] # << >>
        BY <2>1, <2>5, <1>1 DEF Welcome, Opposite, Better
    <2>6. CASE s = "Sell" /\ p = q /\ v["Buy"][r] # << >>
        BY <2>1, <2>6, <1>1 DEF Welcome, Opposite, Better
    <2> QED
        BY <2>2, <2>3, <2>4, <2>5, <2>6
<1> QED
    BY <1>3, <1>4, <1>5, <1>6 DEF Good

(***************************************************************************)
(* A message is what the exchange just did.                                *)
(***************************************************************************)

\* The last order of a queue shrinks: cancelled and added again, it is where it was.
LEMMA ShrinkInTwo ==
    ASSUME NEW v \in View, NEW m \in Int, Good(v, m), NEW w,
           NEW s \in Side, NEW p \in Price, NEW k, NEW size, Shrinks(v, s, p, k, size, w),
           k = Len(v[s][p]), size < v[s][p][k].size
    PROVE  \E x \in View :
             /\ CancelLeads(v, s, p, k, x)
             /\ AddLeads(x, s, p, v[s][p][k].id, v[s][p][k].size - size, w)
<1> DEFINE l == v[s][p]
           left == l[k].size - size
           o == [id |-> l[k].id, size |-> left]
           a == RemoveAt(l, k)
<1>1. /\ l \in Seq(Shown) /\ Len(l) \in Nat /\ DOMAIN l = 1 .. Len(l) /\ k \in 1 .. Len(l)
      /\ \A i \in 1 .. Len(l) : l[i] \in Shown
      /\ l[k].id \in OrderId /\ l[k].size \in 1 .. MaxQty /\ size \in 1 .. MaxQty
      /\ k = Len(l) /\ size < l[k].size
      /\ ViewTo(v, w, s, p, Less(l, k, size))
    BY ViewTypes DEF Shrinks
<1>2. /\ left \in 1 .. MaxQty /\ o \in Shown /\ o.id = l[k].id /\ o.size = left
    <2>1. left \in 1 .. MaxQty
        <3> HIDE DEF l
        <3> QED
            BY <1>1, MaxQtyAssumption
    <2> HIDE DEF left, l
    <2> QED
        BY <1>1, <2>1 DEF Shown
<1> HIDE DEF o
<1>3. /\ a \in Seq(Shown) /\ Len(a) = Len(l) - 1
      /\ \A i \in 1 .. Len(a) : OldPlace(k, i) \in 1 .. Len(l) /\ a[i] = l[OldPlace(k, i)]
    <2> HIDE DEF l
    <2> QED
        BY <1>1, RemoveFacts
<1>4. PICK x \in View : ViewTo(v, x, s, p, a)
    BY <1>3, ViewMade
<1>5. CancelLeads(v, s, p, k, x)
    BY <1>1, <1>4 DEF CancelLeads
<1>6. Shrinks(v, s, p, k, l[k].size, x)
    <2>1. Less(l, k, l[k].size) = a
        BY <1>1 DEF Less
    <2> QED
        BY <1>1, <1>4, <2>1 DEF Shrinks
<1>7. ASSUME NEW t \in Side, NEW r \in Price, NEW j \in DOMAIN x[t][r]
      PROVE  x[t][r][j].id # l[k].id
    <2>1. ~(l[k].size < l[k].size)
        BY <1>1
    <2> QED
        BY <1>6, <2>1, Reduced
<1>8. Welcome(x, s, p, l[k].id)
    <2>1. ASSUME NEW r \in Price, x[Opposite(s)][r] # << >>
          PROVE  Better(Opposite(s), p, r)
        <3>1. Opposite(s) \in Side /\ Opposite(s) # s
            BY DEF Opposite, Side
        <3>2. v[Opposite(s)][r] # << >>
            BY <2>1, <3>1, <1>4 DEF ViewTo
        <3>3. v[s][p] # << >>
            BY <1>1
        <3>4. Apart(v)
            BY DEF Good
        <3> HIDE DEF l
        <3> QED
            BY <3>2, <3>3, <3>4 DEF Apart, Opposite, Better, Side
    <2> QED
        BY <1>7, <2>1 DEF Welcome
<1> HIDE DEF a, left
<1>9. Less(l, k, size) = Append(a, o)
    <2> DEFINE b == Less(l, k, size)
    <2> HIDE DEF l
    <2>1. /\ b \in Seq(Shown) /\ Len(b) = Len(l)
          /\ \A i \in 1 .. Len(l) :
               b[i].id = l[i].id /\ b[i].size = IF i = k THEN l[k].size - size ELSE l[i].size
        BY <1>1, LessFacts
    <2> HIDE DEF b
    <2>2. /\ Append(a, o) \in Seq(Shown) /\ Len(Append(a, o)) = Len(l)
          /\ Append(a, o)[Len(l)] = o
          /\ \A i \in 1 .. Len(a) : Append(a, o)[i] = a[i]
        <3>1. /\ Append(a, o) \in Seq(Shown) /\ Len(Append(a, o)) = Len(a) + 1
              /\ Append(a, o)[Len(a) + 1] = o
              /\ \A i \in 1 .. Len(a) : Append(a, o)[i] = a[i]
            BY <1>2, <1>3
        <3>2. Len(a) + 1 = Len(l)
            BY <1>1, <1>3
        <3> QED
            BY <3>1, <3>2
    <2>3. \A y, z \in Shown : y.id = z.id /\ y.size = z.size => y = z
        BY DEF Shown
    <2>4. ASSUME NEW i \in 1 .. Len(l) PROVE b[i] = Append(a, o)[i]
        <3>1. b[i] \in Shown /\ b[i].id = l[i].id
            BY <2>1, ElementOfSeq
        <3>2. CASE i = k
            <4>1. b[i].size = o.size /\ b[i].id = o.id
                BY <1>1, <1>2, <2>1, <3>2 DEF left
            <4> QED
                BY <1>1, <1>2, <2>2, <2>3, <3>1, <3>2, <4>1
        <3>3. CASE i # k
            <4>1. i \in 1 .. Len(a) /\ OldPlace(k, i) = i
                BY <1>1, <1>3, <3>3 DEF OldPlace
            <4>2. Append(a, o)[i] = l[i] /\ l[i] \in Shown
                BY <1>1, <1>3, <2>2, <4>1
            <4> QED
                BY <2>1, <2>3, <3>1, <3>3, <4>2
        <3> QED
            BY <3>2, <3>3
    <2>5. b = Append(a, o)
        BY <2>1, <2>2, <2>4, SeqEqual
    <2> QED
        BY <2>5 DEF b
<1>10. ViewTo(x, w, s, p, Append(x[s][p], o))
    BY <1>1, <1>4, <1>9 DEF ViewTo
<1>11. AddLeads(x, s, p, l[k].id, left, w)
    BY <1>1, <1>2, <1>8, <1>10 DEF AddLeads, o
<1> QED
    BY <1>5, <1>11 DEF left

\* The exchange went from v to w and wrote m.
MessageLeads(v, m, w, unlike) ==
    \/ /\ m.type = 1 /\ m.side \in Side /\ m.price \in Price
       /\ AddLeads(v, m.side, m.price, m.id, m.size, w)
    \/ /\ m.type \in {2, 3, 4} /\ m.side \in Side /\ m.price \in Price
       /\ \E k \in DOMAIN v[m.side][m.price] :
            LET o == v[m.side][m.price][k]
            IN  /\ m.id = o.id /\ Shrinks(v, m.side, m.price, k, m.size, w)
                /\ m.type = 2 => m.size < o.size /\ (unlike \/ k = Len(v[m.side][m.price]))
                /\ m.type = 3 => m.size = o.size
                /\ m.type = 4 => /\ k = 1
                                 /\ \A r \in Price \ {m.price} :
                                      v[m.side][r] # << >> => Better(m.side, m.price, r)
    \/ m.type = 5 /\ w = v

Knows(left, v) ==
    \A s \in Side, p \in Price : \A i \in DOMAIN v[s][p] :
        v[s][p][i].id \in DOMAIN left /\ left[v[s][p][i].id] = v[s][p][i].size

\* One or two rows, or none, on the way from v to w.
Leads(v, rs, w) ==
    \/ rs = << >> /\ v = w
    \/ \E r \in TapeRow : rs = <<r>> /\ RowLeads(v, r, w)
    \/ \E r1, r2 \in TapeRow, x \in View :
         rs = <<r1, r2>> /\ RowLeads(v, r1, x) /\ RowLeads(x, r2, w)

LEMMA TwoRows ==
    ASSUME NEW a \in TapeRow, NEW b \in TapeRow
    PROVE  <<a>> \o <<b>> = <<a, b>>
<1> DEFINE c == <<a>> \o <<b>>
<1>1. /\ <<a>> \in Seq(TapeRow) /\ <<b>> \in Seq(TapeRow) /\ <<a, b>> \in Seq(TapeRow)
      /\ Len(<<a>>) = 1 /\ Len(<<b>>) = 1 /\ Len(<<a, b>>) = 2
      /\ <<a>>[1] = a /\ <<b>>[1] = b /\ <<a, b>>[1] = a /\ <<a, b>>[2] = b
    OBVIOUS
<1>2. /\ c \in Seq(TapeRow) /\ Len(c) = 2
      /\ \A i \in 1 .. 2 : c[i] = IF i <= 1 THEN <<a>>[i] ELSE <<b>>[i - 1]
    BY <1>1, ConcatProperties
<1> HIDE DEF c
<1>3. c[1] = a /\ c[2] = b
    BY <1>1, <1>2
<1>4. c = <<a, b>>
    BY <1>1, <1>2, <1>3, SeqEqual
<1> QED
    BY <1>4 DEF c

LEMMA FirstOfRows ==
    ASSUME NEW v \in View, NEW rs, NEW w \in View, Leads(v, rs, w), rs # << >>
    PROVE  \E x \in View : RowLeads(v, rs[1], x) /\ Leads(x, Tail(rs), w)
<1>1. CASE \E r \in TapeRow : rs = <<r>> /\ RowLeads(v, r, w)
    <2>1. PICK r \in TapeRow : rs = <<r>> /\ RowLeads(v, r, w)
        BY <1>1
    <2>2. rs[1] = r /\ Tail(rs) = << >>
        BY <2>1
    <2> QED
        BY <2>1, <2>2 DEF Leads
<1>2. CASE \E r1, r2 \in TapeRow, x \in View :
             rs = <<r1, r2>> /\ RowLeads(v, r1, x) /\ RowLeads(x, r2, w)
    <2>1. PICK r1 \in TapeRow, r2 \in TapeRow, x \in View :
            rs = <<r1, r2>> /\ RowLeads(v, r1, x) /\ RowLeads(x, r2, w)
        BY <1>2
    <2>2. rs[1] = r1 /\ Tail(rs) = <<r2>>
        BY <2>1
    <2> QED
        BY <2>1, <2>2 DEF Leads
<1> QED
    BY <1>1, <1>2 DEF Leads

\* Whatever the exchange does, the message says it, and its orders stay good.
LEMMA MessageSaysIt ==
    ASSUME visible \in View, born \in Nat, Good(visible, born), overtaken \in BOOLEAN, LBExchange
    PROVE  /\ message' # NoMessage /\ visible' \in View
           /\ born' \in Nat /\ Good(visible, born') /\ Good(visible', born')
           /\ MessageLeads(visible, message', visible', overtaken')
           /\ overtaken' \in BOOLEAN /\ (overtaken => overtaken')
<1>0. visible = [s \in Side |-> [p \in Price |-> visible[s][p]]] /\ born \in Int
    BY DEF View
<1>1. CASE Hidden
    <2>1. message'.type = 5 /\ visible' = visible /\ born' = born /\ overtaken' = overtaken
        BY <1>1 DEF Hidden
    <2>2. NoMessage.type = 0
        BY DEF NoMessage
    <2> QED
        BY <2>1, <2>2 DEF MessageLeads
<1>2. ASSUME NEW s \in Side, NEW p \in Price, NewOrder(s, p)
      PROVE  /\ message' # NoMessage /\ visible' \in View
             /\ born' \in Nat /\ Good(visible, born') /\ Good(visible', born')
             /\ MessageLeads(visible, message', visible', overtaken')
             /\ overtaken' = overtaken
    <2>1. PICK size \in 1 .. MaxQty :
            LET o == [id |-> born + 1, size |-> size]
            IN  /\ born < MaxOrders
                /\ \A q \in VisiblePrices(Opposite(s)) : Better(Opposite(s), p, q)
                /\ visible' = [visible EXCEPT ![s][p] = Append(@, o)]
                /\ message' = Message(1, s, p, o, size)
                /\ born' = born + 1
                /\ UNCHANGED overtaken
        BY <1>2 DEF NewOrder
    <2> DEFINE o == [id |-> born + 1, size |-> size]
    <2>2. born + 1 \in OrderId /\ o \in Shown /\ o.id = born + 1
        BY <2>1, LobsterAssumption DEF Shown
    <2>3. visible[s][p] \in Seq(Shown) /\ Append(visible[s][p], o) \in Seq(Shown)
        <3>1. visible[s][p] \in Seq(Shown)
            BY ViewTypes
        <3> HIDE DEF o
        <3> QED
            BY <2>2, <3>1
    <2>4. /\ message'.type = 1 /\ message'.side = s /\ message'.price = p
          /\ message'.id = born + 1 /\ message'.size = size
        BY <2>1 DEF Message
    <2>5. visible' = [visible EXCEPT ![s][p] = Append(visible[s][p], o)]
        BY <2>1
    <2> HIDE DEF o
    <2>6. visible' \in View /\ ViewTo(visible, visible', s, p, Append(visible[s][p], o))
        BY <2>3, <2>5, ViewStep
    <2>7. Welcome(visible, s, p, born + 1)
        <3>1. ASSUME NEW t \in Side, NEW r \in Price, NEW i \in DOMAIN visible[t][r]
              PROVE  visible[t][r][i].id # born + 1
            <4>1. visible[t][r][i].id \in Int
                BY ViewTypes, WholeIds
            <4>2. visible[t][r][i].id <= born
                BY DEF Good, BornBy
            <4> QED
                BY <4>1, <4>2
        <3>2. ASSUME NEW r \in Price, visible[Opposite(s)][r] # << >>
              PROVE  Better(Opposite(s), p, r)
            BY <2>1, <3>2 DEF VisiblePrices
        <3> QED
            BY <3>1, <3>2 DEF Welcome
    <2>8. AddLeads(visible, s, p, born + 1, size, visible')
        BY <2>2, <2>6, <2>7 DEF AddLeads, o
    <2>9. born' = born + 1 /\ born' \in Nat /\ overtaken' = overtaken
        BY <2>1
    <2>10. Good(visible', born')
        <3>1. PICK w \in View : w = visible'
            BY <2>6
        <3>2. Good(w, born + 1)
            BY <2>2, <2>8, <3>1, <1>0, Added
        <3> QED
            BY <2>9, <3>1, <3>2
    <2>11. Good(visible, born')
        <3>1. ASSUME NEW t \in Side, NEW r \in Price, NEW i \in DOMAIN visible[t][r]
              PROVE  visible[t][r][i].id <= born + 1
            <4>1. visible[t][r][i].id \in Int
                BY ViewTypes, WholeIds
            <4>2. visible[t][r][i].id <= born
                BY DEF Good, BornBy
            <4> QED
                BY <4>1, <4>2
        <3> QED
            BY <2>9, <3>1 DEF Good, BornBy
    <2>12. message' # NoMessage
        BY <2>4 DEF NoMessage
    <2>13. MessageLeads(visible, message', visible', overtaken')
        BY <2>4, <2>8 DEF MessageLeads
    <2> QED
        BY <2>6, <2>9, <2>10, <2>11, <2>12, <2>13
<1>3. ASSUME NEW s \in Side, NEW p \in Price, NEW type \in {2, 3, 4},
             NEW k \in DOMAIN visible[s][p], NEW size \in 1 .. MaxQty,
             size <= visible[s][p][k].size, Loses(type, s, p, k, size), born' = born,
             type = 2 => size < visible[s][p][k].size /\ (overtaken' \/ k = Len(visible[s][p])),
             type = 3 => size = visible[s][p][k].size,
             type = 4 => /\ k = 1
                         /\ \A r \in Price \ {p} : visible[s][r] # << >> => Better(s, p, r)
      PROVE  /\ message' # NoMessage /\ visible' \in View
             /\ Good(visible, born') /\ Good(visible', born')
             /\ MessageLeads(visible, message', visible', overtaken')
    <2>1. /\ message'.type = type /\ message'.side = s /\ message'.price = p
          /\ message'.id = visible[s][p][k].id /\ message'.size = size
          /\ visible' = [visible EXCEPT ![s][p] = Less(visible[s][p], k, size)]
        BY <1>3 DEF Loses, Message
    <2>2. Less(visible[s][p], k, size) \in Seq(Shown)
        <3> DEFINE l == visible[s][p]
        <3>1. l \in Seq(Shown) /\ k \in 1 .. Len(l) /\ size <= l[k].size
            BY <1>3, ViewTypes
        <3> HIDE DEF l
        <3>2. Less(l, k, size) \in Seq(Shown)
            BY <3>1, LessFacts
        <3> QED
            BY <3>2 DEF l
    <2>3. PICK w \in View : w = visible' /\ ViewTo(visible, w, s, p, Less(visible[s][p], k, size))
        BY <2>1, <2>2, ViewStep
    <2>4. Shrinks(visible, s, p, k, size, w)
        BY <1>3, <2>3 DEF Shrinks
    <2>5. Good(w, born)
        BY <1>0, <2>4, Reduced
    <2>6. MessageLeads(visible, message', w, overtaken')
        BY <1>3, <2>1, <2>4 DEF MessageLeads
    <2>7. message' # NoMessage
        BY <2>1 DEF NoMessage
    <2> QED
        BY <1>3, <2>3, <2>5, <2>6, <2>7
<1>4. ASSUME NEW s \in Side, NEW p \in Price, PartialCancellation(s, p)
      PROVE  /\ message' # NoMessage /\ visible' \in View
             /\ born' = born /\ Good(visible, born') /\ Good(visible', born')
             /\ MessageLeads(visible, message', visible', overtaken')
             /\ overtaken' \in BOOLEAN /\ (overtaken => overtaken')
    <2>1. PICK i \in DOMAIN visible[s][p], size \in 1 .. MaxQty :
            /\ size < visible[s][p][i].size
            /\ Loses(2, s, p, i, size)
            /\ overtaken' = (overtaken \/ i < Len(visible[s][p]))
            /\ UNCHANGED born
        BY <1>4 DEF PartialCancellation
    <2>2. i \in 1 .. Len(visible[s][p]) /\ Len(visible[s][p]) \in Nat /\ visible[s][p][i].size \in Nat
        BY ViewTypes
    <2>3. /\ size <= visible[s][p][i].size /\ born' = born
          /\ overtaken' \in BOOLEAN /\ (overtaken => overtaken')
          /\ overtaken' \/ i = Len(visible[s][p])
        <3>1. i < Len(visible[s][p]) \/ i = Len(visible[s][p])
            BY <2>2
        <3>2. size <= visible[s][p][i].size
            BY <2>1, <2>2, MaxQtyAssumption
        <3> QED
            BY <2>1, <3>1, <3>2
    <2>4. 2 \in {2, 3, 4} /\ 2 # 3 /\ 2 # 4
        OBVIOUS
    <2> QED
        BY <2>1, <2>3, <2>4, <1>3
<1>5. ASSUME NEW s \in Side, NEW p \in Price, Deletion(s, p)
      PROVE  /\ message' # NoMessage /\ visible' \in View
             /\ born' = born /\ Good(visible, born') /\ Good(visible', born')
             /\ MessageLeads(visible, message', visible', overtaken')
             /\ overtaken' = overtaken
    <2>1. PICK i \in DOMAIN visible[s][p] :
            /\ Loses(3, s, p, i, visible[s][p][i].size)
            /\ UNCHANGED <<born, overtaken>>
        BY <1>5 DEF Deletion
    <2>2. visible[s][p][i].size \in 1 .. MaxQty /\ visible[s][p][i].size <= visible[s][p][i].size
        BY ViewTypes, MaxQtyAssumption
    <2>3. 3 \in {2, 3, 4} /\ 3 # 2 /\ 3 # 4 /\ born' = born /\ overtaken' = overtaken
        BY <2>1
    <2> QED
        BY <2>1, <2>2, <2>3, <1>3
<1>6. ASSUME NEW s \in Side, NEW p \in Price, Execution(s, p)
      PROVE  /\ message' # NoMessage /\ visible' \in View
             /\ born' = born /\ Good(visible, born') /\ Good(visible', born')
             /\ MessageLeads(visible, message', visible', overtaken')
             /\ overtaken' = overtaken
    <2>1. PICK size \in 1 .. MaxQty :
            /\ VisiblePrices(s) # {} /\ p = BestVisible(s)
            /\ size <= visible[s][p][1].size
            /\ Loses(4, s, p, 1, size)
            /\ UNCHANGED <<born, overtaken>>
        BY <1>6 DEF Execution
    <2>2. p \in VisiblePrices(s) /\ \A r \in VisiblePrices(s) \ {p} : Better(s, p, r)
        <3>1. VisiblePrices(s) \in SUBSET Int /\ IsFiniteSet(VisiblePrices(s))
            BY PriceAssumption, FS_Subset DEF VisiblePrices
        <3>2. \E q \in VisiblePrices(s) : \A r \in VisiblePrices(s) \ {q} : Better(s, q, r)
            BY <2>1, <3>1, BestOfFinite
        <3> QED
            BY <2>1, <3>2 DEF BestVisible
    <2>3. 1 \in DOMAIN visible[s][p]
        <3>1. visible[s][p] # << >>
            BY <2>2 DEF VisiblePrices
        <3> QED
            BY <3>1, ViewTypes, EmptySeq
    <2>4. \A r \in Price \ {p} : visible[s][r] # << >> => Better(s, p, r)
        BY <2>2 DEF VisiblePrices
    <2>5. 4 \in {2, 3, 4} /\ 4 # 2 /\ 4 # 3 /\ born' = born /\ overtaken' = overtaken
        BY <2>1
    <2> QED
        BY <2>1, <2>3, <2>4, <2>5, <1>3
<1> QED
    BY <1>1, <1>2, <1>4, <1>5, <1>6 DEF LBExchange

(***************************************************************************)
(* The converter answers a message with rows that lead where it says.      *)
(***************************************************************************)

LEMMA NotBelowZero ==
    ASSUME NEW x \in Nat
    PROVE  Max({0, x}) = x
<1>1. x \in {0, x} /\ \A y \in {0, x} : x >= y
    OBVIOUS
<1>2. Max({0, x}) \in {0, x} /\ \A y \in {0, x} : Max({0, x}) >= y
    BY <1>1 DEF Max
<1> QED
    BY <1>2

\* An order shown in w was shown in v, or is the order id with this size.
OnlyNew(v, w, id, size) ==
    \A t \in Side, r \in Price : \A j \in DOMAIN w[t][r] :
        \/ /\ w[t][r][j].id # id
           /\ \E i \in DOMAIN v[t][r] : w[t][r][j] = v[t][r][i]
        \/ w[t][r][j].id = id /\ w[t][r][j].size = size

\* All orders shown in w were shown in v, and id is not among them.
NoLonger(v, w, id) ==
    \A t \in Side, r \in Price : \A j \in DOMAIN w[t][r] :
        /\ w[t][r][j].id # id
        /\ \E i \in DOMAIN v[t][r] : w[t][r][j] = v[t][r][i]

\* The dict with an entry more, or another value of one.
PutTo(left, id, size, new) ==
    /\ id \in DOMAIN new /\ new[id] = size
    /\ \A i \in DOMAIN left : i \in DOMAIN new /\ (i # id => new[i] = left[i])

LEMMA Putting ==
    ASSUME NEW id, NEW size, Put(id, size)
    PROVE  PutTo(remaining, id, size, remaining')
    BY DEF Put, PutTo

LEMMA KnowsPut ==
    ASSUME NEW v, NEW w, NEW left, NEW id, NEW size, Knows(left, v), OnlyNew(v, w, id, size),
           NEW new, PutTo(left, id, size, new)
    PROVE  Knows(new, w)
<1> SUFFICES ASSUME NEW t \in Side, NEW r \in Price, NEW j \in DOMAIN w[t][r]
             PROVE  w[t][r][j].id \in DOMAIN new /\ new[w[t][r][j].id] = w[t][r][j].size
    BY DEF Knows
<1>0. \/ /\ w[t][r][j].id # id
         /\ \E i \in DOMAIN v[t][r] : w[t][r][j] = v[t][r][i]
      \/ w[t][r][j].id = id /\ w[t][r][j].size = size
    BY DEF OnlyNew
<1>1. CASE w[t][r][j].id = id
    BY <1>0, <1>1 DEF PutTo
<1>2. CASE w[t][r][j].id # id
    <2>1. PICK i \in DOMAIN v[t][r] : w[t][r][j] = v[t][r][i]
        BY <1>0, <1>2
    <2>2. w[t][r][j].id \in DOMAIN left /\ left[w[t][r][j].id] = w[t][r][j].size
        BY <2>1 DEF Knows
    <2> QED
        BY <1>2, <2>2 DEF PutTo
<1> QED
    BY <1>1, <1>2

LEMMA KnowsDrop ==
    ASSUME NEW v, NEW w, NEW left, NEW id, Knows(left, v), NoLonger(v, w, id),
           NEW new, new = [i \in DOMAIN left \ {id} |-> left[i]]
    PROVE  Knows(new, w)
<1> SUFFICES ASSUME NEW t \in Side, NEW r \in Price, NEW j \in DOMAIN w[t][r]
             PROVE  w[t][r][j].id \in DOMAIN new /\ new[w[t][r][j].id] = w[t][r][j].size
    BY DEF Knows
<1>1. w[t][r][j].id # id /\ \E i \in DOMAIN v[t][r] : w[t][r][j] = v[t][r][i]
    BY DEF NoLonger
<1>2. w[t][r][j].id \in DOMAIN left /\ left[w[t][r][j].id] = w[t][r][j].size
    BY <1>1 DEF Knows
<1> QED
    BY <1>1, <1>2

LEMMA RowFacts ==
    ASSUME NEW type \in {"Add", "Cancel", "Trade"}, NEW s \in Side, NEW p \in Price,
           NEW n0 \in 0 .. MaxQty, NEW id \in OrderId, NEW r, r = Row(type, s, p, n0, id)
    PROVE  /\ r \in TapeRow /\ r.type = type /\ r.side = s /\ r.price = p
           /\ r.qty = n0 /\ r.id = id
    BY DEF Row, TapeRow, Quantity

LEMMA ConvertFollows ==
    ASSUME message # NoMessage, LBConvert, visible \in View, NEW w \in View, NEW m \in Int,
           Good(w, m), Knows(remaining, w), MessageLeads(w, message, visible, overtaken)
    PROVE  Knows(remaining', visible) /\ (~overtaken => Leads(w, rows', visible))
<1> DEFINE s == message.side
           p == message.price
           id == message.id
           size == message.size
<1>1. PICK v \in View : v = visible
    OBVIOUS
<1>2. CASE message.type = 5
    <2>1. remaining' = remaining /\ rows' = rows /\ rows = << >>
        BY <1>2 DEF LBConvert, Replayed
    <2>2. visible = w
        BY <1>2 DEF MessageLeads
    <2> QED
        BY <2>1, <2>2 DEF Leads
<1>3. CASE message.type = 1
    <2>1. s \in Side /\ p \in Price /\ AddLeads(w, s, p, id, size, v)
        BY <1>1, <1>3 DEF MessageLeads
    <2>2. ConvertNew(message)
        BY <1>3 DEF LBConvert
    <2>3. /\ Put(id, size)
          /\ rows' = <<Row("Add", s, p, size, id)>>
        BY <2>2 DEF ConvertNew
    <2> HIDE DEF s, p, id, size
    <2>4. id \in OrderId /\ size \in 1 .. MaxQty /\ size \in 0 .. MaxQty
        BY <2>1, MaxQtyAssumption DEF AddLeads
    <2>5. OnlyNew(w, v, id, size)
        <3>1. id \in Int
            BY <2>4, LobsterAssumption
        <3>2. PICK n0 \in Int : m <= n0 /\ id <= n0 + 1
            <4>1. m <= id \/ id <= m + 1
                BY <3>1
            <4> QED
                BY <3>1, <4>1
        <3>3. Good(w, n0)
            <4>1. ASSUME NEW t \in Side, NEW r \in Price, NEW i \in DOMAIN w[t][r]
                  PROVE  w[t][r][i].id <= n0
                <5>1. w[t][r][i].id \in Int
                    BY ViewTypes, WholeIds
                <5>2. w[t][r][i].id <= m
                    BY DEF Good, BornBy
                <5> QED
                    BY <3>2, <5>1, <5>2
            <4> QED
                BY <4>1 DEF Good, BornBy
        <3>4. \A t \in Side, r \in Price : \A j \in DOMAIN v[t][r] :
                \/ v[t][r][j].id # id /\ j \in DOMAIN w[t][r] /\ v[t][r][j] = w[t][r][j]
                \/ v[t][r][j].id = id /\ v[t][r][j].size = size
            BY <2>1, <2>4, <3>2, <3>3, Added
        <3> QED
            BY <3>4 DEF OnlyNew
    <2>6. Knows(remaining', v)
        <3>1. PutTo(remaining, id, size, remaining')
            BY <2>3, Putting
        <3> QED
            BY <2>5, <3>1, KnowsPut
    <2>7. PICK r : r = Row("Add", s, p, size, id)
        OBVIOUS
    <2>8. /\ r \in TapeRow /\ r.type = "Add" /\ r.side = s /\ r.price = p
          /\ r.qty = size /\ r.id = id
        BY <2>1, <2>4, <2>7, RowFacts
    <2>9. RowLeads(w, r, v) /\ rows' = <<r>>
        BY <2>1, <2>3, <2>7, <2>8 DEF RowLeads
    <2> QED
        BY <1>1, <2>6, <2>8, <2>9 DEF Leads
<1>4. CASE message.type \in {2, 3, 4}
    <2>1. s \in Side /\ p \in Price
        BY <1>4 DEF MessageLeads
    <2>12. /\ 1 \notin {2, 3, 4} /\ 5 \notin {2, 3, 4} /\ message.type # 1 /\ message.type # 5
        BY <1>4
    <2>2. PICK k \in DOMAIN w[s][p] :
            /\ id = w[s][p][k].id /\ Shrinks(w, s, p, k, size, v)
            /\ message.type = 2 => size < w[s][p][k].size /\ (overtaken \/ k = Len(w[s][p]))
            /\ message.type = 3 => size = w[s][p][k].size
            /\ message.type = 4 => /\ k = 1
                                   /\ \A r \in Price \ {p} : w[s][r] # << >> => Better(s, p, r)
        BY <1>1, <2>12 DEF MessageLeads
    <2> HIDE DEF s, p, id, size
    <2>3. /\ k \in 1 .. Len(w[s][p]) /\ id \in OrderId
          /\ w[s][p][k].size \in 1 .. MaxQty /\ w[s][p][k].size \in Nat
          /\ size \in 1 .. MaxQty /\ size \in Nat /\ size <= w[s][p][k].size
          /\ ViewTo(w, v, s, p, Less(w[s][p], k, size))
        BY <2>1, <2>2, ViewTypes, MaxQtyAssumption DEF Shrinks
    <2>4. \A t \in Side, r \in Price : \A j \in DOMAIN v[t][r] :
             \/ /\ v[t][r][j].id # id
                /\ \E i \in DOMAIN w[t][r] : v[t][r][j] = w[t][r][i]
             \/ /\ v[t][r][j].id = id /\ size < w[s][p][k].size
                /\ v[t][r][j].size = w[s][p][k].size - size
        BY <2>1, <2>2, Reduced
    <2>5. id \in DOMAIN remaining /\ remaining[id] = w[s][p][k].size
        BY <2>1, <2>2 DEF Knows
    <2> DEFINE left == w[s][p][k].size - size
    <2>6. left \in Nat /\ left \in 0 .. MaxQty /\ Max({0, remaining[id] - size}) = left
        <3>1. left \in Nat /\ left \in 0 .. MaxQty
            BY <2>3, MaxQtyAssumption
        <3> HIDE DEF left
        <3>2. Max({0, left}) = left
            BY <3>1, NotBelowZero
        <3> QED
            BY <2>5, <3>1, <3>2 DEF left
    <2>7. ASSUME Put(id, left)
          PROVE  Knows(remaining', v)
        <3> HIDE DEF left
        <3>1. OnlyNew(w, v, id, left)
            BY <2>4 DEF left, OnlyNew
        <3>2. PutTo(remaining, id, left, remaining')
            BY <2>7, Putting
        <3> QED
            BY <3>1, <3>2, KnowsPut
    <2>8. CASE message.type = 2
        <3>1. ConvertPartial(message)
            BY <2>8 DEF LBConvert
        <3>2. LeftAfter(message) = left
            BY <2>5, <2>6 DEF LeftAfter, Tracked, id, size
        <3>3. left > 0 /\ size < w[s][p][k].size /\ (overtaken \/ k = Len(w[s][p]))
            BY <2>2, <2>3, <2>8
        <3>4. /\ Put(id, left)
              /\ rows' = <<Row("Cancel", s, p, 0, id)>> \o <<Row("Add", s, p, left, id)>>
            BY <3>1, <3>2, <3>3 DEF ConvertPartial, s, p, id
        <3>5. Knows(remaining', v)
            BY <2>7, <3>4
        <3>6. ASSUME ~overtaken PROVE Leads(w, rows', v)
            <4>1. PICK x \in View : /\ CancelLeads(w, s, p, k, x)
                                    /\ AddLeads(x, s, p, w[s][p][k].id, left, v)
                BY <2>1, <2>2, <3>3, <3>6, ShrinkInTwo
            <4>2. PICK r1, r2 : r1 = Row("Cancel", s, p, 0, id) /\ r2 = Row("Add", s, p, left, id)
                OBVIOUS
            <4> HIDE DEF left
            <4>3. /\ r1 \in TapeRow /\ r1.type = "Cancel" /\ r1.side = s /\ r1.price = p
                  /\ r1.id = id
                <5>1. 0 \in 0 .. MaxQty
                    BY MaxQtyAssumption
                <5> QED
                    BY <2>1, <2>3, <4>2, <5>1, RowFacts
            <4>4. /\ r2 \in TapeRow /\ r2.type = "Add" /\ r2.side = s /\ r2.price = p
                  /\ r2.qty = left /\ r2.id = id
                BY <2>1, <2>3, <2>6, <4>2, RowFacts
            <4>5. RowLeads(w, r1, x)
                BY <2>2, <4>1, <4>3 DEF RowLeads
            <4>6. RowLeads(x, r2, v)
                BY <2>2, <4>1, <4>4 DEF RowLeads
            <4>7. rows' = <<r1, r2>>
                <5>1. rows' = <<r1>> \o <<r2>>
                    BY <3>4, <4>2
                <5> QED
                    BY <4>3, <4>4, <5>1, TwoRows
            <4> QED
                BY <4>3, <4>4, <4>5, <4>6, <4>7 DEF Leads
        <3> QED
            BY <1>1, <3>5, <3>6
    <2>11. CASE message.type = 3
        <3>1. ConvertDeletion(message)
            BY <2>11 DEF LBConvert
        <3>2. /\ remaining' = [i \in DOMAIN remaining \ {id} |-> remaining[i]]
              /\ rows' = <<Row("Cancel", s, p, 0, id)>>
            BY <3>1 DEF ConvertDeletion, s, p, id
        <3>3. size = w[s][p][k].size /\ ~(size < w[s][p][k].size)
            BY <2>2, <2>3, <2>11
        <3>4. Knows(remaining', v)
            <4>1. NoLonger(w, v, id)
                BY <2>4, <3>3 DEF NoLonger
            <4>2. PICK new : new = remaining'
                OBVIOUS
            <4>3. new = [i \in DOMAIN remaining \ {id} |-> remaining[i]]
                BY <3>2, <4>2
            <4>4. Knows(new, v)
                BY <4>1, <4>3, KnowsDrop
            <4> QED
                BY <4>2, <4>4
        <3>5. PICK r : r = Row("Cancel", s, p, 0, id)
            OBVIOUS
        <3>6. /\ r \in TapeRow /\ r.type = "Cancel" /\ r.side = s /\ r.price = p /\ r.id = id
            <4>1. 0 \in 0 .. MaxQty
                BY MaxQtyAssumption
            <4> QED
                BY <2>1, <2>3, <3>5, <4>1, RowFacts
        <3>7. CancelLeads(w, s, p, k, v)
            <4>1. Less(w[s][p], k, size) = RemoveAt(w[s][p], k)
                BY <3>3 DEF Less
            <4> QED
                BY <2>3, <4>1 DEF CancelLeads
        <3>8. RowLeads(w, r, v) /\ rows' = <<r>>
            BY <2>2, <3>2, <3>5, <3>6, <3>7 DEF RowLeads
        <3> QED
            BY <1>1, <3>4, <3>6, <3>8 DEF Leads
    <2>10. CASE message.type = 4
        <3>1. ConvertExecution(message)
            BY <2>10 DEF LBConvert
        <3>2. /\ Put(id, left)
              /\ rows' = <<Row("Trade", Opposite(s), p, size, id)>>
            <4> HIDE DEF left
            <4> QED
                BY <2>5, <2>6, <3>1 DEF ConvertExecution, Tracked, s, p, id, size
        <3>3. Knows(remaining', v)
            BY <2>7, <3>2
        <3>4. PICK r : r = Row("Trade", Opposite(s), p, size, id)
            OBVIOUS
        <3>5. Opposite(s) \in Side /\ Opposite(Opposite(s)) = s
            BY <2>1 DEF Opposite, Side
        <3>6. /\ r \in TapeRow /\ r.type = "Trade" /\ r.side = Opposite(s) /\ r.price = p
              /\ r.qty = size /\ r.id = id
            <4>1. size \in 0 .. MaxQty
                BY <2>3, MaxQtyAssumption
            <4> QED
                BY <2>1, <2>3, <3>4, <3>5, <4>1, RowFacts
        <3>7. TradeLeads(w, s, p, size, v)
            <4>1. w[s][p] # << >> /\ k = 1
                BY <2>2, <2>3, <2>10
            <4> QED
                BY <2>2, <2>3, <2>10, <4>1 DEF TradeLeads
        <3>8. RowLeads(w, r, v) /\ rows' = <<r>>
            BY <3>2, <3>4, <3>5, <3>6, <3>7 DEF RowLeads
        <3> QED
            BY <1>1, <3>3, <3>6, <3>8 DEF Leads
    <2> QED
        BY <1>4, <2>8, <2>10, <2>11
<1> QED
    BY <1>2, <1>3, <1>4 DEF MessageLeads

(***************************************************************************)
(* The invariant.  Between messages the converter knows what is left, and  *)
(* the engine with the rows to come leads the book to what the exchange    *)
(* shows; while a message waits, both hold for what was shown before.      *)
(***************************************************************************)

OnTheWay ==
    message = NoMessage =>
        /\ Knows(remaining, visible)
        /\ ~overtaken => IInv /\ \E u \in View : InProgress(u) /\ Leads(u, rows, visible)

OneBehind ==
    message # NoMessage =>
        /\ rows = << >> /\ phase = "idle"
        /\ \E w \in View :
             /\ Good(w, born) /\ Knows(remaining, w)
             /\ MessageLeads(w, message, visible, overtaken)
             /\ ~overtaken => IInv /\ Mirrors(book, w)

ExchangeOK ==
    /\ visible \in View /\ born \in Nat /\ overtaken \in BOOLEAN
    /\ Good(visible, born)

LBInv == ExchangeOK /\ OnTheWay /\ OneBehind

LEMMA InitLBInv == LBInit => LBInv
<1> SUFFICES ASSUME LBInit PROVE LBInv
    OBVIOUS
<1>1. /\ Init /\ book = EmptyBook /\ phase = "idle" /\ rows = << >> /\ message = NoMessage
      /\ visible = NoOrders /\ born = 0 /\ overtaken = FALSE
    BY DEF LBInit, ReplayInit, Init
<1>2. /\ visible \in View
      /\ \A s \in Side, p \in Price : visible[s][p] = << >>
    BY <1>1 DEF NoOrders, View
<1>3. ExchangeOK
    <2>1. \A s \in Side, p \in Price : DOMAIN visible[s][p] = {}
        BY <1>2
    <2>2. "Buy" \in Side /\ "Sell" \in Side
        BY DEF Side
    <2>3. Distinct(visible) /\ BornBy(visible, born)
        BY <2>1 DEF Distinct, BornBy
    <2>4. Apart(visible)
        BY <1>2, <2>2 DEF Apart
    <2> QED
        BY <1>1, <1>2, <2>3, <2>4 DEF ExchangeOK, Good
<1>4. Knows(remaining, visible)
    BY <1>2 DEF Knows
<1>5. InProgress(visible)
    <2>1. \A s \in Side, p \in Price : QueueAt(book, s, p) = << >>
        BY <1>1 DEF EmptyBook, QueueAt, Prices
    <2>2. Mirrors(book, visible)
        BY <1>2, <2>1 DEF Mirrors, Same
    <2> QED
        BY <1>1, <2>2 DEF InProgress
<1>6. IInv
    BY <1>1, InitIInv
<1>7. Leads(visible, rows, visible)
    BY <1>1 DEF Leads
<1> QED
    BY <1>1, <1>2, <1>3, <1>4, <1>5, <1>6, <1>7 DEF LBInv, OnTheWay, OneBehind

LEMMA EngineRests ==
    ASSUME IInv, UNCHANGED engineVars
    PROVE  IInv'
    BY StepIInv

LEMMA IdleProgress ==
    ASSUME NEW u, InProgress(u), phase = "idle"
    PROVE  Mirrors(book, u)
    BY DEF InProgress

LEMMA ExchangeLBInv ==
    ASSUME LBInv, LBExchange
    PROVE  LBInv'
<1>1. /\ message = NoMessage /\ rows = << >> /\ phase = "idle"
      /\ UNCHANGED <<engineVars, rows, remaining>>
    BY DEF LBExchange, LBQuiet, Replayed
<1>2. /\ message' # NoMessage /\ visible' \in View
      /\ born' \in Nat /\ Good(visible, born') /\ Good(visible', born')
      /\ MessageLeads(visible, message', visible', overtaken')
      /\ overtaken' \in BOOLEAN /\ (overtaken => overtaken')
    BY MessageSaysIt DEF LBInv, ExchangeOK
<1>3. PICK w \in View : w = visible
    BY DEF LBInv, ExchangeOK
<1>4. /\ book' = book /\ phase' = phase /\ rows' = rows /\ remaining' = remaining
    BY <1>1 DEF engineVars
<1>5. Knows(remaining, w)
    BY <1>1, <1>3 DEF LBInv, OnTheWay
<1>6. ASSUME ~overtaken' PROVE IInv' /\ Mirrors(book, w)
    <2>1. ~overtaken
        BY <1>2, <1>6
    <2>2. IInv /\ \E u \in View : InProgress(u) /\ Leads(u, rows, visible)
        BY <1>1, <2>1 DEF LBInv, OnTheWay
    <2>3. PICK u \in View : InProgress(u) /\ Leads(u, rows, visible)
        BY <2>2
    <2>4. u = w
        BY <1>1, <1>3, <2>3 DEF Leads
    <2>5. IInv'
        BY <1>1, <2>2, EngineRests
    <2> QED
        BY <1>1, <2>3, <2>4, <2>5, IdleProgress
<1>7. OneBehind'
    BY <1>1, <1>2, <1>3, <1>4, <1>5, <1>6 DEF OneBehind
<1>8. ExchangeOK'
    BY <1>2 DEF ExchangeOK
<1> QED
    BY <1>2, <1>7, <1>8 DEF LBInv, OnTheWay

LEMMA ConvertLBInv ==
    ASSUME LBInv, LBConvert
    PROVE  LBInv'
<1>1. /\ message # NoMessage /\ message' = NoMessage
      /\ UNCHANGED <<engineVars, visible, born, n, overtaken>>
    BY DEF LBConvert
<1>2. /\ visible \in View /\ born \in Int /\ phase = "idle"
    BY <1>1 DEF LBInv, ExchangeOK, OneBehind
<1>3. PICK w \in View :
        /\ Good(w, born) /\ Knows(remaining, w)
        /\ MessageLeads(w, message, visible, overtaken)
        /\ ~overtaken => IInv /\ Mirrors(book, w)
    BY <1>1 DEF LBInv, OneBehind
<1>4. PICK m \in Int : m = born
    BY <1>2
<1>5. Knows(remaining', visible) /\ (~overtaken => Leads(w, rows', visible))
    BY <1>1, <1>2, <1>3, <1>4, ConvertFollows
<1>6. /\ book' = book /\ phase' = phase /\ visible' = visible /\ born' = born
      /\ overtaken' = overtaken
    BY <1>1 DEF engineVars
<1>7. ASSUME ~overtaken PROVE IInv' /\ InProgress(w)' /\ Leads(w, rows', visible')
    <2>1. IInv'
        BY <1>1, <1>3, <1>7, EngineRests
    <2>2. InProgress(w)'
        BY <1>2, <1>3, <1>6, <1>7 DEF InProgress
    <2> QED
        BY <1>5, <1>6, <1>7, <2>1, <2>2
<1>8. OnTheWay'
    BY <1>5, <1>6, <1>7 DEF OnTheWay
<1>9. ExchangeOK'
    BY <1>6 DEF LBInv, ExchangeOK
<1> QED
    BY <1>1, <1>8, <1>9 DEF LBInv, OneBehind

LEMMA ReplayLBInv ==
    ASSUME LBInv, LBReplay
    PROVE  LBInv'
<1>1. /\ ReplayStep /\ visible' = visible /\ message' = message /\ remaining' = remaining
      /\ born' = born /\ overtaken' = overtaken
    BY DEF LBReplay
<1>2. message = NoMessage
    <2> SUFFICES ASSUME message # NoMessage PROVE FALSE
        OBVIOUS
    <2>1. rows = << >> /\ phase = "idle"
        BY DEF LBInv, OneBehind
    <2> QED
        BY <1>1, <2>1 DEF ReplayStep, ReplayRow, Step, Trade, Settle, Rest, Discard, Complete, Return
<1>3. Knows(remaining', visible')
    BY <1>1, <1>2 DEF LBInv, OnTheWay
<1>4. ASSUME ~overtaken
      PROVE  IInv' /\ \E u \in View : InProgress(u)' /\ Leads(u, rows', visible)
    <2>1. IInv /\ \E u \in View : InProgress(u) /\ Leads(u, rows, visible)
        BY <1>2, <1>4 DEF LBInv, OnTheWay
    <2>2. PICK u \in View : InProgress(u) /\ Leads(u, rows, visible)
        BY <2>1
    <2>3. CASE ReplayRow
        <3>1. rows # << >> /\ phase = "idle" /\ rows' = Tail(rows)
            BY <2>3 DEF ReplayRow, Cancel, Submit
        <3>2. PICK v \in View : v = visible
            BY DEF LBInv, ExchangeOK
        <3>3. PICK x \in View : RowLeads(u, rows[1], x) /\ Leads(x, Tail(rows), v)
            BY <2>2, <3>1, <3>2, FirstOfRows
        <3>4. Mirrors(book, u)
            BY <2>2, <3>1, IdleProgress
        <3>5. IInv' /\ InProgress(x)'
            BY <2>1, <2>3, <3>1, <3>3, <3>4, RowStarts
        <3> QED
            BY <3>1, <3>2, <3>3, <3>5
    <2>4. CASE Step /\ rows' = rows
        <3>1. IInv' /\ InProgress(u)'
            BY <2>1, <2>2, <2>4, StepsOn
        <3> QED
            BY <2>2, <2>4, <3>1
    <2> QED
        BY <1>1, <2>3, <2>4 DEF ReplayStep
<1>5. OnTheWay'
    BY <1>1, <1>3, <1>4 DEF OnTheWay
<1>6. ExchangeOK'
    BY <1>1 DEF LBInv, ExchangeOK
<1> QED
    BY <1>1, <1>2, <1>5, <1>6 DEF LBInv, OneBehind

LEMMA StepLBInv ==
    ASSUME LBInv, [LBNext]_lbVars
    PROVE  LBInv'
<1>1. CASE LBExchange
    BY <1>1, ExchangeLBInv
<1>2. CASE LBConvert
    BY <1>2, ConvertLBInv
<1>3. CASE LBReplay
    BY <1>3, ReplayLBInv
<1>4. CASE UNCHANGED lbVars
    <2>1. /\ UNCHANGED engineVars /\ rows' = rows /\ visible' = visible /\ message' = message
          /\ remaining' = remaining /\ born' = born /\ overtaken' = overtaken
          /\ book' = book /\ phase' = phase /\ in' = in
        BY <1>4 DEF lbVars, engineVars
    <2>2. IInv => IInv'
        BY <2>1, EngineRests
    <2>3. ASSUME NEW u PROVE InProgress(u)' <=> InProgress(u)
        BY <2>1 DEF InProgress, Matching, Opp
    <2>4. ExchangeOK'
        BY <2>1 DEF LBInv, ExchangeOK
    <2>5. OnTheWay'
        BY <2>1, <2>2, <2>3 DEF LBInv, OnTheWay
    <2>6. OneBehind'
        BY <2>1, <2>2 DEF LBInv, OneBehind
    <2> QED
        BY <2>4, <2>5, <2>6 DEF LBInv
<1> QED
    BY <1>1, <1>2, <1>3, <1>4 DEF LBNext

\* For every number of orders and messages, every finite set of prices and every
\* size: the rows that lobster_to_csv.py writes make the engine rebuild the
\* exchange's book, order by order, as long as no order with others behind it is
\* reduced; and whatever happens the converter knows what is left of each order.
THEOREM LobsterBookIsRebuilt == LBSpec => []LobsterBookFollows
<1>1. LBInit => LBInv
    BY InitLBInv
<1>2. LBInv /\ [LBNext]_lbVars => LBInv'
    BY StepLBInv
<1>3. LBInv => LobsterBookFollows
    <2> SUFFICES ASSUME LBInv PROVE LobsterBookFollows
        OBVIOUS
    <2>1. KnowsWhatIsLeft
        BY DEF LBInv, OnTheWay, Knows, KnowsWhatIsLeft, Tracked
    <2>2. ASSUME LBQuiet, ~overtaken, NEW s \in Side, NEW p \in Price
          PROVE  Same(QueueAt(book, s, p), visible[s][p])
        <3>1. message = NoMessage /\ rows = << >> /\ phase = "idle"
            BY <2>2 DEF LBQuiet, Replayed
        <3>2. PICK u \in View : InProgress(u) /\ Leads(u, rows, visible)
            BY <2>2, <3>1 DEF LBInv, OnTheWay
        <3>3. u = visible
            BY <3>1, <3>2 DEF Leads
        <3>4. Mirrors(book, u)
            BY <3>1, <3>2, IdleProgress
        <3> QED
            BY <3>3, <3>4 DEF Mirrors
    <2>3. ReconstructsTheBook
        <3> SUFFICES ASSUME LBQuiet, ~overtaken, NEW s \in Side, NEW p \in Price
                     PROVE  LET theirs == visible[s][p]
                                ours == IF p \in Prices(book, s)
                                          THEN book.levels[s][p].queue ELSE << >>
                            IN  /\ Len(ours) = Len(theirs)
                                /\ \A i \in DOMAIN ours : /\ ours[i].id = theirs[i].id
                                                          /\ ours[i].qty = theirs[i].size
            BY DEF ReconstructsTheBook
        <3>1. Same(QueueAt(book, s, p), visible[s][p])
            BY <2>2
        <3>2. DOMAIN QueueAt(book, s, p) = 1 .. Len(visible[s][p])
            <4>1. IInv
                BY DEF LBInv, OnTheWay, LBQuiet
            <4>2. QueueAt(book, s, p) \in Queue
                BY <4>1, InvBook, QueueType
            <4> QED
                BY <3>1, <4>2, NodeTypes DEF Same
        <3> QED
            BY <3>1, <3>2 DEF Same, QueueAt
    <2> QED
        BY <2>1, <2>3 DEF LobsterBookFollows
<1> QED
    BY <1>1, <1>2, <1>3, PTL DEF LBSpec

(***************************************************************************)
(* Sizes in units of the tape.                                             *)
(***************************************************************************)

LEMMA DividedByUnits ==
    ASSUME NEW q \in Nat
    PROVE  /\ q \div Units \in Nat /\ q % Units \in 0 .. Units - 1
           /\ q = (Units * (q \div Units)) + (q % Units)
    BY TapeAssumption

LEMMA MoreUnits ==
    ASSUME NEW k \in Nat, NEW d \in Nat, NEW e \in Nat, d < e
    PROVE  k * d + k <= k * e
    BY Z3

LEMMA ScaledGrows ==
    ASSUME NEW a \in Nat, NEW b \in Nat, a <= b
    PROVE  Scaled(a) \in Nat /\ Scaled(a) <= Scaled(b)
<1> DEFINE d == a \div Units
           r == a % Units
           e == b \div Units
           s == b % Units
<1>1. d \in Nat /\ r \in 0 .. Units - 1 /\ a = (Units * d) + r
    BY DividedByUnits
<1>2. e \in Nat /\ s \in 0 .. Units - 1 /\ b = (Units * e) + s
    BY DividedByUnits
<1>3. Scaled(a) = IF 2 * r > Units \/ (2 * r = Units /\ d % 2 = 1) THEN d + 1 ELSE d
    BY DEF Scaled
<1>4. Scaled(b) = IF 2 * s > Units \/ (2 * s = Units /\ e % 2 = 1) THEN e + 1 ELSE e
    BY DEF Scaled
<1> HIDE DEF d, r, e, s
<1>5. d <= e
    <2> SUFFICES ASSUME e < d PROVE FALSE
        BY <1>1, <1>2
    <2> DEFINE x == Units * d
               y == Units * e
    <2>1. y + Units <= x
        BY <1>1, <1>2, TapeAssumption, MoreUnits
    <2>2. x \in Int /\ y \in Int /\ a = x + r /\ b = y + s
        BY <1>1, <1>2, TapeAssumption
    <2> HIDE DEF x, y
    <2> QED
        BY <1>1, <1>2, <2>1, <2>2, TapeAssumption
<1>6. CASE d = e
    <2> DEFINE x == Units * d
    <2>1. x \in Int /\ a = x + r /\ b = x + s
        BY <1>1, <1>2, <1>6, TapeAssumption
    <2> HIDE DEF x
    <2>2. r <= s
        BY <1>1, <1>2, <2>1
    <2> QED
        BY <1>1, <1>2, <1>3, <1>4, <1>6, <2>2, TapeAssumption
<1>7. CASE d < e
    <2>1. Scaled(a) \in {d, d + 1} /\ Scaled(b) \in {e, e + 1}
        BY <1>3, <1>4
    <2> QED
        BY <1>1, <1>2, <1>7, <2>1
<1> QED
    BY <1>1, <1>2, <1>5, <1>6, <1>7

LEMMA ScaledNothing == Scaled(0) = 0
<1> DEFINE d == 0 \div Units
           r == 0 % Units
<1>1. d \in Nat /\ r \in 0 .. Units - 1 /\ 0 = (Units * d) + r
    BY DividedByUnits
<1>2. Scaled(0) = IF 2 * r > Units \/ (2 * r = Units /\ d % 2 = 1) THEN d + 1 ELSE d
    BY DEF Scaled
<1> HIDE DEF d, r
<1>3. d = 0
    <2> SUFFICES ASSUME 0 < d PROVE FALSE
        BY <1>1
    <2> DEFINE x == Units * d
    <2>1. Units * 0 + Units <= x
        BY <1>1, TapeAssumption, MoreUnits
    <2>2. x \in Int /\ 0 = x + r
        BY <1>1, TapeAssumption
    <2> HIDE DEF x
    <2> QED
        BY <1>1, <2>1, <2>2, TapeAssumption
<1>4. r = 0
    BY <1>1, <1>3, TapeAssumption
<1> QED
    BY <1>2, <1>3, <1>4, TapeAssumption

(***************************************************************************)
(* The orders of a converter that keeps one for each level.  At the level  *)
(* s, p it tracks the id i[s][p], 0 if none, for at most c[s][p].          *)
(***************************************************************************)

Levels0 == [Side -> [Price -> Nat]]

Owns(i, c, id, s, p, qty) ==
    id # 0 /\ s \in Side /\ p \in Price /\ i[s][p] = id /\ qty <= c[s][p]

\* The next row cancels the order.
Withdrawn(id) == rows # << >> /\ rows[1].type = "Cancel" /\ rows[1].id = id

\* Whatever rests or is about to is the order of its level, except one that the
\* next row cancels.
Tracks(i, c) ==
    /\ \A id \in Resting(book) :
         \/ Withdrawn(id)
         \/ Owns(i, c, id, book.index[id].side, book.index[id].price, Entry(book, id).qty)
    /\ phase # "idle" /\ in.type = "Limit" => Owns(i, c, in.id, in.side, in.price, in.remaining)
    /\ \A k \in DOMAIN rows :
         /\ rows[k].type = "Add" =>
              Owns(i, c, rows[k].id, rows[k].side, rows[k].price, rows[k].qty)
         /\ rows[k].type = "Cancel" => k = 1 /\ phase = "idle"

LEMMA RowsOn ==
    ASSUME rows \in Seq(TapeRow), rows # << >>
    PROVE  /\ rows[1] \in TapeRow /\ Tail(rows) \in Seq(TapeRow)
           /\ 1 \in DOMAIN rows
           /\ \A k \in DOMAIN Tail(rows) : k + 1 \in DOMAIN rows /\ k \in Nat /\ k + 1 # 1
                                           /\ Tail(rows)[k] = rows[k + 1]
<1>1. /\ Tail(rows) \in Seq(TapeRow) /\ Len(Tail(rows)) = Len(rows) - 1
      /\ \A k \in 1 .. Len(rows) - 1 : Tail(rows)[k] = rows[k + 1]
    BY HeadTailProperties
<1>2. Len(rows) \in Nat /\ Len(rows) # 0 /\ DOMAIN rows = 1 .. Len(rows)
    BY EmptySeq
<1>3. DOMAIN Tail(rows) = 1 .. Len(rows) - 1
    BY <1>1, <1>2
<1> QED
    BY <1>1, <1>2, <1>3, ElementOfSeq

LEMMA RowTracks ==
    ASSUME IInv, rows \in Seq(TapeRow), NEW i, NEW c, Tracks(i, c), ReplayRow
    PROVE  IInv' /\ rows' \in Seq(TapeRow) /\ Tracks(i, c)'
<1> DEFINE row == rows[1]
           o == OnAccept([RowOrder(row) EXCEPT !.remaining = row.qty])
<1>1. rows # << >> /\ rows' = Tail(rows)
    BY DEF ReplayRow
<1>2. /\ row \in TapeRow /\ Tail(rows) \in Seq(TapeRow) /\ 1 \in DOMAIN rows
      /\ \A k \in DOMAIN Tail(rows) : k + 1 \in DOMAIN rows /\ k \in Nat /\ k + 1 # 1
                                      /\ Tail(rows)[k] = rows[k + 1]
    BY <1>1, RowsOn
<1>3. WellFormed(book) /\ row.id \in OrderId
    BY <1>2, InvBook DEF TapeRow
<1>4. \A k \in DOMAIN rows' :
        /\ rows'[k].type = "Add" =>
             Owns(i, c, rows'[k].id, rows'[k].side, rows'[k].price, rows'[k].qty)
        /\ rows'[k].type # "Cancel"
    BY <1>1, <1>2 DEF Tracks
<1>5. CASE row.type = "Cancel"
    <2>1. Cancel(row.id)
        BY <1>5 DEF ReplayRow
    <2>2. IInv'
        BY <1>3, <2>1, CancelIInv
    <2>3. /\ phase = "idle" /\ phase' = "idle" /\ book' = CancelOrder(book, row.id)
        BY <2>1 DEF Cancel
    <2>4. /\ Resting(book') = Resting(book) \ {row.id}
          /\ \A k \in Resting(book') : book'.index[k] = book.index[k]
                                       /\ Entry(book', k) = Entry(book, k)
        BY <1>3, <2>3, CancelEntries
    <2>5. \A id \in Resting(book') :
            Owns(i, c, id, book'.index[id].side, book'.index[id].price, Entry(book', id).qty)
        BY <2>4 DEF Tracks, Withdrawn
    <2> QED
        BY <1>1, <1>2, <1>4, <2>2, <2>3, <2>5 DEF Tracks
<1>6. CASE row.type # "Cancel"
    <2>1. Submit(RowOrder(row))
        BY <1>6 DEF ReplayRow
    <2> HIDE DEF o, row
    <2>2. /\ RowOrder(row) \in Submission /\ RowOrder(row).qty = row.qty
          /\ o.id = row.id /\ o.side = row.side /\ o.price = row.price
          /\ o.remaining = row.qty
          /\ o.type = IF row.type = "Add" THEN "Limit" ELSE "IOC"
        BY <1>2, RowAccepted DEF o
    <2>3. IInv'
        BY <2>1, <2>2, SubmitIInv
    <2>4. ~Refused(book, o)
        BY <2>2 DEF Refused
    <2>5. in' = o /\ phase' = "match" /\ book' = book
        BY <2>1, <2>2, <2>4 DEF Submit, o
    <2>6. \A id \in Resting(book') :
            Owns(i, c, id, book'.index[id].side, book'.index[id].price, Entry(book', id).qty)
        BY <1>6, <2>5 DEF Tracks, Withdrawn, row
    <2>7. in'.type = "Limit" => Owns(i, c, in'.id, in'.side, in'.price, in'.remaining)
        BY <1>2, <2>2, <2>5 DEF Tracks, row
    <2> QED
        BY <1>1, <1>2, <1>4, <2>3, <2>5, <2>6, <2>7 DEF Tracks
<1> QED
    BY <1>5, <1>6

LEMMA StepTracks ==
    ASSUME IInv, rows \in Seq(TapeRow), NEW i, NEW c \in Levels0, Tracks(i, c),
           Step, rows' = rows
    PROVE  IInv' /\ Tracks(i, c)'
<1>1. IInv'
    BY StepIInv DEF Next
<1>2. phase # "idle"
    BY DEF Step, Trade, Settle, Rest, Discard, Complete, Return
<1>3. /\ WellFormed(book) /\ IsBook(book) /\ in \in Order /\ Opp \in Side
      /\ in.id \in OrderId /\ in.side \in Side /\ in.price \in Price /\ in.remaining \in Nat
    BY <1>2, InvBook, MaxQtyAssumption DEF Order, Quantity
<1>4. /\ \A k \in DOMAIN rows :
           /\ rows[k].type = "Add" =>
                Owns(i, c, rows[k].id, rows[k].side, rows[k].price, rows[k].qty)
           /\ rows[k].type # "Cancel"
      /\ rows # << >> => 1 \in DOMAIN rows
    BY <1>2, RowsOn DEF Tracks
<1>5. \A id \in Resting(book) :
        Owns(i, c, id, book.index[id].side, book.index[id].price, Entry(book, id).qty)
    BY <1>4 DEF Tracks, Withdrawn
<1>6. in.type = "Limit" => Owns(i, c, in.id, in.side, in.price, in.remaining)
    BY <1>2 DEF Tracks
\* It is enough that the book and the order at hand stay owned.
<1>7. ASSUME \A id \in Resting(book') :
               Owns(i, c, id, book'.index[id].side, book'.index[id].price, Entry(book', id).qty),
             phase' # "idle" /\ in'.type = "Limit" =>
               Owns(i, c, in'.id, in'.side, in'.price, in'.remaining)
      PROVE  Tracks(i, c)'
    BY <1>4, <1>7 DEF Tracks
<1>8. CASE Trade
    <2> DEFINE p == Best(book, Opp)
               r == FrontNode(book, Opp, p)
               m == Traded(r)
    <2>1. /\ Prices(book, Opp) # {} /\ in' = OnFill(in, m) /\ book' = TradeFront(book, Opp, p, m)
        BY <1>8 DEF Trade, Matching
    <2>2. p \in Prices(book, Opp)
        BY <1>3, <2>1, BestIsBest
    <2>3. r.qty \in Nat
        BY <1>3, <2>2, FrontTypes, MaxQtyAssumption DEF Quantity
    <2>4. m \in Nat /\ m <= r.qty /\ m <= in.remaining
        BY <1>3, <2>3 DEF Traded
    <2> HIDE DEF p, m
    <2>5. /\ Resting(book') = Resting(book) /\ book'.index = book.index
          /\ r.id \in Resting(book) /\ Entry(book, r.id) = r
          /\ Entry(book', r.id) = [r EXCEPT !.qty = r.qty - m]
          /\ \A k \in Resting(book) \ {r.id} : Entry(book', k) = Entry(book, k)
        BY <1>3, <2>1, <2>2, <2>4, TradeEntries
    <2>6. r \in RestingOrder
        BY <1>3, <2>2, FrontTypes
    <2> HIDE DEF r
    <2>7. Entry(book', r.id).qty = r.qty - m
        BY <2>5, <2>6 DEF RestingOrder
    <2>8. ASSUME NEW id \in Resting(book')
          PROVE  Owns(i, c, id, book'.index[id].side, book'.index[id].price,
                      Entry(book', id).qty)
        <3>1. /\ Owns(i, c, id, book.index[id].side, book.index[id].price, Entry(book, id).qty)
              /\ book'.index[id] = book.index[id]
            BY <1>5, <2>5, <2>8
        <3>2. CASE id # r.id
            BY <2>5, <2>8, <3>1, <3>2
        <3>3. CASE id = r.id
            <4> DEFINE s == book.index[id].side
                       pr == book.index[id].price
            <4>1. s \in Side /\ pr \in Price /\ r.qty <= c[s][pr]
                BY <2>5, <3>1, <3>3 DEF Owns
            <4>2. c[s][pr] \in Nat
                BY <4>1 DEF Levels0
            <4>3. r.qty - m <= c[s][pr]
                BY <2>3, <2>4, <4>1, <4>2
            <4> QED
                BY <2>7, <3>1, <3>3, <4>3 DEF Owns
        <3> QED
            BY <3>2, <3>3
    <2>9. /\ in'.type = in.type /\ in'.id = in.id /\ in'.side = in.side /\ in'.price = in.price
          /\ in'.remaining = in.remaining - m
        BY <1>3, <2>1 DEF OnFill, Order
    <2>10. in'.type = "Limit" => Owns(i, c, in'.id, in'.side, in'.price, in'.remaining)
        <3> SUFFICES ASSUME in.type = "Limit"
                     PROVE  Owns(i, c, in.id, in.side, in.price, in.remaining - m)
            BY <2>9
        <3>1. Owns(i, c, in.id, in.side, in.price, in.remaining)
            BY <1>6
        <3>2. c[in.side][in.price] \in Nat
            BY <1>3 DEF Levels0
        <3>3. in.remaining - m <= c[in.side][in.price]
            BY <1>3, <2>4, <3>1, <3>2 DEF Owns
        <3> QED
            BY <3>1, <3>3 DEF Owns
    <2> QED
        BY <1>1, <1>7, <2>8, <2>10
<1>9. CASE Settle
    <2> DEFINE p == Best(book, Opp)
    <2>1. /\ phase = "traded" /\ in' = in
          /\ book' = IF FrontNode(book, Opp, p).qty <= 0 THEN PopFront(book, Opp, p) ELSE book
        BY <1>9 DEF Settle
    <2>2. p \in Prices(book, Opp)
        BY <1>3, <2>1, BestIsBest DEF IInv
    <2>3. FrontNode(book, Opp, p).qty \in Nat
        BY <1>3, <2>2, FrontTypes, MaxQtyAssumption DEF Quantity
    <2>4. book' = book \/ \E k : book' = CancelOrder(book, k)
        BY <1>3, <2>1, <2>2, <2>3, PopIsCancel
    <2>5. /\ Resting(book') \subseteq Resting(book)
          /\ \A k \in Resting(book') : book'.index[k] = book.index[k]
                                       /\ Entry(book', k) = Entry(book, k)
        BY <1>3, <2>4, CancelEntries
    <2> QED
        BY <1>1, <1>5, <1>6, <1>7, <2>1, <2>5
<1>10. CASE Rest
    <2>1. in.type = "Limit" /\ book' = Insert(book, in) /\ in' = in
        BY <1>10 DEF Rest
    <2>2. CASE in.id \in Resting(book)
        <3>1. book' = book
            BY <2>1, <2>2 DEF Insert
        <3> QED
            BY <1>1, <1>5, <1>6, <1>7, <2>1, <3>1
    <2>3. CASE in.id \notin Resting(book)
        <3>1. /\ Resting(book') = Resting(book) \cup {in.id}
              /\ book'.index[in.id].side = in.side /\ Entry(book', in.id) = NodeFor(in)
              /\ \A k \in Resting(book) : book'.index[k] = book.index[k]
                                          /\ Entry(book', k) = Entry(book, k)
            BY <1>3, <2>1, <2>3, InsertEntries
        <3>2. book'.index[in.id].price = in.price
            BY <1>3, <2>1, <2>3, InsertPlaces
        <3>3. Entry(book', in.id).qty = in.remaining
            BY <3>1 DEF NodeFor
        <3> QED
            BY <1>1, <1>5, <1>6, <1>7, <2>1, <3>1, <3>2, <3>3
    <2> QED
        BY <2>2, <2>3
<1>11. CASE Discard
    <2>1. in.type # "Limit" /\ in' = OnCancel(in) /\ book' = book
        BY <1>11 DEF Discard
    <2>2. in'.type # "Limit"
        BY <1>3, <2>1 DEF OnCancel, Order
    <2> QED
        BY <1>1, <1>5, <1>7, <2>1, <2>2
<1>12. CASE Complete
    <2>1. in' = in /\ book' = book
        BY <1>12 DEF Complete
    <2> QED
        BY <1>1, <1>5, <1>6, <1>7, <2>1
<1>13. CASE Return
    <2>1. phase' = "idle" /\ book' = book
        BY <1>13 DEF Return
    <2> QED
        BY <1>1, <1>5, <1>7, <2>1
<1> QED
    BY <1>8, <1>9, <1>10, <1>11, <1>12, <1>13 DEF Step

\* The replay keeps to it.
LEMMA ReplayTracks ==
    ASSUME IInv, rows \in Seq(TapeRow), NEW i, NEW c \in Levels0, Tracks(i, c), ReplayStep
    PROVE  IInv' /\ rows' \in Seq(TapeRow) /\ Tracks(i, c)'
<1>1. CASE ReplayRow
    BY <1>1, RowTracks
<1>2. CASE Step /\ rows' = rows
    BY <1>2, StepTracks
<1> QED
    BY <1>1, <1>2 DEF ReplayStep

LEMMA QueueQtyOne ==
    ASSUME NEW q \in Queue, Len(q) = 1
    PROVE  QueueQty(q) = q[1].qty
<1>1. q[1] \in RestingOrder /\ q # << >>
    BY NodeTypes
<1>2. << >> \in Queue
    BY DEF Queue
<1>3. q = Append(<< >>, q[1])
    BY DEF Queue
<1>4. QueueQty(Append(<< >>, q[1])) = QueueQty(<< >>) + q[1].qty
    BY <1>1, <1>2, QueueQtyAppend
<1>5. q[1].qty \in Nat
    BY <1>1, MaxQtyAssumption DEF RestingOrder, Quantity
<1> QED
    BY <1>3, <1>4, <1>5, QueueQtyEmpty

\* Once the tape has caught up, a level shows its order and nothing else.
LEMMA TrackedLevels ==
    ASSUME IInv, NEW i, NEW c \in Levels0, Tracks(i, c), Replayed,
           NEW s \in Side, NEW p \in Price
    PROVE  /\ OnTape(s, p) \in Nat /\ OnTape(s, p) <= c[s][p]
           /\ i[s][p] = 0 => OnTape(s, p) = 0 /\ QueueAt(book, s, p) = << >>
<1>1. WellFormed(book) /\ c[s][p] \in Nat
    BY InvBook DEF Levels0
<1>2. rows = << >>
    BY DEF Replayed
<1>3. CASE p \notin Prices(book, s)
    BY <1>1, <1>3 DEF OnTape, QueueAt
<1>4. CASE p \in Prices(book, s)
    <2> DEFINE q == book.levels[s][p].queue
    <2>1. /\ q \in Queue /\ IsBook(book) /\ IndexMatchesQueues(book) /\ LevelTotals(book)
        BY <1>1, <1>4, LevelTypes DEF WellFormed
    <2>2. /\ Len(q) \in Nat /\ DOMAIN q = 1 .. Len(q)
          /\ \A k \in 1 .. Len(q) : q[k] \in RestingOrder /\ q[k].qty \in Nat
        BY <2>1, NodeTypes
    <2>3. OnTape(s, p) = QueueQty(q)
        BY <1>1, <1>4 DEF OnTape, WellFormed, LevelTotals
    <2>4. 1 \in DOMAIN q
        BY <1>1, <1>4, FrontTypes
    <2>5. ASSUME NEW k \in DOMAIN q
          PROVE  /\ q[k].id = i[s][p] /\ i[s][p] # 0 /\ q[k].qty <= c[s][p]
                 /\ \A j \in DOMAIN q : q[k].id = q[j].id => k = j
        <3>1. SoundNode(book, s, p, k)
            BY <1>4, <2>1, <2>5, NodeIsSound
        <3>2. HasNode(book, s, p, q[k])
            BY <1>4, <2>5 DEF HasNode
        <3>3. /\ q[k].id \in Resting(book) /\ book.index[q[k].id] = [side |-> s, price |-> p]
              /\ Entry(book, q[k].id) = q[k]
            BY <1>1, <1>4, <3>2, NodeIsEntry
        <3>4. Owns(i, c, q[k].id, s, p, q[k].qty)
            BY <1>2, <3>3 DEF Tracks, Withdrawn
        <3> QED
            BY <3>1, <3>4 DEF Owns, SoundNode
    <2>6. Len(q) = 1
        <3>1. Len(q) \in DOMAIN q
            BY <2>2, <2>4
        <3>2. q[Len(q)].id = q[1].id
            BY <2>4, <2>5, <3>1
        <3> QED
            BY <2>4, <2>5, <3>1, <3>2
    <2>7. q[1] \in RestingOrder /\ q[1].qty \in Nat /\ q[1].qty <= c[s][p] /\ i[s][p] # 0
        BY <2>2, <2>4, <2>5
    <2>8. QueueQty(q) = q[1].qty
        BY <2>1, <2>6, QueueQtyOne
    <2> QED
        BY <2>3, <2>7, <2>8
<1> QED
    BY <1>3, <1>4

\* A replay step leads on to where the rows lead.
LEMMA ReplayLeads ==
    ASSUME IInv, ReplayStep, NEW v \in View, NEW u \in View, InProgress(u), Leads(u, rows, v)
    PROVE  IInv' /\ \E x \in View : InProgress(x)' /\ Leads(x, rows', v)
<1>1. CASE ReplayRow
    <2>1. rows # << >> /\ phase = "idle" /\ rows' = Tail(rows)
        BY <1>1 DEF ReplayRow, Cancel, Submit
    <2>2. PICK x \in View : RowLeads(u, rows[1], x) /\ Leads(x, Tail(rows), v)
        BY <2>1, FirstOfRows
    <2>3. Mirrors(book, u)
        BY <2>1, IdleProgress
    <2>4. IInv' /\ InProgress(x)'
        BY <1>1, <2>1, <2>2, <2>3, RowStarts
    <2> QED
        BY <2>1, <2>2, <2>4
<1>2. CASE Step /\ rows' = rows
    <2>1. IInv' /\ InProgress(u)'
        BY <1>2, StepsOn
    <2> QED
        BY <1>2, <2>1
<1> QED
    BY <1>1, <1>2 DEF ReplayStep

(***************************************************************************)
(* The view of a converter that keeps one order for each level.            *)
(***************************************************************************)

LevelSizes == [Side -> [Price -> 0 .. MaxQty]]

IdsOfLevels == [Side -> [Price -> OrderId]]

LevelView(i, z) ==
    [s \in Side |-> [p \in Price |-> IF z[s][p] = 0 THEN << >>
                                     ELSE <<[id |-> i[s][p], size |-> z[s][p]]>>]]

\* Away from a level nothing changes, but for the ids of levels without an order.
Elsewhere(i, z, j, y, s, p) ==
    \A t \in Side, r \in Price : t # s \/ r # p =>
        y[t][r] = z[t][r] /\ (y[t][r] # 0 => j[t][r] = i[t][r])

\* No order of another level has the id.
Alone(i, z, s, p, id) ==
    \A t \in Side, r \in Price : (t # s \/ r # p) /\ z[t][r] # 0 => i[t][r] # id

LEMMA OneItem ==
    ASSUME NEW x
    PROVE  <<x>> # << >> /\ Len(<<x>>) = 1 /\ DOMAIN <<x>> = {1} /\ <<x>>[1] = x
    OBVIOUS

LEMMA LevelAt ==
    ASSUME NEW i \in IdsOfLevels, NEW z \in LevelSizes, NEW s \in Side, NEW p \in Price,
           NEW l, l = LevelView(i, z)[s][p]
    PROVE  /\ z[s][p] \in 0 .. MaxQty /\ i[s][p] \in OrderId /\ z[s][p] \in Nat
           /\ l \in Seq(Shown)
           /\ z[s][p] = 0 => l = << >> /\ DOMAIN l = {}
           /\ z[s][p] # 0 =>
                /\ l = <<[id |-> i[s][p], size |-> z[s][p]]>>
                /\ l # << >> /\ Len(l) = 1 /\ DOMAIN l = {1}
                /\ l[1].id = i[s][p] /\ l[1].size = z[s][p]
<1> DEFINE x == [id |-> i[s][p], size |-> z[s][p]]
<1>1. z[s][p] \in 0 .. MaxQty /\ i[s][p] \in OrderId /\ z[s][p] \in Nat
    BY MaxQtyAssumption DEF LevelSizes, IdsOfLevels
<1>2. l = IF z[s][p] = 0 THEN << >> ELSE <<x>>
    BY DEF LevelView
<1>3. z[s][p] # 0 => x \in Shown
    BY <1>1, MaxQtyAssumption DEF Shown
<1>4. x.id = i[s][p] /\ x.size = z[s][p]
    OBVIOUS
<1> HIDE DEF x
<1>5. <<x>> # << >> /\ Len(<<x>>) = 1 /\ DOMAIN <<x>> = {1} /\ <<x>>[1] = x
    BY OneItem
<1>6. z[s][p] # 0 => l = <<x>> /\ l \in Seq(Shown)
    BY <1>2, <1>3
<1>7. z[s][p] = 0 => l = << >> /\ DOMAIN l = {} /\ l \in Seq(Shown)
    BY <1>2
<1> QED
    BY <1>1, <1>4, <1>5, <1>6, <1>7 DEF x

LEMMA LevelViewType ==
    ASSUME NEW i \in IdsOfLevels, NEW z \in LevelSizes
    PROVE  LevelView(i, z) \in View
<1>1. \A s \in Side, p \in Price : LevelView(i, z)[s][p] \in Seq(Shown)
    BY LevelAt
<1> QED
    BY <1>1 DEF View, LevelView

LEMMA LevelViewTo ==
    ASSUME NEW i \in IdsOfLevels, NEW z \in LevelSizes, NEW j \in IdsOfLevels, NEW y \in LevelSizes,
           NEW s \in Side, NEW p \in Price, Elsewhere(i, z, j, y, s, p)
    PROVE  ViewTo(LevelView(i, z), LevelView(j, y), s, p, LevelView(j, y)[s][p])
<1> SUFFICES ASSUME NEW t \in Side, NEW r \in Price, t # s \/ r # p
             PROVE  LevelView(j, y)[t][r] = LevelView(i, z)[t][r]
    BY DEF ViewTo
<1>1. y[t][r] = z[t][r] /\ (y[t][r] # 0 => j[t][r] = i[t][r])
    BY DEF Elsewhere
<1> QED
    BY <1>1 DEF LevelView

\* A level's order is cancelled, if it has one.
LEMMA LevelCancelled ==
    ASSUME NEW i \in IdsOfLevels, NEW z \in LevelSizes, NEW j \in IdsOfLevels, NEW y \in LevelSizes,
           NEW s \in Side, NEW p \in Price, Elsewhere(i, z, j, y, s, p), y[s][p] = 0,
           NEW id \in OrderId, z[s][p] # 0 => i[s][p] = id, Alone(i, z, s, p, id)
    PROVE  RowLeads(LevelView(i, z), Row("Cancel", s, p, 0, id), LevelView(j, y))
<1> DEFINE v == LevelView(i, z)
           w == LevelView(j, y)
           row == Row("Cancel", s, p, 0, id)
<1>1. /\ row \in TapeRow /\ row.type = "Cancel" /\ row.side = s /\ row.price = p /\ row.id = id
    BY MaxQtyAssumption DEF Row, TapeRow, Quantity
<1>2. v \in View /\ w \in View /\ w[s][p] = << >> /\ ViewTo(v, w, s, p, w[s][p])
    BY LevelViewTo, LevelViewType, LevelAt
<1>3. CASE z[s][p] # 0
    <2>1. /\ v[s][p] = <<[id |-> i[s][p], size |-> z[s][p]]>>
          /\ DOMAIN v[s][p] = {1} /\ v[s][p][1].id = id
        BY <1>3, LevelAt
    <2>2. RemoveAt(v[s][p], 1) = << >>
        BY <2>1 DEF RemoveAt
    <2>3. CancelLeads(v, s, p, 1, w)
        BY <1>2, <2>1, <2>2 DEF CancelLeads
    <2> HIDE DEF v, w, row
    <2> QED
        BY <1>1, <2>1, <2>3 DEF RowLeads, v, w, row
<1>4. CASE z[s][p] = 0
    <2>1. w = v
        <3>1. ASSUME NEW t \in Side, NEW r \in Price PROVE w[t][r] = v[t][r]
            <4>1. v[s][p] = << >>
                BY <1>4, LevelAt
            <4> HIDE DEF v, w
            <4> QED
                BY <1>2, <4>1 DEF ViewTo
        <3> HIDE DEF v, w
        <3>2. \A t \in Side : w[t] = v[t]
            BY <1>2, <3>1 DEF View
        <3> QED
            BY <1>2, <3>2 DEF View
    <2>2. Unseen(v, id)
        <3> SUFFICES ASSUME NEW t \in Side, NEW r \in Price, NEW k \in DOMAIN v[t][r]
                     PROVE  v[t][r][k].id # id
            BY DEF Unseen
        <3> DEFINE l == v[t][r]
        <3>1. /\ z[t][r] = 0 => DOMAIN l = {}
              /\ z[t][r] # 0 => DOMAIN l = {1} /\ l[1].id = i[t][r]
            BY LevelAt
        <3> HIDE DEF v
        <3>2. z[t][r] # 0 /\ k = 1 /\ v[t][r][1].id = i[t][r]
            BY <3>1
        <3> QED
            BY <1>4, <3>2 DEF Alone
    <2> HIDE DEF v, w, row
    <2> QED
        BY <1>1, <2>1, <2>2 DEF RowLeads, v, w, row
<1> QED
    BY <1>3, <1>4

\* An order is added to a level that has none and may have one.
LEMMA LevelAdded ==
    ASSUME NEW i \in IdsOfLevels, NEW z \in LevelSizes, NEW j \in IdsOfLevels, NEW y \in LevelSizes,
           NEW s \in Side, NEW p \in Price, Elsewhere(i, z, j, y, s, p),
           z[s][p] = 0, y[s][p] # 0, Alone(i, z, s, p, j[s][p]),
           \A r \in Price : z[Opposite(s)][r] # 0 => Better(Opposite(s), p, r)
    PROVE  RowLeads(LevelView(i, z), Row("Add", s, p, y[s][p], j[s][p]), LevelView(j, y))
<1> DEFINE v == LevelView(i, z)
           w == LevelView(j, y)
           id == j[s][p]
           size == y[s][p]
           row == Row("Add", s, p, size, id)
<1>1. /\ id \in OrderId /\ size \in 1 .. MaxQty /\ size \in 0 .. MaxQty
      /\ v \in View /\ w \in View /\ v[s][p] = << >>
      /\ w[s][p] = <<[id |-> id, size |-> size]>> /\ ViewTo(v, w, s, p, w[s][p])
    <2>1. /\ v \in View /\ w \in View /\ ViewTo(v, w, s, p, w[s][p])
        BY LevelViewTo, LevelViewType
    <2>2. v[s][p] = << >>
        BY LevelAt
    <2>3. /\ size \in 0 .. MaxQty /\ id \in OrderId
          /\ w[s][p] = <<[id |-> id, size |-> size]>>
        BY LevelAt
    <2>4. size \in 1 .. MaxQty
        BY <2>3, MaxQtyAssumption
    <2> QED
        BY <2>1, <2>2, <2>3, <2>4
<1>2. /\ row \in TapeRow /\ row.type = "Add" /\ row.side = s /\ row.price = p /\ row.id = id
      /\ row.qty = size
    BY <1>1 DEF Row, TapeRow, Quantity
<1>3. w[s][p] = Append(v[s][p], [id |-> id, size |-> size])
    BY <1>1
<1>4. Welcome(v, s, p, id)
    <2>1. ASSUME NEW t \in Side, NEW r \in Price, NEW k \in DOMAIN v[t][r]
          PROVE  v[t][r][k].id # id
        <3> DEFINE l == v[t][r]
        <3>1. /\ z[t][r] = 0 => DOMAIN l = {}
              /\ z[t][r] # 0 => DOMAIN l = {1} /\ l[1].id = i[t][r]
            BY LevelAt
        <3> HIDE DEF v
        <3>2. z[t][r] # 0 /\ k = 1 /\ v[t][r][1].id = i[t][r]
            BY <3>1
        <3> QED
            BY <3>2 DEF Alone
    <2>2. ASSUME NEW r \in Price, v[Opposite(s)][r] # << >>
          PROVE  Better(Opposite(s), p, r)
        <3>1. Opposite(s) \in Side
            BY DEF Opposite, Side
        <3>2. z[Opposite(s)][r] # 0
            BY <2>2, <3>1, LevelAt
        <3> QED
            BY <3>2
    <2> HIDE DEF v, w, id
    <2> QED
        BY <2>1, <2>2 DEF Welcome
<1> HIDE DEF v, w, row, id, size
<1>5. AddLeads(v, s, p, id, size, w)
    BY <1>1, <1>3, <1>4 DEF AddLeads
<1> QED
    BY <1>2, <1>5 DEF RowLeads, v, w, row, id, size

\* One level is set.
LEMMA LevelSet ==
    ASSUME NEW X, NEW z \in [Side -> [Price -> X]], NEW s \in Side, NEW p \in Price, NEW x \in X,
           NEW y, y = [z EXCEPT ![s][p] = x]
    PROVE  /\ y \in [Side -> [Price -> X]] /\ y[s][p] = x
           /\ \A t \in Side, r \in Price : t # s \/ r # p => y[t][r] = z[t][r]
    OBVIOUS

LEMMA RowAlone ==
    ASSUME NEW v, NEW r, NEW w, RowLeads(v, r, w)
    PROVE  Leads(v, <<r>>, w)
    BY DEF Leads, RowLeads

\* A level's order is cancelled, if it has one, and another added in its place.
LEMMA LevelReplaced ==
    ASSUME NEW i \in IdsOfLevels, NEW z \in LevelSizes, NEW j \in IdsOfLevels, NEW y \in LevelSizes,
           NEW s \in Side, NEW p \in Price, Elsewhere(i, z, j, y, s, p), y[s][p] # 0,
           NEW id \in OrderId, z[s][p] # 0 => i[s][p] = id,
           Alone(i, z, s, p, id), Alone(i, z, s, p, j[s][p]),
           \A r \in Price : z[Opposite(s)][r] # 0 => Better(Opposite(s), p, r)
    PROVE  Leads(LevelView(i, z),
                 <<Row("Cancel", s, p, 0, id)>> \o <<Row("Add", s, p, y[s][p], j[s][p])>>,
                 LevelView(j, y))
<1> DEFINE m == [z EXCEPT ![s][p] = 0]
           a == Row("Cancel", s, p, 0, id)
           b == Row("Add", s, p, y[s][p], j[s][p])
<1>1. /\ m \in LevelSizes /\ m[s][p] = 0
      /\ \A t \in Side, r \in Price : t # s \/ r # p => m[t][r] = z[t][r]
    <2>1. 0 \in 0 .. MaxQty
        BY MaxQtyAssumption
    <2> QED
        BY <2>1, LevelSet DEF LevelSizes
<1> HIDE DEF m
<1>2. Elsewhere(i, z, i, m, s, p) /\ Elsewhere(i, m, j, y, s, p)
    BY <1>1 DEF Elsewhere
<1>3. Alone(i, m, s, p, j[s][p])
    BY <1>1 DEF Alone
<1>4. \A r \in Price : m[Opposite(s)][r] # 0 => Better(Opposite(s), p, r)
    <2>1. Opposite(s) \in Side /\ Opposite(s) # s
        BY DEF Opposite, Side
    <2> QED
        BY <1>1, <2>1
<1>5. RowLeads(LevelView(i, z), a, LevelView(i, m))
    BY <1>1, <1>2, LevelCancelled
<1>6. RowLeads(LevelView(i, m), b, LevelView(j, y))
    BY <1>1, <1>2, <1>3, <1>4, LevelAdded
<1> HIDE DEF a, b
<1>7. a \in TapeRow /\ b \in TapeRow /\ LevelView(i, m) \in View
    BY <1>1, <1>5, <1>6, LevelViewType DEF RowLeads
<1>8. <<a>> \o <<b>> = <<a, b>>
    BY <1>7, TwoRows
<1>9. Leads(LevelView(i, z), <<a, b>>, LevelView(j, y))
    BY <1>5, <1>6, <1>7 DEF Leads
<1> QED
    BY <1>8, <1>9 DEF a, b

LEMMA NothingBefore ==
    ASSUME NEW a \in TapeRow
    PROVE  << >> \o <<a>> = <<a>>
<1> DEFINE c == << >> \o <<a>>
<1>1. /\ << >> \in Seq(TapeRow) /\ <<a>> \in Seq(TapeRow) /\ Len(<< >>) = 0 /\ Len(<<a>>) = 1
      /\ <<a>>[1] = a
    OBVIOUS
<1>2. c \in Seq(TapeRow) /\ Len(c) = 1 /\ c[1] = a
    BY <1>1, ConcatProperties
<1> HIDE DEF c
<1>3. c = <<a>>
    BY <1>1, <1>2, SeqEqual
<1> QED
    BY <1>3 DEF c

\* What a book that mirrors the view shows at a level.
LEMMA LevelShown ==
    ASSUME WellFormed(book), NEW i \in IdsOfLevels, NEW z \in LevelSizes,
           Mirrors(book, LevelView(i, z)), NEW s \in Side, NEW p \in Price
    PROVE  OnTape(s, p) = z[s][p]
<1> DEFINE l == LevelView(i, z)[s][p]
           q == QueueAt(book, s, p)
<1>1. /\ z[s][p] \in Nat
      /\ z[s][p] = 0 => l = << >>
      /\ z[s][p] # 0 => l # << >> /\ Len(l) = 1 /\ l[1].size = z[s][p]
    BY LevelAt
<1>2. q \in Queue /\ Same(q, l) /\ (p \in Prices(book, s) <=> l # << >>)
    BY LevelViewType, MirrorPrices
<1> HIDE DEF l
<1>3. CASE z[s][p] = 0
    BY <1>1, <1>2, <1>3 DEF OnTape
<1>4. CASE z[s][p] # 0
    <2>1. p \in Prices(book, s) /\ q = book.levels[s][p].queue
        BY <1>1, <1>2, <1>4 DEF QueueAt
    <2>2. Len(q) = 1 /\ q[1].qty = z[s][p]
        BY <1>1, <1>2, <1>4 DEF Same
    <2>3. OnTape(s, p) = QueueQty(q)
        BY <2>1 DEF OnTape, WellFormed, LevelTotals
    <2> HIDE DEF q
    <2> QED
        BY <1>2, <2>2, <2>3, QueueQtyOne
<1> QED
    BY <1>3, <1>4

\* An empty book shows nothing.
LEMMA NothingShown ==
    ASSUME NEW i, NEW z, \A s \in Side, p \in Price : z[s][p] = 0,
           \A s \in Side, p \in Price : QueueAt(book, s, p) = << >>
    PROVE  Mirrors(book, LevelView(i, z))
<1>1. ASSUME NEW s \in Side, NEW p \in Price
      PROVE  QueueAt(book, s, p) = << >> /\ LevelView(i, z)[s][p] = << >>
    BY DEF LevelView
<1> QED
    BY <1>1 DEF Mirrors, Same

\* Nothing the converter does or keeps.
LEMMA TracksKept ==
    ASSUME IInv, NEW i, NEW c, Tracks(i, c), UNCHANGED <<engineVars, rows>>
    PROVE  Tracks(i, c)'
<1>1. book' = book /\ in' = in /\ phase' = phase /\ rows' = rows
    BY DEF engineVars
<1> QED
    BY <1>1 DEF Tracks, Withdrawn

\* A row written alone.
LEMMA OneRow ==
    ASSUME NEW a \in TapeRow, NEW rs, rs = <<a>>
    PROVE  rs \in Seq(TapeRow) /\ rs # << >> /\ DOMAIN rs = {1} /\ rs[1] = a
    OBVIOUS

(***************************************************************************)
(* Kraken: what is always so.                                              *)
(***************************************************************************)

KRItem ==
    [what : {"snapshot"}]
      \cup [what : {"level", "trade"}, side : Side, price : Price, qty : Nat]

QuotesOK(b) ==
    /\ b \in Levels0 /\ Uncrossed(b)
    /\ \A s \in Side, p \in Price : Scaled(b[s][p]) <= MaxQty

\* Items that may follow a snapshot's own: they fit the book b.
ItemsFit(e, b) ==
    /\ e \in Seq(KRItem)
    /\ \A k \in DOMAIN e :
         /\ e[k].what # "snapshot" => Scaled(e[k].qty) <= MaxQty
         /\ e[k].what = "level" => e[k].qty = b[e[k].side][e[k].price]

SocketOK ==
    /\ ItemsFit(socket, quotes)
    /\ \A k \in DOMAIN socket : /\ socket[k].what = "snapshot" => k = 1
                                /\ fresh => socket[k].what # "trade"
    /\ subscribed \in BOOLEAN /\ (~subscribed => socket = << >>)

\* There is an id for every item to come.
IdsLeft ==
    /\ n \in Nat /\ n <= KrakenMessages /\ next_id \in Nat \ {0}
    /\ next_id + Len(socket) + Items * (KrakenMessages - n) <= 1 + Items * KrakenMessages

IdsOK ==
    /\ ids \in IdsOfLevels
    /\ \A s \in Side, p \in Price :
         /\ ids[s][p] < next_id
         /\ ids[s][p] # 0 => \A t \in Side, r \in Price : ids[t][r] = ids[s][p] => t = s /\ r = p

KRExchangeOK == QuotesOK(quotes) /\ SocketOK /\ IdsLeft /\ IdsOK

Resetting == socket # << >> /\ socket[1].what = "snapshot"

LevelIn(e, s, p) == \E k \in DOMAIN e : e[k].what = "level" /\ e[k].side = s /\ e[k].price = p

\* A level that the socket says nothing of is tracked at no more than the feed
\* has there, and not at all if it has nothing; a snapshot lists all there is.
Capped(c) ==
    IF Resetting THEN \A s \in Side, p \in Price : quotes[s][p] # 0 => LevelIn(socket, s, p)
    ELSE \A s \in Side, p \in Price : ~LevelIn(socket, s, p) =>
           /\ quotes[s][p] = 0 => ids[s][p] = 0
           /\ Scaled(quotes[s][p]) > 0 => c[s][p] <= Scaled(quotes[s][p])

KRTracking ==
    /\ IInv /\ rows \in Seq(TapeRow)
    /\ \E c \in Levels0 : Tracks(ids, c) /\ (subscribed => Capped(c))

\* What the tape shows after a snapshot, once the rows are replayed.
Resynced ==
    [s \in Side |-> [p \in Price |-> IF ids[s][p] = 0 THEN 0 ELSE Scaled(quotes[s][p])]]

Resyncing ==
    fresh /\ subscribed /\ ~Resetting =>
        /\ \A s \in Side, p \in Price :
             /\ ids[s][p] # 0 => Scaled(quotes[s][p]) > 0
             /\ ~LevelIn(socket, s, p) /\ Scaled(quotes[s][p]) > 0 => ids[s][p] # 0
        /\ \E u \in View : InProgress(u) /\ Leads(u, rows, LevelView(ids, Resynced))

KRInv == KRExchangeOK /\ KRTracking /\ Resyncing

LEMMA LevelsOfBothSides ==
    /\ IsFiniteSet(Side \X Price) /\ Cardinality(Side \X Price) = 2 * Cardinality(Price)
    /\ Cardinality(Price) \in Nat /\ Items \in Nat \ {0}
<1> DEFINE B == {"Buy"} \X Price
           S == {"Sell"} \X Price
           f == [p \in Price |-> <<"Buy", p>>]
           g == [p \in Price |-> <<"Sell", p>>]
<1>1. IsFiniteSet(Price) /\ Cardinality(Price) \in Nat
    BY PriceAssumption, FS_CardinalityType
<1>2. f \in Bijection(Price, B) /\ g \in Bijection(Price, S)
    <2>1. f \in [Price -> B] /\ g \in [Price -> S]
        OBVIOUS
    <2>2. \A p \in Price : f[p] = <<"Buy", p>> /\ g[p] = <<"Sell", p>>
        OBVIOUS
    <2>3. (\A x \in B : \E p \in Price : x = <<"Buy", p>>)
          /\ (\A x \in S : \E p \in Price : x = <<"Sell", p>>)
        OBVIOUS
    <2> HIDE DEF f, g, B, S
    <2>4. \A p, r \in Price : (f[p] = f[r] => p = r) /\ (g[p] = g[r] => p = r)
        BY <2>2
    <2>5. (\A x \in B : \E p \in Price : f[p] = x) /\ (\A x \in S : \E p \in Price : g[p] = x)
        BY <2>2, <2>3
    <2> QED
        BY <2>1, <2>4, <2>5 DEF Bijection, Injection, Surjection, IsInjective
<1>3. ExistsBijection(Price, B) /\ ExistsBijection(Price, S)
    BY <1>2 DEF ExistsBijection
<1> HIDE DEF B, S
<1>4. /\ IsFiniteSet(B) /\ Cardinality(B) = Cardinality(Price)
      /\ IsFiniteSet(S) /\ Cardinality(S) = Cardinality(Price)
    BY <1>1, <1>3, FS_Bijection
<1>5. B \cup S = Side \X Price /\ B \cap S = {}
    BY DEF B, S, Side
<1>6. Cardinality({}) = 0
    BY FS_EmptySet
<1>7. /\ IsFiniteSet(B \cup S)
      /\ Cardinality(B \cup S) = Cardinality(B) + Cardinality(S) - Cardinality(B \cap S)
    BY <1>4, FS_Union
<1> HIDE DEF f, g
<1>8. PICK c \in Nat : c = Cardinality(Price)
    BY <1>1
<1>9. IsFiniteSet(Side \X Price) /\ Cardinality(Side \X Price) = c + c - 0
    BY <1>4, <1>5, <1>6, <1>7, <1>8
<1>10. Items = 2 * c + 1
    BY <1>8 DEF Items
<1> QED
    BY <1>8, <1>9, <1>10

LEMMA InitKR == KRInit => KRInv
<1> SUFFICES ASSUME KRInit PROVE KRInv
    OBVIOUS
<1>1. /\ Init /\ rows = << >> /\ n = 0 /\ quotes = Nowhere /\ subscribed = FALSE
      /\ socket = << >> /\ ids = Nowhere /\ next_id = 1 /\ fresh = FALSE
    BY DEF KRInit, ReplayInit
<1>2. \A s \in Side, p \in Price : Nowhere[s][p] = 0
    BY DEF Nowhere
<1>3. QuotesOK(quotes)
    <2>1. Nowhere \in Levels0
        BY DEF Nowhere, Levels0
    <2>2. Uncrossed(Nowhere)
        BY <1>2 DEF Uncrossed, Side
    <2>3. \A s \in Side, p \in Price : Scaled(Nowhere[s][p]) <= MaxQty
        BY <1>2, ScaledNothing, MaxQtyAssumption
    <2> QED
        BY <1>1, <2>1, <2>2, <2>3 DEF QuotesOK
<1>4. DOMAIN socket = {} /\ socket \in Seq(KRItem) /\ Len(socket) = 0 /\ rows \in Seq(TapeRow)
      /\ DOMAIN rows = {}
    BY <1>1
<1>5. SocketOK
    BY <1>1, <1>4 DEF SocketOK, ItemsFit
<1>6. IdsLeft
    <2>1. Items * (KrakenMessages - 0) = Items * KrakenMessages
          /\ Items * KrakenMessages \in Nat
        BY KrakenAssumption, LevelsOfBothSides
    <2> QED
        BY <1>1, <1>4, <2>1, KrakenAssumption DEF IdsLeft
<1>7. IdsOK
    <2>1. 0 \in OrderId
        BY KrakenAssumption, LevelsOfBothSides
    <2> QED
        BY <1>1, <1>2, <2>1 DEF IdsOK, IdsOfLevels, Nowhere
<1>8. Resting(book) = {} /\ phase = "idle"
    BY <1>1 DEF Init, EmptyBook, Resting
<1>9. Tracks(ids, quotes)
    BY <1>4, <1>8 DEF Tracks
<1>10. KRTracking
    BY <1>1, <1>3, <1>4, <1>9, InitIInv DEF KRTracking, QuotesOK
<1>11. Resyncing
    BY <1>1 DEF Resyncing
<1> QED
    BY <1>3, <1>5, <1>6, <1>7, <1>10, <1>11 DEF KRInv, KRExchangeOK

LEMMA ListedItems ==
    ASSUME NEW b, QuotesOK(b), NEW levels, levels \subseteq Side \X Price,
           NEW e \in Listed(b, levels)
    PROVE  /\ ItemsFit(e, b) /\ Len(e) \in Nat /\ Len(e) <= Items - 1
           /\ \A k \in DOMAIN e : e[k].what = "level"
           /\ \A x \in levels : LevelIn(e, x[1], x[2])
<1>1. PICK l \in Listings(levels) :
        e = [i \in DOMAIN l |-> Item("level", l[i][1], l[i][2], b[l[i][1]][l[i][2]])]
    BY DEF Listed
<1>2. Cardinality(levels) \in Nat /\ Cardinality(levels) <= Items - 1
    <2>1. IsFiniteSet(levels) /\ Cardinality(levels) <= Cardinality(Side \X Price)
        BY LevelsOfBothSides, FS_Subset
    <2>2. Cardinality(levels) \in Nat
        BY <2>1, FS_CardinalityType
    <2> QED
        BY <2>1, <2>2, LevelsOfBothSides DEF Items
<1>3. /\ DOMAIN l = 1 .. Cardinality(levels) /\ \A k \in DOMAIN l : l[k] \in levels
      /\ \A x \in levels : \E k \in DOMAIN l : l[k] = x
    BY DEF Listings
<1>4. \A k \in DOMAIN l : l[k][1] \in Side /\ l[k][2] \in Price
    BY <1>3
<1>5. \A k \in DOMAIN l : b[l[k][1]][l[k][2]] \in Nat /\ Scaled(b[l[k][1]][l[k][2]]) <= MaxQty
    BY <1>4 DEF QuotesOK, Levels0
<1>6. /\ DOMAIN e = DOMAIN l
      /\ \A k \in DOMAIN e : /\ e[k].what = "level" /\ e[k].side = l[k][1] /\ e[k].price = l[k][2]
                             /\ e[k].qty = b[l[k][1]][l[k][2]]
    BY <1>1 DEF Item
<1>7. \A k \in DOMAIN e : e[k] \in KRItem
    BY <1>1, <1>4, <1>5 DEF Item, KRItem
<1>8. e \in [1 .. Cardinality(levels) -> KRItem]
    BY <1>1, <1>3, <1>6, <1>7
<1>9. e \in Seq(KRItem) /\ Len(e) = Cardinality(levels)
    <2>1. e \in Seq(KRItem)
        BY <1>2, <1>8, SeqDef
    <2>2. Len(e) \in Nat /\ DOMAIN e = 1 .. Len(e) /\ DOMAIN e = 1 .. Cardinality(levels)
        BY <1>3, <1>6, <2>1
    <2> QED
        BY <1>2, <2>1, <2>2
<1>10. ItemsFit(e, b)
    BY <1>5, <1>6, <1>9 DEF ItemsFit
<1>11. \A x \in levels : LevelIn(e, x[1], x[2])
    BY <1>3, <1>6 DEF LevelIn
<1> QED
    BY <1>2, <1>6, <1>9, <1>10, <1>11

(***************************************************************************)
(* Kraken: the exchange and the connection.                                *)
(***************************************************************************)

\* The book becomes another one, and who listens hears of all that changed.
KRChange ==
    /\ QuotesOK(quotes') /\ ItemsFit(socket', quotes')
    /\ Len(socket') \in Nat /\ Len(socket') <= Items
    /\ \A k \in DOMAIN socket' : socket'[k].what # "snapshot"
    /\ ~subscribed => socket' = << >>
    /\ subscribed => \A s \in Side, p \in Price :
                       quotes'[s][p] # quotes[s][p] => LevelIn(socket', s, p)

LEMMA Unheard ==
    ASSUME NEW b
    PROVE  /\ ItemsFit(<< >>, b) /\ Len(<< >>) = 0 /\ DOMAIN << >> = {}
           /\ \A s, p : ~LevelIn(<< >>, s, p)
<1>1. << >> \in Seq(KRItem) /\ DOMAIN << >> = {} /\ Len(<< >>) = 0
    OBVIOUS
<1> QED
    BY <1>1 DEF ItemsFit, LevelIn

LEMMA MovesChange ==
    ASSUME QuotesOK(quotes), Moves
    PROVE  KRChange
<1>10. PICK ps \in SUBSET (Side \X Price) :
         \E q \in [ps -> KrakenSizes \cup {0}] :
           LET b == [s \in Side |-> [p \in Price |-> IF <<s, p>> \in ps THEN q[<<s, p>>]
                                                     ELSE quotes[s][p]]]
           IN  Changed(b) = ps /\ Uncrossed(b) /\ quotes' = b /\ Sent(Listed(b, ps))
    BY DEF Moves
<1>1. PICK q \in [ps -> KrakenSizes \cup {0}] :
        LET b == [s \in Side |-> [p \in Price |-> IF <<s, p>> \in ps THEN q[<<s, p>>]
                                                  ELSE quotes[s][p]]]
        IN  /\ Changed(b) = ps /\ Uncrossed(b) /\ quotes' = b /\ Sent(Listed(b, ps))
    BY <1>10
<1>2. PICK b : b = [s \in Side |-> [p \in Price |-> IF <<s, p>> \in ps THEN q[<<s, p>>]
                                                    ELSE quotes[s][p]]]
    OBVIOUS
<1>3. /\ Changed(b) = ps /\ Uncrossed(b) /\ quotes' = b
      /\ socket' \in IF subscribed THEN Listed(b, ps) ELSE {<< >>}
    BY <1>1, <1>2 DEF Sent
<1>4. \A s \in Side, p \in Price :
        b[s][p] = IF <<s, p>> \in ps THEN q[<<s, p>>] ELSE quotes[s][p]
    BY <1>2
<1>5. ASSUME NEW s \in Side, NEW p \in Price
      PROVE  b[s][p] \in Nat /\ Scaled(b[s][p]) <= MaxQty
    <2>1. CASE <<s, p>> \in ps
        <3>1. b[s][p] \in KrakenSizes \cup {0}
            BY <1>4, <2>1
        <3>2. PICK x \in KrakenSizes \cup {0} : x = b[s][p]
            BY <3>1
        <3>3. x \in Nat /\ Scaled(x) <= MaxQty
            <4>1. CASE x = 0
                BY <4>1, ScaledNothing, MaxQtyAssumption
            <4>2. CASE x \in KrakenSizes
                BY <4>2, KrakenAssumption
            <4> QED
                BY <4>1, <4>2
        <3> QED
            BY <3>2, <3>3
    <2>2. CASE <<s, p>> \notin ps
        BY <1>4, <2>2 DEF QuotesOK, Levels0
    <2> QED
        BY <2>1, <2>2
<1>6. b \in Levels0
    BY <1>2, <1>4, <1>5 DEF Levels0
<1>7. QuotesOK(b)
    BY <1>3, <1>5, <1>6 DEF QuotesOK
<1>8. CASE ~subscribed
    BY <1>3, <1>7, <1>8, LevelsOfBothSides, Unheard DEF KRChange
<1>9. CASE subscribed
    <2>1. PICK e \in Listed(b, ps) : socket' = e
        BY <1>3, <1>9
    <2>2. /\ ItemsFit(e, b) /\ Len(e) \in Nat /\ Len(e) <= Items - 1
          /\ \A k \in DOMAIN e : e[k].what = "level"
          /\ \A x \in ps : LevelIn(e, x[1], x[2])
        BY <1>7, ListedItems
    <2>3. ASSUME NEW s \in Side, NEW p \in Price, b[s][p] # quotes[s][p]
          PROVE  LevelIn(e, s, p)
        <3>1. <<s, p>> \in ps /\ <<s, p>>[1] = s /\ <<s, p>>[2] = p
            BY <1>4, <2>3
        <3> QED
            BY <2>2, <3>1
    <2>4. Len(e) <= Items
        BY <2>2, LevelsOfBothSides
    <2> QED
        BY <1>3, <1>7, <1>9, <2>1, <2>2, <2>3, <2>4 DEF KRChange
<1> QED
    BY <1>8, <1>9

LEMMA PairOfItems ==
    ASSUME NEW x \in KRItem, NEW y \in KRItem, NEW b,
           \A z \in {x, y} : /\ z.what # "snapshot" /\ Scaled(z.qty) <= MaxQty
                             /\ z.what = "level" => z.qty = b[z.side][z.price],
           NEW e, e = <<x, y>>
    PROVE  /\ ItemsFit(e, b) /\ Len(e) = 2 /\ DOMAIN e = {1, 2} /\ e[1] = x /\ e[2] = y
           /\ \A k \in DOMAIN e : e[k].what # "snapshot"
<1>1. e \in Seq(KRItem) /\ Len(e) = 2 /\ DOMAIN e = {1, 2} /\ e[1] = x /\ e[2] = y
    OBVIOUS
<1> QED
    BY <1>1 DEF ItemsFit

LEMMA TradesChange ==
    ASSUME QuotesOK(quotes), NEW s \in Side, NEW p \in Price, Trades(s, p)
    PROVE  KRChange
<1>1. PICK q \in 1 .. quotes[s][p] :
        LET trade == Item("trade", Opposite(s), p, q)
            level == Item("level", s, p, quotes[s][p] - q)
        IN  /\ quotes' = [quotes EXCEPT ![s][p] = @ - q]
            /\ Sent({<<trade, level>>, <<level, trade>>})
    BY DEF Trades
<1>2. PICK x, y : x = Item("trade", Opposite(s), p, q) /\ y = Item("level", s, p, quotes[s][p] - q)
    OBVIOUS
<1>3. /\ quotes' = [quotes EXCEPT ![s][p] = @ - q]
      /\ socket' \in IF subscribed THEN {<<x, y>>, <<y, x>>} ELSE {<< >>}
    BY <1>1, <1>2 DEF Sent
<1>4. quotes \in Levels0 /\ quotes[s][p] \in Nat
    BY DEF QuotesOK, Levels0
<1>5. PICK m \in Nat : m = quotes[s][p] - q /\ m <= quotes[s][p]
    BY <1>4
<1>6. PICK b : b = [quotes EXCEPT ![s][p] = m]
    OBVIOUS
<1>7. /\ quotes' = b /\ b \in Levels0 /\ b[s][p] = m
      /\ \A t \in Side, r \in Price : t # s \/ r # p => b[t][r] = quotes[t][r]
    <2>1. quotes' = b
        BY <1>3, <1>5, <1>6
    <2>2. quotes \in [Side -> [Price -> Nat]]
        BY <1>4 DEF Levels0
    <2> QED
        BY <1>6, <2>1, <2>2, LevelSet DEF Levels0
<1>8. \A t \in Side, r \in Price : b[t][r] \in Nat /\ quotes[t][r] \in Nat /\ b[t][r] <= quotes[t][r]
    <2> SUFFICES ASSUME NEW t \in Side, NEW r \in Price
                 PROVE  b[t][r] \in Nat /\ quotes[t][r] \in Nat /\ b[t][r] <= quotes[t][r]
        OBVIOUS
    <2>1. quotes[t][r] \in Nat
        BY <1>4 DEF Levels0
    <2> QED
        BY <1>5, <1>7, <2>1
<1>9. \A a \in Nat, c \in Nat : a <= c /\ Scaled(c) <= MaxQty => Scaled(a) <= MaxQty
    <2> SUFFICES ASSUME NEW a \in Nat, NEW c \in Nat, a <= c, Scaled(c) <= MaxQty
                 PROVE  Scaled(a) <= MaxQty
        OBVIOUS
    <2>1. Scaled(a) \in Nat /\ Scaled(c) \in Nat /\ Scaled(a) <= Scaled(c)
        BY ScaledGrows
    <2> QED
        BY <2>1, MaxQtyAssumption
<1>10. QuotesOK(b)
    <2>1. Uncrossed(b)
        BY <1>8 DEF QuotesOK, Uncrossed, Side
    <2>2. \A t \in Side, r \in Price : Scaled(b[t][r]) <= MaxQty
        BY <1>8, <1>9 DEF QuotesOK
    <2> QED
        BY <1>7, <2>1, <2>2 DEF QuotesOK
<1>11. /\ x \in KRItem /\ y \in KRItem
       /\ x.what = "trade" /\ x.qty = q
       /\ y.what = "level" /\ y.side = s /\ y.price = p /\ y.qty = m
    <2>1. Opposite(s) \in Side /\ q \in Nat /\ y = Item("level", s, p, m)
        BY <1>2, <1>4, <1>5 DEF Opposite, Side
    <2> QED
        BY <1>2, <2>1 DEF Item, KRItem
<1>12. \A z \in {x, y} : /\ z.what # "snapshot" /\ Scaled(z.qty) <= MaxQty
                         /\ z.what = "level" => z.qty = b[z.side][z.price]
    <2>1. Scaled(q) <= MaxQty
        <3>1. q \in Nat /\ q <= quotes[s][p]
            BY <1>4
        <3> QED
            BY <1>4, <1>9, <3>1 DEF QuotesOK
    <2>2. Scaled(m) <= MaxQty
        BY <1>7, <1>10 DEF QuotesOK
    <2> QED
        BY <1>7, <1>11, <2>1, <2>2
<1>13. CASE ~subscribed
    <2>1. /\ ItemsFit(<< >>, b) /\ Len(<< >>) = 0 /\ DOMAIN << >> = {} /\ 0 \in Nat
          /\ 0 <= Items
        BY LevelsOfBothSides, Unheard
    <2>2. socket' = << >> /\ quotes' = b
        BY <1>3, <1>7, <1>13
    <2> QED
        BY <1>10, <1>13, <2>1, <2>2 DEF KRChange
<1>14. CASE subscribed
    <2>1. PICK e : socket' = e /\ e \in {<<x, y>>, <<y, x>>}
        BY <1>3, <1>14
    <2>2. /\ ItemsFit(e, b) /\ Len(e) = 2 /\ DOMAIN e = {1, 2} /\ y \in {e[1], e[2]}
          /\ \A k \in DOMAIN e : e[k].what # "snapshot"
        <3>1. CASE e = <<x, y>>
            BY <1>11, <1>12, <3>1, PairOfItems
        <3>2. CASE e = <<y, x>>
            BY <1>11, <1>12, <3>2, PairOfItems
        <3> QED
            BY <2>1, <3>1, <3>2
    <2>3. LevelIn(e, s, p)
        BY <1>11, <2>2 DEF LevelIn
    <2>4. \A t \in Side, r \in Price : b[t][r] # quotes[t][r] => LevelIn(e, t, r)
        BY <1>7, <2>3
    <2>5. 2 <= Items
        <3>1. Cardinality(Price) \in Nat /\ Cardinality(Price) # 0
            BY LevelsOfBothSides, PriceAssumption, FS_EmptySet
        <3> QED
            BY <3>1 DEF Items
    <2> QED
        BY <1>7, <1>10, <1>14, <2>1, <2>2, <2>4, <2>5 DEF KRChange
<1> QED
    BY <1>13, <1>14

LEMMA OneRoomLess ==
    ASSUME NEW k \in Nat, NEW m \in Nat, m < k, NEW i \in Nat
    PROVE  i * (k - m) = i * (k - (m + 1)) + i /\ i * (k - (m + 1)) \in Nat
<1>1. PICK d \in Nat : d = k - (m + 1) /\ k - m = d + 1
    OBVIOUS
<1>2. i * (d + 1) = i * d + i /\ i * d \in Nat
    BY Z3
<1> QED
    BY <1>1, <1>2

\* What one thing that happens sends, there are ids for.
LEMMA RoomKept ==
    ASSUME IdsLeft, socket = << >>, n < KrakenMessages, n' = n + 1, next_id' = next_id,
           Len(socket') \in Nat, Len(socket') <= Items
    PROVE  IdsLeft'
<1>1. /\ Items \in Nat /\ KrakenMessages \in Nat /\ Len(socket) = 0 /\ n \in Nat
    BY KrakenAssumption, LevelsOfBothSides DEF IdsLeft
<1>2. /\ Items * (KrakenMessages - n) = Items * (KrakenMessages - (n + 1)) + Items
      /\ Items * (KrakenMessages - (n + 1)) \in Nat
    BY <1>1, OneRoomLess
<1>3. Items * KrakenMessages \in Nat
    BY <1>1
<1> DEFINE x == Items * (KrakenMessages - n)
           y == Items * (KrakenMessages - (n + 1))
           z == Items * KrakenMessages
<1>4. n + 1 \in Nat /\ n + 1 <= KrakenMessages /\ next_id \in Nat \ {0}
    BY <1>1 DEF IdsLeft
<1>5. next_id + 0 + x <= 1 + z
    BY <1>1 DEF IdsLeft
<1>6. x = y + Items /\ y \in Nat /\ z \in Nat
    BY <1>2, <1>3
<1> HIDE DEF x, y, z
<1>7. next_id' + Len(socket') + y <= 1 + z
    BY <1>1, <1>4, <1>5, <1>6
<1> QED
    BY <1>4, <1>7 DEF IdsLeft, y, z

LEMMA KRTrackingKept ==
    ASSUME KRTracking, UNCHANGED <<engineVars, rows>>, ids' = ids,
           subscribed' => \A c \in Levels0 : Tracks(ids, c) /\ (subscribed => Capped(c)) => Capped(c)'
    PROVE  KRTracking'
<1>1. PICK c \in Levels0 : Tracks(ids, c) /\ (subscribed => Capped(c))
    BY DEF KRTracking
<1>2. PICK i : i = ids /\ i = ids'
    OBVIOUS
<1>3. Tracks(i, c)'
    BY <1>1, <1>2, TracksKept DEF KRTracking
<1>4. IInv' /\ rows' \in Seq(TapeRow)
    BY EngineRests DEF KRTracking
<1>5. Tracks(ids, c)'
    BY <1>2, <1>3
<1>6. Levels0' = Levels0
    BY DEF Levels0
<1> QED
    BY <1>1, <1>4, <1>5, <1>6 DEF KRTracking

LEMMA ExchangeKRInv ==
    ASSUME KRInv, KRExchange
    PROVE  KRInv'
<1>1. /\ socket = << >> /\ Replayed /\ n < KrakenMessages /\ n' = n + 1 /\ fresh' = FALSE
      /\ UNCHANGED <<engineVars, rows>> /\ subscribed' = subscribed /\ ids' = ids
      /\ next_id' = next_id
    BY DEF KRExchange, KRQuiet
<1>2. KRExchangeOK /\ QuotesOK(quotes) /\ SocketOK /\ IdsLeft /\ IdsOK
    BY DEF KRInv, KRExchangeOK
<1>3. KRChange
    BY <1>2, MovesChange, TradesChange DEF KRExchange
<1>4. IdsLeft'
    BY <1>1, <1>2, <1>3, RoomKept DEF KRChange
<1>5. QuotesOK(quotes)' /\ ItemsFit(socket, quotes)'
    BY <1>3 DEF KRChange
<1>6. SocketOK'
    <2>1. \A k \in DOMAIN socket' : socket'[k].what # "snapshot"
        BY <1>3 DEF KRChange
    <2>2. subscribed' \in BOOLEAN /\ (~subscribed' => socket' = << >>)
        BY <1>1, <1>2, <1>3 DEF SocketOK, KRChange
    <2> QED
        BY <1>1, <1>5, <2>1, <2>2 DEF SocketOK
<1>7. IdsOK'
    BY <1>1, <1>2 DEF IdsOK
<1>8. ASSUME subscribed, NEW c \in Levels0, Capped(c) PROVE Capped(c)'
    <2>1. ~Resetting /\ ~Resetting'
        <3>1. socket' # << >> => 1 \in DOMAIN socket'
            <4>1. socket' \in Seq(KRItem)
                BY <1>5 DEF ItemsFit
            <4>2. Len(socket') \in Nat /\ DOMAIN socket' = 1 .. Len(socket')
                  /\ (socket' # << >> => Len(socket') # 0)
                BY <4>1, EmptySeq
            <4> QED
                BY <4>2
        <3> QED
            BY <1>1, <1>3, <3>1 DEF Resetting, KRChange
    <2>2. \A s \in Side, p \in Price : ~LevelIn(socket, s, p)
        BY <1>1, Unheard
    <2>3. ASSUME NEW s \in Side, NEW p \in Price, ~LevelIn(socket', s, p)
          PROVE  quotes'[s][p] = quotes[s][p]
        BY <1>3, <1>8, <2>3 DEF KRChange
    <2>4. ASSUME NEW s \in Side, NEW p \in Price, ~LevelIn(socket', s, p)
          PROVE  /\ quotes'[s][p] = 0 => ids'[s][p] = 0
                 /\ Scaled(quotes'[s][p]) > 0 => c[s][p] <= Scaled(quotes'[s][p])
        BY <1>1, <1>8, <2>1, <2>2, <2>3, <2>4 DEF Capped
    <2> QED
        BY <2>1, <2>4 DEF Capped
<1>9. KRTracking'
    BY <1>1, <1>8, KRTrackingKept DEF KRInv
<1>10. Resyncing'
    BY <1>1 DEF Resyncing
<1> QED
    BY <1>4, <1>5, <1>6, <1>7, <1>9, <1>10 DEF KRInv, KRExchangeOK

LEMMA DropKRInv ==
    ASSUME KRInv, KRDrop
    PROVE  KRInv'
<1>1. /\ socket = << >> /\ Replayed /\ subscribed' = FALSE /\ socket' = socket
      /\ UNCHANGED <<engineVars, rows>> /\ n' = n /\ quotes' = quotes /\ ids' = ids
      /\ next_id' = next_id /\ fresh' = fresh
    BY DEF KRDrop, KRQuiet
<1>2. KRExchangeOK /\ QuotesOK(quotes) /\ SocketOK /\ IdsLeft /\ IdsOK
    BY DEF KRInv, KRExchangeOK
<1>3. QuotesOK(quotes)' /\ SocketOK' /\ IdsLeft' /\ IdsOK'
    <2>1. QuotesOK(quotes)'
        BY <1>1, <1>2 DEF QuotesOK, Uncrossed
    <2>2. SocketOK'
        <3>1. ItemsFit(socket, quotes)' /\ DOMAIN socket' = {} /\ socket' = << >>
            BY <1>1, Unheard DEF ItemsFit
        <3> QED
            BY <1>1, <3>1 DEF SocketOK
    <2>3. IdsLeft' /\ IdsOK'
        BY <1>1, <1>2 DEF IdsLeft, IdsOK
    <2> QED
        BY <2>1, <2>2, <2>3
<1>4. KRTracking'
    BY <1>1, KRTrackingKept DEF KRInv
<1>5. Resyncing'
    BY <1>1 DEF Resyncing
<1> QED
    BY <1>3, <1>4, <1>5 DEF KRInv, KRExchangeOK

LEMMA ConnectKRInv ==
    ASSUME KRInv, KRConnect
    PROVE  KRInv'
<1>1. /\ socket = << >> /\ Replayed /\ n < KrakenMessages /\ n' = n + 1 /\ fresh' = TRUE
      /\ UNCHANGED <<engineVars, rows>> /\ subscribed' = TRUE /\ ids' = ids
      /\ next_id' = next_id /\ quotes' = quotes
    BY DEF KRConnect, KRQuiet
<1>2. KRExchangeOK /\ QuotesOK(quotes) /\ SocketOK /\ IdsLeft /\ IdsOK
    BY DEF KRInv, KRExchangeOK
<1>3. PICK e \in Listed(quotes, Quoted(quotes)) : socket' = <<[what |-> "snapshot"]>> \o e
    BY DEF KRConnect
<1>4. /\ ItemsFit(e, quotes) /\ Len(e) \in Nat /\ Len(e) <= Items - 1
      /\ \A k \in DOMAIN e : e[k].what = "level"
      /\ \A x \in Quoted(quotes) : LevelIn(e, x[1], x[2])
    BY <1>2, <1>3, ListedItems DEF Quoted
<1>5. PICK h : h = [what |-> "snapshot"]
    OBVIOUS
<1>6. /\ h \in KRItem /\ h.what = "snapshot" /\ <<h>> \in Seq(KRItem) /\ Len(<<h>>) = 1
      /\ <<h>>[1] = h /\ e \in Seq(KRItem)
    BY <1>4, <1>5 DEF KRItem, ItemsFit
<1>7. /\ socket' \in Seq(KRItem) /\ Len(socket') = 1 + Len(e)
      /\ \A k \in 1 .. 1 + Len(e) : socket'[k] = IF k <= 1 THEN <<h>>[k] ELSE e[k - 1]
    BY <1>3, <1>5, <1>6, ConcatProperties
<1>8. DOMAIN socket' = 1 .. 1 + Len(e) /\ DOMAIN e = 1 .. Len(e)
    BY <1>4, <1>6, <1>7
<1>9. /\ socket'[1] = h /\ socket' # << >>
      /\ \A k \in DOMAIN socket' \ {1} : k - 1 \in DOMAIN e /\ socket'[k] = e[k - 1]
      /\ \A k \in DOMAIN e : k + 1 \in DOMAIN socket' /\ socket'[k + 1] = e[k]
    <2>1. 1 \in DOMAIN socket' /\ socket'[1] = h
        BY <1>4, <1>6, <1>7, <1>8
    <2>2. socket' # << >>
        BY <1>4, <1>7
    <2>3. ASSUME NEW k \in DOMAIN socket' \ {1}
          PROVE  k - 1 \in DOMAIN e /\ socket'[k] = e[k - 1]
        BY <1>4, <1>7, <1>8
    <2>4. ASSUME NEW k \in DOMAIN e
          PROVE  k + 1 \in DOMAIN socket' /\ socket'[k + 1] = e[k]
        <3>1. k + 1 \in 1 .. 1 + Len(e) /\ ~(k + 1 <= 1) /\ (k + 1) - 1 = k
            BY <1>4, <1>8
        <3> QED
            BY <1>7, <1>8, <3>1
    <2> QED
        BY <2>1, <2>2, <2>3, <2>4
<1>10. ItemsFit(socket, quotes)' /\ SocketOK'
    <2>1. ASSUME NEW k \in DOMAIN socket'
          PROVE  /\ socket'[k].what # "snapshot" => Scaled(socket'[k].qty) <= MaxQty
                 /\ socket'[k].what = "level" =>
                      socket'[k].qty = quotes'[socket'[k].side][socket'[k].price]
                 /\ socket'[k].what = "snapshot" => k = 1
                 /\ socket'[k].what # "trade"
        <3>1. CASE k = 1
            BY <1>6, <1>9, <3>1
        <3>2. CASE k # 1
            <4>1. k - 1 \in DOMAIN e /\ socket'[k] = e[k - 1]
                BY <1>9, <2>1, <3>2
            <4> QED
                BY <1>1, <1>4, <4>1 DEF ItemsFit
        <3> QED
            BY <3>1, <3>2
    <2> QED
        BY <1>1, <1>7, <2>1 DEF ItemsFit, SocketOK
<1>11. IdsLeft'
    <2>1. Len(socket') \in Nat /\ Len(socket') <= Items
        BY <1>4, <1>7, LevelsOfBothSides
    <2> QED
        BY <1>1, <1>2, <2>1, RoomKept
<1>12. QuotesOK(quotes)' /\ IdsOK'
    BY <1>1, <1>2 DEF QuotesOK, IdsOK, Uncrossed
<1>13. ASSUME NEW c PROVE Capped(c)'
    <2>1. Resetting'
        BY <1>6, <1>9 DEF Resetting
    <2>2. ASSUME NEW s \in Side, NEW p \in Price, quotes[s][p] # 0
          PROVE  LevelIn(socket', s, p)
        <3>1. quotes[s][p] > 0
            BY <1>2, <2>2 DEF QuotesOK, Levels0
        <3>2. <<s, p>> \in Quoted(quotes) /\ <<s, p>>[1] = s /\ <<s, p>>[2] = p
            BY <3>1 DEF Quoted
        <3>3. LevelIn(e, s, p)
            BY <1>4, <3>2
        <3> QED
            BY <1>9, <3>3 DEF LevelIn
    <2> QED
        BY <1>1, <2>1, <2>2 DEF Capped
<1>14. KRTracking'
    BY <1>1, <1>13, KRTrackingKept DEF KRInv
<1>15. Resyncing'
    BY <1>6, <1>9 DEF Resyncing, Resetting
<1> QED
    BY <1>10, <1>11, <1>12, <1>14, <1>15 DEF KRInv, KRExchangeOK

(***************************************************************************)
(* Kraken: an item is converted.                                           *)
(***************************************************************************)

\* The head of the socket, and what it leaves.
LEMMA SocketHead ==
    ASSUME SocketOK, socket # << >>
    PROVE  /\ socket[1] \in KRItem /\ 1 \in DOMAIN socket
           /\ Tail(socket) \in Seq(KRItem) /\ Len(Tail(socket)) = Len(socket) - 1
           /\ Len(socket) \in Nat /\ Len(socket) > 0
           /\ \A k \in DOMAIN Tail(socket) : k + 1 \in DOMAIN socket /\ k + 1 # 1
                                             /\ Tail(socket)[k] = socket[k + 1]
           /\ \A k \in DOMAIN socket \ {1} : k - 1 \in DOMAIN Tail(socket)
                                             /\ Tail(socket)[k - 1] = socket[k]
<1>1. socket \in Seq(KRItem)
    BY DEF SocketOK, ItemsFit
<1>2. /\ Tail(socket) \in Seq(KRItem) /\ Len(Tail(socket)) = Len(socket) - 1
      /\ \A k \in 1 .. Len(socket) - 1 : Tail(socket)[k] = socket[k + 1]
    BY <1>1, HeadTailProperties
<1>3. Len(socket) \in Nat /\ Len(socket) > 0 /\ DOMAIN socket = 1 .. Len(socket)
    BY <1>1, EmptySeq
<1>4. DOMAIN Tail(socket) = 1 .. Len(socket) - 1
    BY <1>2, <1>3
<1>5. 1 \in DOMAIN socket /\ socket[1] \in KRItem
    BY <1>1, <1>3, ElementOfSeq
<1>6. ASSUME NEW k \in DOMAIN socket \ {1}
      PROVE  k - 1 \in DOMAIN Tail(socket) /\ Tail(socket)[k - 1] = socket[k]
    <2>1. k - 1 \in 1 .. Len(socket) - 1 /\ (k - 1) + 1 = k
        BY <1>3
    <2> QED
        BY <1>2, <1>4, <2>1
<1>7. \A k \in DOMAIN Tail(socket) : k + 1 \in DOMAIN socket /\ k + 1 # 1
                                     /\ Tail(socket)[k] = socket[k + 1]
    BY <1>2, <1>3, <1>4
<1> QED
    BY <1>2, <1>3, <1>5, <1>6, <1>7

LEMMA ItemTaken ==
    ASSUME SocketOK, socket # << >>, socket' = Tail(socket), quotes' = quotes, fresh' = fresh,
           subscribed' = subscribed
    PROVE  /\ SocketOK' /\ ~Resetting'
           /\ \A s, p : LevelIn(socket', s, p) => LevelIn(socket, s, p)
           /\ \A s, p : LevelIn(socket, s, p) =>
                \/ LevelIn(socket', s, p)
                \/ socket[1].what = "level" /\ socket[1].side = s /\ socket[1].price = p
<1>1. /\ socket' \in Seq(KRItem)
      /\ \A k \in DOMAIN socket' : k + 1 \in DOMAIN socket /\ k + 1 # 1 /\ socket'[k] = socket[k + 1]
      /\ \A k \in DOMAIN socket \ {1} : k - 1 \in DOMAIN socket' /\ socket'[k - 1] = socket[k]
    BY SocketHead
<1>2. \A k \in DOMAIN socket' : socket'[k].what # "snapshot"
    BY <1>1 DEF SocketOK
<1>3. ItemsFit(socket, quotes)'
    BY <1>1 DEF SocketOK, ItemsFit
<1>4. subscribed' \in BOOLEAN /\ subscribed'
    BY DEF SocketOK
<1>5. SocketOK'
    BY <1>1, <1>2, <1>3, <1>4 DEF SocketOK
<1>6. ~Resetting'
    <2>1. Len(socket') \in Nat /\ DOMAIN socket' = 1 .. Len(socket')
          /\ (socket' # << >> => Len(socket') # 0)
        BY <1>1, EmptySeq
    <2>2. socket' # << >> => 1 \in DOMAIN socket'
        BY <2>1
    <2> QED
        BY <1>2, <2>2 DEF Resetting
<1>7. \A s, p : LevelIn(socket', s, p) => LevelIn(socket, s, p)
    BY <1>1 DEF LevelIn
<1>8. ASSUME NEW s, NEW p, LevelIn(socket, s, p)
      PROVE  \/ LevelIn(socket', s, p)
             \/ socket[1].what = "level" /\ socket[1].side = s /\ socket[1].price = p
    <2>1. PICK k \in DOMAIN socket :
            socket[k].what = "level" /\ socket[k].side = s /\ socket[k].price = p
        BY <1>8 DEF LevelIn
    <2>2. CASE k = 1
        BY <2>1, <2>2
    <2>3. CASE k # 1
        BY <1>1, <2>1, <2>3 DEF LevelIn
    <2> QED
        BY <2>2, <2>3
<1> QED
    BY <1>5, <1>6, <1>7, <1>8

\* The orders of the levels are owned under the new ids, except one that is
\* withdrawn first.
LEMMA Retracks ==
    ASSUME IInv, Replayed, UNCHANGED engineVars, NEW i, NEW c, Tracks(i, c), NEW j, NEW d,
           \A s \in Side, p \in Price :
             \/ i[s][p] = 0
             \/ j[s][p] = i[s][p] /\ d[s][p] = c[s][p]
             \/ rows' # << >> /\ rows'[1].type = "Cancel" /\ rows'[1].id = i[s][p],
           \A k \in DOMAIN rows' :
             /\ rows'[k].type = "Add" =>
                  Owns(j, d, rows'[k].id, rows'[k].side, rows'[k].price, rows'[k].qty)
             /\ rows'[k].type = "Cancel" => k = 1
    PROVE  IInv' /\ Tracks(j, d)'
<1>1. /\ rows = << >> /\ phase = "idle" /\ book' = book /\ in' = in /\ phase' = phase
    BY DEF Replayed, engineVars
<1>2. ASSUME NEW id \in Resting(book)
      PROVE  \/ Withdrawn(id)'
             \/ Owns(j, d, id, book.index[id].side, book.index[id].price, Entry(book, id).qty)
    <2>1. Owns(i, c, id, book.index[id].side, book.index[id].price, Entry(book, id).qty)
        BY <1>1 DEF Tracks, Withdrawn
    <2> QED
        BY <2>1 DEF Owns, Withdrawn
<1> QED
    BY <1>1, <1>2, EngineRests DEF Tracks

\* What becomes of an item.
Clears(s, p) == rows' = CancelRows(s, p) /\ ids' = [ids EXCEPT ![s][p] = 0] /\ next_id' = next_id

Gives(s, p, q) ==
    /\ rows' = CancelRows(s, p) \o <<Row("Add", s, p, q, next_id)>>
    /\ ids' = [ids EXCEPT ![s][p] = next_id] /\ next_id' = next_id + 1

Unchanging == rows' = << >> /\ ids' = ids

ItemOutcome(s, p, qty, what) ==
    \/ what = "snapshot" /\ socket' = socket /\ \E t \in Side, r \in Price : Clears(t, r)
    \/ what = "snapshot" /\ socket' = Tail(socket) /\ (\A t \in Side : NothingKnown(t))
       /\ Unchanging /\ next_id' = next_id
    \/ what = "level" /\ socket' = Tail(socket) /\ qty = 0 /\ Clears(s, p)
    \/ what = "level" /\ socket' = Tail(socket) /\ qty > 0 /\ Scaled(qty) = 0
       /\ Unchanging /\ next_id' = next_id
    \/ what = "level" /\ socket' = Tail(socket) /\ Scaled(qty) > 0 /\ Gives(s, p, Scaled(qty))
    \/ what = "trade" /\ socket' = Tail(socket) /\ Scaled(qty) = 0
       /\ Unchanging /\ next_id' = next_id + 1
    \/ what = "trade" /\ socket' = Tail(socket) /\ Scaled(qty) > 0
       /\ rows' = <<Row("Trade", s, p, Scaled(qty), 0)>> /\ ids' = ids /\ next_id' = next_id + 1

LEMMA ItemFacts ==
    ASSUME SocketOK, socket # << >>, NEW x, x = socket[1]
    PROVE  /\ x.what \in {"snapshot", "level", "trade"}
           /\ x.what # "snapshot" =>
                x.side \in Side /\ x.price \in Price /\ x.qty \in Nat
                /\ Scaled(x.qty) \in Nat /\ Scaled(x.qty) <= MaxQty
           /\ x.what = "level" => x.qty = quotes[x.side][x.price]
           /\ x.what = "trade" => ~fresh
<1>1. x \in KRItem /\ 1 \in DOMAIN socket
    BY SocketHead
<1>2. /\ x.what \in {"snapshot", "level", "trade"}
      /\ x.what # "snapshot" => x.side \in Side /\ x.price \in Price /\ x.qty \in Nat
    BY <1>1 DEF KRItem
<1>3. x.what # "snapshot" => Scaled(x.qty) \in Nat
    BY <1>2, ScaledGrows
<1> QED
    BY <1>1, <1>2, <1>3 DEF SocketOK, ItemsFit

LEMMA KRConvertOutcome ==
    ASSUME SocketOK, KRConvert
    PROVE  ItemOutcome(socket[1].side, socket[1].price, socket[1].qty, socket[1].what)
<1> SUFFICES ASSUME NEW x, x = socket[1]
             PROVE  ItemOutcome(x.side, x.price, x.qty, x.what)
    OBVIOUS
<1>1. socket # << >> /\ rows = << >>
    BY DEF KRConvert, Replayed
<1>2. /\ x.what # "snapshot" =>
            x.side \in Side /\ x.price \in Price /\ x.qty \in Nat
            /\ Scaled(x.qty) \in Nat /\ Scaled(x.qty) <= MaxQty
    BY <1>1, ItemFacts
<1>3. \/ x.what = "snapshot" /\ Reset
      \/ x.what = "level" /\ ConvertLevel(x.side, x.price, x.qty) /\ socket' = Tail(socket)
      \/ x.what = "trade" /\ ConvertTrade(x.side, x.price, x.qty) /\ socket' = Tail(socket)
    BY DEF KRConvert
<1>4. CASE x.what = "snapshot" /\ Reset
    BY <1>1, <1>4 DEF Reset, ItemOutcome, Clears, Unchanging
<1>5. CASE x.what = "level" /\ ConvertLevel(x.side, x.price, x.qty) /\ socket' = Tail(socket)
    BY <1>1, <1>2, <1>5 DEF ConvertLevel, ItemOutcome, Clears, Gives, Unchanging
<1>6. CASE x.what = "trade" /\ ConvertTrade(x.side, x.price, x.qty) /\ socket' = Tail(socket)
    BY <1>2, <1>6 DEF ConvertTrade, ItemOutcome, Unchanging
<1> QED
    BY <1>3, <1>4, <1>5, <1>6

LEMMA OrderIdsAreWhole == \A x \in OrderId : x \in Int
<1> SUFFICES ASSUME NEW x \in OrderId PROVE x \in Int
    OBVIOUS
<1>1. OrderId \subseteq Nat
    BY KrakenAssumption
<1> QED
    BY <1>1

LEMMA NextIdIsFree ==
    ASSUME IdsLeft, SocketOK, socket # << >>
    PROVE  next_id \in OrderId /\ next_id \in Nat \ {0} /\ 0 \in OrderId
<1>1. /\ Items \in Nat /\ KrakenMessages \in Nat /\ n \in Nat /\ n <= KrakenMessages
      /\ Len(socket) \in Nat /\ Len(socket) > 0 /\ next_id \in Nat \ {0}
    BY KrakenAssumption, LevelsOfBothSides, SocketHead DEF IdsLeft
<1>2. PICK d \in Nat : d = KrakenMessages - n
    BY <1>1
<1>3. Items * d \in Nat /\ Items * KrakenMessages \in Nat
    BY <1>1
<1>4. next_id + Len(socket) + Items * d <= 1 + Items * KrakenMessages
    BY <1>2 DEF IdsLeft
<1> DEFINE x == Items * d
           z == Items * KrakenMessages
<1>5. next_id + Len(socket) + x <= 1 + z /\ x \in Nat /\ z \in Nat
    BY <1>3, <1>4
<1> HIDE DEF x, z
<1>6. next_id <= z
    BY <1>1, <1>5
<1> QED
    BY <1>1, <1>5, <1>6, KrakenAssumption DEF z

\* An item uses up one id at most.
LEMMA RoomUsed ==
    ASSUME IdsLeft, SocketOK, socket # << >>, n' = n,
           \/ socket' = socket /\ next_id' = next_id
           \/ socket' = Tail(socket) /\ (next_id' = next_id \/ next_id' = next_id + 1)
    PROVE  IdsLeft'
<1>1. /\ Items \in Nat /\ KrakenMessages \in Nat /\ n \in Nat /\ n <= KrakenMessages
      /\ Len(socket) \in Nat /\ Len(Tail(socket)) = Len(socket) - 1 /\ next_id \in Nat \ {0}
    BY KrakenAssumption, LevelsOfBothSides, SocketHead DEF IdsLeft
<1>2. PICK d \in Nat : d = KrakenMessages - n /\ d = KrakenMessages - n'
    BY <1>1
<1>3. Items * d \in Nat /\ Items * KrakenMessages \in Nat
    BY <1>1
<1> DEFINE x == Items * d
           z == Items * KrakenMessages
<1>4. next_id + Len(socket) + x <= 1 + z /\ x \in Nat /\ z \in Nat
    BY <1>2, <1>3 DEF IdsLeft
<1> HIDE DEF x, z
<1>5. next_id' \in Nat \ {0} /\ next_id' + Len(socket') + x <= 1 + z
    BY <1>1, <1>4
<1> QED
    BY <1>1, <1>2, <1>5 DEF IdsLeft, x, z

LEMMA IdsAfterGives ==
    ASSUME IdsOK, next_id \in OrderId, next_id \in Nat \ {0},
           NEW s \in Side, NEW p \in Price, ids' = [ids EXCEPT ![s][p] = next_id],
           next_id' = next_id + 1
    PROVE  /\ IdsOK' /\ ids'[s][p] = next_id
           /\ \A t \in Side, r \in Price : t # s \/ r # p => ids'[t][r] = ids[t][r]
<1>1. PICK j : j = ids'
    OBVIOUS
<1>2. /\ j \in IdsOfLevels /\ j[s][p] = next_id
      /\ \A t \in Side, r \in Price : t # s \/ r # p => j[t][r] = ids[t][r]
    BY <1>1, LevelSet DEF IdsOK, IdsOfLevels
<1>3. \A t \in Side, r \in Price : ids[t][r] < next_id /\ ids[t][r] \in Int
    <2>1. \A t \in Side, r \in Price : ids[t][r] \in OrderId
        BY DEF IdsOK, IdsOfLevels
    <2> QED
        BY <2>1, KrakenAssumption DEF IdsOK
<1>4. ASSUME NEW t \in Side, NEW r \in Price
      PROVE  /\ j[t][r] < next_id'
             /\ j[t][r] # 0 => \A x \in Side, y \in Price : j[x][y] = j[t][r] => x = t /\ y = r
    <2>1. j[t][r] < next_id'
        <3>1. CASE t = s /\ r = p
            BY <1>2, <3>1
        <3>2. CASE t # s \/ r # p
            BY <1>2, <1>3, <3>2
        <3> QED
            BY <3>1, <3>2
    <2>2. ASSUME j[t][r] # 0, NEW x \in Side, NEW y \in Price, j[x][y] = j[t][r]
          PROVE  x = t /\ y = r
        <3>1. CASE t = s /\ r = p
            BY <1>2, <1>3, <2>2, <3>1
        <3>2. CASE (t # s \/ r # p) /\ x = s /\ y = p
            BY <1>2, <1>3, <2>2, <3>2
        <3>3. CASE (t # s \/ r # p) /\ (x # s \/ y # p)
            BY <1>2, <2>2, <3>3 DEF IdsOK
        <3> QED
            BY <3>1, <3>2, <3>3
    <2> QED
        BY <2>1, <2>2
<1> QED
    BY <1>1, <1>2, <1>4 DEF IdsOK

LEMMA IdsAfterClears ==
    ASSUME IdsOK, 0 \in OrderId, next_id \in Nat \ {0}, NEW s \in Side, NEW p \in Price, Clears(s, p)
    PROVE  /\ IdsOK' /\ ids'[s][p] = 0
           /\ \A t \in Side, r \in Price : t # s \/ r # p => ids'[t][r] = ids[t][r]
<1>1. PICK j : j = ids'
    OBVIOUS
<1>2. /\ j \in IdsOfLevels /\ j[s][p] = 0
      /\ \A t \in Side, r \in Price : t # s \/ r # p => j[t][r] = ids[t][r]
    <2>1. j = [ids EXCEPT ![s][p] = 0]
        BY <1>1 DEF Clears
    <2> QED
        BY <2>1, LevelSet DEF IdsOK, IdsOfLevels
<1>3. next_id' = next_id
    BY DEF Clears
<1>4. ASSUME NEW t \in Side, NEW r \in Price
      PROVE  /\ j[t][r] < next_id
             /\ j[t][r] # 0 => \A x \in Side, y \in Price : j[x][y] = j[t][r] => x = t /\ y = r
    BY <1>2 DEF IdsOK
<1> QED
    BY <1>1, <1>2, <1>3, <1>4 DEF IdsOK

LEMMA ConvertExchangeOK ==
    ASSUME KRExchangeOK, KRConvert
    PROVE  KRExchangeOK'
<1>1. /\ QuotesOK(quotes) /\ SocketOK /\ IdsLeft /\ IdsOK /\ socket # << >>
      /\ n' = n /\ quotes' = quotes /\ subscribed' = subscribed /\ fresh' = fresh
    BY DEF KRExchangeOK, KRConvert
<1>2. PICK x : x = socket[1]
    OBVIOUS
<1>3. ItemOutcome(x.side, x.price, x.qty, x.what)
    BY <1>1, <1>2, KRConvertOutcome
<1>4. x.what # "snapshot" => x.side \in Side /\ x.price \in Price
    BY <1>1, <1>2, ItemFacts
<1>5. next_id \in OrderId /\ next_id \in Nat \ {0} /\ 0 \in OrderId
    BY <1>1, NextIdIsFree
<1>6. \/ socket' = socket /\ next_id' = next_id
      \/ socket' = Tail(socket) /\ (next_id' = next_id \/ next_id' = next_id + 1)
    BY <1>3 DEF ItemOutcome, Clears, Gives
<1>7. IdsLeft'
    BY <1>1, <1>6, RoomUsed
<1>8. SocketOK'
    <2>1. socket' = socket => SocketOK'
        BY <1>1 DEF SocketOK, ItemsFit
    <2> QED
        BY <1>1, <1>6, <2>1, ItemTaken
<1>9. IdsOK'
    <2>1. ASSUME NEW s \in Side, NEW p \in Price, Clears(s, p) PROVE IdsOK'
        BY <1>1, <1>5, <2>1, IdsAfterClears
    <2>2. ASSUME NEW s \in Side, NEW p \in Price, NEW q, Gives(s, p, q) PROVE IdsOK'
        BY <1>1, <1>5, <2>2, IdsAfterGives DEF Gives
    <2>3. ASSUME ids' = ids, next_id' = next_id \/ next_id' = next_id + 1 PROVE IdsOK'
        <3>1. \A s \in Side, p \in Price : ids[s][p] \in Int
            <4>1. \A s \in Side, p \in Price : ids[s][p] \in OrderId
                BY <1>1 DEF IdsOK, IdsOfLevels
            <4>2. \A o \in OrderId : o \in Int
                BY OrderIdsAreWhole
            <4> QED
                BY <4>1, <4>2
        <3>2. \A s \in Side, p \in Price : ids[s][p] < next_id'
            BY <1>1, <1>5, <2>3, <3>1 DEF IdsOK
        <3> QED
            BY <1>1, <2>3, <3>2 DEF IdsOK
    <2> QED
        BY <1>3, <1>4, <2>1, <2>2, <2>3 DEF ItemOutcome, Unchanging
<1>10. QuotesOK(quotes)'
    BY <1>1 DEF QuotesOK, Uncrossed
<1> QED
    BY <1>7, <1>8, <1>9, <1>10 DEF KRExchangeOK

\* Rows of a level.
LEMMA ClearsRows ==
    ASSUME IdsOK, 0 \in OrderId, NEW s \in Side, NEW p \in Price, Clears(s, p)
    PROVE  /\ ids[s][p] = 0 => rows' = << >> /\ ids' = ids
           /\ ids[s][p] # 0 => rows' = <<Row("Cancel", s, p, 0, ids[s][p])>>
           /\ ids[s][p] \in OrderId
           /\ ids[s][p] # 0 => Row("Cancel", s, p, 0, ids[s][p]) \in TapeRow
<1>1. ids \in [Side -> [Price -> OrderId]] /\ ids[s][p] \in OrderId
    BY DEF IdsOK, IdsOfLevels
<1>2. ids[s][p] = 0 => [ids EXCEPT ![s][p] = 0] = ids
    BY <1>1
<1>3. Row("Cancel", s, p, 0, ids[s][p]) \in TapeRow
    <2>1. 0 \in Quantity
        BY MaxQtyAssumption DEF Quantity
    <2> QED
        BY <1>1, <2>1 DEF Row, TapeRow
<1> QED
    BY <1>1, <1>2, <1>3 DEF Clears, CancelRows

LEMMA GivesRows ==
    ASSUME IdsOK, 0 \in OrderId, next_id \in OrderId, NEW s \in Side, NEW p \in Price,
           NEW q \in 1 .. MaxQty, Gives(s, p, q)
    PROVE  /\ Row("Add", s, p, q, next_id) \in TapeRow
           /\ Row("Cancel", s, p, 0, ids[s][p]) \in TapeRow
           /\ ids[s][p] = 0 => rows' = <<Row("Add", s, p, q, next_id)>>
           /\ ids[s][p] # 0 => rows' = <<Row("Cancel", s, p, 0, ids[s][p])>>
                                         \o <<Row("Add", s, p, q, next_id)>>
<1>1. ids[s][p] \in OrderId /\ 0 \in Quantity /\ q \in Quantity
    BY MaxQtyAssumption DEF IdsOK, IdsOfLevels, Quantity
<1>2. /\ Row("Add", s, p, q, next_id) \in TapeRow
      /\ Row("Cancel", s, p, 0, ids[s][p]) \in TapeRow
    BY <1>1 DEF Row, TapeRow
<1>3. ids[s][p] = 0 => rows' = <<Row("Add", s, p, q, next_id)>>
    <2>1. ids[s][p] = 0 => rows' = << >> \o <<Row("Add", s, p, q, next_id)>>
        BY DEF Gives, CancelRows
    <2> QED
        BY <1>2, <2>1, NothingBefore
<1> QED
    BY <1>2, <1>3 DEF Gives, CancelRows

LEMMA ConvertKRTracking ==
    ASSUME KRInv, KRConvert
    PROVE  KRTracking'
<1>1. /\ QuotesOK(quotes) /\ SocketOK /\ IdsLeft /\ IdsOK /\ socket # << >>
      /\ quotes' = quotes /\ subscribed' = subscribed /\ fresh' = fresh /\ Replayed
      /\ UNCHANGED engineVars /\ IInv
    BY DEF KRInv, KRTracking, KRExchangeOK, KRConvert
<1>2. PICK x : x = socket[1]
    OBVIOUS
<1>3. ItemOutcome(x.side, x.price, x.qty, x.what)
    BY <1>1, <1>2, KRConvertOutcome
<1>4. /\ x.what # "snapshot" => /\ x.side \in Side /\ x.price \in Price /\ x.qty \in Nat
                                /\ Scaled(x.qty) \in Nat /\ Scaled(x.qty) <= MaxQty
      /\ x.what = "level" => x.qty = quotes[x.side][x.price]
    BY <1>1, <1>2, ItemFacts
<1>5. next_id \in OrderId /\ next_id \in Nat \ {0} /\ 0 \in OrderId
    BY <1>1, NextIdIsFree
<1>6. subscribed
    BY <1>1 DEF SocketOK
<1>7. PICK c \in Levels0 : Tracks(ids, c) /\ Capped(c)
    BY <1>6 DEF KRInv, KRTracking
<1>8. PICK i, j : i = ids /\ j = ids'
    OBVIOUS
\* It is enough to own what the new ids name, at no more than the caps.
<1>9. ASSUME NEW d \in Levels0, rows' \in Seq(TapeRow),
             \A s \in Side, p \in Price :
               \/ i[s][p] = 0
               \/ j[s][p] = i[s][p] /\ d[s][p] = c[s][p]
               \/ rows' # << >> /\ rows'[1].type = "Cancel" /\ rows'[1].id = i[s][p],
             \A k \in DOMAIN rows' :
               /\ rows'[k].type = "Add" =>
                    Owns(j, d, rows'[k].id, rows'[k].side, rows'[k].price, rows'[k].qty)
               /\ rows'[k].type = "Cancel" => k = 1,
             Capped(d)'
      PROVE  KRTracking'
    <2>1. Tracks(i, c)
        BY <1>7, <1>8
    <2>2. IInv' /\ Tracks(j, d)'
        BY <1>1, <1>9, <2>1, Retracks
    <2>3. Tracks(ids, d)'
        BY <1>8, <2>2
    <2>4. Levels0' = Levels0
        BY DEF Levels0
    <2> QED
        BY <1>9, <2>2, <2>3, <2>4 DEF KRTracking
\* Nothing is written and nothing tracked.
<1>10. ASSUME Unchanging, Capped(c)' PROVE KRTracking'
    <2>1. rows' \in Seq(TapeRow) /\ DOMAIN rows' = {} /\ j = i
        BY <1>8, <1>10 DEF Unchanging
    <2> QED
        BY <1>7, <1>9, <1>10, <2>1
\* An order is withdrawn.
<1>11. ASSUME NEW s \in Side, NEW p \in Price, Clears(s, p), Capped(c)' PROVE KRTracking'
    <2>1. /\ j[s][p] = 0 /\ \A t \in Side, r \in Price : t # s \/ r # p => j[t][r] = i[t][r]
        BY <1>1, <1>5, <1>8, <1>11, IdsAfterClears
    <2>2. CASE i[s][p] = 0
        BY <1>1, <1>5, <1>8, <1>10, <1>11, <2>2, ClearsRows DEF Unchanging
    <2>3. CASE i[s][p] # 0
        <3> DEFINE a == Row("Cancel", s, p, 0, i[s][p])
        <3>1. rows' = <<a>> /\ a \in TapeRow
            BY <1>1, <1>5, <1>8, <1>11, <2>3, ClearsRows
        <3>2. a.type = "Cancel" /\ a.id = i[s][p]
            BY DEF Row
        <3> HIDE DEF a
        <3>3. rows' \in Seq(TapeRow) /\ rows' # << >> /\ DOMAIN rows' = {1} /\ rows'[1] = a
            BY <3>1, OneRow
        <3> QED
            BY <1>7, <1>9, <1>11, <2>1, <3>2, <3>3
    <2> QED
        BY <2>2, <2>3
<1>12. CASE /\ x.what = "snapshot" /\ socket' = socket
            /\ \E t \in Side, r \in Price : Clears(t, r)
    <2>1. Resetting' /\ Capped(c)'
        BY <1>1, <1>2, <1>7, <1>12 DEF Resetting, Capped
    <2> QED
        BY <1>11, <1>12, <2>1
<1>13. CASE /\ x.what = "snapshot" /\ socket' = Tail(socket)
            /\ (\A t \in Side : NothingKnown(t)) /\ Unchanging
    <2>1. \A s \in Side, p \in Price : ids'[s][p] = 0
        BY <1>13 DEF NothingKnown, Unchanging
    <2>2. /\ ~Resetting' /\ Resetting
          /\ \A s, p : LevelIn(socket, s, p) => LevelIn(socket', s, p)
        BY <1>1, <1>2, <1>13, ItemTaken DEF Resetting
    <2>3. Capped(c)'
        <3>1. \A s \in Side, p \in Price : ~LevelIn(socket', s, p) => quotes[s][p] = 0
            BY <1>7, <2>2 DEF Capped
        <3> QED
            BY <1>1, <2>1, <2>2, <3>1, ScaledNothing DEF Capped
    <2> QED
        BY <1>10, <1>13, <2>3
\* A level or a trade was at the head.
<1>14. ASSUME x.what # "snapshot", socket' = Tail(socket)
       PROVE  /\ ~Resetting /\ ~Resetting'
              /\ \A s \in Side, p \in Price : ~LevelIn(socket', s, p) =>
                   \/ x.what = "level" /\ s = x.side /\ p = x.price
                   \/ /\ quotes'[s][p] = 0 => ids[s][p] = 0
                      /\ Scaled(quotes'[s][p]) > 0 => c[s][p] <= Scaled(quotes'[s][p])
    <2>1. ~Resetting /\ ~Resetting'
        BY <1>1, <1>2, <1>14, ItemTaken DEF Resetting
    <2>2. \A s, p : LevelIn(socket, s, p) =>
            LevelIn(socket', s, p) \/ (x.what = "level" /\ x.side = s /\ x.price = p)
        BY <1>1, <1>2, <1>14, ItemTaken
    <2> QED
        BY <1>1, <1>7, <2>1, <2>2 DEF Capped
<1>15. CASE x.what = "level" /\ socket' = Tail(socket) /\ x.qty = 0 /\ Clears(x.side, x.price)
    <2>1. PICK s \in Side, p \in Price : s = x.side /\ p = x.price
        BY <1>4, <1>15
    <2>2. /\ ids'[s][p] = 0
          /\ \A t \in Side, r \in Price : t # s \/ r # p => ids'[t][r] = ids[t][r]
        BY <1>1, <1>5, <1>15, <2>1, IdsAfterClears
    <2>3. quotes'[s][p] = 0
        BY <1>1, <1>4, <1>15, <2>1
    <2>4. Capped(c)'
        BY <1>14, <1>15, <2>1, <2>2, <2>3, ScaledNothing DEF Capped
    <2> QED
        BY <1>11, <1>15, <2>1, <2>4
<1>16. CASE /\ x.what = "level" /\ socket' = Tail(socket) /\ x.qty > 0 /\ Scaled(x.qty) = 0
            /\ Unchanging
    <2>1. Capped(c)'
        BY <1>1, <1>4, <1>14, <1>16 DEF Capped, Unchanging
    <2> QED
        BY <1>10, <1>16, <2>1
<1>17. CASE /\ x.what = "level" /\ socket' = Tail(socket) /\ Scaled(x.qty) > 0
            /\ Gives(x.side, x.price, Scaled(x.qty))
    <2>1. PICK s \in Side, p \in Price, q \in 1 .. MaxQty :
            s = x.side /\ p = x.price /\ q = Scaled(x.qty) /\ q = Scaled(quotes[s][p])
        BY <1>4, <1>17, MaxQtyAssumption
    <2>2. /\ j[s][p] = next_id
          /\ \A t \in Side, r \in Price : t # s \/ r # p => j[t][r] = i[t][r]
        <3>1. ids' = [ids EXCEPT ![s][p] = next_id] /\ next_id' = next_id + 1
            BY <1>17, <2>1 DEF Gives
        <3>2. /\ ids'[s][p] = next_id
              /\ \A t \in Side, r \in Price : t # s \/ r # p => ids'[t][r] = ids[t][r]
            BY <1>1, <1>5, <3>1, IdsAfterGives
        <3> QED
            BY <1>8, <3>2
    <2>3. PICK d \in Levels0 :
            /\ d[s][p] = q /\ \A t \in Side, r \in Price : t # s \/ r # p => d[t][r] = c[t][r]
        <3>1. q \in Nat /\ c \in [Side -> [Price -> Nat]]
            BY <2>1, MaxQtyAssumption DEF Levels0
        <3>2. PICK d : d = [c EXCEPT ![s][p] = q]
            OBVIOUS
        <3>3. /\ d \in [Side -> [Price -> Nat]] /\ d[s][p] = q
              /\ \A t \in Side, r \in Price : t # s \/ r # p => d[t][r] = c[t][r]
            BY <3>1, <3>2, LevelSet
        <3> QED
            BY <3>3 DEF Levels0
    <2>4. Capped(d)'
        <3>1. ASSUME NEW t \in Side, NEW r \in Price, ~LevelIn(socket', t, r)
              PROVE  /\ quotes'[t][r] = 0 => ids'[t][r] = 0
                     /\ Scaled(quotes'[t][r]) > 0 => d[t][r] <= Scaled(quotes'[t][r])
            <4>1. CASE t = s /\ r = p
                <5>1. quotes'[t][r] # 0 /\ Scaled(quotes'[t][r]) = q /\ q \in Int
                    BY <1>1, <1>17, <2>1, <4>1, ScaledNothing
                <5> QED
                    BY <2>3, <4>1, <5>1
            <4>2. CASE t # s \/ r # p
                <5>1. j[t][r] = i[t][r] /\ d[t][r] = c[t][r]
                    BY <2>2, <2>3, <4>2
                <5> QED
                    BY <1>8, <1>14, <1>17, <2>1, <3>1, <4>2, <5>1
            <4> QED
                BY <4>1, <4>2
        <3> QED
            BY <1>14, <1>17, <3>1 DEF Capped
    <2> DEFINE a == Row("Add", s, p, q, next_id)
               b == Row("Cancel", s, p, 0, i[s][p])
    <2>5. /\ a \in TapeRow /\ b \in TapeRow
          /\ i[s][p] = 0 => rows' = <<a>>
          /\ i[s][p] # 0 => rows' = <<b>> \o <<a>>
        BY <1>1, <1>5, <1>8, <1>17, <2>1, GivesRows
    <2>6. /\ a.type = "Add" /\ a.side = s /\ a.price = p /\ a.qty = q /\ a.id = next_id
          /\ b.type = "Cancel" /\ b.id = i[s][p]
        BY DEF Row
    <2> HIDE DEF a, b
    <2>7. Owns(j, d, a.id, a.side, a.price, a.qty)
        BY <1>5, <2>1, <2>2, <2>3, <2>6 DEF Owns
    <2>8. CASE i[s][p] = 0
        <3>1. rows' \in Seq(TapeRow) /\ DOMAIN rows' = {1} /\ rows'[1] = a
            BY <2>5, <2>8, OneRow
        <3> QED
            BY <1>9, <2>2, <2>3, <2>4, <2>6, <2>7, <2>8, <3>1
    <2>9. CASE i[s][p] # 0
        <3>1. rows' \in Seq(TapeRow) /\ rows' # << >> /\ DOMAIN rows' = {1, 2} /\ rows'[1] = b
              /\ rows'[2] = a
            <4>1. b \in TapeRow /\ a \in TapeRow
                BY <2>5
            <4>2. rows' = <<b>> \o <<a>>
                BY <2>5, <2>9
            <4>3. rows' = <<b, a>>
                BY <4>1, <4>2, TwoRows
            <4> QED
                BY <4>1, <4>3
        <3> QED
            BY <1>9, <2>2, <2>3, <2>4, <2>6, <2>7, <2>9, <3>1
    <2> QED
        BY <2>8, <2>9
<1>18. ASSUME x.what = "trade", socket' = Tail(socket), ids' = ids PROVE Capped(c)'
    BY <1>14, <1>18 DEF Capped
<1>19. CASE x.what = "trade" /\ socket' = Tail(socket) /\ Unchanging
    BY <1>10, <1>18, <1>19 DEF Unchanging
<1>20. CASE /\ x.what = "trade" /\ socket' = Tail(socket) /\ Scaled(x.qty) > 0
            /\ rows' = <<Row("Trade", x.side, x.price, Scaled(x.qty), 0)>> /\ ids' = ids
    <2> DEFINE a == Row("Trade", x.side, x.price, Scaled(x.qty), 0)
    <2>1. a \in TapeRow /\ a.type = "Trade"
        <3>1. Scaled(x.qty) \in Quantity
            BY <1>4, <1>20, MaxQtyAssumption DEF Quantity
        <3> QED
            BY <1>4, <1>5, <1>20, <3>1 DEF Row, TapeRow
    <2>2. rows' = <<a>> /\ j = i
        BY <1>8, <1>20
    <2> HIDE DEF a
    <2>3. rows' \in Seq(TapeRow) /\ DOMAIN rows' = {1} /\ rows'[1] = a
        BY <2>1, <2>2, OneRow
    <2> QED
        BY <1>7, <1>9, <1>18, <1>20, <2>1, <2>2, <2>3
<1> QED
    BY <1>3, <1>12, <1>13, <1>15, <1>16, <1>17, <1>19, <1>20 DEF ItemOutcome

LEMMA ResyncedType ==
    ASSUME QuotesOK(quotes)
    PROVE  /\ Resynced \in LevelSizes
           /\ \A s \in Side, p \in Price :
                /\ Resynced[s][p] = IF ids[s][p] = 0 THEN 0 ELSE Scaled(quotes[s][p])
                /\ Scaled(quotes[s][p]) \in 0 .. MaxQty /\ quotes[s][p] \in Nat
<1>1. ASSUME NEW s \in Side, NEW p \in Price
      PROVE  Scaled(quotes[s][p]) \in 0 .. MaxQty /\ quotes[s][p] \in Nat
    <2>1. quotes[s][p] \in Nat /\ Scaled(quotes[s][p]) <= MaxQty
        BY DEF QuotesOK, Levels0
    <2>2. Scaled(quotes[s][p]) \in Nat
        BY <2>1, ScaledGrows
    <2> QED
        BY <2>1, <2>2, MaxQtyAssumption
<1>2. 0 \in 0 .. MaxQty
    BY MaxQtyAssumption
<1> QED
    BY <1>1, <1>2 DEF Resynced, LevelSizes

\* A level is given its order.
LEMMA LevelResynced ==
    ASSUME QuotesOK(quotes), IdsOK, 0 \in OrderId, next_id \in OrderId, next_id \in Nat \ {0},
           \A s \in Side, p \in Price : ids[s][p] # 0 => Scaled(quotes[s][p]) > 0,
           NEW s \in Side, NEW p \in Price, NEW q \in 1 .. MaxQty, q = Scaled(quotes[s][p]),
           Gives(s, p, q), quotes' = quotes
    PROVE  Leads(LevelView(ids, Resynced), rows', LevelView(ids, Resynced)')
<1>1. PICK i, j, z, y : i = ids /\ j = ids' /\ z = Resynced /\ y = Resynced'
    OBVIOUS
<1>2. /\ IdsOK' /\ j[s][p] = next_id
      /\ \A t \in Side, r \in Price : t # s \/ r # p => j[t][r] = i[t][r]
    <2>1. ids' = [ids EXCEPT ![s][p] = next_id] /\ next_id' = next_id + 1
        BY DEF Gives
    <2>2. /\ IdsOK' /\ ids'[s][p] = next_id
          /\ \A t \in Side, r \in Price : t # s \/ r # p => ids'[t][r] = ids[t][r]
        BY <2>1, IdsAfterGives
    <2> QED
        BY <1>1, <2>2
<1>3. /\ z \in LevelSizes
      /\ \A t \in Side, r \in Price :
           z[t][r] = IF i[t][r] = 0 THEN 0 ELSE Scaled(quotes[t][r])
    BY <1>1, ResyncedType
<1>4. /\ y \in LevelSizes
      /\ \A t \in Side, r \in Price :
           y[t][r] = IF j[t][r] = 0 THEN 0 ELSE Scaled(quotes[t][r])
    <2>1. /\ y = [t \in Side |-> [r \in Price |-> IF j[t][r] = 0 THEN 0 ELSE Scaled(quotes[t][r])]]
        BY <1>1 DEF Resynced
    <2>2. \A t \in Side, r \in Price : Scaled(quotes[t][r]) \in 0 .. MaxQty /\ 0 \in 0 .. MaxQty
        BY ResyncedType, MaxQtyAssumption
    <2> QED
        BY <2>1, <2>2 DEF LevelSizes
<1>5. i \in IdsOfLevels /\ j \in IdsOfLevels /\ i[s][p] \in OrderId
    BY <1>1, <1>2 DEF IdsOK, IdsOfLevels
<1>6. y[s][p] = q /\ y[s][p] # 0
    BY <1>2, <1>4
<1>7. Elsewhere(i, z, j, y, s, p)
    BY <1>2, <1>3, <1>4 DEF Elsewhere
<1>8. Alone(i, z, s, p, i[s][p]) \/ i[s][p] = 0
    BY <1>1 DEF IdsOK, Alone
<1>9. Alone(i, z, s, p, next_id)
    <2>1. \A t \in Side, r \in Price : i[t][r] < next_id /\ i[t][r] \in Int
        <3>1. \A x \in OrderId : x \in Int
            BY OrderIdsAreWhole
        <3>2. \A t \in Side, r \in Price : i[t][r] \in OrderId
            BY <1>5 DEF IdsOfLevels
        <3> QED
            BY <1>1, <3>1, <3>2 DEF IdsOK
    <2>2. \A t \in Side, r \in Price : i[t][r] # next_id
        BY <2>1
    <2> QED
        BY <2>2 DEF Alone
<1>10. \A r \in Price : z[Opposite(s)][r] # 0 => Better(Opposite(s), p, r)
    <2> SUFFICES ASSUME NEW r \in Price, z[Opposite(s)][r] # 0
                 PROVE  Better(Opposite(s), p, r)
        OBVIOUS
    <2>1. Opposite(s) \in Side
        BY DEF Opposite, Side
    <2>2. quotes[Opposite(s)][r] \in Nat /\ quotes[Opposite(s)][r] # 0
          /\ quotes[s][p] \in Nat /\ quotes[s][p] # 0
        <3>1. Scaled(quotes[Opposite(s)][r]) # 0 /\ Scaled(quotes[s][p]) # 0
            BY <1>3, <2>1
        <3> QED
            BY <2>1, <3>1, ResyncedType, ScaledNothing
    <2>3. p \in Int /\ r \in Int
        BY PriceAssumption
    <2>4. CASE s = "Buy"
        <3>1. p < r
            BY <2>2, <2>4 DEF QuotesOK, Uncrossed, Opposite
        <3> QED
            BY <2>4, <3>1 DEF Better, Opposite
    <2>5. CASE s = "Sell"
        <3>1. r < p
            BY <2>2, <2>5 DEF QuotesOK, Uncrossed, Opposite
        <3> QED
            BY <2>3, <2>5, <3>1 DEF Better, Opposite
    <2> QED
        BY <2>4, <2>5 DEF Side
<1>11. Leads(LevelView(i, z), rows', LevelView(j, y))
    <2>1. CASE i[s][p] = 0
        <3>1. z[s][p] = 0
            BY <1>3, <2>1
        <3>2. RowLeads(LevelView(i, z), Row("Add", s, p, y[s][p], j[s][p]), LevelView(j, y))
            BY <1>2, <1>3, <1>4, <1>5, <1>6, <1>7, <1>9, <1>10, <3>1, LevelAdded
        <3>3. rows' = <<Row("Add", s, p, y[s][p], j[s][p])>>
            BY <1>1, <1>2, <1>6, <2>1, GivesRows
        <3> QED
            BY <3>2, <3>3, RowAlone
    <2>2. CASE i[s][p] # 0
        <3>1. rows' = <<Row("Cancel", s, p, 0, i[s][p])>> \o <<Row("Add", s, p, y[s][p], j[s][p])>>
            BY <1>1, <1>2, <1>6, <2>2, GivesRows
        <3>2. Alone(i, z, s, p, i[s][p]) /\ Alone(i, z, s, p, j[s][p])
            BY <1>2, <1>8, <1>9, <2>2
        <3>3. Leads(LevelView(i, z),
                    <<Row("Cancel", s, p, 0, i[s][p])>> \o <<Row("Add", s, p, y[s][p], j[s][p])>>,
                    LevelView(j, y))
            BY <1>3, <1>4, <1>5, <1>6, <1>7, <1>10, <3>2, LevelReplaced
        <3> QED
            BY <3>1, <3>3
    <2> QED
        BY <2>1, <2>2
<1> QED
    BY <1>1, <1>11

LEMMA ConvertResyncing ==
    ASSUME KRInv, KRConvert
    PROVE  Resyncing'
<1>1. /\ QuotesOK(quotes) /\ SocketOK /\ IdsLeft /\ IdsOK /\ socket # << >>
      /\ quotes' = quotes /\ subscribed' = subscribed /\ fresh' = fresh /\ Replayed
      /\ UNCHANGED engineVars /\ IInv /\ rows = << >> /\ phase = "idle"
      /\ book' = book /\ phase' = phase /\ in' = in
    BY DEF KRInv, KRTracking, KRExchangeOK, KRConvert, Replayed, engineVars
<1>2. PICK x : x = socket[1]
    OBVIOUS
<1>3. ItemOutcome(x.side, x.price, x.qty, x.what)
    BY <1>1, <1>2, KRConvertOutcome
<1>4. /\ x.what # "snapshot" => /\ x.side \in Side /\ x.price \in Price /\ x.qty \in Nat
                                /\ Scaled(x.qty) \in Nat /\ Scaled(x.qty) <= MaxQty
      /\ x.what = "level" => x.qty = quotes[x.side][x.price]
      /\ x.what = "trade" => ~fresh
    BY <1>1, <1>2, ItemFacts
<1>5. next_id \in OrderId /\ next_id \in Nat \ {0} /\ 0 \in OrderId
    BY <1>1, NextIdIsFree
<1> SUFFICES ASSUME fresh, subscribed, ~Resetting' PROVE Resyncing'
    BY <1>1 DEF Resyncing
<1>6. ids \in IdsOfLevels /\ KRExchangeOK' /\ IdsOK' /\ ids' \in IdsOfLevels
    BY ConvertExchangeOK DEF KRInv, KRExchangeOK, IdsOK
<1>7. \A s \in Side, p \in Price : Scaled(quotes[s][p]) \in Nat
    BY <1>1, ResyncedType
<1>8. ASSUME NEW v \in View, Mirrors(book, v), Leads(v, rows', LevelView(ids, Resynced)'),
             \A s \in Side, p \in Price :
               /\ ids'[s][p] # 0 => Scaled(quotes[s][p]) > 0
               /\ ~LevelIn(socket', s, p) /\ Scaled(quotes[s][p]) > 0 => ids'[s][p] # 0
      PROVE  Resyncing'
    <2>1. InProgress(v)'
        BY <1>1, <1>8 DEF InProgress
    <2>2. \E u \in View : InProgress(u)' /\ Leads(u, rows', LevelView(ids, Resynced)')
        BY <1>8, <2>1
    <2>3. View' = View
        BY DEF View, Shown
    <2>4. \A s \in Side, p \in Price :
             /\ ids'[s][p] # 0 => Scaled(quotes'[s][p]) > 0
             /\ ~LevelIn(socket', s, p) /\ Scaled(quotes'[s][p]) > 0 => ids'[s][p] # 0
        BY <1>1, <1>8
    <2> QED
        BY <2>2, <2>3, <2>4 DEF Resyncing
<1>9. CASE /\ x.what = "snapshot" /\ socket' = Tail(socket)
           /\ (\A t \in Side : NothingKnown(t)) /\ Unchanging
    <2>1. \A s \in Side, p \in Price : ids[s][p] = 0 /\ ids'[s][p] = 0
        BY <1>9 DEF NothingKnown, Unchanging
    <2>2. PICK z : z = Resynced'
        OBVIOUS
    <2>3. \A s \in Side, p \in Price : z[s][p] = 0
        BY <2>1, <2>2 DEF Resynced
    <2>4. \A s \in Side, p \in Price : QueueAt(book, s, p) = << >>
        <3>1. PICK c \in Levels0 : Tracks(ids, c) /\ Capped(c)
            BY DEF KRInv, KRTracking
        <3> QED
            BY <1>1, <2>1, <3>1, TrackedLevels
    <2>5. PICK i : i = ids'
        OBVIOUS
    <2>6. Mirrors(book, LevelView(i, z))
        BY <2>3, <2>4, NothingShown
    <2>7. LevelView(i, z) \in View
        <3>1. z \in LevelSizes
            <4>1. QuotesOK(quotes)'
                BY <1>6 DEF KRExchangeOK
            <4>2. \A s \in Side, p \in Price : z[s][p] \in 0 .. MaxQty
                BY <2>3, MaxQtyAssumption
            <4> QED
                BY <2>2, <4>2 DEF Resynced, LevelSizes
        <3> QED
            BY <1>6, <2>5, <3>1, LevelViewType
    <2>8. \A s \in Side, p \in Price : ~LevelIn(socket', s, p) => Scaled(quotes[s][p]) = 0
        <3>1. PICK c \in Levels0 : Capped(c)
            BY DEF KRInv, KRTracking
        <3>2. Resetting /\ \A s, p : LevelIn(socket, s, p) => LevelIn(socket', s, p)
            BY <1>1, <1>2, <1>9, ItemTaken DEF Resetting
        <3>3. \A s \in Side, p \in Price : ~LevelIn(socket', s, p) => quotes[s][p] = 0
            BY <3>1, <3>2 DEF Capped
        <3> QED
            BY <3>3, ScaledNothing
    <2>9. Leads(LevelView(i, z), rows', LevelView(i, z))
        BY <1>9 DEF Leads, Unchanging
    <2>10. Leads(LevelView(i, z), rows', LevelView(ids, Resynced)')
        BY <2>2, <2>5, <2>9
    <2> QED
        BY <1>8, <2>1, <2>6, <2>7, <2>8, <2>10
<1>10. CASE x.what = "snapshot" /\ socket' = socket
    BY <1>1, <1>2, <1>10 DEF Resetting
<1>11. CASE x.what = "level" /\ socket' = Tail(socket)
    <2>1. PICK s \in Side, p \in Price : s = x.side /\ p = x.price
        BY <1>4, <1>11
    <2>2. ~Resetting
        BY <1>1, <1>2, <1>11 DEF Resetting
    <2>3. /\ \A t \in Side, r \in Price :
               /\ ids[t][r] # 0 => Scaled(quotes[t][r]) > 0
               /\ ~LevelIn(socket, t, r) /\ Scaled(quotes[t][r]) > 0 => ids[t][r] # 0
          /\ \E u \in View : InProgress(u) /\ Leads(u, rows, LevelView(ids, Resynced))
        BY <2>2 DEF KRInv, Resyncing
    <2>4. PICK v \in View : v = LevelView(ids, Resynced) /\ Mirrors(book, v)
        <3>1. PICK u \in View : InProgress(u) /\ Leads(u, rows, LevelView(ids, Resynced))
            BY <2>3
        <3>2. u = LevelView(ids, Resynced) /\ Mirrors(book, u)
            BY <1>1, <3>1, IdleProgress DEF Leads
        <3> QED
            BY <3>2
    <2>5. \A t \in Side, r \in Price : LevelIn(socket, t, r) =>
            LevelIn(socket', t, r) \/ (t = s /\ r = p)
        BY <1>1, <1>2, <1>11, <2>1, ItemTaken
    <2>6. ASSUME Unchanging, Scaled(quotes[s][p]) = 0 PROVE Resyncing'
        <3>1. rows' = << >> /\ ids' = ids /\ Resynced' = Resynced
            BY <1>1, <2>6 DEF Unchanging, Resynced
        <3>2. Leads(v, rows', LevelView(ids, Resynced)')
            BY <2>4, <3>1 DEF Leads
        <3>3. \A t \in Side, r \in Price :
                /\ ids'[t][r] # 0 => Scaled(quotes[t][r]) > 0
                /\ ~LevelIn(socket', t, r) /\ Scaled(quotes[t][r]) > 0 => ids'[t][r] # 0
            BY <1>7, <2>3, <2>5, <2>6, <3>1
        <3> QED
            BY <1>8, <2>4, <3>2, <3>3
    <2>7. CASE x.qty = 0 /\ Clears(x.side, x.price)
        <3>1. Scaled(quotes[s][p]) = 0
            BY <1>4, <1>11, <2>1, <2>7, ScaledNothing
        <3>2. ids[s][p] = 0
            BY <2>3, <3>1
        <3>3. Unchanging
            BY <1>1, <1>5, <2>1, <2>7, <3>2, ClearsRows DEF Unchanging
        <3> QED
            BY <2>6, <3>1, <3>3
    <2>8. CASE Scaled(x.qty) = 0 /\ Unchanging
        BY <1>4, <1>11, <2>1, <2>6, <2>8
    <2>9. CASE Scaled(x.qty) > 0 /\ Gives(x.side, x.price, Scaled(x.qty))
        <3>1. PICK q \in 1 .. MaxQty :
                q = Scaled(quotes[s][p]) /\ Gives(s, p, q)
            BY <1>4, <1>11, <2>1, <2>9, MaxQtyAssumption
        <3>2. Leads(v, rows', LevelView(ids, Resynced)')
            BY <1>1, <1>5, <2>3, <2>4, <3>1, LevelResynced
        <3>3. /\ ids'[s][p] = next_id
              /\ \A t \in Side, r \in Price : t # s \/ r # p => ids'[t][r] = ids[t][r]
            BY <1>1, <1>5, <3>1, IdsAfterGives DEF Gives
        <3>4. \A t \in Side, r \in Price :
                /\ ids'[t][r] # 0 => Scaled(quotes[t][r]) > 0
                /\ ~LevelIn(socket', t, r) /\ Scaled(quotes[t][r]) > 0 => ids'[t][r] # 0
            <4> SUFFICES ASSUME NEW t \in Side, NEW r \in Price
                         PROVE  /\ ids'[t][r] # 0 => Scaled(quotes[t][r]) > 0
                                /\ ~LevelIn(socket', t, r) /\ Scaled(quotes[t][r]) > 0 =>
                                     ids'[t][r] # 0
                OBVIOUS
            <4>1. CASE t = s /\ r = p
                BY <1>5, <3>1, <3>3, <4>1
            <4>2. CASE t # s \/ r # p
                BY <2>3, <2>5, <3>3, <4>2
            <4> QED
                BY <4>1, <4>2
        <3> QED
            BY <1>8, <2>4, <3>2, <3>4
    <2> QED
        BY <1>3, <1>11, <2>7, <2>8, <2>9 DEF ItemOutcome
<1> QED
    BY <1>3, <1>4, <1>9, <1>10, <1>11 DEF ItemOutcome

LEMMA ReplayKRInv ==
    ASSUME KRInv, KRReplay
    PROVE  KRInv'
<1>1. /\ ReplayStep /\ n' = n /\ quotes' = quotes /\ subscribed' = subscribed
      /\ socket' = socket /\ ids' = ids /\ next_id' = next_id /\ fresh' = fresh
    BY DEF KRReplay
<1>2. KRExchangeOK /\ QuotesOK(quotes) /\ SocketOK /\ IdsLeft /\ IdsOK
      /\ IInv /\ rows \in Seq(TapeRow)
    BY DEF KRInv, KRTracking, KRExchangeOK
<1>3. KRExchangeOK'
    <2>1. QuotesOK(quotes)' /\ IdsLeft' /\ IdsOK'
        BY <1>1, <1>2 DEF QuotesOK, Uncrossed, IdsLeft, IdsOK
    <2>2. SocketOK'
        BY <1>1, <1>2 DEF SocketOK, ItemsFit
    <2> QED
        BY <2>1, <2>2 DEF KRExchangeOK
<1>4. PICK i : i = ids /\ i = ids'
    BY <1>1
<1>5. KRTracking'
    <2>1. PICK c \in Levels0 : Tracks(i, c) /\ (subscribed => Capped(c))
        BY <1>4 DEF KRInv, KRTracking
    <2>2. IInv' /\ rows' \in Seq(TapeRow) /\ Tracks(i, c)'
        BY <1>1, <1>2, <2>1, ReplayTracks
    <2>3. Tracks(ids, c)'
        BY <1>4, <2>2
    <2>4. Capped(c) => Capped(c)'
        BY <1>1 DEF Capped, Resetting
    <2>5. Levels0' = Levels0
        BY DEF Levels0
    <2> QED
        BY <1>1, <2>1, <2>2, <2>3, <2>4, <2>5 DEF KRTracking
<1>6. Resyncing'
    <2> SUFFICES ASSUME fresh, subscribed, ~Resetting
                 PROVE  Resyncing'
        BY <1>1 DEF Resyncing, Resetting
    <2>1. PICK z : z = Resynced /\ z = Resynced'
        BY <1>1 DEF Resynced
    <2>2. /\ \A s \in Side, p \in Price :
               /\ ids[s][p] # 0 => Scaled(quotes[s][p]) > 0
               /\ ~LevelIn(socket, s, p) /\ Scaled(quotes[s][p]) > 0 => ids[s][p] # 0
          /\ \E u \in View : InProgress(u) /\ Leads(u, rows, LevelView(i, z))
        BY <1>4, <2>1 DEF KRInv, Resyncing
    <2>3. PICK v \in View : v = LevelView(i, z)
        <3>1. i \in IdsOfLevels /\ z \in LevelSizes
            BY <1>2, <1>4, <2>1, ResyncedType DEF IdsOK
        <3> QED
            BY <3>1, LevelViewType
    <2>4. PICK u \in View : InProgress(u) /\ Leads(u, rows, v)
        BY <2>2, <2>3
    <2>5. \E x \in View : InProgress(x)' /\ Leads(x, rows', v)
        BY <1>1, <1>2, <2>4, ReplayLeads
    <2>6. \E x \in View : InProgress(x)' /\ Leads(x, rows', LevelView(ids, Resynced)')
        BY <1>4, <2>1, <2>3, <2>5
    <2>7. View' = View
        BY DEF View, Shown
    <2> QED
        BY <1>1, <2>2, <2>6, <2>7 DEF Resyncing
<1> QED
    BY <1>3, <1>5, <1>6 DEF KRInv

LEMMA StepKRInv == KRInv /\ [KRNext]_krVars => KRInv'
<1> SUFFICES ASSUME KRInv, [KRNext]_krVars PROVE KRInv'
    OBVIOUS
<1>1. CASE UNCHANGED krVars
    <2>1. /\ UNCHANGED <<engineVars, rows>> /\ n' = n /\ quotes' = quotes
          /\ subscribed' = subscribed /\ socket' = socket /\ ids' = ids /\ next_id' = next_id
          /\ fresh' = fresh /\ rows' = rows /\ book' = book /\ phase' = phase /\ in' = in
        BY <1>1 DEF krVars, engineVars
    <2>2. QuotesOK(quotes) /\ SocketOK /\ IdsLeft /\ IdsOK
        BY DEF KRInv, KRExchangeOK
    <2>3. QuotesOK(quotes)' /\ IdsLeft' /\ IdsOK'
        BY <2>1, <2>2 DEF QuotesOK, Uncrossed, IdsLeft, IdsOK
    <2>4. SocketOK'
        BY <2>1, <2>2 DEF SocketOK, ItemsFit
    <2>5. KRTracking'
        <3>1. \A c : Capped(c) => Capped(c)'
            BY <2>1 DEF Capped, Resetting
        <3> QED
            BY <2>1, <3>1, KRTrackingKept DEF KRInv
    <2>6. Resyncing'
        <3>1. \A u : InProgress(u) => InProgress(u)'
            BY <2>1 DEF InProgress, Matching, Opp
        <3>2. LevelView(ids, Resynced)' = LevelView(ids, Resynced)
            BY <2>1 DEF LevelView, Resynced
        <3>3. View' = View /\ (Resetting' <=> Resetting)
            BY <2>1 DEF View, Shown, Resetting
        <3>4. Resyncing
            BY DEF KRInv
        <3> QED
            BY <2>1, <3>1, <3>2, <3>3, <3>4 DEF Resyncing
    <2> QED
        BY <2>3, <2>4, <2>5, <2>6 DEF KRInv, KRExchangeOK
<1>2. CASE KRConvert
    BY <1>2, ConvertExchangeOK, ConvertKRTracking, ConvertResyncing DEF KRInv
<1>3. CASE KRExchange \/ KRDrop \/ KRConnect \/ KRReplay
    BY <1>3, ExchangeKRInv, DropKRInv, ConnectKRInv, ReplayKRInv
<1> QED
    BY <1>1, <1>2, <1>3 DEF KRNext

LEMMA KRInvFollows == KRInv => KrakenBookFollows
<1> SUFFICES ASSUME KRInv, KRQuiet PROVE KrakenBookFollows
    BY DEF KrakenBookFollows, NoGhosts, NeverDeeper, SnapshotResyncs
<1>1. /\ socket = << >> /\ Replayed /\ rows = << >> /\ phase = "idle"
      /\ ~Resetting /\ \A s, p : ~LevelIn(socket, s, p)
    BY Unheard DEF KRQuiet, Replayed, Resetting
<1>2. /\ IInv /\ WellFormed(book) /\ QuotesOK(quotes) /\ ids \in IdsOfLevels
    BY InvBook DEF KRInv, KRTracking, KRExchangeOK, IdsOK
<1>3. PICK c \in Levels0 : Tracks(ids, c) /\ (subscribed => Capped(c))
    BY DEF KRInv, KRTracking
<1>4. NoGhosts
    BY <1>1, <1>3 DEF NoGhosts, Tracks, Withdrawn, Owns
<1>5. NeverDeeper
    <2> SUFFICES ASSUME subscribed, NEW s \in Side, NEW p \in Price,
                        quotes[s][p] = 0 \/ Scaled(quotes[s][p]) > 0
                 PROVE  OnTape(s, p) <= Scaled(quotes[s][p])
        BY DEF NeverDeeper
    <2>1. /\ quotes[s][p] = 0 => ids[s][p] = 0
          /\ Scaled(quotes[s][p]) > 0 => c[s][p] <= Scaled(quotes[s][p])
        BY <1>1, <1>3 DEF Capped
    <2>2. /\ OnTape(s, p) \in Nat /\ OnTape(s, p) <= c[s][p]
          /\ ids[s][p] = 0 => OnTape(s, p) = 0
        BY <1>1, <1>2, <1>3, TrackedLevels
    <2>3. Scaled(quotes[s][p]) \in Nat /\ c[s][p] \in Nat
        BY <1>2, ResyncedType, MaxQtyAssumption DEF Levels0
    <2> QED
        BY <2>1, <2>2, <2>3
<1>6. SnapshotResyncs
    <2> SUFFICES ASSUME subscribed, fresh, NEW s \in Side, NEW p \in Price
                 PROVE  OnTape(s, p) = Scaled(quotes[s][p])
        BY DEF SnapshotResyncs
    <2>1. PICK i, z : i = ids /\ z = Resynced
        OBVIOUS
    <2>2. PICK u \in View : InProgress(u) /\ Leads(u, rows, LevelView(i, z))
        BY <1>1, <2>1 DEF KRInv, Resyncing
    <2>3. Mirrors(book, LevelView(i, z))
        BY <1>1, <2>2, IdleProgress DEF Leads
    <2>4. OnTape(s, p) = z[s][p]
        BY <1>2, <2>1, <2>3, ResyncedType, LevelShown
    <2>5. z[s][p] = Scaled(quotes[s][p])
        <3>1. ~LevelIn(socket, s, p) /\ Scaled(quotes[s][p]) > 0 => ids[s][p] # 0
            BY <1>1 DEF KRInv, Resyncing
        <3>2. Scaled(quotes[s][p]) \in Nat /\ z[s][p] = IF ids[s][p] = 0 THEN 0
                                                         ELSE Scaled(quotes[s][p])
            BY <1>2, <2>1, ResyncedType, MaxQtyAssumption
        <3> QED
            BY <1>1, <3>1, <3>2
    <2> QED
        BY <2>4, <2>5
<1> QED
    BY <1>4, <1>5, <1>6 DEF KrakenBookFollows

\* For every unit, every finite set of prices and every number of messages:
\* kraken_ws_to_csv.py never loses track of an order it has put on the tape, no
\* level of the tape is deeper than the feed gave it in whole units, and a
\* snapshot makes the tape's book the exchange's, whatever came before it.
THEOREM KrakenBookIsFollowed == KRSpec => []KrakenBookFollows
<1>1. KRInit => KRInv
    BY InitKR
<1>2. KRInv /\ [KRNext]_krVars => KRInv'
    BY StepKRInv
<1>3. KRInv => KrakenBookFollows
    BY KRInvFollows
<1> QED
    BY <1>1, <1>2, <1>3, PTL DEF KRSpec

(***************************************************************************)
(* BitMEX: what is always so.                                              *)
(***************************************************************************)

BMEntry == [action : {"partial", "insert", "update", "delete", "trade"}, id : Price,
            side : Side, size : Nat]

BMLevel == [side : Side, size : Nat \ {0}]

\* The levels of the exchange, and the entries on the wire.
BMExchangeOK ==
    /\ DOMAIN exch \subseteq Price /\ exch \in [DOMAIN exch -> BMLevel]
    /\ \A p \in DOMAIN exch : Scaled(exch[p].size) <= MaxQty
    /\ wire \in Seq(BMEntry) /\ \A k \in DOMAIN wire : Scaled(wire[k].size) <= MaxQty
    /\ connected \in BOOLEAN /\ (~connected => wire = << >>)
    /\ DOMAIN id_to_price \subseteq Price /\ id_to_price \in [DOMAIN id_to_price -> Side]

\* An entry says what has become of its level; one that would list a tracked
\* level at a size of nothing leaves it stale.
Says(e) ==
    \/ e.action = "trade"
    \/ /\ e.action \in {"partial", "insert"} /\ e.id \in DOMAIN exch
       /\ e.side = exch[e.id].side /\ e.size = exch[e.id].size
       /\ Scaled(e.size) = 0 /\ e.id \in DOMAIN id_to_price => e.id \in stale
    \/ e.action = "update" /\ e.id \in DOMAIN exch /\ e.size = exch[e.id].size
    \/ e.action = "delete" /\ e.id \notin DOMAIN exch

Pending(p) == \E k \in DOMAIN wire : wire[k].id = p /\ wire[k].action # "trade"

Deleting(p) == \E k \in DOMAIN wire : wire[k].id = p /\ wire[k].action = "delete"

\* The level is given its side anew, or withdrawn.
Renews(e) ==
    e.action \in {"partial", "insert"} \/ (e.action = "update" /\ Scaled(e.size) = 0)

Renewed(p) == \E k \in DOMAIN wire : wire[k].id = p /\ Renews(wire[k])

\* A tracked level that is not stale is there, on its side, or there is an entry
\* on its way that says otherwise; a message is of one kind.
BMLevelsOK ==
    /\ \A p \in DOMAIN id_to_price : p \in stale \/ p \in DOMAIN exch \/ Deleting(p)
    /\ connected =>
         \A p \in DOMAIN id_to_price :
            p \notin DOMAIN exch \/ p \in stale \/ Renewed(p) \/ id_to_price[p] = exch[p].side
    /\ \A k \in DOMAIN wire : Says(wire[k])
    /\ \A j, k \in DOMAIN wire :
         wire[j].action # "trade" /\ wire[k].action # "trade" => wire[j].action = wire[k].action

\* The order of a level has the level's price for its id, and is no larger than
\* the level unless that is stale or being told of.
BMIds ==
    [s \in Side |-> [p \in Price |->
        IF p \in DOMAIN id_to_price /\ id_to_price[p] = s THEN p ELSE 0]]

Caps ==
    [s \in Side |-> [p \in Price |->
        IF ~connected \/ p \in stale \/ Pending(p) THEN MaxQty ELSE Due(s, p)]]

BMTrackingOK == IInv /\ rows \in Seq(TapeRow) /\ Tracks(BMIds, Caps)

BMInv == BMExchangeOK /\ BMLevelsOK /\ BMTrackingOK

LEMMA BMIdAt ==
    ASSUME NEW s \in Side, NEW p \in Price
    PROVE  /\ BMIds[s][p] = IF p \in DOMAIN id_to_price /\ id_to_price[p] = s THEN p ELSE 0
           /\ BMIds[s][p] # 0 <=> p \in DOMAIN id_to_price /\ id_to_price[p] = s
           /\ p # 0
    BY BitmexAssumption DEF BMIds

LEMMA DueFits ==
    ASSUME BMExchangeOK, NEW s \in Side, NEW p \in Price
    PROVE  Due(s, p) \in Nat /\ Due(s, p) <= MaxQty
<1>1. ASSUME p \in DOMAIN exch PROVE Scaled(exch[p].size) \in Nat /\ Scaled(exch[p].size) <= MaxQty
    <2>1. exch[p].size \in Nat
        BY <1>1 DEF BMExchangeOK, BMLevel
    <2> QED
        BY <1>1, <2>1, ScaledGrows DEF BMExchangeOK
<1> QED
    BY <1>1, MaxQtyAssumption DEF Due

LEMMA CapAt ==
    ASSUME BMExchangeOK, NEW s \in Side, NEW p \in Price
    PROVE  /\ Caps[s][p] = IF ~connected \/ p \in stale \/ Pending(p) THEN MaxQty ELSE Due(s, p)
           /\ Caps[s][p] \in Nat /\ Caps[s][p] <= MaxQty
<1>1. Caps[s][p] = IF ~connected \/ p \in stale \/ Pending(p) THEN MaxQty ELSE Due(s, p)
    BY DEF Caps
<1> QED
    BY <1>1, DueFits, MaxQtyAssumption

LEMMA CapsAreLevels == BMExchangeOK => Caps \in Levels0
<1> SUFFICES ASSUME BMExchangeOK PROVE Caps \in Levels0
    OBVIOUS
<1>1. \A s \in Side, p \in Price : Caps[s][p] \in Nat
    BY CapAt
<1>2. Caps = [s \in Side |-> [p \in Price |-> Caps[s][p]]]
    BY DEF Caps
<1> QED
    BY <1>1, <1>2 DEF Levels0

LEMMA InitBMInv == BMInit => BMInv
<1> SUFFICES ASSUME BMInit PROVE BMInv
    OBVIOUS
<1>1. /\ Init /\ rows = << >> /\ exch = << >> /\ connected = FALSE /\ wire = << >>
      /\ id_to_price = << >>
    BY DEF BMInit, ReplayInit
<1>2. /\ DOMAIN exch = {} /\ exch \in [DOMAIN exch -> BMLevel]
      /\ DOMAIN id_to_price = {} /\ id_to_price \in [DOMAIN id_to_price -> Side]
      /\ DOMAIN wire = {} /\ wire \in Seq(BMEntry) /\ DOMAIN rows = {} /\ rows \in Seq(TapeRow)
    BY <1>1
<1>3. BMExchangeOK
    BY <1>1, <1>2 DEF BMExchangeOK
<1>4. BMLevelsOK
    BY <1>1, <1>2 DEF BMLevelsOK
<1>5. Resting(book) = {} /\ phase = "idle"
    BY <1>1 DEF Init, EmptyBook, Resting
<1>6. Tracks(BMIds, Caps)
    BY <1>2, <1>5 DEF Tracks
<1> QED
    BY <1>1, <1>2, <1>3, <1>4, <1>6, InitIInv DEF BMInv, BMTrackingOK

(***************************************************************************)
(* What becomes of the exchange's levels.                                  *)
(***************************************************************************)

\* The exchange's book becomes b, at the level id, and the entries say so.
BMChange(id, b, entries) ==
    /\ Becomes(b, entries)
    /\ DOMAIN b \subseteq Price /\ b \in [DOMAIN b -> BMLevel]
    /\ \A p \in DOMAIN b : Scaled(b[p].size) <= MaxQty
    /\ \A p \in Price \ {id} : /\ p \in DOMAIN b <=> p \in DOMAIN exch
                               /\ p \in DOMAIN exch => b[p] = exch[p]
    /\ entries \in Seq(BMEntry)
    /\ \A k \in DOMAIN entries : Scaled(entries[k].size) <= MaxQty

\* The entry says what the level id is, in the book b.
BMSays(e, id, b) ==
    /\ e \in BMEntry /\ e.id = id
    /\ \/ e.action = "insert" /\ id \notin DOMAIN exch /\ id \in DOMAIN b
          /\ e.side = b[id].side /\ e.size = b[id].size
       \/ e.action = "update" /\ id \in DOMAIN exch /\ id \in DOMAIN b
          /\ b[id].side = exch[id].side /\ e.size = b[id].size
       \/ e.action = "delete" /\ id \in DOMAIN exch /\ id \notin DOMAIN b

\* What it makes of the stale levels.
Stales(e, id) ==
    /\ \A p \in Price \ {id} : p \in stale' <=> p \in stale
    /\ connected /\ e.action = "insert" /\ Scaled(e.size) = 0 /\ Known(id) => id \in stale'
    /\ e.action = "update" /\ Scaled(e.size) # 0 /\ id \in stale => id \in stale'
    /\ ~connected /\ e.action = "delete" /\ Known(id) => id \in stale'

\* The entry is there, with a trade of its level before it, after it, or none.
Among(e, id, entries) ==
    /\ \E k \in DOMAIN entries : entries[k] = e
    /\ \A k \in DOMAIN entries :
         entries[k] = e \/ (entries[k].action = "trade" /\ entries[k].id = id)

BMChanges(id) ==
    \E b, entries, e : /\ BMChange(id, b, entries) /\ BMSays(e, id, b) /\ Stales(e, id)
                       /\ Among(e, id, entries)

LEMMA EntriesOf ==
    ASSUME NEW e \in BMEntry, Scaled(e.size) <= MaxQty, NEW id,
           NEW t \in BMEntry, Scaled(t.size) <= MaxQty, t.action = "trade", t.id = id,
           NEW l \in {<<e>>, <<t, e>>, <<e, t>>}
    PROVE  /\ l \in Seq(BMEntry) /\ \A k \in DOMAIN l : Scaled(l[k].size) <= MaxQty
           /\ Among(e, id, l)
<1>1. CASE l = <<e>>
    <2>1. DOMAIN l = {1} /\ l[1] = e /\ l \in Seq(BMEntry)
        BY <1>1
    <2> QED
        BY <2>1 DEF Among
<1>2. CASE l = <<t, e>>
    <2>1. DOMAIN l = {1, 2} /\ l[1] = t /\ l[2] = e /\ l \in Seq(BMEntry)
        BY <1>2
    <2> QED
        BY <2>1 DEF Among
<1>3. CASE l = <<e, t>>
    <2>1. DOMAIN l = {1, 2} /\ l[1] = e /\ l[2] = t /\ l \in Seq(BMEntry)
        BY <1>3
    <2> QED
        BY <2>1 DEF Among
<1> QED
    BY <1>1, <1>2, <1>3

LEMMA OneEntry ==
    ASSUME NEW e \in BMEntry, Scaled(e.size) <= MaxQty
    PROVE  /\ <<e>> \in Seq(BMEntry) /\ \A k \in DOMAIN <<e>> : Scaled(<<e>>[k].size) <= MaxQty
           /\ Among(e, e.id, <<e>>)
<1>1. DOMAIN <<e>> = {1} /\ <<e>>[1] = e /\ <<e>> \in Seq(BMEntry)
    OBVIOUS
<1> QED
    BY <1>1 DEF Among

\* What the histories say of the levels nothing has happened to.
LEMMA RelistedStales ==
    ASSUME NEW id \in Price, NEW b, Relisted({id}, b)
    PROVE  /\ \A p \in Price \ {id} : p \in stale' <=> p \in stale
           /\ Scaled(b[id].size) = 0 /\ Known(id) => id \in stale'
    BY DEF Relisted, Known

LEMMA ResizedStales ==
    ASSUME NEW id \in Price, NEW b, NEW traded, Resized(id, b, traded)
    PROVE  /\ \A p \in Price \ {id} : p \in stale' <=> p \in stale
           /\ Scaled(b[id].size) # 0 /\ id \in stale => id \in stale'
<1>1. CASE ~connected
    BY <1>1 DEF Resized, history
<1>2. CASE connected
    <2>1. stale' = stale \ {p \in {id} : Scaled(b[p].size) = 0}
        BY <1>2 DEF Resized
    <2> QED
        BY <2>1
<1> QED
    BY <1>1, <1>2

LEMMA RemovedStales ==
    ASSUME NEW id \in Price, Removed(id)
    PROVE  /\ \A p \in Price \ {id} : p \in stale' <=> p \in stale
           /\ ~connected /\ Known(id) => id \in stale'
    BY DEF Removed, Known

LEMMA InsertsChange ==
    ASSUME BMExchangeOK, NEW id \in Price, Inserts(id)
    PROVE  BMChanges(id)
<1>1. PICK s \in Side, q \in BitmexSizes :
        LET b == With(exch, id, [side |-> s, size |-> q])
        IN  /\ Becomes(b, <<LevelEntry("insert", id, s, q)>>)
            /\ IF connected THEN Relisted({id}, b) ELSE UNCHANGED history
    BY DEF Inserts
<1> DEFINE x == [side |-> s, size |-> q]
           b == With(exch, id, x)
           e == LevelEntry("insert", id, s, q)
<1>2. q \in Nat \ {0} /\ q \in Nat /\ Scaled(q) <= MaxQty /\ x \in BMLevel
    BY BitmexAssumption DEF BMLevel
<1>5. x.side = s /\ x.size = q
    OBVIOUS
<1>7. /\ id \notin DOMAIN exch /\ Becomes(b, <<e>>)
      /\ IF connected THEN Relisted({id}, b) ELSE UNCHANGED history
    BY <1>1 DEF Inserts
<1>6. /\ e \in BMEntry /\ e.id = id /\ e.action = "insert" /\ e.side = s /\ e.size = q
    BY <1>2 DEF LevelEntry, BMEntry
<1> HIDE DEF x, e
<1>3. DOMAIN exch \subseteq Price /\ exch \in [DOMAIN exch -> BMLevel]
    BY DEF BMExchangeOK
<1>4. /\ DOMAIN b = DOMAIN exch \cup {id} /\ DOMAIN b \subseteq Price
      /\ b \in [DOMAIN b -> BMLevel] /\ b[id] = x
      /\ \A r \in DOMAIN exch \ {id} : b[r] = exch[r]
    BY <1>2, <1>3 DEF With
<1> HIDE DEF b
<1>8. \A p \in DOMAIN b : Scaled(b[p].size) <= MaxQty
    BY <1>2, <1>4, <1>5 DEF BMExchangeOK
<1>9. BMSays(e, id, b)
    BY <1>4, <1>5, <1>6, <1>7 DEF BMSays
<1>10. BMChange(id, b, <<e>>) /\ Among(e, id, <<e>>)
    BY <1>2, <1>4, <1>6, <1>7, <1>8, OneEntry DEF BMChange
<1>11. Stales(e, id)
    <2>1. CASE connected
        <3>1. Relisted({id}, b)
            BY <1>7, <2>1
        <3> QED
            BY <1>4, <1>5, <1>6, <2>1, <3>1, RelistedStales DEF Stales
    <2>2. CASE ~connected
        <3>1. stale' = stale
            BY <1>7, <2>2 DEF history
        <3> QED
            BY <1>6, <2>2, <3>1 DEF Stales
    <2> QED
        BY <2>1, <2>2
<1> QED
    BY <1>9, <1>10, <1>11 DEF BMChanges

\* The level is left with a size, or taken away.
LEMMA SizeLeft ==
    ASSUME BMExchangeOK, NEW id \in DOMAIN exch, NEW q \in Nat \ {0}, Scaled(q) <= MaxQty,
           NEW b, b = [exch EXCEPT ![id].size = q]
    PROVE  /\ DOMAIN b = DOMAIN exch /\ DOMAIN b \subseteq Price /\ b \in [DOMAIN b -> BMLevel]
           /\ b[id].side = exch[id].side /\ b[id].size = q
           /\ \A r \in DOMAIN exch \ {id} : b[r] = exch[r]
           /\ \A p \in DOMAIN b : Scaled(b[p].size) <= MaxQty
<1>1. DOMAIN exch \subseteq Price /\ exch \in [DOMAIN exch -> BMLevel]
    BY DEF BMExchangeOK
<1>2. /\ DOMAIN b = DOMAIN exch
      /\ b[id] = [exch[id] EXCEPT !.size = q]
      /\ \A r \in DOMAIN exch \ {id} : b[r] = exch[r]
      /\ b = [r \in DOMAIN b |-> b[r]]
    BY <1>1
<1>3. exch[id] \in BMLevel
    BY <1>1
<1>4. b[id] \in BMLevel /\ b[id].side = exch[id].side /\ b[id].size = q
    BY <1>2, <1>3 DEF BMLevel
<1>5. b \in [DOMAIN b -> BMLevel]
    BY <1>1, <1>2, <1>4
<1>6. \A p \in DOMAIN b : Scaled(b[p].size) <= MaxQty
    BY <1>2, <1>4 DEF BMExchangeOK
<1> QED
    BY <1>1, <1>2, <1>4, <1>5, <1>6

LEMMA LevelLost ==
    ASSUME BMExchangeOK, NEW id \in DOMAIN exch, NEW b, b = Gone(exch, id)
    PROVE  /\ DOMAIN b = DOMAIN exch \ {id} /\ DOMAIN b \subseteq Price
           /\ b \in [DOMAIN b -> BMLevel]
           /\ \A r \in DOMAIN exch \ {id} : b[r] = exch[r]
           /\ \A p \in DOMAIN b : Scaled(b[p].size) <= MaxQty
<1>1. DOMAIN exch \subseteq Price /\ exch \in [DOMAIN exch -> BMLevel]
    BY DEF BMExchangeOK
<1>2. /\ DOMAIN b = DOMAIN exch \ {id} /\ DOMAIN b \subseteq Price
      /\ b \in [DOMAIN b -> BMLevel] /\ \A r \in DOMAIN exch \ {id} : b[r] = exch[r]
    BY <1>1 DEF Gone
<1> QED
    BY <1>2 DEF BMExchangeOK

\* The level is resized or removed, and the entries say so.
LEMMA ResizeChanges ==
    ASSUME BMExchangeOK, NEW id \in DOMAIN exch, NEW q \in Nat \ {0}, Scaled(q) <= MaxQty,
           NEW b, b = [exch EXCEPT ![id].size = q], NEW traded, Resized(id, b, traded),
           NEW e, e = LevelEntry("update", id, exch[id].side, q),
           NEW l, Becomes(b, l), l \in Seq(BMEntry), Among(e, id, l),
           \A k \in DOMAIN l : Scaled(l[k].size) <= MaxQty
    PROVE  BMChanges(id)
<1>1. /\ DOMAIN b = DOMAIN exch /\ DOMAIN b \subseteq Price /\ b \in [DOMAIN b -> BMLevel]
      /\ b[id].side = exch[id].side /\ b[id].size = q
      /\ \A r \in DOMAIN exch \ {id} : b[r] = exch[r]
      /\ \A p \in DOMAIN b : Scaled(b[p].size) <= MaxQty
    <2> DEFINE c == [exch EXCEPT ![id].size = q]
    <2>1. b = c
        OBVIOUS
    <2>2. /\ DOMAIN c = DOMAIN exch /\ DOMAIN c \subseteq Price /\ c \in [DOMAIN c -> BMLevel]
          /\ c[id].side = exch[id].side /\ c[id].size = q
          /\ \A r \in DOMAIN exch \ {id} : c[r] = exch[r]
          /\ \A p \in DOMAIN c : Scaled(c[p].size) <= MaxQty
        BY SizeLeft
    <2> HIDE DEF c
    <2> QED
        BY <2>1, <2>2
<1>2. id \in Price /\ exch[id].side \in Side /\ q \in Nat
    BY DEF BMExchangeOK, BMLevel
<1>3. e \in BMEntry /\ e.id = id /\ e.action = "update" /\ e.size = q
    BY <1>2 DEF LevelEntry, BMEntry
<1>4. BMSays(e, id, b)
    BY <1>1, <1>3 DEF BMSays
<1>5. BMChange(id, b, l)
    BY <1>1 DEF BMChange
<1>6. Stales(e, id)
    <2>1. /\ \A p \in Price \ {id} : p \in stale' <=> p \in stale
          /\ Scaled(b[id].size) # 0 /\ id \in stale => id \in stale'
        BY <1>2, ResizedStales, Zenon
    <2> QED
        BY <1>1, <1>3, <2>1 DEF Stales
<1> QED
    BY <1>4, <1>5, <1>6 DEF BMChanges

LEMMA RemovalChanges ==
    ASSUME BMExchangeOK, NEW id \in DOMAIN exch, NEW b, b = Gone(exch, id), Removed(id),
           NEW e \in BMEntry, e.action = "delete", e.id = id,
           NEW l, Becomes(b, l), l \in Seq(BMEntry), Among(e, id, l),
           \A k \in DOMAIN l : Scaled(l[k].size) <= MaxQty
    PROVE  BMChanges(id)
<1>1. /\ DOMAIN b = DOMAIN exch \ {id} /\ DOMAIN b \subseteq Price
      /\ b \in [DOMAIN b -> BMLevel]
      /\ \A r \in DOMAIN exch \ {id} : b[r] = exch[r]
      /\ \A p \in DOMAIN b : Scaled(b[p].size) <= MaxQty
    BY LevelLost
<1>2. id \in Price
    BY DEF BMExchangeOK
<1>3. BMSays(e, id, b)
    BY <1>1 DEF BMSays
<1>4. BMChange(id, b, l)
    BY <1>1 DEF BMChange
<1>5. Stales(e, id)
    BY <1>2, RemovedStales DEF Stales
<1> QED
    BY <1>3, <1>4, <1>5 DEF BMChanges

LEMMA ResizesChange ==
    ASSUME BMExchangeOK, NEW id \in Price, Resizes(id)
    PROVE  BMChanges(id)
<1>1. id \in DOMAIN exch
    BY DEF Resizes
<1>2. PICK q \in BitmexSizes :
        /\ Becomes([exch EXCEPT ![id].size = q], <<LevelEntry("update", id, exch[id].side, q)>>)
        /\ Resized(id, [exch EXCEPT ![id].size = q], {})
    BY DEF Resizes
<1>3. q \in Nat \ {0} /\ q \in Nat /\ Scaled(q) <= MaxQty
    BY BitmexAssumption
<1>4. PICK e : e = LevelEntry("update", id, exch[id].side, q)
    OBVIOUS
<1>5. exch[id].side \in Side
    BY <1>1 DEF BMExchangeOK, BMLevel
<1>6. e \in BMEntry /\ e.id = id /\ Scaled(e.size) <= MaxQty
    BY <1>3, <1>4, <1>5 DEF LevelEntry, BMEntry
<1>7. /\ <<e>> \in Seq(BMEntry) /\ \A k \in DOMAIN <<e>> : Scaled(<<e>>[k].size) <= MaxQty
      /\ Among(e, id, <<e>>)
    BY <1>6, OneEntry
<1> QED
    BY <1>1, <1>2, <1>3, <1>4, <1>7, ResizeChanges

LEMMA DeletesChange ==
    ASSUME BMExchangeOK, NEW id \in Price, Deletes(id)
    PROVE  BMChanges(id)
<1>1. PICK e : e = LevelEntry("delete", id, exch[id].side, exch[id].size)
    OBVIOUS
<1>2. id \in DOMAIN exch /\ Becomes(Gone(exch, id), <<e>>) /\ Removed(id)
    BY <1>1 DEF Deletes
<1>3. exch[id].side \in Side /\ exch[id].size \in Nat /\ Scaled(exch[id].size) <= MaxQty
    BY <1>2 DEF BMExchangeOK, BMLevel
<1>4. e \in BMEntry /\ e.id = id /\ e.action = "delete" /\ Scaled(e.size) <= MaxQty
    BY <1>1, <1>3 DEF LevelEntry, BMEntry
<1>5. /\ <<e>> \in Seq(BMEntry) /\ \A k \in DOMAIN <<e>> : Scaled(<<e>>[k].size) <= MaxQty
      /\ Among(e, id, <<e>>)
    BY <1>4, OneEntry
<1> QED
    BY <1>2, <1>4, <1>5, RemovalChanges

LEMMA FillsChange ==
    ASSUME BMExchangeOK, NEW id \in Price, Fills(id)
    PROVE  BMChanges(id)
<1> DEFINE s == exch[id].side
           size == exch[id].size
<1>1. id \in DOMAIN exch
    BY DEF Fills
<1>2. s \in Side /\ Opposite(s) \in Side /\ size \in Nat /\ Scaled(size) <= MaxQty
    BY <1>1 DEF BMExchangeOK, BMLevel, Opposite, Side
<1>3. PICK q \in 1 .. size, first \in BOOLEAN :
        LET left == size - q
            b == [exch EXCEPT ![id].size = left]
            trade == LevelEntry("trade", id, Opposite(s), q)
            with(entry) == IF first THEN <<trade, entry>> ELSE <<entry, trade>>
        IN  \/ /\ left > 0
               /\ Becomes(b, with(LevelEntry("update", id, s, left)))
               /\ Resized(id, b, IF first THEN {} ELSE {id})
            \/ /\ left = 0
               /\ Becomes(Gone(exch, id), with(LevelEntry("delete", id, s, 0)))
               /\ Removed(id)
    BY DEF Fills
<1>4. PICK left : left = size - q
    OBVIOUS
<1>5. left \in Nat /\ q \in Nat /\ left <= size /\ q <= size
    BY <1>2, <1>4
<1>6. /\ Scaled(left) <= Scaled(size) /\ Scaled(q) <= Scaled(size)
      /\ Scaled(left) \in Nat /\ Scaled(q) \in Nat /\ Scaled(size) \in Nat
    BY <1>2, <1>5, ScaledGrows
<1>7. /\ Scaled(left) <= MaxQty /\ Scaled(q) <= MaxQty /\ Scaled(0) <= MaxQty
    BY <1>2, <1>6, MaxQtyAssumption, ScaledNothing
<1>8. PICK t : t = LevelEntry("trade", id, Opposite(s), q)
    OBVIOUS
<1>9. /\ t \in BMEntry /\ t.id = id /\ t.action = "trade" /\ Scaled(t.size) <= MaxQty
    BY <1>2, <1>5, <1>7, <1>8 DEF LevelEntry, BMEntry
<1>10. PICK u : u = LevelEntry("update", id, s, left)
    OBVIOUS
<1>11. u \in BMEntry /\ u.id = id /\ u.action = "update" /\ Scaled(u.size) <= MaxQty
    BY <1>2, <1>5, <1>7, <1>10 DEF LevelEntry, BMEntry
<1>12. PICK d : d = LevelEntry("delete", id, s, 0)
    OBVIOUS
<1>13. d \in BMEntry /\ d.id = id /\ d.action = "delete" /\ Scaled(d.size) <= MaxQty
    BY <1>2, <1>7, <1>12 DEF LevelEntry, BMEntry
<1>14. \/ /\ left > 0
          /\ Becomes([exch EXCEPT ![id].size = left], IF first THEN <<t, u>> ELSE <<u, t>>)
          /\ Resized(id, [exch EXCEPT ![id].size = left], IF first THEN {} ELSE {id})
       \/ /\ left = 0
          /\ Becomes(Gone(exch, id), IF first THEN <<t, d>> ELSE <<d, t>>)
          /\ Removed(id)
    BY <1>3, <1>4, <1>8, <1>10, <1>12
<1>15. CASE /\ left > 0
            /\ Becomes([exch EXCEPT ![id].size = left], IF first THEN <<t, u>> ELSE <<u, t>>)
            /\ Resized(id, [exch EXCEPT ![id].size = left], IF first THEN {} ELSE {id})
    <2>1. left \in Nat \ {0}
        BY <1>5, <1>15
    <2>2. PICK l \in {<<t, u>>, <<u, t>>} : Becomes([exch EXCEPT ![id].size = left], l)
        BY <1>15
    <2>3. /\ l \in Seq(BMEntry) /\ \A k \in DOMAIN l : Scaled(l[k].size) <= MaxQty
          /\ Among(u, id, l)
        BY <1>9, <1>11, <2>2, EntriesOf
    <2>4. PICK b : b = [exch EXCEPT ![id].size = left]
        OBVIOUS
    <2>5. PICK traded : Resized(id, b, traded)
        BY <1>15, <2>4
    <2>6. Becomes(b, l)
        BY <2>2, <2>4
    <2> QED
        BY <1>1, <1>7, <1>10, <2>1, <2>3, <2>4, <2>5, <2>6, ResizeChanges
<1>16. CASE /\ left = 0
            /\ Becomes(Gone(exch, id), IF first THEN <<t, d>> ELSE <<d, t>>)
            /\ Removed(id)
    <2>1. PICK l \in {<<t, d>>, <<d, t>>} : Becomes(Gone(exch, id), l)
        BY <1>16
    <2>2. /\ l \in Seq(BMEntry) /\ \A k \in DOMAIN l : Scaled(l[k].size) <= MaxQty
          /\ Among(d, id, l)
        BY <1>9, <1>13, <2>1, EntriesOf
    <2> QED
        BY <1>1, <1>13, <1>16, <2>1, <2>2, RemovalChanges
<1> QED
    BY <1>14, <1>15, <1>16

LEMMA ExchangeChanges ==
    ASSUME BMExchangeOK, BMExchange
    PROVE  \E id \in Price : BMChanges(id)
<1>1. PICK id \in Price : Inserts(id) \/ Resizes(id) \/ Deletes(id) \/ Fills(id)
    BY DEF BMExchange
<1> QED
    BY <1>1, InsertsChange, ResizesChange, DeletesChange, FillsChange

(***************************************************************************)
(* BitMEX: what is tracked stays so, as long as the caps of what is tracked *)
(* only grow.                                                              *)
(***************************************************************************)

\* With everything replayed, every order is owned under the new ids and caps,
\* but one that the first row cancels.
LEMMA Recapped ==
    ASSUME IInv, Replayed, UNCHANGED engineVars,
           NEW i, NEW c \in Levels0, Tracks(i, c), NEW j, NEW d \in Levels0,
           \A s \in Side, p \in Price :
             \/ i[s][p] = 0
             \/ j[s][p] = i[s][p] /\ c[s][p] <= d[s][p]
             \/ rows' # << >> /\ rows'[1].type = "Cancel" /\ rows'[1].id = i[s][p],
           \A k \in DOMAIN rows' :
             /\ rows'[k].type = "Add" =>
                  Owns(j, d, rows'[k].id, rows'[k].side, rows'[k].price, rows'[k].qty)
             /\ rows'[k].type = "Cancel" => k = 1
    PROVE  IInv' /\ Tracks(j, d)'
<1>1. /\ rows = << >> /\ phase = "idle" /\ book' = book /\ in' = in /\ phase' = phase
      /\ WellFormed(book)
    BY InvBook DEF Replayed, engineVars
<1>2. ASSUME NEW id \in Resting(book)
      PROVE  \/ Withdrawn(id)'
             \/ Owns(j, d, id, book.index[id].side, book.index[id].price, Entry(book, id).qty)
    <2>1. PICK s, p, q : /\ s = book.index[id].side /\ p = book.index[id].price
                         /\ q = Entry(book, id).qty
        OBVIOUS
    <2>2. Owns(i, c, id, s, p, q)
        BY <1>1, <2>1 DEF Tracks, Withdrawn
    <2>3. q \in Nat
        BY <1>1, <2>1, EntryType
    <2>4. s \in Side /\ p \in Price /\ c[s][p] \in Nat /\ d[s][p] \in Nat
          /\ i[s][p] = id /\ id # 0 /\ q <= c[s][p]
        BY <2>2 DEF Owns, Levels0
    <2>5. c[s][p] <= d[s][p] => q <= d[s][p]
        BY <2>3, <2>4
    <2>6. Withdrawn(id)' \/ Owns(j, d, id, s, p, q)
        BY <2>4, <2>5 DEF Owns, Withdrawn
    <2> QED
        BY <2>1, <2>6
<1> QED
    BY <1>1, <1>2, EngineRests DEF Tracks

\* Nothing is written and no id changes.
LEMMA BMTrackingKept ==
    ASSUME BMExchangeOK, BMExchangeOK', BMTrackingOK, Replayed,
           UNCHANGED <<engineVars, rows, id_to_price>>,
           \A s \in Side, p \in Price :
             p \in DOMAIN id_to_price => Caps[s][p] <= Caps'[s][p]
    PROVE  BMTrackingOK'
<1>1. PICK i, c, d : i = BMIds /\ c = Caps /\ d = Caps'
    OBVIOUS
<1>2. id_to_price' = id_to_price /\ rows' = rows /\ rows = << >> /\ BMIds' = i
    BY <1>1 DEF BMIds, Replayed
<1>3. c \in Levels0
    BY <1>1, CapsAreLevels
<1>4. d \in Levels0
    <2>1. (BMExchangeOK => Caps \in Levels0)'
        BY CapsAreLevels, PTL
    <2>2. Levels0' = Levels0
        BY DEF Levels0
    <2> QED
        BY <1>1, <2>1, <2>2
<1>5. \A s \in Side, p \in Price : i[s][p] = 0 \/ c[s][p] <= d[s][p]
    BY <1>1, BMIdAt
<1>6. IInv /\ Tracks(i, c) /\ rows \in Seq(TapeRow)
    BY <1>1 DEF BMTrackingOK
<1>7. rows' = << >> /\ DOMAIN rows' = {}
    BY <1>2
<1>8. IInv' /\ Tracks(i, d)'
    BY <1>3, <1>4, <1>5, <1>6, <1>7, Recapped
<1>9. Tracks(BMIds, Caps)'
    BY <1>1, <1>2, <1>8
<1> QED
    BY <1>2, <1>6, <1>8, <1>9 DEF BMTrackingOK

LEMMA CapAfter ==
    ASSUME BMExchangeOK', NEW s \in Side, NEW p \in Price
    PROVE  /\ Caps'[s][p] = IF ~connected' \/ p \in stale' \/ Pending(p)' THEN MaxQty ELSE Due(s, p)'
           /\ Caps'[s][p] \in Nat
<1>1. Caps'[s][p] = IF ~connected' \/ p \in stale' \/ Pending(p)' THEN MaxQty ELSE Due(s, p)'
    BY DEF Caps
<1>2. Due(s, p)' \in Nat
    <2>1. ASSUME p \in DOMAIN exch' PROVE Scaled(exch'[p].size) \in Nat
        <3>1. exch'[p].size \in Nat
            BY <2>1 DEF BMExchangeOK, BMLevel
        <3> QED
            BY <3>1, ScaledGrows
    <2> QED
        BY <2>1 DEF Due
<1> QED
    BY <1>1, <1>2, MaxQtyAssumption

LEMMA ExchangeBMInv ==
    ASSUME BMInv, BMExchange
    PROVE  BMInv'
<1>1. /\ UNCHANGED <<engineVars, rows, connected, id_to_price>>
      /\ wire = << >> /\ Replayed /\ id_to_price' = id_to_price /\ connected' = connected
      /\ BMExchangeOK /\ BMLevelsOK /\ BMTrackingOK
    BY DEF BMExchange, BMQuiet, BMInv
<1>2. PICK id \in Price : BMChanges(id)
    BY <1>1, ExchangeChanges
<1>3. PICK b, entries, e : /\ BMChange(id, b, entries) /\ BMSays(e, id, b) /\ Stales(e, id)
                           /\ Among(e, id, entries)
    BY <1>2 DEF BMChanges
<1>4. exch' = b /\ wire' = IF connected THEN entries ELSE << >>
    BY <1>3 DEF BMChange, Becomes
<1>5. BMExchangeOK'
    <2>1. << >> \in Seq(BMEntry) /\ DOMAIN << >> = {}
        OBVIOUS
    <2>2. wire' \in Seq(BMEntry) /\ \A k \in DOMAIN wire' : Scaled(wire'[k].size) <= MaxQty
        BY <1>3, <1>4, <2>1 DEF BMChange
    <2> QED
        BY <1>1, <1>3, <1>4, <2>2 DEF BMExchangeOK, BMChange
<1>6. ASSUME ~connected PROVE BMLevelsOK'
    <2>1. wire' = << >> /\ DOMAIN wire' = {} /\ DOMAIN wire = {}
        BY <1>1, <1>4, <1>6
    <2>2. ASSUME NEW p \in DOMAIN id_to_price
          PROVE  p \in stale' \/ p \in DOMAIN exch'
        <3>1. p \in Price /\ (p \in stale \/ p \in DOMAIN exch)
            BY <1>1, <2>1 DEF BMExchangeOK, BMLevelsOK, Deleting
        <3>2. CASE p # id
            BY <1>3, <1>4, <3>1, <3>2 DEF BMChange, Stales
        <3>3. CASE p = id
            BY <1>3, <1>4, <1>6, <3>3 DEF BMSays, Stales, Known
        <3> QED
            BY <3>2, <3>3
    <2> QED
        BY <1>1, <1>6, <2>1, <2>2 DEF BMLevelsOK
<1>7. ASSUME connected PROVE BMLevelsOK'
    <2>1. wire' = entries /\ DOMAIN wire = {} /\ connected'
        BY <1>1, <1>4, <1>7
    <2>2. PICK h \in DOMAIN entries : entries[h] = e
        BY <1>3 DEF Among
    <2>3. \A k \in DOMAIN entries :
            entries[k] = e \/ (entries[k].action = "trade" /\ entries[k].id = id)
        BY <1>3 DEF Among
    <2>4. e.id = id /\ e \in BMEntry
        BY <1>3 DEF BMSays
    <2>5. ASSUME NEW p \in DOMAIN id_to_price
          PROVE  p \in stale' \/ p \in DOMAIN exch' \/ Deleting(p)'
        <3>1. p \in Price /\ (p \in stale \/ p \in DOMAIN exch)
            BY <1>1, <2>1 DEF BMExchangeOK, BMLevelsOK, Deleting
        <3>2. CASE p # id
            BY <1>3, <1>4, <3>1, <3>2 DEF BMChange, Stales
        <3>3. CASE p = id
            BY <1>3, <1>4, <2>1, <2>2, <2>4, <3>3 DEF BMSays, Deleting
        <3> QED
            BY <3>2, <3>3
    <2>6. ASSUME NEW p \in DOMAIN id_to_price
          PROVE  p \notin DOMAIN exch' \/ p \in stale' \/ Renewed(p)' \/ id_to_price[p] = exch'[p].side
        <3>1. p \in Price /\ (p \notin DOMAIN exch \/ p \in stale \/ id_to_price[p] = exch[p].side)
            BY <1>1, <1>7, <2>1 DEF BMExchangeOK, BMLevelsOK, Renewed
        <3>2. CASE p # id
            BY <1>3, <1>4, <3>1, <3>2 DEF BMChange, Stales
        <3>3. CASE p = id /\ Renews(e)
            BY <2>1, <2>2, <2>4, <3>3 DEF Renewed
        <3>4. CASE p = id /\ ~Renews(e)
            BY <1>3, <1>4, <3>1, <3>4 DEF BMSays, Stales, Renews
        <3> QED
            BY <3>2, <3>3, <3>4
    <2>7. Says(e)'
        BY <1>1, <1>3, <1>4, <1>7, <2>4 DEF BMSays, Says, Stales, Known
    <2>8. (\A k \in DOMAIN wire : Says(wire[k]))'
        BY <2>1, <2>3, <2>7 DEF Says
    <2>9. \A k, m \in DOMAIN wire' :
            wire'[k].action # "trade" /\ wire'[m].action # "trade"
              => wire'[k].action = wire'[m].action
        BY <2>1, <2>3
    <2> QED
        BY <1>1, <2>5, <2>6, <2>8, <2>9 DEF BMLevelsOK
<1>8. ASSUME NEW s \in Side, NEW p \in Price
      PROVE  Caps[s][p] <= Caps'[s][p]
    <2>1. /\ Caps[s][p] = IF ~connected \/ p \in stale \/ Pending(p) THEN MaxQty ELSE Due(s, p)
          /\ Caps[s][p] \in Nat /\ Caps[s][p] <= MaxQty
        BY <1>1, CapAt
    <2>2. /\ Caps'[s][p] = IF ~connected' \/ p \in stale' \/ Pending(p)' THEN MaxQty ELSE Due(s, p)'
          /\ Caps'[s][p] \in Nat
        BY <1>5, CapAfter
    <2>3. CASE p # id
        <3>1. Due(s, p)' = Due(s, p) /\ (p \in stale' <=> p \in stale) /\ ~Pending(p)
            <4>1. DOMAIN wire = {}
                BY <1>1
            <4> QED
                BY <1>3, <1>4, <2>3, <4>1 DEF BMChange, Stales, Due, Pending
        <3> QED
            BY <1>1, <2>1, <2>2, <3>1
    <2>4. CASE p = id
        <3>1. ~connected' \/ Pending(p)'
            BY <1>1, <1>3, <1>4, <2>4 DEF BMSays, Among, Pending
        <3> QED
            BY <2>1, <2>2, <3>1
    <2> QED
        BY <2>3, <2>4
<1>9. BMTrackingOK'
    BY <1>1, <1>5, <1>8, BMTrackingKept
<1> QED
    BY <1>5, <1>6, <1>7, <1>9 DEF BMInv

LEMMA ConnectBMInv ==
    ASSUME BMInv, BMConnect
    PROVE  BMInv'
<1>1. /\ ~connected /\ connected' = TRUE
      /\ UNCHANGED <<engineVars, rows, id_to_price>>
      /\ wire = << >> /\ Replayed /\ id_to_price' = id_to_price /\ exch' = exch
      /\ BMExchangeOK /\ BMLevelsOK /\ BMTrackingOK /\ DOMAIN wire = {}
    BY DEF BMConnect, BMQuiet, BMInv
<1>2. PICK l \in Listings(DOMAIN exch) :
        wire' = [k \in DOMAIN l |-> LevelEntry("partial", l[k], exch[l[k]].side, exch[l[k]].size)]
    BY DEF BMConnect
<1>3. /\ DOMAIN exch \subseteq Price /\ exch \in [DOMAIN exch -> BMLevel]
      /\ \A p \in DOMAIN exch : Scaled(exch[p].size) <= MaxQty
    BY <1>1 DEF BMExchangeOK
<1>4. Cardinality(DOMAIN exch) \in Nat
    BY <1>3, PriceAssumption, FS_Subset, FS_CardinalityType
<1>5. /\ DOMAIN l = 1 .. Cardinality(DOMAIN exch) /\ \A k \in DOMAIN l : l[k] \in DOMAIN exch
      /\ \A p \in DOMAIN exch : \E k \in DOMAIN l : l[k] = p
    BY DEF Listings
<1>6. \A k \in DOMAIN l :
        LET e == LevelEntry("partial", l[k], exch[l[k]].side, exch[l[k]].size)
        IN  /\ e \in BMEntry /\ e.action = "partial" /\ e.id = l[k] /\ e.side = exch[l[k]].side
            /\ e.size = exch[l[k]].size
    BY <1>3, <1>5 DEF LevelEntry, BMEntry, BMLevel
<1>7. /\ DOMAIN wire' = DOMAIN l
      /\ \A k \in DOMAIN wire' :
           /\ wire'[k] \in BMEntry /\ wire'[k].action = "partial" /\ wire'[k].id = l[k]
           /\ wire'[k].side = exch[l[k]].side /\ wire'[k].size = exch[l[k]].size
    BY <1>2, <1>6
<1>8. wire' \in Seq(BMEntry)
    <2>1. wire' \in [1 .. Cardinality(DOMAIN exch) -> BMEntry]
        BY <1>2, <1>5, <1>7
    <2> QED
        BY <1>4, <2>1, SeqDef
<1>9. BMExchangeOK'
    <2>1. ASSUME NEW k \in DOMAIN wire' PROVE Scaled(wire'[k].size) <= MaxQty
        <3>1. wire'[k].size = exch[l[k]].size /\ l[k] \in DOMAIN exch
            BY <1>5, <1>7
        <3> QED
            BY <1>3, <3>1
    <2>2. connected' \in BOOLEAN /\ connected'
        BY <1>1
    <2> QED
        BY <1>1, <1>3, <1>8, <2>1, <2>2 DEF BMExchangeOK
<1>10. stale' = (stale \ DOMAIN exch)
                \cup {p \in {r \in DOMAIN exch : Scaled(exch[r].size) = 0} : p \in DOMAIN id_to_price}
    BY DEF BMConnect, Relisted
<1>11. \A p \in DOMAIN id_to_price : p \in Price /\ (p \in stale \/ p \in DOMAIN exch)
    BY <1>1 DEF BMExchangeOK, BMLevelsOK, Deleting
<1>12. \A p \in DOMAIN exch : \E k \in DOMAIN wire' : wire'[k].id = p /\ wire'[k].action = "partial"
    BY <1>5, <1>7
<1>13. BMLevelsOK'
    <2>1. \A p \in DOMAIN id_to_price : p \in stale' \/ p \in DOMAIN exch
        BY <1>10, <1>11
    <2>2. \A p \in DOMAIN exch : Renewed(p)'
        BY <1>12 DEF Renewed, Renews
    <2>3. (\A k \in DOMAIN wire : Says(wire[k]))'
        BY <1>1, <1>5, <1>7, <1>10 DEF Says
    <2>4. \A j, k \in DOMAIN wire' : wire'[j].action = wire'[k].action
        BY <1>7
    <2> QED
        BY <1>1, <2>1, <2>2, <2>3, <2>4 DEF BMLevelsOK
<1>14. ASSUME NEW s \in Side, NEW p \in Price, p \in DOMAIN id_to_price
       PROVE  Caps[s][p] <= Caps'[s][p]
    <2>1. p \in stale' \/ Pending(p)'
        BY <1>10, <1>11, <1>12, <1>14 DEF Pending
    <2>2. Caps'[s][p] = MaxQty
        BY <1>9, <2>1, CapAfter
    <2> QED
        BY <1>1, <2>2, CapAt
<1>15. BMTrackingOK'
    BY <1>1, <1>9, <1>14, BMTrackingKept
<1> QED
    BY <1>9, <1>13, <1>15 DEF BMInv

LEMMA DropBMInv ==
    ASSUME BMInv, BMDrop
    PROVE  BMInv'
<1>1. /\ connected' = FALSE /\ wire = << >> /\ wire' = wire /\ Replayed /\ exch' = exch
      /\ UNCHANGED <<engineVars, rows, id_to_price>> /\ id_to_price' = id_to_price
      /\ stale' = stale /\ BMExchangeOK /\ BMLevelsOK /\ BMTrackingOK
      /\ DOMAIN wire = {} /\ DOMAIN wire' = {}
    BY DEF BMDrop, BMQuiet, BMInv, history
<1>2. BMExchangeOK'
    BY <1>1 DEF BMExchangeOK
<1>3. BMLevelsOK'
    <2>1. \A p \in DOMAIN id_to_price : p \in stale \/ p \in DOMAIN exch
        BY <1>1 DEF BMLevelsOK, Deleting
    <2> QED
        BY <1>1, <2>1 DEF BMLevelsOK
<1>4. ASSUME NEW s \in Side, NEW p \in Price
      PROVE  Caps[s][p] <= Caps'[s][p]
    <2>1. Caps'[s][p] = MaxQty
        BY <1>1, <1>2, CapAfter
    <2> QED
        BY <1>1, <2>1, CapAt
<1> QED
    BY <1>1, <1>2, <1>3, <1>4, BMTrackingKept DEF BMInv

(***************************************************************************)
(* BitMEX: an entry is converted.                                          *)
(***************************************************************************)

Assigned(p, s) == id_to_price' = With(id_to_price, p, s)

Nothing == rows' = << >> /\ id_to_price' = id_to_price

\* p gets an order, or another one in its place, or loses it.
Adds(p, s, q) == ~Known(p) /\ rows' = <<Row("Add", s, p, q, p)>> /\ Assigned(p, s)

Replaces(p, s, q) ==
    Known(p) /\ Assigned(p, s)
    /\ rows' = <<Row("Cancel", s, p, 0, p)>> \o <<Row("Add", s, p, q, p)>>

Withdraws(p) ==
    Known(p) /\ id_to_price' = Gone(id_to_price, p)
    /\ rows' = <<Row("Cancel", id_to_price[p], p, 0, p)>>

TradesOn(e) == rows' = <<Row("Trade", e.side, e.id, Scaled(e.size), 0)>>
               /\ id_to_price' = id_to_price

\* What becomes of an entry.
Outcome(e) ==
    LET p == e.id
        q == Scaled(e.size)
    IN  \/ /\ e.action \in {"partial", "insert"}
           /\ \/ q = 0 /\ Nothing
              \/ q > 0 /\ Adds(p, e.side, q)
              \/ q > 0 /\ Replaces(p, e.side, q)
        \/ /\ e.action = "update"
           /\ \/ ~Known(p) /\ Nothing
              \/ q > 0 /\ Replaces(p, id_to_price[p], q)
              \/ q = 0 /\ Withdraws(p)
        \/ /\ e.action = "delete"
           /\ \/ ~Known(p) /\ Nothing
              \/ Withdraws(p)
        \/ /\ e.action = "trade"
           /\ \/ q = 0 /\ Nothing
              \/ q > 0 /\ TradesOn(e)

LEMMA EntryTypes ==
    ASSUME BMExchangeOK, wire # << >>
    PROVE  /\ wire[1] \in BMEntry /\ wire[1].id \in Price /\ wire[1].side \in Side
           /\ Scaled(wire[1].size) \in Nat /\ Scaled(wire[1].size) <= MaxQty
           /\ Tail(wire) \in Seq(BMEntry)
           /\ \A k \in DOMAIN Tail(wire) : k + 1 \in DOMAIN wire /\ Tail(wire)[k] = wire[k + 1]
           /\ \A k \in DOMAIN wire : k = 1 \/ (k - 1 \in DOMAIN Tail(wire)
                                               /\ Tail(wire)[k - 1] = wire[k])
<1>1. wire \in Seq(BMEntry) /\ \A k \in DOMAIN wire : Scaled(wire[k].size) <= MaxQty
    BY DEF BMExchangeOK
<1>2. /\ Tail(wire) \in Seq(BMEntry) /\ Len(Tail(wire)) = Len(wire) - 1
      /\ \A k \in 1 .. Len(wire) - 1 : Tail(wire)[k] = wire[k + 1]
    BY <1>1, HeadTailProperties
<1>3. Len(wire) \in Nat /\ Len(wire) # 0 /\ DOMAIN wire = 1 .. Len(wire)
    BY <1>1, EmptySeq
<1>4. DOMAIN Tail(wire) = 1 .. Len(wire) - 1
    BY <1>2, <1>3
<1>5. 1 \in DOMAIN wire /\ wire[1] \in BMEntry
    BY <1>1, <1>3, ElementOfSeq
<1>6. wire[1].id \in Price /\ wire[1].side \in Side /\ wire[1].size \in Nat
    BY <1>5 DEF BMEntry
<1>7. Scaled(wire[1].size) \in Nat
    BY <1>6, ScaledGrows
<1>8. ASSUME NEW k \in DOMAIN wire, k # 1
      PROVE  k - 1 \in DOMAIN Tail(wire) /\ Tail(wire)[k - 1] = wire[k]
    <2>1. k \in 1 .. Len(wire) /\ k - 1 \in 1 .. Len(wire) - 1 /\ (k - 1) + 1 = k
        BY <1>3, <1>8
    <2> QED
        BY <1>2, <1>4, <2>1
<1>9. \A k \in DOMAIN Tail(wire) : k + 1 \in DOMAIN wire /\ Tail(wire)[k] = wire[k + 1]
    BY <1>2, <1>3, <1>4
<1> QED
    BY <1>1, <1>2, <1>5, <1>6, <1>7, <1>8, <1>9

LEMMA SameSide ==
    ASSUME BMExchangeOK, NEW p, Known(p)
    PROVE  With(id_to_price, p, id_to_price[p]) = id_to_price
<1>1. id_to_price = [r \in DOMAIN id_to_price |-> id_to_price[r]]
    BY DEF BMExchangeOK
<1>2. DOMAIN id_to_price \cup {p} = DOMAIN id_to_price
    BY DEF Known
<1>3. With(id_to_price, p, id_to_price[p]) = [r \in DOMAIN id_to_price |-> id_to_price[r]]
    BY <1>2 DEF With
<1> QED
    BY <1>1, <1>3

LEMMA ConvertOutcome ==
    ASSUME BMExchangeOK, BMConvert
    PROVE  Outcome(wire[1])
<1> SUFFICES ASSUME NEW e, e = wire[1] PROVE Outcome(e)
    OBVIOUS
<1> DEFINE p == e.id
           q == Scaled(e.size)
<1>1. wire # << >> /\ Replayed /\ rows = << >>
    BY DEF BMConvert, Replayed
<1>2. e \in BMEntry /\ p \in Price /\ e.side \in Side /\ q \in Nat /\ q <= MaxQty
    BY <1>1, EntryTypes
<1>3. CASE e.action \in {"partial", "insert"} /\ InsertEntry(e)
    <2>1. CASE q = 0
        BY <1>1, <1>3, <2>1 DEF InsertEntry, Nothing, Outcome
    <2>2. CASE q # 0
        <3>1. /\ rows' = (IF Known(p) THEN CancelRow(p, e.side) ELSE << >>) \o AddRow(p, e.side, q)
              /\ Assigned(p, e.side) /\ q > 0
            <4>1. Scaled(e.size) # 0 /\ q > 0
                BY <1>2, <2>2
            <4>2. InsertEntry(e)
                BY <1>3
            <4> QED
                BY <4>1, <4>2 DEF InsertEntry, Assigned
        <3>2. CASE Known(p)
            BY <1>3, <3>1, <3>2 DEF CancelRow, AddRow, Replaces, Outcome
        <3>3. CASE ~Known(p)
            <4> DEFINE a == Row("Add", e.side, p, q, p)
            <4>1. a \in TapeRow
                <5> HIDE DEF p, q, a
                <5>1. p \in OrderId
                    BY <1>2, BitmexAssumption
                <5>2. q \in Quantity
                    BY <1>2, MaxQtyAssumption DEF Quantity
                <5> QED
                    BY <1>2, <5>1, <5>2 DEF a, Row, TapeRow
            <4>2. rows' = << >> \o <<a>>
                BY <3>1, <3>3 DEF AddRow
            <4> HIDE DEF a
            <4>3. rows' = <<a>>
                BY <4>1, <4>2, NothingBefore
            <4> QED
                BY <1>3, <3>1, <3>3, <4>3 DEF Adds, Outcome, a
        <3> QED
            BY <3>2, <3>3
    <2> QED
        BY <2>1, <2>2
<1>4. CASE e.action = "update" /\ UpdateEntry(e)
    <2>1. CASE ~Known(p)
        BY <1>1, <1>4, <2>1 DEF UpdateEntry, Nothing, Outcome
    <2>2. CASE Known(p) /\ q > 0
        <3>1. /\ rows' = CancelRow(p, id_to_price[p]) \o AddRow(p, id_to_price[p], q)
              /\ id_to_price' = id_to_price
            BY <1>4, <2>2 DEF UpdateEntry
        <3>2. Assigned(p, id_to_price[p])
            BY <2>2, <3>1, SameSide DEF Assigned
        <3> QED
            BY <1>4, <2>2, <3>1, <3>2 DEF CancelRow, AddRow, Replaces, Outcome
    <2>3. CASE Known(p) /\ ~(q > 0)
        <3>1. /\ rows' = CancelRow(p, id_to_price[p]) /\ id_to_price' = Gone(id_to_price, p)
              /\ q = 0
            BY <1>2, <1>4, <2>3 DEF UpdateEntry
        <3> QED
            BY <1>4, <2>3, <3>1 DEF CancelRow, Withdraws, Outcome
    <2> QED
        BY <2>1, <2>2, <2>3
<1>5. CASE e.action = "delete" /\ DeleteEntry(e)
    BY <1>1, <1>5 DEF DeleteEntry, CancelRow, Withdraws, Nothing, Outcome
<1>6. CASE e.action = "trade" /\ TradeEntry(e)
    BY <1>2, <1>6 DEF TradeEntry, TradesOn, Nothing, Outcome
<1>7. \/ e.action \in {"partial", "insert"} /\ InsertEntry(e)
      \/ e.action = "update" /\ UpdateEntry(e)
      \/ e.action = "delete" /\ DeleteEntry(e)
      \/ e.action = "trade" /\ TradeEntry(e)
    BY DEF BMConvert
<1> QED
    BY <1>3, <1>4, <1>5, <1>6, <1>7

\* What taking an entry off the wire does to what is on its way.
LEMMA WireTaken ==
    ASSUME BMExchangeOK, BMConvert, NEW e, e = wire[1]
    PROVE  /\ connected /\ 1 \in DOMAIN wire
           /\ \A r \in Price : r # e.id \/ e.action = "trade" => (Pending(r)' <=> Pending(r))
           /\ \A r \in Price : r # e.id \/ e.action # "delete" => (Deleting(r)' <=> Deleting(r))
           /\ \A r \in Price : r # e.id \/ ~Renews(e) => (Renewed(r)' <=> Renewed(r))
           /\ \A k \in DOMAIN wire' : k + 1 \in DOMAIN wire /\ wire'[k] = wire[k + 1]
<1>1. wire # << >> /\ wire' = Tail(wire)
    BY DEF BMConvert
<1>2. /\ \A k \in DOMAIN wire' : k + 1 \in DOMAIN wire /\ wire'[k] = wire[k + 1]
      /\ \A k \in DOMAIN wire : k = 1 \/ (k - 1 \in DOMAIN wire' /\ wire'[k - 1] = wire[k])
    BY <1>1, EntryTypes
<1>3. connected /\ 1 \in DOMAIN wire
    <2>1. wire \in Seq(BMEntry) /\ Len(wire) \in Nat /\ Len(wire) # 0 /\ DOMAIN wire = 1 .. Len(wire)
        BY <1>1, EmptySeq DEF BMExchangeOK
    <2> QED
        BY <1>1, <2>1 DEF BMExchangeOK
<1>4. ASSUME NEW r \in Price, r # e.id \/ e.action = "trade" PROVE Pending(r)' <=> Pending(r)
    BY <1>2, <1>4 DEF Pending
<1>5. ASSUME NEW r \in Price, r # e.id \/ e.action # "delete" PROVE Deleting(r)' <=> Deleting(r)
    BY <1>2, <1>5 DEF Deleting
<1>6. ASSUME NEW r \in Price, r # e.id \/ ~Renews(e) PROVE Renewed(r)' <=> Renewed(r)
    <2>1. ASSUME NEW k \in DOMAIN wire', wire'[k].id = r, Renews(wire'[k]) PROVE Renewed(r)
        BY <1>2, <2>1 DEF Renewed
    <2>2. ASSUME NEW k \in DOMAIN wire, wire[k].id = r, Renews(wire[k])
          PROVE  \E m \in DOMAIN wire' : wire'[m].id = r /\ Renews(wire'[m])
        BY <1>2, <1>6, <2>2
    <2>3. Renewed(r)' <=> \E m \in DOMAIN wire' : wire'[m].id = r /\ Renews(wire'[m])
        BY DEF Renewed, Renews
    <2> QED
        BY <2>1, <2>2, <2>3 DEF Renewed
<1> QED
    BY <1>2, <1>3, <1>4, <1>5, <1>6

LEMMA ConvertExchange ==
    ASSUME BMExchangeOK, BMConvert,
           DOMAIN id_to_price' \subseteq Price, id_to_price' \in [DOMAIN id_to_price' -> Side]
    PROVE  BMExchangeOK'
<1>1. /\ wire # << >> /\ wire' = Tail(wire) /\ exch' = exch /\ connected' = connected
    BY DEF BMConvert
<1>2. connected
    BY WireTaken
<1>3. wire' \in Seq(BMEntry) /\ \A k \in DOMAIN wire' : Scaled(wire'[k].size) <= MaxQty
    <2>1. Tail(wire) \in Seq(BMEntry)
          /\ \A k \in DOMAIN Tail(wire) : k + 1 \in DOMAIN wire /\ Tail(wire)[k] = wire[k + 1]
        BY <1>1, EntryTypes
    <2> QED
        BY <1>1, <2>1 DEF BMExchangeOK
<1> QED
    BY <1>1, <1>2, <1>3 DEF BMExchangeOK

\* The caps while an entry is converted.
LEMMA ConvertCaps ==
    ASSUME BMExchangeOK, BMExchangeOK', BMConvert, NEW e, e = wire[1], NEW s \in Side, NEW r \in Price
    PROVE  /\ Caps[s][r] \in Nat /\ Caps'[s][r] \in Nat /\ Caps[s][r] <= MaxQty
           /\ r # e.id \/ e.action = "trade" => Caps'[s][r] = Caps[s][r]
           /\ \/ Caps'[s][r] = MaxQty
              \/ r \notin stale /\ Caps'[s][r] = Due(s, r)
<1>1. exch' = exch /\ connected' = connected /\ stale' = stale
    BY DEF BMConvert, history
<1>2. connected /\ (r # e.id \/ e.action = "trade" => (Pending(r)' <=> Pending(r)))
    BY WireTaken
<1>3. /\ Caps[s][r] = IF ~connected \/ r \in stale \/ Pending(r) THEN MaxQty ELSE Due(s, r)
      /\ Caps[s][r] \in Nat /\ Caps[s][r] <= MaxQty
    BY CapAt
<1>4. /\ Caps'[s][r] = IF ~connected' \/ r \in stale' \/ Pending(r)' THEN MaxQty ELSE Due(s, r)'
      /\ Caps'[s][r] \in Nat
    BY CapAfter
<1>5. Due(s, r)' = Due(s, r)
    BY <1>1 DEF Due
<1> QED
    BY <1>1, <1>2, <1>3, <1>4, <1>5

\* The tracked ids and their caps change at p only, and the first row cancels its
\* order, if it had one that does not stay as it is.
LEMMA OutcomeTracks ==
    ASSUME BMExchangeOK, BMExchangeOK', BMTrackingOK, Replayed, UNCHANGED engineVars, NEW p \in Price,
           \A r \in Price \ {p} : /\ r \in DOMAIN id_to_price' <=> r \in DOMAIN id_to_price
                                  /\ r \in DOMAIN id_to_price => id_to_price'[r] = id_to_price[r],
           \A s \in Side, r \in Price \ {p} : Caps'[s][r] = Caps[s][r],
           \/ ~Known(p)
           \/ /\ p \in DOMAIN id_to_price' /\ id_to_price'[p] = id_to_price[p]
              /\ \A s \in Side : Caps[s][p] <= Caps'[s][p]
           \/ rows' # << >> /\ rows'[1].type = "Cancel" /\ rows'[1].id = p,
           rows' \in Seq(TapeRow),
           \A k \in DOMAIN rows' :
             /\ rows'[k].type = "Add" =>
                  /\ rows'[k].id = p /\ rows'[k].price = p
                  /\ p \in DOMAIN id_to_price' /\ rows'[k].side = id_to_price'[p]
                  /\ rows'[k].qty <= Caps'[rows'[k].side][p]
             /\ rows'[k].type = "Cancel" => k = 1
    PROVE  BMTrackingOK'
<1>1. PICK i, j, c, d : i = BMIds /\ j = BMIds' /\ c = Caps /\ d = Caps'
    OBVIOUS
<1>2. c \in Levels0 /\ d \in Levels0
    <2>1. (BMExchangeOK => Caps \in Levels0)'
        BY CapsAreLevels, PTL
    <2>2. Levels0' = Levels0
        BY DEF Levels0
    <2>3. Caps \in Levels0
        BY CapsAreLevels
    <2> QED
        BY <1>1, <2>1, <2>2, <2>3
<1>3. \A s \in Side, r \in Price :
        /\ i[s][r] = IF r \in DOMAIN id_to_price /\ id_to_price[r] = s THEN r ELSE 0
        /\ j[s][r] = IF r \in DOMAIN id_to_price' /\ id_to_price'[r] = s THEN r ELSE 0
        /\ r # 0
    BY <1>1, BitmexAssumption DEF BMIds
<1>4. IInv /\ Tracks(i, c)
    BY <1>1 DEF BMTrackingOK
<1>5. ASSUME NEW s \in Side, NEW r \in Price
      PROVE  \/ i[s][r] = 0
             \/ j[s][r] = i[s][r] /\ c[s][r] <= d[s][r]
             \/ rows' # << >> /\ rows'[1].type = "Cancel" /\ rows'[1].id = i[s][r]
    <2>1. CASE r # p
        <3>1. c[s][r] = d[s][r] /\ c[s][r] \in Nat
            BY <1>1, <1>2, <2>1 DEF Levels0
        <3> QED
            BY <1>3, <2>1, <3>1
    <2>2. CASE r = p
        BY <1>1, <1>3, <2>2 DEF Known
    <2> QED
        BY <2>1, <2>2
<1>6. ASSUME NEW k \in DOMAIN rows'
      PROVE  /\ rows'[k].type = "Add" =>
                  Owns(j, d, rows'[k].id, rows'[k].side, rows'[k].price, rows'[k].qty)
             /\ rows'[k].type = "Cancel" => k = 1
    <2>1. rows'[k] \in TapeRow
        BY ElementOfSeq
    <2>2. rows'[k].side \in Side
        BY <2>1 DEF TapeRow
    <2> QED
        BY <1>1, <1>3, <2>2 DEF Owns
<1>7. IInv' /\ Tracks(j, d)'
    BY <1>2, <1>4, <1>5, <1>6, Recapped
<1>8. Tracks(BMIds, Caps)'
    BY <1>1, <1>7
<1> QED
    BY <1>7, <1>8 DEF BMTrackingOK

\* The tracked ids once p is given a side, withdrawn or left alone.
LEMMA IdsAfter ==
    ASSUME BMExchangeOK, NEW p \in Price, NEW s \in Side,
           \/ Assigned(p, s)
           \/ id_to_price' = Gone(id_to_price, p)
           \/ id_to_price' = id_to_price
    PROVE  /\ DOMAIN id_to_price' \subseteq Price /\ id_to_price' \in [DOMAIN id_to_price' -> Side]
           /\ \A r \in Price \ {p} : /\ r \in DOMAIN id_to_price' <=> r \in DOMAIN id_to_price
                                     /\ r \in DOMAIN id_to_price => id_to_price'[r] = id_to_price[r]
           /\ Assigned(p, s) => p \in DOMAIN id_to_price' /\ id_to_price'[p] = s
           /\ id_to_price' = Gone(id_to_price, p) => p \notin DOMAIN id_to_price'
<1>1. DOMAIN id_to_price \subseteq Price /\ id_to_price \in [DOMAIN id_to_price -> Side]
    BY DEF BMExchangeOK
<1>2. CASE Assigned(p, s)
    <2>1. id_to_price' = [r \in DOMAIN id_to_price \cup {p} |-> IF r = p THEN s ELSE id_to_price[r]]
        BY <1>2 DEF Assigned, With
    <2>2. p \in DOMAIN id_to_price' /\ id_to_price' # Gone(id_to_price, p)
        BY <2>1 DEF Gone
    <2> QED
        BY <1>1, <2>1, <2>2
<1>3. CASE id_to_price' = Gone(id_to_price, p)
    <2>1. id_to_price' = [r \in DOMAIN id_to_price \ {p} |-> id_to_price[r]]
        BY <1>3 DEF Gone
    <2>2. p \notin DOMAIN id_to_price' /\ ~Assigned(p, s)
        BY <2>1 DEF Assigned, With
    <2> QED
        BY <1>1, <2>1, <2>2
<1>4. CASE id_to_price' = id_to_price
    <2>1. Assigned(p, s) => p \in DOMAIN id_to_price' /\ id_to_price'[p] = s
        BY DEF Assigned, With
    <2>2. id_to_price' = Gone(id_to_price, p) => p \notin DOMAIN id_to_price'
        BY DEF Gone
    <2> QED
        BY <1>1, <1>4, <2>1, <2>2
<1> QED
    BY <1>2, <1>3, <1>4

\* What an entry leaves the level with: how it is tracked, and its rows.
Leaves(e, s) ==
    LET p == e.id
        q == Scaled(e.size)
    IN  \/ /\ Nothing
           /\ \/ e.action = "trade"
              \/ ~Known(p)
              \/ p \in stale /\ e.action # "delete"
        \/ e.action = "trade" /\ TradesOn(e)
        \/ e.action \in {"update", "delete"} /\ Withdraws(p)
        \/ /\ e.action \in {"partial", "insert", "update"} /\ q > 0
           /\ e.action = "update" => Known(p)
           /\ Adds(p, s, q) \/ Replaces(p, s, q)
           /\ p \in DOMAIN exch /\ q = Scaled(exch[p].size) /\ (p \in stale \/ s = exch[p].side)

LEMMA EntryLeaves ==
    ASSUME BMExchangeOK, BMLevelsOK, BMConvert, NEW e, e = wire[1]
    PROVE  \E s \in Side : Leaves(e, s)
<1> DEFINE p == e.id
           q == Scaled(e.size)
<1>1. /\ wire # << >> /\ e \in BMEntry /\ p \in Price /\ e.side \in Side /\ q \in Nat
      /\ connected /\ 1 \in DOMAIN wire /\ Says(e)
    <2>1. wire # << >>
        BY DEF BMConvert
    <2>2. e \in BMEntry /\ p \in Price /\ e.side \in Side /\ q \in Nat
        BY <2>1, EntryTypes
    <2>3. connected /\ 1 \in DOMAIN wire
        BY WireTaken
    <2> QED
        BY <2>1, <2>2, <2>3 DEF BMLevelsOK
<1>2. Outcome(e)
    BY ConvertOutcome
<1>3. CASE e.action \in {"partial", "insert"}
    <2>1. /\ p \in DOMAIN exch /\ e.side = exch[p].side /\ e.size = exch[p].size
          /\ q = 0 /\ Known(p) => p \in stale
        BY <1>1, <1>3 DEF Says, Known
    <2>2. (q = 0 /\ Nothing) \/ (q > 0 /\ (Adds(p, e.side, q) \/ Replaces(p, e.side, q)))
        BY <1>2, <1>3 DEF Outcome
    <2>3. Leaves(e, e.side)
        BY <1>1, <1>3, <2>1, <2>2 DEF Leaves
    <2> QED
        BY <1>1, <2>3
<1>4. CASE e.action = "update"
    <2>1. p \in DOMAIN exch /\ e.size = exch[p].size
        BY <1>1, <1>4 DEF Says
    <2>2. CASE ~Known(p) /\ Nothing
        BY <1>1, <1>4, <2>2 DEF Leaves
    <2>3. CASE q = 0 /\ Withdraws(p)
        BY <1>1, <1>4, <2>3 DEF Leaves
    <2>4. CASE q > 0 /\ Replaces(p, id_to_price[p], q)
        <3>1. Known(p) /\ id_to_price[p] \in Side
            BY <2>4 DEF Replaces, Known, BMExchangeOK
        <3>2. p \in stale \/ id_to_price[p] = exch[p].side
            <4>1. ASSUME Renewed(p) PROVE FALSE
                <5>1. PICK k \in DOMAIN wire : wire[k].id = p /\ Renews(wire[k])
                    BY <4>1 DEF Renewed
                <5>2. wire[k].action = e.action /\ Says(wire[k])
                    BY <1>1, <1>4, <5>1 DEF BMLevelsOK, Renews
                <5>3. wire[k].size = e.size
                    BY <1>4, <2>1, <5>1, <5>2 DEF Says
                <5> QED
                    BY <1>4, <2>4, <5>1, <5>2, <5>3 DEF Renews
            <4> QED
                BY <1>1, <2>1, <3>1, <4>1 DEF BMLevelsOK, Known
        <3>3. Leaves(e, id_to_price[p])
            BY <1>4, <2>1, <2>4, <3>1, <3>2 DEF Leaves
        <3> QED
            BY <3>1, <3>3
    <2> QED
        BY <1>2, <1>4, <2>2, <2>3, <2>4 DEF Outcome
<1>5. CASE e.action = "delete"
    BY <1>1, <1>2, <1>5 DEF Outcome, Leaves
<1>6. CASE e.action = "trade"
    BY <1>1, <1>2, <1>6 DEF Outcome, Leaves
<1> QED
    BY <1>1, <1>3, <1>4, <1>5, <1>6 DEF BMEntry

LEMMA ConvertLevels ==
    ASSUME BMExchangeOK, BMLevelsOK, BMConvert, NEW e, e = wire[1], NEW s \in Side, Leaves(e, s)
    PROVE  BMLevelsOK'
<1> DEFINE p == e.id
<1>1. exch' = exch /\ connected' = connected /\ stale' = stale /\ connected
    BY WireTaken DEF BMConvert, history
<1>2. p \in Price /\ 1 \in DOMAIN wire /\ Says(e) /\ e \in BMEntry
    <2>1. wire # << >>
        BY DEF BMConvert
    <2>2. e \in BMEntry /\ p \in Price
        BY <2>1, EntryTypes
    <2>3. 1 \in DOMAIN wire
        BY WireTaken
    <2> QED
        BY <2>2, <2>3 DEF BMLevelsOK
<1>3. /\ DOMAIN id_to_price' \subseteq Price
      /\ \A r \in Price \ {p} : /\ r \in DOMAIN id_to_price' <=> r \in DOMAIN id_to_price
                                /\ r \in DOMAIN id_to_price => id_to_price'[r] = id_to_price[r]
      /\ Assigned(p, s) => p \in DOMAIN id_to_price' /\ id_to_price'[p] = s
      /\ id_to_price' = Gone(id_to_price, p) => p \notin DOMAIN id_to_price'
    <2>1. Assigned(p, s) \/ id_to_price' = Gone(id_to_price, p) \/ id_to_price' = id_to_price
        BY DEF Leaves, Nothing, TradesOn, Withdraws, Adds, Replaces
    <2> QED
        BY <1>2, <2>1, IdsAfter
<1>4. e.action = "trade" => id_to_price' = id_to_price
    BY DEF Leaves, Nothing, TradesOn
<1>5. ASSUME p \in DOMAIN id_to_price', e.action # "trade"
      PROVE  /\ e.action # "delete"
             /\ p \in stale \/ (p \in DOMAIN exch /\ id_to_price'[p] = exch[p].side)
             /\ \/ p \in DOMAIN id_to_price
                \/ e.action \in {"partial", "insert"} /\ Scaled(e.size) > 0
    BY <1>3, <1>5 DEF Leaves, Nothing, Withdraws, Adds, Replaces, Known
<1> HIDE DEF p
<1>6. ASSUME NEW r \in DOMAIN id_to_price'
      PROVE  r \in stale \/ r \in DOMAIN exch \/ Deleting(r)'
    <2>1. CASE r # p \/ e.action = "trade"
        <3>1. r \in Price /\ r \in DOMAIN id_to_price /\ (Deleting(r)' <=> Deleting(r))
            <4>1. r \in Price /\ r \in DOMAIN id_to_price
                BY <1>3, <1>4, <2>1
            <4> QED
                BY <2>1, <4>1, WireTaken DEF p
        <3> QED
            BY <3>1 DEF BMLevelsOK
    <2>2. CASE r = p /\ e.action # "trade"
        BY <1>5, <1>6, <2>2
    <2> QED
        BY <2>1, <2>2
<1>7. ASSUME NEW r \in DOMAIN id_to_price'
      PROVE  r \notin DOMAIN exch \/ r \in stale \/ Renewed(r)' \/ id_to_price'[r] = exch[r].side
    <2>1. CASE r # p \/ e.action = "trade"
        <3>1. r \in Price /\ r \in DOMAIN id_to_price /\ id_to_price'[r] = id_to_price[r]
            BY <1>3, <1>4, <2>1
        <3>2. Renewed(r)' <=> Renewed(r)
            BY <2>1, <3>1, WireTaken DEF p, Renews
        <3> QED
            BY <1>1, <3>1, <3>2 DEF BMLevelsOK
    <2>2. CASE r = p /\ e.action # "trade"
        BY <1>5, <1>7, <2>2
    <2> QED
        BY <2>1, <2>2
<1>8. ASSUME NEW k \in DOMAIN wire'
      PROVE  Says(wire[k])' /\ k + 1 \in DOMAIN wire /\ wire'[k] = wire[k + 1]
    <2>1. k + 1 \in DOMAIN wire /\ wire'[k] = wire[k + 1]
        BY WireTaken
    <2>2. PICK d : d = wire[k + 1]
        OBVIOUS
    <2>3. Says(d)
        BY <2>1, <2>2 DEF BMLevelsOK
    <2>4. ASSUME d.action \in {"partial", "insert"}, d.size = exch[d.id].size, Scaled(d.size) = 0,
                 d.id \in DOMAIN id_to_price'
          PROVE  d.id \in DOMAIN id_to_price
        <3>1. CASE d.id # p \/ e.action = "trade"
            BY <1>3, <1>4, <2>4, <3>1
        <3>2. CASE d.id = p /\ e.action # "trade"
            <4>1. e.action \in {"partial", "insert"} => e.size = exch[p].size
                BY <1>2 DEF Says, p
            <4> QED
                BY <1>5, <2>4, <3>2, <4>1
        <3> QED
            BY <3>1, <3>2
    <2>5. PICK x : x = id_to_price'
        OBVIOUS
    <2>6. \/ d.action = "trade"
          \/ /\ d.action \in {"partial", "insert"} /\ d.id \in DOMAIN exch
             /\ d.side = exch[d.id].side /\ d.size = exch[d.id].size
             /\ Scaled(d.size) = 0 /\ d.id \in DOMAIN x => d.id \in stale
          \/ d.action = "update" /\ d.id \in DOMAIN exch /\ d.size = exch[d.id].size
          \/ d.action = "delete" /\ d.id \notin DOMAIN exch
        BY <2>3, <2>4, <2>5 DEF Says
    <2> QED
        BY <1>1, <2>1, <2>2, <2>5, <2>6 DEF Says
<1>9. \A j, k \in DOMAIN wire' :
        wire'[j].action # "trade" /\ wire'[k].action # "trade" => wire'[j].action = wire'[k].action
    BY <1>8 DEF BMLevelsOK
<1> QED
    BY <1>1, <1>6, <1>7, <1>8, <1>9 DEF BMLevelsOK

LEMMA ConvertTracking ==
    ASSUME BMExchangeOK, BMExchangeOK', BMTrackingOK, BMConvert,
           NEW e, e = wire[1], NEW s \in Side, Leaves(e, s)
    PROVE  BMTrackingOK'
<1> DEFINE p == e.id
           q == Scaled(e.size)
<1>1. wire # << >> /\ Replayed /\ rows = << >> /\ UNCHANGED engineVars
    BY DEF BMConvert, Replayed
<1>2. e \in BMEntry /\ p \in Price /\ e.side \in Side /\ q \in Nat /\ q <= MaxQty
    BY <1>1, EntryTypes
<1>3. \A t \in Side, r \in Price :
        /\ Caps[t][r] \in Nat /\ Caps'[t][r] \in Nat /\ Caps[t][r] <= MaxQty
        /\ r # p \/ e.action = "trade" => Caps'[t][r] = Caps[t][r]
        /\ Caps'[t][r] = MaxQty \/ (r \notin stale /\ Caps'[t][r] = Due(t, r))
    BY ConvertCaps
<1>4. \A t \in Side, r \in Price \ {p} : Caps'[t][r] = Caps[t][r]
    BY <1>3
<1>5. PICK d : d = Caps'
    OBVIOUS
<1> HIDE DEF p, q
<1>6. p \in OrderId /\ 0 \in OrderId /\ q \in Quantity /\ 0 \in Quantity
    BY <1>2, BitmexAssumption, MaxQtyAssumption DEF Quantity
<1>7. CASE Nothing /\ (e.action = "trade" \/ ~Known(p) \/ p \in stale)
    <2>1. rows' = << >> /\ id_to_price' = id_to_price /\ id_to_price' = id_to_price
        BY <1>7 DEF Nothing
    <2>2. rows' \in Seq(TapeRow) /\ DOMAIN rows' = {}
        BY <2>1
    <2>3. \A t \in Side : ~Known(p) \/ Caps[t][p] <= Caps'[t][p]
        <3>1. p \in stale => \A t \in Side : Caps'[t][p] = MaxQty
            BY <1>2, <1>3
        <3> QED
            BY <1>2, <1>3, <1>7, <3>1
    <2> QED
        BY <1>1, <1>2, <1>4, <2>1, <2>2, <2>3, OutcomeTracks DEF Known
<1>8. CASE e.action = "trade" /\ TradesOn(e)
    <2> DEFINE a == Row("Trade", e.side, e.id, Scaled(e.size), 0)
    <2>1. a \in TapeRow /\ a.type = "Trade"
        BY <1>2, <1>6 DEF Row, TapeRow, p, q
    <2>2. rows' = <<a>> /\ id_to_price' = id_to_price
        BY <1>8 DEF TradesOn
    <2> HIDE DEF a
    <2>3. rows' \in Seq(TapeRow) /\ DOMAIN rows' = {1} /\ rows'[1] = a
        BY <2>1, <2>2, OneRow
    <2>4. \A t \in Side : Caps[t][p] <= Caps'[t][p]
        BY <1>2, <1>3, <1>8
    <2> QED
        BY <1>1, <1>2, <1>4, <2>1, <2>2, <2>3, <2>4, OutcomeTracks DEF Known
<1>9. CASE Withdraws(p)
    <2> DEFINE c == Row("Cancel", id_to_price[p], p, 0, p)
    <2>1. c \in TapeRow /\ c.type = "Cancel" /\ c.id = p
        <3>1. id_to_price[p] \in Side
            BY <1>9 DEF Withdraws, Known, BMExchangeOK
        <3> QED
            BY <1>2, <1>6, <3>1 DEF Row, TapeRow
    <2>2. rows' = <<c>> /\ id_to_price' = Gone(id_to_price, p)
        BY <1>9 DEF Withdraws
    <2> HIDE DEF c
    <2>3. rows' \in Seq(TapeRow) /\ rows' # << >> /\ DOMAIN rows' = {1} /\ rows'[1] = c
        BY <2>1, <2>2, OneRow
    <2>4. \A r \in Price \ {p} : /\ r \in DOMAIN id_to_price' <=> r \in DOMAIN id_to_price
                                 /\ r \in DOMAIN id_to_price => id_to_price'[r] = id_to_price[r]
        BY <1>2, <2>2, IdsAfter
    <2> QED
        BY <1>1, <1>2, <1>4, <2>1, <2>3, <2>4, OutcomeTracks
<1>10. ASSUME Adds(p, s, q) \/ Replaces(p, s, q), p \in DOMAIN exch, q = Scaled(exch[p].size),
              p \in stale \/ s = exch[p].side
       PROVE  BMTrackingOK'
    <2> DEFINE a == Row("Add", s, p, q, p)
               c == Row("Cancel", s, p, 0, p)
    <2>1. /\ a \in TapeRow /\ a.type = "Add" /\ a.id = p /\ a.price = p /\ a.side = s /\ a.qty = q
          /\ c \in TapeRow /\ c.type = "Cancel" /\ c.id = p
        BY <1>2, <1>6 DEF Row, TapeRow
    <2>2. Assigned(p, s)
        BY <1>10 DEF Adds, Replaces
    <2>3. (rows' = <<a>> /\ ~Known(p)) \/ rows' = <<c>> \o <<a>>
        BY <1>10 DEF Adds, Replaces
    <2> HIDE DEF a, c
    <2>4. /\ p \in DOMAIN id_to_price' /\ id_to_price'[p] = s
          /\ \A r \in Price \ {p} : /\ r \in DOMAIN id_to_price' <=> r \in DOMAIN id_to_price
                                    /\ r \in DOMAIN id_to_price => id_to_price'[r] = id_to_price[r]
        BY <1>2, <2>2, IdsAfter
    <2>5. q <= Caps'[s][p]
        <3>1. s = exch[p].side => Due(s, p) = q
            BY <1>10 DEF Due
        <3>2. Caps'[s][p] = MaxQty \/ (p \notin stale /\ Caps'[s][p] = Due(s, p))
            BY <1>2, <1>3
        <3> QED
            BY <1>2, <1>10, <3>1, <3>2
    <2>6. CASE rows' = <<a>> /\ ~Known(p)
        <3>1. rows' \in Seq(TapeRow) /\ DOMAIN rows' = {1} /\ rows'[1] = a
            BY <2>1, <2>6, OneRow
        <3> QED
            BY <1>1, <1>2, <1>4, <2>1, <2>4, <2>5, <2>6, <3>1, OutcomeTracks
    <2>7. CASE rows' = <<c>> \o <<a>>
        <3>1. rows' \in Seq(TapeRow) /\ rows' # << >> /\ DOMAIN rows' = {1, 2} /\ rows'[1] = c
              /\ rows'[2] = a
            <4>1. rows' = <<c, a>>
                BY <2>1, <2>7, TwoRows
            <4> QED
                BY <2>1, <4>1
        <3>2. \A k \in DOMAIN rows' :
                 /\ rows'[k].type = "Add" =>
                      /\ rows'[k].id = p /\ rows'[k].price = p
                      /\ p \in DOMAIN id_to_price' /\ rows'[k].side = id_to_price'[p]
                      /\ rows'[k].qty <= Caps'[rows'[k].side][p]
                 /\ rows'[k].type = "Cancel" => k = 1
            BY <2>1, <2>4, <2>5, <3>1
        <3> QED
            BY <1>1, <1>2, <1>4, <2>1, <2>4, <3>1, <3>2, OutcomeTracks
    <2> QED
        BY <2>3, <2>6, <2>7
<1> QED
    BY <1>7, <1>8, <1>9, <1>10 DEF Leaves, p, q

LEMMA ConvertBMInv ==
    ASSUME BMInv, BMConvert
    PROVE  BMInv'
<1>1. BMExchangeOK /\ BMLevelsOK /\ BMTrackingOK
    BY DEF BMInv
<1>2. PICK e : e = wire[1]
    OBVIOUS
<1>3. PICK s \in Side : Leaves(e, s)
    BY <1>1, <1>2, EntryLeaves
<1>4. e.id \in Price
    <2>1. wire # << >>
        BY DEF BMConvert
    <2> QED
        BY <1>1, <1>2, <2>1, EntryTypes
<1>5. DOMAIN id_to_price' \subseteq Price /\ id_to_price' \in [DOMAIN id_to_price' -> Side]
    <2>1. Assigned(e.id, s) \/ id_to_price' = Gone(id_to_price, e.id) \/ id_to_price' = id_to_price
        BY <1>3 DEF Leaves, Nothing, TradesOn, Withdraws, Adds, Replaces
    <2> QED
        BY <1>1, <1>4, <2>1, IdsAfter
<1>6. BMExchangeOK'
    BY <1>1, <1>5, ConvertExchange
<1>7. BMLevelsOK'
    BY <1>1, <1>2, <1>3, ConvertLevels
<1>8. BMTrackingOK'
    BY <1>1, <1>2, <1>3, <1>6, ConvertTracking
<1> QED
    BY <1>6, <1>7, <1>8 DEF BMInv

LEMMA ReplayBMInv ==
    ASSUME BMInv, BMReplay
    PROVE  BMInv'
<1>1. /\ ReplayStep /\ exch' = exch /\ connected' = connected /\ wire' = wire
      /\ id_to_price' = id_to_price /\ stale' = stale
      /\ BMExchangeOK /\ BMLevelsOK /\ BMTrackingOK
    BY DEF BMReplay, BMInv, history
<1>2. BMExchangeOK' /\ BMLevelsOK'
    <2>1. BMExchangeOK'
        BY <1>1 DEF BMExchangeOK
    <2>2. BMLevelsOK'
        BY <1>1 DEF BMLevelsOK, Deleting, Renewed, Says
    <2> QED
        BY <2>1, <2>2
<1>3. PICK i, c : i = BMIds /\ c = Caps
    OBVIOUS
<1>4. BMIds' = i /\ Caps' = c
    BY <1>1, <1>3 DEF BMIds, Caps, Pending, Due
<1>5. c \in Levels0
    BY <1>1, <1>3, CapsAreLevels
<1>6. IInv /\ rows \in Seq(TapeRow) /\ Tracks(i, c)
    BY <1>1, <1>3 DEF BMTrackingOK
<1>7. IInv' /\ rows' \in Seq(TapeRow) /\ Tracks(i, c)'
    BY <1>1, <1>5, <1>6, ReplayTracks
<1>8. Tracks(BMIds, Caps)'
    BY <1>4, <1>7
<1> QED
    BY <1>2, <1>7, <1>8 DEF BMInv, BMTrackingOK

LEMMA StepBMInv == BMInv /\ [BMNext]_bmVars => BMInv'
<1> SUFFICES ASSUME BMInv, [BMNext]_bmVars PROVE BMInv'
    OBVIOUS
<1>1. CASE UNCHANGED bmVars
    <2>1. /\ UNCHANGED engineVars /\ rows' = rows /\ exch' = exch /\ connected' = connected
          /\ wire' = wire /\ id_to_price' = id_to_price /\ stale' = stale
          /\ book' = book /\ in' = in /\ phase' = phase
          /\ BMExchangeOK /\ BMLevelsOK /\ BMTrackingOK
        BY <1>1 DEF bmVars, history, BMInv, engineVars
    <2>2. BMExchangeOK'
        BY <2>1 DEF BMExchangeOK
    <2>3. BMLevelsOK'
        BY <2>1 DEF BMLevelsOK, Deleting, Renewed, Says
    <2>4. PICK i, c : i = BMIds /\ c = Caps
        OBVIOUS
    <2>5. BMIds' = i /\ Caps' = c
        BY <2>1, <2>4 DEF BMIds, Caps, Pending, Due
    <2>6. IInv /\ Tracks(i, c)
        BY <2>1, <2>4 DEF BMTrackingOK
    <2>7. IInv' /\ Tracks(i, c)'
        BY <2>1, <2>6, TracksKept, EngineRests
    <2>8. Tracks(BMIds, Caps)'
        BY <2>5, <2>7
    <2> QED
        BY <2>1, <2>2, <2>3, <2>7, <2>8 DEF BMInv, BMTrackingOK
<1>2. CASE BMNext
    BY <1>2, ExchangeBMInv, ConnectBMInv, DropBMInv, ConvertBMInv, ReplayBMInv DEF BMNext
<1> QED
    BY <1>1, <1>2

LEMMA BMInvFollows == BMInv => EveryOrderIsTracked /\ NoLevelIsDeeper
<1> SUFFICES ASSUME BMInv, BMQuiet PROVE EveryOrderIsTracked /\ NoLevelIsDeeper
    BY DEF EveryOrderIsTracked, NoLevelIsDeeper
<1>1. /\ DOMAIN wire = {} /\ Replayed /\ rows = << >> /\ phase = "idle"
    BY DEF BMQuiet, Replayed
<1>2. BMExchangeOK /\ BMTrackingOK /\ IInv /\ WellFormed(book)
    BY InvBook DEF BMInv, BMTrackingOK
<1>3. EveryOrderIsTracked
    <2> SUFFICES ASSUME NEW id \in Resting(book)
                 PROVE  /\ Known(id)
                        /\ book.index[id] = [side |-> id_to_price[id], price |-> id]
        BY DEF EveryOrderIsTracked
    <2>1. PICK s, p : s = book.index[id].side /\ p = book.index[id].price
        OBVIOUS
    <2>2. Owns(BMIds, Caps, id, s, p, Entry(book, id).qty)
        BY <1>1, <1>2, <2>1 DEF BMTrackingOK, Tracks, Withdrawn
    <2>3. s \in Side /\ p \in Price /\ id # 0 /\ BMIds[s][p] = id
        BY <2>2 DEF Owns
    <2>4. id = p /\ id \in DOMAIN id_to_price /\ id_to_price[id] = s
        BY <2>3, BMIdAt
    <2>5. book.index[id] = [side |-> book.index[id].side, price |-> book.index[id].price]
        BY <1>2 DEF WellFormed, Locator, IsBook
    <2> QED
        BY <2>1, <2>4, <2>5 DEF Known
<1>4. NoLevelIsDeeper
    <2> SUFFICES ASSUME connected, NEW s \in Side, NEW p \in Price, p \notin stale
                 PROVE  OnTape(s, p) <= Due(s, p)
        BY DEF NoLevelIsDeeper
    <2>1. PICK i, c : i = BMIds /\ c = Caps
        OBVIOUS
    <2>2. c \in Levels0 /\ Tracks(i, c)
        BY <1>2, <2>1, CapsAreLevels DEF BMTrackingOK
    <2>3. OnTape(s, p) <= c[s][p]
        BY <1>1, <1>2, <2>2, TrackedLevels
    <2>4. ~Pending(p)
        BY <1>1 DEF Pending
    <2>5. Caps[s][p] = Due(s, p)
        BY <1>2, <2>4, CapAt
    <2> QED
        BY <2>1, <2>3, <2>5
<1> QED
    BY <1>3, <1>4

\* For every unit, every finite set of prices, any sizes and number of messages,
\* drops and partials: the rows that bitmex_ws_to_csv.py writes hold no order that
\* a delete could not reach; and but for levels whose end, or last listing, was missed,
\* no level of the tape is deeper than the exchange's, whichever of a trade and
\* its resize is converted first.
THEOREM BitmexBookIsBounded == BMSpec => [](EveryOrderIsTracked /\ NoLevelIsDeeper)
<1>1. BMInit => BMInv
    BY InitBMInv
<1>2. BMInv /\ [BMNext]_bmVars => BMInv'
    BY StepBMInv
<1>3. BMInv => EveryOrderIsTracked /\ NoLevelIsDeeper
    BY BMInvFollows
<1> QED
    BY <1>1, <1>2, <1>3, PTL DEF BMSpec
=============================================================================
