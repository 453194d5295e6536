------------------------------ MODULE MCFeeds -------------------------------
(***************************************************************************)
(* The four sources a tape comes from, one of them in each behaviour: a    *)
(* backtest reads one feed.  The three converters share the rows and the   *)
(* engine that replays them; the variables of the other sources rest, each *)
(* before something that nobody reads, so that only the property of the    *)
(* source has something to say.                                            *)
(*   Kraken     three prices; sizes of nothing, dust, one and two units    *)
(*   BitMEX     three levels, with the same sizes                          *)
(*   LOBSTER    three orders                                               *)
(*   synthetic  a ring of two orders and one level a side; the mid reaches *)
(*              its floor                                                  *)
(***************************************************************************)
EXTENDS SyntheticFeed, KrakenConverter, BitmexConverter, LobsterConverter

VARIABLE source

replay == <<engineVars, rows, n>>
kraken == <<quotes, subscribed, socket, ids, next_id, fresh>>
bitmex == <<exch, connected, wire, id_to_price, history>>
lobster == <<visible, message, remaining, born, overtaken>>
synthetic == sfVars
feedVars == <<source, replay, kraken, bitmex, lobster, synthetic>>

KrakenAtRest ==
    /\ quotes = Nowhere /\ subscribed = FALSE /\ socket = <<[what |-> "snapshot"]>>
    /\ ids = Nowhere /\ next_id = 1 /\ fresh = FALSE
BitmexAtRest ==
    /\ exch = << >> /\ connected = FALSE /\ wire = <<[action |-> "partial"]>>
    /\ id_to_price = << >>
    /\ late = {} /\ stale = {} /\ dust = {}
LobsterAtRest ==
    /\ visible = NoOrders /\ message = [type |-> 5]
    /\ remaining = << >> /\ born = 0 /\ overtaken = FALSE

FeedsInit ==
    \/ /\ source = "kraken" /\ KRInit
       /\ BitmexAtRest /\ LobsterAtRest /\ SFInit
    \/ /\ source = "bitmex" /\ BMInit
       /\ KrakenAtRest /\ LobsterAtRest /\ SFInit
    \/ /\ source = "lobster" /\ LBInit
       /\ KrakenAtRest /\ BitmexAtRest /\ SFInit
    \/ /\ source = "synthetic" /\ SFInit
       /\ ReplayInit /\ KrakenAtRest /\ BitmexAtRest /\ LobsterAtRest

FeedsNext ==
    /\ UNCHANGED source
    /\ \/ /\ source = "kraken" /\ KRNext
          /\ UNCHANGED <<bitmex, lobster, synthetic>>
       \/ /\ source = "bitmex" /\ BMNext
          /\ UNCHANGED <<kraken, lobster, synthetic>>
       \/ /\ source = "lobster" /\ LBNext
          /\ UNCHANGED <<kraken, bitmex, synthetic>>
       \/ /\ source = "synthetic" /\ SFNext
          /\ UNCHANGED <<replay, kraken, bitmex, lobster>>

FeedsSpec == FeedsInit /\ [][FeedsNext]_feedVars
=============================================================================
