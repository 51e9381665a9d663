--------------------------- MODULE MapBookRefinement ---------------------------
(***************************************************************************)
(* The baseline book implements the same price-time priority book as the   *)
(* engine.  MapOrderBook stores neither an arrival number nor the original *)
(* quantity of an order; arrivals remembers both for the refinement.       *)
(***************************************************************************)
EXTENDS MapOrderBook

VARIABLE arrivals  \* the orders that came to rest, oldest first

NewIds == DOMAIN index' \ DOMAIN index

Remember ==
  arrivals' = IF NewIds = {} THEN arrivals
              ELSE Append(arrivals, [id |-> call.id, qty |-> call.qty])

HInit == Init /\ arrivals = << >>
HSpec == HInit /\ [][Next /\ Remember]_<<vars, arrivals>>

ArrivalOf(id) == CHOOSE k \in DOMAIN arrivals : arrivals[k].id = id

(* The abstract book knows ids as handles.                                  *)
IdOf(n) == MakeHandle(0, n)

ClientOrder(o) ==
  [id |-> IdOf(o.id), side |-> o.side, price |-> o.price, qty |-> arrivals[ArrivalOf(o.id)].qty,
   remaining |-> o.remaining, participant |-> Anonymous, seq |-> ArrivalOf(o.id)]

(* A market order that met an empty side from the start: the engine would   *)
(* have rejected it, and here it comes to nothing.                          *)
MetNobody ==
  call.market /\ call.remaining = call.qty /\ DOMAIN levels[MakerSide] = {}

ClientTaker ==
  IF call.active /\ ~ MetNobody
  THEN [active |-> TRUE, market |-> call.market, id |-> IdOf(call.id), side |-> call.side,
        price |-> call.price, qty |-> call.qty, remaining |-> call.remaining,
        tif |-> IF call.market THEN "IOC" ELSE "GTC", participant |-> Anonymous]
  ELSE [active |-> FALSE, market |-> FALSE, id |-> InvalidOrderId, side |-> "Buy",
        price |-> 0, qty |-> 0, remaining |-> 0, tif |-> "GTC", participant |-> Anonymous]

ClientTape ==
  [k \in DOMAIN trades |->
     [taker |-> IdOf(trades[k].taker), maker |-> IdOf(trades[k].maker),
      price |-> trades[k].price,
      qty |-> trades[k].qty, side |-> trades[k].side]]

PriceTime ==
  INSTANCE PriceTimeBook WITH
    Id          <- {IdOf(n) : n \in 1 .. MaxIds},
    Price       <- Prices \cup {0},
    Quantity    <- Nat,
    Participant <- {Anonymous},
    orders      <- {ClientOrder(o) : o \in OrdersOf("Buy") \cup OrdersOf("Sell")},
    taker       <- ClientTaker,
    stp         <- "None",
    clock       <- Len(arrivals) + 1,
    tape        <- ClientTape

(* Every step of book_map.hpp is a step of the price-time priority book:    *)
(* begin() of the ordered map is the best price on both sides, the front of *)
(* its list the oldest order, and cancel() takes out that order alone.      *)
ImplementsPriceTime == PriceTime!Spec
===============================================================================
