-------------------------- MODULE OrderBookRefinement --------------------------
(***************************************************************************)
(* The matching engine implements the price-time priority book.            *)
(***************************************************************************)
EXTENDS OrderBook

(* The order a slot holds, as its client sees it.                           *)
ClientOrder(s) ==
  LET o == book.pool[s]
  IN [id |-> o.id, side |-> o.side, price |-> o.price, qty |-> o.qty,
      remaining |-> o.remaining, participant |-> o.participant, seq |-> o.seq]

ClientTaker ==
  [active |-> call.active, market |-> call.market, id |-> call.id,
   side |-> call.side, price |-> call.price, qty |-> call.qty,
   remaining |-> call.remaining, tif |-> call.tif, participant |-> call.participant]

ClientTape ==
  [k \in DOMAIN trades |->
     [taker |-> trades[k].taker, maker |-> trades[k].maker, price |-> trades[k].price,
      qty |-> trades[k].qty, side |-> trades[k].side]]

PriceTime ==
  INSTANCE PriceTimeBook WITH
    Id          <- OrderId,
    Price       <- {ToPrice(i) : i \in Index} \cup {0},
    Participant <- Participants,
    orders      <- {ClientOrder(s) : s \in RestingSlots(book)},
    taker       <- ClientTaker,
    clock       <- nextSeq,
    tape        <- ClientTape

(* Every step of order_book.cpp is a step of the price-time priority book:  *)
(* the head of the best level is the order with priority, a taker leaves no *)
(* order in reach behind, a reduction keeps its place and an increase loses *)
(* it.  Slots, links, bitmaps and cached prices are nobody's business.      *)
ImplementsPriceTime == PriceTime!Spec
===============================================================================
