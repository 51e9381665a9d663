----------------------------- MODULE MapOrderBook ------------------------------
(***************************************************************************)
(* lob::MapOrderBook, the baseline book the benchmark measures the engine  *)
(* against: a map from price to a list of orders on each side, and an      *)
(* index from id to the place of the order.  It has no self-trade          *)
(* prevention, no time in force and no checks: the benchmark sends         *)
(* positive quantities.  match() is split into steps as in OrderBook.tla.  *)
(***************************************************************************)
EXTENDS LobTypes, Sequences, FiniteSets

CONSTANTS
  Prices,      \* limit prices the benchmark sends
  Quantities,  \* quantities it sends
  MaxIds       \* bound: orders submitted

ASSUME StreamAssumption ==
  Prices \subseteq Int /\ Quantities \subseteq Nat \ {0} /\ MaxIds \in Nat

VARIABLES
  levels,    \* bids_ and asks_
  index,     \* index_
  call,      \* the submit_limit() or submit_market() under way
  trades,    \* trades_
  nextId,    \* next_id_
  tradeSeq,  \* trade_seq_
  result     \* the last Result: status, filled, remaining and resting

vars == <<levels, index, call, trades, nextId, tradeSeq, result>>

MOrder == [id : 1 .. MaxIds, price : Prices, remaining : Nat \ {0}, side : Side]

(* The iterator of a Handle is the order's node in the list of its level,   *)
(* here found by the id.                                                    *)
Handle == [side : Side, price : Prices]

NoCall ==
  [active |-> FALSE, market |-> FALSE, side |-> "Buy", price |-> 0, qty |-> 0,
   id |-> 0, remaining |-> 0, notional |-> 0]

NoResult ==
  [id |-> 0, status |-> "Rejected", filled |-> 0, remaining |-> 0, notional |-> 0,
   resting |-> FALSE]

Init ==
  /\ levels = [d \in Side |-> << >>]
  /\ index = << >>
  /\ call = NoCall
  /\ trades = << >>
  /\ nextId = 1
  /\ tradeSeq = 1
  /\ result = NoResult
-------------------------------------------------------------------------------
(* std::map and std::unordered_map.                                         *)
Without(f, k)   == [j \in DOMAIN f \ {k} |-> f[j]]
Having(f, k, v) == [j \in DOMAIN f \cup {k} |-> IF j = k THEN v ELSE f[j]]

(* Mutant of Ahead: bids_ is ordered like asks_.                            *)
AheadAscending(side, p, q) == p < q

(* The order of the keys of a side: descending bids_, ascending asks_.      *)
Ahead(side, p, q) == IF side = "Buy" THEN p > q ELSE p < q

(* begin()->first.                                                          *)
BestPrice(side) ==
  CHOOSE p \in DOMAIN levels[side] :
    \A q \in DOMAIN levels[side] \ {p} : Ahead(side, p, q)

Enter(market, side, price, qty) ==
  /\ ~ call.active
  /\ nextId <= MaxIds
  /\ call' = [active |-> TRUE, market |-> market, side |-> side, price |-> price,
              qty |-> qty, id |-> nextId, remaining |-> qty, notional |-> 0]
  /\ nextId' = nextId + 1
  /\ UNCHANGED <<levels, index, trades, tradeSeq, result>>

SubmitLimit(side, price, qty) == Enter(FALSE, side, price, qty)
SubmitMarket(side, qty) == Enter(TRUE, side, 0, qty)

MakerSide == Opposite(call.side)

Crosses ==
  /\ DOMAIN levels[MakerSide] # {}
  /\ \/ call.market
     \/ ~ Ahead(MakerSide, call.price, BestPrice(MakerSide))

(* Mutant of Forget: a filled order stays in the index.                     *)
ForgetNot(id) == index

Forget(id) == Without(index, id)

(* Mutant of LevelAfter: an emptied level stays in the map.                 *)
LevelAfterKept(side, p, lv) == [levels EXCEPT ![side] = Having(@, p, lv)]

(* A level that has lost its last order leaves the map.                     *)
LevelAfter(side, p, lv) ==
  [levels EXCEPT ![side] = IF lv = << >> THEN Without(@, p) ELSE Having(@, p, lv)]

(* One iteration of the inner loop of match(), with the end of the outer    *)
(* one when it emptied the level.                                           *)
Fill ==
  /\ call.active /\ call.remaining > 0 /\ Crosses
  /\ LET px    == BestPrice(MakerSide)
         lv    == levels[MakerSide][px]
         maker == Head(lv)
         q     == Smaller(call.remaining, maker.remaining)
         gone  == maker.remaining = q
     IN /\ levels' = LevelAfter(MakerSide, px,
                       IF gone THEN Tail(lv) ELSE [lv EXCEPT ![1].remaining = @ - q])
        /\ index' = IF gone THEN Forget(maker.id) ELSE index
        /\ call' = [call EXCEPT !.remaining = @ - q, !.notional = @ + px * q]
        /\ trades' = Append(trades, [seq |-> tradeSeq, taker |-> call.id,
                                     maker |-> maker.id, price |-> px, qty |-> q,
                                     side |-> call.side])
        /\ tradeSeq' = tradeSeq + 1
  /\ UNCHANGED <<nextId, result>>

Matched == call.active /\ (call.remaining = 0 \/ ~ Crosses)

Return(status, resting) ==
  /\ call' = NoCall
  /\ result' = [id |-> call.id, status |-> status, filled |-> call.qty - call.remaining,
                remaining |-> call.remaining, notional |-> call.notional,
                resting |-> resting]
  /\ UNCHANGED <<trades, nextId, tradeSeq>>

(* What is left of a limit order joins the back of its level, which is      *)
(* created if need be.                                                      *)
ReturnResting ==
  /\ Matched
  /\ call.remaining > 0 /\ ~ call.market
  /\ LET side == call.side
         p    == call.price
         lv   == IF p \in DOMAIN levels[side] THEN levels[side][p] ELSE << >>
     IN /\ levels' = LevelAfter(side, p,
                       Append(lv, [id |-> call.id, price |-> p, side |-> side,
                                   remaining |-> call.remaining]))
        /\ index' = Having(index, call.id, [side |-> side, price |-> p])
  /\ Return(IF call.remaining < call.qty THEN "PartiallyFilled" ELSE "Accepted", TRUE)

ReturnDone ==
  /\ Matched
  /\ call.remaining = 0 \/ call.market
  /\ Return(IF call.remaining = 0 THEN "Filled"
            ELSE IF call.remaining < call.qty THEN "PartiallyFilled" ELSE "Cancelled",
            FALSE)
  /\ UNCHANGED <<levels, index>>

CancelUnknown(id) ==
  /\ ~ call.active
  /\ id \notin DOMAIN index
  /\ UNCHANGED vars

(* list::erase(h.pos): the order the iterator was made for leaves its list, *)
(* and all others stay in order.                                            *)
Erase(lv, id) ==
  LET pos == CHOOSE k \in DOMAIN lv : lv[k].id = id
  IN SubSeq(lv, 1, pos - 1) \o SubSeq(lv, pos + 1, Len(lv))

Cancel(id) ==
  /\ ~ call.active
  /\ id \in DOMAIN index
  /\ index' = Forget(id)
  /\ LET h == index[id]
     IN levels' = IF h.price \notin DOMAIN levels[h.side] THEN levels
                  ELSE LevelAfter(h.side, h.price, Erase(levels[h.side][h.price], id))
  /\ UNCHANGED <<call, trades, nextId, tradeSeq, result>>

ClearTrades ==
  /\ ~ call.active
  /\ trades' = << >>
  /\ UNCHANGED <<levels, index, call, nextId, tradeSeq, result>>

GoesOn == Fill \/ ReturnResting \/ ReturnDone

Next ==
  \/ \E side \in Side, price \in Prices, qty \in Quantities : SubmitLimit(side, price, qty)
  \/ \E side \in Side, qty \in Quantities : SubmitMarket(side, qty)
  \/ GoesOn
  \/ \E id \in 1 .. MaxIds : Cancel(id) \/ CancelUnknown(id)
  \/ ClearTrades

Spec == Init /\ [][Next]_vars
-------------------------------------------------------------------------------
(* Correctness.                                                             *)

(* Every level of either side is a list of orders, every handle a place.    *)
TypeOK ==
  /\ DOMAIN levels = Side
  /\ \A d \in Side : /\ DOMAIN levels[d] \subseteq Prices
                     /\ \A p \in DOMAIN levels[d] : levels[d][p] \in Seq(MOrder)
  /\ DOMAIN index \subseteq 1 .. MaxIds
  /\ \A id \in DOMAIN index : index[id] \in Handle
  /\ call.remaining \in 0 .. call.qty
  /\ nextId \in 1 .. MaxIds + 1
  /\ tradeSeq \in Nat \ {0}
  /\ result.status \in Status

(* All places of the book: side, price, position in the list.               *)
OrdersAt(d, p) == {levels[d][p][k] : k \in 1 .. Len(levels[d][p])}
OrdersOf(d)    == UNION {OrdersAt(d, p) : p \in DOMAIN levels[d]}

(* index_ names every resting order, at its place, and nothing else: a      *)
(* handle that survived its order holds a dangling list iterator, which     *)
(* cancel() would erase through; a missing one makes an order uncancellable.*)
IndexExact ==
  /\ DOMAIN index = {o.id : o \in OrdersOf("Buy") \cup OrdersOf("Sell")}
  /\ \A id \in DOMAIN index : \E o \in OrdersAt(index[id].side, index[id].price) :
       /\ o.id = id
       /\ o.side = index[id].side /\ o.price = index[id].price

(* No level is empty, so has_bid() and best_ask(), which look at the first  *)
(* key only, tell the truth; ids ascend along a level, so the front is the  *)
(* oldest; and the sides do not cross between calls.                        *)
LevelsSound ==
  /\ \A d \in Side : \A p \in DOMAIN levels[d] :
       /\ levels[d][p] # << >>
       /\ \A j, k \in 1 .. Len(levels[d][p]) :
            j < k => levels[d][p][j].id < levels[d][p][k].id
  /\ ~ call.active =>
       \A p \in DOMAIN levels["Buy"], q \in DOMAIN levels["Sell"] : p < q
===============================================================================
