------------------------------ MODULE BookQueries ------------------------------
(***************************************************************************)
(* The read-only queries of lob::OrderBook: top of book, depth and the     *)
(* cost of a sweep.  They are functions of the book.  Prices that are      *)
(* doubles in the code are kept as a numerator and a denominator.          *)
(***************************************************************************)
EXTENDS OrderBook

BestPriceOf(b, side) == IF HasBest(b, side) THEN ToPrice(b.best[side]) ELSE 0

BestQty(b, side) == IF HasBest(b, side) THEN b.level[side][b.best[side]].qty ELSE 0

Spread(b) ==
  IF HasBest(b, "Buy") /\ HasBest(b, "Sell")
  THEN BestPriceOf(b, "Sell") - BestPriceOf(b, "Buy") ELSE 0

Ratio(x, y) == [num |-> x, den |-> y]

(* a < b, for ratios of positive denominators.                              *)
Less(a, b) == a.num * b.den < b.num * a.den

MidPrice(b) ==
  IF HasBest(b, "Buy") /\ HasBest(b, "Sell")
  THEN Ratio(BestPriceOf(b, "Buy") + BestPriceOf(b, "Sell"), 2) ELSE Ratio(0, 1)

(* Mutant of Microprice: each price is weighted with its own side's size.   *)
MicropriceOwnSize(b) ==
  LET bq == BestQty(b, "Buy")
      aq == BestQty(b, "Sell")
  IN IF ~ (HasBest(b, "Buy") /\ HasBest(b, "Sell")) THEN Ratio(0, 1)
     ELSE IF bq + aq = 0 THEN MidPrice(b)
     ELSE Ratio(BestPriceOf(b, "Buy") * bq + BestPriceOf(b, "Sell") * aq, bq + aq)

(* Each price is weighted with the size on the other side.                  *)
Microprice(b) ==
  LET bq == BestQty(b, "Buy")
      aq == BestQty(b, "Sell")
  IN IF ~ (HasBest(b, "Buy") /\ HasBest(b, "Sell")) THEN Ratio(0, 1)
     ELSE IF bq + aq = 0 THEN MidPrice(b)
     ELSE Ratio(BestPriceOf(b, "Buy") * aq + BestPriceOf(b, "Sell") * bq, bq + aq)

Imbalance(b) ==
  LET bq == BestQty(b, "Buy")
      aq == BestQty(b, "Sell")
  IN IF bq + aq > 0 THEN Ratio(bq - aq, bq + aq) ELSE Ratio(0, 1)
-------------------------------------------------------------------------------
(* Walks over the levels, which start at the cached best index.             *)

(* Mutant of Walked: the walk down the bids stops short of index 0.         *)
WalkedAboveZero(b, side) ==
  {i \in b.bits[side] : /\ HasBest(b, side) /\ ~ Better(side, i, b.best[side])
                        /\ side = "Buy" => i # 0}

(* The levels a walk meets from the best outwards.                          *)
Walked(b, side) ==
  {i \in b.bits[side] : HasBest(b, side) /\ ~ Better(side, i, b.best[side])}

Nearer(b, side, i) == {j \in Walked(b, side) : Better(side, j, i)}

(* depth(): up to k levels, best first.                                     *)
Depth(b, side, k) ==
  [d \in 1 .. Min({k, Cardinality(Walked(b, side))}) |->
     LET i == CHOOSE i \in Walked(b, side) : Cardinality(Nearer(b, side, i)) = d - 1
     IN [price |-> ToPrice(i), qty |-> b.level[side][i].qty,
         orders |-> b.level[side][i].count]]

QtyAt(b, side, price) ==
  IF price < MinPrice \/ price > MaxPrice \/ (price - MinPrice) % TickSize # 0 THEN 0
  ELSE b.level[side][ToIndex(price)].qty

(* Mutant of SweepCost: the last level is charged in full.                  *)
SweepCostWhole(b, takerSide, qty) ==
  LET maker     == Opposite(takerSide)
      Total(S)  == SumFunction([j \in S |-> b.level[maker][j].qty])
      reached   == {i \in Walked(b, maker) : Total(Nearer(b, maker, i)) < qty}
  IN [ok       |-> Total(Walked(b, maker)) >= qty,
      notional |-> SumFunction([i \in reached |-> ToPrice(i) * b.level[maker][i].qty]),
      worst    |-> IF reached = {} THEN 0
                   ELSE ToPrice(CHOOSE i \in reached :
                                  \A j \in reached \ {i} : Better(maker, j, i))]

(* sweep_cost(): the levels reached while some of qty is still needed, each *)
(* taken as far as needed.  The average price is notional / qty.            *)
SweepCost(b, takerSide, qty) ==
  LET maker     == Opposite(takerSide)
      Total(S)  == SumFunction([j \in S |-> b.level[maker][j].qty])
      Before(i) == Total(Nearer(b, maker, i))
      reached   == {i \in Walked(b, maker) : Before(i) < qty}
      Take(i)   == Smaller(qty - Before(i), b.level[maker][i].qty)
  IN [ok       |-> Total(Walked(b, maker)) >= qty,
      notional |-> SumFunction([i \in reached |-> ToPrice(i) * Take(i)]),
      worst    |-> IF reached = {} THEN 0
                   ELSE ToPrice(CHOOSE i \in reached :
                                  \A j \in reached \ {i} : Better(maker, j, i))]
-------------------------------------------------------------------------------
(* Correctness.                                                             *)

(* What sweep_cost() says of the order under way, with what it has traded.  *)
Forecast(b, c) ==
  LET q == SweepCost(b, c.side, c.remaining)
  IN [ok |-> q.ok, notional |-> c.notional + q.notional,
      worst |-> IF c.remaining = 0 THEN c.lastPx ELSE q.worst]

(* sweep_cost() walks level totals, match() walks orders: for a market      *)
(* order that self-trade prevention does not touch the forecast made when   *)
(* it was entered - whether it fills, for what notional, at what worst      *)
(* price - stays true after every trade and is what the order returns.      *)
(* mechanical_impact() in impact_study.py rests on it.                      *)
SweepForecastsMarket ==
  [][call.active /\ call.market /\ (stp = "None" \/ call.participant = Anonymous) =>
       LET f == Forecast(book, call)
           g == Forecast(book', call')
       IN IF call'.active
          THEN f.ok = g.ok /\ (f.ok => f = g)
          ELSE /\ f.ok <=> result'.remaining = 0
               /\ f.ok => /\ result'.notional = f.notional
                          /\ result'.lastPrice = f.worst]_vars

(* fillable(), which an FOK order relies on, and sweep_cost() are two walks *)
(* over the same levels and agree on what lies within a limit.              *)
SweepAgreesWithFillable ==
  \A side \in Side, limit \in Prices, qty \in Quantities \ {0} :
    LET q == SweepCost(book, side, qty)
    IN Fillable(book, side, limit) >= qty <=> (q.ok /\ WithinLimit(side, q.worst, limit))

(* depth() shows every resting order once, at its price, best price first,  *)
(* and qty_at() shows the same totals, the worst price of the ladder too.   *)
DepthShowsEveryOrder ==
  \A side \in Side :
    LET rows == Depth(book, side, LadderSize)
        At(p) == {s \in RestingSlots(book) :
                    book.pool[s].side = side /\ book.pool[s].price = p}
    IN /\ {rows[d].price : d \in DOMAIN rows} =
            {book.pool[s].price : s \in {t \in RestingSlots(book) : book.pool[t].side = side}}
       /\ \A d \in DOMAIN rows :
            /\ d > 1 => Better(side, rows[d - 1].price, rows[d].price)
            /\ rows[d].orders = Cardinality(At(rows[d].price))
            /\ rows[d].qty =
                 SumFunction([s \in At(rows[d].price) |-> book.pool[s].remaining]) % QtyMod
            /\ QtyAt(book, side, rows[d].price) = rows[d].qty

(* The microprice lies strictly inside the spread, and "leans toward the    *)
(* side with less resting size" (order_book.hpp): above the mid exactly if  *)
(* the imbalance is positive.  An occupied level of quantity 0, or a best   *)
(* price left on an empty one, would put it on the touch or divide by 0.    *)
MicropriceLeans ==
  HasBest(book, "Buy") /\ HasBest(book, "Sell") =>
    LET m == Microprice(book)
    IN /\ Spread(book) > 0
       /\ Less(Ratio(BestPriceOf(book, "Buy"), 1), m)
       /\ Less(m, Ratio(BestPriceOf(book, "Sell"), 1))
       /\ Less(MidPrice(book), m) <=> Less(Ratio(0, 1), Imbalance(book))
       /\ Less(m, MidPrice(book)) <=> Less(Imbalance(book), Ratio(0, 1))

(* "Quantity available to a taker within a price limit" (order_book.hpp),   *)
(* as a number and not modulo the width of a level's total.                 *)
FillableIsAvailable ==
  \A side \in Side, limit \in Prices :
    Fillable(book, side, limit) =
      SumFunction([s \in {t \in RestingSlots(book) :
                            /\ book.pool[t].side = Opposite(side)
                            /\ WithinLimit(side, book.pool[t].price, limit)}
                     |-> book.pool[s].remaining])
===============================================================================
