------------------------------ MODULE BenchStream ------------------------------
(***************************************************************************)
(* The throughput benchmark: bench_throughput() runs one stream of         *)
(* messages against the engine and again, from the same seed, against the  *)
(* baseline book, and compares the times.  Here both books get each        *)
(* message side by side.  The comparison is worth something only if the    *)
(* messages are the same: which order a cancel hits depends on the ids     *)
(* each book returned and kept in live, dead ones included.                *)
(***************************************************************************)
EXTENDS OrderBook

CONSTANTS
  Mid,         \* kMid
  Away,        \* distances from it
  Depth,       \* depth_levels
  PerLevel,    \* orders_perlevel
  ClearEvery,  \* messages between two calls of clear_trades() (65536)
  MaxMessages  \* throughput_ops

VARIABLES
  mLevels, mIndex, mCall, mTrades, mNextId, mTradeSeq, mResult,  \* the baseline
  live, mLive,  \* the ids the benchmark keeps, of either book
  prefilled,    \* orders prefill() has sent
  i,            \* the loop counter of bench_throughput_impl()
  message       \* the message under way

mVars == <<mLevels, mIndex, mCall, mTrades, mNextId, mTradeSeq, mResult>>
streamVars == <<live, mLive, prefilled, i, message>>

Baseline ==
  INSTANCE MapOrderBook WITH
    MaxIds <- MaxOrders,
    levels <- mLevels, index <- mIndex, call <- mCall, trades <- mTrades,
    nextId <- mNextId, tradeSeq <- mTradeSeq, result <- mResult

StreamInit ==
  /\ Init /\ Baseline!Init
  /\ live = << >> /\ mLive = << >>
  /\ prefilled = 0
  /\ i = 0
  /\ message = "none"

PrefillOrders == 2 * Depth * PerLevel

(* No message is under way, and the stream may send its next one.           *)
NextMessage == message = "none" /\ prefilled = PrefillOrders /\ i < MaxMessages

Add(side, away, qty) ==
  LET price == IF side = "Buy" THEN Mid - away ELSE Mid + away
  IN /\ SubmitLimit(side, price, qty, "GTC", Anonymous)
     /\ Baseline!SubmitLimit(side, price, qty)

(* prefill(): bid and ask in turn, PerLevel times at each distance.         *)
Prefill(qty) ==
  /\ message = "none"
  /\ prefilled < PrefillOrders
  /\ Add(IF prefilled % 2 = 0 THEN "Buy" ELSE "Sell",
         prefilled \div (2 * PerLevel) + 1, qty)
  /\ message' = "prefill"
  /\ prefilled' = prefilled + 1
  /\ UNCHANGED <<live, mLive, i>>

SendLimit(side, away, qty) ==
  /\ NextMessage
  /\ Add(side, away, qty)
  /\ message' = "limit"
  /\ UNCHANGED <<live, mLive, prefilled, i>>

SendMarket(side, qty) ==
  /\ NextMessage
  /\ SubmitMarket(side, qty, Anonymous)
  /\ Baseline!SubmitMarket(side, qty)
  /\ message' = "market"
  /\ UNCHANGED <<live, mLive, prefilled, i>>

(* live[k] = live.back(); live.pop_back().                                  *)
SwapPop(s, k) == SubSeq([s EXCEPT ![k] = s[Len(s)]], 1, Len(s) - 1)

(* The id at position k may long be filled: both books are to ignore it.    *)
SendCancel(k) ==
  /\ NextMessage
  /\ CancelLive(live[k]) \/ CancelUnknown(live[k])
  /\ Baseline!Cancel(mLive[k]) \/ Baseline!CancelUnknown(mLive[k])
  /\ live' = SwapPop(live, k)
  /\ mLive' = SwapPop(mLive, k)
  /\ message' = "cancel"
  /\ UNCHANGED <<prefilled, i>>

CancelNothing ==
  /\ NextMessage
  /\ live = << >>
  /\ message' = "cancel"
  /\ UNCHANGED <<vars, mVars, live, mLive, prefilled, i>>

EngineGoesOn == (MatchStep \/ ReturnStep) /\ UNCHANGED <<mVars, streamVars>>

BaselineGoesOn ==
  ~ call.active /\ Baseline!GoesOn /\ UNCHANGED <<vars, streamVars>>

Keeping(s, r) == IF r.resting THEN Append(s, r.id) ELSE s

(* Both books have returned: the ids of orders that rest are kept, and the  *)
(* tapes are cleared now and then.                                          *)
EndMessage ==
  /\ message # "none"
  /\ ~ call.active /\ ~ mCall.active
  /\ IF message \in {"limit", "prefill"}
     THEN live' = Keeping(live, result) /\ mLive' = Keeping(mLive, mResult)
     ELSE UNCHANGED <<live, mLive>>
  /\ i' = IF message = "prefill" THEN i ELSE i + 1
  /\ message' = "none"
  /\ IF message # "prefill" /\ i % ClearEvery = 0
     THEN ClearTrades /\ Baseline!ClearTrades
     ELSE UNCHANGED <<vars, mVars>>
  /\ UNCHANGED prefilled

StreamEnds ==
  message = "none" /\ i = MaxMessages /\ UNCHANGED <<vars, mVars, streamVars>>

StreamNext ==
  \/ \E qty \in Quantities : Prefill(qty)
  \/ \E side \in Side, away \in Away, qty \in Quantities : SendLimit(side, away, qty)
  \/ \E side \in Side, qty \in Quantities : SendMarket(side, qty)
  \/ \E k \in DOMAIN live : SendCancel(k)
  \/ CancelNothing
  \/ EngineGoesOn
  \/ BaselineGoesOn
  \/ EndMessage
  \/ StreamEnds

StreamSpec == StreamInit /\ [][StreamNext]_<<vars, mVars, streamVars>>
-------------------------------------------------------------------------------
(* Correctness.                                                             *)

BothReturned == ~ call.active /\ ~ mCall.active

(* The engine's queue at a price of the ladder, and the baseline's.         *)
EngineQueue(side, x) ==
  LET q == Queue(book, side, x) IN [k \in DOMAIN q |-> book.pool[q[k]].remaining]

BaselineQueue(side, p) ==
  IF p \notin DOMAIN mLevels[side] THEN << >>
  ELSE [k \in DOMAIN mLevels[side][p] |-> mLevels[side][p][k].remaining]

(* The same orders, in the same order, at every price of both books; and    *)
(* the ids at one position of live name the same order or are dead in both, *)
(* so "same seed == same message stream" (bench_latency.cpp) stays true     *)
(* however many dead ids the benchmark has cancelled.                       *)
SameBooks ==
  /\ \A side \in Side, x \in Index :
       EngineQueue(side, x) = BaselineQueue(side, ToPrice(x))
  /\ message = "none" => Len(live) = Len(mLive)
  /\ \A k \in DOMAIN live \cap DOMAIN mLive :
       LET s == Resolve(book, live[k])
       IN /\ s = NoSlot <=> mLive[k] \notin DOMAIN mIndex
          /\ s # NoSlot =>
               /\ mIndex[mLive[k]] = [side |-> book.pool[s].side,
                                      price |-> book.pool[s].price]
               /\ book.level[book.pool[s].side][book.pool[s].level].head = s
                    <=> mLevels[book.pool[s].side][book.pool[s].price][1].id = mLive[k]

(* The two are given the same work: they trade alike, at the same sizes,    *)
(* prices and sides and in the same order, though one finds its prices in a *)
(* bitmap and the other in a tree, and rest alike afterwards.               *)
SameWork ==
  BothReturned =>
    /\ SameBooks
    /\ Len(trades) = Len(mTrades)
    /\ \A k \in DOMAIN trades :
         /\ trades[k].seq = mTrades[k].seq
         /\ trades[k].price = mTrades[k].price
         /\ trades[k].qty = mTrades[k].qty
         /\ trades[k].side = mTrades[k].side
===============================================================================
