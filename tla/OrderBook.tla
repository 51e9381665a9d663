------------------------------- MODULE OrderBook ------------------------------
(***************************************************************************)
(* lob::OrderBook, the price-time priority matching engine.                *)
(*                                                                         *)
(* The class has no threads, so calls do not overlap.  Order entry is      *)
(* nevertheless split into steps, one per iteration of the loop of match():*)
(* call is the activation record of the call under way, and while it is    *)
(* not idle only that call takes steps.  The invariants then hold in the   *)
(* middle of a match as well, where the real book is hardest to observe.   *)
(*                                                                         *)
(* If the cached best index pointed at an empty level the loop of match()  *)
(* would spin; here no step would be enabled and TLC would report a        *)
(* deadlock, so every run also checks that this cannot happen.             *)
(***************************************************************************)
EXTENDS BookState

CONSTANTS
  Prices,        \* limit prices clients send, off the band or off tick included
  Quantities,    \* quantities clients send, 0 included
  Participants,  \* participants, Anonymous included
  Tifs,          \* times in force clients send
  StpModes,      \* self-trade prevention modes clients set
  MaxSeq,        \* bound: arrival sequence numbers handed out
  MaxOrders      \* bound: orders accepted or rejected since the last clear()

ASSUME InputAssumption ==
  /\ Prices \subseteq Int
  /\ Quantities \subseteq Quantity
  /\ Participants \subseteq Nat
  /\ Tifs \subseteq TimeInForce
  /\ StpModes \subseteq SelfTradePrevention
  /\ MaxSeq \in Nat /\ MaxOrders \in Nat

VARIABLES
  book,          \* the resting orders (BookState)
  call,          \* the order entry under way, idle between calls
  stp,           \* stp_
  nextSeq,       \* next_seq_
  nextTradeSeq,  \* next_trade_seq_
  trades,        \* trades_, the tape
  lastTrade,     \* has_traded_ and last_trade_price_
  stats,         \* stats_
  result         \* the Result of the last order entry or amendment

vars == <<book, call, stp, nextSeq, nextTradeSeq, trades, lastTrade, stats, result>>

Trade ==
  [seq : Nat, taker : OrderId, maker : OrderId, price : Int, qty : Quantity,
   side : Side]

(* Amounts in price times lots are exact integers here; the code keeps them *)
(* as doubles.  An average price is notional / filled.                      *)
BookStats ==
  [accepted : Nat, rejected : Nat, cancelled : Nat, trades : Nat,
   volume : Quantity, notional : Int]

NoStats ==
  [accepted |-> 0, rejected |-> 0, cancelled |-> 0, trades |-> 0,
   volume |-> 0, notional |-> 0]

Result ==
  [id : OrderId, status : Status, reject : RejectReason, filled : Quantity,
   remaining : Quantity, lastPrice : Int, notional : Int, resting : BOOLEAN]

DefaultResult ==
  [id |-> InvalidOrderId, status |-> "Rejected", reject |-> "None", filled |-> 0,
   remaining |-> 0, lastPrice |-> 0, notional |-> 0, resting |-> FALSE]

(* Arguments and locals of submit_limit() or submit_market() with those of  *)
(* match(): remaining is shared, the last four fields are MatchOutcome.     *)
Call ==
  [active : BOOLEAN, market : BOOLEAN, side : Side, price : Int, qty : Quantity,
   tif : TimeInForce, participant : Nat, slot : Slot, id : OrderId,
   remaining : Quantity, filled : Quantity, notional : Int, lastPx : Int,
   stpCancelled : BOOLEAN]

Idle ==
  [active |-> FALSE, market |-> FALSE, side |-> "Buy", price |-> 0, qty |-> 0,
   tif |-> "GTC", participant |-> 0, slot |-> 0, id |-> InvalidOrderId,
   remaining |-> 0, filled |-> 0, notional |-> 0, lastPx |-> 0,
   stpCancelled |-> FALSE]

NoTrade == [has |-> FALSE, price |-> 0]

Init ==
  /\ book = FreshBook
  /\ call = Idle
  /\ stp = "None"
  /\ nextSeq = 1
  /\ nextTradeSeq = 1
  /\ trades = << >>
  /\ lastTrade = NoTrade
  /\ stats = NoStats
  /\ result = DefaultResult
-------------------------------------------------------------------------------
(* Order entry: the checks, and the slot taken for the taker.               *)

(* Bounds of the model, checked where a call begins.                        *)
MayEnter ==
  /\ ~ call.active
  /\ nextSeq <= MaxSeq
  /\ stats.accepted + stats.rejected < MaxOrders

Reject(reason, qty) ==
  /\ result' = [DefaultResult EXCEPT !.reject = reason, !.remaining = qty]
  /\ stats' = [stats EXCEPT !.rejected = @ + 1]
  /\ UNCHANGED <<call, stp, nextSeq, nextTradeSeq, trades, lastTrade>>

(* Mutant of LimitReject: FOK asks for some liquidity in reach, not enough. *)
LimitRejectAnyLiquidity(b, side, price, qty, tif) ==
  IF qty = 0 THEN "ZeroQuantity"
  ELSE IF price < MinPrice \/ price > MaxPrice THEN "PriceOutOfRange"
  ELSE IF (price - MinPrice) % TickSize # 0 THEN "PriceNotOnTick"
  ELSE IF tif = "FOK" /\ Fillable(b, side, price) = 0 THEN "FillOrKillUnfillable"
  ELSE "None"

(* The first check of submit_limit() that fails on book b, or "None".       *)
LimitReject(b, side, price, qty, tif) ==
  IF qty = 0 THEN "ZeroQuantity"
  ELSE IF price < MinPrice \/ price > MaxPrice THEN "PriceOutOfRange"
  ELSE IF (price - MinPrice) % TickSize # 0 THEN "PriceNotOnTick"
  ELSE IF tif = "FOK" /\ Fillable(b, side, price) < qty THEN "FillOrKillUnfillable"
  ELSE "None"

(* The activation record of an order that passed its checks on book b.      *)
Entered(b, market, side, price, qty, tif, participant) ==
  LET slot == AllocatedSlot(b)
  IN [active |-> TRUE, market |-> market, side |-> side, price |-> price,
      qty |-> qty, tif |-> tif, participant |-> participant,
      slot |-> slot, id |-> IdFor(AllocSlot(b), slot), remaining |-> qty,
      filled |-> 0, notional |-> 0, lastPx |-> 0, stpCancelled |-> FALSE]

(* submit_limit() up to the call of match(), entered with book b: the slot  *)
(* of the taker is reserved for the whole of match().                       *)
EnterLimit(b, side, price, qty, tif, participant) ==
  LET reason == LimitReject(b, side, price, qty, tif)
  IN \/ /\ reason # "None"
        /\ book' = b
        /\ Reject(reason, qty)
     \/ /\ reason = "None"
        /\ CanAlloc(b)
        /\ book' = AllocSlot(b)
        /\ call' = Entered(b, FALSE, side, price, qty, tif, participant)
        /\ UNCHANGED <<stp, nextSeq, nextTradeSeq, trades, lastTrade, stats, result>>

SubmitLimit(side, price, qty, tif, participant) ==
  /\ MayEnter
  /\ EnterLimit(book, side, price, qty, tif, participant)

(* submit_market() up to the call of match(): the slot is only borrowed for *)
(* its id and is free again while the order matches.                        *)
SubmitMarket(side, qty, participant) ==
  /\ MayEnter
  /\ LET reason == IF qty = 0 THEN "ZeroQuantity"
                   ELSE IF ~ HasBest(book, Opposite(side)) THEN "EmptyBook" ELSE "None"
     IN \/ /\ reason # "None"
           /\ book' = book
           /\ Reject(reason, qty)
        \/ /\ reason = "None"
           /\ CanAlloc(book)
           /\ book' = FreeSlot(AllocSlot(book), AllocatedSlot(book))
           /\ call' = Entered(book, TRUE, side, 0, qty, "IOC", participant)
           /\ UNCHANGED <<stp, nextSeq, nextTradeSeq, trades, lastTrade, stats, result>>
-------------------------------------------------------------------------------
(* match(), one iteration of its inner loop at a time.                      *)

MakerSide == Opposite(call.side)
BestIndex == book.best[MakerSide]
MakerSlot == book.level[MakerSide][BestIndex].head
Maker     == book.pool[MakerSlot]

(* The best opposite level exists and is within the limit of the taker.     *)
Crosses ==
  /\ HasBest(book, MakerSide)
  /\ call.market \/ WithinLimit(call.side, ToPrice(BestIndex), call.price)

(* The loop goes round again, with an order at the head of the best level.  *)
Matching ==
  /\ call.active
  /\ call.remaining > 0
  /\ ~ call.stpCancelled
  /\ Crosses
  /\ MakerSlot # NoSlot

(* Mutant of SelfTrade: anonymous orders are prevented from trading too.    *)
SelfTradeAnonymous ==
  /\ stp # "None"
  /\ Maker.participant = call.participant

(* The order at the head belongs to the participant that takes.             *)
SelfTrade ==
  /\ stp # "None"
  /\ call.participant # Anonymous
  /\ Maker.participant = call.participant

(* Mutant of StopTaker: the loop is not left.                               *)
StopTakerNot ==
  /\ Matching
  /\ SelfTrade
  /\ stp = "CancelNewest"
  /\ UNCHANGED vars

(* CancelNewest: the taker is cancelled.                                    *)
StopTaker ==
  /\ Matching
  /\ SelfTrade
  /\ stp = "CancelNewest"
  /\ call' = [call EXCEPT !.stpCancelled = TRUE]
  /\ UNCHANGED <<book, stp, nextSeq, nextTradeSeq, trades, lastTrade, stats, result>>

(* Mutant of PullMaker: the pulled order is not counted as cancelled.       *)
PullMakerUncounted ==
  /\ Matching
  /\ SelfTrade
  /\ stp = "CancelOldest"
  /\ book' = RemoveOrder(book, MakerSlot)
  /\ UNCHANGED <<call, stp, nextSeq, nextTradeSeq, trades, lastTrade, stats, result>>

(* CancelOldest: the resting order is pulled and matching goes on.          *)
PullMaker ==
  /\ Matching
  /\ SelfTrade
  /\ stp = "CancelOldest"
  /\ book' = RemoveOrder(book, MakerSlot)
  /\ stats' = [stats EXCEPT !.cancelled = @ + 1]
  /\ UNCHANGED <<call, stp, nextSeq, nextTradeSeq, trades, lastTrade, result>>

(* The book after q lots of the order at the head of a level have traded.   *)
FillMaker(b, s, q) ==
  LET o == b.pool[s]
      reduced == [b EXCEPT !.pool[s].remaining = @ - q,
                           !.level[o.side][o.level].qty = QtySub(@, q)]
  IN IF o.remaining = q THEN RemoveOrder(reduced, s) ELSE reduced

(* A trade at the price of the resting order.                               *)
Fill ==
  /\ Matching
  /\ ~ SelfTrade
  /\ LET q  == Smaller(call.remaining, Maker.remaining)
         px == ToPrice(BestIndex)
     IN /\ book' = FillMaker(book, MakerSlot, q)
        /\ trades' = Append(trades, [seq |-> nextTradeSeq, taker |-> call.id,
                                     maker |-> Maker.id, price |-> px, qty |-> q,
                                     side |-> call.side])
        /\ nextTradeSeq' = nextTradeSeq + 1
        /\ call' = [call EXCEPT !.remaining = @ - q, !.filled = @ + q,
                                !.notional = @ + px * q, !.lastPx = px]
        /\ lastTrade' = [has |-> TRUE, price |-> px]
        /\ stats' = [stats EXCEPT !.trades = @ + 1, !.volume = QtyAdd(@, q),
                                  !.notional = @ + px * q]
  /\ UNCHANGED <<stp, nextSeq, result>>
-------------------------------------------------------------------------------
(* The end of an order entry, once the loop of match() has been left.       *)

Matched ==
  /\ call.active
  /\ call.remaining = 0 \/ call.stpCancelled \/ ~ Crosses

Outcome(status, resting) ==
  [id |-> call.id, status |-> status, reject |-> "None", filled |-> call.filled,
   remaining |-> call.remaining, lastPrice |-> call.lastPx,
   notional |-> call.notional, resting |-> resting]

Return(status, resting, cancelled) ==
  /\ call' = Idle
  /\ result' = Outcome(status, resting)
  /\ stats' = [stats EXCEPT !.accepted = @ + 1, !.cancelled = @ + cancelled]
  /\ UNCHANGED <<stp, nextTradeSeq, trades, lastTrade>>

(* Mutant of ReleaseTaker: the slot of a market order is freed twice.       *)
ReleaseTakerTwice == book' = FreeSlot(book, call.slot)

(* Only a limit order still holds its slot.                                 *)
ReleaseTaker == book' = IF call.market THEN book ELSE FreeSlot(book, call.slot)

Rests == ~ call.market /\ call.tif = "GTC" /\ ~ call.stpCancelled

ReturnFilled ==
  /\ Matched
  /\ call.remaining = 0
  /\ ReleaseTaker
  /\ Return("Filled", FALSE, 0)
  /\ UNCHANGED nextSeq

ReturnResting ==
  /\ Matched
  /\ call.remaining > 0
  /\ Rests
  /\ book' = RestOrder(book, call.slot,
               [DefaultOrder EXCEPT
                  !.id = call.id, !.price = call.price, !.qty = call.qty,
                  !.remaining = call.remaining, !.seq = nextSeq,
                  !.participant = call.participant, !.side = call.side])
  /\ nextSeq' = nextSeq + 1
  /\ Return(IF call.filled > 0 THEN "PartiallyFilled" ELSE "Accepted", TRUE, 0)

(* The remainder of an IOC or market order, or a taker that self-trade      *)
(* prevention stopped.                                                      *)
ReturnKilled ==
  /\ Matched
  /\ call.remaining > 0
  /\ ~ Rests
  /\ ReleaseTaker
  /\ Return(IF call.filled > 0 THEN "PartiallyFilled" ELSE "Cancelled", FALSE, 1)
  /\ UNCHANGED nextSeq
-------------------------------------------------------------------------------
(* cancel() and amend_quantity().                                           *)

(* cancel() returns a bool, so result keeps the last Result.                *)
CancelLive(id) ==
  /\ ~ call.active
  /\ Resolve(book, id) # NoSlot
  /\ book' = RemoveOrder(book, id.slot)
  /\ stats' = [stats EXCEPT !.cancelled = @ + 1]
  /\ UNCHANGED <<call, stp, nextSeq, nextTradeSeq, trades, lastTrade, result>>

CancelUnknown(id) ==
  /\ ~ call.active
  /\ Resolve(book, id) = NoSlot
  /\ UNCHANGED vars

AmendUnknown(id) ==
  /\ ~ call.active
  /\ Resolve(book, id) = NoSlot
  /\ result' = [DefaultResult EXCEPT !.id = id, !.reject = "UnknownOrder"]
  /\ UNCHANGED <<book, call, stp, nextSeq, nextTradeSeq, trades, lastTrade, stats>>

AlreadyFilled(id) == QtySub(book.pool[id.slot].qty, book.pool[id.slot].remaining)

(* Nothing is left to work at the new quantity: a cancel.                   *)
AmendToCancel(id, newQty) ==
  /\ ~ call.active
  /\ Resolve(book, id) # NoSlot
  /\ newQty <= AlreadyFilled(id)
  /\ book' = RemoveOrder(book, id.slot)
  /\ stats' = [stats EXCEPT !.cancelled = @ + 1]
  /\ result' = [DefaultResult EXCEPT !.id = id, !.status = "Cancelled"]
  /\ UNCHANGED <<call, stp, nextSeq, nextTradeSeq, trades, lastTrade>>

(* Mutant of AmendDown: only the remaining quantity is changed.             *)
AmendDownRemainingOnly(id, newQty) ==
  LET o == book.pool[id.slot]
      newRemaining == QtySub(newQty, AlreadyFilled(id))
  IN /\ ~ call.active
     /\ Resolve(book, id) # NoSlot
     /\ newQty > AlreadyFilled(id)
     /\ newRemaining <= o.remaining
     /\ book' = [book EXCEPT
                   !.level[o.side][o.level].qty = QtySub(@, o.remaining - newRemaining),
                   !.pool[id.slot].remaining = newRemaining]
     /\ result' = [DefaultResult EXCEPT !.id = id, !.status = "Accepted",
                                        !.remaining = newRemaining, !.resting = TRUE]
     /\ UNCHANGED <<call, stp, nextSeq, nextTradeSeq, trades, lastTrade, stats>>

(* A reduction in place, which keeps the place in the queue.                *)
AmendDown(id, newQty) ==
  LET o == book.pool[id.slot]
      newRemaining == QtySub(newQty, AlreadyFilled(id))
  IN /\ ~ call.active
     /\ Resolve(book, id) # NoSlot
     /\ newQty > AlreadyFilled(id)
     /\ newRemaining <= o.remaining
     /\ book' = [book EXCEPT
                   !.level[o.side][o.level].qty = QtySub(@, o.remaining - newRemaining),
                   !.pool[id.slot].remaining = newRemaining,
                   !.pool[id.slot].qty = newQty]
     /\ result' = [DefaultResult EXCEPT !.id = id, !.status = "Accepted",
                                        !.remaining = newRemaining, !.resting = TRUE]
     /\ UNCHANGED <<call, stp, nextSeq, nextTradeSeq, trades, lastTrade, stats>>

(* An increase: the order leaves the book and its remainder is entered anew *)
(* as a GTC limit order, by the code of submit_limit().                     *)
AmendUp(id, newQty) ==
  LET o == book.pool[id.slot]
      newRemaining == QtySub(newQty, AlreadyFilled(id))
  IN /\ MayEnter
     /\ Resolve(book, id) # NoSlot
     /\ newQty > AlreadyFilled(id)
     /\ newRemaining > o.remaining
     /\ EnterLimit(RemoveOrder(book, id.slot),
                   o.side, o.price, newRemaining, "GTC", o.participant)
-------------------------------------------------------------------------------
(* The remaining operations.                                                *)

SetSelfTradePrevention(mode) ==
  /\ ~ call.active
  /\ stp' = mode
  /\ UNCHANGED <<book, call, nextSeq, nextTradeSeq, trades, lastTrade, stats, result>>

ClearTrades ==
  /\ ~ call.active
  /\ trades' = << >>
  /\ UNCHANGED <<book, call, stp, nextSeq, nextTradeSeq, lastTrade, stats, result>>

(* clear() keeps the sequence counters and the self-trade prevention mode.  *)
Clear ==
  /\ ~ call.active
  /\ book' = FreshBook
  /\ trades' = << >>
  /\ lastTrade' = NoTrade
  /\ stats' = NoStats
  /\ UNCHANGED <<call, stp, nextSeq, nextTradeSeq, result>>

MatchStep == StopTaker \/ PullMaker \/ Fill
ReturnStep == ReturnFilled \/ ReturnResting \/ ReturnKilled

EngineStep ==
  \/ \E side \in Side, price \in Prices, qty \in Quantities, tif \in Tifs,
        participant \in Participants : SubmitLimit(side, price, qty, tif, participant)
  \/ \E side \in Side, qty \in Quantities, participant \in Participants :
        SubmitMarket(side, qty, participant)
  \/ MatchStep
  \/ ReturnStep
  \/ \E id \in OrderId : CancelLive(id) \/ CancelUnknown(id) \/ AmendUnknown(id)
  \/ \E id \in OrderId, newQty \in Quantities :
        AmendToCancel(id, newQty) \/ AmendDown(id, newQty) \/ AmendUp(id, newQty)
  \/ \E mode \in StpModes : SetSelfTradePrevention(mode)
  \/ ClearTrades

Next == EngineStep \/ Clear

Spec == Init /\ [][Next]_vars

(* A call that has been entered runs on: nothing in the engine waits.       *)
FairSpec == Spec /\ WF_vars(MatchStep \/ ReturnStep)
-------------------------------------------------------------------------------
(* Correctness.                                                             *)

(* Every variable has its type; indices stay inside the ladder and the pool *)
(* and quantities inside their word, in the middle of a match too.          *)
TypeOK ==
  /\ book \in Book
  /\ call \in Call
  /\ stp \in SelfTradePrevention
  /\ nextSeq \in Nat
  /\ nextTradeSeq \in Nat
  /\ trades \in Seq(Trade)
  /\ lastTrade \in [has : BOOLEAN, price : Int]
  /\ stats \in BookStats
  /\ result \in Result

(* What a call under way knows about itself: the fills add up, and a limit  *)
(* order that entered has a price of the ladder.  TypeOK needs it.          *)
CallConsistent ==
  call.active =>
    /\ call.filled + call.remaining = call.qty
    /\ ~ call.market => /\ call.price >= MinPrice
                        /\ call.price <= MaxPrice
                        /\ (call.price - MinPrice) % TickSize = 0

RestingSlots(b) == {s \in Slot : b.pool[s].active}
FreeSlots(b)    == {b.free[k] : k \in 1 .. Len(b.free)}
ReservedSlots   == IF call.active /\ ~ call.market THEN {call.slot} ELSE {}

Partitioned(b, reserved) ==
  /\ \A j, k \in 1 .. Len(b.free) : b.free[j] = b.free[k] => j = k
  /\ FreeSlots(b) \cap RestingSlots(b) = {}
  /\ (FreeSlots(b) \cup RestingSlots(b)) \cap reserved = {}
  /\ FreeSlots(b) \cup RestingSlots(b) \cup reserved = 0 .. b.size - 1

(* alloc_slot(), free_slot() and the early returns around match(): a slot   *)
(* of the pool is free, or holds a resting order, or is reserved for the    *)
(* taker, and never two of these; no slot is freed twice and none leaks.    *)
SlotsPartitioned == Partitioned(book, ReservedSlots)

(* The slots linked at a level from its head, as the loops of validate()    *)
(* and match() walk them; a cycle shows as a queue longer than the pool.    *)
Queue(b, side, i) ==
  LET walk[n \in 0 .. MaxSlots] ==
        IF n = 0 THEN b.level[side][i].head
        ELSE LET s == walk[n - 1] IN IF s = NoSlot THEN NoSlot ELSE b.pool[s].next
      steps == Cardinality({n \in 0 .. MaxSlots : walk[n] # NoSlot})
  IN [k \in 1 .. steps |-> walk[k - 1]]

(* The checks of validate() on the queue of one level.                      *)
LevelValid(b, side, i) ==
  LET q  == Queue(b, side, i)
      lv == b.level[side][i]
      At(k) == b.pool[q[k]]
  IN /\ (lv.count > 0) <=> (i \in b.bits[side])
     /\ lv.count = 0 => lv = EmptyLevel
     /\ lv.count = Len(q)
     /\ lv.qty = SumFunction([k \in DOMAIN q |-> At(k).remaining]) % QtyMod
     /\ lv.tail = IF q = << >> THEN NoSlot ELSE q[Len(q)]
     /\ \A k \in DOMAIN q :
          /\ At(k).active
          /\ At(k).prev = IF k = 1 THEN NoSlot ELSE q[k - 1]
          /\ At(k).level = i
          /\ At(k).side = side
          /\ At(k).remaining > 0
          /\ k > 1 => At(k).seq > At(k - 1).seq
          /\ Resolve(b, At(k).id) = q[k]

(* rest_order() and remove_order() keep every queue linked both ways, in    *)
(* arrival order, with exact totals, whatever sequence of rests, fills,     *)
(* pulls, cancels and amendments unlinked its head, middle or tail.         *)
QueuesIntact == \A side \in Side, i \in Index : LevelValid(book, side, i)

(* The last checks of validate(): the order count, the cached best indices  *)
(* and a book that is not crossed.  Nothing else compares the incremental   *)
(* updates of best_bid_ and best_ask_ with the bitmaps they summarise.      *)
TouchExact ==
  /\ book.open = Cardinality(RestingSlots(book))
  /\ book.best["Buy"] = FindLe(book.bits["Buy"], LadderSize - 1)
  /\ book.best["Sell"] = FindGe(book.bits["Sell"], 0)
  /\ HasBest(book, "Buy") /\ HasBest(book, "Sell")
       => book.best["Buy"] < book.best["Sell"]

(* fillable() adds up level totals; on every price clients send it equals   *)
(* what the resting orders in reach of that limit really offer, also after  *)
(* partial fills, reductions and removals changed the totals one by one.    *)
FillableExact ==
  \A side \in Side, limit \in Prices :
    Fillable(book, side, limit) =
      SumFunction([s \in {t \in RestingSlots(book) :
                            /\ book.pool[t].side = Opposite(side)
                            /\ WithinLimit(side, book.pool[t].price, limit)}
                     |-> book.pool[s].remaining]) % QtyMod

(* types.hpp on FOK: "trade the whole quantity immediately or nothing at    *)
(* all".  The check is made before the first trade, the trades follow.      *)
FokReturns == call.active /\ call.tif = "FOK" /\ ~ call'.active
FokAllOrNothing == [][FokReturns => result'.filled \in {0, call.qty}]_vars

(* The same promise where it does hold: self-trade prevention is off or the *)
(* taker is anonymous, and then an admitted FOK order always fills.         *)
FokFillsWithoutStp ==
  [][FokReturns /\ (stp = "None" \/ call.participant = Anonymous)
       => result'.filled = call.qty]_vars

(* match() ends: each iteration trades, removes an order or stops, and the  *)
(* best index never points at an empty level.                               *)
EveryCallReturns == call.active ~> ~ call.active
===============================================================================
