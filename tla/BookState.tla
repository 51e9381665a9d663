------------------------------ MODULE BookState -------------------------------
(***************************************************************************)
(* The data of lob::OrderBook that holds the resting orders, and the       *)
(* private member functions that maintain it.  The engine is single        *)
(* threaded: a member function is a function from one book to the next,    *)
(* and the actions of OrderBook.tla apply it.                              *)
(*                                                                         *)
(* A book is a record:                                                     *)
(*   pool   pool_, the order stored in each slot                           *)
(*   gen    gen_, the generation of each slot                              *)
(*   size   pool_.size() (gen_ always has the same size)                   *)
(*   free   free_list_, used as a stack                                    *)
(*   level  bid_levels_ and ask_levels_                                    *)
(*   bits   bid_bits_ and ask_bits_, as the sets of indices whose bit is 1 *)
(*   best   best_bid_ and best_ask_                                        *)
(*   open   open_orders_                                                   *)
(* Slots from size on do not exist yet; they hold a default order.         *)
(***************************************************************************)
EXTENDS LobTypes, PriceIndex, Sequences, FiniteSetsExt, Functions

CONSTANTS
  MinPrice, MaxPrice, TickSize,  \* the price band of the ladder
  MaxSlots,                      \* bound: number of pool slots
  GenMod,                        \* generations are taken modulo GenMod (2^32)
  QtyMod                         \* quantities are taken modulo QtyMod (2^64)

(* The constructor throws unless the first two hold (lines 19-20).          *)
ASSUME BandAssumption ==
  /\ MinPrice \in Int /\ MaxPrice \in Int /\ TickSize \in Int
  /\ TickSize > 0
  /\ MaxPrice >= MinPrice

ASSUME WidthAssumption ==
  /\ MaxSlots \in Nat \ {0}
  /\ GenMod \in Nat /\ GenMod > 1
  /\ QtyMod \in Nat /\ QtyMod > 1

LadderSize == ((MaxPrice - MinPrice) \div TickSize) + 1

Index      == 0 .. LadderSize - 1
Slot       == 0 .. MaxSlots - 1
NoSlot     == -1
Generation == 0 .. GenMod - 1
Quantity   == 0 .. QtyMod - 1
OrderId    == [slot : Slot, gen : Generation]

(* Unsigned arithmetic on quantities.                                       *)
QtyAdd(x, y) == (x + y) % QtyMod
QtySub(x, y) == (x - y) % QtyMod

ToPrice(i) == MinPrice + i * TickSize
ToIndex(p) == (p - MinPrice) \div TickSize

Order ==
  [id : OrderId, price : Int, qty : Quantity, remaining : Quantity, seq : Nat,
   participant : Nat, side : Side, active : BOOLEAN,
   prev : Slot \cup {NoSlot}, next : Slot \cup {NoSlot}, level : Index]

DefaultOrder ==
  [id |-> InvalidOrderId, price |-> 0, qty |-> 0, remaining |-> 0, seq |-> 0,
   participant |-> 0, side |-> "Buy", active |-> FALSE,
   prev |-> NoSlot, next |-> NoSlot, level |-> 0]

PriceLevel ==
  [head : Slot \cup {NoSlot}, tail : Slot \cup {NoSlot},
   qty : Quantity, count : Int]

EmptyLevel == [head |-> NoSlot, tail |-> NoSlot, qty |-> 0, count |-> 0]

Book ==
  [pool  : [Slot -> Order],
   gen   : [Slot -> Generation],
   size  : 0 .. MaxSlots,
   free  : Seq(Slot),
   level : [Side -> [Index -> PriceLevel]],
   bits  : [Side -> SUBSET Index],
   best  : [Side -> Index \cup {NPos}],
   open  : Int]

(* The book after the constructor, and again after clear().                 *)
FreshBook ==
  [pool  |-> [s \in Slot |-> DefaultOrder],
   gen   |-> [s \in Slot |-> 0],
   size  |-> 0,
   free  |-> << >>,
   level |-> [d \in Side |-> [i \in Index |-> EmptyLevel]],
   bits  |-> [d \in Side |-> {}],
   best  |-> [d \in Side |-> NPos],
   open  |-> 0]
-------------------------------------------------------------------------------
(* The slot pool.                                                           *)

(* Bound: an order is only entered while the modelled pool has room.        *)
CanAlloc(b) == b.free # << >> \/ b.size < MaxSlots

(* The slot alloc_slot() returns ...                                        *)
AllocatedSlot(b) == IF b.free # << >> THEN b.free[Len(b.free)] ELSE b.size

(* Mutant of AllocSlot: a recycled slot keeps its generation.               *)
AllocSlotSameGeneration(b) ==
  IF b.free # << >>
  THEN [b EXCEPT !.free = SubSeq(b.free, 1, Len(b.free) - 1)]
  ELSE [b EXCEPT !.pool[b.size] = DefaultOrder,
                 !.gen[b.size] = 1,
                 !.size = @ + 1]

(* ... and the book it leaves: a recycled slot gets its next generation, a  *)
(* new slot is a default order of generation 1.                             *)
AllocSlot(b) ==
  IF b.free # << >>
  THEN [b EXCEPT !.free = SubSeq(b.free, 1, Len(b.free) - 1),
                 !.gen[AllocatedSlot(b)] = (@ + 1) % GenMod]
  ELSE [b EXCEPT !.pool[b.size] = DefaultOrder,
                 !.gen[b.size] = 1,
                 !.size = @ + 1]

FreeSlot(b, s) ==
  [b EXCEPT !.pool[s].active = FALSE,
            !.pool[s].id = InvalidOrderId,
            !.free = Append(@, s)]

IdFor(b, s) == MakeHandle(s, b.gen[s])

(* The live slot an id stands for, or NoSlot if the id is stale or bogus.   *)
Resolve(b, id) ==
  IF id.slot < b.size /\ b.pool[id.slot].active /\ b.pool[id.slot].id = id
  THEN id.slot ELSE NoSlot
-------------------------------------------------------------------------------
(* Book maintenance.                                                        *)

HasBest(b, side) == b.best[side] # NPos

(* Index i is nearer to the opposite side of the market than index j.       *)
Better(side, i, j) == IF side = "Buy" THEN i > j ELSE i < j

(* Mutant of RefreshBest: it does not first ask whether the best level left.*)
RefreshBestAlways(b, side, from) ==
  [b EXCEPT !.best[side] = IF side = "Buy" THEN FindLe(b.bits[side], from)
                                           ELSE FindGe(b.bits[side], from)]

(* refresh_best(), on a bitmap whose bit `from` has just been cleared.      *)
RefreshBest(b, side, from) ==
  IF b.best[side] # from THEN b
  ELSE [b EXCEPT !.best[side] = IF side = "Buy" THEN FindLe(b.bits[side], from)
                                                ELSE FindGe(b.bits[side], from)]

(* Store order o in slot s and append it to the FIFO at its price: the end  *)
(* of submit_limit() together with rest_order().                            *)
RestOrder(b, s, o) ==
  LET idx  == ToIndex(o.price)
      lv   == b.level[o.side][idx]
      best == b.best[o.side]
      linked == [o EXCEPT !.level = idx, !.prev = lv.tail, !.next = NoSlot,
                          !.active = TRUE]
  IN [b EXCEPT
        !.pool = [t \in Slot |->
                    IF t = s THEN linked
                    ELSE IF t = lv.tail THEN [b.pool[t] EXCEPT !.next = s]
                    ELSE b.pool[t]],
        !.level[o.side][idx] =
           [head |-> IF lv.tail = NoSlot THEN s ELSE lv.head, tail |-> s,
            qty |-> QtyAdd(lv.qty, o.remaining), count |-> lv.count + 1],
        !.bits[o.side] = IF lv.count = 0 THEN @ \cup {idx} ELSE @,
        !.best[o.side] =
           IF lv.count = 0 /\ (best = NPos \/ Better(o.side, idx, best))
           THEN idx ELSE best,
        !.open = @ + 1]

(* Mutant of Unlink: the next order in the queue keeps pointing back at s.  *)
UnlinkForwardOnly(b, s) ==
  LET o  == b.pool[s]
      lv == b.level[o.side][o.level]
  IN [b EXCEPT
        !.pool = [t \in Slot |->
                    IF t = s THEN [o EXCEPT !.prev = NoSlot, !.next = NoSlot]
                    ELSE [b.pool[t] EXCEPT !.next = IF t = o.prev THEN o.next ELSE @]],
        !.level[o.side][o.level] =
           [head  |-> IF o.prev = NoSlot THEN o.next ELSE lv.head,
            tail  |-> IF o.next = NoSlot THEN o.prev ELSE lv.tail,
            qty   |-> QtySub(lv.qty, o.remaining),
            count |-> lv.count - 1],
        !.open = @ - 1]

(* Take slot s out of its queue, neighbours and level totals included.      *)
Unlink(b, s) ==
  LET o  == b.pool[s]
      lv == b.level[o.side][o.level]
  IN [b EXCEPT
        !.pool = [t \in Slot |->
                    IF t = s THEN [o EXCEPT !.prev = NoSlot, !.next = NoSlot]
                    ELSE [b.pool[t] EXCEPT
                            !.next = IF t = o.prev THEN o.next ELSE @,
                            !.prev = IF t = o.next THEN o.prev ELSE @]],
        !.level[o.side][o.level] =
           [head  |-> IF o.prev = NoSlot THEN o.next ELSE lv.head,
            tail  |-> IF o.next = NoSlot THEN o.prev ELSE lv.tail,
            qty   |-> QtySub(lv.qty, o.remaining),
            count |-> lv.count - 1],
        !.open = @ - 1]

(* A level whose last order has left is reset and its bit cleared.          *)
DropIfEmpty(b, side, idx) ==
  IF b.level[side][idx].count # 0 THEN b
  ELSE RefreshBest([b EXCEPT !.level[side][idx] = EmptyLevel,
                             !.bits[side] = @ \ {idx}], side, idx)

(* remove_order().                                                          *)
RemoveOrder(b, s) ==
  DropIfEmpty(FreeSlot(Unlink(b, s), s), b.pool[s].side, b.pool[s].level)

(* A buy trades at or below its limit, a sell at or above.                  *)
WithinLimit(takerSide, price, limit) ==
  IF takerSide = "Buy" THEN price <= limit ELSE price >= limit

(* Mutant of Fillable: the level at the limit itself is left out.           *)
FillableStrict(b, takerSide, limit) ==
  LET maker == Opposite(takerSide)
      inReach == {i \in b.bits[maker] :
                    /\ ~ Better(maker, i, b.best[maker])
                    /\ ToPrice(i) # limit /\ WithinLimit(takerSide, ToPrice(i), limit)}
  IN IF ~ HasBest(b, maker) THEN 0
     ELSE SumFunction([i \in inReach |-> b.level[maker][i].qty]) % QtyMod

(* Quantity a taker could trade within its limit: the level totals from the *)
(* cached best price outwards.                                              *)
Fillable(b, takerSide, limit) ==
  LET maker == Opposite(takerSide)
      inReach == {i \in b.bits[maker] :
                    /\ ~ Better(maker, i, b.best[maker])
                    /\ WithinLimit(takerSide, ToPrice(i), limit)}
  IN IF ~ HasBest(b, maker) THEN 0
     ELSE SumFunction([i \in inReach |-> b.level[maker][i].qty]) % QtyMod
===============================================================================
