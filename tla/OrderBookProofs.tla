---------------------------- MODULE OrderBookProofs ----------------------------
(***************************************************************************)
(* Theorems about OrderBook, for every band, tick, pool size, word width,  *)
(* set of inputs and bound: every variable keeps its type; the pool never  *)
(* mixes up its slots and the queues stay linked; the bitmaps, the cached  *)
(* best prices and the order count agree with the orders at rest, and the  *)
(* book is never crossed.                                                  *)
(***************************************************************************)
EXTENDS BookInvariant, CommonLemmas
-------------------------------------------------------------------------------
(* The functions of BookState.                                              *)

(* Arithmetic modulo a word stays in the word.                              *)
LEMMA ModType ==
  ASSUME NEW x \in Int, NEW m \in Nat, m > 1
  PROVE  x % m \in 0 .. m - 1
OBVIOUS

(* The ladder has a first index.                                            *)
LEMMA LadderSizeType == LadderSize \in Nat /\ LadderSize > 0
<1>1. \A d, t \in Int : d >= 0 /\ t > 0 => d \div t \in Int /\ d \div t >= 0
  OBVIOUS
<1> QED BY <1>1, BandAssumption DEF LadderSize

(* The index of every price in the band is an index of the ladder.          *)
LEMMA ToIndexType ==
  ASSUME NEW p \in Int, p >= MinPrice, p <= MaxPrice
  PROVE  ToIndex(p) \in Index
<1>1. \A d, e, t \in Int : 0 <= d /\ d <= e /\ t > 0 =>
         d \div t \in Int /\ 0 <= d \div t /\ d \div t <= e \div t /\ e \div t \in Int
  OBVIOUS
<1> QED BY <1>1, BandAssumption DEF ToIndex, Index, LadderSize

(* The search upwards returns the least occupied index in reach, or npos.   *)
LEMMA FindGeSpec ==
  ASSUME NEW S \in SUBSET Index, NEW i \in Int
  PROVE  \/ /\ FindGe(S, i) \in S
            /\ FindGe(S, i) >= i
            /\ \A k \in S : k >= i => FindGe(S, i) <= k
         \/ /\ FindGe(S, i) = NPos
            /\ \A k \in S : k < i
<1> DEFINE above == {j \in S : j >= i}
<1>1. CASE above = {}
  BY <1>1, LadderSizeType DEF FindGe, Index
<1>2. CASE above # {}
  <2>1. \E j \in above : \A k \in above : j <= k
    <3>1. above \in SUBSET Nat
      <4>1. \A k \in S : k \in Nat
        BY LadderSizeType DEF Index
      <4> QED BY <4>1
    <3> HIDE DEF above
    <3> QED BY <3>1, <1>2, LeastExists
  <2>2. FindGe(S, i) = CHOOSE j \in above : \A k \in above : j <= k
    BY <1>2 DEF FindGe
  <2>3. FindGe(S, i) \in above /\ \A k \in above : FindGe(S, i) <= k
    BY <2>1, <2>2
  <2> QED BY <2>3
<1> QED BY <1>1, <1>2

(* The search downwards returns the greatest, or npos.                      *)
LEMMA FindLeSpec ==
  ASSUME NEW S \in SUBSET Index, NEW i \in Int
  PROVE  \/ /\ FindLe(S, i) \in S
            /\ FindLe(S, i) <= i
            /\ \A k \in S : k <= i => FindLe(S, i) >= k
         \/ /\ FindLe(S, i) = NPos
            /\ \A k \in S : k > i
<1> DEFINE below == {j \in S : j <= i}
<1>1. CASE below = {}
  BY <1>1, LadderSizeType DEF FindLe, Index
<1>2. CASE below # {}
  <2>1. \E j \in below : \A k \in below : j >= k
    <3>1. below \in SUBSET (0 .. LadderSize - 1) /\ LadderSize - 1 \in Nat
      <4>1. \A k \in S : k \in 0 .. LadderSize - 1
        BY DEF Index
      <4> QED BY <4>1, LadderSizeType
    <3> HIDE DEF below
    <3> QED BY <3>1, <1>2, GreatestExists
  <2>2. FindLe(S, i) = CHOOSE j \in below : \A k \in below : j >= k
    BY <1>2 DEF FindLe
  <2>3. FindLe(S, i) \in below /\ \A k \in below : FindLe(S, i) >= k
    BY <2>1, <2>2
  <2> QED BY <2>3
<1> QED BY <1>1, <1>2
-------------------------------------------------------------------------------
(* Type lemmas: each function of BookState maps books to books.             *)

(* Constants of the module that occur in orders, levels and books.          *)
LEMMA ConstantsType ==
  /\ 0 \in Slot /\ 0 \in Index /\ 0 \in Quantity
  /\ 0 \in Generation /\ 1 \in Generation
  /\ InvalidOrderId \in OrderId
  /\ DefaultOrder \in Order
  /\ EmptyLevel \in PriceLevel
<1>1. 0 \in Slot /\ 0 \in Quantity /\ 0 \in Generation /\ 1 \in Generation
  BY WidthAssumption DEF Slot, Quantity, Generation
<1>2. 0 \in Index
  BY LadderSizeType DEF Index
<1>3. InvalidOrderId \in OrderId
  BY <1>1 DEF InvalidOrderId, MakeHandle, OrderId
<1>4. DefaultOrder \in Order
  BY <1>1, <1>2, <1>3 DEF DefaultOrder, Order, Side
<1>5. EmptyLevel \in PriceLevel
  BY <1>1 DEF EmptyLevel, PriceLevel
<1> QED BY <1>1, <1>2, <1>3, <1>4, <1>5

LEMMA FreshBookType == FreshBook \in Book
<1>1. [s \in Slot |-> DefaultOrder] \in [Slot -> Order]
  BY ConstantsType
<1>2. [s \in Slot |-> 0] \in [Slot -> Generation]
  BY ConstantsType
<1>3. [d \in Side |-> [i \in Index |-> EmptyLevel]] \in [Side -> [Index -> PriceLevel]]
  BY ConstantsType
<1>4. [d \in Side |-> {}] \in [Side -> SUBSET Index]
  OBVIOUS
<1>5. [d \in Side |-> NPos] \in [Side -> Index \cup {NPos}]
  OBVIOUS
<1>6. 0 \in 0 .. MaxSlots
  BY WidthAssumption
<1> QED BY <1>1, <1>2, <1>3, <1>4, <1>5, <1>6 DEF FreshBook, Book

(* alloc_slot() hands out a slot of the pool.                               *)
LEMMA AllocType ==
  ASSUME NEW b \in Book, CanAlloc(b)
  PROVE  AllocatedSlot(b) \in Slot /\ AllocSlot(b) \in Book
<1>1. CASE b.free # << >>
  <2>1. b.free \in Seq(Slot) /\ Len(b.free) > 0
    BY <1>1 DEF Book
  <2>2. b.free[Len(b.free)] \in Slot
    BY <2>1
  <2>3. SubSeq(b.free, 1, Len(b.free) - 1) \in Seq(Slot)
    BY <2>1
  <2>4. \A g \in Generation : (g + 1) % GenMod \in Generation
    BY ModType, WidthAssumption DEF Generation
  <2>5. AllocatedSlot(b) \in Slot
    BY <1>1, <2>2 DEF AllocatedSlot
  <2>6. [b.gen EXCEPT ![AllocatedSlot(b)] = (@ + 1) % GenMod] \in [Slot -> Generation]
    BY <2>4, <2>5 DEF Book
  <2>7. AllocSlot(b) = [b EXCEPT !.free = SubSeq(b.free, 1, Len(b.free) - 1),
                                 !.gen[AllocatedSlot(b)] = (@ + 1) % GenMod]
    BY <1>1 DEF AllocSlot
  <2> QED BY <2>3, <2>5, <2>6, <2>7 DEF Book
<1>2. CASE b.free = << >>
  <2>1. b.size \in Slot /\ b.size + 1 \in 0 .. MaxSlots
    BY <1>2, WidthAssumption DEF CanAlloc, Book, Slot
  <2>2. [b.pool EXCEPT ![b.size] = DefaultOrder] \in [Slot -> Order]
    BY <2>1, ConstantsType DEF Book
  <2>3. [b.gen EXCEPT ![b.size] = 1] \in [Slot -> Generation]
    BY <2>1, ConstantsType DEF Book
  <2>4. AllocSlot(b) = [b EXCEPT !.pool[b.size] = DefaultOrder,
                                 !.gen[b.size] = 1, !.size = @ + 1]
    BY <1>2 DEF AllocSlot
  <2>5. AllocatedSlot(b) \in Slot
    BY <1>2, <2>1 DEF AllocatedSlot
  <2> QED BY <2>1, <2>2, <2>3, <2>4, <2>5 DEF Book
<1> QED BY <1>1, <1>2

LEMMA FreeType ==
  ASSUME NEW b \in Book, NEW s \in Slot
  PROVE  FreeSlot(b, s) \in Book
<1>1. [b.pool[s] EXCEPT !.active = FALSE, !.id = InvalidOrderId] \in Order
  BY ConstantsType DEF Book, Order
<1>2. [b.pool EXCEPT ![s] = [b.pool[s] EXCEPT !.active = FALSE, !.id = InvalidOrderId]]
        \in [Slot -> Order]
  BY <1>1 DEF Book
<1>3. Append(b.free, s) \in Seq(Slot)
  BY DEF Book
<1>4. FreeSlot(b, s) =
        [b EXCEPT !.pool = [b.pool EXCEPT ![s] =
                              [b.pool[s] EXCEPT !.active = FALSE, !.id = InvalidOrderId]],
                  !.free = Append(@, s)]
  BY DEF FreeSlot, Book
<1> QED BY <1>2, <1>3, <1>4 DEF Book

LEMMA IdForType ==
  ASSUME NEW b \in Book, NEW s \in Slot
  PROVE  IdFor(b, s) \in OrderId
BY DEF Book, IdFor, MakeHandle, OrderId

LEMMA QtyType ==
  ASSUME NEW x \in Quantity, NEW y \in Quantity
  PROVE  QtyAdd(x, y) \in Quantity /\ QtySub(x, y) \in Quantity
<1>1. x \in Int /\ y \in Int /\ QtyMod \in Nat /\ QtyMod > 1
  BY WidthAssumption DEF Quantity
<1>2. x + y \in Int /\ x - y \in Int
  BY <1>1
<1> QED BY <1>1, <1>2, ModType DEF QtyAdd, QtySub, Quantity

LEMMA RefreshType ==
  ASSUME NEW b \in Book, NEW side \in Side, NEW from \in Index
  PROVE  RefreshBest(b, side, from) \in Book
<1>1. b.bits[side] \in SUBSET Index /\ from \in Int
  BY DEF Book, Index
<1>2. FindLe(b.bits[side], from) \in Index \cup {NPos}
  BY <1>1, FindLeSpec
<1>3. FindGe(b.bits[side], from) \in Index \cup {NPos}
  BY <1>1, FindGeSpec
<1> QED BY <1>2, <1>3 DEF RefreshBest, Book

LEMMA DropType ==
  ASSUME NEW b \in Book, NEW side \in Side, NEW idx \in Index
  PROVE  DropIfEmpty(b, side, idx) \in Book
<1> DEFINE c == [b EXCEPT !.level[side][idx] = EmptyLevel, !.bits[side] = @ \ {idx}]
<1>1. [b.level EXCEPT ![side][idx] = EmptyLevel] \in [Side -> [Index -> PriceLevel]]
  BY ConstantsType DEF Book
<1>2. [b.bits EXCEPT ![side] = @ \ {idx}] \in [Side -> SUBSET Index]
  BY DEF Book
<1>3. c \in Book
  BY <1>1, <1>2 DEF Book
<1>4. RefreshBest(c, side, idx) \in Book
  BY <1>3, RefreshType
<1> QED BY <1>4 DEF DropIfEmpty

LEMMA UnlinkType ==
  ASSUME NEW b \in Book, NEW s \in Slot
  PROVE  Unlink(b, s) \in Book
<1> DEFINE o  == b.pool[s]
           lv == b.level[o.side][o.level]
           pool == [t \in Slot |->
                      IF t = s THEN [o EXCEPT !.prev = NoSlot, !.next = NoSlot]
                      ELSE [b.pool[t] EXCEPT
                              !.next = IF t = o.prev THEN o.next ELSE @,
                              !.prev = IF t = o.next THEN o.prev ELSE @]]
           level == [head  |-> IF o.prev = NoSlot THEN o.next ELSE lv.head,
                     tail  |-> IF o.next = NoSlot THEN o.prev ELSE lv.tail,
                     qty   |-> QtySub(lv.qty, o.remaining),
                     count |-> lv.count - 1]
<1>1. o \in Order
  BY DEF Book
<1>2. o.side \in Side /\ o.level \in Index /\ o.remaining \in Quantity
      /\ o.prev \in Slot \cup {NoSlot} /\ o.next \in Slot \cup {NoSlot}
  BY <1>1 DEF Order
<1>3. lv \in PriceLevel
  BY <1>2 DEF Book
<1>4. pool \in [Slot -> Order]
  <2>1. ASSUME NEW t \in Slot PROVE pool[t] \in Order
    <3>1. b.pool[t] \in Order
      BY DEF Book
    <3> QED BY <1>1, <1>2, <3>1 DEF Order
  <2> QED BY <2>1
<1>5. level \in PriceLevel
  BY <1>2, <1>3, QtyType DEF PriceLevel
<1>6. [b.level EXCEPT ![o.side][o.level] = level] \in [Side -> [Index -> PriceLevel]]
  BY <1>2, <1>5 DEF Book
<1>7. b.open - 1 \in Int
  BY DEF Book
<1>8. Unlink(b, s) = [b EXCEPT !.pool = pool,
                               !.level = [b.level EXCEPT ![o.side][o.level] = level],
                               !.open = @ - 1]
  BY DEF Unlink, Book
<1> QED BY <1>4, <1>6, <1>7, <1>8 DEF Book

LEMMA RemoveType ==
  ASSUME NEW b \in Book, NEW s \in Slot
  PROVE  RemoveOrder(b, s) \in Book
<1>1. b.pool[s].side \in Side /\ b.pool[s].level \in Index
  BY DEF Book, Order
<1>2. FreeSlot(Unlink(b, s), s) \in Book
  BY UnlinkType, FreeType
<1> QED BY <1>1, <1>2, DropType DEF RemoveOrder

LEMMA RestType ==
  ASSUME NEW b \in Book, NEW s \in Slot, NEW o \in Order,
         o.price >= MinPrice, o.price <= MaxPrice
  PROVE  RestOrder(b, s, o) \in Book
<1> DEFINE idx == ToIndex(o.price)
           lv  == b.level[o.side][idx]
           linked == [o EXCEPT !.level = idx, !.prev = lv.tail, !.next = NoSlot,
                               !.active = TRUE]
           pool == [t \in Slot |->
                      IF t = s THEN linked
                      ELSE IF t = lv.tail THEN [b.pool[t] EXCEPT !.next = s]
                      ELSE b.pool[t]]
           level == [head |-> IF lv.tail = NoSlot THEN s ELSE lv.head, tail |-> s,
                     qty |-> QtyAdd(lv.qty, o.remaining), count |-> lv.count + 1]
           best == IF lv.count = 0 /\ (b.best[o.side] = NPos
                                        \/ Better(o.side, idx, b.best[o.side]))
                   THEN idx ELSE b.best[o.side]
           bits == IF lv.count = 0 THEN b.bits[o.side] \cup {idx} ELSE b.bits[o.side]
<1>1. o.side \in Side /\ o.price \in Int /\ o.remaining \in Quantity
  BY DEF Order
<1>2. idx \in Index
  BY <1>1, ToIndexType
<1>3. lv \in PriceLevel
  BY <1>1, <1>2 DEF Book
<1>4. linked \in Order
  BY <1>2, <1>3 DEF Order, PriceLevel
<1>5. pool \in [Slot -> Order]
  <2>1. ASSUME NEW t \in Slot PROVE pool[t] \in Order
    <3>1. b.pool[t] \in Order
      BY DEF Book
    <3>2. [b.pool[t] EXCEPT !.next = s] \in Order
      BY <3>1 DEF Order
    <3> QED BY <1>4, <3>1, <3>2
  <2> QED BY <2>1
<1>6. level \in PriceLevel
  BY <1>1, <1>3, QtyType DEF PriceLevel
<1>7. [b.level EXCEPT ![o.side][idx] = level] \in [Side -> [Index -> PriceLevel]]
  BY <1>1, <1>2, <1>6 DEF Book
<1>8. [b.bits EXCEPT ![o.side] = bits] \in [Side -> SUBSET Index]
  BY <1>1, <1>2 DEF Book
<1>9. [b.best EXCEPT ![o.side] = best] \in [Side -> Index \cup {NPos}]
  BY <1>1, <1>2 DEF Book
<1>10. b.open + 1 \in Int
  BY DEF Book
<1>11. RestOrder(b, s, o) =
         [b EXCEPT !.pool = pool,
                   !.level = [b.level EXCEPT ![o.side][idx] = level],
                   !.bits = [b.bits EXCEPT ![o.side] = bits],
                   !.best = [b.best EXCEPT ![o.side] = best],
                   !.open = @ + 1]
  BY DEF RestOrder, Book
<1> HIDE DEF idx, lv, linked, pool, level, best, bits
<1> QED BY <1>5, <1>7, <1>8, <1>9, <1>10, <1>11 DEF Book
-------------------------------------------------------------------------------
(* The actions of OrderBook.                                                *)

(* A maker, when there is one, is a slot of the pool.                       *)
LEMMA MakerType ==
  ASSUME TypeOK, Matching
  PROVE  /\ MakerSide \in Side
         /\ BestIndex \in Index
         /\ MakerSlot \in Slot
         /\ Maker \in Order
         /\ ToPrice(BestIndex) \in Int
<1>1. MakerSide \in Side
  BY DEF MakerSide, Opposite, Side
<1>2. BestIndex \in Index
  BY <1>1 DEF TypeOK, Matching, Crosses, HasBest, BestIndex, Book
<1>3. MakerSlot \in Slot
  BY <1>1, <1>2 DEF TypeOK, Matching, MakerSlot, Book, PriceLevel
<1>4. Maker \in Order
  BY <1>3 DEF TypeOK, Maker, Book
<1>5. ToPrice(BestIndex) \in Int
  BY <1>2, BandAssumption DEF ToPrice, Index
<1> QED BY <1>1, <1>2, <1>3, <1>4, <1>5

(* An id that resolves is the id of a slot of the pool.                     *)
LEMMA ResolveType ==
  ASSUME TypeOK, NEW id \in OrderId
  PROVE  id.slot \in Slot /\ book.pool[id.slot] \in Order
BY DEF TypeOK, OrderId, Book

(* A limit order that passes the checks has a price of the ladder.          *)
LEMMA AdmittedPrice ==
  ASSUME NEW b, NEW side, NEW price, NEW qty, NEW tif,
         LimitReject(b, side, price, qty, tif) = "None",
         price \in Int
  PROVE  /\ qty # 0
         /\ price >= MinPrice
         /\ price <= MaxPrice
         /\ (price - MinPrice) % TickSize = 0
<1>1. qty # 0
  BY DEF LimitReject
<1>2. ~ (price < MinPrice \/ price > MaxPrice)
  BY <1>1 DEF LimitReject
<1>3. (price - MinPrice) % TickSize = 0
  BY <1>1, <1>2 DEF LimitReject
<1> QED BY <1>1, <1>2, <1>3, BandAssumption

(* The reason to reject is a RejectReason.                                  *)
LEMMA LimitRejectType ==
  ASSUME NEW b, NEW side, NEW price, NEW qty, NEW tif
  PROVE  LimitReject(b, side, price, qty, tif) \in RejectReason
BY DEF LimitReject, RejectReason

(* Taking at most what is there stays in the word.                          *)
LEMMA QtyLess ==
  ASSUME NEW x \in Quantity, NEW y \in Quantity, y <= x
  PROVE  x - y \in Quantity
BY WidthAssumption DEF Quantity

(* A book with fewer lots left of an order and of its level.                *)
LEMMA ReducedType ==
  ASSUME NEW b \in Book, NEW s \in Slot, NEW q \in Quantity,
         q <= b.pool[s].remaining
  PROVE  [b EXCEPT !.pool[s].remaining = @ - q,
                   !.level[b.pool[s].side][b.pool[s].level].qty = QtySub(@, q)] \in Book
<1> DEFINE o == b.pool[s]
           lv == b.level[o.side][o.level]
           reduced == [b EXCEPT !.pool[s].remaining = @ - q,
                                !.level[o.side][o.level].qty = QtySub(@, q)]
<1>1. o \in Order /\ o.side \in Side /\ o.level \in Index
  BY DEF Book, Order
<1>2. o.remaining - q \in Quantity
  <2>1. o.remaining \in Quantity
    BY <1>1 DEF Order
  <2> QED BY <2>1, QtyLess
<1>3. [b.pool EXCEPT ![s].remaining = @ - q] \in [Slot -> Order]
  <2>1. [o EXCEPT !.remaining = @ - q] \in Order
    BY <1>1, <1>2 DEF Order
  <2> QED BY <2>1 DEF Book
<1>4. [b.level EXCEPT ![o.side][o.level].qty = QtySub(@, q)]
        \in [Side -> [Index -> PriceLevel]]
  <2>1. lv \in PriceLevel
    BY <1>1 DEF Book
  <2>2. [lv EXCEPT !.qty = QtySub(@, q)] \in PriceLevel
    BY <2>1, QtyType DEF PriceLevel
  <2> QED BY <1>1, <2>2 DEF Book
<1> QED BY <1>3, <1>4 DEF Book

(* The trade of one iteration of the matching loop, in one book.            *)
LEMMA FillMakerType ==
  ASSUME NEW b \in Book, NEW s \in Slot, NEW q \in Quantity,
         q <= b.pool[s].remaining
  PROVE  FillMaker(b, s, q) \in Book
BY ReducedType, RemoveType DEF FillMaker
-------------------------------------------------------------------------------
Typed == TypeOK /\ CallConsistent

LEMMA DefaultResultType == DefaultResult \in Result
BY ConstantsType DEF DefaultResult, Result, Status, RejectReason

LEMMA InitTyped == Init => Typed
<1> SUFFICES ASSUME Init PROVE Typed
  OBVIOUS
<1>1. book \in Book
  BY FreshBookType DEF Init
<1>2. call \in Call
  BY ConstantsType, BandAssumption DEF Init, Idle, Call, Side, TimeInForce
<1>3. stats \in BookStats /\ result \in Result
  BY ConstantsType, DefaultResultType DEF Init, NoStats, BookStats
<1>4. trades \in Seq(Trade) /\ lastTrade \in [has : BOOLEAN, price : Int]
  BY DEF Init, NoTrade
<1>5. CallConsistent
  BY DEF Init, Idle, CallConsistent
<1> QED BY <1>1, <1>2, <1>3, <1>4, <1>5 DEF Init, Typed, TypeOK, SelfTradePrevention

(* The record of a call that enters.                                        *)
LEMMA EnteredType ==
  ASSUME NEW b \in Book, CanAlloc(b), NEW market \in BOOLEAN, NEW side \in Side,
         NEW price \in Int, NEW qty \in Quantity, NEW tif \in TimeInForce,
         NEW participant \in Nat
  PROVE  Entered(b, market, side, price, qty, tif, participant) \in Call
<1>1. AllocatedSlot(b) \in Slot /\ AllocSlot(b) \in Book
  BY AllocType
<1>2. IdFor(AllocSlot(b), AllocatedSlot(b)) \in OrderId
  BY <1>1, IdForType
<1> QED BY <1>1, <1>2, ConstantsType DEF Entered, Call

(* A rejected order leaves everything typed.                                *)
LEMMA RejectTyped ==
  ASSUME Typed, NEW reason \in RejectReason, NEW qty \in Quantity, book' \in Book,
         Reject(reason, qty)
  PROVE  Typed'
<1>1. result' \in Result
  BY DefaultResultType DEF Reject, Result
<1>2. stats' \in BookStats
  BY DEF Reject, Typed, TypeOK, BookStats
<1> QED BY <1>1, <1>2 DEF Reject, Typed, TypeOK, CallConsistent

LEMMA EnterLimitTyped ==
  ASSUME Typed, NEW b \in Book, NEW side \in Side, NEW price \in Int,
         NEW qty \in Quantity, NEW tif \in TimeInForce, NEW participant \in Nat,
         EnterLimit(b, side, price, qty, tif, participant)
  PROVE  Typed'
<1> DEFINE reason == LimitReject(b, side, price, qty, tif)
<1>1. CASE /\ reason # "None"
           /\ book' = b
           /\ Reject(reason, qty)
  BY <1>1, LimitRejectType, RejectTyped
<1>2. CASE /\ reason = "None"
           /\ CanAlloc(b)
           /\ book' = AllocSlot(b)
           /\ call' = Entered(b, FALSE, side, price, qty, tif, participant)
           /\ UNCHANGED <<stp, nextSeq, nextTradeSeq, trades, lastTrade, stats, result>>
  <2>1. book' \in Book
    BY <1>2, AllocType
  <2>2. call' \in Call
    BY <1>2, EnteredType
  <2>3. CallConsistent'
    <3>1. price >= MinPrice /\ price <= MaxPrice /\ (price - MinPrice) % TickSize = 0
      BY <1>2, AdmittedPrice
    <3>2. qty \in Int
      BY DEF Quantity
    <3> QED BY <1>2, <3>1, <3>2 DEF Entered, CallConsistent
  <2> QED BY <1>2, <2>1, <2>2, <2>3 DEF Typed, TypeOK
<1> QED BY <1>1, <1>2 DEF EnterLimit

LEMMA SubmitMarketTyped ==
  ASSUME Typed, NEW side \in Side, NEW qty \in Quantity, NEW participant \in Nat,
         SubmitMarket(side, qty, participant)
  PROVE  Typed'
<1> DEFINE reason == IF qty = 0 THEN "ZeroQuantity"
                     ELSE IF ~ HasBest(book, Opposite(side)) THEN "EmptyBook" ELSE "None"
<1>1. CASE /\ reason # "None"
           /\ book' = book
           /\ Reject(reason, qty)
  <2>1. reason \in RejectReason
    BY DEF RejectReason
  <2>2. book' \in Book
    BY <1>1 DEF Typed, TypeOK
  <2> HIDE DEF reason
  <2> QED BY <1>1, <2>1, <2>2, RejectTyped
<1>2. CASE /\ reason = "None"
           /\ CanAlloc(book)
           /\ book' = FreeSlot(AllocSlot(book), AllocatedSlot(book))
           /\ call' = Entered(book, TRUE, side, 0, qty, "IOC", participant)
           /\ UNCHANGED <<stp, nextSeq, nextTradeSeq, trades, lastTrade, stats, result>>
  <2>1. book' \in Book
    BY <1>2, AllocType, FreeType DEF Typed, TypeOK
  <2>2. call' \in Call
    <3>1. "IOC" \in TimeInForce /\ TRUE \in BOOLEAN /\ 0 \in Int
      BY DEF TimeInForce
    <3> QED BY <1>2, <3>1, EnteredType DEF Typed, TypeOK
  <2>3. CallConsistent'
    <3>1. qty \in Int
      BY DEF Quantity
    <3> QED BY <1>2, <3>1 DEF Entered, CallConsistent
  <2> QED BY <1>2, <2>1, <2>2, <2>3 DEF Typed, TypeOK
<1> QED BY <1>1, <1>2 DEF SubmitMarket

LEMMA SubmitLimitTyped ==
  ASSUME Typed, NEW side \in Side, NEW price \in Int, NEW qty \in Quantity,
         NEW tif \in TimeInForce, NEW participant \in Nat,
         SubmitLimit(side, price, qty, tif, participant)
  PROVE  Typed'
BY EnterLimitTyped DEF SubmitLimit, Typed, TypeOK

LEMMA StopTakerTyped ==
  ASSUME Typed, StopTaker
  PROVE  Typed'
BY DEF StopTaker, Typed, TypeOK, CallConsistent, Call

LEMMA PullMakerTyped ==
  ASSUME Typed, PullMaker
  PROVE  Typed'
<1>1. book' \in Book
  BY MakerType, RemoveType DEF PullMaker, Typed, TypeOK
<1>2. stats' \in BookStats
  BY DEF PullMaker, Typed, TypeOK, BookStats
<1> QED BY <1>1, <1>2 DEF PullMaker, Typed, TypeOK, CallConsistent

LEMMA FillTyped ==
  ASSUME Typed, Fill
  PROVE  Typed'
<1> DEFINE q  == Smaller(call.remaining, Maker.remaining)
           px == ToPrice(BestIndex)
           t  == [seq |-> nextTradeSeq, taker |-> call.id, maker |-> Maker.id,
                  price |-> px, qty |-> q, side |-> call.side]
<1>1. /\ MakerSlot \in Slot /\ Maker \in Order /\ px \in Int
  BY MakerType DEF Fill, Typed
<1>2. /\ call \in Call /\ call.active /\ call.remaining \in Quantity
      /\ call.filled \in Quantity /\ call.qty \in Quantity
  BY DEF Typed, TypeOK, Call, Fill, Matching
<1>3. Maker.remaining \in Quantity
  BY <1>1 DEF Order
<1>4. q \in Quantity /\ q <= call.remaining /\ q <= Maker.remaining
  BY <1>2, <1>3 DEF Smaller, Quantity
<1>5. book' \in Book
  BY <1>1, <1>4, FillMakerType DEF Fill, Typed, TypeOK, Maker
<1>6. trades' \in Seq(Trade)
  <2>1. t \in Trade
    BY <1>1, <1>2, <1>4 DEF Trade, Typed, TypeOK, Order, Call
  <2> HIDE DEF t
  <2>2. trades' = Append(trades, t)
    BY DEF Fill, t
  <2> QED BY <2>1, <2>2 DEF Typed, TypeOK
<1>7. px * q \in Int
  BY <1>1, <1>4 DEF Quantity
<1>8. /\ call.remaining - q \in Quantity
      /\ call.filled + q \in Quantity
      /\ call.filled + q + (call.remaining - q) = call.qty
  <2>1. call.filled + call.remaining = call.qty
    BY <1>2 DEF Typed, CallConsistent
  <2> QED BY <2>1, <1>2, <1>4, WidthAssumption DEF Quantity
<1>9. call' = [call EXCEPT !.remaining = @ - q, !.filled = @ + q,
                           !.notional = @ + px * q, !.lastPx = px]
  BY DEF Fill
<1>10. lastTrade' = [has |-> TRUE, price |-> px]
  BY DEF Fill
<1>11. stats' = [stats EXCEPT !.trades = @ + 1, !.volume = QtyAdd(@, q),
                              !.notional = @ + px * q]
  BY DEF Fill
<1> HIDE DEF q, px
<1>12. call' \in Call
  <2>1. call.notional + px * q \in Int
    BY <1>2, <1>7 DEF Call
  <2> QED BY <1>1, <1>2, <2>1, <1>8, <1>9 DEF Call
<1>13. stats' \in BookStats
  <2>1. stats \in BookStats
    BY DEF Typed, TypeOK
  <2>2. stats.trades + 1 \in Nat /\ stats.notional + px * q \in Int
    BY <2>1, <1>7 DEF BookStats
  <2>3. QtyAdd(stats.volume, q) \in Quantity
    BY <2>1, <1>4, QtyType DEF BookStats
  <2> QED BY <1>11, <2>1, <2>2, <2>3 DEF BookStats
<1>14. CallConsistent'
  BY <1>2, <1>8, <1>9 DEF Typed, CallConsistent, Call
<1> QED BY <1>1, <1>5, <1>6, <1>10, <1>12, <1>13, <1>14 DEF Fill, Typed, TypeOK

(* The end of an order entry: the Result and the counters.                  *)
LEMMA ReturnTyped ==
  ASSUME Typed, NEW status \in Status, NEW resting \in BOOLEAN, NEW cancelled \in Nat,
         Return(status, resting, cancelled)
  PROVE  /\ call' \in Call
         /\ CallConsistent'
         /\ result' \in Result
         /\ stats' \in BookStats
         /\ UNCHANGED <<stp, nextTradeSeq, trades, lastTrade>>
<1>1. call' \in Call
  BY ConstantsType DEF Return, Idle, Call, Side, TimeInForce
<1>2. CallConsistent'
  BY DEF Return, Idle, CallConsistent
<1>3. result' \in Result
  BY DEF Return, Outcome, Result, RejectReason, Typed, TypeOK, Call
<1>4. stats' \in BookStats
  <2>1. stats \in BookStats
    BY DEF Typed, TypeOK
  <2>2. stats.accepted + 1 \in Nat /\ stats.cancelled + cancelled \in Nat
    BY <2>1 DEF BookStats
  <2> QED BY <2>1, <2>2 DEF Return, BookStats
<1> QED BY <1>1, <1>2, <1>3, <1>4 DEF Return

LEMMA ReleaseType ==
  ASSUME Typed, ReleaseTaker
  PROVE  book' \in Book
<1>1. call.slot \in Slot
  BY DEF Typed, TypeOK, Call
<1> QED BY <1>1, FreeType DEF ReleaseTaker, Typed, TypeOK

LEMMA ReturnFilledTyped ==
  ASSUME Typed, ReturnFilled
  PROVE  Typed'
<1>1. "Filled" \in Status /\ FALSE \in BOOLEAN /\ 0 \in Nat
  BY DEF Status
<1> QED BY <1>1, ReturnTyped, ReleaseType DEF ReturnFilled, Typed, TypeOK

LEMMA ReturnKilledTyped ==
  ASSUME Typed, ReturnKilled
  PROVE  Typed'
<1> DEFINE status == IF call.filled > 0 THEN "PartiallyFilled" ELSE "Cancelled"
<1>1. status \in Status /\ FALSE \in BOOLEAN /\ 1 \in Nat
  BY DEF Status
<1>2. Return(status, FALSE, 1)
  BY DEF ReturnKilled
<1> HIDE DEF status
<1> QED BY <1>1, <1>2, ReturnTyped, ReleaseType DEF ReturnKilled, Typed, TypeOK

LEMMA ReturnRestingTyped ==
  ASSUME Typed, ReturnResting
  PROVE  Typed'
<1> DEFINE status == IF call.filled > 0 THEN "PartiallyFilled" ELSE "Accepted"
           o == [DefaultOrder EXCEPT
                   !.id = call.id, !.price = call.price, !.qty = call.qty,
                   !.remaining = call.remaining, !.seq = nextSeq,
                   !.participant = call.participant, !.side = call.side]
<1>1. status \in Status /\ TRUE \in BOOLEAN /\ 0 \in Nat
  BY DEF Status
<1>2. o \in Order
  BY ConstantsType DEF Typed, TypeOK, Call, Order
<1>3. call.slot \in Slot
  BY DEF Typed, TypeOK, Call
<1>4. o.price = call.price
  BY DEF DefaultOrder
<1>5. call.price >= MinPrice /\ call.price <= MaxPrice
  BY DEF ReturnResting, Rests, Matched, Typed, CallConsistent
<1>6. book' = RestOrder(book, call.slot, o) /\ Return(status, TRUE, 0)
      /\ nextSeq' = nextSeq + 1
  BY DEF ReturnResting
<1> HIDE DEF o, status
<1>7. book' \in Book
  BY <1>2, <1>3, <1>4, <1>5, <1>6, RestType DEF Typed, TypeOK
<1>8. /\ call' \in Call /\ CallConsistent' /\ result' \in Result /\ stats' \in BookStats
      /\ UNCHANGED <<stp, nextTradeSeq, trades, lastTrade>>
  BY <1>1, <1>6, ReturnTyped
<1> QED BY <1>6, <1>7, <1>8 DEF Typed, TypeOK

LEMMA CancelLiveTyped ==
  ASSUME Typed, NEW id \in OrderId, CancelLive(id)
  PROVE  Typed'
<1>1. book' \in Book
  BY ResolveType, RemoveType DEF CancelLive, Typed, TypeOK
<1>2. stats' \in BookStats
  BY DEF CancelLive, Typed, TypeOK, BookStats
<1> QED BY <1>1, <1>2 DEF CancelLive, Typed, TypeOK, CallConsistent

LEMMA AmendUnknownTyped ==
  ASSUME Typed, NEW id \in OrderId, AmendUnknown(id)
  PROVE  Typed'
<1>1. result' \in Result
  BY DefaultResultType DEF AmendUnknown, Result, RejectReason
<1> QED BY <1>1 DEF AmendUnknown, Typed, TypeOK, CallConsistent

LEMMA AmendToCancelTyped ==
  ASSUME Typed, NEW id \in OrderId, NEW newQty \in Quantity, AmendToCancel(id, newQty)
  PROVE  Typed'
<1>1. book' \in Book
  BY ResolveType, RemoveType DEF AmendToCancel, Typed, TypeOK
<1>2. stats' \in BookStats
  BY DEF AmendToCancel, Typed, TypeOK, BookStats
<1>3. result' \in Result
  BY DefaultResultType DEF AmendToCancel, Result, Status
<1> QED BY <1>1, <1>2, <1>3 DEF AmendToCancel, Typed, TypeOK, CallConsistent

LEMMA AmendedQtyType ==
  ASSUME TypeOK, NEW id \in OrderId, NEW newQty \in Quantity
  PROVE  QtySub(newQty, AlreadyFilled(id)) \in Quantity
<1>1. AlreadyFilled(id) \in Quantity
  BY ResolveType, QtyType DEF AlreadyFilled, Order
<1> QED BY <1>1, QtyType

LEMMA AmendDownTyped ==
  ASSUME Typed, NEW id \in OrderId, NEW newQty \in Quantity, AmendDown(id, newQty)
  PROVE  Typed'
<1> DEFINE o == book.pool[id.slot]
           newRemaining == QtySub(newQty, AlreadyFilled(id))
           lv == book.level[o.side][o.level]
<1>1. id.slot \in Slot /\ o \in Order /\ newRemaining \in Quantity
  BY ResolveType, AmendedQtyType DEF Typed
<1>2. o.side \in Side /\ o.level \in Index /\ o.remaining \in Quantity
  BY <1>1 DEF Order
<1>3. QtySub(lv.qty, o.remaining - newRemaining) \in Quantity
  <2>1. newRemaining <= o.remaining
    BY DEF AmendDown
  <2>2. o.remaining - newRemaining \in Quantity
    BY <1>1, <1>2, <2>1, QtyLess
  <2>3. lv.qty \in Quantity
    BY <1>2 DEF Typed, TypeOK, Book, PriceLevel
  <2> QED BY <2>2, <2>3, QtyType
<1>4. [book.pool EXCEPT ![id.slot].remaining = newRemaining, ![id.slot].qty = newQty]
        \in [Slot -> Order]
  <2>1. [o EXCEPT !.remaining = newRemaining, !.qty = newQty] \in Order
    BY <1>1 DEF Order
  <2> QED BY <2>1 DEF Typed, TypeOK, Book
<1>5. [book.level EXCEPT ![o.side][o.level].qty = QtySub(@, o.remaining - newRemaining)]
        \in [Side -> [Index -> PriceLevel]]
  <2>1. lv \in PriceLevel
    BY <1>2 DEF Typed, TypeOK, Book
  <2>2. [lv EXCEPT !.qty = QtySub(@, o.remaining - newRemaining)] \in PriceLevel
    BY <1>3, <2>1 DEF PriceLevel
  <2> QED BY <1>2, <2>2 DEF Typed, TypeOK, Book
<1>6. book' =
        [book EXCEPT
           !.level[o.side][o.level].qty = QtySub(@, o.remaining - newRemaining),
           !.pool[id.slot].remaining = newRemaining, !.pool[id.slot].qty = newQty]
  BY DEF AmendDown
<1>7. result' \in Result
  BY <1>1, DefaultResultType DEF AmendDown, Result, Status
<1> HIDE DEF o, newRemaining, lv
<1>8. book' \in Book
  BY <1>4, <1>5, <1>6 DEF Typed, TypeOK, Book
<1> QED BY <1>7, <1>8 DEF AmendDown, Typed, TypeOK, CallConsistent

LEMMA AmendUpTyped ==
  ASSUME Typed, NEW id \in OrderId, NEW newQty \in Quantity, AmendUp(id, newQty)
  PROVE  Typed'
<1> DEFINE o == book.pool[id.slot]
           newRemaining == QtySub(newQty, AlreadyFilled(id))
<1>1. id.slot \in Slot /\ o \in Order /\ newRemaining \in Quantity
  BY ResolveType, AmendedQtyType DEF Typed
<1>2. RemoveOrder(book, id.slot) \in Book
  BY <1>1, RemoveType DEF Typed, TypeOK
<1>3. o.side \in Side /\ o.price \in Int /\ o.participant \in Nat /\ "GTC" \in TimeInForce
  BY <1>1 DEF Order, TimeInForce
<1>4. EnterLimit(RemoveOrder(book, id.slot), o.side, o.price, newRemaining, "GTC",
                 o.participant)
  BY DEF AmendUp
<1> HIDE DEF o, newRemaining
<1> QED BY <1>1, <1>2, <1>3, <1>4, EnterLimitTyped

LEMMA ClearTyped ==
  ASSUME Typed, Clear
  PROVE  Typed'
<1>1. stats' \in BookStats
  BY ConstantsType DEF Clear, NoStats, BookStats
<1>2. trades' \in Seq(Trade) /\ lastTrade' \in [has : BOOLEAN, price : Int]
  BY DEF Clear, NoTrade
<1> QED BY <1>1, <1>2, FreshBookType DEF Clear, Typed, TypeOK, CallConsistent

(* Every step keeps the types.                                              *)
LEMMA NextTyped == Typed /\ [Next]_vars => Typed'
<1> SUFFICES ASSUME Typed, [Next]_vars PROVE Typed'
  OBVIOUS
<1> USE InputAssumption
<1>1. ASSUME NEW side \in Side, NEW price \in Prices, NEW qty \in Quantities,
             NEW tif \in Tifs, NEW participant \in Participants,
             SubmitLimit(side, price, qty, tif, participant)
      PROVE  Typed'
  BY <1>1, SubmitLimitTyped
<1>2. ASSUME NEW side \in Side, NEW qty \in Quantities, NEW participant \in Participants,
             SubmitMarket(side, qty, participant)
      PROVE  Typed'
  BY <1>2, SubmitMarketTyped
<1>3. CASE StopTaker
  BY <1>3, StopTakerTyped
<1>4. CASE PullMaker
  BY <1>4, PullMakerTyped
<1>5. CASE Fill
  BY <1>5, FillTyped
<1>6. CASE ReturnFilled
  BY <1>6, ReturnFilledTyped
<1>7. CASE ReturnResting
  BY <1>7, ReturnRestingTyped
<1>8. CASE ReturnKilled
  BY <1>8, ReturnKilledTyped
<1>9. ASSUME NEW id \in OrderId, CancelLive(id) PROVE Typed'
  BY <1>9, CancelLiveTyped
<1>10. ASSUME NEW id \in OrderId, CancelUnknown(id) PROVE Typed'
  BY <1>10 DEF CancelUnknown, vars, Typed, TypeOK, CallConsistent
<1>11. ASSUME NEW id \in OrderId, AmendUnknown(id) PROVE Typed'
  BY <1>11, AmendUnknownTyped
<1>12. ASSUME NEW id \in OrderId, NEW newQty \in Quantities, AmendToCancel(id, newQty)
       PROVE  Typed'
  BY <1>12, AmendToCancelTyped
<1>13. ASSUME NEW id \in OrderId, NEW newQty \in Quantities, AmendDown(id, newQty)
       PROVE  Typed'
  BY <1>13, AmendDownTyped
<1>14. ASSUME NEW id \in OrderId, NEW newQty \in Quantities, AmendUp(id, newQty)
       PROVE  Typed'
  BY <1>14, AmendUpTyped
<1>15. ASSUME NEW mode \in StpModes, SetSelfTradePrevention(mode) PROVE Typed'
  BY <1>15 DEF SetSelfTradePrevention, Typed, TypeOK, CallConsistent
<1>16. CASE ClearTrades
  BY <1>16 DEF ClearTrades, Typed, TypeOK, CallConsistent
<1>17. CASE Clear
  BY <1>17, ClearTyped
<1>18. CASE UNCHANGED vars
  BY <1>18 DEF vars, Typed, TypeOK, CallConsistent
<1> QED BY <1>1, <1>2, <1>3, <1>4, <1>5, <1>6, <1>7, <1>8, <1>9, <1>10, <1>11,
           <1>12, <1>13, <1>14, <1>15, <1>16, <1>17, <1>18
        DEF Next, EngineStep, MatchStep, ReturnStep

(* The engine never leaves its types: no index leaves the ladder or the     *)
(* pool and no quantity its word, whatever is submitted, in whatever order. *)
THEOREM TypeCorrect == Spec => []TypeOK
<1>1. Spec => []Typed
  BY InitTyped, NextTyped, PTL DEF Spec
<1>2. Typed => TypeOK
  BY DEF Typed
<1> QED BY <1>1, <1>2, PTL
-------------------------------------------------------------------------------
(* The pool and the queues.                                                 *)

(* How one book differs from another.                                       *)

SamePool(b, c) == c.size = b.size /\ c.free = b.free

(* The orders in S are the same but for their links and quantities.         *)
SameOrders(b, c, S) ==
  \A t \in S :
    /\ c.pool[t].active = b.pool[t].active
    /\ c.pool[t].side = b.pool[t].side
    /\ c.pool[t].level = b.pool[t].level
    /\ c.pool[t].seq = b.pool[t].seq

SameLinks(b, c, S) ==
  \A t \in S : c.pool[t].next = b.pool[t].next /\ c.pool[t].prev = b.pool[t].prev

(* The other slots are linked past s.                                       *)
LinksPast(b, c, s) ==
  LET o == b.pool[s]
  IN \A t \in Slot \ {s} :
       /\ c.pool[t].next = IF t = o.prev THEN o.next ELSE b.pool[t].next
       /\ c.pool[t].prev = IF t = o.next THEN o.prev ELSE b.pool[t].prev

SameLevelsBut(b, c, side, idx) ==
  \A d \in Side, i \in Index : d # side \/ i # idx => c.level[d][i] = b.level[d][i]

(* lw is the level of s without s.                                          *)
LevelPast(b, lw, s) ==
  LET o  == b.pool[s]
      lv == b.level[o.side][o.level]
  IN /\ lw.head = IF o.prev = NoSlot THEN o.next ELSE lv.head
     /\ lw.tail = IF o.next = NoSlot THEN o.prev ELSE lv.tail
     /\ lw.count = lv.count - 1

(* Book c is b with slot s taken out of its queue.                          *)
TakenOut(b, c, s) ==
  /\ LinksPast(b, c, s)
  /\ SameLevelsBut(b, c, b.pool[s].side, b.pool[s].level)
  /\ LevelPast(b, c.level[b.pool[s].side][b.pool[s].level], s)
-------------------------------------------------------------------------------
(* An order has its fields in their types.                                  *)
LEMMA OrderType ==
  ASSUME NEW b \in Book, NEW s \in Slot
  PROVE  /\ b.pool[s] \in Order
         /\ b.pool[s].side \in Side
         /\ b.pool[s].level \in Index
         /\ b.pool[s].seq \in Nat
         /\ b.pool[s].active \in BOOLEAN
         /\ b.pool[s].prev \in Slot \cup {NoSlot}
         /\ b.pool[s].next \in Slot \cup {NoSlot}
<1>1. b.pool[s] \in Order
  BY DEF Book
<1> QED BY <1>1 DEF Order

(* Unlink takes its slot out of the queue and touches nothing else.         *)
LEMMA UnlinkShape ==
  ASSUME NEW b \in Book, NEW s \in Slot
  PROVE  /\ SamePool(b, Unlink(b, s))
         /\ Unlink(b, s).open = b.open - 1
         /\ Unlink(b, s).bits = b.bits
         /\ Unlink(b, s).best = b.best
         /\ SameOrders(b, Unlink(b, s), Slot)
         /\ TakenOut(b, Unlink(b, s), s)
         /\ Unlink(b, s).level[b.pool[s].side][b.pool[s].level].qty =
              QtySub(b.level[b.pool[s].side][b.pool[s].level].qty, b.pool[s].remaining)
<1> DEFINE o == b.pool[s]
           c == Unlink(b, s)
<1>1. o \in Order /\ o.side \in Side /\ o.level \in Index
  BY OrderType
<1>2. SamePool(b, c) /\ c.open = b.open - 1 /\ c.bits = b.bits /\ c.best = b.best
  BY DEF Unlink, Book, SamePool
<1>3. ASSUME NEW t \in Slot
      PROVE  /\ c.pool[t].active = b.pool[t].active
             /\ c.pool[t].side = b.pool[t].side
             /\ c.pool[t].level = b.pool[t].level
             /\ c.pool[t].seq = b.pool[t].seq
             /\ t # s => /\ c.pool[t].next =
                              IF t = o.prev THEN o.next ELSE b.pool[t].next
                         /\ c.pool[t].prev =
                              IF t = o.next THEN o.prev ELSE b.pool[t].prev
  <2>1. b.pool[t] \in Order
    BY OrderType
  <2>2. c.pool[t] = IF t = s THEN [o EXCEPT !.prev = NoSlot, !.next = NoSlot]
                    ELSE [b.pool[t] EXCEPT !.next = IF t = o.prev THEN o.next ELSE @,
                                           !.prev = IF t = o.next THEN o.prev ELSE @]
    BY DEF Unlink, Book
  <2> QED BY <1>1, <2>1, <2>2 DEF Order
<1>4. c.level = [b.level EXCEPT ![o.side][o.level] =
        [head  |-> IF o.prev = NoSlot THEN o.next ELSE b.level[o.side][o.level].head,
         tail  |-> IF o.next = NoSlot THEN o.prev ELSE b.level[o.side][o.level].tail,
         qty   |-> QtySub(b.level[o.side][o.level].qty, o.remaining),
         count |-> b.level[o.side][o.level].count - 1]]
  BY DEF Unlink, Book
<1>5. b.level \in [Side -> [Index -> PriceLevel]]
  BY DEF Book
<1> HIDE DEF c
<1>6. SameOrders(b, c, Slot) /\ LinksPast(b, c, s)
  BY <1>3 DEF SameOrders, LinksPast
<1>7. SameLevelsBut(b, c, o.side, o.level)
  <2> HIDE DEF o
  <2> QED BY <1>1, <1>4, <1>5 DEF SameLevelsBut
<1>8. /\ LevelPast(b, c.level[o.side][o.level], s)
      /\ c.level[o.side][o.level].qty = QtySub(b.level[o.side][o.level].qty, o.remaining)
  <2>1. c.level[o.side][o.level] =
        [head  |-> IF o.prev = NoSlot THEN o.next ELSE b.level[o.side][o.level].head,
         tail  |-> IF o.next = NoSlot THEN o.prev ELSE b.level[o.side][o.level].tail,
         qty   |-> QtySub(b.level[o.side][o.level].qty, o.remaining),
         count |-> b.level[o.side][o.level].count - 1]
    <3> HIDE DEF o
    <3> QED BY <1>1, <1>4, <1>5
  <2> HIDE DEF o
  <2>2. LET lw == c.level[o.side][o.level]
        IN /\ lw.head = IF o.prev = NoSlot THEN o.next ELSE b.level[o.side][o.level].head
           /\ lw.tail = IF o.next = NoSlot THEN o.prev ELSE b.level[o.side][o.level].tail
           /\ lw.count = b.level[o.side][o.level].count - 1
           /\ lw.qty = QtySub(b.level[o.side][o.level].qty, o.remaining)
    BY <2>1
  <2> QED BY <2>2 DEF LevelPast, o
<1> QED BY <1>2, <1>6, <1>7, <1>8 DEF c, TakenOut

(* A freed slot is inactive, and goes on top of the free list.              *)
LEMMA FreeShape ==
  ASSUME NEW b \in Book, NEW s \in Slot
  PROVE  /\ FreeSlot(b, s).size = b.size
         /\ FreeSlot(b, s).free = Append(b.free, s)
         /\ FreeSlot(b, s).open = b.open
         /\ FreeSlot(b, s).bits = b.bits
         /\ FreeSlot(b, s).best = b.best
         /\ FreeSlot(b, s).level = b.level
         /\ ~ FreeSlot(b, s).pool[s].active
         /\ SameOrders(b, FreeSlot(b, s), Slot \ {s})
         /\ SameLinks(b, FreeSlot(b, s), Slot)
<1> DEFINE c == FreeSlot(b, s)
<1>1. /\ c.size = b.size /\ c.free = Append(b.free, s) /\ c.open = b.open
      /\ c.bits = b.bits /\ c.best = b.best /\ c.level = b.level
  BY DEF FreeSlot, Book
<1>2. c.pool = [b.pool EXCEPT ![s] = [b.pool[s] EXCEPT !.active = FALSE,
                                                      !.id = InvalidOrderId]]
  BY DEF FreeSlot, Book
<1>3. b.pool \in [Slot -> Order] /\ b.pool[s] \in Order
  BY DEF Book
<1> HIDE DEF c
<1>4. /\ ~ c.pool[s].active
      /\ c.pool[s].next = b.pool[s].next /\ c.pool[s].prev = b.pool[s].prev
  BY <1>2, <1>3 DEF Order
<1>5. \A t \in Slot \ {s} : c.pool[t] = b.pool[t]
  BY <1>2, <1>3
<1>6. SameOrders(b, c, Slot \ {s}) /\ SameLinks(b, c, Slot)
  BY <1>4, <1>5 DEF SameOrders, SameLinks
<1> QED BY <1>1, <1>4, <1>6 DEF c

(* A level without orders is reset; orders and slots stay as they are.      *)
LEMMA DropShape ==
  ASSUME NEW b \in Book, NEW side \in Side, NEW idx \in Index
  PROVE  /\ SamePool(b, DropIfEmpty(b, side, idx))
         /\ DropIfEmpty(b, side, idx).open = b.open
         /\ DropIfEmpty(b, side, idx).pool = b.pool
         /\ SameLevelsBut(b, DropIfEmpty(b, side, idx), side, idx)
         /\ DropIfEmpty(b, side, idx).level[side][idx] =
              IF b.level[side][idx].count = 0 THEN EmptyLevel ELSE b.level[side][idx]
<1> DEFINE c == DropIfEmpty(b, side, idx)
           r == [b EXCEPT !.level[side][idx] = EmptyLevel, !.bits[side] = @ \ {idx}]
<1>1. CASE b.level[side][idx].count # 0
  BY <1>1 DEF DropIfEmpty, SamePool, SameLevelsBut
<1>2. CASE b.level[side][idx].count = 0
  <2>1. c = RefreshBest(r, side, idx)
    BY <1>2 DEF DropIfEmpty
  <2>2. /\ r.size = b.size /\ r.free = b.free /\ r.open = b.open
        /\ r.pool = b.pool
        /\ r.level = [b.level EXCEPT ![side][idx] = EmptyLevel]
    BY DEF Book
  <2>3. /\ c.size = r.size /\ c.free = r.free /\ c.open = r.open
        /\ c.pool = r.pool /\ c.level = r.level
    <3>1. r \in [pool : {r.pool}, gen : {r.gen}, size : {r.size}, free : {r.free},
                 level : {r.level}, bits : {r.bits}, best : {r.best}, open : {r.open}]
      BY DEF Book
    <3> HIDE DEF c, r
    <3>2. \A x : LET d == [r EXCEPT !.best[side] = x]
                 IN d.size = r.size /\ d.free = r.free /\ d.open = r.open
                    /\ d.pool = r.pool /\ d.level = r.level
      BY <3>1
    <3> QED BY <2>1, <3>2 DEF RefreshBest
  <2>4. b.level \in [Side -> [Index -> PriceLevel]]
    BY DEF Book
  <2> HIDE DEF c, r
  <2> QED BY <1>2, <2>2, <2>3, <2>4 DEF c, SamePool, SameLevelsBut
<1> QED BY <1>1, <1>2
-------------------------------------------------------------------------------
(* Sets of slots are finite, so the orders of a level can be counted.       *)
LEMMA OrdersFinite ==
  ASSUME NEW b, NEW side, NEW i
  PROVE  /\ IsFiniteSet(RestingSlots(b))
         /\ IsFiniteSet(OrdersAt(b, side, i))
<1>1. IsFiniteSet(Slot)
  BY WidthAssumption, FS_Interval DEF Slot
<1>2. RestingSlots(b) \in SUBSET Slot
  BY DEF RestingSlots
<1>3. OrdersAt(b, side, i) \in SUBSET RestingSlots(b)
  BY DEF OrdersAt
<1>4. IsFiniteSet(RestingSlots(b))
  BY <1>1, <1>2, FS_Subset
<1> QED BY <1>3, <1>4, FS_Subset

(* An order that leaves the book leaves its level and no other.             *)
LEMMA OrdersWithout ==
  ASSUME NEW b \in Book, NEW c \in Book, NEW s \in RestingSlots(b),
         SameOrders(b, c, Slot \ {s}), ~ c.pool[s].active
  PROVE  /\ RestingSlots(c) = RestingSlots(b) \ {s}
         /\ \A side \in Side, i \in Index :
              OrdersAt(c, side, i) = OrdersAt(b, side, i) \ {s}
BY DEF RestingSlots, OrdersAt, SameOrders

(* remove_order() takes its order out of its queue.  The reset of a level   *)
(* that counts no orders any more changes nothing: it has no orders left.   *)
LEMMA RemoveShape ==
  ASSUME NEW b \in Book, NEW s \in RestingSlots(b), Linked(b), EndsExact(b)
  PROVE  /\ RemoveOrder(b, s) \in Book
         /\ RemoveOrder(b, s).size = b.size
         /\ RemoveOrder(b, s).free = Append(b.free, s)
         /\ RemoveOrder(b, s).open = b.open - 1
         /\ ~ RemoveOrder(b, s).pool[s].active
         /\ SameOrders(b, RemoveOrder(b, s), Slot \ {s})
         /\ TakenOut(b, RemoveOrder(b, s), s)
         /\ LET lv == b.level[b.pool[s].side][b.pool[s].level]
            IN RemoveOrder(b, s).level[b.pool[s].side][b.pool[s].level].qty =
                 IF lv.count = 1 THEN 0 ELSE QtySub(lv.qty, b.pool[s].remaining)
<1> DEFINE u == Unlink(b, s)
           f == FreeSlot(u, s)
           c == DropIfEmpty(f, b.pool[s].side, b.pool[s].level)
           side == b.pool[s].side
           idx == b.pool[s].level
           lv == b.level[side][idx]
<1>1. s \in Slot /\ side \in Side /\ idx \in Index /\ s \in OrdersAt(b, side, idx)
  BY OrderType DEF RestingSlots, OrdersAt
<1>2. u \in Book /\ f \in Book /\ c \in Book
  BY <1>1, UnlinkType, FreeType, DropType
<1>3. c = RemoveOrder(b, s)
  BY DEF RemoveOrder
<1>4. /\ SamePool(b, u) /\ u.open = b.open - 1
      /\ SameOrders(b, u, Slot) /\ TakenOut(b, u, s)
      /\ u.level[side][idx].qty = QtySub(lv.qty, b.pool[s].remaining)
  BY <1>1, UnlinkShape
<1>5. /\ f.size = u.size /\ f.free = Append(u.free, s) /\ f.open = u.open
      /\ f.level = u.level /\ ~ f.pool[s].active
      /\ SameOrders(u, f, Slot \ {s}) /\ SameLinks(u, f, Slot)
  <2> HIDE DEF u
  <2> QED BY <1>1, <1>2, FreeShape
<1>6. /\ SamePool(f, c) /\ c.open = f.open /\ c.pool = f.pool
      /\ SameLevelsBut(f, c, side, idx)
      /\ c.level[side][idx] =
           IF f.level[side][idx].count = 0 THEN EmptyLevel ELSE f.level[side][idx]
  <2> HIDE DEF f
  <2> QED BY <1>1, <1>2, DropShape
<1> HIDE DEF u, f, c
<1>7. /\ c.size = b.size /\ c.free = Append(b.free, s) /\ c.open = b.open - 1
      /\ ~ c.pool[s].active
  BY <1>4, <1>5, <1>6 DEF SamePool
<1>8. SameOrders(b, c, Slot \ {s}) /\ LinksPast(b, c, s)
  <2>1. SameOrders(b, c, Slot \ {s})
    BY <1>4, <1>5, <1>6 DEF SameOrders
  <2>2. LinksPast(b, u, s) /\ SameLinks(u, c, Slot)
    BY <1>4, <1>5, <1>6 DEF TakenOut, SameLinks
  <2> QED BY <2>1, <2>2 DEF SameLinks, LinksPast
<1>9. SameLevelsBut(b, c, side, idx)
  <2>1. SameLevelsBut(b, u, side, idx)
    BY <1>4 DEF TakenOut
  <2> HIDE DEF side, idx
  <2> QED BY <2>1, <1>5, <1>6 DEF SameLevelsBut
<1>10. LevelPast(b, f.level[side][idx], s)
  BY <1>4, <1>5 DEF TakenOut
<1>11. LevelPast(b, c.level[side][idx], s)
  <2>1. CASE f.level[side][idx].count # 0
    BY <1>6, <1>10, <2>1
  <2>2. CASE f.level[side][idx].count = 0
    <3>1. lv.count = 1
      <4>1. lv.count \in Int
        BY <1>1 DEF Book, PriceLevel
      <4>2. lv.count - 1 = 0
        BY <1>10, <2>2 DEF LevelPast
      <4> QED BY <4>1, <4>2
    <3>2. OrdersAt(b, side, idx) = {s}
      <4>1. Cardinality(OrdersAt(b, side, idx)) = 1
        BY <1>1, <3>1 DEF EndsExact
      <4>2. \E x : OrdersAt(b, side, idx) = {x}
        BY <4>1, OrdersFinite, FS_Singleton
      <4> QED BY <1>1, <4>2
    <3>3. b.pool[s].prev = NoSlot \/ b.pool[s].prev = s
      BY <3>2 DEF Linked
    <3>4. b.pool[s].next = NoSlot
      <4>1. SUFFICES ASSUME b.pool[s].next # NoSlot PROVE FALSE
        OBVIOUS
      <4>2. b.pool[s].next = s /\ b.pool[s].seq > b.pool[s].seq
        BY <3>2, <4>1 DEF Linked
      <4> QED BY <1>1, <4>2, OrderType
    <3>5. b.pool[s].prev = NoSlot
      <4>1. SUFFICES ASSUME b.pool[s].prev = s PROVE FALSE
        BY <3>3
      <4>2. b.pool[s].prev # NoSlot
        BY <1>1, <4>1 DEF Slot, NoSlot
      <4>3. b.pool[s].next = s
        BY <4>1, <4>2 DEF Linked
      <4> QED BY <1>1, <3>4, <4>3 DEF Slot, NoSlot
    <3> QED BY <1>6, <2>2, <3>1, <3>4, <3>5 DEF LevelPast, EmptyLevel
  <2> QED BY <2>1, <2>2
<1>12. c.level[side][idx].qty = IF lv.count = 1 THEN 0 ELSE QtySub(lv.qty, b.pool[s].remaining)
  <2>1. lv.count \in Int /\ f.level[side][idx].count = lv.count - 1
    BY <1>1, <1>10 DEF LevelPast, Book, PriceLevel
  <2>2. f.level[side][idx].qty = QtySub(lv.qty, b.pool[s].remaining)
    BY <1>4, <1>5
  <2>3. lv.count = 1 <=> f.level[side][idx].count = 0
    BY <2>1
  <2>4. EmptyLevel.qty = 0
    BY DEF EmptyLevel
  <2> QED BY <1>6, <2>2, <2>3, <2>4
<1> QED BY <1>2, <1>3, <1>7, <1>8, <1>9, <1>11, <1>12 DEF TakenOut

(* Both neighbours of an order are other orders of its level.               *)
LEMMA Neighbours ==
  ASSUME NEW b \in Book, Linked(b), NEW s \in RestingSlots(b)
  PROVE  /\ b.pool[s].prev # NoSlot =>
              /\ b.pool[s].prev # s
              /\ b.pool[s].prev \in OrdersAt(b, b.pool[s].side, b.pool[s].level)
              /\ b.pool[b.pool[s].prev].next = s
              /\ b.pool[s].seq > b.pool[b.pool[s].prev].seq
         /\ b.pool[s].next # NoSlot =>
              /\ b.pool[s].next # s
              /\ b.pool[s].next \in OrdersAt(b, b.pool[s].side, b.pool[s].level)
              /\ b.pool[b.pool[s].next].prev = s
              /\ b.pool[b.pool[s].next].seq > b.pool[s].seq
<1> DEFINE o == b.pool[s]
<1>1. s \in Slot /\ s # NoSlot /\ o.seq \in Nat
  BY OrderType DEF RestingSlots, Slot, NoSlot
<1>2. ASSUME o.next # NoSlot
      PROVE  /\ o.next # s
             /\ o.next \in OrdersAt(b, o.side, o.level)
             /\ b.pool[o.next].prev = s
             /\ b.pool[o.next].seq > o.seq
  <2>1. /\ o.next \in OrdersAt(b, o.side, o.level)
        /\ b.pool[o.next].prev = s
        /\ b.pool[o.next].seq > o.seq
    BY <1>2 DEF Linked
  <2>2. o.next # s
    BY <1>1, <2>1
  <2> QED BY <2>1, <2>2
<1>3. ASSUME o.prev # NoSlot
      PROVE  /\ o.prev # s
             /\ o.prev \in OrdersAt(b, o.side, o.level)
             /\ b.pool[o.prev].next = s
             /\ o.seq > b.pool[o.prev].seq
  <2>1. o.prev \in OrdersAt(b, o.side, o.level) /\ b.pool[o.prev].next = s
    BY <1>3 DEF Linked
  <2>2. o.prev \in RestingSlots(b)
    BY <2>1 DEF OrdersAt
  <2>3. b.pool[s].seq > b.pool[o.prev].seq
    BY <1>1, <2>1, <2>2 DEF Linked
  <2>4. o.prev # s
    BY <1>1, <2>3
  <2> QED BY <2>1, <2>3, <2>4
<1> QED BY <1>2, <1>3

(* The orders left behind are linked to each other.                         *)
LEMMA TakenOutLinked ==
  ASSUME NEW b \in Book, NEW c \in Book, NEW s \in RestingSlots(b),
         Linked(b), EndsExact(b), SameOrders(b, c, Slot \ {s}), ~ c.pool[s].active,
         TakenOut(b, c, s)
  PROVE  Linked(c)
<1> DEFINE o == b.pool[s]
<1>1. /\ s \in Slot /\ s # NoSlot /\ o.side \in Side /\ o.level \in Index
      /\ o.seq \in Nat
  BY OrderType DEF RestingSlots, Slot, NoSlot
<1>2. /\ RestingSlots(c) = RestingSlots(b) \ {s}
      /\ \A side \in Side, i \in Index :
           OrdersAt(c, side, i) = OrdersAt(b, side, i) \ {s}
  BY OrdersWithout
<1>3. LevelPast(b, c.level[o.side][o.level], s)
  BY DEF TakenOut
<1>4. SameLevelsBut(b, c, o.side, o.level) /\ LinksPast(b, c, s)
  BY DEF TakenOut
<1>5. SUFFICES ASSUME NEW t \in RestingSlots(c)
               PROVE  LET q  == c.pool[t]
                          lw == c.level[q.side][q.level]
                      IN /\ IF q.prev = NoSlot THEN lw.head = t
                            ELSE /\ q.prev \in OrdersAt(c, q.side, q.level)
                                 /\ c.pool[q.prev].next = t
                         /\ IF q.next = NoSlot THEN lw.tail = t
                            ELSE /\ q.next \in OrdersAt(c, q.side, q.level)
                                 /\ c.pool[q.next].prev = t
                                 /\ c.pool[q.next].seq > q.seq
  BY DEF Linked
<1> DEFINE p == b.pool[t]
           q == c.pool[t]
           lv == b.level[p.side][p.level]
           lw == c.level[p.side][p.level]
<1>6. /\ t \in RestingSlots(b) /\ t # s /\ t \in Slot /\ t # NoSlot
      /\ p.side \in Side /\ p.level \in Index /\ p.seq \in Nat
  BY <1>2, OrderType DEF RestingSlots, Slot, NoSlot
<1>7. q.side = p.side /\ q.level = p.level /\ q.seq = p.seq
  BY <1>6 DEF SameOrders
<1>8. /\ q.next = IF t = o.prev THEN o.next ELSE p.next
      /\ q.prev = IF t = o.next THEN o.prev ELSE p.prev
  BY <1>4, <1>6 DEF LinksPast
<1>9. /\ p.prev = NoSlot => lv.head = t
      /\ p.next = NoSlot => lv.tail = t
  BY <1>6 DEF Linked
<1>10. /\ o.prev = NoSlot => b.level[o.side][o.level].head = s
       /\ o.next = NoSlot => b.level[o.side][o.level].tail = s
  BY DEF Linked
<1>11. IF q.prev = NoSlot THEN lw.head = t
       ELSE /\ q.prev \in OrdersAt(c, p.side, p.level)
            /\ c.pool[q.prev].next = t
  <2>1. CASE t = o.next
    <3>1. p.side = o.side /\ p.level = o.level /\ q.prev = o.prev
      BY <1>6, <1>8, <2>1, Neighbours DEF OrdersAt
    <3>2. CASE o.prev = NoSlot
      BY <1>3, <2>1, <3>1, <3>2 DEF LevelPast
    <3>3. CASE o.prev # NoSlot
      <4>1. o.prev # s /\ o.prev \in OrdersAt(b, o.side, o.level)
        BY <3>3, Neighbours
      <4>2. o.prev \in Slot
        BY <4>1 DEF OrdersAt, RestingSlots
      <4>3. c.pool[o.prev].next = o.next
        BY <1>4, <4>1, <4>2 DEF LinksPast
      <4>4. o.prev \in OrdersAt(c, o.side, o.level)
        BY <1>1, <1>2, <4>1
      <4> QED BY <2>1, <3>1, <3>3, <4>3, <4>4
    <3> QED BY <3>2, <3>3
  <2>2. CASE t # o.next
    <3>1. q.prev = p.prev
      BY <1>8, <2>2
    <3>2. CASE p.prev = NoSlot
      <4>1. CASE p.side = o.side /\ p.level = o.level
        BY <1>3, <1>6, <1>9, <1>10, <3>1, <3>2, <4>1 DEF LevelPast
      <4>2. CASE p.side # o.side \/ p.level # o.level
        BY <1>4, <1>6, <1>9, <3>1, <3>2, <4>2 DEF SameLevelsBut
      <4> QED BY <4>1, <4>2
    <3>3. CASE p.prev # NoSlot
      <4>1. p.prev \in OrdersAt(b, p.side, p.level) /\ b.pool[p.prev].next = t
        BY <1>6, <3>3, Neighbours
      <4>2. p.prev # s
        BY <2>2, <4>1
      <4>3. p.prev # o.prev
        <5>1. SUFFICES ASSUME p.prev = o.prev PROVE FALSE
          OBVIOUS
        <5>2. b.pool[o.prev].next = s
          BY <3>3, <5>1, Neighbours
        <5> QED BY <1>6, <4>1, <5>1, <5>2
      <4>4. p.prev \in Slot
        BY <4>1 DEF OrdersAt, RestingSlots
      <4>5. c.pool[p.prev].next = t
        BY <1>4, <4>1, <4>2, <4>3, <4>4 DEF LinksPast
      <4>6. p.prev \in OrdersAt(c, p.side, p.level)
        BY <1>2, <1>6, <4>1, <4>2
      <4> QED BY <3>1, <3>3, <4>5, <4>6
    <3> QED BY <3>2, <3>3
  <2> QED BY <2>1, <2>2
<1>12. IF q.next = NoSlot THEN lw.tail = t
       ELSE /\ q.next \in OrdersAt(c, p.side, p.level)
            /\ c.pool[q.next].prev = t
            /\ c.pool[q.next].seq > p.seq
  <2>1. CASE t = o.prev
    <3>1. /\ p.side = o.side /\ p.level = o.level /\ q.next = o.next
          /\ o.seq > p.seq
      BY <1>6, <1>8, <2>1, Neighbours DEF OrdersAt
    <3>2. CASE o.next = NoSlot
      BY <1>3, <2>1, <3>1, <3>2 DEF LevelPast
    <3>3. CASE o.next # NoSlot
      <4>1. /\ o.next # s /\ o.next \in OrdersAt(b, o.side, o.level)
            /\ b.pool[o.next].seq > o.seq
        BY <3>3, Neighbours
      <4>2. o.next \in Slot /\ b.pool[o.next].seq \in Nat
        BY <4>1, OrderType DEF OrdersAt, RestingSlots
      <4>3. c.pool[o.next].prev = o.prev
        BY <1>4, <4>1, <4>2 DEF LinksPast
      <4>4. o.next \in OrdersAt(c, o.side, o.level)
        BY <1>1, <1>2, <4>1
      <4>5. c.pool[o.next].seq = b.pool[o.next].seq
        BY <4>1, <4>2 DEF SameOrders
      <4>6. c.pool[o.next].seq > p.seq
        BY <1>1, <1>6, <3>1, <4>1, <4>2, <4>5
      <4> QED BY <2>1, <3>1, <3>3, <4>3, <4>4, <4>6
    <3> QED BY <3>2, <3>3
  <2>2. CASE t # o.prev
    <3>1. q.next = p.next
      BY <1>8, <2>2
    <3>2. CASE p.next = NoSlot
      <4>1. CASE p.side = o.side /\ p.level = o.level
        BY <1>3, <1>6, <1>9, <1>10, <3>1, <3>2, <4>1 DEF LevelPast
      <4>2. CASE p.side # o.side \/ p.level # o.level
        BY <1>4, <1>6, <1>9, <3>1, <3>2, <4>2 DEF SameLevelsBut
      <4> QED BY <4>1, <4>2
    <3>3. CASE p.next # NoSlot
      <4>1. /\ p.next \in OrdersAt(b, p.side, p.level) /\ b.pool[p.next].prev = t
            /\ b.pool[p.next].seq > p.seq
        BY <1>6, <3>3, Neighbours
      <4>2. p.next # s
        BY <2>2, <4>1
      <4>3. p.next # o.next
        <5>1. SUFFICES ASSUME p.next = o.next PROVE FALSE
          OBVIOUS
        <5>2. b.pool[o.next].prev = s
          BY <3>3, <5>1, Neighbours
        <5> QED BY <1>6, <4>1, <5>1, <5>2
      <4>4. p.next \in Slot
        BY <4>1 DEF OrdersAt, RestingSlots
      <4>5. c.pool[p.next].prev = t
        BY <1>4, <4>1, <4>2, <4>3, <4>4 DEF LinksPast
      <4>6. p.next \in OrdersAt(c, p.side, p.level)
        BY <1>2, <1>6, <4>1, <4>2
      <4>7. c.pool[p.next].seq = b.pool[p.next].seq
        BY <4>2, <4>4 DEF SameOrders
      <4> QED BY <3>1, <3>3, <4>1, <4>5, <4>6, <4>7
    <3> QED BY <3>2, <3>3
  <2> QED BY <2>1, <2>2
<1> QED BY <1>7, <1>11, <1>12

(* The level has lost one order, at its head, its tail or in between; the   *)
(* other levels have lost none.                                             *)
LEMMA TakenOutEnds ==
  ASSUME NEW b \in Book, NEW c \in Book, NEW s \in RestingSlots(b),
         Linked(b), EndsExact(b), SameOrders(b, c, Slot \ {s}), ~ c.pool[s].active,
         TakenOut(b, c, s)
  PROVE  EndsExact(c)
<1> DEFINE o == b.pool[s]
<1>1. s \in Slot /\ s # NoSlot /\ o.side \in Side /\ o.level \in Index
  BY OrderType DEF RestingSlots, Slot, NoSlot
<1>2. \A side \in Side, i \in Index :
        OrdersAt(c, side, i) = OrdersAt(b, side, i) \ {s}
  BY OrdersWithout
<1>3. LevelPast(b, c.level[o.side][o.level], s)
  BY DEF TakenOut
<1>4. SameLevelsBut(b, c, o.side, o.level) /\ LinksPast(b, c, s)
  BY DEF TakenOut
<1>5. SUFFICES ASSUME NEW side \in Side, NEW i \in Index
               PROVE  LET lw == c.level[side][i]
                      IN /\ lw.head # NoSlot => /\ lw.head \in OrdersAt(c, side, i)
                                                /\ c.pool[lw.head].prev = NoSlot
                         /\ lw.tail # NoSlot => /\ lw.tail \in OrdersAt(c, side, i)
                                                /\ c.pool[lw.tail].next = NoSlot
                         /\ lw.head = NoSlot <=> lw.tail = NoSlot
                         /\ lw.count = Cardinality(OrdersAt(c, side, i))
  BY DEF EndsExact
<1> DEFINE lv == b.level[side][i]
           lw == c.level[side][i]
<1>6. /\ lv.head # NoSlot => /\ lv.head \in OrdersAt(b, side, i)
                             /\ b.pool[lv.head].prev = NoSlot
      /\ lv.tail # NoSlot => /\ lv.tail \in OrdersAt(b, side, i)
                             /\ b.pool[lv.tail].next = NoSlot
      /\ lv.head = NoSlot <=> lv.tail = NoSlot
      /\ lv.count = Cardinality(OrdersAt(b, side, i))
  BY DEF EndsExact
<1>7. OrdersAt(c, side, i) = OrdersAt(b, side, i) \ {s}
  BY <1>2
<1>8. ASSUME NEW t \in OrdersAt(b, side, i)
      PROVE  /\ t \in Slot /\ t # NoSlot /\ t \in RestingSlots(b)
             /\ b.pool[t].side = side /\ b.pool[t].level = i
  BY DEF OrdersAt, RestingSlots, Slot, NoSlot
<1>9. CASE side = o.side /\ i = o.level
  <2>1. /\ lw.head = IF o.prev = NoSlot THEN o.next ELSE lv.head
        /\ lw.tail = IF o.next = NoSlot THEN o.prev ELSE lv.tail
        /\ lw.count = lv.count - 1
    BY <1>3, <1>9 DEF LevelPast
  <2>2. s \in OrdersAt(b, side, i)
    BY <1>9 DEF OrdersAt
  <2>3. lw.count = Cardinality(OrdersAt(c, side, i))
    <3>1. Cardinality(OrdersAt(b, side, i) \ {s}) = Cardinality(OrdersAt(b, side, i)) - 1
      BY <2>2, OrdersFinite, FS_RemoveElement
    <3> QED BY <1>6, <1>7, <2>1, <3>1
  <2>4. /\ o.prev = NoSlot => lv.head = s
        /\ o.next = NoSlot => lv.tail = s
    BY <1>9 DEF Linked
  <2>5. lw.head = NoSlot <=> lw.tail = NoSlot
    BY <1>1, <1>6, <2>1, <2>4
  <2>6. ASSUME lw.head # NoSlot
        PROVE  lw.head \in OrdersAt(c, side, i) /\ c.pool[lw.head].prev = NoSlot
    <3>1. CASE o.prev = NoSlot
      <4>1. lw.head = o.next /\ o.next # NoSlot
        BY <2>1, <2>6, <3>1
      <4>2. o.next \in OrdersAt(b, side, i) /\ o.next # s
        BY <1>9, <4>1, Neighbours
      <4>3. c.pool[o.next].prev = o.prev
        BY <1>4, <1>8, <4>2 DEF LinksPast
      <4> QED BY <1>7, <3>1, <4>1, <4>2, <4>3
    <3>2. CASE o.prev # NoSlot
      <4>1. lw.head = lv.head
        BY <2>1, <3>2
      <4>2. lv.head \in OrdersAt(b, side, i) /\ b.pool[lv.head].prev = NoSlot
        BY <1>6, <2>6, <4>1
      <4>3. lv.head # s
        BY <3>2, <4>2
      <4>4. lv.head # o.next
        <5>1. SUFFICES ASSUME lv.head = o.next PROVE FALSE
          OBVIOUS
        <5>2. b.pool[o.next].prev = s
          BY <1>8, <4>2, <5>1, Neighbours
        <5> QED BY <1>1, <4>2, <5>1, <5>2
      <4>5. c.pool[lv.head].prev = NoSlot
        BY <1>4, <1>8, <4>2, <4>3, <4>4 DEF LinksPast
      <4> QED BY <1>7, <4>1, <4>2, <4>3, <4>5
    <3> QED BY <3>1, <3>2
  <2>7. ASSUME lw.tail # NoSlot
        PROVE  lw.tail \in OrdersAt(c, side, i) /\ c.pool[lw.tail].next = NoSlot
    <3>1. CASE o.next = NoSlot
      <4>1. lw.tail = o.prev /\ o.prev # NoSlot
        BY <2>1, <2>7, <3>1
      <4>2. o.prev \in OrdersAt(b, side, i) /\ o.prev # s
        BY <1>9, <4>1, Neighbours
      <4>3. c.pool[o.prev].next = o.next
        BY <1>4, <1>8, <4>2 DEF LinksPast
      <4> QED BY <1>7, <3>1, <4>1, <4>2, <4>3
    <3>2. CASE o.next # NoSlot
      <4>1. lw.tail = lv.tail
        BY <2>1, <3>2
      <4>2. lv.tail \in OrdersAt(b, side, i) /\ b.pool[lv.tail].next = NoSlot
        BY <1>6, <2>7, <4>1
      <4>3. lv.tail # s
        BY <3>2, <4>2
      <4>4. lv.tail # o.prev
        <5>1. SUFFICES ASSUME lv.tail = o.prev PROVE FALSE
          OBVIOUS
        <5>2. b.pool[o.prev].next = s
          BY <1>8, <4>2, <5>1, Neighbours
        <5> QED BY <1>1, <4>2, <5>1, <5>2
      <4>5. c.pool[lv.tail].next = NoSlot
        BY <1>4, <1>8, <4>2, <4>3, <4>4 DEF LinksPast
      <4> QED BY <1>7, <4>1, <4>2, <4>3, <4>5
    <3> QED BY <3>1, <3>2
  <2> QED BY <2>3, <2>5, <2>6, <2>7
<1>10. CASE side # o.side \/ i # o.level
  <2>1. lw = lv
    BY <1>4, <1>10 DEF SameLevelsBut
  <2>2. s \notin OrdersAt(b, side, i)
    BY <1>8, <1>10
  <2>3. OrdersAt(c, side, i) = OrdersAt(b, side, i)
    BY <1>7, <2>2
  <2>4. ASSUME NEW t \in OrdersAt(b, side, i)
        PROVE  /\ c.pool[t].next = b.pool[t].next
               /\ c.pool[t].prev = b.pool[t].prev
    <3>1. /\ o.prev # NoSlot => o.prev \in OrdersAt(b, o.side, o.level)
          /\ o.next # NoSlot => o.next \in OrdersAt(b, o.side, o.level)
      BY Neighbours
    <3>2. t # o.prev /\ t # o.next
      BY <1>8, <1>10, <3>1 DEF OrdersAt
    <3>3. t \in Slot \ {s}
      BY <1>8, <2>2
    <3> QED BY <1>4, <3>2, <3>3 DEF LinksPast
  <2> HIDE DEF lv, lw
  <2> QED BY <1>6, <2>1, <2>3, <2>4 DEF lw
<1> HIDE DEF lw
<1> QED BY <1>9, <1>10 DEF lw
-------------------------------------------------------------------------------
(* rest_order(): book c is b with slot s at the tail of a level.            *)
Appended(b, c, s, o) ==
  LET idx == ToIndex(o.price)
      lv  == b.level[o.side][idx]
      lw  == c.level[o.side][idx]
      new == c.pool[s]
  IN /\ new.active /\ new.side = o.side /\ new.level = idx /\ new.seq = o.seq
     /\ new.prev = lv.tail /\ new.next = NoSlot
     /\ \A t \in Slot \ {s} :
          /\ c.pool[t].prev = b.pool[t].prev
          /\ c.pool[t].next = IF t = lv.tail THEN s ELSE b.pool[t].next
     /\ lw.head = IF lv.tail = NoSlot THEN s ELSE lv.head
     /\ lw.tail = s
     /\ lw.count = lv.count + 1
     /\ lw.qty = QtyAdd(lv.qty, o.remaining)

LEMMA RestShape ==
  ASSUME NEW b \in Book, NEW s \in Slot, NEW o \in Order,
         o.price >= MinPrice, o.price <= MaxPrice
  PROVE  /\ SamePool(b, RestOrder(b, s, o))
         /\ RestOrder(b, s, o).open = b.open + 1
         /\ SameOrders(b, RestOrder(b, s, o), Slot \ {s})
         /\ SameLevelsBut(b, RestOrder(b, s, o), o.side, ToIndex(o.price))
         /\ Appended(b, RestOrder(b, s, o), s, o)
<1> DEFINE c == RestOrder(b, s, o)
           idx == ToIndex(o.price)
           lv == b.level[o.side][idx]
           linked == [o EXCEPT !.level = idx, !.prev = lv.tail, !.next = NoSlot,
                               !.active = TRUE]
           lnew == [head |-> IF lv.tail = NoSlot THEN s ELSE lv.head, tail |-> s,
                    qty |-> QtyAdd(lv.qty, o.remaining), count |-> lv.count + 1]
<1>1. o.side \in Side /\ o.price \in Int
  BY DEF Order
<1>2. idx \in Index
  BY <1>1, ToIndexType
<1>3. SamePool(b, c) /\ c.open = b.open + 1
  BY DEF RestOrder, Book, SamePool
<1>4. c.level = [b.level EXCEPT ![o.side][idx] = lnew]
  BY DEF RestOrder, Book
<1>5. \A t \in Slot : c.pool[t] = IF t = s THEN linked
                                ELSE IF t = lv.tail THEN [b.pool[t] EXCEPT !.next = s]
                                ELSE b.pool[t]
  BY DEF RestOrder, Book
<1>6. b.level \in [Side -> [Index -> PriceLevel]]
  BY DEF Book
<1> HIDE DEF c
<1>7. ASSUME NEW t \in Slot \ {s}
      PROVE  /\ c.pool[t].active = b.pool[t].active
             /\ c.pool[t].side = b.pool[t].side
             /\ c.pool[t].level = b.pool[t].level
             /\ c.pool[t].seq = b.pool[t].seq
             /\ c.pool[t].prev = b.pool[t].prev
             /\ c.pool[t].next = IF t = lv.tail THEN s ELSE b.pool[t].next
  <2>1. b.pool[t] \in Order
    BY OrderType
  <2>2. c.pool[t] = IF t = lv.tail THEN [b.pool[t] EXCEPT !.next = s] ELSE b.pool[t]
    BY <1>5
  <2> HIDE DEF lv
  <2>3. CASE t = lv.tail
    BY <2>1, <2>2, <2>3 DEF Order
  <2>4. CASE t # lv.tail
    BY <2>2, <2>4
  <2> QED BY <2>3, <2>4
<1>8. SameOrders(b, c, Slot \ {s})
  BY <1>7 DEF SameOrders
<1>9. c.level[o.side][idx] = lnew /\ SameLevelsBut(b, c, o.side, idx)
  <2> HIDE DEF lnew, idx
  <2> QED BY <1>1, <1>2, <1>4, <1>6 DEF SameLevelsBut
<1>10. LET new == c.pool[s]
       IN /\ new.active /\ new.side = o.side /\ new.level = idx /\ new.seq = o.seq
          /\ new.prev = lv.tail /\ new.next = NoSlot
  <2>1. c.pool[s] = linked
    BY <1>5
  <2> HIDE DEF lv, idx
  <2> QED BY <2>1 DEF Order
<1>11. LET lw == c.level[o.side][idx]
       IN /\ lw.head = IF lv.tail = NoSlot THEN s ELSE lv.head
          /\ lw.tail = s
          /\ lw.count = lv.count + 1
          /\ lw.qty = QtyAdd(lv.qty, o.remaining)
  <2> HIDE DEF lv, idx
  <2> QED BY <1>9
<1>12. Appended(b, c, s, o)
  BY <1>7, <1>10, <1>11 DEF Appended
<1> QED BY <1>3, <1>8, <1>9, <1>12 DEF c

(* The order that comes to rest is at its level, the others where they were.*)
LEMMA OrdersWith ==
  ASSUME NEW b \in Book, NEW c \in Book, NEW s \in Slot, NEW o \in Order,
         s \notin RestingSlots(b), SameOrders(b, c, Slot \ {s}), Appended(b, c, s, o)
  PROVE  /\ RestingSlots(c) = RestingSlots(b) \cup {s}
         /\ OrdersAt(c, o.side, ToIndex(o.price)) =
              OrdersAt(b, o.side, ToIndex(o.price)) \cup {s}
         /\ \A side \in Side, i \in Index :
              side # o.side \/ i # ToIndex(o.price)
                => OrdersAt(c, side, i) = OrdersAt(b, side, i)
<1>1. c.pool[s].active /\ c.pool[s].side = o.side /\ c.pool[s].level = ToIndex(o.price)
  BY DEF Appended
<1>2. RestingSlots(c) = RestingSlots(b) \cup {s}
  BY <1>1 DEF RestingSlots, SameOrders
<1>3. \A t \in RestingSlots(b) : /\ c.pool[t].side = b.pool[t].side
                                 /\ c.pool[t].level = b.pool[t].level
  BY DEF RestingSlots, SameOrders
<1> QED BY <1>1, <1>2, <1>3 DEF OrdersAt

(* The queue it joins stays linked, in arrival order.                       *)
LEMMA AppendedLinked ==
  ASSUME NEW b \in Book, NEW c \in Book, NEW s \in Slot, NEW o \in Order,
         ToIndex(o.price) \in Index, s \notin RestingSlots(b),
         Linked(b), EndsExact(b), \A t \in RestingSlots(b) : b.pool[t].seq < o.seq,
         SameOrders(b, c, Slot \ {s}), Appended(b, c, s, o),
         SameLevelsBut(b, c, o.side, ToIndex(o.price))
  PROVE  Linked(c)
<1> DEFINE idx == ToIndex(o.price)
           own == b.level[o.side][idx]
<1>1. s # NoSlot /\ o.side \in Side /\ idx \in Index
  BY DEF Order, Slot, NoSlot
<1>2. /\ RestingSlots(c) = RestingSlots(b) \cup {s}
      /\ OrdersAt(c, o.side, idx) = OrdersAt(b, o.side, idx) \cup {s}
      /\ \A side \in Side, i \in Index :
           side # o.side \/ i # idx => OrdersAt(c, side, i) = OrdersAt(b, side, i)
  BY OrdersWith
<1>3. LET lw == c.level[o.side][idx]
          new == c.pool[s]
      IN /\ new.side = o.side /\ new.level = idx /\ new.seq = o.seq
         /\ new.prev = own.tail /\ new.next = NoSlot
         /\ lw.head = IF own.tail = NoSlot THEN s ELSE own.head
         /\ lw.tail = s
  BY DEF Appended
<1>4. \A t \in Slot \ {s} :
        /\ c.pool[t].prev = b.pool[t].prev
        /\ c.pool[t].next = IF t = own.tail THEN s ELSE b.pool[t].next
  BY DEF Appended
<1>5. /\ own.tail # NoSlot => /\ own.tail \in OrdersAt(b, o.side, idx)
                              /\ b.pool[own.tail].next = NoSlot
      /\ own.head = NoSlot <=> own.tail = NoSlot
  BY <1>1 DEF EndsExact
<1>6. ASSUME NEW t \in RestingSlots(b)
      PROVE  /\ t \in Slot \ {s} /\ t # NoSlot
             /\ b.pool[t].side \in Side /\ b.pool[t].level \in Index
             /\ c.pool[t].side = b.pool[t].side /\ c.pool[t].level = b.pool[t].level
             /\ c.pool[t].seq = b.pool[t].seq
  BY OrderType DEF RestingSlots, Slot, NoSlot, SameOrders
<1>7. SUFFICES ASSUME NEW t \in RestingSlots(c)
               PROVE  LET q  == c.pool[t]
                          lw == c.level[q.side][q.level]
                      IN /\ IF q.prev = NoSlot THEN lw.head = t
                            ELSE /\ q.prev \in OrdersAt(c, q.side, q.level)
                                 /\ c.pool[q.prev].next = t
                         /\ IF q.next = NoSlot THEN lw.tail = t
                            ELSE /\ q.next \in OrdersAt(c, q.side, q.level)
                                 /\ c.pool[q.next].prev = t
                                 /\ c.pool[q.next].seq > q.seq
  BY DEF Linked
<1>8. CASE t = s
  <2>1. CASE own.tail = NoSlot
    BY <1>3, <1>8, <2>1
  <2>2. CASE own.tail # NoSlot
    <3>1. own.tail \in OrdersAt(b, o.side, idx) /\ own.tail \in Slot \ {s}
      BY <1>5, <1>6, <2>2 DEF OrdersAt
    <3>2. c.pool[own.tail].next = s
      BY <1>4, <3>1
    <3> QED BY <1>2, <1>3, <1>8, <2>2, <3>1, <3>2
  <2> QED BY <2>1, <2>2
<1>9. CASE t \in RestingSlots(b)
  <2> DEFINE p  == b.pool[t]
             q  == c.pool[t]
             lv == b.level[p.side][p.level]
             lw == c.level[p.side][p.level]
  <2>1. /\ t \in Slot \ {s} /\ t # NoSlot /\ p.side \in Side /\ p.level \in Index
        /\ q.side = p.side /\ q.level = p.level /\ q.seq = p.seq
    BY <1>6, <1>9
  <2>2. q.prev = p.prev /\ q.next = IF t = own.tail THEN s ELSE p.next
    BY <1>4, <2>1
  <2>3. /\ p.prev = NoSlot => lv.head = t
        /\ p.next = NoSlot => lv.tail = t
    BY <1>9 DEF Linked
  <2>4. \A r : r \in OrdersAt(b, p.side, p.level) => r \in OrdersAt(c, p.side, p.level)
    BY <1>2, <2>1
  <2>5. p.side # o.side \/ p.level # idx => lw = lv
    BY <2>1 DEF SameLevelsBut
  <2>6. IF q.prev = NoSlot THEN lw.head = t
        ELSE /\ q.prev \in OrdersAt(c, p.side, p.level)
             /\ c.pool[q.prev].next = t
    <3>1. CASE p.prev = NoSlot
      <4>1. CASE p.side = o.side /\ p.level = idx
        BY <1>3, <1>5, <2>1, <2>2, <2>3, <3>1, <4>1
      <4>2. CASE p.side # o.side \/ p.level # idx
        BY <2>2, <2>3, <2>5, <3>1, <4>2
      <4> QED BY <4>1, <4>2
    <3>2. CASE p.prev # NoSlot
      <4>1. p.prev \in OrdersAt(b, p.side, p.level) /\ b.pool[p.prev].next = t
        BY <1>9, <3>2, Neighbours
      <4>2. p.prev # own.tail
        BY <1>5, <2>1, <3>2, <4>1
      <4>3. p.prev \in Slot \ {s}
        BY <1>6, <4>1 DEF OrdersAt
      <4>4. c.pool[p.prev].next = t
        BY <1>4, <4>1, <4>2, <4>3
      <4> QED BY <2>2, <2>4, <3>2, <4>1, <4>4
    <3> QED BY <3>1, <3>2
  <2>7. IF q.next = NoSlot THEN lw.tail = t
        ELSE /\ q.next \in OrdersAt(c, p.side, p.level)
             /\ c.pool[q.next].prev = t
             /\ c.pool[q.next].seq > p.seq
    <3>1. CASE t = own.tail
      <4>1. p.side = o.side /\ p.level = idx
        BY <1>5, <2>1, <3>1 DEF OrdersAt
      <4>2. p.seq < o.seq /\ p.seq \in Nat /\ o.seq \in Nat
        BY <1>9, <2>1, OrderType DEF Order
      <4> QED BY <1>1, <1>2, <1>3, <2>2, <3>1, <4>1, <4>2
    <3>2. CASE t # own.tail /\ p.next = NoSlot
      <4>1. p.side # o.side \/ p.level # idx
        BY <2>3, <3>2
      <4> QED BY <2>2, <2>3, <2>5, <3>2, <4>1
    <3>3. CASE t # own.tail /\ p.next # NoSlot
      <4>1. /\ p.next \in OrdersAt(b, p.side, p.level) /\ b.pool[p.next].prev = t
            /\ b.pool[p.next].seq > p.seq
        BY <1>9, <3>3, Neighbours
      <4>2. p.next \in Slot \ {s} /\ c.pool[p.next].seq = b.pool[p.next].seq
        BY <1>6, <4>1 DEF OrdersAt
      <4>3. c.pool[p.next].prev = t
        BY <1>4, <4>1, <4>2
      <4> QED BY <2>2, <2>4, <3>3, <4>1, <4>2, <4>3
    <3> QED BY <3>1, <3>2, <3>3
  <2> QED BY <2>1, <2>6, <2>7
<1> QED BY <1>2, <1>8, <1>9

LEMMA AppendedEnds ==
  ASSUME NEW b \in Book, NEW c \in Book, NEW s \in Slot, NEW o \in Order,
         ToIndex(o.price) \in Index, s \notin RestingSlots(b),
         Linked(b), EndsExact(b),
         SameOrders(b, c, Slot \ {s}), Appended(b, c, s, o),
         SameLevelsBut(b, c, o.side, ToIndex(o.price))
  PROVE  EndsExact(c)
<1> DEFINE idx == ToIndex(o.price)
           own == b.level[o.side][idx]
<1>1. s # NoSlot /\ o.side \in Side /\ idx \in Index
  BY DEF Order, Slot, NoSlot
<1>2. /\ OrdersAt(c, o.side, idx) = OrdersAt(b, o.side, idx) \cup {s}
      /\ \A side \in Side, i \in Index :
           side # o.side \/ i # idx => OrdersAt(c, side, i) = OrdersAt(b, side, i)
  BY OrdersWith
<1>3. LET lw == c.level[o.side][idx]
          new == c.pool[s]
      IN /\ new.prev = own.tail /\ new.next = NoSlot
         /\ lw.head = IF own.tail = NoSlot THEN s ELSE own.head
         /\ lw.tail = s
         /\ lw.count = own.count + 1
  BY DEF Appended
<1>4. \A t \in Slot \ {s} :
        /\ c.pool[t].prev = b.pool[t].prev
        /\ c.pool[t].next = IF t = own.tail THEN s ELSE b.pool[t].next
  BY DEF Appended
<1>5. SUFFICES ASSUME NEW side \in Side, NEW i \in Index
               PROVE  LET lw == c.level[side][i]
                      IN /\ lw.head # NoSlot => /\ lw.head \in OrdersAt(c, side, i)
                                                /\ c.pool[lw.head].prev = NoSlot
                         /\ lw.tail # NoSlot => /\ lw.tail \in OrdersAt(c, side, i)
                                                /\ c.pool[lw.tail].next = NoSlot
                         /\ lw.head = NoSlot <=> lw.tail = NoSlot
                         /\ lw.count = Cardinality(OrdersAt(c, side, i))
  BY DEF EndsExact
<1> DEFINE lv == b.level[side][i]
           lw == c.level[side][i]
<1>6. /\ lv.head # NoSlot => /\ lv.head \in OrdersAt(b, side, i)
                             /\ b.pool[lv.head].prev = NoSlot
      /\ lv.tail # NoSlot => /\ lv.tail \in OrdersAt(b, side, i)
                             /\ b.pool[lv.tail].next = NoSlot
      /\ lv.head = NoSlot <=> lv.tail = NoSlot
      /\ lv.count = Cardinality(OrdersAt(b, side, i))
  BY DEF EndsExact
<1>7. own.tail # NoSlot => own.tail \in OrdersAt(b, o.side, idx)
  BY <1>1 DEF EndsExact
<1>8. ASSUME NEW t \in OrdersAt(b, side, i)
      PROVE  /\ t \in Slot \ {s} /\ t # NoSlot
             /\ b.pool[t].side = side /\ b.pool[t].level = i
  BY DEF OrdersAt, RestingSlots, Slot, NoSlot
<1>9. CASE side = o.side /\ i = idx
  <2>1. lv = own
    BY <1>9
  <2>2. s \notin OrdersAt(b, side, i)
    BY <1>8
  <2>3. lw.count = Cardinality(OrdersAt(c, side, i))
    <3>1. Cardinality(OrdersAt(b, side, i) \cup {s})
            = Cardinality(OrdersAt(b, side, i)) + 1
      BY <2>2, OrdersFinite, FS_AddElement
    <3> QED BY <1>2, <1>3, <1>6, <1>9, <2>1, <3>1
  <2>4. lw.tail = s /\ s \in OrdersAt(c, side, i) /\ c.pool[s].next = NoSlot
    BY <1>2, <1>3, <1>9
  <2>5. lw.head \in OrdersAt(c, side, i) /\ c.pool[lw.head].prev = NoSlot
    <3>1. CASE own.tail = NoSlot
      BY <1>2, <1>3, <1>9, <3>1
    <3>2. CASE own.tail # NoSlot
      <4>1. lw.head = lv.head /\ lv.head # NoSlot
        BY <1>3, <1>6, <1>9, <2>1, <3>2
      <4>2. lv.head \in OrdersAt(b, side, i) /\ b.pool[lv.head].prev = NoSlot
        BY <1>6, <4>1
      <4>3. c.pool[lv.head].prev = NoSlot
        BY <1>4, <1>8, <4>2
      <4> QED BY <1>2, <1>9, <4>1, <4>2, <4>3
    <3> QED BY <3>1, <3>2
  <2>6. lw.head # NoSlot
    BY <1>1, <1>2, <1>8, <1>9, <2>5
  <2> QED BY <1>1, <2>3, <2>4, <2>5, <2>6
<1>10. CASE side # o.side \/ i # idx
  <2>1. lw = lv /\ OrdersAt(c, side, i) = OrdersAt(b, side, i)
    BY <1>2, <1>10 DEF SameLevelsBut
  <2>2. ASSUME NEW t \in OrdersAt(b, side, i)
        PROVE  /\ c.pool[t].next = b.pool[t].next
               /\ c.pool[t].prev = b.pool[t].prev
    <3>1. t # own.tail
      BY <1>7, <1>8, <1>10 DEF OrdersAt
    <3> QED BY <1>4, <1>8, <3>1
  <2> HIDE DEF lv, lw
  <2> QED BY <1>6, <2>1, <2>2 DEF lw
<1> HIDE DEF lw
<1> QED BY <1>9, <1>10 DEF lw
-------------------------------------------------------------------------------
(* A book that differs in quantities, identities and free slots only has    *)
(* the queues it had.                                                       *)
SameQueues(b, c) ==
  /\ RestingSlots(c) = RestingSlots(b)
  /\ SameOrders(b, c, RestingSlots(b))
  /\ SameLinks(b, c, RestingSlots(b))
  /\ \A side \in Side, i \in Index :
       /\ c.level[side][i].head = b.level[side][i].head
       /\ c.level[side][i].tail = b.level[side][i].tail
       /\ c.level[side][i].count = b.level[side][i].count

LEMMA QueuesKept ==
  ASSUME NEW b \in Book, NEW c \in Book, SameQueues(b, c), Linked(b), EndsExact(b)
  PROVE  Linked(c) /\ EndsExact(c)
<1>1. ASSUME NEW side, NEW i PROVE OrdersAt(c, side, i) = OrdersAt(b, side, i)
  BY DEF SameQueues, SameOrders, OrdersAt
<1>2. ASSUME NEW side, NEW i, NEW t \in OrdersAt(b, side, i)
      PROVE  t \in RestingSlots(b)
  BY DEF OrdersAt
<1>3. \A t \in RestingSlots(b) :
        /\ c.pool[t].side = b.pool[t].side /\ c.pool[t].level = b.pool[t].level
        /\ c.pool[t].seq = b.pool[t].seq
        /\ c.pool[t].next = b.pool[t].next /\ c.pool[t].prev = b.pool[t].prev
        /\ b.pool[t].side \in Side /\ b.pool[t].level \in Index
  BY OrderType DEF SameQueues, SameOrders, SameLinks, RestingSlots
<1>4. \A side \in Side, i \in Index :
        /\ c.level[side][i].head = b.level[side][i].head
        /\ c.level[side][i].tail = b.level[side][i].tail
        /\ c.level[side][i].count = b.level[side][i].count
  BY DEF SameQueues
<1>5. RestingSlots(c) = RestingSlots(b)
  BY DEF SameQueues
<1>6. EndsExact(c)
  <2>1. SUFFICES ASSUME NEW side \in Side, NEW i \in Index
                 PROVE  LET lw == c.level[side][i]
                        IN /\ lw.head # NoSlot => /\ lw.head \in OrdersAt(c, side, i)
                                                  /\ c.pool[lw.head].prev = NoSlot
                           /\ lw.tail # NoSlot => /\ lw.tail \in OrdersAt(c, side, i)
                                                  /\ c.pool[lw.tail].next = NoSlot
                           /\ lw.head = NoSlot <=> lw.tail = NoSlot
                           /\ lw.count = Cardinality(OrdersAt(c, side, i))
    BY DEF EndsExact
  <2> DEFINE lv == b.level[side][i]
  <2>2. /\ lv.head # NoSlot => /\ lv.head \in OrdersAt(b, side, i)
                               /\ b.pool[lv.head].prev = NoSlot
        /\ lv.tail # NoSlot => /\ lv.tail \in OrdersAt(b, side, i)
                               /\ b.pool[lv.tail].next = NoSlot
        /\ lv.head = NoSlot <=> lv.tail = NoSlot
        /\ lv.count = Cardinality(OrdersAt(b, side, i))
    BY DEF EndsExact
  <2>3. OrdersAt(c, side, i) = OrdersAt(b, side, i)
    BY <1>1
  <2>4. \A t \in OrdersAt(b, side, i) : /\ c.pool[t].next = b.pool[t].next
                                       /\ c.pool[t].prev = b.pool[t].prev
    BY <1>2, <1>3
  <2>5. LET lw == c.level[side][i]
        IN lw.head = lv.head /\ lw.tail = lv.tail /\ lw.count = lv.count
    BY <1>4
  <2> HIDE DEF lv
  <2> QED BY <2>2, <2>3, <2>4, <2>5
<1>7. Linked(c)
  <2>1. SUFFICES ASSUME NEW t \in RestingSlots(b)
                 PROVE  LET q  == c.pool[t]
                            lw == c.level[q.side][q.level]
                        IN /\ IF q.prev = NoSlot THEN lw.head = t
                              ELSE /\ q.prev \in OrdersAt(c, q.side, q.level)
                                   /\ c.pool[q.prev].next = t
                           /\ IF q.next = NoSlot THEN lw.tail = t
                              ELSE /\ q.next \in OrdersAt(c, q.side, q.level)
                                   /\ c.pool[q.next].prev = t
                                   /\ c.pool[q.next].seq > q.seq
    BY <1>5 DEF Linked
  <2> DEFINE p  == b.pool[t]
             lv == b.level[p.side][p.level]
  <2>2. /\ IF p.prev = NoSlot THEN lv.head = t
           ELSE /\ p.prev \in OrdersAt(b, p.side, p.level)
                /\ b.pool[p.prev].next = t
        /\ IF p.next = NoSlot THEN lv.tail = t
           ELSE /\ p.next \in OrdersAt(b, p.side, p.level)
                /\ b.pool[p.next].prev = t
                /\ b.pool[p.next].seq > p.seq
    BY DEF Linked
  <2>3. OrdersAt(c, p.side, p.level) = OrdersAt(b, p.side, p.level)
    BY <1>1
  <2>4. \A r \in OrdersAt(b, p.side, p.level) :
          /\ c.pool[r].next = b.pool[r].next /\ c.pool[r].prev = b.pool[r].prev
          /\ c.pool[r].seq = b.pool[r].seq
    BY <1>2, <1>3
  <2>5. LET q  == c.pool[t]
            lw == c.level[p.side][p.level]
        IN /\ q.side = p.side /\ q.level = p.level /\ q.seq = p.seq
           /\ q.prev = p.prev /\ q.next = p.next
           /\ lw.head = lv.head /\ lw.tail = lv.tail
    BY <1>3, <1>4
  <2> HIDE DEF p, lv
  <2> QED BY <2>2, <2>3, <2>4, <2>5
<1> QED BY <1>6, <1>7
-------------------------------------------------------------------------------
(* A slot pushed on the free list was not on it and belongs to nobody else. *)
LEMMA PushPartitioned ==
  ASSUME NEW b \in Book, NEW c \in Book, NEW s \in Slot, NEW R,
         Partitioned(b, R), s \in RestingSlots(b) \cup R,
         c.size = b.size, c.free = Append(b.free, s),
         RestingSlots(c) = RestingSlots(b) \ {s}
  PROVE  Partitioned(c, R \ {s})
<1> DEFINE n == Len(b.free)
<1>1. b.free \in Seq(Slot) /\ n \in Nat
  BY DEF Book
<1>2. /\ Len(c.free) = n + 1
      /\ \A k \in 1 .. n : c.free[k] = b.free[k]
      /\ c.free[n + 1] = s
  BY <1>1
<1>3. FreeSlots(c) = FreeSlots(b) \cup {s}
  <2>1. 1 .. n + 1 = 1 .. n \cup {n + 1}
    BY <1>1
  <2> HIDE DEF n
  <2> QED BY <1>2, <2>1 DEF FreeSlots, n
<1>4. s \notin FreeSlots(b)
  BY DEF Partitioned
<1>5. ASSUME NEW j \in 1 .. Len(c.free), NEW k \in 1 .. Len(c.free),
             c.free[j] = c.free[k]
      PROVE  j = k
  <2>1. \A m \in 1 .. n : c.free[m] \in FreeSlots(b)
    BY <1>2 DEF FreeSlots
  <2>2. \A l, m \in 1 .. n : c.free[l] = c.free[m] => l = m
    BY <1>2 DEF Partitioned
  <2>3. (j \in 1 .. n \/ j = n + 1) /\ (k \in 1 .. n \/ k = n + 1)
    BY <1>1, <1>2
  <2> HIDE DEF n
  <2> QED BY <1>2, <1>4, <1>5, <2>1, <2>2, <2>3
<1>6. FreeSlots(c) \cup RestingSlots(c) \cup (R \ {s}) = 0 .. c.size - 1
  BY <1>3 DEF Partitioned
<1>7. /\ FreeSlots(c) \cap RestingSlots(c) = {}
      /\ (FreeSlots(c) \cup RestingSlots(c)) \cap (R \ {s}) = {}
  BY <1>3 DEF Partitioned
<1> QED BY <1>5, <1>6, <1>7 DEF Partitioned

(* alloc_slot() takes a slot that is free or new, for the caller alone; the *)
(* queues do not notice.                                                    *)
LEMMA AllocPartitioned ==
  ASSUME NEW b \in Book, CanAlloc(b), Partitioned(b, {})
  PROVE  /\ Partitioned(AllocSlot(b), {AllocatedSlot(b)})
         /\ SameQueues(b, AllocSlot(b))
<1> DEFINE c == AllocSlot(b)
           s == AllocatedSlot(b)
           n == Len(b.free)
<1>1. s \in Slot /\ c \in Book
  BY AllocType
<1>2. CASE b.free # << >>
  <2>1. b.free \in Seq(Slot) /\ n \in Nat /\ n > 0
    BY <1>2 DEF Book
  <2>2. c = [b EXCEPT !.free = SubSeq(b.free, 1, Len(b.free) - 1),
                      !.gen[AllocatedSlot(b)] = (@ + 1) % GenMod]
    BY <1>2 DEF AllocSlot
  <2>3. /\ c.size = b.size /\ c.pool = b.pool /\ c.level = b.level
        /\ c.free = SubSeq(b.free, 1, n - 1)
    BY <2>2 DEF Book
  <2>4. Len(c.free) = n - 1 /\ \A k \in 1 .. n - 1 : c.free[k] = b.free[k]
    BY <2>1, <2>3
  <2>5. s = b.free[n]
    BY <1>2 DEF AllocatedSlot
  <2>6. 1 .. n = 1 .. n - 1 \cup {n} /\ n \notin 1 .. n - 1
    BY <2>1
  <2>7. SameQueues(b, c)
    BY <2>3 DEF SameQueues, SameOrders, SameLinks, RestingSlots
  <2>8. RestingSlots(c) = RestingSlots(b)
    BY <2>3 DEF RestingSlots
  <2>9. \A j, k \in 1 .. n : b.free[j] = b.free[k] => j = k
    BY DEF Partitioned
  <2> HIDE DEF n, s, c
  <2>10. FreeSlots(c) = FreeSlots(b) \ {s}
    <3>1. FreeSlots(b) = {b.free[k] : k \in 1 .. n}
      BY DEF FreeSlots, n
    <3>2. FreeSlots(c) = {b.free[k] : k \in 1 .. n - 1}
      BY <2>4 DEF FreeSlots
    <3>3. \A k \in 1 .. n - 1 : b.free[k] # s
      BY <2>5, <2>6, <2>9
    <3> QED BY <2>5, <2>6, <3>1, <3>2, <3>3
  <2>11. s \in FreeSlots(b)
    BY <2>5, <2>6 DEF FreeSlots, n
  <2>12. \A j, k \in 1 .. Len(c.free) : c.free[j] = c.free[k] => j = k
    BY <2>4, <2>6, <2>9
  <2>13. Partitioned(c, {s})
    <3>1. /\ FreeSlots(b) \cap RestingSlots(b) = {}
          /\ FreeSlots(b) \cup RestingSlots(b) \cup {} = 0 .. b.size - 1
      BY DEF Partitioned
    <3>2. /\ FreeSlots(c) \cap RestingSlots(c) = {}
          /\ (FreeSlots(c) \cup RestingSlots(c)) \cap {s} = {}
          /\ FreeSlots(c) \cup RestingSlots(c) \cup {s} = 0 .. c.size - 1
      BY <2>3, <2>8, <2>10, <2>11, <3>1
    <3> QED BY <2>12, <3>2 DEF Partitioned
  <2> QED BY <2>7, <2>13 DEF c, s
<1>3. CASE b.free = << >>
  <2>1. s = b.size
    BY <1>3 DEF AllocatedSlot
  <2>2. c = [b EXCEPT !.pool[b.size] = DefaultOrder, !.gen[b.size] = 1, !.size = @ + 1]
    BY <1>3 DEF AllocSlot
  <2>3. /\ c.size = b.size + 1 /\ c.level = b.level /\ c.free = << >>
        /\ c.pool = [b.pool EXCEPT ![b.size] = DefaultOrder]
    BY <1>3, <2>2 DEF Book
  <2>4. b.size \in Nat
    BY DEF Book
  <2>5. FreeSlots(b) = {} /\ FreeSlots(c) = {}
    BY <1>3, <2>3 DEF FreeSlots
  <2>6. RestingSlots(b) = 0 .. b.size - 1
    BY <2>5 DEF Partitioned
  <2>7. s \notin RestingSlots(b)
    BY <2>1, <2>4, <2>6
  <2>8. b.pool \in [Slot -> Order]
    BY DEF Book
  <2> HIDE DEF c, s
  <2>9. /\ ~ c.pool[s].active
        /\ \A t \in Slot \ {s} : c.pool[t] = b.pool[t]
    BY <1>1, <2>1, <2>3, <2>8 DEF DefaultOrder
  <2>10. RestingSlots(c) = RestingSlots(b)
    BY <2>7, <2>9 DEF RestingSlots
  <2>11. SameQueues(b, c)
    <3>1. \A t \in RestingSlots(b) : c.pool[t] = b.pool[t]
      BY <2>7, <2>9 DEF RestingSlots
    <3> QED BY <2>3, <2>10, <3>1 DEF SameQueues, SameOrders, SameLinks
  <2>12. 0 .. c.size - 1 = 0 .. b.size - 1 \cup {s} /\ s \notin 0 .. b.size - 1
    BY <2>1, <2>3, <2>4
  <2>13. \A j, k \in 1 .. Len(c.free) : c.free[j] = c.free[k] => j = k
    BY <2>3
  <2>14. Partitioned(c, {s})
    BY <2>5, <2>6, <2>10, <2>12, <2>13 DEF Partitioned
  <2> QED BY <2>11, <2>14 DEF c, s
<1> QED BY <1>2, <1>3

(* The slot of a taker that does not come to rest is given back.            *)
LEMMA FreePartitioned ==
  ASSUME NEW b \in Book, NEW s \in Slot, Partitioned(b, {s})
  PROVE  /\ Partitioned(FreeSlot(b, s), {})
         /\ SameQueues(b, FreeSlot(b, s))
<1> DEFINE c == FreeSlot(b, s)
<1>1. c \in Book
  BY FreeType
<1>2. /\ c.size = b.size /\ c.free = Append(b.free, s) /\ c.level = b.level
      /\ ~ c.pool[s].active
      /\ SameOrders(b, c, Slot \ {s}) /\ SameLinks(b, c, Slot)
  BY FreeShape
<1> HIDE DEF c
<1>3. s \notin RestingSlots(b)
  BY DEF Partitioned
<1>4. RestingSlots(c) = RestingSlots(b) \ {s}
  BY <1>2 DEF RestingSlots, SameOrders
<1>5. Partitioned(c, {s} \ {s})
  BY <1>1, <1>2, <1>4, PushPartitioned
<1>6. SameQueues(b, c)
  BY <1>2, <1>3, <1>4 DEF SameQueues, SameOrders, SameLinks, RestingSlots
<1>7. {s} \ {s} = {}
  OBVIOUS
<1> QED BY <1>5, <1>6, <1>7 DEF c
-------------------------------------------------------------------------------
(* Each function of BookState keeps a book sound.                           *)

LEMMA FreshSound ==
  ASSUME NEW n \in Nat
  PROVE  Sound(FreshBook, {}, n)
<1>1. RestingSlots(FreshBook) = {}
  BY DEF RestingSlots, FreshBook, DefaultOrder
<1>2. FreeSlots(FreshBook) = {} /\ FreshBook.free = << >> /\ FreshBook.size = 0
  BY DEF FreeSlots, FreshBook
<1>3. Partitioned(FreshBook, {})
  BY <1>1, <1>2 DEF Partitioned
<1>4. \A side, i : OrdersAt(FreshBook, side, i) = {}
  BY <1>1 DEF OrdersAt
<1>5. \A side \in Side, i \in Index : FreshBook.level[side][i] = EmptyLevel
  BY DEF FreshBook
<1>6. EndsExact(FreshBook)
  BY <1>4, <1>5, FS_EmptySet DEF EndsExact, EmptyLevel
<1> QED BY <1>1, <1>3, <1>6 DEF Sound, Linked, Arrived

(* What keeps queues and slots keeps a book sound.                          *)
LEMMA SameSound ==
  ASSUME NEW b \in Book, NEW c \in Book, NEW R, NEW n \in Nat,
         Sound(b, R, n), SamePool(b, c), SameQueues(b, c)
  PROVE  Sound(c, R, n)
<1>1. Linked(c) /\ EndsExact(c)
  BY QueuesKept DEF Sound
<1>2. RestingSlots(c) = RestingSlots(b) /\ FreeSlots(c) = FreeSlots(b)
  BY DEF SameQueues, SamePool, FreeSlots
<1>3. Partitioned(c, R)
  BY <1>2 DEF Sound, Partitioned, SamePool
<1>4. Arrived(c, n)
  BY <1>2 DEF Sound, Arrived, SameQueues, SameOrders
<1> QED BY <1>1, <1>3, <1>4 DEF Sound

LEMMA AllocSound ==
  ASSUME NEW b \in Book, NEW n \in Nat, CanAlloc(b), Sound(b, {}, n)
  PROVE  Sound(AllocSlot(b), {AllocatedSlot(b)}, n)
<1>1. Partitioned(AllocSlot(b), {AllocatedSlot(b)}) /\ SameQueues(b, AllocSlot(b))
  BY AllocPartitioned DEF Sound
<1>2. Linked(AllocSlot(b)) /\ EndsExact(AllocSlot(b))
  BY <1>1, AllocType, QueuesKept DEF Sound
<1>3. Arrived(AllocSlot(b), n)
  BY <1>1 DEF Sound, Arrived, SameQueues, SameOrders
<1> QED BY <1>1, <1>2, <1>3 DEF Sound

LEMMA FreeSound ==
  ASSUME NEW b \in Book, NEW s \in Slot, NEW n \in Nat, Sound(b, {s}, n)
  PROVE  Sound(FreeSlot(b, s), {}, n)
<1>1. Partitioned(FreeSlot(b, s), {}) /\ SameQueues(b, FreeSlot(b, s))
  BY FreePartitioned DEF Sound
<1>2. Linked(FreeSlot(b, s)) /\ EndsExact(FreeSlot(b, s))
  BY <1>1, FreeType, QueuesKept DEF Sound
<1>3. Arrived(FreeSlot(b, s), n)
  BY <1>1 DEF Sound, Arrived, SameQueues, SameOrders
<1> QED BY <1>1, <1>2, <1>3 DEF Sound

LEMMA RemoveSound ==
  ASSUME NEW b \in Book, NEW s \in RestingSlots(b), NEW R, NEW n \in Nat, Sound(b, R, n)
  PROVE  Sound(RemoveOrder(b, s), R, n)
<1> DEFINE c == RemoveOrder(b, s)
<1>1. /\ c \in Book /\ c.size = b.size /\ c.free = Append(b.free, s)
      /\ ~ c.pool[s].active
      /\ SameOrders(b, c, Slot \ {s})
      /\ TakenOut(b, c, s)
  BY RemoveShape DEF Sound
<1> HIDE DEF c
<1>2. s \in Slot
  BY DEF RestingSlots
<1>3. RestingSlots(c) = RestingSlots(b) \ {s}
  BY <1>1, OrdersWithout
<1>4. Linked(c) /\ EndsExact(c)
  BY <1>1, TakenOutLinked, TakenOutEnds DEF Sound
<1>5. Partitioned(c, R)
  <2>1. Partitioned(c, R \ {s})
    BY <1>1, <1>2, <1>3, PushPartitioned DEF Sound
  <2>2. R \ {s} = R
    BY DEF Sound, Partitioned
  <2> QED BY <2>1, <2>2
<1>6. Arrived(c, n)
  BY <1>1, <1>3 DEF Sound, Arrived, SameOrders, RestingSlots
<1> QED BY <1>4, <1>5, <1>6 DEF Sound, c

LEMMA RestSound ==
  ASSUME NEW b \in Book, NEW s \in Slot, NEW o \in Order,
         o.price >= MinPrice, o.price <= MaxPrice, Sound(b, {s}, o.seq)
  PROVE  Sound(RestOrder(b, s, o), {}, o.seq + 1)
<1> DEFINE c == RestOrder(b, s, o)
<1>1. /\ c \in Book /\ SamePool(b, c)
      /\ SameOrders(b, c, Slot \ {s})
      /\ SameLevelsBut(b, c, o.side, ToIndex(o.price))
      /\ Appended(b, c, s, o)
  BY RestType, RestShape
<1> HIDE DEF c
<1>2. ToIndex(o.price) \in Index /\ o.seq \in Nat
  BY ToIndexType DEF Order
<1>3. s \notin RestingSlots(b) /\ s \notin FreeSlots(b)
  BY DEF Sound, Partitioned
<1>4. RestingSlots(c) = RestingSlots(b) \cup {s}
  BY <1>1, <1>3, OrdersWith
<1>5. Linked(c) /\ EndsExact(c)
  BY <1>1, <1>2, <1>3, AppendedLinked, AppendedEnds DEF Sound, Arrived
<1>6. Partitioned(c, {})
  <2>1. FreeSlots(c) = FreeSlots(b)
    BY <1>1 DEF FreeSlots, SamePool
  <2> QED BY <1>1, <1>3, <1>4, <2>1 DEF Sound, Partitioned, SamePool
<1>7. Arrived(c, o.seq + 1)
  <2>1. c.pool[s].seq = o.seq
    BY <1>1 DEF Appended
  <2>2. \A t \in RestingSlots(b) : /\ c.pool[t].seq = b.pool[t].seq
                                   /\ b.pool[t].seq < o.seq
                                   /\ b.pool[t].seq \in Nat
    BY <1>1, <1>3, OrderType DEF Sound, Arrived, SameOrders, RestingSlots
  <2> QED BY <1>2, <1>4, <2>1, <2>2 DEF Arrived
<1> QED BY <1>5, <1>6, <1>7 DEF Sound, c

(* Book b with new quantities of the order in slot s and of a level.        *)
Requantified(b, s, qty, remaining, side, i, total) ==
  [b EXCEPT !.pool = [b.pool EXCEPT ![s] = [b.pool[s] EXCEPT !.qty = qty,
                                                            !.remaining = remaining]],
            !.level = [b.level EXCEPT ![side] = [b.level[side] EXCEPT
                         ![i] = [b.level[side][i] EXCEPT !.qty = total]]]]

(* They leave the queues alone.                                             *)
LEMMA RequantifyShape ==
  ASSUME NEW b \in Book, NEW c \in Book, NEW s \in Slot,
         NEW qty, NEW remaining, NEW total, NEW side \in Side, NEW i \in Index,
         c = Requantified(b, s, qty, remaining, side, i, total)
  PROVE  /\ SamePool(b, c) /\ SameQueues(b, c)
         /\ c.bits = b.bits /\ c.best = b.best /\ c.open = b.open
<1>1. /\ SamePool(b, c)
      /\ c.bits = b.bits /\ c.best = b.best /\ c.open = b.open
  BY DEF Requantified, SamePool, Book
<1>2. /\ c.pool = [b.pool EXCEPT ![s] = [b.pool[s] EXCEPT
                                          !.qty = qty, !.remaining = remaining]]
      /\ c.level = [b.level EXCEPT ![side] = [b.level[side] EXCEPT
                                   ![i] = [b.level[side][i] EXCEPT !.qty = total]]]
      /\ b.pool \in [Slot -> Order] /\ b.level \in [Side -> [Index -> PriceLevel]]
  BY DEF Requantified, Book
<1>3. ASSUME NEW t \in Slot
      PROVE  /\ c.pool[t].active = b.pool[t].active
             /\ c.pool[t].side = b.pool[t].side
             /\ c.pool[t].level = b.pool[t].level
             /\ c.pool[t].seq = b.pool[t].seq
             /\ c.pool[t].next = b.pool[t].next
             /\ c.pool[t].prev = b.pool[t].prev
  <2>1. b.pool[t] \in Order
    BY <1>2
  <2>2. CASE t = s
    <3>1. c.pool[t] = [b.pool[t] EXCEPT !.qty = qty, !.remaining = remaining]
      BY <1>2, <2>2
    <3> QED BY <2>1, <3>1 DEF Order
  <2>3. CASE t # s
    <3>1. c.pool[t] = b.pool[t]
      BY <1>2, <2>3
    <3> QED BY <3>1
  <2> QED BY <2>2, <2>3
<1>4. ASSUME NEW d \in Side, NEW j \in Index
      PROVE  /\ c.level[d][j].head = b.level[d][j].head
             /\ c.level[d][j].tail = b.level[d][j].tail
             /\ c.level[d][j].count = b.level[d][j].count
  <2>1. b.level[d][j] \in PriceLevel
    BY <1>2
  <2>2. CASE d = side /\ j = i
    <3>1. c.level[d][j] = [b.level[d][j] EXCEPT !.qty = total]
      BY <1>2, <2>2
    <3> QED BY <2>1, <3>1 DEF PriceLevel
  <2>3. CASE d # side \/ j # i
    <3>1. c.level[d][j] = b.level[d][j]
      BY <1>2, <2>3
    <3> QED BY <3>1
  <2> QED BY <2>2, <2>3
<1>5. RestingSlots(c) = RestingSlots(b)
  BY <1>3 DEF RestingSlots
<1>6. SameQueues(b, c)
  BY <1>3, <1>4, <1>5 DEF SameQueues, SameOrders, SameLinks, RestingSlots
<1> QED BY <1>1, <1>6

(* A fill changes quantities, and removes the maker if nothing of it is     *)
(* left.                                                                    *)
LEMMA FillShape ==
  ASSUME NEW b \in Book, NEW s \in Slot, NEW q \in Quantity, q <= b.pool[s].remaining
  PROVE  \E c \in Book :
           /\ c = Requantified(b, s, b.pool[s].qty, b.pool[s].remaining - q,
                               b.pool[s].side, b.pool[s].level,
                               QtySub(b.level[b.pool[s].side][b.pool[s].level].qty, q))
           /\ SamePool(b, c) /\ SameQueues(b, c)
           /\ c.bits = b.bits /\ c.best = b.best /\ c.open = b.open
           /\ FillMaker(b, s, q) = IF b.pool[s].remaining = q THEN RemoveOrder(c, s) ELSE c
<1> DEFINE o == b.pool[s]
           qty == o.qty
           remaining == o.remaining - q
           side == o.side
           level == o.level
           total == QtySub(b.level[side][level].qty, q)
           c == [b EXCEPT !.pool[s].remaining = @ - q,
                          !.level[b.pool[s].side][b.pool[s].level].qty = QtySub(@, q)]
<1>1. o \in Order /\ side \in Side /\ level \in Index
  BY OrderType
<1>2. c \in Book
  BY ReducedType
<1>3. [o EXCEPT !.remaining = remaining] = [o EXCEPT !.qty = qty, !.remaining = remaining]
  BY <1>1 DEF Order
<1>4. c = Requantified(b, s, qty, remaining, side, level, total)
  BY <1>1, <1>3 DEF Requantified, Book
<1>5. FillMaker(b, s, q) = IF b.pool[s].remaining = q THEN RemoveOrder(c, s) ELSE c
  BY DEF FillMaker
<1> HIDE DEF c
<1>6. /\ SamePool(b, c) /\ SameQueues(b, c)
      /\ c.bits = b.bits /\ c.best = b.best /\ c.open = b.open
  <2> HIDE DEF o, qty, remaining, side, level, total
  <2> QED BY <1>1, <1>2, <1>4, RequantifyShape
<1> QED BY <1>2, <1>4, <1>5, <1>6

LEMMA FillSound ==
  ASSUME NEW b \in Book, NEW s \in RestingSlots(b), NEW q \in Quantity,
         q <= b.pool[s].remaining, NEW R, NEW n \in Nat, Sound(b, R, n)
  PROVE  Sound(FillMaker(b, s, q), R, n)
<1>1. PICK c \in Book :
           /\ SamePool(b, c) /\ SameQueues(b, c)
           /\ FillMaker(b, s, q) = IF b.pool[s].remaining = q THEN RemoveOrder(c, s) ELSE c
  BY FillShape DEF RestingSlots
<1>2. Sound(c, R, n) /\ s \in RestingSlots(c)
  BY <1>1, SameSound DEF SameQueues
<1>3. Sound(RemoveOrder(c, s), R, n)
  BY <1>2, RemoveSound
<1> QED BY <1>1, <1>2, <1>3
-------------------------------------------------------------------------------
(* Each action keeps the book sound; SlotInvariant' also needs the types,   *)
(* which NextTyped has shown.                                               *)
SoundNow == Sound(book, ReservedSlots, nextSeq)

LEMMA NowType ==
  ASSUME TypeOK
  PROVE  book \in Book /\ nextSeq \in Nat /\ call.slot \in Slot
BY DEF TypeOK, Call

(* The order a match would trade with is a resting one.                     *)
LEMMA MakerRests ==
  ASSUME SlotInvariant, Matching
  PROVE  MakerSlot \in RestingSlots(book)
<1>1. MakerSide \in Side /\ BestIndex \in Index
  BY MakerType DEF SlotInvariant
<1>2. MakerSlot \in OrdersAt(book, MakerSide, BestIndex)
  BY <1>1 DEF SlotInvariant, Sound, EndsExact, Matching, MakerSlot
<1> QED BY <1>2 DEF OrdersAt

(* An id that resolves is the id of a resting order.                        *)
LEMMA ResolvedRests ==
  ASSUME SlotInvariant, NEW id \in OrderId, Resolve(book, id) # NoSlot
  PROVE  id.slot \in RestingSlots(book)
BY ResolveType DEF SlotInvariant, Resolve, RestingSlots

LEMMA EnterLimitSound ==
  ASSUME SlotInvariant, ~ call.active, NEW b \in Book, Sound(b, {}, nextSeq),
         NEW side \in Side, NEW price \in Int, NEW qty \in Quantity,
         NEW tif \in TimeInForce, NEW participant \in Nat,
         EnterLimit(b, side, price, qty, tif, participant)
  PROVE  SoundNow'
<1> DEFINE reason == LimitReject(b, side, price, qty, tif)
<1>1. CASE /\ reason # "None"
           /\ book' = b
           /\ Reject(reason, qty)
  <2>1. ReservedSlots' = {} /\ nextSeq' = nextSeq
    BY <1>1 DEF Reject, ReservedSlots
  <2> QED BY <1>1, <2>1 DEF SoundNow
<1>2. CASE /\ reason = "None"
           /\ CanAlloc(b)
           /\ book' = AllocSlot(b)
           /\ call' = Entered(b, FALSE, side, price, qty, tif, participant)
           /\ UNCHANGED <<stp, nextSeq, nextTradeSeq, trades, lastTrade, stats, result>>
  <2>1. ReservedSlots' = {AllocatedSlot(b)}
    BY <1>2 DEF ReservedSlots, Entered
  <2>2. Sound(AllocSlot(b), {AllocatedSlot(b)}, nextSeq)
    BY <1>2, AllocSound, NowType DEF SlotInvariant
  <2> QED BY <1>2, <2>1, <2>2 DEF SoundNow
<1> QED BY <1>1, <1>2 DEF EnterLimit

LEMMA SubmitLimitSound ==
  ASSUME SlotInvariant, NEW side \in Side, NEW price \in Int, NEW qty \in Quantity,
         NEW tif \in TimeInForce, NEW participant \in Nat,
         SubmitLimit(side, price, qty, tif, participant)
  PROVE  SoundNow'
<1>1. ~ call.active /\ EnterLimit(book, side, price, qty, tif, participant)
  BY DEF SubmitLimit, MayEnter
<1>2. Sound(book, {}, nextSeq)
  BY <1>1 DEF SlotInvariant, ReservedSlots
<1> QED BY <1>1, <1>2, EnterLimitSound, NowType DEF SlotInvariant

LEMMA SubmitMarketSound ==
  ASSUME SlotInvariant, NEW side \in Side, NEW qty \in Quantity, NEW participant \in Nat,
         SubmitMarket(side, qty, participant)
  PROVE  SoundNow'
<1> DEFINE reason == IF qty = 0 THEN "ZeroQuantity"
                     ELSE IF ~ HasBest(book, Opposite(side)) THEN "EmptyBook" ELSE "None"
<1>1. ~ call.active /\ Sound(book, {}, nextSeq)
  BY DEF SubmitMarket, MayEnter, SlotInvariant, ReservedSlots
<1>2. CASE book' = book /\ Reject(reason, qty)
  <2>1. ReservedSlots' = {} /\ nextSeq' = nextSeq
    BY <1>1, <1>2 DEF Reject, ReservedSlots
  <2> QED BY <1>1, <1>2, <2>1 DEF SoundNow
<1>3. CASE /\ CanAlloc(book)
           /\ book' = FreeSlot(AllocSlot(book), AllocatedSlot(book))
           /\ call' = Entered(book, TRUE, side, 0, qty, "IOC", participant)
           /\ UNCHANGED nextSeq
  <2>1. ReservedSlots' = {}
    BY <1>3 DEF ReservedSlots, Entered
  <2>2. Sound(AllocSlot(book), {AllocatedSlot(book)}, nextSeq)
    BY <1>1, <1>3, AllocSound, NowType DEF SlotInvariant
  <2>3. Sound(FreeSlot(AllocSlot(book), AllocatedSlot(book)), {}, nextSeq)
    BY <1>3, <2>2, AllocType, FreeSound, NowType DEF SlotInvariant
  <2> QED BY <1>3, <2>1, <2>3 DEF SoundNow
<1> QED BY <1>2, <1>3 DEF SubmitMarket

LEMMA PullMakerSound ==
  ASSUME SlotInvariant, PullMaker
  PROVE  SoundNow'
<1>1. MakerSlot \in RestingSlots(book)
  BY MakerRests DEF PullMaker
<1>2. Sound(RemoveOrder(book, MakerSlot), ReservedSlots, nextSeq)
  BY <1>1, RemoveSound, NowType DEF SlotInvariant
<1> QED BY <1>2 DEF PullMaker, SoundNow, ReservedSlots

LEMMA FillStepSound ==
  ASSUME SlotInvariant, Fill
  PROVE  SoundNow'
<1> DEFINE q == Smaller(call.remaining, Maker.remaining)
<1>1. MakerSlot \in RestingSlots(book) /\ Maker \in Order
  BY MakerRests, MakerType DEF Fill, SlotInvariant
<1>2. call.remaining \in Quantity /\ Maker.remaining \in Quantity
  BY <1>1 DEF SlotInvariant, TypeOK, Call, Order
<1>3. q \in Quantity /\ q <= book.pool[MakerSlot].remaining
  BY <1>2 DEF Smaller, Quantity, Maker
<1>4. book' = FillMaker(book, MakerSlot, q)
  BY DEF Fill
<1>5. ReservedSlots' = ReservedSlots /\ nextSeq' = nextSeq
  BY DEF Fill, ReservedSlots, SlotInvariant, TypeOK, Call
<1> HIDE DEF q
<1>6. Sound(FillMaker(book, MakerSlot, q), ReservedSlots, nextSeq)
  BY <1>1, <1>3, FillSound, NowType DEF SlotInvariant
<1> QED BY <1>4, <1>5, <1>6 DEF SoundNow

LEMMA ReleaseSound ==
  ASSUME SlotInvariant, call.active, ReleaseTaker
  PROVE  Sound(book', {}, nextSeq)
<1>1. CASE call.market
  BY <1>1 DEF SlotInvariant, ReleaseTaker, ReservedSlots
<1>2. CASE ~ call.market
  <2>1. Sound(book, {call.slot}, nextSeq)
    BY <1>2 DEF SlotInvariant, ReservedSlots
  <2> QED BY <1>2, <2>1, FreeSound, NowType DEF SlotInvariant, ReleaseTaker
<1> QED BY <1>1, <1>2

LEMMA ReturnSound ==
  ASSUME SlotInvariant, ReturnFilled \/ ReturnKilled
  PROVE  SoundNow'
<1>1. call.active /\ ReleaseTaker /\ call' = Idle /\ nextSeq' = nextSeq
  BY DEF ReturnFilled, ReturnKilled, Matched, Return
<1>2. ReservedSlots' = {}
  BY <1>1 DEF ReservedSlots, Idle
<1> QED BY <1>1, <1>2, ReleaseSound DEF SoundNow

LEMMA ReturnRestingSound ==
  ASSUME SlotInvariant, ReturnResting
  PROVE  SoundNow'
<1> DEFINE o == [DefaultOrder EXCEPT
                   !.id = call.id, !.price = call.price, !.qty = call.qty,
                   !.remaining = call.remaining, !.seq = nextSeq,
                   !.participant = call.participant, !.side = call.side]
<1>1. call.active /\ ~ call.market
  BY DEF ReturnResting, Matched, Rests
<1>2. o \in Order
  BY ConstantsType DEF SlotInvariant, TypeOK, Call, Order
<1>3. o.price = call.price /\ o.seq = nextSeq
  BY DEF DefaultOrder
<1>4. call.price >= MinPrice /\ call.price <= MaxPrice
  BY <1>1 DEF SlotInvariant, CallConsistent
<1>5. book' = RestOrder(book, call.slot, o) /\ call' = Idle /\ nextSeq' = nextSeq + 1
  BY DEF ReturnResting, Return
<1>6. Sound(book, {call.slot}, nextSeq)
  BY <1>1 DEF SlotInvariant, ReservedSlots
<1>7. ReservedSlots' = {}
  BY <1>5 DEF ReservedSlots, Idle
<1> HIDE DEF o
<1>8. Sound(RestOrder(book, call.slot, o), {}, nextSeq + 1)
  BY <1>2, <1>3, <1>4, <1>6, RestSound, NowType DEF SlotInvariant
<1> QED BY <1>5, <1>7, <1>8 DEF SoundNow

LEMMA RemoveIdSound ==
  ASSUME SlotInvariant, ~ call.active, NEW id \in OrderId, Resolve(book, id) # NoSlot
  PROVE  Sound(RemoveOrder(book, id.slot), {}, nextSeq)
<1>1. Sound(book, {}, nextSeq)
  BY DEF SlotInvariant, ReservedSlots
<1> QED BY <1>1, ResolvedRests, RemoveSound, NowType DEF SlotInvariant

LEMMA CancelSound ==
  ASSUME SlotInvariant, NEW id \in OrderId,
         \/ CancelLive(id)
         \/ \E newQty \in Quantity : AmendToCancel(id, newQty)
  PROVE  SoundNow'
<1>1. /\ ~ call.active /\ Resolve(book, id) # NoSlot
      /\ book' = RemoveOrder(book, id.slot) /\ call' = call /\ nextSeq' = nextSeq
  BY DEF CancelLive, AmendToCancel
<1>2. ReservedSlots' = {}
  BY <1>1 DEF ReservedSlots
<1> QED BY <1>1, <1>2, RemoveIdSound DEF SoundNow

(* A reduction in place changes quantities only.                            *)
LEMMA AmendDownShape ==
  ASSUME TypeOK, NEW id \in OrderId, NEW newQty \in Quantity,
         AmendDown(id, newQty), book' \in Book
  PROVE  /\ LET o         == book.pool[id.slot]
                remaining == QtySub(newQty, AlreadyFilled(id))
                total     == QtySub(book.level[o.side][o.level].qty, o.remaining - remaining)
            IN book' = Requantified(book, id.slot, newQty, remaining, o.side, o.level, total)
         /\ SamePool(book, book') /\ SameQueues(book, book')
         /\ book'.bits = book.bits /\ book'.best = book.best /\ book'.open = book.open
<1> DEFINE o == book.pool[id.slot]
           remaining == QtySub(newQty, AlreadyFilled(id))
           side == o.side
           level == o.level
           total == QtySub(book.level[side][level].qty, o.remaining - remaining)
<1>1. book \in Book /\ id.slot \in Slot
  BY ResolveType DEF TypeOK
<1>2. o \in Order /\ side \in Side /\ level \in Index
  BY <1>1, OrderType
<1>3. book' = [book EXCEPT !.level[side][level].qty = total,
                           !.pool[id.slot].remaining = remaining,
                           !.pool[id.slot].qty = newQty]
  BY <1>1, <1>2 DEF AmendDown, Book
<1>4. book' = Requantified(book, id.slot, newQty, remaining, side, level, total)
  <2> HIDE DEF total, remaining, side, level
  <2>1. [[o EXCEPT !.remaining = remaining] EXCEPT !.qty = newQty] =
          [o EXCEPT !.qty = newQty, !.remaining = remaining]
    BY <1>2 DEF Order
  <2>2. book.pool \in [Slot -> Order] /\ book.level \in [Side -> [Index -> PriceLevel]]
    BY <1>1 DEF Book
  <2>3. [book.pool EXCEPT ![id.slot].remaining = remaining, ![id.slot].qty = newQty] =
          [book.pool EXCEPT ![id.slot] = [[o EXCEPT !.remaining = remaining]
                                            EXCEPT !.qty = newQty]]
    BY <1>1, <2>2
  <2>4. book' = [book EXCEPT
          !.level = [book.level EXCEPT ![side][level].qty = total],
          !.pool = [book.pool EXCEPT ![id.slot].remaining = remaining,
                                     ![id.slot].qty = newQty]]
    BY <1>1, <1>3 DEF Book
  <2>5. book' = [book EXCEPT
          !.pool = [book.pool EXCEPT ![id.slot] = [o EXCEPT !.qty = newQty,
                                                           !.remaining = remaining]],
          !.level = [book.level EXCEPT ![side][level].qty = total]]
    BY <1>1, <2>1, <2>3, <2>4 DEF Book
  <2> QED BY <2>5 DEF Requantified
<1>5. /\ SamePool(book, book') /\ SameQueues(book, book')
      /\ book'.bits = book.bits /\ book'.best = book.best /\ book'.open = book.open
  <2> HIDE DEF total, remaining, side, level
  <2> QED BY <1>1, <1>2, <1>4, RequantifyShape
<1> QED BY <1>4, <1>5

LEMMA AmendDownSound ==
  ASSUME SlotInvariant, NEW id \in OrderId, NEW newQty \in Quantity,
         AmendDown(id, newQty), book' \in Book
  PROVE  SoundNow'
<1>1. SamePool(book, book') /\ SameQueues(book, book')
  BY AmendDownShape DEF SlotInvariant
<1>2. Sound(book', ReservedSlots, nextSeq)
  BY <1>1, SameSound, NowType DEF SlotInvariant
<1>3. ReservedSlots' = ReservedSlots /\ nextSeq' = nextSeq
  BY DEF AmendDown, ReservedSlots
<1> QED BY <1>2, <1>3 DEF SoundNow

LEMMA AmendUpSound ==
  ASSUME SlotInvariant, NEW id \in OrderId, NEW newQty \in Quantity, AmendUp(id, newQty)
  PROVE  SoundNow'
<1> DEFINE o == book.pool[id.slot]
           newRemaining == QtySub(newQty, AlreadyFilled(id))
<1>1. id.slot \in Slot /\ o \in Order /\ newRemaining \in Quantity
  BY ResolveType, AmendedQtyType DEF SlotInvariant
<1>2. RemoveOrder(book, id.slot) \in Book
  BY <1>1, RemoveType, NowType DEF SlotInvariant
<1>3. o.side \in Side /\ o.price \in Int /\ o.participant \in Nat /\ "GTC" \in TimeInForce
  BY <1>1 DEF Order, TimeInForce
<1>4. /\ ~ call.active /\ Resolve(book, id) # NoSlot
      /\ EnterLimit(RemoveOrder(book, id.slot), o.side, o.price, newRemaining, "GTC",
                    o.participant)
  BY DEF AmendUp, MayEnter
<1>5. Sound(RemoveOrder(book, id.slot), {}, nextSeq)
  BY <1>4, RemoveIdSound
<1> HIDE DEF o, newRemaining
<1> QED BY <1>1, <1>2, <1>3, <1>4, <1>5, EnterLimitSound

LEMMA ClearSound ==
  ASSUME SlotInvariant, Clear
  PROVE  SoundNow'
<1>1. book' = FreshBook /\ nextSeq' = nextSeq /\ ReservedSlots' = {}
  BY DEF Clear, ReservedSlots
<1> QED BY <1>1, FreshSound, NowType DEF SlotInvariant, SoundNow

LEMMA SameStateSound ==
  ASSUME SlotInvariant, UNCHANGED <<book, call, nextSeq>>
  PROVE  SoundNow'
BY DEF SlotInvariant, SoundNow, ReservedSlots

LEMMA SlotInvariantInit == Init => SlotInvariant
<1> SUFFICES ASSUME Init PROVE SlotInvariant
  OBVIOUS
<1>1. Typed
  BY InitTyped
<1>2. book = FreshBook /\ nextSeq = 1 /\ ReservedSlots = {}
  BY DEF Init, ReservedSlots, Idle
<1> QED BY <1>1, <1>2, FreshSound DEF SlotInvariant, Typed

LEMMA SlotInvariantNext == SlotInvariant /\ [Next]_vars => SlotInvariant'
<1> SUFFICES ASSUME SlotInvariant, [Next]_vars PROVE SlotInvariant'
  OBVIOUS
<1> USE InputAssumption
<1>1. Typed'
  BY NextTyped DEF SlotInvariant, Typed
<1>2. ASSUME NEW side \in Side, NEW price \in Prices, NEW qty \in Quantities,
             NEW tif \in Tifs, NEW participant \in Participants,
             SubmitLimit(side, price, qty, tif, participant)
      PROVE  SoundNow'
  BY <1>2, SubmitLimitSound
<1>3. ASSUME NEW side \in Side, NEW qty \in Quantities, NEW participant \in Participants,
             SubmitMarket(side, qty, participant)
      PROVE  SoundNow'
  BY <1>3, SubmitMarketSound
<1>4. ASSUME StopTaker PROVE SoundNow'
  <2>1. ReservedSlots' = ReservedSlots
    BY <1>4 DEF StopTaker, ReservedSlots, SlotInvariant, TypeOK, Call
  <2> QED BY <1>4, <2>1 DEF StopTaker, SlotInvariant, SoundNow
<1>5. ASSUME PullMaker PROVE SoundNow'
  BY <1>5, PullMakerSound
<1>6. ASSUME Fill PROVE SoundNow'
  BY <1>6, FillStepSound
<1>7. ASSUME ReturnFilled \/ ReturnKilled PROVE SoundNow'
  BY <1>7, ReturnSound
<1>8. ASSUME ReturnResting PROVE SoundNow'
  BY <1>8, ReturnRestingSound
<1>9. ASSUME NEW id \in OrderId, CancelLive(id) PROVE SoundNow'
  BY <1>9, CancelSound
<1>10. ASSUME NEW id \in OrderId, CancelUnknown(id) \/ AmendUnknown(id) PROVE SoundNow'
  BY <1>10, SameStateSound DEF CancelUnknown, AmendUnknown, vars
<1>11. ASSUME NEW id \in OrderId, NEW newQty \in Quantities, AmendToCancel(id, newQty)
       PROVE  SoundNow'
  BY <1>11, CancelSound
<1>12. ASSUME NEW id \in OrderId, NEW newQty \in Quantities, AmendDown(id, newQty)
       PROVE  SoundNow'
  <2>1. book' \in Book
    BY <1>1 DEF Typed, TypeOK
  <2> QED BY <1>12, <2>1, AmendDownSound
<1>13. ASSUME NEW id \in OrderId, NEW newQty \in Quantities, AmendUp(id, newQty)
       PROVE  SoundNow'
  BY <1>13, AmendUpSound
<1>14. ASSUME NEW mode \in StpModes, SetSelfTradePrevention(mode) PROVE SoundNow'
  BY <1>14, SameStateSound DEF SetSelfTradePrevention
<1>15. ASSUME ClearTrades PROVE SoundNow'
  BY <1>15, SameStateSound DEF ClearTrades
<1>16. ASSUME Clear PROVE SoundNow'
  BY <1>16, ClearSound
<1>17. ASSUME UNCHANGED vars PROVE SoundNow'
  BY <1>17, SameStateSound DEF vars
<1>18. SoundNow'
  BY <1>2, <1>3, <1>4, <1>5, <1>6, <1>7, <1>8, <1>9, <1>10, <1>11, <1>12, <1>13,
     <1>14, <1>15, <1>16, <1>17
  DEF Next, EngineStep, MatchStep, ReturnStep
<1> QED BY <1>1, <1>18 DEF SlotInvariant, SoundNow, Typed

(* No slot is freed twice, none leaks, and none is free and resting at the  *)
(* same time, in the middle of a match too.                                 *)
THEOREM SlotsCorrect == Spec => []SlotsPartitioned
<1>1. Spec => []SlotInvariant
  BY SlotInvariantInit, SlotInvariantNext, PTL DEF Spec
<1>2. SlotInvariant => SlotsPartitioned
  BY DEF SlotInvariant, Sound, SlotsPartitioned
<1> QED BY <1>1, <1>2, PTL
-------------------------------------------------------------------------------
(* Bitmaps, cached best prices and the order count.                         *)

(* A search without a result.                                               *)
LEMMA FindNone ==
  ASSUME NEW i
  PROVE  FindGe({}, i) = NPos /\ FindLe({}, i) = NPos
BY DEF FindGe, FindLe

(* The extremes of the bitmaps are what the searches of validate() find.    *)
LEMMA ExtremeIsBest ==
  ASSUME NEW b \in Book, \A side \in Side : Extreme(b.bits[side], b.best[side], side)
  PROVE  /\ b.best["Buy"] = FindLe(b.bits["Buy"], LadderSize - 1)
         /\ b.best["Sell"] = FindGe(b.bits["Sell"], 0)
<1> DEFINE L == LadderSize - 1
           buy == b.bits["Buy"]
           sell == b.bits["Sell"]
<1>1. /\ buy \in SUBSET Index /\ sell \in SUBSET Index /\ L \in Int
      /\ \A k \in Index : k \in Int /\ 0 <= k /\ k <= L
  BY LadderSizeType DEF Book, Side, Index
<1>2. Extreme(buy, b.best["Buy"], "Buy") => b.best["Buy"] = FindLe(buy, L)
  <2>1. CASE buy = {}
    BY <1>1, <2>1, FindNone DEF Extreme
  <2>2. CASE buy # {}
    <3>1. \A k \in buy : k \in Int /\ k <= L
      BY <1>1
    <3>2. FindLe(buy, L) \in buy /\ \A k \in buy : FindLe(buy, L) >= k
      <4> HIDE DEF buy, L
      <4>1. \/ FindLe(buy, L) \in buy /\ \A k \in buy : k <= L => FindLe(buy, L) >= k
            \/ \A k \in buy : k > L
        BY <1>1, FindLeSpec
      <4> QED BY <1>1, <2>2, <3>1, <4>1
    <3> HIDE DEF buy, L
    <3> QED BY <2>2, <3>1, <3>2 DEF Extreme, Better
  <2> QED BY <2>1, <2>2
<1>3. Extreme(sell, b.best["Sell"], "Sell") => b.best["Sell"] = FindGe(sell, 0)
  <2>1. CASE sell = {}
    BY <1>1, <2>1, FindNone DEF Extreme
  <2>2. CASE sell # {}
    <3>1. \A k \in sell : k \in Int /\ k >= 0
      BY <1>1
    <3>2. FindGe(sell, 0) \in sell /\ \A k \in sell : FindGe(sell, 0) <= k
      <4> HIDE DEF buy, sell
      <4>1. \/ FindGe(sell, 0) \in sell /\ \A k \in sell : k >= 0 => FindGe(sell, 0) <= k
            \/ \A k \in sell : k < 0
        BY <1>1, FindGeSpec
      <4> QED BY <1>1, <2>2, <3>1, <4>1
    <3> HIDE DEF sell
    <3> QED BY <2>2, <3>1, <3>2 DEF Extreme, Better
  <2> QED BY <2>1, <2>2
<1> QED BY <1>2, <1>3 DEF Side

(* The summary implies the checks of validate() on the touch.               *)
LEMMA SummaryIsTouch ==
  ASSUME book \in Book, Summarised(book)
  PROVE  TouchExact
<1>1. /\ book.best["Buy"] = FindLe(book.bits["Buy"], LadderSize - 1)
      /\ book.best["Sell"] = FindGe(book.bits["Sell"], 0)
  BY ExtremeIsBest DEF Summarised
<1>2. \A side \in Side : HasBest(book, side) => book.best[side] \in book.bits[side]
  BY DEF Summarised, Extreme, HasBest
<1>3. HasBest(book, "Buy") /\ HasBest(book, "Sell")
        => book.best["Buy"] < book.best["Sell"]
  BY <1>2 DEF Summarised, Uncrossed, Side
<1> QED BY <1>1, <1>3 DEF Summarised, TouchExact
-------------------------------------------------------------------------------
LEMMA FreshSummarised == Summarised(FreshBook)
<1>1. RestingSlots(FreshBook) = {} /\ \A side, i : OrdersAt(FreshBook, side, i) = {}
  BY DEF RestingSlots, OrdersAt, FreshBook, DefaultOrder
<1>2. /\ FreshBook.open = 0
      /\ \A side \in Side : FreshBook.bits[side] = {} /\ FreshBook.best[side] = NPos
  BY DEF FreshBook
<1> QED BY <1>1, <1>2, FS_EmptySet
        DEF Summarised, BitsExact, Extreme, Uncrossed, Side

SameSummary(b, c) == c.bits = b.bits /\ c.best = b.best /\ c.open = b.open

(* Where queues and summary are kept, the summary stays exact.              *)
LEMMA SummaryKept ==
  ASSUME NEW b \in Book, NEW c \in Book, Summarised(b), SameQueues(b, c),
         SameSummary(b, c)
  PROVE  Summarised(c)
<1>1. RestingSlots(c) = RestingSlots(b)
  BY DEF SameQueues
<1>2. \A side, i : OrdersAt(c, side, i) = OrdersAt(b, side, i)
  BY DEF SameQueues, SameOrders, OrdersAt
<1> QED BY <1>1, <1>2 DEF Summarised, SameSummary, BitsExact

(* In book c, which was b, the bit of a level without orders is gone, and   *)
(* the best price has moved only if it was that level.                      *)
BitDropped(b, c, side, idx) ==
  LET left == b.bits[side] \ {idx}
  IN IF b.level[side][idx].count # 0 THEN c.bits = b.bits /\ c.best = b.best
     ELSE /\ c.bits = [b.bits EXCEPT ![side] = left]
          /\ c.best = [b.best EXCEPT ![side] =
                        IF b.best[side] # idx THEN b.best[side]
                        ELSE IF side = "Buy" THEN FindLe(left, idx)
                        ELSE FindGe(left, idx)]

LEMMA DropSummary ==
  ASSUME NEW b \in Book, NEW side \in Side, NEW idx \in Index
  PROVE  BitDropped(b, DropIfEmpty(b, side, idx), side, idx)
<1> DEFINE c == DropIfEmpty(b, side, idx)
           left == b.bits[side] \ {idx}
           r == [b EXCEPT !.level[side][idx] = EmptyLevel, !.bits[side] = @ \ {idx}]
<1>1. CASE b.level[side][idx].count # 0
  BY <1>1 DEF DropIfEmpty, BitDropped
<1>2. CASE b.level[side][idx].count = 0
  <2>1. c = RefreshBest(r, side, idx)
    BY <1>2 DEF DropIfEmpty
  <2>2. /\ r.bits = [b.bits EXCEPT ![side] = left] /\ r.bits[side] = left
        /\ r.best = b.best
    BY DEF Book
  <2>3. r \in [pool : {r.pool}, gen : {r.gen}, size : {r.size}, free : {r.free},
               level : {r.level}, bits : {r.bits}, best : {r.best}, open : {r.open}]
    BY DEF Book
  <2>4. b.best \in [Side -> Index \cup {NPos}]
    BY DEF Book
  <2> DEFINE new == IF side = "Buy" THEN FindLe(left, idx) ELSE FindGe(left, idx)
  <2>5. RefreshBest(r, side, idx) =
          IF b.best[side] # idx THEN r ELSE [r EXCEPT !.best[side] = new]
    <3> HIDE DEF r, left
    <3> QED BY <2>2 DEF RefreshBest
  <2> HIDE DEF r, left, new
  <2>6. c.bits = r.bits /\ c.best = [b.best EXCEPT ![side] =
                                     IF b.best[side] # idx THEN b.best[side] ELSE new]
    <3> HIDE DEF c
    <3>1. CASE b.best[side] # idx
      <4>1. c = r
        BY <2>1, <2>5, <3>1
      <4>2. [b.best EXCEPT ![side] = b.best[side]] = b.best
        BY <2>4
      <4> QED BY <2>2, <3>1, <4>1, <4>2
    <3>2. CASE b.best[side] = idx
      <4>1. c = [r EXCEPT !.best[side] = new]
        BY <2>1, <2>5, <3>2
      <4> QED BY <2>2, <2>3, <3>2, <4>1
    <3> QED BY <3>1, <3>2
  <2> QED BY <1>2, <2>2, <2>6 DEF new, left, BitDropped
<1> QED BY <1>1, <1>2

(* remove_order() clears the bit of a level with its last order, and moves  *)
(* the best price to the next level if it was that one.                     *)
LEMMA RemoveSummarised ==
  ASSUME NEW b \in Book, NEW s \in RestingSlots(b), Linked(b), EndsExact(b),
         Summarised(b)
  PROVE  Summarised(RemoveOrder(b, s))
<1> DEFINE u == Unlink(b, s)
           f == FreeSlot(u, s)
           c == RemoveOrder(b, s)
           side == b.pool[s].side
           idx == b.pool[s].level
           here == OrdersAt(b, side, idx)
           left == b.bits[side] \ {idx}
<1>1. s \in Slot /\ side \in Side /\ idx \in Index /\ s \in here
  BY OrderType DEF RestingSlots, OrdersAt
<1>2. u \in Book /\ f \in Book
  BY <1>1, UnlinkType, FreeType
<1>3. /\ c \in Book /\ c.open = b.open - 1 /\ ~ c.pool[s].active
      /\ SameOrders(b, c, Slot \ {s})
  BY RemoveShape
<1>4. /\ RestingSlots(c) = RestingSlots(b) \ {s}
      /\ \A d \in Side, i \in Index : OrdersAt(c, d, i) = OrdersAt(b, d, i) \ {s}
  <2> HIDE DEF c
  <2> QED BY <1>3, OrdersWithout
<1>5. u.bits = b.bits /\ u.best = b.best /\ LevelPast(b, u.level[side][idx], s)
  BY <1>1, UnlinkShape DEF TakenOut
<1>6. f.bits = u.bits /\ f.best = u.best /\ f.level = u.level
  <2> HIDE DEF u
  <2> QED BY <1>1, <1>2, FreeShape
<1>7. f.level[side][idx].count = Cardinality(here) - 1
  <2>1. b.level[side][idx].count = Cardinality(here)
    BY <1>1 DEF EndsExact
  <2> QED BY <1>5, <1>6, <2>1 DEF LevelPast
<1>8. IF f.level[side][idx].count # 0 THEN c.bits = b.bits /\ c.best = b.best
      ELSE /\ c.bits = [b.bits EXCEPT ![side] = left]
           /\ c.best = [b.best EXCEPT ![side] =
                          IF b.best[side] # idx THEN b.best[side]
                          ELSE IF side = "Buy" THEN FindLe(left, idx)
                          ELSE FindGe(left, idx)]
  <2>1. c = DropIfEmpty(f, side, idx)
    BY DEF RemoveOrder
  <2>2. f.bits[side] = b.bits[side] /\ f.bits = b.bits /\ f.best = b.best
    BY <1>5, <1>6
  <2> HIDE DEF u, f, c, side, idx
  <2>3. BitDropped(f, c, side, idx)
    BY <1>1, <1>2, <2>1, DropSummary
  <2> QED BY <2>2, <2>3 DEF BitDropped
<1>9. Cardinality(here \ {s}) = Cardinality(here) - 1
      /\ (Cardinality(here \ {s}) = 0 <=> here \ {s} = {})
  <2>1. IsFiniteSet(here) /\ IsFiniteSet(here \ {s})
    BY OrdersFinite, FS_RemoveElement
  <2> QED BY <1>1, <2>1, FS_RemoveElement, FS_EmptySet
<1>10. c.open = Cardinality(RestingSlots(c))
  BY <1>3, <1>4, OrdersFinite, FS_RemoveElement DEF Summarised
<1>11. /\ b.bits \in [Side -> SUBSET Index] /\ b.best \in [Side -> Index \cup {NPos}]
       /\ \A k \in Index : k \in Int /\ k # NPos
       /\ NPos \notin Index
  BY DEF Book, Index, NPos
<1>12. \A d \in Side : /\ b.bits[d] = {i \in Index : OrdersAt(b, d, i) # {}}
                       /\ Extreme(b.bits[d], b.best[d], d)
  BY DEF Summarised, BitsExact
<1>13. idx \in b.bits[side]
  BY <1>1, <1>12
<1>14. \A d \in Side, i \in Index :
         d # side \/ i # idx => OrdersAt(c, d, i) = OrdersAt(b, d, i)
  BY <1>4 DEF OrdersAt
<1> HIDE DEF u, f, c, here
<1>15. ASSUME here \ {s} # {} PROVE Summarised(c)
  <2>1. c.bits = b.bits /\ c.best = b.best
    BY <1>7, <1>8, <1>9, <1>15
  <2>2. OrdersAt(c, side, idx) # {} /\ OrdersAt(b, side, idx) # {}
    BY <1>1, <1>4, <1>15 DEF here
  <2>3. \A d \in Side, i \in Index : OrdersAt(c, d, i) # {} <=> OrdersAt(b, d, i) # {}
    BY <1>14, <2>2
  <2> QED BY <1>10, <1>12, <2>1, <2>3 DEF Summarised, BitsExact
<1>16. ASSUME here \ {s} = {} PROVE Summarised(c)
  <2>1. /\ c.bits = [b.bits EXCEPT ![side] = left]
        /\ c.best = [b.best EXCEPT ![side] =
                       IF b.best[side] # idx THEN b.best[side]
                       ELSE IF side = "Buy" THEN FindLe(left, idx)
                       ELSE FindGe(left, idx)]
    BY <1>7, <1>8, <1>9, <1>16
  <2>2. OrdersAt(c, side, idx) = {}
    BY <1>1, <1>4, <1>16 DEF here
  <2>3. ASSUME NEW d \in Side
        PROVE  c.bits[d] = {i \in Index : OrdersAt(c, d, i) # {}}
    <3>1. CASE d = side
      <4>1. c.bits[d] = b.bits[side] \ {idx}
        BY <1>11, <2>1, <3>1
      <4>2. b.bits[side] = {i \in Index : OrdersAt(b, side, i) # {}}
        BY <1>1, <1>12
      <4> HIDE DEF side, idx
      <4> QED BY <1>1, <1>14, <2>2, <3>1, <4>1, <4>2
    <3>2. CASE d # side
      BY <1>11, <1>12, <1>14, <2>1, <3>2
    <3> QED BY <3>1, <3>2
  <2>4. ASSUME NEW d \in Side
        PROVE  Extreme(c.bits[d], c.best[d], d)
    <3>1. CASE d # side
      BY <1>11, <1>12, <2>1, <3>1
    <3>2. CASE d = side /\ b.best[side] # idx
      <4>1. c.bits[d] = left /\ c.best[d] = b.best[side]
        BY <1>11, <2>1, <3>2
      <4>2. b.best[side] \in b.bits[side]
            /\ \A i \in b.bits[side] : ~ Better(side, i, b.best[side])
        BY <1>1, <1>12, <1>13 DEF Extreme
      <4> QED BY <3>2, <4>1, <4>2 DEF Extreme
    <3>3. CASE d = side /\ b.best[side] = idx
      <4>1. /\ c.bits[d] = left
            /\ c.best[d] = IF side = "Buy" THEN FindLe(left, idx) ELSE FindGe(left, idx)
        BY <1>11, <2>1, <3>3
      <4>2. \A i \in b.bits[side] : ~ Better(side, i, idx)
        BY <1>1, <1>12, <1>13, <3>3 DEF Extreme
      <4>3. left \in SUBSET Index /\ \A i \in left : i \in Int /\ ~ Better(side, i, idx)
        BY <1>1, <1>11, <4>2
      <4>4. idx \in Int
        BY <1>1, <1>11
      <4> HIDE DEF side, idx, left
      <4>5. CASE side = "Buy"
        <5>1. \A i \in left : i <= idx
          BY <4>3, <4>4, <4>5 DEF Better
        <5>2. IF left = {} THEN FindLe(left, idx) = NPos
              ELSE FindLe(left, idx) \in left /\ \A k \in left : FindLe(left, idx) >= k
          BY <4>3, <4>4, <5>1, FindLeSpec, FindNone
        <5> QED BY <3>3, <4>1, <4>3, <4>5, <5>2 DEF Extreme, Better
      <4>6. CASE side # "Buy"
        <5>1. \A i \in left : i >= idx
          BY <4>3, <4>4, <4>6 DEF Better
        <5>2. IF left = {} THEN FindGe(left, idx) = NPos
              ELSE FindGe(left, idx) \in left /\ \A k \in left : FindGe(left, idx) <= k
          BY <4>3, <4>4, <5>1, FindGeSpec, FindNone
        <5> QED BY <3>3, <4>1, <4>3, <4>6, <5>2 DEF Extreme, Better
      <4> QED BY <4>5, <4>6
    <3> QED BY <3>1, <3>2, <3>3
  <2>5. Uncrossed(c.bits)
    <3>1. \A d \in Side : c.bits[d] \in SUBSET b.bits[d]
      BY <1>11, <2>1
    <3> QED BY <3>1 DEF Summarised, Uncrossed, Side
  <2> QED BY <1>10, <2>3, <2>4, <2>5 DEF Summarised, BitsExact
<1> QED BY <1>15, <1>16 DEF c

(* The orders of the other side are all out of reach of index idx.          *)
OutOfReach(b, side, idx) ==
  \A j \in b.bits[Opposite(side)] : Better(Opposite(side), idx, j)

(* rest_order() sets the bit of a level with its first order, and moves the *)
(* best price there if the level is better.                                 *)
LEMMA RestSummarised ==
  ASSUME NEW b \in Book, NEW s \in Slot, NEW o \in Order,
         o.price >= MinPrice, o.price <= MaxPrice,
         s \notin RestingSlots(b), EndsExact(b), Summarised(b),
         OutOfReach(b, o.side, ToIndex(o.price))
  PROVE  Summarised(RestOrder(b, s, o))
<1> DEFINE c == RestOrder(b, s, o)
           side == o.side
           idx == ToIndex(o.price)
           lv == b.level[side][idx]
           bits == IF lv.count = 0 THEN b.bits[side] \cup {idx} ELSE b.bits[side]
           best == IF lv.count = 0 /\ (b.best[side] = NPos \/ Better(side, idx, b.best[side]))
                   THEN idx ELSE b.best[side]
<1>1. side \in Side /\ idx \in Index
  BY ToIndexType DEF Order
<1>2. /\ c \in Book /\ c.open = b.open + 1
      /\ SameOrders(b, c, Slot \ {s}) /\ Appended(b, c, s, o)
  BY RestType, RestShape
<1>3. /\ c.bits = [b.bits EXCEPT ![side] = bits]
      /\ c.best = [b.best EXCEPT ![side] = best]
  BY DEF RestOrder, Book
<1>4. /\ RestingSlots(c) = RestingSlots(b) \cup {s}
      /\ OrdersAt(c, side, idx) = OrdersAt(b, side, idx) \cup {s}
      /\ \A d \in Side, i \in Index :
           d # side \/ i # idx => OrdersAt(c, d, i) = OrdersAt(b, d, i)
  <2> HIDE DEF c
  <2> QED BY <1>2, OrdersWith
<1>5. c.open = Cardinality(RestingSlots(c))
  <2> HIDE DEF c
  <2> QED BY <1>2, <1>4, OrdersFinite, FS_AddElement DEF Summarised
<1>6. /\ b.bits \in [Side -> SUBSET Index] /\ b.best \in [Side -> Index \cup {NPos}]
      /\ \A k \in Index : k \in Int /\ k # NPos
  BY DEF Book, Index, NPos
<1>7. \A d \in Side : /\ b.bits[d] = {i \in Index : OrdersAt(b, d, i) # {}}
                      /\ Extreme(b.bits[d], b.best[d], d)
  BY DEF Summarised, BitsExact
<1>8. lv.count = 0 <=> OrdersAt(b, side, idx) = {}
  BY <1>1, OrdersFinite, FS_EmptySet DEF EndsExact
<1>9. bits = b.bits[side] \cup {idx}
  BY <1>1, <1>7, <1>8
<1>10. \A d \in Side : c.bits[d] = {i \in Index : OrdersAt(c, d, i) # {}}
  <2>1. ASSUME NEW d \in Side, d # side
        PROVE  c.bits[d] = {i \in Index : OrdersAt(c, d, i) # {}}
    <3> HIDE DEF c, side, idx
    <3> QED BY <1>3, <1>4, <1>6, <1>7, <2>1
  <2>2. c.bits[side] = {i \in Index : OrdersAt(c, side, i) # {}}
    <3>1. c.bits[side] = b.bits[side] \cup {idx}
      BY <1>1, <1>3, <1>6, <1>9
    <3> HIDE DEF c, side, idx
    <3> QED BY <1>1, <1>4, <1>7, <3>1
  <2> HIDE DEF c, side
  <2> QED BY <2>1, <2>2
<1>11. Extreme(bits, best, side)
  <2>1. lv.count # 0 => idx \in b.bits[side]
    BY <1>1, <1>7, <1>8
  <2>2. IF b.bits[side] = {} THEN b.best[side] = NPos
        ELSE /\ b.best[side] \in b.bits[side]
             /\ \A i \in b.bits[side] : ~ Better(side, i, b.best[side])
    BY <1>1, <1>7 DEF Extreme
  <2>3. b.bits[side] \in SUBSET Index /\ \A k \in b.bits[side] : k \in Int /\ k # NPos
    BY <1>1, <1>6
  <2>4. idx \in Int
    BY <1>1, <1>6
  <2>5. best = IF lv.count = 0 /\ (b.best[side] = NPos \/ Better(side, idx, b.best[side]))
               THEN idx ELSE b.best[side]
    OBVIOUS
  <2>6. idx \in bits
    BY <1>9
  <2> HIDE DEF side, idx, lv, bits, best
  <2>7. CASE lv.count # 0
    <3>1. bits = b.bits[side] /\ best = b.best[side]
      BY <1>9, <2>1, <2>5, <2>7
    <3> QED BY <1>1, <1>7, <3>1
  <2>8. CASE lv.count = 0 /\ b.best[side] = NPos
    <3>1. b.bits[side] = {}
      BY <2>2, <2>3, <2>8
    <3>2. bits = {idx} /\ best = idx
      BY <1>9, <2>5, <2>8, <3>1
    <3> QED BY <2>4, <3>2 DEF Extreme, Better
  <2>9. CASE lv.count = 0 /\ b.best[side] # NPos
    <3>1. /\ b.best[side] \in b.bits[side] /\ b.best[side] \in Int
          /\ \A i \in b.bits[side] : ~ Better(side, i, b.best[side])
      BY <2>2, <2>3, <2>9
    <3>2. best = IF Better(side, idx, b.best[side]) THEN idx ELSE b.best[side]
      BY <2>5, <2>9
    <3>3. best \in bits /\ \A i \in bits : ~ Better(side, i, best)
      BY <1>9, <2>3, <2>4, <3>1, <3>2 DEF Better
    <3> QED BY <2>6, <3>3 DEF Extreme
  <2> QED BY <2>7, <2>8, <2>9
<1>12. \A d \in Side : Extreme(c.bits[d], c.best[d], d)
  <2> HIDE DEF c, side, bits, best
  <2> QED BY <1>1, <1>3, <1>6, <1>7, <1>11
<1>13. Uncrossed(c.bits)
  <2>1. \A d \in Side : c.bits[d] = IF d = side THEN b.bits[d] \cup {idx} ELSE b.bits[d]
    <3> HIDE DEF c, side, idx, bits
    <3> QED BY <1>1, <1>3, <1>6, <1>9
  <2>2. \A i \in b.bits["Buy"], j \in b.bits["Sell"] : i < j
    BY DEF Summarised, Uncrossed
  <2>3. \A j \in b.bits[Opposite(side)] : Better(Opposite(side), idx, j)
    BY DEF OutOfReach
  <2> HIDE DEF c, side, idx
  <2>4. CASE side = "Buy"
    BY <2>1, <2>2, <2>3, <2>4 DEF Uncrossed, Opposite, Better, Side
  <2>5. CASE side = "Sell"
    BY <2>1, <2>2, <2>3, <2>5 DEF Uncrossed, Opposite, Better, Side
  <2> QED BY <1>1, <2>4, <2>5 DEF Side
<1> QED BY <1>5, <1>10, <1>12, <1>13 DEF Summarised, BitsExact
-------------------------------------------------------------------------------
(* A price on tick is the price of its index ...                            *)
LEMMA OnTick ==
  ASSUME NEW p \in Int, p >= MinPrice, (p - MinPrice) % TickSize = 0
  PROVE  ToPrice(ToIndex(p)) = p
<1>1. \A d, t \in Int : t > 0 /\ d % t = 0 => (d \div t) * t = d
  OBVIOUS
<1>2. ((p - MinPrice) \div TickSize) * TickSize = p - MinPrice
  BY <1>1, BandAssumption
<1> QED BY <1>2, BandAssumption DEF ToPrice, ToIndex

(* ... and prices are ordered as their indices are.                         *)
LEMMA PriceOrder ==
  ASSUME NEW i \in Int, NEW j \in Int, ToPrice(i) < ToPrice(j)
  PROVE  i < j
<1>1. \A t \in Int : t > 0 /\ j <= i => j * t <= i * t
  OBVIOUS
<1>2. i * TickSize < j * TickSize
  BY BandAssumption DEF ToPrice
<1>3. i * TickSize \in Int /\ j * TickSize \in Int
  BY BandAssumption
<1> QED BY <1>1, <1>2, <1>3, BandAssumption

(* A taker that does not cross may come to rest without crossing the book.  *)
LEMMA RestsOutOfReach ==
  ASSUME TypeOK, CallConsistent, Summarised(book), call.active, ~ call.market, ~ Crosses
  PROVE  OutOfReach(book, call.side, ToIndex(call.price))
<1> DEFINE idx == ToIndex(call.price)
           best == book.best[MakerSide]
<1>1. /\ call.price \in Int /\ call.side \in Side /\ MakerSide \in Side
      /\ call.price >= MinPrice /\ call.price <= MaxPrice
      /\ (call.price - MinPrice) % TickSize = 0
  BY DEF TypeOK, Call, CallConsistent, MakerSide, Opposite, Side
<1>2. idx \in Int /\ ToPrice(idx) = call.price
  BY <1>1, OnTick, ToIndexType DEF Index
<1>3. SUFFICES ASSUME NEW j \in book.bits[MakerSide]
               PROVE  Better(MakerSide, idx, j)
  BY DEF OutOfReach, MakerSide
<1>4. Extreme(book.bits[MakerSide], best, MakerSide)
  BY <1>1 DEF Summarised
<1>5. best \in book.bits[MakerSide] /\ ~ Better(MakerSide, j, best)
  BY <1>4 DEF Extreme
<1>6. book.bits[MakerSide] \in SUBSET Index
  BY <1>1 DEF TypeOK, Book
<1>7. best \in Int /\ j \in Int /\ best # NPos
  BY <1>5, <1>6 DEF Index, NPos
<1>8. ~ WithinLimit(call.side, ToPrice(best), call.price)
  BY <1>7 DEF Crosses, HasBest, BestIndex
<1>9. ToPrice(best) \in Int
  BY <1>7, BandAssumption DEF ToPrice
<1> HIDE DEF idx, best
<1>10. CASE call.side = "Buy"
  <2>1. MakerSide = "Sell"
    BY <1>10 DEF MakerSide, Opposite
  <2>2. ToPrice(idx) < ToPrice(best)
    BY <1>1, <1>2, <1>8, <1>9, <1>10 DEF WithinLimit
  <2>3. idx < best
    BY <1>2, <1>7, <2>2, PriceOrder
  <2> QED BY <1>2, <1>5, <1>7, <2>1, <2>3 DEF Better
<1>11. CASE call.side = "Sell"
  <2>1. MakerSide = "Buy"
    BY <1>11 DEF MakerSide, Opposite
  <2>2. ToPrice(best) < ToPrice(idx)
    BY <1>1, <1>2, <1>8, <1>9, <1>11 DEF WithinLimit
  <2>3. best < idx
    BY <1>2, <1>7, <2>2, PriceOrder
  <2> QED BY <1>2, <1>5, <1>7, <2>1, <2>3 DEF Better
<1> QED BY <1>1, <1>10, <1>11 DEF Side
-------------------------------------------------------------------------------
(* Taking and giving back the slot of a taker changes no queue.             *)
LEMMA AllocSummarised ==
  ASSUME NEW b \in Book, CanAlloc(b), Partitioned(b, {}), Summarised(b)
  PROVE  Summarised(AllocSlot(b))
<1>1. SameQueues(b, AllocSlot(b))
  BY AllocPartitioned
<1>2. SameSummary(b, AllocSlot(b))
  BY DEF AllocSlot, Book, SameSummary
<1> QED BY <1>1, <1>2, AllocType, SummaryKept

LEMMA FreeSummarised ==
  ASSUME NEW b \in Book, NEW s \in Slot, Partitioned(b, {s}), Summarised(b)
  PROVE  Summarised(FreeSlot(b, s))
<1>1. SameQueues(b, FreeSlot(b, s))
  BY FreePartitioned
<1>2. SameSummary(b, FreeSlot(b, s))
  BY FreeShape DEF SameSummary
<1> QED BY <1>1, <1>2, FreeType, SummaryKept

LEMMA FillSummarised ==
  ASSUME NEW b \in Book, NEW s \in RestingSlots(b), NEW q \in Quantity,
         q <= b.pool[s].remaining, Linked(b), EndsExact(b), Summarised(b)
  PROVE  Summarised(FillMaker(b, s, q))
<1>1. PICK c \in Book :
           /\ SamePool(b, c) /\ SameQueues(b, c)
           /\ c.bits = b.bits /\ c.best = b.best /\ c.open = b.open
           /\ FillMaker(b, s, q) = IF b.pool[s].remaining = q THEN RemoveOrder(c, s) ELSE c
  BY FillShape DEF RestingSlots
<1>2. SameSummary(b, c)
  BY <1>1 DEF SameSummary
<1>3. Summarised(c) /\ Linked(c) /\ EndsExact(c) /\ s \in RestingSlots(c)
  BY <1>1, <1>2, SummaryKept, QueuesKept DEF SameQueues
<1>4. Summarised(RemoveOrder(c, s))
  BY <1>3, RemoveSummarised
<1> QED BY <1>1, <1>3, <1>4
-------------------------------------------------------------------------------
(* The book is a book and its queues are sound, whatever is under way.      *)
LEMMA NowSound ==
  ASSUME SlotInvariant
  PROVE  /\ TypeOK /\ CallConsistent
         /\ book \in Book /\ Linked(book) /\ EndsExact(book)
         /\ ~ call.active => Partitioned(book, {})
         /\ call.active /\ ~ call.market => Partitioned(book, {call.slot})
         /\ call.slot \in Slot
BY NowType DEF SlotInvariant, Sound, ReservedSlots

LEMMA EnterLimitSummarised ==
  ASSUME NEW b \in Book, Partitioned(b, {}), Summarised(b),
         NEW side, NEW price, NEW qty, NEW tif, NEW participant,
         EnterLimit(b, side, price, qty, tif, participant)
  PROVE  Summarised(book')
BY AllocSummarised DEF EnterLimit

LEMMA SubmitMarketSummarised ==
  ASSUME TouchInvariant, NEW side, NEW qty, NEW participant,
         SubmitMarket(side, qty, participant)
  PROVE  Summarised(book')
<1>1. Partitioned(book, {}) /\ book \in Book /\ Summarised(book)
  BY NowSound DEF SubmitMarket, MayEnter, TouchInvariant
<1>2. ASSUME CanAlloc(book)
      PROVE  Summarised(FreeSlot(AllocSlot(book), AllocatedSlot(book)))
  BY <1>1, <1>2, AllocType, AllocPartitioned, AllocSummarised, FreeSummarised
<1> QED BY <1>1, <1>2 DEF SubmitMarket

LEMMA FillStepSummarised ==
  ASSUME TouchInvariant, Fill
  PROVE  Summarised(book')
<1> DEFINE q == Smaller(call.remaining, Maker.remaining)
<1>1. MakerSlot \in RestingSlots(book) /\ Maker \in Order
  BY MakerRests, MakerType DEF Fill, SlotInvariant, TouchInvariant
<1>2. call.remaining \in Quantity /\ Maker.remaining \in Quantity
  BY <1>1 DEF TouchInvariant, SlotInvariant, TypeOK, Call, Order
<1>3. q \in Quantity /\ q <= book.pool[MakerSlot].remaining
  BY <1>2 DEF Smaller, Quantity, Maker
<1>4. book' = FillMaker(book, MakerSlot, q)
  BY DEF Fill
<1> HIDE DEF q
<1> QED BY <1>1, <1>3, <1>4, NowSound, FillSummarised DEF TouchInvariant

LEMMA ReleaseSummarised ==
  ASSUME TouchInvariant, call.active, ReleaseTaker
  PROVE  Summarised(book')
BY NowSound, FreeSummarised DEF TouchInvariant, ReleaseTaker

LEMMA ReturnRestingSummarised ==
  ASSUME TouchInvariant, ReturnResting
  PROVE  Summarised(book')
<1> DEFINE o == [DefaultOrder EXCEPT
                   !.id = call.id, !.price = call.price, !.qty = call.qty,
                   !.remaining = call.remaining, !.seq = nextSeq,
                   !.participant = call.participant, !.side = call.side]
<1>1. /\ call.active /\ ~ call.market /\ ~ Crosses
      /\ book' = RestOrder(book, call.slot, o)
  <2>1. call.remaining \in Nat /\ call.remaining > 0
    BY DEF ReturnResting, TouchInvariant, SlotInvariant, TypeOK, Call, Quantity
  <2> QED BY <2>1 DEF ReturnResting, Matched, Rests
<1>2. o \in Order
  BY ConstantsType DEF TouchInvariant, SlotInvariant, TypeOK, Call, Order
<1>3. o.price = call.price /\ o.side = call.side
  BY DEF DefaultOrder
<1>4. call.price >= MinPrice /\ call.price <= MaxPrice
  BY <1>1, NowSound DEF TouchInvariant, CallConsistent
<1>5. OutOfReach(book, o.side, ToIndex(o.price))
  BY <1>1, <1>3, NowSound, RestsOutOfReach DEF TouchInvariant
<1>6. /\ book \in Book /\ EndsExact(book) /\ call.slot \in Slot
      /\ call.slot \notin RestingSlots(book) /\ Summarised(book)
  BY <1>1, NowSound DEF TouchInvariant, Partitioned
<1> HIDE DEF o
<1> QED BY <1>1, <1>2, <1>3, <1>4, <1>5, <1>6, RestSummarised

LEMMA RemoveIdSummarised ==
  ASSUME TouchInvariant, NEW id \in OrderId, Resolve(book, id) # NoSlot
  PROVE  Summarised(RemoveOrder(book, id.slot))
BY ResolvedRests, NowSound, RemoveSummarised DEF TouchInvariant

LEMMA AmendDownSummarised ==
  ASSUME TouchInvariant, NEW id \in OrderId, NEW newQty \in Quantity,
         AmendDown(id, newQty), book' \in Book
  PROVE  Summarised(book')
<1>1. SameQueues(book, book') /\ SameSummary(book, book')
  BY AmendDownShape, NowSound DEF TouchInvariant, SameSummary
<1> QED BY <1>1, NowSound, SummaryKept DEF TouchInvariant

LEMMA AmendUpSummarised ==
  ASSUME TouchInvariant, NEW id \in OrderId, NEW newQty \in Quantity, AmendUp(id, newQty)
  PROVE  Summarised(book')
<1> DEFINE b == RemoveOrder(book, id.slot)
           newRemaining == QtySub(newQty, AlreadyFilled(id))
<1>1. ~ call.active /\ Resolve(book, id) # NoSlot
  BY DEF AmendUp, MayEnter
<1>2. b \in Book /\ Summarised(b)
  BY <1>1, ResolveType, NowSound, RemoveType, RemoveIdSummarised DEF TouchInvariant
<1>3. Partitioned(b, {})
  BY <1>1, RemoveIdSound DEF TouchInvariant, Sound
<1>4. EnterLimit(b, book.pool[id.slot].side, book.pool[id.slot].price, newRemaining,
                 "GTC", book.pool[id.slot].participant)
  BY DEF AmendUp
<1> HIDE DEF b, newRemaining
<1> QED BY <1>2, <1>3, <1>4, EnterLimitSummarised

LEMMA TouchInvariantInit == Init => TouchInvariant
BY SlotInvariantInit, FreshSummarised DEF Init, TouchInvariant

LEMMA TouchInvariantNext == TouchInvariant /\ [Next]_vars => TouchInvariant'
<1> SUFFICES ASSUME TouchInvariant, [Next]_vars PROVE TouchInvariant'
  OBVIOUS
<1> USE InputAssumption
<1>1. SlotInvariant'
  BY SlotInvariantNext DEF TouchInvariant
<1>2. ASSUME NEW side \in Side, NEW price \in Prices, NEW qty \in Quantities,
             NEW tif \in Tifs, NEW participant \in Participants,
             SubmitLimit(side, price, qty, tif, participant)
      PROVE  Summarised(book')
  <2>1. ~ call.active /\ EnterLimit(book, side, price, qty, tif, participant)
    BY <1>2 DEF SubmitLimit, MayEnter
  <2> QED BY <2>1, NowSound, EnterLimitSummarised DEF TouchInvariant
<1>3. ASSUME NEW side \in Side, NEW qty \in Quantities, NEW participant \in Participants,
             SubmitMarket(side, qty, participant)
      PROVE  Summarised(book')
  BY <1>3, SubmitMarketSummarised
<1>4. ASSUME PullMaker PROVE Summarised(book')
  BY <1>4, MakerRests, NowSound, RemoveSummarised DEF PullMaker, TouchInvariant
<1>5. ASSUME Fill PROVE Summarised(book')
  BY <1>5, FillStepSummarised
<1>6. ASSUME ReturnFilled \/ ReturnKilled PROVE Summarised(book')
  BY <1>6, ReleaseSummarised DEF ReturnFilled, ReturnKilled, Matched
<1>7. ASSUME ReturnResting PROVE Summarised(book')
  BY <1>7, ReturnRestingSummarised
<1>8. ASSUME NEW id \in OrderId, CancelLive(id) PROVE Summarised(book')
  BY <1>8, RemoveIdSummarised DEF CancelLive
<1>9. ASSUME NEW id \in OrderId, NEW newQty \in Quantities, AmendToCancel(id, newQty)
      PROVE  Summarised(book')
  BY <1>9, RemoveIdSummarised DEF AmendToCancel
<1>10. ASSUME NEW id \in OrderId, NEW newQty \in Quantities, AmendDown(id, newQty)
       PROVE  Summarised(book')
  BY <1>1, <1>10, NowSound, AmendDownSummarised DEF SlotInvariant, TypeOK
<1>11. ASSUME NEW id \in OrderId, NEW newQty \in Quantities, AmendUp(id, newQty)
       PROVE  Summarised(book')
  BY <1>11, AmendUpSummarised
<1>12. ASSUME Clear PROVE Summarised(book')
  BY <1>12, FreshSummarised DEF Clear
<1>13. ASSUME UNCHANGED book PROVE Summarised(book')
  BY <1>13 DEF TouchInvariant
<1>14. Summarised(book')
  BY <1>2, <1>3, <1>4, <1>5, <1>6, <1>7, <1>8, <1>9, <1>10, <1>11, <1>12, <1>13
  DEF Next, EngineStep, MatchStep, ReturnStep, StopTaker, CancelUnknown, AmendUnknown,
      SetSelfTradePrevention, ClearTrades, vars
<1> QED BY <1>1, <1>14 DEF TouchInvariant

(* The cached best bid and best ask are those of the orders at rest, the    *)
(* order count is exact, and the book is never crossed, not even in the     *)
(* middle of a match.                                                       *)
THEOREM TouchCorrect == Spec => []TouchExact
<1>1. Spec => []TouchInvariant
  BY TouchInvariantInit, TouchInvariantNext, PTL DEF Spec
<1>2. TouchInvariant => TouchExact
  BY SummaryIsTouch, NowSound DEF TouchInvariant
<1> QED BY <1>1, <1>2, PTL
===============================================================================
