----------------------------- MODULE BookInvariant -----------------------------
(***************************************************************************)
(* What the queues of the book look like from one order at a time.  A walk *)
(* along a queue is a recursion; these facts about neighbours say as much, *)
(* and a step can be shown to keep them.                                   *)
(***************************************************************************)
EXTENDS OrderBook

OrdersAt(b, side, i) ==
  {s \in RestingSlots(b) : b.pool[s].side = side /\ b.pool[s].level = i}

(* The neighbour in front of an order points back at it, and an order with  *)
(* no neighbour in front is the head of its level; likewise behind, where   *)
(* the neighbour also arrived later.                                        *)
Linked(b) ==
  \A s \in RestingSlots(b) :
    LET o  == b.pool[s]
        lv == b.level[o.side][o.level]
    IN /\ IF o.prev = NoSlot THEN lv.head = s
          ELSE /\ o.prev \in OrdersAt(b, o.side, o.level)
               /\ b.pool[o.prev].next = s
       /\ IF o.next = NoSlot THEN lv.tail = s
          ELSE /\ o.next \in OrdersAt(b, o.side, o.level)
               /\ b.pool[o.next].prev = s
               /\ b.pool[o.next].seq > o.seq

(* Head and tail of a level are orders of that level with no neighbour on   *)
(* the outer side, and the level counts its orders.                         *)
EndsExact(b) ==
  \A side \in Side, i \in Index :
    LET lv == b.level[side][i]
    IN /\ lv.head # NoSlot => /\ lv.head \in OrdersAt(b, side, i)
                              /\ b.pool[lv.head].prev = NoSlot
       /\ lv.tail # NoSlot => /\ lv.tail \in OrdersAt(b, side, i)
                              /\ b.pool[lv.tail].next = NoSlot
       /\ lv.head = NoSlot <=> lv.tail = NoSlot
       /\ lv.count = Cardinality(OrdersAt(b, side, i))

(* Orders at rest have arrived before number n.                             *)
Arrived(b, n) == \A s \in RestingSlots(b) : b.pool[s].seq < n

Sound(b, reserved, n) ==
  Partitioned(b, reserved) /\ Linked(b) /\ EndsExact(b) /\ Arrived(b, n)

(* The bitmaps have a bit for each level with orders ...                    *)
BitsExact(b) ==
  \A side \in Side : b.bits[side] = {i \in Index : OrdersAt(b, side, i) # {}}

(* ... each cached best price is the extreme of its bitmap, or npos ...     *)
Extreme(bits, best, side) ==
  IF bits = {} THEN best = NPos
  ELSE best \in bits /\ \A i \in bits : ~ Better(side, i, best)

(* ... and no bid is at or above an offer.                                  *)
Uncrossed(bits) == \A i \in bits["Buy"], j \in bits["Sell"] : i < j

Summarised(b) ==
  /\ b.open = Cardinality(RestingSlots(b))
  /\ BitsExact(b)
  /\ \A side \in Side : Extreme(b.bits[side], b.best[side], side)
  /\ Uncrossed(b.bits)

(* The inductive invariant behind SlotsPartitioned: without the links       *)
(* nothing says that the order at the head of a level is a resting one.     *)
SlotInvariant == TypeOK /\ CallConsistent /\ Sound(book, ReservedSlots, nextSeq)

(* The inductive invariant behind TouchExact.                               *)
TouchInvariant == SlotInvariant /\ Summarised(book)

(* What a client knows of its order at rest: it goes by the handle of the   *)
(* slot it is in, stands at the price of its level, has something left of   *)
(* what it asked for, and arrived at a time of its own.                     *)
Genuine(b) ==
  /\ \A s \in RestingSlots(b) :
       LET o == b.pool[s]
       IN /\ o.id = IdFor(b, s)
          /\ o.price = ToPrice(o.level)
          /\ o.remaining > 0 /\ o.remaining <= o.qty
          /\ o.participant \in Participants
  /\ \A s, t \in RestingSlots(b) : b.pool[s].seq = b.pool[t].seq => s = t

(* What a call under way knows of its order: a limit order goes by the      *)
(* handle of its slot, and self-trade prevention stopped it in front of an  *)
(* order of its own.                                                        *)
TakerSound ==
  call.active =>
    /\ call.participant \in Participants
    /\ call.qty > 0
    /\ IF call.market THEN call.tif = "IOC" ELSE call.id = IdFor(book, call.slot)
    /\ call.stpCancelled => /\ call.remaining > 0
                            /\ Crosses /\ MakerSlot # NoSlot
                            /\ SelfTrade /\ stp = "CancelNewest"

(* The total of a level is the sum of what its orders offer, in one word.   *)
Remaining(b) == [s \in Slot |-> b.pool[s].remaining]

Total(b, side, i) == SumFunctionOnSet(Remaining(b), OrdersAt(b, side, i))

TotalsExact(b) ==
  \A side \in Side, i \in Index : b.level[side][i].qty = Total(b, side, i) % QtyMod

(* The inductive invariant behind the refinement and FillableExact.         *)
ClientInvariant == TouchInvariant /\ Genuine(book) /\ TakerSound

(* ... which needs the totals as well.                                      *)
TotalsInvariant == ClientInvariant /\ TotalsExact(book)
===============================================================================
