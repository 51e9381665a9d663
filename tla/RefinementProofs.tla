--------------------------- MODULE RefinementProofs ----------------------------
(***************************************************************************)
(* The matching engine implements the price-time priority book: for every  *)
(* ladder, pool, word width and input, each step of OrderBook is a step of *)
(* PriceTimeBook or none that a client could see.  And its queries answer  *)
(* what the orders at rest answer, those that add up levels as long as no  *)
(* total can reach the width of a word.                                    *)
(***************************************************************************)
EXTENDS OrderBookRefinement, BookQueries, OrderBookProofs, SequenceTheorems, FunctionTheorems

(* The order a client sees in a slot of a book.                             *)
Seen(b, s) ==
  LET o == b.pool[s]
  IN [id |-> o.id, side |-> o.side, price |-> o.price, qty |-> o.qty,
      remaining |-> o.remaining, participant |-> o.participant, seq |-> o.seq]

(* The same order, had it other quantities.                                 *)
SeenWith(b, s, qty, remaining) ==
  LET o == b.pool[s]
  IN [id |-> o.id, side |-> o.side, price |-> o.price, qty |-> qty,
      remaining |-> remaining, participant |-> o.participant, seq |-> o.seq]

(* The slots S show their clients the same, under the same handle.          *)
SameSeen(b, c, S) ==
  \A t \in S : Seen(c, t) = Seen(b, t) /\ c.gen[t] = b.gen[t]

(* All that clients of book b see.                                          *)
SeenIn(b) == {Seen(b, s) : s \in RestingSlots(b)}
-------------------------------------------------------------------------------
(* What each operation on a book does to the orders in it.                  *)

(* Unlinking changes links only.                                            *)
LEMMA UnlinkSeen ==
  ASSUME NEW b \in Book, NEW s \in Slot
  PROVE  SameSeen(b, Unlink(b, s), Slot)
<1> DEFINE o == b.pool[s]
           c == Unlink(b, s)
<1>1. ASSUME NEW t \in Slot PROVE Seen(c, t) = Seen(b, t)
  <2>1. b.pool[t] \in Order
    BY OrderType
  <2>2. c.pool[t] = IF t = s THEN [o EXCEPT !.prev = NoSlot, !.next = NoSlot]
                    ELSE [b.pool[t] EXCEPT !.next = IF t = o.prev THEN o.next ELSE @,
                                           !.prev = IF t = o.next THEN o.prev ELSE @]
    BY DEF Unlink, Book
  <2> QED BY <2>1, <2>2 DEF Order, Seen
<1>2. c.gen = b.gen
  BY DEF Unlink, Book
<1> QED BY <1>1, <1>2 DEF SameSeen

(* Freeing a slot changes that slot only, and not its generation.           *)
LEMMA FreeSeen ==
  ASSUME NEW b \in Book, NEW s \in Slot
  PROVE  /\ SameSeen(b, FreeSlot(b, s), Slot \ {s})
         /\ FreeSlot(b, s).gen = b.gen
<1> DEFINE c == FreeSlot(b, s)
<1>1. c.gen = b.gen
  BY DEF FreeSlot, Book
<1>2. c.pool = [b.pool EXCEPT ![s] = [b.pool[s] EXCEPT !.active = FALSE,
                                                      !.id = InvalidOrderId]]
  BY DEF FreeSlot, Book
<1>3. b.pool \in [Slot -> Order]
  BY DEF Book
<1> HIDE DEF c
<1>4. \A t \in Slot \ {s} : c.pool[t] = b.pool[t]
  BY <1>2, <1>3
<1> QED BY <1>1, <1>4 DEF SameSeen, Seen, c

(* Resetting an empty level changes no order.                               *)
LEMMA DropSeen ==
  ASSUME NEW b \in Book, NEW side \in Side, NEW idx \in Index
  PROVE  SameSeen(b, DropIfEmpty(b, side, idx), Slot)
         /\ DropIfEmpty(b, side, idx).gen = b.gen
<1> DEFINE c == DropIfEmpty(b, side, idx)
           r == [b EXCEPT !.level[side][idx] = EmptyLevel, !.bits[side] = @ \ {idx}]
<1>1. c.gen = b.gen
  <2>1. CASE b.level[side][idx].count # 0
    BY <2>1 DEF DropIfEmpty
  <2>2. CASE b.level[side][idx].count = 0
    <3>1. c = RefreshBest(r, side, idx)
      BY <2>2 DEF DropIfEmpty
    <3>2. r.gen = b.gen
      BY DEF Book
    <3>3. r \in [pool : {r.pool}, gen : {r.gen}, size : {r.size}, free : {r.free},
                 level : {r.level}, bits : {r.bits}, best : {r.best}, open : {r.open}]
      BY DEF Book
    <3> HIDE DEF c, r
    <3>4. \A x : [r EXCEPT !.best[side] = x].gen = r.gen
      BY <3>3
    <3> QED BY <3>1, <3>2, <3>4 DEF RefreshBest
  <2> QED BY <2>1, <2>2
<1>2. c.pool = b.pool
  BY DropShape
<1> HIDE DEF c
<1> QED BY <1>1, <1>2 DEF SameSeen, Seen, c

(* Removing an order changes that order only.                               *)
LEMMA RemoveSeen ==
  ASSUME NEW b \in Book, NEW s \in Slot
  PROVE  /\ SameSeen(b, RemoveOrder(b, s), Slot \ {s})
         /\ RemoveOrder(b, s).gen = b.gen
<1> DEFINE u == Unlink(b, s)
           f == FreeSlot(u, s)
           c == DropIfEmpty(f, b.pool[s].side, b.pool[s].level)
<1>1. b.pool[s].side \in Side /\ b.pool[s].level \in Index
  BY OrderType
<1>2. u \in Book /\ f \in Book
  BY <1>1, UnlinkType, FreeType
<1>3. c = RemoveOrder(b, s)
  BY DEF RemoveOrder
<1>4. SameSeen(b, u, Slot) /\ u.gen = b.gen
  BY UnlinkSeen DEF Unlink, Book
<1> HIDE DEF u
<1>5. SameSeen(u, f, Slot \ {s}) /\ f.gen = u.gen
  BY <1>2, FreeSeen
<1> HIDE DEF f
<1>6. SameSeen(f, c, Slot) /\ c.gen = f.gen
  BY <1>1, <1>2, DropSeen
<1> HIDE DEF c
<1> QED BY <1>3, <1>4, <1>5, <1>6 DEF SameSeen

(* A slot taken from the pool goes by a handle it did not have; the orders  *)
(* at rest stay as they are.                                                *)
LEMMA AllocSeen ==
  ASSUME NEW b \in Book, CanAlloc(b), Partitioned(b, {})
  PROVE  /\ AllocatedSlot(b) \notin RestingSlots(b)
         /\ RestingSlots(AllocSlot(b)) = RestingSlots(b)
         /\ SameSeen(b, AllocSlot(b), RestingSlots(b))
<1> DEFINE c == AllocSlot(b)
           s == AllocatedSlot(b)
<1>1. s \in Slot /\ c \in Book /\ Partitioned(c, {s}) /\ SameQueues(b, c)
  BY AllocType, AllocPartitioned
<1>2. RestingSlots(c) = RestingSlots(b) /\ s \notin RestingSlots(b)
  BY <1>1 DEF SameQueues, Partitioned
<1>3. \A t \in Slot \ {s} : c.pool[t] = b.pool[t] /\ c.gen[t] = b.gen[t]
  <2>1. b.pool \in [Slot -> Order] /\ b.gen \in [Slot -> Generation]
    BY DEF Book
  <2>2. CASE b.free # << >>
    <3>1. c.pool = b.pool /\ c.gen = [b.gen EXCEPT ![s] = (@ + 1) % GenMod]
      BY <2>2 DEF AllocSlot, Book
    <3> QED BY <2>1, <3>1
  <2>3. CASE b.free = << >>
    <3>1. s = b.size /\ c.pool = [b.pool EXCEPT ![b.size] = DefaultOrder]
          /\ c.gen = [b.gen EXCEPT ![b.size] = 1]
      BY <2>3 DEF AllocSlot, AllocatedSlot, Book
    <3> QED BY <2>1, <3>1
  <2> QED BY <2>2, <2>3
<1> HIDE DEF c, s
<1>4. SameSeen(b, c, RestingSlots(b))
  BY <1>2, <1>3 DEF SameSeen, Seen, RestingSlots
<1> QED BY <1>2, <1>4 DEF c, s

(* A resting order is what it was entered as; the others stay as they are.  *)
LEMMA RestSeen ==
  ASSUME NEW b \in Book, NEW s \in Slot, NEW o \in Order,
         o.price >= MinPrice, o.price <= MaxPrice
  PROVE  /\ SameSeen(b, RestOrder(b, s, o), Slot \ {s})
         /\ RestOrder(b, s, o).gen = b.gen
         /\ Seen(RestOrder(b, s, o), s) =
              [id |-> o.id, side |-> o.side, price |-> o.price, qty |-> o.qty,
               remaining |-> o.remaining, participant |-> o.participant, seq |-> o.seq]
<1> DEFINE c == RestOrder(b, s, o)
           idx == ToIndex(o.price)
           lv == b.level[o.side][idx]
           linked == [o EXCEPT !.level = idx, !.prev = lv.tail, !.next = NoSlot,
                               !.active = TRUE]
<1>1. c.gen = b.gen
  BY DEF RestOrder, Book
<1>2. \A t \in Slot : c.pool[t] = IF t = s THEN linked
                                ELSE IF t = lv.tail THEN [b.pool[t] EXCEPT !.next = s]
                                ELSE b.pool[t]
  BY DEF RestOrder, Book
<1> HIDE DEF c
<1>3. ASSUME NEW t \in Slot \ {s} PROVE Seen(c, t) = Seen(b, t)
  <2>1. b.pool[t] \in Order
    BY OrderType
  <2>2. c.pool[t] = IF t = lv.tail THEN [b.pool[t] EXCEPT !.next = s] ELSE b.pool[t]
    BY <1>2
  <2> HIDE DEF lv
  <2>3. CASE t = lv.tail
    BY <2>1, <2>2, <2>3 DEF Order, Seen
  <2>4. CASE t # lv.tail
    BY <2>2, <2>4 DEF Seen
  <2> QED BY <2>3, <2>4
<1>4. Seen(c, s) = [id |-> o.id, side |-> o.side, price |-> o.price, qty |-> o.qty,
                    remaining |-> o.remaining, participant |-> o.participant,
                    seq |-> o.seq]
  <2>1. c.pool[s] = linked
    BY <1>2
  <2> HIDE DEF lv, idx
  <2> QED BY <2>1 DEF Order, Seen
<1> QED BY <1>1, <1>3, <1>4 DEF SameSeen, c

(* New quantities change what is seen of one order, by just these.          *)
LEMMA RequantifySeen ==
  ASSUME NEW b \in Book, NEW c \in Book, NEW s \in Slot,
         NEW qty, NEW remaining, NEW total, NEW side \in Side, NEW i \in Index,
         c = Requantified(b, s, qty, remaining, side, i, total)
  PROVE  /\ SameSeen(b, c, Slot \ {s}) /\ SameOrders(b, c, Slot)
         /\ c.gen = b.gen
<1>1. /\ c.pool = [b.pool EXCEPT ![s] = [b.pool[s] EXCEPT
                                          !.qty = qty, !.remaining = remaining]]
      /\ b.pool \in [Slot -> Order] /\ c.gen = b.gen
  BY DEF Requantified, Book
<1>2. \A t \in Slot \ {s} : c.pool[t] = b.pool[t]
  BY <1>1
<1>3. c.pool[s] = [b.pool[s] EXCEPT !.qty = qty, !.remaining = remaining]
      /\ b.pool[s] \in Order
  BY <1>1
<1>4. SameOrders(b, c, Slot)
  BY <1>2, <1>3 DEF SameOrders, Order
<1> QED BY <1>1, <1>2, <1>4 DEF SameSeen, Seen

LEMMA RequantifiedSeen ==
  ASSUME NEW b \in Book, NEW s \in Slot, NEW qty, NEW remaining, NEW total, NEW side, NEW i
  PROVE  Seen(Requantified(b, s, qty, remaining, side, i, total), s) =
           SeenWith(b, s, qty, remaining)
<1> DEFINE c == Requantified(b, s, qty, remaining, side, i, total)
<1>1. /\ c.pool = [b.pool EXCEPT ![s] = [b.pool[s] EXCEPT
                                          !.qty = qty, !.remaining = remaining]]
      /\ b.pool \in [Slot -> Order]
  BY DEF Requantified, Book
<1> HIDE DEF c
<1>2. c.pool[s] = [b.pool[s] EXCEPT !.qty = qty, !.remaining = remaining]
      /\ b.pool[s] \in Order
  BY <1>1
<1>3. Seen(c, s) = SeenWith(b, s, qty, remaining)
  BY <1>2 DEF Order, Seen, SeenWith
<1> QED BY <1>3 DEF c

(* A fill takes its quantity off the maker, or takes the maker out.         *)
LEMMA FillSeen ==
  ASSUME NEW b \in Book, NEW s \in RestingSlots(b), NEW q \in Quantity,
         q <= b.pool[s].remaining, Linked(b), EndsExact(b)
  PROVE  LET c == FillMaker(b, s, q)
         IN /\ SameSeen(b, c, Slot \ {s}) /\ SameOrders(b, c, Slot \ {s})
            /\ c.gen = b.gen
            /\ IF b.pool[s].remaining = q THEN RestingSlots(c) = RestingSlots(b) \ {s}
               ELSE /\ RestingSlots(c) = RestingSlots(b)
                    /\ SameOrders(b, c, RestingSlots(b))
                    /\ Seen(c, s) = SeenWith(b, s, b.pool[s].qty, b.pool[s].remaining - q)
<1>1. PICK c \in Book :
           /\ c = Requantified(b, s, b.pool[s].qty, b.pool[s].remaining - q,
                               b.pool[s].side, b.pool[s].level,
                               QtySub(b.level[b.pool[s].side][b.pool[s].level].qty, q))
           /\ SamePool(b, c) /\ SameQueues(b, c)
           /\ FillMaker(b, s, q) = IF b.pool[s].remaining = q THEN RemoveOrder(c, s) ELSE c
  BY FillShape DEF RestingSlots
<1>2. s \in Slot /\ b.pool[s].side \in Side /\ b.pool[s].level \in Index
  BY OrderType DEF RestingSlots
<1>3. /\ SameSeen(b, c, Slot \ {s}) /\ SameOrders(b, c, Slot) /\ c.gen = b.gen
      /\ Seen(c, s) = SeenWith(b, s, b.pool[s].qty, b.pool[s].remaining - q)
  <2> DEFINE qty == b.pool[s].qty
             remaining == b.pool[s].remaining - q
             side == b.pool[s].side
             i == b.pool[s].level
             total == QtySub(b.level[side][i].qty, q)
  <2>1. c = Requantified(b, s, qty, remaining, side, i, total)
        /\ side \in Side /\ i \in Index
    BY <1>1, <1>2
  <2> HIDE DEF qty, remaining, side, i, total
  <2>2. SameSeen(b, c, Slot \ {s}) /\ SameOrders(b, c, Slot) /\ c.gen = b.gen
    BY <1>2, <2>1, RequantifySeen
  <2>3. Seen(c, s) = SeenWith(b, s, qty, remaining)
    BY <1>2, <2>1, RequantifiedSeen
  <2> QED BY <2>2, <2>3 DEF qty, remaining
<1>4. RestingSlots(c) = RestingSlots(b) /\ SameOrders(b, c, RestingSlots(b))
  BY <1>1 DEF SameQueues
<1>5. CASE b.pool[s].remaining = q
  <2>1. s \in RestingSlots(c) /\ Linked(c) /\ EndsExact(c)
    BY <1>1, <1>4, QueuesKept
  <2>2. /\ RemoveOrder(c, s) \in Book
        /\ SameOrders(c, RemoveOrder(c, s), Slot \ {s})
        /\ ~ RemoveOrder(c, s).pool[s].active
    BY <2>1, RemoveShape
  <2>3. RestingSlots(RemoveOrder(c, s)) = RestingSlots(c) \ {s}
    BY <2>1, <2>2, OrdersWithout
  <2>4. SameSeen(c, RemoveOrder(c, s), Slot \ {s}) /\ RemoveOrder(c, s).gen = c.gen
    BY <1>2, RemoveSeen
  <2>5. FillMaker(b, s, q) = RemoveOrder(c, s)
    BY <1>1, <1>5
  <2> QED BY <1>3, <1>4, <1>5, <2>2, <2>3, <2>4, <2>5 DEF SameSeen, SameOrders
<1>6. CASE b.pool[s].remaining # q
  <2>1. FillMaker(b, s, q) = c
    BY <1>1, <1>6
  <2> QED BY <1>3, <1>4, <1>6, <2>1 DEF SameOrders
<1> QED BY <1>5, <1>6
-------------------------------------------------------------------------------
(* Each operation keeps the orders at rest genuine.                         *)

(* Orders that stay as they are stay genuine.                               *)
LEMMA GenuineKept ==
  ASSUME NEW b \in Book, NEW c \in Book,
         RestingSlots(c) \subseteq RestingSlots(b),
         SameOrders(b, c, RestingSlots(c)), SameSeen(b, c, RestingSlots(c)),
         Genuine(b)
  PROVE  Genuine(c)
<1>1. ASSUME NEW s \in RestingSlots(c)
      PROVE  LET o == c.pool[s]
             IN /\ o.id = IdFor(c, s)
                /\ o.price = ToPrice(o.level)
                /\ o.remaining > 0 /\ o.remaining <= o.qty
                /\ o.participant \in Participants
                /\ o.seq = b.pool[s].seq
  <2> DEFINE o == b.pool[s]
             p == c.pool[s]
  <2>1. /\ o.id = IdFor(b, s)
        /\ o.price = ToPrice(o.level)
        /\ o.remaining > 0 /\ o.remaining <= o.qty
        /\ o.participant \in Participants
    BY DEF Genuine
  <2>2. p.level = o.level /\ Seen(c, s) = Seen(b, s) /\ c.gen[s] = b.gen[s]
    BY DEF SameOrders, SameSeen
  <2>3. /\ p.id = o.id /\ p.price = o.price /\ p.qty = o.qty /\ p.seq = o.seq
        /\ p.remaining = o.remaining /\ p.participant = o.participant
    BY <2>2 DEF Seen
  <2> QED BY <2>1, <2>2, <2>3 DEF IdFor
<1> QED BY <1>1 DEF Genuine

(* ... and those that stay when one is taken out.                           *)
LEMMA RemoveGenuine ==
  ASSUME NEW b \in Book, NEW s \in RestingSlots(b), Linked(b), EndsExact(b), Genuine(b)
  PROVE  Genuine(RemoveOrder(b, s))
<1> DEFINE c == RemoveOrder(b, s)
<1>1. c \in Book /\ SameOrders(b, c, Slot \ {s}) /\ ~ c.pool[s].active
  BY RemoveShape
<1>2. SameSeen(b, c, Slot \ {s})
  BY RemoveSeen DEF RestingSlots
<1> HIDE DEF c
<1>3. RestingSlots(c) = RestingSlots(b) \ {s}
  BY <1>1, OrdersWithout
<1>4. RestingSlots(c) \subseteq Slot \ {s}
  BY <1>3 DEF RestingSlots
<1>5. SameOrders(b, c, RestingSlots(c)) /\ SameSeen(b, c, RestingSlots(c))
  BY <1>1, <1>2, <1>4 DEF SameOrders, SameSeen
<1> QED BY <1>1, <1>3, <1>5, GenuineKept DEF c

LEMMA AllocGenuine ==
  ASSUME NEW b \in Book, CanAlloc(b), Partitioned(b, {}), Genuine(b)
  PROVE  Genuine(AllocSlot(b))
<1> DEFINE c == AllocSlot(b)
<1>1. /\ c \in Book /\ SameQueues(b, c) /\ RestingSlots(c) = RestingSlots(b)
      /\ SameSeen(b, c, RestingSlots(b))
  BY AllocType, AllocPartitioned, AllocSeen
<1> HIDE DEF c
<1>2. SameOrders(b, c, RestingSlots(c))
  BY <1>1 DEF SameQueues
<1> QED BY <1>1, <1>2, GenuineKept DEF c

LEMMA FreeGenuine ==
  ASSUME NEW b \in Book, NEW s \in Slot, s \notin RestingSlots(b), Genuine(b)
  PROVE  /\ RestingSlots(FreeSlot(b, s)) = RestingSlots(b)
         /\ SameSeen(b, FreeSlot(b, s), RestingSlots(b))
         /\ Genuine(FreeSlot(b, s))
<1> DEFINE c == FreeSlot(b, s)
<1>1. /\ c \in Book /\ SameOrders(b, c, Slot \ {s}) /\ ~ c.pool[s].active
      /\ SameSeen(b, c, Slot \ {s})
  BY FreeType, FreeShape, FreeSeen
<1> HIDE DEF c
<1>2. RestingSlots(c) = RestingSlots(b)
  BY <1>1 DEF RestingSlots, SameOrders
<1>3. RestingSlots(c) \subseteq Slot \ {s}
  BY <1>2 DEF RestingSlots
<1>4. SameOrders(b, c, RestingSlots(c)) /\ SameSeen(b, c, RestingSlots(c))
  BY <1>1, <1>3 DEF SameOrders, SameSeen
<1> QED BY <1>1, <1>2, <1>4, GenuineKept DEF c

(* New quantities of one order, for the rest of it.                         *)
LEMMA RequantifiedGenuine ==
  ASSUME NEW b \in Book, NEW c \in Book, NEW s \in RestingSlots(b),
         NEW qty \in Quantity, NEW remaining \in Quantity,
         RestingSlots(c) = RestingSlots(b), SameOrders(b, c, RestingSlots(b)),
         SameSeen(b, c, Slot \ {s}), c.gen = b.gen,
         Seen(c, s) = SeenWith(b, s, qty, remaining),
         remaining > 0, remaining <= qty, Genuine(b)
  PROVE  Genuine(c)
<1>1. ASSUME NEW t \in RestingSlots(c)
      PROVE  LET o == c.pool[t]
             IN /\ o.id = IdFor(c, t)
                /\ o.price = ToPrice(o.level)
                /\ o.remaining > 0 /\ o.remaining <= o.qty
                /\ o.participant \in Participants
                /\ o.seq = b.pool[t].seq
  <2> DEFINE o == b.pool[t]
             p == c.pool[t]
  <2>1. /\ o.id = IdFor(b, t)
        /\ o.price = ToPrice(o.level)
        /\ o.remaining > 0 /\ o.remaining <= o.qty
        /\ o.participant \in Participants
    BY DEF Genuine
  <2>2. p.level = o.level
    BY DEF SameOrders
  <2>3. CASE t = s
    BY <2>1, <2>2, <2>3 DEF Seen, SeenWith, IdFor
  <2>4. CASE t # s
    <3>1. Seen(c, t) = Seen(b, t)
      BY <2>4 DEF SameSeen, RestingSlots
    <3>2. /\ p.id = o.id /\ p.price = o.price /\ p.qty = o.qty /\ p.seq = o.seq
          /\ p.remaining = o.remaining /\ p.participant = o.participant
      BY <3>1 DEF Seen
    <3> QED BY <2>1, <2>2, <3>2 DEF IdFor
  <2> QED BY <2>3, <2>4
<1> QED BY <1>1 DEF Genuine

LEMMA FillGenuine ==
  ASSUME NEW b \in Book, NEW s \in RestingSlots(b), NEW q \in Quantity,
         q <= b.pool[s].remaining, Linked(b), EndsExact(b), Genuine(b)
  PROVE  Genuine(FillMaker(b, s, q))
<1> DEFINE c == FillMaker(b, s, q)
           left == b.pool[s].remaining - q
<1>1. s \in Slot /\ b.pool[s] \in Order
  BY OrderType DEF RestingSlots
<1>2. c \in Book
  BY <1>1, FillMakerType
<1>3. /\ SameSeen(b, c, Slot \ {s}) /\ SameOrders(b, c, Slot \ {s})
      /\ c.gen = b.gen
      /\ IF b.pool[s].remaining = q THEN RestingSlots(c) = RestingSlots(b) \ {s}
         ELSE /\ RestingSlots(c) = RestingSlots(b)
              /\ SameOrders(b, c, RestingSlots(b))
              /\ Seen(c, s) = SeenWith(b, s, b.pool[s].qty, left)
  BY FillSeen
<1> HIDE DEF c
<1>4. CASE b.pool[s].remaining = q
  <2>1. RestingSlots(c) = RestingSlots(b) \ {s}
    BY <1>3, <1>4
  <2>2. RestingSlots(c) \subseteq Slot \ {s}
    BY <2>1 DEF RestingSlots
  <2>3. SameOrders(b, c, RestingSlots(c)) /\ SameSeen(b, c, RestingSlots(c))
    BY <1>3, <2>2 DEF SameOrders, SameSeen
  <2> QED BY <1>2, <2>1, <2>3, GenuineKept DEF c
<1>5. CASE b.pool[s].remaining # q
  <2>1. left > 0 /\ left <= b.pool[s].qty /\ left \in Quantity
    <3>1. b.pool[s].remaining > 0 /\ b.pool[s].remaining <= b.pool[s].qty
      BY DEF Genuine
    <3>2. b.pool[s].remaining \in Quantity /\ b.pool[s].qty \in Quantity
      BY <1>1 DEF Order
    <3> QED BY <1>5, <3>1, <3>2, QtyLess DEF Quantity
  <2>2. b.pool[s].qty \in Quantity
    BY <1>1 DEF Order
  <2> HIDE DEF left
  <2> QED BY <1>2, <1>3, <1>5, <2>1, <2>2, RequantifiedGenuine DEF c
<1> QED BY <1>4, <1>5

(* An order comes to rest under the handle of its slot, later than any.     *)
LEMMA RestGenuine ==
  ASSUME NEW b \in Book, NEW s \in Slot, NEW o \in Order,
         o.price >= MinPrice, o.price <= MaxPrice, (o.price - MinPrice) % TickSize = 0,
         o.id = IdFor(b, s), o.remaining > 0, o.remaining <= o.qty,
         o.participant \in Participants,
         s \notin RestingSlots(b), Arrived(b, o.seq), Genuine(b)
  PROVE  /\ Genuine(RestOrder(b, s, o))
         /\ RestingSlots(RestOrder(b, s, o)) = RestingSlots(b) \cup {s}
<1> DEFINE c == RestOrder(b, s, o)
<1>1. /\ c \in Book /\ SameOrders(b, c, Slot \ {s}) /\ Appended(b, c, s, o)
      /\ SameSeen(b, c, Slot \ {s}) /\ c.gen = b.gen
  BY RestType, RestShape, RestSeen
<1>2. Seen(c, s) = [id |-> o.id, side |-> o.side, price |-> o.price, qty |-> o.qty,
                    remaining |-> o.remaining, participant |-> o.participant,
                    seq |-> o.seq]
  BY RestSeen
<1> HIDE DEF c
<1>3. RestingSlots(c) = RestingSlots(b) \cup {s}
  BY <1>1, OrdersWith
<1>4. ToPrice(ToIndex(o.price)) = o.price
  BY OnTick DEF Order
<1>5. LET p == c.pool[s]
      IN /\ p.id = IdFor(c, s)
         /\ p.price = ToPrice(p.level)
         /\ p.remaining > 0 /\ p.remaining <= p.qty
         /\ p.participant \in Participants
         /\ p.seq = o.seq
  <2>1. c.pool[s].level = ToIndex(o.price)
    BY <1>1 DEF Appended
  <2> QED BY <1>1, <1>2, <1>4, <2>1 DEF Seen, IdFor
<1>6. ASSUME NEW t \in RestingSlots(b)
      PROVE  LET p == c.pool[t]
             IN /\ p.id = IdFor(c, t)
                /\ p.price = ToPrice(p.level)
                /\ p.remaining > 0 /\ p.remaining <= p.qty
                /\ p.participant \in Participants
                /\ p.seq = b.pool[t].seq /\ p.seq < o.seq
  <2>1. t \in Slot \ {s}
    BY DEF RestingSlots
  <2>2. c.pool[t].level = b.pool[t].level /\ Seen(c, t) = Seen(b, t)
    BY <1>1, <2>1 DEF SameOrders, SameSeen
  <2>3. b.pool[t].seq < o.seq
    BY DEF Arrived
  <2> QED BY <1>1, <2>2, <2>3 DEF Seen, IdFor, Genuine
<1>7. o.seq \in Nat
  BY DEF Order
<1>8. \A t, u \in RestingSlots(c) : c.pool[t].seq = c.pool[u].seq => t = u
  <2> SUFFICES ASSUME NEW t \in RestingSlots(c), NEW u \in RestingSlots(c),
                      c.pool[t].seq = c.pool[u].seq
               PROVE  t = u
    OBVIOUS
  <2>1. \A v \in RestingSlots(b) : c.pool[v].seq # o.seq
    BY <1>6, <1>7
  <2>2. CASE t = s \/ u = s
    BY <1>3, <1>5, <2>1, <2>2
  <2>3. CASE t # s /\ u # s
    BY <1>3, <1>6, <2>3 DEF Genuine
  <2> QED BY <2>2, <2>3
<1>9. Genuine(c)
  BY <1>3, <1>5, <1>6, <1>8 DEF Genuine
<1> QED BY <1>3, <1>9 DEF c
-------------------------------------------------------------------------------
(* Each action keeps the orders genuine and the taker sound.                *)
ClientSound == Genuine(book) /\ TakerSound

LEMMA EnterLimitClient ==
  ASSUME ~ call.active, NEW b \in Book, Partitioned(b, {}), Genuine(b),
         NEW side \in Side, NEW price \in Int, NEW qty \in Quantity,
         NEW tif \in TimeInForce, NEW participant \in Participants,
         EnterLimit(b, side, price, qty, tif, participant)
  PROVE  ClientSound'
<1> DEFINE reason == LimitReject(b, side, price, qty, tif)
<1>1. CASE /\ reason # "None"
           /\ book' = b
           /\ Reject(reason, qty)
  BY <1>1 DEF Reject, ClientSound, TakerSound
<1>2. CASE /\ reason = "None"
           /\ CanAlloc(b)
           /\ book' = AllocSlot(b)
           /\ call' = Entered(b, FALSE, side, price, qty, tif, participant)
           /\ UNCHANGED <<stp, nextSeq, nextTradeSeq, trades, lastTrade, stats, result>>
  <2>1. Genuine(book')
    BY <1>2, AllocGenuine
  <2>2. qty > 0
    BY <1>2, AdmittedPrice DEF Quantity
  <2>3. /\ call'.participant = participant /\ call'.qty = qty /\ ~ call'.market
        /\ call'.id = IdFor(book', call'.slot) /\ ~ call'.stpCancelled
    BY <1>2 DEF Entered
  <2> QED BY <2>1, <2>2, <2>3 DEF ClientSound, TakerSound
<1> QED BY <1>1, <1>2 DEF EnterLimit

LEMMA SubmitMarketClient ==
  ASSUME ClientInvariant, NEW side \in Side, NEW qty \in Quantity,
         NEW participant \in Participants,
         SubmitMarket(side, qty, participant)
  PROVE  ClientSound'
<1> DEFINE reason == IF qty = 0 THEN "ZeroQuantity"
                     ELSE IF ~ HasBest(book, Opposite(side)) THEN "EmptyBook" ELSE "None"
<1>1. ~ call.active /\ book \in Book /\ Partitioned(book, {}) /\ Genuine(book)
  BY NowSound DEF SubmitMarket, MayEnter, ClientInvariant, TouchInvariant
<1>2. CASE book' = book /\ Reject(reason, qty)
  BY <1>1, <1>2 DEF Reject, ClientSound, TakerSound
<1>3. CASE /\ reason = "None"
           /\ CanAlloc(book)
           /\ book' = FreeSlot(AllocSlot(book), AllocatedSlot(book))
           /\ call' = Entered(book, TRUE, side, 0, qty, "IOC", participant)
  <2> DEFINE b == AllocSlot(book)
             s == AllocatedSlot(book)
  <2>1. b \in Book /\ s \in Slot /\ s \notin RestingSlots(b) /\ Genuine(b)
    BY <1>1, <1>3, AllocType, AllocSeen, AllocGenuine
  <2> HIDE DEF b, s
  <2>2. Genuine(book')
    BY <1>3, <2>1, FreeGenuine DEF b, s
  <2>3. qty > 0
    BY <1>3 DEF Quantity
  <2>4. /\ call'.participant = participant /\ call'.qty = qty /\ call'.market
        /\ call'.tif = "IOC" /\ ~ call'.stpCancelled
    BY <1>3 DEF Entered
  <2> QED BY <2>2, <2>3, <2>4 DEF ClientSound, TakerSound
<1> QED BY <1>2, <1>3 DEF SubmitMarket

(* A taker that goes on matching knows of itself what it knew.              *)
LEMMA TakerGoesOn ==
  ASSUME TypeOK, TakerSound, call.active, ~ call'.stpCancelled,
         book'.gen = book.gen,
         call'.participant = call.participant, call'.qty = call.qty,
         call'.market = call.market, call'.tif = call.tif, call'.id = call.id,
         call'.slot = call.slot
  PROVE  TakerSound'
<1>1. ~ call.market => call'.id = IdFor(book', call'.slot)
  BY DEF TakerSound, IdFor
<1> QED BY <1>1 DEF TakerSound

LEMMA PullMakerClient ==
  ASSUME ClientInvariant, PullMaker
  PROVE  ClientSound'
<1>1. /\ MakerSlot \in RestingSlots(book) /\ MakerSlot \in Slot
      /\ book \in Book /\ Linked(book) /\ EndsExact(book) /\ TypeOK
  BY MakerRests, NowSound DEF PullMaker, ClientInvariant, TouchInvariant, RestingSlots
<1>2. Genuine(book')
  BY <1>1, RemoveGenuine DEF PullMaker, ClientInvariant
<1>3. book'.gen = book.gen
  BY <1>1, RemoveSeen DEF PullMaker
<1>4. TakerSound'
  BY <1>1, <1>3, TakerGoesOn DEF PullMaker, Matching, ClientInvariant
<1> QED BY <1>2, <1>4 DEF ClientSound

(* What a fill trades, with whom, and what it leaves of the taker.          *)
LEMMA FillFacts ==
  ASSUME ClientInvariant, Fill
  PROVE  LET q == Smaller(call.remaining, Maker.remaining)
         IN /\ MakerSlot \in RestingSlots(book)
            /\ q \in Quantity /\ q > 0
            /\ q <= book.pool[MakerSlot].remaining /\ q <= call.remaining
            /\ book' = FillMaker(book, MakerSlot, q)
            /\ call' = [call EXCEPT !.remaining = @ - q, !.filled = @ + q,
                                    !.notional = @ + ToPrice(BestIndex) * q,
                                    !.lastPx = ToPrice(BestIndex)]
<1> DEFINE q == Smaller(call.remaining, Maker.remaining)
<1>1. MakerSlot \in RestingSlots(book) /\ MakerSlot \in Slot /\ Maker \in Order
  BY MakerRests, MakerType DEF Fill, ClientInvariant, TouchInvariant, SlotInvariant
<1>2. call.remaining \in Quantity /\ Maker.remaining \in Quantity
  BY <1>1 DEF ClientInvariant, TouchInvariant, SlotInvariant, TypeOK, Call, Order
<1>3. Maker.remaining > 0 /\ call.remaining > 0
  BY <1>1 DEF ClientInvariant, Genuine, Fill, Matching, Maker
<1>4. /\ q \in Quantity /\ q > 0
      /\ q <= book.pool[MakerSlot].remaining /\ q <= call.remaining
  BY <1>2, <1>3 DEF Smaller, Quantity, Maker
<1>5. /\ book' = FillMaker(book, MakerSlot, q)
      /\ call' = [call EXCEPT !.remaining = @ - q, !.filled = @ + q,
                              !.notional = @ + ToPrice(BestIndex) * q,
                              !.lastPx = ToPrice(BestIndex)]
  BY DEF Fill
<1> HIDE DEF q
<1> QED BY <1>1, <1>4, <1>5 DEF q

LEMMA FillClient ==
  ASSUME ClientInvariant, Fill
  PROVE  ClientSound'
<1> DEFINE q == Smaller(call.remaining, Maker.remaining)
           px == ToPrice(BestIndex)
<1>1. /\ MakerSlot \in RestingSlots(book)
      /\ q \in Quantity /\ q <= book.pool[MakerSlot].remaining
      /\ book' = FillMaker(book, MakerSlot, q)
  BY FillFacts
<1>2. call' = [call EXCEPT !.remaining = @ - q, !.filled = @ + q,
                           !.notional = @ + px * q, !.lastPx = px]
  BY DEF Fill
<1> HIDE DEF q, px
<1>3. book \in Book /\ Linked(book) /\ EndsExact(book) /\ TypeOK
  BY NowSound DEF ClientInvariant, TouchInvariant
<1>4. Genuine(book')
  BY <1>1, <1>3, FillGenuine DEF ClientInvariant
<1>5. book'.gen = book.gen
  BY <1>1, <1>3, FillSeen
<1>6. call.active /\ ~ call.stpCancelled /\ call \in Call
  BY <1>3 DEF Fill, Matching, TypeOK
<1>7. /\ call'.participant = call.participant /\ call'.qty = call.qty
      /\ call'.market = call.market /\ call'.tif = call.tif /\ call'.id = call.id
      /\ call'.slot = call.slot /\ ~ call'.stpCancelled
  BY <1>2, <1>6 DEF Call
<1>8. TakerSound'
  BY <1>3, <1>5, <1>6, <1>7, TakerGoesOn DEF ClientInvariant
<1> QED BY <1>4, <1>8 DEF ClientSound

LEMMA StopTakerClient ==
  ASSUME ClientInvariant, StopTaker
  PROVE  ClientSound'
<1>1. call \in Call
  BY DEF ClientInvariant, TouchInvariant, SlotInvariant, TypeOK
<1>2. /\ call'.active /\ call'.participant = call.participant /\ call'.qty = call.qty
      /\ call'.market = call.market /\ call'.tif = call.tif /\ call'.id = call.id
      /\ call'.slot = call.slot /\ call'.side = call.side /\ call'.price = call.price
      /\ call'.remaining = call.remaining
  BY <1>1 DEF StopTaker, Matching, Call
<1>3. book' = book /\ stp' = stp /\ call.active /\ call.remaining > 0
  BY DEF StopTaker, Matching
<1>4. MakerSide' = MakerSide
  BY <1>2 DEF MakerSide
<1>5. BestIndex' = BestIndex
  BY <1>3, <1>4 DEF BestIndex
<1>6. MakerSlot' = MakerSlot
  BY <1>3, <1>4, <1>5 DEF MakerSlot
<1>7. Crosses'
  BY <1>2, <1>3, <1>4, <1>5 DEF StopTaker, Matching, Crosses
<1>8. SelfTrade'
  BY <1>2, <1>3, <1>6 DEF StopTaker, SelfTrade, Maker
<1>9. MakerSlot' # NoSlot
  BY <1>6 DEF StopTaker, Matching
<1>10. TakerSound'
  BY <1>2, <1>3, <1>7, <1>8, <1>9 DEF ClientInvariant, TakerSound, StopTaker
<1> QED BY <1>3, <1>10 DEF ClientInvariant, ClientSound

LEMMA ReturnClient ==
  ASSUME ClientInvariant, ReturnFilled \/ ReturnKilled
  PROVE  ClientSound'
<1>1. ~ call'.active /\ call.active /\ ReleaseTaker
  <2>1. CASE ReturnFilled
    BY <2>1 DEF ReturnFilled, Return, Idle, Matched
  <2>2. CASE ReturnKilled
    BY <2>2 DEF ReturnKilled, Return, Idle, Matched
  <2> QED BY <2>1, <2>2
<1>2. /\ book \in Book /\ call.slot \in Slot
      /\ ~ call.market => call.slot \notin RestingSlots(book)
  BY <1>1, NowSound DEF ClientInvariant, TouchInvariant, Partitioned
<1>3. Genuine(book')
  BY <1>1, <1>2, FreeGenuine DEF ReleaseTaker, ClientInvariant
<1> QED BY <1>1, <1>3 DEF ClientSound, TakerSound

(* The order that comes to rest.                                            *)
LEMMA RestFacts ==
  ASSUME ClientInvariant, ReturnResting
  PROVE  LET o == [DefaultOrder EXCEPT
                     !.id = call.id, !.price = call.price, !.qty = call.qty,
                     !.remaining = call.remaining, !.seq = nextSeq,
                     !.participant = call.participant, !.side = call.side]
         IN /\ book' = RestOrder(book, call.slot, o)
            /\ o \in Order
            /\ o.id = call.id /\ o.price = call.price /\ o.qty = call.qty
            /\ o.remaining = call.remaining /\ o.seq = nextSeq
            /\ o.participant = call.participant /\ o.side = call.side
            /\ call.active /\ ~ call.market
            /\ o.price >= MinPrice /\ o.price <= MaxPrice
            /\ (o.price - MinPrice) % TickSize = 0
            /\ o.id = IdFor(book, call.slot)
            /\ o.remaining > 0 /\ o.remaining <= o.qty
            /\ o.participant \in Participants
            /\ call.slot \in Slot /\ call.slot \notin RestingSlots(book)
            /\ Arrived(book, o.seq)
<1> DEFINE o == [DefaultOrder EXCEPT
                   !.id = call.id, !.price = call.price, !.qty = call.qty,
                   !.remaining = call.remaining, !.seq = nextSeq,
                   !.participant = call.participant, !.side = call.side]
<1>1. /\ call.active /\ ~ call.market /\ call.remaining > 0
      /\ book' = RestOrder(book, call.slot, o)
  BY DEF ReturnResting, Matched, Rests
<1>2. o \in Order
  BY ConstantsType DEF ClientInvariant, TouchInvariant, SlotInvariant, TypeOK, Call, Order
<1>3. /\ o.id = call.id /\ o.price = call.price /\ o.qty = call.qty
      /\ o.remaining = call.remaining /\ o.seq = nextSeq
      /\ o.participant = call.participant /\ o.side = call.side
  BY DEF DefaultOrder
<1> HIDE DEF o
<1>4. /\ call.price >= MinPrice /\ call.price <= MaxPrice
      /\ (call.price - MinPrice) % TickSize = 0
      /\ call.filled + call.remaining = call.qty
  BY <1>1 DEF ClientInvariant, TouchInvariant, SlotInvariant, CallConsistent
<1>5. call.remaining <= call.qty
  <2>1. call.filled \in Quantity /\ call.remaining \in Quantity /\ call.qty \in Quantity
    BY DEF ClientInvariant, TouchInvariant, SlotInvariant, TypeOK, Call
  <2> QED BY <1>4, <2>1 DEF Quantity
<1>6. call.id = IdFor(book, call.slot) /\ call.participant \in Participants
  BY <1>1 DEF ClientInvariant, TakerSound
<1>7. call.slot \in Slot /\ call.slot \notin RestingSlots(book)
  BY <1>1, NowSound DEF ClientInvariant, TouchInvariant, Partitioned
<1>8. Arrived(book, nextSeq)
  BY DEF ClientInvariant, TouchInvariant, SlotInvariant, Sound
<1> QED BY <1>1, <1>2, <1>3, <1>4, <1>5, <1>6, <1>7, <1>8 DEF o

LEMMA ReturnRestingClient ==
  ASSUME ClientInvariant, ReturnResting
  PROVE  ClientSound'
<1> DEFINE o == [DefaultOrder EXCEPT
                   !.id = call.id, !.price = call.price, !.qty = call.qty,
                   !.remaining = call.remaining, !.seq = nextSeq,
                   !.participant = call.participant, !.side = call.side]
<1>1. /\ book' = RestOrder(book, call.slot, o)
      /\ o \in Order
      /\ o.price >= MinPrice /\ o.price <= MaxPrice
      /\ (o.price - MinPrice) % TickSize = 0
      /\ o.id = IdFor(book, call.slot)
      /\ o.remaining > 0 /\ o.remaining <= o.qty
      /\ o.participant \in Participants
      /\ call.slot \in Slot /\ call.slot \notin RestingSlots(book)
      /\ Arrived(book, o.seq)
  BY RestFacts
<1> HIDE DEF o
<1>2. book \in Book /\ Genuine(book)
  BY NowSound DEF ClientInvariant, TouchInvariant
<1>3. Genuine(book')
  BY <1>1, <1>2, RestGenuine
<1>4. ~ call'.active
  BY DEF ReturnResting, Return, Idle
<1> QED BY <1>3, <1>4 DEF ClientSound, TakerSound

(* An order that leaves the book by its id.                                 *)
LEMMA RemoveIdClient ==
  ASSUME ClientInvariant, NEW id \in OrderId, Resolve(book, id) # NoSlot
  PROVE  Genuine(RemoveOrder(book, id.slot))
BY ResolvedRests, NowSound, RemoveGenuine DEF ClientInvariant, TouchInvariant

(* The quantities a reduction leaves.                                       *)
LEMMA AmendDownFacts ==
  ASSUME ClientInvariant, NEW id \in OrderId, NEW newQty \in Quantity,
         AmendDown(id, newQty), book' \in Book
  PROVE  LET o         == book.pool[id.slot]
             remaining == QtySub(newQty, AlreadyFilled(id))
         IN /\ id.slot \in RestingSlots(book)
            /\ remaining = newQty - (o.qty - o.remaining)
            /\ remaining \in Quantity /\ remaining > 0 /\ remaining <= o.remaining
            /\ remaining <= newQty
            /\ newQty = o.qty - (o.remaining - remaining)
            /\ SameSeen(book, book', Slot \ {id.slot}) /\ SameOrders(book, book', Slot)
            /\ book'.gen = book.gen
            /\ RestingSlots(book') = RestingSlots(book)
            /\ Seen(book', id.slot) = SeenWith(book, id.slot, newQty, remaining)
<1> DEFINE s == id.slot
           o == book.pool[s]
           remaining == QtySub(newQty, AlreadyFilled(id))
           side == o.side
           i == o.level
           total == QtySub(book.level[side][i].qty, o.remaining - remaining)
<1>1. /\ ~ call.active /\ Resolve(book, id) # NoSlot
      /\ newQty > AlreadyFilled(id) /\ remaining <= o.remaining
  BY DEF AmendDown
<1>2. s \in RestingSlots(book) /\ s \in Slot /\ book \in Book /\ TypeOK
  BY <1>1, ResolvedRests, NowSound DEF ClientInvariant, TouchInvariant, RestingSlots
<1>3. o \in Order /\ side \in Side /\ i \in Index /\ o.qty \in Quantity
      /\ o.remaining \in Quantity
  <2>1. o \in Order /\ side \in Side /\ i \in Index
    BY <1>2, OrderType
  <2> QED BY <2>1 DEF Order
<1>4. o.remaining > 0 /\ o.remaining <= o.qty
  BY <1>2 DEF ClientInvariant, Genuine
<1>5. AlreadyFilled(id) = o.qty - o.remaining /\ AlreadyFilled(id) \in Quantity
  <2>1. o.qty - o.remaining \in Quantity
    BY <1>3, <1>4, QtyLess
  <2>2. AlreadyFilled(id) = (o.qty - o.remaining) % QtyMod
    BY DEF AlreadyFilled, QtySub
  <2> HIDE DEF o
  <2> QED BY <2>1, <2>2, WidthAssumption DEF Quantity
<1>6. remaining = newQty - (o.qty - o.remaining) /\ remaining \in Quantity
  <2>1. newQty - AlreadyFilled(id) \in Quantity
    BY <1>1, <1>5, QtyLess DEF Quantity
  <2>2. remaining = (newQty - AlreadyFilled(id)) % QtyMod
    BY DEF QtySub
  <2> HIDE DEF o, remaining
  <2> QED BY <1>5, <2>1, <2>2, WidthAssumption DEF Quantity
<1>7. remaining > 0 /\ remaining <= newQty /\ newQty = o.qty - (o.remaining - remaining)
  <2> HIDE DEF o, remaining
  <2> QED BY <1>1, <1>3, <1>4, <1>5, <1>6 DEF Quantity
<1>8. /\ book' = Requantified(book, s, newQty, remaining, side, i, total)
      /\ SameQueues(book, book')
  BY <1>2, AmendDownShape
<1>9. /\ SameSeen(book, book', Slot \ {s}) /\ SameOrders(book, book', Slot)
      /\ book'.gen = book.gen
      /\ Seen(book', s) = SeenWith(book, s, newQty, remaining)
  <2>1. s \in Slot /\ book \in Book /\ side \in Side /\ i \in Index
        /\ book' = Requantified(book, s, newQty, remaining, side, i, total)
    BY <1>2, <1>3, <1>8
  <2> HIDE DEF s, remaining, side, i, total, o
  <2>2. SameSeen(book, book', Slot \ {s}) /\ SameOrders(book, book', Slot)
        /\ book'.gen = book.gen
    BY <2>1, RequantifySeen
  <2>3. Seen(book', s) = SeenWith(book, s, newQty, remaining)
    BY <2>1, RequantifiedSeen
  <2> QED BY <2>2, <2>3
<1>10. RestingSlots(book') = RestingSlots(book)
  BY <1>8 DEF SameQueues
<1> QED BY <1>1, <1>2, <1>6, <1>7, <1>9, <1>10

LEMMA AmendDownClient ==
  ASSUME ClientInvariant, NEW id \in OrderId, NEW newQty \in Quantity,
         AmendDown(id, newQty), book' \in Book
  PROVE  ClientSound'
<1> DEFINE s == id.slot
           remaining == QtySub(newQty, AlreadyFilled(id))
<1>1. /\ s \in RestingSlots(book)
      /\ remaining \in Quantity /\ remaining > 0 /\ remaining <= newQty
      /\ SameSeen(book, book', Slot \ {s}) /\ SameOrders(book, book', Slot)
      /\ book'.gen = book.gen
      /\ RestingSlots(book') = RestingSlots(book)
      /\ Seen(book', s) = SeenWith(book, s, newQty, remaining)
  BY AmendDownFacts
<1> HIDE DEF s, remaining
<1>2. SameOrders(book, book', RestingSlots(book))
  BY <1>1 DEF SameOrders, RestingSlots
<1>3. Genuine(book')
  BY <1>1, <1>2, NowSound, RequantifiedGenuine DEF ClientInvariant, TouchInvariant
<1>4. ~ call'.active
  BY DEF AmendDown
<1> QED BY <1>3, <1>4 DEF ClientSound, TakerSound

LEMMA AmendUpClient ==
  ASSUME ClientInvariant, NEW id \in OrderId, NEW newQty \in Quantity, AmendUp(id, newQty)
  PROVE  ClientSound'
<1> DEFINE b == RemoveOrder(book, id.slot)
           o == book.pool[id.slot]
           newRemaining == QtySub(newQty, AlreadyFilled(id))
<1>1. ~ call.active /\ Resolve(book, id) # NoSlot
  BY DEF AmendUp, MayEnter
<1>2. id.slot \in RestingSlots(book) /\ id.slot \in Slot /\ book \in Book /\ TypeOK
  BY <1>1, ResolvedRests, NowSound DEF ClientInvariant, TouchInvariant, RestingSlots
<1>3. b \in Book /\ Genuine(b) /\ Partitioned(b, {})
  BY <1>1, <1>2, RemoveType, RemoveIdClient, RemoveIdSound
  DEF ClientInvariant, TouchInvariant, Sound
<1>4. o.side \in Side /\ o.price \in Int /\ o.participant \in Participants
  BY <1>2, OrderType DEF Order, ClientInvariant, Genuine
<1>5. newRemaining \in Quantity
  BY <1>2, AmendedQtyType
<1>6. EnterLimit(b, o.side, o.price, newRemaining, "GTC", o.participant)
  BY DEF AmendUp
<1>7. "GTC" \in TimeInForce
  BY DEF TimeInForce
<1> HIDE DEF b, o, newRemaining
<1> QED BY <1>1, <1>3, <1>4, <1>5, <1>6, <1>7, EnterLimitClient

LEMMA ClientInvariantInit == Init => ClientInvariant
<1> SUFFICES ASSUME Init PROVE ClientInvariant
  OBVIOUS
<1>1. RestingSlots(book) = {}
  BY DEF Init, FreshBook, RestingSlots, DefaultOrder
<1>2. ~ call.active
  BY DEF Init, Idle
<1> QED BY <1>1, <1>2, TouchInvariantInit DEF ClientInvariant, Genuine, TakerSound

LEMMA ClientInvariantNext == ClientInvariant /\ [Next]_vars => ClientInvariant'
<1> SUFFICES ASSUME ClientInvariant, [Next]_vars PROVE ClientInvariant'
  OBVIOUS
<1> USE InputAssumption
<1>1. TouchInvariant'
  BY TouchInvariantNext DEF ClientInvariant
<1>2. book \in Book /\ book' \in Book /\ Genuine(book) /\ TakerSound
      /\ (~ call.active => Partitioned(book, {}))
  BY <1>1, NowSound DEF ClientInvariant, TouchInvariant, SlotInvariant, TypeOK
<1>3. ASSUME NEW side \in Side, NEW price \in Prices, NEW qty \in Quantities,
             NEW tif \in Tifs, NEW participant \in Participants,
             SubmitLimit(side, price, qty, tif, participant)
      PROVE  ClientSound'
  BY <1>2, <1>3, EnterLimitClient DEF SubmitLimit, MayEnter
<1>4. ASSUME NEW side \in Side, NEW qty \in Quantities, NEW participant \in Participants,
             SubmitMarket(side, qty, participant)
      PROVE  ClientSound'
  BY <1>4, SubmitMarketClient
<1>5. ASSUME MatchStep PROVE ClientSound'
  BY <1>5, StopTakerClient, PullMakerClient, FillClient DEF MatchStep
<1>6. ASSUME ReturnStep PROVE ClientSound'
  BY <1>6, ReturnClient, ReturnRestingClient DEF ReturnStep
<1>7. ASSUME NEW id \in OrderId, CancelLive(id) PROVE ClientSound'
  <2>1. Genuine(book')
    BY <1>7, RemoveIdClient DEF CancelLive
  <2> QED BY <1>7, <2>1 DEF CancelLive, ClientSound, TakerSound
<1>8. ASSUME NEW id \in OrderId, NEW newQty \in Quantities, AmendToCancel(id, newQty)
      PROVE  ClientSound'
  <2>1. Genuine(book')
    BY <1>8, RemoveIdClient DEF AmendToCancel
  <2> QED BY <1>8, <2>1 DEF AmendToCancel, ClientSound, TakerSound
<1>9. ASSUME NEW id \in OrderId, NEW newQty \in Quantities, AmendDown(id, newQty)
      PROVE  ClientSound'
  BY <1>2, <1>9, AmendDownClient
<1>10. ASSUME NEW id \in OrderId, NEW newQty \in Quantities, AmendUp(id, newQty)
       PROVE  ClientSound'
  BY <1>10, AmendUpClient
<1>11. ASSUME Clear PROVE ClientSound'
  <2>1. RestingSlots(book') = {}
    BY <1>11 DEF Clear, FreshBook, RestingSlots, DefaultOrder
  <2> QED BY <1>11, <2>1 DEF Clear, ClientSound, Genuine, TakerSound
<1>12. ASSUME ~ call.active, UNCHANGED <<book, call>> PROVE ClientSound'
  BY <1>2, <1>12 DEF ClientSound, TakerSound
<1>13. ASSUME UNCHANGED vars PROVE ClientSound'
  <2>1. book' = book /\ call' = call /\ stp' = stp
    BY <1>13 DEF vars
  <2>2. Crosses' = Crosses /\ MakerSlot' = MakerSlot /\ SelfTrade' = SelfTrade
    BY <2>1 DEF Crosses, MakerSlot, SelfTrade, Maker, MakerSide, BestIndex
  <2> QED BY <1>2, <2>1, <2>2 DEF ClientSound, TakerSound
<1>14. ClientSound'
  BY <1>3, <1>4, <1>5, <1>6, <1>7, <1>8, <1>9, <1>10, <1>11, <1>12, <1>13
  DEF Next, EngineStep, CancelUnknown, AmendUnknown, SetSelfTradePrevention, ClearTrades
<1> QED BY <1>1, <1>14 DEF ClientInvariant, ClientSound
-------------------------------------------------------------------------------
(* The order at the head of the best level is the one with priority.        *)

(* A higher rung of the ladder is a higher price.                           *)
LEMMA RungOrder ==
  ASSUME NEW i \in Int, NEW j \in Int, i < j
  PROVE  ToPrice(i) < ToPrice(j)
<1>1. TickSize \in Int /\ TickSize > 0 /\ MinPrice \in Int
  BY BandAssumption
<1>2. (j - i) * TickSize > 0
  BY <1>1
<1>3. j * TickSize = i * TickSize + (j - i) * TickSize
  BY <1>1
<1>4. i * TickSize \in Int /\ j * TickSize \in Int
  BY <1>1
<1> QED BY <1>1, <1>2, <1>3, <1>4 DEF ToPrice

(* An order at rest is in reach of the taker.                               *)
Reached(s) ==
  /\ s \in RestingSlots(book)
  /\ book.pool[s].side = MakerSide
  /\ call.market \/ WithinLimit(call.side, book.pool[s].price, call.price)

LEMMA MakersSeen ==
  PriceTime!Makers(ClientTaker) = {Seen(book, s) : s \in {t \in Slot : Reached(t)}}
<1>1. \A s : ClientOrder(s) = Seen(book, s)
  BY DEF ClientOrder, Seen
<1>2. \A s : Seen(book, s).side = book.pool[s].side /\ Seen(book, s).price = book.pool[s].price
  BY DEF Seen
<1>3. /\ ClientTaker.side = call.side /\ ClientTaker.market = call.market
      /\ ClientTaker.price = call.price
  BY DEF ClientTaker
<1>4. \A s \in RestingSlots(book) :
        Reached(s) <=> /\ ClientOrder(s).side = Opposite(ClientTaker.side)
                       /\ PriceTime!InReach(ClientTaker, ClientOrder(s).price)
  BY <1>1, <1>2, <1>3 DEF Reached, WithinLimit, PriceTime!InReach, MakerSide
<1>5. PriceTime!Makers(ClientTaker) =
        {o \in {ClientOrder(s) : s \in RestingSlots(book)} :
           /\ o.side = Opposite(ClientTaker.side)
           /\ PriceTime!InReach(ClientTaker, o.price)}
  BY DEF PriceTime!Makers, PriceTime!Opposite, Opposite
<1> QED BY <1>1, <1>4, <1>5 DEF Reached, RestingSlots

(* Nothing is in reach once the best price is out of the taker's limit.     *)
LEMMA NoneReached ==
  ASSUME ClientInvariant, call.active, ~ Crosses
  PROVE  \A s \in Slot : ~ Reached(s)
<1> SUFFICES ASSUME NEW s \in Slot, Reached(s) PROVE FALSE
  OBVIOUS
<1> DEFINE i == book.pool[s].level
           j == BestIndex
<1>1. book \in Book /\ call \in Call /\ MakerSide \in Side
  BY DEF ClientInvariant, TouchInvariant, SlotInvariant, TypeOK, Call, MakerSide, Opposite, Side
<1>2. i \in Index /\ i \in book.bits[MakerSide]
  BY <1>1 DEF ClientInvariant, TouchInvariant, Summarised, BitsExact, OrdersAt, Reached,
              Book, Order
<1>3. j \in book.bits[MakerSide] /\ ~ Better(MakerSide, i, j)
  BY <1>1, <1>2 DEF ClientInvariant, TouchInvariant, Summarised, Extreme, BestIndex
<1>4. j \in Index
  BY <1>1, <1>3 DEF Book
<1>5. HasBest(book, MakerSide)
  BY <1>4 DEF HasBest, BestIndex, Index, NPos
<1>6. ~ call.market /\ ~ WithinLimit(call.side, ToPrice(j), call.price)
  BY <1>5 DEF Crosses
<1>7. WithinLimit(call.side, ToPrice(i), call.price)
  BY <1>6 DEF Reached, ClientInvariant, Genuine
<1>8. /\ i \in Int /\ j \in Int /\ call.price \in Int
      /\ ToPrice(i) \in Int /\ ToPrice(j) \in Int
  <2>1. i \in Int /\ j \in Int /\ call.price \in Int
    BY <1>1, <1>2, <1>4 DEF Index, Call
  <2> QED BY <2>1, BandAssumption DEF ToPrice
<1>9. i < j => ToPrice(i) < ToPrice(j)
  BY <1>8, RungOrder
<1>10. j < i => ToPrice(j) < ToPrice(i)
  BY <1>8, RungOrder
<1> HIDE DEF i, j
<1>11. CASE call.side = "Buy"
  <2>1. i >= j
    BY <1>3, <1>8, <1>11 DEF MakerSide, Opposite, Better
  <2>2. ToPrice(j) <= ToPrice(i)
    BY <2>1, <1>8, <1>10
  <2> QED BY <2>2, <1>6, <1>7, <1>8, <1>11 DEF WithinLimit
<1>12. CASE call.side # "Buy"
  <2>1. i <= j
    BY <1>3, <1>8, <1>12 DEF MakerSide, Opposite, Better
  <2>2. ToPrice(i) <= ToPrice(j)
    BY <2>1, <1>8, <1>9
  <2> QED BY <2>2, <1>6, <1>7, <1>8, <1>12 DEF WithinLimit
<1> QED BY <1>11, <1>12

(* The head of a queue is the first of its orders to arrive.                *)
LEMMA HeadIsEarliest ==
  ASSUME NEW b \in Book, NEW side \in Side, NEW i \in Index,
         Linked(b), EndsExact(b), Genuine(b), OrdersAt(b, side, i) # {}
  PROVE  /\ b.level[side][i].head \in OrdersAt(b, side, i)
         /\ \A t \in OrdersAt(b, side, i) :
              t # b.level[side][i].head => b.pool[b.level[side][i].head].seq < b.pool[t].seq
<1> DEFINE At  == OrdersAt(b, side, i)
           seqs == {b.pool[t].seq : t \in At}
<1>1. \A t \in At : /\ t \in RestingSlots(b) /\ t \in Slot /\ b.pool[t].seq \in Nat
                    /\ b.pool[t].side = side /\ b.pool[t].level = i
  BY DEF OrdersAt, RestingSlots, Book, Order
<1>2. seqs \in SUBSET Nat /\ seqs # {}
  BY <1>1
<1>3. PICK n \in seqs : \A k \in seqs : n <= k
  BY <1>2, LeastExists
<1>4. PICK m \in At : b.pool[m].seq = n
  BY <1>3
<1>5. \A t \in At : b.pool[m].seq <= b.pool[t].seq
  BY <1>3, <1>4
<1>6. b.pool[m].prev = NoSlot
  <2> SUFFICES ASSUME b.pool[m].prev # NoSlot PROVE FALSE
    OBVIOUS
  <2> DEFINE p == b.pool[m].prev
  <2>1. p \in At /\ b.pool[p].next = m
    BY <1>1 DEF Linked
  <2>2. b.pool[p].next # NoSlot
    BY <2>1, <1>1 DEF Slot, NoSlot
  <2>3. b.pool[m].seq > b.pool[p].seq
    BY <2>1, <2>2, <1>1 DEF Linked
  <2> QED BY <2>1, <2>3, <1>1, <1>5
<1>7. b.level[side][i].head = m
  BY <1>1, <1>6 DEF Linked
<1>8. \A t \in At : t # m => b.pool[m].seq < b.pool[t].seq
  BY <1>1, <1>5 DEF Genuine
<1> QED BY <1>7, <1>8

(* While the best price is within the limit there is an order at its head,  *)
(* and it goes before every other order in reach.                           *)
LEMMA HeadHasPriority ==
  ASSUME ClientInvariant, call.active, Crosses
  PROVE  /\ MakerSlot \in Slot /\ Reached(MakerSlot)
         /\ \A t \in Slot \ {MakerSlot} :
              Reached(t) => PriceTime!HasPriority(Seen(book, MakerSlot), Seen(book, t))
<1> DEFINE j == BestIndex
           h == MakerSlot
<1>1. book \in Book /\ call \in Call /\ MakerSide \in Side /\ Genuine(book)
  BY DEF ClientInvariant, TouchInvariant, SlotInvariant, TypeOK, Call, MakerSide, Opposite, Side
<1>2. j \in book.bits[MakerSide] /\ \A i \in book.bits[MakerSide] : ~ Better(MakerSide, i, j)
  BY <1>1 DEF ClientInvariant, TouchInvariant, Summarised, Extreme, BestIndex, Crosses, HasBest
<1>3. j \in Index /\ OrdersAt(book, MakerSide, j) # {}
  BY <1>1, <1>2 DEF ClientInvariant, TouchInvariant, Summarised, BitsExact, Book
<1>4. /\ h \in OrdersAt(book, MakerSide, j)
      /\ \A t \in OrdersAt(book, MakerSide, j) :
           t # h => book.pool[h].seq < book.pool[t].seq
  <2>1. Linked(book) /\ EndsExact(book)
    BY NowSound DEF ClientInvariant, TouchInvariant
  <2>2. h = book.level[MakerSide][j].head
    BY DEF MakerSlot
  <2> HIDE DEF h, j
  <2> QED BY <2>1, <2>2, <1>1, <1>3, HeadIsEarliest
<1>5. /\ h \in Slot /\ h \in RestingSlots(book)
      /\ book.pool[h].side = MakerSide /\ book.pool[h].level = j
      /\ book.pool[h].price = ToPrice(j)
  BY <1>1, <1>4 DEF OrdersAt, RestingSlots, Genuine
<1>6. Reached(h)
  BY <1>5 DEF Reached, Crosses
<1>7. ASSUME NEW t \in Slot, t # h, Reached(t)
      PROVE  PriceTime!HasPriority(Seen(book, h), Seen(book, t))
  <2> DEFINE i == book.pool[t].level
  <2>1. /\ t \in RestingSlots(book) /\ book.pool[t].side = MakerSide
        /\ book.pool[t].price = ToPrice(i) /\ i \in Index
        /\ t \in OrdersAt(book, MakerSide, i)
    BY <1>1, <1>7 DEF Reached, Genuine, OrdersAt, Book, Order
  <2>2. i \in book.bits[MakerSide]
    BY <1>1, <2>1 DEF ClientInvariant, TouchInvariant, Summarised, BitsExact
  <2>3. ~ Better(MakerSide, i, j)
    BY <1>2, <2>2
  <2>4. /\ Seen(book, h).side = MakerSide /\ Seen(book, t).side = MakerSide
        /\ Seen(book, h).price = ToPrice(j) /\ Seen(book, t).price = ToPrice(i)
        /\ Seen(book, h).seq = book.pool[h].seq /\ Seen(book, t).seq = book.pool[t].seq
    BY <1>5, <2>1 DEF Seen
  <2>5. i \in Int /\ j \in Int
    BY <1>3, <2>1 DEF Index
  <2> HIDE DEF i, j, h
  <2>6. CASE i = j
    <3>1. book.pool[h].seq < book.pool[t].seq
      BY <1>4, <1>7, <2>1, <2>6
    <3> QED BY <3>1, <2>4, <2>6 DEF PriceTime!HasPriority
  <2>7. CASE i < j
    <3>1. MakerSide = "Buy"
      BY <2>3, <2>5, <2>7 DEF Better
    <3>2. ToPrice(i) < ToPrice(j) /\ ToPrice(i) \in Int /\ ToPrice(j) \in Int
      BY <2>5, <2>7, RungOrder, BandAssumption DEF ToPrice
    <3> QED BY <3>1, <3>2, <2>4 DEF PriceTime!HasPriority
  <2>8. CASE j < i
    <3>1. MakerSide # "Buy"
      BY <2>3, <2>5, <2>8 DEF Better
    <3>2. ToPrice(j) < ToPrice(i) /\ ToPrice(i) \in Int /\ ToPrice(j) \in Int
      BY <2>5, <2>8, RungOrder, BandAssumption DEF ToPrice
    <3> QED BY <3>1, <3>2, <2>4 DEF PriceTime!HasPriority
  <2> QED BY <2>5, <2>6, <2>7, <2>8
<1> QED BY <1>5, <1>6, <1>7

(* So it is the order the price-time priority book would trade with.        *)
LEMMA FirstIsHead ==
  ASSUME ClientInvariant, call.active, Crosses
  PROVE  /\ PriceTime!First(PriceTime!Makers(ClientTaker)) = Seen(book, MakerSlot)
         /\ PriceTime!Makers(ClientTaker) # {}
<1> DEFINE S == {Seen(book, t) : t \in {t \in Slot : Reached(t)}}
           h == Seen(book, MakerSlot)
           Leads(o) == \A p \in S \ {o} : PriceTime!HasPriority(o, p)
<1>1. MakerSlot \in Slot /\ Reached(MakerSlot) /\ h \in S
  BY HeadHasPriority
<1>2. Leads(h)
  BY HeadHasPriority
<1>3. \A o \in S : o.side = h.side /\ o.price \in Int /\ o.seq \in Nat
  <2>1. \A t \in Slot : /\ Seen(book, t).side = book.pool[t].side
                        /\ Seen(book, t).price = book.pool[t].price
                        /\ Seen(book, t).seq = book.pool[t].seq
    BY DEF Seen
  <2>2. \A t \in Slot : book.pool[t].price \in Int /\ book.pool[t].seq \in Nat
    BY DEF ClientInvariant, TouchInvariant, SlotInvariant, TypeOK, Book, Order
  <2> QED BY <1>1, <2>1, <2>2 DEF Reached
<1> HIDE DEF S, h
<1>4. \A o \in S : Leads(o) => o = h
  <2> SUFFICES ASSUME NEW o \in S, Leads(o), o # h PROVE FALSE
    OBVIOUS
  <2>1. PriceTime!HasPriority(o, h) /\ PriceTime!HasPriority(h, o)
    BY <1>1, <1>2
  <2> QED BY <2>1, <1>1, <1>3 DEF PriceTime!HasPriority
<1>5. PriceTime!First(S) = CHOOSE o \in S : Leads(o)
  BY DEF PriceTime!First
<1> HIDE DEF Leads
<1>6. PriceTime!First(S) = h
  BY <1>1, <1>2, <1>4, <1>5
<1> QED BY <1>1, <1>6, MakersSeen DEF S, h
-------------------------------------------------------------------------------
(* What an operation changes in the set of orders a client sees.            *)

LEMMA OrdersSeen ==
  /\ {ClientOrder(s) : s \in RestingSlots(book)} = SeenIn(book)
  /\ {ClientOrder(s) : s \in RestingSlots(book)}' = SeenIn(book')
<1>1. \A s : ClientOrder(s) = Seen(book, s) /\ ClientOrder(s)' = Seen(book', s)
  BY DEF ClientOrder, Seen
<1> QED BY <1>1 DEF SeenIn, RestingSlots

LEMMA SeenKept ==
  ASSUME NEW b, NEW c, RestingSlots(c) = RestingSlots(b), SameSeen(b, c, RestingSlots(b))
  PROVE  SeenIn(c) = SeenIn(b)
BY DEF SeenIn, SameSeen

LEMMA SeenRemoved ==
  ASSUME NEW b, NEW c, NEW s \in RestingSlots(b), Genuine(b),
         RestingSlots(c) = RestingSlots(b) \ {s}, SameSeen(b, c, Slot \ {s})
  PROVE  SeenIn(c) = SeenIn(b) \ {Seen(b, s)}
<1>1. \A t \in RestingSlots(c) : Seen(c, t) = Seen(b, t)
  BY DEF SameSeen, RestingSlots
<1>2. \A t \in RestingSlots(b) : Seen(b, t) = Seen(b, s) => t = s
  <2>1. \A t : Seen(b, t).seq = b.pool[t].seq
    BY DEF Seen
  <2> QED BY <2>1 DEF Genuine
<1> QED BY <1>1, <1>2 DEF SeenIn

LEMMA SeenChanged ==
  ASSUME NEW b, NEW c, NEW s \in RestingSlots(b), Genuine(b),
         RestingSlots(c) = RestingSlots(b), SameSeen(b, c, Slot \ {s})
  PROVE  SeenIn(c) = (SeenIn(b) \ {Seen(b, s)}) \cup {Seen(c, s)}
<1>1. \A t \in RestingSlots(c) \ {s} : Seen(c, t) = Seen(b, t)
  BY DEF SameSeen, RestingSlots
<1>2. \A t \in RestingSlots(b) : Seen(b, t) = Seen(b, s) => t = s
  <2>1. \A t : Seen(b, t).seq = b.pool[t].seq
    BY DEF Seen
  <2> QED BY <2>1 DEF Genuine
<1> QED BY <1>1, <1>2 DEF SeenIn

LEMMA SeenAdded ==
  ASSUME NEW b, NEW c, NEW s \in Slot, s \notin RestingSlots(b),
         RestingSlots(c) = RestingSlots(b) \cup {s}, SameSeen(b, c, Slot \ {s})
  PROVE  SeenIn(c) = SeenIn(b) \cup {Seen(c, s)}
<1>1. \A t \in RestingSlots(b) : Seen(c, t) = Seen(b, t)
  BY DEF SameSeen, RestingSlots
<1> QED BY <1>1 DEF SeenIn
-------------------------------------------------------------------------------
(* Every step of the engine is a step of the price-time priority book.      *)

(* Neither the orders nor the taker change in the eyes of a client.         *)
LEMMA TakerUnchanged ==
  ASSUME call'.active = call.active, call'.market = call.market, call'.id = call.id,
         call'.side = call.side, call'.price = call.price, call'.qty = call.qty,
         call'.remaining = call.remaining, call'.tif = call.tif,
         call'.participant = call.participant
  PROVE  ClientTaker' = ClientTaker
BY DEF ClientTaker

LEMMA Stutters ==
  ASSUME UNCHANGED <<book, call, stp, nextSeq, trades>>
  PROVE  UNCHANGED PriceTime!vars
<1>1. ClientTaker' = ClientTaker /\ ClientTape' = ClientTape
  BY DEF ClientTaker, ClientTape
<1>2. {ClientOrder(s) : s \in RestingSlots(book)}' = {ClientOrder(s) : s \in RestingSlots(book)}
  BY OrdersSeen
<1> QED BY <1>1, <1>2 DEF PriceTime!vars

LEMMA TradingIsCrossing ==
  ASSUME ClientInvariant, call.active, call.remaining > 0
  PROVE  PriceTime!Trading <=> Crosses
<1>1. ClientTaker.active /\ ClientTaker.remaining > 0
  BY DEF ClientTaker
<1>2. CASE Crosses
  BY <1>1, <1>2, FirstIsHead DEF PriceTime!Trading
<1>3. CASE ~ Crosses
  <2>1. PriceTime!Makers(ClientTaker) = {}
    BY <1>3, NoneReached, MakersSeen
  <2> QED BY <1>3, <2>1 DEF PriceTime!Trading
<1> QED BY <1>2, <1>3

LEMMA SelfTradeSeen ==
  ASSUME ClientInvariant, call.active, Crosses
  PROVE  PriceTime!SelfTrade(PriceTime!First(PriceTime!Makers(ClientTaker))) <=> SelfTrade
<1>1. PriceTime!First(PriceTime!Makers(ClientTaker)).participant = Maker.participant
  BY FirstIsHead DEF Seen, Maker
<1>2. ClientTaker.participant = call.participant
  BY DEF ClientTaker
<1> QED BY <1>1, <1>2 DEF PriceTime!SelfTrade, SelfTrade, PriceTime!Anonymous, Anonymous

LEMMA StopTakerStutters ==
  ASSUME ClientInvariant, StopTaker
  PROVE  UNCHANGED PriceTime!vars
<1>1. call \in Call
  BY DEF ClientInvariant, TouchInvariant, SlotInvariant, TypeOK
<1>2. ClientTaker' = ClientTaker
  <2>1. /\ call'.active = call.active /\ call'.market = call.market /\ call'.id = call.id
        /\ call'.side = call.side /\ call'.price = call.price /\ call'.qty = call.qty
        /\ call'.remaining = call.remaining /\ call'.tif = call.tif
        /\ call'.participant = call.participant
    BY <1>1 DEF StopTaker, Call
  <2> QED BY <2>1, TakerUnchanged
<1>3. /\ {ClientOrder(s) : s \in RestingSlots(book)}' = {ClientOrder(s) : s \in RestingSlots(book)}
      /\ ClientTape' = ClientTape
  BY OrdersSeen DEF StopTaker, ClientTape
<1> QED BY <1>2, <1>3 DEF PriceTime!vars, StopTaker

(* The order a client gives up, or loses, is gone from the orders it sees.  *)
LEMMA RemovedSeen ==
  ASSUME ClientInvariant, NEW s \in RestingSlots(book)
  PROVE  SeenIn(RemoveOrder(book, s)) = SeenIn(book) \ {Seen(book, s)}
<1>1. /\ book \in Book /\ Linked(book) /\ EndsExact(book) /\ Genuine(book) /\ s \in Slot
  BY NowSound DEF ClientInvariant, TouchInvariant, RestingSlots
<1>2. /\ RestingSlots(RemoveOrder(book, s)) = RestingSlots(book) \ {s}
      /\ SameSeen(book, RemoveOrder(book, s), Slot \ {s})
  <2>1. /\ RemoveOrder(book, s) \in Book /\ ~ RemoveOrder(book, s).pool[s].active
        /\ SameOrders(book, RemoveOrder(book, s), Slot \ {s})
    BY <1>1, RemoveShape
  <2>2. RestingSlots(RemoveOrder(book, s)) = RestingSlots(book) \ {s}
    BY <1>1, <2>1, OrdersWithout
  <2> QED BY <1>1, <2>2, RemoveSeen
<1> QED BY <1>1, <1>2, SeenRemoved

LEMMA PullMakerPulls ==
  ASSUME ClientInvariant, PullMaker
  PROVE  PriceTime!Pull
<1>1. call.active /\ call.remaining > 0 /\ Crosses /\ SelfTrade
  BY DEF PullMaker, Matching
<1>2. PriceTime!Trading
  BY <1>1, TradingIsCrossing
<1>3. PriceTime!SelfTrade(PriceTime!First(PriceTime!Makers(ClientTaker)))
  BY <1>1, SelfTradeSeen
<1>4. SeenIn(book') = SeenIn(book) \ {Seen(book, MakerSlot)}
  BY MakerRests, RemovedSeen DEF PullMaker, ClientInvariant, TouchInvariant
<1>5. {ClientOrder(s) : s \in RestingSlots(book)}' =
        {ClientOrder(s) : s \in RestingSlots(book)}
          \ {PriceTime!First(PriceTime!Makers(ClientTaker))}
  BY <1>1, <1>4, OrdersSeen, FirstIsHead
<1>6. UNCHANGED <<ClientTaker, stp, nextSeq, ClientTape>>
  BY DEF PullMaker, ClientTaker, ClientTape
<1> QED BY <1>2, <1>3, <1>5, <1>6 DEF PriceTime!Pull, PullMaker

(* The tape a client reads grows by what is printed on the tape.            *)
LEMMA TapeAppended ==
  ASSUME trades \in Seq(Trade), NEW t \in Trade, trades' = Append(trades, t)
  PROVE  ClientTape' = Append(ClientTape, [taker |-> t.taker, maker |-> t.maker,
                                           price |-> t.price, qty |-> t.qty,
                                           side |-> t.side])
<1> DEFINE Shown(u) == [taker |-> u.taker, maker |-> u.maker, price |-> u.price,
                        qty |-> u.qty, side |-> u.side]
           Line == {Shown(u) : u \in Trade}
           n    == Len(trades)
<1>1. n \in Nat /\ DOMAIN trades = 1 .. n /\ \A k \in 1 .. n : trades[k] \in Trade
  OBVIOUS
<1>2. /\ DOMAIN trades' = 1 .. n + 1
      /\ \A k \in 1 .. n : trades'[k] = trades[k]
      /\ trades'[n + 1] = t
  OBVIOUS
<1>3. ClientTape = [k \in 1 .. n |-> Shown(trades[k])]
  BY <1>1 DEF ClientTape
<1>4. ClientTape' = [k \in 1 .. n + 1 |-> Shown(trades'[k])]
  BY <1>2 DEF ClientTape
<1> HIDE DEF Shown, n
<1>5. ClientTape \in Seq(Line) /\ Len(ClientTape) = n
  <2>1. \A k \in 1 .. n : Shown(trades[k]) \in Line
    BY <1>1
  <2>2. ClientTape \in [1 .. n -> Line]
    BY <1>3, <2>1
  <2> QED BY <1>1, <2>2
<1>6. /\ Append(ClientTape, Shown(t)) \in Seq(Line)
      /\ Len(Append(ClientTape, Shown(t))) = n + 1
      /\ \A k \in 1 .. n + 1 : Append(ClientTape, Shown(t))[k] =
                              IF k = n + 1 THEN Shown(t) ELSE ClientTape[k]
  <2>1. Shown(t) \in Line
    OBVIOUS
  <2> QED BY <1>1, <1>5, <2>1
<1>7. \A k \in 1 .. n + 1 :
        Shown(trades'[k]) = IF k = n + 1 THEN Shown(t) ELSE ClientTape[k]
  BY <1>1, <1>2, <1>3
<1>8. ClientTape' \in Seq(Line) /\ Len(ClientTape') = n + 1
  <2>1. \A k \in 1 .. n + 1 : trades'[k] \in Trade
    BY <1>1, <1>2
  <2>2. ClientTape' \in [1 .. n + 1 -> Line]
    BY <1>4, <2>1
  <2> QED BY <1>1, <2>2
<1>9. ClientTape' = Append(ClientTape, Shown(t))
  <2> HIDE DEF Line
  <2>1. \A k \in 1 .. n + 1 : ClientTape'[k] = Append(ClientTape, Shown(t))[k]
    BY <1>4, <1>6, <1>7
  <2> QED BY <1>6, <1>8, <2>1, SeqEqual
<1> QED BY <1>9 DEF Shown

(* An order that trades is what it was, less what it traded.                *)
LEMMA FilledSeen ==
  ASSUME NEW b \in Book, NEW s \in RestingSlots(b), NEW q \in Quantity,
         q <= b.pool[s].remaining, Linked(b), EndsExact(b), Genuine(b)
  PROVE  SeenIn(FillMaker(b, s, q)) =
           (SeenIn(b) \ {Seen(b, s)}) \cup
           (IF Seen(b, s).remaining = q THEN {}
            ELSE {[Seen(b, s) EXCEPT !.remaining = @ - q]})
<1> DEFINE c == FillMaker(b, s, q)
           o == Seen(b, s)
<1>1. /\ SameSeen(b, c, Slot \ {s}) /\ SameOrders(b, c, Slot \ {s})
      /\ c.gen = b.gen
      /\ IF b.pool[s].remaining = q THEN RestingSlots(c) = RestingSlots(b) \ {s}
         ELSE /\ RestingSlots(c) = RestingSlots(b)
              /\ SameOrders(b, c, RestingSlots(b))
              /\ Seen(c, s) = SeenWith(b, s, b.pool[s].qty, b.pool[s].remaining - q)
  BY FillSeen
<1>2. SeenWith(b, s, b.pool[s].qty, b.pool[s].remaining - q) = [o EXCEPT !.remaining = @ - q]
  BY DEF SeenWith, Seen
<1>3. o.remaining = b.pool[s].remaining
  BY DEF Seen
<1> HIDE DEF c
<1>4. CASE b.pool[s].remaining = q
  <2>1. SeenIn(c) = SeenIn(b) \ {Seen(b, s)}
    BY <1>1, <1>4, SeenRemoved
  <2> QED BY <1>3, <1>4, <2>1 DEF c
<1>5. CASE b.pool[s].remaining # q
  <2>1. SeenIn(c) = (SeenIn(b) \ {Seen(b, s)}) \cup {Seen(c, s)}
    BY <1>1, <1>5, SeenChanged
  <2> QED BY <1>1, <1>2, <1>3, <1>5, <2>1 DEF c
<1> QED BY <1>4, <1>5

LEMMA FillExecutes ==
  ASSUME ClientInvariant, Fill
  PROVE  PriceTime!Execute
<1> DEFINE q  == Smaller(call.remaining, Maker.remaining)
           px == ToPrice(BestIndex)
           h  == MakerSlot
           o  == Seen(book, h)
<1>1. call.active /\ call.remaining > 0 /\ Crosses /\ ~ SelfTrade
  BY DEF Fill, Matching
<1>2. /\ book \in Book /\ Linked(book) /\ EndsExact(book) /\ Genuine(book) /\ call \in Call
      /\ trades \in Seq(Trade)
  BY NowSound DEF ClientInvariant, TouchInvariant, TypeOK
<1>3. /\ h \in RestingSlots(book) /\ h \in Slot
      /\ q \in Quantity /\ q <= book.pool[h].remaining
      /\ book' = FillMaker(book, h, q)
  BY FillFacts DEF RestingSlots
<1>4. /\ call' = [call EXCEPT !.remaining = @ - q, !.filled = @ + q,
                              !.notional = @ + px * q, !.lastPx = px]
      /\ trades' = Append(trades, [seq |-> nextTradeSeq, taker |-> call.id,
                                   maker |-> Maker.id, price |-> px, qty |-> q,
                                   side |-> call.side])
      /\ UNCHANGED <<stp, nextSeq>>
  BY DEF Fill
<1>5. /\ o.remaining = book.pool[h].remaining /\ o.id = Maker.id
      /\ o.price = book.pool[h].price /\ Maker = book.pool[h]
  BY DEF Seen, Maker
<1>6. /\ o.price = px
      /\ q = Smaller(o.remaining, call.remaining)
  <2>1. book.pool[h].level = BestIndex
    <3>1. BestIndex \in Index /\ MakerSide \in Side
      BY MakerType DEF Fill, ClientInvariant, TouchInvariant, SlotInvariant
    <3> QED BY <1>2, <3>1 DEF EndsExact, OrdersAt, MakerSlot, Fill, Matching
  <2>2. call.remaining \in Int /\ Maker.remaining \in Int
    BY <1>2, <1>3 DEF Book, Order, Call, Quantity, Maker
  <2> QED BY <1>2, <1>3, <1>5, <2>1, <2>2 DEF Genuine, Smaller
<1>7. /\ PriceTime!Trading
      /\ PriceTime!First(PriceTime!Makers(ClientTaker)) = o
      /\ ~ PriceTime!SelfTrade(o)
  <2>1. PriceTime!Trading
    BY <1>1, TradingIsCrossing
  <2>2. PriceTime!First(PriceTime!Makers(ClientTaker)) = o
    BY <1>1, FirstIsHead
  <2> QED BY <1>1, <2>1, <2>2, SelfTradeSeen
<1> HIDE DEF q, px, h
<1>8. SeenIn(book') = (SeenIn(book) \ {o}) \cup
                      (IF o.remaining = q THEN {} ELSE {[o EXCEPT !.remaining = @ - q]})
  BY <1>2, <1>3, FilledSeen
<1> HIDE DEF o
<1>9. ClientTaker' = [ClientTaker EXCEPT !.remaining = @ - q]
  BY <1>2, <1>4 DEF ClientTaker, Call
<1>10. ClientTape' = Append(ClientTape, [taker |-> call.id, maker |-> o.id,
                                         price |-> o.price, qty |-> q, side |-> call.side])
  <2> DEFINE t == [seq |-> nextTradeSeq, taker |-> call.id, maker |-> Maker.id,
                   price |-> px, qty |-> q, side |-> call.side]
  <2>1. t \in Trade
    <3>1. nextTradeSeq \in Nat /\ Maker.id \in OrderId /\ px \in Int
      BY MakerType DEF Fill, ClientInvariant, TouchInvariant, SlotInvariant, TypeOK, Order, px
    <3> QED BY <1>2, <1>3, <3>1 DEF Trade, Call
  <2>2. /\ t.taker = call.id /\ t.maker = o.id /\ t.price = o.price
        /\ t.qty = q /\ t.side = call.side
    BY <1>5, <1>6
  <2>3. trades' = Append(trades, t)
    BY <1>4
  <2> HIDE DEF t
  <2>4. ClientTape' = Append(ClientTape, [taker |-> t.taker, maker |-> t.maker,
                               price |-> t.price, qty |-> t.qty, side |-> t.side])
    BY <1>2, <2>1, <2>3, TapeAppended
  <2> QED BY <2>2, <2>4
<1>11. /\ ClientTaker.id = call.id /\ ClientTaker.side = call.side
       /\ ClientTaker.remaining = call.remaining
  BY DEF ClientTaker
<1>12. PriceTime!Smaller(o.remaining, call.remaining) = q
  BY <1>6 DEF Smaller, PriceTime!Smaller
<1>13. {ClientOrder(s) : s \in RestingSlots(book)}' =
         ({ClientOrder(s) : s \in RestingSlots(book)} \ {o}) \cup
         (IF o.remaining = q THEN {} ELSE {[o EXCEPT !.remaining = @ - q]})
  BY <1>8, OrdersSeen
<1> QED BY <1>4, <1>7, <1>9, <1>10, <1>11, <1>12, <1>13 DEF PriceTime!Execute

LEMMA NoTakerSeen ==
  ASSUME call' = Idle
  PROVE  ClientTaker' = PriceTime!NoTaker
BY DEF ClientTaker, Idle, PriceTime!NoTaker, PriceTime!InvalidOrderId, InvalidOrderId,
       PriceTime!MakeHandle, MakeHandle

(* A taker that is filled, killed or stopped leaves, and nothing it could   *)
(* still trade with is left behind.                                         *)
LEMMA ReturnLeaves ==
  ASSUME ClientInvariant, ReturnFilled \/ ReturnKilled
  PROVE  PriceTime!Leave
<1>1. /\ call.active /\ ReleaseTaker /\ call' = Idle
      /\ call.remaining = 0 \/ call.stpCancelled \/ ~ Crosses
      /\ UNCHANGED <<stp, nextSeq, trades>>
      /\ call.remaining > 0 => ~ Rests
  <2>1. CASE ReturnFilled
    BY <2>1 DEF ReturnFilled, Return, Matched
  <2>2. CASE ReturnKilled
    BY <2>2 DEF ReturnKilled, Return, Matched
  <2> QED BY <2>1, <2>2
<1>2. /\ ClientTaker.active = call.active /\ ClientTaker.remaining = call.remaining
      /\ ClientTaker.market = call.market /\ ClientTaker.tif = call.tif
  BY DEF ClientTaker
<1>3. SeenIn(book') = SeenIn(book)
  <2>1. /\ book \in Book /\ call.slot \in Slot /\ Genuine(book)
        /\ ~ call.market => call.slot \notin RestingSlots(book)
    BY <1>1, NowSound DEF ClientInvariant, TouchInvariant, Partitioned
  <2>2. CASE call.market
    BY <1>1, <2>2 DEF ReleaseTaker
  <2>3. CASE ~ call.market
    <3>1. /\ book' = FreeSlot(book, call.slot)
          /\ RestingSlots(FreeSlot(book, call.slot)) = RestingSlots(book)
          /\ SameSeen(book, FreeSlot(book, call.slot), RestingSlots(book))
      BY <1>1, <2>1, <2>3, FreeGenuine DEF ReleaseTaker
    <3> QED BY <3>1, SeenKept
  <2> QED BY <2>2, <2>3
<1>4. call.stpCancelled => PriceTime!Stopped
  <2> SUFFICES ASSUME call.stpCancelled PROVE PriceTime!Stopped
    OBVIOUS
  <2>1. call.remaining > 0 /\ Crosses /\ SelfTrade /\ stp = "CancelNewest"
    BY <1>1 DEF ClientInvariant, TakerSound
  <2> QED BY <1>1, <2>1, TradingIsCrossing, SelfTradeSeen DEF PriceTime!Stopped
<1>5. ~ PriceTime!Trading \/ PriceTime!Stopped
  <2>1. CASE call.remaining = 0
    BY <1>2, <2>1 DEF PriceTime!Trading
  <2>2. CASE call.stpCancelled
    BY <1>4, <2>2
  <2>3. CASE ~ Crosses
    BY <1>1, <2>3, NoneReached, MakersSeen DEF PriceTime!Trading
  <2> QED BY <1>1, <2>1, <2>2, <2>3
<1>6. call.remaining > 0 => call.market \/ call.tif # "GTC" \/ PriceTime!Stopped
  BY <1>1, <1>4 DEF Rests
<1>7. ClientTape' = ClientTape /\ ClientTaker' = PriceTime!NoTaker
  BY <1>1, NoTakerSeen DEF ClientTape
<1>8. {ClientOrder(s) : s \in RestingSlots(book)}' = {ClientOrder(s) : s \in RestingSlots(book)}
  BY <1>3, OrdersSeen
<1> QED BY <1>1, <1>2, <1>5, <1>6, <1>7, <1>8 DEF PriceTime!Leave

(* What is left of a limit order rests only when nothing is in its reach.   *)
LEMMA ReturnRestingRests ==
  ASSUME ClientInvariant, ReturnResting
  PROVE  PriceTime!Rest
<1> DEFINE o == [DefaultOrder EXCEPT
                   !.id = call.id, !.price = call.price, !.qty = call.qty,
                   !.remaining = call.remaining, !.seq = nextSeq,
                   !.participant = call.participant, !.side = call.side]
           new == [id |-> call.id, side |-> call.side, price |-> call.price,
                   qty |-> call.qty, remaining |-> call.remaining,
                   participant |-> call.participant, seq |-> nextSeq]
<1>1. /\ call.active /\ call.remaining > 0 /\ ~ call.market /\ call.tif = "GTC"
      /\ ~ Crosses /\ call' = Idle /\ nextSeq' = nextSeq + 1
      /\ UNCHANGED <<stp, trades>>
  <2>1. call.remaining \in Int
    BY DEF ClientInvariant, TouchInvariant, SlotInvariant, TypeOK, Call, Quantity
  <2> QED BY <2>1 DEF ReturnResting, Return, Matched, Rests
<1>2. /\ ClientTaker.active = call.active /\ ClientTaker.remaining = call.remaining
      /\ ClientTaker.market = call.market /\ ClientTaker.tif = call.tif
      /\ ClientTaker.id = call.id /\ ClientTaker.side = call.side
      /\ ClientTaker.price = call.price /\ ClientTaker.qty = call.qty
      /\ ClientTaker.participant = call.participant
  BY DEF ClientTaker
<1>3. SeenIn(book') = SeenIn(book) \cup {new}
  <2>1. /\ book' = RestOrder(book, call.slot, o)
        /\ o \in Order
        /\ o.id = call.id /\ o.price = call.price /\ o.qty = call.qty
        /\ o.remaining = call.remaining /\ o.seq = nextSeq
        /\ o.participant = call.participant /\ o.side = call.side
        /\ o.price >= MinPrice /\ o.price <= MaxPrice
        /\ (o.price - MinPrice) % TickSize = 0
        /\ o.id = IdFor(book, call.slot)
        /\ o.remaining > 0 /\ o.remaining <= o.qty
        /\ o.participant \in Participants
        /\ call.slot \in Slot /\ call.slot \notin RestingSlots(book)
        /\ Arrived(book, o.seq)
    BY RestFacts
  <2> HIDE DEF o
  <2>2. book \in Book /\ Genuine(book)
    BY NowSound DEF ClientInvariant, TouchInvariant
  <2>3. /\ RestingSlots(book') = RestingSlots(book) \cup {call.slot}
        /\ SameSeen(book, book', Slot \ {call.slot})
        /\ Seen(book', call.slot) =
             [id |-> o.id, side |-> o.side, price |-> o.price, qty |-> o.qty,
              remaining |-> o.remaining, participant |-> o.participant, seq |-> o.seq]
    BY <2>1, <2>2, RestSeen, RestGenuine
  <2> QED BY <2>1, <2>3, SeenAdded
<1> HIDE DEF o, new
<1>4. ~ PriceTime!Trading
  BY <1>1, TradingIsCrossing
<1>5. ClientTape' = ClientTape /\ ClientTaker' = PriceTime!NoTaker
  BY <1>1, NoTakerSeen DEF ClientTape
<1>6. {ClientOrder(s) : s \in RestingSlots(book)}' =
        {ClientOrder(s) : s \in RestingSlots(book)} \cup {new}
  BY <1>3, OrdersSeen
<1> QED BY <1>1, <1>2, <1>4, <1>5, <1>6 DEF PriceTime!Rest, new

LEMMA RemovalCancels ==
  ASSUME ClientInvariant, ~ call.active, NEW id \in OrderId,
         Resolve(book, id) # NoSlot, book' = RemoveOrder(book, id.slot),
         UNCHANGED <<call, stp, nextSeq, trades>>
  PROVE  PriceTime!Cancel
<1>1. id.slot \in RestingSlots(book)
  BY ResolvedRests DEF ClientInvariant, TouchInvariant
<1>2. SeenIn(book') = SeenIn(book) \ {Seen(book, id.slot)}
  BY <1>1, RemovedSeen
<1>3. Seen(book, id.slot) \in SeenIn(book)
  BY <1>1 DEF SeenIn
<1>4. \E o \in {ClientOrder(s) : s \in RestingSlots(book)} :
        {ClientOrder(s) : s \in RestingSlots(book)}' =
          {ClientOrder(s) : s \in RestingSlots(book)} \ {o}
  BY <1>2, <1>3, OrdersSeen
<1>5. ~ ClientTaker.active /\ ClientTaker' = ClientTaker /\ ClientTape' = ClientTape
  BY DEF ClientTaker, ClientTape
<1> QED BY <1>4, <1>5 DEF PriceTime!Cancel

(* A reduction in place keeps price and arrival, whatever had been filled.  *)
LEMMA AmendDownReduces ==
  ASSUME ClientInvariant, NEW id \in OrderId, NEW newQty \in Quantity,
         AmendDown(id, newQty), book' \in Book
  PROVE  PriceTime!Reduce
<1> DEFINE s == id.slot
           o == Seen(book, s)
           r == QtySub(newQty, AlreadyFilled(id))
           p == [o EXCEPT !.remaining = r, !.qty = @ - (o.remaining - r)]
<1>1. /\ s \in RestingSlots(book)
      /\ r \in Quantity /\ r > 0 /\ r <= book.pool[s].remaining
      /\ newQty = book.pool[s].qty - (book.pool[s].remaining - r)
      /\ SameSeen(book, book', Slot \ {s})
      /\ RestingSlots(book') = RestingSlots(book)
      /\ Seen(book', s) = SeenWith(book, s, newQty, r)
  BY AmendDownFacts
<1> HIDE DEF r
<1>2. o.remaining = book.pool[s].remaining /\ o.qty = book.pool[s].qty
  BY DEF Seen
<1>3. SeenWith(book, s, newQty, r) = p
  <2> DEFINE w == [o EXCEPT !.remaining = r]
  <2>1. w = SeenWith(book, s, book.pool[s].qty, r)
    BY DEF Seen, SeenWith
  <2>2. p = [w EXCEPT !.qty = newQty]
    BY <1>1, <1>2 DEF Seen
  <2> HIDE DEF w, p, o, s
  <2>3. [w EXCEPT !.qty = newQty] = SeenWith(book, s, newQty, r)
    BY <2>1 DEF SeenWith
  <2> QED BY <2>2, <2>3
<1>4. SeenIn(book') = (SeenIn(book) \ {o}) \cup {p}
  <2>1. SeenIn(book') = (SeenIn(book) \ {Seen(book, s)}) \cup {Seen(book', s)}
    <3>1. Genuine(book)
      BY DEF ClientInvariant
    <3> HIDE DEF s, o, p
    <3> QED BY <1>1, <3>1, SeenChanged
  <2> QED BY <1>1, <1>3, <2>1
<1>5. o \in SeenIn(book)
  BY <1>1 DEF SeenIn
<1>6. r \in 1 .. o.remaining
  BY <1>1, <1>2 DEF Quantity, RestingSlots, ClientInvariant, TouchInvariant, SlotInvariant,
                    TypeOK, Book, Order
<1> HIDE DEF o
<1>7. \E x \in {ClientOrder(t) : t \in RestingSlots(book)} : \E k \in 1 .. x.remaining :
        {ClientOrder(t) : t \in RestingSlots(book)}' =
          ({ClientOrder(t) : t \in RestingSlots(book)} \ {x}) \cup
          {[x EXCEPT !.remaining = k, !.qty = @ - (x.remaining - k)]}
  BY <1>4, <1>5, <1>6, OrdersSeen
<1>8. ~ ClientTaker.active /\ ClientTaker' = ClientTaker /\ ClientTape' = ClientTape
      /\ UNCHANGED <<stp, nextSeq>>
  BY DEF ClientTaker, ClientTape, AmendDown
<1> QED BY <1>7, <1>8 DEF PriceTime!Reduce

LEMMA ClearClears ==
  ASSUME Clear
  PROVE  PriceTime!Clear
<1>1. RestingSlots(book') = {}
  BY DEF Clear, FreshBook, RestingSlots, DefaultOrder
<1>2. {ClientOrder(s) : s \in RestingSlots(book)}' = {}
  BY <1>1, OrdersSeen DEF SeenIn
<1>3. ClientTape' = << >>
  BY DEF Clear, ClientTape
<1>4. ~ ClientTaker.active /\ ClientTaker' = ClientTaker /\ UNCHANGED <<stp, nextSeq>>
  BY DEF ClientTaker, Clear
<1> QED BY <1>2, <1>3, <1>4 DEF PriceTime!Clear

LEMMA ClearTradesClearsTape ==
  ASSUME ClearTrades
  PROVE  PriceTime!ClearTape
<1>1. ClientTape' = << >>
  BY DEF ClearTrades, ClientTape
<1>2. {ClientOrder(s) : s \in RestingSlots(book)}' = {ClientOrder(s) : s \in RestingSlots(book)}
  BY OrdersSeen DEF ClearTrades
<1>3. ~ ClientTaker.active /\ ClientTaker' = ClientTaker /\ UNCHANGED <<stp, nextSeq>>
  BY DEF ClientTaker, ClearTrades
<1> QED BY <1>1, <1>2, <1>3 DEF PriceTime!ClearTape

LEMMA SetStpSetsMode ==
  ASSUME NEW mode \in SelfTradePrevention, SetSelfTradePrevention(mode)
  PROVE  PriceTime!SetMode
<1>1. {ClientOrder(s) : s \in RestingSlots(book)}' = {ClientOrder(s) : s \in RestingSlots(book)}
  BY OrdersSeen DEF SetSelfTradePrevention
<1>2. ~ ClientTaker.active /\ ClientTaker' = ClientTaker /\ ClientTape' = ClientTape
  BY DEF ClientTaker, ClientTape, SetSelfTradePrevention
<1> QED BY <1>1, <1>2 DEF PriceTime!SetMode, SetSelfTradePrevention,
                          PriceTime!SelfTradePrevention, SelfTradePrevention
-------------------------------------------------------------------------------
(* The total of each level stays the sum of what its orders offer.          *)

(* What slot s adds to the total of a level.                                *)
Share(b, s, side, i) == IF s \in OrdersAt(b, side, i) THEN b.pool[s].remaining ELSE 0

LEMMA TotalType ==
  ASSUME NEW b \in Book, NEW side, NEW i
  PROVE  /\ Total(b, side, i) \in Nat
         /\ IsFiniteSet(OrdersAt(b, side, i))
         /\ \A s \in OrdersAt(b, side, i) : s \in Slot
         /\ \A s \in Slot : Remaining(b)[s] = b.pool[s].remaining
         /\ \A s \in Slot : b.pool[s].remaining \in Nat
<1>1. IsFiniteSet(OrdersAt(b, side, i))
  BY OrdersFinite
<1>2. /\ \A s \in OrdersAt(b, side, i) : s \in Slot
      /\ \A s \in Slot : b.pool[s].remaining \in Nat
      /\ \A s \in Slot : Remaining(b)[s] = b.pool[s].remaining
  BY DEF OrdersAt, RestingSlots, Remaining, Book, Order, Quantity
<1>3. SumFunctionOnSet(Remaining(b), OrdersAt(b, side, i)) \in Nat
  <2>1. \A s \in OrdersAt(b, side, i) : Remaining(b)[s] \in Nat /\ Remaining(b)[s] \in Int
    BY <1>2
  <2> QED BY <1>1, <2>1, SumType
<1> QED BY <1>1, <1>2, <1>3 DEF Total

(* The total without the share of one slot.                                 *)
LEMMA TotalSplit ==
  ASSUME NEW b \in Book, NEW side, NEW i, NEW s \in Slot
  PROVE  /\ Total(b, side, i) =
              Share(b, s, side, i) + SumFunctionOnSet(Remaining(b), OrdersAt(b, side, i) \ {s})
         /\ SumFunctionOnSet(Remaining(b), OrdersAt(b, side, i) \ {s}) \in Int
         /\ Share(b, s, side, i) \in Int
<1> DEFINE f  == Remaining(b)
           At == OrdersAt(b, side, i)
<1>1. /\ IsFiniteSet(At) /\ \A t \in At : f[t] \in Int
      /\ \A t \in At : f[t] = b.pool[t].remaining
      /\ b.pool[s].remaining \in Int
  BY TotalType
<1>2. Total(b, side, i) = SumFunctionOnSet(f, At)
  BY DEF Total
<1> HIDE DEF f, At
<1>3. SumFunctionOnSet(f, At \ {s}) \in Int
  <2>1. IsFiniteSet(At \ {s}) /\ \A t \in At \ {s} : f[t] \in Int
    BY <1>1, FS_Subset
  <2> QED BY <2>1, SumType
<1>4. CASE s \in At
  <2>1. SumFunctionOnSet(f, At) = f[s] + SumFunctionOnSet(f, At \ {s})
    BY <1>1, <1>4, SumRemove
  <2> QED BY <1>1, <1>2, <1>3, <1>4, <2>1 DEF Share, f, At
<1>5. CASE s \notin At
  <2>1. At \ {s} = At
    BY <1>5
  <2>2. Share(b, s, side, i) = 0
    BY <1>5 DEF Share, At
  <2>3. SumFunctionOnSet(f, At) = SumFunctionOnSet(f, At \ {s})
    BY <2>1
  <2>4. Total(b, side, i) = 0 + SumFunctionOnSet(f, At \ {s})
    BY <1>2, <1>3, <2>3
  <2> QED BY <1>3, <2>2, <2>4 DEF f, At
<1> QED BY <1>4, <1>5

(* When one slot changes, a total changes by the difference of its shares.  *)
LEMMA TotalsMove ==
  ASSUME NEW b \in Book, NEW c \in Book, NEW s \in Slot,
         TotalsExact(b), SameOrders(b, c, Slot \ {s}), SameSeen(b, c, Slot \ {s}),
         \A side \in Side, i \in Index :
           c.level[side][i].qty =
             (b.level[side][i].qty + (Share(c, s, side, i) - Share(b, s, side, i))) % QtyMod
  PROVE  TotalsExact(c)
<1> SUFFICES ASSUME NEW side \in Side, NEW i \in Index
             PROVE  c.level[side][i].qty = Total(c, side, i) % QtyMod
  BY DEF TotalsExact
<1> DEFINE B == OrdersAt(b, side, i) \ {s}
           C == OrdersAt(c, side, i) \ {s}
           sb == Share(b, s, side, i)
           sc == Share(c, s, side, i)
<1>1. B = C
  BY DEF OrdersAt, RestingSlots, SameOrders
<1>2. \A t \in B : Remaining(b)[t] = Remaining(c)[t]
  <2>1. \A t \in B : t \in Slot \ {s}
    BY DEF OrdersAt, RestingSlots
  <2>2. \A t \in Slot \ {s} : c.pool[t].remaining = b.pool[t].remaining
    BY DEF SameSeen, Seen
  <2> QED BY <2>1, <2>2 DEF Remaining
<1>3. SumFunctionOnSet(Remaining(b), B) = SumFunctionOnSet(Remaining(c), C)
  <2>1. IsFiniteSet(B)
    BY TotalType, FS_Subset
  <2> HIDE DEF B, C
  <2> QED BY <1>1, <1>2, <2>1, SumSame
<1>4. /\ Total(b, side, i) = sb + SumFunctionOnSet(Remaining(b), B)
      /\ Total(c, side, i) = sc + SumFunctionOnSet(Remaining(c), C)
      /\ SumFunctionOnSet(Remaining(b), B) \in Int /\ sb \in Int /\ sc \in Int
  BY TotalSplit
<1>5. c.level[side][i].qty = (b.level[side][i].qty + (sc - sb)) % QtyMod
  OBVIOUS
<1>6. b.level[side][i].qty = Total(b, side, i) % QtyMod
  BY DEF TotalsExact
<1> HIDE DEF B, C, sb, sc
<1>7. Total(b, side, i) \in Int /\ sc - sb \in Int
  BY <1>4
<1>8. ((Total(b, side, i) % QtyMod) + (sc - sb)) % QtyMod
        = (Total(b, side, i) + (sc - sb)) % QtyMod
  BY <1>7, WidthAssumption, ModAdd
<1>9. Total(b, side, i) + (sc - sb) = Total(c, side, i)
  BY <1>3, <1>4
<1> QED BY <1>5, <1>6, <1>8, <1>9

(* A book whose orders and level totals are the same.                       *)
LEMMA TotalsKept ==
  ASSUME NEW b \in Book, NEW c \in Book, TotalsExact(b),
         RestingSlots(c) = RestingSlots(b), SameOrders(b, c, RestingSlots(b)),
         SameSeen(b, c, RestingSlots(b)),
         \A side \in Side, i \in Index : c.level[side][i].qty = b.level[side][i].qty
  PROVE  TotalsExact(c)
<1> SUFFICES ASSUME NEW side \in Side, NEW i \in Index
             PROVE  Total(c, side, i) = Total(b, side, i)
  BY DEF TotalsExact
<1> DEFINE At == OrdersAt(b, side, i)
<1>1. OrdersAt(c, side, i) = At
  BY DEF OrdersAt, SameOrders
<1>2. \A t \in At : Remaining(b)[t] = Remaining(c)[t]
  <2>1. \A t \in At : t \in Slot /\ t \in RestingSlots(b)
    BY DEF OrdersAt, RestingSlots
  <2>2. \A t \in RestingSlots(b) : c.pool[t].remaining = b.pool[t].remaining
    BY DEF SameSeen, Seen
  <2> QED BY <2>1, <2>2 DEF Remaining
<1>3. IsFiniteSet(At)
  BY OrdersFinite
<1> HIDE DEF At
<1>4. SumFunctionOnSet(Remaining(b), At) = SumFunctionOnSet(Remaining(c), At)
  BY <1>2, <1>3, SumSame
<1> QED BY <1>1, <1>4 DEF Total, At

LEMMA QtyKept ==
  ASSUME NEW x \in Quantity
  PROVE  (x + (0 - 0)) % QtyMod = x
BY WidthAssumption DEF Quantity

LEMMA QtyMoved ==
  ASSUME NEW x \in Quantity, NEW y \in Quantity, NEW z \in Quantity
  PROVE  x - (y - z) = x + (z - y)
BY DEF Quantity

LEMMA RemoveTotals ==
  ASSUME NEW b \in Book, NEW s \in RestingSlots(b), Linked(b), EndsExact(b), TotalsExact(b)
  PROVE  TotalsExact(RemoveOrder(b, s))
<1> DEFINE c == RemoveOrder(b, s)
           side == b.pool[s].side
           idx == b.pool[s].level
           left == b.pool[s].remaining
<1>1. /\ s \in Slot /\ side \in Side /\ idx \in Index /\ left \in Quantity
      /\ s \in OrdersAt(b, side, idx)
  BY SMTT(20), OrderType DEF RestingSlots, OrdersAt, Order
<1>2. /\ c \in Book /\ ~ c.pool[s].active /\ SameOrders(b, c, Slot \ {s})
      /\ SameLevelsBut(b, c, side, idx)
      /\ c.level[side][idx].qty = IF b.level[side][idx].count = 1 THEN 0
                                  ELSE QtySub(b.level[side][idx].qty, left)
  BY RemoveShape DEF TakenOut
<1>3. SameSeen(b, c, Slot \ {s})
  BY <1>1, RemoveSeen
<1>4. b.level \in [Side -> [Index -> PriceLevel]]
  BY DEF Book
<1> HIDE DEF c
<1>5. \A d \in Side, i \in Index : Share(c, s, d, i) = 0
  BY <1>2 DEF Share, OrdersAt, RestingSlots
<1>6. /\ Share(b, s, side, idx) = left
      /\ \A d \in Side, i \in Index : d # side \/ i # idx => Share(b, s, d, i) = 0
  BY <1>1 DEF Share, OrdersAt
<1>7. b.level[side][idx].count = 1 => b.level[side][idx].qty = left
  <2> SUFFICES ASSUME b.level[side][idx].count = 1 PROVE b.level[side][idx].qty = left
    OBVIOUS
  <2> DEFINE At == OrdersAt(b, side, idx)
  <2>1. At = {s}
    <3>1. Cardinality(At) = 1
      BY <1>1 DEF EndsExact
    <3>2. \E x : At = {x}
      BY <3>1, OrdersFinite, FS_Singleton
    <3> QED BY <1>1, <3>2
  <2>2. Total(b, side, idx) = left
    <3>1. Total(b, side, idx) = Share(b, s, side, idx) + SumFunctionOnSet(Remaining(b), At \ {s})
      BY <1>1, TotalSplit
    <3>2. At \ {s} = {}
      BY <2>1
    <3> HIDE DEF At
    <3>3. SumFunctionOnSet(Remaining(b), At \ {s}) = 0
      BY <3>2, SumEmpty
    <3>4. Total(b, side, idx) = left + 0
      BY <1>6, <3>1, <3>3
    <3> QED BY <1>1, <3>4 DEF Quantity
  <2>3. left % QtyMod = left
    BY <1>1, WidthAssumption DEF Quantity
  <2> QED BY <1>1, <2>2, <2>3 DEF TotalsExact
<1>8. ASSUME NEW d \in Side, NEW i \in Index
      PROVE  c.level[d][i].qty =
               (b.level[d][i].qty + (Share(c, s, d, i) - Share(b, s, d, i))) % QtyMod
  <2>1. b.level[d][i].qty \in Quantity
    BY <1>4 DEF PriceLevel
  <2>2. CASE d # side \/ i # idx
    <3>1. c.level[d][i].qty = b.level[d][i].qty
      BY <1>2, <2>2 DEF SameLevelsBut
    <3>2. (b.level[d][i].qty + (0 - 0)) % QtyMod = b.level[d][i].qty
      BY <2>1, QtyKept
    <3> QED BY <1>5, <1>6, <2>2, <3>1, <3>2
  <2>3. CASE d = side /\ i = idx
    <3> DEFINE x == b.level[side][idx].qty
    <3>1. c.level[side][idx].qty = (x - left) % QtyMod
      <4>1. CASE b.level[side][idx].count = 1
        <5>1. (left - left) % QtyMod = 0
          BY SMTT(20), <1>1, WidthAssumption DEF Quantity
        <5> QED BY <1>2, <1>7, <4>1, <5>1
      <4>2. CASE b.level[side][idx].count # 1
        BY <1>2, <4>2 DEF QtySub
      <4> QED BY <4>1, <4>2
    <3>2. x - left = x + (0 - left)
      BY <1>1, <2>1, <2>3 DEF Quantity
    <3> QED BY <1>1, <1>5, <1>6, <2>3, <3>1, <3>2
  <2> QED BY <2>2, <2>3
<1> HIDE DEF side, idx, left
<1>9. TotalsExact(c)
  BY <1>1, <1>2, <1>3, <1>8, TotalsMove
<1> QED BY <1>9 DEF c

LEMMA RestTotals ==
  ASSUME NEW b \in Book, NEW s \in Slot, NEW o \in Order,
         o.price >= MinPrice, o.price <= MaxPrice, s \notin RestingSlots(b), TotalsExact(b)
  PROVE  TotalsExact(RestOrder(b, s, o))
<1> DEFINE c == RestOrder(b, s, o)
           idx == ToIndex(o.price)
<1>1. /\ c \in Book /\ SameOrders(b, c, Slot \ {s})
      /\ SameLevelsBut(b, c, o.side, idx) /\ Appended(b, c, s, o)
  BY RestType, RestShape
<1>2. /\ SameSeen(b, c, Slot \ {s})
      /\ Seen(c, s) = [id |-> o.id, side |-> o.side, price |-> o.price, qty |-> o.qty,
                       remaining |-> o.remaining, participant |-> o.participant, seq |-> o.seq]
  BY RestSeen
<1>3. b.level \in [Side -> [Index -> PriceLevel]]
  BY DEF Book
<1>4. o.side \in Side /\ idx \in Index /\ o.remaining \in Quantity
  BY ToIndexType DEF Order
<1> HIDE DEF c, idx
<1>5. /\ c.pool[s].remaining = o.remaining /\ c.pool[s].active
      /\ c.pool[s].side = o.side /\ c.pool[s].level = idx
      /\ c.level[o.side][idx].qty = QtyAdd(b.level[o.side][idx].qty, o.remaining)
  <2>1. Seen(c, s).remaining = c.pool[s].remaining
    BY DEF Seen
  <2> QED BY <1>1, <1>2, <2>1 DEF Appended, idx
<1>6. \A d \in Side, i \in Index : Share(b, s, d, i) = 0
  BY DEF Share, OrdersAt
<1>7. /\ Share(c, s, o.side, idx) = o.remaining
      /\ \A d \in Side, i \in Index : d # o.side \/ i # idx => Share(c, s, d, i) = 0
  BY <1>5 DEF Share, OrdersAt, RestingSlots
<1>8. ASSUME NEW d \in Side, NEW i \in Index
      PROVE  c.level[d][i].qty =
               (b.level[d][i].qty + (Share(c, s, d, i) - Share(b, s, d, i))) % QtyMod
  <2>1. b.level[d][i].qty \in Quantity
    BY <1>3 DEF PriceLevel
  <2>2. CASE d # o.side \/ i # idx
    <3>1. c.level[d][i].qty = b.level[d][i].qty
      BY <1>1, <2>2 DEF SameLevelsBut
    <3>2. (b.level[d][i].qty + (0 - 0)) % QtyMod = b.level[d][i].qty
      BY <2>1, QtyKept
    <3> QED BY <1>6, <1>7, <2>2, <3>1, <3>2
  <2>3. CASE d = o.side /\ i = idx
    <3>1. b.level[d][i].qty + o.remaining = b.level[d][i].qty + (o.remaining - 0)
      BY <1>4, <2>1 DEF Quantity
    <3> QED BY <1>4, <1>5, <1>6, <1>7, <2>3, <3>1 DEF QtyAdd
  <2> QED BY <2>2, <2>3
<1>9. TotalsExact(c)
  BY <1>1, <1>2, <1>8, TotalsMove
<1> QED BY <1>9 DEF c

LEMMA RequantifiedLevel ==
  ASSUME NEW b \in Book, NEW s \in Slot, NEW qty, NEW remaining, NEW total,
         NEW side \in Side, NEW idx \in Index
  PROVE  \A d \in Side, i \in Index :
           Requantified(b, s, qty, remaining, side, idx, total).level[d][i].qty =
             IF d = side /\ i = idx THEN total ELSE b.level[d][i].qty
<1> DEFINE c == Requantified(b, s, qty, remaining, side, idx, total)
           lw == [b.level[side][idx] EXCEPT !.qty = total]
           row == [b.level[side] EXCEPT ![idx] = lw]
<1>1. b.level \in [Side -> [Index -> PriceLevel]]
  BY DEF Book
<1>2. c.level = [b.level EXCEPT ![side] = row]
  BY DEF Requantified, Book
<1>3. lw.qty = total
  BY <1>1 DEF PriceLevel
<1> HIDE DEF c, lw
<1>4. row[idx] = lw /\ \A i \in Index : i # idx => row[i] = b.level[side][i]
  BY <1>1
<1> HIDE DEF row
<1>5. c.level[side] = row /\ \A d \in Side : d # side => c.level[d] = b.level[d]
  BY <1>1, <1>2
<1>6. \A d \in Side, i \in Index :
        c.level[d][i].qty = IF d = side /\ i = idx THEN total ELSE b.level[d][i].qty
  BY <1>3, <1>4, <1>5
<1> QED BY <1>6 DEF c

(* An order and its level give up the same quantity.                        *)
LEMMA RequantifiedTotals ==
  ASSUME NEW b \in Book, NEW c \in Book, NEW s \in RestingSlots(b),
         TotalsExact(b), SameOrders(b, c, Slot), SameSeen(b, c, Slot \ {s}),
         \A d \in Side, i \in Index :
           c.level[d][i].qty =
             IF d = b.pool[s].side /\ i = b.pool[s].level
             THEN (b.level[d][i].qty + (c.pool[s].remaining - b.pool[s].remaining)) % QtyMod
             ELSE b.level[d][i].qty
  PROVE  TotalsExact(c)
<1> DEFINE side == b.pool[s].side
           idx == b.pool[s].level
<1>1. s \in Slot /\ side \in Side /\ idx \in Index /\ s \in OrdersAt(b, side, idx)
  BY OrderType DEF RestingSlots, OrdersAt
<1>2. \A d \in Side, i \in Index : b.level[d][i].qty \in Quantity
  BY DEF Book, PriceLevel
<1>3. \A d \in Side, i \in Index :
        /\ Share(b, s, d, i) = IF d = side /\ i = idx THEN b.pool[s].remaining ELSE 0
        /\ Share(c, s, d, i) = IF d = side /\ i = idx THEN c.pool[s].remaining ELSE 0
  BY <1>1 DEF Share, OrdersAt, RestingSlots, SameOrders
<1>4. ASSUME NEW d \in Side, NEW i \in Index
      PROVE  c.level[d][i].qty =
               (b.level[d][i].qty + (Share(c, s, d, i) - Share(b, s, d, i))) % QtyMod
  <2>1. CASE ~ (d = side /\ i = idx)
    <3>1. (b.level[d][i].qty + (0 - 0)) % QtyMod = b.level[d][i].qty
      BY <1>2, QtyKept
    <3>2. c.level[d][i].qty = b.level[d][i].qty
      BY <2>1
    <3> QED BY <1>3, <2>1, <3>1, <3>2
  <2>2. CASE d = side /\ i = idx
    BY <1>3, <2>2
  <2> QED BY <2>1, <2>2
<1>5. SameOrders(b, c, Slot \ {s})
  BY DEF SameOrders
<1> QED BY <1>1, <1>4, <1>5, TotalsMove

LEMMA FillTotals ==
  ASSUME NEW b \in Book, NEW s \in RestingSlots(b), NEW q \in Quantity,
         q <= b.pool[s].remaining, Linked(b), EndsExact(b), TotalsExact(b)
  PROVE  TotalsExact(FillMaker(b, s, q))
<1> DEFINE side == b.pool[s].side
           idx == b.pool[s].level
           total == QtySub(b.level[side][idx].qty, q)
           left == b.pool[s].remaining - q
<1>1. PICK c \in Book :
           /\ c = Requantified(b, s, b.pool[s].qty, left, side, idx, total)
           /\ SamePool(b, c) /\ SameQueues(b, c)
           /\ c.bits = b.bits /\ c.best = b.best /\ c.open = b.open
           /\ FillMaker(b, s, q) = IF b.pool[s].remaining = q THEN RemoveOrder(c, s) ELSE c
  BY FillShape DEF RestingSlots
<1>2. s \in Slot /\ side \in Side /\ idx \in Index /\ b.pool[s].remaining \in Quantity
  BY OrderType DEF RestingSlots, Order
<1> HIDE DEF left, total
<1>3. SameSeen(b, c, Slot \ {s}) /\ SameOrders(b, c, Slot)
  BY <1>1, <1>2, RequantifySeen
<1>4. \A d \in Side, i \in Index :
        c.level[d][i].qty = IF d = side /\ i = idx THEN total ELSE b.level[d][i].qty
  <2>1. \A d \in Side, i \in Index :
          Requantified(b, s, b.pool[s].qty, left, side, idx, total).level[d][i].qty =
            IF d = side /\ i = idx THEN total ELSE b.level[d][i].qty
    BY <1>2, RequantifiedLevel
  <2> QED BY <1>1, <2>1
<1>5. c.pool[s].remaining = left
  <2>1. Seen(Requantified(b, s, b.pool[s].qty, left, side, idx, total), s) =
          SeenWith(b, s, b.pool[s].qty, left)
    BY <1>2, RequantifiedSeen
  <2>2. Seen(c, s) = SeenWith(b, s, b.pool[s].qty, left)
    BY <1>1, <2>1
  <2> QED BY <2>2 DEF Seen, SeenWith
<1>6. TotalsExact(c)
  <2>1. \A d \in Side, i \in Index :
          c.level[d][i].qty =
            IF d = side /\ i = idx
            THEN (b.level[d][i].qty + (c.pool[s].remaining - b.pool[s].remaining)) % QtyMod
            ELSE b.level[d][i].qty
    <3>1. b.level[side][idx].qty \in Quantity
      BY <1>2 DEF Book, PriceLevel
    <3>2. b.level[side][idx].qty - q = b.level[side][idx].qty + (left - b.pool[s].remaining)
      BY SMTT(20), <1>2, <3>1 DEF left, Quantity
    <3>3. total = (b.level[side][idx].qty + (c.pool[s].remaining - b.pool[s].remaining)) % QtyMod
      BY <1>5, <3>2 DEF total, QtySub
    <3> QED BY <1>4, <3>3
  <2> QED BY <1>3, <2>1, RequantifiedTotals
<1>7. Linked(c) /\ EndsExact(c) /\ s \in RestingSlots(c)
  BY <1>1, QueuesKept DEF SameQueues
<1>8. TotalsExact(RemoveOrder(c, s))
  BY <1>6, <1>7, RemoveTotals
<1> QED BY <1>1, <1>6, <1>8

LEMMA AllocTotals ==
  ASSUME NEW b \in Book, CanAlloc(b), Partitioned(b, {}), TotalsExact(b)
  PROVE  TotalsExact(AllocSlot(b))
<1> DEFINE c == AllocSlot(b)
<1>1. /\ c \in Book /\ RestingSlots(c) = RestingSlots(b)
      /\ SameSeen(b, c, RestingSlots(b))
  BY AllocType, AllocSeen
<1>2. SameOrders(b, c, RestingSlots(b))
  BY AllocPartitioned DEF SameQueues
<1>3. c.level = b.level
  BY DEF AllocSlot, Book
<1> HIDE DEF c
<1>4. TotalsExact(c)
  BY <1>1, <1>2, <1>3, TotalsKept
<1> QED BY <1>4 DEF c

LEMMA FreeTotals ==
  ASSUME NEW b \in Book, NEW s \in Slot, s \notin RestingSlots(b), TotalsExact(b)
  PROVE  TotalsExact(FreeSlot(b, s))
<1> DEFINE c == FreeSlot(b, s)
<1>1. /\ c \in Book /\ c.level = b.level /\ ~ c.pool[s].active
      /\ SameOrders(b, c, Slot \ {s}) /\ SameSeen(b, c, Slot \ {s})
  BY FreeType, FreeShape, FreeSeen
<1> HIDE DEF c
<1>2. /\ RestingSlots(c) = RestingSlots(b)
      /\ SameOrders(b, c, RestingSlots(b)) /\ SameSeen(b, c, RestingSlots(b))
  BY <1>1 DEF RestingSlots, SameOrders, SameSeen
<1>3. TotalsExact(c)
  BY <1>1, <1>2, TotalsKept
<1> QED BY <1>3 DEF c

LEMMA FreshTotals == TotalsExact(FreshBook)
<1>1. \A side \in Side, i \in Index : OrdersAt(FreshBook, side, i) = {}
  BY DEF OrdersAt, RestingSlots, FreshBook, DefaultOrder
<1>2. \A side \in Side, i \in Index : FreshBook.level[side][i].qty = 0
  BY DEF FreshBook, EmptyLevel
<1>3. \A side \in Side, i \in Index : Total(FreshBook, side, i) = 0
  BY <1>1, SumEmpty DEF Total
<1>4. 0 % QtyMod = 0
  BY WidthAssumption
<1> QED BY <1>2, <1>3, <1>4 DEF TotalsExact

LEMMA AmendDownTotals ==
  ASSUME ClientInvariant, TotalsExact(book), NEW id \in OrderId, NEW newQty \in Quantity,
         AmendDown(id, newQty), book' \in Book
  PROVE  TotalsExact(book')
<1> DEFINE s    == id.slot
           o    == book.pool[s]
           left == QtySub(newQty, AlreadyFilled(id))
           lv   == book.level[o.side][o.level]
<1>1. /\ s \in RestingSlots(book) /\ left \in Quantity
      /\ SameSeen(book, book', Slot \ {s}) /\ SameOrders(book, book', Slot)
      /\ Seen(book', s) = SeenWith(book, s, newQty, left)
  BY AmendDownFacts
<1>2. /\ book \in Book /\ s \in Slot /\ o.side \in Side /\ o.level \in Index
      /\ o.remaining \in Quantity
  BY <1>1, OrderType DEF RestingSlots, Order, ClientInvariant, TouchInvariant, SlotInvariant,
                         TypeOK
<1>3. book' = Requantified(book, s, newQty, left, o.side, o.level,
                           QtySub(lv.qty, o.remaining - left))
  BY AmendDownShape DEF ClientInvariant, TouchInvariant, SlotInvariant
<1> HIDE DEF left
<1>4. book'.pool[s].remaining = left
  BY <1>1 DEF Seen, SeenWith
<1>5. \A d \in Side, i \in Index :
        book'.level[d][i].qty =
          IF d = o.side /\ i = o.level
          THEN (book.level[d][i].qty + (book'.pool[s].remaining - o.remaining)) % QtyMod
          ELSE book.level[d][i].qty
  <2> DEFINE total == QtySub(lv.qty, o.remaining - left)
  <2>1. lv.qty \in Quantity
    BY SMTT(20), <1>2 DEF Book, PriceLevel
  <2>2. lv.qty - (o.remaining - left) = lv.qty + (left - o.remaining)
    BY <1>1, <1>2, <2>1, QtyMoved
  <2>3. total = (lv.qty + (book'.pool[s].remaining - o.remaining)) % QtyMod
    BY <1>4, <2>2 DEF QtySub
  <2> HIDE DEF total
  <2>4. \A d \in Side, i \in Index :
          Requantified(book, s, newQty, left, o.side, o.level, total).level[d][i].qty =
            IF d = o.side /\ i = o.level THEN total ELSE book.level[d][i].qty
    BY <1>2, RequantifiedLevel
  <2>5. \A d \in Side, i \in Index :
          book'.level[d][i].qty =
            IF d = o.side /\ i = o.level THEN total ELSE book.level[d][i].qty
    BY <1>3, <2>4 DEF total
  <2> QED BY <2>3, <2>5
<1> QED BY <1>1, <1>2, <1>5, RequantifiedTotals

LEMMA EnterLimitTotals ==
  ASSUME NEW b \in Book, Partitioned(b, {}), TotalsExact(b),
         NEW side, NEW price, NEW qty, NEW tif, NEW participant,
         EnterLimit(b, side, price, qty, tif, participant)
  PROVE  TotalsExact(book')
BY AllocTotals DEF EnterLimit

LEMMA SubmitMarketTotals ==
  ASSUME ClientInvariant, TotalsExact(book), NEW side, NEW qty, NEW participant,
         SubmitMarket(side, qty, participant)
  PROVE  TotalsExact(book')
<1> DEFINE b == AllocSlot(book)
           s == AllocatedSlot(book)
<1>1. book' = book \/ (CanAlloc(book) /\ book' = FreeSlot(b, s))
  BY DEF SubmitMarket
<1>2. book \in Book /\ Partitioned(book, {})
  BY NowSound DEF SubmitMarket, MayEnter, ClientInvariant, TouchInvariant
<1>3. CASE CanAlloc(book) /\ book' = FreeSlot(b, s)
  <2>1. /\ b \in Book /\ s \in Slot /\ TotalsExact(b)
        /\ s \notin RestingSlots(b)
    BY <1>2, <1>3, AllocType, AllocSeen, AllocTotals
  <2> HIDE DEF b, s
  <2> QED BY <1>3, <2>1, FreeTotals
<1> QED BY <1>1, <1>3

LEMMA RemoveIdTotals ==
  ASSUME ClientInvariant, TotalsExact(book), NEW id \in OrderId, Resolve(book, id) # NoSlot
  PROVE  TotalsExact(RemoveOrder(book, id.slot))
BY ResolvedRests, NowSound, RemoveTotals DEF ClientInvariant, TouchInvariant

LEMMA AmendUpTotals ==
  ASSUME ClientInvariant, TotalsExact(book), NEW id \in OrderId, NEW newQty \in Quantity,
         AmendUp(id, newQty)
  PROVE  TotalsExact(book')
<1> DEFINE b == RemoveOrder(book, id.slot)
           newRemaining == QtySub(newQty, AlreadyFilled(id))
<1>1. ~ call.active /\ Resolve(book, id) # NoSlot
  BY DEF AmendUp, MayEnter
<1>2. b \in Book /\ Partitioned(b, {}) /\ TotalsExact(b)
  <2>1. b \in Book
    BY NowSound, ResolveType, RemoveType DEF ClientInvariant, TouchInvariant
  <2> QED BY <1>1, <2>1, RemoveIdSound, RemoveIdTotals DEF ClientInvariant, TouchInvariant, Sound
<1>3. EnterLimit(b, book.pool[id.slot].side, book.pool[id.slot].price, newRemaining,
                 "GTC", book.pool[id.slot].participant)
  BY DEF AmendUp
<1> HIDE DEF b, newRemaining
<1> QED BY <1>2, <1>3, EnterLimitTotals

LEMMA TotalsInvariantInit == Init => TotalsInvariant
BY ClientInvariantInit, FreshTotals DEF Init, TotalsInvariant

LEMMA TotalsInvariantNext == TotalsInvariant /\ [Next]_vars => TotalsInvariant'
<1> SUFFICES ASSUME TotalsInvariant, [Next]_vars PROVE TotalsInvariant'
  OBVIOUS
<1> USE InputAssumption
<1>1. ClientInvariant'
  BY ClientInvariantNext DEF TotalsInvariant
<1>2. /\ ClientInvariant /\ TotalsExact(book) /\ book \in Book /\ book' \in Book
      /\ Linked(book) /\ EndsExact(book) /\ (~ call.active => Partitioned(book, {}))
  BY <1>1, NowSound DEF TotalsInvariant, ClientInvariant, TouchInvariant, SlotInvariant, TypeOK
<1>3. ASSUME NEW side \in Side, NEW price \in Prices, NEW qty \in Quantities,
             NEW tif \in Tifs, NEW participant \in Participants,
             SubmitLimit(side, price, qty, tif, participant)
      PROVE  TotalsExact(book')
  BY <1>2, <1>3, EnterLimitTotals DEF SubmitLimit, MayEnter
<1>4. ASSUME NEW side \in Side, NEW qty \in Quantities, NEW participant \in Participants,
             SubmitMarket(side, qty, participant)
      PROVE  TotalsExact(book')
  BY <1>2, <1>4, SubmitMarketTotals
<1>5. ASSUME PullMaker PROVE TotalsExact(book')
  BY <1>2, <1>5, MakerRests, RemoveTotals DEF PullMaker, ClientInvariant, TouchInvariant
<1>6. ASSUME Fill PROVE TotalsExact(book')
  <2> DEFINE q == Smaller(call.remaining, Maker.remaining)
  <2>1. /\ MakerSlot \in RestingSlots(book)
        /\ q \in Quantity /\ q <= book.pool[MakerSlot].remaining
        /\ book' = FillMaker(book, MakerSlot, q)
    BY <1>2, <1>6, FillFacts
  <2> HIDE DEF q
  <2> QED BY <1>2, <2>1, FillTotals
<1>7. ASSUME ReturnFilled \/ ReturnKilled PROVE TotalsExact(book')
  <2>1. call.active /\ ReleaseTaker
    BY <1>7 DEF ReturnFilled, ReturnKilled, Matched
  <2>2. call.slot \in Slot /\ (~ call.market => call.slot \notin RestingSlots(book))
    BY <1>2, <2>1, NowSound DEF ClientInvariant, TouchInvariant, Partitioned
  <2> QED BY <1>2, <2>1, <2>2, FreeTotals DEF ReleaseTaker
<1>8. ASSUME ReturnResting PROVE TotalsExact(book')
  <2> DEFINE o == [DefaultOrder EXCEPT
                     !.id = call.id, !.price = call.price, !.qty = call.qty,
                     !.remaining = call.remaining, !.seq = nextSeq,
                     !.participant = call.participant, !.side = call.side]
  <2>1. /\ book' = RestOrder(book, call.slot, o)
        /\ o \in Order /\ o.price >= MinPrice /\ o.price <= MaxPrice
        /\ call.slot \in Slot /\ call.slot \notin RestingSlots(book)
    BY <1>2, <1>8, RestFacts
  <2> HIDE DEF o
  <2> QED BY <1>2, <2>1, RestTotals
<1>9. ASSUME NEW id \in OrderId, CancelLive(id) PROVE TotalsExact(book')
  BY <1>2, <1>9, RemoveIdTotals DEF CancelLive
<1>10. ASSUME NEW id \in OrderId, NEW newQty \in Quantities, AmendToCancel(id, newQty)
       PROVE  TotalsExact(book')
  BY <1>2, <1>10, RemoveIdTotals DEF AmendToCancel
<1>11. ASSUME NEW id \in OrderId, NEW newQty \in Quantities, AmendDown(id, newQty)
       PROVE  TotalsExact(book')
  BY <1>2, <1>11, AmendDownTotals
<1>12. ASSUME NEW id \in OrderId, NEW newQty \in Quantities, AmendUp(id, newQty)
       PROVE  TotalsExact(book')
  BY <1>2, <1>12, AmendUpTotals
<1>13. ASSUME Clear PROVE TotalsExact(book')
  BY <1>13, FreshTotals DEF Clear
<1>14. ASSUME UNCHANGED book PROVE TotalsExact(book')
  BY <1>2, <1>14
<1>15. TotalsExact(book')
  BY <1>3, <1>4, <1>5, <1>6, <1>7, <1>8, <1>9, <1>10, <1>11, <1>12, <1>13, <1>14
  DEF Next, EngineStep, MatchStep, ReturnStep, StopTaker, CancelUnknown, AmendUnknown,
      SetSelfTradePrevention, ClearTrades, vars
<1> QED BY <1>1, <1>15 DEF TotalsInvariant
-------------------------------------------------------------------------------
(* What fillable() adds up.                                                 *)

(* The orders a taker of that side can reach within that limit.             *)
InReachOf(b, takerSide, limit) ==
  {s \in RestingSlots(b) : /\ b.pool[s].side = Opposite(takerSide)
                           /\ WithinLimit(takerSide, b.pool[s].price, limit)}

Offered(b, takerSide, limit) ==
  SumFunctionOnSet(Remaining(b), InReachOf(b, takerSide, limit))

(* The levels fillable() visits hold the orders in reach, and the totals of *)
(* those levels add up to what these orders offer, modulo the word.         *)
LEMMA FillableIsOffered ==
  ASSUME NEW b \in Book, NEW takerSide \in Side, NEW limit \in Int,
         Summarised(b), Genuine(b), TotalsExact(b)
  PROVE  Fillable(b, takerSide, limit) = Offered(b, takerSide, limit) % QtyMod
<1> DEFINE maker == Opposite(takerSide)
           best  == b.best[maker]
           near  == {i \in b.bits[maker] : /\ ~ Better(maker, i, best)
                                           /\ WithinLimit(takerSide, ToPrice(i), limit)}
           reach == InReachOf(b, takerSide, limit)
           f     == Remaining(b)
           k     == [s \in Slot |-> b.pool[s].level]
           quick == [i \in near |-> b.level[maker][i].qty]
           slow  == [i \in near |-> SumFunctionOnSet(f, {s \in reach : k[s] = i})]
<1>1. /\ maker \in Side /\ QtyMod \in Nat /\ QtyMod > 0
      /\ b.bits[maker] \in SUBSET Index
  BY WidthAssumption DEF Opposite, Side, Book
<1>2. b.bits[maker] = {i \in Index : OrdersAt(b, maker, i) # {}}
  BY <1>1 DEF Summarised, BitsExact
<1>3. Extreme(b.bits[maker], best, maker)
  BY <1>1 DEF Summarised
<1>4. /\ IsFiniteSet(reach) /\ IsFiniteSet(near)
      /\ \A s \in reach : s \in Slot /\ f[s] \in Int
  <2>1. reach \in SUBSET RestingSlots(b)
    BY DEF InReachOf
  <2>2. \A s \in Slot : f[s] \in Int
    <3>1. \A s \in Slot : f[s] = b.pool[s].remaining /\ b.pool[s].remaining \in Nat
      BY TotalType
    <3> QED BY <3>1
  <2>3. near \in SUBSET Index /\ IsFiniteSet(Index)
    BY <1>1, LadderSizeType, FS_Interval DEF Index
  <2> HIDE DEF reach, near, f
  <2>4. \A s \in reach : s \in Slot
    BY <2>1 DEF RestingSlots
  <2>5. IsFiniteSet(RestingSlots(b))
    BY OrdersFinite
  <2> QED BY <2>1, <2>2, <2>3, <2>4, <2>5, FS_Subset
<1>5. \A s \in reach : k[s] \in near
  <2> SUFFICES ASSUME NEW s \in reach PROVE k[s] \in near
    OBVIOUS
  <2>1. /\ s \in RestingSlots(b) /\ s \in Slot /\ b.pool[s].side = maker
        /\ b.pool[s].level \in Index
        /\ WithinLimit(takerSide, ToPrice(b.pool[s].level), limit)
    BY OrderType DEF InReachOf, RestingSlots, Genuine
  <2>2. b.pool[s].level \in b.bits[maker]
    BY <1>2, <2>1 DEF OrdersAt
  <2>3. ~ Better(maker, b.pool[s].level, best)
    BY <1>3, <2>2 DEF Extreme
  <2> QED BY <2>1, <2>2, <2>3
<1>6. \A i \in near : {s \in reach : k[s] = i} = OrdersAt(b, maker, i)
  <2> SUFFICES ASSUME NEW i \in near
               PROVE  {s \in reach : k[s] = i} = OrdersAt(b, maker, i)
    OBVIOUS
  <2>1. \A s \in RestingSlots(b) : s \in Slot /\ b.pool[s].price = ToPrice(b.pool[s].level)
    BY DEF RestingSlots, Genuine
  <2> QED BY <2>1 DEF InReachOf, OrdersAt
<1>7. SumFunctionOnSet(f, reach) = SumFunctionOnSet(slow, near)
  <2> HIDE DEF f, k, reach, near
  <2> QED BY <1>4, <1>5, SumGrouped
<1>8. \A i \in near : /\ quick[i] \in Int /\ slow[i] \in Int
                      /\ quick[i] % QtyMod = slow[i] % QtyMod
  <2> SUFFICES ASSUME NEW i \in near
               PROVE  /\ quick[i] \in Int /\ slow[i] \in Int
                      /\ quick[i] % QtyMod = slow[i] % QtyMod
    OBVIOUS
  <2>1. i \in Index /\ slow[i] = Total(b, maker, i) /\ quick[i] = b.level[maker][i].qty
    BY <1>1, <1>6 DEF Total
  <2>2. Total(b, maker, i) \in Nat /\ b.level[maker][i].qty = Total(b, maker, i) % QtyMod
    BY <1>1, <2>1, TotalType DEF TotalsExact
  <2>3. (Total(b, maker, i) % QtyMod) % QtyMod = Total(b, maker, i) % QtyMod
        /\ Total(b, maker, i) % QtyMod \in Int
    <3> DEFINE x == Total(b, maker, i)
    <3>1. x \in Int /\ QtyMod \in Nat /\ QtyMod > 1
      BY <2>2, WidthAssumption
    <3> HIDE DEF x
    <3>2. x % QtyMod \in 0 .. QtyMod - 1
      BY <3>1, ModType
    <3> QED BY <3>1, <3>2 DEF x
  <2> QED BY <2>1, <2>2, <2>3
<1>9. SumFunctionOnSet(quick, near) % QtyMod = SumFunctionOnSet(slow, near) % QtyMod
  <2> HIDE DEF quick, slow, near
  <2> QED BY <1>1, <1>4, <1>8, SumMod
<1>10. CASE HasBest(b, maker)
  <2>1. Fillable(b, takerSide, limit) = SumFunctionOnSet(quick, near) % QtyMod
    BY <1>10 DEF Fillable, SumFunction
  <2> QED BY <1>7, <1>9, <2>1 DEF Offered
<1>11. CASE ~ HasBest(b, maker)
  <2>1. b.bits[maker] = {}
    BY <1>1, <1>3, <1>11 DEF Extreme, HasBest, Index, NPos
  <2>2. reach = {}
    BY <1>5, <2>1
  <2>3. SumFunctionOnSet(f, reach) = 0
    BY <2>2, SumEmpty
  <2>4. 0 % QtyMod = 0
    BY <1>1
  <2> QED BY <1>11, <2>3, <2>4 DEF Fillable, Offered
<1> QED BY <1>10, <1>11

(* fillable() is exact up to the width of the word on every reachable book. *)
THEOREM FillableCorrect == Spec => []FillableExact
<1>1. TotalsInvariant => FillableExact
  <2> SUFFICES ASSUME TotalsInvariant, NEW side \in Side, NEW limit \in Prices
               PROVE  Fillable(book, side, limit) =
                        SumFunction([s \in {t \in RestingSlots(book) :
                                       /\ book.pool[t].side = Opposite(side)
                                       /\ WithinLimit(side, book.pool[t].price, limit)}
                                       |-> book.pool[s].remaining]) % QtyMod
    BY DEF FillableExact
  <2> DEFINE reach == InReachOf(book, side, limit)
             g == [s \in reach |-> book.pool[s].remaining]
  <2>1. /\ book \in Book /\ Summarised(book) /\ Genuine(book) /\ TotalsExact(book)
        /\ limit \in Int
    BY NowSound, InputAssumption DEF TotalsInvariant, ClientInvariant, TouchInvariant
  <2>2. Fillable(book, side, limit) = SumFunctionOnSet(Remaining(book), reach) % QtyMod
    BY <2>1, FillableIsOffered DEF Offered
  <2>3. IsFiniteSet(reach) /\ \A s \in reach : s \in Slot
    <3>1. reach \in SUBSET RestingSlots(book) /\ \A s \in reach : s \in Slot
      BY DEF InReachOf, RestingSlots
    <3> QED BY <3>1, OrdersFinite, FS_Subset
  <2>4. \A s \in reach : Remaining(book)[s] = g[s]
    BY <2>3 DEF Remaining
  <2> HIDE DEF g, reach
  <2>5. SumFunctionOnSet(Remaining(book), reach) = SumFunctionOnSet(g, reach)
    BY <2>3, <2>4, SumSame
  <2>6. SumFunction(g) = SumFunctionOnSet(g, reach)
    BY DEF SumFunction, g
  <2>7. Fillable(book, side, limit) = SumFunction(g) % QtyMod
    BY <2>2, <2>5, <2>6
  <2> QED BY <2>7 DEF g, reach, InReachOf
<1>2. Spec => []TotalsInvariant
  BY TotalsInvariantInit, TotalsInvariantNext, PTL DEF Spec
<1> QED BY <1>1, <1>2, PTL
-------------------------------------------------------------------------------
(* An order is entered.                                                     *)

(* The taker in the eyes of its client, entered with book b.                *)
EnteredTaker(b, market, side, price, qty, tif, participant) ==
  [active |-> TRUE, market |-> market, id |-> IdFor(AllocSlot(b), AllocatedSlot(b)),
   side |-> side, price |-> price, qty |-> qty, remaining |-> qty, tif |-> tif,
   participant |-> participant]

LEMMA EnteredSeen ==
  ASSUME NEW b, NEW market, NEW side, NEW price, NEW qty, NEW tif, NEW participant,
         call' = Entered(b, market, side, price, qty, tif, participant)
  PROVE  ClientTaker' = EnteredTaker(b, market, side, price, qty, tif, participant)
<1> DEFINE t == Entered(b, market, side, price, qty, tif, participant)
<1>1. /\ t.active = TRUE /\ t.market = market /\ t.side = side /\ t.price = price
      /\ t.qty = qty /\ t.remaining = qty /\ t.tif = tif /\ t.participant = participant
      /\ t.id = IdFor(AllocSlot(b), AllocatedSlot(b))
  BY DEF Entered
<1> HIDE DEF t
<1>2. call' = t
  BY DEF t
<1> QED BY <1>1, <1>2 DEF ClientTaker, EnteredTaker

(* No order at rest goes by the handle of a slot just taken from the pool.  *)
LEMMA HandleIsNew ==
  ASSUME NEW b \in Book, CanAlloc(b), Partitioned(b, {}), Genuine(b)
  PROVE  /\ IdFor(AllocSlot(b), AllocatedSlot(b)) \in OrderId
         /\ \A o \in SeenIn(b) : o.id # IdFor(AllocSlot(b), AllocatedSlot(b))
<1> DEFINE s == AllocatedSlot(b)
           c == AllocSlot(b)
<1>1. s \in Slot /\ c \in Book /\ s \notin RestingSlots(b)
  BY AllocType, AllocSeen
<1> HIDE DEF s, c
<1>2. IdFor(c, s) \in OrderId /\ IdFor(c, s).slot = s
  BY <1>1, IdForType DEF IdFor, MakeHandle
<1>3. \A t \in RestingSlots(b) : Seen(b, t).id = IdFor(b, t) /\ IdFor(b, t).slot = t
  BY DEF Genuine, Seen, IdFor, MakeHandle
<1>4. \A t \in RestingSlots(b) : Seen(b, t).id # IdFor(c, s)
  BY <1>1, <1>2, <1>3
<1> QED BY <1>2, <1>4 DEF SeenIn, s, c

(* The prices a limit order is admitted at are those of the ladder.         *)
LEMMA AdmittedOnLadder ==
  ASSUME NEW price \in Int, price >= MinPrice, price <= MaxPrice,
         (price - MinPrice) % TickSize = 0
  PROVE  price \in {ToPrice(i) : i \in Index} \cup {0}
<1>1. ToIndex(price) \in Index /\ ToPrice(ToIndex(price)) = price
  BY ToIndexType, OnTick
<1> QED BY <1>1

LEMMA EnteredTakerType ==
  ASSUME NEW b \in Book, CanAlloc(b), Partitioned(b, {}), Genuine(b),
         NEW market \in BOOLEAN, NEW side \in Side,
         NEW price \in {ToPrice(i) : i \in Index} \cup {0}, NEW qty \in Quantity,
         NEW tif \in TimeInForce, NEW participant \in Participants
  PROVE  EnteredTaker(b, market, side, price, qty, tif, participant) \in PriceTime!Taker
<1>1. IdFor(AllocSlot(b), AllocatedSlot(b)) \in OrderId
  BY HandleIsNew
<1> QED BY <1>1 DEF EnteredTaker, PriceTime!Taker, PriceTime!Side, Side,
                    PriceTime!TimeInForce, TimeInForce

(* Entering an order leaves the orders at rest alone.                       *)
LEMMA AllocatedSeen ==
  ASSUME NEW b \in Book, CanAlloc(b), Partitioned(b, {}), Genuine(b)
  PROVE  /\ SeenIn(AllocSlot(b)) = SeenIn(b)
         /\ SeenIn(FreeSlot(AllocSlot(b), AllocatedSlot(b))) = SeenIn(b)
<1> DEFINE s == AllocatedSlot(b)
           c == AllocSlot(b)
<1>1. /\ s \in Slot /\ c \in Book /\ s \notin RestingSlots(b)
      /\ RestingSlots(c) = RestingSlots(b) /\ SameSeen(b, c, RestingSlots(b))
      /\ Genuine(c)
  BY AllocType, AllocSeen, AllocGenuine
<1> HIDE DEF s, c
<1>2. SeenIn(c) = SeenIn(b)
  BY <1>1, SeenKept
<1>3. /\ RestingSlots(FreeSlot(c, s)) = RestingSlots(c)
      /\ SameSeen(c, FreeSlot(c, s), RestingSlots(c))
  BY <1>1, FreeGenuine
<1>4. SeenIn(FreeSlot(c, s)) = SeenIn(c)
  BY <1>3, SeenKept
<1> QED BY <1>2, <1>4 DEF s, c

(* The abstract book adds up in the same way.                               *)
LEMMA SameSum ==
  ASSUME NEW f
  PROVE  PriceTime!SumFunction(f) = SumFunctionOnSet(f, DOMAIN f)
BY DEF PriceTime!SumFunction, PriceTime!SumFunctionOnSet, PriceTime!FoldFunctionOnSet,
       PriceTime!MapThenFoldSet, SumFunctionOnSet, FoldFunctionOnSet, MapThenFoldSet

(* What a limit order can reach is available to it, order by order.         *)
LEMMA AvailableIsOffered ==
  ASSUME Genuine(book), book \in Book, NEW t, NEW side, NEW limit,
         t.side = side, ~ t.market, t.price = limit
  PROVE  PriceTime!Available(t) = Offered(book, side, limit)
<1> DEFINE reach == InReachOf(book, side, limit)
           m == [s \in reach |-> Seen(book, s)]
           f == Remaining(book)
           makers == PriceTime!Makers(t)
           g == [o \in makers |-> o.remaining]
<1>1. makers = {m[s] : s \in reach}
  <2>1. /\ \A s \in RestingSlots(book) : ClientOrder(s) = Seen(book, s)
        /\ \A s : Seen(book, s).side = book.pool[s].side
        /\ \A s : Seen(book, s).price = book.pool[s].price
    BY DEF ClientOrder, Seen
  <2>2. \A p : PriceTime!InReach(t, p) <=> WithinLimit(side, p, limit)
    BY DEF PriceTime!InReach, WithinLimit
  <2>3. makers = {o \in {ClientOrder(s) : s \in RestingSlots(book)} :
                    o.side = Opposite(side) /\ PriceTime!InReach(t, o.price)}
    BY DEF PriceTime!Makers, PriceTime!Opposite, Opposite
  <2>4. reach \subseteq RestingSlots(book)
    BY DEF InReachOf
  <2>5. \A s \in RestingSlots(book) :
          s \in reach <=> /\ ClientOrder(s).side = Opposite(side)
                          /\ PriceTime!InReach(t, ClientOrder(s).price)
    BY <2>1, <2>2 DEF InReachOf
  <2>6. \A s \in reach : m[s] = ClientOrder(s)
    BY <2>1, <2>4
  <2> HIDE DEF reach, makers, m
  <2> QED BY <2>3, <2>4, <2>5, <2>6
<1>2. IsFiniteSet(reach) /\ reach \subseteq RestingSlots(book)
  <2>1. reach \in SUBSET RestingSlots(book)
    BY DEF InReachOf
  <2> QED BY <2>1, OrdersFinite, FS_Subset
<1>3. \A s \in reach : f[s] \in Int /\ f[s] = g[m[s]]
  <2> SUFFICES ASSUME NEW s \in reach PROVE f[s] \in Int /\ f[s] = g[m[s]]
    OBVIOUS
  <2>1. s \in Slot /\ f[s] = book.pool[s].remaining /\ book.pool[s].remaining \in Nat
    BY <1>2, TotalType DEF RestingSlots
  <2>2. m[s] \in makers /\ m[s].remaining = book.pool[s].remaining
    BY <1>1 DEF Seen
  <2> QED BY <2>1, <2>2
<1>4. \A r, s \in reach : m[r] = m[s] => r = s
  <2>1. \A s \in reach : m[s].seq = book.pool[s].seq
    BY DEF Seen
  <2> QED BY <1>2, <2>1 DEF Genuine
<1> HIDE DEF reach, m, f, makers, g
<1>5. SumFunctionOnSet(f, reach) = SumFunctionOnSet(g, {m[s] : s \in reach})
  BY <1>2, <1>3, <1>4, SumRenamed
<1>6. PriceTime!Available(t) = SumFunctionOnSet(g, makers)
  <2>1. PriceTime!Available(t) = PriceTime!SumFunction(g)
    BY DEF PriceTime!Available, g, makers
  <2>2. DOMAIN g = makers
    BY DEF g
  <2> QED BY <2>1, <2>2, SameSum
<1> QED BY <1>1, <1>5, <1>6 DEF Offered, f, reach
(* A limit order that is not rejected is submitted; a FOK order only when   *)
(* what is available covers it.                                             *)
LEMMA SubmitLimitSubmits ==
  ASSUME TotalsInvariant, NEW side \in Side, NEW price \in Int, NEW qty \in Quantity,
         NEW tif \in TimeInForce, NEW participant \in Participants,
         SubmitLimit(side, price, qty, tif, participant)
  PROVE  PriceTime!Submit \/ UNCHANGED PriceTime!vars
<1> DEFINE t == EnteredTaker(book, FALSE, side, price, qty, tif, participant)
           reason == LimitReject(book, side, price, qty, tif)
<1>1. /\ book \in Book /\ Genuine(book) /\ Partitioned(book, {}) /\ ~ call.active
      /\ Summarised(book) /\ TotalsExact(book)
  BY NowSound DEF TotalsInvariant, ClientInvariant, TouchInvariant, SubmitLimit, MayEnter
<1>2. CASE reason # "None"
  <2>1. book' = book /\ UNCHANGED <<call, stp, nextSeq, trades>>
    BY <1>2 DEF SubmitLimit, EnterLimit, Reject
  <2> QED BY <2>1, Stutters
<1>3. CASE reason = "None"
  <2>1. /\ CanAlloc(book) /\ book' = AllocSlot(book)
        /\ call' = Entered(book, FALSE, side, price, qty, tif, participant)
        /\ UNCHANGED <<stp, nextSeq, trades>>
    BY <1>3 DEF SubmitLimit, EnterLimit
  <2>2. ClientTaker' = t
    BY <2>1, EnteredSeen
  <2>3. /\ t.active /\ ~ t.market /\ t.side = side /\ t.price = price /\ t.qty = qty
        /\ t.remaining = qty /\ t.tif = tif
        /\ t.id = IdFor(AllocSlot(book), AllocatedSlot(book))
    BY DEF EnteredTaker
  <2>4. /\ qty # 0 /\ price >= MinPrice /\ price <= MaxPrice
        /\ (price - MinPrice) % TickSize = 0
    BY <1>3, AdmittedPrice
  <2>5. t \in PriceTime!Taker
    BY <1>1, <2>1, <2>4, AdmittedOnLadder, EnteredTakerType
  <2>6. \A o \in {ClientOrder(s) : s \in RestingSlots(book)} : o.id # t.id
    BY <1>1, <2>1, <2>3, HandleIsNew, OrdersSeen
  <2>7. PriceTime!Enters(t)
    <3>1. qty > 0
      BY <2>4 DEF Quantity
    <3> HIDE DEF t
    <3> QED BY <2>3, <2>5, <2>6, <3>1 DEF PriceTime!Enters
  <2>8. tif = "FOK" => PriceTime!Available(t) >= t.qty
    <3> SUFFICES ASSUME tif = "FOK" PROVE PriceTime!Available(t) >= qty
      BY <2>3
    <3> DEFINE x == Offered(book, side, price)
    <3>1. Fillable(book, side, price) = x % QtyMod
      BY <1>1, FillableIsOffered
    <3>2. x \in Nat
      <4>1. InReachOf(book, side, price) \in SUBSET RestingSlots(book)
            /\ \A s \in InReachOf(book, side, price) : s \in Slot
        BY DEF InReachOf, RestingSlots
      <4>2. IsFiniteSet(InReachOf(book, side, price))
        BY <4>1, OrdersFinite, FS_Subset
      <4>3. \A s \in InReachOf(book, side, price) :
              Remaining(book)[s] \in Nat /\ Remaining(book)[s] \in Int
        <5>1. \A s \in Slot : /\ Remaining(book)[s] = book.pool[s].remaining
                              /\ book.pool[s].remaining \in Nat
          BY <1>1, TotalType
        <5> QED BY <4>1, <5>1
      <4> QED BY <4>2, <4>3, SumType DEF Offered
    <3>3. PriceTime!Available(t) = x
      BY <1>1, <2>3, AvailableIsOffered
    <3>4. QtyMod \in Nat /\ QtyMod > 0 /\ qty \in Nat
      BY WidthAssumption DEF Quantity
    <3>5. ~ (x % QtyMod < qty)
      BY <1>3, <3>1, <2>4 DEF LimitReject
    <3> HIDE DEF x, t
    <3>6. x % QtyMod <= x /\ x % QtyMod \in Int
      <4>1. /\ x = QtyMod * (x \div QtyMod) + (x % QtyMod)
            /\ x % QtyMod \in 0 .. QtyMod - 1 /\ x \div QtyMod \in Int
        BY <3>2, <3>4, ModSplit
      <4>2. CASE x < QtyMod
        BY <3>2, <3>4, <4>2
      <4>3. CASE x >= QtyMod
        BY <3>2, <3>4, <4>1, <4>3
      <4> QED BY <3>2, <3>4, <4>2, <4>3
    <3> QED BY <3>2, <3>3, <3>4, <3>5, <3>6
  <2>9. {ClientOrder(s) : s \in RestingSlots(book)}' = {ClientOrder(s) : s \in RestingSlots(book)}
    BY <1>1, <2>1, AllocatedSeen, OrdersSeen
  <2>10. ~ ClientTaker.active /\ ClientTape' = ClientTape
    BY <1>1, <2>1 DEF ClientTaker, ClientTape
  <2> HIDE DEF t
  <2> QED BY <2>1, <2>2, <2>3, <2>7, <2>8, <2>9, <2>10 DEF PriceTime!Submit
<1> QED BY <1>2, <1>3

(* A market order is submitted when there is an order it can trade with.    *)
LEMMA SubmitMarketSubmits ==
  ASSUME ClientInvariant, NEW side \in Side, NEW qty \in Quantity,
         NEW participant \in Participants, SubmitMarket(side, qty, participant)
  PROVE  PriceTime!Submit \/ UNCHANGED PriceTime!vars
<1> DEFINE t == EnteredTaker(book, TRUE, side, 0, qty, "IOC", participant)
           maker == Opposite(side)
<1>1. /\ book \in Book /\ Genuine(book) /\ Partitioned(book, {}) /\ ~ call.active
      /\ Summarised(book) /\ maker \in Side
  BY NowSound DEF ClientInvariant, TouchInvariant, SubmitMarket, MayEnter, Opposite, Side
<1>2. \/ book' = book /\ UNCHANGED <<call, stp, nextSeq, trades>>
      \/ /\ qty # 0 /\ HasBest(book, maker) /\ CanAlloc(book)
         /\ book' = FreeSlot(AllocSlot(book), AllocatedSlot(book))
         /\ call' = Entered(book, TRUE, side, 0, qty, "IOC", participant)
         /\ UNCHANGED <<stp, nextSeq, trades>>
  BY DEF SubmitMarket, Reject
<1>3. CASE book' = book /\ UNCHANGED <<call, stp, nextSeq, trades>>
  BY <1>3, Stutters
<1>4. CASE /\ qty # 0 /\ HasBest(book, maker) /\ CanAlloc(book)
           /\ book' = FreeSlot(AllocSlot(book), AllocatedSlot(book))
           /\ call' = Entered(book, TRUE, side, 0, qty, "IOC", participant)
           /\ UNCHANGED <<stp, nextSeq, trades>>
  <2>1. ClientTaker' = t
    BY <1>4, EnteredSeen
  <2>2. /\ t.active /\ t.market /\ t.side = side /\ t.qty = qty
        /\ t.remaining = qty /\ t.tif = "IOC"
        /\ t.id = IdFor(AllocSlot(book), AllocatedSlot(book))
    BY DEF EnteredTaker
  <2>3. t \in PriceTime!Taker
    BY <1>1, <1>4, EnteredTakerType DEF TimeInForce
  <2>4. \A o \in {ClientOrder(s) : s \in RestingSlots(book)} : o.id # t.id
    BY <1>1, <1>4, <2>2, HandleIsNew, OrdersSeen
  <2>5. PriceTime!Enters(t)
    <3>1. qty > 0
      BY <1>4 DEF Quantity
    <3> HIDE DEF t
    <3> QED BY <2>2, <2>3, <2>4, <3>1 DEF PriceTime!Enters
  <2>6. PriceTime!Makers(t) # {}
    <3>1. book.best[maker] \in book.bits[maker] /\ book.bits[maker] \in SUBSET Index
      BY <1>1, <1>4 DEF Summarised, Extreme, HasBest, Book
    <3>2. PICK s : s \in OrdersAt(book, maker, book.best[maker])
      BY <1>1, <3>1 DEF Summarised, BitsExact
    <3>3. s \in RestingSlots(book) /\ book.pool[s].side = maker
      BY <3>2 DEF OrdersAt
    <3>4. ClientOrder(s).side = maker
      BY <3>3 DEF ClientOrder
    <3>5. ClientOrder(s) \in PriceTime!Makers(t)
      BY <2>2, <3>3, <3>4 DEF PriceTime!Makers, PriceTime!InReach, PriceTime!Opposite, Opposite
    <3> QED BY <3>5
  <2>7. {ClientOrder(s) : s \in RestingSlots(book)}' = {ClientOrder(s) : s \in RestingSlots(book)}
    BY <1>1, <1>4, AllocatedSeen, OrdersSeen
  <2>8. ~ ClientTaker.active /\ ClientTape' = ClientTape
    BY <1>1, <1>4 DEF ClientTaker, ClientTape
  <2> HIDE DEF t
  <2> QED BY <1>4, <2>1, <2>2, <2>5, <2>6, <2>7, <2>8 DEF PriceTime!Submit
<1> QED BY <1>2, <1>3, <1>4

(* The slot remove_order() frees is the one alloc_slot() takes next, under  *)
(* another generation.                                                      *)
LEMMA ReentryIsNew ==
  ASSUME NEW b \in Book, NEW s \in RestingSlots(b), Linked(b), EndsExact(b), Genuine(b)
  PROVE  LET c == RemoveOrder(b, s)
         IN IdFor(AllocSlot(c), AllocatedSlot(c)) # Seen(b, s).id
<1> DEFINE c == RemoveOrder(b, s)
           d == AllocSlot(c)
<1>1. s \in Slot /\ c \in Book /\ c.free = Append(b.free, s) /\ c.gen = b.gen
  BY RemoveShape, RemoveSeen DEF RestingSlots
<1> HIDE DEF c
<1>2. c.free # << >> /\ AllocatedSlot(c) = s
  <2>1. b.free \in Seq(Slot)
    BY DEF Book
  <2> QED BY <1>1, <2>1 DEF AllocatedSlot
<1>3. d.gen = [c.gen EXCEPT ![s] = (@ + 1) % GenMod]
  BY <1>1, <1>2 DEF AllocSlot, Book
<1>4. c.gen[s] \in 0 .. GenMod - 1 /\ c.gen \in [Slot -> Generation]
  BY <1>1 DEF Book, Generation
<1>5. (c.gen[s] + 1) % GenMod # c.gen[s]
  <2> DEFINE g == c.gen[s]
  <2>1. g \in 0 .. GenMod - 1 /\ GenMod \in Nat /\ GenMod > 1
    BY <1>4, WidthAssumption
  <2> HIDE DEF g
  <2>2. g + 1 < GenMod => (GenMod * 0 + (g + 1)) % GenMod = g + 1
    BY <2>1, ModUnique
  <2>3. g + 1 = GenMod => (GenMod * 1 + 0) % GenMod = 0
    BY <2>1, ModUnique
  <2>4. (g + 1) % GenMod # g
    BY <2>1, <2>2, <2>3
  <2> QED BY <2>4 DEF g
<1>6. d.gen[s] # b.gen[s]
  BY <1>1, <1>3, <1>4, <1>5
<1>7. Seen(b, s).id = IdFor(b, s)
  BY DEF Genuine, Seen
<1> HIDE DEF d
<1>8. IdFor(d, s).gen # IdFor(b, s).gen
  BY <1>6 DEF IdFor, MakeHandle
<1> QED BY <1>2, <1>7, <1>8 DEF c, d
(* Each rung of the ladder is a price a limit order is admitted at.         *)
LEMMA LadderAdmitted ==
  ASSUME NEW i \in Index
  PROVE  /\ ToPrice(i) \in Int
         /\ ToPrice(i) >= MinPrice /\ ToPrice(i) <= MaxPrice
         /\ (ToPrice(i) - MinPrice) % TickSize = 0
<1> DEFINE d == MaxPrice - MinPrice
           q == d \div TickSize
           k == q - i
<1>1. /\ MinPrice \in Int /\ MaxPrice \in Int /\ TickSize \in Nat /\ TickSize > 0
      /\ d \in Nat /\ i \in Nat /\ i <= q
  <2>1. /\ MinPrice \in Int /\ MaxPrice \in Int /\ TickSize \in Nat /\ TickSize > 0
        /\ d \in Nat /\ q \in Int
    BY BandAssumption
  <2>2. Index = 0 .. (q + 1) - 1
    BY DEF Index, LadderSize
  <2> HIDE DEF q, d
  <2>3. i \in 0 .. (q + 1) - 1
    BY <2>2
  <2> QED BY <2>1, <2>3
<1>2. /\ d = TickSize * q + (d % TickSize) /\ d % TickSize \in 0 .. TickSize - 1
      /\ q \in Int
  <2> HIDE DEF d
  <2> QED BY <1>1, ModSplit
<1> DEFINE r == d % TickSize
<1>3. k \in Nat
  BY <1>1, <1>2
<1>4. q = i + k /\ r \in Nat
  BY <1>1, <1>2
<1> HIDE DEF q, k, r
<1>5. TickSize * q = TickSize * i + TickSize * k
  BY <1>1, <1>3, <1>4
<1>6. TickSize * k \in Nat /\ TickSize * i \in Nat /\ i * TickSize = TickSize * i
  BY <1>1, <1>3
<1>7. d = (TickSize * i + TickSize * k) + r
  BY <1>2, <1>5 DEF r
<1>8. d = MaxPrice - MinPrice
  OBVIOUS
<1> HIDE DEF d
<1>9. ToPrice(i) = MinPrice + TickSize * i
  BY <1>6 DEF ToPrice
<1>10. ToPrice(i) \in Int /\ ToPrice(i) >= MinPrice /\ ToPrice(i) <= MaxPrice
  BY <1>1, <1>4, <1>6, <1>7, <1>8, <1>9
<1>11. (TickSize * i + 0) % TickSize = 0
  BY <1>1, ModUnique
<1>12. ToPrice(i) - MinPrice = TickSize * i + 0
  BY <1>1, <1>6, <1>9
<1> QED BY <1>10, <1>11, <1>12

(* What an increase enters anew is never rejected.                          *)
LEMMA AmendUpReenters ==
  ASSUME ClientInvariant, NEW id \in OrderId, NEW newQty \in Quantity, AmendUp(id, newQty)
  PROVE  LET o == book.pool[id.slot]
             b == RemoveOrder(book, id.slot)
             q == QtySub(newQty, AlreadyFilled(id))
         IN /\ id.slot \in RestingSlots(book) /\ ~ call.active
            /\ b \in Book /\ Genuine(b) /\ Partitioned(b, {})
            /\ o.side \in Side /\ o.price \in Int /\ o.participant \in Participants
            /\ o.price = ToPrice(o.level) /\ o.level \in Index
            /\ o.remaining > 0 /\ q \in Quantity /\ q > o.remaining /\ q > 0
            /\ CanAlloc(b) /\ book' = AllocSlot(b)
            /\ call' = Entered(b, FALSE, o.side, o.price, q, "GTC", o.participant)
            /\ UNCHANGED <<stp, nextSeq, nextTradeSeq, trades, lastTrade, stats, result>>
<1> DEFINE s == id.slot
           b == RemoveOrder(book, s)
           o == book.pool[s]
           q == QtySub(newQty, AlreadyFilled(id))
<1>1. /\ ~ call.active /\ Resolve(book, id) # NoSlot /\ q > o.remaining
      /\ EnterLimit(b, o.side, o.price, q, "GTC", o.participant)
  BY DEF AmendUp, MayEnter
<1>2. /\ s \in RestingSlots(book) /\ s \in Slot /\ book \in Book /\ TypeOK
      /\ Genuine(book)
  BY <1>1, ResolvedRests, NowSound
  DEF ClientInvariant, TouchInvariant, RestingSlots
<1>3. b \in Book /\ Genuine(b) /\ Partitioned(b, {})
  BY <1>1, <1>2, RemoveType, RemoveIdClient, RemoveIdSound
  DEF ClientInvariant, TouchInvariant, Sound
<1>4. /\ o.side \in Side /\ o.price \in Int /\ o.participant \in Participants
      /\ o.remaining \in Nat /\ o.remaining > 0
      /\ o.price = ToPrice(o.level) /\ o.level \in Index
  BY <1>2, OrderType DEF Order, Genuine, Quantity
<1>5. q \in Quantity /\ q > 0 /\ q # 0
  <2>1. q \in Quantity
    BY <1>2, AmendedQtyType
  <2>2. q \in Nat
    BY <2>1 DEF Quantity
  <2> HIDE DEF q, o
  <2> QED BY <1>1, <1>4, <2>1, <2>2
<1> HIDE DEF b, o, q, s
<1>6. LimitReject(b, o.side, o.price, q, "GTC") = "None"
  <2>1. /\ o.price >= MinPrice /\ o.price <= MaxPrice
        /\ (o.price - MinPrice) % TickSize = 0
    BY <1>4, LadderAdmitted
  <2>2. ~ (o.price < MinPrice \/ o.price > MaxPrice)
    BY <1>4, <2>1, BandAssumption
  <2> QED BY <1>5, <2>1, <2>2 DEF LimitReject
<1>7. /\ CanAlloc(b) /\ book' = AllocSlot(b)
      /\ call' = Entered(b, FALSE, o.side, o.price, q, "GTC", o.participant)
      /\ UNCHANGED <<stp, nextSeq, nextTradeSeq, trades, lastTrade, stats, result>>
  BY <1>1, <1>6 DEF EnterLimit
<1> QED BY <1>1, <1>2, <1>3, <1>4, <1>5, <1>7 DEF b, o, q, s

(* An increase gives the order up for a new one at the same price.          *)
LEMMA AmendUpReplaces ==
  ASSUME TotalsInvariant, NEW id \in OrderId, NEW newQty \in Quantity, AmendUp(id, newQty)
  PROVE  PriceTime!Replace
<1> DEFINE s == id.slot
           b == RemoveOrder(book, s)
           o == book.pool[s]
           q == QtySub(newQty, AlreadyFilled(id))
           t == EnteredTaker(b, FALSE, o.side, o.price, q, "GTC", o.participant)
<1>1. /\ s \in RestingSlots(book) /\ ~ call.active
      /\ b \in Book /\ Genuine(b) /\ Partitioned(b, {})
      /\ o.side \in Side /\ o.price \in Int /\ o.participant \in Participants
      /\ o.price = ToPrice(o.level) /\ o.level \in Index
      /\ o.remaining > 0 /\ q \in Quantity /\ q > o.remaining /\ q > 0
      /\ CanAlloc(b) /\ book' = AllocSlot(b)
      /\ call' = Entered(b, FALSE, o.side, o.price, q, "GTC", o.participant)
      /\ UNCHANGED <<stp, nextSeq, nextTradeSeq, trades, lastTrade, stats, result>>
  BY AmendUpReenters DEF TotalsInvariant
<1>2. /\ book \in Book /\ Linked(book) /\ EndsExact(book) /\ Genuine(book)
      /\ ClientInvariant
  BY NowSound DEF TotalsInvariant, ClientInvariant, TouchInvariant
<1>3. SeenIn(b) = SeenIn(book) \ {Seen(book, s)} /\ Seen(book, s) \in SeenIn(book)
  BY <1>1, <1>2, RemovedSeen DEF SeenIn
<1>4. IdFor(AllocSlot(b), AllocatedSlot(b)) # Seen(book, s).id
  BY <1>1, <1>2, ReentryIsNew
<1>5. /\ Seen(book, s).side = o.side /\ Seen(book, s).price = o.price
      /\ Seen(book, s).participant = o.participant /\ Seen(book, s).remaining = o.remaining
  BY DEF Seen
<1>6. "GTC" \in TimeInForce /\ "GTC" # "FOK"
  BY DEF TimeInForce
<1> HIDE DEF b, o, q, s
<1>7. ClientTaker' = t
  BY <1>1, EnteredSeen
<1>8. /\ t.active /\ ~ t.market /\ t.side = o.side /\ t.price = o.price /\ t.qty = q
       /\ t.remaining = q /\ t.tif = "GTC" /\ t.participant = o.participant
       /\ t.id = IdFor(AllocSlot(b), AllocatedSlot(b))
  BY DEF EnteredTaker
<1>9. t \in PriceTime!Taker
  <2>1. o.price \in {ToPrice(i) : i \in Index} \cup {0}
    BY <1>1
  <2> QED BY <1>1, <1>6, <2>1, EnteredTakerType
<1> HIDE DEF t
<1>10. \A x \in {ClientOrder(r) : r \in RestingSlots(book)} : x.id # t.id
  <2>1. \A x \in SeenIn(b) : x.id # t.id
    BY <1>1, <1>8, HandleIsNew
  <2>2. \A x \in SeenIn(book) : x.id # t.id
    BY <1>3, <1>4, <1>8, <2>1
  <2> QED BY <2>2, OrdersSeen
<1>11. PriceTime!Enters(t)
  <2>1. q > 0
    BY <1>1
  <2> QED BY <1>8, <1>9, <1>10, <2>1 DEF PriceTime!Enters
<1>12. SeenIn(book') = SeenIn(book) \ {Seen(book, s)}
  BY <1>1, <1>3, AllocatedSeen
<1>13. \E x \in {ClientOrder(r) : r \in RestingSlots(book)} :
         /\ {ClientOrder(r) : r \in RestingSlots(book)}' =
              {ClientOrder(r) : r \in RestingSlots(book)} \ {x}
         /\ t.id # x.id
         /\ t.side = x.side /\ t.price = x.price /\ t.participant = x.participant
         /\ t.qty > x.remaining
  <2>1. Seen(book, s) \in {ClientOrder(r) : r \in RestingSlots(book)}
    BY <1>3, OrdersSeen
  <2>2. {ClientOrder(r) : r \in RestingSlots(book)}' =
          {ClientOrder(r) : r \in RestingSlots(book)} \ {Seen(book, s)}
    BY <1>12, OrdersSeen
  <2> QED BY <1>1, <1>4, <1>5, <1>8, <2>1, <2>2
<1>14. ~ ClientTaker.active /\ ClientTape' = ClientTape
  BY <1>1 DEF ClientTaker, ClientTape
<1>15. UNCHANGED <<stp, nextSeq>>
  BY <1>1
<1> QED BY <1>7, <1>8, <1>11, <1>13, <1>14, <1>15 DEF PriceTime!Replace
-------------------------------------------------------------------------------
LEMMA InitImplements == Init => PriceTime!Init
<1> SUFFICES ASSUME Init PROVE PriceTime!Init
  OBVIOUS
<1>1. RestingSlots(book) = {}
  BY DEF Init, FreshBook, RestingSlots, DefaultOrder
<1>2. {ClientOrder(s) : s \in RestingSlots(book)} = {}
  BY <1>1
<1>3. ClientTape = << >>
  BY DEF Init, ClientTape
<1>4. ClientTaker = PriceTime!NoTaker
  BY DEF Init, ClientTaker, Idle, PriceTime!NoTaker, PriceTime!InvalidOrderId, InvalidOrderId,
         PriceTime!MakeHandle, MakeHandle
<1> QED BY <1>2, <1>3, <1>4 DEF PriceTime!Init, Init

LEMMA StepImplements ==
  TotalsInvariant /\ [Next]_vars => [PriceTime!Next]_PriceTime!vars
<1> SUFFICES ASSUME TotalsInvariant, [Next]_vars
             PROVE  PriceTime!Next \/ UNCHANGED PriceTime!vars
  OBVIOUS
<1> DEFINE Goal == PriceTime!Next \/ UNCHANGED PriceTime!vars
<1> USE InputAssumption
<1>1. ClientInvariant /\ book' \in Book
  BY TotalsInvariantNext
  DEF TotalsInvariant, ClientInvariant, TouchInvariant, SlotInvariant, TypeOK
<1>2. ASSUME NEW side \in Side, NEW price \in Prices, NEW qty \in Quantities,
             NEW tif \in Tifs, NEW participant \in Participants,
             SubmitLimit(side, price, qty, tif, participant)
      PROVE  Goal
  BY <1>2, SubmitLimitSubmits DEF PriceTime!Next
<1>3. ASSUME NEW side \in Side, NEW qty \in Quantities, NEW participant \in Participants,
             SubmitMarket(side, qty, participant)
      PROVE  Goal
  BY <1>1, <1>3, SubmitMarketSubmits DEF PriceTime!Next
<1>4. ASSUME MatchStep PROVE Goal
  BY <1>1, <1>4, StopTakerStutters, PullMakerPulls, FillExecutes DEF MatchStep, PriceTime!Next
<1>5. ASSUME ReturnStep PROVE Goal
  BY <1>1, <1>5, ReturnLeaves, ReturnRestingRests DEF ReturnStep, PriceTime!Next
<1>6. ASSUME NEW id \in OrderId, CancelLive(id) PROVE Goal
  BY <1>1, <1>6, RemovalCancels DEF CancelLive, PriceTime!Next
<1>7. ASSUME NEW id \in OrderId, NEW newQty \in Quantities, AmendToCancel(id, newQty)
      PROVE  Goal
  BY <1>1, <1>7, RemovalCancels DEF AmendToCancel, PriceTime!Next
<1>8. ASSUME NEW id \in OrderId, NEW newQty \in Quantities, AmendDown(id, newQty)
      PROVE  Goal
  BY <1>1, <1>8, AmendDownReduces DEF PriceTime!Next
<1>9. ASSUME NEW id \in OrderId, NEW newQty \in Quantities, AmendUp(id, newQty)
      PROVE  Goal
  BY <1>9, AmendUpReplaces DEF PriceTime!Next
<1>10. ASSUME NEW mode \in StpModes, SetSelfTradePrevention(mode) PROVE Goal
  BY <1>10, SetStpSetsMode DEF PriceTime!Next
<1>11. ASSUME ClearTrades \/ Clear PROVE Goal
  BY <1>11, ClearTradesClearsTape, ClearClears DEF PriceTime!Next
<1>12. ASSUME UNCHANGED <<book, call, stp, nextSeq, trades>> PROVE Goal
  BY <1>12, Stutters
<1> HIDE DEF Goal
<1>13. Goal
  BY <1>2, <1>3, <1>4, <1>5, <1>6, <1>7, <1>8, <1>9, <1>10, <1>11, <1>12
  DEF Next, EngineStep, CancelUnknown, AmendUnknown, vars
<1> QED BY <1>13 DEF Goal

(* Every behaviour of the engine is one of the price-time priority book: a  *)
(* trade is always with the best price and, at that price, with the order   *)
(* that arrived first; a taker leaves nothing in its reach behind; a        *)
(* reduction keeps its place and an increase gives it up; no id in use is   *)
(* handed out again.  For every band, pool, word and set of inputs.         *)
THEOREM RefinementCorrect == Spec => ImplementsPriceTime
<1>1. Spec => []TotalsInvariant
  BY TotalsInvariantInit, TotalsInvariantNext, PTL DEF Spec
<1> QED BY <1>1, InitImplements, StepImplements, PTL DEF Spec, ImplementsPriceTime, PriceTime!Spec
-------------------------------------------------------------------------------
(* Rows of a depth query: the walk over the levels lists each of them once. *)

(* A walk over the levels meets every level with orders.                    *)
LEMMA WalkedIsBits ==
  ASSUME NEW b \in Book, Summarised(b), NEW side \in Side
  PROVE  /\ Walked(b, side) = b.bits[side]
         /\ Walked(b, side) \in SUBSET Index
         /\ \A i \in Walked(b, side) : i \in Int /\ i \in Index
         /\ IsFiniteSet(Walked(b, side))
         /\ HasBest(b, side) <=> b.bits[side] # {}
         /\ HasBest(b, side) => b.best[side] \in Walked(b, side)
<1>1. /\ b.bits[side] \in SUBSET Index /\ IsFiniteSet(Index) /\ NPos \notin Index
      /\ \A i \in Index : i \in Int
  BY LadderSizeType, FS_Interval DEF Book, Index, NPos
<1>2. Extreme(b.bits[side], b.best[side], side)
  BY DEF Summarised
<1>3. HasBest(b, side) <=> b.bits[side] # {}
  BY <1>1, <1>2 DEF Extreme, HasBest
<1>4. Walked(b, side) = b.bits[side]
  BY <1>2, <1>3 DEF Extreme, Walked
<1>5. HasBest(b, side) => b.best[side] \in Walked(b, side)
  BY <1>2, <1>3, <1>4 DEF Extreme
<1>6. IsFiniteSet(b.bits[side])
  BY <1>1, FS_Subset
<1> QED BY <1>1, <1>3, <1>4, <1>5, <1>6

(* The levels a walk meets are in a total order.                            *)
LEMMA BetterOrder ==
  ASSUME NEW side \in Side
  PROVE  /\ \A i \in Int : ~ Better(side, i, i)
         /\ \A i, j \in Int : i = j \/ Better(side, i, j) \/ Better(side, j, i)
         /\ \A i, j \in Int : ~ (Better(side, i, j) /\ Better(side, j, i))
         /\ \A i, j, k \in Int : Better(side, i, j) /\ Better(side, j, k) => Better(side, i, k)
<1>1. CASE side = "Buy"
  BY <1>1 DEF Better
<1>2. CASE side = "Sell"
  BY <1>2 DEF Better
<1> QED BY <1>1, <1>2 DEF Side

(* The levels nearer than one of the walk are fewer than those nearer than  *)
(* a later one.                                                             *)
LEMMA NearerGrows ==
  ASSUME NEW b \in Book, Summarised(b), NEW side \in Side,
         NEW i \in Walked(b, side), NEW j \in Walked(b, side), Better(side, i, j)
  PROVE  /\ Nearer(b, side, i) \cup {i} \subseteq Nearer(b, side, j)
         /\ Cardinality(Nearer(b, side, i)) < Cardinality(Nearer(b, side, j))
<1> DEFINE W == Walked(b, side)
           N == Nearer(b, side, i)
           M == Nearer(b, side, j)
<1>1. IsFiniteSet(W) /\ \A k \in W : k \in Int
  BY WalkedIsBits
<1>2. N \cup {i} \subseteq M /\ i \notin N /\ M \in SUBSET W
  BY <1>1, BetterOrder DEF Nearer
<1> HIDE DEF W, N, M
<1>3. IsFiniteSet(M)
  BY <1>1, <1>2, FS_Subset
<1>4. IsFiniteSet(N)
  BY <1>2, <1>3, FS_Subset
<1>5. IsFiniteSet(N \cup {i}) /\ Cardinality(N \cup {i}) = Cardinality(N) + 1
  BY <1>2, <1>4, FS_AddElement
<1>6. Cardinality(N \cup {i}) <= Cardinality(M)
  BY <1>2, <1>3, FS_Subset
<1>7. Cardinality(N) \in Nat /\ Cardinality(M) \in Nat
  BY <1>3, <1>4, FS_CardinalityType
<1> QED BY <1>2, <1>5, <1>6, <1>7 DEF N, M

(* The rank of a level in the walk, which numbers the rows from 0.          *)
Rank(b, side) == [i \in Walked(b, side) |-> Cardinality(Nearer(b, side, i))]

LEMMA RankNumbers ==
  ASSUME NEW b \in Book, Summarised(b), NEW side \in Side
  PROVE  /\ \A i \in Walked(b, side) :
              Rank(b, side)[i] \in 0 .. Cardinality(Walked(b, side)) - 1
         /\ \A i, j \in Walked(b, side) :
              /\ Rank(b, side)[i] = Rank(b, side)[j] => i = j
              /\ Rank(b, side)[i] < Rank(b, side)[j] => Better(side, i, j)
         /\ \A n \in 0 .. Cardinality(Walked(b, side)) - 1 :
              \E i \in Walked(b, side) : Rank(b, side)[i] = n
<1> DEFINE W == Walked(b, side)
           r == Rank(b, side)
           T == 0 .. Cardinality(W) - 1
<1>1. IsFiniteSet(W) /\ (\A k \in W : k \in Int) /\ Cardinality(W) \in Nat
  BY WalkedIsBits, FS_CardinalityType
<1>2. ASSUME NEW i \in W PROVE r[i] \in T
  <2> DEFINE N == Nearer(b, side, i)
  <2>1. N \in SUBSET (W \ {i}) /\ r[i] = Cardinality(N)
    BY <1>1, BetterOrder DEF Nearer, Rank
  <2> HIDE DEF N, W
  <2>2. IsFiniteSet(W \ {i}) /\ Cardinality(W \ {i}) = Cardinality(W) - 1
    BY <1>1, FS_RemoveElement
  <2>3. IsFiniteSet(N) /\ Cardinality(N) <= Cardinality(W \ {i})
    BY <2>1, <2>2, FS_Subset
  <2>4. Cardinality(N) \in Nat
    BY <2>3, FS_CardinalityType
  <2> QED BY <1>1, <2>1, <2>2, <2>3, <2>4
<1>3. \A i, j \in W : Better(side, i, j) => r[i] < r[j]
  BY NearerGrows DEF Rank
<1>4. ASSUME NEW i \in W, NEW j \in W
      PROVE  /\ r[i] = r[j] => i = j
             /\ r[i] < r[j] => Better(side, i, j)
  <2>1. r[i] \in Int /\ r[j] \in Int /\ i \in Int /\ j \in Int
    BY <1>1, <1>2
  <2>2. i = j \/ Better(side, i, j) \/ Better(side, j, i)
    BY <2>1, BetterOrder
  <2>3. /\ Better(side, i, j) => r[i] < r[j]
        /\ Better(side, j, i) => r[j] < r[i]
    BY <1>3
  <2> HIDE DEF r
  <2> QED BY <2>1, <2>2, <2>3
<1>5. r \in Injection(W, T)
  <2>1. r \in [W -> T]
    <3>1. r = [i \in W |-> r[i]]
      BY DEF Rank
    <3> HIDE DEF r, W, T
    <3> QED BY <1>2, <3>1
  <2> HIDE DEF r, W, T
  <2> QED BY <1>4, <2>1 DEF Injection, IsInjective
<1>6. IsFiniteSet(T) /\ Cardinality(T) = Cardinality(W)
  <2> DEFINE n == Cardinality(W)
  <2> HIDE DEF n
  <2>1. n \in Nat
    BY <1>1 DEF n
  <2>2. IsFiniteSet(0 .. n - 1) /\ Cardinality(0 .. n - 1) = n
    BY <2>1, FS_Interval
  <2> QED BY <2>2 DEF n
<1> HIDE DEF W, r, T
<1>7. r \in Surjection(W, T)
  BY <1>5, <1>6, FS_Injection
<1>8. \A n \in T : \E i \in W : r[i] = n
  BY <1>7 DEF Surjection
<1> QED BY <1>2, <1>4, <1>8 DEF W, r, T

(* The whole depth: one row for each level of the walk, in its order.       *)
LevelRow(b, side, i) ==
  [price |-> ToPrice(i), qty |-> b.level[side][i].qty, orders |-> b.level[side][i].count]

LEMMA DepthRows ==
  ASSUME NEW b \in Book, Summarised(b), NEW side \in Side
  PROVE  LET rows == Depth(b, side, LadderSize)
         IN \E at :
              /\ \A d \in DOMAIN rows :
                   at[d] \in Walked(b, side) /\ rows[d] = LevelRow(b, side, at[d])
              /\ \A i \in Walked(b, side) : \E d \in DOMAIN rows : at[d] = i
              /\ \A c, d \in DOMAIN rows : c < d => Better(side, at[c], at[d])
              /\ DOMAIN rows \subseteq Nat
              /\ \A d \in DOMAIN rows : d > 1 => d - 1 \in DOMAIN rows
<1> DEFINE W == Walked(b, side)
           n == Cardinality(W)
           r == Rank(b, side)
           At(d) == CHOOSE i \in W : Cardinality(Nearer(b, side, i)) = d - 1
           rows == Depth(b, side, LadderSize)
           at == [d \in 1 .. n |-> At(d)]
<1>1. n \in Nat /\ n <= LadderSize /\ LadderSize \in Nat
  <2>1. W \in SUBSET Index /\ IsFiniteSet(Index) /\ Cardinality(Index) = LadderSize
    BY WalkedIsBits, LadderSizeType, FS_Interval DEF Index
  <2> HIDE DEF W
  <2> QED BY <2>1, FS_Subset, FS_CardinalityType, LadderSizeType
<1>2. Min({LadderSize, n}) = n
  <2> HIDE DEF n
  <2> QED BY <1>1 DEF Min
<1>3. DOMAIN rows = 1 .. n /\ \A d \in 1 .. n : rows[d] = LevelRow(b, side, at[d])
  <2>1. rows = [d \in 1 .. Min({LadderSize, n}) |-> LevelRow(b, side, At(d))]
    BY Zenon DEF Depth, LevelRow
  <2> HIDE DEF n, rows
  <2>2. rows = [d \in 1 .. n |-> LevelRow(b, side, At(d))]
    BY <1>2, <2>1
  <2> HIDE DEF At
  <2> QED BY <2>2
<1>4. /\ \A i \in W : r[i] = Cardinality(Nearer(b, side, i)) /\ r[i] \in 0 .. n - 1
      /\ \A i, j \in W : /\ r[i] = r[j] => i = j
                         /\ r[i] < r[j] => Better(side, i, j)
      /\ \A m \in 0 .. n - 1 : \E i \in W : r[i] = m
  BY RankNumbers DEF Rank
<1>5. ASSUME NEW d \in 1 .. n PROVE at[d] \in W /\ r[at[d]] = d - 1
  <2>1. \E i \in W : r[i] = d - 1
    BY <1>1, <1>4
  <2>2. \E i \in W : Cardinality(Nearer(b, side, i)) = d - 1
    BY <1>4, <2>1
  <2>3. At(d) \in W /\ Cardinality(Nearer(b, side, At(d))) = d - 1
    BY <2>2
  <2> QED BY <1>4, <2>3
<1> HIDE DEF W, n, r, rows, at
<1>6. ASSUME NEW i \in W PROVE \E d \in 1 .. n : at[d] = i
  <2>1. PICK d \in 1 .. n : d = r[i] + 1
    BY <1>1, <1>4
  <2>2. at[d] \in W /\ r[at[d]] = d - 1
    BY <1>5
  <2>3. r[at[d]] = r[i]
    BY <1>4, <2>1, <2>2
  <2> QED BY <1>4, <2>2, <2>3
<1>7. \A c, d \in 1 .. n : c < d => Better(side, at[c], at[d])
  BY <1>1, <1>4, <1>5
<1>8. 1 .. n \subseteq Nat /\ \A d \in 1 .. n : d > 1 => d - 1 \in 1 .. n
  BY <1>1
<1>9. /\ \A d \in DOMAIN rows : at[d] \in W /\ rows[d] = LevelRow(b, side, at[d])
      /\ \A i \in W : \E d \in DOMAIN rows : at[d] = i
      /\ \A c, d \in DOMAIN rows : c < d => Better(side, at[c], at[d])
      /\ DOMAIN rows \subseteq Nat
      /\ \A d \in DOMAIN rows : d > 1 => d - 1 \in DOMAIN rows
  BY <1>3, <1>5, <1>6, <1>7, <1>8
<1> QED BY <1>9 DEF W, rows

(* A rung has one price.                                                    *)
LEMMA SamePrice ==
  ASSUME NEW i \in Int, NEW j \in Int, ToPrice(i) = ToPrice(j)
  PROVE  i = j
<1>1. ToPrice(i) \in Int /\ ToPrice(j) \in Int
  BY BandAssumption DEF ToPrice
<1> QED BY <1>1, RungOrder

(* The price of a level looks up that level.                                *)
LEMMA PriceOnLadder ==
  ASSUME NEW i \in Index
  PROVE  /\ ToPrice(i) \in Int
         /\ ToPrice(i) >= MinPrice /\ ToPrice(i) <= MaxPrice
         /\ (ToPrice(i) - MinPrice) % TickSize = 0
         /\ ToIndex(ToPrice(i)) = i
<1> DEFINE d == MaxPrice - MinPrice
<1>1. i \in Nat /\ i <= d \div TickSize /\ d \in Nat /\ TickSize \in Nat /\ TickSize > 0
      /\ MinPrice \in Int /\ MaxPrice \in Int
  BY BandAssumption, LadderSizeType DEF Index, LadderSize
<1>2. /\ ToPrice(i) = MinPrice + i * TickSize
      /\ ToIndex(ToPrice(i)) = (ToPrice(i) - MinPrice) \div TickSize
  BY DEF ToPrice, ToIndex
<1>3. \A t, k \in Nat : t > 0 => (k * t) % t = 0 /\ (k * t) \div t = k /\ k * t \in Nat
  OBVIOUS
<1>4. \A t, k, e \in Nat : t > 0 /\ k <= e \div t => k * t <= e
  OBVIOUS
<1> HIDE DEF d
<1>5. i * TickSize <= d /\ i * TickSize \in Nat
      /\ (i * TickSize) % TickSize = 0 /\ (i * TickSize) \div TickSize = i
  BY <1>1, <1>3, <1>4
<1> QED BY <1>1, <1>2, <1>5 DEF d

(* depth() and qty_at() show the orders at rest, whatever the ladder, the   *)
(* pool, the word width and the calls that led to the book.                 *)
THEOREM DepthCorrect == Spec => []DepthShowsEveryOrder
<1>1. TotalsInvariant => DepthShowsEveryOrder
  <2> SUFFICES ASSUME TotalsInvariant, NEW side \in Side
               PROVE  LET rows == Depth(book, side, LadderSize)
                          At(p) == {s \in RestingSlots(book) :
                                      book.pool[s].side = side /\ book.pool[s].price = p}
                      IN /\ {rows[d].price : d \in DOMAIN rows} =
                              {book.pool[s].price :
                                 s \in {t \in RestingSlots(book) : book.pool[t].side = side}}
                         /\ \A d \in DOMAIN rows :
                              /\ d > 1 => Better(side, rows[d - 1].price, rows[d].price)
                              /\ rows[d].orders = Cardinality(At(rows[d].price))
                              /\ rows[d].qty =
                                   SumFunction([s \in At(rows[d].price) |->
                                                  book.pool[s].remaining]) % QtyMod
                              /\ QtyAt(book, side, rows[d].price) = rows[d].qty
    BY DEF DepthShowsEveryOrder
  <2> DEFINE rows == Depth(book, side, LadderSize)
             At(p) == {s \in RestingSlots(book) :
                         book.pool[s].side = side /\ book.pool[s].price = p}
             W == Walked(book, side)
  <2>1. /\ book \in Book /\ Summarised(book) /\ Genuine(book) /\ TotalsExact(book)
        /\ EndsExact(book)
    BY NowSound DEF TotalsInvariant, ClientInvariant, TouchInvariant
  <2>2. PICK at :
          /\ \A d \in DOMAIN rows : at[d] \in W /\ rows[d] = LevelRow(book, side, at[d])
          /\ \A i \in W : \E d \in DOMAIN rows : at[d] = i
          /\ \A c, d \in DOMAIN rows : c < d => Better(side, at[c], at[d])
          /\ DOMAIN rows \subseteq Nat
          /\ \A d \in DOMAIN rows : d > 1 => d - 1 \in DOMAIN rows
    BY <2>1, DepthRows
  <2>3. /\ W = {i \in Index : OrdersAt(book, side, i) # {}}
        /\ \A i \in W : i \in Index /\ i \in Int
    BY <2>1, WalkedIsBits DEF Summarised, BitsExact
  <2>4. \A s \in RestingSlots(book) :
          /\ s \in Slot /\ book.pool[s].level \in Index /\ book.pool[s].level \in Int
          /\ book.pool[s].price = ToPrice(book.pool[s].level)
    BY <2>1, OrderType DEF RestingSlots, Genuine, Index
  <2>5. \A i \in W : At(ToPrice(i)) = OrdersAt(book, side, i)
    <3> SUFFICES ASSUME NEW i \in W PROVE At(ToPrice(i)) = OrdersAt(book, side, i)
      OBVIOUS
    <3>1. \A s \in RestingSlots(book) :
            book.pool[s].price = ToPrice(i) <=> book.pool[s].level = i
      BY <2>3, <2>4, SamePrice
    <3> QED BY <3>1 DEF OrdersAt
  <2>6. \A d \in DOMAIN rows : /\ rows[d].price = ToPrice(at[d])
                               /\ rows[d].qty = book.level[side][at[d]].qty
                               /\ rows[d].orders = book.level[side][at[d]].count
    BY <2>2 DEF LevelRow
  <2> HIDE DEF rows, W
  <2>7. {rows[d].price : d \in DOMAIN rows} =
          {book.pool[s].price : s \in {t \in RestingSlots(book) : book.pool[t].side = side}}
    <3>1. ASSUME NEW d \in DOMAIN rows
          PROVE  \E s \in {t \in RestingSlots(book) : book.pool[t].side = side} :
                   rows[d].price = book.pool[s].price
      <4>1. at[d] \in W
        BY <2>2
      <4>2. PICK s : s \in OrdersAt(book, side, at[d])
        BY <2>3, <4>1
      <4> QED BY <2>4, <2>6, <4>2 DEF OrdersAt
    <3>2. ASSUME NEW s \in RestingSlots(book), book.pool[s].side = side
          PROVE  \E d \in DOMAIN rows : rows[d].price = book.pool[s].price
      <4>1. book.pool[s].level \in W
        BY <2>3, <2>4, <3>2 DEF OrdersAt
      <4>2. PICK d \in DOMAIN rows : at[d] = book.pool[s].level
        BY <2>2, <4>1
      <4> QED BY <2>4, <2>6, <4>2
    <3> QED BY <3>1, <3>2
  <2>8. ASSUME NEW d \in DOMAIN rows
        PROVE  /\ d > 1 => Better(side, rows[d - 1].price, rows[d].price)
               /\ rows[d].orders = Cardinality(At(rows[d].price))
               /\ rows[d].qty = SumFunction([s \in At(rows[d].price) |->
                                               book.pool[s].remaining]) % QtyMod
               /\ QtyAt(book, side, rows[d].price) = rows[d].qty
    <3> DEFINE i == at[d]
               S == OrdersAt(book, side, i)
               f == [s \in S |-> book.pool[s].remaining]
    <3>1. i \in W /\ i \in Index /\ At(rows[d].price) = S /\ rows[d].price = ToPrice(i)
      BY <2>2, <2>3, <2>5, <2>6
    <3>2. d > 1 => Better(side, rows[d - 1].price, rows[d].price)
      <4> SUFFICES ASSUME d > 1 PROVE Better(side, rows[d - 1].price, rows[d].price)
        OBVIOUS
      <4>1. d - 1 \in DOMAIN rows /\ d - 1 < d
        BY <2>2
      <4> DEFINE j == at[d - 1]
      <4>2. Better(side, j, i) /\ j \in Int /\ i \in Int
        BY <2>2, <2>3, <4>1
      <4>3. rows[d - 1].price = ToPrice(j)
        BY <2>6, <4>1
      <4> HIDE DEF i, j
      <4>4. Better(side, ToPrice(j), ToPrice(i))
        BY <4>2, RungOrder DEF Better, Side
      <4> QED BY <3>1, <4>3, <4>4
    <3>3. rows[d].orders = Cardinality(S)
      BY <2>1, <2>6, <3>1 DEF EndsExact
    <3>4. rows[d].qty = Total(book, side, i) % QtyMod
      BY <2>1, <2>6, <3>1 DEF TotalsExact
    <3>5. Total(book, side, i) = SumFunction(f)
      <4>1. IsFiniteSet(S) /\ \A s \in S : Remaining(book)[s] = f[s]
        BY <2>1, TotalType
      <4>2. DOMAIN f = S
        OBVIOUS
      <4>3. Total(book, side, i) = SumFunctionOnSet(Remaining(book), S)
        BY DEF Total
      <4> HIDE DEF f, S
      <4> QED BY <4>1, <4>2, <4>3, SumSame DEF SumFunction
    <3>6. QtyAt(book, side, rows[d].price) = book.level[side][i].qty
      <4>1. /\ ToPrice(i) \in Int
            /\ ToPrice(i) >= MinPrice /\ ToPrice(i) <= MaxPrice
            /\ (ToPrice(i) - MinPrice) % TickSize = 0
            /\ ToIndex(ToPrice(i)) = i
        BY <3>1, PriceOnLadder
      <4> QED BY <3>1, <4>1, BandAssumption DEF QtyAt
    <3> HIDE DEF i
    <3> QED BY <2>6, <3>1, <3>2, <3>3, <3>4, <3>5, <3>6 DEF i
  <2> QED BY <2>7, <2>8 DEF rows
<1>2. Spec => []TotalsInvariant
  BY TotalsInvariantInit, TotalsInvariantNext, PTL DEF Spec
<1> QED BY <1>1, <1>2, PTL
-------------------------------------------------------------------------------
(* What is true while no total can wrap: clients send at most B lots, and   *)
(* that many in each slot of the pool still fit in a word.                  *)
NoWrap(B) ==
  /\ B \in Nat
  /\ \A qty \in Quantities : qty <= B
  /\ MaxSlots * B < QtyMod

AtMost(b, B) == \A s \in RestingSlots(b) : b.pool[s].qty <= B

(* No order, at rest or under way, is larger than clients send: a match     *)
(* only takes away, and an amendment sets or enters at most what was sent.  *)
Modest(B) ==
  TotalsInvariant /\ AtMost(book, B) /\ (call.active => call.qty <= B)

(* A sum of numbers that are at most B.                                     *)
LEMMA SumAtMost ==
  ASSUME NEW f, NEW S, NEW B \in Nat, IsFiniteSet(S), \A x \in S : f[x] \in Nat /\ f[x] <= B
  PROVE  SumFunctionOnSet(f, S) <= Cardinality(S) * B
<1> DEFINE G == {T \in SUBSET S : SumFunctionOnSet(f, T) <= Cardinality(T) * B}
<1>1. {} \in G
  BY SumEmpty, FS_EmptySet
<1>2. ASSUME NEW T \in SUBSET S, T # {}, \A x \in T : T \ {x} \in G
      PROVE  T \in G
  <2> DEFINE x == Pick(T)
             U == T \ {x}
  <2>1. x \in T
    BY <1>2 DEF Pick
  <2>2. IsFiniteSet(T) /\ U \in SUBSET S /\ IsFiniteSet(U)
    BY FS_Subset
  <2>3. SumFunctionOnSet(f, T) = f[x] + SumFunctionOnSet(f, U)
    BY <1>2, <2>2, SumUnfold
  <2>4. Cardinality(U) = Cardinality(T) - 1 /\ Cardinality(T) \in Nat
    BY <2>1, <2>2, FS_RemoveElement, FS_CardinalityType
  <2>5. SumFunctionOnSet(f, U) <= Cardinality(U) * B /\ f[x] <= B
    BY <1>2, <2>1
  <2>6. SumFunctionOnSet(f, U) \in Nat /\ f[x] \in Nat
    BY <2>1, <2>2, SumType
  <2> HIDE DEF x, U
  <2>7. \A c \in Int : (c - 1) * B + B = c * B /\ (c - 1) * B \in Int
    OBVIOUS
  <2> DEFINE c == Cardinality(T)
             m == (c - 1) * B
  <2>8. m + B = c * B /\ m \in Int /\ SumFunctionOnSet(f, U) <= m
    BY <2>4, <2>5, <2>7
  <2> HIDE DEF m, c
  <2>9. SumFunctionOnSet(f, T) <= m + B
    BY <2>3, <2>5, <2>6, <2>8
  <2> QED BY <2>8, <2>9 DEF c
<1>3. SUBSET S \subseteq G
  <2> HIDE DEF G
  <2> QED BY <1>1, <1>2, SubsetsGood
<1> QED BY <1>3

(* What a set of orders offers fits in a word; so does what a level offers. *)
LEMMA NothingWraps ==
  ASSUME NEW B, NoWrap(B), NEW b \in Book, Genuine(b), AtMost(b, B)
  PROVE  /\ \A S \in SUBSET RestingSlots(b) :
              /\ SumFunctionOnSet(Remaining(b), S) \in Nat
              /\ SumFunctionOnSet(Remaining(b), S) < QtyMod
         /\ TotalsExact(b) => \A side \in Side, i \in Index :
                                b.level[side][i].qty = Total(b, side, i)
<1> USE DEF NoWrap
<1>1. /\ \A s \in Slot : Remaining(b)[s] = b.pool[s].remaining /\ b.pool[s] \in Order
      /\ RestingSlots(b) \subseteq Slot /\ IsFiniteSet(RestingSlots(b))
  BY OrderType, OrdersFinite DEF Remaining, RestingSlots
<1>2. \A s \in RestingSlots(b) : Remaining(b)[s] \in Nat /\ Remaining(b)[s] <= B
  <2> SUFFICES ASSUME NEW s \in RestingSlots(b)
               PROVE  Remaining(b)[s] \in Nat /\ Remaining(b)[s] <= B
    OBVIOUS
  <2>1. /\ Remaining(b)[s] = b.pool[s].remaining
        /\ b.pool[s].remaining \in Quantity /\ b.pool[s].qty \in Quantity
    BY <1>1 DEF Order
  <2>2. b.pool[s].remaining <= b.pool[s].qty /\ b.pool[s].qty <= B
    BY DEF Genuine, AtMost
  <2> QED BY <2>1, <2>2, WidthAssumption DEF Quantity
<1>3. IsFiniteSet(Slot) /\ Cardinality(Slot) = MaxSlots /\ MaxSlots \in Nat /\ QtyMod \in Nat
  BY WidthAssumption, FS_Interval DEF Slot
<1>4. ASSUME NEW S \in SUBSET RestingSlots(b)
      PROVE  /\ SumFunctionOnSet(Remaining(b), S) \in Nat
             /\ SumFunctionOnSet(Remaining(b), S) < QtyMod
  <2>1. S \in SUBSET Slot /\ \A s \in S : Remaining(b)[s] \in Nat /\ Remaining(b)[s] <= B
    BY <1>1, <1>2
  <2>2. IsFiniteSet(S) /\ Cardinality(S) <= MaxSlots /\ Cardinality(S) \in Nat
    BY <1>3, <2>1, FS_Subset, FS_CardinalityType
  <2>3. SumFunctionOnSet(Remaining(b), S) \in Nat
    BY <2>1, <2>2, SumType
  <2>4. SumFunctionOnSet(Remaining(b), S) <= Cardinality(S) * B
    BY <2>1, <2>2, SumAtMost
  <2>5. \A c, m, k \in Nat : c <= m => c * k <= m * k /\ c * k \in Nat /\ m * k \in Nat
    OBVIOUS
  <2>6. Cardinality(S) * B <= MaxSlots * B /\ Cardinality(S) * B \in Nat /\ MaxSlots * B \in Nat
    BY <1>3, <2>2, <2>5
  <2> QED BY <1>3, <2>3, <2>4, <2>6
<1>5. ASSUME TotalsExact(b), NEW side \in Side, NEW i \in Index
      PROVE  b.level[side][i].qty = Total(b, side, i)
  <2>1. OrdersAt(b, side, i) \in SUBSET RestingSlots(b)
    BY DEF OrdersAt
  <2>2. Total(b, side, i) \in Nat /\ Total(b, side, i) < QtyMod
    BY <1>4, <2>1 DEF Total
  <2>3. b.level[side][i].qty = Total(b, side, i) % QtyMod
    BY <1>5 DEF TotalsExact
  <2>4. \A x \in Nat : x < QtyMod => x % QtyMod = x
    BY <1>3
  <2> QED BY <2>2, <2>3, <2>4
<1> QED BY <1>4, <1>5

LEMMA SeenAtMost ==
  ASSUME NEW B, NEW b, NEW c, RestingSlots(c) \subseteq RestingSlots(b),
         SameSeen(b, c, RestingSlots(c)), AtMost(b, B)
  PROVE  AtMost(c, B)
BY DEF AtMost, SameSeen, Seen

LEMMA RemoveAtMost ==
  ASSUME NEW B, NEW b \in Book, NEW s \in RestingSlots(b), Linked(b), EndsExact(b),
         AtMost(b, B)
  PROVE  AtMost(RemoveOrder(b, s), B)
<1> DEFINE c == RemoveOrder(b, s)
<1>1. c \in Book /\ SameOrders(b, c, Slot \ {s}) /\ ~ c.pool[s].active /\ s \in Slot
  BY RemoveShape DEF RestingSlots
<1>2. SameSeen(b, c, Slot \ {s})
  BY <1>1, RemoveSeen
<1> HIDE DEF c
<1>3. RestingSlots(c) = RestingSlots(b) \ {s} /\ RestingSlots(c) \subseteq Slot \ {s}
  BY <1>1, OrdersWithout DEF RestingSlots
<1>4. SameSeen(b, c, RestingSlots(c)) /\ RestingSlots(c) \subseteq RestingSlots(b)
  BY <1>2, <1>3 DEF SameSeen
<1> QED BY <1>4, SeenAtMost DEF c

LEMMA FillAtMost ==
  ASSUME NEW B, NEW b \in Book, NEW s \in RestingSlots(b), NEW q \in Quantity,
         q <= b.pool[s].remaining, Linked(b), EndsExact(b), AtMost(b, B)
  PROVE  AtMost(FillMaker(b, s, q), B)
<1> DEFINE c == FillMaker(b, s, q)
<1>1. /\ SameSeen(b, c, Slot \ {s})
      /\ RestingSlots(c) = RestingSlots(b) \ {s} \/ RestingSlots(c) = RestingSlots(b)
      /\ s \in RestingSlots(c) => c.pool[s].qty = b.pool[s].qty
  <2>1. IF b.pool[s].remaining = q THEN RestingSlots(c) = RestingSlots(b) \ {s}
        ELSE /\ RestingSlots(c) = RestingSlots(b)
             /\ SameOrders(b, c, RestingSlots(b))
             /\ Seen(c, s) = SeenWith(b, s, b.pool[s].qty, b.pool[s].remaining - q)
    BY FillSeen
  <2> QED BY <2>1, FillSeen DEF Seen, SeenWith
<1> HIDE DEF c
<1>2. \A t \in RestingSlots(c) : t \in Slot /\ t \in RestingSlots(b)
  BY <1>1 DEF RestingSlots
<1>3. \A t \in Slot \ {s} : c.pool[t].qty = b.pool[t].qty
  BY <1>1 DEF SameSeen, Seen
<1> QED BY <1>1, <1>2, <1>3 DEF AtMost, c

LEMMA RestAtMost ==
  ASSUME NEW B, NEW b \in Book, NEW s \in Slot, NEW o \in Order,
         o.price >= MinPrice, o.price <= MaxPrice, o.qty <= B,
         AtMost(b, B)
  PROVE  AtMost(RestOrder(b, s, o), B)
<1> DEFINE c == RestOrder(b, s, o)
<1>1. /\ SameSeen(b, c, Slot \ {s}) /\ SameOrders(b, c, Slot \ {s})
      /\ Seen(c, s) = [id |-> o.id, side |-> o.side, price |-> o.price, qty |-> o.qty,
                       remaining |-> o.remaining, participant |-> o.participant,
                       seq |-> o.seq]
  BY RestSeen, RestShape
<1> HIDE DEF c
<1>2. c.pool[s].qty = o.qty /\ \A t \in Slot \ {s} : /\ c.pool[t].qty = b.pool[t].qty
                                                     /\ c.pool[t].active = b.pool[t].active
  BY <1>1 DEF Seen, SameSeen, SameOrders
<1> QED BY <1>2 DEF AtMost, RestingSlots, c

LEMMA AllocAtMost ==
  ASSUME NEW B, NEW b \in Book, CanAlloc(b), Partitioned(b, {}), AtMost(b, B)
  PROVE  AtMost(AllocSlot(b), B)
<1>1. /\ RestingSlots(AllocSlot(b)) = RestingSlots(b)
      /\ SameSeen(b, AllocSlot(b), RestingSlots(b))
  BY AllocSeen
<1> QED BY <1>1, SeenAtMost

LEMMA FreeAtMost ==
  ASSUME NEW B, NEW b \in Book, NEW s \in Slot, s \notin RestingSlots(b), AtMost(b, B)
  PROVE  AtMost(FreeSlot(b, s), B)
<1> DEFINE c == FreeSlot(b, s)
<1>1. /\ c \in Book /\ SameOrders(b, c, Slot \ {s}) /\ ~ c.pool[s].active
      /\ SameSeen(b, c, Slot \ {s})
  BY FreeType, FreeShape, FreeSeen
<1> HIDE DEF c
<1>2. RestingSlots(c) = RestingSlots(b) /\ RestingSlots(c) \subseteq Slot \ {s}
  BY <1>1 DEF RestingSlots, SameOrders
<1>3. SameSeen(b, c, RestingSlots(c))
  BY <1>1, <1>2 DEF SameSeen
<1> QED BY <1>2, <1>3, SeenAtMost DEF c

LEMMA EnterLimitAtMost ==
  ASSUME NEW B, NEW b \in Book, Partitioned(b, {}), AtMost(b, B), ~ call.active,
         NEW side, NEW price, NEW qty \in Quantity, NEW tif, NEW participant, qty <= B,
         EnterLimit(b, side, price, qty, tif, participant)
  PROVE  AtMost(book', B) /\ (call'.active => call'.qty <= B)
<1>1. CASE book' = b /\ Reject(LimitReject(b, side, price, qty, tif), qty)
  BY <1>1 DEF Reject
<1>2. CASE /\ CanAlloc(b)
           /\ book' = AllocSlot(b)
           /\ call' = Entered(b, FALSE, side, price, qty, tif, participant)
  BY <1>2, AllocAtMost DEF Entered
<1> QED BY <1>1, <1>2 DEF EnterLimit

LEMMA SubmitMarketAtMost ==
  ASSUME NEW B, ClientInvariant, AtMost(book, B), NEW side, NEW qty \in Quantity,
         NEW participant, qty <= B, SubmitMarket(side, qty, participant)
  PROVE  AtMost(book', B) /\ (call'.active => call'.qty <= B)
<1> DEFINE b == AllocSlot(book)
           s == AllocatedSlot(book)
<1>1. book \in Book /\ Partitioned(book, {}) /\ ~ call.active
  BY NowSound DEF SubmitMarket, MayEnter, ClientInvariant, TouchInvariant
<1>2. CASE book' = book /\ call' = call
  BY <1>1, <1>2
<1>3. CASE /\ CanAlloc(book)
           /\ book' = FreeSlot(b, s)
           /\ call' = Entered(book, TRUE, side, 0, qty, "IOC", participant)
  <2>1. b \in Book /\ s \in Slot /\ s \notin RestingSlots(b) /\ AtMost(b, B)
    BY <1>1, <1>3, AllocType, AllocSeen, AllocAtMost
  <2>2. call'.qty = qty
    BY <1>3 DEF Entered
  <2> HIDE DEF b, s
  <2> QED BY <1>3, <2>1, <2>2, FreeAtMost
<1> QED BY <1>2, <1>3 DEF SubmitMarket, Reject

LEMMA AmendUpAtMost ==
  ASSUME NEW B, ClientInvariant, AtMost(book, B), NEW id \in OrderId,
         NEW newQty \in Quantity, B \in Nat, newQty <= B, AmendUp(id, newQty)
  PROVE  AtMost(book', B) /\ (call'.active => call'.qty <= B)
<1> DEFINE b == RemoveOrder(book, id.slot)
           newRemaining == QtySub(newQty, AlreadyFilled(id))
<1>1. /\ ~ call.active /\ Resolve(book, id) # NoSlot /\ newQty > AlreadyFilled(id)
      /\ EnterLimit(b, book.pool[id.slot].side, book.pool[id.slot].price, newRemaining,
                    "GTC", book.pool[id.slot].participant)
  BY DEF AmendUp, MayEnter
<1>2. /\ id.slot \in RestingSlots(book) /\ id.slot \in Slot /\ book \in Book /\ TypeOK
      /\ Linked(book) /\ EndsExact(book)
  BY <1>1, ResolvedRests, NowSound DEF ClientInvariant, TouchInvariant, RestingSlots
<1>3. b \in Book /\ Partitioned(b, {}) /\ AtMost(b, B)
  BY <1>1, <1>2, RemoveType, RemoveAtMost, RemoveIdSound
  DEF ClientInvariant, TouchInvariant, Sound
<1>4. newRemaining \in Quantity /\ newRemaining <= newQty
  <2>1. AlreadyFilled(id) \in Quantity
    BY <1>2, QtyType, OrderType DEF AlreadyFilled, Order
  <2>2. newQty - AlreadyFilled(id) \in Quantity
    BY <1>1, <2>1, WidthAssumption DEF Quantity
  <2>3. \A x \in Quantity : x % QtyMod = x
    BY WidthAssumption DEF Quantity
  <2> QED BY <2>1, <2>2, <2>3 DEF QtySub, Quantity
<1>5. newRemaining <= B
  BY <1>4 DEF Quantity
<1> HIDE DEF b, newRemaining
<1> QED BY <1>1, <1>3, <1>4, <1>5, EnterLimitAtMost

LEMMA ModestInit ==
  ASSUME NEW B
  PROVE  Init => Modest(B)
<1> SUFFICES ASSUME Init PROVE Modest(B)
  OBVIOUS
<1>1. RestingSlots(book) = {} /\ ~ call.active
  BY DEF Init, FreshBook, RestingSlots, DefaultOrder, Idle
<1> QED BY <1>1, TotalsInvariantInit DEF Modest, AtMost

LEMMA ModestNext ==
  ASSUME NEW B, NoWrap(B)
  PROVE  Modest(B) /\ [Next]_vars => Modest(B)'
<1> SUFFICES ASSUME Modest(B), [Next]_vars PROVE Modest(B)'
  OBVIOUS
<1> USE InputAssumption
<1> DEFINE Kept == AtMost(book', B) /\ (call'.active => call'.qty <= B)
<1>1. TotalsInvariant'
  BY TotalsInvariantNext DEF Modest
<1>2. /\ ClientInvariant /\ AtMost(book, B) /\ book \in Book /\ book' \in Book
      /\ Linked(book) /\ EndsExact(book) /\ (~ call.active => Partitioned(book, {}))
      /\ call \in Call /\ (call.active => call.qty <= B)
  BY <1>1, NowSound
  DEF Modest, TotalsInvariant, ClientInvariant, TouchInvariant, SlotInvariant, TypeOK
<1>3. B \in Nat /\ \A qty \in Quantities : qty \in Quantity /\ qty <= B
  BY DEF NoWrap
<1>4. ASSUME NEW side \in Side, NEW price \in Prices, NEW qty \in Quantities,
             NEW tif \in Tifs, NEW participant \in Participants,
             SubmitLimit(side, price, qty, tif, participant)
      PROVE  Kept
  BY <1>2, <1>3, <1>4, EnterLimitAtMost DEF SubmitLimit, MayEnter
<1>5. ASSUME NEW side \in Side, NEW qty \in Quantities, NEW participant \in Participants,
             SubmitMarket(side, qty, participant)
      PROVE  Kept
  BY <1>2, <1>3, <1>5, SubmitMarketAtMost
<1>6. ASSUME PullMaker PROVE Kept
  <2>1. MakerSlot \in RestingSlots(book) /\ call' = call
    BY <1>2, <1>6, MakerRests DEF PullMaker, ClientInvariant, TouchInvariant
  <2> QED BY <1>2, <1>6, <2>1, RemoveAtMost DEF PullMaker
<1>7. ASSUME Fill PROVE Kept
  <2> DEFINE q == Smaller(call.remaining, Maker.remaining)
  <2>1. /\ MakerSlot \in RestingSlots(book)
        /\ q \in Quantity /\ q <= book.pool[MakerSlot].remaining
        /\ book' = FillMaker(book, MakerSlot, q)
    BY <1>2, <1>7, FillFacts
  <2>2. call'.qty = call.qty /\ call'.active = call.active
    BY <1>2, <1>7 DEF Fill, Call
  <2> HIDE DEF q
  <2> QED BY <1>2, <2>1, <2>2, FillAtMost
<1>8. ASSUME ReturnFilled \/ ReturnKilled PROVE Kept
  <2>1. call.active /\ ReleaseTaker /\ ~ call'.active
    <3>1. CASE ReturnFilled
      BY <3>1 DEF ReturnFilled, Return, Idle, Matched
    <3>2. CASE ReturnKilled
      BY <3>2 DEF ReturnKilled, Return, Idle, Matched
    <3> QED BY <1>8, <3>1, <3>2
  <2>2. call.slot \in Slot /\ (~ call.market => call.slot \notin RestingSlots(book))
    BY <1>2, <2>1, NowSound DEF ClientInvariant, TouchInvariant, Partitioned
  <2> QED BY <1>2, <2>1, <2>2, FreeAtMost DEF ReleaseTaker
<1>9. ASSUME ReturnResting PROVE Kept
  <2> DEFINE o == [DefaultOrder EXCEPT
                     !.id = call.id, !.price = call.price, !.qty = call.qty,
                     !.remaining = call.remaining, !.seq = nextSeq,
                     !.participant = call.participant, !.side = call.side]
  <2>1. /\ book' = RestOrder(book, call.slot, o)
        /\ o \in Order /\ o.price >= MinPrice /\ o.price <= MaxPrice
        /\ call.slot \in Slot /\ o.qty = call.qty /\ call.active
    BY <1>2, <1>9, RestFacts
  <2>2. ~ call'.active
    BY <1>9 DEF ReturnResting, Return, Idle
  <2> HIDE DEF o
  <2> QED BY <1>2, <2>1, <2>2, RestAtMost
<1>10. ASSUME NEW id \in OrderId, Resolve(book, id) # NoSlot, call' = call,
              book' = RemoveOrder(book, id.slot)
       PROVE  Kept
  <2>1. id.slot \in RestingSlots(book)
    BY <1>2, <1>10, ResolvedRests DEF ClientInvariant, TouchInvariant
  <2> QED BY <1>2, <1>10, <2>1, RemoveAtMost
<1>11. ASSUME NEW id \in OrderId, NEW newQty \in Quantities, AmendDown(id, newQty)
       PROVE  Kept
  <2> DEFINE s == id.slot
             remaining == QtySub(newQty, AlreadyFilled(id))
  <2>1. /\ s \in RestingSlots(book)
        /\ SameSeen(book, book', Slot \ {s})
        /\ RestingSlots(book') = RestingSlots(book)
        /\ Seen(book', s) = SeenWith(book, s, newQty, remaining)
    BY <1>2, <1>3, <1>11, AmendDownFacts
  <2>2. call' = call
    BY <1>11 DEF AmendDown
  <2> HIDE DEF s, remaining
  <2>3. /\ book'.pool[s].qty = newQty
        /\ \A t \in Slot \ {s} : book'.pool[t].qty = book.pool[t].qty
    BY <2>1 DEF SameSeen, Seen, SeenWith
  <2>4. AtMost(book', B)
    BY <1>2, <1>3, <2>1, <2>3 DEF AtMost, RestingSlots
  <2> QED BY <1>2, <2>2, <2>4
<1>12. ASSUME NEW id \in OrderId, NEW newQty \in Quantities, AmendUp(id, newQty)
       PROVE  Kept
  BY <1>2, <1>3, <1>12, AmendUpAtMost
<1>13. ASSUME Clear PROVE Kept
  <2>1. call' = call /\ RestingSlots(book') = {}
    BY <1>13 DEF Clear, FreshBook, RestingSlots, DefaultOrder
  <2> QED BY <1>2, <2>1 DEF AtMost
<1>14. ASSUME UNCHANGED book, call'.active = call.active, call'.qty = call.qty PROVE Kept
  BY <1>2, <1>14
<1>15. ASSUME StopTaker PROVE Kept
  <2>1. UNCHANGED book /\ call'.active = call.active /\ call'.qty = call.qty
    BY <1>2, <1>15 DEF StopTaker, Call
  <2> QED BY <1>14, <2>1
<1>16. Kept
  <2>1. ASSUME UNCHANGED <<book, call>> PROVE Kept
    BY <1>14, <2>1
  <2> HIDE DEF Kept
  <2> QED BY <1>4, <1>5, <1>6, <1>7, <1>8, <1>9, <1>10, <1>11, <1>12, <1>13, <1>15, <2>1
      DEF Next, EngineStep, MatchStep, ReturnStep, CancelLive, AmendToCancel, CancelUnknown,
          AmendUnknown, SetSelfTradePrevention, ClearTrades, vars
<1> QED BY <1>1, <1>16 DEF Modest

LEMMA ModestAlways ==
  ASSUME NEW B, NoWrap(B)
  PROVE  Spec => []Modest(B)
<1>1. Init => Modest(B)
  BY ModestInit
<1>2. Modest(B) /\ [Next]_vars => Modest(B)'
  BY ModestNext
<1> QED BY <1>1, <1>2, PTL DEF Spec
-------------------------------------------------------------------------------
(* What the levels say while no total can wrap.                             *)

(* A level offers something exactly if it has orders.                       *)
LEMMA LevelOffers ==
  ASSUME NEW B, NoWrap(B), NEW b \in Book, Genuine(b), AtMost(b, B), TotalsExact(b),
         Summarised(b), NEW side \in Side
  PROVE  /\ \A i \in Index : b.level[side][i].qty \in Nat
         /\ \A i \in b.bits[side] : b.level[side][i].qty > 0
<1>1. \A i \in Index : b.level[side][i].qty = Total(b, side, i)
  BY NothingWraps
<1>2. \A i \in Index : Total(b, side, i) \in Nat
  BY TotalType
<1>3. ASSUME NEW i \in b.bits[side] PROVE Total(b, side, i) > 0 /\ i \in Index
  <2> DEFINE S == OrdersAt(b, side, i)
             f == Remaining(b)
  <2>1. S # {} /\ i \in Index
    BY DEF Summarised, BitsExact
  <2>2. PICK s : s \in S
    BY <2>1
  <2>3. s \in Slot /\ f[s] > 0 /\ f[s] \in Nat /\ Share(b, s, side, i) = f[s]
    <3>1. s \in RestingSlots(b) /\ b.pool[s].remaining > 0
      BY <2>2 DEF OrdersAt, Genuine
    <3> QED BY <2>2, <3>1, TotalType DEF Share, Remaining, RestingSlots
  <2>4. IsFiniteSet(S \ {s}) /\ \A t \in S \ {s} : f[t] \in Nat /\ f[t] \in Int
    <3>1. IsFiniteSet(S) /\ \A t \in S : f[t] = b.pool[t].remaining /\ b.pool[t].remaining \in Nat
      BY TotalType
    <3> HIDE DEF S, f
    <3> QED BY <3>1, FS_RemoveElement, FS_Subset
  <2> HIDE DEF S, f
  <2>5. SumFunctionOnSet(f, S \ {s}) \in Nat
    BY <2>4, SumType
  <2>6. Total(b, side, i) = Share(b, s, side, i) + SumFunctionOnSet(f, S \ {s})
    BY <2>3, TotalSplit DEF S, f
  <2> QED BY <2>1, <2>3, <2>5, <2>6
<1> QED BY <1>1, <1>2, <1>3

LEMMA ModestFacts ==
  ASSUME NEW B, NoWrap(B), Modest(B)
  PROVE  /\ book \in Book /\ Summarised(book) /\ Genuine(book) /\ TotalsExact(book)
         /\ AtMost(book, B) /\ ClientInvariant /\ Linked(book) /\ EndsExact(book)
BY NowSound DEF Modest, TotalsInvariant, ClientInvariant, TouchInvariant

(* A weighted mean of two prices, d apart, by the quantities x and y.       *)
LEMMA WeightedMean ==
  ASSUME NEW p \in Int, NEW d \in Int, NEW x \in Int, NEW y \in Int, d > 0, x > 0, y > 0
  PROVE  LET m == p * y + (p + d) * x
         IN /\ p * (x + y) < m * 1
            /\ m * 1 < (p + d) * (x + y)
            /\ (p + (p + d)) * (x + y) < m * 2 <=> 0 * (x + y) < (x - y) * 1
            /\ m * 2 < (p + (p + d)) * (x + y) <=> (x - y) * 1 < 0 * (x + y)
<1> DEFINE m == p * y + (p + d) * x
           a == p * x
           c == p * y
           u == d * x
           v == d * y
<1>1. a \in Int /\ c \in Int /\ u \in Int /\ v \in Int
  OBVIOUS
<1>2. /\ m = c + (a + u)
      /\ p * (x + y) = a + c
      /\ (p + d) * (x + y) = (a + c) + (u + v)
      /\ (p + (p + d)) * (x + y) = (2 * a + 2 * c) + (u + v)
  OBVIOUS
<1>3. /\ u > 0 /\ v > 0
      /\ u - v = d * (x - y)
  OBVIOUS
<1>4. /\ d * (x - y) > 0 <=> x - y > 0
      /\ d * (x - y) < 0 <=> x - y < 0
  OBVIOUS
<1>5. 0 * (x + y) = 0 /\ (x - y) * 1 = x - y /\ x - y \in Int /\ d * (x - y) \in Int
  OBVIOUS
<1> DEFINE w == d * (x - y)
           z == x - y
           e == 0 * (x + y)
           g == (x - y) * 1
           h == (p + (p + d)) * (x + y)
           k == (p + d) * (x + y)
           l == p * (x + y)
<1> HIDE DEF m, a, c, u, v, w, z, e, g, h, k, l
<1>6. /\ l < m * 1 /\ m * 1 < k
      /\ h < m * 2 <=> e < g
      /\ m * 2 < h <=> g < e
  BY <1>1, <1>2, <1>3, <1>4, <1>5 DEF w, z, e, g, h, k, l
<1> QED BY <1>6 DEF m, e, g, h, k, l

(* The microprice leans the right way inside the spread while no total can  *)
(* wrap: then a level with orders has a positive total.                     *)
THEOREM MicropriceCorrect ==
  ASSUME NEW B, NoWrap(B)
  PROVE  Spec => []MicropriceLeans
<1>1. Modest(B) => MicropriceLeans
  <2> SUFFICES ASSUME Modest(B), HasBest(book, "Buy"), HasBest(book, "Sell")
               PROVE  LET m == Microprice(book)
                      IN /\ Spread(book) > 0
                         /\ Less(Ratio(BestPriceOf(book, "Buy"), 1), m)
                         /\ Less(m, Ratio(BestPriceOf(book, "Sell"), 1))
                         /\ Less(MidPrice(book), m) <=> Less(Ratio(0, 1), Imbalance(book))
                         /\ Less(m, MidPrice(book)) <=> Less(Imbalance(book), Ratio(0, 1))
    BY DEF MicropriceLeans
  <2> DEFINE i == book.best["Buy"]
             j == book.best["Sell"]
             p == ToPrice(i)
             d == ToPrice(j) - ToPrice(i)
             x == book.level["Buy"][i].qty
             y == book.level["Sell"][j].qty
  <2>1. /\ book \in Book /\ Summarised(book) /\ Genuine(book) /\ TotalsExact(book)
        /\ AtMost(book, B)
    BY ModestFacts
  <2>2. /\ i \in book.bits["Buy"] /\ i \in Int
        /\ j \in book.bits["Sell"] /\ j \in Int
    BY <2>1, WalkedIsBits DEF Side
  <2>3. i < j
    BY <2>1, <2>2 DEF Summarised, Uncrossed
  <2>4. p \in Int /\ d \in Int /\ d > 0 /\ ToPrice(j) = p + d
    <3>1. ToPrice(i) \in Int /\ ToPrice(j) \in Int
      BY <2>2, BandAssumption DEF ToPrice
    <3>2. ToPrice(i) < ToPrice(j)
      BY <2>2, <2>3, RungOrder
    <3> QED BY <3>1, <3>2
  <2>5. x \in Int /\ x > 0 /\ y \in Int /\ y > 0
    <3>1. i \in Index /\ j \in Index
      BY <2>1, <2>2, WalkedIsBits DEF Side
    <3> QED BY <2>1, <2>2, <3>1, LevelOffers DEF Side
  <2>6. /\ BestPriceOf(book, "Buy") = p /\ BestPriceOf(book, "Sell") = p + d
        /\ BestQty(book, "Buy") = x /\ BestQty(book, "Sell") = y
    BY <2>4 DEF BestPriceOf, BestQty
  <2> HIDE DEF i, j, p, d, x, y
  <2> DEFINE m == p * y + (p + d) * x
  <2>7. /\ Spread(book) = (p + d) - p
        /\ Microprice(book) = Ratio(m, x + y)
        /\ MidPrice(book) = Ratio(p + (p + d), 2)
        /\ Imbalance(book) = Ratio(x - y, x + y)
    BY <2>5, <2>6 DEF Spread, Microprice, MidPrice, Imbalance
  <2>8. /\ p * (x + y) < m * 1
        /\ m * 1 < (p + d) * (x + y)
        /\ (p + (p + d)) * (x + y) < m * 2 <=> 0 * (x + y) < (x - y) * 1
        /\ m * 2 < (p + (p + d)) * (x + y) <=> (x - y) * 1 < 0 * (x + y)
    BY <2>4, <2>5, WeightedMean
  <2>9. (p + d) - p > 0
    BY <2>4
  <2> HIDE DEF m
  <2> QED BY <2>6, <2>7, <2>8, <2>9 DEF Less, Ratio
<1>2. Spec => []Modest(B)
  BY ModestAlways
<1> QED BY <1>1, <1>2, PTL

(* While no total can wrap, fillable() is what the orders in reach offer,   *)
(* as a number.                                                             *)
THEOREM FillableWithoutWrap ==
  ASSUME NEW B, NoWrap(B)
  PROVE  Spec => []FillableIsAvailable
<1>1. Modest(B) => FillableIsAvailable
  <2> SUFFICES ASSUME Modest(B), NEW side \in Side, NEW limit \in Prices
               PROVE  Fillable(book, side, limit) =
                        SumFunction([s \in {t \in RestingSlots(book) :
                                       /\ book.pool[t].side = Opposite(side)
                                       /\ WithinLimit(side, book.pool[t].price, limit)}
                                       |-> book.pool[s].remaining])
    BY DEF FillableIsAvailable
  <2> DEFINE reach == InReachOf(book, side, limit)
             g == [s \in reach |-> book.pool[s].remaining]
  <2>1. /\ book \in Book /\ Summarised(book) /\ Genuine(book) /\ TotalsExact(book)
        /\ AtMost(book, B) /\ limit \in Int
    BY ModestFacts, InputAssumption
  <2>2. Fillable(book, side, limit) = SumFunctionOnSet(Remaining(book), reach) % QtyMod
    BY <2>1, FillableIsOffered DEF Offered
  <2>3. /\ IsFiniteSet(reach) /\ (\A s \in reach : s \in Slot)
        /\ reach \in SUBSET RestingSlots(book)
    <3>1. reach \in SUBSET RestingSlots(book) /\ \A s \in reach : s \in Slot
      BY DEF InReachOf, RestingSlots
    <3> QED BY <3>1, OrdersFinite, FS_Subset
  <2>4. \A s \in reach : Remaining(book)[s] = g[s]
    BY <2>3 DEF Remaining
  <2> HIDE DEF g, reach
  <2>5. SumFunctionOnSet(Remaining(book), reach) = SumFunctionOnSet(g, reach)
    BY <2>3, <2>4, SumSame
  <2>6. SumFunction(g) = SumFunctionOnSet(g, reach)
    BY DEF SumFunction, g
  <2>7. /\ SumFunctionOnSet(Remaining(book), reach) \in Nat
        /\ SumFunctionOnSet(Remaining(book), reach) < QtyMod
    BY <2>1, <2>3, NothingWraps
  <2>8. \A n \in Nat : n < QtyMod => n % QtyMod = n
    BY WidthAssumption
  <2>9. Fillable(book, side, limit) = SumFunction(g)
    BY <2>2, <2>5, <2>6, <2>7, <2>8
  <2> QED BY <2>9 DEF g, reach, InReachOf
<1>2. Spec => []Modest(B)
  BY ModestAlways
<1> QED BY <1>1, <1>2, PTL
-------------------------------------------------------------------------------
(* A sweep depends on what each level offers, and on nothing else.          *)

Levels(b, side) == [i \in Index |-> b.level[side][i].qty]

(* The levels that offer something, and those of them in front of one.      *)
Offering(L) == {i \in Index : L[i] > 0}
Ahead(L, side, i) == {j \in Offering(L) : Better(side, j, i)}

AheadQty(L, side, i) == SumFunctionOnSet(L, Ahead(L, side, i))

(* The levels an order of that size comes to, and what it pays at each.     *)
Met(L, side, qty) == {i \in Offering(L) : AheadQty(L, side, i) < qty}

Paid(L, side, qty) ==
  [i \in Index |-> ToPrice(i) * Smaller(qty - AheadQty(L, side, i), L[i])]

Farthest(side, S) == CHOOSE i \in S : \A j \in S \ {i} : Better(side, j, i)

Sweep(L, side, qty) ==
  [ok       |-> SumFunctionOnSet(L, Offering(L)) >= qty,
   notional |-> SumFunctionOnSet(Paid(L, side, qty), Met(L, side, qty)),
   worst    |-> IF Met(L, side, qty) = {} THEN 0
                ELSE ToPrice(Farthest(side, Met(L, side, qty)))]

(* What levels offer, added up.                                             *)
LEMMA LevelSum ==
  ASSUME NEW L \in [Index -> Nat]
  PROVE  /\ IsFiniteSet(Index)
         /\ \A S \in SUBSET Index : IsFiniteSet(S) /\ SumFunctionOnSet(L, S) \in Nat
         /\ \A S \in SUBSET Index : \A i \in S :
              SumFunctionOnSet(L, S) = L[i] + SumFunctionOnSet(L, S \ {i})
         /\ \A S \in SUBSET Index : \A T \in SUBSET S :
              SumFunctionOnSet(L, T) <= SumFunctionOnSet(L, S)
<1>1. IsFiniteSet(Index)
  BY LadderSizeType, FS_Interval DEF Index
<1>2. ASSUME NEW S \in SUBSET Index
      PROVE  IsFiniteSet(S) /\ SumFunctionOnSet(L, S) \in Nat
  <2>1. IsFiniteSet(S) /\ \A i \in S : L[i] \in Nat /\ L[i] \in Int
    BY <1>1, FS_Subset
  <2> QED BY <2>1, SumType
<1>3. ASSUME NEW S \in SUBSET Index, NEW i \in S
      PROVE  SumFunctionOnSet(L, S) = L[i] + SumFunctionOnSet(L, S \ {i})
  <2>1. IsFiniteSet(S) /\ \A j \in S : L[j] \in Int
    BY <1>2
  <2> QED BY <2>1, SumRemove
<1>4. ASSUME NEW S \in SUBSET Index, NEW T \in SUBSET S
      PROVE  SumFunctionOnSet(L, T) <= SumFunctionOnSet(L, S)
  <2> DEFINE D == S \ T
  <2>1. /\ IsFiniteSet(T) /\ IsFiniteSet(D) /\ T \cap D = {} /\ T \cup D = S
        /\ \A j \in T \cup D : L[j] \in Int
        /\ SumFunctionOnSet(L, T) \in Nat /\ SumFunctionOnSet(L, D) \in Nat
    <3>1. T \in SUBSET Index /\ D \in SUBSET Index
      OBVIOUS
    <3> QED BY <1>2, <3>1
  <2> HIDE DEF D
  <2>2. SumFunctionOnSet(L, T \cup D) = SumFunctionOnSet(L, T) + SumFunctionOnSet(L, D)
    BY <2>1, SumUnion
  <2>3. SumFunctionOnSet(L, S) = SumFunctionOnSet(L, T) + SumFunctionOnSet(L, D)
    BY <2>1, <2>2, Zenon
  <2> QED BY <2>1, <2>3
<1> QED BY <1>1, <1>2, <1>3, <1>4

(* A level of no offer adds nothing.                                        *)
LEMMA EmptyLevelsAddNothing ==
  ASSUME NEW L \in [Index -> Nat], NEW S \in SUBSET Index, NEW i \in S, L[i] = 0
  PROVE  SumFunctionOnSet(L, S \ {i}) = SumFunctionOnSet(L, S)
<1>1. SumFunctionOnSet(L, S) = L[i] + SumFunctionOnSet(L, S \ {i})
  BY LevelSum
<1>2. S \ {i} \in SUBSET Index
  OBVIOUS
<1>3. SumFunctionOnSet(L, S \ {i}) \in Nat
  BY <1>2, LevelSum
<1> QED BY <1>1, <1>3

(* A set of levels has a nearest and a farthest one.                        *)
LEMMA EndsExist ==
  ASSUME NEW S \in SUBSET Index, S # {}, NEW side \in Side
  PROVE  /\ \E i \in S : \A j \in S \ {i} : Better(side, i, j)
         /\ \E i \in S : \A j \in S \ {i} : Better(side, j, i)
<1>1. S \in SUBSET Nat /\ S \in SUBSET (0 .. LadderSize - 1) /\ LadderSize - 1 \in Nat
  BY LadderSizeType DEF Index
<1>2. \A i \in S : i \in Int
  BY <1>1
<1>3. PICK i \in S : \A j \in S : i <= j
  BY <1>1, LeastExists
<1>4. PICK k \in S : \A j \in S : k >= j
  <2> DEFINE n == LadderSize - 1
  <2> HIDE DEF n
  <2>1. n \in Nat /\ S \in SUBSET (0 .. n)
    BY <1>1 DEF n
  <2> QED BY <2>1, GreatestExists
<1>5. \A j \in S \ {i} : i < j
  BY <1>2, <1>3
<1>6. \A j \in S \ {k} : k > j
  BY <1>2, <1>4
<1> QED BY <1>2, <1>5, <1>6 DEF Better, Side

LEMMA FarthestIs ==
  ASSUME NEW S \in SUBSET Index, S # {}, NEW side \in Side
  PROVE  /\ Farthest(side, S) \in S
         /\ \A j \in S \ {Farthest(side, S)} : Better(side, j, Farthest(side, S))
         /\ \A i \in S : (\A j \in S \ {i} : Better(side, j, i)) => i = Farthest(side, S)
<1>1. \A i \in S : i \in Int
  BY LadderSizeType DEF Index
<1> DEFINE w == Farthest(side, S)
<1>2. w \in S /\ \A j \in S \ {w} : Better(side, j, w)
  BY EndsExist DEF Farthest
<1> HIDE DEF w
<1>3. \A i \in S : (\A j \in S \ {i} : Better(side, j, i)) => i = w
  BY <1>1, <1>2, BetterOrder
<1> QED BY <1>2, <1>3 DEF w

(* sweep_cost() is such a sweep.                                            *)
LEMMA SweepByLevels ==
  ASSUME NEW B, NoWrap(B), NEW b \in Book, Genuine(b), AtMost(b, B), TotalsExact(b),
         Summarised(b), EndsExact(b), NEW takerSide \in Side, NEW qty
  PROVE  LET side == Opposite(takerSide)
             L    == Levels(b, side)
         IN /\ L \in [Index -> Nat] /\ side \in Side
            /\ Offering(L) = Walked(b, side)
            /\ SweepCost(b, takerSide, qty) = Sweep(L, side, qty)
<1> DEFINE side == Opposite(takerSide)
           L    == Levels(b, side)
           W    == Walked(b, side)
<1>1. side \in Side
  BY DEF Opposite, Side
<1>2. L \in [Index -> Nat] /\ \A i \in Index : L[i] = b.level[side][i].qty
  <2>1. \A i \in Index : b.level[side][i].qty \in Nat
    BY <1>1, LevelOffers
  <2> QED BY <2>1 DEF Levels
<1>3. W = b.bits[side] /\ W \in SUBSET Index /\ \A i \in W : i \in Index
  BY <1>1, WalkedIsBits
<1>4. Offering(L) = W
  <2>1. \A i \in W : L[i] > 0
    BY <1>1, <1>2, <1>3, LevelOffers
  <2>2. ASSUME NEW i \in Index, i \notin W PROVE ~ (L[i] > 0)
    <3>1. OrdersAt(b, side, i) = {}
      BY <1>1, <1>3, <2>2 DEF Summarised, BitsExact
    <3>2. Total(b, side, i) = 0
      BY <3>1, SumEmpty DEF Total
    <3>3. L[i] = Total(b, side, i)
      BY <1>1, <1>2, NothingWraps
    <3> QED BY <3>2, <3>3
  <2> QED BY <1>3, <2>1, <2>2 DEF Offering
<1>5. \A i : Nearer(b, side, i) = Ahead(L, side, i)
  BY <1>4 DEF Nearer, Ahead
<1>6. ASSUME NEW S \in SUBSET Index
      PROVE  SumFunction([j \in S |-> b.level[side][j].qty]) = SumFunctionOnSet(L, S)
  <2> DEFINE g == [j \in S |-> b.level[side][j].qty]
  <2>1. IsFiniteSet(S) /\ DOMAIN g = S /\ \A j \in S : g[j] = L[j]
    BY <1>2, LevelSum
  <2> HIDE DEF g, L
  <2>2. SumFunctionOnSet(g, S) = SumFunctionOnSet(L, S)
    BY <2>1, SumSame
  <2>3. SumFunction(g) = SumFunctionOnSet(g, S)
    BY <2>1 DEF SumFunction
  <2> QED BY <2>2, <2>3 DEF g
<1> DEFINE Tot(S) == SumFunction([j \in S |-> b.level[side][j].qty])
           Bef(i) == Tot(Nearer(b, side, i))
           reached == {i \in W : Bef(i) < qty}
           paid == [i \in reached |-> ToPrice(i) * Smaller(qty - Bef(i), b.level[side][i].qty)]
           worst == IF reached = {} THEN 0
                    ELSE ToPrice(CHOOSE i \in reached :
                                   \A j \in reached \ {i} : Better(side, j, i))
<1>7. SweepCost(b, takerSide, qty) =
        [ok |-> Tot(W) >= qty, notional |-> SumFunction(paid), worst |-> worst]
  BY Zenon DEF SweepCost
<1>8. \A i : Bef(i) = AheadQty(L, side, i)
  <2> SUFFICES ASSUME NEW i PROVE Bef(i) = AheadQty(L, side, i)
    OBVIOUS
  <2>1. Ahead(L, side, i) \in SUBSET Index
    BY DEF Ahead, Offering
  <2> QED BY <1>5, <1>6, <2>1 DEF AheadQty
<1>9. Tot(W) = SumFunctionOnSet(L, Offering(L))
  BY <1>3, <1>4, <1>6
<1> HIDE DEF Tot, Bef
<1>10. reached = Met(L, side, qty)
  BY <1>4, <1>8 DEF Met
<1>11. SumFunction(paid) = SumFunctionOnSet(Paid(L, side, qty), Met(L, side, qty))
  <2> DEFINE R == Met(L, side, qty)
             p == Paid(L, side, qty)
  <2>1. R \in SUBSET Index /\ IsFiniteSet(R)
    <3>1. R \in SUBSET Index
      BY DEF Met, Offering
    <3> QED BY <3>1, LevelSum, <1>2
  <2>2. DOMAIN paid = R /\ \A i \in R : paid[i] = p[i]
    BY <1>2, <1>8, <1>10, <2>1 DEF Paid
  <2> HIDE DEF R, p, paid
  <2>3. SumFunctionOnSet(paid, R) = SumFunctionOnSet(p, R)
    BY <2>1, <2>2, SumSame
  <2>4. SumFunction(paid) = SumFunctionOnSet(paid, R)
    BY <2>2 DEF SumFunction
  <2> QED BY <2>3, <2>4 DEF R, p
<1>12. worst = IF Met(L, side, qty) = {} THEN 0
               ELSE ToPrice(Farthest(side, Met(L, side, qty)))
  <2> HIDE DEF reached, L
  <2>1. worst = IF reached = {} THEN 0 ELSE ToPrice(Farthest(side, reached))
    BY Zenon DEF Farthest
  <2> HIDE DEF worst
  <2> QED BY <1>10, <2>1
<1> HIDE DEF reached, paid, worst
<1>13. SweepCost(b, takerSide, qty) = Sweep(L, side, qty)
  <2> HIDE DEF L
  <2> QED BY <1>7, <1>9, <1>11, <1>12 DEF Sweep
<1> QED BY <1>1, <1>2, <1>4, <1>13

(* Levels add up to what their orders offer, which fits in a word.          *)
LEMMA LevelsAddUp ==
  ASSUME NEW B, NoWrap(B), NEW b \in Book, Genuine(b), AtMost(b, B), TotalsExact(b),
         NEW side \in Side, NEW S \in SUBSET Index
  PROVE  SumFunctionOnSet(Levels(b, side), S) < QtyMod
<1> DEFINE L == Levels(b, side)
           f == Remaining(b)
           k == [s \in Slot |-> b.pool[s].level]
           T == {s \in RestingSlots(b) : b.pool[s].side = side /\ b.pool[s].level \in S}
           g == [i \in S |-> SumFunctionOnSet(f, {s \in T : k[s] = i})]
<1>1. /\ T \in SUBSET RestingSlots(b) /\ IsFiniteSet(T) /\ IsFiniteSet(S)
      /\ \A s \in T : s \in Slot
  <2>1. T \in SUBSET RestingSlots(b) /\ \A s \in T : s \in Slot
    BY DEF RestingSlots
  <2>2. IsFiniteSet(Index)
    BY LadderSizeType, FS_Interval DEF Index
  <2> HIDE DEF T
  <2> QED BY <2>1, <2>2, OrdersFinite, FS_Subset
<1>2. \A s \in T : f[s] \in Int /\ k[s] \in S
  <2>1. \A s \in Slot : f[s] = b.pool[s].remaining /\ b.pool[s].remaining \in Nat
    BY TotalType
  <2> QED BY <1>1, <2>1
<1>3. \A i \in S : g[i] = L[i]
  <2> SUFFICES ASSUME NEW i \in S PROVE g[i] = L[i]
    OBVIOUS
  <2>1. {s \in T : k[s] = i} = OrdersAt(b, side, i)
    BY <1>1 DEF OrdersAt, RestingSlots
  <2>2. g[i] = Total(b, side, i)
    BY <2>1 DEF Total
  <2>3. L[i] = b.level[side][i].qty
    BY DEF Levels
  <2> QED BY <2>2, <2>3, NothingWraps
<1>4. SumFunctionOnSet(f, T) < QtyMod
  BY <1>1, NothingWraps
<1> HIDE DEF L, f, k, T
<1>5. SumFunctionOnSet(f, T) = SumFunctionOnSet(g, S)
  BY <1>1, <1>2, SumGrouped
<1> HIDE DEF g
<1>6. SumFunctionOnSet(g, S) = SumFunctionOnSet(L, S)
  BY <1>1, <1>3, SumSame
<1> QED BY <1>4, <1>5, <1>6 DEF L

(* An order that can be covered comes to the nearest level, if to any.      *)
LEMMA NearestIsMet ==
  ASSUME NEW L \in [Index -> Nat], NEW side \in Side, NEW qty \in Nat, qty > 0,
         NEW i \in Offering(L), \A j \in Offering(L) : ~ Better(side, j, i)
  PROVE  Ahead(L, side, i) = {} /\ AheadQty(L, side, i) = 0 /\ i \in Met(L, side, qty)
<1>1. Ahead(L, side, i) = {}
  BY DEF Ahead
<1>2. AheadQty(L, side, i) = 0
  BY <1>1, SumEmpty DEF AheadQty
<1> QED BY <1>1, <1>2 DEF Met

LEMMA CoveredMeets ==
  ASSUME NEW L \in [Index -> Nat], NEW side \in Side, NEW qty \in Nat, qty > 0,
         SumFunctionOnSet(L, Offering(L)) >= qty
  PROVE  Met(L, side, qty) # {} /\ Offering(L) # {}
<1>1. Offering(L) # {} /\ Offering(L) \in SUBSET Index
  <2>1. CASE Offering(L) = {}
    <3>1. SumFunctionOnSet(L, Offering(L)) = 0
      BY <2>1, SumEmpty
    <3> QED BY <3>1
  <2> QED BY <2>1 DEF Offering
<1>2. PICK i \in Offering(L) : \A j \in Offering(L) \ {i} : Better(side, i, j)
  BY <1>1, EndsExist
<1>3. \A j \in Offering(L) : j \in Int
  BY <1>1, LadderSizeType DEF Index
<1>4. \A j \in Offering(L) : ~ Better(side, j, i)
  BY <1>2, <1>3, BetterOrder
<1>5. i \in Met(L, side, qty)
  BY <1>4, NearestIsMet
<1> QED BY <1>1, <1>5

(* The levels up to some limit cover an order exactly if all levels do and  *)
(* the farthest it comes to is one of them.                                 *)
LEMMA PrefixCovers ==
  ASSUME NEW L \in [Index -> Nat], NEW side \in Side, NEW qty \in Nat, qty > 0,
         NEW F \in SUBSET Offering(L),
         \A i \in F, j \in Offering(L) : Better(side, j, i) => j \in F
  PROVE  SumFunctionOnSet(L, F) >= qty <=>
           /\ SumFunctionOnSet(L, Offering(L)) >= qty
           /\ Farthest(side, Met(L, side, qty)) \in F
<1> DEFINE W == Offering(L)
           R == Met(L, side, qty)
           w == Farthest(side, R)
<1>1. /\ W \in SUBSET Index /\ F \in SUBSET Index /\ R \in SUBSET W /\ R \in SUBSET Index
      /\ \A i \in W : i \in Int
      /\ SumFunctionOnSet(L, W) \in Nat /\ SumFunctionOnSet(L, F) \in Nat
      /\ SumFunctionOnSet(L, F) <= SumFunctionOnSet(L, W)
  <2>1. /\ W \in SUBSET Index /\ F \in SUBSET Index /\ R \in SUBSET W /\ R \in SUBSET Index
        /\ F \in SUBSET W
    BY DEF Offering, Met
  <2>2. \A i \in W : i \in Int
    BY <2>1, LadderSizeType DEF Index
  <2> HIDE DEF W, R
  <2> QED BY <2>1, <2>2, LevelSum
<1>2. ASSUME SumFunctionOnSet(L, F) >= qty
      PROVE  SumFunctionOnSet(L, W) >= qty /\ w \in F
  <2>1. SumFunctionOnSet(L, W) >= qty
    BY <1>1, <1>2
  <2>2. w \in R
    BY <1>1, <2>1, CoveredMeets, FarthestIs
  <2>3. CASE w \notin F
    <3>1. \A j \in F : Better(side, j, w)
      BY <1>1, <2>2, <2>3, BetterOrder
    <3>2. F \in SUBSET Ahead(L, side, w) /\ Ahead(L, side, w) \in SUBSET Index
      BY <1>1, <3>1 DEF Ahead
    <3>3. SumFunctionOnSet(L, F) <= AheadQty(L, side, w) /\ AheadQty(L, side, w) \in Nat
      BY <3>2, LevelSum DEF AheadQty
    <3>4. AheadQty(L, side, w) < qty
      BY <2>2 DEF Met
    <3> QED BY <1>1, <1>2, <3>3, <3>4
  <2> QED BY <2>1, <2>3
<1>3. ASSUME SumFunctionOnSet(L, W) >= qty, w \in F
      PROVE  SumFunctionOnSet(L, F) >= qty
  <2>1. R # {}
    BY <1>3, CoveredMeets
  <2>2. \A j \in R : j \in F
    BY <1>1, <1>3, <2>1, FarthestIs
  <2>3. CASE W \ F = {}
    <3>1. W = F
      BY <2>3
    <3> QED BY <1>3, <3>1
  <2>4. CASE W \ F # {}
    <3>1. W \ F \in SUBSET Index
      BY <1>1
    <3>2. PICK j \in W \ F : \A k \in (W \ F) \ {j} : Better(side, j, k)
      BY <2>4, <3>1, EndsExist
    <3>3. Ahead(L, side, j) = F
      <4>1. ASSUME NEW k \in W, Better(side, k, j) PROVE k \in F
        BY <1>1, <3>2, <4>1, BetterOrder
      <4>2. ASSUME NEW k \in F PROVE Better(side, k, j)
        BY <1>1, <3>2, <4>2, BetterOrder
      <4> QED BY <4>1, <4>2 DEF Ahead
    <3>4. ~ (SumFunctionOnSet(L, F) < qty)
      BY <2>2, <3>2, <3>3 DEF Met, AheadQty
    <3> QED BY <1>1, <3>4
  <2> QED BY <2>3, <2>4
<1> QED BY <1>2, <1>3

(* fillable() adds up the levels in front of the limit.                     *)
LEMMA FillableByLevels ==
  ASSUME NEW B, NoWrap(B), NEW b \in Book, Genuine(b), AtMost(b, B), TotalsExact(b),
         Summarised(b), NEW takerSide \in Side, NEW limit \in Int
  PROVE  LET side == Opposite(takerSide)
             F == {i \in Walked(b, side) : WithinLimit(takerSide, ToPrice(i), limit)}
         IN /\ Fillable(b, takerSide, limit) = SumFunctionOnSet(Levels(b, side), F)
            /\ \A i \in F, j \in Walked(b, side) : Better(side, j, i) => j \in F
<1> DEFINE side == Opposite(takerSide)
           L == Levels(b, side)
           F == {i \in Walked(b, side) : WithinLimit(takerSide, ToPrice(i), limit)}
           near == {i \in b.bits[side] : /\ ~ Better(side, i, b.best[side])
                                         /\ WithinLimit(takerSide, ToPrice(i), limit)}
           g == [i \in near |-> b.level[side][i].qty]
<1>1. side \in Side
  BY DEF Opposite, Side
<1>2. /\ Walked(b, side) = b.bits[side] /\ F \in SUBSET Index
      /\ \A i \in Walked(b, side) : i \in Int
      /\ HasBest(b, side) <=> b.bits[side] # {}
  BY <1>1, WalkedIsBits
<1>3. L \in [Index -> Nat]
  <2>1. \A i \in Index : b.level[side][i].qty \in Nat
    BY <1>1, LevelOffers
  <2> QED BY <2>1 DEF Levels
<1>4. SumFunctionOnSet(L, F) \in Nat /\ SumFunctionOnSet(L, F) < QtyMod
  BY <1>1, <1>2, <1>3, LevelSum, LevelsAddUp
<1>5. \A n \in Nat : n < QtyMod => n % QtyMod = n
  BY WidthAssumption
<1>6. Fillable(b, takerSide, limit) = SumFunctionOnSet(L, F)
  <2>1. CASE HasBest(b, side)
    <3>1. near = F
      BY <1>2, <2>1 DEF Walked
    <3>2. DOMAIN g = F /\ (\A i \in F : g[i] = L[i]) /\ IsFiniteSet(F)
      BY <1>2, <1>3, <3>1, LevelSum DEF Levels
    <3>3. Fillable(b, takerSide, limit) = SumFunction(g) % QtyMod
      BY <2>1 DEF Fillable
    <3> HIDE DEF g, F, L
    <3>4. SumFunctionOnSet(g, F) = SumFunctionOnSet(L, F)
      BY <3>2, SumSame
    <3>5. SumFunction(g) = SumFunctionOnSet(g, F)
      BY <3>2 DEF SumFunction
    <3> QED BY <1>4, <1>5, <3>3, <3>4, <3>5
  <2>2. CASE ~ HasBest(b, side)
    <3>1. F = {}
      BY <1>2, <2>2
    <3>2. SumFunctionOnSet(L, F) = 0
      BY <3>1, SumEmpty
    <3> QED BY <2>2, <3>2 DEF Fillable
  <2> QED BY <2>1, <2>2
<1>7. ASSUME NEW i \in F, NEW j \in Walked(b, side), Better(side, j, i) PROVE j \in F
  <2>1. i \in Int /\ j \in Int /\ WithinLimit(takerSide, ToPrice(i), limit)
    BY <1>2
  <2>2. ToPrice(i) \in Int /\ ToPrice(j) \in Int
    BY <2>1, BandAssumption DEF ToPrice
  <2>3. WithinLimit(takerSide, ToPrice(j), limit)
    <3>1. CASE takerSide = "Buy"
      <4>1. ToPrice(j) < ToPrice(i)
        BY <1>7, <2>1, <3>1, RungOrder DEF Better, Opposite
      <4> QED BY <2>1, <2>2, <3>1, <4>1 DEF WithinLimit
    <3>2. CASE takerSide = "Sell"
      <4>1. ToPrice(i) < ToPrice(j)
        BY <1>7, <2>1, <3>2, RungOrder DEF Better, Opposite
      <4> QED BY <2>1, <2>2, <3>2, <4>1 DEF WithinLimit
    <3> QED BY <3>1, <3>2 DEF Side
  <2> QED BY <2>3
<1> QED BY <1>6, <1>7

(* The two walks of the engine agree on what lies within a limit while no   *)
(* total can wrap.                                                          *)
THEOREM SweepCorrect ==
  ASSUME NEW B, NoWrap(B)
  PROVE  Spec => []SweepAgreesWithFillable
<1>1. Modest(B) => SweepAgreesWithFillable
  <2> SUFFICES ASSUME Modest(B), NEW takerSide \in Side, NEW limit \in Prices,
                      NEW qty \in Quantities \ {0}
               PROVE  LET q == SweepCost(book, takerSide, qty)
                      IN Fillable(book, takerSide, limit) >= qty <=>
                           (q.ok /\ WithinLimit(takerSide, q.worst, limit))
    BY DEF SweepAgreesWithFillable
  <2> DEFINE side == Opposite(takerSide)
             L == Levels(book, side)
             W == Walked(book, side)
             F == {i \in W : WithinLimit(takerSide, ToPrice(i), limit)}
             R == Met(L, side, qty)
             q == SweepCost(book, takerSide, qty)
  <2>1. /\ book \in Book /\ Summarised(book) /\ Genuine(book) /\ TotalsExact(book)
        /\ AtMost(book, B) /\ EndsExact(book) /\ limit \in Int /\ qty \in Nat /\ qty > 0
    BY ModestFacts, InputAssumption DEF Quantity
  <2>2. /\ L \in [Index -> Nat] /\ side \in Side /\ Offering(L) = W
        /\ q = Sweep(L, side, qty)
    BY <2>1, SweepByLevels
  <2>3. /\ Fillable(book, takerSide, limit) = SumFunctionOnSet(L, F)
        /\ \A i \in F, j \in W : Better(side, j, i) => j \in F
    BY <2>1, FillableByLevels
  <2>4. F \in SUBSET W
    OBVIOUS
  <2>5. SumFunctionOnSet(L, F) >= qty <=>
          /\ SumFunctionOnSet(L, W) >= qty
          /\ Farthest(side, R) \in F
    <3> HIDE DEF L, W, F, side
    <3> QED BY <2>1, <2>2, <2>3, <2>4, PrefixCovers
  <2>6. q.ok <=> SumFunctionOnSet(L, W) >= qty
    <3> HIDE DEF q, L, W, side
    <3> QED BY <2>2 DEF Sweep
  <2>7. ASSUME q.ok PROVE Farthest(side, R) \in F <=> WithinLimit(takerSide, q.worst, limit)
    <3>1. R # {}
      BY <2>1, <2>2, <2>6, <2>7, CoveredMeets
    <3>2. q.worst = ToPrice(Farthest(side, R))
      BY <2>2, <3>1 DEF Sweep
    <3>3. R \in SUBSET W /\ R \in SUBSET Index
      BY <2>2 DEF Met, Offering
    <3>4. Farthest(side, R) \in R
      BY <2>2, <3>1, <3>3, FarthestIs
    <3> HIDE DEF R
    <3> QED BY <3>2, <3>3, <3>4
  <2> HIDE DEF q, F, R, L, W
  <2> QED BY <2>3, <2>5, <2>6, <2>7 DEF q
<1>2. Spec => []Modest(B)
  BY ModestAlways
<1> QED BY <1>1, <1>2, PTL
-------------------------------------------------------------------------------
(* The forecast of a sweep comes true trade by trade.                       *)

(* What a trade of q lots at the nearest level does to the sweep of the     *)
(* order that trades: L are the levels before, M those after.               *)
LEMMA TradedLevels ==
  ASSUME NEW L \in [Index -> Nat], NEW M \in [Index -> Nat], NEW side \in Side,
         NEW near \in Offering(L), \A j \in Offering(L) : ~ Better(side, j, near),
         NEW q \in Nat, q > 0, q <= L[near], M[near] = L[near] - q,
         \A j \in Index \ {near} : M[j] = L[j]
  PROVE  /\ Offering(M) \ {near} = Offering(L) \ {near}
         /\ near \in Offering(M) <=> L[near] > q
         /\ SumFunctionOnSet(M, Offering(M)) = SumFunctionOnSet(L, Offering(L)) - q
         /\ \A i \in Offering(L) \ {near} : AheadQty(M, side, i) = AheadQty(L, side, i) - q
         /\ AheadQty(M, side, near) = 0 /\ AheadQty(L, side, near) = 0
<1> DEFINE W == Offering(L)
           V == Offering(M)
<1>1. /\ near \in Index /\ W \in SUBSET Index /\ V \in SUBSET Index
      /\ V \ {near} = W \ {near} /\ near \in W /\ (near \in V <=> L[near] > q)
      /\ \A j \in Index : j \in Int
  <2>1. L[near] \in Nat /\ near \in Index
    BY DEF Offering
  <2>2. \A j \in Index : j \in Int
    BY LadderSizeType DEF Index
  <2> QED BY <2>1, <2>2 DEF Offering
<1>2. ASSUME NEW S \in SUBSET Index, near \in S
      PROVE  SumFunctionOnSet(M, S) = SumFunctionOnSet(L, S) - q
  <2> DEFINE D == S \ {near}
  <2>1. /\ D \in SUBSET Index /\ IsFiniteSet(D) /\ \A j \in D : M[j] = L[j]
    BY LevelSum
  <2>2. /\ SumFunctionOnSet(M, S) = M[near] + SumFunctionOnSet(M, D)
        /\ SumFunctionOnSet(L, S) = L[near] + SumFunctionOnSet(L, D)
        /\ SumFunctionOnSet(L, D) \in Nat
    BY <1>2, <2>1, LevelSum
  <2> HIDE DEF D
  <2>3. SumFunctionOnSet(M, D) = SumFunctionOnSet(L, D)
    BY <2>1, SumSame
  <2>4. L[near] \in Nat
    BY <1>1
  <2> QED BY <2>2, <2>3, <2>4
<1>3. ASSUME NEW S \in SUBSET W, NEW T \in SUBSET V, near \in S, S \ {near} = T \ {near},
             L[near] > q => near \in T
      PROVE  SumFunctionOnSet(M, T) = SumFunctionOnSet(L, S) - q
  <2>1. S \in SUBSET Index
    BY <1>1
  <2>2. SumFunctionOnSet(M, S) = SumFunctionOnSet(L, S) - q
    BY <1>2, <1>3, <2>1
  <2>3. CASE near \in T
    <3>1. T = S
      BY <1>3, <2>3
    <3> QED BY <2>2, <3>1
  <2>4. CASE near \notin T
    <3>1. T = S \ {near} /\ M[near] = 0
      BY <1>1, <1>3, <2>4
    <3>2. SumFunctionOnSet(M, S \ {near}) = SumFunctionOnSet(M, S)
      BY <1>3, <2>1, <3>1, EmptyLevelsAddNothing
    <3> QED BY <2>2, <3>1, <3>2
  <2> QED BY <2>3, <2>4
<1>4. SumFunctionOnSet(M, V) = SumFunctionOnSet(L, W) - q
  BY <1>1, <1>3
<1>5. ASSUME NEW i \in W \ {near} PROVE AheadQty(M, side, i) = AheadQty(L, side, i) - q
  <2> DEFINE S == Ahead(L, side, i)
             T == Ahead(M, side, i)
  <2>1. Better(side, near, i)
    BY <1>1, BetterOrder
  <2>2. /\ S \in SUBSET W /\ T \in SUBSET V /\ near \in S /\ S \ {near} = T \ {near}
        /\ L[near] > q => near \in T
    BY <1>1, <2>1 DEF Ahead
  <2> HIDE DEF S, T
  <2>3. SumFunctionOnSet(M, T) = SumFunctionOnSet(L, S) - q
    BY <1>3, <2>2
  <2> QED BY <2>3 DEF AheadQty, S, T
<1>6. Ahead(L, side, near) = {} /\ Ahead(M, side, near) = {}
  <2>1. \A j \in V : ~ Better(side, j, near)
    BY <1>1, BetterOrder
  <2> QED BY <2>1 DEF Ahead
<1>7. AheadQty(M, side, near) = 0 /\ AheadQty(L, side, near) = 0
  BY <1>6, SumEmpty DEF AheadQty
<1> QED BY <1>1, <1>4, <1>5, <1>7

LEMMA SweepAfterTrade ==
  ASSUME NEW L \in [Index -> Nat], NEW M \in [Index -> Nat], NEW side \in Side,
         NEW near \in Offering(L), \A j \in Offering(L) : ~ Better(side, j, near),
         NEW q \in Nat, q > 0, q <= L[near], M[near] = L[near] - q,
         \A j \in Index \ {near} : M[j] = L[j],
         NEW qty \in Nat, q <= qty
  PROVE  LET f == Sweep(L, side, qty)
             g == Sweep(M, side, qty - q)
         IN /\ f.ok = g.ok
            /\ f.notional = g.notional + ToPrice(near) * q
            /\ g.notional \in Int
            /\ qty = q => f.worst = ToPrice(near)
            /\ f.ok /\ qty > q => f.worst = g.worst
<1> DEFINE W == Offering(L)
           V == Offering(M)
           R == Met(L, side, qty)
           Q == Met(M, side, qty - q)
           P == Paid(L, side, qty)
           O == Paid(M, side, qty - q)
           px == ToPrice(near)
           A(i) == AheadQty(L, side, i)
<1>1. /\ V \ {near} = W \ {near} /\ near \in W /\ near \in Index
      /\ near \in V <=> L[near] > q
      /\ SumFunctionOnSet(M, V) = SumFunctionOnSet(L, W) - q
      /\ \A i \in W \ {near} : AheadQty(M, side, i) = A(i) - q
      /\ AheadQty(M, side, near) = 0 /\ A(near) = 0
  <2>1. near \in W /\ near \in Index
    BY DEF Offering
  <2>2. /\ Offering(M) \ {near} = Offering(L) \ {near}
        /\ near \in Offering(M) <=> L[near] > q
        /\ SumFunctionOnSet(M, Offering(M)) = SumFunctionOnSet(L, Offering(L)) - q
        /\ \A i \in Offering(L) \ {near} : AheadQty(M, side, i) = AheadQty(L, side, i) - q
        /\ AheadQty(M, side, near) = 0 /\ AheadQty(L, side, near) = 0
    BY TradedLevels
  <2> QED BY <2>1, <2>2
<1>2. /\ W \in SUBSET Index /\ V \in SUBSET Index /\ R \in SUBSET W /\ Q \in SUBSET V
      /\ R \in SUBSET Index /\ Q \in SUBSET Index
      /\ \A i \in Index : i \in Int /\ ToPrice(i) \in Int
      /\ \A i \in Index : L[i] \in Nat /\ M[i] \in Nat
  BY LadderSizeType, BandAssumption DEF Offering, Met, Index, ToPrice
<1>3. \A i : A(i) \in Nat /\ AheadQty(M, side, i) \in Nat
  <2>1. \A i : Ahead(L, side, i) \in SUBSET Index /\ Ahead(M, side, i) \in SUBSET Index
    BY DEF Ahead, Offering
  <2> QED BY <2>1, LevelSum DEF AheadQty
<1>4. /\ R \ {near} = Q \ {near} /\ near \in R
      /\ near \in Q <=> L[near] > q /\ qty > q
  <2>1. \A i \in W \ {near} : i \in R <=> i \in Q
    <3> SUFFICES ASSUME NEW i \in W \ {near} PROVE i \in R <=> i \in Q
      OBVIOUS
    <3>1. AheadQty(M, side, i) = A(i) - q /\ A(i) \in Nat /\ i \in V
      BY <1>1, <1>3
    <3> QED BY <3>1 DEF Met
  <2>2. near \in R
    BY <1>1 DEF Met
  <2>3. near \in Q <=> L[near] > q /\ qty > q
    BY <1>1 DEF Met
  <2> HIDE DEF R, Q, W, V
  <2> QED BY <1>1, <1>2, <2>1, <2>2, <2>3
<1>5. /\ \A i \in Index : /\ P[i] = ToPrice(i) * Smaller(qty - A(i), L[i]) /\ P[i] \in Int
                          /\ O[i] = ToPrice(i) * Smaller(qty - q - AheadQty(M, side, i), M[i])
                          /\ O[i] \in Int
  <2> SUFFICES ASSUME NEW i \in Index
               PROVE  /\ P[i] = ToPrice(i) * Smaller(qty - A(i), L[i]) /\ P[i] \in Int
                      /\ O[i] = ToPrice(i) * Smaller(qty - q - AheadQty(M, side, i), M[i])
                      /\ O[i] \in Int
    OBVIOUS
  <2>1. /\ P[i] = ToPrice(i) * Smaller(qty - A(i), L[i])
        /\ O[i] = ToPrice(i) * Smaller(qty - q - AheadQty(M, side, i), M[i])
    BY DEF Paid
  <2>2. /\ Smaller(qty - A(i), L[i]) \in Int
        /\ Smaller(qty - q - AheadQty(M, side, i), M[i]) \in Int
    BY <1>2, <1>3 DEF Smaller
  <2> QED BY <1>2, <2>1, <2>2
<1>6. \A i \in W \ {near} : P[i] = O[i]
  <2> SUFFICES ASSUME NEW i \in W \ {near} PROVE P[i] = O[i]
    OBVIOUS
  <2>1. i \in Index /\ M[i] = L[i] /\ AheadQty(M, side, i) = A(i) - q /\ A(i) \in Nat
    BY <1>1, <1>2, <1>3
  <2>2. qty - q - (A(i) - q) = qty - A(i)
    BY <2>1
  <2> QED BY <1>5, <2>1, <2>2
<1>7. P[near] = px * Smaller(qty, L[near]) /\ O[near] = px * Smaller(qty - q, M[near])
      /\ px \in Int /\ L[near] \in Nat
  <2>1. qty - 0 = qty /\ qty - q - 0 = qty - q
    OBVIOUS
  <2> QED BY <1>1, <1>2, <1>5, <2>1
<1> HIDE DEF A, P, O, R, Q, W, V, px
<1>8. IsFiniteSet(R) /\ IsFiniteSet(Q) /\ IsFiniteSet(R \ {near})
  <2>1. R \ {near} \in SUBSET Index
    BY <1>2
  <2> QED BY <1>2, <2>1, LevelSum
<1>9. /\ SumFunctionOnSet(P, R) = P[near] + SumFunctionOnSet(P, R \ {near})
      /\ SumFunctionOnSet(P, R \ {near}) = SumFunctionOnSet(O, Q \ {near})
      /\ near \in Q => SumFunctionOnSet(O, Q) = O[near] + SumFunctionOnSet(O, Q \ {near})
      /\ SumFunctionOnSet(P, R \ {near}) \in Int /\ SumFunctionOnSet(O, Q) \in Int
  <2>1. \A i \in R : P[i] \in Int
    BY <1>2, <1>5
  <2>2. \A i \in Q : O[i] \in Int
    BY <1>2, <1>5
  <2>3. \A i \in R \ {near} : P[i] = O[i] /\ P[i] \in Int
    BY <1>2, <1>6, <2>1
  <2>4. SumFunctionOnSet(P, R) = P[near] + SumFunctionOnSet(P, R \ {near})
    BY <1>4, <1>8, <2>1, SumRemove
  <2>5. SumFunctionOnSet(P, R \ {near}) = SumFunctionOnSet(O, R \ {near})
    BY <1>8, <2>3, SumSame
  <2>6. near \in Q => SumFunctionOnSet(O, Q) = O[near] + SumFunctionOnSet(O, Q \ {near})
    BY <1>8, <2>2, SumRemove
  <2>7. SumFunctionOnSet(P, R \ {near}) \in Int
    BY <1>8, <2>3, SumType
  <2>8. SumFunctionOnSet(O, Q) \in Int
    BY <1>8, <2>2, SumType
  <2> QED BY <1>4, <2>4, <2>5, <2>6, <2>7, <2>8
<1>10. SumFunctionOnSet(P, R) = SumFunctionOnSet(O, Q) + px * q
  <2> DEFINE a == Smaller(qty, L[near])
  <2>1. a \in Nat /\ (near \notin Q => a = q)
    BY <1>4, <1>7 DEF Smaller
  <2>2. Smaller(qty - q, M[near]) = a - q
    BY <1>7 DEF Smaller
  <2> HIDE DEF a
  <2>3. px * (a - q) + px * q = px * a /\ px * (a - q) \in Int /\ px * a \in Int /\ px * q \in Int
    BY <1>7, <2>1
  <2>4. CASE near \in Q
    BY <1>7, <1>9, <2>2, <2>3, <2>4 DEF a
  <2>5. CASE near \notin Q
    <3>1. Q \ {near} = Q
      BY <2>5
    <3>2. SumFunctionOnSet(P, R \ {near}) = SumFunctionOnSet(O, Q)
      BY <1>9, <3>1
    <3>3. P[near] = px * q
      BY <1>7, <2>1, <2>5 DEF a
    <3> QED BY <1>9, <2>3, <3>2, <3>3
  <2> QED BY <2>4, <2>5
<1>11. qty = q => Farthest(side, R) = near
  <2> SUFFICES ASSUME qty = q PROVE Farthest(side, R) = near
    OBVIOUS
  <2>1. ASSUME NEW i \in R \ {near} PROVE FALSE
    <3>1. AheadQty(M, side, i) = A(i) - q /\ A(i) \in Nat /\ AheadQty(M, side, i) \in Nat
      BY <1>1, <1>2, <1>3, <2>1
    <3>2. A(i) < qty
      BY <2>1 DEF R, A, Met
    <3> QED BY <3>1, <3>2
  <2>2. \A j \in R \ {near} : Better(side, j, near)
    BY <2>1
  <2> QED BY <1>2, <1>4, <2>2, FarthestIs
<1>12. ASSUME SumFunctionOnSet(L, W) >= qty, qty > q
       PROVE  Q # {} /\ Farthest(side, R) = Farthest(side, Q)
  <2>1. SumFunctionOnSet(L, W) \in Nat
    BY <1>2, LevelSum
  <2>2. SumFunctionOnSet(M, V) >= qty - q /\ qty - q \in Nat /\ qty - q > 0
    BY <1>1, <1>12, <2>1
  <2>3. Q # {}
    BY <2>2, CoveredMeets DEF Q, V
  <2> DEFINE w == Farthest(side, Q)
  <2>4. w \in Q /\ \A j \in Q \ {w} : Better(side, j, w)
    BY <1>2, <2>3, FarthestIs
  <2> HIDE DEF w
  <2>5. w \in R /\ \A j \in R \ {w} : j \in Q \/ j = near
    BY <1>4, <2>4
  <2>6. \A j \in W \ {near} : Better(side, near, j)
    BY <1>1, <1>2, BetterOrder DEF W
  <2>7. w # near => Better(side, near, w)
    BY <1>2, <2>5, <2>6
  <2>8. \A j \in R \ {w} : Better(side, j, w)
    BY <2>4, <2>5, <2>7
  <2>9. w = Farthest(side, R)
    BY <1>2, <2>5, <2>8, FarthestIs
  <2> QED BY <2>3, <2>9 DEF w
<1>13. SumFunctionOnSet(L, W) \in Nat
  BY <1>2, LevelSum
<1> DEFINE f == Sweep(L, side, qty)
           g == Sweep(M, side, qty - q)
<1>14. /\ f = [ok |-> SumFunctionOnSet(L, W) >= qty, notional |-> SumFunctionOnSet(P, R),
               worst |-> IF R = {} THEN 0 ELSE ToPrice(Farthest(side, R))]
       /\ g = [ok |-> SumFunctionOnSet(M, V) >= qty - q, notional |-> SumFunctionOnSet(O, Q),
               worst |-> IF Q = {} THEN 0 ELSE ToPrice(Farthest(side, Q))]
  BY DEF Sweep, P, O, R, Q, W, V
<1> HIDE DEF f, g
<1>15. f.ok = g.ok
  <2>1. SumFunctionOnSet(L, W) >= qty <=> SumFunctionOnSet(M, V) >= qty - q
    BY <1>1, <1>13
  <2>2. f.ok = (SumFunctionOnSet(L, W) >= qty) /\ g.ok = (SumFunctionOnSet(M, V) >= qty - q)
    BY <1>14
  <2>3. (SumFunctionOnSet(L, W) >= qty) \in BOOLEAN
        /\ (SumFunctionOnSet(M, V) >= qty - q) \in BOOLEAN
    OBVIOUS
  <2> QED BY <2>1, <2>2, <2>3
<1>16. /\ f.notional = g.notional + px * q /\ g.notional \in Int
  BY <1>9, <1>10, <1>14
<1>17. qty = q => f.worst = px
  BY <1>4, <1>11, <1>14 DEF px
<1>18. f.ok /\ qty > q => f.worst = g.worst
  BY <1>4, <1>12, <1>14
<1> QED BY <1>15, <1>16, <1>17, <1>18 DEF f, g, px

(* A trade takes its quantity off the level of the maker, and off no other. *)
LEMMA TradeTakes ==
  ASSUME NEW B, NoWrap(B), NEW b \in Book, Genuine(b), AtMost(b, B), TotalsExact(b),
         Linked(b), EndsExact(b), NEW side \in Side, NEW i \in Index,
         NEW s \in OrdersAt(b, side, i), NEW q \in Quantity, q <= b.pool[s].remaining,
         NEW c \in Book, c = FillMaker(b, s, q), Genuine(c), AtMost(c, B), TotalsExact(c)
  PROVE  /\ Levels(c, side)[i] = Levels(b, side)[i] - q
         /\ q <= Levels(b, side)[i]
         /\ \A j \in Index \ {i} : Levels(c, side)[j] = Levels(b, side)[j]
<1>1. s \in RestingSlots(b) /\ s \in Slot /\ b.pool[s].side = side /\ b.pool[s].level = i
  BY DEF OrdersAt, RestingSlots
<1>2. /\ SameSeen(b, c, Slot \ {s}) /\ SameOrders(b, c, Slot \ {s})
      /\ IF b.pool[s].remaining = q THEN RestingSlots(c) = RestingSlots(b) \ {s}
         ELSE /\ RestingSlots(c) = RestingSlots(b)
              /\ SameOrders(b, c, RestingSlots(b))
              /\ Seen(c, s) = SeenWith(b, s, b.pool[s].qty, b.pool[s].remaining - q)
  BY <1>1, FillSeen
<1>3. q \in Int /\ b.pool[s].remaining \in Int
  BY <1>1, TotalType DEF Quantity
<1>4. \A j \in Index : /\ Levels(b, side)[j] = Total(b, side, j)
                       /\ Levels(c, side)[j] = Total(c, side, j)
  <2>1. \A j \in Index : /\ b.level[side][j].qty = Total(b, side, j)
                         /\ c.level[side][j].qty = Total(c, side, j)
    BY NothingWraps
  <2> QED BY <2>1 DEF Levels
<1>5. ASSUME NEW j \in Index
      PROVE  Share(b, s, side, j) = IF j = i THEN b.pool[s].remaining ELSE 0
  BY <1>1 DEF Share, OrdersAt
<1>6. ASSUME NEW j \in Index
      PROVE  Share(c, s, side, j) = IF j = i THEN b.pool[s].remaining - q ELSE 0
  <2>1. CASE b.pool[s].remaining = q
    <3>1. s \notin OrdersAt(c, side, j)
      BY <1>2, <2>1 DEF OrdersAt
    <3>2. b.pool[s].remaining - q = 0
      BY <1>3, <2>1
    <3> QED BY <3>1, <3>2 DEF Share
  <2>2. CASE b.pool[s].remaining # q
    <3>1. /\ s \in RestingSlots(c) /\ c.pool[s].level = i /\ c.pool[s].side = side
          /\ c.pool[s].remaining = b.pool[s].remaining - q
      BY <1>1, <1>2, <2>2 DEF SameOrders, Seen, SeenWith
    <3> QED BY <3>1 DEF Share, OrdersAt
  <2> QED BY <2>1, <2>2
<1>7. ASSUME NEW j \in Index
      PROVE  Total(c, side, j) - Share(c, s, side, j) = Total(b, side, j) - Share(b, s, side, j)
  <2> DEFINE D == OrdersAt(b, side, j) \ {s}
             E == OrdersAt(c, side, j) \ {s}
  <2>1. D = E
    BY <1>2 DEF OrdersAt, RestingSlots, SameOrders
  <2>2. \A t \in D : Remaining(b)[t] = Remaining(c)[t]
    <3>1. \A t \in D : t \in Slot \ {s}
      BY DEF OrdersAt, RestingSlots
    <3>2. \A t \in Slot \ {s} : c.pool[t].remaining = b.pool[t].remaining
      BY <1>2 DEF SameSeen, Seen
    <3> QED BY <3>1, <3>2 DEF Remaining
  <2>3. /\ Total(b, side, j) = Share(b, s, side, j) + SumFunctionOnSet(Remaining(b), D)
        /\ Total(c, side, j) = Share(c, s, side, j) + SumFunctionOnSet(Remaining(c), E)
        /\ SumFunctionOnSet(Remaining(b), D) \in Int /\ SumFunctionOnSet(Remaining(c), E) \in Int
        /\ Share(b, s, side, j) \in Int /\ Share(c, s, side, j) \in Int
    BY <1>1, TotalSplit
  <2>4. SumFunctionOnSet(Remaining(b), D) = SumFunctionOnSet(Remaining(c), E)
    <3>1. IsFiniteSet(D)
      BY TotalType, FS_Subset
    <3> HIDE DEF D, E
    <3> QED BY <2>1, <2>2, <3>1, SumSame
  <2> HIDE DEF D, E
  <2> QED BY <2>3, <2>4
<1>8. \A j \in Index : Total(b, side, j) \in Nat /\ Total(c, side, j) \in Nat
  BY TotalType
<1>9. b.pool[s].remaining <= Total(b, side, i)
  <2>1. Total(c, side, i) - (b.pool[s].remaining - q) = Total(b, side, i) - b.pool[s].remaining
    BY <1>5, <1>6, <1>7
  <2>2. /\ Total(b, side, i) = Share(b, s, side, i) + SumFunctionOnSet(Remaining(b), OrdersAt(b, side, i) \ {s})
    BY <1>1, TotalSplit
  <2>3. SumFunctionOnSet(Remaining(b), OrdersAt(b, side, i) \ {s}) \in Nat
    <3> DEFINE D == OrdersAt(b, side, i) \ {s}
    <3>1. IsFiniteSet(D)
      BY TotalType, FS_Subset
    <3>2. \A t \in D : Remaining(b)[t] \in Nat /\ Remaining(b)[t] \in Int
      <4>1. \A t \in D : t \in Slot
        BY TotalType
      <4>2. \A t \in Slot : Remaining(b)[t] = b.pool[t].remaining /\ b.pool[t].remaining \in Nat
        BY TotalType
      <4> QED BY <4>1, <4>2
    <3> HIDE DEF D
    <3>3. SumFunctionOnSet(Remaining(b), D) \in Nat
      BY <3>1, <3>2, SumType
    <3> QED BY <3>3 DEF D
  <2> QED BY <1>3, <1>5, <2>2, <2>3
<1>10. Total(c, side, i) = Total(b, side, i) - q
  <2>1. Total(c, side, i) - (b.pool[s].remaining - q) = Total(b, side, i) - b.pool[s].remaining
    BY <1>5, <1>6, <1>7
  <2> QED BY <1>3, <1>8, <2>1
<1>11. ASSUME NEW j \in Index \ {i} PROVE Total(c, side, j) = Total(b, side, j)
  <2>1. Total(c, side, j) - 0 = Total(b, side, j) - 0
    BY <1>5, <1>6, <1>7
  <2> QED BY <1>8, <2>1
<1>12. q <= Total(b, side, i)
  BY <1>3, <1>8, <1>9
<1> QED BY <1>4, <1>10, <1>11, <1>12

(* A sweep of no lots, and a sweep of a side with no orders.                *)
LEMMA EmptySweeps ==
  ASSUME NEW L \in [Index -> Nat], NEW side \in Side
  PROVE  /\ Sweep(L, side, 0).ok /\ Sweep(L, side, 0).notional = 0
         /\ \A qty \in Nat : Offering(L) = {} /\ qty > 0 => ~ Sweep(L, side, qty).ok
<1>1. \A i : AheadQty(L, side, i) \in Nat
  <2>1. \A i : Ahead(L, side, i) \in SUBSET Index
    BY DEF Ahead, Offering
  <2> QED BY <2>1, LevelSum DEF AheadQty
<1>2. Met(L, side, 0) = {}
  BY <1>1 DEF Met
<1>3. SumFunctionOnSet(L, Offering(L)) \in Nat
  <2>1. Offering(L) \in SUBSET Index
    BY DEF Offering
  <2> QED BY <2>1, LevelSum
<1>4. Sweep(L, side, 0).ok /\ Sweep(L, side, 0).notional = 0
  <2>1. Sweep(L, side, 0).ok <=> SumFunctionOnSet(L, Offering(L)) >= 0
    BY DEF Sweep
  <2>2. Sweep(L, side, 0).notional = SumFunctionOnSet(Paid(L, side, 0), {})
    BY <1>2 DEF Sweep
  <2>3. SumFunctionOnSet(Paid(L, side, 0), {}) = 0
    BY SumEmpty
  <2> QED BY <1>3, <2>1, <2>2, <2>3
<1>5. ASSUME NEW qty \in Nat, Offering(L) = {}, qty > 0 PROVE ~ Sweep(L, side, qty).ok
  <2>1. SumFunctionOnSet(L, Offering(L)) = 0
    BY <1>5, SumEmpty
  <2>2. Sweep(L, side, qty).ok <=> SumFunctionOnSet(L, Offering(L)) >= qty
    BY DEF Sweep
  <2> QED BY <1>5, <2>1, <2>2
<1> QED BY <1>4, <1>5

LEMMA OkOf ==
  ASSUME NEW x, NEW y, NEW z, NEW r, r = [ok |-> x, notional |-> y, worst |-> z]
  PROVE  r.ok = x
OBVIOUS

(* A trade of a market order keeps what was forecast of it.                 *)
LEMMA ForecastKept ==
  ASSUME NEW B, NoWrap(B), Modest(B), Modest(B)', Fill
  PROVE  LET f == Forecast(book, call)
             g == Forecast(book', call')
         IN f.ok = g.ok /\ (f.ok => f = g)
<1> DEFINE side == MakerSide
           L == Levels(book, side)
           M == Levels(book', side)
           near == BestIndex
           px == ToPrice(near)
           q == Smaller(call.remaining, Maker.remaining)
           qty == call.remaining
           f == SweepCost(book, call.side, qty)
           g == SweepCost(book', call.side, qty - q)
<1>1. /\ book \in Book /\ Summarised(book) /\ Genuine(book) /\ TotalsExact(book)
      /\ AtMost(book, B) /\ ClientInvariant /\ Linked(book) /\ EndsExact(book)
  BY ModestFacts
<1>2. /\ book' \in Book /\ Summarised(book') /\ Genuine(book') /\ TotalsExact(book')
      /\ AtMost(book', B) /\ EndsExact(book')
  BY DEF Modest, TotalsInvariant, ClientInvariant, TouchInvariant, SlotInvariant, Sound, TypeOK
<1>3. call \in Call /\ call.side \in Side /\ qty \in Nat /\ call.notional \in Int
  BY <1>1 DEF ClientInvariant, TouchInvariant, SlotInvariant, TypeOK, Call, Quantity
<1>4. /\ q \in Quantity /\ q \in Nat /\ q > 0 /\ q <= Maker.remaining /\ q <= qty
      /\ book' = FillMaker(book, MakerSlot, q)
      /\ call' = [call EXCEPT !.remaining = @ - q, !.filled = @ + q,
                              !.notional = @ + px * q, !.lastPx = px]
  <2> HIDE DEF q, px, near, qty
  <2> QED BY <1>1, FillFacts DEF q, px, near, qty, Maker, Quantity
<1>5. /\ call'.remaining = qty - q /\ call'.side = call.side
      /\ call'.notional = call.notional + px * q /\ call'.lastPx = px
  <2> HIDE DEF q, px
  <2> QED BY SMTT(20), <1>3, <1>4 DEF Call
<1>6. /\ side \in Side /\ near \in Index /\ px \in Int
      /\ MakerSlot \in OrdersAt(book, side, near)
  <2>1. side \in Side /\ near \in Index /\ px \in Int
    BY <1>1, MakerType DEF Fill, ClientInvariant, TouchInvariant, SlotInvariant
  <2> QED BY <1>1, <2>1 DEF EndsExact, Fill, Matching, MakerSlot
<1>7. /\ M[near] = L[near] - q /\ q <= L[near] /\ \A j \in Index \ {near} : M[j] = L[j]
  <2> HIDE DEF q, near, side
  <2> QED BY <1>1, <1>2, <1>4, <1>6, TradeTakes DEF Maker
<1>8. /\ L \in [Index -> Nat] /\ M \in [Index -> Nat] /\ side = Opposite(call.side)
      /\ Offering(L) = Walked(book, side)
      /\ f = Sweep(L, side, qty) /\ g = Sweep(M, side, qty - q)
  <2>1. side = Opposite(call.side)
    BY DEF MakerSide
  <2> HIDE DEF q, qty, side
  <2> QED BY <1>1, <1>2, <1>3, <2>1, SweepByLevels
<1>9. near \in Offering(L) /\ \A j \in Offering(L) : ~ Better(side, j, near)
  <2>1. HasBest(book, side)
    BY DEF Fill, Matching, Crosses
  <2>2. near = book.best[side]
    BY DEF BestIndex
  <2>3. near \in Walked(book, side) /\ Walked(book, side) = book.bits[side]
    BY <1>1, <1>6, <2>1, <2>2, WalkedIsBits
  <2>4. \A j \in Walked(book, side) : ~ Better(side, j, near)
    BY <2>2 DEF Walked
  <2> HIDE DEF near, side, L
  <2> QED BY <1>8, <2>3, <2>4
<1> HIDE DEF L, M, near, q, qty, side, px
<1>10. /\ f.ok = g.ok /\ f.notional = g.notional + px * q /\ g.notional \in Int
       /\ qty = q => f.worst = px
       /\ f.ok /\ qty > q => f.worst = g.worst
  <2> HIDE DEF f, g
  <2> QED BY <1>3, <1>4, <1>6, <1>7, <1>8, <1>9, SweepAfterTrade DEF px
<1> HIDE DEF f, g
<1>11. /\ Forecast(book, call) =
            [ok |-> f.ok, notional |-> call.notional + f.notional, worst |-> f.worst]
       /\ Forecast(book', call') =
            [ok |-> g.ok, notional |-> call.notional + px * q + g.notional,
             worst |-> IF qty - q = 0 THEN px ELSE g.worst]
  <2>1. qty # 0
    BY <1>3, <1>4
  <2> QED BY <1>5, <2>1 DEF Forecast, f, g, qty
<1>12. px * q \in Int
  BY <1>4, <1>6
<1>13. call.notional + f.notional = call.notional + px * q + g.notional
  <2> DEFINE paid == px * q
  <2> HIDE DEF paid
  <2>1. paid \in Int /\ f.notional = g.notional + paid /\ g.notional \in Int
    BY <1>10, <1>12 DEF paid
  <2>2. call.notional + f.notional = call.notional + paid + g.notional
    BY <1>3, <2>1
  <2> QED BY <2>2 DEF paid
<1>14. f.ok => f.worst = IF qty - q = 0 THEN px ELSE g.worst
  <2>1. CASE qty = q
    BY <1>3, <1>4, <1>10, <2>1
  <2>2. CASE qty > q
    BY <1>3, <1>4, <1>10, <2>2
  <2> QED BY <1>3, <1>4, <2>1, <2>2
<1>15. Forecast(book, call).ok = f.ok /\ Forecast(book', call').ok = g.ok
  BY <1>11, OkOf
<1>16. f.ok => Forecast(book, call) = Forecast(book', call')
  BY <1>10, <1>11, <1>13, <1>14, Zenon
<1> QED BY <1>10, <1>15, <1>16, Zenon

(* mechanical_impact() in impact_study.py rests on what sweep_cost() says   *)
(* of a market order.  It says it from the totals of the levels, the match  *)
(* does it order by order: whether the order fills, for what notional and   *)
(* down to what price are the same after every trade, and what it returns.  *)
THEOREM ForecastCorrect ==
  ASSUME NEW B, NoWrap(B)
  PROVE  Spec => SweepForecastsMarket
<1> DEFINE f == Forecast(book, call)
           g == Forecast(book', call')
           A == call.active /\ call.market /\ (stp = "None" \/ call.participant = Anonymous) =>
                  IF call'.active
                  THEN f.ok = g.ok /\ (f.ok => f = g)
                  ELSE /\ f.ok <=> result'.remaining = 0
                       /\ f.ok => /\ result'.notional = f.notional
                                  /\ result'.lastPrice = f.worst
<1>1. Modest(B) /\ Modest(B)' /\ [Next]_vars => [A]_vars
  <2> SUFFICES ASSUME Modest(B), Modest(B)', Next, call.active, call.market,
                      stp = "None" \/ call.participant = Anonymous
               PROVE  IF call'.active
                      THEN f.ok = g.ok /\ (f.ok => f = g)
                      ELSE /\ f.ok <=> result'.remaining = 0
                           /\ f.ok => /\ result'.notional = f.notional
                                      /\ result'.lastPrice = f.worst
    OBVIOUS
  <2> DEFINE side == Opposite(call.side)
             L == Levels(book, side)
             n == call.remaining
             sw == SweepCost(book, call.side, n)
  <2>1. /\ book \in Book /\ Summarised(book) /\ Genuine(book) /\ TotalsExact(book)
        /\ AtMost(book, B) /\ ClientInvariant /\ EndsExact(book)
    BY ModestFacts
  <2>2. call \in Call /\ call.side \in Side /\ n \in Nat /\ TakerSound /\ call.notional \in Int
    BY <2>1 DEF ClientInvariant, TouchInvariant, SlotInvariant, TypeOK, Call, Quantity
  <2>3. /\ L \in [Index -> Nat] /\ side \in Side /\ Offering(L) = Walked(book, side)
        /\ sw = Sweep(L, side, n)
    BY <2>1, <2>2, SweepByLevels
  <2>4. f = [ok |-> sw.ok, notional |-> call.notional + sw.notional,
             worst |-> IF n = 0 THEN call.lastPx ELSE sw.worst]
    BY DEF Forecast
  <2>5. Fill \/ ReturnStep
    <3>1. ~ StopTaker /\ ~ PullMaker
      BY DEF StopTaker, PullMaker, SelfTrade
    <3> QED BY <3>1
        DEF Next, EngineStep, MatchStep, SubmitLimit, SubmitMarket, MayEnter, CancelLive,
            CancelUnknown, AmendUnknown, AmendToCancel, AmendDown, AmendUp,
            SetSelfTradePrevention, ClearTrades, Clear
  <2>6. CASE Fill
    <3>1. f.ok = g.ok /\ (f.ok => f = g)
      BY <2>6, ForecastKept
    <3>2. call'.active
      <4>1. call'.active = call.active
        BY <2>1, <2>2, <2>6, FillFacts DEF Call
      <4> QED BY <4>1
    <3> QED BY <3>1, <3>2
  <2>7. CASE ReturnStep
    <3>1. /\ ~ call'.active /\ result'.remaining = n /\ result'.notional = call.notional
          /\ result'.lastPrice = call.lastPx
      BY <2>7 DEF ReturnStep, ReturnFilled, ReturnResting, ReturnKilled, Return, Outcome, Idle
    <3>2. CASE n = 0
      <4>1. sw.ok /\ sw.notional = 0
        <5> HIDE DEF L, side, sw
        <5> QED BY <2>3, <3>2, EmptySweeps
      <4> HIDE DEF sw
      <4>2. f.ok /\ f.notional = call.notional /\ f.worst = call.lastPx
        BY <2>2, <2>4, <3>2, <4>1
      <4> QED BY <3>1, <3>2, <4>2
    <3>3. CASE n > 0
      <4>1. ~ call.stpCancelled
        BY <2>2 DEF TakerSound, SelfTrade
      <4>2. ~ HasBest(book, side)
        <5>1. Matched
          BY <2>7 DEF ReturnStep, ReturnFilled, ReturnResting, ReturnKilled
        <5>2. n # 0
          BY <3>3
        <5> QED BY <4>1, <5>1, <5>2 DEF Matched, Crosses, MakerSide
      <4>3. Offering(L) = {}
        BY <2>3, <4>2 DEF Walked
      <4>4. ~ sw.ok
        <5> HIDE DEF L, side, sw
        <5> QED BY <2>2, <2>3, <3>3, <4>3, EmptySweeps
      <4>5. f.ok = sw.ok
        BY <2>4, OkOf
      <4> QED BY <2>2, <3>1, <3>3, <4>4, <4>5
    <3> QED BY <2>2, <3>2, <3>3
  <2> QED BY <2>5, <2>6, <2>7
<1>2. Spec => []Modest(B)
  BY ModestAlways
<1> HIDE DEF A
<1>3. Spec => [][A]_vars
  BY <1>1, <1>2, PTL DEF Spec
<1> QED BY <1>3 DEF SweepForecastsMarket, A
===============================================================================
