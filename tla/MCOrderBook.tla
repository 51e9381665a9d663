------------------------------ MODULE MCOrderBook ------------------------------
(***************************************************************************)
(* Model checking of OrderBook, its queries and its refinement.            *)
(***************************************************************************)
EXTENDS OrderBookRefinement, BookQueries

(* What the engine's steps depend on.  The rest only grows or records: the  *)
(* tape, the counters, the last result, generations and what a free slot    *)
(* still holds.  Arrival numbers matter through their order, an id through  *)
(* whether it is the id of its slot.  The invariants read nothing else, so  *)
(* the run covers histories of every length.                                *)
OrderView(s) ==
  LET o == book.pool[s]
  IN IF ~ o.active THEN [id |-> o.id]
     ELSE [side |-> o.side, price |-> o.price, qty |-> o.qty, remaining |-> o.remaining,
           participant |-> o.participant, prev |-> o.prev, next |-> o.next,
           level |-> o.level, named |-> o.id = IdFor(book, s),
           rank |-> Cardinality({t \in RestingSlots(book) : book.pool[t].seq <= o.seq}),
           past |-> o.seq < nextSeq]

View ==
  << [s \in Slot |-> OrderView(s)], book.size, book.free, book.level, book.bits,
     book.best, book.open, stp,
     [call EXCEPT !.id = InvalidOrderId, !.notional = 0, !.lastPx = 0] >>

(* The same without the numbers of the slots, which no client sees: the     *)
(* resting orders with their places in the queues of their levels.  TypeOK, *)
(* a constant here, makes TLC evaluate a state in full before it stores it. *)
ClientView ==
  LET resting == RestingSlots(book)
      Before(o) == {t \in resting : LET p == book.pool[t] IN
                      p.seq < o.seq /\ p.level = o.level /\ p.side = o.side}
  IN << {LET o == book.pool[s]
         IN << o.side, o.level, Cardinality(Before(o)), o.qty, o.remaining,
               o.participant, o.price >> : s \in resting},
        [side \in Side |-> [i \in Index |-> book.level[side][i].qty]],
        book.bits, book.best, book.open, book.size, Len(book.free), stp,
        [call EXCEPT !.id = InvalidOrderId, !.slot = 0, !.notional = 0, !.lastPx = 0],
        TypeOK >>
===============================================================================
