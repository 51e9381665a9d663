--------------------------- MODULE OrderBookMonitor ----------------------------
(***************************************************************************)
(* The matching engine watched by its clients.  A client keeps the ids it  *)
(* was given and every trade it was told of; the engine forgets both.  The *)
(* four history variables record what clients know and never influence    *)
(* the engine.                                                             *)
(***************************************************************************)
EXTENDS OrderBook

VARIABLES
  history,    \* every trade since the last clear(), drained or not
  retired,    \* ids whose order is gone, issued since the last clear()
  lost,       \* ids issued before the last clear()
  completed   \* orders accepted since the last clear() that were filled or replaced

monitor == <<history, retired, lost, completed>>
monitoredVars == <<vars, monitor>>

RestingIds(b) == {b.pool[s].id : s \in RestingSlots(b)}
LiveIds       == RestingIds(book) \cup (IF call.active THEN {call.id} ELSE {})

MonitorInit ==
  /\ Init
  /\ history = << >>
  /\ retired = {}
  /\ lost = {}
  /\ completed = 0

(* An order is completed when its last lot trades, as maker or as taker, or *)
(* when an increase replaces it by a new order.                             *)
Watch ==
  LET traded   == nextTradeSeq' > nextTradeSeq
      gone     == RestingIds(book) \ RestingIds(book')
      filled   == call.active /\ ~ call'.active /\ result'.status = "Filled"
      replaced == ~ call.active /\ call'.active /\ gone # {}
  IN /\ history' = IF traded THEN Append(history, trades'[Len(trades')]) ELSE history
     /\ retired' = retired \cup (LiveIds \ LiveIds')
     /\ completed' = completed + (IF filled THEN 1 ELSE 0)
                               + (IF replaced THEN 1 ELSE 0)
                               + (IF traded THEN Cardinality(gone) ELSE 0)
     /\ UNCHANGED lost

WatchClear ==
  /\ history' = << >>
  /\ retired' = {}
  /\ lost' = lost \cup retired \cup LiveIds
  /\ completed' = 0

MonitorNext ==
  \/ EngineStep /\ Watch
  \/ Clear /\ WatchClear

MonitorSpec == MonitorInit /\ [][MonitorNext]_monitoredVars
-------------------------------------------------------------------------------
Traded(id) ==
  SumFunction([k \in {j \in DOMAIN history : id \in {history[j].maker, history[j].taker}}
                 |-> history[k].qty])

(* Partial fills, reductions and replacements each adjust qty or remaining  *)
(* of an order; what a client computes from its two fields, the quantity    *)
(* already filled, is what the tape says, trade by trade, also for an order *)
(* that first took liquidity, then rested, then was reduced.                *)
FillsMatchTape ==
  /\ \A s \in RestingSlots(book) :
       book.pool[s].qty - book.pool[s].remaining = Traded(book.pool[s].id)
  /\ call.active => /\ call.filled = Traded(call.id)
                    /\ call.qty - call.remaining = call.filled

(* Every accepted order rests, is counted as cancelled exactly once, or was *)
(* completed: by its own trades, by those of a taker, or by a replacement.  *)
OrdersConserved ==
  stats.accepted = book.open + stats.cancelled + completed

(* order_handle.hpp: "A stale id whose slot has since been reused fails the *)
(* generation check instead of silently aliasing a live order."  This holds *)
(* for the ids issued since the last clear(), while generations do not wrap.*)
StaleIdsStayDead == \A id \in retired : Resolve(book, id) = NoSlot

(* The same for every id ever issued.                                       *)
StaleIdsStayDeadForever == \A id \in retired \cup lost : Resolve(book, id) = NoSlot

(* order_handle.hpp: "Generation starts at 1 so that a valid id is never 0  *)
(* (kInvalidOrderId)."                                                      *)
ValidIdIsNeverZero == call.active => call.id # InvalidOrderId
===============================================================================
