----------------------------- MODULE PriceTimeBook ----------------------------
(***************************************************************************)
(* What a price-time priority book promises its clients, without slots,    *)
(* queues, bitmaps or cached prices: a set of orders, and a taker that     *)
(* trades with the one order that has priority until nothing in its limit  *)
(* is left.  OrderBook implements this specification.                      *)
(***************************************************************************)
EXTENDS LobTypes, Sequences, Functions

CONSTANTS
  Id,        \* order ids
  Price,     \* prices on the ladder
  Quantity,  \* quantities
  Participant

VARIABLES
  orders,    \* the resting orders
  taker,     \* the order being matched
  stp,       \* the self-trade prevention mode
  clock,     \* the arrival sequence number of the next order to rest
  tape       \* the trades since the tape was last cleared

vars == <<orders, taker, stp, clock, tape>>

NoTaker ==
  [active |-> FALSE, market |-> FALSE, id |-> InvalidOrderId, side |-> "Buy",
   price |-> 0, qty |-> 0, remaining |-> 0, tif |-> "GTC", participant |-> 0]

Taker ==
  [active : {TRUE}, market : BOOLEAN, id : Id, side : Side, price : Price,
   qty : Quantity, remaining : Quantity, tif : TimeInForce,
   participant : Participant]

Init ==
  /\ orders = {}
  /\ taker = NoTaker
  /\ stp = "None"
  /\ clock = 1
  /\ tape = << >>

InReach(t, price) ==
  t.market \/ IF t.side = "Buy" THEN price <= t.price ELSE price >= t.price

(* The orders t may trade with.                                             *)
Makers(t) == {o \in orders : o.side = Opposite(t.side) /\ InReach(t, o.price)}

(* Price first, then time.                                                  *)
HasPriority(o, p) ==
  \/ IF o.side = "Buy" THEN o.price > p.price ELSE o.price < p.price
  \/ o.price = p.price /\ o.seq < p.seq

First(S) == CHOOSE o \in S : \A p \in S \ {o} : HasPriority(o, p)

SelfTrade(o) ==
  stp # "None" /\ taker.participant # Anonymous /\ o.participant = taker.participant

Trading == taker.active /\ taker.remaining > 0 /\ Makers(taker) # {}

Available(t) == SumFunction([o \in Makers(t) |-> o.remaining])

(* An id in use is never given to another order.                            *)
Enters(t) ==
  /\ t \in Taker
  /\ t.remaining = t.qty /\ t.qty > 0
  /\ \A o \in orders : o.id # t.id

Submit ==
  /\ ~ taker.active
  /\ Enters(taker')
  /\ taker'.market => Makers(taker') # {}
  /\ taker'.tif = "FOK" => Available(taker') >= taker'.qty
  /\ UNCHANGED <<orders, stp, clock, tape>>

(* A trade is always with the order that has priority, at its price.        *)
Execute ==
  /\ Trading
  /\ LET o == First(Makers(taker))
         q == Smaller(o.remaining, taker.remaining)
     IN /\ ~ SelfTrade(o)
        /\ orders' = (orders \ {o}) \cup
                     (IF o.remaining = q THEN {} ELSE {[o EXCEPT !.remaining = @ - q]})
        /\ taker' = [taker EXCEPT !.remaining = @ - q]
        /\ tape' = Append(tape, [taker |-> taker.id, maker |-> o.id, price |-> o.price,
                                 qty |-> q, side |-> taker.side])
  /\ UNCHANGED <<stp, clock>>

Pull ==
  /\ Trading
  /\ stp = "CancelOldest"
  /\ SelfTrade(First(Makers(taker)))
  /\ orders' = orders \ {First(Makers(taker))}
  /\ UNCHANGED <<taker, stp, clock, tape>>

Stopped ==
  Trading /\ stp = "CancelNewest" /\ SelfTrade(First(Makers(taker)))

(* The taker stops only when it is filled, stopped, or can trade no more.   *)
Leave ==
  /\ taker.active
  /\ ~ Trading \/ Stopped
  /\ taker.remaining > 0 => (taker.market \/ taker.tif # "GTC" \/ Stopped)
  /\ taker' = NoTaker
  /\ UNCHANGED <<orders, stp, clock, tape>>

Rest ==
  /\ taker.active
  /\ taker.remaining > 0
  /\ ~ Trading
  /\ ~ taker.market /\ taker.tif = "GTC"
  /\ orders' = orders \cup
       {[id |-> taker.id, side |-> taker.side, price |-> taker.price,
         qty |-> taker.qty, remaining |-> taker.remaining,
         participant |-> taker.participant, seq |-> clock]}
  /\ clock' = clock + 1
  /\ taker' = NoTaker
  /\ UNCHANGED <<stp, tape>>

Cancel ==
  /\ ~ taker.active
  /\ \E o \in orders : orders' = orders \ {o}
  /\ UNCHANGED <<taker, stp, clock, tape>>

(* Handing back quantity changes neither price nor time.                    *)
Reduce ==
  /\ ~ taker.active
  /\ \E o \in orders : \E r \in 1 .. o.remaining :
       orders' = (orders \ {o}) \cup
                 {[o EXCEPT !.remaining = r, !.qty = @ - (o.remaining - r)]}
  /\ UNCHANGED <<taker, stp, clock, tape>>

(* Asking for more gives up the order and its id for a new one.             *)
Replace ==
  /\ ~ taker.active
  /\ Enters(taker')
  /\ \E o \in orders :
       /\ orders' = orders \ {o}
       /\ taker'.id # o.id
       /\ ~ taker'.market /\ taker'.tif = "GTC"
       /\ taker'.side = o.side /\ taker'.price = o.price
       /\ taker'.participant = o.participant
       /\ taker'.qty > o.remaining
  /\ UNCHANGED <<stp, clock, tape>>

SetMode ==
  /\ ~ taker.active
  /\ stp' \in SelfTradePrevention
  /\ UNCHANGED <<orders, taker, clock, tape>>

ClearTape ==
  /\ ~ taker.active
  /\ tape' = << >>
  /\ UNCHANGED <<orders, taker, stp, clock>>

Clear ==
  /\ ~ taker.active
  /\ orders' = {}
  /\ tape' = << >>
  /\ UNCHANGED <<taker, stp, clock>>

Next ==
  \/ Submit \/ Execute \/ Pull \/ Leave \/ Rest \/ Cancel \/ Reduce \/ Replace
  \/ SetMode \/ ClearTape \/ Clear

Spec == Init /\ [][Next]_vars
===============================================================================
