---------------------------- MODULE MarketSimulator ----------------------------
(***************************************************************************)
(* market_sim.MarketSimulator and the order the impact study slips between *)
(* two of its runs, above the matching engine.  Python calls the engine    *)
(* and waits, so a step of the simulator is taken while no call is under   *)
(* way.  The random draws are choices: which event comes next, how far     *)
(* from the reference a limit order goes, which id is cancelled.  Time,    *)
(* snapshots and depth profiles, which only read the book, are left out.   *)
(***************************************************************************)
EXTENDS OrderBook

CONSTANTS
  RefPrice,      \* ref_price
  Distances,     \* placement distances, 1 .. levels
  OrderSize,     \* order_size
  MarketSize,    \* market_size
  StudySizes,    \* sizes of the order of the impact study
  SeedLevels,    \* levels of the ladder seed_book() puts in place
  PerLevel,      \* per_level
  GhostsAllowed, \* dead ids tolerated in live (512)
  DrainEvery,    \* events between two drains of the tape (0x4000)
  Events,        \* n_events
  Warmups,       \* warmup
  MaxRuns        \* bound: calls of run()

(* The engine gets the band ref_price - half_range to ref_price +           *)
(* half_range, whose edges seed_book() stays inside, and a tick of 1.  What *)
(* the simulator sends is among what clients send.                          *)
ASSUME SimAssumption ==
  /\ TickSize = 1
  /\ RefPrice \in Int /\ SeedLevels \in Nat \ {0} /\ PerLevel \in Nat \ {0}
  /\ MinPrice <= RefPrice - SeedLevels /\ RefPrice + SeedLevels <= MaxPrice
  /\ MinPrice .. MaxPrice \subseteq Prices
  /\ {OrderSize, MarketSize} \cup StudySizes \subseteq Quantities \ {0}
  /\ Anonymous \in Participants /\ "GTC" \in Tifs
  /\ Distances \subseteq Nat \ {0}
  /\ GhostsAllowed \in Nat /\ DrainEvery \in Nat \ {0}
  /\ Events \in Nat /\ Warmups \subseteq Nat /\ MaxRuns \in Nat

VARIABLES
  live,        \* self.live
  phase,       \* where the program stands: see Phase
  seeded,      \* orders sent by seed_book()
  n, warmup,   \* the loop counter of run() and its argument
  nLive,       \* n_live, read before the event
  event,       \* the event under way
  collected,   \* res.trade_prices, trade_qtys and trade_signs of this run
  reported,    \* number of trades in the results of earlier runs
  undrained,   \* events since the tape was last drained
  runs         \* calls of run() so far

simVars ==
  <<live, phase, seeded, n, warmup, nLive, event, collected, reported, undrained, runs>>

(* Seeding, between runs, at the head of the loop, in the middle of an      *)
(* event, in submit_market() of the impact study, and its early return.     *)
Phase == {"seed", "idle", "head", "event", "study", "gaveup"}

SimInit ==
  /\ Init
  /\ live = << >>
  /\ phase = "seed"
  /\ seeded = 0
  /\ n = 0 /\ warmup = 0 /\ nLive = 0
  /\ event = "none"
  /\ collected = << >>
  /\ reported = 0
  /\ undrained = 0
  /\ runs = 0
-------------------------------------------------------------------------------
SeedOrders == 2 * SeedLevels * PerLevel

(* Mutant of Keeping: the whole result is kept.                             *)
KeepingResult(s, r) == IF r.resting THEN Append(s, r) ELSE s

Keeping(s, r) == IF r.resting THEN Append(s, r.id) ELSE s

(* seed_book(): bid and ask in turn, PerLevel times at each distance.       *)
SeedOrder ==
  LET side == IF seeded % 2 = 0 THEN "Buy" ELSE "Sell"
      away == seeded \div (2 * PerLevel) + 1
  IN /\ phase = "seed" /\ event = "none"
     /\ seeded < SeedOrders
     /\ SubmitLimit(side, IF side = "Buy" THEN RefPrice - away ELSE RefPrice + away,
                    OrderSize, "GTC", Anonymous)
     /\ event' = "limit"
     /\ seeded' = seeded + 1
     /\ UNCHANGED <<live, phase, n, warmup, nLive, collected, reported, undrained, runs>>

SeedOrderDone ==
  /\ phase = "seed" /\ event # "none"
  /\ ~ call.active
  /\ live' = Keeping(live, result)
  /\ event' = "none"
  /\ phase' = IF seeded = SeedOrders THEN "idle" ELSE "seed"
  /\ UNCHANGED <<vars, seeded, n, warmup, nLive, collected, reported, undrained, runs>>

(* Every call of the engine that has begun runs to its end.                 *)
EngineGoesOn == (MatchStep \/ ReturnStep) /\ UNCHANGED simVars
-------------------------------------------------------------------------------
(* The events.                                                              *)

(* _reference(): quotes are relative to the other side of the market.       *)
Reference(side) ==
  LET other == Opposite(side)
      step  == IF side = "Buy" THEN 1 ELSE -1
  IN IF HasBest(book, other) THEN ToPrice(book.best[other])
     ELSE IF HasBest(book, side) THEN ToPrice(book.best[side]) + step
     ELSE RefPrice

(* Mutant of InLadder: the upper end is not checked.                        *)
InLadderBelow(price) == MinPrice <= price

InLadder(price) == MinPrice <= price /\ price <= MaxPrice

Begin(kind) ==
  /\ phase = "head" /\ n < Events
  /\ nLive' = Len(live)
  /\ event' = kind
  /\ phase' = "event"
  /\ UNCHANGED <<seeded, n, warmup, collected, reported, undrained, runs>>

LimitOrder(side, dist) ==
  LET price == IF side = "Buy" THEN Reference(side) - dist ELSE Reference(side) + dist
  IN \/ /\ InLadder(price)
        /\ Begin("limit")
        /\ SubmitLimit(side, price, OrderSize, "GTC", Anonymous)
        /\ UNCHANGED live
     \/ /\ ~ InLadder(price)
        /\ Begin("nothing")
        /\ UNCHANGED <<vars, live>>

MarketOrder(side) ==
  /\ Begin("market")
  /\ SubmitMarket(side, MarketSize, Anonymous)
  /\ UNCHANGED live

(* Mutant of SwapPop: the last id replaces the cancelled one but stays.     *)
SwapPopNot(s, k) == [s EXCEPT ![k] = s[Len(s)]]

(* live[i] = live[-1]; live.pop().                                          *)
SwapPop(s, k) == SubSeq([s EXCEPT ![k] = s[Len(s)]], 1, Len(s) - 1)

(* The id may belong to an order that was filled long ago.                  *)
CancelEvent ==
  /\ Begin("cancel")
  /\ \/ live = << >> /\ UNCHANGED <<vars, live>>
     \/ \E k \in DOMAIN live :
          /\ CancelLive(live[k]) \/ CancelUnknown(live[k])
          /\ live' = SwapPop(live, k)
-------------------------------------------------------------------------------
(* The rest of the loop.                                                    *)

(* Mutant of MustPrune: the test comes after the end of the warm-up part.   *)
MustPruneWarm == n >= warmup /\ nLive > book.open + GhostsAllowed

(* The count was taken before the event, open_orders after it.              *)
MustPrune == nLive > book.open + GhostsAllowed

IsLive(id) == Resolve(book, id) # NoSlot

(* _prune_dead(): the ids that are still live, in their order.              *)
PruneDead(s) ==
  LET kept[k \in 0 .. Len(s)] ==
        IF k = 0 THEN << >>
        ELSE IF IsLive(s[k]) THEN Append(kept[k - 1], s[k])
        ELSE kept[k - 1]
  IN kept[Len(s)]

(* Mutant of Drain: the tape is copied but not cleared.                     *)
DrainNot ==
  /\ collected' = collected \o trades
  /\ undrained' = 0
  /\ UNCHANGED vars

(* drain_trades() and the extension of the three lists of the result.       *)
Drain ==
  /\ collected' = collected \o trades
  /\ undrained' = 0
  /\ ClearTrades

(* Mutant of DrainDue: the mask has one bit too many.                       *)
DrainDueSeldom == n >= warmup /\ n % (2 * DrainEvery) = 0

(* The warm-up part of the loop continues before it gets to the drain.      *)
DrainDue == n >= warmup /\ n % DrainEvery = 0

EndEvent ==
  /\ phase = "event" /\ ~ call.active
  /\ LET kept == IF event = "limit" THEN Keeping(live, result) ELSE live
     IN live' = IF MustPrune THEN PruneDead(kept) ELSE kept
  /\ \/ DrainDue /\ Drain
     \/ ~ DrainDue /\ undrained' = undrained + 1 /\ UNCHANGED <<vars, collected>>
  /\ n' = n + 1
  /\ event' = "none"
  /\ phase' = "head"
  /\ UNCHANGED <<seeded, warmup, nLive, reported, runs>>

StartRun(w) ==
  /\ phase = "idle" /\ runs < MaxRuns
  /\ runs' = runs + 1
  /\ n' = 0
  /\ warmup' = w
  /\ reported' = reported + Len(collected)
  /\ collected' = << >>
  /\ phase' = "head"
  /\ UNCHANGED <<vars, live, seeded, nLive, event, undrained>>

(* What is left on the tape goes into the result.                           *)
EndRun ==
  /\ phase = "head" /\ n = Events
  /\ Drain
  /\ phase' = "idle"
  /\ UNCHANGED <<live, seeded, n, warmup, nLive, event, reported, runs>>

TwoSided == HasBest(book, "Buy") /\ HasBest(book, "Sell")

(* _run_one(): one large order between two runs, which the simulator does   *)
(* not know of.                                                             *)
StudyOrder(qty) ==
  /\ phase = "idle" /\ runs > 0 /\ runs < MaxRuns /\ event = "none"
  /\ TwoSided
  /\ SubmitMarket("Buy", qty, Anonymous)
  /\ phase' = "study"
  /\ event' = "study"
  /\ UNCHANGED <<live, seeded, n, warmup, nLive, collected, reported, undrained, runs>>

(* A book the order has emptied on one side is given up.                    *)
StudyOrderDone ==
  /\ phase = "study" /\ ~ call.active
  /\ phase' = IF TwoSided THEN "idle" ELSE "gaveup"
  /\ UNCHANGED <<vars, live, seeded, n, warmup, nLive, event, collected, reported,
                 undrained, runs>>

Finished ==
  /\ phase = "gaveup" \/ (phase = "idle" /\ runs = MaxRuns)
  /\ UNCHANGED <<vars, simVars>>

SimNext ==
  \/ SeedOrder \/ SeedOrderDone
  \/ EngineGoesOn
  \/ \E side \in Side, dist \in Distances : LimitOrder(side, dist)
  \/ \E side \in Side : MarketOrder(side)
  \/ CancelEvent
  \/ EndEvent
  \/ \E w \in Warmups : StartRun(w)
  \/ EndRun
  \/ \E qty \in StudySizes : StudyOrder(qty)
  \/ StudyOrderDone
  \/ Finished

SimSpec == SimInit /\ [][SimNext]_<<vars, simVars>>
-------------------------------------------------------------------------------
(* Correctness.                                                             *)

(* Every variable of the engine and of the simulator has its type.          *)
SimTypeOK ==
  /\ TypeOK
  /\ live \in Seq(OrderId)
  /\ phase \in Phase
  /\ seeded \in 0 .. SeedOrders
  /\ n \in 0 .. Events /\ warmup \in Warmups \cup {0}
  /\ nLive \in Nat /\ reported \in Nat /\ undrained \in Nat
  /\ event \in {"none", "limit", "market", "cancel", "nothing", "study"}
  /\ collected \in Seq(Trade)
  /\ runs \in 0 .. MaxRuns

Listed == {live[k] : k \in DOMAIN live}

(* The ids that live will name once the order just entered is appended.     *)
AboutToBeListed ==
  IF event = "limit" /\ ~ call.active /\ result.resting THEN {result.id} ELSE {}

(* The cancellable population: live names every resting order, each id      *)
(* once, through cancels that swap ids about, fills the simulator is not    *)
(* told of and prunings; an order it has lost can never be cancelled.       *)
LiveCoversBook ==
  /\ \A j, k \in DOMAIN live : live[j] = live[k] => j = k
  /\ {book.pool[s].id : s \in RestingSlots(book)} \subseteq Listed \cup AboutToBeListed

(* "A list full of ghosts silently inflates the cancel rate": at the head   *)
(* of the loop, where the rate is computed, at most GhostsAllowed ids are   *)
(* dead, although the test compares a count from before the event with one  *)
(* from after it.  That rests on limit orders never trading.  The order of  *)
(* the impact study kills orders outside the loop; the limit order that     *)
(* follows hides one of them from the test, so later runs get one more.     *)
(* The first rate of a run is left out: no test precedes it in the run, and *)
(* that of a later run may come right after the study's order, whose size   *)
(* is then the only bound on the dead ids.                                  *)
GhostsBounded ==
  phase = "head" /\ n > 0 =>
    Len(live) <= book.open + GhostsAllowed + IF runs > 1 THEN 1 ELSE 0

(* _reference(): "what keeps the spread from collapsing".  A limit order of *)
(* the simulator never trades and never fails the engine's checks; nothing  *)
(* but a market order that meets an empty side is ever rejected.            *)
QuotesArePassive ==
  /\ call.active /\ ~ call.market => ~ Crosses
  /\ result.reject \in {"None", "EmptyBook"}

(* Every trade is reported in the result of exactly one run, in the order   *)
(* of execution: those of the impact study in the run that follows it.      *)
TapeComplete ==
  LET seen == collected \o trades
  IN /\ reported + Len(seen) = nextTradeSeq - 1
     /\ \A k \in DOMAIN seen : seen[k].seq = reported + k

(* "Drain the tape periodically so it does not grow without bound": once    *)
(* the first drain after the warm-up is past, and only then.  The warm-up   *)
(* part of the loop never gets to the drain.                                *)
TapeDrainedAfterWarmup ==
  phase = "head" /\ n >= warmup + DrainEvery => undrained < DrainEvery
===============================================================================
