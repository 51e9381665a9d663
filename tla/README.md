# Verification of order_sim

TLA+ models, TLC model checks and TLAPS proofs for the limit order book simulator
in `src/`: a single-threaded C++ price-time priority matching engine, its support
containers, and a Python market simulator built on it. Paths below are relative
to the repository (`src/order_book.cpp` here is `src/src/order_book.cpp` in
`PROJECT.json`, and so on).

## 1. The system

| Component | State | Operations | Interacts with |
|---|---|---|---|
| Matching engine, `OrderBook` (`src/order_book.cpp`, `include/lob/order_book.hpp`) | order pool, generations, free list, two price ladders of FIFO queues threaded through the pool, two bitmaps, cached best indices, counters, tape | `submit_limit`, `submit_market`, `cancel`, `amend_quantity`, `clear`, `clear_trades`, `set_self_trade_prevention`, read-only queries | calls the bitmap; called by bindings, tests, benches |
| Handles and value types (`order_handle.hpp`, `types.hpp`) | none | `make`, `slot_of`, `generation_of` | the ids clients hold |
| Price bitmap, `BitsetLadder` | three levels of 64-bit words | `set`, `clear`, `test`, `find_ge`, `find_le` | called by the engine |
| `IdMap` | open-addressing table | `insert`, `find`, `erase`, `grow` | benchmark only; the engine encodes the slot in the id |
| `MapOrderBook` (`book_map.hpp`) | `std::map` of price levels | `submit_*`, `cancel` | baseline of the benchmarks |
| `Histogram` | bucket counts, count, sum, extremes | `record`, `percentile`, `shifted` | benches |
| `MarketSimulator` (`python/market_sim.py`) | list of ids believed live, time, result series | seeding, event loop, cancel, prune, tape drain | drives the engine through the bindings |
| Impact study (`python/impact_study.py`) | results per trial | one market order between two runs of the simulator | drives the same book behind the simulator's back |
| Benches (`bench/`) | list of ids, loop counter | one stream of messages against two implementations | engine against `MapOrderBook`, `IdMap` against handles |
| Bindings, web front end, tests | - | - | forwarding, presentation, evidence of intent |

Nothing in the engine is concurrent and nothing is persisted. What is hard:

* **Intrusive structures under long call sequences.** One order is linked into a
  queue, counted in a level, an open-order counter and a bitmap bit, and cached as
  best price; each operation updates these by increments. An error shows many
  calls later, when a slot is reused.
* **Slot life cycle.** A limit order reserves its slot before it matches and hands
  it back on some exits; a market order gives its slot back before it matches;
  makers free theirs in between. Ids outlive slots.
* **Stale values**: cached best indices, level totals used by FOK, ids of dead
  orders in clients' hands, generations forgotten by `clear()` or wrapped.
* **Checks made before the act**: FOK looks at liquidity that self-trade
  prevention then withholds.
* **Termination** of the matching loop, of the probes and shifts of the hash map.
* **Half-done operations**: a hash table in the middle of a backward shift or a
  rehash, a book in the middle of a match.
* **Ids of dead orders** kept by the simulator and by the benchmarks, which learn of
  a fill only when they try to cancel.
* **Boundaries**: word boundaries of the bitmap, exponent boundaries of the
  histogram, the ends of the ladder, totals that wrap.

What makes each component correct:

* engine: implements price-time priority for every call sequence; pool
  partitioned into free, resting and reserved slots; queues doubly linked in
  arrival order with exact totals; caches exact; never crossed; every call returns;
  fills, tape and counters tell the same story; dead ids stay dead;
* bitmap: the summaries are exact, and both searches return the nearest occupied
  index from every start;
* `IdMap`: behaves as a partial function for every hash function, in the middle of a
  shift or a rehash too; every call ends;
* `MapOrderBook`: its index names exactly the resting orders; it implements
  price-time priority as well;
* histogram: percentiles are those of the sorted samples within the bucket error;
* simulator: every resting order stays cancellable, the list of ids holds a bounded
  number of dead ones, quotes never trade, no trade is lost or reported twice;
* benches: the two sides of a comparison do the same work.

## 2. Modules

| Module | Content |
|---|---|
| `LobTypes` | enumerations, handles |
| `PriceIndex` | what the bitmap promises: nearest occupied index at or above/below |
| `BookState` | the resting side of the engine as a record, and the private functions (`alloc_slot`, `free_slot`, `rest_order`, `remove_order`, `refresh_best`, `resolve`, `fillable`) as functions from book to book |
| `OrderBook` | the engine as a state machine, its invariants, action and liveness properties |
| `PriceTimeBook` | abstract specification: a set of orders and a taker that trades with the order that has priority |
| `OrderBookRefinement` | refinement mapping from `OrderBook` to `PriceTimeBook` |
| `OrderBookMonitor` | `OrderBook` with history variables for what clients know (trades, retired ids) |
| `MCOrderBook`, `MCMonitor`, `MCMarketSimulator` | views for TLC |
| `BookQueries` | the read-only queries of the engine as functions of the book |
| `BitsetLadder` | the three levels of words of the bitmap, `W` bits to a word; searches word by word |
| `IdTable` | abstract specification of a map from id to slot: a set of pairs |
| `IdMap` | the open-addressing table, `erase()` and `grow()` one loop iteration per step; implements `IdTable` |
| `MapOrderBook` | the tree-map baseline: two maps from price to a list of orders, and the index of iterators |
| `MapBookRefinement` | refinement mapping from `MapOrderBook` to `PriceTimeBook` |
| `BenchStream` | the throughput benchmark: `OrderBook` and `MapOrderBook` fed the same messages |
| `Histogram` | the latency histogram, with the samples remembered |
| `MarketSimulator` | the simulator's loop and the impact study's order, over the steps of `OrderBook` |
| `BookInvariant` | the inductive invariants of the proofs: queues, bitmaps and caches stated order by order |
| `CommonLemmas` | facts about naturals, least members, finite sums and remainders that the proofs share |
| `OrderBookProofs` | lemmas on the functions of `BookState`; types; slot life cycle and queue links; best prices, counts, never crossed |
| `RefinementProofs` | clients' orders and level totals; the engine implements `PriceTimeBook`; the queries |
| `ClientProofs` | what clients rely on: the walk along a queue; fill-or-kill; conservation of orders, dead ids, fills against the tape; the market simulator |
| `IdMapProofs` | the table in every state of `erase()` and `grow()`; `IdMap` implements `IdTable` |
| `BitsetLadderProofs` | exact summaries and exact searches |
| `MapBookProofs` | lists and index of the baseline book; it implements `PriceTimeBook` |
| `HistogramProofs` | powers of two, buckets as intervals, order statistics and their correction |

Definitions whose comment starts with *Mutant of* are deliberately broken variants
of the definition that follows; nothing uses them. They document which plausible
bug each property would catch.

### How the engine is modelled

`book` is the record described in `BookState`; each field has the name of its C++
member without the underscore. A private member function is an operator, so an
action such as `AmendUp` is `EnterLimit(RemoveOrder(book, slot), ...)`, exactly the
call sequence of the code.

`submit_limit` and `submit_market` are split into steps: entry (checks and slot
reservation), one step per iteration of the loop of `match()` (`StopTaker`,
`PullMaker`, `Fill`), and the return (`ReturnFilled`, `ReturnResting`,
`ReturnKilled`). `call` is the activation record; every public operation requires
it to be idle, so calls never interleave, as in the code. The split makes the
invariants hold inside a match too, and gives proofs one small step at a time.
`match()` has two nested loops; since `best` changes only when a level empties,
"the head of the best level, if it is within the limit" is what either loop looks
at next. If `best` pointed at an empty level the code would spin; the model has no
step there and TLC's deadlock check, which is on in every run, reports it.

Handles are pairs (slot, generation): packing two 32-bit fields into a 64-bit word
is a bijection. Generations are modulo `GenMod` (2^32 in the code) and quantities
modulo `QtyMod` (2^64). Notional amounts are exact integers instead of doubles;
average prices are not kept, being a quotient of two modelled fields.

Bounds, all named in the modules: `MaxSlots` (pool), `MaxSeq` (orders that come to
rest), `MaxOrders` (orders entered since the last `clear()`).

### How the rest is modelled

**Composition.** `MarketSimulator`, `BookQueries` and `BenchStream` extend `OrderBook`
and use its actions: a step of the simulator that submits an order is `SubmitLimit`
conjoined with what Python does around it, the matching steps then run as
`EngineGoesOn`, and the simulator's next step waits for `~ call.active`. Nothing of the
engine is abstracted away there. `BenchStream` has an instance of `MapOrderBook`
besides; a message is finished when both books have returned.

**Bitmap.** A word is the set of its set bits. `W` stands for 64; the code's shifts by
6 and 12 are divisions by `W` and `W * W`.

**Hash map.** `mix` is a variable that never changes: the initial states range over
every function from keys to `HashValue`, so a result holds for any hash and any
clustering, that of splitmix64 included. The capacity is a power of two, and `& mask_`
the remainder. A probe is one expression (no other code runs during one), the loops
that write are steps.

**Baseline book.** A level is a sequence of orders, an iterator into it the order it
points at; `index` keeps the handles. An id whose order has left while its handle
stays is the dangling iterator of the code.

**Histogram.** The mantissa has `Mantissa` bits (5 in the code), a value `Width` (64).
Percentiles are in tenths of a percent; the double arithmetic of the rank is done in
integers, rounding half up as the code does.

**Simulator.** Random draws (event, side, distance, which id to cancel) are choices,
so every seed is covered. A count read before an event (`nLive`) is a variable, because
the pruning test compares it with a value read after. `undrained`, `reported` and
`collected` follow the tape through the runs.

**Queries.** Prices that are doubles are pairs of numerator and denominator, compared
by cross multiplication.

More bounds: `MaxIds` (orders the baseline numbers), `MaxMessages` and `ClearEvery`
(stream, 65536 in the code), `MaxCount` (samples between two resets), `Events`,
`MaxRuns`, `DrainEvery` (16384) and `GhostsAllowed` (512) of the simulator.

## 3. Runs

| Run | Shows |
|---|---|
| `structure` | `TypeOK`, `SlotsPartitioned`, `QueuesIntact`, `TouchExact`, `FillableExact`, and of the queries `SweepAgreesWithFillable`, `DepthShowsEveryOrder`, `MicropriceLeans`, on 3 slots and 3 price levels, with invalid prices and quantities, every time in force, amendment, mode change and `clear()` |
| `refinement` | `ImplementsPriceTime`, `FokFillsWithoutStp`, `SweepForecastsMarket`, `EveryCallReturns` with anonymous and named participants, on 3 slots and two prices with an unused level between them, which the best price has to skip |
| `client` | `FillsMatchTape`, `OrdersConserved`, `StaleIdsStayDead` over up to 5 order entries between clears, of 1 to 3 lots, so that an order filled in part can still be reduced |
| `bitmap` | `SummariesExact`, `SearchExact` in all 2^17 states of a ladder of 17 indices with words of 2 bits: nine, five and three words on the three levels |
| `id_map` | `ChainsUnbroken`, `TableSound`, `FindExact`, `ImplementsIdTable`, `EveryCallEnds` for every function from four keys to four hash values, two slots; tables of 4 entries that grow to 8 |
| `map_book` | `IndexExact`, `LevelsSound`, `ImplementsPriceTime` for the baseline book, over five orders at two prices |
| `bench_stream` | `SameWork`: two orders of prefill and every stream of four messages |
| `histogram` | `BucketsExact`, `PercentileExact`, `CorrectionExact` for every multiset of up to six of eight latencies |
| `simulator` | `LiveCoversBook`, `GhostsBounded`, `QuotesArePassive`, `TapeComplete`, `TapeDrainedAfterWarmup` over two runs of three events |
| `fok_under_stp`, `clear_reissues_ids`, `generation_wrap` | violations, see section 5 |

`structure` and `refinement` use a VIEW that hides what never influences a later
step or an invariant (tape, counters, last result, generations, contents of free
slots; arrival numbers through their rank). `MaxSeq` and `MaxOrders` are so large
there that they are never reached: the runs exhaust the structural states reached
by histories of *any* length. `refinement` also forgets slot numbers (`ClientView`),
which `structure` keeps. States with one view have the same steps up to what the view
hides, and every step of a call changes the view, so fairness and `EveryCallReturns`
mean the same on views as on states. `client` hides only what its invariants do not read.

Why the bounds are enough: three slots give a head, a middle and a tail to unlink,
or two makers and a taker with a reserved slot; three levels give an occupied level
on each side of an empty one for `refresh_best` to skip; `refinement` needs no third
price, because beside a taker that holds a slot there are two makers at most; quantities 1 and 2 give
partial and exact fills, and 3 besides in `client` reduces an order of which one lot has
traded to less than it has left. The band 10..15 with tick 2 has an upper end that is off
tick.

The smaller components: words of two bits put a word boundary after every second
index and need all three levels of the bitmap. Four keys in a table of four force the
growth to eight, clusters that wrap around the end and every order of erasure inside
them. Five orders of the baseline give a queue of three with one behind a filled and
one behind a cancelled order. The eight latencies cover the exact range, both sides of
its end, three exponents and the largest value, and the overheads lie below, between
and above them. In the simulator a seeded order on each side, market orders of twice
the limit size and three events let a run empty a side, leave ghosts, prune them and
reach the edge of the ladder; a warm-up is absent, ends before a drain is due or lasts the
whole run, as in the study; two runs let the study's order come in between and its
trades cross from one run's tape to the next.
`simulator` hides by VIEW sums and the contents of free slots.

Fairness: `FairSpec` of `OrderBook` and of `IdMap` only say that a call under way keeps
executing, which is how single-threaded code runs. Clients are free never to call
again. In `id_map` the keys that are absent matter: were the table ever full, or
were `grow()` to start again inside itself, no step would be enabled.

## 4. Proofs

Every theorem is for all values of the constants: any band, tick, pool size, word
width, set of inputs; any capacity, key set and hash function of the id map; any size of
the bitmap; any set of prices and number of ids of the baseline book; any width, mantissa and
set of latencies; any seed book, length of run and period of drains of the simulator. TLC
checked each inductive invariant on the small instances before it was proved. A theorem
with a hypothesis on the constants says so in the last column.

| Theorem | Property | Inductive invariant, hypothesis |
|---|---|---|
| `TypeCorrect` | `TypeOK` | with `CallConsistent` |
| `SlotsCorrect` | `SlotsPartitioned` | `SlotInvariant` |
| `TouchCorrect` | `TouchExact` | `TouchInvariant` |
| `FillableCorrect` | `FillableExact` | `TotalsInvariant` |
| `RefinementCorrect` | `ImplementsPriceTime` | `TotalsInvariant` |
| `DepthCorrect` | `DepthShowsEveryOrder` | `TotalsInvariant` |
| `FillableWithoutWrap` | `FillableIsAvailable` | `Modest(B)`; `NoWrap(B)` |
| `MicropriceCorrect`, `SweepCorrect`, `ForecastCorrect` | `MicropriceLeans`, `SweepAgreesWithFillable`, `SweepForecastsMarket` | `Modest(B)`; `NoWrap(B)` |
| `QueuesCorrect` | `QueuesIntact` | `TotalsInvariant` |
| `FokFills` | `FokFillsWithoutStp` | with `FokCovered` |
| `ConservationCorrect` | `OrdersConserved` | with `OrdersCounted` |
| `StaleIdsCorrect`, `FillsCorrect` | `StaleIdsStayDead`, `FillsMatchTape` | with `KnownIds`; `MaxOrders < GenMod` |
| `SimulatorDrivesEngine` | `SimSpec => Spec` | |
| `SimTypeCorrect` | `SimTypeOK` | `Grounded` |
| `QuotesCorrect` | `QuotesArePassive` | `Grounded`, `Passive` |
| `LiveCorrect` | `LiveCoversBook` | `Grounded`, `Handles`; `MaxOrders < GenMod` |
| `GhostsCorrect` | `GhostsBounded` | with `Ghosts`; `MaxOrders < GenMod` |
| `TapeCorrect` | `TapeComplete` | itself, with `Grounded` |
| `DrainCorrect` | `TapeDrainedAfterWarmup` | `DrainSound` |
| `MapTypeCorrect`, `TableCorrect`, `ChainsCorrect`, `FindCorrect`, `MapImplementsTable` | `TypeOK`, `TableSound`, `ChainsUnbroken`, `FindExact`, `ImplementsIdTable` | `MapSound` |
| `LadderTypeCorrect`, `SummariesCorrect`, `SearchCorrect` | `TypeOK`, `SummariesExact`, `SearchExact` | `LevelsExact` |
| `MapBookTypeCorrect`, `IndexCorrect`, `LevelsCorrect` | `TypeOK`, `IndexExact`, `LevelsSound` | `BookSound` |
| `MapBookImplements` | `ImplementsPriceTime` of the baseline book | with `HistorySound` |
| `BucketsCorrect` | `BucketsExact` | `Counted` |
| `PercentileCorrect`, `CorrectionCorrect` | `PercentileExact`, `CorrectionExact` | `Counted`; `Roomy` and no percentile below the median |

**The engine.** The invariants, in `BookInvariant`, form a chain, each adding what the
property needs and the one before does not say:

* `CallConsistent`: the fills of the call under way add up to its quantity (so
  `filled + q` cannot leave its word), and a limit order that entered has a price of
  the ladder (so resting it indexes inside the ladder).
* `SlotInvariant`: `RemoveOrder` frees the slot at the head of a level, and nothing in
  the partition says that this slot rests. Neighbours in a queue point at each other and
  are orders of the same level (`Linked`), head and tail are the orders without an outer
  neighbour and the level counts its orders (`EndsExact`), and orders are queued by
  arrival (`Linked` and `Arrived`).
* `TouchInvariant`: a bit is set exactly for a level with orders, each cached best is the
  extreme of its bits, the order count is exact and no bid reaches an offer
  (`Summarised`). The bits can only be exact because `EndsExact` makes `count = 0` mean
  "no order at this level"; the book stays uncrossed because an order rests only when the
  best price of the other side is beyond its limit (`RestsOutOfReach`).
* `ClientInvariant`: an order at rest goes by the handle of its slot, stands at the price
  of its level and arrived at a time of its own (`Genuine`), and the taker is an order of
  its slot too, stopped if at all in front of an order of its own owner (`TakerSound`).
* `TotalsInvariant`: the total of a level is the sum of what its orders have left, in one
  word (`TotalsExact`). It holds when totals wrap as well.

All of them hold inside a match, between any two iterations of its loop. The proofs go
the way the code goes: one lemma for each function of `BookState` (what it changes and
what it leaves, `...Shape`; that it keeps the invariant, `...Sound`, `...Summarised` and so
on), then one for each action, then `Next`.

`FillableExact` follows from the totals: the loop of `fillable()` accumulates levels until
it has enough, which is compared with the sum over the orders in reach. `QueuesIntact` is
about a walk, a recursion that has no place in an induction over steps: the proof shows,
for one state, that a walk along `next` only moves to later orders of the same level, never
comes back and, the earliest unvisited order having a predecessor, misses none.

*Refinement.* The mapping takes the set of resting orders with the handles of their slots.
`RefinementProofs` goes through the actions: an entry starts a taker; a
fill, which takes the head of the best level, is the abstract trade with the order that has
priority, because the best index is the extreme of the occupied levels and the head of a
queue arrived first; a pulled maker leaves; a return, cancellation or amendment ends or
changes one order; `clear()` and queries that write no order state map to the abstract step
or a stutter.

*Fill-or-kill.* `FokCovered`: while self-trade prevention does not concern the order, what
it still needs is at most what rests in its reach. The check at entry establishes it from
totals, each fill takes the same amount off both sides, and when the loop stops nothing is
left in reach, so nothing is needed.

*Monitor.* `OrdersCounted` is `OrdersConserved` with the type of its history variable.
`KnownIds` says that every id handed out since the last `clear()` is live or retired and
never both, that a slot's generation is at most the number of orders accepted (`IdsInOrder`),
and that for every live id what the tape tells is what the order lacks (`TapeTold`). It is
proved for `MaxOrders < GenMod`: fewer orders between two `clear()` than a slot has
generations, 2^32 in the code. The hypothesis is needed, `generation_wrap` of section 3 is
what happens without it; `client` runs with 5 orders and 8 generations.

*Queries.* A query reads one state, so its proof is about the functions of `BookState`
and `BookQueries`, given the engine's invariant. The rows of `depth()` are counted: the
d-th row is the occupied level with d - 1 occupied levels in front of it, which is what
following the bitmap yields. `sweep_cost()` is shown to depend on one number for each
level, what it offers, and on the order of the levels. Two facts about such sweeps carry
the theorems: the levels up to a limit cover an order exactly if all levels do and the
farthest one it comes to is within the limit (`SweepCorrect`), and taking some lots at the
nearest level off both the level and the order leaves the forecast as it was, up to what
was paid (`ForecastCorrect`). The latter is an action property: one step of it is one
`Fill` of `match()`, which by the engine's invariant trades at the nearest level that
offers anything.

These theorems assume `NoWrap(B)`: some B bounds the quantity of every call, and
`MaxSlots * B < QtyMod`. Were a total to wrap, a level would offer less than its orders
have and all three properties would be false, so some hypothesis is needed. The code has
words of 64 bits: with 2^20 slots it asks for orders below 2^44 lots, and the callers in
the repository send a few thousand at most. `Modest(B)` carries the bound through the
engine: fills only take away, an amendment sets or enters a quantity that was sent.
`FillableWithoutWrap` is `FillableExact` without the remainder: what `fillable()` returns
*is* the quantity available. `DepthCorrect` needs no hypothesis, since depth shows totals
as they are kept.

*Simulator.* Its steps are steps of the engine or leave it alone
(`SimulatorDrivesEngine`), so the engine's theorems hold of simulated markets and
`Grounded` joins `TotalsInvariant` with the simulator's types and phases.

* `Passive`: seeding keeps bids below and offers above the reference price, so that any two
  seeded orders are apart; afterwards a placement is measured from the best price of the
  other side, or from prices that no order of the other side can reach. A limit order that
  does not cross has nothing to do in `match()`, and is never refused.
* `Handles`: ids in the list are distinct, were handed out by the engine and include every
  resting order, the one about to be appended counted separately. An id just handed out
  cannot be in the list, for its generation is new; this is where `MaxOrders < GenMod` is
  needed, with the bound of generations by orders accepted that the monitor's proof has.
* `Ghosts`: `GhostsBounded` alone is not inductive. While a limit order is sent, before the
  first order of the study, the bound is one tighter, and the list is no longer than
  `nLive`, the count the test for pruning was read from; a pruning leaves ids of resting
  orders only, at most as many as `open_orders`, because they are distinct (`Handles`).
* `DrainSound`: the tape's age is that of the last multiple of the period, if one has come
  since the end of the warm-up. The loop counter alone does not say so, since the counter
  passes multiples during the warm-up and nothing is drained there.

**The id map.** Between two iterations of `erase()` the chains are broken and between two
of `grow()` the map is in two tables, so `MapSound` says what the loops keep. In an erase:
the chains hold but for the hole, and every entry from the hole to where the scan has come
is in use and at home behind the hole (`Scanned`), which is why the entry moved into the
hole closes its chain and why none is broken when the scan meets an empty entry. In a
growth: what is left to move is not in the new table, which has at most as many entries as
were passed, with one empty entry counted as well (`Moving`), so no insertion of the rehash
fills the table or starts another growth. That an entry is always empty is what ends every
probe. `MapImplementsTable` takes the step that decides an operation's effect as the
abstract step and shows that the remaining iterations change the place of entries, never the
set of pairs.

**The bitmap.** `LevelsExact`: the bits of a level are the numbers of the nonzero words of
the level below. From it each search descends from a level where the next nonzero word is
known to exist. `SearchCorrect` is what `PriceIndex` promises to the engine's proofs.

**The baseline book.** `BookSound`: every list is a queue of orders of its side and price
whose ids ascend and are below the next id (`IsQueue`), every index entry stands for an
order at the place it names and every order has its entry (`Indexes`), and the sides are
apart, within a match as well: a taker rests only when it reaches nobody (`Apart`). The
lemmas follow a list through what the code does to it (a front filled in part or taken, an
erased element, one pushed at the back), with its members and their index entries: an id
leaves list and index in the same step. `begin()` of the ordered map is a best price that
exists because a side has finitely many. The refinement follows the same pattern as the
engine's, from lists in place of slots: `HistorySound` says that the arrivals remembered
for the mapping ascend by id and hold every order at rest, so the front of a list, which
has the smallest id, has priority. A market order that finds an empty side maps to a
stutter, every other step to the abstract step of its name.

**The histogram.** `Counted`: each bucket counts the samples that `bucket()` puts there.
The rest is about one state. That 2^n doubles with n is proved by counting the subsets of n
bits, as powers have no definition the provers could unfold. From it `value_of()` ascends,
the interval of a bucket ends where the next one begins, and the position that `bucket()`
computes from exponent and mantissa is the one whose interval holds the value; so a
bucket is an interval even where the last one clamps (`BucketsCorrect`). A percentile goes
through bucket sums, the order statistic through samples: putting the samples in groups
that keep their order, the first group by which a number of them was seen is the group of
the first sample by which it was (`FirstGroup`). The groups are buckets for
`PercentileCorrect`, and buckets of corrected values for `CorrectionCorrect`, since
flooring, subtracting and flooring again all keep the order.

`Roomy` says that the buckets reach the largest value, `Buckets >= (Width - Mantissa + 1) *
2^Mantissa`: 2048 against 1920 in the code, 22 against 20 in the run. The other hypothesis
is that percentiles are 50 or more (the code asks for 50, 90, 99 and 99.9): below that a
rank can be 0, for which `percentile()` reports the first bucket, whether it was used or not.

**Induction.** The induction theorems of the library take an operator as parameter and
cannot be used here. `CommonLemmas` states induction over a *set* of good numbers or good
subsets instead, proved from the well-foundedness of `<`; sums over the pool, the walk and
the probe are handled with these.

**Assumptions.** Those named in `BookState`, `OrderBook`, `IdMap`, `BitsetLadder`,
`MapOrderBook`, `MarketSimulator` and `Histogram` (a nonempty band, a positive tick, a pool
of at least one slot, words of at least one bit or two, a table of at least one entry, a
tick of 1 and a seed book inside the band for the simulator, inputs of the right types);
TLC evaluates them in every run. Theorems are about `Spec`, about `MonitorSpec` with the
history variables or `SimSpec` of the simulator; no fairness enters.

**Only model-checked:**

* liveness: `EveryCallReturns` and `EveryCallEnds` (the prover has no `ENABLED`);
* `SameWork` of `BenchStream`. Both books implement `PriceTimeBook`, which is proved, but
  that they trade *alike* relates two matches of different numbers of steps, one run after
  the other: it would take an invariant that says of every state of the engine's match
  which state of the baseline's will follow later.

`FokAllOrNothing` and the two properties of `clear_reissues_ids` and `generation_wrap` are
false of the code, see section 5.

## 5. Where the code and its comments disagree

* **FOK with self-trade prevention** (`types.hpp:31`). `fillable()` counts the
  taker's own resting orders, `match()` refuses or pulls them: a FOK order can
  trade a part. `FokFillsWithoutStp` is the part of the promise that holds.
* **`clear()` and stale ids** (`order_handle.hpp:28`). Generations restart at 1, so
  an id from before `clear()` names a new order. `StaleIdsStayDead` holds between
  clears.
* **Generation wrap** (`order_handle.hpp:44`). 32-bit generations wrap to 0 without
  a check, and the id of slot 0 becomes `kInvalidOrderId`. The free list is a
  stack, so one hot slot takes all the recycling of a flow that does not rest.
The properties that hold are bounded by four more observations:

* A level's 64-bit total is not checked when an order joins it. Past 2^64 `fillable()`
  is not the "quantity available" of `order_book.hpp:99` and a FOK order the book could
  fill is refused; matching itself walks orders and is not affected. The runs keep
  totals inside the word, as every caller in the repository does, and
  `FillableWithoutWrap` says how far that goes; `FokFills` holds with wrapped totals too: an
  admitted order that self-trade prevention does not concern is filled all the same.
* "Drain the tape periodically so it does not grow without bound" (`market_sim.py:300`)
  does not hold while `n < warmup`, where the loop continues before it gets there; the
  impact study makes the warm-up the whole run. `TapeDrainedAfterWarmup` is the part
  that holds, and `TapeComplete` says that nothing is lost by it.
* `GhostsBounded` allows one dead id more once a run has followed another: the study's
  order kills orders outside the loop, and the limit order of the next event raises
  `open_orders` by one before the test compares it with the older count. The first cancel
  rate of a run is outside the property: `_prune_dead` has had no occasion yet, and right
  after the study's order only the size of that order bounds the dead ids.
* `CorrectionExact` bounds the error of a corrected percentile by the raw latency. The
  two roundings of `shifted()` are small against the raw value, but nothing bounds
  them by the corrected one, which is what the benchmark prints.

## 6. Not modelled

Left out: the arithmetic of the hash function (any function is covered), the
random draws, time and floating-point statistics of the simulator, regression and plots
of the impact study, printing of the histogram, the latency loops of the benches (each
times one call), the id lookup benchmark (it drives `IdMap` and a copy of the engine's
handle scheme, both modelled on their own), the bindings that forward, the web front end (a stateless request per
simulation) and the tests. `std::unordered_map`, `std::map` and `std::list` are taken
to behave as a function, an ordered function and a sequence.
