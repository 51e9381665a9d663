--------------------------- MODULE MCMarketSimulator ---------------------------
(***************************************************************************)
(* Model checking of MarketSimulator.                                      *)
(***************************************************************************)
EXTENDS MarketSimulator

(* What later steps and the invariants depend on: not the engine's counters *)
(* and sums, nor what a free slot still holds, and of a trade its number.   *)
Numbers(s) == [k \in DOMAIN s |-> s[k].seq]
LiveBook ==
  [book EXCEPT !.pool = [s \in Slot |->
     IF @[s].active THEN [@[s] EXCEPT !.seq = 0] ELSE DefaultOrder]]
SimView ==
  << LiveBook, [call EXCEPT !.notional = 0, !.lastPx = 0],
     result.id, result.resting, result.reject, nextTradeSeq, Numbers(trades),
     Numbers(collected), live, phase, seeded, n, warmup, nLive, event, reported,
     undrained, runs >>
===============================================================================
