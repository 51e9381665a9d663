------------------------------- MODULE MCMonitor -------------------------------
(***************************************************************************)
(* Model checking of OrderBookMonitor.                                     *)
(***************************************************************************)
EXTENDS OrderBookMonitor

(* What later steps and the invariants depend on: not the last result, the  *)
(* sums in stats_, nor what a free slot or the drained tape still holds.    *)
(* TypeOK, a constant here, makes TLC evaluate a state before it stores it.  *)
LiveBook == [book EXCEPT !.pool = [s \in Slot |-> IF @[s].active THEN @[s] ELSE DefaultOrder]]
MonitorView ==
  << LiveBook, call, stp, nextSeq, stats.accepted + stats.rejected, stats.cancelled,
     history, retired, completed, TypeOK >>
===============================================================================
