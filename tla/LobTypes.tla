------------------------------- MODULE LobTypes -------------------------------
(***************************************************************************)
(* The value types of the matching engine (types.hpp) and the order handle *)
(* (order_handle.hpp).  A handle packs two 32-bit fields into one word;    *)
(* packing is a bijection, so a handle is kept here as the pair of fields. *)
(***************************************************************************)
EXTENDS Integers

Side == {"Buy", "Sell"}

Opposite(s) == IF s = "Buy" THEN "Sell" ELSE "Buy"

TimeInForce == {"GTC", "IOC", "FOK"}

SelfTradePrevention == {"None", "CancelNewest", "CancelOldest"}

Status == {"Accepted", "PartiallyFilled", "Filled", "Cancelled", "Rejected"}

RejectReason ==
  {"None", "ZeroQuantity", "PriceOutOfRange", "PriceNotOnTick", "UnknownOrder",
   "FillOrKillUnfillable", "EmptyBook"}

(* handle::make; slot_of and generation_of are the two fields.              *)
MakeHandle(slot, generation) == [slot |-> slot, gen |-> generation]

(* The word 0: slot 0 with generation 0.                                    *)
InvalidOrderId == MakeHandle(0, 0)

(* Participant 0 is anonymous and exempt from self-trade prevention.        *)
Anonymous == 0

(* Mutant of Smaller: the quantity of a trade is not capped by the taker.   *)
SecondOf(x, y) == y

(* std::min.                                                                *)
Smaller(x, y) == IF x <= y THEN x ELSE y
===============================================================================
