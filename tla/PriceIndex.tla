------------------------------ MODULE PriceIndex ------------------------------
(***************************************************************************)
(* What the bitmap over the price ladder promises the order book: a set of *)
(* occupied ladder indices that answers "next occupied index at or above / *)
(* at or below".  The word-by-word search that keeps the promise is a      *)
(* component of its own.                                                   *)
(***************************************************************************)
EXTENDS Integers

(* BitsetLadder::npos.                                                      *)
NPos == -1

(* Smallest member of S at or above i.                                      *)
FindGe(S, i) ==
  LET above == {j \in S : j >= i}
  IN IF above = {} THEN NPos ELSE CHOOSE j \in above : \A k \in above : j <= k

(* Largest member of S at or below i.                                       *)
FindLe(S, i) ==
  LET below == {j \in S : j <= i}
  IN IF below = {} THEN NPos ELSE CHOOSE j \in below : \A k \in below : j >= k
===============================================================================
