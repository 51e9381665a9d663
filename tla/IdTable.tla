-------------------------------- MODULE IdTable --------------------------------
(***************************************************************************)
(* What a map from order id to pool slot promises: one value per key.      *)
(***************************************************************************)
CONSTANTS Key, Val

VARIABLE entries   \* the pairs held, which must never disagree on a key

Init == entries = {}

Others(k) == {e \in entries : e.key # k}

Insert(k, v) == entries' = Others(k) \cup {[key |-> k, val |-> v]}

Erase(k) == entries' = Others(k)

Clear == entries' = {}

Next ==
  \/ \E k \in Key, v \in Val : Insert(k, v)
  \/ \E k \in Key : Erase(k)
  \/ Clear

Spec == Init /\ [][Next]_entries
===============================================================================
