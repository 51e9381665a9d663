--------------------------------- MODULE IdMap ---------------------------------
(***************************************************************************)
(* lob::IdMap, open addressing with linear probing and backward-shift      *)
(* deletion.  op is the call under way: erase() is split into one step per *)
(* iteration of its shift loop and grow() into one step per old entry, so  *)
(* the invariants also hold of the table half way through both.            *)
(***************************************************************************)
EXTENDS Integers, FiniteSets

CONSTANTS
  Key,         \* order ids, which start at 1: 0 marks an empty entry
  Val,         \* pool slots
  HashValue,   \* the values mix() takes on these keys
  InitialCap   \* entries of a new table, a power of two (16 or more)

NoKey == 0
Miss  == -1

ASSUME KeyAssumption == Key \subseteq Nat \ {NoKey} /\ Miss \notin Val
ASSUME CapAssumption == HashValue \subseteq Nat /\ InitialCap \in Nat \ {0}

VARIABLES
  mix,   \* the hash function, any function of the key
  tab,   \* tab_
  size,  \* size_
  op     \* erase() or a growing insert() under way

vars == <<mix, tab, size, op>>

Empty == [key |-> NoKey, val |-> Miss]

Entry == [key : Key, val : Val] \cup {Empty}

NewTable(n) == [i \in 0 .. n - 1 |-> Empty]

Quiet == [kind |-> "none"]

Init ==
  /\ mix \in [Key -> HashValue]
  /\ tab = NewTable(InitialCap)
  /\ size = 0
  /\ op = Quiet
-------------------------------------------------------------------------------
Cap(t) == Cardinality(DOMAIN t)

(* slot(): the capacity is a power of two, and & mask_ the remainder.       *)
Home(t, k) == mix[k] % Cap(t)

After(t, i) == (i + 1) % Cap(t)

(* Probe steps from index i to index j.                                     *)
Distance(t, i, j) == (j - i) % Cap(t)

(* The loop of insert(), find() and erase(): the first entry from the home  *)
(* of k on that holds k or nothing.                                         *)
Probe(t, k) ==
  LET stops == {i \in DOMAIN t : t[i].key \in {k, NoKey}}
  IN CHOOSE i \in stops :
       \A j \in stops : Distance(t, Home(t, k), i) <= Distance(t, Home(t, k), j)

Find(k) == IF tab[Probe(tab, k)].key = k THEN tab[Probe(tab, k)].val ELSE Miss

(* Mutant of MustGrow: the table grows when it is full.                     *)
MustGrowWhenFull == size >= Cap(tab)

(* The load factor an insertion would reach.                                *)
MustGrow == (size + 1) * 10 >= Cap(tab) * 7

Put(k, v) ==
  LET i == Probe(tab, k)
  IN /\ tab' = [tab EXCEPT ![i] = [key |-> k, val |-> v]]
     /\ size' = IF tab[i].key = k THEN size ELSE size + 1

Insert(k, v) ==
  /\ op = Quiet
  /\ ~ MustGrow
  /\ Put(k, v)
  /\ UNCHANGED <<mix, op>>

(* An insert() that first calls grow(): an empty table of twice the size.   *)
InsertGrowing(k, v) ==
  /\ op = Quiet
  /\ MustGrow
  /\ tab' = NewTable(2 * Cap(tab))
  /\ size' = 0
  /\ op' = [kind |-> "grow", old |-> tab, at |-> 0, key |-> k, val |-> v]
  /\ UNCHANGED mix

(* One entry of the old table.  It is moved by insert(): were that to grow  *)
(* the table again no step would be enabled here.                           *)
Rehash ==
  /\ op.kind = "grow"
  /\ op.at < Cap(op.old)
  /\ LET e == op.old[op.at]
     IN IF e.key = NoKey THEN UNCHANGED <<tab, size>>
        ELSE ~ MustGrow /\ Put(e.key, e.val)
  /\ op' = [op EXCEPT !.at = @ + 1]
  /\ UNCHANGED mix

(* grow() has returned and the insertion goes on.                           *)
InsertGrown ==
  /\ op.kind = "grow"
  /\ op.at = Cap(op.old)
  /\ Put(op.key, op.val)
  /\ op' = Quiet
  /\ UNCHANGED mix

(* Mutant of EraseUnknown: size_ is decremented though nothing was found.   *)
EraseUnknownCounted(k) ==
  /\ op = Quiet
  /\ tab[Probe(tab, k)].key = NoKey
  /\ size' = size - 1
  /\ UNCHANGED <<mix, tab, op>>

EraseUnknown(k) ==
  /\ op = Quiet
  /\ tab[Probe(tab, k)].key = NoKey
  /\ UNCHANGED vars

(* erase() has found k: its entry is the hole to be filled.                 *)
Erase(k) ==
  /\ op = Quiet
  /\ LET i == Probe(tab, k)
     IN tab[i].key = k /\ op' = [kind |-> "shift", hole |-> i, at |-> i]
  /\ UNCHANGED <<mix, tab, size>>

(* Mutant of InPlace: the range (i, j] is not taken cyclically.             *)
InPlaceLinear(home, i, j) == home > i /\ home <= j

(* home lies cyclically in (i, j].                                          *)
InPlace(home, i, j) ==
  IF i <= j THEN home > i /\ home <= j ELSE home > i \/ home <= j

(* Mutant of Inspected: the loop goes on without going on.                  *)
InspectedNot(j) == op

(* j is where the scan of the cluster has got to.                           *)
Inspected(j) == [op EXCEPT !.at = j]

(* An entry whose probes pass the hole moves there and leaves a new hole.   *)
Shift ==
  /\ op.kind = "shift"
  /\ LET j == After(tab, op.at)
     IN /\ tab[j].key # NoKey
        /\ IF InPlace(Home(tab, tab[j].key), op.hole, j)
           THEN op' = Inspected(j) /\ UNCHANGED tab
           ELSE /\ op' = [Inspected(j) EXCEPT !.hole = j]
                /\ tab' = [tab EXCEPT ![op.hole] = tab[j]]
  /\ UNCHANGED <<mix, size>>

EraseEnds ==
  /\ op.kind = "shift"
  /\ tab[After(tab, op.at)].key = NoKey
  /\ tab' = [tab EXCEPT ![op.hole] = Empty]
  /\ size' = size - 1
  /\ op' = Quiet
  /\ UNCHANGED mix

(* The table keeps its capacity.                                            *)
Clear ==
  /\ op = Quiet
  /\ tab' = NewTable(Cap(tab))
  /\ size' = 0
  /\ UNCHANGED <<mix, op>>

GoesOn == Rehash \/ InsertGrown \/ Shift \/ EraseEnds

Next ==
  \/ \E k \in Key, v \in Val : Insert(k, v) \/ InsertGrowing(k, v)
  \/ \E k \in Key : Erase(k) \/ EraseUnknown(k)
  \/ Clear
  \/ GoesOn

Spec == Init /\ [][Next]_vars

(* A call that has begun runs on: the map does not wait for anything.       *)
FairSpec == Spec /\ WF_vars(GoesOn)
-------------------------------------------------------------------------------
(* Correctness.                                                             *)

(* Every table holds entries, every index of a call lies in its table.      *)
TypeOK ==
  /\ mix \in [Key -> HashValue]
  /\ tab \in [0 .. Cap(tab) - 1 -> Entry]
  /\ size \in 0 .. Cap(tab)
  /\ CASE op.kind = "none"  -> op = Quiet
       [] op.kind = "grow"  -> /\ op.old \in [0 .. Cap(op.old) - 1 -> Entry]
                               /\ op.at \in 0 .. Cap(op.old)
                               /\ op.key \in Key /\ op.val \in Val
       [] op.kind = "shift" -> {op.hole, op.at} \subseteq DOMAIN tab

(* Indices of the entries in use: the hole of an erase() under way still    *)
(* holds the erased entry, or a copy of one that has moved.                 *)
Used  == {i \in DOMAIN tab : tab[i].key # NoKey}
Holes == IF op.kind = "shift" THEN {op.hole} ELSE {}

(* Linear probing's own invariant: between the home of an entry and the     *)
(* entry there is no empty one, in the middle of a shift or a rehash too.   *)
(* One entry moved too far or not far enough breaks it for a key that is    *)
(* erased or looked up much later.                                          *)
ChainsUnbroken ==
  \A i \in Used \ Holes : LET h == Home(tab, tab[i].key) IN
    \A j \in DOMAIN tab : Distance(tab, h, j) < Distance(tab, h, i) => j \in Used

(* No key is held twice, size_ counts the entries, and one entry is always  *)
(* empty: without it find() of an absent key would never end.               *)
TableSound ==
  /\ size = Cardinality(Used)
  /\ Used # DOMAIN tab
  /\ \A i, j \in Used \ Holes : tab[i].key = tab[j].key => i = j

(* The entries a client has put and not erased, those that grow() has not   *)
(* yet moved included.                                                      *)
Held ==
  {tab[i] : i \in Used \ Holes} \cup
  IF op.kind = "grow"
  THEN {op.old[i] : i \in op.at .. Cap(op.old) - 1} \ {Empty} ELSE {}

(* find() and the searches of insert() and erase() reach what the table     *)
(* holds and nothing else, whatever was erased and rehashed before.         *)
FindExact ==
  op = Quiet =>
    \A k \in Key :
      IF \E e \in Held : e.key = k
      THEN [key |-> k, val |-> Find(k)] \in Held
      ELSE Find(k) = Miss

Table == INSTANCE IdTable WITH entries <- Held

(* The map behaves as a partial function: an entry is moved by a shift or a *)
(* rehash without ever being lost, duplicated or given another's value.     *)
ImplementsIdTable == Table!Spec

(* erase() and grow() end.                                                  *)
EveryCallEnds == op # Quiet ~> op = Quiet
===============================================================================
