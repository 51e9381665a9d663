----------------------------- MODULE BitsetLadder ------------------------------
(***************************************************************************)
(* lob::BitsetLadder, the three-level bitmap over the price ladder.  A     *)
(* word is the set of its bit positions whose bit is 1; a bit number is    *)
(* split into a word number (>> 6 in the code) and a position (& 63).      *)
(*                                                                         *)
(* PriceIndex states what the two searches promise the order book.         *)
(***************************************************************************)
EXTENDS PriceIndex

CONSTANTS
  N,  \* n_, the number of ladder indices
  W   \* bits in a word (64)

ASSUME SizeAssumption == N \in Nat /\ W \in Nat /\ W > 1

VARIABLES l0, l1, l2

vars == <<l0, l1, l2>>

Bit  == 0 .. W - 1
Word == SUBSET Bit

WordOf(i)  == i \div W
BitOf(i)   == i % W
Join(w, b) == w * W + b

(* Words needed for n bits.                                                 *)
Words(n) == (n + W - 1) \div W

N0 == Words(N)
N1 == Words(N0)
N2 == Words(N1)

Zeros(n) == [w \in 0 .. n - 1 |-> {}]

Init == l0 = Zeros(N0) /\ l1 = Zeros(N1) /\ l2 = Zeros(N2)

(* Mutant of WithBit: the position is not masked.                           *)
WithBitUnmasked(l, i) == [l EXCEPT ![WordOf(i)] = @ \cup {i}]

WithBit(l, i) == [l EXCEPT ![WordOf(i)] = @ \cup {BitOf(i)}]
Without(l, i) == [l EXCEPT ![WordOf(i)] = @ \ {BitOf(i)}]

Test(i) == BitOf(i) \in l0[WordOf(i)]

(* All three levels, whether the word was empty or not.                     *)
Set(i) ==
  /\ l0' = WithBit(l0, i)
  /\ l1' = WithBit(l1, WordOf(i))
  /\ l2' = WithBit(l2, WordOf(WordOf(i)))

(* Mutant of Clear: the top level is cleared with the middle one.           *)
ClearAllLevels(i) ==
  LET w0 == WordOf(i)
  IN /\ l0' = Without(l0, i)
     /\ IF l0'[w0] # {} THEN UNCHANGED <<l1, l2>>
        ELSE l1' = Without(l1, w0) /\ l2' = Without(l2, WordOf(w0))

(* A summary bit goes only with the last bit of the word it stands for.     *)
Clear(i) ==
  LET w0 == WordOf(i)
      w1 == WordOf(w0)
  IN /\ l0' = Without(l0, i)
     /\ IF l0'[w0] # {} THEN UNCHANGED l1 ELSE l1' = Without(l1, w0)
     /\ IF l0'[w0] # {} \/ l1'[w1] # {} THEN UNCHANGED l2 ELSE l2' = Without(l2, w1)

Next == \E i \in 0 .. N - 1 : Set(i) \/ Clear(i)

Spec == Init /\ [][Next]_vars
-------------------------------------------------------------------------------
(* The searches.                                                            *)

(* ctz64 and msb64, on a word that is not zero.                             *)
Lowest(m)  == CHOOSE b \in m : \A c \in m : b <= c
Highest(m) == CHOOSE b \in m : \A c \in m : b >= c

(* The bits of a word at or above, at or below a position.                  *)
FromBit(m, b) == {c \in m : c >= b}
UpToBit(m, b) == {c \in m : c <= b}

ExpandUp(w0)   == Join(w0, Lowest(l0[w0]))
ExpandDown(w0) == Join(w0, Highest(l0[w0]))

(* Words of l2 that have a bit, above or below word w2.                     *)
BusyAbove(w2) == {t \in w2 + 1 .. N2 - 1 : l2[t] # {}}
BusyBelow(w2) == {t \in 0 .. w2 - 1 : l2[t] # {}}

(* The last resort of find_ge: an L1 word above the one that held word k.   *)
AboveL1(k) ==
  LET w2 == WordOf(k)
      m2 == FromBit(l2[w2], BitOf(k))
      Up(nw1) == ExpandUp(Join(nw1, Lowest(l1[nw1])))
  IN IF m2 # {} THEN Up(Join(w2, Lowest(m2)))
     ELSE IF BusyAbove(w2) = {} THEN NPos
     ELSE LET t == Lowest(BusyAbove(w2)) IN Up(Join(t, Lowest(l2[t])))

AboveL0(j) ==
  LET w1 == WordOf(j)
      m1 == FromBit(l1[w1], BitOf(j))
  IN IF m1 # {} THEN ExpandUp(Join(w1, Lowest(m1)))
     ELSE IF w1 + 1 < N1 THEN AboveL1(w1 + 1) ELSE NPos

(* Mutant of SearchUp: the word after the one searched is skipped.          *)
SearchUpSkipping(i) ==
  IF i >= N THEN NPos
  ELSE LET w0 == WordOf(i)
           m  == FromBit(l0[w0], BitOf(i))
       IN IF m # {} THEN Join(w0, Lowest(m))
          ELSE IF w0 + 2 < N0 THEN AboveL0(w0 + 2) ELSE NPos

(* find_ge().                                                               *)
SearchUp(i) ==
  IF i >= N THEN NPos
  ELSE LET w0 == WordOf(i)
           m  == FromBit(l0[w0], BitOf(i))
       IN IF m # {} THEN Join(w0, Lowest(m))
          ELSE IF w0 + 1 < N0 THEN AboveL0(w0 + 1) ELSE NPos

BelowL1(k) ==
  LET w2 == WordOf(k)
      m2 == UpToBit(l2[w2], BitOf(k))
      Down(nw1) == ExpandDown(Join(nw1, Highest(l1[nw1])))
  IN IF m2 # {} THEN Down(Join(w2, Highest(m2)))
     ELSE IF BusyBelow(w2) = {} THEN NPos
     ELSE LET t == Highest(BusyBelow(w2)) IN Down(Join(t, Highest(l2[t])))

BelowL0(j) ==
  LET w1 == WordOf(j)
      m1 == UpToBit(l1[w1], BitOf(j))
  IN IF m1 # {} THEN ExpandDown(Join(w1, Highest(m1)))
     ELSE IF w1 = 0 THEN NPos ELSE BelowL1(w1 - 1)

(* find_le(): an index past the end starts at the last one.                 *)
SearchDown(i0) ==
  IF N = 0 THEN NPos
  ELSE LET i  == IF i0 >= N THEN N - 1 ELSE i0
           w0 == WordOf(i)
           m  == UpToBit(l0[w0], BitOf(i))
       IN IF m # {} THEN Join(w0, Highest(m))
          ELSE IF w0 = 0 THEN NPos ELSE BelowL0(w0 - 1)

IsEmpty == \A w \in 0 .. N2 - 1 : l2[w] = {}
FirstSet == SearchUp(0)
LastSet == IF N = 0 THEN NPos ELSE SearchDown(N - 1)
-------------------------------------------------------------------------------
(* Every bit lies in its word.                                              *)
TypeOK ==
  /\ l0 \in [0 .. N0 - 1 -> Word]
  /\ l1 \in [0 .. N1 - 1 -> Word]
  /\ l2 \in [0 .. N2 - 1 -> Word]

Occupied == {i \in 0 .. N - 1 : Test(i)}

(* Bit w of a summary is 1 exactly if word w of the level below is not      *)
(* zero; the summary has no bit for a word that does not exist.             *)
Summarises(upper, n, lower) ==
  \A w \in DOMAIN upper, b \in Bit :
    b \in upper[w] <=> (Join(w, b) < n /\ lower[Join(w, b)] # {})

(* set() and clear() keep both summary levels exact: a summary bit left     *)
(* behind makes a search expand a zero word, whose ctz is undefined, and a  *)
(* missing one hides a price.  Nor does a bit beyond the ladder ever appear.*)
SummariesExact ==
  /\ Summarises(l1, N0, l0)
  /\ Summarises(l2, N1, l1)
  /\ \A w \in DOMAIN l0 : \A b \in l0[w] : Join(w, b) < N

(* find_ge() and find_le() return the nearest occupied index, from every    *)
(* index, across word boundaries of all three levels, past the end too;     *)
(* empty(), first() and last(), which read other levels, agree.             *)
SearchExact ==
  /\ \A i \in 0 .. N + W : /\ SearchUp(i) = FindGe(Occupied, i)
                           /\ SearchDown(i) = FindLe(Occupied, i)
  /\ IsEmpty <=> Occupied = {}
  /\ FirstSet = FindGe(Occupied, 0)
  /\ LastSet = FindLe(Occupied, N - 1)
===============================================================================
