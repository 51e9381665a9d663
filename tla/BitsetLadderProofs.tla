-------------------------- MODULE BitsetLadderProofs ---------------------------
(***************************************************************************)
(* Proofs about lob::BitsetLadder: its summaries are exact and its         *)
(* searches return the nearest occupied index, for every size of ladder    *)
(* and every word width.  The inductive invariant is LevelsExact.          *)
(***************************************************************************)
EXTENDS BitsetLadder, CommonLemmas

(* The bits that are 1 in level l, and the numbers of its nonzero words.    *)
BitsOf(l) == {x \in Nat : WordOf(x) \in DOMAIN l /\ BitOf(x) \in l[WordOf(x)]}
Busy(l)   == {w \in DOMAIN l : l[w] # {}}

IsLevel(l, n) == l \in [0 .. n - 1 -> Word]

(* The inductive invariant: the bits of a level are the nonzero words of    *)
(* the level below.                                                         *)
LevelsExact ==
  /\ IsLevel(l0, N0) /\ IsLevel(l1, N1) /\ IsLevel(l2, N2)
  /\ BitsOf(l0) \subseteq 0 .. N - 1
  /\ BitsOf(l1) = Busy(l0) /\ BitsOf(l2) = Busy(l1)
-------------------------------------------------------------------------------
(* Words and positions.                                                     *)

(* A word starts where the one before it ends, or later.                     *)
LEMMA Product ==
  ASSUME NEW x \in Nat, NEW y \in Nat, x < y
  PROVE  x * W + W <= y * W
<1>1. W \in Nat
  BY SizeAssumption
<1>2. (y - x - 1) \in Nat /\ W * (y - x - 1) >= 0
  BY <1>1
<1>3. y * W = x * W + W + W * (y - x - 1)
  BY <1>1
<1> QED BY <1>1, <1>2, <1>3

(* A number is its word number and its position, and they are independent.  *)
LEMMA Split ==
  /\ \A x \in Nat : /\ WordOf(x) \in Nat /\ BitOf(x) \in Bit
                    /\ x = WordOf(x) * W + BitOf(x)
  /\ \A w \in Nat, b \in Bit : /\ Join(w, b) \in Nat
                               /\ WordOf(Join(w, b)) = w /\ BitOf(Join(w, b)) = b
<1>1. W \in Nat /\ W > 1
  BY SizeAssumption
<1>2. ASSUME NEW x \in Nat
      PROVE  WordOf(x) \in Nat /\ BitOf(x) \in Bit /\ x = WordOf(x) * W + BitOf(x)
  <2>1. x = W * (x \div W) + (x % W) /\ x % W \in 0 .. W - 1 /\ x \div W \in Int
    BY <1>1, ModSplit
  <2>2. x \div W >= 0
    BY <1>1
  <2> QED BY <1>1, <2>1, <2>2 DEF WordOf, BitOf, Bit
<1>3. ASSUME NEW w \in Nat, NEW b \in Bit
      PROVE  Join(w, b) \in Nat /\ WordOf(Join(w, b)) = w /\ BitOf(Join(w, b)) = b
  <2> DEFINE x == w * W + b
             v == WordOf(x)
             c == BitOf(x)
  <2>1. x \in Nat /\ b \in 0 .. W - 1
    BY <1>1 DEF Bit
  <2>2. v \in Nat /\ c \in 0 .. W - 1 /\ x = v * W + c
    BY <2>1, <1>2 DEF Bit
  <2> HIDE DEF v, c
  <2>3. v * W + c = w * W + b
    BY <2>2
  <2>4. ~ (v < w)
    <3>1. v < w => v * W + W <= w * W
      BY <2>2, Product
    <3>2. v * W \in Nat /\ w * W \in Nat
      BY <1>1, <2>2
    <3> HIDE DEF x
    <3> QED BY <1>1, <2>1, <2>2, <2>3, <3>1, <3>2
  <2>5. ~ (w < v)
    <3>1. w < v => w * W + W <= v * W
      BY <2>2, Product
    <3>2. v * W \in Nat /\ w * W \in Nat
      BY <1>1, <2>2
    <3> HIDE DEF x
    <3> QED BY <1>1, <2>1, <2>2, <2>3, <3>1, <3>2
  <2>6. v = w
    BY <2>2, <2>4, <2>5
  <2>7. c = b
    <3>1. w * W \in Nat
      BY <1>1
    <3> HIDE DEF x
    <3> QED BY <1>1, <2>1, <2>2, <2>3, <2>6, <3>1
  <2> QED BY <2>1, <2>6, <2>7 DEF v, c, Join
<1> QED BY <1>2, <1>3

(* Numbers are ordered by their words, and within a word by their positions.*)
LEMMA WordOrder ==
  \A x, y \in Nat :
    /\ WordOf(x) < WordOf(y) => x < y
    /\ WordOf(x) = WordOf(y) => (x <= y <=> BitOf(x) <= BitOf(y))
    /\ WordOf(x) = WordOf(y) /\ BitOf(x) = BitOf(y) => x = y
    /\ x <= y => WordOf(x) <= WordOf(y)
<1> SUFFICES ASSUME NEW x \in Nat, NEW y \in Nat
             PROVE  /\ WordOf(x) < WordOf(y) => x < y
                    /\ WordOf(x) = WordOf(y) => (x <= y <=> BitOf(x) <= BitOf(y))
                    /\ WordOf(x) = WordOf(y) /\ BitOf(x) = BitOf(y) => x = y
                    /\ x <= y => WordOf(x) <= WordOf(y)
  OBVIOUS
<1> DEFINE p == WordOf(x)
           q == WordOf(y)
           b == BitOf(x)
           c == BitOf(y)
<1>1. /\ p \in Nat /\ b \in 0 .. W - 1 /\ x = p * W + b
      /\ q \in Nat /\ c \in 0 .. W - 1 /\ y = q * W + c
  BY Split DEF Bit
<1>2. W \in Nat
  BY SizeAssumption
<1> HIDE DEF p, q, b, c
<1>3. p < q => p * W + W <= q * W
  BY <1>1, Product
<1>4. q < p => q * W + W <= p * W
  BY <1>1, Product
<1>5. p * W \in Nat /\ q * W \in Nat
  BY <1>1, <1>2
<1>6. p < q => x < y
  BY <1>1, <1>2, <1>3, <1>5
<1>7. q < p => y < x
  BY <1>1, <1>2, <1>4, <1>5
<1>8. p = q => (x <= y <=> b <= c) /\ (b = c => x = y)
  BY <1>1, <1>2, <1>5
<1> QED BY <1>1, <1>6, <1>7, <1>8 DEF p, q, b, c

(* There are words enough.                                                  *)
LEMMA EnoughWords ==
  ASSUME NEW n \in Nat
  PROVE  Words(n) \in Nat /\ \A x \in 0 .. n - 1 : WordOf(x) \in 0 .. Words(n) - 1
<1> DEFINE y == n + W - 1
<1>1. W \in Nat /\ W > 1 /\ y \in Nat
  BY SizeAssumption
<1>2. Words(n) = WordOf(y)
  BY DEF Words, WordOf
<1>3. Words(n) \in Nat
  BY <1>1, <1>2, Split
<1>4. ASSUME NEW x \in 0 .. n - 1 PROVE WordOf(x) < WordOf(y)
  <2> DEFINE p == WordOf(x)
             b == BitOf(x)
  <2>1. p \in Nat /\ b \in 0 .. W - 1 /\ x = p * W + b
    BY Split DEF Bit
  <2> HIDE DEF p, b
  <2>2. 0 \in Bit /\ p + 1 \in Nat
    BY <1>1, <2>1 DEF Bit
  <2>3. (p + 1) * W + 0 <= y
    <3>1. (p + 1) * W + 0 = p * W + W
      BY <1>1, <2>1
    <3>2. p * W \in Nat
      BY <1>1, <2>1
    <3> QED BY <1>1, <2>1, <3>1, <3>2
  <2>4. Join(p + 1, 0) \in Nat /\ WordOf(Join(p + 1, 0)) = p + 1 /\ Join(p + 1, 0) <= y
    BY <2>2, <2>3, Split DEF Join
  <2>5. p + 1 <= WordOf(y)
    BY <1>1, <2>4, WordOrder
  <2>6. WordOf(y) \in Nat
    BY <1>1, Split
  <2> HIDE DEF y
  <2> QED BY <2>1, <2>5, <2>6 DEF p
<1> HIDE DEF y
<1>5. \A x \in 0 .. n - 1 : WordOf(x) \in Nat
  BY Split
<1> QED BY <1>2, <1>3, <1>4, <1>5
-------------------------------------------------------------------------------
(* set() and clear().                                                       *)

(* The numbers of words.                                                     *)
LEMMA LevelSizes == N0 \in Nat /\ N1 \in Nat /\ N2 \in Nat
BY SizeAssumption, EnoughWords DEF N0, N1, N2

(* Setting a bit.                                                           *)
LEMMA SetBit ==
  ASSUME NEW n \in Nat, NEW l, IsLevel(l, n), NEW i \in Nat, WordOf(i) \in 0 .. n - 1
  PROVE  LET u == WithBit(l, i)
         IN /\ IsLevel(u, n) /\ BitsOf(u) = BitsOf(l) \cup {i}
            /\ Busy(u) = Busy(l) \cup {WordOf(i)}
<1> DEFINE u == WithBit(l, i)
           w == WordOf(i)
           b == BitOf(i)
<1>1. /\ w \in DOMAIN l /\ DOMAIN l = 0 .. n - 1 /\ b \in Bit /\ w \in Nat
      /\ \A x \in DOMAIN l : l[x] \in Word
  BY Split DEF IsLevel
<1>2. l[w] \cup {b} \in Word
  BY <1>1 DEF Word
<1>3. /\ DOMAIN u = DOMAIN l /\ u[w] = l[w] \cup {b}
      /\ \A x \in DOMAIN l : x # w => u[x] = l[x]
  BY <1>1 DEF WithBit, IsLevel
<1>4. IsLevel(u, n)
  BY <1>1, <1>2 DEF WithBit, IsLevel
<1> HIDE DEF u, w, b
<1>5. \A x \in Nat : x \in BitsOf(u) <=> x \in BitsOf(l) \/ x = i
  <2> SUFFICES ASSUME NEW x \in Nat PROVE x \in BitsOf(u) <=> x \in BitsOf(l) \/ x = i
    OBVIOUS
  <2>1. x = i <=> WordOf(x) = w /\ BitOf(x) = b
    BY WordOrder DEF w, b
  <2>2. ASSUME WordOf(x) = w PROVE x \in BitsOf(u) <=> x \in BitsOf(l) \/ x = i
    BY <1>1, <1>3, <2>1, <2>2 DEF BitsOf
  <2>3. ASSUME WordOf(x) # w PROVE x \in BitsOf(u) <=> x \in BitsOf(l) \/ x = i
    BY <1>1, <1>3, <2>1, <2>3 DEF BitsOf
  <2> QED BY <2>2, <2>3
<1>6. BitsOf(u) = BitsOf(l) \cup {i}
  BY <1>5 DEF BitsOf
<1>7. Busy(u) = Busy(l) \cup {w}
  BY <1>1, <1>3 DEF Busy
<1> QED BY <1>4, <1>6, <1>7 DEF u, w

(* Clearing one.                                                            *)
LEMMA ClearBit ==
  ASSUME NEW n \in Nat, NEW l, IsLevel(l, n), NEW i \in Nat, WordOf(i) \in 0 .. n - 1
  PROVE  LET u == Without(l, i)
         IN /\ IsLevel(u, n) /\ BitsOf(u) = BitsOf(l) \ {i}
            /\ Busy(u) = IF u[WordOf(i)] # {} THEN Busy(l) ELSE Busy(l) \ {WordOf(i)}
<1> DEFINE u == Without(l, i)
           w == WordOf(i)
           b == BitOf(i)
<1>1. /\ w \in DOMAIN l /\ DOMAIN l = 0 .. n - 1 /\ b \in Bit /\ w \in Nat
      /\ \A x \in DOMAIN l : l[x] \in Word
  BY Split DEF IsLevel
<1>2. l[w] \ {b} \in Word
  BY <1>1 DEF Word
<1>3. /\ DOMAIN u = DOMAIN l /\ u[w] = l[w] \ {b}
      /\ \A x \in DOMAIN l : x # w => u[x] = l[x]
  BY <1>1 DEF Without, IsLevel
<1>4. IsLevel(u, n)
  BY <1>1, <1>2 DEF Without, IsLevel
<1> HIDE DEF u, w, b
<1>5. \A x \in Nat : x \in BitsOf(u) <=> x \in BitsOf(l) /\ x # i
  <2> SUFFICES ASSUME NEW x \in Nat PROVE x \in BitsOf(u) <=> x \in BitsOf(l) /\ x # i
    OBVIOUS
  <2>1. x = i <=> WordOf(x) = w /\ BitOf(x) = b
    BY WordOrder DEF w, b
  <2>2. ASSUME WordOf(x) = w PROVE x \in BitsOf(u) <=> x \in BitsOf(l) /\ x # i
    BY <1>1, <1>3, <2>1, <2>2 DEF BitsOf
  <2>3. ASSUME WordOf(x) # w PROVE x \in BitsOf(u) <=> x \in BitsOf(l) /\ x # i
    BY <1>1, <1>3, <2>1, <2>3 DEF BitsOf
  <2> QED BY <2>2, <2>3
<1>6. BitsOf(u) = BitsOf(l) \ {i}
  BY <1>5 DEF BitsOf
<1>7. Busy(u) = IF u[w] # {} THEN Busy(l) ELSE Busy(l) \ {w}
  <2>1. u[w] # {} => l[w] # {}
    BY <1>3
  <2> QED BY <1>1, <1>3, <2>1 DEF Busy
<1> QED BY <1>4, <1>6, <1>7 DEF u, w

(* A number of the ladder has its word in every level.                      *)
LEMMA LadderWords ==
  ASSUME NEW i \in 0 .. N - 1
  PROVE  /\ i \in Nat /\ WordOf(i) \in 0 .. N0 - 1
         /\ WordOf(i) \in Nat /\ WordOf(WordOf(i)) \in 0 .. N1 - 1
         /\ WordOf(WordOf(i)) \in Nat /\ WordOf(WordOf(WordOf(i))) \in 0 .. N2 - 1
<1>1. i \in Nat /\ N \in Nat
  BY SizeAssumption
<1>2. WordOf(i) \in 0 .. N0 - 1
  BY <1>1, EnoughWords DEF N0
<1>3. WordOf(WordOf(i)) \in 0 .. N1 - 1
  BY <1>2, LevelSizes, EnoughWords DEF N1
<1>4. WordOf(WordOf(WordOf(i))) \in 0 .. N2 - 1
  BY <1>3, LevelSizes, EnoughWords DEF N2
<1> QED BY <1>1, <1>2, <1>3, <1>4

(* So has the number of a word.                                             *)
LEMMA UpperWords ==
  /\ \A j \in 0 .. N0 - 1 : j \in Nat /\ WordOf(j) \in 0 .. N1 - 1 /\ WordOf(j) \in Nat
  /\ \A k \in 0 .. N1 - 1 : k \in Nat /\ WordOf(k) \in 0 .. N2 - 1 /\ WordOf(k) \in Nat
<1>1. \A j \in 0 .. N0 - 1 : j \in Nat /\ WordOf(j) \in 0 .. N1 - 1 /\ WordOf(j) \in Nat
  BY LevelSizes, EnoughWords DEF N1
<1>2. \A k \in 0 .. N1 - 1 : k \in Nat /\ WordOf(k) \in 0 .. N2 - 1 /\ WordOf(k) \in Nat
  BY LevelSizes, EnoughWords DEF N2
<1> QED BY <1>1, <1>2

(* set() keeps the levels exact.                                             *)
LEMMA SetKeepsLevels ==
  ASSUME LevelsExact, NEW i \in 0 .. N - 1, Set(i)
  PROVE  LevelsExact'
<1>1. /\ i \in Nat /\ WordOf(i) \in 0 .. N0 - 1
      /\ WordOf(i) \in Nat /\ WordOf(WordOf(i)) \in 0 .. N1 - 1
      /\ WordOf(WordOf(i)) \in Nat /\ WordOf(WordOf(WordOf(i))) \in 0 .. N2 - 1
      /\ N0 \in Nat /\ N1 \in Nat /\ N2 \in Nat
  BY LadderWords, LevelSizes
<1>2. /\ IsLevel(l0', N0) /\ BitsOf(l0') = BitsOf(l0) \cup {i}
      /\ Busy(l0') = Busy(l0) \cup {WordOf(i)}
  BY <1>1, SetBit DEF LevelsExact, Set
<1>3. /\ IsLevel(l1', N1) /\ BitsOf(l1') = BitsOf(l1) \cup {WordOf(i)}
      /\ Busy(l1') = Busy(l1) \cup {WordOf(WordOf(i))}
  BY <1>1, SetBit DEF LevelsExact, Set
<1>4. IsLevel(l2', N2) /\ BitsOf(l2') = BitsOf(l2) \cup {WordOf(WordOf(i))}
  BY <1>1, SetBit DEF LevelsExact, Set
<1> QED BY <1>2, <1>3, <1>4 DEF LevelsExact

(* clear() keeps them exact: a summary loses a bit only with the whole word. *)
LEMMA ClearKeepsLevels ==
  ASSUME LevelsExact, NEW i \in 0 .. N - 1, Clear(i)
  PROVE  LevelsExact'
<1> DEFINE w0 == WordOf(i)
           w1 == WordOf(w0)
<1>1. /\ i \in Nat /\ w0 \in 0 .. N0 - 1
      /\ w0 \in Nat /\ w1 \in 0 .. N1 - 1
      /\ w1 \in Nat /\ WordOf(w1) \in 0 .. N2 - 1
      /\ N0 \in Nat /\ N1 \in Nat /\ N2 \in Nat
  BY LadderWords, LevelSizes
<1>2. /\ l0' = Without(l0, i)
      /\ IF l0'[w0] # {} THEN UNCHANGED l1 ELSE l1' = Without(l1, w0)
      /\ IF l0'[w0] # {} \/ l1'[w1] # {} THEN UNCHANGED l2 ELSE l2' = Without(l2, w1)
  BY DEF Clear
<1>3. /\ IsLevel(l0, N0) /\ IsLevel(l1, N1) /\ IsLevel(l2, N2)
      /\ BitsOf(l0) \subseteq 0 .. N - 1
      /\ BitsOf(l1) = Busy(l0) /\ BitsOf(l2) = Busy(l1)
  BY DEF LevelsExact
<1> HIDE DEF w1
<1>4. /\ IsLevel(l0', N0) /\ BitsOf(l0') = BitsOf(l0) \ {i}
      /\ Busy(l0') = IF l0'[w0] # {} THEN Busy(l0) ELSE Busy(l0) \ {w0}
  BY <1>1, <1>2, <1>3, ClearBit
<1>5. ASSUME l0'[w0] # {} PROVE LevelsExact'
  <2>1. l1' = l1 /\ l2' = l2
    BY <1>2, <1>5
  <2> QED BY <1>3, <1>4, <1>5, <2>1 DEF LevelsExact
<1>6. ASSUME l0'[w0] = {} PROVE LevelsExact'
  <2>1. /\ IsLevel(l1', N1) /\ BitsOf(l1') = BitsOf(l1) \ {w0}
        /\ Busy(l1') = IF l1'[w1] # {} THEN Busy(l1) ELSE Busy(l1) \ {w1}
    BY <1>1, <1>2, <1>3, <1>6, ClearBit DEF w1
  <2>2. ASSUME l1'[w1] # {} PROVE LevelsExact'
    <3>1. l2' = l2
      BY <1>2, <2>2
    <3> QED BY <1>3, <1>4, <1>6, <2>1, <2>2, <3>1 DEF LevelsExact
  <2>3. ASSUME l1'[w1] = {} PROVE LevelsExact'
    <3>1. IsLevel(l2', N2) /\ BitsOf(l2') = BitsOf(l2) \ {w1}
      BY <1>1, <1>2, <1>3, <1>6, <2>3, ClearBit
    <3> QED BY <1>3, <1>4, <1>6, <2>1, <2>3, <3>1 DEF LevelsExact
  <2> QED BY <2>2, <2>3
<1> QED BY <1>5, <1>6

(* LevelsExact holds in every reachable state.                               *)
LEMMA LevelsInvariant == Spec => []LevelsExact
<1>1. ASSUME Init PROVE LevelsExact
  <2>1. \A n \in Nat : IsLevel(Zeros(n), n) /\ BitsOf(Zeros(n)) = {} /\ Busy(Zeros(n)) = {}
    BY DEF IsLevel, Zeros, BitsOf, Busy, Word
  <2> QED BY <1>1, <2>1, LevelSizes DEF Init, LevelsExact
<1>2. ASSUME LevelsExact, [Next]_vars PROVE LevelsExact'
  <2>1. ASSUME NEW i \in 0 .. N - 1, Set(i) PROVE LevelsExact'
    BY <1>2, <2>1, SetKeepsLevels
  <2>2. ASSUME NEW i \in 0 .. N - 1, Clear(i) PROVE LevelsExact'
    BY <1>2, <2>2, ClearKeepsLevels
  <2>3. ASSUME UNCHANGED vars PROVE LevelsExact'
    BY <1>2, <2>3 DEF vars, LevelsExact
  <2> QED BY <1>2, <2>1, <2>2, <2>3 DEF Next
<1> QED BY <1>1, <1>2, PTL DEF Spec
-------------------------------------------------------------------------------
(* find_ge().                                                               *)

(* j is the first member of S from i on, or from word v on.                 *)
IsNext(S, i, j)   == j \in S /\ i <= j /\ \A x \in S : i <= x => j <= x
FromWord(S, v, j) == j \in S /\ v <= WordOf(j) /\ \A x \in S : v <= WordOf(x) => j <= x

(* ctz64 of a word, and the first of a set of words.                         *)
LEMMA LowestIs ==
  ASSUME NEW m \in SUBSET Nat, m # {}
  PROVE  Lowest(m) \in m /\ \A c \in m : Lowest(m) <= c
<1>1. \E b \in m : \A c \in m : b <= c
  BY LeastExists
<1> QED BY <1>1 DEF Lowest

(* The words and the bits of a level.                                        *)
LEMMA LevelFacts ==
  ASSUME NEW n \in Nat, NEW l, IsLevel(l, n)
  PROVE  /\ DOMAIN l = 0 .. n - 1
         /\ \A w \in DOMAIN l : w \in Nat /\ l[w] \in SUBSET Nat /\ \A b \in l[w] : b \in Bit
         /\ \A w \in DOMAIN l, b \in Bit : Join(w, b) \in BitsOf(l) <=> b \in l[w]
         /\ \A x \in BitsOf(l) : /\ x \in Nat /\ WordOf(x) \in DOMAIN l /\ BitOf(x) \in l[WordOf(x)]
                                 /\ WordOf(x) \in Busy(l)
         /\ Busy(l) \subseteq DOMAIN l
<1>1. DOMAIN l = 0 .. n - 1 /\ \A w \in DOMAIN l : l[w] \subseteq Bit
  BY DEF IsLevel, Word
<1>2. \A b \in Bit : b \in Nat
  BY SizeAssumption DEF Bit
<1>3. \A w \in DOMAIN l : w \in Nat /\ l[w] \in SUBSET Nat /\ \A b \in l[w] : b \in Bit
  BY <1>1, <1>2
<1>4. \A w \in DOMAIN l, b \in Bit : Join(w, b) \in BitsOf(l) <=> b \in l[w]
  BY <1>3, Split DEF BitsOf
<1>5. \A x \in BitsOf(l) : /\ x \in Nat /\ WordOf(x) \in DOMAIN l /\ BitOf(x) \in l[WordOf(x)]
                           /\ WordOf(x) \in Busy(l)
  BY DEF BitsOf, Busy
<1> QED BY <1>1, <1>3, <1>4, <1>5 DEF Busy

(* The rest of a word holds the answer, or it is in a later word.           *)
LEMMA InWordUp ==
  ASSUME NEW n \in Nat, NEW l, IsLevel(l, n), NEW k \in Nat, WordOf(k) \in 0 .. n - 1
  PROVE  LET m == FromBit(l[WordOf(k)], BitOf(k))
         IN /\ m # {} => IsNext(BitsOf(l), k, Join(WordOf(k), Lowest(m)))
            /\ m = {} => \A x \in BitsOf(l) : k <= x <=> WordOf(k) + 1 <= WordOf(x)
<1> DEFINE w == WordOf(k)
           b == BitOf(k)
           m == FromBit(l[w], b)
<1>1. /\ DOMAIN l = 0 .. n - 1
      /\ \A v \in DOMAIN l : v \in Nat /\ l[v] \in SUBSET Nat /\ \A c \in l[v] : c \in Bit
      /\ \A v \in DOMAIN l, c \in Bit : Join(v, c) \in BitsOf(l) <=> c \in l[v]
      /\ \A x \in BitsOf(l) : x \in Nat /\ WordOf(x) \in DOMAIN l /\ BitOf(x) \in l[WordOf(x)]
  BY LevelFacts
<1>2. w \in DOMAIN l /\ w \in Nat /\ b \in Nat
  BY <1>1, Split, SizeAssumption DEF Bit
<1>3. m \in SUBSET Nat /\ \A c \in m : c \in l[w] /\ c >= b /\ c \in Bit
  BY <1>1, <1>2 DEF FromBit
<1>4. \A x \in BitsOf(l) : WordOf(x) = w /\ k <= x => BitOf(x) \in m
  <2>1. \A x \in Nat : WordOf(x) = w /\ k <= x => b <= BitOf(x)
    BY WordOrder
  <2>2. \A x \in Nat : BitOf(x) \in Nat
    <3>1. \A c \in Bit : c \in Nat
      BY SizeAssumption DEF Bit
    <3> QED BY <3>1, Split
  <2> QED BY <1>1, <1>2, <2>1, <2>2 DEF FromBit
<1>5. \A x \in BitsOf(l) : k <= x => w <= WordOf(x)
  BY <1>1, WordOrder
<1> HIDE DEF m
<1>6. ASSUME m # {} PROVE IsNext(BitsOf(l), k, Join(w, Lowest(m)))
  <2> DEFINE j == Join(w, Lowest(m))
  <2>1. Lowest(m) \in m /\ \A c \in m : Lowest(m) <= c
    BY <1>3, <1>6, LowestIs
  <2>2. j \in BitsOf(l) /\ j \in Nat /\ WordOf(j) = w /\ BitOf(j) = Lowest(m)
    BY <1>1, <1>2, <1>3, <2>1, Split
  <2>3. k <= j
    BY <1>2, <1>3, <2>1, <2>2, WordOrder
  <2> HIDE DEF j
  <2>4. ASSUME NEW x \in BitsOf(l), k <= x PROVE j <= x
    <3>1. x \in Nat /\ w <= WordOf(x) /\ WordOf(x) \in Nat
      BY <1>1, <1>5, <2>4
    <3>2. WordOf(x) = w => BitOf(j) <= BitOf(x)
      BY <1>4, <2>1, <2>2, <2>4
    <3>3. WordOf(j) < WordOf(x) => j < x
      BY <2>2, <3>1, WordOrder
    <3>4. WordOf(j) = WordOf(x) => (j <= x <=> BitOf(j) <= BitOf(x))
      BY <2>2, <3>1, WordOrder
    <3> QED BY <1>2, <2>2, <3>1, <3>2, <3>3, <3>4
  <2> QED BY <2>2, <2>3, <2>4 DEF IsNext, j
<1>7. ASSUME m = {} PROVE \A x \in BitsOf(l) : k <= x <=> w + 1 <= WordOf(x)
  <2> SUFFICES ASSUME NEW x \in BitsOf(l) PROVE k <= x <=> w + 1 <= WordOf(x)
    OBVIOUS
  <2>1. x \in Nat /\ WordOf(x) \in Nat
    BY <1>1
  <2>2. k <= x => w <= WordOf(x) /\ WordOf(x) # w
    BY <1>4, <1>5, <1>7
  <2>3. w < WordOf(x) => k < x
    BY <2>1, WordOrder
  <2> QED BY <1>2, <2>1, <2>2, <2>3
<1> QED BY <1>6, <1>7 DEF m

(* The lowest bit of the first nonzero word.                                *)
LEMMA ExpandFirst ==
  ASSUME NEW n \in Nat, NEW l, IsLevel(l, n), NEW v \in Nat, NEW w, IsNext(Busy(l), v, w)
  PROVE  FromWord(BitsOf(l), v, Join(w, Lowest(l[w])))
<1> DEFINE j == Join(w, Lowest(l[w]))
<1>1. /\ \A q \in DOMAIN l : q \in Nat /\ l[q] \in SUBSET Nat /\ \A c \in l[q] : c \in Bit
      /\ \A q \in DOMAIN l, c \in Bit : Join(q, c) \in BitsOf(l) <=> c \in l[q]
      /\ \A x \in BitsOf(l) : /\ x \in Nat /\ WordOf(x) \in DOMAIN l /\ BitOf(x) \in l[WordOf(x)]
                              /\ WordOf(x) \in Busy(l)
  BY LevelFacts
<1>2. w \in DOMAIN l /\ w \in Nat /\ l[w] # {} /\ v <= w
  BY <1>1 DEF IsNext, Busy
<1>3. Lowest(l[w]) \in l[w] /\ \A c \in l[w] : Lowest(l[w]) <= c
  BY <1>1, <1>2, LowestIs
<1>4. j \in BitsOf(l) /\ j \in Nat /\ WordOf(j) = w /\ BitOf(j) = Lowest(l[w])
  BY <1>1, <1>2, <1>3, Split
<1> HIDE DEF j
<1>5. ASSUME NEW x \in BitsOf(l), v <= WordOf(x) PROVE j <= x
  <2>1. x \in Nat /\ WordOf(x) \in Busy(l) /\ WordOf(x) \in Nat
    BY <1>1
  <2>2. w <= WordOf(x)
    BY <1>5, <2>1 DEF IsNext
  <2>3. WordOf(x) = w => BitOf(j) <= BitOf(x)
    BY <1>1, <1>3, <1>4
  <2>4. /\ WordOf(j) < WordOf(x) => j < x
        /\ WordOf(j) = WordOf(x) => (j <= x <=> BitOf(j) <= BitOf(x))
    BY <1>4, <2>1, WordOrder
  <2> QED BY <1>2, <1>4, <2>1, <2>2, <2>3, <2>4
<1> QED BY <1>2, <1>4, <1>5 DEF FromWord, j

(* Words of l1 that are not zero, found from word k of l1 on.               *)
LEMMA AboveL1Finds ==
  ASSUME LevelsExact, NEW k \in 0 .. N1 - 1
  PROVE  /\ \A w : w \in BitsOf(l1) /\ k <= WordOf(w)
                     => \E x : FromWord(BitsOf(l1), k, x) /\ AboveL1(k) = ExpandUp(x)
         /\ (\A w \in BitsOf(l1) : ~ (k <= WordOf(w))) => AboveL1(k) = NPos
<1> DEFINE w2 == WordOf(k)
           m2 == FromBit(l2[w2], BitOf(k))
           A  == BusyAbove(w2)
           Up(y) == ExpandUp(Join(y, Lowest(l1[y])))
<1>1. /\ IsLevel(l1, N1) /\ IsLevel(l2, N2) /\ BitsOf(l2) = Busy(l1)
      /\ N1 \in Nat /\ N2 \in Nat /\ k \in Nat /\ w2 \in 0 .. N2 - 1 /\ w2 \in Nat
  BY LevelSizes, UpperWords DEF LevelsExact
<1>2. AboveL1(k) = IF m2 # {} THEN Up(Join(w2, Lowest(m2)))
                   ELSE IF A = {} THEN NPos
                   ELSE Up(Join(Lowest(A), Lowest(l2[Lowest(A)])))
  BY DEF AboveL1
<1>3. /\ m2 # {} => IsNext(BitsOf(l2), k, Join(w2, Lowest(m2)))
      /\ m2 = {} => \A x \in BitsOf(l2) : k <= x <=> w2 + 1 <= WordOf(x)
  BY <1>1, InWordUp
<1>4. \A x \in BitsOf(l1) : WordOf(x) \in Busy(l1)
  BY <1>1, LevelFacts
<1>5. \A y : IsNext(Busy(l1), k, y) => FromWord(BitsOf(l1), k, Join(y, Lowest(l1[y])))
  BY <1>1, ExpandFirst
<1>6. /\ \A x \in BitsOf(l2) : WordOf(x) \in Busy(l2) /\ WordOf(x) \in Nat
      /\ Busy(l2) \subseteq 0 .. N2 - 1
  BY <1>1, LevelFacts
<1>7. A = {x \in Busy(l2) : w2 + 1 <= x} /\ A \in SUBSET Nat
  <2>1. DOMAIN l2 = 0 .. N2 - 1
    BY <1>1 DEF IsLevel
  <2> QED BY <1>1, <2>1 DEF BusyAbove, Busy
<1> HIDE DEF w2, m2, A
<1>8. ASSUME m2 # {}
      PROVE  \E x : FromWord(BitsOf(l1), k, x) /\ AboveL1(k) = ExpandUp(x)
  <2>1. IsNext(Busy(l1), k, Join(w2, Lowest(m2)))
    BY <1>1, <1>3, <1>8
  <2>2. AboveL1(k) = Up(Join(w2, Lowest(m2)))
    BY <1>2, <1>8
  <2> QED BY <1>5, <2>1, <2>2
<1>9. ASSUME m2 = {}, A # {}
      PROVE  \E x : FromWord(BitsOf(l1), k, x) /\ AboveL1(k) = ExpandUp(x)
  <2> DEFINE t == Lowest(A)
             q == Join(t, Lowest(l2[t]))
  <2>1. t \in A /\ \A c \in A : t <= c
    BY <1>7, <1>9, LowestIs
  <2>2. IsNext(Busy(l2), w2 + 1, t)
    BY <1>7, <2>1 DEF IsNext
  <2>3. FromWord(BitsOf(l2), w2 + 1, q)
    BY <1>1, <2>2, ExpandFirst
  <2> HIDE DEF t
  <2>4. IsNext(Busy(l1), k, q)
    BY <1>1, <1>3, <1>9, <2>3 DEF IsNext, FromWord
  <2>5. AboveL1(k) = Up(q)
    BY <1>2, <1>9 DEF t
  <2> QED BY <1>5, <2>4, <2>5
<1>10. ASSUME m2 = {}, A = {}
       PROVE  AboveL1(k) = NPos /\ \A w \in BitsOf(l1) : ~ (k <= WordOf(w))
  <2>1. \A x \in BitsOf(l2) : ~ (w2 + 1 <= WordOf(x))
    BY <1>6, <1>7, <1>10
  <2> QED BY <1>1, <1>2, <1>3, <1>4, <1>10, <2>1
<1>11. \A x : FromWord(BitsOf(l1), k, x) => x \in BitsOf(l1) /\ k <= WordOf(x)
  BY DEF FromWord
<1> QED BY <1>8, <1>9, <1>10, <1>11

(* Words of l0 that are not zero, from word j on.                           *)
LEMMA AboveL0Finds ==
  ASSUME LevelsExact, NEW j \in 0 .. N0 - 1
  PROVE  /\ \A w : w \in Busy(l0) /\ j <= w
                     => \E x : IsNext(Busy(l0), j, x) /\ AboveL0(j) = ExpandUp(x)
         /\ (\A w \in Busy(l0) : ~ (j <= w)) => AboveL0(j) = NPos
<1> DEFINE w1 == WordOf(j)
           m1 == FromBit(l1[w1], BitOf(j))
<1>1. /\ IsLevel(l1, N1) /\ BitsOf(l1) = Busy(l0)
      /\ N0 \in Nat /\ N1 \in Nat /\ j \in Nat /\ w1 \in 0 .. N1 - 1 /\ w1 \in Nat
  BY LevelSizes, UpperWords DEF LevelsExact
<1>2. AboveL0(j) = IF m1 # {} THEN ExpandUp(Join(w1, Lowest(m1)))
                   ELSE IF w1 + 1 < N1 THEN AboveL1(w1 + 1) ELSE NPos
  BY DEF AboveL0
<1>3. /\ m1 # {} => IsNext(BitsOf(l1), j, Join(w1, Lowest(m1)))
      /\ m1 = {} => \A x \in BitsOf(l1) : j <= x <=> w1 + 1 <= WordOf(x)
  BY <1>1, InWordUp
<1>4. \A x \in BitsOf(l1) : WordOf(x) \in 0 .. N1 - 1
  BY <1>1, LevelFacts
<1> HIDE DEF w1, m1
<1>5. CASE m1 # {}
  BY <1>1, <1>2, <1>3, <1>5 DEF IsNext
<1>6. ASSUME m1 = {}, w1 + 1 < N1
      PROVE  /\ \A w : w \in Busy(l0) /\ j <= w
                         => \E x : IsNext(Busy(l0), j, x) /\ AboveL0(j) = ExpandUp(x)
             /\ (\A w \in Busy(l0) : ~ (j <= w)) => AboveL0(j) = NPos
  <2>1. w1 + 1 \in 0 .. N1 - 1
    BY <1>1, <1>6
  <2>2. /\ \A w : w \in BitsOf(l1) /\ w1 + 1 <= WordOf(w)
                    => \E x : FromWord(BitsOf(l1), w1 + 1, x) /\ AboveL1(w1 + 1) = ExpandUp(x)
        /\ (\A w \in BitsOf(l1) : ~ (w1 + 1 <= WordOf(w))) => AboveL1(w1 + 1) = NPos
    BY <2>1, AboveL1Finds
  <2>3. \A x : FromWord(BitsOf(l1), w1 + 1, x) => IsNext(BitsOf(l1), j, x)
    BY <1>3, <1>6 DEF FromWord, IsNext
  <2>4. AboveL0(j) = AboveL1(w1 + 1)
    BY <1>2, <1>6
  <2>5. ASSUME NEW w, w \in Busy(l0), j <= w
        PROVE  \E x : IsNext(Busy(l0), j, x) /\ AboveL0(j) = ExpandUp(x)
    <3>1. w \in BitsOf(l1) /\ w1 + 1 <= WordOf(w)
      BY <1>1, <1>3, <1>6, <2>5
    <3>2. PICK x : FromWord(BitsOf(l1), w1 + 1, x) /\ AboveL1(w1 + 1) = ExpandUp(x)
      BY <2>2, <3>1
    <3> QED BY <1>1, <2>3, <2>4, <3>2
  <2>6. ASSUME \A w \in Busy(l0) : ~ (j <= w) PROVE AboveL0(j) = NPos
    BY <1>1, <1>3, <1>6, <2>2, <2>4, <2>6
  <2> QED BY <2>5, <2>6
<1>7. ASSUME m1 = {}, ~ (w1 + 1 < N1)
      PROVE  AboveL0(j) = NPos /\ \A w \in Busy(l0) : ~ (j <= w)
  BY <1>1, <1>2, <1>3, <1>4, <1>7
<1> QED BY <1>5, <1>6, <1>7

(* The search returns the first occupied index from i on.                   *)
LEMMA SearchUpFinds ==
  ASSUME LevelsExact, NEW i \in Nat
  PROVE  SearchUp(i) = FindGe(BitsOf(l0), i)
<1> DEFINE S == BitsOf(l0)
           w0 == WordOf(i)
           m == FromBit(l0[w0], BitOf(i))
           r == SearchUp(i)
<1>1. /\ IsLevel(l0, N0) /\ S \subseteq 0 .. N - 1 /\ N \in Nat /\ N0 \in Nat
      /\ \A x \in S : x \in Nat /\ WordOf(x) \in Busy(l0) /\ WordOf(x) \in 0 .. N0 - 1
  BY LevelSizes, LevelFacts, SizeAssumption DEF LevelsExact
<1>2. \A j : IsNext(S, i, j) => FindGe(S, i) = j
  <2> SUFFICES ASSUME NEW j, IsNext(S, i, j) PROVE FindGe(S, i) = j
    OBVIOUS
  <2> DEFINE above == {y \in S : y >= i}
  <2> HIDE DEF S
  <2>1. j \in above /\ j \in Nat /\ \A y \in above : y \in Nat /\ j <= y
    BY <1>1 DEF IsNext
  <2>2. \A y \in above : (\A x \in above : y <= x) => y = j
    BY <2>1
  <2>3. (CHOOSE y \in above : \A x \in above : y <= x) = j
    <3> HIDE DEF above
    <3> QED BY <2>1, <2>2
  <2> QED BY <2>1, <2>3 DEF FindGe
<1>3. (\A x \in S : ~ (i <= x)) => FindGe(S, i) = NPos
  <2> HIDE DEF S
  <2>1. (\A x \in S : ~ (i <= x)) => {y \in S : y >= i} = {}
    BY <1>1
  <2> QED BY <2>1 DEF FindGe
<1>4. ASSUME i >= N PROVE SearchUp(i) = FindGe(S, i)
  <2>1. \A x \in S : ~ (i <= x)
    BY <1>1, <1>4
  <2> QED BY <1>3, <1>4, <2>1 DEF SearchUp
<1>5. ASSUME ~ (i >= N) PROVE SearchUp(i) = FindGe(S, i)
  <2>1. i \in 0 .. N - 1
    BY <1>1, <1>5
  <2>2. w0 \in 0 .. N0 - 1 /\ w0 \in Nat
    BY <2>1, LadderWords
  <2>3. SearchUp(i) = IF m # {} THEN Join(w0, Lowest(m))
                      ELSE IF w0 + 1 < N0 THEN AboveL0(w0 + 1) ELSE NPos
    BY <1>5 DEF SearchUp
  <2>4. /\ m # {} => IsNext(S, i, Join(w0, Lowest(m)))
        /\ m = {} => \A x \in S : i <= x <=> w0 + 1 <= WordOf(x)
    BY <1>1, <2>2, InWordUp
  <2> HIDE DEF S, w0, m
  <2>5. CASE m # {}
    BY <1>2, <2>3, <2>4, <2>5
  <2>6. ASSUME m = {}, ~ (w0 + 1 < N0) PROVE SearchUp(i) = FindGe(S, i)
    <3>1. \A x \in S : ~ (i <= x)
      BY <1>1, <2>2, <2>4, <2>6
    <3> QED BY <1>3, <2>3, <2>6, <3>1
  <2>7. ASSUME m = {}, w0 + 1 < N0 PROVE SearchUp(i) = FindGe(S, i)
    <3>1. w0 + 1 \in 0 .. N0 - 1 /\ w0 + 1 \in Nat
      BY <1>1, <2>2, <2>7
    <3>2. /\ \A w : w \in Busy(l0) /\ w0 + 1 <= w
                      => \E x : IsNext(Busy(l0), w0 + 1, x) /\ AboveL0(w0 + 1) = ExpandUp(x)
          /\ (\A w \in Busy(l0) : ~ (w0 + 1 <= w)) => AboveL0(w0 + 1) = NPos
      BY <3>1, AboveL0Finds
    <3>3. \A w : IsNext(Busy(l0), w0 + 1, w) => FromWord(S, w0 + 1, ExpandUp(w))
      BY <1>1, <3>1, ExpandFirst DEF ExpandUp, S
    <3>4. \A y : FromWord(S, w0 + 1, y) => IsNext(S, i, y)
      BY <2>4, <2>7 DEF FromWord, IsNext
    <3>5. SearchUp(i) = AboveL0(w0 + 1)
      BY <2>3, <2>7
    <3>6. ASSUME NEW w \in Busy(l0), w0 + 1 <= w PROVE SearchUp(i) = FindGe(S, i)
      <4>1. PICK x : IsNext(Busy(l0), w0 + 1, x) /\ AboveL0(w0 + 1) = ExpandUp(x)
        BY <3>2, <3>6
      <4> QED BY <1>2, <3>3, <3>4, <3>5, <4>1
    <3>7. ASSUME \A w \in Busy(l0) : ~ (w0 + 1 <= w) PROVE SearchUp(i) = FindGe(S, i)
      <4>1. \A x \in S : ~ (i <= x)
        BY <1>1, <2>4, <2>7, <3>7
      <4> QED BY <1>3, <3>2, <3>5, <3>7, <4>1
    <3> QED BY <3>6, <3>7
  <2> QED BY <2>5, <2>6, <2>7
<1> QED BY <1>4, <1>5
-------------------------------------------------------------------------------
(* find_le().                                                               *)

(* j is the last member of S up to i, or up to word v.                      *)
IsPrev(S, i, j) == j \in S /\ j <= i /\ \A x \in S : x <= i => x <= j
ToWord(S, v, j) == j \in S /\ WordOf(j) <= v /\ \A x \in S : WordOf(x) <= v => x <= j

(* msb64 of a word, and the last of a set of words.                          *)
LEMMA HighestIs ==
  ASSUME NEW n \in Nat, NEW m \in SUBSET (0 .. n), m # {}
  PROVE  Highest(m) \in m /\ \A c \in m : Highest(m) >= c
<1>1. \E b \in m : \A c \in m : b >= c
  BY GreatestExists
<1> QED BY <1>1 DEF Highest

(* The highest bit of a word.                                                *)
LEMMA HighestBit ==
  ASSUME NEW m, \A c \in m : c \in Bit, m # {}
  PROVE  Highest(m) \in m /\ \A c \in m : c <= Highest(m)
<1>1. m \in SUBSET (0 .. W - 1) /\ W - 1 \in Nat
  BY SizeAssumption DEF Bit
<1>2. Highest(m) \in m /\ \A c \in m : Highest(m) >= c
  BY <1>1, HighestIs
<1> QED BY <1>1, <1>2

(* The front of a word holds the answer, or it is in an earlier word.       *)
LEMMA InWordDown ==
  ASSUME NEW n \in Nat, NEW l, IsLevel(l, n), NEW k \in Nat, WordOf(k) \in 0 .. n - 1
  PROVE  LET m == UpToBit(l[WordOf(k)], BitOf(k))
         IN /\ m # {} => IsPrev(BitsOf(l), k, Join(WordOf(k), Highest(m)))
            /\ m = {} => \A x \in BitsOf(l) : x <= k <=> WordOf(x) <= WordOf(k) - 1
<1> DEFINE w == WordOf(k)
           b == BitOf(k)
           m == UpToBit(l[w], b)
<1>0. \A c \in Bit : c \in Nat
  BY SizeAssumption DEF Bit
<1>1. /\ DOMAIN l = 0 .. n - 1
      /\ \A v \in DOMAIN l : v \in Nat /\ l[v] \in SUBSET Nat /\ \A c \in l[v] : c \in Bit
      /\ \A v \in DOMAIN l, c \in Bit : Join(v, c) \in BitsOf(l) <=> c \in l[v]
      /\ \A x \in BitsOf(l) : x \in Nat /\ WordOf(x) \in DOMAIN l /\ BitOf(x) \in l[WordOf(x)]
  BY LevelFacts
<1>2. w \in DOMAIN l /\ w \in Nat /\ b \in Nat
  BY <1>0, <1>1, Split
<1>3. \A c \in m : c \in l[w] /\ c <= b /\ c \in Bit /\ c \in Nat
  BY <1>0, <1>1, <1>2 DEF UpToBit
<1>4. \A x \in BitsOf(l) : WordOf(x) = w /\ x <= k => BitOf(x) \in m
  <2>1. \A x \in Nat : WordOf(x) = w /\ x <= k => BitOf(x) <= b
    BY WordOrder
  <2> QED BY <1>1, <1>2, <2>1 DEF UpToBit
<1>5. \A x \in BitsOf(l) : x <= k => WordOf(x) <= w
  BY <1>1, WordOrder
<1> HIDE DEF m
<1>6. ASSUME m # {} PROVE IsPrev(BitsOf(l), k, Join(w, Highest(m)))
  <2> DEFINE j == Join(w, Highest(m))
  <2>1. Highest(m) \in m /\ \A c \in m : c <= Highest(m)
    BY <1>3, <1>6, HighestBit
  <2>2. j \in BitsOf(l) /\ j \in Nat /\ WordOf(j) = w /\ BitOf(j) = Highest(m)
    BY <1>1, <1>2, <1>3, <2>1, Split
  <2>3. j <= k
    BY <1>2, <1>3, <2>1, <2>2, WordOrder
  <2> HIDE DEF j
  <2>4. ASSUME NEW x \in BitsOf(l), x <= k PROVE x <= j
    <3>1. x \in Nat /\ WordOf(x) <= w /\ WordOf(x) \in Nat
      BY <1>1, <1>5, <2>4
    <3>2. WordOf(x) = w => BitOf(x) <= BitOf(j)
      BY <1>4, <2>1, <2>2, <2>4
    <3>3. WordOf(x) < WordOf(j) => x < j
      BY <2>2, <3>1, WordOrder
    <3>4. WordOf(x) = WordOf(j) => (x <= j <=> BitOf(x) <= BitOf(j))
      BY <2>2, <3>1, WordOrder
    <3> QED BY <1>2, <2>2, <3>1, <3>2, <3>3, <3>4
  <2> QED BY <2>2, <2>3, <2>4 DEF IsPrev, j
<1>7. ASSUME m = {} PROVE \A x \in BitsOf(l) : x <= k <=> WordOf(x) <= w - 1
  <2> SUFFICES ASSUME NEW x \in BitsOf(l) PROVE x <= k <=> WordOf(x) <= w - 1
    OBVIOUS
  <2>1. x \in Nat /\ WordOf(x) \in Nat
    BY <1>1
  <2>2. x <= k => WordOf(x) <= w /\ WordOf(x) # w
    BY <1>4, <1>5, <1>7
  <2>3. WordOf(x) < w => x < k
    BY <2>1, WordOrder
  <2> QED BY <1>2, <2>1, <2>2, <2>3
<1> QED BY <1>6, <1>7 DEF m

(* The highest bit of the last nonzero word.                                *)
LEMMA ExpandLast ==
  ASSUME NEW n \in Nat, NEW l, IsLevel(l, n), NEW v \in Int, NEW w, IsPrev(Busy(l), v, w)
  PROVE  ToWord(BitsOf(l), v, Join(w, Highest(l[w])))
<1> DEFINE j == Join(w, Highest(l[w]))
<1>1. /\ \A q \in DOMAIN l : q \in Nat /\ l[q] \in SUBSET Nat /\ \A c \in l[q] : c \in Bit
      /\ \A q \in DOMAIN l, c \in Bit : Join(q, c) \in BitsOf(l) <=> c \in l[q]
      /\ \A x \in BitsOf(l) : /\ x \in Nat /\ WordOf(x) \in DOMAIN l /\ BitOf(x) \in l[WordOf(x)]
                              /\ WordOf(x) \in Busy(l)
  BY LevelFacts
<1>2. w \in DOMAIN l /\ w \in Nat /\ l[w] # {} /\ w <= v
  BY <1>1 DEF IsPrev, Busy
<1>3. Highest(l[w]) \in l[w] /\ \A c \in l[w] : c <= Highest(l[w])
  BY <1>1, <1>2, HighestBit
<1>4. j \in BitsOf(l) /\ j \in Nat /\ WordOf(j) = w /\ BitOf(j) = Highest(l[w])
  BY <1>1, <1>2, <1>3, Split
<1> HIDE DEF j
<1>5. ASSUME NEW x \in BitsOf(l), WordOf(x) <= v PROVE x <= j
  <2>1. x \in Nat /\ WordOf(x) \in Busy(l) /\ WordOf(x) \in Nat
    BY <1>1
  <2>2. WordOf(x) <= w
    BY <1>5, <2>1 DEF IsPrev
  <2>3. WordOf(x) = w => BitOf(x) <= BitOf(j)
    BY <1>1, <1>3, <1>4
  <2>4. /\ WordOf(x) < WordOf(j) => x < j
        /\ WordOf(x) = WordOf(j) => (x <= j <=> BitOf(x) <= BitOf(j))
    BY <1>4, <2>1, WordOrder
  <2> QED BY <1>2, <1>4, <2>1, <2>2, <2>3, <2>4
<1> QED BY <1>2, <1>4, <1>5 DEF ToWord, j

(* Words of l1 that are not zero, found from word k of l1 down.             *)
LEMMA BelowL1Finds ==
  ASSUME LevelsExact, NEW k \in 0 .. N1 - 1
  PROVE  /\ \A w : w \in BitsOf(l1) /\ WordOf(w) <= k
                     => \E x : ToWord(BitsOf(l1), k, x) /\ BelowL1(k) = ExpandDown(x)
         /\ (\A w \in BitsOf(l1) : ~ (WordOf(w) <= k)) => BelowL1(k) = NPos
<1> DEFINE w2 == WordOf(k)
           m2 == UpToBit(l2[w2], BitOf(k))
           A  == BusyBelow(w2)
           Down(y) == ExpandDown(Join(y, Highest(l1[y])))
<1>1. /\ IsLevel(l1, N1) /\ IsLevel(l2, N2) /\ BitsOf(l2) = Busy(l1)
      /\ N1 \in Nat /\ N2 \in Nat /\ k \in Nat /\ w2 \in 0 .. N2 - 1 /\ w2 \in Nat
  BY LevelSizes, UpperWords DEF LevelsExact
<1>2. BelowL1(k) = IF m2 # {} THEN Down(Join(w2, Highest(m2)))
                   ELSE IF A = {} THEN NPos
                   ELSE Down(Join(Highest(A), Highest(l2[Highest(A)])))
  BY DEF BelowL1
<1>3. /\ m2 # {} => IsPrev(BitsOf(l2), k, Join(w2, Highest(m2)))
      /\ m2 = {} => \A x \in BitsOf(l2) : x <= k <=> WordOf(x) <= w2 - 1
  BY <1>1, InWordDown
<1>4. \A x \in BitsOf(l1) : WordOf(x) \in Busy(l1)
  BY <1>1, LevelFacts
<1>5. \A y : IsPrev(Busy(l1), k, y) => ToWord(BitsOf(l1), k, Join(y, Highest(l1[y])))
  BY <1>1, ExpandLast
<1>6. /\ \A x \in BitsOf(l2) : WordOf(x) \in Busy(l2) /\ WordOf(x) \in Nat
      /\ Busy(l2) \subseteq 0 .. N2 - 1
  BY <1>1, LevelFacts
<1>7. A = {x \in Busy(l2) : x <= w2 - 1} /\ A \in SUBSET (0 .. N2)
  <2>1. DOMAIN l2 = 0 .. N2 - 1
    BY <1>1 DEF IsLevel
  <2> QED BY <1>1, <2>1 DEF BusyBelow, Busy
<1> HIDE DEF w2, m2, A
<1>8. ASSUME m2 # {}
      PROVE  \E x : ToWord(BitsOf(l1), k, x) /\ BelowL1(k) = ExpandDown(x)
  <2>1. IsPrev(Busy(l1), k, Join(w2, Highest(m2)))
    BY <1>1, <1>3, <1>8
  <2>2. BelowL1(k) = Down(Join(w2, Highest(m2)))
    BY <1>2, <1>8
  <2> QED BY <1>5, <2>1, <2>2
<1>9. ASSUME m2 = {}, A # {}
      PROVE  \E x : ToWord(BitsOf(l1), k, x) /\ BelowL1(k) = ExpandDown(x)
  <2> DEFINE t == Highest(A)
             q == Join(t, Highest(l2[t]))
  <2>1. t \in A /\ \A c \in A : t >= c
    BY <1>1, <1>7, <1>9, HighestIs
  <2>2. IsPrev(Busy(l2), w2 - 1, t)
    <3>1. \A c \in A : c \in Nat
      BY <1>1, <1>7
    <3> HIDE DEF t
    <3> QED BY <1>7, <2>1, <3>1 DEF IsPrev
  <2>3. ToWord(BitsOf(l2), w2 - 1, q)
    <3>1. w2 - 1 \in Int
      BY <1>1
    <3> QED BY <1>1, <2>2, <3>1, ExpandLast
  <2> HIDE DEF t
  <2>4. IsPrev(Busy(l1), k, q)
    BY <1>1, <1>3, <1>9, <2>3 DEF IsPrev, ToWord
  <2>5. BelowL1(k) = Down(q)
    BY <1>2, <1>9 DEF t
  <2> QED BY <1>5, <2>4, <2>5
<1>10. ASSUME m2 = {}, A = {}
       PROVE  BelowL1(k) = NPos /\ \A w \in BitsOf(l1) : ~ (WordOf(w) <= k)
  <2>1. \A x \in BitsOf(l2) : ~ (WordOf(x) <= w2 - 1)
    BY <1>6, <1>7, <1>10
  <2> QED BY <1>1, <1>2, <1>3, <1>4, <1>10, <2>1
<1>11. \A x : ToWord(BitsOf(l1), k, x) => x \in BitsOf(l1) /\ WordOf(x) <= k
  BY DEF ToWord
<1> QED BY <1>8, <1>9, <1>10, <1>11

(* Words of l0 that are not zero, from word j down.                         *)
LEMMA BelowL0Finds ==
  ASSUME LevelsExact, NEW j \in 0 .. N0 - 1
  PROVE  /\ \A w : w \in Busy(l0) /\ w <= j
                     => \E x : IsPrev(Busy(l0), j, x) /\ BelowL0(j) = ExpandDown(x)
         /\ (\A w \in Busy(l0) : ~ (w <= j)) => BelowL0(j) = NPos
<1> DEFINE w1 == WordOf(j)
           m1 == UpToBit(l1[w1], BitOf(j))
<1>1. /\ IsLevel(l1, N1) /\ BitsOf(l1) = Busy(l0)
      /\ N0 \in Nat /\ N1 \in Nat /\ j \in Nat /\ w1 \in 0 .. N1 - 1 /\ w1 \in Nat
  BY LevelSizes, UpperWords DEF LevelsExact
<1>2. BelowL0(j) = IF m1 # {} THEN ExpandDown(Join(w1, Highest(m1)))
                   ELSE IF w1 = 0 THEN NPos ELSE BelowL1(w1 - 1)
  BY DEF BelowL0
<1>3. /\ m1 # {} => IsPrev(BitsOf(l1), j, Join(w1, Highest(m1)))
      /\ m1 = {} => \A x \in BitsOf(l1) : x <= j <=> WordOf(x) <= w1 - 1
  BY <1>1, InWordDown
<1>4. \A x \in BitsOf(l1) : WordOf(x) \in 0 .. N1 - 1
  BY <1>1, LevelFacts
<1> HIDE DEF w1, m1
<1>5. CASE m1 # {}
  BY <1>1, <1>2, <1>3, <1>5 DEF IsPrev
<1>6. ASSUME m1 = {}, w1 # 0
      PROVE  /\ \A w : w \in Busy(l0) /\ w <= j
                         => \E x : IsPrev(Busy(l0), j, x) /\ BelowL0(j) = ExpandDown(x)
             /\ (\A w \in Busy(l0) : ~ (w <= j)) => BelowL0(j) = NPos
  <2>1. w1 - 1 \in 0 .. N1 - 1
    BY <1>1, <1>6
  <2>2. /\ \A w : w \in BitsOf(l1) /\ WordOf(w) <= w1 - 1
                    => \E x : ToWord(BitsOf(l1), w1 - 1, x) /\ BelowL1(w1 - 1) = ExpandDown(x)
        /\ (\A w \in BitsOf(l1) : ~ (WordOf(w) <= w1 - 1)) => BelowL1(w1 - 1) = NPos
    BY <2>1, BelowL1Finds
  <2>3. \A x : ToWord(BitsOf(l1), w1 - 1, x) => IsPrev(BitsOf(l1), j, x)
    BY <1>3, <1>6 DEF ToWord, IsPrev
  <2>4. BelowL0(j) = BelowL1(w1 - 1)
    BY <1>2, <1>6
  <2>5. ASSUME NEW w, w \in Busy(l0), w <= j
        PROVE  \E x : IsPrev(Busy(l0), j, x) /\ BelowL0(j) = ExpandDown(x)
    <3>1. w \in BitsOf(l1) /\ WordOf(w) <= w1 - 1
      BY <1>1, <1>3, <1>6, <2>5
    <3>2. PICK x : ToWord(BitsOf(l1), w1 - 1, x) /\ BelowL1(w1 - 1) = ExpandDown(x)
      BY <2>2, <3>1
    <3> QED BY <1>1, <2>3, <2>4, <3>2
  <2>6. ASSUME \A w \in Busy(l0) : ~ (w <= j) PROVE BelowL0(j) = NPos
    BY <1>1, <1>3, <1>6, <2>2, <2>4, <2>6
  <2> QED BY <2>5, <2>6
<1>7. ASSUME m1 = {}, w1 = 0
      PROVE  BelowL0(j) = NPos /\ \A w \in Busy(l0) : ~ (w <= j)
  BY <1>1, <1>2, <1>3, <1>4, <1>7
<1> QED BY <1>5, <1>6, <1>7

(* The search returns the last occupied index up to i.                      *)
LEMMA SearchDownFinds ==
  ASSUME LevelsExact, NEW i0 \in Nat
  PROVE  SearchDown(i0) = FindLe(BitsOf(l0), i0)
<1> DEFINE S == BitsOf(l0)
           i == IF i0 >= N THEN N - 1 ELSE i0
           w0 == WordOf(i)
           m == UpToBit(l0[w0], BitOf(i))
<1>1. /\ IsLevel(l0, N0) /\ S \subseteq 0 .. N - 1 /\ N \in Nat /\ N0 \in Nat
      /\ \A x \in S : x \in Nat /\ WordOf(x) \in Busy(l0) /\ WordOf(x) \in 0 .. N0 - 1
  BY LevelSizes, LevelFacts, SizeAssumption DEF LevelsExact
<1>2. \A x \in S : x <= i <=> x <= i0
  BY <1>1
<1>3. \A j : IsPrev(S, i, j) => FindLe(S, i0) = j
  <2> SUFFICES ASSUME NEW j, IsPrev(S, i, j) PROVE FindLe(S, i0) = j
    OBVIOUS
  <2> DEFINE below == {y \in S : y <= i0}
  <2> HIDE DEF S, i
  <2>1. j \in below /\ j \in Nat /\ \A y \in below : y \in Nat /\ j >= y
    BY <1>1, <1>2 DEF IsPrev
  <2>2. \A y \in below : (\A x \in below : y >= x) => y = j
    BY <2>1
  <2>3. (CHOOSE y \in below : \A x \in below : y >= x) = j
    <3> HIDE DEF below
    <3> QED BY <2>1, <2>2
  <2> QED BY <2>1, <2>3 DEF FindLe
<1>4. (\A x \in S : ~ (x <= i)) => FindLe(S, i0) = NPos
  <2> HIDE DEF S, i
  <2>1. (\A x \in S : ~ (x <= i)) => {y \in S : y <= i0} = {}
    BY <1>2
  <2> QED BY <2>1 DEF FindLe
<1>5. ASSUME N = 0 PROVE SearchDown(i0) = FindLe(S, i0)
  <2>1. \A x \in S : FALSE
    BY <1>1, <1>5
  <2> QED BY <1>4, <1>5, <2>1 DEF SearchDown
<1>6. ASSUME N # 0 PROVE SearchDown(i0) = FindLe(S, i0)
  <2>1. i \in 0 .. N - 1
    BY <1>1, <1>6
  <2>2. SearchDown(i0) = IF m # {} THEN Join(w0, Highest(m))
                         ELSE IF w0 = 0 THEN NPos ELSE BelowL0(w0 - 1)
    BY <1>6 DEF SearchDown
  <2> HIDE DEF i
  <2>3. w0 \in 0 .. N0 - 1 /\ w0 \in Nat /\ i \in Nat
    BY <2>1, LadderWords
  <2>4. /\ m # {} => IsPrev(S, i, Join(w0, Highest(m)))
        /\ m = {} => \A x \in S : x <= i <=> WordOf(x) <= w0 - 1
    BY <1>1, <2>3, InWordDown
  <2> HIDE DEF S, w0, m
  <2>5. CASE m # {}
    BY <1>3, <2>2, <2>4, <2>5
  <2>6. ASSUME m = {}, w0 = 0 PROVE SearchDown(i0) = FindLe(S, i0)
    <3>1. \A x \in S : ~ (x <= i)
      BY <1>1, <2>4, <2>6
    <3> QED BY <1>4, <2>2, <2>6, <3>1
  <2>7. ASSUME m = {}, w0 # 0 PROVE SearchDown(i0) = FindLe(S, i0)
    <3>1. w0 - 1 \in 0 .. N0 - 1 /\ w0 - 1 \in Int
      BY <1>1, <2>3, <2>7
    <3>2. /\ \A w : w \in Busy(l0) /\ w <= w0 - 1
                      => \E x : IsPrev(Busy(l0), w0 - 1, x) /\ BelowL0(w0 - 1) = ExpandDown(x)
          /\ (\A w \in Busy(l0) : ~ (w <= w0 - 1)) => BelowL0(w0 - 1) = NPos
      BY <3>1, BelowL0Finds
    <3>3. \A w : IsPrev(Busy(l0), w0 - 1, w) => ToWord(S, w0 - 1, ExpandDown(w))
      BY <1>1, <3>1, ExpandLast DEF ExpandDown, S
    <3>4. \A y : ToWord(S, w0 - 1, y) => IsPrev(S, i, y)
      BY <2>4, <2>7 DEF ToWord, IsPrev
    <3>5. SearchDown(i0) = BelowL0(w0 - 1)
      BY <2>2, <2>7
    <3>6. ASSUME NEW w \in Busy(l0), w <= w0 - 1 PROVE SearchDown(i0) = FindLe(S, i0)
      <4>1. PICK x : IsPrev(Busy(l0), w0 - 1, x) /\ BelowL0(w0 - 1) = ExpandDown(x)
        BY <3>2, <3>6
      <4> QED BY <1>3, <3>3, <3>4, <3>5, <4>1
    <3>7. ASSUME \A w \in Busy(l0) : ~ (w <= w0 - 1) PROVE SearchDown(i0) = FindLe(S, i0)
      <4>1. \A x \in S : ~ (x <= i)
        BY <1>1, <2>4, <2>7, <3>7
      <4> QED BY <1>4, <3>2, <3>5, <3>7, <4>1
    <3> QED BY <3>6, <3>7
  <2> QED BY <2>5, <2>6, <2>7
<1> QED BY <1>5, <1>6
-------------------------------------------------------------------------------
(* What follows.                                                            *)

(* Every word of every level holds bits of a word only.                     *)
THEOREM LadderTypeCorrect == Spec => []TypeOK
<1>1. LevelsExact => TypeOK
  BY DEF LevelsExact, IsLevel, TypeOK
<1> QED BY <1>1, LevelsInvariant, PTL

(* set() and clear() keep both summaries exact: a summary bit is 1 exactly  *)
(* if the word it stands for is not zero, and no bit beyond the ladder is   *)
(* ever 1; for every size of ladder and every word width.                   *)
THEOREM SummariesCorrect == Spec => []SummariesExact
<1>1. ASSUME NEW n \in Nat, NEW u, NEW p \in Nat, NEW l, IsLevel(u, p), IsLevel(l, n),
             BitsOf(u) = Busy(l)
      PROVE  Summarises(u, n, l)
  <2> SUFFICES ASSUME NEW w \in DOMAIN u, NEW b \in Bit
               PROVE  b \in u[w] <=> (Join(w, b) < n /\ l[Join(w, b)] # {})
    BY DEF Summarises
  <2>1. b \in u[w] <=> Join(w, b) \in BitsOf(u)
    BY <1>1, LevelFacts
  <2>2. w \in Nat
    BY <1>1, LevelFacts
  <2>3. Join(w, b) \in Nat
    BY <2>2, Split
  <2>4. DOMAIN l = 0 .. n - 1
    BY <1>1 DEF IsLevel
  <2>5. Join(w, b) \in Busy(l) <=> (Join(w, b) < n /\ l[Join(w, b)] # {})
    BY <2>3, <2>4 DEF Busy
  <2> QED BY <1>1, <2>1, <2>5
<1>2. ASSUME LevelsExact PROVE SummariesExact
  <2>1. Summarises(l1, N0, l0) /\ Summarises(l2, N1, l1)
    BY <1>1, <1>2, LevelSizes DEF LevelsExact
  <2>2. ASSUME NEW w \in DOMAIN l0, NEW b \in l0[w] PROVE Join(w, b) < N
    <3>1. IsLevel(l0, N0) /\ N0 \in Nat /\ N \in Nat /\ BitsOf(l0) \subseteq 0 .. N - 1
      BY <1>2, LevelSizes, SizeAssumption DEF LevelsExact
    <3>2. b \in Bit
      BY <3>1, LevelFacts
    <3>3. Join(w, b) \in BitsOf(l0)
      BY <3>1, <3>2, LevelFacts
    <3> QED BY <3>1, <3>3
  <2> QED BY <2>1, <2>2 DEF SummariesExact
<1> QED BY <1>2, LevelsInvariant, PTL

(* find_ge() and find_le() return the nearest occupied index from every     *)
(* index, and empty(), first() and last() agree with them.                  *)
THEOREM SearchCorrect == Spec => []SearchExact
<1>1. ASSUME LevelsExact PROVE SearchExact
  <2>1. /\ IsLevel(l0, N0) /\ IsLevel(l1, N1) /\ IsLevel(l2, N2)
        /\ N \in Nat /\ W \in Nat /\ N0 \in Nat /\ N1 \in Nat /\ N2 \in Nat
        /\ BitsOf(l0) \subseteq 0 .. N - 1
        /\ BitsOf(l1) = Busy(l0) /\ BitsOf(l2) = Busy(l1)
    BY <1>1, LevelSizes, SizeAssumption DEF LevelsExact
  <2>2. Occupied = BitsOf(l0)
    <3>1. \A i \in 0 .. N - 1 : i \in Nat /\ WordOf(i) \in DOMAIN l0
      BY <2>1, LadderWords DEF IsLevel
    <3> QED BY <2>1, <3>1 DEF Occupied, Test, BitsOf
  <2>3. \A i \in Nat : SearchUp(i) = FindGe(Occupied, i) /\ SearchDown(i) = FindLe(Occupied, i)
    BY <1>1, <2>2, SearchUpFinds, SearchDownFinds
  <2>4. IsEmpty <=> Occupied = {}
    <3>1. \A n \in Nat : \A l : IsLevel(l, n) => (BitsOf(l) = {} <=> Busy(l) = {})
      <4> SUFFICES ASSUME NEW n \in Nat, NEW l, IsLevel(l, n)
                   PROVE  BitsOf(l) = {} <=> Busy(l) = {}
        OBVIOUS
      <4>1. \A x \in BitsOf(l) : WordOf(x) \in Busy(l)
        BY LevelFacts
      <4>2. \A w \in Busy(l) : \E b \in l[w] : Join(w, b) \in BitsOf(l)
        BY LevelFacts DEF Busy
      <4> QED BY <4>1, <4>2
    <3>2. IsEmpty <=> Busy(l2) = {}
      BY <2>1 DEF IsEmpty, Busy, IsLevel
    <3> QED BY <2>1, <2>2, <3>1, <3>2
  <2>5. FirstSet = FindGe(Occupied, 0)
    BY <2>3 DEF FirstSet
  <2>6. LastSet = FindLe(Occupied, N - 1)
    <3>1. CASE N = 0
      <4>1. Occupied = {}
        BY <2>1, <2>2, <3>1
      <4> QED BY <3>1, <4>1 DEF LastSet, FindLe
    <3>2. CASE N # 0
      BY <2>1, <2>3, <3>2 DEF LastSet
    <3> QED BY <3>1, <3>2
  <2>7. \A i \in 0 .. N + W : i \in Nat
    BY <2>1
  <2> QED BY <2>3, <2>4, <2>5, <2>6, <2>7 DEF SearchExact
<1> QED BY <1>1, LevelsInvariant, PTL
===============================================================================
