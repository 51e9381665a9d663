----------------------------- MODULE MapBookProofs -----------------------------
(***************************************************************************)
(* Proofs about the baseline book, for every set of prices and quantities: *)
(* its index names exactly the resting orders, its levels are queues in    *)
(* arrival order, the sides do not cross (the inductive invariant is       *)
(* BookSound), and it implements the price-time priority book (with        *)
(* HistorySound about what the refinement remembers).                      *)
(***************************************************************************)
EXTENDS MapBookRefinement, CommonLemmas, SequenceTheorems

(* The number the next order to rest has at least: ids below it are used.   *)
Fresh == IF call.active THEN call.id ELSE nextId

Members(lv) == {lv[k] : k \in DOMAIN lv}
Ids(lv)     == {lv[k].id : k \in DOMAIN lv}

(* A queue of orders older than number n, of one side and price.            *)
IsQueue(lv, d, p, n) ==
  /\ lv \in Seq(MOrder)
  /\ \A k \in DOMAIN lv : lv[k].side = d /\ lv[k].price = p /\ lv[k].id < n
  /\ \A j, k \in DOMAIN lv : j < k => lv[j].id < lv[k].id

IsMap(L, n) ==
  /\ DOMAIN L = Side
  /\ \A d \in Side : /\ DOMAIN L[d] \subseteq Prices /\ IsFiniteSet(DOMAIN L[d])
                     /\ \A p \in DOMAIN L[d] : L[d][p] # << >> /\ IsQueue(L[d][p], d, p, n)

(* Index X names each order of the lists L, at its place, and no other.     *)
Indexes(X, L) ==
  /\ \A d \in Side : \A p \in DOMAIN L[d] : \A id \in Ids(L[d][p]) :
       id \in DOMAIN X /\ X[id] = [side |-> d, price |-> p]
  /\ \A id \in DOMAIN X : /\ X[id] \in Handle
                          /\ X[id].price \in DOMAIN L[X[id].side]
                          /\ id \in Ids(L[X[id].side][X[id].price])

Apart(L) == \A p \in DOMAIN L["Buy"], q \in DOMAIN L["Sell"] : p < q

CallType ==
  [active : BOOLEAN, market : BOOLEAN, side : Side, price : Int, qty : Nat, id : Nat,
   remaining : Nat, notional : Int]

(* The call under way is that of the youngest id.                           *)
CallSound ==
  /\ call \in CallType
  /\ call.remaining <= call.qty
  /\ call.active => /\ call.qty > 0 /\ (~ call.market => call.price \in Prices)
                    /\ call.id \in 1 .. MaxIds /\ call.id = nextId - 1

(* The inductive invariant.  The sides are apart while orders match, too.   *)
BookSound ==
  /\ nextId \in 1 .. MaxIds + 1 /\ tradeSeq \in Nat \ {0} /\ result.status \in Status
  /\ CallSound
  /\ IsMap(levels, Fresh)
  /\ Indexes(index, levels)
  /\ Apart(levels)
-------------------------------------------------------------------------------
(* The best price.                                                          *)

(* A finite set of integers that is not empty has a first member in either  *)
(* order.                                                                   *)
LEMMA FirstExists ==
  ASSUME NEW S \in SUBSET Int, IsFiniteSet(S), NEW d \in Side, S # {}
  PROVE  \E p \in S : \A q \in S \ {p} : Ahead(d, p, q)
<1> DEFINE Has(T) == \E p \in T : \A q \in T \ {p} : Ahead(d, p, q)
           G == {T \in SUBSET S : T = {} \/ Has(T)}
<1>1. {} \in G
  OBVIOUS
<1>2. ASSUME NEW T \in SUBSET S, T # {}, \A x \in T : T \ {x} \in G PROVE T \in G
  <2>1. PICK x \in T : TRUE
    BY <1>2
  <2>2. CASE T \ {x} = {}
    BY <2>1, <2>2
  <2>3. CASE Has(T \ {x})
    <3>1. PICK p \in T \ {x} : \A q \in (T \ {x}) \ {p} : Ahead(d, p, q)
      BY <2>3
    <3>2. x \in Int /\ p \in Int /\ x # p
      OBVIOUS
    <3>3. CASE Ahead(d, p, x)
      BY <3>1, <3>3
    <3>4. CASE Ahead(d, x, p)
      <4>1. \A q \in T \ {x} : Ahead(d, x, q)
        BY <3>1, <3>2, <3>4 DEF Ahead
      <4> QED BY <4>1, <2>1
    <3> QED BY <3>2, <3>3, <3>4 DEF Ahead
  <2> QED BY <1>2, <2>1, <2>2, <2>3
<1> HIDE DEF G
<1>3. SUBSET S \subseteq G
  BY <1>1, <1>2, SubsetsGood
<1> QED BY <1>3 DEF G

LEMMA BestIsFirst ==
  ASSUME NEW n, IsMap(levels, n), NEW d \in Side, DOMAIN levels[d] # {}
  PROVE  /\ BestPrice(d) \in DOMAIN levels[d]
         /\ \A q \in DOMAIN levels[d] \ {BestPrice(d)} : Ahead(d, BestPrice(d), q)
<1>1. DOMAIN levels[d] \in SUBSET Int /\ IsFiniteSet(DOMAIN levels[d])
  BY StreamAssumption DEF IsMap
<1>2. \E p \in DOMAIN levels[d] : \A q \in DOMAIN levels[d] \ {p} : Ahead(d, p, q)
  BY <1>1, FirstExists
<1> QED BY <1>2 DEF BestPrice
-------------------------------------------------------------------------------
(* The lists of a side, one of them replaced.                               *)

LEMMA LevelAfterShape ==
  ASSUME DOMAIN levels = Side, NEW d \in Side, NEW p, NEW lv
  PROVE  LET L == LevelAfter(d, p, lv)
         IN /\ DOMAIN L = Side
            /\ \A e \in Side \ {d} : L[e] = levels[e]
            /\ lv = << >> => DOMAIN L[d] = DOMAIN levels[d] \ {p}
            /\ lv # << >> => DOMAIN L[d] = DOMAIN levels[d] \cup {p} /\ L[d][p] = lv
            /\ \A q \in DOMAIN L[d] \ {p} : q \in DOMAIN levels[d] /\ L[d][q] = levels[d][q]
BY DEF LevelAfter, Without, Having

LEMMA LevelAfterMaps ==
  ASSUME NEW n, IsMap(levels, n), NEW d \in Side, NEW p \in Prices, NEW lv, IsQueue(lv, d, p, n)
  PROVE  IsMap(LevelAfter(d, p, lv), n)
<1> DEFINE L == LevelAfter(d, p, lv)
<1>1. /\ DOMAIN L = Side
      /\ \A e \in Side \ {d} : L[e] = levels[e]
      /\ lv = << >> => DOMAIN L[d] = DOMAIN levels[d] \ {p}
      /\ lv # << >> => DOMAIN L[d] = DOMAIN levels[d] \cup {p} /\ L[d][p] = lv
      /\ \A q \in DOMAIN L[d] \ {p} : q \in DOMAIN levels[d] /\ L[d][q] = levels[d][q]
  BY LevelAfterShape DEF IsMap
<1>2. DOMAIN L[d] \subseteq Prices /\ IsFiniteSet(DOMAIN L[d])
  <2>1. DOMAIN levels[d] \subseteq Prices /\ IsFiniteSet(DOMAIN levels[d])
    BY DEF IsMap
  <2>2. IsFiniteSet(DOMAIN levels[d] \ {p}) /\ IsFiniteSet(DOMAIN levels[d] \cup {p})
    BY <2>1, FS_RemoveElement, FS_AddElement
  <2> QED BY <1>1, <2>1, <2>2
<1>3. \A q \in DOMAIN L[d] : L[d][q] # << >> /\ IsQueue(L[d][q], d, q, n)
  BY <1>1 DEF IsMap
<1> HIDE DEF L
<1>4. IsMap(L, n)
  BY <1>1, <1>2, <1>3 DEF IsMap
<1> QED BY <1>4 DEF L

(* The orders of a level, none if the map has no such level.                *)
LevelOf(d, p) == IF p \in DOMAIN levels[d] THEN levels[d][p] ELSE << >>

(* An index that changes at one level as the list there does stays exact.   *)
LEMMA IndexFollows ==
  ASSUME DOMAIN levels = Side, Indexes(index, levels),
         NEW d \in Side, NEW p \in Prices, NEW lv, NEW X,
         DOMAIN X = (DOMAIN index \ Ids(LevelOf(d, p))) \cup Ids(lv),
         \A id \in DOMAIN index \ Ids(LevelOf(d, p)) : X[id] = index[id],
         \A id \in Ids(lv) : X[id] = [side |-> d, price |-> p],
         Ids(<< >>) = {}
  PROVE  Indexes(X, LevelAfter(d, p, lv))
<1> DEFINE L == LevelAfter(d, p, lv)
           old == LevelOf(d, p)
<1>1. /\ DOMAIN L = Side
      /\ \A e \in Side \ {d} : L[e] = levels[e]
      /\ lv = << >> => DOMAIN L[d] = DOMAIN levels[d] \ {p}
      /\ lv # << >> => DOMAIN L[d] = DOMAIN levels[d] \cup {p} /\ L[d][p] = lv
      /\ \A q \in DOMAIN L[d] \ {p} : q \in DOMAIN levels[d] /\ L[d][q] = levels[d][q]
  BY LevelAfterShape
<1>2. \A id \in Ids(old) : id \in DOMAIN index /\ index[id] = [side |-> d, price |-> p]
  BY DEF Indexes, LevelOf
<1> HIDE DEF L, old
<1>3. ASSUME NEW e \in Side, NEW q \in DOMAIN L[e], NEW id \in Ids(L[e][q])
      PROVE  id \in DOMAIN X /\ X[id] = [side |-> e, price |-> q]
  <2>1. CASE e = d /\ q = p
    BY <1>1, <1>3, <2>1
  <2>2. CASE ~ (e = d /\ q = p)
    <3>1. q \in DOMAIN levels[e] /\ L[e][q] = levels[e][q]
      BY <1>1, <2>2
    <3>2. id \in DOMAIN index /\ index[id] = [side |-> e, price |-> q]
      BY <1>3, <3>1 DEF Indexes
    <3>3. id \notin Ids(old)
      BY <1>2, <2>2, <3>2
    <3> QED BY <3>2, <3>3 DEF old
  <2> QED BY <2>1, <2>2
<1>4. ASSUME NEW id \in DOMAIN X
      PROVE  /\ X[id] \in Handle
             /\ X[id].price \in DOMAIN L[X[id].side]
             /\ id \in Ids(L[X[id].side][X[id].price])
  <2>1. CASE id \in Ids(lv)
    <3>1. lv # << >> /\ X[id] = [side |-> d, price |-> p]
      BY <2>1
    <3> QED BY <1>1, <2>1, <3>1 DEF Handle
  <2>2. CASE id \in DOMAIN index \ Ids(old)
    <3> DEFINE e == index[id].side
               q == index[id].price
    <3>1. /\ X[id] = index[id] /\ index[id] \in Handle
          /\ q \in DOMAIN levels[e] /\ id \in Ids(levels[e][q])
      BY <2>2 DEF Indexes, old
    <3>2. e \in Side /\ q \in Prices
      BY <3>1 DEF Handle
    <3>3. ~ (e = d /\ q = p)
      BY <2>2, <3>1 DEF old, LevelOf
    <3>4. q \in DOMAIN L[e] /\ L[e][q] = levels[e][q]
      BY <1>1, <3>1, <3>2, <3>3
    <3> QED BY <3>1, <3>4
  <2> QED BY <2>1, <2>2 DEF old
<1>5. Indexes(X, L)
  BY <1>3, <1>4 DEF Indexes
<1> QED BY <1>5 DEF L
-------------------------------------------------------------------------------
(* What happens to one list.                                                *)

LEMMA QueueShape ==
  ASSUME NEW d, NEW p, NEW n, NEW lv, IsQueue(lv, d, p, n)
  PROVE  /\ Len(lv) \in Nat /\ DOMAIN lv = 1 .. Len(lv)
         /\ lv # << >> => Len(lv) > 0 /\ 1 \in DOMAIN lv /\ Head(lv) = lv[1]
         /\ \A k \in DOMAIN lv : lv[k] \in MOrder
<1>1. lv \in Seq(MOrder)
  BY DEF IsQueue
<1>2. Len(lv) \in Nat /\ DOMAIN lv = 1 .. Len(lv) /\ \A k \in 1 .. Len(lv) : lv[k] \in MOrder
  BY <1>1, LenProperties, ElementOfSeq
<1>3. lv # << >> => Len(lv) \in Nat \ {0}
  BY <1>1, EmptySeq
<1>4. Head(lv) = lv[1]
  BY DEF Head
<1> QED BY <1>2, <1>3, <1>4

LEMMA QueueNil ==
  ASSUME NEW d, NEW p, NEW n
  PROVE  IsQueue(<< >>, d, p, n) /\ Ids(<< >>) = {}
<1>1. << >> \in Seq(MOrder) /\ DOMAIN << >> = {}
  BY EmptySeq
<1> QED BY <1>1 DEF IsQueue, Ids

LEMMA QueueLater ==
  ASSUME NEW d, NEW p, NEW n \in Int, NEW m \in Int, n <= m, NEW lv, IsQueue(lv, d, p, n)
  PROVE  IsQueue(lv, d, p, m)
<1>1. \A k \in DOMAIN lv : lv[k].id \in Int
  BY QueueShape DEF MOrder
<1> QED BY <1>1 DEF IsQueue

(* No order of a queue has the id of another.                               *)
LEMMA QueueIds ==
  ASSUME NEW d, NEW p, NEW n, NEW lv, IsQueue(lv, d, p, n),
         NEW j \in DOMAIN lv, NEW k \in DOMAIN lv, lv[j].id = lv[k].id
  PROVE  j = k
<1>1. lv[j].id \in Int /\ j \in Int /\ k \in Int
  BY QueueShape DEF MOrder
<1> QED BY <1>1 DEF IsQueue

(* List w is lv without the order at position i.                            *)
Skips(w, lv, i) ==
  /\ w \in Seq(MOrder) /\ Len(w) = Len(lv) - 1
  /\ \A k \in 1 .. Len(w) : k < i => w[k] = lv[k]
  /\ \A k \in 1 .. Len(w) : k >= i => w[k] = lv[k + 1]

LEMMA QueueSkips ==
  ASSUME NEW d, NEW p, NEW n, NEW lv, IsQueue(lv, d, p, n), NEW i \in DOMAIN lv,
         NEW w, Skips(w, lv, i)
  PROVE  /\ IsQueue(w, d, p, n)
         /\ Ids(w) = Ids(lv) \ {lv[i].id}
         /\ Members(w) = Members(lv) \ {lv[i]}
<1> DEFINE At(k) == IF k < i THEN k ELSE k + 1
<1>1. Len(lv) \in Nat /\ DOMAIN lv = 1 .. Len(lv) /\ DOMAIN w = 1 .. Len(w)
      /\ Len(w) = Len(lv) - 1
  BY QueueShape, LenProperties DEF Skips
<1>2. \A k \in DOMAIN w : At(k) \in DOMAIN lv /\ At(k) # i /\ w[k] = lv[At(k)]
  BY <1>1 DEF Skips
<1>3. \A j, k \in DOMAIN w : j < k => At(j) < At(k)
  BY <1>1
<1>4. ASSUME NEW j \in DOMAIN lv, j # i PROVE \E k \in DOMAIN w : At(k) = j
  <2>1. CASE j < i
    BY <1>1, <2>1
  <2>2. CASE j > i
    <3>1. j - 1 \in DOMAIN w /\ At(j - 1) = j
      BY <1>1, <2>2
    <3> QED BY <3>1
  <2> QED BY <1>1, <1>4, <2>1, <2>2
<1> HIDE DEF At
<1>5. IsQueue(w, d, p, n)
  BY <1>2, <1>3 DEF IsQueue, Skips
<1>6. \A k \in DOMAIN w : w[k].id # lv[i].id
  BY <1>2, QueueIds
<1>7. Ids(w) = Ids(lv) \ {lv[i].id}
  <2>1. Ids(w) \subseteq Ids(lv) \ {lv[i].id}
    BY <1>2, <1>6 DEF Ids
  <2>2. ASSUME NEW id \in Ids(lv) \ {lv[i].id} PROVE id \in Ids(w)
    <3>1. PICK j \in DOMAIN lv : lv[j].id = id
      BY DEF Ids
    <3>2. j # i
      BY <2>2, <3>1
    <3>3. PICK k \in DOMAIN w : At(k) = j
      BY <3>2, <1>4
    <3> QED BY <1>2, <3>1, <3>3 DEF Ids
  <2> QED BY <2>1, <2>2
<1>8. Members(w) = Members(lv) \ {lv[i]}
  <2>1. Members(w) \subseteq Members(lv) \ {lv[i]}
    BY <1>2, <1>6 DEF Members
  <2>2. ASSUME NEW o \in Members(lv) \ {lv[i]} PROVE o \in Members(w)
    <3>1. PICK j \in DOMAIN lv : lv[j] = o
      BY DEF Members
    <3>2. j # i
      BY <2>2, <3>1
    <3>3. PICK k \in DOMAIN w : At(k) = j
      BY <3>2, <1>4
    <3> QED BY <1>2, <3>1, <3>3 DEF Members
  <2> QED BY <2>1, <2>2
<1> QED BY <1>5, <1>7, <1>8

LEMMA QueueTail ==
  ASSUME NEW d, NEW p, NEW n, NEW lv, IsQueue(lv, d, p, n), lv # << >>
  PROVE  /\ IsQueue(Tail(lv), d, p, n)
         /\ Ids(Tail(lv)) = Ids(lv) \ {Head(lv).id}
         /\ Members(Tail(lv)) = Members(lv) \ {Head(lv)}
<1> DEFINE w == Tail(lv)
<1>1. lv \in Seq(MOrder) /\ Head(lv) = lv[1] /\ 1 \in DOMAIN lv
  BY QueueShape DEF IsQueue
<1>2. /\ w \in Seq(MOrder) /\ Len(w) = Len(lv) - 1
      /\ \A k \in 1 .. Len(w) : w[k] = lv[k + 1]
  BY <1>1, HeadTailProperties
<1>3. \A k \in 1 .. Len(w) : ~ (k < 1)
  OBVIOUS
<1> HIDE DEF w
<1>4. Skips(w, lv, 1)
  BY <1>2, <1>3 DEF Skips
<1> QED BY <1>1, <1>4, QueueSkips DEF w

LEMMA QueueErase ==
  ASSUME NEW d, NEW p, NEW n, NEW lv, IsQueue(lv, d, p, n), NEW id \in Ids(lv)
  PROVE  /\ IsQueue(Erase(lv, id), d, p, n)
         /\ Ids(Erase(lv, id)) = Ids(lv) \ {id}
         /\ \E o \in Members(lv) : o.id = id /\ Members(Erase(lv, id)) = Members(lv) \ {o}
<1>1. PICK i \in DOMAIN lv : i = (CHOOSE k \in DOMAIN lv : lv[k].id = id) /\ lv[i].id = id
  BY DEF Ids
<1> DEFINE a == SubSeq(lv, 1, i - 1)
           b == SubSeq(lv, i + 1, Len(lv))
           w == a \o b
<1>2. Erase(lv, id) = w
  BY <1>1 DEF Erase
<1>3. /\ Len(lv) \in Nat /\ i \in 1 .. Len(lv)
      /\ \A k \in 1 .. Len(lv) : lv[k] \in MOrder
  BY <1>1, QueueShape
<1>4. /\ a \in Seq(MOrder) /\ Len(a) = i - 1
      /\ \A k \in 1 .. i - 1 : a[k] = lv[k]
  <2>1. /\ a \in Seq(MOrder) /\ Len(a) = IF 1 <= i - 1 THEN i - 1 - 1 + 1 ELSE 0
        /\ \A k \in 1 .. i - 1 - 1 + 1 : a[k] = lv[1 + k - 1]
    BY <1>3, SubSeqProperties
  <2> HIDE DEF a
  <2>2. \A k \in 1 .. i - 1 : k \in 1 .. i - 1 - 1 + 1 /\ 1 + k - 1 = k
    BY <1>3
  <2> QED BY <1>3, <2>1, <2>2
<1>5. /\ b \in Seq(MOrder) /\ Len(b) = Len(lv) - i
      /\ \A k \in 1 .. Len(lv) - i : b[k] = lv[i + k]
  <2>1. /\ b \in Seq(MOrder)
        /\ Len(b) = IF i + 1 <= Len(lv) THEN Len(lv) - (i + 1) + 1 ELSE 0
        /\ \A k \in 1 .. Len(lv) - (i + 1) + 1 : b[k] = lv[i + 1 + k - 1]
    BY <1>3, SubSeqProperties
  <2> HIDE DEF b
  <2>2. \A k \in 1 .. Len(lv) - i : k \in 1 .. Len(lv) - (i + 1) + 1 /\ i + 1 + k - 1 = i + k
    BY <1>3
  <2> QED BY <1>3, <2>1, <2>2
<1> HIDE DEF a, b
<1>6. /\ w \in Seq(MOrder) /\ Len(w) = Len(a) + Len(b)
      /\ \A k \in 1 .. Len(a) + Len(b) : w[k] = IF k <= Len(a) THEN a[k] ELSE b[k - Len(a)]
  BY <1>4, <1>5, ConcatProperties
<1> HIDE DEF w
<1>7. Len(w) = Len(lv) - 1
  BY <1>3, <1>4, <1>5, <1>6
<1>8. ASSUME NEW k \in 1 .. Len(w), k < i PROVE w[k] = lv[k]
  <2>1. w[k] = a[k] /\ k \in 1 .. i - 1
    BY <1>3, <1>4, <1>5, <1>6, <1>7, <1>8
  <2> QED BY <1>4, <2>1
<1>9. ASSUME NEW k \in 1 .. Len(w), k >= i PROVE w[k] = lv[k + 1]
  <2>1. k \in Int /\ Len(a) \in Int /\ Len(lv) \in Int /\ i \in Int
    BY <1>3, <1>4
  <2>2. ~ (k <= Len(a)) /\ k \in 1 .. Len(a) + Len(b)
    BY <1>4, <1>6, <1>9, <2>1
  <2>3. w[k] = b[k - Len(a)]
    BY <1>6, <2>2
  <2>4. k - Len(a) \in 1 .. Len(lv) - i
    BY <1>4, <1>7, <1>9, <2>1
  <2>5. i + (k - Len(a)) = k + 1
    BY <1>4, <2>1
  <2> QED BY <1>5, <2>3, <2>4, <2>5
<1>10. Skips(w, lv, i)
  BY <1>6, <1>7, <1>8, <1>9 DEF Skips
<1>11. /\ IsQueue(w, d, p, n)
       /\ Ids(w) = Ids(lv) \ {lv[i].id}
       /\ Members(w) = Members(lv) \ {lv[i]}
  BY <1>10, QueueSkips
<1>12. lv[i] \in Members(lv)
  BY DEF Members
<1> QED BY <1>1, <1>2, <1>11, <1>12

(* The front of a queue trades a part.                                      *)
Renewed(lv, o) == [lv EXCEPT ![1] = o]

LEMMA QueueTrades ==
  ASSUME NEW d, NEW p, NEW n, NEW lv, IsQueue(lv, d, p, n), lv # << >>,
         NEW o \in MOrder, o.id = lv[1].id, o.side = lv[1].side, o.price = lv[1].price
  PROVE  /\ IsQueue(Renewed(lv, o), d, p, n)
         /\ Ids(Renewed(lv, o)) = Ids(lv)
         /\ Members(Renewed(lv, o)) = (Members(lv) \ {lv[1]}) \cup {o}
<1> DEFINE w == Renewed(lv, o)
<1>1. /\ Len(lv) \in Nat /\ DOMAIN lv = 1 .. Len(lv) /\ 1 \in DOMAIN lv /\ Len(lv) > 0
      /\ \A k \in DOMAIN lv : lv[k] \in MOrder
  BY QueueShape
<1>2. /\ w \in Seq(MOrder) /\ Len(w) = Len(lv)
      /\ \A j \in 1 .. Len(lv) : w[j] = IF j = 1 THEN o ELSE lv[j]
  BY <1>1, ExceptSeq DEF IsQueue, Renewed
<1>3. DOMAIN w = DOMAIN lv
  BY DEF Renewed
<1> HIDE DEF w
<1>4. \A k \in DOMAIN w : /\ w[k].id = lv[k].id
                          /\ w[k].side = lv[k].side /\ w[k].price = lv[k].price
  BY <1>1, <1>2, <1>3
<1>5. IsQueue(w, d, p, n)
  BY <1>2, <1>3, <1>4 DEF IsQueue
<1>6. Ids(w) = Ids(lv)
  BY <1>3, <1>4 DEF Ids
<1>7. Members(w) = (Members(lv) \ {lv[1]}) \cup {o}
  <2>1. \A k \in DOMAIN lv : k # 1 => lv[k] # lv[1]
    BY <1>1, QueueIds
  <2>2. Members(w) \subseteq (Members(lv) \ {lv[1]}) \cup {o}
    BY <1>1, <1>2, <1>3, <2>1 DEF Members
  <2>3. w[1] = o
    BY <1>1, <1>2
  <2>4. \A k \in DOMAIN lv : k # 1 => w[k] = lv[k]
    BY <1>1, <1>2
  <2>5. Members(lv) \ {lv[1]} \subseteq Members(w)
    BY <1>3, <2>4 DEF Members
  <2>6. o \in Members(w)
    BY <1>1, <1>3, <2>3 DEF Members
  <2> QED BY <2>2, <2>5, <2>6
<1> QED BY <1>5, <1>6, <1>7 DEF w

(* A younger order joins.                                                   *)
LEMMA QueueAppends ==
  ASSUME NEW d, NEW p, NEW n \in Int, NEW m \in Int, NEW lv, IsQueue(lv, d, p, n),
         NEW o \in MOrder, o.side = d, o.price = p, n <= o.id, o.id < m
  PROVE  LET w == Append(lv, o)
         IN /\ IsQueue(w, d, p, m) /\ Ids(w) = Ids(lv) \cup {o.id} /\ w # << >>
            /\ Members(w) = Members(lv) \cup {o}
<1> DEFINE w == Append(lv, o)
<1>1. /\ Len(lv) \in Nat /\ DOMAIN lv = 1 .. Len(lv)
      /\ \A k \in DOMAIN lv : lv[k] \in MOrder
  BY QueueShape
<1>2. /\ w \in Seq(MOrder) /\ w # << >> /\ Len(w) = Len(lv) + 1
      /\ \A k \in 1 .. Len(lv) : w[k] = lv[k]
      /\ w[Len(lv) + 1] = o
  BY AppendProperties DEF IsQueue
<1>3. DOMAIN w = 1 .. Len(lv) + 1
  BY <1>2, LenProperties
<1> HIDE DEF w
<1>4. \A k \in DOMAIN w : (k \in DOMAIN lv /\ w[k] = lv[k]) \/ (k = Len(lv) + 1 /\ w[k] = o)
  BY <1>1, <1>2, <1>3
<1>5. \A k \in DOMAIN lv : lv[k].id \in Int /\ lv[k].id < n
  BY <1>1 DEF MOrder, IsQueue
<1>6. o.id \in Int
  BY DEF MOrder
<1>7. \A k \in DOMAIN w : w[k].side = d /\ w[k].price = p /\ w[k].id < m
  BY <1>4, <1>5, <1>6 DEF IsQueue
<1>8. ASSUME NEW j \in DOMAIN w, NEW k \in DOMAIN w, j < k PROVE w[j].id < w[k].id
  <2>1. j \in DOMAIN lv /\ w[j] = lv[j]
    BY <1>1, <1>3, <1>4, <1>8
  <2> QED BY <1>4, <1>5, <1>6, <1>8, <2>1 DEF IsQueue
<1>9. IsQueue(w, d, p, m)
  BY <1>2, <1>7, <1>8 DEF IsQueue
<1>10. Ids(w) = Ids(lv) \cup {o.id}
  <2>1. Ids(w) \subseteq Ids(lv) \cup {o.id}
    BY <1>4 DEF Ids
  <2>2. Ids(lv) \subseteq Ids(w)
    BY <1>1, <1>2, <1>3 DEF Ids
  <2>3. o.id \in Ids(w)
    BY <1>1, <1>2, <1>3 DEF Ids
  <2> QED BY <2>1, <2>2, <2>3
<1>11. Members(w) = Members(lv) \cup {o}
  <2>1. Members(w) \subseteq Members(lv) \cup {o}
    BY <1>4 DEF Members
  <2>2. Members(lv) \subseteq Members(w)
    BY <1>1, <1>2, <1>3 DEF Members
  <2>3. o \in Members(w)
    BY <1>1, <1>2, <1>3 DEF Members
  <2> QED BY <2>1, <2>2, <2>3
<1> QED BY <1>2, <1>9, <1>10, <1>11 DEF w
-------------------------------------------------------------------------------
(* The index when a list loses, keeps or gains an order.                    *)

LEMMA IndexedAt ==
  ASSUME DOMAIN levels = Side, Indexes(index, levels), NEW d \in Side, NEW p
  PROVE  \A id \in Ids(LevelOf(d, p)) : id \in DOMAIN index /\ index[id] = [side |-> d, price |-> p]
BY QueueNil DEF Indexes, LevelOf

LEMMA IndexForgets ==
  ASSUME DOMAIN levels = Side, Indexes(index, levels), NEW d \in Side, NEW p \in Prices,
         NEW id \in Ids(LevelOf(d, p)), NEW lv, Ids(lv) = Ids(LevelOf(d, p)) \ {id}
  PROVE  Indexes(Forget(id), LevelAfter(d, p, lv))
<1> DEFINE X == Forget(id)
           old == Ids(LevelOf(d, p))
<1>1. \A j \in old : j \in DOMAIN index /\ index[j] = [side |-> d, price |-> p]
  BY IndexedAt
<1>2. DOMAIN X = DOMAIN index \ {id} /\ \A j \in DOMAIN index \ {id} : X[j] = index[j]
  BY DEF Forget, Without
<1> HIDE DEF X, old
<1>3. DOMAIN X = (DOMAIN index \ old) \cup Ids(lv)
  BY <1>1, <1>2 DEF old
<1>4. /\ \A j \in DOMAIN index \ old : X[j] = index[j]
      /\ \A j \in Ids(lv) : X[j] = [side |-> d, price |-> p]
  BY <1>1, <1>2 DEF old
<1>5. Indexes(X, LevelAfter(d, p, lv))
  BY <1>3, <1>4, QueueNil, IndexFollows DEF old
<1> QED BY <1>5 DEF X

LEMMA IndexKeeps ==
  ASSUME DOMAIN levels = Side, Indexes(index, levels), NEW d \in Side, NEW p \in Prices,
         NEW lv, Ids(lv) = Ids(LevelOf(d, p))
  PROVE  Indexes(index, LevelAfter(d, p, lv))
<1>1. \A j \in Ids(LevelOf(d, p)) : j \in DOMAIN index /\ index[j] = [side |-> d, price |-> p]
  BY IndexedAt
<1>2. DOMAIN index = (DOMAIN index \ Ids(LevelOf(d, p))) \cup Ids(lv)
  BY <1>1
<1> QED BY <1>1, <1>2, QueueNil, IndexFollows

LEMMA IndexHas ==
  ASSUME DOMAIN levels = Side, Indexes(index, levels), NEW d \in Side, NEW p \in Prices,
         NEW id, id \notin DOMAIN index,
         NEW lv, Ids(lv) = Ids(LevelOf(d, p)) \cup {id}
  PROVE  Indexes(Having(index, id, [side |-> d, price |-> p]), LevelAfter(d, p, lv))
<1> DEFINE h == [side |-> d, price |-> p]
           X == Having(index, id, h)
           old == Ids(LevelOf(d, p))
<1>1. \A j \in old : j \in DOMAIN index /\ index[j] = h
  BY IndexedAt
<1>2. /\ DOMAIN X = DOMAIN index \cup {id} /\ X[id] = h
      /\ \A j \in DOMAIN index : X[j] = index[j]
  BY DEF Having
<1> HIDE DEF X, old
<1>3. DOMAIN X = (DOMAIN index \ old) \cup Ids(lv)
  BY <1>1, <1>2 DEF old
<1>4. /\ \A j \in DOMAIN index \ old : X[j] = index[j]
      /\ \A j \in Ids(lv) : X[j] = h
  BY <1>1, <1>2 DEF old
<1>5. Indexes(X, LevelAfter(d, p, lv))
  BY <1>3, <1>4, QueueNil, IndexFollows DEF old
<1> QED BY <1>5 DEF X

(* Lists stay sorted out when the next order is younger.                    *)
LEMMA MapLater ==
  ASSUME NEW L, NEW n \in Int, NEW m \in Int, n <= m, IsMap(L, n)
  PROVE  IsMap(L, m)
<1>1. \A d \in Side : \A p \in DOMAIN L[d] : IsQueue(L[d][p], d, p, m)
  BY QueueLater DEF IsMap
<1> QED BY <1>1 DEF IsMap

(* Ids of resting orders are those of orders sent before.                   *)
LEMMA IndexedAreOld ==
  ASSUME NEW n, IsMap(levels, n), Indexes(index, levels), NEW id \in DOMAIN index
  PROVE  id \in 1 .. MaxIds /\ id < n
<1> DEFINE d == index[id].side
           p == index[id].price
<1>1. d \in Side /\ p \in DOMAIN levels[d] /\ id \in Ids(levels[d][p])
  BY DEF Indexes, Handle
<1>2. IsQueue(levels[d][p], d, p, n)
  BY <1>1 DEF IsMap
<1>3. PICK k \in DOMAIN levels[d][p] : levels[d][p][k].id = id
  BY <1>1 DEF Ids
<1>4. levels[d][p][k] \in MOrder /\ levels[d][p][k].id < n
  BY <1>2, <1>3, QueueShape DEF IsQueue
<1> QED BY <1>3, <1>4 DEF MOrder
-------------------------------------------------------------------------------
(* The actions.                                                             *)

LEMMA SidesOpposite ==
  ASSUME NEW d \in Side
  PROVE  Opposite(d) \in Side /\ Opposite(d) # d
BY DEF Side, Opposite

LEMMA BookInit ==
  ASSUME Init
  PROVE  BookSound
<1>1. DOMAIN << >> = {} /\ IsFiniteSet({})
  BY EmptySeq, FS_EmptySet
<1>2. IsMap(levels, Fresh) /\ Indexes(index, levels) /\ Apart(levels)
  BY <1>1 DEF Init, IsMap, Indexes, Apart, Side
<1>3. nextId \in 1 .. MaxIds + 1 /\ tradeSeq \in Nat \ {0} /\ result.status \in Status
  BY StreamAssumption DEF Init, NoResult, Status
<1> QED BY <1>2, <1>3 DEF BookSound, CallSound, CallType, Init, NoCall, Side

LEMMA FreshIsInt ==
  ASSUME BookSound
  PROVE  Fresh \in Int /\ nextId \in Int /\ Fresh <= nextId
BY DEF BookSound, CallSound, CallType, Fresh

LEMMA EnterSound ==
  ASSUME BookSound, NEW market \in BOOLEAN, NEW side \in Side, NEW price,
         NEW qty \in Quantities, (market /\ price = 0) \/ (~ market /\ price \in Prices),
         Enter(market, side, price, qty)
  PROVE  BookSound'
<1>1. /\ call' = [active |-> TRUE, market |-> market, side |-> side, price |-> price,
                  qty |-> qty, id |-> nextId, remaining |-> qty, notional |-> 0]
      /\ nextId' = nextId + 1 /\ nextId <= MaxIds /\ ~ call.active
      /\ UNCHANGED <<levels, index, tradeSeq, result>>
  BY DEF Enter
<1>2. nextId \in 1 .. MaxIds + 1 /\ MaxIds \in Nat /\ qty \in Nat \ {0}
  BY StreamAssumption DEF BookSound
<1>3. CallSound'
  <2>1. price \in Int
    <3>1. CASE market
      BY <3>1
    <3>2. CASE ~ market
      BY <3>2, StreamAssumption
    <3> QED BY <3>1, <3>2
  <2>2. qty \in Nat /\ nextId \in Nat
    BY <1>2
  <2>3. call' \in CallType
    BY <1>1, <2>1, <2>2 DEF CallType
  <2> QED BY <1>1, <1>2, <2>2, <2>3 DEF CallSound
<1>4. Fresh' = Fresh
  BY <1>1 DEF Fresh
<1> QED BY <1>1, <1>2, <1>3, <1>4 DEF BookSound, IsMap, Apart, Indexes

(* The trade of a step of match(): the level, its first order, the size and *)
(* what is left of the level.                                               *)
BestLevel == levels[MakerSide][BestPrice(MakerSide)]
Front     == Head(BestLevel)
Traded    == Smaller(call.remaining, Front.remaining)
IsFilled  == Front.remaining = Traded
LevelLeft ==
  IF IsFilled THEN Tail(BestLevel) ELSE [BestLevel EXCEPT ![1].remaining = @ - Traded]

LEMMA FillShape ==
  ASSUME BookSound, call.active, call.remaining > 0, Crosses
  PROVE  /\ MakerSide \in Side /\ BestPrice(MakerSide) \in DOMAIN levels[MakerSide]
         /\ BestPrice(MakerSide) \in Prices
         /\ IsQueue(BestLevel, MakerSide, BestPrice(MakerSide), Fresh)
         /\ LevelOf(MakerSide, BestPrice(MakerSide)) = BestLevel
         /\ Front = BestLevel[1] /\ 1 \in DOMAIN BestLevel
         /\ Front \in MOrder /\ Front \in Members(BestLevel) /\ Front.id \in Ids(BestLevel)
         /\ Traded \in Nat \ {0} /\ Traded <= call.remaining /\ Traded <= Front.remaining
<1> DEFINE M  == MakerSide
           px == BestPrice(M)
<1>1. IsMap(levels, Fresh) /\ CallSound /\ DOMAIN levels[M] # {}
  BY DEF BookSound, Crosses
<1>2. M \in Side
  BY <1>1, SidesOpposite DEF CallSound, CallType, MakerSide
<1>3. px \in DOMAIN levels[M]
  BY <1>1, <1>2, BestIsFirst
<1>4. IsQueue(BestLevel, M, px, Fresh) /\ BestLevel # << >> /\ px \in Prices
      /\ LevelOf(M, px) = BestLevel
  BY <1>1, <1>2, <1>3 DEF IsMap, LevelOf, BestLevel
<1>5. Front = BestLevel[1] /\ 1 \in DOMAIN BestLevel /\ Front \in MOrder
  BY <1>4, QueueShape DEF Front
<1>6. Front \in Members(BestLevel) /\ Front.id \in Ids(BestLevel)
  BY <1>5 DEF Members, Ids
<1>7. call.remaining \in Nat /\ Front.remaining \in Nat \ {0}
  BY <1>1, <1>5 DEF MOrder, CallSound, CallType
<1>8. Traded \in Nat \ {0} /\ Traded <= call.remaining /\ Traded <= Front.remaining
  BY <1>7 DEF Smaller, Traded
<1> QED BY <1>2, <1>3, <1>4, <1>5, <1>6, <1>8

LEMMA LevelLeftShape ==
  ASSUME BookSound, call.active, call.remaining > 0, Crosses
  PROVE  /\ IsQueue(LevelLeft, MakerSide, BestPrice(MakerSide), Fresh)
         /\ Ids(LevelLeft) = IF IsFilled THEN Ids(BestLevel) \ {Front.id} ELSE Ids(BestLevel)
         /\ Members(LevelLeft) =
              (Members(BestLevel) \ {Front}) \cup
              (IF IsFilled THEN {} ELSE {[Front EXCEPT !.remaining = @ - Traded]})
<1> DEFINE M  == MakerSide
           px == BestPrice(M)
           lv == BestLevel
<1>1. /\ IsQueue(lv, M, px, Fresh) /\ Front = lv[1] /\ 1 \in DOMAIN lv /\ Front \in MOrder
      /\ Traded \in Nat \ {0} /\ Traded <= Front.remaining
  BY FillShape
<1>2. lv # << >>
  BY <1>1, EmptySeq
<1> HIDE DEF M, px, lv
<1>3. CASE IsFilled
  <2>1. LevelLeft = Tail(lv) /\ Front = Head(lv)
    BY <1>3 DEF LevelLeft, lv, Front
  <2>2. /\ IsQueue(Tail(lv), M, px, Fresh)
        /\ Ids(Tail(lv)) = Ids(lv) \ {Head(lv).id}
        /\ Members(Tail(lv)) = Members(lv) \ {Head(lv)}
    BY <1>1, <1>2, QueueTail
  <2> QED BY <1>3, <2>1, <2>2 DEF M, px, lv
<1>4. CASE ~ IsFilled
  <2> DEFINE o == [Front EXCEPT !.remaining = @ - Traded]
  <2>1. LevelLeft = Renewed(lv, o)
    BY <1>1, <1>4 DEF LevelLeft, lv, Renewed
  <2>2. o \in MOrder /\ o.id = lv[1].id /\ o.side = lv[1].side /\ o.price = lv[1].price
    BY <1>1, <1>4 DEF IsFilled, MOrder
  <2> HIDE DEF o
  <2>3. IsQueue(LevelLeft, M, px, Fresh) /\ Ids(LevelLeft) = Ids(lv)
    BY <1>1, <1>2, <2>1, <2>2, QueueTrades
  <2>4. Members(LevelLeft) = (Members(lv) \ {lv[1]}) \cup {o}
    BY <1>1, <1>2, <2>1, <2>2, QueueTrades
  <2> QED BY <1>1, <1>4, <2>3, <2>4 DEF M, px, lv, o
<1> QED BY <1>3, <1>4

LEMMA FillSound ==
  ASSUME BookSound, Fill
  PROVE  BookSound'
<1> DEFINE M  == MakerSide
           px == BestPrice(M)
<1>1. /\ call.active /\ call.remaining > 0 /\ Crosses
      /\ levels' = LevelAfter(M, px, LevelLeft)
      /\ index' = IF IsFilled THEN Forget(Front.id) ELSE index
      /\ call' = [call EXCEPT !.remaining = @ - Traded, !.notional = @ + px * Traded]
      /\ tradeSeq' = tradeSeq + 1
      /\ UNCHANGED <<nextId, result>>
  BY DEF Fill, BestLevel, Front, Traded, IsFilled, LevelLeft
<1>2. /\ IsMap(levels, Fresh) /\ Indexes(index, levels) /\ Apart(levels) /\ DOMAIN levels = Side
      /\ CallSound
  BY DEF BookSound, IsMap
<1>3. /\ M \in Side /\ px \in DOMAIN levels[M] /\ px \in Prices
      /\ LevelOf(M, px) = BestLevel /\ Front.id \in Ids(BestLevel)
      /\ Traded \in Nat /\ Traded <= call.remaining
  BY <1>1, FillShape
<1>4. /\ IsQueue(LevelLeft, M, px, Fresh)
      /\ IsFilled => Ids(LevelLeft) = Ids(BestLevel) \ {Front.id}
      /\ ~ IsFilled => Ids(LevelLeft) = Ids(BestLevel)
  BY <1>1, LevelLeftShape
<1> HIDE DEF M, px
<1>5. Indexes(index', LevelAfter(M, px, LevelLeft))
  <2>1. CASE IsFilled
    BY <1>1, <1>2, <1>3, <1>4, <2>1, IndexForgets
  <2>2. CASE ~ IsFilled
    BY <1>1, <1>2, <1>3, <1>4, <2>2, IndexKeeps
  <2> QED BY <2>1, <2>2
<1>6. IsMap(levels', Fresh) /\ Indexes(index', levels')
  BY <1>1, <1>2, <1>3, <1>4, <1>5, LevelAfterMaps
<1>7. \A d \in Side : DOMAIN levels'[d] \subseteq DOMAIN levels[d]
  BY <1>1, <1>2, <1>3, LevelAfterShape
<1>8. Apart(levels')
  BY <1>2, <1>7 DEF Apart, Side
<1>9. CallSound' /\ Fresh' = Fresh
  <2> DEFINE r == call.remaining - Traded
             m == call.notional + px * Traded
  <2>1. r \in Nat /\ r <= call.qty /\ m \in Int /\ call \in CallType
    <3>1. px * Traded \in Int
      BY <1>3, StreamAssumption
    <3> QED BY <1>2, <1>3, <3>1 DEF CallSound, CallType
  <2>2. call' = [call EXCEPT !.remaining = r, !.notional = m]
    BY <1>1
  <2> HIDE DEF r, m
  <2>3. /\ call' \in CallType /\ call'.remaining = r /\ call'.qty = call.qty
        /\ call'.price = call.price /\ call'.id = call.id
        /\ call'.market = call.market /\ call'.active = call.active
    BY <2>1, <2>2 DEF CallType
  <2> QED BY <1>1, <1>2, <2>1, <2>3 DEF CallSound, Fresh
<1> QED BY <1>1, <1>6, <1>8, <1>9 DEF BookSound

(* A taker that has done with matching is out of reach of the other side.   *)
LEMMA RestIsApart ==
  ASSUME BookSound, call.active, ~ call.market, ~ Crosses
  PROVE  \A q \in DOMAIN levels[MakerSide] : Ahead(MakerSide, call.price, q)
<1>1. IsMap(levels, Fresh) /\ call.side \in Side /\ call.price \in Int
  BY StreamAssumption DEF BookSound, CallSound, CallType
<1>2. MakerSide \in Side /\ DOMAIN levels[MakerSide] \subseteq Int
  BY <1>1, SidesOpposite, StreamAssumption DEF MakerSide, IsMap
<1>3. CASE DOMAIN levels[MakerSide] = {}
  BY <1>3
<1>4. CASE DOMAIN levels[MakerSide] # {}
  <2> DEFINE b == BestPrice(MakerSide)
  <2>1. b \in DOMAIN levels[MakerSide]
        /\ \A q \in DOMAIN levels[MakerSide] \ {b} : Ahead(MakerSide, b, q)
    BY <1>1, <1>2, <1>4, BestIsFirst
  <2>2. Ahead(MakerSide, call.price, b)
    BY <1>4 DEF Crosses
  <2> HIDE DEF b
  <2> QED BY <1>1, <1>2, <2>1, <2>2 DEF Ahead
<1> QED BY <1>3, <1>4

LEMMA RestingSound ==
  ASSUME BookSound, ReturnResting
  PROVE  BookSound'
<1> DEFINE d  == call.side
           p  == call.price
           lv == LevelOf(d, p)
           o  == [id |-> call.id, price |-> p, side |-> d, remaining |-> call.remaining]
           w  == Append(lv, o)
           h  == [side |-> d, price |-> p]
<1>1. /\ call.active /\ call.remaining > 0 /\ ~ call.market /\ ~ Crosses
      /\ levels' = LevelAfter(d, p, w)
      /\ index' = Having(index, call.id, h)
      /\ call' = NoCall
      /\ result'.status \in {"PartiallyFilled", "Accepted"}
      /\ UNCHANGED <<nextId, tradeSeq>>
  BY DEF ReturnResting, Matched, Return, LevelOf
<1>2. /\ IsMap(levels, Fresh) /\ Indexes(index, levels) /\ Apart(levels)
      /\ CallSound /\ Fresh = call.id /\ DOMAIN levels = Side
  BY <1>1 DEF BookSound, Fresh, IsMap
<1>3. /\ d \in Side /\ p \in Prices /\ call.remaining \in Nat \ {0}
      /\ call.id \in 1 .. MaxIds /\ call.id = nextId - 1
      /\ nextId \in 1 .. MaxIds + 1 /\ MaxIds \in Nat
  BY <1>1, <1>2, StreamAssumption DEF CallSound, CallType, BookSound
<1>4. o \in MOrder /\ o.id = call.id /\ o.side = d /\ o.price = p
  BY <1>3 DEF MOrder
<1>5. IsQueue(lv, d, p, call.id)
  BY <1>2, <1>3, QueueNil DEF IsMap, LevelOf
<1>6. call.id \in Int /\ nextId \in Int /\ call.id < nextId /\ call.id <= nextId
  BY <1>3
<1> HIDE DEF lv, o
<1>7. IsQueue(w, d, p, nextId) /\ Ids(w) = Ids(lv) \cup {call.id} /\ w # << >>
  BY <1>4, <1>5, <1>6, QueueAppends
<1>8. call.id \notin DOMAIN index
  BY <1>2, <1>6, IndexedAreOld
<1> HIDE DEF w
<1>9. IsMap(levels, nextId)
  BY <1>2, <1>6, MapLater
<1>10. IsMap(levels', nextId) /\ Fresh' = nextId'
  BY <1>1, <1>3, <1>7, <1>9, LevelAfterMaps DEF Fresh, NoCall
<1>11. Indexes(index', levels')
  BY <1>1, <1>2, <1>3, <1>7, <1>8, IndexHas DEF lv
<1>12. Apart(levels')
  <2>1. \A q \in DOMAIN levels[MakerSide] : Ahead(MakerSide, p, q)
    BY <1>1, RestIsApart
  <2>2. /\ DOMAIN levels'[d] = DOMAIN levels[d] \cup {p}
        /\ \A e \in Side \ {d} : levels'[e] = levels[e]
    BY <1>1, <1>2, <1>3, <1>7, LevelAfterShape
  <2>3. CASE d = "Buy"
    BY <1>2, <2>1, <2>2, <2>3 DEF Apart, Side, MakerSide, Opposite, Ahead
  <2>4. CASE d = "Sell"
    BY <1>2, <2>1, <2>2, <2>4 DEF Apart, Side, MakerSide, Opposite, Ahead
  <2> QED BY <1>3, <2>3, <2>4 DEF Side
<1>13. CallSound'
  BY <1>1 DEF CallSound, CallType, NoCall, Side
<1> QED BY <1>1, <1>3, <1>10, <1>11, <1>12, <1>13 DEF BookSound, Status

LEMMA DoneSound ==
  ASSUME BookSound, ReturnDone
  PROVE  BookSound'
<1>1. /\ call.active /\ call' = NoCall
      /\ UNCHANGED <<levels, index, nextId, tradeSeq>>
      /\ result'.status \in Status
  BY DEF ReturnDone, Matched, Return, Status
<1>2. Fresh \in Int /\ nextId \in Int /\ Fresh <= nextId
  BY FreshIsInt
<1>3. IsMap(levels', Fresh')
  BY <1>1, <1>2, MapLater DEF BookSound, Fresh, NoCall
<1>4. CallSound'
  BY <1>1 DEF CallSound, CallType, NoCall, Side
<1> QED BY <1>1, <1>3, <1>4 DEF BookSound, Apart, Indexes

LEMMA CancelSound ==
  ASSUME BookSound, NEW id, Cancel(id)
  PROVE  BookSound'
<1> DEFINE d  == index[id].side
           p  == index[id].price
           lv == levels[d][p]
           w  == Erase(lv, id)
<1>1. /\ IsMap(levels, Fresh) /\ Indexes(index, levels) /\ Apart(levels) /\ DOMAIN levels = Side
  BY DEF BookSound, IsMap
<1>2. /\ id \in DOMAIN index /\ index' = Forget(id)
      /\ UNCHANGED <<call, nextId, tradeSeq, result>>
  BY DEF Cancel
<1>3. d \in Side /\ p \in Prices /\ p \in DOMAIN levels[d] /\ id \in Ids(lv) /\ LevelOf(d, p) = lv
  BY <1>1, <1>2 DEF Indexes, Handle, LevelOf
<1>4. levels' = LevelAfter(d, p, w)
  BY <1>3 DEF Cancel
<1>5. IsQueue(lv, d, p, Fresh)
  BY <1>1, <1>3 DEF IsMap
<1> HIDE DEF d, p, lv
<1>6. IsQueue(w, d, p, Fresh) /\ Ids(w) = Ids(lv) \ {id}
  BY <1>3, <1>5, QueueErase
<1> HIDE DEF w
<1>7. IsMap(levels', Fresh)
  BY <1>1, <1>3, <1>4, <1>6, LevelAfterMaps
<1>8. Indexes(index', levels')
  BY <1>1, <1>2, <1>3, <1>4, <1>6, IndexForgets
<1>9. \A e \in Side : DOMAIN levels'[e] \subseteq DOMAIN levels[e]
  BY <1>1, <1>3, <1>4, LevelAfterShape
<1>10. Apart(levels')
  BY <1>1, <1>9 DEF Apart, Side
<1> QED BY <1>2, <1>7, <1>8, <1>10 DEF BookSound, CallSound, Fresh

LEMMA BookNext ==
  ASSUME BookSound, [Next]_vars
  PROVE  BookSound'
<1>1. ASSUME UNCHANGED <<levels, index, call, nextId, tradeSeq, result>> PROVE BookSound'
  <2>1. CallSound' /\ Fresh' = Fresh
    BY <1>1 DEF BookSound, CallSound, Fresh
  <2> QED BY <1>1, <2>1 DEF BookSound, IsMap, Indexes, Apart
<1>2. ASSUME NEW side \in Side, NEW price \in Prices, NEW qty \in Quantities,
             SubmitLimit(side, price, qty)
      PROVE  BookSound'
  BY <1>2, EnterSound DEF SubmitLimit
<1>3. ASSUME NEW side \in Side, NEW qty \in Quantities, SubmitMarket(side, qty)
      PROVE  BookSound'
  BY <1>3, EnterSound DEF SubmitMarket
<1>4. CASE GoesOn
  BY <1>4, FillSound, RestingSound, DoneSound DEF GoesOn
<1>5. ASSUME NEW id \in 1 .. MaxIds, Cancel(id) \/ CancelUnknown(id) PROVE BookSound'
  BY <1>1, <1>5, CancelSound DEF CancelUnknown, vars
<1>6. CASE ClearTrades
  BY <1>1, <1>6 DEF ClearTrades
<1>7. CASE UNCHANGED vars
  BY <1>1, <1>7 DEF vars
<1> QED BY <1>2, <1>3, <1>4, <1>5, <1>6, <1>7 DEF Next

LEMMA BookAlways == Spec => []BookSound
<1>1. Init => BookSound
  BY BookInit
<1>2. BookSound /\ [Next]_vars => BookSound'
  BY BookNext
<1> QED BY <1>1, <1>2, PTL DEF Spec

(* Every level of the maps is a list of orders and every handle a place,    *)
(* and a call never gives away more than it was asked for.                  *)
THEOREM MapBookTypeCorrect == Spec => []TypeOK
<1>1. ASSUME BookSound PROVE TypeOK
  <2>1. /\ DOMAIN levels = Side
        /\ \A d \in Side : /\ DOMAIN levels[d] \subseteq Prices
                           /\ \A p \in DOMAIN levels[d] : levels[d][p] \in Seq(MOrder)
    BY <1>1 DEF BookSound, IsMap, IsQueue
  <2>2. DOMAIN index \subseteq 1 .. MaxIds
    BY <1>1, IndexedAreOld DEF BookSound
  <2>3. \A id \in DOMAIN index : index[id] \in Handle
    BY <1>1 DEF BookSound, Indexes
  <2>4. call.remaining \in 0 .. call.qty
    BY <1>1 DEF BookSound, CallSound, CallType
  <2> QED BY <1>1, <2>1, <2>2, <2>3, <2>4 DEF TypeOK, BookSound
<1> QED BY <1>1, BookAlways, PTL

(* The index of cancel() names every resting order at its place and nothing *)
(* else, so cancel() never erases through the iterator of an order that is  *)
(* gone, mid-match included.                                                *)
THEOREM IndexCorrect == Spec => []IndexExact
<1>1. ASSUME BookSound PROVE IndexExact
  <2>1. IsMap(levels, Fresh) /\ Indexes(index, levels)
    BY <1>1 DEF BookSound
  <2>2. ASSUME NEW d \in Side, NEW p \in DOMAIN levels[d]
        PROVE  /\ Ids(levels[d][p]) = {o.id : o \in OrdersAt(d, p)}
               /\ \A o \in OrdersAt(d, p) : o.side = d /\ o.price = p
    <3>1. IsQueue(levels[d][p], d, p, Fresh)
      BY <2>1 DEF IsMap
    <3>2. DOMAIN levels[d][p] = 1 .. Len(levels[d][p])
      BY <3>1, QueueShape
    <3> QED BY <3>1, <3>2 DEF Ids, OrdersAt, IsQueue
  <2>3. ASSUME NEW id \in DOMAIN index
        PROVE  \E o \in OrdersAt(index[id].side, index[id].price) :
                 /\ o.id = id
                 /\ o.side = index[id].side /\ o.price = index[id].price
    <3> DEFINE d == index[id].side
               p == index[id].price
    <3>1. d \in Side /\ p \in DOMAIN levels[d] /\ id \in Ids(levels[d][p])
      BY <2>1 DEF Indexes, Handle
    <3>2. PICK o \in OrdersAt(d, p) : o.id = id
      BY <2>2, <3>1
    <3> QED BY <2>2, <3>1, <3>2
  <2>4. ASSUME NEW id \in DOMAIN index
        PROVE  id \in {o.id : o \in OrdersOf("Buy") \cup OrdersOf("Sell")}
    <3> DEFINE d == index[id].side
               p == index[id].price
    <3>1. d \in Side /\ p \in DOMAIN levels[d]
      BY <2>1 DEF Indexes, Handle
    <3>2. PICK o \in OrdersAt(d, p) : o.id = id
      BY <2>3
    <3>3. o \in OrdersOf(d)
      BY <3>1, <3>2 DEF OrdersOf
    <3> QED BY <3>1, <3>2, <3>3 DEF Side
  <2>5. ASSUME NEW o \in OrdersOf("Buy") \cup OrdersOf("Sell") PROVE o.id \in DOMAIN index
    <3>1. PICK d \in Side : o \in OrdersOf(d)
      BY DEF Side
    <3>2. PICK p \in DOMAIN levels[d] : o \in OrdersAt(d, p)
      BY <3>1 DEF OrdersOf
    <3>3. o.id \in Ids(levels[d][p])
      BY <2>2, <3>2
    <3> QED BY <2>1, <3>3 DEF Indexes
  <2>6. DOMAIN index = {o.id : o \in OrdersOf("Buy") \cup OrdersOf("Sell")}
    BY <2>4, <2>5
  <2> QED BY <2>3, <2>6 DEF IndexExact
<1> QED BY <1>1, BookAlways, PTL

(* No level is empty, the front of each is its oldest order, and the sides  *)
(* of the book do not cross: erasing a level while its list is walked, and  *)
(* resting what match() left, keep this.                                    *)
THEOREM LevelsCorrect == Spec => []LevelsSound
<1>1. ASSUME BookSound PROVE LevelsSound
  <2>1. ASSUME NEW d \in Side, NEW p \in DOMAIN levels[d]
        PROVE  /\ levels[d][p] # << >>
               /\ \A j, k \in 1 .. Len(levels[d][p]) :
                    j < k => levels[d][p][j].id < levels[d][p][k].id
    <3>1. levels[d][p] # << >> /\ IsQueue(levels[d][p], d, p, Fresh)
      BY <1>1 DEF BookSound, IsMap
    <3>2. DOMAIN levels[d][p] = 1 .. Len(levels[d][p])
      BY <3>1, QueueShape
    <3> QED BY <3>1, <3>2 DEF IsQueue
  <2> QED BY <1>1, <2>1 DEF LevelsSound, BookSound, Apart
<1> QED BY <1>1, BookAlways, PTL
-------------------------------------------------------------------------------
(* The refinement.  What is remembered for it.                              *)

Arrival   == [id : 1 .. MaxIds, qty : Nat]
TradeLine == [seq : Nat, taker : Nat, maker : Nat, price : Int, qty : Nat, side : Side]

Ascends(a) == \A j, k \in DOMAIN a : j < k => a[j].id < a[k].id

(* The orders that came to rest, by ascending ids, with an entry for each   *)
(* order still at rest; and a tape of trades.                               *)
HistorySound ==
  /\ arrivals \in Seq(Arrival) /\ Ascends(arrivals)
  /\ \A k \in DOMAIN arrivals : arrivals[k].id < Fresh
  /\ \A id \in DOMAIN index : \E k \in DOMAIN arrivals : arrivals[k].id = id
  /\ trades \in Seq(TradeLine)

HistoryInvariant == BookSound /\ HistorySound

(* ArrivalOf() in a given list of arrivals.                                 *)
Position(a, id) == CHOOSE k \in DOMAIN a : a[k].id = id

LEMMA ArrivalType ==
  ASSUME NEW a \in Seq(Arrival), NEW k \in DOMAIN a
  PROVE  a[k].id \in 1 .. MaxIds /\ a[k].qty \in Nat /\ k \in 1 .. Len(a) /\ Len(a) \in Nat
<1>1. Len(a) \in Nat /\ DOMAIN a = 1 .. Len(a) /\ a[k] \in Arrival
  BY LenProperties, ElementOfSeq
<1> QED BY <1>1 DEF Arrival

LEMMA PositionIs ==
  ASSUME NEW a \in Seq(Arrival), Ascends(a), NEW k \in DOMAIN a
  PROVE  Position(a, a[k].id) = k
<1>1. \A j \in DOMAIN a : a[j].id \in Int /\ j \in Int
  BY ArrivalType
<1>2. \A j \in DOMAIN a : a[j].id = a[k].id => j = k
  BY <1>1 DEF Ascends
<1> QED BY <1>2 DEF Position

(* An arrival is appended, all positions so far stay.                       *)
LEMMA ArrivalAppended ==
  ASSUME NEW a \in Seq(Arrival), Ascends(a), NEW r \in Arrival,
         \A k \in DOMAIN a : a[k].id < r.id
  PROVE  LET w == Append(a, r)
         IN /\ w \in Seq(Arrival) /\ Ascends(w) /\ Len(w) = Len(a) + 1
            /\ DOMAIN w = 1 .. Len(a) + 1 /\ Len(a) \in Nat /\ DOMAIN a = 1 .. Len(a)
            /\ \A k \in DOMAIN a : w[k] = a[k]
            /\ w[Len(a) + 1] = r
            /\ \A k \in DOMAIN a : /\ Position(w, a[k].id) = Position(a, a[k].id)
                                   /\ w[Position(w, a[k].id)] = a[Position(a, a[k].id)]
            /\ Position(w, r.id) = Len(a) + 1
<1> DEFINE w == Append(a, r)
<1>1. /\ w \in Seq(Arrival) /\ Len(w) = Len(a) + 1 /\ Len(a) \in Nat
      /\ \A k \in 1 .. Len(a) : w[k] = a[k]
      /\ w[Len(a) + 1] = r
  BY AppendProperties, LenProperties
<1>2. DOMAIN w = 1 .. Len(a) + 1 /\ DOMAIN a = 1 .. Len(a)
  BY <1>1, LenProperties
<1> HIDE DEF w
<1>3. Ascends(w)
  <2> SUFFICES ASSUME NEW j \in DOMAIN w, NEW k \in DOMAIN w, j < k PROVE w[j].id < w[k].id
    BY DEF Ascends
  <2>1. j \in DOMAIN a /\ w[j] = a[j]
    BY <1>1, <1>2
  <2>2. CASE k \in DOMAIN a
    BY <1>1, <1>2, <2>1, <2>2 DEF Ascends
  <2>3. CASE k \notin DOMAIN a
    <3>1. k = Len(a) + 1
      BY <1>1, <1>2, <2>3
    <3> QED BY <1>1, <2>1, <3>1
  <2> QED BY <2>2, <2>3
<1>4. ASSUME NEW k \in DOMAIN a
      PROVE  /\ Position(w, a[k].id) = Position(a, a[k].id)
             /\ w[Position(w, a[k].id)] = a[Position(a, a[k].id)]
  <2>1. Position(a, a[k].id) = k
    BY PositionIs
  <2>2. k \in DOMAIN w /\ w[k] = a[k]
    BY <1>1, <1>2
  <2>3. Position(w, w[k].id) = k
    BY <1>1, <1>3, <2>2, PositionIs
  <2> QED BY <2>1, <2>2, <2>3
<1>5. Position(w, r.id) = Len(a) + 1
  <2>1. Len(a) + 1 \in DOMAIN w
    BY <1>1, <1>2
  <2>2. Position(w, w[Len(a) + 1].id) = Len(a) + 1
    BY <1>1, <1>3, <2>1, PositionIs
  <2> QED BY <1>1, <2>2
<1> QED BY <1>1, <1>2, <1>3, <1>4, <1>5 DEF w

LEMMA HistoryInit ==
  ASSUME HInit
  PROVE  HistoryInvariant
<1>1. << >> \in Seq(Arrival) /\ << >> \in Seq(TradeLine) /\ DOMAIN << >> = {}
  BY EmptySeq
<1>2. BookSound
  BY BookInit DEF HInit
<1> QED BY <1>1, <1>2 DEF HistoryInvariant, HistorySound, HInit, Init, Ascends

(* Steps that bring no order to rest.                                       *)
LEMMA HistoryKept ==
  ASSUME HistorySound, arrivals' = arrivals, DOMAIN index' \subseteq DOMAIN index,
         Fresh \in Int, Fresh' \in Int, Fresh <= Fresh', trades' \in Seq(TradeLine)
  PROVE  HistorySound'
<1>1. \A k \in DOMAIN arrivals : arrivals[k].id \in Int
  BY ArrivalType DEF HistorySound
<1> QED BY <1>1 DEF HistorySound

LEMMA HistoryNext ==
  ASSUME HistoryInvariant, [Next /\ Remember]_<<vars, arrivals>>
  PROVE  HistoryInvariant'
<1>1. BookSound /\ HistorySound /\ BookSound'
  <2>1. [Next]_vars
    BY DEF vars
  <2> QED BY <2>1, BookNext DEF HistoryInvariant
<1>2. Fresh \in Int /\ Fresh' \in Int
  BY <1>1, FreshIsInt DEF BookSound, CallSound, CallType, Fresh
<1>3. trades \in Seq(TradeLine)
  BY <1>1 DEF HistorySound
<1>4. ASSUME DOMAIN index' \subseteq DOMAIN index, Fresh <= Fresh', trades' \in Seq(TradeLine)
      PROVE  HistorySound'
  <2>1. arrivals' = arrivals
    BY <1>4 DEF Remember, NewIds
  <2> QED BY <1>1, <1>2, <1>4, <2>1, HistoryKept
<1>5. ASSUME NEW market, NEW side, NEW price, NEW qty, Enter(market, side, price, qty)
      PROVE  HistorySound'
  <2>1. Fresh' = Fresh
    BY <1>5 DEF Enter, Fresh
  <2> QED BY <1>2, <1>3, <1>4, <1>5, <2>1 DEF Enter
<1>6. ASSUME Fill PROVE HistorySound'
  <2>1. /\ call.active /\ call.remaining > 0 /\ Crosses
        /\ index' = IF IsFilled THEN Forget(Front.id) ELSE index
        /\ trades' = Append(trades, [seq |-> tradeSeq, taker |-> call.id, maker |-> Front.id,
                                     price |-> BestPrice(MakerSide), qty |-> Traded,
                                     side |-> call.side])
    BY <1>6 DEF Fill, BestLevel, Front, Traded, IsFilled
  <2>2. DOMAIN index' \subseteq DOMAIN index
    BY <2>1 DEF Forget, Without
  <2>3. Fresh' = Fresh
    BY <1>1, <1>6 DEF Fill, Fresh, BookSound, CallSound, CallType
  <2>4. [seq |-> tradeSeq, taker |-> call.id, maker |-> Front.id,
         price |-> BestPrice(MakerSide), qty |-> Traded, side |-> call.side] \in TradeLine
    <3>1. Front \in MOrder /\ Traded \in Nat /\ BestPrice(MakerSide) \in Prices
      BY <1>1, <2>1, FillShape
    <3>2. Front.id \in Nat
      BY <3>1 DEF MOrder
    <3>3. BestPrice(MakerSide) \in Int
      BY <3>1, StreamAssumption
    <3> QED BY <1>1, <3>1, <3>2, <3>3 DEF BookSound, CallSound, CallType, TradeLine
  <2>5. trades' \in Seq(TradeLine)
    BY <1>3, <2>1, <2>4, AppendProperties
  <2> QED BY <1>2, <1>4, <2>2, <2>3, <2>5
<1>7. ASSUME ReturnResting PROVE HistorySound'
  <2> DEFINE r == [id |-> call.id, qty |-> call.qty]
  <2>1. /\ call.active /\ DOMAIN index' = DOMAIN index \cup {call.id}
        /\ trades' = trades /\ nextId' = nextId /\ ~ call'.active
    BY <1>7 DEF ReturnResting, Matched, Return, Having, NoCall
  <2>2. /\ call.id \in 1 .. MaxIds /\ call.id = nextId - 1 /\ call.qty \in Nat
        /\ Fresh = call.id /\ nextId \in Int /\ Fresh' = nextId
    BY <1>1, <2>1 DEF BookSound, CallSound, CallType, Fresh
  <2>3. call.id \notin DOMAIN index
    BY <1>1, <2>2, IndexedAreOld DEF BookSound
  <2>4. arrivals' = Append(arrivals, r)
    <3>1. NewIds # {} /\ NewIds = DOMAIN index' \ DOMAIN index
      BY <2>1, <2>3 DEF NewIds
    <3>2. Remember
      BY <2>1, <2>3 DEF vars
    <3> QED BY <3>1, <3>2 DEF Remember
  <2>5. r \in Arrival /\ r.id = call.id
    BY <2>2 DEF Arrival
  <2> HIDE DEF r
  <2>6. \A k \in DOMAIN arrivals : arrivals[k].id < r.id
    BY <1>1, <2>2, <2>5 DEF HistorySound
  <2>7. /\ arrivals' \in Seq(Arrival) /\ Ascends(arrivals')
        /\ DOMAIN arrivals' = 1 .. Len(arrivals) + 1 /\ Len(arrivals) \in Nat
        /\ DOMAIN arrivals = 1 .. Len(arrivals)
        /\ \A k \in DOMAIN arrivals : arrivals'[k] = arrivals[k]
        /\ arrivals'[Len(arrivals) + 1] = r
    BY <1>1, <2>4, <2>5, <2>6, ArrivalAppended DEF HistorySound
  <2>8. ASSUME NEW k \in DOMAIN arrivals' PROVE arrivals'[k].id < Fresh'
    <3>1. CASE k \in DOMAIN arrivals
      <4>1. arrivals[k].id < call.id /\ arrivals[k].id \in Int
        BY <1>1, <2>2, <3>1, ArrivalType DEF HistorySound
      <4> QED BY <2>2, <2>7, <3>1, <4>1
    <3>2. CASE k = Len(arrivals) + 1
      BY <2>2, <2>5, <2>7, <3>2
    <3> QED BY <2>7, <3>1, <3>2
  <2>9. ASSUME NEW id \in DOMAIN index' PROVE \E k \in DOMAIN arrivals' : arrivals'[k].id = id
    <3>1. CASE id \in DOMAIN index
      <4>1. PICK k \in DOMAIN arrivals : arrivals[k].id = id
        BY <1>1, <3>1 DEF HistorySound
      <4>2. k \in DOMAIN arrivals' /\ arrivals'[k].id = id
        BY <2>7, <4>1
      <4> QED BY <4>2
    <3>2. CASE id = call.id
      <4>1. Len(arrivals) + 1 \in DOMAIN arrivals' /\ arrivals'[Len(arrivals) + 1].id = id
        BY <2>5, <2>7, <3>2
      <4> QED BY <4>1
    <3> QED BY <2>1, <3>1, <3>2
  <2> QED BY <1>3, <2>1, <2>7, <2>8, <2>9 DEF HistorySound
<1>8. ASSUME ReturnDone PROVE HistorySound'
  <2>1. call.active /\ call' = NoCall /\ UNCHANGED <<index, nextId, trades>>
    BY <1>8 DEF ReturnDone, Matched, Return
  <2>2. Fresh <= Fresh'
    BY <1>1, <2>1, FreshIsInt DEF Fresh, NoCall
  <2> QED BY <1>3, <1>4, <2>1, <2>2
<1>9. ASSUME NEW id, Cancel(id) PROVE HistorySound'
  <2>1. DOMAIN index' \subseteq DOMAIN index /\ UNCHANGED <<call, nextId, trades>>
    BY <1>9 DEF Cancel, Forget, Without
  <2>2. Fresh' = Fresh
    BY <2>1 DEF Fresh
  <2> QED BY <1>2, <1>3, <1>4, <2>1, <2>2
<1>10. ASSUME ClearTrades PROVE HistorySound'
  <2>1. << >> \in Seq(TradeLine)
    BY EmptySeq
  <2>2. Fresh' = Fresh
    BY <1>10 DEF ClearTrades, Fresh
  <2> QED BY <1>2, <1>4, <1>10, <2>1, <2>2 DEF ClearTrades
<1>11. ASSUME UNCHANGED vars PROVE HistorySound'
  <2>1. Fresh' = Fresh /\ index' = index /\ trades' = trades
    BY <1>11 DEF Fresh, vars
  <2> QED BY <1>2, <1>3, <1>4, <2>1
<1>12. HistorySound'
  BY <1>5, <1>6, <1>7, <1>8, <1>9, <1>10, <1>11
  DEF Next, SubmitLimit, SubmitMarket, GoesOn, CancelUnknown, vars
<1> QED BY <1>1, <1>12 DEF HistoryInvariant
-------------------------------------------------------------------------------
(* The orders at rest, and what a client sees of them.                      *)

RestingIn(L) == UNION {UNION {Members(L[d][p]) : p \in DOMAIN L[d]} : d \in Side}

(* ClientOrder() with a given list of arrivals.                             *)
ClientOf(a, o) ==
  [id |-> IdOf(o.id), side |-> o.side, price |-> o.price, qty |-> a[Position(a, o.id)].qty,
   remaining |-> o.remaining, participant |-> Anonymous, seq |-> Position(a, o.id)]

SeenIn(L, a) == {ClientOf(a, o) : o \in RestingIn(L)}

ClientOrders == {ClientOrder(o) : o \in OrdersOf("Buy") \cup OrdersOf("Sell")}

LEMMA ClientFields ==
  ASSUME NEW a, NEW o
  PROVE  /\ ClientOf(a, o).id = IdOf(o.id) /\ ClientOf(a, o).side = o.side
         /\ ClientOf(a, o).price = o.price /\ ClientOf(a, o).remaining = o.remaining
         /\ ClientOf(a, o).participant = Anonymous
         /\ ClientOf(a, o).seq = Position(a, o.id)
BY DEF ClientOf

LEMMA IdsDistinct ==
  ASSUME NEW m, NEW n, IdOf(m) = IdOf(n)
  PROVE  m = n
BY DEF IdOf, MakeHandle

SeenExact == ClientOrders = SeenIn(levels, arrivals)

LEMMA SeenNow == BookSound => SeenExact
<1> SUFFICES ASSUME BookSound PROVE SeenExact
  OBVIOUS
<1>1. ASSUME NEW d \in Side, NEW p \in DOMAIN levels[d]
      PROVE  OrdersAt(d, p) = Members(levels[d][p])
  <2>1. IsQueue(levels[d][p], d, p, Fresh)
    BY DEF BookSound, IsMap
  <2>2. DOMAIN levels[d][p] = 1 .. Len(levels[d][p])
    BY <2>1, QueueShape
  <2> QED BY <2>2 DEF OrdersAt, Members
<1>2. \A d \in Side : OrdersOf(d) = UNION {Members(levels[d][p]) : p \in DOMAIN levels[d]}
  BY <1>1 DEF OrdersOf
<1>3. OrdersOf("Buy") \cup OrdersOf("Sell") = RestingIn(levels)
  BY <1>2 DEF RestingIn, Side
<1>4. \A o : ClientOrder(o) = ClientOf(arrivals, o)
  BY DEF ClientOrder, ClientOf, ArrivalOf, Position
<1> QED BY <1>3, <1>4 DEF SeenExact, ClientOrders, SeenIn

LEMMA SeenNext == BookSound' => SeenExact'
BY SeenNow, PTL

(* An order at rest is at its place, and no other has its id.               *)
LEMMA RestingFacts ==
  ASSUME BookSound, NEW o \in RestingIn(levels)
  PROVE  /\ o \in MOrder /\ o.id \in DOMAIN index /\ o.id < Fresh
         /\ o.price \in DOMAIN levels[o.side] /\ o \in Members(levels[o.side][o.price])
         /\ \A x \in RestingIn(levels) : x.id = o.id => x = o
<1>1. IsMap(levels, Fresh) /\ Indexes(index, levels)
  BY DEF BookSound
<1>2. ASSUME NEW x \in RestingIn(levels)
      PROVE  /\ x \in MOrder /\ x.id < Fresh
             /\ x.price \in DOMAIN levels[x.side]
             /\ IsQueue(levels[x.side][x.price], x.side, x.price, Fresh)
             /\ x \in Members(levels[x.side][x.price])
             /\ x.id \in DOMAIN index /\ index[x.id] = [side |-> x.side, price |-> x.price]
  <2>1. PICK d \in Side : \E p \in DOMAIN levels[d] : x \in Members(levels[d][p])
    BY DEF RestingIn
  <2>2. PICK p \in DOMAIN levels[d] : x \in Members(levels[d][p])
    BY <2>1
  <2>3. IsQueue(levels[d][p], d, p, Fresh)
    BY <1>1 DEF IsMap
  <2>4. PICK k \in DOMAIN levels[d][p] : x = levels[d][p][k]
    BY <2>2 DEF Members
  <2>5. x \in MOrder /\ x.side = d /\ x.price = p /\ x.id < Fresh
    BY <2>3, <2>4, QueueShape DEF IsQueue
  <2>6. x.id \in Ids(levels[d][p])
    BY <2>4 DEF Ids
  <2> QED BY <1>1, <2>2, <2>3, <2>5, <2>6 DEF Indexes
<1>3. ASSUME NEW x \in RestingIn(levels), x.id = o.id PROVE x = o
  <2> DEFINE lv == levels[o.side][o.price]
  <2>1. [side |-> x.side, price |-> x.price] = [side |-> o.side, price |-> o.price]
    BY <1>2, <1>3
  <2>2. x.side = o.side /\ x.price = o.price
    BY <2>1
  <2>3. x \in Members(lv) /\ o \in Members(lv) /\ IsQueue(lv, o.side, o.price, Fresh)
    BY <1>2, <2>2
  <2> HIDE DEF lv
  <2>4. PICK j \in DOMAIN lv, k \in DOMAIN lv : x = lv[j] /\ o = lv[k]
    BY <2>3 DEF Members
  <2> QED BY <1>3, <2>3, <2>4, QueueIds
<1> QED BY <1>2, <1>3

(* One list is replaced: its orders go, those of the new list come.         *)
LEMMA RestingAfter ==
  ASSUME BookSound, NEW d \in Side, NEW p \in Prices, NEW lv, Members(<< >>) = {}
  PROVE  \A o : o \in RestingIn(LevelAfter(d, p, lv)) <=>
                  \/ o \in RestingIn(levels) /\ o \notin Members(LevelOf(d, p))
                  \/ o \in Members(lv)
<1> DEFINE L == LevelAfter(d, p, lv)
<1>1. IsMap(levels, Fresh) /\ DOMAIN levels = Side
  BY DEF BookSound, IsMap
<1>2. /\ DOMAIN L = Side
      /\ \A e \in Side \ {d} : L[e] = levels[e]
      /\ lv = << >> => DOMAIN L[d] = DOMAIN levels[d] \ {p}
      /\ lv # << >> => DOMAIN L[d] = DOMAIN levels[d] \cup {p} /\ L[d][p] = lv
      /\ \A q \in DOMAIN L[d] \ {p} : q \in DOMAIN levels[d] /\ L[d][q] = levels[d][q]
  BY <1>1, LevelAfterShape
<1> HIDE DEF L
<1>3. \A e \in Side : \A q \in DOMAIN levels[e] : \A o \in Members(levels[e][q]) :
        o.side = e /\ o.price = q
  BY <1>1 DEF IsMap, IsQueue, Members
<1>4. \A e \in Side : \A q \in DOMAIN levels[e] : (e # d \/ q # p) =>
        \A o \in Members(levels[e][q]) : o \notin Members(LevelOf(d, p))
  BY <1>3 DEF LevelOf
<1>5. ASSUME NEW o \in RestingIn(L)
      PROVE  \/ o \in RestingIn(levels) /\ o \notin Members(LevelOf(d, p))
             \/ o \in Members(lv)
  <2>1. PICK e \in Side : \E q \in DOMAIN L[e] : o \in Members(L[e][q])
    BY DEF RestingIn
  <2>2. PICK q \in DOMAIN L[e] : o \in Members(L[e][q])
    BY <2>1
  <2>3. CASE e = d /\ q = p
    BY <1>2, <2>2, <2>3
  <2>4. CASE e # d \/ q # p
    <3>1. q \in DOMAIN levels[e] /\ o \in Members(levels[e][q])
      BY <1>2, <2>2, <2>4
    <3> QED BY <1>4, <2>4, <3>1 DEF RestingIn
  <2> QED BY <2>3, <2>4
<1>6. ASSUME NEW o \in RestingIn(levels), o \notin Members(LevelOf(d, p))
      PROVE  o \in RestingIn(L)
  <2>1. PICK e \in Side : \E q \in DOMAIN levels[e] : o \in Members(levels[e][q])
    BY DEF RestingIn
  <2>2. PICK q \in DOMAIN levels[e] : o \in Members(levels[e][q])
    BY <2>1
  <2>3. e # d \/ q # p
    BY <1>6, <2>2 DEF LevelOf
  <2>4. q \in DOMAIN L[e]
    BY <1>2, <2>2, <2>3
  <2>5. L[e][q] = levels[e][q]
    BY <1>2, <2>3, <2>4
  <2> QED BY <2>2, <2>4, <2>5 DEF RestingIn
<1>7. ASSUME NEW o \in Members(lv) PROVE o \in RestingIn(L)
  <2>1. p \in DOMAIN L[d] /\ o \in Members(L[d][p])
    BY <1>2, <1>7
  <2> QED BY <2>1 DEF RestingIn
<1> QED BY <1>5, <1>6, <1>7 DEF L

LEMMA NoMembers == Members(<< >>) = {}
<1>1. DOMAIN << >> = {}
  BY EmptySeq
<1> QED BY <1>1 DEF Members

(* The orders K holds are those at rest but for o, in whose place are those *)
(* of S.                                                                    *)
Swapped(K, o, S) == RestingIn(K) = (RestingIn(levels) \ {o}) \cup S

LEMMA RestingSwapped ==
  ASSUME BookSound, NEW d \in Side, NEW p \in Prices, NEW lv, NEW S,
         NEW o \in Members(LevelOf(d, p)),
         \A x : x \in Members(lv) <=> (x \in Members(LevelOf(d, p)) /\ x # o) \/ x \in S
  PROVE  Swapped(LevelAfter(d, p, lv), o, S) /\ o \in RestingIn(levels)
<1>1. \A x : x \in RestingIn(LevelAfter(d, p, lv)) <=>
                  \/ x \in RestingIn(levels) /\ x \notin Members(LevelOf(d, p))
                  \/ x \in Members(lv)
  BY NoMembers, RestingAfter
<1>2. Members(LevelOf(d, p)) \subseteq RestingIn(levels)
  BY NoMembers DEF LevelOf, RestingIn
<1> QED BY <1>1, <1>2 DEF Swapped

LEMMA SeenSwapped ==
  ASSUME BookSound, NEW K, NEW o \in RestingIn(levels), NEW S, Swapped(K, o, S), NEW a
  PROVE  SeenIn(K, a) = (SeenIn(levels, a) \ {ClientOf(a, o)}) \cup {ClientOf(a, x) : x \in S}
<1>1. ASSUME NEW x \in RestingIn(levels), ClientOf(a, x) = ClientOf(a, o) PROVE x = o
  <2>1. x.id = o.id
    BY <1>1, ClientFields, IdsDistinct
  <2> QED BY <2>1, RestingFacts
<1> QED BY <1>1 DEF SeenIn, Swapped
-------------------------------------------------------------------------------
(* The taker, and the orders it may trade with.                             *)

TifOf(market) == IF market THEN "IOC" ELSE "GTC"

TakerWith(active, c) ==
  [active |-> active, market |-> c.market, id |-> IdOf(c.id), side |-> c.side,
   price |-> c.price, qty |-> c.qty, remaining |-> c.remaining,
   tif |-> TifOf(c.market), participant |-> Anonymous]

TakerOf(c) == TakerWith(TRUE, c)

LEMMA NoTakerIs ==
  PriceTime!NoTaker =
    [active |-> FALSE, market |-> FALSE, id |-> InvalidOrderId, side |-> "Buy",
     price |-> 0, qty |-> 0, remaining |-> 0, tif |-> "GTC", participant |-> Anonymous]
BY DEF PriceTime!NoTaker, PriceTime!InvalidOrderId, InvalidOrderId, PriceTime!MakeHandle,
       MakeHandle, Anonymous

LEMMA TakerSeen ==
  /\ call.active /\ ~ MetNobody => ClientTaker = TakerOf(call)
  /\ ~ call.active \/ MetNobody => ClientTaker = PriceTime!NoTaker
BY NoTakerIs DEF ClientTaker, TakerOf, TakerWith, TifOf

LEMMA TakerNext ==
  /\ call'.active /\ ~ MetNobody' => ClientTaker' = TakerOf(call')
  /\ ~ call'.active \/ MetNobody' => ClientTaker' = PriceTime!NoTaker
BY NoTakerIs DEF ClientTaker, TakerOf, TakerWith, TifOf

LEMMA TakerFields ==
  ASSUME NEW c
  PROVE  /\ TakerOf(c).active /\ TakerOf(c).market = c.market /\ TakerOf(c).id = IdOf(c.id)
         /\ TakerOf(c).side = c.side /\ TakerOf(c).price = c.price /\ TakerOf(c).qty = c.qty
         /\ TakerOf(c).remaining = c.remaining
         /\ TakerOf(c).tif = TifOf(c.market)
         /\ TakerOf(c).participant = Anonymous
BY DEF TakerOf, TakerWith

LEMMA TakerTrades ==
  ASSUME NEW c, NEW e, NEW r, e.market = c.market, e.id = c.id, e.side = c.side,
         e.price = c.price, e.qty = c.qty, e.remaining = r
  PROVE  TakerOf(e) = [TakerOf(c) EXCEPT !.remaining = r]
<1>1. ASSUME NEW a PROVE TakerWith(a, e) = [TakerWith(a, c) EXCEPT !.remaining = r]
  BY DEF TakerWith
<1> QED BY <1>1 DEF TakerOf

(* An order at rest is in reach of the taker.                               *)
Reached(o) ==
  /\ o \in RestingIn(levels) /\ o.side = MakerSide
  /\ call.market \/ IF call.side = "Buy" THEN o.price <= call.price ELSE o.price >= call.price

LEMMA MakersSeen ==
  ASSUME BookSound
  PROVE  PriceTime!Makers(TakerOf(call)) =
           {ClientOf(arrivals, o) : o \in {x \in RestingIn(levels) : Reached(x)}}
<1> DEFINE t == TakerOf(call)
<1>1. PriceTime!Makers(t) =
        {c \in ClientOrders : c.side = Opposite(t.side) /\ PriceTime!InReach(t, c.price)}
  BY DEF PriceTime!Makers, ClientOrders, PriceTime!Opposite, Opposite
<1>2. t.side = call.side /\ t.market = call.market /\ t.price = call.price
  BY TakerFields
<1> HIDE DEF t
<1>3. \A o \in RestingIn(levels) :
        Reached(o) <=> /\ ClientOf(arrivals, o).side = Opposite(t.side)
                       /\ PriceTime!InReach(t, ClientOf(arrivals, o).price)
  BY <1>2, ClientFields DEF Reached, PriceTime!InReach, MakerSide
<1> QED BY <1>1, <1>3, SeenNow DEF t, SeenIn, SeenExact

(* Nothing is in reach once the best price is beyond the limit.             *)
LEMMA NoneReached ==
  ASSUME BookSound, call.active, ~ Crosses
  PROVE  PriceTime!Makers(TakerOf(call)) = {}
<1> SUFFICES ASSUME NEW o \in RestingIn(levels), Reached(o) PROVE FALSE
  BY MakersSeen
<1>1. /\ o.side = MakerSide /\ o.price \in DOMAIN levels[MakerSide] /\ o.price \in Int
  BY RestingFacts, StreamAssumption DEF Reached, MOrder
<1>2. CASE call.market
  BY <1>1, <1>2 DEF Crosses
<1>3. CASE ~ call.market
  <2>1. Ahead(MakerSide, call.price, o.price)
    BY <1>1, <1>3, RestIsApart
  <2>2. call.side \in Side /\ call.price \in Int
    BY DEF BookSound, CallSound, CallType
  <2>3. CASE call.side = "Buy"
    BY <1>1, <1>3, <2>1, <2>2, <2>3 DEF Reached, Ahead, MakerSide, Opposite
  <2>4. CASE call.side # "Buy"
    BY <1>1, <1>3, <2>1, <2>2, <2>4 DEF Reached, Ahead, MakerSide, Opposite
  <2> QED BY <2>3, <2>4
<1> QED BY <1>2, <1>3

(* Of two orders at rest the one with the smaller id came first.            *)
LEMMA ArrivalOrder ==
  ASSUME HistoryInvariant, NEW x \in RestingIn(levels), NEW y \in RestingIn(levels),
         x.id < y.id
  PROVE  Position(arrivals, x.id) < Position(arrivals, y.id)
<1>1. /\ BookSound /\ arrivals \in Seq(Arrival) /\ Ascends(arrivals)
      /\ \A id \in DOMAIN index : \E k \in DOMAIN arrivals : arrivals[k].id = id
  BY DEF HistoryInvariant, HistorySound
<1>2. x.id \in DOMAIN index /\ y.id \in DOMAIN index
  BY <1>1, RestingFacts
<1>3. PICK j \in DOMAIN arrivals, k \in DOMAIN arrivals :
        arrivals[j].id = x.id /\ arrivals[k].id = y.id
  BY <1>1, <1>2
<1>4. Position(arrivals, x.id) = j /\ Position(arrivals, y.id) = k
  BY <1>1, <1>3, PositionIs
<1>5. /\ j \in Int /\ k \in Int /\ arrivals[j].id \in Int /\ arrivals[k].id \in Int
  BY <1>1, ArrivalType
<1>6. ~ (k <= j)
  <2> SUFFICES ASSUME k <= j PROVE FALSE
    OBVIOUS
  <2>1. CASE k = j
    BY <1>3, <1>5, <2>1
  <2>2. CASE k < j
    <3>1. arrivals[k].id < arrivals[j].id
      BY <1>1, <2>2 DEF Ascends
    <3> QED BY <1>3, <1>5, <3>1
  <2> QED BY <1>5, <2>1, <2>2
<1> QED BY <1>4, <1>5, <1>6

(* While the best price is within the limit, the front of its list goes     *)
(* before every other order in reach.                                       *)
LEMMA FrontHasPriority ==
  ASSUME HistoryInvariant, call.active, call.remaining > 0, Crosses
  PROVE  /\ Front \in RestingIn(levels) /\ Reached(Front)
         /\ \A x \in RestingIn(levels) : Reached(x) /\ x # Front =>
              PriceTime!HasPriority(ClientOf(arrivals, Front), ClientOf(arrivals, x))
<1> DEFINE M  == MakerSide
           px == BestPrice(M)
           lv == BestLevel
<1>1. BookSound /\ CallSound /\ IsMap(levels, Fresh)
  BY DEF HistoryInvariant, BookSound
<1>2. /\ M \in Side /\ px \in DOMAIN levels[M] /\ px \in Int
      /\ IsQueue(lv, M, px, Fresh) /\ lv = levels[M][px]
      /\ Front = lv[1] /\ 1 \in DOMAIN lv /\ Front \in MOrder
      /\ Front \in Members(lv)
  BY <1>1, FillShape, StreamAssumption DEF BestLevel
<1>3. Front \in RestingIn(levels) /\ Front.side = M /\ Front.price = px
  BY <1>2 DEF RestingIn, IsQueue
<1>4. \A q \in DOMAIN levels[M] \ {px} : Ahead(M, px, q)
  BY <1>1, <1>2, BestIsFirst
<1>5. call.side \in Side /\ call.price \in Int
  BY <1>1 DEF CallSound, CallType
<1>6. call.market \/ ~ Ahead(M, call.price, px)
  BY DEF Crosses
<1> HIDE DEF M, px, lv
<1>7. Reached(Front)
  <2>1. CASE call.side = "Buy"
    BY <1>2, <1>3, <1>5, <1>6, <2>1 DEF Reached, Ahead, M, MakerSide, Opposite
  <2>2. CASE call.side # "Buy"
    BY <1>2, <1>3, <1>5, <1>6, <2>2 DEF Reached, Ahead, M, MakerSide, Opposite
  <2> QED BY <2>1, <2>2
<1>8. ASSUME NEW x \in RestingIn(levels), Reached(x), x # Front
      PROVE  PriceTime!HasPriority(ClientOf(arrivals, Front), ClientOf(arrivals, x))
  <2>1. /\ x.side = M /\ x.price \in DOMAIN levels[M] /\ x \in Members(levels[M][x.price])
        /\ x.price \in Int
    BY <1>1, <1>8, RestingFacts, StreamAssumption DEF Reached, MOrder, M
  <2>2. CASE x.price # px
    <3>1. Ahead(M, px, x.price)
      BY <1>4, <2>1, <2>2
    <3> QED BY <1>3, <2>1, <3>1, ClientFields DEF PriceTime!HasPriority, Ahead
  <2>3. CASE x.price = px
    <3>1. PICK k \in DOMAIN lv : x = lv[k]
      BY <1>2, <2>1, <2>3 DEF Members
    <3>2. k # 1 /\ k \in 1 .. Len(lv) /\ 1 < k
      BY <1>2, <1>8, <3>1, QueueShape
    <3>3. Front.id < x.id
      BY <1>2, <3>1, <3>2 DEF IsQueue
    <3>4. Position(arrivals, Front.id) < Position(arrivals, x.id)
      BY <1>3, <1>8, <3>3, ArrivalOrder
    <3> QED BY <1>3, <2>3, <3>4, ClientFields DEF PriceTime!HasPriority
  <2> QED BY <2>2, <2>3
<1> QED BY <1>3, <1>7, <1>8

(* So it is the order the price-time priority book would trade with.        *)
LEMMA FrontIsFirst ==
  ASSUME HistoryInvariant, call.active, call.remaining > 0, Crosses
  PROVE  /\ PriceTime!First(PriceTime!Makers(TakerOf(call))) = ClientOf(arrivals, Front)
         /\ PriceTime!Makers(TakerOf(call)) # {}
<1> DEFINE S == {ClientOf(arrivals, o) : o \in {x \in RestingIn(levels) : Reached(x)}}
           h == ClientOf(arrivals, Front)
           Leads(o) == \A p \in S \ {o} : PriceTime!HasPriority(o, p)
<1>1. BookSound
  BY DEF HistoryInvariant
<1>2. h \in S /\ Leads(h)
  BY FrontHasPriority
<1>3. \A o \in S : /\ o.side = h.side /\ o.price \in Int /\ o.seq \in Int
  <2>1. ASSUME NEW x \in RestingIn(levels), Reached(x)
        PROVE  x.side = MakerSide /\ x.price \in Int /\ Position(arrivals, x.id) \in Int
    <3>1. x.side = MakerSide /\ x.price \in Int /\ x.id \in DOMAIN index
      BY <1>1, <2>1, RestingFacts, StreamAssumption DEF Reached, MOrder
    <3>2. PICK k \in DOMAIN arrivals : arrivals[k].id = x.id
      BY <3>1 DEF HistoryInvariant, HistorySound
    <3>3. Position(arrivals, x.id) = k /\ k \in Int
      BY <3>2, PositionIs, ArrivalType DEF HistoryInvariant, HistorySound
    <3> QED BY <3>1, <3>3
  <2>2. Front \in RestingIn(levels) /\ Reached(Front)
    BY FrontHasPriority
  <2> QED BY <2>1, <2>2, ClientFields
<1> HIDE DEF S, h
<1>4. \A o \in S : Leads(o) => o = h
  <2> SUFFICES ASSUME NEW o \in S, Leads(o), o # h PROVE FALSE
    OBVIOUS
  <2>1. PriceTime!HasPriority(o, h) /\ PriceTime!HasPriority(h, o)
    BY <1>2
  <2> QED BY <1>2, <1>3, <2>1 DEF PriceTime!HasPriority
<1>5. PriceTime!First(S) = CHOOSE o \in S : Leads(o)
  BY DEF PriceTime!First
<1> HIDE DEF Leads
<1>6. PriceTime!First(S) = h
  BY <1>2, <1>4, <1>5
<1> QED BY <1>1, <1>2, <1>6, MakersSeen DEF S, h

(* A taker that meets somebody goes on as long as it crosses.               *)
LEMMA TradingIsCrossing ==
  ASSUME HistoryInvariant, call.active, ~ MetNobody
  PROVE  PriceTime!Trading <=> call.remaining > 0 /\ Crosses
<1>1. /\ ClientTaker = TakerOf(call) /\ TakerOf(call).active
      /\ TakerOf(call).remaining = call.remaining
  BY TakerSeen, TakerFields
<1>2. BookSound
  BY DEF HistoryInvariant
<1>3. PriceTime!Trading <=> call.remaining > 0 /\ PriceTime!Makers(TakerOf(call)) # {}
  BY <1>1 DEF PriceTime!Trading
<1> QED BY <1>2, <1>3, FrontIsFirst, NoneReached
-------------------------------------------------------------------------------
(* Every step of the baseline book is one of the price-time priority book.  *)

LEMMA ClientsKept ==
  ASSUME levels' = levels, arrivals' = arrivals
  PROVE  ClientOrders' = ClientOrders
BY DEF ClientOrders, ClientOrder, ArrivalOf, OrdersOf, OrdersAt

LEMMA TapeAppended ==
  ASSUME trades \in Seq(TradeLine), NEW t \in TradeLine, trades' = Append(trades, t)
  PROVE  ClientTape' = Append(ClientTape, [taker |-> IdOf(t.taker), maker |-> IdOf(t.maker),
                                           price |-> t.price, qty |-> t.qty,
                                           side |-> t.side])
<1> DEFINE Shown(u) == [taker |-> IdOf(u.taker), maker |-> IdOf(u.maker), price |-> u.price,
                        qty |-> u.qty, side |-> u.side]
           Line == {Shown(u) : u \in TradeLine}
           n    == Len(trades)
<1>1. n \in Nat /\ DOMAIN trades = 1 .. n /\ \A k \in 1 .. n : trades[k] \in TradeLine
  OBVIOUS
<1>2. /\ DOMAIN trades' = 1 .. n + 1
      /\ \A k \in 1 .. n : trades'[k] = trades[k]
      /\ trades'[n + 1] = t
  OBVIOUS
<1>3. ClientTape = [k \in 1 .. n |-> Shown(trades[k])]
  BY <1>1 DEF ClientTape
<1>4. ClientTape' = [k \in 1 .. n + 1 |-> Shown(trades'[k])]
  BY <1>2 DEF ClientTape
<1> HIDE DEF Shown, n
<1>5. ClientTape \in Seq(Line) /\ Len(ClientTape) = n
  <2>1. \A k \in 1 .. n : Shown(trades[k]) \in Line
    BY <1>1
  <2>2. ClientTape \in [1 .. n -> Line]
    BY <1>3, <2>1
  <2> QED BY <1>1, <2>2
<1>6. /\ Append(ClientTape, Shown(t)) \in Seq(Line)
      /\ Len(Append(ClientTape, Shown(t))) = n + 1
      /\ \A k \in 1 .. n + 1 : Append(ClientTape, Shown(t))[k] =
                              IF k = n + 1 THEN Shown(t) ELSE ClientTape[k]
  <2>1. Shown(t) \in Line
    OBVIOUS
  <2> QED BY <1>1, <1>5, <2>1
<1>7. \A k \in 1 .. n + 1 :
        Shown(trades'[k]) = IF k = n + 1 THEN Shown(t) ELSE ClientTape[k]
  BY <1>1, <1>2, <1>3
<1>8. ClientTape' \in Seq(Line) /\ Len(ClientTape') = n + 1
  <2>1. \A k \in 1 .. n + 1 : trades'[k] \in TradeLine
    BY <1>1, <1>2
  <2>2. ClientTape' \in [1 .. n + 1 -> Line]
    BY <1>4, <2>1
  <2> QED BY <1>1, <2>2
<1>9. ClientTape' = Append(ClientTape, Shown(t))
  <2> HIDE DEF Line
  <2>1. \A k \in 1 .. n + 1 : ClientTape'[k] = Append(ClientTape, Shown(t))[k]
    BY <1>4, <1>6, <1>7
  <2> QED BY <1>6, <1>8, <2>1, SeqEqual
<1> QED BY <1>9 DEF Shown

LEMMA FillExecutes ==
  ASSUME HistoryInvariant, BookSound', Fill, arrivals' = arrivals
  PROVE  PriceTime!Execute
<1> DEFINE o == ClientOf(arrivals, Front)
           f == [Front EXCEPT !.remaining = @ - Traded]
           S == IF IsFilled THEN {} ELSE {f}
           M == MakerSide
           px == BestPrice(M)
           t == [seq |-> tradeSeq, taker |-> call.id, maker |-> Front.id, price |-> px,
                 qty |-> Traded, side |-> call.side]
<1>1. /\ call.active /\ call.remaining > 0 /\ Crosses
      /\ levels' = LevelAfter(M, px, LevelLeft)
      /\ call' = [call EXCEPT !.remaining = @ - Traded, !.notional = @ + px * Traded]
      /\ trades' = Append(trades, t)
  BY DEF Fill, BestLevel, Front, Traded, IsFilled, LevelLeft
<1>2. BookSound /\ trades \in Seq(TradeLine) /\ call \in CallType /\ call.remaining <= call.qty
  BY DEF HistoryInvariant, HistorySound, BookSound, CallSound
<1>3. /\ M \in Side /\ px \in Prices /\ LevelOf(M, px) = BestLevel
      /\ Front \in MOrder /\ Front \in Members(BestLevel)
      /\ Traded \in Nat \ {0} /\ Traded <= call.remaining /\ Front.price = px
  <2>1. IsQueue(BestLevel, M, px, Fresh) /\ Front = BestLevel[1] /\ 1 \in DOMAIN BestLevel
    BY <1>1, <1>2, FillShape
  <2>2. Front.price = px
    BY <2>1 DEF IsQueue
  <2> QED BY <1>1, <1>2, <2>2, FillShape
<1>4. Members(LevelLeft) = (Members(BestLevel) \ {Front}) \cup S
  BY <1>1, <1>2, LevelLeftShape
<1>5. /\ o.id = IdOf(Front.id) /\ o.price = px /\ o.remaining = Front.remaining
      /\ o.participant = Anonymous
  BY <1>3, ClientFields
<1>6. ClientOf(arrivals, f) = [o EXCEPT !.remaining = @ - Traded]
  <2>1. /\ f.id = Front.id /\ f.side = Front.side /\ f.price = Front.price
        /\ f.remaining = Front.remaining - Traded
    BY <1>3 DEF MOrder
  <2> HIDE DEF f
  <2> QED BY <2>1 DEF ClientOf
<1> HIDE DEF f, M, px
<1>7. SeenIn(levels', arrivals) = (SeenIn(levels, arrivals) \ {o}) \cup {ClientOf(arrivals, x) : x \in S}
  <2>1. \A x : x \in Members(LevelLeft) <=>
                 (x \in Members(LevelOf(M, px)) /\ x # Front) \/ x \in S
    BY <1>3, <1>4
  <2> HIDE DEF S
  <2>2. Front \in Members(LevelOf(M, px))
    BY <1>3
  <2>3. Swapped(levels', Front, S) /\ Front \in RestingIn(levels)
    BY <1>1, <1>2, <1>3, <2>1, <2>2, RestingSwapped
  <2> QED BY <1>2, <2>3, SeenSwapped
<1>8. {ClientOf(arrivals, x) : x \in S} =
        IF o.remaining = Traded THEN {} ELSE {[o EXCEPT !.remaining = @ - Traded]}
  <2>1. CASE IsFilled
    <3>1. o.remaining = Traded /\ S = {}
      BY <1>5, <2>1 DEF IsFilled
    <3> QED BY <3>1
  <2>2. CASE ~ IsFilled
    <3>1. o.remaining # Traded /\ S = {f}
      BY <1>5, <2>2 DEF IsFilled
    <3> HIDE DEF S
    <3> QED BY <1>6, <3>1
  <2> QED BY <2>1, <2>2
<1>9. ClientOrders = SeenIn(levels, arrivals) /\ ClientOrders' = SeenIn(levels', arrivals)
  BY <1>2, SeenNow, SeenNext DEF SeenExact
<1> HIDE DEF S
<1>10. ~ MetNobody /\ ~ MetNobody'
  <2>1. /\ call.remaining \in Nat /\ call.qty \in Nat
        /\ call'.remaining = call.remaining - Traded /\ call'.qty = call.qty
    BY <1>1, <1>2 DEF CallType
  <2>2. call'.remaining # call'.qty
    BY <1>2, <1>3, <2>1
  <2> QED BY <1>1, <2>2 DEF MetNobody, Crosses
<1>11. ClientTaker = TakerOf(call) /\ ClientTaker' = [ClientTaker EXCEPT !.remaining = @ - Traded]
  <2>1. ClientTaker = TakerOf(call)
    BY <1>1, <1>10, TakerSeen
  <2>2. call'.active
    BY <1>1, <1>2 DEF CallType
  <2>3. ClientTaker' = TakerOf(call')
    BY <1>10, <2>2, TakerNext
  <2>4. /\ call'.market = call.market /\ call'.id = call.id /\ call'.side = call.side
        /\ call'.price = call.price /\ call'.qty = call.qty
        /\ call'.remaining = call.remaining - Traded
    BY <1>1, <1>2 DEF CallType
  <2>5. TakerOf(call') = [TakerOf(call) EXCEPT !.remaining = call.remaining - Traded]
    BY <2>4, TakerTrades
  <2>6. TakerOf(call).remaining = call.remaining
    BY TakerFields
  <2> QED BY <2>1, <2>3, <2>5, <2>6
<1>12. /\ ClientTaker.id = IdOf(call.id) /\ ClientTaker.side = call.side
       /\ ClientTaker.remaining = call.remaining
  BY <1>11, TakerFields
<1>13. PriceTime!Smaller(o.remaining, ClientTaker.remaining) = Traded
  <2>1. Front.remaining \in Int /\ call.remaining \in Int
    BY <1>2, <1>3 DEF MOrder, CallType
  <2> QED BY <1>5, <1>12, <2>1 DEF Traded, Smaller, PriceTime!Smaller
<1>14. ClientTape' = Append(ClientTape, [taker |-> ClientTaker.id, maker |-> o.id,
                               price |-> o.price, qty |-> Traded, side |-> ClientTaker.side])
  <2>1. t \in TradeLine
    <3>1. Front.id \in Nat /\ px \in Int /\ tradeSeq \in Nat
      <4>1. Front.id \in Nat
        BY <1>3 DEF MOrder
      <4> QED BY <1>2, <1>3, <4>1, StreamAssumption DEF BookSound
    <3> QED BY <1>2, <1>3, <3>1 DEF CallType, TradeLine
  <2>2. /\ t.taker = call.id /\ t.maker = Front.id /\ t.price = px
        /\ t.qty = Traded /\ t.side = call.side
    OBVIOUS
  <2> HIDE DEF t
  <2>3. ClientTape' = Append(ClientTape, [taker |-> IdOf(t.taker), maker |-> IdOf(t.maker),
                               price |-> t.price, qty |-> t.qty, side |-> t.side])
    BY <1>1, <1>2, <2>1, TapeAppended
  <2> QED BY <1>5, <1>12, <2>2, <2>3
<1>15. /\ PriceTime!Trading
       /\ PriceTime!First(PriceTime!Makers(ClientTaker)) = o
       /\ ~ PriceTime!SelfTrade(o)
  BY <1>1, <1>10, <1>11, TradingIsCrossing, FrontIsFirst DEF PriceTime!SelfTrade
<1> HIDE DEF o, t
<1>16. ClientOrders' = (ClientOrders \ {o}) \cup
         (IF o.remaining = Traded THEN {} ELSE {[o EXCEPT !.remaining = @ - Traded]})
  BY <1>7, <1>8, <1>9
<1>17. Len(arrivals)' = Len(arrivals)
  OBVIOUS
<1> QED BY <1>11, <1>13, <1>14, <1>15, <1>16, <1>17 DEF PriceTime!Execute, ClientOrders

(* A taker that is done leaves, and nothing it could still trade with is    *)
(* left behind.  One that met nobody was never seen.                        *)
LEMMA DoneLeaves ==
  ASSUME HistoryInvariant, ReturnDone, arrivals' = arrivals
  PROVE  PriceTime!Leave \/ UNCHANGED PriceTime!vars
<1>1. /\ call.active /\ (call.remaining = 0 \/ ~ Crosses)
      /\ call.remaining = 0 \/ call.market
      /\ call' = NoCall /\ trades' = trades /\ levels' = levels
  BY DEF ReturnDone, Matched, Return
<1>2. ClientOrders' = ClientOrders /\ ClientTape' = ClientTape
  BY <1>1, ClientsKept DEF ClientTape
<1>3. ClientTaker' = PriceTime!NoTaker
  <2>1. ~ call'.active
    BY <1>1 DEF NoCall
  <2> QED BY <2>1, TakerNext
<1>4. Len(arrivals)' = Len(arrivals)
  OBVIOUS
<1>5. CASE MetNobody
  <2>1. ClientTaker' = ClientTaker
    BY <1>3, <1>5, TakerSeen
  <2> QED BY <1>2, <1>4, <2>1 DEF PriceTime!vars, ClientOrders
<1>6. CASE ~ MetNobody
  <2>1. ClientTaker = TakerOf(call) /\ ~ PriceTime!Trading
    BY <1>1, <1>6, TakerSeen, TradingIsCrossing
  <2>2. /\ ClientTaker.active /\ ClientTaker.remaining = call.remaining
        /\ ClientTaker.market = call.market
    BY <2>1, TakerFields
  <2>3. call.remaining > 0 => call.market
    BY <1>1
  <2> QED BY <1>2, <1>3, <1>4, <2>1, <2>2, <2>3 DEF PriceTime!Leave, ClientOrders
<1> QED BY <1>5, <1>6

(* What is left of a limit order rests only when nothing is in its reach.   *)
LEMMA RestingRests ==
  ASSUME HistoryInvariant, HistoryInvariant', ReturnResting, Remember
  PROVE  PriceTime!Rest
<1> DEFINE d == call.side
           p == call.price
           lv == LevelOf(d, p)
           o == [id |-> call.id, price |-> p, side |-> d, remaining |-> call.remaining]
           r == [id |-> call.id, qty |-> call.qty]
           new == [id |-> ClientTaker.id, side |-> ClientTaker.side,
                   price |-> ClientTaker.price, qty |-> ClientTaker.qty,
                   remaining |-> ClientTaker.remaining,
                   participant |-> ClientTaker.participant, seq |-> Len(arrivals) + 1]
<1>1. /\ call.active /\ call.remaining > 0 /\ ~ call.market /\ ~ Crosses
      /\ levels' = LevelAfter(d, p, Append(lv, o))
      /\ DOMAIN index' = DOMAIN index \cup {call.id}
      /\ call' = NoCall /\ trades' = trades
  BY DEF ReturnResting, Matched, Return, LevelOf, Having
<1>2. /\ BookSound /\ BookSound' /\ call \in CallType /\ call.id \in 1 .. MaxIds
      /\ call.id \in Int /\ Fresh = call.id /\ p \in Prices /\ d \in Side
      /\ IsMap(levels, Fresh) /\ Indexes(index, levels)
      /\ arrivals \in Seq(Arrival) /\ Ascends(arrivals)
      /\ \A k \in DOMAIN arrivals : arrivals[k].id < call.id
      /\ \A id \in DOMAIN index : \E k \in DOMAIN arrivals : arrivals[k].id = id
  BY <1>1 DEF HistoryInvariant, HistorySound, BookSound, CallSound, CallType, Fresh
<1>3. call.id \notin DOMAIN index
  BY <1>2, IndexedAreOld
<1>4. arrivals' = Append(arrivals, r)
  <2>1. NewIds # {}
    BY <1>1, <1>3 DEF NewIds
  <2> QED BY <2>1 DEF Remember
<1>5. r \in Arrival /\ r.id = call.id /\ r.qty = call.qty
  BY <1>2 DEF Arrival, CallType
<1>6. /\ o \in MOrder /\ o.id = call.id /\ o.side = d /\ o.price = p
      /\ o.remaining = call.remaining
  BY <1>1, <1>2 DEF MOrder, CallType
<1>7. Members(Append(lv, o)) = Members(lv) \cup {o}
  <2>1. IsQueue(lv, d, p, call.id)
    BY <1>2, QueueNil DEF IsMap, LevelOf
  <2> DEFINE m == call.id + 1
  <2>2. m \in Int /\ call.id <= o.id /\ o.id < m
    BY <1>2
  <2> HIDE DEF lv, o, d, p, m
  <2>3. /\ IsQueue(Append(lv, o), d, p, m)
        /\ Members(Append(lv, o)) = Members(lv) \cup {o}
    BY <1>2, <1>6, <2>1, <2>2, QueueAppends
  <2> QED BY <2>3
<1> HIDE DEF r
<1>8. /\ Len(arrivals') = Len(arrivals) + 1
      /\ \A id \in DOMAIN index : /\ Position(arrivals', id) = Position(arrivals, id)
                                  /\ arrivals'[Position(arrivals', id)] =
                                     arrivals[Position(arrivals, id)]
      /\ Position(arrivals', call.id) = Len(arrivals) + 1
      /\ arrivals'[Len(arrivals) + 1].qty = call.qty
  <2>1. \A k \in DOMAIN arrivals : arrivals[k].id < r.id
    BY <1>2, <1>5
  <2>2. /\ Len(arrivals') = Len(arrivals) + 1
        /\ arrivals'[Len(arrivals) + 1] = r
        /\ \A k \in DOMAIN arrivals :
             /\ Position(arrivals', arrivals[k].id) = Position(arrivals, arrivals[k].id)
             /\ arrivals'[Position(arrivals', arrivals[k].id)] =
                arrivals[Position(arrivals, arrivals[k].id)]
        /\ Position(arrivals', r.id) = Len(arrivals) + 1
    <3> HIDE DEF d, p, lv, o, new
    <3>1. arrivals \in Seq(Arrival) /\ Ascends(arrivals)
      BY <1>2
    <3>2. r \in Arrival
      BY <1>5
    <3> DEFINE w == Append(arrivals, r)
    <3>3. /\ Len(w) = Len(arrivals) + 1
          /\ w[Len(arrivals) + 1] = r
          /\ \A k \in DOMAIN arrivals :
               /\ Position(w, arrivals[k].id) = Position(arrivals, arrivals[k].id)
               /\ w[Position(w, arrivals[k].id)] = arrivals[Position(arrivals, arrivals[k].id)]
          /\ Position(w, r.id) = Len(arrivals) + 1
      BY ONLY <2>1, <3>1, <3>2, ArrivalAppended
    <3> QED BY ONLY <1>4, <3>3
  <2>3. ASSUME NEW id \in DOMAIN index
        PROVE  /\ Position(arrivals', id) = Position(arrivals, id)
               /\ arrivals'[Position(arrivals', id)] = arrivals[Position(arrivals, id)]
    <3>1. PICK k \in DOMAIN arrivals : arrivals[k].id = id
      BY <1>2
    <3> QED BY <2>2, <3>1
  <2> QED BY <1>5, <2>2, <2>3
<1>9. ~ MetNobody
  BY <1>1 DEF MetNobody
<1>10. /\ ClientTaker = TakerOf(call) /\ ~ PriceTime!Trading
       /\ ClientTaker' = PriceTime!NoTaker
  <2>1. ~ call'.active
    BY <1>1 DEF NoCall
  <2> QED BY <1>1, <1>9, <2>1, TakerSeen, TakerNext, TradingIsCrossing
<1>11. /\ ClientTaker.active /\ ClientTaker.market = call.market
       /\ ClientTaker.id = IdOf(call.id) /\ ClientTaker.side = d
       /\ ClientTaker.price = p /\ ClientTaker.qty = call.qty
       /\ ClientTaker.remaining = call.remaining /\ ClientTaker.tif = TifOf(call.market)
       /\ ClientTaker.participant = Anonymous
  BY <1>10, TakerFields
<1>12. ClientOf(arrivals', o) = new
  BY <1>6, <1>8, <1>11 DEF ClientOf
<1> HIDE DEF o, lv, d, p
<1>13. RestingIn(levels') = RestingIn(levels) \cup {o}
  <2>1. \A x : x \in RestingIn(levels') <=>
               \/ x \in RestingIn(levels) /\ x \notin Members(lv)
               \/ x \in Members(lv) \cup {o}
    BY <1>1, <1>2, <1>7, NoMembers, RestingAfter DEF lv
  <2>2. Members(lv) \subseteq RestingIn(levels)
    BY <1>2, NoMembers DEF lv, LevelOf, RestingIn
  <2> QED BY <2>1, <2>2
<1>14. \A x \in RestingIn(levels) : ClientOf(arrivals', x) = ClientOf(arrivals, x)
  <2>1. \A x \in RestingIn(levels) : x.id \in DOMAIN index
    BY <1>2, RestingFacts
  <2> QED BY <1>8, <2>1 DEF ClientOf
<1> HIDE DEF new
<1>15. ClientOrders' = ClientOrders \cup {new}
  <2>1. SeenIn(levels', arrivals') = SeenIn(levels, arrivals) \cup {new}
    BY <1>12, <1>13, <1>14 DEF SeenIn
  <2> QED BY <1>2, <2>1, SeenNow, SeenNext DEF SeenExact
<1>16. TifOf(call.market) = "GTC" /\ ClientTape' = ClientTape
  BY <1>1 DEF TifOf, ClientTape
<1>17. (Len(arrivals) + 1)' = (Len(arrivals) + 1) + 1
  BY <1>8
<1> QED BY <1>1, <1>10, <1>11, <1>15, <1>16, <1>17 DEF PriceTime!Rest, ClientOrders, new

LEMMA CancelCancels ==
  ASSUME HistoryInvariant, BookSound', NEW id, Cancel(id), arrivals' = arrivals
  PROVE  PriceTime!Cancel
<1> DEFINE d == index[id].side
           p == index[id].price
           lv == levels[d][p]
<1>1. /\ ~ call.active /\ id \in DOMAIN index /\ UNCHANGED <<call, trades>>
  BY DEF Cancel
<1>2. BookSound /\ IsMap(levels, Fresh) /\ Indexes(index, levels)
  BY DEF HistoryInvariant, BookSound
<1>3. d \in Side /\ p \in Prices /\ p \in DOMAIN levels[d] /\ id \in Ids(lv) /\ LevelOf(d, p) = lv
  BY <1>1, <1>2 DEF Indexes, Handle, LevelOf
<1>4. levels' = LevelAfter(d, p, Erase(lv, id))
  BY <1>3 DEF Cancel
<1>5. IsQueue(lv, d, p, Fresh)
  BY <1>2, <1>3 DEF IsMap
<1> HIDE DEF d, p, lv
<1>6. PICK o \in Members(lv) : Members(Erase(lv, id)) = Members(lv) \ {o}
  BY <1>3, <1>5, QueueErase
<1>7. Swapped(levels', o, {}) /\ o \in RestingIn(levels)
  <2>1. /\ o \in Members(LevelOf(d, p))
        /\ \A x : x \in Members(Erase(lv, id)) <=>
                    (x \in Members(LevelOf(d, p)) /\ x # o) \/ x \in {}
    BY <1>3, <1>6
  <2> QED BY <1>2, <1>3, <1>4, <2>1, RestingSwapped
<1>8. SeenIn(levels', arrivals) = SeenIn(levels, arrivals) \ {ClientOf(arrivals, o)}
  <2>1. SeenIn(levels', arrivals) =
          (SeenIn(levels, arrivals) \ {ClientOf(arrivals, o)}) \cup {ClientOf(arrivals, x) : x \in {}}
    BY <1>2, <1>7, SeenSwapped
  <2> QED BY <2>1
<1>9. ClientOrders = SeenIn(levels, arrivals) /\ ClientOrders' = SeenIn(levels', arrivals)
  BY <1>2, SeenNow, SeenNext DEF SeenExact
<1>10. ClientOf(arrivals, o) \in ClientOrders
  BY <1>7, <1>9 DEF SeenIn
<1>11. \E c \in ClientOrders : ClientOrders' = ClientOrders \ {c}
  BY <1>8, <1>9, <1>10
<1>12. /\ ClientTaker = PriceTime!NoTaker /\ ClientTaker' = PriceTime!NoTaker
       /\ ClientTape' = ClientTape /\ ~ ClientTaker.active
  <2>1. ClientTaker = PriceTime!NoTaker /\ ClientTaker' = PriceTime!NoTaker
    BY <1>1, TakerSeen, TakerNext
  <2>2. ~ PriceTime!NoTaker.active
    BY DEF PriceTime!NoTaker
  <2> QED BY <1>1, <2>1, <2>2 DEF ClientTape
<1>13. Len(arrivals)' = Len(arrivals)
  OBVIOUS
<1> QED BY <1>11, <1>12, <1>13 DEF PriceTime!Cancel, ClientOrders

(* A call that enters is a taker under a new id, unless it is a market      *)
(* order that finds nobody to trade with.                                   *)
LEMMA EnterSubmits ==
  ASSUME HistoryInvariant, BookSound', arrivals' = arrivals,
         NEW market \in BOOLEAN, NEW side \in Side, NEW price, NEW qty \in Quantities,
         (market /\ price = 0) \/ (~ market /\ price \in Prices),
         Enter(market, side, price, qty)
  PROVE  PriceTime!Submit \/ UNCHANGED PriceTime!vars
<1> DEFINE c == call'
           t == TakerOf(c)
<1>1. /\ ~ call.active /\ nextId <= MaxIds /\ levels' = levels /\ trades' = trades
      /\ c = [active |-> TRUE, market |-> market, side |-> side, price |-> price,
              qty |-> qty, id |-> nextId, remaining |-> qty, notional |-> 0]
  BY DEF Enter
<1>2. /\ c.active /\ c.market = market /\ c.side = side /\ c.price = price /\ c.qty = qty
      /\ c.id = nextId /\ c.remaining = qty
  BY <1>1
<1>3. /\ BookSound /\ nextId \in 1 .. MaxIds /\ Fresh = nextId /\ qty \in Nat /\ qty > 0
  BY <1>1, StreamAssumption DEF HistoryInvariant, BookSound, Fresh
<1>4. ClientTaker = PriceTime!NoTaker /\ ~ ClientTaker.active
  <2>1. ClientTaker = PriceTime!NoTaker
    BY <1>1, TakerSeen
  <2> QED BY <2>1 DEF PriceTime!NoTaker
<1>5. ClientOrders' = ClientOrders /\ ClientTape' = ClientTape /\ Len(arrivals)' = Len(arrivals)
  BY <1>1, ClientsKept DEF ClientTape
<1>6. CASE MetNobody'
  <2>1. ClientTaker' = ClientTaker
    BY <1>4, <1>6, TakerNext
  <2> QED BY <1>5, <2>1 DEF PriceTime!vars, ClientOrders
<1>7. CASE ~ MetNobody'
  <2>1. ClientTaker' = t
    BY <1>2, <1>7, TakerNext
  <2> HIDE DEF c
  <2>2. /\ t.active /\ t.market = market /\ t.id = IdOf(nextId) /\ t.side = side
        /\ t.price = price /\ t.qty = qty /\ t.remaining = qty
        /\ t.tif = TifOf(market) /\ t.participant = Anonymous
    BY <1>2, TakerFields
  <2>3. t \in PriceTime!Taker
    <3>1. IdOf(nextId) \in {IdOf(n) : n \in 1 .. MaxIds} /\ price \in Prices \cup {0}
      BY <1>3
    <3>2. TifOf(market) \in PriceTime!TimeInForce /\ side \in PriceTime!Side
      BY DEF TifOf, PriceTime!TimeInForce, PriceTime!Side, Side
    <3>3. t = [active |-> TRUE, market |-> market, id |-> IdOf(nextId), side |-> side,
               price |-> price, qty |-> qty, remaining |-> qty,
               tif |-> TifOf(market), participant |-> Anonymous]
      BY <1>2 DEF TakerOf, TakerWith
    <3> HIDE DEF t
    <3> QED BY <1>3, <3>1, <3>2, <3>3 DEF PriceTime!Taker
  <2> HIDE DEF t
  <2>4. \A x \in ClientOrders : x.id # t.id
    <3>1. \A o \in RestingIn(levels) : o.id # nextId
      <4>1. \A o \in RestingIn(levels) : o.id < nextId /\ o.id \in Int
        BY <1>3, RestingFacts DEF MOrder
      <4> QED BY <1>3, <4>1
    <3>2. \A o \in RestingIn(levels) : ClientOf(arrivals, o).id # t.id
      BY <2>2, <3>1, ClientFields, IdsDistinct
    <3> QED BY <1>3, <3>2, SeenNow DEF SeenExact, SeenIn
  <2>5. PriceTime!Enters(t)
    BY <1>3, <2>2, <2>3, <2>4 DEF PriceTime!Enters, ClientOrders
  <2>6. market => PriceTime!Makers(t) # {}
    <3> SUFFICES ASSUME market PROVE PriceTime!Makers(t) # {}
      OBVIOUS
    <3> DEFINE M == Opposite(side)
    <3>1. M \in Side /\ DOMAIN levels[M] # {}
      <4>1. MakerSide' = M
        BY <1>2 DEF MakerSide, c
      <4>2. DOMAIN levels'[M] # {}
        BY <1>2, <1>7, <4>1 DEF MetNobody, c
      <4> QED BY <1>1, <4>2, SidesOpposite
    <3>2. PICK p \in DOMAIN levels[M] : IsQueue(levels[M][p], M, p, Fresh) /\ levels[M][p] # << >>
      BY <1>3, <3>1 DEF BookSound, IsMap
    <3> DEFINE o == levels[M][p][1]
    <3>3. o \in RestingIn(levels) /\ o.side = M
      <4>1. 1 \in DOMAIN levels[M][p]
        BY <3>2, QueueShape
      <4>2. o \in Members(levels[M][p]) /\ o.side = M
        BY <3>2, <4>1 DEF Members, IsQueue
      <4> QED BY <3>1, <4>2 DEF RestingIn
    <3> HIDE DEF o, M
    <3>4. ClientOf(arrivals, o) \in ClientOrders /\ ClientOf(arrivals, o).side = M
      BY <1>3, <3>3, SeenNow, ClientFields DEF SeenExact, SeenIn
    <3>5. ClientOf(arrivals, o) \in PriceTime!Makers(t)
      BY <2>2, <3>4 DEF PriceTime!Makers, PriceTime!InReach, PriceTime!Opposite, Opposite,
                        ClientOrders, M
    <3> QED BY <3>5
  <2>7. t.tif # "FOK"
    BY <2>2 DEF TifOf
  <2> QED BY <1>4, <1>5, <2>1, <2>2, <2>5, <2>6, <2>7 DEF PriceTime!Submit, ClientOrders
<1> QED BY <1>6, <1>7

LEMMA ClearTradesClearsTape ==
  ASSUME ClearTrades, arrivals' = arrivals
  PROVE  PriceTime!ClearTape
<1>1. ~ call.active /\ trades' = << >> /\ call' = call /\ levels' = levels
  BY DEF ClearTrades
<1>2. ClientTaker = PriceTime!NoTaker /\ ClientTaker' = PriceTime!NoTaker
  BY <1>1, TakerSeen, TakerNext
<1>3. ~ ClientTaker.active
  BY <1>2 DEF PriceTime!NoTaker
<1>4. ClientTape' = << >>
  BY <1>1 DEF ClientTape
<1>5. ClientOrders' = ClientOrders /\ Len(arrivals)' = Len(arrivals)
  BY <1>1, ClientsKept
<1> QED BY <1>2, <1>3, <1>4, <1>5 DEF PriceTime!ClearTape, ClientOrders

LEMMA BookStutters ==
  ASSUME UNCHANGED vars, arrivals' = arrivals
  PROVE  UNCHANGED PriceTime!vars
<1>1. levels' = levels /\ call' = call /\ trades' = trades
  BY DEF vars
<1>2. ClientOrders' = ClientOrders /\ Len(arrivals)' = Len(arrivals)
  BY <1>1, ClientsKept
<1>3. ClientTape' = ClientTape /\ ClientTaker' = ClientTaker
  BY <1>1 DEF ClientTape, ClientTaker, MetNobody, MakerSide
<1> QED BY <1>2, <1>3 DEF PriceTime!vars, ClientOrders

LEMMA InitImplements == HInit => PriceTime!Init
<1> SUFFICES ASSUME HInit PROVE PriceTime!Init
  OBVIOUS
<1>1. /\ levels = [d \in Side |-> << >>] /\ call = NoCall /\ trades = << >>
      /\ arrivals = << >>
  BY DEF HInit, Init
<1>2. ClientOrders = {}
  <2>1. \A d \in Side : DOMAIN levels[d] = {}
    <3>1. \A d \in Side : levels[d] = << >>
      BY <1>1
    <3>2. DOMAIN << >> = {}
      BY EmptySeq
    <3> QED BY <3>1, <3>2
  <2>2. OrdersOf("Buy") = {} /\ OrdersOf("Sell") = {}
    BY <2>1 DEF OrdersOf, Side
  <2> QED BY <2>2 DEF ClientOrders
<1>3. ClientTaker = PriceTime!NoTaker
  <2>1. ~ call.active
    BY <1>1 DEF NoCall
  <2> QED BY <2>1, TakerSeen
<1>4. ClientTape = << >> /\ Len(arrivals) + 1 = 1
  BY <1>1 DEF ClientTape
<1> QED BY <1>2, <1>3, <1>4 DEF PriceTime!Init, ClientOrders

LEMMA StepImplements ==
  HistoryInvariant /\ [Next /\ Remember]_<<vars, arrivals>> =>
    [PriceTime!Next]_PriceTime!vars
<1> SUFFICES ASSUME HistoryInvariant, [Next /\ Remember]_<<vars, arrivals>>
             PROVE  PriceTime!Next \/ UNCHANGED PriceTime!vars
  OBVIOUS
<1> DEFINE Goal == PriceTime!Next \/ UNCHANGED PriceTime!vars
<1>1. HistoryInvariant' /\ BookSound'
  BY HistoryNext DEF HistoryInvariant
<1>2. DOMAIN index' \subseteq DOMAIN index => arrivals' = arrivals
  BY DEF Remember, NewIds
<1>3. ASSUME NEW side \in Side, NEW price \in Prices, NEW qty \in Quantities,
             SubmitLimit(side, price, qty)
      PROVE  Goal
  <2>1. arrivals' = arrivals
    BY <1>2, <1>3 DEF SubmitLimit, Enter
  <2> QED BY <1>1, <1>3, <2>1, EnterSubmits DEF SubmitLimit, PriceTime!Next
<1>4. ASSUME NEW side \in Side, NEW qty \in Quantities, SubmitMarket(side, qty) PROVE Goal
  <2>1. arrivals' = arrivals
    BY <1>2, <1>4 DEF SubmitMarket, Enter
  <2> QED BY <1>1, <1>4, <2>1, EnterSubmits DEF SubmitMarket, PriceTime!Next
<1>5. ASSUME Fill PROVE Goal
  <2>1. DOMAIN index' \subseteq DOMAIN index
    BY <1>5 DEF Fill, Forget, Without
  <2> QED BY <1>1, <1>2, <1>5, <2>1, FillExecutes DEF PriceTime!Next
<1>6. ASSUME ReturnResting PROVE Goal
  <2>1. Remember
    <3>1. CASE Remember
      BY <3>1
    <3>2. CASE UNCHANGED <<vars, arrivals>>
      <4>1. call.active /\ ~ call'.active /\ call' = call
        BY <1>6, <3>2 DEF vars, ReturnResting, Matched, Return, NoCall
      <4> QED BY <4>1
    <3> QED BY <3>1, <3>2
  <2> QED BY <1>1, <1>6, <2>1, RestingRests DEF PriceTime!Next
<1>7. ASSUME ReturnDone PROVE Goal
  <2>1. arrivals' = arrivals
    BY <1>2, <1>7 DEF ReturnDone
  <2> QED BY <1>7, <2>1, DoneLeaves DEF PriceTime!Next
<1>8. ASSUME NEW id, Cancel(id) PROVE Goal
  <2>1. DOMAIN index' \subseteq DOMAIN index
    BY <1>8 DEF Cancel, Forget, Without
  <2> QED BY <1>1, <1>2, <1>8, <2>1, CancelCancels DEF PriceTime!Next
<1>9. ASSUME ClearTrades PROVE Goal
  <2>1. arrivals' = arrivals
    BY <1>2, <1>9 DEF ClearTrades
  <2> QED BY <1>9, <2>1, ClearTradesClearsTape DEF PriceTime!Next
<1>10. ASSUME UNCHANGED vars PROVE Goal
  <2>1. arrivals' = arrivals
    BY <1>2, <1>10 DEF vars
  <2> QED BY <1>10, <2>1, BookStutters
<1> HIDE DEF Goal
<1>11. Goal
  BY <1>3, <1>4, <1>5, <1>6, <1>7, <1>8, <1>9, <1>10 DEF Next, GoesOn, CancelUnknown, vars
<1> QED BY <1>11 DEF Goal

(* Every behaviour of the baseline book is one of the price-time priority   *)
(* book the engine implements: begin() of the ordered map is the best price *)
(* on both sides, the front of its list arrived first, a match leaves       *)
(* nothing in reach behind, and cancel() takes out its order alone.         *)
THEOREM MapBookImplements == HSpec => ImplementsPriceTime
<1>1. HInit => HistoryInvariant
  BY HistoryInit
<1>2. HistoryInvariant /\ [Next /\ Remember]_<<vars, arrivals>> => HistoryInvariant'
  BY HistoryNext
<1>3. HSpec => []HistoryInvariant
  BY <1>1, <1>2, PTL DEF HSpec
<1> QED BY <1>3, InitImplements, StepImplements, PTL
        DEF HSpec, ImplementsPriceTime, PriceTime!Spec
===============================================================================
