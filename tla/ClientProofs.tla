----------------------------- MODULE ClientProofs ------------------------------
(***************************************************************************)
(* What validate() finds in every reachable state of the matching engine:  *)
(* queues that list their orders once, in arrival order, linked both ways; *)
(* what a fill-or-kill order may count on once it is admitted; and what    *)
(* clients can rely on: no accepted order is lost, an id whose order is    *)
(* gone stays dead, the quantities a client reads are those the tape told  *)
(* it.  Then the market simulator, a client: it drives the engine by calls *)
(* the engine's specification knows, its limit orders never trade, every   *)
(* trade is reported once, and the list it cancels from names every order  *)
(* at rest and few that are dead.  For all values of the constants; ids,   *)
(* tape and list as long as fewer orders enter between two clear() than    *)
(* there are generations.                                                  *)
(***************************************************************************)
EXTENDS OrderBookMonitor, MarketSimulator, RefinementProofs

(* A queue, walked from the head of its level.                              *)

(* The equation that defines the walk from slot h.                          *)
Walk(b, h, w) ==
  w = [d \in 0 .. MaxSlots |->
         IF d = 0 THEN h
         ELSE LET s == w[d - 1] IN IF s = NoSlot THEN NoSlot ELSE b.pool[s].next]

(* The slots a walk meets before it ends.                                   *)
Along(w) ==
  [k \in 1 .. Cardinality({d \in 0 .. MaxSlots : w[d] # NoSlot}) |-> w[k - 1]]

LEMMA QueueIsWalk ==
  ASSUME NEW b, NEW side, NEW i
  PROVE  Queue(b, side, i) = Along(CHOOSE v : Walk(b, b.level[side][i].head, v))
BY DEF Queue, Walk, Along

(* The equation has a solution: a walk of m steps is extended by one.       *)
LEMMA WalkExists ==
  ASSUME NEW b, NEW h
  PROVE  \E w : Walk(b, h, w)
<1> DEFINE Step(m, w) ==
             w = [d \in 0 .. m |->
                    IF d = 0 THEN h
                    ELSE IF w[d - 1] = NoSlot THEN NoSlot ELSE b.pool[w[d - 1]].next]
           G == {m \in Nat : \E w : Step(m, w)}
<1>1. 0 \in G
  <2>1. Step(0, [d \in 0 .. 0 |-> h])
    OBVIOUS
  <2> QED BY <2>1
<1>2. ASSUME NEW m \in Nat, m \in G PROVE m + 1 \in G
  <2>1. PICK w : Step(m, w)
    BY <1>2
  <2> DEFINE v == [d \in 0 .. m + 1 |->
                     IF d = 0 THEN h
                     ELSE IF w[d - 1] = NoSlot THEN NoSlot ELSE b.pool[w[d - 1]].next]
  <2>2. \A d \in 0 .. m : v[d] = w[d]
    <3> DEFINE x == [d \in 0 .. m |->
                       IF d = 0 THEN h
                       ELSE IF w[d - 1] = NoSlot THEN NoSlot ELSE b.pool[w[d - 1]].next]
    <3>1. w = x
      BY <2>1
    <3>2. \A d \in 0 .. m : v[d] = x[d]
      OBVIOUS
    <3> HIDE DEF x, v
    <3> QED BY <3>1, <3>2
  <2>3. \A d \in 0 .. m + 1 : d # 0 => d - 1 \in 0 .. m
    OBVIOUS
  <2>4. \A d \in 0 .. m + 1 : d # 0 => w[d - 1] = v[d - 1]
    BY <2>2, <2>3
  <2>5. Step(m + 1, v)
    BY <2>4
  <2> HIDE DEF Step, v
  <2> QED BY <2>5
<1> HIDE DEF G
<1>3. Nat \subseteq G
  BY <1>1, <1>2, NatGood
<1>4. PICK w : Step(MaxSlots, w)
  BY <1>3, WidthAssumption DEF G
<1>5. Walk(b, h, w)
  BY <1>4 DEF Walk
<1> QED BY <1>5

(* A walk goes from order to order of its level until there is none left.   *)
LEMMA WalkSteps ==
  ASSUME NEW b \in Book, NEW side \in Side, NEW i \in Index, NEW w,
         Linked(b), EndsExact(b), Walk(b, b.level[side][i].head, w)
  PROVE  /\ w[0] = b.level[side][i].head
         /\ \A d \in Nat : d <= MaxSlots => w[d] \in OrdersAt(b, side, i) \cup {NoSlot}
         /\ \A d \in Nat : d + 1 <= MaxSlots =>
              w[d + 1] = IF w[d] = NoSlot THEN NoSlot ELSE b.pool[w[d]].next
<1> DEFINE Good == OrdersAt(b, side, i) \cup {NoSlot}
           G == {d \in Nat : d <= MaxSlots => w[d] \in Good}
<1>1. MaxSlots \in Nat
  BY WidthAssumption
<1>2. w[0] = b.level[side][i].head
  BY <1>1 DEF Walk
<1>3. \A d \in Nat : d + 1 <= MaxSlots =>
        w[d + 1] = IF w[d] = NoSlot THEN NoSlot ELSE b.pool[w[d]].next
  <2> SUFFICES ASSUME NEW d \in Nat, d + 1 <= MaxSlots
               PROVE  w[d + 1] = IF w[d] = NoSlot THEN NoSlot ELSE b.pool[w[d]].next
    OBVIOUS
  <2>1. d + 1 \in 0 .. MaxSlots /\ d + 1 # 0 /\ (d + 1) - 1 = d
    BY SMTT(20), <1>1
  <2>2. w[d + 1] = IF w[(d + 1) - 1] = NoSlot THEN NoSlot ELSE b.pool[w[(d + 1) - 1]].next
    BY <2>1 DEF Walk
  <2> QED BY <2>1, <2>2
<1>4. 0 \in G
  BY <1>2 DEF EndsExact
<1>5. ASSUME NEW d \in Nat, d \in G PROVE d + 1 \in G
  <2> SUFFICES ASSUME d + 1 <= MaxSlots PROVE w[d + 1] \in Good
    OBVIOUS
  <2>1. w[d] \in Good
    BY <1>1, <1>5
  <2>2. CASE w[d] = NoSlot
    BY <1>3, <2>2
  <2>3. CASE w[d] # NoSlot
    <3>1. /\ w[d] \in RestingSlots(b) /\ b.pool[w[d]].side = side /\ b.pool[w[d]].level = i
      BY <2>1, <2>3 DEF OrdersAt
    <3>2. w[d + 1] = b.pool[w[d]].next
      BY <1>3, <2>3
    <3> QED BY <3>1, <3>2, Neighbours
  <2> QED BY <2>2, <2>3
<1> HIDE DEF G
<1>6. Nat \subseteq G
  BY <1>4, <1>5, NatGood
<1> QED BY <1>2, <1>3, <1>6 DEF G
(* It meets them in the order they arrived in ...                           *)
LEMMA WalkArrivals ==
  ASSUME NEW b \in Book, NEW side \in Side, NEW i \in Index, NEW w,
         Linked(b), EndsExact(b), Walk(b, b.level[side][i].head, w)
  PROVE  \A d \in Nat : \A m \in Nat :
           d <= MaxSlots /\ w[d] # NoSlot /\ m < d =>
             w[m] # NoSlot /\ b.pool[w[m]].seq < b.pool[w[d]].seq
<1> DEFINE Before(d) ==
             \A m \in Nat : d <= MaxSlots /\ w[d] # NoSlot /\ m < d =>
               w[m] # NoSlot /\ b.pool[w[m]].seq < b.pool[w[d]].seq
           G == {d \in Nat : Before(d)}
<1>1. 0 \in G
  OBVIOUS
<1>2. ASSUME NEW d \in Nat, d \in G PROVE d + 1 \in G
  <2> SUFFICES ASSUME d + 1 <= MaxSlots, w[d + 1] # NoSlot, NEW m \in Nat, m < d + 1
               PROVE  w[m] # NoSlot /\ b.pool[w[m]].seq < b.pool[w[d + 1]].seq
    OBVIOUS
  <2>1. w[d] # NoSlot /\ w[d + 1] = b.pool[w[d]].next
    BY WalkSteps
  <2>2. d <= MaxSlots /\ w[d] \in OrdersAt(b, side, i) \cup {NoSlot}
    BY WalkSteps, WidthAssumption
  <2>3. w[d] \in RestingSlots(b) /\ w[d + 1] \in RestingSlots(b)
        /\ b.pool[w[d + 1]].seq > b.pool[w[d]].seq
    <3>1. w[d] \in RestingSlots(b)
      BY <2>1, <2>2 DEF OrdersAt
    <3> QED BY <2>1, <3>1, Neighbours DEF OrdersAt
  <2>4. b.pool[w[d]].seq \in Nat /\ b.pool[w[d + 1]].seq \in Nat
    BY <2>3, OrderType DEF RestingSlots
  <2>5. CASE m = d
    BY <2>1, <2>3, <2>4, <2>5
  <2>6. CASE m < d
    <3>1. w[m] # NoSlot /\ b.pool[w[m]].seq < b.pool[w[d]].seq
      BY <1>2, <2>1, <2>2, <2>6
    <3>2. w[m] \in RestingSlots(b)
      BY <2>2, <2>6, <3>1, WalkSteps, WidthAssumption DEF OrdersAt
    <3>3. b.pool[w[m]].seq \in Nat
      BY <3>2, OrderType DEF RestingSlots
    <3> QED BY <2>3, <2>4, <3>1, <3>3
  <2> QED BY <2>5, <2>6
<1> HIDE DEF G
<1>3. Nat \subseteq G
  BY <1>1, <1>2, NatGood
<1> QED BY <1>3 DEF G

(* ... and ends before the pool is used up ...                              *)
LEMMA WalkEnds ==
  ASSUME NEW b \in Book, NEW side \in Side, NEW i \in Index, NEW w,
         Linked(b), EndsExact(b), Walk(b, b.level[side][i].head, w)
  PROVE  \E z \in 0 .. MaxSlots :
           /\ \A d \in 0 .. MaxSlots : w[d] # NoSlot <=> d < z
           /\ \A d \in 0 .. z - 1 : w[d] \in OrdersAt(b, side, i)
           /\ \A m, d \in 0 .. z - 1 : m < d => b.pool[w[m]].seq < b.pool[w[d]].seq
<1> DEFINE Ended == {d \in 0 .. MaxSlots : w[d] = NoSlot}
<1>1. MaxSlots \in Nat /\ MaxSlots > 0
  BY WidthAssumption
<1>2. /\ \A d \in 0 .. MaxSlots : w[d] \in OrdersAt(b, side, i) \cup {NoSlot}
      /\ \A d \in 0 .. MaxSlots : w[d] # NoSlot => w[d] \in OrdersAt(b, side, i)
      /\ \A s \in OrdersAt(b, side, i) : s \in Slot /\ b.pool[s].seq \in Nat
  <2>1. \A d \in 0 .. MaxSlots : w[d] \in OrdersAt(b, side, i) \cup {NoSlot}
    BY WalkSteps
  <2> QED BY <2>1, OrderType DEF OrdersAt, RestingSlots
<1>3. \A m, d \in 0 .. MaxSlots :
        w[d] # NoSlot /\ m < d => w[m] # NoSlot /\ b.pool[w[m]].seq < b.pool[w[d]].seq
  BY <1>1, WalkArrivals
<1>4. Ended # {}
  <2> SUFFICES ASSUME Ended = {} PROVE FALSE
    OBVIOUS
  <2> DEFINE S == 0 .. MaxSlots
             f == [d \in S |-> w[d]]
  <2>1. f \in [S -> Slot]
    BY <1>2
  <2>2. IsFiniteSet(S) /\ Cardinality(S) = MaxSlots + 1
        /\ IsFiniteSet(Slot) /\ Cardinality(Slot) = MaxSlots
    BY <1>1, FS_Interval DEF Slot
  <2>3. \A m, d \in S : m < d => f[m] # f[d]
    BY <1>2, <1>3
  <2>4. \A m, d \in S : m # d => f[m] # f[d]
    BY <1>1, <2>3
  <2> HIDE DEF S, f
  <2>5. \E m, d \in S : m # d /\ f[m] = f[d]
    BY <1>1, <2>1, <2>2, FS_PigeonHole
  <2> QED BY <2>4, <2>5
<1>5. Ended \in SUBSET Nat
  BY <1>1
<1>6. PICK z \in Ended : \A d \in Ended : z <= d
  <2> HIDE DEF Ended
  <2> QED BY <1>4, <1>5, LeastExists
<1>7. \A d \in 0 .. MaxSlots : w[d] # NoSlot <=> d < z
  <2>1. \A d \in 0 .. MaxSlots : d < z => w[d] # NoSlot
    BY <1>1, <1>6
  <2>2. \A d \in 0 .. MaxSlots : d > z => w[d] = NoSlot
    BY <1>1, <1>3, <1>6
  <2> QED BY <1>1, <1>6, <2>1, <2>2
<1>8. /\ \A d \in 0 .. z - 1 : d \in 0 .. MaxSlots /\ d < z
      /\ z \in 0 .. MaxSlots
  BY <1>1, <1>6
<1> QED BY <1>2, <1>3, <1>7, <1>8

(* ... having met every order of the level: the first it missed would be    *)
(* behind one that it met.                                                  *)
LEMMA WalkMeetsAll ==
  ASSUME NEW b \in Book, NEW side \in Side, NEW i \in Index, NEW w, NEW z \in 0 .. MaxSlots,
         Linked(b), EndsExact(b), Walk(b, b.level[side][i].head, w),
         \A d \in 0 .. MaxSlots : w[d] # NoSlot <=> d < z
  PROVE  \A t \in OrdersAt(b, side, i) : \E d \in 0 .. z - 1 : w[d] = t
<1> DEFINE met    == {w[d] : d \in 0 .. z - 1}
           missed == OrdersAt(b, side, i) \ met
           times  == {b.pool[t].seq : t \in missed}
<1> SUFFICES ASSUME missed # {} PROVE FALSE
  OBVIOUS
<1>1. MaxSlots \in Nat /\ z \in Nat /\ z <= MaxSlots
  BY WidthAssumption
<1>2. \A t \in OrdersAt(b, side, i) :
        t \in RestingSlots(b) /\ t \in Slot /\ b.pool[t].seq \in Nat
        /\ b.pool[t].side = side /\ b.pool[t].level = i
  BY OrderType DEF OrdersAt, RestingSlots
<1>3. PICK t \in missed : \A u \in missed : b.pool[t].seq <= b.pool[u].seq
  <2>1. times \in SUBSET Nat /\ times # {}
    BY <1>2
  <2>2. \E j \in times : \A k \in times : j <= k
    <3> HIDE DEF times
    <3> QED BY <2>1, LeastExists
  <2> QED BY <2>2
<1>4. t \in RestingSlots(b) /\ b.pool[t].side = side /\ b.pool[t].level = i
      /\ t \in Slot
  BY <1>2, <1>3
<1>5. CASE b.pool[t].prev = NoSlot
  <2>1. w[0] = t
    <3>1. b.level[b.pool[t].side][b.pool[t].level].head = t
      BY <1>4, <1>5 DEF Linked
    <3>2. w[0] = b.level[side][i].head
      BY WalkSteps
    <3> QED BY <1>4, <3>1, <3>2
  <2>2. 0 < z
    BY <1>1, <1>4, <2>1 DEF Slot, NoSlot
  <2> QED BY <1>1, <1>3, <2>1, <2>2
<1>6. CASE b.pool[t].prev # NoSlot
  <2> DEFINE p == b.pool[t].prev
  <2>1. p \in OrdersAt(b, side, i) /\ b.pool[p].next = t /\ b.pool[t].seq > b.pool[p].seq
    BY <1>4, <1>6, Neighbours
  <2> HIDE DEF p
  <2>2. p \in met
    BY <1>2, <1>3, <1>4, <2>1
  <2>3. PICK d \in 0 .. z - 1 : w[d] = p
    BY <2>2
  <2>4. d \in Nat /\ d + 1 <= MaxSlots /\ d + 1 \in 0 .. MaxSlots
    BY <1>1, <2>3
  <2>5. p # NoSlot
    BY <1>2, <2>1 DEF Slot, NoSlot
  <2>6. w[d + 1] = t
    BY <2>1, <2>3, <2>4, <2>5, WalkSteps
  <2>7. d + 1 < z
    BY <1>4, <2>4, <2>6 DEF Slot, NoSlot
  <2>8. d + 1 \in 0 .. z - 1
    BY <1>1, <2>4, <2>7
  <2> QED BY <1>3, <2>6, <2>8
<1> QED BY <1>5, <1>6
(* A queue lists the orders of its level, each once and in arrival order.   *)
LEMMA QueueLists ==
  ASSUME NEW b \in Book, NEW side \in Side, NEW i \in Index, Linked(b), EndsExact(b)
  PROVE  \E z \in Nat :
           LET q == Queue(b, side, i)
           IN /\ q \in [1 .. z -> OrdersAt(b, side, i)]
              /\ \A s \in OrdersAt(b, side, i) : \E k \in 1 .. z : q[k] = s
              /\ \A j, k \in 1 .. z : j < k => b.pool[q[j]].seq < b.pool[q[k]].seq
              /\ z > 0 => q[1] = b.level[side][i].head /\ b.pool[q[z]].next = NoSlot
              /\ \A k \in 1 .. z : k > 1 => b.pool[q[k - 1]].next = q[k]
              /\ z = Cardinality(OrdersAt(b, side, i))
<1> DEFINE w == CHOOSE v : Walk(b, b.level[side][i].head, v)
           q == Queue(b, side, i)
           S == OrdersAt(b, side, i)
<1>1. Walk(b, b.level[side][i].head, w)
  BY WalkExists
<1>2. q = Along(w)
  BY QueueIsWalk
<1> HIDE DEF w, q, S
<1>3. PICK z \in 0 .. MaxSlots :
        /\ \A d \in 0 .. MaxSlots : w[d] # NoSlot <=> d < z
        /\ \A d \in 0 .. z - 1 : w[d] \in S
        /\ \A m, d \in 0 .. z - 1 : m < d => b.pool[w[m]].seq < b.pool[w[d]].seq
  BY <1>1, WalkEnds DEF S
<1>4. \A s \in S : \E d \in 0 .. z - 1 : w[d] = s
  BY <1>1, <1>3, WalkMeetsAll DEF S
<1>5. MaxSlots \in Nat /\ z \in Nat /\ z <= MaxSlots
  BY <1>3, WidthAssumption
<1>6. Cardinality({d \in 0 .. MaxSlots : w[d] # NoSlot}) = z
  <2>1. {d \in 0 .. MaxSlots : w[d] # NoSlot} = 0 .. z - 1
    BY <1>3, <1>5
  <2>2. Cardinality(0 .. z - 1) = z
    BY <1>5, FS_Interval
  <2> QED BY <2>1, <2>2
<1>7. q = [k \in 1 .. z |-> w[k - 1]]
  BY <1>2, <1>6 DEF Along
<1>8. \A k \in 1 .. z : k - 1 \in 0 .. z - 1
  BY <1>5
<1>9. q \in [1 .. z -> S]
  BY <1>3, <1>7, <1>8
<1>10. \A s \in S : \E k \in 1 .. z : q[k] = s
  <2> SUFFICES ASSUME NEW s \in S PROVE \E k \in 1 .. z : q[k] = s
    OBVIOUS
  <2>1. PICK d \in 0 .. z - 1 : w[d] = s
    BY <1>4
  <2>2. d + 1 \in 1 .. z /\ (d + 1) - 1 = d
    BY <1>5
  <2>3. q[d + 1] = w[(d + 1) - 1]
    BY <1>7, <2>2
  <2> QED BY <2>1, <2>2, <2>3
<1>11. \A j, k \in 1 .. z : j < k => b.pool[q[j]].seq < b.pool[q[k]].seq
  <2> SUFFICES ASSUME NEW j \in 1 .. z, NEW k \in 1 .. z, j < k
               PROVE  b.pool[q[j]].seq < b.pool[q[k]].seq
    OBVIOUS
  <2>1. q[j] = w[j - 1] /\ q[k] = w[k - 1] /\ j - 1 < k - 1
    BY <1>5, <1>7
  <2> QED BY <1>3, <1>8, <2>1
<1>12. \A d \in Nat : d + 1 <= MaxSlots =>
         w[d + 1] = IF w[d] = NoSlot THEN NoSlot ELSE b.pool[w[d]].next
  BY <1>1, WalkSteps
<1>13. z > 0 => q[1] = b.level[side][i].head /\ b.pool[q[z]].next = NoSlot
  <2> SUFFICES ASSUME z > 0
               PROVE  q[1] = b.level[side][i].head /\ b.pool[q[z]].next = NoSlot
    OBVIOUS
  <2>1. 1 \in 1 .. z /\ z \in 1 .. z /\ 1 - 1 = 0 /\ z - 1 \in Nat /\ (z - 1) + 1 = z
    BY <1>5
  <2>2. q[1] = w[1 - 1] /\ q[z] = w[z - 1]
    BY <1>7, <2>1
  <2>3. w[0] = b.level[side][i].head
    BY <1>1, WalkSteps
  <2>4. w[z - 1] # NoSlot /\ w[z] = NoSlot
    <3>1. z - 1 \in 0 .. MaxSlots /\ z \in 0 .. MaxSlots /\ z - 1 < z /\ ~ (z < z)
      BY <1>5, <2>1
    <3> QED BY <1>3, <3>1
  <2>5. w[(z - 1) + 1] = b.pool[w[z - 1]].next
    BY <1>5, <1>12, <2>1, <2>4
  <2> QED BY <2>1, <2>2, <2>3, <2>4, <2>5
<1>14. \A k \in 1 .. z : k > 1 => b.pool[q[k - 1]].next = q[k]
  <2> SUFFICES ASSUME NEW k \in 1 .. z, k > 1 PROVE b.pool[q[k - 1]].next = q[k]
    OBVIOUS
  <2> DEFINE d == k - 2
  <2>1. /\ d \in Nat /\ d + 1 = k - 1 /\ d + 1 <= MaxSlots /\ k - 1 \in 1 .. z
        /\ (k - 1) - 1 = d /\ d \in 0 .. MaxSlots /\ d < z
    BY <1>5
  <2>2. q[k - 1] = w[(k - 1) - 1] /\ q[k] = w[k - 1]
    BY <1>7, <2>1
  <2>3. w[d] # NoSlot
    BY <1>3, <2>1
  <2> HIDE DEF d
  <2>4. w[d + 1] = b.pool[w[d]].next
    BY <1>12, <2>1, <2>3
  <2> QED BY <2>1, <2>2, <2>4
<1>15. z = Cardinality(S)
  <2>1. \A j, k \in 1 .. z : q[j] = q[k] => j = k
    <3> SUFFICES ASSUME NEW j \in 1 .. z, NEW k \in 1 .. z, q[j] = q[k] PROVE j = k
      OBVIOUS
    <3>1. b.pool[q[j]].seq \in Nat
      <4>1. q[j] \in S /\ \A s \in S : s \in Slot
        BY <1>9 DEF S, OrdersAt, RestingSlots
      <4> QED BY <4>1, OrderType
    <3>2. ~ (j < k) /\ ~ (k < j)
      BY <1>11, <3>1
    <3> QED BY <1>5, <3>2
  <2>2. q \in Bijection(1 .. z, S)
    BY <1>9, <1>10, <2>1 DEF Bijection, Injection, IsInjective, Surjection
  <2>3. ExistsBijection(1 .. z, S)
    BY <2>2 DEF ExistsBijection
  <2> QED BY <1>5, <2>3, FS_CountingElements
<1> QED BY <1>5, <1>9, <1>10, <1>11, <1>13, <1>14, <1>15 DEF q, S
(* Every check of validate() on a level follows.                            *)
LEMMA LevelChecked ==
  ASSUME NEW b \in Book, NEW side \in Side, NEW i \in Index, NEW R,
         Partitioned(b, R), Linked(b), EndsExact(b), BitsExact(b), Genuine(b), TotalsExact(b)
  PROVE  LevelValid(b, side, i)
<1> DEFINE q  == Queue(b, side, i)
           S  == OrdersAt(b, side, i)
           lv == b.level[side][i]
           f  == Remaining(b)
<1>1. PICK z \in Nat :
        /\ q \in [1 .. z -> S]
        /\ \A s \in S : \E k \in 1 .. z : q[k] = s
        /\ \A j, k \in 1 .. z : j < k => b.pool[q[j]].seq < b.pool[q[k]].seq
        /\ z > 0 => q[1] = lv.head /\ b.pool[q[z]].next = NoSlot
        /\ \A k \in 1 .. z : k > 1 => b.pool[q[k - 1]].next = q[k]
        /\ z = Cardinality(S)
  BY QueueLists
<1> DEFINE g == [k \in DOMAIN q |-> b.pool[q[k]].remaining]
<1>2. /\ lv \in PriceLevel /\ lv.count = z /\ lv.qty = Total(b, side, i) % QtyMod
      /\ lv.head # NoSlot => lv.head \in S
      /\ lv.tail # NoSlot => lv.tail \in S
      /\ lv.head = NoSlot <=> lv.tail = NoSlot
  BY <1>1 DEF Book, EndsExact, TotalsExact
<1>3. DOMAIN q = 1 .. z /\ Len(q) = z /\ (q = << >> <=> z = 0)
  <2> HIDE DEF q, S
  <2>1. DOMAIN q = 1 .. z
    BY <1>1
  <2>2. q \in Seq(S)
    BY <1>1 DEF Seq
  <2>3. Len(q) = z
    BY <1>1, <2>1, <2>2, LenProperties
  <2> QED BY <2>1, <2>2, <2>3, EmptySeq
<1>4. \A s \in S : /\ s \in Slot /\ s \in RestingSlots(b) /\ s # NoSlot
                   /\ b.pool[s].side = side /\ b.pool[s].level = i
                   /\ b.pool[s].seq \in Nat
  BY OrderType DEF OrdersAt, RestingSlots, Slot, NoSlot
<1>5. S = {} <=> z = 0
  <2>1. IsFiniteSet(S)
    BY OrdersFinite
  <2> HIDE DEF S
  <2> QED BY <1>1, <2>1, FS_EmptySet
<1>6. (lv.count > 0) <=> (i \in b.bits[side])
  BY <1>1, <1>2, <1>5 DEF BitsExact
<1>7. lv.count = 0 => lv = EmptyLevel
  <2> SUFFICES ASSUME lv.count = 0 PROVE lv = EmptyLevel
    OBVIOUS
  <2>1. S = {}
    BY <1>2, <1>5
  <2>2. lv.head = NoSlot /\ lv.tail = NoSlot
    BY <1>2, <2>1
  <2>3. Total(b, side, i) = 0 /\ 0 % QtyMod = 0
    BY <2>1, SumEmpty, WidthAssumption DEF Total
  <2>4. lv.qty = 0
    BY <1>2, <2>3
  <2> HIDE DEF lv
  <2> QED BY <1>2, <2>2, <2>4 DEF PriceLevel, EmptyLevel
<1>8. lv.qty = SumFunction(g) % QtyMod
  <2>1. /\ DOMAIN g = 1 .. z /\ IsFiniteSet(1 .. z)
    BY <1>3, FS_Interval
  <2>2. \A k \in 1 .. z : g[k] \in Int /\ g[k] = f[q[k]]
    <3> SUFFICES ASSUME NEW k \in 1 .. z PROVE g[k] \in Int /\ g[k] = f[q[k]]
      OBVIOUS
    <3>1. q[k] \in Slot
      BY <1>1, <1>4
    <3>2. f[q[k]] = b.pool[q[k]].remaining /\ b.pool[q[k]].remaining \in Nat
      BY <3>1, TotalType
    <3> QED BY <1>3, <3>2
  <2>3. \A j, k \in 1 .. z : q[j] = q[k] => j = k
    <3> SUFFICES ASSUME NEW j \in 1 .. z, NEW k \in 1 .. z, q[j] = q[k] PROVE j = k
      OBVIOUS
    <3>1. b.pool[q[j]].seq \in Nat
      BY <1>1, <1>4
    <3>2. ~ (j < k) /\ ~ (k < j)
      BY <1>1, <3>1
    <3> QED BY <3>2
  <2>4. {q[k] : k \in 1 .. z} = S
    BY <1>1
  <2> HIDE DEF q, S, f, g
  <2>5. SumFunctionOnSet(g, 1 .. z) = SumFunctionOnSet(f, {q[k] : k \in 1 .. z})
    BY <2>1, <2>2, <2>3, SumRenamed
  <2>6. SumFunction(g) = SumFunctionOnSet(g, 1 .. z)
    BY <2>1 DEF SumFunction
  <2>7. SumFunctionOnSet(f, S) = Total(b, side, i)
    BY DEF Total, f, S
  <2> QED BY <1>2, <2>4, <2>5, <2>6, <2>7
<1>9. lv.tail = IF q = << >> THEN NoSlot ELSE q[Len(q)]
  <2>1. CASE z = 0
    BY <1>2, <1>3, <1>5, <2>1
  <2>2. CASE z > 0
    <3>1. q[z] \in S /\ b.pool[q[z]].next = NoSlot
      BY <1>1, <2>2
    <3>2. q[z] \in RestingSlots(b) /\ b.pool[q[z]].side = side /\ b.pool[q[z]].level = i
      BY <1>4, <3>1
    <3>3. b.level[b.pool[q[z]].side][b.pool[q[z]].level].tail = q[z]
      BY <3>1, <3>2 DEF Linked
    <3> QED BY <1>3, <2>2, <3>2, <3>3
  <2> QED BY <1>1, <2>1, <2>2
<1>10. ASSUME NEW k \in DOMAIN q
       PROVE  /\ b.pool[q[k]].active
              /\ b.pool[q[k]].prev = IF k = 1 THEN NoSlot ELSE q[k - 1]
              /\ b.pool[q[k]].level = i
              /\ b.pool[q[k]].side = side
              /\ b.pool[q[k]].remaining > 0
              /\ k > 1 => b.pool[q[k]].seq > b.pool[q[k - 1]].seq
              /\ Resolve(b, b.pool[q[k]].id) = q[k]
  <2>1. k \in 1 .. z /\ q[k] \in S
    BY <1>1, <1>3, <1>10
  <2>2. /\ q[k] \in RestingSlots(b) /\ b.pool[q[k]].side = side /\ b.pool[q[k]].level = i
        /\ q[k] \in Slot /\ b.pool[q[k]].active
    BY <1>4, <2>1 DEF RestingSlots
  <2>3. b.pool[q[k]].remaining > 0 /\ b.pool[q[k]].id = IdFor(b, q[k])
    BY <2>2 DEF Genuine
  <2>4. Resolve(b, b.pool[q[k]].id) = q[k]
    <3>1. q[k] \in 0 .. b.size - 1 /\ b.size \in Nat
      BY <2>2 DEF Partitioned, Book
    <3>2. b.pool[q[k]].id.slot = q[k]
      BY <2>3 DEF IdFor, MakeHandle
    <3> HIDE DEF q
    <3> QED BY <2>2, <3>1, <3>2 DEF Resolve
  <2>5. CASE k = 1
    <3>1. q[k] = lv.head /\ q[k] # NoSlot
      BY <1>1, <1>4, <2>1, <2>5
    <3>2. b.pool[q[k]].prev = NoSlot
      BY <3>1 DEF EndsExact
    <3> QED BY <2>2, <2>3, <2>4, <2>5, <3>2
  <2>6. CASE k # 1
    <3>1. k > 1 /\ k - 1 \in 1 .. z /\ k - 1 < k
      BY <2>1, <2>6
    <3>2. b.pool[q[k - 1]].next = q[k] /\ b.pool[q[k - 1]].seq < b.pool[q[k]].seq
          /\ q[k - 1] \in S
      BY <1>1, <2>1, <3>1
    <3>3. q[k - 1] \in RestingSlots(b) /\ q[k] # NoSlot
      BY <1>4, <2>1, <3>2
    <3>4. b.pool[q[k]].prev = q[k - 1]
      BY <3>2, <3>3, Neighbours
    <3>5. b.pool[q[k]].seq \in Nat /\ b.pool[q[k - 1]].seq \in Nat
      BY <1>4, <2>1, <3>2
    <3> QED BY <2>2, <2>3, <2>4, <2>6, <3>2, <3>4, <3>5
  <2> QED BY <2>5, <2>6
<1> HIDE DEF q, lv, g
<1>11. lv.count = Len(q)
  BY <1>2, <1>3
<1> QED BY <1>6, <1>7, <1>8, <1>9, <1>10, <1>11 DEF LevelValid, q, lv, g

(* What validate() finds of the queues it finds in every reachable state,   *)
(* in the middle of a match too: each is linked both ways, in arrival       *)
(* order, with an exact count and total, and its ids lead back to it.       *)
THEOREM QueuesCorrect == Spec => []QueuesIntact
<1>1. TotalsInvariant => QueuesIntact
  <2> SUFFICES ASSUME TotalsInvariant, NEW side \in Side, NEW i \in Index
               PROVE  LevelValid(book, side, i)
    BY DEF QueuesIntact
  <2>1. /\ book \in Book /\ Linked(book) /\ EndsExact(book)
        /\ Partitioned(book, ReservedSlots) /\ BitsExact(book)
        /\ Genuine(book) /\ TotalsExact(book)
    BY NowSound
    DEF TotalsInvariant, ClientInvariant, TouchInvariant, SlotInvariant, Sound, Summarised
  <2> QED BY <2>1, LevelChecked
<1>2. Spec => []TotalsInvariant
  BY TotalsInvariantInit, TotalsInvariantNext, PTL DEF Spec
<1> QED BY <1>1, <1>2, PTL
-------------------------------------------------------------------------------
(* An admitted FOK order fills when self-trade prevention keeps out of it:  *)
(* what is offered in its reach covers what it still wants.                 *)

LEMMA OfferedType ==
  ASSUME NEW b \in Book, NEW side, NEW limit
  PROVE  /\ Offered(b, side, limit) \in Nat
         /\ IsFiniteSet(InReachOf(b, side, limit))
         /\ \A s \in InReachOf(b, side, limit) :
              s \in RestingSlots(b) /\ s \in Slot /\ Remaining(b)[s] \in Int
<1> DEFINE S == InReachOf(b, side, limit)
<1>1. S \in SUBSET RestingSlots(b) /\ \A s \in S : s \in RestingSlots(b) /\ s \in Slot
  BY DEF InReachOf, RestingSlots
<1>2. \A s \in S : Remaining(b)[s] \in Nat /\ Remaining(b)[s] \in Int
  <2>1. \A s \in Slot : Remaining(b)[s] = b.pool[s].remaining /\ b.pool[s].remaining \in Nat
    BY TotalType
  <2> QED BY <1>1, <2>1
<1>3. IsFiniteSet(S)
  BY <1>1, OrdersFinite, FS_Subset
<1> HIDE DEF S
<1>4. SumFunctionOnSet(Remaining(b), S) \in Nat
  BY <1>2, <1>3, SumType
<1> QED BY <1>1, <1>2, <1>3, <1>4 DEF S, Offered

(* fillable() never promises more than the orders in reach offer.           *)
LEMMA FillableWithin ==
  ASSUME NEW b \in Book, NEW side \in Side, NEW limit \in Int, NEW qty \in Quantity,
         Summarised(b), Genuine(b), TotalsExact(b), ~ (Fillable(b, side, limit) < qty)
  PROVE  qty <= Offered(b, side, limit)
<1> DEFINE x == Offered(b, side, limit)
<1>1. Fillable(b, side, limit) = x % QtyMod
  BY FillableIsOffered
<1>2. x \in Nat /\ QtyMod \in Nat /\ QtyMod > 0 /\ qty \in Nat
  BY OfferedType, WidthAssumption DEF Quantity
<1> HIDE DEF x
<1>3. x % QtyMod <= x /\ x % QtyMod \in Int
  <2>1. x % QtyMod \in 0 .. QtyMod - 1
    BY <1>2, ModSplit
  <2>2. CASE x < QtyMod
    BY <1>2, <2>2
  <2>3. CASE x >= QtyMod
    BY <1>2, <2>1, <2>3
  <2> QED BY <1>2, <2>2, <2>3
<1> QED BY <1>1, <1>2, <1>3 DEF x

(* A trade takes its quantity out of what is offered, nothing else does.    *)
LEMMA OfferedFilled ==
  ASSUME NEW b \in Book, NEW side, NEW limit, NEW s \in RestingSlots(b),
         NEW q \in Quantity, q <= b.pool[s].remaining, Linked(b), EndsExact(b),
         s \in InReachOf(b, side, limit)
  PROVE  Offered(FillMaker(b, s, q), side, limit) = Offered(b, side, limit) - q
<1> DEFINE c == FillMaker(b, s, q)
           S == InReachOf(b, side, limit)
           T == InReachOf(c, side, limit)
           f == Remaining(b)
           g == Remaining(c)
<1>1. s \in RestingSlots(b) /\ s \in Slot /\ c \in Book
  BY FillMakerType DEF RestingSlots
<1>2. /\ SameSeen(b, c, Slot \ {s}) /\ SameOrders(b, c, Slot \ {s})
      /\ c.gen = b.gen
      /\ IF b.pool[s].remaining = q THEN RestingSlots(c) = RestingSlots(b) \ {s}
         ELSE /\ RestingSlots(c) = RestingSlots(b)
              /\ SameOrders(b, c, RestingSlots(b))
              /\ Seen(c, s) = SeenWith(b, s, b.pool[s].qty, b.pool[s].remaining - q)
  BY FillSeen
<1> HIDE DEF c
<1>3. \A t \in Slot \ {s} : /\ c.pool[t].side = b.pool[t].side
                            /\ c.pool[t].price = b.pool[t].price
                            /\ c.pool[t].remaining = b.pool[t].remaining
  BY <1>2 DEF SameSeen, Seen
<1>4. /\ Offered(b, side, limit) = SumFunctionOnSet(f, S) /\ IsFiniteSet(S)
      /\ Offered(c, side, limit) = SumFunctionOnSet(g, T) /\ IsFiniteSet(T)
      /\ \A t \in S : t \in RestingSlots(b) /\ t \in Slot /\ f[t] \in Int
      /\ \A t \in T : t \in RestingSlots(c) /\ t \in Slot /\ g[t] \in Int
  BY <1>1, OfferedType DEF Offered
<1>5. SumFunctionOnSet(f, S) = f[s] + SumFunctionOnSet(f, S \ {s})
  BY <1>4, SumRemove
<1>6. T \ {s} = S \ {s}
  <2>1. \A t \in Slot \ {s} : t \in RestingSlots(c) <=> t \in RestingSlots(b)
    BY <1>2
  <2> QED BY <1>3, <2>1 DEF InReachOf, RestingSlots
<1>7. \A t \in S \ {s} : f[t] = g[t]
  <2>1. \A t \in S \ {s} : t \in Slot \ {s}
    BY <1>4
  <2> QED BY <1>3, <2>1 DEF Remaining
<1>8. IsFiniteSet(S \ {s})
  BY <1>4, FS_RemoveElement
<1>9. SumFunctionOnSet(f, S \ {s}) = SumFunctionOnSet(g, T \ {s})
  <2> HIDE DEF f, g, S, T
  <2> QED BY <1>6, <1>7, <1>8, SumSame
<1>10. SumFunctionOnSet(f, S \ {s}) \in Int /\ f[s] = b.pool[s].remaining /\ q \in Int
       /\ f[s] \in Int
  <2>1. f[s] = b.pool[s].remaining /\ q \in Int
    BY <1>1 DEF Remaining, Quantity
  <2>2. \A t \in S \ {s} : f[t] \in Int
    BY <1>4
  <2> HIDE DEF f, S
  <2> QED BY <1>4, <1>8, <2>1, <2>2, SumType DEF S
<1>11. CASE b.pool[s].remaining = q
  <2>1. T \ {s} = T
    BY <1>2, <1>4, <1>11
  <2>2. SumFunctionOnSet(g, T \ {s}) = SumFunctionOnSet(g, T)
    BY <2>1
  <2> HIDE DEF f, g, S, T
  <2> QED BY <1>4, <1>5, <1>9, <1>10, <1>11, <2>2 DEF c
<1>12. CASE b.pool[s].remaining # q
  <2>1. /\ c.pool[s].side = b.pool[s].side /\ c.pool[s].price = b.pool[s].price
        /\ c.pool[s].remaining = b.pool[s].remaining - q
        /\ s \in RestingSlots(c)
    BY <1>1, <1>2, <1>12 DEF Seen, SeenWith
  <2>2. s \in T
    BY <2>1 DEF InReachOf
  <2>3. SumFunctionOnSet(g, T) = g[s] + SumFunctionOnSet(g, T \ {s})
    BY <1>4, <2>2, SumRemove
  <2>4. g[s] = b.pool[s].remaining - q
    BY <1>1, <2>1 DEF Remaining
  <2> HIDE DEF f, g, S, T
  <2> QED BY <1>4, <1>5, <1>9, <1>10, <2>3, <2>4 DEF c
<1> QED BY <1>11, <1>12

LEMMA OfferedKept ==
  ASSUME NEW b \in Book, NEW c, NEW side, NEW limit,
         RestingSlots(c) = RestingSlots(b), SameSeen(b, c, RestingSlots(b))
  PROVE  Offered(c, side, limit) = Offered(b, side, limit)
<1> DEFINE S == InReachOf(b, side, limit)
<1>1. \A t \in RestingSlots(b) : /\ c.pool[t].side = b.pool[t].side
                                 /\ c.pool[t].price = b.pool[t].price
                                 /\ c.pool[t].remaining = b.pool[t].remaining
  BY DEF SameSeen, Seen
<1>2. InReachOf(c, side, limit) = S
  BY <1>1 DEF InReachOf
<1>3. IsFiniteSet(S) /\ \A t \in S : t \in RestingSlots(b) /\ t \in Slot
  BY OfferedType
<1>4. \A t \in S : Remaining(b)[t] = Remaining(c)[t]
  BY <1>1, <1>3 DEF Remaining
<1> HIDE DEF S
<1>5. SumFunctionOnSet(Remaining(b), S) = SumFunctionOnSet(Remaining(c), S)
  BY <1>3, <1>4, SumSame
<1> QED BY <1>2, <1>5 DEF Offered, S

(* Self-trade prevention does not touch the order under way.                *)
Untouched == stp = "None" \/ call.participant = Anonymous

FokCovered ==
  call.active /\ call.tif = "FOK" /\ Untouched =>
    call.remaining <= Offered(book, call.side, call.price)

LEMMA FokCoveredNext ==
  ASSUME TotalsInvariant, FokCovered, [Next]_vars
  PROVE  FokCovered'
<1> USE InputAssumption
<1>1. /\ book \in Book /\ Genuine(book) /\ Summarised(book) /\ TotalsExact(book)
      /\ Linked(book) /\ EndsExact(book) /\ ClientInvariant /\ TypeOK
      /\ ~ call.active => Partitioned(book, {})
  BY NowSound DEF TotalsInvariant, ClientInvariant, TouchInvariant
<1>2. ASSUME ~ call'.active PROVE FokCovered'
  BY <1>2 DEF FokCovered
<1>3. ASSUME UNCHANGED <<book, call, stp>> PROVE FokCovered'
  <2>1. Offered(book, call.side, call.price)' = Offered(book', call'.side, call'.price)
    BY DEF Offered, InReachOf, Remaining, RestingSlots
  <2> QED BY <1>3, <2>1 DEF FokCovered, Untouched
<1>4. ASSUME NEW side \in Side, NEW price \in Prices, NEW qty \in Quantities,
             NEW tif \in Tifs, NEW participant \in Participants,
             SubmitLimit(side, price, qty, tif, participant)
      PROVE  FokCovered'
  <2> DEFINE reason == LimitReject(book, side, price, qty, tif)
  <2>1. ~ call.active
    BY <1>4 DEF SubmitLimit, MayEnter
  <2>2. CASE reason # "None"
    <3>1. ~ call'.active
      BY <1>4, <2>1, <2>2 DEF SubmitLimit, EnterLimit, Reject
    <3> QED BY <1>2, <3>1
  <2>3. CASE reason = "None"
    <3>1. /\ CanAlloc(book) /\ book' = AllocSlot(book)
          /\ call' = Entered(book, FALSE, side, price, qty, tif, participant)
      BY <1>4, <2>3 DEF SubmitLimit, EnterLimit
    <3>2. /\ call'.side = side /\ call'.price = price /\ call'.tif = tif
          /\ call'.remaining = qty
      BY <3>1 DEF Entered
    <3> SUFFICES ASSUME tif = "FOK" PROVE qty <= Offered(book', side, price)
      BY <3>2 DEF FokCovered, Offered, InReachOf, Remaining, RestingSlots
    <3>3. ~ (Fillable(book, side, price) < qty)
      BY <2>3, AdmittedPrice DEF LimitReject
    <3>4. qty <= Offered(book, side, price)
      BY <1>1, <3>3, FillableWithin
    <3>5. Offered(book', side, price) = Offered(book, side, price)
      <4>1. RestingSlots(book') = RestingSlots(book) /\ SameSeen(book, book', RestingSlots(book))
        BY <1>1, <2>1, <3>1, AllocSeen
      <4> QED BY <1>1, <4>1, OfferedKept
    <3> QED BY <3>4, <3>5
  <2> QED BY <2>2, <2>3
<1>5. ASSUME NEW side \in Side, NEW qty \in Quantities, NEW participant \in Participants,
             SubmitMarket(side, qty, participant)
      PROVE  FokCovered'
  <2>1. ~ call'.active \/ call'.tif = "IOC"
    BY <1>5 DEF SubmitMarket, MayEnter, Reject, Entered
  <2> QED BY <2>1 DEF FokCovered
<1>6. ASSUME StopTaker \/ PullMaker PROVE FokCovered'
  <2>1. SelfTrade /\ stp' = stp /\ call'.participant = call.participant
    <3>1. call \in Call
      BY <1>1 DEF TypeOK
    <3> QED BY <1>6, <3>1 DEF StopTaker, PullMaker, Call
  <2> QED BY <2>1 DEF SelfTrade, FokCovered, Untouched
<1>7. ASSUME Fill PROVE FokCovered'
  <2> DEFINE q == Smaller(call.remaining, Maker.remaining)
             s == MakerSlot
  <2>1. /\ s \in RestingSlots(book) /\ q \in Quantity /\ q <= book.pool[s].remaining
        /\ book' = FillMaker(book, s, q)
        /\ call' = [call EXCEPT !.remaining = @ - q, !.filled = @ + q,
                                !.notional = @ + ToPrice(BestIndex) * q,
                                !.lastPx = ToPrice(BestIndex)]
    BY <1>1, <1>7, FillFacts
  <2> HIDE DEF q
  <2>2. /\ call'.active = call.active /\ call'.tif = call.tif /\ call'.side = call.side
        /\ call'.price = call.price /\ call'.remaining = call.remaining - q
        /\ call'.participant = call.participant /\ stp' = stp
        /\ call.active /\ Crosses /\ call.remaining \in Int
    <3>1. call \in Call
      BY <1>1 DEF TypeOK
    <3>2. call.active /\ Crosses /\ stp' = stp
      BY <1>7 DEF Fill, Matching
    <3>3. call.remaining \in Int
      BY <3>1 DEF Call, Quantity
    <3> QED BY <2>1, <3>1, <3>2, <3>3 DEF Call
  <2> SUFFICES ASSUME call.tif = "FOK", Untouched
               PROVE  call.remaining - q <= Offered(book', call.side, call.price)
    BY <2>2 DEF FokCovered, Untouched, Offered, InReachOf, Remaining, RestingSlots
  <2>3. ~ call.market
    BY <1>1, <2>2 DEF ClientInvariant, TakerSound
  <2>4. s \in InReachOf(book, call.side, call.price)
    BY <1>1, <2>2, <2>3, HeadHasPriority DEF Reached, InReachOf, MakerSide
  <2>5. Offered(book', call.side, call.price) = Offered(book, call.side, call.price) - q
    BY <1>1, <2>1, <2>4, OfferedFilled
  <2>6. call.remaining <= Offered(book, call.side, call.price)
    BY <2>2 DEF FokCovered
  <2>7. Offered(book, call.side, call.price) \in Int /\ q \in Int
    BY <1>1, <2>1, OfferedType DEF Quantity
  <2> QED BY <2>2, <2>5, <2>6, <2>7
<1>8. ASSUME ReturnStep PROVE FokCovered'
  <2>1. call' = Idle
    BY <1>8 DEF ReturnStep, ReturnFilled, ReturnResting, ReturnKilled, Return
  <2>2. ~ call'.active
    BY <2>1 DEF Idle
  <2> QED BY <1>2, <2>2
<1>9. ASSUME NEW id \in OrderId, NEW newQty \in Quantities, AmendUp(id, newQty)
      PROVE  FokCovered'
  <2>1. ~ call'.active \/ call'.tif = "GTC"
    BY <1>9 DEF AmendUp, MayEnter, EnterLimit, Reject, Entered
  <2> QED BY <2>1 DEF FokCovered
<1>10. ASSUME NEW id \in OrderId, NEW newQty \in Quantities,
              CancelLive(id) \/ AmendToCancel(id, newQty) \/ AmendDown(id, newQty)
       PROVE  FokCovered'
  BY <1>2, <1>10 DEF CancelLive, AmendToCancel, AmendDown
<1>11. ASSUME NEW id \in OrderId, CancelLive(id) PROVE FokCovered'
  BY <1>2, <1>11 DEF CancelLive
<1>12. ASSUME Clear \/ \E mode \in StpModes : SetSelfTradePrevention(mode) PROVE FokCovered'
  BY <1>2, <1>12 DEF Clear, SetSelfTradePrevention
<1> QED
  BY <1>3, <1>4, <1>5, <1>6, <1>7, <1>8, <1>9, <1>10, <1>11, <1>12
  DEF Next, EngineStep, MatchStep, CancelUnknown, AmendUnknown, ClearTrades, vars

(* types.hpp promises that a FOK order trades "the whole quantity           *)
(* immediately or nothing at all".  Once admitted it does fill whenever     *)
(* self-trade prevention is off or the taker is anonymous, whatever rests   *)
(* in its reach and however the totals of the levels wrap.                  *)
THEOREM FokFills == Spec => FokFillsWithoutStp
<1> DEFINE I == TotalsInvariant /\ FokCovered
           A == FokReturns /\ (stp = "None" \/ call.participant = Anonymous)
                  => result'.filled = call.qty
<1>1. Init => FokCovered
  BY DEF Init, Idle, FokCovered
<1>2. I /\ [Next]_vars => I'
  BY TotalsInvariantNext, FokCoveredNext
<1>3. I /\ [Next]_vars => [A]_vars
  <2> SUFFICES ASSUME TotalsInvariant, FokCovered, Next, FokReturns, Untouched
               PROVE  result'.filled = call.qty
    BY DEF Untouched
  <2>1. /\ call.active /\ call.tif = "FOK" /\ ~ call'.active
        /\ call \in Call /\ ClientInvariant /\ book \in Book
        /\ call.filled + call.remaining = call.qty /\ TakerSound
    BY NowSound DEF FokReturns, TotalsInvariant, ClientInvariant, TouchInvariant,
                    SlotInvariant, TypeOK, CallConsistent
  <2>2. call.remaining \in Nat /\ call.filled \in Nat
    BY <2>1 DEF Call, Quantity
  <2>3. ~ call.market /\ call.remaining <= Offered(book, call.side, call.price)
    BY <2>1 DEF TakerSound, FokCovered
  <2>4. ReturnStep
    <3>1. ~ MatchStep
      BY <2>1 DEF MatchStep, StopTaker, PullMaker, Fill, Call
    <3> QED BY <2>1, <3>1
        DEF Next, EngineStep, SubmitLimit, SubmitMarket, MayEnter, CancelLive, CancelUnknown,
            AmendUnknown, AmendToCancel, AmendDown, AmendUp, SetSelfTradePrevention,
            ClearTrades, Clear
  <2>5. ~ ReturnResting
    BY <2>1 DEF ReturnResting, Rests
  <2>6. ~ ReturnKilled
    <3> SUFFICES ASSUME ReturnKilled PROVE FALSE
      OBVIOUS
    <3>1. call.remaining > 0 /\ (call.stpCancelled \/ ~ Crosses)
      BY <2>2 DEF ReturnKilled, Matched
    <3>2. ~ call.stpCancelled
      BY <2>1 DEF TakerSound, SelfTrade, Untouched
    <3>3. \A s \in Slot : ~ Reached(s)
      BY <2>1, <3>1, <3>2, NoneReached
    <3>4. InReachOf(book, call.side, call.price) = {}
      BY <2>3, <3>3 DEF Reached, InReachOf, MakerSide, RestingSlots
    <3>5. Offered(book, call.side, call.price) = 0
      BY <3>4, SumEmpty DEF Offered
    <3> QED BY <2>2, <2>3, <3>1, <3>5
  <2>7. ReturnFilled
    BY <2>4, <2>5, <2>6 DEF ReturnStep
  <2>8. result'.filled = call.filled /\ call.remaining = 0
    BY <2>7 DEF ReturnFilled, Return, Outcome
  <2> QED BY <2>1, <2>2, <2>8
<1>4. TotalsInvariant /\ FokCovered => I
  OBVIOUS
<1> HIDE DEF A
<1>5. Spec => [][A]_vars
  BY <1>1, <1>2, <1>3, TotalsInvariantInit, PTL DEF Spec
<1> QED BY <1>5 DEF FokFillsWithoutStp, A

(* The ids at rest.                                                         *)

LEMMA RestingIdsSeen ==
  ASSUME NEW b
  PROVE  RestingIds(b) = {o.id : o \in SeenIn(b)}
<1>1. \A s : Seen(b, s).id = b.pool[s].id
  BY DEF Seen
<1> QED BY <1>1 DEF RestingIds, SeenIn

(* An id names one order at rest, and the slot it is in.                    *)
LEMMA IdsNameSlots ==
  ASSUME NEW b, Genuine(b), NEW s \in RestingSlots(b)
  PROVE  /\ Seen(b, s) \in SeenIn(b) /\ Seen(b, s).id = IdFor(b, s)
         /\ b.pool[s].id = IdFor(b, s) /\ IdFor(b, s).slot = s
         /\ IdFor(b, s).gen = b.gen[s]
         /\ \A o \in SeenIn(b) : o.id = IdFor(b, s) => o = Seen(b, s)
<1>1. \A t \in RestingSlots(b) : /\ Seen(b, t).id = b.pool[t].id
                                 /\ b.pool[t].id = IdFor(b, t)
  BY DEF Genuine, Seen
<1>2. \A t \in RestingSlots(b) : IdFor(b, t).slot = t /\ IdFor(b, t).gen = b.gen[t]
  BY DEF IdFor, MakeHandle
<1>3. ASSUME NEW o \in SeenIn(b), o.id = IdFor(b, s) PROVE o = Seen(b, s)
  <2>1. PICK t \in RestingSlots(b) : o = Seen(b, t)
    BY DEF SeenIn
  <2> QED BY <1>1, <1>2, <1>3, <2>1
<1> QED BY <1>1, <1>2, <1>3 DEF SeenIn

LEMMA RemovedIds ==
  ASSUME ClientInvariant, NEW s \in RestingSlots(book)
  PROVE  /\ RestingIds(RemoveOrder(book, s)) = RestingIds(book) \ {book.pool[s].id}
         /\ book.pool[s].id \in RestingIds(book)
<1>1. SeenIn(RemoveOrder(book, s)) = SeenIn(book) \ {Seen(book, s)}
  BY RemovedSeen
<1>2. /\ Seen(book, s) \in SeenIn(book) /\ Seen(book, s).id = book.pool[s].id
      /\ \A o \in SeenIn(book) : o.id = book.pool[s].id => o = Seen(book, s)
  BY IdsNameSlots DEF ClientInvariant
<1> QED BY <1>1, <1>2, RestingIdsSeen

LEMMA FilledIds ==
  ASSUME ClientInvariant, NEW s \in RestingSlots(book), NEW q \in Quantity,
         q <= book.pool[s].remaining
  PROVE  /\ RestingIds(FillMaker(book, s, q)) =
              IF book.pool[s].remaining = q THEN RestingIds(book) \ {book.pool[s].id}
              ELSE RestingIds(book)
         /\ book.pool[s].id \in RestingIds(book)
<1> DEFINE o == Seen(book, s)
           p == [o EXCEPT !.remaining = @ - q]
           c == FillMaker(book, s, q)
<1>1. /\ book \in Book /\ Linked(book) /\ EndsExact(book) /\ Genuine(book)
  BY NowSound DEF ClientInvariant, TouchInvariant
<1>2. SeenIn(c) = (SeenIn(book) \ {o}) \cup (IF o.remaining = q THEN {} ELSE {p})
  BY <1>1, FilledSeen
<1>3. /\ o \in SeenIn(book) /\ o.id = book.pool[s].id
      /\ \A x \in SeenIn(book) : x.id = book.pool[s].id => x = o
  BY <1>1, IdsNameSlots
<1>4. o.remaining = book.pool[s].remaining /\ p.id = o.id
  BY DEF Seen
<1> HIDE DEF o, p, c
<1>5. RestingIds(c) = {x.id : x \in SeenIn(c)} /\ RestingIds(book) = {x.id : x \in SeenIn(book)}
  BY RestingIdsSeen
<1>6. CASE o.remaining = q
  BY <1>2, <1>3, <1>4, <1>5, <1>6 DEF c
<1>7. CASE o.remaining # q
  <2>1. SeenIn(c) = (SeenIn(book) \ {o}) \cup {p}
    BY <1>2, <1>7
  <2> QED BY <1>3, <1>4, <1>5, <1>7, <2>1 DEF c
<1> QED BY <1>6, <1>7
-------------------------------------------------------------------------------
(* What becomes of an accepted order.                                       *)

OrdersCounted == completed \in Nat /\ OrdersConserved

LEMMA CountsType ==
  ASSUME TotalsInvariant
  PROVE  /\ stats.accepted \in Nat /\ stats.cancelled \in Nat /\ stats.rejected \in Nat
         /\ stats \in BookStats
         /\ book.open \in Int /\ nextTradeSeq \in Nat /\ nextSeq \in Nat
         /\ book \in Book /\ Linked(book) /\ EndsExact(book) /\ Genuine(book)
         /\ call \in Call /\ ClientInvariant /\ TypeOK /\ trades \in Seq(Trade)
         /\ book.open = Cardinality(RestingSlots(book))
         /\ (~ call.active => Partitioned(book, {}))
BY NowSound
DEF TotalsInvariant, ClientInvariant, TouchInvariant, SlotInvariant, TypeOK, BookStats,
    Book, Summarised

(* The number of orders at rest is that of the slots they are in.           *)
LEMMA OpenKept ==
  ASSUME TotalsInvariant, TotalsInvariant', RestingSlots(book') = RestingSlots(book)
  PROVE  book'.open = book.open
<1>1. book.open = Cardinality(RestingSlots(book))
  BY DEF TotalsInvariant, ClientInvariant, TouchInvariant, Summarised
<1>2. book'.open = Cardinality(RestingSlots(book'))
  BY DEF TotalsInvariant, ClientInvariant, TouchInvariant, Summarised
<1> QED BY <1>1, <1>2

(* No trade and no entry: what is accepted either stays or is counted.      *)
LEMMA QuietCounted ==
  ASSUME TotalsInvariant, OrdersCounted, Watch,
         nextTradeSeq' = nextTradeSeq, call'.active = call.active,
         stats'.accepted = stats.accepted,
         book'.open + stats'.cancelled = book.open + stats.cancelled,
         book'.open \in Int, stats'.cancelled \in Int
  PROVE  OrdersCounted'
<1>1. ~ (nextTradeSeq' > nextTradeSeq)
  BY CountsType
<1>2. call.active \in BOOLEAN
  BY CountsType DEF Call
<1>3. completed' = completed + 0 + 0 + 0
  BY <1>1, <1>2 DEF Watch
<1> QED BY <1>3, CountsType DEF OrdersCounted, OrdersConserved

LEMMA RemovalCounted ==
  ASSUME TotalsInvariant, OrdersCounted, Watch, NEW s \in RestingSlots(book),
         book' = RemoveOrder(book, s), call'.active = call.active,
         nextTradeSeq' = nextTradeSeq,
         stats' = [stats EXCEPT !.cancelled = @ + 1]
  PROVE  OrdersCounted'
<1>1. book'.open = book.open - 1
  BY CountsType, RemoveShape
<1>2. stats'.cancelled = stats.cancelled + 1 /\ stats'.accepted = stats.accepted
  BY CountsType DEF BookStats
<1>3. /\ stats.accepted \in Nat /\ stats.cancelled \in Nat /\ book.open \in Int
  BY CountsType
<1>4. /\ book'.open + stats'.cancelled = book.open + stats.cancelled
      /\ book'.open \in Int /\ stats'.cancelled \in Int
  BY <1>1, <1>2, <1>3
<1> QED BY <1>2, <1>4, QuietCounted

LEMMA FillCounted ==
  ASSUME TotalsInvariant, TotalsInvariant', OrdersCounted, Watch, Fill
  PROVE  OrdersCounted'
<1> DEFINE s == MakerSlot
           q == Smaller(call.remaining, Maker.remaining)
           gone == RestingIds(book) \ RestingIds(book')
<1>1. /\ s \in RestingSlots(book) /\ q \in Quantity
      /\ q <= book.pool[s].remaining /\ book' = FillMaker(book, s, q)
  BY CountsType, FillFacts
<1>2. /\ call.active /\ call'.active /\ nextTradeSeq' = nextTradeSeq + 1
      /\ stats'.accepted = stats.accepted /\ stats'.cancelled = stats.cancelled
  BY CountsType DEF Fill, Matching, Call, BookStats
<1>3. completed' = completed + 0 + 0 + Cardinality(gone)
  <2>1. nextTradeSeq' > nextTradeSeq
    BY <1>2, CountsType
  <2>2. completed' = completed + 0 + 0 + Cardinality(gone)
    BY <1>2, <2>1 DEF Watch
  <2> QED BY <2>2
<1>4. RestingSlots(book') = IF book.pool[s].remaining = q THEN RestingSlots(book) \ {s}
                            ELSE RestingSlots(book)
  <2>1. book \in Book /\ Linked(book) /\ EndsExact(book)
    BY CountsType
  <2> HIDE DEF q, s
  <2>2. LET c == FillMaker(book, s, q)
        IN /\ SameSeen(book, c, Slot \ {s}) /\ SameOrders(book, c, Slot \ {s})
           /\ c.gen = book.gen
           /\ IF book.pool[s].remaining = q THEN RestingSlots(c) = RestingSlots(book) \ {s}
              ELSE /\ RestingSlots(c) = RestingSlots(book)
                   /\ SameOrders(book, c, RestingSlots(book))
                   /\ Seen(c, s) =
                        SeenWith(book, s, book.pool[s].qty, book.pool[s].remaining - q)
    BY <1>1, <2>1, FillSeen
  <2> QED BY <1>1, <2>2
<1>5. /\ RestingIds(book') = IF book.pool[s].remaining = q
                             THEN RestingIds(book) \ {book.pool[s].id} ELSE RestingIds(book)
      /\ book.pool[s].id \in RestingIds(book)
  BY <1>1, CountsType, FilledIds
<1>6. /\ book.open = Cardinality(RestingSlots(book))
      /\ book'.open = Cardinality(RestingSlots(book'))
      /\ book.open \in Int
      /\ stats.accepted \in Nat /\ stats.cancelled \in Nat
  BY CountsType DEF TotalsInvariant, ClientInvariant, TouchInvariant, Summarised
<1> HIDE DEF s, q
<1>7. CASE book.pool[s].remaining = q
  <2>1. gone = {book.pool[s].id}
    BY <1>5, <1>7
  <2>2. Cardinality(gone) = 1
    BY <2>1, FS_Singleton
  <2>3. book'.open = book.open - 1
    BY <1>1, <1>4, <1>6, <1>7, OrdersFinite, FS_RemoveElement
  <2> HIDE DEF gone
  <2> QED BY <1>2, <1>3, <1>6, <2>2, <2>3 DEF OrdersCounted, OrdersConserved
<1>8. CASE book.pool[s].remaining # q
  <2>1. gone = {}
    BY <1>5, <1>8
  <2>2. Cardinality(gone) = 0
    BY <2>1, FS_EmptySet
  <2>3. book'.open = book.open
    BY <1>4, <1>6, <1>8
  <2> HIDE DEF gone
  <2> QED BY <1>2, <1>3, <1>6, <2>2, <2>3 DEF OrdersCounted, OrdersConserved
<1> QED BY <1>7, <1>8
-------------------------------------------------------------------------------
(* How an order enters.                                                     *)

(* Book c is book b with slot s taken from the pool, and its handle new.    *)
Issues(b, c, s) ==
  /\ s \in Slot /\ s <= b.size /\ s < c.size
  /\ c.size = IF s = b.size THEN b.size + 1 ELSE b.size
  /\ c.gen = [b.gen EXCEPT ![s] = IF s = b.size THEN 1 ELSE (b.gen[s] + 1) % GenMod]

LEMMA AllocIssues ==
  ASSUME NEW b \in Book, CanAlloc(b), Partitioned(b, {})
  PROVE  /\ Issues(b, AllocSlot(b), AllocatedSlot(b))
         /\ Issues(b, FreeSlot(AllocSlot(b), AllocatedSlot(b)), AllocatedSlot(b))
<1> DEFINE s == AllocatedSlot(b)
           c == AllocSlot(b)
<1>1. /\ s \in Slot /\ c \in Book /\ b.size \in Nat /\ b.gen \in [Slot -> Generation]
      /\ b.free \in Seq(Slot)
  BY AllocType, WidthAssumption DEF Book
<1>2. ASSUME b.free # << >> PROVE Issues(b, c, s)
  <2>1. s \in FreeSlots(b)
    <3>1. Len(b.free) \in 1 .. Len(b.free) /\ s = b.free[Len(b.free)]
      BY <1>1, <1>2 DEF AllocatedSlot
    <3> QED BY <3>1 DEF FreeSlots
  <2>2. s < b.size /\ s # b.size /\ s <= b.size
    BY <1>1, <2>1 DEF Partitioned
  <2>3. c.size = b.size /\ c.gen = [b.gen EXCEPT ![s] = (b.gen[s] + 1) % GenMod]
    BY <1>1, <1>2 DEF AllocSlot, Book
  <2> HIDE DEF s, c
  <2> QED BY <1>1, <2>2, <2>3 DEF Issues
<1>3. ASSUME b.free = << >> PROVE Issues(b, c, s)
  <2>1. /\ s = b.size /\ c.size = b.size + 1 /\ c.gen = [b.gen EXCEPT ![s] = 1]
    BY <1>1, <1>3 DEF AllocSlot, AllocatedSlot, Book
  <2> HIDE DEF s, c
  <2> QED BY <1>1, <2>1 DEF Issues
<1>4. Issues(b, c, s)
  BY <1>2, <1>3
<1> HIDE DEF s, c
<1>5. FreeSlot(c, s).size = c.size /\ FreeSlot(c, s).gen = c.gen
  BY <1>1, FreeShape, FreeSeen
<1>6. Issues(b, FreeSlot(c, s), s)
  BY <1>4, <1>5 DEF Issues
<1> QED BY <1>4, <1>6 DEF s, c

(* A call that enters with a new handle, on a book without the orders X.    *)
Enters(X) ==
  /\ ~ call.active /\ call'.active /\ call'.filled = 0
  /\ stats.accepted + stats.rejected < MaxOrders
  /\ stats' = stats /\ nextTradeSeq' = nextTradeSeq
  /\ SeenIn(book') = SeenIn(book) \ X
  /\ call'.id \in OrderId /\ call'.id \notin RestingIds(book')
  /\ \E s \in Slot : Issues(book, book', s) /\ call'.id = IdFor(book', s)

(* A call that returns at once.                                             *)
Bounces ==
  /\ ~ call.active /\ book' = book /\ call' = call /\ nextTradeSeq' = nextTradeSeq
  /\ stats'.accepted = stats.accepted /\ stats'.cancelled = stats.cancelled

LEMMA EntersFrom ==
  ASSUME NEW b \in Book, NEW X, NEW market, NEW side, NEW price, NEW qty, NEW tif,
         NEW participant,
         MayEnter, Partitioned(b, {}), Genuine(b), CanAlloc(b),
         b.gen = book.gen, b.size = book.size, SeenIn(b) = SeenIn(book) \ X,
         \/ book' = AllocSlot(b)
         \/ book' = FreeSlot(AllocSlot(b), AllocatedSlot(b)),
         call' = Entered(b, market, side, price, qty, tif, participant),
         stats' = stats, nextTradeSeq' = nextTradeSeq
  PROVE  Enters(X)
<1> DEFINE s == AllocatedSlot(b)
<1>1. s \in Slot /\ AllocSlot(b) \in Book
  BY AllocType
<1>2. Issues(b, book', s) /\ book'.gen = AllocSlot(b).gen /\ SeenIn(book') = SeenIn(b)
  BY <1>1, AllocIssues, AllocatedSeen, FreeSeen
<1>3. /\ call'.active /\ call'.filled = 0 /\ call'.id = IdFor(AllocSlot(b), s)
  BY DEF Entered
<1>4. IdFor(book', s) = IdFor(AllocSlot(b), s)
  BY <1>2 DEF IdFor
<1>5. /\ call'.id \in OrderId
      /\ \A o \in SeenIn(b) : o.id # call'.id
  BY <1>3, HandleIsNew
<1>6. call'.id \notin RestingIds(book')
  BY <1>2, <1>5, RestingIdsSeen
<1>7. Issues(book, book', s)
  BY <1>2 DEF Issues
<1> HIDE DEF s
<1> QED BY <1>1, <1>2, <1>3, <1>4, <1>5, <1>6, <1>7 DEF Enters, MayEnter

LEMMA SubmitEnters ==
  ASSUME TotalsInvariant,
         \/ \E side \in Side, price \in Prices, qty \in Quantities, tif \in Tifs,
               participant \in Participants : SubmitLimit(side, price, qty, tif, participant)
         \/ \E side \in Side, qty \in Quantities, participant \in Participants :
               SubmitMarket(side, qty, participant)
  PROVE  Enters({}) \/ Bounces
<1>1. book \in Book /\ Genuine(book) /\ stats \in BookStats /\ stats.rejected \in Nat
      /\ (~ call.active => Partitioned(book, {}))
      /\ SeenIn(book) = SeenIn(book) \ {}
  BY CountsType
<1>2. ASSUME NEW reason, NEW qty, ~ call.active, book' = book, Reject(reason, qty)
      PROVE  Bounces
  <2>1. stats'.accepted = stats.accepted /\ stats'.cancelled = stats.cancelled
    BY <1>1, <1>2 DEF Reject, BookStats
  <2> QED BY <1>2, <2>1 DEF Bounces, Reject
<1>3. ASSUME NEW side, NEW price, NEW qty, NEW tif, NEW participant,
             SubmitLimit(side, price, qty, tif, participant)
      PROVE  Enters({}) \/ Bounces
  <2>1. MayEnter /\ ~ call.active
    BY <1>3 DEF SubmitLimit, MayEnter
  <2>2. CASE \E reason : book' = book /\ Reject(reason, qty)
    BY <1>2, <2>1, <2>2
  <2>3. CASE /\ CanAlloc(book) /\ book' = AllocSlot(book)
             /\ call' = Entered(book, FALSE, side, price, qty, tif, participant)
             /\ stats' = stats /\ nextTradeSeq' = nextTradeSeq
    BY <1>1, <2>1, <2>3, EntersFrom
  <2> QED BY <1>3, <2>2, <2>3 DEF SubmitLimit, EnterLimit
<1>4. ASSUME NEW side, NEW qty, NEW participant, SubmitMarket(side, qty, participant)
      PROVE  Enters({}) \/ Bounces
  <2>1. MayEnter /\ ~ call.active
    BY <1>4 DEF SubmitMarket, MayEnter
  <2>2. CASE \E reason : book' = book /\ Reject(reason, qty)
    BY <1>2, <2>1, <2>2
  <2>3. CASE /\ CanAlloc(book) /\ book' = FreeSlot(AllocSlot(book), AllocatedSlot(book))
             /\ call' = Entered(book, TRUE, side, 0, qty, "IOC", participant)
             /\ stats' = stats /\ nextTradeSeq' = nextTradeSeq
    BY <1>1, <2>1, <2>3, EntersFrom
  <2> QED BY <1>4, <2>2, <2>3 DEF SubmitMarket
<1> QED BY <1>3, <1>4

LEMMA AmendUpEnters ==
  ASSUME TotalsInvariant, NEW id \in OrderId, NEW newQty \in Quantity, AmendUp(id, newQty)
  PROVE  \E r \in RestingSlots(book) : Enters({Seen(book, r)})
<1> DEFINE r == id.slot
           b == RemoveOrder(book, r)
           o == book.pool[r]
           q == QtySub(newQty, AlreadyFilled(id))
<1>1. /\ r \in RestingSlots(book) /\ b \in Book /\ Genuine(b) /\ Partitioned(b, {})
      /\ CanAlloc(b) /\ book' = AllocSlot(b)
      /\ call' = Entered(b, FALSE, o.side, o.price, q, "GTC", o.participant)
      /\ UNCHANGED <<stp, nextSeq, nextTradeSeq, trades, lastTrade, stats, result>>
  BY CountsType, AmendUpReenters
<1>2. SeenIn(b) = SeenIn(book) \ {Seen(book, r)}
  BY <1>1, CountsType, RemovedSeen
<1>3. b.gen = book.gen /\ b.size = book.size
  BY <1>1, CountsType, RemoveShape, RemoveSeen DEF RestingSlots
<1>4. MayEnter
  BY DEF AmendUp
<1> HIDE DEF r, b, o, q
<1> QED BY <1>1, <1>2, <1>3, <1>4, EntersFrom
-------------------------------------------------------------------------------
LEMMA EntryCounted ==
  ASSUME TotalsInvariant, TotalsInvariant', OrdersCounted, Watch,
         NEW X, Enters(X), X = {} \/ \E r \in RestingSlots(book) : X = {Seen(book, r)}
  PROVE  OrdersCounted'
<1> DEFINE gone == RestingIds(book) \ RestingIds(book')
<1>1. /\ ~ call.active /\ call'.active /\ nextTradeSeq' = nextTradeSeq /\ stats' = stats
      /\ SeenIn(book') = SeenIn(book) \ X
  BY DEF Enters
<1>2. completed' = completed + 0 + (IF gone # {} THEN 1 ELSE 0) + 0
  <2>1. ~ (nextTradeSeq' > nextTradeSeq)
    BY <1>1, CountsType
  <2> QED BY <1>1, <2>1 DEF Watch
<1>3. /\ book.open = Cardinality(RestingSlots(book))
      /\ book'.open = Cardinality(RestingSlots(book'))
      /\ book.open \in Int /\ stats.accepted \in Nat /\ stats.cancelled \in Nat
      /\ Genuine(book) /\ Genuine(book')
  BY CountsType DEF TotalsInvariant, ClientInvariant, TouchInvariant, Summarised
<1>4. /\ RestingIds(book) = {o.id : o \in SeenIn(book)}
      /\ RestingIds(book') = {o.id : o \in SeenIn(book')}
  BY RestingIdsSeen
<1>5. /\ \A s \in RestingSlots(book) : /\ Seen(book, s) \in SeenIn(book)
                                       /\ Seen(book, s).id.slot = s
                                       /\ \A o \in SeenIn(book) :
                                            o.id = Seen(book, s).id => o = Seen(book, s)
      /\ \A s \in RestingSlots(book') : /\ Seen(book', s) \in SeenIn(book')
                                        /\ Seen(book', s).id.slot = s
  BY <1>3, IdsNameSlots
<1>6. /\ \A o \in SeenIn(book) : \E s \in RestingSlots(book) : o = Seen(book, s)
      /\ \A o \in SeenIn(book') : \E s \in RestingSlots(book') : o = Seen(book', s)
  BY DEF SeenIn
<1>7. CASE X = {}
  <2>1. SeenIn(book') = SeenIn(book)
    BY <1>1, <1>7
  <2>2. gone = {}
    BY <1>4, <2>1
  <2>3. RestingSlots(book') = RestingSlots(book)
    <3>1. ASSUME NEW s \in RestingSlots(book') PROVE s \in RestingSlots(book)
      <4>1. PICK t \in RestingSlots(book) : Seen(book', s) = Seen(book, t)
        BY <1>5, <1>6, <2>1
      <4> QED BY <1>5, <4>1
    <3>2. ASSUME NEW s \in RestingSlots(book) PROVE s \in RestingSlots(book')
      <4>1. PICK t \in RestingSlots(book') : Seen(book, s) = Seen(book', t)
        BY <1>5, <1>6, <2>1
      <4> QED BY <1>5, <4>1
    <3> QED BY <3>1, <3>2
  <2>4. book'.open = book.open
    BY <1>3, <2>3
  <2> HIDE DEF gone
  <2> QED BY <1>1, <1>2, <1>3, <2>2, <2>4 DEF OrdersCounted, OrdersConserved
<1>8. CASE \E r \in RestingSlots(book) : X = {Seen(book, r)}
  <2>1. PICK r \in RestingSlots(book) : X = {Seen(book, r)}
    BY <1>8
  <2>2. SeenIn(book') = SeenIn(book) \ {Seen(book, r)}
    BY <1>1, <2>1
  <2>3. gone # {}
    BY <1>4, <1>5, <2>2
  <2>4. RestingSlots(book') = RestingSlots(book) \ {r}
    <3>1. ASSUME NEW s \in RestingSlots(book') PROVE s \in RestingSlots(book) /\ s # r
      <4>1. PICK t \in RestingSlots(book) : Seen(book', s) = Seen(book, t)
        BY <1>5, <1>6, <2>2
      <4> QED BY <1>5, <2>2, <4>1
    <3>2. ASSUME NEW s \in RestingSlots(book), s # r PROVE s \in RestingSlots(book')
      <4>1. Seen(book, s) # Seen(book, r)
        BY <1>5, <3>2
      <4>2. PICK t \in RestingSlots(book') : Seen(book, s) = Seen(book', t)
        BY <1>5, <1>6, <2>2, <4>1
      <4> QED BY <1>5, <4>2
    <3> QED BY <3>1, <3>2
  <2>5. book'.open = book.open - 1
    BY <1>3, <2>4, OrdersFinite, FS_RemoveElement
  <2> HIDE DEF gone
  <2> QED BY <1>1, <1>2, <1>3, <2>3, <2>5 DEF OrdersCounted, OrdersConserved
<1> QED BY <1>7, <1>8

(* The ends of a call: the orders at rest before and after, and the counts. *)
LEMMA ReturnLeavesIds ==
  ASSUME TotalsInvariant, ReturnFilled \/ ReturnKilled
  PROVE  /\ RestingSlots(book') = RestingSlots(book) /\ SeenIn(book') = SeenIn(book)
         /\ book'.gen = book.gen /\ book'.size = book.size
<1>1. /\ book \in Book /\ Genuine(book) /\ call.slot \in Slot /\ call.active
      /\ (~ call.market => call.slot \notin RestingSlots(book))
  <2>1. /\ ClientInvariant /\ SlotInvariant /\ call.active
        /\ (~ call.market => Partitioned(book, {call.slot}))
    BY NowSound
    DEF TotalsInvariant, ClientInvariant, TouchInvariant, ReturnFilled, ReturnKilled, Matched
  <2> QED BY <2>1, CountsType, NowSound DEF Partitioned
<1>2. book' = IF call.market THEN book ELSE FreeSlot(book, call.slot)
  BY DEF ReturnFilled, ReturnKilled, ReleaseTaker
<1>3. CASE call.market
  BY <1>2, <1>3
<1>4. CASE ~ call.market
  <2>1. /\ RestingSlots(FreeSlot(book, call.slot)) = RestingSlots(book)
        /\ SameSeen(book, FreeSlot(book, call.slot), RestingSlots(book))
    BY <1>1, <1>4, FreeGenuine
  <2>2. SeenIn(FreeSlot(book, call.slot)) = SeenIn(book)
    BY <2>1, SeenKept
  <2>3. /\ FreeSlot(book, call.slot).gen = book.gen
        /\ FreeSlot(book, call.slot).size = book.size
    BY <1>1, FreeSeen, FreeShape
  <2> QED BY <1>2, <1>4, <2>1, <2>2, <2>3
<1> QED BY <1>3, <1>4

LEMMA ReturnCounted ==
  ASSUME TotalsInvariant, TotalsInvariant', OrdersCounted, Watch, ReturnStep
  PROVE  OrdersCounted'
<1>1. /\ stats.accepted \in Nat /\ stats.cancelled \in Nat /\ book.open \in Int
      /\ stats \in BookStats /\ nextTradeSeq \in Nat /\ completed \in Nat
      /\ stats.accepted = book.open + stats.cancelled + completed
  BY CountsType DEF OrdersCounted, OrdersConserved
<1>2. ASSUME NEW status, NEW resting, NEW cancelled \in Nat,
             Return(status, resting, cancelled), call.active
      PROVE  /\ ~ call'.active /\ nextTradeSeq' = nextTradeSeq /\ result'.status = status
             /\ stats'.accepted = stats.accepted + 1
             /\ stats'.cancelled = stats.cancelled + cancelled
             /\ completed' = completed + (IF status = "Filled" THEN 1 ELSE 0)
  <2>1. /\ ~ call'.active /\ nextTradeSeq' = nextTradeSeq /\ result'.status = status
        /\ stats'.accepted = stats.accepted + 1
        /\ stats'.cancelled = stats.cancelled + cancelled
    BY <1>1, <1>2 DEF Return, Idle, Outcome, BookStats
  <2>2. ~ (nextTradeSeq' > nextTradeSeq)
    BY <1>1, <2>1
  <2>3. completed' = completed + (IF status = "Filled" THEN 1 ELSE 0) + 0 + 0
    BY <1>2, <2>1, <2>2 DEF Watch
  <2> QED BY <1>1, <2>1, <2>3
<1>3. CASE ReturnFilled
  <2>1. Return("Filled", FALSE, 0) /\ call.active
    BY <1>3 DEF ReturnFilled, Matched
  <2>2. book'.open = book.open
    BY <1>3, ReturnLeavesIds, OpenKept
  <2>3. /\ stats'.accepted = stats.accepted + 1 /\ stats'.cancelled = stats.cancelled + 0
        /\ completed' = completed + 1
    BY <1>2, <2>1
  <2> QED BY <1>1, <2>2, <2>3 DEF OrdersCounted, OrdersConserved
<1>4. CASE ReturnKilled
  <2> DEFINE status == IF call.filled > 0 THEN "PartiallyFilled" ELSE "Cancelled"
  <2>1. Return(status, FALSE, 1) /\ call.active /\ status # "Filled"
    BY <1>4 DEF ReturnKilled, Matched
  <2>2. book'.open = book.open
    BY <1>4, ReturnLeavesIds, OpenKept
  <2> HIDE DEF status
  <2>3. /\ stats'.accepted = stats.accepted + 1 /\ stats'.cancelled = stats.cancelled + 1
        /\ completed' = completed + 0
    BY <1>2, <2>1
  <2> QED BY <1>1, <2>2, <2>3 DEF OrdersCounted, OrdersConserved
<1>5. CASE ReturnResting
  <2> DEFINE status == IF call.filled > 0 THEN "PartiallyFilled" ELSE "Accepted"
             o == [DefaultOrder EXCEPT
                     !.id = call.id, !.price = call.price, !.qty = call.qty,
                     !.remaining = call.remaining, !.seq = nextSeq,
                     !.participant = call.participant, !.side = call.side]
  <2>1. Return(status, TRUE, 0) /\ call.active /\ status # "Filled"
    BY <1>5 DEF ReturnResting, Matched
  <2>2. book'.open = book.open + 1
    <3>1. /\ book' = RestOrder(book, call.slot, o) /\ o \in Order
          /\ o.price >= MinPrice /\ o.price <= MaxPrice /\ call.slot \in Slot
      BY <1>5, CountsType, RestFacts
    <3> HIDE DEF o
    <3> QED BY <3>1, CountsType, RestShape
  <2> HIDE DEF status
  <2>3. /\ stats'.accepted = stats.accepted + 1 /\ stats'.cancelled = stats.cancelled + 0
        /\ completed' = completed + 0
    BY <1>2, <2>1
  <2> QED BY <1>1, <2>2, <2>3 DEF OrdersCounted, OrdersConserved
<1> QED BY <1>3, <1>4, <1>5 DEF ReturnStep

LEMMA CountedNext ==
  ASSUME TotalsInvariant, OrdersCounted, [MonitorNext]_monitoredVars
  PROVE  OrdersCounted'
<1> USE InputAssumption
<1>1. TotalsInvariant'
  BY TotalsInvariantNext DEF MonitorNext, Next, monitoredVars
<1>2. /\ stats.accepted \in Nat /\ stats.cancelled \in Nat /\ book.open \in Int
      /\ stats \in BookStats /\ nextTradeSeq \in Nat
  BY CountsType
<1>3. ASSUME Watch, Bounces PROVE OrdersCounted'
  BY <1>2, <1>3, QuietCounted DEF Bounces
<1>4. ASSUME Watch,
             \/ \E side \in Side, price \in Prices, qty \in Quantities, tif \in Tifs,
                   participant \in Participants : SubmitLimit(side, price, qty, tif, participant)
             \/ \E side \in Side, qty \in Quantities, participant \in Participants :
                   SubmitMarket(side, qty, participant)
      PROVE  OrdersCounted'
  <2>1. Enters({}) \/ Bounces
    BY <1>4, SubmitEnters
  <2> QED BY <1>1, <1>3, <1>4, <2>1, EntryCounted
<1>5. ASSUME Watch, StopTaker PROVE OrdersCounted'
  <2>1. call'.active = call.active
    BY <1>5, CountsType DEF StopTaker, Call
  <2> QED BY <1>2, <1>5, <2>1, QuietCounted DEF StopTaker
<1>6. ASSUME Watch, PullMaker PROVE OrdersCounted'
  <2>1. MakerSlot \in RestingSlots(book)
    BY <1>6, CountsType, MakerRests DEF PullMaker, ClientInvariant, TouchInvariant
  <2> QED BY <1>6, <2>1, RemovalCounted DEF PullMaker
<1>7. ASSUME Watch, Fill PROVE OrdersCounted'
  BY <1>1, <1>7, FillCounted
<1>8. ASSUME Watch, ReturnStep PROVE OrdersCounted'
  BY <1>1, <1>8, ReturnCounted
<1>9. ASSUME Watch, NEW id \in OrderId,
             \/ CancelLive(id)
             \/ \E newQty \in Quantities : AmendToCancel(id, newQty)
      PROVE  OrdersCounted'
  <2>1. id.slot \in RestingSlots(book)
    BY SMTT(20), <1>9, CountsType, ResolvedRests
    DEF CancelLive, AmendToCancel, ClientInvariant, TouchInvariant
  <2> QED BY <1>9, <2>1, RemovalCounted DEF CancelLive, AmendToCancel
<1>10. ASSUME Watch, NEW id \in OrderId, NEW newQty \in Quantities, AmendDown(id, newQty)
       PROVE  OrdersCounted'
  <2>1. book' \in Book /\ ClientInvariant
    BY <1>1, CountsType DEF TotalsInvariant, ClientInvariant, TouchInvariant, SlotInvariant, TypeOK
  <2>2. RestingSlots(book') = RestingSlots(book)
    BY <1>10, <2>1, AmendDownFacts
  <2>3. book'.open = book.open
    BY <1>1, <2>2, OpenKept
  <2> QED BY <1>2, <1>10, <2>3, QuietCounted DEF AmendDown
<1>11. ASSUME Watch, NEW id \in OrderId, NEW newQty \in Quantities, AmendUp(id, newQty)
       PROVE  OrdersCounted'
  <2>1. \E r \in RestingSlots(book) : Enters({Seen(book, r)})
    BY <1>11, AmendUpEnters
  <2> QED BY <1>1, <1>11, <2>1, EntryCounted
<1>12. ASSUME Watch, UNCHANGED <<book, call, nextTradeSeq, stats>> PROVE OrdersCounted'
  BY <1>2, <1>12, QuietCounted
<1>13. ASSUME Clear, WatchClear PROVE OrdersCounted'
  BY <1>13 DEF Clear, WatchClear, OrdersCounted, OrdersConserved, FreshBook, NoStats
<1>14. ASSUME UNCHANGED monitoredVars PROVE OrdersCounted'
  BY <1>14 DEF monitoredVars, vars, monitor, OrdersCounted, OrdersConserved
<1> QED
  BY <1>4, <1>5, <1>6, <1>7, <1>8, <1>9, <1>10, <1>11, <1>12, <1>13, <1>14
  DEF MonitorNext, EngineStep, MatchStep, CancelUnknown, AmendUnknown, vars,
      SetSelfTradePrevention, ClearTrades

LEMMA MonitoredTotals == MonitorSpec => []TotalsInvariant
<1>1. MonitorInit => TotalsInvariant
  BY TotalsInvariantInit DEF MonitorInit
<1>2. TotalsInvariant /\ [MonitorNext]_monitoredVars => TotalsInvariant'
  BY TotalsInvariantNext DEF MonitorNext, Next, monitoredVars
<1> QED BY <1>1, <1>2, PTL DEF MonitorSpec

(* No order is lost or counted twice: whatever fills, pulls, cancels,       *)
(* reductions, replacements and returns follow each other, an accepted      *)
(* order rests, was counted as cancelled once, or was completed.            *)
THEOREM ConservationCorrect == MonitorSpec => []OrdersConserved
<1>1. MonitorInit => OrdersCounted
  BY DEF MonitorInit, Init, OrdersCounted, OrdersConserved, FreshBook, NoStats
<1>2. TotalsInvariant /\ OrdersCounted /\ [MonitorNext]_monitoredVars => OrdersCounted'
  BY CountedNext
<1>3. OrdersCounted => OrdersConserved
  BY DEF OrdersCounted
<1> QED BY <1>1, <1>2, <1>3, MonitoredTotals, PTL DEF MonitorSpec
-------------------------------------------------------------------------------
(* Which ids are in use, as long as no generation wraps.                    *)

Issued(b, id) == id \in OrderId /\ id.slot < b.size /\ id.gen <= b.gen[id.slot]

(* Orders that were given a handle since the last clear().                  *)
Issuances == stats.accepted + (IF call.active THEN 1 ELSE 0)

(* A handle is retired or live, never both; a slot has had no generation    *)
(* beyond its present one, nor more generations than orders were accepted.  *)
IdsInOrder ==
  /\ \A id \in retired : Issued(book, id) /\ id \notin LiveIds
  /\ call.active => Issued(book, call.id) /\ call.id \notin RestingIds(book)
  /\ \A s \in Slot : book.gen[s] <= Issuances

LEMMA LiveAreIssued ==
  ASSUME TotalsInvariant, IdsInOrder
  PROVE  /\ \A id \in LiveIds : Issued(book, id)
         /\ \A s \in Slot : book.gen[s] \in Nat
         /\ Issuances \in Nat
<1>1. book \in Book /\ Genuine(book) /\ stats.accepted \in Nat /\ book.size \in Nat
      /\ book.gen \in [Slot -> Generation]
  BY CountsType, WidthAssumption DEF Book
<1>2. \A s \in Slot : book.gen[s] \in Nat
  BY <1>1, WidthAssumption DEF Generation
<1>3. ASSUME NEW s \in RestingSlots(book) PROVE Issued(book, book.pool[s].id)
  <2>1. s \in Slot
    BY DEF RestingSlots
  <2>2. s \in 0 .. book.size - 1
    <3>1. Partitioned(book, ReservedSlots)
      BY DEF TotalsInvariant, ClientInvariant, TouchInvariant, SlotInvariant, Sound
    <3> QED BY <3>1 DEF Partitioned
  <2>3. /\ book.pool[s].id = IdFor(book, s) /\ IdFor(book, s) \in OrderId
        /\ IdFor(book, s).slot = s /\ IdFor(book, s).gen = book.gen[s]
    BY <1>1, <2>1, IdsNameSlots, IdForType
  <2> QED BY <1>1, <1>2, <2>1, <2>2, <2>3 DEF Issued
<1>4. \A id \in LiveIds : Issued(book, id)
  BY <1>3 DEF LiveIds, RestingIds, IdsInOrder
<1>5. call.active \in BOOLEAN
  BY CountsType DEF Call
<1> QED BY <1>1, <1>2, <1>4, <1>5 DEF Issuances

(* A step that takes no slot from the pool.                                 *)
Continues ==
  /\ book'.gen = book.gen /\ book'.size = book.size
  /\ LiveIds' \subseteq LiveIds
  /\ call'.active => /\ call.active /\ call'.id = call.id
                     /\ RestingIds(book') \subseteq RestingIds(book)
  /\ Issuances' \in Nat /\ Issuances <= Issuances'

LEMMA IdsContinue ==
  ASSUME TotalsInvariant, IdsInOrder, Continues, Watch
  PROVE  IdsInOrder'
<1>1. retired' = retired \cup (LiveIds \ LiveIds')
  BY DEF Watch
<1>2. \A id : Issued(book', id) <=> Issued(book, id)
  BY DEF Issued, Continues
<1>3. ASSUME NEW id \in retired' PROVE Issued(book', id) /\ id \notin LiveIds'
  BY <1>1, <1>2, <1>3, LiveAreIssued DEF Continues, IdsInOrder
<1>4. ASSUME call'.active PROVE Issued(book', call'.id) /\ call'.id \notin RestingIds(book')
  BY <1>2, <1>4 DEF Continues, IdsInOrder
<1>5. ASSUME NEW s \in Slot PROVE book'.gen[s] <= Issuances'
  <2>1. /\ book.gen[s] <= Issuances /\ Issuances <= Issuances' /\ book'.gen[s] = book.gen[s]
        /\ book.gen[s] \in Nat /\ Issuances \in Nat /\ Issuances' \in Nat
    BY LiveAreIssued DEF Continues, IdsInOrder
  <2> QED BY <2>1
<1> QED BY <1>3, <1>4, <1>5 DEF IdsInOrder

(* An order that enters goes by a handle nobody was given before.           *)
LEMMA EntryIsNew ==
  ASSUME MaxOrders < GenMod, TotalsInvariant, NEW X, Enters(X),
         \A t \in Slot : book.gen[t] <= Issuances
  PROVE  /\ Issued(book', call'.id)
         /\ \A id : Issued(book, id) => Issued(book', id) /\ id # call'.id
         /\ \A t \in Slot : book'.gen[t] <= Issuances'
<1>1. /\ ~ call.active /\ call'.active /\ stats' = stats
      /\ stats.accepted + stats.rejected < MaxOrders /\ call'.id \in OrderId
  BY DEF Enters
<1>2. PICK s \in Slot : Issues(book, book', s) /\ call'.id = IdFor(book', s)
  BY DEF Enters
<1>3. /\ book \in Book /\ stats.accepted \in Nat /\ stats.rejected \in Nat
      /\ book.gen \in [Slot -> Generation] /\ book.size \in Nat
      /\ MaxOrders \in Nat /\ GenMod \in Nat
  BY CountsType, InputAssumption, WidthAssumption DEF Book
<1>4. \A t \in Slot : book.gen[t] \in Nat /\ book.gen[t] <= stats.accepted
  <2>1. Issuances = stats.accepted
    BY <1>1, <1>3 DEF Issuances
  <2> QED BY <1>3, <2>1, WidthAssumption DEF Generation
<1>5. Issuances' = stats.accepted + 1
  BY <1>1 DEF Issuances
<1>6. book'.gen[s] = IF s = book.size THEN 1 ELSE book.gen[s] + 1
  <2> DEFINE g == book.gen[s]
  <2>1. g \in Nat /\ g + 1 \in 0 .. GenMod - 1
    BY <1>1, <1>3, <1>4
  <2> HIDE DEF g
  <2>2. (GenMod * 0 + (g + 1)) % GenMod = g + 1
    BY <1>3, <2>1, ModUnique
  <2>3. (g + 1) % GenMod = g + 1
    BY <1>3, <2>1, <2>2
  <2> QED BY <1>2, <1>3, <2>3 DEF Issues, g
<1>7. \A t \in Slot : t # s => book'.gen[t] = book.gen[t]
  BY <1>2, <1>3 DEF Issues
<1>8. s < book'.size /\ book.size <= book'.size /\ book'.size \in Nat /\ s <= book.size
      /\ s \in Int
  BY <1>2, <1>3 DEF Issues, Slot
<1>9. call'.id.slot = s /\ call'.id.gen = book'.gen[s]
  BY <1>2 DEF IdFor, MakeHandle
<1>10. ASSUME NEW id, Issued(book, id) PROVE Issued(book', id) /\ id # call'.id
  <2> DEFINE t == id.slot
  <2>1. /\ t \in Slot /\ t \in Int /\ id \in OrderId /\ id.gen \in Nat /\ t < book.size
        /\ id.gen <= book.gen[t] /\ book.gen[t] \in Nat
    BY <1>4, <1>10, WidthAssumption DEF Issued, OrderId, Generation, Slot
  <2> HIDE DEF t
  <2>2. t < book'.size
    BY <1>3, <1>8, <2>1
  <2>3. CASE t = s
    <3>1. book'.gen[t] = book.gen[t] + 1
      BY <1>3, <1>6, <1>8, <2>1, <2>3
    <3>2. id.gen <= book'.gen[t] /\ id.gen # book'.gen[t]
      BY <2>1, <3>1
    <3> QED BY <1>9, <2>1, <2>2, <2>3, <3>2 DEF Issued, t
  <2>4. CASE t # s
    <3>1. id.gen <= book'.gen[t]
      BY <1>7, <2>1, <2>4
    <3> QED BY <1>9, <2>1, <2>2, <2>4, <3>1 DEF Issued, t
  <2> QED BY <2>3, <2>4
<1>11. Issued(book', call'.id)
  <2>1. book'.gen[s] \in Nat
    BY <1>3, <1>4, <1>6
  <2> QED BY <1>1, <1>2, <1>8, <1>9, <2>1 DEF Issued
<1>12. ASSUME NEW t \in Slot PROVE book'.gen[t] <= Issuances'
  <2>1. CASE t = s
    BY <1>3, <1>4, <1>5, <1>6, <2>1
  <2>2. CASE t # s
    BY <1>3, <1>4, <1>5, <1>7, <2>2
  <2> QED BY <2>1, <2>2
<1> QED BY <1>10, <1>11, <1>12

LEMMA IdsEnter ==
  ASSUME MaxOrders < GenMod, TotalsInvariant, IdsInOrder, Watch, NEW X, Enters(X)
  PROVE  IdsInOrder' /\ call'.id \notin retired \cup LiveIds
<1>1. /\ ~ call.active /\ call'.active /\ SeenIn(book') = SeenIn(book) \ X
      /\ call'.id \notin RestingIds(book')
  BY DEF Enters
<1>2. /\ Issued(book', call'.id)
      /\ \A id : Issued(book, id) => Issued(book', id) /\ id # call'.id
      /\ \A t \in Slot : book'.gen[t] <= Issuances'
  BY EntryIsNew DEF IdsInOrder
<1>3. \A id \in retired \cup LiveIds : Issued(book, id)
  BY LiveAreIssued DEF IdsInOrder
<1>4. call'.id \notin retired \cup LiveIds
  BY <1>2, <1>3
<1>5. LiveIds' \subseteq LiveIds \cup {call'.id}
  <2>1. RestingIds(book') \subseteq RestingIds(book)
    BY <1>1, RestingIdsSeen
  <2> QED BY <1>1, <2>1 DEF LiveIds
<1>6. retired' = retired \cup (LiveIds \ LiveIds')
  BY DEF Watch
<1>7. ASSUME NEW id \in retired' PROVE Issued(book', id) /\ id \notin LiveIds'
  BY <1>2, <1>3, <1>4, <1>5, <1>6, <1>7 DEF IdsInOrder
<1> QED BY <1>1, <1>2, <1>4, <1>7 DEF IdsInOrder

LEMMA FilledSize ==
  ASSUME NEW b \in Book, NEW s \in RestingSlots(b), NEW q \in Quantity,
         q <= b.pool[s].remaining, Linked(b), EndsExact(b)
  PROVE  FillMaker(b, s, q).size = b.size
<1>1. s \in Slot
  BY DEF RestingSlots
<1>2. PICK c \in Book :
        /\ SamePool(b, c) /\ SameQueues(b, c)
        /\ FillMaker(b, s, q) = IF b.pool[s].remaining = q THEN RemoveOrder(c, s) ELSE c
  BY <1>1, FillShape
<1>3. s \in RestingSlots(c) /\ Linked(c) /\ EndsExact(c)
  BY <1>2, QueuesKept DEF SameQueues
<1>4. RemoveOrder(c, s).size = c.size
  BY <1>2, <1>3, RemoveShape
<1> QED BY <1>2, <1>4 DEF SamePool

-------------------------------------------------------------------------------
(* Steps that neither enter an order nor trade.                             *)

(* What orders and the call have filled, a step leaves alone; an order that *)
(* comes to rest brings what it filled on the way.                          *)
SameAccounts ==
  /\ nextTradeSeq' = nextTradeSeq
  /\ \A o \in SeenIn(book') :
       \/ \E p \in SeenIn(book) : p.id = o.id /\ p.qty - p.remaining = o.qty - o.remaining
       \/ call.active /\ o.id = call.id /\ o.qty - o.remaining = call.filled
  /\ call'.active => call.active /\ call'.id = call.id /\ call'.filled = call.filled

LEMMA FewerOrders ==
  ASSUME TotalsInvariant,
         SeenIn(book') \subseteq SeenIn(book), book'.gen = book.gen, book'.size = book.size,
         nextTradeSeq' = nextTradeSeq, stats'.accepted \in Nat,
         call'.active \in BOOLEAN,
         \/ /\ call'.active = call.active /\ call'.id = call.id /\ call'.filled = call.filled
            /\ stats'.accepted = stats.accepted
         \/ call.active /\ ~ call'.active /\ stats'.accepted = stats.accepted + 1
  PROVE  Continues /\ SameAccounts
<1>1. stats.accepted \in Nat /\ call.active \in BOOLEAN
  BY CountsType DEF Call
<1>2. RestingIds(book') \subseteq RestingIds(book)
  BY RestingIdsSeen
<1>3. LiveIds' \subseteq LiveIds
  BY <1>2 DEF LiveIds
<1>4. Issuances' \in Nat /\ Issuances <= Issuances'
  BY <1>1 DEF Issuances
<1> QED BY <1>1, <1>2, <1>3, <1>4 DEF Continues, SameAccounts

LEMMA RemovalContinues ==
  ASSUME TotalsInvariant, NEW s \in RestingSlots(book), book' = RemoveOrder(book, s),
         call' = call, nextTradeSeq' = nextTradeSeq,
         stats' = [stats EXCEPT !.cancelled = @ + 1]
  PROVE  Continues /\ SameAccounts
<1>1. stats'.accepted = stats.accepted /\ stats.accepted \in Nat /\ call.active \in BOOLEAN
  BY CountsType DEF BookStats, Call
<1>2. SeenIn(book') \subseteq SeenIn(book)
  BY CountsType, RemovedSeen
<1>3. book'.gen = book.gen /\ book'.size = book.size
  BY CountsType, RemoveShape, RemoveSeen DEF RestingSlots
<1> QED BY <1>1, <1>2, <1>3, FewerOrders

LEMMA ReturnContinues ==
  ASSUME TotalsInvariant, ReturnFilled \/ ReturnKilled
  PROVE  Continues /\ SameAccounts
<1>1. PICK status, cancelled : Return(status, FALSE, cancelled) /\ call.active
  BY DEF ReturnFilled, ReturnKilled, Matched
<1>2. /\ ~ call'.active /\ call'.active \in BOOLEAN /\ nextTradeSeq' = nextTradeSeq
      /\ stats'.accepted = stats.accepted + 1 /\ stats.accepted \in Nat
  BY <1>1, CountsType DEF Return, Idle, BookStats
<1>3. SeenIn(book') = SeenIn(book) /\ book'.gen = book.gen /\ book'.size = book.size
  BY ReturnLeavesIds
<1>4. SeenIn(book') \subseteq SeenIn(book) /\ stats'.accepted \in Nat
  BY <1>2, <1>3
<1> QED BY <1>1, <1>2, <1>3, <1>4, FewerOrders

LEMMA RestContinues ==
  ASSUME TotalsInvariant, ReturnResting
  PROVE  Continues /\ SameAccounts
<1> DEFINE o == [DefaultOrder EXCEPT
                   !.id = call.id, !.price = call.price, !.qty = call.qty,
                   !.remaining = call.remaining, !.seq = nextSeq,
                   !.participant = call.participant, !.side = call.side]
           s == call.slot
           d == Seen(book', s)
<1>1. PICK status : Return(status, TRUE, 0) /\ call.active
  BY DEF ReturnResting, Matched
<1>2. /\ ~ call'.active /\ nextTradeSeq' = nextTradeSeq
      /\ stats'.accepted = stats.accepted + 1 /\ stats.accepted \in Nat
      /\ book \in Book /\ Genuine(book)
  BY <1>1, CountsType DEF Return, Idle, BookStats
<1>3. /\ book' = RestOrder(book, s, o) /\ o \in Order /\ s \in Slot
      /\ s \notin RestingSlots(book) /\ o.price >= MinPrice /\ o.price <= MaxPrice
      /\ o.id = call.id /\ o.qty = call.qty /\ o.remaining = call.remaining
      /\ o.id = IdFor(book, s) /\ o.remaining > 0 /\ o.remaining <= o.qty
      /\ o.participant \in Participants /\ Arrived(book, o.seq)
      /\ (o.price - MinPrice) % TickSize = 0
  BY CountsType, RestFacts
<1> HIDE DEF o, s
<1>4. /\ RestingSlots(book') = RestingSlots(book) \cup {s}
      /\ SameSeen(book, book', Slot \ {s}) /\ book'.gen = book.gen
      /\ book'.size = book.size
      /\ d.id = call.id /\ d.qty = call.qty /\ d.remaining = call.remaining
  <2>1. RestingSlots(book') = RestingSlots(book) \cup {s}
    BY <1>2, <1>3, RestGenuine
  <2>2. /\ SameSeen(book, book', Slot \ {s}) /\ book'.gen = book.gen
        /\ d = [id |-> o.id, side |-> o.side, price |-> o.price, qty |-> o.qty,
                remaining |-> o.remaining, participant |-> o.participant, seq |-> o.seq]
    BY <1>2, <1>3, RestSeen
  <2>3. book'.size = book.size
    BY <1>2, <1>3, RestShape DEF SamePool
  <2> HIDE DEF d
  <2> QED BY <1>3, <2>1, <2>2, <2>3
<1>5. SeenIn(book') = SeenIn(book) \cup {d}
  BY <1>2, <1>3, <1>4, SeenAdded
<1>6. call.qty - call.remaining = call.filled
  BY <1>1, CountsType DEF TotalsInvariant, ClientInvariant, TouchInvariant, SlotInvariant,
                         CallConsistent, Call, Quantity
<1> HIDE DEF d
<1>7. SameAccounts
  BY <1>1, <1>2, <1>4, <1>5, <1>6 DEF SameAccounts
<1>8. RestingIds(book') = RestingIds(book) \cup {call.id}
  BY <1>4, <1>5, RestingIdsSeen
<1>9. LiveIds' = LiveIds
  BY <1>1, <1>2, <1>8 DEF LiveIds
<1>10. Issuances' \in Nat /\ Issuances <= Issuances'
  BY <1>1, <1>2 DEF Issuances
<1> QED BY <1>2, <1>4, <1>7, <1>9, <1>10 DEF Continues

LEMMA AmendDownContinues ==
  ASSUME TotalsInvariant, NEW id \in OrderId, NEW newQty \in Quantity,
         AmendDown(id, newQty), book' \in Book
  PROVE  Continues /\ SameAccounts
<1> DEFINE s == id.slot
           o == book.pool[s]
           remaining == QtySub(newQty, AlreadyFilled(id))
           d == Seen(book', s)
<1>1. /\ call' = call /\ nextTradeSeq' = nextTradeSeq /\ stats' = stats /\ ~ call.active
  BY DEF AmendDown
<1>2. book \in Book /\ Genuine(book) /\ stats.accepted \in Nat
  BY CountsType
<1>3. /\ s \in RestingSlots(book)
      /\ remaining \in Quantity
      /\ newQty = o.qty - (o.remaining - remaining)
      /\ SameSeen(book, book', Slot \ {s}) /\ book'.gen = book.gen
      /\ RestingSlots(book') = RestingSlots(book)
      /\ d = SeenWith(book, s, newQty, remaining)
  BY CountsType, AmendDownFacts
<1>4. /\ d.id = o.id /\ d.qty = newQty /\ d.remaining = remaining
      /\ Seen(book, s).id = o.id /\ Seen(book, s).qty = o.qty
      /\ Seen(book, s).remaining = o.remaining
      /\ Seen(book, s) \in SeenIn(book)
  BY <1>3 DEF SeenWith, Seen, SeenIn
<1>5. o.qty \in Int /\ o.remaining \in Int /\ remaining \in Int
  BY <1>2, <1>3, OrderType DEF RestingSlots, Order, Quantity
<1>6. SeenIn(book') = (SeenIn(book) \ {Seen(book, s)}) \cup {d}
  <2> HIDE DEF s, o, remaining
  <2> QED BY <1>2, <1>3, SeenChanged
<1>7. book'.size = book.size
  BY CountsType, AmendDownShape DEF SamePool
<1> HIDE DEF s, o, remaining, d
<1>8. d.id = Seen(book, s).id
      /\ d.qty - d.remaining = Seen(book, s).qty - Seen(book, s).remaining
  BY <1>3, <1>4, <1>5
<1>9. SameAccounts
  BY <1>1, <1>4, <1>6, <1>8 DEF SameAccounts
<1>10. RestingIds(book') \subseteq RestingIds(book)
  BY <1>4, <1>6, <1>8, RestingIdsSeen
<1>11. LiveIds' \subseteq LiveIds
  BY <1>1, <1>10 DEF LiveIds
<1>12. Issuances' \in Nat /\ Issuances <= Issuances'
  BY <1>1, <1>2 DEF Issuances
<1> QED BY <1>1, <1>3, <1>7, <1>9, <1>11, <1>12 DEF Continues

LEMMA StillContinues ==
  ASSUME TotalsInvariant, book' = book, nextTradeSeq' = nextTradeSeq,
         stats'.accepted = stats.accepted,
         call'.active = call.active, call'.id = call.id, call'.filled = call.filled
  PROVE  Continues /\ SameAccounts
<1>1. stats.accepted \in Nat /\ call.active \in BOOLEAN
  BY CountsType DEF Call
<1> QED BY <1>1, FewerOrders

LEMMA FillContinues ==
  ASSUME TotalsInvariant, Fill
  PROVE  Continues
<1> DEFINE s == MakerSlot
           q == Smaller(call.remaining, Maker.remaining)
<1>1. /\ s \in RestingSlots(book) /\ q \in Quantity
      /\ q <= book.pool[s].remaining /\ book' = FillMaker(book, s, q)
  BY CountsType, FillFacts
<1>2. /\ call.active /\ call'.active /\ call'.id = call.id
      /\ stats'.accepted = stats.accepted /\ stats.accepted \in Nat
      /\ book \in Book /\ Linked(book) /\ EndsExact(book) /\ ClientInvariant
  BY CountsType DEF Fill, Matching, Call, BookStats
<1> HIDE DEF s, q
<1>3. RestingIds(book') \subseteq RestingIds(book)
  BY <1>1, <1>2, FilledIds
<1>4. book'.gen = book.gen
  <2>1. LET c == FillMaker(book, s, q)
        IN /\ SameSeen(book, c, Slot \ {s}) /\ SameOrders(book, c, Slot \ {s})
           /\ c.gen = book.gen
           /\ IF book.pool[s].remaining = q THEN RestingSlots(c) = RestingSlots(book) \ {s}
              ELSE /\ RestingSlots(c) = RestingSlots(book)
                   /\ SameOrders(book, c, RestingSlots(book))
                   /\ Seen(c, s) =
                        SeenWith(book, s, book.pool[s].qty, book.pool[s].remaining - q)
    BY <1>1, <1>2, FillSeen
  <2> QED BY <1>1, <2>1
<1>5. book'.size = book.size
  BY <1>1, <1>2, FilledSize
<1>6. LiveIds' \subseteq LiveIds
  BY <1>2, <1>3 DEF LiveIds
<1>7. Issuances' \in Nat /\ Issuances <= Issuances'
  BY <1>2 DEF Issuances
<1> QED BY <1>2, <1>3, <1>4, <1>5, <1>6, <1>7 DEF Continues
-------------------------------------------------------------------------------
(* What the tape says an order has filled.                                  *)

About(h, id) == {k \in DOMAIN h : id \in {h[k].maker, h[k].taker}}
Lots(h)      == [k \in DOMAIN h |-> h[k].qty]

TradedIn(h, id) == SumFunctionOnSet(Lots(h), About(h, id))

LEMMA TradeLots ==
  ASSUME NEW t \in Trade
  PROVE  t.qty \in Int
<1>1. t.qty \in Quantity
  BY DEF Trade
<1> QED BY <1>1, WidthAssumption DEF Quantity

LEMMA AboutFinite ==
  ASSUME NEW h \in Seq(Trade), NEW id
  PROVE  /\ IsFiniteSet(About(h, id)) /\ DOMAIN h = 1 .. Len(h) /\ Len(h) \in Nat
         /\ \A k \in About(h, id) : k \in DOMAIN h /\ Lots(h)[k] \in Int
<1>1. DOMAIN h = 1 .. Len(h) /\ Len(h) \in Nat
  OBVIOUS
<1>2. IsFiniteSet(1 .. Len(h))
  BY <1>1, FS_Interval
<1>3. About(h, id) \subseteq 1 .. Len(h)
  BY <1>1 DEF About
<1>4. IsFiniteSet(About(h, id))
  BY <1>2, <1>3, FS_Subset
<1>5. \A k \in DOMAIN h : Lots(h)[k] \in Int
  <2>1. \A k \in DOMAIN h : h[k] \in Trade
    BY <1>1
  <2> QED BY <2>1, TradeLots DEF Lots
<1> QED BY <1>1, <1>4, <1>5 DEF About

LEMMA TradedIsSum ==
  ASSUME NEW h \in Seq(Trade), NEW id
  PROVE  SumFunction([k \in {j \in DOMAIN h : id \in {h[j].maker, h[j].taker}} |-> h[k].qty]) =
           TradedIn(h, id)
<1> DEFINE f == [k \in About(h, id) |-> h[k].qty]
<1>1. SumFunction(f) = SumFunctionOnSet(f, About(h, id))
  BY DEF SumFunction
<1>2. IsFiniteSet(About(h, id))
  BY AboutFinite
<1>3. \A k \in About(h, id) : f[k] = Lots(h)[k]
  BY AboutFinite DEF Lots, About
<1> HIDE DEF f
<1>4. SumFunctionOnSet(f, About(h, id)) = SumFunctionOnSet(Lots(h), About(h, id))
  BY <1>2, <1>3, SumSame
<1> QED BY <1>1, <1>4 DEF f, About, TradedIn

(* A trade adds its lots to the two orders it names.                        *)
LEMMA TradedAppend ==
  ASSUME NEW h \in Seq(Trade), NEW t \in Trade, NEW id
  PROVE  /\ Append(h, t) \in Seq(Trade)
         /\ TradedIn(Append(h, t), id) =
              TradedIn(h, id) + (IF id \in {t.maker, t.taker} THEN t.qty ELSE 0)
         /\ TradedIn(h, id) \in Int
<1> DEFINE g == Append(h, t)
           d == Len(h) + 1
<1>1. /\ g \in Seq(Trade) /\ DOMAIN g = 1 .. d /\ g[d] = t
      /\ DOMAIN h = 1 .. Len(h) /\ Len(h) \in Nat
      /\ \A k \in DOMAIN h : g[k] = h[k]
  OBVIOUS
<1>2. /\ IsFiniteSet(About(h, id)) /\ \A k \in About(h, id) : k \in DOMAIN h /\ Lots(h)[k] \in Int
      /\ t.qty \in Int
  BY AboutFinite, TradeLots
<1> HIDE DEF g
<1>3. d \notin DOMAIN h /\ d \in DOMAIN g /\ DOMAIN g = DOMAIN h \cup {d}
  BY <1>1
<1>4. /\ Lots(g)[d] = t.qty /\ \A k \in About(h, id) : Lots(g)[k] = Lots(h)[k]
  BY <1>1, <1>2, <1>3 DEF Lots
<1>5. SumFunctionOnSet(Lots(g), About(h, id)) = TradedIn(h, id)
  BY <1>2, <1>4, SumSame DEF TradedIn
<1>6. TradedIn(h, id) \in Int
  BY <1>2, SumType DEF TradedIn
<1>7. About(g, id) = About(h, id) \cup (IF id \in {t.maker, t.taker} THEN {d} ELSE {})
  BY <1>1, <1>3 DEF About
<1>8. TradedIn(g, id) = TradedIn(h, id) + (IF id \in {t.maker, t.taker} THEN t.qty ELSE 0)
  <2>1. CASE id \in {t.maker, t.taker}
    <3>1. About(g, id) = About(h, id) \cup {d} /\ d \notin About(h, id)
      BY <1>2, <1>3, <1>7, <2>1
    <3>2. \A k \in About(h, id) \cup {d} : Lots(g)[k] \in Int
      BY <1>2, <1>4
    <3> HIDE DEF d
    <3>3. SumFunctionOnSet(Lots(g), About(h, id) \cup {d}) =
            Lots(g)[d] + SumFunctionOnSet(Lots(g), About(h, id))
      BY <1>2, <3>1, <3>2, SumAdd
    <3>4. TradedIn(g, id) = t.qty + TradedIn(h, id)
      BY <1>4, <1>5, <3>1, <3>3 DEF TradedIn
    <3> QED BY <1>2, <1>6, <2>1, <3>4
  <2>2. CASE id \notin {t.maker, t.taker}
    <3>1. About(g, id) = About(h, id)
      BY <1>7, <2>2
    <3> QED BY <1>5, <1>6, <2>2, <3>1 DEF TradedIn
  <2> QED BY <2>1, <2>2
<1> QED BY <1>1, <1>6, <1>8 DEF g

(* Every trade names orders that are live or were; what an order has filled *)
(* is what the tape says.                                                   *)
TapeTold ==
  /\ history \in Seq(Trade)
  /\ \A k \in DOMAIN history : {history[k].maker, history[k].taker} \subseteq retired \cup LiveIds
  /\ \A o \in SeenIn(book) : o.qty - o.remaining = TradedIn(history, o.id)
  /\ call.active => call.filled = TradedIn(history, call.id)

LEMMA ToldMatches ==
  ASSUME TotalsInvariant, TapeTold
  PROVE  FillsMatchTape
<1>1. \A id : Traded(id) = TradedIn(history, id)
  BY TradedIsSum DEF Traded, TapeTold
<1>2. ASSUME NEW s \in RestingSlots(book)
      PROVE  book.pool[s].qty - book.pool[s].remaining = Traded(book.pool[s].id)
  <2>1. /\ Seen(book, s) \in SeenIn(book) /\ Seen(book, s).id = book.pool[s].id
        /\ Seen(book, s).qty = book.pool[s].qty
        /\ Seen(book, s).remaining = book.pool[s].remaining
    BY DEF Seen, SeenIn
  <2> QED BY <1>1, <2>1 DEF TapeTold
<1>3. ASSUME call.active
      PROVE  call.filled = Traded(call.id) /\ call.qty - call.remaining = call.filled
  <2>1. call.filled + call.remaining = call.qty
        /\ call.filled \in Int /\ call.remaining \in Int /\ call.qty \in Int
    BY <1>3, CountsType, WidthAssumption
    DEF TotalsInvariant, ClientInvariant, TouchInvariant, SlotInvariant, CallConsistent,
        Call, Quantity
  <2> QED BY <1>1, <1>3, <2>1 DEF TapeTold
<1> QED BY <1>2, <1>3 DEF FillsMatchTape

LEMMA WatchedIds ==
  ASSUME Watch
  PROVE  retired \cup LiveIds \subseteq retired' \cup LiveIds'
BY DEF Watch

LEMMA ToldContinues ==
  ASSUME TotalsInvariant, TapeTold, SameAccounts, Watch
  PROVE  TapeTold'
<1>1. ~ (nextTradeSeq' > nextTradeSeq)
  BY CountsType DEF SameAccounts
<1>2. history' = history
  BY <1>1 DEF Watch
<1>3. \A o \in SeenIn(book') : o.qty - o.remaining = TradedIn(history, o.id)
  BY DEF SameAccounts, TapeTold
<1>4. \A k \in DOMAIN history :
        {history[k].maker, history[k].taker} \subseteq retired' \cup LiveIds'
  BY WatchedIds DEF TapeTold
<1> QED BY <1>2, <1>3, <1>4 DEF SameAccounts, TapeTold

LEMMA ToldEnters ==
  ASSUME TotalsInvariant, TapeTold, Watch, NEW X, Enters(X), call'.id \notin retired \cup LiveIds
  PROVE  TapeTold'
<1>1. /\ SeenIn(book') \subseteq SeenIn(book) /\ call'.active /\ call'.filled = 0
      /\ nextTradeSeq' = nextTradeSeq
  BY DEF Enters
<1>2. ~ (nextTradeSeq' > nextTradeSeq)
  BY <1>1, CountsType
<1>3. history' = history
  BY <1>2 DEF Watch
<1>4. About(history, call'.id) = {}
  BY DEF TapeTold, About
<1>5. TradedIn(history, call'.id) = 0
  BY <1>4, SumEmpty DEF TradedIn
<1>6. \A k \in DOMAIN history :
        {history[k].maker, history[k].taker} \subseteq retired' \cup LiveIds'
  BY WatchedIds DEF TapeTold
<1> QED BY <1>1, <1>3, <1>5, <1>6 DEF TapeTold

LEMMA ToldFill ==
  ASSUME TotalsInvariant, TypeOK', IdsInOrder, TapeTold, Watch, Fill
  PROVE  TapeTold'
<1> DEFINE s == MakerSlot
           q == Smaller(call.remaining, Maker.remaining)
           t == [seq |-> nextTradeSeq, taker |-> call.id, maker |-> Maker.id,
                 price |-> ToPrice(BestIndex), qty |-> q, side |-> call.side]
           o == Seen(book, s)
           p == [o EXCEPT !.remaining = @ - q]
<1>1. /\ s \in RestingSlots(book) /\ q \in Quantity
      /\ q <= book.pool[s].remaining /\ book' = FillMaker(book, s, q)
  BY CountsType, FillFacts
<1>2. /\ call.active /\ call'.active /\ call'.id = call.id /\ call'.filled = call.filled + q
      /\ nextTradeSeq' = nextTradeSeq + 1 /\ trades' = Append(trades, t)
  BY CountsType DEF Fill, Matching, Call
<1>3. /\ book \in Book /\ Linked(book) /\ EndsExact(book) /\ Genuine(book)
      /\ nextTradeSeq \in Nat /\ trades \in Seq(Trade) /\ call.filled \in Int
  BY CountsType, WidthAssumption DEF Call, Quantity
<1>4. /\ t.taker = call.id /\ t.maker = Maker.id /\ t.qty = q
      /\ Maker.id = o.id /\ o \in SeenIn(book) /\ o.id = IdFor(book, s)
      /\ o.remaining = book.pool[s].remaining
      /\ o.qty \in Int /\ o.remaining \in Int /\ q \in Int
      /\ \A x \in SeenIn(book) : x.id = o.id => x = o
      /\ o.id \in RestingIds(book)
  <2>1. t.taker = call.id /\ t.maker = Maker.id /\ t.qty = q /\ Maker.id = o.id
        /\ o.remaining = book.pool[s].remaining /\ o.qty = book.pool[s].qty
    BY DEF Maker, Seen
  <2>2. book.pool[s].qty \in Int /\ book.pool[s].remaining \in Int /\ q \in Int
    BY <1>1, <1>3, OrderType, WidthAssumption DEF RestingSlots, Order, Quantity
  <2>3. /\ o \in SeenIn(book) /\ o.id = IdFor(book, s)
        /\ \A x \in SeenIn(book) : x.id = IdFor(book, s) => x = o
    BY <1>1, <1>3, IdsNameSlots
  <2>4. o.id \in RestingIds(book)
    BY <2>3, RestingIdsSeen
  <2> HIDE DEF t, o, q, s
  <2> QED BY <2>1, <2>2, <2>3, <2>4
<1>5. p.id = o.id /\ p.qty = o.qty /\ p.remaining = o.remaining - q
  BY DEF Seen
<1> HIDE DEF s, q, t, p, o
<1>6. t \in Trade /\ trades'[Len(trades')] = t
  <2>1. DEFINE u == Append(trades, t)
  <2>2. Len(u) = Len(trades) + 1 /\ u[Len(u)] = t /\ DOMAIN u = 1 .. Len(u)
        /\ Len(trades) \in Nat
    <3>1. trades \in Seq(Trade)
      BY <1>3
    <3> QED BY <3>1
  <2>3. u \in Seq(Trade)
    BY <1>2 DEF TypeOK
  <2> HIDE DEF u
  <2>4. Len(u) \in 1 .. Len(u)
    BY <2>2
  <2>5. u[Len(u)] \in Trade
    BY <2>2, <2>3, <2>4
  <2> QED BY <1>2, <2>2, <2>5 DEF u
<1>7. history' = Append(history, t)
  <2>1. nextTradeSeq' > nextTradeSeq
    BY <1>2, <1>3
  <2> QED BY <1>6, <2>1 DEF Watch
<1>8. /\ history \in Seq(Trade) /\ history' \in Seq(Trade)
      /\ \A id : /\ TradedIn(history, id) \in Int
                 /\ TradedIn(history', id) =
                      TradedIn(history, id) + (IF id \in {t.maker, t.taker} THEN t.qty ELSE 0)
  <2>1. history \in Seq(Trade)
    BY DEF TapeTold
  <2> QED BY <1>6, <1>7, <2>1, TradedAppend
<1>9. SeenIn(book') = (SeenIn(book) \ {o}) \cup (IF o.remaining = q THEN {} ELSE {p})
  BY <1>1, <1>3, FilledSeen DEF o, p
<1>10. \A x \in SeenIn(book) : x.id # call.id
  BY <1>2, RestingIdsSeen DEF IdsInOrder
<1>11. ASSUME NEW x \in SeenIn(book') PROVE x.qty - x.remaining = TradedIn(history', x.id)
  <2>1. CASE x \in SeenIn(book) \ {o}
    <3>1. x.id # t.maker /\ x.id # t.taker
      BY <1>4, <1>10, <2>1
    <3>2. x.qty - x.remaining = TradedIn(history, x.id)
      BY <2>1 DEF TapeTold
    <3> QED BY <1>8, <3>1, <3>2
  <2>2. CASE x = p
    <3>1. o.qty - o.remaining = TradedIn(history, o.id)
      BY <1>4 DEF TapeTold
    <3>2. TradedIn(history', o.id) = TradedIn(history, o.id) + q
      BY <1>4, <1>8
    <3>3. o.qty - (o.remaining - q) = (o.qty - o.remaining) + q
      BY <1>4
    <3> QED BY <1>5, <2>2, <3>1, <3>2, <3>3
  <2> QED BY <1>9, <2>1, <2>2
<1>12. call'.filled = TradedIn(history', call'.id)
  BY <1>2, <1>3, <1>4, <1>8 DEF TapeTold
<1>13. \A k \in DOMAIN history' :
         {history'[k].maker, history'[k].taker} \subseteq retired' \cup LiveIds'
  <2>1. DEFINE u == Append(history, t)
  <2>2. \A k \in DOMAIN u : (k \in DOMAIN history /\ u[k] = history[k]) \/ u[k] = t
    BY <1>8
  <2>3. {t.maker, t.taker} \subseteq LiveIds
    BY <1>2, <1>4 DEF LiveIds
  <2>4. \A k \in DOMAIN u : {u[k].maker, u[k].taker} \subseteq retired \cup LiveIds
    BY <2>2, <2>3 DEF TapeTold
  <2> HIDE DEF u
  <2> QED BY <1>7, <2>4, WatchedIds DEF u
<1> QED BY <1>2, <1>8, <1>11, <1>12, <1>13 DEF TapeTold
-------------------------------------------------------------------------------
KnownIds == IdsInOrder /\ TapeTold

LEMMA KnownContinues ==
  ASSUME TotalsInvariant, KnownIds, Continues, SameAccounts, Watch
  PROVE  KnownIds'
BY IdsContinue, ToldContinues DEF KnownIds

LEMMA KnownEnters ==
  ASSUME MaxOrders < GenMod, TotalsInvariant, KnownIds, Watch, NEW X, Enters(X)
  PROVE  KnownIds'
<1>1. IdsInOrder' /\ call'.id \notin retired \cup LiveIds
  BY IdsEnter DEF KnownIds
<1>2. TapeTold'
  BY <1>1, ToldEnters DEF KnownIds
<1> QED BY <1>1, <1>2 DEF KnownIds

LEMMA KnownNext ==
  ASSUME MaxOrders < GenMod, TotalsInvariant, KnownIds, [MonitorNext]_monitoredVars
  PROVE  KnownIds'
<1> USE InputAssumption
<1>1. TotalsInvariant'
  BY TotalsInvariantNext DEF MonitorNext, Next, monitoredVars
<1>2. TypeOK' /\ book' \in Book
  BY <1>1 DEF TotalsInvariant, ClientInvariant, TouchInvariant, SlotInvariant, TypeOK
<1>3. ASSUME Watch,
             \/ \E side \in Side, price \in Prices, qty \in Quantities, tif \in Tifs,
                   participant \in Participants : SubmitLimit(side, price, qty, tif, participant)
             \/ \E side \in Side, qty \in Quantities, participant \in Participants :
                   SubmitMarket(side, qty, participant)
      PROVE  KnownIds'
  <2>1. Enters({}) \/ Bounces
    BY <1>3, SubmitEnters
  <2>2. CASE Enters({})
    BY <1>3, <2>2, KnownEnters
  <2>3. CASE Bounces
    <3>1. Continues /\ SameAccounts
      BY <2>3, StillContinues DEF Bounces
    <3> QED BY <1>3, <3>1, KnownContinues
  <2> QED BY <2>1, <2>2, <2>3
<1>4. ASSUME StopTaker PROVE Continues /\ SameAccounts
  <2>1. call'.active = call.active /\ call'.id = call.id /\ call'.filled = call.filled
    BY <1>4, CountsType DEF StopTaker, Call
  <2> QED BY <1>4, <2>1, StillContinues DEF StopTaker
<1>5. ASSUME PullMaker PROVE Continues /\ SameAccounts
  <2>1. MakerSlot \in RestingSlots(book)
    BY <1>5, CountsType, MakerRests DEF PullMaker, ClientInvariant, TouchInvariant
  <2> QED BY <1>5, <2>1, RemovalContinues DEF PullMaker
<1>6. ASSUME Watch, Fill PROVE KnownIds'
  <2>1. IdsInOrder'
    BY <1>6, FillContinues, IdsContinue DEF KnownIds
  <2>2. TapeTold'
    BY <1>2, <1>6, ToldFill DEF KnownIds
  <2> QED BY <2>1, <2>2 DEF KnownIds
<1>7. ASSUME ReturnStep PROVE Continues /\ SameAccounts
  BY <1>7, ReturnContinues, RestContinues DEF ReturnStep
<1>8. ASSUME NEW id \in OrderId,
             \/ CancelLive(id)
             \/ \E newQty \in Quantities : AmendToCancel(id, newQty)
      PROVE  Continues /\ SameAccounts
  <2>1. id.slot \in RestingSlots(book)
    BY <1>8, CountsType, ResolvedRests
    DEF CancelLive, AmendToCancel, ClientInvariant, TouchInvariant
  <2> QED BY <1>8, <2>1, RemovalContinues DEF CancelLive, AmendToCancel
<1>9. ASSUME NEW id \in OrderId, NEW newQty \in Quantities, AmendDown(id, newQty)
      PROVE  Continues /\ SameAccounts
  BY <1>2, <1>9, AmendDownContinues
<1>10. ASSUME Watch, NEW id \in OrderId, NEW newQty \in Quantities, AmendUp(id, newQty)
       PROVE  KnownIds'
  <2>1. \E r \in RestingSlots(book) : Enters({Seen(book, r)})
    BY <1>10, AmendUpEnters
  <2> QED BY <1>10, <2>1, KnownEnters
<1>11. ASSUME UNCHANGED <<book, call, nextTradeSeq, stats>> PROVE Continues /\ SameAccounts
  BY <1>11, StillContinues
<1>12. ASSUME Clear, WatchClear PROVE KnownIds'
  <2>1. /\ RestingSlots(book') = {} /\ ~ call'.active
        /\ \A s \in Slot : book'.gen[s] = 0
        /\ stats'.accepted = 0 /\ history' = << >> /\ retired' = {}
    BY <1>12 DEF Clear, WatchClear, FreshBook, RestingSlots, DefaultOrder, NoStats
  <2>2. SeenIn(book') = {}
    BY <2>1 DEF SeenIn
  <2>3. Issuances' = 0
    BY <2>1 DEF Issuances
  <2> QED BY <2>1, <2>2, <2>3 DEF KnownIds, IdsInOrder, TapeTold
<1>13. ASSUME UNCHANGED monitoredVars PROVE KnownIds'
  BY <1>13
  DEF monitoredVars, vars, monitor, KnownIds, IdsInOrder, TapeTold, LiveIds, Issuances
<1> QED
  BY <1>3, <1>4, <1>5, <1>6, <1>7, <1>8, <1>9, <1>10, <1>11, <1>12, <1>13, KnownContinues
  DEF MonitorNext, EngineStep, MatchStep, CancelUnknown, AmendUnknown, vars,
      SetSelfTradePrevention, ClearTrades

LEMMA KnownInit == MonitorInit => KnownIds
<1> SUFFICES ASSUME MonitorInit PROVE KnownIds
  OBVIOUS
<1>1. /\ RestingSlots(book) = {} /\ ~ call.active
      /\ \A s \in Slot : book.gen[s] = 0
      /\ stats.accepted = 0 /\ history = << >> /\ retired = {}
  BY DEF MonitorInit, Init, Idle, FreshBook, RestingSlots, DefaultOrder, NoStats
<1>2. SeenIn(book) = {}
  BY <1>1 DEF SeenIn
<1>3. Issuances = 0
  BY <1>1 DEF Issuances
<1> QED BY <1>1, <1>2, <1>3 DEF KnownIds, IdsInOrder, TapeTold

LEMMA KnownAlways ==
  ASSUME MaxOrders < GenMod
  PROVE  MonitorSpec => []KnownIds
<1>1. TotalsInvariant /\ KnownIds /\ [MonitorNext]_monitoredVars => KnownIds'
  BY KnownNext
<1> QED BY <1>1, KnownInit, MonitoredTotals, PTL DEF MonitorSpec

LEMMA RetiredAreDead ==
  ASSUME IdsInOrder
  PROVE  StaleIdsStayDead
<1> SUFFICES ASSUME NEW id \in retired, Resolve(book, id) # NoSlot PROVE FALSE
  BY DEF StaleIdsStayDead
<1>1. id \in OrderId /\ id \notin LiveIds
  BY DEF IdsInOrder, Issued
<1>2. id.slot \in Slot /\ book.pool[id.slot].active /\ book.pool[id.slot].id = id
  BY <1>1 DEF Resolve, OrderId
<1>3. id \in RestingIds(book)
  BY <1>2 DEF RestingIds, RestingSlots
<1> QED BY <1>1, <1>3 DEF LiveIds

(* An id whose order is gone never reaches another order, however often its *)
(* slot was used again, if fewer orders than generations enter between two  *)
(* clear(): an id that was retired is not handed out a second time.         *)
THEOREM StaleIdsCorrect ==
  ASSUME MaxOrders < GenMod
  PROVE  MonitorSpec => []StaleIdsStayDead
<1>1. KnownIds => StaleIdsStayDead
  BY RetiredAreDead DEF KnownIds
<1> QED BY <1>1, KnownAlways, PTL

(* What a client computes from the two quantities of its order is what the  *)
(* tape told it, trade by trade, under the same condition: the trades that  *)
(* name an id are those of one order.                                       *)
THEOREM FillsCorrect ==
  ASSUME MaxOrders < GenMod
  PROVE  MonitorSpec => []FillsMatchTape
<1>1. TotalsInvariant /\ KnownIds => FillsMatchTape
  BY ToldMatches DEF KnownIds
<1> QED BY <1>1, KnownAlways, MonitoredTotals, PTL
-------------------------------------------------------------------------------
(* The market simulator.                                                    *)

(* What goes on in each phase: which event, and whether a call of the       *)
(* engine may be under way, of a limit or of a market order.                *)
PhaseSound ==
  /\ phase = "seed" => event \in {"none", "limit"} /\ runs = 0
  /\ phase \in {"idle", "head"} => event \in {"none", "study"}
  /\ phase = "event" => event \in {"limit", "market", "cancel", "nothing"} /\ n < Events
  /\ phase \in {"study", "gaveup"} => event = "study" /\ runs > 0
  /\ call.active =>
       IF call.market THEN phase = "study" \/ (phase = "event" /\ event = "market")
       ELSE phase \in {"seed", "event"} /\ event = "limit"

Grounded == TotalsInvariant /\ SimTypeOK /\ PhaseSound

(* Seeding puts bids below and offers above the reference price.            *)
Below(side, price) == IF side = "Buy" THEN price < RefPrice ELSE price > RefPrice

SeedApart ==
  phase = "seed" =>
    /\ \A side \in Side : HasBest(book, side) => Below(side, ToPrice(book.best[side]))
    /\ call.active => Below(call.side, call.price)

(* A limit order under way has nothing to do but come to rest.              *)
OnlyRests == call.active /\ ~ call.market =>
  /\ ~ Crosses
  /\ call.remaining > 0 /\ call.tif = "GTC" /\ ~ call.stpCancelled

Passive == SeedApart /\ OnlyRests /\ result.reject \in {"None", "EmptyBook"}

(* The ids in live are distinct, were all given out by the engine, and name *)
(* what rests; the id of the order under way is none of them.               *)
Handles ==
  /\ \A j, k \in DOMAIN live : live[j] = live[k] => j = k
  /\ RestingIds(book) \subseteq Listed \cup AboutToBeListed
  /\ \A id \in Listed \cup AboutToBeListed : Issued(book, id)
  /\ AboutToBeListed \cap Listed = {}
  /\ call.active => /\ Issued(book, call.id)
                    /\ call.id \notin Listed /\ call.id \notin RestingIds(book)
  /\ \A s \in Slot : book.gen[s] <= Issuances

(* Before the first order of the impact study.                              *)
EarlyDays == phase = "seed" \/ runs = 0 \/ (phase \in {"head", "event"} /\ runs = 1)

Coming == IF event = "limit" /\ ~ call.active /\ result.resting THEN 1 ELSE 0

(* Early on a limit order finds at most GhostsAllowed dead ids and adds     *)
(* none; no event makes live longer before its end.                         *)
Ghosts ==
  /\ EarlyDays /\ (phase = "event" => event = "limit") =>
       Len(live) + Coming <= book.open + GhostsAllowed
  /\ phase = "event" => Len(live) <= nLive
  /\ GhostsBounded

(* The tape is as old as the last multiple of DrainEvery, if one has come.  *)
DrainSound ==
  phase \in {"head", "event"} /\ (\E m \in warmup .. n - 1 : m % DrainEvery = 0) =>
    n > 0 /\ undrained = (n - 1) % DrainEvery
-------------------------------------------------------------------------------
(* Lists without repetitions.                                               *)

Distinct(s) == \A j, k \in DOMAIN s : s[j] = s[k] => j = k
Elements(s) == {s[k] : k \in DOMAIN s}

LEMMA Extended ==
  ASSUME NEW S, NEW s \in Seq(S), NEW x \in S
  PROVE  /\ Append(s, x) \in Seq(S) /\ Len(Append(s, x)) = Len(s) + 1
         /\ Elements(Append(s, x)) = Elements(s) \cup {x}
         /\ Distinct(s) /\ x \notin Elements(s) => Distinct(Append(s, x))
<1> DEFINE t == Append(s, x)
           m == Len(s)
<1>1. /\ m \in Nat /\ DOMAIN s = 1 .. m /\ t \in Seq(S) /\ Len(t) = m + 1
      /\ DOMAIN t = 1 .. m + 1 /\ t[m + 1] = x /\ \A k \in 1 .. m : t[k] = s[k]
  BY AppendProperties, LenProperties
<1> HIDE DEF t, m
<1>2. \A k \in 1 .. m + 1 : k # m + 1 => k \in 1 .. m
  BY <1>1
<1>3. m + 1 \in 1 .. m + 1 /\ 1 .. m \subseteq 1 .. m + 1
  BY <1>1
<1>4. Elements(t) \subseteq Elements(s) \cup {x}
  BY <1>1, <1>2 DEF Elements
<1>5. Elements(s) \cup {x} \subseteq Elements(t)
  BY <1>1, <1>3 DEF Elements
<1>6. ASSUME Distinct(s), x \notin Elements(s) PROVE Distinct(t)
  <2>1. \A k \in 1 .. m : s[k] # x
    BY <1>1, <1>6 DEF Elements
  <2>2. \A j, k \in 1 .. m : s[j] = s[k] => j = k
    BY <1>1, <1>6 DEF Distinct
  <2> QED BY <1>1, <1>2, <2>1, <2>2 DEF Distinct
<1> QED BY <1>1, <1>4, <1>5, <1>6 DEF t, m

LEMMA SwappedOut ==
  ASSUME NEW S, NEW s \in Seq(S), NEW k \in DOMAIN s
  PROVE  /\ SwapPop(s, k) \in Seq(S) /\ Len(SwapPop(s, k)) = Len(s) - 1
         /\ Distinct(s) => /\ Distinct(SwapPop(s, k))
                           /\ Elements(SwapPop(s, k)) = Elements(s) \ {s[k]}
<1> DEFINE m == Len(s)
           u == [s EXCEPT ![k] = s[m]]
           t == SwapPop(s, k)
<1>1. m \in Nat /\ DOMAIN s = 1 .. m /\ k \in 1 .. m /\ m \in 1 .. m
  BY LenProperties
<1>2. s[m] \in S /\ \A j \in 1 .. m : s[j] \in S
  BY <1>1, ElementOfSeq
<1>3. \A j \in 1 .. m : u[j] = IF j = k THEN s[m] ELSE s[j]
  BY <1>1, <1>2, ExceptSeq
<1>4. t = SubSeq(u, 1, m - 1)
  BY DEF SwapPop
<1>5. \A j \in 1 .. m - 1 : u[j] \in S
  BY <1>1, <1>2, <1>3
<1>6. /\ t \in Seq(S) /\ Len(t) = m - 1 /\ DOMAIN t = 1 .. m - 1
      /\ \A j \in 1 .. m - 1 : t[j] = u[j]
  <2> HIDE DEF u, m, t
  <2>1. /\ t \in Seq(S) /\ Len(t) = IF 1 <= m - 1 THEN m - 1 ELSE 0
        /\ \A j \in 1 .. m - 1 : t[j] = u[1 + j - 1]
    BY <1>1, <1>4, <1>5, SubSeqProperties
  <2>2. Len(t) = m - 1
    BY <1>1, <2>1
  <2>3. DOMAIN t = 1 .. Len(t)
    BY <2>1, LenProperties
  <2>4. \A j \in 1 .. m - 1 : 1 + j - 1 = j
    BY <1>1
  <2> QED BY <2>1, <2>2, <2>3, <2>4
<1> HIDE DEF u, t, m
<1>7. ASSUME Distinct(s) PROVE Distinct(t) /\ Elements(t) = Elements(s) \ {s[k]}
  <2>1. \A i, j \in 1 .. m : s[i] = s[j] => i = j
    BY <1>1, <1>7 DEF Distinct
  <2>2. \A j \in 1 .. m - 1 : j \in 1 .. m /\ j # m /\ t[j] = IF j = k THEN s[m] ELSE s[j]
    BY <1>1, <1>3, <1>6
  <2>3. \A i, j \in 1 .. m - 1 : t[i] = t[j] => i = j
    BY <1>1, <2>1, <2>2
  <2>4. Elements(t) \subseteq Elements(s) \ {s[k]}
    <3>1. \A j \in 1 .. m - 1 : t[j] \in Elements(s) /\ t[j] # s[k]
      BY <1>1, <2>1, <2>2 DEF Elements
    <3> QED BY <1>6, <3>1 DEF Elements
  <2>5. ASSUME NEW j \in 1 .. m, s[j] # s[k] PROVE s[j] \in Elements(t)
    <3>1. CASE j = m
      <4>1. k \in 1 .. m - 1 /\ t[k] = s[j]
        BY <1>1, <2>2, <2>5, <3>1
      <4> QED BY <1>6, <4>1 DEF Elements
    <3>2. CASE j # m
      <4>1. j \in 1 .. m - 1 /\ t[j] = s[j]
        BY <1>1, <2>2, <2>5, <3>2
      <4> QED BY <1>6, <4>1 DEF Elements
    <3> QED BY <3>1, <3>2
  <2>6. Elements(s) \ {s[k]} \subseteq Elements(t)
    BY <1>1, <2>5 DEF Elements
  <2> QED BY <1>6, <2>3, <2>4, <2>6 DEF Distinct
<1> QED BY <1>6, <1>7 DEF m, t

(* A list without repetitions is no longer than a set that covers it.       *)
LEMMA DistinctLength ==
  ASSUME NEW S, NEW s \in Seq(S), Distinct(s), NEW T, IsFiniteSet(T), Elements(s) \subseteq T
  PROVE  Len(s) <= Cardinality(T)
<1>1. Len(s) \in Nat /\ DOMAIN s = 1 .. Len(s) /\ s \in [1 .. Len(s) -> S]
  BY LenProperties
<1>2. s \in [1 .. Len(s) -> T]
  <2>1. \A k \in 1 .. Len(s) : s[k] \in T
    BY <1>1 DEF Elements
  <2> QED BY <1>1, <2>1
<1>3. s \in Injection(1 .. Len(s), T)
  BY <1>1, <1>2 DEF Injection, IsInjective, Distinct
<1>4. Cardinality(1 .. Len(s)) <= Cardinality(T)
  BY <1>3, FS_Injection
<1>5. Cardinality(1 .. Len(s)) = Len(s)
  BY <1>1, FS_Interval
<1> QED BY <1>4, <1>5

(* _prune_dead() goes through the list once.                                *)
Kept(s, w) ==
  w = [k \in 0 .. Len(s) |->
         IF k = 0 THEN << >>
         ELSE IF IsLive(s[k]) THEN Append(w[k - 1], s[k])
         ELSE w[k - 1]]

LEMMA PruneIsKept ==
  ASSUME NEW s
  PROVE  PruneDead(s) = (CHOOSE w : Kept(s, w))[Len(s)]
BY DEF PruneDead, Kept

LEMMA KeptExists ==
  ASSUME NEW s, Len(s) \in Nat
  PROVE  \E w : Kept(s, w)
<1> DEFINE Step(m, w) ==
             w = [k \in 0 .. m |->
                    IF k = 0 THEN << >>
                    ELSE IF IsLive(s[k]) THEN Append(w[k - 1], s[k])
                    ELSE w[k - 1]]
           G == {m \in Nat : \E w : Step(m, w)}
<1>1. 0 \in G
  <2>1. Step(0, [k \in 0 .. 0 |-> << >>])
    OBVIOUS
  <2> QED BY <2>1
<1>2. ASSUME NEW m \in Nat, m \in G PROVE m + 1 \in G
  <2>1. PICK w : Step(m, w)
    BY <1>2
  <2> DEFINE v == [k \in 0 .. m + 1 |->
                     IF k = 0 THEN << >>
                     ELSE IF IsLive(s[k]) THEN Append(w[k - 1], s[k])
                     ELSE w[k - 1]]
  <2>2. \A k \in 0 .. m : v[k] = w[k]
    <3> DEFINE x == [k \in 0 .. m |->
                       IF k = 0 THEN << >>
                       ELSE IF IsLive(s[k]) THEN Append(w[k - 1], s[k])
                       ELSE w[k - 1]]
    <3>1. w = x
      BY <2>1
    <3>2. \A k \in 0 .. m : v[k] = x[k]
      OBVIOUS
    <3> HIDE DEF x, v
    <3> QED BY <3>1, <3>2
  <2>3. \A k \in 0 .. m + 1 : k # 0 => k - 1 \in 0 .. m
    OBVIOUS
  <2>4. \A k \in 0 .. m + 1 : k # 0 => w[k - 1] = v[k - 1]
    BY <2>2, <2>3
  <2>5. Step(m + 1, v)
    BY <2>4
  <2> HIDE DEF Step, v
  <2> QED BY <2>5
<1> HIDE DEF G
<1>3. Nat \subseteq G
  BY <1>1, <1>2, NatGood
<1>4. PICK w : Step(Len(s), w)
  BY <1>3 DEF G
<1>5. Kept(s, w)
  BY <1>4 DEF Kept
<1> QED BY <1>5

LEMMA PrunedList ==
  ASSUME NEW S, NEW s \in Seq(S)
  PROVE  /\ PruneDead(s) \in Seq(S)
         /\ Elements(PruneDead(s)) = {id \in Elements(s) : IsLive(id)}
         /\ Distinct(s) => Distinct(PruneDead(s))
<1> DEFINE w == CHOOSE v : Kept(s, v)
           m == Len(s)
           Before(k) == {id \in {s[j] : j \in 1 .. k} : IsLive(id)}
           G == {k \in Nat : k <= m => /\ w[k] \in Seq(S)
                                       /\ Elements(w[k]) = Before(k)
                                       /\ Distinct(s) => Distinct(w[k])}
<1>1. m \in Nat /\ DOMAIN s = 1 .. m /\ \A k \in 1 .. m : s[k] \in S
  BY LenProperties, ElementOfSeq
<1>2. Kept(s, w)
  BY <1>1, KeptExists
<1> HIDE DEF w
<1>3. w[0] = << >>
  BY <1>1, <1>2 DEF Kept
<1>4. ASSUME NEW k \in Nat, k + 1 <= m
      PROVE  w[k + 1] = IF IsLive(s[k + 1]) THEN Append(w[k], s[k + 1]) ELSE w[k]
  <2>1. k + 1 \in 0 .. m /\ k + 1 # 0 /\ (k + 1) - 1 = k
    BY <1>1, <1>4
  <2> DEFINE j == k + 1
  <2>2. j \in 0 .. m /\ j # 0 /\ j - 1 = k
    BY <2>1
  <2> HIDE DEF j
  <2>3. w[j] = IF IsLive(s[j]) THEN Append(w[j - 1], s[j]) ELSE w[j - 1]
    BY <1>2, <2>2 DEF Kept
  <2> QED BY <2>2, <2>3 DEF j
<1>5. 0 \in G
  <2>1. << >> \in Seq(S) /\ DOMAIN << >> = {} /\ 1 .. 0 = {}
    BY EmptySeq
  <2>2. Elements(w[0]) = {} /\ Distinct(w[0]) /\ Before(0) = {}
    BY <1>3, <2>1 DEF Elements, Distinct
  <2> QED BY <1>3, <2>1, <2>2
<1>6. ASSUME NEW k \in Nat, k \in G PROVE k + 1 \in G
  <2> SUFFICES ASSUME k + 1 <= m
               PROVE  /\ w[k + 1] \in Seq(S)
                      /\ Elements(w[k + 1]) = Before(k + 1)
                      /\ Distinct(s) => Distinct(w[k + 1])
    OBVIOUS
  <2>1. /\ w[k] \in Seq(S) /\ Elements(w[k]) = Before(k)
        /\ Distinct(s) => Distinct(w[k])
    BY <1>1, <1>6
  <2> DEFINE x == s[k + 1]
  <2>2. x \in S /\ k + 1 \in DOMAIN s
    BY <1>1
  <2>3. 1 .. k + 1 = (1 .. k) \cup {k + 1} /\ k + 1 \notin 1 .. k /\ 1 .. k \subseteq DOMAIN s
    BY <1>1
  <2>4. Before(k + 1) = IF IsLive(x) THEN Before(k) \cup {x} ELSE Before(k)
    <3>1. {s[j] : j \in 1 .. k + 1} = {s[j] : j \in 1 .. k} \cup {x}
      BY <2>3
    <3> QED BY <3>1
  <2>5. Distinct(s) => x \notin Before(k)
    BY <2>2, <2>3 DEF Distinct
  <2>6. w[k + 1] = IF IsLive(x) THEN Append(w[k], x) ELSE w[k]
    BY <1>4
  <2> HIDE DEF Before, x
  <2>7. CASE IsLive(x)
    <3> DEFINE t == w[k]
    <3>1. t \in Seq(S) /\ x \in S
      BY <2>1, <2>2
    <3> HIDE DEF t
    <3>2. /\ Append(t, x) \in Seq(S) /\ Elements(Append(t, x)) = Elements(t) \cup {x}
          /\ Distinct(t) /\ x \notin Elements(t) => Distinct(Append(t, x))
      BY <3>1, Extended
    <3>3. w[k + 1] = Append(t, x) /\ Elements(t) = Before(k) /\ (Distinct(s) => Distinct(t))
      BY <2>1, <2>6, <2>7 DEF t
    <3> QED BY <2>4, <2>5, <2>7, <3>2, <3>3
  <2>8. CASE ~ IsLive(x)
    BY <2>1, <2>4, <2>6, <2>8
  <2> QED BY <2>7, <2>8
<1> HIDE DEF G
<1>7. m \in G
  <2>1. Nat \subseteq G
    BY <1>5, <1>6, NatGood
  <2> QED BY <1>1, <2>1
<1>8. w[m] \in Seq(S) /\ Elements(w[m]) = Before(m) /\ (Distinct(s) => Distinct(w[m]))
  <2>1. m <= m
    BY <1>1
  <2> QED BY <1>7, <2>1 DEF G
<1>9. Before(m) = {id \in Elements(s) : IsLive(id)}
  BY <1>1 DEF Elements
<1>10. PruneDead(s) = w[m]
  BY PruneIsKept DEF w
<1> QED BY <1>8, <1>9, <1>10
-------------------------------------------------------------------------------
(* The simulator makes calls the engine's specification knows.              *)

simulation == <<vars, simVars>>

LEMMA SeedAway ==
  ASSUME seeded \in Nat, seeded < SeedOrders
  PROVE  seeded \div (2 * PerLevel) + 1 \in 1 .. SeedLevels
<1> DEFINE c == 2 * PerLevel
           q == seeded \div c
           r == seeded % c
<1>1. c \in Nat /\ c > 0 /\ SeedLevels \in Nat /\ SeedLevels > 0 /\ PerLevel \in Nat
  BY SimAssumption
<1>2. SeedOrders = c * SeedLevels
  BY <1>1 DEF SeedOrders
<1> HIDE DEF c
<1>3. seeded = c * q + r /\ r \in 0 .. c - 1 /\ q \in Int
  BY <1>1, ModSplit
<1> HIDE DEF q, r
<1>4. ~ q >= SeedLevels
  <2> SUFFICES ASSUME q >= SeedLevels PROVE FALSE
    OBVIOUS
  <2>1. c * q >= c * SeedLevels
    BY <1>1, <1>3
  <2>2. c * SeedLevels \in Int /\ c * q \in Int
    BY <1>1, <1>3
  <2> QED BY <1>1, <1>2, <1>3, <2>1, <2>2
<1>5. ~ q < 0
  <2> SUFFICES ASSUME q < 0 PROVE FALSE
    OBVIOUS
  <2>1. c * q <= c * (0 - 1)
    BY <1>1, <1>3
  <2>2. c * (0 - 1) = 0 - c /\ c * q \in Int
    BY <1>1, <1>3
  <2> QED BY <1>1, <1>3, <2>1, <2>2
<1> QED BY <1>1, <1>3, <1>4, <1>5 DEF q, c

(* Clients of the simulator's making send what the specification allows.    *)
LEMMA Sent ==
  /\ RefPrice \in Int /\ MinPrice \in Int /\ MaxPrice \in Int /\ SeedLevels \in Nat
  /\ TickSize = 1
  /\ MinPrice <= RefPrice - SeedLevels /\ RefPrice + SeedLevels <= MaxPrice
  /\ \A price \in Int : InLadder(price) => price \in Prices
  /\ OrderSize \in Quantities /\ MarketSize \in Quantities /\ StudySizes \subseteq Quantities
  /\ OrderSize # 0 /\ MarketSize # 0 /\ \A qty \in StudySizes : qty # 0
  /\ OrderSize \in Quantity /\ MarketSize \in Quantity /\ StudySizes \subseteq Quantity
  /\ Anonymous \in Participants /\ "GTC" \in Tifs
  /\ \A dist \in Distances : dist \in Nat /\ dist > 0
  /\ GhostsAllowed \in Nat /\ DrainEvery \in Nat /\ DrainEvery > 0
  /\ Events \in Nat /\ MaxRuns \in Nat /\ \A w \in Warmups : w \in Nat
<1>1. \A price \in Int : InLadder(price) => price \in MinPrice .. MaxPrice
  BY BandAssumption DEF InLadder
<1>2. Quantities \subseteq Quantity
  BY InputAssumption
<1> QED BY <1>1, <1>2, SimAssumption, BandAssumption

LEMMA SeedPrice ==
  ASSUME seeded \in Nat, seeded < SeedOrders, NEW side \in Side,
         NEW price, price = IF side = "Buy" THEN RefPrice - (seeded \div (2 * PerLevel) + 1)
                            ELSE RefPrice + (seeded \div (2 * PerLevel) + 1)
  PROVE  price \in Int /\ InLadder(price) /\ Below(side, price)
<1> DEFINE away == seeded \div (2 * PerLevel) + 1
<1>1. away \in 1 .. SeedLevels
  BY SeedAway
<1> HIDE DEF away
<1>2. price = IF side = "Buy" THEN RefPrice - away ELSE RefPrice + away
  BY DEF away
<1> QED BY <1>1, <1>2, Sent DEF InLadder, Below

LEMMA ReferenceType ==
  ASSUME TypeOK, NEW side \in Side
  PROVE  Reference(side) \in Int
<1>1. Opposite(side) \in Side
  BY DEF Opposite, Side
<1>2. \A d \in Side : HasBest(book, d) => ToPrice(book.best[d]) \in Int
  <2>1. \A d \in Side : HasBest(book, d) => book.best[d] \in Index
    BY DEF TypeOK, Book, HasBest
  <2>2. \A i \in Index : ToPrice(i) \in Int
    BY Sent, LadderSizeType DEF Index, ToPrice
  <2> QED BY <2>1, <2>2
<1> QED BY <1>1, <1>2, Sent DEF Reference

LEMMA SimStepCalls ==
  ASSUME Grounded, SimNext
  PROVE  [Next]_vars
<1>1. TypeOK /\ seeded \in Nat /\ live \in Seq(OrderId)
  BY DEF Grounded, SimTypeOK
<1>2. ASSUME NEW side \in Side, NEW price \in Prices,
             SubmitLimit(side, price, OrderSize, "GTC", Anonymous)
      PROVE  Next
  BY <1>2, Sent DEF Next, EngineStep
<1>3. ASSUME NEW side \in Side, NEW qty \in Quantities, SubmitMarket(side, qty, Anonymous)
      PROVE  Next
  BY <1>3, Sent DEF Next, EngineStep
<1>4. CASE SeedOrder
  <2> DEFINE side == IF seeded % 2 = 0 THEN "Buy" ELSE "Sell"
             away == seeded \div (2 * PerLevel) + 1
             price == IF side = "Buy" THEN RefPrice - away ELSE RefPrice + away
  <2>1. SubmitLimit(side, price, OrderSize, "GTC", Anonymous) /\ seeded < SeedOrders
    BY <1>4 DEF SeedOrder
  <2>2. side \in Side
    BY DEF Side
  <2> HIDE DEF side
  <2>3. price \in Int /\ InLadder(price)
    BY <1>1, <2>1, <2>2, SeedPrice
  <2> HIDE DEF price
  <2>4. price \in Prices
    BY <2>3, Sent
  <2> QED BY <1>2, <2>1, <2>2, <2>4
<1>5. CASE EngineGoesOn
  BY <1>5 DEF EngineGoesOn, Next, EngineStep
<1>6. ASSUME NEW side \in Side, NEW dist \in Distances, LimitOrder(side, dist)
      PROVE  [Next]_vars
  <2> DEFINE price == IF side = "Buy" THEN Reference(side) - dist ELSE Reference(side) + dist
  <2>1. price \in Int
    BY <1>1, ReferenceType, Sent
  <2>2. \/ InLadder(price) /\ SubmitLimit(side, price, OrderSize, "GTC", Anonymous)
        \/ UNCHANGED vars
    BY <1>6 DEF LimitOrder
  <2> HIDE DEF price
  <2> QED BY <1>2, <2>1, <2>2, Sent
<1>7. ASSUME NEW side \in Side, MarketOrder(side) PROVE Next
  BY <1>3, <1>7, Sent DEF MarketOrder
<1>8. CASE CancelEvent
  <2>1. CASE UNCHANGED vars
    BY <2>1
  <2>2. ASSUME NEW k \in DOMAIN live, CancelLive(live[k]) \/ CancelUnknown(live[k])
        PROVE  Next
    <3>1. live[k] \in OrderId
      BY <1>1, LenProperties, ElementOfSeq
    <3> QED BY <2>2, <3>1 DEF Next, EngineStep
  <2> QED BY <1>8, <2>1, <2>2 DEF CancelEvent
<1>9. ASSUME NEW qty \in StudySizes, StudyOrder(qty) PROVE Next
  <2>1. "Buy" \in Side
    BY DEF Side
  <2> QED BY <1>3, <1>9, <2>1, Sent DEF StudyOrder
<1>10. CASE EndEvent \/ EndRun
  BY <1>10 DEF EndEvent, EndRun, Drain, Next, EngineStep
<1>11. CASE SeedOrderDone \/ (\E w \in Warmups : StartRun(w)) \/ StudyOrderDone \/ Finished
  BY <1>11 DEF SeedOrderDone, StartRun, StudyOrderDone, Finished
<1> QED BY <1>4, <1>5, <1>6, <1>7, <1>8, <1>9, <1>10, <1>11 DEF SimNext

-------------------------------------------------------------------------------
(* Types and phases.                                                        *)

LEMMA GroundedFacts ==
  ASSUME Grounded
  PROVE  /\ TotalsInvariant /\ ClientInvariant /\ SlotInvariant /\ TypeOK
         /\ book \in Book /\ call \in Call /\ trades \in Seq(Trade) /\ collected \in Seq(Trade)
         /\ live \in Seq(OrderId) /\ seeded \in Nat /\ n \in Nat /\ warmup \in Nat
         /\ nLive \in Nat /\ reported \in Nat /\ undrained \in Nat /\ runs \in Nat
         /\ nextTradeSeq \in Nat /\ call.active \in BOOLEAN /\ call.market \in BOOLEAN
         /\ result.id \in OrderId
<1>1. TotalsInvariant /\ SimTypeOK
  BY DEF Grounded
<1>2. ClientInvariant /\ TypeOK /\ book \in Book /\ call \in Call /\ trades \in Seq(Trade)
      /\ nextTradeSeq \in Nat
  BY <1>1, CountsType
<1>3. SlotInvariant
  BY <1>2 DEF ClientInvariant, TouchInvariant
<1>4. call.active \in BOOLEAN /\ call.market \in BOOLEAN /\ result.id \in OrderId
  BY <1>2 DEF Call, TypeOK, Result
<1>5. warmup \in Nat
  BY <1>1, Sent DEF SimTypeOK
<1> QED BY <1>1, <1>2, <1>3, <1>4, <1>5, Sent DEF SimTypeOK

LEMMA LimitEntry ==
  ASSUME NEW side, NEW price, NEW qty, NEW tif, NEW participant,
         SubmitLimit(side, price, qty, tif, participant)
  PROVE  /\ ~ call.active
         /\ \/ call' = call
            \/ call'.active /\ ~ call'.market
         /\ trades' = trades /\ nextTradeSeq' = nextTradeSeq
BY DEF SubmitLimit, MayEnter, EnterLimit, Reject, Entered

LEMMA MarketEntry ==
  ASSUME NEW side, NEW qty, NEW participant, SubmitMarket(side, qty, participant)
  PROVE  /\ ~ call.active
         /\ \/ call' = call
            \/ call'.active /\ call'.market
         /\ trades' = trades /\ nextTradeSeq' = nextTradeSeq
BY DEF SubmitMarket, MayEnter, Reject, Entered

LEMMA CallGoesOn ==
  ASSUME call \in Call, MatchStep \/ ReturnStep
  PROVE  call.active /\ (call'.active => call'.market = call.market)
<1>1. CASE MatchStep
  BY <1>1 DEF MatchStep, StopTaker, PullMaker, Fill, Matching, Call
<1>2. CASE ReturnStep
  <2>1. call.active /\ call' = Idle
    BY <1>2 DEF ReturnStep, ReturnFilled, ReturnResting, ReturnKilled, Return, Matched
  <2>2. ~ Idle.active
    BY DEF Idle
  <2> QED BY <2>1, <2>2
<1> QED BY <1>1, <1>2

LEMMA PhaseSoundNext ==
  ASSUME Grounded, SimNext
  PROVE  PhaseSound'
<1>1. PhaseSound /\ call \in Call
  BY GroundedFacts DEF Grounded
<1>2. CASE SeedOrder
  <2>1. /\ phase = "seed" /\ phase' = phase /\ event' = "limit" /\ runs' = runs
        /\ \E side, price : SubmitLimit(side, price, OrderSize, "GTC", Anonymous)
    BY <1>2 DEF SeedOrder
  <2>2. ~ call.active /\ (call' = call \/ (call'.active /\ ~ call'.market))
    BY <2>1, LimitEntry
  <2> QED BY <1>1, <2>1, <2>2 DEF PhaseSound
<1>3. CASE SeedOrderDone
  BY <1>1, <1>3 DEF SeedOrderDone, PhaseSound, vars
<1>4. CASE EngineGoesOn
  <2>1. call.active /\ (call'.active => call'.market = call.market)
        /\ UNCHANGED simVars
    BY <1>1, <1>4, CallGoesOn DEF EngineGoesOn
  <2> QED BY <1>1, <2>1 DEF PhaseSound, simVars
<1>5. ASSUME NEW side \in Side, NEW dist \in Distances, LimitOrder(side, dist)
      PROVE  PhaseSound'
  <2>1. ~ call.active
    BY <1>1, <1>5 DEF LimitOrder, Begin, PhaseSound
  <2>2. CASE UNCHANGED vars /\ Begin("nothing")
    BY <1>1, <2>1, <2>2 DEF Begin, PhaseSound, vars
  <2>3. CASE /\ Begin("limit")
             /\ \E price : SubmitLimit(side, price, OrderSize, "GTC", Anonymous)
    <3>1. call' = call \/ (call'.active /\ ~ call'.market)
      BY <2>3, LimitEntry
    <3> QED BY <1>1, <2>1, <2>3, <3>1 DEF Begin, PhaseSound
  <2> QED BY <1>5, <2>2, <2>3 DEF LimitOrder
<1>6. ASSUME NEW side \in Side, MarketOrder(side) PROVE PhaseSound'
  <2>1. ~ call.active /\ (call' = call \/ (call'.active /\ call'.market))
    BY <1>6, MarketEntry DEF MarketOrder
  <2> QED BY <1>1, <1>6, <2>1 DEF MarketOrder, Begin, PhaseSound
<1>7. CASE CancelEvent
  <2>1. ~ call.active /\ Begin("cancel")
    BY <1>1, <1>7 DEF CancelEvent, Begin, PhaseSound
  <2>2. call' = call
    BY <1>7 DEF CancelEvent, CancelLive, CancelUnknown, vars
  <2> QED BY <1>1, <2>1, <2>2 DEF Begin, PhaseSound
<1>8. CASE EndEvent
  <2>1. call' = call
    BY <1>8 DEF EndEvent, Drain, ClearTrades, vars
  <2> QED BY <1>1, <1>8, <2>1 DEF EndEvent, PhaseSound
<1>9. ASSUME NEW w \in Warmups, StartRun(w) PROVE PhaseSound'
  BY <1>1, <1>9 DEF StartRun, PhaseSound, vars
<1>10. CASE EndRun
  <2>1. call' = call
    BY <1>10 DEF EndRun, Drain, ClearTrades
  <2> QED BY <1>1, <1>10, <2>1 DEF EndRun, PhaseSound
<1>11. ASSUME NEW qty \in StudySizes, StudyOrder(qty) PROVE PhaseSound'
  <2>1. ~ call.active /\ (call' = call \/ (call'.active /\ call'.market))
    BY <1>11, MarketEntry DEF StudyOrder
  <2> QED BY <1>1, <1>11, <2>1 DEF StudyOrder, PhaseSound
<1>12. CASE StudyOrderDone
  BY <1>1, <1>12 DEF StudyOrderDone, PhaseSound, vars
<1>13. CASE Finished
  BY <1>1, <1>13 DEF Finished, PhaseSound, vars, simVars
<1> QED
  BY <1>2, <1>3, <1>4, <1>5, <1>6, <1>7, <1>8, <1>9, <1>10, <1>11, <1>12, <1>13 DEF SimNext

(* An order that came to rest joins the end of the list.                    *)
LEMMA KeepingType ==
  ASSUME NEW s \in Seq(OrderId), NEW r, r.id \in OrderId
  PROVE  Keeping(s, r) \in Seq(OrderId)
BY AppendProperties DEF Keeping

LEMMA BeginTyped ==
  ASSUME SimTypeOK, NEW kind, kind \in {"limit", "market", "cancel", "nothing"},
         Begin(kind), TypeOK', live' \in Seq(OrderId)
  PROVE  SimTypeOK'
<1>1. Len(live) \in Nat
  BY LenProperties DEF SimTypeOK
<1> QED BY <1>1 DEF Begin, SimTypeOK, Phase

LEMMA SimTypeNext ==
  ASSUME Grounded, SimNext, TypeOK'
  PROVE  SimTypeOK'
<1>1. /\ SimTypeOK /\ PhaseSound /\ live \in Seq(OrderId) /\ result.id \in OrderId
      /\ trades \in Seq(Trade) /\ collected \in Seq(Trade)
  BY GroundedFacts DEF Grounded
<1>2. CASE SeedOrder
  <2>1. seeded \in Nat /\ SeedOrders \in Nat
    BY <1>1, SimAssumption DEF SimTypeOK, SeedOrders
  <2> QED BY <1>1, <1>2, <2>1 DEF SeedOrder, SimTypeOK
<1>3. CASE SeedOrderDone
  <2>1. live' \in Seq(OrderId)
    BY <1>1, <1>3, KeepingType DEF SeedOrderDone
  <2> QED BY <1>1, <1>3, <2>1 DEF SeedOrderDone, SimTypeOK, Phase
<1>4. CASE EngineGoesOn \/ Finished
  BY <1>1, <1>4 DEF EngineGoesOn, Finished, simVars, SimTypeOK
<1>5. ASSUME NEW side \in Side, NEW dist \in Distances, LimitOrder(side, dist)
      PROVE  SimTypeOK'
  <2>1. (Begin("limit") \/ Begin("nothing")) /\ live' = live
    BY <1>5 DEF LimitOrder
  <2> QED BY <1>1, <2>1, BeginTyped
<1>6. ASSUME NEW side \in Side, MarketOrder(side) PROVE SimTypeOK'
  BY <1>1, <1>6, BeginTyped DEF MarketOrder
<1>7. CASE CancelEvent
  <2>1. live' = live \/ \E k \in DOMAIN live : live' = SwapPop(live, k)
    BY <1>7 DEF CancelEvent
  <2>2. live' \in Seq(OrderId)
    BY <1>1, <2>1, SwappedOut
  <2> QED BY <1>1, <1>7, <2>2, BeginTyped DEF CancelEvent
<1>8. CASE EndEvent
  <2> DEFINE kept == IF event = "limit" THEN Keeping(live, result) ELSE live
  <2>1. kept \in Seq(OrderId)
    BY <1>1, KeepingType
  <2>2. live' = kept \/ live' = PruneDead(kept)
    BY <1>8 DEF EndEvent
  <2> HIDE DEF kept
  <2>3. live' \in Seq(OrderId)
    BY <2>1, <2>2, PrunedList
  <2>4. collected' \in Seq(Trade) /\ undrained' \in Nat
    <3>1. CASE Drain
      BY <1>1, <3>1, ConcatProperties DEF Drain
    <3>2. CASE undrained' = undrained + 1 /\ collected' = collected
      BY <1>1, <3>2 DEF SimTypeOK
    <3> QED BY <1>8, <3>1, <3>2 DEF EndEvent
  <2>5. n' \in 0 .. Events
    BY <1>1, <1>8, Sent DEF EndEvent, PhaseSound, SimTypeOK
  <2> QED BY <1>1, <1>8, <2>3, <2>4, <2>5 DEF EndEvent, SimTypeOK, Phase
<1>9. ASSUME NEW w \in Warmups, StartRun(w) PROVE SimTypeOK'
  <2>1. Len(collected) \in Nat /\ << >> \in Seq(Trade)
    BY <1>1, LenProperties, EmptySeq
  <2>2. runs' \in 0 .. MaxRuns /\ 0 \in 0 .. Events
    BY <1>1, <1>9, Sent DEF StartRun, SimTypeOK
  <2> QED BY <1>1, <1>9, <2>1, <2>2 DEF StartRun, SimTypeOK, Phase
<1>10. CASE EndRun
  <2>1. collected' \in Seq(Trade) /\ undrained' \in Nat
    BY <1>1, <1>10, ConcatProperties DEF EndRun, Drain
  <2> QED BY <1>1, <1>10, <2>1 DEF EndRun, SimTypeOK, Phase
<1>11. ASSUME NEW qty \in StudySizes, StudyOrder(qty) PROVE SimTypeOK'
  BY <1>1, <1>11 DEF StudyOrder, SimTypeOK, Phase
<1>12. CASE StudyOrderDone
  BY <1>1, <1>12 DEF StudyOrderDone, SimTypeOK, Phase
<1> QED
  BY <1>2, <1>3, <1>4, <1>5, <1>6, <1>7, <1>8, <1>9, <1>10, <1>11, <1>12 DEF SimNext

LEMMA GroundedInit == SimInit => Grounded
<1> SUFFICES ASSUME SimInit PROVE Grounded
  OBVIOUS
<1>1. TotalsInvariant
  BY TotalsInvariantInit DEF SimInit
<1>2. SimTypeOK
  <2>1. TypeOK
    BY <1>1, CountsType
  <2>2. << >> \in Seq(OrderId) /\ << >> \in Seq(Trade)
    BY EmptySeq
  <2>3. SeedOrders \in Nat
    BY SimAssumption DEF SeedOrders
  <2> QED BY <2>1, <2>2, <2>3, Sent DEF SimInit, SimTypeOK, Phase
<1>3. PhaseSound
  BY DEF SimInit, Init, Idle, PhaseSound
<1> QED BY <1>1, <1>2, <1>3 DEF Grounded

LEMMA GroundedNext == Grounded /\ [SimNext]_simulation => Grounded' /\ [Next]_vars
<1> SUFFICES ASSUME Grounded, [SimNext]_simulation PROVE Grounded' /\ [Next]_vars
  OBVIOUS
<1>1. CASE SimNext
  <2>1. [Next]_vars
    BY <1>1, SimStepCalls
  <2>2. TotalsInvariant'
    BY <2>1, TotalsInvariantNext DEF Grounded
  <2>3. TypeOK'
    BY <2>2 DEF TotalsInvariant, ClientInvariant, TouchInvariant, SlotInvariant
  <2> QED BY <1>1, <2>1, <2>2, <2>3, SimTypeNext, PhaseSoundNext DEF Grounded
<1>2. CASE UNCHANGED simulation
  <2>1. UNCHANGED vars
    BY <1>2 DEF simulation
  <2>2. TotalsInvariant'
    BY <2>1, TotalsInvariantNext DEF Grounded
  <2>3. TypeOK'
    BY <2>2 DEF TotalsInvariant, ClientInvariant, TouchInvariant, SlotInvariant
  <2>4. SimTypeOK' /\ PhaseSound'
    BY <1>2, <2>3 DEF Grounded, SimTypeOK, PhaseSound, simulation, simVars, vars
  <2> QED BY <2>1, <2>2, <2>4 DEF Grounded
<1> QED BY <1>1, <1>2

LEMMA SimGrounded == SimSpec => [](Grounded)
<1>1. SimInit => Grounded
  BY GroundedInit
<1>2. Grounded /\ [SimNext]_simulation => Grounded'
  BY GroundedNext
<1> QED BY <1>1, <1>2, PTL DEF SimSpec, simulation

(* What the simulator and the impact study do to the engine, a client of    *)
(* the engine may do: all that is proved of the engine's Spec holds here.   *)
THEOREM SimulatorDrivesEngine == SimSpec => Spec
<1>1. SimInit => Init
  BY DEF SimInit
<1>2. Grounded /\ [SimNext]_simulation => [Next]_vars
  BY GroundedNext
<1> QED BY <1>1, <1>2, SimGrounded, PTL DEF SimSpec, Spec, simulation

(* Every variable of the simulator keeps its type, for any number of runs.  *)
THEOREM SimTypeCorrect == SimSpec => []SimTypeOK
<1>1. Grounded => SimTypeOK
  BY DEF Grounded
<1> QED BY <1>1, SimGrounded, PTL

-------------------------------------------------------------------------------
(* Limit orders never trade.                                                *)

LEMMA TickIsOne ==
  ASSUME NEW price \in Int
  PROVE  (price - MinPrice) % TickSize = 0 /\ ToPrice(ToIndex(price)) = price
<1> DEFINE x == price - MinPrice
           q == x \div 1
           r == x % 1
<1>1. x \in Int /\ MinPrice \in Int /\ TickSize = 1
  BY Sent
<1> HIDE DEF x
<1>2. x = 1 * q + r /\ r \in 0 .. 1 - 1 /\ q \in Int
  BY <1>1, ModSplit
<1> HIDE DEF q, r
<1>3. r = 0 /\ x = q
  BY <1>2
<1>4. MinPrice + q * 1 = price
  BY <1>1, <1>3 DEF x
<1> QED BY <1>1, <1>3, <1>4 DEF ToPrice, ToIndex, q, r, x

(* The engine admits what the simulator sends, and nothing else happens.    *)
LEMMA LimitAdmitted ==
  ASSUME Grounded, NEW side \in Side, NEW price \in Int, InLadder(price),
         SubmitLimit(side, price, OrderSize, "GTC", Anonymous)
  PROVE  /\ ~ call.active /\ MayEnter
         /\ CanAlloc(book) /\ book' = AllocSlot(book)
         /\ call' = Entered(book, FALSE, side, price, OrderSize, "GTC", Anonymous)
         /\ UNCHANGED <<stp, nextSeq, nextTradeSeq, trades, lastTrade, stats, result>>
         /\ book'.best = book.best /\ book'.open = book.open
         /\ call'.active /\ ~ call'.market /\ call'.side = side /\ call'.price = price
         /\ call'.remaining > 0 /\ call'.tif = "GTC" /\ ~ call'.stpCancelled
<1>1. LimitReject(book, side, price, OrderSize, "GTC") = "None"
  BY TickIsOne, Sent DEF LimitReject, InLadder
<1>2. /\ CanAlloc(book) /\ book' = AllocSlot(book)
      /\ call' = Entered(book, FALSE, side, price, OrderSize, "GTC", Anonymous)
      /\ UNCHANGED <<stp, nextSeq, nextTradeSeq, trades, lastTrade, stats, result>>
      /\ ~ call.active /\ MayEnter
  BY <1>1 DEF SubmitLimit, EnterLimit, MayEnter
<1>3. book'.best = book.best /\ book'.open = book.open
  BY <1>2, GroundedFacts DEF AllocSlot, Book
<1>4. OrderSize > 0
  BY Sent, WidthAssumption DEF Quantity
<1>5. /\ call'.active /\ ~ call'.market /\ call'.side = side /\ call'.price = price
      /\ call'.remaining = OrderSize /\ call'.tif = "GTC" /\ ~ call'.stpCancelled
  BY <1>2 DEF Entered
<1> QED BY <1>2, <1>3, <1>4, <1>5

Meets(side, price) ==
  /\ HasBest(book, Opposite(side))
  /\ WithinLimit(side, ToPrice(book.best[Opposite(side)]), price)

LEMMA BestPrices ==
  ASSUME book \in Book, NEW side \in Side
  PROVE  /\ Opposite(side) \in Side
         /\ HasBest(book, side) => book.best[side] \in Index /\ ToPrice(book.best[side]) \in Int
<1>1. HasBest(book, side) => book.best[side] \in Index
  BY DEF Book, HasBest
<1>2. \A i \in Index : ToPrice(i) \in Int
  BY Sent, LadderSizeType DEF Index, ToPrice
<1> QED BY <1>1, <1>2 DEF Opposite, Side

(* A quote is at least one tick away from the other side of the market.     *)
LEMMA QuoteApart ==
  ASSUME Grounded, NEW side \in Side, NEW dist \in Distances,
         NEW price, price = IF side = "Buy" THEN Reference(side) - dist
                            ELSE Reference(side) + dist
  PROVE  price \in Int /\ ~ Meets(side, price)
<1> DEFINE best == ToPrice(book.best[Opposite(side)])
<1>1. dist \in Nat /\ dist > 0 /\ Reference(side) \in Int /\ book \in Book
  BY Sent, GroundedFacts, ReferenceType
<1>2. HasBest(book, Opposite(side)) => Reference(side) = best /\ best \in Int
  BY <1>1, BestPrices DEF Reference
<1> HIDE DEF best
<1>3. price \in Int
  BY <1>1
<1>4. HasBest(book, Opposite(side)) => ~ WithinLimit(side, best, price)
  BY <1>1, <1>2 DEF WithinLimit
<1> QED BY <1>3, <1>4 DEF Meets, best

(* Seeding, the other side of the market is beyond the reference price.     *)
LEMMA SeedApartMeets ==
  ASSUME Grounded, SeedApart, phase = "seed", NEW side \in Side, NEW price \in Int,
         Below(side, price)
  PROVE  ~ Meets(side, price)
<1> DEFINE best == ToPrice(book.best[Opposite(side)])
<1>1. HasBest(book, Opposite(side)) => Below(Opposite(side), best) /\ best \in Int
  BY BestPrices, GroundedFacts DEF SeedApart
<1> HIDE DEF best
<1>2. Below(Opposite(side), best) /\ best \in Int => ~ WithinLimit(side, best, price)
  BY Sent DEF Below, Opposite, WithinLimit, Side
<1> QED BY <1>1, <1>2 DEF Meets, best

(* A limit order that enters where it meets nobody can only rest.           *)
LEMMA EntersToRest ==
  ASSUME Grounded, NEW side \in Side, NEW price \in Int, InLadder(price),
         SubmitLimit(side, price, OrderSize, "GTC", Anonymous), ~ Meets(side, price)
  PROVE  OnlyRests' /\ result' = result /\ book'.best = book.best
         /\ call'.side = side /\ call'.price = price
<1>1. /\ book'.best = book.best /\ result' = result
      /\ call'.active /\ ~ call'.market /\ call'.side = side /\ call'.price = price
      /\ call'.remaining > 0 /\ call'.tif = "GTC" /\ ~ call'.stpCancelled
  BY LimitAdmitted
<1>2. ~ Crosses'
  BY <1>1 DEF Meets, Crosses, MakerSide, BestIndex, HasBest
<1> QED BY <1>1, <1>2 DEF OnlyRests

LEMMA LimitOnlyRests ==
  ASSUME OnlyRests, call.active, ~ call.market, MatchStep \/ ReturnStep
  PROVE  ReturnResting
<1>1. ~ Crosses /\ call.remaining > 0 /\ call.tif = "GTC" /\ ~ call.stpCancelled
  BY DEF OnlyRests
<1>2. ~ MatchStep
  BY <1>1 DEF MatchStep, StopTaker, PullMaker, Fill, Matching
<1>3. ~ ReturnFilled
  <2> SUFFICES ASSUME call.remaining = 0 PROVE FALSE
    BY DEF ReturnFilled
  <2> QED BY <1>1
<1>4. ~ ReturnKilled
  BY <1>1 DEF ReturnKilled, Rests
<1> QED BY <1>2, <1>3, <1>4 DEF ReturnStep

LEMMA RestedBest ==
  ASSUME Grounded, ReturnResting, NEW side \in Side, HasBest(book', side)
  PROVE  \/ HasBest(book, side) /\ book'.best[side] = book.best[side]
         \/ side = call.side /\ call.price \in Int /\ ToPrice(book'.best[side]) = call.price
<1> DEFINE o == [DefaultOrder EXCEPT
                   !.id = call.id, !.price = call.price, !.qty = call.qty,
                   !.remaining = call.remaining, !.seq = nextSeq,
                   !.participant = call.participant, !.side = call.side]
<1>1. /\ book' = RestOrder(book, call.slot, o) /\ o.price = call.price
      /\ o.side = call.side /\ book \in Book /\ call.price \in Int /\ call.side \in Side
  BY GroundedFacts, RestFacts DEF Call
<1> HIDE DEF o
<1>2. /\ side # o.side => book'.best[side] = book.best[side]
      /\ side = o.side => book'.best[side] \in {book.best[side], ToIndex(o.price)}
  <2>1. book.best \in [Side -> Index \cup {NPos}]
    BY <1>1 DEF Book
  <2>2. PICK i \in {book.best[o.side], ToIndex(o.price)} :
          book'.best = [book.best EXCEPT ![o.side] = i]
    BY <1>1 DEF RestOrder, Book
  <2> QED BY <1>1, <2>1, <2>2
<1>3. ToPrice(ToIndex(call.price)) = call.price
  BY <1>1, TickIsOne
<1> QED BY <1>1, <1>2, <1>3 DEF HasBest

LEMMA ReturnReports ==
  ASSUME ReturnStep
  PROVE  result'.reject = "None" /\ ~ call'.active
<1>1. \E status, resting : result' = Outcome(status, resting)
  BY DEF ReturnStep, ReturnFilled, ReturnResting, ReturnKilled, Return
<1>2. call' = Idle
  BY DEF ReturnStep, ReturnFilled, ReturnResting, ReturnKilled, Return
<1>3. ~ Idle.active
  BY DEF Idle
<1> QED BY <1>1, <1>2, <1>3 DEF Outcome

LEMMA MarketReports ==
  ASSUME NEW side, NEW qty, qty # 0, SubmitMarket(side, qty, Anonymous)
  PROVE  /\ ~ call.active
         /\ \/ /\ result'.reject = "EmptyBook" /\ call' = call /\ book' = book
            \/ /\ result' = result /\ call'.active /\ call'.market
<1>1. CASE \E reason : /\ reason = "EmptyBook" /\ book' = book
                       /\ Reject(reason, qty) /\ ~ call.active
  BY <1>1 DEF Reject, DefaultResult
<1>2. CASE call' = Entered(book, TRUE, side, 0, qty, "IOC", Anonymous)
           /\ result' = result /\ ~ call.active
  BY <1>2 DEF Entered
<1> QED BY <1>1, <1>2 DEF SubmitMarket, MayEnter

LEMMA PassiveNext ==
  ASSUME Grounded, Passive, SimNext, PhaseSound'
  PROVE  Passive'
<1>1. /\ SeedApart /\ OnlyRests /\ result.reject \in {"None", "EmptyBook"}
      /\ book \in Book /\ PhaseSound /\ seeded \in Nat /\ call.market \in BOOLEAN
  BY GroundedFacts DEF Passive, Grounded
<1>2. ASSUME ~ call'.active, result' = result, phase' # "seed" PROVE Passive'
  BY <1>1, <1>2 DEF Passive, SeedApart, OnlyRests
<1>3. CASE SeedOrder
  <2> DEFINE side == IF seeded % 2 = 0 THEN "Buy" ELSE "Sell"
             away == seeded \div (2 * PerLevel) + 1
             price == IF side = "Buy" THEN RefPrice - away ELSE RefPrice + away
  <2>1. SubmitLimit(side, price, OrderSize, "GTC", Anonymous) /\ seeded < SeedOrders
        /\ phase = "seed"
    BY <1>3 DEF SeedOrder
  <2>2. side \in Side
    BY DEF Side
  <2> HIDE DEF side
  <2>3. price \in Int /\ InLadder(price) /\ Below(side, price)
    BY <1>1, <2>1, <2>2, SeedPrice
  <2> HIDE DEF price
  <2>4. ~ Meets(side, price)
    BY <1>1, <2>1, <2>2, <2>3, SeedApartMeets
  <2>5. OnlyRests' /\ result' = result /\ book'.best = book.best
        /\ call'.side = side /\ call'.price = price
    BY <2>1, <2>2, <2>3, <2>4, EntersToRest
  <2>6. SeedApart'
    BY <1>1, <2>1, <2>3, <2>5 DEF SeedApart, HasBest
  <2> QED BY <1>1, <2>5, <2>6 DEF Passive
<1>4. CASE SeedOrderDone
  BY <1>1, <1>4 DEF SeedOrderDone, vars, Passive, SeedApart, OnlyRests, Crosses, MakerSide,
                    BestIndex
<1>5. CASE EngineGoesOn
  <2>1. call.active /\ (call'.active => call'.market = call.market) /\ UNCHANGED simVars
        /\ (MatchStep \/ ReturnStep)
    BY <1>5, CallGoesOn, GroundedFacts DEF EngineGoesOn
  <2>2. result'.reject \in {"None", "EmptyBook"}
    <3>1. CASE MatchStep
      BY <1>1, <3>1 DEF MatchStep, StopTaker, PullMaker, Fill
    <3>2. CASE ReturnStep
      BY <3>2, ReturnReports
    <3> QED BY <2>1, <3>1, <3>2
  <2>3. CASE call.market
    <3>1. phase' # "seed"
      BY <1>1, <2>1, <2>3 DEF PhaseSound, simVars
    <3> QED BY <2>1, <2>2, <2>3, <3>1 DEF Passive, SeedApart, OnlyRests
  <2>4. CASE ~ call.market
    <3>1. ReturnResting
      BY <1>1, <2>1, <2>4, LimitOnlyRests
    <3>2. ~ call'.active
      BY <3>1, ReturnReports DEF ReturnStep
    <3>3. ASSUME phase = "seed", NEW side \in Side, HasBest(book', side)
          PROVE  Below(side, ToPrice(book'.best[side]))
      <4>1. \/ HasBest(book, side) /\ book'.best[side] = book.best[side]
            \/ side = call.side /\ ToPrice(book'.best[side]) = call.price
        BY <3>1, <3>3, RestedBest
      <4> QED BY <1>1, <2>1, <3>3, <4>1 DEF SeedApart
    <3>4. phase' = phase
      BY <2>1 DEF simVars
    <3> QED BY <2>2, <3>2, <3>3, <3>4 DEF Passive, SeedApart, OnlyRests
  <2> QED BY <1>1, <2>3, <2>4
<1>6. ASSUME NEW side \in Side, NEW dist \in Distances, LimitOrder(side, dist)
      PROVE  Passive'
  <2> DEFINE price == IF side = "Buy" THEN Reference(side) - dist ELSE Reference(side) + dist
  <2>1. price \in Int /\ ~ Meets(side, price)
    BY QuoteApart
  <2>2. \/ /\ InLadder(price) /\ SubmitLimit(side, price, OrderSize, "GTC", Anonymous)
           /\ phase' = "event"
        \/ /\ UNCHANGED vars /\ phase' = "event" /\ phase = "head" /\ event' = "nothing"
    BY <1>6 DEF LimitOrder, Begin
  <2> HIDE DEF price
  <2>3. CASE /\ InLadder(price) /\ SubmitLimit(side, price, OrderSize, "GTC", Anonymous)
             /\ phase' = "event"
    <3>1. OnlyRests' /\ result' = result
      BY <2>1, <2>3, EntersToRest
    <3> QED BY <1>1, <2>3, <3>1 DEF Passive, SeedApart
  <2>4. CASE /\ UNCHANGED vars /\ phase' = "event" /\ phase = "head" /\ event' = "nothing"
    <3>1. ~ call'.active
      BY <1>1, <2>4 DEF PhaseSound, vars
    <3> QED BY <1>2, <2>4, <3>1 DEF vars
  <2> QED BY <2>2, <2>3, <2>4
<1>7. ASSUME NEW side, NEW qty, qty # 0, SubmitMarket(side, qty, Anonymous), phase' # "seed"
      PROVE  Passive'
  BY <1>1, <1>7, MarketReports DEF Passive, SeedApart, OnlyRests
<1>8. ASSUME NEW side \in Side, MarketOrder(side) PROVE Passive'
  BY <1>7, <1>8, Sent DEF MarketOrder, Begin
<1>9. ASSUME NEW qty \in StudySizes, StudyOrder(qty) PROVE Passive'
  BY <1>7, <1>9, Sent DEF StudyOrder
<1>10. CASE CancelEvent
  <2>1. call' = call /\ result' = result
    BY <1>10 DEF CancelEvent, CancelLive, CancelUnknown, vars
  <2>2. ~ call.active /\ phase' # "seed"
    BY <1>1, <1>10 DEF CancelEvent, Begin, PhaseSound
  <2> QED BY <1>2, <2>1, <2>2
<1>11. CASE EndEvent
  <2>1. call' = call /\ result' = result /\ ~ call.active /\ phase' # "seed"
    BY <1>11 DEF EndEvent, Drain, ClearTrades, vars
  <2> QED BY <1>2, <2>1
<1>12. CASE EndRun
  <2>1. call' = call /\ result' = result /\ ~ call.active /\ phase' # "seed"
    BY <1>12 DEF EndRun, Drain, ClearTrades
  <2> QED BY <1>2, <2>1
<1>13. ASSUME NEW w \in Warmups, StartRun(w) PROVE Passive'
  <2>1. call' = call /\ result' = result /\ ~ call.active /\ phase' # "seed"
    BY <1>1, <1>13 DEF StartRun, PhaseSound, vars
  <2> QED BY <1>2, <2>1
<1>14. CASE StudyOrderDone
  <2>1. call' = call /\ result' = result /\ ~ call.active /\ phase' # "seed"
    BY <1>14 DEF StudyOrderDone, vars
  <2> QED BY <1>2, <2>1
<1>15. CASE Finished
  <2>1. call' = call /\ result' = result /\ ~ call.active /\ phase' # "seed"
    BY <1>1, <1>15 DEF Finished, PhaseSound, vars, simVars
  <2> QED BY <1>2, <2>1
<1> QED
  BY <1>3, <1>4, <1>5, <1>6, <1>8, <1>9, <1>10, <1>11, <1>12, <1>13, <1>14, <1>15 DEF SimNext

LEMMA PassiveInit == SimInit => Passive
<1>1. Init => /\ \A side \in Side : ~ HasBest(book, side)
              /\ ~ call.active /\ result.reject = "None"
  BY DEF Init, FreshBook, HasBest, Idle, DefaultResult
<1> QED BY <1>1 DEF SimInit, Passive, SeedApart, OnlyRests

LEMMA SimPassive == SimSpec => [](Grounded /\ Passive)
<1>1. SimInit => Grounded /\ Passive
  BY GroundedInit, PassiveInit
<1>2. Grounded /\ Passive /\ [SimNext]_simulation => Grounded' /\ Passive'
  <2>1. CASE SimNext
    <3>1. [SimNext]_simulation
      BY <2>1
    <3>2. Grounded => Grounded'
      BY <3>1, GroundedNext
    <3>3. Grounded' => PhaseSound'
      BY DEF Grounded
    <3> QED BY <2>1, <3>2, <3>3, PassiveNext
  <2>2. CASE UNCHANGED simulation
    <3>1. [SimNext]_simulation
      BY <2>2
    <3>2. Grounded => Grounded'
      BY <3>1, GroundedNext
    <3>3. Passive => Passive'
      BY <2>2 DEF simulation, simVars, vars, Passive, SeedApart, OnlyRests, Crosses,
                  MakerSide, BestIndex
    <3> QED BY <3>2, <3>3
  <2> QED BY <2>1, <2>2
<1> QED BY <1>1, <1>2, PTL DEF SimSpec, simulation

(* The quotes of the simulator keep away from each other: whatever market   *)
(* orders, cancels and studies do to the book, a limit order never meets    *)
(* the other side, and of all orders sent the engine turns down only market *)
(* orders that find nobody to trade with.                                   *)
THEOREM QuotesCorrect == SimSpec => []QuotesArePassive
<1>1. Passive => QuotesArePassive
  BY DEF Passive, OnlyRests, QuotesArePassive
<1> QED BY <1>1, SimPassive, PTL

-------------------------------------------------------------------------------
(* The list of cancellable ids.                                             *)

LEMMA LiveIsResting ==
  ASSUME Grounded, NEW id \in OrderId
  PROVE  /\ IsLive(id) <=> id \in RestingIds(book)
         /\ IsLive(id) => id.slot \in RestingSlots(book) /\ book.pool[id.slot].id = id
<1>1. SlotInvariant /\ ClientInvariant /\ book \in Book
  BY GroundedFacts
<1>2. ASSUME IsLive(id)
      PROVE  id.slot \in RestingSlots(book) /\ book.pool[id.slot].id = id
  <2>1. id.slot \in RestingSlots(book)
    BY <1>1, <1>2, ResolvedRests DEF IsLive
  <2>2. book.pool[id.slot].id = id
    BY <1>2 DEF IsLive, Resolve
  <2> QED BY <2>1, <2>2
<1>3. ASSUME id \in RestingIds(book) PROVE IsLive(id)
  <2>1. PICK s \in RestingSlots(book) : id = book.pool[s].id
    BY <1>3 DEF RestingIds
  <2>2. book.pool[s].id = IdFor(book, s) /\ IdFor(book, s).slot = s
    BY <1>1, <2>1, IdsNameSlots DEF ClientInvariant
  <2>3. s \in 0 .. book.size - 1 /\ s \in Slot /\ book.pool[s].active
    BY <1>1, <2>1 DEF SlotInvariant, Sound, Partitioned, RestingSlots
  <2>4. s < book.size /\ s # NoSlot
    BY <1>1, <2>3 DEF Book, NoSlot
  <2> QED BY <2>1, <2>2, <2>3, <2>4 DEF IsLive, Resolve
<1> QED BY <1>2, <1>3 DEF RestingIds

(* Steps that change at most the list.                                      *)
LEMMA Relisted ==
  ASSUME Handles, book' = book, call'.active = call.active, call'.id = call.id,
         stats'.accepted = stats.accepted, Distinct(live'),
         RestingIds(book) \subseteq Listed' \cup AboutToBeListed',
         Listed' \cup AboutToBeListed' \subseteq Listed \cup AboutToBeListed,
         AboutToBeListed' \cap Listed' = {}, call.active => Listed' \subseteq Listed
  PROVE  Handles'
<1>1. Issuances' = Issuances
  BY DEF Issuances
<1> QED BY <1>1 DEF Handles, Distinct

LEMMA StillListed ==
  ASSUME Handles, book' = book, call'.active = call.active, call'.id = call.id,
         stats'.accepted = stats.accepted, live' = live,
         AboutToBeListed = {}, AboutToBeListed' = {}
  PROVE  Handles'
<1>1. Listed' = Listed /\ Distinct(live')
  BY DEF Listed, Handles, Distinct
<1>2. RestingIds(book) \subseteq Listed
  BY DEF Handles
<1> QED BY <1>1, <1>2, Relisted

LEMMA EntryListed ==
  ASSUME MaxOrders < GenMod, Grounded, Handles, Enters({}), live' = live,
         AboutToBeListed = {}
  PROVE  Handles'
<1>1. /\ Issued(book', call'.id)
      /\ \A id : Issued(book, id) => Issued(book', id) /\ id # call'.id
      /\ \A s \in Slot : book'.gen[s] <= Issuances'
  BY GroundedFacts, EntryIsNew DEF Handles
<1>2. call'.active /\ call'.id \notin RestingIds(book') /\ SeenIn(book') = SeenIn(book) \ {}
  BY DEF Enters
<1>3. RestingIds(book') = RestingIds(book)
  <2>1. SeenIn(book') = SeenIn(book)
    BY <1>2
  <2> QED BY <2>1, RestingIdsSeen
<1>4. AboutToBeListed' = {} /\ Listed' = Listed
  BY <1>2 DEF AboutToBeListed, Listed
<1> QED BY <1>1, <1>2, <1>3, <1>4 DEF Handles

LEMMA MarketListed ==
  ASSUME MaxOrders < GenMod, Grounded, Handles, live' = live, AboutToBeListed = {},
         event' # "limit", NEW side \in Side, NEW qty \in Quantities,
         SubmitMarket(side, qty, Anonymous)
  PROVE  Handles'
<1>1. Enters({}) \/ Bounces
  BY GroundedFacts, SubmitEnters, Sent
<1>2. CASE Enters({})
  BY <1>2, EntryListed
<1>3. CASE Bounces
  <2>1. AboutToBeListed' = {}
    BY DEF AboutToBeListed
  <2> QED BY <1>3, <2>1, StillListed DEF Bounces
<1> QED BY <1>1, <1>2, <1>3

LEMMA EngineListed ==
  ASSUME Grounded, Passive, Handles, EngineGoesOn
  PROVE  Handles'
<1>1. /\ call.active /\ (MatchStep \/ ReturnStep) /\ TotalsInvariant /\ PhaseSound
      /\ live' = live /\ event' = event /\ call.market \in BOOLEAN /\ OnlyRests
  BY GroundedFacts, CallGoesOn DEF EngineGoesOn, simVars, Grounded, Passive
<1>2. AboutToBeListed = {} /\ Listed' = Listed
  BY <1>1 DEF AboutToBeListed, Listed
<1>3. /\ Issued(book, call.id) /\ call.id \notin Listed /\ call.id \notin RestingIds(book)
      /\ RestingIds(book) \subseteq Listed /\ \A id \in Listed : Issued(book, id)
      /\ \A j, k \in DOMAIN live : live[j] = live[k] => j = k
      /\ \A s \in Slot : book.gen[s] <= Issuances
  BY <1>1, <1>2 DEF Handles
<1>4. ASSUME Continues, AboutToBeListed' \subseteq {call.id},
             RestingIds(book') \subseteq RestingIds(book) \cup AboutToBeListed'
      PROVE  Handles'
  <2>1. \A id : Issued(book', id) <=> Issued(book, id)
    BY <1>4 DEF Issued, Continues
  <2>2. ASSUME NEW s \in Slot PROVE book'.gen[s] <= Issuances'
    <3>1. /\ book.gen[s] <= Issuances /\ Issuances <= Issuances'
          /\ book'.gen[s] = book.gen[s] /\ Issuances' \in Nat
      BY <1>3, <1>4 DEF Continues
    <3>2. book.gen[s] \in Nat /\ Issuances \in Nat
      <4>1. book.gen[s] \in Generation /\ stats.accepted \in Nat
        BY <1>1, CountsType DEF Book
      <4> QED BY <4>1, <1>1, WidthAssumption DEF Generation, Issuances
    <3> QED BY <3>1, <3>2
  <2>3. call'.active => call'.id = call.id /\ call'.id \notin RestingIds(book')
    BY <1>3, <1>4 DEF Continues
  <2> QED BY <1>1, <1>2, <1>3, <1>4, <2>1, <2>2, <2>3 DEF Handles
<1>5. CASE ~ call.market
  <2>1. ReturnResting
    BY <1>1, <1>5, LimitOnlyRests
  <2>2. Continues
    BY <1>1, <2>1, RestContinues
  <2>3. /\ result'.id = call.id /\ result'.resting /\ ~ call'.active
    <3>1. PICK status : result' = Outcome(status, TRUE)
      BY <2>1 DEF ReturnResting, Return
    <3>2. ~ call'.active
      BY <2>1, ReturnReports DEF ReturnStep
    <3> QED BY <3>1, <3>2 DEF Outcome
  <2>4. AboutToBeListed' = {call.id}
    BY <1>1, <1>5, <2>3 DEF AboutToBeListed, PhaseSound
  <2>5. RestingIds(book') \subseteq RestingIds(book) \cup {call.id}
    BY <1>1, <2>2 DEF Continues, LiveIds
  <2> QED BY <1>4, <2>2, <2>4, <2>5
<1>6. CASE call.market
  <2>1. AboutToBeListed' = {}
    BY <1>1, <1>6 DEF AboutToBeListed, PhaseSound
  <2>2. CASE StopTaker
    <3>1. Continues
      BY <1>1, <2>2, StillContinues, GroundedFacts DEF StopTaker, Call
    <3>2. book' = book
      BY <2>2 DEF StopTaker
    <3> QED BY <1>4, <2>1, <3>1, <3>2
  <2>3. CASE PullMaker
    <3>1. MakerSlot \in RestingSlots(book)
      BY <2>3, MakerRests, GroundedFacts DEF PullMaker, SlotInvariant, Sound
    <3>2. Continues
      BY <1>1, <2>3, <3>1, RemovalContinues DEF PullMaker
    <3>3. RestingIds(book') \subseteq RestingIds(book)
      BY <2>3, <3>1, RemovedIds, GroundedFacts DEF PullMaker
    <3> QED BY <1>4, <2>1, <3>2, <3>3
  <2>4. CASE Fill
    <3>1. Continues
      BY <1>1, <2>4, FillContinues
    <3>2. call'.active
      BY <1>1, <2>4, GroundedFacts DEF Fill, Call
    <3> QED BY <1>4, <2>1, <3>1, <3>2 DEF Continues
  <2>5. CASE ReturnFilled \/ ReturnKilled
    <3>1. Continues
      BY <1>1, <2>5, ReturnContinues
    <3>2. SeenIn(book') = SeenIn(book)
      BY <1>1, <2>5, ReturnLeavesIds
    <3>3. RestingIds(book') = RestingIds(book)
      BY <3>2, RestingIdsSeen
    <3> QED BY <1>4, <2>1, <3>1, <3>3
  <2>6. ~ ReturnResting
    BY <1>6 DEF ReturnResting, Rests
  <2> QED BY <1>1, <2>2, <2>3, <2>4, <2>5, <2>6 DEF MatchStep, ReturnStep
<1> QED BY <1>1, <1>5, <1>6

LEMMA CancelListed ==
  ASSUME Grounded, Handles, CancelEvent
  PROVE  Handles'
<1>1. /\ ~ call.active /\ live \in Seq(OrderId) /\ TotalsInvariant /\ AboutToBeListed = {}
      /\ event' = "cancel"
  BY GroundedFacts DEF CancelEvent, Begin, Grounded, PhaseSound, AboutToBeListed
<1>2. AboutToBeListed' = {}
  BY <1>1 DEF AboutToBeListed
<1>3. CASE UNCHANGED <<vars, live>>
  BY <1>1, <1>2, <1>3, StillListed DEF vars
<1>4. ASSUME NEW k \in DOMAIN live, live' = SwapPop(live, k),
             CancelLive(live[k]) \/ CancelUnknown(live[k])
      PROVE  Handles'
  <2> DEFINE id == live[k]
  <2>1. id \in OrderId
    BY <1>1, LenProperties, ElementOfSeq
  <2>2. /\ Distinct(live') /\ Listed' = Listed \ {id} /\ RestingIds(book) \subseteq Listed
        /\ \A x \in Listed : Issued(book, x)
        /\ \A s \in Slot : book.gen[s] <= Issuances
    <3>1. Distinct(live) /\ RestingIds(book) \subseteq Listed
          /\ (\A x \in Listed : Issued(book, x))
          /\ \A s \in Slot : book.gen[s] <= Issuances
      BY <1>1 DEF Handles, Distinct
    <3>2. Distinct(live') /\ Elements(live') = Elements(live) \ {id}
      BY <1>1, <1>4, <3>1, SwappedOut
    <3> QED BY <3>1, <3>2 DEF Elements, Listed
  <2> HIDE DEF id
  <2>3. CASE CancelUnknown(id)
    <3>1. id \notin RestingIds(book)
      BY <2>1, <2>3, LiveIsResting DEF CancelUnknown, IsLive
    <3>2. book' = book /\ call' = call /\ stats' = stats
      BY <2>3 DEF CancelUnknown, vars
    <3> QED BY <1>1, <1>2, <2>2, <3>1, <3>2, Relisted
  <2>4. CASE CancelLive(id)
    <3>1. /\ id.slot \in RestingSlots(book) /\ book.pool[id.slot].id = id
      BY <2>1, <2>4, LiveIsResting DEF CancelLive, IsLive
    <3>2. /\ book' = RemoveOrder(book, id.slot) /\ call' = call
          /\ nextTradeSeq' = nextTradeSeq /\ stats' = [stats EXCEPT !.cancelled = @ + 1]
      BY <2>4 DEF CancelLive
    <3>3. RestingIds(book') = RestingIds(book) \ {id}
      BY <3>1, <3>2, RemovedIds, GroundedFacts
    <3>4. Continues
      BY <1>1, <3>1, <3>2, RemovalContinues
    <3>5. \A x : Issued(book', x) <=> Issued(book, x)
      BY <3>4 DEF Issued, Continues
    <3>6. Issuances' = Issuances
      BY <1>1, <3>2, CountsType DEF Issuances, BookStats
    <3>7. \A s \in Slot : book'.gen[s] <= Issuances'
      BY <2>2, <3>4, <3>6 DEF Continues
    <3> QED BY <1>1, <1>2, <2>2, <3>2, <3>3, <3>5, <3>7 DEF Handles, Distinct
  <2> QED BY <1>4, <2>3, <2>4 DEF id
<1> QED BY <1>3, <1>4 DEF CancelEvent

(* The order just entered comes to the list when it rests.                  *)
LEMMA KeptList ==
  ASSUME Grounded, Handles, ~ call.active
  PROVE  LET kept == IF event = "limit" THEN Keeping(live, result) ELSE live
         IN /\ kept \in Seq(OrderId) /\ Distinct(kept)
            /\ Elements(kept) = Listed \cup AboutToBeListed
            /\ Len(kept) = Len(live) + Coming
<1>1. live \in Seq(OrderId) /\ result.id \in OrderId /\ Distinct(live)
      /\ Elements(live) = Listed /\ AboutToBeListed \cap Listed = {}
  BY GroundedFacts DEF Handles, Distinct, Elements, Listed
<1>2. CASE event = "limit" /\ result.resting
  <2>1. AboutToBeListed = {result.id} /\ Coming = 1
    BY SMTT(20), <1>2 DEF AboutToBeListed, Coming
  <2> QED BY <1>1, <1>2, <2>1, Extended DEF Keeping
<1>3. CASE ~ (event = "limit" /\ result.resting)
  <2>1. AboutToBeListed = {} /\ Coming = 0
    BY <1>3 DEF AboutToBeListed, Coming
  <2>2. Len(live) + 0 = Len(live)
    BY <1>1, LenProperties
  <2> QED BY <1>1, <1>3, <2>1, <2>2 DEF Keeping
<1> QED BY <1>2, <1>3

LEMMA HandlesNext ==
  ASSUME MaxOrders < GenMod, Grounded, Passive, Handles, SimNext
  PROVE  Handles'
<1>1. PhaseSound /\ seeded \in Nat /\ TypeOK /\ TotalsInvariant
  BY GroundedFacts DEF Grounded
<1>2. ASSUME NEW side \in Side, NEW price \in Int, InLadder(price), AboutToBeListed = {},
             SubmitLimit(side, price, OrderSize, "GTC", Anonymous), live' = live
      PROVE  Handles'
  <2>1. /\ MayEnter /\ CanAlloc(book) /\ book' = AllocSlot(book)
        /\ call' = Entered(book, FALSE, side, price, OrderSize, "GTC", Anonymous)
        /\ stats' = stats /\ nextTradeSeq' = nextTradeSeq /\ ~ call.active
    BY <1>2, LimitAdmitted
  <2>2. /\ Partitioned(book, {}) /\ Genuine(book) /\ book \in Book
        /\ SeenIn(book) = SeenIn(book) \ {}
    BY <1>1, <2>1, CountsType
  <2>3. Enters({})
    BY <2>1, <2>2, EntersFrom
  <2> QED BY <1>2, <2>3, EntryListed
<1>3. CASE SeedOrder
  <2> DEFINE side == IF seeded % 2 = 0 THEN "Buy" ELSE "Sell"
             away == seeded \div (2 * PerLevel) + 1
             price == IF side = "Buy" THEN RefPrice - away ELSE RefPrice + away
  <2>1. SubmitLimit(side, price, OrderSize, "GTC", Anonymous) /\ seeded < SeedOrders
        /\ event = "none" /\ live' = live
    BY <1>3 DEF SeedOrder
  <2>2. side \in Side
    BY DEF Side
  <2> HIDE DEF side
  <2>3. price \in Int /\ InLadder(price)
    BY <1>1, <2>1, <2>2, SeedPrice
  <2> HIDE DEF price
  <2>4. AboutToBeListed = {}
    BY <2>1 DEF AboutToBeListed
  <2> QED BY <1>2, <2>1, <2>2, <2>3, <2>4
<1>4. CASE SeedOrderDone
  <2>1. /\ phase = "seed" /\ event # "none" /\ ~ call.active /\ event' = "none"
        /\ live' = Keeping(live, result) /\ book' = book /\ call' = call /\ stats' = stats
    BY <1>4 DEF SeedOrderDone, vars
  <2>2. event = "limit"
    BY <1>1, <2>1 DEF PhaseSound
  <2>3. Distinct(live') /\ Listed' = Listed \cup AboutToBeListed
    BY <2>1, <2>2, KeptList DEF Elements, Listed
  <2>4. AboutToBeListed' = {} /\ RestingIds(book) \subseteq Listed \cup AboutToBeListed
    BY <2>1 DEF AboutToBeListed, Handles
  <2> QED BY <2>1, <2>3, <2>4, Relisted
<1>5. CASE EngineGoesOn
  BY <1>5, EngineListed
<1>6. ASSUME NEW side \in Side, NEW dist \in Distances, LimitOrder(side, dist)
      PROVE  Handles'
  <2> DEFINE price == IF side = "Buy" THEN Reference(side) - dist ELSE Reference(side) + dist
  <2>1. price \in Int
    BY QuoteApart
  <2>2. AboutToBeListed = {} /\ live' = live
    BY <1>1, <1>6 DEF LimitOrder, Begin, PhaseSound, AboutToBeListed
  <2>3. \/ /\ InLadder(price) /\ SubmitLimit(side, price, OrderSize, "GTC", Anonymous)
        \/ /\ UNCHANGED vars /\ event' = "nothing"
    BY <1>6 DEF LimitOrder, Begin
  <2> HIDE DEF price
  <2>4. CASE UNCHANGED vars /\ event' = "nothing"
    <3>1. AboutToBeListed' = {}
      BY <2>4 DEF AboutToBeListed
    <3> QED BY <2>2, <2>4, <3>1, StillListed DEF vars
  <2> QED BY <1>2, <2>1, <2>2, <2>3, <2>4
<1>7. ASSUME NEW side \in Side, MarketOrder(side) PROVE Handles'
  <2>1. AboutToBeListed = {} /\ live' = live /\ event' # "limit"
    BY <1>1, <1>7 DEF MarketOrder, Begin, PhaseSound, AboutToBeListed
  <2> QED BY <1>7, <2>1, MarketListed, Sent DEF MarketOrder
<1>8. CASE CancelEvent
  BY <1>8, CancelListed
<1>9. CASE EndEvent
  <2> DEFINE kept == IF event = "limit" THEN Keeping(live, result) ELSE live
  <2>1. /\ ~ call.active /\ event' = "none" /\ (live' = kept \/ live' = PruneDead(kept))
        /\ book' = book /\ call' = call /\ stats' = stats
    BY <1>9 DEF EndEvent, Drain, ClearTrades, vars
  <2>2. /\ kept \in Seq(OrderId) /\ Distinct(kept)
        /\ Elements(kept) = Listed \cup AboutToBeListed
    BY <2>1, KeptList
  <2> HIDE DEF kept
  <2>3. AboutToBeListed' = {} /\ RestingIds(book) \subseteq Elements(kept)
    BY <2>1, <2>2 DEF AboutToBeListed, Handles
  <2>4. Distinct(live') /\ Listed' \subseteq Elements(kept) /\ RestingIds(book) \subseteq Listed'
    <3>1. CASE live' = kept
      BY <2>2, <2>3, <3>1 DEF Elements, Listed
    <3>2. CASE live' = PruneDead(kept)
      <4>1. Distinct(live') /\ Listed' = {id \in Elements(kept) : IsLive(id)}
        BY <2>2, <3>2, PrunedList DEF Elements, Listed
      <4>2. \A id \in Elements(kept) : id \in OrderId
        BY <2>2, LenProperties, ElementOfSeq DEF Elements
      <4> QED BY <2>3, <4>1, <4>2, LiveIsResting
    <3> QED BY <2>1, <3>1, <3>2
  <2> QED BY <2>1, <2>2, <2>3, <2>4, Relisted
<1>10. ASSUME NEW qty \in StudySizes, StudyOrder(qty) PROVE Handles'
  <2>1. AboutToBeListed = {} /\ live' = live /\ event' # "limit" /\ "Buy" \in Side
    BY <1>10 DEF StudyOrder, AboutToBeListed, Side
  <2> QED BY <1>10, <2>1, MarketListed, Sent DEF StudyOrder
<1>11. ASSUME book' = book, call' = call, stats' = stats, result' = result, live' = live,
              event' = event, event # "limit"
       PROVE  Handles'
  <2>1. AboutToBeListed = {} /\ AboutToBeListed' = {}
    BY <1>11 DEF AboutToBeListed
  <2> QED BY <1>11, <2>1, StillListed
<1>12. CASE EndRun
  BY <1>1, <1>11, <1>12 DEF EndRun, Drain, ClearTrades, PhaseSound
<1>13. ASSUME NEW w \in Warmups, StartRun(w) PROVE Handles'
  BY <1>1, <1>11, <1>13 DEF StartRun, vars, PhaseSound
<1>14. CASE StudyOrderDone
  BY <1>1, <1>11, <1>14 DEF StudyOrderDone, vars, PhaseSound
<1>15. CASE Finished
  BY <1>1, <1>11, <1>15 DEF Finished, vars, simVars, PhaseSound
<1> QED
  BY <1>3, <1>4, <1>5, <1>6, <1>7, <1>8, <1>9, <1>10, <1>12, <1>13, <1>14, <1>15 DEF SimNext

LEMMA HandlesInit == SimInit => Handles
<1> SUFFICES ASSUME SimInit PROVE Handles
  OBVIOUS
<1>1. live = << >> /\ event = "none" /\ book = FreshBook /\ ~ call.active /\ stats = NoStats
  BY DEF SimInit, Init, Idle
<1>2. Listed = {} /\ AboutToBeListed = {} /\ DOMAIN live = {}
  BY <1>1 DEF Listed, AboutToBeListed
<1>3. RestingIds(book) = {}
  BY <1>1 DEF RestingIds, RestingSlots, FreshBook, DefaultOrder
<1>4. \A s \in Slot : book.gen[s] <= Issuances
  BY <1>1 DEF FreshBook, Issuances, NoStats
<1> QED BY <1>1, <1>2, <1>3, <1>4 DEF Handles

LEMMA SimHandles ==
  ASSUME MaxOrders < GenMod
  PROVE  SimSpec => [](Grounded /\ Passive /\ Handles)
<1>1. SimInit => Handles
  BY HandlesInit
<1>2. Grounded /\ Passive /\ Handles /\ [SimNext]_simulation => Handles'
  <2>1. Grounded /\ Passive /\ Handles /\ SimNext => Handles'
    BY HandlesNext
  <2>2. Handles /\ UNCHANGED simulation => Handles'
    BY DEF simulation, simVars, vars, Handles, Listed, AboutToBeListed, Issuances
  <2> QED BY <2>1, <2>2
<1> QED BY <1>1, <1>2, SimPassive, PTL DEF SimSpec, simulation

(* An order the simulator has placed can be cancelled as long as it rests,  *)
(* and by one draw only: through swaps, fills it is not told of and         *)
(* prunings its list names every resting order, and no id twice.            *)
THEOREM LiveCorrect ==
  ASSUME MaxOrders < GenMod
  PROVE  SimSpec => []LiveCoversBook
<1>1. Handles => LiveCoversBook
  BY DEF Handles, LiveCoversBook, RestingIds
<1>2. SimSpec => [](Grounded /\ Passive /\ Handles)
  BY SimHandles
<1> QED BY <1>1, <1>2, PTL

-------------------------------------------------------------------------------
(* Ids in the list whose order is gone.                                     *)

Excess == IF runs > 1 THEN 1 ELSE 0

LEMMA PrunedLength ==
  ASSUME Grounded, NEW s \in Seq(OrderId), Distinct(s)
  PROVE  Len(PruneDead(s)) <= book.open /\ PruneDead(s) \in Seq(OrderId)
<1> DEFINE t == PruneDead(s)
           Slots == RestingSlots(book)
           slotOf == [k \in 1 .. Len(t) |-> t[k].slot]
<1>1. /\ t \in Seq(OrderId) /\ Distinct(t) /\ Elements(t) = {id \in Elements(s) : IsLive(id)}
  BY PrunedList
<1>2. book.open = Cardinality(Slots) /\ IsFiniteSet(Slots)
  BY GroundedFacts, CountsType, OrdersFinite
<1> HIDE DEF t
<1>3. Len(t) \in Nat /\ DOMAIN t = 1 .. Len(t) /\ \A k \in 1 .. Len(t) : t[k] \in OrderId
  BY <1>1, LenProperties, ElementOfSeq
<1>4. \A k \in 1 .. Len(t) : t[k].slot \in Slots /\ book.pool[t[k].slot].id = t[k]
  <2>1. \A k \in 1 .. Len(t) : IsLive(t[k])
    BY <1>1, <1>3 DEF Elements
  <2> QED BY <1>3, <2>1, LiveIsResting
<1> HIDE DEF Slots
<1>5. slotOf \in Injection(1 .. Len(t), Slots)
  <2>1. slotOf \in [1 .. Len(t) -> Slots]
    BY <1>4
  <2>2. \A j, k \in 1 .. Len(t) : slotOf[j] = slotOf[k] => j = k
    <3>1. \A j, k \in 1 .. Len(t) : t[j] = t[k] => j = k
      BY <1>1, <1>3 DEF Distinct
    <3> QED BY <1>4, <3>1
  <2> HIDE DEF slotOf
  <2>3. DOMAIN slotOf = 1 .. Len(t)
    BY <2>1
  <2> QED BY <2>1, <2>2, <2>3 DEF Injection, IsInjective
<1> HIDE DEF slotOf
<1>6. Cardinality(1 .. Len(t)) <= Cardinality(Slots)
  BY <1>2, <1>5, FS_Injection
<1>7. Cardinality(1 .. Len(t)) = Len(t)
  <2> DEFINE m == Len(t)
  <2>1. m \in Nat
    BY <1>3
  <2> HIDE DEF m
  <2>2. Cardinality(1 .. m) = m
    BY <2>1, FS_Interval
  <2> QED BY <2>2 DEF m
<1> QED BY <1>1, <1>2, <1>6, <1>7 DEF t

LEMMA EndEventBounded ==
  ASSUME Grounded, Handles, Ghosts, EndEvent
  PROVE  Len(live') <= book.open + GhostsAllowed + Excess
<1> DEFINE kept == IF event = "limit" THEN Keeping(live, result) ELSE live
<1>1. /\ live \in Seq(OrderId) /\ Len(live) \in Nat /\ nLive \in Nat /\ book.open \in Int
      /\ GhostsAllowed \in Nat /\ runs \in Nat
  BY GroundedFacts, LenProperties, Sent, CountsType
<1>2. /\ phase = "event" /\ ~ call.active /\ Len(live) <= nLive /\ Excess \in {0, 1}
      /\ live' = IF MustPrune THEN PruneDead(kept) ELSE kept
  BY DEF EndEvent, Ghosts, Excess
<1>3. kept \in Seq(OrderId) /\ Distinct(kept) /\ Len(kept) = Len(live) + Coming
  BY <1>2, KeptList
<1> HIDE DEF kept
<1>4. CASE MustPrune
  <2>1. Len(live') <= book.open
    BY <1>2, <1>3, <1>4, PrunedLength
  <2>2. Len(live') \in Nat
    BY <1>2, <1>3, <1>4, PrunedLength, LenProperties
  <2> QED BY <1>1, <1>2, <2>1, <2>2
<1>5. CASE ~ MustPrune
  <2>1. live' = kept /\ nLive <= book.open + GhostsAllowed
    BY <1>1, <1>2, <1>5 DEF MustPrune
  <2>2. CASE event # "limit"
    <3>1. Coming = 0
      BY <2>2 DEF Coming
    <3> QED BY <1>1, <1>2, <1>3, <2>1, <3>1
  <2>3. CASE event = "limit" /\ runs > 1
    <3>1. Coming \in {0, 1} /\ Excess = 1
      BY <2>3 DEF Coming, Excess
    <3> QED BY <1>1, <1>2, <1>3, <2>1, <3>1
  <2>4. CASE event = "limit" /\ ~ runs > 1
    <3>1. runs = 0 \/ runs = 1
      BY <1>1, <2>4
    <3>2. EarlyDays
      BY <1>2, <3>1 DEF EarlyDays
    <3>3. Len(live) + Coming <= book.open + GhostsAllowed
      BY <2>4, <3>2 DEF Ghosts
    <3> QED BY <1>1, <1>2, <1>3, <2>1, <3>3
  <2> QED BY <2>2, <2>3, <2>4
<1> QED BY <1>4, <1>5

LEMMA GhostsNext ==
  ASSUME Grounded, Passive, Handles, Ghosts, SimNext
  PROVE  Ghosts'
<1>1. /\ PhaseSound /\ live \in Seq(OrderId) /\ Len(live) \in Nat /\ book.open \in Int
      /\ GhostsAllowed \in Nat /\ runs \in Nat /\ call.active \in BOOLEAN
      /\ call.market \in BOOLEAN /\ seeded \in Nat /\ TotalsInvariant
  BY GroundedFacts, LenProperties, Sent, CountsType DEF Grounded
<1>2. /\ EarlyDays /\ (phase = "event" => event = "limit") =>
           Len(live) + Coming <= book.open + GhostsAllowed
      /\ phase = "event" => Len(live) <= nLive
      /\ GhostsBounded
  BY DEF Ghosts
<1>3. CASE SeedOrder
  <2> DEFINE side == IF seeded % 2 = 0 THEN "Buy" ELSE "Sell"
             away == seeded \div (2 * PerLevel) + 1
             price == IF side = "Buy" THEN RefPrice - away ELSE RefPrice + away
  <2>1. SubmitLimit(side, price, OrderSize, "GTC", Anonymous) /\ seeded < SeedOrders
        /\ phase = "seed" /\ event = "none" /\ phase' = phase /\ live' = live
    BY <1>3 DEF SeedOrder
  <2>2. side \in Side
    BY DEF Side
  <2> HIDE DEF side
  <2>3. price \in Int /\ InLadder(price)
    BY <1>1, <2>1, <2>2, SeedPrice
  <2> HIDE DEF price
  <2>4. book'.open = book.open /\ call'.active
    BY <2>1, <2>2, <2>3, LimitAdmitted
  <2>5. Coming = 0 /\ Coming' = 0 /\ EarlyDays
    BY <2>1, <2>4 DEF Coming, EarlyDays
  <2> QED BY <1>2, <2>1, <2>4, <2>5 DEF Ghosts, GhostsBounded
<1>4. CASE SeedOrderDone
  <2>1. /\ phase = "seed" /\ event # "none" /\ ~ call.active /\ event' = "none"
        /\ live' = Keeping(live, result) /\ book' = book /\ phase' \in {"seed", "idle"}
    BY <1>4 DEF SeedOrderDone, vars
  <2>2. event = "limit" /\ EarlyDays
    BY <1>1, <2>1 DEF PhaseSound, EarlyDays
  <2>3. Len(live') = Len(live) + Coming
    BY <2>1, <2>2, KeptList
  <2>4. Coming' = 0 /\ Coming \in {0, 1}
    BY <2>1 DEF Coming
  <2>5. Len(live') + Coming' <= book'.open + GhostsAllowed
    BY <1>1, <1>2, <2>1, <2>2, <2>3, <2>4
  <2> QED BY <2>1, <2>5 DEF Ghosts, GhostsBounded
<1>5. CASE EngineGoesOn
  <2>1. call.active /\ UNCHANGED simVars /\ (MatchStep \/ ReturnStep)
    BY <1>1, <1>5, CallGoesOn, GroundedFacts DEF EngineGoesOn
  <2>2. /\ live' = live /\ phase' = phase /\ event' = event /\ runs' = runs /\ nLive' = nLive
    BY <2>1 DEF simVars
  <2>3. phase \in {"seed", "event", "study"} /\ Coming = 0
    BY <1>1, <2>1 DEF PhaseSound, Coming
  <2>4. EarlyDays' <=> EarlyDays
    BY <2>2 DEF EarlyDays
  <2>5. CASE call.market
    <3>1. ~ (EarlyDays /\ (phase = "event" => event = "limit"))
      BY <1>1, <2>1, <2>5 DEF PhaseSound, EarlyDays
    <3> QED BY <1>2, <2>2, <2>3, <2>4, <3>1 DEF Ghosts, GhostsBounded
  <2>6. CASE ~ call.market
    <3>1. ReturnResting
      BY <2>1, <2>6, LimitOnlyRests DEF Passive
    <3>2. book'.open = book.open + 1
      <4> DEFINE o == [DefaultOrder EXCEPT
                         !.id = call.id, !.price = call.price, !.qty = call.qty,
                         !.remaining = call.remaining, !.seq = nextSeq,
                         !.participant = call.participant, !.side = call.side]
      <4>1. /\ book' = RestOrder(book, call.slot, o) /\ o \in Order /\ call.slot \in Slot
            /\ o.price >= MinPrice /\ o.price <= MaxPrice /\ book \in Book
        BY <3>1, GroundedFacts, RestFacts
      <4> HIDE DEF o
      <4> QED BY <4>1, RestShape
    <3>3. Coming' \in {0, 1}
      BY DEF Coming
    <3> QED BY <1>1, <1>2, <2>2, <2>3, <2>4, <3>2, <3>3 DEF Ghosts, GhostsBounded
  <2> QED BY <1>1, <2>5, <2>6
<1>6. ASSUME NEW side \in Side, NEW dist \in Distances, LimitOrder(side, dist)
      PROVE  Ghosts'
  <2> DEFINE price == IF side = "Buy" THEN Reference(side) - dist ELSE Reference(side) + dist
  <2>1. price \in Int
    BY QuoteApart
  <2>2. /\ phase = "head" /\ live' = live /\ nLive' = Len(live) /\ phase' = "event"
        /\ runs' = runs
    BY <1>6 DEF LimitOrder, Begin
  <2>3. \/ /\ InLadder(price) /\ SubmitLimit(side, price, OrderSize, "GTC", Anonymous)
        \/ event' = "nothing"
    BY <1>6 DEF LimitOrder, Begin
  <2> HIDE DEF price
  <2>4. CASE event' = "nothing"
    BY <1>1, <2>2, <2>4 DEF Ghosts, GhostsBounded
  <2>5. CASE InLadder(price) /\ SubmitLimit(side, price, OrderSize, "GTC", Anonymous)
    <3>1. book'.open = book.open /\ call'.active
      BY <2>1, <2>5, LimitAdmitted
    <3>2. Coming = 0 /\ Coming' = 0 /\ (EarlyDays' => EarlyDays)
      BY <1>1, <2>2, <3>1 DEF Coming, EarlyDays, PhaseSound
    <3> QED BY <1>1, <1>2, <2>2, <3>1, <3>2 DEF Ghosts, GhostsBounded
  <2> QED BY <2>3, <2>4, <2>5
<1>7. ASSUME NEW side \in Side, MarketOrder(side) PROVE Ghosts'
  BY <1>1, <1>7 DEF MarketOrder, Begin, Ghosts, GhostsBounded
<1>8. CASE CancelEvent
  <2>1. /\ phase' = "event" /\ event' = "cancel" /\ nLive' = Len(live)
        /\ live' = live \/ \E k \in DOMAIN live : live' = SwapPop(live, k)
    BY <1>8 DEF CancelEvent, Begin
  <2>2. Len(live') <= Len(live)
    <3>1. CASE live' = live
      BY <1>1, <3>1
    <3>2. ASSUME NEW k \in DOMAIN live, live' = SwapPop(live, k) PROVE Len(live') <= Len(live)
      <4>1. Len(live') = Len(live) - 1
        BY <1>1, <3>2, SwappedOut
      <4> QED BY <1>1, <4>1
    <3> QED BY <2>1, <3>1, <3>2
  <2> QED BY <2>1, <2>2 DEF Ghosts, GhostsBounded
<1>9. CASE EndEvent
  <2>1. Len(live') <= book.open + GhostsAllowed + Excess
    BY <1>9, EndEventBounded
  <2>2. book' = book /\ event' = "none" /\ phase' = "head" /\ runs' = runs
    BY <1>9 DEF EndEvent, Drain, ClearTrades, vars
  <2>3. live' \in Seq(OrderId)
    <3> DEFINE kept == IF event = "limit" THEN Keeping(live, result) ELSE live
    <3>1. kept \in Seq(OrderId)
      BY <1>9, KeptList DEF EndEvent
    <3>2. live' = kept \/ live' = PruneDead(kept)
      BY <1>9 DEF EndEvent
    <3> HIDE DEF kept
    <3> QED BY <3>1, <3>2, PrunedList
  <2>4. Len(live') \in Nat
    BY <2>3, LenProperties
  <2>5. GhostsBounded'
    BY <2>1, <2>2 DEF GhostsBounded, Excess
  <2>6. ASSUME EarlyDays' PROVE Len(live') + Coming' <= book'.open + GhostsAllowed
    <3>1. Excess = 0 /\ Coming' = 0
      BY <1>1, <2>2, <2>6 DEF EarlyDays, Excess, Coming
    <3> QED BY <1>1, <2>1, <2>2, <2>4, <3>1
  <2> QED BY <2>2, <2>5, <2>6 DEF Ghosts
<1>10. ASSUME NEW w \in Warmups, StartRun(w) PROVE Ghosts'
  <2>1. /\ phase = "idle" /\ phase' = "head" /\ n' = 0 /\ live' = live /\ book' = book
        /\ runs' = runs + 1 /\ event' = event
    BY <1>10 DEF StartRun, vars
  <2>2. Coming = 0 /\ Coming' = 0
    BY <1>1, <2>1 DEF PhaseSound, Coming
  <2>3. EarlyDays' => EarlyDays
    BY <1>1, <2>1 DEF EarlyDays
  <2>4. GhostsBounded'
    BY <2>1 DEF GhostsBounded
  <2> QED BY <1>2, <2>1, <2>2, <2>3, <2>4 DEF Ghosts
<1>11. CASE EndRun
  <2>1. /\ phase = "head" /\ phase' = "idle" /\ live' = live /\ book' = book
        /\ runs' = runs /\ event' = event
    BY <1>11 DEF EndRun, Drain, ClearTrades
  <2>2. Coming = 0 /\ Coming' = 0
    BY <1>1, <2>1 DEF PhaseSound, Coming
  <2>3. EarlyDays' => EarlyDays
    BY <1>1, <2>1 DEF EarlyDays
  <2> QED BY <1>2, <2>1, <2>2, <2>3 DEF Ghosts, GhostsBounded
<1>12. ASSUME runs' = runs, runs > 0, phase' \in {"idle", "study", "gaveup"} PROVE Ghosts'
  <2>1. ~ EarlyDays'
    BY <1>1, <1>12 DEF EarlyDays
  <2> QED BY <1>12, <2>1 DEF Ghosts, GhostsBounded
<1>13. ASSUME NEW qty \in StudySizes, StudyOrder(qty) PROVE Ghosts'
  BY <1>12, <1>13 DEF StudyOrder
<1>14. CASE StudyOrderDone
  BY <1>1, <1>12, <1>14 DEF StudyOrderDone, PhaseSound
<1>15. CASE Finished
  BY <1>2, <1>15 DEF Finished, vars, simVars, Ghosts, GhostsBounded, EarlyDays, Coming
<1> QED
  BY <1>3, <1>4, <1>5, <1>6, <1>7, <1>8, <1>9, <1>10, <1>11, <1>13, <1>14, <1>15 DEF SimNext

LEMMA GhostsInit == SimInit => Ghosts
<1> SUFFICES ASSUME SimInit PROVE Ghosts
  OBVIOUS
<1>1. live = << >> /\ event = "none" /\ book.open = 0 /\ phase = "seed"
  BY DEF SimInit, Init, FreshBook
<1>2. Len(live) = 0 /\ Coming = 0
  BY <1>1 DEF Coming
<1> QED BY <1>1, <1>2, Sent DEF Ghosts, GhostsBounded

(* The list the simulator cancels from is never much longer than the book:  *)
(* at the head of the loop at most GhostsAllowed of its ids are dead, and   *)
(* one more in the runs after an impact study.                              *)
THEOREM GhostsCorrect ==
  ASSUME MaxOrders < GenMod
  PROVE  SimSpec => []GhostsBounded
<1>1. SimInit => Ghosts
  BY GhostsInit
<1>2. Grounded /\ Passive /\ Handles /\ Ghosts /\ [SimNext]_simulation => Ghosts'
  <2>1. Grounded /\ Passive /\ Handles /\ Ghosts /\ SimNext => Ghosts'
    BY GhostsNext
  <2>2. Ghosts /\ UNCHANGED simulation => Ghosts'
    BY DEF simulation, simVars, vars, Ghosts, GhostsBounded, EarlyDays, Coming
  <2> QED BY <2>1, <2>2
<1>3. Ghosts => GhostsBounded
  BY DEF Ghosts
<1>4. SimSpec => [](Grounded /\ Passive /\ Handles)
  BY SimHandles
<1> QED BY <1>1, <1>2, <1>3, <1>4, PTL DEF SimSpec, simulation

-------------------------------------------------------------------------------
(* The tape.                                                                *)

LEMMA TapeKept ==
  ASSUME TapeComplete, collected' \o trades' = collected \o trades,
         reported' = reported, nextTradeSeq' = nextTradeSeq
  PROVE  TapeComplete'
BY DEF TapeComplete

LEMMA TapeGrows ==
  ASSUME Grounded, TapeComplete, collected' = collected, reported' = reported, NEW t,
         t.seq = nextTradeSeq, trades' = Append(trades, t), nextTradeSeq' = nextTradeSeq + 1
  PROVE  TapeComplete'
<1> DEFINE S == Trade \cup {t}
           seen == collected \o trades
           m == Len(collected)
           p == Len(trades)
<1>1. collected \in Seq(S) /\ trades \in Seq(S) /\ t \in S
  BY GroundedFacts, SeqMonotonic
<1>2. m \in Nat /\ p \in Nat /\ reported \in Nat /\ nextTradeSeq \in Nat
  BY GroundedFacts, LenProperties
<1> HIDE DEF S
<1>3. /\ seen \in Seq(S) /\ Len(seen) = m + p
      /\ \A k \in 1 .. m + p : seen[k] = IF k <= m THEN collected[k] ELSE trades[k - m]
  BY <1>1, ConcatProperties
<1>4. /\ trades' \in Seq(S) /\ Len(trades') = p + 1 /\ trades'[p + 1] = t
      /\ \A k \in 1 .. p : trades'[k] = trades[k]
  BY <1>1, AppendProperties
<1> DEFINE u == trades'
           now == collected \o u
<1>5. /\ now \in Seq(S) /\ Len(now) = m + (p + 1)
      /\ \A k \in 1 .. m + (p + 1) : now[k] = IF k <= m THEN collected[k] ELSE u[k - m]
  <2>1. u \in Seq(S) /\ Len(u) = p + 1
    BY <1>4
  <2> HIDE DEF u
  <2>2. /\ now \in Seq(S) /\ Len(now) = Len(collected) + Len(u)
        /\ \A k \in 1 .. Len(collected) + Len(u) :
             now[k] = IF k <= Len(collected) THEN collected[k] ELSE u[k - Len(collected)]
    BY <1>1, <2>1, ConcatProperties
  <2> QED BY <2>1, <2>2
<1>6. DOMAIN seen = 1 .. m + p /\ DOMAIN now = 1 .. m + p + 1
  BY <1>2, <1>3, <1>5, LenProperties
<1>7. reported + Len(seen) = nextTradeSeq - 1 /\ \A k \in DOMAIN seen : seen[k].seq = reported + k
  BY DEF TapeComplete
<1> HIDE DEF seen, now, m, p
<1>8. ASSUME NEW k \in DOMAIN now PROVE now[k].seq = reported + k
  <2>1. CASE k = m + p + 1
    <3>1. now[k] = t
      <4>1. k - m = p + 1 /\ ~ k <= m /\ k \in 1 .. m + (p + 1)
        BY <1>2, <2>1
      <4> QED BY <1>4, <1>5, <4>1
    <3>2. reported + (m + p) = nextTradeSeq - 1
      BY <1>3, <1>7
    <3>3. reported + k = nextTradeSeq
      BY <1>2, <2>1, <3>2
    <3> QED BY <3>1, <3>3
  <2>2. CASE k # m + p + 1
    <3>1. k \in 1 .. m + p /\ k \in 1 .. m + (p + 1) /\ k \in Int
      BY <1>2, <1>6, <1>8, <2>2
    <3>2. ~ k <= m => k - m \in 1 .. p
      BY <1>2, <3>1
    <3>3. now[k] = seen[k]
      BY <1>3, <1>4, <1>5, <3>1, <3>2
    <3> QED BY <1>6, <1>7, <3>1, <3>3
  <2> QED BY <2>1, <2>2
<1>9. reported + Len(now) = (nextTradeSeq + 1) - 1
  BY <1>2, <1>3, <1>5, <1>7
<1> QED BY <1>8, <1>9 DEF TapeComplete, now

LEMMA EngineTape ==
  ASSUME Grounded, TapeComplete, EngineGoesOn
  PROVE  TapeComplete'
<1>1. collected' = collected /\ reported' = reported /\ (MatchStep \/ ReturnStep)
  BY DEF EngineGoesOn, simVars
<1>2. CASE Fill
  <2>1. \E t : /\ t.seq = nextTradeSeq /\ trades' = Append(trades, t)
               /\ nextTradeSeq' = nextTradeSeq + 1
    <3> DEFINE q == Smaller(call.remaining, Maker.remaining)
               t == [seq |-> nextTradeSeq, taker |-> call.id, maker |-> Maker.id,
                     price |-> ToPrice(BestIndex), qty |-> q, side |-> call.side]
    <3>1. t.seq = nextTradeSeq
      OBVIOUS
    <3>2. trades' = Append(trades, t) /\ nextTradeSeq' = nextTradeSeq + 1
      BY <1>2 DEF Fill
    <3> HIDE DEF t
    <3> QED BY <3>1, <3>2
  <2> QED BY <1>1, <2>1, TapeGrows
<1>3. CASE ~ Fill
  <2>1. trades' = trades /\ nextTradeSeq' = nextTradeSeq
    BY <1>1, <1>3
    DEF MatchStep, StopTaker, PullMaker, ReturnStep, ReturnFilled, ReturnResting,
        ReturnKilled, Return
  <2> QED BY <1>1, <2>1, TapeKept
<1> QED BY <1>2, <1>3

LEMMA DrainedTape ==
  ASSUME Grounded, TapeComplete, Drain, reported' = reported
  PROVE  TapeComplete'
<1>1. /\ collected' = collected \o trades /\ trades' = << >>
      /\ nextTradeSeq' = nextTradeSeq /\ collected \o trades \in Seq(Trade)
  BY GroundedFacts, ConcatProperties DEF Drain, ClearTrades
<1>2. collected' \o trades' = collected \o trades
  BY <1>1, ConcatEmptySeq
<1> QED BY <1>1, <1>2, TapeKept

(* A new run reports from where the last one ended.                         *)
LEMMA StartedTape ==
  ASSUME Grounded, TapeComplete, NEW w, StartRun(w)
  PROVE  TapeComplete'
<1> DEFINE m == Len(collected)
           p == Len(trades)
           seen == collected \o trades
<1>1. /\ collected \in Seq(Trade) /\ trades \in Seq(Trade) /\ m \in Nat /\ p \in Nat
      /\ reported \in Nat /\ nextTradeSeq \in Nat
  BY GroundedFacts, LenProperties
<1>2. /\ collected' = << >> /\ trades' = trades /\ reported' = reported + m
      /\ nextTradeSeq' = nextTradeSeq
  BY DEF StartRun, vars
<1>3. collected' \o trades' = trades
  BY <1>1, <1>2, ConcatEmptySeq
<1>4. /\ seen \in Seq(Trade) /\ Len(seen) = m + p
      /\ \A k \in 1 .. m + p : seen[k] = IF k <= m THEN collected[k] ELSE trades[k - m]
  BY <1>1, ConcatProperties
<1>5. DOMAIN seen = 1 .. m + p /\ DOMAIN trades = 1 .. p
  BY <1>1, <1>4, LenProperties
<1>6. reported + Len(seen) = nextTradeSeq - 1 /\ \A k \in DOMAIN seen : seen[k].seq = reported + k
  BY DEF TapeComplete
<1> HIDE DEF seen, m
<1>7. ASSUME NEW k \in 1 .. p PROVE trades[k].seq = reported + m + k
  <2>1. m + k \in 1 .. m + p /\ ~ m + k <= m /\ (m + k) - m = k
    BY <1>1
  <2>2. seen[m + k] = trades[k]
    BY <1>4, <2>1
  <2>3. seen[m + k].seq = reported + (m + k)
    BY <1>5, <1>6, <2>1
  <2> QED BY <1>1, <2>1, <2>2, <2>3
<1>8. reported + m + p = nextTradeSeq - 1
  BY <1>1, <1>4, <1>6
<1> QED BY <1>2, <1>3, <1>5, <1>7, <1>8 DEF TapeComplete

LEMMA TapeNext ==
  ASSUME Grounded, TapeComplete, SimNext
  PROVE  TapeComplete'
<1>1. ASSUME collected' = collected, trades' = trades, reported' = reported,
             nextTradeSeq' = nextTradeSeq
      PROVE  TapeComplete'
  BY <1>1, TapeKept
<1>2. CASE SeedOrder
  <2>1. /\ collected' = collected /\ reported' = reported
        /\ \E side, price : SubmitLimit(side, price, OrderSize, "GTC", Anonymous)
    BY <1>2 DEF SeedOrder
  <2> QED BY <1>1, <2>1, LimitEntry
<1>3. CASE SeedOrderDone
  BY <1>1, <1>3 DEF SeedOrderDone, vars
<1>4. CASE EngineGoesOn
  BY <1>4, EngineTape
<1>5. ASSUME NEW side \in Side, NEW dist \in Distances, LimitOrder(side, dist)
      PROVE  TapeComplete'
  <2>1. collected' = collected /\ reported' = reported
    BY <1>5 DEF LimitOrder, Begin
  <2>2. UNCHANGED vars \/ \E price : SubmitLimit(side, price, OrderSize, "GTC", Anonymous)
    BY <1>5 DEF LimitOrder
  <2>3. CASE UNCHANGED vars
    BY <1>1, <2>1, <2>3 DEF vars
  <2>4. CASE \E price : SubmitLimit(side, price, OrderSize, "GTC", Anonymous)
    BY <1>1, <2>1, <2>4, LimitEntry
  <2> QED BY <2>2, <2>3, <2>4
<1>6. ASSUME NEW side \in Side, MarketOrder(side) PROVE TapeComplete'
  BY <1>1, <1>6, MarketEntry DEF MarketOrder, Begin
<1>7. CASE CancelEvent
  BY <1>1, <1>7 DEF CancelEvent, Begin, CancelLive, CancelUnknown, vars
<1>8. CASE EndEvent
  <2>1. reported' = reported /\ (Drain \/ UNCHANGED <<vars, collected>>)
    BY <1>8 DEF EndEvent
  <2>2. CASE UNCHANGED <<vars, collected>>
    BY <1>1, <2>1, <2>2 DEF vars
  <2> QED BY <2>1, <2>2, DrainedTape
<1>9. ASSUME NEW w \in Warmups, StartRun(w) PROVE TapeComplete'
  BY <1>9, StartedTape
<1>10. CASE EndRun
  BY <1>10, DrainedTape DEF EndRun
<1>11. ASSUME NEW qty \in StudySizes, StudyOrder(qty) PROVE TapeComplete'
  BY <1>1, <1>11, MarketEntry DEF StudyOrder
<1>12. CASE StudyOrderDone
  BY <1>1, <1>12 DEF StudyOrderDone, vars
<1>13. CASE Finished
  BY <1>1, <1>13 DEF Finished, vars, simVars
<1> QED
  BY <1>2, <1>3, <1>4, <1>5, <1>6, <1>7, <1>8, <1>9, <1>10, <1>11, <1>12, <1>13 DEF SimNext

LEMMA TapeInit == SimInit => TapeComplete
<1> SUFFICES ASSUME SimInit PROVE TapeComplete
  OBVIOUS
<1>1. collected = << >> /\ trades = << >> /\ reported = 0 /\ nextTradeSeq = 1
  BY DEF SimInit, Init
<1>2. collected \o trades = << >> /\ Len(<< >>) = 0 /\ DOMAIN << >> = {}
  BY <1>1, EmptySeq, ConcatEmptySeq
<1> QED BY <1>1, <1>2 DEF TapeComplete

(* No trade is lost between two drains, and none is reported twice: the     *)
(* results of the runs hold all of them in the order of execution.          *)
THEOREM TapeCorrect == SimSpec => []TapeComplete
<1>1. SimInit => TapeComplete
  BY TapeInit
<1>2. Grounded /\ TapeComplete /\ [SimNext]_simulation => TapeComplete'
  <2>1. Grounded /\ TapeComplete /\ SimNext => TapeComplete'
    BY TapeNext
  <2>2. TapeComplete /\ UNCHANGED simulation => TapeComplete'
    BY DEF simulation, simVars, vars, TapeComplete
  <2> QED BY <2>1, <2>2
<1> QED BY <1>1, <1>2, SimGrounded, PTL DEF SimSpec, simulation
-------------------------------------------------------------------------------
(* When the tape is drained.                                                *)

(* The next number has the next remainder, unless that is 0.                *)
LEMMA NextRemainder ==
  ASSUME NEW x \in Nat, NEW m \in Nat, m > 0, x > 0, x % m # 0
  PROVE  ((x - 1) % m) + 1 = x % m
<1> DEFINE q == x \div m
           r == x % m
<1>1. x = m * q + r /\ r \in 0 .. m - 1 /\ q \in Int
  BY ModSplit
<1> HIDE DEF q, r
<1>2. r # 0
  BY DEF r
<1>3. r - 1 \in 0 .. m - 1
  BY <1>1, <1>2
<1>4. (m * q + (r - 1)) % m = r - 1
  BY <1>1, <1>3, ModUnique
<1>5. m * q + (r - 1) = x - 1
  <2>1. m * q \in Int
    BY <1>1
  <2> QED BY <1>1, <2>1
<1>6. (x - 1) % m = r - 1
  BY <1>4, <1>5
<1> QED BY <1>1, <1>6 DEF r

(* Of m consecutive numbers one is a multiple of m.                         *)
LEMMA MultipleExists ==
  ASSUME NEW x \in Nat, NEW m \in Nat, m > 0
  PROVE  \E y \in x .. x + m - 1 : y % m = 0
<1> DEFINE z == x + m - 1
           q == z \div m
           r == z % m
<1>1. z \in Int
  OBVIOUS
<1> HIDE DEF z
<1>2. z = m * q + r /\ r \in 0 .. m - 1 /\ q \in Int
  BY <1>1, ModSplit
<1> HIDE DEF q, r
<1> DEFINE y == m * q
<1>3. y \in Int /\ z = y + r
  BY <1>2
<1>4. (m * q + 0) % m = 0
  <2>1. 0 \in 0 .. m - 1
    OBVIOUS
  <2> QED BY <1>2, <2>1, ModUnique
<1>5. m * q + 0 = y
  BY <1>3
<1>6. y % m = 0
  BY <1>4, <1>5
<1> HIDE DEF y
<1>7. y \in x .. x + m - 1
  BY <1>2, <1>3 DEF z
<1> QED BY <1>6, <1>7

LEMMA DrainSoundNext ==
  ASSUME Grounded, DrainSound, SimNext
  PROVE  DrainSound'
<1>1. n \in Nat /\ warmup \in Nat /\ undrained \in Nat /\ DrainEvery \in Nat /\ DrainEvery > 0
      /\ \A w \in Warmups : w \in Nat
  BY GroundedFacts, Sent
<1>2. ASSUME n' = n, warmup' = warmup, undrained' = undrained,
             phase' \in {"head", "event"} => phase \in {"head", "event"}
      PROVE  DrainSound'
  BY <1>2 DEF DrainSound
<1>3. CASE EndEvent
  <2>1. phase = "event" /\ n' = n + 1 /\ warmup' = warmup
    BY <1>3 DEF EndEvent
  <2>2. (n + 1) - 1 = n /\ n + 1 > 0
    BY <1>1
  <2>3. CASE DrainDue /\ Drain
    BY <1>1, <2>1, <2>2, <2>3 DEF DrainDue, Drain, DrainSound
  <2>4. CASE ~ DrainDue /\ undrained' = undrained + 1
    <3> SUFFICES ASSUME NEW m \in warmup .. n, m % DrainEvery = 0
                 PROVE  undrained' = n % DrainEvery
      BY <2>1, <2>2 DEF DrainSound
    <3>1. n >= warmup /\ m \in Nat
      BY <1>1
    <3>2. n % DrainEvery # 0
      BY <2>4, <3>1 DEF DrainDue
    <3>3. m # n
      BY <3>2
    <3>4. m \in warmup .. n - 1 /\ n > 0
      BY <1>1, <3>1, <3>3
    <3>5. undrained = (n - 1) % DrainEvery
      BY <2>1, <3>4 DEF DrainSound
    <3>6. ((n - 1) % DrainEvery) + 1 = n % DrainEvery
      BY <1>1, <3>2, <3>4, NextRemainder
    <3> QED BY <2>4, <3>5, <3>6
  <2> QED BY <1>3, <2>3, <2>4 DEF EndEvent
<1>4. ASSUME NEW w \in Warmups, StartRun(w) PROVE DrainSound'
  <2>1. n' = 0 /\ warmup' = w /\ w \in Nat
    BY <1>1, <1>4 DEF StartRun
  <2>2. warmup' .. n' - 1 = {}
    BY <2>1
  <2> QED BY <2>2 DEF DrainSound
<1>5. CASE EndRun
  BY <1>5 DEF EndRun, DrainSound
<1>6. CASE SeedOrder \/ SeedOrderDone \/ StudyOrderDone \/ Finished
  BY <1>2, <1>6 DEF SeedOrder, SeedOrderDone, StudyOrderDone, Finished, simVars
<1>7. CASE EngineGoesOn
  BY <1>2, <1>7 DEF EngineGoesOn, simVars
<1>8. ASSUME NEW kind, Begin(kind) PROVE DrainSound'
  BY <1>2, <1>8 DEF Begin
<1>9. ASSUME NEW qty \in StudySizes, StudyOrder(qty) PROVE DrainSound'
  BY <1>2, <1>9 DEF StudyOrder
<1> QED
  BY <1>3, <1>4, <1>5, <1>6, <1>7, <1>8, <1>9
  DEF SimNext, LimitOrder, MarketOrder, CancelEvent

(* The tape does not grow without bound: from the first drain on, which is  *)
(* at most DrainEvery events after the end of the warm-up, it is never      *)
(* older than DrainEvery events at the head of the loop.                    *)
THEOREM DrainCorrect == SimSpec => []TapeDrainedAfterWarmup
<1>1. SimInit => DrainSound
  BY DEF SimInit, DrainSound
<1>2. Grounded /\ DrainSound /\ [SimNext]_simulation => DrainSound'
  <2>1. Grounded /\ DrainSound /\ SimNext => DrainSound'
    BY DrainSoundNext
  <2>2. DrainSound /\ UNCHANGED simulation => DrainSound'
    BY DEF simulation, simVars, DrainSound
  <2> QED BY <2>1, <2>2
<1>3. Grounded /\ DrainSound => TapeDrainedAfterWarmup
  <2> SUFFICES ASSUME Grounded, DrainSound, phase = "head", n >= warmup + DrainEvery
               PROVE  undrained < DrainEvery
    BY DEF TapeDrainedAfterWarmup
  <2>1. n \in Nat /\ warmup \in Nat /\ DrainEvery \in Nat /\ DrainEvery > 0
    BY GroundedFacts, Sent
  <2>2. PICK m \in warmup .. warmup + DrainEvery - 1 : m % DrainEvery = 0
    BY <2>1, MultipleExists
  <2>3. m \in warmup .. n - 1
    BY <2>1, <2>2
  <2>4. n > 0 /\ undrained = (n - 1) % DrainEvery
    BY <2>2, <2>3 DEF DrainSound
  <2>5. n - 1 \in Int
    BY <2>1
  <2>6. (n - 1) % DrainEvery \in 0 .. DrainEvery - 1
    BY <2>1, <2>5, ModSplit
  <2> QED BY <2>1, <2>4, <2>6
<1> QED BY <1>1, <1>2, <1>3, SimGrounded, PTL DEF SimSpec, simulation
===============================================================================
