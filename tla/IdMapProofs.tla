------------------------------ MODULE IdMapProofs ------------------------------
(***************************************************************************)
(* Proofs about lob::IdMap: its searches end and find what is there, and   *)
(* it implements the abstract table, for every capacity, hash function and *)
(* set of keys.  The inductive invariant, MapSound, describes the table    *)
(* half way through erase() and grow() as well.                            *)
(***************************************************************************)
EXTENDS IdMap, CommonLemmas

(* The entries in use of table t, and the entry a probe for k starts from   *)
(* under the hash function m.                                               *)
UsedIn(t)       == {i \in DOMAIN t : t[i].key # NoKey}
HomeIn(m, t, k) == m[k] % Cap(t)

(* What table t holds but for the entries X.                                *)
Contents(t, X) == {t[i] : i \in UsedIn(t) \ X}

IsTable(t) == Cap(t) \in Nat \ {0} /\ t \in [0 .. Cap(t) - 1 -> Entry]

(* The chains of t but for those of the entries X, and one entry per key.   *)
Chained(m, t, i) ==
  LET h == HomeIn(m, t, t[i].key)
  IN \A j \in DOMAIN t : Distance(t, h, j) < Distance(t, h, i) => j \in UsedIn(t)

Chains(m, t, X) == \A i \in UsedIn(t) \ X : Chained(m, t, i)

Once(t, X) == \A i, j \in UsedIn(t) \ X : t[i].key = t[j].key => i = j

(* grow(): what is left to move has not been moved yet, and there is room   *)
(* for it, an entry of the old table being empty.                           *)
Moving(t, old, at) ==
  /\ IsTable(old) /\ Once(old, {}) /\ Cap(t) = 2 * Cap(old) /\ at \in 0 .. Cap(old)
  /\ \A i \in UsedIn(t), j \in UsedIn(old) : j >= at => t[i].key # old[j].key
  /\ Cardinality(UsedIn(t)) <= at
  /\ \E e \in DOMAIN old \ UsedIn(old) : e < at => Cardinality(UsedIn(t)) < at

(* erase(): between the hole o and the entry a that the scan has reached    *)
(* every entry is in use and at home behind the hole.                       *)
Scanned(m, t, o, a) ==
  \A i \in DOMAIN t :
    i # o /\ Distance(t, o, i) <= Distance(t, o, a) =>
      /\ i \in UsedIn(t)
      /\ HomeIn(m, t, t[i].key) # o
      /\ Distance(t, o, HomeIn(m, t, t[i].key)) <= Distance(t, o, i)

CallSound ==
  \/ op = Quiet
  \/ /\ op.kind = "grow"
     /\ op = [kind |-> "grow", old |-> op.old, at |-> op.at, key |-> op.key, val |-> op.val]
     /\ op.key \in Key /\ op.val \in Val
     /\ Moving(tab, op.old, op.at)
  \/ /\ op.kind = "shift"
     /\ op = [kind |-> "shift", hole |-> op.hole, at |-> op.at]
     /\ op.hole \in UsedIn(tab) /\ op.at \in DOMAIN tab
     /\ Scanned(mix, tab, op.hole, op.at)

(* The inductive invariant of the map.                                      *)
MapSound ==
  /\ mix \in [Key -> HashValue]
  /\ IsTable(tab)
  /\ size = Cardinality(UsedIn(tab)) /\ UsedIn(tab) # DOMAIN tab
  /\ Chains(mix, tab, Holes) /\ Once(tab, Holes)
  /\ CallSound
-------------------------------------------------------------------------------
(* Going round a table.                                                     *)

(* A remainder after at most one turn.                                      *)
LEMMA OneTurn ==
  ASSUME NEW n \in Nat, NEW r \in 0 .. n - 1
  PROVE  r % n = r /\ (r - n) % n = r /\ n % n = 0
<1>1. (n * 0 + r) % n = r /\ (n * (-1) + r) % n = r
  BY ModUnique
<1>2. (n * 1 + 0) % n = 0
  BY ModUnique
<1>3. n * 0 + r = r /\ n * (-1) + r = r - n /\ n * 1 + 0 = n
  OBVIOUS
<1> QED BY <1>1, <1>2, <1>3

(* Distance is a difference, or one turn more.                              *)
LEMMA CyclicDistance ==
  ASSUME NEW t, IsTable(t)
  PROVE  \A i, j \in DOMAIN t : Distance(t, i, j) = IF i <= j THEN j - i ELSE (j - i) + Cap(t)
<1> DEFINE n == Cap(t)
<1>1. n \in Nat \ {0} /\ DOMAIN t = 0 .. n - 1
  BY DEF IsTable
<1>2. ASSUME NEW i \in DOMAIN t, NEW j \in DOMAIN t
      PROVE  Distance(t, i, j) = IF i <= j THEN j - i ELSE (j - i) + n
  <2> DEFINE r == IF i <= j THEN j - i ELSE (j - i) + n
  <2>0. Distance(t, i, j) = (j - i) % n
    BY DEF Distance
  <2> HIDE DEF n
  <2>1. i \in 0 .. n - 1 /\ j \in 0 .. n - 1
    BY <1>1
  <2>2. r \in 0 .. n - 1 /\ (j - i = r \/ j - i = r - n)
    BY <1>1, <2>1
  <2> HIDE DEF r
  <2>3. r % n = r /\ (r - n) % n = r
    BY <1>1, <2>2, OneTurn
  <2>4. (j - i) % n = r
    BY <2>2, <2>3
  <2> QED BY <2>0, <2>4 DEF r
<1> QED BY <1>2

(* Entries at the same distance are the same.                               *)
LEMMA DistanceType ==
  ASSUME NEW t, IsTable(t)
  PROVE  \A i, j \in DOMAIN t : /\ Distance(t, i, j) \in Nat
                               /\ \A l \in DOMAIN t : Distance(t, i, j) = Distance(t, i, l) => j = l
<1>1. Cap(t) \in Nat /\ DOMAIN t = 0 .. Cap(t) - 1
  BY DEF IsTable
<1>2. \A i, j \in DOMAIN t : Distance(t, i, j) = IF i <= j THEN j - i ELSE (j - i) + Cap(t)
  BY CyclicDistance
<1>3. ASSUME NEW i \in DOMAIN t, NEW j \in DOMAIN t, NEW l \in DOMAIN t
      PROVE  /\ Distance(t, i, j) \in Nat
             /\ Distance(t, i, j) = Distance(t, i, l) => j = l
  <2>1. i \in 0 .. Cap(t) - 1 /\ j \in 0 .. Cap(t) - 1 /\ l \in 0 .. Cap(t) - 1
    BY <1>1
  <2>2. /\ Distance(t, i, j) = IF i <= j THEN j - i ELSE (j - i) + Cap(t)
        /\ Distance(t, i, l) = IF i <= l THEN l - i ELSE (l - i) + Cap(t)
    BY <1>2
  <2> QED BY <1>1, <2>1, <2>2
<1> QED BY <1>3

(* The entry after the last is the first.                                   *)
LEMMA NextEntry ==
  ASSUME NEW t, IsTable(t)
  PROVE  \A i \in DOMAIN t : After(t, i) = IF i + 1 = Cap(t) THEN 0 ELSE i + 1
<1> DEFINE n == Cap(t)
<1>1. n \in Nat \ {0} /\ DOMAIN t = 0 .. n - 1
  BY DEF IsTable
<1>2. ASSUME NEW i \in DOMAIN t PROVE After(t, i) = IF i + 1 = n THEN 0 ELSE i + 1
  <2> DEFINE r == i + 1
  <2>0. After(t, i) = r % n
    BY DEF After
  <2> HIDE DEF n
  <2>1. r = n \/ r \in 0 .. n - 1
    BY <1>1
  <2>2. 0 \in 0 .. n - 1
    BY <1>1
  <2> HIDE DEF r
  <2>3. r # n => r % n = r
    BY <1>1, <2>1, OneTurn
  <2>4. n % n = 0
    BY <1>1, <2>2, OneTurn
  <2> QED BY <2>0, <2>3, <2>4 DEF r
<1> QED BY <1>2

(* The home of a key is an entry of the table.                              *)
LEMMA HomeType ==
  ASSUME NEW t, IsTable(t), NEW m \in [Key -> HashValue], NEW k \in Key
  PROVE  HomeIn(m, t, k) \in DOMAIN t
<1>1. m[k] \in Nat /\ Cap(t) \in Nat \ {0} /\ DOMAIN t = 0 .. Cap(t) - 1
  BY CapAssumption DEF IsTable
<1>2. m[k] % Cap(t) \in 0 .. Cap(t) - 1
  BY <1>1, ModSplit
<1> QED BY <1>1, <1>2 DEF HomeIn

(* An entry in use holds one of the keys.                                   *)
LEMMA UsedEntry ==
  ASSUME NEW t, IsTable(t), NEW i \in UsedIn(t)
  PROVE  /\ i \in DOMAIN t /\ t[i] \in [key : Key, val : Val] /\ t[i].key \in Key
         /\ t[i] # Empty
<1>1. i \in DOMAIN t /\ t[i] \in Entry /\ t[i].key # NoKey
  BY DEF IsTable, UsedIn
<1>2. t[i] # Empty
  BY <1>1 DEF Empty
<1>3. t[i] \in [key : Key, val : Val]
  BY <1>1, <1>2 DEF Entry
<1> QED BY <1>1, <1>2, <1>3

(* The others are empty.                                                    *)
LEMMA UnusedEntry ==
  ASSUME NEW t, IsTable(t), NEW i \in DOMAIN t \ UsedIn(t)
  PROVE  t[i] = Empty /\ t[i].key = NoKey
<1>1. t[i] \in Entry /\ t[i].key = NoKey
  BY DEF IsTable, UsedIn
<1>2. ~ (t[i] \in [key : Key, val : Val])
  BY <1>1, KeyAssumption
<1> QED BY <1>1, <1>2 DEF Entry

(* There are no more entries in use than entries.                            *)
LEMMA UsedFinite ==
  ASSUME NEW t, IsTable(t)
  PROVE  IsFiniteSet(UsedIn(t)) /\ Cardinality(UsedIn(t)) \in 0 .. Cap(t)
<1>1. IsFiniteSet(DOMAIN t) /\ Cardinality(DOMAIN t) = Cap(t)
  <2>1. DOMAIN t = 0 .. Cap(t) - 1 /\ Cap(t) \in Nat
    BY DEF IsTable
  <2> QED BY <2>1, FS_Interval DEF Cap
<1>2. UsedIn(t) \in SUBSET DOMAIN t
  BY DEF UsedIn
<1> QED BY <1>1, <1>2, FS_Subset, FS_CardinalityType

(* A new table is empty.                                                     *)
LEMMA NewTableSound ==
  ASSUME NEW n \in Nat \ {0}
  PROVE  /\ IsTable(NewTable(n)) /\ Cap(NewTable(n)) = n
         /\ UsedIn(NewTable(n)) = {} /\ DOMAIN NewTable(n) # {}
<1>1. DOMAIN NewTable(n) = 0 .. n - 1 /\ \A i \in 0 .. n - 1 : NewTable(n)[i] = Empty
  BY DEF NewTable
<1>2. Cap(NewTable(n)) = n
  BY <1>1, FS_Interval DEF Cap
<1>3. NewTable(n) \in [0 .. n - 1 -> Entry]
  BY DEF NewTable, Entry
<1>4. UsedIn(NewTable(n)) = {}
  BY <1>1 DEF UsedIn, Empty
<1>5. 0 \in DOMAIN NewTable(n)
  BY <1>1
<1> QED BY <1>2, <1>3, <1>4, <1>5 DEF IsTable

(* Writing one entry.                                                       *)
LEMMA SetEntry ==
  ASSUME NEW t, IsTable(t), NEW i \in DOMAIN t, NEW e \in Entry
  PROVE  LET u == [t EXCEPT ![i] = e]
         IN /\ IsTable(u) /\ Cap(u) = Cap(t) /\ DOMAIN u = DOMAIN t
            /\ UsedIn(u) = IF e.key = NoKey THEN UsedIn(t) \ {i} ELSE UsedIn(t) \cup {i}
            /\ u[i] = e /\ \A j \in DOMAIN t : j # i => u[j] = t[j]
            /\ \A x, y : Distance(u, x, y) = Distance(t, x, y)
            /\ \A m, k : HomeIn(m, u, k) = HomeIn(m, t, k)
<1> DEFINE u == [t EXCEPT ![i] = e]
<1>1. DOMAIN u = DOMAIN t /\ u[i] = e /\ \A j \in DOMAIN t : j # i => u[j] = t[j]
  BY DEF IsTable
<1>2. Cap(u) = Cap(t)
  BY <1>1 DEF Cap
<1>3. u \in [0 .. Cap(t) - 1 -> Entry]
  BY DEF IsTable
<1>4. IsTable(u)
  <2> HIDE DEF u
  <2> QED BY <1>2, <1>3 DEF IsTable
<1> HIDE DEF u
<1>5. UsedIn(u) = IF e.key = NoKey THEN UsedIn(t) \ {i} ELSE UsedIn(t) \cup {i}
  BY <1>1 DEF UsedIn
<1>6. \A x, y : Distance(u, x, y) = Distance(t, x, y)
  BY <1>2 DEF Distance
<1>7. \A m, k : HomeIn(m, u, k) = HomeIn(m, t, k)
  BY <1>2 DEF HomeIn
<1>8. /\ IsTable(u) /\ Cap(u) = Cap(t) /\ DOMAIN u = DOMAIN t
      /\ UsedIn(u) = IF e.key = NoKey THEN UsedIn(t) \ {i} ELSE UsedIn(t) \cup {i}
      /\ u[i] = e /\ \A j \in DOMAIN t : j # i => u[j] = t[j]
      /\ \A x, y : Distance(u, x, y) = Distance(t, x, y)
      /\ \A m, k : HomeIn(m, u, k) = HomeIn(m, t, k)
  BY <1>1, <1>2, <1>4, <1>5, <1>6, <1>7
<1> QED BY <1>8 DEF u
-------------------------------------------------------------------------------
(* The search of insert(), find() and erase().                              *)

(* The places where a search for k may stop.                                *)
Stops(t, k) == {i \in DOMAIN t : t[i].key \in {k, NoKey}}

(* It ends, and passes no place to stop: one entry at least is empty.       *)
LEMMA ProbeSpec ==
  ASSUME NEW t, IsTable(t), mix \in [Key -> HashValue], UsedIn(t) # DOMAIN t, NEW k \in Key
  PROVE  LET h == HomeIn(mix, t, k)
         IN /\ h \in DOMAIN t /\ Probe(t, k) \in Stops(t, k)
            /\ \A j \in Stops(t, k) : Distance(t, h, Probe(t, k)) <= Distance(t, h, j)
<1> DEFINE h == HomeIn(mix, t, k)
           S == {d \in Nat : \E i \in Stops(t, k) : d = Distance(t, h, i)}
<1>1. h \in DOMAIN t
  BY HomeType
<1>2. \A i \in Stops(t, k) : i \in DOMAIN t
  BY DEF Stops
<1>3. \A i \in Stops(t, k) : Distance(t, h, i) \in Nat
  <2> HIDE DEF h
  <2> QED BY <1>1, <1>2, DistanceType
<1>4. PICK e \in DOMAIN t : ~ (e \in UsedIn(t))
  BY DEF UsedIn
<1>5. e \in Stops(t, k)
  BY <1>4 DEF UsedIn, Stops
<1>6. S \in SUBSET Nat /\ S # {}
  BY <1>3, <1>5
<1>7. PICK d \in S : \A x \in S : d <= x
  <2> HIDE DEF S
  <2> QED BY <1>6, LeastExists
<1>8. PICK i \in Stops(t, k) : d = Distance(t, h, i)
  BY <1>7
<1>9. \A j \in Stops(t, k) : Distance(t, h, i) <= Distance(t, h, j)
  BY <1>3, <1>7, <1>8
<1>10. Probe(t, k) = CHOOSE x \in Stops(t, k) :
                       \A j \in Stops(t, k) : Distance(t, h, x) <= Distance(t, h, j)
  BY DEF Probe, Stops, Home, HomeIn
<1> HIDE DEF h
<1>11. /\ Probe(t, k) \in Stops(t, k)
       /\ \A j \in Stops(t, k) : Distance(t, h, Probe(t, k)) <= Distance(t, h, j)
  BY <1>8, <1>9, <1>10
<1> QED BY <1>1, <1>11 DEF h

(* It finds k where it is.                                                  *)
LEMMA ProbeFinds ==
  ASSUME NEW t, IsTable(t), mix \in [Key -> HashValue], UsedIn(t) # DOMAIN t,
         Chains(mix, t, {}), Once(t, {}), NEW i \in UsedIn(t)
  PROVE  Probe(t, t[i].key) = i
<1> DEFINE k == t[i].key
           h == HomeIn(mix, t, k)
           p == Probe(t, k)
<1>1. k \in Key /\ i \in DOMAIN t
  BY UsedEntry
<1>2. /\ h \in DOMAIN t /\ p \in Stops(t, k)
      /\ \A j \in Stops(t, k) : Distance(t, h, p) <= Distance(t, h, j)
  BY <1>1, ProbeSpec
<1>3. \A j \in DOMAIN t : Distance(t, h, j) < Distance(t, h, i) => j \in UsedIn(t)
  BY DEF Chains, Chained
<1>4. i \in Stops(t, k) /\ p \in DOMAIN t
  BY <1>1, <1>2 DEF Stops
<1>5. p \in UsedIn(t) => p = i
  BY <1>2 DEF Once, Stops, UsedIn
<1> HIDE DEF p, h
<1>6. ASSUME p # i PROVE FALSE
  <2>1. Distance(t, h, p) < Distance(t, h, i)
    <3>1. Distance(t, h, p) # Distance(t, h, i)
      BY <1>1, <1>2, <1>4, <1>6, DistanceType
    <3>2. Distance(t, h, p) \in Nat /\ Distance(t, h, i) \in Nat
      BY <1>1, <1>2, <1>4, DistanceType
    <3>3. Distance(t, h, p) <= Distance(t, h, i)
      BY <1>2, <1>4
    <3> QED BY <3>1, <3>2, <3>3
  <2>2. p \in UsedIn(t)
    BY <2>1, <1>3, <1>4
  <2> QED BY <2>2, <1>5, <1>6
<1>7. p = i
  BY <1>6
<1> QED BY <1>7 DEF p

(* ... and reports an absent key at an empty entry.                         *)
LEMMA ProbeMisses ==
  ASSUME NEW t, IsTable(t), mix \in [Key -> HashValue], UsedIn(t) # DOMAIN t,
         NEW k \in Key, \A i \in UsedIn(t) : t[i].key # k
  PROVE  Probe(t, k) \in DOMAIN t \ UsedIn(t)
<1>1. Probe(t, k) \in Stops(t, k)
  BY ProbeSpec
<1> QED BY <1>1 DEF Stops, UsedIn

(* Writing k where the search for it stopped.                               *)
LEMMA PutSound ==
  ASSUME NEW t, IsTable(t), mix \in [Key -> HashValue], UsedIn(t) # DOMAIN t,
         Chains(mix, t, {}), Once(t, {}), NEW k \in Key, NEW v \in Val
  PROVE  LET p == Probe(t, k)
             u == [t EXCEPT ![p] = [key |-> k, val |-> v]]
         IN /\ IsTable(u) /\ Cap(u) = Cap(t) /\ DOMAIN u = DOMAIN t
            /\ Chains(mix, u, {}) /\ Once(u, {})
            /\ Cardinality(UsedIn(u)) =
                 IF t[p].key = k THEN Cardinality(UsedIn(t)) ELSE Cardinality(UsedIn(t)) + 1
            /\ Contents(u, {}) =
                 {e \in Contents(t, {}) : e.key # k} \cup {[key |-> k, val |-> v]}
<1> DEFINE p == Probe(t, k)
           h == HomeIn(mix, t, k)
           e == [key |-> k, val |-> v]
           u == [t EXCEPT ![p] = e]
<1>1. k \in Nat /\ k # NoKey /\ e \in Entry /\ e.key = k
  BY KeyAssumption DEF Entry
<1>2. /\ h \in DOMAIN t /\ p \in Stops(t, k)
      /\ \A j \in Stops(t, k) : Distance(t, h, p) <= Distance(t, h, j)
  BY ProbeSpec
<1>3. p \in DOMAIN t /\ t[p].key \in {k, NoKey}
  BY <1>2 DEF Stops
<1> HIDE DEF p, e
<1>4. /\ IsTable(u) /\ Cap(u) = Cap(t) /\ DOMAIN u = DOMAIN t
      /\ UsedIn(u) = IF e.key = NoKey THEN UsedIn(t) \ {p} ELSE UsedIn(t) \cup {p}
      /\ u[p] = e /\ \A j \in DOMAIN t : j # p => u[j] = t[j]
      /\ \A x, y : Distance(u, x, y) = Distance(t, x, y)
      /\ \A m, x : HomeIn(m, u, x) = HomeIn(m, t, x)
  BY <1>1, <1>3, SetEntry
<1> HIDE DEF u, h
<1>5. UsedIn(u) = UsedIn(t) \cup {p}
  BY <1>1, <1>4
<1>6. \A i \in UsedIn(t) : t[i].key = k => i = p
  BY ProbeFinds DEF p
<1>7. Chains(mix, u, {})
  <2> SUFFICES ASSUME NEW i \in UsedIn(u), NEW j \in DOMAIN u,
                      Distance(u, HomeIn(mix, u, u[i].key), j)
                        < Distance(u, HomeIn(mix, u, u[i].key), i)
               PROVE  j \in UsedIn(u)
    BY DEF Chains, Chained
  <2>1. CASE i = p
    <3>1. HomeIn(mix, u, u[i].key) = h
      BY <1>1, <1>4, <2>1 DEF h
    <3>2. Distance(t, h, j) < Distance(t, h, p) /\ j \in DOMAIN t
      BY <1>4, <2>1, <3>1
    <3>3. Distance(t, h, j) \in Int /\ Distance(t, h, p) \in Int
      BY <1>2, <1>3, <3>2, DistanceType
    <3>4. ~ (j \in Stops(t, k))
      BY <1>2, <3>2, <3>3
    <3> QED BY <3>2, <3>4, <1>5 DEF Stops, UsedIn
  <2>2. CASE i # p
    <3>1. i \in UsedIn(t) /\ i \in DOMAIN t
      BY <1>5, <2>2 DEF UsedIn
    <3>2. u[i] = t[i] /\ j \in DOMAIN t
      BY <1>4, <2>2, <3>1
    <3>3. Distance(t, HomeIn(mix, t, t[i].key), j) < Distance(t, HomeIn(mix, t, t[i].key), i)
      BY <3>2, <1>4
    <3>4. j \in UsedIn(t)
      BY <3>1, <3>2, <3>3 DEF Chains, Chained
    <3> QED BY <3>4, <1>5
  <2> QED BY <2>1, <2>2
<1>8. Once(u, {})
  <2> SUFFICES ASSUME NEW i \in UsedIn(u), NEW j \in UsedIn(u), u[i].key = u[j].key
               PROVE  i = j
    BY DEF Once
  <2>1. \A x \in UsedIn(u) : x = p \/ (x \in UsedIn(t) /\ u[x] = t[x])
    BY <1>4, <1>5 DEF UsedIn
  <2>2. CASE i # p /\ j # p
    BY <2>1, <2>2 DEF Once
  <2>3. CASE i = p \/ j = p
    BY <1>1, <1>4, <1>6, <2>1, <2>3
  <2> QED BY <2>2, <2>3
<1>9. Cardinality(UsedIn(u)) =
        IF t[p].key = k THEN Cardinality(UsedIn(t)) ELSE Cardinality(UsedIn(t)) + 1
  <2>1. p \in UsedIn(t) <=> t[p].key = k
    BY <1>1, <1>3 DEF UsedIn
  <2>2. IsFiniteSet(UsedIn(t))
    BY UsedFinite
  <2> QED BY <1>5, <2>1, <2>2, FS_AddElement
<1>10. Contents(u, {}) = {x \in Contents(t, {}) : x.key # k} \cup {e}
  <2>1. ASSUME NEW x \in Contents(u, {})
        PROVE  x \in {y \in Contents(t, {}) : y.key # k} \cup {e}
    <3>1. PICK i \in UsedIn(u) : x = u[i]
      BY DEF Contents
    <3>2. CASE i = p
      BY <1>4, <3>1, <3>2
    <3>3. CASE i # p
      <4>1. i \in UsedIn(t) /\ u[i] = t[i]
        BY <1>4, <1>5, <3>3 DEF UsedIn
      <4> QED BY <1>6, <3>1, <3>3, <4>1 DEF Contents
    <3> QED BY <3>2, <3>3
  <2>2. e \in Contents(u, {})
    BY <1>4, <1>5 DEF Contents
  <2>3. ASSUME NEW x \in Contents(t, {}), x.key # k PROVE x \in Contents(u, {})
    <3>1. PICK i \in UsedIn(t) : x = t[i]
      BY DEF Contents
    <3>2. i # p
      <4>1. t[i].key # NoKey
        BY DEF UsedIn
      <4> QED BY <4>1, <3>1, <2>3, <1>3
    <3>3. u[i] = t[i] /\ i \in UsedIn(u)
      BY <3>2, <1>4, <1>5 DEF UsedIn
    <3> QED BY <3>1, <3>3 DEF Contents
  <2> QED BY <2>1, <2>2, <2>3
<1>11. /\ IsTable(u) /\ Cap(u) = Cap(t) /\ DOMAIN u = DOMAIN t
       /\ Chains(mix, u, {}) /\ Once(u, {})
       /\ Cardinality(UsedIn(u)) =
            IF t[p].key = k THEN Cardinality(UsedIn(t)) ELSE Cardinality(UsedIn(t)) + 1
       /\ Contents(u, {}) = {x \in Contents(t, {}) : x.key # k} \cup {e}
  BY <1>4, <1>7, <1>8, <1>9, <1>10
<1> QED BY <1>11 DEF u, e, p
-------------------------------------------------------------------------------
(* The scan of erase().                                                     *)

(* The scan goes one entry further and does not come back to the hole: it   *)
(* meets an empty entry first.                                              *)
LEMMA ScanAdvances ==
  ASSUME NEW t, IsTable(t), UsedIn(t) # DOMAIN t, NEW o \in UsedIn(t), NEW a \in DOMAIN t,
         Scanned(mix, t, o, a)
  PROVE  LET j == After(t, a)
         IN /\ j \in DOMAIN t /\ j # o /\ Distance(t, o, j) = Distance(t, o, a) + 1
            /\ \A i \in DOMAIN t : Distance(t, o, i) <= Distance(t, o, j)
                                     => i = j \/ Distance(t, o, i) <= Distance(t, o, a)
<1> DEFINE n == Cap(t)
           j == After(t, a)
<1>1. n \in Nat /\ DOMAIN t = 0 .. n - 1
  BY DEF IsTable
<1>2. \A x, y \in DOMAIN t : Distance(t, x, y) = IF x <= y THEN y - x ELSE (y - x) + n
  BY CyclicDistance
<1>3. j = IF a + 1 = n THEN 0 ELSE a + 1
  BY NextEntry
<1>4. o \in DOMAIN t
  BY DEF UsedIn
<1> HIDE DEF n, j
<1>5. j \in DOMAIN t
  BY <1>1, <1>3
<1>6. PICK e \in DOMAIN t : ~ (e \in UsedIn(t))
  BY DEF UsedIn
<1>7. Distance(t, o, a) < Distance(t, o, e)
  <2>1. e # o
    BY <1>6
  <2>2. ~ (Distance(t, o, e) <= Distance(t, o, a))
    BY <1>6, <2>1 DEF Scanned
  <2>3. Distance(t, o, e) \in Nat /\ Distance(t, o, a) \in Nat
    BY <1>4, DistanceType
  <2> QED BY <2>2, <2>3
<1>8. /\ Distance(t, o, a) = IF o <= a THEN a - o ELSE (a - o) + n
      /\ Distance(t, o, e) = IF o <= e THEN e - o ELSE (e - o) + n
      /\ Distance(t, o, j) = IF o <= j THEN j - o ELSE (j - o) + n
  BY <1>2, <1>4, <1>5
<1>9. j # o /\ Distance(t, o, j) = Distance(t, o, a) + 1
  <2>1. o \in 0 .. n - 1 /\ a \in 0 .. n - 1 /\ e \in 0 .. n - 1
    BY <1>1, <1>4
  <2> QED BY <1>1, <1>3, <1>7, <1>8, <2>1
<1>10. ASSUME NEW i \in DOMAIN t, Distance(t, o, i) <= Distance(t, o, j),
              ~ (Distance(t, o, i) <= Distance(t, o, a))
       PROVE  i = j
  <2>1. Distance(t, o, i) \in Nat /\ Distance(t, o, a) \in Nat
    BY <1>4, DistanceType
  <2>2. Distance(t, o, i) = Distance(t, o, j)
    BY <2>1, <1>9, <1>10
  <2> QED BY <2>2, <1>4, <1>5, DistanceType
<1>11. /\ j \in DOMAIN t /\ j # o /\ Distance(t, o, j) = Distance(t, o, a) + 1
       /\ \A i \in DOMAIN t : Distance(t, o, i) <= Distance(t, o, j)
                                => i = j \/ Distance(t, o, i) <= Distance(t, o, a)
  BY <1>5, <1>9, <1>10
<1> QED BY <1>11 DEF j

(* InPlace says that the home is behind the hole on the way to the entry.   *)
LEMMA InPlaceBehind ==
  ASSUME NEW t, IsTable(t), NEW o \in DOMAIN t, NEW j \in DOMAIN t, j # o, NEW g \in DOMAIN t
  PROVE  /\ InPlace(g, o, j) <=> (g # o /\ Distance(t, o, g) <= Distance(t, o, j))
         /\ ~ InPlace(g, o, j) => Distance(t, g, o) <= Distance(t, g, j)
<1> DEFINE n == Cap(t)
<1>1. n \in Nat /\ DOMAIN t = 0 .. n - 1
  BY DEF IsTable
<1>2. \A x, y \in DOMAIN t : Distance(t, x, y) = IF x <= y THEN y - x ELSE (y - x) + n
  BY CyclicDistance
<1> HIDE DEF n
<1>3. /\ Distance(t, o, g) = IF o <= g THEN g - o ELSE (g - o) + n
      /\ Distance(t, o, j) = IF o <= j THEN j - o ELSE (j - o) + n
      /\ Distance(t, g, o) = IF g <= o THEN o - g ELSE (o - g) + n
      /\ Distance(t, g, j) = IF g <= j THEN j - g ELSE (j - g) + n
  BY <1>2
<1>4. o \in 0 .. n - 1 /\ j \in 0 .. n - 1 /\ g \in 0 .. n - 1
  BY <1>1
<1> QED BY <1>1, <1>3, <1>4 DEF InPlace

(* An entry at home behind the hole is not reached through it, and one that *)
(* is reached through the hole is reached through what follows the hole.    *)
LEMMA ThroughTheHole ==
  ASSUME NEW t, IsTable(t), NEW o \in DOMAIN t, NEW i \in DOMAIN t, NEW g \in DOMAIN t,
         Distance(t, g, o) < Distance(t, g, i)
  PROVE  /\ ~ (g # o /\ Distance(t, o, g) <= Distance(t, o, i))
         /\ \A b \in DOMAIN t : Distance(t, o, b) < Distance(t, o, i)
                                  => Distance(t, g, b) < Distance(t, g, i)
<1> DEFINE n == Cap(t)
<1>1. n \in Nat /\ DOMAIN t = 0 .. n - 1
  BY DEF IsTable
<1>2. \A x, y \in DOMAIN t : Distance(t, x, y) = IF x <= y THEN y - x ELSE (y - x) + n
  BY CyclicDistance
<1> HIDE DEF n
<1>3. /\ Distance(t, o, g) = IF o <= g THEN g - o ELSE (g - o) + n
      /\ Distance(t, o, i) = IF o <= i THEN i - o ELSE (i - o) + n
      /\ Distance(t, g, o) = IF g <= o THEN o - g ELSE (o - g) + n
      /\ Distance(t, g, i) = IF g <= i THEN i - g ELSE (i - g) + n
  BY <1>2
<1>4. o \in 0 .. n - 1 /\ i \in 0 .. n - 1 /\ g \in 0 .. n - 1
  BY <1>1
<1>5. ~ (g # o /\ Distance(t, o, g) <= Distance(t, o, i))
  BY <1>1, <1>3, <1>4
<1>6. ASSUME NEW b \in DOMAIN t, Distance(t, o, b) < Distance(t, o, i)
      PROVE  Distance(t, g, b) < Distance(t, g, i)
  <2>1. /\ Distance(t, o, b) = IF o <= b THEN b - o ELSE (b - o) + n
        /\ Distance(t, g, b) = IF g <= b THEN b - g ELSE (b - g) + n
    BY <1>2
  <2>2. b \in 0 .. n - 1
    BY <1>1
  <2> QED BY <1>1, <1>3, <1>4, <1>6, <2>1, <2>2
<1> QED BY <1>5, <1>6

(* An entry whose probes pass the hole moves there.                         *)
LEMMA MoveSound ==
  ASSUME NEW t, IsTable(t), mix \in [Key -> HashValue], UsedIn(t) # DOMAIN t,
         NEW o \in UsedIn(t), NEW j \in UsedIn(t), j # o,
         Chains(mix, t, {o}), Once(t, {o}), ~ InPlace(HomeIn(mix, t, t[j].key), o, j)
  PROVE  LET u == [t EXCEPT ![o] = t[j]]
         IN /\ IsTable(u) /\ UsedIn(u) = UsedIn(t) /\ DOMAIN u = DOMAIN t
            /\ Chains(mix, u, {j}) /\ Once(u, {j}) /\ Contents(u, {j}) = Contents(t, {o})
            /\ Distance(u, j, j) = 0
<1> DEFINE u == [t EXCEPT ![o] = t[j]]
           g == HomeIn(mix, t, t[j].key)
<1>1. o \in DOMAIN t /\ j \in DOMAIN t /\ t[j].key \in Key /\ t[j].key # NoKey
  BY UsedEntry DEF UsedIn
<1>2. t[j] \in Entry
  BY <1>1 DEF IsTable
<1>3. g \in DOMAIN t
  BY <1>1, HomeType
<1>4. /\ IsTable(u) /\ Cap(u) = Cap(t) /\ DOMAIN u = DOMAIN t
      /\ UsedIn(u) = IF t[j].key = NoKey THEN UsedIn(t) \ {o} ELSE UsedIn(t) \cup {o}
      /\ u[o] = t[j] /\ \A x \in DOMAIN t : x # o => u[x] = t[x]
      /\ \A x, y : Distance(u, x, y) = Distance(t, x, y)
      /\ \A m, x : HomeIn(m, u, x) = HomeIn(m, t, x)
  BY <1>1, <1>2, SetEntry
<1> HIDE DEF u
<1>5. UsedIn(u) = UsedIn(t)
  BY <1>1, <1>4
<1>6. \A x \in UsedIn(t) : x \in DOMAIN t
  BY DEF UsedIn
<1>7. Chains(mix, u, {j})
  <2> SUFFICES ASSUME NEW i \in UsedIn(u) \ {j}, NEW x \in DOMAIN u,
                      Distance(u, HomeIn(mix, u, u[i].key), x)
                        < Distance(u, HomeIn(mix, u, u[i].key), i)
               PROVE  x \in UsedIn(u)
    BY DEF Chains, Chained
  <2>1. i \in UsedIn(t) /\ i \in DOMAIN t /\ x \in DOMAIN t
    BY <1>4, <1>5, <1>6
  <2>2. ASSUME i = o PROVE x \in UsedIn(t)
    <3>1. Distance(t, g, x) < Distance(t, g, o)
      BY <1>4, <2>2
    <3>2. Distance(t, g, o) <= Distance(t, g, j)
      BY <1>1, <1>3, InPlaceBehind
    <3>3. Distance(t, g, x) \in Nat /\ Distance(t, g, o) \in Nat /\ Distance(t, g, j) \in Nat
      BY <1>1, <1>3, <2>1, DistanceType
    <3>4. Distance(t, g, x) < Distance(t, g, j)
      BY <3>1, <3>2, <3>3
    <3> QED BY <3>4, <2>1 DEF Chains, Chained
  <2>3. ASSUME i # o PROVE x \in UsedIn(t)
    <3>1. Distance(t, HomeIn(mix, t, t[i].key), x) < Distance(t, HomeIn(mix, t, t[i].key), i)
      BY <1>4, <2>1, <2>3
    <3> QED BY <3>1, <2>1, <2>3 DEF Chains, Chained
  <2> QED BY <2>2, <2>3, <1>5
<1>8. Once(u, {j})
  <2> SUFFICES ASSUME NEW x \in UsedIn(u) \ {j}, NEW y \in UsedIn(u) \ {j}, u[x].key = u[y].key
               PROVE  x = y
    BY DEF Once
  <2>1. \A z \in UsedIn(t) \ {o} : u[z] = t[z]
    BY <1>4, <1>6
  <2>2. \A z \in UsedIn(t) \ {o} : t[z].key = t[j].key => z = j
    BY DEF Once
  <2>3. x # o /\ y # o => x = y
    BY <1>5, <2>1 DEF Once
  <2> QED BY <1>4, <1>5, <2>1, <2>2, <2>3
<1>9. Contents(u, {j}) = Contents(t, {o})
  <2>1. ASSUME NEW e \in Contents(u, {j}) PROVE e \in Contents(t, {o})
    <3>1. PICK i \in UsedIn(t) \ {j} : e = u[i]
      BY <1>5 DEF Contents
    <3>2. \E z \in UsedIn(t) \ {o} : e = t[z]
      BY <1>4, <1>6, <3>1
    <3> QED BY <3>2 DEF Contents
  <2>2. ASSUME NEW e \in Contents(t, {o}) PROVE e \in Contents(u, {j})
    <3>1. PICK i \in UsedIn(t) \ {o} : e = t[i]
      BY DEF Contents
    <3>2. \E z \in UsedIn(u) \ {j} : e = u[z]
      BY <1>4, <1>5, <1>6, <3>1
    <3> QED BY <3>2 DEF Contents
  <2> QED BY <2>1, <2>2
<1>10. Distance(u, j, j) = 0
  <2>1. j \in Int
    BY <1>1 DEF IsTable
  <2>2. Distance(t, j, j) = j - j
    BY <1>1, <2>1, CyclicDistance
  <2> QED BY <1>4, <2>1, <2>2
<1>11. /\ IsTable(u) /\ UsedIn(u) = UsedIn(t) /\ DOMAIN u = DOMAIN t
       /\ Chains(mix, u, {j}) /\ Once(u, {j}) /\ Contents(u, {j}) = Contents(t, {o})
       /\ Distance(u, j, j) = 0
  BY <1>4, <1>5, <1>7, <1>8, <1>9, <1>10
<1> QED BY <1>11 DEF u

(* The hole may be emptied when the scan has met an empty entry.            *)
LEMMA EmptySound ==
  ASSUME NEW t, IsTable(t), mix \in [Key -> HashValue], UsedIn(t) # DOMAIN t,
         NEW o \in UsedIn(t), NEW a \in DOMAIN t, Scanned(mix, t, o, a),
         Chains(mix, t, {o}), Once(t, {o}), t[After(t, a)].key = NoKey
  PROVE  LET u == [t EXCEPT ![o] = Empty]
         IN /\ IsTable(u) /\ UsedIn(u) = UsedIn(t) \ {o} /\ DOMAIN u = DOMAIN t
            /\ Chains(mix, u, {}) /\ Once(u, {}) /\ Contents(u, {}) = Contents(t, {o})
            /\ Cardinality(UsedIn(u)) = Cardinality(UsedIn(t)) - 1
<1> DEFINE u == [t EXCEPT ![o] = Empty]
           b == After(t, a)
<1>1. o \in DOMAIN t
  BY DEF UsedIn
<1>2. Empty \in Entry /\ Empty.key = NoKey
  BY DEF Entry, Empty
<1>3. /\ IsTable(u) /\ Cap(u) = Cap(t) /\ DOMAIN u = DOMAIN t
      /\ UsedIn(u) = IF Empty.key = NoKey THEN UsedIn(t) \ {o} ELSE UsedIn(t) \cup {o}
      /\ u[o] = Empty /\ \A x \in DOMAIN t : x # o => u[x] = t[x]
      /\ \A x, y : Distance(u, x, y) = Distance(t, x, y)
      /\ \A m, x : HomeIn(m, u, x) = HomeIn(m, t, x)
  BY <1>1, <1>2, SetEntry
<1>4. /\ b \in DOMAIN t /\ b # o /\ Distance(t, o, b) = Distance(t, o, a) + 1
      /\ \A i \in DOMAIN t : Distance(t, o, i) <= Distance(t, o, b)
                               => i = b \/ Distance(t, o, i) <= Distance(t, o, a)
  BY ScanAdvances
<1>5. ~ (b \in UsedIn(t))
  BY DEF UsedIn
<1> HIDE DEF u, b
<1>6. UsedIn(u) = UsedIn(t) \ {o}
  BY <1>2, <1>3
<1>7. \A x \in UsedIn(t) \ {o} : x \in DOMAIN t /\ u[x] = t[x]
  BY <1>3 DEF UsedIn
<1>8. Chains(mix, u, {})
  <2> SUFFICES ASSUME NEW i \in UsedIn(u), NEW x \in DOMAIN u,
                      Distance(u, HomeIn(mix, u, u[i].key), x)
                        < Distance(u, HomeIn(mix, u, u[i].key), i)
               PROVE  x \in UsedIn(u)
    BY DEF Chains, Chained
  <2> DEFINE g == HomeIn(mix, t, t[i].key)
  <2>1. i \in UsedIn(t) \ {o} /\ i \in DOMAIN t /\ u[i] = t[i] /\ x \in DOMAIN t
    BY <1>3, <1>6, <1>7
  <2>2. Distance(t, g, x) < Distance(t, g, i)
    BY <1>3, <2>1
  <2>3. g \in DOMAIN t
    BY <2>1, UsedEntry, HomeType
  <2>4. \A y \in DOMAIN t : Distance(t, g, y) < Distance(t, g, i) => y \in UsedIn(t)
    BY <2>1 DEF Chains, Chained
  <2>5. Distance(t, o, i) <= Distance(t, o, a)
          => g # o /\ Distance(t, o, g) <= Distance(t, o, i)
    BY <2>1 DEF Scanned
  <2> HIDE DEF g
  <2>6. ASSUME x = o PROVE FALSE
    <3>1. Distance(t, g, o) < Distance(t, g, i)
      BY <2>2, <2>6
    <3>2. /\ ~ (g # o /\ Distance(t, o, g) <= Distance(t, o, i))
          /\ \A y \in DOMAIN t : Distance(t, o, y) < Distance(t, o, i)
                                   => Distance(t, g, y) < Distance(t, g, i)
      BY <1>1, <2>1, <2>3, <3>1, ThroughTheHole
    <3>3. ~ (Distance(t, o, i) <= Distance(t, o, a))
      BY <2>5, <3>2
    <3>4. ~ (Distance(t, o, b) < Distance(t, o, i))
      BY <1>4, <1>5, <2>4, <3>2
    <3>5. i # b
      BY <1>5, <2>1
    <3>6. Distance(t, o, i) \in Nat /\ Distance(t, o, b) \in Nat
      BY <1>1, <1>4, <2>1, DistanceType
    <3> QED BY <1>4, <2>1, <3>3, <3>4, <3>5, <3>6
  <2>7. x \in UsedIn(t)
    BY <2>1, <2>2, <2>4
  <2> QED BY <2>6, <2>7, <1>6
<1>9. Once(u, {})
  BY <1>6, <1>7 DEF Once
<1>10. Contents(u, {}) = Contents(t, {o})
  BY <1>6, <1>7 DEF Contents
<1>11. Cardinality(UsedIn(u)) = Cardinality(UsedIn(t)) - 1
  BY <1>6, UsedFinite, FS_RemoveElement
<1>12. /\ IsTable(u) /\ UsedIn(u) = UsedIn(t) \ {o} /\ DOMAIN u = DOMAIN t
       /\ Chains(mix, u, {}) /\ Once(u, {}) /\ Contents(u, {}) = Contents(t, {o})
       /\ Cardinality(UsedIn(u)) = Cardinality(UsedIn(t)) - 1
  BY <1>3, <1>6, <1>8, <1>9, <1>10, <1>11
<1> QED BY <1>12 DEF u
-------------------------------------------------------------------------------
(* Every step keeps the invariant, and is a step of the abstract table.     *)

(* Between calls nothing is on its way.                                     *)
LEMMA AtRest ==
  ASSUME MapSound, op = Quiet
  PROVE  Holes = {} /\ Chains(mix, tab, {}) /\ Once(tab, {}) /\ Held = Contents(tab, {})
<1>1. op.kind = "none"
  BY DEF Quiet
<1>2. Holes = {}
  BY <1>1 DEF Holes
<1>3. Held = Contents(tab, {})
  BY <1>1, <1>2 DEF Held, Contents, Used, UsedIn
<1> QED BY <1>2, <1>3 DEF MapSound

(* A call returns ...                                                       *)
LEMMA Returns ==
  ASSUME MapSound, mix' = mix, IsTable(tab'), op' = Quiet,
         size' = Cardinality(UsedIn(tab')), UsedIn(tab') # DOMAIN tab',
         Chains(mix, tab', {}), Once(tab', {})
  PROVE  MapSound' /\ Held' = Contents(tab', {})
<1>1. op'.kind = "none"
  BY DEF Quiet
<1>2. Holes' = {}
  BY <1>1 DEF Holes
<1>3. Held' = Contents(tab', {})
  BY <1>1, <1>2 DEF Held, Contents, Used, UsedIn
<1>4. mix' \in [Key -> HashValue]
  BY DEF MapSound
<1>5. CallSound'
  BY DEF CallSound, Quiet
<1>6. Chains(mix', tab', Holes') /\ Once(tab', Holes')
  BY <1>2
<1> QED BY <1>3, <1>4, <1>5, <1>6 DEF MapSound

(* ... or goes on with an erasure ...                                       *)
LEMMA Erasing ==
  ASSUME MapSound, mix' = mix, IsTable(tab'),
         NEW o \in UsedIn(tab'), NEW a \in DOMAIN tab',
         op' = [kind |-> "shift", hole |-> o, at |-> a],
         size' = Cardinality(UsedIn(tab')), UsedIn(tab') # DOMAIN tab',
         Chains(mix, tab', {o}), Once(tab', {o}), Scanned(mix, tab', o, a)
  PROVE  MapSound' /\ Held' = Contents(tab', {o})
<1>1. op'.kind = "shift" /\ op'.hole = o /\ op'.at = a
  OBVIOUS
<1>2. Holes' = {o}
  BY <1>1 DEF Holes
<1>3. Held' = Contents(tab', {o})
  BY <1>1, <1>2 DEF Held, Contents, Used, UsedIn
<1>4. mix' \in [Key -> HashValue]
  BY DEF MapSound
<1>5. CallSound'
  BY <1>1 DEF CallSound
<1>6. Chains(mix', tab', Holes') /\ Once(tab', Holes')
  BY <1>2
<1> QED BY <1>3, <1>4, <1>5, <1>6 DEF MapSound

(* The entries grow() has still to move.                                    *)
Waiting(old, at) == {old[i] : i \in at .. Cap(old) - 1} \ {Empty}

(* ... or with the growing of the table.                                    *)
LEMMA Growing ==
  ASSUME MapSound, mix' = mix, IsTable(tab'),
         NEW old, NEW at, NEW k \in Key, NEW v \in Val,
         op' = [kind |-> "grow", old |-> old, at |-> at, key |-> k, val |-> v],
         size' = Cardinality(UsedIn(tab')), UsedIn(tab') # DOMAIN tab',
         Chains(mix, tab', {}), Once(tab', {}), Moving(tab', old, at)
  PROVE  MapSound' /\ Held' = Contents(tab', {}) \cup Waiting(old, at)
<1>1. /\ op'.kind = "grow" /\ op'.old = old /\ op'.at = at
      /\ op'.key = k /\ op'.val = v
  OBVIOUS
<1>2. Holes' = {}
  BY <1>1 DEF Holes
<1>3. Held' = Contents(tab', {}) \cup Waiting(old, at)
  BY <1>1, <1>2 DEF Held, Contents, Used, UsedIn, Waiting
<1>4. mix' \in [Key -> HashValue]
  BY DEF MapSound
<1>5. CallSound'
  BY <1>1 DEF CallSound
<1>6. Chains(mix', tab', Holes') /\ Once(tab', Holes')
  BY <1>2
<1> QED BY <1>3, <1>4, <1>5, <1>6 DEF MapSound

(* The map starts sound, and empty.                                          *)
LEMMA InitSound ==
  ASSUME Init PROVE MapSound /\ Held = {}
<1>1. /\ IsTable(tab) /\ UsedIn(tab) = {} /\ DOMAIN tab # {} /\ op = Quiet /\ size = 0
      /\ mix \in [Key -> HashValue]
  BY NewTableSound, CapAssumption DEF Init
<1>2. Cardinality(UsedIn(tab)) = 0
  BY <1>1, FS_EmptySet
<1>3. Chains(mix, tab, Holes) /\ Once(tab, Holes)
  BY <1>1 DEF Chains, Once
<1>4. MapSound
  BY <1>1, <1>2, <1>3 DEF MapSound, CallSound
<1>5. Contents(tab, {}) = {}
  BY <1>1 DEF Contents
<1> QED BY <1>1, <1>4, <1>5, AtRest

(* Writing an entry that is known to fit.                                   *)
LEMMA PutFits ==
  ASSUME MapSound, Chains(mix, tab, {}), Once(tab, {}), NEW k \in Key, NEW v \in Val,
         Put(k, v), size + 1 < Cap(tab)
  PROVE  /\ IsTable(tab') /\ Cap(tab') = Cap(tab)
         /\ size' = Cardinality(UsedIn(tab')) /\ UsedIn(tab') # DOMAIN tab' /\ size' <= size + 1
         /\ Chains(mix, tab', {}) /\ Once(tab', {})
         /\ Contents(tab', {}) =
              {e \in Contents(tab, {}) : e.key # k} \cup {[key |-> k, val |-> v]}
<1> DEFINE p == Probe(tab, k)
           u == [tab EXCEPT ![p] = [key |-> k, val |-> v]]
<1>1. /\ mix \in [Key -> HashValue] /\ IsTable(tab) /\ UsedIn(tab) # DOMAIN tab
      /\ size = Cardinality(UsedIn(tab))
  BY DEF MapSound
<1>2. /\ IsTable(u) /\ Cap(u) = Cap(tab) /\ DOMAIN u = DOMAIN tab
      /\ Chains(mix, u, {}) /\ Once(u, {})
      /\ Cardinality(UsedIn(u)) =
           IF tab[p].key = k THEN Cardinality(UsedIn(tab)) ELSE Cardinality(UsedIn(tab)) + 1
      /\ Contents(u, {}) =
           {e \in Contents(tab, {}) : e.key # k} \cup {[key |-> k, val |-> v]}
  BY <1>1, PutSound
<1>3. tab' = u /\ size' = IF tab[p].key = k THEN size ELSE size + 1
  BY DEF Put
<1> HIDE DEF u, p
<1>4. size' = Cardinality(UsedIn(tab'))
  BY <1>1, <1>2, <1>3
<1>5. size \in Nat
  BY <1>1, UsedFinite
<1>6. UsedIn(tab') # DOMAIN tab'
  <2>1. Cardinality(DOMAIN tab') = Cap(tab)
    BY <1>2, <1>3 DEF Cap
  <2>2. Cardinality(UsedIn(tab')) < Cap(tab) \/ Cardinality(UsedIn(tab')) # Cap(tab)
    <3>1. Cap(tab) \in Nat
      BY <1>1 DEF IsTable
    <3> QED BY <3>1, <1>3, <1>4, <1>5
  <2>3. Cap(tab) \in Nat /\ Cardinality(UsedIn(tab')) \in Nat
    <3>1. Cap(tab) \in Nat
      BY <1>1 DEF IsTable
    <3> QED BY <3>1, <1>3, <1>4, <1>5
  <2>4. Cardinality(UsedIn(tab')) # Cap(tab)
    BY <2>2, <2>3
  <2> QED BY <2>1, <2>4
<1> QED BY <1>2, <1>3, <1>4, <1>5, <1>6

(* insert() without growth.                                                  *)
LEMMA InsertSound ==
  ASSUME MapSound, NEW k \in Key, NEW v \in Val, Insert(k, v)
  PROVE  MapSound' /\ Table!Insert(k, v)
<1>1. op = Quiet /\ op' = op /\ mix' = mix /\ Put(k, v) /\ ~ MustGrow
  BY DEF Insert
<1>2. Chains(mix, tab, {}) /\ Once(tab, {}) /\ Held = Contents(tab, {})
  BY <1>1, AtRest
<1>3. size + 1 < Cap(tab)
  <2>1. size \in Nat
    BY UsedFinite DEF MapSound
  <2>2. Cap(tab) \in Nat
    BY DEF MapSound, IsTable
  <2>3. ~ ((size + 1) * 10 >= Cap(tab) * 7)
    BY <1>1 DEF MustGrow
  <2> QED BY <2>1, <2>2, <2>3
<1>4. /\ IsTable(tab') /\ size' = Cardinality(UsedIn(tab')) /\ UsedIn(tab') # DOMAIN tab'
      /\ Chains(mix, tab', {}) /\ Once(tab', {})
      /\ Contents(tab', {}) =
           {e \in Contents(tab, {}) : e.key # k} \cup {[key |-> k, val |-> v]}
  BY <1>1, <1>2, <1>3, PutFits
<1>5. MapSound' /\ Held' = Contents(tab', {})
  BY <1>1, <1>4, Returns
<1>6. Held' = {e \in Held : e.key # k} \cup {[key |-> k, val |-> v]}
  BY <1>2, <1>4, <1>5
<1> QED BY <1>5, <1>6 DEF Table!Insert, Table!Others

(* insert() that must grow: what the old table holds waits to be moved.      *)
LEMMA InsertGrowingSound ==
  ASSUME MapSound, NEW k \in Key, NEW v \in Val, InsertGrowing(k, v)
  PROVE  MapSound' /\ Held' = Held
<1>1. /\ op = Quiet /\ mix' = mix /\ tab' = NewTable(2 * Cap(tab)) /\ size' = 0
      /\ op' = [kind |-> "grow", old |-> tab, at |-> 0, key |-> k, val |-> v]
  BY DEF InsertGrowing
<1>2. Once(tab, {}) /\ Held = Contents(tab, {})
  BY <1>1, AtRest
<1>3. IsTable(tab) /\ UsedIn(tab) # DOMAIN tab /\ Cap(tab) \in Nat \ {0}
  BY DEF MapSound, IsTable
<1>4. 2 * Cap(tab) \in Nat \ {0}
  BY <1>3
<1>5. IsTable(tab') /\ Cap(tab') = 2 * Cap(tab) /\ UsedIn(tab') = {} /\ DOMAIN tab' # {}
  BY <1>1, <1>4, NewTableSound
<1>6. Cardinality(UsedIn(tab')) = 0
  BY <1>5, FS_EmptySet
<1>7. Chains(mix, tab', {}) /\ Once(tab', {})
  BY <1>5 DEF Chains, Once
<1>8. Moving(tab', tab, 0)
  <2>1. PICK e \in DOMAIN tab \ UsedIn(tab) : TRUE
    BY <1>3 DEF UsedIn
  <2>2. ~ (e < 0) /\ 0 \in 0 .. Cap(tab)
    BY <1>3 DEF IsTable
  <2> QED BY <2>1, <2>2, <1>2, <1>3, <1>5, <1>6 DEF Moving
<1>9. MapSound' /\ Held' = Contents(tab', {}) \cup Waiting(tab, 0)
  BY <1>1, <1>5, <1>6, <1>7, <1>8, Growing
<1>10. Contents(tab', {}) = {}
  BY <1>5 DEF Contents
<1>11. Waiting(tab, 0) = Contents(tab, {})
  <2>1. DOMAIN tab = 0 .. Cap(tab) - 1
    BY <1>3 DEF IsTable
  <2>2. \A i \in DOMAIN tab : tab[i] # Empty <=> i \in UsedIn(tab)
    BY <1>3, UsedEntry, UnusedEntry
  <2>3. \A i \in UsedIn(tab) : i \in DOMAIN tab
    BY DEF UsedIn
  <2> QED BY <2>1, <2>2, <2>3 DEF Waiting, Contents
<1> QED BY <1>2, <1>9, <1>10, <1>11

(* What the invariant says of a grow() under way.                           *)
LEMMA WhileGrowing ==
  ASSUME MapSound, op.kind = "grow"
  PROVE  /\ op = [kind |-> "grow", old |-> op.old, at |-> op.at, key |-> op.key, val |-> op.val]
         /\ op.key \in Key /\ op.val \in Val /\ Moving(tab, op.old, op.at)
         /\ Holes = {} /\ Chains(mix, tab, {}) /\ Once(tab, {})
         /\ Held = Contents(tab, {}) \cup Waiting(op.old, op.at)
<1>1. /\ op = [kind |-> "grow", old |-> op.old, at |-> op.at, key |-> op.key, val |-> op.val]
      /\ op.key \in Key /\ op.val \in Val /\ Moving(tab, op.old, op.at)
  BY DEF MapSound, CallSound, Quiet
<1>2. Holes = {}
  BY DEF Holes
<1>3. Held = Contents(tab, {}) \cup Waiting(op.old, op.at)
  BY <1>2 DEF Held, Contents, Used, UsedIn, Waiting
<1>4. Chains(mix, tab, {}) /\ Once(tab, {})
  BY <1>2 DEF MapSound
<1> QED BY <1>1, <1>2, <1>3, <1>4

(* ... and of an erase().                                                   *)
LEMMA WhileErasing ==
  ASSUME MapSound, op.kind = "shift"
  PROVE  /\ op = [kind |-> "shift", hole |-> op.hole, at |-> op.at]
         /\ op.hole \in UsedIn(tab) /\ op.at \in DOMAIN tab
         /\ Scanned(mix, tab, op.hole, op.at)
         /\ Chains(mix, tab, {op.hole}) /\ Once(tab, {op.hole})
         /\ Held = Contents(tab, {op.hole})
<1>1. /\ op = [kind |-> "shift", hole |-> op.hole, at |-> op.at]
      /\ op.hole \in UsedIn(tab) /\ op.at \in DOMAIN tab
      /\ Scanned(mix, tab, op.hole, op.at)
  BY DEF MapSound, CallSound, Quiet
<1>2. Holes = {op.hole}
  BY DEF Holes
<1>3. Held = Contents(tab, {op.hole})
  BY <1>2 DEF Held, Contents, Used, UsedIn
<1>4. Chains(mix, tab, {op.hole}) /\ Once(tab, {op.hole})
  BY <1>2 DEF MapSound
<1> QED BY <1>1, <1>3, <1>4

(* One entry of the old table: its key is not yet in the new one.            *)
LEMMA RehashSound ==
  ASSUME MapSound, Rehash
  PROVE  MapSound' /\ Held' = Held
<1> DEFINE old == op.old
           at == op.at
           e == op.old[op.at]
<1>1. /\ op.kind = "grow" /\ at < Cap(old) /\ op' = [op EXCEPT !.at = @ + 1] /\ mix' = mix
      /\ IF e.key = NoKey THEN UNCHANGED <<tab, size>> ELSE ~ MustGrow /\ Put(e.key, e.val)
  BY DEF Rehash
<1>2. /\ op = [kind |-> "grow", old |-> op.old, at |-> op.at, key |-> op.key, val |-> op.val]
      /\ op.key \in Key /\ op.val \in Val /\ Moving(tab, old, at)
      /\ Chains(mix, tab, {}) /\ Once(tab, {})
      /\ Held = Contents(tab, {}) \cup Waiting(old, at)
  BY <1>1, WhileGrowing
<1>3. op' = [kind |-> "grow", old |-> op.old, at |-> op.at + 1, key |-> op.key, val |-> op.val]
  BY <1>1, <1>2
<1>4. /\ IsTable(old) /\ Once(old, {}) /\ Cap(tab) = 2 * Cap(old) /\ at \in 0 .. Cap(old)
      /\ \A i \in UsedIn(tab), j \in UsedIn(old) : j >= at => tab[i].key # old[j].key
      /\ Cardinality(UsedIn(tab)) <= at
      /\ \E x \in DOMAIN old \ UsedIn(old) : x < at => Cardinality(UsedIn(tab)) < at
  BY <1>2 DEF Moving
<1>5. Cap(old) \in Nat /\ DOMAIN old = 0 .. Cap(old) - 1
  BY <1>4 DEF IsTable
<1>6. at \in DOMAIN old /\ at + 1 \in 0 .. Cap(old) /\ at \in Nat
  BY <1>1, <1>4, <1>5
<1>7. /\ IsTable(tab) /\ size = Cardinality(UsedIn(tab)) /\ UsedIn(tab) # DOMAIN tab
      /\ size \in Nat /\ Cap(tab) \in Nat
  BY UsedFinite DEF MapSound, IsTable
<1>8. Waiting(old, at) = {x \in {e} : x # Empty} \cup Waiting(old, at + 1)
  <2>1. \A i : i \in at .. Cap(old) - 1 <=> i = at \/ i \in at + 1 .. Cap(old) - 1
    BY <1>5, <1>6
  <2> QED BY <2>1 DEF Waiting
<1>9. PICK x \in DOMAIN old \ UsedIn(old) : x < at => Cardinality(UsedIn(tab)) < at
  BY <1>4
<1>10. x \in Nat
  BY <1>5
<1> HIDE DEF old, at
<1>11. ASSUME e.key = NoKey PROVE MapSound' /\ Held' = Held
  <2>1. tab' = tab /\ size' = size
    BY <1>1, <1>11
  <2>2. e = Empty
    BY <1>4, <1>6, <1>11, UsedEntry, UnusedEntry DEF UsedIn, old, at
  <2>3. Moving(tab', old, at + 1)
    <3>1. \A j \in UsedIn(old) : j >= at + 1 => j >= at
      BY <1>5, <1>6 DEF UsedIn
    <3>2. Cardinality(UsedIn(tab)) <= at + 1 /\ Cardinality(UsedIn(tab)) < at + 1
      BY <1>4, <1>6, <1>7
    <3> QED BY <1>4, <1>6, <1>9, <2>1, <3>1, <3>2 DEF Moving
  <2>4. MapSound' /\ Held' = Contents(tab', {}) \cup Waiting(old, at + 1)
    BY <1>1, <1>2, <1>3, <1>7, <2>1, <2>3, Growing DEF old, at
  <2> QED BY <1>2, <1>8, <2>1, <2>2, <2>4
<1>12. ASSUME e.key # NoKey PROVE MapSound' /\ Held' = Held
  <2>1. ~ MustGrow /\ Put(e.key, e.val)
    BY <1>1, <1>12
  <2>2. at \in UsedIn(old) /\ e = old[at]
    BY <1>6, <1>12 DEF UsedIn, old, at
  <2>3. e \in [key : Key, val : Val]
    BY <1>4, <2>2, UsedEntry
  <2>4. e.key \in Key /\ e.val \in Val /\ e = [key |-> e.key, val |-> e.val] /\ e # Empty
    BY <2>3, <1>12 DEF Empty
  <2>5. size + 1 < Cap(tab)
    <3>1. ~ ((size + 1) * 10 >= Cap(tab) * 7)
      BY <2>1 DEF MustGrow
    <3> QED BY <3>1, <1>7
  <2> HIDE DEF e
  <2>6. /\ IsTable(tab') /\ Cap(tab') = Cap(tab)
        /\ size' = Cardinality(UsedIn(tab')) /\ UsedIn(tab') # DOMAIN tab' /\ size' <= size + 1
        /\ Chains(mix, tab', {}) /\ Once(tab', {})
        /\ Contents(tab', {}) =
             {y \in Contents(tab, {}) : y.key # e.key} \cup {[key |-> e.key, val |-> e.val]}
    BY <1>2, <2>1, <2>4, <2>5, PutFits
  <2>7. Contents(tab', {}) = Contents(tab, {}) \cup {e}
    <3>1. \A i \in UsedIn(tab) : tab[i].key # e.key
      BY <1>4, <1>6, <2>2
    <3>2. \A y \in Contents(tab, {}) : y.key # e.key
      BY <3>1 DEF Contents
    <3> QED BY <2>4, <2>6, <3>2
  <2>8. Moving(tab', old, at + 1)
    <3>1. ASSUME NEW i \in UsedIn(tab'), NEW j \in UsedIn(old), j >= at + 1
          PROVE  tab'[i].key # old[j].key
      <4>1. tab'[i] \in Contents(tab', {})
        BY DEF Contents
      <4>2. j >= at /\ j # at
        BY <3>1, <1>5, <1>6 DEF UsedIn
      <4>3. old[j].key # e.key
        BY <1>4, <2>2, <4>2 DEF Once
      <4>4. \A y \in Contents(tab, {}) : y.key # old[j].key
        BY <1>4, <4>2 DEF Contents
      <4> QED BY <4>1, <4>3, <4>4, <2>7
    <3>2. Cardinality(UsedIn(tab')) <= at + 1
      <4>1. Cardinality(UsedIn(tab')) \in Nat
        BY <2>6, UsedFinite
      <4> QED BY <4>1, <1>4, <1>6, <1>7, <2>6
    <3>3. x < at + 1 => Cardinality(UsedIn(tab')) < at + 1
      <4>1. Cardinality(UsedIn(tab')) \in Nat
        BY <2>6, UsedFinite
      <4>2. x # at
        BY <2>2, <1>9
      <4>3. x < at + 1 => x < at
        BY <1>6, <1>10, <4>2
      <4> QED BY <4>1, <4>3, <1>6, <1>7, <1>9, <2>6
    <3> QED BY <1>4, <1>6, <2>6, <3>1, <3>2, <3>3 DEF Moving
  <2>9. MapSound' /\ Held' = Contents(tab', {}) \cup Waiting(old, at + 1)
    BY <1>1, <1>2, <1>3, <2>6, <2>8, Growing DEF old, at
  <2>10. Waiting(old, at) = {e} \cup Waiting(old, at + 1)
    BY <1>8, <2>4
  <2> QED BY <1>2, <2>7, <2>9, <2>10
<1> QED BY <1>11, <1>12

(* The insertion after the growth: all has been moved, and there is room.    *)
LEMMA InsertGrownSound ==
  ASSUME MapSound, InsertGrown
  PROVE  MapSound' /\ op.key \in Key /\ op.val \in Val /\ Table!Insert(op.key, op.val)
<1> DEFINE k == op.key
           v == op.val
<1>1. op.kind = "grow" /\ op.at = Cap(op.old) /\ Put(k, v) /\ op' = Quiet /\ mix' = mix
  BY DEF InsertGrown
<1>2. /\ k \in Key /\ v \in Val /\ Moving(tab, op.old, op.at)
      /\ Chains(mix, tab, {}) /\ Once(tab, {})
      /\ Held = Contents(tab, {}) \cup Waiting(op.old, op.at)
  BY <1>1, WhileGrowing
<1>3. Waiting(op.old, op.at) = {}
  <2>1. Cap(op.old) \in Nat
    BY <1>2 DEF Moving, IsTable
  <2>2. op.at .. Cap(op.old) - 1 = {}
    BY <1>1, <2>1
  <2> QED BY <2>2 DEF Waiting
<1>4. size = Cardinality(UsedIn(tab)) /\ size \in Nat
  BY UsedFinite DEF MapSound
<1>5. size + 1 < Cap(tab)
  <2>1. /\ Cap(op.old) \in Nat \ {0} /\ Cap(tab) = 2 * Cap(op.old)
        /\ DOMAIN op.old = 0 .. Cap(op.old) - 1
    BY <1>2 DEF Moving, IsTable
  <2>2. \E e \in DOMAIN op.old : e < op.at => size < op.at
    BY <1>2, <1>4 DEF Moving
  <2>3. size < Cap(op.old)
    BY <2>1, <2>2, <1>1
  <2> QED BY <1>4, <2>1, <2>3
<1> HIDE DEF k, v
<1>6. /\ IsTable(tab')
      /\ size' = Cardinality(UsedIn(tab')) /\ UsedIn(tab') # DOMAIN tab'
      /\ Chains(mix, tab', {}) /\ Once(tab', {})
      /\ Contents(tab', {}) =
           {e \in Contents(tab, {}) : e.key # k} \cup {[key |-> k, val |-> v]}
  BY <1>1, <1>2, <1>5, PutFits
<1>7. MapSound' /\ Held' = Contents(tab', {})
  BY <1>1, <1>6, Returns
<1>8. Held' = {e \in Held : e.key # k} \cup {[key |-> k, val |-> v]}
  BY <1>2, <1>3, <1>6, <1>7
<1> QED BY <1>2, <1>7, <1>8 DEF Table!Insert, Table!Others, k, v

(* erase() has found its entry.                                              *)
LEMMA EraseSound ==
  ASSUME MapSound, NEW k \in Key, Erase(k)
  PROVE  MapSound' /\ Table!Erase(k)
<1> DEFINE i == Probe(tab, k)
<1>1. /\ op = Quiet /\ tab[i].key = k /\ op' = [kind |-> "shift", hole |-> i, at |-> i]
      /\ mix' = mix /\ tab' = tab /\ size' = size
  BY DEF Erase
<1>2. Chains(mix, tab, {}) /\ Once(tab, {}) /\ Held = Contents(tab, {})
  BY <1>1, AtRest
<1>3. /\ mix \in [Key -> HashValue] /\ IsTable(tab) /\ UsedIn(tab) # DOMAIN tab
      /\ size = Cardinality(UsedIn(tab))
  BY DEF MapSound
<1>4. i \in Stops(tab, k)
  BY <1>3, ProbeSpec
<1> HIDE DEF i
<1>5. i \in UsedIn(tab) /\ i \in DOMAIN tab
  BY <1>1, <1>4, KeyAssumption DEF Stops, UsedIn
<1>6. Chains(mix, tab, {i}) /\ Once(tab, {i})
  BY <1>2 DEF Chains, Once
<1>7. Scanned(mix, tab, i, i)
  <2>1. i \in Int /\ Distance(tab, i, i) = i - i
    <3>1. i \in Int
      BY <1>3, <1>5 DEF IsTable
    <3> QED BY <3>1, <1>3, <1>5, CyclicDistance
  <2>2. ASSUME NEW j \in DOMAIN tab, Distance(tab, i, j) <= Distance(tab, i, i) PROVE j = i
    <3>1. Distance(tab, i, j) \in Nat
      BY <1>3, <1>5, DistanceType
    <3>2. Distance(tab, i, j) = Distance(tab, i, i)
      BY <2>1, <2>2, <3>1
    <3> QED BY <3>2, <1>3, <1>5, DistanceType
  <2> QED BY <2>2 DEF Scanned
<1>8. MapSound' /\ Held' = Contents(tab', {i})
  BY <1>1, <1>3, <1>5, <1>6, <1>7, Erasing
<1>9. Contents(tab, {i}) = {e \in Contents(tab, {}) : e.key # k}
  <2>1. \A j \in UsedIn(tab) : tab[j].key = k <=> j = i
    BY <1>1, <1>2, <1>5 DEF Once
  <2> QED BY <2>1 DEF Contents
<1> QED BY <1>1, <1>2, <1>8, <1>9 DEF Table!Erase, Table!Others

(* The entry the scan inspects stays where it is, or moves into the hole.   *)
LEMMA ShiftSound ==
  ASSUME MapSound, Shift
  PROVE  MapSound' /\ Held' = Held
<1> DEFINE o == op.hole
           a == op.at
           j == After(tab, a)
           g == HomeIn(mix, tab, tab[j].key)
<1>1. /\ op.kind = "shift" /\ tab[j].key # NoKey /\ mix' = mix /\ size' = size
      /\ IF InPlace(g, o, j)
         THEN op' = [op EXCEPT !.at = j] /\ UNCHANGED tab
         ELSE /\ op' = [[op EXCEPT !.at = j] EXCEPT !.hole = j]
              /\ tab' = [tab EXCEPT ![o] = tab[j]]
  BY DEF Shift, Inspected, Home, HomeIn
<1>2. /\ op = [kind |-> "shift", hole |-> op.hole, at |-> op.at]
      /\ o \in UsedIn(tab) /\ a \in DOMAIN tab
      /\ Scanned(mix, tab, o, a)
      /\ Chains(mix, tab, {o}) /\ Once(tab, {o})
      /\ Held = Contents(tab, {o})
  BY <1>1, WhileErasing
<1>3. /\ mix \in [Key -> HashValue] /\ IsTable(tab) /\ UsedIn(tab) # DOMAIN tab
      /\ size = Cardinality(UsedIn(tab))
  BY DEF MapSound
<1>0. op = [kind |-> "shift", hole |-> o, at |-> a]
  BY <1>2
<1> HIDE DEF o, a, j
<1>4. /\ [op EXCEPT !.at = j] = [kind |-> "shift", hole |-> o, at |-> j]
      /\ [[op EXCEPT !.at = j] EXCEPT !.hole = j] = [kind |-> "shift", hole |-> j, at |-> j]
  <2> DEFINE c == [op EXCEPT !.at = j]
  <2>1. c = [kind |-> "shift", hole |-> o, at |-> j]
    BY <1>0
  <2> HIDE DEF c
  <2>2. [c EXCEPT !.hole = j] = [kind |-> "shift", hole |-> j, at |-> j]
    BY <2>1
  <2> QED BY <2>1, <2>2 DEF c
<1>5. /\ j \in DOMAIN tab /\ j # o /\ Distance(tab, o, j) = Distance(tab, o, a) + 1
      /\ \A i \in DOMAIN tab : Distance(tab, o, i) <= Distance(tab, o, j)
                                 => i = j \/ Distance(tab, o, i) <= Distance(tab, o, a)
  BY <1>2, <1>3, ScanAdvances DEF j
<1>6. j \in UsedIn(tab) /\ o \in DOMAIN tab
  BY <1>1, <1>2, <1>5 DEF UsedIn
<1>7. g \in DOMAIN tab
  BY <1>3, <1>6, UsedEntry, HomeType
<1>8. ASSUME InPlace(g, o, j) PROVE MapSound' /\ Held' = Held
  <2>1. tab' = tab /\ op' = [kind |-> "shift", hole |-> o, at |-> j]
    BY <1>1, <1>4, <1>8
  <2>2. g # o /\ Distance(tab, o, g) <= Distance(tab, o, j)
    BY <1>3, <1>5, <1>6, <1>7, <1>8, InPlaceBehind
  <2>3. Scanned(mix, tab, o, j)
    BY <1>2, <1>5, <1>6, <2>2 DEF Scanned
  <2>4. MapSound' /\ Held' = Contents(tab', {o})
    BY <1>1, <1>2, <1>3, <1>5, <2>1, <2>3, Erasing
  <2> QED BY <1>2, <2>1, <2>4
<1>9. ASSUME ~ InPlace(g, o, j) PROVE MapSound' /\ Held' = Held
  <2> DEFINE u == [tab EXCEPT ![o] = tab[j]]
  <2>1. tab' = u /\ op' = [kind |-> "shift", hole |-> j, at |-> j]
    BY <1>1, <1>4, <1>9
  <2>2. /\ IsTable(u) /\ UsedIn(u) = UsedIn(tab) /\ DOMAIN u = DOMAIN tab
        /\ Chains(mix, u, {j}) /\ Once(u, {j}) /\ Contents(u, {j}) = Contents(tab, {o})
        /\ Distance(u, j, j) = 0
    BY <1>2, <1>3, <1>5, <1>6, <1>9, MoveSound
  <2> HIDE DEF u
  <2>3. Scanned(mix, u, j, j)
    <3>1. ASSUME NEW i \in DOMAIN u, Distance(u, j, i) <= Distance(u, j, j) PROVE i = j
      <4>1. Distance(u, j, i) \in Nat
        BY <1>5, <2>2, DistanceType
      <4>2. Distance(u, j, i) = Distance(u, j, j)
        BY <2>2, <3>1, <4>1
      <4> QED BY <4>2, <1>5, <2>2, DistanceType
    <3> QED BY <3>1 DEF Scanned
  <2>4. MapSound' /\ Held' = Contents(tab', {j})
    BY <1>1, <1>3, <1>5, <1>6, <2>1, <2>2, <2>3, Erasing
  <2> QED BY <1>2, <2>1, <2>2, <2>4
<1> QED BY <1>8, <1>9

(* erase() is done.                                                          *)
LEMMA EraseEndsSound ==
  ASSUME MapSound, EraseEnds
  PROVE  MapSound' /\ Held' = Held
<1> DEFINE o == op.hole
           a == op.at
           u == [tab EXCEPT ![o] = Empty]
<1>1. /\ op.kind = "shift" /\ tab[After(tab, a)].key = NoKey
      /\ tab' = u /\ size' = size - 1 /\ op' = Quiet /\ mix' = mix
  BY DEF EraseEnds
<1>2. /\ o \in UsedIn(tab) /\ a \in DOMAIN tab
      /\ Scanned(mix, tab, o, a)
      /\ Chains(mix, tab, {o}) /\ Once(tab, {o})
      /\ Held = Contents(tab, {o})
  BY <1>1, WhileErasing
<1>3. /\ mix \in [Key -> HashValue] /\ IsTable(tab) /\ UsedIn(tab) # DOMAIN tab
      /\ size = Cardinality(UsedIn(tab))
  BY DEF MapSound
<1> HIDE DEF o, a
<1>4. /\ IsTable(u) /\ UsedIn(u) = UsedIn(tab) \ {o} /\ DOMAIN u = DOMAIN tab
      /\ Chains(mix, u, {}) /\ Once(u, {}) /\ Contents(u, {}) = Contents(tab, {o})
      /\ Cardinality(UsedIn(u)) = Cardinality(UsedIn(tab)) - 1
  BY <1>1, <1>2, <1>3, EmptySound
<1>5. UsedIn(u) # DOMAIN u
  BY <1>2, <1>4 DEF UsedIn
<1> HIDE DEF u
<1>6. MapSound' /\ Held' = Contents(tab', {})
  BY <1>1, <1>3, <1>4, <1>5, Returns
<1> QED BY <1>1, <1>2, <1>4, <1>6

(* clear().                                                                  *)
LEMMA ClearSound ==
  ASSUME MapSound, Clear
  PROVE  MapSound' /\ Table!Clear
<1>1. /\ op' = Quiet /\ mix' = mix /\ tab' = NewTable(Cap(tab)) /\ size' = 0
  BY DEF Clear
<1>2. Cap(tab) \in Nat \ {0}
  BY DEF MapSound, IsTable
<1>3. IsTable(tab') /\ UsedIn(tab') = {} /\ DOMAIN tab' # {}
  BY <1>1, <1>2, NewTableSound
<1>4. Cardinality(UsedIn(tab')) = 0
  BY <1>3, FS_EmptySet
<1>5. Chains(mix, tab', {}) /\ Once(tab', {})
  BY <1>3 DEF Chains, Once
<1>6. MapSound' /\ Held' = Contents(tab', {})
  BY <1>1, <1>3, <1>4, <1>5, Returns
<1>7. Contents(tab', {}) = {}
  BY <1>3 DEF Contents
<1> QED BY <1>6, <1>7 DEF Table!Clear

(* A step that changes nothing.                                             *)
LEMMA IdleSound ==
  ASSUME MapSound, UNCHANGED vars
  PROVE  MapSound' /\ Held' = Held
<1>1. mix' = mix /\ tab' = tab /\ size' = size /\ op' = op
  BY DEF vars
<1>2. Holes' = Holes
  BY <1>1 DEF Holes
<1>3. CallSound'
  BY <1>1 DEF MapSound, CallSound
<1>4. MapSound'
  BY <1>1, <1>2, <1>3 DEF MapSound
<1>5. Held' = Held
  BY <1>1, <1>2 DEF Held, Used
<1> QED BY <1>4, <1>5

(* All steps together.                                                       *)
LEMMA NextSound ==
  ASSUME MapSound, [Next]_vars
  PROVE  MapSound' /\ [Table!Next]_Held
<1>1. ASSUME NEW k \in Key, NEW v \in Val, Insert(k, v) PROVE MapSound' /\ Table!Next
  BY <1>1, InsertSound DEF Table!Next
<1>2. ASSUME NEW k \in Key, NEW v \in Val, InsertGrowing(k, v) PROVE MapSound' /\ Held' = Held
  BY <1>2, InsertGrowingSound
<1>3. ASSUME NEW k \in Key, Erase(k) PROVE MapSound' /\ Table!Next
  BY <1>3, EraseSound DEF Table!Next
<1>4. ASSUME NEW k \in Key, EraseUnknown(k) PROVE MapSound' /\ Held' = Held
  BY <1>4, IdleSound DEF EraseUnknown
<1>5. ASSUME Clear PROVE MapSound' /\ Table!Next
  BY <1>5, ClearSound DEF Table!Next
<1>6. ASSUME Rehash PROVE MapSound' /\ Held' = Held
  BY <1>6, RehashSound
<1>7. ASSUME InsertGrown PROVE MapSound' /\ Table!Next
  BY <1>7, InsertGrownSound DEF Table!Next
<1>8. ASSUME Shift PROVE MapSound' /\ Held' = Held
  BY <1>8, ShiftSound
<1>9. ASSUME EraseEnds PROVE MapSound' /\ Held' = Held
  BY <1>9, EraseEndsSound
<1>10. ASSUME UNCHANGED vars PROVE MapSound' /\ Held' = Held
  BY <1>10, IdleSound
<1> QED BY <1>1, <1>2, <1>3, <1>4, <1>5, <1>6, <1>7, <1>8, <1>9, <1>10 DEF Next, GoesOn

(* MapSound holds in every reachable state.                                  *)
LEMMA MapInvariant == Spec => []MapSound
<1>1. Init => MapSound
  BY InitSound
<1>2. MapSound /\ [Next]_vars => MapSound'
  BY NextSound
<1> QED BY <1>1, <1>2, PTL DEF Spec
-------------------------------------------------------------------------------
(* What follows.                                                            *)

(* Type correctness: every table holds entries, and the indices and keys of *)
(* an erase() or grow() under way are those of its tables.                  *)
THEOREM MapTypeCorrect == Spec => []TypeOK
<1>1. ASSUME MapSound PROVE TypeOK
  <2>1. mix \in [Key -> HashValue] /\ tab \in [0 .. Cap(tab) - 1 -> Entry]
    BY <1>1 DEF MapSound, IsTable
  <2>2. size \in 0 .. Cap(tab)
    BY <1>1, UsedFinite DEF MapSound
  <2>3. ASSUME op = Quiet PROVE TypeOK
    <3>1. op.kind = "none"
      BY <2>3 DEF Quiet
    <3> QED BY <2>1, <2>2, <2>3, <3>1 DEF TypeOK
  <2>4. ASSUME op.kind = "grow" PROVE TypeOK
    <3>1. op.key \in Key /\ op.val \in Val /\ Moving(tab, op.old, op.at)
      BY <1>1, <2>4, WhileGrowing
    <3>2. op.old \in [0 .. Cap(op.old) - 1 -> Entry] /\ op.at \in 0 .. Cap(op.old)
      BY <3>1 DEF Moving, IsTable
    <3> QED BY <2>1, <2>2, <2>4, <3>1, <3>2 DEF TypeOK
  <2>5. ASSUME op.kind = "shift" PROVE TypeOK
    <3>1. op.hole \in UsedIn(tab) /\ op.at \in DOMAIN tab
      BY <1>1, <2>5, WhileErasing
    <3>2. {op.hole, op.at} \subseteq DOMAIN tab
      BY <3>1 DEF UsedIn
    <3> QED BY <2>1, <2>2, <2>5, <3>2 DEF TypeOK
  <2> QED BY <1>1, <2>3, <2>4, <2>5 DEF MapSound, CallSound
<1> QED BY <1>1, MapInvariant, PTL

(* No key is held twice, size_ counts the entries and one entry is always   *)
(* empty, so that every search ends: of every capacity, hash function and   *)
(* sequence of calls, half way through erase() and grow() too.              *)
THEOREM TableCorrect == Spec => []TableSound
<1>1. MapSound => TableSound
  BY DEF MapSound, TableSound, Once, Used, UsedIn
<1> QED BY <1>1, MapInvariant, PTL

(* Between the home of an entry and the entry there is no empty one,        *)
(* whatever was moved: what the backward shift of erase() is for.           *)
THEOREM ChainsCorrect == Spec => []ChainsUnbroken
<1>1. MapSound => ChainsUnbroken
  BY DEF MapSound, ChainsUnbroken, Chains, Chained, Used, UsedIn, Home, HomeIn
<1> QED BY <1>1, MapInvariant, PTL

(* find(), and the searches of insert() and erase(), reach what is in the   *)
(* table and nothing else.                                                  *)
THEOREM FindCorrect == Spec => []FindExact
<1>1. ASSUME MapSound PROVE FindExact
  <2> SUFFICES ASSUME op = Quiet, NEW k \in Key
               PROVE  IF \E e \in Held : e.key = k
                      THEN [key |-> k, val |-> Find(k)] \in Held
                      ELSE Find(k) = Miss
    BY DEF FindExact
  <2>1. Chains(mix, tab, {}) /\ Once(tab, {}) /\ Held = Contents(tab, {})
    BY <1>1, AtRest
  <2>2. mix \in [Key -> HashValue] /\ IsTable(tab) /\ UsedIn(tab) # DOMAIN tab
    BY <1>1 DEF MapSound
  <2>3. ASSUME NEW e \in Held, e.key = k PROVE [key |-> k, val |-> Find(k)] \in Held
    <3>1. PICK i \in UsedIn(tab) : e = tab[i]
      BY <2>1 DEF Contents
    <3>2. Probe(tab, k) = i
      BY <2>1, <2>2, <2>3, <3>1, ProbeFinds
    <3>3. Find(k) = tab[i].val
      BY <2>3, <3>1, <3>2 DEF Find
    <3>4. tab[i] \in [key : Key, val : Val]
      BY <2>2, UsedEntry
    <3>5. tab[i] = [key |-> tab[i].key, val |-> tab[i].val]
      BY <3>4
    <3>6. [key |-> k, val |-> Find(k)] = e
      BY <2>3, <3>1, <3>3, <3>5
    <3> QED BY <3>6
  <2>4. ASSUME ~ (\E e \in Held : e.key = k) PROVE Find(k) = Miss
    <3>1. \A i \in UsedIn(tab) : tab[i].key # k
      BY <2>1, <2>4 DEF Contents
    <3>2. Probe(tab, k) \in DOMAIN tab \ UsedIn(tab)
      BY <2>2, <3>1, ProbeMisses
    <3>3. tab[Probe(tab, k)].key = NoKey
      BY <3>2 DEF UsedIn
    <3>4. k # NoKey
      BY KeyAssumption
    <3> QED BY <3>3, <3>4 DEF Find
  <2> QED BY <2>3, <2>4
<1> QED BY <1>1, MapInvariant, PTL

(* The map implements a partial function: an insertion, an erasure and a    *)
(* clear() change what it holds as they should, in one step each, and the   *)
(* steps of a shift or a rehash lose, duplicate and mix up nothing.         *)
THEOREM MapImplementsTable == Spec => ImplementsIdTable
<1>1. Init => Table!Init
  BY InitSound DEF Table!Init
<1>2. MapSound /\ [Next]_vars => [Table!Next]_Held
  BY NextSound
<1>3. Init /\ [][Next]_vars /\ []MapSound => Table!Init /\ [][Table!Next]_Held
  BY <1>1, <1>2, PTL
<1>4. Spec => Table!Spec
  BY <1>3, MapInvariant DEF Spec, Table!Spec
<1> QED BY <1>4 DEF ImplementsIdTable
===============================================================================
