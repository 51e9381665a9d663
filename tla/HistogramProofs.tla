---------------------------- MODULE HistogramProofs ----------------------------
(***************************************************************************)
(* Theorems about the latency histogram, for every width of a value, every *)
(* mantissa and every set of latencies: each bucket counts the samples of  *)
(* its interval, a percentile is the bucket of the order statistic, and a  *)
(* correction moves buckets without losing or reordering samples.          *)
(***************************************************************************)
EXTENDS Histogram, CommonLemmas

(* Powers of two.                                                           *)

(* A number of n bits is a set of bits, so there are 2^n of them; one bit   *)
(* more doubles the number.                                                 *)
LEMMA TwoPower ==
  ASSUME NEW n \in Nat
  PROVE  2 ^ n \in Nat /\ 2 ^ n > 0 /\ 2 ^ (n + 1) = 2 * 2 ^ n
<1> DEFINE A == 1 .. n
           x == n + 1
           P == SUBSET A
           Q == {B \cup {x} : B \in P}
<1>1. IsFiniteSet(A) /\ Cardinality(A) = n /\ x \notin A
  BY FS_Interval
<1>2. IsFiniteSet(A \cup {x}) /\ Cardinality(A \cup {x}) = n + 1
  BY <1>1, FS_AddElement
<1>3. /\ IsFiniteSet(P) /\ Cardinality(P) = 2 ^ n
      /\ Cardinality(SUBSET (A \cup {x})) = 2 ^ (n + 1)
  <2> HIDE DEF A, x
  <2> QED BY <1>1, <1>2, FS_SUBSET
<1>4. 2 ^ n \in Nat /\ {} \in P
  BY <1>3, FS_CardinalityType
<1>5. ExistsBijection(P, Q)
  <2> DEFINE f == [B \in P |-> B \cup {x}]
  <2>1. f \in [P -> Q]
    OBVIOUS
  <2>2. ASSUME NEW B \in P, NEW C \in P, f[B] = f[C] PROVE B = C
    <3>1. B \cup {x} = C \cup {x} /\ x \notin B /\ x \notin C
      BY <1>1, <2>2
    <3> QED BY <3>1
  <2>3. \A D \in Q : \E B \in P : f[B] = D
    OBVIOUS
  <2> HIDE DEF f, P, Q
  <2>4. f \in Bijection(P, Q)
    BY <2>1, <2>2, <2>3 DEF Bijection, Injection, Surjection, IsInjective
  <2> QED BY <2>4 DEF ExistsBijection
<1>6. IsFiniteSet(Q) /\ Cardinality(Q) = Cardinality(P)
  <2> HIDE DEF P, Q
  <2> QED BY <1>3, <1>5, FS_Bijection
<1>7. P \cap Q = {} /\ P \cup Q = SUBSET (A \cup {x})
  <2>1. P \cap Q = {}
    BY <1>1
  <2>2. ASSUME NEW D \in SUBSET (A \cup {x}) PROVE D \in P \cup Q
    <3>1. CASE x \in D
      <4>1. D = (D \ {x}) \cup {x} /\ D \ {x} \in P
        BY <3>1
      <4> QED BY <4>1
    <3>2. CASE x \notin D
      BY <3>2
    <3> QED BY <3>1, <3>2
  <2> HIDE DEF A, x
  <2>3. P \cup Q \subseteq SUBSET (A \cup {x})
    OBVIOUS
  <2> QED BY <2>1, <2>2, <2>3
<1>8. Cardinality(P \cup Q) = Cardinality(P) + Cardinality(Q)
  <2> HIDE DEF P, Q
  <2>1. Cardinality(P \cup Q) = Cardinality(P) + Cardinality(Q) - Cardinality(P \cap Q)
    BY <1>3, <1>6, FS_Union
  <2>2. Cardinality(P \cap Q) = 0
    BY <1>7, FS_EmptySet
  <2> QED BY <1>3, <1>6, <2>1, <2>2, FS_CardinalityType
<1>9. 2 ^ n > 0
  <2> HIDE DEF P
  <2>1. Cardinality(P) # 0
    BY <1>3, <1>4, FS_EmptySet
  <2> QED BY <1>3, <1>4, <2>1
<1>10. 2 ^ (n + 1) = 2 ^ n + 2 ^ n
  <2> HIDE DEF A, x, P, Q
  <2> QED BY <1>3, <1>6, <1>7, <1>8
<1> QED BY <1>4, <1>9, <1>10

(* A larger power is not smaller.                                           *)
LEMMA PowersAscend ==
  ASSUME NEW m \in Nat, NEW n \in Nat, m <= n
  PROVE  2 ^ m <= 2 ^ n
<1> DEFINE G == {k \in Nat : 2 ^ m <= 2 ^ (m + k)}
<1>1. 0 \in G
  <2>1. m + 0 = m /\ 2 ^ m \in Nat
    BY TwoPower
  <2> QED BY <2>1
<1>2. ASSUME NEW k \in Nat, k \in G PROVE k + 1 \in G
  <2> DEFINE a == 2 ^ m
             b == 2 ^ (m + k)
             c == 2 ^ (m + (k + 1))
  <2>1. m + (k + 1) = (m + k) + 1 /\ m + k \in Nat
    OBVIOUS
  <2>2. a \in Nat /\ b \in Nat /\ c = 2 * b
    BY <2>1, TwoPower
  <2>3. a <= b
    BY <1>2
  <2> HIDE DEF a, b, c
  <2>4. a <= c
    BY <2>2, <2>3
  <2> QED BY <2>4 DEF a, c
<1>3. Nat \subseteq G
  <2> HIDE DEF G
  <2> QED BY <1>1, <1>2, NatGood
<1>4. n - m \in Nat /\ m + (n - m) = n
  OBVIOUS
<1> QED BY <1>3, <1>4

(* Exponents add up.                                                        *)
LEMMA PowerOfSum ==
  ASSUME NEW m \in Nat, NEW n \in Nat
  PROVE  2 ^ (m + n) = 2 ^ m * 2 ^ n
<1> DEFINE G == {k \in Nat : 2 ^ (m + k) = 2 ^ m * 2 ^ k}
<1>1. 0 \in G
  <2>1. m + 0 = m /\ 2 ^ m \in Nat /\ 2 ^ 0 = 1
    BY TwoPower
  <2> QED BY <2>1
<1>2. ASSUME NEW k \in Nat, k \in G PROVE k + 1 \in G
  <2> DEFINE a == 2 ^ m
             b == 2 ^ k
             c == 2 ^ (m + k)
  <2>1. m + (k + 1) = (m + k) + 1 /\ m + k \in Nat
    OBVIOUS
  <2>2. a \in Nat /\ b \in Nat /\ 2 ^ (m + (k + 1)) = 2 * c /\ 2 ^ (k + 1) = 2 * b
    BY <2>1, TwoPower
  <2>3. c = a * b
    BY <1>2
  <2> HIDE DEF a, b, c
  <2>4. 2 * (a * b) = a * (2 * b)
    BY <2>2
  <2>5. 2 ^ (m + (k + 1)) = a * 2 ^ (k + 1)
    BY <2>2, <2>3, <2>4
  <2> QED BY <2>5 DEF a
<1>3. Nat \subseteq G
  <2> HIDE DEF G
  <2> QED BY <1>1, <1>2, NatGood
<1> QED BY <1>3
-------------------------------------------------------------------------------
(* Buckets and their values.                                                *)

(* What the assumptions say of the sizes.                                   *)
LEMMA SubType ==
  /\ Mantissa \in Nat /\ Width \in Nat /\ Sub \in Nat /\ Sub > 0
  /\ 2 * Sub = 2 ^ (Mantissa + 1) /\ Buckets \in Nat /\ Buckets > 2 * Sub
BY WidthAssumption, TwoPower DEF Sub

(* The smallest value of bucket m of the k-th power of two after those that *)
(* have a bucket for each value.                                            *)
LEMMA ValueIs ==
  ASSUME NEW k \in Nat, NEW m \in 0 .. Sub - 1
  PROVE  ValueOf(2 * Sub + k * Sub + m) = (Sub + m) * 2 ^ (k + 1)
<1> DEFINE S == Sub
           b == 2 * S + k * S + m
<1>1. S \in Nat /\ S > 0 /\ Mantissa \in Nat
  BY SubType
<1>2. k * S \in Nat
  BY <1>1
<1>3. b - 2 * S = S * k + m /\ ~ (b < 2 * S)
  BY <1>1, <1>2
<1>4. (S * k + m) % S = m /\ (S * k + m) \div S = k
  <2>1. m \in 0 .. S - 1
    OBVIOUS
  <2> HIDE DEF S
  <2>2. (S * k + m) % S = m
    BY <1>1, <2>1, ModUnique
  <2>3. S * k + m \in Int
    BY <1>1, <2>1
  <2> DEFINE d == (S * k + m) \div S
  <2>4. S * k + m = S * d + m /\ d \in Int
    BY <1>1, <2>2, <2>3, ModSplit
  <2> HIDE DEF d
  <2>5. S * k = S * d
    BY <1>1, <2>1, <2>4
  <2>6. k = d
    BY <1>1, <2>4, <2>5
  <2> QED BY <2>2, <2>6 DEF d
<1>5. (Mantissa + 1 + k) - Mantissa = k + 1
  BY <1>1
<1>6. ValueOf(b) = (S + ((b - 2 * S) % S)) * 2 ^ ((Mantissa + 1 + ((b - 2 * S) \div S)) - Mantissa)
  <2> HIDE DEF b
  <2>1. ~ (b < 2 * Sub)
    BY <1>3
  <2> QED BY <2>1, Zenon DEF ValueOf
<1> HIDE DEF S, b
<1>7. ValueOf(b) = (S + m) * 2 ^ (k + 1)
  BY <1>3, <1>4, <1>5, <1>6
<1> QED BY <1>7 DEF b, S

(* Every bucket above those of single values is one of these.               *)
LEMMA BucketIs ==
  ASSUME NEW b \in Nat, b >= 2 * Sub
  PROVE  \E k \in Nat, m \in 0 .. Sub - 1 : b = 2 * Sub + k * Sub + m
<1> DEFINE S == Sub
           k == (b - 2 * S) \div S
           m == (b - 2 * S) % S
<1>1. S \in Nat /\ S > 0
  BY SubType
<1>2. b - 2 * S \in Nat
  BY <1>1
<1> HIDE DEF S
<1>3. b - 2 * S = S * k + m /\ m \in 0 .. S - 1 /\ k \in Int
  <2>1. b - 2 * S \in Int
    BY <1>2
  <2> QED BY <1>1, <2>1, ModSplit
<1> HIDE DEF k, m
<1>4. k \in Nat
  <2> SUFFICES ASSUME k <= -1 PROVE FALSE
    BY <1>3
  <2>1. S * k <= S * (-1)
    BY <1>1, <1>3
  <2> QED BY <1>1, <1>2, <1>3, <2>1
<1>5. b = 2 * S + k * S + m
  BY <1>1, <1>3, <1>4
<1> QED BY <1>3, <1>4, <1>5 DEF S

(* A bucket ends where the next one begins.                                 *)
LEMMA NextValue ==
  /\ \A b \in 0 .. 2 * Sub - 1 : ValueOf(b) = b /\ ValueOf(b + 1) = b + 1
  /\ \A k \in Nat, m \in 0 .. Sub - 1 :
       ValueOf(2 * Sub + k * Sub + m + 1) = (Sub + m + 1) * 2 ^ (k + 1)
<1>1. Sub \in Nat /\ Sub > 0
  BY SubType
<1>2. ASSUME NEW k \in Nat, NEW m \in 0 .. Sub - 1
      PROVE  ValueOf(2 * Sub + k * Sub + m + 1) = (Sub + m + 1) * 2 ^ (k + 1)
  <2>1. CASE m + 1 \in 0 .. Sub - 1
    <3>1. ValueOf(2 * Sub + k * Sub + (m + 1)) = (Sub + (m + 1)) * 2 ^ (k + 1)
      BY <2>1, ValueIs
    <3>2. 2 * Sub + k * Sub + (m + 1) = 2 * Sub + k * Sub + m + 1
      BY <1>1
    <3> QED BY <1>1, <3>1, <3>2
  <2>2. CASE m + 1 = Sub
    <3>1. 2 * Sub + k * Sub + m + 1 = 2 * Sub + (k + 1) * Sub + 0
      BY <1>1, <2>2
    <3>2. k + 1 \in Nat /\ 0 \in 0 .. Sub - 1
      BY <1>1
    <3>3. ValueOf(2 * Sub + (k + 1) * Sub + 0) = (Sub + 0) * 2 ^ (k + 1 + 1)
      BY <3>2, ValueIs
    <3> DEFINE p == 2 ^ (k + 1)
    <3>4. p \in Nat /\ 2 ^ (k + 1 + 1) = 2 * p
      BY <3>2, TwoPower
    <3> HIDE DEF p
    <3>5. (Sub + 0) * (2 * p) = (Sub + m + 1) * p
      <4>1. Sub + m + 1 = 2 * Sub /\ Sub + 0 = Sub
        BY <1>1, <2>2
      <4>2. Sub * (2 * p) = (2 * Sub) * p
        BY <1>1, <3>4
      <4> QED BY <4>1, <4>2
    <3> QED BY <3>1, <3>3, <3>4, <3>5 DEF p
  <2> QED BY <1>1, <2>1, <2>2
<1>3. ValueOf(2 * Sub) = 2 * Sub
  <2>1. 0 \in Nat /\ 0 \in 0 .. Sub - 1
    BY <1>1
  <2>2. ValueOf(2 * Sub + 0 * Sub + 0) = (Sub + 0) * 2 ^ (0 + 1)
    BY <2>1, ValueIs
  <2>3. 2 ^ (0 + 1) = 2 * 2 ^ 0 /\ 2 ^ 0 = 1
    BY TwoPower
  <2>4. 2 * Sub + 0 * Sub + 0 = 2 * Sub /\ (Sub + 0) * 2 = 2 * Sub
    BY <1>1
  <2> QED BY <2>2, <2>3, <2>4
<1>4. ASSUME NEW b \in 0 .. 2 * Sub - 1 PROVE ValueOf(b) = b /\ ValueOf(b + 1) = b + 1
  <2>1. \A c \in Int : c < 2 * Sub => ValueOf(c) = c
    BY DEF ValueOf
  <2>2. CASE b + 1 < 2 * Sub
    BY <1>1, <2>1, <2>2
  <2>3. CASE b + 1 = 2 * Sub
    BY <1>1, <1>3, <2>1, <2>3
  <2> QED BY <1>1, <2>2, <2>3
<1> QED BY <1>2, <1>4

(* A later bucket begins at a larger value.                                 *)
LEMMA ValuesAscend ==
  /\ \A b \in Nat : ValueOf(b) \in Nat
  /\ \A b, c \in Nat : b < c => ValueOf(b) < ValueOf(c)
<1>1. Sub \in Nat /\ Sub > 0
  BY SubType
<1>2. ASSUME NEW b \in Nat
      PROVE  ValueOf(b) \in Nat /\ ValueOf(b + 1) \in Nat /\ ValueOf(b) < ValueOf(b + 1)
  <2>1. CASE b < 2 * Sub
    BY <1>1, <2>1, NextValue
  <2>2. CASE b >= 2 * Sub
    <3>1. PICK k \in Nat, m \in 0 .. Sub - 1 : b = 2 * Sub + k * Sub + m
      BY <2>2, BucketIs
    <3> DEFINE p == 2 ^ (k + 1)
    <3>2. p \in Nat /\ p > 0
      BY <3>1, TwoPower
    <3>3. ValueOf(b) = (Sub + m) * p /\ ValueOf(b + 1) = (Sub + m + 1) * p
      BY <3>1, ValueIs, NextValue
    <3> HIDE DEF p
    <3>4. (Sub + m + 1) * p = (Sub + m) * p + p /\ (Sub + m) * p \in Nat
      BY <1>1, <3>2
    <3> QED BY <3>2, <3>3, <3>4
  <2> QED BY <1>1, <2>1, <2>2
<1>3. ASSUME NEW b \in Nat, NEW c \in Nat, b < c PROVE ValueOf(b) < ValueOf(c)
  <2> DEFINE G == {k \in Nat : ValueOf(b) < ValueOf(b + 1 + k)}
  <2>1. 0 \in G
    BY <1>2
  <2>2. ASSUME NEW k \in Nat, k \in G PROVE k + 1 \in G
    <3>1. b + 1 + (k + 1) = (b + 1 + k) + 1 /\ b + 1 + k \in Nat
      OBVIOUS
    <3>2. /\ ValueOf(b + 1 + k) < ValueOf(b + 1 + (k + 1)) /\ ValueOf(b) \in Nat
          /\ ValueOf(b + 1 + k) \in Nat /\ ValueOf(b + 1 + (k + 1)) \in Nat
      BY <1>2, <3>1
    <3>3. ValueOf(b) < ValueOf(b + 1 + k)
      BY <2>2
    <3> QED BY <3>2, <3>3
  <2>3. Nat \subseteq G
    <3> HIDE DEF G
    <3> QED BY <2>1, <2>2, NatGood
  <2>4. c - b - 1 \in Nat /\ b + 1 + (c - b - 1) = c
    BY <1>3
  <2> QED BY <2>3, <2>4
<1> QED BY <1>2, <1>3

(* The highest bit of a value that is not 0.                                *)
LEMMA MsbIs ==
  ASSUME NEW v \in Nat, v > 0, v < 2 ^ Width
  PROVE  Msb(v) \in 0 .. Width - 1 /\ 2 ^ Msb(v) <= v /\ v < 2 ^ (Msb(v) + 1)
<1> DEFINE S == {e \in 0 .. Width : 2 ^ e <= v}
<1>1. Width \in Nat
  BY SubType
<1>2. S \in SUBSET (0 .. Width) /\ 0 \in S
  <2>1. 2 ^ 0 = 1
    OBVIOUS
  <2> QED BY <1>1, <2>1
<1>3. PICK e \in S : \A k \in S : e >= k
  <2> HIDE DEF S
  <2> QED BY <1>1, <1>2, GreatestExists
<1>4. e \in Nat /\ e + 1 \in Nat /\ e # Width /\ e <= Width
  BY <1>1
<1>5. e \in 0 .. Width - 1 /\ 2 ^ e <= v
  BY <1>1, <1>4
<1>6. e + 1 \notin S /\ e + 1 \in 0 .. Width
  <2>1. e + 1 \notin S
    <3> HIDE DEF S
    <3> QED BY <1>3, <1>4
  <2> QED BY <1>1, <1>4, <2>1
<1>7. ~ (2 ^ (e + 1) <= v) /\ 2 ^ (e + 1) \in Nat
  BY <1>4, <1>6, TwoPower
<1>8. \E x \in 0 .. Width - 1 : 2 ^ x <= v /\ v < 2 ^ (x + 1)
  BY <1>5, <1>7
<1> QED BY <1>8 DEF Msb

(* Where a value goes, were there buckets enough.                           *)
Position(v) ==
  IF v < 2 * Sub THEN v
  ELSE LET e == Msb(v)
           m == (v \div 2 ^ (e - Mantissa)) % Sub
       IN 2 * Sub + (e - (Mantissa + 1)) * Sub + m

(* The powers of two a larger value has: it is d times 2 ^ (k + 1) and less *)
(* than that more, d being a number of Mantissa + 1 bits.                   *)
LEMMA LargePlaced ==
  ASSUME NEW v \in Nat, v >= 2 * Sub, v < 2 ^ Width
  PROVE  \E k \in Nat, m \in 0 .. Sub - 1 :
           /\ Position(v) = 2 * Sub + k * Sub + m
           /\ k + Mantissa + 2 <= Width
           /\ (Sub + m) * 2 ^ (k + 1) <= v
           /\ v < (Sub + m + 1) * 2 ^ (k + 1)
           /\ 2 ^ (k + 1) * Sub <= v
<1> DEFINE e == Msb(v)
           S == Sub
           k == e - (Mantissa + 1)
           u == 2 ^ (k + 1)
           d == v \div u
<1>1. /\ S \in Nat /\ S > 0 /\ Mantissa \in Nat /\ Width \in Nat
      /\ 2 * S = 2 ^ (Mantissa + 1)
  BY SubType
<1>2. e \in 0 .. Width - 1 /\ 2 ^ e <= v /\ v < 2 ^ (e + 1)
  <2>1. v > 0
    BY <1>1
  <2> QED BY <2>1, MsbIs
<1> HIDE DEF e
<1>3. k \in Nat
  <2> SUFFICES ASSUME e + 1 <= Mantissa + 1 PROVE FALSE
    BY <1>1, <1>2
  <2>1. 2 ^ (e + 1) <= 2 ^ (Mantissa + 1)
    <3>1. e + 1 \in Nat /\ Mantissa + 1 \in Nat
      BY <1>1, <1>2
    <3> QED BY <3>1, PowersAscend
  <2>2. 2 ^ (e + 1) \in Nat
    BY <1>2, TwoPower
  <2> HIDE DEF S
  <2>3. v < 2 * S
    BY <1>1, <1>2, <2>1, <2>2
  <2> QED BY <1>1, <2>3 DEF S
<1>4. e - Mantissa = k + 1 /\ e = Mantissa + (k + 1) /\ k + 1 \in Nat
      /\ e + 1 = Mantissa + (k + 2) /\ k + Mantissa + 2 <= Width
  BY <1>1, <1>2, <1>3
<1>5. /\ u \in Nat /\ u > 0 /\ 2 ^ e = S * u
      /\ 2 ^ (e + 1) = 2 * (S * u)
  <2>1. u \in Nat /\ u > 0
    BY <1>4, TwoPower
  <2>2. 2 ^ e = 2 ^ Mantissa * 2 ^ (k + 1)
    BY <1>1, <1>4, PowerOfSum
  <2>3. 2 ^ (e + 1) = 2 * 2 ^ e
    BY <1>2, TwoPower
  <2> QED BY <2>1, <2>2, <2>3 DEF Sub
<1> HIDE DEF k, u, S
<1>6. u * d <= v /\ v < u * d + u /\ d \in Int
  <2>1. v \in Int /\ v = u * (v \div u) + (v % u) /\ v % u \in 0 .. u - 1 /\ v \div u \in Int
    BY <1>5, ModSplit
  <2> HIDE DEF d
  <2>2. v = u * d + (v % u) /\ v % u \in 0 .. u - 1 /\ d \in Int
    BY <2>1 DEF d
  <2> QED BY <1>5, <2>2
<1> HIDE DEF d
<1>7. d >= S
  <2> SUFFICES ASSUME d + 1 <= S PROVE FALSE
    BY <1>1, <1>6
  <2>1. u * (d + 1) <= u * S
    BY <1>1, <1>5, <1>6
  <2>2. u * (d + 1) = u * d + u /\ u * S = S * u /\ u * d \in Int /\ S * u \in Int
    BY <1>1, <1>5, <1>6
  <2> QED BY <1>2, <1>5, <1>6, <2>1, <2>2
<1>8. d < 2 * S
  <2> SUFFICES ASSUME 2 * S <= d PROVE FALSE
    BY <1>1, <1>6
  <2>1. u * (2 * S) <= u * d
    BY <1>1, <1>5, <1>6
  <2>2. u * (2 * S) = 2 * (S * u) /\ u * d \in Int /\ S * u \in Int
    BY <1>1, <1>5, <1>6
  <2> QED BY <1>2, <1>5, <1>6, <2>1, <2>2
<1> DEFINE m == d - S
<1>9. m \in 0 .. S - 1 /\ d = S * 1 + m /\ d = S + m
  BY <1>1, <1>6, <1>7, <1>8
<1> HIDE DEF m
<1>10. d % S = m
  <2>1. (S * 1 + m) % S = m
    BY <1>1, <1>9, ModUnique
  <2> QED BY <1>9, <2>1
<1>11. Position(v) = 2 * Sub + k * Sub + m
  <2>1. ~ (v < 2 * Sub)
    BY <1>1 DEF S
  <2>2. (v \div 2 ^ (e - Mantissa)) % Sub = m
    BY <1>4, <1>10 DEF d, u, S
  <2> QED BY <2>1, <2>2 DEF Position, e, k
<1>12. (S + m) * u = u * d /\ (S + m + 1) * u = u * d + u /\ u * S = S * u
  BY <1>1, <1>5, <1>6, <1>9
<1>13. (S + m) * u <= v /\ v < (S + m + 1) * u /\ u * S <= v
  BY <1>2, <1>5, <1>6, <1>12
<1> QED BY <1>3, <1>4, <1>9, <1>11, <1>13 DEF S, u

(* A value lies in the interval of its position, which is narrow; there are *)
(* so many positions.                                                       *)
LEMMA Placed ==
  ASSUME NEW v \in 0 .. 2 ^ Width - 1
  PROVE  /\ Position(v) \in Nat
         /\ ValueOf(Position(v)) <= v
         /\ v < ValueOf(Position(v) + 1)
         /\ (v - ValueOf(Position(v))) * Sub <= v
         /\ Position(v) < ((Width - Mantissa) + 1) * Sub
<1> DEFINE S == Sub
<1>1. /\ S \in Nat /\ S > 0 /\ Mantissa \in Nat /\ Width \in Nat /\ Width > Mantissa
      /\ v \in Nat /\ v < 2 ^ Width
  <2>1. 2 ^ Width \in Nat
    BY SubType, TwoPower
  <2> QED BY <2>1, SubType, WidthAssumption
<1>2. CASE v < 2 * Sub
  <2>1. Position(v) = v
    BY <1>2 DEF Position
  <2>2. ValueOf(v) = v /\ ValueOf(v + 1) = v + 1
    BY <1>1, <1>2, NextValue
  <2>3. v < ((Width - Mantissa) + 1) * S
    <3> DEFINE w == (Width - Mantissa) - 1
    <3>1. w \in Nat /\ (Width - Mantissa) + 1 = 2 + w
      BY <1>1
    <3> HIDE DEF w
    <3>2. (2 + w) * S = 2 * S + w * S /\ w * S \in Nat
      BY <1>1, <3>1
    <3> QED BY <1>1, <1>2, <3>1, <3>2
  <2>4. (v - v) * Sub = 0
    BY <1>1
  <2> QED BY <1>1, <2>1, <2>2, <2>3, <2>4
<1>3. CASE v >= 2 * Sub
  <2>1. PICK k \in Nat, m \in 0 .. Sub - 1 :
          /\ Position(v) = 2 * Sub + k * Sub + m
          /\ k + Mantissa + 2 <= Width
          /\ (Sub + m) * 2 ^ (k + 1) <= v
          /\ v < (Sub + m + 1) * 2 ^ (k + 1)
          /\ 2 ^ (k + 1) * Sub <= v
    BY <1>1, <1>3, LargePlaced
  <2> DEFINE u == 2 ^ (k + 1)
  <2>2. u \in Nat /\ u > 0
    BY TwoPower
  <2>3. ValueOf(Position(v)) = (Sub + m) * u /\ ValueOf(Position(v) + 1) = (Sub + m + 1) * u
    BY <2>1, ValueIs, NextValue
  <2>4. (Sub + m) * u <= v /\ v < (Sub + m + 1) * u /\ u * Sub <= v
    BY <2>1
  <2> HIDE DEF u
  <2> DEFINE x == (S + m) * u
  <2>5. x \in Nat /\ (S + m + 1) * u = x + u
    BY <1>1, <2>2
  <2>6. x <= v /\ v < x + u
    BY <2>4, <2>5
  <2> HIDE DEF x
  <2>7. (v - x) * S <= u * S
    <3>1. v - x \in Nat /\ v - x <= u
      BY <1>1, <2>2, <2>5, <2>6
    <3> QED BY <1>1, <2>2, <3>1
  <2>8. (v - x) * S \in Int /\ u * S \in Int
    BY <1>1, <2>2, <2>5
  <2>9. (v - x) * S <= v
    <3> DEFINE y == (v - x) * S
               z == u * S
    <3>1. z <= v
      BY <2>4
    <3>2. y \in Int /\ z \in Int /\ y <= z
      BY <2>7, <2>8
    <3> HIDE DEF y, z
    <3>3. y <= v
      BY <1>1, <3>1, <3>2
    <3> QED BY <3>3 DEF y
  <2>10. 2 * S + k * S + m < ((Width - Mantissa) + 1) * S
    <3> DEFINE w == (Width - Mantissa) - (k + 2)
    <3>1. w \in Nat /\ (Width - Mantissa) + 1 = 3 + k + w
      BY <1>1, <2>1
    <3> HIDE DEF w
    <3>2. (3 + k + w) * S = 2 * S + k * S + S + w * S /\ w * S \in Nat /\ k * S \in Nat
      BY <1>1, <3>1
    <3> QED BY <1>1, <3>1, <3>2
  <2>11. Position(v) \in Nat
    <3>1. k * S \in Nat
      BY <1>1
    <3> QED BY <1>1, <2>1, <3>1
  <2> QED BY <2>1, <2>3, <2>4, <2>9, <2>10, <2>11 DEF x
<1> QED BY <1>1, <1>2, <1>3

(* The lesser of two numbers.                                               *)
LEMMA LesserIs ==
  ASSUME NEW x \in Int, NEW y \in Int
  PROVE  Min({x, y}) = IF x <= y THEN x ELSE y
<1>1. \A z \in {x, y} : x <= y => (\A w \in {x, y} : z <= w) <=> z = x
  OBVIOUS
<1> QED BY DEF Min

(* bucket() is the position, or the last bucket.                            *)
LEMMA BucketClamps ==
  ASSUME NEW v \in 0 .. 2 ^ Width - 1
  PROVE  /\ BucketOf(v) \in Bucket
         /\ Position(v) < Buckets - 1 => BucketOf(v) = Position(v)
         /\ Position(v) >= Buckets - 1 => BucketOf(v) = Buckets - 1
<1>1. /\ Position(v) \in Nat /\ Buckets \in Nat /\ Buckets > 2 * Sub /\ Sub \in Nat
      /\ Sub > 0
  BY Placed, SubType
<1>2. CASE v < 2 * Sub
  <2>1. BucketOf(v) = v /\ Position(v) = v
    BY <1>2 DEF BucketOf, Position
  <2> QED BY <1>1, <1>2, <2>1 DEF Bucket
<1>3. CASE ~ (v < 2 * Sub)
  <2>1. BucketOf(v) = Min({Position(v), Buckets - 1})
    BY <1>3 DEF BucketOf, Position
  <2>2. Buckets - 1 \in Int
    BY <1>1
  <2>3. BucketOf(v) = IF Position(v) <= Buckets - 1 THEN Position(v) ELSE Buckets - 1
    BY <1>1, <2>1, <2>2, LesserIs
  <2> QED BY <1>1, <2>3 DEF Bucket
<1> QED BY <1>2, <1>3
-------------------------------------------------------------------------------
(* The counts.                                                              *)

(* Samples and buckets are finitely many.                                   *)
LEMMA SamplesFinite ==
  /\ IsFiniteSet(Samples) /\ Samples \subseteq Nat
  /\ \A T \in SUBSET Samples : IsFiniteSet(T)
  /\ \A T \in SUBSET Bucket : IsFiniteSet(T)
<1>1. 2 ^ Width \in Nat /\ Buckets \in Nat
  BY SubType, TwoPower
<1>2. IsFiniteSet(0 .. 2 ^ Width - 1) /\ IsFiniteSet(Bucket)
  <2> DEFINE w == 2 ^ Width
  <2>1. w - 1 \in Int /\ Buckets - 1 \in Int
    BY <1>1
  <2> HIDE DEF w
  <2>2. IsFiniteSet(0 .. w - 1) /\ IsFiniteSet(0 .. Buckets - 1)
    BY <2>1, FS_Interval
  <2> QED BY <2>2 DEF w, Bucket
<1>3. Samples \subseteq 0 .. 2 ^ Width - 1
  BY WidthAssumption
<1>4. IsFiniteSet(Samples)
  BY <1>2, <1>3, FS_Subset
<1>5. Samples \subseteq Nat
  BY <1>1, <1>3
<1>6. \A T \in SUBSET Samples : IsFiniteSet(T)
  BY <1>4, FS_Subset
<1>7. \A T \in SUBSET Bucket : IsFiniteSet(T)
  BY <1>2, FS_Subset
<1> QED BY <1>4, <1>5, <1>6, <1>7

(* One more at v adds one to a sum over v and to no other.                  *)
LEMMA SumBump ==
  ASSUME NEW S, NEW f \in [S -> Nat], NEW v \in S, NEW T \in SUBSET S, IsFiniteSet(T),
         NEW g \in [S -> Nat], g[v] = f[v] + 1, \A x \in S \ {v} : g[x] = f[x]
  PROVE  /\ v \in T => SumFunctionOnSet(g, T) = SumFunctionOnSet(f, T) + 1
         /\ v \notin T => SumFunctionOnSet(g, T) = SumFunctionOnSet(f, T)
<1> DEFINE R == T \ {v}
<1>1. g[v] = f[v] + 1 /\ f[v] \in Nat /\ \A x \in R : g[x] = f[x] /\ f[x] \in Nat
  OBVIOUS
<1>2. g \in [S -> Nat] /\ \A x \in T : f[x] \in Int /\ g[x] \in Int
  OBVIOUS
<1>3. IsFiniteSet(R)
  BY FS_Subset
<1>4. SumFunctionOnSet(g, R) = SumFunctionOnSet(f, R)
  <2> HIDE DEF R
  <2> QED BY <1>1, <1>3, SumSame
<1>5. ASSUME v \in T
      PROVE  SumFunctionOnSet(g, T) = SumFunctionOnSet(f, T) + 1
  <2>2. /\ SumFunctionOnSet(g, T) = g[v] + SumFunctionOnSet(g, R)
        /\ SumFunctionOnSet(f, T) = f[v] + SumFunctionOnSet(f, R)
    BY <1>2, <1>5, SumRemove
  <2>3. SumFunctionOnSet(f, R) \in Int
    BY <1>1, <1>3, SumType
  <2> QED BY <1>1, <1>4, <2>2, <2>3
<1>6. ASSUME v \notin T
      PROVE  SumFunctionOnSet(g, T) = SumFunctionOnSet(f, T)
  <2>1. R = T
    BY <1>6
  <2> QED BY <1>4, <2>1
<1> QED BY <1>5, <1>6

(* Adding up nothing but 0.                                                 *)
LEMMA SumZero ==
  ASSUME NEW f, NEW T, IsFiniteSet(T), \A x \in T : f[x] = 0
  PROVE  SumFunctionOnSet(f, T) = 0
<1> DEFINE G == {U \in SUBSET T : SumFunctionOnSet(f, U) = 0}
<1>1. {} \in G
  BY SumEmpty
<1>2. ASSUME NEW U \in SUBSET T, U # {}, \A x \in U : U \ {x} \in G PROVE U \in G
  <2>1. PICK x \in U : TRUE
    BY <1>2
  <2>2. IsFiniteSet(U) /\ \A y \in U : f[y] \in Int
    BY FS_Subset
  <2>3. SumFunctionOnSet(f, U) = f[x] + SumFunctionOnSet(f, U \ {x})
    BY <2>1, <2>2, SumRemove
  <2>4. SumFunctionOnSet(f, U \ {x}) = 0 /\ f[x] = 0
    BY <1>2, <2>1
  <2> QED BY <2>3, <2>4
<1>3. SUBSET T \subseteq G
  <2> HIDE DEF G
  <2> QED BY <1>1, <1>2, SubsetsGood
<1> QED BY <1>3

(* Every sample is counted, in its bucket.                                  *)
Counted ==
  /\ samples \in [Samples -> Nat]
  /\ hist.counts \in [Bucket -> Nat]
  /\ hist.count = SumFunctionOnSet(samples, Samples)
  /\ \A b \in Bucket :
       hist.counts[b] = SumFunctionOnSet(samples, {v \in Samples : BucketOf(v) = b})

(* A new or reset histogram counts nothing.                                 *)
LEMMA NewCounted == hist = NewHistogram /\ samples = None => Counted
<1> SUFFICES ASSUME hist = NewHistogram, samples = None PROVE Counted
  OBVIOUS
<1>1. samples \in [Samples -> Nat] /\ \A v \in Samples : samples[v] = 0
  BY DEF None
<1>2. /\ hist.counts = [b \in Bucket |-> 0]
      /\ hist.count = 0
  BY DEF NewHistogram
<1>3. \A T \in SUBSET Samples : SumFunctionOnSet(samples, T) = 0
  BY <1>1, SamplesFinite, SumZero
<1>4. hist.count = SumFunctionOnSet(samples, Samples)
  BY <1>2, <1>3
<1>5. ASSUME NEW b \in Bucket
      PROVE  hist.counts[b] = SumFunctionOnSet(samples, {v \in Samples : BucketOf(v) = b})
  <2> DEFINE T == {v \in Samples : BucketOf(v) = b}
  <2>1. T \in SUBSET Samples
    OBVIOUS
  <2> HIDE DEF T
  <2>2. SumFunctionOnSet(samples, T) = 0 /\ hist.counts[b] = 0
    BY <1>2, <1>3, <2>1
  <2> QED BY <2>2 DEF T
<1>6. hist.counts \in [Bucket -> Nat]
  BY <1>2
<1> QED BY <1>1, <1>4, <1>5, <1>6 DEF Counted

(* record() counts its value.                                               *)
LEMMA RecordCounted ==
  ASSUME Counted, NEW v \in Samples, Record(v)
  PROVE  Counted'
<1>1. /\ samples \in [Samples -> Nat] /\ hist.counts \in [Bucket -> Nat]
      /\ hist.count = SumFunctionOnSet(samples, Samples)
  BY DEF Counted
<1>2. /\ samples' = [samples EXCEPT ![v] = @ + 1]
      /\ hist'.counts = [hist.counts EXCEPT ![BucketOf(v)] = @ + 1]
      /\ hist'.count = hist.count + 1
  BY DEF Record
<1>3. BucketOf(v) \in Bucket
  BY BucketClamps, WidthAssumption
<1>7. /\ samples' \in [Samples -> Nat] /\ samples'[v] = samples[v] + 1
      /\ \A w \in Samples \ {v} : samples'[w] = samples[w]
  BY <1>1, <1>2
<1>4. hist'.count = SumFunctionOnSet(samples', Samples)
  <2>1. Samples \in SUBSET Samples /\ v \in Samples /\ IsFiniteSet(Samples)
    BY SamplesFinite
  <2>2. SumFunctionOnSet(samples', Samples) = SumFunctionOnSet(samples, Samples) + 1
    BY <1>1, <1>7, <2>1, SumBump
  <2> QED BY <1>1, <1>2, <2>2
<1>5. ASSUME NEW b \in Bucket
      PROVE  hist'.counts[b] = SumFunctionOnSet(samples', {w \in Samples : BucketOf(w) = b})
  <2> DEFINE T == {w \in Samples : BucketOf(w) = b}
  <2>1. T \in SUBSET Samples /\ (v \in T <=> BucketOf(v) = b)
    OBVIOUS
  <2>2. hist.counts[b] = SumFunctionOnSet(samples, T) /\ hist.counts[b] \in Nat
    BY <1>1 DEF Counted
  <2> HIDE DEF T
  <2>6. IsFiniteSet(T)
    BY <2>1, SamplesFinite
  <2>3. /\ v \in T => SumFunctionOnSet(samples', T) = SumFunctionOnSet(samples, T) + 1
        /\ v \notin T => SumFunctionOnSet(samples', T) = SumFunctionOnSet(samples, T)
    BY <1>1, <1>7, <2>1, <2>6, SumBump
  <2>4. /\ BucketOf(v) = b => hist'.counts[b] = hist.counts[b] + 1
        /\ BucketOf(v) # b => hist'.counts[b] = hist.counts[b]
    BY <1>1, <1>2, <1>3
  <2>5. hist'.counts[b] = SumFunctionOnSet(samples', T)
    BY <2>1, <2>2, <2>3, <2>4
  <2> QED BY <2>5 DEF T
<1>6. samples' \in [Samples -> Nat] /\ hist'.counts \in [Bucket -> Nat]
  BY <1>1, <1>2, <1>3
<1> QED BY <1>4, <1>5, <1>6 DEF Counted

(* Record() counts a value in its bucket and nothing else: on every         *)
(* schedule, between resets and over them, each bucket holds the number of  *)
(* the samples bucket() puts there.                                         *)
THEOREM CountedAlways == Spec => []Counted
<1>1. Init => Counted
  BY NewCounted DEF Init
<1>2. Counted /\ [Next]_vars => Counted'
  <2> SUFFICES ASSUME Counted, [Next]_vars PROVE Counted'
    OBVIOUS
  <2>1. CASE \E v \in Samples : Record(v)
    BY <2>1, RecordCounted
  <2>2. CASE Reset
    <3>1. (hist = NewHistogram /\ samples = None => Counted)'
      BY NewCounted, PTL
    <3> QED BY <2>2, <3>1 DEF Reset
  <2>3. CASE UNCHANGED vars
    BY <2>3 DEF vars, Counted
  <2> QED BY <2>1, <2>2, <2>3 DEF Next
<1> QED BY <1>1, <1>2, PTL DEF Spec
-------------------------------------------------------------------------------
(* A bucket is an interval.                                                 *)

(* A value has the position whose interval it lies in, and no other.        *)
LEMMA IntervalIs ==
  ASSUME NEW v \in 0 .. 2 ^ Width - 1, NEW b \in Nat
  PROVE  Position(v) = b <=> ValueOf(b) <= v /\ v < ValueOf(b + 1)
<1> DEFINE p == Position(v)
<1>1. v \in Nat /\ p \in Nat /\ ValueOf(p) <= v /\ v < ValueOf(p + 1)
  <2>1. 2 ^ Width \in Nat
    BY SubType, TwoPower
  <2> QED BY <2>1, Placed
<1> HIDE DEF p
<1>2. /\ ValueOf(p) \in Nat /\ ValueOf(p + 1) \in Nat
      /\ ValueOf(b) \in Nat /\ ValueOf(b + 1) \in Nat
  BY <1>1, ValuesAscend
<1>3. CASE b < p
  <2>1. ValueOf(b + 1) <= ValueOf(p)
    <3>1. CASE b + 1 < p
      BY <1>1, <1>2, <3>1, ValuesAscend
    <3>2. CASE b + 1 = p
      BY <1>2, <3>2
    <3> QED BY <1>1, <1>3, <3>1, <3>2
  <2> QED BY <1>1, <1>2, <1>3, <2>1 DEF p
<1>4. CASE p < b
  <2>1. ValueOf(p + 1) <= ValueOf(b)
    <3>1. CASE p + 1 < b
      BY <1>1, <1>2, <3>1, ValuesAscend
    <3>2. CASE p + 1 = b
      BY <1>2, <3>2
    <3> QED BY <1>1, <1>4, <3>1, <3>2
  <2> QED BY <1>1, <1>2, <1>4, <2>1 DEF p
<1>5. CASE p = b
  BY <1>1, <1>5 DEF p
<1> QED BY <1>1, <1>3, <1>4, <1>5

(* bucket() and value_of() invert each other at every exponent, for every   *)
(* mantissa and width: each bucket but the last counts exactly the samples  *)
(* from its smallest value up to that of the next.                          *)
THEOREM BucketsCorrect == Spec => []BucketsExact
<1>1. Counted => BucketsExact
  <2> SUFFICES ASSUME Counted, NEW b \in 0 .. Buckets - 2
               PROVE  hist.counts[b] = SumFunctionOnSet(samples,
                        {v \in Samples : ValueOf(b) <= v /\ v < ValueOf(b + 1)})
    BY DEF BucketsExact
  <2>1. Buckets \in Nat /\ b \in Bucket /\ b \in Nat /\ b < Buckets - 1
    BY SubType DEF Bucket
  <2>2. ASSUME NEW v \in Samples
        PROVE  BucketOf(v) = b <=> ValueOf(b) <= v /\ v < ValueOf(b + 1)
    <3>1. v \in 0 .. 2 ^ Width - 1
      BY WidthAssumption
    <3>2. /\ Position(v) < Buckets - 1 => BucketOf(v) = Position(v)
          /\ Position(v) >= Buckets - 1 => BucketOf(v) = Buckets - 1
          /\ Position(v) \in Nat
      BY <3>1, BucketClamps, Placed
    <3>3. BucketOf(v) = b <=> Position(v) = b
      BY <2>1, <3>2
    <3> QED BY <2>1, <3>1, <3>3, IntervalIs
  <2>3. {v \in Samples : BucketOf(v) = b}
          = {v \in Samples : ValueOf(b) <= v /\ v < ValueOf(b + 1)}
    BY <2>2
  <2>4. hist.counts[b] = SumFunctionOnSet(samples, {v \in Samples : BucketOf(v) = b})
    BY <2>1 DEF Counted
  <2> QED BY <2>3, <2>4
<1> QED BY <1>1, CountedAlways, PTL

(* kBuckets as the code has it: no value of Width bits is clamped.          *)
Roomy == Buckets >= ((Width - Mantissa) + 1) * Sub

(* Nothing is clamped.                                                      *)
LEMMA BucketIsPosition ==
  ASSUME Roomy, NEW v \in 0 .. 2 ^ Width - 1
  PROVE  BucketOf(v) = Position(v)
<1>1. /\ Position(v) \in Nat /\ Position(v) < ((Width - Mantissa) + 1) * Sub
      /\ Buckets \in Nat /\ Sub \in Nat /\ Width \in Nat /\ Mantissa \in Nat
  BY Placed, SubType
<1>2. Position(v) < Buckets
  <2> DEFINE r == ((Width - Mantissa) + 1) * Sub
  <2>1. r \in Int
    BY <1>1
  <2>2. r <= Buckets /\ Position(v) < r
    BY <1>1 DEF Roomy
  <2> HIDE DEF r
  <2> QED BY <1>1, <2>1, <2>2
<1>3. /\ Position(v) < Buckets - 1 => BucketOf(v) = Position(v)
      /\ Position(v) >= Buckets - 1 => BucketOf(v) = Buckets - 1
  BY BucketClamps
<1> QED BY <1>1, <1>2, <1>3

(* A larger value is not in an earlier bucket.                              *)
LEMMA BucketsInOrder ==
  ASSUME Roomy, NEW v \in 0 .. 2 ^ Width - 1, NEW w \in 0 .. 2 ^ Width - 1, v <= w
  PROVE  BucketOf(v) <= BucketOf(w)
<1> DEFINE p == Position(v)
           q == Position(w)
<1>1. BucketOf(v) = p /\ BucketOf(w) = q
  BY BucketIsPosition
<1>2. /\ p \in Nat /\ q \in Nat /\ ValueOf(p) <= v /\ w < ValueOf(q + 1)
      /\ v \in Nat /\ w \in Nat
  <2>1. 2 ^ Width \in Nat
    BY SubType, TwoPower
  <2> QED BY <2>1, Placed
<1> HIDE DEF p, q
<1>3. ASSUME q < p PROVE FALSE
  <2>1. ValueOf(q + 1) <= ValueOf(p)
    <3>1. ValueOf(q + 1) \in Nat
      BY <1>2, ValuesAscend
    <3>2. CASE q + 1 < p
      BY <1>2, <3>1, <3>2, ValuesAscend
    <3>3. CASE q + 1 = p
      BY <3>1, <3>3
    <3> QED BY <1>2, <1>3, <3>2, <3>3
  <2>2. ValueOf(q + 1) \in Nat /\ ValueOf(p) \in Nat
    BY <1>2, ValuesAscend
  <2> QED BY <1>2, <2>1, <2>2
<1> QED BY <1>1, <1>2, <1>3
-------------------------------------------------------------------------------
(* Order statistics.                                                        *)

(* A sum over more is not less.                                             *)
LEMMA SumGrows ==
  ASSUME NEW f, NEW S, IsFiniteSet(S), \A x \in S : f[x] \in Nat, NEW T \in SUBSET S
  PROVE  /\ SumFunctionOnSet(f, T) \in Nat /\ SumFunctionOnSet(f, S) \in Nat
         /\ SumFunctionOnSet(f, T) <= SumFunctionOnSet(f, S)
<1> DEFINE R == S \ T
<1>1. IsFiniteSet(T) /\ IsFiniteSet(R)
  BY FS_Subset
<1>2. T \cap R = {} /\ T \cup R = S /\ \A x \in R : f[x] \in Nat /\ f[x] \in Int
  OBVIOUS
<1>3. \A x \in T : f[x] \in Nat /\ f[x] \in Int
  OBVIOUS
<1> HIDE DEF R
<1>4. SumFunctionOnSet(f, T) \in Nat /\ SumFunctionOnSet(f, R) \in Nat
  <2>1. SumFunctionOnSet(f, T) \in Nat
    BY <1>1, <1>3, SumType
  <2>2. SumFunctionOnSet(f, R) \in Nat
    BY <1>1, <1>2, SumType
  <2> QED BY <2>1, <2>2
<1>5. SumFunctionOnSet(f, T \cup R) = SumFunctionOnSet(f, T) + SumFunctionOnSet(f, R)
  <2>1. \A x \in T \cup R : f[x] \in Int
    BY <1>2, <1>3
  <2> QED BY <1>1, <1>2, <2>1, SumUnion
<1> DEFINE a == SumFunctionOnSet(f, T)
           b == SumFunctionOnSet(f, R)
           e == SumFunctionOnSet(f, S)
<1>6. a \in Nat /\ b \in Nat /\ e = a + b
  BY <1>2, <1>4, <1>5
<1> HIDE DEF a, b, e
<1>7. a \in Nat /\ e \in Nat /\ a <= e
  BY <1>6
<1> QED BY <1>7 DEF a, e

(* The least member.                                                        *)
LEMMA MinIs ==
  ASSUME NEW S \in SUBSET Int, NEW x \in S, \A y \in S : x <= y
  PROVE  Min(S) = x
<1>1. \A y \in S : (\A z \in S : y <= z) <=> y = x
  OBVIOUS
<1> QED BY <1>1 DEF Min

(* The members of a group; the members by which r were seen, going up; the  *)
(* groups by which r were counted.                                          *)
Group(S, g, b)    == {x \in S : g[x] = b}
Seeing(f, S, r)   == {v \in S : SumFunctionOnSet(f, {w \in S : w <= v}) >= r}
GroupsBy(c, n, r) == {b \in 0 .. n - 1 : SumFunctionOnSet(c, 0 .. b) >= r}

(* The members of S, each f times, are put in the groups 0 to n - 1 in      *)
(* their order, and c counts the groups.                                    *)
Grouped(n, c, S, f, g) ==
  /\ n \in Nat /\ S \in SUBSET Nat /\ IsFiniteSet(S)
  /\ \A x \in S : f[x] \in Nat
  /\ \A x \in S : g[x] \in 0 .. n - 1
  /\ \A x, y \in S : x <= y => g[x] <= g[y]
  /\ \A b \in 0 .. n - 1 : c[b] = SumFunctionOnSet(f, Group(S, g, b))

(* The first group by which r members were seen is that of the first member *)
(* by which r were.                                                         *)
LEMMA FirstGroup ==
  ASSUME NEW n, NEW c, NEW S, NEW f, NEW g, Grouped(n, c, S, f, g),
         NEW r \in Nat, 1 <= r, r <= SumFunctionOnSet(f, S)
  PROVE  /\ Min(Seeing(f, S, r)) \in S /\ GroupsBy(c, n, r) # {}
         /\ Min(GroupsBy(c, n, r)) = g[Min(Seeing(f, S, r))]
<1> SUFFICES ASSUME n \in Nat, S \in SUBSET Nat, IsFiniteSet(S),
                    \A x \in S : f[x] \in Nat,
                    \A x \in S : g[x] \in 0 .. n - 1,
                    \A x, y \in S : x <= y => g[x] <= g[y],
                    \A b \in 0 .. n - 1 : c[b] = SumFunctionOnSet(f, Group(S, g, b)),
                    NEW X, X = Seeing(f, S, r), NEW R, R = GroupsBy(c, n, r)
             PROVE  Min(X) \in S /\ R # {} /\ Min(R) = g[Min(X)]
  BY DEF Grouped
<1> USE DEF Group, Seeing, GroupsBy
<1> DEFINE Upto(v) == {w \in S : w <= v}
           A(v)    == SumFunctionOnSet(f, Upto(v))
           Up(b)   == {w \in S : g[w] <= b}
           B(b)    == SumFunctionOnSet(f, Up(b))
<1>1. \A T \in SUBSET S : IsFiniteSet(T) /\ \A x \in T : f[x] \in Nat
  BY FS_Subset
<1>2. ASSUME NEW b \in 0 .. n - 1 PROVE SumFunctionOnSet(c, 0 .. b) = B(b)
  <2> DEFINE T == Up(b)
             I == 0 .. b
             d == [i \in I |-> SumFunctionOnSet(f, {x \in T : g[x] = i})]
  <2>1. IsFiniteSet(T) /\ \A x \in T : f[x] \in Int /\ g[x] \in I
    <3>1. T \in SUBSET S
      OBVIOUS
    <3>2. \A x \in T : g[x] \in 0 .. b
      OBVIOUS
    <3> QED BY <1>1, <3>1, <3>2
  <2>2. IsFiniteSet(I)
    BY FS_Interval
  <2>3. SumFunctionOnSet(f, T) = SumFunctionOnSet(d, I)
    <3> HIDE DEF T, I
    <3> QED BY <2>1, <2>2, SumGrouped
  <2>4. ASSUME NEW i \in I PROVE c[i] = d[i]
    <3>1. i \in 0 .. n - 1 /\ {x \in T : g[x] = i} = {x \in S : g[x] = i}
      OBVIOUS
    <3> QED BY <3>1
  <2>5. SumFunctionOnSet(c, I) = SumFunctionOnSet(d, I)
    <3> HIDE DEF I, d
    <3> QED BY <2>2, <2>4, SumSame
  <2> QED BY <2>3, <2>5
<1>3. PICK z \in S : \A w \in S : w <= z
  <2>1. S # {}
    <3>1. SumFunctionOnSet(f, {}) = 0
      BY SumEmpty
    <3>2. S = {} => r <= 0
      BY <3>1
    <3> QED BY <3>2
  <2>2. \E z \in S : \A w \in S : w <= z
    <3> DEFINE G == {T \in SUBSET S : T # {} => \E z \in T : \A w \in T : w <= z}
    <3>1. {} \in G
      OBVIOUS
    <3>2. ASSUME NEW T \in SUBSET S, T # {}, \A x \in T : T \ {x} \in G PROVE T \in G
      <4>1. PICK x \in T : TRUE
        BY <3>2
      <4>2. CASE T \ {x} = {}
        <5>1. \A w \in T : w <= x
          BY <4>2
        <5> QED BY <5>1
      <4>3. CASE T \ {x} # {}
        <5>1. PICK z \in T \ {x} : \A w \in T \ {x} : w <= z
          BY <3>2, <4>1, <4>3
        <5>2. \E y \in T : \A w \in T : w <= y
          <6>1. CASE x <= z
            <7>1. \A w \in T : w <= z
              BY <5>1, <6>1
            <7> QED BY <7>1
          <6>2. CASE ~ (x <= z)
            <7>1. \A w \in T : w <= x
              BY <5>1, <6>2
            <7> QED BY <7>1
          <6> QED BY <6>1, <6>2
        <5> QED BY <5>2
      <4> QED BY <4>2, <4>3
    <3>3. SUBSET S \subseteq G
      <4> HIDE DEF G
      <4> QED BY <3>1, <3>2, SubsetsGood
    <3> QED BY <2>1, <3>3
  <2> QED BY <2>2
<1>4. z \in X
  <2>1. Upto(z) = S
    BY <1>3
  <2> QED BY <2>1
<1>5. PICK x \in X : \A y \in X : x <= y
  <2>1. X \in SUBSET Nat /\ X # {}
    BY <1>4
  <2> QED BY <2>1, LeastExists
<1>6. Min(X) = x /\ x \in S /\ A(x) >= r
  <2>1. X \in SUBSET Int /\ x \in S /\ A(x) >= r
    <3>1. \A v \in X : v \in S /\ A(v) >= r
      OBVIOUS
    <3>2. x \in X /\ S \subseteq Int
      BY <1>5
    <3> QED BY <3>1, <3>2
  <2>2. Min(X) = x
    BY <1>5, <2>1, MinIs
  <2> QED BY <2>1, <2>2
<1>7. g[x] \in 0 .. n - 1 /\ B(g[x]) >= r
  <2>1. Upto(x) \in SUBSET Up(g[x]) /\ Up(g[x]) \in SUBSET S
    BY <1>6
  <2> DEFINE T == Upto(x)
             U == Up(g[x])
  <2>2. IsFiniteSet(U) /\ \A y \in U : f[y] \in Nat
    BY <1>1, <2>1
  <2>3. A(x) <= B(g[x]) /\ A(x) \in Nat /\ B(g[x]) \in Nat
    <3> HIDE DEF T, U
    <3>1. /\ SumFunctionOnSet(f, T) <= SumFunctionOnSet(f, U)
          /\ SumFunctionOnSet(f, T) \in Nat /\ SumFunctionOnSet(f, U) \in Nat
      BY <2>1, <2>2, SumGrows DEF T, U
    <3> QED BY <3>1 DEF T, U
  <2> DEFINE a == A(x)
             e == B(g[x])
  <2>4. a <= e /\ a \in Nat /\ e \in Nat /\ a >= r
    BY <1>6, <2>3
  <2> HIDE DEF a, e, A, B, Upto, Up
  <2>5. e >= r
    BY <2>4
  <2> QED BY <1>6, <2>5 DEF e
<1>8. SumFunctionOnSet(f, {w \in S : w < x}) < r
  <2> DEFINE L == {w \in S : w < x}
  <2>1. L \in SUBSET S /\ IsFiniteSet(L)
    <3>1. L \in SUBSET S
      OBVIOUS
    <3> QED BY <1>1, <3>1
  <2>2. CASE L = {}
    <3>1. SumFunctionOnSet(f, {}) = 0 /\ 0 < r
      BY SumEmpty
    <3> DEFINE q == SumFunctionOnSet(f, L)
    <3>2. q = 0
      <4> HIDE DEF L
      <4> QED BY <2>2, <3>1
    <3> HIDE DEF q
    <3>3. q < r
      BY <3>1, <3>2
    <3> QED BY <3>3 DEF q
  <2>3. CASE L # {}
    <3>1. L \in SUBSET (0 .. x)
      <4>1. x \in Nat /\ \A w \in L : w \in Nat /\ w < x
        BY <1>6
      <4> HIDE DEF L
      <4>2. \A w \in L : w \in 0 .. x
        BY <4>1
      <4> QED BY <4>2
    <3>2. PICK y \in L : \A w \in L : y >= w
      <4> HIDE DEF L
      <4>1. x \in Nat
        BY <1>6
      <4> QED BY <2>3, <3>1, <4>1, GreatestExists
    <3>3. L = Upto(y) /\ y \in S /\ y < x
      <4>1. y \in S /\ y < x /\ x \in Nat /\ y \in Nat
        BY <1>6
      <4>2. \A w \in S : w \in Nat /\ (w < x => y >= w)
        BY <3>2
      <4>3. \A w \in S : w < x <=> w <= y
        BY <4>1, <4>2
      <4> QED BY <4>1, <4>3
    <3>4. y \notin X
      BY <1>5, <1>6, <3>3
    <3>5. ~ (A(y) >= r)
      BY <3>3, <3>4
    <3>6. A(y) \in Int
      <4>1. SumFunctionOnSet(f, L) \in Int
        <5> HIDE DEF L
        <5>1. \A w \in L : f[w] \in Int
          BY <2>1
        <5> QED BY <2>1, <5>1, SumType
      <4> QED BY <3>3, <4>1
    <3> HIDE DEF A, Upto
    <3>7. A(y) < r
      BY <3>5, <3>6
    <3> QED BY <3>3, <3>7 DEF A
  <2> QED BY <2>2, <2>3
<1>9. ASSUME NEW b \in 0 .. n - 1, b < g[x] PROVE ~ (B(b) >= r)
  <2> DEFINE L == {w \in S : w < x}
             T == Up(b)
  <2>1. T \in SUBSET L
    <3> SUFFICES ASSUME NEW w \in S, g[w] <= b, x <= w PROVE FALSE
      <4>1. x \in Nat /\ \A w \in S : w \in Nat
        BY <1>6
      <4>2. \A w \in S : w < x \/ x <= w
        BY <4>1
      <4> QED BY <4>2
    <3>1. g[x] <= g[w] /\ g[w] \in 0 .. n - 1 /\ g[x] \in 0 .. n - 1
      BY <1>6
    <3> QED BY <1>9, <3>1
  <2>2. IsFiniteSet(L) /\ \A w \in L : f[w] \in Nat
    <3>1. L \in SUBSET S
      OBVIOUS
    <3> QED BY <1>1, <3>1
  <2>3. SumFunctionOnSet(f, L) < r
    BY <1>8
  <2> HIDE DEF L, T
  <2>4. /\ SumFunctionOnSet(f, T) \in Nat /\ SumFunctionOnSet(f, L) \in Nat
        /\ SumFunctionOnSet(f, T) <= SumFunctionOnSet(f, L)
    BY <2>1, <2>2, SumGrows
  <2>5. ~ (SumFunctionOnSet(f, T) >= r)
    BY <2>3, <2>4
  <2> QED BY <2>5 DEF T
<1> HIDE DEF A, B, Upto, Up
<1>10. g[x] \in R /\ \A b \in R : g[x] <= b
  <2>1. g[x] \in R
    BY <1>2, <1>7
  <2>2. ASSUME NEW b \in R, b < g[x] PROVE FALSE
    BY <1>2, <1>9, <2>2
  <2>3. \A b \in R : b \in Int /\ g[x] \in Int
    BY <1>7
  <2> QED BY <2>1, <2>2, <2>3
<1>11. Min(R) = g[x]
  <2>1. R \in SUBSET Int
    OBVIOUS
  <2> QED BY <1>10, <2>1, MinIs
<1> QED BY <1>6, <1>10, <1>11

(* The nearest rank is unique, and rounding half up finds it.               *)
LEMMA RankIsNearest ==
  ASSUME NEW p \in 500 .. 1000, hist.count \in Nat, hist.count > 0
  PROVE  /\ Rank(hist.count, p) = NearestRank(p)
         /\ Rank(hist.count, p) \in 1 .. hist.count
<1> DEFINE n == hist.count
           t == 2 * p * n
           r == (t + 1000) \div 2000
<1>1. n \in Nat /\ n > 0 /\ t \in Nat /\ t >= 1000 * n /\ t <= 2000 * n
  <2>1. p * n \in Nat /\ 500 * n <= p * n /\ p * n <= 1000 * n
    <3> HIDE DEF n
    <3>1. n \in Nat /\ n > 0
      BY DEF n
    <3> DEFINE q == p - 500
               s == 1000 - p
    <3>2. q \in Nat /\ s \in Nat /\ p = 500 + q /\ 1000 = p + s
      OBVIOUS
    <3> HIDE DEF q, s
    <3>3. (500 + q) * n = 500 * n + q * n /\ q * n \in Nat
      BY <3>1, <3>2
    <3>4. (p + s) * n = p * n + s * n /\ s * n \in Nat /\ p * n \in Nat
      BY <3>1, <3>2
    <3> QED BY <3>1, <3>2, <3>3, <3>4
  <2>2. t = 2 * (p * n)
    <3> HIDE DEF n
    <3>1. n \in Nat /\ p \in Nat
      BY DEF n
    <3> QED BY <3>1
  <2> DEFINE y == p * n
  <2> HIDE DEF n, t, y
  <2>3. y \in Nat /\ 500 * n <= y /\ y <= 1000 * n /\ t = 2 * y /\ n \in Nat /\ n > 0
    BY <2>1, <2>2 DEF y, n
  <2>4. t \in Nat /\ t >= 1000 * n /\ t <= 2000 * n
    BY <2>3
  <2> QED BY <2>3, <2>4
<1>2. Rank(n, p) = r
  BY DEF Rank
<1> HIDE DEF t
<1>3. t + 1000 = 2000 * r + ((t + 1000) % 2000) /\ (t + 1000) % 2000 \in 0 .. 1999
      /\ r \in Int
  <2> DEFINE d == 2000
             u == t + 1000
  <2>1. u \in Int /\ d \in Nat /\ d > 0
    BY <1>1
  <2> HIDE DEF d, u
  <2>2. u = d * (u \div d) + (u % d) /\ u % d \in 0 .. d - 1 /\ u \div d \in Int
    BY <2>1, ModSplit
  <2> QED BY <2>2 DEF d, u
<1> HIDE DEF n, r
<1>4. 2000 * r - 1000 <= t /\ t < 2000 * r + 1000 /\ r \in 1 .. n
  BY <1>1, <1>3
<1>5. \A k \in 0 .. n : 2000 * k - 1000 <= t /\ t < 2000 * k + 1000 <=> k = r
  BY <1>1, <1>4
<1>6. NearestRank(p) = CHOOSE k \in 0 .. n : 2000 * k - 1000 <= t /\ t < 2000 * k + 1000
  BY DEF NearestRank, n, t
<1>7. r \in 0 .. n
  BY <1>1, <1>4
<1>8. NearestRank(p) = r
  BY <1>5, <1>6, <1>7
<1> QED BY <1>2, <1>4, <1>8 DEF n

(* The floor of a value: at most one part in Sub below it.                  *)
LEMMA FloorIs ==
  ASSUME Roomy, NEW v \in 0 .. 2 ^ Width - 1
  PROVE  /\ Floor(v) \in Nat /\ Floor(v) <= v /\ (v - Floor(v)) * Sub <= v
         /\ Floor(v) \in 0 .. 2 ^ Width - 1
<1>1. /\ Floor(v) = ValueOf(Position(v)) /\ Position(v) \in Nat
      /\ ValueOf(Position(v)) <= v /\ (v - ValueOf(Position(v))) * Sub <= v
  BY BucketIsPosition, Placed DEF Floor
<1>2. 2 ^ Width \in Nat
  BY SubType, TwoPower
<1>3. Floor(v) \in Nat
  BY <1>1, ValuesAscend
<1> QED BY <1>1, <1>2, <1>3

(* percentile() never reports another bucket than that of the order         *)
(* statistic, whatever the widths and the latencies: hypotheses are that    *)
(* kBuckets reaches every value and that no percentile below the median is  *)
(* asked for, so that a rank is never 0.                                    *)
THEOREM PercentileCorrect ==
  ASSUME Roomy, \A p \in Permilles : p >= 500
  PROVE  Spec => []PercentileExact
<1>1. Counted => PercentileExact
  <2> SUFFICES ASSUME Counted, hist.count > 0, NEW p \in Permilles
               PROVE  LET x == AtRank(NearestRank(p))
                          r == Percentile(hist, p)
                      IN r = Floor(x) /\ r <= x /\ (x - r) * Sub <= x
    BY DEF PercentileExact
  <2> DEFINE k == Rank(hist.count, p)
             g == [v \in Samples |-> BucketOf(v)]
             X == Seeing(samples, Samples, k)
             R == GroupsBy(hist.counts, Buckets, k)
             x == Min(X)
  <2>1. /\ IsFiniteSet(Samples) /\ Samples \in SUBSET Nat
        /\ \A v \in Samples : samples[v] \in Nat
        /\ hist.count = SumFunctionOnSet(samples, Samples) /\ hist.count \in Nat
    <3>1. IsFiniteSet(Samples) /\ Samples \in SUBSET Nat
      BY SamplesFinite
    <3>2. \A v \in Samples : samples[v] \in Nat /\ samples[v] \in Int
      BY DEF Counted
    <3>3. SumFunctionOnSet(samples, Samples) \in Nat
      BY <3>1, <3>2, SumType
    <3> QED BY <3>1, <3>2, <3>3 DEF Counted
  <2>2. k = NearestRank(p) /\ k \in 1 .. hist.count
    <3>1. p \in 500 .. 1000
      BY WidthAssumption
    <3> QED BY <2>1, <3>1, RankIsNearest
  <2>3. \A v \in Samples : v \in 0 .. 2 ^ Width - 1 /\ g[v] = BucketOf(v)
    BY WidthAssumption
  <2>4. /\ Buckets \in Nat /\ \A v \in Samples : g[v] \in 0 .. Buckets - 1
        /\ \A v, w \in Samples : v <= w => g[v] <= g[w]
    BY <2>3, SubType, BucketClamps, BucketsInOrder DEF Bucket
  <2>5. \A b \in 0 .. Buckets - 1 :
          hist.counts[b] = SumFunctionOnSet(samples, Group(Samples, g, b))
    <3> TAKE b \in 0 .. Buckets - 1
    <3>1. Group(Samples, g, b) = {v \in Samples : BucketOf(v) = b}
      BY <2>3 DEF Group
    <3>2. hist.counts[b] = SumFunctionOnSet(samples, {v \in Samples : BucketOf(v) = b})
      BY DEF Counted, Bucket
    <3> QED BY <3>1, <3>2
  <2>6. k \in Nat /\ 1 <= k /\ k <= SumFunctionOnSet(samples, Samples)
    <3> HIDE DEF k
    <3> QED BY <2>1, <2>2
  <2>7. x \in Samples /\ R # {} /\ Min(R) = g[x]
    <3> HIDE DEF k, g
    <3>1. Grouped(Buckets, hist.counts, Samples, samples, g)
      BY <2>1, <2>4, <2>5 DEF Grouped
    <3> QED BY <2>6, <3>1, FirstGroup
  <2>9. AtRank(NearestRank(p)) = x
    BY <2>2 DEF AtRank, Seeing
  <2>10. Percentile(hist, p) = ValueOf(Min(R))
    <3>1. hist.count # 0
      BY <2>1
    <3> QED BY <2>7, <3>1 DEF Percentile, GroupsBy, Bucket
  <2> HIDE DEF k, X, R, x
  <2>11. Percentile(hist, p) = Floor(x)
    BY <2>3, <2>7, <2>10 DEF Floor
  <2>12. Floor(x) <= x /\ (x - Floor(x)) * Sub <= x
    BY <2>3, <2>7, FloorIs
  <2> QED BY <2>9, <2>11, <2>12
<1> QED BY <1>1, CountedAlways, PTL
-------------------------------------------------------------------------------
(* The correction for the clock.                                            *)

(* Buckets that count 0 add nothing.                                        *)
LEMMA SumUsed ==
  ASSUME NEW f, NEW I, IsFiniteSet(I), \A b \in I : f[b] \in Nat
  PROVE  SumFunctionOnSet(f, {b \in I : f[b] > 0}) = SumFunctionOnSet(f, I)
<1> DEFINE U == {b \in I : f[b] > 0}
           Z == I \ U
<1>1. IsFiniteSet(U) /\ IsFiniteSet(Z)
  BY FS_Subset
<1>2. U \cup Z = I /\ U \cap Z = {} /\ \A b \in Z : f[b] = 0
  OBVIOUS
<1>3. \A b \in U \cup Z : f[b] \in Int
  BY <1>2
<1>4. \A b \in U : f[b] \in Int
  OBVIOUS
<1> HIDE DEF U, Z
<1>5. SumFunctionOnSet(f, U \cup Z) = SumFunctionOnSet(f, U) + SumFunctionOnSet(f, Z)
  BY <1>1, <1>2, <1>3, SumUnion
<1>6. SumFunctionOnSet(f, Z) = 0
  BY <1>1, <1>2, SumZero
<1>7. SumFunctionOnSet(f, U) \in Int
  BY <1>1, <1>4, SumType
<1>8. SumFunctionOnSet(f, U) = SumFunctionOnSet(f, I)
  <2>1. U \cup Z = I
    BY <1>2
  <2> DEFINE x == SumFunctionOnSet(f, U)
             y == SumFunctionOnSet(f, Z)
             z == SumFunctionOnSet(f, I)
  <2>2. x \in Int /\ y = 0 /\ z = x + y
    BY <1>5, <1>6, <1>7, <2>1
  <2> HIDE DEF x, y, z
  <2>3. x = z
    BY <2>2
  <2> QED BY <2>3 DEF x, z
<1> QED BY <1>8 DEF U

(* A sum of counts is one of samples.                                       *)
LEMMA CountsOfSamples ==
  ASSUME Counted, NEW I \in SUBSET Bucket, NEW T \in SUBSET Samples,
         \A v \in Samples : v \in T <=> BucketOf(v) \in I
  PROVE  SumFunctionOnSet(hist.counts, I) = SumFunctionOnSet(samples, T)
<1> DEFINE k == [v \in Samples |-> BucketOf(v)]
           d == [i \in I |-> SumFunctionOnSet(samples, {v \in T : k[v] = i})]
<1>1. IsFiniteSet(T) /\ IsFiniteSet(I)
  BY SamplesFinite
<1>2. \A v \in T : samples[v] \in Int /\ k[v] \in I
  BY DEF Counted
<1>3. SumFunctionOnSet(samples, T) = SumFunctionOnSet(d, I)
  <2> HIDE DEF k
  <2> QED BY <1>1, <1>2, SumGrouped
<1>4. ASSUME NEW i \in I PROVE hist.counts[i] = d[i]
  <2>1. {v \in T : k[v] = i} = {v \in Samples : BucketOf(v) = i}
    OBVIOUS
  <2>2. hist.counts[i] = SumFunctionOnSet(samples, {v \in Samples : BucketOf(v) = i})
    BY DEF Counted
  <2> HIDE DEF k
  <2>3. d[i] = SumFunctionOnSet(samples, {v \in T : k[v] = i})
    OBVIOUS
  <2> QED BY <2>1, <2>2, <2>3
<1> HIDE DEF d
<1>5. SumFunctionOnSet(hist.counts, I) = SumFunctionOnSet(d, I)
  BY <1>1, <1>4, SumSame
<1> QED BY <1>3, <1>5

(* A corrected value is a value, and not larger.                            *)
LEMMA CorrectedIs ==
  ASSUME NEW v \in 0 .. 2 ^ Width - 1, NEW o \in Nat
  PROVE  /\ Corrected(v, o) \in 0 .. 2 ^ Width - 1
         /\ Corrected(v, o) <= v
         /\ Corrected(v, o) = IF v > o THEN v - o ELSE 0
<1>1. 2 ^ Width \in Nat
  BY SubType, TwoPower
<1> QED BY <1>1 DEF Corrected

(* shifted() has the samples in the buckets of their corrected floors.      *)
LEMMA ShiftedGroups ==
  ASSUME Counted, Roomy, NEW o \in Overheads,
         NEW g, g = [v \in Samples |-> BucketOf(Corrected(Floor(v), o))]
  PROVE  /\ Shifted(o).count = hist.count
         /\ Grouped(Buckets, Shifted(o).counts, Samples, samples, g)
<1> DEFINE used == {b \in Bucket : hist.counts[b] > 0}
           To(b) == Corrected(ValueOf(b), o)
           From(c) == {b \in used : BucketOf(To(b)) = c}
<1>1. /\ Shifted(o).count = SumFunctionOnSet(hist.counts, used)
      /\ \A c \in Bucket : Shifted(o).counts[c] = SumFunctionOnSet(hist.counts, From(c))
  BY DEF Shifted
<1>2. /\ hist.counts \in [Bucket -> Nat] /\ samples \in [Samples -> Nat]
      /\ hist.count = SumFunctionOnSet(samples, Samples)
  BY DEF Counted
<1>3. \A v \in Samples : v \in 0 .. 2 ^ Width - 1 /\ BucketOf(v) \in Bucket
  BY BucketClamps, WidthAssumption
<1>4. o \in Nat /\ Buckets \in Nat
  <2>1. 2 ^ Width \in Nat
    BY SubType, TwoPower
  <2> QED BY <2>1, SubType, WidthAssumption
<1>5. \A v \in Samples : g[v] = BucketOf(Corrected(Floor(v), o)) /\ g[v] = BucketOf(To(BucketOf(v)))
  BY DEF Floor
<1> HIDE DEF To
<1>6. Shifted(o).count = hist.count
  <2>1. SumFunctionOnSet(hist.counts, used) = SumFunctionOnSet(hist.counts, Bucket)
    <3>1. IsFiniteSet(Bucket) /\ \A b \in Bucket : hist.counts[b] \in Nat
      BY <1>2, SamplesFinite
    <3> QED BY <3>1, SumUsed
  <2>2. SumFunctionOnSet(hist.counts, Bucket) = SumFunctionOnSet(samples, Samples)
    <3>1. \A v \in Samples : v \in Samples <=> BucketOf(v) \in Bucket
      BY <1>3
    <3> QED BY <3>1, CountsOfSamples
  <2> QED BY <1>1, <1>2, <2>1, <2>2
<1>7. ASSUME NEW c \in 0 .. Buckets - 1
      PROVE  Shifted(o).counts[c] = SumFunctionOnSet(samples, Group(Samples, g, c))
  <2> DEFINE I == {b \in Bucket : BucketOf(To(b)) = c}
             T == Group(Samples, g, c)
  <2>1. {b \in I : hist.counts[b] > 0} = From(c)
    OBVIOUS
  <2>2. I \in SUBSET Bucket /\ T \in SUBSET Samples
    BY DEF Group
  <2>3. SumFunctionOnSet(hist.counts, {b \in I : hist.counts[b] > 0})
          = SumFunctionOnSet(hist.counts, I)
    <3> HIDE DEF I
    <3>1. IsFiniteSet(I) /\ \A b \in I : hist.counts[b] \in Nat
      BY <1>2, <2>2, SamplesFinite
    <3> QED BY <3>1, SumUsed
  <2>4. \A v \in Samples : v \in T <=> BucketOf(v) \in I
    BY <1>3, <1>5 DEF Group
  <2>5. SumFunctionOnSet(hist.counts, I) = SumFunctionOnSet(samples, T)
    <3> HIDE DEF I, T
    <3> QED BY <2>2, <2>4, CountsOfSamples
  <2>6. Shifted(o).counts[c] = SumFunctionOnSet(hist.counts, From(c))
    BY <1>1 DEF Bucket
  <2> QED BY <2>1, <2>3, <2>5, <2>6
<1>8. \A v \in Samples :
        /\ Floor(v) \in 0 .. 2 ^ Width - 1
        /\ Corrected(Floor(v), o) \in 0 .. 2 ^ Width - 1
        /\ g[v] \in 0 .. Buckets - 1
  <2> TAKE v \in Samples
  <2>1. Floor(v) \in 0 .. 2 ^ Width - 1
    BY <1>3, FloorIs
  <2>2. Corrected(Floor(v), o) \in 0 .. 2 ^ Width - 1
    BY <1>4, <2>1, CorrectedIs
  <2>3. BucketOf(Corrected(Floor(v), o)) \in Bucket
    BY <2>2, BucketClamps
  <2> QED BY <1>5, <2>1, <2>2, <2>3 DEF Bucket
<1>9. ASSUME NEW v \in Samples, NEW w \in Samples, v <= w PROVE g[v] <= g[w]
  <2>1. BucketOf(v) <= BucketOf(w) /\ BucketOf(v) \in Nat /\ BucketOf(w) \in Nat
    BY <1>3, <1>4, <1>9, BucketsInOrder DEF Bucket
  <2>2. /\ Floor(v) <= Floor(w)
        /\ Floor(v) \in Int /\ Floor(w) \in Int
    <3>1. Floor(v) = ValueOf(BucketOf(v)) /\ Floor(w) = ValueOf(BucketOf(w))
      BY DEF Floor
    <3>2. ValueOf(BucketOf(v)) \in Nat /\ ValueOf(BucketOf(w)) \in Nat
      BY <2>1, ValuesAscend
    <3>3. CASE BucketOf(v) = BucketOf(w)
      BY <3>1, <3>2, <3>3
    <3>4. CASE BucketOf(v) < BucketOf(w)
      <4>1. ValueOf(BucketOf(v)) < ValueOf(BucketOf(w))
        BY <2>1, <3>4, ValuesAscend
      <4> QED BY <3>1, <3>2, <4>1
    <3> QED BY <2>1, <3>3, <3>4
  <2>3. Corrected(Floor(v), o) <= Corrected(Floor(w), o)
    BY <1>4, <2>2 DEF Corrected
  <2>4. BucketOf(Corrected(Floor(v), o)) <= BucketOf(Corrected(Floor(w), o))
    BY <1>8, <2>3, BucketsInOrder
  <2> QED BY <1>5, <2>4
<1>10. IsFiniteSet(Samples) /\ Samples \in SUBSET Nat /\ \A v \in Samples : samples[v] \in Nat
  BY <1>2, SamplesFinite
<1> HIDE DEF From, used
<1>11. Grouped(Buckets, Shifted(o).counts, Samples, samples, g)
  BY <1>4, <1>7, <1>8, <1>9, <1>10 DEF Grouped
<1> QED BY <1>6, <1>11

(* shifted() loses no sample, and every corrected percentile is the bucket  *)
(* of the raw one less the overhead, at most two parts in Sub of the raw    *)
(* latency below its true value, under the hypotheses of PercentileCorrect. *)
THEOREM CorrectionCorrect ==
  ASSUME Roomy, \A p \in Permilles : p >= 500
  PROVE  Spec => []CorrectionExact
<1>1. Counted => CorrectionExact
  <2> SUFFICES ASSUME Counted, NEW o \in Overheads
               PROVE  /\ Shifted(o).count = hist.count
                      /\ hist.count > 0 =>
                           \A p \in Permilles :
                             LET x == AtRank(NearestRank(p))
                                 r == Percentile(Shifted(o), p)
                             IN /\ r = Floor(Corrected(Floor(x), o))
                                /\ r <= Corrected(x, o)
                                /\ (Corrected(x, o) - r) * Sub <= 2 * x
    BY DEF CorrectionExact
  <2> DEFINE g == [v \in Samples |-> BucketOf(Corrected(Floor(v), o))]
             s == Shifted(o)
  <2>1. s.count = hist.count /\ Grouped(Buckets, s.counts, Samples, samples, g)
    <3> HIDE DEF s
    <3>1. /\ Shifted(o).count = hist.count
          /\ Grouped(Buckets, Shifted(o).counts, Samples, samples, g)
      BY ShiftedGroups
    <3> QED BY <3>1 DEF s
  <2> HIDE DEF s
  <2> SUFFICES ASSUME hist.count > 0, NEW p \in Permilles
               PROVE  LET x == AtRank(NearestRank(p))
                          r == Percentile(s, p)
                      IN /\ r = Floor(Corrected(Floor(x), o))
                         /\ r <= Corrected(x, o)
                         /\ (Corrected(x, o) - r) * Sub <= 2 * x
    BY <2>1 DEF s
  <2> DEFINE k == Rank(hist.count, p)
             x == Min(Seeing(samples, Samples, k))
             R == GroupsBy(s.counts, Buckets, k)
             y == Floor(x)
             c == Corrected(y, o)
             z == Corrected(x, o)
             r == Floor(c)
  <2>2. /\ hist.count = SumFunctionOnSet(samples, Samples) /\ hist.count \in Nat
        /\ k = NearestRank(p) /\ k \in 1 .. hist.count
    <3>1. hist.count = SumFunctionOnSet(samples, Samples)
      BY DEF Counted
    <3>2. IsFiniteSet(Samples) /\ \A v \in Samples : samples[v] \in Nat /\ samples[v] \in Int
      BY SamplesFinite DEF Counted
    <3>3. SumFunctionOnSet(samples, Samples) \in Nat
      BY <3>2, SumType
    <3>4. p \in 500 .. 1000
      BY WidthAssumption
    <3> QED BY <3>1, <3>3, <3>4, RankIsNearest
  <2>3. x \in Samples /\ R # {} /\ Min(R) = g[x]
    <3> HIDE DEF k, g
    <3>1. k \in Nat /\ 1 <= k /\ k <= SumFunctionOnSet(samples, Samples)
      BY <2>2
    <3> QED BY <2>1, <3>1, FirstGroup
  <2>4. AtRank(NearestRank(p)) = x
    BY <2>2 DEF AtRank, Seeing
  <2>5. Percentile(s, p) = ValueOf(Min(R))
    <3>1. s.count # 0 /\ s.count = hist.count
      BY <2>1, <2>2
    <3> QED BY <2>3, <3>1 DEF Percentile, GroupsBy, Bucket
  <2> HIDE DEF k, R, x
  <2>6. Percentile(s, p) = r
    <3>1. g[x] = BucketOf(c)
      BY <2>3
    <3>2. r = ValueOf(BucketOf(c))
      BY DEF Floor
    <3> QED BY <2>3, <2>5, <3>1, <3>2
  <2>7. x \in 0 .. 2 ^ Width - 1 /\ o \in Nat /\ x \in Nat /\ Sub \in Nat
    <3>1. 2 ^ Width \in Nat
      BY SubType, TwoPower
    <3> QED BY <2>3, <3>1, SubType, WidthAssumption
  <2>8. /\ y \in Nat /\ y <= x /\ (x - y) * Sub <= x /\ y \in 0 .. 2 ^ Width - 1
    BY <2>7, FloorIs
  <2> HIDE DEF y
  <2>9. /\ c \in 0 .. 2 ^ Width - 1 /\ c = IF y > o THEN y - o ELSE 0
        /\ z = IF x > o THEN x - o ELSE 0
    <3>1. c \in 0 .. 2 ^ Width - 1 /\ c = IF y > o THEN y - o ELSE 0
      BY <2>7, <2>8, CorrectedIs
    <3>2. z = IF x > o THEN x - o ELSE 0
      BY <2>7, CorrectedIs
    <3> QED BY <3>1, <3>2
  <2> HIDE DEF c, z
  <2>10. r \in Nat /\ r <= c /\ (c - r) * Sub <= c
    BY <2>9, FloorIs
  <2> HIDE DEF r
  <2>11. c \in Nat /\ z \in Nat /\ c <= z /\ c <= x /\ z - c <= x - y /\ r <= z
    BY <2>7, <2>8, <2>9, <2>10
  <2>12. (z - r) * Sub <= 2 * x
    <3> DEFINE e == z - c
               d == x - y
               m == c - r
    <3>1. e \in Nat /\ d \in Nat /\ m \in Nat /\ e <= d /\ z - r = e + m
      BY <2>7, <2>8, <2>10, <2>11
    <3>2. d * Sub <= x /\ m * Sub <= c
      BY <2>8, <2>10
    <3> HIDE DEF e, d, m
    <3>3. (e + m) * Sub = e * Sub + m * Sub /\ e * Sub \in Nat /\ m * Sub \in Nat
      BY <2>7, <3>1
    <3>4. e * Sub <= d * Sub /\ d * Sub \in Nat
      BY <2>7, <3>1
    <3> QED BY <2>7, <2>11, <3>1, <3>2, <3>3, <3>4
  <2> QED BY <2>4, <2>6, <2>11, <2>12 DEF z, c, y, r
<1> QED BY <1>1, CountedAlways, PTL
===============================================================================
