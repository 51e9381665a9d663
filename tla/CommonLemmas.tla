----------------------------- MODULE CommonLemmas ------------------------------
(***************************************************************************)
(* Facts about numbers, finite sets and sums that the proofs of several    *)
(* components use.  The library states induction for an operator P(_); the *)
(* lemmas here state it for a set of good cases instead, which the provers *)
(* can instantiate.                                                        *)
(***************************************************************************)
EXTENDS Integers, FiniteSets, Functions, FiniteSetTheorems, WellFoundedInduction, TLAPS

(* A nonempty set of naturals has a least member ...                        *)
LEMMA LeastExists ==
  ASSUME NEW S \in SUBSET Nat, S # {}
  PROVE  \E j \in S : \A k \in S : j <= k
<1> DEFINE Less == {ss \in Nat \X Nat : ss[1] < ss[2]}
<1>1. OpToRel(<, Nat) = Less
  BY Zenon DEF OpToRel
<1>2. IsWellFoundedOn(Less, Nat)
  BY <1>1, NatLessThanWellFounded, Zenon
<1>3. PICK j \in S : \A k \in S : ~ (<<k, j>> \in Less)
  BY <1>2, WFMin, Zenon
<1>4. ASSUME NEW k \in S PROVE j <= k
  <2>1. j \in Nat /\ k \in Nat
    OBVIOUS
  <2>2. ~ (<<k, j>> \in Less)
    BY <1>3
  <2> QED BY <2>1, <2>2
<1> QED BY <1>4

(* ... and a nonempty bounded one a greatest.                               *)
LEMMA GreatestExists ==
  ASSUME NEW n \in Nat, NEW S \in SUBSET (0 .. n), S # {}
  PROVE  \E j \in S : \A k \in S : j >= k
<1> DEFINE T == {x \in Nat : n - x \in S}
<1>1. PICK s \in S : TRUE
  OBVIOUS
<1>2. T \in SUBSET Nat /\ T # {}
  <2>1. n - s \in T
    OBVIOUS
  <2> QED BY <2>1
<1>3. PICK x \in T : \A y \in T : x <= y
  <2> HIDE DEF T
  <2> QED BY <1>2, LeastExists
<1>4. \A k \in S : n - k \in T
  OBVIOUS
<1>5. x \in Nat /\ n - x \in S
  OBVIOUS
<1>6. ASSUME NEW k \in S PROVE n - x >= k
  <2>1. x <= n - k
    <3> HIDE DEF T
    <3> QED BY <1>3, <1>4
  <2>2. k \in 0 .. n
    OBVIOUS
  <2> QED BY <2>1, <2>2, <1>5
<1> QED BY <1>5, <1>6

(* Induction on naturals, for a set of naturals.                            *)
LEMMA NatGood ==
  ASSUME NEW G, 0 \in G, \A n \in Nat : n \in G => n + 1 \in G
  PROVE  Nat \subseteq G
<1> SUFFICES ASSUME Nat \ G # {} PROVE FALSE
  OBVIOUS
<1>1. PICK n \in Nat \ G : \A k \in Nat \ G : n <= k
  <2>1. Nat \ G \in SUBSET Nat
    OBVIOUS
  <2> QED BY <2>1, LeastExists
<1>2. n # 0 /\ n - 1 \in Nat
  OBVIOUS
<1>3. n - 1 \in G
  BY <1>1, <1>2
<1> QED BY <1>2, <1>3

(* Induction on the subsets of a finite set, for a set of subsets: taking   *)
(* any one member away leads to a good set.                                 *)
LEMMA SubsetsGood ==
  ASSUME NEW S, IsFiniteSet(S), NEW G, {} \in G,
         \A T \in SUBSET S : T # {} /\ (\A x \in T : T \ {x} \in G) => T \in G
  PROVE  SUBSET S \subseteq G
<1> DEFINE H == {n \in Nat : \A T \in SUBSET S : Cardinality(T) = n => T \in G}
<1>1. \A T \in SUBSET S : IsFiniteSet(T) /\ Cardinality(T) \in Nat
  BY FS_Subset, FS_CardinalityType
<1>2. 0 \in H
  BY <1>1, FS_EmptySet
<1>3. ASSUME NEW n \in Nat, n \in H PROVE n + 1 \in H
  <2> SUFFICES ASSUME NEW T \in SUBSET S, Cardinality(T) = n + 1 PROVE T \in G
    OBVIOUS
  <2>1. T # {}
    <3>1. Cardinality({}) = 0
      BY FS_EmptySet
    <3> QED BY <3>1
  <2>2. ASSUME NEW x \in T PROVE T \ {x} \in G
    <3>1. Cardinality(T \ {x}) = n
      BY <1>1, FS_RemoveElement
    <3> QED BY <3>1, <1>3
  <2> QED BY <2>1, <2>2
<1>4. Nat \subseteq H
  <2> HIDE DEF H
  <2> QED BY <1>2, <1>3, NatGood
<1> QED BY <1>1, <1>4
-------------------------------------------------------------------------------
(* Sums over a finite set.                                                  *)

Pick(T) == CHOOSE x \in T : TRUE

(* The equation that defines the partial sums of f.                         *)
PartialSums(f, S, it) ==
  it = [T \in SUBSET S |-> IF T = {} THEN 0 ELSE f[Pick(T)] + it[T \ {Pick(T)}]]

LEMMA SumIsPartialSum ==
  ASSUME NEW f, NEW S
  PROVE  SumFunctionOnSet(f, S) = (CHOOSE it : PartialSums(f, S, it))[S]
BY DEF SumFunctionOnSet, FoldFunctionOnSet, MapThenFoldSet, PartialSums, Pick

(* The equation has a solution: one for the subsets of at most n members is *)
(* extended to those of n + 1.                                              *)
LEMMA PartialSumsExist ==
  ASSUME NEW f, NEW S, IsFiniteSet(S)
  PROVE  \E it : PartialSums(f, S, it)
<1> DEFINE Sub(n) == {T \in SUBSET S : Cardinality(T) <= n}
           Sums(h, n) == h = [T \in Sub(n) |-> IF T = {} THEN 0
                                               ELSE f[Pick(T)] + h[T \ {Pick(T)}]]
           H == {n \in Nat : \E h : Sums(h, n)}
<1>1. \A T \in SUBSET S : /\ IsFiniteSet(T) /\ Cardinality(T) \in Nat
                          /\ T # {} => Pick(T) \in T
  BY FS_Subset, FS_CardinalityType DEF Pick
<1>2. \A T \in SUBSET S : T # {} =>
        Cardinality(T) > 0 /\ Cardinality(T \ {Pick(T)}) = Cardinality(T) - 1
  <2> SUFFICES ASSUME NEW T \in SUBSET S, T # {}
               PROVE  Cardinality(T) > 0 /\ Cardinality(T \ {Pick(T)}) = Cardinality(T) - 1
    OBVIOUS
  <2>1. Cardinality(T) # 0
    BY <1>1, FS_EmptySet
  <2>2. Cardinality(T \ {Pick(T)}) = Cardinality(T) - 1
    BY <1>1, FS_RemoveElement
  <2> QED BY <1>1, <2>1, <2>2
<1>3. 0 \in H
  <2>1. Sub(0) = {{}}
    BY <1>1, FS_EmptySet
  <2>2. Sums([T \in {{}} |-> 0], 0)
    BY <2>1
  <2> QED BY <2>2
<1>4. ASSUME NEW n \in Nat, n \in H PROVE n + 1 \in H
  <2>1. PICK h : Sums(h, n)
    BY <1>4
  <2> DEFINE g == [T \in Sub(n + 1) |-> IF T = {} THEN 0
                                        ELSE f[Pick(T)] + h[T \ {Pick(T)}]]
  <2>2. ASSUME NEW T \in Sub(n + 1), T # {}
        PROVE  T \ {Pick(T)} \in Sub(n) /\ T \ {Pick(T)} \in Sub(n + 1)
    BY <1>1, <1>2, <2>2
  <2>3. ASSUME NEW T \in Sub(n) PROVE h[T] = g[T]
    <3>1. T \in Sub(n + 1)
      BY <1>1
    <3> QED BY <3>1, <2>1
  <2>4. Sums(g, n + 1)
    BY <2>2, <2>3
  <2> HIDE DEF g, Sums
  <2> QED BY <2>4
<1>5. Cardinality(S) \in H
  <2> HIDE DEF H
  <2>1. Nat \subseteq H
    BY <1>3, <1>4, NatGood
  <2> QED BY <2>1, FS_CardinalityType
<1>6. Sub(Cardinality(S)) = SUBSET S
  BY FS_Subset
<1>7. PICK h : Sums(h, Cardinality(S))
  BY <1>5
<1> QED BY <1>6, <1>7 DEF PartialSums

(* Two solutions agree on common subsets.                                   *)
LEMMA PartialSumsAgree ==
  ASSUME NEW f, NEW S, NEW T, NEW g, NEW h,
         IsFiniteSet(S), T \in SUBSET S, PartialSums(f, S, g), PartialSums(f, T, h)
  PROVE  \A U \in SUBSET T : g[U] = h[U]
<1> DEFINE G == {U \in SUBSET T : g[U] = h[U]}
<1>1. {} \in G
  BY DEF PartialSums
<1>2. ASSUME NEW U \in SUBSET T, U # {}, \A x \in U : U \ {x} \in G PROVE U \in G
  <2>1. Pick(U) \in U
    BY <1>2 DEF Pick
  <2>2. g[U \ {Pick(U)}] = h[U \ {Pick(U)}]
    BY <2>1, <1>2
  <2> QED BY <1>2, <2>1, <2>2 DEF PartialSums
<1>3. SUBSET T \subseteq G
  <2> HIDE DEF G
  <2>1. IsFiniteSet(T)
    BY FS_Subset
  <2> QED BY <1>1, <1>2, <2>1, SubsetsGood
<1> QED BY <1>3

(* A sum is that of a member and of the others; here, of the member chosen. *)
LEMMA SumUnfold ==
  ASSUME NEW f, NEW S, IsFiniteSet(S)
  PROVE  SumFunctionOnSet(f, S) =
           IF S = {} THEN 0 ELSE f[Pick(S)] + SumFunctionOnSet(f, S \ {Pick(S)})
<1> DEFINE T == S \ {Pick(S)}
           g == CHOOSE it : PartialSums(f, S, it)
           h == CHOOSE it : PartialSums(f, T, it)
<1>1. IsFiniteSet(T) /\ T \in SUBSET S
  BY FS_Subset
<1>2. PartialSums(f, S, g) /\ PartialSums(f, T, h)
  BY <1>1, PartialSumsExist
<1>3. SumFunctionOnSet(f, S) = g[S] /\ SumFunctionOnSet(f, T) = h[T]
  BY SumIsPartialSum
<1> HIDE DEF g, h
<1>4. g[T] = h[T]
  <2> HIDE DEF T
  <2>1. \A U \in SUBSET T : g[U] = h[U]
    BY <1>1, <1>2, PartialSumsAgree
  <2> QED BY <2>1
<1>5. g[S] = IF S = {} THEN 0 ELSE f[Pick(S)] + g[T]
  BY <1>2 DEF PartialSums
<1> QED BY <1>3, <1>4, <1>5

LEMMA SumEmpty ==
  ASSUME NEW f
  PROVE  SumFunctionOnSet(f, {}) = 0
BY SumUnfold, FS_EmptySet

(* A sum of integers is one, of naturals is one.                            *)
LEMMA SumType ==
  ASSUME NEW f, NEW S, IsFiniteSet(S), \A x \in S : f[x] \in Int
  PROVE  /\ SumFunctionOnSet(f, S) \in Int
         /\ (\A x \in S : f[x] \in Nat) => SumFunctionOnSet(f, S) \in Nat
<1> DEFINE G == {T \in SUBSET S :
                   /\ SumFunctionOnSet(f, T) \in Int
                   /\ (\A x \in S : f[x] \in Nat) => SumFunctionOnSet(f, T) \in Nat}
<1>1. {} \in G
  BY SumEmpty
<1>2. ASSUME NEW T \in SUBSET S, T # {}, \A x \in T : T \ {x} \in G PROVE T \in G
  <2>1. Pick(T) \in T
    BY <1>2 DEF Pick
  <2>2. T \ {Pick(T)} \in G
    BY <2>1, <1>2
  <2>3. SumFunctionOnSet(f, T) = f[Pick(T)] + SumFunctionOnSet(f, T \ {Pick(T)})
    BY <1>2, SumUnfold, FS_Subset
  <2> QED BY <2>1, <2>2, <2>3
<1>3. SUBSET S \subseteq G
  <2> HIDE DEF G
  <2> QED BY <1>1, <1>2, SubsetsGood
<1> QED BY <1>3

(* ... and of any member and of the others.                                 *)
LEMMA SumRemove ==
  ASSUME NEW f, NEW S, IsFiniteSet(S), \A x \in S : f[x] \in Int
  PROVE  \A a \in S : SumFunctionOnSet(f, S) = f[a] + SumFunctionOnSet(f, S \ {a})
<1> DEFINE Sum(T) == SumFunctionOnSet(f, T)
           G == {T \in SUBSET S : \A x \in T : Sum(T) = f[x] + Sum(T \ {x})}
<1>1. {} \in G
  OBVIOUS
<1>2. ASSUME NEW T \in SUBSET S, T # {}, \A x \in T : T \ {x} \in G PROVE T \in G
  <2> DEFINE p == Pick(T)
  <2> HIDE DEF p
  <2>1. p \in T
    BY <1>2 DEF Pick, p
  <2>2. \A U \in SUBSET S : IsFiniteSet(U) /\ Sum(U) \in Int
    BY FS_Subset, SumType
  <2>3. Sum(T) = f[p] + Sum(T \ {p})
    BY <1>2, <2>2, SumUnfold DEF p
  <2>4. ASSUME NEW x \in T, x # p PROVE Sum(T) = f[x] + Sum(T \ {x})
    <3> DEFINE R == (T \ {p}) \ {x}
    <3>1. Sum(T \ {p}) = f[x] + Sum(R)
      BY <2>1, <2>4, <1>2
    <3>2. Sum(T \ {x}) = f[p] + Sum(R)
      <4>1. R = (T \ {x}) \ {p} /\ p \in T \ {x} /\ T \ {x} \in G
        BY <2>1, <2>4, <1>2
      <4> QED BY <4>1
    <3>3. f[x] \in Int /\ f[p] \in Int /\ Sum(R) \in Int
      BY <2>1, <2>2
    <3> HIDE DEF Sum, R
    <3> QED BY <2>3, <3>1, <3>2, <3>3
  <2> QED BY <2>3, <2>4
<1>3. SUBSET S \subseteq G
  <2> HIDE DEF G
  <2> QED BY <1>1, <1>2, SubsetsGood
<1> QED BY <1>3

(* A member more.                                                           *)
LEMMA SumAdd ==
  ASSUME NEW f, NEW S, NEW a, IsFiniteSet(S), a \notin S,
         \A x \in S \cup {a} : f[x] \in Int
  PROVE  SumFunctionOnSet(f, S \cup {a}) = f[a] + SumFunctionOnSet(f, S)
<1>1. IsFiniteSet(S \cup {a}) /\ (S \cup {a}) \ {a} = S
  BY FS_AddElement
<1>2. a \in S \cup {a}
  OBVIOUS
<1> QED BY <1>1, <1>2, SumRemove

(* The sum depends on the values of its members only.                       *)
LEMMA SumSame ==
  ASSUME NEW f, NEW g, NEW S, IsFiniteSet(S), \A x \in S : f[x] = g[x]
  PROVE  SumFunctionOnSet(f, S) = SumFunctionOnSet(g, S)
<1> DEFINE G == {T \in SUBSET S : SumFunctionOnSet(f, T) = SumFunctionOnSet(g, T)}
<1>1. {} \in G
  BY SumEmpty
<1>2. ASSUME NEW T \in SUBSET S, T # {}, \A x \in T : T \ {x} \in G PROVE T \in G
  <2>1. Pick(T) \in T
    BY <1>2 DEF Pick
  <2>2. IsFiniteSet(T)
    BY FS_Subset
  <2>3. /\ SumFunctionOnSet(f, T) = f[Pick(T)] + SumFunctionOnSet(f, T \ {Pick(T)})
        /\ SumFunctionOnSet(g, T) = g[Pick(T)] + SumFunctionOnSet(g, T \ {Pick(T)})
    BY <1>2, <2>2, SumUnfold
  <2> QED BY <1>2, <2>1, <2>3
<1>3. SUBSET S \subseteq G
  <2> HIDE DEF G
  <2> QED BY <1>1, <1>2, SubsetsGood
<1> QED BY <1>3

(* The sum of two sets that have no member in common.                       *)
LEMMA SumUnion ==
  ASSUME NEW f, NEW S, NEW T, IsFiniteSet(S), IsFiniteSet(T), S \cap T = {},
         \A x \in S \cup T : f[x] \in Int
  PROVE  SumFunctionOnSet(f, S \cup T) = SumFunctionOnSet(f, S) + SumFunctionOnSet(f, T)
<1> DEFINE Sum(U) == SumFunctionOnSet(f, U)
           G == {U \in SUBSET T : Sum(S \cup U) = Sum(S) + Sum(U)}
<1>1. \A U \in SUBSET T : /\ IsFiniteSet(U) /\ IsFiniteSet(S \cup U)
                          /\ Sum(U) \in Int /\ Sum(S \cup U) \in Int /\ Sum(S) \in Int
  <2> SUFFICES ASSUME NEW U \in SUBSET T
               PROVE  /\ IsFiniteSet(U) /\ IsFiniteSet(S \cup U)
                      /\ Sum(U) \in Int /\ Sum(S \cup U) \in Int /\ Sum(S) \in Int
    OBVIOUS
  <2>1. IsFiniteSet(U) /\ IsFiniteSet(S \cup U)
    BY FS_Subset, FS_Union
  <2> QED BY <2>1, SumType
<1>2. {} \in G
  <2>1. S \cup {} = S
    OBVIOUS
  <2> QED BY <1>1, <2>1, SumEmpty
<1>3. ASSUME NEW U \in SUBSET T, NEW a \in U PROVE Sum(U) = f[a] + Sum(U \ {a})
  <2>1. IsFiniteSet(U) /\ \A x \in U : f[x] \in Int
    BY <1>1
  <2> HIDE DEF G
  <2> QED BY <2>1, SumRemove
<1>4. ASSUME NEW U \in SUBSET T, U # {}, \A x \in U : U \ {x} \in G PROVE U \in G
  <2> DEFINE x == Pick(U)
  <2> HIDE DEF x
  <2>1. x \in U
    BY <1>4 DEF Pick, x
  <2>2. Sum(S \cup (U \ {x})) = Sum(S) + Sum(U \ {x})
    BY <2>1, <1>4
  <2>3. Sum(U) = f[x] + Sum(U \ {x})
    BY <1>3, <2>1
  <2>4. Sum(S \cup U) = f[x] + Sum(S \cup (U \ {x}))
    <3>1. (S \cup U) \ {x} = S \cup (U \ {x})
      BY <2>1
    <3> DEFINE V == S \cup U
    <3>2. IsFiniteSet(V) /\ x \in V /\ \A y \in V : f[y] \in Int
      BY <1>1, <2>1
    <3> HIDE DEF V
    <3>3. Sum(V) = f[x] + Sum(V \ {x})
      BY <3>2, SumRemove
    <3> USE DEF V
    <3> QED BY <3>1, <3>3
  <2>5. f[x] \in Int /\ Sum(S) \in Int /\ Sum(U \ {x}) \in Int
    BY <1>1, <2>1
  <2> HIDE DEF Sum
  <2>6. Sum(S \cup U) = Sum(S) + Sum(U)
    BY <2>2, <2>3, <2>4, <2>5
  <2> QED BY <2>6
<1>5. SUBSET T \subseteq G
  <2> HIDE DEF G
  <2> QED BY <1>2, <1>4, SubsetsGood
<1> QED BY <1>5

(* A sum over members renamed one to one.                                   *)
LEMMA SumRenamed ==
  ASSUME NEW f, NEW g, NEW m, NEW S, IsFiniteSet(S),
         \A x \in S : f[x] \in Int /\ f[x] = g[m[x]],
         \A x, y \in S : m[x] = m[y] => x = y
  PROVE  SumFunctionOnSet(f, S) = SumFunctionOnSet(g, {m[x] : x \in S})
<1> DEFINE To(T) == {m[x] : x \in T}
           G == {T \in SUBSET S : /\ IsFiniteSet(To(T))
                                  /\ SumFunctionOnSet(f, T) = SumFunctionOnSet(g, To(T))}
<1>1. {} \in G
  <2>1. To({}) = {}
    OBVIOUS
  <2> QED BY <2>1, SumEmpty, FS_EmptySet
<1>2. ASSUME NEW T \in SUBSET S, T # {}, \A x \in T : T \ {x} \in G PROVE T \in G
  <2> DEFINE x == Pick(T)
             U == T \ {x}
  <2> HIDE DEF x
  <2>1. x \in T
    BY <1>2 DEF Pick, x
  <2>2. IsFiniteSet(To(U)) /\ SumFunctionOnSet(f, U) = SumFunctionOnSet(g, To(U))
    BY <2>1, <1>2
  <2>3. To(T) = To(U) \cup {m[x]} /\ m[x] \notin To(U)
    BY <2>1
  <2>4. \A z \in To(U) \cup {m[x]} : g[z] \in Int
    BY <2>1
  <2> HIDE DEF To
  <2>5. SumFunctionOnSet(g, To(T)) = g[m[x]] + SumFunctionOnSet(g, To(U))
    BY <2>2, <2>3, <2>4, SumAdd
  <2>6. SumFunctionOnSet(f, T) = f[x] + SumFunctionOnSet(f, U)
    <3>1. IsFiniteSet(T) /\ \A y \in T : f[y] \in Int
      BY FS_Subset
    <3> QED BY <2>1, <3>1, SumRemove
  <2>7. IsFiniteSet(To(T))
    <3> HIDE DEF U
    <3> QED BY <2>2, <2>3, FS_AddElement
  <2> QED BY <2>1, <2>2, <2>5, <2>6, <2>7
<1>3. SUBSET S \subseteq G
  <2> HIDE DEF G
  <2> QED BY <1>1, <1>2, SubsetsGood
<1> QED BY <1>3

(* A sum taken group by group; k names the group of a member.               *)
LEMMA SumGrouped ==
  ASSUME NEW f, NEW k, NEW S, NEW I, IsFiniteSet(S), IsFiniteSet(I),
         \A x \in S : f[x] \in Int,
         \A x \in S : k[x] \in I
  PROVE  SumFunctionOnSet(f, S) =
           SumFunctionOnSet([i \in I |-> SumFunctionOnSet(f, {x \in S : k[x] = i})], I)
<1> DEFINE In(J) == {x \in S : k[x] \in J}
           Of(i) == {x \in S : k[x] = i}
           h == [i \in I |-> SumFunctionOnSet(f, Of(i))]
           G == {J \in SUBSET I : SumFunctionOnSet(f, In(J)) = SumFunctionOnSet(h, J)}
<1>1. \A T \in SUBSET S : IsFiniteSet(T) /\ SumFunctionOnSet(f, T) \in Int
  BY FS_Subset, SumType
<1>2. \A i \in I : h[i] = SumFunctionOnSet(f, Of(i)) /\ h[i] \in Int
  BY <1>1
<1> HIDE DEF h
<1>3. {} \in G
  <2>1. In({}) = {}
    OBVIOUS
  <2> QED BY <2>1, SumEmpty
<1>4. ASSUME NEW J \in SUBSET I, J # {}, \A i \in J : J \ {i} \in G PROVE J \in G
  <2> DEFINE i == Pick(J)
  <2> HIDE DEF i
  <2>1. i \in J
    BY <1>4 DEF Pick, i
  <2>2. SumFunctionOnSet(f, In(J \ {i})) = SumFunctionOnSet(h, J \ {i})
    BY <2>1, <1>4
  <2>3. In(J) = In(J \ {i}) \cup Of(i) /\ In(J \ {i}) \cap Of(i) = {}
    BY <2>1
  <2>4. In(J \ {i}) \in SUBSET S /\ Of(i) \in SUBSET S
    OBVIOUS
  <2>5. SumFunctionOnSet(h, J) = h[i] + SumFunctionOnSet(h, J \ {i})
    <3>1. IsFiniteSet(J)
      BY FS_Subset
    <3>2. \A j \in J : h[j] \in Int
      BY <1>2
    <3> HIDE DEF In, Of, G
    <3> QED BY <2>1, <3>1, <3>2, SumRemove
  <2> HIDE DEF In, Of
  <2>6. SumFunctionOnSet(f, In(J)) =
          SumFunctionOnSet(f, In(J \ {i})) + SumFunctionOnSet(f, Of(i))
    BY <1>1, <2>3, <2>4, SumUnion
  <2>7. h[i] = SumFunctionOnSet(f, Of(i)) /\ h[i] \in Int
        /\ SumFunctionOnSet(f, In(J \ {i})) \in Int
    BY <1>1, <1>2, <2>1, <2>4 DEF Of
  <2>8. SumFunctionOnSet(f, In(J)) = SumFunctionOnSet(h, J)
    BY <2>2, <2>5, <2>6, <2>7
  <2> QED BY <2>8 DEF In
<1>5. SUBSET I \subseteq G
  <2> HIDE DEF G
  <2> QED BY <1>3, <1>4, SubsetsGood
<1>6. In(I) = S
  OBVIOUS
<1> QED BY <1>5, <1>6 DEF h
-------------------------------------------------------------------------------
(* Arithmetic modulo a word.                                                *)

LEMMA ModSplit ==
  ASSUME NEW x \in Int, NEW m \in Nat, m > 0
  PROVE  /\ x = m * (x \div m) + (x % m)
         /\ x % m \in 0 .. m - 1
         /\ x \div m \in Int
OBVIOUS

LEMMA ModUnique ==
  ASSUME NEW m \in Nat, NEW q \in Int, NEW r \in 0 .. m - 1
  PROVE  (m * q + r) % m = r
OBVIOUS

(* Reducing a summand first makes no difference.                            *)
LEMMA ModAdd ==
  ASSUME NEW x \in Int, NEW y \in Int, NEW m \in Nat, m > 0
  PROVE  ((x % m) + y) % m = (x + y) % m
<1> DEFINE q == x \div m
           p == (x + y) \div m
           r == (x + y) % m
<1>1. x = m * q + (x % m) /\ q \in Int /\ x % m \in Int
  BY ModSplit
<1>2. x + y = m * p + r /\ p \in Int /\ r \in 0 .. m - 1
  <2>1. x + y \in Int
    OBVIOUS
  <2> HIDE DEF p, r
  <2> QED BY <2>1, ModSplit DEF p, r
<1> HIDE DEF p, q, r
<1>3. (x % m) + y = m * (p - q) + r
  <2>1. m * (p - q) = m * p - m * q
    BY <1>1, <1>2
  <2> QED BY <1>1, <1>2, <2>1
<1>4. (m * (p - q) + r) % m = r
  BY <1>1, <1>2, ModUnique
<1> QED BY <1>3, <1>4 DEF r

(* ... also in a sum.                                                       *)
LEMMA SumMod ==
  ASSUME NEW f, NEW g, NEW S, NEW m \in Nat, m > 0, IsFiniteSet(S),
         \A x \in S : f[x] \in Int /\ g[x] \in Int /\ f[x] % m = g[x] % m
  PROVE  SumFunctionOnSet(f, S) % m = SumFunctionOnSet(g, S) % m
<1> DEFINE G == {T \in SUBSET S : SumFunctionOnSet(f, T) % m = SumFunctionOnSet(g, T) % m}
<1>1. {} \in G
  BY SumEmpty
<1>2. ASSUME NEW T \in SUBSET S, T # {}, \A x \in T : T \ {x} \in G PROVE T \in G
  <2> DEFINE x == Pick(T)
             a == SumFunctionOnSet(f, T \ {x})
             b == SumFunctionOnSet(g, T \ {x})
  <2> HIDE DEF x
  <2>1. x \in T
    BY <1>2 DEF Pick, x
  <2>2. /\ SumFunctionOnSet(f, T) = f[x] + a
        /\ SumFunctionOnSet(g, T) = g[x] + b
    <3>1. IsFiniteSet(T)
      BY FS_Subset
    <3>2. \A y \in T : f[y] \in Int
      OBVIOUS
    <3>3. \A y \in T : g[y] \in Int
      OBVIOUS
    <3>4. SumFunctionOnSet(f, T) = f[x] + a
      BY <2>1, <3>1, <3>2, SumRemove
    <3>5. SumFunctionOnSet(g, T) = g[x] + b
      BY <2>1, <3>1, <3>3, SumRemove
    <3> QED BY <3>4, <3>5
  <2>3. a \in Int /\ b \in Int
    BY SumType, FS_Subset
  <2>4. a % m = b % m
    BY <2>1, <1>2
  <2>5. f[x] \in Int /\ g[x] \in Int /\ f[x] % m = g[x] % m
    BY <2>1
  <2> HIDE DEF a, b
  <2>6. (f[x] + a) % m = ((f[x] % m) + a) % m /\ (g[x] + b) % m = ((g[x] % m) + b) % m
    BY <2>3, <2>5, ModAdd
  <2>7. g[x] % m \in Int
    BY <2>5, ModSplit
  <2>8. /\ ((a % m) + (g[x] % m)) % m = (a + (g[x] % m)) % m
        /\ ((b % m) + (g[x] % m)) % m = (b + (g[x] % m)) % m
    BY <2>3, <2>7, ModAdd
  <2>9. a + (g[x] % m) = (g[x] % m) + a /\ b + (g[x] % m) = (g[x] % m) + b
    BY <2>3, <2>7
  <2>10. (f[x] + a) % m = (g[x] + b) % m
    BY <2>4, <2>5, <2>6, <2>8, <2>9
  <2> QED BY <2>2, <2>10
<1>3. SUBSET S \subseteq G
  <2> HIDE DEF G
  <2> QED BY <1>1, <1>2, SubsetsGood
<1> QED BY <1>3
===============================================================================
