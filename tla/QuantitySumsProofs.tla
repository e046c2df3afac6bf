------------------------- MODULE QuantitySumsProofs -------------------------
(***************************************************************************)
(* What the proofs about quantities need to know of their sums: a sum is    *)
(* taken apart, changed at one index, compared, and moved to other indices. *)
(***************************************************************************)
EXTENDS QuantitySums, FunctionTheorems, FiniteSetTheorems, TLAPS

\* Quantities that can be summed over S.
Summable(q, S) == IsFiniteSet(S) /\ \A i \in S : q[i] \in Nat

LEMMA UnitsMember ==
    ASSUME NEW q, NEW S, NEW u
    PROVE  u \in Units(q, S) <=> \E i \in S : \E n \in 1..q[i] : u = <<i, n>>
  BY DEF Units

LEMMA UnitsFinite ==
    ASSUME NEW q, NEW S, Summable(q, S)
    PROVE  IsFiniteSet(Units(q, S))
  <1> DEFINE part == [i \in S |-> {i} \X (1..q[i])]
             parts == {{i} \X (1..q[i]) : i \in S}
  <1>1. part \in Surjection(S, parts)
    <2>1. part \in [S -> parts] /\ \A t \in parts : \E s \in S : part[s] = t
      OBVIOUS
    <2> QED
      BY <2>1, Fun_IsSurj
  <1>2. IsFiniteSet(parts)
    BY <1>1, FS_Surjection DEF Summable
  <1>3. \A t \in parts : IsFiniteSet(t)
    <2> SUFFICES ASSUME NEW i \in S PROVE IsFiniteSet({i} \X (1..q[i]))
      OBVIOUS
    <2>1. IsFiniteSet(1..q[i])
      BY FS_Interval DEF Summable
    <2> QED
      BY <2>1, FS_Singleton, FS_Product
  <1> QED
    BY <1>2, <1>3, FS_UNION DEF Units

LEMMA SumType ==
    ASSUME NEW q, NEW S, Summable(q, S)
    PROVE  SumOver(q, S) \in Nat
  BY UnitsFinite, FS_CardinalityType DEF SumOver

LEMMA SumEmpty == ASSUME NEW q PROVE SumOver(q, {}) = 0
  BY FS_EmptySet DEF SumOver, Units

LEMMA SumSingleton ==
    ASSUME NEW q, NEW x, q[x] \in Nat
    PROVE  SumOver(q, {x}) = q[x]
  <1>1. Units(q, {x}) = {x} \X (1..q[x])
    BY DEF Units
  <1>2. IsFiniteSet(1..q[x]) /\ Cardinality(1..q[x]) = q[x]
    BY FS_Interval
  <1>3. Cardinality({x} \X (1..q[x])) = Cardinality({x}) * Cardinality(1..q[x])
    BY <1>2, FS_Singleton, FS_Product
  <1>4. Cardinality({x}) = 1
    BY FS_Singleton
  <1>5. \A a, b : a = 1 /\ b = q[x] => a * b = q[x]
    OBVIOUS
  <1> QED
    BY <1>1, <1>2, <1>3, <1>4, <1>5, Zenon DEF SumOver

\* The sum over disjoint sets of indices.
LEMMA SumDisjoint ==
    ASSUME NEW q, NEW S, NEW T, Summable(q, S), Summable(q, T), S \cap T = {}
    PROVE  SumOver(q, S \cup T) = SumOver(q, S) + SumOver(q, T)
  <1>1. Units(q, S \cup T) = Units(q, S) \cup Units(q, T)
    BY DEF Units
  <1>2. Units(q, S) \cap Units(q, T) = {}
    BY UnitsMember
  <1>3. IsFiniteSet(Units(q, S)) /\ IsFiniteSet(Units(q, T))
    BY UnitsFinite
  <1>4. Cardinality(Units(q, S) \cup Units(q, T))
            = Cardinality(Units(q, S)) + Cardinality(Units(q, T)) - Cardinality({})
    BY <1>2, <1>3, FS_Union
  <1>5. Cardinality(Units(q, S)) \in Nat /\ Cardinality(Units(q, T)) \in Nat
    BY <1>3, FS_CardinalityType
  <1>6. Cardinality({}) = 0
    BY FS_EmptySet
  <1>7. \A m, n \in Nat : \A c : c = m + n - 0 => c = m + n
    OBVIOUS
  <1>8. Cardinality(Units(q, S) \cup Units(q, T))
            = Cardinality(Units(q, S)) + Cardinality(Units(q, T))
    BY <1>4, <1>5, <1>6, <1>7
  <1> QED
    BY <1>1, <1>8 DEF SumOver

\* One more index.
LEMMA SumWith ==
    ASSUME NEW q, NEW S, NEW x, Summable(q, S), x \notin S, q[x] \in Nat
    PROVE  SumOver(q, S \cup {x}) = SumOver(q, S) + q[x]
  <1>1. Summable(q, {x}) /\ S \cap {x} = {}
    BY FS_Singleton DEF Summable
  <1> QED
    BY <1>1, SumDisjoint, SumSingleton

\* Quantities that agree on the indices have one sum.
LEMMA SumSame ==
    ASSUME NEW q, NEW r, NEW S, \A i \in S : q[i] = r[i]
    PROVE  SumOver(q, S) = SumOver(r, S)
  <1>1. Units(q, S) = Units(r, S)
    BY DEF Units
  <1> QED
    BY <1>1 DEF SumOver

LEMMA SumZero ==
    ASSUME NEW q, NEW S, \A i \in S : q[i] = 0
    PROVE  SumOver(q, S) = 0
  <1>1. Units(q, S) = {}
    BY UnitsMember
  <1> QED
    BY <1>1, FS_EmptySet DEF SumOver

\* More indices and larger quantities make no smaller sum.
LEMMA SumMonotone ==
    ASSUME NEW q, NEW r, NEW S, NEW T, Summable(q, S), Summable(r, T),
           S \subseteq T, \A i \in S : q[i] <= r[i]
    PROVE  SumOver(q, S) <= SumOver(r, T)
  <1>1. Units(q, S) \subseteq Units(r, T)
    <2> SUFFICES ASSUME NEW i \in S, NEW n \in 1..q[i]
                 PROVE  <<i, n>> \in Units(r, T)
      BY UnitsMember
    <2>1. i \in T /\ n \in 1..r[i]
      BY DEF Summable
    <2> QED
      BY <2>1, UnitsMember
  <1> QED
    BY <1>1, UnitsFinite, FS_Subset DEF SumOver

\* One quantity among those summed.
LEMMA SumBounds ==
    ASSUME NEW q, NEW S, Summable(q, S), NEW x \in S
    PROVE  q[x] <= SumOver(q, S)
  <1>1. Summable(q, {x}) /\ {x} \subseteq S
    BY FS_Singleton DEF Summable
  <1>2. SumOver(q, {x}) <= SumOver(q, S)
    BY <1>1, SumMonotone DEF Summable
  <1> QED
    BY <1>2, SumSingleton DEF Summable

\* A sum splits at one of its indices.
LEMMA SumSplit ==
    ASSUME NEW q, NEW S, Summable(q, S), NEW x \in S
    PROVE  /\ Summable(q, S \ {x})
           /\ SumOver(q, S) = SumOver(q, S \ {x}) + q[x]
  <1>1. Summable(q, S \ {x})
    BY FS_RemoveElement DEF Summable
  <1>2. S = (S \ {x}) \cup {x} /\ q[x] \in Nat
    BY DEF Summable
  <1> QED
    BY <1>1, <1>2, SumWith

\* The quantity of one index changes, and the sum by the same difference.
LEMMA SumChange ==
    ASSUME NEW q, NEW r, NEW S, NEW x \in S, Summable(q, S), Summable(r, S),
           \A i \in S \ {x} : r[i] = q[i]
    PROVE  SumOver(r, S) = SumOver(q, S) - q[x] + r[x]
  <1>1. SumOver(r, S \ {x}) = SumOver(q, S \ {x})
    BY SumSame
  <1>2. SumOver(q, S) = SumOver(q, S \ {x}) + q[x] /\ SumOver(r, S) = SumOver(r, S \ {x}) + r[x]
    BY SumSplit
  <1>3. q[x] \in Nat /\ r[x] \in Nat /\ SumOver(q, S \ {x}) \in Nat
    BY SumSplit, SumType DEF Summable
  <1> QED
    BY <1>1, <1>2, <1>3

\* Indices that match one to one carry the sum over.
LEMMA SumReindexed ==
    ASSUME NEW q, NEW r, NEW S, NEW T, Summable(q, S),
           NEW h \in [S -> T],
           \A i, j \in S : h[i] = h[j] => i = j,
           \A t \in T : \E i \in S : h[i] = t,
           \A i \in S : r[h[i]] = q[i]
    PROVE  SumOver(r, T) = SumOver(q, S)
  <1> DEFINE g == [u \in Units(q, S) |-> <<h[u[1]], u[2]>>]
  <1>1. \A u \in Units(q, S) : u = <<u[1], u[2]>> /\ u[1] \in S /\ u[2] \in 1..q[u[1]]
    BY UnitsMember
  <1>2. g \in [Units(q, S) -> Units(r, T)]
    <2> SUFFICES ASSUME NEW u \in Units(q, S) PROVE <<h[u[1]], u[2]>> \in Units(r, T)
      OBVIOUS
    <2>1. h[u[1]] \in T /\ u[2] \in 1..r[h[u[1]]]
      BY <1>1
    <2> QED
      BY <2>1, UnitsMember
  <1>3. \A u, v \in Units(q, S) : g[u] = g[v] => u = v
    BY <1>1
  <1>4. \A t \in Units(r, T) : \E u \in Units(q, S) : g[u] = t
    <2> SUFFICES ASSUME NEW t \in Units(r, T)
                 PROVE  \E u \in Units(q, S) : g[u] = t
      OBVIOUS
    <2>0. PICK i \in T : \E n \in 1..r[i] : t = <<i, n>>
      BY UnitsMember
    <2>3. PICK n \in 1..r[i] : t = <<i, n>>
      BY <2>0
    <2>1. PICK j \in S : h[j] = i
      OBVIOUS
    <2>2. <<j, n>> \in Units(q, S)
      BY <2>1, UnitsMember
    <2> QED
      BY <2>1, <2>2, <2>3
  <1>5. ExistsBijection(Units(q, S), Units(r, T))
    BY <1>2, <1>3, <1>4, Fun_IsBij DEF ExistsBijection
  <1> QED
    BY <1>5, UnitsFinite, FS_Bijection DEF SumOver

\* Several sets are matched one to one at once.
LEMMA MatchingOfEach ==
    ASSUME NEW T, NEW U, NEW V, \A t \in T : ExistsBijection(U[t], V[t])
    PROVE  \E f : \A t \in T : f[t] \in Bijection(U[t], V[t])
  <1> DEFINE f == [t \in T |-> CHOOSE b : b \in Bijection(U[t], V[t])]
  <1>1. \A t \in T : f[t] \in Bijection(U[t], V[t])
    BY DEF ExistsBijection
  <1> HIDE DEF f
  <1> QED
    BY <1>1, Zenon

\* Indices that fall into groups: the sums of the groups make the whole sum.
LEMMA SumByGroups ==
    ASSUME NEW q, NEW S, NEW T, NEW g \in [S -> T], NEW p, NEW group, Summable(q, S),
           \A t \in T : \A i : i \in group[t] <=> i \in S /\ g[i] = t,
           \A t \in T : p[t] = SumOver(q, group[t])
    PROVE  SumOver(p, T) = SumOver(q, S)
  <1> DEFINE U == [t \in T |-> Units(q, group[t])]
             V == [t \in T |-> 1..p[t]]
  <1>1. \A t \in T : ExistsBijection(U[t], V[t])
    <2> SUFFICES ASSUME NEW t \in T PROVE ExistsBijection(U[t], 1..p[t])
      OBVIOUS
    <2>1. Summable(q, group[t])
      <3>1. group[t] \in SUBSET S
        OBVIOUS
      <3>2. IsFiniteSet(group[t])
        BY <3>1, FS_Subset, Zenon DEF Summable
      <3> QED
        BY <3>1, <3>2 DEF Summable
    <2>2. ExistsBijection(1..p[t], Units(q, group[t]))
      BY <2>1, UnitsFinite, FS_CardinalityType DEF SumOver
    <2> QED
      BY <2>2, Fun_ExistsBijSymmetric
  <1>2. \A u : u \in Units(q, S) => u[1] \in S /\ g[u[1]] \in T /\ u \in U[g[u[1]]]
    <2> SUFFICES ASSUME NEW u \in Units(q, S)
                 PROVE  u[1] \in S /\ g[u[1]] \in T /\ u \in U[g[u[1]]]
      OBVIOUS
    <2>1. PICK i \in S : \E n \in 1..q[i] : u = <<i, n>>
      BY UnitsMember
    <2>2. PICK n \in 1..q[i] : u = <<i, n>>
      BY <2>1
    <2>3. i \in group[g[i]] /\ u[1] = i
      BY <2>2
    <2> QED
      BY <2>2, <2>3, UnitsMember
  <1>3. \A t \in T : \A u \in U[t] : u \in Units(q, S) /\ g[u[1]] = t
    <2> SUFFICES ASSUME NEW t \in T, NEW u \in U[t] PROVE u \in Units(q, S) /\ g[u[1]] = t
      OBVIOUS
    <2>1. PICK i \in group[t] : \E n \in 1..q[i] : u = <<i, n>>
      BY UnitsMember
    <2>2. PICK n \in 1..q[i] : u = <<i, n>>
      BY <2>1
    <2> QED
      BY <2>2, UnitsMember
  <1>4. \A t \in T : V[t] = 1..p[t]
    OBVIOUS
  <1> HIDE DEF U, V
  <1>5. PICK f : \A t \in T : f[t] \in Bijection(U[t], V[t])
    BY <1>1, MatchingOfEach
  <1>6. \A t \in T : /\ f[t] \in [U[t] -> V[t]]
                     /\ \A u, v \in U[t] : f[t][u] = f[t][v] => u = v
                     /\ \A n \in V[t] : \E u \in U[t] : f[t][u] = n
    BY <1>5, Fun_BijectionProperties
  <1> DEFINE h == [u \in Units(q, S) |-> <<g[u[1]], f[g[u[1]]][u]>>]
  <1>7. h \in [Units(q, S) -> Units(p, T)]
    <2> SUFFICES ASSUME NEW u \in Units(q, S)
                 PROVE  <<g[u[1]], f[g[u[1]]][u]>> \in Units(p, T)
      OBVIOUS
    <2>1. g[u[1]] \in T /\ f[g[u[1]]][u] \in V[g[u[1]]]
      BY <1>2, <1>6
    <2>2. f[g[u[1]]][u] \in 1..p[g[u[1]]]
      BY <1>4, <2>1
    <2> QED
      BY <2>1, <2>2, UnitsMember, Zenon
  <1>8. \A u, v \in Units(q, S) : h[u] = h[v] => u = v
    <2> SUFFICES ASSUME NEW u \in Units(q, S), NEW v \in Units(q, S), h[u] = h[v]
                 PROVE  u = v
      OBVIOUS
    <2>1. g[u[1]] = g[v[1]] /\ f[g[u[1]]][u] = f[g[v[1]]][v]
      OBVIOUS
    <2> HIDE DEF h
    <2> QED
      BY <1>2, <1>6, <2>1
  <1>9. \A x \in Units(p, T) : \E u \in Units(q, S) : h[u] = x
    <2> SUFFICES ASSUME NEW x \in Units(p, T) PROVE \E u \in Units(q, S) : h[u] = x
      OBVIOUS
    <2>1. PICK t \in T : \E n \in 1..p[t] : x = <<t, n>>
      BY UnitsMember
    <2>2. PICK n \in 1..p[t] : x = <<t, n>>
      BY <2>1
    <2>3. PICK u \in U[t] : f[t][u] = n
      <3>1. n \in V[t]
        BY <1>4
      <3> QED
        BY <1>6, <3>1
    <2> QED
      BY <1>3, <2>2, <2>3
  <1> HIDE DEF h
  <1>10. ExistsBijection(Units(q, S), Units(p, T))
    BY <1>7, <1>8, <1>9, Fun_IsBij DEF ExistsBijection
  <1> QED
    BY <1>10, UnitsFinite, FS_Bijection DEF SumOver

\* Indices without a quantity add nothing to a sum.
LEMMA SumSupport ==
    ASSUME NEW q, NEW S, NEW T, Summable(q, T), S \subseteq T, \A i \in T \ S : q[i] = 0
    PROVE  SumOver(q, T) = SumOver(q, S)
  <1>1. Units(q, T) = Units(q, S)
    <2>1. \A i \in T \ S : 1..q[i] = {}
      OBVIOUS
    <2> QED
      BY <2>1 DEF Units
  <1> QED
    BY <1>1 DEF SumOver

=============================================================================
