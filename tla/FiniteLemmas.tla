---------------------------- MODULE FiniteLemmas ----------------------------
(***************************************************************************)
(* Facts about finite sets of integers and sums over finite sets that the  *)
(* proofs of several components rest on.  No prover here can instantiate   *)
(* an induction theorem, so each is proved from a least counterexample.    *)
(***************************************************************************)
EXTENDS FiniteSetsExt, FiniteSetTheorems, TLAPS

-----------------------------------------------------------------------------
(* Least and greatest elements.                                            *)

LEMMA LeastExists ==
  ASSUME NEW S \in SUBSET Nat, S # {}
  PROVE  \E m \in S : \A n \in S : m <= n
<1>1. PICK m \in S : \A n \in S : ~(<<n, m>> \in OpToRel(<, Nat))
  <2> HIDE DEF OpToRel
  <2> QED  BY NatLessThanWellFounded, WFMin
<1>2. \A n \in S : ~(n < m)
  <2> SUFFICES ASSUME NEW n \in S, n < m PROVE FALSE
    OBVIOUS
  <2>1. <<n, m>> \in Nat \X Nat /\ <<n, m>>[1] = n /\ <<n, m>>[2] = m
    OBVIOUS
  <2>2. <<n, m>> \in OpToRel(<, Nat)
    BY <2>1 DEF OpToRel
  <2> QED
    BY <1>1, <2>2
<1> QED
  BY <1>2

LEMMA GreatestExists ==
  ASSUME NEW bound \in Nat, NEW S \in SUBSET (0..bound), S # {}
  PROVE  \E m \in S : \A n \in S : m >= n
<1> DEFINE T == {t \in Nat : \E n \in S : t = bound - n}
<1>1. \A n \in S : n \in Nat /\ bound - n \in T
  OBVIOUS
<1>2. T \in SUBSET Nat /\ T # {}
  BY <1>1
<1>3. PICK t \in T : \A u \in T : t <= u
  <2> HIDE DEF T
  <2> QED  BY <1>2, LeastExists
<1>4. PICK m \in S : t = bound - m
  OBVIOUS
<1>5. \A n \in S : m >= n
  BY <1>1, <1>3, <1>4
<1> QED
  BY <1>5

(* Of any finite sets, one has fewest elements.                            *)
LEMMA SmallestExists ==
  ASSUME NEW C, C # {}, \A T \in C : IsFiniteSet(T)
  PROVE  \E T \in C : \A U \in C : Cardinality(T) <= Cardinality(U)
<1> DEFINE N == {n \in Nat : \E T \in C : n = Cardinality(T)}
<1>1. \A T \in C : Cardinality(T) \in N
  BY FS_CardinalityType
<1>2. N \in SUBSET Nat /\ N # {}
  BY <1>1
<1>3. PICK m \in N : \A n \in N : m <= n
  <2> HIDE DEF N
  <2> QED  BY <1>2, LeastExists
<1>4. PICK T \in C : m = Cardinality(T)
  OBVIOUS
<1> QED
  BY <1>1, <1>3, <1>4

(* The values of a function on a finite set are finitely many.             *)
LEMMA ImageFinite ==
  ASSUME NEW f, NEW S, IsFiniteSet(S)
  PROVE  /\ IsFiniteSet({f[x] : x \in S})
         /\ Cardinality({f[x] : x \in S}) <= Cardinality(S)
<1> DEFINE g == [x \in S |-> f[x]]
<1>1. g \in Surjection(S, {f[x] : x \in S})
  BY DEF Surjection
<1> HIDE DEF g
<1> QED
  BY <1>1, FS_Surjection

(* A finite set of integers has a greatest element: the one above most.    *)
LEMMA MaxIs ==
  ASSUME NEW S \in SUBSET Int, IsFiniteSet(S), S # {}
  PROVE  Max(S) \in S /\ \A n \in S : n <= Max(S)
<1> DEFINE Above(x) == {y \in S : y > x}
           C == {Above(x) : x \in S}
<1>1. \A x \in S : IsFiniteSet(Above(x)) /\ Cardinality(Above(x)) \in Nat
  BY FS_Subset, FS_CardinalityType
<1>2. PICK T \in C : \A U \in C : Cardinality(T) <= Cardinality(U)
  <2>1. C # {} /\ \A U \in C : IsFiniteSet(U)
    BY <1>1
  <2> HIDE DEF C
  <2> QED
    BY <2>1, SmallestExists
<1>3. PICK x \in S : T = Above(x)
  OBVIOUS
<1>4. \A n \in S : n <= x
  <2> SUFFICES ASSUME NEW n \in S, n > x PROVE FALSE
    OBVIOUS
  <2>0. n > x
    OBVIOUS
  <2>1. Above(n) \subseteq Above(x) /\ n \in Above(x) /\ n \notin Above(n)
    <3>1. n \in Int /\ x \in Int
      OBVIOUS
    <3>2. \A y \in Int : y > n => y > x
      BY <2>0, <3>1
    <3>3. ~(n > n)
      BY <3>1
    <3> QED
      BY <2>0, <3>2, <3>3
  <2>2. Cardinality(Above(n)) <= Cardinality(Above(x)) /\ Cardinality(Above(n)) # Cardinality(Above(x))
    <3>1. Above(n) # Above(x)
      BY <2>1
    <3> HIDE DEF Above
    <3> QED
      BY <1>1, <2>1, <3>1, FS_Subset
  <2>3. Cardinality(Above(x)) <= Cardinality(Above(n))
    BY <1>2, <1>3
  <2> HIDE DEF Above
  <2> QED
    BY <1>1, <2>2, <2>3
<1> QED
  BY <1>4 DEF Max

LEMMA MinIs ==
  ASSUME NEW S \in SUBSET Int, IsFiniteSet(S), S # {}
  PROVE  Min(S) \in S /\ \A n \in S : Min(S) <= n
<1> DEFINE Below(x) == {y \in S : y < x}
           C == {Below(x) : x \in S}
<1>1. \A x \in S : IsFiniteSet(Below(x)) /\ Cardinality(Below(x)) \in Nat
  BY FS_Subset, FS_CardinalityType
<1>2. PICK T \in C : \A U \in C : Cardinality(T) <= Cardinality(U)
  <2>1. C # {} /\ \A U \in C : IsFiniteSet(U)
    BY <1>1
  <2> HIDE DEF C
  <2> QED
    BY <2>1, SmallestExists
<1>3. PICK x \in S : T = Below(x)
  OBVIOUS
<1>4. \A n \in S : x <= n
  <2> SUFFICES ASSUME NEW n \in S, n < x PROVE FALSE
    OBVIOUS
  <2>0. n < x
    OBVIOUS
  <2>1. Below(n) \subseteq Below(x) /\ n \in Below(x) /\ n \notin Below(n)
    <3>1. n \in Int /\ x \in Int
      OBVIOUS
    <3>2. \A y \in Int : y < n => y < x
      BY <2>0, <3>1
    <3>3. ~(n < n)
      BY <3>1
    <3> QED
      BY <2>0, <3>2, <3>3
  <2>2. Cardinality(Below(n)) <= Cardinality(Below(x)) /\ Cardinality(Below(n)) # Cardinality(Below(x))
    <3>1. Below(n) # Below(x)
      BY <2>1
    <3> HIDE DEF Below
    <3> QED
      BY <1>1, <2>1, <3>1, FS_Subset
  <2>3. Cardinality(Below(x)) <= Cardinality(Below(n))
    BY <1>2, <1>3
  <2> HIDE DEF Below
  <2> QED
    BY <1>1, <2>2, <2>3
<1> QED
  BY <1>4 DEF Min

-----------------------------------------------------------------------------
(* Sums of a function over a finite set.  Choice(S) is the element the     *)
(* fold takes first, and g is the fold's table over the subsets of S.      *)

Choice(S) == CHOOSE x \in S : TRUE

Tabulates(g, f, S) ==
  g = [s \in SUBSET S |-> IF s = {} THEN 0 ELSE f[Choice(s)] + g[s \ {Choice(s)}]]

LEMMA SumIsTabulated ==
  ASSUME NEW f, NEW S
  PROVE  SumFunctionOnSet(f, S) = (CHOOSE g : Tabulates(g, f, S))[S]
BY Zenon DEF SumFunctionOnSet, FoldFunctionOnSet, MapThenFoldSet, Tabulates, Choice

LEMMA Smaller ==
  ASSUME NEW S, IsFiniteSet(S), NEW x \in S
  PROVE  /\ IsFiniteSet(S \ {x})
         /\ Cardinality(S \ {x}) < Cardinality(S)
         /\ S \ {x} \subseteq S
<1>1. Cardinality(S) \in Nat
  BY FS_CardinalityType
<1>2. IsFiniteSet(S \ {x}) /\ Cardinality(S \ {x}) = Cardinality(S) - 1
  BY FS_RemoveElement
<1> QED
  BY <1>1, <1>2

(* Two tables agree where their functions do.                              *)
LEMMA TablesAgree ==
  ASSUME NEW f, NEW g, NEW F, NEW G, NEW S, NEW T,
         Tabulates(F, f, S), Tabulates(G, g, T),
         NEW U \in SUBSET S, U \subseteq T, IsFiniteSet(U),
         \A x \in U : f[x] = g[x]
  PROVE  F[U] = G[U]
<1> DEFINE C == {V \in SUBSET U : F[V] # G[V]}
<1> SUFFICES ASSUME C # {} PROVE FALSE
  OBVIOUS
<1>1. \A V \in C : IsFiniteSet(V)
  BY FS_Subset
<1>2. PICK V \in C : \A W \in C : Cardinality(V) <= Cardinality(W)
  <2> HIDE DEF C
  <2> QED  BY <1>1, SmallestExists
<1>3. /\ F[V] = IF V = {} THEN 0 ELSE f[Choice(V)] + F[V \ {Choice(V)}]
      /\ G[V] = IF V = {} THEN 0 ELSE g[Choice(V)] + G[V \ {Choice(V)}]
  BY DEF Tabulates
<1>4. V # {} /\ F[V] # G[V]
  BY <1>3
<1>5. Choice(V) \in V
  BY <1>4 DEF Choice
<1>6. V \ {Choice(V)} \notin C
  <2>1. Cardinality(V \ {Choice(V)}) < Cardinality(V) /\ Cardinality(V) \in Nat
        /\ Cardinality(V \ {Choice(V)}) \in Nat
    BY <1>1, <1>5, Smaller, FS_CardinalityType
  <2> QED
    BY <1>2, <2>1
<1>7. F[V \ {Choice(V)}] = G[V \ {Choice(V)}] /\ f[Choice(V)] = g[Choice(V)]
  BY <1>5, <1>6
<1> QED
  BY <1>3, <1>4, <1>7

LEMMA TableExists ==
  ASSUME NEW f, NEW S, IsFiniteSet(S)
  PROVE  \E g : Tabulates(g, f, S)
<1> DEFINE C == {T \in SUBSET S : ~\E g : Tabulates(g, f, T)}
<1> SUFFICES ASSUME C # {} PROVE FALSE
  OBVIOUS
<1>1. \A T \in C : IsFiniteSet(T)
  BY FS_Subset
<1>2. PICK T \in C : \A U \in C : Cardinality(T) <= Cardinality(U)
  <2> HIDE DEF C
  <2> QED  BY <1>1, SmallestExists
<1> DEFINE Table(U) == CHOOSE g : Tabulates(g, f, U)
           G == [s \in SUBSET T |->
                   IF s = {} THEN 0
                   ELSE f[Choice(s)] + Table(s \ {Choice(s)})[s \ {Choice(s)}]]
<1>3. ASSUME NEW s \in SUBSET T, s # {}
      PROVE  /\ Choice(s) \in s
             /\ s \ {Choice(s)} \in SUBSET T
             /\ IsFiniteSet(s \ {Choice(s)})
             /\ Tabulates(Table(s \ {Choice(s)}), f, s \ {Choice(s)})
  <2>1. Choice(s) \in s
    BY <1>3 DEF Choice
  <2>2. IsFiniteSet(s) /\ Cardinality(s) <= Cardinality(T) /\ Cardinality(T) \in Nat
    BY <1>1, FS_Subset, FS_CardinalityType
  <2>3. /\ IsFiniteSet(s \ {Choice(s)})
        /\ Cardinality(s \ {Choice(s)}) < Cardinality(T)
        /\ Cardinality(s \ {Choice(s)}) \in Nat
    BY <2>1, <2>2, Smaller, FS_CardinalityType
  <2>4. s \ {Choice(s)} \notin C
    BY <1>2, <2>2, <2>3
  <2>5. \E g : Tabulates(g, f, s \ {Choice(s)})
    BY <2>4
  <2> QED
    BY <2>1, <2>3, <2>5
<1>4. ASSUME NEW s \in SUBSET T
      PROVE  G[s] = IF s = {} THEN 0 ELSE f[Choice(s)] + G[s \ {Choice(s)}]
  <2>1. CASE s = {}
    BY <2>1
  <2>2. CASE s # {}
    <3> DEFINE r == s \ {Choice(s)}
               H == Table(r)
    <3>1. /\ r \in SUBSET T /\ IsFiniteSet(r) /\ Tabulates(H, f, r)
          /\ G[s] = f[Choice(s)] + H[r]
      BY <1>3, <2>2
    <3>2. H[r] = G[r]
      <4>1. H[r] = IF r = {} THEN 0 ELSE f[Choice(r)] + H[r \ {Choice(r)}]
        <5> HIDE DEF H, r
        <5> QED  BY <3>1 DEF Tabulates
      <4>2. G[r] = IF r = {} THEN 0
                   ELSE f[Choice(r)] + Table(r \ {Choice(r)})[r \ {Choice(r)}]
        BY <3>1
      <4>3. ASSUME r # {}
            PROVE  H[r \ {Choice(r)}] = Table(r \ {Choice(r)})[r \ {Choice(r)}]
        <5>1. /\ r \ {Choice(r)} \in SUBSET r
              /\ IsFiniteSet(r \ {Choice(r)})
              /\ Tabulates(Table(r \ {Choice(r)}), f, r \ {Choice(r)})
          BY <1>3, <3>1, <4>3
        <5> HIDE DEF H, r, Table
        <5> QED
          BY <3>1, <5>1, TablesAgree
      <4> HIDE DEF H, r, Table, G
      <4> QED
        BY <4>1, <4>2, <4>3
    <3> QED
      BY <2>2, <3>1, <3>2
  <2> QED
    BY <2>1, <2>2
<1>5. Tabulates(G, f, T)
  <2>1. G = [s \in SUBSET T |-> G[s]]
    OBVIOUS
  <2> HIDE DEF G
  <2> QED
    BY <2>1, <1>4 DEF Tabulates
<1> QED
  BY <1>2, <1>5

-----------------------------------------------------------------------------
LEMMA SumTable ==
  ASSUME NEW f, NEW S, IsFiniteSet(S)
  PROVE  \E g : Tabulates(g, f, S) /\ SumFunctionOnSet(f, S) = g[S]
BY TableExists, SumIsTabulated

LEMMA SumEmpty ==
  ASSUME NEW f PROVE SumFunctionOnSet(f, {}) = 0
<1>1. PICK g : Tabulates(g, f, {}) /\ SumFunctionOnSet(f, {}) = g[{}]
  BY FS_EmptySet, SumTable
<1> QED
  BY <1>1 DEF Tabulates

(* The sum of what agrees is the same.                                     *)
LEMMA SumAgrees ==
  ASSUME NEW f, NEW g, NEW S, IsFiniteSet(S), \A x \in S : f[x] = g[x]
  PROVE  SumFunctionOnSet(f, S) = SumFunctionOnSet(g, S)
<1>1. PICK F : Tabulates(F, f, S) /\ SumFunctionOnSet(f, S) = F[S]
  BY SumTable
<1>2. PICK G : Tabulates(G, g, S) /\ SumFunctionOnSet(g, S) = G[S]
  BY SumTable
<1> QED
  BY <1>1, <1>2, TablesAgree

LEMMA SumChosen ==
  ASSUME NEW f, NEW S, IsFiniteSet(S), S # {}
  PROVE  SumFunctionOnSet(f, S)
           = f[Choice(S)] + SumFunctionOnSet(f, S \ {Choice(S)})
<1> DEFINE R == S \ {Choice(S)}
<1>1. PICK F : Tabulates(F, f, S) /\ SumFunctionOnSet(f, S) = F[S]
  BY SumTable
<1>2. Choice(S) \in S
  BY DEF Choice
<1>3. IsFiniteSet(R) /\ R \in SUBSET S
  BY <1>2, Smaller
<1>4. PICK G : Tabulates(G, f, R) /\ SumFunctionOnSet(f, R) = G[R]
  BY <1>3, SumTable
<1>5. F[R] = G[R]
  <2> HIDE DEF R
  <2> QED  BY <1>1, <1>3, <1>4, TablesAgree
<1>6. F[S] = f[Choice(S)] + F[R]
  BY <1>1 DEF Tabulates
<1> QED
  BY <1>1, <1>4, <1>5, <1>6

(* A sum of naturals is a natural, and any element may be taken first.     *)
LEMMA SumType ==
  ASSUME NEW f, NEW S, IsFiniteSet(S), \A x \in S : f[x] \in Nat
  PROVE  SumFunctionOnSet(f, S) \in Nat
<1> DEFINE C == {T \in SUBSET S : SumFunctionOnSet(f, T) \notin Nat}
<1> SUFFICES ASSUME C # {} PROVE FALSE
  OBVIOUS
<1>1. \A T \in C : IsFiniteSet(T)
  BY FS_Subset
<1>2. PICK T \in C : \A U \in C : Cardinality(T) <= Cardinality(U)
  <2> HIDE DEF C
  <2> QED  BY <1>1, SmallestExists
<1>3. T # {}
  BY <1>2, SumEmpty
<1>4. Choice(T) \in T
  BY <1>3 DEF Choice
<1>5. T \ {Choice(T)} \notin C
  <2>1. /\ Cardinality(T \ {Choice(T)}) < Cardinality(T)
        /\ Cardinality(T) \in Nat /\ Cardinality(T \ {Choice(T)}) \in Nat
    BY <1>1, <1>4, Smaller, FS_CardinalityType
  <2> QED
    BY <1>2, <2>1
<1>6. SumFunctionOnSet(f, T \ {Choice(T)}) \in Nat /\ f[Choice(T)] \in Nat
  BY <1>4, <1>5
<1> QED
  BY <1>1, <1>2, <1>3, <1>6, SumChosen

LEMMA SumSplits ==
  ASSUME NEW f, NEW S, IsFiniteSet(S), \A x \in S : f[x] \in Nat, NEW x \in S
  PROVE  SumFunctionOnSet(f, S) = f[x] + SumFunctionOnSet(f, S \ {x})
<1> DEFINE C == {T \in SUBSET S :
                   \E y \in T : SumFunctionOnSet(f, T)
                                  # f[y] + SumFunctionOnSet(f, T \ {y})}
<1> SUFFICES ASSUME C # {} PROVE FALSE
  OBVIOUS
<1>1. \A T \in SUBSET S : IsFiniteSet(T) /\ SumFunctionOnSet(f, T) \in Nat
  BY FS_Subset, SumType
<1>2. PICK T \in C : \A U \in C : Cardinality(T) <= Cardinality(U)
  <2>1. \A T \in C : IsFiniteSet(T)
    BY <1>1
  <2> HIDE DEF C
  <2> QED  BY <2>1, SmallestExists
<1>3. PICK y \in T : SumFunctionOnSet(f, T) # f[y] + SumFunctionOnSet(f, T \ {y})
  BY <1>2
<1> DEFINE c == Choice(T)
<1>4. c \in T
  BY <1>3 DEF Choice
<1>5. SumFunctionOnSet(f, T) = f[c] + SumFunctionOnSet(f, T \ {c})
  BY <1>1, <1>3, SumChosen
<1>6. c # y
  BY <1>3, <1>5
<1> HIDE DEF c
<1>7. ASSUME NEW z \in T PROVE T \ {z} \notin C
  <2>1. /\ Cardinality(T \ {z}) < Cardinality(T)
        /\ Cardinality(T) \in Nat /\ Cardinality(T \ {z}) \in Nat
    BY <1>1, Smaller, FS_CardinalityType
  <2> QED
    BY <1>2, <2>1
<1>8. SumFunctionOnSet(f, T \ {c}) = f[y] + SumFunctionOnSet(f, (T \ {c}) \ {y})
  BY <1>4, <1>6, <1>7
<1>9. SumFunctionOnSet(f, T \ {y}) = f[c] + SumFunctionOnSet(f, (T \ {y}) \ {c})
  BY <1>4, <1>6, <1>7
<1>10. (T \ {c}) \ {y} = (T \ {y}) \ {c}
  OBVIOUS
<1>11. /\ f[c] \in Nat /\ f[y] \in Nat
       /\ SumFunctionOnSet(f, (T \ {y}) \ {c}) \in Nat
  BY <1>1, <1>4
<1> QED
  BY <1>3, <1>5, <1>8, <1>9, <1>10, <1>11

(* The sizes of disjoint finite sets add up to the size of their union.    *)
LEMMA SumOfSizes ==
  ASSUME NEW S, IsFiniteSet(S), NEW f, NEW P,
         \A x \in S : IsFiniteSet(P[x]) /\ f[x] = Cardinality(P[x]),
         \A x, y \in S : x # y => P[x] \intersect P[y] = {}
  PROVE  SumFunctionOnSet(f, S) = Cardinality(UNION {P[x] : x \in S})
<1> DEFINE All(T) == UNION {P[x] : x \in T}
           C == {T \in SUBSET S :
                   ~(/\ IsFiniteSet(All(T))
                     /\ SumFunctionOnSet(f, T) = Cardinality(All(T)))}
<1> SUFFICES ASSUME C # {} PROVE FALSE
  OBVIOUS
<1>1. \A T \in SUBSET S : IsFiniteSet(T)
  BY FS_Subset
<1>2. PICK T \in C : \A U \in C : Cardinality(T) <= Cardinality(U)
  <2>1. \A T \in C : IsFiniteSet(T)
    BY <1>1
  <2> HIDE DEF C
  <2> QED  BY <2>1, SmallestExists
<1>3. T # {}
  <2>1. All({}) = {}
    OBVIOUS
  <2> QED
    BY <1>2, <2>1, SumEmpty, FS_EmptySet
<1>4. PICK x \in T : TRUE
  BY <1>3
<1>5. T \ {x} \notin C
  <2>1. /\ Cardinality(T \ {x}) < Cardinality(T)
        /\ Cardinality(T) \in Nat /\ Cardinality(T \ {x}) \in Nat
    BY <1>1, Smaller, FS_CardinalityType
  <2> QED
    BY <1>2, <2>1
<1>6. /\ IsFiniteSet(All(T \ {x}))
      /\ SumFunctionOnSet(f, T \ {x}) = Cardinality(All(T \ {x}))
  BY <1>5
<1>7. IsFiniteSet(P[x]) /\ f[x] = Cardinality(P[x])
  OBVIOUS
<1>8. All(T) = P[x] \union All(T \ {x}) /\ P[x] \intersect All(T \ {x}) = {}
  OBVIOUS
<1>9. SumFunctionOnSet(f, T) = f[x] + SumFunctionOnSet(f, T \ {x})
  <2>1. \A y \in T : f[y] \in Nat
    BY FS_CardinalityType
  <2> QED
    BY <1>1, <2>1, SumSplits
<1>10. T \notin C
  <2> HIDE DEF All
  <2>1. /\ IsFiniteSet(All(T))
        /\ Cardinality(All(T)) = Cardinality(P[x]) + Cardinality(All(T \ {x})) - Cardinality({})
    <3>1. /\ IsFiniteSet(P[x] \union All(T \ {x}))
          /\ Cardinality(P[x] \union All(T \ {x}))
               = Cardinality(P[x]) + Cardinality(All(T \ {x}))
                   - Cardinality(P[x] \intersect All(T \ {x}))
      BY <1>6, <1>7, FS_Union
    <3> QED
      BY <3>1, <1>8
  <2>2. Cardinality(P[x]) \in Nat /\ Cardinality(All(T \ {x})) \in Nat
    BY <1>6, <1>7, FS_CardinalityType
  <2> QED
    BY <1>6, <1>7, <1>9, <2>1, <2>2, FS_EmptySet
<1> QED
  BY <1>2, <1>10
=============================================================================
