-------------------------- MODULE FormulaOrder_proofs --------------------------
(* Proofs about topoSortFormulas, for any list of formulas: that the search     *)
(* ends, and that it orders the formulas or refuses them for a cycle            *)
(* (SortIsSound).  Before that, what these proofs and those of other modules     *)
(* need of recursion, finite sets and sums.                                     *)
EXTENDS FormulaOrder, FiniteSetTheorems, WellFoundedInduction, TLAPS

\* A list that can be sorted: of formulas, that are not undefined and read a sequence of
\* keys.
Sortable(fs) ==
    /\ fs \in Seq(Range(fs))
    /\ \A f \in Range(fs) : f # Undefined /\ f.in \in Seq(Range(f.in))

-------------------------------------------------------------------------------
(* Recursion and induction.                                                  *)

\* A set of numbers that is not empty has a least element.
LEMMA LeastNumber ==
  ASSUME NEW T \in SUBSET Nat, T # {}
  PROVE  \E n \in T : \A m \in T : n <= m
  <1> DEFINE Less == OpToRel(<, Nat)
  <1>1. IsWellFoundedOn(Less, Nat)
    BY NatLessThanWellFounded
  <1>2. \A m, n \in Nat : m < n => <<m, n>> \in Less
    BY DEF OpToRel
  <1> HIDE DEF Less
  <1>3. PICK n \in T : \A m \in T : ~ (<<m, n>> \in Less)
    BY <1>1, WFMin
  <1>4. ASSUME NEW m \in T PROVE n <= m
    <2>1. n \in Nat /\ m \in Nat /\ ~ (m < n)
      BY <1>2, <1>3
    <2> QED BY <2>1
  <1> QED BY <1>4

\* R is an order of D in which every set has a minimal element.
WellOrdered(D, R) ==
    /\ \A x \in D : <<x, x>> \notin R
    /\ \A x, y, z \in D : <<x, y>> \in R /\ <<y, z>> \in R => <<x, z>> \in R
    /\ \A P \in SUBSET D : P # {} => \E x \in P : \A y \in P : <<y, x>> \notin R

\* H gives the value at x of a function that has the values of g below x.
Depends(H, D, V, R) ==
    /\ H \in [[D -> V] \X D -> V]
    /\ \A x \in D : \A g, h \in [D -> V] :
          (\A y \in D : <<y, x>> \in R => g[y] = h[y]) => H[g, x] = H[h, x]

\* g is as H says from x down.
Solves(g, H, D, R, x) ==
    /\ g[x] = H[g, x]
    /\ \A y \in D : <<y, x>> \in R => g[y] = H[g, y]

IsSolution(g, H, D, V) == g \in [D -> V] /\ \A x \in D : g[x] = H[g, x]

\* Two functions that are as H says from x down agree there.
LEMMA OneSolution ==
  ASSUME NEW D, NEW V, NEW R, NEW H, WellOrdered(D, R), Depends(H, D, V, R),
         NEW x \in D, NEW g \in [D -> V], NEW h \in [D -> V],
         Solves(g, H, D, R, x), Solves(h, H, D, R, x)
  PROVE  g[x] = h[x] /\ \A y \in D : <<y, x>> \in R => g[y] = h[y]
  <1> DEFINE Down == {y \in D : y = x \/ <<y, x>> \in R}
             P == {y \in Down : g[y] # h[y]}
  <1>1. P = {}
    <2> SUFFICES ASSUME P # {} PROVE FALSE
      OBVIOUS
    <2>0. P \in SUBSET D
      OBVIOUS
    <2>1. PICK y \in P : \A z \in P : <<z, y>> \notin R
      <3> HIDE DEF P
      <3> QED BY <2>0 DEF WellOrdered
    <2>2. y \in D /\ g[y] # h[y] /\ (y = x \/ <<y, x>> \in R)
      OBVIOUS
    <2>3. \A z \in D : <<z, y>> \in R => z \in Down
      BY <2>2 DEF WellOrdered
    <2>4. \A z \in D : <<z, y>> \in R => g[z] = h[z]
      BY <2>1, <2>3
    <2>5. H[g, y] = H[h, y]
      BY <2>2, <2>4 DEF Depends
    <2>6. g[y] = H[g, y] /\ h[y] = H[h, y]
      BY <2>2 DEF Solves
    <2> QED BY <2>2, <2>5, <2>6
  <1> QED BY <1>1

\* There is a function as H says.
LEMMA Recursion ==
  ASSUME NEW D, NEW V, NEW R, NEW H, NEW v \in V, WellOrdered(D, R), Depends(H, D, V, R)
  PROVE  \E g : IsSolution(g, H, D, V)
  <1> DEFINE Q == {x \in D : \E g \in [D -> V] : Solves(g, H, D, R, x)}
             G == [x \in D |-> CHOOSE g \in [D -> V] : Solves(g, H, D, R, x)]
  <1>1. ASSUME NEW x \in Q PROVE x \in D /\ G[x] \in [D -> V] /\ Solves(G[x], H, D, R, x)
    OBVIOUS
  <1>2. ASSUME NEW x \in D, NEW g \in [D -> V], Solves(g, H, D, R, x)
        PROVE  x \in Q
    BY <1>2
  <1> HIDE DEF G, Q
  <1>3. ASSUME NEW x \in Q, NEW y \in D, <<y, x>> \in R
        PROVE  y \in Q /\ G[y][y] = G[x][y]
    <2>1. Solves(G[x], H, D, R, y)
      BY <1>1, <1>3 DEF Solves, WellOrdered
    <2>2. y \in Q
      BY <1>1, <1>2, <2>1
    <2>3. Solves(G[y], H, D, R, y) /\ G[y] \in [D -> V]
      BY <1>1, <2>2
    <2> QED BY <1>1, <2>1, <2>2, <2>3, OneSolution
  <1>4. Q = D
    <2> SUFFICES ASSUME D \ Q # {} PROVE FALSE
      BY DEF Q
    <2>1. PICK x \in D \ Q : \A y \in D \ Q : <<y, x>> \notin R
      BY DEF WellOrdered
    <2>2. \A y \in D : <<y, x>> \in R => y \in Q
      BY <2>1
    <2> DEFINE h == [y \in D |-> IF <<y, x>> \in R THEN G[y][y] ELSE v]
               k == [h EXCEPT ![x] = H[h, x]]
    <2>3. h \in [D -> V]
      BY <1>1, <2>2
    <2>4. H[h, x] \in V
      BY <2>3 DEF Depends
    <2>5. /\ k \in [D -> V]
          /\ k[x] = H[h, x]
          /\ \A y \in D : y # x => k[y] = h[y]
      BY <2>3, <2>4
    <2>6. \A y \in D : <<y, x>> \in R => h[y] = G[y][y]
      OBVIOUS
    <2> HIDE DEF h, k
    <2>7. ASSUME NEW y \in D, <<y, x>> \in R
          PROVE  k[y] = H[k, y]
      <3>1. y \in Q /\ y # x
        BY <2>2, <2>7 DEF WellOrdered
      <3>2. ASSUME NEW z \in D, <<z, y>> \in R
            PROVE  k[z] = G[y][z]
        <4>1. <<z, x>> \in R /\ z # x
          BY <2>7, <3>2 DEF WellOrdered
        <4>2. k[z] = G[z][z]
          BY <2>5, <2>6, <4>1
        <4>3. G[z][z] = G[y][z]
          BY <1>3, <3>1, <3>2
        <4> QED BY <4>2, <4>3
      <3>3. G[y] \in [D -> V] /\ G[y][y] = H[G[y], y]
        BY <1>1, <3>1 DEF Solves
      <3>4. H[k, y] = H[G[y], y]
        BY <2>5, <3>2, <3>3 DEF Depends
      <3>5. k[y] = G[y][y]
        BY <2>5, <2>6, <2>7, <3>1
      <3> QED BY <3>3, <3>4, <3>5
    <2>8. k[x] = H[k, x]
      <3>1. \A y \in D : <<y, x>> \in R => k[y] = h[y]
        BY <2>5 DEF WellOrdered
      <3>2. H[k, x] = H[h, x]
        BY <2>3, <2>5, <3>1 DEF Depends
      <3> QED BY <2>5, <3>2
    <2>9. Solves(k, H, D, R, x)
      BY <2>7, <2>8 DEF Solves
    <2> QED BY <1>2, <2>1, <2>5, <2>9
  <1> DEFINE g == [x \in D |-> G[x][x]]
  <1>5. g \in [D -> V]
    BY <1>1, <1>4
  <1>6. \A x \in D : g[x] = G[x][x]
    OBVIOUS
  <1> HIDE DEF g
  <1>7. ASSUME NEW x \in D PROVE g[x] = H[g, x]
    <2>1. \A y \in D : <<y, x>> \in R => g[y] = G[x][y]
      BY <1>3, <1>4, <1>6
    <2>2. G[x] \in [D -> V] /\ G[x][x] = H[G[x], x]
      BY <1>1, <1>4 DEF Solves
    <2>3. H[g, x] = H[G[x], x]
      BY <1>5, <2>1, <2>2 DEF Depends
    <2> QED BY <1>6, <2>2, <2>3
  <1> QED BY <1>5, <1>7 DEF IsSolution

\* What holds at x if it holds below x holds everywhere.
LEMMA Induction ==
  ASSUME NEW D, NEW R, WellOrdered(D, R), NEW P,
         \A x \in D : (\A y \in D : <<y, x>> \in R => y \in P) => x \in P
  PROVE  D \subseteq P
  <1> DEFINE N == D \ P
  <1> SUFFICES ASSUME N # {} PROVE FALSE
    OBVIOUS
  <1>0. N \in SUBSET D
    OBVIOUS
  <1>1. PICK x \in N : \A y \in N : <<y, x>> \notin R
    <2> HIDE DEF N
    <2> QED BY <1>0 DEF WellOrdered
  <1> QED BY <1>1

-------------------------------------------------------------------------------
(* Finite sets and sums.                                                     *)

\* The subsets of a finite set are well-ordered by proper inclusion.
Inclusion(S) == {p \in (SUBSET S) \X (SUBSET S) : p[1] \subseteq p[2] /\ p[1] # p[2]}

LEMMA InclusionOrders ==
  ASSUME NEW S, IsFiniteSet(S)
  PROVE  WellOrdered(SUBSET S, Inclusion(S))
  <1>1. ASSUME NEW P \in SUBSET SUBSET S, P # {}
        PROVE  \E T \in P : \A U \in P : <<U, T>> \notin Inclusion(S)
    <2> DEFINE N == {Cardinality(T) : T \in P}
    <2>1. \A T \in P : IsFiniteSet(T) /\ Cardinality(T) \in Nat
      BY FS_Subset, FS_CardinalityType
    <2>2. N \in SUBSET Nat /\ N # {}
      BY <1>1, <2>1
    <2>3. PICK n \in N : \A m \in N : n <= m
      <3> HIDE DEF N
      <3> QED BY <2>2, LeastNumber
    <2>4. PICK T \in P : Cardinality(T) = n
      OBVIOUS
    <2>5. ASSUME NEW U \in P, <<U, T>> \in Inclusion(S) PROVE FALSE
      <3>1. U \subseteq T /\ U # T
        BY <2>5 DEF Inclusion
      <3>2. Cardinality(U) < Cardinality(T)
        BY <2>1, <3>1, FS_Subset
      <3>3. Cardinality(U) \in N /\ Cardinality(U) \in Nat /\ Cardinality(T) \in Nat
        BY <2>1
      <3> QED BY <2>3, <2>4, <3>2, <3>3
    <2> QED BY <2>5
  <1>2. \A T \in SUBSET S : <<T, T>> \notin Inclusion(S)
    BY DEF Inclusion
  <1>3. ASSUME NEW T \in SUBSET S, NEW U \in SUBSET S, NEW V \in SUBSET S,
               <<T, U>> \in Inclusion(S), <<U, V>> \in Inclusion(S)
        PROVE  <<T, V>> \in Inclusion(S)
    BY <1>3 DEF Inclusion
  <1> QED BY <1>1, <1>2, <1>3 DEF WellOrdered

\* What holds of a subset if it holds of all that are smaller holds of every one.
LEMMA SubsetInduction ==
  ASSUME NEW S, IsFiniteSet(S), NEW P,
         \A T \in SUBSET S : (\A U \in SUBSET S : <<U, T>> \in Inclusion(S) => U \in P) => T \in P
  PROVE  SUBSET S \subseteq P
  <1> DEFINE D == SUBSET S
             R == Inclusion(S)
  <1>1. \A T \in D : (\A U \in D : <<U, T>> \in R => U \in P) => T \in P
    OBVIOUS
  <1>2. WellOrdered(D, R)
    BY InclusionOrders
  <1>3. D \subseteq P
    <2> HIDE DEF D, R
    <2> QED BY <1>1, <1>2, Induction
  <1> QED BY <1>3

\* What holds of the empty set, and of a set with one element more if it holds without it,
\* holds of every finite set.
LEMMA SetInduction ==
  ASSUME NEW S, IsFiniteSet(S), NEW P, {} \in P,
         \A T \in SUBSET S : \A x \in S \ T : T \in P => T \cup {x} \in P
  PROVE  S \in P
  <1>1. ASSUME NEW T \in SUBSET S, \A U \in SUBSET S : <<U, T>> \in Inclusion(S) => U \in P
        PROVE  T \in P
    <2>1. CASE T = {}
      BY <2>1
    <2>2. CASE T # {}
      <3>1. PICK x \in T : TRUE
        BY <2>2
      <3>2. T \ {x} \in P
        BY <1>1 DEF Inclusion
      <3>3. T \ {x} \in SUBSET S /\ x \in S \ (T \ {x}) /\ T = (T \ {x}) \cup {x}
        OBVIOUS
      <3> QED BY <3>2, <3>3
    <2> QED BY <2>1, <2>2
  <1>2. SUBSET S \subseteq P
    BY <1>1, SubsetInduction
  <1> QED BY <1>2

\* The recursive function that adds up f over the subsets of S.
Picked(S) == CHOOSE x \in S : TRUE
Sums(g, f, S) ==
    g = [s \in SUBSET S |-> IF s = {} THEN 0 ELSE f[Picked(s)] + g[s \ {Picked(s)}]]

\* It exists.
LEMMA SumsExist ==
  ASSUME NEW S, IsFiniteSet(S), NEW f, \A x \in S : f[x] \in Int
  PROVE  \E g \in [SUBSET S -> Int] : Sums(g, f, S)
  <1> DEFINE D == SUBSET S
             R == Inclusion(S)
             H == [p \in [D -> Int] \X D |->
                      IF p[2] = {} THEN 0 ELSE f[Picked(p[2])] + p[1][p[2] \ {Picked(p[2])}]]
  <1>1. ASSUME NEW s \in D, s # {}
        PROVE  Picked(s) \in S /\ s \ {Picked(s)} \in D /\ <<s \ {Picked(s)}, s>> \in R
    BY <1>1 DEF Picked, Inclusion
  <1>2. Depends(H, D, Int, R)
    <2>1. \A g \in [D -> Int], s \in D :
             H[g, s] = IF s = {} THEN 0 ELSE f[Picked(s)] + g[s \ {Picked(s)}]
      OBVIOUS
    <2>2. \A s \in D : s # {} => f[Picked(s)] \in Int
      BY <1>1
    <2>3. H \in [[D -> Int] \X D -> Int]
      <3>1. ASSUME NEW p \in [D -> Int] \X D
            PROVE  (IF p[2] = {} THEN 0 ELSE f[Picked(p[2])] + p[1][p[2] \ {Picked(p[2])}]) \in Int
        <4>1. p[1] \in [D -> Int] /\ p[2] \in D
          OBVIOUS
        <4>2. CASE p[2] = {}
          BY <4>2
        <4>3. CASE p[2] # {}
          <5>1. f[Picked(p[2])] \in Int /\ p[1][p[2] \ {Picked(p[2])}] \in Int
            BY <1>1, <2>2, <4>1, <4>3
          <5> QED BY <4>3, <5>1
        <4> QED BY <4>2, <4>3
      <3> QED BY <3>1
    <2>4. ASSUME NEW s \in D, NEW g \in [D -> Int], NEW h \in [D -> Int],
                 \A t \in D : <<t, s>> \in R => g[t] = h[t]
          PROVE  H[g, s] = H[h, s]
      <3>1. s # {} => g[s \ {Picked(s)}] = h[s \ {Picked(s)}]
        BY <1>1, <2>4
      <3> HIDE DEF H, D
      <3> QED BY <2>1, <3>1
    <2> HIDE DEF H, D, R
    <2> QED BY <2>3, <2>4 DEF Depends
  <1>3. WellOrdered(D, R)
    BY InclusionOrders
  <1>4. PICK g : IsSolution(g, H, D, Int)
    <2> HIDE DEF H, D, R
    <2>1. 0 \in Int
      OBVIOUS
    <2> QED BY <1>2, <1>3, <2>1, Recursion
  <1>5. g \in [D -> Int] /\ \A s \in D : g[s] = H[g, s]
    BY <1>4 DEF IsSolution
  <1>6. g = [s \in D |-> IF s = {} THEN 0 ELSE f[Picked(s)] + g[s \ {Picked(s)}]]
    BY <1>5
  <1> QED BY <1>5, <1>6 DEF Sums

\* And there is but one, also on the subsets of a subset.
LEMMA SumsAgree ==
  ASSUME NEW S, IsFiniteSet(S), NEW f, NEW T \in SUBSET S,
         NEW g, Sums(g, f, S), NEW h, Sums(h, f, T)
  PROVE  g[T] = h[T]
  <1> DEFINE P == {U \in SUBSET T : g[U] = h[U]}
  <1>1. ASSUME NEW U \in SUBSET T, \A V \in SUBSET T : <<V, U>> \in Inclusion(T) => V \in P
        PROVE  U \in P
    <2>1. U \in SUBSET S
      OBVIOUS
    <2>2. /\ g[U] = IF U = {} THEN 0 ELSE f[Picked(U)] + g[U \ {Picked(U)}]
          /\ h[U] = IF U = {} THEN 0 ELSE f[Picked(U)] + h[U \ {Picked(U)}]
      BY <2>1 DEF Sums
    <2>3. ASSUME U # {} PROVE g[U \ {Picked(U)}] = h[U \ {Picked(U)}]
      BY <1>1, <2>3 DEF Inclusion, Picked
    <2> QED BY <2>2, <2>3
  <1>2. IsFiniteSet(T)
    BY FS_Subset
  <1>3. SUBSET T \subseteq P
    <2> HIDE DEF P
    <2> QED BY <1>1, <1>2, SubsetInduction
  <1> QED BY <1>3

\* A sum is the value of that function.
LEMMA SumIs ==
  ASSUME NEW S, IsFiniteSet(S), NEW f, \A x \in S : f[x] \in Int
  PROVE  \E g \in [SUBSET S -> Int] : SumFunctionOnSet(f, S) = g[S] /\ Sums(g, f, S)
  <1> DEFINE g == CHOOSE g : Sums(g, f, S)
  <1>1. SumFunctionOnSet(f, S) = g[S]
    BY DEF SumFunctionOnSet, FoldFunctionOnSet, MapThenFoldSet, Sums, Picked
  <1>2. PICK k \in [SUBSET S -> Int] : Sums(k, f, S)
    BY SumsExist
  <1>3. Sums(g, f, S)
    BY <1>2
  <1>4. ASSUME NEW T \in SUBSET S PROVE g[T] = k[T]
    <2>1. Sums([t \in SUBSET T |-> k[t]], f, T)
      BY <1>2 DEF Sums, Picked
    <2> DEFINE h == [t \in SUBSET T |-> k[t]]
    <2>2. g[T] = h[T] /\ k[T] = h[T]
      <3> HIDE DEF g, h
      <3> QED BY <1>2, <1>3, <2>1, SumsAgree DEF h
    <2> QED BY <2>2
  <1>5. g \in [SUBSET S -> Int]
    <2>1. g = [s \in SUBSET S |-> g[s]]
      BY <1>3 DEF Sums
    <2> HIDE DEF g
    <2> QED BY <1>4, <2>1
  <1> QED BY <1>1, <1>3, <1>5

\* The sum over no elements is 0, and an element can be taken out of a sum.
LEMMA SumOfNone ==
  ASSUME NEW f
  PROVE  SumFunctionOnSet(f, {}) = 0
  <1>1. IsFiniteSet({}) /\ \A x \in {} : f[x] \in Int
    BY FS_EmptySet
  <1>2. PICK g : SumFunctionOnSet(f, {}) = g[{}] /\ Sums(g, f, {})
    BY <1>1, SumIs
  <1> QED BY <1>2 DEF Sums

\* A sum is an integer.
LEMMA SumType ==
  ASSUME NEW S, IsFiniteSet(S), NEW f, \A x \in S : f[x] \in Int
  PROVE  SumFunctionOnSet(f, S) \in Int
  <1>1. PICK g \in [SUBSET S -> Int] : SumFunctionOnSet(f, S) = g[S]
    BY SumIs
  <1>2. g[S] \in Int
    OBVIOUS
  <1> QED BY <1>1, <1>2

\* The element that is picked first.
LEMMA SumOfPicked ==
  ASSUME NEW S, IsFiniteSet(S), NEW f, \A x \in S : f[x] \in Int, S # {}
  PROVE  SumFunctionOnSet(f, S) = f[Picked(S)] + SumFunctionOnSet(f, S \ {Picked(S)})
  <1> DEFINE T == S \ {Picked(S)}
  <1>1. PICK g : SumFunctionOnSet(f, S) = g[S] /\ Sums(g, f, S)
    BY SumIs
  <1>2. IsFiniteSet(T) /\ T \in SUBSET S /\ \A x \in T : f[x] \in Int
    BY FS_Subset
  <1>3. PICK h : SumFunctionOnSet(f, T) = h[T] /\ Sums(h, f, T)
    <2> HIDE DEF T
    <2> QED BY <1>2, SumIs
  <1>4. g[T] = h[T]
    <2> HIDE DEF T
    <2> QED BY <1>1, <1>2, <1>3, SumsAgree
  <1>5. g[S] = f[Picked(S)] + g[T]
    BY <1>1 DEF Sums
  <1> QED BY <1>1, <1>3, <1>4, <1>5

\* Any element.
LEMMA SumWithout ==
  ASSUME NEW S, IsFiniteSet(S), NEW f, \A x \in S : f[x] \in Int, NEW a \in S
  PROVE  SumFunctionOnSet(f, S) = f[a] + SumFunctionOnSet(f, S \ {a})
  <1> DEFINE s(T) == SumFunctionOnSet(f, T)
             P == {T \in SUBSET S : \A x \in T : s(T) = f[x] + s(T \ {x})}
  <1>0. ASSUME NEW T \in SUBSET S
        PROVE  IsFiniteSet(T) /\ s(T) \in Int /\ \A x \in T : f[x] \in Int
    <2>1. IsFiniteSet(T) /\ \A x \in T : f[x] \in Int
      BY FS_Subset
    <2> QED BY <2>1, SumType
  <1>1. ASSUME NEW T \in SUBSET S, \A U \in SUBSET S : <<U, T>> \in Inclusion(S) => U \in P
        PROVE  T \in P
    <2> SUFFICES ASSUME NEW x \in T PROVE s(T) = f[x] + s(T \ {x})
      OBVIOUS
    <2> DEFINE p == Picked(T)
    <2>1. p \in T
      BY DEF Picked
    <2>2. s(T) = f[p] + s(T \ {p})
      BY <1>0, <2>1, SumOfPicked
    <2> HIDE DEF p
    <2>3. CASE x = p
      BY <2>2, <2>3
    <2>4. CASE x # p
      <3>1. T \ {p} \in P /\ T \ {x} \in P
        BY <1>1, <2>1 DEF Inclusion
      <3>2. x \in T \ {p} /\ p \in T \ {x} /\ (T \ {p}) \ {x} = (T \ {x}) \ {p}
        BY <2>1, <2>4
      <3>3. s(T \ {p}) = f[x] + s((T \ {p}) \ {x})
        BY <3>1, <3>2
      <3>4. s(T \ {x}) = f[p] + s((T \ {p}) \ {x})
        <4>1. s(T \ {x}) = f[p] + s((T \ {x}) \ {p})
          BY <3>1, <3>2
        <4> HIDE DEF s
        <4> QED BY <3>2, <4>1
      <3>5. /\ s(T) \in Int /\ s(T \ {p}) \in Int /\ s(T \ {x}) \in Int
            /\ s((T \ {p}) \ {x}) \in Int
            /\ f[x] \in Int /\ f[p] \in Int
        <4>1. T \ {p} \in SUBSET S /\ T \ {x} \in SUBSET S /\ (T \ {p}) \ {x} \in SUBSET S
          OBVIOUS
        <4> HIDE DEF s
        <4> QED BY <1>0, <2>1, <4>1
      <3> HIDE DEF s
      <3> QED BY <2>2, <3>3, <3>4, <3>5
    <2> QED BY <2>3, <2>4
  <1>2. SUBSET S \subseteq P
    <2> HIDE DEF P
    <2> QED BY <1>1, SubsetInduction
  <1> QED BY <1>2

\* One more element.
LEMMA SumWith ==
  ASSUME NEW S, IsFiniteSet(S), NEW f, NEW a, a \notin S, \A x \in S \cup {a} : f[x] \in Int
  PROVE  SumFunctionOnSet(f, S \cup {a}) = f[a] + SumFunctionOnSet(f, S)
  <1>1. IsFiniteSet(S \cup {a}) /\ (S \cup {a}) \ {a} = S /\ a \in S \cup {a}
    BY FS_AddElement
  <1> QED BY <1>1, SumWithout

\* The sum over two sets without a common element.
LEMMA SumOfUnion ==
  ASSUME NEW S, NEW T, IsFiniteSet(S), IsFiniteSet(T), S \cap T = {},
         NEW f, \A x \in S \cup T : f[x] \in Int
  PROVE  SumFunctionOnSet(f, S \cup T) = SumFunctionOnSet(f, S) + SumFunctionOnSet(f, T)
  <1> DEFINE s(U) == SumFunctionOnSet(f, U)
             P == {U \in SUBSET T : s(S \cup U) = s(S) + s(U)}
  <1>0. ASSUME NEW U \in SUBSET T
        PROVE  /\ IsFiniteSet(U) /\ IsFiniteSet(S \cup U)
               /\ s(S) \in Int /\ s(U) \in Int /\ s(S \cup U) \in Int
    <2>1. IsFiniteSet(U) /\ IsFiniteSet(S \cup U)
      BY FS_Subset, FS_Union
    <2> QED BY <2>1, SumType
  <1>1. {} \in P
    <2>1. s({}) = 0 /\ s(S) \in Int /\ S \cup {} = S
      BY SumOfNone, SumType
    <2>2. s(S \cup {}) = s(S)
      BY <2>1
    <2> HIDE DEF s
    <2> QED BY <2>1, <2>2
  <1>2. ASSUME NEW U \in SUBSET T, NEW a \in T \ U, U \in P
        PROVE  U \cup {a} \in P
    <2>1. s(U \cup {a}) = f[a] + s(U)
      BY <1>0, SumWith
    <2>2. s((S \cup U) \cup {a}) = f[a] + s(S \cup U)
      <3>1. a \notin S \cup U /\ \A x \in (S \cup U) \cup {a} : f[x] \in Int
        OBVIOUS
      <3> QED BY <1>0, <3>1, SumWith
    <2>3. S \cup (U \cup {a}) = (S \cup U) \cup {a}
      OBVIOUS
    <2>4. s(S \cup U) = s(S) + s(U) /\ f[a] \in Int
      BY <1>2
    <2>5. s(S \cup (U \cup {a})) = s(S) + s(U \cup {a})
      <3>1. s(S \cup (U \cup {a})) = f[a] + s(S \cup U)
        BY <2>2, <2>3
      <3>2. s(S) \in Int /\ s(U) \in Int /\ s(S \cup U) \in Int
        BY <1>0
      <3> HIDE DEF s
      <3> QED BY <2>1, <2>4, <3>1, <3>2
    <2> HIDE DEF s
    <2> QED BY <2>5
  <1>3. T \in P
    <2> HIDE DEF P
    <2> QED BY <1>1, <1>2, SetInduction
  <1> QED BY <1>3

\* Sums of the same amounts, under names that are as many.
LEMMA SumRenamed ==
  ASSUME NEW S, IsFiniteSet(S), NEW f, \A x \in S : f[x] \in Int,
         NEW T, NEW g, NEW b \in [S -> T],
         \A x \in S : g[b[x]] = f[x],
         \A x, y \in S : b[x] = b[y] => x = y,
         \A t \in T : \E x \in S : b[x] = t
  PROVE  SumFunctionOnSet(g, T) = SumFunctionOnSet(f, S)
  <1> DEFINE to(U) == {b[x] : x \in U}
             P == {U \in SUBSET S : SumFunctionOnSet(g, to(U)) = SumFunctionOnSet(f, U)}
  <1>1. {} \in P
    BY SumOfNone
  <1>2. ASSUME NEW U \in SUBSET S, NEW a \in S \ U, U \in P
        PROVE  U \cup {a} \in P
    <2>1. IsFiniteSet(U) /\ IsFiniteSet(to(U))
      <3>1. IsFiniteSet(U)
        BY FS_Subset
      <3> DEFINE c == [x \in U |-> b[x]]
      <3>2. c \in Surjection(U, to(U))
        BY DEF Surjection
      <3> HIDE DEF c, to
      <3> QED BY <3>1, <3>2, FS_Surjection
    <2>2. to(U \cup {a}) = to(U) \cup {b[a]} /\ b[a] \notin to(U)
      OBVIOUS
    <2>3. \A y \in to(U) \cup {b[a]} : g[y] \in Int
      OBVIOUS
    <2>4. SumFunctionOnSet(g, to(U) \cup {b[a]}) = g[b[a]] + SumFunctionOnSet(g, to(U))
      <3> HIDE DEF to
      <3> QED BY <2>1, <2>2, <2>3, SumWith
    <2>5. SumFunctionOnSet(f, U \cup {a}) = f[a] + SumFunctionOnSet(f, U)
      BY <2>1, SumWith
    <2>6. SumFunctionOnSet(g, to(U)) = SumFunctionOnSet(f, U) /\ g[b[a]] = f[a]
      BY <1>2
    <2>7. SumFunctionOnSet(g, to(U \cup {a})) = SumFunctionOnSet(f, U \cup {a})
      <3> HIDE DEF to
      <3> QED BY <2>2, <2>4, <2>5, <2>6
    <2> HIDE DEF to
    <2> QED BY <2>7
  <1>3. S \in P
    <2> HIDE DEF P
    <2> QED BY <1>1, <1>2, SetInduction
  <1>4. to(S) = T
    OBVIOUS
  <1> QED BY <1>3, <1>4

\* Sums of functions that are equal where they are added up.
LEMMA SumOfSame ==
  ASSUME NEW S, IsFiniteSet(S), NEW f, \A x \in S : f[x] \in Int,
         NEW g, \A x \in S : g[x] = f[x]
  PROVE  SumFunctionOnSet(g, S) = SumFunctionOnSet(f, S)
  <1> DEFINE b == [x \in S |-> x]
  <1>1. b \in [S -> S] /\ \A x \in S : b[x] = x
    OBVIOUS
  <1> HIDE DEF b
  <1>2. /\ \A x \in S : g[b[x]] = f[x]
        /\ \A x, y \in S : b[x] = b[y] => x = y
        /\ \A t \in S : \E x \in S : b[x] = t
    BY <1>1
  <1> QED BY <1>1, <1>2, SumRenamed

\* What is added up part by part: the parts are told apart by a function c.
LEMMA SumOfParts ==
  ASSUME NEW S, IsFiniteSet(S), NEW f, \A x \in S : f[x] \in Int,
         NEW J, IsFiniteSet(J), NEW c, \A x \in S : c[x] \in J,
         NEW share, \A j \in J : share[j] = {x \in S : c[x] = j},
         NEW h, \A j \in J : h[j] = SumFunctionOnSet(f, share[j])
  PROVE  SumFunctionOnSet(h, J) = SumFunctionOnSet(f, S)
  <1> DEFINE of(K) == {x \in S : c[x] \in K}
             P == {K \in SUBSET J : SumFunctionOnSet(h, K) = SumFunctionOnSet(f, of(K))}
  <1>1. {} \in P
    <2>1. of({}) = {}
      OBVIOUS
    <2> HIDE DEF of
    <2> QED BY <2>1, SumOfNone
  <1>2. ASSUME NEW K \in SUBSET J, NEW j \in J \ K, K \in P
        PROVE  K \cup {j} \in P
    <2> DEFINE new == {x \in S : c[x] = j}
    <2>1. IsFiniteSet(K) /\ IsFiniteSet(of(K)) /\ IsFiniteSet(new)
      BY FS_Subset
    <2>2. of(K \cup {j}) = of(K) \cup new /\ of(K) \cap new = {}
      OBVIOUS
    <2>3. \A x \in of(K) \cup new : f[x] \in Int
      OBVIOUS
    <2>4. h[j] = SumFunctionOnSet(f, new)
      <3>1. h[j] = SumFunctionOnSet(f, share[j]) /\ share[j] = new
        OBVIOUS
      <3> QED BY <3>1
    <2>5. \A k \in K \cup {j} : h[k] \in Int
      <3> SUFFICES ASSUME NEW k \in J PROVE h[k] \in Int
        OBVIOUS
      <3> DEFINE U == {x \in S : c[x] = k}
      <3>1. IsFiniteSet(U) /\ \A x \in U : f[x] \in Int
        BY FS_Subset
      <3>2. h[k] = SumFunctionOnSet(f, share[k]) /\ share[k] = U
        OBVIOUS
      <3> HIDE DEF U
      <3> QED BY <3>1, <3>2, SumType
    <2>6. SumFunctionOnSet(h, K) = SumFunctionOnSet(f, of(K))
      BY <1>2
    <2> HIDE DEF of, new
    <2>7. SumFunctionOnSet(h, K \cup {j}) = h[j] + SumFunctionOnSet(h, K)
      BY <2>1, <2>5, SumWith
    <2>8. SumFunctionOnSet(f, of(K) \cup new) = SumFunctionOnSet(f, of(K)) + SumFunctionOnSet(f, new)
      BY <2>1, <2>2, <2>3, SumOfUnion
    <2>9. SumFunctionOnSet(f, of(K)) \in Int /\ SumFunctionOnSet(f, new) \in Int
      BY <2>1, <2>3, SumType
    <2>10. SumFunctionOnSet(h, K \cup {j}) = SumFunctionOnSet(f, of(K) \cup new)
      BY <2>4, <2>6, <2>7, <2>8, <2>9
    <2>11. SumFunctionOnSet(h, K \cup {j}) = SumFunctionOnSet(f, of(K \cup {j}))
      BY <2>2, <2>10
    <2> QED BY <2>11
  <1>3. J \in P
    <2> HIDE DEF P
    <2> QED BY <1>1, <1>2, SetInduction
  <1>4. of(J) = S
    OBVIOUS
  <1> QED BY <1>3, <1>4

\* A finite set that is not empty and totally ordered by R has a first element.
LEMMA FirstExists ==
  ASSUME NEW S, IsFiniteSet(S), S # {}, NEW R,
         \A x, y \in S : x = y \/ <<x, y>> \in R \/ <<y, x>> \in R,
         \A x, y, z \in S : <<x, y>> \in R /\ <<y, z>> \in R => <<x, z>> \in R
  PROVE  \E x \in S : \A y \in S \ {x} : <<x, y>> \in R
  <1> DEFINE P == {T \in SUBSET S : T = {} \/ \E x \in T : \A y \in T \ {x} : <<x, y>> \in R}
  <1>1. {} \in P
    OBVIOUS
  <1>2. ASSUME NEW T \in SUBSET S, NEW a \in S \ T, T \in P
        PROVE  T \cup {a} \in P
    <2>1. CASE T = {}
      BY <2>1
    <2>2. CASE T # {}
      <3>1. PICK x \in T : \A y \in T \ {x} : <<x, y>> \in R
        BY <1>2, <2>2
      <3>2. <<x, a>> \in R \/ <<a, x>> \in R
        OBVIOUS
      <3>3. CASE <<x, a>> \in R
        BY <3>1, <3>3
      <3>4. CASE <<a, x>> \in R
        <4>1. \A y \in T : <<a, y>> \in R
          BY <3>1, <3>4
        <4> QED BY <4>1
      <3> QED BY <3>2, <3>3, <3>4
    <2> QED BY <2>1, <2>2
  <1>3. S \in P
    <2> HIDE DEF P
    <2> QED BY <1>1, <1>2, SetInduction
  <1> QED BY <1>3

-------------------------------------------------------------------------------
(* The search ends.                                                          *)

\* How many keys are not on the stack of a call, and how many formulas are to visit.
Room(fs, c) == Cardinality(OutputKeys(fs) \ c[2])
Left(c) == Len(c[1])

\* A call made in the course of another has a larger stack, or fewer formulas to visit.
Within(fs) ==
    {p \in Calls(fs) \X Calls(fs) :
        \/ Room(fs, p[1]) < Room(fs, p[2])
        \/ Room(fs, p[1]) = Room(fs, p[2]) /\ Left(p[1]) < Left(p[2])}

\* A list has finitely many output keys.
LEMMA KeysAreFinite ==
  ASSUME NEW fs, Sortable(fs)
  PROVE  IsFiniteSet(OutputKeys(fs))
  <1> DEFINE T == OutputKeys(fs)
             f == [i \in DOMAIN fs |-> fs[i].out]
  <1>1. DOMAIN fs = 1 .. Len(fs) /\ Len(fs) \in Nat
    BY DEF Sortable
  <1>2. IsFiniteSet(DOMAIN fs)
    BY <1>1, FS_Interval
  <1>3. f \in [DOMAIN fs -> T] /\ \A y \in T : \E x \in DOMAIN fs : f[x] = y
    BY DEF OutputKeys
  <1>4. f \in Surjection(DOMAIN fs, T)
    <2> HIDE DEF f, T
    <2> QED BY <1>3 DEF Surjection
  <1> HIDE DEF f, T
  <1>5. IsFiniteSet(T)
    BY <1>2, <1>4, FS_Surjection
  <1> QED BY <1>5 DEF T

\* Both are numbers.
LEMMA RoomIsNat ==
  ASSUME NEW fs, Sortable(fs), NEW c \in Calls(fs)
  PROVE  Room(fs, c) \in Nat /\ Left(c) \in Nat
  <1>1. IsFiniteSet(OutputKeys(fs) \ c[2])
    BY KeysAreFinite, FS_Difference
  <1>2. c[1] \in Seq(Range(fs) \cup {Undefined})
    BY DEF Calls
  <1> QED BY <1>1, <1>2, FS_CardinalityType DEF Room, Left

\* The order of calls is well-founded.
LEMMA CallsEnd ==
  ASSUME NEW fs, Sortable(fs)
  PROVE  WellOrdered(Calls(fs), Within(fs))
  <1>1. ASSUME NEW c \in Calls(fs) PROVE <<c, c>> \notin Within(fs)
    BY RoomIsNat DEF Within
  <1>2. ASSUME NEW b \in Calls(fs), NEW c \in Calls(fs), NEW d \in Calls(fs),
               <<b, c>> \in Within(fs), <<c, d>> \in Within(fs)
        PROVE  <<b, d>> \in Within(fs)
    <2>1. /\ Room(fs, b) \in Nat /\ Room(fs, c) \in Nat /\ Room(fs, d) \in Nat
          /\ Left(b) \in Nat /\ Left(c) \in Nat /\ Left(d) \in Nat
      BY RoomIsNat
    <2> QED BY <1>2, <2>1 DEF Within
  <1>3. ASSUME NEW P \in SUBSET Calls(fs), P # {}
        PROVE  \E c \in P : \A b \in P : <<b, c>> \notin Within(fs)
    <2> DEFINE Rooms == {Room(fs, c) : c \in P}
    <2>1. Rooms \in SUBSET Nat /\ Rooms # {}
      BY <1>3, RoomIsNat
    <2>2. PICK n \in Rooms : \A m \in Rooms : n <= m
      <3> HIDE DEF Rooms
      <3> QED BY <2>1, LeastNumber
    <2> DEFINE Lefts == {Left(c) : c \in {c \in P : Room(fs, c) = n}}
    <2>3. Lefts \in SUBSET Nat /\ Lefts # {}
      BY RoomIsNat
    <2>4. PICK l \in Lefts : \A m \in Lefts : l <= m
      <3> HIDE DEF Lefts
      <3> QED BY <2>3, LeastNumber
    <2>5. PICK c \in P : Room(fs, c) = n /\ Left(c) = l
      OBVIOUS
    <2>6. ASSUME NEW b \in P PROVE <<b, c>> \notin Within(fs)
      <3>1. Room(fs, b) \in Rooms /\ (Room(fs, b) = n => Left(b) \in Lefts)
        OBVIOUS
      <3> HIDE DEF Rooms, Lefts
      <3>2. Room(fs, b) >= n /\ (Room(fs, b) = n => Left(b) >= l)
        BY <2>2, <2>4, <3>1
      <3>3. Room(fs, b) \in Nat /\ Left(b) \in Nat /\ Room(fs, c) \in Nat /\ Left(c) \in Nat
        BY RoomIsNat
      <3> QED BY <2>5, <3>2, <3>3 DEF Within
    <2> QED BY <2>6
  <1> QED BY <1>1, <1>2, <1>3 DEF WellOrdered

-------------------------------------------------------------------------------
(* What a call does.                                                         *)

\* What the search is at after f, with what it is at after the inputs of f.
After(f, stack, s, inputs) ==
    IF f = Undefined \/ Visited(s, f) THEN s
    ELSE IF f.out \in stack THEN [s EXCEPT !.cycle = TRUE]
    ELSE IF inputs.cycle THEN inputs
    ELSE [inputs EXCEPT !.done = Append(@, f)]

\* The call for the inputs of the next formula, and the one for the formulas after it.
InputCall(fs, c) == <<Dependencies(fs, Head(c[1])), c[2] \cup {Head(c[1]).out}, c[3]>>
NextCall(c, s) == <<Tail(c[1]), c[2], s>>

\* The body of VisitAll, with g for the calls it makes.
Body(fs, g, c) ==
    IF c[3].cycle \/ c[1] = <<>> THEN c[3]
    ELSE g[NextCall(c, After(Head(c[1]), c[2], c[3], g[InputCall(fs, c)]))]

\* The formula is visited, and not found on the stack.
Enters(fs, c) == /\ Head(c[1]) # Undefined
                 /\ ~Visited(c[3], Head(c[1]))
                 /\ Head(c[1]).out \notin c[2]

\* What is left of a list without its first element.
LEMMA TailShifts ==
  ASSUME NEW F, NEW todo \in Seq(F), todo # <<>>
  PROVE  /\ \A i \in DOMAIN todo : i # 1 => /\ i - 1 \in DOMAIN Tail(todo)
                                            /\ Tail(todo)[i - 1] = todo[i]
         /\ \A i \in DOMAIN Tail(todo) : i + 1 \in DOMAIN todo /\ Tail(todo)[i] = todo[i + 1]
  OBVIOUS

\* The parts of a call.
LEMMA CallParts ==
  ASSUME NEW fs, Sortable(fs), NEW c \in Calls(fs)
  PROVE  /\ c = <<c[1], c[2], c[3]>>
         /\ c[1] \in Seq(Range(fs) \cup {Undefined})
         /\ c[2] \subseteq OutputKeys(fs)
         /\ c[3] \in Search(fs)
         /\ c[3].done \in Seq(Range(fs))
         /\ c[3].cycle \in BOOLEAN
         /\ c[1] # <<>> => /\ 1 \in DOMAIN c[1]
                           /\ Head(c[1]) \in Range(fs) \cup {Undefined}
                           /\ Tail(c[1]) \in Seq(Range(fs) \cup {Undefined})
                           /\ Len(Tail(c[1])) < Len(c[1])
                           /\ Head(c[1]) = c[1][1]
  <1>1. /\ c = <<c[1], c[2], c[3]>>
        /\ c[1] \in Seq(Range(fs) \cup {Undefined})
        /\ c[2] \subseteq OutputKeys(fs)
        /\ c[3] \in Search(fs)
    BY DEF Calls
  <1>2. c[3].done \in Seq(Range(fs)) /\ c[3].cycle \in BOOLEAN
    BY <1>1 DEF Search
  <1> QED BY <1>1, <1>2

\* The formula that computes a key.
LEMMA ByKeyFinds ==
  ASSUME NEW fs, Sortable(fs), NEW k
  PROVE  /\ ByKey(fs, k) \in Range(fs) \cup {Undefined}
         /\ k \in OutputKeys(fs) => /\ ByKey(fs, k) \in Range(fs)
                                    /\ ByKey(fs, k).out = k
         /\ k \notin OutputKeys(fs) => ByKey(fs, k) = Undefined
  <1> DEFINE S == {i \in DOMAIN fs : fs[i].out = k}
  <1>1. DOMAIN fs = 1 .. Len(fs) /\ Len(fs) \in Nat
    BY DEF Sortable
  <1>2. ASSUME S # {} PROVE \E i \in S : \A j \in S : j <= i
    <2> DEFINE T == {n \in Nat : \A j \in S : j <= n}
    <2>1. Len(fs) \in T
      BY <1>1
    <2>2. T \in SUBSET Nat /\ T # {}
      BY <2>1
    <2>3. PICK n \in T : \A m \in T : n <= m
      <3> HIDE DEF T
      <3> QED BY <2>2, LeastNumber
    <2>4. ASSUME n \notin S PROVE FALSE
      <3>1. \A j \in S : j <= n - 1
        BY <1>1, <2>3, <2>4
      <3>2. n # 0
        BY <1>1, <1>2, <2>3
      <3>3. n - 1 \in T
        BY <2>3, <3>1, <3>2
      <3> QED BY <2>3, <3>3
    <2> QED BY <2>3, <2>4
  <1>3. HasFormula(fs, k) <=> k \in OutputKeys(fs)
    BY DEF HasFormula, OutputKeys
  <1>4. HasFormula(fs, k) <=> S # {}
    BY DEF HasFormula
  <1>5. CASE S # {}
    <2> DEFINE i == CHOOSE i \in DOMAIN fs : /\ fs[i].out = k
                                             /\ \A j \in DOMAIN fs : fs[j].out = k => j <= i
    <2>1. i \in DOMAIN fs /\ fs[i].out = k
      BY <1>2, <1>5
    <2>2. ByKey(fs, k) = fs[i]
      BY <1>4, <1>5 DEF ByKey
    <2> HIDE DEF i
    <2>3. fs[i] \in Range(fs)
      BY <2>1 DEF Range
    <2> QED BY <1>3, <1>4, <1>5, <2>1, <2>2, <2>3
  <1>6. CASE S = {}
    BY <1>3, <1>4, <1>6 DEF ByKey
  <1> QED BY <1>5, <1>6

\* The call for the inputs of a formula that is entered is one, and within the call.
LEMMA InputsAreWithin ==
  ASSUME NEW fs, Sortable(fs), NEW c \in Calls(fs), c[1] # <<>>, Enters(fs, c)
  PROVE  InputCall(fs, c) \in Calls(fs) /\ <<InputCall(fs, c), c>> \in Within(fs)
  <1> DEFINE f == Head(c[1])
             b == InputCall(fs, c)
             d == Dependencies(fs, f)
             S == OutputKeys(fs) \ c[2]
  <1>1. f \in Range(fs)
    BY CallParts DEF Enters
  <1>2. f.in \in Seq(Range(f.in))
    BY <1>1 DEF Sortable
  <1>3. f.out \in OutputKeys(fs)
    BY <1>1 DEF OutputKeys, Range
  <1>4. d \in Seq(Range(fs) \cup {Undefined})
    <2>1. d = [i \in 1 .. Len(f.in) |-> ByKey(fs, f.in[i])] /\ Len(f.in) \in Nat
      BY <1>2 DEF Dependencies
    <2> HIDE DEF d, f
    <2> QED BY <2>1, ByKeyFinds
  <1>5. b \in Calls(fs) /\ b[2] = c[2] \cup {f.out}
    BY <1>3, <1>4, CallParts DEF Calls, InputCall
  <1>6. IsFiniteSet(S) /\ f.out \in S
    BY <1>3, KeysAreFinite, FS_Difference DEF Enters
  <1>7. OutputKeys(fs) \ b[2] = S \ {f.out}
    BY <1>5
  <1>8. Cardinality(S \ {f.out}) = Cardinality(S) - 1 /\ Cardinality(S) \in Nat
    <2> HIDE DEF S, f
    <2> QED BY <1>6, FS_RemoveElement, FS_CardinalityType
  <1>9. Room(fs, b) < Room(fs, c)
    <2>1. Room(fs, c) = Cardinality(S)
      BY DEF Room
    <2>2. Room(fs, b) = Cardinality(S \ {f.out})
      <3> HIDE DEF b, f, S
      <3> QED BY <1>7 DEF Room
    <2> HIDE DEF b, f, S
    <2> QED BY <1>8, <2>1, <2>2
  <1> HIDE DEF b
  <1>10. <<b, c>> \in Within(fs)
    BY <1>5, <1>9 DEF Within
  <1> QED BY <1>5, <1>10 DEF b

\* So is the call for the other formulas.
LEMMA NextIsWithin ==
  ASSUME NEW fs, Sortable(fs), NEW c \in Calls(fs), c[1] # <<>>, NEW s \in Search(fs)
  PROVE  NextCall(c, s) \in Calls(fs) /\ <<NextCall(c, s), c>> \in Within(fs)
  <1> DEFINE b == NextCall(c, s)
  <1>1. b \in Calls(fs) /\ b[2] = c[2] /\ b[1] = Tail(c[1])
    BY CallParts DEF Calls, NextCall
  <1>2. Room(fs, b) = Room(fs, c)
    BY <1>1 DEF Room
  <1>3. Left(b) < Left(c)
    BY <1>1, CallParts DEF Left
  <1> HIDE DEF b
  <1>4. <<b, c>> \in Within(fs)
    BY <1>1, <1>2, <1>3 DEF Within
  <1> QED BY <1>1, <1>4 DEF b

\* The search stays a search.
LEMMA AfterIsSearch ==
  ASSUME NEW fs, Sortable(fs), NEW c \in Calls(fs), c[1] # <<>>, NEW t,
         Enters(fs, c) => t \in Search(fs)
  PROVE  After(Head(c[1]), c[2], c[3], t) \in Search(fs)
  <1> DEFINE f == Head(c[1])
  <1>1. f \in Range(fs) \cup {Undefined} /\ c[3] \in Search(fs)
    BY CallParts
  <1>2. [c[3] EXCEPT !.cycle = TRUE] \in Search(fs)
    BY <1>1 DEF Search
  <1>3. ASSUME Enters(fs, c) PROVE [t EXCEPT !.done = Append(@, f)] \in Search(fs)
    <2>1. f \in Range(fs)
      BY <1>1, <1>3 DEF Enters
    <2>2. t.done \in Seq(Range(fs)) /\ t \in Search(fs)
      BY <1>3 DEF Search
    <2>3. Append(t.done, f) \in Seq(Range(fs))
      BY <2>1, <2>2
    <2> HIDE DEF f
    <2> QED BY <2>2, <2>3 DEF Search
  <1> QED BY <1>1, <1>2, <1>3 DEF After, Enters

\* VisitAll is what its body says, for every call.
LEMMA VisitAllIs ==
  ASSUME NEW fs, Sortable(fs)
  PROVE  /\ VisitAll(fs) \in [Calls(fs) -> Search(fs)]
         /\ \A c \in Calls(fs) : VisitAll(fs)[c] = Body(fs, VisitAll(fs), c)
  <1> DEFINE D == Calls(fs)
             V == Search(fs)
             R == Within(fs)
             H == [p \in [D -> V] \X D |-> Body(fs, p[1], p[2])]
  <1>1. WellOrdered(D, R)
    BY CallsEnd
  <1>2. ASSUME NEW g, NEW c \in D, \A b \in D : <<b, c>> \in R => g[b] \in V
        PROVE  Body(fs, g, c) \in V
    <2>1. CASE c[3].cycle \/ c[1] = <<>>
      BY <2>1, CallParts DEF Body
    <2>2. CASE ~ (c[3].cycle \/ c[1] = <<>>)
      <3> DEFINE s == After(Head(c[1]), c[2], c[3], g[InputCall(fs, c)])
      <3>1. s \in V
        BY <1>2, <2>2, InputsAreWithin, AfterIsSearch
      <3>2. NextCall(c, s) \in D /\ <<NextCall(c, s), c>> \in R
        BY <2>2, <3>1, NextIsWithin
      <3>3. Body(fs, g, c) = g[NextCall(c, s)]
        BY <2>2 DEF Body
      <3> HIDE DEF s
      <3> QED BY <1>2, <3>2, <3>3
    <2> QED BY <2>1, <2>2
  <1>3. ASSUME NEW c \in D, NEW g \in [D -> V], NEW h \in [D -> V],
               \A b \in D : <<b, c>> \in R => g[b] = h[b]
        PROVE  Body(fs, g, c) = Body(fs, h, c)
    <2>1. CASE c[3].cycle \/ c[1] = <<>>
      BY <2>1 DEF Body
    <2>2. CASE ~ (c[3].cycle \/ c[1] = <<>>)
      <3> DEFINE a(k) == After(Head(c[1]), c[2], c[3], k[InputCall(fs, c)])
      <3>1. Enters(fs, c) => /\ g[InputCall(fs, c)] = h[InputCall(fs, c)]
                             /\ g[InputCall(fs, c)] \in V
        BY <1>3, <2>2, InputsAreWithin
      <3>2. a(g) = a(h)
        BY <3>1 DEF After, Enters
      <3>3. a(g) \in V
        BY <2>2, <3>1, AfterIsSearch
      <3> HIDE DEF a
      <3>4. g[NextCall(c, a(g))] = h[NextCall(c, a(g))]
        BY <1>3, <2>2, <3>3, NextIsWithin
      <3> QED BY <2>2, <3>2, <3>4 DEF Body, a
    <2> QED BY <2>1, <2>2
  <1>4. \A g \in [D -> V], c \in D : H[g, c] = Body(fs, g, c)
    OBVIOUS
  <1>5. H \in [[D -> V] \X D -> V]
    BY <1>2
  <1> DEFINE start == [done |-> <<>>, cycle |-> FALSE]
  <1>6. start \in V
    BY DEF Search
  <1> HIDE DEF H, D, V, R, start
  <1>7. Depends(H, D, V, R)
    <2>1. ASSUME NEW c \in D, NEW g \in [D -> V], NEW h \in [D -> V],
                 \A b \in D : <<b, c>> \in R => g[b] = h[b]
          PROVE  H[g, c] = H[h, c]
      <3>1. Body(fs, g, c) = Body(fs, h, c)
        BY <1>3, <2>1
      <3> QED BY <1>4, <3>1
    <2> QED BY <1>5, <2>1 DEF Depends
  <1>8. PICK g : IsSolution(g, H, D, V)
    BY <1>1, <1>6, <1>7, Recursion
  <1>9. g = [c \in D |-> Body(fs, g, c)]
    BY <1>4, <1>8 DEF IsSolution
  <1>10. VisitAll(fs) = CHOOSE v : v = [c \in D |-> Body(fs, v, c)]
    BY DEF VisitAll, Body, After, NextCall, InputCall, D
  <1>11. VisitAll(fs) = [c \in D |-> Body(fs, VisitAll(fs), c)]
    BY <1>9, <1>10
  <1> DEFINE visitAll == VisitAll(fs)
             P == {c \in D : visitAll[c] \in V}
  <1>12. \A c \in D : visitAll[c] = Body(fs, visitAll, c)
    BY <1>11
  <1> HIDE DEF visitAll
  <1>13. ASSUME NEW c \in D, \A b \in D : <<b, c>> \in R => b \in P
         PROVE  c \in P
    BY <1>2, <1>12, <1>13
  <1>14. D \subseteq P
    <2> HIDE DEF P
    <2> QED BY <1>1, <1>13, Induction
  <1>15. visitAll \in [D -> V]
    <2>1. visitAll = [c \in D |-> Body(fs, visitAll, c)]
      BY <1>11 DEF visitAll
    <2>2. \A c \in D : visitAll[c] \in V
      BY <1>14
    <2> QED BY <1>12, <2>1, <2>2
  <1> QED BY <1>12, <1>15 DEF visitAll, D, V

-------------------------------------------------------------------------------
(* The search sorts.                                                         *)

\* The formulas done so far are of different keys, each after those for the keys it
\* reads.
InOrder(fs, done) ==
    /\ UniqueOutputs(done)
    /\ \A i \in DOMAIN done : \A k \in Range(done[i].in) \cap OutputKeys(fs) :
          \E j \in DOMAIN done : j < i /\ done[j].out = k

\* A key on the stack is computed from another that is, or, if it is the last, from those
\* of the formulas to visit.
IsChain(fs, c) ==
    \A k \in c[2] : \/ \E l \in c[2] : <<l, k>> \in Edges(fs)
                    \/ \A i \in DOMAIN c[1] : c[1][i] # Undefined => <<c[1][i].out, k>> \in Edges(fs)

\* A call that goes on, and one that comes to the end t.
GoesOn(fs, c) == ~c[3].cycle /\ InOrder(fs, c[3].done) /\ IsChain(fs, c)

Ends(fs, c, t) ==
    /\ t.cycle => Cyclic(fs)
    /\ ~t.cycle =>
          /\ InOrder(fs, t.done)
          /\ OutputKeys(c[3].done) \subseteq OutputKeys(t.done)
          /\ OutputKeys(t.done) \cap c[2] \subseteq OutputKeys(c[3].done)
          /\ \A i \in DOMAIN c[1] : c[1][i] # Undefined => c[1][i].out \in OutputKeys(t.done)

\* The keys of a list that grows by a formula.
LEMMA KeysOfAppend ==
  ASSUME NEW F, NEW done \in Seq(F), NEW f
  PROVE  OutputKeys(Append(done, f)) = OutputKeys(done) \cup {f.out}
  <1> DEFINE d == Append(done, f)
  <1>1. /\ DOMAIN done = 1 .. Len(done) /\ Len(done) \in Nat
        /\ DOMAIN d = (DOMAIN done) \cup {Len(done) + 1}
        /\ \A i \in DOMAIN done : d[i] = done[i]
        /\ d[Len(done) + 1] = f
    OBVIOUS
  <1> HIDE DEF d
  <1>2. OutputKeys(d) = OutputKeys(done) \cup {f.out}
    BY <1>1 DEF OutputKeys
  <1> QED BY <1>2 DEF d

\* A formula for a new key, whose inputs are done, goes after them.
LEMMA AppendInOrder ==
  ASSUME NEW fs, NEW F, NEW done \in Seq(F), NEW f \in F, InOrder(fs, done),
         f.out \notin OutputKeys(done),
         Range(f.in) \cap OutputKeys(fs) \subseteq OutputKeys(done)
  PROVE  InOrder(fs, Append(done, f))
  <1> DEFINE d == Append(done, f)
  <1>1. /\ DOMAIN done = 1 .. Len(done) /\ Len(done) \in Nat
        /\ DOMAIN d = 1 .. Len(done) + 1
        /\ \A i \in 1 .. Len(done) : d[i] = done[i]
        /\ d[Len(done) + 1] = f
    OBVIOUS
  <1> HIDE DEF d
  <1>2. UniqueOutputs(d)
    <2>1. \A i \in 1 .. Len(done) : done[i].out # f.out
      BY <1>1 DEF OutputKeys
    <2> QED BY <1>1, <2>1 DEF UniqueOutputs, InOrder
  <1>3. ASSUME NEW i \in DOMAIN d, NEW k \in Range(d[i].in) \cap OutputKeys(fs)
        PROVE  \E j \in DOMAIN d : j < i /\ d[j].out = k
    <2>1. CASE i = Len(done) + 1
      <3>1. k \in OutputKeys(done)
        BY <1>1, <2>1
      <3>2. PICK j \in DOMAIN done : done[j].out = k
        BY <3>1 DEF OutputKeys
      <3> QED BY <1>1, <2>1, <3>2
    <2>2. CASE i \in 1 .. Len(done)
      <3>1. PICK j \in DOMAIN done : j < i /\ done[j].out = k
        BY <1>1, <2>2 DEF InOrder
      <3> QED BY <1>1, <2>2, <3>1
    <2> QED BY <1>1, <2>1, <2>2
  <1> QED BY <1>2, <1>3 DEF InOrder, d

\* A formula found on the stack closes a cycle.
LEMMA FoundOnStack ==
  ASSUME NEW fs, Sortable(fs), NEW c \in Calls(fs), GoesOn(fs, c), c[1] # <<>>,
         Head(c[1]) # Undefined, Head(c[1]).out \in c[2]
  PROVE  Cyclic(fs)
  <1> DEFINE f == Head(c[1])
  <1>1. 1 \in DOMAIN c[1] /\ c[1][1] = f
    BY CallParts
  <1>2. \A k \in c[2] : \E l \in c[2] : <<l, k>> \in Edges(fs)
    BY <1>1 DEF GoesOn, IsChain
  <1>3. c[2] \in (SUBSET OutputKeys(fs)) \ {{}}
    BY CallParts
  <1> QED BY <1>2, <1>3 DEF Cyclic

\* The call for the inputs of a formula has a chain that is longer by it.
LEMMA InputsGoOn ==
  ASSUME NEW fs, Sortable(fs), NEW c \in Calls(fs), GoesOn(fs, c), c[1] # <<>>, Enters(fs, c)
  PROVE  GoesOn(fs, InputCall(fs, c))
  <1> DEFINE f == Head(c[1])
             b == InputCall(fs, c)
  <1>1. /\ f \in Range(fs) /\ f.in \in Seq(Range(f.in))
        /\ 1 \in DOMAIN c[1] /\ c[1][1] = f
    BY CallParts DEF Enters, Sortable
  <1>2. b[1] = Dependencies(fs, f) /\ b[2] = c[2] \cup {f.out} /\ b[3] = c[3]
    BY DEF InputCall
  <1>3. ASSUME NEW i \in DOMAIN b[1], b[1][i] # Undefined
        PROVE  <<b[1][i].out, f.out>> \in Edges(fs)
    <2>1. i \in DOMAIN f.in /\ b[1][i] = ByKey(fs, f.in[i])
      BY <1>2, <1>3 DEF Dependencies
    <2>2. f.in[i] \in OutputKeys(fs) /\ b[1][i].out = f.in[i]
      BY <1>3, <2>1, ByKeyFinds
    <2>3. f.in[i] \in Range(f.in)
      BY <2>1 DEF Range
    <2>4. PICK j \in DOMAIN fs : fs[j] = f
      BY <1>1 DEF Range
    <2>5. f.out \in OutputKeys(fs)
      BY <2>4 DEF OutputKeys
    <2> QED BY <2>2, <2>3, <2>4, <2>5 DEF Edges
  <1>4. ASSUME NEW k \in c[2] PROVE \E l \in b[2] : <<l, k>> \in Edges(fs)
    BY <1>1, <1>2, <1>4 DEF GoesOn, IsChain, Enters
  <1> HIDE DEF f, b
  <1>5. IsChain(fs, b)
    BY <1>2, <1>3, <1>4 DEF IsChain
  <1> QED BY <1>2, <1>5 DEF GoesOn, b

\* The next call has the same chain.
LEMMA NextGoesOn ==
  ASSUME NEW fs, Sortable(fs), NEW c \in Calls(fs), GoesOn(fs, c), c[1] # <<>>,
         NEW s \in Search(fs), ~s.cycle, InOrder(fs, s.done)
  PROVE  GoesOn(fs, NextCall(c, s))
  <1> DEFINE b == NextCall(c, s)
  <1>1. b[1] = Tail(c[1]) /\ b[2] = c[2] /\ b[3] = s
    BY DEF NextCall
  <1>2. \A i \in DOMAIN b[1] : i + 1 \in DOMAIN c[1] /\ b[1][i] = c[1][i + 1]
    <2>1. c[1] \in Seq(Range(fs) \cup {Undefined})
      BY CallParts
    <2> HIDE DEF b
    <2> QED BY <1>1, <2>1, TailShifts
  <1> HIDE DEF b
  <1>3. IsChain(fs, b)
    BY <1>1, <1>2 DEF GoesOn, IsChain
  <1> QED BY <1>1, <1>3 DEF GoesOn, b

\* Visiting one formula, what the call for its inputs does being right.
LEMMA OneVisit ==
  ASSUME NEW fs, Sortable(fs), NEW c \in Calls(fs), GoesOn(fs, c), c[1] # <<>>, NEW t,
         Enters(fs, c) => t \in Search(fs) /\ Ends(fs, InputCall(fs, c), t)
  PROVE  LET s == After(Head(c[1]), c[2], c[3], t)
         IN  /\ s.cycle => Cyclic(fs)
             /\ ~s.cycle =>
                   /\ InOrder(fs, s.done)
                   /\ OutputKeys(c[3].done) \subseteq OutputKeys(s.done)
                   /\ OutputKeys(s.done) \cap c[2] \subseteq OutputKeys(c[3].done)
                   /\ Head(c[1]) # Undefined => Head(c[1]).out \in OutputKeys(s.done)
  <1> DEFINE f == Head(c[1])
             s == After(f, c[2], c[3], t)
  <1>1. CASE f = Undefined \/ Visited(c[3], f)
    <2>1. s = c[3]
      BY <1>1 DEF After
    <2> HIDE DEF s
    <2> QED BY <1>1, <2>1 DEF GoesOn, Visited, s
  <1>2. CASE f # Undefined /\ ~Visited(c[3], f) /\ f.out \in c[2]
    <2>1. s = [c[3] EXCEPT !.cycle = TRUE]
      BY <1>2 DEF After
    <2>2. Cyclic(fs)
      BY <1>2, FoundOnStack
    <2>3. s.cycle
      BY <2>1, CallParts DEF Search
    <2> HIDE DEF s
    <2> QED BY <2>2, <2>3 DEF s
  <1>3. CASE Enters(fs, c) /\ t.cycle
    <2>1. s = t
      BY <1>3 DEF After, Enters
    <2> HIDE DEF s
    <2> QED BY <1>3, <2>1 DEF Ends, s
  <1>4. CASE Enters(fs, c) /\ ~t.cycle
    <2>1. s = [t EXCEPT !.done = Append(@, f)]
      BY <1>4 DEF After, Enters
    <2>2. f \in Range(fs) /\ t.done \in Seq(Range(fs)) /\ t = [done |-> t.done, cycle |-> t.cycle]
      BY <1>4, CallParts DEF Enters, Search
    <2>3. s.done = Append(t.done, f) /\ s.cycle = t.cycle
      BY <2>1, <2>2
    <2> DEFINE b == InputCall(fs, c)
    <2>4. b[1] = Dependencies(fs, f) /\ b[2] = c[2] \cup {f.out} /\ b[3] = c[3]
      BY DEF InputCall
    <2>5. /\ InOrder(fs, t.done)
          /\ OutputKeys(c[3].done) \subseteq OutputKeys(t.done)
          /\ OutputKeys(t.done) \cap (c[2] \cup {f.out}) \subseteq OutputKeys(c[3].done)
          /\ \A i \in DOMAIN b[1] : b[1][i] # Undefined => b[1][i].out \in OutputKeys(t.done)
      <3> HIDE DEF b, f, s
      <3> QED BY <1>4, <2>4 DEF Ends, b
    <2>6. f.out \notin OutputKeys(t.done)
      BY <1>4, <2>5 DEF Enters, Visited
    <2>7. ASSUME NEW k \in Range(f.in) \cap OutputKeys(fs) PROVE k \in OutputKeys(t.done)
      <3>1. PICK i \in DOMAIN f.in : f.in[i] = k
        BY DEF Range
      <3>2. i \in DOMAIN b[1] /\ b[1][i] = ByKey(fs, k)
        BY <2>4, <3>1 DEF Dependencies
      <3>3. ByKey(fs, k) \in Range(fs) /\ ByKey(fs, k).out = k
        BY ByKeyFinds
      <3>4. ByKey(fs, k) # Undefined
        BY <3>3 DEF Sortable
      <3> HIDE DEF b, f, s
      <3> QED BY <2>5, <3>2, <3>3, <3>4
    <2> HIDE DEF b, f, s
    <2>8. InOrder(fs, s.done)
      BY <2>2, <2>3, <2>5, <2>6, <2>7, AppendInOrder
    <2>9. OutputKeys(s.done) = OutputKeys(t.done) \cup {f.out}
      BY <2>2, <2>3, KeysOfAppend
    <2>10. f.out \notin c[2]
      BY <1>4 DEF Enters, f
    <2> QED BY <1>4, <2>3, <2>5, <2>8, <2>9, <2>10 DEF f, s
  <1> QED BY <1>1, <1>2, <1>3, <1>4 DEF Enters

\* Every call ends right.
LEMMA CallsEndRight ==
  ASSUME NEW fs, Sortable(fs), NEW c \in Calls(fs), GoesOn(fs, c)
  PROVE  VisitAll(fs)[c] \in Search(fs) /\ Ends(fs, c, VisitAll(fs)[c])
  <1> DEFINE D == Calls(fs)
             R == Within(fs)
             g == VisitAll(fs)
             P == {b \in D : GoesOn(fs, b) => Ends(fs, b, g[b])}
  <1>1. /\ g \in [D -> Search(fs)]
        /\ \A b \in D : g[b] = Body(fs, g, b)
    BY VisitAllIs
  <1>2. ASSUME NEW b \in D, \A a \in D : <<a, b>> \in R => a \in P, GoesOn(fs, b)
        PROVE  Ends(fs, b, g[b])
    <2> HIDE DEF g
    <2>1. CASE b[1] = <<>>
      <3>1. g[b] = b[3]
        BY <1>1, <2>1 DEF Body
      <3> QED BY <1>2, <2>1, <3>1 DEF Ends, GoesOn
    <2>2. CASE b[1] # <<>>
      <3> DEFINE a == InputCall(fs, b)
                 f == Head(b[1])
                 s == After(f, b[2], b[3], g[a])
                 n == NextCall(b, s)
      <3>1. Enters(fs, b) => g[a] \in Search(fs) /\ Ends(fs, a, g[a])
        <4>1. Enters(fs, b) => a \in D /\ <<a, b>> \in R /\ GoesOn(fs, a)
          BY <1>2, <2>2, InputsAreWithin, InputsGoOn
        <4> HIDE DEF a
        <4> QED BY <1>1, <1>2, <4>1
      <3>2. s \in Search(fs)
        BY <2>2, <3>1, AfterIsSearch
      <3>3. /\ s.cycle => Cyclic(fs)
            /\ ~s.cycle =>
                  /\ InOrder(fs, s.done)
                  /\ OutputKeys(b[3].done) \subseteq OutputKeys(s.done)
                  /\ OutputKeys(s.done) \cap b[2] \subseteq OutputKeys(b[3].done)
                  /\ f # Undefined => f.out \in OutputKeys(s.done)
        BY <1>2, <2>2, <3>1, OneVisit
      <3>4. n \in D /\ <<n, b>> \in R
        BY <2>2, <3>2, NextIsWithin
      <3>5. g[b] = g[n]
        BY <1>1, <1>2, <2>2 DEF Body, GoesOn
      <3>6. n[1] = Tail(b[1]) /\ n[2] = b[2] /\ n[3] = s
        BY DEF NextCall
      <3> HIDE DEF n
      <3>7. CASE s.cycle
        <4>1. g[n] = s
          BY <1>1, <3>4, <3>6, <3>7 DEF Body
        <4> HIDE DEF s
        <4> QED BY <3>3, <3>5, <3>7, <4>1 DEF Ends
      <3>8. CASE ~s.cycle
        <4>1. GoesOn(fs, n)
          BY <1>2, <2>2, <3>2, <3>3, <3>8, NextGoesOn DEF n
        <4>2. Ends(fs, n, g[n])
          BY <1>2, <3>4, <4>1
        <4>3. \A i \in DOMAIN b[1] : i # 1 => i - 1 \in DOMAIN n[1] /\ n[1][i - 1] = b[1][i]
          <5>1. b[1] \in Seq(Range(fs) \cup {Undefined})
            BY CallParts
          <5> QED BY <2>2, <3>6, <5>1, TailShifts
        <4>4. b[1][1] = f
          BY <2>2, CallParts
        <4> HIDE DEF s, f
        <4>5. ASSUME ~g[b].cycle
              PROVE  /\ InOrder(fs, g[b].done)
                     /\ OutputKeys(b[3].done) \subseteq OutputKeys(g[b].done)
                     /\ OutputKeys(g[b].done) \cap b[2] \subseteq OutputKeys(b[3].done)
                     /\ \A i \in DOMAIN b[1] : b[1][i] # Undefined => b[1][i].out \in OutputKeys(g[b].done)
          <5>1. /\ InOrder(fs, g[b].done)
                /\ OutputKeys(s.done) \subseteq OutputKeys(g[b].done)
                /\ OutputKeys(g[b].done) \cap b[2] \subseteq OutputKeys(s.done)
                /\ \A i \in DOMAIN n[1] : n[1][i] # Undefined => n[1][i].out \in OutputKeys(g[b].done)
            BY <3>5, <3>6, <4>2, <4>5 DEF Ends
          <5>2. ASSUME NEW i \in DOMAIN b[1], b[1][i] # Undefined
                PROVE  b[1][i].out \in OutputKeys(g[b].done)
            BY <3>3, <3>8, <4>3, <4>4, <5>1, <5>2
          <5> QED BY <3>3, <3>8, <5>1, <5>2
        <4> QED BY <3>5, <4>2, <4>5 DEF Ends
      <3> QED BY <3>7, <3>8
    <2> QED BY <2>1, <2>2
  <1>3. WellOrdered(D, R)
    BY CallsEnd
  <1>4. D \subseteq P
    <2>1. \A b \in D : (\A a \in D : <<a, b>> \in R => a \in P) => b \in P
      BY <1>2
    <2> HIDE DEF P, D, R, g
    <2> QED BY <1>3, <2>1, Induction
  <1> QED BY <1>1, <1>4

\* A list in order has no cycle, if no two formulas compute the same key.
LEMMA OrderedIsAcyclic ==
  ASSUME NEW fs, Sortable(fs), UniqueOutputs(fs), NEW done \in Seq(Range(fs)), InOrder(fs, done),
         OutputKeys(fs) \subseteq OutputKeys(done)
  PROVE  ~Cyclic(fs)
  <1> SUFFICES ASSUME NEW T \in (SUBSET OutputKeys(fs)) \ {{}},
                      \A k \in T : \E l \in T : <<l, k>> \in Edges(fs)
               PROVE  FALSE
    BY DEF Cyclic
  <1> DEFINE I == {i \in DOMAIN done : done[i].out \in T}
  <1>1. I \in SUBSET Nat /\ I # {}
    BY DEF OutputKeys
  <1>2. PICK i \in I : \A j \in I : i <= j
    <2> HIDE DEF I
    <2> QED BY <1>1, LeastNumber
  <1>3. PICK l \in T : <<l, done[i].out>> \in Edges(fs)
    OBVIOUS
  <1>4. PICK m \in DOMAIN fs : fs[m].out = done[i].out /\ l \in Range(fs[m].in)
    BY <1>3 DEF Edges
  <1>5. PICK n \in DOMAIN fs : fs[n] = done[i]
    <2>1. done[i] \in Range(fs)
      OBVIOUS
    <2> QED BY <2>1 DEF Range
  <1>6. m = n
    BY <1>4, <1>5 DEF UniqueOutputs
  <1>7. PICK j \in DOMAIN done : j < i /\ done[j].out = l
    BY <1>4, <1>5, <1>6 DEF InOrder
  <1>8. j \in I
    BY <1>7
  <1> QED BY <1>1, <1>2, <1>7, <1>8

\* A list in order is as Topological says.
LEMMA InOrderIsTopological ==
  ASSUME NEW fs, NEW done \in Seq(Range(fs)), InOrder(fs, done), OutputKeys(fs) \subseteq OutputKeys(done)
  PROVE  Topological(fs, done)
  <1>1. OutputKeys(done) \subseteq OutputKeys(fs)
    <2> SUFFICES ASSUME NEW i \in DOMAIN done PROVE done[i].out \in OutputKeys(fs)
      BY DEF OutputKeys
    <2>1. done[i] \in Range(fs)
      OBVIOUS
    <2> QED BY <2>1 DEF Range, OutputKeys
  <1>2. ASSUME NEW i \in DOMAIN done, NEW k \in Range(done[i].in) \cap OutputKeys(fs)
        PROVE  k \in OutputKeys(SubSeq(done, 1, i - 1))
    <2> DEFINE d == SubSeq(done, 1, i - 1)
    <2>1. PICK j \in DOMAIN done : j < i /\ done[j].out = k
      BY <1>2 DEF InOrder
    <2>2. DOMAIN done = 1 .. Len(done) /\ Len(done) \in Nat
      OBVIOUS
    <2>3. j \in DOMAIN d /\ d[j] = done[j]
      BY <2>1, <2>2
    <2> HIDE DEF d
    <2>4. k \in OutputKeys(d)
      BY <2>1, <2>3 DEF OutputKeys
    <2> QED BY <2>4 DEF d
  <1> QED BY <1>1, <1>2 DEF Topological, InOrder

\* topoSortFormulas sorts every list of formulas, or refuses it: what it returns has a
\* formula for every output key after formulas for all the keys it reads, and it refuses
\* only lists in which a key is computed from itself, and of those with one formula for
\* each key all.
THEOREM SortSorts ==
  ASSUME NEW fs, Sortable(fs)
  PROVE  SortIsSound(fs) /\ TopoSort(fs).done \in Seq(Range(fs))
  <1> DEFINE start == [done |-> <<>>, cycle |-> FALSE]
             c == <<fs, {}, start>>
             s == TopoSort(fs)
  <1>1. start \in Search(fs)
    BY DEF Search
  <1>2. c \in Calls(fs)
    <2>1. fs \in Seq(Range(fs) \cup {Undefined})
      BY DEF Sortable
    <2> QED BY <1>1, <2>1 DEF Calls
  <1>3. GoesOn(fs, c)
    <2>1. InOrder(fs, <<>>)
      BY DEF InOrder, UniqueOutputs
    <2> QED BY <2>1 DEF GoesOn, IsChain
  <1>4. s = VisitAll(fs)[c]
    BY DEF TopoSort
  <1>5. c[1] = fs
    OBVIOUS
  <1> HIDE DEF c, s
  <1>6. s \in Search(fs) /\ Ends(fs, c, s)
    BY <1>2, <1>3, <1>4, CallsEndRight
  <1>7. s.done \in Seq(Range(fs)) /\ s.cycle \in BOOLEAN
    BY <1>6 DEF Search
  <1>8. ASSUME ~s.cycle
        PROVE  InOrder(fs, s.done) /\ OutputKeys(fs) \subseteq OutputKeys(s.done)
    <2>1. \A i \in DOMAIN fs : fs[i] # Undefined
      BY DEF Sortable, Range
    <2>2. \A i \in DOMAIN fs : fs[i].out \in OutputKeys(s.done)
      BY <1>5, <1>6, <1>8, <2>1 DEF Ends
    <2>3. OutputKeys(fs) \subseteq OutputKeys(s.done)
      BY <2>2 DEF OutputKeys
    <2> QED BY <1>6, <1>8, <2>3 DEF Ends
  <1>9. s.cycle => Cyclic(fs)
    BY <1>6 DEF Ends
  <1>10. ~s.cycle => Topological(fs, s.done)
    BY <1>7, <1>8, InOrderIsTopological
  <1>11. UniqueOutputs(fs) => s.cycle = Cyclic(fs)
    <2>1. UniqueOutputs(fs) /\ ~s.cycle => ~Cyclic(fs)
      BY <1>7, <1>8, OrderedIsAcyclic
    <2>2. Cyclic(fs) \in BOOLEAN
      BY DEF Cyclic
    <2> QED BY <1>7, <1>9, <2>1, <2>2
  <1> QED BY <1>7, <1>9, <1>10, <1>11 DEF SortIsSound, s
================================================================================
