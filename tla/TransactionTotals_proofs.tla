----------------------- MODULE TransactionTotals_proofs -----------------------
(***************************************************************************)
(* Theorems about what is computed by loops over data: the exclusive times *)
(* of segments and the metrics, which add up times and values, and the     *)
(* names that lists of rules make of requests.  The module starts with     *)
(* induction and recursion, stated about sets and functions, and with sums *)
(* over finite sets.                                                       *)
(***************************************************************************)
EXTENDS TransactionData, Functions, FiniteSetTheorems, SequenceTheorems,
        WellFoundedInduction, TLAPS

-----------------------------------------------------------------------------
(* Induction and recursion: what has a rank among the numbers can be       *)
(* proved and defined from what is of lower rank.                          *)

(* What holds of whatever it holds of all that is of lower rank, holds.    *)
LEMMA RankInduction ==
    ASSUME NEW D, NEW rank \in [D -> Nat], NEW S,
           \A x \in D : (\A y \in D : rank[y] < rank[x] => y \in S) => x \in S
    PROVE  D \subseteq S
<1> DEFINE Lower == {p \in D \X D : rank[p[1]] < rank[p[2]]}
<1>1. IsWellFoundedOn(Lower, D)
  <2> SUFFICES ASSUME NEW f \in [Nat -> D], \A n \in Nat : <<f[n + 1], f[n]>> \in Lower
               PROVE  FALSE
    BY DEF IsWellFoundedOn
  <2> DEFINE g == [n \in Nat |-> rank[f[n]]]
  <2>1. g \in [Nat -> Nat]
    OBVIOUS
  <2>2. ASSUME NEW n \in Nat
        PROVE  <<g[n + 1], g[n]>> \in OpToRel(<, Nat)
    <3>1. n + 1 \in Nat /\ f[n] \in D /\ f[n + 1] \in D
      OBVIOUS
    <3>2. rank[f[n + 1]] < rank[f[n]] /\ rank[f[n]] \in Nat /\ rank[f[n + 1]] \in Nat
      BY <3>1
    <3>3. g[n + 1] = rank[f[n + 1]] /\ g[n] = rank[f[n]]
      BY <3>1
    <3> HIDE DEF g
    <3> QED
      BY <3>2, <3>3 DEF OpToRel
  <2> HIDE DEF g
  <2> QED
    BY <2>1, <2>2, NatLessThanWellFounded DEF IsWellFoundedOn
<1>2. ASSUME D \ S # {}
      PROVE  FALSE
  <2> DEFINE R == D \ S
  <2>1. R \subseteq D /\ R # {}
    BY <1>2
  <2>2. PICK x \in R : \A y \in R : ~(<<y, x>> \in Lower)
    <3> HIDE DEF R, Lower
    <3> QED
      BY <1>1, <2>1, WFMin
  <2>3. \A y \in D : rank[y] < rank[x] => y \in S
    BY <2>2
  <2> QED
    BY <2>2, <2>3
<1> QED
  BY <1>2

LEMMA Induction ==
    ASSUME NEW S, 0 \in S, \A n \in Nat : n \in S => n + 1 \in S
    PROVE  Nat \subseteq S
<1> DEFINE rank == [n \in Nat |-> n]
<1>1. ASSUME NEW n \in Nat, \A m \in Nat : rank[m] < rank[n] => m \in S
      PROVE  n \in S
  <2>1. CASE n = 0
    BY <2>1
  <2>2. CASE n # 0
    <3>1. n - 1 \in Nat /\ n - 1 < n /\ n = (n - 1) + 1
      BY <2>2
    <3> QED
      BY <1>1, <3>1
  <2> QED
    BY <2>1, <2>2
<1>2. rank \in [Nat -> Nat]
  OBVIOUS
<1> HIDE DEF rank
<1> QED
  BY <1>1, <1>2, RankInduction

(* A function from D to B is defined by recursion if its value at x depends *)
(* on its values at what is of lower rank: H[<<x, f>>] is what the          *)
(* definition gives at x, from the values of f.                             *)
Recursive(H, D, B, rank) ==
    /\ B # {} /\ rank \in [D -> Nat] /\ H \in [D \X [D -> B] -> B]
    /\ \A x \in D : \A f, g \in [D -> B] :
          (\A y \in D : rank[y] < rank[x] => f[y] = g[y]) => H[<<x, f>>] = H[<<x, g>>]

Solves(f, H, D, B) == f \in [D -> B] /\ \A x \in D : f[x] = H[<<x, f>>]

LEMMA Recursion ==
    ASSUME NEW D, NEW B, NEW rank, NEW H, Recursive(H, D, B, rank)
    PROVE  \E f : Solves(f, H, D, B)
<1> USE DEF Recursive, Solves
<1> DEFINE Upto(n) == {f \in [D -> B] : \A x \in D : rank[x] < n => f[x] = H[<<x, f>>]}
           Some == {n \in Nat : Upto(n) # {}}
<1>1. 0 \in Some
  <2>1. PICK b \in B : TRUE
    OBVIOUS
  <2>2. [x \in D |-> b] \in Upto(0)
    OBVIOUS
  <2> QED
    BY <2>2
<1>2. ASSUME NEW n \in Nat, n \in Some
      PROVE  n + 1 \in Some
  <2>1. PICK f : f \in Upto(n)
    BY <1>2
  <2> DEFINE g == [x \in D |-> H[<<x, f>>]]
  <2>2. g \in [D -> B]
    BY <2>1
  <2>3. ASSUME NEW x \in D, rank[x] < n + 1
        PROVE  g[x] = H[<<x, g>>]
    <3>1. \A y \in D : rank[y] < rank[x] => f[y] = g[y]
      BY <2>1, <2>3
    <3>2. H[<<x, f>>] = H[<<x, g>>]
      <4> HIDE DEF g
      <4> QED
        BY <2>1, <2>2, <3>1
    <3> QED
      BY <3>2
  <2>4. g \in Upto(n + 1)
    BY <2>2, <2>3
  <2> HIDE DEF g, Upto
  <2>5. Upto(n + 1) # {}
    BY <2>4
  <2> QED
    BY <2>5
<1>3. \A n \in Nat : Upto(n) # {}
  <2> HIDE DEF Some
  <2>1. Nat \subseteq Some
    BY <1>1, <1>2, Induction
  <2> QED
    BY <2>1 DEF Some
<1> DEFINE F(n) == CHOOSE f : f \in Upto(n)
           h == [x \in D |-> F(rank[x] + 1)[x]]
<1>4. \A n \in Nat : F(n) \in Upto(n)
  BY <1>3
<1>5. ASSUME NEW m \in Nat, NEW n \in Nat, NEW f \in Upto(m), NEW g \in Upto(n)
      PROVE  \A x \in D : rank[x] < m /\ rank[x] < n => f[x] = g[x]
  <2> DEFINE S == {x \in D : rank[x] < m /\ rank[x] < n => f[x] = g[x]}
  <2>1. ASSUME NEW x \in D, \A y \in D : rank[y] < rank[x] => y \in S
        PROVE  x \in S
    <3> SUFFICES ASSUME rank[x] < m, rank[x] < n
                 PROVE  f[x] = g[x]
      OBVIOUS
    <3>1. \A y \in D : rank[y] < rank[x] => f[y] = g[y]
      BY <2>1
    <3>2. H[<<x, f>>] = H[<<x, g>>]
      BY <3>1
    <3> QED
      BY <3>2
  <2> HIDE DEF S
  <2>2. D \subseteq S
    BY <2>1, RankInduction
  <2> QED
    BY <2>2 DEF S
<1>6. ASSUME NEW x \in D
      PROVE  F(rank[x] + 1) \in [D -> B] /\ F(rank[x] + 1)[x] = H[<<x, F(rank[x] + 1)>>]
  <2>1. rank[x] + 1 \in Nat /\ rank[x] < rank[x] + 1
    OBVIOUS
  <2>2. F(rank[x] + 1) \in Upto(rank[x] + 1)
    BY <1>4, <2>1
  <2> HIDE DEF F
  <2> QED
    BY <2>1, <2>2
<1>7. h \in [D -> B]
  <2> HIDE DEF F
  <2> QED
    BY <1>6
<1>8. ASSUME NEW x \in D
      PROVE  h[x] = H[<<x, h>>]
  <2> DEFINE f == F(rank[x] + 1)
  <2>1. ASSUME NEW y \in D, rank[y] < rank[x]
        PROVE  f[y] = h[y]
    <3>1. rank[x] + 1 \in Nat /\ rank[y] + 1 \in Nat /\ rank[y] < rank[x] + 1
            /\ rank[y] < rank[y] + 1
      BY <2>1
    <3>2. F(rank[x] + 1) \in Upto(rank[x] + 1) /\ F(rank[y] + 1) \in Upto(rank[y] + 1)
      BY <1>4, <3>1
    <3> HIDE DEF F, Upto
    <3> QED
      BY <1>5, <3>1, <3>2
  <2>2. f \in [D -> B] /\ h[x] = H[<<x, f>>]
    <3> HIDE DEF F
    <3> QED
      BY <1>6
  <2> HIDE DEF f, h
  <2> QED
    BY <1>7, <2>1, <2>2
<1> HIDE DEF h
<1> QED
  BY <1>7, <1>8

(* A function on 0..n may be defined by its value at 0 and a step.          *)
Step(G, n, B) == G \in [(1..n) \X B -> B]
Solved(h, G, n, B, b) == h \in [0..n -> B] /\ h[0] = b /\ \A k \in 1..n : h[k] = G[<<k, h[k - 1]>>]

LEMMA Stepwise ==
    ASSUME NEW n \in Nat, NEW B, NEW b \in B, NEW G, Step(G, n, B)
    PROVE  \E h : Solved(h, G, n, B, b)
<1> USE DEF Step, Solved
<1> DEFINE D == 0..n
           rank == [k \in D |-> k]
           H == [p \in D \X [D -> B] |-> IF p[1] = 0 THEN b ELSE G[<<p[1], p[2][p[1] - 1]>>]]
<1>1. \A k \in D : k # 0 => k \in 1..n /\ k - 1 \in D /\ k - 1 < k
  OBVIOUS
<1>2. rank \in [D -> Nat] /\ \A k \in D : rank[k] = k
  OBVIOUS
<1>3. ASSUME NEW k \in D, NEW f \in [D -> B]
      PROVE  H[<<k, f>>] = IF k = 0 THEN b ELSE G[<<k, f[k - 1]>>]
  <2> HIDE DEF D
  <2> QED
    OBVIOUS
<1>4. H \in [D \X [D -> B] -> B]
  <2> HIDE DEF D
  <2> QED
    BY <1>1
<1>5. ASSUME NEW k \in D, NEW f \in [D -> B], NEW g \in [D -> B],
             \A j \in D : rank[j] < rank[k] => f[j] = g[j]
      PROVE  H[<<k, f>>] = H[<<k, g>>]
  <2> HIDE DEF D, rank, H
  <2>1. k # 0 => f[k - 1] = g[k - 1]
    BY <1>1, <1>2, <1>5
  <2> QED
    BY <1>3, <2>1
<1> HIDE DEF D, rank, H
<1>6. Recursive(H, D, B, rank)
  BY <1>2, <1>4, <1>5 DEF Recursive
<1>7. PICK h : Solves(h, H, D, B)
  BY <1>6, Recursion
<1>8. h \in [D -> B] /\ \A k \in D : h[k] = H[<<k, h>>]
  BY <1>7 DEF Solves
<1>9. h[0] = b
  <2>1. 0 \in D
    BY DEF D
  <2> QED
    BY <1>3, <1>8, <2>1
<1>10. ASSUME NEW k \in 1..n
       PROVE  h[k] = G[<<k, h[k - 1]>>]
  <2>1. k \in D /\ k # 0
    BY DEF D
  <2> QED
    BY <1>3, <1>8, <2>1
<1> QED
  BY <1>8, <1>9, <1>10 DEF D

(* Induction on 0..n. *)
LEMMA StepInduction ==
    ASSUME NEW n \in Nat, NEW S, 0 \in S, \A k \in 1..n : k - 1 \in S => k \in S
    PROVE  0..n \subseteq S
<1> DEFINE T == {k \in Nat : k <= n => k \in S}
<1>1. 0 \in T
  OBVIOUS
<1>2. ASSUME NEW k \in Nat, k \in T
      PROVE  k + 1 \in T
  <2>1. CASE k + 1 <= n
    <3>1. k + 1 \in 1..n /\ (k + 1) - 1 = k /\ k \in S
      BY <1>2, <2>1
    <3> QED
      BY <3>1
  <2>2. CASE ~(k + 1 <= n)
    BY <2>2
  <2> QED
    BY <2>1, <2>2
<1> HIDE DEF T
<1>3. Nat \subseteq T
  BY <1>1, <1>2, Induction
<1> QED
  BY <1>3 DEF T

-----------------------------------------------------------------------------
(* Sums *)

(* How the sum over S is computed from those over its subsets. *)
Adds(f, g, S) ==
    \A T \in SUBSET S :
        g[T] = IF T = {} THEN 0 ELSE f[CHOOSE x \in T : TRUE] + g[T \ {CHOOSE x \in T : TRUE}]

LEMMA SmallerSet ==
    ASSUME NEW S, IsFiniteSet(S), NEW T \in SUBSET S
    PROVE  /\ IsFiniteSet(T) /\ Cardinality(T) \in Nat
           /\ \A x \in T : /\ T \ {x} \in SUBSET S
                           /\ Cardinality(T \ {x}) \in Nat
                           /\ Cardinality(T \ {x}) < Cardinality(T)
<1>1. IsFiniteSet(T) /\ Cardinality(T) \in Nat
  BY FS_Subset, FS_CardinalityType
<1>2. ASSUME NEW x \in T
      PROVE  /\ IsFiniteSet(T \ {x}) /\ Cardinality(T \ {x}) = Cardinality(T) - 1
             /\ Cardinality(T \ {x}) \in Nat
  <2>1. /\ IsFiniteSet(T \ {x})
        /\ Cardinality(T \ {x}) = IF x \in T THEN Cardinality(T)-1 ELSE Cardinality(T)
    BY <1>1, FS_RemoveElement
  <2> QED
    BY <2>1, FS_CardinalityType
<1> QED
  BY <1>1, <1>2

(* A finite set is reached from the empty one, element by element. *)
LEMMA SetInduction ==
    ASSUME NEW S, IsFiniteSet(S), NEW P, {} \in P,
           \A T \in SUBSET S : \A x \in S \ T : T \in P => T \cup {x} \in P
    PROVE  S \in P
<1> DEFINE Sub == SUBSET S
           rank == [T \in Sub |-> Cardinality(T)]
<1>1. rank \in [Sub -> Nat] /\ \A T \in Sub : rank[T] = Cardinality(T)
  BY SmallerSet
<1>2. ASSUME NEW T \in Sub, \A U \in Sub : rank[U] < rank[T] => U \in P
      PROVE  T \in P
  <2>1. CASE T = {}
    BY <2>1
  <2>2. CASE T # {}
    <3>1. PICK x \in T : TRUE
      BY <2>2
    <3>2. T \ {x} \in Sub /\ rank[T \ {x}] < rank[T]
      BY <1>1, SmallerSet
    <3>3. T \ {x} \in P /\ x \in S \ (T \ {x}) /\ (T \ {x}) \cup {x} = T
      BY <1>2, <3>2
    <3>4. (T \ {x}) \cup {x} \in P
      BY <3>2, <3>3
    <3> QED
      BY <3>3, <3>4
  <2> QED
    BY <2>1, <2>2
<1>3. Sub \subseteq P
  <2> HIDE DEF Sub, rank
  <2>1. \A T \in Sub : (\A U \in Sub : rank[U] < rank[T] => U \in P) => T \in P
    BY <1>2
  <2> QED
    BY <1>1, <2>1, RankInduction
<1> QED
  BY <1>3

LEMMA SumsAdd ==
    ASSUME NEW S, IsFiniteSet(S), NEW f, \A x \in S : f[x] \in Int
    PROVE  \E g \in [SUBSET S -> Int] : g[S] = SumFunctionOnSet(f, S) /\ Adds(f, g, S)
<1> DEFINE Sub == SUBSET S
           c(T) == CHOOSE x \in T : TRUE
           H == [p \in Sub \X [Sub -> Int] |->
                    IF p[1] = {} THEN 0 ELSE f[c(p[1])] + p[2][p[1] \ {c(p[1])}]]
           rank == [T \in Sub |-> Cardinality(T)]
<1>1. \A T \in Sub : T # {} => c(T) \in T
  OBVIOUS
<1>2. H \in [Sub \X [Sub -> Int] -> Int]
  <2> HIDE DEF c
  <2> QED
    BY <1>1
<1>3. \A T \in Sub : rank[T] = Cardinality(T) /\ rank[T] \in Nat
  BY SmallerSet
<1>3a. ASSUME NEW T \in Sub, T # {}
       PROVE  T \ {c(T)} \in Sub /\ rank[T \ {c(T)}] < rank[T]
  <2> HIDE DEF c
  <2> QED
    BY <1>1, <1>3, <1>3a, SmallerSet
<1>3b. ASSUME NEW T \in Sub, NEW g \in [Sub -> Int]
       PROVE  H[<<T, g>>] = IF T = {} THEN 0 ELSE f[c(T)] + g[T \ {c(T)}]
  <2> HIDE DEF c, Sub
  <2> QED
    OBVIOUS
<1>4. Recursive(H, Sub, Int, rank)
  <2> HIDE DEF H, Sub, c, rank
  <2>1. ASSUME NEW T \in Sub, NEW g \in [Sub -> Int], NEW h \in [Sub -> Int],
               \A U \in Sub : rank[U] < rank[T] => g[U] = h[U]
        PROVE  H[<<T, g>>] = H[<<T, h>>]
    <3>1. T # {} => g[T \ {c(T)}] = h[T \ {c(T)}]
      BY <1>3a, <2>1
    <3>2. H[<<T, g>>] = IF T = {} THEN 0 ELSE f[c(T)] + g[T \ {c(T)}]
      BY <1>3b
    <3>3. H[<<T, h>>] = IF T = {} THEN 0 ELSE f[c(T)] + h[T \ {c(T)}]
      BY <1>3b
    <3> QED
      BY <3>1, <3>2, <3>3
  <2>2. rank \in [Sub -> Nat] /\ Int # {}
    BY <1>3 DEF rank
  <2> QED
    BY <1>2, <2>1, <2>2 DEF Recursive
<1>5. PICK g : g \in [Sub -> Int] /\ \A T \in Sub : g[T] = H[<<T, g>>]
  <2> HIDE DEF H, rank, Sub
  <2>1. \E g : Solves(g, H, Sub, Int)
    BY <1>4, Recursion
  <2> QED
    BY <2>1 DEF Solves
<1>6. Adds(f, g, S)
  <2>1. ASSUME NEW T \in SUBSET S
        PROVE  g[T] = IF T = {} THEN 0 ELSE f[c(T)] + g[T \ {c(T)}]
    <3> HIDE DEF c, H
    <3> QED
      BY <1>5, <1>3b
  <2> QED
    BY <2>1 DEF Adds
<1> DEFINE D(it) == [s \in SUBSET S |->
                        IF s = {} THEN 0 ELSE f[c(s)] + it[s \ {c(s)}]]
           iter == CHOOSE it : it = D(it)
<1>7. SumFunctionOnSet(f, S) = iter[S]
  BY DEF SumFunctionOnSet, FoldFunctionOnSet, MapThenFoldSet
<1>8. g = D(g)
  <2> HIDE DEF c
  <2> QED
    BY <1>5, <1>6 DEF Adds, c
<1>9. iter = D(iter)
  <2> HIDE DEF D
  <2> QED
    BY <1>8
<1>10. \A T \in SUBSET S : iter[T] = g[T]
  <2> DEFINE Same == {T \in Sub : iter[T] = g[T]}
  <2>1. ASSUME NEW T \in Sub, \A U \in Sub : rank[U] < rank[T] => U \in Same
        PROVE  T \in Same
    <3>1. iter[T] = D(iter)[T] /\ g[T] = D(g)[T]
      <4> HIDE DEF D, iter
      <4> QED
        BY <1>8, <1>9
    <3>2. CASE T = {}
      <4> HIDE DEF iter
      <4> QED
        BY <3>1, <3>2
    <3>3. CASE T # {}
      <4>1. T \ {c(T)} \in Same
        <5> HIDE DEF Same, c, rank, Sub
        <5> QED
          BY <1>3a, <2>1, <3>3
      <4> HIDE DEF iter, c
      <4> QED
        BY <3>1, <3>3, <4>1
    <3> QED
      BY <3>2, <3>3
  <2>2. Sub \subseteq Same
    <3> HIDE DEF Same, rank, Sub
    <3>1. rank \in [Sub -> Nat]
      BY <1>3 DEF rank
    <3>2. \A T \in Sub : (\A U \in Sub : rank[U] < rank[T] => U \in Same) => T \in Same
      BY <2>1
    <3> QED
      BY <3>1, <3>2, RankInduction
  <2> QED
    BY <2>2
<1> QED
  <2> HIDE DEF iter
  <2> QED
    BY <1>5, <1>6, <1>7, <1>10

(* Two computations agree on the sets that both reach. *)
LEMMA AddsAgree ==
    ASSUME NEW S, IsFiniteSet(S), NEW R \in SUBSET S, NEW f, NEW g, NEW h,
           Adds(f, g, S), Adds(f, h, R)
    PROVE  g[R] = h[R]
<1> DEFINE Sub == SUBSET R
           rank == [T \in Sub |-> Cardinality(T)]
           Same == {T \in Sub : g[T] = h[T]}
<1>1. IsFiniteSet(R)
  BY FS_Subset
<1>2. rank \in [Sub -> Nat] /\ \A T \in Sub : rank[T] = Cardinality(T)
  BY <1>1, SmallerSet
<1>3. ASSUME NEW T \in Sub, \A U \in Sub : rank[U] < rank[T] => U \in Same
      PROVE  T \in Same
  <2> DEFINE c == CHOOSE x \in T : TRUE
  <2>1. /\ g[T] = IF T = {} THEN 0 ELSE f[c] + g[T \ {c}]
        /\ h[T] = IF T = {} THEN 0 ELSE f[c] + h[T \ {c}]
    BY DEF Adds
  <2>2. CASE T = {}
    BY <2>1, <2>2
  <2>3. CASE T # {}
    <3>1. c \in T
      BY <2>3
    <3> HIDE DEF c
    <3>2. T \ {c} \in Sub /\ rank[T \ {c}] < rank[T]
      BY <1>1, <1>2, <3>1, SmallerSet
    <3>3. T \ {c} \in Same
      BY <1>3, <3>2
    <3> QED
      BY <2>1, <2>3, <3>3
  <2> QED
    BY <2>2, <2>3
<1>4. Sub \subseteq Same
  <2> HIDE DEF Same, rank, Sub
  <2>1. \A T \in Sub : (\A U \in Sub : rank[U] < rank[T] => U \in Same) => T \in Same
    BY <1>3
  <2> QED
    BY <1>2, <2>1, RankInduction
<1> QED
  BY <1>4

(* The sum over a set that is not empty adds the chosen element to the sum *)
(* over the others.                                                        *)
LEMMA SumOfChosen ==
    ASSUME NEW S, IsFiniteSet(S), S # {}, NEW f, \A x \in S : f[x] \in Int
    PROVE  \E c \in S : SumFunctionOnSet(f, S) = f[c] + SumFunctionOnSet(f, S \ {c})
<1> DEFINE c == CHOOSE x \in S : TRUE
<1>1. PICK g \in [SUBSET S -> Int] : g[S] = SumFunctionOnSet(f, S) /\ Adds(f, g, S)
  BY SumsAdd
<1>2. c \in S
  OBVIOUS
<1>3. g[S] = f[c] + g[S \ {c}]
  BY <1>1 DEF Adds
<1> HIDE DEF c
<1>4. IsFiniteSet(S \ {c})
  BY FS_Subset
<1>5. PICK h \in [SUBSET (S \ {c}) -> Int] :
         h[S \ {c}] = SumFunctionOnSet(f, S \ {c}) /\ Adds(f, h, S \ {c})
  BY <1>4, SumsAdd
<1>6. g[S \ {c}] = h[S \ {c}]
  <2>1. S \ {c} \in SUBSET S
    OBVIOUS
  <2> QED
    BY <1>1, <1>5, <2>1, AddsAgree
<1> QED
  BY <1>1, <1>2, <1>3, <1>5, <1>6

LEMMA SumIsNumber ==
    ASSUME NEW S, IsFiniteSet(S), NEW f, \A x \in S : f[x] \in Int
    PROVE  SumFunctionOnSet(f, S) \in Int /\ SumFunctionOnSet(f, {}) = 0
<1>1. SumFunctionOnSet(f, S) \in Int
  <2>1. PICK g \in [SUBSET S -> Int] : g[S] = SumFunctionOnSet(f, S) /\ Adds(f, g, S)
    BY SumsAdd
  <2>2. g[S] \in Int
    OBVIOUS
  <2> QED
    BY <2>1, <2>2
<1>2. PICK g \in [SUBSET {} -> Int] : g[{}] = SumFunctionOnSet(f, {}) /\ Adds(f, g, {})
  BY SumsAdd, FS_EmptySet
<1> QED
  BY <1>1, <1>2 DEF Adds

(* The order does not matter: any element may be added last. *)
LEMMA SumOfAny ==
    ASSUME NEW S, IsFiniteSet(S), NEW f, \A x \in S : f[x] \in Int, NEW x \in S
    PROVE  SumFunctionOnSet(f, S) = f[x] + SumFunctionOnSet(f, S \ {x})
<1> DEFINE Sum(T) == SumFunctionOnSet(f, T)
           Sub == SUBSET S
           rank == [T \in Sub |-> Cardinality(T)]
           Right == {T \in Sub : \A y \in T : Sum(T) = f[y] + Sum(T \ {y})}
<1>1. rank \in [Sub -> Nat] /\ \A T \in Sub : rank[T] = Cardinality(T)
  BY SmallerSet
<1>2. \A T \in Sub : IsFiniteSet(T) /\ Sum(T) \in Int /\ \A y \in T : f[y] \in Int
  <2>1. ASSUME NEW T \in Sub
        PROVE  IsFiniteSet(T) /\ Sum(T) \in Int /\ \A y \in T : f[y] \in Int
    <3>1. IsFiniteSet(T) /\ \A y \in T : f[y] \in Int
      BY FS_Subset
    <3> QED
      BY <3>1, SumIsNumber
  <2> QED
    BY <2>1
<1>3. ASSUME NEW T \in Sub, \A U \in Sub : rank[U] < rank[T] => U \in Right, NEW y \in T
      PROVE  Sum(T) = f[y] + Sum(T \ {y})
  <2> HIDE DEF Sum, rank
  <2>1. PICK c \in T : Sum(T) = f[c] + Sum(T \ {c})
    BY <1>2, SumOfChosen DEF Sum
  <2>2. CASE y = c
    BY <2>1, <2>2
  <2>3. CASE y # c
    <3> DEFINE Rest == (T \ {c}) \ {y}
    <3>1. \A z \in T : T \ {z} \in Sub /\ rank[T \ {z}] < rank[T]
      BY <1>1, SmallerSet
    <3>2. T \ {c} \in Right /\ T \ {y} \in Right
      <4> HIDE DEF Right
      <4> QED
        BY <1>3, <3>1
    <3>3. y \in T \ {c} /\ c \in T \ {y} /\ (T \ {y}) \ {c} = Rest
      BY <2>3
    <3>4. Sum(T \ {c}) = f[y] + Sum(Rest)
      BY <3>2, <3>3
    <3>5. Sum(T \ {y}) = f[c] + Sum(Rest)
      <4>1. Sum(T \ {y}) = f[c] + Sum((T \ {y}) \ {c})
        BY <3>2, <3>3
      <4> QED
        BY <3>3, <4>1
    <3>6. Sum(Rest) \in Int /\ f[c] \in Int /\ f[y] \in Int
      <4>1. Rest \in Sub
        OBVIOUS
      <4> HIDE DEF Rest
      <4> QED
        BY <1>2, <4>1
    <3> HIDE DEF Rest
    <3> QED
      BY <2>1, <3>4, <3>5, <3>6
  <2> QED
    BY <2>2, <2>3
<1>4. Sub \subseteq Right
  <2>1. ASSUME NEW T \in Sub, \A U \in Sub : rank[U] < rank[T] => U \in Right
        PROVE  T \in Right
    <3> HIDE DEF Sum, rank
    <3> QED
      BY <1>3, <2>1
  <2> HIDE DEF Right, rank, Sub
  <2>2. \A T \in Sub : (\A U \in Sub : rank[U] < rank[T] => U \in Right) => T \in Right
    BY <2>1
  <2> QED
    BY <1>1, <2>2, RankInduction
<1>5. S \in Right
  BY <1>4
<1> QED
  BY <1>5

LEMMA SumOfMore ==
    ASSUME NEW S, IsFiniteSet(S), NEW x, x \notin S, NEW f, \A y \in S \cup {x} : f[y] \in Int
    PROVE  SumFunctionOnSet(f, S \cup {x}) = SumFunctionOnSet(f, S) + f[x]
<1>1. IsFiniteSet(S \cup {x}) /\ (S \cup {x}) \ {x} = S /\ x \in S \cup {x}
  BY FS_AddElement
<1>2. SumFunctionOnSet(f, S \cup {x}) = f[x] + SumFunctionOnSet(f, (S \cup {x}) \ {x})
  <2> DEFINE U == S \cup {x}
  <2> HIDE DEF U
  <2>1. IsFiniteSet(U) /\ x \in U /\ \A y \in U : f[y] \in Int
    BY <1>1 DEF U
  <2>2. SumFunctionOnSet(f, U) = f[x] + SumFunctionOnSet(f, U \ {x})
    BY <2>1, SumOfAny
  <2> QED
    BY <2>2 DEF U
<1>3. SumFunctionOnSet(f, S) \in Int
  BY SumIsNumber
<1>4. SumFunctionOnSet(f, S \cup {x}) = f[x] + SumFunctionOnSet(f, S)
  BY <1>1, <1>2
<1> QED
  BY <1>3, <1>4

(* A sum only depends on the values that it adds. *)
LEMMA SumOfSame ==
    ASSUME NEW S, IsFiniteSet(S), NEW f, NEW g, \A x \in S : f[x] \in Int /\ g[x] = f[x]
    PROVE  SumFunctionOnSet(f, S) = SumFunctionOnSet(g, S)
<1> DEFINE P == {T \in SUBSET S : SumFunctionOnSet(f, T) = SumFunctionOnSet(g, T)}
<1>1. {} \in P
  BY SumIsNumber
<1>2. ASSUME NEW T \in SUBSET S, NEW x \in S \ T, T \in P
      PROVE  T \cup {x} \in P
  <2>1. IsFiniteSet(T) /\ \A y \in T \cup {x} : f[y] \in Int /\ g[y] \in Int
    BY FS_Subset
  <2>2. SumFunctionOnSet(f, T \cup {x}) = SumFunctionOnSet(f, T) + f[x]
    BY <2>1, SumOfMore
  <2>3. SumFunctionOnSet(g, T \cup {x}) = SumFunctionOnSet(g, T) + g[x]
    BY <2>1, SumOfMore
  <2> QED
    BY <1>2, <2>2, <2>3
<1> HIDE DEF P
<1>3. S \in P
  BY <1>1, <1>2, SetInduction
<1> QED
  BY <1>3 DEF P

(* The sum over two sets without common elements is that of their sums. *)
LEMMA SumOfBoth ==
    ASSUME NEW S, IsFiniteSet(S), NEW T, IsFiniteSet(T), S \cap T = {},
           NEW f, \A x \in S \cup T : f[x] \in Int
    PROVE  SumFunctionOnSet(f, S \cup T) = SumFunctionOnSet(f, S) + SumFunctionOnSet(f, T)
<1> DEFINE Sum(U) == SumFunctionOnSet(f, U)
           P == {U \in SUBSET T : Sum(S \cup U) = Sum(S) + Sum(U)}
<1>1. {} \in P
  <2>1. Sum(S) \in Int /\ Sum({}) = 0 /\ S \cup {} = S
    BY SumIsNumber
  <2> HIDE DEF Sum
  <2> QED
    BY <2>1
<1>2. ASSUME NEW U \in SUBSET T, NEW x \in T \ U, U \in P
      PROVE  U \cup {x} \in P
  <2>1. IsFiniteSet(U) /\ IsFiniteSet(S \cup U)
    BY FS_Subset, FS_Union
  <2>2. Sum(U \cup {x}) = Sum(U) + f[x] /\ Sum(U) \in Int
    BY <2>1, SumOfMore, SumIsNumber
  <2>3. Sum((S \cup U) \cup {x}) = Sum(S \cup U) + f[x]
    <3> DEFINE V == S \cup U
    <3>1. IsFiniteSet(V) /\ x \notin V /\ \A y \in V \cup {x} : f[y] \in Int
      BY <2>1
    <3> HIDE DEF V
    <3>2. Sum(V \cup {x}) = Sum(V) + f[x]
      BY <3>1, SumOfMore
    <3> QED
      BY <3>2 DEF V
  <2>4. (S \cup U) \cup {x} = S \cup (U \cup {x}) /\ Sum(S) \in Int /\ f[x] \in Int
    BY SumIsNumber
  <2> HIDE DEF Sum
  <2>5. Sum(S \cup (U \cup {x})) = (Sum(S) + Sum(U)) + f[x]
    BY <1>2, <2>3, <2>4
  <2>6. Sum(S \cup (U \cup {x})) = Sum(S) + Sum(U \cup {x})
    BY <2>2, <2>4, <2>5
  <2> QED
    BY <2>6
<1>3. T \in P
  <2> HIDE DEF P
  <2> QED
    BY <1>1, <1>2, SetInduction
<1> QED
  BY <1>3

Entry == [name : Metric, value : Value, at : 0..Collected!Pending]
Gathered == [started : 0..MaxTime, stats : [Metric -> Collected!Statistics], entries : SUBSET Nat]

-----------------------------------------------------------------------------
(* The metrics *)

(* What is recorded under a name in a collection. *)
Under(n, c, records) == {i \in c.entries : records[i].name = n}
ValuesIn(records) == [i \in DOMAIN records |-> records[i].value]

(* The statistics of the values in S. *)
TrueOf(stats, values, S) ==
    IF S = {} THEN stats = Collected!NoStats
    ELSE /\ stats.calls = Cardinality(S)
         /\ stats.total = SumFunctionOnSet(values, S)
         /\ Collected!Least(stats.min, {values[i] : i \in S})
         /\ Collected!Greatest(stats.max, {values[i] : i \in S})

LEMMA SameCounts ==
    /\ \A S : Collected!Cardinality(S) = Cardinality(S)
    /\ \A f, S : Collected!SumFunctionOnSet(f, S) = SumFunctionOnSet(f, S)
<1>1. \A S : Collected!Cardinality(S) = Cardinality(S)
  BY DEF Collected!Cardinality, Cardinality
<1>2. \A f, S : Collected!SumFunctionOnSet(f, S) = SumFunctionOnSet(f, S)
  BY DEF Collected!SumFunctionOnSet, SumFunctionOnSet, Collected!FoldFunctionOnSet,
         FoldFunctionOnSet,
         Collected!MapThenFoldSet, MapThenFoldSet
<1> QED
  BY <1>1, <1>2

LEMMA TrueByName ==
    ASSUME NEW c, NEW records
    PROVE  Collected!StatisticsAreTrue(c, records) <=>
               \A n \in Metric : TrueOf(c.stats[n], ValuesIn(records), Under(n, c, records))
BY SameCounts DEF Collected!StatisticsAreTrue, TrueOf, Under, ValuesIn

LEMMA LeastOfBoth ==
    ASSUME NEW A, NEW B, A \subseteq Nat, B \subseteq Nat, NEW m \in Nat, NEW k \in Nat,
           Collected!Least(m, A), Collected!Least(k, B)
    PROVE  Collected!Least(Collected!Smaller(m, k), A \cup B)
BY DEF Collected!Least, Collected!Smaller

LEMMA GreatestOfBoth ==
    ASSUME NEW A, NEW B, A \subseteq Nat, B \subseteq Nat, NEW m \in Nat, NEW k \in Nat,
           Collected!Greatest(m, A), Collected!Greatest(k, B)
    PROVE  Collected!Greatest(Collected!Larger(m, k), A \cup B)
BY DEF Collected!Greatest, Collected!Larger

LEMMA OneValue ==
    ASSUME NEW m \in Nat
    PROVE  Collected!Least(m, {m}) /\ Collected!Greatest(m, {m}) /\ Collected!Larger(m, 0) = m
             /\ Collected!Larger(0, m) = m
BY DEF Collected!Least, Collected!Greatest, Collected!Larger

LEMMA RecordedTrue ==
    ASSUME NEW S, IsFiniteSet(S), NEW i, i \notin S, NEW f, \A j \in S \cup {i} : f[j] \in Nat,
           NEW s \in Collected!Statistics, TrueOf(s, f, S)
    PROVE  TrueOf(Collected!Recorded(s, f[i]), f, S \cup {i})
             /\ Collected!Recorded(s, f[i]) \in Collected!Statistics
<1> DEFINE r == Collected!Recorded(s, f[i])
           T == S \cup {i}
<1>1. Cardinality(T) = Cardinality(S) + 1 /\ Cardinality(S) \in Nat
  BY FS_AddElement, FS_CardinalityType
<1>2. SumFunctionOnSet(f, T) = SumFunctionOnSet(f, S) + f[i]
  BY SumOfMore
<1>3. SumFunctionOnSet(f, {}) = 0 /\ Cardinality({}) = 0
  BY SumIsNumber, FS_EmptySet
<1>4. r.calls = Cardinality(T) /\ r.total = SumFunctionOnSet(f, T)
  <2>1. s.calls = Cardinality(S) /\ s.total = SumFunctionOnSet(f, S)
    BY <1>3 DEF TrueOf, Collected!NoStats
  <2> QED
    BY <1>1, <1>2, <2>1 DEF Collected!Recorded
<1>5. s.calls > 0 <=> S # {}
  BY <1>1, FS_EmptySet DEF TrueOf, Collected!NoStats
<1> DEFINE V == {f[j] : j \in S}
<1>6. {f[j] : j \in T} = V \cup {f[i]} /\ V \subseteq Nat /\ {f[i]} \subseteq Nat
  OBVIOUS
<1>7. Collected!Least(r.min, V \cup {f[i]}) /\ Collected!Greatest(r.max, V \cup {f[i]})
  <2>1. CASE S = {}
    <3>1. V = {} /\ r.min = f[i] /\ r.max = Collected!Larger(f[i], 0)
      BY <1>5, <2>1 DEF TrueOf, Collected!NoStats, Collected!Recorded
    <3> HIDE DEF V, r
    <3> QED
      BY <1>6, <3>1, OneValue
  <2>2. CASE S # {}
    <3>1. r.min = Collected!Smaller(f[i], s.min) /\ r.max = Collected!Larger(f[i], s.max)
            /\ s.min \in Nat /\ s.max \in Nat
      BY <1>5, <2>2 DEF Collected!Recorded, Collected!Statistics
    <3>2. Collected!Least(s.min, V) /\ Collected!Greatest(s.max, V)
      BY <2>2 DEF TrueOf
    <3>3. Collected!Least(f[i], {f[i]}) /\ Collected!Greatest(f[i], {f[i]}) /\ f[i] \in Nat
      BY OneValue
    <3> HIDE DEF V, r
    <3>4. Collected!Least(Collected!Smaller(f[i], s.min), {f[i]} \cup V)
      BY <1>6, <3>1, <3>2, <3>3, LeastOfBoth
    <3>5. Collected!Greatest(Collected!Larger(f[i], s.max), {f[i]} \cup V)
      BY <1>6, <3>1, <3>2, <3>3, GreatestOfBoth
    <3>6. {f[i]} \cup V = V \cup {f[i]}
      OBVIOUS
    <3> QED
      BY <3>1, <3>4, <3>5, <3>6
  <2> QED
    BY <2>1, <2>2
<1>8. r \in Collected!Statistics
  BY DEF Collected!Recorded, Collected!Statistics, Collected!Smaller, Collected!Larger
<1> QED
  <2>1. TrueOf(r, f, T)
    <3>1. T # {} /\ {f[j] : j \in T} = V \cup {f[i]}
      BY <1>6
    <3> HIDE DEF r, V, T
    <3> QED
      BY <1>4, <1>7, <3>1 DEF TrueOf
  <2> QED
    BY <1>8, <2>1

LEMMA SummedTrue ==
    ASSUME NEW S, IsFiniteSet(S), NEW T, IsFiniteSet(T), S \cap T = {},
           NEW f, \A j \in S \cup T : f[j] \in Nat,
           NEW s \in Collected!Statistics, TrueOf(s, f, S), NEW t \in Collected!Statistics, TrueOf(t, f, T)
    PROVE  TrueOf(Collected!Summed(s, t), f, S \cup T)
             /\ Collected!Summed(s, t) \in Collected!Statistics
<1> DEFINE r == Collected!Summed(s, t)
           U == S \cup T
<1>1. Cardinality(U) = Cardinality(S) + Cardinality(T) /\ Cardinality(S) \in Nat
        /\ Cardinality(T) \in Nat
  <2>1. Cardinality(U) = Cardinality(S) + Cardinality(T) - Cardinality(S \cap T)
    BY FS_Union
  <2>2. Cardinality(S) \in Nat /\ Cardinality(T) \in Nat /\ Cardinality(S \cap T) = 0
    BY FS_EmptySet, FS_CardinalityType
  <2> QED
    BY <2>1, <2>2
<1>2. SumFunctionOnSet(f, U) = SumFunctionOnSet(f, S) + SumFunctionOnSet(f, T)
  BY SumOfBoth
<1>3. SumFunctionOnSet(f, {}) = 0 /\ Cardinality({}) = 0
  BY SumIsNumber, FS_EmptySet
<1>4. r.calls = Cardinality(U) /\ r.total = SumFunctionOnSet(f, U)
  <2>1. s.calls = Cardinality(S) /\ s.total = SumFunctionOnSet(f, S)
    BY <1>3 DEF TrueOf, Collected!NoStats
  <2>2. t.calls = Cardinality(T) /\ t.total = SumFunctionOnSet(f, T)
    BY <1>3 DEF TrueOf, Collected!NoStats
  <2> QED
    BY <1>1, <1>2, <2>1, <2>2 DEF Collected!Summed
<1>5. (s.calls > 0 <=> S # {}) /\ (t.calls > 0 <=> T # {})
  BY <1>1, FS_EmptySet DEF TrueOf, Collected!NoStats
<1> DEFINE V(X) == {f[j] : j \in X}
<1>6. V(U) = V(S) \cup V(T) /\ V(S) \subseteq Nat /\ V(T) \subseteq Nat /\ V({}) = {}
  OBVIOUS
<1>6a. s.min \in Nat /\ s.max \in Nat /\ t.min \in Nat /\ t.max \in Nat
  BY DEF Collected!Statistics
<1>6b. /\ S # {} => Collected!Least(s.min, V(S)) /\ Collected!Greatest(s.max, V(S))
       /\ T # {} => Collected!Least(t.min, V(T)) /\ Collected!Greatest(t.max, V(T))
       /\ S = {} => s.max = 0
       /\ T = {} => t.max = 0
  BY DEF TrueOf, Collected!NoStats
<1>6c. /\ r.min = IF S # {} /\ T # {} THEN Collected!Smaller(s.min, t.min)
                 ELSE IF T # {} THEN t.min ELSE s.min
       /\ r.max = Collected!Larger(s.max, t.max)
  BY <1>5 DEF Collected!Summed
<1>7. U # {} => Collected!Least(r.min, V(U)) /\ Collected!Greatest(r.max, V(U))
  <2> HIDE DEF V, r
  <2>1. CASE S # {} /\ T # {}
    <3>1. Collected!Least(Collected!Smaller(s.min, t.min), V(S) \cup V(T))
      BY <1>6, <1>6a, <1>6b, <2>1, LeastOfBoth
    <3>2. Collected!Greatest(Collected!Larger(s.max, t.max), V(S) \cup V(T))
      BY <1>6, <1>6a, <1>6b, <2>1, GreatestOfBoth
    <3> QED
      BY <1>6, <1>6c, <2>1, <3>1, <3>2
  <2>2. CASE S = {} /\ T # {}
    <3>1. V(U) = V(T)
      BY <1>6, <2>2
    <3> QED
      BY <1>6a, <1>6b, <1>6c, <2>2, <3>1, OneValue
  <2>3. CASE S # {} /\ T = {}
    <3>1. V(U) = V(S)
      BY <1>6, <2>3
    <3> QED
      BY <1>6a, <1>6b, <1>6c, <2>3, <3>1, OneValue
  <2> QED
    BY <2>1, <2>2, <2>3
<1>8. r \in Collected!Statistics
  BY DEF Collected!Summed, Collected!Statistics, Collected!Smaller, Collected!Larger
<1>9. U = {} => r = Collected!NoStats
  BY DEF TrueOf, Collected!Summed, Collected!NoStats, Collected!Larger
<1> QED
  <2>1. TrueOf(r, f, U)
    <3> HIDE DEF r, U
    <3> QED
      BY <1>4, <1>7, <1>9 DEF TrueOf
  <2> QED
    BY <1>8, <2>1

LEMMA EntryFacts ==
    ASSUME NEW l \in Seq(Entry), NEW c \in Gathered, c.entries \subseteq DOMAIN l, NEW n
    PROVE  /\ DOMAIN l = 1..Len(l) /\ Len(l) \in Nat
           /\ \A i \in DOMAIN l : l[i] \in Entry /\ l[i].value \in Nat
           /\ \A i \in DOMAIN l : ValuesIn(l)[i] = l[i].value
           /\ Under(n, c, l) \subseteq DOMAIN l /\ IsFiniteSet(Under(n, c, l))
<1>1. DOMAIN l = 1..Len(l) /\ Len(l) \in Nat
  OBVIOUS
<1>2. ASSUME NEW i \in DOMAIN l
      PROVE  l[i] \in Entry /\ l[i].value \in Nat
  <2>1. l[i] \in Entry
    OBVIOUS
  <2>2. l[i].value \in Value
    BY <2>1 DEF Entry
  <2> QED
    BY <2>1, <2>2, MetricsAssumption
<1>3. Under(n, c, l) \subseteq DOMAIN l
  BY DEF Under
<1>4. IsFiniteSet(Under(n, c, l))
  <2> DEFINE m == Len(l)
  <2>a. m \in Int /\ 1 \in Int
    BY <1>1
  <2>1. IsFiniteSet(1..Len(l))
    <3> HIDE DEF m
    <3>1. IsFiniteSet(1..m)
      BY <2>a, FS_Interval
    <3> QED
      BY <3>1 DEF m
  <2>2. Under(n, c, l) \in SUBSET (1..Len(l))
    BY <1>1, <1>3
  <2> QED
    BY <2>1, <2>2, FS_Subset
<1> QED
  BY <1>1, <1>2, <1>3, <1>4 DEF ValuesIn

(* The statistics stay true while names and values stay. *)
LEMMA TrueLater ==
    ASSUME NEW l \in Seq(Entry), NEW k \in Seq(Entry),
           NEW c \in Gathered, c.entries \subseteq DOMAIN l, Collected!StatisticsAreTrue(c, l),
           \A i \in c.entries : i \in DOMAIN k /\ k[i].name = l[i].name /\ k[i].value = l[i].value
    PROVE  Collected!StatisticsAreTrue(c, k)
<1> SUFFICES ASSUME NEW n \in Metric
             PROVE  TrueOf(c.stats[n], ValuesIn(k), Under(n, c, k))
  BY TrueByName
<1> DEFINE S == Under(n, c, l)
<1>1. Under(n, c, k) = S
  BY DEF Under
<1>2. TrueOf(c.stats[n], ValuesIn(l), S)
  BY TrueByName
<1>3. IsFiniteSet(S) /\ S \subseteq DOMAIN l
  BY EntryFacts
<1>4. \A i \in S : ValuesIn(l)[i] \in Int /\ ValuesIn(k)[i] = ValuesIn(l)[i]
  <2>1. S \subseteq c.entries
    BY DEF Under
  <2> HIDE DEF S
  <2>2. \A i \in S : ValuesIn(l)[i] = l[i].value /\ l[i].value \in Int
    BY <1>3, EntryFacts
  <2>3. \A i \in S : ValuesIn(k)[i] = k[i].value
    BY <2>1 DEF ValuesIn
  <2> QED
    BY <2>1, <2>2, <2>3
<1> HIDE DEF S
<1>5. SumFunctionOnSet(ValuesIn(l), S) = SumFunctionOnSet(ValuesIn(k), S)
  BY <1>3, <1>4, SumOfSame
<1>6. {ValuesIn(l)[i] : i \in S} = {ValuesIn(k)[i] : i \in S}
  BY <1>4
<1>7. TrueOf(c.stats[n], ValuesIn(k), S)
  BY <1>2, <1>5, <1>6 DEF TrueOf
<1> QED
  BY <1>1, <1>7

LEMMA MergedTrue ==
    ASSUME NEW l \in Seq(Entry), NEW adjust \in BOOLEAN,
           NEW c \in Gathered, c.entries \subseteq DOMAIN l, Collected!StatisticsAreTrue(c, l),
           NEW d \in Gathered, d.entries \subseteq DOMAIN l, Collected!StatisticsAreTrue(d, l),
           Collected!Apart(c, d)
    PROVE  Collected!Merged(c, d, adjust) \in Gathered
             /\ Collected!StatisticsAreTrue(Collected!Merged(c, d, adjust), l)
<1> DEFINE m == Collected!Merged(c, d, adjust)
<1>1. /\ c.stats \in [Metric -> Collected!Statistics]
           /\ d.stats \in [Metric -> Collected!Statistics]
      /\ m.entries = c.entries \cup d.entries
      /\ \A n \in Metric : m.stats[n] = Collected!Summed(c.stats[n], d.stats[n])
  BY DEF Collected!Merged, Gathered
<1>2. ASSUME NEW n \in Metric
      PROVE  TrueOf(m.stats[n], ValuesIn(l), Under(n, m, l)) /\ m.stats[n] \in Collected!Statistics
  <2> DEFINE S == Under(n, c, l)
             T == Under(n, d, l)
             f == ValuesIn(l)
  <2>1. Under(n, m, l) = S \cup T /\ S \cap T = {}
    BY <1>1 DEF Under, Collected!Apart
  <2>2. TrueOf(c.stats[n], f, S) /\ TrueOf(d.stats[n], f, T)
    BY TrueByName
  <2>3. IsFiniteSet(S) /\ IsFiniteSet(T) /\ \A i \in S \cup T : f[i] \in Nat
    <3>1. IsFiniteSet(S) /\ S \subseteq DOMAIN l /\ \A i \in DOMAIN l : f[i] \in Nat
      <4> HIDE DEF f, S
      <4> QED
        BY EntryFacts DEF f, S
    <3>2. IsFiniteSet(T) /\ T \subseteq DOMAIN l
      BY EntryFacts
    <3> QED
      BY <3>1, <3>2
  <2>4. c.stats[n] \in Collected!Statistics /\ d.stats[n] \in Collected!Statistics
    BY <1>1
  <2> HIDE DEF f, S, T, m
  <2>5. TrueOf(Collected!Summed(c.stats[n], d.stats[n]), f, S \cup T)
          /\ Collected!Summed(c.stats[n], d.stats[n]) \in Collected!Statistics
    BY <2>1, <2>2, <2>3, <2>4, SummedTrue
  <2> QED
    BY <1>1, <2>1, <2>5 DEF f
<1>3. m \in Gathered
  <2>1. m = [started |-> m.started, stats |-> m.stats, entries |-> m.entries]
    BY DEF Collected!Merged
  <2>2. m.started \in 0..MaxTime
    BY DEF Collected!Merged, Gathered, Collected!Smaller
  <2>3. m.stats \in [Metric -> Collected!Statistics]
    <3>1. m.stats = [n \in Metric |-> Collected!Summed(c.stats[n], d.stats[n])]
      BY DEF Collected!Merged
    <3>2. \A n \in Metric : Collected!Summed(c.stats[n], d.stats[n]) \in Collected!Statistics
      BY <1>1, <1>2
    <3> HIDE DEF m
    <3> QED
      BY <3>1, <3>2
  <2>4. m.entries \in SUBSET Nat
    BY <1>1 DEF Gathered
  <2> HIDE DEF m
  <2> QED
    BY <2>1, <2>2, <2>3, <2>4 DEF Gathered
<1>4. Collected!StatisticsAreTrue(m, l)
  <2> HIDE DEF m
  <2> QED
    BY <1>2, TrueByName
<1> QED
  BY <1>3, <1>4

LEMMA MeasuredTrue ==
    ASSUME NEW l \in Seq(Entry), NEW n \in Metric, NEW v \in Value, NEW e \in Entry,
           e.name = n, e.value = v, 
           NEW c \in Gathered, c.entries \subseteq DOMAIN l, Collected!StatisticsAreTrue(c, l),
           NEW d, d = [c EXCEPT !.stats[n] = Collected!Recorded(@, v), !.entries = @ \cup {Len(l) + 1}]
    PROVE  d \in Gathered /\ Collected!StatisticsAreTrue(d, Append(l, e))
<1> DEFINE k == Append(l, e)
           x == Len(l) + 1
<1>1. /\ k \in Seq(Entry) /\ DOMAIN k = 1..x /\ k[x] = e /\ x \in Nat /\ x \notin DOMAIN l
      /\ Len(k) = x /\ x \in DOMAIN k
      /\ \A i \in DOMAIN l : i \in DOMAIN k /\ k[i] = l[i]
  OBVIOUS
<1>2. Collected!StatisticsAreTrue(c, k)
  <2> HIDE DEF k, x
  <2> QED
    BY <1>1, TrueLater
<1>3. /\ d.entries = c.entries \cup {x}
      /\ d.started = c.started
      /\ d.stats[n] = Collected!Recorded(c.stats[n], v)
      /\ \A o \in Metric \ {n} : d.stats[o] = c.stats[o]
      /\ d = [started |-> d.started, stats |-> d.stats, entries |-> d.entries]
      /\ d.stats = [c.stats EXCEPT ![n] = Collected!Recorded(c.stats[n], v)]
      /\ c.stats \in [Metric -> Collected!Statistics]
      /\ c.entries \subseteq Nat /\ c.started \in 0..MaxTime
  BY DEF Gathered
<1>4. TrueOf(d.stats[n], ValuesIn(k), Under(n, d, k)) /\ d.stats[n] \in Collected!Statistics
  <2> DEFINE S == Under(n, c, k)
             f == ValuesIn(k)
  <2>1. Under(n, d, k) = S \cup {x} /\ x \notin S
    <3> HIDE DEF k, x
    <3> QED
      BY <1>1, <1>3 DEF Under
  <2>2. TrueOf(c.stats[n], f, S)
    BY <1>2, TrueByName
  <2>3. IsFiniteSet(S) /\ (\A i \in S \cup {x} : f[i] \in Nat) /\ f[x] = v
    <3> HIDE DEF k, x, S, f
    <3>1. c.entries \subseteq DOMAIN k
      BY <1>1
    <3>2. IsFiniteSet(S) /\ S \subseteq DOMAIN k /\ \A i \in DOMAIN k : f[i] = k[i].value
            /\ k[i].value \in Nat
      BY <1>1, <3>1, EntryFacts DEF S, f
    <3>3. x \in DOMAIN k
      BY <1>1
    <3> QED
      BY <1>1, <3>2, <3>3
  <2>4. c.stats[n] \in Collected!Statistics
    BY <1>3
  <2> HIDE DEF f, S, k, x
  <2>5. TrueOf(Collected!Recorded(c.stats[n], f[x]), f, S \cup {x})
          /\ Collected!Recorded(c.stats[n], f[x]) \in Collected!Statistics
    BY <2>1, <2>2, <2>3, <2>4, RecordedTrue
  <2> QED
    BY <1>3, <2>1, <2>3, <2>5 DEF f
<1>5. ASSUME NEW o \in Metric \ {n}
      PROVE  TrueOf(d.stats[o], ValuesIn(k), Under(o, d, k))
  <2> HIDE DEF k, x
  <2>1. Under(o, d, k) = Under(o, c, k)
    BY <1>1, <1>3 DEF Under
  <2>2. TrueOf(c.stats[o], ValuesIn(k), Under(o, c, k))
    BY <1>2, TrueByName
  <2> QED
    BY <1>3, <2>1, <2>2
<1>6. d \in Gathered
  <2>1. d.stats \in [Metric -> Collected!Statistics] /\ d.entries \in SUBSET Nat
    <3> HIDE DEF k, x
    <3> QED
      BY <1>1, <1>3, <1>4
  <2> QED
    BY <1>3, <2>1 DEF Gathered
<1>7. Collected!StatisticsAreTrue(d, k)
  <2> HIDE DEF k
  <2> QED
    BY <1>4, <1>5, TrueByName
<1> QED
  BY <1>6, <1>7

-----------------------------------------------------------------------------
(* The collection is one of records of l, and says the truth about them. *)
Good(c, l) == c \in Gathered /\ c.entries \subseteq DOMAIN l /\ Collected!StatisticsAreTrue(c, l)

(* Nothing is of a time to come. *)
Timely ==
    /\ metrics.started <= now
    /\ \A i \in metrics.entries : metrics.started <= log[i].at /\ log[i].at <= now
    /\ \A p \in flying : p.until <= now /\ \A i \in p.metrics.entries :
          p.metrics.started <= log[i].at /\ log[i].at <= p.until

Typed ==
    /\ now \in 0..MaxTime
    /\ log \in Seq(Entry)
    /\ DOMAIN own = Measuring /\ own = [t \in Measuring |-> own[t]]
    /\ \A p \in flying : p = [metrics |-> p.metrics, until |-> p.until] /\ p.until \in 0..MaxTime
    /\ gone \subseteq DOMAIN log

AllGood ==
    /\ Good(metrics, log)
    /\ \A t \in Measuring : Good(own[t], log)
    /\ \A p \in flying : Good(p.metrics, log)

MetricsInv == Typed /\ AllGood /\ Collected!InOnePlace /\ Timely

LEMMA FreshGood ==
    ASSUME now \in 0..MaxTime, NEW l
    PROVE  Good(Collected!Fresh, l) /\ Collected!Fresh.entries = {} /\ Collected!Fresh.started = now
<1>1. Collected!Fresh.stats \in [Metric -> Collected!Statistics]
        /\ Collected!Fresh.entries = {} /\ Collected!Fresh.started = now
  BY DEF Collected!Fresh, Collected!NoStats, Collected!Statistics
<1>2. Collected!Fresh \in Gathered
  BY <1>1 DEF Collected!Fresh, Gathered
<1>3. Collected!StatisticsAreTrue(Collected!Fresh, l)
  BY DEF Collected!Fresh, Collected!StatisticsAreTrue
<1> QED
  BY <1>1, <1>2, <1>3 DEF Good

LEMMA GoodLater ==
    ASSUME NEW l \in Seq(Entry), NEW k \in Seq(Entry), NEW c, Good(c, l), DOMAIN l \subseteq DOMAIN k,
           \A i \in DOMAIN l : k[i].name = l[i].name /\ k[i].value = l[i].value
    PROVE  Good(c, k)
BY TrueLater DEF Good

LEMMA MergedGood ==
    ASSUME NEW l \in Seq(Entry), NEW adjust \in BOOLEAN, NEW c, NEW d, Good(c, l), Good(d, l), Collected!Apart(c, d)
    PROVE  Good(Collected!Merged(c, d, adjust), l)
<1>1. c \in Gathered /\ c.entries \subseteq DOMAIN l /\ Collected!StatisticsAreTrue(c, l)
  BY DEF Good
<1>2. d \in Gathered /\ d.entries \subseteq DOMAIN l /\ Collected!StatisticsAreTrue(d, l)
  BY DEF Good
<1>3. Collected!Merged(c, d, adjust) \in Gathered
        /\ Collected!StatisticsAreTrue(Collected!Merged(c, d, adjust), l)
  BY <1>1, <1>2, MergedTrue
<1>4. Collected!Merged(c, d, adjust).entries = c.entries \cup d.entries
  BY DEF Collected!Merged
<1> QED
  BY <1>1, <1>2, <1>3, <1>4 DEF Good

LEMMA MeasuredGood ==
    ASSUME log \in Seq(Entry), NEW n \in Metric, NEW v \in Value, NEW at \in 0..Collected!Pending,
           NEW c, Good(c, log)
    PROVE  LET e == [name |-> n, value |-> v, at |-> at]
           IN  /\ Good(Collected!Measured(c, n, v), Append(log, e))
               /\ Collected!Measured(c, n, v).entries = c.entries \cup {Len(log) + 1}
               /\ Collected!Measured(c, n, v).started = c.started
<1> DEFINE e == [name |-> n, value |-> v, at |-> at]
           d == Collected!Measured(c, n, v)
<1>1. c \in Gathered /\ c.entries \subseteq DOMAIN log /\ Collected!StatisticsAreTrue(c, log)
  BY DEF Good
<1>2. e \in Entry /\ e.name = n /\ e.value = v
  BY DEF Entry
<1>3. d = [c EXCEPT !.stats[n] = Collected!Recorded(@, v), !.entries = @ \cup {Len(log) + 1}]
  BY DEF Collected!Measured
<1>4. d.entries = c.entries \cup {Len(log) + 1} /\ d.started = c.started
  BY <1>1 DEF Collected!Measured, Gathered
<1> HIDE DEF e, d
<1>5. d \in Gathered /\ Collected!StatisticsAreTrue(d, Append(log, e))
  BY <1>1, <1>2, <1>3, MeasuredTrue
<1>6. d.entries \subseteq DOMAIN Append(log, e)
  BY <1>1, <1>4
<1> QED
  BY <1>4, <1>5, <1>6 DEF Good, d, e

LEMMA MetricsInit == Collected!Init => MetricsInv
<1> SUFFICES ASSUME Collected!Init
             PROVE  MetricsInv
  OBVIOUS
<1>1. now \in 0..MaxTime /\ log = <<>> /\ log \in Seq(Entry) /\ DOMAIN log = {}
  BY MetricsAssumption DEF Collected!Init
<1>2. metrics = Collected!Fresh /\ (\A t \in Measuring : own[t] = Collected!Fresh)
        /\ flying = {} /\ gone = {}
      /\ DOMAIN own = Measuring /\ own = [t \in Measuring |-> own[t]]
  BY DEF Collected!Init
<1>3. Good(Collected!Fresh, log) /\ Collected!Fresh.entries = {} /\ Collected!Fresh.started = now
  BY <1>1, FreshGood
<1>4. Typed /\ AllGood
  BY <1>1, <1>2, <1>3 DEF Typed, AllGood
<1>5. Collected!InOnePlace /\ Timely
  BY <1>1, <1>2, <1>3 DEF Collected!InOnePlace, Timely, Collected!Apart
<1> QED
  BY <1>4, <1>5 DEF MetricsInv

(* A record is added: the collections stay good, and know nothing of it. *)
LEMMA LogGrows ==
    ASSUME Typed, AllGood, NEW n \in Metric, NEW v \in Value, NEW at \in 0..Collected!Pending, Collected!Logged(n, v, at)
    PROVE  /\ log' \in Seq(Entry) /\ DOMAIN log' = DOMAIN log \cup {Len(log) + 1}
           /\ Len(log) + 1 \notin DOMAIN log
           /\ (\A i \in DOMAIN log : log'[i] = log[i]) /\ log'[Len(log) + 1].at = at
           /\ \A c : Good(c, log) => Good(c, log')
<1> DEFINE e == [name |-> n, value |-> v, at |-> at]
<1>1. log \in Seq(Entry) /\ log' = Append(log, e) /\ e \in Entry /\ e.at = at
  BY DEF Typed, Collected!Logged, Entry
<1> HIDE DEF e
<1>2. /\ log' \in Seq(Entry) /\ DOMAIN log' = DOMAIN log \cup {Len(log) + 1}
      /\ Len(log) + 1 \notin DOMAIN log
      /\ (\A i \in DOMAIN log : log'[i] = log[i]) /\ log'[Len(log) + 1] = e
  BY <1>1
<1>3. ASSUME NEW c, Good(c, log)
      PROVE  Good(c, log')
  BY <1>1, <1>2, <1>3, GoodLater
<1> QED
  BY <1>1, <1>2, <1>3

LEMMA MeasureKeeps ==
    ASSUME MetricsInv, NEW n \in Metric, NEW v \in Value, Collected!Measure(n, v)
    PROVE  MetricsInv'
<1>1. Typed /\ AllGood /\ Collected!InOnePlace /\ Timely
  BY DEF MetricsInv
<1>2. UNCHANGED <<now, own, flying, gone>> /\ metrics' = Collected!Measured(metrics, n, v)
        /\ Collected!Logged(n, v, now)
  BY DEF Collected!Measure
<1>3. now \in 0..Collected!Pending /\ now \in Nat
  BY <1>1, MetricsAssumption DEF Typed, Collected!Pending
<1>4. /\ log' \in Seq(Entry) /\ DOMAIN log' = DOMAIN log \cup {Len(log) + 1}
      /\ Len(log) + 1 \notin DOMAIN log
      /\ (\A i \in DOMAIN log : log'[i] = log[i]) /\ log'[Len(log) + 1].at = now
      /\ \A c : Good(c, log) => Good(c, log')
  BY <1>1, <1>2, <1>3, LogGrows
<1>5. /\ Good(metrics', log') /\ metrics'.entries = metrics.entries \cup {Len(log) + 1}
      /\ metrics'.started = metrics.started
  <2>1. log' = Append(log, [name |-> n, value |-> v, at |-> now]) /\ log \in Seq(Entry)
          /\ Good(metrics, log)
    BY <1>1, <1>2 DEF Collected!Logged, Typed, AllGood
  <2> QED
    BY <1>2, <1>3, <2>1, MeasuredGood
<1>6. Typed'
  BY <1>1, <1>2, <1>4 DEF Typed
<1>7. AllGood'
  BY <1>1, <1>2, <1>4, <1>5 DEF AllGood
<1>8. Timely'
  BY <1>1, <1>2, <1>3, <1>4, <1>5 DEF Timely, AllGood, Good
<1>9. Collected!InOnePlace'
  BY <1>1, <1>2, <1>4, <1>5
     DEF Collected!InOnePlace, Collected!Apart, Collected!Collections, AllGood, Good, Typed
<1> QED
  BY <1>6, <1>7, <1>8, <1>9 DEF MetricsInv

LEMMA MeasureInTransactionKeeps ==
    ASSUME MetricsInv, NEW t \in Measuring, NEW n \in Metric, NEW v \in Value,
           Collected!MeasureInTransaction(t, n, v)
    PROVE  MetricsInv'
<1>1. Typed /\ AllGood /\ Collected!InOnePlace /\ Timely
  BY DEF MetricsInv
<1>2. UNCHANGED <<now, metrics, flying, gone>> /\ Collected!Logged(n, v, Collected!Pending)
  BY DEF Collected!MeasureInTransaction
<1>3. Collected!Pending \in 0..Collected!Pending
  BY MetricsAssumption DEF Collected!Pending
<1>4. /\ log' \in Seq(Entry) /\ DOMAIN log' = DOMAIN log \cup {Len(log) + 1}
      /\ Len(log) + 1 \notin DOMAIN log
      /\ (\A i \in DOMAIN log : log'[i] = log[i])
      /\ \A c : Good(c, log) => Good(c, log')
  BY <1>1, <1>2, <1>3, LogGrows
<1>5. /\ own'[t] = Collected!Measured(own[t], n, v) /\ \A u \in Measuring \ {t} : own'[u] = own[u]
      /\ DOMAIN own' = Measuring /\ own' = [u \in Measuring |-> own'[u]]
  BY <1>1 DEF Typed, Collected!MeasureInTransaction
<1>6. Good(own'[t], log') /\ own'[t].entries = own[t].entries \cup {Len(log) + 1}
  <2>1. log' = Append(log, [name |-> n, value |-> v, at |-> Collected!Pending])
          /\ log \in Seq(Entry) /\ Good(own[t], log)
    BY <1>1, <1>2 DEF Collected!Logged, Typed, AllGood
  <2> QED
    BY <1>3, <1>5, <2>1, MeasuredGood
<1>7. Typed'
  BY <1>1, <1>2, <1>4, <1>5 DEF Typed
<1>8. AllGood'
  BY <1>1, <1>2, <1>4, <1>5, <1>6 DEF AllGood
<1>9. Timely'
  BY <1>1, <1>2, <1>4 DEF Timely, AllGood, Good
<1>10. Collected!InOnePlace'
  <2>1. Collected!InOnePlace /\ (metrics' = metrics /\ flying' = flying /\ gone' = gone)
    BY <1>1, <1>2
  <2>2. ASSUME NEW i \in DOMAIN log'
        PROVE  i \in gone' <=> \A c \in Collected!Collections' : i \notin c.entries
    <3>1. CASE i = Len(log) + 1
      <4>1. own'[t] \in Collected!Collections' /\ i \in own'[t].entries
        BY <1>5, <1>6, <3>1 DEF Collected!Collections
      <4>2. i \notin gone'
        BY <1>1, <1>4, <2>1, <3>1 DEF Typed
      <4> QED
        BY <4>1, <4>2
    <3>2. CASE i \in DOMAIN log
      <4>1. i # Len(log) + 1
        BY <1>4, <3>2
      <4>2. i \in own'[t].entries <=> i \in own[t].entries
        BY <1>6, <4>1
      <4> QED
        BY <1>5, <2>1, <3>2, <4>2 DEF Collected!InOnePlace, Collected!Collections
    <3> QED
      BY <1>4, <3>1, <3>2
  <2>3. ASSUME NEW S, S \subseteq DOMAIN log
        PROVE  S \cap own'[t].entries = S \cap own[t].entries
    BY <1>4, <1>6, <2>3
  <2>4. /\ metrics.entries \subseteq DOMAIN log
             /\ \A u \in Measuring : own[u].entries \subseteq DOMAIN log
        /\ \A p \in flying : p.metrics.entries \subseteq DOMAIN log
    BY <1>1 DEF AllGood, Good
  <2>5. \A u \in Measuring : Collected!Apart(metrics', own'[u])
          /\ \A w \in Measuring \ {u} : Collected!Apart(own'[u], own'[w])
    BY <1>5, <2>1, <2>3, <2>4 DEF Collected!InOnePlace, Collected!Apart
  <2>6. \A p \in flying' :
           /\ Collected!Apart(p.metrics, metrics')
                /\ \A u \in Measuring : Collected!Apart(p.metrics, own'[u])
           /\ \A q \in flying' \ {p} : Collected!Apart(p.metrics, q.metrics)
    BY <1>5, <2>1, <2>3, <2>4 DEF Collected!InOnePlace, Collected!Apart
  <2> QED
    BY <2>2, <2>5, <2>6 DEF Collected!InOnePlace, Collected!Apart
<1> QED
  BY <1>7, <1>8, <1>9, <1>10 DEF MetricsInv

LEMMA FinishKeeps ==
    ASSUME MetricsInv, NEW t \in Measuring, Collected!Finish(t)
    PROVE  MetricsInv'
<1>1. Typed /\ AllGood /\ Collected!InOnePlace /\ Timely
  BY DEF MetricsInv
<1>2. UNCHANGED <<now, flying>> /\ now \in 0..MaxTime /\ now \in 0..Collected!Pending
  BY <1>1, MetricsAssumption DEF Collected!Finish, Typed, Collected!Pending
<1>3. /\ own'[t] = Collected!Fresh /\ \A u \in Measuring \ {t} : own'[u] = own[u]
      /\ DOMAIN own' = Measuring /\ own' = [u \in Measuring |-> own'[u]]
  BY <1>1 DEF Typed, Collected!Finish
<1>4. Collected!Fresh.entries = {} /\ \A l : Good(Collected!Fresh, l)
  BY <1>2, FreshGood
<1>5. CASE /\ metrics' = Collected!Merged(metrics, own[t], FALSE)
           /\ log' = [i \in DOMAIN log |->
                        IF i \in own[t].entries THEN [log[i] EXCEPT !.at = now] ELSE log[i]]
           /\ UNCHANGED gone
  <2>1. log \in Seq(Entry) /\ DOMAIN log = 1..Len(log) /\ Len(log) \in Nat
    BY <1>1 DEF Typed
  <2>2. \A i \in DOMAIN log : log[i] \in Entry
    BY <2>1
  <2>3. \A i \in DOMAIN log : /\ log'[i] \in Entry /\ log'[i].name = log[i].name
                                   /\ log'[i].value = log[i].value
                              /\ log'[i].at = IF i \in own[t].entries THEN now ELSE log[i].at
    BY <1>2, <1>5, <2>2 DEF Entry
  <2>4. log' \in Seq(Entry) /\ DOMAIN log' = DOMAIN log
    BY <1>5, <2>1, <2>3
  <2>5. \A c : Good(c, log) => Good(c, log')
    BY <2>1, <2>3, <2>4, GoodLater
  <2>6. Good(metrics', log) /\ metrics'.entries = metrics.entries \cup own[t].entries
        /\ metrics'.started = metrics.started
    <3>1. Good(metrics, log) /\ Good(own[t], log) /\ Collected!Apart(metrics, own[t])
            /\ FALSE \in BOOLEAN
      BY <1>1 DEF AllGood, Collected!InOnePlace
    <3>2. Good(Collected!Merged(metrics, own[t], FALSE), log)
      BY <2>1, <3>1, MergedGood
    <3> QED
      BY <1>5, <3>2 DEF Collected!Merged
  <2>7. Typed'
    BY <1>1, <1>2, <1>3, <1>5, <2>4 DEF Typed
  <2>8. AllGood'
    BY <1>1, <1>2, <1>3, <1>4, <2>5, <2>6 DEF AllGood
  <2>9. Timely'
    <3>1. \A i \in metrics.entries : i \in DOMAIN log /\ i \notin own[t].entries
      BY <1>1 DEF AllGood, Good, Collected!InOnePlace, Collected!Apart
    <3>2. \A i \in own[t].entries : i \in DOMAIN log
      BY <1>1 DEF AllGood, Good
    <3>3. metrics.started <= now /\ now \in Nat
      BY <1>1, <1>2 DEF Timely
    <3>4. \A i \in metrics'.entries : metrics'.started <= log'[i].at /\ log'[i].at <= now
      BY <1>1, <2>3, <2>6, <3>1, <3>2, <3>3 DEF Timely
    <3>5. \A p \in flying : \A i \in p.metrics.entries : i \in DOMAIN log /\ i \notin own[t].entries
      BY <1>1 DEF AllGood, Good, Collected!InOnePlace, Collected!Apart
    <3>6. \A p \in flying : \A i \in p.metrics.entries : log'[i].at = log[i].at
      BY <2>3, <3>5
    <3> QED
      BY <1>1, <1>2, <2>6, <3>3, <3>4, <3>6 DEF Timely
  <2>10. Collected!InOnePlace'
    <3>1. /\ metrics'.entries = metrics.entries \cup own[t].entries
          /\ own'[t].entries = {} /\ \A u \in Measuring \ {t} : own'[u].entries = own[u].entries
      BY <1>3, <1>4, <2>6
    <3>2. \A i : (\A c \in Collected!Collections : i \notin c.entries)
                   <=> (\A c \in Collected!Collections' : i \notin c.entries)
      BY <1>2, <3>1 DEF Collected!Collections
    <3>3. \A i \in DOMAIN log' : i \in gone' <=> \A c \in Collected!Collections' : i \notin c.entries
      BY <1>1, <1>5, <2>4, <3>2 DEF Collected!InOnePlace
    <3>4. \A u \in Measuring : Collected!Apart(metrics', own'[u])
            /\ \A w \in Measuring \ {u} : Collected!Apart(own'[u], own'[w])
      BY <1>1, <3>1 DEF Collected!InOnePlace, Collected!Apart
    <3>5. \A p \in flying :
             /\ Collected!Apart(p.metrics, metrics')
                  /\ \A u \in Measuring : Collected!Apart(p.metrics, own'[u])
             /\ \A q \in flying \ {p} : Collected!Apart(p.metrics, q.metrics)
      BY <1>1, <3>1 DEF Collected!InOnePlace, Collected!Apart
    <3> QED
      BY <1>2, <3>3, <3>4, <3>5 DEF Collected!InOnePlace
  <2> QED
    BY <2>7, <2>8, <2>9, <2>10 DEF MetricsInv
<1>6. CASE gone' = gone \cup own[t].entries /\ UNCHANGED <<metrics, log>>
  <2>1. Typed'
    BY <1>1, <1>2, <1>3, <1>6 DEF Typed, AllGood, Good
  <2>2. AllGood'
    BY <1>1, <1>2, <1>3, <1>4, <1>6 DEF AllGood
  <2>3. Timely'
    BY <1>1, <1>2, <1>6 DEF Timely
  <2>4. Collected!InOnePlace'
    BY <1>1, <1>2, <1>3, <1>4, <1>6
       DEF Collected!InOnePlace, Collected!Apart, Collected!Collections, Typed
  <2> QED
    BY <2>1, <2>2, <2>3, <2>4 DEF MetricsInv
<1> QED
  BY <1>5, <1>6 DEF Collected!Finish

LEMMA SendKeeps ==
    ASSUME MetricsInv, Collected!Send
    PROVE  MetricsInv'
<1>1. Typed /\ AllGood /\ Collected!InOnePlace /\ Timely
  BY DEF MetricsInv
<1> DEFINE sending == [metrics |-> metrics, until |-> now]
<1>2. /\ UNCHANGED <<now, own, log, gone>> /\ metrics' = Collected!Fresh
      /\ flying' = IF metrics.entries = {} THEN flying ELSE flying \cup {sending}
      /\ now \in 0..MaxTime /\ now \in Nat
  BY <1>1, MetricsAssumption DEF Collected!Send, Typed
<1>3. Collected!Fresh.entries = {} /\ Collected!Fresh.started = now
        /\ \A l : Good(Collected!Fresh, l)
  BY <1>2, FreshGood
<1>4. sending.metrics = metrics /\ sending.until = now
      /\ sending = [metrics |-> sending.metrics, until |-> sending.until]
  OBVIOUS
<1> HIDE DEF sending
<1>5. Typed'
  BY <1>1, <1>2, <1>4 DEF Typed
<1>6. AllGood'
  BY <1>1, <1>2, <1>3, <1>4 DEF AllGood
<1>7. Timely'
  BY <1>1, <1>2, <1>3, <1>4 DEF Timely
<1>8. Collected!InOnePlace'
  BY <1>1, <1>2, <1>3, <1>4 DEF Collected!InOnePlace, Collected!Apart, Collected!Collections
<1> QED
  BY <1>5, <1>6, <1>7, <1>8 DEF MetricsInv

LEMMA AnswerKeeps ==
    ASSUME MetricsInv, NEW p \in flying, NEW retainData \in BOOLEAN, Collected!Answer(p, retainData)
    PROVE  MetricsInv'
<1>1. Typed /\ AllGood /\ Collected!InOnePlace /\ Timely
  BY DEF MetricsInv
<1>2. UNCHANGED <<now, own, log>> /\ flying' = flying \ {p}
  BY DEF Collected!Answer
<1>3. CASE metrics' = Collected!Merged(metrics, p.metrics, TRUE) /\ UNCHANGED gone
  <2>1. Good(metrics', log)
    <3>1. log \in Seq(Entry) /\ Good(metrics, log) /\ Good(p.metrics, log)
            /\ Collected!Apart(metrics, p.metrics) /\ TRUE \in BOOLEAN
      BY <1>1 DEF Typed, AllGood, Collected!InOnePlace, Collected!Apart
    <3>2. Good(Collected!Merged(metrics, p.metrics, TRUE), log)
      BY <3>1, MergedGood
    <3> QED
      BY <1>3, <3>2
  <2>2. /\ metrics'.entries = metrics.entries \cup p.metrics.entries
        /\ metrics'.started = Collected!Smaller(metrics.started, p.metrics.started)
    BY <1>3 DEF Collected!Merged
  <2>3. Typed'
    BY <1>1, <1>2, <1>3 DEF Typed
  <2>4. AllGood'
    BY <1>1, <1>2, <2>1 DEF AllGood
  <2>5. Timely'
    <3>1. metrics.started \in Nat /\ p.metrics.started \in Nat /\ now \in Nat /\ p.until \in Nat
      BY <1>1, MetricsAssumption DEF AllGood, Good, Gathered, Typed
    <3>2. \A i \in metrics.entries \cup p.metrics.entries : log[i].at \in Nat
      <4>1. \A i \in DOMAIN log : log[i] \in Entry
        BY <1>1 DEF Typed
      <4>2. \A i \in DOMAIN log : log[i].at \in Nat
        BY <4>1, MetricsAssumption DEF Entry, Collected!Pending
      <4> QED
        BY <1>1, <4>2 DEF AllGood, Good
    <3>3. /\ metrics'.started <= metrics.started /\ metrics'.started <= p.metrics.started
          /\ metrics'.started \in Nat
      BY <2>2, <3>1 DEF Collected!Smaller
    <3>4. \A i \in metrics'.entries : metrics'.started <= log[i].at /\ log[i].at <= now
      BY <1>1, <2>2, <3>1, <3>2, <3>3 DEF Timely
    <3>5. metrics'.started <= now
      BY <1>1, <3>1, <3>3 DEF Timely
    <3> QED
      BY <1>1, <1>2, <3>4, <3>5 DEF Timely
  <2>6. Collected!InOnePlace'
    <3>1. \A i : (\A c \in Collected!Collections : i \notin c.entries)
                   <=> (\A c \in Collected!Collections' : i \notin c.entries)
      BY <1>2, <2>2 DEF Collected!Collections
    <3>2. \A i \in DOMAIN log' : i \in gone' <=> \A c \in Collected!Collections' : i \notin c.entries
      BY <1>1, <1>2, <1>3, <3>1 DEF Collected!InOnePlace
    <3>3. \A u \in Measuring : Collected!Apart(metrics', own[u])
            /\ \A w \in Measuring \ {u} : Collected!Apart(own[u], own[w])
      BY <1>1, <2>2 DEF Collected!InOnePlace, Collected!Apart
    <3>4. \A q \in flying' :
             /\ Collected!Apart(q.metrics, metrics')
                  /\ \A u \in Measuring : Collected!Apart(q.metrics, own[u])
             /\ \A r \in flying' \ {q} : Collected!Apart(q.metrics, r.metrics)
      BY <1>1, <1>2, <2>2 DEF Collected!InOnePlace, Collected!Apart
    <3> QED
      BY <1>2, <3>2, <3>3, <3>4 DEF Collected!InOnePlace
  <2> QED
    BY <2>3, <2>4, <2>5, <2>6 DEF MetricsInv
<1>4. CASE gone' = gone \cup p.metrics.entries /\ UNCHANGED metrics
  <2>1. Typed' /\ AllGood'
    BY <1>1, <1>2, <1>4 DEF Typed, AllGood, Good
  <2>2. Timely'
    BY <1>1, <1>2, <1>4 DEF Timely
  <2>3. Collected!InOnePlace'
    BY <1>1, <1>2, <1>4 DEF Collected!InOnePlace, Collected!Apart, Collected!Collections
  <2> QED
    BY <2>1, <2>2, <2>3 DEF MetricsInv
<1> QED
  BY <1>3, <1>4 DEF Collected!Answer

LEMMA TickKeeps ==
    ASSUME MetricsInv, Collected!Tick
    PROVE  MetricsInv'
<1>1. Typed /\ AllGood /\ Collected!InOnePlace /\ Timely
  BY DEF MetricsInv
<1>2. UNCHANGED <<metrics, own, flying, log, gone>> /\ now' \in 0..MaxTime /\ now <= now'
        /\ now \in Nat /\ now' \in Nat
  BY <1>1, MetricsAssumption DEF Collected!Tick, Typed
<1>3. Typed' /\ AllGood' /\ Collected!InOnePlace'
  BY <1>1, <1>2 DEF Typed, AllGood, Collected!InOnePlace, Collected!Collections
<1>4. Timely'
  <2>1. \A i \in metrics.entries : log[i].at \in Nat
    <3>1. \A i \in DOMAIN log : log[i] \in Entry
      BY <1>1 DEF Typed
    <3>2. \A i \in DOMAIN log : log[i].at \in Nat
      BY <3>1, MetricsAssumption DEF Entry, Collected!Pending
    <3> QED
      BY <1>1, <3>2 DEF AllGood, Good
  <2>2. metrics.started \in Nat /\ \A p \in flying : p.until \in Nat
    BY <1>1, MetricsAssumption DEF AllGood, Good, Gathered, Typed
  <2> QED
    BY <1>1, <1>2, <2>1, <2>2 DEF Timely
<1> QED
  BY <1>3, <1>4 DEF MetricsInv

LEMMA MetricsStep == MetricsInv /\ [Collected!Next]_Collected!vars => MetricsInv'
<1> SUFFICES ASSUME MetricsInv, [Collected!Next]_Collected!vars
             PROVE  MetricsInv'
  OBVIOUS
<1>1. ASSUME NEW n \in Metric, NEW v \in Value, Collected!Measure(n, v)
      PROVE  MetricsInv'
  BY <1>1, MeasureKeeps
<1>2. ASSUME NEW n \in Metric, NEW v \in Value, NEW t \in Measuring, Collected!MeasureInTransaction(t, n, v)
      PROVE  MetricsInv'
  BY <1>2, MeasureInTransactionKeeps
<1>3. ASSUME NEW t \in Measuring, Collected!Finish(t)
      PROVE  MetricsInv'
  BY <1>3, FinishKeeps
<1>4. CASE Collected!Send
  BY <1>4, SendKeeps
<1>5. CASE Collected!Tick
  BY <1>5, TickKeeps
<1>6. ASSUME NEW p \in flying, NEW retainData \in BOOLEAN, Collected!Answer(p, retainData)
      PROVE  MetricsInv'
  BY <1>6, AnswerKeeps
<1>7. CASE UNCHANGED Collected!vars
  BY <1>7
     DEF Collected!vars, MetricsInv, Typed, AllGood, Collected!InOnePlace, Timely,
         Collected!Collections
<1> QED
  BY <1>1, <1>2, <1>3, <1>4, <1>5, <1>6, <1>7 DEF Collected!Next

LEMMA MetricsFollow == MetricsInv => Collected!MetricsAreKept
<1> SUFFICES ASSUME MetricsInv
             PROVE  Collected!MetricsAreKept
  OBVIOUS
<1>1. Collected!TimesAreCovered
  BY DEF MetricsInv, Timely, Collected!TimesAreCovered
<1>2. ASSUME NEW c \in Collected!Collections
      PROVE  Collected!StatisticsAreTrue(c, log)
  BY DEF MetricsInv, AllGood, Good, Collected!Collections
<1> QED
  BY <1>1, <1>2 DEF MetricsInv, Collected!MetricsAreKept

(* Every metric, of the agent, of a transaction and on its way, is the sum *)
(* of what was recorded into it, whatever is sent, lost and merged back    *)
(* (Metrics.merge, MetricAggregator), for any names, values and times.     *)
THEOREM MetricsKept == Collected!Spec => []Collected!MetricsAreKept
<1>1. Collected!Init => MetricsInv
  BY MetricsInit
<1>2. MetricsInv /\ [Collected!Next]_Collected!vars => MetricsInv'
  BY MetricsStep
<1>3. MetricsInv => Collected!MetricsAreKept
  BY MetricsFollow
<1> QED
  BY <1>1, <1>2, <1>3, PTL DEF Collected!Spec

-----------------------------------------------------------------------------
(* Lists of ranges *)

Pair == {p \in Nat \X Nat : p[1] <= p[2]}
Ordered(l) == l \in Seq(Pair) /\ \A i, j \in DOMAIN l : i < j => l[i][2] < l[j][1]
Span(p) == {t \in Int : p[1] <= t /\ t < p[2]}
Covered(l) == UNION {Span(l[i]) : i \in DOMAIN l}
StartBefore(l, b) == \A i \in DOMAIN l : l[i][1] <= b
StartAfter(l, b) == \A i \in DOMAIN l : b <= l[i][1]

LEMMA ExtendedOrdered ==
    ASSUME NEW res, Ordered(res), NEW next \in Pair, StartBefore(res, next[1])
    PROVE  LET ext == Time!Extended(res, next)
           IN  /\ Ordered(ext)
               /\ Covered(ext) = Covered(res) \cup Span(next)
               /\ StartBefore(ext, next[1])
               /\ \A b \in Nat : StartAfter(res, b) /\ b <= next[1] => StartAfter(ext, b)
<1> DEFINE ext == Time!Extended(res, next)
           n == Len(res)
<1>1. /\ n \in Nat /\ DOMAIN res = 1..n /\ res \in Seq(Pair)
      /\ next[1] \in Nat /\ next[2] \in Nat /\ next[1] <= next[2]
      /\ \A i \in DOMAIN res : /\ res[i] \in Pair /\ res[i][1] \in Nat /\ res[i][2] \in Nat
                               /\ res[i][1] <= res[i][2] /\ res[i][1] <= next[1]
      /\ \A i, j \in DOMAIN res : i < j => res[i][2] < res[j][1]
  BY DEF Ordered, StartBefore, Pair
<1>2. CASE res # <<>> /\ next[1] <= res[n][2]
  <2> DEFINE last == <<res[n][1], Time!Later(next[2], res[n][2])>>
  <2>1. n \in DOMAIN res
    BY <1>1, <1>2
  <2>2. /\ last \in Pair /\ last[1] = res[n][1] /\ last[2] \in Nat
        /\ last[2] = IF next[2] < res[n][2] THEN res[n][2] ELSE next[2]
    BY <1>1, <2>1 DEF Pair, Time!Later
  <2>3. /\ ext = [res EXCEPT ![n] = last]
        /\ ext \in Seq(Pair) /\ DOMAIN ext = DOMAIN res
        /\ ext[n] = last
        /\ \A i \in DOMAIN res : i # n => ext[i] = res[i]
    <3>1. ext = [res EXCEPT ![n] = last]
      BY <1>2 DEF Time!Extended
    <3> HIDE DEF last, ext
    <3> QED
      BY <1>1, <2>1, <2>2, <3>1
  <2> HIDE DEF ext, last
  <2>4. Ordered(ext)
    <3> SUFFICES ASSUME NEW i \in DOMAIN ext, NEW j \in DOMAIN ext, i < j
                 PROVE  ext[i][2] < ext[j][1]
      BY <2>3 DEF Ordered
    <3>1. i \in DOMAIN res /\ j \in DOMAIN res /\ i # n /\ res[i][2] < res[j][1]
      BY <1>1, <2>3
    <3>2. ext[i] = res[i] /\ ext[j][1] = res[j][1]
      BY <2>2, <2>3, <3>1
    <3> QED
      BY <3>1, <3>2
  <2>5. Span(last) = Span(res[n]) \cup Span(next)
    <3>1. res[n][1] <= next[1] /\ next[1] <= res[n][2] /\ next[1] <= next[2]
            /\ res[n][1] <= res[n][2]
          /\ res[n][1] \in Nat /\ res[n][2] \in Nat /\ next[1] \in Nat /\ next[2] \in Nat
      BY <1>1, <1>2, <2>1
    <3>2. ASSUME NEW t \in Int
          PROVE  t \in Span(last) <=> t \in Span(res[n]) \/ t \in Span(next)
      <4>1. t \in Span(last) <=> last[1] <= t /\ t < last[2]
        BY DEF Span
      <4>2. t \in Span(res[n]) <=> res[n][1] <= t /\ t < res[n][2]
        BY DEF Span
      <4>3. t \in Span(next) <=> next[1] <= t /\ t < next[2]
        BY DEF Span
      <4> QED
        BY <2>2, <3>1, <4>1, <4>2, <4>3
    <3>3. \A p : Span(p) \subseteq Int
      BY DEF Span
    <3> QED
      BY <3>2, <3>3
  <2>6. Covered(ext) = Covered(res) \cup Span(next)
    BY <2>1, <2>3, <2>5 DEF Covered
  <2>7. StartBefore(ext, next[1]) /\ \A b \in Nat : StartAfter(res, b) /\ b <= next[1]
          => StartAfter(ext, b)
    BY <1>1, <2>1, <2>2, <2>3 DEF StartBefore, StartAfter
  <2> QED
    BY <2>4, <2>6, <2>7 DEF ext
<1>3. CASE ~(res # <<>> /\ next[1] <= res[n][2])
  <2>1. /\ ext = Append(res, next) /\ ext \in Seq(Pair) /\ DOMAIN ext = 1..(n + 1)
        /\ ext[n + 1] = next /\ \A i \in DOMAIN res : ext[i] = res[i]
    <3>1. ext = Append(res, next)
      BY <1>3 DEF Time!Extended
    <3> HIDE DEF ext
    <3> QED
      BY <1>1, <3>1
  <2> HIDE DEF ext
  <2>2. \A i \in DOMAIN res : res[i][2] < next[1]
    <3> SUFFICES ASSUME NEW i \in DOMAIN res
                 PROVE  res[i][2] < next[1]
      OBVIOUS
    <3>1. n \in DOMAIN res /\ res[n][2] < next[1]
      BY <1>1, <1>3
    <3>2. CASE i = n
      BY <3>1, <3>2
    <3>3. CASE i < n
      <4>1. res[i][2] < res[n][1]
        BY <1>1, <3>1, <3>3
      <4>2. res[n][1] <= next[1] /\ res[i][2] \in Nat /\ res[n][1] \in Nat /\ next[1] \in Nat
        BY <1>1, <3>1
      <4> QED
        BY <4>1, <4>2
    <3> QED
      BY <1>1, <3>2, <3>3
  <2>3. Ordered(ext)
    <3> SUFFICES ASSUME NEW i \in DOMAIN ext, NEW j \in DOMAIN ext, i < j
                 PROVE  ext[i][2] < ext[j][1]
      BY <2>1 DEF Ordered
    <3>1. i \in DOMAIN res /\ (j \in DOMAIN res \/ j = n + 1)
      BY <1>1, <2>1
    <3>2. CASE j \in DOMAIN res
      <4>1. ext[i] = res[i] /\ ext[j] = res[j] /\ res[i][2] < res[j][1]
        BY <1>1, <2>1, <3>1, <3>2
      <4> QED
        BY <4>1
    <3>3. CASE j = n + 1
      <4>1. ext[i] = res[i] /\ ext[j] = next
        BY <2>1, <3>1, <3>3
      <4> QED
        BY <2>2, <3>1, <4>1
    <3> QED
      BY <3>1, <3>2, <3>3
  <2>4. DOMAIN ext = DOMAIN res \cup {n + 1}
    BY <1>1, <2>1
  <2>5. Covered(ext) = Covered(res) \cup Span(next)
    BY <2>1, <2>4 DEF Covered
  <2>6. StartBefore(ext, next[1]) /\ \A b \in Nat : StartAfter(res, b) /\ b <= next[1]
          => StartAfter(ext, b)
    BY <1>1, <2>1, <2>4 DEF StartBefore, StartAfter
  <2> QED
    BY <2>3, <2>5, <2>6 DEF ext
<1> QED
  BY <1>2, <1>3

LEMMA ExtendedType ==
    ASSUME NEW res \in Seq(Pair), NEW next \in Pair
    PROVE  Time!Extended(res, next) \in Seq(Pair)
<1> DEFINE n == Len(res)
           last == <<res[n][1], Time!Later(next[2], res[n][2])>>
<1>1. CASE res # <<>> /\ next[1] <= res[n][2]
  <2>1. n \in DOMAIN res
    BY <1>1
  <2>2. res[n] \in Pair
    BY <2>1
  <2>3. last \in Pair
    BY <2>2 DEF Pair, Time!Later
  <2>4. Time!Extended(res, next) = [res EXCEPT ![n] = last]
    BY <1>1 DEF Time!Extended
  <2> HIDE DEF last
  <2> QED
    BY <2>1, <2>3, <2>4
<1>2. CASE ~(res # <<>> /\ next[1] <= res[n][2])
  <2>1. Time!Extended(res, next) = Append(res, next)
    BY <1>2 DEF Time!Extended
  <2> QED
    BY <2>1
<1> QED
  BY <1>1, <1>2

(* The ranges of l before the one at i are in res, and begin before the rest. *)
Upto(l, i) == UNION {Span(l[j]) : j \in {k \in DOMAIN l : k < i}}

Halfway(m, one, other) ==
    /\ m.firstIdx \in 1..(Len(one) + 1) /\ m.secondIdx \in 1..(Len(other) + 1)
    /\ m = [firstIdx |-> m.firstIdx, secondIdx |-> m.secondIdx, res |-> m.res]
    /\ Ordered(m.res)
    /\ Covered(m.res) = Upto(one, m.firstIdx) \cup Upto(other, m.secondIdx)
    /\ m.firstIdx <= Len(one) => StartBefore(m.res, one[m.firstIdx][1])
    /\ m.secondIdx <= Len(other) => StartBefore(m.res, other[m.secondIdx][1])
    /\ \A b \in Nat : StartAfter(one, b) /\ StartAfter(other, b) => StartAfter(m.res, b)

LEMMA UptoNext ==
    ASSUME NEW l \in Seq(Pair), NEW i \in DOMAIN l
    PROVE  Upto(l, i + 1) = Upto(l, i) \cup Span(l[i])
<1>1. {k \in DOMAIN l : k < i + 1} = {k \in DOMAIN l : k < i} \cup {i}
  OBVIOUS
<1> QED
  BY <1>1 DEF Upto

(* What begins before the range at i begins before the next one. *)
LEMMA StartsLater ==
    ASSUME NEW l, Ordered(l), NEW i \in DOMAIN l, NEW res, Ordered(res), StartBefore(res, l[i][1]),
           i + 1 <= Len(l)
    PROVE  StartBefore(res, l[i + 1][1])
<1>1. l[i] \in Pair /\ i + 1 \in DOMAIN l /\ l[i + 1] \in Pair /\ i < i + 1
  BY DEF Ordered
<1>2. l[i][2] < l[i + 1][1]
  BY <1>1 DEF Ordered
<1>3. l[i][1] \in Nat /\ l[i][2] \in Nat /\ l[i + 1][1] \in Nat /\ l[i][1] <= l[i][2]
  BY <1>1 DEF Pair
<1>4. \A j \in DOMAIN res : res[j][1] \in Nat
  BY DEF Ordered, Pair
<1> QED
  BY <1>2, <1>3, <1>4 DEF StartBefore

LEMMA StartBeforeLess ==
    ASSUME NEW res, Ordered(res), NEW a \in Nat, NEW b \in Nat, StartBefore(res, a), a <= b
    PROVE  StartBefore(res, b)
<1>1. \A j \in DOMAIN res : res[j][1] \in Nat
  BY DEF Ordered, Pair
<1> QED
  BY <1>1 DEF StartBefore

LEMMA TakenFromFirst ==
    ASSUME NEW one, Ordered(one), NEW other, Ordered(other),
           NEW m, Halfway(m, one, other), m.firstIdx <= Len(one),
           m.secondIdx <= Len(other) => one[m.firstIdx][1] <= other[m.secondIdx][1],
           NEW k, k = [firstIdx |-> m.firstIdx + 1, secondIdx |-> m.secondIdx,
                       res |-> Time!Extended(m.res, one[m.firstIdx])]
    PROVE  Halfway(k, one, other)
<1> DEFINE next == one[m.firstIdx]
<1>1. m.firstIdx \in DOMAIN one /\ next \in Pair /\ one \in Seq(Pair) /\ next[1] \in Nat
  BY DEF Halfway, Ordered, Pair
<1>2. /\ k.firstIdx = m.firstIdx + 1 /\ k.secondIdx = m.secondIdx
           /\ k.res = Time!Extended(m.res, next)
      /\ k = [firstIdx |-> k.firstIdx, secondIdx |-> k.secondIdx, res |-> k.res]
      /\ k.firstIdx \in 1..(Len(one) + 1) /\ k.secondIdx \in 1..(Len(other) + 1)
  <2>1. /\ m = [firstIdx |-> m.firstIdx, secondIdx |-> m.secondIdx, res |-> m.res]
        /\ m.firstIdx \in 1..(Len(one) + 1) /\ m.secondIdx \in 1..(Len(other) + 1)
    BY DEF Halfway
  <2>2. /\ k.firstIdx = m.firstIdx + 1 /\ k.secondIdx = m.secondIdx
             /\ k.res = Time!Extended(m.res, next)
        /\ k = [firstIdx |-> k.firstIdx, secondIdx |-> k.secondIdx, res |-> k.res]
    BY DEF next
  <2>3. m.firstIdx + 1 \in 1..(Len(one) + 1)
    BY <1>1, <2>1
  <2> QED
    BY <2>1, <2>2, <2>3
<1> HIDE DEF next
<1>3. Ordered(m.res) /\ StartBefore(m.res, next[1])
  BY DEF Halfway, next
<1>4. /\ Ordered(k.res) /\ Covered(k.res) = Covered(m.res) \cup Span(next)
      /\ StartBefore(k.res, next[1])
      /\ \A b \in Nat : StartAfter(m.res, b) /\ b <= next[1] => StartAfter(k.res, b)
  BY <1>1, <1>2, <1>3, ExtendedOrdered
<1>5. Covered(k.res) = Upto(one, k.firstIdx) \cup Upto(other, k.secondIdx)
  <2>1. Upto(one, k.firstIdx) = Upto(one, m.firstIdx) \cup Span(next)
    BY <1>1, <1>2, UptoNext DEF next
  <2> QED
    BY <1>2, <1>4, <2>1 DEF Halfway
<1>6. k.firstIdx <= Len(one) => StartBefore(k.res, one[k.firstIdx][1])
  BY <1>1, <1>2, <1>4, StartsLater DEF next
<1>7. k.secondIdx <= Len(other) => StartBefore(k.res, other[k.secondIdx][1])
  <2> SUFFICES ASSUME m.secondIdx <= Len(other)
               PROVE  StartBefore(k.res, other[m.secondIdx][1])
    BY <1>2
  <2>1. m.secondIdx \in DOMAIN other /\ other[m.secondIdx][1] \in Nat
    BY DEF Halfway, Ordered, Pair
  <2>2. next[1] <= other[m.secondIdx][1]
    BY DEF next
  <2> QED
    BY <1>1, <1>4, <2>1, <2>2, StartBeforeLess
<1>8. ASSUME NEW b \in Nat, StartAfter(one, b), StartAfter(other, b)
      PROVE  StartAfter(k.res, b)
  <2>1. StartAfter(m.res, b)
    BY <1>8 DEF Halfway
  <2>2. b <= next[1]
    BY <1>1, <1>8 DEF StartAfter, next
  <2> QED
    BY <1>4, <2>1, <2>2
<1> QED
  BY <1>2, <1>4, <1>5, <1>6, <1>7, <1>8 DEF Halfway

LEMMA TakenKeeps ==
    ASSUME NEW one, Ordered(one), NEW other, Ordered(other),
           NEW m, Halfway(m, one, other),
           m.firstIdx <= Len(one) \/ m.secondIdx <= Len(other)
    PROVE  LET k == Time!Taken(m, one, other)
           IN  Halfway(k, one, other) /\ k.firstIdx + k.secondIdx = m.firstIdx + m.secondIdx + 1
<1> DEFINE k == Time!Taken(m, one, other)
           fromFirst == /\ m.firstIdx <= Len(one)
                        /\ m.secondIdx <= Len(other) => one[m.firstIdx][1] < other[m.secondIdx][1]
<1>0. /\ m.firstIdx \in Nat /\ m.secondIdx \in Nat
      /\ m = [firstIdx |-> m.firstIdx, secondIdx |-> m.secondIdx, res |-> m.res]
      /\ m.firstIdx <= Len(one) => one[m.firstIdx][1] \in Nat
      /\ m.secondIdx <= Len(other) => other[m.secondIdx][1] \in Nat
  BY DEF Halfway, Ordered, Pair
<1>1. CASE fromFirst
  <2>1. k = [firstIdx |-> m.firstIdx + 1, secondIdx |-> m.secondIdx, res |-> Time!Extended(m.res, one[m.firstIdx])]
    BY <1>0, <1>1 DEF Time!Taken
  <2>2. k.firstIdx = m.firstIdx + 1 /\ k.secondIdx = m.secondIdx
    BY <2>1
  <2> HIDE DEF k
  <2>3. m.firstIdx <= Len(one)
          /\ (m.secondIdx <= Len(other) => one[m.firstIdx][1] <= other[m.secondIdx][1])
    BY <1>0, <1>1
  <2>4. Halfway(k, one, other)
    BY <2>1, <2>3, TakenFromFirst
  <2> QED
    BY <1>0, <2>2, <2>4 DEF k
<1>2. CASE ~fromFirst
  <2>1. k = [firstIdx |-> m.firstIdx, secondIdx |-> m.secondIdx + 1, res |-> Time!Extended(m.res, other[m.secondIdx])]
    BY <1>0, <1>2 DEF Time!Taken
  <2>2. k.firstIdx = m.firstIdx /\ k.secondIdx = m.secondIdx + 1
          /\ k.res = Time!Extended(m.res, other[m.secondIdx])
    BY <2>1
  <2> DEFINE n == [firstIdx |-> m.secondIdx, secondIdx |-> m.firstIdx, res |-> m.res]
             l == [firstIdx |-> m.secondIdx + 1, secondIdx |-> m.firstIdx, res |-> Time!Extended(m.res, other[m.secondIdx])]
  <2>3. Halfway(n, other, one)
    BY DEF Halfway
  <2>4. n.firstIdx <= Len(other)
          /\ (n.secondIdx <= Len(one) => other[n.firstIdx][1] <= one[n.secondIdx][1])
    BY <1>0, <1>2
  <2>5. l = [firstIdx |-> n.firstIdx + 1, secondIdx |-> n.secondIdx, res |-> Time!Extended(n.res, other[n.firstIdx])]
    OBVIOUS
  <2>6. Halfway(l, other, one)
    <3> HIDE DEF n, l
    <3> QED
      BY <2>3, <2>4, <2>5, TakenFromFirst
  <2> HIDE DEF k
  <2>7. Halfway(k, one, other)
    BY <2>1, <2>6 DEF Halfway
  <2> QED
    BY <1>0, <2>2, <2>7 DEF k
<1> QED
  BY <1>1, <1>2

(* The two lists become one that covers what they did, in order.           *)
LEMMA Merges ==
    ASSUME NEW one, Ordered(one), NEW other, Ordered(other)
    PROVE  /\ Ordered(Time!Merge(one, other))
           /\ Covered(Time!Merge(one, other)) = Covered(one) \cup Covered(other)
           /\ \A b \in Nat : StartAfter(one, b) /\ StartAfter(other, b)
                             => StartAfter(Time!Merge(one, other), b)
<1> DEFINE top == Len(one) + Len(other)
           start == [firstIdx |-> 1, secondIdx |-> 1, res |-> <<>>]
           M == [firstIdx : 1..(Len(one) + 1), secondIdx : 1..(Len(other) + 1), res : Seq(Pair)]
           more(m) == m.firstIdx <= Len(one) \/ m.secondIdx <= Len(other)
           G == [p \in (1..top) \X M |-> IF more(p[2]) THEN Time!Taken(p[2], one, other) ELSE p[2]]
<1>0. Len(one) \in Nat /\ Len(other) \in Nat /\ top \in Nat /\ one \in Seq(Pair)
        /\ other \in Seq(Pair)
  BY DEF Ordered
<1>1. start \in M
  BY <1>0
<1>2. ASSUME NEW m \in M, more(m)
      PROVE  Time!Taken(m, one, other) \in M
  <2> DEFINE fromFirst == /\ m.firstIdx <= Len(one)
                          /\ m.secondIdx <= Len(other) => one[m.firstIdx][1] < other[m.secondIdx][1]
  <2>1. CASE fromFirst
    <3>1. m.firstIdx \in DOMAIN one /\ one[m.firstIdx] \in Pair
      BY <1>0, <2>1
    <3>2. Time!Extended(m.res, one[m.firstIdx]) \in Seq(Pair)
            /\ m.firstIdx + 1 \in 1..(Len(one) + 1)
      <4>1. m.res \in Seq(Pair)
        OBVIOUS
      <4>2. Time!Extended(m.res, one[m.firstIdx]) \in Seq(Pair)
        BY <3>1, <4>1, ExtendedType
      <4> QED
        BY <1>0, <3>1, <4>2
    <3>3. Time!Taken(m, one, other) = [m EXCEPT !.firstIdx = @ + 1, !.res = Time!Extended(@, one[m.firstIdx])]
      BY <2>1 DEF Time!Taken
    <3> QED
      BY <3>2, <3>3
  <2>2. CASE ~fromFirst
    <3>1. m.secondIdx \in DOMAIN other /\ other[m.secondIdx] \in Pair
      BY <1>0, <1>2, <2>2
    <3>2. Time!Extended(m.res, other[m.secondIdx]) \in Seq(Pair)
            /\ m.secondIdx + 1 \in 1..(Len(other) + 1)
      <4>1. m.res \in Seq(Pair)
        OBVIOUS
      <4>2. Time!Extended(m.res, other[m.secondIdx]) \in Seq(Pair)
        BY <3>1, <4>1, ExtendedType
      <4> QED
        BY <1>0, <3>1, <4>2
    <3>3. Time!Taken(m, one, other) = [m EXCEPT !.secondIdx = @ + 1, !.res = Time!Extended(@, other[m.secondIdx])]
      BY <2>2 DEF Time!Taken
    <3> QED
      BY <3>2, <3>3
  <2> QED
    BY <2>1, <2>2
<1>3a. G \in [(1..top) \X M -> M]
  <2> HIDE DEF M, top, more
  <2> QED
    BY <1>2
<1>3. \A k \in 1..top : \A m \in M : G[<<k, m>>] = IF more(m) THEN Time!Taken(m, one, other) ELSE m
  <2> HIDE DEF M, top, more
  <2> QED
    BY <1>2
<1>4. PICK h : h \in [0..top -> M] /\ h[0] = start /\ \A k \in 1..top : h[k] = G[<<k, h[k - 1]>>]
  <2> HIDE DEF G, M, top, start
  <2>1. Step(G, top, M)
    BY <1>3a DEF Step
  <2>2. \E h : Solved(h, G, top, M, start)
    BY <1>0, <1>1, <2>1, Stepwise
  <2> QED
    BY <2>2 DEF Solved
<1> DEFINE D(f) == [k \in 0..top |-> IF k = 0 THEN start ELSE Time!Taken(f[k - 1], one, other)]
<1>5. \A k \in 0..top : Halfway(h[k], one, other) /\ h[k].firstIdx + h[k].secondIdx = k + 2
  <2> DEFINE S == {k \in 0..top : Halfway(h[k], one, other) /\ h[k].firstIdx + h[k].secondIdx = k + 2}
  <2>1. 0 \in S
    <3>1. Upto(one, 1) = {} /\ Upto(other, 1) = {} /\ Covered(<<>>) = {}
      BY <1>0 DEF Upto, Covered
    <3>2. Ordered(<<>>) /\ \A b : StartBefore(<<>>, b) /\ StartAfter(<<>>, b)
      BY DEF Ordered, StartBefore, StartAfter
    <3>3. start.firstIdx = 1 /\ start.secondIdx = 1 /\ start.res = <<>>
      OBVIOUS
    <3>4. Halfway(start, one, other)
      BY <1>0, <3>1, <3>2, <3>3 DEF Halfway
    <3> QED
      BY <1>0, <1>4, <3>3, <3>4
  <2>2. ASSUME NEW k \in 1..top, k - 1 \in S
        PROVE  k \in S
    <3> DEFINE m == h[k - 1]
    <3>1. k - 1 \in 0..top /\ m \in M /\ Halfway(m, one, other)
            /\ m.firstIdx + m.secondIdx = k + 1 /\ k \in 0..top
      <4>1. k - 1 \in 0..top /\ (k - 1) + 2 = k + 1 /\ k \in 0..top
        BY <1>0
      <4> HIDE DEF top, M, G, start
      <4> QED
        BY <1>4, <2>2, <4>1
    <3>2. more(m)
      BY <1>0, <3>1
    <3>3. h[k] = Time!Taken(m, one, other)
      <4> HIDE DEF M, G, top, more
      <4> QED
        BY <1>3, <1>4, <3>1, <3>2
    <3> HIDE DEF m, top
    <3>4. Halfway(h[k], one, other) /\ h[k].firstIdx + h[k].secondIdx = m.firstIdx + m.secondIdx + 1
      BY <3>1, <3>2, <3>3, TakenKeeps
    <3> QED
      BY <3>1, <3>4
  <2> HIDE DEF S, top
  <2>3. 0..top \subseteq S
    BY <1>0, <2>1, <2>2, StepInduction
  <2> QED
    BY <2>3 DEF S
<1>6. ASSUME NEW k \in 1..top
      PROVE  h[k] = Time!Taken(h[k - 1], one, other)
  <2> DEFINE m == h[k - 1]
  <2>1. k - 1 \in 0..top /\ m \in M /\ m.firstIdx + m.secondIdx = k + 1
    <3>1. k - 1 \in 0..top /\ (k - 1) + 2 = k + 1
      BY <1>0
    <3> HIDE DEF top, M, G, start
    <3> QED
      BY <1>4, <1>5, <3>1
  <2>2. more(m)
    BY <1>0, <2>1
  <2> HIDE DEF M, G, top, more
  <2> QED
    BY <1>3, <1>4, <2>1, <2>2
<1>7. h = D(h)
  <2> HIDE DEF M, G, start
  <2>1. \A k \in 0..top : k = 0 \/ k \in 1..top
    BY <1>0
  <2> HIDE DEF top
  <2> QED
    BY <1>4, <1>6, <2>1
<1> DEFINE merged == CHOOSE f : f = D(f)
<1>8. merged = D(merged)
  <2> HIDE DEF D
  <2> QED
    BY <1>7
<1>9. Time!Merge(one, other) = merged[top].res
  BY DEF Time!Merge
<1>10. \A k \in 0..top : merged[k] = h[k]
  <2> DEFINE S == {k \in 0..top : merged[k] = h[k]}
  <2>0. ASSUME NEW k \in 0..top
        PROVE  merged[k] = IF k = 0 THEN start ELSE Time!Taken(merged[k - 1], one, other)
    <3>1. merged[k] = D(merged)[k]
      BY <1>8
    <3> HIDE DEF merged
    <3> QED
      BY <3>1
  <2> HIDE DEF merged, start
  <2>1. 0 \in S
    BY <1>0, <1>4, <2>0
  <2>2. ASSUME NEW k \in 1..top, k - 1 \in S
        PROVE  k \in S
    <3>1. k \in 0..top /\ k # 0 /\ merged[k - 1] = h[k - 1]
      BY <1>0, <2>2
    <3> HIDE DEF top
    <3> QED
      BY <1>6, <2>0, <3>1
  <2> HIDE DEF S, top
  <2>3. 0..top \subseteq S
    BY <1>0, <2>1, <2>2, StepInduction
  <2> QED
    BY <2>3 DEF S
<1>11. top \in 0..top /\ h[top] \in M
  <2>1. top \in 0..top
    BY <1>0
  <2> HIDE DEF top, M, G
  <2> QED
    BY <1>4, <2>1
<1> DEFINE m == h[top]
<1>12. Time!Merge(one, other) = m.res /\ Halfway(m, one, other)
         /\ m.firstIdx + m.secondIdx = top + 2
  <2> HIDE DEF merged, top
  <2> QED
    BY <1>5, <1>9, <1>10, <1>11
<1>13. m.firstIdx = Len(one) + 1 /\ m.secondIdx = Len(other) + 1
  BY <1>0, <1>11, <1>12
<1>14. Upto(one, Len(one) + 1) = Covered(one) /\ Upto(other, Len(other) + 1) = Covered(other)
  <2>1. {k \in DOMAIN one : k < Len(one) + 1} = DOMAIN one
    <3>1. DOMAIN one = 1..Len(one)
      BY <1>0
    <3>2. \A k \in 1..Len(one) : k < Len(one) + 1
      BY <1>0
    <3> QED
      BY <3>1, <3>2
  <2>2. {k \in DOMAIN other : k < Len(other) + 1} = DOMAIN other
    <3>1. DOMAIN other = 1..Len(other)
      BY <1>0
    <3>2. \A k \in 1..Len(other) : k < Len(other) + 1
      BY <1>0
    <3> QED
      BY <3>1, <3>2
  <2> QED
    BY <2>1, <2>2 DEF Upto, Covered
<1> HIDE DEF m
<1> QED
  BY <1>12, <1>13, <1>14 DEF Halfway

(* A list with one range, which is that of a segment or of nothing. *)
LEMMA OneRange ==
    ASSUME NEW p \in Pair
    PROVE  Ordered(<<p>>) /\ Covered(<<p>>) = Span(p) /\ \A b : StartAfter(<<p>>, b) <=> b <= p[1]
<1>1. <<p>> \in Seq(Pair) /\ DOMAIN <<p>> = {1} /\ <<p>>[1] = p
  OBVIOUS
<1> QED
  BY <1>1 DEF Ordered, Covered, StartAfter

LEMMA NoRange == Ordered(<<>>) /\ Covered(<<>>) = {} /\ \A b : StartAfter(<<>>, b)
BY DEF Ordered, Covered, StartAfter

LEMMA SpanSize ==
    ASSUME NEW a \in Int, NEW b \in Int, a <= b
    PROVE  IsFiniteSet(a..(b - 1)) /\ Cardinality(a..(b - 1)) = b - a
<1> DEFINE c == b - 1
<1>1. c \in Int /\ (a > c <=> a = b) /\ c - a + 1 = b - a
  OBVIOUS
<1> HIDE DEF c
<1>2. IsFiniteSet(a..c) /\ Cardinality(a..c) = IF a > c THEN 0 ELSE c - a + 1
  BY <1>1, FS_Interval
<1> QED
  BY <1>1, <1>2 DEF c

(* The duration that remains is the time outside the ranges. *)
LEMMA RemainingIs ==
    ASSUME NEW s, range[s] \in Pair, NEW l, Ordered(l), StartAfter(l, range[s][1])
    PROVE  Time!Remaining(s, l) = Cardinality(Time!During(s) \ Covered(l))
<1> DEFINE n == Len(l)
           a == range[s][1]
           b == range[s][2]
           over(k) == \E i \in 1..k : l[i][1] >= b
           part(k) == Time!Earlier(l[k][2], b) - l[k][1]
           G == [p \in (1..n) \X Int |-> IF over(p[1]) THEN p[2] ELSE p[2] - part(p[1])]
<1>0. /\ n \in Nat /\ DOMAIN l = 1..n /\ a \in Nat /\ b \in Nat /\ a <= b
      /\ \A i \in 1..n : l[i][1] \in Nat /\ l[i][2] \in Nat /\ l[i][1] <= l[i][2] /\ a <= l[i][1]
      /\ \A i, j \in 1..n : i < j => l[i][2] < l[j][1]
  <2>1. n \in Nat /\ DOMAIN l = 1..n /\ \A i \in 1..n : l[i] \in Pair
    BY DEF Ordered
  <2>2. a \in Nat /\ b \in Nat /\ a <= b
    BY DEF Pair
  <2>3. \A i \in 1..n : l[i][1] \in Nat /\ l[i][2] \in Nat /\ l[i][1] <= l[i][2]
    BY <2>1 DEF Pair
  <2>4. (\A i \in 1..n : a <= l[i][1]) /\ \A i, j \in 1..n : i < j => l[i][2] < l[j][1]
    BY <2>1 DEF Ordered, StartAfter
  <2> QED
    BY <2>1, <2>2, <2>3, <2>4
<1> HIDE DEF n, a, b
<1>1. \A k \in 1..n : part(k) \in Int
  BY <1>0 DEF Time!Earlier
<1>2. /\ G \in [(1..n) \X Int -> Int]
      /\ \A k \in 1..n : \A d \in Int : G[<<k, d>>] = IF over(k) THEN d ELSE d - part(k)
  <2> HIDE DEF over, part
  <2> QED
    BY <1>1
<1>3. b - a \in Int
  BY <1>0
<1>4. PICK h : h \in [0..n -> Int] /\ h[0] = b - a /\ \A k \in 1..n : h[k] = G[<<k, h[k - 1]>>]
  <2> HIDE DEF G
  <2>1. Step(G, n, Int)
    BY <1>2 DEF Step
  <2>2. \E h : Solved(h, G, n, Int, b - a)
    <3> DEFINE d == b - a
    <3> HIDE DEF d
    <3>1. \E h : Solved(h, G, n, Int, d)
      BY <1>0, <1>3, <2>1, Stepwise DEF d
    <3> QED
      BY <3>1 DEF d
  <2> QED
    BY <2>2 DEF Solved
<1> HIDE DEF G
<1>5. ASSUME NEW k \in 1..n
      PROVE  k - 1 \in 0..n /\ k \in 0..n /\ h[k - 1] \in Int
             /\ h[k] = IF over(k) THEN h[k - 1] ELSE h[k - 1] - part(k)
  <2>1. k - 1 \in 0..n /\ k \in 0..n
    BY <1>0
  <2> HIDE DEF over, part
  <2> QED
    BY <1>2, <1>4, <2>1
<1> DEFINE D(f) == [k \in 0..n |-> IF k = 0 THEN b - a ELSE IF over(k) THEN f[k - 1] ELSE f[k - 1] - part(k)]
           duration == CHOOSE f : f = D(f)
<1>6. h = D(h)
  <2>1. \A k \in 0..n : k = 0 \/ k \in 1..n
    BY <1>0
  <2> HIDE DEF over, part
  <2> QED
    BY <1>4, <1>5, <2>1
<1>7. duration = D(duration)
  <2> HIDE DEF D
  <2> QED
    BY <1>6
<1>8. Time!Remaining(s, l) = duration[n]
  BY DEF Time!Remaining, Time!DurationOf, n, a, b
<1>9. ASSUME NEW k \in 0..n
      PROVE  duration[k] = IF k = 0 THEN b - a ELSE IF over(k) THEN duration[k - 1] ELSE duration[k - 1] - part(k)
  <2>1. duration[k] = D(duration)[k]
    BY <1>7
  <2> HIDE DEF duration, over, part
  <2> QED
    BY <2>1
<1> HIDE DEF duration
<1> DEFINE Outside(k) == (a..(b - 1)) \ UNION {Span(l[i]) : i \in 1..k}
           S == {k \in 0..n : IsFiniteSet(Outside(k)) /\ duration[k] = Cardinality(Outside(k))}
<1>10. 0 \in S
  <2>1. Outside(0) = a..(b - 1) /\ 0 \in 0..n
    BY <1>0
  <2>2. duration[0] = b - a
    BY <1>9, <2>1
  <2>3. a \in Int /\ b \in Int /\ a <= b
    BY <1>0
  <2>4. IsFiniteSet(a..(b - 1)) /\ Cardinality(a..(b - 1)) = b - a
    BY <2>3, SpanSize
  <2> HIDE DEF Outside
  <2> QED
    BY <2>1, <2>2, <2>4
<1>11. ASSUME NEW k \in 1..n, k - 1 \in S
       PROVE  k \in S
  <2>1. /\ k - 1 \in 0..n /\ k \in 0..n /\ k # 0 /\ k \in Nat
        /\ IsFiniteSet(Outside(k - 1)) /\ duration[k - 1] = Cardinality(Outside(k - 1))
    BY <1>0, <1>11
  <2>2. Outside(k) = Outside(k - 1) \ Span(l[k])
    <3>1. 1..k = (1..(k - 1)) \cup {k}
      BY <2>1
    <3> QED
      BY <3>1
  <2>3. duration[k] = IF over(k) THEN duration[k - 1] ELSE duration[k - 1] - part(k)
    BY <1>9, <2>1
  <2>4. CASE over(k)
    <3>1. PICK i \in 1..k : l[i][1] >= b
      BY <2>4
    <3>2. i \in 1..n /\ l[k][1] >= b
      <4>1. i \in 1..n /\ (i = k \/ i < k)
        BY <1>0
      <4>2. i < k => l[i][2] < l[k][1] /\ l[i][1] <= l[i][2]
        BY <1>0, <4>1
      <4> QED
        BY <1>0, <3>1, <4>1, <4>2
    <3>3. ASSUME NEW t \in a..(b - 1)
          PROVE  t \notin Span(l[k])
      BY <1>0, <3>2 DEF Span
    <3>4. Outside(k) = Outside(k - 1)
      <4>1. Outside(k - 1) \subseteq a..(b - 1)
        OBVIOUS
      <4> HIDE DEF Outside
      <4> QED
        BY <2>2, <3>3, <4>1
    <3> HIDE DEF Outside, over
    <3> QED
      BY <2>1, <2>3, <2>4, <3>4
  <2>5. CASE ~over(k)
    <3> DEFINE x == l[k][1]
               y == Time!Earlier(l[k][2], b)
               O == Outside(k - 1)
    <3>1. /\ x \in Nat /\ y \in Nat /\ a <= x /\ x < b /\ x <= y /\ y <= b
          /\ y = IF l[k][2] < b THEN l[k][2] ELSE b
      <4>1. l[k][1] \in Nat /\ l[k][2] \in Nat /\ l[k][1] <= l[k][2] /\ a <= l[k][1]
        BY <1>0
      <4>2. l[k][1] < b
        BY <1>0, <2>1, <2>5
      <4> QED
        BY <1>0, <4>1, <4>2 DEF Time!Earlier
    <3>2. \A t \in Int : t \in Span(l[k]) <=> l[k][1] <= t /\ t < l[k][2]
      BY DEF Span
    <3>3. x..(y - 1) \subseteq O
      <4> SUFFICES ASSUME NEW t \in x..(y - 1)
                   PROVE  t \in O
        OBVIOUS
      <4>1. t \in a..(b - 1)
        BY <1>0, <3>1
      <4>2. ASSUME NEW i \in 1..(k - 1)
            PROVE  t \notin Span(l[i])
        <5>1. i \in 1..n /\ i < k /\ l[i][2] < x /\ l[i][2] \in Nat
          BY <1>0
        <5>2. ~(t < l[i][2])
          BY <3>1, <5>1
        <5> QED
          BY <5>2 DEF Span
      <4> QED
        BY <4>1, <4>2
    <3>4. Outside(k) = O \ (x..(y - 1))
      <4>1. ASSUME NEW t \in a..(b - 1)
            PROVE  t \in Span(l[k]) <=> t \in x..(y - 1)
        <5>1. t \in Int /\ t < b
          BY <1>0
        <5>2. l[k][2] \in Nat /\ t \in Span(l[k]) <=> x <= t /\ t < l[k][2]
          BY <1>0, <3>2, <5>1
        <5> HIDE DEF y, x
        <5> QED
          BY <1>0, <3>1, <5>1, <5>2
      <4>2. O \subseteq a..(b - 1)
        OBVIOUS
      <4> HIDE DEF Outside, x, y, O
      <4> QED
        BY <2>2, <4>1, <4>2 DEF O
    <3> HIDE DEF x, y, O
    <3>5. IsFiniteSet(x..(y - 1)) /\ Cardinality(x..(y - 1)) = y - x
      <4>1. x \in Int /\ y \in Int /\ x <= y
        BY <3>1
      <4> QED
        BY <4>1, SpanSize
    <3>6. IsFiniteSet(O) /\ duration[k - 1] = Cardinality(O) /\ Cardinality(O) \in Nat
      <4>1. IsFiniteSet(O) /\ duration[k - 1] = Cardinality(O)
        BY <2>1 DEF O
      <4> QED
        BY <4>1, FS_CardinalityType
    <3> DEFINE X == x..(y - 1)
    <3> HIDE DEF X
    <3>7. IsFiniteSet(O \ X) /\ Cardinality(O \ X) = Cardinality(O) - Cardinality(O \cap X)
      BY <3>6, FS_Difference
    <3>8. O \cap X = X
      BY <3>3 DEF X
    <3>9. duration[k] = duration[k - 1] - (y - x)
      BY <2>3, <2>5 DEF x, y
    <3>10. IsFiniteSet(Outside(k)) /\ duration[k] = Cardinality(Outside(k))
      <4>1. Outside(k) = O \ X
        BY <3>4 DEF X
      <4>2. Cardinality(X) = y - x
        BY <3>5 DEF X
      <4> HIDE DEF Outside
      <4> QED
        BY <3>6, <3>7, <3>8, <3>9, <4>1, <4>2
    <3> QED
      BY <2>1, <3>10
  <2> QED
    BY <2>4, <2>5
<1>12. n \in S
  <2>1. n \in 0..n
    BY <1>0
  <2> HIDE DEF S
  <2>2. 0..n \subseteq S
    BY <1>0, <1>10, <1>11, StepInduction
  <2> QED
    BY <2>1, <2>2
<1>13. Outside(n) = Time!During(s) \ Covered(l)
  BY <1>0 DEF Time!During, Covered, a, b
<1> QED
  <2>1. duration[n] = Cardinality(Outside(n))
    BY <1>12
  <2> HIDE DEF Outside
  <2> QED
    BY <1>8, <1>13, <2>1

-----------------------------------------------------------------------------
(* The tree *)

IsTree ==
    /\ parentOf \in [Time!Segment -> 0..TreeSize] /\ parentOf[Time!Root] = 0
    /\ \A s \in Time!Segment \ {Time!Root} : parentOf[s] \in 1..(s - 1)
    /\ range \in [Time!Segment -> Time!Interval]
    /\ \A s \in Time!Segment \ {Time!Root} : range[parentOf[s]][1] <= range[s][1]

(* The time in which the segments below s ran, and that with s itself. *)
BelowTime(s) == UNION {Time!During(d) : d \in Time!Below(s)}
Whole(s) == Time!During(s) \cup BelowTime(s)

LEMMA RangeFacts ==
    ASSUME IsTree, NEW s \in Time!Segment
    PROVE  range[s] \in Pair /\ range[s][1] \in Nat /\ Time!During(s) = Span(range[s])
<1>1. range[s] \in Time!Interval
  BY DEF IsTree
<1>2. range[s] \in Pair /\ range[s][1] \in Nat /\ range[s][2] \in Nat
  BY <1>1, TimeAssumption DEF Time!Interval, Pair
<1>3. Time!During(s) = Span(range[s])
  BY <1>2 DEF Time!During, Span
<1> QED
  BY <1>2, <1>3

LEMMA ParentIsSegment ==
    ASSUME IsTree, NEW s, NEW c \in Time!Children(s)
    PROVE  /\ c \in Time!Segment /\ c # Time!Root /\ parentOf[c] = s /\ s \in Time!Segment /\ s < c
           /\ range[s][1] <= range[c][1]
BY TimeAssumption DEF IsTree, Time!Children, Time!Segment, Time!Root

LEMMA BelowIsClosed ==
    ASSUME NEW s, NEW x \in Time!Segment \ {Time!Root}, parentOf[x] \in Time!Below(s) \cup {s}
    PROVE  x \in Time!Below(s)
BY DEF Time!Below

LEMMA BelowIsLeast ==
    ASSUME NEW s, NEW S \in SUBSET Time!Segment,
           \A c \in Time!Segment \ {Time!Root} : parentOf[c] \in S \cup {s} => c \in S
    PROVE  Time!Below(s) \subseteq S
BY DEF Time!Below

LEMMA BelowUnfolds ==
    ASSUME NEW s
    PROVE  Time!Below(s) = Time!Children(s) \cup UNION {Time!Below(c) : c \in Time!Children(s)}
<1> DEFINE X == Time!Children(s) \cup UNION {Time!Below(c) : c \in Time!Children(s)}
<1>1. Time!Children(s) \subseteq Time!Below(s)
  BY BelowIsClosed DEF Time!Children
<1>2. ASSUME NEW c \in Time!Children(s)
      PROVE  Time!Below(c) \subseteq Time!Below(s)
  <2>1. Time!Below(s) \in SUBSET Time!Segment
    BY DEF Time!Below
  <2>2. \A x \in Time!Segment \ {Time!Root} : parentOf[x] \in Time!Below(s) \cup {c}
          => x \in Time!Below(s)
    BY <1>1, BelowIsClosed
  <2> QED
    BY <2>1, <2>2, BelowIsLeast
<1>3. X \in SUBSET Time!Segment
  BY DEF Time!Children, Time!Below
<1>4. ASSUME NEW x \in Time!Segment \ {Time!Root}, parentOf[x] \in X \cup {s}
      PROVE  x \in X
  <2>1. CASE parentOf[x] = s
    BY <2>1 DEF Time!Children
  <2>2. CASE parentOf[x] \in Time!Children(s)
    <3>1. x \in Time!Below(parentOf[x])
      BY BelowIsClosed
    <3> QED
      BY <2>2, <3>1
  <2>3. ASSUME NEW c \in Time!Children(s), parentOf[x] \in Time!Below(c)
        PROVE  x \in X
    <3>1. x \in Time!Below(c)
      BY <2>3, BelowIsClosed
    <3> QED
      BY <3>1
  <2> QED
    BY <1>4, <2>1, <2>2, <2>3
<1>5. Time!Below(s) \subseteq X
  <2> HIDE DEF X
  <2> QED
    BY <1>3, <1>4, BelowIsLeast
<1> QED
  BY <1>1, <1>2, <1>5

LEMMA TimeUnfolds ==
    ASSUME NEW s
    PROVE  BelowTime(s) = UNION {Whole(c) : c \in Time!Children(s)}
BY BelowUnfolds DEF BelowTime, Whole

LEMMA AllAreBelow ==
    ASSUME IsTree
    PROVE  Time!Segment \subseteq {Time!Root} \cup Time!Below(Time!Root)
<1> DEFINE S == {Time!Root} \cup Time!Below(Time!Root)
           order == [s \in Time!Segment |-> s]
<1>1. order \in [Time!Segment -> Nat]
  BY TimeAssumption DEF Time!Segment
<1>2. ASSUME NEW s \in Time!Segment, \A r \in Time!Segment : order[r] < order[s] => r \in S
      PROVE  s \in S
  <2>1. CASE s = Time!Root
    BY <2>1
  <2>2. CASE s # Time!Root
    <3>1. parentOf[s] \in Time!Segment /\ parentOf[s] < s
      BY <2>2, TimeAssumption DEF IsTree, Time!Segment, Time!Root
    <3>2. parentOf[s] \in S
      BY <1>2, <3>1
    <3>3. s \in Time!Below(Time!Root)
      BY <2>2, <3>2, BelowIsClosed
    <3> QED
      BY <3>3
  <2> QED
    BY <2>1, <2>2
<1> HIDE DEF S, order
<1>3. Time!Segment \subseteq S
  BY <1>1, <1>2, RankInduction
<1> QED
  BY <1>3 DEF S

LEMMA RightValue ==
    ASSUME NEW s
    PROVE  Time!During(s) \ BelowTime(s) = {t \in Time!During(s) : \A d \in Time!Below(s) : t \notin Time!During(d)}
BY DEF BelowTime

-----------------------------------------------------------------------------
(* The walk *)

LEMMA SameSizes == \A S : Time!Cardinality(S) = Cardinality(S)
BY DEF Time!Cardinality, Cardinality

Parents == DOMAIN parentStack
Open == {parentStack[i].segment : i \in Parents}
Due == {left[j] : j \in DOMAIN left}
Unfinished(s) == Time!Children(s) \cap (Due \cup Open)
Finished(s) == Time!Children(s) \ (Due \cup Open)
RightOf(s) == Cardinality(Time!During(s) \ BelowTime(s))

ParentEntry == [childrenLeft : Nat, segment : Time!Segment, childPairs : Seq(Pair)]

LeftInv ==
    /\ left \in Seq(Time!Segment)
    /\ \A j, k \in DOMAIN left : j < k => left[j] # left[k]
         /\ parentOf[left[k]] <= parentOf[left[j]]
    /\ parentStack = <<>> => left = <<>> \/ left = <<Time!Root>>
    /\ parentStack # <<>> => \A j \in DOMAIN left : left[j] # Time!Root
         /\ parentOf[left[j]] \in Open
    /\ Due \cap Open = {}

StackInv ==
    /\ parentStack \in Seq(ParentEntry)
    /\ \A i, j \in Parents : i < j => parentStack[i].segment < parentStack[j].segment
    /\ \A i \in Parents : i > 1
         => parentStack[i].segment \in Time!Children(parentStack[i - 1].segment)

CountsInv ==
    \A i \in Parents : \A s \in Time!Segment : s = parentStack[i].segment =>
        /\ Unfinished(s) # {}
        /\ parentStack[i].childrenLeft = Cardinality(Unfinished(s))

PairsInv ==
    \A i \in Parents : \A s \in Time!Segment : s = parentStack[i].segment =>
        /\ Ordered(parentStack[i].childPairs) /\ StartAfter(parentStack[i].childPairs, range[s][1])
        /\ Covered(parentStack[i].childPairs) = UNION {Whole(c) : c \in Finished(s)}

ValuesInv ==
    /\ exclusive \in [Time!Segment -> Int]
    /\ \A s \in Time!Segment : \/ s \in Due \cup Open
                               \/ \E d \in Due : s \in Time!Below(d)
                               \/ exclusive[s] = RightOf(s)

WalkInv == IsTree /\ LeftInv /\ StackInv /\ CountsInv /\ PairsInv /\ ValuesInv

LEMMA WalkInit == Time!Init => WalkInv
<1> SUFFICES ASSUME Time!Init
             PROVE  WalkInv
  OBVIOUS
<1>1. IsTree
  BY TimeAssumption DEF Time!Init, IsTree, Time!Segment, Time!Root, Time!Interval
<1>2. left = <<Time!Root>> /\ left \in Seq(Time!Segment) /\ DOMAIN left = {1} /\ left[1] = Time!Root
      /\ parentStack = <<>> /\ Parents = {} /\ parentStack \in Seq(ParentEntry)
  BY TimeAssumption DEF Time!Init, Time!Segment, Time!Root, Parents
<1>3. Open = {} /\ Due = {Time!Root}
  BY <1>2 DEF Open, Due
<1>4. LeftInv /\ StackInv /\ CountsInv /\ PairsInv
  BY <1>2, <1>3 DEF LeftInv, StackInv, CountsInv, PairsInv
<1>5. ValuesInv
  <2>1. exclusive \in [Time!Segment -> Int]
    BY DEF Time!Init
  <2> QED
    BY <1>1, <1>3, <2>1, AllAreBelow DEF ValuesInv
<1> QED
  BY <1>1, <1>4, <1>5 DEF WalkInv

(* The node at hand is a child of the topmost parent. *)
LEMMA HeadFacts ==
    ASSUME WalkInv, left # <<>>
    PROVE  /\ Head(left) = left[1] /\ Head(left) \in Time!Segment /\ Head(left) \in Due
                /\ Head(left) \notin Open
           /\ Tail(left) \in Seq(Time!Segment)
           /\ DOMAIN Tail(left) = 1..(Len(left) - 1) /\ DOMAIN left = 1..Len(left)
                /\ Len(left) \in Nat \ {0}
           /\ \A j \in DOMAIN Tail(left) : j + 1 \in DOMAIN left /\ Tail(left)[j] = left[j + 1]
           /\ {Tail(left)[j] : j \in DOMAIN Tail(left)} = Due \ {Head(left)}
           /\ parentStack # <<>> =>
                 /\ Head(left) # Time!Root /\ Len(parentStack) \in Parents
                 /\ Head(left) \in Time!Children(parentStack[Len(parentStack)].segment)
           /\ \A q \in Open : q \in Nat /\ q < Head(left)
<1>1. /\ left \in Seq(Time!Segment) /\ Len(left) \in Nat \ {0} /\ DOMAIN left = 1..Len(left)
      /\ Head(left) = left[1] /\ left[1] \in Time!Segment
      /\ Tail(left) \in Seq(Time!Segment) /\ DOMAIN Tail(left) = 1..(Len(left) - 1)
      /\ \A j \in DOMAIN Tail(left) : j + 1 \in DOMAIN left /\ Tail(left)[j] = left[j + 1]
  <2>1. left \in Seq(Time!Segment)
    BY DEF WalkInv, LeftInv
  <2> QED
    BY <2>1
<1>2. Head(left) \in Due /\ Head(left) \notin Open
  BY <1>1 DEF Due, WalkInv, LeftInv
<1>3. {Tail(left)[j] : j \in DOMAIN Tail(left)} = Due \ {Head(left)}
  <2>1. \A j \in DOMAIN left : j # 1 => left[j] # left[1]
    BY <1>1 DEF WalkInv, LeftInv
  <2>2. \A j \in DOMAIN Tail(left) : Tail(left)[j] \in Due \ {Head(left)}
    <3>1. \A j \in DOMAIN Tail(left) : j + 1 \in DOMAIN left /\ j + 1 # 1
      BY <1>1
    <3> QED
      BY <1>1, <2>1, <3>1 DEF Due
  <2>3. ASSUME NEW d \in Due \ {Head(left)}
        PROVE  \E j \in DOMAIN Tail(left) : d = Tail(left)[j]
    <3>1. PICK k \in DOMAIN left : d = left[k]
      BY DEF Due
    <3>2. k # 1 /\ k \in 1..Len(left)
      BY <1>1, <3>1
    <3>3. k - 1 \in DOMAIN Tail(left) /\ (k - 1) + 1 = k
      BY <1>1, <3>2
    <3> QED
      BY <1>1, <3>1, <3>3
  <2> QED
    BY <2>2, <2>3
<1>4. ASSUME parentStack # <<>>
      PROVE  /\ Head(left) # Time!Root /\ Len(parentStack) \in Parents
             /\ Head(left) \in Time!Children(parentStack[Len(parentStack)].segment)
             /\ \A q \in Open : q \in Nat /\ q < Head(left)
  <2> DEFINE top == Len(parentStack)
             p == parentStack[top].segment
  <2>1. top \in Parents /\ Parents = 1..top /\ top \in Nat
    BY <1>4 DEF WalkInv, StackInv, Parents
  <2>1a. p \in Time!Segment
    <3>1. parentStack[top] \in ParentEntry
      BY <2>1 DEF WalkInv, StackInv, Parents
    <3> QED
      BY <3>1 DEF ParentEntry
  <2>2. PICK c : c \in Unfinished(p)
    BY <2>1, <2>1a DEF WalkInv, CountsInv
  <2>3. parentOf[c] = p /\ c \in Time!Segment /\ p < c
    <3>1. c \in Time!Children(p)
      BY <2>2 DEF Unfinished
    <3> QED
      BY <3>1, ParentIsSegment DEF WalkInv
  <2>4. \A q \in Open : q \in Nat /\ q <= p
    <3> SUFFICES ASSUME NEW i \in Parents
                 PROVE  parentStack[i].segment \in Nat /\ parentStack[i].segment <= p
      BY DEF Open
    <3>1. parentStack[i].segment \in Time!Segment /\ p \in Time!Segment
      <4>1. parentStack[i] \in ParentEntry /\ parentStack[top] \in ParentEntry
        BY <2>1 DEF WalkInv, StackInv, Parents
      <4> QED
        BY <4>1 DEF ParentEntry
    <3>2. i < top => parentStack[i].segment < p
      BY <2>1 DEF WalkInv, StackInv
    <3> QED
      BY <2>1, <3>1, <3>2 DEF Time!Segment
  <2>5. c \in Due
    <3>1. c \in Time!Segment /\ p \in Nat
      BY <2>1, <2>3, <2>4 DEF Open
    <3>2. c \notin Open
      BY <2>3, <2>4, <3>1 DEF Time!Segment
    <3> QED
      BY <2>2, <3>2 DEF Unfinished
  <2>6. PICK k \in DOMAIN left : c = left[k]
    BY <2>5 DEF Due
  <2>7. p <= parentOf[left[1]]
    <3>1. k = 1 \/ 1 < k
      BY <1>1
    <3>2. 1 \in DOMAIN left
      BY <1>1
    <3>3. p \in Nat
      BY <2>1, <2>4 DEF Open
    <3>4. 1 < k => parentOf[left[k]] <= parentOf[left[1]]
      BY <3>2 DEF WalkInv, LeftInv
    <3> QED
      BY <2>3, <2>6, <3>1, <3>3, <3>4
  <2>8. left[1] # Time!Root /\ parentOf[left[1]] \in Open
    <3>1. 1 \in DOMAIN left
      BY <1>1
    <3> QED
      BY <1>4, <3>1 DEF WalkInv, LeftInv
  <2>9. parentOf[left[1]] = p
    <3>1. p \in Nat /\ parentOf[left[1]] \in Nat /\ parentOf[left[1]] <= p
      BY <2>1, <2>4, <2>8 DEF Open
    <3> QED
      BY <2>7, <3>1
  <2>10. left[1] \in Time!Children(p)
    BY <1>1, <2>8, <2>9 DEF Time!Children
  <2>11. p < left[1]
    BY <2>10, ParentIsSegment DEF WalkInv
  <2>12. ASSUME NEW q \in Open
         PROVE  q \in Nat /\ q < left[1]
    <3>1. q \in Nat /\ q <= p /\ p \in Nat /\ left[1] \in Nat
      BY <1>1, <2>1, <2>4 DEF Open, Time!Segment
    <3> QED
      BY <2>11, <3>1
  <2> QED
    BY <1>1, <2>1, <2>8, <2>10, <2>12
<1>5. parentStack = <<>> => Open = {}
  BY DEF Open, Parents
<1> QED
  BY <1>1, <1>2, <1>3, <1>4, <1>5

LEMMA TreeStays ==
    ASSUME UNCHANGED <<parentOf, range>>
    PROVE  /\ IsTree => IsTree'
           /\ \A s : /\ Time!Children(s)' = Time!Children(s) /\ Time!Below(s)' = Time!Below(s)
                    /\ Whole(s)' = Whole(s) /\ RightOf(s)' = RightOf(s)
<1>1. IsTree => IsTree'
  BY DEF IsTree
<1>2. \A s : Time!Children(s)' = Time!Children(s) /\ Time!Below(s)' = Time!Below(s)
        /\ Time!During(s)' = Time!During(s)
  BY DEF Time!Children, Time!Below, Time!During
<1>3. \A s : BelowTime(s)' = BelowTime(s)
  BY <1>2 DEF BelowTime
<1> QED
  BY <1>1, <1>2, <1>3 DEF Whole, RightOf

LEMMA ChildrenFinite ==
    ASSUME NEW s
    PROVE  /\ IsFiniteSet(Time!Children(s)) /\ Cardinality(Time!Children(s)) \in Nat
           /\ IsFiniteSet(Unfinished(s)) /\ Cardinality(Unfinished(s)) \in Nat
<1>1. IsFiniteSet(Time!Segment)
  <2>1. 1 \in Int /\ TreeSize \in Int
    BY TimeAssumption
  <2> QED
    BY <2>1, FS_Interval DEF Time!Segment
<1>2. Time!Children(s) \in SUBSET Time!Segment /\ Unfinished(s) \in SUBSET Time!Segment
  BY DEF Time!Children, Unfinished
<1>3. IsFiniteSet(Time!Children(s)) /\ IsFiniteSet(Unfinished(s))
  BY <1>1, <1>2, FS_Subset
<1> QED
  BY <1>3, FS_CardinalityType

(* A list of the children in descending order has all of them. *)
Descends(q, n, C) == q \in [1..n -> C] /\ \A i, j \in 1..n : i < j => q[i] > q[j]

LEMMA ListIsComplete ==
    ASSUME NEW C \in SUBSET Nat, IsFiniteSet(C), NEW q, Descends(q, Cardinality(C), C)
    PROVE  Cardinality(C) \in Nat /\ \A c \in C : \E i \in 1..Cardinality(C) : q[i] = c
<1> DEFINE n == Cardinality(C)
<1> HIDE DEF n
<1>0. q \in [1..n -> C] /\ \A i, j \in 1..n : i < j => q[i] > q[j]
  BY DEF Descends, n
<1>1. n \in Nat
  BY FS_CardinalityType DEF n
<1> DEFINE D == 1..n
<1>2. \A i, j \in D : i # j => q[i] # q[j]
  <2> SUFFICES ASSUME NEW i \in D, NEW j \in D, i # j
               PROVE  q[i] # q[j]
    OBVIOUS
  <2>1. i < j \/ j < i
    BY <1>1
  <2>2. q[i] \in Nat /\ q[j] \in Nat
    BY <1>0
  <2> QED
    BY <1>0, <2>1, <2>2
<1>3. IsFiniteSet(D) /\ Cardinality(D) = n
  <2>1. 1 \in Int /\ n \in Int
    BY <1>1
  <2>2. IsFiniteSet(1..n) /\ Cardinality(1..n) = IF 1 > n THEN 0 ELSE n - 1 + 1
    BY <2>1, FS_Interval
  <2> QED
    BY <1>1, <2>2
<1> HIDE DEF D
<1>4. q \in Injection(D, C)
  BY <1>0, <1>2 DEF Injection, IsInjective, D
<1>5. q \in Surjection(D, C)
  BY <1>3, <1>4, FS_Injection DEF n
<1> QED
  BY <1>1, <1>5 DEF Surjection, D, n

LEMMA ParentKeeps ==
    ASSUME WalkInv, Time!ProcessParent
    PROVE  WalkInv'
<1>s. PICK s : s = Head(left)
  OBVIOUS
<1> DEFINE C == Time!Children(s)
           n == Cardinality(C)
           m == Len(left)
           top == Len(parentStack)
           e == [childrenLeft |-> n, segment |-> s, childPairs |-> <<>>]
<1>0. IsTree /\ LeftInv /\ StackInv /\ CountsInv /\ PairsInv /\ ValuesInv
  BY DEF WalkInv
<1>1. /\ left # <<>> /\ C # {} /\ parentStack' = Append(parentStack, e)
      /\ UNCHANGED <<parentOf, range>> /\ UNCHANGED exclusive
  BY <1>s, SameSizes DEF Time!ProcessParent
<1>2. PICK q \in [1..n -> C] : (\A i, j \in 1..n : i < j => q[i] > q[j]) /\ left' = q \o Tail(left)
  BY <1>s, SameSizes DEF Time!ProcessParent
<1>3. /\ s = left[1] /\ s \in Time!Segment /\ s \in Due /\ s \notin Open
      /\ Tail(left) \in Seq(Time!Segment)
      /\ DOMAIN Tail(left) = 1..(m - 1) /\ DOMAIN left = 1..m /\ m \in Nat \ {0}
      /\ \A j \in 1..(m - 1) : j + 1 \in 1..m /\ Tail(left)[j] = left[j + 1]
      /\ {Tail(left)[j] : j \in 1..(m - 1)} = Due \ {s}
      /\ parentStack # <<>> => s \in Time!Children(parentStack[top].segment) /\ top \in Parents
      /\ \A p \in Open : p \in Nat /\ p < s
  <2>1. /\ Head(left) = left[1] /\ Head(left) \in Time!Segment /\ Head(left) \in Due
             /\ Head(left) \notin Open
        /\ Tail(left) \in Seq(Time!Segment)
        /\ DOMAIN Tail(left) = 1..(Len(left) - 1) /\ DOMAIN left = 1..Len(left)
             /\ Len(left) \in Nat \ {0}
        /\ \A j \in DOMAIN Tail(left) : j + 1 \in DOMAIN left /\ Tail(left)[j] = left[j + 1]
        /\ {Tail(left)[j] : j \in DOMAIN Tail(left)} = Due \ {Head(left)}
        /\ parentStack # <<>> => Head(left) \in Time!Children(parentStack[Len(parentStack)].segment)
                                 /\ Len(parentStack) \in Parents
        /\ \A p \in Open : p \in Nat /\ p < Head(left)
    BY <1>1, HeadFacts
  <2> QED
    BY <1>s, <2>1
<1>4. \A c \in C : c \in Time!Segment /\ c # Time!Root /\ parentOf[c] = s /\ s < c /\ c \in Nat
        /\ s \in Nat
  <2>1. \A c \in C : c \in Time!Segment /\ c # Time!Root /\ parentOf[c] = s /\ s < c
    BY <1>0, ParentIsSegment
  <2> QED
    BY <1>3, <2>1 DEF Time!Segment
<1>5. n \in Nat /\ \A c \in C : \E i \in 1..n : q[i] = c
  <2>1. C \in SUBSET Nat
    BY <1>4
  <2>2. IsFiniteSet(C)
    BY ChildrenFinite
  <2>3. Descends(q, Cardinality(C), C)
    BY <1>2 DEF Descends
  <2> HIDE DEF C
  <2>4. Cardinality(C) \in Nat
    BY <2>2, FS_CardinalityType
  <2>5. \A c \in C : \E i \in 1..Cardinality(C) : q[i] = c
    BY <2>1, <2>2, <2>3, ListIsComplete
  <2> QED
    BY <2>4, <2>5
<1> HIDE DEF C, n, m, e, top
<1>6. /\ left' \in Seq(Time!Segment) /\ DOMAIN left' = 1..(n + (m - 1))
      /\ \A j \in 1..n : left'[j] = q[j]
      /\ \A j \in 1..(m - 1) : left'[n + j] = left[j + 1]
  <2>1. Len(Tail(left)) = m - 1
    BY <1>3
  <2>2. q \in Seq(Time!Segment) /\ Len(q) = n
    BY <1>2, <1>4, <1>5
  <2> DEFINE r == Tail(left)
  <2>2a. r \in Seq(Time!Segment) /\ left' = q \o r /\ Len(r) = m - 1
    BY <1>2, <1>3, <2>1
  <2>3. left' \in Seq(Time!Segment) /\ Len(left') = n + (m - 1)
    <3> HIDE DEF r
    <3>1. q \o r \in Seq(Time!Segment) /\ Len(q \o r) = Len(q) + Len(r)
      BY <2>2, <2>2a, ConcatProperties
    <3> QED
      BY <2>2, <2>2a, <3>1
  <2>4. \A j \in 1..n : left'[j] = q[j]
    BY <1>2, <1>3, <1>5, <2>1, <2>2
  <2>5. \A j \in 1..(m - 1) : left'[n + j] = Tail(left)[j]
    BY <1>2, <1>3, <1>5, <2>1, <2>2
  <2> QED
    BY <1>3, <2>3, <2>4, <2>5
<1>7. Due' = C \cup (Due \ {s})
  <2>1. Due' = {left'[j] : j \in 1..(n + (m - 1))}
    BY <1>6 DEF Due
  <2>2. \A j \in 1..(n + (m - 1)) : j \in 1..n \/ \E k \in 1..(m - 1) : j = n + k
    <3> SUFFICES ASSUME NEW j \in 1..(n + (m - 1)), j \notin 1..n
                 PROVE  \E k \in 1..(m - 1) : j = n + k
      OBVIOUS
    <3>1. j - n \in 1..(m - 1) /\ j = n + (j - n)
      BY <1>3, <1>5
    <3> QED
      BY <3>1
  <2>3. (\A k \in 1..(m - 1) : n + k \in 1..(n + (m - 1))) /\ \A k \in 1..n : k \in 1..(n + (m - 1))
    BY <1>3, <1>5
  <2>4. Due \ {s} = {left[j + 1] : j \in 1..(m - 1)}
    <3>1. {Tail(left)[j] : j \in 1..(m - 1)} = {left[j + 1] : j \in 1..(m - 1)}
      BY <1>3
    <3> QED
      BY <1>3, <3>1
  <2>5. Due' \subseteq C \cup (Due \ {s})
    <3> SUFFICES ASSUME NEW j \in 1..(n + (m - 1))
                 PROVE  left'[j] \in C \cup (Due \ {s})
      BY <2>1
    <3>1. j \in 1..n => left'[j] \in C
      BY <1>2, <1>6
    <3>2. ASSUME NEW k \in 1..(m - 1), j = n + k
          PROVE  left'[j] \in Due \ {s}
      BY <1>6, <2>4, <3>2
    <3> QED
      BY <2>2, <3>1, <3>2
  <2>6. C \subseteq Due'
    BY <1>5, <1>6, <2>1, <2>3
  <2>7. Due \ {s} \subseteq Due'
    BY <1>6, <2>1, <2>3, <2>4
  <2> QED
    BY <2>5, <2>6, <2>7
<1>8. /\ parentStack' \in Seq(ParentEntry) /\ top \in Nat /\ Parents = 1..top
      /\ Parents' = 1..(top + 1) /\ parentStack'[top + 1] = e
      /\ \A i \in Parents : i \in Parents' /\ parentStack'[i] = parentStack[i]
      /\ \A i \in Parents' : i \in Parents \/ i = top + 1
      /\ e.segment = s /\ e.childrenLeft = n /\ e.childPairs = <<>>
  <2>1. parentStack \in Seq(ParentEntry) /\ top \in Nat /\ Parents = 1..top
    BY <1>0 DEF StackInv, Parents, top
  <2>2. e \in ParentEntry /\ e.segment = s /\ e.childrenLeft = n /\ e.childPairs = <<>>
    BY <1>3, <1>5 DEF e, ParentEntry
  <2>3. /\ parentStack' \in Seq(ParentEntry) /\ DOMAIN parentStack' = 1..(top + 1)
        /\ parentStack'[top + 1] = e /\ \A i \in 1..top : parentStack'[i] = parentStack[i]
    BY <1>1, <2>1, <2>2 DEF top
  <2> QED
    BY <2>1, <2>2, <2>3 DEF Parents
<1>9. Open' = Open \cup {s}
  BY <1>8 DEF Open
<1>10. /\ IsTree'
       /\ \A x : /\ Time!Children(x)' = Time!Children(x) /\ Time!Below(x)' = Time!Below(x)
                 /\ Whole(x)' = Whole(x) /\ RightOf(x)' = RightOf(x)
  BY <1>0, <1>1, TreeStays
<1>11. parentOf[s] < s /\ parentOf[s] \in Nat
  BY <1>0, <1>3, TimeAssumption DEF IsTree, Time!Segment, Time!Root
<1>12. ASSUME NEW k \in 1..(m - 1)
       PROVE  /\ left[k + 1] \in Time!Segment /\ parentOf[left[k + 1]] <= parentOf[s]
                   /\ left[k + 1] # s
              /\ parentOf[left[k + 1]] \in Nat /\ parentOf[left[k + 1]] < s
  <2>1. k + 1 \in DOMAIN left /\ 1 \in DOMAIN left /\ 1 < k + 1
    BY <1>3
  <2>2. left[k + 1] \in Time!Segment /\ parentOf[left[k + 1]] <= parentOf[s] /\ left[k + 1] # s
    BY <1>0, <1>3, <2>1 DEF LeftInv
  <2>3. parentOf[left[k + 1]] \in Nat /\ s \in Nat
    BY <1>0, <1>3, <2>2, TimeAssumption DEF IsTree, Time!Segment
  <2> QED
    BY <1>11, <2>2, <2>3
<1>13. C \cap Open = {} /\ s \notin C
  BY <1>3, <1>4
<1>14. LeftInv'
  <2>1. ASSUME NEW j \in DOMAIN left', NEW k \in DOMAIN left', j < k
        PROVE  left'[j] # left'[k] /\ parentOf[left'[k]] <= parentOf[left'[j]]
    <3>1. CASE j \in 1..n /\ k \in 1..n
      <4>1. left'[j] = q[j] /\ left'[k] = q[k] /\ q[j] \in C /\ q[k] \in C /\ q[j] > q[k]
        BY <1>2, <1>6, <2>1, <3>1
      <4> QED
        BY <1>4, <4>1
    <3>2. CASE j \in 1..n /\ k \notin 1..n
      <4>1. k - n \in 1..(m - 1) /\ k = n + (k - n)
        BY <1>3, <1>5, <1>6, <3>2
      <4>2. PICK l \in 1..(m - 1) : k = n + l
        BY <4>1
      <4>3. left'[j] \in C /\ left'[k] = left[l + 1]
        BY <1>2, <1>6, <3>2, <4>2
      <4>4. parentOf[left'[j]] = s /\ parentOf[left'[k]] < s /\ s \in Nat
              /\ parentOf[left'[k]] \in Nat
        BY <1>4, <1>12, <4>3
      <4> QED
        BY <4>4
    <3>3. CASE j \notin 1..n /\ k \notin 1..n
      <4>1. k - n \in 1..(m - 1) /\ k = n + (k - n) /\ j - n \in 1..(m - 1) /\ j = n + (j - n)
        BY <1>3, <1>5, <1>6, <3>3
      <4>2. PICK l \in 1..(m - 1) : k = n + l
        BY <4>1
      <4>3. PICK i \in 1..(m - 1) : j = n + i
        BY <4>1
      <4>4. left'[j] = left[i + 1] /\ left'[k] = left[l + 1]
        BY <1>6, <4>2, <4>3
      <4>5. i + 1 \in DOMAIN left /\ l + 1 \in DOMAIN left /\ i + 1 < l + 1
        BY <1>3, <1>5, <2>1, <4>2, <4>3
      <4> QED
        BY <1>0, <4>4, <4>5 DEF LeftInv
    <3>4. CASE j \notin 1..n /\ k \in 1..n
      BY <1>3, <1>5, <1>6, <2>1, <3>4
    <3> QED
      BY <3>1, <3>2, <3>3, <3>4
  <2>2. ASSUME NEW j \in DOMAIN left'
        PROVE  left'[j] # Time!Root /\ parentOf[left'[j]] \in Open'
    <3>1. CASE j \in 1..n
      BY <1>2, <1>4, <1>6, <1>9, <3>1
    <3>2. CASE j \notin 1..n
      <4>1. j - n \in 1..(m - 1) /\ j = n + (j - n)
        BY <1>3, <1>5, <1>6, <3>2
      <4>2. PICK i \in 1..(m - 1) : j = n + i
        BY <4>1
      <4>3. left'[j] = left[i + 1] /\ i + 1 \in DOMAIN left /\ i + 1 # 1
        BY <1>3, <1>6, <4>2
      <4>4. parentStack # <<>>
        <5> SUFFICES ASSUME parentStack = <<>>
                     PROVE  FALSE
          OBVIOUS
        <5>1. left = <<>> \/ left = <<Time!Root>>
          BY <1>0 DEF LeftInv
        <5> QED
          BY <4>3, <5>1
      <4> QED
        BY <1>0, <1>9, <4>3, <4>4 DEF LeftInv
    <3> QED
      BY <3>1, <3>2
  <2>3. Due' \cap Open' = {}
    BY <1>0, <1>7, <1>9, <1>13 DEF LeftInv
  <2>4. parentStack' # <<>>
    BY <1>8 DEF Parents
  <2> QED
    BY <1>1, <1>6, <2>1, <2>2, <2>3, <2>4 DEF LeftInv
<1>15. StackInv'
  <2>1. ASSUME NEW i \in Parents', NEW j \in Parents', i < j
        PROVE  parentStack'[i].segment < parentStack'[j].segment
    <3>1. i \in Parents
      BY <1>8, <2>1
    <3>2. CASE j \in Parents
      BY <1>0, <1>8, <2>1, <3>1, <3>2 DEF StackInv
    <3>3. CASE j = top + 1
      BY <1>3, <1>8, <3>1, <3>3 DEF Open
    <3> QED
      BY <1>8, <3>2, <3>3
  <2>2. ASSUME NEW i \in Parents', i > 1
        PROVE  parentStack'[i].segment \in Time!Children(parentStack'[i - 1].segment)
    <3>1. CASE i \in Parents
      <4>1. i - 1 \in Parents
        BY <1>8, <2>2, <3>1
      <4> QED
        BY <1>0, <1>8, <2>2, <3>1, <4>1 DEF StackInv
    <3>2. CASE i = top + 1
      <4>1. i - 1 = top /\ top \in Parents /\ parentStack # <<>>
        BY <1>8, <2>2, <3>2 DEF Parents
      <4> QED
        BY <1>3, <1>8, <3>2, <4>1
    <3> QED
      BY <1>8, <3>1, <3>2
  <2> QED
    BY <1>8, <1>10, <2>1, <2>2 DEF StackInv
<1>16. Due' \cup Open' = Due \cup Open \cup C
  BY <1>3, <1>7, <1>9
<1>17. ASSUME NEW p \in Open
       PROVE  Unfinished(p)' = Unfinished(p) /\ Finished(p)' = Finished(p)
  <2>1. Time!Children(p)' = Time!Children(p) /\ Time!Children(p) \cap C = {}
    <3>1. \A c \in Time!Children(p) : parentOf[c] = p
      BY DEF Time!Children
    <3> QED
      BY <1>3, <1>4, <1>10, <3>1
  <2> QED
    BY <1>16, <2>1 DEF Unfinished, Finished
<1>18. Unfinished(s)' = C /\ Finished(s)' = {}
  <2>1. Time!Children(s)' = C
    BY <1>10 DEF C
  <2> QED
    BY <1>16, <2>1 DEF Unfinished, Finished
<1>19. CountsInv'
  <2> SUFFICES ASSUME NEW i \in Parents', NEW p \in Time!Segment, p = parentStack'[i].segment
               PROVE  Unfinished(p)' # {}
                        /\ parentStack'[i].childrenLeft = Cardinality(Unfinished(p)')
    BY DEF CountsInv
  <2>1. CASE i \in Parents
    <3>1. parentStack'[i] = parentStack[i] /\ p = parentStack[i].segment /\ p \in Open
      BY <1>8, <2>1 DEF Open
    <3> QED
      BY <1>0, <1>17, <2>1, <3>1 DEF CountsInv
  <2>2. CASE i = top + 1
    <3>1. p = s /\ parentStack'[i].childrenLeft = n
      BY <1>8, <2>2
    <3> QED
      BY <1>1, <1>18, <3>1 DEF n, C
  <2> QED
    BY <1>8, <2>1, <2>2
<1>20. PairsInv'
  <2> SUFFICES ASSUME NEW i \in Parents', NEW p \in Time!Segment, p = parentStack'[i].segment
               PROVE  /\ Ordered(parentStack'[i].childPairs)
                      /\ StartAfter(parentStack'[i].childPairs, range'[p][1])
                      /\ Covered(parentStack'[i].childPairs) = UNION {Whole(c)' : c \in Finished(p)'}
    BY DEF PairsInv
  <2>1. CASE i \in Parents
    <3>1. parentStack'[i] = parentStack[i] /\ p = parentStack[i].segment /\ p \in Open
            /\ range' = range
      BY <1>1, <1>8, <2>1 DEF Open
    <3>2. UNION {Whole(c)' : c \in Finished(p)'} = UNION {Whole(c) : c \in Finished(p)}
      BY <1>10, <1>17, <3>1
    <3> QED
      BY <1>0, <2>1, <3>1, <3>2 DEF PairsInv
  <2>2. CASE i = top + 1
    <3>1. p = s /\ parentStack'[i].childPairs = <<>>
      BY <1>8, <2>2
    <3> QED
      BY <1>18, <3>1, NoRange
  <2> QED
    BY <1>8, <2>1, <2>2
<1>21. ValuesInv'
  <2>1. exclusive' \in [Time!Segment -> Int]
    BY <1>0, <1>1 DEF ValuesInv
  <2>2. ASSUME NEW p \in Time!Segment
        PROVE  \/ p \in Due' \cup Open'
               \/ \E d \in Due' : p \in Time!Below(d)'
               \/ exclusive'[p] = RightOf(p)'
    <3>1. CASE p \in Due \cup Open
      BY <1>16, <3>1
    <3>2. ASSUME NEW d \in Due, p \in Time!Below(d), d # s
          PROVE  \E f \in Due' : p \in Time!Below(f)'
      BY <1>7, <1>10, <3>2
    <3>3. CASE p \in Time!Below(s)
      <4>1. p \in C \/ \E c \in C : p \in Time!Below(c)
        BY <3>3, BelowUnfolds DEF C
      <4> QED
        BY <1>7, <1>10, <4>1
    <3>4. CASE exclusive[p] = RightOf(p)
      BY <1>1, <1>10, <3>4
    <3> QED
      BY <1>0, <3>1, <3>2, <3>3, <3>4 DEF ValuesInv
  <2> QED
    BY <2>1, <2>2 DEF ValuesInv
<1> QED
  BY <1>10, <1>14, <1>15, <1>19, <1>20, <1>21 DEF WalkInv

-----------------------------------------------------------------------------
(* What comes together at each parent when leaf s has finished. *)

Own(i) == parentStack[i].segment
Depth == Len(parentStack)

LEMMA StackFacts ==
    ASSUME WalkInv
    PROVE  /\ Depth \in Nat /\ Parents = 1..Depth
           /\ \A i \in 1..Depth :
                 /\ Own(i) \in Time!Segment /\ Own(i) \in Open /\ range[Own(i)] \in Pair
                 /\ Ordered(parentStack[i].childPairs)
                 /\ StartAfter(parentStack[i].childPairs, range[Own(i)][1])
                 /\ parentStack[i] \in ParentEntry
                 /\ i # Depth => /\ i + 1 \in 1..Depth /\ Own(i + 1) \in Time!Children(Own(i))
                                 /\ range[Own(i)][1] <= range[Own(i + 1)][1]
<1>0. IsTree /\ StackInv /\ PairsInv
  BY DEF WalkInv
<1>1. Depth \in Nat /\ Parents = 1..Depth
  BY <1>0 DEF StackInv, Parents, Depth
<1> SUFFICES ASSUME NEW i \in 1..Depth
             PROVE  /\ Own(i) \in Time!Segment /\ Own(i) \in Open /\ range[Own(i)] \in Pair
                    /\ Ordered(parentStack[i].childPairs)
                    /\ StartAfter(parentStack[i].childPairs, range[Own(i)][1])
                    /\ parentStack[i] \in ParentEntry
                    /\ i # Depth => /\ i + 1 \in 1..Depth /\ Own(i + 1) \in Time!Children(Own(i))
                                    /\ range[Own(i)][1] <= range[Own(i + 1)][1]
  BY <1>1
<1>2. i \in Parents /\ parentStack[i] \in ParentEntry
  BY <1>0, <1>1 DEF StackInv, Parents
<1>3. Own(i) \in Time!Segment /\ Own(i) \in Open
  BY <1>2 DEF Own, Open, ParentEntry
<1>4. range[Own(i)] \in Pair
  BY <1>0, <1>3, RangeFacts
<1>5. /\ Ordered(parentStack[i].childPairs)
      /\ StartAfter(parentStack[i].childPairs, range[Own(i)][1])
  BY <1>0, <1>2, <1>3 DEF PairsInv, Own
<1>6. ASSUME i # Depth
      PROVE  /\ i + 1 \in 1..Depth /\ Own(i + 1) \in Time!Children(Own(i))
             /\ range[Own(i)][1] <= range[Own(i + 1)][1]
  <2>1. i + 1 \in Parents /\ i + 1 > 1 /\ (i + 1) - 1 = i
    BY <1>1, <1>6
  <2>2. Own(i + 1) \in Time!Children(Own(i))
    BY <1>0, <2>1 DEF StackInv, Own
  <2> QED
    BY <1>0, <1>1, <2>1, <2>2, ParentIsSegment
<1> QED
  BY <1>2, <1>3, <1>4, <1>5, <1>6

LEMMA HandedIs ==
    ASSUME WalkInv, NEW s \in Time!Segment, Depth # 0 => s \in Time!Children(Own(Depth))
    PROVE  \A i \in 1..Depth :
              /\ Ordered(Time!Handed(s)[i]) /\ StartAfter(Time!Handed(s)[i], range[Own(i)][1])
              /\ Covered(Time!Handed(s)[i]) =
                    Covered(parentStack[i].childPairs)
                    \cup (IF i = Depth THEN Time!During(s) ELSE Covered(Time!Handed(s)[i + 1]) \cup Time!During(Own(i + 1)))
<1> DEFINE D == 1..Depth
           B == {l \in Seq(Pair) : Ordered(l)}
           rank == [i \in D |-> Depth - i]
           cp(i) == parentStack[i].childPairs
           G(i, f) == Time!Merge(cp(i), IF i = Depth THEN <<range[s]>>
                                   ELSE Time!Merge(f[i + 1], <<range[Own(i + 1)]>>))
           H == [q \in D \X [D -> B] |-> G(q[1], q[2])]
<1>1. /\ Depth \in Nat
      /\ \A i \in D : Own(i) \in Time!Segment /\ range[Own(i)] \in Pair /\ Ordered(cp(i))
                      /\ StartAfter(cp(i), range[Own(i)][1])
      /\ \A i \in D : i # Depth => i + 1 \in D /\ range[Own(i)][1] <= range[Own(i + 1)][1]
  BY StackFacts
<1>2. IsTree /\ range[s] \in Pair /\ Time!During(s) = Span(range[s])
  <2>1. IsTree
    BY DEF WalkInv
  <2> QED
    BY <2>1, RangeFacts
<1>3. \A i \in D : Time!During(Own(i)) = Span(range[Own(i)])
  BY <1>1, <1>2, RangeFacts
<1>4. \A l : Ordered(l) <=> l \in B
  BY DEF Ordered
<1>5. ASSUME NEW i \in D, NEW f \in [D -> B]
      PROVE  G(i, f) \in B
  <2>1. Ordered(cp(i)) /\ Ordered(<<range[s]>>)
    BY <1>1, <1>2, OneRange
  <2>2. CASE i = Depth
    <3>1. Ordered(Time!Merge(cp(i), <<range[s]>>))
      BY <2>1, Merges
    <3> QED
      BY <1>4, <2>2, <3>1
  <2>3. CASE i # Depth
    <3>1. Ordered(f[i + 1]) /\ range[Own(i + 1)] \in Pair
      BY <1>1, <1>4, <2>3
    <3>2. Ordered(<<range[Own(i + 1)]>>)
      BY <3>1, OneRange
    <3>3. Ordered(Time!Merge(f[i + 1], <<range[Own(i + 1)]>>))
      BY <3>1, <3>2, Merges
    <3>4. Ordered(Time!Merge(cp(i), Time!Merge(f[i + 1], <<range[Own(i + 1)]>>)))
      BY <2>1, <3>3, Merges
    <3> QED
      BY <1>4, <2>3, <3>4
  <2> QED
    BY <2>2, <2>3
<1>6. rank \in [D -> Nat] /\ \A i \in D : rank[i] = Depth - i
        /\ (i # Depth => rank[i + 1] < rank[i])
  BY <1>1
<1>7. Recursive(H, D, B, rank)
  <2>1. B # {}
    <3>1. <<>> \in B
      BY NoRange
    <3> QED
      BY <3>1
  <2>2. H \in [D \X [D -> B] -> B]
    <3>1. \A q \in D \X [D -> B] : q[1] \in D /\ q[2] \in [D -> B]
      OBVIOUS
    <3>2. \A q \in D \X [D -> B] : G(q[1], q[2]) \in B
      BY <1>5, <3>1
    <3> HIDE DEF G, D, B
    <3> QED
      BY <3>2
  <2>3. ASSUME NEW i \in D, NEW f \in [D -> B], NEW g \in [D -> B],
               \A y \in D : rank[y] < rank[i] => f[y] = g[y]
        PROVE  H[<<i, f>>] = H[<<i, g>>]
    <3>1. i # Depth => f[i + 1] = g[i + 1]
      BY <1>1, <1>6, <2>3
    <3>2. G(i, f) = G(i, g)
      BY <3>1
    <3>3. H[<<i, f>>] = G(i, f) /\ H[<<i, g>>] = G(i, g)
      <4> HIDE DEF G, D, B
      <4> QED
        OBVIOUS
    <3> QED
      BY <3>2, <3>3
  <2> HIDE DEF H, rank, D, B
  <2> QED
    BY <1>6, <2>1, <2>2, <2>3 DEF Recursive
<1>8. PICK h : h \in [D -> B] /\ \A i \in D : h[i] = H[<<i, h>>]
  <2> HIDE DEF H, rank, D, B
  <2>1. \E h : Solves(h, H, D, B)
    BY <1>7, Recursion
  <2> QED
    BY <2>1 DEF Solves
<1> DEFINE F(f) == [i \in D |-> G(i, f)]
           pairs == CHOOSE f : f = F(f)
<1>9. h = F(h)
  <2>1. \A i \in D : h[i] = G(i, h)
    <3>1. ASSUME NEW i \in D
          PROVE  H[<<i, h>>] = G(i, h)
      <4>1. <<i, h>> \in D \X [D -> B]
        BY <1>8
      <4> HIDE DEF G, D, B
      <4> QED
        BY <4>1
    <3> HIDE DEF H, G
    <3> QED
      BY <1>8, <3>1
  <2> HIDE DEF G, B
  <2> QED
    BY <1>8, <2>1
<1>10. pairs = F(pairs)
  <2> HIDE DEF F
  <2> QED
    BY <1>9
<1>11. Time!Handed(s) = pairs
  BY DEF Time!Handed, Own, Depth
<1>12. ASSUME NEW i \in D
       PROVE  pairs[i] = G(i, pairs)
  <2>1. pairs[i] = F(pairs)[i]
    BY <1>10
  <2> HIDE DEF pairs, G
  <2> QED
    BY <2>1
<1> HIDE DEF pairs
<1> DEFINE S == {i \in D : Ordered(pairs[i]) /\ StartAfter(pairs[i], range[Own(i)][1])}
           rest(i) == IF i = Depth THEN Time!During(s) ELSE Covered(pairs[i + 1])
             \cup Time!During(Own(i + 1))
<1>13. ASSUME NEW i \in D, i # Depth => i + 1 \in S
       PROVE  i \in S /\ Covered(pairs[i]) = Covered(cp(i)) \cup rest(i)
  <2>1. Ordered(cp(i)) /\ StartAfter(cp(i), range[Own(i)][1]) /\ range[Own(i)][1] \in Nat
    BY <1>1, <1>2, RangeFacts
  <2>2. CASE i = Depth
    <3>1. range[Own(i)][1] <= range[s][1]
      <4>1. s \in Time!Children(Own(Depth))
        BY <1>1, <2>2
      <4> QED
        BY <1>2, <2>2, <4>1, ParentIsSegment
    <3>2. Ordered(<<range[s]>>) /\ Covered(<<range[s]>>) = Time!During(s)
            /\ StartAfter(<<range[s]>>, range[Own(i)][1])
      BY <1>2, <3>1, OneRange
    <3>3. pairs[i] = Time!Merge(cp(i), <<range[s]>>)
      BY <1>12, <2>2
    <3> QED
      BY <2>1, <2>2, <3>2, <3>3, Merges
  <2>3. CASE i # Depth
    <3> DEFINE r == <<range[Own(i + 1)]>>
               m == Time!Merge(pairs[i + 1], r)
    <3>1. /\ i + 1 \in D /\ Ordered(pairs[i + 1]) /\ StartAfter(pairs[i + 1], range[Own(i + 1)][1])
          /\ range[Own(i + 1)] \in Pair /\ range[Own(i)][1] <= range[Own(i + 1)][1]
          /\ range[Own(i + 1)][1] \in Nat
      BY <1>1, <1>2, <1>13, <2>3, RangeFacts
    <3>2. Ordered(r) /\ Covered(r) = Time!During(Own(i + 1)) /\ StartAfter(r, range[Own(i)][1])
      BY <1>3, <3>1, OneRange
    <3>3. StartAfter(pairs[i + 1], range[Own(i)][1])
      <4>1. \A k \in DOMAIN pairs[i + 1] : pairs[i + 1][k][1] \in Nat
        BY <3>1 DEF Ordered, Pair
      <4> QED
        BY <2>1, <3>1, <4>1 DEF StartAfter
    <3>4. pairs[i] = Time!Merge(cp(i), m)
      BY <1>12, <2>3
    <3> HIDE DEF r
    <3>5. Ordered(m) /\ Covered(m) = Covered(pairs[i + 1]) \cup Covered(r)
            /\ StartAfter(m, range[Own(i)][1])
      BY <2>1, <3>1, <3>2, <3>3, Merges
    <3> HIDE DEF m
    <3>6. /\ Ordered(pairs[i]) /\ Covered(pairs[i]) = Covered(cp(i)) \cup Covered(m)
          /\ StartAfter(pairs[i], range[Own(i)][1])
      BY <2>1, <3>4, <3>5, Merges
    <3> QED
      BY <2>3, <3>2, <3>5, <3>6
  <2> QED
    BY <2>2, <2>3
<1>14. D \subseteq S
  <2>1. ASSUME NEW i \in D, \A y \in D : rank[y] < rank[i] => y \in S
        PROVE  i \in S
    <3>1. i # Depth => i + 1 \in S
      BY <1>1, <1>6, <2>1
    <3> HIDE DEF S
    <3> QED
      BY <1>13, <3>1
  <2> HIDE DEF S, D, rank
  <2> QED
    BY <1>6, <2>1, RankInduction
<1>15. ASSUME NEW i \in D
       PROVE  /\ Ordered(pairs[i]) /\ StartAfter(pairs[i], range[Own(i)][1])
              /\ Covered(pairs[i]) = Covered(cp(i)) \cup rest(i)
  <2>1. i \in S /\ (i # Depth => i + 1 \in S)
    BY <1>1, <1>14
  <2> QED
    BY <1>13, <2>1
<1> QED
  BY <1>11, <1>15

(* The child of the parent at i that the walk is in. *)
Link(i, s) == IF i = Depth THEN s ELSE Own(i + 1)

LEMMA LinkFacts ==
    ASSUME WalkInv, left # <<>>, NEW s, s = Head(left)
    PROVE  /\ s \in Time!Segment /\ s \in Due /\ s \notin Open
           /\ Depth # 0 => s \in Time!Children(Own(Depth))
           /\ \A i \in 1..Depth : /\ Link(i, s) \in Unfinished(Own(i))
                                       /\ Link(i, s) \in Time!Children(Own(i))
                                  /\ parentOf[Link(i, s)] = Own(i)
<1>1. /\ s \in Time!Segment /\ s \in Due /\ s \notin Open
      /\ parentStack # <<>> => s \in Time!Children(parentStack[Len(parentStack)].segment)
  BY HeadFacts
<1>2. Depth # 0 => s \in Time!Children(Own(Depth))
  BY <1>1 DEF Own, Depth, WalkInv, StackInv
<1>3. ASSUME NEW i \in 1..Depth
      PROVE  /\ Link(i, s) \in Unfinished(Own(i)) /\ Link(i, s) \in Time!Children(Own(i))
             /\ parentOf[Link(i, s)] = Own(i)
  <2>0. Depth \in Nat /\ (i # Depth => Own(i + 1) \in Open /\ Own(i + 1) \in Time!Children(Own(i)))
    BY StackFacts
  <2>1. CASE i = Depth
    <3>1. s \in Time!Children(Own(i)) /\ Link(i, s) = s
      BY <1>2, <2>0, <2>1 DEF Link
    <3> QED
      BY <1>1, <3>1 DEF Unfinished, Time!Children
  <2>2. CASE i # Depth
    BY <2>0, <2>2 DEF Link, Unfinished, Time!Children
  <2> QED
    BY <2>1, <2>2
<1> QED
  BY <1>1, <1>2, <1>3

LEMMA OnlyOne ==
    ASSUME WalkInv, NEW i \in 1..Depth, parentStack[i].childrenLeft = 1, NEW x, x \in Unfinished(Own(i))
    PROVE  Unfinished(Own(i)) = {x}
<1>1. i \in Parents /\ Own(i) \in Time!Segment
  BY StackFacts
<1> DEFINE U == Unfinished(Own(i))
<1>2. Cardinality(U) = 1
  BY <1>1 DEF WalkInv, CountsInv, Own
<1>3. IsFiniteSet(U)
  BY ChildrenFinite
<1> HIDE DEF U
<1>4. \E y : U = {y}
  BY <1>2, <1>3, FS_Singleton
<1> QED
  BY <1>4 DEF U

(* A parent that is finished has the time of all segments below it. *)
LEMMA Closing ==
    ASSUME WalkInv, left # <<>>, NEW s, s = Head(left), Time!Children(s) = {}, NEW stay \in 0..Depth,
           \A i \in (stay + 1)..Depth : parentStack[i].childrenLeft = 1
    PROVE  /\ \A i \in (stay + 1)..Depth : /\ Unfinished(Own(i)) = {Link(i, s)}
                                           /\ Covered(Time!Handed(s)[i]) = BelowTime(Own(i))
           /\ stay # 0 => Covered(Time!Handed(s)[stay]) = Covered(parentStack[stay].childPairs)
                                                     \cup Whole(Link(stay, s))
<1> DEFINE D == (stay + 1)..Depth
           rank == [i \in D |-> Depth - i]
           S == {i \in D : Covered(Time!Handed(s)[i]) = BelowTime(Own(i))}
<1>1. Depth \in Nat /\ stay \in Nat /\ D \subseteq 1..Depth
  <2>1. Depth \in Nat
    BY StackFacts
  <2> QED
    BY <2>1
<1>2. \A i \in D : Unfinished(Own(i)) = {Link(i, s)}
  <2> SUFFICES ASSUME NEW i \in D
               PROVE  Unfinished(Own(i)) = {Link(i, s)}
    OBVIOUS
  <2>1. i \in 1..Depth /\ parentStack[i].childrenLeft = 1
    BY <1>1
  <2>2. Link(i, s) \in Unfinished(Own(i))
    BY <2>1, LinkFacts
  <2> QED
    BY <2>1, <2>2, OnlyOne
<1>3. \A i \in 1..Depth :
         Covered(Time!Handed(s)[i]) =
            Covered(parentStack[i].childPairs)
            \cup (IF i = Depth THEN Time!During(s) ELSE Covered(Time!Handed(s)[i + 1]) \cup Time!During(Own(i + 1)))
  <2>1. s \in Time!Segment /\ (Depth # 0 => s \in Time!Children(Own(Depth)))
    BY LinkFacts
  <2> QED
    BY <2>1, HandedIs
<1>4. Whole(s) = Time!During(s)
  <2>1. BelowTime(s) = {}
    BY TimeUnfolds
  <2> QED
    BY <2>1 DEF Whole
<1>5. ASSUME NEW i \in 1..Depth, i # Depth => i + 1 \in S
      PROVE  Covered(Time!Handed(s)[i]) = Covered(parentStack[i].childPairs) \cup Whole(Link(i, s))
  <2>1. CASE i = Depth
    BY <1>3, <1>4, <2>1 DEF Link
  <2>2. CASE i # Depth
    <3>1. Covered(Time!Handed(s)[i + 1]) = BelowTime(Own(i + 1))
      BY <1>5, <2>2
    <3>2. Link(i, s) = Own(i + 1)
      BY <2>2 DEF Link
    <3>3. Whole(Own(i + 1)) = Time!During(Own(i + 1)) \cup BelowTime(Own(i + 1))
      BY DEF Whole
    <3> QED
      BY <1>3, <2>2, <3>1, <3>2, <3>3
  <2> QED
    BY <2>1, <2>2
<1>6. ASSUME NEW i \in D, i # Depth => i + 1 \in S
      PROVE  i \in S
  <2>1. i \in 1..Depth /\ i \in Parents /\ Own(i) \in Time!Segment
    BY <1>1, StackFacts
  <2> DEFINE p == Own(i)
  <2>2. Covered(parentStack[i].childPairs) = UNION {Whole(c) : c \in Finished(p)}
    BY <2>1 DEF WalkInv, PairsInv, Own
  <2>3. Time!Children(p) = Finished(p) \cup {Link(i, s)}
    <3>1. Time!Children(p) = Finished(p) \cup Unfinished(p)
      BY DEF Finished, Unfinished
    <3> HIDE DEF p
    <3> QED
      BY <1>2, <3>1 DEF p
  <2>4. BelowTime(p) = UNION {Whole(c) : c \in Time!Children(p)}
    BY TimeUnfolds
  <2>5. Covered(Time!Handed(s)[i]) = Covered(parentStack[i].childPairs) \cup Whole(Link(i, s))
    BY <1>5, <1>6, <2>1
  <2> HIDE DEF p
  <2>6. BelowTime(p) = (UNION {Whole(c) : c \in Finished(p)}) \cup Whole(Link(i, s))
    BY <2>3, <2>4
  <2> QED
    BY <2>2, <2>5, <2>6 DEF p
<1>7. rank \in [D -> Nat] /\ \A i \in D : i # Depth => i + 1 \in D /\ rank[i + 1] < rank[i]
  BY <1>1
<1>8. D \subseteq S
  <2>1. ASSUME NEW i \in D, \A y \in D : rank[y] < rank[i] => y \in S
        PROVE  i \in S
    <3>1. i # Depth => i + 1 \in S
      BY <1>7, <2>1
    <3> HIDE DEF S
    <3> QED
      BY <1>6, <3>1
  <2>2. rank \in [D -> Nat]
    BY <1>7
  <2> HIDE DEF S, D, rank
  <2> QED
    BY <2>1, <2>2, RankInduction
<1>9. ASSUME stay # 0
      PROVE  Covered(Time!Handed(s)[stay]) = Covered(parentStack[stay].childPairs)
               \cup Whole(Link(stay, s))
  <2>1. stay \in 1..Depth /\ (stay # Depth => stay + 1 \in S)
    BY <1>1, <1>8, <1>9
  <2> QED
    BY <1>5, <2>1
<1> QED
  BY <1>2, <1>8, <1>9

LEMMA LeafKeeps ==
    ASSUME WalkInv, Time!ProcessLeaf
    PROVE  WalkInv'
<1>s. PICK s : s = Head(left)
  OBVIOUS
<1>0. /\ IsTree /\ LeftInv /\ StackInv /\ CountsInv /\ PairsInv /\ ValuesInv
      /\ left # <<>> /\ Time!Children(s) = {} /\ left' = Tail(left) /\ UNCHANGED <<parentOf, range>>
      /\ Time!FinishLeaf(s)
  BY <1>s DEF WalkInv, Time!ProcessLeaf
<1>1. PICK stay \in 0..Len(parentStack) :
        /\ \A i \in (stay + 1)..Len(parentStack) : parentStack[i].childrenLeft = 1
        /\ stay > 0 => parentStack[stay].childrenLeft # 1
        /\ parentStack' = [i \in 1..stay |->
              IF i < stay THEN parentStack[i]
              ELSE [parentStack[i] EXCEPT !.childrenLeft = @ - 1, !.childPairs = Time!Handed(s)[i]]]
        /\ exclusive' = [p \in Time!Segment |->
              IF p = s THEN Time!DurationOf(s)
              ELSE IF \E i \in (stay + 1)..Len(parentStack) : parentStack[i].segment = p
              THEN Time!Remaining(p, Time!Handed(s)[CHOOSE i \in 1..Len(parentStack) : parentStack[i].segment = p])
              ELSE exclusive[p]]
  BY <1>0 DEF Time!FinishLeaf
<1> DEFINE m == Len(left)
           above == (stay + 1)..Depth
           Gone == {Own(i) : i \in above}
           link == Link(stay, s)
<1>2. /\ Depth \in Nat /\ stay \in 0..Depth /\ stay \in Nat /\ above \subseteq 1..Depth
           /\ Parents = 1..Depth
      /\ \A i \in 1..stay : i \in 1..Depth
      /\ \A i \in 1..Depth : i \in 1..stay \/ i \in above
      /\ \A i \in 1..Depth : /\ Own(i) \in Time!Segment /\ Own(i) \in Open
                             /\ parentStack[i] \in ParentEntry
  <2>1. /\ Depth \in Nat /\ Parents = 1..Depth
        /\ \A i \in 1..Depth : /\ Own(i) \in Time!Segment /\ Own(i) \in Open
                               /\ parentStack[i] \in ParentEntry
    BY StackFacts
  <2>2. stay \in 0..Depth
    BY <1>1 DEF Depth
  <2> QED
    BY <2>1, <2>2
<1>3. /\ s \in Time!Segment /\ s \in Due /\ s \notin Open
      /\ \A i \in 1..Depth : /\ Link(i, s) \in Unfinished(Own(i))
                                  /\ Link(i, s) \in Time!Children(Own(i))
                             /\ parentOf[Link(i, s)] = Own(i)
  BY <1>s, <1>0, LinkFacts
<1>4. /\ \A i \in above : /\ Unfinished(Own(i)) = {Link(i, s)}
                               /\ Covered(Time!Handed(s)[i]) = BelowTime(Own(i))
      /\ stay # 0 => Covered(Time!Handed(s)[stay]) = Covered(parentStack[stay].childPairs)
           \cup Whole(link)
  <2>1. \A i \in above : parentStack[i].childrenLeft = 1
    BY <1>1 DEF Depth
  <2> QED
    BY <1>s, <1>0, <1>2, <2>1, Closing
<1>5. \A i \in 1..Depth : Ordered(Time!Handed(s)[i])
        /\ StartAfter(Time!Handed(s)[i], range[Own(i)][1])
  <2>1. Depth # 0 => s \in Time!Children(Own(Depth))
    BY <1>s, <1>0, LinkFacts
  <2> QED
    BY <1>3, <2>1, HandedIs
<1>6. \A i, j \in 1..Depth : Own(i) = Own(j) => i = j
  <2> SUFFICES ASSUME NEW i \in 1..Depth, NEW j \in 1..Depth, Own(i) = Own(j), i # j
               PROVE  FALSE
    OBVIOUS
  <2>1. i < j \/ j < i
    BY <1>2
  <2>2. Own(i) < Own(j) \/ Own(j) < Own(i)
    BY <1>0, <1>2, <2>1 DEF StackInv, Own
  <2>3. Own(i) \in Nat
    BY <1>2 DEF Time!Segment
  <2> QED
    BY <2>2, <2>3
<1>7. /\ m \in Nat \ {0} /\ left' \in Seq(Time!Segment) /\ DOMAIN left' = 1..(m - 1)
           /\ DOMAIN left = 1..m
      /\ \A j \in DOMAIN left' : j + 1 \in DOMAIN left /\ left'[j] = left[j + 1]
      /\ Due' = Due \ {s}
  <2>1. /\ Tail(left) \in Seq(Time!Segment)
        /\ DOMAIN Tail(left) = 1..(m - 1) /\ DOMAIN left = 1..m /\ m \in Nat \ {0}
        /\ \A j \in DOMAIN Tail(left) : j + 1 \in DOMAIN left /\ Tail(left)[j] = left[j + 1]
        /\ {Tail(left)[j] : j \in DOMAIN Tail(left)} = Due \ {s}
    BY <1>s, <1>0, HeadFacts
  <2> QED
    BY <1>0, <2>1 DEF Due
<1> HIDE DEF m
<1>8. /\ DOMAIN parentStack' = 1..stay /\ Parents' = 1..stay
      /\ \A i \in 1..stay : i < stay => parentStack'[i] = parentStack[i]
      /\ stay # 0 =>
            parentStack'[stay] = [childrenLeft |-> parentStack[stay].childrenLeft - 1,
                                  segment |-> Own(stay), childPairs |-> Time!Handed(s)[stay]]
      /\ \A i \in 1..stay : parentStack'[i].segment = Own(i)
  <2>1. DOMAIN parentStack' = 1..stay
    BY <1>1
  <2>2. \A i \in 1..stay : i < stay => parentStack'[i] = parentStack[i]
    BY <1>1
  <2>3. ASSUME stay # 0
        PROVE  parentStack'[stay] = [childrenLeft |-> parentStack[stay].childrenLeft - 1,
                                     segment |-> Own(stay), childPairs |-> Time!Handed(s)[stay]]
    <3> DEFINE e == parentStack[stay]
    <3>1. stay \in 1..stay /\ ~(stay < stay) /\ e \in ParentEntry
      BY <1>2, <2>3
    <3>2. parentStack'[stay] = [e EXCEPT !.childrenLeft = @ - 1, !.childPairs = Time!Handed(s)[stay]]
      BY <1>1, <3>1
    <3>3. e = [childrenLeft |-> e.childrenLeft, segment |-> e.segment, childPairs |-> e.childPairs]
      BY <3>1 DEF ParentEntry
    <3> HIDE DEF e
    <3>4. parentStack'[stay] = [childrenLeft |-> e.childrenLeft - 1, segment |-> e.segment,
                                childPairs |-> Time!Handed(s)[stay]]
      BY <3>2, <3>3
    <3> QED
      BY <3>4 DEF e, Own
  <2>4. ASSUME NEW i \in 1..stay
        PROVE  parentStack'[i].segment = Own(i)
    <3>1. i < stay \/ (i = stay /\ stay # 0)
      BY <1>2
    <3>2. stay # 0 => parentStack'[stay].segment = Own(stay)
      BY <2>3
    <3> QED
      BY <2>2, <3>1, <3>2 DEF Own
  <2> QED
    BY <2>1, <2>2, <2>3, <2>4 DEF Parents
<1>9. /\ Open' = {Own(i) : i \in 1..stay} /\ Open = Open' \cup Gone /\ Open' \cap Gone = {}
      /\ Gone \subseteq Open
  <2>1. Open' = {Own(i) : i \in 1..stay}
    <3>1. Open' = {parentStack'[i].segment : i \in 1..stay}
      BY <1>8 DEF Open
    <3> QED
      BY <1>8, <3>1
  <2>2. Open = {Own(i) : i \in 1..Depth}
    BY <1>2 DEF Open, Own
  <2>3. \A i \in 1..stay, j \in above : i # j /\ i \in 1..Depth /\ j \in 1..Depth
    BY <1>2
  <2>4. Open' \cap Gone = {}
    BY <1>6, <2>1, <2>3
  <2>5. Open' \cup Gone = Open
    BY <1>2, <2>1, <2>2
  <2> QED
    BY <2>1, <2>4, <2>5
<1>10. /\ IsTree'
       /\ \A x : /\ Time!Children(x)' = Time!Children(x) /\ Time!Below(x)' = Time!Below(x)
                 /\ Whole(x)' = Whole(x) /\ RightOf(x)' = RightOf(x)
  BY <1>0, TreeStays
<1> DEFINE Ended == {s} \cup Gone
<1>11. Due' \cup Open' = (Due \cup Open) \ Ended
  BY <1>0, <1>3, <1>7, <1>9 DEF LeftInv
<1>12. ASSUME NEW i \in 1..stay, NEW x \in Ended, x \in Time!Children(Own(i))
       PROVE  i = stay /\ x = link
  <2>1. PICK k \in 1..Depth : k >= stay /\ x = Link(k, s)
    <3>1. CASE x = s
      <4>1. Depth \in 1..Depth /\ Depth >= stay /\ x = Link(Depth, s)
        BY <1>2, <1>12, <3>1 DEF Link
      <4> QED
        BY <4>1
    <3>2. ASSUME NEW j \in above, x = Own(j)
          PROVE  \E k \in 1..Depth : k >= stay /\ x = Link(k, s)
      <4>1. j - 1 \in 1..Depth /\ j - 1 >= stay /\ j - 1 # Depth /\ (j - 1) + 1 = j
        BY <1>2, <1>12
      <4> QED
        BY <3>2, <4>1 DEF Link
    <3> QED
      BY <3>1, <3>2
  <2>2. parentOf[x] = Own(k) /\ parentOf[x] = Own(i)
    BY <1>0, <1>3, <1>12, <2>1 DEF Time!Children
  <2>3. i = k
    BY <1>2, <1>6, <2>2
  <2> QED
    BY <1>2, <2>1, <2>3
<1> HIDE DEF above, link
<1>13. ASSUME NEW i \in 1..stay, i < stay, NEW p, p = Own(i)
       PROVE  Unfinished(p)' = Unfinished(p) /\ Finished(p)' = Finished(p)
  <2>1. Time!Children(p)' = Time!Children(p) /\ Time!Children(p) \cap Ended = {}
    BY <1>10, <1>12, <1>13
  <2> HIDE DEF Ended
  <2> QED
    BY <1>11, <2>1 DEF Unfinished, Finished
<1>14. ASSUME stay # 0, NEW p, p = Own(stay)
       PROVE  /\ link \in Unfinished(p) /\ link \in Time!Children(p)
              /\ Unfinished(p)' = Unfinished(p) \ {link} /\ Finished(p)' = Finished(p) \cup {link}
  <2>1. link \in Ended /\ link \in Unfinished(p) /\ link \in Time!Children(p)
    <3>1. stay \in 1..Depth /\ stay \in 1..stay
      BY <1>2, <1>14
    <3>2. stay # Depth => stay + 1 \in above
      BY <1>2, <3>1 DEF above
    <3>3. link \in Ended
      BY <3>2 DEF link, Link
    <3> QED
      BY <1>3, <1>14, <3>1, <3>3 DEF link
  <2>2. Time!Children(p)' = Time!Children(p) /\ Time!Children(p) \cap Ended = {link}
    <3>1. stay \in 1..stay
      BY <1>2, <1>14
    <3> QED
      BY <1>10, <1>12, <1>14, <2>1, <3>1
  <2> HIDE DEF Ended
  <2> QED
    BY <1>11, <2>1, <2>2 DEF Unfinished, Finished
<1>15. LeftInv'
  <2>1. ASSUME NEW j \in DOMAIN left', NEW k \in DOMAIN left', j < k
        PROVE  left'[j] # left'[k] /\ parentOf'[left'[k]] <= parentOf'[left'[j]]
    <3>1. j + 1 \in DOMAIN left /\ k + 1 \in DOMAIN left /\ j + 1 < k + 1
      BY <1>7, <2>1
    <3> QED
      BY <1>0, <1>7, <3>1 DEF LeftInv
  <2>2. ASSUME NEW j \in DOMAIN left'
        PROVE  left'[j] # Time!Root /\ parentOf'[left'[j]] \in Open'
    <3> DEFINE d == left'[j]
    <3>1. d = left[j + 1] /\ j + 1 \in DOMAIN left /\ j + 1 # 1 /\ d \in Due /\ d # s
            /\ d \in Time!Segment
      <4>1. d \in Due' /\ d \in Time!Segment
        BY <1>7 DEF Due
      <4>2. j + 1 # 1
        BY <1>7
      <4> QED
        BY <1>7, <4>1, <4>2
    <3>2. parentStack # <<>>
      <4> SUFFICES ASSUME parentStack = <<>>
                   PROVE  FALSE
        OBVIOUS
      <4>1. left = <<>> \/ left = <<Time!Root>>
        BY <1>0 DEF LeftInv
      <4> QED
        BY <3>1, <4>1
    <3>3. d # Time!Root /\ parentOf[d] \in Open
      BY <1>0, <3>1, <3>2 DEF LeftInv
    <3>4. ASSUME NEW i \in above, parentOf[d] = Own(i)
          PROVE  FALSE
      <4>1. d \in Unfinished(Own(i))
        BY <3>1, <3>3, <3>4 DEF Unfinished, Time!Children
      <4>2. d = Link(i, s)
        BY <1>4, <4>1
      <4>3. d = Own(i + 1) /\ i + 1 \in 1..Depth
        BY <1>2, <3>1, <4>2 DEF Link, above
      <4>4. d \in Open
        BY <1>2, <4>3
      <4> QED
        BY <1>0, <3>1, <4>4 DEF LeftInv
    <3> QED
      BY <1>0, <1>9, <3>3, <3>4
  <2>3. parentStack' = <<>> => left' = <<>>
    <3> SUFFICES ASSUME parentStack' = <<>>
                 PROVE  left' = <<>>
      OBVIOUS
    <3>1. Open' = {}
      BY DEF Open, Parents
    <3>2. DOMAIN left' = {}
      BY <2>2, <3>1
    <3> QED
      BY <1>7, <3>2
  <2>4. Due' \cap Open' = {}
    BY <1>0, <1>7, <1>9 DEF LeftInv
  <2> QED
    BY <1>7, <2>1, <2>2, <2>3, <2>4 DEF LeftInv
<1>16. ASSUME stay # 0
       PROVE  /\ Own(stay) \in Time!Segment /\ stay \in 1..Depth /\ stay \in Parents
              /\ IsFiniteSet(Unfinished(Own(stay)) \ {link})
              /\ parentStack[stay].childrenLeft = Cardinality(Unfinished(Own(stay)))
              /\ parentStack[stay].childrenLeft - 1 = Cardinality(Unfinished(Own(stay)) \ {link})
              /\ parentStack[stay].childrenLeft - 1 \in Nat
              /\ Unfinished(Own(stay)) \ {link} # {}
  <2> DEFINE U == Unfinished(Own(stay))
  <2>1. Own(stay) \in Time!Segment /\ stay \in 1..Depth /\ stay \in Parents
    BY <1>2, <1>16
  <2>2. parentStack[stay].childrenLeft = Cardinality(U) /\ parentStack[stay].childrenLeft # 1
    <3>1. stay > 0
      BY <1>2, <1>16
    <3> QED
      BY <1>0, <1>1, <2>1, <3>1 DEF CountsInv, Own
  <2>3. IsFiniteSet(U) /\ Cardinality(U) \in Nat
    BY ChildrenFinite
  <2>4. link \in U
    BY <1>3, <2>1 DEF link
  <2> HIDE DEF U
  <2>5. IsFiniteSet(U \ {link}) /\ Cardinality(U \ {link}) = Cardinality(U) - 1
    BY <2>3, <2>4, FS_RemoveElement
  <2>6. Cardinality(U \ {link}) \in Nat
    BY <2>5, FS_CardinalityType
  <2>7. U \ {link} # {}
    <3> SUFFICES ASSUME U \ {link} = {}
                 PROVE  FALSE
      OBVIOUS
    <3>1. U = {link}
      BY <2>4
    <3>2. Cardinality(U) = 1
      BY <3>1, FS_Singleton
    <3> QED
      BY <2>2, <3>2
  <2> QED
    BY <2>1, <2>2, <2>5, <2>6, <2>7 DEF U
<1>17. StackInv'
  <2>1. \A i \in 1..stay : parentStack'[i] \in ParentEntry
    <3> SUFFICES ASSUME NEW i \in 1..stay
                 PROVE  parentStack'[i] \in ParentEntry
      OBVIOUS
    <3>1. CASE i < stay
      BY <1>2, <1>8, <3>1
    <3>2. CASE i = stay
      <4>1. stay # 0
        BY <3>2
      <4>2. Time!Handed(s)[stay] \in Seq(Pair)
        BY <1>5, <1>16, <4>1 DEF Ordered
      <4> QED
        BY <1>8, <1>16, <3>2, <4>1, <4>2 DEF ParentEntry
    <3> QED
      BY <1>2, <3>1, <3>2
  <2>2. parentStack' \in Seq(ParentEntry)
    <3>1. \A i \in 1..stay : i \in DOMAIN parentStack'
      BY <1>8
    <3> DEFINE e(i) == IF i < stay THEN parentStack[i]
              ELSE [parentStack[i] EXCEPT !.childrenLeft = @ - 1, !.childPairs = Time!Handed(s)[i]]
    <3>2. parentStack' = [i \in 1..stay |-> e(i)]
      BY <1>1
    <3> HIDE DEF e
    <3>3. \A i \in 1..stay : e(i) \in ParentEntry
      BY <2>1, <3>2
    <3> QED
      BY <1>2, <3>2, <3>3
  <2>3. ASSUME NEW i \in 1..stay, NEW j \in 1..stay, i < j
        PROVE  parentStack'[i].segment < parentStack'[j].segment
    BY <1>0, <1>2, <1>8, <2>3 DEF StackInv, Own
  <2>4. ASSUME NEW i \in 1..stay, i > 1
        PROVE  parentStack'[i].segment \in Time!Children(parentStack'[i - 1].segment)
    <3>1. i - 1 \in 1..stay /\ i \in Parents
      BY <1>2, <2>4
    <3>2. Own(i) \in Time!Children(Own(i - 1))
      BY <1>0, <2>4, <3>1 DEF StackInv, Own
    <3> QED
      BY <1>8, <3>1, <3>2
  <2> QED
    BY <1>8, <1>10, <2>2, <2>3, <2>4 DEF StackInv
<1>18. CountsInv'
  <2> SUFFICES ASSUME NEW i \in 1..stay, NEW p \in Time!Segment, p = parentStack'[i].segment
               PROVE  Unfinished(p)' # {}
                        /\ parentStack'[i].childrenLeft = Cardinality(Unfinished(p)')
    BY <1>8 DEF CountsInv
  <2>0. p = Own(i)
    BY <1>8
  <2>1. CASE i < stay
    <3>1. parentStack'[i] = parentStack[i] /\ i \in Parents
      BY <1>2, <1>8, <2>1
    <3> QED
      BY <1>0, <1>13, <2>0, <2>1, <3>1 DEF CountsInv, Own
  <2>2. CASE i = stay
    <3>1. stay # 0 /\ p = Own(stay)
      BY <1>2, <2>0, <2>2
    <3>2. Unfinished(p)' = Unfinished(p) \ {link}
      BY <1>14, <3>1
    <3>3. parentStack'[stay].childrenLeft = parentStack[stay].childrenLeft - 1
      BY <1>8, <3>1
    <3> QED
      BY <1>16, <2>2, <3>1, <3>2, <3>3
  <2> QED
    BY <1>2, <2>1, <2>2
<1>19. PairsInv'
  <2> SUFFICES ASSUME NEW i \in 1..stay, NEW p \in Time!Segment, p = parentStack'[i].segment
               PROVE  /\ Ordered(parentStack'[i].childPairs)
                      /\ StartAfter(parentStack'[i].childPairs, range'[p][1])
                      /\ Covered(parentStack'[i].childPairs) = UNION {Whole(c)' : c \in Finished(p)'}
    BY <1>8 DEF PairsInv
  <2>0. p = Own(i)
    BY <1>8
  <2>1. CASE i < stay
    <3>1. parentStack'[i] = parentStack[i] /\ i \in Parents
      BY <1>2, <1>8, <2>1
    <3>2. UNION {Whole(c)' : c \in Finished(p)'} = UNION {Whole(c) : c \in Finished(p)}
      BY <1>10, <1>13, <2>0, <2>1
    <3> QED
      BY <1>0, <2>0, <3>1, <3>2 DEF PairsInv, Own
  <2>2. CASE i = stay
    <3>1. stay # 0 /\ p = Own(stay)
      BY <1>2, <2>0, <2>2
    <3>2. Finished(p)' = Finished(p) \cup {link}
      BY <1>14, <3>1
    <3>3. UNION {Whole(c)' : c \in Finished(p)'} = (UNION {Whole(c) : c \in Finished(p)})
            \cup Whole(link)
      BY <1>10, <3>2
    <3>4. Covered(parentStack[stay].childPairs) = UNION {Whole(c) : c \in Finished(p)}
      BY <1>0, <1>16, <3>1 DEF PairsInv, Own
    <3>5. parentStack'[stay].childPairs = Time!Handed(s)[stay]
      BY <1>8, <3>1
    <3>6. Covered(Time!Handed(s)[stay]) = Covered(parentStack[stay].childPairs) \cup Whole(link)
      BY <1>4, <3>1
    <3>7. Ordered(Time!Handed(s)[stay]) /\ StartAfter(Time!Handed(s)[stay], range[p][1])
      BY <1>5, <1>16, <3>1
    <3> QED
      BY <1>0, <2>2, <3>3, <3>4, <3>5, <3>6, <3>7
  <2> QED
    BY <1>2, <2>1, <2>2
<1>20. ASSUME NEW p \in Time!Segment
       PROVE  range[p] \in Pair /\ RightOf(p) \in Nat
  <2>1. range[p] \in Pair /\ Time!During(p) = Span(range[p])
    BY <1>0, RangeFacts
  <2> DEFINE a == range[p][1]
             b == range[p][2]
             X == Time!During(p) \ BelowTime(p)
  <2>2. a \in Int /\ b \in Int /\ a <= b
    BY <2>1 DEF Pair
  <2>3. IsFiniteSet(a..(b - 1))
    BY <2>2, SpanSize
  <2>4. X \in SUBSET (a..(b - 1))
    BY DEF Time!During
  <2> HIDE DEF a, b, X
  <2>5. IsFiniteSet(X)
    BY <2>3, <2>4, FS_Subset
  <2>6. Cardinality(X) \in Nat
    BY <2>5, FS_CardinalityType
  <2> QED
    BY <2>1, <2>6 DEF X, RightOf
<1>21. ASSUME NEW p \in Time!Segment
       PROVE  /\ p = s => exclusive'[p] = RightOf(p)
              /\ p \in Gone => exclusive'[p] = RightOf(p)
              /\ p # s /\ p \notin Gone => exclusive'[p] = exclusive[p]
  <2>1. CASE p = s
    <3>1. exclusive'[p] = range[p][2] - range[p][1]
      BY <1>1, <2>1 DEF Time!DurationOf
    <3>2. BelowTime(p) = {}
      BY <1>0, <2>1, TimeUnfolds
    <3>3. Time!During(p) \ BelowTime(p) = range[p][1]..(range[p][2] - 1)
      BY <3>2 DEF Time!During
    <3>4. range[p][1] \in Int /\ range[p][2] \in Int /\ range[p][1] <= range[p][2]
      BY <1>20 DEF Pair
    <3>5. RightOf(p) = range[p][2] - range[p][1]
      BY <3>3, <3>4, SpanSize DEF RightOf
    <3>6. p \notin Gone
      BY <1>3, <1>9, <2>1
    <3> QED
      BY <2>1, <3>1, <3>5, <3>6
  <2>2. ASSUME NEW i \in above, p = Own(i)
        PROVE  exclusive'[p] = RightOf(p)
    <3>1. i \in 1..Depth /\ p # s /\ parentStack[i].segment = p
      BY <1>2, <1>3, <2>2 DEF Own
    <3>2. (CHOOSE k \in 1..Depth : parentStack[k].segment = p) = i
      BY <1>6, <2>2, <3>1 DEF Own
    <3>3. exclusive'[p] = Time!Remaining(p, Time!Handed(s)[i])
      <4>1. \E k \in (stay + 1)..Len(parentStack) : parentStack[k].segment = p
        BY <3>1 DEF above, Depth
      <4> QED
        BY <1>1, <3>1, <3>2, <4>1 DEF Depth
    <3>4. Ordered(Time!Handed(s)[i]) /\ StartAfter(Time!Handed(s)[i], range[p][1])
      BY <1>5, <2>2, <3>1
    <3>5. Time!Remaining(p, Time!Handed(s)[i]) = Cardinality(Time!During(p) \ Covered(Time!Handed(s)[i]))
      BY <1>20, <3>4, RemainingIs
    <3>6. Covered(Time!Handed(s)[i]) = BelowTime(p)
      BY <1>4, <2>2
    <3> QED
      BY <3>3, <3>5, <3>6 DEF RightOf
  <2>3. ASSUME p # s, p \notin Gone
        PROVE  exclusive'[p] = exclusive[p]
    <3>1. ~\E k \in (stay + 1)..Len(parentStack) : parentStack[k].segment = p
      BY <2>3 DEF above, Depth, Own
    <3> QED
      BY <1>1, <2>3, <3>1
  <2> QED
    BY <2>1, <2>2, <2>3
<1>22. ValuesInv'
  <2>1. exclusive' \in [Time!Segment -> Int]
    <3> DEFINE e(p) ==
              IF p = s THEN Time!DurationOf(s)
              ELSE IF \E i \in (stay + 1)..Len(parentStack) : parentStack[i].segment = p
              THEN Time!Remaining(p, Time!Handed(s)[CHOOSE i \in 1..Len(parentStack) : parentStack[i].segment = p])
              ELSE exclusive[p]
    <3>1. exclusive' = [p \in Time!Segment |-> e(p)]
      BY <1>1
    <3>2. \A p \in Time!Segment : exclusive'[p] \in Int
      BY <1>0, <1>20, <1>21 DEF ValuesInv
    <3> HIDE DEF e
    <3> QED
      BY <3>1, <3>2
  <2>2. ASSUME NEW p \in Time!Segment
        PROVE  \/ p \in Due' \cup Open'
               \/ \E d \in Due' : p \in Time!Below(d)'
               \/ exclusive'[p] = RightOf(p)'
    <3>1. CASE p \in Ended
      BY <1>10, <1>21, <3>1
    <3>2. CASE p \in Due \cup Open /\ p \notin Ended
      BY <1>11, <3>2
    <3>3. ASSUME NEW d \in Due, p \in Time!Below(d)
          PROVE  \E f \in Due' : p \in Time!Below(f)'
      <4>1. Time!Below(s) = {}
        BY <1>0, BelowUnfolds
      <4> QED
        BY <1>7, <1>10, <3>3, <4>1
    <3>4. CASE exclusive[p] = RightOf(p) /\ p \notin Ended
      BY <1>10, <1>21, <3>4
    <3> QED
      BY <1>0, <3>1, <3>2, <3>3, <3>4 DEF ValuesInv
  <2> QED
    BY <2>1, <2>2 DEF ValuesInv
<1> QED
  BY <1>10, <1>15, <1>17, <1>18, <1>19, <1>22 DEF WalkInv

-----------------------------------------------------------------------------

LEMMA WalkStays ==
    ASSUME WalkInv, UNCHANGED Time!vars
    PROVE  WalkInv'
<1>0. UNCHANGED <<parentOf, range>> /\ UNCHANGED left /\ UNCHANGED parentStack
        /\ UNCHANGED exclusive
  BY DEF Time!vars
<1>1. /\ IsTree'
      /\ \A x : /\ Time!Children(x)' = Time!Children(x) /\ Time!Below(x)' = Time!Below(x)
                /\ Whole(x)' = Whole(x) /\ RightOf(x)' = RightOf(x)
  BY <1>0, TreeStays DEF WalkInv
<1>2. Parents' = Parents /\ Open' = Open /\ Due' = Due
  BY <1>0 DEF Parents, Open, Due
<1>3. \A x : Unfinished(x)' = Unfinished(x) /\ Finished(x)' = Finished(x)
  BY <1>1, <1>2 DEF Unfinished, Finished
<1>4. LeftInv'
  BY <1>0, <1>2 DEF WalkInv, LeftInv
<1>5. StackInv'
  BY <1>0, <1>1, <1>2 DEF WalkInv, StackInv
<1>6. CountsInv'
  BY <1>0, <1>2, <1>3 DEF WalkInv, CountsInv
<1>7. PairsInv'
  <2> SUFFICES ASSUME NEW i \in Parents, NEW p \in Time!Segment, p = parentStack[i].segment
               PROVE  /\ Ordered(parentStack[i].childPairs)
                      /\ StartAfter(parentStack[i].childPairs, range[p][1])
                      /\ Covered(parentStack[i].childPairs) = UNION {Whole(c)' : c \in Finished(p)'}
    BY <1>0, <1>2 DEF PairsInv
  <2>1. UNION {Whole(c)' : c \in Finished(p)'} = UNION {Whole(c) : c \in Finished(p)}
    BY <1>1, <1>3
  <2> QED
    BY <2>1 DEF WalkInv, PairsInv
<1>8. ValuesInv'
  BY <1>0, <1>1, <1>2 DEF WalkInv, ValuesInv
<1> QED
  BY <1>1, <1>4, <1>5, <1>6, <1>7, <1>8 DEF WalkInv

(* When nothing is left, every parent of the stack has finished, and with it every segment. *)
LEMMA WalkIsRight == WalkInv => Time!TimeIsExclusive
<1> SUFFICES ASSUME WalkInv, left = <<>>
             PROVE  /\ parentStack = <<>>
                    /\ \A s \in Time!Segment :
                          exclusive[s] = Cardinality({t \in Time!During(s) : \A d \in Time!Below(s) : t \notin Time!During(d)})
  BY SameSizes DEF Time!TimeIsExclusive
<1>1. Due = {}
  BY DEF Due
<1>2. Depth \in Nat /\ Parents = 1..Depth
  BY StackFacts
<1>3. Depth = 0
  <2> SUFFICES ASSUME Depth # 0
               PROVE  FALSE
    OBVIOUS
  <2>1. Depth \in Parents /\ Own(Depth) \in Time!Segment
    BY <1>2, StackFacts
  <2>2. PICK c : c \in Unfinished(Own(Depth))
    BY <2>1 DEF WalkInv, CountsInv, Own
  <2>3. c \in Time!Children(Own(Depth)) /\ c \in Open
    BY <1>1, <2>2 DEF Unfinished
  <2>4. Own(Depth) < c /\ Own(Depth) \in Nat
    BY <2>1, <2>3, ParentIsSegment DEF WalkInv, Time!Segment
  <2>5. PICK i \in Parents : c = Own(i)
    BY <2>3 DEF Open, Own
  <2>6. i < Depth \/ i = Depth
    BY <1>2
  <2>7. i < Depth => Own(i) < Own(Depth)
    BY <2>1 DEF WalkInv, StackInv, Own
  <2>8. c \in Nat
    BY <2>3 DEF Time!Children, Time!Segment
  <2> QED
    BY <2>4, <2>5, <2>6, <2>7, <2>8
<1>4. parentStack = <<>> /\ Open = {}
  BY <1>2, <1>3 DEF WalkInv, StackInv, Depth, Open
<1>5. ASSUME NEW s \in Time!Segment
      PROVE  exclusive[s] = Cardinality({t \in Time!During(s) : \A d \in Time!Below(s) : t \notin Time!During(d)})
  <2>1. exclusive[s] = RightOf(s)
    BY <1>1, <1>4 DEF WalkInv, ValuesInv
  <2> QED
    BY <2>1, RightValue DEF RightOf
<1> QED
  BY <1>4, <1>5

(* The walk leaves every segment of any tree, with any ranges, with the    *)
(* time in which it ran and none below it did (ExclusiveCalculator).       *)
THEOREM ExclusiveTimeIsRight == Time!Spec => []Time!TimeIsExclusive
<1>1. WalkInv /\ [Time!Next]_Time!vars => WalkInv'
  BY ParentKeeps, LeafKeeps, WalkStays DEF Time!Next
<1> QED
  BY <1>1, WalkInit, WalkIsRight, PTL DEF Time!Spec

-----------------------------------------------------------------------------

(* The two results together: times and values are added up right.          *)
THEOREM Totals == Time!Spec /\ Collected!Spec => []TotalsAreTrue
<1>1. Time!TimeIsExclusive /\ Collected!MetricsAreKept => TotalsAreTrue
  BY DEF TotalsAreTrue
<1> QED
  BY <1>1, ExclusiveTimeIsRight, MetricsKept, PTL

-----------------------------------------------------------------------------
(* The rules for names: applying a list of them *)

Rules == Naming!Rule

(* What is known while a list is applied. *)
Begun(from, v) ==
    [matched |-> FALSE, ignore |-> FALSE, value |-> v, advanced |-> from, over |-> FALSE]
Knows(s) ==
    /\ s.matched \in BOOLEAN /\ s.ignore \in BOOLEAN /\ s.over \in BOOLEAN
    /\ s = [matched |-> s.matched, ignore |-> s.ignore, value |-> s.value,
            advanced |-> s.advanced, over |-> s.over]

(* f is what is known after each of the rules of l. *)
Run(f, l, from, v) ==
    /\ f[0] = Begun(from, v)
    /\ \A k \in 1..Len(l) : f[k] = Naming!Applied(f[k - 1], l[k])
    /\ \A k \in 0..Len(l) : Knows(f[k])

LEMMA RuleFacts ==
    ASSUME NEW r \in Rules
    PROVE  /\ r.ignore \in BOOLEAN /\ r.terminal \in BOOLEAN /\ r.global \in BOOLEAN
           /\ Naming!Remembers(r) \in BOOLEAN /\ r.precedence \in Int
BY NamingAssumption DEF Naming!RulesAreGiven, Naming!Remembers, Rules

(* Whether a rule that is asked for a value matches. *)
Hit(s, r) == s.value \in r.matches /\ (Naming!Remembers(r) => r \notin s.advanced)

Follows(t, s, r) ==
    /\ t.matched = (s.matched \/ (Hit(s, r) /\ ~r.ignore))
    /\ t.ignore = (s.ignore \/ (Hit(s, r) /\ r.ignore))
    /\ t.value = IF Hit(s, r) /\ ~r.ignore THEN r.to ELSE s.value
    /\ t.advanced = IF Naming!Remembers(r) /\ Hit(s, r) THEN s.advanced \cup {r}
                    ELSE s.advanced \ {r}
    /\ t.over = (Hit(s, r) /\ r.terminal)

LEMMA AppliedIs ==
    ASSUME NEW s, Knows(s), NEW r \in Rules
    PROVE  /\ Knows(Naming!Applied(s, r))
           /\ s.over => Naming!Applied(s, r) = s
           /\ ~s.over => Follows(Naming!Applied(s, r), s, r)
<1>1. r.ignore \in BOOLEAN /\ r.terminal \in BOOLEAN
  BY RuleFacts
<1> DEFINE h == Hit(s, r)
           A == [matched |-> s.matched \/ (h /\ ~r.ignore),
                 ignore |-> s.ignore \/ (h /\ r.ignore),
                 value |-> IF h /\ ~r.ignore THEN r.to ELSE s.value,
                 advanced |-> IF Naming!Remembers(r) /\ h THEN s.advanced \cup {r}
                              ELSE s.advanced \ {r},
                 over |-> h /\ r.terminal]
<1>2. Naming!Applied(s, r) = IF s.over THEN s ELSE A
  BY DEF Naming!Applied, Hit
<1>3. /\ A.matched = (s.matched \/ (h /\ ~r.ignore)) /\ A.ignore = (s.ignore \/ (h /\ r.ignore))
      /\ A.value = IF h /\ ~r.ignore THEN r.to ELSE s.value
      /\ A.advanced = IF Naming!Remembers(r) /\ h THEN s.advanced \cup {r} ELSE s.advanced \ {r}
      /\ A.over = (h /\ r.terminal)
      /\ A = [matched |-> A.matched, ignore |-> A.ignore, value |-> A.value,
              advanced |-> A.advanced, over |-> A.over]
  <2> HIDE DEF h
  <2> QED
    OBVIOUS
<1>4. h \in BOOLEAN
  BY DEF Hit
<1>5. A.matched \in BOOLEAN /\ A.ignore \in BOOLEAN /\ A.over \in BOOLEAN
  <2>1. s.matched \in BOOLEAN /\ s.ignore \in BOOLEAN
    BY DEF Knows
  <2> HIDE DEF h
  <2> QED
    BY <1>1, <1>4, <2>1
<1> HIDE DEF A
<1> QED
  BY <1>2, <1>3, <1>5 DEF Knows, Follows

(* normalize: the rules are applied one after the other. *)
LEMMA NormalizeRuns ==
    ASSUME NEW l \in Seq(Rules), NEW from, NEW v
    PROVE  \E f : Run(f, l, from, v) /\ Naming!Normalize(l, from, v) = f[Len(l)]
<1> DEFINE n == Len(l)
           V == {v} \cup {l[i].to : i \in 1..n}
           R == from \cup Rules
           B == [matched : BOOLEAN, ignore : BOOLEAN, value : V, advanced : SUBSET R,
                 over : BOOLEAN]
           G == [p \in (1..n) \X B |-> Naming!Applied(p[2], l[p[1]])]
           b == Begun(from, v)
<1>1. n \in Nat /\ \A k \in 1..n : l[k] \in Rules /\ l[k].to \in V
  OBVIOUS
<1>2. b \in B
  BY DEF Begun
<1>3. \A s \in B : Knows(s)
  BY DEF Knows
<1>4. ASSUME NEW k \in 1..n, NEW s \in B
      PROVE  Naming!Applied(s, l[k]) \in B
  <2> DEFINE r == l[k]
             t == Naming!Applied(s, r)
  <2>1. r \in Rules /\ r.to \in V /\ r \in R
    BY <1>1
  <2>2. s.value \in V /\ s.advanced \in SUBSET R
    OBVIOUS
  <2>3. Knows(s)
    BY <1>3
  <2> HIDE DEF V, R, n, r
  <2>4. CASE s.over
    <3>1. t = s
      BY <2>1, <2>3, <2>4, AppliedIs
    <3> QED
      BY <3>1 DEF t, r
  <2>5. CASE ~s.over
    <3>1. /\ t.value = IF Hit(s, r) /\ ~r.ignore THEN r.to ELSE s.value
          /\ t.advanced = IF Naming!Remembers(r) /\ Hit(s, r) THEN s.advanced \cup {r}
                          ELSE s.advanced \ {r}
          /\ Knows(t)
      <4>1. Knows(t) /\ Follows(t, s, r)
        BY <2>1, <2>3, <2>5, AppliedIs
      <4> HIDE DEF t
      <4> QED
        BY <4>1 DEF Follows
    <3>2. t.value \in V /\ t.advanced \in SUBSET R
      <4> HIDE DEF t
      <4> QED
        BY <2>1, <2>2, <3>1
    <3>3. t = [matched |-> t.matched, ignore |-> t.ignore, value |-> t.value,
               advanced |-> t.advanced, over |-> t.over]
          /\ t.matched \in BOOLEAN /\ t.ignore \in BOOLEAN /\ t.over \in BOOLEAN
      BY <3>1 DEF Knows
    <3> HIDE DEF t
    <3>4. t \in B
      BY <3>2, <3>3
    <3> QED
      BY <3>4 DEF t, r
  <2> QED
    BY <2>4, <2>5
<1> HIDE DEF B
<1>5. G \in [(1..n) \X B -> B] /\ \A k \in 1..n : \A s \in B : G[<<k, s>>] = Naming!Applied(s, l[k])
  <2> HIDE DEF n
  <2> QED
    BY <1>4
<1> HIDE DEF G, b
<1>6. PICK h : h \in [0..n -> B] /\ h[0] = b /\ \A k \in 1..n : h[k] = G[<<k, h[k - 1]>>]
  <2> HIDE DEF n
  <2>1. Step(G, n, B)
    BY <1>5 DEF Step
  <2>2. \E h : Solved(h, G, n, B, b)
    BY <1>1, <1>2, <2>1, Stepwise
  <2> QED
    BY <2>2 DEF Solved
<1>7. \A k \in 1..n : k \in 0..n /\ k - 1 \in 0..n /\ k # 0
  BY <1>1
<1> HIDE DEF n
<1>8. \A k \in 1..n : h[k] = Naming!Applied(h[k - 1], l[k])
  BY <1>5, <1>6, <1>7
<1>9. Run(h, l, from, v)
  <2>1. \A k \in 0..n : Knows(h[k])
    BY <1>3, <1>6
  <2> QED
    BY <1>6, <1>8, <2>1 DEF Run, b, n
<1> DEFINE D(f) == [k \in 0..n |-> IF k = 0
                        THEN [matched |-> FALSE, ignore |-> FALSE, value |-> v,
                              advanced |-> from, over |-> FALSE]
                        ELSE Naming!Applied(f[k - 1], l[k])]
           found == CHOOSE f : f = D(f)
<1>10. h = D(h)
  <2>1. \A k \in 0..n : k = 0 \/ k \in 1..n
    BY <1>1
  <2>2. b = [matched |-> FALSE, ignore |-> FALSE, value |-> v, advanced |-> from, over |-> FALSE]
    BY DEF b, Begun
  <2> QED
    BY <1>6, <1>8, <2>1, <2>2
<1>11. found = D(found)
  <2> HIDE DEF D
  <2> QED
    BY <1>10
<1>12. Naming!Normalize(l, from, v) = found[n]
  BY DEF Naming!Normalize, n
<1> DEFINE S == {k \in 0..n : found[k] = h[k]}
<1>13. ASSUME NEW k \in 0..n
       PROVE  found[k] = IF k = 0 THEN b ELSE Naming!Applied(found[k - 1], l[k])
  <2>1. found[k] = D(found)[k]
    BY <1>11
  <2> HIDE DEF found
  <2> QED
    BY <2>1 DEF b, Begun
<1> HIDE DEF found
<1>14. 0 \in S
  <2>1. 0 \in 0..n
    BY <1>1
  <2> QED
    BY <1>6, <1>13, <2>1
<1>15. ASSUME NEW k \in 1..n, k - 1 \in S
       PROVE  k \in S
  BY <1>7, <1>8, <1>13, <1>15
<1>16. n \in S
  <2> HIDE DEF S
  <2>1. 0..n \subseteq S
    BY <1>1, <1>14, <1>15, StepInduction
  <2> QED
    BY <1>1, <2>1
<1> QED
  BY <1>9, <1>12, <1>16 DEF n

Alike(a, m) == a.matched = m.matched /\ a.ignore = m.ignore /\ a.value = m.value

(* What rules remember can only change what becomes of a name that some    *)
(* rule is meant to ignore.                                                *)
LEMMA StepsAgree ==
    ASSUME NEW l \in Seq(Rules), NEW from, NEW v,
           NEW f, Run(f, l, {}, v), NEW g, Run(g, l, from, v)
    PROVE  \A k \in 0..Len(l) : \/ f[k].ignore
                                \/ /\ Alike(g[k], f[k]) /\ g[k].over = f[k].over
                                   /\ f[k].advanced = {} /\ g[k].advanced \subseteq from
<1> DEFINE n == Len(l)
           Same(k) == /\ Alike(g[k], f[k]) /\ g[k].over = f[k].over
                      /\ f[k].advanced = {} /\ g[k].advanced \subseteq from
           S == {k \in 0..n : f[k].ignore \/ Same(k)}
<1>1. n \in Nat /\ \A k \in 1..n : l[k] \in Rules /\ k - 1 \in 0..n /\ k \in 0..n
  OBVIOUS
<1>2. 0 \in S
  <2>1. f[0] = Begun({}, v) /\ g[0] = Begun(from, v) /\ 0 \in 0..n
    BY <1>1 DEF Run
  <2>2. Alike(Begun(from, v), Begun({}, v)) /\ Begun(from, v).over = Begun({}, v).over
        /\ Begun({}, v).advanced = {} /\ Begun(from, v).advanced = from
    BY DEF Begun, Alike
  <2> QED
    BY <2>1, <2>2
<1>3. ASSUME NEW k \in 1..n, k - 1 \in S
      PROVE  k \in S
  <2> DEFINE a == f[k - 1]
             b == g[k - 1]
             c == f[k]
             d == g[k]
             r == l[k]
  <2>1. r \in Rules /\ Knows(a) /\ Knows(b)
    BY <1>1 DEF Run
  <2>2. c = Naming!Applied(a, r) /\ d = Naming!Applied(b, r)
    BY DEF Run
  <2>3. a.ignore \/ (/\ Alike(b, a) /\ b.over = a.over /\ a.advanced = {}
                     /\ b.advanced \subseteq from)
    BY <1>3
  <2> HIDE DEF a, b, c, d, r
  <2>4. /\ a.over => c = a
        /\ b.over => d = b
        /\ ~a.over => Follows(c, a, r)
        /\ ~b.over => Follows(d, b, r)
    BY <2>1, <2>2, AppliedIs
  <2>5. c.ignore \/ (/\ Alike(d, c) /\ d.over = c.over /\ c.advanced = {}
                     /\ d.advanced \subseteq from)
    <3>1. CASE a.ignore
      BY <2>4, <3>1 DEF Follows
    <3>2. CASE ~a.ignore /\ a.over
      BY <2>3, <2>4, <3>2
    <3>3. CASE ~a.ignore /\ ~a.over /\ Hit(a, r) /\ r.ignore
      BY <2>4, <3>3 DEF Follows
    <3>4. CASE ~a.ignore /\ ~a.over /\ ~(Hit(a, r) /\ r.ignore)
      <4>1. r.ignore \in BOOLEAN /\ (Naming!Remembers(r) => r.ignore)
        BY <2>1, RuleFacts DEF Naming!Remembers
      <4>2. Alike(b, a) /\ ~b.over /\ a.advanced = {} /\ b.advanced \subseteq from
        BY <2>3, <3>4
      <4>3. Hit(b, r) = Hit(a, r)
        BY <3>4, <4>1, <4>2 DEF Hit, Alike
      <4>4. Follows(c, a, r) /\ Follows(d, b, r)
        BY <2>4, <3>4, <4>2
      <4>5. Alike(d, c) /\ d.over = c.over
        BY <4>2, <4>3, <4>4 DEF Follows, Alike
      <4>6. c.advanced = a.advanced \ {r} /\ d.advanced = b.advanced \ {r}
        <5>1. ~(Naming!Remembers(r) /\ Hit(a, r))
          BY <3>4, <4>1
        <5> QED
          BY <4>3, <4>4, <5>1 DEF Follows
      <4> QED
        BY <4>2, <4>5, <4>6
    <3> QED
      BY <3>1, <3>2, <3>3, <3>4
  <2> QED
    BY <1>1, <2>5 DEF c, d
<1> HIDE DEF S
<1>4. 0..n \subseteq S
  BY <1>1, <1>2, <1>3, StepInduction
<1> QED
  BY <1>4 DEF S

LEMMA SameUnlessIgnored ==
    ASSUME NEW l \in Seq(Rules), NEW from, NEW v,
           ~Naming!Normalize(l, {}, v).ignore
    PROVE  /\ Alike(Naming!Normalize(l, from, v), Naming!Normalize(l, {}, v))
           /\ Naming!Normalize(l, {}, v).advanced = {}
           /\ Naming!Normalize(l, from, v).advanced \subseteq from
<1>1. PICK f : Run(f, l, {}, v) /\ Naming!Normalize(l, {}, v) = f[Len(l)]
  BY NormalizeRuns
<1>2. PICK g : Run(g, l, from, v) /\ Naming!Normalize(l, from, v) = g[Len(l)]
  BY NormalizeRuns
<1> DEFINE n == Len(l)
<1>3. n \in 0..n
  OBVIOUS
<1>4. f[n].ignore \/ (/\ Alike(g[n], f[n]) /\ f[n].advanced = {} /\ g[n].advanced \subseteq from)
  <2>1. Run(f, l, {}, v) /\ Run(g, l, from, v)
    BY <1>1, <1>2
  <2> QED
    BY <1>3, <2>1, StepsAgree
<1> QED
  BY <1>1, <1>2, <1>4

(* A name that is meant to be ignored, and is not, is not because of one   *)
(* rule, which does not remember it any longer afterwards.                 *)
Excuses(r, from, s) == s.ignore \/ (r \in from /\ r \notin s.advanced /\ s.advanced \subseteq from)

LEMMA IgnoredTheSecondTime ==
    ASSUME NEW l \in Seq(Rules), NEW v, Naming!Normalize(l, {}, v).ignore
    PROVE  \E r : \A from : Excuses(r, from, Naming!Normalize(l, from, v))
<1>1. PICK f : Run(f, l, {}, v) /\ Naming!Normalize(l, {}, v) = f[Len(l)]
  BY NormalizeRuns
<1> DEFINE n == Len(l)
           One(k, r) == \A from : \A g : Run(g, l, from, v) => Excuses(r, from, g[k])
           S == {k \in 0..n : f[k].ignore => \E r : One(k, r)}
<1>2. n \in Nat /\ \A k \in 1..n : l[k] \in Rules /\ k - 1 \in 0..n /\ k \in 0..n
  OBVIOUS
<1>3. 0 \in S
  BY <1>1, <1>2 DEF Run, Begun
<1>4. ASSUME NEW k \in 1..n, k - 1 \in S
      PROVE  k \in S
  <2> SUFFICES ASSUME f[k].ignore
               PROVE  \E r : One(k, r)
    BY <1>2
  <2> DEFINE q == l[k]
  <2>1. q \in Rules /\ Knows(f[k - 1]) /\ f[k] = Naming!Applied(f[k - 1], q)
    BY <1>1, <1>2 DEF Run
  <2>2. CASE f[k - 1].ignore
    <3>1. PICK r : One(k - 1, r)
      BY <1>4, <2>2
    <3>2. ASSUME NEW from, NEW g, Run(g, l, from, v)
          PROVE  Excuses(r, from, g[k])
      <4> DEFINE b == g[k - 1]
                 d == g[k]
      <4>1. Knows(b) /\ d = Naming!Applied(b, q) /\ Excuses(r, from, b)
        BY <1>2, <3>1, <3>2 DEF Run
      <4> HIDE DEF b, d, q
      <4>2. (b.over => d = b) /\ (~b.over => Follows(d, b, q))
        BY <2>1, <4>1, AppliedIs
      <4>3. Excuses(r, from, d)
        <5>1. CASE b.over \/ b.ignore
          BY <4>1, <4>2, <5>1 DEF Follows, Excuses
        <5>2. CASE ~b.over /\ Hit(b, q) /\ q.ignore
          BY <4>2, <5>2 DEF Follows, Excuses
        <5>3. CASE ~b.over /\ ~b.ignore /\ ~(Hit(b, q) /\ q.ignore)
          <6>1. Naming!Remembers(q) => q.ignore
            BY DEF Naming!Remembers
          <6>2. d.advanced = b.advanced \ {q}
            BY <4>2, <5>3, <6>1 DEF Follows
          <6>3. r \in from /\ r \notin b.advanced /\ b.advanced \subseteq from
            BY <4>1, <5>3 DEF Excuses
          <6> QED
            BY <6>2, <6>3 DEF Excuses
        <5> QED
          BY <5>1, <5>2, <5>3
      <4> QED
        BY <4>3 DEF d
    <3> QED
      BY <3>2
  <2>3. CASE ~f[k - 1].ignore
    <3>1. ~f[k - 1].over /\ Hit(f[k - 1], q) /\ q.ignore
      <4> DEFINE a == f[k - 1]
                 c == f[k]
      <4>1. Knows(a) /\ c = Naming!Applied(a, q) /\ c.ignore /\ ~a.ignore
        BY <2>1, <2>3
      <4> HIDE DEF a, c, q
      <4>2. (a.over => c = a) /\ (~a.over => Follows(c, a, q))
        BY <2>1, <4>1, AppliedIs
      <4>3. ~a.over /\ Hit(a, q) /\ q.ignore
        BY <4>1, <4>2 DEF Follows
      <4> QED
        BY <4>3 DEF a
    <3>2. ASSUME NEW from, NEW g, Run(g, l, from, v)
          PROVE  Excuses(q, from, g[k])
      <4> DEFINE a == f[k - 1]
                 b == g[k - 1]
                 d == g[k]
      <4>1. Knows(b) /\ d = Naming!Applied(b, q)
        BY <1>2, <3>2 DEF Run
      <4>2. Alike(b, a) /\ b.over = a.over /\ b.advanced \subseteq from
        <5>1. k - 1 \in 0..n /\ Run(f, l, {}, v)
          BY <1>1, <1>2
        <5>2. \A j \in 0..n : \/ f[j].ignore
                              \/ /\ Alike(g[j], f[j]) /\ g[j].over = f[j].over
                                 /\ f[j].advanced = {} /\ g[j].advanced \subseteq from
          BY <3>2, <5>1, StepsAgree
        <5> QED
          BY <2>3, <5>1, <5>2
      <4>3. ~a.over /\ Hit(a, q) /\ q.ignore
        BY <3>1
      <4> HIDE DEF a, b, d, q
      <4>4. Follows(d, b, q)
        <5>1. ~b.over /\ q \in Rules
          BY <2>1, <4>2, <4>3 DEF q
        <5> QED
          BY <4>1, <5>1, AppliedIs
      <4>5. b.value \in q.matches
        BY <4>2, <4>3 DEF Hit, Alike
      <4>6. Excuses(q, from, d)
        <5>1. CASE Naming!Remembers(q) /\ q \in b.advanced
          <6>1. ~Hit(b, q)
            BY <5>1 DEF Hit
          <6>2. d.advanced = b.advanced \ {q}
            BY <4>4, <6>1 DEF Follows
          <6> QED
            BY <4>2, <5>1, <6>2 DEF Excuses
        <5>2. CASE ~(Naming!Remembers(q) /\ q \in b.advanced)
          <6>1. Hit(b, q)
            BY <4>5, <5>2 DEF Hit
          <6> QED
            BY <4>3, <4>4, <6>1 DEF Follows, Excuses
        <5> QED
          BY <5>1, <5>2
      <4> QED
        BY <4>6 DEF d
    <3> QED
      BY <3>2
  <2> QED
    BY <2>2, <2>3
<1>5. n \in S
  <2> HIDE DEF S
  <2>1. 0..n \subseteq S
    BY <1>2, <1>3, <1>4, StepInduction
  <2> QED
    BY <1>2, <2>1
<1>6. PICK r : One(n, r)
  BY <1>1, <1>5
<1>7. ASSUME NEW from
      PROVE  Excuses(r, from, Naming!Normalize(l, from, v))
  <2>1. PICK g : Run(g, l, from, v) /\ Naming!Normalize(l, from, v) = g[Len(l)]
    BY NormalizeRuns
  <2> QED
    BY <1>6, <2>1
<1> QED
  BY <1>7

(* Rules that do not remember make the same of a name each time. *)
LEMMA SameWithoutMemory ==
    ASSUME NEW l \in Seq(Rules), \A r \in Naming!InList(l) : ~Naming!Remembers(r),
           NEW from, NEW v
    PROVE  /\ Alike(Naming!Normalize(l, from, v), Naming!Normalize(l, {}, v))
           /\ Naming!Normalize(l, from, v).advanced \subseteq from
<1>1. PICK f : Run(f, l, {}, v) /\ Naming!Normalize(l, {}, v) = f[Len(l)]
  BY NormalizeRuns
<1>2. PICK g : Run(g, l, from, v) /\ Naming!Normalize(l, from, v) = g[Len(l)]
  BY NormalizeRuns
<1> DEFINE n == Len(l)
           S == {k \in 0..n : /\ Alike(g[k], f[k]) /\ g[k].over = f[k].over
                              /\ g[k].advanced \subseteq from}
<1>3. n \in Nat /\ \A k \in 1..n : l[k] \in Rules /\ k - 1 \in 0..n /\ k \in 0..n
                                    /\ ~Naming!Remembers(l[k])
  BY DEF Naming!InList
<1>4. 0 \in S
  <2>1. f[0] = Begun({}, v) /\ g[0] = Begun(from, v) /\ 0 \in 0..n
    BY <1>1, <1>2, <1>3 DEF Run
  <2>2. Alike(Begun(from, v), Begun({}, v)) /\ Begun(from, v).over = Begun({}, v).over
        /\ Begun(from, v).advanced = from
    BY DEF Begun, Alike
  <2> QED
    BY <2>1, <2>2
<1>5. ASSUME NEW k \in 1..n, k - 1 \in S
      PROVE  k \in S
  <2> DEFINE a == f[k - 1]
             b == g[k - 1]
             c == f[k]
             d == g[k]
             r == l[k]
  <2>1. r \in Rules /\ Knows(a) /\ Knows(b) /\ ~Naming!Remembers(r)
    BY <1>1, <1>2, <1>3 DEF Run
  <2>2. c = Naming!Applied(a, r) /\ d = Naming!Applied(b, r)
    BY <1>1, <1>2 DEF Run
  <2>3. Alike(b, a) /\ b.over = a.over /\ b.advanced \subseteq from
    BY <1>5
  <2> HIDE DEF a, b, c, d, r
  <2>4. /\ a.over => c = a
        /\ b.over => d = b
        /\ ~a.over => Follows(c, a, r)
        /\ ~b.over => Follows(d, b, r)
    BY <2>1, <2>2, AppliedIs
  <2>5. Hit(b, r) = Hit(a, r)
    BY <2>1, <2>3 DEF Hit, Alike
  <2>6. Alike(d, c) /\ d.over = c.over /\ d.advanced \subseteq from
    <3>1. CASE a.over
      BY <2>3, <2>4, <3>1
    <3>2. CASE ~a.over
      <4>1. d.advanced = b.advanced \ {r}
        BY <2>1, <2>3, <2>4, <3>2 DEF Follows
      <4>2. Alike(d, c) /\ d.over = c.over
        BY <2>3, <2>4, <2>5, <3>2 DEF Follows, Alike
      <4> QED
        BY <2>3, <4>1, <4>2
    <3> QED
      BY <3>1, <3>2
  <2> QED
    BY <1>3, <2>6 DEF c, d
<1>6. n \in S
  <2> HIDE DEF S
  <2>1. 0..n \subseteq S
    BY <1>3, <1>4, <1>5, StepInduction
  <2> QED
    BY <1>3, <2>1
<1> QED
  BY <1>1, <1>2, <1>6

(* A rule before others takes over from them, or leaves the name to them.  *)
LEMMA RuleBefore ==
    ASSUME NEW l \in Seq(Rules), NEW r \in Rules, NEW v,
           LET s == Naming!Normalize(l, {}, v) IN s.matched \/ s.ignore
    PROVE  LET t == Naming!Normalize(<<r>> \o l, {}, v) IN t.matched \/ t.ignore
<1> DEFINE n == Len(l)
           m == <<r>> \o l
<1>1. /\ n \in Nat /\ m \in Seq(Rules) /\ Len(m) = n + 1 /\ m[1] = r
      /\ \A k \in 1..n : l[k] \in Rules /\ m[k + 1] = l[k] /\ k - 1 \in 0..n /\ k \in 0..n
  OBVIOUS
<1> HIDE DEF m
<1>2. PICK f : Run(f, l, {}, v) /\ Naming!Normalize(l, {}, v) = f[n]
  BY NormalizeRuns
<1>3. PICK g : Run(g, m, {}, v) /\ Naming!Normalize(m, {}, v) = g[n + 1]
  BY <1>1, NormalizeRuns
<1>4. ASSUME NEW k \in 1..n
      PROVE  /\ f[k] = Naming!Applied(f[k - 1], l[k]) /\ Knows(f[k - 1])
             /\ g[k + 1] = Naming!Applied(g[k], l[k]) /\ Knows(g[k])
  <2>1. k + 1 \in 1..(n + 1) /\ k \in 0..(n + 1) /\ (k + 1) - 1 = k
    BY <1>1
  <2>2. g[k + 1] = Naming!Applied(g[k], m[k + 1]) /\ Knows(g[k])
    BY <1>1, <1>3, <2>1 DEF Run
  <2> QED
    BY <1>1, <1>2, <2>2 DEF Run
<1> DEFINE S == {k \in 0..n : g[k + 1].matched \/ g[k + 1].ignore \/ g[k + 1] = f[k]}
<1>5. 0 \in S
  <2> DEFINE a == g[0]
             c == g[1]
  <2>1. 1 \in 1..(n + 1) /\ 1 - 1 = 0 /\ 0 \in 0..(n + 1) /\ 0 \in 0..n /\ 0 + 1 = 1
    BY <1>1
  <2>2. a = Begun({}, v) /\ Knows(a) /\ c = Naming!Applied(a, r) /\ f[0] = Begun({}, v)
    BY <1>1, <1>2, <1>3, <2>1 DEF Run
  <2> HIDE DEF a, c
  <2>3. Knows(c) /\ (~a.over => Follows(c, a, r))
    BY <2>2, AppliedIs
  <2>4. /\ a.over = FALSE /\ a.matched = FALSE /\ a.ignore = FALSE /\ a.advanced = {}
        /\ a.value = v
    BY <2>2 DEF Begun
  <2>5. r.ignore \in BOOLEAN
    BY RuleFacts
  <2>6. c.matched \/ c.ignore \/ c = f[0]
    <3>1. CASE Hit(a, r)
      BY <2>3, <2>4, <2>5, <3>1 DEF Follows
    <3>2. CASE ~Hit(a, r)
      <4>1. /\ c.matched = FALSE /\ c.ignore = FALSE /\ c.value = v /\ c.over = FALSE
            /\ c.advanced = {}
        BY <2>3, <2>4, <3>2 DEF Follows
      <4> QED
        BY <2>2, <2>3, <4>1 DEF Begun, Knows
    <3> QED
      BY <3>1, <3>2
  <2> QED
    BY <2>1, <2>6 DEF c
<1>6. ASSUME NEW k \in 1..n, k - 1 \in S
      PROVE  k \in S
  <2> DEFINE a == f[k - 1]
             b == g[k]
             d == g[k + 1]
             q == l[k]
  <2>1. q \in Rules /\ Knows(b) /\ d = Naming!Applied(b, q) /\ f[k] = Naming!Applied(a, q)
    BY <1>1, <1>4
  <2>2. b.matched \/ b.ignore \/ b = a
    <3>1. (k - 1) + 1 = k
      OBVIOUS
    <3> QED
      BY <1>6, <3>1
  <2> HIDE DEF a, b, d, q
  <2>3. (b.over => d = b) /\ (~b.over => Follows(d, b, q))
    BY <2>1, AppliedIs
  <2>4. d.matched \/ d.ignore \/ d = f[k]
    BY <2>1, <2>2, <2>3 DEF Follows
  <2> QED
    BY <1>1, <2>4 DEF d
<1>7. n \in S
  <2> HIDE DEF S
  <2>1. 0..n \subseteq S
    BY <1>1, <1>5, <1>6, StepInduction
  <2> QED
    BY <1>1, <2>1
<1>8. g[n + 1].matched \/ g[n + 1].ignore
  BY <1>2, <1>7
<1> QED
  BY <1>3, <1>8 DEF m

-----------------------------------------------------------------------------
(* The rules for names: what the lists together make of a request *)

LEMMA NormalizeKnows ==
    ASSUME NEW l \in Seq(Rules), NEW from, NEW v
    PROVE  Knows(Naming!Normalize(l, from, v))
<1>1. PICK f : Run(f, l, from, v) /\ Naming!Normalize(l, from, v) = f[Len(l)]
  BY NormalizeRuns
<1>2. Len(l) \in 0..Len(l)
  OBVIOUS
<1> QED
  BY <1>1, <1>2 DEF Run

(* What is found, s, is what is meant, m, unless it is meant to be ignored. *)
Meets(s, m, from) ==
    ~m.ignore => Alike(s, m) /\ m.advanced = {} /\ s.advanced \subseteq from

(* Behind the rules of the user, of which u is found and w is meant, no    *)
(* rule remembers.                                                         *)
AlsoIgnores(s, m, u, w) ==
    /\ u.ignore => s.ignore
    /\ w.ignore => m.ignore
    /\ s.advanced \subseteq u.advanced
    /\ ~w.ignore => Alike(s, m)

Forgetful(l) == \A r \in Naming!InList(l) : ~Naming!Remembers(r)

LEMMA NormalizeMeets ==
    ASSUME NEW l \in Seq(Rules), NEW from, NEW v
    PROVE  Meets(Naming!Normalize(l, from, v), Naming!Normalize(l, {}, v), from)
<1> SUFFICES ASSUME ~Naming!Normalize(l, {}, v).ignore
             PROVE  /\ Alike(Naming!Normalize(l, from, v), Naming!Normalize(l, {}, v))
                    /\ Naming!Normalize(l, {}, v).advanced = {}
                    /\ Naming!Normalize(l, from, v).advanced \subseteq from
  BY DEF Meets
<1> QED
  BY SameUnlessIgnored

LEMMA UserRules ==
    ASSUME NEW l \in Seq(Rules), NEW k \in Seq(Rules), NEW from, NEW p,
           NEW m, m = Naming!Normalize(l, from, p),
           NEW t, t = Naming!Normalize(k, m.advanced, m.value),
           NEW u, u = Naming!RunUserNamingRules(l, k, from, p)
    PROVE  /\ Knows(u) /\ u.matched = m.matched
           /\ ~m.matched => u = m
           /\ m.matched => /\ u.ignore = (t.ignore \/ m.ignore)
                           /\ u.value = Naming!Normalized(t.value) /\ u.advanced = t.advanced
<1>1. Knows(m) /\ Knows(t)
  BY NormalizeKnows
<1> DEFINE w == [t EXCEPT !.matched = TRUE, !.ignore = @ \/ m.ignore,
                          !.value = Naming!Normalized(@)]
<1>2. u = IF ~m.matched THEN m ELSE w
  BY DEF Naming!RunUserNamingRules
<1>3. /\ w.matched = TRUE /\ w.ignore = (t.ignore \/ m.ignore)
      /\ w.value = Naming!Normalized(t.value) /\ w.advanced = t.advanced /\ w.over = t.over
      /\ DOMAIN w = {"matched", "ignore", "value", "advanced", "over"}
      /\ w = [x \in DOMAIN w |-> w[x]]
  BY <1>1 DEF Knows
<1> HIDE DEF w
<1>4. w = [matched |-> w.matched, ignore |-> w.ignore, value |-> w.value,
           advanced |-> w.advanced, over |-> w.over]
  BY <1>3
<1>5. Knows(w)
  <2>1. w.matched \in BOOLEAN /\ w.ignore \in BOOLEAN /\ w.over \in BOOLEAN
    BY <1>1, <1>3 DEF Knows
  <2> QED
    BY <1>4, <2>1 DEF Knows
<1>6. m.matched \in BOOLEAN
  BY <1>1 DEF Knows
<1> QED
  BY <1>1, <1>2, <1>3, <1>5, <1>6

LEMMA UserMeets ==
    ASSUME NEW l \in Seq(Rules), NEW k \in Seq(Rules), NEW from, NEW p
    PROVE  Meets(Naming!RunUserNamingRules(l, k, from, p),
                 Naming!RunUserNamingRules(l, k, {}, p), from)
<1> DEFINE m == Naming!Normalize(l, from, p)
           n == Naming!Normalize(l, {}, p)
           t == Naming!Normalize(k, m.advanced, m.value)
           s == Naming!Normalize(k, n.advanced, n.value)
           u == Naming!RunUserNamingRules(l, k, from, p)
           w == Naming!RunUserNamingRules(l, k, {}, p)
<1>1. /\ u.matched = m.matched
      /\ ~m.matched => u = m
      /\ m.matched => /\ u.ignore = (t.ignore \/ m.ignore)
                      /\ u.value = Naming!Normalized(t.value) /\ u.advanced = t.advanced
  BY UserRules
<1>2. /\ w.matched = n.matched
      /\ ~n.matched => w = n
      /\ n.matched => /\ w.ignore = (s.ignore \/ n.ignore)
                      /\ w.value = Naming!Normalized(s.value) /\ w.advanced = s.advanced
  BY UserRules
<1>3. Meets(m, n, from)
  BY NormalizeMeets
<1>4. \A d, v : Meets(Naming!Normalize(k, d, v), Naming!Normalize(k, {}, v), d)
  BY NormalizeMeets
<1>5. Knows(m) /\ Knows(n) /\ Knows(s) /\ Knows(t)
  BY NormalizeKnows
<1> SUFFICES ASSUME ~w.ignore
             PROVE  Alike(u, w) /\ w.advanced = {} /\ u.advanced \subseteq from
  BY DEF Meets
<1>6. ~n.ignore
  BY <1>2, <1>5 DEF Knows
<1>7. Alike(m, n) /\ n.advanced = {} /\ m.advanced \subseteq from
  BY <1>3, <1>6 DEF Meets
<1>8. CASE ~n.matched
  <2>1. u = m /\ w = n
    BY <1>1, <1>2, <1>7, <1>8 DEF Alike
  <2> HIDE DEF u, w, m, n
  <2> QED
    BY <1>7, <2>1
<1>9. CASE n.matched
  <2>1. n.advanced = {} /\ m.value = n.value
    BY <1>7 DEF Alike
  <2>2. s = Naming!Normalize(k, {}, m.value)
    BY <2>1
  <2>3. Meets(t, s, m.advanced) /\ ~s.ignore
    BY <1>2, <1>4, <1>5, <1>9, <2>2
  <2>4. Alike(t, s) /\ s.advanced = {} /\ t.advanced \subseteq m.advanced
    BY <2>3 DEF Meets
  <2> HIDE DEF u, w, m, n, s, t
  <2>5. Alike(u, w)
    BY <1>1, <1>2, <1>7, <1>9, <2>4 DEF Alike
  <2> QED
    BY <1>1, <1>2, <1>7, <1>9, <2>4, <2>5 DEF Alike
<1> QED
  BY <1>5, <1>8, <1>9 DEF Knows

LEMMA UserAdds ==
    ASSUME NEW l \in Seq(Rules), NEW k \in Seq(Rules), Forgetful(k), NEW from, NEW p
    PROVE  AlsoIgnores(Naming!RunUserNamingRules(l, k, from, p),
                Naming!RunUserNamingRules(l, k, {}, p),
                Naming!Normalize(l, from, p), Naming!Normalize(l, {}, p))
<1> DEFINE m == Naming!Normalize(l, from, p)
           n == Naming!Normalize(l, {}, p)
           t == Naming!Normalize(k, m.advanced, m.value)
           s == Naming!Normalize(k, n.advanced, n.value)
           u == Naming!RunUserNamingRules(l, k, from, p)
           w == Naming!RunUserNamingRules(l, k, {}, p)
<1>1. /\ u.matched = m.matched
      /\ ~m.matched => u = m
      /\ m.matched => /\ u.ignore = (t.ignore \/ m.ignore)
                      /\ u.value = Naming!Normalized(t.value) /\ u.advanced = t.advanced
  BY UserRules
<1>2. /\ w.matched = n.matched
      /\ ~n.matched => w = n
      /\ n.matched => /\ w.ignore = (s.ignore \/ n.ignore)
                      /\ w.value = Naming!Normalized(s.value) /\ w.advanced = s.advanced
  BY UserRules
<1>3. Meets(m, n, from)
  BY NormalizeMeets
<1>4. \A d, v : Alike(Naming!Normalize(k, d, v), Naming!Normalize(k, {}, v))
                /\ Naming!Normalize(k, d, v).advanced \subseteq d
  BY SameWithoutMemory DEF Forgetful
<1>5. Knows(m) /\ Knows(n)
  BY NormalizeKnows
<1>6. t.advanced \subseteq m.advanced
  BY <1>4
<1>7. ~n.ignore => Alike(m, n) /\ (n.matched => Alike(t, s))
  <2> SUFFICES ASSUME ~n.ignore
               PROVE  Alike(m, n) /\ Alike(t, s)
    OBVIOUS
  <2>1. Alike(m, n) /\ n.advanced = {}
    BY <1>3 DEF Meets
  <2>2. s = Naming!Normalize(k, {}, m.value)
    BY <2>1 DEF Alike
  <2> QED
    BY <1>4, <2>1, <2>2
<1>8. m.matched \in BOOLEAN /\ n.matched \in BOOLEAN
  BY <1>5 DEF Knows
<1> HIDE DEF u, w, m, n, s, t
<1>9. (m.ignore => u.ignore) /\ (n.ignore => w.ignore) /\ u.advanced \subseteq m.advanced
  BY <1>1, <1>2, <1>6, <1>8
<1>10. ~n.ignore => Alike(u, w)
  BY <1>1, <1>2, <1>7, <1>8 DEF Alike
<1> QED
  BY <1>9, <1>10 DEF AlsoIgnores, u, w, m, n

(* _partialNameFromUri, without the form of the record: u is what the rules *)
(* of the user make of the path, s what those of the server do.             *)
Routed(t) == IF t.routed THEN <<"route">> ELSE t.partial
HasName(t) == Routed(t) # Naming!NoName \/ t.status = "missing"
PartialOf(a, u, s, t) ==
    /\ u.matched => a = u
    /\ ~u.matched /\ HasName(t)
         => /\ a.ignore = u.ignore /\ a.advanced = u.advanced
            /\ a.value = IF Routed(t) # Naming!NoName THEN Routed(t) ELSE <<"(not found)">>
    /\ ~u.matched /\ ~HasName(t)
         => /\ a.ignore = (s.ignore \/ u.ignore) /\ a.advanced = s.advanced
            /\ a.value = IF s.matched THEN Naming!Normalized(s.value) ELSE Naming!Backstop

LEMMA PartialIs ==
    ASSUME NEW l \in Seq(Rules), NEW k \in Seq(Rules), NEW from, NEW t
    PROVE  LET u == Naming!RunUserNamingRules(l, k, from, t.path)
           IN  PartialOf(Naming!PartialNameFromUri(l, k, from, t), u,
                         Naming!Normalize(k, u.advanced, t.path), t)
<1> DEFINE u == Naming!RunUserNamingRules(l, k, from, t.path)
           s == Naming!Normalize(k, u.advanced, t.path)
           a == Naming!PartialNameFromUri(l, k, from, t)
           q == Routed(t)
           A(x) == [u EXCEPT !.value = x]
           C == [s EXCEPT !.ignore = @ \/ u.ignore,
                          !.value = IF s.matched THEN Naming!Normalized(@) ELSE Naming!Backstop]
<1>1. Knows(u)
  BY UserRules
<1>2. Knows(s)
  BY NormalizeKnows
<1>3. a = IF u.matched THEN u ELSE IF q # Naming!NoName THEN A(q)
          ELSE IF t.status = "missing" THEN A(<<"(not found)">>) ELSE C
  BY DEF Naming!PartialNameFromUri, Naming!PartialFrom, Routed
<1> HIDE DEF u, s, a, q
<1>4. \A x : A(x).ignore = u.ignore /\ A(x).advanced = u.advanced /\ A(x).value = x
  BY <1>1 DEF Knows
<1>5. /\ C.ignore = (s.ignore \/ u.ignore) /\ C.advanced = s.advanced
      /\ C.value = IF s.matched THEN Naming!Normalized(s.value) ELSE Naming!Backstop
  BY <1>2 DEF Knows
<1> HIDE DEF A, C
<1>6. HasName(t) = (q # Naming!NoName \/ t.status = "missing")
  BY DEF HasName, q
<1> QED
  BY <1>3, <1>4, <1>5, <1>6 DEF PartialOf, u, s, a, q

LEMMA PartialMeets ==
    ASSUME NEW l \in Seq(Rules), NEW k \in Seq(Rules), NEW from, NEW t
    PROVE  LET s == Naming!PartialNameFromUri(l, k, from, t)
               m == Naming!PartialNameFromUri(l, k, {}, t)
           IN  ~m.ignore => /\ s.ignore = m.ignore /\ s.value = m.value
                            /\ m.advanced = {} /\ s.advanced \subseteq from
<1> DEFINE u == Naming!RunUserNamingRules(l, k, from, t.path)
           w == Naming!RunUserNamingRules(l, k, {}, t.path)
           x == Naming!Normalize(k, u.advanced, t.path)
           y == Naming!Normalize(k, w.advanced, t.path)
           s == Naming!PartialNameFromUri(l, k, from, t)
           m == Naming!PartialNameFromUri(l, k, {}, t)
<1>1. PartialOf(s, u, x, t)
  BY PartialIs
<1>2. PartialOf(m, w, y, t)
  BY PartialIs
<1>3. Meets(u, w, from)
  BY UserMeets
<1>4. \A d : Meets(Naming!Normalize(k, d, t.path), Naming!Normalize(k, {}, t.path), d)
  BY NormalizeMeets
<1> SUFFICES ASSUME ~m.ignore
             PROVE  /\ s.ignore = m.ignore /\ s.value = m.value
                    /\ m.advanced = {} /\ s.advanced \subseteq from
  OBVIOUS
<1>5. Knows(w) /\ Knows(u)
  BY UserRules
<1>6. ~w.ignore
  BY <1>2 DEF PartialOf
<1>7. Alike(u, w) /\ w.advanced = {} /\ u.advanced \subseteq from
  BY <1>3, <1>6 DEF Meets
<1>8. ~w.matched /\ ~HasName(t) => Alike(x, y) /\ y.advanced = {} /\ x.advanced \subseteq u.advanced
  <2> SUFFICES ASSUME ~w.matched, ~HasName(t)
               PROVE  Alike(x, y) /\ y.advanced = {} /\ x.advanced \subseteq u.advanced
    OBVIOUS
  <2>1. y = Naming!Normalize(k, {}, t.path)
    BY <1>7
  <2>2. Meets(x, y, u.advanced)
    BY <1>4, <2>1
  <2>3. ~y.ignore
    BY <1>2 DEF PartialOf
  <2> QED
    BY <2>2, <2>3 DEF Meets
<1> HIDE DEF u, w, x, y, s, m
<1>9. CASE w.matched
  BY <1>1, <1>2, <1>7, <1>9 DEF Alike, PartialOf
<1>10. CASE ~w.matched /\ HasName(t)
  BY <1>1, <1>2, <1>7, <1>10 DEF Alike, PartialOf
<1>11. CASE ~w.matched /\ ~HasName(t)
  BY <1>1, <1>2, <1>7, <1>8, <1>11 DEF Alike, PartialOf
<1> QED
  BY <1>9, <1>10, <1>11

LEMMA PartialAdds ==
    ASSUME NEW l \in Seq(Rules), NEW k \in Seq(Rules), Forgetful(k), NEW from, NEW t
    PROVE  LET s == Naming!PartialNameFromUri(l, k, from, t)
               m == Naming!PartialNameFromUri(l, k, {}, t)
               u == Naming!Normalize(l, from, t.path)
               w == Naming!Normalize(l, {}, t.path)
           IN  /\ u.ignore => s.ignore
               /\ w.ignore => m.ignore
               /\ s.advanced \subseteq u.advanced
               /\ ~w.ignore => s.ignore = m.ignore /\ s.value = m.value
<1> DEFINE u == Naming!RunUserNamingRules(l, k, from, t.path)
           w == Naming!RunUserNamingRules(l, k, {}, t.path)
           a == Naming!Normalize(l, from, t.path)
           b == Naming!Normalize(l, {}, t.path)
           x == Naming!Normalize(k, u.advanced, t.path)
           y == Naming!Normalize(k, w.advanced, t.path)
           s == Naming!PartialNameFromUri(l, k, from, t)
           m == Naming!PartialNameFromUri(l, k, {}, t)
<1>1. PartialOf(s, u, x, t)
  BY PartialIs
<1>2. PartialOf(m, w, y, t)
  BY PartialIs
<1>3. AlsoIgnores(u, w, a, b)
  BY UserAdds
<1>4. \A d : Alike(Naming!Normalize(k, d, t.path), Naming!Normalize(k, {}, t.path))
             /\ Naming!Normalize(k, d, t.path).advanced \subseteq d
  BY SameWithoutMemory DEF Forgetful
<1>5. Alike(x, y) /\ x.advanced \subseteq u.advanced
  BY <1>4 DEF Alike
<1> HIDE DEF u, w, a, b, x, y, s, m
<1>6. /\ a.ignore => s.ignore
      /\ b.ignore => m.ignore
      /\ s.advanced \subseteq a.advanced
  <2>1. (u.ignore => s.ignore) /\ (w.ignore => m.ignore) /\ s.advanced \subseteq u.advanced
    BY <1>1, <1>2, <1>5 DEF PartialOf
  <2> QED
    BY <1>3, <2>1 DEF AlsoIgnores
<1>7. ~b.ignore => s.ignore = m.ignore /\ s.value = m.value
  <2> SUFFICES ASSUME ~b.ignore
               PROVE  s.ignore = m.ignore /\ s.value = m.value
    OBVIOUS
  <2>1. Alike(u, w)
    BY <1>3 DEF AlsoIgnores
  <2> QED
    BY <1>1, <1>2, <1>5, <2>1 DEF Alike, PartialOf
<1> QED
  BY <1>6, <1>7 DEF a, b, s, m

(* getFullName. *)
LEMMA FullMeets ==
    ASSUME NEW l \in Seq(Rules), NEW k \in Seq(Rules), NEW j \in Seq(Rules), NEW from, NEW t
    PROVE  LET s == Naming!FullName(l, k, j, from, t)
               m == Naming!FullName(l, k, j, {}, t)
           IN  ~m.ignore => ~s.ignore /\ s.partial = m.partial /\ s.name = m.name
<1> DEFINE P(d) == IF t.force
                   THEN [matched |-> TRUE, ignore |-> FALSE, value |-> <<"custom">>,
                         advanced |-> d, over |-> TRUE]
                   ELSE Naming!PartialNameFromUri(l, k, d, t)
           F(d) == Naming!Normalize(j, P(d).advanced, P(d).value)
           s == Naming!FullName(l, k, j, from, t)
           m == Naming!FullName(l, k, j, {}, t)
           a == P(from)
           b == P({})
           c == F(from)
           d == F({})
<1>1. s = [ignore |-> a.ignore \/ c.ignore, partial |-> a.value, name |-> c.value,
           advanced |-> c.advanced]
      /\ m = [ignore |-> b.ignore \/ d.ignore, partial |-> b.value, name |-> d.value,
           advanced |-> d.advanced]
  BY DEF Naming!FullName, Naming!FullFrom
<1>2. ~b.ignore => /\ a.ignore = b.ignore /\ a.value = b.value /\ b.advanced = {}
                   /\ a.advanced \subseteq from
  <2>1. CASE t.force
    BY <2>1
  <2>2. CASE ~t.force
    BY <2>2, PartialMeets
  <2> QED
    BY <2>1, <2>2
<1>3. \A e, v : Meets(Naming!Normalize(j, e, v), Naming!Normalize(j, {}, v), e)
  BY NormalizeMeets
<1>4. b.advanced = {} /\ a.value = b.value => Meets(c, d, a.advanced)
  <2> HIDE DEF P
  <2> QED
    BY <1>3
<1>5. Knows(c) /\ Knows(d)
  <2> HIDE DEF P
  <2> QED
    BY NormalizeKnows
<1> HIDE DEF a, b, c, d, s, m
<1> SUFFICES ASSUME ~m.ignore
             PROVE  ~s.ignore /\ s.partial = m.partial /\ s.name = m.name
  BY DEF s, m
<1>6. ~b.ignore /\ ~d.ignore
  BY <1>1
<1>7. Alike(c, d)
  BY <1>2, <1>4, <1>6 DEF Meets
<1> QED
  BY <1>1, <1>2, <1>6, <1>7 DEF Alike

LEMMA FullAdds ==
    ASSUME NEW l \in Seq(Rules), NEW k \in Seq(Rules), NEW j \in Seq(Rules), NEW from, NEW t,
           Forgetful(k), Forgetful(j), ~t.force
    PROVE  LET s == Naming!FullName(l, k, j, from, t)
               m == Naming!FullName(l, k, j, {}, t)
               u == Naming!Normalize(l, from, t.path)
               w == Naming!Normalize(l, {}, t.path)
           IN  /\ u.ignore => s.ignore
               /\ w.ignore => m.ignore
               /\ s.advanced \subseteq u.advanced
               /\ ~w.ignore => s.ignore = m.ignore
<1> DEFINE P(d) == Naming!PartialNameFromUri(l, k, d, t)
           F(d) == Naming!Normalize(j, P(d).advanced, P(d).value)
           s == Naming!FullName(l, k, j, from, t)
           m == Naming!FullName(l, k, j, {}, t)
           a == P(from)
           b == P({})
           c == F(from)
           d == F({})
           u == Naming!Normalize(l, from, t.path)
           w == Naming!Normalize(l, {}, t.path)
<1>1. s = [ignore |-> a.ignore \/ c.ignore, partial |-> a.value, name |-> c.value,
           advanced |-> c.advanced]
      /\ m = [ignore |-> b.ignore \/ d.ignore, partial |-> b.value, name |-> d.value,
           advanced |-> d.advanced]
  BY DEF Naming!FullName, Naming!FullFrom
<1>2. /\ u.ignore => a.ignore
      /\ w.ignore => b.ignore
      /\ a.advanced \subseteq u.advanced
      /\ ~w.ignore => a.ignore = b.ignore /\ a.value = b.value
  BY PartialAdds
<1>3. \A e, v : Alike(Naming!Normalize(j, e, v), Naming!Normalize(j, {}, v))
                /\ Naming!Normalize(j, e, v).advanced \subseteq e
  BY SameWithoutMemory DEF Forgetful
<1>4. c.advanced \subseteq a.advanced /\ (a.value = b.value => c.ignore = d.ignore)
  <2> HIDE DEF P
  <2> QED
    BY <1>3 DEF Alike
<1> HIDE DEF a, b, c, d, s, m, u, w
<1>5. /\ u.ignore => s.ignore
      /\ w.ignore => m.ignore
      /\ s.advanced \subseteq u.advanced
      /\ ~w.ignore => s.ignore = m.ignore
  BY <1>1, <1>2, <1>4
<1> QED
  BY <1>5 DEF s, m, u, w

-----------------------------------------------------------------------------
(* The rules for names: lists in the order of precedence *)

(* L orders D; p lists P, a part of it, in that order.                      *)
Orders(L, D) ==
    /\ \A i \in D : <<i, i>> \notin L
    /\ \A i, j \in D : i # j => <<i, j>> \in L \/ <<j, i>> \in L
    /\ \A i, j, k \in D : <<i, j>> \in L /\ <<j, k>> \in L => <<i, k>> \in L
Ranked(p, n, P, L) ==
    /\ p \in [1..n -> P]
    /\ \A x \in P : \E a \in 1..n : p[a] = x
    /\ \A a, b \in 1..n : a < b => <<p[a], p[b]>> \in L

LEMMA RankedInsert ==
    ASSUME NEW D, NEW L, Orders(L, D), NEW P, P \subseteq D, NEW k \in D, k \notin P,
           NEW n \in Nat, NEW p, Ranked(p, n, P, L), NEW c \in 1..(n + 1),
           \A a \in 1..n : a < c => <<k, p[a]>> \notin L,
           c <= n => <<k, p[c]>> \in L
    PROVE  Ranked([a \in 1..(n + 1) |-> IF a < c THEN p[a] ELSE IF a = c THEN k ELSE p[a - 1]],
                  n + 1, P \cup {k}, L)
<1> DEFINE N == 1..(n + 1)
           q == [a \in N |-> IF a < c THEN p[a] ELSE IF a = c THEN k ELSE p[a - 1]]
<1>1. p \in [1..n -> P] /\ \A a, b \in 1..n : a < b => <<p[a], p[b]>> \in L
  BY DEF Ranked
<1>2. \A a \in 1..n : p[a] \in P /\ p[a] \in D /\ p[a] # k
  BY <1>1
<1>3. \A a \in N : a < c => a \in 1..n
  OBVIOUS
<1>4. \A a \in N : a > c => a - 1 \in 1..n /\ a - 1 >= c
  OBVIOUS
<1>5. \A a \in 1..n : a < c => <<p[a], k>> \in L
  BY <1>2 DEF Orders
<1>6. \A a \in 1..n : a >= c => <<k, p[a]>> \in L
  <2> TAKE a \in 1..n
  <2> HAVE a >= c
  <2>1. CASE a = c
    BY <2>1
  <2>2. CASE a > c
    <3>1. c \in 1..n /\ c < a
      BY <2>2
    <3>2. <<k, p[c]>> \in L /\ <<p[c], p[a]>> \in L /\ p[c] \in D /\ p[a] \in D
      BY <1>1, <1>2, <3>1
    <3> QED
      BY <3>2 DEF Orders
  <2> QED
    BY <2>1, <2>2
<1>7. /\ \A a \in N : a < c => q[a] = p[a]
      /\ q[c] = k
      /\ \A a \in N : a > c => q[a] = p[a - 1]
  OBVIOUS
<1>8. q \in [N -> P \cup {k}]
  <2>1. \A a \in N : q[a] \in P \cup {k}
    <3> TAKE a \in N
    <3>1. a < c \/ a = c \/ a > c
      OBVIOUS
    <3> HIDE DEF q, N
    <3> QED
      BY <1>2, <1>3, <1>4, <1>7, <3>1
  <2> QED
    BY <2>1
<1> HIDE DEF q, N
<1>9. ASSUME NEW x \in P \cup {k}
      PROVE  \E a \in N : q[a] = x
  <2>1. CASE x = k
    BY <1>7, <2>1 DEF N
  <2>2. CASE x \in P
    <3>1. PICK a \in 1..n : p[a] = x
      BY <2>2 DEF Ranked
    <3>2. a \in N /\ a + 1 \in N /\ (a + 1) - 1 = a /\ (a < c \/ a + 1 > c)
      BY DEF N
    <3> QED
      BY <1>7, <3>1, <3>2
  <2> QED
    BY <2>1, <2>2
<1>10. ASSUME NEW a \in N, NEW b \in N, a < b
       PROVE  <<q[a], q[b]>> \in L
  <2>1. a \in Int /\ b \in Int /\ c \in Int
    BY DEF N
  <2>2. CASE b < c
    BY <1>1, <1>3, <1>7, <1>10, <2>1, <2>2
  <2>3. CASE b = c
    BY <1>3, <1>5, <1>7, <1>10, <2>3
  <2>4. CASE b > c /\ a < c
    <3>1. a \in 1..n /\ b - 1 \in 1..n /\ a < b - 1
      BY <1>3, <1>4, <2>1, <2>4
    <3> QED
      BY <1>1, <1>7, <2>4, <3>1
  <2>5. CASE b > c /\ a = c
    BY <1>4, <1>6, <1>7, <2>5
  <2>6. CASE b > c /\ a > c
    <3>1. a - 1 \in 1..n /\ b - 1 \in 1..n /\ a - 1 < b - 1
      BY <1>4, <1>10, <2>1, <2>6
    <3> QED
      BY <1>1, <1>7, <2>6, <3>1
  <2> QED
    BY <2>1, <2>2, <2>3, <2>4, <2>5, <2>6
<1> QED
  BY <1>8, <1>9, <1>10 DEF Ranked, q, N

(* The places of P are ranked by how many of them come before.              *)
LEMMA RankedCounts ==
    ASSUME NEW D, NEW L, Orders(L, D), NEW P, P \subseteq D,
           NEW n \in Nat, NEW p, Ranked(p, n, P, L)
    PROVE  /\ Cardinality(P) = n
           /\ \A a \in 1..n : \A i \in P :
                 Cardinality({j \in P : <<j, i>> \in L}) = a - 1 <=> i = p[a]
<1>1. p \in [1..n -> P] /\ \A a, b \in 1..n : a < b => <<p[a], p[b]>> \in L
  BY DEF Ranked
<1>2. \A a \in 1..n : p[a] \in P /\ p[a] \in D
  BY <1>1
<1>3. \A a, b \in 1..n : p[a] = p[b] => a = b
  <2> SUFFICES ASSUME NEW a \in 1..n, NEW b \in 1..n, a < b, p[a] = p[b]
               PROVE  FALSE
    OBVIOUS
  <2> QED
    BY <1>1, <1>2 DEF Orders
<1>4. \A a, b \in 1..n : <<p[a], p[b]>> \in L => a < b
  <2> SUFFICES ASSUME NEW a \in 1..n, NEW b \in 1..n, <<p[a], p[b]>> \in L, ~(a < b)
               PROVE  FALSE
    OBVIOUS
  <2>1. p[a] \in D /\ p[b] \in D
    BY <1>2
  <2>2. CASE a = b
    BY <2>1, <2>2 DEF Orders
  <2>3. CASE b < a
    <3>1. <<p[b], p[a]>> \in L
      BY <1>1, <2>3
    <3>2. <<p[a], p[a]>> \in L
      BY <2>1, <3>1 DEF Orders
    <3> QED
      BY <2>1, <3>2 DEF Orders
  <2> QED
    BY <2>2, <2>3
<1>5. Cardinality(P) = n
  <2>1. p \in Bijection(1..n, P)
    BY <1>1, <1>3 DEF Ranked, Bijection, Injection, Surjection, IsInjective
  <2>2. ExistsBijection(1..n, P)
    BY <2>1 DEF ExistsBijection
  <2> QED
    BY <2>2, FS_CountingElements
<1>6. ASSUME NEW b \in 1..n
      PROVE  Cardinality({j \in P : <<j, p[b]>> \in L}) = b - 1
  <2> DEFINE C == {j \in P : <<j, p[b]>> \in L}
             m == b - 1
             f == [a \in 1..m |-> p[a]]
  <2>1. m \in Nat /\ \A a \in 1..m : a \in 1..n /\ a < b
    OBVIOUS
  <2>2. \A a \in 1..n : a < b => a \in 1..m
    OBVIOUS
  <2> HIDE DEF m
  <2>3. f \in [1..m -> C]
    BY <1>1, <1>2, <2>1
  <2>4. \A x \in C : \E a \in 1..m : f[a] = x
    <3> TAKE x \in C
    <3>1. PICK a \in 1..n : p[a] = x
      BY DEF Ranked
    <3>2. a \in 1..m
      BY <1>4, <2>2, <3>1
    <3> QED
      BY <3>1, <3>2
  <2>5. \A x, y \in 1..m : f[x] = f[y] => x = y
    BY <1>3, <2>1
  <2>6. f \in Bijection(1..m, C)
    <3> HIDE DEF f, C
    <3> QED
      BY <2>3, <2>4, <2>5 DEF Bijection, Injection, Surjection, IsInjective
  <2>7. Cardinality(C) = m
    <3> HIDE DEF f, C
    <3>1. ExistsBijection(1..m, C)
      BY <2>6 DEF ExistsBijection
    <3> QED
      BY <2>1, <3>1, FS_CountingElements
  <2> QED
    BY <2>7 DEF m
<1> DEFINE Count(i) == Cardinality({j \in P : <<j, i>> \in L})
<1>7. \A b \in 1..n : Count(p[b]) = b - 1
  BY <1>6
<1> HIDE DEF Count
<1>8. ASSUME NEW a \in 1..n, NEW i \in P
      PROVE  Count(i) = a - 1 <=> i = p[a]
  <2>1. PICK b \in 1..n : p[b] = i
    BY DEF Ranked
  <2>2. Count(i) = b - 1 /\ a \in Int /\ b \in Int
    BY <1>7, <2>1
  <2>3. a - 1 = b - 1 <=> a = b
    BY <2>2
  <2> QED
    BY <1>3, <2>1, <2>2, <2>3
<1> QED
  BY <1>5, <1>8 DEF Count

(* Whether the rule at place i of a list comes before the one at place j.  *)
Ahead(l, i, j, b) ==
    \/ l[i].precedence < l[j].precedence
    \/ l[i].precedence = l[j].precedence /\ IF b THEN i > j ELSE i < j
Order(l, b) == {x \in (DOMAIN l) \X (DOMAIN l) : Ahead(l, x[1], x[2], b)}

LEMMA AheadOrders ==
    ASSUME NEW l \in Seq(Rules), NEW b \in BOOLEAN
    PROVE  Orders(Order(l, b), DOMAIN l)
<1> DEFINE D == DOMAIN l
           R == Order(l, b)
<1>1. \A i, j \in D : <<i, j>> \in R <=> Ahead(l, i, j, b)
  <2>1. R = {x \in D \X D : Ahead(l, x[1], x[2], b)}
    BY DEF Order
  <2> HIDE DEF R, D
  <2> QED
    BY <2>1
<1>2. \A i \in D : l[i] \in Rules /\ i \in Nat
  OBVIOUS
<1>3. \A i \in D : l[i].precedence \in Int /\ i \in Int
  BY <1>2, RuleFacts
<1> HIDE DEF D, R
<1>4. \A i \in D : <<i, i>> \notin R
  BY <1>1, <1>3 DEF Ahead
<1>5. \A i, j \in D : i # j => <<i, j>> \in R \/ <<j, i>> \in R
  BY <1>1, <1>3 DEF Ahead
<1>6. ASSUME NEW i \in D, NEW j \in D, NEW k \in D, <<i, j>> \in R, <<j, k>> \in R
      PROVE  <<i, k>> \in R
  <2>1. Ahead(l, i, j, b) /\ Ahead(l, j, k, b)
    BY <1>1, <1>6
  <2>2. /\ l[i].precedence \in Int /\ l[j].precedence \in Int /\ l[k].precedence \in Int
        /\ i \in Int /\ j \in Int /\ k \in Int
    BY <1>3
  <2>3. Ahead(l, i, k, b)
    <3>1. CASE b
      BY <2>1, <2>2, <3>1 DEF Ahead
    <3>2. CASE ~b
      BY <2>1, <2>2, <3>2 DEF Ahead
    <3> QED
      BY <3>1, <3>2
  <2> QED
    BY <1>1, <2>3
<1>7. Orders(R, D)
  BY <1>4, <1>5, <1>6 DEF Orders
<1> QED
  BY <1>7 DEF R, D

(* processNameRule puts a rule before the first that it comes before.      *)
Later(s, a, r, b) == \/ s[a].precedence > r.precedence
                     \/ b /\ s[a].precedence = r.precedence

LEMMA Least ==
    ASSUME NEW T \in SUBSET Nat, T # {}
    PROVE  \E i \in T : \A j \in T : i <= j
<1> SUFFICES ASSUME \A i \in T : \E j \in T : ~(i <= j)
             PROVE  FALSE
  OBVIOUS
<1> DEFINE rank == [n \in Nat |-> n]
           S == Nat \ T
<1>1. rank \in [Nat -> Nat] /\ \A n \in Nat : rank[n] = n
  OBVIOUS
<1> HIDE DEF rank
<1>2. ASSUME NEW n \in Nat, \A m \in Nat : rank[m] < rank[n] => m \in S
      PROVE  n \in S
  <2> SUFFICES ASSUME n \in T
               PROVE  FALSE
    OBVIOUS
  <2>1. PICK m \in T : ~(n <= m)
    OBVIOUS
  <2>2. m \in Nat /\ m < n
    BY <2>1
  <2> QED
    BY <1>1, <1>2, <2>2
<1> HIDE DEF S
<1>3. Nat \subseteq S
  BY <1>1, <1>2, RankInduction
<1> QED
  BY <1>3 DEF S

LEMMA InsertPlace ==
    ASSUME NEW s \in Seq(Rules), NEW r \in Rules, NEW b \in BOOLEAN
    PROVE  \E c \in 1..(Len(s) + 1) :
               /\ Naming!Insert(s, r, b) = Naming!InsertAt(s, c, r)
               /\ \A a \in 1..Len(s) : a < c => ~Later(s, a, r, b)
               /\ c <= Len(s) => Later(s, c, r, b)
<1> DEFINE n == Len(s)
           T == {i \in 1..n : Later(s, i, r, b)}
           c == IF T = {} THEN n + 1 ELSE CHOOSE i \in T : \A j \in T : i <= j
<1>1. Naming!Insert(s, r, b) = Naming!InsertAt(s, c, r)
  <2>1. DOMAIN s = 1..n
    OBVIOUS
  <2> QED
    BY <2>1 DEF Naming!Insert, Naming!InsertBefore, Later
<1>2. n \in Nat /\ T \subseteq 1..n
  OBVIOUS
<1>3. c \in 1..(n + 1) /\ (\A a \in T : c <= a) /\ (c <= n => c \in T)
  <2> HIDE DEF T, n
  <2>1. CASE T = {}
    BY <1>2, <2>1
  <2>2. CASE T # {}
    <3>1. \E i \in T : \A j \in T : i <= j
      <4>1. T \in SUBSET Nat
        BY <1>2
      <4> HIDE DEF T
      <4> QED
        BY <2>2, <4>1, Least
    <3>2. c \in T /\ \A j \in T : c <= j
      BY <2>2, <3>1
    <3> HIDE DEF c
    <3>3. c \in 1..(n + 1)
      BY <1>2, <3>2
    <3> QED
      BY <3>2, <3>3
  <2> QED
    BY <2>1, <2>2
<1> HIDE DEF c
<1>4. \A a \in 1..n : a < c => ~Later(s, a, r, b)
  BY <1>2, <1>3
<1>5. c <= n => Later(s, c, r, b)
  BY <1>3
<1> QED
  BY <1>1, <1>3, <1>4, <1>5

LEMMA InsertType ==
    ASSUME NEW s \in Seq(Rules), NEW r \in Rules, NEW b \in BOOLEAN
    PROVE  Naming!Insert(s, r, b) \in Seq(Rules)
<1> DEFINE n == Len(s)
<1>1. PICK c \in 1..(n + 1) : Naming!Insert(s, r, b) = Naming!InsertAt(s, c, r)
  BY InsertPlace
<1>2. n \in Nat /\ \A i \in 1..n : s[i] \in Rules
  OBVIOUS
<1>3. ASSUME NEW i \in 1..(n + 1)
      PROVE  (IF i < c THEN s[i] ELSE IF i = c THEN r ELSE s[i - 1]) \in Rules
  <2> HIDE DEF n
  <2>1. CASE i < c
    BY <1>2, <2>1
  <2>2. CASE i = c
    BY <2>2
  <2>3. CASE i > c
    <3>1. i - 1 \in 1..n
      BY <1>2, <2>3
    <3> QED
      BY <1>2, <2>3, <3>1
  <2> QED
    BY <1>2, <2>1, <2>2, <2>3
<1>4. Naming!InsertAt(s, c, r) \in [1..(n + 1) -> Rules]
  BY <1>3 DEF Naming!InsertAt
<1>5. n + 1 \in Nat
  BY <1>2
<1> QED
  BY <1>1, <1>4, <1>5

(* The rules of a list that are inserted one after the other end up in the *)
(* order that is meant.                                                    *)
Inserting(g, l, P, b) ==
    /\ g[0] = <<>>
    /\ \A k \in 1..Len(l) : g[k] = IF k \in P THEN Naming!Insert(g[k - 1], l[k], b) ELSE g[k - 1]
    /\ \A k \in 0..Len(l) : g[k] \in Seq(Rules)

LEMMA InsertedRuns ==
    ASSUME NEW l \in Seq(Rules), NEW P \in SUBSET DOMAIN l, NEW b \in BOOLEAN
    PROVE  \E g : Inserting(g, l, P, b) /\ Naming!Inserted(l, P, b) = g[Len(l)]
<1> DEFINE n == Len(l)
           B == Seq(Rules)
           G == [x \in (1..n) \X B |->
                    IF x[1] \in P THEN Naming!Insert(x[2], l[x[1]], b) ELSE x[2]]
           e == <<>>
<1>1. n \in Nat /\ \A k \in 1..n : l[k] \in Rules /\ k \in 0..n /\ k - 1 \in 0..n /\ k # 0
  OBVIOUS
<1>2. \A k \in 1..n : \A s \in B : Naming!Insert(s, l[k], b) \in B
  BY <1>1, InsertType
<1>3. e \in B
  OBVIOUS
<1> HIDE DEF B, n, e
<1>4. G \in [(1..n) \X B -> B]
  BY <1>2
<1>5. \A k \in 1..n : \A s \in B :
         G[<<k, s>>] = IF k \in P THEN Naming!Insert(s, l[k], b) ELSE s
  OBVIOUS
<1> HIDE DEF G
<1>6. PICK h : h \in [0..n -> B] /\ h[0] = e /\ \A k \in 1..n : h[k] = G[<<k, h[k - 1]>>]
  <2>1. Step(G, n, B)
    BY <1>4 DEF Step
  <2>2. \E h : Solved(h, G, n, B, e)
    BY <1>1, <1>3, <2>1, Stepwise
  <2> QED
    BY <2>2 DEF Solved
<1>7. \A k \in 1..n : h[k] = IF k \in P THEN Naming!Insert(h[k - 1], l[k], b) ELSE h[k - 1]
  BY <1>1, <1>5, <1>6
<1>8. Inserting(h, l, P, b)
  BY <1>6, <1>7 DEF Inserting, n, B, e
<1> DEFINE E(f) == [k \in 0..n |-> IF k = 0 THEN <<>>
                        ELSE IF k \in P THEN Naming!Insert(f[k - 1], l[k], b) ELSE f[k - 1]]
           rules == CHOOSE f : f = E(f)
<1>9. h = E(h)
  <2>1. \A k \in 0..n : k = 0 \/ k \in 1..n
    BY <1>1
  <2> QED
    BY <1>6, <1>7, <2>1 DEF e
<1>10. rules = E(rules)
  <2> HIDE DEF E
  <2> QED
    BY <1>9
<1>11. Naming!Inserted(l, P, b) = rules[n]
  BY DEF Naming!Inserted, n
<1> DEFINE S == {k \in 0..n : rules[k] = h[k]}
<1>12. ASSUME NEW k \in 0..n
       PROVE  rules[k] = IF k = 0 THEN e
                         ELSE IF k \in P THEN Naming!Insert(rules[k - 1], l[k], b) ELSE rules[k - 1]
  <2>1. rules[k] = E(rules)[k]
    BY <1>10
  <2> HIDE DEF rules
  <2> QED
    BY <2>1 DEF e
<1> HIDE DEF rules
<1>13. 0 \in S
  <2>1. 0 \in 0..n
    BY <1>1
  <2> QED
    BY <1>6, <1>12, <2>1
<1>14. ASSUME NEW k \in 1..n, k - 1 \in S
       PROVE  k \in S
  BY <1>1, <1>7, <1>12, <1>14
<1>15. n \in S
  <2> HIDE DEF S
  <2>1. 0..n \subseteq S
    BY <1>1, <1>13, <1>14, StepInduction
  <2> QED
    BY <1>1, <2>1
<1> QED
  BY <1>8, <1>11, <1>15 DEF n

(* s lists the rules of l at the places of P up to k, in the order that is  *)
(* meant.                                                                   *)
ListsInOrder(s, l, P, k, b) ==
    \E m \in Nat : \E p : /\ Ranked(p, m, P \cap (1..k), Order(l, b))
                         /\ s = [a \in 1..m |-> l[p[a]]]

LEMMA InsertLists ==
    ASSUME NEW l \in Seq(Rules), NEW P \in SUBSET DOMAIN l, NEW b \in BOOLEAN,
           NEW k \in P, NEW s \in Seq(Rules), ListsInOrder(s, l, P, k - 1, b)
    PROVE  ListsInOrder(Naming!Insert(s, l[k], b), l, P, k, b)
<1> DEFINE L == Order(l, b)
           D == DOMAIN l
           Q == P \cap (1..(k - 1))
           r == l[k]
<1>1. /\ k \in D /\ k \in Nat /\ r \in Rules
      /\ P \cap (1..k) = Q \cup {k} /\ k \notin Q
      /\ Q \subseteq D /\ \A i \in Q : i < k
  <2>1. k \in 1..Len(l)
    OBVIOUS
  <2>2. 1..k = (1..(k - 1)) \cup {k} /\ k \notin 1..(k - 1)
    BY <2>1
  <2> QED
    BY <2>1, <2>2
<1>2. Orders(L, D)
  BY AheadOrders
<1>3. \A i, j \in D : <<i, j>> \in L <=> Ahead(l, i, j, b)
  <2>1. L = {x \in D \X D : Ahead(l, x[1], x[2], b)}
    BY DEF Order
  <2> HIDE DEF L, D
  <2> QED
    BY <2>1
<1>4. \A i \in D : l[i].precedence \in Int /\ l[i] \in Rules /\ i \in Int
  BY RuleFacts
<1>5. PICK m \in Nat : \E p : Ranked(p, m, Q, L) /\ s = [a \in 1..m |-> l[p[a]]]
  BY DEF ListsInOrder
<1>6. PICK p : Ranked(p, m, Q, L) /\ s = [a \in 1..m |-> l[p[a]]]
  BY <1>5
<1>7. Len(s) = m /\ \A a \in 1..m : s[a] = l[p[a]]
  <2> HIDE DEF L, D, Q, r
  <2> QED
    BY <1>6
<1>8. PICK c \in 1..(m + 1) :
          /\ Naming!Insert(s, r, b) = Naming!InsertAt(s, c, r)
          /\ \A a \in 1..m : a < c => ~Later(s, a, r, b)
          /\ c <= m => Later(s, c, r, b)
  <2> HIDE DEF r
  <2>1. \E c \in 1..(Len(s) + 1) :
            /\ Naming!Insert(s, r, b) = Naming!InsertAt(s, c, r)
            /\ \A a \in 1..Len(s) : a < c => ~Later(s, a, r, b)
            /\ c <= Len(s) => Later(s, c, r, b)
    BY <1>1, InsertPlace
  <2> QED
    BY <1>7, <2>1
<1> DEFINE I == Naming!Insert(s, r, b)
<1> HIDE DEF L, D, Q, I
<1>9. \A a \in 1..m : p[a] \in Q /\ p[a] \in D /\ p[a] < k
  BY <1>1, <1>6 DEF Ranked
<1>10. ASSUME NEW a \in 1..m
       PROVE  Later(s, a, r, b) <=> <<k, p[a]>> \in L
  <2>1. Later(s, a, r, b) <=> \/ l[p[a]].precedence > l[k].precedence
                              \/ b /\ l[p[a]].precedence = l[k].precedence
    BY <1>7 DEF Later
  <2>2. <<k, p[a]>> \in L <=> Ahead(l, k, p[a], b)
    BY <1>1, <1>3, <1>9
  <2>3. /\ p[a] \in Int /\ k \in Int /\ p[a] < k
        /\ l[p[a]].precedence \in Int /\ l[k].precedence \in Int
    BY <1>1, <1>4, <1>9
  <2>4. Ahead(l, k, p[a], b) <=> \/ l[p[a]].precedence > l[k].precedence
                                 \/ b /\ l[p[a]].precedence = l[k].precedence
    BY <2>3 DEF Ahead
  <2> QED
    BY <2>1, <2>2, <2>4
<1> DEFINE q == [a \in 1..(m + 1) |-> IF a < c THEN p[a] ELSE IF a = c THEN k ELSE p[a - 1]]
<1>11. Ranked(q, m + 1, Q \cup {k}, L)
  <2>1. \A a \in 1..m : a < c => <<k, p[a]>> \notin L
    BY <1>8, <1>10
  <2>2. c <= m => <<k, p[c]>> \in L
    <3> SUFFICES ASSUME c <= m
                 PROVE  <<k, p[c]>> \in L
      OBVIOUS
    <3>1. c \in 1..m
      OBVIOUS
    <3> QED
      BY <1>8, <1>10, <3>1
  <2>3. Ranked(p, m, Q, L) /\ Q \subseteq D /\ k \in D /\ k \notin Q
    BY <1>1, <1>6
  <2> QED
    BY <1>2, <2>1, <2>2, <2>3, RankedInsert
<1>12. I = [a \in 1..(m + 1) |-> l[q[a]]]
  <2>1. I = [a \in 1..(m + 1) |-> IF a < c THEN s[a] ELSE IF a = c THEN r ELSE s[a - 1]]
    BY <1>7, <1>8 DEF Naming!InsertAt, I
  <2>2. ASSUME NEW a \in 1..(m + 1)
        PROVE  (IF a < c THEN s[a] ELSE IF a = c THEN r ELSE s[a - 1]) = l[q[a]]
    <3>1. CASE a < c
      <4>1. a \in 1..m /\ q[a] = p[a]
        BY <3>1
      <4> QED
        BY <1>7, <3>1, <4>1
    <3>2. CASE a = c
      BY <3>2
    <3>3. CASE a > c
      <4>1. a - 1 \in 1..m /\ q[a] = p[a - 1]
        BY <3>3
      <4> QED
        BY <1>7, <3>3, <4>1
    <3> QED
      BY <3>1, <3>2, <3>3
  <2> HIDE DEF q
  <2> QED
    BY <2>1, <2>2
<1> HIDE DEF q
<1>13. m + 1 \in Nat /\ Ranked(q, m + 1, P \cap (1..k), L)
  <2>1. P \cap (1..k) = Q \cup {k}
    BY <1>1
  <2>2. Ranked(q, m + 1, P \cap (1..k), L)
    BY <1>11, <2>1, Zenon
  <2> QED
    BY <2>2
<1>14. \E n \in Nat : \E f : Ranked(f, n, P \cap (1..k), L) /\ I = [a \in 1..n |-> l[f[a]]]
  BY <1>12, <1>13
<1> QED
  BY <1>14 DEF ListsInOrder, L, I

LEMMA InsertedLists ==
    ASSUME NEW l \in Seq(Rules), NEW P \in SUBSET DOMAIN l, NEW b \in BOOLEAN,
           NEW g, Inserting(g, l, P, b)
    PROVE  \A k \in 0..Len(l) : ListsInOrder(g[k], l, P, k, b)
<1> DEFINE n == Len(l)
           S == {k \in 0..n : ListsInOrder(g[k], l, P, k, b)}
<1>1. n \in Nat /\ \A k \in 1..n : k \in 0..n /\ k - 1 \in 0..n
  OBVIOUS
<1>2. 0 \in S
  <2> DEFINE p == [a \in 1..0 |-> 0]
             e == [a \in 1..0 |-> l[p[a]]]
  <2>1. 1..0 = {} /\ 0 \in 0..n /\ P \cap (1..0) = {} /\ 0 \in Nat
    OBVIOUS
  <2>2. Ranked(p, 0, P \cap (1..0), Order(l, b))
    BY <2>1 DEF Ranked
  <2>3. g[0] = e
    BY <2>1 DEF Inserting
  <2> HIDE DEF p
  <2>4. ListsInOrder(g[0], l, P, 0, b)
    BY <2>1, <2>2, <2>3 DEF ListsInOrder
  <2> QED
    BY <2>1, <2>4
<1>3. ASSUME NEW k \in 1..n, k - 1 \in S
      PROVE  k \in S
  <2>1. /\ g[k] = IF k \in P THEN Naming!Insert(g[k - 1], l[k], b) ELSE g[k - 1]
        /\ g[k - 1] \in Seq(Rules) /\ ListsInOrder(g[k - 1], l, P, k - 1, b)
    BY <1>1, <1>3 DEF Inserting
  <2>2. CASE k \notin P
    <3>1. 1..k = (1..(k - 1)) \cup {k}
      OBVIOUS
    <3>2. P \cap (1..k) = P \cap (1..(k - 1))
      BY <2>2, <3>1
    <3>3. ListsInOrder(g[k - 1], l, P, k, b)
      BY <2>1, <3>2 DEF ListsInOrder
    <3> QED
      BY <1>1, <2>1, <2>2, <3>3
  <2>3. CASE k \in P
    <3>1. ListsInOrder(Naming!Insert(g[k - 1], l[k], b), l, P, k, b)
      BY <2>1, <2>3, InsertLists
    <3> QED
      BY <1>1, <2>1, <2>3, <3>1
  <2> QED
    BY <2>2, <2>3
<1>4. 0..n \subseteq S
  <2> HIDE DEF S
  <2> QED
    BY <1>1, <1>2, <1>3, StepInduction
<1> QED
  BY <1>4 DEF n

LEMMA InsertedIs ==
    ASSUME NEW l \in Seq(Rules), NEW P \in SUBSET DOMAIN l, NEW b \in BOOLEAN
    PROVE  /\ Naming!Inserted(l, P, b) = Naming!ByPrecedence(l, P, b)
           /\ Naming!Inserted(l, P, b) \in Seq(Rules)
           /\ Naming!InList(Naming!Inserted(l, P, b)) \subseteq Naming!InList(l)
<1> DEFINE n == Len(l)
           D == DOMAIN l
           L == Order(l, b)
           I == Naming!Inserted(l, P, b)
<1>1. PICK g : Inserting(g, l, P, b) /\ I = g[n]
  BY InsertedRuns
<1>2. n \in 0..n /\ P \cap (1..n) = P /\ P \subseteq D
  OBVIOUS
<1>3. ListsInOrder(I, l, P, n, b)
  BY <1>1, <1>2, InsertedLists
<1>4. I \in Seq(Rules)
  BY <1>1, <1>2 DEF Inserting
<1>5. PICK m \in Nat : \E p : Ranked(p, m, P, L) /\ I = [a \in 1..m |-> l[p[a]]]
  <2> HIDE DEF I
  <2> QED
    BY <1>2, <1>3 DEF ListsInOrder
<1>6. PICK p : Ranked(p, m, P, L) /\ I = [a \in 1..m |-> l[p[a]]]
  BY <1>5
<1>7. /\ Cardinality(P) = m
      /\ \A a \in 1..m : \A i \in P :
            Cardinality({j \in P : <<j, i>> \in L}) = a - 1 <=> i = p[a]
  <2>1. Orders(L, D)
    BY AheadOrders
  <2> HIDE DEF L, D
  <2> QED
    BY <1>2, <1>6, <2>1, RankedCounts
<1>8. \A i, j \in D : <<j, i>> \in L <=> Ahead(l, j, i, b)
  <2>1. L = {x \in D \X D : Ahead(l, x[1], x[2], b)}
    BY DEF Order
  <2> HIDE DEF L, D
  <2> QED
    BY <2>1
<1> HIDE DEF I, L, D
<1>9. p \in [1..m -> P]
  BY <1>6 DEF Ranked
<1>10. Naming!InList(I) \subseteq Naming!InList(l)
  <2> SUFFICES ASSUME NEW a \in 1..m
               PROVE  l[p[a]] \in Naming!InList(l)
    BY <1>6 DEF Naming!InList
  <2> QED
    BY <1>2, <1>9 DEF Naming!InList, D
<1> DEFINE C(i) == {j \in P : Ahead(l, j, i, b)}
           W(k) == CHOOSE i \in P : Cardinality(C(i)) = k - 1
<1>11. Naming!ByPrecedence(l, P, b) = [k \in 1..Cardinality(P) |-> l[W(k)]]
  BY DEF Naming!ByPrecedence, Naming!Cardinality, Cardinality, Ahead
<1>12. \A i \in P : C(i) = {j \in P : <<j, i>> \in L}
  BY <1>2, <1>8
<1> HIDE DEF C
<1>13. \A k \in 1..m : W(k) = p[k]
  <2> TAKE k \in 1..m
  <2>1. \A i \in P : Cardinality(C(i)) = k - 1 <=> i = p[k]
    BY <1>7, <1>12
  <2>2. p[k] \in P
    BY <1>9
  <2> QED
    BY <2>1, <2>2
<1> HIDE DEF W
<1>14. Naming!ByPrecedence(l, P, b) = I
  BY <1>6, <1>7, <1>11, <1>13
<1> QED
  BY <1>4, <1>10, <1>14 DEF I

-----------------------------------------------------------------------------
(* The rules for names: what is true of a request under way *)

Fields == {"phase", "path", "ignore", "partial", "force", "routed", "status", "name"}
IsTx(t) == DOMAIN t = Fields /\ t.ignore \in BOOLEAN /\ t.force \in BOOLEAN

(* t: the record of the request; isRuled, isDisturbed, isAsked: whether it *)
(* is among those; none: no rule of the server has memory; from: what the  *)
(* rules remember; l: the rules of the user.                               *)
OnTrack(t, isRuled, isDisturbed, isAsked, none, from, l) ==
    /\ t.ignore => isRuled
    /\ ~isDisturbed /\ ~t.force /\ none /\ isRuled /\ ~t.ignore =>
          \A d \in SUBSET from : Naming!Normalize(l, d, t.path).ignore
    /\ ~isAsked /\ t.partial # Naming!NoName =>
          \/ Naming!Normalize(l, {}, t.path).matched
          \/ Naming!Normalize(l, {}, t.path).ignore
    /\ ~isDisturbed /\ Naming!Normalize(l, {}, t.path).ignore => isRuled

LEMMA StartOnTrack ==
    ASSUME NEW l \in Seq(Rules), NEW k \in Seq(Rules), NEW from, NEW p, NEW t,
           NEW isDisturbed, NEW isAsked, NEW none \in BOOLEAN, none => Forgetful(k),
           t.path = p, t.ignore = Naming!RunUserNamingRules(l, k, from, p).ignore,
           t.partial = IF Naming!RunUserNamingRules(l, k, from, p).matched
                       THEN Naming!RunUserNamingRules(l, k, from, p).value ELSE Naming!NoName
    PROVE  OnTrack(t, Naming!RunUserNamingRules(l, k, {}, p).ignore, isDisturbed, isAsked,
                   none, Naming!RunUserNamingRules(l, k, from, p).advanced, l)
<1> DEFINE u == Naming!RunUserNamingRules(l, k, from, p)
           w == Naming!RunUserNamingRules(l, k, {}, p)
           a == Naming!Normalize(l, from, p)
           m == Naming!Normalize(l, {}, p)
<1>1. Meets(u, w, from)
  BY UserMeets
<1>2. Knows(u) /\ Knows(w)
  BY UserRules
<1>3. w.matched = m.matched /\ (~m.matched => w = m) /\ (m.ignore => w.ignore)
  <2> DEFINE s == Naming!Normalize(k, m.advanced, m.value)
  <2>1. /\ w.matched = m.matched
        /\ ~m.matched => w = m
        /\ m.matched => w.ignore = (s.ignore \/ m.ignore)
    BY UserRules
  <2>2. Knows(m)
    BY NormalizeKnows
  <2> HIDE DEF w, m, s
  <2> QED
    BY <2>1, <2>2 DEF Knows
<1>4. none => AlsoIgnores(u, w, a, m)
  BY UserAdds
<1>5. m.ignore => \E r : \A d : Excuses(r, d, Naming!Normalize(l, d, p))
  BY IgnoredTheSecondTime
<1>6. u.ignore => w.ignore
  <2> HIDE DEF u, w
  <2> QED
    BY <1>1 DEF Meets, Alike
<1>7. ASSUME none, w.ignore, ~u.ignore, NEW d \in SUBSET u.advanced
      PROVE  Naming!Normalize(l, d, p).ignore
  <2>1. AlsoIgnores(u, w, a, m)
    BY <1>4, <1>7
  <2>2. m.ignore /\ ~a.ignore /\ u.advanced \subseteq a.advanced
    <3> HIDE DEF u, w, a, m
    <3> QED
      BY <1>7, <2>1 DEF AlsoIgnores, Alike
  <2>3. PICK r : \A e : Excuses(r, e, Naming!Normalize(l, e, p))
    BY <1>5, <2>2
  <2>4. Excuses(r, from, a) /\ Excuses(r, d, Naming!Normalize(l, d, p))
    BY <2>3
  <2>5. r \notin a.advanced
    <3> HIDE DEF a
    <3> QED
      BY <2>2, <2>4 DEF Excuses
  <2>6. r \notin d
    BY <2>2, <2>5
  <2> QED
    BY <2>4, <2>6 DEF Excuses
<1>8. u.matched => m.matched \/ m.ignore
  <2> HIDE DEF u, w, m
  <2> QED
    BY <1>1, <1>3 DEF Meets, Alike
<1> HIDE DEF u, w, a, m
<1>9. t.ignore = u.ignore /\ (t.partial # Naming!NoName => u.matched)
  BY DEF u
<1>10. \/ ~t.partial # Naming!NoName
       \/ Naming!Normalize(l, {}, t.path).matched \/ Naming!Normalize(l, {}, t.path).ignore
  BY <1>8, <1>9 DEF m
<1>11. Naming!Normalize(l, {}, t.path).ignore => w.ignore
  BY <1>3 DEF m
<1>12. OnTrack(t, w.ignore, isDisturbed, isAsked, none, u.advanced, l)
  BY <1>6, <1>7, <1>9, <1>10, <1>11 DEF OnTrack
<1> QED
  BY <1>12 DEF u, w

(* If the rules of the server have no memory, the lists have none. *)
Quiet(none, k, j) == none => Forgetful(k) /\ Forgetful(j)

(* u is what becomes of t when s is found and m is meant. *)
AskedTo(u, t, s) == /\ u.path = t.path /\ u.force = t.force
                    /\ u.ignore = (t.ignore \/ s.ignore)
AskedOn(u, m, isRuled, isDisturbed, none, from, l) ==
    OnTrack(u, isRuled \/ m.ignore, isDisturbed, TRUE, none, from, l)
Stays(before, after) == before => after
EndsRight(t, s, m, isRuled, isDisturbed, none) ==
    ~isDisturbed /\ ~t.force /\ none => ((t.ignore \/ s.ignore) <=> (isRuled \/ m.ignore))

LEMMA AskOnTrack ==
    ASSUME NEW l \in Seq(Rules), NEW k \in Seq(Rules), NEW j \in Seq(Rules), NEW from,
           NEW t, NEW u, NEW isRuled, NEW wasDisturbed, NEW isDisturbed,
           NEW wasAsked, NEW none, Quiet(none, k, j),
           Stays(wasDisturbed, isDisturbed),
           OnTrack(t, isRuled, wasDisturbed, wasAsked, none, from, l),
           IsTx(t), AskedTo(u, t, Naming!FullName(l, k, j, from, t))
    PROVE  AskedOn(u, Naming!FullName(l, k, j, {}, t), isRuled, isDisturbed, none,
                   Naming!FullName(l, k, j, from, t).advanced, l)
<1> DEFINE s == Naming!FullName(l, k, j, from, t)
           m == Naming!FullName(l, k, j, {}, t)
           a == Naming!Normalize(l, from, t.path)
           b == Naming!Normalize(l, {}, t.path)
<1> USE DEF IsTx, AskedTo, AskedOn, Stays
<1>1. ~m.ignore => ~s.ignore
  BY FullMeets
<1>2. none /\ ~t.force => /\ a.ignore => s.ignore
                          /\ ~b.ignore => s.ignore = m.ignore
  <2> SUFFICES ASSUME none, ~t.force
               PROVE  (a.ignore => s.ignore) /\ (~b.ignore => s.ignore = m.ignore)
    OBVIOUS
  <2>1. Forgetful(k) /\ Forgetful(j)
    BY DEF Quiet
  <2> QED
    BY <2>1, FullAdds
<1>3. ~wasDisturbed /\ ~t.force /\ none /\ isRuled /\ ~t.ignore => a.ignore
  BY DEF OnTrack
<1>4. ~wasDisturbed /\ b.ignore => isRuled
  BY DEF OnTrack
<1>5. t.ignore => isRuled
  BY DEF OnTrack
<1> HIDE DEF s, m, a
<1>6. u.ignore => isRuled \/ m.ignore
  BY <1>1, <1>5 DEF s
<1>7. ~(~isDisturbed /\ ~u.force /\ none /\ (isRuled \/ m.ignore) /\ ~u.ignore)
  <2> SUFFICES ASSUME ~isDisturbed, ~t.force, none, isRuled \/ m.ignore, ~t.ignore, ~s.ignore
               PROVE  FALSE
    BY DEF s
  <2>1. ~wasDisturbed
    OBVIOUS
  <2> HIDE DEF b
  <2>2. CASE isRuled
    BY <1>2, <1>3, <2>1, <2>2
  <2>3. CASE ~isRuled
    BY <1>2, <1>4, <2>1, <2>3
  <2> QED
    BY <2>2, <2>3
<1>8. ~isDisturbed /\ Naming!Normalize(l, {}, u.path).ignore => isRuled \/ m.ignore
  BY <1>4
<1>9. OnTrack(u, isRuled \/ m.ignore, isDisturbed, TRUE, none, s.advanced, l)
  BY <1>6, <1>7, <1>8 DEF OnTrack
<1> QED
  BY <1>9 DEF s, m

LEMMA RuleOnTrack ==
    ASSUME NEW l \in Seq(Rules), NEW r \in Rules, NEW t, NEW isRuled, NEW isDisturbed,
           NEW isAsked, NEW none, NEW from, NEW d,
           OnTrack(t, isRuled, isDisturbed, isAsked, none, from, l)
    PROVE  OnTrack(t, isRuled, TRUE, isAsked, none, d, <<r>> \o l)
<1> DEFINE m == Naming!Normalize(l, {}, t.path)
           n == Naming!Normalize(<<r>> \o l, {}, t.path)
<1>1. m.matched \/ m.ignore => n.matched \/ n.ignore
  BY RuleBefore
<1>2. ~isAsked /\ t.partial # Naming!NoName => m.matched \/ m.ignore
  BY DEF OnTrack
<1>3. t.ignore => isRuled
  BY DEF OnTrack
<1>4. ~isAsked /\ t.partial # Naming!NoName => n.matched \/ n.ignore
  <2> HIDE DEF m, n
  <2> QED
    BY <1>1, <1>2
<1> QED
  BY <1>3, <1>4 DEF OnTrack

(* The request is over: what it is ignored for, and its name.  e is its    *)
(* record with the status, c that without a name.                          *)
LEMMA EndAsRuled ==
    ASSUME NEW l \in Seq(Rules), NEW k \in Seq(Rules), NEW j \in Seq(Rules), NEW from,
           NEW t, NEW e, NEW isRuled, NEW isDisturbed, NEW isAsked, NEW none, Quiet(none, k, j),
           OnTrack(t, isRuled, isDisturbed, isAsked, none, from, l),
           IsTx(t), e.path = t.path, e.force = t.force
    PROVE  EndsRight(t, Naming!FullName(l, k, j, from, e), Naming!FullName(l, k, j, {}, e),
                     isRuled, isDisturbed, none)
<1> DEFINE s == Naming!FullName(l, k, j, from, e)
           m == Naming!FullName(l, k, j, {}, e)
           a == Naming!Normalize(l, from, t.path)
           b == Naming!Normalize(l, {}, t.path)
<1> USE DEF IsTx
<1>1. ~m.ignore => ~s.ignore
  BY FullMeets
<1>2. none /\ ~t.force => (a.ignore => s.ignore) /\ (~b.ignore => s.ignore = m.ignore)
  <2> SUFFICES ASSUME none, ~t.force
               PROVE  (a.ignore => s.ignore) /\ (~b.ignore => s.ignore = m.ignore)
    OBVIOUS
  <2>1. Forgetful(k) /\ Forgetful(j) /\ ~e.force
    BY DEF Quiet
  <2> QED
    BY <2>1, FullAdds
<1>3. ~isDisturbed /\ ~t.force /\ none /\ isRuled /\ ~t.ignore => a.ignore
  BY DEF OnTrack
<1>4. (~isDisturbed /\ b.ignore => isRuled) /\ (t.ignore => isRuled)
  BY DEF OnTrack
<1> HIDE DEF s, m, a, b
<1>5. EndsRight(t, s, m, isRuled, isDisturbed, none)
  BY <1>1, <1>2, <1>3, <1>4 DEF EndsRight
<1> QED
  BY <1>5 DEF s, m

LEMMA PartialAs ==
    ASSUME NEW l \in Seq(Rules), NEW k \in Seq(Rules), NEW e, NEW c, NEW from,
           c.path = e.path, c.status = e.status, c.routed = e.routed,
           \/ c.partial = e.partial \/ e.routed
           \/ Naming!RunUserNamingRules(l, k, from, e.path).matched
    PROVE  Naming!PartialNameFromUri(l, k, from, c) = Naming!PartialNameFromUri(l, k, from, e)
BY DEF Naming!PartialNameFromUri, Naming!PartialFrom

LEMMA EndNamed ==
    ASSUME NEW l \in Seq(Rules), NEW k \in Seq(Rules), NEW j \in Seq(Rules), NEW from,
           NEW t, NEW e, NEW c, NEW isRuled, NEW isDisturbed, NEW isAsked, NEW none,
           OnTrack(t, isRuled, isDisturbed, isAsked, none, from, l),
           e.path = t.path, e.force = t.force, e.partial = t.partial, e.routed = t.routed,
           c.path = t.path, c.force = t.force, c.partial = Naming!NoName, c.routed = t.routed,
           c.status = e.status,
           \/ ~isAsked \/ t.force \/ t.routed
           \/ Naming!RunUserNamingRules(l, k, {}, t.path).matched,
           ~Naming!FullName(l, k, j, {}, e).ignore
    PROVE  Naming!FullName(l, k, j, from, e).name = Naming!FullName(l, k, j, {}, c).name
<1>1. Naming!FullName(l, k, j, from, e).name = Naming!FullName(l, k, j, {}, e).name
  BY FullMeets
<1>2. CASE t.force
  BY <1>1, <1>2 DEF Naming!FullName, Naming!FullFrom
<1>3. CASE ~t.force
  <2> DEFINE w == Naming!RunUserNamingRules(l, k, {}, t.path)
             b == Naming!Normalize(l, {}, t.path)
             y == Naming!Normalize(k, w.advanced, t.path)
             m == Naming!PartialNameFromUri(l, k, {}, e)
             full == Naming!Normalize(j, m.advanced, m.value)
  <2>1. Naming!FullName(l, k, j, {}, e).ignore = (m.ignore \/ full.ignore)
    BY <1>3 DEF Naming!FullName, Naming!FullFrom
  <2>2. ~m.ignore
    BY <2>1
  <2>3. PartialOf(m, w, y, e)
    BY PartialIs
  <2>4. w.matched = b.matched /\ (~b.matched => w = b)
    BY UserRules
  <2>5. ~w.ignore
    <3> HIDE DEF w, y, m
    <3> QED
      BY <2>2, <2>3 DEF PartialOf
  <2>6. \/ Naming!NoName = t.partial \/ t.routed \/ w.matched
    <3> SUFFICES ASSUME Naming!NoName # t.partial, ~t.routed, ~w.matched
                 PROVE  FALSE
      OBVIOUS
    <3>1. ~isAsked
      BY <1>3
    <3>2. b.matched \/ b.ignore
      BY <3>1 DEF OnTrack
    <3> HIDE DEF w, b
    <3> QED
      BY <2>4, <2>5, <3>2
  <2>7. Naming!PartialNameFromUri(l, k, {}, c) = m
    BY <2>6, PartialAs
  <2>8. Naming!FullName(l, k, j, {}, c).name = Naming!FullName(l, k, j, {}, e).name
    BY <1>3, <2>7 DEF Naming!FullName, Naming!FullFrom
  <2> QED
    BY <1>1, <2>8
<1> QED
  BY <1>2, <1>3

-----------------------------------------------------------------------------
(* The rules for names: lists that are given and kept *)

LEMMA GivenLists ==
    /\ \A c \in Configured : c.name \in Seq(Rules) /\ c.ignore \in Seq(Rules)
    /\ \A s \in Sent : s.url \in Seq(Rules) /\ s.name \in Seq(Rules)
    /\ \A r \in Simple : r \in Rules
<1>1. \A list \in Naming!Lists : list \in Seq(Rules)
  BY NamingAssumption DEF Naming!RulesAreGiven, Rules
<1>2. \A c \in Configured : c.name \in Naming!Lists /\ c.ignore \in Naming!Lists
  BY DEF Naming!Lists
<1>3. \A s \in Sent : s.url \in Naming!Lists /\ s.name \in Naming!Lists
  BY DEF Naming!Lists
<1>4. \A r \in Simple : r \in Rules
  BY DEF Rules, Naming!Rule
<1> QED
  BY <1>1, <1>2, <1>3, <1>4

LEMMA ReversedType ==
    ASSUME NEW l \in Seq(Rules)
    PROVE  Naming!Reversed(l) \in Seq(Rules)
<1>1. \A i \in 1..Len(l) : Len(l) + 1 - i \in 1..Len(l)
  OBVIOUS
<1>2. Naming!Reversed(l) \in [1..Len(l) -> Rules]
  BY <1>1 DEF Naming!Reversed
<1>3. Len(l) \in Nat
  OBVIOUS
<1> QED
  BY <1>2, <1>3

LEMMA ReversedAppend ==
    ASSUME NEW l \in Seq(Rules), NEW r \in Rules
    PROVE  Naming!Reversed(Append(l, r)) = <<r>> \o Naming!Reversed(l)
<1> DEFINE n == Len(l)
           m == Append(l, r)
           a == Naming!Reversed(m)
           e == Naming!Reversed(l)
           b == <<r>> \o e
<1>1. /\ n \in Nat /\ m \in Seq(Rules) /\ Len(m) = n + 1 /\ m[n + 1] = r
      /\ \A i \in 1..n : m[i] = l[i]
  OBVIOUS
<1>2. a = [i \in 1..(n + 1) |-> m[n + 2 - i]]
  <2>1. Len(m) + 1 = n + 2
    BY <1>1
  <2> HIDE DEF m
  <2> QED
    BY <1>1, <2>1 DEF Naming!Reversed
<1>3. e \in Seq(Rules) /\ Len(e) = n /\ \A i \in 1..n : e[i] = l[n + 1 - i]
  <2>1. e \in Seq(Rules)
    BY ReversedType
  <2>2. e = [i \in 1..n |-> l[n + 1 - i]]
    BY DEF Naming!Reversed
  <2> HIDE DEF e
  <2> QED
    BY <1>1, <2>1, <2>2
<1> HIDE DEF e, m, n
<1>4. /\ b \in Seq(Rules) /\ Len(b) = n + 1 /\ b[1] = r
      /\ \A i \in 2..(n + 1) : b[i] = e[i - 1]
  BY <1>1, <1>3
<1>5. b = [i \in 1..(n + 1) |-> b[i]]
  BY <1>1, <1>4
<1> HIDE DEF b, a
<1>6. ASSUME NEW i \in 1..(n + 1)
      PROVE  m[n + 2 - i] = b[i]
  <2>1. CASE i = 1
    BY <1>1, <1>4, <2>1
  <2>2. CASE i # 1
    <3>1. i \in 2..(n + 1) /\ i - 1 \in 1..n /\ n + 2 - i \in 1..n /\ n + 1 - (i - 1) = n + 2 - i
      BY <1>1, <2>2
    <3> QED
      BY <1>1, <1>3, <1>4, <3>1
  <2> QED
    BY <2>1, <2>2
<1>7. a = b
  BY <1>2, <1>5, <1>6
<1> QED
  BY <1>7 DEF a, b, e, m

LEMMA LoadIs ==
    ASSUME NEW l \in Seq(Rules)
    PROVE  /\ Naming!Load(l) = Naming!Sorted(l)
           /\ Naming!Load(l) \in Seq(Rules)
           /\ Naming!InList(Naming!Load(l)) \subseteq Naming!InList(l)
<1>1. Naming!Firsts(l) \in SUBSET DOMAIN l
  BY DEF Naming!Firsts
<1> QED
  BY <1>1, InsertedIs DEF Naming!Load, Naming!Sorted

(* loadFromConfig: the rules of the configuration as they are meant. *)
FromConfig == Naming!Reversed(config.ignore)
                  \o Naming!ByPrecedence(config.name, DOMAIN config.name, reverse)

LEMMA LoadFromConfigIs ==
    ASSUME config \in Configured, reverse \in BOOLEAN
    PROVE  /\ Naming!LoadFromConfig(config, reverse) = FromConfig
           /\ FromConfig \in Seq(Rules)
           /\ Naming!Reversed(config.ignore) \in Seq(Rules)
           /\ Naming!ByPrecedence(config.name, DOMAIN config.name, reverse) \in Seq(Rules)
<1>1. config.name \in Seq(Rules) /\ config.ignore \in Seq(Rules)
  BY GivenLists
<1> DEFINE a == Naming!Reversed(config.ignore)
           b == Naming!ByPrecedence(config.name, DOMAIN config.name, reverse)
<1>2. a \in Seq(Rules)
  BY <1>1, ReversedType
<1>3. Naming!Inserted(config.name, DOMAIN config.name, reverse) = b /\ b \in Seq(Rules)
  BY <1>1, InsertedIs
<1>4. a \o b \in Seq(Rules)
  <2> HIDE DEF a, b
  <2> QED
    BY <1>2, <1>3
<1> QED
  BY <1>2, <1>3, <1>4 DEF Naming!LoadFromConfig, FromConfig

(* The rules that are kept are those that are meant. *)
ListsInv ==
    /\ config \in Configured /\ reverse \in BOOLEAN
    /\ added \in Seq(Rules) /\ reply \in Seq(Sent)
    /\ user \in Seq(Rules) /\ url \in Seq(Rules) /\ names \in Seq(Rules)
    /\ user = Naming!UserMeant /\ url = Naming!UrlMeant /\ names = Naming!NamesMeant
    /\ Naming!NoneRemembers => Forgetful(url) /\ Forgetful(names)

LEMMA ListsInit == Naming!Init => ListsInv
<1> SUFFICES ASSUME Naming!Init
             PROVE  ListsInv
  OBVIOUS
<1>1. /\ config \in Configured /\ reverse \in BOOLEAN
      /\ user = Naming!LoadFromConfig(config, reverse)
      /\ url = <<>> /\ names = <<>> /\ added = <<>> /\ reply = <<>>
  BY DEF Naming!Init
<1>2. user = FromConfig /\ user \in Seq(Rules)
  BY <1>1, LoadFromConfigIs
<1>3. added \in Seq(Rules) /\ reply \in Seq(Sent) /\ url \in Seq(Rules) /\ names \in Seq(Rules)
  BY <1>1
<1>4. user = Naming!UserMeant
  <2> DEFINE a == Naming!Reversed(config.ignore)
             b == Naming!ByPrecedence(config.name, DOMAIN config.name, reverse)
  <2>1. Naming!Reversed(added) = <<>>
    BY <1>1 DEF Naming!Reversed
  <2>2. a \in Seq(Rules) /\ user = a \o b
    BY <1>1, <1>2, LoadFromConfigIs DEF FromConfig
  <2>3. Naming!UserMeant = (Naming!Reversed(added) \o a) \o b
    BY DEF Naming!UserMeant
  <2>4. <<>> \o a = a
    BY <2>2, ConcatEmptySeq
  <2> HIDE DEF a, b
  <2> QED
    BY <2>1, <2>2, <2>3, <2>4
<1>5. url = Naming!UrlMeant /\ names = Naming!NamesMeant
  BY <1>1 DEF Naming!UrlMeant, Naming!NamesMeant
<1>6. Forgetful(url) /\ Forgetful(names)
  BY <1>1 DEF Forgetful, Naming!InList
<1> QED
  BY <1>1, <1>2, <1>3, <1>4, <1>5, <1>6 DEF ListsInv

LEMMA ListsAdded ==
    ASSUME ListsInv, NEW r \in Simple, Naming!AddRule(r)
    PROVE  ListsInv' /\ r \in Rules /\ user' = <<r>> \o user
<1>1. /\ added' = Append(added, r) /\ user' = <<r>> \o user
      /\ UNCHANGED <<url, names, config, reverse, reply>>
  BY DEF Naming!AddRule, Naming!AddSimple, Naming!InList
<1>2. r \in Rules
  BY GivenLists
<1>3. added' \in Seq(Rules) /\ user' \in Seq(Rules)
  BY <1>1, <1>2 DEF ListsInv
<1>4. user' = Naming!UserMeant'
  <2> DEFINE a == Naming!Reversed(config.ignore)
             b == Naming!ByPrecedence(config.name, DOMAIN config.name, reverse)
             e == Naming!Reversed(added)
             d == <<r>>
  <2>1. a \in Seq(Rules) /\ b \in Seq(Rules) /\ e \in Seq(Rules) /\ d \in Seq(Rules)
    BY <1>2, LoadFromConfigIs, ReversedType DEF ListsInv
  <2>2. user = (e \o a) \o b
    BY DEF ListsInv, Naming!UserMeant
  <2>3. Naming!Reversed(added') = d \o e
    BY <1>1, <1>2, ReversedAppend DEF ListsInv
  <2>4. Naming!UserMeant' = (Naming!Reversed(added') \o a) \o b
    BY <1>1 DEF Naming!UserMeant
  <2> HIDE DEF a, b, e
  <2>5. (d \o e) \o a = d \o (e \o a) /\ e \o a \in Seq(Rules)
    BY <2>1, ConcatAssociative
  <2>6. (d \o (e \o a)) \o b = d \o ((e \o a) \o b)
    BY <2>1, <2>5, ConcatAssociative
  <2> HIDE DEF d
  <2>7. user' = d \o user
    BY <1>1 DEF d
  <2> QED
    BY <2>2, <2>3, <2>4, <2>5, <2>6, <2>7
<1>5. /\ (url = Naming!UrlMeant /\ names = Naming!NamesMeant)'
      /\ (Naming!NoneRemembers => Forgetful(url) /\ Forgetful(names))'
  BY <1>1 DEF ListsInv, Naming!UrlMeant, Naming!NamesMeant, Naming!NoneRemembers
<1> QED
  BY <1>1, <1>2, <1>3, <1>4, <1>5 DEF ListsInv

LEMMA ListsSent ==
    ASSUME ListsInv, NEW s \in Sent, Naming!Login(s)
    PROVE  ListsInv' /\ UNCHANGED user /\ (Naming!NoneRemembers' => Naming!NoneRemembers)
<1>1. /\ reply' = Append(reply, s) /\ url' = Naming!Load(s.url) /\ names' = Naming!Load(s.name)
      /\ UNCHANGED <<user, config, reverse, added>>
  BY DEF Naming!Login
<1>2. s.url \in Seq(Rules) /\ s.name \in Seq(Rules)
  BY GivenLists
<1>3. /\ url' = Naming!Sorted(s.url) /\ url' \in Seq(Rules)
      /\ Naming!InList(url') \subseteq Naming!InList(s.url)
      /\ names' = Naming!Sorted(s.name) /\ names' \in Seq(Rules)
      /\ Naming!InList(names') \subseteq Naming!InList(s.name)
  BY <1>1, <1>2, LoadIs
<1>4. /\ reply' \in Seq(Sent) /\ reply' # <<>> /\ Len(reply') = Len(reply) + 1
      /\ reply'[Len(reply')] = s /\ Len(reply') \in DOMAIN reply'
      /\ \A i \in DOMAIN reply : i \in DOMAIN reply' /\ reply'[i] = reply[i]
  BY <1>1 DEF ListsInv
<1>5. url' = Naming!UrlMeant' /\ names' = Naming!NamesMeant'
  BY <1>3, <1>4 DEF Naming!UrlMeant, Naming!NamesMeant
<1>6. user' = Naming!UserMeant'
  BY <1>1 DEF ListsInv, Naming!UserMeant
<1>7. ASSUME Naming!NoneRemembers'
      PROVE  Naming!NoneRemembers /\ Forgetful(url') /\ Forgetful(names')
  <2>1. \A i \in DOMAIN reply' :
           \A r \in Naming!InList(reply'[i].url) \cup Naming!InList(reply'[i].name) :
              ~Naming!Remembers(r)
    BY <1>7 DEF Naming!NoneRemembers
  <2>2. \A r \in Naming!InList(s.url) \cup Naming!InList(s.name) : ~Naming!Remembers(r)
    BY <1>4, <2>1
  <2>3. Forgetful(url') /\ Forgetful(names')
    BY <1>3, <2>2 DEF Forgetful
  <2>4. Naming!NoneRemembers
    BY <1>4, <2>1 DEF Naming!NoneRemembers
  <2> QED
    BY <2>3, <2>4
<1>8. (Naming!NoneRemembers => Forgetful(url) /\ Forgetful(names))'
  BY <1>7
<1>9. (user \in Seq(Rules) /\ config \in Configured /\ reverse \in BOOLEAN /\ added \in Seq(Rules))'
  BY <1>1 DEF ListsInv
<1> QED
  BY <1>1, <1>3, <1>4, <1>5, <1>6, <1>7, <1>8, <1>9 DEF ListsInv

LEMMA ListsStay ==
    ASSUME ListsInv, UNCHANGED Naming!ruleVars
    PROVE  ListsInv' /\ UNCHANGED <<user, url, names>>
           /\ Naming!NoneRemembers' = Naming!NoneRemembers
BY DEF ListsInv, Naming!ruleVars, Naming!UserMeant, Naming!UrlMeant, Naming!NamesMeant,
       Naming!NoneRemembers

-----------------------------------------------------------------------------
(* The rules for names: requests under way *)

Goes(r) == OnTrack(tx[r], r \in ruled, r \in disturbed, r \in asked, Naming!NoneRemembers,
                   advanced, user)
RequestsInv ==
    /\ DOMAIN tx = Requests
    /\ \A r \in Requests : IsTx(tx[r])
    /\ ruled \subseteq Naming!Open
    /\ \A r \in Naming!Open : Goes(r)
    /\ \A r, q \in Naming!Open : r # q => r \in disturbed
NamesInv == ListsInv /\ RequestsInv

LEMMA NoTxIs == IsTx(Naming!NoTx)
BY DEF IsTx, Naming!NoTx, Fields

LEMMA NamesInit == Naming!Init => NamesInv
<1> SUFFICES ASSUME Naming!Init
             PROVE  RequestsInv
  BY ListsInit DEF NamesInv
<1>1. tx = [r \in Requests |-> Naming!NoTx] /\ ruled = {}
  BY DEF Naming!Init
<1>2. Naming!Open = {}
  BY <1>1 DEF Naming!Open, Naming!NoTx
<1> QED
  BY <1>1, <1>2, NoTxIs DEF RequestsInv

LEMMA RequestsAfterRule ==
    ASSUME NamesInv, NEW rl \in Simple, Naming!AddRule(rl)
    PROVE  NamesInv'
<1>1. ListsInv' /\ rl \in Rules /\ user' = <<rl>> \o user /\ user \in Seq(Rules)
  BY ListsAdded DEF NamesInv, ListsInv
<1>2. disturbed' = disturbed \cup Naming!Open /\ UNCHANGED <<tx, ruled, asked, reply>>
  BY DEF Naming!AddRule
<1>3. Naming!Open' = Naming!Open /\ Naming!NoneRemembers' = Naming!NoneRemembers
  BY <1>2 DEF Naming!Open, Naming!NoneRemembers
<1>4. ASSUME NEW r \in Naming!Open
      PROVE  Goes(r)'
  <2>1. Goes(r)
    BY DEF NamesInv, RequestsInv
  <2>2. OnTrack(tx[r], r \in ruled, TRUE, r \in asked, Naming!NoneRemembers, advanced',
                <<rl>> \o user)
    BY <1>1, <2>1, RuleOnTrack DEF Goes
  <2>3. (r \in disturbed') = TRUE
    BY <1>2
  <2> QED
    BY <1>1, <1>2, <1>3, <2>2, <2>3 DEF Goes
<1>5. RequestsInv'
  BY <1>2, <1>3, <1>4 DEF NamesInv, RequestsInv
<1> QED
  BY <1>1, <1>5 DEF NamesInv

LEMMA RequestsAfterLogin ==
    ASSUME NamesInv, NEW s \in Sent, Naming!Login(s)
    PROVE  NamesInv'
<1>1. ListsInv' /\ user' = user /\ (Naming!NoneRemembers' => Naming!NoneRemembers)
  BY ListsSent DEF NamesInv
<1>2. advanced' \subseteq advanced /\ UNCHANGED <<tx, ruled, disturbed, asked>>
  BY DEF Naming!Login
<1>3. Naming!Open' = Naming!Open
  BY <1>2 DEF Naming!Open
<1>4. ASSUME NEW r \in Naming!Open
      PROVE  Goes(r)'
  <2>1. Goes(r)
    BY DEF NamesInv, RequestsInv
  <2>2. SUBSET advanced' \subseteq SUBSET advanced
    BY <1>2
  <2> QED
    BY <1>1, <1>2, <2>1, <2>2 DEF Goes, OnTrack
<1>5. RequestsInv'
  BY <1>2, <1>3, <1>4 DEF NamesInv, RequestsInv
<1> QED
  BY <1>1, <1>5 DEF NamesInv

(* When the rules are consulted for r, what they remember changes under    *)
(* the requests that are under way besides it, which are all disturbed.    *)
LEMMA OthersDisturbed ==
    ASSUME RequestsInv, NEW r \in Requests, Naming!Meets(r), UNCHANGED user,
           Naming!NoneRemembers' = Naming!NoneRemembers,
           NEW q \in Naming!Open, q # r, tx'[q] = tx[q], q \in ruled' <=> q \in ruled,
           q \in asked' <=> q \in asked
    PROVE  Goes(q)' /\ q \in disturbed' /\ r \in disturbed'
<1>1. disturbed' = disturbed \cup Naming!Open \cup {r}
  BY DEF Naming!Meets
<1>2. Goes(q)
  BY DEF RequestsInv
<1>3. q \in disturbed' /\ r \in disturbed'
  BY <1>1
<1>4. OnTrack(tx[q], q \in ruled, TRUE, q \in asked, Naming!NoneRemembers, advanced', user)
  BY <1>2 DEF Goes, OnTrack
<1>5. (q \in disturbed') = TRUE /\ (q \in ruled') = (q \in ruled) /\ (q \in asked') = (q \in asked)
  BY <1>3
<1>6. Goes(q)'
  BY <1>4, <1>5 DEF Goes
<1> QED
  BY <1>3, <1>6

LEMMA RequestStarts ==
    ASSUME NamesInv, NEW r \in Requests, NEW path \in Uri, Naming!StartRequest(r, path)
    PROVE  NamesInv'
<1> DEFINE u == Naming!RunUserNamingRules(user, url, advanced, path)
           w == Naming!RunUserNamingRules(user, url, {}, path)
           t == [Naming!NoTx EXCEPT !.phase = "open", !.path = path, !.ignore = u.ignore,
                     !.partial = IF u.matched THEN u.value ELSE Naming!NoName]
<1>1. /\ tx[r].phase = "none" /\ tx' = [tx EXCEPT ![r] = t] /\ advanced' = u.advanced
      /\ ruled' = IF Naming!MeantAtStart(path).ignore THEN ruled \cup {r} ELSE ruled
      /\ Naming!Meets(r) /\ UNCHANGED Naming!ruleVars /\ UNCHANGED asked
  BY DEF Naming!StartRequest
<1>2. /\ ListsInv' /\ UNCHANGED <<user, url, names>>
      /\ Naming!NoneRemembers' = Naming!NoneRemembers
  BY <1>1, ListsStay DEF NamesInv
<1>3. /\ user \in Seq(Rules) /\ url \in Seq(Rules) /\ Naming!MeantAtStart(path) = w
      /\ Naming!NoneRemembers => Forgetful(url)
  BY DEF NamesInv, ListsInv, Naming!MeantAtStart, Naming!Fresh
<1>4. Knows(u) /\ Knows(w)
  BY <1>3, UserRules
<1> HIDE DEF u, w
<1>5. /\ DOMAIN t = Fields /\ t.phase = "open" /\ t.path = path /\ t.ignore = u.ignore
      /\ t.partial = (IF u.matched THEN u.value ELSE Naming!NoName) /\ t.force = FALSE
  BY DEF Naming!NoTx, Fields
<1>6. IsTx(t)
  BY <1>4, <1>5 DEF IsTx, Knows
<1> HIDE DEF t
<1>7. /\ DOMAIN tx' = Requests /\ tx'[r] = t /\ \A q \in Requests : q # r => tx'[q] = tx[q]
      /\ r \notin Naming!Open /\ Naming!Open' = Naming!Open \cup {r}
  BY <1>1, <1>5 DEF NamesInv, RequestsInv, Naming!Open
<1>8. \A q \in Requests : IsTx(tx'[q])
  BY <1>6, <1>7 DEF NamesInv, RequestsInv
<1>9. /\ ruled' \subseteq Naming!Open' /\ (r \in ruled') = w.ignore
      /\ \A q : q # r => (q \in ruled' <=> q \in ruled)
  <2>1. ruled \subseteq Naming!Open /\ r \notin ruled
    BY <1>7 DEF NamesInv, RequestsInv
  <2>2. w.ignore \in BOOLEAN
    BY <1>4 DEF Knows
  <2> QED
    BY <1>1, <1>3, <1>7, <2>1, <2>2
<1>10. Goes(r)'
  <2>1. Naming!NoneRemembers \in BOOLEAN
    BY DEF Naming!NoneRemembers
  <2>2. OnTrack(t, w.ignore, r \in disturbed', r \in asked', Naming!NoneRemembers, u.advanced,
                user)
    BY <1>3, <1>5, <2>1, StartOnTrack DEF u, w
  <2> QED
    BY <1>1, <1>2, <1>7, <1>9, <2>2 DEF Goes
<1>11. \A q \in Naming!Open : q # r => Goes(q)' /\ q \in disturbed' /\ r \in disturbed'
  <2> TAKE q \in Naming!Open
  <2> HAVE q # r
  <2>1. RequestsInv /\ Naming!Meets(r) /\ UNCHANGED user /\ (q \in asked' <=> q \in asked)
    BY <1>1, <1>2 DEF NamesInv
  <2>2. tx'[q] = tx[q] /\ (q \in ruled' <=> q \in ruled)
    BY <1>7, <1>9 DEF Naming!Open
  <2> QED
    BY <1>2, <2>1, <2>2, OthersDisturbed
<1>12. RequestsInv'
  <2>1. \A q \in Naming!Open' : Goes(q)'
    BY <1>7, <1>10, <1>11
  <2>2. \A q, v \in Naming!Open' : q # v => q \in disturbed'
    BY <1>7, <1>11
  <2> QED
    BY <1>7, <1>8, <1>9, <2>1, <2>2 DEF RequestsInv
<1> QED
  BY <1>2, <1>12 DEF NamesInv

(* The name state and the API do not consult the rules. *)
LEMMA RequestChanges ==
    ASSUME NamesInv, NEW r \in Requests, Naming!ChangeRoute(r) \/ Naming!SetTransactionName(r)
    PROVE  NamesInv'
<1>1. UNCHANGED Naming!ruleVars /\ UNCHANGED <<advanced, ruled, disturbed, asked>>
  BY DEF Naming!ChangeRoute, Naming!SetTransactionName
<1>2. /\ ListsInv' /\ UNCHANGED <<user, url, names>>
      /\ Naming!NoneRemembers' = Naming!NoneRemembers
  BY <1>1, ListsStay DEF NamesInv
<1>3. DOMAIN tx = Requests /\ IsTx(tx[r])
  BY DEF NamesInv, RequestsInv
<1>4. /\ DOMAIN tx' = Requests /\ DOMAIN tx'[r] = Fields
      /\ tx'[r].phase = tx[r].phase /\ tx'[r].path = tx[r].path /\ tx'[r].ignore = tx[r].ignore
      /\ tx'[r].partial = tx[r].partial
      /\ tx'[r].force = tx[r].force \/ tx'[r].force = TRUE
      /\ \A q \in Requests : q # r => tx'[q] = tx[q]
  <2>1. CASE Naming!ChangeRoute(r)
    <3>1. tx' = [tx EXCEPT ![r].routed = ~@]
      BY <2>1 DEF Naming!ChangeRoute
    <3> QED
      BY <1>3, <3>1 DEF IsTx, Fields
  <2>2. CASE Naming!SetTransactionName(r)
    <3>1. tx' = [tx EXCEPT ![r].force = TRUE]
      BY <2>2 DEF Naming!SetTransactionName
    <3> QED
      BY <1>3, <3>1 DEF IsTx, Fields
  <2> QED
    BY <2>1, <2>2
<1>5. \A q \in Requests : IsTx(tx'[q])
  <2>1. IsTx(tx'[r])
    BY <1>3, <1>4 DEF IsTx
  <2> QED
    BY <1>4, <2>1 DEF NamesInv, RequestsInv
<1>6. Naming!Open' = Naming!Open
  BY <1>4 DEF Naming!Open
<1>7. ASSUME NEW q \in Naming!Open
      PROVE  Goes(q)'
  <2>1. Goes(q) /\ q \in Requests
    BY DEF NamesInv, RequestsInv, Naming!Open
  <2>2. CASE q # r
    <3>1. tx'[q] = tx[q]
      BY <1>4, <2>1, <2>2
    <3> QED
      BY <1>1, <1>2, <2>1, <3>1 DEF Goes
  <2>3. CASE q = r
    <3> DEFINE t == tx[r]
               u == tx'[r]
    <3>1. /\ u.path = t.path /\ u.ignore = t.ignore /\ u.partial = t.partial
          /\ u.force = t.force \/ u.force = TRUE
      BY <1>4
    <3>2. OnTrack(t, r \in ruled, r \in disturbed, r \in asked, Naming!NoneRemembers, advanced, user)
      BY <2>1, <2>3 DEF Goes
    <3> HIDE DEF t, u
    <3>3. OnTrack(u, r \in ruled, r \in disturbed, r \in asked, Naming!NoneRemembers, advanced, user)
      BY <3>1, <3>2 DEF OnTrack
    <3> QED
      BY <1>1, <1>2, <2>3, <3>3 DEF Goes, u
  <2> QED
    BY <2>2, <2>3
<1>8. RequestsInv'
  BY <1>1, <1>4, <1>5, <1>6, <1>7 DEF NamesInv, RequestsInv
<1> QED
  BY <1>2, <1>8 DEF NamesInv

LEMMA RequestAsked ==
    ASSUME NamesInv, NEW r \in Requests, Naming!Ask(r)
    PROVE  NamesInv'
<1> DEFINE t == tx[r]
           s == Naming!FullName(user, url, names, advanced, t)
           m == Naming!FullName(user, url, names, {}, t)
<1>1. /\ t.phase = "open" /\ advanced' = s.advanced
      /\ tx' = [tx EXCEPT ![r].ignore = @ \/ s.ignore, ![r].partial = s.partial]
      /\ asked' = asked \cup {r}
      /\ ruled' = IF Naming!Meant(t).ignore THEN ruled \cup {r} ELSE ruled
      /\ Naming!Meets(r) /\ UNCHANGED Naming!ruleVars
  BY DEF Naming!Ask
<1>2. /\ ListsInv' /\ UNCHANGED <<user, url, names>>
      /\ Naming!NoneRemembers' = Naming!NoneRemembers
  BY <1>1, ListsStay DEF NamesInv
<1>3. /\ user \in Seq(Rules) /\ url \in Seq(Rules) /\ names \in Seq(Rules)
      /\ Naming!Meant(t) = m
      /\ Naming!NoneRemembers => Forgetful(url) /\ Forgetful(names)
  BY DEF NamesInv, ListsInv, Naming!Meant, Naming!Fresh
<1>4. s.ignore \in BOOLEAN /\ m.ignore \in BOOLEAN
  BY DEF Naming!FullName, Naming!FullFrom
<1>5. DOMAIN tx = Requests /\ IsTx(t)
  BY DEF NamesInv, RequestsInv
<1> HIDE DEF s, m
<1>6. /\ DOMAIN tx' = Requests /\ DOMAIN tx'[r] = Fields
      /\ tx'[r].phase = t.phase /\ tx'[r].path = t.path /\ tx'[r].force = t.force
      /\ tx'[r].ignore = (t.ignore \/ s.ignore)
      /\ \A q \in Requests : q # r => tx'[q] = tx[q]
  BY <1>1, <1>5 DEF IsTx, Fields
<1>7. \A q \in Requests : IsTx(tx'[q])
  <2>1. IsTx(tx'[r])
    BY <1>4, <1>5, <1>6 DEF IsTx
  <2> QED
    BY <1>6, <2>1 DEF NamesInv, RequestsInv
<1>8. Naming!Open' = Naming!Open /\ r \in Naming!Open
  BY <1>1, <1>6 DEF Naming!Open
<1>9. /\ ruled' \subseteq Naming!Open /\ (r \in ruled') = (r \in ruled \/ m.ignore)
      /\ \A q : q # r => (q \in ruled' <=> q \in ruled)
  <2>1. ruled \subseteq Naming!Open
    BY DEF NamesInv, RequestsInv
  <2> QED
    BY <1>1, <1>3, <1>4, <1>8, <2>1
<1>10. Goes(r)'
  <2> DEFINE u == tx'[r]
             isRuled == r \in ruled
             wasDisturbed == r \in disturbed
             isDisturbed == r \in disturbed'
             wasAsked == r \in asked
             none == Naming!NoneRemembers
  <2>1. Quiet(none, url, names)
    BY <1>3 DEF Quiet
  <2>2. Stays(wasDisturbed, isDisturbed)
    BY <1>1 DEF Naming!Meets, Stays
  <2>3. OnTrack(t, isRuled, wasDisturbed, wasAsked, none, advanced, user)
    BY <1>8 DEF NamesInv, RequestsInv, Goes
  <2>4. IsTx(t) /\ AskedTo(u, t, s)
    BY <1>5, <1>6 DEF AskedTo
  <2> HIDE DEF t, u, isRuled, wasDisturbed, isDisturbed, wasAsked, none
  <2>5. AskedOn(u, m, isRuled, isDisturbed, none, s.advanced, user)
    BY <1>3, <2>1, <2>2, <2>3, <2>4, AskOnTrack DEF s, m
  <2>6. (r \in asked') = TRUE
    BY <1>1
  <2>7. OnTrack(u, r \in ruled', r \in disturbed', TRUE, Naming!NoneRemembers', advanced', user')
    BY <1>1, <1>2, <1>9, <2>5 DEF AskedOn, isRuled, isDisturbed, none
  <2> QED
    BY <2>6, <2>7 DEF Goes, u
<1>11. \A q \in Naming!Open : q # r => Goes(q)' /\ q \in disturbed' /\ r \in disturbed'
  <2> TAKE q \in Naming!Open
  <2> HAVE q # r
  <2>1. RequestsInv /\ Naming!Meets(r) /\ UNCHANGED user /\ (q \in asked' <=> q \in asked)
    BY <1>1, <1>2 DEF NamesInv
  <2>2. tx'[q] = tx[q] /\ (q \in ruled' <=> q \in ruled)
    BY <1>6, <1>9 DEF Naming!Open
  <2> QED
    BY <1>2, <2>1, <2>2, OthersDisturbed
<1>12. RequestsInv'
  <2>1. \A q \in Naming!Open' : Goes(q)'
    BY <1>8, <1>10, <1>11
  <2>2. \A q, v \in Naming!Open' : q # v => q \in disturbed'
    BY <1>8, <1>11
  <2> QED
    BY <1>6, <1>7, <1>8, <1>9, <2>1, <2>2 DEF RequestsInv
<1> QED
  BY <1>2, <1>12 DEF NamesInv

LEMMA RequestEnds ==
    ASSUME NamesInv, NEW r \in Requests, NEW status \in Naming!Status, Naming!End(r, status)
    PROVE  NamesInv'
<1> DEFINE s == Naming!FullName(user, url, names, advanced, [tx[r] EXCEPT !.status = status])
           e == [Naming!NoTx EXCEPT !.phase = "ended", !.ignore = tx[r].ignore \/ s.ignore,
                     !.name = s.name]
<1>1. /\ tx[r].phase = "open" /\ tx' = [tx EXCEPT ![r] = e]
      /\ ruled' = ruled \ {r} /\ disturbed' = disturbed \ {r} /\ asked' = asked \ {r}
      /\ UNCHANGED Naming!ruleVars
  BY DEF Naming!End
<1>2. /\ ListsInv' /\ UNCHANGED <<user, url, names>>
      /\ Naming!NoneRemembers' = Naming!NoneRemembers
  BY <1>1, ListsStay DEF NamesInv
<1>3. s.ignore \in BOOLEAN
  BY DEF Naming!FullName, Naming!FullFrom
<1> HIDE DEF s
<1>4. DOMAIN tx = Requests /\ \A q \in Requests : IsTx(tx[q])
  BY DEF NamesInv, RequestsInv
<1>5. /\ DOMAIN e = Fields /\ e.phase = "ended" /\ e.ignore = (tx[r].ignore \/ s.ignore)
      /\ e.force = FALSE
  BY DEF Naming!NoTx, Fields
<1>6. IsTx(e)
  BY <1>3, <1>4, <1>5 DEF IsTx
<1> HIDE DEF e
<1>7. /\ DOMAIN tx' = Requests /\ tx'[r] = e /\ \A q \in Requests : q # r => tx'[q] = tx[q]
      /\ r \in Naming!Open /\ Naming!Open' = Naming!Open \ {r}
  BY <1>1, <1>4, <1>5 DEF Naming!Open
<1>8. \A q \in Requests : IsTx(tx'[q])
  BY <1>4, <1>6, <1>7
<1>9. ASSUME NEW q \in Naming!Open, q # r
      PROVE  Goes(q)' /\ q \in disturbed'
  <2>1. Goes(q) /\ q \in disturbed /\ q \in Requests
    BY <1>7, <1>9 DEF NamesInv, RequestsInv, Naming!Open
  <2>2. /\ tx'[q] = tx[q] /\ (q \in ruled') = (q \in ruled) /\ (q \in asked') = (q \in asked)
        /\ (q \in disturbed) = TRUE /\ (q \in disturbed') = TRUE
    BY <1>1, <1>7, <1>9, <2>1
  <2>3. OnTrack(tx[q], q \in ruled, TRUE, q \in asked, Naming!NoneRemembers, advanced, user)
    BY <2>1, <2>2 DEF Goes
  <2>4. OnTrack(tx[q], q \in ruled, TRUE, q \in asked, Naming!NoneRemembers, advanced', user)
    BY <2>3 DEF OnTrack
  <2> QED
    BY <1>2, <2>2, <2>4 DEF Goes
<1>10. RequestsInv'
  <2>1. \A q \in Naming!Open' : Goes(q)'
    BY <1>7, <1>9
  <2>2. \A q, v \in Naming!Open' : q # v => q \in disturbed'
    BY <1>7, <1>9
  <2>3. ruled' \subseteq Naming!Open'
    BY <1>1, <1>7 DEF NamesInv, RequestsInv
  <2> QED
    BY <1>7, <1>8, <2>1, <2>2, <2>3 DEF RequestsInv
<1> QED
  BY <1>2, <1>10 DEF NamesInv

LEMMA NamesStay ==
    ASSUME NamesInv, UNCHANGED Naming!vars
    PROVE  NamesInv'
<1>1. /\ UNCHANGED Naming!ruleVars /\ UNCHANGED <<tx, advanced, ruled, disturbed, asked>>
  BY DEF Naming!vars
<1>2. /\ ListsInv' /\ UNCHANGED <<user, url, names>>
      /\ Naming!NoneRemembers' = Naming!NoneRemembers
  BY <1>1, ListsStay DEF NamesInv
<1>3. Naming!Open' = Naming!Open /\ \A q : Goes(q)' = Goes(q)
  BY <1>1, <1>2 DEF Naming!Open, Goes
<1>4. RequestsInv'
  BY <1>1, <1>3 DEF NamesInv, RequestsInv
<1> QED
  BY <1>2, <1>4 DEF NamesInv

LEMMA NamesStep == NamesInv /\ [Naming!Next]_Naming!vars => NamesInv'
<1> SUFFICES ASSUME NamesInv, [Naming!Next]_Naming!vars
             PROVE  NamesInv'
  OBVIOUS
<1>1. CASE UNCHANGED Naming!vars
  BY <1>1, NamesStay
<1>2. ASSUME NEW rl \in Simple, Naming!AddRule(rl)
      PROVE  NamesInv'
  BY <1>2, RequestsAfterRule
<1>3. ASSUME NEW s \in Sent, Naming!Login(s)
      PROVE  NamesInv'
  BY <1>3, RequestsAfterLogin
<1>4. ASSUME NEW r \in Requests, NEW path \in Uri, Naming!StartRequest(r, path)
      PROVE  NamesInv'
  BY <1>4, RequestStarts
<1>5. ASSUME NEW r \in Requests, Naming!ChangeRoute(r) \/ Naming!SetTransactionName(r)
      PROVE  NamesInv'
  BY <1>5, RequestChanges
<1>6. ASSUME NEW r \in Requests, Naming!Ask(r)
      PROVE  NamesInv'
  BY <1>6, RequestAsked
<1>7. ASSUME NEW r \in Requests, NEW status \in Naming!Status, Naming!End(r, status)
      PROVE  NamesInv'
  BY <1>7, RequestEnds
<1> QED
  BY <1>1, <1>2, <1>3, <1>4, <1>5, <1>6, <1>7 DEF Naming!Next

(* A request that is over is ignored exactly if some rule was meant to     *)
(* ignore it when it was asked, and has the name that the rules make of it *)
(* as they are meant.                                                      *)
LEMMA EndsAsRuled ==
    ASSUME NamesInv, NEW r \in Requests, NEW status, Naming!End(r, status)
    PROVE  LET e == [tx[r] EXCEPT !.status = status]
               c == [tx[r] EXCEPT !.status = status, !.partial = Naming!NoName]
               meant == Naming!Meant(e)
               ignored == r \in ruled \/ meant.ignore
           IN  /\ r \notin disturbed /\ ~tx[r].force /\ Naming!NoneRemembers =>
                     (tx'[r].ignore <=> ignored)
               /\ ~ignored /\ (r \notin asked \/ Naming!Named(tx[r])) =>
                     tx'[r].name = Naming!Meant(c).name
<1> DEFINE t == tx[r]
           e == [t EXCEPT !.status = status]
           c == [t EXCEPT !.status = status, !.partial = Naming!NoName]
           s == Naming!FullName(user, url, names, advanced, e)
           m == Naming!FullName(user, url, names, {}, e)
           n == Naming!FullName(user, url, names, {}, c)
           none == Naming!NoneRemembers
           isRuled == r \in ruled
           isDisturbed == r \in disturbed
           isAsked == r \in asked
<1>1. /\ t.phase = "open"
      /\ tx' = [tx EXCEPT ![r] = [Naming!NoTx EXCEPT !.phase = "ended",
                                      !.ignore = t.ignore \/ s.ignore, !.name = s.name]]
  BY DEF Naming!End
<1>2. /\ user \in Seq(Rules) /\ url \in Seq(Rules) /\ names \in Seq(Rules)
      /\ none => Forgetful(url) /\ Forgetful(names)
      /\ Naming!Meant(e) = m /\ Naming!Meant(c) = n
      /\ Naming!Named(t) <=> \/ t.force \/ t.routed
                             \/ Naming!RunUserNamingRules(user, url, {}, t.path).matched
  BY DEF NamesInv, ListsInv, Naming!Meant, Naming!Named, Naming!Fresh
<1>3. IsTx(t) /\ DOMAIN tx = Requests
  BY DEF NamesInv, RequestsInv
<1> HIDE DEF s, m, n, none
<1>4. tx'[r].ignore = (t.ignore \/ s.ignore) /\ tx'[r].name = s.name
  BY <1>1, <1>3 DEF Naming!NoTx
<1>5. /\ e.path = t.path /\ e.force = t.force /\ e.partial = t.partial /\ e.routed = t.routed
      /\ c.path = t.path /\ c.force = t.force /\ c.partial = Naming!NoName /\ c.routed = t.routed
      /\ c.status = e.status
  BY <1>3 DEF IsTx, Fields
<1>6. OnTrack(t, isRuled, isDisturbed, isAsked, none, advanced, user)
  <2>1. r \in Naming!Open
    BY <1>1 DEF Naming!Open
  <2> QED
    BY <2>1 DEF NamesInv, RequestsInv, Goes, none
<1>7. Quiet(none, url, names)
  BY <1>2 DEF Quiet
<1> HIDE DEF t, e, c, isRuled, isDisturbed, isAsked
<1>8. EndsRight(t, s, m, isRuled, isDisturbed, none)
  BY <1>2, <1>3, <1>5, <1>6, <1>7, EndAsRuled DEF s, m
<1>9. ASSUME ~m.ignore, ~isAsked \/ Naming!Named(t)
      PROVE  s.name = n.name
  <2>1. \/ ~isAsked \/ t.force \/ t.routed
        \/ Naming!RunUserNamingRules(user, url, {}, t.path).matched
    BY <1>2, <1>9
  <2> QED
    BY <1>2, <1>5, <1>6, <1>9, <2>1, EndNamed DEF s, m, n
<1>10. LET meant == Naming!Meant(e)
           ignored == isRuled \/ meant.ignore
       IN  /\ ~isDisturbed /\ ~t.force /\ none => (tx'[r].ignore <=> ignored)
           /\ ~ignored /\ (~isAsked \/ Naming!Named(t)) => tx'[r].name = Naming!Meant(c).name
  BY <1>2, <1>4, <1>8, <1>9 DEF EndsRight
<1> QED
  BY <1>10 DEF t, e, c, none, isRuled, isDisturbed, isAsked

(* However rules are added, sent again and consulted in between: a request *)
(* that nothing comes between, that is not named by force, and that meets  *)
(* no rule of the server with memory, is ignored exactly if some rule was  *)
(* meant to ignore it when it was asked; and one that is not to be ignored *)
(* leaves with the name that the rules make of it as they are meant, if    *)
(* nobody has asked for its name before something named it                 *)
(* (MetricNormalizer, finalizeNameFromUri).                                *)
THEOREM NamesFollowRules == Naming!Spec => NamedAsRuled
<1> DEFINE Right == tx' # tx =>
               \A r \in Requests, status \in Naming!Status :
                  LET meant == Naming!Meant([tx[r] EXCEPT !.status = status])
                      named == Naming!Meant([tx[r] EXCEPT !.status = status,
                                                          !.partial = Naming!NoName]).name
                      ignored == r \in ruled \/ meant.ignore
                  IN  Naming!End(r, status) =>
                         /\ r \notin disturbed /\ ~tx[r].force /\ Naming!NoneRemembers =>
                               (tx'[r].ignore <=> ignored)
                         /\ ~ignored /\ (r \notin asked \/ Naming!Named(tx[r])) =>
                               tx'[r].name = named
<1>1. NamesInv /\ [Naming!Next]_Naming!vars => [Right]_Naming!vars
  <2> SUFFICES ASSUME NamesInv
               PROVE  Right
    OBVIOUS
  <2> QED
    BY EndsAsRuled
<1> QED
  BY <1>1, NamesInit, NamesStep, PTL DEF Naming!Spec, NamedAsRuled, Naming!NamedAsRuled
=============================================================================
