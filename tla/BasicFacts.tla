----------------------------- MODULE BasicFacts -----------------------------
(***************************************************************************)
(* Facts about data that several proofs need: least elements, on which     *)
(* every "first seat that ..." of the code rests (host succession, turn    *)
(* order), induction over finite sets, and finite sums (chips, cards,      *)
(* route points).                                                          *)
(***************************************************************************)
EXTENDS Integers, FiniteSetsExt, WellFoundedInduction, FiniteSetTheorems, TLAPS

\* A nonempty set of naturals has a least element.
LEMMA LeastNatural ==
  ASSUME NEW T \in SUBSET Nat, T # {}
  PROVE  \E x \in T : \A y \in T : x <= y
<1> DEFINE R == OpToRel(<, Nat)
<1>1. IsWellFoundedOn(R, Nat)
  BY NatLessThanWellFounded
<1> HIDE DEF R
<1>2. PICK x \in T : \A y \in T : ~(<<y, x>> \in R)
  BY <1>1, WFMin
<1>3. ASSUME NEW y \in T PROVE x <= y
  <2>1. ~(<<y, x>> \in R)
    BY <1>2
  <2>2. ~(y < x)
    BY <2>1 DEF R, OpToRel
  <2> QED
    BY <2>2
<1> QED
  BY <1>3

\* Induction over the naturals, with the set of numbers that have the
\* property in place of the property.
LEMMA NaturalsAreReached ==
  ASSUME NEW F, 0 \in F, \A n \in Nat : n \in F => n + 1 \in F
  PROVE  \A n \in Nat : n \in F
<1> SUFFICES ASSUME NEW m \in Nat, m \notin F PROVE FALSE
  OBVIOUS
<1> DEFINE Out == {n \in Nat : n \notin F}
<1>1. PICK x \in Out : \A y \in Out : x <= y
  <2> HIDE DEF Out
  <2>1. Out \in SUBSET Nat /\ Out # {}
    BY DEF Out
  <2> QED
    BY <2>1, LeastNatural
<1>2. x # 0 /\ x - 1 \in Nat
  BY <1>1
<1>3. x - 1 \in F
  BY <1>1, <1>2
<1> QED
  BY <1>1, <1>2, <1>3

\* Induction over the subsets of a finite set, likewise: a family that has
\* the empty set and grows element by element has the whole set.
LEMMA FiniteSetIsReached ==
  ASSUME NEW S, IsFiniteSet(S), NEW F,
         {} \in F,
         \A T \in SUBSET S : \A x \in S \ T : T \in F => T \cup {x} \in F
  PROVE  S \in F
<1> DEFINE N == {n \in Nat : \A T \in SUBSET S : Cardinality(T) = n => T \in F}
<1>1. 0 \in N
  <2>1. \A T \in SUBSET S : Cardinality(T) = 0 => T = {}
    BY FS_Subset, FS_EmptySet
  <2> QED
    BY <2>1
<1>2. ASSUME NEW n \in Nat, n \in N PROVE n + 1 \in N
  <2> SUFFICES ASSUME NEW T \in SUBSET S, Cardinality(T) = n + 1 PROVE T \in F
    OBVIOUS
  <2>1. IsFiniteSet(T) /\ T # {}
    BY FS_Subset, FS_EmptySet
  <2>2. PICK x \in T : TRUE
    BY <2>1
  <2>3. Cardinality(T \ {x}) = n
    <3>1. Cardinality(T \ {x}) = Cardinality(T) - 1
      BY <2>1, FS_RemoveElement
    <3> QED
      BY <3>1
  <2>4. T \ {x} \in F
    BY <2>3, <1>2
  <2>5. (T \ {x}) \cup {x} \in F
    BY <2>4
  <2>6. (T \ {x}) \cup {x} = T
    OBVIOUS
  <2> QED
    BY <2>5, <2>6
<1>3. Cardinality(S) \in N
  <2> HIDE DEF N
  <2> QED
    BY <1>1, <1>2, NaturalsAreReached, FS_CardinalityType
<1> QED
  BY <1>3

-----------------------------------------------------------------------------
(***************************************************************************)
(* A function defined by recursion over 0..m exists, here one that stays   *)
(* in a set of values V.                                                   *)
(***************************************************************************)
Recurses(f, base, step, m) == f = [n \in 0..m |-> IF n = 0 THEN base ELSE step[<<n, f[n - 1]>>]]

\* A recursion over 0..m has a solution.
LEMMA RecursionExists ==
  ASSUME NEW V, NEW base \in V, NEW m \in Nat, NEW step \in [(1..m) \X V -> V]
  PROVE  \E f \in [0..m -> V] : Recurses(f, base, step, m)
<1> DEFINE Upto(k) == {f \in [0..k -> V] : Recurses(f, base, step, k)}
           F == {k \in Nat : k <= m => Upto(k) # {}}
<1>1. 0 \in F
  <2>1. [n \in 0..0 |-> base] \in Upto(0)
    BY DEF Recurses
  <2> QED
    BY <2>1
<1>2. ASSUME NEW k \in Nat, k \in F PROVE k + 1 \in F
  <2> SUFFICES ASSUME k + 1 <= m PROVE Upto(k + 1) # {}
    OBVIOUS
  <2>1. PICK f \in [0..k -> V] : Recurses(f, base, step, k)
    BY <1>2
  <2> DEFINE g == [n \in 0..(k + 1) |-> IF n = k + 1 THEN step[<<n, f[k]>>] ELSE f[n]]
  <2>2. f[k] \in V /\ <<k + 1, f[k]>> \in (1..m) \X V
    OBVIOUS
  <2>3. step[<<k + 1, f[k]>>] \in V
    BY <2>2
  <2>4. g \in [0..(k + 1) -> V]
    BY <2>3
  <2>5. ASSUME NEW n \in 0..(k + 1) PROVE g[n] = IF n = 0 THEN base ELSE step[<<n, g[n - 1]>>]
    <3>1. CASE n = k + 1
      BY <3>1
    <3>2. CASE n # k + 1
      <4>1. n \in 0..k /\ g[n] = f[n] /\ (n # 0 => g[n - 1] = f[n - 1])
        BY <3>2
      <4>2. f[n] = IF n = 0 THEN base ELSE step[<<n, f[n - 1]>>]
        BY <2>1, <4>1 DEF Recurses
      <4> QED
        BY <4>1, <4>2
    <3> QED
      BY <3>1, <3>2
  <2>6. DOMAIN g = 0..(k + 1)
    OBVIOUS
  <2> HIDE DEF g
  <2>7. g = [n \in 0..(k + 1) |-> IF n = 0 THEN base ELSE step[<<n, g[n - 1]>>]]
    BY <2>4, <2>5
  <2> QED
    BY <2>4, <2>7 DEF Recurses
<1> HIDE DEF F
<1>3. \A k \in Nat : k \in F
  BY <1>1, <1>2, NaturalsAreReached
<1>4. m \in F
  BY <1>3
<1> QED
  BY <1>4 DEF F

(***************************************************************************)
(* The sum of the values of f over a finite set, as MapThenSumSet          *)
(* computes it: one element after another, picked by CHOOSE.               *)
(***************************************************************************)
Sum(f, T) == MapThenSumSet(LAMBDA x : f[x], T)

Pick(T) == CHOOSE x \in T : TRUE

\* it computes the sum of f over every subset of S.
Iterates(f, S, it) ==
  it = [T \in SUBSET S |-> IF T = {} THEN 0 ELSE f[Pick(T)] + it[T \ {Pick(T)}]]

\* A sum is what such an iteration gives for the whole set.
LEMMA SumIterates ==
  ASSUME NEW f, NEW S
  PROVE  Sum(f, S) = (CHOOSE it : Iterates(f, S, it))[S]
BY DEF Sum, MapThenSumSet, MapThenFoldSet, Iterates, Pick

\* Such a function exists: it is built up by the size of the subsets.
LEMMA IterateExists ==
  ASSUME NEW f, NEW S, IsFiniteSet(S)
  PROVE  \E it : Iterates(f, S, it)
<1> DEFINE Sub(n)  == {T \in SUBSET S : Cardinality(T) <= n}
           Upto(n) == \E it : it = [T \in Sub(n) |->
                        IF T = {} THEN 0 ELSE f[Pick(T)] + it[T \ {Pick(T)}]]
           N == {n \in Nat : Upto(n)}
<1>1. \A T \in SUBSET S : /\ IsFiniteSet(T) /\ Cardinality(T) \in Nat
                          /\ Cardinality(T) = 0 <=> T = {}
                          /\ Cardinality(T) <= Cardinality(S)
  BY FS_Subset, FS_EmptySet, FS_CardinalityType
<1>2. \A T \in SUBSET S : T # {} =>
        /\ Pick(T) \in T
        /\ T \ {Pick(T)} \in SUBSET S
        /\ Cardinality(T \ {Pick(T)}) = Cardinality(T) - 1
  BY <1>1, FS_RemoveElement DEF Pick
<1>3. Upto(0)
  <2> DEFINE it == [T \in Sub(0) |-> 0]
  <2>1. \A T \in Sub(0) : T = {}
    BY <1>1
  <2>2. it = [T \in Sub(0) |-> IF T = {} THEN 0 ELSE f[Pick(T)] + it[T \ {Pick(T)}]]
    BY <2>1
  <2> QED
    BY <2>2
<1>4. ASSUME NEW n \in Nat, Upto(n) PROVE Upto(n + 1)
  <2> HIDE DEF Sub
  <2>1. PICK it : it = [T \in Sub(n) |-> IF T = {} THEN 0 ELSE f[Pick(T)] + it[T \ {Pick(T)}]]
    BY <1>4
  <2> DEFINE jt == [T \in Sub(n + 1) |-> IF T = {} THEN 0 ELSE f[Pick(T)] + it[T \ {Pick(T)}]]
  <2>2. Sub(n) \subseteq Sub(n + 1)
    BY <1>1 DEF Sub
  <2>3. \A T \in Sub(n) : jt[T] = it[T]
    BY <2>1, <2>2
  <2>4. \A T \in Sub(n + 1) : T # {} => T \ {Pick(T)} \in Sub(n)
    BY <1>1, <1>2 DEF Sub
  <2>5. \A T \in Sub(n + 1) :
          jt[T] = IF T = {} THEN 0 ELSE f[Pick(T)] + jt[T \ {Pick(T)}]
    BY <2>3, <2>4
  <2>6. jt = [T \in Sub(n + 1) |-> IF T = {} THEN 0 ELSE f[Pick(T)] + jt[T \ {Pick(T)}]]
    BY <2>5
  <2> QED
    BY <2>6
<1>5. Cardinality(S) \in N
  <2> HIDE DEF Upto
  <2>1. 0 \in N /\ \A n \in Nat : n \in N => n + 1 \in N
    BY <1>3, <1>4
  <2> HIDE DEF N
  <2> QED
    BY <2>1, NaturalsAreReached, FS_CardinalityType
<1>6. Sub(Cardinality(S)) = SUBSET S
  BY <1>1
<1> QED
  BY <1>5, <1>6 DEF Iterates

\* Two of them agree wherever both are defined.
LEMMA IteratesAgree ==
  ASSUME NEW f, NEW S, IsFiniteSet(S), NEW U \in SUBSET S, NEW it, NEW jt,
         Iterates(f, S, it), Iterates(f, U, jt)
  PROVE  it[U] = jt[U]
<1> DEFINE N == {n \in Nat : \A T \in SUBSET U : Cardinality(T) <= n => it[T] = jt[T]}
<1>1. \A T \in SUBSET U : IsFiniteSet(T) /\ Cardinality(T) \in Nat /\ (Cardinality(T) = 0 <=> T = {})
  BY FS_Subset, FS_EmptySet, FS_CardinalityType
<1>2. \A T \in SUBSET U : T # {} =>
        T \ {Pick(T)} \in SUBSET U /\ Cardinality(T \ {Pick(T)}) = Cardinality(T) - 1
  BY <1>1, FS_RemoveElement DEF Pick
<1>3. \A T \in SUBSET U :
        /\ it[T] = IF T = {} THEN 0 ELSE f[Pick(T)] + it[T \ {Pick(T)}]
        /\ jt[T] = IF T = {} THEN 0 ELSE f[Pick(T)] + jt[T \ {Pick(T)}]
  BY DEF Iterates
<1>4. 0 \in N
  BY <1>1, <1>3
<1>5. ASSUME NEW n \in Nat, n \in N PROVE n + 1 \in N
  <2> SUFFICES ASSUME NEW T \in SUBSET U, Cardinality(T) <= n + 1, T # {} PROVE it[T] = jt[T]
    BY <1>3
  <2>1. Cardinality(T \ {Pick(T)}) <= n
    BY <1>1, <1>2
  <2>2. it[T \ {Pick(T)}] = jt[T \ {Pick(T)}]
    BY <2>1, <1>2, <1>5
  <2> QED
    BY <2>2, <1>3
<1>6. Cardinality(U) \in N
  <2> HIDE DEF N
  <2> QED
    BY <1>1, <1>4, <1>5, NaturalsAreReached
<1> QED
  BY <1>1, <1>6

\* The recursion equation of the sum.
LEMMA SumStep ==
  ASSUME NEW f, NEW S, IsFiniteSet(S)
  PROVE  Sum(f, S) = IF S = {} THEN 0 ELSE f[Pick(S)] + Sum(f, S \ {Pick(S)})
<1> DEFINE it == CHOOSE it : Iterates(f, S, it)
           R  == S \ {Pick(S)}
           jt == CHOOSE jt : Iterates(f, R, jt)
<1>1. IsFiniteSet(R) /\ R \in SUBSET S
  BY FS_Subset
<1>2. Iterates(f, S, it) /\ Iterates(f, R, jt)
  BY <1>1, IterateExists
<1>3. Sum(f, S) = it[S] /\ Sum(f, R) = jt[R]
  BY SumIterates
<1> HIDE DEF it, jt
<1>4. it[R] = jt[R]
  BY <1>1, <1>2, IteratesAgree
<1>5. it[S] = IF S = {} THEN 0 ELSE f[Pick(S)] + it[R]
  BY <1>2 DEF Iterates
<1> QED
  BY <1>3, <1>4, <1>5

\* The sum over nothing is zero.
LEMMA SumOfNone == \A f : Sum(f, {}) = 0
BY SumStep, FS_EmptySet

\* Sums of numbers are numbers.
LEMMA SumType ==
  ASSUME NEW f, NEW S, IsFiniteSet(S)
  PROVE  /\ (\A x \in S : f[x] \in Int) => Sum(f, S) \in Int
         /\ (\A x \in S : f[x] \in Nat) => Sum(f, S) \in Nat
<1> DEFINE N == {n \in Nat : \A T \in SUBSET S : Cardinality(T) <= n =>
                   /\ (\A x \in T : f[x] \in Int) => Sum(f, T) \in Int
                   /\ (\A x \in T : f[x] \in Nat) => Sum(f, T) \in Nat}
<1>1. \A T \in SUBSET S : IsFiniteSet(T) /\ Cardinality(T) \in Nat /\ (Cardinality(T) = 0 <=> T = {})
  BY FS_Subset, FS_EmptySet, FS_CardinalityType
<1>2. \A T \in SUBSET S : T # {} =>
        /\ Pick(T) \in T /\ T \ {Pick(T)} \in SUBSET S
        /\ Cardinality(T \ {Pick(T)}) = Cardinality(T) - 1
  BY <1>1, FS_RemoveElement DEF Pick
<1>3. 0 \in N
  BY <1>1, SumOfNone
<1>4. ASSUME NEW n \in Nat, n \in N PROVE n + 1 \in N
  <2> SUFFICES ASSUME NEW T \in SUBSET S, Cardinality(T) <= n + 1
               PROVE  /\ (\A x \in T : f[x] \in Int) => Sum(f, T) \in Int
                      /\ (\A x \in T : f[x] \in Nat) => Sum(f, T) \in Nat
    OBVIOUS
  <2> DEFINE R == T \ {Pick(T)}
  <2>1. Sum(f, T) = IF T = {} THEN 0 ELSE f[Pick(T)] + Sum(f, R)
    BY <1>1, SumStep
  <2>2. T # {} => Cardinality(R) <= n /\ R \in SUBSET S
    BY <1>1, <1>2
  <2>3. T # {} => /\ (\A x \in R : f[x] \in Int) => Sum(f, R) \in Int
                  /\ (\A x \in R : f[x] \in Nat) => Sum(f, R) \in Nat
    BY <2>2, <1>4
  <2> QED
    BY <2>1, <2>3, <1>2
<1>5. Cardinality(S) \in N
  <2> HIDE DEF N
  <2> QED
    BY <1>1, <1>3, <1>4, NaturalsAreReached
<1> QED
  BY <1>1, <1>5

\* Whatever the order of picking, one more element adds its value.
LEMMA SumOneMore ==
  ASSUME NEW S, IsFiniteSet(S), NEW f, \A x \in S : f[x] \in Int,
         NEW T \in SUBSET S, NEW x \in S \ T
  PROVE  Sum(f, T \cup {x}) = Sum(f, T) + f[x]
<1> DEFINE N == {n \in Nat : \A U \in SUBSET S : Cardinality(U) <= n =>
                   \A y \in S \ U : Sum(f, U \cup {y}) = Sum(f, U) + f[y]}
<1>1. \A U \in SUBSET S : /\ IsFiniteSet(U) /\ Cardinality(U) \in Nat
                          /\ Cardinality(U) = 0 <=> U = {}
                          /\ Sum(f, U) \in Int
  BY FS_Subset, FS_EmptySet, FS_CardinalityType, SumType
<1>2. 0 \in N
  <2>1. ASSUME NEW y \in S PROVE Sum(f, {y}) = f[y]
    <3>1. Pick({y}) = y /\ {y} \ {y} = {} /\ IsFiniteSet({y}) /\ {y} # {}
      BY FS_Singleton DEF Pick
    <3>2. Sum(f, {y}) = f[Pick({y})] + Sum(f, {y} \ {Pick({y})})
      BY <3>1, SumStep
    <3>3. f[y] \in Int
      OBVIOUS
    <3>4. Sum(f, {y}) = f[y] + Sum(f, {})
      BY <3>1, <3>2
    <3> QED
      BY <3>3, <3>4, SumOfNone
  <2>2. \A U \in SUBSET S : Cardinality(U) <= 0 => U = {}
    BY <1>1
  <2>3. \A y \in S : Sum(f, {} \cup {y}) = Sum(f, {}) + f[y]
    BY <2>1, SumOfNone
  <2> QED
    BY <2>2, <2>3
<1>3. ASSUME NEW n \in Nat, n \in N PROVE n + 1 \in N
  <2> SUFFICES ASSUME NEW U \in SUBSET S, Cardinality(U) <= n + 1, NEW y \in S \ U
               PROVE  Sum(f, U \cup {y}) = Sum(f, U) + f[y]
    OBVIOUS
  <2> DEFINE V == U \cup {y}
             p == Pick(V)
  <2>1. p \in V /\ V \in SUBSET S /\ IsFiniteSet(V) /\ V # {}
    BY <1>1 DEF Pick
  <2>2. Sum(f, V) = f[p] + Sum(f, V \ {p})
    BY <2>1, SumStep
  <2> HIDE DEF p
  <2>3. CASE p = y
    <3>1. V \ {p} = U
      BY <2>3
    <3>2. f[y] \in Int /\ Sum(f, U) \in Int
      BY <1>1
    <3> HIDE DEF V
    <3>3. Sum(f, V) = f[y] + Sum(f, U)
      BY <2>2, <2>3, <3>1
    <3> QED
      BY <3>2, <3>3 DEF V
  <2>4. CASE p # y
    <3> DEFINE W == U \ {p}
    <3>1. p \in U /\ W \in SUBSET S /\ y \in S \ W /\ p \in S \ W
      BY <2>1, <2>4
    <3>2. Cardinality(W) <= n
      <4>1. Cardinality(W) = Cardinality(U) - 1
        BY <1>1, <3>1, FS_RemoveElement
      <4> QED
        BY <4>1, <1>1
    <3>3. Sum(f, W \cup {y}) = Sum(f, W) + f[y] /\ Sum(f, W \cup {p}) = Sum(f, W) + f[p]
      BY <3>1, <3>2, <1>3
    <3>4. V \ {p} = W \cup {y} /\ U = W \cup {p}
      BY <3>1, <2>4
    <3>5. f[y] \in Int /\ f[p] \in Int /\ Sum(f, W) \in Int
      BY <3>1, <1>1
    <3> HIDE DEF V, W
    <3>6. Sum(f, U) = Sum(f, W) + f[p]
      BY <3>3, <3>4
    <3>7. Sum(f, V) = f[p] + (Sum(f, W) + f[y])
      BY <2>2, <3>3, <3>4
    <3> QED
      BY <3>5, <3>6, <3>7 DEF V
  <2> QED
    BY <2>3, <2>4
<1>4. Cardinality(T) \in N
  <2> HIDE DEF N
  <2> QED
    BY <1>1, <1>2, <1>3, NaturalsAreReached
<1> QED
  BY <1>1, <1>4

\* The facts about sums that the proofs cite: f has a sum over S ...
Summable(f, S) == IsFiniteSet(S) /\ \A x \in S : f[x] \in Int

\* ... equal values have equal sums, ...
LEMMA SumCongruence ==
  ASSUME NEW S, NEW f, NEW g, Summable(f, S), \A x \in S : f[x] = g[x]
  PROVE  Sum(f, S) = Sum(g, S)
<1> DEFINE F == {T \in SUBSET S : Sum(f, T) = Sum(g, T)}
<1>1. {} \in F
  BY SumOfNone
<1>2. ASSUME NEW T \in SUBSET S, NEW x \in S \ T, T \in F PROVE T \cup {x} \in F
  <2>1. Sum(f, T \cup {x}) = Sum(f, T) + f[x] /\ Sum(g, T \cup {x}) = Sum(g, T) + g[x]
    BY SumOneMore DEF Summable
  <2> QED
    BY <2>1, <1>2
<1>3. S \in F
  <2> HIDE DEF F
  <2> QED
    BY <1>1, <1>2, FiniteSetIsReached DEF Summable
<1> QED
  BY <1>3

\* ... a sum of sums is a sum, ...
LEMMA SumPlus ==
  ASSUME NEW S, NEW f, NEW g, NEW h, Summable(f, S), Summable(g, S),
         \A x \in S : h[x] = f[x] + g[x]
  PROVE  Sum(h, S) = Sum(f, S) + Sum(g, S)
<1> DEFINE F == {T \in SUBSET S : Sum(h, T) = Sum(f, T) + Sum(g, T)}
<1>1. {} \in F
  BY SumOfNone
<1>2. ASSUME NEW T \in SUBSET S, NEW x \in S \ T, T \in F PROVE T \cup {x} \in F
  <2>1. IsFiniteSet(T) /\ Sum(f, T) \in Int /\ Sum(g, T) \in Int
    BY FS_Subset, SumType DEF Summable
  <2>2. f[x] \in Int /\ g[x] \in Int /\ h[x] = f[x] + g[x] /\ \A y \in S : h[y] \in Int
    BY DEF Summable
  <2>3. /\ Sum(f, T \cup {x}) = Sum(f, T) + f[x]
        /\ Sum(g, T \cup {x}) = Sum(g, T) + g[x]
        /\ Sum(h, T \cup {x}) = Sum(h, T) + h[x]
    BY <2>2, SumOneMore DEF Summable
  <2>4. Sum(h, T) = Sum(f, T) + Sum(g, T)
    BY <1>2
  <2>5. Sum(h, T \cup {x}) = Sum(f, T \cup {x}) + Sum(g, T \cup {x})
    BY <2>1, <2>2, <2>3, <2>4
  <2> QED
    BY <2>5
<1>3. S \in F
  <2> HIDE DEF F
  <2> QED
    BY <1>1, <1>2, FiniteSetIsReached DEF Summable
<1> QED
  BY <1>3

\* ... an element is split off, ...
LEMMA SumSplit ==
  ASSUME NEW S, NEW f, Summable(f, S), NEW x \in S
  PROVE  /\ Sum(f, S) = Sum(f, S \ {x}) + f[x]
         /\ Sum(f, S) \in Int /\ Sum(f, S \ {x}) \in Int
         /\ Summable(f, S \ {x})
<1>1. IsFiniteSet(S \ {x}) /\ (S \ {x}) \cup {x} = S /\ x \in S \ (S \ {x}) /\ S \ {x} \in SUBSET S
  BY FS_Subset DEF Summable
<1>2. Summable(f, S \ {x})
  BY <1>1 DEF Summable
<1>3. Sum(f, (S \ {x}) \cup {x}) = Sum(f, S \ {x}) + f[x]
  BY <1>1, SumOneMore DEF Summable
<1> QED
  BY <1>1, <1>2, <1>3, SumType DEF Summable

\* ... a change at one element changes the sum by as much, ...
LEMMA SumChange ==
  ASSUME NEW S, NEW f, NEW g, Summable(f, S), NEW x \in S, g[x] \in Int,
         \A y \in S \ {x} : g[y] = f[y]
  PROVE  Sum(g, S) = Sum(f, S) - f[x] + g[x] /\ Summable(g, S)
<1>1. Summable(g, S)
  BY DEF Summable
<1>2. Sum(f, S) = Sum(f, S \ {x}) + f[x] /\ Sum(f, S \ {x}) \in Int /\ Summable(f, S \ {x})
  BY SumSplit
<1>3. Sum(g, S) = Sum(g, S \ {x}) + g[x]
  BY <1>1, SumSplit
<1>4. Sum(f, S \ {x}) = Sum(g, S \ {x})
  BY <1>2, SumCongruence
<1>5. f[x] \in Int
  BY DEF Summable
<1> QED
  BY <1>1, <1>2, <1>3, <1>4, <1>5

\* ... zeros sum to zero, equal values to a product, ...
LEMMA SumConstant ==
  ASSUME NEW S, IsFiniteSet(S), NEW f, NEW c \in Int, \A x \in S : f[x] = c
  PROVE  Sum(f, S) = c * Cardinality(S)
<1> DEFINE F == {T \in SUBSET S : Sum(f, T) = c * Cardinality(T)}
<1>1. {} \in F
  BY SumOfNone, FS_EmptySet
<1>2. ASSUME NEW T \in SUBSET S, NEW x \in S \ T, T \in F PROVE T \cup {x} \in F
  <2>1. Sum(f, T \cup {x}) = Sum(f, T) + f[x]
    BY SumOneMore
  <2>2. Cardinality(T \cup {x}) = Cardinality(T) + 1 /\ Cardinality(T) \in Nat
    BY FS_Subset, FS_AddElement, FS_CardinalityType
  <2>3. Sum(f, T) = c * Cardinality(T) /\ f[x] = c
    BY <1>2
  <2>4. c * (Cardinality(T) + 1) = c * Cardinality(T) + c
    BY <2>2
  <2>5. Sum(f, T \cup {x}) = c * Cardinality(T \cup {x})
    BY <2>1, <2>2, <2>3, <2>4
  <2> QED
    BY <2>5
<1>3. S \in F
  <2> HIDE DEF F
  <2> QED
    BY <1>1, <1>2, FiniteSetIsReached
<1> QED
  BY <1>3

\* ... and a sum of naturals is at least each of them, and zero only of zeros.
LEMMA SumBounds ==
  ASSUME NEW S, IsFiniteSet(S), NEW f, \A x \in S : f[x] \in Nat
  PROVE  /\ Sum(f, S) \in Nat
         /\ \A x \in S : f[x] <= Sum(f, S)
         /\ Sum(f, S) > 0 <=> \E x \in S : f[x] > 0
<1>1. Sum(f, S) \in Nat
  BY SumType
<1>2. ASSUME NEW x \in S PROVE f[x] <= Sum(f, S)
  <2>1. IsFiniteSet(S \ {x})
    BY FS_Subset
  <2>2. Sum(f, S \ {x}) \in Nat
    BY <2>1, SumType
  <2>3. Sum(f, S) = Sum(f, S \ {x}) + f[x]
    BY SumSplit DEF Summable
  <2> QED
    BY <2>2, <2>3
<1>3. ASSUME \A x \in S : ~(f[x] > 0) PROVE Sum(f, S) = 0
  <2>1. \A x \in S : f[x] = 0
    BY <1>3
  <2>2. Sum(f, S) = 0 * Cardinality(S) /\ Cardinality(S) \in Nat
    BY <2>1, SumConstant, FS_CardinalityType
  <2> QED
    BY <2>2
<1> QED
  BY <1>1, <1>2, <1>3

\* Elements left out count as zeros.
LEMMA SumRestricted ==
  ASSUME NEW S, NEW f, Summable(f, S), NEW R \in SUBSET S, NEW g,
         \A x \in S : g[x] = IF x \in R THEN f[x] ELSE 0
  PROVE  Sum(f, R) = Sum(g, S)
<1> DEFINE F == {T \in SUBSET S : Sum(f, T \cap R) = Sum(g, T)}
<1>1. {} \in F
  <2>1. {} \cap R = {}
    OBVIOUS
  <2> QED
    BY <2>1, SumOfNone
<1>2. ASSUME NEW T \in SUBSET S, NEW x \in S \ T, T \in F PROVE T \cup {x} \in F
  <2>1. f[x] \in Int /\ g[x] \in Int /\ \A y \in S : g[y] \in Int
    BY DEF Summable
  <2>2. Sum(g, T \cup {x}) = Sum(g, T) + g[x]
    BY <2>1, SumOneMore DEF Summable
  <2>3. Sum(f, T \cap R) = Sum(g, T) /\ T \cap R \in SUBSET S
    BY <1>2
  <2>4. IsFiniteSet(T) /\ Sum(g, T) \in Int
    BY <2>1, FS_Subset, SumType DEF Summable
  <2>5. CASE x \in R
    <3>1. (T \cup {x}) \cap R = (T \cap R) \cup {x} /\ x \in S \ (T \cap R)
      BY <2>5
    <3>2. Sum(f, (T \cap R) \cup {x}) = Sum(f, T \cap R) + f[x]
      BY <3>1, <2>3, SumOneMore DEF Summable
    <3>3. Sum(f, (T \cup {x}) \cap R) = Sum(g, T \cup {x})
      BY <2>2, <2>3, <2>5, <3>1, <3>2
    <3> QED
      BY <3>3
  <2>6. CASE x \notin R
    <3>1. (T \cup {x}) \cap R = T \cap R
      BY <2>6
    <3>2. Sum(g, T \cup {x}) = Sum(g, T)
      BY <2>2, <2>4, <2>6
    <3>3. Sum(f, (T \cup {x}) \cap R) = Sum(g, T \cup {x})
      BY <2>3, <3>1, <3>2
    <3> QED
      BY <3>3
  <2> QED
    BY <2>5, <2>6
<1>3. S \in F
  <2> HIDE DEF F
  <2> QED
    BY <1>1, <1>2, FiniteSetIsReached DEF Summable
<1>4. S \cap R = R
  OBVIOUS
<1> QED
  BY <1>3, <1>4

\* A finite table of numbers has the same sum by rows and by columns.
LEMMA SumExchange ==
  ASSUME NEW S, IsFiniteSet(S), NEW T, IsFiniteSet(T), NEW m,
         \A x \in S, y \in T : m[x][y] \in Int
  PROVE  Sum([x \in S |-> Sum([y \in T |-> m[x][y]], T)], S)
           = Sum([y \in T |-> Sum([x \in S |-> m[x][y]], S)], T)
<1> DEFINE row(x)    == [y \in T |-> m[x][y]]
           column(y) == [x \in S |-> m[x][y]]
           rows(U)   == [x \in S |-> Sum(row(x), U)]
           columns   == [y \in T |-> Sum(column(y), S)]
           F         == {U \in SUBSET T : Sum(rows(U), S) = Sum(columns, U)}
<1>1. \A y \in T : Summable(column(y), S) /\ Sum(column(y), S) \in Int
  <2> TAKE y \in T
  <2>1. Summable(column(y), S)
    BY DEF Summable
  <2> HIDE DEF column
  <2> QED
    BY <2>1, SumType DEF Summable
<1>2. \A x \in S : Summable(row(x), T)
  BY DEF Summable
<1>3. \A y \in T : columns[y] = Sum(column(y), S) /\ columns[y] \in Int
  BY <1>1
<1> HIDE DEF columns
<1>4. {} \in F
  <2>1. \A x \in S : rows({})[x] = 0
    BY SumOfNone
  <2>2. Sum(rows({}), S) = 0 * Cardinality(S)
    <3> HIDE DEF rows
    <3> QED
      BY <2>1, SumConstant
  <2>3. Sum(rows({}), S) = 0
    BY <2>2, FS_CardinalityType
  <2> QED
    BY <2>3, SumOfNone
<1>5. ASSUME NEW U \in SUBSET T, NEW y \in T \ U, U \in F PROVE U \cup {y} \in F
  <2>1. IsFiniteSet(U)
    BY FS_Subset
  <2>2. \A x \in S : Sum(row(x), U \cup {y}) = Sum(row(x), U) + m[x][y]
    <3> TAKE x \in S
    <3>1. row(x)[y] = m[x][y] /\ \A z \in T : row(x)[z] \in Int
      OBVIOUS
    <3> HIDE DEF row
    <3> QED
      BY <3>1, SumOneMore
  <2>3. \A x \in S : rows(U \cup {y})[x] = rows(U)[x] + column(y)[x]
    BY <2>2
  <2>4. Summable(rows(U), S)
    <3>1. ASSUME NEW x \in S PROVE Sum(row(x), U) \in Int
      <4>1. \A z \in U : row(x)[z] \in Int
        OBVIOUS
      <4> HIDE DEF row
      <4> QED
        BY <4>1, <2>1, SumType
    <3> QED
      BY <3>1 DEF Summable
  <2>5. Sum(rows(U \cup {y}), S) = Sum(rows(U), S) + Sum(column(y), S)
    <3> HIDE DEF rows, column
    <3> QED
      BY <1>1, <2>3, <2>4, SumPlus
  <2>6. Sum(columns, U \cup {y}) = Sum(columns, U) + columns[y]
    <3>1. \A z \in T : columns[z] \in Int
      BY <1>3
    <3> HIDE DEF F, rows, column
    <3> QED
      BY <3>1, SumOneMore
  <2>7. Sum(rows(U \cup {y}), S) = Sum(columns, U \cup {y})
    BY <1>3, <1>5, <2>5, <2>6
  <2> QED
    BY <2>7
<1>6. T \in F
  <2> HIDE DEF F
  <2> QED
    BY <1>4, <1>5, FiniteSetIsReached
<1>7. Sum(rows(T), S) = Sum(columns, T)
  BY <1>6
<1> QED
  BY <1>7 DEF columns

\* Renaming the elements, one to one, does not change the sum.
LEMMA SumRenamed ==
  ASSUME NEW S, IsFiniteSet(S), NEW name, NEW f, NEW g,
         \A x, y \in S : name[x] = name[y] => x = y,
         \A x \in S : f[name[x]] \in Int /\ g[x] = f[name[x]]
  PROVE  Sum(f, {name[x] : x \in S}) = Sum(g, S)
<1> DEFINE Named(T) == {name[x] : x \in T}
           F        == {T \in SUBSET S : IsFiniteSet(Named(T)) /\ Sum(f, Named(T)) = Sum(g, T)}
<1>1. {} \in F
  <2>1. Named({}) = {}
    OBVIOUS
  <2> QED
    BY <2>1, SumOfNone, FS_EmptySet
<1>2. ASSUME NEW T \in SUBSET S, NEW x \in S \ T, T \in F PROVE T \cup {x} \in F
  <2>1. Named(T \cup {x}) = Named(T) \cup {name[x]}
    OBVIOUS
  <2>2. name[x] \notin Named(T)
    OBVIOUS
  <2>3. IsFiniteSet(Named(T)) /\ Sum(f, Named(T)) = Sum(g, T)
    BY <1>2
  <2>4. \A y \in Named(T) \cup {name[x]} : f[y] \in Int
    OBVIOUS
  <2>5. g[x] = f[name[x]] /\ \A y \in S : g[y] \in Int
    OBVIOUS
  <2> HIDE DEF Named
  <2>6. IsFiniteSet(Named(T) \cup {name[x]})
    BY <2>3, FS_AddElement
  <2>7. Sum(f, Named(T) \cup {name[x]}) = Sum(f, Named(T)) + f[name[x]]
    BY <2>2, <2>4, <2>6, SumOneMore
  <2>8. Sum(g, T \cup {x}) = Sum(g, T) + g[x]
    BY <2>5, SumOneMore
  <2> QED
    BY <2>1, <2>3, <2>5, <2>6, <2>7, <2>8
<1>3. S \in F
  <2> HIDE DEF F
  <2> QED
    BY <1>1, <1>2, FiniteSetIsReached
<1> QED
  BY <1>3

\* Elements sorted into groups sum up group by group: group[x] is in G for
\* the elements that count.
LEMMA SumGrouped ==
  ASSUME NEW S, NEW f, Summable(f, S), NEW G, IsFiniteSet(G), NEW group
  PROVE  Sum([k \in G |-> Sum(f, {x \in S : group[x] = k})], G) = Sum(f, {x \in S : group[x] \in G})
<1> DEFINE m    == [k \in G |-> [x \in S |-> IF group[x] = k THEN f[x] ELSE 0]]
           some == [x \in S |-> IF group[x] \in G THEN f[x] ELSE 0]
<1>1. \A k \in G, x \in S : m[k][x] \in Int
  BY DEF Summable
<1>2. IsFiniteSet(S)
  BY DEF Summable
<1>3. ASSUME NEW k \in G
      PROVE  Sum(f, {x \in S : group[x] = k}) = Sum([x \in S |-> m[k][x]], S)
  <2> DEFINE R == {x \in S : group[x] = k}
             g == [x \in S |-> m[k][x]]
  <2>1. \A x \in S : g[x] = IF x \in R THEN f[x] ELSE 0
    OBVIOUS
  <2>2. R \in SUBSET S
    OBVIOUS
  <2> HIDE DEF R, g
  <2>3. Sum(f, R) = Sum(g, S)
    BY <2>1, <2>2, SumRestricted
  <2> QED
    BY <2>3 DEF R, g
<1>4. ASSUME NEW x \in S
      PROVE  Sum([k \in G |-> m[k][x]], G) = some[x]
  <2> DEFINE c == [k \in G |-> m[k][x]]
             zero == [k \in G |-> 0]
  <2>1. Sum(zero, G) = 0
    <3>1. Sum(zero, G) = 0 * Cardinality(G)
      BY SumConstant
    <3> QED
      BY <3>1, FS_CardinalityType
  <2>2. \A k \in G : c[k] = (IF group[x] = k THEN f[x] ELSE 0) /\ c[k] \in Int /\ f[x] \in Int
    BY DEF Summable
  <2>3. Summable(zero, G)
    BY DEF Summable
  <2>4. CASE group[x] \in G
    <3>1. \A k \in G \ {group[x]} : c[k] = zero[k]
      BY <2>2
    <3>2. zero[group[x]] = 0 /\ c[group[x]] = f[x] /\ f[x] \in Int
      BY <2>2, <2>4
    <3> HIDE DEF zero, c
    <3>3. Sum(c, G) = Sum(zero, G) - zero[group[x]] + c[group[x]]
      BY <2>3, <2>4, <3>1, <3>2, SumChange
    <3>4. Sum(c, G) = f[x]
      BY <2>1, <3>2, <3>3
    <3> QED
      BY <2>4, <3>4 DEF c
  <2>5. CASE group[x] \notin G
    <3>1. \A k \in G : zero[k] = c[k]
      BY <2>2, <2>5
    <3> HIDE DEF zero, c
    <3>2. Sum(c, G) = 0
      BY <2>1, <2>3, <3>1, SumCongruence
    <3> QED
      BY <2>5, <3>2 DEF c
  <2> QED
    BY <2>4, <2>5
<1> HIDE DEF m
<1>5. Sum([k \in G |-> Sum([x \in S |-> m[k][x]], S)], G)
        = Sum([x \in S |-> Sum([k \in G |-> m[k][x]], G)], S)
  BY <1>1, <1>2, SumExchange
<1>6. [k \in G |-> Sum(f, {x \in S : group[x] = k})] = [k \in G |-> Sum([x \in S |-> m[k][x]], S)]
  BY <1>3
<1>7. [x \in S |-> Sum([k \in G |-> m[k][x]], G)] = some
  BY <1>4
<1>8. Sum(f, {x \in S : group[x] \in G}) = Sum(some, S)
  <2> DEFINE R == {x \in S : group[x] \in G}
  <2>1. \A x \in S : some[x] = IF x \in R THEN f[x] ELSE 0
    OBVIOUS
  <2>2. R \in SUBSET S
    OBVIOUS
  <2> HIDE DEF R, some
  <2> QED
    BY <2>1, <2>2, SumRestricted DEF R
<1> QED
  BY <1>5, <1>6, <1>7, <1>8

-----------------------------------------------------------------------------
(***************************************************************************)
(* Ordered finite sets of numbers.                                         *)
(***************************************************************************)
\* A nonempty finite set of integers has a greatest element, and Max is it.
LEMMA MaxIsGreatest ==
  ASSUME NEW S, IsFiniteSet(S), S # {}, \A x \in S : x \in Int
  PROVE  Max(S) \in S /\ \A y \in S : Max(S) >= y
<1> DEFINE F == {T \in SUBSET S : T # {} => \E x \in T : \A y \in T : x >= y}
<1>1. {} \in F
  OBVIOUS
<1>2. ASSUME NEW T \in SUBSET S, NEW x \in S \ T, T \in F PROVE T \cup {x} \in F
  <2> SUFFICES \E z \in T \cup {x} : \A y \in T \cup {x} : z >= y
    OBVIOUS
  <2>1. CASE T = {}
    BY <2>1
  <2>2. CASE T # {}
    <3>1. PICK z \in T : \A y \in T : z >= y
      BY <1>2, <2>2
    <3>2. CASE z >= x
      BY <3>1, <3>2
    <3>3. CASE ~(z >= x)
      BY <3>1, <3>3
    <3> QED
      BY <3>2, <3>3
  <2> QED
    BY <2>1, <2>2
<1>3. S \in F
  <2> HIDE DEF F
  <2> QED
    BY <1>1, <1>2, FiniteSetIsReached
<1>4. \E x \in S : \A y \in S : x >= y
  BY <1>3
<1> QED
  BY <1>4 DEF Max

\* The level below a level of L, 0 below the first.
Below(L, v) == Max({0} \cup {l \in L : l < v})

\* The greatest element below one, or zero.
LEMMA BelowIsNext ==
  ASSUME NEW L, IsFiniteSet(L), \A l \in L : l \in Nat /\ l > 0, NEW v \in L
  PROVE  /\ Below(L, v) \in {0} \cup L
         /\ Below(L, v) < v
         /\ \A l \in L : l < v => l <= Below(L, v)
<1> DEFINE B == {0} \cup {l \in L : l < v}
<1>1. IsFiniteSet({l \in L : l < v})
  BY FS_Subset
<1>2. IsFiniteSet(B)
  <2>1. B = {l \in L : l < v} \cup {0}
    OBVIOUS
  <2> HIDE DEF B
  <2> QED
    BY <1>1, <2>1, FS_AddElement
<1>3. B # {} /\ \A x \in B : x \in Int
  OBVIOUS
<1> HIDE DEF B
<1>4. Max(B) \in B /\ \A y \in B : Max(B) >= y
  BY <1>2, <1>3, MaxIsGreatest
<1>5. Below(L, v) = Max(B)
  BY DEF Below, B
<1> HIDE DEF Below
<1>6. Below(L, v) \in B /\ \A y \in B : Below(L, v) >= y /\ y \in Int
  BY <1>3, <1>4, <1>5
<1> QED
  BY <1>6 DEF B

\* The distances from level to level add up to the height of the last one.
LEMMA LevelsAddUp ==
  ASSUME NEW L, IsFiniteSet(L), \A l \in L : l \in Nat /\ l > 0, NEW v \in L,
         NEW width, \A l \in L : width[l] = l - Below(L, l)
  PROVE  Sum(width, {l \in L : l <= v}) = v
<1> DEFINE Upto(x) == {l \in L : l <= x}
           N == {n \in Nat : \A x \in L : x <= n => Sum(width, Upto(x)) = x}
<1>1. 0 \in N
  OBVIOUS
<1>2. ASSUME NEW n \in Nat, n \in N PROVE n + 1 \in N
  <2> SUFFICES ASSUME NEW x \in L, x <= n + 1 PROVE Sum(width, Upto(x)) = x
    OBVIOUS
  <2> DEFINE b == Below(L, x)
  <2>1. b \in {0} \cup L /\ b < x /\ \A l \in L : l < x => l <= b
    BY BelowIsNext
  <2> HIDE DEF b
  <2>2. Sum(width, Upto(b)) = b
    <3>1. CASE b = 0
      <4>1. Upto(b) = {}
        BY <3>1
      <4> QED
        BY <4>1, <3>1, SumOfNone
    <3>2. CASE b \in L
      BY <2>1, <3>2, <1>2
    <3> QED
      BY <2>1, <3>1, <3>2
  <2>3. Upto(x) = Upto(b) \cup {x} /\ x \notin Upto(b)
    BY <2>1
  <2>4. \A l \in L : width[l] \in Int
    <3> TAKE l \in L
    <3>1. Below(L, l) \in {0} \cup L
      BY BelowIsNext
    <3> HIDE DEF Below
    <3> QED
      BY <3>1
  <2>5. Sum(width, Upto(b) \cup {x}) = Sum(width, Upto(b)) + width[x]
    BY <2>3, <2>4, SumOneMore
  <2>6. width[x] = x - b
    BY DEF b
  <2>7. x \in Int /\ b \in Int
    BY <2>1
  <2> QED
    BY <2>2, <2>3, <2>5, <2>6, <2>7
<1>3. v \in N
  <2> HIDE DEF N
  <2> QED
    BY <1>1, <1>2, NaturalsAreReached
<1> QED
  BY <1>3

\* In a set of n numbers, k of them have fewer than k below them.
Place(W, s) == Cardinality({w \in W : w < s})

\* As many numbers have a place below k as k says.
LEMMA PlacesAreCounted ==
  ASSUME NEW W, IsFiniteSet(W), \A w \in W : w \in Int, NEW k \in Nat, k <= Cardinality(W)
  PROVE  Cardinality({s \in W : Place(W, s) < k}) = k
<1> DEFINE First(V) == {s \in V : Place(V, s) < k}
           N == {n \in Nat : \A V \in SUBSET W :
                   Cardinality(V) <= n /\ k <= Cardinality(V) => Cardinality(First(V)) = k}
<1>1. \A V \in SUBSET W : /\ IsFiniteSet(V) /\ Cardinality(V) \in Nat
                          /\ Cardinality(V) = 0 <=> V = {}
  BY FS_Subset, FS_EmptySet, FS_CardinalityType
<1>2. ASSUME NEW V \in SUBSET W, Cardinality(V) = k PROVE Cardinality(First(V)) = k
  <2>1. ASSUME NEW s \in V PROVE Place(V, s) < k
    <3>1. {w \in V : w < s} \in SUBSET (V \ {s})
      OBVIOUS
    <3>2. IsFiniteSet(V \ {s}) /\ Cardinality(V \ {s}) = k - 1
      BY <1>1, <1>2, FS_RemoveElement
    <3>3. Cardinality({w \in V : w < s}) <= k - 1 /\ Cardinality({w \in V : w < s}) \in Nat
      BY <3>1, <3>2, FS_Subset, FS_CardinalityType
    <3> QED
      BY <3>3 DEF Place
  <2>2. First(V) = V
    BY <2>1
  <2> QED
    BY <2>2, <1>2
<1>3. 0 \in N
  BY <1>1, <1>2
<1>4. ASSUME NEW n \in Nat, n \in N PROVE n + 1 \in N
  <2> SUFFICES ASSUME NEW V \in SUBSET W, Cardinality(V) <= n + 1, k < Cardinality(V)
               PROVE  Cardinality(First(V)) = k
    BY <1>1, <1>2
  <2> DEFINE m == Max(V)
             R == V \ {m}
  <2>1. V # {} /\ \A w \in V : w \in Int
    BY <1>1
  <2>2. m \in V /\ \A y \in V : m >= y
    BY <1>1, <2>1, MaxIsGreatest
  <2> HIDE DEF m
  <2>3. IsFiniteSet(R) /\ Cardinality(R) = Cardinality(V) - 1
    BY <1>1, <2>2, FS_RemoveElement
  <2>4. Cardinality(First(R)) = k
    <3>1. Cardinality(R) <= n /\ k <= Cardinality(R)
      BY <1>1, <2>3
    <3>2. R \in SUBSET W
      OBVIOUS
    <3> HIDE DEF First, R
    <3> QED
      BY <3>1, <3>2, <1>4
  <2>5. \A s \in R : Place(V, s) = Place(R, s)
    <3> TAKE s \in R
    <3>1. {w \in V : w < s} = {w \in R : w < s}
      BY <2>1, <2>2
    <3> QED
      BY <3>1 DEF Place
  <2>6. Place(V, m) = Cardinality(R)
    <3>1. {w \in V : w < m} = R
      BY <2>1, <2>2
    <3> QED
      BY <3>1 DEF Place
  <2>7. First(V) = First(R)
    <3>1. ~(Place(V, m) < k)
      BY <2>3, <2>6, <1>1
    <3> QED
      BY <2>2, <2>5, <3>1
  <2> QED
    BY <2>4, <2>7
<1>5. Cardinality(W) \in N
  <2> HIDE DEF N
  <2> QED
    BY <1>1, <1>3, <1>4, NaturalsAreReached
<1> QED
  BY <1>1, <1>5

\* Every place up to the number of elements is taken.
LEMMA PlaceIsTaken ==
  ASSUME NEW W, IsFiniteSet(W), \A w \in W : w \in Int, NEW k \in 1..Cardinality(W)
  PROVE  \E s \in W : Place(W, s) = k - 1
<1> DEFINE first(n) == {s \in W : Place(W, s) < n}
<1>1. k \in Nat /\ k - 1 \in Nat /\ k <= Cardinality(W) /\ k - 1 <= Cardinality(W)
  BY FS_CardinalityType
<1>2. Cardinality(first(k)) = k /\ Cardinality(first(k - 1)) = k - 1
  BY <1>1, PlacesAreCounted
<1>3. PICK s \in first(k) : s \notin first(k - 1)
  <2>1. first(k - 1) \subseteq first(k)
    <3>1. ASSUME NEW s \in W, Place(W, s) < k - 1 PROVE Place(W, s) < k
      <4>1. Place(W, s) \in Nat
        BY FS_Subset, FS_CardinalityType DEF Place
      <4> QED
        BY <1>1, <3>1, <4>1
    <3> QED
      BY <3>1
  <2>2. Cardinality(first(k)) # Cardinality(first(k - 1))
    BY <1>1, <1>2
  <2> QED
    BY <2>1, <2>2
<1>4. Place(W, s) \in Nat
  BY FS_Subset, FS_CardinalityType DEF Place
<1> QED
  BY <1>1, <1>3, <1>4

\* No two elements have the same place.
LEMMA PlaceIsOwn ==
  ASSUME NEW W, IsFiniteSet(W), \A w \in W : w \in Int, NEW s \in W
  PROVE  /\ Place(W, s) \in Nat /\ Place(W, s) < Cardinality(W)
         /\ \A t \in W : Place(W, t) = Place(W, s) => t = s
<1> DEFINE below(x) == {w \in W : w < x}
<1>1. \A x \in W : IsFiniteSet(below(x)) /\ Cardinality(below(x)) \in Nat
  BY FS_Subset, FS_CardinalityType
<1>2. ASSUME NEW x \in W, NEW A \in SUBSET W, below(x) \subseteq A, x \in A
      PROVE  Cardinality(below(x)) < Cardinality(A)
  <2>1. IsFiniteSet(A) /\ below(x) # A
    BY <1>2, FS_Subset
  <2> HIDE DEF below
  <2>2. /\ Cardinality(below(x)) <= Cardinality(A)
        /\ Cardinality(below(x)) = Cardinality(A) => below(x) = A
    BY <1>2, <2>1, FS_Subset
  <2>3. Cardinality(below(x)) \in Nat /\ Cardinality(A) \in Nat
    BY <1>1, <2>1, FS_CardinalityType
  <2> QED
    BY <2>1, <2>2, <2>3
<1>3. Place(W, s) < Cardinality(W)
  <2>1. below(s) \subseteq W
    OBVIOUS
  <2> QED
    BY <1>2, <2>1 DEF Place
<1>4. ASSUME NEW x \in W, NEW y \in W, x < y PROVE Place(W, x) # Place(W, y)
  <2>1. below(x) \subseteq below(y) /\ x \in below(y) /\ below(y) \in SUBSET W
    BY <1>4
  <2>2. Cardinality(below(x)) < Cardinality(below(y))
    BY <1>2, <2>1
  <2> QED
    BY <1>1, <2>2 DEF Place
<1>5. ASSUME NEW t \in W, Place(W, t) = Place(W, s) PROVE t = s
  <2>1. t < s \/ s < t \/ t = s
    OBVIOUS
  <2> QED
    BY <1>4, <1>5, <2>1
<1> QED
  BY <1>1, <1>3, <1>5 DEF Place

\* A whole shared out by division, the odd ones to the first in order, is
\* shared out exactly.
LEMMA SharesAddUp ==
  ASSUME NEW W, IsFiniteSet(W), W # {}, \A w \in W : w \in Int, NEW whole \in Nat, NEW share,
         \A s \in W : share[s] = whole \div Cardinality(W)
                                 + (IF Place(W, s) < whole % Cardinality(W) THEN 1 ELSE 0)
  PROVE  Sum(share, W) = whole
<1> DEFINE n == Cardinality(W)
           q == whole \div n
           r == whole % n
           even == [s \in W |-> q]
           odd  == [s \in W |-> IF Place(W, s) < r THEN 1 ELSE 0]
           one  == [s \in W |-> 1]
           First == {s \in W : Place(W, s) < r}
<1>1. n \in Nat /\ n > 0
  <2>1. n \in Nat /\ n # 0
    BY FS_CardinalityType, FS_EmptySet
  <2> QED
    BY <2>1
<1>2. q \in Nat /\ r \in Nat /\ r < n /\ whole = q * n + r
  <2> HIDE DEF n
  <2> QED
    BY <1>1
<1> HIDE DEF q, r
<1>3. Sum(even, W) = q * n
  <2>1. \A s \in W : even[s] = q
    OBVIOUS
  <2> HIDE DEF even, n
  <2> QED
    BY <1>2, <2>1, SumConstant DEF n
<1>4. Sum(odd, W) = r
  <2>1. \A s \in W : odd[s] = IF s \in First THEN one[s] ELSE 0
    OBVIOUS
  <2>2. First \in SUBSET W /\ Summable(one, W) /\ IsFiniteSet(First)
    BY FS_Subset DEF Summable
  <2>3. Sum(one, First) = Sum(odd, W)
    <3> HIDE DEF First, one, odd
    <3> QED
      BY <2>1, <2>2, SumRestricted
  <2>4. Cardinality(First) = r
    <3>1. r \in Nat /\ r <= Cardinality(W)
      BY <1>1, <1>2
    <3> QED
      BY <3>1, PlacesAreCounted
  <2>5. Sum(one, First) = 1 * Cardinality(First)
    <3>1. 1 \in Int /\ \A s \in First : one[s] = 1
      OBVIOUS
    <3> HIDE DEF First, one, odd, even, n
    <3> QED
      BY <2>2, <3>1, SumConstant
  <2> QED
    BY <1>2, <2>3, <2>4, <2>5
<1>5. Sum(share, W) = Sum(even, W) + Sum(odd, W)
  <2>1. \A s \in W : share[s] = even[s] + odd[s]
    BY DEF q, r
  <2>2. Summable(even, W) /\ Summable(odd, W)
    BY <1>2 DEF Summable
  <2> HIDE DEF even, odd
  <2> QED
    BY <2>1, <2>2, SumPlus
<1> QED
  BY <1>2, <1>3, <1>4, <1>5

=============================================================================
