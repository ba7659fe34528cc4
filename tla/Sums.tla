--------------------------------- MODULE Sums ---------------------------------
(***************************************************************************)
(* Sums of numbers over finite sets, and what the folds of the community   *)
(* modules add up: the facts that the proofs about counters rest on.       *)
(***************************************************************************)
EXTENDS Integers, Sequences, FiniteSetsExt, FiniteSetTheorems, SequenceTheorems, TLAPS

-----------------------------------------------------------------------------
(* Induction.  The theorems of the library take a predicate as parameter,  *)
(* which no prover here can supply; these take a set instead.              *)

\* A set of numbers has a least element.
LEMMA LeastNumber ==
  ASSUME NEW T \in SUBSET Nat, T # {}
  PROVE  \E m \in T : \A k \in T : m <= k
<1> DEFINE R == OpToRel(<, Nat)
<1>1. IsWellFoundedOn(R, Nat)
  BY NatLessThanWellFounded
<1>2. \A k, m \in Nat : k < m => <<k, m>> \in R
  BY DEF OpToRel
<1> HIDE DEF R
<1>3. PICK m \in T : \A k \in T : ~ (<<k, m>> \in R)
  BY <1>1, WFMin
<1>4. \A k \in T : ~(k < m)
  BY <1>2, <1>3, Zenon
<1> QED
  BY <1>4

\* Of some subsets of a finite set, one becomes another one when any element leaves it.
LEMMA SmallestSet ==
  ASSUME NEW D, IsFiniteSet(D), NEW T \in SUBSET (SUBSET D), T # {}
  PROVE  \E I \in T : \A x \in I : I \ {x} \notin T
<1> DEFINE sizes == {Cardinality(I) : I \in T}
<1>1. \A I \in T : IsFiniteSet(I) /\ Cardinality(I) \in Nat
  BY FS_Subset, FS_CardinalityType
<1>2. sizes \in SUBSET Nat /\ sizes # {}
  BY <1>1
<1>3. PICK m \in sizes : \A k \in sizes : m <= k
  BY <1>2, LeastNumber
<1>4. PICK I \in T : Cardinality(I) = m
  BY <1>3
<1>5. ASSUME NEW x \in I, I \ {x} \in T PROVE FALSE
  <2>1. Cardinality(I \ {x}) = Cardinality(I) - 1
    BY <1>1, FS_RemoveElement
  <2>2. m <= Cardinality(I \ {x})
    BY <1>3, <1>5
  <2> QED
    BY <1>1, <1>4, <2>1, <2>2
<1> QED
  BY <1>5

-----------------------------------------------------------------------------
(* Sums *)

\* The sums of g over all subsets of its domain, whatever the order of the summands.
IsSum(it, g) ==
  /\ it \in [SUBSET DOMAIN g -> Nat]
  /\ it[{}] = 0
  /\ \A I \in SUBSET DOMAIN g : \A x \in I : it[I] = g[x] + it[I \ {x}]

SumsOf(g) == CHOOSE it : IsSum(it, g)

\* The sum of g over I, and over its domain.
SumOver(g, I) == SumsOf(g)[I]
SumAll(g) == SumOver(g, DOMAIN g)

\* Counts over a finite set have a sum: the partial sums exist.
LEMMA SumExists ==
  ASSUME NEW D, IsFiniteSet(D), NEW g \in [D -> Nat]
  PROVE  \E it : IsSum(it, g)
<1> DEFINE Good(U) == \E it \in [SUBSET U -> Nat] :
                        /\ it[{}] = 0
                        /\ \A I \in SUBSET U : \A x \in I : it[I] = g[x] + it[I \ {x}]
           Bad == {U \in SUBSET D : ~Good(U)}
<1> SUFFICES ASSUME Bad # {} PROVE FALSE
  <2>1. ASSUME Good(D) PROVE \E it : IsSum(it, g)
    <3>1. PICK it \in [SUBSET D -> Nat] :
            it[{}] = 0 /\ \A I \in SUBSET D : \A x \in I : it[I] = g[x] + it[I \ {x}]
      BY <2>1
    <3>2. DOMAIN g = D
      OBVIOUS
    <3>3. IsSum(it, g)
      BY <3>1, <3>2 DEF IsSum
    <3> QED
      BY <3>3
  <2> QED
    BY <2>1
<1>1. PICK U \in Bad : \A x \in U : U \ {x} \notin Bad
  <2>1. Bad \in SUBSET (SUBSET D)
    OBVIOUS
  <2> HIDE DEF Bad
  <2> QED
    BY <2>1, SmallestSet
<1>2. CASE U = {}
  <2>1. [I \in SUBSET {} |-> 0] \in [SUBSET {} -> Nat] /\ [I \in SUBSET {} |-> 0][{}] = 0
    OBVIOUS
  <2>2. Good({})
    BY <2>1
  <2> QED
    BY <1>1, <1>2, <2>2
<1>3. CASE U # {}
  <2>1. PICK x \in U : TRUE
    BY <1>3
  <2> DEFINE V == U \ {x}
  <2>2. Good(V)
    BY <1>1, <2>1
  <2>3. PICK it \in [SUBSET V -> Nat] :
          /\ it[{}] = 0
          /\ \A I \in SUBSET V : \A y \in I : it[I] = g[y] + it[I \ {y}]
    BY <2>2
  <2> DEFINE jt == [I \in SUBSET U |-> IF x \in I THEN g[x] + it[I \ {x}] ELSE it[I]]
  <2>4. \A I \in SUBSET U : /\ I \ {x} \in SUBSET V
                            /\ x \in I => jt[I] = g[x] + it[I \ {x}]
                            /\ x \notin I => I \in SUBSET V /\ jt[I] = it[I]
    OBVIOUS
  <2>5. x \in D /\ U \in SUBSET D /\ \A y \in D : g[y] \in Nat
    BY <1>1, <2>1
  <2>6. \A I \in SUBSET V : it[I] \in Nat
    BY <2>3
  <2>7. jt \in [SUBSET U -> Nat]
    BY <2>4, <2>5, <2>6
  <2>8. jt[{}] = 0
    BY <2>3, <2>4
  <2> HIDE DEF jt, V
  <2>9. ASSUME NEW I \in SUBSET U, NEW y \in I PROVE jt[I] = g[y] + jt[I \ {y}]
    <3>1. I \ {y} \in SUBSET U
      OBVIOUS
    <3>2. CASE y = x
      BY <2>4, <3>1, <3>2
    <3>3. CASE x \notin I
      BY <2>3, <2>4, <3>1, <3>3
    <3>4. CASE x \in I /\ y # x
      <4> DEFINE rest == it[(I \ {x}) \ {y}]
      <4>1. (I \ {y}) \ {x} = (I \ {x}) \ {y} /\ y \in I \ {x}
        BY <3>4
      <4>2. jt[I] = g[x] + it[I \ {x}] /\ jt[I \ {y}] = g[x] + rest
        BY <2>4, <3>1, <3>4, <4>1
      <4>3. it[I \ {x}] = g[y] + rest
        BY <2>3, <2>4, <4>1
      <4>4. g[x] \in Nat /\ g[y] \in Nat /\ rest \in Nat
        BY <2>4, <2>5, <2>6, <3>1, <4>1
      <4> HIDE DEF rest
      <4> QED
        BY <4>2, <4>3, <4>4
    <3> QED
      BY <3>2, <3>3, <3>4
  <2>10. Good(U)
    BY <2>7, <2>8, <2>9
  <2> QED
    BY <1>1, <2>10
<1> QED
  BY <1>2, <1>3

\* What a sum is.
LEMMA SumProperties ==
  ASSUME NEW D, IsFiniteSet(D), NEW g \in [D -> Nat]
  PROVE  /\ SumOver(g, {}) = 0
         /\ \A I \in SUBSET D : /\ SumOver(g, I) \in Nat
                                /\ \A x \in I : SumOver(g, I) = g[x] + SumOver(g, I \ {x})
<1>1. IsSum(SumsOf(g), g)
  BY SumExists DEF SumsOf
<1> QED
  BY <1>1 DEF IsSum, SumOver

\* Sums of the same numbers are the same.
LEMMA SumCongruence ==
  ASSUME NEW D, IsFiniteSet(D), NEW g \in [D -> Nat],
         NEW E, IsFiniteSet(E), NEW h \in [E -> Nat],
         NEW I, I \subseteq D, I \subseteq E, \A x \in I : g[x] = h[x]
  PROVE  SumOver(g, I) = SumOver(h, I)
<1> DEFINE Bad == {J \in SUBSET I : SumOver(g, J) # SumOver(h, J)}
<1> SUFFICES ASSUME Bad # {} PROVE FALSE
  OBVIOUS
<1>0. IsFiniteSet(I) /\ Bad \in SUBSET (SUBSET I)
  BY FS_Subset
<1>1. PICK J \in Bad : \A x \in J : J \ {x} \notin Bad
  <2> HIDE DEF Bad
  <2> QED
    BY <1>0, SmallestSet
<1>2. J # {}
  BY <1>1, SumProperties
<1>3. PICK x \in J : TRUE
  BY <1>2
<1>4. SumOver(g, J) = g[x] + SumOver(g, J \ {x}) /\ SumOver(h, J) = h[x] + SumOver(h, J \ {x})
  BY <1>1, SumProperties
<1>5. SumOver(g, J \ {x}) = SumOver(h, J \ {x})
  BY <1>1
<1> QED
  BY <1>1, <1>4, <1>5

\* it adds up the values of g over D one by one, in whatever order.
AddsUp(it, g, D) ==
  /\ it = [I \in SUBSET D |-> it[I]]
  /\ it[{}] = 0
  /\ \A I \in SUBSET D : I # {} =>
       \E x \in I : it[I \ {x}] \in Nat => it[I] = g[x] + it[I \ {x}]

\* Every such function has the sums.
LEMMA SumUnique ==
  ASSUME NEW D, IsFiniteSet(D), NEW g \in [D -> Nat], NEW it, AddsUp(it, g, D)
  PROVE  it = SumsOf(g)
<1> DEFINE Bad == {J \in SUBSET D : it[J] # SumOver(g, J)}
<1>1. SUFFICES ASSUME Bad # {} PROVE FALSE
  <2>1. SumsOf(g) \in [SUBSET D -> Nat]
    <3>1. IsSum(SumsOf(g), g) /\ DOMAIN g = D
      BY SumExists DEF SumsOf
    <3> QED
      BY <3>1 DEF IsSum
  <2>2. SumsOf(g) = [I \in SUBSET D |-> SumsOf(g)[I]]
    BY <2>1
  <2> QED
    BY <2>2 DEF SumOver, AddsUp
<1>2. PICK J \in Bad : \A x \in J : J \ {x} \notin Bad
  <2>1. Bad \in SUBSET (SUBSET D)
    OBVIOUS
  <2> HIDE DEF Bad
  <2> QED
    BY <1>1, <2>1, SmallestSet
<1>3. J # {}
  BY <1>2, SumProperties DEF AddsUp
<1>4. PICK x \in J : it[J \ {x}] \in Nat => it[J] = g[x] + it[J \ {x}]
  BY <1>2, <1>3 DEF AddsUp
<1>5. SumOver(g, J) = g[x] + SumOver(g, J \ {x}) /\ SumOver(g, J \ {x}) \in Nat
  BY <1>2, SumProperties
<1>6. it[J \ {x}] = SumOver(g, J \ {x})
  BY <1>2
<1> QED
  BY <1>2, <1>4, <1>5, <1>6

\* The fold of the community modules over all values of a function is their sum.
LEMMA FoldIsSum ==
  ASSUME NEW D, IsFiniteSet(D), NEW g \in [D -> Nat]
  PROVE  MapThenSumSet(LAMBDA k : g[k], D) = SumAll(g)
<1> DEFINE pick(I) == CHOOSE x \in I : TRUE
           next(it) == [I \in SUBSET D |-> IF I = {} THEN 0 ELSE g[pick(I)] + it[I \ {pick(I)}]]
<1>1. MapThenSumSet(LAMBDA k : g[k], D) = (CHOOSE it : it = next(it))[D]
  BY DEF MapThenSumSet, MapThenFoldSet
<1>2. \A I \in SUBSET D : I # {} => pick(I) \in I
  OBVIOUS
<1> HIDE DEF pick
<1>3. SumsOf(g) = next(SumsOf(g))
  <2>1. IsSum(SumsOf(g), g) /\ DOMAIN g = D
    BY SumExists DEF SumsOf
  <2> DEFINE it == SumsOf(g)
  <2> HIDE DEF it
  <2>2. it = [I \in SUBSET D |-> it[I]] /\ it[{}] = 0
    BY <2>1 DEF IsSum, it
  <2>3. \A I \in SUBSET D : I # {} => it[I] = g[pick(I)] + it[I \ {pick(I)}]
    BY <1>2, <2>1 DEF IsSum, it
  <2>4. it = next(it)
    BY <2>2, <2>3
  <2> QED
    BY <2>4 DEF it
<1>4. ASSUME NEW it, it = next(it) PROVE it = SumsOf(g)
  <2>1. it = [I \in SUBSET D |-> it[I]] /\ it[{}] = 0
    BY <1>4
  <2>2. \A I \in SUBSET D : I # {} => it[I] = g[pick(I)] + it[I \ {pick(I)}]
    BY <1>4
  <2> HIDE DEF next
  <2>3. \A I \in SUBSET D : I # {} =>
          \E x \in I : it[I \ {x}] \in Nat => it[I] = g[x] + it[I \ {x}]
    BY <1>2, <2>2
  <2>4. AddsUp(it, g, D)
    BY <2>1, <2>3, Zenon DEF AddsUp
  <2> QED
    BY <2>4, SumUnique
<1>5. (CHOOSE it : it = next(it)) = SumsOf(g)
  <2>1. \A it : it = next(it) <=> it = SumsOf(g)
    BY <1>3, <1>4
  <2> HIDE DEF next
  <2> QED
    BY <2>1
<1>6. DOMAIN g = D
  OBVIOUS
<1> QED
  BY <1>1, <1>5, <1>6 DEF SumAll, SumOver

\* Numbers added elementwise.
LEMMA SumPlus ==
  ASSUME NEW D, IsFiniteSet(D), NEW g \in [D -> Nat], NEW h \in [D -> Nat], NEW f \in [D -> Nat],
         \A x \in D : f[x] = g[x] + h[x]
  PROVE  SumAll(f) = SumAll(g) + SumAll(h)
<1> DEFINE Bad == {J \in SUBSET D : SumOver(f, J) # SumOver(g, J) + SumOver(h, J)}
<1> SUFFICES ASSUME Bad # {} PROVE FALSE
  BY DEF SumAll
<1>1. PICK J \in Bad : \A x \in J : J \ {x} \notin Bad
  <2>1. Bad \in SUBSET (SUBSET D)
    OBVIOUS
  <2> HIDE DEF Bad
  <2> QED
    BY <2>1, SmallestSet
<1>2. J # {}
  <2>1. SumOver(f, {}) = 0 /\ SumOver(g, {}) = 0 /\ SumOver(h, {}) = 0
    BY SumProperties
  <2> QED
    BY <1>1, <2>1
<1>3. PICK x \in J : TRUE
  BY <1>2
<1>4. /\ SumOver(f, J) = f[x] + SumOver(f, J \ {x})
      /\ SumOver(g, J) = g[x] + SumOver(g, J \ {x})
      /\ SumOver(h, J) = h[x] + SumOver(h, J \ {x})
      /\ SumOver(g, J \ {x}) \in Nat /\ SumOver(h, J \ {x}) \in Nat
  BY <1>1, SumProperties
<1>5. SumOver(f, J \ {x}) = SumOver(g, J \ {x}) + SumOver(h, J \ {x})
  BY <1>1
<1>6. x \in D /\ g[x] \in Nat /\ h[x] \in Nat
  BY <1>1
<1> QED
  BY <1>1, <1>4, <1>5, <1>6

\* A sum is one of its numbers and the sum of the others.
LEMMA SumSplit ==
  ASSUME NEW D, IsFiniteSet(D), NEW g \in [D -> Nat], NEW x \in D
  PROVE  SumAll(g) = g[x] + SumOver(g, D \ {x}) /\ SumOver(g, D \ {x}) \in Nat
BY SumProperties DEF SumAll

\* One of the numbers grows by d.
LEMMA SumRaised ==
  ASSUME NEW D, IsFiniteSet(D), NEW g \in [D -> Nat], NEW h \in [D -> Nat], NEW d \in Nat,
         NEW x \in D, h[x] = g[x] + d, \A y \in D \ {x} : h[y] = g[y]
  PROVE  SumAll(h) = SumAll(g) + d
<1>1. /\ SumAll(g) = g[x] + SumOver(g, D \ {x}) /\ SumOver(g, D \ {x}) \in Nat
      /\ SumAll(h) = h[x] + SumOver(h, D \ {x})
  BY SumSplit
<1>2. SumOver(h, D \ {x}) = SumOver(g, D \ {x})
  BY SumCongruence
<1>3. g[x] \in Nat
  OBVIOUS
<1> QED
  BY <1>1, <1>2, <1>3

\* What is left out of a sum only makes it smaller, and does not when it is all zeros.
LEMMA SumPart ==
  ASSUME NEW D, IsFiniteSet(D), NEW g \in [D -> Nat], NEW I \in SUBSET D
  PROVE  /\ SumOver(g, I) <= SumAll(g)
         /\ (\A x \in D \ I : g[x] = 0) => SumOver(g, I) = SumAll(g)
<1> DEFINE Bad == {J \in SUBSET D : I \subseteq J /\
                     ~(/\ SumOver(g, I) <= SumOver(g, J)
                       /\ (\A x \in D \ I : g[x] = 0) => SumOver(g, I) = SumOver(g, J))}
<1> SUFFICES ASSUME Bad # {} PROVE FALSE
  BY DEF SumAll
<1>1. PICK J \in Bad : \A x \in J : J \ {x} \notin Bad
  <2>1. Bad \in SUBSET (SUBSET D)
    OBVIOUS
  <2> HIDE DEF Bad
  <2> QED
    BY <2>1, SmallestSet
<1>2. SumOver(g, I) \in Nat /\ J \in SUBSET D /\ I \subseteq J
  BY <1>1, SumProperties
<1>3. J # I
  BY <1>1, <1>2
<1>4. PICK x \in J : x \notin I
  BY <1>2, <1>3
<1>5. SumOver(g, J) = g[x] + SumOver(g, J \ {x}) /\ SumOver(g, J \ {x}) \in Nat /\ g[x] \in Nat
  BY <1>2, SumProperties
<1>6. J \ {x} \in SUBSET D /\ I \subseteq J \ {x} /\ x \in D \ I
  BY <1>2, <1>4
<1>7. /\ SumOver(g, I) <= SumOver(g, J \ {x})
      /\ (\A y \in D \ I : g[y] = 0) => SumOver(g, I) = SumOver(g, J \ {x})
  BY <1>1, <1>4, <1>6
<1>8. SumOver(g, I) <= SumOver(g, J)
  BY <1>2, <1>5, <1>7
<1>9. ASSUME \A y \in D \ I : g[y] = 0 PROVE SumOver(g, I) = SumOver(g, J)
  BY <1>2, <1>5, <1>6, <1>7, <1>9
<1> QED
  BY <1>1, <1>8, <1>9

\* The same numbers under other names.
LEMMA SumRenamed ==
  ASSUME NEW D, IsFiniteSet(D), NEW g \in [D -> Nat],
         NEW I, IsFiniteSet(I), NEW x \in [I -> D],
         \A i, j \in I : x[i] = x[j] => i = j
  PROVE  SumAll([i \in I |-> g[x[i]]]) = SumOver(g, {x[i] : i \in I})
<1> DEFINE f == [i \in I |-> g[x[i]]]
           Img(J) == {x[i] : i \in J}
           Bad == {J \in SUBSET I : SumOver(f, J) # SumOver(g, Img(J))}
<1>0. f \in [I -> Nat] /\ DOMAIN f = I
  OBVIOUS
<1> SUFFICES ASSUME Bad # {} PROVE FALSE
  BY <1>0 DEF SumAll
<1>1. PICK J \in Bad : \A i \in J : J \ {i} \notin Bad
  <2>1. Bad \in SUBSET (SUBSET I)
    OBVIOUS
  <2> HIDE DEF Bad
  <2> QED
    BY <2>1, SmallestSet
<1> HIDE DEF f
<1>2. J # {}
  <2>1. Img({}) = {}
    OBVIOUS
  <2> HIDE DEF Img
  <2> QED
    BY <1>0, <1>1, <2>1, SumProperties
<1>3. PICK i \in J : TRUE
  BY <1>2
<1>4. Img(J) \ {x[i]} = Img(J \ {i}) /\ x[i] \in Img(J) /\ Img(J) \in SUBSET D /\ J \in SUBSET I
  <2>1. J \in SUBSET I
    BY <1>1
  <2>2. \A j \in J : x[j] = x[i] => j = i
    BY <2>1
  <2> QED
    BY <2>1, <2>2
<1>5. f[i] = g[x[i]]
  BY <1>1 DEF f
<1>6. SumOver(f, J) = f[i] + SumOver(f, J \ {i})
  <2>1. J \in SUBSET I
    BY <1>4
  <2> HIDE DEF Bad, Img
  <2> QED
    BY <1>0, <2>1, SumProperties
<1>7. SumOver(g, Img(J)) = g[x[i]] + SumOver(g, Img(J \ {i}))
  <2> DEFINE K == Img(J)
  <2>1. K \in SUBSET D /\ x[i] \in K /\ K \ {x[i]} = Img(J \ {i})
    BY <1>4
  <2> HIDE DEF Bad, K, Img
  <2>2. SumOver(g, K) = g[x[i]] + SumOver(g, K \ {x[i]})
    BY <2>1, SumProperties
  <2> QED
    BY <2>1, <2>2 DEF K
<1>8. SumOver(f, J \ {i}) = SumOver(g, Img(J \ {i}))
  BY <1>1, <1>4
<1> QED
  BY <1>1, <1>5, <1>6, <1>7, <1>8

\* What key a has of the numbers c, when each of them has a key.
CountBy(I, key, c, a) == SumAll([i \in I |-> IF key[i] = a THEN c[i] ELSE 0])

\* What is summed by keys is summed whole.
LEMMA SumByKey ==
  ASSUME NEW A, IsFiniteSet(A), NEW I, IsFiniteSet(I), NEW c \in [I -> Nat], NEW key \in [I -> A],
         NEW f \in [A -> Nat],
         \A a \in A : f[a] = CountBy(I, key, c, a)
  PROVE  SumAll(f) = SumAll(c)
<1> DEFINE At(a) == [i \in I |-> IF key[i] = a THEN c[i] ELSE 0]
           Upto(J) == [a \in A |-> SumOver(At(a), J)]
           Bad == {J \in SUBSET I : SumAll(Upto(J)) # SumOver(c, J)}
<1>0. \A a \in A : At(a) \in [I -> Nat] /\ DOMAIN At(a) = I
  OBVIOUS
<1>1. \A J \in SUBSET I : Upto(J) \in [A -> Nat]
  <2> HIDE DEF At
  <2> QED
    BY <1>0, SumProperties
<1> SUFFICES ASSUME Bad # {} PROVE FALSE
  <2>1. f = Upto(I)
    BY <1>0 DEF SumAll, CountBy
  <2>2. DOMAIN c = I
    OBVIOUS
  <2> HIDE DEF Upto
  <2> QED
    BY <2>1, <2>2 DEF SumAll
<1>2. PICK J \in Bad : \A i \in J : J \ {i} \notin Bad
  <2>1. Bad \in SUBSET (SUBSET I)
    OBVIOUS
  <2> HIDE DEF Bad
  <2> QED
    BY <2>1, SmallestSet
<1>3. J # {}
  <2>1. ASSUME J = {} PROVE SumAll(Upto(J)) = 0
    <3> DEFINE zero == Upto({})
    <3>1. zero \in [A -> Nat]
      BY <1>1
    <3>2. \A a \in A : zero[a] = 0
      <4> HIDE DEF At
      <4> QED
        BY <1>0, SumProperties
    <3> HIDE DEF zero
    <3>3. SumOver(zero, {}) = SumAll(zero) /\ SumOver(zero, {}) = 0
      BY <3>1, <3>2, SumPart, SumProperties
    <3> QED
      BY <2>1, <3>3 DEF zero
  <2> HIDE DEF Upto
  <2> QED
    BY <1>2, <2>1, SumProperties
<1>4. PICK i \in J : TRUE
  BY <1>3
<1>5. J \in SUBSET I /\ J \ {i} \in SUBSET I /\ i \in I /\ key[i] \in A /\ c[i] \in Nat
  BY <1>2
<1>6. \A a \in A : /\ SumOver(At(a), J) = At(a)[i] + SumOver(At(a), J \ {i})
                   /\ SumOver(At(a), J \ {i}) \in Nat
  <2> HIDE DEF At
  <2> QED
    BY <1>0, <1>5, SumProperties
<1>7. /\ Upto(J)[key[i]] = Upto(J \ {i})[key[i]] + c[i]
      /\ \A a \in A \ {key[i]} : Upto(J)[a] = Upto(J \ {i})[a]
  <2>1. At(key[i])[i] = c[i] /\ \A a \in A \ {key[i]} : At(a)[i] = 0
    BY <1>5
  <2>2. \A a \in A : Upto(J)[a] = SumOver(At(a), J) /\ Upto(J \ {i})[a] = SumOver(At(a), J \ {i})
    OBVIOUS
  <2> HIDE DEF At, Upto, Bad
  <2>3. \A a \in A : /\ Upto(J)[a] = At(a)[i] + Upto(J \ {i})[a]
                     /\ Upto(J \ {i})[a] \in Nat
    BY <1>6, <2>2, Zenon
  <2>4. Upto(J)[key[i]] = c[i] + Upto(J \ {i})[key[i]] /\ Upto(J \ {i})[key[i]] \in Nat
    BY <1>5, <2>1, <2>3, Zenon
  <2>5. ASSUME NEW a \in A \ {key[i]} PROVE Upto(J)[a] = Upto(J \ {i})[a]
    <3>1. Upto(J)[a] = 0 + Upto(J \ {i})[a] /\ Upto(J \ {i})[a] \in Nat
      BY <2>1, <2>3, Zenon
    <3> QED
      BY <3>1
  <2>6. \A m, n \in Nat : m + n = n + m
    OBVIOUS
  <2>7. Upto(J)[key[i]] = Upto(J \ {i})[key[i]] + c[i]
    BY <1>5, <2>4, <2>6, Zenon
  <2> QED
    BY <2>5, <2>7, Zenon
<1>8. SumAll(Upto(J)) = SumAll(Upto(J \ {i})) + c[i]
  <2> DEFINE new == Upto(J)
             old == Upto(J \ {i})
  <2>1. new \in [A -> Nat] /\ old \in [A -> Nat]
    BY <1>1, <1>5
  <2>2. new[key[i]] = old[key[i]] + c[i] /\ \A a \in A \ {key[i]} : new[a] = old[a]
    BY <1>7
  <2> HIDE DEF new, old
  <2>3. SumAll(new) = SumAll(old) + c[i]
    BY <1>5, <2>1, <2>2, SumRaised
  <2> QED
    BY <2>3 DEF new, old
<1>9. SumOver(c, J) = c[i] + SumOver(c, J \ {i}) /\ SumOver(c, J \ {i}) \in Nat
  BY <1>5, SumProperties
<1>10. SumAll(Upto(J \ {i})) = SumOver(c, J \ {i})
  BY <1>2, <1>5
<1> QED
  <2> HIDE DEF Upto
  <2> QED
    BY <1>2, <1>5, <1>8, <1>9, <1>10

-----------------------------------------------------------------------------
\* How many elements of a sequence are in W, after one more element.
LEMMA CountAppended ==
  ASSUME NEW S, NEW s \in Seq(S), NEW e \in S, NEW W
  PROVE  Cardinality({n \in DOMAIN Append(s, e) : Append(s, e)[n] \in W})
           = Cardinality({n \in DOMAIN s : s[n] \in W}) + (IF e \in W THEN 1 ELSE 0)
<1> DEFINE t == Append(s, e)
           old == {n \in DOMAIN s : s[n] \in W}
           new == {n \in DOMAIN t : t[n] \in W}
           last == Len(s) + 1
<1>1. /\ DOMAIN s = 1..Len(s) /\ DOMAIN t = 1..last /\ Len(s) \in Nat
      /\ \A n \in 1..Len(s) : t[n] = s[n]
      /\ t[last] = e
  BY AppendProperties, LenProperties
<1> HIDE DEF t
<1>2. DOMAIN t = DOMAIN s \cup {last} /\ last \notin DOMAIN s
  BY <1>1
<1>3. IsFiniteSet(old) /\ Cardinality(old) \in Nat
  <2>1. IsFiniteSet(DOMAIN s)
    BY <1>1, FS_Interval
  <2> QED
    BY <2>1, FS_Subset, FS_CardinalityType
<1>4. CASE e \in W
  <2>1. new = old \cup {last} /\ last \notin old
    BY <1>1, <1>2, <1>4
  <2>2. Cardinality(old \cup {last}) = Cardinality(old) + 1
    BY <1>3, <2>1, FS_AddElement
  <2> HIDE DEF old, new, last
  <2>3. Cardinality(new) = Cardinality(old) + (IF e \in W THEN 1 ELSE 0)
    BY <1>4, <2>1, <2>2
  <2> QED
    BY <2>3 DEF old, new, t
<1>5. CASE e \notin W
  <2>1. new = old
    BY <1>1, <1>2, <1>5
  <2> HIDE DEF old, new, last
  <2>2. Cardinality(new) = Cardinality(old) + (IF e \in W THEN 1 ELSE 0)
    BY <1>3, <1>5, <2>1
  <2> QED
    BY <2>2 DEF old, new, t
<1> QED
  BY <1>4, <1>5
=============================================================================
