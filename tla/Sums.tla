-------------------------------- MODULE Sums --------------------------------
(***************************************************************************)
(* Facts about the sum of a function over its finite domain (SumFunction   *)
(* of Functions), which books of balances are checked against.             *)
(*                                                                         *)
(* SumFunction folds in an order that CHOOSE fixes.  The proofs take the   *)
(* place of an induction over sets: among the subsets for which a claim    *)
(* fails there would be one with the fewest elements.                      *)
(***************************************************************************)
EXTENDS Integers, Functions, FiniteSetTheorems, WellFoundedInduction, TLAPS

\* The element that the fold takes next.
First(s) == CHOOSE x \in s : TRUE

\* it adds up f over each of the sets in D, in the order of the fold.
AddsUp(f, it, D) ==
  it = [s \in D |-> IF s = {} THEN 0 ELSE f[First(s)] + it[s \ {First(s)}]]

\* The function that the fold defines, and its value for one set.
SumsOf(f) == CHOOSE it : AddsUp(f, it, SUBSET DOMAIN f)
SumOver(f, T) == SumsOf(f)[T]

LEMMA SumUnfolds ==
  ASSUME NEW f
  PROVE  SumFunction(f) = SumOver(f, DOMAIN f)
BY DEF SumFunction, SumFunctionOnSet, FoldFunctionOnSet, MapThenFoldSet, First, AddsUp,
       SumsOf, SumOver

LEMMA FirstIn ==
  ASSUME NEW T, T # {}
  PROVE  First(T) \in T
BY DEF First

\* A set of naturals that is not empty has a smallest element.
LEMMA Smallest ==
  ASSUME NEW N, N \subseteq Nat, N # {}
  PROVE  \E n \in N : \A m \in N : ~(m < n)
<1>1. PICK n \in N : \A m \in N : ~(<<m, n>> \in OpToRel(<, Nat))
  BY WFMin, NatLessThanWellFounded
<1>2. \A m \in N : m < n => <<m, n>> \in OpToRel(<, Nat)
  BY DEF OpToRel
<1>. QED BY <1>1, <1>2

\* Some set among the subsets of a finite set has the fewest elements.
LEMMA Fewest ==
  ASSUME NEW S, IsFiniteSet(S), NEW B, B \subseteq SUBSET S, B # {}
  PROVE  \E T \in B : \A U \in B : ~(Cardinality(U) < Cardinality(T))
<1>. DEFINE N == {Cardinality(T) : T \in B}
<1>1. \A T \in B : Cardinality(T) \in Nat
  BY FS_Subset, FS_CardinalityType
<1>2. N \subseteq Nat /\ N # {}
  BY <1>1
<1>3. PICK n \in N : \A m \in N : ~(m < n)
  BY <1>2, Smallest
<1>. QED BY <1>3

\* Without an element a subset is smaller.
LEMMA Smaller ==
  ASSUME NEW S, IsFiniteSet(S), NEW T, T \subseteq S, NEW x \in T
  PROVE  /\ IsFiniteSet(T) /\ Cardinality(T) \in Nat /\ T \ {x} \subseteq S
         /\ Cardinality(T \ {x}) = Cardinality(T) - 1
         /\ Cardinality(T \ {x}) < Cardinality(T)
<1>1. IsFiniteSet(T) /\ Cardinality(T) \in Nat
  BY FS_Subset, FS_CardinalityType
<1>2. Cardinality(T \ {x}) = Cardinality(T) - 1
  BY <1>1, FS_RemoveElement
<1>. QED BY <1>1, <1>2

-----------------------------------------------------------------------------
\* The recursion of the fold has a solution: one for the sets of at most n elements
\* can be extended to those of n + 1.
LEMMA SumsExist ==
  ASSUME NEW S, IsFiniteSet(S), NEW f
  PROVE  \E it : AddsUp(f, it, SUBSET S)
<1>. DEFINE Below(n) == {s \in SUBSET S : Cardinality(s) <= n}
            Bad == {n \in Nat : ~\E it : AddsUp(f, it, Below(n))}
<1>1. \A s \in SUBSET S : Cardinality(s) \in Nat
  BY FS_Subset, FS_CardinalityType
<1>2. ASSUME NEW n \in Bad, \A m \in Bad : ~(m < n) PROVE FALSE
  <2>1. CASE n = 0
    <3>. DEFINE it == [s \in Below(0) |-> 0]
    <3>1. \A s \in Below(0) : s = {}
      <4>1. ASSUME NEW s \in Below(0) PROVE s = {}
        <5>1. IsFiniteSet(s) /\ Cardinality(s) = 0
          BY <1>1, FS_Subset
        <5>. QED BY <5>1, FS_EmptySet
      <4>. QED BY <4>1
    <3>2. AddsUp(f, it, Below(0))
      BY <3>1 DEF AddsUp
    <3>. QED BY <1>2, <2>1, <3>2
  <2>2. CASE n # 0
    <3>1. n - 1 \in Nat /\ n - 1 < n
      BY <1>2, <2>2
    <3>2. PICK g : AddsUp(f, g, Below(n - 1))
      BY <1>2, <3>1
    <3>. DEFINE it == [s \in Below(n) |-> IF s = {} THEN 0
                                          ELSE f[First(s)] + g[s \ {First(s)}]]
    <3>3. ASSUME NEW s \in Below(n), s # {} PROVE it[s \ {First(s)}] = g[s \ {First(s)}]
      <4>. DEFINE u == s \ {First(s)}
      <4>1. u \in SUBSET S /\ Cardinality(u) = Cardinality(s) - 1 /\ Cardinality(s) \in Nat
        BY <3>3, FirstIn, Smaller
      <4>2. u \in Below(n - 1) /\ u \in Below(n)
        BY <3>1, <3>3, <4>1
      <4>. HIDE DEF u, Below
      <4>3. g[u] = IF u = {} THEN 0 ELSE f[First(u)] + g[u \ {First(u)}]
        BY <3>2, <4>2 DEF AddsUp
      <4>4. it[u] = IF u = {} THEN 0 ELSE f[First(u)] + g[u \ {First(u)}]
        BY <4>2
      <4>. QED BY <4>3, <4>4 DEF u
    <3>4. AddsUp(f, it, Below(n))
      <4>. HIDE DEF Below
      <4>1. \A s \in Below(n) : it[s] = IF s = {} THEN 0 ELSE f[First(s)] + it[s \ {First(s)}]
        BY <3>3
      <4>. QED BY <4>1 DEF AddsUp
    <3>. QED BY <1>2, <3>4
  <2>. QED BY <2>1, <2>2
<1>3. Bad = {}
  <2>. HIDE DEF Bad
  <2>1. Bad \subseteq Nat
    BY DEF Bad
  <2>. QED BY <1>2, <2>1, Smallest
<1>4. Cardinality(S) \in Nat /\ Below(Cardinality(S)) = SUBSET S
  <2>1. \A s \in SUBSET S : Cardinality(s) <= Cardinality(S)
    BY FS_Subset
  <2>. QED BY <1>1, <2>1
<1>5. \E it : AddsUp(f, it, Below(Cardinality(S)))
  BY <1>3, <1>4
<1>. QED BY <1>4, <1>5

-----------------------------------------------------------------------------
(* What the fold computes, one set at a time *)

LEMMA SumOverStep ==
  ASSUME NEW S, IsFiniteSet(S), NEW f, DOMAIN f = S, NEW T, T \subseteq S
  PROVE  SumOver(f, T) = IF T = {} THEN 0 ELSE f[First(T)] + SumOver(f, T \ {First(T)})
<1>1. AddsUp(f, SumsOf(f), SUBSET S)
  BY SumsExist DEF SumsOf
<1>2. PICK it : it = SumsOf(f)
  OBVIOUS
<1>3. it[T] = IF T = {} THEN 0 ELSE f[First(T)] + it[T \ {First(T)}]
  BY <1>1, <1>2 DEF AddsUp
<1>. QED BY <1>2, <1>3 DEF SumOver

LEMMA SumOverNone ==
  ASSUME NEW S, IsFiniteSet(S), NEW f, DOMAIN f = S
  PROVE  SumOver(f, {}) = 0
BY SumOverStep

LEMMA SumOverType ==
  ASSUME NEW S, IsFiniteSet(S), NEW f \in [S -> Nat], NEW T, T \subseteq S
  PROVE  SumOver(f, T) \in Nat
<1>. DEFINE B == {U \in SUBSET S : SumOver(f, U) \notin Nat}
<1>1. ASSUME NEW U \in B, \A V \in B : ~(Cardinality(V) < Cardinality(U)) PROVE FALSE
  <2>1. U # {}
    BY <1>1, SumOverNone
  <2>2. First(U) \in U
    BY <2>1, FirstIn
  <2>3. U \ {First(U)} \subseteq S /\ Cardinality(U \ {First(U)}) < Cardinality(U)
    BY <2>2, Smaller
  <2>4. SumOver(f, U \ {First(U)}) \in Nat
    BY <1>1, <2>3
  <2>5. f[First(U)] \in Nat
    BY <2>2
  <2>6. SumOver(f, U) = f[First(U)] + SumOver(f, U \ {First(U)})
    BY <2>1, SumOverStep
  <2>. QED BY <2>4, <2>5, <2>6
<1>2. B = {}
  <2>. HIDE DEF B
  <2>1. B \subseteq SUBSET S
    BY DEF B
  <2>. QED BY <1>1, <2>1, Fewest
<1>. QED BY <1>2

\* Any element may be taken first.
LEMMA SumOverSplit ==
  ASSUME NEW S, IsFiniteSet(S), NEW f \in [S -> Nat], NEW T, T \subseteq S, NEW x \in T
  PROVE  SumOver(f, T) = f[x] + SumOver(f, T \ {x})
<1>. DEFINE B == {U \in SUBSET S : \E y \in U : SumOver(f, U) # f[y] + SumOver(f, U \ {y})}
<1>1. ASSUME NEW U \in B, \A V \in B : ~(Cardinality(V) < Cardinality(U)) PROVE FALSE
  <2>1. PICK y \in U : SumOver(f, U) # f[y] + SumOver(f, U \ {y})
    OBVIOUS
  <2>2. PICK z \in U : z = First(U)
    BY <2>1, FirstIn
  <2>3. SumOver(f, U) = f[z] + SumOver(f, U \ {z})
    BY <2>2, SumOverStep
  <2>4. y # z
    BY <2>1, <2>3
  <2>5. /\ U \ {z} \subseteq S /\ Cardinality(U \ {z}) < Cardinality(U)
        /\ U \ {y} \subseteq S /\ Cardinality(U \ {y}) < Cardinality(U)
    BY Smaller
  <2>6. U \ {z} \notin B /\ U \ {y} \notin B
    BY <1>1, <2>5
  <2>7. SumOver(f, U \ {z}) = f[y] + SumOver(f, (U \ {z}) \ {y})
    BY <2>4, <2>5, <2>6
  <2>8. SumOver(f, U \ {y}) = f[z] + SumOver(f, (U \ {y}) \ {z})
    BY <2>4, <2>5, <2>6
  <2>9. (U \ {z}) \ {y} = (U \ {y}) \ {z}
    OBVIOUS
  <2>10. f[y] \in Nat /\ f[z] \in Nat /\ SumOver(f, (U \ {y}) \ {z}) \in Nat
    <3>1. (U \ {y}) \ {z} \subseteq S
      OBVIOUS
    <3>. QED BY <3>1, SumOverType
  <2>. QED BY <2>1, <2>3, <2>7, <2>8, <2>9, <2>10
<1>2. B = {}
  <2>. HIDE DEF B
  <2>1. B \subseteq SUBSET S
    BY DEF B
  <2>. QED BY <1>1, <2>1, Fewest
<1>. QED BY <1>2

\* The sum depends on the values of f in the set only.
LEMMA SumOverSame ==
  ASSUME NEW S, IsFiniteSet(S), NEW f \in [S -> Nat], NEW g \in [S -> Nat],
         NEW T, T \subseteq S, \A x \in T : f[x] = g[x]
  PROVE  SumOver(f, T) = SumOver(g, T)
<1>. DEFINE B == {U \in SUBSET T : SumOver(f, U) # SumOver(g, U)}
<1>1. ASSUME NEW U \in B, \A V \in B : ~(Cardinality(V) < Cardinality(U)) PROVE FALSE
  <2>1. U # {}
    BY <1>1, SumOverNone
  <2>2. PICK z \in U : z = First(U)
    BY <2>1, FirstIn
  <2>3. SumOver(f, U) = f[z] + SumOver(f, U \ {z}) /\ SumOver(g, U) = g[z] + SumOver(g, U \ {z})
    BY <2>1, <2>2, SumOverStep
  <2>4. U \ {z} \subseteq T /\ Cardinality(U \ {z}) < Cardinality(U)
    BY Smaller
  <2>5. SumOver(f, U \ {z}) = SumOver(g, U \ {z})
    BY <1>1, <2>4
  <2>6. f[z] = g[z]
    OBVIOUS
  <2>. QED BY <2>3, <2>5, <2>6
<1>2. B = {}
  <2>. HIDE DEF B
  <2>1. B \subseteq SUBSET S
    BY DEF B
  <2>. QED BY <1>1, <2>1, Fewest
<1>. QED BY <1>2

-----------------------------------------------------------------------------
(* The sum of a function *)

LEMMA SumType ==
  ASSUME NEW S, IsFiniteSet(S), NEW f \in [S -> Nat]
  PROVE  SumFunction(f) \in Nat
BY SumUnfolds, SumOverType

\* One value is raised.
LEMMA SumRaised ==
  ASSUME NEW S, IsFiniteSet(S), NEW f \in [S -> Nat], NEW g \in [S -> Nat],
         NEW x \in S, NEW v \in Nat, g[x] = f[x] + v, \A y \in S \ {x} : f[y] = g[y]
  PROVE  SumFunction(g) = SumFunction(f) + v
<1>1. SumOver(f, S) = f[x] + SumOver(f, S \ {x}) /\ SumOver(g, S) = g[x] + SumOver(g, S \ {x})
  BY SumOverSplit
<1>2. SumOver(f, S \ {x}) = SumOver(g, S \ {x})
  BY SumOverSame
<1>3. SumOver(f, S \ {x}) \in Nat /\ f[x] \in Nat /\ g[x] = f[x] + v
  BY SumOverType
<1>4. SumFunction(f) = SumOver(f, S) /\ SumFunction(g) = SumOver(g, S)
  BY SumUnfolds
<1>. QED BY <1>1, <1>2, <1>3, <1>4

\* What is moved from one place to another does not change the sum.
LEMMA SumMoved ==
  ASSUME NEW S, IsFiniteSet(S), NEW f \in [S -> Nat], NEW g \in [S -> Nat],
         NEW x \in S, NEW y \in S, x # y, g[x] + g[y] = f[x] + f[y],
         \A z \in S \ {x, y} : g[z] = f[z]
  PROVE  SumFunction(g) = SumFunction(f)
<1>1. y \in S \ {x}
  OBVIOUS
<1>2. /\ SumOver(f, S) = f[x] + SumOver(f, S \ {x})
      /\ SumOver(f, S \ {x}) = f[y] + SumOver(f, (S \ {x}) \ {y})
      /\ SumOver(g, S) = g[x] + SumOver(g, S \ {x})
      /\ SumOver(g, S \ {x}) = g[y] + SumOver(g, (S \ {x}) \ {y})
  BY <1>1, SumOverSplit
<1>3. SumOver(f, (S \ {x}) \ {y}) = SumOver(g, (S \ {x}) \ {y})
  BY SumOverSame
<1>4. SumOver(f, (S \ {x}) \ {y}) \in Nat /\ f[x] \in Nat /\ f[y] \in Nat /\ g[x] \in Nat /\ g[y] \in Nat
  BY SumOverType
<1>5. SumFunction(f) = SumOver(f, S) /\ SumFunction(g) = SumOver(g, S)
  BY SumUnfolds
<1>. QED BY <1>2, <1>3, <1>4, <1>5

\* A function that is c on the set U and 0 elsewhere.
LEMMA SumConstant ==
  ASSUME NEW S, IsFiniteSet(S), NEW U, U \subseteq S, NEW c \in Nat,
         NEW f \in [S -> Nat], \A x \in S : f[x] = IF x \in U THEN c ELSE 0
  PROVE  SumFunction(f) = Cardinality(U) * c
<1>. DEFINE Fails(V) == SumOver(f, V) # Cardinality(V \cap U) * c
            B == {V \in SUBSET S : Fails(V)}
<1>1. ASSUME NEW V \in B, \A W \in B : ~(Cardinality(W) < Cardinality(V)) PROVE FALSE
  <2>1. V # {}
    <3>1. {} \cap U = {} /\ Cardinality({}) = 0 /\ 0 * c = 0
      BY FS_EmptySet
    <3>. QED BY <1>1, <3>1, SumOverNone
  <2>2. PICK z \in V : z = First(V)
    BY <2>1, FirstIn
  <2>3. SumOver(f, V) = f[z] + SumOver(f, V \ {z})
    BY <2>2, SumOverStep
  <2>4. V \ {z} \subseteq S /\ Cardinality(V \ {z}) < Cardinality(V)
    BY Smaller
  <2>5. SumOver(f, V \ {z}) = Cardinality((V \ {z}) \cap U) * c
    BY <1>1, <2>4
  <2>6. CASE z \in U
    <3>1. (V \ {z}) \cap U = (V \cap U) \ {z} /\ z \in V \cap U /\ V \cap U \subseteq S
      BY <2>6
    <3>2. Cardinality((V \ {z}) \cap U) = Cardinality(V \cap U) - 1 /\ Cardinality(V \cap U) \in Nat
      BY <3>1, Smaller
    <3>3. PICK n \in Nat : n = Cardinality(V \cap U)
      BY <3>2
    <3>4. c + (n - 1) * c = n * c
      OBVIOUS
    <3>. QED BY <1>1, <2>3, <2>5, <2>6, <3>2, <3>3, <3>4
  <2>7. CASE z \notin U
    <3>1. (V \ {z}) \cap U = V \cap U /\ IsFiniteSet(V \cap U)
      BY <2>7, FS_Subset
    <3>2. Cardinality(V \cap U) * c \in Nat
      BY <3>1, FS_CardinalityType
    <3>3. f[z] = 0
      BY <2>7
    <3>4. SumOver(f, V) = Cardinality(V \cap U) * c
      BY <2>3, <2>5, <3>1, <3>2, <3>3
    <3>. QED BY <1>1, <3>4
  <2>. QED BY <2>6, <2>7
<1>2. B = {}
  <2>. HIDE DEF B
  <2>1. B \subseteq SUBSET S
    BY DEF B
  <2>. QED BY <1>1, <2>1, Fewest
<1>3. SumOver(f, S) = Cardinality(S \cap U) * c
  BY <1>2
<1>4. S \cap U = U
  OBVIOUS
<1>. QED BY <1>3, <1>4, SumUnfolds
=============================================================================
