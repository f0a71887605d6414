----------------------------- MODULE Sums_proofs -----------------------------
(***************************************************************************)
(* What the sums of the models are: those of bills, tokens and costs in    *)
(* Connector and Warehouse, of shares in Allocation, of gaps in            *)
(* Evaluation.  SumFunctionOnSet is defined by recursion on the finite     *)
(* subsets of its set; every fact here is drawn from one, SumIsCount: a    *)
(* sum of natural numbers counts pairs, so that cardinalities of finite    *)
(* sets do the rest.  Where a sum has to be followed element by element,   *)
(* SubsetInduction stands for the induction: a subset out of a set that is *)
(* closed under the addition of an element would have a minimal one.       *)
(***************************************************************************)
EXTENDS Integers, Functions, FiniteSetTheorems, WellFoundedInduction, TLAPS

\* A set of subsets that has the empty one, and each one of which it has all those with one
\* element less, has them all.
LEMMA SubsetInduction ==
  ASSUME NEW S, IsFiniteSet(S), NEW I,
         {} \in I,
         \A T \in SUBSET S : (T # {} /\ \A x \in T : T \ {x} \in I) => T \in I
  PROVE  \A T \in SUBSET S : T \in I
<1> DEFINE Bad == {T \in SUBSET S : T \notin I}
<1> SUFFICES ASSUME Bad # {} PROVE FALSE
  OBVIOUS
<1>1. FiniteSubsetsOf(S) = SUBSET S
  BY FS_FiniteSubsetsOfFinite
<1>2. IsWellFoundedOn(StrictSubsetOrdering(S), SUBSET S)
  <2>1. IsWellFoundedOn(StrictSubsetOrdering(S), FiniteSubsetsOf(S))
    BY FS_StrictSubsetOrderingWellFounded
  <2> QED BY <1>1, <2>1, Zenon
<1>3. Bad \subseteq SUBSET S
  OBVIOUS
<1>4. PICK T \in Bad : \A U \in Bad : ~(<<U, T>> \in StrictSubsetOrdering(S))
  <2> HIDE DEF Bad
  <2> QED BY <1>2, <1>3, WFMin
<1>5. PICK x \in T : T \ {x} \notin I
  OBVIOUS
<1>6. T \ {x} \in Bad
  BY <1>5
<1>7. <<T \ {x}, T>> \in StrictSubsetOrdering(S)
  BY DEF StrictSubsetOrdering
<1> QED BY <1>4, <1>6, <1>7

\* As many pairs for x as f[x] says.
Units(f, S) == UNION {{x} \X (1 .. f[x]) : x \in S}

\* A function has no more values than arguments.
LEMMA ImageFinite ==
  ASSUME NEW S, IsFiniteSet(S), NEW g
  PROVE  IsFiniteSet({g[x] : x \in S}) /\ Cardinality({g[x] : x \in S}) <= Cardinality(S)
<1> DEFINE T == {g[x] : x \in S}
           h == [x \in S |-> g[x]]
<1>1. h \in Surjection(S, T)
  BY DEF Surjection
<1> HIDE DEF T, h
<1>2. IsFiniteSet(T) /\ Cardinality(T) <= Cardinality(S)
  BY <1>1, FS_Surjection
<1> QED BY <1>2 DEF T

LEMMA UnitsFinite ==
  ASSUME NEW f, NEW S, IsFiniteSet(S), \A x \in S : f[x] \in Nat
  PROVE  IsFiniteSet(Units(f, S)) /\ Cardinality(Units(f, S)) \in Nat
<1> DEFINE of == [x \in S |-> {x} \X (1 .. f[x])]
<1>1. IsFiniteSet({of[x] : x \in S})
  <2> HIDE DEF of
  <2> QED BY ImageFinite
<1>2. ASSUME NEW x \in S PROVE IsFiniteSet(of[x])
  <2>1. IsFiniteSet({x}) /\ IsFiniteSet(1 .. f[x])
    <3>1. 1 \in Int /\ f[x] \in Int
      OBVIOUS
    <3> QED BY <3>1, FS_Singleton, FS_Interval
  <2>2. IsFiniteSet({x} \X (1 .. f[x]))
    BY <2>1, FS_Product
  <2> QED BY <2>2
<1>3. IsFiniteSet(UNION {of[x] : x \in S})
  <2> HIDE DEF of
  <2> QED BY <1>1, <1>2, FS_UNION
<1> QED BY <1>3, FS_CardinalityType DEF Units

LEMMA UnitsUnion ==
  ASSUME NEW f, NEW S, IsFiniteSet(S), NEW T, IsFiniteSet(T), S \cap T = {},
         \A x \in S \cup T : f[x] \in Nat
  PROVE  Cardinality(Units(f, S \cup T)) = Cardinality(Units(f, S)) + Cardinality(Units(f, T))
<1>1. Units(f, S \cup T) = Units(f, S) \cup Units(f, T)
  BY DEF Units
<1>2. Units(f, S) \cap Units(f, T) = {}
  BY DEF Units
<1>3. /\ IsFiniteSet(Units(f, S)) /\ Cardinality(Units(f, S)) \in Nat
      /\ IsFiniteSet(Units(f, T)) /\ Cardinality(Units(f, T)) \in Nat
  BY UnitsFinite
<1>4. Cardinality(Units(f, S) \cup Units(f, T))
        = Cardinality(Units(f, S)) + Cardinality(Units(f, T)) - Cardinality(Units(f, S) \cap Units(f, T))
  BY <1>3, FS_Union
<1>5. Cardinality(Units(f, S) \cap Units(f, T)) = 0
  BY <1>2, FS_EmptySet
<1>6. Cardinality(Units(f, S \cup T)) = Cardinality(Units(f, S) \cup Units(f, T))
  BY <1>1, Zenon
<1> HIDE <1>1, <1>2
<1> QED BY <1>3, <1>4, <1>5, <1>6

LEMMA UnitsOne ==
  ASSUME NEW f, NEW x, f[x] \in Nat
  PROVE  Cardinality(Units(f, {x})) = f[x]
<1>1. Units(f, {x}) = {x} \X (1 .. f[x])
  BY DEF Units
<1>2. IsFiniteSet({x}) /\ Cardinality({x}) = 1
  BY FS_Singleton
<1>3. 1 \in Int /\ f[x] \in Int
  OBVIOUS
<1>4. IsFiniteSet(1 .. f[x]) /\ Cardinality(1 .. f[x]) = f[x]
  <2>1. IsFiniteSet(1 .. f[x]) /\ Cardinality(1 .. f[x]) = IF 1 > f[x] THEN 0 ELSE f[x] - 1 + 1
    BY <1>3, FS_Interval, Zenon
  <2> QED BY <2>1
<1>5. Cardinality({x} \X (1 .. f[x])) = Cardinality({x}) * Cardinality(1 .. f[x])
  BY <1>2, <1>4, FS_Product, Zenon
<1>6. Cardinality({x} \X (1 .. f[x])) = 1 * f[x]
  BY <1>2, <1>4, <1>5, Zenon
<1>7. 1 * f[x] = f[x]
  OBVIOUS
<1> QED BY <1>1, <1>6, <1>7, Zenon

\* The recursion has a solution, the number of pairs, and no other.
LEMMA SumIsCount ==
  ASSUME NEW f, NEW S, IsFiniteSet(S), \A x \in S : f[x] \in Nat
  PROVE  SumFunctionOnSet(f, S) = Cardinality(Units(f, S))
<1> DEFINE iter[s \in SUBSET S] ==
             IF s = {} THEN 0 ELSE LET x == CHOOSE x \in s : TRUE IN f[x] + iter[s \ {x}]
           count == [s \in SUBSET S |-> Cardinality(Units(f, s))]
<1>1. SumFunctionOnSet(f, S) = iter[S]
  BY DEF SumFunctionOnSet, FoldFunctionOnSet, MapThenFoldSet
<1>2. ASSUME NEW s \in SUBSET S, NEW x \in s
      PROVE  count[s] = f[x] + count[s \ {x}]
  <2>1. IsFiniteSet(s \ {x}) /\ s = (s \ {x}) \cup {x} /\ IsFiniteSet({x})
    BY FS_Subset, FS_Singleton
  <2>2. Cardinality(Units(f, s)) = Cardinality(Units(f, s \ {x})) + Cardinality(Units(f, {x}))
    BY <2>1, UnitsUnion
  <2>3. Cardinality(Units(f, s \ {x})) \in Nat
    BY <2>1, UnitsFinite
  <2>4. Cardinality(Units(f, {x})) = f[x]
    BY UnitsOne
  <2>5. count[s] = Cardinality(Units(f, s)) /\ count[s \ {x}] = Cardinality(Units(f, s \ {x}))
    OBVIOUS
  <2> QED BY <2>2, <2>3, <2>4, <2>5
<1>3. count[{}] = 0
  BY FS_EmptySet DEF Units
<1>4. count = [s \in SUBSET S |->
               IF s = {} THEN 0 ELSE LET x == CHOOSE x \in s : TRUE IN f[x] + count[s \ {x}]]
  <2> HIDE DEF count
  <2>1. count = [s \in SUBSET S |-> count[s]]
    BY DEF count
  <2> QED BY <1>2, <1>3, <2>1
<1>5. iter = [s \in SUBSET S |->
               IF s = {} THEN 0 ELSE LET x == CHOOSE x \in s : TRUE IN f[x] + iter[s \ {x}]]
  <2> HIDE DEF count
  <2> QED BY <1>4 DEF iter
<1> HIDE DEF iter, count
<1> DEFINE I == {s \in SUBSET S : iter[s] = count[s]}
<1>6. {} \in I
  BY <1>3, <1>5
<1>7. \A T \in SUBSET S : (T # {} /\ \A x \in T : T \ {x} \in I) => T \in I
  BY <1>2, <1>5
<1>8. S \in I
  <2> HIDE DEF I
  <2>1. \A T \in SUBSET S : T \in I
    BY <1>6, <1>7, SubsetInduction
  <2> QED BY <2>1
<1> QED BY <1>1, <1>8 DEF count

-----------------------------------------------------------------------------
(* What follows from it.                                                   *)

LEMMA SumNat ==
  ASSUME NEW f, NEW S, IsFiniteSet(S), \A x \in S : f[x] \in Nat
  PROVE  SumFunctionOnSet(f, S) \in Nat
BY SumIsCount, UnitsFinite

LEMMA SumEmpty ==
  ASSUME NEW f
  PROVE  SumFunctionOnSet(f, {}) = 0
<1>1. SumFunctionOnSet(f, {}) = Cardinality(Units(f, {}))
  BY FS_EmptySet, SumIsCount
<1>2. Units(f, {}) = {}
  BY DEF Units
<1> QED BY <1>1, <1>2, FS_EmptySet

LEMMA SumUnion ==
  ASSUME NEW f, NEW S, IsFiniteSet(S), NEW T, IsFiniteSet(T), S \cap T = {},
         \A x \in S \cup T : f[x] \in Nat
  PROVE  SumFunctionOnSet(f, S \cup T) = SumFunctionOnSet(f, S) + SumFunctionOnSet(f, T)
<1>1. IsFiniteSet(S \cup T)
  BY FS_Union
<1>2. SumFunctionOnSet(f, S \cup T) = Cardinality(Units(f, S \cup T))
  BY <1>1, SumIsCount
<1>3. /\ SumFunctionOnSet(f, S) = Cardinality(Units(f, S))
      /\ SumFunctionOnSet(f, T) = Cardinality(Units(f, T))
  BY SumIsCount
<1> QED BY <1>2, <1>3, UnitsUnion

LEMMA SumOne ==
  ASSUME NEW f, NEW x, f[x] \in Nat
  PROVE  SumFunctionOnSet(f, {x}) = f[x]
<1>1. IsFiniteSet({x})
  BY FS_Singleton
<1>2. SumFunctionOnSet(f, {x}) = Cardinality(Units(f, {x}))
  BY <1>1, SumIsCount
<1> QED BY <1>2, UnitsOne

LEMMA SumRemove ==
  ASSUME NEW f, NEW S, IsFiniteSet(S), \A x \in S : f[x] \in Nat, NEW x \in S
  PROVE  /\ SumFunctionOnSet(f, S) = f[x] + SumFunctionOnSet(f, S \ {x})
         /\ SumFunctionOnSet(f, S \ {x}) \in Nat
<1>1. IsFiniteSet(S \ {x}) /\ IsFiniteSet({x})
  BY FS_RemoveElement, FS_Singleton
<1>2. (S \ {x}) \cap {x} = {} /\ (S \ {x}) \cup {x} = S
  OBVIOUS
<1>3. SumFunctionOnSet(f, S \ {x}) \in Nat
  BY <1>1, SumNat
<1>4. SumFunctionOnSet(f, (S \ {x}) \cup {x})
        = SumFunctionOnSet(f, S \ {x}) + SumFunctionOnSet(f, {x})
  <2>1. \A y \in (S \ {x}) \cup {x} : f[y] \in Nat
    OBVIOUS
  <2> QED BY <1>1, <1>2, <2>1, SumUnion
<1>5. SumFunctionOnSet(f, {x}) = f[x]
  BY SumOne
<1>6. SumFunctionOnSet(f, S) = SumFunctionOnSet(f, S \ {x}) + f[x]
  BY <1>2, <1>4, <1>5, Zenon
<1> QED BY <1>3, <1>6

LEMMA SumSame ==
  ASSUME NEW f, NEW g, NEW S, IsFiniteSet(S),
         \A x \in S : f[x] \in Nat /\ f[x] = g[x]
  PROVE  SumFunctionOnSet(f, S) = SumFunctionOnSet(g, S)
<1>1. Units(f, S) = Units(g, S)
  BY DEF Units
<1>2. \A x \in S : f[x] \in Nat
  OBVIOUS
<1>3. \A x \in S : g[x] \in Nat
  OBVIOUS
<1> QED BY <1>1, <1>2, <1>3, SumIsCount

\* Term by term.
LEMMA SumAtMost ==
  ASSUME NEW f, NEW g, NEW S, IsFiniteSet(S),
         \A x \in S : f[x] \in Nat /\ g[x] \in Nat /\ f[x] <= g[x]
  PROVE  SumFunctionOnSet(f, S) <= SumFunctionOnSet(g, S)
<1>1. Units(f, S) \subseteq Units(g, S)
  <2>1. \A x \in S : 1 .. f[x] \subseteq 1 .. g[x]
    OBVIOUS
  <2> QED BY <2>1 DEF Units
<1>2. /\ \A x \in S : f[x] \in Nat
      /\ \A x \in S : g[x] \in Nat
  OBVIOUS
<1>3. IsFiniteSet(Units(g, S))
  BY <1>2, UnitsFinite
<1> QED BY <1>1, <1>2, <1>3, SumIsCount, FS_Subset

\* A sum is that of a part and of what is left.
LEMMA SumSubset ==
  ASSUME NEW f, NEW S, IsFiniteSet(S), NEW T \in SUBSET S, \A x \in S : f[x] \in Nat
  PROVE  SumFunctionOnSet(f, S) = SumFunctionOnSet(f, T) + SumFunctionOnSet(f, S \ T)
<1>1. IsFiniteSet(T) /\ IsFiniteSet(S \ T)
  BY FS_Subset, FS_Difference
<1>2. T \cap (S \ T) = {} /\ T \cup (S \ T) = S
  OBVIOUS
<1>3. \A x \in T \cup (S \ T) : f[x] \in Nat
  OBVIOUS
<1>4. SumFunctionOnSet(f, T \cup (S \ T)) = SumFunctionOnSet(f, T) + SumFunctionOnSet(f, S \ T)
  BY <1>1, <1>2, <1>3, SumUnion
<1> QED BY <1>2, <1>4, Zenon

\* A sum of sums.
LEMMA SumPlus ==
  ASSUME NEW f, NEW g, NEW h, NEW S, IsFiniteSet(S),
         \A x \in S : f[x] \in Nat /\ g[x] \in Nat /\ h[x] = f[x] + g[x]
  PROVE  SumFunctionOnSet(h, S) = SumFunctionOnSet(f, S) + SumFunctionOnSet(g, S)
<1> DEFINE sum(u, T) == SumFunctionOnSet(u, T)
           I == {T \in SUBSET S : sum(h, T) = sum(f, T) + sum(g, T)}
<1>1. {} \in I
  BY SumEmpty
<1>2. ASSUME NEW T \in SUBSET S, T # {}, \A x \in T : T \ {x} \in I
      PROVE  T \in I
  <2>1. PICK x \in T : T \ {x} \in I
    BY <1>2
  <2>2. IsFiniteSet(T)
    BY FS_Subset
  <2>3. /\ \A y \in T : f[y] \in Nat
        /\ \A y \in T : g[y] \in Nat
        /\ \A y \in T : h[y] \in Nat
    OBVIOUS
  <2>4. sum(f, T) = f[x] + sum(f, T \ {x}) /\ sum(f, T \ {x}) \in Nat
    BY <2>2, <2>3, SumRemove
  <2>5. sum(g, T) = g[x] + sum(g, T \ {x}) /\ sum(g, T \ {x}) \in Nat
    BY <2>2, <2>3, SumRemove
  <2>6. sum(h, T) = h[x] + sum(h, T \ {x})
    BY <2>2, <2>3, SumRemove
  <2>7. sum(h, T \ {x}) = sum(f, T \ {x}) + sum(g, T \ {x})
    BY <2>1
  <2> HIDE DEF sum
  <2>8. sum(h, T) = sum(f, T) + sum(g, T)
    BY <2>3, <2>4, <2>5, <2>6, <2>7
  <2> QED BY <2>8
<1>3. \A T \in SUBSET S : T \in I
  <2> HIDE DEF I
  <2> QED BY <1>1, <1>2, SubsetInduction
<1> QED BY <1>3

\* A constant factor.
LEMMA SumScale ==
  ASSUME NEW f, NEW g, NEW c \in Nat, NEW S, IsFiniteSet(S),
         \A x \in S : f[x] \in Nat /\ g[x] = c * f[x]
  PROVE  SumFunctionOnSet(g, S) = c * SumFunctionOnSet(f, S)
<1> DEFINE sum(u, T) == SumFunctionOnSet(u, T)
           I == {T \in SUBSET S : sum(g, T) = c * sum(f, T)}
<1>1. {} \in I
  BY SumEmpty
<1>2. ASSUME NEW T \in SUBSET S, T # {}, \A x \in T : T \ {x} \in I
      PROVE  T \in I
  <2>1. PICK x \in T : T \ {x} \in I
    BY <1>2
  <2>2. IsFiniteSet(T)
    BY FS_Subset
  <2>3. /\ \A y \in T : f[y] \in Nat
        /\ \A y \in T : g[y] \in Nat
    OBVIOUS
  <2>4. sum(f, T) = f[x] + sum(f, T \ {x}) /\ sum(f, T \ {x}) \in Nat
    BY <2>2, <2>3, SumRemove
  <2>5. sum(g, T) = g[x] + sum(g, T \ {x})
    BY <2>2, <2>3, SumRemove
  <2>6. sum(g, T \ {x}) = c * sum(f, T \ {x}) /\ g[x] = c * f[x] /\ f[x] \in Nat
    BY <2>1
  <2> HIDE DEF sum
  <2>7. \A a, b \in Nat : c * (a + b) = c * a + c * b
    OBVIOUS
  <2>8. sum(g, T) = c * sum(f, T)
    BY <2>4, <2>5, <2>6, <2>7
  <2> QED BY <2>8
<1>3. \A T \in SUBSET S : T \in I
  <2> HIDE DEF I
  <2> QED BY <1>1, <1>2, SubsetInduction
<1> QED BY <1>3

\* A constant.
LEMMA SumOfOnes ==
  ASSUME NEW f, NEW c \in Nat, NEW S, IsFiniteSet(S), \A x \in S : f[x] = c
  PROVE  SumFunctionOnSet(f, S) = c * Cardinality(S)
<1>1. Units(f, S) = S \X (1 .. c)
  BY DEF Units
<1>2. SumFunctionOnSet(f, S) = Cardinality(Units(f, S))
  BY SumIsCount
<1>3. IsFiniteSet(1 .. c) /\ Cardinality(1 .. c) = c
  <2>1. 1 \in Int /\ c \in Int
    OBVIOUS
  <2> QED BY <2>1, FS_Interval
<1>4. Cardinality(S \X (1 .. c)) = Cardinality(S) * Cardinality(1 .. c)
  BY <1>3, FS_Product, Zenon
<1>5. Cardinality(S) \in Nat
  BY FS_CardinalityType
<1>6. Cardinality(Units(f, S)) = Cardinality(S) * c
  BY <1>1, <1>3, <1>4, Zenon
<1>7. \A n \in Nat : n * c = c * n
  OBVIOUS
<1> QED BY <1>2, <1>5, <1>6, <1>7

\* The elements whose key is one of V.
Having(S, key, V) == {x \in S : key[x] \in V}

\* g is the sum of f over the elements of each key.
Grouped(f, S, key, V, g) == \A v \in V : g[v] = SumFunctionOnSet(f, Having(S, key, {v}))

\* A sum is the sum of those of its groups.
LEMMA SumByGroups ==
  ASSUME NEW f, NEW S, NEW key, NEW V, NEW g,
         IsFiniteSet(S), \A x \in S : f[x] \in Nat, IsFiniteSet(V),
         Grouped(f, S, key, V, g)
  PROVE  SumFunctionOnSet(g, V) = SumFunctionOnSet(f, Having(S, key, V))
<1> DEFINE sum(u, T) == SumFunctionOnSet(u, T)
           In(T) == Having(S, key, T)
           I == {T \in SUBSET V : sum(g, T) = sum(f, In(T))}
<1>0. \A T : IsFiniteSet(In(T)) /\ sum(f, In(T)) \in Nat
  <2> TAKE T
  <2>1. In(T) \in SUBSET S
    BY DEF Having
  <2>2. IsFiniteSet(In(T))
    <3> HIDE DEF In
    <3> QED BY <2>1, FS_Subset
  <2>3. \A x \in In(T) : f[x] \in Nat
    BY DEF Having
  <2> HIDE DEF In
  <2> QED BY <2>2, <2>3, SumNat
<1>1. {} \in I
  <2>1. In({}) = {}
    BY DEF Having
  <2> HIDE DEF In
  <2> QED BY <2>1, SumEmpty
<1>2. ASSUME NEW T \in SUBSET V, T # {}, \A v \in T : T \ {v} \in I
      PROVE  T \in I
  <2>1. PICK v \in T : T \ {v} \in I
    BY <1>2
  <2>2. IsFiniteSet(T)
    BY FS_Subset
  <2>3. \A w \in T : g[w] = sum(f, In({w})) /\ g[w] \in Nat
    BY <1>0 DEF Grouped
  <2>4. sum(g, T) = g[v] + sum(g, T \ {v})
    <3>1. \A w \in T : g[w] \in Nat
      BY <2>3
    <3> QED BY <2>2, <3>1, SumRemove
  <2>5. In(T) = In({v}) \cup In(T \ {v}) /\ In({v}) \cap In(T \ {v}) = {}
    BY DEF Having
  <2>6. sum(f, In({v}) \cup In(T \ {v})) = sum(f, In({v})) + sum(f, In(T \ {v}))
    <3>1. \A x \in In({v}) \cup In(T \ {v}) : f[x] \in Nat
      BY DEF Having
    <3> HIDE DEF In
    <3> QED BY <1>0, <2>5, <3>1, SumUnion
  <2>7. sum(g, T \ {v}) = sum(f, In(T \ {v}))
    BY <2>1
  <2> HIDE DEF sum, In
  <2>8. sum(g, T) = sum(f, In(T))
    BY <2>3, <2>4, <2>5, <2>6, <2>7
  <2> QED BY <2>8
<1>3. \A T \in SUBSET V : T \in I
  <2> HIDE DEF I
  <2> QED BY <1>1, <1>2, SubsetInduction
<1> QED BY <1>3

-----------------------------------------------------------------------------
(* Arithmetic. *)

\* What dividing leaves.
LEMMA DivMod ==
  ASSUME NEW d \in Nat, NEW w \in Nat, w > 0
  PROVE  d \div w \in Nat /\ d % w \in Nat /\ d % w < w /\ d = w * (d \div w) + (d % w)
<1>1. d \div w \in Int /\ w * (d \div w) <= d /\ d < w * (d \div w) + w
  OBVIOUS
<1>2. d % w \in 0 .. w - 1
  OBVIOUS
<1>3. d = w * (d \div w) + (d % w)
  OBVIOUS
<1>4. d \div w \in Nat
  OBVIOUS
<1> QED BY <1>1, <1>2, <1>3, <1>4

\* A positive factor of both sides.
LEMMA Cancel ==
  ASSUME NEW w \in Nat, w > 0, NEW a \in Int, NEW b \in Int, w * a <= w * b
  PROVE  a <= b
<1> SUFFICES ASSUME a >= b + 1 PROVE FALSE
  OBVIOUS
<1>1. w * (a - (b + 1)) >= 0
  OBVIOUS
<1>2. w * (a - (b + 1)) = w * a - w * b - w
  OBVIOUS
<1> QED BY <1>1, <1>2
=============================================================================
