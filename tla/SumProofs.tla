-------------------------------- MODULE SumProofs -------------------------------
(***************************************************************************)
(* Lemmas about SumFunctionOnSet, by which the store's files are added up. *)
(* The library's induction theorems take an operator; here an induction is *)
(* a set of subsets without a minimal element, which must be empty.        *)
(***************************************************************************)
EXTENDS Integers, FiniteSets, Functions, FiniteSetTheorems, WellFoundedInduction, TLAPS

\* Finite sets are inductive: a set of subsets of S that holds every subset
\* whose own strict subsets it holds, holds S.
LEMMA SubsetInduction ==
    ASSUME NEW S, IsFiniteSet(S), NEW B,
           \A T \in SUBSET S : (\A U \in SUBSET T : U # T => U \in B) => T \in B
    PROVE  \A T \in SUBSET S : T \in B
  <1> DEFINE bad == {T \in SUBSET S : T \notin B}
  <1>1. SUFFICES ASSUME bad # {} PROVE FALSE
    BY <1>1
  <1>2. IsWellFoundedOn(StrictSubsetOrdering(S), FiniteSubsetsOf(S))
    BY FS_StrictSubsetOrderingWellFounded
  <1>3. bad \subseteq FiniteSubsetsOf(S)
    BY FS_Subset DEF FiniteSubsetsOf
  <1> HIDE DEF bad
  <1>4. PICK T \in bad : \A U \in bad : <<U, T>> \notin StrictSubsetOrdering(S)
    BY <1>1, <1>2, <1>3, WFMin
  <1> USE DEF bad
  <1>5. \A U \in SUBSET T : U # T => U \in B
    BY <1>4 DEF StrictSubsetOrdering
  <1> QED BY <1>4, <1>5

--------------------------------------------------------------------------------
(* The recursion                                                               *)

\* What is called the sum of f over S is the value at S of a function g that
\* satisfies the recursion of the fold on the subsets of S.
First(s)       == CHOOSE x \in s : TRUE
Adds(f, S, g)  == g = [s \in SUBSET S |->
                          IF s = {} THEN 0 ELSE f[First(s)] + g[s \ {First(s)}]]

\* The recursive definition of a sum, over the finite subsets of its domain.
LEMMA SumIsRecursive ==
    ASSUME NEW f, NEW S
    PROVE  SumFunctionOnSet(f, S) = (CHOOSE g : Adds(f, S, g))[S]
  BY DEF SumFunctionOnSet, FoldFunctionOnSet, MapThenFoldSet, Adds, First

\* At most one g satisfies the recursion, and the one for S does for a part.
LEMMA AddsUnique ==
    ASSUME NEW S, IsFiniteSet(S), NEW f, NEW T \in SUBSET S,
           NEW g, Adds(f, S, g), NEW h, Adds(f, T, h)
    PROVE  \A U \in SUBSET T : g[U] = h[U]
  <1> DEFINE B == {U \in SUBSET T : g[U] = h[U]}
  <1>1. IsFiniteSet(T)
    BY FS_Subset
  <1>2. ASSUME NEW U \in SUBSET T, \A V \in SUBSET U : V # U => V \in B
        PROVE  U \in B
    <2>1. CASE U = {}
      BY <2>1 DEF Adds
    <2>2. CASE U # {}
      <3>1. First(U) \in U
        BY <2>2 DEF First
      <3>2. g[U \ {First(U)}] = h[U \ {First(U)}]
        BY <1>2, <3>1
      <3>3. g[U] = f[First(U)] + g[U \ {First(U)}]
        BY <2>2 DEF Adds
      <3>4. h[U] = f[First(U)] + h[U \ {First(U)}]
        BY <2>2 DEF Adds
      <3> QED BY <3>2, <3>3, <3>4
    <2> QED BY <2>1, <2>2
  <1> HIDE DEF B
  <1>3. \A U \in SUBSET T : U \in B
    BY <1>1, <1>2, SubsetInduction
  <1> QED BY <1>3 DEF B

\* What the sum of a set is, once the recursion has a solution for the set.
LEMMA SumOf ==
    ASSUME NEW S, IsFiniteSet(S), NEW f, NEW g, Adds(f, S, g)
    PROVE  \A T \in SUBSET S : SumFunctionOnSet(f, T) = g[T]
  <1> TAKE T \in SUBSET S
  <1> DEFINE h == [U \in SUBSET T |-> g[U]]
  <1>1. Adds(f, T, h)
    <2>1. ASSUME NEW U \in SUBSET T
          PROVE  h[U] = IF U = {} THEN 0 ELSE f[First(U)] + h[U \ {First(U)}]
      BY DEF Adds
    <2> QED BY <2>1 DEF Adds
  <1> HIDE DEF h
  <1>2. Adds(f, T, CHOOSE k : Adds(f, T, k))
    BY <1>1
  <1>3. g[T] = (CHOOSE k : Adds(f, T, k))[T]
    BY <1>2, AddsUnique
  <1> QED BY <1>3, SumIsRecursive

\* The recursion has a solution for every finite set.
LEMMA AddsExists ==
    ASSUME NEW S, IsFiniteSet(S), NEW f
    PROVE  \E g : Adds(f, S, g)
  <1> DEFINE B == {T \in SUBSET S : \E g : Adds(f, T, g)}
  <1>1. ASSUME NEW T \in SUBSET S, \A U \in SUBSET T : U # T => U \in B
        PROVE  T \in B
    <2> DEFINE g == [U \in SUBSET T |->
                        IF U # T THEN SumFunctionOnSet(f, U)
                        ELSE IF T = {} THEN 0
                        ELSE f[First(T)] + SumFunctionOnSet(f, T \ {First(T)})]
    <2>1. ASSUME NEW U \in SUBSET T
          PROVE  g[U] = IF U = {} THEN 0 ELSE f[First(U)] + g[U \ {First(U)}]
      <3>1. U # {} => First(U) \in U
        BY DEF First
      <3>2. CASE U = T
        BY <3>1, <3>2
      <3>3. CASE U # T
        <4>1. PICK h : Adds(f, U, h)
          BY <1>1, <3>3
        <4>2. IsFiniteSet(U)
          BY FS_Subset
        <4>3. \A V \in SUBSET U : SumFunctionOnSet(f, V) = h[V]
          BY <4>1, <4>2, SumOf
        <4>4. h[U] = IF U = {} THEN 0 ELSE f[First(U)] + h[U \ {First(U)}]
          BY <4>1 DEF Adds
        <4>5. U # {} => U \ {First(U)} \in SUBSET U /\ U \ {First(U)} # T
          BY <3>1
        <4> QED BY <3>3, <4>3, <4>4, <4>5
      <3> QED BY <3>2, <3>3
    <2>2. Adds(f, T, g)
      BY <2>1 DEF Adds
    <2> QED BY <2>2
  <1> HIDE DEF B
  <1>2. S \in B
    BY <1>1, SubsetInduction
  <1> QED BY <1>2 DEF B

\* The sum of no files is nothing; a sum is the first summand and the rest.
LEMMA SumEquations ==
    ASSUME NEW S, IsFiniteSet(S), NEW f
    PROVE  SumFunctionOnSet(f, S) =
              IF S = {} THEN 0
              ELSE f[First(S)] + SumFunctionOnSet(f, S \ {First(S)})
  <1>1. PICK g : Adds(f, S, g)
    BY AddsExists
  <1>2. \A T \in SUBSET S : SumFunctionOnSet(f, T) = g[T]
    BY <1>1, SumOf
  <1>3. g[S] = IF S = {} THEN 0 ELSE f[First(S)] + g[S \ {First(S)}]
    BY <1>1 DEF Adds
  <1> QED BY <1>2, <1>3

--------------------------------------------------------------------------------
(* Sums of naturals                                                            *)

\* The sum over no argument is zero.
LEMMA SumEmpty ==
    ASSUME NEW f
    PROVE  SumFunctionOnSet(f, {}) = 0
  BY FS_EmptySet, SumEquations

\* Sums of naturals are naturals.
LEMMA SumNat ==
    ASSUME NEW S, IsFiniteSet(S), NEW f, \A x \in S : f[x] \in Nat
    PROVE  SumFunctionOnSet(f, S) \in Nat
  <1> DEFINE B == {T \in SUBSET S : SumFunctionOnSet(f, T) \in Nat}
  <1>1. ASSUME NEW T \in SUBSET S, \A U \in SUBSET T : U # T => U \in B
        PROVE  T \in B
    <2>1. IsFiniteSet(T)
      BY FS_Subset
    <2>2. CASE T = {}
      BY <2>2, SumEmpty
    <2>3. CASE T # {}
      <3>1. First(T) \in T
        BY <2>3 DEF First
      <3>2. SumFunctionOnSet(f, T) = f[First(T)] + SumFunctionOnSet(f, T \ {First(T)})
        BY <2>1, <2>3, SumEquations
      <3>3. SumFunctionOnSet(f, T \ {First(T)}) \in Nat /\ f[First(T)] \in Nat
        BY <1>1, <3>1
      <3> QED BY <3>2, <3>3
    <2> QED BY <2>2, <2>3
  <1> HIDE DEF B
  <1>2. S \in B
    BY <1>1, SubsetInduction
  <1> QED BY <1>2 DEF B

\* Any summand may be taken first.
LEMMA SumApart ==
    ASSUME NEW S, IsFiniteSet(S), NEW f, \A x \in S : f[x] \in Nat
    PROVE  \A x \in S : SumFunctionOnSet(f, S) = f[x] + SumFunctionOnSet(f, S \ {x})
  <1> DEFINE B == {T \in SUBSET S : \A x \in T :
                      SumFunctionOnSet(f, T) = f[x] + SumFunctionOnSet(f, T \ {x})}
  <1>1. ASSUME NEW T \in SUBSET S, \A U \in SUBSET T : U # T => U \in B, NEW x \in T
        PROVE  SumFunctionOnSet(f, T) = f[x] + SumFunctionOnSet(f, T \ {x})
    <2> DEFINE y == First(T)
    <2>1. y \in T
      BY DEF First
    <2> HIDE DEF y
    <2>2. IsFiniteSet(T)
      BY FS_Subset
    <2>3. SumFunctionOnSet(f, T) = f[y] + SumFunctionOnSet(f, T \ {y})
      BY <2>2, SumEquations DEF y
    <2>4. CASE x = y
      BY <2>3, <2>4
    <2>5. CASE x # y
      <3>1. SumFunctionOnSet(f, T \ {y}) = f[x] + SumFunctionOnSet(f, (T \ {y}) \ {x})
        BY <1>1, <2>1, <2>5
      <3>2. SumFunctionOnSet(f, T \ {x}) = f[y] + SumFunctionOnSet(f, (T \ {x}) \ {y})
        BY <1>1, <2>1, <2>5
      <3>3. (T \ {y}) \ {x} = (T \ {x}) \ {y}
        OBVIOUS
      <3>4. SumFunctionOnSet(f, (T \ {x}) \ {y}) \in Nat
        <4>1. IsFiniteSet((T \ {x}) \ {y}) /\ (T \ {x}) \ {y} \subseteq S
          BY <2>2, FS_RemoveElement
        <4> QED BY <4>1, SumNat
      <3>5. f[x] \in Nat /\ f[y] \in Nat
        BY <2>1
      <3> QED BY <2>3, <3>1, <3>2, <3>3, <3>4, <3>5
    <2> QED BY <2>4, <2>5
  <1>2. ASSUME NEW T \in SUBSET S, \A U \in SUBSET T : U # T => U \in B
        PROVE  T \in B
    BY <1>1, <1>2
  <1> HIDE DEF B
  <1>3. S \in B
    BY <1>2, SubsetInduction
  <1> QED BY <1>3 DEF B

\* A sum depends on the summands only.
LEMMA SumSame ==
    ASSUME NEW S, IsFiniteSet(S), NEW f, NEW g, \A x \in S : f[x] = g[x]
    PROVE  SumFunctionOnSet(f, S) = SumFunctionOnSet(g, S)
  <1> DEFINE B == {T \in SUBSET S : SumFunctionOnSet(f, T) = SumFunctionOnSet(g, T)}
  <1>1. ASSUME NEW T \in SUBSET S, \A U \in SUBSET T : U # T => U \in B
        PROVE  T \in B
    <2>1. IsFiniteSet(T)
      BY FS_Subset
    <2>2. CASE T = {}
      BY <2>2, SumEmpty
    <2>3. CASE T # {}
      <3>1. First(T) \in T
        BY <2>3 DEF First
      <3>2. SumFunctionOnSet(f, T) = f[First(T)] + SumFunctionOnSet(f, T \ {First(T)})
        BY <2>1, <2>3, SumEquations
      <3>3. SumFunctionOnSet(g, T) = g[First(T)] + SumFunctionOnSet(g, T \ {First(T)})
        BY <2>1, <2>3, SumEquations
      <3>4. SumFunctionOnSet(f, T \ {First(T)}) = SumFunctionOnSet(g, T \ {First(T)})
        BY <1>1, <3>1
      <3>5. f[First(T)] = g[First(T)]
        BY <3>1
      <3> QED BY <3>2, <3>3, <3>4, <3>5
    <2> QED BY <2>2, <2>3
  <1> HIDE DEF B
  <1>2. S \in B
    BY <1>1, SubsetInduction
  <1> QED BY <1>2 DEF B

\* A new summand adds its value.
LEMMA SumOneMore ==
    ASSUME NEW S, IsFiniteSet(S), NEW x, x \notin S, NEW f, \A y \in S \cup {x} : f[y] \in Nat
    PROVE  SumFunctionOnSet(f, S \cup {x}) = f[x] + SumFunctionOnSet(f, S)
  <1>1. IsFiniteSet(S \cup {x})
    BY FS_AddElement
  <1>2. (S \cup {x}) \ {x} = S
    OBVIOUS
  <1> QED BY <1>1, <1>2, SumApart

\* Summands of at most m add up to at most m each.
LEMMA SumAtMost ==
    ASSUME NEW S, IsFiniteSet(S), NEW m \in Nat, NEW f, \A x \in S : f[x] \in 0..m
    PROVE  SumFunctionOnSet(f, S) <= m * Cardinality(S)
  <1> DEFINE B == {T \in SUBSET S : SumFunctionOnSet(f, T) <= m * Cardinality(T)}
  <1>1. ASSUME NEW T \in SUBSET S, \A U \in SUBSET T : U # T => U \in B
        PROVE  T \in B
    <2>1. IsFiniteSet(T)
      BY FS_Subset
    <2>2. CASE T = {}
      <3>1. Cardinality(T) = 0 /\ SumFunctionOnSet(f, T) = 0
        BY <2>2, FS_EmptySet, SumEmpty
      <3> QED BY <3>1
    <2>3. CASE T # {}
      <3> DEFINE x == First(T)
                 U == T \ {x}
      <3>1. x \in T
        BY <2>3 DEF First
      <3>2. SumFunctionOnSet(f, T) = f[x] + SumFunctionOnSet(f, U)
        BY <2>1, <2>3, SumEquations
      <3>3. SumFunctionOnSet(f, U) <= m * Cardinality(U)
        BY <1>1, <3>1
      <3>4. f[x] \in 0..m
        BY <3>1
      <3>5. Cardinality(U) = Cardinality(T) - 1 /\ IsFiniteSet(U) /\ Cardinality(T) \in Nat
        BY <2>1, <3>1, FS_RemoveElement, FS_CardinalityType
      <3>6. SumFunctionOnSet(f, U) \in Nat
        BY <3>5, SumNat
      <3> HIDE DEF x, U
      <3>7. m * Cardinality(T) = m * Cardinality(U) + m
        <4>1. \A n \in Nat : m * n = m * (n - 1) + m
          OBVIOUS
        <4> QED BY <3>5, <4>1
      <3>8. m * Cardinality(U) \in Int
        BY <3>5
      <3> QED BY <3>2, <3>3, <3>4, <3>6, <3>7, <3>8
    <2> QED BY <2>2, <2>3
  <1> HIDE DEF B
  <1>2. S \in B
    BY <1>1, SubsetInduction
  <1> QED BY <1>2 DEF B

\* Replacing one summand changes the sum by the difference.
LEMMA SumReplaced ==
    ASSUME NEW S, IsFiniteSet(S), NEW x \in S,
           NEW f, \A y \in S : f[y] \in Nat, NEW g, \A y \in S : g[y] \in Nat,
           \A y \in S : y # x => f[y] = g[y]
    PROVE  SumFunctionOnSet(g, S) + f[x] = SumFunctionOnSet(f, S) + g[x]
  <1>1. IsFiniteSet(S \ {x})
    BY FS_RemoveElement
  <1>2. SumFunctionOnSet(f, S \ {x}) = SumFunctionOnSet(g, S \ {x})
    BY <1>1, SumSame
  <1>3. SumFunctionOnSet(f, S) = f[x] + SumFunctionOnSet(f, S \ {x})
    BY SumApart
  <1>4. SumFunctionOnSet(g, S) = g[x] + SumFunctionOnSet(g, S \ {x})
    BY SumApart
  <1>5. SumFunctionOnSet(f, S \ {x}) \in Nat /\ f[x] \in Nat /\ g[x] \in Nat
    BY <1>1, SumNat
  <1> QED BY <1>2, <1>3, <1>4, <1>5

\* The sum over a sequence grows by what is appended.
LEMMA SumLonger ==
    ASSUME NEW n \in Nat, NEW f, DOMAIN f = 1..n, NEW g, DOMAIN g = 1..(n + 1),
           \A k \in 1..n : f[k] = g[k], \A k \in 1..(n + 1) : g[k] \in Nat
    PROVE  SumFunction(g) = SumFunction(f) + g[n + 1]
  <1>1. IsFiniteSet(1..n)
    BY FS_Interval
  <1>2. 1..(n + 1) = (1..n) \cup {n + 1} /\ n + 1 \notin 1..n
    OBVIOUS
  <1>3. SumFunctionOnSet(g, (1..n) \cup {n + 1}) = g[n + 1] + SumFunctionOnSet(g, 1..n)
    BY <1>1, <1>2, SumOneMore
  <1>4. SumFunctionOnSet(f, 1..n) = SumFunctionOnSet(g, 1..n)
    BY <1>1, SumSame
  <1>5. SumFunctionOnSet(g, 1..n) \in Nat
    BY <1>1, <1>2, SumNat
  <1>6. g[n + 1] \in Nat
    BY <1>2
  <1>7. SumFunction(g) = SumFunctionOnSet(g, (1..n) \cup {n + 1})
    BY <1>2, Zenon DEF SumFunction
  <1>8. SumFunction(f) = SumFunctionOnSet(f, 1..n)
    BY DEF SumFunction
  <1> QED BY <1>3, <1>4, <1>5, <1>6, <1>7, <1>8
================================================================================
