---------------------------- MODULE WalletProofs ----------------------------
(***************************************************************************)
(* TLAPS proofs about Wallet and Pot, for any users, books and bounds.     *)
(*                                                                         *)
(* The sums of Scoring and Wallet are recursive functions over finite      *)
(* sets; the first part proves what they add up to.  The second bounds     *)
(* the shares of a pot, and with them the odds of Pot.  In the third, a    *)
(* week is assessed when it is over, so no book can still close in it and  *)
(* the stakes of the books that closed in it no longer change: who was     *)
(* spared stays rightly spared.  The last part is the bank's books: every  *)
(* balance is the sum of its rows, what stands on a book was paid for, and *)
(* what a closed book has paid is what it owes, which its pot covers.      *)
(***************************************************************************)
EXTENDS Wallet, Pot, FiniteSetTheorems, TLAPS

\* Finite sums.  SumFunctionOnSet is a recursive function of the subsets of S; the induction
\* principles of the library take a predicate as a parameter, so they are restated for sets.

\* Every natural number is in B when a number is as soon as all smaller ones are.
LEMMA NatSetInduction ==
  ASSUME NEW B, B \subseteq Nat, \A n \in Nat : (\A m \in Nat : m < n => m \in B) => n \in B
  PROVE  \A n \in Nat : n \in B
<1> DEFINE C == Nat \ B
<1>1. SUFFICES ASSUME C # {} PROVE FALSE
  OBVIOUS
<1>2. PICK n \in C : \A m \in C : ~(<<m, n>> \in OpToRel(<, Nat))
  <2>1. C \subseteq Nat
    OBVIOUS
  <2> HIDE DEF C
  <2> QED
    BY <1>1, <2>1, WFMin, NatLessThanWellFounded, Zenon
<1>3. \A m \in C : ~(m < n)
  BY <1>2, Zenon DEF OpToRel
<1> QED
  BY <1>3

\* Every subset of S is in B when a set is as soon as it is with any one element less.
LEMMA SubsetInduction ==
  ASSUME NEW S, IsFiniteSet(S), NEW B, B \subseteq SUBSET S,
         \A T \in SUBSET S : (\A x \in T : T \ {x} \in B) => T \in B
  PROVE  \A T \in SUBSET S : T \in B
<1> DEFINE C == (SUBSET S) \ B
           R == StrictSubsetOrdering(S)
<1>1. IsWellFoundedOn(R, SUBSET S)
  BY FS_StrictSubsetOrderingWellFounded, FS_FiniteSubsetsOfFinite, Zenon
<1>2. SUFFICES ASSUME C # {} PROVE FALSE
  OBVIOUS
<1>3. C \subseteq SUBSET S
  OBVIOUS
<1>4. \E T \in C : \A U \in C : ~(<<U, T>> \in R)
  <2> HIDE DEF C, R
  <2> QED
    BY <1>1, <1>2, <1>3, WFMin
<1>5. PICK T \in C : \A U \in C : ~(<<U, T>> \in R)
  BY <1>4
<1>6. ASSUME NEW x \in T PROVE T \ {x} \in B
  <2>1. <<T \ {x}, T>> \in R
    BY <1>5, <1>6 DEF StrictSubsetOrdering
  <2> QED
    BY <1>5, <2>1
<1> QED
  BY <1>5, <1>6

\* The equation that SumFunctionOnSet's iteration over S solves.
Pick(s) == CHOOSE x \in s : TRUE
Iterates(f, S, g) == g = [s \in SUBSET S |-> IF s = {} THEN 0 ELSE f[Pick(s)] + g[s \ {Pick(s)}]]

\* The element a sum takes first is one of the set's.
LEMMA PickIn == \A s : s # {} => Pick(s) \in s
  BY DEF Pick

\* A sum is the chosen solution of that equation, at the whole set.
LEMMA SumChooses == \A f, S : SumFunctionOnSet(f, S) = (CHOOSE g : Iterates(f, S, g))[S]
  BY DEF SumFunctionOnSet, FoldFunctionOnSet, MapThenFoldSet, Iterates, Pick

\* Solutions over a set and over a part of it agree on the part.
LEMMA IterationUnique ==
  ASSUME NEW f, NEW S, IsFiniteSet(S), NEW U \in SUBSET S, NEW g, NEW h, Iterates(f, S, g), Iterates(f, U, h)
  PROVE  \A s \in SUBSET U : g[s] = h[s]
<1> DEFINE B == {s \in SUBSET U : g[s] = h[s]}
<1>1. ASSUME NEW T \in SUBSET U, \A x \in T : T \ {x} \in B PROVE T \in B
  <2>1. T \in SUBSET S
    OBVIOUS
  <2>2. CASE T = {}
    BY <2>1, <2>2 DEF Iterates
  <2>3. CASE T # {}
    <3>1. Pick(T) \in T
      BY <2>3, PickIn
    <3>2. g[T] = f[Pick(T)] + g[T \ {Pick(T)}] /\ h[T] = f[Pick(T)] + h[T \ {Pick(T)}]
      BY <2>1, <2>3 DEF Iterates
    <3> QED
      BY <1>1, <3>1, <3>2
  <2> QED
    BY <2>2, <2>3
<1>2. IsFiniteSet(U)
  BY FS_Subset
<1>3. \A T \in SUBSET U : T \in B
  <2>1. B \subseteq SUBSET U
    OBVIOUS
  <2> HIDE DEF B
  <2> QED
    BY <1>1, <1>2, <2>1, SubsetInduction
<1> QED
  BY <1>3

\* There is a solution: over the subsets of at most n elements, for each n in turn.
LEMMA IterationExists ==
  ASSUME NEW f, NEW S, IsFiniteSet(S)
  PROVE  \E g : Iterates(f, S, g)
<1> DEFINE Small(n) == {s \in SUBSET S : Cardinality(s) <= n}
           Solves(n, g) == g = [s \in Small(n) |-> IF s = {} THEN 0 ELSE f[Pick(s)] + g[s \ {Pick(s)}]]
           B == {n \in Nat : \E g : Solves(n, g)}
<1>1. \A s \in SUBSET S : Cardinality(s) \in Nat /\ (Cardinality(s) = 0 <=> s = {})
  BY FS_Subset, FS_CardinalityType, FS_EmptySet
<1>2. ASSUME NEW s \in SUBSET S, s # {}
      PROVE  s \ {Pick(s)} \in SUBSET S /\ Cardinality(s \ {Pick(s)}) = Cardinality(s) - 1
  BY <1>2, PickIn, FS_Subset, FS_RemoveElement
<1>3. ASSUME NEW n \in Nat, \A m \in Nat : m < n => m \in B PROVE n \in B
  <2>1. CASE n = 0
    <3>1. Small(0) = {{}}
      BY <1>1, FS_EmptySet
    <3>2. Solves(0, [s \in {{}} |-> 0])
      BY <3>1
    <3> QED
      BY <2>1, <3>2
  <2>2. CASE n # 0
    <3>1. n - 1 \in Nat /\ n - 1 < n
      BY <2>2
    <3>2. n - 1 \in B
      BY <1>3, <3>1
    <3>3. PICK g : Solves(n - 1, g)
      BY <3>2
    <3> DEFINE h == [s \in Small(n) |-> IF s = {} THEN 0 ELSE f[Pick(s)] + g[s \ {Pick(s)}]]
    <3>4. ASSUME NEW s \in Small(n), s # {}
          PROVE  h[s \ {Pick(s)}] = g[s \ {Pick(s)}]
      <4> DEFINE u == s \ {Pick(s)}
      <4>1. u \in Small(n - 1) /\ u \in Small(n)
        BY <1>1, <1>2, <3>4
      <4>2. h[u] = IF u = {} THEN 0 ELSE f[Pick(u)] + g[u \ {Pick(u)}]
        BY <4>1
      <4>3. g[u] = IF u = {} THEN 0 ELSE f[Pick(u)] + g[u \ {Pick(u)}]
        <5> HIDE DEF u, Small
        <5> QED
          BY <3>3, <4>1
      <4> QED
        BY <4>2, <4>3
    <3>5. h = [s \in Small(n) |-> IF s = {} THEN 0 ELSE f[Pick(s)] + h[s \ {Pick(s)}]]
      <4>1. \A s \in Small(n) : s # {} => h[s \ {Pick(s)}] = g[s \ {Pick(s)}]
        BY <3>4
      <4>2. h = [s \in Small(n) |-> IF s = {} THEN 0 ELSE f[Pick(s)] + g[s \ {Pick(s)}]]
        OBVIOUS
      <4> HIDE DEF h, Small
      <4> QED
        BY <4>1, <4>2
    <3> HIDE DEF h
    <3> QED
      BY <3>5
  <2> QED
    BY <2>1, <2>2
<1>4. Cardinality(S) \in B
  <2>1. B \subseteq Nat
    OBVIOUS
  <2> HIDE DEF B
  <2> QED
    BY <1>1, <1>3, <2>1, NatSetInduction
<1>5. Small(Cardinality(S)) = SUBSET S
  BY <1>1, FS_Subset
<1> QED
  BY <1>4, <1>5 DEF Iterates

\* Whatever part of S is summed, the iteration over S says what the sum is.
LEMMA SumIterates ==
  ASSUME NEW f, NEW S, IsFiniteSet(S)
  PROVE  \E g : Iterates(f, S, g) /\ \A U \in SUBSET S : SumFunctionOnSet(f, U) = g[U]
<1>1. PICK g : Iterates(f, S, g)
  BY IterationExists
<1>2. ASSUME NEW U \in SUBSET S PROVE SumFunctionOnSet(f, U) = g[U]
  <2> DEFINE h == CHOOSE k : Iterates(f, U, k)
  <2>1. Iterates(f, U, h)
    BY IterationExists, FS_Subset
  <2>2. SumFunctionOnSet(f, U) = h[U]
    BY SumChooses
  <2> HIDE DEF h
  <2> QED
    BY <1>1, <2>1, <2>2, IterationUnique
<1> QED
  BY <1>1, <1>2

\* The sum of nothing.
LEMMA SumEmpty == \A f : SumFunctionOnSet(f, {}) = 0
<1> TAKE f
<1>1. PICK g : Iterates(f, {}, g) /\ \A U \in SUBSET {} : SumFunctionOnSet(f, U) = g[U]
  BY SumIterates, FS_EmptySet
<1> QED
  BY <1>1 DEF Iterates

\* The first element taken out.
LEMMA SumPick ==
  ASSUME NEW f, NEW S, IsFiniteSet(S), S # {}
  PROVE  SumFunctionOnSet(f, S) = f[Pick(S)] + SumFunctionOnSet(f, S \ {Pick(S)})
<1>1. PICK g : Iterates(f, S, g) /\ \A U \in SUBSET S : SumFunctionOnSet(f, U) = g[U]
  BY SumIterates
<1>2. g[S] = f[Pick(S)] + g[S \ {Pick(S)}]
  BY <1>1 DEF Iterates
<1> QED
  BY <1>1, <1>2

\* Sums of integers are integers.
LEMMA SumInt ==
  ASSUME NEW S, IsFiniteSet(S), NEW f, \A x \in S : f[x] \in Int
  PROVE  \A U \in SUBSET S : SumFunctionOnSet(f, U) \in Int
<1> DEFINE B == {U \in SUBSET S : SumFunctionOnSet(f, U) \in Int}
<1>1. ASSUME NEW T \in SUBSET S, \A x \in T : T \ {x} \in B PROVE T \in B
  <2>1. CASE T = {}
    BY <2>1, SumEmpty
  <2>2. CASE T # {}
    <3>1. Pick(T) \in T
      BY <2>2, PickIn
    <3>2. SumFunctionOnSet(f, T) = f[Pick(T)] + SumFunctionOnSet(f, T \ {Pick(T)})
      BY <2>2, SumPick, FS_Subset
    <3> QED
      BY <1>1, <3>1, <3>2
  <2> QED
    BY <2>1, <2>2
<1>2. B \subseteq SUBSET S
  OBVIOUS
<1>3. \A T \in SUBSET S : T \in B
  <2> HIDE DEF B
  <2> QED
    BY <1>1, <1>2, SubsetInduction
<1> QED
  BY <1>3

\* Any element taken out: the order of the iteration does not matter.
LEMMA SumRemove ==
  ASSUME NEW S, IsFiniteSet(S), NEW f, \A x \in S : f[x] \in Int
  PROVE  \A U \in SUBSET S : \A x \in U : SumFunctionOnSet(f, U) = f[x] + SumFunctionOnSet(f, U \ {x})
<1> DEFINE B == {U \in SUBSET S : \A x \in U : SumFunctionOnSet(f, U) = f[x] + SumFunctionOnSet(f, U \ {x})}
<1>1. ASSUME NEW T \in SUBSET S, \A x \in T : T \ {x} \in B PROVE T \in B
  <2>1. ASSUME NEW x \in T PROVE SumFunctionOnSet(f, T) = f[x] + SumFunctionOnSet(f, T \ {x})
    <3> DEFINE c == Pick(T)
    <3>1. c \in T
      BY PickIn
    <3>2. SumFunctionOnSet(f, T) = f[c] + SumFunctionOnSet(f, T \ {c})
      BY SumPick, FS_Subset
    <3> HIDE DEF c
    <3>3. CASE c = x
      BY <3>2, <3>3
    <3>4. CASE c # x
      <4>1. SumFunctionOnSet(f, T \ {c}) = f[x] + SumFunctionOnSet(f, (T \ {c}) \ {x})
        BY <1>1, <3>1, <3>4
      <4>2. SumFunctionOnSet(f, T \ {x}) = f[c] + SumFunctionOnSet(f, (T \ {x}) \ {c})
        BY <1>1, <3>1, <3>4
      <4>3. (T \ {c}) \ {x} = (T \ {x}) \ {c}
        OBVIOUS
      <4>4. f[x] \in Int /\ f[c] \in Int /\ SumFunctionOnSet(f, (T \ {x}) \ {c}) \in Int
        BY <3>1, SumInt
      <4>5. SumFunctionOnSet(f, T \ {c}) = f[x] + SumFunctionOnSet(f, (T \ {x}) \ {c})
        BY <4>1, <4>3
      <4> QED
        BY <3>2, <4>2, <4>4, <4>5
    <3> QED
      BY <3>3, <3>4
  <2> QED
    BY <2>1
<1>2. B \subseteq SUBSET S
  OBVIOUS
<1>3. \A T \in SUBSET S : T \in B
  <2> HIDE DEF B
  <2> QED
    BY <1>1, <1>2, SubsetInduction
<1> QED
  BY <1>3

\* Only the summands count.
LEMMA SumSame ==
  ASSUME NEW S, IsFiniteSet(S), NEW f, NEW g, \A x \in S : f[x] = g[x]
  PROVE  SumFunctionOnSet(f, S) = SumFunctionOnSet(g, S)
<1> DEFINE B == {U \in SUBSET S : SumFunctionOnSet(f, U) = SumFunctionOnSet(g, U)}
<1>1. ASSUME NEW T \in SUBSET S, \A x \in T : T \ {x} \in B PROVE T \in B
  <2>1. CASE T = {}
    BY <2>1, SumEmpty
  <2>2. CASE T # {}
    <3>1. Pick(T) \in T
      BY <2>2, PickIn
    <3>2. /\ SumFunctionOnSet(f, T) = f[Pick(T)] + SumFunctionOnSet(f, T \ {Pick(T)})
          /\ SumFunctionOnSet(g, T) = g[Pick(T)] + SumFunctionOnSet(g, T \ {Pick(T)})
      BY <2>2, SumPick, FS_Subset
    <3> QED
      BY <1>1, <3>1, <3>2
  <2> QED
    BY <2>1, <2>2
<1>2. B \subseteq SUBSET S
  OBVIOUS
<1>3. \A T \in SUBSET S : T \in B
  <2> HIDE DEF B
  <2> QED
    BY <1>1, <1>2, SubsetInduction
<1> QED
  BY <1>3

\* One element more.
LEMMA SumAdd ==
  ASSUME NEW S, IsFiniteSet(S), NEW x, x \notin S, NEW f, NEW g,
         \A y \in S : f[y] \in Int /\ g[y] = f[y], g[x] \in Int
  PROVE  SumFunctionOnSet(g, S \cup {x}) = SumFunctionOnSet(f, S) + g[x]
<1>1. IsFiniteSet(S \cup {x}) /\ (S \cup {x}) \ {x} = S
  BY FS_AddElement
<1>2. \A y \in S \cup {x} : g[y] \in Int
  OBVIOUS
<1>3. SumFunctionOnSet(g, S \cup {x}) = g[x] + SumFunctionOnSet(g, S)
  BY <1>1, <1>2, SumRemove
<1>4. SumFunctionOnSet(g, S) = SumFunctionOnSet(f, S) /\ SumFunctionOnSet(f, S) \in Int
  BY SumSame, SumInt
<1> QED
  BY <1>3, <1>4

\* The sum of one.
LEMMA SumOne ==
  ASSUME NEW x, NEW f, f[x] \in Int
  PROVE  SumFunctionOnSet(f, {x}) = f[x]
<1>1. IsFiniteSet({x}) /\ {x} \ {x} = {}
  BY FS_Singleton
<1>2. SumFunctionOnSet(f, {x}) = f[x] + SumFunctionOnSet(f, {x} \ {x})
  BY <1>1, SumRemove
<1> QED
  BY <1>1, <1>2, SumEmpty

\* One summand changed.
LEMMA SumChange ==
  ASSUME NEW S, IsFiniteSet(S), NEW x \in S, NEW f, NEW g,
         \A y \in S : f[y] \in Int /\ g[y] \in Int /\ (y # x => g[y] = f[y])
  PROVE  SumFunctionOnSet(g, S) = SumFunctionOnSet(f, S) - f[x] + g[x]
<1>1. IsFiniteSet(S \ {x})
  BY FS_RemoveElement
<1>2. /\ SumFunctionOnSet(f, S) = f[x] + SumFunctionOnSet(f, S \ {x})
      /\ SumFunctionOnSet(g, S) = g[x] + SumFunctionOnSet(g, S \ {x})
  BY SumRemove
<1>3. SumFunctionOnSet(g, S \ {x}) = SumFunctionOnSet(f, S \ {x})
  BY <1>1, SumSame
<1>4. SumFunctionOnSet(f, S \ {x}) \in Int
  BY SumInt
<1> QED
  BY <1>2, <1>3, <1>4

\* Sums follow their summands.
LEMMA SumLeq ==
  ASSUME NEW S, IsFiniteSet(S), NEW f, NEW g, \A x \in S : f[x] \in Int /\ g[x] \in Int /\ f[x] <= g[x]
  PROVE  SumFunctionOnSet(f, S) <= SumFunctionOnSet(g, S)
<1> DEFINE B == {U \in SUBSET S : SumFunctionOnSet(f, U) <= SumFunctionOnSet(g, U)}
<1>1. ASSUME NEW T \in SUBSET S, \A x \in T : T \ {x} \in B PROVE T \in B
  <2>1. CASE T = {}
    BY <2>1, SumEmpty
  <2>2. CASE T # {}
    <3>1. PICK x : x \in T
      BY <2>2
    <3>2. /\ SumFunctionOnSet(f, T) = f[x] + SumFunctionOnSet(f, T \ {x})
          /\ SumFunctionOnSet(g, T) = g[x] + SumFunctionOnSet(g, T \ {x})
      BY <3>1, SumRemove
    <3>3. SumFunctionOnSet(f, T \ {x}) \in Int /\ SumFunctionOnSet(g, T \ {x}) \in Int
      BY <3>1, SumInt
    <3>4. SumFunctionOnSet(f, T \ {x}) <= SumFunctionOnSet(g, T \ {x})
      BY <1>1, <3>1
    <3> QED
      BY <3>1, <3>2, <3>3, <3>4
  <2> QED
    BY <2>1, <2>2
<1>2. B \subseteq SUBSET S
  OBVIOUS
<1>3. \A T \in SUBSET S : T \in B
  <2> HIDE DEF B
  <2> QED
    BY <1>1, <1>2, SubsetInduction
<1> QED
  BY <1>3

\* Summands that are 0 may be left out.
LEMMA SumNonzero ==
  ASSUME NEW S, IsFiniteSet(S), NEW f, \A x \in S : f[x] \in Int
  PROVE  \A U \in SUBSET S : (\A x \in S \ U : f[x] = 0) => SumFunctionOnSet(f, S) = SumFunctionOnSet(f, U)
<1> TAKE U \in SUBSET S
<1> HAVE \A x \in S \ U : f[x] = 0
<1> DEFINE W == S \ U
           B == {T \in SUBSET W : SumFunctionOnSet(f, T \cup U) = SumFunctionOnSet(f, U)}
<1>1. ASSUME NEW T \in SUBSET W, \A x \in T : T \ {x} \in B PROVE T \in B
  <2>1. CASE T = {}
    BY <2>1
  <2>2. CASE T # {}
    <3>1. PICK x : x \in T
      BY <2>2
    <3>2. (T \cup U) \ {x} = (T \ {x}) \cup U /\ x \in T \cup U /\ T \cup U \in SUBSET S /\ f[x] = 0
      BY <3>1
    <3>3. SumFunctionOnSet(f, T \cup U) = f[x] + SumFunctionOnSet(f, (T \cup U) \ {x})
      BY <3>2, SumRemove
    <3>4. SumFunctionOnSet(f, (T \cup U) \ {x}) \in Int
      BY <3>2, SumInt
    <3>5. SumFunctionOnSet(f, (T \ {x}) \cup U) = SumFunctionOnSet(f, U)
      BY <1>1, <3>1
    <3>6. SumFunctionOnSet(f, T \cup U) = SumFunctionOnSet(f, (T \cup U) \ {x})
      BY <3>2, <3>3, <3>4
    <3> QED
      BY <3>2, <3>5, <3>6
  <2> QED
    BY <2>1, <2>2
<1>2. B \subseteq SUBSET W /\ IsFiniteSet(W)
  BY FS_Difference
<1>3. \A T \in SUBSET W : T \in B
  <2> HIDE DEF B, W
  <2> QED
    BY <1>1, <1>2, SubsetInduction
<1>4. W \in B /\ W \cup U = S
  BY <1>3
<1> QED
  BY <1>4

\* A multiple of every summand, and a constant to each.
LEMMA SumAffine ==
  ASSUME NEW S, IsFiniteSet(S), NEW k \in Int, NEW c \in Int, NEW f, NEW g,
         \A x \in S : f[x] \in Int /\ g[x] = k * f[x] + c
  PROVE  SumFunctionOnSet(g, S) = k * SumFunctionOnSet(f, S) + c * Cardinality(S)
<1> DEFINE B == {U \in SUBSET S : SumFunctionOnSet(g, U) = k * SumFunctionOnSet(f, U) + c * Cardinality(U)}
<1>1. ASSUME NEW T \in SUBSET S, \A x \in T : T \ {x} \in B PROVE T \in B
  <2>1. CASE T = {}
    <3>1. k * 0 + c * 0 = 0
      OBVIOUS
    <3> QED
      BY <2>1, <3>1, SumEmpty, FS_EmptySet
  <2>2. CASE T # {}
    <3>1. PICK x : x \in T
      BY <2>2
    <3> DEFINE F == SumFunctionOnSet(f, T \ {x})
               n == Cardinality(T \ {x})
               v == f[x]
    <3>2. \A y \in S : g[y] \in Int
      OBVIOUS
    <3>3. SumFunctionOnSet(f, T) = v + F /\ SumFunctionOnSet(g, T) = k * v + c + SumFunctionOnSet(g, T \ {x})
      BY <3>1, <3>2, SumRemove
    <3>4. F \in Int /\ v \in Int
      BY <3>1, SumInt
    <3>5. Cardinality(T) \in Nat /\ n \in Nat /\ Cardinality(T) = n + 1
      BY <3>1, FS_Subset, FS_CardinalityType, FS_RemoveElement
    <3>6. SumFunctionOnSet(g, T \ {x}) = k * F + c * n
      BY <1>1, <3>1
    <3> HIDE DEF F, n, v
    <3>7. k * (v + F) + c * (n + 1) = k * v + c + (k * F + c * n)
      BY <3>4, <3>5
    <3> QED
      BY <3>3, <3>5, <3>6, <3>7
  <2> QED
    BY <2>1, <2>2
<1>2. B \subseteq SUBSET S
  OBVIOUS
<1>3. \A T \in SUBSET S : T \in B
  <2> HIDE DEF B
  <2> QED
    BY <1>1, <1>2, SubsetInduction
<1> QED
  BY <1>3

\* Nothing summed.
LEMMA ZeroSum ==
  ASSUME NEW S, IsFiniteSet(S), NEW f, \A x \in S : f[x] = 0
  PROVE  SumFunctionOnSet(f, S) = 0
<1>1. \A x \in S : f[x] \in Int /\ f[x] = 0 * f[x] + 0
  OBVIOUS
<1>2. SumFunctionOnSet(f, S) = 0 * SumFunctionOnSet(f, S) + 0 * Cardinality(S)
  BY <1>1, SumAffine
<1>3. SumFunctionOnSet(f, S) \in Int /\ Cardinality(S) \in Nat
  BY <1>1, SumInt, FS_CardinalityType
<1> QED
  BY <1>2, <1>3

\* Two sums at once.
LEMMA SumOfSums ==
  ASSUME NEW S, IsFiniteSet(S), NEW f, NEW g, NEW h,
         \A x \in S : f[x] \in Int /\ g[x] \in Int /\ h[x] = f[x] + g[x]
  PROVE  SumFunctionOnSet(h, S) = SumFunctionOnSet(f, S) + SumFunctionOnSet(g, S)
<1> DEFINE B == {U \in SUBSET S : SumFunctionOnSet(h, U) = SumFunctionOnSet(f, U) + SumFunctionOnSet(g, U)}
<1>1. ASSUME NEW T \in SUBSET S, \A x \in T : T \ {x} \in B PROVE T \in B
  <2>1. CASE T = {}
    BY <2>1, SumEmpty
  <2>2. CASE T # {}
    <3>1. PICK x : x \in T
      BY <2>2
    <3>2. \A y \in S : h[y] \in Int
      OBVIOUS
    <3>3. /\ SumFunctionOnSet(f, T) = f[x] + SumFunctionOnSet(f, T \ {x})
          /\ SumFunctionOnSet(g, T) = g[x] + SumFunctionOnSet(g, T \ {x})
          /\ SumFunctionOnSet(h, T) = h[x] + SumFunctionOnSet(h, T \ {x})
      BY <3>1, <3>2, SumRemove
    <3>4. SumFunctionOnSet(f, T \ {x}) \in Int /\ SumFunctionOnSet(g, T \ {x}) \in Int
      BY <3>1, SumInt
    <3>5. SumFunctionOnSet(h, T \ {x}) = SumFunctionOnSet(f, T \ {x}) + SumFunctionOnSet(g, T \ {x})
      BY <1>1, <3>1
    <3> QED
      BY <3>1, <3>3, <3>4, <3>5
  <2> QED
    BY <2>1, <2>2
<1>2. B \subseteq SUBSET S
  OBVIOUS
<1>3. \A T \in SUBSET S : T \in B
  <2> HIDE DEF B
  <2> QED
    BY <1>1, <1>2, SubsetInduction
<1> QED
  BY <1>3

----------------------------------------------------------------------------
\* Pots and shares, for every book.

Book == [Users -> [side : Sides, stake : Nat]]

\* Division rounds down.
LEMMA DivBounds ==
  ASSUME NEW a \in Nat, NEW d \in Nat, d > 0
  PROVE  a \div d \in Nat /\ d * (a \div d) <= a /\ a < d * (a \div d) + d
  OBVIOUS

\* A product grows with either factor.
LEMMA ProductLeq ==
  ASSUME NEW a \in Int, NEW b \in Int, NEW d \in Nat, a <= b
  PROVE  d * a <= d * b /\ a * d <= b * d /\ d * a = a * d
  OBVIOUS

\* A quotient is the largest number that fits.
LEMMA QuotientFits ==
  ASSUME NEW a \in Nat, NEW d \in Nat, d > 0, NEW q \in Int, d * q <= a
  PROVE  q <= a \div d
<1> DEFINE e == a \div d
<1>1. e \in Nat /\ a < d * e + d
  BY DivBounds
<1> HIDE DEF e
<1>2. ASSUME q > e PROVE FALSE
  <2>1. d * (e + 1) <= d * q
    BY <1>1, <1>2, ProductLeq
  <2>2. d * (e + 1) = d * e + d /\ d * e \in Int /\ d * q \in Int
    BY <1>1
  <2> QED
    BY <1>1, <2>1, <2>2
<1>3. q <= e
  BY <1>1, <1>2
<1> QED
  BY <1>3 DEF e

\* The gold on a set of bets is a number, no less than any of them, and grows with the set.
LEMMA PoolFacts ==
  ASSUME NEW b \in Book, NEW S \in SUBSET Users
  PROVE  /\ Pool(b, S) \in Nat
         /\ \A u \in S : b[u].stake <= Pool(b, S)
         /\ \A U \in SUBSET S : Pool(b, U) <= Pool(b, S)
<1> DEFINE f == [u \in S |-> b[u].stake]
<1>1. IsFiniteSet(S)
  BY UsersAssumption, FS_Subset
<1>2. \A u \in S : f[u] \in Nat
  BY DEF Book
<1>3. Pool(b, S) = SumFunctionOnSet(f, S)
  BY DEF Pool
<1>4. ASSUME NEW U \in SUBSET S PROVE Pool(b, U) \in Int /\ Pool(b, U) <= Pool(b, S)
  <2> DEFINE g == [u \in S |-> IF u \in U THEN f[u] ELSE 0]
             h == [u \in U |-> b[u].stake]
  <2>1. IsFiniteSet(U)
    BY <1>1, FS_Subset
  <2>2. \A u \in S : g[u] \in Int /\ f[u] \in Int /\ g[u] <= f[u]
    BY <1>2
  <2>3. SumFunctionOnSet(g, U) \in Int /\ SumFunctionOnSet(f, S) \in Int
    BY <1>1, <1>2, <2>2, SumInt
  <2>4. SumFunctionOnSet(g, S) = SumFunctionOnSet(g, U)
    <3>1. \A u \in S \ U : g[u] = 0
      OBVIOUS
    <3> HIDE DEF g
    <3> QED
      BY <1>1, <2>2, <3>1, SumNonzero
  <2>5. SumFunctionOnSet(g, S) <= SumFunctionOnSet(f, S)
    <3> HIDE DEF g, f
    <3> QED
      BY <1>1, <2>2, SumLeq
  <2>6. Pool(b, U) = SumFunctionOnSet(g, U)
    <3>1. \A u \in U : h[u] = g[u]
      OBVIOUS
    <3>2. SumFunctionOnSet(h, U) = SumFunctionOnSet(g, U)
      <4> HIDE DEF g, h
      <4> QED
        BY <2>1, <3>1, SumSame
    <3> QED
      BY <3>2 DEF Pool
  <2> HIDE DEF g, f
  <2> QED
    BY <1>3, <2>3, <2>4, <2>5, <2>6
<1>5. Pool(b, {}) = 0
  BY SumEmpty DEF Pool
<1>6. ASSUME NEW u \in S PROVE b[u].stake <= Pool(b, S)
  <2>1. Pool(b, {u}) = b[u].stake
    <3> DEFINE h == [v \in {u} |-> b[v].stake]
    <3>1. h[u] = b[u].stake /\ h[u] \in Int
      BY <1>2
    <3>2. SumFunctionOnSet(h, {u}) = h[u]
      <4> HIDE DEF h
      <4> QED
        BY <3>1, SumOne
    <3> QED
      BY <3>1, <3>2 DEF Pool
  <2> QED
    BY <1>4, <2>1
<1> QED
  BY <1>4, <1>5, <1>6

\* A side with somebody on it has gold on it, and no more than the book.
LEMMA PotFacts ==
  ASSUME NEW b \in Book, NEW w, Backers(b, w) # {}
  PROVE  /\ Backers(b, w) \subseteq Bettors(b) /\ Bettors(b) \subseteq Users
         /\ Pool(b, Backers(b, w)) \in Nat /\ Pool(b, Backers(b, w)) > 0
         /\ Pool(b, Bettors(b)) \in Nat /\ Pool(b, Bettors(b)) >= Pool(b, Backers(b, w))
<1>1. Backers(b, w) \subseteq Bettors(b) /\ Bettors(b) \subseteq Users
  BY DEF Backers, Bettors
<1>2. PICK u \in Backers(b, w) : b[u].stake > 0
  BY DEF Backers, Bettors
<1>3. b[u].stake <= Pool(b, Backers(b, w)) /\ b[u].stake \in Nat
  BY <1>1, <1>2, PoolFacts DEF Book
<1>4. Pool(b, Backers(b, w)) \in Nat /\ Pool(b, Bettors(b)) \in Nat /\ Pool(b, Bettors(b)) >= Pool(b, Backers(b, w))
  BY <1>1, PoolFacts
<1> QED
  BY <1>1, <1>2, <1>3, <1>4

\* A share, without the division.
LEMMA ShareBounds ==
  ASSUME NEW b \in Book, NEW w, Backers(b, w) # {}, NEW u \in Users
  PROVE  LET d == Pool(b, Backers(b, w))
             a == b[u].stake * Pool(b, Bettors(b))
         IN  /\ a \in Nat /\ Share(b, w, u) \in Nat /\ Share(b, w, u) = a \div d
             /\ d * Share(b, w, u) <= a /\ a < d * Share(b, w, u) + d
<1> DEFINE d == Pool(b, Backers(b, w))
           p == Pool(b, Bettors(b))
           a == b[u].stake * p
<1>1. d \in Nat /\ d > 0 /\ p \in Nat
  BY PotFacts
<1>2. a \in Nat
  BY <1>1 DEF Book
<1>3. Share(b, w, u) = a \div d
  BY DEF Share
<1> HIDE DEF a, d
<1>4. a \div d \in Nat /\ d * (a \div d) <= a /\ a < d * (a \div d) + d
  BY <1>1, <1>2, DivBounds
<1> QED
  BY <1>2, <1>3, <1>4 DEF a, d

\* Whoever backed the winner gets the stake back at least.
LEMMA ShareCoversStake ==
  ASSUME NEW b \in Book, NEW w, Backers(b, w) # {}, NEW u \in Users
  PROVE  Share(b, w, u) >= b[u].stake
<1> DEFINE d == Pool(b, Backers(b, w))
           p == Pool(b, Bettors(b))
           s == b[u].stake
<1>1. d \in Nat /\ d > 0 /\ p \in Nat /\ d <= p /\ s \in Nat
  BY PotFacts DEF Book
<1>2. s * p \in Nat /\ Share(b, w, u) = (s * p) \div d
  BY ShareBounds
<1> HIDE DEF d, p, s
<1>3. d * s <= s * p
  BY <1>1, ProductLeq
<1>4. s <= (s * p) \div d
  BY <1>1, <1>2, <1>3, QuotientFits
<1> QED
  BY <1>1, <1>2, <1>4 DEF s

\* A larger stake on the same side is paid no less.
LEMMA ShareGrowsWithStake ==
  ASSUME NEW b \in Book, NEW w, Backers(b, w) # {}, NEW u \in Users, NEW v \in Users,
         b[u].stake <= b[v].stake
  PROVE  Share(b, w, u) <= Share(b, w, v)
<1> DEFINE d == Pool(b, Backers(b, w))
           p == Pool(b, Bettors(b))
           s == b[u].stake
           t == b[v].stake
           q == Share(b, w, u)
<1>1. d \in Nat /\ d > 0 /\ p \in Nat /\ s \in Nat /\ t \in Nat /\ s <= t
  BY PotFacts DEF Book
<1>2. q \in Nat /\ s * p \in Nat /\ d * q <= s * p
  BY ShareBounds
<1>3. t * p \in Nat /\ Share(b, w, v) = (t * p) \div d
  BY ShareBounds
<1> HIDE DEF d, p, s, t, q
<1>4. s * p <= t * p
  BY <1>1, ProductLeq
<1>5. d * q <= t * p /\ d * q \in Int
  BY <1>1, <1>2, <1>3, <1>4
<1>6. q <= (t * p) \div d
  BY <1>1, <1>2, <1>3, <1>5, QuotientFits
<1> QED
  BY <1>3, <1>6 DEF q

\* The shares of the winners do not exceed the pot, and leave fewer coins than there are winners.
LEMMA SharesFitPot ==
  ASSUME NEW b \in Book, NEW w, Winners(b, w) # {}
  PROVE  /\ SumFunctionOnSet([u \in Users |-> Share(b, w, u)], Winners(b, w)) \in Int
         /\ Burned(b, w) \in Int /\ Burned(b, w) >= 0 /\ Burned(b, w) < Cardinality(Winners(b, w))
<1> DEFINE W == Winners(b, w)
           d == Pool(b, W)
           p == Pool(b, Bettors(b))
           f == [u \in Users |-> Share(b, w, u)]
           s == [u \in W |-> b[u].stake]
           a == [u \in W |-> b[u].stake * p]
           n == Cardinality(W)
           F == SumFunctionOnSet(f, W)
           A == SumFunctionOnSet(a, W)
<1>1. W = Backers(b, w) /\ W # {} /\ W \subseteq Users /\ IsFiniteSet(W)
  BY UsersAssumption, FS_Subset DEF Winners, Backers, Bettors
<1>2. d \in Nat /\ d > 0 /\ p \in Nat /\ d = SumFunctionOnSet(s, W)
  BY <1>1, PotFacts DEF Pool
<1>3. n \in Nat /\ n > 0
  BY <1>1, FS_CardinalityType, FS_EmptySet
<1>4. ASSUME NEW u \in W
      PROVE  s[u] \in Int /\ f[u] \in Int /\ a[u] \in Int /\ d * f[u] <= a[u] /\ a[u] < d * f[u] + d /\ p * s[u] = a[u]
  <2>1. u \in Users /\ b[u].stake \in Nat
    BY <1>1 DEF Book
  <2>2. /\ f[u] \in Nat /\ b[u].stake * p \in Nat
        /\ d * f[u] <= b[u].stake * p /\ b[u].stake * p < d * f[u] + d
    BY <1>1, <2>1, ShareBounds
  <2>3. p * b[u].stake = b[u].stake * p
    BY <1>2, <2>1
  <2> QED
    BY <2>1, <2>2, <2>3
<1>5. F \in Int /\ A \in Int
  BY <1>1, <1>4, SumInt
<1>6. A = p * d
  <2>1. \A u \in W : s[u] \in Int /\ a[u] = p * s[u] + 0
    <3> HIDE DEF s, a, W, p, d, f
    <3> QED
      BY <1>2, <1>4
  <2>2. A = p * SumFunctionOnSet(s, W) + 0 * n
    <3> HIDE DEF s, a, W, p
    <3> QED
      BY <1>1, <1>2, <2>1, SumAffine
  <2> QED
    BY <1>2, <1>3, <2>2
<1> DEFINE Times(c) == [u \in W |-> d * f[u] + c]
<1>7. \A c \in Int : SumFunctionOnSet(Times(c), W) = d * F + c * n
  <2> TAKE c \in Int
  <2> DEFINE g == Times(c)
  <2>1. \A u \in W : f[u] \in Int /\ g[u] = d * f[u] + c
    BY <1>4
  <2> HIDE DEF f, W, d, g
  <2>2. IsFiniteSet(W) /\ d \in Int
    BY <1>1, <1>2
  <2>3. SumFunctionOnSet(g, W) = d * SumFunctionOnSet(f, W) + c * Cardinality(W)
    BY <2>1, <2>2, SumAffine
  <2> QED
    BY <2>3 DEF g
<1>8. d * F <= A /\ A <= d * F + (d - 1) * n
  <2> DEFINE g == Times(0)
             h == Times(d - 1)
  <2>1. \A u \in W : a[u] \in Int /\ g[u] \in Int /\ h[u] \in Int /\ g[u] <= a[u] /\ a[u] <= h[u]
    BY <1>2, <1>4
  <2>2. SumFunctionOnSet(g, W) = d * F + 0 * n /\ SumFunctionOnSet(h, W) = d * F + (d - 1) * n
    <3>1. 0 \in Int /\ d - 1 \in Int
      BY <1>2
    <3> HIDE DEF Times, F, n, d, W
    <3> QED
      BY <1>7, <3>1
  <2>3. SumFunctionOnSet(g, W) <= A /\ A <= SumFunctionOnSet(h, W)
    <3> HIDE DEF g, h, a, W
    <3> QED
      BY <1>1, <2>1, SumLeq
  <2>4. d * F + 0 * n = d * F
    BY <1>2, <1>3, <1>5
  <2> QED
    BY <2>2, <2>3, <2>4
<1> HIDE DEF F, A, d, p, n
<1>9. F <= p
  <2>1. ASSUME F > p PROVE FALSE
    <3>1. d * (p + 1) <= d * F
      BY <1>2, <1>5, <2>1, ProductLeq
    <3>2. d * (p + 1) = p * d + d /\ p * d \in Int /\ d * F \in Int
      BY <1>2, <1>5
    <3> QED
      BY <1>2, <1>5, <1>6, <1>8, <3>1, <3>2
  <2> QED
    BY <1>2, <1>5, <2>1
<1>10. p - F < n
  <2>1. ASSUME p - F >= n PROVE FALSE
    <3>1. d * n <= d * (p - F)
      BY <1>2, <1>3, <1>5, <2>1, ProductLeq
    <3>2. d * (p - F) = p * d - d * F /\ (d - 1) * n = d * n - n
      BY <1>2, <1>3, <1>5
    <3>3. p * d \in Int /\ d * F \in Int /\ d * n \in Int
      BY <1>2, <1>3, <1>5
    <3> QED
      BY <1>2, <1>3, <1>5, <1>6, <1>8, <3>1, <3>2, <3>3
  <2> QED
    BY <1>2, <1>3, <1>5, <2>1
<1>11. Burned(b, w) = p - F
  BY <1>1 DEF Burned, F, p
<1> QED
  BY <1>2, <1>5, <1>9, <1>10, <1>11 DEF F, n
----------------------------------------------------------------------------
\* The odds of one open book.

\* No bet at all is a book.
LEMMA BookInit == OddsInit => book \in Book
<1>1. NoStake \in [side : Sides, stake : Nat]
  BY DEF NoStake, Sides
<1> QED
  BY <1>1 DEF OddsInit, Book

\* A press adds a positive stake to its user's, on the side it was on.
LEMMA PressedBook ==
  ASSUME book \in Book, NEW v \in Users, NEW side \in Sides, NEW stake \in 1..MaxStake, PlaceBet(v, side, stake)
  PROVE  /\ book' \in Book
         /\ book[v].stake > 0 => book[v].side = side
         /\ book'[v] = [side |-> side, stake |-> book[v].stake + stake]
         /\ \A u \in Users \ {v} : book'[u] = book[u]
<1>1. book[v] \in [side : Sides, stake : Nat] /\ stake \in Nat
  BY DEF Book
<1>2. [side |-> side, stake |-> book[v].stake + stake] \in [side : Sides, stake : Nat]
  BY <1>1
<1> QED
  BY <1>2 DEF PlaceBet, Book

\* A book stays a book.
LEMMA BookNext == book \in Book /\ [OddsNext]_book => (book \in Book)'
<1> SUFFICES ASSUME book \in Book, [OddsNext]_book PROVE book' \in Book
  OBVIOUS
<1>1. ASSUME NEW v \in Users, NEW side \in Sides, NEW stake \in 1..MaxStake, PlaceBet(v, side, stake)
      PROVE  book' \in Book
  BY <1>1, PressedBook
<1>2. ASSUME NEW v \in Users, CancelPress(v) PROVE book' \in Book
  <2>1. NoStake \in [side : Sides, stake : Nat]
    BY DEF NoStake, Sides
  <2> QED
    BY <1>2, <2>1 DEF CancelPress, Book
<1> QED
  BY <1>1, <1>2 DEF OddsNext

\* However many coins the floors burn: no gold from nowhere, no winner loses, no larger stake is paid less.
THEOREM PotIsFair == OddsSpec => []FairPot
<1>1. ASSUME book \in Book PROVE FairPot
  <2>1. ASSUME NEW w \in Sides
        PROVE  /\ Burned(book, w) >= 0 /\ (Winners(book, w) # {} => Burned(book, w) < Cardinality(Winners(book, w)))
               /\ \A u \in Winners(book, w) :
                    /\ Share(book, w, u) >= book[u].stake
                    /\ \A v \in Winners(book, w) : book[u].stake <= book[v].stake => Share(book, w, u) <= Share(book, w, v)
    <3>1. CASE Winners(book, w) = {}
      BY <3>1 DEF Burned
    <3>2. CASE Winners(book, w) # {}
      <4>1. Backers(book, w) # {} /\ Winners(book, w) \subseteq Users
        BY <3>2 DEF Winners, Backers, Bettors
      <4> QED
        BY <1>1, <3>2, <4>1, ShareCoversStake, ShareGrowsWithStake, SharesFitPot
    <3> QED
      BY <3>1, <3>2
  <2> QED
    BY <2>1 DEF FairPot
<1> QED
  BY BookInit, BookNext, <1>1, PTL DEF OddsSpec

\* A press adds its stake to the gold on every set its user is on or joins.
LEMMA PoolPressed ==
  ASSUME NEW b \in Book, NEW c \in Book, NEW v \in Users, NEW l \in Int,
         c[v].stake = b[v].stake + l, \A u \in Users \ {v} : c[u] = b[u],
         NEW S \in SUBSET Users, v \in S \/ b[v].stake = 0
  PROVE  Pool(c, S \cup {v}) = Pool(b, S) + l
<1> DEFINE T == S \cup {v}
           f == [u \in T |-> b[u].stake]
           g == [u \in T |-> c[u].stake]
           h == [u \in S |-> b[u].stake]
<1>1. T \subseteq Users /\ IsFiniteSet(T) /\ IsFiniteSet(S)
  BY UsersAssumption, FS_Subset
<1>2. \A u \in T : f[u] \in Int /\ g[u] \in Int /\ (u # v => g[u] = f[u])
  BY <1>1 DEF Book
<1>3. v \in T /\ g[v] = f[v] + l /\ (\A u \in S : h[u] = f[u]) /\ (\A u \in T \ S : f[u] = 0) /\ S \subseteq T
  OBVIOUS
<1>4. Pool(c, T) = SumFunctionOnSet(g, T) /\ Pool(b, S) = SumFunctionOnSet(h, S)
  BY DEF Pool
<1> HIDE DEF f, g, h, T
<1>5. SumFunctionOnSet(g, T) = SumFunctionOnSet(f, T) - f[v] + g[v]
  BY <1>1, <1>2, <1>3, SumChange
<1>6. SumFunctionOnSet(f, T) = SumFunctionOnSet(f, S)
  BY <1>1, <1>2, <1>3, SumNonzero
<1>7. SumFunctionOnSet(h, S) = SumFunctionOnSet(f, S)
  BY <1>1, <1>3, SumSame
<1>8. SumFunctionOnSet(f, T) \in Int /\ f[v] \in Int
  BY <1>1, <1>2, <1>3, SumInt
<1> QED
  BY <1>3, <1>4, <1>5, <1>6, <1>7, <1>8 DEF T

\* Gold that joins both the pot and the winners' pool lowers the quotient, as the pot is the larger.
LEMMA QuotientDiluted ==
  ASSUME NEW s \in Nat, NEW p \in Nat, NEW d \in Nat, NEW l \in Nat, d > 0, d <= p
  PROVE  (s * (p + l)) \div (d + l) <= (s * p) \div d
<1> DEFINE q == (s * (p + l)) \div (d + l)
<1>1. s * (p + l) \in Nat /\ s * (p + l) = s * p + s * l /\ s * p \in Nat /\ s * l \in Nat /\ d + l \in Nat /\ d + l > 0
  OBVIOUS
<1>2. q \in Nat /\ (d + l) * q <= s * (p + l)
  BY <1>1, DivBounds
<1> HIDE DEF q
<1>3. (d + l) * q = d * q + l * q /\ d * q \in Nat /\ l * q \in Nat
  BY <1>2
<1>4. d * q <= s * p
  <2>1. CASE q <= s
    <3>1. d * q <= d * s /\ d * s = s * d /\ s * d \in Nat
      BY <1>2, <2>1, ProductLeq
    <3>2. s * d <= s * p
      BY ProductLeq
    <3> QED
      BY <1>1, <1>3, <3>1, <3>2
  <2>2. CASE s <= q
    <3>1. l * s <= l * q /\ l * s = s * l
      BY <1>2, <2>2, ProductLeq
    <3> QED
      BY <1>1, <1>2, <1>3, <3>1
  <2> QED
    BY <1>2, <2>1, <2>2
<1>5. q <= (s * p) \div d
  BY <1>1, <1>2, <1>4, QuotientFits
<1> QED
  BY <1>5 DEF q

\* A press against a winner raises the pot alone.
LEMMA QuotientGrows ==
  ASSUME NEW s \in Nat, NEW p \in Nat, NEW d \in Nat, NEW l \in Nat, d > 0
  PROVE  (s * (p + l)) \div d >= (s * p) \div d
<1> DEFINE q == (s * p) \div d
<1>1. s * (p + l) \in Nat /\ s * p \in Nat /\ s * p <= s * (p + l)
  BY ProductLeq
<1>2. q \in Nat /\ d * q <= s * p /\ d * q \in Nat
  BY <1>1, DivBounds
<1> HIDE DEF q
<1>3. q <= (s * (p + l)) \div d
  BY <1>1, <1>2, QuotientFits
<1>4. (s * (p + l)) \div d \in Nat
  BY <1>1, DivBounds
<1> QED
  BY <1>2, <1>3, <1>4 DEF q

\* What one press does to the share of somebody else who backs w.
LEMMA ShareAfterPress ==
  ASSUME NEW b \in Book, NEW c \in Book, NEW v \in Users, NEW side, NEW l \in Nat, l > 0,
         c[v] = [side |-> side, stake |-> b[v].stake + l], b[v].stake > 0 => b[v].side = side,
         \A u \in Users \ {v} : c[u] = b[u],
         NEW w, NEW u \in Backers(b, w), u # v
  PROVE  IF side = w THEN Share(c, w, u) <= Share(b, w, u) ELSE Share(c, w, u) >= Share(b, w, u)
<1> DEFINE s == b[u].stake
           p == Pool(b, Bettors(b))
           d == Pool(b, Backers(b, w))
<1>1. u \in Users /\ c[u] = b[u] /\ s \in Nat
  BY DEF Backers, Bettors, Book
<1>2. d \in Nat /\ d > 0 /\ p \in Nat /\ d <= p /\ Bettors(b) \subseteq Users /\ Backers(b, w) \subseteq Bettors(b)
  BY PotFacts
<1>3. b[v].stake \in Nat /\ c[v].side = side /\ c[v].stake = b[v].stake + l /\ c[v].stake > 0
  BY DEF Book
<1>4. /\ Bettors(c) = Bettors(b) \cup {v}
      /\ v \in Bettors(b) \/ b[v].stake = 0
  BY <1>3 DEF Bettors, Book
<1>5. Pool(c, Bettors(c)) = p + l
  BY <1>2, <1>3, <1>4, PoolPressed
<1>6. Share(b, w, u) = (s * p) \div d /\ Share(c, w, u) = (s * (p + l)) \div Pool(c, Backers(c, w))
  BY <1>1, <1>5 DEF Share
<1>7. CASE side = w
  <2>1. Backers(c, w) = Backers(b, w) \cup {v} /\ (v \in Backers(b, w) \/ b[v].stake = 0)
    BY <1>3, <1>4, <1>7 DEF Backers, Bettors, Book
  <2>2. Pool(c, Backers(c, w)) = d + l
    BY <1>2, <1>3, <2>1, PoolPressed
  <2> HIDE DEF s, p, d
  <2> QED
    BY <1>1, <1>2, <1>6, <1>7, <2>2, QuotientDiluted
<1>8. CASE side # w
  <2>1. Backers(c, w) = Backers(b, w) /\ v \notin Backers(b, w)
    BY <1>3, <1>4, <1>8 DEF Backers, Bettors, Book
  <2>2. [x \in Backers(c, w) |-> c[x].stake] = [x \in Backers(b, w) |-> b[x].stake]
    BY <1>2, <2>1
  <2>3. Pool(c, Backers(c, w)) = d
    BY <2>1, <2>2 DEF Pool
  <2> HIDE DEF s, p, d
  <2> QED
    BY <1>1, <1>2, <1>6, <1>8, <2>3, QuotientGrows
<1> QED
  BY <1>7, <1>8

\* Whatever stands on the book, a press moves every other winner's odds the way the card says.
THEOREM PressMovesOdds == OddsSpec => OddsMove
<1> DEFINE Moves == \A v \in Users, side \in Sides, stake \in 1..MaxStake :
             PlaceBet(v, side, stake) =>
               \A w \in Sides : \A u \in Winners(book, w) \ {v} :
                 IF side = w THEN Share(book', w, u) <= Share(book, w, u)
                             ELSE Share(book', w, u) >= Share(book, w, u)
<1>1. book \in Book => Moves
  <2> SUFFICES ASSUME book \in Book, NEW v \in Users, NEW side \in Sides, NEW stake \in 1..MaxStake,
                      PlaceBet(v, side, stake), NEW w \in Sides, NEW u \in Winners(book, w) \ {v}
               PROVE  IF side = w THEN Share(book', w, u) <= Share(book, w, u)
                                  ELSE Share(book', w, u) >= Share(book, w, u)
    OBVIOUS
  <2>1. u \in Backers(book, w) /\ u # v
    BY DEF Winners
  <2>2. /\ book' \in Book
        /\ book[v].stake > 0 => book[v].side = side
        /\ book'[v] = [side |-> side, stake |-> book[v].stake + stake]
        /\ \A x \in Users \ {v} : book'[x] = book[x]
    BY PressedBook
  <2>3. stake \in Nat /\ stake > 0
    OBVIOUS
  <2>4. IF side = w THEN Share(book', w, u) <= Share(book, w, u) ELSE Share(book', w, u) >= Share(book, w, u)
    BY <2>1, <2>2, <2>3, ShareAfterPress
  <2> QED
    BY <2>4
<1>2. book \in Book /\ [OddsNext]_book => [Moves]_book
  BY <1>1
<1> QED
  BY BookInit, BookNext, <1>2, PTL DEF OddsSpec, OddsMove
----------------------------------------------------------------------------
\* The weekly tax.

\* What the argument needs of the types: stakes are numbers, whatever gold does.
PostRow == [status : {"none", "open", "closed"}, verdict : Sides \cup {"none", "refund"},
            opened : Nat, closed : Nat]
StakesTyped ==
  /\ week \in Nat
  /\ bet \in [PostIds -> [Users -> [side : Sides, stake : Nat]]]
  /\ post \in [PostIds -> PostRow]
  /\ offered \in [Users -> SUBSET Nat]
  /\ \A x \in sent : x.user \in Users /\ x.post \in PostIds /\ x.side \in Sides /\ x.stake \in Nat

\* Nobody is taxed for a week that is not over.
TaxesAreLate == \A r \in ledger : r.kind = "tax" => r.user \in Users /\ r.ref \in Nat /\ r.ref <= week

SpareInv == StakesTyped /\ TaxesAreLate /\ BettorsAreSpared

\* No row of these kinds is a tax row.
LEMMA NoNewTax ==
  ASSUME NEW r, r.kind # "tax", ledger' = ledger \cup {r}
  PROVE  \A s \in ledger' : s.kind = "tax" => s \in ledger
  OBVIOUS

\* Steps that leave books, bets and the week alone and levy no tax.
LEMMA LedgerFrame ==
  ASSUME SpareInv, UNCHANGED <<bet, post, week>>,
         offered' \in [Users -> SUBSET Nat],
         \A x \in sent' : x.user \in Users /\ x.post \in PostIds /\ x.side \in Sides /\ x.stake \in Nat,
         \A r \in ledger' : r.kind = "tax" => r \in ledger
  PROVE  SpareInv'
  BY DEF SpareInv, StakesTyped, TaxesAreLate, BettorsAreSpared

\* Steps that change the bets of an open book only.
LEMMA BetFrame ==
  ASSUME SpareInv, NEW p \in PostIds, NEW u \in Users, post[p].status = "open",
         NEW b \in [side : Sides, stake : Nat], bet' = [bet EXCEPT ![p][u] = b],
         offered' \in [Users -> SUBSET Nat], UNCHANGED <<post, week, sent>>,
         \A r \in ledger' : r.kind = "tax" => r \in ledger
  PROVE  SpareInv'
<1>1. bet' \in [PostIds -> [Users -> [side : Sides, stake : Nat]]]
  BY DEF SpareInv, StakesTyped
<1>2. \A q \in PostIds : q # p => bet'[q] = bet[q]
  BY DEF SpareInv, StakesTyped
<1>3. BettorsAreSpared'
  BY <1>2 DEF SpareInv, BettorsAreSpared
<1> QED
  BY <1>1, <1>3 DEF SpareInv, StakesTyped, TaxesAreLate

\* At the start nobody has been taxed.
LEMMA InitSpare == Init => SpareInv
  BY DEF Init, SpareInv, StakesTyped, TaxesAreLate, BettorsAreSpared, NoBet, NoPost, PostRow, Sides

\* The credits: seeds, settlements and faucets.
LEMMA CreditStep ==
  ASSUME SpareInv, NEW kind, NEW ref, NEW u, NEW p, NEW amount, kind # "tax",
         CreditRow(Row(kind, ref, u, p, amount)), UNCHANGED <<bet, post, week, offered, sent>>
  PROVE  SpareInv'
<1>1. ledger' = ledger \cup {Row(kind, ref, u, p, amount)} /\ Row(kind, ref, u, p, amount).kind = kind
  BY DEF CreditRow, Apply, Row
<1>2. \A r \in ledger' : r.kind = "tax" => r \in ledger
  BY <1>1
<1> QED
  BY <1>2, LedgerFrame DEF SpareInv, StakesTyped

\* The buttons offer numbers.
LEMMA ButtonsType ==
  ASSUME SpareInv, NEW u \in Users, NEW gold, offered' = [offered EXCEPT ![u] = @ \cup Buttons(gold)]
  PROVE  offered' \in [Users -> SUBSET Nat]
<1>1. Buttons(gold) \subseteq Nat
  BY AmountsAssumption DEF Buttons
<1> QED
  BY <1>1 DEF SpareInv, StakesTyped

\* A press that lands on an open book, or is refused.
LEMMA DeliverStep ==
  ASSUME SpareInv, NEW x \in sent, Deliver(x)
  PROVE  SpareInv'
<1> DEFINE takes == Fresh("bet", x.id, x.user) /\ x.stake \in StakeOptions(balance[x.user])
           b == Added(bet[x.post][x.user], x)
<1>1. x.user \in Users /\ x.post \in PostIds /\ x.side \in Sides /\ x.stake \in Nat
  BY DEF SpareInv, StakesTyped
<1>2. /\ post[x.post].status = "open"
      /\ offered' = [offered EXCEPT ![x.user] = @ \cup Buttons(balance'[x.user])]
      /\ UNCHANGED <<post, week, sent>>
  BY DEF Deliver, AcceptsBets
<1>3. offered' \in [Users -> SUBSET Nat]
  BY <1>1, <1>2, ButtonsType
<1>4. CASE takes
  <2>1. /\ ledger' = ledger \cup {Row("bet", x.id, x.user, x.post, -x.stake)}
        /\ bet' = [bet EXCEPT ![x.post][x.user] = b]
    BY <1>4 DEF Deliver, Apply
  <2>2. \A r \in ledger' : r.kind = "tax" => r \in ledger
    BY <2>1 DEF Row
  <2>3. b \in [side : Sides, stake : Nat]
    BY <1>1 DEF Added, SpareInv, StakesTyped
  <2> HIDE DEF b
  <2> QED
    BY <1>1, <1>2, <1>3, <2>1, <2>2, <2>3, BetFrame
<1>5. CASE ~takes
  <2>1. UNCHANGED <<ledger, bet>>
    BY <1>5 DEF Deliver
  <2> QED
    BY <1>2, <1>3, <2>1, LedgerFrame DEF SpareInv, StakesTyped
<1> QED
  BY <1>4, <1>5

\* A cancellation, while the book is open.
LEMMA CancelStep ==
  ASSUME SpareInv, NEW u \in Users, NEW p \in PostIds, CancelBet(u, p)
  PROVE  SpareInv'
<1>1. /\ post[p].status = "open" /\ bet' = [bet EXCEPT ![p][u] = NoBet]
      /\ UNCHANGED <<ledger, offered, post, week, sent>>
  BY DEF CancelBet, AcceptsBets
<1>2. NoBet \in [side : Sides, stake : Nat]
  BY DEF NoBet, Sides
<1>3. offered' \in [Users -> SUBSET Nat]
  BY <1>1 DEF SpareInv, StakesTyped
<1> QED
  BY <1>1, <1>2, <1>3, BetFrame

\* A book closes in the week that is running, which nobody has been taxed for.
LEMMA CloseStep ==
  ASSUME SpareInv, NEW p \in PostIds, NEW verdict \in Sides \cup {"refund"}, CloseBook(p, verdict)
  PROVE  SpareInv'
<1>1. /\ post' = [post EXCEPT ![p].status = "closed", ![p].verdict = verdict, ![p].closed = week]
      /\ UNCHANGED <<ledger, bet, offered, week, sent>>
  BY DEF CloseBook
<1>2. post' \in [PostIds -> PostRow]
  <2>1. \A r \in PostRow : [r EXCEPT !.status = "closed", !.verdict = verdict, !.closed = week] \in PostRow
    BY DEF PostRow, SpareInv, StakesTyped
  <2> QED
    BY <1>1, <2>1 DEF SpareInv, StakesTyped
<1>3. post'[p].closed = week /\ \A q \in PostIds : q # p => post'[q] = post[q]
  BY <1>1 DEF SpareInv, StakesTyped, PostRow
<1>4. BettorsAreSpared'
  BY <1>1, <1>3 DEF SpareInv, StakesTyped, TaxesAreLate, BettorsAreSpared
<1> QED
  BY <1>1, <1>2, <1>4 DEF SpareInv, StakesTyped, TaxesAreLate

\* A new book is open.
LEMMA OpenStep ==
  ASSUME SpareInv, NEW p \in PostIds, OpenBook(p)
  PROVE  SpareInv'
<1>1. /\ post' = [post EXCEPT ![p] = [NoPost EXCEPT !.status = "open", !.opened = week]]
      /\ UNCHANGED <<ledger, bet, offered, week, sent>>
  BY DEF OpenBook
<1>2. post' \in [PostIds -> PostRow]
  BY <1>1 DEF SpareInv, StakesTyped, NoPost, PostRow
<1>3. post'[p].status = "open" /\ \A q \in PostIds : q # p => post'[q] = post[q]
  BY <1>1 DEF SpareInv, StakesTyped, NoPost, PostRow
<1>4. BettorsAreSpared'
  BY <1>1, <1>3 DEF SpareInv, BettorsAreSpared
<1> QED
  BY <1>1, <1>2, <1>4 DEF SpareInv, StakesTyped, TaxesAreLate

\* Whoever pays for a week had nothing on a book that closed in it.
LEMMA TaxStep ==
  ASSUME SpareInv, NEW k \in 0..MaxWeek, RunTax(k)
  PROVE  SpareInv'
<1>1. /\ week = k /\ UNCHANGED <<bet, post, offered, sent, week>>
      /\ ledger' = ledger \cup {Row("tax", k, u, 0, -Tax(u, k)) : u \in {v \in Users : Tax(v, k) > 0}}
  BY DEF RunTax, Due
<1>2. ASSUME NEW u \in Users, Tax(u, k) > 0, NEW p \in PostIds, post[p].status = "closed", post[p].closed = k - 1
      PROVE  bet[p][u].stake = 0
  <2>1. ~Participated(u, k)
    <3>1. ASSUME Participated(u, k) PROVE Tax(u, k) = 0
      BY <3>1 DEF Tax, TaxAmount
    <3> QED
      BY <1>2, <3>1
  <2>2. ~(bet[p][u].stake > 0) /\ bet[p][u].stake \in Nat
    BY <1>2, <2>1 DEF Participated, SpareInv, StakesTyped
  <2> QED
    BY <2>2
<1>3. ASSUME NEW r \in ledger', r.kind = "tax"
      PROVE  /\ r.user \in Users /\ r.ref \in Nat /\ r.ref <= week
             /\ \A p \in PostIds : post[p].status = "closed" /\ post[p].closed = r.ref - 1 => bet[p][r.user].stake = 0
  <2>1. CASE r \in ledger
    BY <1>3, <2>1 DEF SpareInv, TaxesAreLate, BettorsAreSpared
  <2>2. CASE r \notin ledger
    <3>1. PICK u \in Users : Tax(u, k) > 0 /\ r = Row("tax", k, u, 0, -Tax(u, k))
      BY <1>1, <2>2
    <3>2. r.user = u /\ r.ref = k
      BY <3>1 DEF Row
    <3> QED
      BY <1>1, <1>2, <3>1, <3>2
  <2> QED
    BY <2>1, <2>2
<1>4. TaxesAreLate' /\ BettorsAreSpared'
  BY <1>1, <1>3 DEF TaxesAreLate, BettorsAreSpared
<1> QED
  BY <1>1, <1>4 DEF SpareInv, StakesTyped

\* A press is one of the buttons offered.
LEMMA PressStep ==
  ASSUME SpareInv, NEW u \in Users, NEW p \in PostIds, NEW side \in Sides, NEW stake \in offered[u],
         Press(u, p, side, stake)
  PROVE  SpareInv'
<1> DEFINE x == [id |-> Cardinality(sent) + 1, user |-> u, post |-> p, side |-> side, stake |-> stake]
<1>1. sent' = sent \cup {x} /\ UNCHANGED <<ledger, bet, offered, post, week>>
  BY DEF Press
<1>2. x.user \in Users /\ x.post \in PostIds /\ x.side \in Sides /\ x.stake \in Nat
  BY DEF SpareInv, StakesTyped
<1> HIDE DEF x
<1> QED
  BY <1>1, <1>2, LedgerFrame DEF SpareInv, StakesTyped

\* A new chooser.
LEMMA ChooseStep ==
  ASSUME SpareInv, NEW u \in Users, Choose(u)
  PROVE  SpareInv'
<1>1. offered' = [offered EXCEPT ![u] = @ \cup Buttons(balance[u])] /\ UNCHANGED <<ledger, bet, sent, post, week>>
  BY DEF Choose
<1>2. offered' \in [Users -> SUBSET Nat]
  BY <1>1, ButtonsType
<1> QED
  BY <1>1, <1>2, LedgerFrame DEF SpareInv, StakesTyped

\* Everything a user sets off.
LEMMA UserSpare ==
  ASSUME SpareInv, NEW u \in Users, UserStep(u)
  PROVE  SpareInv'
<1>1. CASE EnsureSeeded(u)
  BY <1>1, CreditStep DEF EnsureSeeded
<1>2. ASSUME NEW m \in MatchIds, GrantMatchReward(u, m) PROVE SpareInv'
  BY <1>2, CreditStep DEF GrantMatchReward
<1>3. ASSUME NEW q \in QuizIds, NEW correct \in BOOLEAN, GrantQuizReward(u, q, correct) PROVE SpareInv'
  BY <1>3, CreditStep DEF GrantQuizReward
<1>4. ASSUME NEW p \in PostIds, SettleUser(p, u) PROVE SpareInv'
  BY <1>4, CreditStep DEF SettleUser
<1> QED
  BY <1>1, <1>2, <1>3, <1>4, ChooseStep, CancelStep, PressStep DEF UserStep

\* A cutoff passes.
LEMMA CutoffStep == SpareInv /\ Cutoff => SpareInv'
  BY DEF Cutoff, SpareInv, StakesTyped, TaxesAreLate, BettorsAreSpared

\* Every step keeps the invariant.
LEMMA NextSpare == SpareInv /\ [Next]_vars => SpareInv'
<1> SUFFICES ASSUME SpareInv, [Next]_vars PROVE SpareInv'
  OBVIOUS
<1>1. CASE \E u \in Users : UserStep(u)
  BY <1>1, UserSpare
<1>2. ASSUME NEW p \in PostIds, OpenBook(p) PROVE SpareInv'
  BY <1>2, OpenStep
<1>3. ASSUME NEW p \in PostIds, NEW v \in Sides \cup {"refund"}, CloseBook(p, v) PROVE SpareInv'
  BY <1>3, CloseStep
<1>4. CASE \E x \in sent : Deliver(x)
  BY <1>4, DeliverStep
<1>5. CASE Cutoff
  BY <1>5, CutoffStep
<1>6. CASE \E k \in 0..MaxWeek : RunTax(k)
  BY <1>6, TaxStep
<1>7. CASE UNCHANGED vars
  BY <1>7, LedgerFrame DEF vars, SpareInv, StakesTyped
<1> QED
  BY <1>1, <1>2, <1>3, <1>4, <1>5, <1>6, <1>7 DEF Next

\* Nobody whose stake was still placed when a book closed is ever taxed for that week.
THEOREM BettorsSpared == Spec => []BettorsAreSpared
<1>1. SpareInv => BettorsAreSpared
  BY DEF SpareInv
<1> QED
  BY InitSpare, NextSpare, <1>1, PTL DEF Spec

\* Rows of other kinds than "tax" come from every other step.
LEMMA OnlyTaxIsTax ==
  ASSUME [Next]_vars, NEW r \in ledger' \ ledger, r.kind = "tax"
  PROVE  \E k \in 0..MaxWeek : RunTax(k) /\ r.ref = k
<1>1. ASSUME NEW x, x.kind # "tax", ledger' = ledger \cup {x} PROVE FALSE
  BY <1>1
<1>2. ~(\E u \in Users : UserStep(u))
  <2>1. ASSUME NEW u \in Users, NEW kind, NEW ref, NEW p, NEW amount,
               kind # "tax", CreditRow(Row(kind, ref, u, p, amount))
        PROVE  FALSE
    BY <1>1, <2>1 DEF CreditRow, Apply, Row
  <2>2. ASSUME NEW u \in Users, EnsureSeeded(u) PROVE FALSE
    BY <2>1, <2>2 DEF EnsureSeeded
  <2>3. ASSUME NEW u \in Users, NEW m \in MatchIds, GrantMatchReward(u, m) PROVE FALSE
    BY <2>1, <2>3 DEF GrantMatchReward
  <2>4. ASSUME NEW u \in Users, NEW q \in QuizIds, NEW correct \in BOOLEAN, GrantQuizReward(u, q, correct)
        PROVE  FALSE
    BY <2>1, <2>4 DEF GrantQuizReward
  <2>5. ASSUME NEW u \in Users, NEW p \in PostIds, SettleUser(p, u) PROVE FALSE
    BY <2>1, <2>5 DEF SettleUser
  <2>6. ASSUME NEW u \in Users, NEW p \in PostIds, NEW side \in Sides, NEW stake \in offered[u],
               Choose(u) \/ CancelBet(u, p) \/ Press(u, p, side, stake)
        PROVE  FALSE
    BY <2>6 DEF Choose, CancelBet, Press
  <2>7. \A u \in Users : ~Choose(u)
    BY DEF Choose
  <2>8. \A u \in Users, p \in PostIds : ~CancelBet(u, p)
    BY DEF CancelBet
  <2> QED
    BY <2>2, <2>3, <2>4, <2>5, <2>6, <2>7, <2>8 DEF UserStep
<1>3. \A x \in sent : ~Deliver(x)
  BY <1>1 DEF Deliver, Apply, Row
<1>4. ~Cutoff /\ ~(UNCHANGED vars) /\ \A p \in PostIds, v \in Sides \cup {"refund"} : ~OpenBook(p) /\ ~CloseBook(p, v)
  BY DEF Cutoff, vars, OpenBook, CloseBook
<1>5. PICK k \in 0..MaxWeek : RunTax(k)
  BY <1>2, <1>3, <1>4 DEF Next
<1>6. r.ref = k
  BY <1>5 DEF RunTax, Row
<1> QED
  BY <1>5, <1>6

----------------------------------------------------------------------------
\* The bank: what the ledger adds up to.

UserRows(L, u) == {r \in L : r.user = u}
BetRows(L, u, p) == {r \in L : r.kind = "bet" /\ r.user = u /\ r.post = p}
PostRows(L, p) == {r \in L : r.post = p}

\* What a closed book owes, and what of it has been paid.
SettleKind(p) == IF post[p].verdict \in Sides THEN "payout" ELSE "refund"
Owed(p, u) ==
  IF post[p].verdict \notin Sides THEN bet[p][u].stake
  ELSE IF u \in Winners(bet[p], post[p].verdict) THEN Share(bet[p], post[p].verdict, u)
  ELSE 0
Got(p, u) == IF post[p].status = "closed" /\ ~Fresh(SettleKind(p), p, u) THEN Owed(p, u) ELSE 0

\* The gold that has left a book, less what was staked on it and is still there.
BookBalances == \A p \in PostIds :
  Sum(PostRows(ledger, p)) + SumFunctionOnSet([u \in Users |-> cancelled[u][p]], Users)
    = SumFunctionOnSet([u \in Users |-> Got(p, u) - bet[p][u].stake], Users)

RowsWell == \A r \in ledger :
  /\ r.kind = "tax" => r.ref \in assessed
  /\ r.kind \in {"payout", "refund"} => r.ref \in PostIds /\ post[r.ref].status = "closed"

BankInv ==
  /\ TypeOK /\ cancelled \in [Users -> [PostIds -> Nat]] /\ IsFiniteSet(ledger)
  /\ RowsWell /\ CacheIsLedger /\ StakesAreBacked /\ BookBalances

\* The smaller and the larger of two.
LEMMA MinMax ==
  ASSUME NEW a \in Int, NEW b \in Int
  PROVE  /\ Min({a, b}) = IF a <= b THEN a ELSE b
         /\ Max({a, b}) = IF a <= b THEN b ELSE a
<1>1. \E x \in {a, b} : \A y \in {a, b} : x <= y
  OBVIOUS
<1>2. Min({a, b}) \in {a, b} /\ \A y \in {a, b} : Min({a, b}) <= y
  BY <1>1 DEF Min
<1>3. \E x \in {a, b} : \A y \in {a, b} : x >= y
  OBVIOUS
<1>4. Max({a, b}) \in {a, b} /\ \A y \in {a, b} : Max({a, b}) >= y
  BY <1>3 DEF Max
<1> QED
  BY <1>2, <1>4

\* Every option on the buttons is a positive amount the wallet has.
LEMMA OptionsFit ==
  ASSUME NEW g \in Nat, NEW s \in StakeOptions(g)
  PROVE  s \in Nat /\ s > 0 /\ s <= g
<1> DEFINE c == 500 * ((g + 499) \div 500)
           f == Min({c, 2 * g})
<1>1. g >= 10
  BY DEF StakeOptions
<1>2. c \in Int /\ f \in Int
  BY MinMax
<1>3. PICK d \in {10, 4, 2} : s = Min({g, Max({10, f \div d})})
  BY <1>1 DEF StakeOptions
<1> HIDE DEF c, f
<1>4. f \div d \in Int
  BY <1>2
<1>5. Max({10, f \div d}) \in Int /\ Max({10, f \div d}) >= 10
  <2> DEFINE q == f \div d
  <2>1. q \in Int /\ 10 \in Int
    BY <1>4
  <2> HIDE DEF q
  <2>2. Max({10, q}) = IF 10 <= q THEN q ELSE 10
    BY <2>1, MinMax
  <2> QED
    BY <2>1, <2>2 DEF q
<1>6. s = IF g <= Max({10, f \div d}) THEN g ELSE Max({10, f \div d})
  BY <1>3, <1>5, MinMax
<1> QED
  BY <1>1, <1>5, <1>6

\* What the faucets and the tax move.
LEMMA FlowAmounts ==
  ASSUME NEW g \in Nat
  PROVE  /\ RewardAmount(g) \in Int /\ (RewardAmount(g) > 0 => g + RewardAmount(g) <= 500)
         /\ \A correct \in BOOLEAN : /\ QuizRewardAmount(g, correct) \in Int
                                     /\ QuizRewardAmount(g, correct) > 0 => g + QuizRewardAmount(g, correct) <= 500
         /\ \A spared \in BOOLEAN : /\ TaxAmount(g, spared) \in Nat /\ TaxAmount(g, spared) <= g
                                    /\ TaxAmount(g, spared) > 0 => g - TaxAmount(g, spared) >= 500
<1> DEFINE h == 500 - g
<1>1. Room(g) = IF 0 <= h THEN h ELSE 0
  <2>1. h \in Int /\ 0 \in Int /\ Room(g) = Max({0, h})
    BY DEF Room
  <2> HIDE DEF h
  <2> QED
    BY <2>1, MinMax
<1>2. RewardAmount(g) = IF 100 <= Room(g) THEN 100 ELSE Room(g)
  BY <1>1, MinMax DEF RewardAmount
<1>3. ASSUME NEW correct \in BOOLEAN
      PROVE  QuizRewardAmount(g, correct) \in Int /\ QuizRewardAmount(g, correct) <= Room(g)
  <2> DEFINE a == IF correct THEN 50 ELSE 10
  <2>1. a \in Int /\ Room(g) \in Int
    BY <1>1
  <2>2. QuizRewardAmount(g, correct) = Min({a, Room(g)})
    BY DEF QuizRewardAmount
  <2> HIDE DEF a
  <2> QED
    BY <2>1, <2>2, MinMax
<1>4. ASSUME NEW spared \in BOOLEAN
      PROVE  /\ TaxAmount(g, spared) \in Nat /\ TaxAmount(g, spared) <= g
             /\ TaxAmount(g, spared) > 0 => g - TaxAmount(g, spared) >= 500
  <2>1. CASE g <= 500 \/ spared
    BY <2>1 DEF TaxAmount
  <2>2. CASE ~(g <= 500 \/ spared)
    <3>1. TaxAmount(g, spared) = Min({g \div 10, g - 500})
      BY <2>2 DEF TaxAmount
    <3>2. g \div 10 \in Nat
      OBVIOUS
    <3> QED
      BY <2>2, <3>1, <3>2, MinMax
  <2> QED
    BY <2>1, <2>2
<1> QED
  BY <1>1, <1>2, <1>3, <1>4

\* One more row on a list of them.
LEMMA SumRow ==
  ASSUME NEW L, IsFiniteSet(L), NEW r, r \notin L, \A x \in L : x.amount \in Int, r.amount \in Int
  PROVE  Sum(L \cup {r}) = Sum(L) + r.amount /\ Sum(L) \in Int
<1> DEFINE f == [x \in L |-> x.amount]
           g == [x \in L \cup {r} |-> x.amount]
<1>1. \A y \in L : f[y] \in Int /\ g[y] = f[y]
  OBVIOUS
<1>2. g[r] \in Int /\ g[r] = r.amount
  OBVIOUS
<1>3. Sum(L \cup {r}) = SumFunctionOnSet(g, L \cup {r}) /\ Sum(L) = SumFunctionOnSet(f, L)
  BY DEF Sum
<1> HIDE DEF f, g
<1>4. SumFunctionOnSet(g, L \cup {r}) = SumFunctionOnSet(f, L) + g[r]
  <2>1. g[r] \in Int
    BY <1>2
  <2> QED
    BY <1>1, <2>1, SumAdd, Zenon
<1>5. SumFunctionOnSet(f, L) \in Int
  BY <1>1, SumInt
<1> QED
  BY <1>2, <1>3, <1>4, <1>5

\* Sums of the parts of the ledger when a row is added to it.
LEMMA LedgerSums ==
  ASSUME BankInv, NEW r, r \notin ledger, r.amount \in Int, ledger' = ledger \cup {r}
  PROVE  /\ IsFiniteSet(ledger')
         /\ \A u \in Users : /\ Sum(UserRows(ledger, u)) \in Int
                             /\ Sum(UserRows(ledger', u)) = Sum(UserRows(ledger, u)) + IF r.user = u THEN r.amount ELSE 0
         /\ \A u \in Users, p \in PostIds :
              /\ Sum(BetRows(ledger, u, p)) \in Int
              /\ Sum(BetRows(ledger', u, p)) =
                   Sum(BetRows(ledger, u, p)) + IF r.kind = "bet" /\ r.user = u /\ r.post = p THEN r.amount ELSE 0
         /\ \A p \in PostIds : /\ Sum(PostRows(ledger, p)) \in Int
                               /\ Sum(PostRows(ledger', p)) = Sum(PostRows(ledger, p)) + IF r.post = p THEN r.amount ELSE 0
<1>1. IsFiniteSet(ledger) /\ \A x \in ledger : x.amount \in Int
  BY DEF BankInv, TypeOK
<1>2. IsFiniteSet(ledger')
  BY <1>1, FS_AddElement
<1>3. ASSUME NEW L \in SUBSET ledger
      PROVE  Sum(L) \in Int /\ Sum(L \cup {r}) = Sum(L) + r.amount
  BY <1>1, FS_Subset, SumRow
<1>4. ASSUME NEW u \in Users
      PROVE  /\ Sum(UserRows(ledger, u)) \in Int
             /\ Sum(UserRows(ledger', u)) = Sum(UserRows(ledger, u)) + IF r.user = u THEN r.amount ELSE 0
  <2>1. UserRows(ledger, u) \in SUBSET ledger
    BY DEF UserRows
  <2>2. UserRows(ledger', u) = IF r.user = u THEN UserRows(ledger, u) \cup {r} ELSE UserRows(ledger, u)
    BY DEF UserRows
  <2> QED
    BY <1>3, <2>1, <2>2
<1>5. ASSUME NEW u \in Users, NEW p \in PostIds
      PROVE  /\ Sum(BetRows(ledger, u, p)) \in Int
             /\ Sum(BetRows(ledger', u, p)) =
                  Sum(BetRows(ledger, u, p)) + IF r.kind = "bet" /\ r.user = u /\ r.post = p THEN r.amount ELSE 0
  <2>1. BetRows(ledger, u, p) \in SUBSET ledger
    BY DEF BetRows
  <2>2. BetRows(ledger', u, p) =
          IF r.kind = "bet" /\ r.user = u /\ r.post = p THEN BetRows(ledger, u, p) \cup {r} ELSE BetRows(ledger, u, p)
    BY DEF BetRows
  <2> QED
    BY <1>3, <2>1, <2>2
<1>6. ASSUME NEW p \in PostIds
      PROVE  /\ Sum(PostRows(ledger, p)) \in Int
             /\ Sum(PostRows(ledger', p)) = Sum(PostRows(ledger, p)) + IF r.post = p THEN r.amount ELSE 0
  <2>1. PostRows(ledger, p) \in SUBSET ledger
    BY DEF PostRows
  <2>2. PostRows(ledger', p) = IF r.post = p THEN PostRows(ledger, p) \cup {r} ELSE PostRows(ledger, p)
    BY DEF PostRows
  <2> QED
    BY <1>3, <2>1, <2>2
<1> QED
  BY <1>2, <1>4, <1>5, <1>6

\* Stakes, debts and payments are numbers.
LEMMA OwedNat ==
  ASSUME SpareInv, NEW p \in PostIds, NEW u \in Users
  PROVE  bet[p] \in Book /\ bet[p][u].stake \in Nat /\ Owed(p, u) \in Nat /\ Got(p, u) \in Nat
<1>1. bet[p] \in Book /\ bet[p][u].stake \in Nat
  BY DEF SpareInv, StakesTyped, Book
<1>2. ASSUME u \in Winners(bet[p], post[p].verdict) PROVE Share(bet[p], post[p].verdict, u) \in Nat
  <2>1. Backers(bet[p], post[p].verdict) # {}
    BY <1>2 DEF Winners
  <2> QED
    BY <1>1, <2>1, ShareBounds
<1>3. Owed(p, u) \in Nat
  BY <1>1, <1>2 DEF Owed
<1> QED
  BY <1>1, <1>3 DEF Got

\* A row that is written once with its balance, and what the books make of it, keeps the sums.
LEMMA RowStep ==
  ASSUME BankInv, SpareInv, SpareInv', NEW r, Apply(r), r \notin ledger,
         r.user \in Users, r.amount \in Int \ {0}, balance[r.user] + r.amount >= 0,
         UNCHANGED <<cancelled, week, assessed>>, seeded' \in [Users -> Int], RowsWell',
         \A p \in PostIds, u \in Users :
           /\ bet'[p][u].stake =
                bet[p][u].stake - IF r.kind = "bet" /\ r.user = u /\ r.post = p THEN r.amount ELSE 0
           /\ Got(p, u)' - bet'[p][u].stake =
                Got(p, u) - bet[p][u].stake + IF r.post = p /\ r.user = u THEN r.amount ELSE 0
  PROVE  BankInv'
<1>1. /\ ledger' = ledger \cup {r} /\ balance' = [balance EXCEPT ![r.user] = @ + r.amount]
      /\ r.amount \in Int
  BY DEF Apply
<1>2. balance \in [Users -> Nat] /\ cancelled \in [Users -> [PostIds -> Nat]]
  BY DEF BankInv, TypeOK
<1>3. balance' \in [Users -> Nat]
  BY <1>1, <1>2
<1>4. TypeOK'
  <2>1. \A x \in ledger' : x.user \in Users /\ x.amount \in Int \ {0}
    BY <1>1 DEF BankInv, TypeOK
  <2>2. week' \in 0..MaxWeek /\ assessed' \subseteq 0..MaxWeek
    BY DEF BankInv, TypeOK
  <2>3. \A u \in Users : \A p \in PostIds :
          cancelled'[u][p] \in Nat /\ bet'[p][u].side \in Sides /\ bet'[p][u].stake \in Nat
    BY <1>2 DEF SpareInv, StakesTyped
  <2>4. \A p \in PostIds : post'[p].status \in {"none", "open", "closed"}
    BY DEF SpareInv, StakesTyped, PostRow
  <2> QED
    BY <1>3, <2>1, <2>2, <2>3, <2>4 DEF TypeOK
<1>5. IsFiniteSet(ledger')
  BY <1>1, LedgerSums
<1>6. CacheIsLedger'
  <2>1. ASSUME NEW u \in Users
        PROVE  balance'[u] = Sum(UserRows(ledger', u)) + SumFunctionOnSet(cancelled'[u], PostIds)
    <3>1. /\ Sum(UserRows(ledger, u)) \in Int
          /\ Sum(UserRows(ledger', u)) = Sum(UserRows(ledger, u)) + IF r.user = u THEN r.amount ELSE 0
      BY <1>1, LedgerSums
    <3>2. balance'[u] = balance[u] + IF r.user = u THEN r.amount ELSE 0
      BY <1>1, <1>2
    <3>3. balance[u] = Sum(UserRows(ledger, u)) + SumFunctionOnSet(cancelled[u], PostIds)
      BY DEF BankInv, CacheIsLedger, UserRows
    <3>4. SumFunctionOnSet(cancelled[u], PostIds) \in Int
      <4>1. \A p \in PostIds : cancelled[u][p] \in Int
        BY <1>2
      <4> QED
        BY <4>1, PostIdsAssumption, SumInt
    <3> QED
      BY <1>1, <3>1, <3>2, <3>3, <3>4
  <2> QED
    BY <2>1 DEF CacheIsLedger, UserRows
<1>7. StakesAreBacked'
  <2>1. ASSUME NEW u \in Users, NEW p \in PostIds
        PROVE  bet'[p][u].stake = -Sum(BetRows(ledger', u, p)) - cancelled'[u][p]
    <3>1. /\ Sum(BetRows(ledger, u, p)) \in Int
          /\ Sum(BetRows(ledger', u, p)) =
               Sum(BetRows(ledger, u, p)) + IF r.kind = "bet" /\ r.user = u /\ r.post = p THEN r.amount ELSE 0
      BY <1>1, LedgerSums
    <3>2. bet[p][u].stake = -Sum(BetRows(ledger, u, p)) - cancelled[u][p]
      BY DEF BankInv, StakesAreBacked, BetRows
    <3>3. cancelled[u][p] \in Int
      BY <1>2
    <3> QED
      BY <1>1, <3>1, <3>2, <3>3
  <2> QED
    BY <2>1 DEF StakesAreBacked, BetRows
<1>8. BookBalances'
  <2>1. ASSUME NEW p \in PostIds
        PROVE  Sum(PostRows(ledger', p)) + SumFunctionOnSet([u \in Users |-> cancelled'[u][p]], Users)
                 = SumFunctionOnSet([u \in Users |-> Got(p, u)' - bet'[p][u].stake], Users)
    <3> DEFINE f == [u \in Users |-> Got(p, u) - bet[p][u].stake]
               g == [u \in Users |-> Got(p, u)' - bet'[p][u].stake]
               c == SumFunctionOnSet([u \in Users |-> cancelled[u][p]], Users)
    <3>1. \A u \in Users : f[u] \in Int /\ g[u] = f[u] + IF r.post = p /\ r.user = u THEN r.amount ELSE 0
      BY <1>1, OwedNat
    <3>2. SumFunctionOnSet(g, Users) = SumFunctionOnSet(f, Users) + (IF r.post = p THEN r.amount ELSE 0)
          /\ SumFunctionOnSet(f, Users) \in Int
      <4> HIDE DEF f, g
      <4>1. SumFunctionOnSet(f, Users) \in Int
        BY <3>1, UsersAssumption, SumInt
      <4>2. CASE r.post = p
        <5>1. \A u \in Users : f[u] \in Int /\ g[u] \in Int /\ (u # r.user => g[u] = f[u])
          BY <1>1, <3>1, <4>2
        <5>2. SumFunctionOnSet(g, Users) = SumFunctionOnSet(f, Users) - f[r.user] + g[r.user]
          BY <5>1, UsersAssumption, SumChange
        <5>3. f[r.user] \in Int /\ g[r.user] = f[r.user] + r.amount
          BY <3>1, <4>2
        <5> QED
          BY <1>1, <4>1, <4>2, <5>2, <5>3
      <4>3. CASE r.post # p
        <5>1. \A u \in Users : f[u] = g[u]
          BY <3>1, <4>3
        <5>2. SumFunctionOnSet(f, Users) = SumFunctionOnSet(g, Users)
          BY <5>1, UsersAssumption, SumSame
        <5> QED
          BY <4>1, <4>3, <5>2
      <4> QED
        BY <4>2, <4>3, <4>1
    <3>3. Sum(PostRows(ledger, p)) \in Int
          /\ Sum(PostRows(ledger', p)) = Sum(PostRows(ledger, p)) + IF r.post = p THEN r.amount ELSE 0
      BY <1>1, LedgerSums
    <3>4. Sum(PostRows(ledger, p)) + c = SumFunctionOnSet(f, Users)
      BY DEF BankInv, BookBalances
    <3>5. c \in Int
      <4> DEFINE h == [u \in Users |-> cancelled[u][p]]
      <4>1. \A u \in Users : h[u] \in Int
        BY <1>2
      <4> HIDE DEF h
      <4>2. SumFunctionOnSet(h, Users) \in Int
        BY <4>1, UsersAssumption, SumInt
      <4> QED
        BY <4>2 DEF h
    <3>6. cancelled' = cancelled
      OBVIOUS
    <3> HIDE DEF f, g, c
    <3>7. Sum(PostRows(ledger', p)) + c = SumFunctionOnSet(g, Users)
      BY <1>1, <3>2, <3>3, <3>4, <3>5
    <3> QED
      BY <3>6, <3>7 DEF c, g
  <2> QED
    BY <2>1 DEF BookBalances
<1> QED
  BY <1>2, <1>4, <1>5, <1>6, <1>7, <1>8 DEF BankInv

\* Books and payments seen from a step that touches neither.
LEMMA GotFrame ==
  ASSUME UNCHANGED <<bet, post>>, NEW p \in PostIds, NEW u \in Users,
         \A kind \in {"payout", "refund"} : Fresh(kind, p, u)' = Fresh(kind, p, u)
  PROVE  Got(p, u)' = Got(p, u)
<1>1. SettleKind(p)' = SettleKind(p) /\ SettleKind(p) \in {"payout", "refund"}
  BY DEF SettleKind
<1>2. Owed(p, u)' = Owed(p, u)
  BY DEF Owed, Winners, OneSided, Backers, Bettors, Share, Pool
<1> QED
  BY <1>1, <1>2 DEF Got

\* A step that moves no gold and no debt.
LEMMA StandStep ==
  ASSUME BankInv, SpareInv', UNCHANGED <<balance, ledger, cancelled, bet, post, seeded>>,
         week' \in 0..MaxWeek, assessed \subseteq assessed', assessed' \subseteq 0..MaxWeek
  PROVE  BankInv'
<1>1. TypeOK'
  BY DEF BankInv, TypeOK
<1>2. RowsWell' /\ CacheIsLedger' /\ StakesAreBacked'
  BY DEF BankInv, RowsWell, CacheIsLedger, StakesAreBacked, Sum
<1>3. \A p \in PostIds, u \in Users : Got(p, u)' = Got(p, u)
  BY GotFrame DEF Fresh
<1>4. BookBalances'
  BY <1>3 DEF BankInv, BookBalances, PostRows, Sum
<1> QED
  BY <1>1, <1>2, <1>4 DEF BankInv

\* Seeds and faucets: gold of no book.
LEMMA FaucetStep ==
  ASSUME BankInv, SpareInv, SpareInv', NEW kind \in {"seed", "match_reward", "quiz"}, NEW ref, NEW u \in Users,
         NEW amount \in Int, CreditRow(Row(kind, ref, u, 0, amount)),
         UNCHANGED <<cancelled, bet, post, week, assessed>>, seeded' \in [Users -> Int]
  PROVE  BankInv'
<1> DEFINE r == Row(kind, ref, u, 0, amount)
<1>1. r.kind = kind /\ r.ref = ref /\ r.user = u /\ r.post = 0 /\ r.amount = amount
  BY DEF Row
<1>2. Apply(r) /\ r.amount > 0 /\ r \notin ledger
  BY <1>1 DEF CreditRow, Pays, Fresh
<1> HIDE DEF r
<1>3. ledger' = ledger \cup {r}
  BY <1>2 DEF Apply
<1>4. RowsWell'
  BY <1>1, <1>3 DEF BankInv, RowsWell
<1>5. ASSUME NEW p \in PostIds, NEW v \in Users PROVE Got(p, v)' = Got(p, v)
  <2>1. \A k \in {"payout", "refund"} : Fresh(k, p, v)' = Fresh(k, p, v)
    BY <1>1, <1>3 DEF Fresh
  <2> QED
    BY <2>1, GotFrame
<1>6. ASSUME NEW p \in PostIds, NEW v \in Users
      PROVE  /\ bet'[p][v].stake = bet[p][v].stake - IF r.kind = "bet" /\ r.user = v /\ r.post = p THEN r.amount ELSE 0
             /\ Got(p, v)' - bet'[p][v].stake =
                  Got(p, v) - bet[p][v].stake + IF r.post = p /\ r.user = v THEN r.amount ELSE 0
  <2>1. p # 0
    BY PostIdsAssumption
  <2> QED
    BY <1>1, <1>5, <2>1, OwedNat
<1>7. balance[r.user] + r.amount >= 0
  BY <1>1, <1>2 DEF BankInv, TypeOK
<1> QED
  BY <1>1, <1>2, <1>4, <1>6, <1>7, RowStep

\* A refund or a payout: what the book owes, once.
LEMMA SettleStep ==
  ASSUME BankInv, SpareInv, SpareInv', NEW p \in PostIds, NEW u \in Users, SettleUser(p, u)
  PROVE  BankInv'
<1> DEFINE r == Row(SettleKind(p), p, u, p, Owed(p, u))
<1>1. /\ r.kind = SettleKind(p) /\ r.kind \in {"payout", "refund"} /\ r.ref = p /\ r.user = u /\ r.post = p
      /\ r.amount = Owed(p, u)
  BY DEF Row, SettleKind
<1>2. CreditRow(r) /\ post[p].status = "closed" /\ UNCHANGED <<cancelled, bet, post, seeded, week, assessed>>
  <2>1. CASE post[p].verdict \in Sides
    BY <2>1 DEF SettleUser, SettleKind, Owed
  <2>2. CASE post[p].verdict \notin Sides
    BY <2>2 DEF SettleUser, SettleKind, Owed
  <2> QED
    BY <2>1, <2>2
<1>3. Owed(p, u) \in Nat
  BY OwedNat
<1> HIDE DEF r
<1>4. Apply(r) /\ r.amount > 0 /\ r \notin ledger /\ Fresh(SettleKind(p), p, u)
  BY <1>1, <1>2 DEF CreditRow, Pays, Fresh
<1>5. ledger' = ledger \cup {r}
  BY <1>4 DEF Apply
<1>6. RowsWell'
  BY <1>1, <1>2, <1>5 DEF BankInv, RowsWell
<1>7. ASSUME NEW q \in PostIds, NEW v \in Users
      PROVE  Got(q, v)' = Got(q, v) + IF r.post = q /\ r.user = v THEN r.amount ELSE 0
  <2>1. CASE q = p /\ v = u
    <3>1. Got(q, v) = 0
      BY <1>4, <2>1 DEF Got
    <3>2. ~Fresh(SettleKind(p), p, u)'
      BY <1>1, <1>2, <1>5 DEF Fresh, SettleKind
    <3>3. SettleKind(p)' = SettleKind(p) /\ Owed(p, u)' = Owed(p, u)
      BY <1>2 DEF SettleKind, Owed, Winners, OneSided, Backers, Bettors, Share, Pool
    <3>4. Got(q, v)' = Owed(p, u)
      BY <1>2, <2>1, <3>2, <3>3 DEF Got
    <3> QED
      BY <1>1, <1>3, <2>1, <3>1, <3>4
  <2>2. CASE ~(q = p /\ v = u)
    <3>1. \A k \in {"payout", "refund"} : Fresh(k, q, v)' = Fresh(k, q, v)
      BY <1>1, <1>5, <2>2 DEF Fresh
    <3>2. Got(q, v)' = Got(q, v)
      BY <1>2, <3>1, GotFrame
    <3> QED
      BY <1>1, <2>2, <3>2, OwedNat
  <2> QED
    BY <2>1, <2>2
<1>8. ASSUME NEW q \in PostIds, NEW v \in Users
      PROVE  /\ bet'[q][v].stake = bet[q][v].stake - IF r.kind = "bet" /\ r.user = v /\ r.post = q THEN r.amount ELSE 0
             /\ Got(q, v)' - bet'[q][v].stake =
                  Got(q, v) - bet[q][v].stake + IF r.post = q /\ r.user = v THEN r.amount ELSE 0
  BY <1>1, <1>2, <1>3, <1>7, <1>8, OwedNat
<1>9. balance[r.user] + r.amount >= 0 /\ seeded' \in [Users -> Int]
  BY <1>1, <1>2, <1>3 DEF BankInv, TypeOK
<1> QED
  BY <1>1, <1>2, <1>3, <1>4, <1>6, <1>8, <1>9, RowStep

\* A press that is taken: the stake leaves the wallet and stands on the book.
LEMMA StakeStep ==
  ASSUME BankInv, SpareInv, SpareInv', NEW x \in sent, Deliver(x)
  PROVE  BankInv'
<1> DEFINE takes == Fresh("bet", x.id, x.user) /\ x.stake \in StakeOptions(balance[x.user])
           r == Row("bet", x.id, x.user, x.post, -x.stake)
<1>1. x.user \in Users /\ x.post \in PostIds /\ x.side \in Sides /\ x.stake \in Nat
  BY DEF SpareInv, StakesTyped
<1>2. post[x.post].status = "open" /\ UNCHANGED <<cancelled, post, seeded, sent, week, assessed>>
  BY DEF Deliver, AcceptsBets
<1>3. balance \in [Users -> Nat] /\ seeded \in [Users -> Int]
  BY DEF BankInv, TypeOK
<1>4. CASE ~takes
  <2>1. UNCHANGED <<balance, ledger, bet>>
    BY <1>4 DEF Deliver
  <2> QED
    BY <1>2, <2>1, StandStep DEF BankInv, TypeOK
<1>5. CASE takes
  <2>1. Apply(r) /\ bet' = [bet EXCEPT ![x.post][x.user] = Added(bet[x.post][x.user], x)]
    BY <1>5 DEF Deliver
  <2>2. r.kind = "bet" /\ r.ref = x.id /\ r.user = x.user /\ r.post = x.post /\ r.amount = -x.stake
    BY DEF Row
  <2>3. x.stake > 0 /\ x.stake <= balance[x.user]
    BY <1>1, <1>3, <1>5, OptionsFit
  <2>4. r \notin ledger
    BY <1>5, <2>2 DEF Fresh
  <2> HIDE DEF r
  <2>5. ledger' = ledger \cup {r}
    BY <2>1 DEF Apply
  <2>6. RowsWell'
    BY <1>2, <2>2, <2>5 DEF BankInv, RowsWell
  <2>7. \A q \in PostIds, v \in Users :
          bet'[q][v].stake = bet[q][v].stake - IF r.kind = "bet" /\ r.user = v /\ r.post = q THEN r.amount ELSE 0
    <3>1. bet \in [PostIds -> [Users -> [side : Sides, stake : Nat]]]
      BY DEF SpareInv, StakesTyped
    <3>2. Added(bet[x.post][x.user], x).stake = bet[x.post][x.user].stake + x.stake
      BY DEF Added
    <3> QED
      BY <1>1, <2>1, <2>2, <3>1, <3>2
  <2>8. ASSUME NEW q \in PostIds, NEW v \in Users PROVE Got(q, v)' = Got(q, v)
    <3>1. CASE q = x.post
      BY <1>2, <3>1 DEF Got
    <3>2. CASE q # x.post
      <4>1. bet'[q] = bet[q]
        BY <2>1, <3>2 DEF SpareInv, StakesTyped
      <4>2. SettleKind(q)' = SettleKind(q) /\ SettleKind(q) \in {"payout", "refund"}
        BY <1>2 DEF SettleKind
      <4>3. Owed(q, v)' = Owed(q, v)
        BY <1>2, <4>1 DEF Owed, Winners, OneSided, Backers, Bettors, Share, Pool
      <4>4. Fresh(SettleKind(q), q, v)' = Fresh(SettleKind(q), q, v)
        BY <2>2, <2>5, <4>2 DEF Fresh
      <4> QED
        BY <1>2, <4>2, <4>3, <4>4 DEF Got
    <3> QED
      BY <3>1, <3>2
  <2>9. ASSUME NEW q \in PostIds, NEW v \in Users
        PROVE  Got(q, v)' - bet'[q][v].stake =
                 Got(q, v) - bet[q][v].stake + IF r.post = q /\ r.user = v THEN r.amount ELSE 0
    <3>1. bet'[q][v].stake = bet[q][v].stake - IF r.kind = "bet" /\ r.user = v /\ r.post = q THEN r.amount ELSE 0
      BY <2>7
    <3> QED
      BY <1>1, <2>2, <2>8, <3>1, OwedNat
  <2>10. balance[r.user] + r.amount >= 0 /\ r.amount \in Int \ {0}
    BY <1>1, <1>3, <2>2, <2>3
  <2> QED
    BY <1>1, <1>2, <1>3, <2>1, <2>2, <2>4, <2>6, <2>7, <2>9, <2>10, RowStep
<1> QED
  BY <1>4, <1>5

\* A cancellation: the stake goes back, and the cancelled column remembers it.
LEMMA TakeBackStep ==
  ASSUME BankInv, SpareInv, SpareInv', NEW u \in Users, NEW p \in PostIds, CancelBet(u, p)
  PROVE  BankInv'
<1> DEFINE stake == bet[p][u].stake
<1>1. /\ post[p].status = "open" /\ stake > 0
      /\ bet' = [bet EXCEPT ![p][u] = NoBet]
      /\ cancelled' = [cancelled EXCEPT ![u][p] = @ + stake]
      /\ balance' = [balance EXCEPT ![u] = @ + stake]
      /\ UNCHANGED <<ledger, post, seeded, week, assessed>>
  BY DEF CancelBet, AcceptsBets
<1>2. stake \in Nat
  BY OwedNat
<1> HIDE DEF stake
<1>3. /\ balance \in [Users -> Nat] /\ cancelled \in [Users -> [PostIds -> Nat]]
      /\ bet \in [PostIds -> [Users -> [side : Sides, stake : Nat]]]
  BY DEF BankInv, TypeOK, SpareInv, StakesTyped
<1>4. /\ balance' \in [Users -> Nat] /\ cancelled' \in [Users -> [PostIds -> Nat]]
      /\ \A v \in Users : balance'[v] = balance[v] + IF v = u THEN stake ELSE 0
      /\ \A v \in Users, q \in PostIds :
           cancelled'[v][q] = cancelled[v][q] + IF v = u /\ q = p THEN stake ELSE 0
  BY <1>1, <1>2, <1>3
<1>5. \A v \in Users, q \in PostIds :
        bet'[q][v].stake = bet[q][v].stake - IF v = u /\ q = p THEN stake ELSE 0
  BY <1>1, <1>2, <1>3 DEF NoBet, stake
<1>6. TypeOK'
  <2>1. \A q \in PostIds : post'[q].status \in {"none", "open", "closed"}
    BY DEF SpareInv, StakesTyped, PostRow
  <2>2. \A v \in Users, q \in PostIds : bet'[q][v].side \in Sides /\ bet'[q][v].stake \in Nat
    BY DEF SpareInv, StakesTyped
  <2> QED
    BY <1>1, <1>4, <2>1, <2>2 DEF BankInv, TypeOK
<1>7. RowsWell' /\ IsFiniteSet(ledger')
  BY <1>1 DEF BankInv, RowsWell
<1>8. \A r \in ledger : r.amount \in Int
  BY DEF BankInv, TypeOK
<1>9. ASSUME NEW L \in SUBSET ledger PROVE Sum(L) \in Int
  <2> DEFINE f == [r \in L |-> r.amount]
  <2>1. IsFiniteSet(L) /\ \A r \in L : f[r] \in Int
    BY <1>8, FS_Subset DEF BankInv
  <2> HIDE DEF f
  <2>2. SumFunctionOnSet(f, L) \in Int
    BY <2>1, SumInt
  <2> QED
    BY <2>2 DEF f, Sum
<1>10. CacheIsLedger'
  <2>1. ASSUME NEW v \in Users
        PROVE  balance'[v] = Sum(UserRows(ledger, v)) + SumFunctionOnSet(cancelled'[v], PostIds)
    <3> DEFINE f == cancelled[v]
               g == cancelled'[v]
    <3>1. \A q \in PostIds : f[q] \in Int /\ g[q] \in Int /\ g[q] = f[q] + IF v = u /\ q = p THEN stake ELSE 0
      BY <1>3, <1>4
    <3>2. balance[v] = Sum(UserRows(ledger, v)) + SumFunctionOnSet(f, PostIds)
      BY DEF BankInv, CacheIsLedger, UserRows
    <3>3. Sum(UserRows(ledger, v)) \in Int
      BY <1>9 DEF UserRows
    <3> HIDE DEF f, g
    <3>4. SumFunctionOnSet(f, PostIds) \in Int
      BY <3>1, PostIdsAssumption, SumInt
    <3>5. SumFunctionOnSet(g, PostIds) = SumFunctionOnSet(f, PostIds) - f[p] + g[p]
      <4>1. \A q \in PostIds : f[q] \in Int /\ g[q] \in Int /\ (q # p => g[q] = f[q])
        BY <3>1, <1>2
      <4>2. IsFiniteSet(PostIds)
        BY PostIdsAssumption
      <4> QED
        BY <4>1, <4>2, SumChange
    <3>6. SumFunctionOnSet(g, PostIds) = SumFunctionOnSet(f, PostIds) + IF v = u THEN stake ELSE 0
      BY <1>2, <3>1, <3>4, <3>5
    <3> QED
      BY <1>2, <1>4, <3>2, <3>3, <3>4, <3>6 DEF g
  <2> QED
    BY <1>1, <2>1 DEF CacheIsLedger, UserRows, Sum
<1>11. StakesAreBacked'
  <2>1. ASSUME NEW v \in Users, NEW q \in PostIds
        PROVE  bet'[q][v].stake = -Sum(BetRows(ledger, v, q)) - cancelled'[v][q]
    <3>1. Sum(BetRows(ledger, v, q)) \in Int
      BY <1>9 DEF BetRows
    <3>2. bet[q][v].stake = -Sum(BetRows(ledger, v, q)) - cancelled[v][q]
      BY DEF BankInv, StakesAreBacked, BetRows
    <3>3. cancelled[v][q] \in Int /\ cancelled'[v][q] = cancelled[v][q] + IF v = u /\ q = p THEN stake ELSE 0
      BY <1>3, <1>4
    <3>4. bet'[q][v].stake = bet[q][v].stake - IF v = u /\ q = p THEN stake ELSE 0
      BY <1>5
    <3> QED
      BY <1>2, <3>1, <3>2, <3>3, <3>4
  <2> QED
    BY <1>1, <2>1 DEF StakesAreBacked, BetRows, Sum
<1>12. ASSUME NEW q \in PostIds, NEW v \in Users PROVE Got(q, v)' = Got(q, v)
  <2>1. CASE q = p
    BY <1>1, <2>1 DEF Got
  <2>2. CASE q # p
    <3>1. bet'[q] = bet[q]
      BY <1>1, <1>3, <2>2
    <3>2. SettleKind(q)' = SettleKind(q) /\ Fresh(SettleKind(q), q, v)' = Fresh(SettleKind(q), q, v)
      BY <1>1 DEF SettleKind, Fresh
    <3>3. Owed(q, v)' = Owed(q, v)
      BY <1>1, <3>1 DEF Owed, Winners, OneSided, Backers, Bettors, Share, Pool
    <3> QED
      BY <1>1, <3>2, <3>3 DEF Got
  <2> QED
    BY <2>1, <2>2
<1>13. BookBalances'
  <2>1. ASSUME NEW q \in PostIds
        PROVE  Sum(PostRows(ledger, q)) + SumFunctionOnSet([v \in Users |-> cancelled'[v][q]], Users)
                 = SumFunctionOnSet([v \in Users |-> Got(q, v)' - bet'[q][v].stake], Users)
    <3> DEFINE f == [v \in Users |-> Got(q, v) - bet[q][v].stake]
               g == [v \in Users |-> Got(q, v)' - bet'[q][v].stake]
               c == [v \in Users |-> cancelled[v][q]]
               e == [v \in Users |-> cancelled'[v][q]]
               k == IF q = p THEN stake ELSE 0
    <3>1. \A v \in Users : f[v] \in Int /\ c[v] \in Int
                           /\ g[v] = f[v] + (IF v = u THEN k ELSE 0) /\ e[v] = c[v] + (IF v = u THEN k ELSE 0)
      <4> TAKE v \in Users
      <4>1. Got(q, v)' = Got(q, v) /\ Got(q, v) \in Nat /\ bet[q][v].stake \in Nat
        BY <1>12, OwedNat
      <4>2. cancelled[v][q] \in Nat /\ cancelled'[v][q] = cancelled[v][q] + IF v = u /\ q = p THEN stake ELSE 0
        BY <1>3, <1>4
      <4>3. bet'[q][v].stake = bet[q][v].stake - IF v = u /\ q = p THEN stake ELSE 0
        BY <1>5
      <4> QED
        BY <1>2, <4>1, <4>2, <4>3
    <3>2. Sum(PostRows(ledger, q)) + SumFunctionOnSet(c, Users) = SumFunctionOnSet(f, Users)
      BY DEF BankInv, BookBalances
    <3>3. Sum(PostRows(ledger, q)) \in Int
      BY <1>9 DEF PostRows
    <3>4. k \in Int
      BY <1>2
    <3> HIDE DEF f, g, c, e, k
    <3>5. SumFunctionOnSet(f, Users) \in Int /\ SumFunctionOnSet(c, Users) \in Int
      BY <3>1, UsersAssumption, SumInt
    <3>6. SumFunctionOnSet(g, Users) = SumFunctionOnSet(f, Users) - f[u] + g[u]
      <4>1. \A v \in Users : f[v] \in Int /\ g[v] \in Int /\ (v # u => g[v] = f[v])
        BY <3>1, <3>4
      <4> QED
        BY <4>1, UsersAssumption, SumChange
    <3>7. SumFunctionOnSet(e, Users) = SumFunctionOnSet(c, Users) - c[u] + e[u]
      <4>1. \A v \in Users : c[v] \in Int /\ e[v] \in Int /\ (v # u => e[v] = c[v])
        BY <3>1, <3>4
      <4> QED
        BY <4>1, UsersAssumption, SumChange
    <3>8. g[u] = f[u] + k /\ e[u] = c[u] + k /\ f[u] \in Int /\ c[u] \in Int
      BY <3>1
    <3>9. Sum(PostRows(ledger, q)) + SumFunctionOnSet(e, Users) = SumFunctionOnSet(g, Users)
      BY <3>2, <3>3, <3>4, <3>5, <3>6, <3>7, <3>8
    <3> QED
      BY <3>9 DEF g, e
  <2> QED
    BY <1>1, <2>1 DEF BookBalances, PostRows, Sum
<1> QED
  BY <1>4, <1>6, <1>7, <1>10, <1>11, <1>13 DEF BankInv

\* A book opens or closes: nothing has been paid for it.
LEMMA BookStep ==
  ASSUME BankInv, SpareInv, SpareInv', NEW p \in PostIds,
         OpenBook(p) \/ \E v \in Sides \cup {"refund"} : CloseBook(p, v)
  PROVE  BankInv'
<1>1. /\ post[p].status \in {"none", "open"}
      /\ \A q \in PostIds : q # p => post'[q] = post[q]
      /\ UNCHANGED <<balance, ledger, cancelled, bet, seeded, week, assessed>>
  BY DEF OpenBook, CloseBook, SpareInv, StakesTyped
<1>2. \A q \in PostIds : post'[q].status \in {"none", "open", "closed"}
  BY DEF SpareInv, StakesTyped, PostRow
<1>3. TypeOK'
  BY <1>1, <1>2 DEF BankInv, TypeOK
<1>4. RowsWell'
  BY <1>1 DEF BankInv, RowsWell
<1>5. CacheIsLedger' /\ StakesAreBacked'
  BY <1>1 DEF BankInv, CacheIsLedger, StakesAreBacked, Sum
<1>6. ASSUME NEW q \in PostIds, NEW v \in Users PROVE Got(q, v)' = Got(q, v)
  <2>1. CASE q = p
    <3>1. Got(q, v) = 0
      BY <1>1, <2>1 DEF Got
    <3>2. \A k \in {"payout", "refund"} : Fresh(k, p, v)'
      BY <1>1 DEF Fresh, BankInv, RowsWell
    <3>3. SettleKind(p)' \in {"payout", "refund"}
      BY DEF SettleKind
    <3> QED
      BY <2>1, <3>1, <3>2, <3>3 DEF Got
  <2>2. CASE q # p
    <3>1. SettleKind(q)' = SettleKind(q) /\ Fresh(SettleKind(q), q, v)' = Fresh(SettleKind(q), q, v)
      BY <1>1, <2>2 DEF SettleKind, Fresh
    <3>2. Owed(q, v)' = Owed(q, v)
      BY <1>1, <2>2 DEF Owed, Winners, OneSided, Backers, Bettors, Share, Pool
    <3> QED
      BY <1>1, <2>2, <3>1, <3>2 DEF Got
  <2> QED
    BY <2>1, <2>2
<1>7. BookBalances'
  BY <1>1, <1>6 DEF BankInv, BookBalances, PostRows, Sum
<1> QED
  BY <1>1, <1>3, <1>4, <1>5, <1>7 DEF BankInv

\* The tax writes a row for each wallet that pays.
LEMMA AssessStep ==
  ASSUME BankInv, SpareInv, SpareInv', NEW k \in 0..MaxWeek, RunTax(k)
  PROVE  BankInv'
<1> DEFINE row(u) == Row("tax", k, u, 0, -Tax(u, k))
           payers == {v \in Users : Tax(v, k) > 0}
           new == {row(u) : u \in payers}
<1>1. /\ ledger' = ledger \cup new /\ balance' = [u \in Users |-> balance[u] - Tax(u, k)]
      /\ assessed' = assessed \cup {k} /\ k \notin assessed
      /\ UNCHANGED <<cancelled, bet, post, seeded, week>>
  BY DEF RunTax, Due
<1>2. balance \in [Users -> Nat]
  BY DEF BankInv, TypeOK
<1>3. ASSUME NEW u \in Users PROVE Tax(u, k) \in Nat /\ Tax(u, k) <= balance[u]
  <2>1. Participated(u, k) \in BOOLEAN /\ balance[u] \in Nat
    BY <1>2 DEF Participated
  <2>2. TaxAmount(balance[u], Participated(u, k)) \in Nat /\ TaxAmount(balance[u], Participated(u, k)) <= balance[u]
    BY <2>1, FlowAmounts
  <2> QED
    BY <2>1, <2>2 DEF Tax
<1>4. ASSUME NEW u \in Users
      PROVE  row(u).kind = "tax" /\ row(u).ref = k /\ row(u).user = u /\ row(u).post = 0 /\ row(u).amount = -Tax(u, k)
  BY DEF Row
<1>5. \A r \in new : /\ r.kind = "tax" /\ r.ref = k /\ r.user \in payers /\ r.post = 0 /\ r.amount = -Tax(r.user, k)
                     /\ r = row(r.user)
  BY <1>4
<1> HIDE DEF row
<1>6. IsFiniteSet(new)
  <2> DEFINE f == [u \in payers |-> row(u)]
  <2>1. f \in Surjection(payers, new)
    BY DEF Surjection
  <2>2. IsFiniteSet(payers)
    BY UsersAssumption, FS_Subset
  <2> HIDE DEF f, new, payers
  <2> QED
    BY <2>1, <2>2, FS_Surjection
<1>7. TypeOK'
  <2>1. balance' \in [Users -> Nat]
    BY <1>1, <1>2, <1>3
  <2>2. \A r \in ledger' : r.user \in Users /\ r.amount \in Int \ {0}
    BY <1>1, <1>3, <1>5 DEF BankInv, TypeOK
  <2> HIDE DEF new
  <2> QED
    BY <1>1, <2>1, <2>2 DEF BankInv, TypeOK
<1>8. IsFiniteSet(ledger')
  BY <1>1, <1>6, FS_Union DEF BankInv
<1>9. RowsWell'
  BY <1>1, <1>5 DEF BankInv, RowsWell
<1> HIDE DEF new
<1>10. CacheIsLedger'
  <2>1. ASSUME NEW u \in Users
        PROVE  balance'[u] = Sum(UserRows(ledger', u)) + SumFunctionOnSet(cancelled[u], PostIds)
    <3>1. balance'[u] = balance[u] - Tax(u, k)
      BY <1>1
    <3>2. balance[u] = Sum(UserRows(ledger, u)) + SumFunctionOnSet(cancelled[u], PostIds)
      BY DEF BankInv, CacheIsLedger, UserRows
    <3>3. SumFunctionOnSet(cancelled[u], PostIds) \in Int
      <4>1. \A p \in PostIds : cancelled[u][p] \in Int
        BY DEF BankInv
      <4> QED
        BY <4>1, PostIdsAssumption, SumInt
    <3>4. CASE Tax(u, k) > 0
      <4>1. UserRows(ledger', u) = UserRows(ledger, u) \cup {row(u)}
        BY <1>1, <1>4, <1>5, <3>4 DEF UserRows, new
      <4>2. row(u) \notin UserRows(ledger, u)
        BY <1>1, <1>4 DEF UserRows, BankInv, RowsWell
      <4>3. IsFiniteSet(UserRows(ledger, u)) /\ \A r \in UserRows(ledger, u) : r.amount \in Int
        BY FS_Subset DEF UserRows, BankInv, TypeOK
      <4>4. row(u).amount = -Tax(u, k) /\ row(u).amount \in Int
        BY <1>3, <1>4
      <4>5. /\ Sum(UserRows(ledger, u) \cup {row(u)}) = Sum(UserRows(ledger, u)) + row(u).amount
            /\ Sum(UserRows(ledger, u)) \in Int
        BY <4>2, <4>3, <4>4, SumRow
      <4> QED
        BY <1>3, <3>1, <3>2, <3>3, <4>1, <4>4, <4>5
    <3>5. CASE ~(Tax(u, k) > 0)
      <4>1. UserRows(ledger', u) = UserRows(ledger, u)
        BY <1>1, <1>5, <3>5 DEF UserRows
      <4>2. Tax(u, k) = 0 /\ balance[u] \in Nat
        BY <1>2, <1>3, <3>5
      <4> QED
        BY <3>1, <3>2, <4>1, <4>2
    <3> QED
      BY <3>4, <3>5
  <2> QED
    BY <1>1, <2>1 DEF CacheIsLedger, UserRows
<1>11. StakesAreBacked'
  <2>1. \A u \in Users, p \in PostIds : BetRows(ledger', u, p) = BetRows(ledger, u, p)
    BY <1>1, <1>5 DEF BetRows
  <2> QED
    BY <1>1, <2>1 DEF BankInv, StakesAreBacked, BetRows
<1>12. BookBalances'
  <2>1. ASSUME NEW p \in PostIds PROVE PostRows(ledger', p) = PostRows(ledger, p)
    <3>1. p # 0
      BY PostIdsAssumption
    <3> QED
      BY <1>1, <1>5, <3>1 DEF PostRows
  <2>2. ASSUME NEW p \in PostIds, NEW u \in Users PROVE Got(p, u)' = Got(p, u)
    <3>1. \A kind \in {"payout", "refund"} : Fresh(kind, p, u)' = Fresh(kind, p, u)
      BY <1>1, <1>5 DEF Fresh
    <3> QED
      BY <1>1, <3>1, GotFrame
  <2> QED
    BY <1>1, <2>1, <2>2 DEF BankInv, BookBalances
<1> QED
  BY <1>1, <1>7, <1>8, <1>9, <1>10, <1>11, <1>12 DEF BankInv

\* At the start every sum is empty.
LEMMA InitBank == Init => BankInv
<1> SUFFICES ASSUME Init PROVE BankInv
  OBVIOUS
<1>1. ledger = {} /\ IsFiniteSet(ledger) /\ Sum({}) = 0
  BY SumEmpty, FS_EmptySet DEF Init, Sum
<1>2. TypeOK /\ RowsWell /\ cancelled \in [Users -> [PostIds -> Nat]]
  BY WeekAssumption DEF Init, TypeOK, RowsWell, NoBet, NoPost, NotSeeded, Sides
<1>3. CacheIsLedger
  <2>1. ASSUME NEW u \in Users PROVE SumFunctionOnSet(cancelled[u], PostIds) = 0
    <3>1. \A p \in PostIds : cancelled[u][p] = 0
      BY DEF Init
    <3> QED
      BY <3>1, ZeroSum, PostIdsAssumption
  <2>2. \A u \in Users : {r \in ledger : r.user = u} = {} /\ balance[u] = 0
    BY <1>1 DEF Init
  <2> QED
    BY <1>1, <2>1, <2>2 DEF CacheIsLedger
<1>4. StakesAreBacked
  <2>1. \A u \in Users, p \in PostIds : {r \in ledger : r.kind = "bet" /\ r.user = u /\ r.post = p} = {}
    BY <1>1
  <2>2. \A u \in Users, p \in PostIds : bet[p][u].stake = 0 /\ cancelled[u][p] = 0
    BY DEF Init, NoBet
  <2> QED
    BY <1>1, <2>1, <2>2 DEF StakesAreBacked
<1>5. BookBalances
  <2>1. ASSUME NEW p \in PostIds
        PROVE  /\ SumFunctionOnSet([u \in Users |-> cancelled[u][p]], Users) = 0
               /\ SumFunctionOnSet([u \in Users |-> Got(p, u) - bet[p][u].stake], Users) = 0
    <3> DEFINE c == [u \in Users |-> cancelled[u][p]]
               g == [u \in Users |-> Got(p, u) - bet[p][u].stake]
    <3>1. \A u \in Users : c[u] = 0 /\ g[u] = 0
      BY DEF Init, Got, NoPost, NoBet
    <3> HIDE DEF c, g
    <3>2. SumFunctionOnSet(c, Users) = 0 /\ SumFunctionOnSet(g, Users) = 0
      BY <3>1, ZeroSum, UsersAssumption
    <3> QED
      BY <3>2 DEF c, g
  <2>2. \A p \in PostIds : PostRows(ledger, p) = {}
    BY <1>1 DEF PostRows
  <2>3. ASSUME NEW p \in PostIds
        PROVE  Sum(PostRows(ledger, p)) + SumFunctionOnSet([u \in Users |-> cancelled[u][p]], Users)
                 = SumFunctionOnSet([u \in Users |-> Got(p, u) - bet[p][u].stake], Users)
    <3>1. Sum(PostRows(ledger, p)) = 0
      BY <1>1, <2>2
    <3> QED
      BY <2>1, <3>1
  <2> QED
    BY <2>3 DEF BookBalances
<1> QED
  BY <1>1, <1>2, <1>3, <1>4, <1>5 DEF BankInv

\* Every step keeps the bank in order.
LEMMA NextBank == BankInv /\ SpareInv /\ SpareInv' /\ [Next]_vars => BankInv'
<1> SUFFICES ASSUME BankInv, SpareInv, SpareInv', [Next]_vars PROVE BankInv'
  OBVIOUS
<1>1. week \in 0..MaxWeek /\ assessed \subseteq 0..MaxWeek /\ balance \in [Users -> Nat] /\ seeded \in [Users -> Int]
  BY DEF BankInv, TypeOK
<1>2. ASSUME NEW u \in Users, UserStep(u) PROVE BankInv'
  <2>1. CASE EnsureSeeded(u)
    <3>1. seeded' \in [Users -> Int] /\ 500 \in Int
      BY <1>1, <2>1 DEF EnsureSeeded
    <3> QED
      BY <2>1, <3>1, FaucetStep DEF EnsureSeeded
  <2>2. CASE Choose(u)
    BY <1>1, <2>2, StandStep DEF Choose
  <2>3. ASSUME NEW m \in MatchIds, GrantMatchReward(u, m) PROVE BankInv'
    <3>1. RewardAmount(balance[u]) \in Int
      BY <1>1, FlowAmounts
    <3> QED
      BY <1>1, <2>3, <3>1, FaucetStep DEF GrantMatchReward
  <2>4. ASSUME NEW q \in QuizIds, NEW correct \in BOOLEAN, GrantQuizReward(u, q, correct) PROVE BankInv'
    <3>1. QuizRewardAmount(balance[u], correct) \in Int
      BY <1>1, FlowAmounts
    <3> QED
      BY <1>1, <2>4, <3>1, FaucetStep DEF GrantQuizReward
  <2>5. ASSUME NEW p \in PostIds, NEW side \in Sides, NEW stake \in offered[u], Press(u, p, side, stake)
        PROVE  BankInv'
    BY <1>1, <2>5, StandStep DEF Press
  <2> QED
    BY <1>2, <2>1, <2>2, <2>3, <2>4, <2>5, TakeBackStep, SettleStep DEF UserStep
<1>3. CASE Cutoff
  <2>1. week' \in 0..MaxWeek
    BY <1>1, <1>3, WeekAssumption DEF Cutoff
  <2> QED
    BY <1>1, <1>3, <2>1, StandStep DEF Cutoff
<1>4. CASE UNCHANGED vars
  BY <1>1, <1>4, StandStep DEF vars
<1>5. CASE \E p \in PostIds : OpenBook(p) \/ \E v \in Sides \cup {"refund"} : CloseBook(p, v)
  BY <1>5, BookStep
<1>6. CASE \E x \in sent : Deliver(x)
  BY <1>6, StakeStep
<1>7. CASE \E k \in 0..MaxWeek : RunTax(k)
  BY <1>7, AssessStep
<1> QED
  BY <1>2, <1>3, <1>4, <1>5, <1>6, <1>7 DEF Next

\* The winners of a book and their shares fit in what was staked on it; refunds give back the stake.
LEMMA NothingMinted ==
  ASSUME BankInv, SpareInv
  PROVE  BooksNeverMint
<1>1. ASSUME NEW p \in PostIds
      PROVE  SumFunctionOnSet([u \in Users |-> Got(p, u) - bet[p][u].stake], Users) <= 0
  <2> DEFINE b == bet[p]
             v == post[p].verdict
             s == [u \in Users |-> b[u].stake]
             o == [u \in Users |-> Owed(p, u)]
             d == [u \in Users |-> Got(p, u) - b[u].stake]
             e == [u \in Users |-> d[u] + s[u]]
  <2>1. \A u \in Users : s[u] \in Nat /\ o[u] \in Nat /\ d[u] \in Int /\ e[u] \in Int /\ e[u] <= o[u] /\ e[u] = d[u] + s[u]
    BY OwedNat DEF Got
  <2>2. b \in Book
    BY DEF SpareInv, StakesTyped, Book
  <2>3. SumFunctionOnSet(o, Users) <= SumFunctionOnSet(s, Users)
    <3>1. CASE v \notin Sides \/ Winners(b, v) = {}
      <4>1. \A u \in Users : o[u] <= s[u]
        BY <2>1, <3>1 DEF Owed
      <4> HIDE DEF o, s
      <4> QED
        BY <2>1, <4>1, UsersAssumption, SumLeq
    <3>2. CASE v \in Sides /\ Winners(b, v) # {}
      <4> DEFINE W == Winners(b, v)
                 A == Bettors(b)
                 f == [u \in Users |-> Share(b, v, u)]
                 t == [u \in A |-> b[u].stake]
      <4>1. W \subseteq Users /\ A \subseteq Users /\ W = Backers(b, v) /\ IsFiniteSet(W) /\ IsFiniteSet(A)
        BY UsersAssumption, FS_Subset, <3>2 DEF Winners, Backers, Bettors
      <4>2. SumFunctionOnSet(o, Users) = SumFunctionOnSet(o, W)
        <5>1. \A u \in Users \ W : o[u] = 0
          BY <3>2 DEF Owed
        <5> HIDE DEF o, W
        <5> QED
          BY <2>1, <4>1, <5>1, UsersAssumption, SumNonzero
      <4>3. SumFunctionOnSet(o, W) = SumFunctionOnSet(f, W)
        <5>1. \A u \in W : o[u] = f[u]
          BY <3>2, <4>1 DEF Owed
        <5> HIDE DEF o, f, W
        <5> QED
          BY <4>1, <5>1, SumSame
      <4>4. SumFunctionOnSet(s, Users) = SumFunctionOnSet(s, A)
        <5>1. \A u \in Users \ A : s[u] = 0
          BY <2>1 DEF Bettors
        <5> HIDE DEF s, A
        <5> QED
          BY <2>1, <4>1, <5>1, UsersAssumption, SumNonzero
      <4>5. SumFunctionOnSet(s, A) = SumFunctionOnSet(t, A)
        <5>1. \A u \in A : s[u] = t[u]
          BY <4>1
        <5> HIDE DEF s, t, A
        <5> QED
          BY <4>1, <5>1, SumSame
      <4>6. SumFunctionOnSet(t, A) = Pool(b, A)
        BY DEF Pool
      <4>7. Burned(b, v) = Pool(b, A) - SumFunctionOnSet(f, W)
        BY <3>2 DEF Burned
      <4>8. SumFunctionOnSet(f, W) \in Int /\ Burned(b, v) >= 0 /\ Pool(b, A) \in Nat
        BY <2>2, <3>2, <4>1, SharesFitPot, PoolFacts
      <4> HIDE DEF o, s, f, t
      <4> QED
        BY <4>2, <4>3, <4>4, <4>5, <4>6, <4>7, <4>8
    <3> QED
      BY <3>1, <3>2
  <2> HIDE DEF s, o, d, e
  <2>4. SumFunctionOnSet(e, Users) <= SumFunctionOnSet(o, Users)
    BY <2>1, UsersAssumption, SumLeq
  <2>5. SumFunctionOnSet(e, Users) = SumFunctionOnSet(d, Users) + SumFunctionOnSet(s, Users)
    BY <2>1, UsersAssumption, SumOfSums
  <2>6. SumFunctionOnSet(e, Users) \in Int /\ SumFunctionOnSet(d, Users) \in Int /\ SumFunctionOnSet(s, Users) \in Int
        /\ SumFunctionOnSet(o, Users) \in Int
    BY <2>1, UsersAssumption, SumInt
  <2>7. SumFunctionOnSet(d, Users) <= 0
    BY <2>3, <2>4, <2>5, <2>6
  <2> QED
    BY <2>7 DEF d
<1> QED
  BY <1>1 DEF BankInv, BookBalances, BooksNeverMint, PostRows

----------------------------------------------------------------------------
\* The theorems about the bank.

\* place_bet, settle and the weekly tax never overdraw a wallet: no balance is below zero.
THEOREM BankTypes == Spec => []TypeOK
<1>1. BankInv => TypeOK
  BY DEF BankInv
<1> QED
  BY InitSpare, NextSpare, InitBank, NextBank, <1>1, PTL DEF Spec

\* gold.reconcile finds nothing: whatever is delivered twice, refused or retried, the cached balance
\* is the sum of the user's ledger rows.
THEOREM BalanceIsLedger == Spec => []CacheIsLedger
<1>1. BankInv => CacheIsLedger
  BY DEF BankInv
<1> QED
  BY InitSpare, NextSpare, InitBank, NextBank, <1>1, PTL DEF Spec

\* What prediction_bets says stands on a book was paid for through place_bet, and not taken back.
THEOREM StakesBacked == Spec => []StakesAreBacked
<1>1. BankInv => StakesAreBacked
  BY DEF BankInv
<1> QED
  BY InitSpare, NextSpare, InitBank, NextBank, <1>1, PTL DEF Spec

\* However a book ends, settlement and refunds give back at most what the presses took.
THEOREM NoGoldIsMinted == Spec => []BooksNeverMint
<1> QED
  BY InitSpare, NextSpare, InitBank, NextBank, NothingMinted, PTL DEF Spec

\* Which steps write rows of the flows that stop at 500.
LEMMA FlowStep ==
  ASSUME BankInv, SpareInv, [Next]_vars, NEW r \in ledger' \ ledger
  PROVE  /\ r.kind \in {"match_reward", "quiz"} => balance'[r.user] <= 500
         /\ r.kind = "tax" => balance'[r.user] >= 500
<1>1. balance \in [Users -> Nat]
  BY DEF BankInv, TypeOK
<1>2. ASSUME NEW x, Apply(x) PROVE r = x /\ balance' = [balance EXCEPT ![x.user] = @ + x.amount]
  BY <1>2 DEF Apply
<1>3. ASSUME NEW kind, NEW ref, NEW u \in Users, NEW p, NEW amount, kind \notin {"match_reward", "quiz", "tax"},
             Apply(Row(kind, ref, u, p, amount))
      PROVE  r.kind \notin {"match_reward", "quiz", "tax"}
  BY <1>2, <1>3 DEF Row
<1>4. ASSUME NEW kind \in {"match_reward", "quiz"}, NEW ref, NEW u \in Users, NEW amount \in Int,
             CreditRow(Row(kind, ref, u, 0, amount)), amount > 0 => balance[u] + amount <= 500
      PROVE  r.kind = kind /\ balance'[r.user] <= 500
  <2> DEFINE x == Row(kind, ref, u, 0, amount)
  <2>1. x.kind = kind /\ x.user = u /\ x.amount = amount
    BY DEF Row
  <2>2. Apply(x) /\ x.amount > 0
    BY <1>4 DEF CreditRow, Pays
  <2> HIDE DEF x
  <2>3. r = x /\ balance' = [balance EXCEPT ![u] = @ + amount]
    BY <1>2, <2>1, <2>2
  <2> QED
    BY <1>1, <1>4, <2>1, <2>2, <2>3
<1>5. ASSUME NEW u \in Users, UserStep(u)
      PROVE  (r.kind \in {"match_reward", "quiz"} /\ balance'[r.user] <= 500) \/ r.kind \notin {"match_reward", "quiz", "tax"}
  <2>1. CASE EnsureSeeded(u)
    BY <1>3, <2>1 DEF EnsureSeeded, CreditRow
  <2>2. ASSUME NEW m \in MatchIds, GrantMatchReward(u, m) PROVE r.kind = "match_reward" /\ balance'[r.user] <= 500
    <3> DEFINE a == RewardAmount(balance[u])
    <3>1. a \in Int /\ (a > 0 => balance[u] + a <= 500)
      BY <1>1, FlowAmounts
    <3>2. CreditRow(Row("match_reward", m, u, 0, a))
      BY <2>2 DEF GrantMatchReward
    <3> HIDE DEF a
    <3> QED
      BY <1>4, <3>1, <3>2
  <2>3. ASSUME NEW q \in QuizIds, NEW correct \in BOOLEAN, GrantQuizReward(u, q, correct)
        PROVE  r.kind = "quiz" /\ balance'[r.user] <= 500
    <3> DEFINE a == QuizRewardAmount(balance[u], correct)
    <3>1. a \in Int /\ (a > 0 => balance[u] + a <= 500)
      BY <1>1, FlowAmounts
    <3>2. CreditRow(Row("quiz", q, u, 0, a))
      BY <2>3 DEF GrantQuizReward
    <3> HIDE DEF a
    <3> QED
      BY <1>4, <3>1, <3>2
  <2>4. ASSUME NEW p \in PostIds, SettleUser(p, u) PROVE r.kind \notin {"match_reward", "quiz", "tax"}
    BY <1>3, <2>4 DEF SettleUser, CreditRow
  <2>5. ASSUME NEW p \in PostIds, NEW side \in Sides, NEW stake \in offered[u],
               Choose(u) \/ CancelBet(u, p) \/ Press(u, p, side, stake)
        PROVE  FALSE
    BY <2>5 DEF Choose, CancelBet, Press
  <2>6. ~Choose(u) /\ \A p \in PostIds : ~CancelBet(u, p)
    BY DEF Choose, CancelBet
  <2> QED
    BY <1>5, <2>1, <2>2, <2>3, <2>4, <2>5, <2>6 DEF UserStep
<1>6. ASSUME NEW k \in 0..MaxWeek, RunTax(k) PROVE r.kind = "tax" /\ balance'[r.user] >= 500
  <2>1. PICK u \in Users : Tax(u, k) > 0 /\ r = Row("tax", k, u, 0, -Tax(u, k))
    BY <1>6 DEF RunTax
  <2>2. r.kind = "tax" /\ r.user = u /\ balance'[u] = balance[u] - Tax(u, k)
    BY <1>6, <2>1 DEF RunTax, Row
  <2>3. Tax(u, k) = TaxAmount(balance[u], Participated(u, k)) /\ Participated(u, k) \in BOOLEAN
    <3>1. Participated(u, k) \in BOOLEAN
      BY DEF Participated
    <3>2. CASE ~Opportunity(k) \/ seeded[u] = NotSeeded \/ seeded[u] >= k - 1
      BY <2>1, <3>2 DEF Tax
    <3>3. CASE ~(~Opportunity(k) \/ seeded[u] = NotSeeded \/ seeded[u] >= k - 1)
      BY <3>1, <3>3 DEF Tax
    <3> QED
      BY <3>2, <3>3
  <2>4. balance[u] - Tax(u, k) >= 500
    BY <1>1, <2>1, <2>3, FlowAmounts
  <2> QED
    BY <2>2, <2>4
<1>7. ASSUME NEW x \in sent, Deliver(x) PROVE r.kind \notin {"match_reward", "quiz", "tax"}
  <2>1. x.user \in Users
    BY DEF SpareInv, StakesTyped
  <2> QED
    BY <1>3, <1>7, <2>1 DEF Deliver
<1>8. ~Cutoff /\ ~UNCHANGED vars /\ \A p \in PostIds : ~OpenBook(p) /\ \A v \in Sides \cup {"refund"} : ~CloseBook(p, v)
  BY DEF Cutoff, vars, OpenBook, CloseBook
<1> QED
  BY <1>5, <1>6, <1>7, <1>8 DEF Next

\* reward_amount and quiz_reward_amount lift nobody above 500 gold and tax_amount pushes nobody below,
\* from any balance a wallet reaches.
THEOREM FlowsMeetAt500 == Spec => FlowsStopAt500
<1>1. BankInv /\ SpareInv /\ [Next]_vars =>
        [\A r \in ledger' \ ledger :
           /\ r.kind \in {"match_reward", "quiz"} => balance'[r.user] <= 500
           /\ r.kind = "tax" => balance'[r.user] >= 500]_vars
  BY FlowStep
<1> QED
  BY InitSpare, NextSpare, InitBank, NextBank, <1>1, PTL DEF Spec, FlowsStopAt500

=============================================================================
