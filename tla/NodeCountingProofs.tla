------------------------- MODULE NodeCountingProofs -------------------------
(***************************************************************************)
(* NodeCounting proved for all fields that are given by Conway polynomials *)
(* (the assumptions of FiniteField), all genera, numbers of threads and    *)
(* sizes of blocks: each pair of a record and a store file is consistent.  *)
(*                                                                         *)
(* The invariant says that a block is in one place only (to come from the  *)
(* iterator, with one thread, in the static record, or in one file), that  *)
(* the static store has the curves of the static record, and that of a     *)
(* file those of the record with it.  It takes                             *)
(*   - that sums over finite sets are what the folds of the community      *)
(*     modules compute, in whatever order they choose elements;            *)
(*   - that registering, merging and writing stores neither loses curves   *)
(*     nor makes any up;                                                   *)
(*   - that stepping an iterator comes to each block once, and the         *)
(*     enumerators of a degree have no block in common;                    *)
(*   - that every position of a block is a curve with a multiplicity.      *)
(***************************************************************************)
EXTENDS NodeCounting, FiniteSetTheorems, WellFoundedInduction, TLAPS

\* Induction up to a number, for a property that is given as a set.
LEMMA UpTo ==
    ASSUME NEW N \in Nat, NEW S, 0 \in S, \A n \in 1..N : n - 1 \in S => n \in S
    PROVE  \A n \in 0..N : n \in S
  <1>. DEFINE R == OpToRel(<, Nat)
              T == {n \in 0..N : n \notin S}
  <1>1. IsWellFoundedOn(R, Nat)
    BY NatLessThanWellFounded
  <1>. SUFFICES ASSUME T # {} PROVE FALSE
    OBVIOUS
  <1>2. T \subseteq Nat
    OBVIOUS
  <1>. HIDE DEF R, T
  <1>3. PICK x \in T : \A y \in T : ~ (<<y, x>> \in R)
    BY <1>1, <1>2, WFMin
  <1>4. x \in 1..N /\ x \notin S
    BY DEF T
  <1>5. x - 1 \in 0..N /\ x - 1 \notin S
    BY <1>4
  <1>6. <<x - 1, x>> \in R
    BY <1>4, <1>5 DEF R, OpToRel
  <1>. QED
    BY <1>3, <1>5, <1>6 DEF T

\* Induction over the subsets of a finite set, by taking an element away.
LEMMA SubsetInductionAll ==
    ASSUME NEW S, IsFiniteSet(S), NEW T, {} \in T,
           \A s \in SUBSET S : s # {} /\ (\A x \in s : s \ {x} \in T) => s \in T
    PROVE  \A s \in SUBSET S : s \in T
  <1>. DEFINE N == Cardinality(S)
              I == {n \in 0..N : \A s \in SUBSET S : Cardinality(s) = n => s \in T}
  <1>1. N \in Nat
    BY FS_CardinalityType
  <1>2. \A s \in SUBSET S : IsFiniteSet(s) /\ Cardinality(s) \in 0..N
    <2>. SUFFICES ASSUME NEW s \in SUBSET S
                  PROVE  IsFiniteSet(s) /\ Cardinality(s) \in 0..N
      OBVIOUS
    <2>1. IsFiniteSet(s) /\ Cardinality(s) <= N
      BY FS_Subset
    <2>. QED
      BY <2>1, <1>1, FS_CardinalityType
  <1>3. 0 \in I
    BY <1>1, <1>2, FS_EmptySet
  <1>4. ASSUME NEW n \in 1..N, n - 1 \in I
        PROVE  n \in I
    <2>. SUFFICES ASSUME NEW s \in SUBSET S, Cardinality(s) = n
                  PROVE  s \in T
      BY <1>1
    <2>1. s # {}
      BY FS_EmptySet
    <2>2. ASSUME NEW x \in s
          PROVE  s \ {x} \in T
      <3>1. Cardinality(s \ {x}) = n - 1
        BY <1>2, FS_RemoveElement
      <3>. QED
        BY <3>1, <1>4
    <2>. QED
      BY <2>1, <2>2
  <1>. HIDE DEF N, I
  <1>5. \A n \in 0..N : n \in I
    BY <1>1, <1>3, <1>4, UpTo
  <1>. QED
    BY <1>2, <1>5 DEF I

\* The same, where the empty set needs no case of its own.
LEMMA SubsetInduction ==
    ASSUME NEW S, IsFiniteSet(S), NEW T, {} \in T,
           \A s \in SUBSET S : \A x \in s : s \ {x} \in T => s \in T
    PROVE  \A s \in SUBSET S : s \in T
  <1>1. \A s \in SUBSET S : s # {} /\ (\A x \in s : s \ {x} \in T) => s \in T
    OBVIOUS
  <1>. QED
    BY <1>1, SubsetInductionAll

-----------------------------------------------------------------------------
(* Sums over finite sets                                                   *)

\* sum is the sum of f over each subset of S.
Additive(sum, f, S) ==
    /\ sum \in [SUBSET S -> Int]
    /\ sum[{}] = 0
    /\ \A s \in SUBSET S : \A x \in s : sum[s] = sum[s \ {x}] + f[x]

SumOf(f, S) == (CHOOSE sum : Additive(sum, f, S))[S]

Ints(f, S) == \A x \in S : f[x] \in Int

\* Integers over a finite set have sums over all its subsets.
LEMMA AdditiveExists ==
    ASSUME NEW S, IsFiniteSet(S), NEW f, Ints(f, S)
    PROVE  \E sum : Additive(sum, f, S)
  <1>. DEFINE T == {s \in SUBSET S : \E sum : Additive(sum, f, s)}
  <1>1. {} \in T
    <2>1. Additive([s \in SUBSET {} |-> 0], f, {})
      BY DEF Additive
    <2>. QED
      BY <2>1
  <1>2. ASSUME NEW s \in SUBSET S, NEW x \in s, s \ {x} \in T
        PROVE  s \in T
    <2>1. PICK old : Additive(old, f, s \ {x})
      BY <1>2
    <2>. DEFINE sum == [t \in SUBSET s |-> IF x \in t THEN old[t \ {x}] + f[x] ELSE old[t]]
    <2>2. f[x] \in Int
      BY DEF Ints
    <2>3. \A t \in SUBSET s : (t \ {x}) \in SUBSET (s \ {x}) /\ (x \notin t => t \in SUBSET (s \ {x}))
      OBVIOUS
    <2>4. \A t \in SUBSET (s \ {x}) : old[t] \in Int
      BY <2>1 DEF Additive
    <2>5. \A t \in SUBSET s : sum[t] = IF x \in t THEN old[t \ {x}] + f[x] ELSE old[t]
      OBVIOUS
    <2>6. \A t \in SUBSET s : sum[t] \in Int
      BY <2>2, <2>3, <2>4
    <2>7. sum \in [SUBSET s -> Int]
      BY <2>6
    <2>8. sum[{}] = 0
      BY <2>1 DEF Additive
    <2>9. ASSUME NEW t \in SUBSET s, NEW y \in t
          PROVE  sum[t] = sum[t \ {y}] + f[y]
      <3>1. CASE y = x
        <4>1. sum[t] = old[t \ {x}] + f[x]
          BY <3>1
        <4>2. sum[t \ {x}] = old[t \ {x}]
          OBVIOUS
        <4>. QED
          BY <4>1, <4>2, <3>1
      <3>2. CASE y # x /\ x \in t
        <4>1. sum[t] = old[t \ {x}] + f[x]
          BY <3>2
        <4>2. sum[t \ {y}] = old[(t \ {y}) \ {x}] + f[x]
          BY <3>2
        <4>3. (t \ {y}) \ {x} = (t \ {x}) \ {y}
          OBVIOUS
        <4>4. y \in t \ {x} /\ t \ {x} \in SUBSET (s \ {x})
          BY <3>2
        <4>5. old[t \ {x}] = old[(t \ {x}) \ {y}] + f[y]
          BY <4>4, <2>1 DEF Additive
        <4>6. f[y] \in Int /\ old[(t \ {x}) \ {y}] \in Int
          BY <2>4 DEF Ints
        <4>7. sum[t \ {y}] = old[(t \ {x}) \ {y}] + f[x]
          BY <4>2, <4>3, Zenon
        <4>. HIDE DEF sum
        <4>. QED
          BY <4>1, <4>5, <4>6, <4>7, <2>2
      <3>3. CASE y # x /\ x \notin t
        <4>1. sum[t] = old[t] /\ sum[t \ {y}] = old[t \ {y}]
          BY <3>3
        <4>2. t \in SUBSET (s \ {x})
          BY <3>3
        <4>. QED
          BY <4>1, <4>2, <2>1 DEF Additive
      <3>. QED
        BY <3>1, <3>2, <3>3
    <2>. HIDE DEF sum
    <2>10. Additive(sum, f, s)
      BY <2>7, <2>8, <2>9 DEF Additive
    <2>. QED
      BY <2>10
  <1>. HIDE DEF T
  <1>3. \A s \in SUBSET S : s \in T
    BY <1>1, <1>2, SubsetInduction
  <1>. QED
    BY <1>3 DEF T

\* The sums over subsets of one set and of another agree where both are.
LEMMA AdditiveAgree ==
    ASSUME NEW S, IsFiniteSet(S), NEW R, NEW U, S \subseteq R, S \subseteq U,
           NEW f, NEW g, \A x \in S : f[x] = g[x],
           NEW p, NEW q, Additive(p, f, R), Additive(q, g, U)
    PROVE  p[S] = q[S]
  <1>. DEFINE T == {s \in SUBSET S : p[s] = q[s]}
  <1>1. {} \in T
    BY DEF Additive
  <1>2. ASSUME NEW s \in SUBSET S, NEW x \in s, s \ {x} \in T
        PROVE  s \in T
    <2>1. s \in SUBSET R /\ s \in SUBSET U
      OBVIOUS
    <2>2. p[s] = p[s \ {x}] + f[x]
      BY <2>1 DEF Additive
    <2>3. q[s] = q[s \ {x}] + g[x]
      BY <2>1 DEF Additive
    <2>4. p[s \ {x}] = q[s \ {x}] /\ f[x] = g[x]
      BY <1>2
    <2>. QED
      BY <2>2, <2>3, <2>4
  <1>. HIDE DEF T
  <1>3. S \in T
    BY <1>1, <1>2, SubsetInduction
  <1>. QED
    BY <1>3 DEF T

\* The sum is that of any function that adds up.
LEMMA SumIs ==
    ASSUME NEW S, IsFiniteSet(S), NEW f, Ints(f, S), NEW sum, Additive(sum, f, S)
    PROVE  SumOf(f, S) = sum[S]
  <1>. DEFINE c == CHOOSE s : Additive(s, f, S)
  <1>1. Additive(c, f, S)
    BY Zenon
  <1>. HIDE DEF c
  <1>2. c[S] = sum[S]
    BY <1>1, AdditiveAgree
  <1>. QED
    BY <1>2, Zenon DEF SumOf, c

\* A sum of integers is one.
LEMMA SumInt ==
    ASSUME NEW S, IsFiniteSet(S), NEW f, Ints(f, S)
    PROVE  SumOf(f, S) \in Int
  <1>1. PICK sum : Additive(sum, f, S)
    BY AdditiveExists
  <1>2. sum[S] \in Int
    BY <1>1 DEF Additive
  <1>. QED
    BY <1>1, <1>2, SumIs

\* The sum over the empty set.
LEMMA SumEmpty ==
    ASSUME NEW f
    PROVE  SumOf(f, {}) = 0
  <1>1. IsFiniteSet({}) /\ Ints(f, {})
    BY FS_EmptySet DEF Ints
  <1>2. PICK sum : Additive(sum, f, {})
    BY <1>1, AdditiveExists
  <1>. QED
    BY <1>1, <1>2, SumIs DEF Additive

\* The sum over a subset is what the sums for the set say.
LEMMA SumPart ==
    ASSUME NEW S, IsFiniteSet(S), NEW f, Ints(f, S), NEW sum, Additive(sum, f, S),
           NEW s \in SUBSET S
    PROVE  SumOf(f, s) = sum[s]
  <1>1. IsFiniteSet(s) /\ Ints(f, s)
    BY FS_Subset DEF Ints
  <1>2. PICK p : Additive(p, f, s)
    BY <1>1, AdditiveExists
  <1>3. SumOf(f, s) = p[s]
    BY <1>1, <1>2, SumIs
  <1>4. p[s] = sum[s]
    BY <1>1, <1>2, AdditiveAgree
  <1>. QED
    BY <1>3, <1>4

\* An element can be taken out of a sum.
LEMMA SumRemove ==
    ASSUME NEW S, IsFiniteSet(S), NEW f, Ints(f, S), NEW x \in S
    PROVE  SumOf(f, S) = SumOf(f, S \ {x}) + f[x]
  <1>1. PICK sum : Additive(sum, f, S)
    BY AdditiveExists
  <1>2. SumOf(f, S) = sum[S] /\ SumOf(f, S \ {x}) = sum[S \ {x}]
    BY <1>1, SumPart
  <1>3. sum[S] = sum[S \ {x}] + f[x]
    BY <1>1 DEF Additive
  <1>. QED
    BY <1>2, <1>3

\* A sum depends on the values in the set only.
LEMMA SumSame ==
    ASSUME NEW S, IsFiniteSet(S), NEW f, Ints(f, S), NEW g, \A x \in S : f[x] = g[x]
    PROVE  SumOf(f, S) = SumOf(g, S)
  <1>1. Ints(g, S)
    BY DEF Ints
  <1>2. PICK p : Additive(p, f, S)
    BY AdditiveExists
  <1>3. PICK q : Additive(q, g, S)
    BY <1>1, AdditiveExists
  <1>4. p[S] = q[S]
    BY <1>2, <1>3, AdditiveAgree
  <1>. QED
    BY <1>1, <1>2, <1>3, <1>4, SumIs

\* Sums of values that are sums.
LEMMA SumPlus ==
    ASSUME NEW S, IsFiniteSet(S), NEW f, Ints(f, S), NEW g, Ints(g, S),
           NEW h, \A x \in S : h[x] = f[x] + g[x]
    PROVE  SumOf(h, S) = SumOf(f, S) + SumOf(g, S)
  <1>1. Ints(h, S)
    BY DEF Ints
  <1>2. PICK p : Additive(p, f, S)
    BY AdditiveExists
  <1>3. PICK q : Additive(q, g, S)
    BY AdditiveExists
  <1>. DEFINE r == [s \in SUBSET S |-> p[s] + q[s]]
  <1>4. \A s \in SUBSET S : p[s] \in Int /\ q[s] \in Int
    BY <1>2, <1>3 DEF Additive
  <1>5. r \in [SUBSET S -> Int] /\ r[{}] = 0
    BY <1>2, <1>3, <1>4 DEF Additive
  <1>6. ASSUME NEW s \in SUBSET S, NEW x \in s
        PROVE  r[s] = r[s \ {x}] + h[x]
    <2>1. p[s] = p[s \ {x}] + f[x] /\ q[s] = q[s \ {x}] + g[x]
      BY <1>2, <1>3 DEF Additive
    <2>2. r[s] = p[s] + q[s] /\ r[s \ {x}] = p[s \ {x}] + q[s \ {x}]
      OBVIOUS
    <2>3. p[s \ {x}] \in Int /\ q[s \ {x}] \in Int /\ f[x] \in Int /\ g[x] \in Int
      BY <1>4 DEF Ints
    <2>. HIDE DEF r
    <2>. QED
      BY <2>1, <2>2, <2>3
  <1>7. r[S] = p[S] + q[S]
    OBVIOUS
  <1>. HIDE DEF r
  <1>8. Additive(r, h, S)
    BY <1>5, <1>6 DEF Additive
  <1>. QED
    BY <1>1, <1>2, <1>3, <1>7, <1>8, SumIs

\* Elements with the value zero do not matter.
LEMMA SumZeros ==
    ASSUME NEW T, IsFiniteSet(T), NEW f, Ints(f, T), NEW S \in SUBSET T,
           \A x \in T \ S : f[x] = 0
    PROVE  SumOf(f, T) = SumOf(f, S)
  <1>1. PICK sum : Additive(sum, f, T)
    BY AdditiveExists
  <1>. DEFINE I == {s \in SUBSET (T \ S) : sum[S \cup s] = sum[S]}
  <1>2. {} \in I
    <2>1. S \cup {} = S
      OBVIOUS
    <2>. QED
      BY <2>1
  <1>3. ASSUME NEW s \in SUBSET (T \ S), NEW x \in s, s \ {x} \in I
        PROVE  s \in I
    <2>1. (S \cup s) \in SUBSET T /\ x \in (S \cup s)
      OBVIOUS
    <2>2. sum[S \cup s] = sum[(S \cup s) \ {x}] + f[x]
      BY <1>1, <2>1 DEF Additive
    <2>3. (S \cup s) \ {x} = S \cup (s \ {x})
      OBVIOUS
    <2>4. sum[S \cup (s \ {x})] = sum[S] /\ f[x] = 0
      BY <1>3
    <2>5. sum[S] \in Int
      BY <1>1 DEF Additive
    <2>. QED
      BY <2>2, <2>3, <2>4, <2>5
  <1>. DEFINE D == T \ S
  <1>4. IsFiniteSet(D) /\ \A s \in SUBSET D : \A x \in s : s \ {x} \in I => s \in I
    BY <1>3, FS_Subset
  <1>. HIDE DEF I, D
  <1>5. D \in I
    <2>1. \A s \in SUBSET D : s \in I
      BY <1>2, <1>4, SubsetInduction
    <2>. QED
      BY <2>1
  <1>6. T = S \cup D
    BY DEF D
  <1>7. sum[T] = sum[S]
    BY <1>5, <1>6 DEF I
  <1>8. SumOf(f, T) = sum[T] /\ SumOf(f, S) = sum[S]
    BY <1>1, SumPart
  <1>. QED
    BY <1>7, <1>8

\* The sum is the same over other names for the elements.
LEMMA SumRenamed ==
    ASSUME NEW S, IsFiniteSet(S), NEW b, \A x, y \in S : b[x] = b[y] => x = y,
           NEW T, T = {b[x] : x \in S}, NEW f, Ints(f, T),
           NEW g, \A x \in S : g[x] = f[b[x]]
    PROVE  SumOf(g, S) = SumOf(f, T)
  <1>1. Ints(g, S)
    BY DEF Ints
  <1>2. IsFiniteSet(T)
    <2>1. [x \in S |-> b[x]] \in Surjection(S, T)
      BY DEF Surjection
    <2>. QED
      BY <2>1, FS_Surjection
  <1>3. PICK p : Additive(p, g, S)
    BY <1>1, AdditiveExists
  <1>4. PICK q : Additive(q, f, T)
    BY <1>2, AdditiveExists
  <1>. DEFINE Image(s) == {b[x] : x \in s}
              I == {s \in SUBSET S : p[s] = q[Image(s)]}
  <1>5. {} \in I
    <2>1. Image({}) = {}
      OBVIOUS
    <2>. QED
      BY <2>1, <1>3, <1>4 DEF Additive
  <1>6. ASSUME NEW s \in SUBSET S, NEW x \in s, s \ {x} \in I
        PROVE  s \in I
    <2>1. Image(s) \in SUBSET T /\ b[x] \in Image(s)
      OBVIOUS
    <2>2. Image(s) \ {b[x]} = Image(s \ {x})
      OBVIOUS
    <2>3. q[Image(s)] = q[Image(s) \ {b[x]}] + f[b[x]]
      BY <1>4, <2>1 DEF Additive
    <2>4. p[s] = p[s \ {x}] + g[x]
      BY <1>3 DEF Additive
    <2>5. p[s \ {x}] = q[Image(s \ {x})] /\ g[x] = f[b[x]]
      BY <1>6
    <2>. QED
      BY <2>2, <2>3, <2>4, <2>5
  <1>. HIDE DEF I
  <1>7. \A s \in SUBSET S : s \in I
    BY <1>5, <1>6, SubsetInduction
  <1>8. p[S] = q[T]
    BY <1>7 DEF I
  <1>. QED
    BY <1>1, <1>2, <1>3, <1>4, <1>8, SumIs

\* The folds that add numbers up go through the set by picking an element of what
\* is left: the sums solve their equation.
AddsUp(h, f, S, pick) ==
    h = [s \in SUBSET S |-> IF s = {} THEN 0 ELSE f[pick[s]] + h[s \ {pick[s]}]]

\* The sum solves the recursion of MapThenSumSet, whatever elements are chosen.
LEMMA SumSolves ==
    ASSUME NEW S, IsFiniteSet(S), NEW f, Ints(f, S),
           NEW pick, \A s \in SUBSET S : s # {} => pick[s] \in s
    PROVE  \E h \in [SUBSET S -> Int] : AddsUp(h, f, S, pick) /\ h[S] = SumOf(f, S)
  <1>1. PICK p : Additive(p, f, S)
    BY AdditiveExists
  <1>2. ASSUME NEW s \in SUBSET S, s # {}
        PROVE  p[s] = f[pick[s]] + p[s \ {pick[s]}]
    <2>1. pick[s] \in s
      BY <1>2
    <2>2. p[s] = p[s \ {pick[s]}] + f[pick[s]]
      BY <1>1, <2>1 DEF Additive
    <2>3. p[s \ {pick[s]}] \in Int /\ f[pick[s]] \in Int
      BY <1>1, <2>1 DEF Additive, Ints
    <2>. QED
      BY <2>2, <2>3
  <1>3. p = [s \in SUBSET S |-> p[s]] /\ p[{}] = 0
    BY <1>1 DEF Additive
  <1>4. p = [s \in SUBSET S |-> IF s = {} THEN 0 ELSE f[pick[s]] + p[s \ {pick[s]}]]
    BY <1>2, <1>3
  <1>5. p[S] = SumOf(f, S)
    BY <1>1, SumIs
  <1>6. p \in [SUBSET S -> Int]
    BY <1>1 DEF Additive
  <1>. QED
    BY <1>4, <1>5, <1>6 DEF AddsUp

\* Any fold has a solution.
Folds(h, S, V, a, G, pick) ==
    /\ h \in [SUBSET S -> V]
    /\ \A s \in SUBSET S : h[s] = IF s = {} THEN a ELSE G[pick[s]][h[s \ {pick[s]}]]

\* A fold has a solution, whatever elements are chosen.
LEMMA FoldSolves ==
    ASSUME NEW S, IsFiniteSet(S), NEW V, NEW a \in V, NEW G \in [S -> [V -> V]],
           NEW pick, \A s \in SUBSET S : s # {} => pick[s] \in s
    PROVE  \E h : Folds(h, S, V, a, G, pick)
  <1>. DEFINE N == Cardinality(S)
              Value(h, s) == IF s = {} THEN a ELSE G[pick[s]][h[s \ {pick[s]}]]
              Solves(h, n) == /\ h \in [SUBSET S -> V]
                              /\ \A s \in SUBSET S : Cardinality(s) <= n => h[s] = Value(h, s)
              I == {n \in 0..N : \E h : Solves(h, n)}
  <1>1. N \in Nat /\ \A s \in SUBSET S : IsFiniteSet(s) /\ Cardinality(s) \in 0..N
    <2>1. N \in Nat
      BY FS_CardinalityType
    <2>2. ASSUME NEW s \in SUBSET S
          PROVE  IsFiniteSet(s) /\ Cardinality(s) \in 0..N
      BY <2>1, FS_Subset, FS_CardinalityType
    <2>. QED
      BY <2>1, <2>2
  <1>2. 0 \in I
    <2>. DEFINE h == [s \in SUBSET S |-> a]
    <2>1. ASSUME NEW s \in SUBSET S, Cardinality(s) <= 0
          PROVE  h[s] = Value(h, s)
      <3>1. s = {}
        BY <1>1, <2>1, FS_EmptySet
      <3>. QED
        BY <3>1
    <2>2. Solves(h, 0)
      BY <2>1
    <2>3. 0 \in 0..N
      BY <1>1
    <2>. HIDE DEF Solves, h, N
    <2>. QED
      BY <2>2, <2>3
  <1>3. ASSUME NEW n \in 1..N, n - 1 \in I
        PROVE  n \in I
    <2>1. PICK g : Solves(g, n - 1)
      BY <1>3
    <2>. DEFINE h == [s \in SUBSET S |-> IF Cardinality(s) = n THEN Value(g, s) ELSE g[s]]
    <2>2. ASSUME NEW s \in SUBSET S, s # {}
          PROVE  /\ pick[s] \in S /\ s \ {pick[s]} \in SUBSET S
                 /\ Cardinality(s \ {pick[s]}) = Cardinality(s) - 1
      BY <1>1, <2>2, FS_RemoveElement
    <2>3. \A s \in SUBSET S : g[s] \in V
      BY <2>1
    <2>4. ASSUME NEW s \in SUBSET S
          PROVE  Value(g, s) \in V
      <3>1. CASE s = {}
        BY <3>1
      <3>2. CASE s # {}
        <4>1. pick[s] \in S /\ g[s \ {pick[s]}] \in V
          BY <3>2, <2>2, <2>3
        <4>. QED
          BY <4>1, <3>2
      <3>. QED
        BY <3>1, <3>2
    <2>5. h \in [SUBSET S -> V]
      BY <2>3, <2>4
    <2>6. ASSUME NEW s \in SUBSET S, Cardinality(s) <= n
          PROVE  h[s] = Value(h, s)
      <3>1. Cardinality(s) \in Int
        BY <1>1
      <3>2. CASE s = {}
        <4>1. Cardinality(s) = 0
          BY <3>2, FS_EmptySet
        <4>0. Cardinality(s) # n /\ Cardinality(s) <= n - 1
          BY <4>1, <1>1
        <4>2. h[s] = g[s] /\ g[s] = Value(g, s)
          BY <4>0, <2>1
        <4>3. Value(g, s) = a /\ Value(h, s) = a
          BY <3>2
        <4>. QED
          BY <4>2, <4>3, Zenon
      <3>3. CASE s # {}
        <4>. DEFINE t == s \ {pick[s]}
        <4>1. t \in SUBSET S /\ Cardinality(t) = Cardinality(s) - 1
          BY <3>3, <2>2
        <4>2. h[t] = g[t]
          BY <4>1, <3>1, <2>6
        <4>3. h[s] = Value(g, s)
          <5>1. CASE Cardinality(s) = n
            BY <5>1
          <5>2. CASE Cardinality(s) # n
            <6>1. Cardinality(s) <= n - 1
              BY <5>2, <2>6, <3>1
            <6>2. g[s] = Value(g, s)
              BY <6>1, <2>1
            <6>. QED
              BY <6>2, <5>2
          <5>. QED
            BY <5>1, <5>2
        <4>. QED
          BY <4>2, <4>3, <3>3
      <3>. QED
        BY <3>2, <3>3
    <2>. HIDE DEF h, Value
    <2>7. Solves(h, n)
      BY <2>5, <2>6
    <2>. HIDE DEF Solves, N
    <2>. QED
      BY <2>7
  <1>4. N \in I
    <2>. HIDE DEF I, N
    <2>1. \A n \in 0..N : n \in I
      BY <1>1, <1>2, <1>3, UpTo
    <2>. QED
      BY <2>1, <1>1
  <1>5. PICK h : Solves(h, N)
    BY <1>4
  <1>6. \A s \in SUBSET S : Cardinality(s) <= N
    BY <1>1
  <1>7. h \in [SUBSET S -> V] /\ \A s \in SUBSET S : h[s] = Value(h, s)
    BY <1>5, <1>6
  <1>. QED
    BY <1>7 DEF Folds

\* How many curves a position adds to those of its block, with the twisted ones.
CurvesAt(position) ==
    LET curve == NewCurve(position)
    IN  IF HasSquarefreeRhs(curve) THEN 2 * Multiplicity(RhsSupport(curve)) ELSE 0

\* Max of a set of numbers up to a bound; folds over sequences take the last index first.
LEMMA MaxOfFinite ==
    ASSUME NEW n \in Nat
    PROVE  \A s \in SUBSET (1..n) : s # {} => Max(s) \in s
  <1>. DEFINE T == {m \in 0..n : \A s \in SUBSET (1..m) : s # {} => \E x \in s : \A y \in s : x >= y}
  <1>1. 0 \in T
    <2>1. \A s \in SUBSET (1..0) : s = {}
      OBVIOUS
    <2>2. \A s \in SUBSET (1..0) : s # {} => \E x \in s : \A y \in s : x >= y
      BY <2>1, Zenon
    <2>. QED
      BY <2>2
  <1>2. ASSUME NEW m \in 1..n, m - 1 \in T
        PROVE  m \in T
    <2>. SUFFICES ASSUME NEW s \in SUBSET (1..m), s # {}
                  PROVE  \E x \in s : \A y \in s : x >= y
      OBVIOUS
    <2>1. CASE m \in s
      BY <2>1
    <2>2. CASE m \notin s
      <3>1. s \in SUBSET (1..(m - 1))
        BY <2>2
      <3>. QED
        BY <3>1, <1>2
    <2>. QED
      BY <2>1, <2>2
  <1>. HIDE DEF T
  <1>3. \A m \in 0..n : m \in T
    BY <1>1, <1>2, UpTo
  <1>4. \A s \in SUBSET (1..n) : s # {} => \E x \in s : \A y \in s : x >= y
    BY <1>3 DEF T
  <1>. QED
    BY <1>4 DEF Max

\* The curves of a block are a sum over its positions.
LEMMA CurvesOfIs ==
    ASSUME NEW block, NEW size \in Nat, DOMAIN PositionsOf(block) = 1..size,
           NEW f, Ints(f, 1..size),
           \A n \in 1..size : f[n] = CurvesAt(PositionsOf(block)[n])
    PROVE  CurvesOf(block) = SumOf(f, 1..size)
  <1>. DEFINE P == PositionsOf(block)
              add(n, position) ==
                LET curve == NewCurve(position)
                IN  IF HasSquarefreeRhs(curve) THEN n + 2 * Multiplicity(RhsSupport(curve)) ELSE n
              S == 1..size
              G(h) == [s \in SUBSET (DOMAIN P) |->
                          IF s = {} THEN 0 ELSE add(h[s \ {Max(s)}], P[Max(s)])]
              iter == CHOOSE h : h = G(h)
              pick == [s \in SUBSET S |-> Max(s)]
              F(h) == [s \in SUBSET S |-> IF s = {} THEN 0 ELSE f[pick[s]] + h[s \ {pick[s]}]]
  <1>1. CurvesOf(block) = iter[DOMAIN P]
    BY DEF CurvesOf, FoldLeft, MapThenFoldSet
  <1>2. IsFiniteSet(S) /\ \A s \in SUBSET S : s # {} => Max(s) \in s
    <2>1. IsFiniteSet(S)
      BY FS_Interval
    <2>2. \A s \in SUBSET S : s # {} => Max(s) \in s
      BY MaxOfFinite
    <2>. QED
      BY <2>1, <2>2
  <1>3. \A s \in SUBSET S : s # {} => pick[s] \in s
    BY <1>2
  <1>4. PICK c \in [SUBSET S -> Int] : c = F(c) /\ c[S] = SumOf(f, S)
    <2>1. Ints(f, S)
      OBVIOUS
    <2>2. IsFiniteSet(S)
      BY <1>2
    <2>. HIDE DEF pick, S
    <2>3. \E h \in [SUBSET S -> Int] : AddsUp(h, f, S, pick) /\ h[S] = SumOf(f, S)
      BY <1>3, <2>1, <2>2, SumSolves
    <2>. QED
      BY <2>3 DEF AddsUp
  <1>5. ASSUME NEW s \in SUBSET S, s # {}
        PROVE  c[s] = add(c[s \ {Max(s)}], P[Max(s)])
    <2>1. Max(s) \in S /\ f[Max(s)] \in Int
      BY <1>2, <1>5 DEF Ints
    <2>2. c[s \ {Max(s)}] \in Int
      BY <1>4
    <2>3. c[s] = f[Max(s)] + c[s \ {Max(s)}]
      BY <1>4, <1>5
    <2>4. f[Max(s)] = CurvesAt(P[Max(s)])
      BY <2>1
    <2>. QED
      BY <2>1, <2>2, <2>3, <2>4 DEF CurvesAt
  <1>6. DOMAIN P = S /\ c[{}] = 0
    BY <1>4
  <1>. HIDE DEF P, S, add
  <1>7. c = G(c)
    BY <1>4, <1>5, <1>6
  <1>8. iter = G(iter)
    BY <1>7, Zenon
  <1>. HIDE DEF iter
  <1>. DEFINE I == {s \in SUBSET S : iter[s] = c[s]}
  <1>9. {} \in I
    BY <1>6, <1>8
  <1>10. ASSUME NEW s \in SUBSET S, s # {}, \A x \in s : s \ {x} \in I
         PROVE  s \in I
    <2>1. Max(s) \in s
      BY <1>2, <1>10
    <2>2. iter[s] = add(iter[s \ {Max(s)}], P[Max(s)])
      BY <1>6, <1>8, <1>10
    <2>3. iter[s \ {Max(s)}] = c[s \ {Max(s)}]
      BY <2>1, <1>10
    <2>4. iter[s] = c[s]
      BY <2>2, <2>3, <1>5, <1>10
    <2>. QED
      BY <2>4
  <1>. HIDE DEF I
  <1>11. \A s \in SUBSET S : s \in I
    BY <1>2, <1>9, <1>10, SubsetInductionAll
  <1>12. iter[S] = c[S]
    BY <1>11 DEF I
  <1>. QED
    BY <1>1, <1>4, <1>6, <1>12 DEF S

-----------------------------------------------------------------------------
(* Stores                                                                  *)

IsStore(s) ==
    /\ IsFiniteSet(DOMAIN s) /\ DOMAIN s \subseteq Keys
    /\ s = [k \in DOMAIN s |-> s[k]]
    /\ \A k \in DOMAIN s : s[k] \in Int

\* A key comes with the one of the twisted curves.
Paired(s) == \A k \in DOMAIN s : Twist(k) \in DOMAIN s

TotalOf(s) == SumOf(s, DOMAIN s)

\* Twisting a key twice gives it back.
LEMMA TwistIsInvolution ==
    ASSUME NEW key \in Keys
    PROVE  Twist(key) \in Keys /\ Twist(Twist(key)) = key
  <1>. DEFINE offsets == key.hasse_weil_offsets
              twisted == [i \in DOMAIN offsets |-> IF i % 2 = 1 THEN -offsets[i] ELSE offsets[i]]
              again == [i \in DOMAIN twisted |-> IF i % 2 = 1 THEN -twisted[i] ELSE twisted[i]]
  <1>1. offsets \in Seq(Int) /\ key.ramification_type \in Seq(Nat \ {0})
    BY DEF Keys
  <1>2. Len(offsets) \in Nat /\ DOMAIN offsets = 1..Len(offsets)
        /\ \A i \in 1..Len(offsets) : offsets[i] \in Int
    BY <1>1
  <1>3. twisted \in [1..Len(offsets) -> Int]
    BY <1>2
  <1>4. twisted \in Seq(Int)
    BY <1>2, <1>3
  <1>5. again = [i \in 1..Len(offsets) |-> offsets[i]]
    BY <1>2
  <1>6. offsets = [i \in 1..Len(offsets) |-> offsets[i]]
    BY <1>1
  <1>7. Twist(key) = [key EXCEPT !.hasse_weil_offsets = twisted]
    BY DEF Twist
  <1>. HIDE DEF twisted
  <1>8. Twist(key) \in Keys /\ Twist(key).ramification_type = key.ramification_type
        /\ Twist(key).hasse_weil_offsets = twisted
    BY <1>4, <1>7 DEF Keys
  <1>9. Twist(Twist(key)) = [Twist(key) EXCEPT !.hasse_weil_offsets = again]
    BY <1>8 DEF Twist
  <1>. HIDE DEF again, offsets
  <1>10. again = offsets
    BY <1>5, <1>6
  <1>11. Twist(Twist(key)) = [Twist(key) EXCEPT !.hasse_weil_offsets = offsets]
    BY <1>9, <1>10
  <1>12. key.hasse_weil_offsets = offsets
    BY DEF offsets
  <1>13. Twist(Twist(key)) = key
    BY <1>8, <1>11, <1>12 DEF Keys
  <1>. QED
    BY <1>8, <1>13

\* Setting the count of a key changes the total by the difference.
LEMMA AssignedIs ==
    ASSUME NEW s, IsStore(s), NEW key \in Keys, NEW n \in Int
    PROVE  /\ IsStore(Assigned(s, key, n))
           /\ DOMAIN Assigned(s, key, n) = DOMAIN s \cup {key}
           /\ TotalOf(Assigned(s, key, n))
                = TotalOf(s) - (IF key \in DOMAIN s THEN s[key] ELSE 0) + n
  <1>. DEFINE t == Assigned(s, key, n)
              D == DOMAIN s
              E == D \cup {key}
              F == D \ {key}
  <1>1. t = [k \in E |-> IF k = key THEN n ELSE s[k]]
    BY DEF Assigned
  <1>2. DOMAIN t = E /\ t[key] = n /\ \A k \in E : k # key => t[k] = s[k]
    BY <1>1
  <1>3. IsFiniteSet(D) /\ Ints(s, D) /\ D \subseteq Keys
    BY DEF IsStore, Ints
  <1>4. IsFiniteSet(E) /\ IsFiniteSet(F)
    BY <1>3, FS_AddElement, FS_RemoveElement
  <1>5. Ints(t, E) /\ Ints(t, F) /\ Ints(s, F)
    BY <1>2, <1>3 DEF Ints
  <1>6. t = [k \in E |-> t[k]]
    BY <1>1, <1>2
  <1>. HIDE DEF t
  <1>7. IsStore(t)
    BY <1>2, <1>3, <1>4, <1>5, <1>6 DEF IsStore, Ints
  <1>8. SumOf(t, E) = SumOf(t, F) + n
    <2>1. SumOf(t, E) = SumOf(t, E \ {key}) + t[key]
      BY <1>4, <1>5, SumRemove
    <2>2. E \ {key} = F
      OBVIOUS
    <2>. QED
      BY <2>1, <2>2, <1>2
  <1>9. SumOf(t, F) = SumOf(s, F)
    <2>1. \A k \in F : t[k] = s[k]
      BY <1>2
    <2>. QED
      BY <2>1, <1>4, <1>5, SumSame
  <1>10. SumOf(s, F) = SumOf(s, D) - (IF key \in D THEN s[key] ELSE 0) /\ SumOf(s, F) \in Int
    <2>1. SumOf(s, F) \in Int
      BY <1>4, <1>5, SumInt
    <2>2. CASE key \in D
      <3>1. SumOf(s, D) = SumOf(s, F) + s[key]
        BY <1>3, <2>2, SumRemove
      <3>2. s[key] \in Int
        BY <2>2, <1>3 DEF Ints
      <3>. QED
        BY <2>1, <2>2, <3>1, <3>2
    <2>3. CASE key \notin D
      <3>1. F = D
        BY <2>3
      <3>. QED
        BY <2>1, <2>3, <3>1
    <2>. QED
      BY <2>2, <2>3
  <1>11. TotalOf(t) = SumOf(s, F) + n
    BY <1>2, <1>8, <1>9 DEF TotalOf
  <1>. HIDE DEF D, E, F
  <1>12. TotalOf(t) = SumOf(s, D) - (IF key \in D THEN s[key] ELSE 0) + n
    BY <1>10, <1>11
  <1>13. TotalOf(s) = SumOf(s, D)
    BY DEF TotalOf, D
  <1>. QED
    BY <1>2, <1>7, <1>12, <1>13 DEF t, D, E

\* Increasing the count of a key increases the total.
LEMMA IncreasedIs ==
    ASSUME NEW s, IsStore(s), NEW key \in Keys, NEW n \in Int
    PROVE  /\ IsStore(Increased(s, key, n))
           /\ DOMAIN Increased(s, key, n) = DOMAIN s \cup {key}
           /\ TotalOf(Increased(s, key, n)) = TotalOf(s) + n
  <1>. DEFINE old == IF key \in DOMAIN s THEN s[key] ELSE 0
  <1>1. old \in Int
    BY DEF IsStore
  <1>2. TotalOf(s) \in Int
    BY SumInt DEF IsStore, Ints, TotalOf
  <1>3. Increased(s, key, n) = Assigned(s, key, old + n)
    BY DEF Increased
  <1>4. old + n \in Int
    BY <1>1
  <1>5. /\ IsStore(Assigned(s, key, old + n))
        /\ DOMAIN Assigned(s, key, old + n) = DOMAIN s \cup {key}
        /\ TotalOf(Assigned(s, key, old + n)) = TotalOf(s) - old + (old + n)
    <2>. DEFINE m == old + n
    <2>1. m \in Int
      BY <1>4
    <2>. HIDE DEF m
    <2>2. /\ IsStore(Assigned(s, key, m))
          /\ DOMAIN Assigned(s, key, m) = DOMAIN s \cup {key}
          /\ TotalOf(Assigned(s, key, m)) = TotalOf(s) - old + m
      BY <2>1, AssignedIs
    <2>. QED
      BY <2>2 DEF m
  <1>. HIDE DEF old
  <1>. QED
    BY <1>1, <1>2, <1>3, <1>5

\* Registering a curve adds it and the twisted one, and keeps the keys in pairs:
\* a new key would otherwise overwrite the count of its twist.
LEMMA RegisterCurveIs ==
    ASSUME NEW s, IsStore(s), Paired(s), NEW key \in Keys, NEW n \in Int
    PROVE  /\ IsStore(RegisterCurve(s, key, n)) /\ Paired(RegisterCurve(s, key, n))
           /\ TotalOf(RegisterCurve(s, key, n)) = TotalOf(s) + 2 * n
  <1>. DEFINE twin == Twist(key)
              t == RegisterCurve(s, key, n)
  <1>1. twin \in Keys /\ Twist(twin) = key
    BY TwistIsInvolution
  <1>2. TotalOf(s) \in Int
    BY SumInt DEF IsStore, Ints, TotalOf
  <1>3. /\ IsStore(t) /\ DOMAIN t = DOMAIN s \cup {key, twin}
        /\ TotalOf(t) = TotalOf(s) + 2 * n
    <2>1. CASE key \in DOMAIN s
      <3>. DEFINE u == Increased(s, key, n)
      <3>1. IsStore(u) /\ DOMAIN u = DOMAIN s \cup {key} /\ TotalOf(u) = TotalOf(s) + n
        BY IncreasedIs
      <3>2. t = Increased(u, twin, n)
        BY <2>1 DEF RegisterCurve
      <3>. HIDE DEF t, u, twin
      <3>3. IsStore(t) /\ DOMAIN t = DOMAIN u \cup {twin} /\ TotalOf(t) = TotalOf(u) + n
        BY <1>1, <3>1, <3>2, IncreasedIs
      <3>. QED
        BY <1>2, <3>1, <3>3
    <2>2. CASE key \notin DOMAIN s /\ twin = key
      <3>. DEFINE u == Assigned(s, key, n)
      <3>1. IsStore(u) /\ DOMAIN u = DOMAIN s \cup {key} /\ TotalOf(u) = TotalOf(s) - 0 + n
        BY <2>2, AssignedIs
      <3>2. t = Increased(u, key, n)
        BY <2>2 DEF RegisterCurve
      <3>. HIDE DEF t, u, twin
      <3>3. IsStore(t) /\ DOMAIN t = DOMAIN u \cup {key} /\ TotalOf(t) = TotalOf(u) + n
        BY <1>1, <3>1, <3>2, IncreasedIs
      <3>. QED
        BY <1>2, <2>2, <3>1, <3>3
    <2>3. CASE key \notin DOMAIN s /\ twin # key
      <3>. DEFINE u == Assigned(s, key, n)
      <3>1. IsStore(u) /\ DOMAIN u = DOMAIN s \cup {key} /\ TotalOf(u) = TotalOf(s) - 0 + n
        BY <2>3, AssignedIs
      <3>2. t = Assigned(u, twin, n)
        BY <2>3 DEF RegisterCurve
      <3>3. twin \notin DOMAIN u
        BY <1>1, <2>3, <3>1 DEF Paired
      <3>. HIDE DEF t, u, twin
      <3>4. /\ IsStore(Assigned(u, twin, n))
            /\ DOMAIN Assigned(u, twin, n) = DOMAIN u \cup {twin}
            /\ TotalOf(Assigned(u, twin, n))
                 = TotalOf(u) - (IF twin \in DOMAIN u THEN u[twin] ELSE 0) + n
        <4>1. IsStore(u) /\ twin \in Keys /\ n \in Int
          BY <1>1, <3>1
        <4>2. IsStore(Assigned(u, twin, n))
          BY <4>1, AssignedIs
        <4>3. DOMAIN Assigned(u, twin, n) = DOMAIN u \cup {twin}
          BY <4>1, AssignedIs
        <4>4. TotalOf(Assigned(u, twin, n))
                 = TotalOf(u) - (IF twin \in DOMAIN u THEN u[twin] ELSE 0) + n
          BY <4>1, AssignedIs
        <4>. QED
          BY <4>2, <4>3, <4>4
      <3>. QED
        BY <1>2, <3>1, <3>2, <3>3, <3>4
    <2>. QED
      BY <2>1, <2>2, <2>3
  <1>4. Paired(t)
    BY <1>1, <1>3 DEF Paired
  <1>. QED
    BY <1>3, <1>4

\* The empty store has no curves.
LEMMA EmptyStoreIs == IsStore(EmptyStore) /\ Paired(EmptyStore) /\ TotalOf(EmptyStore) = 0
  <1>1. DOMAIN EmptyStore = {}
    BY DEF EmptyStore
  <1>2. EmptyStore = [k \in DOMAIN EmptyStore |-> EmptyStore[k]]
    BY DEF EmptyStore
  <1>3. IsStore(EmptyStore)
    BY <1>1, <1>2, FS_EmptySet DEF IsStore
  <1>. QED
    BY <1>1, <1>3, SumEmpty DEF Paired, TotalOf

\* No curve is lost on adding a store to the static one, and none is made up.
LEMMA MergedIntoIs ==
    ASSUME NEW s, IsStore(s), Paired(s), NEW t, IsStore(t), Paired(t)
    PROVE  /\ IsStore(MergedInto(s, t)) /\ Paired(MergedInto(s, t))
           /\ TotalOf(MergedInto(s, t)) = TotalOf(s) + TotalOf(t)
  <1>. DEFINE D == DOMAIN s
              E == DOMAIN t
              U == D \cup E
              m == MergedInto(s, t)
              f == [k \in U |-> IF k \in D THEN s[k] ELSE 0]
              g == [k \in U |-> IF k \in E THEN t[k] ELSE 0]
  <1>1. IsFiniteSet(D) /\ IsFiniteSet(E) /\ Ints(s, D) /\ Ints(t, E)
        /\ D \subseteq Keys /\ E \subseteq Keys
    BY DEF IsStore, Ints
  <1>2. IsFiniteSet(U)
    BY <1>1, FS_Union
  <1>3. m = [k \in U |-> CASE k \notin E -> s[k] [] k \notin D -> t[k] [] OTHER -> s[k] + t[k]]
    BY DEF MergedInto
  <1>4. Ints(f, U) /\ Ints(g, U)
    BY <1>1 DEF Ints
  <1>5. \A k \in U : m[k] = f[k] + g[k]
    <2>. SUFFICES ASSUME NEW k \in U
                  PROVE  m[k] = f[k] + g[k]
      OBVIOUS
    <2>1. k \in D => s[k] \in Int
      BY <1>1 DEF Ints
    <2>2. k \in E => t[k] \in Int
      BY <1>1 DEF Ints
    <2>3. CASE k \notin E
      BY <2>1, <2>3, <1>3
    <2>4. CASE k \notin D
      BY <2>2, <2>4, <1>3
    <2>5. CASE k \in D /\ k \in E
      BY <2>5, <1>3
    <2>. QED
      BY <2>3, <2>4, <2>5
  <1>6. DOMAIN m = U /\ m = [k \in U |-> m[k]]
    BY <1>3
  <1>7. SumOf(f, D) = SumOf(s, D) /\ SumOf(g, E) = SumOf(t, E)
    <2>1. \A k \in D : s[k] = f[k]
      OBVIOUS
    <2>2. \A k \in E : t[k] = g[k]
      OBVIOUS
    <2>. HIDE DEF f, g, D, E
    <2>3. SumOf(s, D) = SumOf(f, D)
      BY <1>1, <2>1, SumSame
    <2>4. SumOf(t, E) = SumOf(g, E)
      BY <1>1, <2>2, SumSame
    <2>. QED
      BY <2>3, <2>4
  <1>8. SumOf(f, U) = SumOf(f, D) /\ SumOf(g, U) = SumOf(g, E)
    <2>1. D \in SUBSET U /\ E \in SUBSET U
      OBVIOUS
    <2>2. (\A k \in U \ D : f[k] = 0) /\ (\A k \in U \ E : g[k] = 0)
      OBVIOUS
    <2>. HIDE DEF f, g, D, E, U
    <2>. QED
      BY <1>2, <1>4, <2>1, <2>2, SumZeros
  <1>9. Ints(m, U)
    <2>. HIDE DEF f, g, m, U
    <2>. QED
      BY <1>4, <1>5 DEF Ints
  <1>10. \A k \in U : Twist(k) \in U
    BY DEF Paired
  <1>. HIDE DEF f, g, D, E, U, m
  <1>11. SumOf(m, U) = SumOf(f, U) + SumOf(g, U)
    BY <1>2, <1>4, <1>5, SumPlus
  <1>12. U \subseteq Keys
    BY <1>1 DEF U
  <1>13. IsStore(m)
    BY <1>2, <1>6, <1>9, <1>12 DEF IsStore, Ints
  <1>14. Paired(m)
    BY <1>6, <1>10 DEF Paired
  <1>15. TotalOf(m) = SumOf(s, D) + SumOf(t, E)
    BY <1>6, <1>7, <1>8, <1>11 DEF TotalOf
  <1>. QED
    BY <1>13, <1>14, <1>15 DEF TotalOf, D, E, m

-----------------------------------------------------------------------------
(* Elements of a finite set in the order of a relation                     *)

Orders(R, S) ==
    /\ \A x \in S : <<x, x>> \notin R
    /\ \A x, y \in S : x # y => <<x, y>> \in R \/ <<y, x>> \in R
    /\ \A x, y, z \in S : <<x, y>> \in R /\ <<y, z>> \in R => <<x, z>> \in R

Rank(R, S, x) == Cardinality({y \in S : <<y, x>> \in R})

\* What is larger has more elements below it.
LEMMA RankIncreases ==
    ASSUME NEW S, IsFiniteSet(S), NEW R, Orders(R, S), NEW x \in S, NEW y \in S,
           <<x, y>> \in R
    PROVE  Rank(R, S, x) < Rank(R, S, y)
  <1>. DEFINE A == {z \in S : <<z, x>> \in R}
              B == {z \in S : <<z, y>> \in R}
  <1>1. A \subseteq B
    BY DEF Orders
  <1>2. x \in B /\ x \notin A
    BY DEF Orders
  <1>3. IsFiniteSet(B)
    <2>1. B \in SUBSET S
      OBVIOUS
    <2>. HIDE DEF B
    <2>. QED
      BY <2>1, FS_Subset
  <1>. HIDE DEF A, B
  <1>4. IsFiniteSet(A) /\ Cardinality(A) <= Cardinality(B)
        /\ (Cardinality(B) = Cardinality(A) => B = A)
    BY <1>1, <1>3, FS_Subset
  <1>5. Cardinality(A) \in Nat /\ Cardinality(B) \in Nat
    BY <1>3, <1>4, FS_CardinalityType
  <1>6. Cardinality(A) < Cardinality(B)
    BY <1>2, <1>4, <1>5
  <1>. QED
    BY <1>6 DEF A, B, Rank

\* The number of smaller elements tells elements apart, and each number occurs.
LEMMA RankIs ==
    ASSUME NEW S, IsFiniteSet(S), NEW R, Orders(R, S)
    PROVE  /\ \A x \in S : Rank(R, S, x) + 1 \in 1..Cardinality(S)
           /\ \A x, y \in S : Rank(R, S, x) = Rank(R, S, y) => x = y
           /\ \A i \in 1..Cardinality(S) : \E x \in S : Rank(R, S, x) = i - 1
  <1>. DEFINE n == Cardinality(S)
              f == [x \in S |-> Rank(R, S, x) + 1]
  <1>1. n \in Nat
    BY FS_CardinalityType
  <1>2. ASSUME NEW x \in S
        PROVE  Rank(R, S, x) \in Nat /\ Rank(R, S, x) + 1 <= n
    <2>. DEFINE A == {z \in S : <<z, x>> \in R}
    <2>1. A \in SUBSET S /\ x \notin A
      BY DEF Orders
    <2>. HIDE DEF A
    <2>2. IsFiniteSet(A) /\ Cardinality(A) <= n /\ (n = Cardinality(A) => S = A)
      BY <2>1, FS_Subset
    <2>3. Cardinality(A) \in Nat
      BY <2>2, FS_CardinalityType
    <2>4. Cardinality(A) # n
      BY <2>1, <2>2
    <2>. HIDE DEF n
    <2>5. Cardinality(A) + 1 <= n
      BY <1>1, <2>2, <2>3, <2>4
    <2>. QED
      BY <2>3, <2>5 DEF A, Rank
  <1>3. \A x \in S : Rank(R, S, x) + 1 \in 1..n
    <2>. HIDE DEF n
    <2>. QED
      BY <1>1, <1>2
  <1>4. ASSUME NEW x \in S, NEW y \in S, Rank(R, S, x) = Rank(R, S, y)
        PROVE  x = y
    <2>1. Rank(R, S, x) \in Nat
      BY <1>2
    <2>2. <<x, y>> \notin R
      BY <2>1, <1>4, RankIncreases
    <2>3. <<y, x>> \notin R
      BY <2>1, <1>4, RankIncreases
    <2>. QED
      BY <2>2, <2>3 DEF Orders
  <1>5. f \in [S -> 1..n]
    BY <1>3
  <1>6. f \in Injection(S, 1..n)
    <2>1. \A x, y \in S : f[x] = f[y] => x = y
      BY <1>2, <1>4
    <2>. HIDE DEF f, n
    <2>. QED
      BY <2>1, <1>5 DEF Injection, IsInjective
  <1>7. IsFiniteSet(1..n) /\ Cardinality(1..n) = n
    BY <1>1, FS_Interval
  <1>8. f \in Surjection(S, 1..n)
    <2>. HIDE DEF f
    <2>. QED
      BY <1>6, <1>7, FS_Injection
  <1>9. ASSUME NEW i \in 1..n
        PROVE  \E x \in S : Rank(R, S, x) = i - 1
    <2>1. PICK x \in S : f[x] = i
      BY <1>8 DEF Surjection
    <2>2. Rank(R, S, x) \in Nat /\ Rank(R, S, x) + 1 = i
      BY <1>2, <2>1
    <2>. QED
      BY <2>2
  <1>. QED
    BY <1>3, <1>4, <1>9

-----------------------------------------------------------------------------
(* The order of the keys                                                   *)

\* The order of vectors by the first place where they differ.
LEMMA LexLessIs ==
    ASSUME NEW s \in Seq(Int), NEW t \in Seq(Int)
    PROVE  LexLess(s, t) <=>
             \E n \in Nat : /\ n <= Len(s) /\ n < Len(t)
                            /\ \A i \in 1..n : s[i] = t[i]
                            /\ n = Len(s) \/ s[n + 1] < t[n + 1]
  <1>1. Len(s) \in Nat /\ Len(t) \in Nat
    OBVIOUS
  <1>2. ASSUME NEW n \in Nat, n <= Len(s), n < Len(t)
        PROVE  SubSeq(s, 1, n) = SubSeq(t, 1, n) <=> \A i \in 1..n : s[i] = t[i]
    <2>1. /\ Len(SubSeq(s, 1, n)) = n /\ Len(SubSeq(t, 1, n)) = n
          /\ SubSeq(s, 1, n) \in Seq(Int) /\ SubSeq(t, 1, n) \in Seq(Int)
          /\ \A i \in 1..n : SubSeq(s, 1, n)[i] = s[i] /\ SubSeq(t, 1, n)[i] = t[i]
      BY <1>2, SMTT(30)
    <2>. QED
      BY <2>1
  <1>. QED
    BY <1>1, <1>2 DEF LexLess

\* The order of vectors is strict and total.
LEMMA LexLessOrders ==
    /\ \A s \in Seq(Int) : ~LexLess(s, s)
    /\ \A s, t \in Seq(Int) : s # t => LexLess(s, t) \/ LexLess(t, s)
    /\ \A s, t, u \in Seq(Int) : LexLess(s, t) /\ LexLess(t, u) => LexLess(s, u)
  <1>1. ASSUME NEW s \in Seq(Int)
        PROVE  ~LexLess(s, s)
    <2>. SUFFICES ASSUME LexLess(s, s) PROVE FALSE
      OBVIOUS
    <2>1. PICK n \in Nat : n <= Len(s) /\ n < Len(s) /\ (n = Len(s) \/ s[n + 1] < s[n + 1])
      BY LexLessIs
    <2>2. s[n + 1] \in Int /\ Len(s) \in Nat
      BY <2>1
    <2>. QED
      BY <2>1, <2>2
  <1>2. ASSUME NEW s \in Seq(Int), NEW t \in Seq(Int), s # t
        PROVE  LexLess(s, t) \/ LexLess(t, s)
    <2>. DEFINE I == {n \in 0..Len(s) : n <= Len(t) /\ \A i \in 1..n : s[i] = t[i]}
    <2>1. Len(s) \in Nat /\ Len(t) \in Nat
      OBVIOUS
    <2>. SUFFICES ASSUME ~LexLess(s, t), ~LexLess(t, s) PROVE FALSE
      OBVIOUS
    <2>2. 0 \in I
      BY <2>1
    <2>3. ASSUME NEW n \in 1..Len(s), n - 1 \in I
          PROVE  n \in I
      <3>1. n - 1 \in Nat /\ n - 1 < Len(s) /\ n - 1 <= Len(t)
            /\ (\A i \in 1..(n - 1) : s[i] = t[i]) /\ (n - 1) + 1 = n
        BY <2>1, <2>3
      <3>2. n - 1 # Len(t)
        BY <3>1, LexLessIs
      <3>3. n <= Len(t) /\ s[n] \in Int /\ t[n] \in Int
        BY <2>1, <3>1, <3>2
      <3>4. ~(s[n] < t[n])
        <4>. SUFFICES ASSUME s[n] < t[n] PROVE FALSE
          OBVIOUS
        <4>1. \E m \in Nat : /\ m <= Len(s) /\ m < Len(t)
                             /\ \A i \in 1..m : s[i] = t[i]
                             /\ m = Len(s) \/ s[m + 1] < t[m + 1]
          <5>. WITNESS n - 1 \in Nat
          <5>. QED
            BY <2>1, <3>1, <3>3
        <4>. QED
          BY <4>1, LexLessIs
      <3>5. ~(t[n] < s[n])
        BY <3>1, <3>3, LexLessIs
      <3>6. s[n] = t[n]
        BY <3>3, <3>4, <3>5
      <3>7. \A i \in 1..n : s[i] = t[i]
        BY <3>1, <3>6
      <3>. QED
        BY <3>3, <3>7
    <2>. HIDE DEF I
    <2>4. \A n \in 0..Len(s) : n \in I
      BY <2>1, <2>2, <2>3, UpTo
    <2>5. Len(s) <= Len(t) /\ \A i \in 1..Len(s) : s[i] = t[i]
      BY <2>1, <2>4 DEF I
    <2>6. ~(Len(s) < Len(t))
      BY <2>1, <2>5, LexLessIs
    <2>7. Len(s) = Len(t)
      BY <2>1, <2>5, <2>6
    <2>8. s = t
      BY <2>5, <2>7, SMTT(30)
    <2>. QED
      BY <2>8, <1>2
  <1>3. ASSUME NEW s \in Seq(Int), NEW t \in Seq(Int), NEW u \in Seq(Int),
               LexLess(s, t), LexLess(t, u)
        PROVE  LexLess(s, u)
    <2>1. Len(s) \in Nat /\ Len(t) \in Nat /\ Len(u) \in Nat
          /\ (\A i \in 1..Len(s) : s[i] \in Int) /\ (\A i \in 1..Len(t) : t[i] \in Int)
          /\ (\A i \in 1..Len(u) : u[i] \in Int)
      OBVIOUS
    <2>2. PICK m \in Nat : /\ m <= Len(s) /\ m < Len(t)
                           /\ \A i \in 1..m : s[i] = t[i]
                           /\ m = Len(s) \/ s[m + 1] < t[m + 1]
      BY <1>3, LexLessIs
    <2>3. PICK n \in Nat : /\ n <= Len(t) /\ n < Len(u)
                           /\ \A i \in 1..n : t[i] = u[i]
                           /\ n = Len(t) \/ t[n + 1] < u[n + 1]
      BY <1>3, LexLessIs
    <2>4. CASE m < n
      <3>1. m < Len(u) /\ \A i \in 1..m : s[i] = u[i]
        BY <2>1, <2>2, <2>3, <2>4
      <3>2. t[m + 1] = u[m + 1]
        BY <2>1, <2>3, <2>4
      <3>. QED
        BY <2>2, <3>1, <3>2, LexLessIs
    <2>5. CASE n <= m
      <3>1. n <= Len(s) /\ n < Len(u)
        BY <2>1, <2>2, <2>3, <2>5
      <3>2. ASSUME NEW i \in 1..n
            PROVE  s[i] = u[i]
        <4>1. i \in 1..m
          BY <2>5
        <4>. QED
          BY <4>1, <2>2, <2>3
      <3>3. n <= Len(s) /\ n < Len(u) /\ \A i \in 1..n : s[i] = u[i]
        BY <3>1, <3>2
      <3>4. t[n + 1] < u[n + 1]
        BY <2>1, <2>2, <2>3, <2>5
      <3>5. n = Len(s) \/ s[n + 1] < u[n + 1]
        <4>1. CASE n < m
          <5>1. s[n + 1] = t[n + 1]
            BY <4>1, <2>2
          <5>. QED
            BY <5>1, <3>4
        <4>2. CASE n = m
          <5>1. CASE n = Len(s)
            BY <5>1
          <5>2. CASE n # Len(s)
            <6>1. s[n + 1] < t[n + 1] /\ s[n + 1] \in Int /\ t[n + 1] \in Int /\ u[n + 1] \in Int
              BY <4>2, <5>2, <2>1, <2>2, <3>3
            <6>. QED
              BY <6>1, <3>4
          <5>. QED
            BY <5>1, <5>2
        <4>. QED
          BY <4>1, <4>2, <2>5
      <3>. QED
        BY <3>3, <3>5, LexLessIs
    <2>. QED
      BY <2>4, <2>5
  <1>. QED
    BY <1>1, <1>2, <1>3

KeyOrder == {p \in Keys \X Keys : KeyLess(p[1], p[2])}

\* So is the order of keys.
LEMMA KeyOrderOrders ==
    ASSUME NEW S, S \subseteq Keys
    PROVE  Orders(KeyOrder, S)
  <1>1. \A k \in Keys : k.ramification_type \in Seq(Int) /\ k.hasse_weil_offsets \in Seq(Int)
    <2>. SUFFICES ASSUME NEW k \in Keys
                  PROVE  k.ramification_type \in Seq(Int) /\ k.hasse_weil_offsets \in Seq(Int)
      OBVIOUS
    <2>1. k.ramification_type \in Seq(Nat \ {0}) /\ k.hasse_weil_offsets \in Seq(Int)
      BY DEF Keys
    <2>2. k.ramification_type \in Seq(Int)
      <3>. DEFINE r == k.ramification_type
      <3>1. Len(r) \in Nat /\ r = [i \in 1..Len(r) |-> r[i]] /\ \A i \in 1..Len(r) : r[i] \in Int
        BY <2>1
      <3>. HIDE DEF r
      <3>2. r \in [1..Len(r) -> Int]
        BY <3>1
      <3>3. r \in Seq(Int)
        BY <3>1, <3>2
      <3>. QED
        BY <3>3 DEF r
    <2>. QED
      BY <2>1, <2>2
  <1>2. \A k, l \in Keys : k.ramification_type = l.ramification_type
          /\ k.hasse_weil_offsets = l.hasse_weil_offsets => k = l
    BY DEF Keys
  <1>3. \A k, l \in S : <<k, l>> \in KeyOrder <=>
          \/ LexLess(k.ramification_type, l.ramification_type)
          \/ /\ k.ramification_type = l.ramification_type
             /\ LexLess(k.hasse_weil_offsets, l.hasse_weil_offsets)
    BY DEF KeyOrder, KeyLess
  <1>4. ASSUME NEW k \in S
        PROVE  <<k, k>> \notin KeyOrder
    BY <1>1, <1>3, LexLessOrders
  <1>5. ASSUME NEW k \in S, NEW l \in S, k # l
        PROVE  <<k, l>> \in KeyOrder \/ <<l, k>> \in KeyOrder
    <2>1. CASE k.ramification_type # l.ramification_type
      BY <2>1, <1>1, <1>3, LexLessOrders
    <2>2. CASE k.ramification_type = l.ramification_type
      <3>1. k.hasse_weil_offsets # l.hasse_weil_offsets
        BY <2>2, <1>2, <1>5
      <3>. QED
        BY <2>2, <3>1, <1>1, <1>3, LexLessOrders
    <2>. QED
      BY <2>1, <2>2
  <1>6. ASSUME NEW k \in S, NEW l \in S, NEW m \in S, <<k, l>> \in KeyOrder, <<l, m>> \in KeyOrder
        PROVE  <<k, m>> \in KeyOrder
    <2>. DEFINE a == k.ramification_type
                b == l.ramification_type
                c == m.ramification_type
                d == k.hasse_weil_offsets
                e == l.hasse_weil_offsets
                f == m.hasse_weil_offsets
    <2>1. a \in Seq(Int) /\ b \in Seq(Int) /\ c \in Seq(Int)
          /\ d \in Seq(Int) /\ e \in Seq(Int) /\ f \in Seq(Int)
      BY <1>1
    <2>2. (LexLess(a, b) \/ (a = b /\ LexLess(d, e))) /\ (LexLess(b, c) \/ (b = c /\ LexLess(e, f)))
      BY <1>3, <1>6
    <2>3. (LexLess(a, c) \/ (a = c /\ LexLess(d, f))) => <<k, m>> \in KeyOrder
      BY <1>3
    <2>. HIDE DEF a, b, c, d, e, f
    <2>4. LexLess(a, b) /\ LexLess(b, c) => LexLess(a, c)
      BY <2>1, LexLessOrders
    <2>5. LexLess(d, e) /\ LexLess(e, f) => LexLess(d, f)
      BY <2>1, LexLessOrders
    <2>. QED
      BY <2>2, <2>3, <2>4, <2>5
  <1>. QED
    BY <1>4, <1>5, <1>6 DEF Orders

\* The curves that the lines of a file count.
LinesTotal(lines) == FoldLeft(LAMBDA n, line : n + line.count, 0, lines)

\* The total of the lines of a file is a sum.
LEMMA LinesTotalIs ==
    ASSUME NEW lines, NEW size \in Nat, DOMAIN lines = 1..size,
           NEW f, Ints(f, 1..size), \A i \in 1..size : f[i] = lines[i].count
    PROVE  LinesTotal(lines) = SumOf(f, 1..size)
  <1>. DEFINE S == 1..size
              G(h) == [s \in SUBSET (DOMAIN lines) |->
                          IF s = {} THEN 0 ELSE h[s \ {Max(s)}] + lines[Max(s)].count]
              iter == CHOOSE h : h = G(h)
              pick == [s \in SUBSET S |-> Max(s)]
  <1>1. LinesTotal(lines) = iter[DOMAIN lines]
    BY DEF LinesTotal, FoldLeft, MapThenFoldSet
  <1>2. IsFiniteSet(S) /\ \A s \in SUBSET S : s # {} => Max(s) \in s
    <2>1. IsFiniteSet(S)
      BY FS_Interval
    <2>2. \A s \in SUBSET S : s # {} => Max(s) \in s
      BY MaxOfFinite
    <2>. QED
      BY <2>1, <2>2
  <1>3. \A s \in SUBSET S : s # {} => pick[s] \in s
    BY <1>2
  <1>4. PICK c \in [SUBSET S -> Int] : AddsUp(c, f, S, pick) /\ c[S] = SumOf(f, S)
    <2>1. Ints(f, S)
      OBVIOUS
    <2>2. IsFiniteSet(S)
      BY <1>2
    <2>. HIDE DEF pick, S
    <2>3. \E h \in [SUBSET S -> Int] : AddsUp(h, f, S, pick) /\ h[S] = SumOf(f, S)
      BY <1>3, <2>1, <2>2, SumSolves
    <2>. QED
      BY <2>3
  <1>5. ASSUME NEW s \in SUBSET S, s # {}
        PROVE  c[s] = c[s \ {Max(s)}] + lines[Max(s)].count
    <2>1. Max(s) \in S /\ f[Max(s)] \in Int
      BY <1>2, <1>5 DEF Ints
    <2>2. c[s \ {Max(s)}] \in Int
      BY <1>4
    <2>3. c[s] = f[Max(s)] + c[s \ {Max(s)}]
      BY <1>4, <1>5 DEF AddsUp
    <2>4. f[Max(s)] = lines[Max(s)].count
      BY <2>1
    <2>. QED
      BY <2>1, <2>2, <2>3, <2>4
  <1>6. DOMAIN lines = S /\ c[{}] = 0
    BY <1>4 DEF AddsUp
  <1>. HIDE DEF S
  <1>7. c = G(c)
    BY <1>4, <1>5, <1>6
  <1>8. iter = G(iter)
    BY <1>7, Zenon
  <1>. HIDE DEF iter
  <1>. DEFINE I == {s \in SUBSET S : iter[s] = c[s]}
  <1>9. {} \in I
    BY <1>6, <1>8
  <1>10. ASSUME NEW s \in SUBSET S, s # {}, \A x \in s : s \ {x} \in I
         PROVE  s \in I
    <2>1. Max(s) \in s
      BY <1>2, <1>10
    <2>2. iter[s] = iter[s \ {Max(s)}] + lines[Max(s)].count
      BY <1>6, <1>8, <1>10
    <2>3. iter[s \ {Max(s)}] = c[s \ {Max(s)}]
      BY <2>1, <1>10
    <2>4. iter[s] = c[s]
      BY <2>2, <2>3, <1>5, <1>10
    <2>. QED
      BY <2>4
  <1>. HIDE DEF I
  <1>11. \A s \in SUBSET S : s \in I
    BY <1>2, <1>9, <1>10, SubsetInductionAll
  <1>12. iter[S] = c[S]
    BY <1>11 DEF I
  <1>. QED
    BY <1>1, <1>4, <1>6, <1>12 DEF S

\* The file of a store has all that is in it.
LEMMA InsertedIs ==
    ASSUME NEW s, IsStore(s)
    PROVE  LinesTotal(Inserted(s)) = TotalOf(s)
  <1>. DEFINE D == DOMAIN s
              size == Cardinality(D)
              b == [i \in 1..size |-> CHOOSE k \in D : Cardinality({l \in D : KeyLess(l, k)}) = i - 1]
              f == [i \in 1..size |-> s[b[i]]]
  <1>1. IsFiniteSet(D) /\ D \subseteq Keys /\ Ints(s, D)
    BY DEF IsStore, Ints
  <1>2. size \in Nat
    BY <1>1, FS_CardinalityType
  <1>3. Orders(KeyOrder, D)
    BY <1>1, KeyOrderOrders
  <1>4. \A k \in D : Rank(KeyOrder, D, k) = Cardinality({l \in D : KeyLess(l, k)})
    <2>. SUFFICES ASSUME NEW k \in D
                  PROVE  Rank(KeyOrder, D, k) = Cardinality({l \in D : KeyLess(l, k)})
      OBVIOUS
    <2>1. \A l \in D : <<l, k>> \in KeyOrder <=> KeyLess(l, k)
      BY <1>1 DEF KeyOrder
    <2>2. {l \in D : <<l, k>> \in KeyOrder} = {l \in D : KeyLess(l, k)}
      BY <2>1
    <2>. QED
      BY <2>2 DEF Rank
  <1>5. /\ \A k \in D : Rank(KeyOrder, D, k) + 1 \in 1..size
        /\ \A k, l \in D : Rank(KeyOrder, D, k) = Rank(KeyOrder, D, l) => k = l
        /\ \A i \in 1..size : \E k \in D : Rank(KeyOrder, D, k) = i - 1
    <2>. HIDE DEF D
    <2>. QED
      BY <1>1, <1>3, RankIs
  <1>6. \A i \in 1..size : b[i] \in D /\ Rank(KeyOrder, D, b[i]) = i - 1
    <2>. SUFFICES ASSUME NEW i \in 1..size
                  PROVE  b[i] \in D /\ Rank(KeyOrder, D, b[i]) = i - 1
      OBVIOUS
    <2>1. \E k \in D : Cardinality({l \in D : KeyLess(l, k)}) = i - 1
      BY <1>4, <1>5
    <2>2. b[i] \in D /\ Cardinality({l \in D : KeyLess(l, b[i])}) = i - 1
      <3>1. b[i] = CHOOSE k \in D : Cardinality({l \in D : KeyLess(l, k)}) = i - 1
        OBVIOUS
      <3>. HIDE DEF b, D, size
      <3>. QED
        BY <2>1, <3>1, Zenon
    <2>. QED
      BY <2>2, <1>4
  <1>7. Inserted(s) = [i \in 1..size |->
           LET key == CHOOSE k \in D : Cardinality({l \in D : KeyLess(l, k)}) = i - 1
           IN  [key |-> key, count |-> s[key]]]
    BY DEF Inserted
  <1>9. \A i \in 1..size : f[i] = s[b[i]]
    OBVIOUS
  <1>8. DOMAIN Inserted(s) = 1..size /\ \A i \in 1..size : f[i] = Inserted(s)[i].count
    <2>1. \A i \in 1..size : b[i] = CHOOSE k \in D : Cardinality({l \in D : KeyLess(l, k)}) = i - 1
      OBVIOUS
    <2>. HIDE DEF size, D, b, f
    <2>2. DOMAIN Inserted(s) = 1..size
          /\ \A i \in 1..size : Inserted(s)[i] = [key |-> b[i], count |-> s[b[i]]]
      BY <1>7, <2>1, ZenonT(60)
    <2>. QED
      BY <1>9, <2>2
  <1>. HIDE DEF b, f, size
  <1>10. \A i, j \in 1..size : b[i] = b[j] => i = j
    <2>. SUFFICES ASSUME NEW i \in 1..size, NEW j \in 1..size, b[i] = b[j]
                  PROVE  i = j
      OBVIOUS
    <2>1. i - 1 = j - 1
      BY <1>6
    <2>. QED
      BY <1>2, <2>1
  <1>. HIDE DEF D
  <1>11. D = {b[i] : i \in 1..size}
    <2>1. ASSUME NEW k \in D
          PROVE  \E i \in 1..size : k = b[i]
      <3>. DEFINE i == Rank(KeyOrder, D, k) + 1
      <3>1. i \in 1..size
        BY <1>5
      <3>2. b[i] \in D /\ Rank(KeyOrder, D, b[i]) = i - 1
        BY <3>1, <1>6
      <3>3. Rank(KeyOrder, D, k) = i - 1
        <4>1. Rank(KeyOrder, D, k) \in Int
          <5>. DEFINE A == {l \in D : <<l, k>> \in KeyOrder}
          <5>1. A \in SUBSET D
            OBVIOUS
          <5>. HIDE DEF A
          <5>2. Cardinality(A) \in Nat
            BY <1>1, <5>1, FS_Subset, FS_CardinalityType
          <5>. QED
            BY <5>2 DEF A, Rank
        <4>. QED
          BY <4>1
      <3>. HIDE DEF i
      <3>4. b[i] = k
        BY <3>2, <3>3, <1>5
      <3>. QED
        BY <3>1, <3>4
    <2>. QED
      BY <2>1, <1>6
  <1>12. Ints(f, 1..size)
    BY <1>1, <1>6, <1>9 DEF Ints
  <1>13. LinesTotal(Inserted(s)) = SumOf(f, 1..size)
    BY <1>2, <1>8, <1>12, LinesTotalIs
  <1>14. SumOf(f, 1..size) = SumOf(s, D)
    <2>. DEFINE S == 1..size
    <2>1. IsFiniteSet(S)
      BY <1>2, FS_Interval
    <2>2. /\ \A i, j \in S : b[i] = b[j] => i = j
          /\ D = {b[i] : i \in S}
          /\ \A i \in S : f[i] = s[b[i]]
      BY <1>9, <1>10, <1>11
    <2>. HIDE DEF S
    <2>3. SumOf(f, S) = SumOf(s, D)
      BY <1>1, <2>1, <2>2, SumRenamed
    <2>. QED
      BY <2>3 DEF S
  <1>. QED
    BY <1>13, <1>14 DEF TotalOf, D

Stores == {s \in UNION {[D -> Int] : D \in SUBSET Keys} : IsStore(s) /\ Paired(s)}

\* The stores that come up.
LEMMA StoresAre ==
    ASSUME NEW s
    PROVE  s \in Stores <=> IsStore(s) /\ Paired(s)
  <1>1. ASSUME IsStore(s)
        PROVE  s \in UNION {[D -> Int] : D \in SUBSET Keys}
    <2>. DEFINE D == DOMAIN s
    <2>1. D \in SUBSET Keys /\ s = [k \in D |-> s[k]] /\ \A k \in D : s[k] \in Int
      BY <1>1 DEF IsStore
    <2>. HIDE DEF D
    <2>2. s \in [D -> Int]
      BY <2>1
    <2>. QED
      BY <2>1, <2>2
  <1>. QED
    BY <1>1 DEF Stores

\* What a thread does with a position of its block.
Registered(s, position) ==
    LET curve == NewCurve(position)
    IN  IF Considered(curve)
        THEN RegisterCurve(s, CurveKey[curve], Multiplicity(RhsSupport(curve)))
        ELSE s

\* A curve that is counted has a key and a multiplicity.
Countable(position) ==
    LET curve == NewCurve(position)
    IN  HasSquarefreeRhs(curve) =>
            CurveKey[curve] \in Keys /\ Multiplicity(RhsSupport(curve)) \in Int

\* Counting at a position adds the curves there.
LEMMA RegisteredIs ==
    ASSUME NEW s \in Stores, NEW position, Countable(position)
    PROVE  /\ Registered(s, position) \in Stores
           /\ TotalOf(Registered(s, position)) = TotalOf(s) + CurvesAt(position)
           /\ CurvesAt(position) \in Int /\ TotalOf(s) \in Int
  <1>. DEFINE curve == NewCurve(position)
              key == CurveKey[curve]
              n == Multiplicity(RhsSupport(curve))
  <1>1. IsStore(s) /\ Paired(s)
    BY StoresAre
  <1>2. TotalOf(s) \in Int
    BY <1>1, SumInt DEF IsStore, Ints, TotalOf
  <1>3. CASE HasSquarefreeRhs(curve)
    <2>1. key \in Keys /\ n \in Int
      BY <1>3 DEF Countable
    <2>2. Registered(s, position) = RegisterCurve(s, key, n)
      BY <1>3 DEF Registered, Considered
    <2>3. CurvesAt(position) = 2 * n
      BY <1>3 DEF CurvesAt
    <2>. HIDE DEF key, n, curve
    <2>. DEFINE t == RegisterCurve(s, key, n)
    <2>4. IsStore(t) /\ Paired(t) /\ TotalOf(t) = TotalOf(s) + 2 * n
      BY <1>1, <2>1, RegisterCurveIs
    <2>. HIDE DEF t
    <2>5. t \in Stores
      BY <2>4, StoresAre
    <2>. QED
      BY <1>2, <2>1, <2>2, <2>3, <2>4, <2>5 DEF t
  <1>4. CASE ~HasSquarefreeRhs(curve)
    <2>1. Registered(s, position) = s
      BY <1>4 DEF Registered, Considered
    <2>2. CurvesAt(position) = 0
      BY <1>4 DEF CurvesAt
    <2>. QED
      BY <1>2, <2>1, <2>2
  <1>. QED
    BY <1>3, <1>4

\* A thread registers each curve of its block and its twist.
LEMMA StoreOfIs ==
    ASSUME NEW block, NEW size \in Nat, DOMAIN PositionsOf(block) = 1..size,
           \A n \in 1..size : Countable(PositionsOf(block)[n])
    PROVE  /\ StoreOf(block) \in Stores
           /\ TotalOf(StoreOf(block)) = CurvesOf(block)
           /\ CurvesOf(block) \in Int
  <1>. DEFINE P == PositionsOf(block)
              S == 1..size
              H(h) == [s \in SUBSET (DOMAIN P) |->
                          IF s = {} THEN EmptyStore
                          ELSE Registered(h[s \ {Max(s)}], P[Max(s)])]
              iter == CHOOSE h : h = H(h)
              pick == [s \in SUBSET S |-> Max(s)]
              G == [n \in S |-> [s \in Stores |-> Registered(s, P[n])]]
              f == [n \in S |-> CurvesAt(P[n])]
  <1>1. StoreOf(block) = iter[DOMAIN P]
    BY DEF StoreOf, FoldLeft, MapThenFoldSet, Registered
  <1>2. IsFiniteSet(S) /\ \A s \in SUBSET S : s # {} => Max(s) \in s
    <2>1. IsFiniteSet(S)
      BY FS_Interval
    <2>2. \A s \in SUBSET S : s # {} => Max(s) \in s
      BY MaxOfFinite
    <2>. QED
      BY <2>1, <2>2
  <1>3. \A s \in SUBSET S : s # {} => pick[s] \in s
    BY <1>2
  <1>4. EmptyStore \in Stores
    BY EmptyStoreIs, StoresAre
  <1>5. \A n \in S : Countable(P[n])
    OBVIOUS
  <1>. HIDE DEF P
  <1>6. ASSUME NEW n \in S, NEW s \in Stores
        PROVE  /\ Registered(s, P[n]) \in Stores
               /\ TotalOf(Registered(s, P[n])) = TotalOf(s) + f[n]
               /\ f[n] \in Int /\ TotalOf(s) \in Int
    <2>. DEFINE p == P[n]
    <2>1. Countable(p) /\ f[n] = CurvesAt(p)
      BY <1>5
    <2>. HIDE DEF p, f
    <2>2. /\ Registered(s, p) \in Stores
          /\ TotalOf(Registered(s, p)) = TotalOf(s) + CurvesAt(p)
          /\ CurvesAt(p) \in Int /\ TotalOf(s) \in Int
      BY <2>1, RegisteredIs
    <2>. QED
      BY <2>1, <2>2 DEF p
  <1>7. G \in [S -> [Stores -> Stores]]
    BY <1>6
  <1>8. PICK c : Folds(c, S, Stores, EmptyStore, G, pick)
    <2>. HIDE DEF G, pick, S
    <2>. QED
      BY <1>2, <1>3, <1>4, <1>7, FoldSolves
  <1>9. c \in [SUBSET S -> Stores] /\ c[{}] = EmptyStore
    BY <1>8 DEF Folds
  <1>10. ASSUME NEW s \in SUBSET S, s # {}
         PROVE  c[s] = Registered(c[s \ {Max(s)}], P[Max(s)])
    <2>1. Max(s) \in S /\ c[s \ {Max(s)}] \in Stores
      BY <1>2, <1>9, <1>10
    <2>2. c[s] = G[pick[s]][c[s \ {pick[s]}]]
      BY <1>8, <1>10 DEF Folds
    <2>3. pick[s] = Max(s)
      OBVIOUS
    <2>. QED
      BY <2>1, <2>2, <2>3
  <1>11. DOMAIN P = S
    BY DEF P
  <1>. HIDE DEF S
  <1>12. c = H(c)
    BY <1>9, <1>10, <1>11
  <1>13. iter = H(iter)
    BY <1>12, Zenon
  <1>. HIDE DEF iter
  <1>14. iter[{}] = EmptyStore
    BY <1>11, <1>13
  <1>15. \A s \in SUBSET S : s # {} => iter[s] = Registered(iter[s \ {Max(s)}], P[Max(s)])
    BY <1>11, <1>13
  <1>16. Ints(f, S)
    BY <1>4, <1>6 DEF Ints
  <1>17. PICK sum : Additive(sum, f, S)
    <2>. HIDE DEF f
    <2>. QED
      BY <1>2, <1>16, AdditiveExists
  <1>. DEFINE I == {s \in SUBSET S : iter[s] \in Stores /\ TotalOf(iter[s]) = sum[s]}
  <1>18. {} \in I
    BY <1>4, <1>14, <1>17, EmptyStoreIs DEF Additive
  <1>19. ASSUME NEW s \in SUBSET S, s # {}, \A x \in s : s \ {x} \in I
         PROVE  s \in I
    <2>. DEFINE m == Max(s)
                t == iter[s \ {m}]
    <2>1. m \in s /\ m \in S
      BY <1>2, <1>19
    <2>2. t \in Stores /\ TotalOf(t) = sum[s \ {m}]
      BY <2>1, <1>19
    <2>3. iter[s] = Registered(t, P[m])
      BY <1>15, <1>19
    <2>4. sum[s] = sum[s \ {m}] + f[m]
      BY <2>1, <1>17 DEF Additive
    <2>. HIDE DEF m, t, f
    <2>5. Registered(t, P[m]) \in Stores /\ TotalOf(Registered(t, P[m])) = TotalOf(t) + f[m]
      BY <2>1, <2>2, <1>6
    <2>. QED
      BY <2>2, <2>3, <2>4, <2>5
  <1>. HIDE DEF I
  <1>20. \A s \in SUBSET S : s \in I
    BY <1>2, <1>18, <1>19, SubsetInductionAll
  <1>21. iter[S] \in Stores /\ TotalOf(iter[S]) = sum[S]
    BY <1>20 DEF I
  <1>22. CurvesOf(block) = SumOf(f, S)
    <2>1. \A n \in 1..size : f[n] = CurvesAt(PositionsOf(block)[n])
      BY DEF P, S
    <2>2. Ints(f, 1..size)
      BY <1>16 DEF S
    <2>. HIDE DEF f
    <2>3. CurvesOf(block) = SumOf(f, 1..size)
      BY <2>1, <2>2, CurvesOfIs
    <2>. QED
      BY <2>3 DEF S
  <1>. HIDE DEF f
  <1>23. SumOf(f, S) = sum[S] /\ sum[S] \in Int
    <2>1. sum[S] \in Int
      BY <1>17 DEF Additive
    <2>2. SumOf(f, S) = sum[S]
      BY <1>2, <1>16, <1>17, SumIs
    <2>. QED
      BY <2>1, <2>2
  <1>. QED
    BY <1>1, <1>11, <1>21, <1>22, <1>23

-----------------------------------------------------------------------------
(* Curves of sets of blocks                                                *)

\* The curves of a set of blocks are a sum.
LEMMA NumberIs ==
    ASSUME NEW S, IsFiniteSet(S), NEW f, Ints(f, S), \A b \in S : f[b] = CurvesOf(b)
    PROVE  NumberOfCurves(S) = SumOf(f, S)
  <1>. DEFINE G(h) == [s \in SUBSET S |->
                          IF s = {} THEN 0
                          ELSE CurvesOf(CHOOSE x \in s : TRUE) + h[s \ {CHOOSE x \in s : TRUE}]]
              iter == CHOOSE h : h = G(h)
              pick == [s \in SUBSET S |-> CHOOSE x \in s : TRUE]
  <1>1. NumberOfCurves(S) = iter[S]
    BY DEF NumberOfCurves, MapThenSumSet, MapThenFoldSet
  <1>2. \A s \in SUBSET S : s # {} => (CHOOSE x \in s : TRUE) \in s
    OBVIOUS
  <1>3. \A s \in SUBSET S : s # {} => pick[s] \in s
    BY <1>2
  <1>4. \A s \in SUBSET S : pick[s] = CHOOSE x \in s : TRUE
    OBVIOUS
  <1>. HIDE DEF pick
  <1>5. PICK c \in [SUBSET S -> Int] : AddsUp(c, f, S, pick) /\ c[S] = SumOf(f, S)
    BY <1>3, SumSolves
  <1>6. ASSUME NEW s \in SUBSET S, s # {}
        PROVE  c[s] = CurvesOf(pick[s]) + c[s \ {pick[s]}]
    <2>1. pick[s] \in S
      BY <1>3, <1>6
    <2>2. c[s] = f[pick[s]] + c[s \ {pick[s]}]
      BY <1>5, <1>6 DEF AddsUp
    <2>. QED
      BY <2>1, <2>2
  <1>7. c[{}] = 0
    BY <1>5 DEF AddsUp
  <1>8. c = G(c)
    <2>1. \A s \in SUBSET S : s # {} =>
            c[s] = CurvesOf(CHOOSE x \in s : TRUE) + c[s \ {CHOOSE x \in s : TRUE}]
      BY <1>4, <1>6, Zenon
    <2>. QED
      BY <2>1, <1>5, <1>7
  <1>9. iter = G(iter)
    BY <1>8, ZenonT(40)
  <1>. HIDE DEF iter
  <1>10. \A s \in SUBSET S : s # {} => iter[s] = CurvesOf(pick[s]) + iter[s \ {pick[s]}]
    <2>1. \A s \in SUBSET S : s # {} =>
            iter[s] = CurvesOf(CHOOSE x \in s : TRUE) + iter[s \ {CHOOSE x \in s : TRUE}]
      BY <1>9
    <2>. QED
      BY <1>4, <2>1, Zenon
  <1>. DEFINE I == {s \in SUBSET S : iter[s] = c[s]}
  <1>11. {} \in I
    BY <1>7, <1>9
  <1>12. ASSUME NEW s \in SUBSET S, s # {}, \A x \in s : s \ {x} \in I
         PROVE  s \in I
    <2>1. pick[s] \in s
      BY <1>3, <1>12
    <2>2. iter[s] = CurvesOf(pick[s]) + iter[s \ {pick[s]}]
      BY <1>10, <1>12
    <2>3. iter[s \ {pick[s]}] = c[s \ {pick[s]}]
      BY <2>1, <1>12
    <2>4. iter[s] = c[s]
      BY <2>2, <2>3, <1>6, <1>12
    <2>. QED
      BY <2>4
  <1>. HIDE DEF I
  <1>13. \A s \in SUBSET S : s \in I
    BY <1>11, <1>12, SubsetInductionAll
  <1>14. iter[S] = c[S]
    BY <1>13 DEF I
  <1>. QED
    BY <1>1, <1>5, <1>14

\* No block has no curves.
LEMMA NumberOfNone == NumberOfCurves({}) = 0
  <1>. DEFINE f == [b \in {} |-> 0]
  <1>1. Ints(f, {}) /\ IsFiniteSet({})
    BY FS_EmptySet DEF Ints
  <1>. HIDE DEF f
  <1>2. NumberOfCurves({}) = SumOf(f, {})
    BY <1>1, NumberIs
  <1>. QED
    BY <1>2, SumEmpty

\* A further block adds its curves.
LEMMA NumberOfOneMore ==
    ASSUME NEW S, IsFiniteSet(S), NEW b, b \notin S,
           \A x \in S \cup {b} : CurvesOf(x) \in Int
    PROVE  NumberOfCurves(S \cup {b}) = NumberOfCurves(S) + CurvesOf(b)
  <1>. DEFINE T == S \cup {b}
              f == [x \in T |-> CurvesOf(x)]
  <1>1. IsFiniteSet(T)
    BY FS_AddElement
  <1>2. Ints(f, T) /\ Ints(f, S) /\ \A x \in T : f[x] = CurvesOf(x)
    BY DEF Ints
  <1>3. b \in T /\ T \ {b} = S
    OBVIOUS
  <1>. HIDE DEF f, T
  <1>4. SumOf(f, T) = SumOf(f, T \ {b}) + f[b]
    BY <1>1, <1>2, <1>3, SumRemove
  <1>5. NumberOfCurves(T) = SumOf(f, T)
    BY <1>1, <1>2, NumberIs
  <1>6. NumberOfCurves(S) = SumOf(f, S)
    <2>1. \A x \in S : f[x] = CurvesOf(x)
      BY <1>2 DEF T
    <2>. QED
      BY <1>2, <2>1, NumberIs
  <1>7. NumberOfCurves(T) = NumberOfCurves(S) + CurvesOf(b)
    BY <1>2, <1>3, <1>4, <1>5, <1>6
  <1>. QED
    BY <1>7 DEF T

-----------------------------------------------------------------------------
(* Numbers                                                                 *)

LEMMA PrimeIs == Prime \in Nat /\ Prime > 1
  BY FieldAssumption

\* Products are monotone.
LEMMA Monotone ==
    ASSUME NEW n \in Nat, NEW x \in Nat, NEW y \in Nat, x < y
    PROVE  n * x + n <= n * y
  <1>1. PICK d \in Nat : y = x + 1 + d
    <2>1. y - x - 1 \in Nat /\ y = x + 1 + (y - x - 1)
      OBVIOUS
    <2>. QED
      BY <2>1
  <1>2. n * y = n * x + n + n * d
    BY <1>1
  <1>3. n * d >= 0 /\ n * d \in Int /\ n * x \in Int
    OBVIOUS
  <1>. QED
    BY <1>2, <1>3

\* Division with remainder.
LEMMA Division ==
    ASSUME NEW n \in Nat \ {0}, NEW a \in Nat
    PROVE  \E q \in Nat, r \in 0..(n - 1) : q = a \div n /\ r = a % n /\ a = n * q + r
  <1>1. PICK q \in Nat : q = a \div n
    OBVIOUS
  <1>2. PICK r \in 0..(n - 1) : r = a % n
    OBVIOUS
  <1>3. a = n * q + r
    BY <1>1, <1>2, SMTT(30)
  <1>. QED
    BY <1>1, <1>2, <1>3

\* Division with remainder has one result only.
LEMMA RemainderIs ==
    ASSUME NEW n \in Nat \ {0}, NEW q \in Nat, NEW r \in 0..(n - 1),
           NEW a \in Nat, a = n * q + r
    PROVE  a % n = r /\ a \div n = q
  <1>1. n * q \in Nat
    OBVIOUS
  <1>2. PICK d \in Nat, s \in 0..(n - 1) : d = a \div n /\ s = a % n /\ a = n * d + s
    BY Division
  <1>3. n * d \in Nat
    BY <1>2
  <1>4. ~(d < q)
    <2>. SUFFICES ASSUME d < q PROVE FALSE
      OBVIOUS
    <2>1. n * d + n <= n * q
      BY <1>2, Monotone
    <2>. QED
      BY <1>1, <1>2, <1>3, <2>1
  <1>5. ~(q < d)
    <2>. SUFFICES ASSUME q < d PROVE FALSE
      OBVIOUS
    <2>1. n * q + n <= n * d
      BY <1>2, Monotone
    <2>. QED
      BY <1>1, <1>2, <1>3, <2>1
  <1>6. d = q
    BY <1>2, <1>4, <1>5
  <1>7. s = r
    BY <1>1, <1>2, <1>6
  <1>. QED
    BY <1>2, <1>6, <1>7

\* The powers of the prime.
LEMMA PowerIs ==
    ASSUME NEW i \in 0..MaxExponent
    PROVE  /\ Prime^0 = 1 /\ Prime^i \in Nat \ {0}
           /\ Prime^(i + 1) = Prime * Prime^i /\ Prime^(i + 1) > 1
  <1>1. PICK p \in Nat \ {0, 1} : p = Prime
    BY PrimeIs
  <1>2. PICK m \in Nat \ {0} : m = Prime^i
    BY PowersOfPrime
  <1>3. Prime^0 = 1 /\ Prime^(i + 1) = p * m
    BY <1>1, <1>2, PowersOfPrime
  <1>4. PICK l \in Nat : m = l + 1
    <2>1. m - 1 \in Nat /\ m = m - 1 + 1
      OBVIOUS
    <2>. QED
      BY <2>1
  <1>5. p * m = p * l + p /\ p * l >= 0 /\ p * l \in Int
    BY <1>4
  <1>6. p * m > 1
    BY <1>5
  <1>. QED
    BY <1>1, <1>2, <1>3, <1>6

\* The logarithms are 0..(pred - 1), and pred stands for zero.
LEMMA FieldIs ==
    \E pred \in Nat \ {0} :
        /\ PrimePowerPred(PrimeExponent) = pred
        /\ ZeroIndex(PrimeExponent) = pred
        /\ Order(PrimeExponent) = pred + 1
  <1>1. PrimeExponent - 1 \in 0..MaxExponent /\ PrimeExponent - 1 + 1 = PrimeExponent
    BY FieldAssumption, PrimeExponentAssumption
  <1>2. PrimeExponent \in 0..MaxExponent
    BY FieldAssumption, PrimeExponentAssumption
  <1>3. PICK n \in Nat : n = Prime^PrimeExponent /\ n > 1
    BY <1>1, <1>2, PowerIs
  <1>4. Order(PrimeExponent) = n
    BY <1>3 DEF Order
  <1>5. n - 1 \in Nat \ {0} /\ n = (n - 1) + 1
    BY <1>3
  <1>6. /\ PrimePowerPred(PrimeExponent) = n - 1
        /\ ZeroIndex(PrimeExponent) = n - 1
        /\ Order(PrimeExponent) = (n - 1) + 1
    BY <1>4, <1>5 DEF PrimePowerPred, ZeroIndex
  <1>. QED
    BY <1>5, <1>6, Zenon

\* A set of numbers up to n that is not empty has a greatest one.
LEMMA Greatest ==
    ASSUME NEW n \in Nat, NEW s \in SUBSET (1..n), s # {}
    PROVE  \E x \in s : \A y \in s : x >= y
  <1>. DEFINE T == {m \in 0..n : \A r \in SUBSET (1..m) : r # {} => \E x \in r : \A y \in r : x >= y}
  <1>2. 0 \in T
    <2>1. \A r \in SUBSET (1..0) : r = {}
      OBVIOUS
    <2>2. \A r \in SUBSET (1..0) : r # {} => \E x \in r : \A y \in r : x >= y
      BY <2>1, Zenon
    <2>. QED
      BY <2>2
  <1>3. ASSUME NEW m \in 1..n, m - 1 \in T
        PROVE  m \in T
    <2>. SUFFICES ASSUME NEW r \in SUBSET (1..m), r # {}
                  PROVE  \E x \in r : \A y \in r : x >= y
      OBVIOUS
    <2>1. CASE m \in r
      BY <2>1
    <2>2. CASE m \notin r
      <3>1. r \in SUBSET (1..(m - 1))
        BY <2>2
      <3>. QED
        BY <3>1, <1>3
    <2>. QED
      BY <2>1, <2>2
  <1>. HIDE DEF T
  <1>4. \A m \in 0..n : m \in T
    BY <1>2, <1>3, UpTo
  <1>5. \A r \in SUBSET (1..n) : r # {} => \E x \in r : \A y \in r : x >= y
    <2>1. n \in T
      BY <1>4
    <2>. QED
      BY <2>1 DEF T
  <1>. QED
    BY <1>5, Zenon

\* The greatest common divisor divides.
LEMMA GcdIs ==
    ASSUME NEW m \in Nat, NEW n \in Nat, m + n >= 1
    PROVE  /\ Gcd(m, n) \in 1..(m + n)
           /\ m % Gcd(m, n) = 0 /\ n % Gcd(m, n) = 0
  <1>. DEFINE D == {d \in 1..(m + n) : m % d = 0 /\ n % d = 0}
  <1>1. 1 \in D
    BY RemainderIs
  <1>2. PICK d \in D : \A e \in D : d >= e
    <2>1. m + n \in Nat /\ D \in SUBSET (1..(m + n)) /\ D # {}
      BY <1>1
    <2>. HIDE DEF D
    <2>. QED
      BY <2>1, Greatest
  <1>3. /\ d \in 1..(m + n) /\ m % d = 0 /\ n % d = 0
        /\ \A e \in 1..(m + n) : m % e = 0 /\ n % e = 0 => e <= d
    BY <1>2
  <1>. QED
    BY <1>3 DEF Gcd

\* The gcd with a positive number is at most that number.
LEMMA GcdBelow ==
    ASSUME NEW m \in Nat, NEW n \in Nat \ {0}
    PROVE  Gcd(m, n) \in 1..n
  <1>1. PICK d \in 1..(m + n) : d = Gcd(m, n) /\ n % d = 0
    <2>1. m + n >= 1
      OBVIOUS
    <2>2. Gcd(m, n) \in 1..(m + n) /\ n % Gcd(m, n) = 0
      BY <2>1, GcdIs
    <2>. QED
      BY <2>2, Zenon
  <1>2. PICK q \in Nat, r \in 0..(d - 1) : q = n \div d /\ r = n % d /\ n = d * q + r
    <2>1. d \in Nat \ {0}
      OBVIOUS
    <2>. QED
      BY <2>1, Division
  <1>3. q # 0
    BY <1>1, <1>2
  <1>4. PICK p \in Nat : q = p + 1
    <2>1. q - 1 \in Nat /\ q = (q - 1) + 1
      BY <1>3
    <2>. QED
      BY <2>1
  <1>5. n = d * p + d /\ d * p >= 0 /\ d * p \in Int
    <2>1. r = 0 /\ d \in Nat
      BY <1>1, <1>2
    <2>2. d * (p + 1) = d * p + d /\ d * p >= 0 /\ d * p \in Int
      BY <2>1
    <2>3. n = d * (p + 1) + 0
      BY <1>2, <1>4, <2>1
    <2>. QED
      BY <2>1, <2>2, <2>3
  <1>6. d >= 1 /\ d \in Nat /\ d <= n
    BY <1>5
  <1>7. d \in 1..n
    BY <1>6
  <1>. QED
    BY <1>1, <1>7

-----------------------------------------------------------------------------
(* Lists                                                                   *)

\* A function on 1..N by its first value and how each one follows from the last.
Follows(h, N, V, a, G) ==
    /\ h \in [1..N -> V]
    /\ \A n \in 1..N : h[n] = IF n = 1 THEN a ELSE G[n][h[n - 1]]

\* Such functions exist.
LEMMA FromTheFirst ==
    ASSUME NEW N \in Nat, NEW V, NEW a \in V, NEW G \in [1..N -> [V -> V]]
    PROVE  \E h : Follows(h, N, V, a, G)
  <1>. DEFINE Solves(h, n) == /\ h \in [1..n -> V]
                              /\ \A i \in 1..n : h[i] = IF i = 1 THEN a ELSE G[i][h[i - 1]]
              T == {n \in 0..N : \E h : Solves(h, n)}
  <1>1. 0 \in T
    <2>. DEFINE h == [i \in 1..0 |-> a]
    <2>1. 1..0 = {} /\ 0 \in 0..N
      OBVIOUS
    <2>2. h \in [1..0 -> V]
      OBVIOUS
    <2>. HIDE DEF h
    <2>3. Solves(h, 0)
      BY <2>1, <2>2, Zenon
    <2>. HIDE DEF Solves
    <2>. QED
      BY <2>1, <2>3
  <1>2. ASSUME NEW n \in 1..N, n - 1 \in T
        PROVE  n \in T
    <2>1. PICK g : Solves(g, n - 1)
      BY <1>2
    <2>. DEFINE v == IF n = 1 THEN a ELSE G[n][g[n - 1]]
                h == [i \in 1..n |-> IF i = n THEN v ELSE g[i]]
    <2>2. v \in V
      <3>1. CASE n = 1
        BY <3>1
      <3>2. CASE n # 1
        <4>1. n - 1 \in 1..(n - 1)
          BY <3>2
        <4>2. g[n - 1] \in V
          BY <2>1, <4>1
        <4>3. v = G[n][g[n - 1]]
          BY <3>2
        <4>. QED
          BY <4>2, <4>3
      <3>. QED
        BY <3>1, <3>2
    <2>3. \A i \in 1..n : i # n => i \in 1..(n - 1)
      OBVIOUS
    <2>. HIDE DEF v
    <2>4. h \in [1..n -> V]
      BY <2>1, <2>2, <2>3
    <2>5. ASSUME NEW i \in 1..n
          PROVE  h[i] = IF i = 1 THEN a ELSE G[i][h[i - 1]]
      <3>1. CASE i = n
        <4>1. h[i] = v
          BY <3>1
        <4>2. n # 1 => h[n - 1] = g[n - 1]
          OBVIOUS
        <4>. HIDE DEF h
        <4>. QED
          BY <4>1, <4>2, <3>1, Zenon DEF v
      <3>2. CASE i # n
        <4>1. i \in 1..(n - 1) /\ h[i] = g[i]
          BY <2>3, <3>2
        <4>2. i # 1 => h[i - 1] = g[i - 1]
          OBVIOUS
        <4>3. g[i] = IF i = 1 THEN a ELSE G[i][g[i - 1]]
          BY <2>1, <4>1
        <4>. HIDE DEF h
        <4>. QED
          BY <4>1, <4>2, <4>3, Zenon
      <3>. QED
        BY <3>1, <3>2
    <2>. HIDE DEF h
    <2>6. Solves(h, n)
      BY <2>4, <2>5
    <2>. HIDE DEF Solves
    <2>. QED
      BY <2>6
  <1>. HIDE DEF T
  <1>3. \A n \in 0..N : n \in T
    BY <1>1, <1>2, UpTo
  <1>4. N \in T
    BY <1>3
  <1>. QED
    BY <1>4 DEF T, Follows

\* s has each element of S once.
Lists(s, S) ==
    /\ s \in Seq(S)
    /\ \A i, j \in 1..Len(s) : s[i] = s[j] => i = j
    /\ \A x \in S : \E i \in 1..Len(s) : s[i] = x

\* The elements of a finite set in an order are a list of them.
LEMMA SortedIs ==
    ASSUME NEW S, IsFiniteSet(S), NEW R, Orders(R, S), NEW s,
           s = [k \in 1..Cardinality(S) |-> CHOOSE x \in S : Rank(R, S, x) = k - 1]
    PROVE  Lists(s, S) /\ Len(s) = Cardinality(S)
  <1>. DEFINE n == Cardinality(S)
  <1>1. n \in Nat
    BY FS_CardinalityType
  <1>2. /\ \A x \in S : Rank(R, S, x) + 1 \in 1..n
        /\ \A x, y \in S : Rank(R, S, x) = Rank(R, S, y) => x = y
        /\ \A i \in 1..n : \E x \in S : Rank(R, S, x) = i - 1
    BY RankIs
  <1>2a. \A x \in S : Rank(R, S, x) \in Nat
    <2>. SUFFICES ASSUME NEW x \in S PROVE Rank(R, S, x) \in Nat
      OBVIOUS
    <2>. DEFINE A == {y \in S : <<y, x>> \in R}
    <2>1. A \in SUBSET S
      OBVIOUS
    <2>. HIDE DEF A
    <2>2. Cardinality(A) \in Nat
      BY <2>1, FS_Subset, FS_CardinalityType
    <2>. QED
      BY <2>2 DEF A, Rank
  <1>. HIDE DEF n
  <1>3. s = [k \in 1..n |-> CHOOSE x \in S : Rank(R, S, x) = k - 1]
    BY DEF n
  <1>4. ASSUME NEW k \in 1..n
        PROVE  s[k] \in S /\ Rank(R, S, s[k]) = k - 1
    BY <1>2, <1>3
  <1>5. s = [k \in 1..n |-> s[k]]
    BY <1>3
  <1>6. s \in [1..n -> S]
    BY <1>4, <1>5
  <1>7. s \in Seq(S) /\ Len(s) = n
    <2>1. s \in Seq(S)
      BY ONLY <1>1, <1>6
    <2>2. Len(s) = n
      BY ONLY <1>1, <1>6, <2>1
    <2>. QED
      BY <2>1, <2>2
  <1>8. ASSUME NEW i \in 1..n, NEW j \in 1..n, s[i] = s[j]
        PROVE  i = j
    <2>1. i - 1 = j - 1
      BY <1>4, <1>8
    <2>. QED
      BY <1>1, <2>1
  <1>9. ASSUME NEW x \in S
        PROVE  \E i \in 1..n : s[i] = x
    <2>. DEFINE i == Rank(R, S, x) + 1
    <2>1. i \in 1..n
      BY <1>2
    <2>2. Rank(R, S, x) = i - 1
      BY <1>2a
    <2>. HIDE DEF i
    <2>3. s[i] = x
      BY <2>1, <2>2, <1>2, <1>4
    <2>. QED
      BY <2>1, <2>3
  <1>. QED
    BY <1>7, <1>8, <1>9 DEF Lists, n

\* Keys in the order of a std::map.
LEMMA AscendingIs ==
    ASSUME NEW S \in SUBSET Nat, IsFiniteSet(S)
    PROVE  Lists(Ascending(S), S) /\ Len(Ascending(S)) = Cardinality(S)
  <1>. DEFINE R == {p \in S \X S : p[1] < p[2]}
  <1>1. Orders(R, S)
    BY DEF Orders
  <1>2. \A x \in S : {y \in S : y < x} = {y \in S : <<y, x>> \in R}
    OBVIOUS
  <1>3. \A x \in S : Cardinality({y \in S : y < x}) = Rank(R, S, x)
    BY <1>2, Zenon DEF Rank
  <1>. HIDE DEF R
  <1>4. \A k : (CHOOSE x \in S : Cardinality({y \in S : y < x}) = k - 1)
               = CHOOSE x \in S : Rank(R, S, x) = k - 1
    BY <1>3
  <1>5. Ascending(S) = [k \in 1..Cardinality(S) |-> CHOOSE x \in S : Rank(R, S, x) = k - 1]
    BY <1>4 DEF Ascending, Ordered
  <1>. QED
    BY <1>1, <1>5, SortedIs

\* The intervals from the largest to the smallest.
LEMMA OrderOfBlocksIs ==
    ASSUME NEW S \in SUBSET Nat, IsFiniteSet(S), NEW blocks, DOMAIN blocks = S,
           \A x \in S : Size(blocks[x]) \in Int
    PROVE  Lists(UpdateOrderBlocks(blocks), S) /\ Len(UpdateOrderBlocks(blocks)) = Cardinality(S)
  <1>. DEFINE Before(x, y) == \/ Size(blocks[x]) > Size(blocks[y])
                              \/ Size(blocks[x]) = Size(blocks[y]) /\ x > y
              R == {p \in S \X S : Before(p[1], p[2])}
  <1>1. \A x, y \in S : <<x, y>> \in R <=> Before(x, y)
    OBVIOUS
  <1>2. Orders(R, S)
    <2>. HIDE DEF R
    <2>1. \A x \in S : ~Before(x, x)
      OBVIOUS
    <2>2. \A x, y \in S : x # y => Before(x, y) \/ Before(y, x)
      OBVIOUS
    <2>3. \A x, y, z \in S : Before(x, y) /\ Before(y, z) => Before(x, z)
      OBVIOUS
    <2>. HIDE DEF Before
    <2>. QED
      BY <1>1, <2>1, <2>2, <2>3 DEF Orders
  <1>3. \A x \in S : {y \in S : Before(y, x)} = {y \in S : <<y, x>> \in R}
    <2>. HIDE DEF R, Before
    <2>. QED
      BY <1>1
  <1>4. \A x \in S : Cardinality({y \in S : Before(y, x)}) = Rank(R, S, x)
    BY <1>3, Zenon DEF Rank
  <1>. HIDE DEF R
  <1>5. UpdateOrderBlocks(blocks)
          = [k \in 1..Cardinality(S) |->
                CHOOSE x \in S : Cardinality({y \in S : Before(y, x)}) = k - 1]
    BY DEF UpdateOrderBlocks, Ordered
  <1>. HIDE DEF Before
  <1>6. \A k : (CHOOSE x \in S : Cardinality({y \in S : Before(y, x)}) = k - 1)
               = CHOOSE x \in S : Rank(R, S, x) = k - 1
    BY <1>4
  <1>7. UpdateOrderBlocks(blocks)
          = [k \in 1..Cardinality(S) |-> CHOOSE x \in S : Rank(R, S, x) = k - 1]
    BY <1>5, <1>6
  <1>. QED
    BY <1>2, <1>7, SortedIs

Joins(u, s, S, t, T) ==
    /\ Lists(u, S \cup T) /\ Len(u) = Len(s) + Len(t)
    /\ \A i \in 1..Len(s) : u[i] = s[i] /\ u[i] \in S
    /\ \A i \in 1..(Len(s) + Len(t)) : u[i] \in S => i <= Len(s)

\* Lists of disjoint sets, one after the other.
LEMMA JoinedIs ==
    ASSUME NEW S, NEW s, Lists(s, S), NEW T, NEW t, Lists(t, T), S \cap T = {}
    PROVE  Joins(s \o t, s, S, t, T)
  <1>1. s \in Seq(S) /\ t \in Seq(T) /\ Len(s) \in Nat /\ Len(t) \in Nat
    BY DEF Lists
  <1>. DEFINE u == s \o t
  <1>2. u \in Seq(S \cup T) /\ Len(u) = Len(s) + Len(t)
    BY <1>1
  <1>3. \A i \in 1..Len(s) : u[i] = s[i] /\ s[i] \in S
    BY <1>1
  <1>4. \A i \in 1..Len(t) : u[Len(s) + i] = t[i] /\ t[i] \in T
    BY <1>1
  <1>. HIDE DEF u
  <1>5. \A i \in 1..Len(u) : \/ i \in 1..Len(s)
                             \/ i - Len(s) \in 1..Len(t) /\ i = Len(s) + (i - Len(s))
    BY <1>1, <1>2
  <1>6. ASSUME NEW i \in 1..Len(u), i \notin 1..Len(s)
        PROVE  u[i] = t[i - Len(s)] /\ i - Len(s) \in 1..Len(t) /\ u[i] \in T
    <2>1. i - Len(s) \in 1..Len(t) /\ i = Len(s) + (i - Len(s))
      BY <1>5, <1>6
    <2>2. u[Len(s) + (i - Len(s))] = t[i - Len(s)] /\ t[i - Len(s)] \in T
      BY <1>4, <2>1
    <2>. QED
      BY <2>1, <2>2
  <1>7. ASSUME NEW i \in 1..Len(u), NEW j \in 1..Len(u), u[i] = u[j]
        PROVE  i = j
    <2>1. CASE i \in 1..Len(s) /\ j \in 1..Len(s)
      BY <2>1, <1>3, <1>7 DEF Lists
    <2>2. CASE i \notin 1..Len(s) /\ j \notin 1..Len(s)
      <3>1. i - Len(s) = j - Len(s)
        BY <2>2, <1>6, <1>7 DEF Lists
      <3>. QED
        BY <1>1, <3>1
    <2>3. CASE i \in 1..Len(s) /\ j \notin 1..Len(s)
      BY <2>3, <1>3, <1>6, <1>7
    <2>4. CASE i \notin 1..Len(s) /\ j \in 1..Len(s)
      BY <2>4, <1>3, <1>6, <1>7
    <2>. QED
      BY <2>1, <2>2, <2>3, <2>4
  <1>8. ASSUME NEW x \in S \cup T
        PROVE  \E i \in 1..Len(u) : u[i] = x
    <2>1. CASE x \in S
      <3>1. PICK i \in 1..Len(s) : s[i] = x
        BY <2>1 DEF Lists
      <3>2. i \in 1..Len(u)
        BY <1>1, <1>2
      <3>. QED
        BY <3>1, <3>2, <1>3
    <2>2. CASE x \in T
      <3>1. PICK i \in 1..Len(t) : t[i] = x
        BY <2>2 DEF Lists
      <3>2. Len(s) + i \in 1..Len(u)
        BY <1>1, <1>2
      <3>. QED
        BY <3>1, <3>2, <1>4
    <2>. QED
      BY <2>1, <2>2
  <1>9. \A i \in 1..Len(u) : u[i] \in S => i <= Len(s)
    BY <1>1, <1>6
  <1>. QED
    BY <1>2, <1>3, <1>7, <1>8, <1>9 DEF Lists, Joins, u

-----------------------------------------------------------------------------
(* Block iterators                                                         *)

Coordinates(it) == 0..(it.length - 1)

\* A list of different numbers, of one at least.
IsList(s) ==
    /\ s \in Seq(Nat) /\ Len(s) \in Nat \ {0}
    /\ \A i, j \in 1..Len(s) : s[i] = s[j] => i = j

IsInterval(b) == b.lbd \in Nat /\ b.ubd \in Nat /\ b.step \in Nat \ {0} /\ b.lbd < b.ubd

IsIterator(it) ==
    /\ it = [length |-> it.length, blocks |-> it.blocks, sets |-> it.sets,
             dependent_sets |-> it.dependent_sets, order |-> it.order,
             position |-> it.position, has_reached_end |-> it.has_reached_end]
    /\ it.length \in Nat
    /\ DOMAIN it.blocks \cup DOMAIN it.sets \cup DOMAIN it.dependent_sets = Coordinates(it)
    /\ DOMAIN it.blocks \cap DOMAIN it.sets = {}
    /\ DOMAIN it.blocks \cap DOMAIN it.dependent_sets = {}
    /\ DOMAIN it.sets \cap DOMAIN it.dependent_sets = {}
    /\ \A ix \in DOMAIN it.blocks : IsInterval(it.blocks[ix])
    /\ \A ix \in DOMAIN it.sets : IsList(it.sets[ix])
    /\ \A ix \in DOMAIN it.dependent_sets :
          /\ it.dependent_sets[ix].index \in DOMAIN it.sets
          /\ \A k \in 0..(Len(it.sets[it.dependent_sets[ix].index]) - 1) :
                IsList(it.dependent_sets[ix].sets[k])
    /\ Lists(it.order, Coordinates(it))
    /\ \A j, k \in 1..Len(it.order) :
          it.order[j] \in DOMAIN it.dependent_sets
            /\ it.order[k] = it.dependent_sets[it.order[j]].index => j < k

\* The list that a coordinate runs through when the iterator is at q.
ListAt(it, q, ix) ==
    IF ix \in DOMAIN it.dependent_sets
    THEN it.dependent_sets[ix].sets[q[it.dependent_sets[ix].index]] ELSE it.sets[ix]

InRange(it, q) ==
    /\ q \in [Coordinates(it) -> Nat]
    /\ \A ix \in DOMAIN it.blocks : it.blocks[ix].lbd <= q[ix] /\ q[ix] < it.blocks[ix].ubd
    /\ \A ix \in Coordinates(it) \ DOMAIN it.blocks : q[ix] < Len(ListAt(it, q, ix))

\* q comes after p: of the coordinates that differ, the one that is stepped last
\* is larger.
Later(it, p, q) ==
    \E k \in 1..Len(it.order) :
        /\ p[it.order[k]] < q[it.order[k]]
        /\ \A j \in 1..Len(it.order) : j > k => p[it.order[j]] = q[it.order[j]]

\* Where an iterator can be is ordered by what comes later.
LEMMA LaterOrders ==
    ASSUME NEW it, IsIterator(it)
    PROVE  /\ \A p \in [Coordinates(it) -> Nat] : ~Later(it, p, p)
           /\ \A p, q, r \in [Coordinates(it) -> Nat] :
                 Later(it, p, q) /\ Later(it, q, r) => Later(it, p, r)
  <1>. DEFINE N == Len(it.order)
  <1>1. N \in Nat /\ \A k \in 1..N : it.order[k] \in Coordinates(it)
    BY DEF IsIterator, Lists
  <1>2. ASSUME NEW p \in [Coordinates(it) -> Nat]
        PROVE  ~Later(it, p, p)
    BY <1>1 DEF Later
  <1>3. ASSUME NEW p \in [Coordinates(it) -> Nat], NEW q \in [Coordinates(it) -> Nat],
               NEW r \in [Coordinates(it) -> Nat], Later(it, p, q), Later(it, q, r)
        PROVE  Later(it, p, r)
    <2>1. PICK k \in 1..N : /\ p[it.order[k]] < q[it.order[k]]
                            /\ \A j \in 1..N : j > k => p[it.order[j]] = q[it.order[j]]
      BY <1>3 DEF Later
    <2>2. PICK l \in 1..N : /\ q[it.order[l]] < r[it.order[l]]
                            /\ \A j \in 1..N : j > l => q[it.order[j]] = r[it.order[j]]
      BY <1>3 DEF Later
    <2>. DEFINE P == [j \in 1..N |-> p[it.order[j]]]
                Q == [j \in 1..N |-> q[it.order[j]]]
                R == [j \in 1..N |-> r[it.order[j]]]
    <2>3. \A j \in 1..N : P[j] \in Nat /\ Q[j] \in Nat /\ R[j] \in Nat
      BY <1>1
    <2>4. P[k] < Q[k] /\ (\A j \in 1..N : j > k => P[j] = Q[j])
          /\ Q[l] < R[l] /\ (\A j \in 1..N : j > l => Q[j] = R[j])
      BY <2>1, <2>2
    <2>5. \A j \in 1..N : P[j] = p[it.order[j]] /\ R[j] = r[it.order[j]]
      OBVIOUS
    <2>. HIDE DEF P, Q, R, N
    <2>6. \E m \in 1..N : P[m] < R[m] /\ \A j \in 1..N : j > m => P[j] = R[j]
      <3>1. CASE k < l
        <4>1. P[l] < R[l] /\ \A j \in 1..N : j > l => P[j] = R[j]
          BY <1>1, <2>3, <2>4, <3>1
        <4>. QED
          BY <4>1
      <3>2. CASE ~(k < l)
        <4>1. P[k] < R[k] /\ \A j \in 1..N : j > k => P[j] = R[j]
          <5>1. CASE k = l
            BY <1>1, <2>3, <2>4, <5>1
          <5>2. CASE k > l
            BY <1>1, <2>3, <2>4, <5>2
          <5>. QED
            BY <1>1, <3>2, <5>1, <5>2
        <4>. QED
          BY <4>1
      <3>. QED
        BY <3>1, <3>2
    <2>7. PICK m \in 1..N : P[m] < R[m] /\ \A j \in 1..N : j > m => P[j] = R[j]
      BY <2>6
    <2>8. /\ p[it.order[m]] < r[it.order[m]]
          /\ \A j \in 1..N : j > m => p[it.order[j]] = r[it.order[j]]
      BY <2>5, <2>7
    <2>. QED
      BY <2>8 DEF Later, N
  <1>. QED
    BY <1>2, <1>3

\* The bounds of a coordinate when the iterator is at q.
FirstAt(it, q, ix) ==
    IF ix \in DOMAIN it.blocks THEN q[ix] ELSE ListAt(it, q, ix)[q[ix] + 1]
PastAt(it, q, ix) ==
    IF ix \in DOMAIN it.blocks THEN Clipped(it.blocks[ix], q[ix])[2]
    ELSE FirstAt(it, q, ix) + 1
BlockAt(it, q) == [ix \in Coordinates(it) |-> <<FirstAt(it, q, ix), PastAt(it, q, ix)>>]

\* as_position by coordinates.
LEMMA AsPositionIs ==
    ASSUME NEW it, IsIterator(it)
    PROVE  AsPosition(it) = [ix \in Coordinates(it) |-> FirstAt(it, it.position, ix)]
  <1>1. ASSUME NEW ix \in Coordinates(it)
        PROVE  (CASE ix \in DOMAIN it.dependent_sets -> DependentSet(it, ix)[it.position[ix] + 1]
                  [] ix \in DOMAIN it.sets           -> it.sets[ix][it.position[ix] + 1]
                  [] OTHER                           -> it.position[ix])
               = FirstAt(it, it.position, ix)
    <2>1. CASE ix \in DOMAIN it.dependent_sets
      <3>1. ix \notin DOMAIN it.sets /\ ix \notin DOMAIN it.blocks
        BY <2>1 DEF IsIterator
      <3>. QED
        BY <2>1, <3>1 DEF FirstAt, ListAt, DependentSet
    <2>2. CASE ix \in DOMAIN it.sets
      <3>1. ix \notin DOMAIN it.dependent_sets /\ ix \notin DOMAIN it.blocks
        BY <2>2 DEF IsIterator
      <3>. QED
        BY <2>2, <3>1 DEF FirstAt, ListAt, DependentSet
    <2>3. CASE ix \in DOMAIN it.blocks
      <3>1. ix \notin DOMAIN it.dependent_sets /\ ix \notin DOMAIN it.sets
        BY <2>3 DEF IsIterator
      <3>. QED
        BY <2>3, <3>1 DEF FirstAt
    <2>. QED
      BY <2>1, <2>2, <2>3 DEF IsIterator
  <1>. QED
    BY <1>1 DEF AsPosition, Coordinates

\* as_block by coordinates.
LEMMA AsBlockIs ==
    ASSUME NEW it, IsIterator(it)
    PROVE  AsBlock(it) = BlockAt(it, it.position)
  <1>1. AsPosition(it) = [ix \in Coordinates(it) |-> FirstAt(it, it.position, ix)]
    BY AsPositionIs
  <1>. DEFINE p == AsPosition(it)
  <1>2. \A ix \in Coordinates(it) : p[ix] = FirstAt(it, it.position, ix)
    BY <1>1
  <1>. HIDE DEF p
  <1>3. ASSUME NEW ix \in Coordinates(it)
        PROVE  (IF ix \in DOMAIN it.blocks THEN Clipped(it.blocks[ix], p[ix])
                ELSE <<p[ix], p[ix] + 1>>)
               = <<FirstAt(it, it.position, ix), PastAt(it, it.position, ix)>>
    <2>1. CASE ix \in DOMAIN it.blocks
      <3>1. p[ix] = it.position[ix] /\ FirstAt(it, it.position, ix) = it.position[ix]
        BY <1>2, <2>1 DEF FirstAt
      <3>. QED
        BY <2>1, <3>1 DEF PastAt, Clipped
    <2>2. CASE ix \notin DOMAIN it.blocks
      BY <2>2, <1>2 DEF PastAt
    <2>. QED
      BY <2>1, <2>2
  <1>. QED
    BY <1>3 DEF AsBlock, BlockAt, Coordinates, p

\* The bounds of a coordinate are numbers in their order.
LEMMA BoundsAre ==
    ASSUME NEW it, IsIterator(it), NEW q, InRange(it, q), NEW ix \in Coordinates(it)
    PROVE  /\ ix \notin DOMAIN it.blocks =>
                 /\ IsList(ListAt(it, q, ix))
                 /\ q[ix] + 1 \in 1..Len(ListAt(it, q, ix))
                 /\ PastAt(it, q, ix) = FirstAt(it, q, ix) + 1
           /\ ix \in DOMAIN it.blocks =>
                 /\ FirstAt(it, q, ix) = q[ix]
                 /\ PastAt(it, q, ix) <= it.blocks[ix].ubd
           /\ FirstAt(it, q, ix) \in Nat /\ PastAt(it, q, ix) \in Nat
           /\ FirstAt(it, q, ix) < PastAt(it, q, ix)
  <1>1. q[ix] \in Nat
    BY DEF InRange
  <1>2. CASE ix \in DOMAIN it.blocks
    <2>1. PICK b : b = it.blocks[ix]
      OBVIOUS
    <2>2. IsInterval(b) /\ b.lbd <= q[ix] /\ q[ix] < b.ubd
      BY <1>2, <2>1 DEF IsIterator, InRange
    <2>3. FirstAt(it, q, ix) = q[ix]
      BY <1>2 DEF FirstAt
    <2>4. PastAt(it, q, ix) = IF q[ix] + b.step > b.ubd THEN b.ubd ELSE q[ix] + b.step
      BY <1>2, <2>1 DEF PastAt, Clipped
    <2>. QED
      BY <1>1, <1>2, <2>1, <2>2, <2>3, <2>4 DEF IsInterval
  <1>3. CASE ix \notin DOMAIN it.blocks
    <2>. DEFINE s == ListAt(it, q, ix)
    <2>1. IsList(s)
      <3>1. CASE ix \in DOMAIN it.dependent_sets
        <4>. DEFINE c == it.dependent_sets[ix]
        <4>1. /\ c.index \in DOMAIN it.sets
              /\ \A k \in 0..(Len(it.sets[c.index]) - 1) : IsList(c.sets[k])
          BY <3>1 DEF IsIterator
        <4>2. /\ c.index \in Coordinates(it) \ DOMAIN it.blocks
              /\ c.index \notin DOMAIN it.dependent_sets
          BY <4>1 DEF IsIterator
        <4>3. q[c.index] < Len(it.sets[c.index]) /\ q[c.index] \in Nat
          BY <4>2 DEF InRange, ListAt
        <4>4. Len(it.sets[c.index]) \in Nat
          BY <4>1 DEF IsIterator, IsList
        <4>5. q[c.index] \in 0..(Len(it.sets[c.index]) - 1)
          BY <4>3, <4>4
        <4>6. IsList(c.sets[q[c.index]])
          BY <4>1, <4>5
        <4>. QED
          BY <3>1, <4>6 DEF ListAt
      <3>2. CASE ix \notin DOMAIN it.dependent_sets
        BY <1>3, <3>2 DEF IsIterator, ListAt
      <3>. QED
        BY <3>1, <3>2
    <2>2. q[ix] < Len(s)
      BY <1>3 DEF InRange
    <2>3. FirstAt(it, q, ix) = s[q[ix] + 1]
      BY <1>3 DEF FirstAt
    <2>. HIDE DEF s
    <2>4. q[ix] + 1 \in 1..Len(s)
      BY <1>1, <2>1, <2>2 DEF IsList
    <2>5. s[q[ix] + 1] \in Nat
      BY <2>1, <2>4 DEF IsList
    <2>6. PastAt(it, q, ix) = FirstAt(it, q, ix) + 1
      BY <1>3 DEF PastAt
    <2>. QED
      BY <1>3, <2>1, <2>3, <2>4, <2>5, <2>6 DEF s
  <1>. QED
    BY <1>2, <1>3

\* Different positions are different blocks.
LEMMA BlocksDiffer ==
    ASSUME NEW it, IsIterator(it), NEW p, InRange(it, p), NEW q, InRange(it, q),
           BlockAt(it, p) = BlockAt(it, q)
    PROVE  p = q
  <1>1. ASSUME NEW ix \in Coordinates(it)
        PROVE  FirstAt(it, p, ix) = FirstAt(it, q, ix)
    <2>1. BlockAt(it, p)[ix][1] = BlockAt(it, q)[ix][1]
      OBVIOUS
    <2>. QED
      BY <2>1 DEF BlockAt
  <1>2. /\ p \in [Coordinates(it) -> Nat] /\ q \in [Coordinates(it) -> Nat]
    BY DEF InRange
  <1>3. ASSUME NEW ix \in DOMAIN it.blocks
        PROVE  p[ix] = q[ix]
    <2>1. ix \in Coordinates(it)
      BY DEF IsIterator
    <2>. QED
      BY <2>1, <1>1 DEF FirstAt
  <1>4. ASSUME NEW ix \in Coordinates(it) \ DOMAIN it.blocks, ListAt(it, p, ix) = ListAt(it, q, ix)
        PROVE  p[ix] = q[ix]
    <2>1. PICK s : s = ListAt(it, p, ix)
      OBVIOUS
    <2>2. IsList(s) /\ p[ix] + 1 \in 1..Len(s) /\ q[ix] + 1 \in 1..Len(s)
      BY <1>4, <2>1, BoundsAre
    <2>3. s[p[ix] + 1] = s[q[ix] + 1]
      BY <1>1, <1>4, <2>1 DEF FirstAt
    <2>4. p[ix] + 1 = q[ix] + 1
      BY <2>2, <2>3 DEF IsList
    <2>. QED
      BY <1>2, <2>4
  <1>5. ASSUME NEW ix \in DOMAIN it.sets
        PROVE  p[ix] = q[ix]
    <2>1. ix \in Coordinates(it) \ DOMAIN it.blocks /\ ix \notin DOMAIN it.dependent_sets
      BY DEF IsIterator
    <2>. QED
      BY <2>1, <1>4 DEF ListAt
  <1>6. ASSUME NEW ix \in DOMAIN it.dependent_sets
        PROVE  p[ix] = q[ix]
    <2>1. ix \in Coordinates(it) \ DOMAIN it.blocks /\ it.dependent_sets[ix].index \in DOMAIN it.sets
      BY DEF IsIterator
    <2>2. p[it.dependent_sets[ix].index] = q[it.dependent_sets[ix].index]
      BY <2>1, <1>5
    <2>3. ListAt(it, p, ix) = ListAt(it, q, ix)
      BY <2>2 DEF ListAt
    <2>. QED
      BY <2>1, <2>3, <1>4
  <1>7. \A ix \in Coordinates(it) : p[ix] = q[ix]
    BY <1>3, <1>5, <1>6 DEF IsIterator
  <1>. QED
    BY <1>2, <1>7

\* it and jt differ in where they are, at most.
SameFrame(it, jt) ==
    /\ jt.length = it.length /\ jt.blocks = it.blocks /\ jt.sets = it.sets
    /\ jt.dependent_sets = it.dependent_sets /\ jt.order = it.order

Moved(it, q, e) == [it EXCEPT !.position = q, !.has_reached_end = e]

\* Moving an iterator keeps it one.
LEMMA SameFrameIs ==
    ASSUME NEW it, IsIterator(it), NEW q, NEW e
    PROVE  /\ IsIterator(Moved(it, q, e)) /\ SameFrame(it, Moved(it, q, e))
           /\ Moved(it, q, e).position = q /\ Moved(it, q, e).has_reached_end = e
  <1>. DEFINE jt == Moved(it, q, e)
  <1>1. it = [length |-> it.length, blocks |-> it.blocks, sets |-> it.sets,
              dependent_sets |-> it.dependent_sets, order |-> it.order,
              position |-> it.position, has_reached_end |-> it.has_reached_end]
    BY DEF IsIterator
  <1>2. jt = [length |-> it.length, blocks |-> it.blocks, sets |-> it.sets,
              dependent_sets |-> it.dependent_sets, order |-> it.order,
              position |-> q, has_reached_end |-> e]
    <2>1. jt = [it EXCEPT !.position = q, !.has_reached_end = e]
      BY DEF Moved
    <2>. HIDE DEF jt
    <2>. QED
      BY <1>1, <2>1
  <1>. HIDE DEF jt
  <1>3. SameFrame(it, jt) /\ jt.position = q /\ jt.has_reached_end = e
    BY <1>2 DEF SameFrame
  <1>4. jt = [length |-> jt.length, blocks |-> jt.blocks, sets |-> jt.sets,
              dependent_sets |-> jt.dependent_sets, order |-> jt.order,
              position |-> jt.position, has_reached_end |-> jt.has_reached_end]
    BY <1>2
  <1>5. Coordinates(jt) = Coordinates(it)
    BY <1>3 DEF Coordinates, SameFrame
  <1>6. IsIterator(jt)
    BY <1>3, <1>4, <1>5 DEF IsIterator, SameFrame
  <1>. QED
    BY <1>3, <1>6 DEF jt

\* What depends on the frame only.
LEMMA SameFrameGives ==
    ASSUME NEW it, NEW jt, SameFrame(it, jt)
    PROVE  /\ Coordinates(jt) = Coordinates(it)
           /\ \A q : InRange(jt, q) <=> InRange(it, q)
           /\ \A q : BlockAt(jt, q) = BlockAt(it, q)
           /\ \A p, q : Later(jt, p, q) <=> Later(it, p, q)
  <1>1. Coordinates(jt) = Coordinates(it)
    BY DEF Coordinates, SameFrame
  <1>2. \A q, ix : ListAt(jt, q, ix) = ListAt(it, q, ix)
    BY DEF ListAt, SameFrame
  <1>3. \A q, ix : FirstAt(jt, q, ix) = FirstAt(it, q, ix)
    BY <1>2 DEF FirstAt, SameFrame
  <1>4. \A q, ix : PastAt(jt, q, ix) = PastAt(it, q, ix)
    BY <1>3 DEF PastAt, SameFrame
  <1>5. \A q : InRange(jt, q) <=> InRange(it, q)
    BY <1>1, <1>2 DEF InRange, SameFrame
  <1>6. \A q : BlockAt(jt, q) = BlockAt(it, q)
    BY <1>1, <1>3, <1>4 DEF BlockAt
  <1>7. \A p, q : Later(jt, p, q) <=> Later(it, p, q)
    BY DEF Later, SameFrame
  <1>. QED
    BY <1>1, <1>5, <1>6, <1>7

\* A step of an iterator leads to a position of it, and to a later one unless
\* it ends.
LEMMA StepIs ==
    ASSUME NEW it, IsIterator(it), InRange(it, it.position), ~it.has_reached_end
    PROVE  /\ IsIterator(Step(it)) /\ SameFrame(it, Step(it))
           /\ InRange(it, Step(it).position)
           /\ Step(it).has_reached_end \/ Later(it, it.position, Step(it).position)
  <1>. DEFINE N == Len(it.order)
              order == it.order
              pos == it.position
              C == Coordinates(it)
              passed(k) == \A j \in 1..k : PastEnd(it, order[j])
              rank(ix) == CHOOSE k \in 1..N : order[k] = ix
              To(ix) == IF passed(rank(ix)) THEN StartOf(it, ix)
                        ELSE IF passed(rank(ix) - 1) THEN Stepped(it, ix) ELSE pos[ix]
              q == [ix \in C |-> To(ix)]
              jt == Step(it)
              index(ix) == it.dependent_sets[ix].index
  <1>1. /\ N \in Nat /\ \A k \in 1..N : order[k] \in C
        /\ \A j, k \in 1..N : order[j] = order[k] => j = k
        /\ \A ix \in C : \E k \in 1..N : order[k] = ix
    BY DEF IsIterator, Lists
  <1>2. pos \in [C -> Nat]
    BY DEF InRange
  <1>3. jt = [it EXCEPT !.position = q, !.has_reached_end = passed(N)]
    BY <1>2 DEF Step
  <1>4. \A ix \in C : rank(ix) \in 1..N /\ order[rank(ix)] = ix
    BY <1>1
  <1>5. \A k \in 1..N : rank(order[k]) = k
    BY <1>1, <1>4
  <1>6. /\ \A k \in 1..N : \A l \in 0..k : passed(k) => passed(l)
        /\ \A k \in 1..N : passed(k - 1) /\ PastEnd(it, order[k]) => passed(k)
        /\ passed(0)
    BY <1>1
  <1>7. \A ix \in C : q[ix] = To(ix)
    OBVIOUS
  <1>. HIDE DEF jt
  <1>8. IsIterator(jt) /\ SameFrame(it, jt) /\ jt.position = q /\ jt.has_reached_end = passed(N)
    <2>. HIDE DEF q, passed, N
    <2>1. PICK e : e = passed(N)
      OBVIOUS
    <2>2. jt = Moved(it, q, e)
      BY <1>3, <2>1, Zenon DEF Moved
    <2>3. IsIterator(jt) /\ SameFrame(it, jt) /\ jt.position = q /\ jt.has_reached_end = e
      BY <2>2, SameFrameIs
    <2>. QED
      BY <2>1, <2>3, Zenon
  <1>. HIDE DEF passed, rank, q, C, N, pos, order
  <1>9. ASSUME NEW ix \in C
        PROVE  \/ passed(rank(ix)) /\ To(ix) = StartOf(it, ix)
               \/ ~passed(rank(ix)) /\ ~PastEnd(it, ix) /\ To(ix) = Stepped(it, ix)
               \/ ~passed(rank(ix)) /\ To(ix) = pos[ix]
    BY <1>1, <1>4, <1>6
  <1>10. ASSUME NEW ix \in DOMAIN it.dependent_sets, ~passed(rank(ix))
         PROVE  To(index(ix)) = pos[index(ix)]
    <2>1. ix \in C /\ index(ix) \in C
      BY DEF IsIterator, C
    <2>2. rank(ix) < rank(index(ix))
      <3>1. rank(ix) \in 1..N /\ rank(index(ix)) \in 1..N
            /\ order[rank(ix)] = ix /\ order[rank(index(ix))] = index(ix)
        BY <1>4, <2>1
      <3>. QED
        BY <3>1 DEF IsIterator, order, N
    <2>3. ~passed(rank(index(ix))) /\ ~passed(rank(index(ix)) - 1)
      <3>1. rank(ix) \in 1..N /\ rank(index(ix)) \in 1..N
        BY <1>4, <2>1
      <3>2. rank(index(ix)) - 1 \in 1..N /\ rank(ix) \in 0..(rank(index(ix)) - 1)
            /\ rank(ix) \in 0..rank(index(ix))
        BY <1>1, <2>2, <3>1
      <3>. QED
        BY <1>6, <1>10, <3>1, <3>2
    <2>. QED
      BY <2>3
  <1>. HIDE DEF To
  <1>11. ASSUME NEW ix \in DOMAIN it.blocks
         PROVE  To(ix) \in Nat /\ it.blocks[ix].lbd <= To(ix) /\ To(ix) < it.blocks[ix].ubd
    <2>1. PICK b : b = it.blocks[ix]
      OBVIOUS
    <2>2. IsInterval(b) /\ b.lbd <= pos[ix] /\ pos[ix] < b.ubd /\ ix \in C
      BY <2>1 DEF IsIterator, InRange, C, pos
    <2>3. pos[ix] \in Nat
      BY <1>2, <2>2
    <2>4. StartOf(it, ix) = b.lbd /\ Stepped(it, ix) = pos[ix] + b.step
      BY <2>1 DEF StartOf, Stepped, pos
    <2>5. PastEnd(it, ix) <=> pos[ix] + b.step >= b.ubd
      <3>1. ix \notin DOMAIN it.sets
        BY DEF IsIterator
      <3>. QED
        BY <2>1, <2>4, <3>1 DEF PastEnd
    <2>. QED
      BY <2>1, <2>2, <2>3, <2>4, <2>5, <1>9 DEF IsInterval
  <1>12. ASSUME NEW ix \in DOMAIN it.sets
         PROVE  To(ix) \in Nat /\ To(ix) < Len(it.sets[ix])
    <2>1. PICK n \in Nat \ {0} : n = Len(it.sets[ix])
      BY DEF IsIterator, IsList
    <2>2. ix \in C \ DOMAIN it.blocks /\ ix \notin DOMAIN it.dependent_sets
      BY DEF IsIterator, C
    <2>3. pos[ix] \in Nat /\ pos[ix] < n
      BY <1>2, <2>1, <2>2 DEF InRange, ListAt, C, pos
    <2>4. StartOf(it, ix) = 0 /\ Stepped(it, ix) = pos[ix] + 1
      BY <2>2 DEF StartOf, Stepped, pos
    <2>5. PastEnd(it, ix) <=> pos[ix] + 1 >= n
      BY <2>1, <2>2, <2>4 DEF PastEnd
    <2>. QED
      BY <2>1, <2>2, <2>3, <2>4, <2>5, <1>9
  <1>13. ASSUME NEW ix \in DOMAIN it.dependent_sets
         PROVE  To(ix) \in Nat /\ To(ix) < Len(it.dependent_sets[ix].sets[To(index(ix))])
    <2>1. ix \in C \ DOMAIN it.blocks /\ ix \notin DOMAIN it.sets /\ index(ix) \in DOMAIN it.sets
      BY DEF IsIterator, C
    <2>2. pos[ix] \in Nat
      BY <1>2, <2>1
    <2>3. StartOf(it, ix) = 0 /\ Stepped(it, ix) = pos[ix] + 1
      BY <2>1 DEF StartOf, Stepped, pos
    <2>4. CASE passed(rank(ix)) /\ To(ix) = StartOf(it, ix)
      <3>1. To(index(ix)) \in Nat /\ To(index(ix)) < Len(it.sets[index(ix)])
        BY <2>1, <1>12
      <3>2. Len(it.sets[index(ix)]) \in Nat
        BY <2>1 DEF IsIterator, IsList
      <3>3. To(index(ix)) \in 0..(Len(it.sets[index(ix)]) - 1)
        BY <3>1, <3>2
      <3>4. IsList(it.dependent_sets[ix].sets[To(index(ix))])
        BY <3>3 DEF IsIterator
      <3>5. Len(it.dependent_sets[ix].sets[To(index(ix))]) \in Nat \ {0}
        BY <3>4 DEF IsList
      <3>. QED
        BY <2>3, <2>4, <3>5
    <2>5. CASE ~passed(rank(ix))
      <3>1. To(index(ix)) = pos[index(ix)]
        BY <1>10, <2>5
      <3>2. PICK s : s = it.dependent_sets[ix].sets[pos[index(ix)]]
        OBVIOUS
      <3>3. s = ListAt(it, pos, ix)
        BY <3>2 DEF ListAt
      <3>4. pos[ix] < Len(s) /\ Len(s) \in Nat
        BY <2>1, <3>3, BoundsAre DEF InRange, C, pos, IsList
      <3>5. PastEnd(it, ix) <=> pos[ix] + 1 >= Len(s)
        BY <2>1, <2>3, <3>2 DEF PastEnd, DependentSet, pos
      <3>6. To(ix) = pos[ix] \/ (~PastEnd(it, ix) /\ To(ix) = pos[ix] + 1)
        BY <2>1, <2>3, <2>5, <1>9
      <3>7. To(ix) \in Nat /\ To(ix) < Len(s)
        BY <2>2, <3>4, <3>5, <3>6
      <3>. QED
        BY <3>1, <3>2, <3>7
    <2>. QED
      BY <2>1, <2>4, <2>5, <1>9
  <1>14. q \in [C -> Nat]
    <2>1. \A ix \in C : To(ix) \in Nat
      BY <1>11, <1>12, <1>13 DEF IsIterator, C
    <2>. QED
      BY <2>1 DEF q
  <1>15. InRange(it, q)
    <2>1. \A ix \in DOMAIN it.blocks : it.blocks[ix].lbd <= q[ix] /\ q[ix] < it.blocks[ix].ubd
      BY <1>7, <1>11 DEF IsIterator, C
    <2>2. ASSUME NEW ix \in C \ DOMAIN it.blocks
          PROVE  q[ix] < Len(ListAt(it, q, ix))
      <3>1. CASE ix \in DOMAIN it.dependent_sets
        <4>1. index(ix) \in C
          BY <3>1 DEF IsIterator, C
        <4>2. ListAt(it, q, ix) = it.dependent_sets[ix].sets[To(index(ix))]
          BY <3>1, <4>1, <1>7 DEF ListAt
        <4>. QED
          BY <3>1, <4>2, <1>7, <1>13
      <3>2. CASE ix \in DOMAIN it.sets /\ ix \notin DOMAIN it.dependent_sets
        BY <3>2, <1>7, <1>12 DEF ListAt
      <3>. QED
        BY <3>1, <3>2 DEF IsIterator, C
    <2>. QED
      BY <1>14, <2>1, <2>2 DEF InRange, C
  <1>16. ASSUME ~passed(N)
         PROVE  Later(it, pos, q)
    <2>1. PICK m \in 1..N : ~passed(m) /\ passed(m - 1)
      <3>. SUFFICES ASSUME \A m \in 1..N : passed(m - 1) => passed(m)
                    PROVE  FALSE
        BY Zenon
      <3>. DEFINE P == {k \in 0..N : passed(k)}
      <3>1. 0 \in P
        BY <1>1, <1>6
      <3>2. \A k \in 1..N : k - 1 \in P => k \in P
        BY <1>1
      <3>. HIDE DEF P
      <3>3. \A k \in 0..N : k \in P
        BY <1>1, <3>1, <3>2, UpTo
      <3>4. N \in P
        BY <1>1, <3>3
      <3>. QED
        BY <3>4, <1>16 DEF P
    <2>2. rank(order[m]) = m /\ order[m] \in C
      BY <1>1, <1>5
    <2>3. q[order[m]] = Stepped(it, order[m])
      BY <1>7, <2>1, <2>2 DEF To
    <2>4. pos[order[m]] < Stepped(it, order[m])
      <3>1. PICK ix \in C : ix = order[m]
        BY <2>2
      <3>2. pos[ix] \in Nat
        BY <1>2
      <3>3. CASE ix \in DOMAIN it.blocks
        <4>1. it.blocks[ix].step \in Nat \ {0}
          BY <3>3 DEF IsIterator, IsInterval
        <4>2. Stepped(it, ix) = pos[ix] + it.blocks[ix].step
          BY <3>3 DEF Stepped, pos
        <4>3. pos[ix] < Stepped(it, ix)
          BY <3>2, <4>1, <4>2
        <4>. QED
          BY <3>1, <4>3
      <3>4. CASE ix \notin DOMAIN it.blocks
        <4>1. Stepped(it, ix) = pos[ix] + 1
          BY <3>4 DEF Stepped, pos
        <4>2. pos[ix] < Stepped(it, ix)
          BY <3>2, <4>1
        <4>. QED
          BY <3>1, <4>2
      <3>. QED
        BY <3>3, <3>4
    <2>5. ASSUME NEW j \in 1..N, j > m
          PROVE  q[order[j]] = pos[order[j]]
      <3>1. rank(order[j]) = j /\ order[j] \in C
        BY <1>1, <1>5
      <3>2. ~passed(j) /\ ~passed(j - 1)
        <4>1. m \in 0..j /\ m \in 0..(j - 1) /\ j - 1 \in 1..N
          BY <1>1, <2>5
        <4>. QED
          BY <1>6, <2>1, <4>1
      <3>. QED
        BY <1>7, <3>1, <3>2 DEF To
    <2>. QED
      BY <2>3, <2>4, <2>5 DEF Later, order, N
  <1>. QED
    BY <1>8, <1>15, <1>16 DEF jt, pos

-----------------------------------------------------------------------------
(* The blocks that come                                                    *)

\* What a new iterator is made from.
AreIntervals(blocks) ==
    \A ix \in DOMAIN blocks :
        blocks[ix][1] \in Nat /\ blocks[ix][2] \in Nat /\ blocks[ix][1] < blocks[ix][2]

AreParts(length, blocks, sets, dependent_sets) ==
    /\ DOMAIN blocks \cup DOMAIN sets \cup DOMAIN dependent_sets = 0..(length - 1)
    /\ DOMAIN blocks \cap DOMAIN sets = {}
    /\ DOMAIN blocks \cap DOMAIN dependent_sets = {}
    /\ DOMAIN sets \cap DOMAIN dependent_sets = {}
    /\ AreIntervals(blocks)
    /\ \A ix \in DOMAIN sets : IsList(sets[ix])
    /\ \A ix \in DOMAIN dependent_sets :
          /\ dependent_sets[ix].index \in DOMAIN sets
          /\ \A k \in 0..(Len(sets[dependent_sets[ix].index]) - 1) :
                IsList(dependent_sets[ix].sets[k])

\* The step of an interval, and what is left of the package for the next one.
LEMMA StepSizeIs ==
    ASSUME NEW v \in Nat \ {0}, NEW n \in Nat \ {0}
    PROVE  StepSize(v, n) \in Nat \ {0} /\ v \div StepSize(v, n) \in Nat \ {0}
  <1>1. PICK s \in Nat \ {0} : s = StepSize(v, n) /\ s <= v
    BY DEF StepSize
  <1>2. PICK q \in Nat, r \in 0..(s - 1) : q = v \div s /\ r = v % s /\ v = s * q + r
    BY Division
  <1>3. q # 0
    BY <1>1, <1>2
  <1>. QED
    BY <1>1, <1>2, <1>3

\* initialize_blocks keeps the intervals and gives each one a step.
LEMMA BlocksAre ==
    ASSUME NEW S \in SUBSET Nat, IsFiniteSet(S), NEW blocks, DOMAIN blocks = S,
           AreIntervals(blocks), NEW package_size \in Nat \ {0}
    PROVE  /\ DOMAIN InitializeBlocks(blocks, package_size) = S
           /\ \A ix \in S :
                /\ InitializeBlocks(blocks, package_size)[ix].lbd = blocks[ix][1]
                /\ InitializeBlocks(blocks, package_size)[ix].ubd = blocks[ix][2]
                /\ InitializeBlocks(blocks, package_size)[ix].step \in Nat \ {0}
  <1>. DEFINE order == UpdateOrderBlocks(blocks)
              N == Len(order)
              V == Nat \ {0}
              G(f) == [k \in 1..N |->
                          IF k = 1 THEN package_size
                          ELSE f[k - 1] \div StepSize(f[k - 1], Size(blocks[order[k - 1]]))]
              amounts == CHOOSE f : f = G(f)
              rank(ix) == CHOOSE k \in 1..N : order[k] = ix
              F == [k \in 1..N |-> [v \in V |->
                      IF k = 1 THEN 1 ELSE v \div StepSize(v, Size(blocks[order[k - 1]]))]]
  <1>1. \A ix \in S : Size(blocks[ix]) \in Nat \ {0}
    BY DEF Size, AreIntervals
  <1>2. Lists(order, S)
    BY <1>1, OrderOfBlocksIs
  <1>3. N \in Nat /\ (\A k \in 1..N : order[k] \in S) /\ \A ix \in S : \E k \in 1..N : order[k] = ix
    BY <1>2 DEF Lists
  <1>4. InitializeBlocks(blocks, package_size)
          = [ix \in S |-> [lbd |-> blocks[ix][1], ubd |-> blocks[ix][2],
                           step |-> StepSize(amounts[rank(ix)], Size(blocks[ix]))]]
    BY DEF InitializeBlocks
  <1>. HIDE DEF order, N
  <1>5. F \in [1..N -> [V -> V]]
    <2>. SUFFICES ASSUME NEW k \in 1..N, NEW v \in V
                  PROVE  (IF k = 1 THEN 1 ELSE v \div StepSize(v, Size(blocks[order[k - 1]]))) \in V
      OBVIOUS
    <2>1. CASE k = 1
      BY <2>1
    <2>2. CASE k # 1
      <3>1. k - 1 \in 1..N
        BY <1>3, <2>2
      <3>2. Size(blocks[order[k - 1]]) \in Nat \ {0}
        BY <1>1, <1>3, <3>1
      <3>. QED
        BY <2>2, <3>2, StepSizeIs
    <2>. QED
      BY <2>1, <2>2
  <1>6. PICK c \in [1..N -> V] :
          \A n \in 1..N : c[n] = IF n = 1 THEN package_size ELSE F[n][c[n - 1]]
    <2>1. package_size \in V
      OBVIOUS
    <2>. HIDE DEF F, V
    <2>2. \E h : Follows(h, N, V, package_size, F)
      BY <1>3, <1>5, <2>1, FromTheFirst
    <2>. QED
      BY <2>2, Zenon DEF Follows
  <1>7. ASSUME NEW k \in 1..N
        PROVE  c[k] = IF k = 1 THEN package_size
                      ELSE c[k - 1] \div StepSize(c[k - 1], Size(blocks[order[k - 1]]))
    <2>1. CASE k = 1
      BY <1>6, <2>1
    <2>2. CASE k # 1
      <3>1. k - 1 \in 1..N
        BY <1>3, <2>2
      <3>2. c[k - 1] \in V
        BY <1>6, <3>1
      <3>3. c[k] = F[k][c[k - 1]]
        BY <1>6, <2>2
      <3>. HIDE DEF V
      <3>4. F[k][c[k - 1]] = c[k - 1] \div StepSize(c[k - 1], Size(blocks[order[k - 1]]))
        BY <2>2, <3>2
      <3>. QED
        BY <2>2, <3>3, <3>4
    <2>. QED
      BY <2>1, <2>2
  <1>8. c = G(c)
    BY <1>6, <1>7
  <1>9. amounts = G(amounts)
    BY <1>8, Zenon
  <1>. HIDE DEF amounts
  <1>. DEFINE T == {n \in 0..N : n = 0 \/ amounts[n] \in V}
  <1>10. \A n \in 0..N : n \in T
    <2>1. 0 \in T
      BY <1>3
    <2>2. ASSUME NEW n \in 1..N, n - 1 \in T
          PROVE  n \in T
      <3>1. CASE n = 1
        <4>1. amounts[n] = package_size
          BY <1>9, <3>1
        <4>. QED
          BY <4>1
      <3>2. CASE n # 1
        <4>1. n - 1 \in 1..N
          BY <1>3, <3>2
        <4>2. amounts[n - 1] \in V
          BY <2>2, <4>1
        <4>3. amounts[n] = amounts[n - 1] \div StepSize(amounts[n - 1], Size(blocks[order[n - 1]]))
          BY <1>9, <3>2
        <4>4. Size(blocks[order[n - 1]]) \in Nat \ {0}
          BY <1>1, <1>3, <4>1
        <4>5. amounts[n] \in V
          BY <4>2, <4>3, <4>4, StepSizeIs
        <4>. QED
          BY <4>5
      <3>. QED
        BY <3>1, <3>2
    <2>. HIDE DEF T
    <2>. QED
      BY <1>3, <2>1, <2>2, UpTo
  <1>11. ASSUME NEW ix \in S
         PROVE  StepSize(amounts[rank(ix)], Size(blocks[ix])) \in Nat \ {0}
    <2>1. rank(ix) \in 1..N
      BY <1>3
    <2>2. amounts[rank(ix)] \in V
      <3>. HIDE DEF rank
      <3>1. rank(ix) \in 0..N /\ rank(ix) # 0
        BY <2>1, <1>3
      <3>2. rank(ix) \in T
        BY <1>10, <3>1
      <3>. QED
        BY <3>1, <3>2
    <2>. HIDE DEF rank
    <2>. QED
      BY <1>1, <2>2, StepSizeIs
  <1>. HIDE DEF rank
  <1>12. DOMAIN InitializeBlocks(blocks, package_size) = S
    BY <1>4
  <1>13. ASSUME NEW ix \in S
         PROVE  InitializeBlocks(blocks, package_size)[ix]
                  = [lbd |-> blocks[ix][1], ubd |-> blocks[ix][2],
                     step |-> StepSize(amounts[rank(ix)], Size(blocks[ix]))]
    BY ONLY <1>4, ix \in S
  <1>. QED
    BY <1>11, <1>12, <1>13

\* Where a new iterator starts, before it has a step.
Good(it) == IsIterator(it) /\ InRange(it, it.position) /\ ~it.has_reached_end

\* A new iterator is at its first position.
LEMMA NewIteratorIs ==
    ASSUME NEW length \in Nat \ {0}, NEW blocks, NEW package_size \in Nat \ {0},
           NEW sets, NEW dependent_sets, AreParts(length, blocks, sets, dependent_sets),
           NEW it, it = NewIterator(length, blocks, package_size, sets, dependent_sets)
    PROVE  /\ Good(it)
           /\ Coordinates(it) = 0..(length - 1)
           /\ it.sets = sets /\ it.dependent_sets = dependent_sets
           /\ DOMAIN it.blocks = DOMAIN blocks
           /\ \A ix \in DOMAIN blocks :
                it.blocks[ix].lbd = blocks[ix][1] /\ it.blocks[ix].ubd = blocks[ix][2]
  <1>. DEFINE B == DOMAIN blocks
              S == DOMAIN sets
              D == DOMAIN dependent_sets
              init == InitializeBlocks(blocks, package_size)
              C == 0..(length - 1)
              b == Ascending(S)
              a == Ascending(D)
              c == UpdateOrderBlocks(blocks)
              order == (a \o b) \o c
              start == [ix \in C |-> IF ix \in B THEN blocks[ix][1] ELSE 0]
  <1>1. /\ B \cup S \cup D = C /\ B \cap S = {} /\ B \cap D = {} /\ S \cap D = {}
        /\ AreIntervals(blocks)
    BY DEF AreParts
  <1>2. IsFiniteSet(C)
    BY FS_Interval
  <1>3. /\ B \in SUBSET Nat /\ S \in SUBSET Nat /\ D \in SUBSET Nat
        /\ B \in SUBSET C /\ S \in SUBSET C /\ D \in SUBSET C
    BY <1>1
  <1>4. IsFiniteSet(B) /\ IsFiniteSet(S) /\ IsFiniteSet(D)
    <2>. HIDE DEF B, S, D, C
    <2>. QED
      BY <1>2, <1>3, FS_Subset
  <1>5. /\ it.length = length /\ it.blocks = init /\ it.sets = sets
        /\ it.dependent_sets = dependent_sets /\ it.order = order
        /\ it.position = start /\ it.has_reached_end = (length = 0)
        /\ it = [length |-> it.length, blocks |-> it.blocks, sets |-> it.sets,
                 dependent_sets |-> it.dependent_sets, order |-> it.order,
                 position |-> it.position, has_reached_end |-> it.has_reached_end]
    BY DEF NewIterator
  <1>6. \A ix \in B : blocks[ix][1] \in Nat /\ blocks[ix][2] \in Nat /\ blocks[ix][1] < blocks[ix][2]
    BY DEF AreParts, AreIntervals
  <1>7. /\ DOMAIN init = B
        /\ \A ix \in B : /\ init[ix].lbd = blocks[ix][1] /\ init[ix].ubd = blocks[ix][2]
                         /\ init[ix].step \in Nat \ {0}
    <2>. HIDE DEF B
    <2>1. DOMAIN blocks = B
      BY DEF B
    <2>. QED
      BY <1>1, <1>3, <1>4, <2>1, BlocksAre
  <1>8. \A ix \in B : IsInterval(init[ix])
    BY <1>6, <1>7 DEF IsInterval
  <1>9. Lists(a, D) /\ Lists(b, S)
    <2>. HIDE DEF D, S
    <2>. QED
      BY <1>3, <1>4, AscendingIs
  <1>10. Lists(c, B)
    <2>1. \A ix \in B : Size(blocks[ix]) \in Int
      BY <1>6 DEF Size
    <2>2. DOMAIN blocks = B
      OBVIOUS
    <2>. HIDE DEF B
    <2>. QED
      BY <1>3, <1>4, <2>1, <2>2, OrderOfBlocksIs
  <1>. HIDE DEF a, b, c, B, S, D, C, init
  <1>. DEFINE ab == a \o b
  <1>11. /\ Lists(ab, D \cup S) /\ Len(ab) = Len(a) + Len(b)
         /\ \A i \in 1..Len(a) : ab[i] \in D
         /\ \A i \in 1..(Len(a) + Len(b)) : ab[i] \in D => i <= Len(a)
    <2>1. D \cap S = {}
      BY <1>1
    <2>2. Joins(ab, a, D, b, S)
      BY <1>9, <2>1, JoinedIs
    <2>. HIDE DEF ab
    <2>. QED
      BY <2>2 DEF Joins
  <1>. HIDE DEF ab
  <1>. DEFINE DS == D \cup S
  <1>12. /\ Lists(ab \o c, DS \cup B) /\ Len(ab \o c) = Len(ab) + Len(c)
         /\ \A i \in 1..Len(ab) : (ab \o c)[i] = ab[i]
         /\ \A i \in 1..(Len(ab) + Len(c)) : (ab \o c)[i] \in DS => i <= Len(ab)
    <2>1. DS \cap B = {}
      BY <1>1
    <2>2. Lists(ab, DS)
      BY <1>11
    <2>. DEFINE abc == ab \o c
    <2>. HIDE DEF DS
    <2>3. Joins(abc, ab, DS, c, B)
      BY <1>10, <2>1, <2>2, JoinedIs
    <2>. HIDE DEF abc
    <2>4. /\ Lists(abc, DS \cup B) /\ Len(abc) = Len(ab) + Len(c)
          /\ \A i \in 1..Len(ab) : abc[i] = ab[i]
          /\ \A i \in 1..(Len(ab) + Len(c)) : abc[i] \in DS => i <= Len(ab)
      BY <2>3 DEF Joins
    <2>. QED
      BY <2>4 DEF abc
  <1>13. order = ab \o c
    BY DEF ab
  <1>. HIDE DEF order
  <1>14. Lists(order, C)
    <2>1. DS \cup B = C
      BY <1>1
    <2>. QED
      BY <1>12, <1>13, <2>1
  <1>15. Len(a) \in Nat /\ Len(b) \in Nat /\ Len(c) \in Nat
    BY <1>9, <1>10 DEF Lists
  <1>16. ASSUME NEW j \in 1..Len(order), NEW k \in 1..Len(order), order[j] \in D, order[k] \in S
         PROVE  j < k
    <2>1. j \in 1..(Len(ab) + Len(c)) /\ k \in 1..(Len(ab) + Len(c))
      BY <1>12, <1>13
    <2>2. j <= Len(ab) /\ order[j] = ab[j]
      <3>1. j <= Len(ab)
        BY <2>1, <1>12, <1>13, <1>16
      <3>2. j \in 1..Len(ab)
        BY <2>1, <3>1, <1>11, <1>15
      <3>. QED
        BY <3>1, <3>2, <1>12, <1>13
    <2>3. j <= Len(a)
      BY <1>11, <1>15, <1>16, <2>1, <2>2
    <2>4. ~(k <= Len(a))
      <3>. SUFFICES ASSUME k <= Len(a) PROVE FALSE
        OBVIOUS
      <3>1. k \in 1..Len(a) /\ k \in 1..Len(ab)
        BY <2>1, <1>11, <1>15
      <3>2. order[k] \in D
        BY <3>1, <1>11, <1>12, <1>13
      <3>. QED
        BY <3>2, <1>1, <1>16
    <2>. QED
      BY <2>1, <2>3, <2>4, <1>11, <1>15
  <1>17. /\ C = Coordinates(it) /\ DOMAIN it.blocks = B /\ DOMAIN it.sets = S
         /\ DOMAIN it.dependent_sets = D
    BY <1>5, <1>7 DEF C, S, D, Coordinates
  <1>18. IsIterator(it)
    <2>1. /\ \A ix \in DOMAIN it.sets : IsList(it.sets[ix])
          /\ \A ix \in DOMAIN it.dependent_sets :
               /\ it.dependent_sets[ix].index \in DOMAIN it.sets
               /\ \A k \in 0..(Len(it.sets[it.dependent_sets[ix].index]) - 1) :
                    IsList(it.dependent_sets[ix].sets[k])
      BY <1>5 DEF AreParts
    <2>2. \A ix \in DOMAIN it.blocks : IsInterval(it.blocks[ix])
      BY <1>5, <1>8, <1>17
    <2>3. Lists(it.order, Coordinates(it))
      BY <1>5, <1>14, <1>17
    <2>4. \A j, k \in 1..Len(it.order) :
            it.order[j] \in DOMAIN it.dependent_sets
              /\ it.order[k] = it.dependent_sets[it.order[j]].index => j < k
      BY <1>5, <1>16, <1>17, <2>1
    <2>5. DOMAIN it.blocks \cup DOMAIN it.sets \cup DOMAIN it.dependent_sets = Coordinates(it)
          /\ DOMAIN it.blocks \cap DOMAIN it.sets = {}
          /\ DOMAIN it.blocks \cap DOMAIN it.dependent_sets = {}
          /\ DOMAIN it.sets \cap DOMAIN it.dependent_sets = {}
      BY <1>1, <1>17
    <2>6. it.length \in Nat
      BY <1>5
    <2>7. it = [length |-> it.length, blocks |-> it.blocks, sets |-> it.sets,
                dependent_sets |-> it.dependent_sets, order |-> it.order,
                position |-> it.position, has_reached_end |-> it.has_reached_end]
      BY <1>5
    <2>. QED
      BY <2>1, <2>2, <2>3, <2>4, <2>5, <2>6, <2>7 DEF IsIterator
  <1>19. InRange(it, start)
    <2>1. start \in [C -> Nat]
      BY <1>6
    <2>2. \A ix \in C : start[ix] = IF ix \in B THEN blocks[ix][1] ELSE 0
      OBVIOUS
    <2>. HIDE DEF start
    <2>3. \A ix \in B : ix \in C
      BY <1>3
    <2>4. \A ix \in DOMAIN it.blocks : it.blocks[ix].lbd <= start[ix] /\ start[ix] < it.blocks[ix].ubd
      <3>. SUFFICES ASSUME NEW ix \in B
                    PROVE  it.blocks[ix].lbd <= start[ix] /\ start[ix] < it.blocks[ix].ubd
        BY <1>17
      <3>1. start[ix] = blocks[ix][1]
        BY <2>2, <2>3
      <3>. QED
        BY <3>1, <1>5, <1>6, <1>7
    <2>5. ASSUME NEW ix \in C \ B
          PROVE  start[ix] < Len(ListAt(it, start, ix))
      <3>1. start[ix] = 0
        BY <2>2
      <3>2. IsList(ListAt(it, start, ix))
        <4>1. CASE ix \in S
          <5>1. ListAt(it, start, ix) = it.sets[ix]
            BY <4>1, <1>1, <1>17 DEF ListAt
          <5>. QED
            BY <4>1, <5>1, <1>17, <1>18 DEF IsIterator
        <4>2. CASE ix \in D
          <5>1. PICK jx : jx = it.dependent_sets[ix].index
            OBVIOUS
          <5>2. /\ jx \in S
                /\ \A k \in 0..(Len(it.sets[jx]) - 1) : IsList(it.dependent_sets[ix].sets[k])
            BY <4>2, <5>1, <1>17, <1>18 DEF IsIterator
          <5>3. start[jx] = 0
            BY <2>2, <5>2, <1>1, <1>3
          <5>4. Len(it.sets[jx]) \in Nat \ {0}
            BY <5>2, <1>17, <1>18 DEF IsIterator, IsList
          <5>5. IsList(it.dependent_sets[ix].sets[0])
            BY <5>2, <5>4
          <5>. QED
            BY <4>2, <5>1, <5>3, <5>5, <1>17 DEF ListAt
        <4>. QED
          BY <4>1, <4>2, <1>1
      <3>. QED
        BY <3>1, <3>2 DEF IsList
    <2>. QED
      BY <2>1, <2>4, <2>5, <1>17 DEF InRange
  <1>20. ~it.has_reached_end
    BY <1>5
  <1>. QED
    BY <1>5, <1>7, <1>17, <1>18, <1>19, <1>20 DEF Good, C, B

\* The blocks of an iterator from where it is.
Coming(it) ==
    {BlockAt(it, q) : q \in {q \in [Coordinates(it) -> Nat] :
                               InRange(it, q) /\ (q = it.position \/ Later(it, it.position, q))}}

\* The block that an iterator is at is one to come; once it has been stepped it is not.
LEMMA ComingShrinks ==
    ASSUME NEW it, Good(it)
    PROVE  /\ AsBlock(it) \in Coming(it)
           /\ ~Step(it).has_reached_end =>
                /\ Good(Step(it))
                /\ Coming(Step(it)) \subseteq Coming(it)
                /\ AsBlock(it) \notin Coming(Step(it))
  <1>. DEFINE jt == Step(it)
              p == it.position
              C == Coordinates(it)
  <1>1. IsIterator(it) /\ InRange(it, p) /\ ~it.has_reached_end /\ p \in [C -> Nat]
    BY DEF Good, InRange
  <1>2. AsBlock(it) = BlockAt(it, p)
    BY <1>1, AsBlockIs
  <1>3. AsBlock(it) \in Coming(it)
    BY <1>1, <1>2 DEF Coming
  <1>4. /\ IsIterator(jt) /\ SameFrame(it, jt) /\ InRange(it, jt.position)
        /\ jt.has_reached_end \/ Later(it, p, jt.position)
    BY <1>1, StepIs
  <1>. HIDE DEF jt
  <1>5. /\ Coordinates(jt) = C
        /\ \A q : InRange(jt, q) <=> InRange(it, q)
        /\ \A q : BlockAt(jt, q) = BlockAt(it, q)
        /\ \A q, r : Later(jt, q, r) <=> Later(it, q, r)
    BY <1>4, SameFrameGives
  <1>6. ASSUME ~jt.has_reached_end
        PROVE  /\ Good(jt) /\ Coming(jt) \subseteq Coming(it) /\ AsBlock(it) \notin Coming(jt)
    <2>1. Good(jt)
      BY <1>4, <1>5, <1>6 DEF Good
    <2>2. jt.position \in [C -> Nat] /\ Later(it, p, jt.position)
      BY <1>4, <1>6 DEF InRange
    <2>3. ASSUME NEW b \in Coming(jt)
          PROVE  \E q \in [C -> Nat] : InRange(it, q) /\ b = BlockAt(it, q) /\ Later(it, p, q)
      <3>1. PICK q \in [C -> Nat] : /\ InRange(it, q) /\ b = BlockAt(it, q)
                                    /\ q = jt.position \/ Later(it, jt.position, q)
        BY <1>5 DEF Coming
      <3>2. Later(it, p, q)
        BY <1>1, <2>2, <3>1, LaterOrders
      <3>. QED
        BY <3>1, <3>2
    <2>4. Coming(jt) \subseteq Coming(it)
      BY <2>3 DEF Coming
    <2>5. ASSUME AsBlock(it) \in Coming(jt)
          PROVE  FALSE
      <3>1. PICK q \in [C -> Nat] : InRange(it, q) /\ BlockAt(it, p) = BlockAt(it, q) /\ Later(it, p, q)
        BY <1>2, <2>3, <2>5
      <3>2. p = q
        BY <1>1, <3>1, BlocksDiffer
      <3>. QED
        BY <1>1, <3>1, <3>2, LaterOrders
    <2>. QED
      BY <2>1, <2>4, <2>5
  <1>. QED
    BY <1>3, <1>6 DEF jt

-----------------------------------------------------------------------------
(* The positions of a block                                                *)

\* The product of the sizes of the coordinates of a block.
SizeOf(block) == FoldFunction(LAMBDA b, n : Size(b) * n, 1, block)

\* The number of positions of a block.
LEMMA SizeOfIs ==
    ASSUME NEW S, IsFiniteSet(S), NEW block, DOMAIN block = S, AreIntervals(block)
    PROVE  SizeOf(block) \in Nat
  <1>. DEFINE G(h) == [s \in SUBSET S |->
                          IF s = {} THEN 1
                          ELSE Size(block[CHOOSE x \in s : TRUE]) * h[s \ {CHOOSE x \in s : TRUE}]]
              iter == CHOOSE h : h = G(h)
              pick == [s \in SUBSET S |-> CHOOSE x \in s : TRUE]
              F == [x \in S |-> [n \in Nat |-> Size(block[x]) * n]]
  <1>1. SizeOf(block) = iter[S]
    BY DEF SizeOf, FoldFunction, FoldFunctionOnSet, MapThenFoldSet
  <1>2. \A s \in SUBSET S : s # {} => (CHOOSE x \in s : TRUE) \in s
    OBVIOUS
  <1>3. \A s \in SUBSET S : s # {} => pick[s] \in s
    BY <1>2
  <1>4. \A x \in S : Size(block[x]) \in Nat
    BY DEF Size, AreIntervals
  <1>5. F \in [S -> [Nat -> Nat]]
    BY <1>4
  <1>6. PICK c : Folds(c, S, Nat, 1, F, pick)
    <2>. HIDE DEF F, pick
    <2>1. 1 \in Nat
      OBVIOUS
    <2>. QED
      BY <1>3, <1>5, <2>1, FoldSolves
  <1>7. ASSUME NEW s \in SUBSET S, s # {}
        PROVE  c[s] = Size(block[pick[s]]) * c[s \ {pick[s]}]
    <2>1. pick[s] \in S /\ c[s \ {pick[s]}] \in Nat
      BY <1>3, <1>6, <1>7 DEF Folds
    <2>2. c[s] = F[pick[s]][c[s \ {pick[s]}]]
      BY <1>6, <1>7 DEF Folds
    <2>. HIDE DEF pick
    <2>. QED
      BY <2>1, <2>2
  <1>8. c \in [SUBSET S -> Nat] /\ c[{}] = 1
    BY <1>6 DEF Folds
  <1>9. \A s \in SUBSET S : pick[s] = CHOOSE x \in s : TRUE
    OBVIOUS
  <1>. HIDE DEF pick, F
  <1>10. c = G(c)
    <2>1. \A s \in SUBSET S : s # {} =>
            c[s] = Size(block[CHOOSE x \in s : TRUE]) * c[s \ {CHOOSE x \in s : TRUE}]
      BY <1>7, <1>9, Zenon
    <2>. QED
      BY <2>1, <1>8
  <1>11. iter = G(iter)
    <2>. DEFINE P(h) == h = G(h)
    <2>1. P(c) /\ iter = CHOOSE h : P(h)
      BY <1>10
    <2>. HIDE DEF P
    <2>2. P(iter)
      BY <2>1, Zenon
    <2>. QED
      BY <2>2 DEF P
  <1>. HIDE DEF iter
  <1>12. \A s \in SUBSET S : s # {} => iter[s] = Size(block[pick[s]]) * iter[s \ {pick[s]}]
    <2>1. \A s \in SUBSET S : s # {} =>
            iter[s] = Size(block[CHOOSE x \in s : TRUE]) * iter[s \ {CHOOSE x \in s : TRUE}]
      BY <1>11
    <2>. QED
      BY <1>9, <2>1, Zenon
  <1>. DEFINE I == {s \in SUBSET S : iter[s] \in Nat}
  <1>13. {} \in I
    BY <1>11
  <1>14. ASSUME NEW s \in SUBSET S, s # {}, \A x \in s : s \ {x} \in I
         PROVE  s \in I
    <2>1. pick[s] \in s /\ pick[s] \in S
      BY <1>3, <1>14
    <2>2. iter[s \ {pick[s]}] \in Nat /\ Size(block[pick[s]]) \in Nat
      BY <2>1, <1>4, <1>14
    <2>3. iter[s] = Size(block[pick[s]]) * iter[s \ {pick[s]}]
      BY <1>12, <1>14
    <2>4. iter[s] \in Nat
      BY <2>2, <2>3
    <2>. QED
      BY <2>4
  <1>. HIDE DEF I
  <1>15. \A s \in SUBSET S : s \in I
    BY <1>13, <1>14, SubsetInductionAll
  <1>16. iter[S] \in Nat
    BY <1>15 DEF I
  <1>. QED
    BY <1>1, <1>16

\* The positions lie between the bounds.
LEMMA PositionsAre ==
    ASSUME NEW d \in Nat, NEW block, DOMAIN block = 0..d, AreIntervals(block)
    PROVE  /\ DOMAIN PositionsOf(block) = 1..SizeOf(block)
           /\ \A n \in 1..SizeOf(block) :
                /\ PositionsOf(block)[n] \in [0..d -> Nat]
                /\ \A ix \in 0..d : /\ block[ix][1] <= PositionsOf(block)[n][ix]
                                    /\ PositionsOf(block)[n][ix] < block[ix][2]
  <1>. DEFINE N == SizeOf(block)
              first == FromBounds(block)
              G(f) == [n \in 1..N |-> IF n = 1 THEN first ELSE Step(f[n - 1])]
              iter == CHOOSE f : f = G(f)
  <1>1. N \in Nat
    <2>1. IsFiniteSet(0..d)
      BY FS_Interval
    <2>. QED
      BY <2>1, SizeOfIs
  <1>2. PositionsOf(block) = [n \in 1..N |-> AsPosition(iter[n])]
    BY DEF PositionsOf, SizeOf
  <1>3. /\ Good(first) /\ Coordinates(first) = 0..d
        /\ DOMAIN first.blocks = 0..d
        /\ \A ix \in 0..d : first.blocks[ix].lbd = block[ix][1] /\ first.blocks[ix].ubd = block[ix][2]
    <2>1. Cardinality(0..d) = d + 1
      BY FS_Interval
    <2>2. first = NewIterator(d + 1, block, 1, NoSets, NoSets)
      BY <2>1 DEF FromBounds
    <2>3. DOMAIN NoSets = {}
      BY DEF NoSets
    <2>4. (d + 1) - 1 = d /\ d + 1 \in Nat \ {0} /\ 1 \in Nat \ {0}
      OBVIOUS
    <2>5. AreParts(d + 1, block, NoSets, NoSets)
      BY <2>3, <2>4 DEF AreParts
    <2>. HIDE DEF first
    <2>. QED
      BY <2>2, <2>4, <2>5, NewIteratorIs
  <1>. HIDE DEF N
  <1>. HIDE DEF first
  <1>4. \E f : f = G(f)
    <2>. DEFINE Solves(f, m) == f = [n \in 1..m |-> IF n = 1 THEN first ELSE Step(f[n - 1])]
                T == {m \in 0..N : \E f : Solves(f, m)}
    <2>1. 0 \in T
      <3>. DEFINE f == [n \in {} |-> first]
      <3>1. 1..0 = {} /\ 0 \in 0..N
        BY <1>1
      <3>2. Solves(f, 0)
        BY <3>1
      <3>. QED
        BY <3>1, <3>2
    <2>2. ASSUME NEW m \in 1..N, m - 1 \in T
          PROVE  m \in T
      <3>1. PICK g : Solves(g, m - 1)
        BY <2>2
      <3>. DEFINE f == [n \in 1..m |-> IF n = 1 THEN first ELSE Step(g[n - 1])]
      <3>2. ASSUME NEW n \in 1..m, n # 1
            PROVE  f[n - 1] = g[n - 1]
        <4>1. n - 1 \in 1..m /\ n - 1 \in 1..(m - 1)
          BY <3>2
        <4>2. f[n - 1] = IF n - 1 = 1 THEN first ELSE Step(g[n - 1 - 1])
          BY <4>1
        <4>3. g[n - 1] = IF n - 1 = 1 THEN first ELSE Step(g[n - 1 - 1])
          BY <3>1, <4>1
        <4>. QED
          BY <4>2, <4>3, Zenon
      <3>3. Solves(f, m)
        BY <3>2
      <3>4. m \in 0..N
        BY <1>1
      <3>. HIDE DEF f, Solves
      <3>. QED
        BY <3>3, <3>4
    <2>. HIDE DEF T
    <2>3. \A m \in 0..N : m \in T
      BY <1>1, <2>1, <2>2, UpTo
    <2>4. N \in T
      BY <1>1, <2>3
    <2>. QED
      BY <2>4 DEF T
  <1>5. iter = G(iter)
    <2>. DEFINE P(f) == f = G(f)
    <2>1. (\E f : P(f)) /\ iter = CHOOSE f : P(f)
      BY <1>4
    <2>. HIDE DEF P
    <2>2. P(iter)
      BY <2>1, Zenon
    <2>. QED
      BY <2>2 DEF P
  <1>. HIDE DEF iter
  <1>. DEFINE Between(it) == IsIterator(it) /\ SameFrame(first, it) /\ InRange(first, it.position)
              T == {n \in 0..N : n = 0 \/ Between(iter[n])}
  <1>6. ASSUME NEW it, Between(it)
        PROVE  Between(Step(it))
    <2>1. CASE it.has_reached_end
      <3>1. Step(it) = it
        BY <2>1 DEF Step
      <3>. QED
        BY <3>1, <1>6
    <2>2. CASE ~it.has_reached_end
      <3>1. InRange(it, it.position)
        BY <1>6, SameFrameGives
      <3>2. /\ IsIterator(Step(it)) /\ SameFrame(it, Step(it))
            /\ InRange(it, Step(it).position)
        BY <2>2, <3>1, <1>6, StepIs
      <3>3. SameFrame(first, Step(it))
        BY <3>2, <1>6 DEF SameFrame
      <3>4. InRange(first, Step(it).position)
        BY <3>2, <1>6, SameFrameGives
      <3>. QED
        BY <3>2, <3>3, <3>4
    <2>. QED
      BY <2>1, <2>2
  <1>7. \A n \in 0..N : n \in T
    <2>1. 0 \in T
      BY <1>1
    <2>2. ASSUME NEW n \in 1..N, n - 1 \in T
          PROVE  n \in T
      <3>1. CASE n = 1
        <4>1. iter[n] = first
          BY <1>5, <3>1
        <4>2. Between(first)
          BY <1>3 DEF Good, SameFrame
        <4>. QED
          BY <4>1, <4>2
      <3>2. CASE n # 1
        <4>1. iter[n] = Step(iter[n - 1])
          BY <1>5, <3>2
        <4>2. Between(iter[n - 1])
          BY <2>2, <3>2
        <4>3. Between(iter[n])
          BY <4>1, <4>2, <1>6
        <4>. HIDE DEF Between
        <4>. QED
          BY <4>3
      <3>. QED
        BY <3>1, <3>2
    <2>. HIDE DEF T
    <2>. QED
      BY <1>1, <2>1, <2>2, UpTo
  <1>8. ASSUME NEW n \in 1..N
        PROVE  /\ AsPosition(iter[n]) \in [0..d -> Nat]
               /\ \A ix \in 0..d : /\ block[ix][1] <= AsPosition(iter[n])[ix]
                                   /\ AsPosition(iter[n])[ix] < block[ix][2]
    <2>. DEFINE it == iter[n]
                p == it.position
    <2>1. Between(it)
      <3>1. n \in 0..N /\ n # 0
        BY <1>1
      <3>2. n \in T
        BY <3>1, <1>7
      <3>. HIDE DEF Between
      <3>. QED
        BY <3>1, <3>2
    <2>. HIDE DEF it
    <2>2. Coordinates(it) = 0..d /\ DOMAIN it.blocks = 0..d
      BY <2>1, <1>3, SameFrameGives DEF SameFrame
    <2>3. AsPosition(it) = [ix \in 0..d |-> FirstAt(it, p, ix)]
      BY <2>1, <2>2, AsPositionIs
    <2>4. \A ix \in 0..d : FirstAt(it, p, ix) = p[ix]
      BY <2>2 DEF FirstAt
    <2>5. p \in [0..d -> Nat] /\ \A ix \in 0..d : block[ix][1] <= p[ix] /\ p[ix] < block[ix][2]
      BY <2>1, <1>3 DEF InRange
    <2>. HIDE DEF p
    <2>6. AsPosition(it) = p
      BY <2>3, <2>4, <2>5
    <2>. QED
      BY <2>5, <2>6 DEF it
  <1>. QED
    BY <1>2, <1>8 DEF N

-----------------------------------------------------------------------------
(* Curves and their multiplicities                                         *)

\* The largest one of finitely many exponents.
LEMMA MaxIs ==
    ASSUME NEW n \in Nat, NEW s \in SUBSET (0..n), s # {}
    PROVE  Max(s) \in s /\ \A y \in s : Max(s) >= y
  <1>1. \E x \in s : \A y \in s : x >= y
    <2>1. CASE s \ {0} = {}
      <3>1. s = {0}
        BY <2>1
      <3>. QED
        BY <3>1
    <2>2. CASE s \ {0} # {}
      <3>. DEFINE r == s \ {0}
      <3>1. r \in SUBSET (1..n)
        OBVIOUS
      <3>. HIDE DEF r
      <3>2. PICK x \in r : \A y \in r : x >= y
        BY <2>2, <3>1, Greatest DEF r
      <3>. QED
        BY <3>1, <3>2 DEF r
    <2>. QED
      BY <2>1, <2>2
  <1>. QED
    BY <1>1 DEF Max

\* Of three elements one is left when two are taken away.
LEMMA ThreeAre ==
    ASSUME NEW S, IsFiniteSet(S), NEW x, NEW y, Cardinality(S) >= 3
    PROVE  S \ {x} # {} /\ S \ {x, y} # {}
  <1>. SUFFICES ASSUME S \subseteq {x, y} PROVE FALSE
    BY Zenon
  <1>. DEFINE T == {x}
  <1>1. IsFiniteSet(T) /\ Cardinality(T) = 1
    BY FS_Singleton
  <1>. HIDE DEF T
  <1>. DEFINE U == T \cup {y}
  <1>2. IsFiniteSet(U) /\ (Cardinality(U) = 1 \/ Cardinality(U) = 2)
    BY <1>1, FS_AddElement
  <1>3. S \in SUBSET U
    BY DEF T
  <1>. HIDE DEF U
  <1>4. Cardinality(S) <= Cardinality(U)
    BY <1>2, <1>3, FS_Subset
  <1>5. Cardinality(S) \in Nat
    BY FS_CardinalityType
  <1>. QED
    BY <1>2, <1>4, <1>5

\* The multiplicity is a number for each support with a leading coefficient.
LEMMA MultiplicityIs ==
    ASSUME NEW d \in Nat, d >= 3, NEW S \in SUBSET (0..d), d \in S
    PROVE  Multiplicity(S) \in Int
  <1>1. PICK pred \in Nat \ {0} : /\ PrimePowerPred(PrimeExponent) = pred
                                  /\ Order(PrimeExponent) = pred + 1
    BY FieldIs
  <1>2. IsFiniteSet(0..d)
    BY FS_Interval
  <1>3. IsFiniteSet(S)
    <2>. DEFINE D == 0..d
    <2>1. S \in SUBSET D /\ IsFiniteSet(D)
      BY <1>2
    <2>. HIDE DEF D
    <2>. QED
      BY <2>1, FS_Subset
  <1>4. Max(S) = d
    <2>1. S # {}
      OBVIOUS
    <2>2. Max(S) \in S /\ Max(S) >= d
      BY <2>1, MaxIs
    <2>3. PICK m \in 0..d : m = Max(S) /\ m >= d
      BY <2>2
    <2>4. m = d
      BY <2>3
    <2>. QED
      BY <2>3, <2>4
  <1>. DEFINE snd == Max(S \ {d})
              trd == Max(S \ {d, snd})
              half == ((pred + 1) * pred) \div 2
  <1>5. half \in Int
    BY DEF half
  <1>6. ASSUME Cardinality(S) >= 3
        PROVE  snd - trd \in Nat \ {0}
    <2>. DEFINE A == S \ {d}
    <2>1. A # {} /\ A \in SUBSET (0..d)
      BY <1>3, <1>6, ThreeAre
    <2>. HIDE DEF A
    <2>2. Max(A) \in A /\ \A y \in A : Max(A) >= y
      BY <2>1, MaxIs
    <2>. DEFINE B == S \ {d, Max(A)}
    <2>3. B # {} /\ B \in SUBSET (0..d)
      BY <1>3, <1>6, ThreeAre
    <2>4. B \subseteq A /\ Max(A) \notin B
      BY DEF A
    <2>. HIDE DEF B
    <2>5. Max(B) \in B
      BY <2>3, MaxIs
    <2>6. Max(A) - Max(B) \in Nat \ {0}
      <3>1. PICK m \in 0..d : m = Max(A)
        BY <2>1, <2>2
      <3>2. PICK l \in 0..d : l = Max(B)
        BY <2>3, <2>5
      <3>3. m >= l /\ m # l
        BY <2>2, <2>4, <2>5, <3>1, <3>2
      <3>4. m - l \in Nat \ {0}
        BY <3>3
      <3>. QED
        BY <3>1, <3>2, <3>4
    <2>7. snd = Max(A) /\ trd = Max(B)
      BY DEF A, B, snd, trd
    <2>. HIDE DEF snd, trd
    <2>. QED
      BY <2>6, <2>7
  <1>. HIDE DEF snd, trd
  <1>7. ASSUME Cardinality(S) >= 3
        PROVE  (half * pred) \div Gcd(pred, snd - trd) \in Int
    <2>1. PICK n \in Nat \ {0} : n = snd - trd
      BY <1>6, <1>7
    <2>2. pred + n >= 1
      OBVIOUS
    <2>3. PICK g \in Nat \ {0} : g = Gcd(pred, n)
      <3>1. Gcd(pred, n) \in 1..(pred + n)
        BY <2>2, GcdIs
      <3>. QED
        BY <3>1
    <2>4. half * pred \in Int
      BY <1>5
    <2>. HIDE DEF half
    <2>5. (half * pred) \div g \in Int
      BY <2>4
    <2>. QED
      BY <2>1, <2>3, <2>5
  <1>8. (half * pred) \div Gcd(pred, 3) \in Int
    <2>1. pred + 3 >= 1
      OBVIOUS
    <2>2. PICK g \in Nat \ {0} : g = Gcd(pred, 3)
      <3>1. Gcd(pred, 3) \in 1..(pred + 3)
        BY <2>1, GcdIs
      <3>. QED
        BY <3>1
    <2>3. half * pred \in Int
      BY <1>5
    <2>. HIDE DEF half
    <2>4. (half * pred) \div g \in Int
      BY <2>3
    <2>. QED
      BY <2>2, <2>4
  <1>9. (pred * pred) \div 4 \in Int /\ pred \div 2 \in Int
        /\ ((pred + 1) * pred * pred) \div 4 \in Int
    <2>1. pred * pred \in Int /\ (pred + 1) * pred * pred \in Int
      OBVIOUS
    <2>. QED
      BY <2>1
  <1>10. Cardinality(S) \in Nat
    BY <1>3, FS_CardinalityType
  <1>11. Prime \in Nat /\ Prime > 1
    BY PrimeIs
  <1>12. ASSUME Prime > d
         PROVE  d % Prime # 0
    <2>1. PICK p \in Nat \ {0} : p = Prime
      BY <1>11
    <2>2. d = p * 0 + d /\ d \in 0..(p - 1)
      BY <1>12, <2>1
    <2>3. d % p = d
      BY <2>2, RemainderIs
    <2>. QED
      BY <2>1, <2>3
  <1>. DEFINE Q == (half * pred) \div Gcd(pred, snd - trd)
              R == (half * pred) \div Gcd(pred, 3)
  <1>13. Multiplicity(S) =
          CASE Prime > d ->
                 IF Cardinality(S) <= 2 THEN half ELSE Q
            [] d % Prime = 0 /\ d - 1 \in S ->
                 IF Cardinality(S) >= 3 /\ trd = d - 3 THEN R ELSE half
            [] d % Prime = 0 /\ d - 1 \notin S ->
                 IF d - 2 \in S THEN (pred * pred) \div 4 ELSE pred \div 2
            [] OTHER ->
                 IF Cardinality(S) >= 2 /\ snd = d - 2
                 THEN ((pred + 1) * pred * pred) \div 4 ELSE half
    BY <1>1, <1>4, Zenon DEF Multiplicity, snd, trd
  <1>14. Cardinality(S) <= 2 \/ Cardinality(S) >= 3
    BY <1>10
  <1>. HIDE DEF half, Q, R
  <1>15. CASE Prime > d
    <2>1. Multiplicity(S) = IF Cardinality(S) <= 2 THEN half ELSE Q
      BY <1>12, <1>13, <1>15
    <2>. QED
      BY <2>1, <1>5, <1>7, <1>14 DEF Q
  <1>16. CASE d % Prime = 0 /\ d - 1 \in S
    <2>1. Multiplicity(S) = IF Cardinality(S) >= 3 /\ trd = d - 3 THEN R ELSE half
      BY <1>12, <1>13, <1>16
    <2>. QED
      BY <2>1, <1>5, <1>8 DEF R
  <1>17. CASE d % Prime = 0 /\ d - 1 \notin S
    <2>1. Multiplicity(S) = IF d - 2 \in S THEN (pred * pred) \div 4 ELSE pred \div 2
      BY <1>12, <1>13, <1>17
    <2>. QED
      BY <2>1, <1>9
  <1>18. CASE ~(Prime > d) /\ d % Prime # 0
    <2>1. Multiplicity(S) = IF Cardinality(S) >= 2 /\ snd = d - 2
                            THEN ((pred + 1) * pred * pred) \div 4 ELSE half
      BY <1>13, <1>18
    <2>. QED
      BY <2>1, <1>5, <1>9
  <1>. QED
    BY <1>15, <1>16, <1>17, <1>18

\* The degrees of a node.
LEMMA DegreesAre ==
    ASSUME NEW d \in DegreesOf(NodeGenus, WithMarkedPoint)
    PROVE  d \in Nat /\ d >= 3
  BY NodeAssumption DEF DegreesOf

\* A position of the degrees at hand, with a leading coefficient that is not
\* zero, is a curve.
LEMMA CurveOfPosition ==
    ASSUME NEW d \in DegreesOf(NodeGenus, WithMarkedPoint),
           NEW p \in [0..d -> 0..ZeroIndex(PrimeExponent)], p[d] # ZeroIndex(PrimeExponent)
    PROVE  Countable(p)
  <1>1. PICK pred \in Nat \ {0} : ZeroIndex(PrimeExponent) = pred
    BY FieldIs
  <1>2. d \in Nat /\ d >= 3
    BY DegreesAre
  <1>3. p \in [0..d -> 0..pred] /\ p[d] # pred /\ p[d] \in 0..(pred - 1)
    BY <1>1, <1>2
  <1>. DEFINE curve == NewCurve(p)
              Leads(ix) == /\ p[ix] # pred
                           /\ \A jx \in (ix + 1)..d : p[jx] = pred
              last == CHOOSE ix \in 0..d : Leads(ix)
  <1>4. last = d
    <2>1. Leads(d) /\ d \in 0..d
      BY <1>2, <1>3
    <2>2. ASSUME NEW ix \in 0..d, Leads(ix)
          PROVE  ix = d
      BY <1>2, <1>3, <2>2
    <2>. QED
      BY <2>1, <2>2
  <1>5. curve = [i \in 1..(d + 1) |-> p[i - 1]]
    <2>1. Cardinality(DOMAIN p) = d + 1 /\ (d + 1) - 1 = d
      BY <1>2, FS_Interval
    <2>2. curve = [i \in 1..(last + 1) |-> p[i - 1]]
      BY <1>1, <2>1 DEF NewCurve
    <2>. HIDE DEF last, curve
    <2>. QED
      BY <2>2, <1>4
  <1>. HIDE DEF curve
  <1>6. \A i \in 1..(d + 1) : i - 1 \in 0..d
    BY <1>2
  <1>7. curve \in Seq(0..pred) /\ Len(curve) = d + 1
    <2>1. curve \in [1..(d + 1) -> 0..pred]
      BY <1>3, <1>5, <1>6
    <2>2. d + 1 \in Nat
      BY <1>2
    <2>3. curve \in Seq(0..pred)
      BY ONLY <2>1, <2>2
    <2>4. Len(curve) = d + 1
      BY ONLY <2>1, <2>2, <2>3
    <2>. QED
      BY <2>3, <2>4
  <1>8. Degree(curve) = d
    BY <1>2, <1>7 DEF Degree
  <1>9. Multiplicity(RhsSupport(curve)) \in Int
    <2>. DEFINE S == RhsSupport(curve)
    <2>1. S = {ix \in 0..d : curve[ix + 1] # pred}
      BY <1>1, <1>8 DEF RhsSupport
    <2>2. curve[d + 1] = p[d]
      <3>1. d + 1 \in 1..(d + 1) /\ (d + 1) - 1 = d
        BY <1>2
      <3>. QED
        BY <3>1, <1>5
    <2>3. S \in SUBSET (0..d) /\ d \in S
      BY <2>1, <2>2, <1>2, <1>3
    <2>. HIDE DEF S
    <2>4. Multiplicity(S) \in Int
      BY <2>3, <1>2, MultiplicityIs
    <2>. QED
      BY <2>4 DEF S
  <1>10. curve \in Polynomials
    <2>1. curve \in [1..(d + 1) -> 0..pred]
      BY <1>3, <1>5, <1>6
    <2>2. curve[d + 1] = p[d]
      <3>1. d + 1 \in 1..(d + 1) /\ (d + 1) - 1 = d
        BY <1>2
      <3>. QED
        BY <3>1, <1>5
    <2>. DEFINE X(k) == {f \in [1..(k + 1) -> 0..pred] : f[k + 1] # pred}
    <2>3. curve \in X(d)
      BY <2>1, <2>2, <1>3
    <2>. HIDE DEF X
    <2>4. curve \in UNION {X(k) : k \in DegreesOf(NodeGenus, WithMarkedPoint)}
      BY <2>3
    <2>. QED
      BY <2>4, <1>1 DEF Polynomials, X
  <1>11. CurveKey[curve] \in Keys
    BY <1>10, CurveKeyAssumption
  <1>. QED
    BY <1>9, <1>11 DEF Countable, curve

-----------------------------------------------------------------------------
(* The lists of the enumerators                                            *)

\* A list of logarithms of elements that are not zero, or of zero too.
LEMMA CosetsAre ==
    ASSUME NEW n \in Nat
    PROVE  /\ IsList(Cosets(n))
           /\ \A i \in 1..Len(Cosets(n)) : /\ Cosets(n)[i] \in Nat
                                           /\ Cosets(n)[i] < ZeroIndex(PrimeExponent)
  <1>1. PICK pred \in Nat \ {0} : /\ PrimePowerPred(PrimeExponent) = pred
                                  /\ ZeroIndex(PrimeExponent) = pred
    BY FieldIs
  <1>2. PICK g \in 1..pred : g = Gcd(n, pred)
    <2>1. Gcd(n, pred) \in 1..pred
      BY GcdBelow
    <2>. QED
      BY <2>1
  <1>. DEFINE c == [i \in 1..g |-> i - 1]
  <1>3. Cosets(n) = c
    BY <1>1, <1>2 DEF Cosets, PowerCosetRepresentatives
  <1>4. g \in Nat \ {0} /\ c \in [1..g -> Nat]
    OBVIOUS
  <1>5. c \in Seq(Nat)
    BY ONLY <1>4
  <1>6. Len(c) = g
    BY ONLY <1>4, <1>5
  <1>7. \A i \in 1..g : c[i] = i - 1
    OBVIOUS
  <1>. HIDE DEF c
  <1>8. IsList(c)
    BY <1>4, <1>5, <1>6, <1>7 DEF IsList
  <1>9. \A i \in 1..Len(c) : c[i] \in Nat /\ c[i] < pred
    BY <1>6, <1>7
  <1>. QED
    BY <1>1, <1>3, <1>8, <1>9

\* The list that has only the logarithm of zero.
LEMMA ZeroIs ==
    /\ IsList(Zero)
    /\ \A i \in 1..Len(Zero) : Zero[i] = ZeroIndex(PrimeExponent)
  <1>1. PICK pred \in Nat \ {0} : ZeroIndex(PrimeExponent) = pred
    BY FieldIs
  <1>2. Zero = <<pred>>
    BY <1>1 DEF Zero
  <1>. QED
    BY <1>1, <1>2 DEF IsList

\* A list of coset representatives, and zero.
LEMMA CosetsAndZeroAre ==
    ASSUME NEW n \in Nat
    PROVE  /\ IsList(Cosets(n) \o Zero)
           /\ \A i \in 1..Len(Cosets(n) \o Zero) : /\ (Cosets(n) \o Zero)[i] \in Nat
                                                   /\ (Cosets(n) \o Zero)[i] <= ZeroIndex(PrimeExponent)
  <1>1. PICK pred \in Nat \ {0} : ZeroIndex(PrimeExponent) = pred
    BY FieldIs
  <1>. DEFINE c == Cosets(n)
              u == c \o <<pred>>
  <1>2. IsList(c) /\ \A i \in 1..Len(c) : c[i] \in Nat /\ c[i] < pred
    BY <1>1, CosetsAre
  <1>. HIDE DEF c
  <1>3. PICK l \in Nat \ {0} : l = Len(c)
    BY <1>2 DEF IsList
  <1>4. c \in Seq(Nat)
    BY <1>2 DEF IsList
  <1>5. /\ u \in Seq(Nat) /\ Len(u) = l + 1 /\ u[l + 1] = pred
        /\ \A i \in 1..l : u[i] = c[i]
    BY <1>3, <1>4
  <1>. HIDE DEF u
  <1>6. \A i \in 1..(l + 1) : i \in 1..l \/ i = l + 1
    OBVIOUS
  <1>7. \A i \in 1..l : u[i] \in Nat /\ u[i] < pred
    BY <1>2, <1>3, <1>5
  <1>8. \A i \in 1..(l + 1) : u[i] \in Nat /\ u[i] <= pred
    BY <1>5, <1>6, <1>7
  <1>9. ASSUME NEW i \in 1..(l + 1), NEW j \in 1..(l + 1), u[i] = u[j]
        PROVE  i = j
    <2>1. CASE i \in 1..l /\ j \in 1..l
      BY <2>1, <1>2, <1>3, <1>5, <1>9 DEF IsList
    <2>2. CASE i = l + 1 /\ j \in 1..l
      BY <2>2, <1>5, <1>7, <1>9
    <2>3. CASE i \in 1..l /\ j = l + 1
      BY <2>3, <1>5, <1>7, <1>9
    <2>. QED
      BY <2>1, <2>2, <2>3, <1>6
  <1>10. IsList(u)
    BY <1>5, <1>9 DEF IsList
  <1>11. Cosets(n) \o Zero = u
    BY <1>1 DEF Zero, c, u
  <1>. QED
    BY <1>1, <1>5, <1>8, <1>10, <1>11

\* The lists that coset_products makes.
LEMMA CosetProductsAre ==
    ASSUME NEW n \in Nat, NEW k \in 0..(Len(Cosets(1)) - 1)
    PROVE  /\ IsList(CosetProducts(Cosets(1), n)[k])
           /\ \A i \in 1..Len(CosetProducts(Cosets(1), n)[k]) :
                /\ CosetProducts(Cosets(1), n)[k][i] \in Nat
                /\ CosetProducts(Cosets(1), n)[k][i] < ZeroIndex(PrimeExponent)
  <1>1. PICK pred \in Nat \ {0} : /\ PrimePowerPred(PrimeExponent) = pred
                                  /\ ZeroIndex(PrimeExponent) = pred
    BY FieldIs
  <1>. DEFINE c == Cosets(1)
              r == Cosets(n)
  <1>2. IsList(c) /\ \A i \in 1..Len(c) : c[i] \in Nat /\ c[i] < pred
    <2>1. 1 \in Nat
      OBVIOUS
    <2>. QED
      BY <1>1, <2>1, CosetsAre
  <1>3. IsList(r) /\ \A i \in 1..Len(r) : r[i] \in Nat /\ r[i] < pred
    BY <1>1, CosetsAre
  <1>4. k \in 0..(Len(c) - 1)
    OBVIOUS
  <1>. DEFINE S == {ReduceIndex(PrimeExponent, c[k + 1] + b) : b \in Range(r)}
              s == CosetProducts(c, n)[k]
  <1>5. s = Ascending(S)
    BY <1>4 DEF CosetProducts
  <1>. HIDE DEF c, r, s
  <1>6. k + 1 \in 1..Len(c) /\ c[k + 1] \in Nat
    BY <1>2, <1>4 DEF IsList
  <1>7. \A b \in Range(r) : b \in Nat
    <2>1. DOMAIN r = 1..Len(r)
      BY <1>3 DEF IsList
    <2>. QED
      BY <1>3, <2>1 DEF Range
  <1>8. S \in SUBSET (0..(pred - 1))
    <2>1. \A b \in Range(r) : ReduceIndex(PrimeExponent, c[k + 1] + b) \in 0..(pred - 1)
      <3>. SUFFICES ASSUME NEW b \in Range(r)
                    PROVE  ReduceIndex(PrimeExponent, c[k + 1] + b) \in 0..(pred - 1)
        OBVIOUS
      <3>1. PICK a \in Nat : a = c[k + 1] + b
        BY <1>6, <1>7
      <3>2. a % pred \in 0..(pred - 1)
        OBVIOUS
      <3>. QED
        BY <3>1, <3>2, <1>1 DEF ReduceIndex
    <2>. QED
      BY <2>1
  <1>9. S # {}
    <2>1. DOMAIN r = 1..Len(r) /\ 1 \in 1..Len(r)
      BY <1>3 DEF IsList
    <2>2. r[1] \in Range(r)
      BY <2>1 DEF Range
    <2>. QED
      BY <2>2
  <1>. HIDE DEF S
  <1>10. IsFiniteSet(S)
    <2>. DEFINE T == 0..(pred - 1)
    <2>1. IsFiniteSet(T) /\ S \in SUBSET T
      BY <1>8, FS_Interval
    <2>. HIDE DEF T
    <2>. QED
      BY <2>1, FS_Subset
  <1>11. Lists(s, S)
    <2>1. S \in SUBSET Nat
      BY <1>8
    <2>. QED
      BY <1>5, <1>10, <2>1, AscendingIs
  <1>12. s \in Seq(Nat) /\ Len(s) \in Nat \ {0} /\ \A i \in 1..Len(s) : s[i] \in S
    <2>1. s \in Seq(S) /\ Len(s) \in Nat /\ \A i \in 1..Len(s) : s[i] \in S
      BY <1>11 DEF Lists
    <2>2. Len(s) # 0
      BY <1>9, <1>11 DEF Lists
    <2>3. S \subseteq Nat
      BY <1>8
    <2>4. s \in Seq(Nat)
      <3>1. s \in [1..Len(s) -> S]
        BY ONLY <2>1
      <3>2. s \in [1..Len(s) -> Nat]
        BY <3>1, <2>3
      <3>. QED
        BY ONLY <2>1, <3>2
    <2>. QED
      BY <2>1, <2>2, <2>4
  <1>13. IsList(s)
    BY <1>11, <1>12 DEF IsList, Lists
  <1>14. \A i \in 1..Len(s) : s[i] \in Nat /\ s[i] < pred
    BY <1>8, <1>12
  <1>. QED
    BY <1>1, <1>13, <1>14 DEF s, c

-----------------------------------------------------------------------------
(* The blocks of an enumerator                                             *)

\* Where a coordinate of a block comes from.
FromList(bounds, s) ==
    \E i \in 1..Len(s) : bounds[1] = s[i] /\ bounds[2] = s[i] + 1

\* Each coordinate of a block that comes is from the interval or the list for it.
LEMMA ComesIs ==
    ASSUME NEW it, IsIterator(it), NEW b \in Coming(it)
    PROVE  /\ DOMAIN b = Coordinates(it) /\ AreIntervals(b)
           /\ \A ix \in DOMAIN it.blocks : b[ix][2] <= it.blocks[ix].ubd
           /\ \A ix \in DOMAIN it.sets : FromList(b[ix], it.sets[ix])
           /\ \A ix \in DOMAIN it.dependent_sets :
                \E j \in 0..(Len(it.sets[it.dependent_sets[ix].index]) - 1) :
                    FromList(b[ix], it.dependent_sets[ix].sets[j])
  <1>1. PICK q : InRange(it, q) /\ b = BlockAt(it, q)
    BY DEF Coming
  <1>2. b = [ix \in Coordinates(it) |-> <<FirstAt(it, q, ix), PastAt(it, q, ix)>>]
    BY <1>1 DEF BlockAt
  <1>3. DOMAIN b = Coordinates(it)
    BY <1>2
  <1>4. \A ix \in Coordinates(it) : b[ix][1] = FirstAt(it, q, ix) /\ b[ix][2] = PastAt(it, q, ix)
    BY <1>2
  <1>5. AreIntervals(b)
    BY <1>1, <1>3, <1>4, BoundsAre DEF AreIntervals
  <1>6. ASSUME NEW ix \in DOMAIN it.blocks
        PROVE  b[ix][2] <= it.blocks[ix].ubd
    <2>1. ix \in Coordinates(it)
      BY DEF IsIterator
    <2>. QED
      BY <2>1, <1>1, <1>4, BoundsAre
  <1>7. ASSUME NEW ix \in Coordinates(it) \ DOMAIN it.blocks
        PROVE  FromList(b[ix], ListAt(it, q, ix))
    <2>. DEFINE s == ListAt(it, q, ix)
    <2>1. q[ix] + 1 \in 1..Len(s) /\ PastAt(it, q, ix) = FirstAt(it, q, ix) + 1
      BY <1>1, BoundsAre
    <2>2. FirstAt(it, q, ix) = s[q[ix] + 1]
      BY DEF FirstAt
    <2>. HIDE DEF s
    <2>3. b[ix][1] = s[q[ix] + 1] /\ b[ix][2] = s[q[ix] + 1] + 1
      BY <1>4, <2>1, <2>2
    <2>4. FromList(b[ix], s)
      BY <2>1, <2>3, Zenon DEF FromList
    <2>. QED
      BY <2>4 DEF s
  <1>8. ASSUME NEW ix \in DOMAIN it.sets
        PROVE  FromList(b[ix], it.sets[ix]) /\ q[ix] \in 0..(Len(it.sets[ix]) - 1)
    <2>1. ix \in Coordinates(it) \ DOMAIN it.blocks /\ ix \notin DOMAIN it.dependent_sets
      BY DEF IsIterator
    <2>2. ListAt(it, q, ix) = it.sets[ix]
      BY <2>1 DEF ListAt
    <2>3. q[ix] \in Nat /\ q[ix] < Len(it.sets[ix]) /\ Len(it.sets[ix]) \in Nat
      BY <2>1, <2>2, <1>1 DEF InRange, IsIterator, IsList
    <2>4. FromList(b[ix], it.sets[ix])
      BY <2>1, <2>2, <1>7
    <2>5. q[ix] \in 0..(Len(it.sets[ix]) - 1)
      BY <2>3
    <2>. QED
      BY <2>4, <2>5
  <1>9. ASSUME NEW ix \in DOMAIN it.dependent_sets
        PROVE  \E j \in 0..(Len(it.sets[it.dependent_sets[ix].index]) - 1) :
                    FromList(b[ix], it.dependent_sets[ix].sets[j])
    <2>. DEFINE c == it.dependent_sets[ix]
    <2>1. ix \in Coordinates(it) \ DOMAIN it.blocks /\ c.index \in DOMAIN it.sets
      BY DEF IsIterator
    <2>2. ListAt(it, q, ix) = c.sets[q[c.index]]
      BY DEF ListAt
    <2>3. FromList(b[ix], ListAt(it, q, ix))
      BY <1>7, <2>1
    <2>4. q[c.index] \in 0..(Len(it.sets[c.index]) - 1)
      BY <1>8, <2>1
    <2>. QED
      BY <2>2, <2>3, <2>4
  <1>. QED
    BY <1>3, <1>5, <1>6, <1>8, <1>9

\* The bounds are logarithms, and the last coefficient is not zero.
IsBlockOf(b, d) ==
    /\ DOMAIN b = 0..d /\ AreIntervals(b)
    /\ \A ix \in 0..d : b[ix][2] <= ZeroIndex(PrimeExponent) + 1
    /\ b[d][2] <= ZeroIndex(PrimeExponent)

AreLogarithms(d, blocks, sets, dependent_sets) ==
    /\ \A ix \in DOMAIN blocks : blocks[ix][2] <= ZeroIndex(PrimeExponent) + 1
    /\ \A ix \in DOMAIN sets : \A i \in 1..Len(sets[ix]) :
            sets[ix][i] \in Nat /\ sets[ix][i] <= ZeroIndex(PrimeExponent)
    /\ \A ix \in DOMAIN dependent_sets :
          \A j \in 0..(Len(sets[dependent_sets[ix].index]) - 1) :
            \A i \in 1..Len(dependent_sets[ix].sets[j]) :
                /\ dependent_sets[ix].sets[j][i] \in Nat
                /\ dependent_sets[ix].sets[j][i] <= ZeroIndex(PrimeExponent)
    /\ d \in DOMAIN blocks => blocks[d][2] <= ZeroIndex(PrimeExponent)
    /\ d \in DOMAIN sets => \A i \in 1..Len(sets[d]) : sets[d][i] < ZeroIndex(PrimeExponent)
    /\ d \notin DOMAIN dependent_sets

\* The blocks of an enumerator are of the degree that it is made for.
LEMMA EnumeratorIs ==
    ASSUME NEW d \in Nat, NEW blocks, NEW sets, NEW dependent_sets, NEW package_size \in Nat \ {0},
           AreParts(d + 1, blocks, sets, dependent_sets),
           AreLogarithms(d, blocks, sets, dependent_sets),
           NEW it, it = NewIterator(d + 1, blocks, package_size, sets, dependent_sets)
    PROVE  /\ Good(it)
           /\ \A b \in Coming(it) :
                /\ IsBlockOf(b, d)
                /\ \A ix \in DOMAIN blocks : b[ix][2] <= blocks[ix][2]
                /\ \A ix \in DOMAIN sets : FromList(b[ix], sets[ix])
                /\ \A ix \in DOMAIN dependent_sets :
                     \E j \in 0..(Len(sets[dependent_sets[ix].index]) - 1) :
                        FromList(b[ix], dependent_sets[ix].sets[j])
  <1>1. PICK pred \in Nat \ {0} : ZeroIndex(PrimeExponent) = pred
    BY FieldIs
  <1>2. d + 1 \in Nat \ {0} /\ (d + 1) - 1 = d
    OBVIOUS
  <1>3. /\ Good(it) /\ Coordinates(it) = 0..d
        /\ it.sets = sets /\ it.dependent_sets = dependent_sets
        /\ DOMAIN it.blocks = DOMAIN blocks
        /\ \A ix \in DOMAIN blocks : it.blocks[ix].ubd = blocks[ix][2]
    BY <1>2, NewIteratorIs
  <1>4. IsIterator(it)
    BY <1>3 DEF Good
  <1>5. ASSUME NEW b \in Coming(it)
        PROVE  /\ IsBlockOf(b, d)
               /\ \A ix \in DOMAIN blocks : b[ix][2] <= blocks[ix][2]
               /\ \A ix \in DOMAIN sets : FromList(b[ix], sets[ix])
               /\ \A ix \in DOMAIN dependent_sets :
                    \E j \in 0..(Len(sets[dependent_sets[ix].index]) - 1) :
                       FromList(b[ix], dependent_sets[ix].sets[j])
    <2>1. /\ DOMAIN b = 0..d /\ AreIntervals(b)
          /\ \A ix \in DOMAIN blocks : b[ix][2] <= blocks[ix][2]
          /\ \A ix \in DOMAIN sets : FromList(b[ix], sets[ix])
          /\ \A ix \in DOMAIN dependent_sets :
               \E j \in 0..(Len(sets[dependent_sets[ix].index]) - 1) :
                  FromList(b[ix], dependent_sets[ix].sets[j])
      BY <1>3, <1>4, ComesIs, SMTT(30)
    <2>2. \A ix \in 0..d : b[ix][1] \in Nat /\ b[ix][2] \in Nat
      BY <2>1 DEF AreIntervals
    <2>3. 0..d = DOMAIN blocks \cup DOMAIN sets \cup DOMAIN dependent_sets
          /\ \A ix \in DOMAIN blocks : blocks[ix][2] \in Nat
      BY <1>2 DEF AreParts, AreIntervals
    <2>4. ASSUME NEW ix \in 0..d
          PROVE  b[ix][2] <= pred + 1 /\ (ix = d => b[ix][2] <= pred)
      <3>1. CASE ix \in DOMAIN blocks
        <4>1. blocks[ix][2] \in Nat /\ blocks[ix][2] <= pred + 1 /\ (ix = d => blocks[ix][2] <= pred)
          BY <3>1, <1>1, <2>3 DEF AreLogarithms
        <4>2. b[ix][2] <= blocks[ix][2]
          BY <3>1, <2>1
        <4>. QED
          BY <4>1, <4>2, <2>2
      <3>2. CASE ix \in DOMAIN sets
        <4>1. PICK i \in 1..Len(sets[ix]) : b[ix][2] = sets[ix][i] + 1
          BY <3>2, <2>1 DEF FromList
        <4>2. sets[ix][i] \in Nat /\ sets[ix][i] <= pred /\ (ix = d => sets[ix][i] < pred)
          BY <3>2, <1>1 DEF AreLogarithms
        <4>. QED
          BY <4>1, <4>2
      <3>3. CASE ix \in DOMAIN dependent_sets
        <4>1. PICK j \in 0..(Len(sets[dependent_sets[ix].index]) - 1) :
                  FromList(b[ix], dependent_sets[ix].sets[j])
          BY <3>3, <2>1
        <4>2. PICK s : s = dependent_sets[ix].sets[j]
          OBVIOUS
        <4>3. PICK i \in 1..Len(s) : b[ix][2] = s[i] + 1
          BY <4>1, <4>2 DEF FromList
        <4>4. s[i] \in Nat /\ s[i] <= pred /\ ix # d
          BY <3>3, <1>1, <4>2 DEF AreLogarithms
        <4>. QED
          BY <4>3, <4>4
      <3>. QED
        BY <3>1, <3>2, <3>3, <2>3
    <2>5. IsBlockOf(b, d)
      BY <1>1, <2>1, <2>4 DEF IsBlockOf
    <2>. QED
      BY <2>1, <2>5
  <1>. QED
    BY <1>3, <1>5

-----------------------------------------------------------------------------
(* The enumerators                                                         *)

\* A coefficient from the list of zero is zero.
LEMMA ZeroListIs ==
    ASSUME NEW bounds, FromList(bounds, Zero)
    PROVE  bounds[1] = ZeroIndex(PrimeExponent)
  BY ZeroIs DEF FromList

\* A coefficient from a list without zero is not zero.
LEMMA NonZeroListIs ==
    ASSUME NEW s, \A i \in 1..Len(s) : s[i] \in Nat /\ s[i] < ZeroIndex(PrimeExponent),
           NEW bounds, FromList(bounds, s)
    PROVE  bounds[1] # ZeroIndex(PrimeExponent)
  <1>1. PICK pred \in Nat \ {0} : ZeroIndex(PrimeExponent) = pred
    BY FieldIs
  <1>2. PICK i \in 1..Len(s) : bounds[1] = s[i]
    BY DEF FromList
  <1>. QED
    BY <1>1, <1>2

\* The coefficients that are free to vary.
LEMMA FreeBelowIs ==
    ASSUME NEW n \in Int
    PROVE  /\ DOMAIN FreeBelow(n) = 0..(n - 1)
           /\ \A ix \in 0..(n - 1) : /\ FreeBelow(n)[ix][1] = 0
                                     /\ FreeBelow(n)[ix][2] = ZeroIndex(PrimeExponent) + 1
  <1>1. PICK pred \in Nat \ {0} : /\ ZeroIndex(PrimeExponent) = pred
                                  /\ Order(PrimeExponent) = pred + 1
    BY FieldIs
  <1>. QED
    BY <1>1 DEF FreeBelow, Complete, BlockComplete

VariesWithNonZero(blocks, d, n) ==
    /\ DOMAIN blocks = {d} \cup 0..(n - 1)
    /\ blocks[d][1] = 0 /\ blocks[d][2] = ZeroIndex(PrimeExponent)
    /\ \A ix \in 0..(n - 1) : blocks[ix][1] = 0 /\ blocks[ix][2] = ZeroIndex(PrimeExponent) + 1
    /\ AreIntervals(blocks)

\* The leading coefficient, or another one, is free to vary without zero.
LEMMA WithNonZero ==
    ASSUME NEW n \in Int, NEW d \in Nat, d \notin 0..(n - 1),
           NEW blocks, blocks = NonZeroAndFreeBelow(d, n)
    PROVE  VariesWithNonZero(blocks, d, n)
  <1>1. PICK pred \in Nat \ {0} : /\ ZeroIndex(PrimeExponent) = pred
                                  /\ PrimePowerPred(PrimeExponent) = pred
    BY FieldIs
  <1>2. NonZero = <<0, pred>>
    BY <1>1 DEF NonZero, BlockNonZero
  <1>3. Complete = <<0, pred + 1>>
    <2>1. Order(PrimeExponent) = pred + 1
      BY <1>1, FieldIs
    <2>. QED
      BY <2>1 DEF Complete, BlockComplete
  <1>4. blocks = [ix \in {d} \cup 0..(n - 1) |-> IF ix = d THEN <<0, pred>> ELSE <<0, pred + 1>>]
    BY <1>2, <1>3 DEF NonZeroAndFreeBelow
  <1>5. DOMAIN blocks = {d} \cup 0..(n - 1)
    BY <1>4
  <1>6. blocks[d][1] = 0 /\ blocks[d][2] = pred
    BY <1>4
  <1>7. \A ix \in 0..(n - 1) : blocks[ix][1] = 0 /\ blocks[ix][2] = pred + 1
    BY <1>4
  <1>8. AreIntervals(blocks)
    BY <1>5, <1>6, <1>7 DEF AreIntervals
  <1>. QED
    BY <1>1, <1>5, <1>6, <1>7, <1>8 DEF VariesWithNonZero

\* Of the coefficients below the leading one, those after the third that is not
\* zero vary; the blocks show which ones the second and the third are.
LEMMA CoupledIs ==
    ASSUME NEW d \in Nat, NEW ix \in 0..(d - 1), NEW jx \in (-1)..(ix - 1)
    PROVE  /\ Good(Coupled(d, ix, jx, PackageSize))
           /\ \A b \in Coming(Coupled(d, ix, jx, PackageSize)) :
                /\ IsBlockOf(b, d)
                /\ b[ix][1] # ZeroIndex(PrimeExponent)
                /\ jx # -1 => b[jx][1] # ZeroIndex(PrimeExponent)
                /\ \A k \in 0..(d - 1) : k > jx /\ k # ix => b[k][1] = ZeroIndex(PrimeExponent)
  <1>1. PICK pred \in Nat \ {0} : ZeroIndex(PrimeExponent) = pred
    BY FieldIs
  <1>. DEFINE it == Coupled(d, ix, jx, PackageSize)
              blocks == NonZeroAndFreeBelow(d, jx)
              S == {k \in 0..(d - 1) : k > jx}
              sets == [k \in S |-> IF k = ix THEN Cosets(1) ELSE Zero]
              D == {jx} \ {-1}
              c == [index |-> ix, sets |-> CosetProducts(Cosets(1), ix - jx)]
              dependent_sets == [k \in D |-> c]
  <1>2. it = NewIterator(d + 1, blocks, PackageSize, sets, dependent_sets)
    BY DEF Coupled
  <1>3. jx \in Int /\ jx < ix /\ ix < d /\ ix - jx \in Nat /\ d \notin 0..(jx - 1) /\ jx >= -1
    OBVIOUS
  <1>4. /\ DOMAIN blocks = {d} \cup 0..(jx - 1) /\ AreIntervals(blocks)
        /\ blocks[d][2] = pred /\ \A k \in 0..(jx - 1) : blocks[k][2] = pred + 1
    <2>1. blocks = NonZeroAndFreeBelow(d, jx)
      OBVIOUS
    <2>. HIDE DEF blocks
    <2>2. VariesWithNonZero(blocks, d, jx)
      BY <1>3, <2>1, WithNonZero
    <2>. QED
      BY <1>1, <2>2 DEF VariesWithNonZero
  <1>5. /\ DOMAIN sets = S /\ \A k \in S : sets[k] = IF k = ix THEN Cosets(1) ELSE Zero
    OBVIOUS
  <1>6. /\ DOMAIN dependent_sets = D /\ \A k \in D : dependent_sets[k] = c
        /\ c.index = ix /\ c.sets = CosetProducts(Cosets(1), ix - jx)
    OBVIOUS
  <1>. HIDE DEF it, blocks, sets, dependent_sets, c
  <1>7. ix \in S /\ d \notin S /\ d \notin D
    BY <1>3
  <1>8. /\ ({d} \cup 0..(jx - 1)) \cup S \cup D = 0..((d + 1) - 1)
        /\ ({d} \cup 0..(jx - 1)) \cap S = {} /\ ({d} \cup 0..(jx - 1)) \cap D = {}
        /\ S \cap D = {}
    BY <1>3
  <1>. HIDE DEF S, D
  <1>9. IsList(Cosets(1)) /\ \A i \in 1..Len(Cosets(1)) : Cosets(1)[i] \in Nat /\ Cosets(1)[i] < pred
    <2>1. 1 \in Nat
      OBVIOUS
    <2>. QED
      BY <1>1, <2>1, CosetsAre
  <1>10. IsList(Zero) /\ \A i \in 1..Len(Zero) : Zero[i] = pred
    BY <1>1, ZeroIs
  <1>11. \A j \in 0..(Len(Cosets(1)) - 1) :
            /\ IsList(c.sets[j])
            /\ \A i \in 1..Len(c.sets[j]) : c.sets[j][i] \in Nat /\ c.sets[j][i] < pred
    BY <1>1, <1>3, <1>6, CosetProductsAre
  <1>12. AreParts(d + 1, blocks, sets, dependent_sets)
    BY <1>4, <1>5, <1>6, <1>7, <1>8, <1>9, <1>10, <1>11 DEF AreParts
  <1>13. AreLogarithms(d, blocks, sets, dependent_sets)
    <2>1. \A k \in DOMAIN blocks : blocks[k][2] <= pred + 1
      BY <1>4
    <2>2. \A k \in DOMAIN sets : \A i \in 1..Len(sets[k]) : sets[k][i] \in Nat /\ sets[k][i] <= pred
      <3>1. \A i \in 1..Len(Cosets(1)) : Cosets(1)[i] \in Nat /\ Cosets(1)[i] <= pred
        BY <1>9
      <3>2. \A i \in 1..Len(Zero) : Zero[i] \in Nat /\ Zero[i] <= pred
        BY <1>10
      <3>. QED
        BY <1>5, <3>1, <3>2
    <2>3. \A k \in DOMAIN dependent_sets :
            \A j \in 0..(Len(sets[dependent_sets[k].index]) - 1) :
              \A i \in 1..Len(dependent_sets[k].sets[j]) :
                /\ dependent_sets[k].sets[j][i] \in Nat
                /\ dependent_sets[k].sets[j][i] <= pred
      <3>1. \A j \in 0..(Len(Cosets(1)) - 1) : \A i \in 1..Len(c.sets[j]) :
                c.sets[j][i] \in Nat /\ c.sets[j][i] <= pred
        BY <1>11
      <3>. QED
        BY <1>5, <1>6, <1>7, <3>1
    <2>4. d \in DOMAIN blocks => blocks[d][2] <= pred
      BY <1>4
    <2>5. d \notin DOMAIN sets /\ d \notin DOMAIN dependent_sets
      BY <1>5, <1>6, <1>7
    <2>. QED
      BY <1>1, <2>1, <2>2, <2>3, <2>4, <2>5 DEF AreLogarithms
  <1>14. /\ Good(it)
         /\ \A b \in Coming(it) :
              /\ IsBlockOf(b, d)
              /\ \A k \in DOMAIN sets : FromList(b[k], sets[k])
              /\ \A k \in DOMAIN dependent_sets :
                   \E j \in 0..(Len(sets[dependent_sets[k].index]) - 1) :
                      FromList(b[k], dependent_sets[k].sets[j])
    <2>1. PackageSize \in Nat \ {0}
      BY NodeAssumption
    <2>. QED
      BY <1>2, <1>12, <1>13, <2>1, EnumeratorIs
  <1>15. ASSUME NEW b \in Coming(it)
         PROVE  /\ b[ix][1] # pred
                /\ jx # -1 => b[jx][1] # pred
                /\ \A k \in 0..(d - 1) : k > jx /\ k # ix => b[k][1] = pred
    <2>1. FromList(b[ix], Cosets(1))
      BY <1>5, <1>7, <1>14
    <2>2. b[ix][1] # pred
      BY <1>1, <1>9, <2>1, NonZeroListIs
    <2>3. ASSUME jx # -1
          PROVE  b[jx][1] # pred
      <3>1. jx \in D
        BY <2>3 DEF D
      <3>2. PICK j \in 0..(Len(Cosets(1)) - 1) : FromList(b[jx], c.sets[j])
        <4>1. \E j \in 0..(Len(sets[dependent_sets[jx].index]) - 1) :
                    FromList(b[jx], dependent_sets[jx].sets[j])
          BY <3>1, <1>6, <1>14
        <4>2. dependent_sets[jx] = c /\ sets[ix] = Cosets(1)
          BY <3>1, <1>5, <1>6, <1>7
        <4>. QED
          BY <4>1, <4>2, <1>6
      <3>3. \A i \in 1..Len(c.sets[j]) : c.sets[j][i] \in Nat /\ c.sets[j][i] < pred
        BY <1>11
      <3>. QED
        BY <1>1, <3>2, <3>3, NonZeroListIs
    <2>4. ASSUME NEW k \in 0..(d - 1), k > jx, k # ix
          PROVE  b[k][1] = pred
      <3>1. k \in S
        BY <2>4 DEF S
      <3>2. FromList(b[k], Zero)
        BY <3>1, <2>4, <1>5, <1>14
      <3>. QED
        BY <1>1, <3>2, ZeroListIs
    <2>. QED
      BY <2>2, <2>3, <2>4
  <1>. QED
    BY <1>1, <1>14, <1>15 DEF it

-----------------------------------------------------------------------------
(* The enumerators that have no dependent sets                             *)

\* A list of logarithms, that of zero among them if it may be.
IsLogs(s) ==
    IsList(s) /\ \A i \in 1..Len(s) : s[i] \in Nat /\ s[i] <= ZeroIndex(PrimeExponent)

\* The lists that enumerators are made from.
LEMMA LogsAre ==
    /\ IsLogs(Zero)
    /\ \A n \in Nat : IsLogs(Cosets(n)) /\ IsLogs(Cosets(n) \o Zero)
    /\ \A i \in 1..Len(Cosets(1)) : Cosets(1)[i] < ZeroIndex(PrimeExponent)
  <1>1. PICK pred \in Nat \ {0} : ZeroIndex(PrimeExponent) = pred
    BY FieldIs
  <1>2. IsLogs(Zero)
    BY <1>1, ZeroIs DEF IsLogs
  <1>3. ASSUME NEW n \in Nat
        PROVE  IsLogs(Cosets(n)) /\ IsLogs(Cosets(n) \o Zero)
    <2>1. IsList(Cosets(n)) /\ \A i \in 1..Len(Cosets(n)) : Cosets(n)[i] \in Nat /\ Cosets(n)[i] < pred
      BY <1>1, CosetsAre
    <2>2. IsLogs(Cosets(n))
      BY <1>1, <2>1 DEF IsLogs
    <2>3. IsLogs(Cosets(n) \o Zero)
      BY CosetsAndZeroAre DEF IsLogs
    <2>. QED
      BY <2>2, <2>3
  <1>4. \A i \in 1..Len(Cosets(1)) : Cosets(1)[i] < ZeroIndex(PrimeExponent)
    <2>1. 1 \in Nat
      OBVIOUS
    <2>. QED
      BY <2>1, CosetsAre
  <1>. QED
    BY <1>2, <1>3, <1>4

ComesFrom(it, d, blocks, sets) ==
    /\ Good(it)
    /\ \A b \in Coming(it) :
         /\ IsBlockOf(b, d)
         /\ \A ix \in DOMAIN blocks : b[ix][2] <= blocks[ix][2]
         /\ \A ix \in DOMAIN sets : FromList(b[ix], sets[ix])

\* The same, of the lists alone.
LEMMA EnumeratorOfSets ==
    ASSUME NEW d \in Nat, NEW blocks, NEW sets,
           DOMAIN blocks \cup DOMAIN sets = 0..d, DOMAIN blocks \cap DOMAIN sets = {},
           AreIntervals(blocks),
           \A ix \in DOMAIN blocks : blocks[ix][2] <= ZeroIndex(PrimeExponent) + 1,
           \A ix \in DOMAIN sets : IsLogs(sets[ix]),
           d \in DOMAIN sets, sets[d] = Cosets(1),
           NEW it, it = NewIterator(d + 1, blocks, PackageSize, sets, NoSets)
    PROVE  ComesFrom(it, d, blocks, sets)
  <1>1. PICK none : none = NoSets /\ DOMAIN none = {}
    BY DEF NoSets
  <1>2. (d + 1) - 1 = d /\ PackageSize \in Nat \ {0}
    BY NodeAssumption
  <1>3. AreParts(d + 1, blocks, sets, none)
    BY <1>1, <1>2 DEF AreParts, IsLogs
  <1>4. AreLogarithms(d, blocks, sets, none)
    BY <1>1, LogsAre DEF AreLogarithms, IsLogs
  <1>5. it = NewIterator(d + 1, blocks, PackageSize, sets, none)
    BY <1>1
  <1>. QED
    BY <1>2, <1>3, <1>4, <1>5, EnumeratorIs DEF ComesFrom

\* All the blocks that an enumerator goes through are blocks of degree d.
GoodFor(it, d) == Good(it) /\ \A b \in Coming(it) : IsBlockOf(b, d)

\* The enumerator for x^d has no other coefficient.
LEMMA OnlyLeadingIs ==
    ASSUME NEW d \in Nat, NEW it, it = OnlyLeading(d, PackageSize)
    PROVE  /\ GoodFor(it, d)
           /\ \A b \in Coming(it) : \A k \in 0..(d - 1) : b[k][1] = ZeroIndex(PrimeExponent)
  <1>1. PICK none : none = NoSets /\ DOMAIN none = {}
    BY DEF NoSets
  <1>2. PICK sets : sets = [k \in 0..d |-> IF k = d THEN Cosets(1) ELSE Zero]
    OBVIOUS
  <1>3. DOMAIN sets = 0..d /\ sets[d] = Cosets(1) /\ \A k \in 0..(d - 1) : k \in DOMAIN sets /\ sets[k] = Zero
    BY <1>2
  <1>4. \A k \in 0..d : IsLogs(sets[k])
    BY <1>2, LogsAre
  <1>5. it = NewIterator(d + 1, none, PackageSize, sets, NoSets)
    BY <1>1, <1>2 DEF OnlyLeading
  <1>6. DOMAIN none \cup DOMAIN sets = 0..d /\ DOMAIN none \cap DOMAIN sets = {} /\ d \in DOMAIN sets
        /\ AreIntervals(none) /\ \A ix \in DOMAIN none : none[ix][2] <= ZeroIndex(PrimeExponent) + 1
    BY <1>1, <1>3 DEF AreIntervals
  <1>7. ComesFrom(it, d, none, sets)
    BY <1>3, <1>4, <1>5, <1>6, EnumeratorOfSets
  <1>8. ASSUME NEW b \in Coming(it), NEW k \in 0..(d - 1)
        PROVE  b[k][1] = ZeroIndex(PrimeExponent)
    <2>1. FromList(b[k], Zero)
      BY <1>3, <1>7 DEF ComesFrom
    <2>. QED
      BY <2>1, ZeroListIs
  <1>. QED
    BY <1>7, <1>8 DEF ComesFrom, GoodFor

\* This one has the next to leading coefficient,
LEMMA NextToLeadingIs ==
    ASSUME NEW d \in Nat, d >= 3, NEW it, it = NextToLeading(d, PackageSize)
    PROVE  /\ GoodFor(it, d)
           /\ \A b \in Coming(it) : b[d - 1][1] # ZeroIndex(PrimeExponent)
  <1>1. PICK pred \in Nat \ {0} : ZeroIndex(PrimeExponent) = pred
    BY FieldIs
  <1>2. d - 1 \in Nat /\ d - 3 \in Int /\ d - 1 \notin 0..((d - 3) - 1)
    OBVIOUS
  <1>3. PICK blocks : blocks = NonZeroAndFreeBelow(d - 1, d - 3)
    OBVIOUS
  <1>4. /\ DOMAIN blocks = {d - 1} \cup 0..((d - 3) - 1) /\ AreIntervals(blocks)
        /\ blocks[d - 1][2] = pred /\ \A k \in 0..((d - 3) - 1) : blocks[k][2] = pred + 1
    <2>1. VariesWithNonZero(blocks, d - 1, d - 3)
      BY <1>2, <1>3, WithNonZero
    <2>. QED
      BY <1>1, <2>1 DEF VariesWithNonZero
  <1>5. PICK sets : sets = [kx \in {d, d - 2, d - 3} |->
                              CASE kx = d     -> Cosets(1)
                                [] kx = d - 2 -> Zero
                                [] kx = d - 3 -> Cosets(3) \o Zero]
    OBVIOUS
  <1>6. it = NewIterator(d + 1, blocks, PackageSize, sets, NoSets)
    BY <1>3, <1>5, Zenon DEF NextToLeading
  <1>7. /\ DOMAIN sets = {d, d - 2, d - 3} /\ sets[d] = Cosets(1)
        /\ sets[d - 2] = Zero /\ sets[d - 3] = Cosets(3) \o Zero
    BY <1>5
  <1>8. \A k \in DOMAIN sets : IsLogs(sets[k])
    BY <1>7, LogsAre
  <1>9. /\ DOMAIN blocks \cup DOMAIN sets = 0..d /\ DOMAIN blocks \cap DOMAIN sets = {}
        /\ d \in DOMAIN sets /\ d - 1 \in DOMAIN blocks
    BY <1>4, <1>7
  <1>10. \A k \in DOMAIN blocks : blocks[k][2] <= ZeroIndex(PrimeExponent) + 1
    BY <1>1, <1>4
  <1>11. ComesFrom(it, d, blocks, sets)
    BY <1>4, <1>6, <1>7, <1>8, <1>9, <1>10, EnumeratorOfSets
  <1>12. ASSUME NEW b \in Coming(it)
         PROVE  b[d - 1][1] # pred
    <2>1. b[d - 1][2] <= pred
      BY <1>4, <1>9, <1>11 DEF ComesFrom
    <2>2. d - 1 \in DOMAIN b /\ AreIntervals(b)
      BY <1>2, <1>11 DEF ComesFrom, IsBlockOf
    <2>3. b[d - 1][1] \in Nat /\ b[d - 1][2] \in Nat /\ b[d - 1][1] < b[d - 1][2]
      BY <2>2 DEF AreIntervals
    <2>. QED
      BY <2>1, <2>3
  <1>. QED
    BY <1>1, <1>11, <1>12 DEF ComesFrom, GoodFor

\* and this one has not.
LEMMA NoNextToLeadingIs ==
    ASSUME NEW d \in Nat, d >= 3, NEW it, it = NoNextToLeading(d, PackageSize)
    PROVE  /\ GoodFor(it, d)
           /\ \A b \in Coming(it) : b[d - 1][1] = ZeroIndex(PrimeExponent)
  <1>1. PICK pred \in Nat \ {0} : ZeroIndex(PrimeExponent) = pred
    BY FieldIs
  <1>2. d - 2 \in Int
    OBVIOUS
  <1>3. PICK blocks : blocks = FreeBelow(d - 2)
    OBVIOUS
  <1>4. /\ DOMAIN blocks = 0..((d - 2) - 1)
        /\ \A k \in 0..((d - 2) - 1) : blocks[k][1] = 0 /\ blocks[k][2] = pred + 1
    BY <1>1, <1>2, <1>3, FreeBelowIs
  <1>5. PICK sets : sets = [kx \in {d, d - 1, d - 2} |->
                              CASE kx = d     -> Cosets(1)
                                [] kx = d - 1 -> Zero
                                [] kx = d - 2 -> Cosets(2) \o Zero]
    OBVIOUS
  <1>6. it = NewIterator(d + 1, blocks, PackageSize, sets, NoSets)
    BY <1>3, <1>5, Zenon DEF NoNextToLeading
  <1>7. /\ DOMAIN sets = {d, d - 1, d - 2} /\ sets[d] = Cosets(1)
        /\ sets[d - 1] = Zero /\ sets[d - 2] = Cosets(2) \o Zero
    BY <1>5
  <1>8. \A k \in DOMAIN sets : IsLogs(sets[k])
    BY <1>7, LogsAre
  <1>9. /\ DOMAIN blocks \cup DOMAIN sets = 0..d /\ DOMAIN blocks \cap DOMAIN sets = {}
        /\ d \in DOMAIN sets /\ d - 1 \in DOMAIN sets
    BY <1>4, <1>7, SMTT(30)
  <1>10. AreIntervals(blocks) /\ \A k \in DOMAIN blocks : blocks[k][2] <= ZeroIndex(PrimeExponent) + 1
    BY <1>1, <1>4 DEF AreIntervals
  <1>11. ComesFrom(it, d, blocks, sets)
    BY <1>6, <1>7, <1>8, <1>9, <1>10, EnumeratorOfSets
  <1>12. ASSUME NEW b \in Coming(it)
         PROVE  b[d - 1][1] = ZeroIndex(PrimeExponent)
    <2>1. FromList(b[d - 1], Zero)
      BY <1>7, <1>9, <1>11 DEF ComesFrom
    <2>. QED
      BY <2>1, ZeroListIs
  <1>. QED
    BY <1>11, <1>12 DEF ComesFrom, GoodFor

-----------------------------------------------------------------------------
(* Sequences of enumerators                                                *)

\* The enumerators that are left, none of which comes to a block of another one.
Enumerates(s) ==
    /\ \E S : s \in Seq(S)
    /\ \A i \in 1..Len(s) : Good(s[i])
    /\ \A i, j \in 1..Len(s) : i # j => Coming(s[i]) \cap Coming(s[j]) = {}

\* The blocks that they come to.
All(s) == UNION {Coming(s[i]) : i \in 1..Len(s)}

Concatenates(u, s, t) == Enumerates(u) /\ All(u) = All(s) \cup All(t)

\* Enumerators with no block in common, one after the other.
LEMMA ConcatenationIs ==
    ASSUME NEW s, NEW t, Enumerates(s), Enumerates(t), All(s) \cap All(t) = {}
    PROVE  Concatenates(s \o t, s, t)
  <1>1. PICK S, T : s \in Seq(S) /\ t \in Seq(T)
    BY DEF Enumerates
  <1>. DEFINE u == s \o t
              R == S \cup T
  <1>2. PICK m \in Nat, n \in Nat : m = Len(s) /\ n = Len(t)
    BY <1>1
  <1>3. s \in Seq(R) /\ t \in Seq(R)
    <2>1. s \in [1..Len(s) -> S] /\ t \in [1..Len(t) -> T] /\ Len(s) \in Nat /\ Len(t) \in Nat
      BY <1>1
    <2>2. s \in [1..Len(s) -> R] /\ t \in [1..Len(t) -> R]
      BY <2>1
    <2>. QED
      BY ONLY <2>1, <2>2
  <1>4. /\ u \in Seq(R) /\ Len(u) = m + n
        /\ \A i \in 1..m : u[i] = s[i]
        /\ \A i \in 1..n : u[m + i] = t[i]
    BY <1>2, <1>3
  <1>. HIDE DEF u, R
  <1>5. \A i \in 1..(m + n) : i \in 1..m \/ (i - m \in 1..n /\ m + (i - m) = i)
    OBVIOUS
  <1>6. \A i \in 1..(m + n) : i \in 1..m \/ (i - m \in 1..n /\ u[i] = t[i - m])
    BY <1>4, <1>5
  <1>7. \A i \in 1..m : Good(s[i]) /\ Coming(s[i]) \subseteq All(s)
    BY <1>2 DEF Enumerates, All
  <1>8. \A i \in 1..n : Good(t[i]) /\ Coming(t[i]) \subseteq All(t)
    BY <1>2 DEF Enumerates, All
  <1>9. \A i \in 1..(m + n) : Good(u[i])
    BY <1>4, <1>6, <1>7, <1>8
  <1>10. ASSUME NEW i \in 1..(m + n), NEW j \in 1..(m + n), i # j
         PROVE  Coming(u[i]) \cap Coming(u[j]) = {}
    <2>1. CASE i \in 1..m /\ j \in 1..m
      BY <2>1, <1>2, <1>4, <1>10 DEF Enumerates
    <2>2. CASE i \notin 1..m /\ j \notin 1..m
      <3>1. i - m \in 1..n /\ j - m \in 1..n /\ i - m # j - m
        BY <2>2, <1>6, <1>10
      <3>2. Coming(t[i - m]) \cap Coming(t[j - m]) = {}
        BY <3>1, <1>2 DEF Enumerates
      <3>. QED
        BY <2>2, <3>2, <1>6
    <2>3. CASE i \in 1..m /\ j \notin 1..m
      <3>1. Coming(u[i]) \subseteq All(s)
        BY <2>3, <1>4, <1>7
      <3>2. Coming(u[j]) \subseteq All(t)
        BY <2>3, <1>6, <1>8
      <3>. QED
        BY <3>1, <3>2
    <2>4. CASE i \notin 1..m /\ j \in 1..m
      <3>1. Coming(u[j]) \subseteq All(s)
        BY <2>4, <1>4, <1>7
      <3>2. Coming(u[i]) \subseteq All(t)
        BY <2>4, <1>6, <1>8
      <3>. QED
        BY <3>1, <3>2
    <2>. QED
      BY <2>1, <2>2, <2>3, <2>4
  <1>11. Enumerates(u)
    BY <1>4, <1>9, <1>10 DEF Enumerates
  <1>12. ASSUME NEW b
         PROVE  b \in All(u) <=> b \in All(s) \/ b \in All(t)
    <2>1. b \in All(u) <=> \E i \in 1..(m + n) : b \in Coming(u[i])
      BY <1>4 DEF All
    <2>2. b \in All(s) <=> \E i \in 1..m : b \in Coming(s[i])
      BY <1>2 DEF All
    <2>3. b \in All(t) <=> \E i \in 1..n : b \in Coming(t[i])
      BY <1>2 DEF All
    <2>4. ASSUME b \in All(u)
          PROVE  b \in All(s) \/ b \in All(t)
      <3>1. PICK i \in 1..(m + n) : b \in Coming(u[i])
        BY <2>1, <2>4
      <3>2. CASE i \in 1..m
        BY <3>1, <3>2, <1>4, <2>2
      <3>3. CASE i \notin 1..m
        BY <3>1, <3>3, <1>6, <2>3
      <3>. QED
        BY <3>2, <3>3
    <2>5. ASSUME b \in All(s)
          PROVE  b \in All(u)
      <3>1. PICK i \in 1..m : b \in Coming(s[i])
        BY <2>2, <2>5
      <3>2. i \in 1..(m + n)
        OBVIOUS
      <3>. QED
        BY <3>1, <3>2, <1>4, <2>1
    <2>6. ASSUME b \in All(t)
          PROVE  b \in All(u)
      <3>1. PICK i \in 1..n : b \in Coming(t[i])
        BY <2>3, <2>6
      <3>2. m + i \in 1..(m + n)
        OBVIOUS
      <3>. QED
        BY <3>1, <3>2, <1>4, <2>1
    <2>. QED
      BY <2>4, <2>5, <2>6
  <1>13. All(u) = All(s) \cup All(t)
    BY <1>12
  <1>. QED
    BY <1>11, <1>13 DEF Concatenates, u

\* One enumerator alone.
LEMMA OneEnumerates ==
    ASSUME NEW it, Good(it)
    PROVE  Enumerates(<<it>>) /\ All(<<it>>) = Coming(it)
  <1>1. <<it>> \in Seq({it}) /\ Len(<<it>>) = 1 /\ <<it>>[1] = it
    OBVIOUS
  <1>2. PICK s : s = <<it>>
    OBVIOUS
  <1>3. s \in Seq({it}) /\ Len(s) = 1 /\ s[1] = it
    BY <1>1, <1>2
  <1>4. \A i \in 1..Len(s) : s[i] = it /\ i = 1
    BY <1>3
  <1>5. 1 \in 1..Len(s)
    BY <1>3
  <1>6. Enumerates(s)
    BY <1>3, <1>4 DEF Enumerates
  <1>7. All(s) = Coming(it)
    BY <1>4, <1>5 DEF All
  <1>. QED
    BY <1>2, <1>6, <1>7

\* How the community module joins the sequences of a sequence.
Flattens(h, seqs, N, S) ==
    /\ h \in [1..N -> Seq(S)] /\ h[1] = seqs[1]
    /\ \A i \in 2..N : h[i] = h[i - 1] \o seqs[i]
    /\ FlattenSeq(seqs) = h[N]

\* It is by repeated concatenation.
LEMMA FlattenIs ==
    ASSUME NEW N \in Nat \ {0}, NEW S, NEW seqs \in [1..N -> Seq(S)]
    PROVE  \E h : Flattens(h, seqs, N, S)
  <1>. DEFINE V == Seq(S)
              G == [n \in 1..N |-> [s \in V |-> s \o seqs[n]]]
              F(h) == [i \in 1..N |-> IF i = 1 THEN seqs[i] ELSE h[i - 1] \o seqs[i]]
              flatten == CHOOSE h : h = F(h)
  <1>1. Len(seqs) = N
    BY ONLY N \in Nat, seqs \in [1..N -> Seq(S)]
  <1>2. FlattenSeq(seqs) = flatten[N]
    BY <1>1 DEF FlattenSeq
  <1>3. \A s, t \in V : s \o t \in V
    OBVIOUS
  <1>4. /\ 1 \in 1..N /\ seqs[1] \in V
        /\ \A n \in 1..N : seqs[n] \in V
    OBVIOUS
  <1>5. G \in [1..N -> [V -> V]] /\ \A n \in 1..N : \A s \in V : G[n][s] = s \o seqs[n]
    <2>. HIDE DEF V
    <2>. QED
      BY <1>3, <1>4
  <1>6. PICK h : Follows(h, N, V, seqs[1], G)
    <2>1. N \in Nat /\ seqs[1] \in V
      BY <1>4
    <2>. HIDE DEF G, V
    <2>. QED
      BY <1>5, <2>1, FromTheFirst
  <1>7. h \in [1..N -> V] /\ h = F(h)
    <2>1. h \in [1..N -> V] /\ \A n \in 1..N : h[n] = IF n = 1 THEN seqs[1] ELSE G[n][h[n - 1]]
      BY <1>6 DEF Follows
    <2>2. ASSUME NEW n \in 1..N
          PROVE  h[n] = IF n = 1 THEN seqs[n] ELSE h[n - 1] \o seqs[n]
      <3>1. CASE n = 1
        BY <2>1, <3>1
      <3>2. CASE n # 1
        <4>1. n - 1 \in 1..N
          BY <3>2
        <4>2. h[n - 1] \in V
          BY <4>1, <2>1
        <4>. HIDE DEF G, V
        <4>3. G[n][h[n - 1]] = h[n - 1] \o seqs[n]
          BY <4>2, <1>5
        <4>. QED
          BY <3>2, <4>3, <2>1
      <3>. QED
        BY <3>1, <3>2
    <2>3. DOMAIN h = 1..N /\ h = [n \in 1..N |-> h[n]]
      BY <2>1
    <2>. QED
      BY <2>1, <2>2, <2>3
  <1>8. flatten = F(flatten)
    <2>. DEFINE P(f) == f = F(f)
    <2>1. (\E f : P(f)) /\ flatten = CHOOSE f : P(f)
      BY <1>7
    <2>. HIDE DEF P
    <2>2. P(flatten)
      BY <2>1, Zenon
    <2>. QED
      BY <2>2 DEF P
  <1>. HIDE DEF flatten, F
  <1>9. \A n \in 1..N : flatten[n] = h[n]
    <2>. DEFINE T == {n \in 0..N : n = 0 \/ flatten[n] = h[n]}
    <2>1. 0 \in T
      OBVIOUS
    <2>2. ASSUME NEW n \in 1..N, n - 1 \in T
          PROVE  n \in T
      <3>1. flatten[n] = IF n = 1 THEN seqs[n] ELSE flatten[n - 1] \o seqs[n]
        BY <1>8 DEF F
      <3>2. h[n] = IF n = 1 THEN seqs[n] ELSE h[n - 1] \o seqs[n]
        BY <1>7 DEF F
      <3>3. n = 1 \/ flatten[n - 1] = h[n - 1]
        BY <2>2
      <3>4. flatten[n] = h[n]
        BY <3>1, <3>2, <3>3
      <3>. QED
        BY <3>4
    <2>. HIDE DEF T
    <2>3. \A n \in 0..N : n \in T
      BY <2>1, <2>2, UpTo
    <2>. QED
      BY <2>3 DEF T
  <1>10. h[1] = seqs[1] /\ \A i \in 2..N : h[i] = h[i - 1] \o seqs[i]
    <2>1. \A i \in 1..N : h[i] = IF i = 1 THEN seqs[i] ELSE h[i - 1] \o seqs[i]
      BY <1>7 DEF F
    <2>2. \A i \in 2..N : i \in 1..N /\ i # 1
      OBVIOUS
    <2>. QED
      BY <1>4, <2>1, <2>2
  <1>11. FlattenSeq(seqs) = h[N]
    BY <1>2, <1>9
  <1>12. Flattens(h, seqs, N, S)
    BY <1>7, <1>10, <1>11 DEF Flattens
  <1>. QED
    BY <1>12

-----------------------------------------------------------------------------
(* The enumerators of a degree                                             *)

\* The second coefficient that is not zero is that of x^ix.
Second(b, d, ix) ==
    /\ b[ix][1] # ZeroIndex(PrimeExponent)
    /\ \A k \in (ix + 1)..(d - 1) : b[k][1] = ZeroIndex(PrimeExponent)

IsRow(row, d, ix) ==
    /\ Enumerates(row)
    /\ \A b \in All(row) : IsBlockOf(b, d) /\ Second(b, d, ix)

\* The enumerators with the same second coefficient: the third one tells them apart.
LEMMA RowIs ==
    ASSUME NEW d \in Nat, NEW ix \in 0..(d - 1),
           NEW row, row = [j \in 1..(ix + 1) |-> Coupled(d, ix, ix - j, PackageSize)]
    PROVE  IsRow(row, d, ix)
  <1>1. PICK pred \in Nat \ {0} : ZeroIndex(PrimeExponent) = pred
    BY FieldIs
  <1>. DEFINE S == {row[j] : j \in 1..(ix + 1)}
  <1>2. DOMAIN row = 1..(ix + 1) /\ \A j \in 1..(ix + 1) : row[j] = Coupled(d, ix, ix - j, PackageSize)
    OBVIOUS
  <1>3. row \in [1..(ix + 1) -> S] /\ ix + 1 \in Nat
    OBVIOUS
  <1>4. row \in Seq(S)
    BY ONLY <1>3
  <1>5. Len(row) = ix + 1
    BY ONLY <1>3, <1>4
  <1>6. ASSUME NEW j \in 1..(ix + 1)
        PROVE  /\ Good(row[j])
               /\ \A b \in Coming(row[j]) :
                    /\ IsBlockOf(b, d)
                    /\ b[ix][1] # pred
                    /\ j <= ix => b[ix - j][1] # pred
                    /\ \A k \in 0..(d - 1) : k > ix - j /\ k # ix => b[k][1] = pred
    <2>1. PICK jx \in (-1)..(ix - 1) : jx = ix - j
      OBVIOUS
    <2>2. row[j] = Coupled(d, ix, jx, PackageSize)
      BY <1>2, <2>1
    <2>3. /\ Good(row[j])
          /\ \A b \in Coming(row[j]) :
                /\ IsBlockOf(b, d)
                /\ b[ix][1] # pred
                /\ jx # -1 => b[jx][1] # pred
                /\ \A k \in 0..(d - 1) : k > jx /\ k # ix => b[k][1] = pred
      BY <1>1, <2>2, CoupledIs
    <2>4. j <= ix => jx # -1
      BY <2>1
    <2>. QED
      BY <2>1, <2>3, <2>4
  <1>7. ASSUME NEW i \in 1..(ix + 1), NEW j \in 1..(ix + 1), i < j, NEW b,
               b \in Coming(row[i]), b \in Coming(row[j])
        PROVE  FALSE
    <2>1. i <= ix /\ ix - i \in 0..(d - 1) /\ ix - i > ix - j /\ ix - i # ix
      BY <1>7
    <2>. QED
      BY <2>1, <1>6, <1>7
  <1>8. ASSUME NEW i \in 1..(ix + 1), NEW j \in 1..(ix + 1), i # j
        PROVE  Coming(row[i]) \cap Coming(row[j]) = {}
    <2>1. i < j \/ j < i
      BY <1>8
    <2>. QED
      BY <2>1, <1>7
  <1>9. Enumerates(row)
    BY <1>4, <1>5, <1>6, <1>8 DEF Enumerates
  <1>10. ASSUME NEW b \in All(row)
         PROVE  IsBlockOf(b, d) /\ Second(b, d, ix)
    <2>1. PICK j \in 1..(ix + 1) : b \in Coming(row[j])
      BY <1>5 DEF All
    <2>2. /\ IsBlockOf(b, d) /\ b[ix][1] # pred
          /\ \A k \in 0..(d - 1) : k > ix - j /\ k # ix => b[k][1] = pred
      BY <2>1, <1>6
    <2>3. \A k \in (ix + 1)..(d - 1) : k \in 0..(d - 1) /\ k > ix - j /\ k # ix
      OBVIOUS
    <2>. QED
      BY <1>1, <2>2, <2>3 DEF Second
  <1>. QED
    BY <1>9, <1>10 DEF IsRow

\* The enumerators of a degree: every block is one of that degree, and none
\* comes twice.
OfDegree(s, d) == Enumerates(s) /\ \A b \in All(s) : IsBlockOf(b, d)

\* With a prime greater than the degree, no block comes twice.
LEMMA CoupledEnumeratorsAre ==
    ASSUME NEW d \in Nat, d >= 3
    PROVE  OfDegree(CoupledEnumerators(d, PackageSize), d)
  <1>1. PICK pred \in Nat \ {0} : ZeroIndex(PrimeExponent) = pred
    BY FieldIs
  <1>2. PICK N \in Nat \ {0} : N = d - 1 /\ \A i \in 1..N : d - 1 - i \in 0..(d - 1)
    OBVIOUS
  <1>. DEFINE Row(ix) == [j \in 1..(ix + 1) |-> Coupled(d, ix, ix - j, PackageSize)]
              seqs == [i \in 1..N |-> Row(d - 1 - i)]
              S == UNION {{Row(d - 1 - i)[j] : j \in 1..(d - 1 - i + 1)} : i \in 1..N}
  <1>3. PICK last : last = OnlyLeading(d, PackageSize)
    OBVIOUS
  <1>4. CoupledEnumerators(d, PackageSize) = FlattenSeq(seqs) \o <<last>>
    BY <1>2, <1>3, Zenon DEF CoupledEnumerators
  <1>5. ASSUME NEW i \in 1..N
        PROVE  Row(d - 1 - i) \in Seq(S)
    <2>1. PICK ix \in 0..(d - 1) : ix = d - 1 - i
      BY <1>2
    <2>2. \A j \in 1..(ix + 1) : Row(ix)[j] \in S
      BY <2>1
    <2>3. Row(ix) = [j \in 1..(ix + 1) |-> Row(ix)[j]] /\ ix + 1 \in Nat
      OBVIOUS
    <2>. HIDE DEF S, Row
    <2>4. Row(ix) \in [1..(ix + 1) -> S]
      BY <2>2, <2>3
    <2>5. Row(ix) \in Seq(S)
      BY ONLY <2>3, <2>4
    <2>. QED
      BY <2>1, <2>5
  <1>6. ASSUME NEW ix \in 0..(d - 1)
        PROVE  IsRow(Row(ix), d, ix)
    <2>1. PICK row : row = Row(ix)
      OBVIOUS
    <2>2. IsRow(row, d, ix)
      BY <2>1, RowIs
    <2>. HIDE DEF Row
    <2>. QED
      BY <2>1, <2>2
  <1>. HIDE DEF Row, S
  <1>7. /\ seqs \in [1..N -> Seq(S)]
        /\ \A i \in 1..N : seqs[i] = Row(d - 1 - i)
    BY <1>5
  <1>. HIDE DEF seqs
  <1>8. PICK h : Flattens(h, seqs, N, S)
    BY <1>7, FlattenIs
  <1>. DEFINE Upto(s, i) == /\ Enumerates(s)
                            /\ \A b \in All(s) :
                                 /\ IsBlockOf(b, d)
                                 /\ \E ix \in (d - 1 - i)..(d - 2) : Second(b, d, ix)
              T == {i \in 0..N : i = 0 \/ Upto(h[i], i)}
  <1>9. 0 \in T
    BY <1>2
  <1>10. ASSUME NEW i \in 1..N, i - 1 \in T
         PROVE  i \in T
    <2>1. PICK ix \in 0..(d - 1) : ix = d - 1 - i /\ ix <= d - 2
      BY <1>2
    <2>2. IsRow(seqs[i], d, ix)
      BY <2>1, <1>6, <1>7
    <2>3. Enumerates(seqs[i]) /\ \A b \in All(seqs[i]) : IsBlockOf(b, d) /\ Second(b, d, ix)
      BY <2>2 DEF IsRow
    <2>4. ix \in (d - 1 - i)..(d - 2)
      BY <1>2, <2>1
    <2>5. CASE i = 1
      <3>1. h[i] = seqs[i]
        BY <2>5, <1>8 DEF Flattens
      <3>2. Upto(h[i], i)
        BY <3>1, <2>3, <2>4
      <3>. HIDE DEF Upto
      <3>. QED
        BY <3>2
    <2>6. CASE i # 1
      <3>1. i \in 2..N /\ i - 1 # 0
        BY <2>6
      <3>2. h[i] = h[i - 1] \o seqs[i]
        BY <3>1, <1>8 DEF Flattens
      <3>3. PICK s, t : s = h[i - 1] /\ t = seqs[i]
        OBVIOUS
      <3>4. Upto(s, i - 1)
        BY <3>1, <3>3, <1>10
      <3>5. ASSUME NEW b, b \in All(s), b \in All(t)
            PROVE  FALSE
        <4>1. PICK jx \in (d - 1 - (i - 1))..(d - 2) : Second(b, d, jx)
          BY <3>4, <3>5
        <4>2. b[jx][1] # pred /\ jx \in (ix + 1)..(d - 1)
          BY <4>1, <1>1, <1>2, <2>1 DEF Second
        <4>3. Second(b, d, ix)
          BY <2>3, <3>3, <3>5
        <4>. QED
          BY <4>2, <4>3, <1>1 DEF Second
      <3>6. Concatenates(s \o t, s, t)
        <4>1. Enumerates(s) /\ Enumerates(t) /\ All(s) \cap All(t) = {}
          BY <2>3, <3>3, <3>4, <3>5
        <4>. QED
          BY <4>1, ConcatenationIs
      <3>7. Enumerates(h[i]) /\ All(h[i]) = All(s) \cup All(t)
        BY <3>2, <3>3, <3>6 DEF Concatenates
      <3>8. ASSUME NEW b \in All(h[i])
            PROVE  IsBlockOf(b, d) /\ \E kx \in (d - 1 - i)..(d - 2) : Second(b, d, kx)
        <4>1. CASE b \in All(s)
          <5>1. PICK jx \in (d - 1 - (i - 1))..(d - 2) : Second(b, d, jx)
            BY <3>4, <4>1
          <5>2. jx \in (d - 1 - i)..(d - 2)
            OBVIOUS
          <5>. QED
            BY <5>1, <5>2, <3>4, <4>1
        <4>2. CASE b \in All(t)
          BY <4>2, <2>3, <2>4, <3>3
        <4>. QED
          BY <4>1, <4>2, <3>7
      <3>9. Upto(h[i], i)
        BY <3>7, <3>8
      <3>. HIDE DEF Upto
      <3>. QED
        BY <3>9
    <2>. QED
      BY <2>5, <2>6
  <1>11. Upto(h[N], N)
    <2>. HIDE DEF T
    <2>1. \A i \in 0..N : i \in T
      BY <1>9, <1>10, UpTo
    <2>2. N \in 0..N /\ N # 0
      OBVIOUS
    <2>3. N \in T
      BY <2>1, <2>2
    <2>. HIDE DEF Upto
    <2>. QED
      BY <2>2, <2>3 DEF T
  <1>12. PICK s, t : s = h[N] /\ t = <<last>>
    OBVIOUS
  <1>13. CoupledEnumerators(d, PackageSize) = s \o t
    BY <1>4, <1>8, <1>12 DEF Flattens
  <1>14. /\ GoodFor(last, d)
         /\ \A b \in Coming(last) : \A k \in 0..(d - 1) : b[k][1] = pred
    BY <1>1, <1>3, OnlyLeadingIs
  <1>15. Enumerates(t) /\ All(t) = Coming(last)
    BY <1>12, <1>14, OneEnumerates DEF GoodFor
  <1>16. ASSUME NEW b, b \in All(s), b \in All(t)
         PROVE  FALSE
    <2>1. PICK ix \in (d - 1 - N)..(d - 2) : Second(b, d, ix)
      BY <1>11, <1>12, <1>16
    <2>2. ix \in 0..(d - 1)
      BY <1>2
    <2>3. b[ix][1] # pred
      BY <2>1, <1>1 DEF Second
    <2>. QED
      BY <2>2, <2>3, <1>14, <1>15, <1>16
  <1>17. Concatenates(s \o t, s, t)
    <2>1. Enumerates(s) /\ Enumerates(t) /\ All(s) \cap All(t) = {}
      BY <1>11, <1>12, <1>15, <1>16
    <2>. QED
      BY <2>1, ConcatenationIs
  <1>18. \A b \in All(s) \cup All(t) : IsBlockOf(b, d)
    <2>1. \A b \in All(s) : IsBlockOf(b, d)
      BY <1>11, <1>12
    <2>2. \A b \in All(t) : IsBlockOf(b, d)
      BY <1>14, <1>15 DEF GoodFor
    <2>. QED
      BY <2>1, <2>2
  <1>19. PICK u : u = s \o t
    OBVIOUS
  <1>20. OfDegree(u, d)
    BY <1>17, <1>18, <1>19 DEF Concatenates, OfDegree
  <1>. QED
    BY <1>13, <1>19, <1>20

-----------------------------------------------------------------------------
(* The iterator over the curves of the node                                *)

\* The enumerators of a degree have no block in common, for every prime.
LEMMA EnumeratorsAre ==
    ASSUME NEW d \in Nat, d >= 3
    PROVE  OfDegree(Enumerators(d, PackageSize), d)
  <1>1. CASE Prime > d
    <2>1. d % Prime = d
      BY <1>1, PrimeIs, RemainderIs
    <2>2. Enumerators(d, PackageSize) = CoupledEnumerators(d, PackageSize)
      BY <1>1, <2>1 DEF Enumerators
    <2>. QED
      BY <2>2, CoupledEnumeratorsAre
  <1>2. PICK snd, first : first = NextToLeading(d, PackageSize) /\ snd = NoNextToLeading(d, PackageSize)
    OBVIOUS
  <1>3. /\ GoodFor(first, d)
        /\ \A b \in Coming(first) : b[d - 1][1] # ZeroIndex(PrimeExponent)
    BY <1>2, NextToLeadingIs
  <1>4. /\ GoodFor(snd, d)
        /\ \A b \in Coming(snd) : b[d - 1][1] = ZeroIndex(PrimeExponent)
    BY <1>2, NoNextToLeadingIs
  <1>5. PICK s, t : s = <<first>> /\ t = <<snd>>
    OBVIOUS
  <1>6. Enumerates(s) /\ All(s) = Coming(first) /\ Enumerates(t) /\ All(t) = Coming(snd)
    BY <1>3, <1>4, <1>5, OneEnumerates DEF GoodFor
  <1>7. CASE ~(Prime > d) /\ d % Prime = 0
    <2>1. Enumerators(d, PackageSize) = <<first, snd>>
      BY <1>2, <1>7 DEF Enumerators
    <2>2. <<first, snd>> = s \o t
      BY <1>5
    <2>3. Concatenates(s \o t, s, t)
      <3>1. All(s) \cap All(t) = {}
        BY <1>3, <1>4, <1>6
      <3>. QED
        BY <3>1, <1>6, ConcatenationIs
    <2>4. PICK u : u = s \o t
      OBVIOUS
    <2>5. OfDegree(u, d)
      BY <2>3, <2>4, <1>3, <1>4, <1>6 DEF Concatenates, OfDegree, GoodFor
    <2>. QED
      BY <2>1, <2>2, <2>4, <2>5
  <1>8. CASE ~(Prime > d) /\ d % Prime # 0
    <2>1. Enumerators(d, PackageSize) = t
      BY <1>2, <1>5, <1>8 DEF Enumerators
    <2>. QED
      BY <2>1, <1>4, <1>6 DEF OfDegree, GoodFor
  <1>. QED
    BY <1>1, <1>7, <1>8

IsBlock(b) == \E d \in DegreesOf(NodeGenus, WithMarkedPoint) : IsBlockOf(b, d)

\* What is left of the curves: blocks that are legal, and none of them twice.
Iterates(s) == Enumerates(s) /\ \A b \in All(s) : IsBlock(b)

\* Nor have those of the two degrees of a genus.
LEMMA NewCurveIteratorIs ==
    Iterates(NewCurveIterator(NodeGenus, WithMarkedPoint, PackageSize))
  <1>. DEFINE D == DegreesOf(NodeGenus, WithMarkedPoint)
  <1>1. PICK odd \in Nat, even \in Nat : /\ odd = 2 * NodeGenus + 1 /\ even = 2 * NodeGenus + 2
                                         /\ odd >= 3 /\ even = odd + 1
    BY NodeAssumption
  <1>2. odd \in D /\ (~WithMarkedPoint => even \in D)
    <2>1. D = odd..(IF WithMarkedPoint THEN odd ELSE even)
      BY <1>1 DEF DegreesOf
    <2>2. odd <= even
      BY <1>1
    <2>. QED
      BY <1>1, <2>1, <2>2
  <1>3. PICK s, t : s = Enumerators(odd, PackageSize) /\ t = Enumerators(even, PackageSize)
    OBVIOUS
  <1>4. OfDegree(s, odd) /\ OfDegree(t, even)
    BY <1>1, <1>3, EnumeratorsAre
  <1>5. PICK u : u = NewCurveIterator(NodeGenus, WithMarkedPoint, PackageSize)
    OBVIOUS
  <1>6. u = s \o (IF WithMarkedPoint THEN <<>> ELSE t)
    BY <1>1, <1>3, <1>5 DEF NewCurveIterator
  <1>. HIDE DEF D
  <1>7. CASE WithMarkedPoint
    <2>1. u = s
      <3>1. PICK S : s \in Seq(S)
        BY <1>4 DEF OfDegree, Enumerates
      <3>2. u = s \o <<>>
        BY <1>6, <1>7
      <3>3. s \o <<>> = s
        BY ONLY <3>1
      <3>. QED
        BY <3>2, <3>3
    <2>. QED
      BY <1>2, <1>4, <1>5, <2>1 DEF OfDegree, Iterates, IsBlock, D
  <1>8. CASE ~WithMarkedPoint
    <2>1. u = s \o t
      BY <1>6, <1>8
    <2>2. ASSUME NEW b, b \in All(s), b \in All(t)
          PROVE  FALSE
      <3>1. DOMAIN b = 0..odd /\ DOMAIN b = 0..even
        BY <1>4, <2>2 DEF OfDegree, IsBlockOf
      <3>2. even \in 0..even /\ even \notin 0..odd
        BY <1>1
      <3>. QED
        BY <3>1, <3>2
    <2>3. Concatenates(s \o t, s, t)
      <3>1. Enumerates(s) /\ Enumerates(t) /\ All(s) \cap All(t) = {}
        BY <1>4, <2>2 DEF OfDegree
      <3>. QED
        BY <3>1, ConcatenationIs
    <2>4. Enumerates(u) /\ All(u) = All(s) \cup All(t)
      BY <2>1, <2>3 DEF Concatenates
    <2>5. \A b \in All(u) : IsBlockOf(b, odd) \/ IsBlockOf(b, even)
      BY <1>4, <2>4 DEF OfDegree
    <2>6. \A b \in All(u) : IsBlock(b)
      BY <2>5, <1>2, <1>8 DEF IsBlock, D
    <2>. QED
      BY <1>5, <2>4, <2>6 DEF Iterates
  <1>. QED
    BY <1>7, <1>8

\* Stepping takes the block at hand away, for good.
LEMMA StepCurveIteratorIs ==
    ASSUME NEW s, Iterates(s), ~IsEnd(s)
    PROVE  /\ AsBlock(Head(s)) \in All(s)
           /\ Iterates(StepCurveIterator(s))
           /\ All(StepCurveIterator(s)) \subseteq All(s)
           /\ AsBlock(Head(s)) \notin All(StepCurveIterator(s))
  <1>1. PICK S : s \in Seq(S)
    BY DEF Iterates, Enumerates
  <1>2. s # <<>>
    BY DEF IsEnd
  <1>3. PICK n \in Nat \ {0} : n = Len(s)
    BY <1>1, <1>2
  <1>4. PICK it : it = s[1]
    OBVIOUS
  <1>5. PICK t : t = Tail(s)
    OBVIOUS
  <1>6. /\ Head(s) = it /\ t \in Seq(S) /\ Len(t) = n - 1
        /\ \A i \in 1..(n - 1) : t[i] = s[i + 1]
    BY <1>1, <1>2, <1>3, <1>4, <1>5
  <1>7. Good(it) /\ Coming(it) \subseteq All(s) /\ 1 \in 1..n
    BY <1>3, <1>4 DEF Iterates, Enumerates, All
  <1>8. PICK b : b = AsBlock(it)
    OBVIOUS
  <1>9. b \in All(s) /\ b \in Coming(it)
    BY <1>7, <1>8, ComingShrinks
  <1>10. Enumerates(t) /\ All(t) \subseteq All(s) /\ All(t) \cap Coming(it) = {}
    <2>1. ASSUME NEW i \in 1..(n - 1)
          PROVE  Good(t[i]) /\ Coming(t[i]) \subseteq All(s) /\ Coming(t[i]) \cap Coming(it) = {}
      <3>1. i + 1 \in 1..n /\ i + 1 # 1 /\ t[i] = s[i + 1]
        BY <1>6
      <3>2. Coming(s[i + 1]) \cap Coming(s[1]) = {}
        BY <3>1, <1>3, <1>7 DEF Iterates, Enumerates
      <3>. QED
        BY <3>1, <3>2, <1>3, <1>4 DEF Iterates, Enumerates, All
    <2>2. ASSUME NEW i \in 1..(n - 1), NEW j \in 1..(n - 1), i # j
          PROVE  Coming(t[i]) \cap Coming(t[j]) = {}
      <3>1. i + 1 \in 1..n /\ j + 1 \in 1..n /\ i + 1 # j + 1
        BY <2>2
      <3>2. Coming(s[i + 1]) \cap Coming(s[j + 1]) = {}
        BY <3>1, <1>3 DEF Iterates, Enumerates
      <3>. QED
        BY <3>2, <1>6
    <2>3. Enumerates(t)
      BY <1>6, <2>1, <2>2 DEF Enumerates
    <2>4. \A c \in All(t) : \E i \in 1..(n - 1) : c \in Coming(t[i])
      BY <1>6 DEF All
    <2>. QED
      BY <2>1, <2>3, <2>4
  <1>11. PICK jt : jt = Step(it)
    OBVIOUS
  <1>12. PICK u : u = StepCurveIterator(s)
    OBVIOUS
  <1>13. u = IF jt.has_reached_end THEN t ELSE <<jt>> \o t
    BY <1>5, <1>6, <1>11, <1>12 DEF StepCurveIterator
  <1>14. CASE jt.has_reached_end
    <2>1. u = t
      BY <1>13, <1>14
    <2>. QED
      BY <2>1, <1>6, <1>8, <1>9, <1>10, <1>12 DEF Iterates
  <1>15. CASE ~jt.has_reached_end
    <2>1. Good(jt) /\ Coming(jt) \subseteq Coming(it) /\ b \notin Coming(jt)
      BY <1>7, <1>8, <1>11, <1>15, ComingShrinks
    <2>2. PICK r : r = <<jt>>
      OBVIOUS
    <2>3. Enumerates(r) /\ All(r) = Coming(jt)
      BY <2>1, <2>2, OneEnumerates
    <2>4. Concatenates(r \o t, r, t)
      <3>1. All(r) \cap All(t) = {}
        BY <1>10, <2>1, <2>3
      <3>. QED
        BY <3>1, <1>10, <2>3, ConcatenationIs
    <2>5. u = r \o t
      BY <1>13, <1>15, <2>2
    <2>6. Enumerates(u) /\ All(u) = All(r) \cup All(t)
      BY <2>4, <2>5 DEF Concatenates
    <2>7. All(u) \subseteq All(s) /\ b \notin All(u)
      BY <2>1, <2>3, <2>6, <1>7, <1>9, <1>10
    <2>. QED
      BY <2>6, <2>7, <1>6, <1>8, <1>9, <1>12 DEF Iterates
  <1>. QED
    BY <1>14, <1>15

\* A block is counted into a store that has the number of its curves.
LEMMA BlockIsCounted ==
    ASSUME NEW b, IsBlock(b)
    PROVE  /\ StoreOf(b) \in Stores
           /\ TotalOf(StoreOf(b)) = CurvesOf(b) /\ CurvesOf(b) \in Int
  <1>1. PICK d \in DegreesOf(NodeGenus, WithMarkedPoint) : IsBlockOf(b, d)
    BY DEF IsBlock
  <1>2. PICK pred \in Nat \ {0} : ZeroIndex(PrimeExponent) = pred
    BY FieldIs
  <1>3. d \in Nat
    BY DegreesAre
  <1>4. /\ DOMAIN b = 0..d /\ AreIntervals(b) /\ b[d][2] <= pred
        /\ \A ix \in 0..d : b[ix][2] <= pred + 1
    BY <1>1, <1>2 DEF IsBlockOf
  <1>5. PICK size \in Nat : size = SizeOf(b)
    <2>1. IsFiniteSet(0..d)
      BY <1>3, FS_Interval
    <2>2. PICK S : S = 0..d
      OBVIOUS
    <2>3. IsFiniteSet(S) /\ DOMAIN b = S
      BY <1>4, <2>1, <2>2
    <2>. QED
      BY <1>4, <2>3, SizeOfIs
  <1>6. PICK positions : positions = PositionsOf(b)
    OBVIOUS
  <1>7. /\ DOMAIN positions = 1..size
        /\ \A n \in 1..size : /\ positions[n] \in [0..d -> Nat]
                              /\ \A ix \in 0..d : positions[n][ix] < b[ix][2]
    BY <1>3, <1>4, <1>5, <1>6, PositionsAre
  <1>8. ASSUME NEW n \in 1..size
        PROVE  Countable(positions[n])
    <2>1. PICK p \in [0..d -> Nat] : p = positions[n] /\ \A ix \in 0..d : p[ix] < b[ix][2]
      BY <1>7
    <2>2. d \in 0..d
      BY <1>3
    <2>3. \A ix \in 0..d : b[ix][2] \in Nat
      BY <1>4 DEF AreIntervals
    <2>4. ASSUME NEW ix \in 0..d
          PROVE  p[ix] \in 0..pred
      <3>1. PICK m \in Nat : m = b[ix][2]
        BY <2>3
      <3>2. PICK n_ix \in Nat : n_ix = p[ix]
        OBVIOUS
      <3>3. n_ix < m /\ m <= pred + 1
        BY <1>4, <2>1, <3>1, <3>2
      <3>. QED
        BY <3>2, <3>3
    <2>5. p[d] # pred
      BY <1>4, <2>1, <2>2, <2>3
    <2>6. p \in [0..d -> 0..pred]
      BY <2>4
    <2>. QED
      BY <1>2, <2>1, <2>5, <2>6, CurveOfPosition
  <1>. QED
    BY <1>5, <1>6, <1>7, <1>8, StoreOfIs

-----------------------------------------------------------------------------
(* The inductive invariant                                                 *)

\* The store of a job that has been counted is that of its block.
JobIs(j) ==
    /\ j = [block |-> j.block, counted |-> j.counted, store |-> j.store]
    /\ j.counted \in BOOLEAN
    /\ j # Idle => IsBlock(j.block)
    /\ j.counted => /\ j # Idle
                    /\ j.store \in Stores /\ TotalOf(j.store) = CurvesOf(j.block)
JobsAre ==
    /\ job = [t \in Thread |-> job[t]]
    /\ \A t \in Thread : JobIs(job[t])

\* The static store has the curves of the static record,
StaticIs ==
    /\ IsFiniteSet(static_record) /\ \A b \in static_record : IsBlock(b)
    /\ static_store \in Stores
    /\ TotalOf(static_store) = NumberOfCurves(static_record)

\* and that of a file those of the record with it.
FilesAre ==
    /\ \E S : files \in Seq(S)
    /\ \A i \in 1..Len(files) :
          LinesTotal(files[i].store) = NumberOfCurves(files[i].record)

\* A block is in one place only: yet to come, with one thread, in the static
\* record, or in the record of one file.
Holds(t, b) == job[t] # Idle /\ job[t].block = b
InFile(i, b) == b \in files[i].record

Apart ==
    /\ \A b \in All(curves) : /\ b \notin static_record
                              /\ \A t \in Thread : ~Holds(t, b)
                              /\ \A i \in 1..Len(files) : ~InFile(i, b)
    /\ \A t \in Thread : job[t] # Idle =>
          /\ job[t].block \notin static_record
          /\ \A u \in Thread : u # t => ~Holds(u, job[t].block)
          /\ \A i \in 1..Len(files) : ~InFile(i, job[t].block)
    /\ \A i \in 1..Len(files) : static_record \cap files[i].record = {}
    /\ \A i, j \in 1..Len(files) : i # j => files[i].record \cap files[j].record = {}

Inv == Iterates(curves) /\ JobsAre /\ StaticIs /\ FilesAre /\ Apart

\* A thread with a block is not idle.
LEMMA BlockIsNotEmpty ==
    ASSUME NEW b, IsBlock(b)
    PROVE  b # <<>>
  <1>1. PICK d \in DegreesOf(NodeGenus, WithMarkedPoint) : DOMAIN b = 0..d
    BY DEF IsBlock, IsBlockOf
  <1>2. 0 \in DOMAIN b
    BY <1>1, DegreesAre
  <1>. QED
    BY <1>2

\* A job when it is assigned,
LEMMA BlockReplaced ==
    ASSUME NEW b, NEW c, NEW f, NEW s, NEW j, j = [block |-> c, counted |-> f, store |-> s]
    PROVE  [j EXCEPT !.block = b] = [block |-> b, counted |-> f, store |-> s]
  OBVIOUS

WithStore(j, s, f) == [j EXCEPT !.store = s, !.counted = f]

\* and when it has been counted.
LEMMA StoreReplaced ==
    ASSUME NEW b, NEW c, NEW f, NEW r, NEW s, NEW j, j = [block |-> b, counted |-> c, store |-> r]
    PROVE  WithStore(j, s, f) = [block |-> b, counted |-> f, store |-> s]
  <1>1. PICK k : k = [j EXCEPT !.store = s, !.counted = f]
    OBVIOUS
  <1>2. k = [block |-> b, counted |-> f, store |-> s]
    BY <1>1
  <1>. QED
    BY <1>1, <1>2 DEF WithStore

\* The node starts in the invariant.
LEMMA InitInv == Init => Inv
  <1>. SUFFICES ASSUME Init
                PROVE  Inv
    OBVIOUS
  <1>1. Iterates(curves)
    BY NewCurveIteratorIs DEF Init
  <1>2. JobsAre /\ \A t \in Thread : job[t] = Idle
    <2>1. job = [t \in Thread |-> Idle]
      BY DEF Init
    <2>2. JobIs(Idle)
      BY DEF JobIs, Idle
    <2>. QED
      BY <2>1, <2>2 DEF JobsAre
  <1>3. StaticIs
    <2>1. EmptyStore \in Stores /\ TotalOf(EmptyStore) = 0
      BY EmptyStoreIs, StoresAre
    <2>. QED
      BY <2>1, NumberOfNone, FS_EmptySet DEF StaticIs, Init
  <1>4. files = <<>> /\ files \in Seq({}) /\ Len(files) = 0 /\ \A i \in 1..Len(files) : FALSE
    BY DEF Init
  <1>5. FilesAre
    BY <1>4 DEF FilesAre
  <1>6. Apart
    BY <1>2, <1>4 DEF Apart, Holds, Init
  <1>. QED
    BY <1>1, <1>2, <1>3, <1>5, <1>6 DEF Inv

\* A block that is assigned comes no more.
LEMMA AssignInv ==
    ASSUME Inv, NEW t \in Thread, Assign(t)
    PROVE  Inv'
  <1>1. PICK b : b = AsBlock(Head(curves))
    OBVIOUS
  <1>2. /\ ~IsEnd(curves) /\ job[t] = Idle
        /\ job' = [job EXCEPT ![t].block = b] /\ curves' = StepCurveIterator(curves)
        /\ UNCHANGED <<static_record, static_store, files>>
    BY <1>1 DEF Assign
  <1>3. /\ b \in All(curves) /\ Iterates(curves') /\ All(curves') \subseteq All(curves)
        /\ b \notin All(curves') /\ IsBlock(b)
    <2>1. Iterates(curves)
      BY DEF Inv
    <2>2. /\ b \in All(curves) /\ Iterates(curves') /\ All(curves') \subseteq All(curves)
          /\ b \notin All(curves')
      BY <1>1, <1>2, <2>1, StepCurveIteratorIs
    <2>. QED
      BY <2>1, <2>2 DEF Iterates
  <1>4. b # <<>>
    BY <1>3, BlockIsNotEmpty
  <1>5. PICK j : j = [block |-> b, counted |-> FALSE, store |-> EmptyStore]
    OBVIOUS
  <1>6. j # Idle /\ j.block = b /\ JobIs(j)
    BY <1>3, <1>4, <1>5 DEF Idle, JobIs
  <1>7. /\ job' = [u \in Thread |-> IF u = t THEN j ELSE job[u]]
        /\ job'[t] = j /\ \A u \in Thread : u # t => job'[u] = job[u]
    <2>1. job = [u \in Thread |-> job[u]]
      BY DEF Inv, JobsAre
    <2>2. [Idle EXCEPT !.block = b] = j
      <3>1. PICK f, r, c : f = FALSE /\ r = EmptyStore /\ c = <<>>
        OBVIOUS
      <3>2. Idle = [block |-> c, counted |-> f, store |-> r]
        BY <3>1 DEF Idle
      <3>3. [Idle EXCEPT !.block = b] = [block |-> b, counted |-> f, store |-> r]
        BY <3>2, BlockReplaced
      <3>. QED
        BY <3>1, <3>3, <1>5
    <2>3. [job[t] EXCEPT !.block = b] = j
      BY <1>2, <2>2
    <2>4. job' = [u \in Thread |-> IF u = t THEN [job[t] EXCEPT !.block = b] ELSE job[u]]
      BY <1>2, <2>1
    <2>. QED
      BY <2>3, <2>4
  <1>8. JobsAre'
    <2>1. \A u \in Thread : JobIs(job'[u])
      BY <1>6, <1>7 DEF Inv, JobsAre
    <2>2. job' = [u \in Thread |-> job'[u]]
      BY <1>7
    <2>. QED
      BY <2>1, <2>2 DEF JobsAre
  <1>9. StaticIs' /\ FilesAre'
    BY <1>2 DEF Inv, StaticIs, FilesAre
  <1>10. Apart'
    <2>1. \A c \in All(curves') : /\ c \notin static_record'
                                  /\ \A u \in Thread : ~Holds(u, c)'
                                  /\ \A i \in 1..Len(files') : ~InFile(i, c)'
      BY <1>2, <1>3, <1>6, <1>7 DEF Inv, Apart, Holds, InFile
    <2>2. ASSUME NEW u \in Thread, job'[u] # Idle
          PROVE  /\ job'[u].block \notin static_record'
                 /\ \A v \in Thread : v # u => ~(job'[v] # Idle /\ job'[v].block = job'[u].block)
                 /\ \A i \in 1..Len(files') : job'[u].block \notin files'[i].record
      <3>1. CASE u = t
        BY <3>1, <1>2, <1>3, <1>6, <1>7 DEF Inv, Apart, Holds, InFile
      <3>2. CASE u # t
        <4>1. job'[u] = job[u] /\ job[u] # Idle
          BY <3>2, <2>2, <1>7
        <4>2. job[u].block # b
          BY <1>3, <4>1 DEF Inv, Apart, Holds
        <4>3. \A v \in Thread : v # u => ~(job[v] # Idle /\ job[v].block = job[u].block)
          BY <4>1 DEF Inv, Apart, Holds
        <4>4. \A v \in Thread : v # u => ~(job'[v] # Idle /\ job'[v].block = job'[u].block)
          BY <4>1, <4>2, <4>3, <1>6, <1>7
        <4>. QED
          BY <4>1, <4>4, <1>2 DEF Inv, Apart, InFile
      <3>. QED
        BY <3>1, <3>2
    <2>3. /\ \A i \in 1..Len(files') : static_record' \cap files'[i].record = {}
          /\ \A i, k \in 1..Len(files') : i # k => files'[i].record \cap files'[k].record = {}
      BY <1>2 DEF Inv, Apart
    <2>. QED
      BY <2>1, <2>2, <2>3 DEF Apart, Holds, InFile
  <1>. QED
    BY <1>3, <1>8, <1>9, <1>10 DEF Inv

\* A thread counts into a store of its own the curves of its block.
LEMMA CountBlockInv ==
    ASSUME Inv, NEW t \in Thread, CountBlock(t)
    PROVE  Inv'
  <1>1. PICK b : b = job[t].block
    OBVIOUS
  <1>2. /\ job[t] # Idle
        /\ job' = [job EXCEPT ![t].store = StoreOf(b), ![t].counted = TRUE]
        /\ UNCHANGED <<curves, static_record, static_store, files>>
    BY <1>1 DEF CountBlock
  <1>3. /\ job = [u \in Thread |-> job[u]]
        /\ job[t] = [block |-> b, counted |-> job[t].counted, store |-> job[t].store]
        /\ IsBlock(b)
    BY <1>1, <1>2 DEF Inv, JobsAre, JobIs
  <1>4. PICK j : j = [block |-> b, counted |-> TRUE, store |-> StoreOf(b)]
    OBVIOUS
  <1>5. StoreOf(b) \in Stores /\ TotalOf(StoreOf(b)) = CurvesOf(b)
    BY <1>3, BlockIsCounted
  <1>6. j # Idle /\ j.block = b /\ JobIs(j)
    <2>1. j.counted = TRUE /\ Idle.counted = FALSE
      BY <1>4 DEF Idle
    <2>. QED
      BY <1>3, <1>4, <1>5, <2>1 DEF JobIs
  <1>7. /\ job' = [u \in Thread |-> IF u = t THEN j ELSE job[u]]
        /\ job'[t] = j /\ \A u \in Thread : u # t => job'[u] = job[u]
    <2>1. PICK s, r, c : s = StoreOf(b) /\ r = job[t].store /\ c = job[t].counted
      OBVIOUS
    <2>2. PICK e : e = TRUE
      OBVIOUS
    <2>3. job[t] = [block |-> b, counted |-> c, store |-> r]
      BY <1>3, <2>1
    <2>4. WithStore(job[t], s, e) = [block |-> b, counted |-> e, store |-> s]
      BY <2>3, StoreReplaced
    <2>5. WithStore(job[t], s, e) = j
      BY <1>4, <2>1, <2>2, <2>4
    <2>6. job' = [job EXCEPT ![t] = WithStore(job[t], s, e)]
      BY <1>2, <1>3, <2>1, <2>2 DEF WithStore
    <2>. QED
      BY <1>3, <2>5, <2>6
  <1>8. JobsAre'
    <2>1. \A u \in Thread : JobIs(job'[u])
      BY <1>6, <1>7 DEF Inv, JobsAre
    <2>2. job' = [u \in Thread |-> job'[u]]
      BY <1>7
    <2>. QED
      BY <2>1, <2>2 DEF JobsAre
  <1>9. Iterates(curves') /\ StaticIs' /\ FilesAre'
    BY <1>2 DEF Inv, StaticIs, FilesAre
  <1>10. \A u \in Thread : job'[u] = Idle <=> job[u] = Idle
    BY <1>2, <1>6, <1>7
  <1>11. \A u \in Thread : job'[u].block = job[u].block
    BY <1>1, <1>6, <1>7
  <1>12. Apart'
    <2>1. \A c \in All(curves') : /\ c \notin static_record'
                                  /\ \A u \in Thread : ~(job'[u] # Idle /\ job'[u].block = c)
                                  /\ \A i \in 1..Len(files') : c \notin files'[i].record
      BY <1>2, <1>10, <1>11 DEF Inv, Apart, Holds, InFile
    <2>2. ASSUME NEW u \in Thread, job'[u] # Idle
          PROVE  /\ job'[u].block \notin static_record'
                 /\ \A v \in Thread : v # u => ~(job'[v] # Idle /\ job'[v].block = job'[u].block)
                 /\ \A i \in 1..Len(files') : job'[u].block \notin files'[i].record
      <3>1. job[u] # Idle
        BY <1>10, <2>2
      <3>2. /\ job[u].block \notin static_record
            /\ \A v \in Thread : v # u => ~(job[v] # Idle /\ job[v].block = job[u].block)
            /\ \A i \in 1..Len(files) : job[u].block \notin files[i].record
        BY <3>1 DEF Inv, Apart, Holds, InFile
      <3>3. ASSUME NEW v \in Thread, v # u, job'[v] # Idle
            PROVE  job'[v].block # job'[u].block
        <4>1. job[v] # Idle
          BY <1>10, <3>3
        <4>. QED
          BY <3>2, <3>3, <4>1, <1>11
      <3>4. /\ job'[u].block = job[u].block
            /\ static_record' = static_record /\ files' = files
        BY <1>2, <1>11
      <3>5. /\ job'[u].block \notin static_record'
            /\ \A i \in 1..Len(files') : job'[u].block \notin files'[i].record
        BY <3>2, <3>4
      <3>. QED
        BY <3>3, <3>5
    <2>3. /\ \A i \in 1..Len(files') : static_record' \cap files'[i].record = {}
          /\ \A i, k \in 1..Len(files') : i # k => files'[i].record \cap files'[k].record = {}
      BY <1>2 DEF Inv, Apart
    <2>. QED
      BY <2>1, <2>2, <2>3 DEF Apart, Holds, InFile
  <1>. QED
    BY <1>8, <1>9, <1>12 DEF Inv

\* Adding the store of a thread: its block was not in the static record.
LEMMA FlushInv ==
    ASSUME Inv, NEW t \in Thread, FlushToStaticStore(t)
    PROVE  Inv'
  <1>1. PICK b : b = job[t].block
    OBVIOUS
  <1>2. /\ job[t].counted
        /\ static_record' = static_record \cup {b}
        /\ static_store' = MergedInto(static_store, job[t].store)
        /\ job' = [job EXCEPT ![t] = Idle]
        /\ UNCHANGED <<curves, files>>
    BY <1>1 DEF FlushToStaticStore
  <1>3. /\ job = [u \in Thread |-> job[u]]
        /\ job[t] # Idle /\ IsBlock(b)
        /\ job[t].store \in Stores /\ TotalOf(job[t].store) = CurvesOf(b)
    BY <1>1, <1>2 DEF Inv, JobsAre, JobIs
  <1>4. /\ b \notin static_record
        /\ \A u \in Thread : u # t => ~Holds(u, b)
        /\ \A i \in 1..Len(files) : b \notin files[i].record
        /\ b \notin All(curves)
    BY <1>1, <1>3 DEF Inv, Apart, InFile, Holds
  <1>5. job'[t] = Idle /\ \A u \in Thread : u # t => job'[u] = job[u]
    BY <1>2, <1>3
  <1>6. JobsAre'
    <2>1. JobIs(Idle)
      BY DEF JobIs, Idle
    <2>2. \A u \in Thread : JobIs(job'[u])
      BY <1>5, <2>1 DEF Inv, JobsAre
    <2>3. job' = [u \in Thread |-> job'[u]]
      BY <1>2, <1>3
    <2>. QED
      BY <2>2, <2>3 DEF JobsAre
  <1>7. StaticIs'
    <2>1. IsFiniteSet(static_record) /\ (\A c \in static_record : IsBlock(c))
          /\ static_store \in Stores /\ TotalOf(static_store) = NumberOfCurves(static_record)
      BY DEF Inv, StaticIs
    <2>2. /\ IsStore(static_store') /\ Paired(static_store')
          /\ TotalOf(static_store') = TotalOf(static_store) + TotalOf(job[t].store)
      BY <1>2, <1>3, <2>1, StoresAre, MergedIntoIs
    <2>3. \A c \in static_record \cup {b} : IsBlock(c) /\ CurvesOf(c) \in Int
      BY <1>3, <2>1, BlockIsCounted
    <2>4. NumberOfCurves(static_record \cup {b}) = NumberOfCurves(static_record) + CurvesOf(b)
      BY <1>4, <2>1, <2>3, NumberOfOneMore
    <2>5. IsFiniteSet(static_record \cup {b})
      BY <2>1, FS_AddElement
    <2>6. static_store' \in Stores
      BY <2>2, StoresAre
    <2>7. TotalOf(static_store') = NumberOfCurves(static_record')
      BY <1>2, <1>3, <2>1, <2>2, <2>4
    <2>. QED
      BY <1>2, <2>3, <2>5, <2>6, <2>7 DEF StaticIs
  <1>8. Iterates(curves') /\ FilesAre'
    BY <1>2 DEF Inv, FilesAre
  <1>9. Apart'
    <2>1. \A c \in All(curves') : /\ c \notin static_record'
                                  /\ \A u \in Thread : ~(job'[u] # Idle /\ job'[u].block = c)
                                  /\ \A i \in 1..Len(files') : c \notin files'[i].record
      BY <1>2, <1>4, <1>5 DEF Inv, Apart, Holds, InFile
    <2>2. ASSUME NEW u \in Thread, job'[u] # Idle
          PROVE  /\ job'[u].block \notin static_record'
                 /\ \A v \in Thread : v # u => ~(job'[v] # Idle /\ job'[v].block = job'[u].block)
                 /\ \A i \in 1..Len(files') : job'[u].block \notin files'[i].record
      <3>1. u # t /\ job'[u] = job[u] /\ job[u] # Idle
        BY <1>5, <2>2
      <3>2. job[u].block # b
        BY <3>1, <1>4 DEF Holds
      <3>3. \A v \in Thread : job'[v] # Idle => job'[v] = job[v]
        BY <1>5
      <3>4. /\ job[u].block \notin static_record
            /\ \A v \in Thread : v # u => ~(job[v] # Idle /\ job[v].block = job[u].block)
            /\ \A i \in 1..Len(files) : job[u].block \notin files[i].record
        BY <3>1 DEF Inv, Apart, Holds, InFile
      <3>. QED
        BY <3>1, <3>2, <3>3, <3>4, <1>2
    <2>3. \A i \in 1..Len(files') : static_record' \cap files'[i].record = {}
      BY <1>2, <1>4 DEF Inv, Apart
    <2>4. \A i, k \in 1..Len(files') : i # k => files'[i].record \cap files'[k].record = {}
      BY <1>2 DEF Inv, Apart
    <2>. QED
      BY <2>1, <2>2, <2>3, <2>4 DEF Apart, Holds, InFile
  <1>. QED
    BY <1>6, <1>7, <1>8, <1>9 DEF Inv

\* Saving moves the static record and the static store into one file pair.
LEMMA SaveInv ==
    ASSUME Inv, Save, UNCHANGED <<curves, job>>
    PROVE  Inv'
  <1>1. PICK file : file = [record |-> RecordLines(static_record), store |-> Inserted(static_store)]
    OBVIOUS
  <1>2. /\ files' = Append(files, file)
        /\ static_record' = {} /\ static_store' = EmptyStore
        /\ UNCHANGED <<curves, job>>
    BY <1>1 DEF Save
  <1>3. file.record = static_record /\ file.store = Inserted(static_store)
    BY <1>1 DEF RecordLines
  <1>4. PICK n \in Nat : /\ n = Len(files) /\ Len(files') = n + 1 /\ files'[n + 1] = file
                         /\ \A i \in 1..n : files'[i] = files[i]
    <2>1. PICK S : files \in Seq(S)
      BY DEF Inv, FilesAre
    <2>2. PICK R : R = S \cup {file}
      OBVIOUS
    <2>3. files \in Seq(R)
      <3>1. files \in [1..Len(files) -> S] /\ Len(files) \in Nat
        BY <2>1
      <3>2. files \in [1..Len(files) -> R]
        BY <2>2, <3>1
      <3>. QED
        BY ONLY <3>1, <3>2
    <2>. QED
      BY <1>2, <2>2, <2>3
  <1>5. \A i \in 1..(n + 1) : i \in 1..n \/ i = n + 1
    OBVIOUS
  <1>6. \E S : files' \in Seq(S)
    <2>1. PICK S : files \in Seq(S)
      BY DEF Inv, FilesAre
    <2>2. PICK R : R = S \cup {file}
      OBVIOUS
    <2>3. files \in [1..n -> S]
      BY <2>1, <1>4
    <2>4. files' \in Seq(R)
      <3>1. files \in [1..n -> R] /\ n \in Nat
        BY <2>2, <2>3
      <3>2. files \in Seq(R)
        BY ONLY <3>1
      <3>3. file \in R
        BY <2>2
      <3>. QED
        BY <3>2, <3>3, <1>2
    <2>. QED
      BY <2>4
  <1>7. FilesAre'
    <2>1. LinesTotal(file.store) = NumberOfCurves(file.record)
      <3>1. IsStore(static_store) /\ TotalOf(static_store) = NumberOfCurves(static_record)
        BY StoresAre DEF Inv, StaticIs
      <3>. QED
        BY <3>1, <1>3, InsertedIs
    <2>2. \A i \in 1..(n + 1) : LinesTotal(files'[i].store) = NumberOfCurves(files'[i].record)
      BY <2>1, <1>4, <1>5 DEF Inv, FilesAre
    <2>. QED
      BY <1>4, <1>6, <2>2 DEF FilesAre
  <1>8. StaticIs'
    <2>1. EmptyStore \in Stores /\ TotalOf(EmptyStore) = 0
      BY EmptyStoreIs, StoresAre
    <2>. QED
      BY <1>2, <2>1, NumberOfNone, FS_EmptySet DEF StaticIs
  <1>9. Iterates(curves') /\ JobsAre'
    BY <1>2 DEF Inv, JobsAre
  <1>10. Apart'
    <2>1. ASSUME NEW i \in 1..(n + 1), NEW b \in files'[i].record
          PROVE  \/ i \in 1..n /\ b \in files[i].record
                 \/ i = n + 1 /\ b \in static_record
      BY <2>1, <1>3, <1>4, <1>5
    <2>2. \A b \in All(curves') : /\ b \notin static_record'
                                  /\ \A u \in Thread : ~(job'[u] # Idle /\ job'[u].block = b)
                                  /\ \A i \in 1..(n + 1) : b \notin files'[i].record
      BY <1>2, <1>4, <2>1 DEF Inv, Apart, Holds, InFile
    <2>3. ASSUME NEW u \in Thread, job'[u] # Idle
          PROVE  /\ job'[u].block \notin static_record'
                 /\ \A v \in Thread : v # u => ~(job'[v] # Idle /\ job'[v].block = job'[u].block)
                 /\ \A i \in 1..(n + 1) : job'[u].block \notin files'[i].record
      BY <2>3, <1>2, <1>4, <2>1 DEF Inv, Apart, Holds, InFile
    <2>4. ASSUME NEW i \in 1..(n + 1), NEW k \in 1..(n + 1), i # k
          PROVE  files'[i].record \cap files'[k].record = {}
      <3>1. CASE i \in 1..n /\ k \in 1..n
        BY <2>4, <3>1, <1>4 DEF Inv, Apart
      <3>2. CASE i \in 1..n /\ k = n + 1
        BY <3>2, <1>3, <1>4 DEF Inv, Apart
      <3>3. CASE i = n + 1 /\ k \in 1..n
        BY <3>3, <1>3, <1>4 DEF Inv, Apart
      <3>. QED
        BY <2>4, <3>1, <3>2, <3>3, <1>5
    <2>. QED
      BY <1>2, <1>4, <2>2, <2>3, <2>4 DEF Apart, Holds, InFile
  <1>. QED
    BY <1>7, <1>8, <1>9, <1>10 DEF Inv

\* Every step keeps the invariant.
LEMMA NextInv == Inv /\ [Next]_vars => Inv'
  <1>. SUFFICES ASSUME Inv, [Next]_vars
                PROVE  Inv'
    OBVIOUS
  <1>1. ASSUME NEW t \in Thread, Assign(t)
        PROVE  Inv'
    BY <1>1, AssignInv
  <1>2. ASSUME NEW t \in Thread, CountBlock(t)
        PROVE  Inv'
    BY <1>2, CountBlockInv
  <1>3. ASSUME NEW t \in Thread, FlushToStaticStore(t)
        PROVE  Inv'
    BY <1>3, FlushInv
  <1>4. CASE SaveNow
    BY <1>4, SaveInv DEF SaveNow
  <1>5. CASE SaveLast
    BY <1>5, SaveInv DEF SaveLast
  <1>6. CASE MergePair \/ UNCHANGED vars
    <2>1. UNCHANGED <<curves, job, static_record, static_store, files>>
      BY <1>6 DEF MergePair, vars
    <2>. QED
      BY <2>1 DEF Inv, JobsAre, StaticIs, FilesAre, Apart, Holds, InFile
  <1>. QED
    BY <1>1, <1>2, <1>3, <1>4, <1>5, <1>6 DEF Next

\* The invariant gives what a run checks.
LEMMA InvPairs == Inv => PairsAreConsistent
  <1>. SUFFICES ASSUME Inv
                PROVE  PairsAreConsistent
    OBVIOUS
  <1>1. DOMAIN files = 1..Len(files)
    <2>1. PICK S : files \in Seq(S)
      BY DEF Inv, FilesAre
    <2>. QED
      BY <2>1
  <1>2. \A i \in DOMAIN files :
            FoldLeft(LAMBDA n, line : n + line.count, 0, files[i].store)
              = NumberOfCurves(files[i].record)
    BY <1>1 DEF Inv, FilesAre, LinesTotal
  <1>3. \A i \in DOMAIN files : \A j \in DOMAIN files \ {i} : files[i].record \cap files[j].record = {}
    BY <1>1 DEF Inv, Apart
  <1>. QED
    BY <1>2, <1>3 DEF PairsAreConsistent

\* The invariant holds in every behaviour of a node.
THEOREM InvHolds == Spec => []Inv
  <1>. QED
    BY InitInv, NextInv, PTL DEF Spec

-----------------------------------------------------------------------------
(* What follows                                                            *)

\* Each pair of files is complete in itself, whenever the saves fell: the store
\* has as many curves as the blocks of the record, and no two records have a
\* block in common (FileStore::save, Store::flush_static_store).
THEOREM PairsConsistent == Spec => []PairsAreConsistent
  <1>. QED
    BY InvHolds, InvPairs, PTL

\* No block is counted twice: it is yet to come, with one thread, in the static
\* record, or in the record of one file (CurveIterator::step, Thread::main_thread,
\* Store::flush_to_static_store).
THEOREM BlocksInOnePlace == Spec => []Apart
  <1>1. Inv => Apart
    BY DEF Inv
  <1>. QED
    BY <1>1, InvHolds, PTL

\* In memory too: the static store has at all times the curves of the blocks that
\* the static record lists (Store::flush_to_static_store).
THEOREM StaticConsistent == Spec => [](TotalOf(static_store) = NumberOfCurves(static_record))
  <1>1. Inv => TotalOf(static_store) = NumberOfCurves(static_record)
    BY DEF Inv, StaticIs
  <1>. QED
    BY <1>1, InvHolds, PTL
=============================================================================
