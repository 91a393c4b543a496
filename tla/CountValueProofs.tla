-------------------------- MODULE CountValueProofs --------------------------
(***************************************************************************)
(* Proofs about CountValue: as long as no word of a large number has been  *)
(* copied, the counts in memory and in the files are right and every cell  *)
(* has one owner, for any number of keys, curves and saves, any twists and *)
(* any size of small numbers.                                              *)
(*                                                                         *)
(* The operators that run through the keys of a map are recursive          *)
(* functions.  What these compute is shown by induction over the keys.     *)
(***************************************************************************)
EXTENDS CountValue, WellFoundedInduction, TLAPS

-----------------------------------------------------------------------------
(* Induction over the numbers up to a bound                                *)

\* A set that has 0, and n with n - 1, has all numbers.
LEMMA UpTo ==
    ASSUME NEW N \in Nat, NEW S, 0 \in S, \A n \in 1..N : n - 1 \in S => n \in S
    PROVE  \A n \in 0..N : n \in S
  <1>. DEFINE R == OpToRel(<, Nat)
              T == {n \in 0..N : n \notin S}
  <1>1. IsWellFoundedOn(R, Nat)
    BY NatLessThanWellFounded
  <1>. SUFFICES ASSUME T # {} PROVE FALSE
    OBVIOUS
  <1>2. T \subseteq Nat
    OBVIOUS
  <1>. HIDE DEF R, T
  <1>3. PICK x \in T : \A y \in T : ~ (<<y, x>> \in R)
    BY <1>1, <1>2, WFMin
  <1>4. x \in 1..N /\ x \notin S
    BY DEF T
  <1>5. x - 1 \in 0..N /\ x - 1 \notin S
    BY <1>4
  <1>6. <<x - 1, x>> \in R
    BY <1>4, <1>5 DEF R, OpToRel
  <1>. QED
    BY <1>3, <1>5, <1>6 DEF T

\* f[0], ..., f[N] come from a by the functions G[1], ..., G[N].
Iterates(f, N, V, a, G) ==
    f \in [0..N -> V] /\ f[0] = a /\ \A n \in 1..N : f[n] = G[n][f[n - 1]]

LEMMA Recursion ==
    ASSUME NEW N \in Nat, NEW V, NEW a \in V, NEW G \in [1..N -> [V -> V]]
    PROVE  \E f : Iterates(f, N, V, a, G)
  <1>. DEFINE S == {n \in 0..N : \E f : Iterates(f, n, V, a, G)}
  <1>1. 0 \in S
    <2>1. Iterates([k \in 0..0 |-> a], 0, V, a, G)
      BY DEF Iterates
    <2>. QED
      BY <2>1
  <1>2. ASSUME NEW n \in 1..N, n - 1 \in S
        PROVE  n \in S
    <2>1. PICK f : Iterates(f, n - 1, V, a, G)
      BY <1>2
    <2>. DEFINE g == [k \in 0..n |-> IF k = n THEN G[n][f[n - 1]] ELSE f[k]]
    <2>2. f[n - 1] \in V
      BY <2>1 DEF Iterates
    <2>3. G[n][f[n - 1]] \in V
      BY <2>2
    <2>4. g \in [0..n -> V]
      BY <2>1, <2>3 DEF Iterates
    <2>5. g[0] = a
      BY <2>1 DEF Iterates
    <2>6. ASSUME NEW k \in 1..n
          PROVE  g[k] = G[k][g[k - 1]]
      <3>1. CASE k = n
        BY <3>1, <2>1 DEF Iterates
      <3>2. CASE k # n
        BY <3>2, <2>1 DEF Iterates
      <3>. QED
        BY <3>1, <3>2
    <2>7. Iterates(g, n, V, a, G)
      BY <2>4, <2>5, <2>6 DEF Iterates
    <2>. QED
      BY <2>7
  <1>. HIDE DEF S
  <1>3. \A n \in 0..N : n \in S
    BY <1>1, <1>2, UpTo
  <1>. QED
    BY <1>3 DEF S

-----------------------------------------------------------------------------
(* The pool                                                                *)

Words(p) == [cell : 0..Len(p.cells), n : Nat]

Pools == {p \in [cells : Seq(Nat), free : Seq(Nat)] :
             \A i \in DOMAIN p.free : p.free[i] \in DOMAIN p.cells}

\* What an operation on a pool p that yields a word in place of w leads to: only
\* the cell of that word may change, and it is the one that w had, a new one, or
\* the last that was given back.
Gives(p, w, r) ==
    /\ r.pool \in Pools /\ r.word \in Words(r.pool)
    /\ Len(p.cells) <= Len(r.pool.cells)
    /\ \A c \in DOMAIN p.cells : c # r.word.cell => r.pool.cells[c] = p.cells[c]
    /\ \A i \in DOMAIN r.pool.free : i \in DOMAIN p.free /\ r.pool.free[i] = p.free[i]
    /\ IsLarge(r.word) =>
         \/ r.word.cell = w.cell
         \/ r.word.cell \notin DOMAIN p.cells
         \/ \E i \in DOMAIN p.free \ DOMAIN r.pool.free : r.word.cell = p.free[i]

LEMMA PoolIs ==
    ASSUME NEW cells \in Seq(Nat), NEW free \in Seq(Nat),
           \A i \in DOMAIN free : free[i] \in DOMAIN cells
    PROVE  [cells |-> cells, free |-> free] \in Pools
  BY DEF Pools

LEMMA PoolHas ==
    ASSUME NEW p \in Pools
    PROVE  /\ p = [cells |-> p.cells, free |-> p.free]
           /\ p.cells \in Seq(Nat) /\ p.free \in Seq(Nat)
           /\ \A i \in DOMAIN p.free : p.free[i] \in DOMAIN p.cells
  BY DEF Pools

LEMMA AppendIs ==
    ASSUME NEW s \in Seq(Nat), NEW c \in Nat, NEW t, t = Append(s, c)
    PROVE  /\ t \in Seq(Nat)
           /\ \A i \in DOMAIN t : (i \in DOMAIN s /\ t[i] = s[i]) \/ (i = Len(s) + 1 /\ t[i] = c)
  <1>1. t \in Seq(Nat) /\ DOMAIN t = 1 .. Len(s) + 1
    OBVIOUS
  <1>2. DOMAIN s = 1 .. Len(s) /\ Len(s) \in Nat
    OBVIOUS
  <1>3. \A i \in 1 .. Len(s) : t[i] = s[i]
    OBVIOUS
  <1>4. t[Len(s) + 1] = c
    OBVIOUS
  <1>5. ASSUME NEW i \in DOMAIN t
        PROVE  (i \in DOMAIN s /\ t[i] = s[i]) \/ (i = Len(s) + 1 /\ t[i] = c)
    <2>1. i \in 1 .. Len(s) + 1
      BY <1>1
    <2>. QED
      BY <1>2, <1>3, <1>4, <2>1
  <1>. QED
    BY <1>1, <1>5

LEMMA PoolExcept ==
    ASSUME NEW p \in Pools, NEW v
    PROVE  /\ [p EXCEPT !.cells = v] = [cells |-> v, free |-> p.free]
           /\ [p EXCEPT !.free = v] = [cells |-> p.cells, free |-> v]
  BY PoolHas

LEMMA WithLargeIs ==
    ASSUME NEW p \in Pools, NEW n \in Nat, NEW w
    PROVE  Gives(p, w, WithLarge(p, n)) /\ NumberAt(WithLarge(p, n).pool, WithLarge(p, n).word) = n
  <1>. DEFINE r == WithLarge(p, n)
              l == Len(p.free)
  <1>1. CASE p.free = <<>>
    <2>. DEFINE v == Append(p.cells, n)
                c == Len(p.cells) + 1
    <2>1. r = [pool |-> [cells |-> v, free |-> p.free], word |-> CellWord(c)]
      <3>1. [p EXCEPT !.cells = Append(@, n)] = [cells |-> v, free |-> p.free]
        BY PoolExcept
      <3>2. r = [pool |-> [p EXCEPT !.cells = Append(@, n)], word |-> CellWord(c)]
        BY <1>1 DEF WithLarge
      <3>. QED
        BY <3>1, <3>2
    <2>2. /\ v \in Seq(Nat) /\ Len(v) = c /\ DOMAIN v = 1..c /\ v[c] = n /\ c \in Nat \ {0}
          /\ \A d \in DOMAIN p.cells : d # c /\ d \in DOMAIN v /\ v[d] = p.cells[d]
      BY PoolHas
    <2>. HIDE DEF r, v, c
    <2>3. r.pool = [cells |-> v, free |-> p.free] /\ r.word = [cell |-> c, n |-> 0]
          /\ r.pool.cells = v /\ r.pool.free = p.free /\ r.word.cell = c
      BY <2>1 DEF CellWord
    <2>4. r.pool \in Pools
      BY <2>2, <2>3, PoolHas, PoolIs
    <2>5. r.word \in Words(r.pool)
      BY <2>2, <2>3 DEF Words
    <2>6. c \notin DOMAIN p.cells /\ Len(p.cells) <= c
      BY <2>2, PoolHas DEF c
    <2>7. Gives(p, w, r)
      BY <2>2, <2>3, <2>4, <2>5, <2>6 DEF Gives
    <2>8. NumberAt(r.pool, r.word) = n
      BY <2>2, <2>3 DEF NumberAt, IsLarge
    <2>. QED
      BY <2>7, <2>8 DEF r
  <1>2. CASE p.free # <<>>
    <2>1. /\ l \in Nat \ {0} /\ l \in DOMAIN p.free
          /\ p.free[l] \in DOMAIN p.cells
      BY <1>2 DEF Pools
    <2>2. PICK c \in DOMAIN p.cells : c = p.free[l]
      BY <2>1
    <2>. DEFINE u == SubSeq(p.free, 1, l - 1)
                v == [p.cells EXCEPT ![c] = n]
    <2>3. r = [pool |-> [cells |-> v, free |-> u], word |-> CellWord(c)]
      BY <1>2, <2>2 DEF WithLarge
    <2>4. /\ u \in Seq(Nat) /\ DOMAIN u = 1 .. l - 1
          /\ \A i \in DOMAIN u : i \in DOMAIN p.free /\ u[i] = p.free[i]
      BY <2>1 DEF Pools
    <2>5. v \in Seq(Nat) /\ Len(v) = Len(p.cells) /\ DOMAIN v = DOMAIN p.cells /\ v[c] = n
          /\ \A d \in DOMAIN p.cells : d # c => v[d] = p.cells[d]
      BY <2>2 DEF Pools
    <2>. HIDE DEF r, u, v
    <2>6. r.pool = [cells |-> v, free |-> u] /\ r.word = CellWord(c)
          /\ r.pool.free = u /\ r.pool.cells = v
      BY <2>3
    <2>7. r.pool \in Pools
      BY <2>4, <2>5, <2>6, PoolHas, PoolIs
    <2>8. r.word \in Words(r.pool)
      BY <2>2, <2>5, <2>6 DEF Words, CellWord, Pools
    <2>9. l \in DOMAIN p.free \ DOMAIN r.pool.free /\ r.word.cell = p.free[l]
      BY <2>1, <2>2, <2>4, <2>6 DEF CellWord
    <2>10. Gives(p, w, r)
      BY <2>4, <2>5, <2>6, <2>7, <2>8, <2>9 DEF Gives, CellWord, Pools
    <2>11. NumberAt(r.pool, r.word) = n
      BY <2>2, <2>5, <2>6 DEF NumberAt, IsLarge, CellWord, Pools
    <2>. QED
      BY <2>10, <2>11 DEF r
  <1>. QED
    BY <1>1, <1>2

LEMMA NewIs ==
    ASSUME NEW p \in Pools, NEW n \in Nat, NEW w
    PROVE  /\ Gives(p, w, New(p, n)) /\ NumberAt(New(p, n).pool, New(p, n).word) = n
           /\ n <= SmallMax => New(p, n).word = Word(n) /\ New(p, n).pool = p
  <1>1. CASE n <= SmallMax
    BY <1>1 DEF New, Gives, Word, Words, IsLarge, NumberAt, Pools
  <1>2. CASE ~(n <= SmallMax)
    BY <1>2, WithLargeIs DEF New
  <1>. QED
    BY <1>1, <1>2

LEMMA AddIs ==
    ASSUME NEW p \in Pools, NEW n \in Nat, NEW w \in Words(p)
    PROVE  /\ Gives(p, w, Add(p, w, n))
           /\ NumberAt(Add(p, w, n).pool, Add(p, w, n).word) = NumberAt(p, w) + n
  <1>1. CASE IsLarge(w)
    <2>1. PICK c \in DOMAIN p.cells : c = w.cell
      BY <1>1 DEF IsLarge, Words, Pools
    <2>. DEFINE v == [p.cells EXCEPT ![c] = @ + n]
                q == [p EXCEPT !.cells = v]
    <2>2. Add(p, w, n) = [pool |-> q, word |-> w]
      BY <1>1, <2>1 DEF Add
    <2>3. /\ v \in Seq(Nat) /\ Len(v) = Len(p.cells) /\ DOMAIN v = DOMAIN p.cells
          /\ v[c] = p.cells[c] + n
          /\ \A d \in DOMAIN p.cells : d # c => v[d] = p.cells[d]
      BY DEF Pools
    <2>. HIDE DEF v
    <2>4. q = [cells |-> v, free |-> p.free] /\ q.cells = v /\ q.free = p.free
      BY PoolHas
    <2>. HIDE DEF q
    <2>5. q \in Pools /\ w \in Words(q)
      <3>1. q \in Pools
        BY <2>3, <2>4, PoolHas, PoolIs
      <3>. QED
        BY <2>3, <2>4, <3>1 DEF Words
    <2>6. Gives(p, w, [pool |-> q, word |-> w])
      BY <2>1, <2>3, <2>4, <2>5 DEF Gives, Pools
    <2>7. NumberAt(q, w) = NumberAt(p, w) + n
      BY <1>1, <2>1, <2>3, <2>4 DEF NumberAt
    <2>. QED
      BY <2>2, <2>6, <2>7
  <1>2. CASE ~ IsLarge(w)
    <2>1. w.n \in Nat /\ w.n + n \in Nat /\ NumberAt(p, w) = w.n
      BY <1>2 DEF Words, NumberAt
    <2>2. Add(p, w, n) = New(p, w.n + n)
      BY <1>2 DEF Add
    <2>. QED
      BY <2>1, <2>2, NewIs
  <1>. QED
    BY <1>1, <1>2

-----------------------------------------------------------------------------
(* Maps of words                                                           *)

IsMap(p, m) == DOMAIN m \subseteq 1..NbKeys /\ m \in [DOMAIN m -> Words(p)]

\* The count of a key, zero if it has none.
ValueOf(p, m, k) == IF k \in DOMAIN m THEN NumberAt(p, m[k]) ELSE 0

\* Words of different keys, of one map or of two, name different cells.
Apart(m) ==
    \A k, l \in DOMAIN m : IsLarge(m[k]) /\ m[k].cell = m[l].cell => k = l
Disjoint(m, o) ==
    \A k \in DOMAIN m, l \in DOMAIN o : IsLarge(m[k]) => m[k].cell # o[l].cell

\* No cell of a map was given back, and none was given back twice.
NotFree(p, m) ==
    \A k \in DOMAIN m, i \in DOMAIN p.free : p.free[i] # m[k].cell
FreeOnce(p) ==
    \A i, j \in DOMAIN p.free : p.free[i] = p.free[j] => i = j

Typed(p, m, o) == p \in Pools /\ IsMap(p, m) /\ IsMap(p, o)

Sound(p, m, o) ==
    /\ Typed(p, m, o)
    /\ Apart(m) /\ Apart(o) /\ Disjoint(m, o)
    /\ NotFree(p, m) /\ NotFree(p, o) /\ FreeOnce(p)

LEMMA SoundSymmetric ==
    ASSUME NEW p, NEW m, NEW o, Sound(p, m, o)
    PROVE  Sound(p, o, m)
  BY DEF Sound, Typed, Disjoint, IsLarge

LEMMA IsMapGrows ==
    ASSUME NEW p \in Pools, NEW q \in Pools, Len(p.cells) <= Len(q.cells), NEW m, IsMap(p, m)
    PROVE  IsMap(q, m)
  <1>1. Words(p) \subseteq Words(q)
    BY PoolHas DEF Words
  <1>. QED
    BY <1>1 DEF IsMap

\* What becomes of a map when the word of a key is replaced.
Replaced(p, m, key, q, n) ==
    /\ DOMAIN n = DOMAIN m \cup {key}
    /\ \A k \in DOMAIN m : k # key => n[k] = m[k]
    /\ Gives(p, IF key \in DOMAIN m THEN m[key] ELSE Word(0), [pool |-> q, word |-> n[key]])

LEMMA ReplacedTyped ==
    ASSUME NEW p, NEW m, NEW o, Typed(p, m, o), NEW key \in 1..NbKeys, NEW q, NEW n,
           Replaced(p, m, key, q, n), n = [k \in DOMAIN n |-> n[k]]
    PROVE  Typed(q, n, o)
  <1>1. q \in Pools /\ Len(p.cells) <= Len(q.cells) /\ n[key] \in Words(q)
    BY DEF Replaced, Gives
  <1>2. IsMap(q, m) /\ IsMap(q, o)
    BY <1>1, IsMapGrows DEF Typed
  <1>3. \A k \in DOMAIN n : n[k] \in Words(q)
    BY <1>1, <1>2 DEF Replaced, IsMap
  <1>4. DOMAIN n \subseteq 1..NbKeys
    BY <1>2 DEF Replaced, IsMap
  <1>. QED
    BY <1>1, <1>2, <1>3, <1>4 DEF Typed, IsMap

LEMMA ReplacedSound ==
    ASSUME NEW p, NEW m, NEW o, Sound(p, m, o), NEW key \in 1..NbKeys, NEW q, NEW n,
           Replaced(p, m, key, q, n), n = [k \in DOMAIN n |-> n[k]]
    PROVE  /\ Sound(q, n, o)
           /\ \A k \in DOMAIN m : k # key => ValueOf(q, n, k) = ValueOf(p, m, k)
           /\ \A k : ValueOf(q, o, k) = ValueOf(p, o, k)
  <1>1. Typed(q, n, o)
    BY ReplacedTyped DEF Sound
  <1>2. /\ p \in Pools /\ q \in Pools /\ IsMap(p, m) /\ IsMap(p, o)
    BY <1>1 DEF Sound, Typed
  <1>. DEFINE w == n[key]
              old == IF key \in DOMAIN m THEN m[key] ELSE Word(0)
  <1>3. /\ \A c \in DOMAIN p.cells : c # w.cell => q.cells[c] = p.cells[c]
        /\ \A i \in DOMAIN q.free : i \in DOMAIN p.free /\ q.free[i] = p.free[i]
        /\ IsLarge(w) =>
             \/ w.cell = old.cell
             \/ w.cell \notin DOMAIN p.cells
             \/ \E i \in DOMAIN p.free \ DOMAIN q.free : w.cell = p.free[i]
    BY DEF Replaced, Gives
  <1>4. \A c \in DOMAIN p.cells : c \in Nat \ {0}
    BY <1>2, PoolHas
  <1>5. \A k \in DOMAIN m : IsLarge(m[k]) => m[k].cell \in DOMAIN p.cells
    BY <1>2, PoolHas DEF IsMap, Words, IsLarge
  <1>6. \A k \in DOMAIN o : IsLarge(o[k]) => o[k].cell \in DOMAIN p.cells
    BY <1>2, PoolHas DEF IsMap, Words, IsLarge
  <1>. HIDE DEF w, old
  \* The cell of the new word is not that of another one.
  <1>7. ASSUME IsLarge(w), NEW k \in DOMAIN m, k # key
        PROVE  m[k].cell # w.cell
    <2>1. SUFFICES ASSUME m[k].cell = w.cell PROVE FALSE
      OBVIOUS
    <2>2. IsLarge(m[k]) /\ m[k].cell \in DOMAIN p.cells
      BY <1>5, <1>7, <2>1 DEF IsLarge
    <2>3. w.cell # old.cell
      <3>1. CASE key \in DOMAIN m
        BY <1>7, <2>1, <2>2, <3>1 DEF old, Sound, Apart
      <3>2. CASE key \notin DOMAIN m
        BY <1>7, <3>2 DEF old, Word, IsLarge
      <3>. QED
        BY <3>1, <3>2
    <2>. QED
      BY <1>3, <1>7, <2>1, <2>2, <2>3 DEF Sound, NotFree
  <1>8. ASSUME IsLarge(w), NEW k \in DOMAIN o
        PROVE  o[k].cell # w.cell
    <2>1. SUFFICES ASSUME o[k].cell = w.cell PROVE FALSE
      OBVIOUS
    <2>2. IsLarge(o[k]) /\ o[k].cell \in DOMAIN p.cells
      BY <1>6, <1>8, <2>1 DEF IsLarge
    <2>3. w.cell # old.cell
      <3>1. CASE key \in DOMAIN m
        BY <1>8, <2>1, <2>2, <3>1 DEF old, Sound, Disjoint, IsLarge
      <3>2. CASE key \notin DOMAIN m
        BY <1>8, <3>2 DEF old, Word, IsLarge
      <3>. QED
        BY <3>1, <3>2
    <2>. QED
      BY <1>3, <1>8, <2>1, <2>2, <2>3 DEF Sound, NotFree
  <1>9. ASSUME IsLarge(w), NEW i \in DOMAIN q.free
        PROVE  q.free[i] # w.cell
    <2>1. i \in DOMAIN p.free /\ q.free[i] = p.free[i] /\ p.free[i] \in DOMAIN p.cells
      BY <1>2, <1>3, PoolHas
    <2>2. p.free[i] # old.cell
      <3>1. CASE key \in DOMAIN m
        BY <2>1, <3>1 DEF old, Sound, NotFree
      <3>2. CASE key \notin DOMAIN m
        BY <1>4, <2>1, <3>2 DEF old, Word
      <3>. QED
        BY <3>1, <3>2
    <2>3. \A j \in DOMAIN p.free \ DOMAIN q.free : p.free[j] # p.free[i]
      BY <2>1, <1>9 DEF Sound, FreeOnce
    <2>. QED
      BY <1>3, <1>9, <2>1, <2>2, <2>3
  <1>10. /\ DOMAIN n = DOMAIN m \cup {key}
         /\ \A k \in DOMAIN m : k # key => n[k] = m[k]
         /\ n[key] = w
    BY DEF Replaced, w
  <1>11. Apart(n)
    <2>. SUFFICES ASSUME NEW k \in DOMAIN n, NEW l \in DOMAIN n,
                         IsLarge(n[k]), n[k].cell = n[l].cell
                  PROVE  k = l
      BY DEF Apart
    <2>1. IsLarge(n[l])
      BY DEF IsLarge
    <2>2. CASE k = key /\ l # key
      BY <1>7, <1>10, <2>2
    <2>3. CASE k # key /\ l = key
      BY <1>7, <1>10, <2>1, <2>3
    <2>4. CASE k # key /\ l # key
      BY <1>10, <2>4 DEF Sound, Apart
    <2>. QED
      BY <2>2, <2>3, <2>4
  <1>12. Disjoint(n, o)
    BY <1>8, <1>10 DEF Disjoint, Sound
  <1>13. NotFree(q, n)
    <2>. SUFFICES ASSUME NEW k \in DOMAIN n, NEW i \in DOMAIN q.free
                  PROVE  q.free[i] # n[k].cell
      BY DEF NotFree
    <2>1. CASE k # key
      BY <1>3, <1>10, <2>1 DEF Sound, NotFree
    <2>2. CASE k = key /\ IsLarge(w)
      BY <1>9, <1>10, <2>2
    <2>3. CASE k = key /\ ~ IsLarge(w)
      <3>1. q.free[i] \in DOMAIN p.cells
        BY <1>2, <1>3, PoolHas
      <3>. QED
        BY <1>4, <1>10, <2>3, <3>1 DEF IsLarge
    <2>. QED
      BY <2>1, <2>2, <2>3
  <1>14. NotFree(q, o) /\ FreeOnce(q)
    BY <1>3 DEF Sound, NotFree, FreeOnce
  <1>15. \A k \in DOMAIN m : k # key => ValueOf(q, n, k) = ValueOf(p, m, k)
    <2>. SUFFICES ASSUME NEW k \in DOMAIN m, k # key
                  PROVE  NumberAt(q, m[k]) = NumberAt(p, m[k])
      BY <1>10 DEF ValueOf
    <2>1. CASE IsLarge(m[k])
      <3>1. m[k].cell # w.cell
        BY <1>7, <2>1 DEF IsLarge
      <3>. QED
        BY <1>3, <1>5, <2>1, <3>1 DEF NumberAt
    <2>2. CASE ~ IsLarge(m[k])
      BY <2>2 DEF NumberAt
    <2>. QED
      BY <2>1, <2>2
  <1>16. ASSUME NEW k PROVE ValueOf(q, o, k) = ValueOf(p, o, k)
    <2>. SUFFICES ASSUME k \in DOMAIN o
                  PROVE  NumberAt(q, o[k]) = NumberAt(p, o[k])
      BY DEF ValueOf
    <2>1. CASE IsLarge(o[k])
      <3>1. o[k].cell # w.cell
        BY <1>8, <2>1 DEF IsLarge
      <3>. QED
        BY <1>3, <1>6, <2>1, <3>1 DEF NumberAt
    <2>2. CASE ~ IsLarge(o[k])
      BY <2>2 DEF NumberAt
    <2>. QED
      BY <2>1, <2>2
  <1>. QED
    BY <1>1, <1>11, <1>12, <1>13, <1>14, <1>15, <1>16 DEF Sound

-----------------------------------------------------------------------------
(* One count                                                               *)

LEMMA IncreaseIs ==
    ASSUME NEW p \in Pools, NEW m, IsMap(p, m), NEW key \in 1..NbKeys, NEW n \in Nat, NEW r,
           r = Increase([pool |-> p, map |-> m], key, n)
    PROVE  /\ Replaced(p, m, key, r.pool, r.map)
           /\ r.map = [k \in DOMAIN r.map |-> r.map[k]]
           /\ r = [pool |-> r.pool, map |-> r.map]
           /\ ValueOf(r.pool, r.map, key) = ValueOf(p, m, key) + n
  <1>. DEFINE old == IF key \in DOMAIN m THEN m[key] ELSE Word(0)
              sum == Add(p, old, n)
  <1>1. r = [pool |-> sum.pool, map |-> With(m, key, sum.word)]
    BY DEF Increase
  <1>2. old \in Words(p)
    BY PoolHas DEF IsMap, Words, Word
  <1>3. NumberAt(p, old) = ValueOf(p, m, key)
    BY DEF ValueOf, Word, NumberAt, IsLarge
  <1>. HIDE DEF old
  <1>4. Gives(p, old, sum) /\ NumberAt(sum.pool, sum.word) = ValueOf(p, m, key) + n
    BY <1>2, <1>3, AddIs
  <1>. HIDE DEF sum
  <1>5. /\ r.pool = sum.pool /\ r.map = With(m, key, sum.word)
        /\ r = [pool |-> r.pool, map |-> r.map]
    BY <1>1
  <1>6. /\ DOMAIN r.map = DOMAIN m \cup {key} /\ r.map[key] = sum.word
        /\ \A k \in DOMAIN m : k # key => r.map[k] = m[k]
        /\ r.map = [k \in DOMAIN r.map |-> r.map[k]]
    BY <1>5 DEF With
  <1>7. Gives(p, old, [pool |-> r.pool, word |-> r.map[key]])
    BY <1>4, <1>5, <1>6 DEF Gives
  <1>. QED
    BY <1>4, <1>5, <1>6, <1>7 DEF Replaced, ValueOf, old

\* One key may be new.
Adds(n, m, key) == DOMAIN n = DOMAIN m \cup {key}

LEMMA IncreaseTyped ==
    ASSUME NEW p, NEW m, NEW o, Typed(p, m, o), NEW key \in 1..NbKeys, NEW n \in Nat, NEW r,
           r = Increase([pool |-> p, map |-> m], key, n)
    PROVE  /\ Typed(r.pool, r.map, o) /\ Adds(r.map, m, key)
           /\ r = [pool |-> r.pool, map |-> r.map]
  <1>1. /\ Replaced(p, m, key, r.pool, r.map) /\ r.map = [k \in DOMAIN r.map |-> r.map[k]]
        /\ r = [pool |-> r.pool, map |-> r.map]
    BY IncreaseIs DEF Typed
  <1>2. Typed(r.pool, r.map, o)
    BY <1>1, ReplacedTyped
  <1>. QED
    BY <1>1, <1>2 DEF Replaced, Adds

\* The counts of the other keys of a map, and those of another map, stay.
SameButAt(q, n, p, m, key) ==
    \A k \in 1..NbKeys : k # key => ValueOf(q, n, k) = ValueOf(p, m, k)
Same(q, p, o) == \A k : ValueOf(q, o, k) = ValueOf(p, o, k)

LEMMA IncreaseSound ==
    ASSUME NEW p, NEW m, NEW o, Sound(p, m, o), NEW key \in 1..NbKeys, NEW n \in Nat, NEW r,
           r = Increase([pool |-> p, map |-> m], key, n)
    PROVE  /\ Sound(r.pool, r.map, o)
           /\ r = [pool |-> r.pool, map |-> r.map]
           /\ ValueOf(r.pool, r.map, key) = ValueOf(p, m, key) + n
           /\ SameButAt(r.pool, r.map, p, m, key)
           /\ Same(r.pool, p, o)
  <1>1. /\ Replaced(p, m, key, r.pool, r.map) /\ r.map = [k \in DOMAIN r.map |-> r.map[k]]
        /\ r = [pool |-> r.pool, map |-> r.map]
        /\ ValueOf(r.pool, r.map, key) = ValueOf(p, m, key) + n
    BY IncreaseIs DEF Sound, Typed
  <1>2. /\ Sound(r.pool, r.map, o)
        /\ \A k \in DOMAIN m : k # key => ValueOf(r.pool, r.map, k) = ValueOf(p, m, k)
        /\ \A k : ValueOf(r.pool, o, k) = ValueOf(p, o, k)
    BY <1>1, ReplacedSound
  <1>3. DOMAIN r.map = DOMAIN m \cup {key}
    BY <1>1 DEF Replaced
  <1>4. \A k \in 1..NbKeys : k # key /\ k \notin DOMAIN m =>
            ValueOf(r.pool, r.map, k) = ValueOf(p, m, k)
    BY <1>3 DEF ValueOf
  <1>. QED
    BY <1>1, <1>2, <1>3, <1>4 DEF SameButAt, Same

\* A small number is put in place of none.
LEMMA PutIs ==
    ASSUME NEW p \in Pools, NEW m, IsMap(p, m), NEW key \in 1..NbKeys, NEW n \in Nat, NEW r,
           r = Put([pool |-> p, map |-> m], key, n)
    PROVE  /\ Replaced(p, m, key, r.pool, r.map)
           /\ r.map = [k \in DOMAIN r.map |-> r.map[k]]
           /\ r = [pool |-> p, map |-> r.map]
           /\ ValueOf(r.pool, r.map, key) = n
  <1>1. r = [pool |-> p, map |-> With(m, key, Word(n))]
    BY DEF Put
  <1>2. /\ DOMAIN r.map = DOMAIN m \cup {key} /\ r.map[key] = Word(n)
        /\ \A k \in DOMAIN m : k # key => r.map[k] = m[k]
        /\ r.map = [k \in DOMAIN r.map |-> r.map[k]]
        /\ r = [pool |-> p, map |-> r.map] /\ r.pool = p
    BY <1>1 DEF With
  <1>3. Word(n) \in Words(p) /\ ~ IsLarge(Word(n)) /\ NumberAt(p, Word(n)) = n
    BY PoolHas DEF Word, Words, IsLarge, NumberAt
  <1>4. Gives(p, IF key \in DOMAIN m THEN m[key] ELSE Word(0), [pool |-> p, word |-> Word(n)])
    BY <1>3, PoolHas DEF Gives
  <1>. QED
    BY <1>2, <1>3, <1>4 DEF Replaced, ValueOf

LEMMA PutTyped ==
    ASSUME NEW p, NEW m, NEW o, Typed(p, m, o), NEW key \in 1..NbKeys, NEW n \in Nat, NEW r,
           r = Put([pool |-> p, map |-> m], key, n)
    PROVE  /\ Typed(r.pool, r.map, o) /\ Adds(r.map, m, key)
           /\ r = [pool |-> r.pool, map |-> r.map]
  <1>1. /\ Replaced(p, m, key, r.pool, r.map) /\ r.map = [k \in DOMAIN r.map |-> r.map[k]]
        /\ r = [pool |-> p, map |-> r.map]
    BY PutIs DEF Typed
  <1>2. Typed(r.pool, r.map, o)
    BY <1>1, ReplacedTyped
  <1>. QED
    BY <1>1, <1>2 DEF Replaced, Adds

LEMMA PutSound ==
    ASSUME NEW p, NEW m, NEW o, Sound(p, m, o), NEW key \in 1..NbKeys, NEW n \in Nat, NEW r,
           r = Put([pool |-> p, map |-> m], key, n)
    PROVE  /\ Sound(r.pool, r.map, o)
           /\ r = [pool |-> r.pool, map |-> r.map]
           /\ ValueOf(r.pool, r.map, key) = n
           /\ SameButAt(r.pool, r.map, p, m, key)
           /\ Same(r.pool, p, o)
  <1>1. /\ Replaced(p, m, key, r.pool, r.map) /\ r.map = [k \in DOMAIN r.map |-> r.map[k]]
        /\ r = [pool |-> p, map |-> r.map]
        /\ ValueOf(r.pool, r.map, key) = n
    BY PutIs DEF Sound, Typed
  <1>2. /\ Sound(r.pool, r.map, o)
        /\ \A k \in DOMAIN m : k # key => ValueOf(r.pool, r.map, k) = ValueOf(p, m, k)
        /\ \A k : ValueOf(r.pool, o, k) = ValueOf(p, o, k)
    BY <1>1, ReplacedSound
  <1>3. DOMAIN r.map = DOMAIN m \cup {key}
    BY <1>1 DEF Replaced
  <1>4. \A k \in 1..NbKeys : k # key /\ k \notin DOMAIN m =>
            ValueOf(r.pool, r.map, k) = ValueOf(p, m, k)
    BY <1>3 DEF ValueOf
  <1>. QED
    BY <1>1, <1>2, <1>3, <1>4 DEF SameButAt, Same

-----------------------------------------------------------------------------
(* Giving cells back                                                       *)

LEMMA ClearIs ==
    ASSUME NEW p \in Pools, NEW w \in Words(p)
    PROVE  Clear(p, w) \in Pools /\ Clear(p, w).cells = p.cells
  <1>1. CASE IsLarge(w)
    <2>. DEFINE u == Append(p.free, w.cell)
    <2>1. Clear(p, w) = [cells |-> p.cells, free |-> u]
      <3>1. Clear(p, w) = [p EXCEPT !.free = Append(@, w.cell)]
        BY <1>1 DEF Clear
      <3>2. [p EXCEPT !.free = u] = [cells |-> p.cells, free |-> u]
        BY PoolExcept
      <3>. QED
        BY <3>1, <3>2
    <2>2. w.cell \in DOMAIN p.cells /\ w.cell \in Nat
      BY <1>1, PoolHas DEF IsLarge, Words
    <2>3. u \in Seq(Nat) /\ \A i \in DOMAIN u : u[i] \in DOMAIN p.cells
      BY <2>2, PoolHas
    <2>. HIDE DEF u
    <2>4. [cells |-> p.cells, free |-> u] \in Pools
      BY <2>3, PoolHas, PoolIs
    <2>. QED
      BY <2>1, <2>4
  <1>2. CASE ~ IsLarge(w)
    BY <1>2 DEF Clear
  <1>. QED
    BY <1>1, <1>2

\* The map m without a key.
Without(m, key) == [k \in DOMAIN m \ {key} |-> m[k]]

LEMMA ClearTyped ==
    ASSUME NEW p, NEW m, NEW o, Typed(p, m, o), NEW key \in DOMAIN m
    PROVE  Typed(Clear(p, m[key]), Without(m, key), o)
  <1>1. p \in Pools /\ m[key] \in Words(p) /\ IsMap(p, m) /\ IsMap(p, o)
    BY DEF Typed, IsMap
  <1>2. Clear(p, m[key]) \in Pools /\ Clear(p, m[key]).cells = p.cells
    BY <1>1, ClearIs
  <1>3. Words(Clear(p, m[key])) = Words(p)
    BY <1>2 DEF Words
  <1>. QED
    BY <1>1, <1>2, <1>3 DEF Typed, IsMap, Without

LEMMA ClearSound ==
    ASSUME NEW p, NEW m, NEW o, Sound(p, m, o), NEW key \in DOMAIN m
    PROVE  Sound(Clear(p, m[key]), Without(m, key), o)
  <1>. DEFINE q == Clear(p, m[key])
              n == Without(m, key)
  <1>1. Typed(q, n, o)
    BY ClearTyped DEF Sound
  <1>2. /\ DOMAIN n = DOMAIN m \ {key} /\ \A k \in DOMAIN n : n[k] = m[k]
    BY DEF Without
  <1>3. CASE ~ IsLarge(m[key])
    <2>1. q = p
      BY <1>3 DEF Clear
    <2>. HIDE DEF q, n
    <2>2. Apart(n) /\ Disjoint(n, o) /\ NotFree(q, n)
      BY <1>2, <2>1 DEF Sound, Apart, Disjoint, NotFree
    <2>3. Sound(q, n, o)
      BY <1>1, <2>1, <2>2 DEF Sound
    <2>. QED
      BY <2>3 DEF q, n
  <1>4. CASE IsLarge(m[key])
    <2>. DEFINE c == m[key].cell
    <2>1. q = [p EXCEPT !.free = Append(@, c)]
      BY <1>4 DEF Clear
    <2>2. p \in Pools /\ c \in Nat /\ IsMap(p, o)
      BY DEF Sound, Typed, IsMap, Words
    <2>3. q.free = Append(p.free, c) /\ p.free \in Seq(Nat)
      BY <2>1, <2>2, PoolHas
    <2>. HIDE DEF q, n, c
    <2>4. \A i \in DOMAIN q.free : \/ i \in DOMAIN p.free /\ q.free[i] = p.free[i]
                                   \/ i = Len(p.free) + 1 /\ q.free[i] = c
      BY <2>2, <2>3, AppendIs
    <2>5. \A i \in DOMAIN p.free : p.free[i] # c
      BY DEF Sound, NotFree, c
    <2>6. \A k \in DOMAIN n : m[k].cell # c
      BY <1>2, <1>4 DEF Sound, Apart, c
    <2>7. \A k \in DOMAIN o : o[k].cell # c
      BY <1>4 DEF Sound, Disjoint, c
    <2>8. Apart(n) /\ Disjoint(n, o) /\ Apart(o)
      BY <1>2 DEF Sound, Apart, Disjoint
    <2>9. NotFree(q, n)
      BY <1>2, <2>4, <2>6 DEF Sound, NotFree
    <2>10. NotFree(q, o)
      BY <2>4, <2>7 DEF Sound, NotFree
    <2>11. FreeOnce(q)
      BY <2>4, <2>5 DEF Sound, FreeOnce
    <2>. QED
      BY <1>1, <2>8, <2>9, <2>10, <2>11 DEF Sound, q, n
  <1>. QED
    BY <1>3, <1>4

\* The recursive function of Cleared is what its definition says.
LEMMA ClearedRecursion ==
    ASSUME NEW p \in Pools, NEW m, IsMap(p, m)
    PROVE  \E h : /\ h[0] = p
                  /\ \A key \in 1..NbKeys :
                        h[key] = IF key \in DOMAIN m THEN Clear(h[key - 1], m[key])
                                 ELSE h[key - 1]
                  /\ Cleared(p, m) = h[NbKeys]
  <1>. DEFINE V == {q \in Pools : q.cells = p.cells}
              G == [key \in 1..NbKeys |->
                       [q \in V |-> IF key \in DOMAIN m THEN Clear(q, m[key]) ELSE q]]
              h == CHOOSE h : h = [key \in 0..NbKeys |->
                                      IF key = 0 THEN p
                                      ELSE IF key \in DOMAIN m THEN Clear(h[key - 1], m[key])
                                      ELSE h[key - 1]]
  <1>1. NbKeys \in Nat
    BY CountValueAssumption
  <1>2. ASSUME NEW q \in V, NEW key \in DOMAIN m
        PROVE  Clear(q, m[key]) \in V
    <2>1. m[key] \in Words(q)
      BY DEF IsMap, Words
    <2>. QED
      BY <2>1, ClearIs
  <1>3. G \in [1..NbKeys -> [V -> V]]
    <2>. HIDE DEF V
    <2>. QED
      BY <1>2
  <1>4. p \in V
    OBVIOUS
  <1>5. PICK f : Iterates(f, NbKeys, V, p, G)
    <2>. HIDE DEF V, G
    <2>. QED
      BY <1>1, <1>3, <1>4, Recursion
  <1>6. f = [key \in 0..NbKeys |-> IF key = 0 THEN p
                                   ELSE IF key \in DOMAIN m THEN Clear(f[key - 1], m[key])
                                   ELSE f[key - 1]]
    <2>. HIDE DEF V
    <2>1. f \in [0..NbKeys -> V] /\ f[0] = p /\ \A n \in 1..NbKeys : f[n] = G[n][f[n - 1]]
      BY <1>5 DEF Iterates
    <2>2. ASSUME NEW key \in 1..NbKeys
          PROVE  f[key] = IF key \in DOMAIN m THEN Clear(f[key - 1], m[key]) ELSE f[key - 1]
      <3>1. f[key - 1] \in V
        BY <1>1, <2>1
      <3>. QED
        BY <2>1, <3>1
    <2>. HIDE DEF G
    <2>. QED
      BY <1>1, <2>1, <2>2
  <1>7. h = [key \in 0..NbKeys |-> IF key = 0 THEN p
                                   ELSE IF key \in DOMAIN m THEN Clear(h[key - 1], m[key])
                                   ELSE h[key - 1]]
    BY <1>6
  <1>8. Cleared(p, m) = h[NbKeys]
    BY DEF Cleared
  <1>. HIDE DEF h, V, G
  <1>9. h[0] = p /\ \A key \in 1..NbKeys :
            h[key] = IF key \in DOMAIN m THEN Clear(h[key - 1], m[key]) ELSE h[key - 1]
    BY <1>1, <1>7
  <1>. QED
    BY <1>8, <1>9

\* What is left of a map after the first keys.
Rest(m, key) == [k \in {l \in DOMAIN m : l > key} |-> m[k]]

LEMMA RestIs ==
    ASSUME NEW p, NEW m, IsMap(p, m)
    PROVE  /\ Rest(m, 0) = m
           /\ Rest(m, NbKeys) = NoCounts
           /\ \A key \in 1..NbKeys :
                IF key \in DOMAIN m
                THEN /\ key \in DOMAIN Rest(m, key - 1) /\ Rest(m, key - 1)[key] = m[key]
                     /\ Rest(m, key) = Without(Rest(m, key - 1), key)
                ELSE Rest(m, key) = Rest(m, key - 1)
  <1>1. NbKeys \in Nat /\ DOMAIN m \subseteq 1..NbKeys /\ m = [k \in DOMAIN m |-> m[k]]
    BY CountValueAssumption DEF IsMap
  <1>2. Rest(m, 0) = m
    <2>1. {l \in DOMAIN m : l > 0} = DOMAIN m
      BY <1>1
    <2>. QED
      BY <1>1, <2>1 DEF Rest
  <1>3. Rest(m, NbKeys) = NoCounts
    <2>1. {l \in DOMAIN m : l > NbKeys} = {}
      BY <1>1
    <2>. QED
      BY <2>1 DEF Rest, NoCounts
  <1>4. ASSUME NEW key \in 1..NbKeys, key \in DOMAIN m
        PROVE  /\ key \in DOMAIN Rest(m, key - 1) /\ Rest(m, key - 1)[key] = m[key]
               /\ Rest(m, key) = Without(Rest(m, key - 1), key)
    <2>1. {l \in DOMAIN m : l > key} = {l \in DOMAIN m : l > key - 1} \ {key}
      BY <1>1
    <2>2. key > key - 1
      OBVIOUS
    <2>. QED
      BY <1>4, <2>1, <2>2 DEF Rest, Without
  <1>5. ASSUME NEW key \in 1..NbKeys, key \notin DOMAIN m
        PROVE  Rest(m, key) = Rest(m, key - 1)
    <2>1. {l \in DOMAIN m : l > key} = {l \in DOMAIN m : l > key - 1}
      BY <1>1, <1>5
    <2>. QED
      BY <2>1 DEF Rest
  <1>. QED
    BY <1>2, <1>3, <1>4, <1>5

LEMMA ClearedTyped ==
    ASSUME NEW p, NEW m, NEW o, Typed(p, m, o)
    PROVE  Typed(Cleared(p, m), NoCounts, o)
  <1>1. p \in Pools /\ IsMap(p, m) /\ NbKeys \in Nat
    BY CountValueAssumption DEF Typed
  <1>2. PICK h : /\ h[0] = p
                 /\ \A key \in 1..NbKeys :
                       h[key] = IF key \in DOMAIN m THEN Clear(h[key - 1], m[key])
                                ELSE h[key - 1]
                 /\ Cleared(p, m) = h[NbKeys]
    BY <1>1, ClearedRecursion
  <1>. DEFINE S == {key \in 0..NbKeys : Typed(h[key], Rest(m, key), o)}
  <1>3. 0 \in S
    BY <1>1, <1>2, RestIs
  <1>4. ASSUME NEW key \in 1..NbKeys, key - 1 \in S
        PROVE  key \in S
    <2>1. Typed(h[key - 1], Rest(m, key - 1), o)
      BY <1>4
    <2>2. CASE key \in DOMAIN m
      <3>1. /\ key \in DOMAIN Rest(m, key - 1) /\ Rest(m, key - 1)[key] = m[key]
            /\ Rest(m, key) = Without(Rest(m, key - 1), key)
        BY <1>1, <2>2, RestIs
      <3>2. Typed(Clear(h[key - 1], m[key]), Rest(m, key), o)
        BY <2>1, <3>1, ClearTyped
      <3>. QED
        BY <1>2, <2>2, <3>2
    <2>3. CASE key \notin DOMAIN m
      BY <1>1, <1>2, <2>1, <2>3, RestIs
    <2>. QED
      BY <2>2, <2>3
  <1>. HIDE DEF S
  <1>5. \A key \in 0..NbKeys : key \in S
    BY <1>1, <1>3, <1>4, UpTo
  <1>6. Typed(h[NbKeys], Rest(m, NbKeys), o)
    BY <1>1, <1>5 DEF S
  <1>. QED
    BY <1>1, <1>2, <1>6, RestIs

LEMMA ClearedSound ==
    ASSUME NEW p, NEW m, NEW o, Sound(p, m, o)
    PROVE  /\ Sound(Cleared(p, m), NoCounts, o)
           /\ \A k : ValueOf(Cleared(p, m), o, k) = ValueOf(p, o, k)
  <1>1. p \in Pools /\ IsMap(p, m) /\ NbKeys \in Nat
    BY CountValueAssumption DEF Sound, Typed
  <1>2. PICK h : /\ h[0] = p
                 /\ \A key \in 1..NbKeys :
                       h[key] = IF key \in DOMAIN m THEN Clear(h[key - 1], m[key])
                                ELSE h[key - 1]
                 /\ Cleared(p, m) = h[NbKeys]
    BY <1>1, ClearedRecursion
  <1>. DEFINE S == {key \in 0..NbKeys : Sound(h[key], Rest(m, key), o) /\ h[key].cells = p.cells}
  <1>3. 0 \in S
    BY <1>1, <1>2, RestIs
  <1>4. ASSUME NEW key \in 1..NbKeys, key - 1 \in S
        PROVE  key \in S
    <2>1. Sound(h[key - 1], Rest(m, key - 1), o) /\ h[key - 1].cells = p.cells
      BY <1>4
    <2>2. CASE key \in DOMAIN m
      <3>1. /\ key \in DOMAIN Rest(m, key - 1) /\ Rest(m, key - 1)[key] = m[key]
            /\ Rest(m, key) = Without(Rest(m, key - 1), key)
        BY <1>1, <2>2, RestIs
      <3>2. Sound(Clear(h[key - 1], m[key]), Rest(m, key), o)
        BY <2>1, <3>1, ClearSound
      <3>3. h[key - 1] \in Pools /\ m[key] \in Words(h[key - 1])
        BY <2>1, <3>1 DEF Sound, Typed, IsMap
      <3>4. Clear(h[key - 1], m[key]).cells = p.cells
        BY <2>1, <3>3, ClearIs
      <3>. QED
        BY <1>2, <2>2, <3>2, <3>4
    <2>3. CASE key \notin DOMAIN m
      BY <1>1, <1>2, <2>1, <2>3, RestIs
    <2>. QED
      BY <2>2, <2>3
  <1>. HIDE DEF S
  <1>5. \A key \in 0..NbKeys : key \in S
    BY <1>1, <1>3, <1>4, UpTo
  <1>6. Sound(h[NbKeys], Rest(m, NbKeys), o) /\ h[NbKeys].cells = p.cells
    BY <1>1, <1>5 DEF S
  <1>7. \A k : ValueOf(h[NbKeys], o, k) = ValueOf(p, o, k)
    BY <1>6 DEF ValueOf, NumberAt
  <1>. QED
    BY <1>1, <1>2, <1>6, <1>7, RestIs

-----------------------------------------------------------------------------
(* Merging a map into another                                              *)

LEMMA WithIs ==
    ASSUME NEW p \in Pools, NEW m, IsMap(p, m), NEW key \in 1..NbKeys, NEW w \in Words(p), NEW n,
           n = With(m, key, w)
    PROVE  /\ IsMap(p, n) /\ n = [k \in DOMAIN n |-> n[k]]
           /\ DOMAIN n = DOMAIN m \cup {key} /\ n[key] = w
           /\ \A k \in DOMAIN m : k # key => n[k] = m[k]
           /\ ~ IsLarge(w) => Replaced(p, m, key, p, n)
  <1>1. /\ DOMAIN n = DOMAIN m \cup {key} /\ n[key] = w
        /\ \A k \in DOMAIN m : k # key => n[k] = m[k]
        /\ n = [k \in DOMAIN n |-> n[k]]
    BY DEF With
  <1>2. IsMap(p, n)
    BY <1>1 DEF IsMap
  <1>3. ASSUME ~ IsLarge(w)
        PROVE  Gives(p, IF key \in DOMAIN m THEN m[key] ELSE Word(0), [pool |-> p, word |-> w])
    BY <1>3, PoolHas DEF Gives
  <1>. QED
    BY <1>1, <1>2, <1>3 DEF Replaced

\* One of the keys of the map that is merged.
FlushedKey(state, map, m, key) ==
    IF key \notin DOMAIN m THEN state
    ELSE IF key \in DOMAIN map THEN Increase(state, key, NumberAt(state.pool, m[key]))
    ELSE [state EXCEPT !.map = With(@, key, m[key])]

AnyMap == UNION {[D -> [cell : Nat, n : Nat]] : D \in SUBSET (1..NbKeys)}
States(o) == {s \in [pool : Pools, map : AnyMap] : Typed(s.pool, s.map, o)}

LEMMA StateIs ==
    ASSUME NEW p, NEW m, NEW o, Typed(p, m, o)
    PROVE  [pool |-> p, map |-> m] \in States(o)
  <1>1. m \in [DOMAIN m -> [cell : Nat, n : Nat]]
    BY DEF Typed, IsMap, Words
  <1>2. m \in AnyMap
    BY <1>1 DEF AnyMap, Typed, IsMap
  <1>. QED
    BY <1>2 DEF States, Typed

LEMMA NumberIsNat ==
    ASSUME NEW p \in Pools, NEW w \in Words(p)
    PROVE  NumberAt(p, w) \in Nat
  BY PoolHas DEF NumberAt, Words, IsLarge

LEMMA FlushedKeyTyped ==
    ASSUME NEW m, NEW s \in States(m), NEW map, NEW key \in 1..NbKeys
    PROVE  FlushedKey(s, map, m, key) \in States(m)
  <1>1. /\ s = [pool |-> s.pool, map |-> s.map] /\ Typed(s.pool, s.map, m)
        /\ s.pool \in Pools /\ IsMap(s.pool, s.map) /\ IsMap(s.pool, m)
    BY DEF States, Typed
  <1>. DEFINE r == FlushedKey(s, map, m, key)
  <1>2. CASE key \notin DOMAIN m
    BY <1>2 DEF FlushedKey
  <1>3. CASE key \in DOMAIN m /\ key \in DOMAIN map
    <2>1. m[key] \in Words(s.pool)
      BY <1>1, <1>3 DEF IsMap
    <2>2. PICK n \in Nat : n = NumberAt(s.pool, m[key])
      BY <1>1, <2>1, NumberIsNat
    <2>3. r = Increase([pool |-> s.pool, map |-> s.map], key, n)
      BY <1>1, <1>3, <2>2 DEF FlushedKey
    <2>. HIDE DEF r
    <2>4. Typed(r.pool, r.map, m) /\ r = [pool |-> r.pool, map |-> r.map]
      BY <1>1, <2>3, IncreaseTyped
    <2>5. r \in States(m)
      BY <2>4, StateIs
    <2>. QED
      BY <2>5 DEF r
  <1>4. CASE key \in DOMAIN m /\ key \notin DOMAIN map
    <2>1. m[key] \in Words(s.pool)
      BY <1>1, <1>4 DEF IsMap
    <2>. DEFINE n == With(s.map, key, m[key])
    <2>2. r = [pool |-> s.pool, map |-> n]
      BY <1>1, <1>4 DEF FlushedKey
    <2>. HIDE DEF n
    <2>3. IsMap(s.pool, n)
      BY <1>1, <2>1, WithIs DEF n
    <2>4. Typed(s.pool, n, m)
      BY <1>1, <2>3 DEF Typed
    <2>. QED
      BY <2>2, <2>4, StateIs
  <1>. QED
    BY <1>2, <1>3, <1>4

LEMMA FlushedRecursion ==
    ASSUME NEW p, NEW a, NEW m, Typed(p, a, m)
    PROVE  \E h : /\ h \in [0..NbKeys -> States(m)]
                  /\ h[0] = [pool |-> p, map |-> a]
                  /\ \A key \in 1..NbKeys : h[key] = FlushedKey(h[key - 1], a, m, key)
                  /\ Flushed([pool |-> p, map |-> a], m) = h[NbKeys]
  <1>. DEFINE V == States(m)
              s == [pool |-> p, map |-> a]
              G == [key \in 1..NbKeys |-> [r \in V |-> FlushedKey(r, a, m, key)]]
              h == CHOOSE h : h = [key \in 0..NbKeys |->
                                      IF key = 0 THEN s
                                      ELSE IF key \notin DOMAIN m THEN h[key - 1]
                                      ELSE IF key \in DOMAIN s.map
                                      THEN Increase(h[key - 1], key, NumberAt(h[key - 1].pool, m[key]))
                                      ELSE [h[key - 1] EXCEPT !.map = With(@, key, m[key])]]
  <1>1. NbKeys \in Nat
    BY CountValueAssumption
  <1>2. s \in V
    BY StateIs
  <1>3. G \in [1..NbKeys -> [V -> V]]
    <2>1. \A r \in V, key \in 1..NbKeys : FlushedKey(r, a, m, key) \in V
      BY FlushedKeyTyped
    <2>. HIDE DEF V
    <2>. QED
      BY <2>1
  <1>4. Flushed(s, m) = h[NbKeys]
    BY DEF Flushed
  <1>5. DOMAIN s.map = DOMAIN a
    OBVIOUS
  <1>. HIDE DEF s
  <1>6. PICK f : Iterates(f, NbKeys, V, s, G)
    <2>. HIDE DEF V, G
    <2>. QED
      BY <1>1, <1>2, <1>3, Recursion
  <1>7. /\ f \in [0..NbKeys -> V] /\ f[0] = s
        /\ \A key \in 1..NbKeys : f[key] = FlushedKey(f[key - 1], a, m, key)
    <2>. HIDE DEF V
    <2>1. f \in [0..NbKeys -> V] /\ f[0] = s /\ \A n \in 1..NbKeys : f[n] = G[n][f[n - 1]]
      BY <1>6 DEF Iterates
    <2>2. ASSUME NEW key \in 1..NbKeys
          PROVE  f[key] = FlushedKey(f[key - 1], a, m, key)
      <3>1. f[key - 1] \in V
        BY <1>1, <2>1
      <3>. QED
        BY <2>1, <3>1
    <2>. HIDE DEF G
    <2>. QED
      BY <2>1, <2>2
  <1>. HIDE DEF V, G
  <1>8. ASSUME NEW x, NEW key
         PROVE  FlushedKey(x, a, m, key) =
                    IF key \notin DOMAIN m THEN x
                    ELSE IF key \in DOMAIN s.map THEN Increase(x, key, NumberAt(x.pool, m[key]))
                    ELSE [x EXCEPT !.map = With(@, key, m[key])]
    BY <1>5 DEF FlushedKey
  <1>9. f = [key \in 0..NbKeys |->
                IF key = 0 THEN s
                ELSE IF key \notin DOMAIN m THEN f[key - 1]
                ELSE IF key \in DOMAIN s.map
                THEN Increase(f[key - 1], key, NumberAt(f[key - 1].pool, m[key]))
                ELSE [f[key - 1] EXCEPT !.map = With(@, key, m[key])]]
    <2>1. ASSUME NEW key \in 0..NbKeys
          PROVE  f[key] =
                IF key = 0 THEN s
                ELSE IF key \notin DOMAIN m THEN f[key - 1]
                ELSE IF key \in DOMAIN s.map
                THEN Increase(f[key - 1], key, NumberAt(f[key - 1].pool, m[key]))
                ELSE [f[key - 1] EXCEPT !.map = With(@, key, m[key])]
      <3>1. CASE key = 0
        BY <1>7, <3>1
      <3>2. CASE key # 0
        <4>1. key \in 1..NbKeys
          BY <1>1, <3>2
        <4>2. f[key] = FlushedKey(f[key - 1], a, m, key)
          BY <1>7, <4>1
        <4>. QED
          BY <1>8, <3>2, <4>2
      <3>. QED
        BY <3>1, <3>2
    <2>2. f = [key \in 0..NbKeys |-> f[key]]
      BY <1>7
    <2>. QED
      BY <2>1, <2>2
  <1>10. h = [key \in 0..NbKeys |->
                IF key = 0 THEN s
                ELSE IF key \notin DOMAIN m THEN h[key - 1]
                ELSE IF key \in DOMAIN s.map
                THEN Increase(h[key - 1], key, NumberAt(h[key - 1].pool, m[key]))
                ELSE [h[key - 1] EXCEPT !.map = With(@, key, m[key])]]
    BY <1>9
  <1>. HIDE DEF h
  <1>11. h[0] = s /\ DOMAIN h = 0..NbKeys
    BY <1>1, <1>10
  <1>12. \A key \in 1..NbKeys : h[key] = FlushedKey(h[key - 1], a, m, key)
    <2>1. ASSUME NEW key \in 1..NbKeys
          PROVE  h[key] = FlushedKey(h[key - 1], a, m, key)
      <3>1. key \in 0..NbKeys /\ key # 0
        BY <1>1
      <3>2. h[key] = IF key = 0 THEN s
                     ELSE IF key \notin DOMAIN m THEN h[key - 1]
                     ELSE IF key \in DOMAIN s.map
                     THEN Increase(h[key - 1], key, NumberAt(h[key - 1].pool, m[key]))
                     ELSE [h[key - 1] EXCEPT !.map = With(@, key, m[key])]
        BY <1>10, <3>1
      <3>. QED
        BY <1>8, <3>1, <3>2
    <2>. QED
      BY <2>1
  <1>. DEFINE S == {key \in 0..NbKeys : h[key] \in V}
  <1>13. \A key \in 0..NbKeys : key \in S
    <2>1. 0 \in S
      BY <1>1, <1>2, <1>11
    <2>2. \A key \in 1..NbKeys : key - 1 \in S => key \in S
      BY <1>1, <1>12, FlushedKeyTyped DEF V
    <2>. HIDE DEF S
    <2>. QED
      BY <1>1, <2>1, <2>2, UpTo
  <1>14. h \in [0..NbKeys -> V]
    <2>1. h = [key \in 0..NbKeys |-> h[key]]
      BY <1>10
    <2>. QED
      BY <1>13, <2>1
  <1>. QED
    BY <1>4, <1>11, <1>12, <1>14 DEF V, s

LEMMA FlushedTyped ==
    ASSUME NEW p, NEW a, NEW m, Typed(p, a, m), NEW s,
           s = Flushed([pool |-> p, map |-> a], m)
    PROVE  Typed(s.pool, s.map, m) /\ DOMAIN s.map = DOMAIN a \cup DOMAIN m
  <1>1. PICK h : /\ h \in [0..NbKeys -> States(m)]
                 /\ h[0] = [pool |-> p, map |-> a]
                 /\ \A key \in 1..NbKeys : h[key] = FlushedKey(h[key - 1], a, m, key)
                 /\ s = h[NbKeys]
    BY FlushedRecursion
  <1>2. NbKeys \in Nat /\ DOMAIN m \subseteq 1..NbKeys
    BY CountValueAssumption DEF Typed, IsMap
  <1>. DEFINE S == {key \in 0..NbKeys :
                       DOMAIN h[key].map = DOMAIN a \cup {k \in DOMAIN m : k <= key}}
  <1>3. 0 \in S
    <2>1. {k \in DOMAIN m : k <= 0} = {}
      BY <1>2
    <2>. QED
      BY <1>1, <1>2, <2>1
  <1>4. ASSUME NEW key \in 1..NbKeys, key - 1 \in S
        PROVE  key \in S
    <2>. DEFINE r == h[key - 1]
    <2>1. /\ r = [pool |-> r.pool, map |-> r.map] /\ Typed(r.pool, r.map, m)
          /\ r.pool \in Pools /\ IsMap(r.pool, r.map) /\ IsMap(r.pool, m)
      BY <1>1, <1>2 DEF States, Typed
    <2>2. DOMAIN r.map = DOMAIN a \cup {k \in DOMAIN m : k <= key - 1}
      BY <1>4
    <2>. HIDE DEF r
    <2>3. h[key] = FlushedKey(r, a, m, key)
      BY <1>1 DEF r
    <2>4. CASE key \notin DOMAIN m
      <3>1. {k \in DOMAIN m : k <= key} = {k \in DOMAIN m : k <= key - 1}
        BY <1>2, <2>4
      <3>. QED
        BY <2>2, <2>3, <2>4, <3>1 DEF FlushedKey
    <2>5. CASE key \in DOMAIN m
      <3>1. {k \in DOMAIN m : k <= key} = {k \in DOMAIN m : k <= key - 1} \cup {key}
        BY <1>2, <2>5
      <3>2. DOMAIN h[key].map = DOMAIN r.map \cup {key}
        <4>1. CASE key \in DOMAIN a
          <5>1. PICK n \in Nat : n = NumberAt(r.pool, m[key])
            BY <2>1, <2>5, NumberIsNat DEF IsMap
          <5>2. h[key] = Increase([pool |-> r.pool, map |-> r.map], key, n)
            BY <2>1, <2>3, <2>5, <4>1, <5>1 DEF FlushedKey
          <5>. QED
            BY <2>1, <5>2, IncreaseTyped DEF Adds
        <4>2. CASE key \notin DOMAIN a
          <5>1. h[key] = [r EXCEPT !.map = With(@, key, m[key])]
            BY <2>3, <2>5, <4>2 DEF FlushedKey
          <5>2. h[key].map = With(r.map, key, m[key])
            BY <2>1, <5>1
          <5>. QED
            BY <5>2 DEF With
        <4>. QED
          BY <4>1, <4>2
      <3>. QED
        BY <2>2, <3>1, <3>2
    <2>. QED
      BY <2>4, <2>5
  <1>. HIDE DEF S
  <1>5. \A key \in 0..NbKeys : key \in S
    BY <1>2, <1>3, <1>4, UpTo
  <1>6. s \in States(m) /\ DOMAIN s.map = DOMAIN a \cup {k \in DOMAIN m : k <= NbKeys}
    BY <1>1, <1>2, <1>5 DEF S
  <1>7. {k \in DOMAIN m : k <= NbKeys} = DOMAIN m
    BY <1>2
  <1>. QED
    BY <1>6, <1>7 DEF States

\* Numbers are added up when no word of a large one is copied.
LEMMA FlushedSound ==
    ASSUME NEW p, NEW a, NEW m, Sound(p, a, m),
           \A k \in DOMAIN m \ DOMAIN a : ~ IsLarge(m[k]),
           NEW s, s = Flushed([pool |-> p, map |-> a], m)
    PROVE  /\ Sound(s.pool, s.map, m)
           /\ \A k \in 1..NbKeys : ValueOf(s.pool, s.map, k) = ValueOf(p, a, k) + ValueOf(p, m, k)
  <1>1. PICK h : /\ h \in [0..NbKeys -> States(m)]
                 /\ h[0] = [pool |-> p, map |-> a]
                 /\ \A key \in 1..NbKeys : h[key] = FlushedKey(h[key - 1], a, m, key)
                 /\ s = h[NbKeys]
    BY FlushedRecursion DEF Sound
  <1>2. NbKeys \in Nat /\ DOMAIN m \subseteq 1..NbKeys /\ p \in Pools /\ IsMap(p, a) /\ IsMap(p, m)
    BY CountValueAssumption DEF Sound, Typed, IsMap
  <1>3. \A k \in 1..NbKeys : ValueOf(p, a, k) \in Nat /\ ValueOf(p, m, k) \in Nat
    BY <1>2, NumberIsNat DEF ValueOf, IsMap
  <1>. DEFINE Value(key, k) == ValueOf(p, a, k) + IF k <= key THEN ValueOf(p, m, k) ELSE 0
              S == {key \in 0..NbKeys :
                       /\ Sound(h[key].pool, h[key].map, m)
                       /\ \A k \in 1..NbKeys : ValueOf(h[key].pool, h[key].map, k) = Value(key, k)
                       /\ \A k : ValueOf(h[key].pool, m, k) = ValueOf(p, m, k)}
  <1>4. 0 \in S
    <2>1. \A k \in 1..NbKeys : Value(0, k) = ValueOf(p, a, k)
      BY <1>2, <1>3
    <2>. HIDE DEF Value
    <2>2. h[0].pool = p /\ h[0].map = a
      BY <1>1
    <2>. QED
      BY <1>2, <2>1, <2>2
  <1>5. ASSUME NEW key \in 1..NbKeys, key - 1 \in S
        PROVE  key \in S
    <2>. DEFINE r == h[key - 1]
                t == h[key]
    <2>1. /\ Sound(r.pool, r.map, m)
          /\ \A k \in 1..NbKeys : ValueOf(r.pool, r.map, k) = Value(key - 1, k)
          /\ \A k : ValueOf(r.pool, m, k) = ValueOf(p, m, k)
      BY <1>5
    <2>2. r = [pool |-> r.pool, map |-> r.map] /\ t = FlushedKey(r, a, m, key)
      BY <1>1, <1>2 DEF States
    <2>3. /\ \A k \in 1..NbKeys : k # key => Value(key, k) = Value(key - 1, k)
          /\ Value(key - 1, key) = ValueOf(p, a, key)
          /\ Value(key, key) = ValueOf(p, a, key) + ValueOf(p, m, key)
      BY <1>2, <1>3
    <2>4. r.pool \in Pools /\ IsMap(r.pool, r.map) /\ IsMap(r.pool, m)
      BY <2>1 DEF Sound, Typed
    <2>. HIDE DEF Value, r, t
    <2>5. SUFFICES /\ Sound(t.pool, t.map, m)
                   /\ \A k \in 1..NbKeys : k # key =>
                          ValueOf(t.pool, t.map, k) = ValueOf(r.pool, r.map, k)
                   /\ ValueOf(t.pool, t.map, key) = ValueOf(p, a, key) + ValueOf(p, m, key)
                   /\ \A k : ValueOf(t.pool, m, k) = ValueOf(r.pool, m, k)
      BY <2>1, <2>3 DEF t
    <2>6. CASE key \notin DOMAIN m
      <3>1. t = r /\ ValueOf(p, m, key) = 0
        BY <2>2, <2>6 DEF FlushedKey, ValueOf
      <3>2. ValueOf(p, a, key) + 0 = ValueOf(p, a, key)
        BY <1>3
      <3>. QED
        BY <2>1, <2>3, <3>1, <3>2
    <2>7. CASE key \in DOMAIN m /\ key \in DOMAIN a
      <3>1. PICK n \in Nat : n = ValueOf(p, m, key)
        BY <1>3
      <3>2. NumberAt(r.pool, m[key]) = n
        BY <2>1, <2>7, <3>1 DEF ValueOf
      <3>3. t = Increase([pool |-> r.pool, map |-> r.map], key, n)
        BY <2>2, <2>7, <3>2 DEF FlushedKey
      <3>. QED
        BY <2>1, <2>3, <3>1, <3>3, IncreaseSound DEF SameButAt, Same
    <2>8. CASE key \in DOMAIN m /\ key \notin DOMAIN a
      <3>2. PICK w \in Words(r.pool) : w = m[key] /\ ~ IsLarge(w)
        BY <2>4, <2>8 DEF IsMap
      <3>. DEFINE n == With(r.map, key, w)
      <3>1. t = [pool |-> r.pool, map |-> n]
        BY <2>2, <2>8, <3>2 DEF FlushedKey
      <3>. HIDE DEF n
      <3>3. /\ DOMAIN n = DOMAIN r.map \cup {key} /\ n[key] = w
            /\ \A k \in DOMAIN r.map : k # key => n[k] = r.map[k]
            /\ Replaced(r.pool, r.map, key, r.pool, n) /\ n = [k \in DOMAIN n |-> n[k]]
        <4>1. n = With(r.map, key, w)
          BY DEF n
        <4>. QED
          BY <2>4, <3>2, <4>1, WithIs
      <3>4. /\ Sound(r.pool, n, m)
            /\ \A k \in DOMAIN r.map : k # key =>
                   ValueOf(r.pool, n, k) = ValueOf(r.pool, r.map, k)
        BY <2>1, <3>3, ReplacedSound
      <3>5. \A k \in 1..NbKeys : k # key =>
                ValueOf(r.pool, n, k) = ValueOf(r.pool, r.map, k)
        BY <3>3, <3>4 DEF ValueOf
      <3>6. ValueOf(r.pool, n, key) = ValueOf(p, m, key)
        BY <2>1, <2>8, <3>2, <3>3 DEF ValueOf
      <3>7. ValueOf(p, a, key) = 0 /\ 0 + ValueOf(p, m, key) = ValueOf(p, m, key)
        BY <1>3, <2>8 DEF ValueOf
      <3>. QED
        BY <3>1, <3>4, <3>5, <3>6, <3>7
    <2>. QED
      BY <2>6, <2>7, <2>8
  <1>. HIDE DEF S
  <1>6. \A key \in 0..NbKeys : key \in S
    BY <1>2, <1>4, <1>5, UpTo
  <1>7. /\ Sound(s.pool, s.map, m)
        /\ \A k \in 1..NbKeys : ValueOf(s.pool, s.map, k) = Value(NbKeys, k)
    BY <1>1, <1>2, <1>6 DEF S
  <1>8. \A k \in 1..NbKeys : Value(NbKeys, k) = ValueOf(p, a, k) + ValueOf(p, m, k)
    BY <1>2
  <1>. QED
    BY <1>7, <1>8

-----------------------------------------------------------------------------
(* The lines of a map                                                      *)

LEMMA LinesAre ==
    ASSUME NEW map, NEW correct, NEW L,
           \A key \in DOMAIN map :
              [key |-> key, count |-> NumberAt(pool, map[key]), correct |-> correct[key]] \in L
    PROVE  Lines(map, correct) \in Seq(L)
  <1>. DEFINE V == Seq(L)
              line(key) == [key |-> key, count |-> NumberAt(pool, map[key]),
                            correct |-> correct[key]]
              G == [key \in 1..NbKeys |->
                       [s \in V |-> IF key \in DOMAIN map THEN Append(s, line(key)) ELSE s]]
              h == CHOOSE h : h = [key \in 0..NbKeys |->
                                      IF key = 0 THEN <<>>
                                      ELSE IF key \in DOMAIN map THEN Append(h[key - 1], line(key))
                                      ELSE h[key - 1]]
  <1>1. NbKeys \in Nat
    BY CountValueAssumption
  <1>2. \A key \in DOMAIN map : line(key) \in L
    OBVIOUS
  <1>3. Lines(map, correct) = h[NbKeys]
    BY DEF Lines
  <1>. HIDE DEF line
  <1>4. \A s \in V, key \in DOMAIN map : Append(s, line(key)) \in V
    BY <1>2
  <1>5. <<>> \in V
    OBVIOUS
  <1>. HIDE DEF V
  <1>6. G \in [1..NbKeys -> [V -> V]]
    BY <1>4
  <1>7. PICK f : Iterates(f, NbKeys, V, <<>>, G)
    <2>. HIDE DEF G
    <2>. QED
      BY <1>1, <1>5, <1>6, Recursion
  <1>8. f = [key \in 0..NbKeys |->
                IF key = 0 THEN <<>>
                ELSE IF key \in DOMAIN map THEN Append(f[key - 1], line(key))
                ELSE f[key - 1]]
    <2>1. f \in [0..NbKeys -> V] /\ f[0] = <<>> /\ \A n \in 1..NbKeys : f[n] = G[n][f[n - 1]]
      BY <1>7 DEF Iterates
    <2>2. ASSUME NEW key \in 1..NbKeys
          PROVE  f[key] = IF key \in DOMAIN map THEN Append(f[key - 1], line(key))
                          ELSE f[key - 1]
      <3>1. f[key - 1] \in V
        BY <1>1, <2>1
      <3>. QED
        BY <2>1, <3>1
    <2>. HIDE DEF G
    <2>3. ASSUME NEW key \in 0..NbKeys
          PROVE  f[key] = IF key = 0 THEN <<>>
                          ELSE IF key \in DOMAIN map THEN Append(f[key - 1], line(key))
                          ELSE f[key - 1]
      <3>1. CASE key = 0
        BY <2>1, <3>1
      <3>2. CASE key # 0
        <4>1. key \in 1..NbKeys
          BY <1>1, <3>2
        <4>. QED
          BY <2>2, <3>2, <4>1
      <3>. QED
        BY <3>1, <3>2
    <2>4. f = [key \in 0..NbKeys |-> f[key]]
      BY <2>1
    <2>. QED
      BY <2>3, <2>4
  <1>9. h = [key \in 0..NbKeys |->
                IF key = 0 THEN <<>>
                ELSE IF key \in DOMAIN map THEN Append(h[key - 1], line(key))
                ELSE h[key - 1]]
    BY <1>8
  <1>. HIDE DEF h, G
  <1>. DEFINE S == {key \in 0..NbKeys : h[key] \in V}
  <1>10. 0 \in S
    BY <1>1, <1>5, <1>9
  <1>11. ASSUME NEW key \in 1..NbKeys, key - 1 \in S
         PROVE  key \in S
    <2>1. h[key] = IF key \in DOMAIN map THEN Append(h[key - 1], line(key)) ELSE h[key - 1]
      <3>1. key \in 0..NbKeys /\ key # 0
        BY <1>1
      <3>. QED
        BY <1>9, <3>1
    <2>2. key \in 0..NbKeys
      BY <1>1
    <2>. QED
      BY <1>4, <1>11, <2>1, <2>2
  <1>. HIDE DEF S
  <1>12. \A key \in 0..NbKeys : key \in S
    BY <1>1, <1>10, <1>11, UpTo
  <1>. QED
    BY <1>1, <1>3, <1>12 DEF S, V

-----------------------------------------------------------------------------
(* The inductive invariant                                                 *)

Line == [key : 1..NbKeys, count : Nat, correct : Nat]

IsCounts(e) == e \in [DOMAIN e -> Nat]

\* The counts of a map are those of e.
Agrees(p, m, e) == \A k \in 1..NbKeys : ValueOf(p, m, k) = At(e, k)

TypeInv ==
    /\ process \in {"count", "merge"}
    /\ Typed(pool, store, static_store)
    /\ lines \in Seq(Line) /\ read \in Nat
    /\ exact = [store |-> exact.store, static_store |-> exact.static_store]
    /\ IsCounts(exact.store) /\ DOMAIN exact.store = DOMAIN store
    /\ IsCounts(exact.static_store) /\ DOMAIN exact.static_store = DOMAIN static_store

\* Keys come into the store with their twins.  A merger has no static store.
ProcessInv ==
    /\ process = "count" => \A key \in DOMAIN store : Twin[key] \in DOMAIN store
    /\ process = "merge" => static_store = NoCounts

RightInv ==
    ~copied =>
        /\ Sound(pool, store, static_store)
        /\ Agrees(pool, store, exact.store)
        /\ Agrees(pool, static_store, exact.static_store)
        /\ process = "count" => \A i \in DOMAIN lines : lines[i].count = lines[i].correct

Inv == TypeInv /\ ProcessInv /\ RightInv

-----------------------------------------------------------------------------
(* The exact counts                                                        *)

LEMMA PlusIs ==
    ASSUME NEW e, IsCounts(e), NEW key, NEW n \in Nat, NEW f, f = Plus(e, key, n)
    PROVE  /\ IsCounts(f) /\ Adds(f, e, key)
           /\ At(f, key) = At(e, key) + n
           /\ \A k : k # key => At(f, k) = At(e, k)
  <1>1. At(e, key) \in Nat
    BY DEF At, IsCounts
  <1>2. f = [k \in DOMAIN e \cup {key} |-> IF k = key THEN At(e, key) + n ELSE e[k]]
    BY DEF Plus, With
  <1>3. IsCounts(f) /\ Adds(f, e, key)
    BY <1>1, <1>2 DEF IsCounts, Adds
  <1>4. At(f, key) = At(e, key) + n
    BY <1>2 DEF At
  <1>5. ASSUME NEW k, k # key
        PROVE  At(f, k) = At(e, k)
    BY <1>2, <1>5 DEF At
  <1>. QED
    BY <1>3, <1>4, <1>5

\* The empty store of an empty pool.
LEMMA EmptyIs ==
    /\ Typed(EmptyPool, NoCounts, NoCounts)
    /\ Sound(EmptyPool, NoCounts, NoCounts)
    /\ Agrees(EmptyPool, NoCounts, NoCounts)
    /\ IsCounts(NoCounts)
  <1>1. EmptyPool \in Pools
    BY DEF EmptyPool, Pools
  <1>2. IsMap(EmptyPool, NoCounts)
    BY DEF IsMap, NoCounts
  <1>3. Typed(EmptyPool, NoCounts, NoCounts)
    BY <1>1, <1>2 DEF Typed
  <1>4. Sound(EmptyPool, NoCounts, NoCounts)
    BY <1>3 DEF Sound, Apart, Disjoint, NotFree, FreeOnce, EmptyPool, NoCounts
  <1>5. Agrees(EmptyPool, NoCounts, NoCounts)
    BY DEF Agrees, ValueOf, At, NoCounts
  <1>6. IsCounts(NoCounts)
    BY DEF IsCounts, NoCounts
  <1>. QED
    BY <1>3, <1>4, <1>5, <1>6

LEMMA InitInv == Init => Inv
  <1>. SUFFICES ASSUME Init PROVE Inv
    OBVIOUS
  <1>1. TypeInv
    BY EmptyIs DEF Init, TypeInv
  <1>2. ProcessInv
    BY DEF Init, ProcessInv, NoCounts
  <1>3. RightInv
    BY EmptyIs DEF Init, RightInv
  <1>. QED
    BY <1>1, <1>2, <1>3 DEF Inv

LEMMA StartMergerInv == Inv /\ StartMerger => Inv'
  <1>. SUFFICES ASSUME Inv, StartMerger PROVE Inv'
    OBVIOUS
  <1>1. TypeInv'
    BY EmptyIs DEF Inv, StartMerger, TypeInv
  <1>2. ProcessInv'
    BY DEF StartMerger, ProcessInv
  <1>3. RightInv'
    BY EmptyIs DEF StartMerger, RightInv
  <1>. QED
    BY <1>1, <1>2, <1>3 DEF Inv

LEMMA StutterInv == Inv /\ UNCHANGED vars => Inv'
  BY DEF Inv, TypeInv, ProcessInv, RightInv, vars

\* What register_curve makes of a store.
Registered(state, key, n) ==
    IF key \in DOMAIN state.map
    THEN Increase(Increase(state, key, n), Twin[key], n)
    ELSE IF Twin[key] = key THEN Increase(Put(state, key, n), key, n)
    ELSE Put(Put(state, key, n), Twin[key], n)

LEMMA RegisteredTyped ==
    ASSUME NEW p, NEW m, NEW o, Typed(p, m, o), NEW key \in 1..NbKeys, NEW n \in Nat, NEW r,
           r = Registered([pool |-> p, map |-> m], key, n)
    PROVE  Typed(r.pool, r.map, o) /\ DOMAIN r.map = DOMAIN m \cup {key, Twin[key]}
  <1>. DEFINE s == [pool |-> p, map |-> m]
  <1>1. s.map = m
    OBVIOUS
  <1>2. PICK twin \in 1..NbKeys : twin = Twin[key]
    BY CountValueAssumption
  <1>. HIDE DEF s
  <1>3. CASE key \in DOMAIN m
    <2>. DEFINE t == Increase(s, key, n)
    <2>1. Typed(t.pool, t.map, o) /\ Adds(t.map, m, key)
      BY IncreaseTyped DEF s
    <2>4. t = [pool |-> t.pool, map |-> t.map]
      BY IncreaseTyped DEF s
    <2>2. r = Increase([pool |-> t.pool, map |-> t.map], twin, n)
      BY <1>1, <1>2, <1>3, <2>4 DEF Registered, s
    <2>. HIDE DEF t
    <2>3. Typed(r.pool, r.map, o) /\ Adds(r.map, t.map, twin)
      BY <2>1, <2>2, IncreaseTyped
    <2>. QED
      BY <1>2, <2>1, <2>3 DEF Adds
  <1>. DEFINE t == Put(s, key, n)
  <1>4. Typed(t.pool, t.map, o) /\ Adds(t.map, m, key)
    BY PutTyped DEF s
  <1>7. t = [pool |-> t.pool, map |-> t.map]
    BY PutTyped DEF s
  <1>5. CASE key \notin DOMAIN m /\ twin = key
    <2>1. r = Increase([pool |-> t.pool, map |-> t.map], key, n)
      BY <1>1, <1>2, <1>5, <1>7 DEF Registered, s
    <2>. HIDE DEF t
    <2>2. Typed(r.pool, r.map, o) /\ Adds(r.map, t.map, key)
      BY <1>4, <2>1, IncreaseTyped
    <2>. QED
      BY <1>2, <1>4, <1>5, <2>2 DEF Adds
  <1>6. CASE key \notin DOMAIN m /\ twin # key
    <2>1. r = Put([pool |-> t.pool, map |-> t.map], twin, n)
      BY <1>1, <1>2, <1>6, <1>7 DEF Registered, s
    <2>. HIDE DEF t
    <2>2. Typed(r.pool, r.map, o) /\ Adds(r.map, t.map, twin)
      BY <1>4, <2>1, PutTyped
    <2>. QED
      BY <1>2, <1>4, <2>2 DEF Adds
  <1>. QED
    BY <1>3, <1>5, <1>6

\* The count of the key and of its twin grow by n.  A key is there with its twin, so
\* that none is overwritten.
LEMMA RegisteredSound ==
    ASSUME NEW p, NEW m, NEW o, Sound(p, m, o), NEW key \in 1..NbKeys, NEW n \in Nat, NEW r,
           r = Registered([pool |-> p, map |-> m], key, n),
           \A k \in DOMAIN m : Twin[k] \in DOMAIN m,
           NEW e, IsCounts(e), DOMAIN e = DOMAIN m, Agrees(p, m, e),
           NEW h, h = Plus(Plus(e, key, n), Twin[key], n)
    PROVE  /\ Sound(r.pool, r.map, o)
           /\ Agrees(r.pool, r.map, h)
           /\ Same(r.pool, p, o)
  <1>. DEFINE s == [pool |-> p, map |-> m]
              f == Plus(e, key, n)
  <1>1. s.map = m
    OBVIOUS
  <1>2. PICK twin \in 1..NbKeys : twin = Twin[key] /\ Twin[twin] = key
    BY CountValueAssumption
  <1>. DEFINE g == Plus(f, twin, n)
  <1>. HIDE DEF s
  <1>3. /\ IsCounts(f) /\ Adds(f, e, key)
        /\ At(f, key) = At(e, key) + n
        /\ \A k : k # key => At(f, k) = At(e, k)
    <2>1. f = Plus(e, key, n)
      OBVIOUS
    <2>. HIDE DEF f
    <2>. QED
      BY <2>1, PlusIs
  <1>. HIDE DEF f
  <1>4. /\ At(g, twin) = At(f, twin) + n
        /\ \A k : k # twin => At(g, k) = At(f, k)
    <2>1. g = Plus(f, twin, n)
      OBVIOUS
    <2>. HIDE DEF g
    <2>. QED
      BY <1>3, <2>1, PlusIs
  <1>. HIDE DEF g
  <1>5. \A k \in 1..NbKeys : ValueOf(p, m, k) = At(e, k)
    BY DEF Agrees
  <1>6. SUFFICES /\ Sound(r.pool, r.map, o)
                 /\ \A k \in 1..NbKeys : ValueOf(r.pool, r.map, k) = At(g, k)
                 /\ Same(r.pool, p, o)
    BY <1>2 DEF Agrees, f, g
  <1>7. CASE key \in DOMAIN m
    <2>. DEFINE t == Increase(s, key, n)
    <2>1. /\ Sound(t.pool, t.map, o)
          /\ ValueOf(t.pool, t.map, key) = ValueOf(p, m, key) + n
          /\ SameButAt(t.pool, t.map, p, m, key)
          /\ Same(t.pool, p, o)
      BY IncreaseSound DEF s
    <2>6. t = [pool |-> t.pool, map |-> t.map]
      BY IncreaseSound DEF s
    <2>2. r = Increase([pool |-> t.pool, map |-> t.map], twin, n)
      BY <1>1, <1>2, <1>7, <2>6 DEF Registered, s
    <2>. HIDE DEF t
    <2>3. /\ Sound(r.pool, r.map, o)
          /\ ValueOf(r.pool, r.map, twin) = ValueOf(t.pool, t.map, twin) + n
          /\ SameButAt(r.pool, r.map, t.pool, t.map, twin)
          /\ Same(r.pool, t.pool, o)
      BY <2>1, <2>2, IncreaseSound
    <2>4. \A k \in 1..NbKeys : ValueOf(t.pool, t.map, k) = At(f, k)
      BY <1>3, <1>5, <2>1 DEF SameButAt
    <2>5. \A k \in 1..NbKeys : ValueOf(r.pool, r.map, k) = At(g, k)
      BY <1>2, <1>4, <2>3, <2>4 DEF SameButAt
    <2>. QED
      BY <2>1, <2>3, <2>5 DEF Same
  <1>. DEFINE t == Put(s, key, n)
  <1>8. CASE key \notin DOMAIN m
    <2>1. /\ Sound(t.pool, t.map, o)
          /\ ValueOf(t.pool, t.map, key) = n
          /\ SameButAt(t.pool, t.map, p, m, key)
          /\ Same(t.pool, p, o)
      BY PutSound DEF s
    <2>6. t = [pool |-> t.pool, map |-> t.map]
      BY PutSound DEF s
    <2>2. At(e, key) = 0 /\ 0 + n = n
      BY <1>8 DEF At
    <2>3. \A k \in 1..NbKeys : ValueOf(t.pool, t.map, k) = At(f, k)
      <3>1. At(f, key) = n
        BY <1>3, <2>2
      <3>. QED
        BY <1>3, <1>5, <2>1, <3>1 DEF SameButAt
    <2>4. CASE twin = key
      <3>1. r = Increase([pool |-> t.pool, map |-> t.map], twin, n)
        BY <1>1, <1>2, <1>8, <2>4, <2>6 DEF Registered, s
      <3>. HIDE DEF t
      <3>2. /\ Sound(r.pool, r.map, o)
            /\ ValueOf(r.pool, r.map, twin) = ValueOf(t.pool, t.map, twin) + n
            /\ SameButAt(r.pool, r.map, t.pool, t.map, twin)
            /\ Same(r.pool, t.pool, o)
        BY <2>1, <3>1, IncreaseSound
      <3>3. \A k \in 1..NbKeys : ValueOf(r.pool, r.map, k) = At(g, k)
        BY <1>2, <1>4, <2>3, <3>2 DEF SameButAt
      <3>. QED
        BY <2>1, <3>2, <3>3 DEF Same
    <2>5. CASE twin # key
      <3>1. r = Put([pool |-> t.pool, map |-> t.map], twin, n)
        BY <1>1, <1>2, <1>8, <2>5, <2>6 DEF Registered, s
      <3>. HIDE DEF t
      <3>2. /\ Sound(r.pool, r.map, o)
            /\ ValueOf(r.pool, r.map, twin) = n
            /\ SameButAt(r.pool, r.map, t.pool, t.map, twin)
            /\ Same(r.pool, t.pool, o)
        BY <2>1, <3>1, PutSound
      <3>3. At(f, twin) = 0
        <4>1. twin \notin DOMAIN m
          BY <1>2, <1>8
        <4>. QED
          BY <1>3, <2>5, <4>1 DEF At, Adds
      <3>4. At(g, twin) = n
        BY <1>4, <2>2, <3>3
      <3>5. \A k \in 1..NbKeys : ValueOf(r.pool, r.map, k) = At(g, k)
        BY <1>4, <2>3, <3>2, <3>4 DEF SameButAt
      <3>. QED
        BY <2>1, <3>2, <3>5 DEF Same
    <2>. QED
      BY <2>4, <2>5
  <1>. QED
    BY <1>7, <1>8

LEMMA RegisterCurveInv == Inv /\ RegisterCurve => Inv'
  <1>. SUFFICES ASSUME Inv, RegisterCurve PROVE Inv'
    OBVIOUS
  <1>1. PICK key \in 1..NbKeys, n \in Nat :
           /\ pool' = Registered([pool |-> pool, map |-> store], key, n).pool
           /\ store' = Registered([pool |-> pool, map |-> store], key, n).map
           /\ exact' = [exact EXCEPT !.store = Plus(Plus(@, key, n), Twin[key], n)]
    <2>1. Multiplicity \subseteq Nat
      BY CountValueAssumption
    <2>2. PICK key \in 1..NbKeys, n \in Multiplicity :
             /\ pool' = Registered([pool |-> pool, map |-> store], key, n).pool
             /\ store' = Registered([pool |-> pool, map |-> store], key, n).map
             /\ exact' = [exact EXCEPT !.store = Plus(Plus(@, key, n), Twin[key], n)]
      BY DEF RegisterCurve, Registered
    <2>. QED
      BY <2>1, <2>2
  <1>2. Twin[key] \in 1..NbKeys /\ Twin[Twin[key]] = key
    BY CountValueAssumption
  <1>3. /\ process = "count"
        /\ UNCHANGED <<process, static_store, lines, read, copied>>
    BY DEF RegisterCurve
  <1>. DEFINE r == Registered([pool |-> pool, map |-> store], key, n)
              e == exact.store
              f == Plus(Plus(e, key, n), Twin[key], n)
  <1>4. Typed(r.pool, r.map, static_store) /\ DOMAIN r.map = DOMAIN store \cup {key, Twin[key]}
    BY <1>2, RegisteredTyped DEF Inv, TypeInv
  <1>5. IsCounts(f) /\ DOMAIN f = DOMAIN e \cup {key, Twin[key]}
    <2>. DEFINE d == Plus(e, key, n)
    <2>1. IsCounts(d) /\ Adds(d, e, key)
      BY <1>2, PlusIs DEF Inv, TypeInv
    <2>. HIDE DEF d
    <2>2. IsCounts(Plus(d, Twin[key], n)) /\ Adds(Plus(d, Twin[key], n), d, Twin[key])
      BY <1>2, <2>1, PlusIs
    <2>. QED
      BY <2>1, <2>2 DEF d, Adds
  <1>6. exact' = [store |-> f, static_store |-> exact.static_store]
    BY <1>1 DEF Inv, TypeInv
  <1>7. pool' = r.pool /\ store' = r.map
    BY <1>1
  <1>8. ~copied =>
            /\ Sound(r.pool, r.map, static_store)
            /\ Agrees(r.pool, r.map, f)
            /\ Same(r.pool, pool, static_store)
    <2>1. ~copied =>
          /\ Sound(pool, store, static_store)
          /\ Agrees(pool, store, e)
          /\ IsCounts(e) /\ DOMAIN e = DOMAIN store
          /\ \A k \in DOMAIN store : Twin[k] \in DOMAIN store
      BY <1>3 DEF Inv, TypeInv, ProcessInv, RightInv
    <2>2. r = Registered([pool |-> pool, map |-> store], key, n)
      OBVIOUS
    <2>3. f = Plus(Plus(e, key, n), Twin[key], n)
      OBVIOUS
    <2>. HIDE DEF r, e, f
    <2>. QED
      BY <2>1, <2>2, <2>3, RegisteredSound
  <1>. HIDE DEF r, f
  <1>9. TypeInv'
    BY <1>3, <1>4, <1>5, <1>6, <1>7 DEF Inv, TypeInv
  <1>10. ProcessInv'
    BY <1>2, <1>3, <1>4, <1>7 DEF Inv, ProcessInv
  <1>11. RightInv'
    <2>. SUFFICES ASSUME ~copied'
                  PROVE  /\ Sound(r.pool, r.map, static_store)
                         /\ Agrees(r.pool, r.map, f)
                         /\ Agrees(r.pool, static_store, exact.static_store)
                         /\ \A i \in DOMAIN lines : lines[i].count = lines[i].correct
      BY <1>3, <1>6, <1>7 DEF RightInv
    <2>1. Agrees(pool, static_store, exact.static_store)
      BY <1>3 DEF Inv, RightInv
    <2>. QED
      BY <1>3, <1>8, <2>1 DEF Inv, RightInv, Agrees, Same
  <1>. QED
    BY <1>9, <1>10, <1>11 DEF Inv

LEMMA AtIsNat ==
    ASSUME NEW e, IsCounts(e), NEW k
    PROVE  At(e, k) \in Nat
  BY DEF At, IsCounts

LEMMA FlushToStaticStoreInv == Inv /\ FlushToStaticStore => Inv'
  <1>. SUFFICES ASSUME Inv, FlushToStaticStore PROVE Inv'
    OBVIOUS
  <1>. DEFINE s == Flushed([pool |-> pool, map |-> static_store], store)
              q == Cleared(s.pool, store)
              f == [key \in DOMAIN store \cup DOMAIN static_store |->
                        At(exact.store, key) + At(exact.static_store, key)]
  <1>1. /\ process = "count" /\ pool' = q /\ store' = NoCounts /\ static_store' = s.map
        /\ exact' = [store |-> NoCounts, static_store |-> f]
        /\ UNCHANGED <<process, lines, read>>
    BY DEF FlushToStaticStore
  <1>2. ~copied' => ~copied /\ \A k \in DOMAIN store \ DOMAIN static_store : ~ IsLarge(store[k])
    BY DEF FlushToStaticStore
  <1>3. /\ Typed(pool, static_store, store)
        /\ IsCounts(exact.store) /\ DOMAIN exact.store = DOMAIN store
        /\ IsCounts(exact.static_store) /\ DOMAIN exact.static_store = DOMAIN static_store
    BY DEF Inv, TypeInv, Typed
  <1>4. Typed(s.pool, s.map, store) /\ DOMAIN s.map = DOMAIN static_store \cup DOMAIN store
    <2>1. s = Flushed([pool |-> pool, map |-> static_store], store)
      OBVIOUS
    <2>. HIDE DEF s
    <2>. QED
      BY <1>3, <2>1, FlushedTyped
  <1>5. Typed(q, NoCounts, s.map)
    <2>1. Typed(s.pool, store, s.map)
      BY <1>4 DEF Typed
    <2>. HIDE DEF s
    <2>. QED
      BY <2>1, ClearedTyped
  <1>6. DOMAIN f = DOMAIN s.map /\ \A k : At(f, k) = At(exact.store, k) + At(exact.static_store, k)
    <2>1. DOMAIN f = DOMAIN store \cup DOMAIN static_store
      OBVIOUS
    <2>2. ASSUME NEW k
          PROVE  At(f, k) = At(exact.store, k) + At(exact.static_store, k)
      BY <1>3, <2>1 DEF At
    <2>. HIDE DEF s, f
    <2>. QED
      BY <1>4, <2>1, <2>2
  <1>7. IsCounts(f)
    <2>1. \A k : At(exact.store, k) + At(exact.static_store, k) \in Nat
      BY <1>3, AtIsNat
    <2>. QED
      BY <2>1 DEF IsCounts
  <1>8. ASSUME ~copied'
        PROVE  Sound(q, NoCounts, s.map) /\ Agrees(q, s.map, f)
    <2>1. /\ Sound(pool, store, static_store)
          /\ Agrees(pool, store, exact.store)
          /\ Agrees(pool, static_store, exact.static_store)
      BY <1>2, <1>8 DEF Inv, RightInv
    <2>2. Sound(pool, static_store, store)
      BY <2>1, SoundSymmetric
    <2>3. /\ Sound(s.pool, s.map, store)
          /\ \A k \in 1..NbKeys : ValueOf(s.pool, s.map, k) =
                                      ValueOf(pool, static_store, k) + ValueOf(pool, store, k)
      <3>1. s = Flushed([pool |-> pool, map |-> static_store], store)
        OBVIOUS
      <3>2. \A k \in DOMAIN store \ DOMAIN static_store : ~ IsLarge(store[k])
        BY <1>2, <1>8
      <3>. HIDE DEF s
      <3>. QED
        BY <2>2, <3>1, <3>2, FlushedSound
    <2>. HIDE DEF s, f
    <2>4. Sound(s.pool, store, s.map)
      BY <2>3, SoundSymmetric
    <2>5. Sound(q, NoCounts, s.map) /\ \A k : ValueOf(q, s.map, k) = ValueOf(s.pool, s.map, k)
      BY <2>4, ClearedSound
    <2>. HIDE DEF q
    <2>6. ASSUME NEW k \in 1..NbKeys
          PROVE  ValueOf(q, s.map, k) = At(f, k)
      <3>1. ValueOf(q, s.map, k) = At(exact.static_store, k) + At(exact.store, k)
        BY <2>1, <2>3, <2>5 DEF Agrees
      <3>2. At(exact.static_store, k) \in Nat /\ At(exact.store, k) \in Nat
        BY <1>3, AtIsNat
      <3>3. At(f, k) = At(exact.store, k) + At(exact.static_store, k)
        BY <1>6
      <3>. QED
        BY <3>1, <3>2, <3>3
    <2>. QED
      BY <2>5, <2>6 DEF Agrees
  <1>. HIDE DEF s, f, q
  <1>9. Agrees(q, NoCounts, NoCounts)
    BY DEF Agrees, ValueOf, At, NoCounts
  <1>10. TypeInv'
    BY <1>1, <1>5, <1>6, <1>7, EmptyIs DEF Inv, TypeInv
  <1>11. ProcessInv'
    BY <1>1 DEF ProcessInv, NoCounts
  <1>12. RightInv'
    BY <1>1, <1>2, <1>8, <1>9 DEF Inv, RightInv
  <1>. QED
    BY <1>10, <1>11, <1>12 DEF Inv

LEMMA FlushStaticStoreInv == Inv /\ FlushStaticStore => Inv'
  <1>. SUFFICES ASSUME Inv, FlushStaticStore PROVE Inv'
    OBVIOUS
  <1>. DEFINE q == Cleared(pool, static_store)
              new == Lines(static_store, exact.static_store)
  <1>1. /\ process = "count" /\ pool' = q /\ static_store' = NoCounts /\ lines' = lines \o new
        /\ UNCHANGED <<process, store, read, copied>>
    BY DEF FlushStaticStore
  <1>2. exact' = [store |-> exact.store, static_store |-> NoCounts]
    BY DEF FlushStaticStore, Inv, TypeInv
  <1>3. /\ pool \in Pools /\ IsMap(pool, static_store) /\ Typed(pool, static_store, store)
        /\ IsCounts(exact.static_store) /\ DOMAIN exact.static_store = DOMAIN static_store
    BY DEF Inv, TypeInv, Typed
  <1>4. Typed(q, NoCounts, store)
    BY <1>3, ClearedTyped
  <1>5. \A key \in DOMAIN static_store :
            [key |-> key, count |-> NumberAt(pool, static_store[key]),
             correct |-> exact.static_store[key]] \in Line
    <2>1. ASSUME NEW key \in DOMAIN static_store
          PROVE  /\ key \in 1..NbKeys
                 /\ NumberAt(pool, static_store[key]) \in Nat
                 /\ exact.static_store[key] \in Nat
      <3>1. key \in 1..NbKeys /\ static_store[key] \in Words(pool)
        BY <1>3 DEF IsMap
      <3>2. NumberAt(pool, static_store[key]) \in Nat
        BY <1>3, <3>1, NumberIsNat
      <3>3. exact.static_store[key] \in Nat
        BY <1>3 DEF IsCounts
      <3>. QED
        BY <3>1, <3>2, <3>3
    <2>. QED
      BY <2>1 DEF Line
  <1>6. new \in Seq(Line)
    BY <1>5, LinesAre
  <1>. DEFINE RightLine == {line \in Line : line.count = line.correct}
  <1>7. ASSUME ~copied
        PROVE  /\ Sound(q, store, NoCounts)
               /\ Agrees(q, store, exact.store)
               /\ new \in Seq(RightLine)
    <2>1. /\ Sound(pool, static_store, store)
          /\ Agrees(pool, store, exact.store)
          /\ Agrees(pool, static_store, exact.static_store)
      BY <1>7, SoundSymmetric DEF Inv, RightInv
    <2>2. Sound(q, NoCounts, store) /\ \A k : ValueOf(q, store, k) = ValueOf(pool, store, k)
      BY <2>1, ClearedSound
    <2>3. \A key \in DOMAIN static_store :
              [key |-> key, count |-> NumberAt(pool, static_store[key]),
               correct |-> exact.static_store[key]] \in RightLine
      <3>1. \A key \in DOMAIN static_store :
                NumberAt(pool, static_store[key]) = exact.static_store[key]
        BY <1>3, <2>1 DEF Agrees, ValueOf, At, IsMap
      <3>. QED
        BY <1>5, <3>1
    <2>4. new \in Seq(RightLine)
      <3>. HIDE DEF RightLine
      <3>. QED
        BY <2>3, LinesAre
    <2>. QED
      BY <2>1, <2>2, <2>4, SoundSymmetric DEF Agrees
  <1>. HIDE DEF q, new
  <1>8. TypeInv'
    <2>1. lines \o new \in Seq(Line)
      BY <1>6 DEF Inv, TypeInv
    <2>2. Typed(q, store, NoCounts)
      BY <1>4 DEF Typed
    <2>. QED
      BY <1>1, <1>2, <2>1, <2>2, EmptyIs DEF Inv, TypeInv
  <1>9. ProcessInv'
    BY <1>1 DEF Inv, ProcessInv
  <1>10. RightInv'
    <2>. SUFFICES ASSUME ~copied
                  PROVE  /\ Sound(q, store, NoCounts)
                         /\ Agrees(q, store, exact.store)
                         /\ Agrees(q, NoCounts, NoCounts)
                         /\ \A i \in DOMAIN (lines \o new) :
                                (lines \o new)[i].count = (lines \o new)[i].correct
      BY <1>1, <1>2 DEF RightInv
    <2>1. Agrees(q, NoCounts, NoCounts)
      BY DEF Agrees, ValueOf, At, NoCounts
    <2>2. \A i \in DOMAIN lines : lines[i] \in RightLine
      BY <1>1 DEF Inv, RightInv, TypeInv
    <2>3. \A i \in DOMAIN (lines \o new) : (lines \o new)[i] \in RightLine
      <3>. HIDE DEF RightLine
      <3>1. lines \in Seq(Line) /\ new \in Seq(RightLine)
        BY <1>7 DEF Inv, TypeInv
      <3>. QED
        BY <2>2, <3>1
    <2>. QED
      BY <1>7, <2>1, <2>3
  <1>. QED
    BY <1>8, <1>9, <1>10 DEF Inv

\* A map of one word.
One(key, w) == [k \in {key} |-> w]

LEMMA ExtractLineInv == Inv /\ ExtractLine => Inv'
  <1>. SUFFICES ASSUME Inv, ExtractLine PROVE Inv'
    OBVIOUS
  <1>1. process = "merge" /\ static_store = NoCounts
    BY DEF ExtractLine, Inv, ProcessInv
  <1>2. PICK key \in 1..NbKeys, n \in Nat : key = lines[read + 1].key /\ n = lines[read + 1].count
    <2>1. read + 1 \in DOMAIN lines /\ lines \in Seq(Line)
      BY DEF ExtractLine, Inv, TypeInv
    <2>2. lines[read + 1] \in Line
      BY <2>1
    <2>. QED
      BY <2>2 DEF Line
  <1>. DEFINE value == New(pool, n)
              w == value.word
              o == One(key, w)
              r == IF key \in DOMAIN store
                   THEN Increase([pool |-> value.pool, map |-> store], key, n)
                   ELSE [pool |-> value.pool, map |-> With(store, key, w)]
              q == Clear(r.pool, w)
              e == exact.store
              f == Plus(e, key, n)
  <1>3. /\ pool' = q /\ store' = r.map
        /\ copied' = (copied \/ (key \notin DOMAIN store /\ IsLarge(w)))
        /\ exact' = [exact EXCEPT !.store = f]
        /\ read' = read + 1
        /\ UNCHANGED <<process, static_store, lines>>
    BY <1>2 DEF ExtractLine
  <1>4. exact' = [store |-> f, static_store |-> exact.static_store]
    BY <1>3 DEF Inv, TypeInv
  <1>5. /\ pool \in Pools /\ Typed(pool, NoCounts, store)
        /\ IsCounts(e) /\ DOMAIN e = DOMAIN store
    BY <1>1 DEF Inv, TypeInv, Typed
  \* The number read is a map of its own beside the store.
  <1>6. Replaced(pool, NoCounts, key, value.pool, o) /\ o = [k \in DOMAIN o |-> o[k]]
    <2>1. Gives(pool, Word(0), value)
      BY <1>5, NewIs
    <2>2. DOMAIN o = {key} /\ o[key] = value.word /\ DOMAIN NoCounts = {}
      BY DEF One, NoCounts
    <2>3. o = [k \in DOMAIN o |-> o[k]]
      BY DEF One
    <2>. HIDE DEF value, o
    <2>4. Gives(pool, Word(0), [pool |-> value.pool, word |-> o[key]])
      BY <2>1, <2>2 DEF Gives
    <2>. QED
      BY <2>2, <2>3, <2>4 DEF Replaced
  <1>7. Typed(value.pool, store, o) /\ w \in Words(value.pool)
    <2>1. Gives(pool, Word(0), value)
      BY <1>5, NewIs
    <2>. HIDE DEF value, o
    <2>2. Typed(value.pool, o, store)
      BY <1>5, <1>6, ReplacedTyped
    <2>. QED
      BY <2>1, <2>2 DEF Typed, Gives
  <1>8. ~copied => /\ Sound(value.pool, store, o)
                   /\ \A k : ValueOf(value.pool, store, k) = ValueOf(pool, store, k)
    <2>1. ~copied => Sound(pool, NoCounts, store)
      BY <1>1, SoundSymmetric DEF Inv, RightInv
    <2>. HIDE DEF value, o
    <2>. QED
      BY <1>6, <2>1, ReplacedSound, SoundSymmetric
  <1>9. o[key] = w /\ key \in DOMAIN o /\ Without(o, key) = NoCounts
    BY DEF One, Without, NoCounts
  <1>10. IsCounts(f) /\ Adds(f, e, key) /\ At(f, key) = At(e, key) + n
         /\ \A k : k # key => At(f, k) = At(e, k)
    <2>. HIDE DEF e
    <2>. QED
      BY <1>5, PlusIs
  <1>11. Typed(r.pool, r.map, o) /\ Adds(r.map, store, key)
    <2>1. CASE key \in DOMAIN store
      <3>1. r = Increase([pool |-> value.pool, map |-> store], key, n)
        BY <2>1
      <3>. HIDE DEF r, value, o
      <3>. QED
        BY <1>7, <3>1, IncreaseTyped
    <2>2. CASE key \notin DOMAIN store
      <3>1. r.pool = value.pool /\ r.map = With(store, key, w)
        BY <2>2
      <3>. HIDE DEF r, value, w, o
      <3>2. IsMap(value.pool, r.map) /\ DOMAIN r.map = DOMAIN store \cup {key}
        BY <1>7, <3>1, WithIs DEF Typed
      <3>. QED
        BY <1>7, <3>1, <3>2 DEF Typed, Adds
    <2>. QED
      BY <2>1, <2>2
  <1>12. Typed(q, r.map, NoCounts)
    <2>1. Typed(r.pool, o, r.map)
      BY <1>11 DEF Typed
    <2>. HIDE DEF r, w, o
    <2>2. Typed(Clear(r.pool, o[key]), Without(o, key), r.map)
      BY <1>9, <2>1, ClearTyped
    <2>. QED
      BY <1>9, <2>2 DEF Typed
  <1>13. ASSUME ~copied'
         PROVE  /\ Sound(r.pool, r.map, o)
                /\ \A k \in 1..NbKeys : ValueOf(r.pool, r.map, k) = At(f, k)
    <2>1. ~copied /\ (key \in DOMAIN store \/ ~ IsLarge(w))
      BY <1>3, <1>13
    <2>2. \A k \in 1..NbKeys : ValueOf(value.pool, store, k) = At(e, k)
      BY <1>8, <2>1 DEF Inv, RightInv, Agrees
    <2>3. CASE key \in DOMAIN store
      <3>1. r = Increase([pool |-> value.pool, map |-> store], key, n)
        BY <2>3
      <3>. HIDE DEF r, value, o, e, f
      <3>2. /\ Sound(r.pool, r.map, o)
            /\ ValueOf(r.pool, r.map, key) = ValueOf(value.pool, store, key) + n
            /\ SameButAt(r.pool, r.map, value.pool, store, key)
        BY <1>8, <2>1, <3>1, IncreaseSound
      <3>. QED
        BY <1>10, <2>2, <3>2 DEF SameButAt
    <2>4. CASE key \notin DOMAIN store
      <3>1. r.pool = value.pool /\ r.map = With(store, key, w) /\ ~ IsLarge(w)
        BY <2>1, <2>4
      <3>2. NumberAt(value.pool, w) = n
        BY <1>5, NewIs
      <3>. HIDE DEF r, value, w, o, e, f
      <3>3. /\ DOMAIN r.map = DOMAIN store \cup {key} /\ r.map[key] = w
            /\ \A k \in DOMAIN store : k # key => r.map[k] = store[k]
            /\ Replaced(value.pool, store, key, value.pool, r.map)
            /\ r.map = [k \in DOMAIN r.map |-> r.map[k]]
        BY <1>7, <3>1, WithIs DEF Typed
      <3>4. Sound(value.pool, r.map, o)
        BY <1>8, <2>1, <3>3, ReplacedSound
      <3>5. \A k \in 1..NbKeys : k # key =>
                ValueOf(value.pool, r.map, k) = ValueOf(value.pool, store, k)
        <4>1. \A k \in DOMAIN store : k # key =>
                  ValueOf(value.pool, r.map, k) = ValueOf(value.pool, store, k)
          BY <3>3 DEF ValueOf
        <4>. QED
          BY <3>3, <4>1 DEF ValueOf
      <3>6. ValueOf(value.pool, r.map, key) = n
        BY <3>2, <3>3 DEF ValueOf
      <3>7. At(f, key) = n
        BY <1>5, <1>10, <2>4 DEF At
      <3>. QED
        BY <1>10, <2>2, <3>1, <3>4, <3>5, <3>6, <3>7
    <2>. QED
      BY <2>3, <2>4
  <1>14. ASSUME ~copied'
         PROVE  Sound(q, r.map, NoCounts) /\ Agrees(q, r.map, f)
    <2>1. Sound(r.pool, o, r.map)
      BY <1>13, <1>14, SoundSymmetric
    <2>. HIDE DEF r, w, o, f
    <2>2. Sound(Clear(r.pool, o[key]), Without(o, key), r.map)
      BY <1>9, <2>1, ClearSound
    <2>3. Sound(q, r.map, NoCounts)
      BY <1>9, <2>2, SoundSymmetric
    <2>4. r.pool \in Pools /\ w \in Words(r.pool)
      BY <1>9, <2>1 DEF Sound, Typed, IsMap
    <2>5. q.cells = r.pool.cells
      BY <2>4, ClearIs
    <2>6. \A k : ValueOf(q, r.map, k) = ValueOf(r.pool, r.map, k)
      BY <2>5 DEF ValueOf, NumberAt
    <2>. QED
      BY <1>13, <1>14, <2>3, <2>6 DEF Agrees
  <1>. HIDE DEF q, r, f
  <1>15. TypeInv'
    <2>1. IsCounts(f) /\ DOMAIN f = DOMAIN r.map
      BY <1>5, <1>10, <1>11 DEF Adds
    <2>2. Typed(q, r.map, static_store)
      BY <1>1, <1>12
    <2>. QED
      BY <1>3, <1>4, <2>1, <2>2 DEF Inv, TypeInv
  <1>16. ProcessInv'
    BY <1>1, <1>3 DEF ProcessInv
  <1>17. RightInv'
    <2>. SUFFICES ASSUME ~copied'
                  PROVE  /\ Sound(q, r.map, static_store)
                         /\ Agrees(q, r.map, f)
                         /\ Agrees(q, static_store, exact.static_store)
      BY <1>1, <1>3, <1>4 DEF RightInv
    <2>1. Agrees(pool, static_store, exact.static_store)
      BY <1>3 DEF Inv, RightInv
    <2>2. Agrees(q, static_store, exact.static_store)
      BY <1>1, <2>1 DEF Agrees, ValueOf, NoCounts
    <2>. QED
      BY <1>1, <1>14, <2>2
  <1>. QED
    BY <1>15, <1>16, <1>17 DEF Inv

LEMMA NextInv == Inv /\ [Next]_vars => Inv'
  BY RegisterCurveInv, FlushToStaticStoreInv, FlushStaticStoreInv, StartMergerInv,
     ExtractLineInv, StutterInv DEF Next

\* What the maps, the files and the pool hold has its type in every state that is
\* reached: the keys are those of the counts that should be there, every word is a
\* number or names a cell of the pool, and every cell given back is one of it.
THEOREM TypeCorrect == Spec => []TypeInv
  <1>1. Init => Inv
    BY InitInv
  <1>2. Inv /\ [Next]_vars => Inv'
    BY NextInv
  <1>3. Inv => TypeInv
    BY DEF Inv
  <1>. QED
    BY <1>1, <1>2, <1>3, PTL DEF Spec

\* What the invariant says of one of the stores.
LEMMA NumbersAre ==
    ASSUME NEW map, NEW e, IsMap(pool, map), IsCounts(e), DOMAIN e = DOMAIN map,
           Agrees(pool, map, e)
    PROVE  Numbers(map) = e
  <1>1. \A key \in DOMAIN map : NumberAt(pool, map[key]) = e[key]
    BY DEF Agrees, ValueOf, At, IsMap
  <1>2. e = [key \in DOMAIN map |-> e[key]]
    BY DEF IsCounts
  <1>. QED
    BY <1>1, <1>2 DEF Numbers

LEMMA InvRight == Inv => RightUntilCopied
  <1>. SUFFICES ASSUME Inv, ~copied
                PROVE  /\ Numbers(store) = exact.store
                       /\ Numbers(static_store) = exact.static_store
                       /\ process = "count" =>
                             \A i \in DOMAIN lines : lines[i].count = lines[i].correct
                       /\ \A v, w \in Owners : CellOf(v) = CellOf(w) => v = w
                       /\ \A w \in Owners, i \in DOMAIN pool.free : pool.free[i] # CellOf(w)
                       /\ \A i, j \in DOMAIN pool.free : pool.free[i] = pool.free[j] => i = j
    BY DEF RightUntilCopied
  <1>1. Sound(pool, store, static_store)
    BY DEF Inv, RightInv
  <1>2. Numbers(store) = exact.store /\ Numbers(static_store) = exact.static_store
    BY NumbersAre DEF Inv, TypeInv, RightInv, Typed
  <1>3. ASSUME NEW w \in Owners
        PROVE  \/ /\ w[1] = "store" /\ w[2] \in DOMAIN store /\ IsLarge(store[w[2]])
                  /\ CellOf(w) = store[w[2]].cell
               \/ /\ w[1] = "static_store" /\ w[2] \in DOMAIN static_store
                  /\ IsLarge(static_store[w[2]]) /\ CellOf(w) = static_store[w[2]].cell
    BY DEF Owners, CellOf
  <1>4. ASSUME NEW v \in Owners, NEW w \in Owners, CellOf(v) = CellOf(w)
        PROVE  v = w
    <2>1. v = <<v[1], v[2]>> /\ w = <<w[1], w[2]>>
      BY DEF Owners
    <2>2. v[1] = w[1] /\ v[2] = w[2]
      BY <1>1, <1>3, <1>4 DEF Sound, Apart, Disjoint
    <2>. QED
      BY <2>1, <2>2
  <1>5. \A w \in Owners, i \in DOMAIN pool.free : pool.free[i] # CellOf(w)
    BY <1>1, <1>3 DEF Sound, NotFree
  <1>6. \A i, j \in DOMAIN pool.free : pool.free[i] = pool.free[j] => i = j
    BY <1>1 DEF Sound, FreeOnce
  <1>. QED
    BY <1>2, <1>4, <1>5, <1>6 DEF Inv, RightInv

\* As long as no word of a large number has been copied, which std::map's operator=
\* of a new key does, the counts in memory and those written to the store files are
\* the ones of the curves registered, for any size of numbers that FLINT keeps in
\* the word, and the cells of FLINT's pool have one owner each: what goes wrong
\* afterwards has no other cause.
THEOREM RightWhileNoneIsCopied == Spec => []RightUntilCopied
  <1>1. Init => Inv
    BY InitInv
  <1>2. Inv /\ [Next]_vars => Inv'
    BY NextInv
  <1>3. Inv => RightUntilCopied
    BY InvRight
  <1>. QED
    BY <1>1, <1>2, <1>3, PTL DEF Spec
=============================================================================
