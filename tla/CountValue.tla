----------------------------- MODULE CountValue -----------------------------
(***************************************************************************)
(* How the counts of a store are kept (Count::ValueType of                 *)
(* src/src/store/store_data.hh).  A count is an fmpz: a number up to       *)
(* SmallMax is the word itself; for a larger one the word names a cell of  *)
(* FLINT's pool.  ValueType has a destructor that gives the cell back, and *)
(* no copy of its own: an assignment copies the word.  One thread counts   *)
(* curves into its store, adds it to the static one, and saves that; a     *)
(* merger, another process, reads the lines back.                          *)
(***************************************************************************)
EXTENDS Naturals, Sequences, FiniteSets

CONSTANTS
    SmallMax,       \* the largest number kept in the word
    Multiplicity,   \* of the curves: numbers of three factors below the prime
                    \* power, small ones for every field that can be run through
    NbKeys,         \* keys are the numbers up to NbKeys, in the order of the map
    Twin,           \* the twisted key of each
    MaxCurves, MaxSaves

ASSUME CountValueAssumption ==
    /\ SmallMax \in Nat /\ NbKeys \in Nat
    /\ Multiplicity \subseteq 1..SmallMax
    /\ Twin \in [1..NbKeys -> 1..NbKeys]
    /\ \A key \in 1..NbKeys : Twin[Twin[key]] = key
    /\ MaxCurves \in Nat /\ MaxSaves \in Nat

VARIABLES
    process,        \* "count" or "merge"
    pool,           \* cells: what each cell has; free: the ones given back
    store, static_store,    \* key -> word
    lines,          \* of the store files: the key, the count printed, and (history)
                    \* the one that should be
    read,           \* how many lines the merger has read
    exact,          \* history: the counts that store and static_store should have
    copied,         \* history: the word of a large number has been copied
    curves, saves   \* how many so far

vars == <<process, pool, store, static_store, lines, read, exact, copied, curves, saves>>

EmptyPool == [cells |-> <<>>, free |-> <<>>]
NoCounts == [key \in {} |-> 0]

Init ==
    /\ process = "count"
    /\ pool = EmptyPool
    /\ store = NoCounts /\ static_store = NoCounts
    /\ lines = <<>> /\ read = 0
    /\ exact = [store |-> NoCounts, static_store |-> NoCounts]
    /\ copied = FALSE
    /\ curves = 0 /\ saves = 0

-----------------------------------------------------------------------------
(* FLINT                                                                   *)

Word(n) == [cell |-> 0, n |-> n]
CellWord(c) == [cell |-> c, n |-> 0]
IsLarge(word) == word.cell # 0
NumberAt(p, word) == IF IsLarge(word) THEN p.cells[word.cell] ELSE word.n

\* _fmpz_new_mpz: the cell given back last, or a new one.
WithLarge(p, n) ==
    IF p.free = <<>>
    THEN [pool |-> [p EXCEPT !.cells = Append(@, n)], word |-> CellWord(Len(p.cells) + 1)]
    ELSE LET c == p.free[Len(p.free)]
         IN  [pool |-> [cells |-> [p.cells EXCEPT ![c] = n],
                        free |-> SubSeq(p.free, 1, Len(p.free) - 1)],
              word |-> CellWord(c)]

\* fmpz_set_str
New(p, n) == IF n <= SmallMax THEN [pool |-> p, word |-> Word(n)] ELSE WithLarge(p, n)

\* fmpz_add to a number in place
Add(p, word, n) ==
    IF IsLarge(word)
    THEN [pool |-> [p EXCEPT !.cells[word.cell] = @ + n], word |-> word]
    ELSE New(p, word.n + n)

\* fmpz_clear
Clear(p, word) ==
    IF IsLarge(word) THEN [p EXCEPT !.free = Append(@, word.cell)] ELSE p

-----------------------------------------------------------------------------

With(map, key, x) == [k \in DOMAIN map \cup {key} |-> IF k = key THEN x ELSE map[k]]
At(map, key) == IF key \in DOMAIN map THEN map[key] ELSE 0
Plus(map, key, n) == With(map, key, At(map, key) + n)

\* store[key] += n on a pool and a map of words; operator[] begins with zero.
Increase(state, key, n) ==
    LET old == IF key \in DOMAIN state.map THEN state.map[key] ELSE Word(0)
        sum == Add(state.pool, old, n)
    IN  [pool |-> sum.pool, map |-> With(state.map, key, sum.word)]

\* store[key] = data: a ValueType is made of the number and its word copied.
Put(state, key, n) == [state EXCEPT !.map = With(@, key, Word(n))]

\* register_curve
RegisterCurve ==
    /\ process = "count"
    /\ curves < MaxCurves
    /\ \E key \in 1..NbKeys, n \in Multiplicity :
         LET state == [pool |-> pool, map |-> store]
             new ==
                IF key \in DOMAIN store
                THEN Increase(Increase(state, key, n), Twin[key], n)
                ELSE IF Twin[key] = key THEN Increase(Put(state, key, n), key, n)
                ELSE Put(Put(state, key, n), Twin[key], n)
         IN  /\ pool' = new.pool
             /\ store' = new.map
             /\ exact' = [exact EXCEPT !.store = Plus(Plus(@, key, n), Twin[key], n)]
    /\ curves' = curves + 1
    /\ UNCHANGED <<process, static_store, lines, read, copied, saves>>

\* The words of a map given back one after the other, which std::map::clear does.
Cleared(p, map) ==
    LET after[key \in 0..NbKeys] ==
            IF key = 0 THEN p
            ELSE IF key \in DOMAIN map THEN Clear(after[key - 1], map[key])
            ELSE after[key - 1]
    IN  after[NbKeys]

\* The loop of flush_to_static_store: numbers that are there are added to, words
\* of new keys are copied.
Flushed(state, map) ==
    LET after[key \in 0..NbKeys] ==
            IF key = 0 THEN state
            ELSE IF key \notin DOMAIN map THEN after[key - 1]
            ELSE IF key \in DOMAIN state.map
            THEN Increase(after[key - 1], key, NumberAt(after[key - 1].pool, map[key]))
            ELSE [after[key - 1] EXCEPT !.map = With(@, key, map[key])]
    IN  after[NbKeys]

\* Mutant: the store is not cleared, and a thread's next block adds to it.
FlushToStaticStore_notCleared ==
    /\ process = "count"
    /\ store # NoCounts
    /\ LET new == Flushed([pool |-> pool, map |-> static_store], store)
       IN  /\ static_store' = new.map
           /\ pool' = new.pool
    /\ copied' = (copied \/ \E key \in DOMAIN store \ DOMAIN static_store : IsLarge(store[key]))
    /\ exact' = [store |-> NoCounts,
                 static_store |->
                    [key \in DOMAIN store \cup DOMAIN static_store |->
                        At(exact.store, key) + At(exact.static_store, key)]]
    /\ UNCHANGED <<process, store, lines, read, curves, saves>>

FlushToStaticStore ==
    /\ process = "count"
    /\ store # NoCounts
    /\ LET new == Flushed([pool |-> pool, map |-> static_store], store)
       IN  /\ static_store' = new.map
           /\ pool' = Cleared(new.pool, store)
    /\ store' = NoCounts
    /\ copied' = (copied \/ \E key \in DOMAIN store \ DOMAIN static_store : IsLarge(store[key]))
    /\ exact' = [store |-> NoCounts,
                 static_store |->
                    [key \in DOMAIN store \cup DOMAIN static_store |->
                        At(exact.store, key) + At(exact.static_store, key)]]
    /\ UNCHANGED <<process, lines, read, curves, saves>>

\* The lines of a map of words.
Lines(map, correct) ==
    LET after[key \in 0..NbKeys] ==
            IF key = 0 THEN <<>>
            ELSE IF key \in DOMAIN map
            THEN Append(after[key - 1], [key |-> key, count |-> NumberAt(pool, map[key]),
                                         correct |-> correct[key]])
            ELSE after[key - 1]
    IN  after[NbKeys]

FlushStaticStore ==
    /\ process = "count"
    /\ saves < MaxSaves
    /\ lines' = lines \o Lines(static_store, exact.static_store)
    /\ pool' = Cleared(pool, static_store)
    /\ static_store' = NoCounts
    /\ exact' = [exact EXCEPT !.static_store = NoCounts]
    /\ saves' = saves + 1
    /\ UNCHANGED <<process, store, read, copied, curves>>

StartMerger ==
    /\ process = "count"
    /\ process' = "merge"
    /\ pool' = EmptyPool
    /\ store' = NoCounts /\ static_store' = NoCounts
    /\ exact' = [store |-> NoCounts, static_store |-> NoCounts]
    /\ copied' = FALSE
    /\ UNCHANGED <<lines, read, curves, saves>>

\* One round of extract: the number read lives until the end of the round.
ExtractLine ==
    /\ process = "merge"
    /\ read < Len(lines)
    /\ LET line == lines[read + 1]
           value == New(pool, line.count)
           new == IF line.key \in DOMAIN store
                  THEN Increase([pool |-> value.pool, map |-> store], line.key, line.count)
                  ELSE [pool |-> value.pool, map |-> With(store, line.key, value.word)]
       IN  /\ pool' = Clear(new.pool, value.word)
           /\ store' = new.map
           /\ copied' = (copied \/ (line.key \notin DOMAIN store /\ IsLarge(value.word)))
           /\ exact' = [exact EXCEPT !.store = Plus(@, line.key, line.count)]
    /\ read' = read + 1
    /\ UNCHANGED <<process, static_store, lines, curves, saves>>

Next ==
    \/ RegisterCurve
    \/ FlushToStaticStore
    \/ FlushStaticStore
    \/ StartMerger
    \/ ExtractLine

Spec == Init /\ [][Next]_vars

-----------------------------------------------------------------------------

Numbers(map) == [key \in DOMAIN map |-> NumberAt(pool, map[key])]

\* The cells that words of the stores name, with the stores.
Owners == {w \in {"store", "static_store"} \X (1..NbKeys) :
             LET map == IF w[1] = "store" THEN store ELSE static_store
             IN  w[2] \in DOMAIN map /\ IsLarge(map[w[2]])}
CellOf(w) == (IF w[1] = "store" THEN store ELSE static_store)[w[2]].cell

\* As long as no word of a large number is copied, all is well: large sums are
\* right too, those printed to the files included, no cell belongs to two of them,
\* and none of them was given back or is there twice to be given out again.
RightUntilCopied ==
    ~copied =>
        /\ Numbers(store) = exact.store
        /\ Numbers(static_store) = exact.static_store
        /\ process = "count" => \A i \in DOMAIN lines : lines[i].count = lines[i].correct
        /\ \A v, w \in Owners : CellOf(v) = CellOf(w) => v = w
        /\ \A w \in Owners, i \in DOMAIN pool.free : pool.free[i] # CellOf(w)
        /\ \A i, j \in DOMAIN pool.free : pool.free[i] = pool.free[j] => i = j

=============================================================================
