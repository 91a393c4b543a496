---------------------------- MODULE NodeCounting ----------------------------
(***************************************************************************)
(* One configuration node from its curves to the merged result.  The owner *)
(* of the pool runs through the blocks (executables/threaded.cc, 145-147); *)
(* each thread counts the curves of its block into a store of its own and  *)
(* adds that to the static one (threaded/thread.cc, 86-93); the static     *)
(* store is saved now and then; hycu-merger adds the files up              *)
(* (executables/merger.cc, 140-157).  How blocks get to threads, and what  *)
(* failures do, are the modules StandaloneWorkerPool and Merger.           *)
(***************************************************************************)
EXTENDS Curve, CurveIterator, Store

CONSTANTS
    NodeGenus, WithMarkedPoint, CountExponent, PackageSize,     \* of the ConfigNode
    Thread,
    MaxSaves        \* saves before the last one

ASSUME NodeAssumption ==
    /\ NodeGenus \in Nat \ {0} /\ PackageSize \in Nat \ {0}
    /\ CountExponent \in Nat \ {0} /\ CountExponent * PrimeExponent <= MaxExponent
    /\ MaxDegree \in DegreesOf(NodeGenus, WithMarkedPoint)
    /\ MaxSaves \in Nat

VARIABLES
    curves,         \* the owner's CurveIterator
    job,            \* per thread: its block and the store it has counted, or Idle
    static_record, static_store,
    running,        \* the pool has not been destroyed
    files,          \* pairs of record and store files
    left,           \* those that the merger has not read
    record, store   \* the merger's

vars == <<curves, job, static_record, static_store, running, files, left, record, store>>

Idle == [block |-> <<>>, counted |-> FALSE, store |-> EmptyStore]

Init ==
    /\ curves = NewCurveIterator(NodeGenus, WithMarkedPoint, PackageSize)
    /\ job = [t \in Thread |-> Idle]
    /\ static_record = {} /\ static_store = EmptyStore
    /\ running = TRUE
    /\ files = <<>>
    /\ left = {}
    /\ record = {} /\ store = EmptyStore

Assign(t) ==
    /\ ~IsEnd(curves)
    /\ job[t] = Idle
    /\ job' = [job EXCEPT ![t].block = AsBlock(Head(curves))]
    /\ curves' = StepCurveIterator(curves)
    /\ UNCHANGED <<static_record, static_store, running, files, left, record, store>>

-----------------------------------------------------------------------------

\* The positions that BlockIterator(block) runs through.
PositionsOf(block) ==
    LET size == FoldFunction(LAMBDA b, n : Size(b) * n, 1, block)
        iter[n \in 1..size] == IF n = 1 THEN FromBounds(block) ELSE Step(iter[n - 1])
    IN  [n \in 1..size |-> AsPosition(iter[n])]

\* The curves of the node are among the polynomials of its degrees.
Polynomials ==
    UNION {{f \in [1..(d + 1) -> 0..ZeroIndex(PrimeExponent)] :
                f[d + 1] # ZeroIndex(PrimeExponent)} :
           d \in DegreesOf(NodeGenus, WithMarkedPoint)}

\* The points of a curve over the fields that the thread has tables for, and its
\* key.
Counted(curve) ==
    [k \in Range(TableExponents(CountExponent)) |-> CountPoints(curve, k, FALSE)]
CurveKey == [curve \in Polynomials |-> KeyOf(curve, Counted(curve))]

Keys == [ramification_type : Seq(Nat \ {0}), hasse_weil_offsets : Seq(Int)]
ASSUME CurveKeyAssumption == CurveKey \in [Polynomials -> Keys]

Considered(curve) == HasSquarefreeRhs(curve)

\* The loop of a thread over its block.
StoreOf(block) ==
    LET register(s, position) ==
            LET curve == NewCurve(position)
            IN  IF Considered(curve)
                THEN RegisterCurve(s, CurveKey[curve],
                                   Multiplicity(RhsSupport(curve)))
                ELSE s
    IN  FoldLeft(register, EmptyStore, PositionsOf(block))

CountBlock(t) ==
    /\ job[t] # Idle
    /\ ~job[t].counted
    /\ job' = [job EXCEPT ![t].store = StoreOf(job[t].block), ![t].counted = TRUE]
    /\ UNCHANGED <<curves, static_record, static_store, running, files, left, record, store>>

FlushToStaticStore(t) ==
    /\ job[t].counted
    /\ static_record' = static_record \cup {job[t].block}
    /\ static_store' = MergedInto(static_store, job[t].store)
    /\ job' = [job EXCEPT ![t] = Idle]
    /\ UNCHANGED <<curves, running, files, left, record, store>>

-----------------------------------------------------------------------------

\* Mutant: the record is taken, and not cleared.
Save_recordKept ==
    /\ files' = Append(files, [record |-> RecordLines(static_record),
                               store |-> Inserted(static_store)])
    /\ static_store' = EmptyStore
    /\ UNCHANGED static_record

\* flush_static_store and FileStore::save.
Save ==
    /\ files' = Append(files, [record |-> RecordLines(static_record),
                               store |-> Inserted(static_store)])
    /\ static_record' = {}
    /\ static_store' = EmptyStore

\* delayed_save_global_stores_to_file, on assigning any block.
SaveNow ==
    /\ ~IsEnd(curves)
    /\ Len(files) < MaxSaves
    /\ Save
    /\ UNCHANGED <<curves, job, running, left, record, store>>

\* Mutant: the blocks that have been assigned are not waited for.
SaveLast_atOnce ==
    /\ running
    /\ IsEnd(curves)
    /\ Save
    /\ running' = FALSE
    /\ left' = DOMAIN files'
    /\ UNCHANGED <<curves, job, record, store>>

\* The destructor of the pool waits for the blocks and saves what is left; the
\* merger starts.
SaveLast ==
    /\ running
    /\ IsEnd(curves)
    /\ \A t \in Thread : job[t] = Idle
    /\ Save
    /\ running' = FALSE
    /\ left' = DOMAIN files'
    /\ UNCHANGED <<curves, job, record, store>>

\* One round of the merger's loop, in the order of the directory.
MergePair ==
    /\ \E i \in left :
         /\ record' = ExtractedRecord(record, files[i].record)
         /\ store' = Extracted(store, files[i].store)
         /\ left' = left \ {i}
    /\ UNCHANGED <<curves, job, static_record, static_store, running, files>>

Next ==
    \/ \E t \in Thread : Assign(t) \/ CountBlock(t) \/ FlushToStaticStore(t)
    \/ SaveNow
    \/ SaveLast
    \/ MergePair

Spec == Init /\ [][Next]_vars

-----------------------------------------------------------------------------

\* How many curves a block stands for, and a set of blocks.
CurvesOf(block) ==
    LET add(n, position) ==
            LET curve == NewCurve(position)
            IN  IF HasSquarefreeRhs(curve) THEN n + 2 * Multiplicity(RhsSupport(curve)) ELSE n
    IN  FoldLeft(add, 0, PositionsOf(block))
NumberOfCurves(blocks) == MapThenSumSet(CurvesOf, blocks)

\* Each file pair is complete in itself, whenever the saves fell: its store has as
\* many curves as the blocks that its record lists, and no two records list the
\* same block.
PairsAreConsistent ==
    ~running /\ left = DOMAIN files =>
        \A i \in DOMAIN files :
          /\ FoldLeft(LAMBDA n, line : n + line.count, 0, files[i].store)
               = NumberOfCurves(files[i].record)
          /\ \A j \in DOMAIN files \ {i} : files[i].record \cap files[j].record = {}

\* How many polynomials without square factors belong to a key by their factors
\* and by the naive count.
ReferenceKey ==
    [f \in Polynomials |->
        [ramification_type |-> FactoredRamification(f),
         hasse_weil_offsets |->
            [i \in 1..CountExponent |->
                HasseWeilOffset(i * PrimeExponent, CountNaiveNmod(f, i * PrimeExponent))]]]
ASSUME ReferenceKeyAssumption == ReferenceKey \in [Polynomials -> Keys]
ReferenceStore ==
    LET squarefree == {f \in Polynomials : HasSquarefreeRhs(f)}
    IN  [key \in {ReferenceKey[f] : f \in squarefree} |->
            Cardinality({f \in squarefree : ReferenceKey[f] = key})]

\* "The results are stored [...] After the colon the curve count is provided"
\* (README.md, Store type EC): the merged result has, for each ramification type
\* and each list of offsets, the number of all right hand sides of the genus with
\* these, though only some of the curves have been counted.
MergedIsRight ==
    ~running /\ left = {} => store = ReferenceStore
=============================================================================
