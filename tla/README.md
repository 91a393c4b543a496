# Verification of hycu

hycu counts points on hyperelliptic curves over finite fields. A *configuration
node* names a prime, a degree and the coefficients to run through; the curves of
a node are handed out in *blocks*; worker threads (in one process, or in many
under MPI) count the curves of a block; the counts are merged into a *store*,
saved to files, and put together by a separate program, the merger.

This directory holds TLA+ modules translated from `src/src`, the TLC
configurations that check small instances of them, and proofs that TLAPS checks
for instances of every size. Paths below are relative to `src/src`.

## 1. Inventory

| Component | Source | State | Operations | Modelled in |
|---|---|---|---|---|
| Worker threads | `threaded/thread.cc` | flag, queue of blocks with their tables, the current tables; a mutex for each of the data and the condition variable | `spark`, `shutdown`, `assign`, `update_config`, `main_thread` | `Thread`, `ThreadClient` |
| Thread pool | `threaded/thread_pool.cc` | deque of idle threads, ready threads, map of busy threads, finished blocks | `spark_threads`, `shutdown_threads`, `update_config`, `assign`, `finished_block`, `flush_ready_threads`, `flush_finished_blocks` | `ThreadPool` |
| Standalone worker pool | `worker_pool/standalone.cc`, `executables/threaded.cc` | counters of idle threads, assigned blocks, the file store in use | `update_config`, `assign`, `fill_idle_queues`, `wait_for_assigned_blocks`, the saves, the destructor | `StandaloneWorkerPool`, `PointCount` |
| MPI worker pool | `worker_pool/mpi.cc`, `mpi_worker.cc`, `executables/mpi.cc` | per process: idle counts, assigned blocks, pool, static stores; channels | broadcast of the pool, nodes, assignment, ready and finished threads, stores, shutdown | `MPIWorkerPool` |
| Static store | `store/store.cc` | record and store that all threads merge into | `register_curve`, `flush_to_static_store`, `flush_static_store`, `insert`, `extract` | `Store`, `NodeCounting`; `FileStore` for saves and crashes |
| File store | `store/file_store.cc` | pairs of files (record and store), the record found at start | constructor, `contains`, `save` | `FileStore`, `Merger` |
| Curve and store data | `store/curve_data.*`, `store/store_data.*` | offsets, ramification type, counts as `fmpz` | twists, comparison, the lines of a store, copies of counts | `Store`, `CountValue` |
| Merger | `executables/merger.cc` | union of records, sum of stores | the loop over the pairs, the output | `Merger`, `NodeCounting` |
| Configuration | `config/config_node.cc`, `executables/threaded.cc` | the nodes in their order | `decode`, `verify` | `ConfigNode`; `Config` for the pools |
| Block iterator | `block_iterator.cc` | positions, steps, bounds, order of update | constructors, `step`, `as_block`, `as_position`, `as_block_enumerator` | `BlockIterator`, `CurveEnumeration` |
| Curve iterator | `curve_iterator.cc` | enumerators of normal forms | the enumerators of the three cases, `step`, `multiplicity` | `CurveIterator`, `CurveEnumeration` |
| Field tables | `fq_element_table.cc`, `reduction_table.cc` | powers of a generator, logarithms of 1 + a | both constructors, `reduce_index`, coset representatives | `FieldTables`, `TableConstruction`, `CurveCounting` |
| Curve | `curve.cc`, `single_curve_fp.cc`, `executables/single.cc` | coefficients, numbers of points | counting in four ways, `ramification_type`, `hasse_weil_offsets`, `has_squarefree_rhs`; `hycu-single` | `Curve`, `CurveCounting` |
| OpenCL | `opencl/*.cl`, `opencl/*.cc` | command queue, buffers of the device, local memory | kernel `evaluate`, kernel `reduce`, `enqueue`, `reduce` | kernel `evaluate` in `Curve` |

### How they interact

* The **main thread** runs `executables/threaded.cc`: for each node it calls
  `update_config`, and for each block of the node `assign`; the destructor ends
  the run. It is the only caller of the pool's methods, except
  `finished_block`, which the worker threads call.
* **Shared state.** The queue and flag of a thread are under the thread's
  `data_mutex`; the pool's containers are under the pool's `data_mutex`; static
  record and store are under `static_mutex`. The counters of idle threads and
  `assigned_blocks` belong to the main thread alone and repeat what the pool
  knows: keeping both in agreement is the pool's main obligation.
* **Signals.** `assign` and `shutdown` notify a condition variable that
  `main_thread` waits on.
* **Messages.** Under MPI the master broadcasts the pool's parameters once,
  then sends each worker process nodes, blocks, questions for ready threads,
  finished blocks and stores, and the shutdown. Only the questions are answered.
* **Counting.** For a block a thread runs through its positions
  (`BlockIterator`), makes a `Curve` of each, skips it if the right hand side
  has a square factor, counts its points over each field of the node with the
  tables (on its OpenCL device, if it has one), and registers the key with the
  multiplicity that `CurveIterator` gives. Curve and twist are registered
  together.
* **Files.** `save` writes a store file, then a record file. A later run reads
  all records under the node's path and does not assign the blocks they list.
  The merger reads the pairs with a record and writes one pair of its own.

### What is hard here, and what makes each part correct

* *Threads*: the test of the queue and the wait are not one step; blocks carry
  the tables of the time of `assign`. Correct: nothing queued is lost,
  reordered or counted with another node's tables; a queued block is popped;
  `shutdown` returns.
* *Pool and owner*: two descriptions of the same threads, updated at different
  times; `throw;` outside of a handler (which ends the program) guards the
  disagreements. Correct: the descriptions agree, no throw is reached, a block
  is with one thread or finished.
* *Saving*: a save falls between the merges of several threads; the next node's
  file store replaces the current one; crashes and full disks happen between
  and during the two writes. Correct: a pair of files holds the counts of
  exactly the blocks it lists; no block is listed twice; a block that is listed
  is never lost; what is recorded at the end is everything.
* *MPI*: updates that are not acknowledged, reports that arrive while a save is
  on its way, a broadcast that only some processes enter. Correct: as for the
  standalone pool, over all processes and what is on its way between them.
* *Merger and result paths*: pairs that crashes, other runs or other package
  sizes have left behind. Correct: the output is the sum of what its record
  lists, each block once.
* *Enumeration*: blocks of coordinates with steps, lists and dependent lists;
  three kinds of normal forms with weights for what they leave out. Correct:
  each position comes up once; the weights of the curves of an orbit add up to
  its size.
* *Arithmetic*: sums of logarithms index tables; a generator has to be found;
  counts leave the machine word. Correct: the four ways of counting agree with
  the equation, the tables are those of the field, each key of the result
  has the number of curves that it has.
* *OpenCL*: a command queue that is worked off later, barriers between the
  steps of a reduction (see section 7 for why this is not modelled).

`PROJECT.json` lists every hazard with its line, and the properties that cover
it.

## 2. Modules

```
Pools and files
  Config ── Thread ── ThreadClient ── ThreadClientProofs
     │         └───── ThreadPool ──┐
     ├── FileStore ────────────────┴─ StandaloneWorkerPool ── StandaloneWorkerPoolProofs
     │       │
     │       ├── FileStoreProofs (lemmas) ─┬───────────── StandaloneWorkerPoolProofs
     │       │                             ├── MPIWorkerPoolProofs
     │       │                             └── MergerProofs
     │       ├── MPIWorkerPool ── MPIWorkerPoolProofs
     │       └── Merger ── MergerProofs
     └── PointCount (abstract) ─── INSTANCE in StandaloneWorkerPool, MPIWorkerPool
  CountValue ── CountValueProofs

Curves
  FiniteField ── FieldTables ─┬─ TableConstruction ─┐
                              ├─ Curve ─────────────┴─ CurveCounting ── CurveCountingProofs
                              │
  BlockIterator ──────────────┴─ CurveIterator ─┐
                                   │            ├─ CurveEnumeration ── INSTANCE Enumeration (abstract)
  ConfigNode ──────────────────────┼────────────┘
  Curve, CurveIterator, Store ─────┴─ NodeCounting ── NodeCountingProofs
```

An `MC` module beside a module gives the values of constants that a
configuration file cannot write down.

*Threads and pools*

* **Config**: `Node` and `Block`, the work of a run. Blocks are numbered in the
  order in which `CurveIterator` yields them.
* **Thread**: `main_thread` and the methods of a thread. `pc[t]` is the position
  of `main_thread`, `call` the position of the caller inside `assign` or
  `shutdown`. One action per critical section or per call on the condition
  variable. `main_mutex` is held by `main_thread` at all times except inside
  `wait`, and no one else locks it: it excludes nothing, which is why
  `ReadState` and `EnterWait` are two actions and `Wake` has no effect on a
  thread between them.
* **ThreadClient**: the threads under the most general caller.
  **ThreadClientProofs**: its invariant, proved.
* **ThreadPool**: the pool's containers. A method holds the pool's `data_mutex`
  from start to end and is one action, except `assign`, which calls
  `Thread::assign` and keeps the pool locked (`Unlocked`) over its two steps:
  the push and the notification.
* **FileStore**: static record and store, and the pairs of files. `save` is four
  steps: create the store file, write it, create the record file, write it.
* **StandaloneWorkerPool**: all of it composed with the main thread, whose
  position is `main`, and with crashes. `within` is the method that
  `wait_for_assigned_blocks` and `save_global_stores_to_file` return to. After
  `NotifyAssigned` the pool is unlocked, and a thread may report its block before
  the owner has inserted it (`Insert`).
* **MPIWorkerPool**: the master's `main` and `within`, the `worker` position of
  each other process, the channels `inbox` and `outbox`, and each process's
  `pool` seen through the methods that its owner calls (how many threads are
  idle or ready, what the others work on), with its static stores. The actions
  are the methods of the master up to the next message it waits for, the cases
  of the worker's loop, and the steps of threads. `asleep[p]` are the
  notifications that a thread of process `p` missed, and sleeps on after. Files
  are `FileStore`'s, and writing a store may have an error where `FaultyStore`
  says so.
* **PointCount**: what a run promises of the records, without threads, messages,
  saves or files. Both pools implement it.
* **StandaloneWorkerPoolProofs**: the inductive invariant of the bookkeeping, that of
  memory and files on top of it, their proofs and what follows from them, and the
  proof that the records implement `PointCount`.
* **MPIWorkerPoolProofs**: the inductive invariant of the master's books, the pools
  and the channels, its proof and what follows from it; then where the blocks and
  counts of the node are, over all processes and messages, the files, and
  `PointCount` again.
* **FileStoreProofs**: what the steps of `save` do to the pairs of files, as lemmas
  for the two pools and the merger.

*Merger and counts*

* **Merger**: the calls, the loop over the pairs (record, then store), and the
  two files of the output, beside a run that writes pairs with `FileStore`'s
  steps; either may be killed. The run may be started again with another
  package size, and the merger onto the output that it has: opening a file
  empties it, so that the store may be empty beside an earlier record (`cut`).
  A block is known by its bounds alone.
* **MergerProofs**: the inductive invariant of run and merger, and its proof.
* **CountValue**: the words of counts and FLINT's pool of cells, through
  `register_curve`, the merge of stores, saves, and reading back. What
  `fmpz` does is external; who copies, clears and destroys a word is the code's.
* **CountValueProofs**: what the operations do to the pool and to the owners of its
  cells, key by key, and the inductive invariant.

*Curves*

* **FiniteField** (external): the fields with `Prime^k` elements by their Conway
  polynomials, polynomials, and factoring by its definition.
* **FieldTables**: the tables as functions. **TableConstruction**: the loops of
  the two constructors with any sequence of candidates for the generator;
  `exponent` and `gen_power` are `prime_exponent` and the `a` of the code.
* **Curve**: `count` (with the kernel `evaluate`, which does the same for one
  element), the two naive counts, `ramification_type`, `hasse_weil_offsets`.
  **CurveCounting**: what a thread does with one curve, after its tables are
  made, and what `hycu-single` does with one. `left` are the fields that the
  loop has still to count over, `key` is what a store would enter.
* **CurveCountingProofs**: the loops of the two constructors, in every field,
  what adding 1 does to the digits of an element, and the ways of counting: arithmetic
  of logarithms, polynomials, numbers of points.
* **BlockIterator**: an iterator as a record of its members, with one operator
  per method. **CurveIterator**: the enumerators of a genus, and `multiplicity`.
* **ConfigNode**: `decode` and `verify`; a node of the file is a record of the
  keys it has, and a conversion from `int` to `unsigned int` is a remainder.
* **CurveEnumeration**: owner and thread using the iterators of a node, block
  by block and position by position. **Enumeration**: what running through a
  set promises. For comparison there are the orbits, computed from the group.
* **Store**: stores as functions from keys to counts; twist, registration, merge,
  the lines of a file.
* **NodeCounting**: a node from its curves to the merged result: iterator, curve,
  store, threads, saves and merger composed. **NodeCountingProofs**: its inductive
  invariant, with what it takes of sums, stores, iterators and curves.

Operators whose comment begins with "Mutant" are faulty variants of the operator
after them; nothing refers to them. `PROJECT.json` pairs each with the property
that fails when it takes the place of the correct one.

### Abstractions

* In the modules about pools and files, the counts of a block are the number of
  times they were added in, for each node whose tables were used: enough to see
  a block that is lost, counted twice, or counted for the wrong node. How a
  block is counted is the subject of the modules about curves, where nothing
  fails.
* `ready_threads` and `finished_blocks` are vectors in the code and sets here.
  Their order decides nothing but the order of the idle deque, which is left
  open. That no element is pushed to a vector that has it already follows from
  `IInv` (a ready thread owns no block, a busy block is not finished).
* The number of threads of a pool, computed in `spark_threads` from the
  options, the hardware and the OpenCL devices, is a constant.
* For the pools, `ConfigNode::verify` is a constant set `BadNode`.
* `delayed_save_global_stores_to_file` compares clocks: the models may save
  before any block.
* For the pools each node has its own `ResultPath`. The record reader's extra
  entry for the end of the file is a block no node has; only `Store` has it.
* A crash ends the process, or the job, between two steps and keeps the files. A
  record that was being written holds any part of its blocks afterwards (in
  `Merger`: none). A store that was being written is not observable without its
  record, and is left empty.
* A failed write of the store leaves what was there and sets `failed`, which
  only properties read. Stores of the two pools may fail, those of `Merger`
  do not: what the merger makes of a store that lacks its counts is the sum
  of what it reads.
* The pool of an MPI process is a step coarser than `ThreadPool`: a thread takes,
  counts and merges a block, and then reports it. Of the protocol of `Thread` there
  is what the other processes can see: a thread may miss the notification of a
  block or of the shutdown and sleep on, with a spurious wakeup or for ever
  (`asleep`). A block it sleeps on is not counted, and its process does not get
  over the joins. Messages between two processes keep their order, as MPI
  promises within a communicator, and a send does not wait for its receiver.
* The fields of the curve modules have Conway polynomials; what else
  `fq_nmod_gen` may return is any element that lies in no smaller field. The
  constructors of tables are modelled for every generator they may find. Counting
  (`UseTables`) takes the tables of the Conway generators, which are compatible
  from field to field: that is what `curve.cc` 338 says it "silently" assumes.
  What is counted when the generators of two fields are not
  compatible (`curve.cc` 153) is therefore not checked.
* Numbers up to the width of `unsigned int` are left out except in `ConfigNode`:
  the sizes of blocks and fields at hand stay far below it.
* `PassBlock` hands out blocks without looking into them, for nodes with too
  many curves to run through; `MassIsRight` knows their sizes all the same.

## 3. Runs

| Run | Module, configuration | States | Question |
|---|---|---|---|
| `thread` | `ThreadClient` | 14,080 | Does a thread count what it is given, in order and with the right tables, and what can keep it from going on? |
| `standalone` | `StandaloneWorkerPool` | 885,924 | Do pool and owner agree, are the file pairs consistent, does the program end? |
| `standalone_faults` | `StandaloneWorkerPool`, `StandaloneFaults.cfg` | 940,224 | What survives crashes, restarts, write errors and a node that does not verify? |
| `standalone_hang` | `StandaloneWorkerPool`, `StandaloneHang.cfg` | | Does the program end whatever happens? (It need not.) |
| `standalone_disk` | `StandaloneWorkerPool`, `StandaloneDisk.cfg` | | Is the record a witness of successful writing? (Not after a write error.) |
| `mpi` | `MCMPIWorkerPool`, `MPIWorkerPool.cfg` | 879,681 | Does the master know what the threads of all processes do, and do all processes end, when a thread may sleep through a notification and a store may fail? |
| `mpi_faults` | `MCMPIWorkerPool`, `MPIFaults.cfg` | 1,915,374 | Does every count belong to the node it is saved under, over several nodes, workers and a crash? |
| `node` | `NodeCounting` | 3,588 | Is the merged result the number of all curves of the genus? |
| `enumeration` | `MCCurveEnumeration`, `CurveEnumeration.cfg` | 3,094 | Does every position come up once, and do the multiplicities make up for the curves left out? |
| `curves` | `MCCurveCounting`, `CurveCounting.cfg` | 16,873 | Are the tables right, and the numbers of points, ramification types and offsets of every curve? |
| `merger` | `MCMerger`, `Merger.cfg` | 4,989,921 | Is the merged result right whatever was killed when, whatever the package size, and when it is merged again onto the same output? |
| `counts` | `MCCountValue`, `CountValue.cfg` | 15,789 | Are counts right when they outgrow a machine word? |

### Bounds, and why they are enough

* **Threads.** `standalone` and `standalone_faults` have one CPU thread and one
  OpenCL thread: both ends of the deque are in use, and each kind may be idle
  while the other works. Several threads of one kind are covered by the proofs.
  `standalone_disk`, `standalone_hang` and `thread` have one thread, which
  is enough for a counterexample; threads share nothing with one another except
  what the pool adds.
* **Blocks and nodes of the standalone pool.** Three blocks per node in
  `standalone`, one more than there are threads: `fill_idle_queues` has to poll
  until a thread is ready, and a save falls between the merges of the others.
  Two blocks in `standalone_faults`: one may be saved while the other is being
  counted, or the two in either order. In `standalone` the second node replaces
  the file store and the tables of the first; in `standalone_faults` it does not
  verify, and is met after the first run and again after a crash.
* **MPI.** `mpi` has two processes with three threads of both kinds, and a block
  more than threads; one node, as what is asked is about blocks within a node. The
  write of the first store that comes from the worker may have an error.
  `mpi_faults` has three processes, so that two workers may be at different
  messages, and two nodes that are counted before the one that is refused. Its
  properties hold with write errors as well; those are left to the proofs, as
  they would take the run beyond a few minutes.
* **Crashes.** `MaxCrashes = 1`: a second run meets whatever the first left
  behind, and the third run of a longer sequence meets files of the same kinds.
* **thread.** `MaxAssigned = 3` jobs: one being counted, one queued behind
  it with older tables, one with the current tables.
* **merger.** Five curves in packages of two or of four, so that the last block is
  common to both sizes and the others overlap. Three pairs of files and two
  runs: a torn pair, one from the same run before it, one from the next run. Two
  merges: the second meets every output that the first can leave.
* **enumeration.** The prime five exceeds the degrees three and four, divides five
  and is less than six, so that all three kinds of normal forms occur. The
  iterators are those of `test/block_iterator.cc` and what it leaves out:
  dependent sets next to blocks that are split, on a set and on an interval,
  intervals that no step divides, an iterator over sets only.
* **curves, node.** The field with three elements and its extensions of degrees
  two and three: all polynomials of degrees three and four, so every
  factorisation pattern, with and without point at infinity, and square
  factors, and counting exponents that determine the ramification type or
  leave it to factoring. Genus two has factors that no counted field splits.
  Coefficients beyond the prime are among those of `hycu-single`.
* **counts.** `SmallMax = 2` stands for the 62 bits of a small `fmpz`: a
  multiplicity is small, and a sum of two of them may not be. Four curves, two
  saves: one large number each in a thread's store, in the static one, and in
  the merger's.

`standalone` keeps `MaxCrashes = 0` and `FaultyDisk = FALSE`, and `mpi` keeps
`MaxCrashes = 0`; the properties that only hold without crashes are there, those
that hold with crashes in the others. No symmetry is used, since most runs check temporal properties.
Deadlock is checked in the runs of pools and threads, where the end of the
program is a step of its own (`Terminating`), so that any other state without a
successor is an error; `merger`, `node`, `enumeration`, `curves` and `counts`
stop where the programs do.

### Fairness

`WF_vars(WorkerStep(t))` for every thread and `WF_vars(MainStep)`: the operating
system runs each thread that is not blocked. Mutexes are not visible as such,
but none of them is held while a thread sleeps on something else, and the main
thread's two loops release the pool's mutex on every turn and sleep in between,
so that no one is kept out of a mutex for ever. Wakeups without a notification,
crashes and disk errors are possible and never forced. In `ThreadClient` the
caller finishes a call it has begun and is not forced to begin one. In
`MPIWorkerPool` the master, each worker process and the threads of each process
are fair. A thread that missed a notification is not: the spurious wakeup that it needs
is never forced. A rejection of the options is possible and never forced either.
`CurveEnumeration` has `WF_vars(Next)`: it is one loop, of a program that runs.

### The properties

*Thread under any caller* (`ThreadClient`): `CountedInOrder`, `FrontExists`,
`PoppedUnlessWakeupLost`, `ShutdownReturnsUnlessWakeupLost`. The last two say
that the lost notification is the **only** thing that keeps a thread from going
on: `missed[t]` remembers that the last notification came between the test and
the wait, and `WakeupLost(t)` that the thread then went to sleep.

*Standalone program* (`StandaloneWorkerPool`):

* `NoThrow`, `IdleThreadsMatchCounters`, `AssignedBlocksAreOnTheirWay`: the
  bookkeeping (also proved, see section 5).
* `WitnessedPairsComplete`: the store of a pair is the counts of exactly the
  blocks of its record, each once, with the tables of its node.
* `NothingLeftBehind`: the file store is replaced, and the program ends, only
  when no thread holds a block and nothing merged is unsaved.
* `RecordsDisjoint`, `RecordedIsStored`, `RecordedIsNotCountedAgain`: what survives
  faults. No block is listed twice; what is listed is stored; and no store
  written after a record lists a block has counts of it. The merger adds up the
  stores of all pairs with a record, so the last one is the exact extent of a
  double count: the earlier of the two records was torn by a crash and does
  not list the block.
* `AllRecordedAtExit`: a run that ends has recorded every block of every node it
  accepted, crash or not, and all threads have returned.
* `Promise`: the records implement `PointCount` under the mapping
  `recorded[n] = UNION` of the records under node `n`'s path.
* `CompletesUnlessWakeupLost`: the program ends, or a thread sleeps through the
  notification meant for it.

*MPI program* (`MPIWorkerPool`): the same promises over all processes. In
addition `QueuesMatchPools`: the master's queues of idle threads agree with the
pools of the processes once the messages on their way are counted in;
`CountedForTheNodeInUse`: no thread works with the tables of another node than
the one it is saved under, though `update_config` is not acknowledged;
`EndsUnlessRejectedOrAsleep`: all processes end, or a thread sleeps through the
notification meant for it, or the master returned before the broadcast and
**every** worker stays in it. `WitnessedPairsComplete` excepts the pairs whose store
could not be written, and none of those after them.

*Files and merger* (`Merger`): `ListedIsStoredUnlessCut`, `MergedOnceUnlessTorn`,
`MergedIsComplete`. What the record of the output lists is in its store, although
a run may write the pair that is being read, and the record may be one that an earlier
merge has left; the exception is a merger that was killed when it had emptied the store.
Nothing is there twice, unless a record file was left empty; nothing is missing after
a run that has ended.

*Curves*: `EachPositionOnce` is the abstract `Enumeration`, with its liveness:
blocks are listed position by position, none twice, and all are. `MassIsRight`
compares weights with the number of polynomials, `OrbitsAreRight` with the
orbits of the group within each class. `TablesAreRight`, `CountsAreRight`,
`RamificationIsRight` and `OffsetsAreRight` compare what is computed with
logarithms with what evaluating and factoring the polynomial gives.
`PairsAreConsistent` and `MergedIsRight` do the same for a whole node: the merged
result has, for each key, as many curves as there are polynomials with it.
`RightUntilCopied`: counts are right until a large one is copied (section 4).

## 4. Findings

1. **Lost wakeup** (`standalone_hang`). `assign` and `shutdown` change the state
   under `data_mutex` and notify without `main_mutex` (`threaded/thread.cc`
   42-46, 127-131), while `main_thread` tests under `data_mutex`, unlocks it,
   and then waits on `main_mutex` (61-70). A notification in between is lost:
   the block stays queued for ever and `wait_for_assigned_blocks` does not end,
   or `join` does not return. The window is the few instructions between the
   unlock and the wait, which is why tests hardly meet it.
2. **The witness does not witness** (`standalone_disk`). `file_store.cc` 71 calls
   the record "a witness to successful writing", but the stream that the store
   was written to is never examined. After an error the record is written all
   the same, and the next run skips blocks whose counts are lost.

Met while modelling, without a run of their own; where a property is named, it
is stated so that it excludes just this case:

* The workers of `hycu-mpi` enter the broadcast (`executables/mpi.cc` 57) before
  the master has looked at its options. When it prints the help or an error and
  returns (86-128), they stay (`EndsUnlessRejectedOrAsleep`).
* The merger calls its record "a witness to successful writing" (`merger.cc` 159),
  but opening the store with `ios_base::out` (160) empties the one of an earlier merge,
  whose record stays until it is opened in its turn (161). A merger that is killed in
  between leaves a record beside a store that lacks what it lists
  (`ListedIsStoredUnlessCut`).
* A run that is killed between creating a record file and writing it leaves a
  complete store under an empty record. The next run counts the blocks again,
  and the merger, which takes any record file for a witness
  (`merger.cc` 143-156), adds both (`MergedOnceUnlessTorn`).
* `Count::ValueType` clears its `fmpz` in the destructor and has no copy of its
  own (`store_data.hh` 63-90). `store.cc` 87 and 137 copy counts from one map to
  another; for one of more than 62 bits the cell is given back with the first map and
  used on by the second, and the next large count is written over it
  (`RightUntilCopied`).
* `FqElementTable` takes zero for a generator, as its powers never come back to
  one (`fq_element_table.cc` 76); `compute_incrementation_table` does not. The table
  is then one, followed by zeros, which is what `TablesAreRight` says of it.
* `single_curve_fp` looks coefficients up with `operator[]` of a map
  (`single_curve_fp.cc` 57): any number that is not below the prime is counted
  as one. The 8 in the example of README.md happens to be one modulo 7
  (`CountsAreRight`).
* The ramification type lists a one for the point at infinity of a curve of odd
  degree (`curve.cc` 656), so that its numbers always add up to 2 g + 2; README.md
  (96) calls them the degrees of the factors, with an example that adds up to
  five (`RamificationIsRight` has the one).
* The configuration file of README.md (73-80) lacks `WithMarkedPoint`, which
  `decode` reads without asking whether it is there (`config_node.cc` 95): that
  is an exception that nothing catches. The merger's call in README.md (49)
  has an argument more than the program takes (`merger.cc` 69).
* A second run with another package size counts blocks that overlap those on
  record but are not equal to one of them.

## 5. Proofs

For any number of nodes, blocks and crashes, any finite set of threads and any
subset of them with OpenCL (under MPI: any number of workers, and of threads of
each kind in each process), any set of nodes that do not verify, with or without
errors when a store is written, with any threads that sleep through what they are notified
of; in `Merger` for any blocks, any packagings of them that cover the
curves of the node, and any number of pairs, runs and merges, without errors of the disk;
in `CountValue` for any keys
and twists, curves and saves, and any size of the numbers that fit a word; in
`CurveCounting` for every odd characteristic and every number of extensions with
polynomials that satisfy the assumptions below, any curves and any candidates
for a generator; in `NodeCounting` for each such field, any genus, marked point
or not, any set of threads, any size of blocks and number of saves:

| Theorem | Statement | Module |
|---|---|---|
| `TypeCorrect` | `Spec => []TypeOK` | `StandaloneWorkerPoolProofs` |
| `NeverThrows` | `Spec => []NoThrow` | `StandaloneWorkerPoolProofs` |
| `CountersCorrect` | `Spec => []IdleThreadsMatchCounters` | `StandaloneWorkerPoolProofs` |
| `NoBlockIsLost` | `Spec => []AssignedBlocksAreOnTheirWay` | `StandaloneWorkerPoolProofs` |
| `NoBlockRecordedTwice` | `Spec => []RecordsDisjoint` | `StandaloneWorkerPoolProofs` |
| `RecordsAreWitnesses` | `Spec => []RecordedIsStored` | `StandaloneWorkerPoolProofs` |
| `NotCountedAgain` | `Spec => []RecordedIsNotCountedAgain` | `StandaloneWorkerPoolProofs` |
| `CompleteAtExit` | `Spec => []AllRecordedAtExit` | `StandaloneWorkerPoolProofs` |
| `MemoryEmptyBetweenNodes` | `Spec => NothingLeftBehind` | `StandaloneWorkerPoolProofs` |
| `PairsCompleteUntilCrash` | `Spec => [](crashes = 0 /\ ~ FaultyDisk => WitnessedPairsComplete)` | `StandaloneWorkerPoolProofs` |
| `ImplementsPointCount` | `Spec => Promise` | `StandaloneWorkerPoolProofs` |
| `NothingThrown` | `Spec => []NoThrow` | `MPIWorkerPoolProofs` |
| `QueuesMatch` | `Spec => []QueuesMatchPools` | `MPIWorkerPoolProofs` |
| `AssignedBlocksOnTheirWay` | `Spec => []AssignedBlocksAreOnTheirWay` | `MPIWorkerPoolProofs` |
| `CountedForTheNode` | `Spec => []CountedForTheNodeInUse` | `MPIWorkerPoolProofs` |
| `NoBlockRecordedTwice` | `Spec => []RecordsDisjoint` | `MPIWorkerPoolProofs` |
| `RecordsAreWitnesses` | `Spec => []RecordedIsStored` | `MPIWorkerPoolProofs` |
| `NotCountedAgain` | `Spec => []RecordedIsNotCountedAgain` | `MPIWorkerPoolProofs` |
| `PairsCompleteUntilCrash` | `Spec => [](crashes = 0 => WitnessedPairsComplete)` | `MPIWorkerPoolProofs` |
| `CompleteAtExit` | `Spec => []AllRecordedAtExit` | `MPIWorkerPoolProofs` |
| `NothingLeft` | `Spec => NothingLeftBehind` | `MPIWorkerPoolProofs` |
| `ImplementsPointCount` | `Spec => Promise` | `MPIWorkerPoolProofs` |
| `MergedIsWitness` | `Spec => []ListedIsStoredUnlessCut` | `MergerProofs` |
| `MergedOnce` | `Spec => []MergedOnceUnlessTorn` | `MergerProofs` |
| `MergedAll` | `Spec => []MergedIsComplete` | `MergerProofs` |
| `ClientTypeCorrect` | `Spec => []TypeOK` | `ThreadClientProofs` |
| `QueueIsFaithful` | `Spec => []CountedInOrder` | `ThreadClientProofs` |
| `FrontIsThere` | `Spec => []FrontExists` | `ThreadClientProofs` |
| `TypeCorrect` | `Spec => []TypeInv` | `CountValueProofs` |
| `RightWhileNoneIsCopied` | `Spec => []RightUntilCopied` | `CountValueProofs` |
| `TablesRight` | `Spec => []TablesAreRight` | `CurveCountingProofs` |
| `CountsRight` | `Spec => []CountsAreRight` | `CurveCountingProofs` |
| `PairsConsistent` | `Spec => []PairsAreConsistent` | `NodeCountingProofs` |
| `BlocksInOnePlace` | `Spec => []Apart` | `NodeCountingProofs` |
| `StaticConsistent` | `Spec => [](TotalOf(static_store) = NumberOfCurves(static_record))` | `NodeCountingProofs` |

Assumptions: `ConfigAssumption` (the numbers of nodes and blocks are naturals),
`ThreadAssumption` (the value for "no thread" is not a thread),
`OpenCLAssumption` (OpenCL threads are threads, there are finitely many),
`StandaloneAssumption` (types of the remaining constants), `MPIAssumption` (the
number of workers is a natural, and so is that of threads of each kind in each
process; none at all is allowed), `MergerAssumption` (one node, and the blocks
of every package size cover the same curves, as those of `CurveIterator` do), and
`CountValueAssumption` (a twisted key twisted again is the key, and the multiplicity
of a curve fits a word). Of the fields, `FieldAssumption` (the characteristic is odd and more than
one, and the polynomials have coefficients below it), `FieldsAreClosed`, `FieldLaws` and
`RingLaws` (sums and products are elements, the laws of a ring hold, and what is not zero can
be cancelled: what hycu relies on FLINT for), `GeneratorLaws` (what makes a
polynomial a Conway polynomial: the powers of the generator are distinct, and those of the
prime field's are among them at regular distances,
which `curve.cc` 338 says it assumes) and `PowersOfPrime` (the
provers do not know powers). Of the curves, `CurveCountingAssumption`: a right hand side
is not a constant, for which `genus` and the constructor leave the range of
`unsigned int` (`curve.cc` 71-93), and there are tables up to its genus, as the programs
make them. For a node, `NodeAssumption` (the genus, the package size
and the exponent counted over are positive, and the degrees are those of the genus)
and `CurveKeyAssumption` (each polynomial has a key: the degrees of the
factors in it come from FLINT's factorisation, of which nothing is proved). TLC evaluates all of them in the runs; the arithmetic of the fields
is computed there.

**The bookkeeping** (`IInv`). None of the first four is inductive as it stands. That
`finished_block` finds its block in `busy_threads` depends on what is in the
queue of the calling thread; that the deque has an entry of the requested kind
depends on the counters, and on the queues too, since a thread that becomes
ready must not be in the deque already; that the owner knows every finished
block depends on the moment at which it inserts a block it has assigned. `IInv`
adds:

* `ControlInv`: what the owner is sure of at each position. While it assigns,
  its node, the file store and the tables of all threads are the same node's.
* `QueueInv`: a thread has one block at most, and where `main_thread` is about to
  pop one there is one.
* `OwnerInv`: a thread holds a block, in its queue or in its locals, exactly when
  `busy_threads` says so. Most of the rest follows from this equivalence: a
  thread that owns no block is not at work (`ReadyIdle`).
* `ReadyInv`: a ready thread owns no block, so it may be pushed to the deque.
* `AssignedInv`: `assigned_blocks` against `busy_threads` and `finished_blocks`.
  From the push to the insertion the pool is one block ahead (`BeingAssigned`). It is
  locked until the notification, and not from there on: the block may be finished
  before the owner inserts it. That does no harm, since the owner takes the finished
  blocks only later. All assigned blocks are below the iterator: a block
  is assigned to a free slot of the map.
* `CallInv`: the caller is inside `Thread::assign` from the push to the notification.

There is one lemma per step of a worker, per action of the owner, and for a
crash, which leads to a state that satisfies the same description of a starting
process (`Started`) as the initial state, except for the files. `Popped`,
`Pushed` and `Listings` say what the two ends of the deque do.

**Memory and files** (`DInv`, on top of `IInv`). That no block is listed twice
is a matter of where a block is between its assignment and its record. `DInv`
follows it:

* `PlaceInv`: a block is in one place at most: with a thread that has not merged
  it (`Unmerged`), in the static store, in the save under way, or listed.
  `CoverInv`: once the iterator has passed it, in one at least. `FreshInv`: what
  the iterator has yet to pass is nowhere, unless an earlier run listed it,
  and then it is skipped.
* `MemoryInv`: the two stores in memory are the counts of exactly the blocks
  listed beside them, each once and with the tables of the node in use
  (`OnceAdd` is the merge of one more block); both are empty where the owner
  takes up another node or ends. `JobInv`: whatever a thread has was assigned
  for the node in use.
* `CurrentInv`: the pair that `save` is working on lists nothing until its store
  is written or has failed.
* `NodeInv`: the nodes before the one in use are complete. At the end of a node
  the iterator has passed every block and no thread has one, so `CoverInv` says
  that all of them are listed.
* `ShutdownInv`: a thread that was told to shut down has returned, or is the one
  being joined.

`LastPair` and `NewPair` carry the three properties of the files over the steps
of `save`. `RecordWritten` does so for a record that is written in full or torn
by a crash: the two differ only in how many of the blocks are listed. A crash
empties the memory, so that everything about it holds again at once
(`StartedDInv`), while the properties of the files stay. For `PointCount`, the
only steps that list blocks are the last one of a save and a crash in it
(`RecordedSteps`), and what they list is new and of the first node that is
not complete (`NewBatch`). `PairsInv` is a third invariant on top of both: it has
`WitnessedPairsComplete` for all pairs but the one in hand, and an exception for
those whose store had an error, which a disk without errors never makes.

**The files** (`FileStoreProofs`). `FilesInv` are the three properties of the files
that hold whatever fails. `PairAdded` and `PairReplaced` say what the files are
after a step of save: a new, empty pair at the end, or another last pair. With them
`PairReplacedFilesInv` keeps `FilesInv` under two conditions that each user has to
bring: what is being saved are counts, each once, of blocks that no record lists
(`SavingIsNew`), and the last pair lists nothing yet.

**The messages** (`IInv` of `MPIWorkerPoolProofs`). `Agree` is one statement about one
process: its pool, the messages to it, its answer, how often it is in the
master's queues, its assigned blocks. It joins `QueuesMatchPools` and
`AssignedBlocksAreOnTheirWay`, which are not inductive alone: that a block can be
taken from the pool needs the count of the threads, that the counts stay right
needs each message to be of its own block (`DistinctIn`). It also has the reason
for `CountedForTheNodeInUse`: a message `update_config` is the first that the
worker will read, and has the node in use. There is one lemma per way in which
one process and its messages can move (`AgreeMerge` to `AgreeDispatchOwn`); the
others stay (`AgreeFrame`). Around it:

* `ControlInv`: what the master is sure of at each position, as in the standalone
  pool. Where it has waited for a node, nothing is assigned.
* `AskInv`: the master waits for one answer at a time. Its question is the last
  message in that worker's inbox, and no one else's inbox has one; when it is
  read, the inbox is empty and the answer is alone in the outbox. That the master
  never gets an answer to another question follows.
* `DrainedInv`: a worker that was asked for finished blocks, in a loop that
  found nothing assigned, has read all its messages. This is why the `save`
  that follows, and the next `update_config`, are first in the inbox.
* `ApartInv`: a block is assigned to one process, and the iterator has passed it.

`NoThrow` is a part of `IInv`: the throws of `WorkerAssign` and `Dispatch` need the
counts, that of `TakeFinished` the blocks. A thread that sleeps on takes no step, so
that none of this depends on `asleep`.

**The counts of all processes** (`DInv` of `MPIWorkerPoolProofs`, on top of `IInv`). At each
process a block is `Coming` (in a message, or with a thread that has not merged
it), `Held` (in its static store), or `Told` (in the answer to `save`):

* `PieceInv`: the three are disjoint, and the counts that are held or told are
  those of exactly these blocks, each once and of the node in use.
* `PlaceInv`: no block is at two processes, or at one and in the save under way or
  listed. `CoverInv`: every block that the iterator has passed is at some
  process, in that save, or listed. `FreshInv`: what is given to a process was not
  listed by an earlier run, and what it has yet to pass is listed only by one.
* `SavedInv`: in the save after the wait, the processes whose turn is over hold
  nothing. With `IInv` this empties everything at the end (`AtRest`), which is
  `NothingLeftBehind`, and with `CoverInv` the node is complete: `NodeInv`, and
  `AllRecordedAtExit` from it.
* `SavingInv`, `CurrentInv` and `PairsInv`: the pair in hand, and the others until
  a crash, for `WitnessedPairsComplete`. A pair whose store had an error is excepted,
  as it is in `FilesInv`.

Each step moves one block, or all blocks that a process holds, from one of the
places to the next: `MergeData`, the case of `WorkerSave` in `WorkerDInv`,
`SaveGlobalStoresData`, `WriteRecordData`, `DispatchData`. The proof that the
records implement `PointCount` is then that of the standalone pool.

**Run and merger** (`IInv` of `MergerProofs`). `RunInv` is `DInv` of the standalone
pool without threads, and with blocks of several package sizes: blocks that
overlap are different blocks, so that what is counted is compared with what is
recorded (`MemoryInv`), and that all curves are covered only where a run ends
(`ExitInv`, the one place where `MergerAssumption` is needed). `MergerInv` has, for
each phase, what has been read: `OnceInv` says of a count in the sum from which
pair it comes, so that a pair that is added later cannot have it as well
(`StoresApart`); `ListedInv` that what is listed is in the sum or in the store that
comes next; `CompleteInv` that with no run beside it the merger has the union of the
records it has read; `AgainInv` that what the output's record still lists from an
earlier merge is listed by pairs that are read again, so that it is right once
the store has been written anew. A step of the run leaves the pairs that the merger may
read as they were, or only adds to them (`Grown`).

**One thread** (`IInv` of `ThreadClientProofs`). `CountedInOrder` says that what is
counted, followed by what is queued, is what was assigned. It is inductive once
the job that the thread has in hand (`InHand`) stands between the two: the
conjunct says `counted \o InHand \o blocks = assigned` for each thread, and the
three lemmas `TakeFront`, `FinishInHand` and `GiveOneMore` move one job along this
equation. `FrontExists` is needed for the first, since only then the queue has
a front; `JobInHand` gives the type of what is taken. All other steps leave the
four sequences alone (`Frame`).

**Counts in words and cells** (`Inv` of `CountValueProofs`). `RightUntilCopied` is about
values; what makes it inductive is who owns the cells of FLINT's pool. `Sound` says
that two words never name the same cell, within a store (`Apart`) or in the two of
them (`Disjoint`), that no cell that has been given back is named by a word
(`NotFree`), and that none was given back twice (`FreeOnce`). It holds until the first word of
a large number is copied, and with it `Agrees`: a store has the counts that
it should have. An operation on one count is known by `Gives` (only the cell of the
word that comes out may change, and that cell is its own, a new one, or the last
one given back), and what it does to the two stores by `Replaced`. The steps of
the program run through a map key by key, by recursive functions in the model. Induction
over the keys (`UpTo`, from the well-founded order of the naturals, with a set in the
place of the predicate) carries `Sound` and `Agrees` through such a loop.

**The tables of a field** (`Inv` of `CurveCountingProofs`). `FqInv` is the loop of
`FqElementTable`: what is listed are powers of the candidate without repetition,
and the next one repeats none of them unless it is 1. For if it were that at a
later place, cancelling the candidate would give a repetition one place before.
Zero cannot be cancelled: once it was drawn, `ZeroInv` has the table that is
built, one and then zeros. Otherwise each entry is the one before times the candidate,
which is the order that logarithms rely on. `MetInv` is the loop of
`compute_incrementation_table`, which compares with all powers it has met. A list
without repetitions that is as long as there are nonzero elements has all of them
(`AllListed`). That the table has the logarithm of 1 + a for each a (`IncrementationIs`)
rests on `AddOne`: counting the lowest digit up is adding 1. Addition is defined digit
by digit, recursively, and `SumIs` gives a closed form by induction over the digits.

**The points of a curve** (`CountInv` of `CurveCountingProofs`). The invariant itself is
short: what was counted is the result of one of the methods, for a curve that can be counted.
The work is in `CountInvIsRight`, that the methods agree with each other
and with the equation:

* *Logarithms.* `Lists` is what the table of powers is: all elements, each once, zero last.
  `Log` takes a logarithm to its element. `LogProduct` and `LogSum`: sums reduced by the
  tables are the logarithms of products, and the incrementation table with
  `SumOfLogarithms` gives those of sums. The last needs what is proved of the table in
  `TablesRight`.
* *Values.* `ValueIs`: Horner's scheme, by which the model defines a value, adds up the
  powers in their order, by the laws of a ring. `RhsLogarithmIs` and `ZechRhsIs` take
  the loop of `count` and the sums of `count_naive_zech` to that. The loop of `count` runs
  to the order of the group instead of from zero (`curve.cc` 261): its last x stands for 1.
* *Coefficients* are logarithms in the prime field: `GeneratorLaws` has their place in the
  table of the larger field.
* *Totals.* `TotalIs` counts the elements with two points and with one; by `Renames` a
  total is the same for other names of the elements, which takes
  `count`, by logarithms, to `count_naive_nmod`, by elements and Euler's criterion
  (`PowersOfLog`: an element is a square if its logarithm is even).
* *Solutions.* `SolutionsAre`: for each x there are as many y as points, as
  `val \div 2` and half the order more are the two logarithms of a root. Over infinity there is
  one point for odd degrees, none or two for even ones (`PointsAreSolutions`).

**A node from curves to files** (`Inv` of `NodeCountingProofs`). That a store file
has the curves of its record is carried from the thread's store (`JobsAre`) over the
static store (`StaticIs`) to the file (`FilesAre`). Each time a number of curves is
added to another, and the records are united; the two stay equal only if the records
are disjoint. `Apart` says so, of every place where a block can be: to come from
the iterator, with a thread, in the static record, in a file. `Iterates` says what
the iterator is, so that what it gives next is new. The lemmas, from the bottom up:

* *Sums.* The folds of the community modules choose an element, and go on with the
  rest. `AdditiveExists`: there is a function that adds up over all subsets of a
  finite set, by induction over the subsets; `SumSolves` and `FoldSolves`: whatever a
  fold chooses, its value is that of this function. Then sums can be split
  (`SumRemove`), and taken over other names of the elements (`SumRenamed`).
* *Stores.* `RegisterCurveIs`: registering a curve adds its multiplicity twice, to its
  key and to the twisted one, or twice it to a key that is its own twist. This
  needs `Paired`, that a key is in a store with its twist: `register_curve`
  looks for one of the two only, and would otherwise write over the other
  (`store.cc` 61). `MergedIntoIs`: no curve is lost when stores are
  merged. `InsertedIs`: the lines of a file are in the order of the keys, which
  is strict and total (`KeyOrderOrders`), so that no key is left out or written twice.
* *Iterators.* `LaterOrders` orders the positions of an iterator by the
  last coordinate in which they differ, and `StepIs` says that a step goes to a later one
  or to the end; so a block comes once (`ComingShrinks`). `NewIteratorIs`: a package
  size is divided among the intervals, and each has a positive step.
* *Normal forms.* `EnumeratorsAre`: two enumerators of one degree have no block in
  common, for each of the three cases of the prime. In the first, the blocks show
  which coefficients are the second and the third that are not zero
  (`RowIs`, `CoupledEnumeratorsAre`); in the others, whether there is a next to
  leading one. Enumerators of two degrees differ in the number of coordinates.
* *Curves.* `CurveOfPosition`: each position within a block is a polynomial of its
  degree, with no logarithm out of range; `MultiplicityIs`: it has a multiplicity.

The proof found an error of the model, not of the program: in `Step` of
`BlockIterator` two cases of a CASE overlapped, so that its value for the first of
them was not determined; the code tests them in order.

**Only model-checked**: liveness (`PoppedUnlessWakeupLost`,
`ShutdownReturnsUnlessWakeupLost`, `CompletesUnlessWakeupLost`,
`EndsUnlessRejectedOrAsleep`, and that of `EachPositionOnce`), which needs fairness and is out
of the prover's reach, and the remaining properties of the modules about curves
(`MergedIsRight`, `MassIsRight`, `OrbitsAreRight`,
`RamificationIsRight`, `OffsetsAreRight`). Those
compare what is computed with theorems of algebra (the bounds of Hasse and
Weil, the orbits of a group on polynomials, factors and points) that
would have to be proved first. TLC checks them for all curves of small fields. The
two runs with a counterexample (section 4) say what does not hold.

## 6. Plan

Every component is modelled as far as section 7 says. Proved are every safety property of
the pools, the files, the merger, the counts and the field tables, that the
points of a curve are those of its equation, and that a node's files have the curves of
their blocks. What is left to prove, in this order:

1. `CurveEnumeration`: that the blocks of an enumerator cover its positions. With
   `ComingShrinks`, which says that none comes twice, these are the steps of `Enumeration`.
2. `MergedIsRight`, from `PairsAreConsistent`, that enumeration, and the orbits.

## 7. Not modelled

* **The host side of OpenCL and the kernel `reduce`.** With `WITH_OPENCL` the
  code does not compile as it stands: `curve.cc` 226 passes a vector of
  `unsigned int` where `opencl/kernel_evaluation.hh` 43 takes one of `int`. And
  `SIZE_PARTIAL_REDUCTION` is `1 >> 2` (`program_reduction.hh` 41), zero, so
  that the host adds up the results of `evaluate` itself and never launches
  `reduce`. What an OpenCL thread is to the pools is modelled, and the kernel
  `evaluate` as a way to count.
* **Configuration**: YAML, options, `encode`, and the printing of nodes; result
  paths, which `verify` creates. They have no state of their own.
* **`hycu-single`**: its options, and what it prints; curves with square
  factors, for which it prints a ramification type that depends on what
  `ramification_type` makes of them.
* **Files that cannot be opened**: `extract` loops until `eof`, which a stream
  that failed to open never reaches (`file_store.cc` 127). A model would restate
  that loop. Nodes with different curves on one result path are left out as
  well: their blocks have the same bounds, so that the second node skips what
  the first has counted.
* **No worker thread at all** (`-n 0` without OpenCL): `fill_idle_queues` polls
  for ever; the runs assume a thread for each process.
* FLINT's arithmetic, the STL, MPI and YAML libraries, which appear only as the
  code uses them; serialization, logging and timing.
