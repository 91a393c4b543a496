----------------------------- MODULE ThreadPool -----------------------------
(***************************************************************************)
(* src/src/threaded/thread_pool.cc: which threads are idle, ready or busy, *)
(* and which blocks are finished.  The methods are called by the owner of  *)
(* the pool, except finished_block, which the threads call.                *)
(*                                                                         *)
(* All methods hold the pool's data_mutex from beginning to end.  A method *)
(* is one action, but for assign: it calls Thread::assign, in which the    *)
(* thread can run between the push and the notification, so that the pool  *)
(* is locked between AssignPush and NotifyOne.                             *)
(*                                                                         *)
(* The vectors ready_threads and finished_blocks are sets here.  Nothing   *)
(* depends on their order, and the invariant of StandaloneWorkerPool shows *)
(* that no element is ever pushed to one that contains it.                 *)
(***************************************************************************)
EXTENDS Thread, FiniteSets, SequencesExt

CONSTANT OpenCLThread       \* the threads with an OpenCL interface

ASSUME OpenCLAssumption ==
    /\ OpenCLThread \subseteq Thread
    /\ IsFiniteSet(Thread)

VARIABLES
    idle_threads,       \* the deque: threads the owner may assign to
    ready_threads,      \* threads that are done, not yet known to the owner
    busy_threads,       \* block |-> thread; Nobody where the map has no key
    finished_blocks,    \* blocks that are done, not yet known to the owner
    thrown              \* a "throw;" outside of a handler was reached, which
                        \* terminates the program

pool_vars == <<idle_threads, ready_threads, busy_threads, finished_blocks, thrown>>

ThreadPoolTypeOK ==
    /\ idle_threads \in Seq(Thread)
    /\ ready_threads \subseteq Thread
    /\ busy_threads \in [Block -> Thread \cup {Nobody}]
    /\ finished_blocks \subseteq Block
    /\ thrown \in BOOLEAN

\* spark_threads: every thread is sparked and ready.
SparkThreads ==
    /\ ThreadInit
    /\ idle_threads = <<>>
    /\ ready_threads = Thread
    /\ busy_threads = [b \in Block |-> Nobody]
    /\ finished_blocks = {}
    /\ thrown = FALSE

\* data_mutex of the pool; only assign keeps it over more than one step.
Unlocked == call.at # "notify_one"

BusyBlocks == {b \in Block : busy_threads[b] # Nobody}

\* assign, 91-118.  At the front of the deque are the OpenCL threads, at its
\* back the CPU threads; front() and back() of an empty deque are undefined.
PoolAssign(block, opencl) ==
    LET thread == IF opencl THEN Head(idle_threads) ELSE Last(idle_threads)
    IN  /\ Unlocked
        /\ idle_threads' = IF opencl THEN Tail(idle_threads)
                                     ELSE Front(idle_threads)
        /\ IF opencl # (thread \in OpenCLThread)
           THEN thrown' = TRUE /\ UNCHANGED <<busy_threads, thread_vars>>
           ELSE /\ busy_threads' = [busy_threads EXCEPT ![block] = thread]
                /\ AssignPush(thread, block)
                /\ UNCHANGED thrown
        /\ UNCHANGED <<ready_threads, finished_blocks>>

\* Mutant: the block is not erased from busy_threads.
FinishedBlock_notErased(t) ==
    LET block == job[t].block
    IN  /\ Unlocked
        /\ ReportBlock(t)
        /\ ready_threads' = ready_threads \cup {busy_threads[block]}
        /\ finished_blocks' = finished_blocks \cup {block}
        /\ UNCHANGED <<idle_threads, busy_threads, thrown>>

\* finished_block, 119-136, called by main_thread for the block it has counted.
FinishedBlock(t) ==
    LET block == job[t].block
    IN  /\ Unlocked
        /\ ReportBlock(t)
        /\ IF busy_threads[block] = Nobody
           THEN /\ thrown' = TRUE
                /\ UNCHANGED <<ready_threads, finished_blocks, busy_threads>>
           ELSE /\ ready_threads' = ready_threads \cup {busy_threads[block]}
                /\ finished_blocks' = finished_blocks \cup {block}
                /\ busy_threads' = [busy_threads EXCEPT ![block] = Nobody]
                /\ UNCHANGED thrown
        /\ UNCHANGED idle_threads

\* Mutant: the two ends of the deque are mixed up.
FlushReadyThreads_swapped(opencl, cpu) ==
    /\ Unlocked
    /\ opencl \in SetToSeqs(ready_threads \cap OpenCLThread)
    /\ cpu \in SetToSeqs(ready_threads \ OpenCLThread)
    /\ idle_threads' = cpu \o idle_threads \o opencl
    /\ ready_threads' = {}
    /\ UNCHANGED <<busy_threads, finished_blocks, thrown>>

\* flush_ready_threads, 138-162: OpenCL threads are pushed to the front of the
\* deque, CPU threads to its back.  Opencl and cpu are the ready threads of each
\* kind in some order; the code returns their numbers.
FlushReadyThreads(opencl, cpu) ==
    /\ Unlocked
    /\ opencl \in SetToSeqs(ready_threads \cap OpenCLThread)
    /\ cpu \in SetToSeqs(ready_threads \ OpenCLThread)
    /\ idle_threads' = opencl \o idle_threads \o cpu
    /\ ready_threads' = {}
    /\ UNCHANGED <<busy_threads, finished_blocks, thrown>>

\* flush_finished_blocks, 164-170: the vector is moved out of the pool.
FlushFinishedBlocks ==
    /\ Unlocked
    /\ finished_blocks' = {}
    /\ UNCHANGED <<idle_threads, ready_threads, busy_threads>>
=============================================================================
