------------------------- MODULE StandaloneWorkerPool -----------------------
(***************************************************************************)
(* hycu-threaded: the main loop of src/src/executables/threaded.cc on the  *)
(* StandaloneWorkerPool of src/src/worker_pool/standalone.cc, composed     *)
(* with its threads (Thread), their pool (ThreadPool) and what they count  *)
(* and save (FileStore).                                                   *)
(*                                                                         *)
(* The main thread runs one method at a time.  "main" is its position,     *)
(* "within" the method that wait_for_assigned_blocks and                   *)
(* save_global_stores_to_file return to.  The worker threads run           *)
(* concurrently with every step of it.  A crash stops the process between  *)
(* any two steps and loses all but the files; the user starts the program  *)
(* again with the same configuration and output path.                      *)
(***************************************************************************)
EXTENDS ThreadPool, FileStore

CONSTANTS BadNode,      \* the nodes for which ConfigNode::verify fails
          MaxCrashes,   \* bound: the number of crashes
          FaultyDisk    \* whether writing a store file may have an error

ASSUME StandaloneAssumption ==
    /\ BadNode \subseteq Node
    /\ MaxCrashes \in Nat
    /\ FaultyDisk \in BOOLEAN

VARIABLES
    main,               \* the position of the main thread
    within,             \* the method it is in
    node,               \* threaded.cc: the node of the loop over config
    block,              \* threaded.cc: the block CurveIterator stands at
    nmb_cpu_idle, nmb_opencl_idle, assigned_blocks,
    crashes             \* the crashes so far

main_vars == <<main, within, node, block, nmb_cpu_idle, nmb_opencl_idle, assigned_blocks>>
vars == <<thread_vars, pool_vars, store_vars, main_vars, crashes>>

(***************************************************************************)
(*  main:  "node"          threaded.cc 136, the loop's test, and verify    *)
(*         "wait"          wait_for_assigned_blocks                        *)
(*         "save"          save_global_stores_to_file, before the flush    *)
(*         "create_store", "write_store", "create_record", "write_record"  *)
(*                         the steps of FileStore::save                    *)
(*         "configure"     update_config after the save                    *)
(*         "iterate"       threaded.cc 146, the inner loop's test          *)
(*         "contains"      assign, 81                                      *)
(*         "fill"          fill_idle_queues, 107                           *)
(*         "flush_ready"   fill_idle_queues, 109                           *)
(*         "dispatch"      assign, 88                                      *)
(*         "notify"        assign, in Thread::assign before its notify     *)
(*         "insert"        assign, 97, with the pool unlocked again        *)
(*         "shutdown"      shutdown_threads                                *)
(*         "exited"        the destructor has returned                     *)
(***************************************************************************)
Saves == {"create_store", "write_store", "create_record", "write_record"}
Main == {"node", "wait", "save", "configure", "iterate", "contains", "fill",
         "flush_ready", "dispatch", "notify", "insert", "shutdown", "exited"} \cup Saves

TypeOK ==
    /\ ThreadTypeOK
    /\ ThreadPoolTypeOK
    /\ FileStoreTypeOK
    /\ main \in Main
    /\ within \in {"update_config", "assign", "destructor"}
    /\ node \in 1 .. NbNodes + 1
    /\ block \in 1 .. NbBlocks + 1
    /\ nmb_cpu_idle \in Nat
    /\ nmb_opencl_idle \in Nat
    /\ assigned_blocks \subseteq Block
    /\ crashes \in 0 .. MaxCrashes

MainInit ==
    /\ main = "node"
    /\ within = "update_config"
    /\ node = 1
    /\ block = 1
    /\ nmb_cpu_idle = 0
    /\ nmb_opencl_idle = 0
    /\ assigned_blocks = {}

Init ==
    /\ SparkThreads
    /\ FileStoreInit
    /\ MainInit
    /\ crashes = 0

-----------------------------------------------------------------------------
(* The worker threads                                                      *)

ThreadOnly(t) ==
    /\ ReadState(t) \/ EnterWait(t) \/ PopFront(t)
    /\ UNCHANGED <<pool_vars, store_vars>>

\* main_thread, 86-93: the local store is merged before the block is reported.
CountAndFlush(t) ==
    /\ CountBlock(t)
    /\ FlushToStaticStore(job[t].block, job[t].node)
    /\ UNCHANGED pool_vars

Report(t) ==
    /\ FinishedBlock(t)
    /\ UNCHANGED store_vars

WorkerStep(t) ==
    /\ ~ thrown
    /\ ThreadOnly(t) \/ CountAndFlush(t) \/ Report(t)
    /\ UNCHANGED <<main_vars, crashes>>

Wakeup(t) ==
    /\ ~ thrown
    /\ SpuriousWakeup(t)
    /\ UNCHANGED <<pool_vars, store_vars, main_vars, crashes>>

-----------------------------------------------------------------------------
(* The main thread                                                         *)

\* Mutant: neither update_config nor the destructor waits for the threads.
NextNode_noWait ==
    /\ main = "node"
    /\ main' = "save"
    /\ within' = IF node \in Node \ BadNode THEN "update_config" ELSE "destructor"
    /\ UNCHANGED <<thread_vars, pool_vars, store_vars, node, block,
                   nmb_cpu_idle, nmb_opencl_idle, assigned_blocks>>

\* threaded.cc 136-142: the loop ends with its last node or with one that does
\* not verify; either way the destructor runs next.
NextNode ==
    /\ main = "node"
    /\ main' = "wait"
    /\ within' = IF node \in Node \ BadNode THEN "update_config" ELSE "destructor"
    /\ UNCHANGED <<thread_vars, pool_vars, store_vars, node, block,
                   nmb_cpu_idle, nmb_opencl_idle, assigned_blocks>>

\* flush_finished_blocks and finished_block, 120-145
TakeFinishedBlocks ==
    /\ FlushFinishedBlocks
    /\ IF finished_blocks \subseteq assigned_blocks
       THEN /\ assigned_blocks' = assigned_blocks \ finished_blocks
            /\ UNCHANGED thrown
       ELSE thrown' = TRUE /\ UNCHANGED assigned_blocks

\* Mutant: what is finished is taken over once, not until nothing is left.
WaitForAssignedBlocks_once ==
    /\ main = "wait"
    /\ TakeFinishedBlocks
    /\ main' = "save"
    /\ UNCHANGED <<thread_vars, store_vars, within, node, block,
                   nmb_cpu_idle, nmb_opencl_idle>>

\* wait_for_assigned_blocks, 147-159
WaitForAssignedBlocks ==
    /\ main = "wait"
    /\ TakeFinishedBlocks
    /\ main' = IF assigned_blocks' = {} THEN "save" ELSE "wait"
    /\ UNCHANGED <<thread_vars, store_vars, within, node, block,
                   nmb_cpu_idle, nmb_opencl_idle>>

\* Where save_global_stores_to_file returns to.
AfterSave == CASE within = "update_config" -> "configure"
               [] within = "assign" -> "contains"
               [] within = "destructor" -> "shutdown"

\* save_global_stores_to_file, 161-171; before the first node there is no
\* file_store and nothing is flushed.
SaveGlobalStores ==
    /\ main = "save"
    /\ IF file_store = NoNode
       THEN main' = AfterSave /\ UNCHANGED store_vars
       ELSE main' = "create_store" /\ FlushStaticStore
    /\ UNCHANGED <<thread_vars, pool_vars, within, node, block,
                   nmb_cpu_idle, nmb_opencl_idle, assigned_blocks>>

\* Mutant: the record is saved before the store.
SaveStep_recordFirst ==
    /\ \/ main = "create_store" /\ CreateStoreFile /\ main' = "create_record"
       \/ main = "create_record" /\ CreateRecordFile /\ main' = "write_record"
       \/ /\ main = "write_record"
          /\ files' = [files EXCEPT ![file_store][Current].record = saving.record]
          /\ main' = "write_store"
          /\ UNCHANGED <<static_record, static_store, file_store, initial_record, saving>>
       \/ main = "write_store" /\ WriteStoreFile /\ main' = AfterSave
    /\ UNCHANGED <<thread_vars, pool_vars, within, node, block,
                   nmb_cpu_idle, nmb_opencl_idle, assigned_blocks>>

\* FileStore::save
SaveStep ==
    /\ \/ main = "create_store" /\ CreateStoreFile /\ main' = "write_store"
       \/ main = "write_store" /\ WriteStoreFile /\ main' = "create_record"
       \/ main = "write_store" /\ FaultyDisk /\ FailStoreFile /\ main' = "create_record"
       \/ main = "create_record" /\ CreateRecordFile /\ main' = "write_record"
       \/ main = "write_record" /\ WriteRecordFile /\ main' = AfterSave
    /\ UNCHANGED <<thread_vars, pool_vars, within, node, block,
                   nmb_cpu_idle, nmb_opencl_idle, assigned_blocks>>

\* update_config, 69-70, and the CurveIterator of threaded.cc 144-145
Configure ==
    /\ main = "configure"
    /\ OpenFileStore(node)
    /\ UpdateTables(node)
    /\ block' = 1
    /\ main' = "iterate"
    /\ UNCHANGED <<pool_vars, within, node, nmb_cpu_idle, nmb_opencl_idle,
                   assigned_blocks>>

\* threaded.cc 146: the blocks of the node are all assigned
EndOfNode ==
    /\ main = "iterate"
    /\ block > NbBlocks
    /\ node' = node + 1
    /\ main' = "node"
    /\ UNCHANGED <<thread_vars, pool_vars, store_vars, within, block,
                   nmb_cpu_idle, nmb_opencl_idle, assigned_blocks>>

\* assign, 79: delayed_save_global_stores_to_file saves when its time has come.
EnterAssign ==
    /\ main = "iterate"
    /\ block <= NbBlocks
    /\ within' = "assign"
    /\ main' \in {"save", "contains"}
    /\ UNCHANGED <<thread_vars, pool_vars, store_vars, node, block,
                   nmb_cpu_idle, nmb_opencl_idle, assigned_blocks>>

\* assign, 81-86
CheckContains ==
    /\ main = "contains"
    /\ IF block \in initial_record
       THEN block' = block + 1 /\ main' = "iterate"
       ELSE /\ main' = IF nmb_opencl_idle = 0 THEN "fill" ELSE "dispatch"
            /\ UNCHANGED block
    /\ UNCHANGED <<thread_vars, pool_vars, store_vars, within, node,
                   nmb_cpu_idle, nmb_opencl_idle, assigned_blocks>>

\* fill_idle_queues, 107
FillFinished ==
    /\ main = "fill"
    /\ TakeFinishedBlocks
    /\ main' = "flush_ready"
    /\ UNCHANGED <<thread_vars, store_vars, within, node, block,
                   nmb_cpu_idle, nmb_opencl_idle>>

\* Mutant: the numbers of idle threads are set, not added to.
FillReady_overwritten ==
    /\ main = "flush_ready"
    /\ \E opencl \in SetToSeqs(ready_threads \cap OpenCLThread),
          cpu \in SetToSeqs(ready_threads \ OpenCLThread) :
          /\ FlushReadyThreads(opencl, cpu)
          /\ nmb_opencl_idle' = Len(opencl)
          /\ nmb_cpu_idle' = Len(cpu)
    /\ main' = IF nmb_cpu_idle' = 0 /\ nmb_opencl_idle' = 0
               THEN "fill" ELSE "dispatch"
    /\ UNCHANGED <<thread_vars, store_vars, within, node, block, assigned_blocks>>

\* fill_idle_queues, 109-116
FillReady ==
    /\ main = "flush_ready"
    /\ \E opencl \in SetToSeqs(ready_threads \cap OpenCLThread),
          cpu \in SetToSeqs(ready_threads \ OpenCLThread) :
          /\ FlushReadyThreads(opencl, cpu)
          /\ nmb_opencl_idle' = nmb_opencl_idle + Len(opencl)
          /\ nmb_cpu_idle' = nmb_cpu_idle + Len(cpu)
    /\ main' = IF nmb_cpu_idle' = 0 /\ nmb_opencl_idle' = 0
               THEN "fill" ELSE "dispatch"
    /\ UNCHANGED <<thread_vars, store_vars, within, node, block, assigned_blocks>>

\* assign, 88-95, as far as the push of Thread::assign
Dispatch ==
    /\ main = "dispatch"
    /\ IF nmb_opencl_idle # 0
       THEN /\ nmb_opencl_idle' = nmb_opencl_idle - 1
            /\ PoolAssign(block, TRUE)
            /\ UNCHANGED nmb_cpu_idle
       ELSE /\ nmb_cpu_idle' = nmb_cpu_idle - 1
            /\ PoolAssign(block, FALSE)
            /\ UNCHANGED nmb_opencl_idle
    /\ main' = "notify"
    /\ UNCHANGED <<store_vars, within, node, block, assigned_blocks>>

\* The end of Thread::assign and of ThreadPool::assign, which unlocks the pool:
\* from here on the thread can report the block.
NotifyAssigned ==
    /\ main = "notify"
    /\ NotifyOne(call.thread)
    /\ main' = "insert"
    /\ UNCHANGED <<pool_vars, store_vars, within, node, block,
                   nmb_cpu_idle, nmb_opencl_idle, assigned_blocks>>

\* assign, 97, and the iterator's step
Insert ==
    /\ main = "insert"
    /\ assigned_blocks' = assigned_blocks \cup {block}
    /\ block' = block + 1
    /\ main' = "iterate"
    /\ UNCHANGED <<thread_vars, pool_vars, store_vars, within, node,
                   nmb_cpu_idle, nmb_opencl_idle>>

\* shutdown_threads: Thread::shutdown for one thread after the other
Shutdown ==
    /\ main = "shutdown"
    /\ \/ \E t \in Thread : \/ ~ shutting_down[t] /\ ShutdownFlag(t)
                            \/ NotifyAll(t)
                            \/ Join(t)
          /\ UNCHANGED main
       \/ /\ call = Returned
          /\ \A t \in Thread : shutting_down[t]
          /\ main' = "exited"
          /\ UNCHANGED thread_vars
    /\ UNCHANGED <<pool_vars, store_vars, within, node, block,
                   nmb_cpu_idle, nmb_opencl_idle, assigned_blocks>>

MainStep ==
    /\ ~ thrown
    /\ \/ NextNode
       \/ WaitForAssignedBlocks
       \/ SaveGlobalStores
       \/ SaveStep
       \/ Configure
       \/ EndOfNode
       \/ EnterAssign
       \/ CheckContains
       \/ FillFinished
       \/ FillReady
       \/ Dispatch
       \/ NotifyAssigned
       \/ Insert
       \/ Shutdown
    /\ UNCHANGED crashes

-----------------------------------------------------------------------------
(* Failures, and the specification                                         *)

\* What a crash leaves of the files: a record that was being written may hold
\* any part of what it was to list.
TornFiles ==
    IF main = "write_record"
    THEN \E part \in SUBSET saving.record :
            files' = [files EXCEPT ![file_store][Current].record = part]
    ELSE UNCHANGED files

\* The process ends between two steps and is started again.
Crash ==
    /\ ~ thrown
    /\ main # "exited"
    /\ crashes < MaxCrashes
    /\ crashes' = crashes + 1
    /\ TornFiles
    /\ shutting_down' = [t \in Thread |-> FALSE]
    /\ blocks' = [t \in Thread |-> <<>>]
    /\ tables' = [t \in Thread |-> NoNode]
    /\ pc' = [t \in Thread |-> "check"]
    /\ job' = [t \in Thread |-> NoJob]
    /\ call' = Returned
    /\ missed' = [t \in Thread |-> FALSE]
    /\ idle_threads' = <<>>
    /\ ready_threads' = Thread
    /\ busy_threads' = [b \in Block |-> Nobody]
    /\ finished_blocks' = {}
    /\ static_record' = {}
    /\ static_store' = NoCounts
    /\ file_store' = NoNode
    /\ initial_record' = {}
    /\ saving' = NothingToSave
    /\ main' = "node"
    /\ within' = "update_config"
    /\ node' = 1
    /\ block' = 1
    /\ nmb_cpu_idle' = 0
    /\ nmb_opencl_idle' = 0
    /\ assigned_blocks' = {}
    /\ UNCHANGED thrown

\* The process has ended.
Terminating == (main = "exited" \/ thrown) /\ UNCHANGED vars

Next ==
    \/ MainStep
    \/ \E t \in Thread : WorkerStep(t) \/ Wakeup(t)
    \/ Crash
    \/ Terminating

\* The scheduler runs every thread that is not blocked; no lock is held while
\* the main thread sleeps in one of its two loops, so that no thread is kept
\* out of a mutex for ever.  Wakeups without a reason, crashes and errors of
\* the disk are not forced.
Fairness == WF_vars(MainStep) /\ \A t \in Thread : WF_vars(WorkerStep(t))

Spec == Init /\ [][Next]_vars /\ Fairness

-----------------------------------------------------------------------------
(* Properties                                                              *)

\* None of the bare throw statements is reached: the deque yields a thread of
\* the kind the counters promise (thread_pool.cc 110-113), a thread reports only
\* blocks it was given (127-131), and the pool hands out only blocks that were
\* assigned (standalone.cc 136-142).
NoThrow == ~ thrown

\* The counters of the main thread and the deque behind the pool's mutex are
\* two descriptions of one thing: the OpenCL threads, as many as
\* nmb_opencl_idle says, are at the front, the CPU threads behind them, and an
\* idle thread has nothing queued, is reached once, and owns no block.
IdleThreadsMatchCounters ==
    /\ Len(idle_threads) = nmb_opencl_idle + nmb_cpu_idle
    /\ \A i \in DOMAIN idle_threads :
        /\ idle_threads[i] \in OpenCLThread <=> i <= nmb_opencl_idle
        /\ blocks[idle_threads[i]] = <<>>
        /\ pc[idle_threads[i]] \notin {"pop", "count", "report"}
        /\ idle_threads[i] \notin ready_threads
        /\ \A b \in Block : busy_threads[b] # idle_threads[i]
        /\ \A j \in DOMAIN idle_threads :
            i # j => idle_threads[i] # idle_threads[j]

\* The block that a thread has been given and not yet reported.
Holds(t, b) ==
    \/ \E i \in DOMAIN blocks[t] : blocks[t][i].block = b
    \/ pc[t] \in {"count", "report"} /\ job[t].block = b

\* The block that the pool has been given and assigned_blocks does not list yet.
\* Its thread may count and report it before standalone.cc 97 inserts it.
BeingAssigned == IF main \in {"notify", "insert"} THEN {block} ELSE {}

\* The blocks the main thread waits for, and the one it is just assigning, are
\* those on their way: with one thread, or finished and not yet taken over.  Were
\* one neither, wait_for_assigned_blocks would not end; were it both, or with two
\* threads, it would be counted twice; were one finished that the main thread does
\* not know by the time it takes over what is finished, the program would throw.
AssignedBlocksAreOnTheirWay ==
    /\ BusyBlocks \cup finished_blocks = assigned_blocks \cup BeingAssigned
    /\ BusyBlocks \cap finished_blocks = {}
    /\ \A t \in Thread, b \in Block : Holds(t, b) <=> busy_threads[b] = t

\* Is save writing this pair?
BeingWritten(n, i) == n = file_store /\ i = Current /\ main \in Saves

\* "save record second as a witness to successful writing" (file_store.cc 71):
\* where there is a record, the store holds the counts of exactly its blocks,
\* each once and made with the tables of that node, whatever the threads
\* merged, in whatever order, while the saves went on.
WitnessedPairsComplete ==
    \A n \in Node : \A i \in DOMAIN files[n] :
        files[n][i].witness /\ ~ BeingWritten(n, i) => Complete(n, files[n][i])

\* The FileStore in use is replaced, and the process ends, only when nothing is
\* left in memory: no thread holds a block, and what was merged is saved
\* (standalone.cc 51-71).  Otherwise counts of one node would be saved under
\* the next one's path, or be lost.
NothingLeftBehind ==
    [][ (file_store' \notin {file_store, NoNode} \/ main' = "exited")
        => /\ \A t \in Thread, b \in Block : ~ Holds(t, b)
           /\ static_record = {} /\ static_store = NoCounts
           /\ saving = NothingToSave ]_vars

\* The nodes whose turn comes: those before the first that does not verify.
Reached == {n \in Node : \A m \in 1 .. n : m \notin BadNode}

\* When the program ends, every block of every node it accepted is listed, and
\* every thread has returned, so that none finds its pool expired
\* (thread.cc 99-103).
AllRecordedAtExit ==
    main = "exited" =>
        /\ \A n \in Reached : Recorded(n) = Block
        /\ \A t \in Thread : pc[t] = "exited"

\* test/threaded.cc assigns all blocks, destroys the pool and compares: the
\* program comes to its end.
Completes == <>(main = "exited")

\* It does unless a thread sleeps through the notification meant for it.
CompletesUnlessWakeupLost ==
    <>(main = "exited" \/ \E t \in Thread : WakeupLost(t))

\* What the program promises of the records, without threads and saves.
Abstract == INSTANCE PointCount WITH recorded <- [n \in Node |-> Recorded(n)]
Promise == Abstract!Spec
=============================================================================
