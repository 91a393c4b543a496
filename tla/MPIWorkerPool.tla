--------------------------- MODULE MPIWorkerPool ----------------------------
(***************************************************************************)
(* hycu-mpi: the master of src/src/executables/mpi.cc and                  *)
(* src/src/worker_pool/mpi.cc, the worker processes of                     *)
(* src/src/worker_pool/mpi_worker.cc, the channels between them, and the   *)
(* threads that each process counts with.                                  *)
(*                                                                         *)
(* Every process has a thread pool and static stores of its own; only the  *)
(* master has files.  The pools are those of ThreadPool seen from outside: *)
(* how many threads of each kind the owner knows to be idle, how many are  *)
(* ready, what the others work on.  MPI delivers the messages of one pair  *)
(* of processes in their order; nothing else is assumed of it.  Sends to   *)
(* several workers in a row are one step, since the master looks at        *)
(* nothing in between.                                                     *)
(***************************************************************************)
EXTENDS FileStore, FiniteSets

CONSTANTS NbWorkers,    \* processes besides the master
          NbThreads,    \* per process and kind: the threads it sparks
          BadNode,      \* the nodes for which ConfigNode::verify fails
          MaxCrashes,   \* bound: the number of crashes
          MayReject,    \* whether the options or the configuration may be
                        \* refused before the pool is made
          FaultyStore   \* the stores whose writing may have an error: the node
                        \* and the number of the pair under its result path

Master == 0
Worker == 1 .. NbWorkers
Process == {Master} \cup Worker
Kind == {"cpu", "opencl"}

ASSUME MPIAssumption ==
    /\ NbWorkers \in Nat
    /\ NbThreads \in [Process -> [Kind -> Nat]]
    /\ BadNode \subseteq Node
    /\ MaxCrashes \in Nat
    /\ MayReject \in BOOLEAN
    /\ FaultyStore \subseteq Node \X (Nat \ {0})

VARIABLES
    pool,               \* per process: its ThreadPool
    worker_record,      \* per worker: Store::static_record of its process
    worker_store,       \* per worker: Store::static_store of its process
    worker,             \* per worker: its position in main_mpi_worker
    inbox,              \* per worker: the messages from the master
    outbox,             \* per worker: its answers to the master
    main,               \* the position of the master
    within,             \* the method it is in
    peer,               \* the process whose turn it is in a loop over them
    asked,              \* whether the master waits for that one's answer
    node, block,        \* mpi.cc: the node, and the block of CurveIterator
    idle_queue,         \* cpu_idle_queue and opencl_idle_queue
    assigned_blocks,
    thrown,             \* a bare throw, or the front of an empty deque
    crashes,            \* the crashes so far
    asleep              \* per process: the notifications that a thread of its
                        \* missed, and sleeps on after

worker_vars == <<worker_record, worker_store, worker, inbox, outbox>>
position == <<within, node, block>>
book_vars == <<idle_queue, assigned_blocks>>
program_vars == <<store_vars, pool, worker_vars, main, position, peer, asked,
                  book_vars, thrown, crashes>>
vars == <<program_vars, asleep>>

(***************************************************************************)
(*  main:  "options"   mpi.cc 60-136, up to the constructor                *)
(*         "node"      144, the loop's test, and verify                    *)
(*         "finished"  flush_finished_blocks                               *)
(*         "ready"     fill_idle_queues, the threads that became ready     *)
(*         "save"      save_global_stores_to_file, before a store is taken *)
(*         "create_store", "write_store", "create_record", "write_record"  *)
(*                     the steps of FileStore::save                        *)
(*         "configure" update_config after the save                        *)
(*         "iterate"   mpi.cc 155, the inner loop's test                   *)
(*         "contains"  assign, 122                                         *)
(*         "dispatch"  assign, 129                                         *)
(*         "shutdown"  the destructor after the save                       *)
(*         "join"      shutdown_threads, the last call of the destructor   *)
(*         "exited", "rejected"   main has returned                        *)
(***************************************************************************)
Saves == {"create_store", "write_store", "create_record", "write_record"}

\* The loops over all processes that ask the workers something.
Asking == {"finished", "ready", "save"}

-----------------------------------------------------------------------------
(* A thread pool                                                           *)

\* A pool has the tables of its threads, for each kind the numbers of idle and of
\* ready threads, what the busy ones work on - a block, the node of the tables it
\* was queued with, the kind of thread, and whether its counts are merged into the
\* static store - and the finished blocks.

\* spark_threads
Sparked(p) ==
    [tables |-> NoNode, idle |-> [k \in Kind |-> 0], ready |-> NbThreads[p],
     busy |-> {}, finished |-> {}]

\* assign, of a block for a thread of that kind
PoolAssign(q, b, kind) ==
    [q EXCEPT !.idle[kind] = @ - 1,
              !.busy = @ \cup {[block |-> b, node |-> q.tables,
                                kind |-> kind, merged |-> FALSE]}]

\* flush_ready_threads
ReadyFlushed(q) ==
    [q EXCEPT !.idle = [k \in Kind |-> @[k] + q.ready[k]],
              !.ready = [k \in Kind |-> 0]]

FinishedFlushed(q) == [q EXCEPT !.finished = {}]

\* finished_block
Reported(q, job) ==
    [q EXCEPT !.busy = @ \ {job}, !.ready[job.kind] = @ + 1,
              !.finished = @ \cup {job.block}]

-----------------------------------------------------------------------------
\* The memory of all processes at the start of the job.
JobInit ==
    /\ pool = [p \in Process |-> Sparked(p)]
    /\ worker_record = [w \in Worker |-> {}]
    /\ worker_store = [w \in Worker |-> NoCounts]
    /\ worker = [w \in Worker |-> "broadcast"]
    /\ inbox = [w \in Worker |-> <<>>]
    /\ outbox = [w \in Worker |-> <<>>]
    /\ main = "options"
    /\ within = "update_config"
    /\ peer = Master
    /\ asked = FALSE
    /\ node = 1
    /\ block = 1
    /\ idle_queue = [k \in Kind |-> <<>>]
    /\ assigned_blocks = [p \in Process |-> {}]

Init ==
    /\ FileStoreInit
    /\ JobInit
    /\ thrown = FALSE
    /\ crashes = 0
    /\ asleep = [p \in Process |-> {}]

-----------------------------------------------------------------------------
(* The threads of every process                                            *)

\* A thread that has seen its queue empty and does not wait yet misses what it is
\* notified of, and waits then (thread.cc 61-70; Thread has the steps): of a block,
\* or of the shutdown.
ShutdownCall == 0
MayMiss(p, notification) ==
    asleep' \in {asleep, [asleep EXCEPT ![p] = @ \cup {notification}]}

\* shutdown_threads notifies the threads that there are.
MayMissShutdown(p) ==
    IF \E k \in Kind : NbThreads[p][k] > 0
    THEN MayMiss(p, ShutdownCall)
    ELSE UNCHANGED asleep

\* thread.cc 70: wait may return without a notification, at some time or never.
SpuriousWakeup(p) ==
    /\ ~ thrown
    /\ \E notification \in asleep[p] :
          asleep' = [asleep EXCEPT ![p] = @ \ {notification}]
    /\ UNCHANGED program_vars

\* thread.cc 46-47, the end of shutdown_threads: every thread has returned.
Joined(p) == pool[p].busy = {} /\ asleep[p] = {}

\* The counts of a block go into the static store of the process.
Merge(p) ==
    \E job \in pool[p].busy :
        /\ ~ job.merged
        /\ job.block \notin asleep[p]
        /\ pool' = [pool EXCEPT ![p].busy =
                      (@ \ {job}) \cup {[job EXCEPT !.merged = TRUE]}]
        /\ IF p = Master
           THEN /\ FlushToStaticStore(job.block, job.node)
                /\ UNCHANGED <<worker_record, worker_store>>
           ELSE /\ worker_record' = [worker_record EXCEPT ![p] = @ \cup {job.block}]
                /\ worker_store' = [worker_store EXCEPT ![p][job.node][job.block] = @ + 1]
                /\ UNCHANGED store_vars
        /\ UNCHANGED <<worker, inbox, outbox>>

Report(p) ==
    \E job \in pool[p].busy :
        /\ job.merged
        /\ pool' = [pool EXCEPT ![p] = Reported(@, job)]
        /\ UNCHANGED <<store_vars, worker_vars>>

ThreadStep(p) ==
    /\ ~ thrown
    /\ Merge(p) \/ Report(p)
    /\ UNCHANGED <<main, position, peer, asked, book_vars, thrown, crashes, asleep>>

-----------------------------------------------------------------------------
(* main_mpi_worker                                                         *)

\* 40-47: the worker is in the broadcast until the master has entered it.
LeaveBroadcast(w) ==
    /\ worker[w] = "broadcast"
    /\ main \notin {"options", "rejected"}
    /\ worker' = [worker EXCEPT ![w] = "loop"]
    /\ UNCHANGED <<pool, worker_record, worker_store, inbox, outbox, thrown>>

\* probe finds the first message that is there; recv takes it.
Receive(w, tag) ==
    /\ worker[w] = "loop"
    /\ inbox[w] # <<>>
    /\ Head(inbox[w]).tag = tag
    /\ inbox' = [inbox EXCEPT ![w] = Tail(@)]

Answer(w, message) == outbox' = [outbox EXCEPT ![w] = Append(@, message)]

\* 53-58
WorkerUpdateConfig(w) ==
    /\ Receive(w, "update_config")
    /\ pool' = [pool EXCEPT ![w].tables = Head(inbox[w]).node]
    /\ UNCHANGED <<worker_record, worker_store, worker, outbox, thrown>>

\* 60-72
WorkerAssign(w) ==
    /\ Receive(w, "assign_block")
    /\ LET message == Head(inbox[w])
       IN  IF pool[w].idle[message.kind] = 0
           THEN thrown' = TRUE /\ UNCHANGED <<pool, asleep>>
           ELSE /\ MayMiss(w, message.block)
                /\ pool' = [pool EXCEPT ![w] =
                               PoolAssign(@, message.block, message.kind)]
                /\ UNCHANGED thrown
    /\ UNCHANGED <<worker_record, worker_store, worker, outbox>>

\* Mutant: the threads are answered but stay marked as ready.
WorkerReady_notFlushed(w) ==
    /\ Receive(w, "ready")
    /\ pool' = [pool EXCEPT ![w] = [ReadyFlushed(@) EXCEPT !.ready = pool[w].ready]]
    /\ Answer(w, [tag |-> "ready", ready |-> pool[w].ready])
    /\ UNCHANGED <<worker_record, worker_store, worker, thrown>>

\* 74-82
WorkerReady(w) ==
    /\ Receive(w, "ready")
    /\ pool' = [pool EXCEPT ![w] = ReadyFlushed(@)]
    /\ Answer(w, [tag |-> "ready", ready |-> pool[w].ready])
    /\ UNCHANGED <<worker_record, worker_store, worker, thrown>>

\* Mutant: the worker's store is sent and kept.
WorkerSave_kept(w) ==
    /\ Receive(w, "save")
    /\ Answer(w, [tag |-> "save", stores |->
                    [record |-> worker_record[w], store |-> worker_store[w]]])
    /\ worker_record' = [worker_record EXCEPT ![w] = {}]
    /\ UNCHANGED <<pool, worker, worker_store, thrown>>

\* 84-91, with flush_global_store
WorkerSave(w) ==
    /\ Receive(w, "save")
    /\ Answer(w, [tag |-> "save", stores |->
                    [record |-> worker_record[w], store |-> worker_store[w]]])
    /\ worker_record' = [worker_record EXCEPT ![w] = {}]
    /\ worker_store' = [worker_store EXCEPT ![w] = NoCounts]
    /\ UNCHANGED <<pool, worker, thrown>>

\* Mutant: the finished blocks are forgotten before they are sent.
WorkerFinished_forgotten(w) ==
    /\ Receive(w, "finished")
    /\ pool' = [pool EXCEPT ![w] = FinishedFlushed(@)]
    /\ Answer(w, [tag |-> "finished", blocks |-> {}])
    /\ UNCHANGED <<worker_record, worker_store, worker, thrown>>

\* Mutant: the finished blocks are sent and kept.
WorkerFinished_kept(w) ==
    /\ Receive(w, "finished")
    /\ Answer(w, [tag |-> "finished", blocks |-> pool[w].finished])
    /\ UNCHANGED <<pool, worker_record, worker_store, worker, thrown>>

\* 93-100
WorkerFinished(w) ==
    /\ Receive(w, "finished")
    /\ pool' = [pool EXCEPT ![w] = FinishedFlushed(@)]
    /\ Answer(w, [tag |-> "finished", blocks |-> pool[w].finished])
    /\ UNCHANGED <<worker_record, worker_store, worker, thrown>>

\* 102-105, and 106 up to the notifications
WorkerShutdown(w) ==
    /\ Receive(w, "shutdown")
    /\ worker' = [worker EXCEPT ![w] = "join"]
    /\ MayMissShutdown(w)
    /\ UNCHANGED <<pool, worker_record, worker_store, outbox, thrown>>

\* 106-107: the threads are joined, which count what they are at to its end.
WorkerJoin(w) ==
    /\ worker[w] = "join"
    /\ Joined(w)
    /\ worker' = [worker EXCEPT ![w] = "exited"]
    /\ UNCHANGED <<pool, worker_record, worker_store, inbox, outbox, thrown>>

WorkerStep(w) ==
    /\ ~ thrown
    /\ \/ LeaveBroadcast(w) /\ UNCHANGED asleep
       \/ WorkerUpdateConfig(w) /\ UNCHANGED asleep
       \/ WorkerAssign(w)
       \/ WorkerReady(w) /\ UNCHANGED asleep
       \/ WorkerSave(w) /\ UNCHANGED asleep
       \/ WorkerFinished(w) /\ UNCHANGED asleep
       \/ WorkerShutdown(w)
       \/ WorkerJoin(w) /\ UNCHANGED asleep
    /\ UNCHANGED <<store_vars, main, position, peer, asked, book_vars, crashes>>

-----------------------------------------------------------------------------
(* The master                                                              *)

\* mpi.cc 86-128: the help text, and everything that main finds missing or
\* wrong, end the master before it enters the broadcast.
Reject ==
    /\ main = "options"
    /\ MayReject
    /\ main' = "rejected"
    /\ UNCHANGED <<store_vars, pool, inbox, outbox, position, peer, asked, book_vars, thrown>>

\* The constructor of the pool.  Broadcasts of the root need no other process.
EnterBroadcast ==
    /\ main = "options"
    /\ main' = "node"
    /\ UNCHANGED <<store_vars, pool, inbox, outbox, position, peer, asked, book_vars, thrown>>

\* Mutant: neither update_config nor the destructor waits for the threads.
NextNode_noWait ==
    /\ main = "node"
    /\ main' = "save"
    /\ within' = IF node \in Node \ BadNode THEN "update_config" ELSE "destructor"
    /\ UNCHANGED <<store_vars, pool, inbox, outbox, node, block, peer, asked, book_vars, thrown>>

\* mpi.cc 144-151: as in hycu-threaded the destructor runs next, after the last
\* node and after one that does not verify.
NextNode ==
    /\ main = "node"
    /\ main' = "finished"
    /\ within' = IF node \in Node \ BadNode THEN "update_config" ELSE "destructor"
    /\ UNCHANGED <<store_vars, pool, inbox, outbox, node, block, peer, asked, book_vars, thrown>>

\* On to the next process, or out of the loop.
NextPeer(again, after) ==
    /\ peer' = IF peer = NbWorkers THEN Master ELSE peer + 1
    /\ main' = IF peer = NbWorkers THEN after ELSE again

\* The request of a loop over the processes; the master then waits in recv.
Ask ==
    /\ main \in Asking
    /\ peer # Master
    /\ ~ asked
    /\ asked' = TRUE
    /\ inbox' = [inbox EXCEPT ![peer] = Append(@, [tag |-> main])]
    /\ UNCHANGED <<store_vars, pool, outbox, main, position, peer, book_vars, thrown>>

\* The answer it waits for.
Answered(tag) ==
    /\ main = tag
    /\ asked
    /\ outbox[peer] # <<>>
    /\ Head(outbox[peer]).tag = tag
    /\ asked' = FALSE
    /\ outbox' = [outbox EXCEPT ![peer] = Tail(@)]
    /\ UNCHANGED inbox

\* The master's own turn, which is the first.
Own(tag) ==
    /\ main = tag
    /\ peer = Master
    /\ UNCHANGED <<inbox, outbox, asked>>

\* Mutant: all blocks of the process are taken for finished.
TakeFinished_all(blocks) ==
    IF blocks \subseteq assigned_blocks[peer]
    THEN /\ assigned_blocks' = [assigned_blocks EXCEPT ![peer] = {}]
         /\ UNCHANGED thrown
    ELSE thrown' = TRUE /\ UNCHANGED assigned_blocks

\* finished_block, 209-226, for the blocks of one process
TakeFinished(blocks) ==
    IF blocks \subseteq assigned_blocks[peer]
    THEN /\ assigned_blocks' = [assigned_blocks EXCEPT ![peer] = @ \ blocks]
         /\ UNCHANGED thrown
    ELSE thrown' = TRUE /\ UNCHANGED assigned_blocks

\* flush_finished_blocks, 191-207, in the loop of wait_for_assigned_blocks,
\* 228-244, or of fill_idle_queues.
FlushFinished ==
    /\ \/ /\ Own("finished")
          /\ pool' = [pool EXCEPT ![Master] = FinishedFlushed(@)]
          /\ TakeFinished(pool[Master].finished)
       \/ /\ Answered("finished")
          /\ TakeFinished(Head(outbox[peer]).blocks)
          /\ UNCHANGED pool
    /\ NextPeer("finished", IF within = "assign" THEN "ready"
                            ELSE IF \E p \in Process : assigned_blocks'[p] # {}
                            THEN "finished" ELSE "save")
    /\ UNCHANGED <<store_vars, position, idle_queue>>

\* fill_idle_queues, for one process: its number is pushed once per thread.
PushReady(ready) ==
    idle_queue' = [k \in Kind |-> idle_queue[k] \o [i \in 1 .. ready[k] |-> peer]]

\* fill_idle_queues, 162-187
FillIdleQueues ==
    /\ \/ /\ Own("ready")
          /\ pool' = [pool EXCEPT ![Master] = ReadyFlushed(@)]
          /\ PushReady(pool[Master].ready)
       \/ /\ Answered("ready")
          /\ PushReady(Head(outbox[peer]).ready)
          /\ UNCHANGED pool
    /\ NextPeer("ready", IF \A k \in Kind : idle_queue'[k] = <<>>
                         THEN "finished" ELSE "dispatch")
    /\ UNCHANGED <<store_vars, position, assigned_blocks, thrown>>

\* Where save_global_stores_to_file returns to.
AfterSave == CASE within = "update_config" -> "configure"
               [] within = "assign" -> "contains"
               [] within = "destructor" -> "shutdown"

\* save_global_stores_to_file, 246-267: one process after the other, each with
\* a pair of files of its own, also when it has nothing to save.
SaveGlobalStores ==
    /\ \/ /\ Own("save")
          /\ IF file_store = NoNode
             THEN main' = AfterSave /\ UNCHANGED store_vars
             ELSE main' = "create_store" /\ FlushStaticStore
       \/ /\ Answered("save")
          /\ saving' = Head(outbox[peer]).stores
          /\ main' = "create_store"
          /\ UNCHANGED <<static_record, static_store, files, file_store, initial_record>>
    /\ UNCHANGED <<pool, position, peer, book_vars, thrown>>

\* FileStore::save, then the next process
SaveStep ==
    /\ \/ main = "create_store" /\ CreateStoreFile /\ main' = "write_store" /\ UNCHANGED peer
       \/ main = "write_store" /\ WriteStoreFile /\ main' = "create_record" /\ UNCHANGED peer
       \/ /\ main = "write_store" /\ <<file_store, Current>> \in FaultyStore
          /\ FailStoreFile /\ main' = "create_record" /\ UNCHANGED peer
       \/ main = "create_record" /\ CreateRecordFile /\ main' = "write_record" /\ UNCHANGED peer
       \/ main = "write_record" /\ WriteRecordFile /\ NextPeer("save", AfterSave)
    /\ UNCHANGED <<pool, inbox, outbox, position, asked, book_vars, thrown>>

\* A message to every worker, without an answer.
SendAll(message) ==
    /\ inbox' = [w \in Worker |-> Append(inbox[w], message)]
    /\ UNCHANGED <<outbox, peer, asked>>

\* Mutant: the workers are not told.
Configure_masterOnly ==
    /\ main = "configure"
    /\ OpenFileStore(node)
    /\ pool' = [pool EXCEPT ![Master].tables = node]
    /\ block' = 1
    /\ main' = "iterate"
    /\ UNCHANGED <<inbox, outbox, peer, asked, within, node, book_vars, thrown>>

\* update_config, 106-111, and the CurveIterator of mpi.cc 153-154
Configure ==
    /\ main = "configure"
    /\ OpenFileStore(node)
    /\ pool' = [pool EXCEPT ![Master].tables = node]
    /\ SendAll([tag |-> "update_config", node |-> node])
    /\ block' = 1
    /\ main' = "iterate"
    /\ UNCHANGED <<within, node, book_vars, thrown>>

\* mpi.cc 155: the blocks of the node are all assigned.
EndOfNode ==
    /\ main = "iterate"
    /\ block > NbBlocks
    /\ node' = node + 1
    /\ main' = "node"
    /\ UNCHANGED <<store_vars, pool, inbox, outbox, within, block, peer, asked, book_vars, thrown>>

\* assign, 120: delayed_save_global_stores_to_file saves when its time has come.
EnterAssign ==
    /\ main = "iterate"
    /\ block <= NbBlocks
    /\ within' = "assign"
    /\ main' \in {"save", "contains"}
    /\ UNCHANGED <<store_vars, pool, inbox, outbox, node, block, peer, asked, book_vars, thrown>>

\* assign, 122-127: the queue of CPUs does not keep fill_idle_queues from
\* being called.
CheckContains ==
    /\ main = "contains"
    /\ IF block \in initial_record
       THEN block' = block + 1 /\ main' = "iterate"
       ELSE /\ main' = IF idle_queue["opencl"] = <<>> THEN "finished" ELSE "dispatch"
            /\ UNCHANGED block
    /\ UNCHANGED <<store_vars, pool, inbox, outbox, within, node, peer, asked, book_vars, thrown>>

\* assign, 129-153: OpenCL threads first.
Dispatch ==
    LET kind == IF idle_queue["opencl"] # <<>> THEN "opencl" ELSE "cpu"
        process_id == Head(idle_queue[kind])
    IN  /\ main = "dispatch"
        /\ idle_queue' = [idle_queue EXCEPT ![kind] = Tail(@)]
        /\ IF process_id # Master
           THEN /\ inbox' = [inbox EXCEPT ![process_id] = Append(@,
                               [tag |-> "assign_block", kind |-> kind, block |-> block])]
                /\ UNCHANGED <<pool, thrown, asleep>>
           ELSE /\ IF pool[Master].idle[kind] = 0
                   THEN thrown' = TRUE /\ UNCHANGED <<pool, asleep>>
                   ELSE /\ pool' = [pool EXCEPT ![Master] = PoolAssign(@, block, kind)]
                        /\ MayMiss(Master, block)
                        /\ UNCHANGED thrown
                /\ UNCHANGED inbox
        /\ assigned_blocks' = [assigned_blocks EXCEPT ![process_id] = @ \cup {block}]
        /\ block' = block + 1
        /\ main' = "iterate"
        /\ UNCHANGED <<store_vars, outbox, within, node, peer, asked>>

\* The destructor, 74-79: the workers are told, then the own threads notified.
Shutdown ==
    /\ main = "shutdown"
    /\ SendAll([tag |-> "shutdown"])
    /\ MayMissShutdown(Master)
    /\ main' = "join"
    /\ UNCHANGED <<store_vars, pool, position, book_vars, thrown>>

\* 79: the own threads are joined.
JoinThreads ==
    /\ main = "join"
    /\ Joined(Master)
    /\ main' = "exited"
    /\ UNCHANGED <<store_vars, pool, inbox, outbox, position, peer, asked, book_vars, thrown>>

MainStep ==
    /\ ~ thrown
    /\ \/ /\ \/ Reject
             \/ EnterBroadcast
             \/ NextNode
             \/ Ask
             \/ FlushFinished
             \/ FillIdleQueues
             \/ SaveGlobalStores
             \/ SaveStep
             \/ Configure
             \/ EndOfNode
             \/ EnterAssign
             \/ CheckContains
             \/ JoinThreads
          /\ UNCHANGED asleep
       \/ Dispatch
       \/ Shutdown
    /\ UNCHANGED <<worker_record, worker_store, worker, crashes>>

-----------------------------------------------------------------------------
(* Failures, and the specification                                         *)

\* One process that ends takes the job with it.  The files stay; a record that
\* was being written may hold any part of what it was to list.
Crash ==
    /\ ~ thrown
    /\ main \notin {"exited", "rejected"}
    /\ crashes < MaxCrashes
    /\ crashes' = crashes + 1
    /\ IF main = "write_record"
       THEN \E part \in SUBSET saving.record :
               files' = [files EXCEPT ![file_store][Current].record = part]
       ELSE UNCHANGED files
    /\ static_record' = {}
    /\ static_store' = NoCounts
    /\ file_store' = NoNode
    /\ initial_record' = {}
    /\ saving' = NothingToSave
    /\ pool' = [p \in Process |-> Sparked(p)]
    /\ worker_record' = [w \in Worker |-> {}]
    /\ worker_store' = [w \in Worker |-> NoCounts]
    /\ worker' = [w \in Worker |-> "broadcast"]
    /\ inbox' = [w \in Worker |-> <<>>]
    /\ outbox' = [w \in Worker |-> <<>>]
    /\ main' = "options"
    /\ within' = "update_config"
    /\ peer' = Master
    /\ asked' = FALSE
    /\ node' = 1
    /\ block' = 1
    /\ idle_queue' = [k \in Kind |-> <<>>]
    /\ assigned_blocks' = [p \in Process |-> {}]
    /\ asleep' = [p \in Process |-> {}]
    /\ UNCHANGED thrown

AllExited == main = "exited" /\ \A w \in Worker : worker[w] = "exited"

\* After a rejection the workers are left in the broadcast.
Terminating == (AllExited \/ main = "rejected" \/ thrown) /\ UNCHANGED vars

Next ==
    \/ MainStep
    \/ \E w \in Worker : WorkerStep(w)
    \/ \E p \in Process : ThreadStep(p)
    \/ \E p \in Process : SpuriousWakeup(p)
    \/ Crash
    \/ Terminating

\* The scheduler runs every process, and every thread that has a block and does not
\* sleep.  Nothing makes a thread wake up that missed its notification.
Fairness ==
    /\ WF_vars(MainStep)
    /\ \A w \in Worker : WF_vars(WorkerStep(w))
    /\ \A p \in Process : WF_vars(ThreadStep(p))

Spec == Init /\ [][Next]_vars /\ Fairness

-----------------------------------------------------------------------------
(* Properties                                                              *)

\* No process reaches a bare throw or the front of an empty deque: what the
\* master believes of the threads of other processes, and they of their own,
\* agrees whenever a block is assigned (mpi.cc 129-153, thread_pool.cc 110-113),
\* and a block comes back only from the process it went to (mpi.cc 209-226).
NoThrow == ~ thrown

Occurrences(s, e) == Cardinality({i \in DOMAIN s : s[i] = e})

\* The blocks on their way to a worker, for a kind of thread.
Sent(w, kind) ==
    {inbox[w][i].block : i \in {j \in DOMAIN inbox[w] :
        inbox[w][j].tag = "assign_block" /\ inbox[w][j].kind = kind}}

\* The answer on its way to the master.
Answering(w, tag) == outbox[w] # <<>> /\ Head(outbox[w]).tag = tag

\* The queues of the master and the deques of the processes describe the same
\* threads, when the messages between them are taken into account; no
\* thread is lost or known twice.
QueuesMatchPools ==
    \A p \in Process, k \in Kind :
        /\ pool[p].idle[k] =
             Occurrences(idle_queue[k], p)
             + IF p = Master THEN 0
               ELSE Cardinality(Sent(p, k))
                    + IF Answering(p, "ready") THEN Head(outbox[p]).ready[k] ELSE 0
        /\ NbThreads[p][k] = pool[p].idle[k] + pool[p].ready[k]
                             + Cardinality({job \in pool[p].busy : job.kind = k})

\* A block the master waits for is in one place: in a message to the process
\* it was assigned to, with one of its threads, finished there, or in the answer that
\* says so.  One that were in none would be waited for without end, one in
\* two would be reported to a master that no longer knows it.
AssignedBlocksAreOnTheirWay ==
    \A p \in Process :
        LET sent == IF p = Master THEN {} ELSE Sent(p, "cpu") \cup Sent(p, "opencl")
            busy == {job.block : job \in pool[p].busy}
            done == pool[p].finished
            told == IF p # Master /\ Answering(p, "finished")
                    THEN Head(outbox[p]).blocks ELSE {}
        IN  /\ assigned_blocks[p] = sent \cup busy \cup done \cup told
            /\ Cardinality(assigned_blocks[p]) =
                 Cardinality(sent) + Cardinality(pool[p].busy)
                 + Cardinality(done) + Cardinality(told)
            /\ \A o \in Process \ {p} : assigned_blocks[o] \cap assigned_blocks[p] = {}

\* Though no worker acknowledges update_config, a thread counts with the
\* tables of the node under whose path its counts will be saved (mpi.cc
\* 106-111, mpi_worker.cc 53-72).
CountedForTheNodeInUse ==
    \A p \in Process : \A job \in pool[p].busy : job.node = file_store

\* Is save writing this pair?
BeingWritten(n, i) == n = file_store /\ i = Current /\ main \in Saves

\* Where there is a record, the store of the pair holds the counts of exactly
\* its blocks, each once, made with the tables of that node (file_store.cc 71),
\* whichever process they come from and whatever is merged elsewhere while the
\* stores are fetched one after the other (mpi.cc 255-265); unless writing the
\* store had an error, of which the next pairs show nothing.
WitnessedPairsComplete ==
    \A n \in Node : \A i \in DOMAIN files[n] :
        files[n][i].witness /\ ~ BeingWritten(n, i)
            => Complete(n, files[n][i]) \/ files[n][i].failed

\* The FileStore is replaced, and the master ends, only when no process has
\* anything left that belongs to it: blocks, counts, or messages about either
\* (mpi.cc 69-79, 97-112).
NothingLeftBehind ==
    [][ (file_store' \notin {file_store, NoNode} \/ main' = "exited")
        => /\ static_record = {} /\ static_store = NoCounts
           /\ saving = NothingToSave
           /\ \A p \in Process : pool[p].busy = {}
           /\ \A w \in Worker :
                /\ worker_record[w] = {} /\ worker_store[w] = NoCounts
                /\ outbox[w] = <<>>
                /\ Sent(w, "cpu") = {} /\ Sent(w, "opencl") = {} ]_vars

\* The nodes whose turn comes: those before the first that does not verify.
Reached == {n \in Node : \A m \in 1 .. n : m \notin BadNode}

\* When the master has ended, every block of every node it accepted is listed,
\* crash or not.
AllRecordedAtExit ==
    main = "exited" => \A n \in Reached : Recorded(n) = Block

\* Every process ends, unless a thread sleeps for ever after a notification that it
\* missed (thread.cc 61-70), or the master returns early, as "configuration file
\* required" and its like do (mpi.cc 86-128): the workers have entered the
\* broadcast by then (mpi.cc 57), and none of them leaves it.
EndsUnlessRejectedOrAsleep ==
    <>[](\/ AllExited
         \/ main = "rejected" /\ \A w \in Worker : worker[w] = "broadcast"
         \/ \E p \in Process : asleep[p] # {})

\* What hycu-threaded promises of the records, hycu-mpi promises too.
Abstract == INSTANCE PointCount WITH recorded <- [n \in Node |-> Recorded(n)]
Promise == Abstract!Spec
=============================================================================
