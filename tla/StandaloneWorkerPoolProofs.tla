---------------------- MODULE StandaloneWorkerPoolProofs --------------------
(***************************************************************************)
(* Proofs about StandaloneWorkerPool for any number of threads, blocks,    *)
(* nodes and crashes.  The first part has type correctness, and that the   *)
(* bookkeeping of the pool and of its owner agree, so that no throw        *)
(* statement is reached.  The second part, with errors of the disk, has    *)
(* what the records list, what the stores hold, and that the records       *)
(* implement PointCount.                                                   *)
(***************************************************************************)
EXTENDS StandaloneWorkerPool, FileStoreProofs, FiniteSetTheorems

-----------------------------------------------------------------------------
(* The inductive invariant                                                 *)

\* The steps between the loop's test in threaded.cc and the end of assign.
Assigning ==
    \/ main \in {"iterate", "contains", "fill", "flush_ready", "dispatch",
                "notify", "insert"}
    \/ main \in Saves \cup {"save"} /\ within = "assign"

\* The owner's control: what it is sure of at each of its positions.
ControlInv ==
    /\ Assigning => /\ file_store \in Node
                    /\ node = file_store
                    /\ \A t \in Thread : tables[t] = file_store
    /\ main \in {"contains", "fill", "flush_ready", "dispatch", "notify", "insert"}
            => within = "assign"
    /\ Assigning /\ main # "iterate" => block \in Block
    /\ main \in Saves \cup {"wait", "save"} /\ within = "update_config" => node \in Node
    /\ main = "wait" => within # "assign"
    /\ main = "configure" => node \in Node
    /\ main \in Saves => file_store \in Node
    /\ main \in Saves \ {"create_store"} => files[file_store] # <<>>
    /\ main = "dispatch" => nmb_opencl_idle + nmb_cpu_idle # 0

\* A thread has one block at most, and it has it where main_thread expects it.
QueueInv ==
    \A t \in Thread :
        /\ blocks[t] = <<>> \/ \E j \in Job : blocks[t] = <<j>>
        /\ pc[t] = "pop" => blocks[t] # <<>>
        /\ pc[t] \in {"count", "report"} => blocks[t] = <<>> /\ job[t] \in Job

\* busy_threads knows who has which block.
OwnerInv == \A t \in Thread, b \in Block : Holds(t, b) <=> busy_threads[b] = t

\* A ready thread has no block either.
ReadyInv == \A t \in ready_threads : \A b \in Block : busy_threads[b] # t

\* The owner's set assigned_blocks against the pool's.  Between the assignment
\* and the insertion the pool is one block ahead, which, once the pool is unlocked
\* again, may be finished before it is inserted.
AssignedInv ==
    /\ BusyBlocks \cup finished_blocks = assigned_blocks \cup BeingAssigned
    /\ BusyBlocks \cap finished_blocks = {}
    /\ main = "notify" => block \in BusyBlocks
    /\ \A b \in assigned_blocks : b < block
    /\ main \in {"configure", "shutdown", "exited"} => assigned_blocks = {}
    /\ main \in Saves \cup {"save"} /\ within # "assign" => assigned_blocks = {}

\* The caller is inside Thread::assign exactly between Dispatch and NotifyAssigned.
CallInv ==
    /\ main = "notify" => call.at = "notify_one"
    /\ call # Returned => main \in {"notify", "shutdown"}

IInv ==
    /\ TypeOK
    /\ NoThrow
    /\ ControlInv
    /\ QueueInv
    /\ OwnerInv
    /\ IdleThreadsMatchCounters
    /\ ReadyInv
    /\ AssignedInv
    /\ CallInv

-----------------------------------------------------------------------------
(* Helpers                                                                 *)

\* What a thread with at most one block holds, without a reference to positions.
LEMMA HoldsSingle ==
    ASSUME NEW t \in Thread, NEW b \in Block
    PROVE  /\ blocks[t] = <<>> =>
                (Holds(t, b) <=> pc[t] \in {"count", "report"} /\ job[t].block = b)
           /\ \A j \in Job : blocks[t] = <<j>> =>
                (Holds(t, b) <=> \/ j.block = b
                                 \/ pc[t] \in {"count", "report"} /\ job[t].block = b)
  BY DEF Holds

\* The orders in which a finite set can be listed.
LEMMA Listings ==
    ASSUME NEW S, IsFiniteSet(S), NEW s \in SetToSeqs(S)
    PROVE  /\ s \in Seq(S)
           /\ Len(s) = Cardinality(S)
           /\ Len(s) \in Nat
           /\ DOMAIN s = 1 .. Len(s)
           /\ \A i \in DOMAIN s : s[i] \in S
           /\ \A i, j \in DOMAIN s : i # j => s[i] # s[j]
  <1>1. Cardinality(S) \in Nat
    BY FS_CardinalityType
  <1>2. s \in [1 .. Cardinality(S) -> S]
    BY DEF SetToSeqs
  <1>3. s \in Seq(S) /\ Len(s) = Cardinality(S)
    BY <1>1, <1>2
  <1>4. \A i, j \in DOMAIN s : i # j => s[i] # s[j]
    BY <1>2 DEF SetToSeqs
  <1>. QED
    BY <1>1, <1>2, <1>3, <1>4

\* A step that touches neither the threads nor the pool nor the counters keeps
\* what does not depend on the owner's position.
LEMMA Frame ==
    ASSUME IInv, UNCHANGED <<thread_vars, pool_vars, nmb_cpu_idle, nmb_opencl_idle>>
    PROVE  /\ ThreadTypeOK' /\ ThreadPoolTypeOK'
           /\ nmb_cpu_idle' \in Nat /\ nmb_opencl_idle' \in Nat
           /\ NoThrow' /\ QueueInv' /\ OwnerInv'
           /\ IdleThreadsMatchCounters' /\ ReadyInv'
           /\ BusyBlocks' = BusyBlocks
  <1>. USE DEF thread_vars, pool_vars, IInv
  <1>1. ThreadTypeOK' /\ ThreadPoolTypeOK'
    BY DEF TypeOK, ThreadTypeOK, ThreadPoolTypeOK
  <1>2. nmb_cpu_idle' \in Nat /\ nmb_opencl_idle' \in Nat
    BY DEF TypeOK
  <1>3. NoThrow' /\ QueueInv' /\ ReadyInv'
    BY DEF NoThrow, QueueInv, ReadyInv
  <1>4. OwnerInv'
    BY DEF OwnerInv, Holds
  <1>5. IdleThreadsMatchCounters'
    BY DEF IdleThreadsMatchCounters
  <1>. QED
    BY <1>1, <1>2, <1>3, <1>4, <1>5 DEF BusyBlocks

-----------------------------------------------------------------------------
(* The states in which the program starts, the first time or again         *)

\* A process at its start, whatever files it finds.
Started ==
    /\ SparkThreads
    /\ StoreMemoryInit
    /\ MainInit
    /\ files \in [Node -> Seq(FilePair)]
    /\ crashes \in 0 .. MaxCrashes

LEMMA StartedIInv == Started => IInv
  <1>. SUFFICES ASSUME Started PROVE IInv
    OBVIOUS
  <1>. USE DEF Started, SparkThreads, ThreadInit, StoreMemoryInit, MainInit
  <1>1. ThreadTypeOK
    BY DEF ThreadTypeOK, PC
  <1>2. ThreadPoolTypeOK
    <2>1. idle_threads \in Seq(Thread) /\ ready_threads \subseteq Thread
      OBVIOUS
    <2>2. busy_threads \in [Block -> Thread \cup {Nobody}] /\ finished_blocks \subseteq Block
      OBVIOUS
    <2>3. thrown \in BOOLEAN
      OBVIOUS
    <2>. QED
      BY <2>1, <2>2, <2>3 DEF ThreadPoolTypeOK
  <1>3. FileStoreTypeOK
    BY DEF FileStoreTypeOK, NoCounts, Counts, Saving, NothingToSave, NoNode
  <1>4. TypeOK
    BY <1>1, <1>2, <1>3, ConfigAssumption, StandaloneAssumption DEF TypeOK, Main
  <1>5. ControlInv
    BY DEF ControlInv, Assigning, Saves
  <1>6. QueueInv /\ NoThrow /\ ReadyInv
    BY ThreadAssumption DEF QueueInv, NoThrow, ReadyInv
  <1>7. OwnerInv
    BY ThreadAssumption DEF OwnerInv, Holds
  <1>8. IdleThreadsMatchCounters
    BY DEF IdleThreadsMatchCounters
  <1>9. AssignedInv /\ CallInv
    BY DEF AssignedInv, CallInv, BusyBlocks, BeingAssigned, Saves, Returned
  <1>. QED
    BY <1>4, <1>5, <1>6, <1>7, <1>8, <1>9 DEF IInv

LEMMA InitIInv == Init => IInv
  <1>1. Init => Started
    BY StandaloneAssumption DEF Init, Started, FileStoreInit
  <1>. QED
    BY <1>1, StartedIInv

-----------------------------------------------------------------------------
(* The worker threads                                                      *)

\* A step of a worker leaves the owner where it is.
LEMMA OwnerFrame ==
    ASSUME IInv, UNCHANGED main_vars, UNCHANGED <<tables, file_store, files>>
    PROVE  ControlInv'
  BY DEF IInv, main_vars, ControlInv, Assigning

\* Reading the state and waiting change nothing but the thread's position.
LEMMA IdleStep ==
    ASSUME IInv, NEW t \in Thread,
           ReadState(t) \/ EnterWait(t) \/ SpuriousWakeup(t),
           UNCHANGED <<pool_vars, store_vars, main_vars, crashes>>
    PROVE  IInv'
  <1>. USE DEF IInv, pool_vars, store_vars, main_vars
  <1>1. /\ UNCHANGED <<shutting_down, blocks, tables, job, call>>
        /\ pc' \in [Thread -> PC]
        /\ \A u \in Thread : u # t => pc'[u] = pc[u]
        /\ pc[t] \notin {"pop", "count", "report"}
        /\ pc'[t] \in {"check", "before_wait", "waiting", "pop", "exited"}
        /\ pc'[t] = "pop" => blocks[t] # <<>>
    BY DEF ReadState, EnterWait, SpuriousWakeup, TypeOK, ThreadTypeOK, PC
  <1>2. missed' \in [Thread -> BOOLEAN]
    BY DEF ReadState, EnterWait, SpuriousWakeup, TypeOK, ThreadTypeOK
  <1>3. TypeOK'
    BY <1>1, <1>2 DEF TypeOK, ThreadTypeOK, ThreadPoolTypeOK, FileStoreTypeOK
  <1>4. ControlInv'
    BY <1>1, OwnerFrame
  <1>5. QueueInv'
    BY <1>1 DEF QueueInv
  <1>6. \A u \in Thread, b \in Block : Holds(u, b)' <=> Holds(u, b)
    BY <1>1 DEF Holds
  <1>7. OwnerInv'
    BY <1>6 DEF OwnerInv
  <1>8. IdleThreadsMatchCounters'
    <2>1. \A i \in DOMAIN idle_threads : idle_threads[i] \in Thread
      BY DEF TypeOK, ThreadPoolTypeOK
    <2>. QED
      BY <1>1, <2>1 DEF IdleThreadsMatchCounters
  <1>9. NoThrow' /\ ReadyInv'
    BY DEF NoThrow, ReadyInv
  <1>10. AssignedInv' /\ CallInv'
    BY <1>1 DEF AssignedInv, CallInv, BusyBlocks, BeingAssigned
  <1>. QED
    BY <1>3, <1>4, <1>5, <1>7, <1>8, <1>9, <1>10

\* The block moves from the queue into the thread's locals.
LEMMA PopFrontStep ==
    ASSUME IInv, NEW t \in Thread, PopFront(t),
           UNCHANGED <<pool_vars, store_vars, main_vars, crashes>>
    PROVE  IInv'
  <1>. USE DEF IInv, pool_vars, store_vars, main_vars
  <1>1. PICK j \in Job : blocks[t] = <<j>>
    BY DEF PopFront, QueueInv
  <1>2. /\ UNCHANGED <<shutting_down, tables, call, missed>>
        /\ pc[t] = "pop"
        /\ job' = [job EXCEPT ![t] = j]
        /\ blocks' = [blocks EXCEPT ![t] = <<>>]
        /\ pc' = [pc EXCEPT ![t] = "count"]
    BY <1>1 DEF PopFront, TypeOK, ThreadTypeOK
  <1>3. ThreadTypeOK'
    BY <1>2 DEF TypeOK, ThreadTypeOK, PC
  <1>4. TypeOK'
    BY <1>3 DEF TypeOK, ThreadPoolTypeOK, FileStoreTypeOK
  <1>5. ControlInv'
    BY <1>2, OwnerFrame
  <1>6. QueueInv'
    BY <1>2 DEF QueueInv, TypeOK, ThreadTypeOK
  <1>7. \A u \in Thread, b \in Block : Holds(u, b)' <=> Holds(u, b)
    <2>. SUFFICES ASSUME NEW u \in Thread, NEW b \in Block
                  PROVE  Holds(u, b)' <=> Holds(u, b)
      OBVIOUS
    <2>1. CASE u = t
      <3>1. Holds(t, b) <=> j.block = b
        BY <1>1, <1>2, HoldsSingle
      <3>2. blocks'[t] = <<>> /\ pc'[t] = "count" /\ job'[t] = j
        BY <1>2 DEF TypeOK, ThreadTypeOK
      <3>3. Holds(t, b)' <=> j.block = b
        BY <3>2 DEF Holds
      <3>. QED
        BY <2>1, <3>1, <3>3
    <2>2. CASE u # t
      BY <1>2, <2>2 DEF Holds, TypeOK, ThreadTypeOK
    <2>. QED
      BY <2>1, <2>2
  <1>8. OwnerInv'
    BY <1>7 DEF OwnerInv
  <1>9. IdleThreadsMatchCounters'
    <2>1. \A i \in DOMAIN idle_threads : idle_threads[i] \in Thread /\ idle_threads[i] # t
      BY <1>2 DEF TypeOK, ThreadPoolTypeOK, IdleThreadsMatchCounters
    <2>. QED
      BY <1>2, <2>1 DEF IdleThreadsMatchCounters, TypeOK, ThreadTypeOK
  <1>10. NoThrow' /\ ReadyInv' /\ AssignedInv' /\ CallInv'
    BY <1>2 DEF NoThrow, ReadyInv, AssignedInv, CallInv, BusyBlocks, BeingAssigned
  <1>. QED
    BY <1>4, <1>5, <1>6, <1>8, <1>9, <1>10

\* The counts of the block are merged into the static store.
LEMMA CountStep ==
    ASSUME IInv, NEW t \in Thread, CountAndFlush(t),
           UNCHANGED <<main_vars, crashes>>
    PROVE  IInv'
  <1>. USE DEF IInv, pool_vars, main_vars, CountAndFlush, CountBlock, FlushToStaticStore
  <1>1. job[t] \in Job /\ job[t].block \in Block /\ job[t].node \in Node
    BY DEF QueueInv, Job
  <1>2. ThreadTypeOK'
    BY DEF TypeOK, ThreadTypeOK, PC
  <1>3. FileStoreTypeOK'
    BY <1>1 DEF TypeOK, FileStoreTypeOK, Counts
  <1>4. TypeOK'
    BY <1>2, <1>3 DEF TypeOK, ThreadPoolTypeOK
  <1>5. ControlInv'
    BY OwnerFrame
  <1>6. QueueInv'
    BY DEF QueueInv, TypeOK, ThreadTypeOK
  <1>7. \A u \in Thread, b \in Block : Holds(u, b)' <=> Holds(u, b)
    BY DEF Holds, TypeOK, ThreadTypeOK
  <1>8. OwnerInv'
    BY <1>7 DEF OwnerInv
  <1>9. IdleThreadsMatchCounters'
    <2>1. \A i \in DOMAIN idle_threads : idle_threads[i] \in Thread /\ idle_threads[i] # t
      BY DEF TypeOK, ThreadPoolTypeOK, IdleThreadsMatchCounters
    <2>. QED
      BY <2>1 DEF IdleThreadsMatchCounters, TypeOK, ThreadTypeOK
  <1>10. NoThrow' /\ ReadyInv' /\ AssignedInv' /\ CallInv'
    BY DEF NoThrow, ReadyInv, AssignedInv, CallInv, BusyBlocks, BeingAssigned
  <1>. QED
    BY <1>4, <1>5, <1>6, <1>8, <1>9, <1>10

\* The block leaves the thread for finished_blocks, the thread becomes ready.
LEMMA ReportStep ==
    ASSUME IInv, NEW t \in Thread, Report(t),
           UNCHANGED <<main_vars, crashes>>
    PROVE  IInv'
  <1>. DEFINE b0 == job[t].block
  <1>. USE DEF IInv, store_vars, main_vars, Report, ReportBlock
  <1>1. /\ FinishedBlock(t)
        /\ pc[t] = "report"
        /\ Unlocked
    BY DEF FinishedBlock
  <1>2. blocks[t] = <<>> /\ job[t] \in Job /\ b0 \in Block
    BY <1>1 DEF QueueInv, Job
  <1>3. \A b \in Block : Holds(t, b) <=> b = b0
    BY <1>1, <1>2, HoldsSingle
  <1>4. busy_threads[b0] = t /\ t # Nobody
    BY <1>2, <1>3, ThreadAssumption DEF OwnerInv
  <1>5. /\ ready_threads' = ready_threads \cup {t}
        /\ finished_blocks' = finished_blocks \cup {b0}
        /\ busy_threads' = [busy_threads EXCEPT ![b0] = Nobody]
        /\ UNCHANGED <<idle_threads, thrown, shutting_down, blocks, tables, call, missed>>
        /\ job' = [job EXCEPT ![t] = NoJob]
        /\ pc' = [pc EXCEPT ![t] = "check"]
    BY <1>1, <1>4 DEF FinishedBlock
  <1>6. ThreadTypeOK'
    BY <1>5 DEF TypeOK, ThreadTypeOK, PC
  <1>7. ThreadPoolTypeOK'
    BY <1>2, <1>5 DEF TypeOK, ThreadPoolTypeOK
  <1>8. TypeOK'
    BY <1>6, <1>7 DEF TypeOK, FileStoreTypeOK
  <1>9. ControlInv'
    BY <1>5, OwnerFrame
  <1>10. QueueInv'
    BY <1>5 DEF QueueInv, TypeOK, ThreadTypeOK
  <1>11. \A b \in Block : ~ Holds(t, b)'
    BY <1>2, <1>5 DEF Holds, TypeOK, ThreadTypeOK
  <1>12. \A u \in Thread \ {t}, b \in Block : Holds(u, b)' <=> Holds(u, b)
    BY <1>5 DEF Holds, TypeOK, ThreadTypeOK
  <1>13. \A b \in Block : busy_threads'[b] # t
    BY <1>3, <1>4, <1>5 DEF OwnerInv, TypeOK, ThreadPoolTypeOK
  <1>14. \A u \in Thread \ {t}, b \in Block : busy_threads'[b] = u <=> busy_threads[b] = u
    BY <1>2, <1>4, <1>5, ThreadAssumption DEF TypeOK, ThreadPoolTypeOK
  <1>15. OwnerInv'
    BY <1>11, <1>12, <1>13, <1>14 DEF OwnerInv
  <1>16. ReadyInv'
    BY <1>5, <1>13, <1>14 DEF ReadyInv, TypeOK, ThreadPoolTypeOK
  <1>17. IdleThreadsMatchCounters'
    <2>1. \A i \in DOMAIN idle_threads : idle_threads[i] \in Thread \ {t}
      BY <1>2, <1>4 DEF TypeOK, ThreadPoolTypeOK, IdleThreadsMatchCounters
    <2>. QED
      BY <1>5, <1>14, <2>1 DEF IdleThreadsMatchCounters, TypeOK, ThreadTypeOK
  <1>18. NoThrow'
    BY <1>5 DEF NoThrow
  <1>19. main # "notify"
    BY <1>1 DEF CallInv, Unlocked
  <1>20. BusyBlocks' = BusyBlocks \ {b0} /\ b0 \in BusyBlocks
    BY <1>2, <1>4, <1>5 DEF BusyBlocks, TypeOK, ThreadPoolTypeOK
  <1>21. AssignedInv'
    BY <1>5, <1>19, <1>20 DEF AssignedInv, BeingAssigned
  <1>22. CallInv'
    BY <1>5 DEF CallInv
  <1>. QED
    BY <1>8, <1>9, <1>10, <1>15, <1>16, <1>17, <1>18, <1>21, <1>22

LEMMA WorkerIInv ==
    ASSUME IInv, NEW t \in Thread, WorkerStep(t) \/ Wakeup(t)
    PROVE  IInv'
  BY IdleStep, PopFrontStep, CountStep, ReportStep DEF WorkerStep, ThreadOnly, Wakeup

-----------------------------------------------------------------------------
(* The owner: steps that touch neither threads nor pool                    *)

LEMMA NextNodeStep ==
    ASSUME IInv, NextNode, UNCHANGED crashes
    PROVE  IInv'
  <1>. USE DEF NextNode, store_vars
  <1>1. TypeOK'
    BY Frame DEF IInv, TypeOK, FileStoreTypeOK, Main, Saves
  <1>2. ControlInv'
    BY DEF IInv, TypeOK, ControlInv, Assigning, Saves
  <1>3. AssignedInv' /\ CallInv'
    BY Frame DEF IInv, AssignedInv, CallInv, BeingAssigned, Saves, thread_vars, pool_vars
  <1>. QED
    BY <1>1, <1>2, <1>3, Frame DEF IInv

LEMMA SaveGlobalStoresStep ==
    ASSUME IInv, SaveGlobalStores, UNCHANGED crashes
    PROVE  IInv'
  <1>. USE DEF SaveGlobalStores, store_vars, AfterSave
  <1>1. FileStoreTypeOK'
    <2>1. NoCounts \in Counts
      BY DEF NoCounts, Counts
    <2>2. CASE file_store = NoNode
      BY <2>2 DEF IInv, TypeOK, FileStoreTypeOK
    <2>3. CASE file_store # NoNode
      BY <2>1, <2>3 DEF IInv, TypeOK, FileStoreTypeOK, FlushStaticStore, Saving
    <2>. QED
      BY <2>2, <2>3
  <1>2. TypeOK'
    BY <1>1, Frame DEF IInv, TypeOK, Main, Saves
  <1>3. ControlInv'
    BY DEF IInv, TypeOK, FileStoreTypeOK, FlushStaticStore, NoNode, ControlInv, Assigning,
           Saves, thread_vars
  <1>4. AssignedInv' /\ CallInv'
    BY Frame
       DEF IInv, TypeOK, AssignedInv, CallInv, BeingAssigned, Saves, thread_vars, pool_vars
  <1>. QED
    BY <1>2, <1>3, <1>4, Frame DEF IInv

LEMMA EndOfNodeStep ==
    ASSUME IInv, EndOfNode, UNCHANGED crashes
    PROVE  IInv'
  <1>. USE DEF EndOfNode, store_vars
  <1>1. node' \in 1 .. NbNodes + 1
    BY ConfigAssumption DEF IInv, ControlInv, Assigning, Node
  <1>2. TypeOK'
    BY <1>1, Frame DEF IInv, TypeOK, FileStoreTypeOK, Main, Saves
  <1>3. ControlInv'
    BY DEF IInv, TypeOK, ControlInv, Assigning, Saves
  <1>4. AssignedInv' /\ CallInv'
    BY Frame DEF IInv, AssignedInv, CallInv, BeingAssigned, Saves, thread_vars, pool_vars
  <1>. QED
    BY <1>2, <1>3, <1>4, Frame DEF IInv

LEMMA EnterAssignStep ==
    ASSUME IInv, EnterAssign, UNCHANGED crashes
    PROVE  IInv'
  <1>. USE DEF EnterAssign, store_vars
  <1>1. TypeOK'
    BY Frame DEF IInv, TypeOK, FileStoreTypeOK, Main, Saves
  <1>2. block \in Block
    BY ConfigAssumption DEF IInv, TypeOK, Block
  <1>3. ControlInv'
    BY <1>2 DEF IInv, TypeOK, ControlInv, Assigning, Saves, thread_vars
  <1>4. AssignedInv' /\ CallInv'
    BY Frame DEF IInv, AssignedInv, CallInv, BeingAssigned, Saves, thread_vars, pool_vars
  <1>. QED
    BY <1>1, <1>3, <1>4, Frame DEF IInv

LEMMA CheckContainsStep ==
    ASSUME IInv, CheckContains, UNCHANGED crashes
    PROVE  IInv'
  <1>. USE DEF CheckContains, store_vars
  <1>1. block \in Block
    BY DEF IInv, ControlInv, Assigning
  <1>2. TypeOK'
    BY <1>1, Frame, ConfigAssumption DEF IInv, TypeOK, FileStoreTypeOK, Main, Saves, Block
  <1>3. ControlInv'
    BY DEF IInv, TypeOK, ControlInv, Assigning, Saves, thread_vars
  <1>4. \A b \in assigned_blocks : b < block'
    BY <1>1, ConfigAssumption DEF IInv, TypeOK, AssignedInv, Block
  <1>5. AssignedInv' /\ CallInv'
    BY <1>4, Frame
       DEF IInv, AssignedInv, CallInv, BeingAssigned, Saves, thread_vars, pool_vars
  <1>. QED
    BY <1>2, <1>3, <1>5, Frame DEF IInv

-----------------------------------------------------------------------------
(* The owner: saving                                                       *)

\* What the steps of save do to the files of the path in use.
LEMMA SaveFiles ==
    ASSUME IInv, SaveStep
    PROVE  /\ files' \in [Node -> Seq(FilePair)]
           /\ files'[file_store] # <<>>
           /\ saving' \in Saving
           /\ UNCHANGED <<static_record, static_store, file_store, initial_record>>
  <1>. DEFINE old == files[file_store]
  <1>1. /\ file_store \in Node
        /\ files \in [Node -> Seq(FilePair)]
        /\ old \in Seq(FilePair)
        /\ saving.record \subseteq Block /\ saving.store \in Counts
        /\ saving \in Saving
    BY DEF IInv, TypeOK, FileStoreTypeOK, ControlInv, SaveStep, Saves, Saving
  <1>2. NoCounts \in Counts
    BY DEF NoCounts, Counts
  <1>3. CASE main = "create_store"
    <2>. DEFINE new == [store |-> NoCounts, witness |-> FALSE,
                        record |-> {}, failed |-> FALSE]
    <2>1. new \in FilePair
      BY <1>2 DEF FilePair
    <2>2. Append(old, new) \in Seq(FilePair) /\ Append(old, new) # <<>>
      BY <1>1, <2>1
    <2>3. CreateStoreFile
      BY <1>3 DEF SaveStep
    <2>4. files' = [files EXCEPT ![file_store] = Append(old, new)]
      BY <2>3 DEF CreateStoreFile
    <2>. QED
      BY <1>1, <2>2, <2>3, <2>4 DEF CreateStoreFile
  <1>4. CASE main \in Saves \ {"create_store"}
    <2>. DEFINE n == Len(old)
    <2>1. n \in 1 .. Len(old) /\ old[n] \in FilePair
      BY <1>1, <1>4 DEF IInv, ControlInv
    <2>2. \A p \in FilePair :
             /\ [old EXCEPT ![n] = p] \in Seq(FilePair)
             /\ [old EXCEPT ![n] = p] # <<>>
      BY <1>1, <2>1
    <2>3. /\ [old[n] EXCEPT !.store = saving.store] \in FilePair
          /\ [old[n] EXCEPT !.failed = TRUE] \in FilePair
          /\ [old[n] EXCEPT !.witness = TRUE] \in FilePair
          /\ [old[n] EXCEPT !.record = saving.record] \in FilePair
      BY <1>1, <2>1 DEF FilePair
    <2>4. \E p \in FilePair : files' = [files EXCEPT ![file_store] = [old EXCEPT ![n] = p]]
      BY <1>1, <1>4, <2>1, <2>3
         DEF SaveStep, WriteStoreFile, FailStoreFile, CreateRecordFile, WriteRecordFile, Current
    <2>5. saving' \in Saving
      BY <1>1, <1>2, <1>4
         DEF SaveStep, WriteStoreFile, FailStoreFile, CreateRecordFile, WriteRecordFile,
             NothingToSave, Saving
    <2>6. UNCHANGED <<static_record, static_store, file_store, initial_record>>
      BY <1>4
         DEF SaveStep, WriteStoreFile, FailStoreFile, CreateRecordFile, WriteRecordFile
    <2>. QED
      BY <1>1, <2>2, <2>4, <2>5, <2>6
  <1>. QED
    BY <1>3, <1>4 DEF SaveStep, Saves

LEMMA SaveStepStep ==
    ASSUME IInv, SaveStep, UNCHANGED crashes
    PROVE  IInv'
  <1>1. /\ UNCHANGED <<thread_vars, pool_vars, within, node, block,
                       nmb_cpu_idle, nmb_opencl_idle, assigned_blocks>>
        /\ main \in Saves
        /\ \/ main' \in Saves \ {"create_store"}
           \/ main = "write_record" /\ main' = AfterSave
    BY DEF SaveStep, Saves
  <1>2. TypeOK'
    BY <1>1, SaveFiles, Frame DEF IInv, TypeOK, FileStoreTypeOK, Main, Saves, AfterSave
  <1>3. ControlInv'
    BY <1>1, SaveFiles
       DEF IInv, TypeOK, ControlInv, Assigning, Saves, AfterSave, thread_vars
  <1>4. AssignedInv' /\ CallInv'
    <2>1. /\ main' \notin {"notify", "insert", "wait", "save"}
          /\ main \notin {"notify", "insert"}
      BY <1>1 DEF AfterSave, Saves, IInv, TypeOK
    <2>2. AssignedInv'
      BY <1>1, <2>1, Frame
         DEF IInv, TypeOK, AssignedInv, BeingAssigned, Saves, AfterSave,
             thread_vars, pool_vars
    <2>3. CallInv'
      BY <1>1, <2>1, Frame DEF IInv, CallInv, Saves, thread_vars
    <2>. QED
      BY <2>2, <2>3
  <1>. QED
    BY <1>1, <1>2, <1>3, <1>4, Frame DEF IInv

-----------------------------------------------------------------------------
(* The owner: taking over what the threads have done                       *)

\* Only assigned blocks are finished, and the pool's other state stays.
LEMMA TakeFinished ==
    ASSUME IInv, TakeFinishedBlocks, main \notin {"notify", "insert"},
           UNCHANGED <<thread_vars, nmb_cpu_idle, nmb_opencl_idle>>
    PROVE  /\ UNCHANGED <<idle_threads, ready_threads, busy_threads, thrown>>
           /\ finished_blocks' = {}
           /\ assigned_blocks' = assigned_blocks \ finished_blocks
           /\ BusyBlocks' = BusyBlocks
           /\ assigned_blocks' = BusyBlocks
           /\ call.at # "notify_one"
           /\ ThreadTypeOK' /\ ThreadPoolTypeOK' /\ assigned_blocks' \subseteq Block
           /\ NoThrow' /\ QueueInv' /\ OwnerInv' /\ IdleThreadsMatchCounters' /\ ReadyInv'
  <1>. USE DEF IInv, thread_vars
  <1>1. /\ UNCHANGED <<idle_threads, ready_threads, busy_threads, thrown>>
        /\ finished_blocks' = {}
        /\ assigned_blocks' = assigned_blocks \ finished_blocks
        /\ call.at # "notify_one"
    BY DEF TakeFinishedBlocks, FlushFinishedBlocks, Unlocked, AssignedInv, BeingAssigned
  <1>2. BusyBlocks' = BusyBlocks
    BY <1>1 DEF BusyBlocks
  <1>3. assigned_blocks' = BusyBlocks
    BY <1>1 DEF AssignedInv, BeingAssigned
  <1>4. ThreadTypeOK' /\ ThreadPoolTypeOK' /\ assigned_blocks' \subseteq Block
    BY <1>1 DEF TypeOK, ThreadTypeOK, ThreadPoolTypeOK
  <1>5. NoThrow' /\ QueueInv' /\ ReadyInv'
    BY <1>1 DEF NoThrow, QueueInv, ReadyInv
  <1>6. OwnerInv'
    BY <1>1 DEF OwnerInv, Holds
  <1>7. IdleThreadsMatchCounters'
    BY <1>1 DEF IdleThreadsMatchCounters
  <1>. QED
    BY <1>1, <1>2, <1>3, <1>4, <1>5, <1>6, <1>7

LEMMA WaitForAssignedBlocksStep ==
    ASSUME IInv, WaitForAssignedBlocks, UNCHANGED crashes
    PROVE  IInv'
  <1>. USE DEF WaitForAssignedBlocks, store_vars
  <1>1. TypeOK'
    BY TakeFinished DEF IInv, TypeOK, FileStoreTypeOK, Main, Saves
  <1>2. ControlInv'
    BY TakeFinished DEF IInv, TypeOK, ControlInv, Assigning, Saves, thread_vars
  <1>3. AssignedInv'
    BY TakeFinished DEF IInv, AssignedInv, BeingAssigned, Saves
  <1>4. CallInv'
    BY DEF IInv, CallInv, thread_vars
  <1>. QED
    BY <1>1, <1>2, <1>3, <1>4, TakeFinished DEF IInv

LEMMA FillFinishedStep ==
    ASSUME IInv, FillFinished, UNCHANGED crashes
    PROVE  IInv'
  <1>. USE DEF FillFinished, store_vars
  <1>1. TypeOK'
    BY TakeFinished DEF IInv, TypeOK, FileStoreTypeOK, Main, Saves
  <1>2. ControlInv'
    BY TakeFinished DEF IInv, TypeOK, ControlInv, Assigning, Saves, thread_vars
  <1>3. AssignedInv'
    BY TakeFinished DEF IInv, AssignedInv, BeingAssigned, Saves
  <1>4. CallInv'
    BY DEF IInv, CallInv, thread_vars
  <1>. QED
    BY <1>1, <1>2, <1>3, <1>4, TakeFinished DEF IInv

\* The deque with the ready threads pushed to its ends: where each entry comes from.
LEMMA Pushed ==
    ASSUME NEW a \in Seq(Thread), NEW s \in Seq(Thread), NEW c \in Seq(Thread)
    PROVE  LET d == a \o s \o c
           IN  /\ d \in Seq(Thread)
               /\ Len(d) = Len(a) + Len(s) + Len(c)
               /\ DOMAIN d = 1 .. Len(d)
               /\ \A i \in DOMAIN d :
                    \/ i <= Len(a) /\ i \in DOMAIN a /\ d[i] = a[i]
                    \/ /\ i > Len(a) /\ i <= Len(a) + Len(s)
                       /\ i - Len(a) \in DOMAIN s /\ d[i] = s[i - Len(a)]
                    \/ /\ i > Len(a) + Len(s)
                       /\ i - Len(a) - Len(s) \in DOMAIN c
                       /\ d[i] = c[i - Len(a) - Len(s)]
  OBVIOUS

\* A thread that owns no block has nothing queued and is not at work.
LEMMA ReadyIdle ==
    ASSUME IInv, NEW t \in ready_threads
    PROVE  /\ blocks[t] = <<>>
           /\ pc[t] \notin {"pop", "count", "report"}
           /\ \A b \in Block : busy_threads[b] # t
  <1>1. t \in Thread
    BY DEF IInv, TypeOK, ThreadPoolTypeOK
  <1>2. \A b \in Block : busy_threads[b] # t /\ ~ Holds(t, b)
    BY <1>1 DEF IInv, ReadyInv, OwnerInv
  <1>3. blocks[t] = <<>>
    <2>. SUFFICES ASSUME NEW j \in Job, blocks[t] = <<j>> PROVE FALSE
      BY <1>1 DEF IInv, QueueInv
    <2>1. j.block \in Block
      BY DEF Job
    <2>. QED
      BY <1>1, <1>2, <2>1, HoldsSingle
  <1>4. pc[t] \notin {"pop", "count", "report"}
    <2>1. pc[t] # "pop"
      BY <1>1, <1>3 DEF IInv, QueueInv
    <2>2. pc[t] \in {"count", "report"} => job[t].block \in Block
      BY <1>1 DEF IInv, QueueInv, Job
    <2>. QED
      BY <1>2, <2>1, <2>2 DEF Holds
  <1>. QED
    BY <1>2, <1>3, <1>4

LEMMA FillReadyStep ==
    ASSUME IInv, FillReady, UNCHANGED crashes
    PROVE  IInv'
  <1>. USE DEF store_vars
  <1>1. PICK a \in SetToSeqs(ready_threads \cap OpenCLThread),
             c \in SetToSeqs(ready_threads \ OpenCLThread) :
               /\ FlushReadyThreads(a, c)
               /\ nmb_opencl_idle' = nmb_opencl_idle + Len(a)
               /\ nmb_cpu_idle' = nmb_cpu_idle + Len(c)
    BY DEF FillReady
  <1>2. /\ ready_threads \subseteq Thread
        /\ IsFiniteSet(ready_threads \cap OpenCLThread)
        /\ IsFiniteSet(ready_threads \ OpenCLThread)
    BY OpenCLAssumption, FS_Subset DEF IInv, TypeOK, ThreadPoolTypeOK
  <1>3. /\ a \in Seq(Thread) /\ c \in Seq(Thread)
        /\ \A i \in DOMAIN a : a[i] \in ready_threads \cap OpenCLThread
        /\ \A i \in DOMAIN c : c[i] \in ready_threads \ OpenCLThread
        /\ \A i, j \in DOMAIN a : i # j => a[i] # a[j]
        /\ \A i, j \in DOMAIN c : i # j => c[i] # c[j]
    <2>1. a \in Seq(ready_threads \cap OpenCLThread) /\ c \in Seq(ready_threads \ OpenCLThread)
      BY <1>2, Listings
    <2>. QED
      BY <1>2, <2>1, Listings
  <1>4. /\ main = "flush_ready"
        /\ main' = IF nmb_cpu_idle' = 0 /\ nmb_opencl_idle' = 0 THEN "fill" ELSE "dispatch"
        /\ idle_threads' = a \o idle_threads \o c
        /\ ready_threads' = {}
        /\ UNCHANGED <<thread_vars, busy_threads, finished_blocks, thrown,
                       store_vars, within, node, block, assigned_blocks>>
    BY <1>1 DEF FillReady, FlushReadyThreads
  <1>5. /\ idle_threads \in Seq(Thread)
        /\ nmb_cpu_idle \in Nat /\ nmb_opencl_idle \in Nat
    BY DEF IInv, TypeOK, ThreadPoolTypeOK
  <1>6. idle_threads' \in Seq(Thread)
    BY <1>3, <1>4, <1>5
  <1>7. nmb_cpu_idle' \in Nat /\ nmb_opencl_idle' \in Nat
    BY <1>1, <1>3, <1>5
  <1>8. ThreadTypeOK' /\ ThreadPoolTypeOK'
    BY <1>4, <1>6 DEF IInv, TypeOK, ThreadTypeOK, ThreadPoolTypeOK, thread_vars
  <1>9. TypeOK'
    BY <1>4, <1>7, <1>8 DEF IInv, TypeOK, FileStoreTypeOK, Main, Saves
  <1>10. ControlInv'
    <2>1. main' \in {"fill", "dispatch"}
      BY <1>4
    <2>2. main' = "dispatch" => nmb_opencl_idle' + nmb_cpu_idle' # 0
      <3>1. \A x, y \in Nat : ~ (x = 0 /\ y = 0) => y + x # 0
        OBVIOUS
      <3>2. main' = "dispatch" => ~ (nmb_cpu_idle' = 0 /\ nmb_opencl_idle' = 0)
        BY <1>4
      <3>. QED
        BY <1>7, <3>1, <3>2
    <2>. QED
      BY <1>4, <2>1, <2>2 DEF IInv, ControlInv, Assigning, Saves, thread_vars
  <1>11. NoThrow' /\ QueueInv' /\ ReadyInv'
    BY <1>4 DEF IInv, NoThrow, QueueInv, ReadyInv, thread_vars
  <1>12. OwnerInv'
    BY <1>4 DEF IInv, OwnerInv, Holds, thread_vars
  <1>13. IdleThreadsMatchCounters'
    <2>. DEFINE s == idle_threads
                k == nmb_opencl_idle
                d == idle_threads'
    <2>1. /\ Len(d) = Len(a) + Len(s) + Len(c)
          /\ DOMAIN d = 1 .. Len(d)
          /\ \A i \in DOMAIN d :
               \/ i <= Len(a) /\ i \in DOMAIN a /\ d[i] = a[i]
               \/ /\ i > Len(a) /\ i <= Len(a) + Len(s)
                  /\ i - Len(a) \in DOMAIN s /\ d[i] = s[i - Len(a)]
               \/ /\ i > Len(a) + Len(s)
                  /\ i - Len(a) - Len(s) \in DOMAIN c
                  /\ d[i] = c[i - Len(a) - Len(s)]
      BY <1>3, <1>4, <1>5, Pushed
    <2>2. Len(s) = k + nmb_cpu_idle /\ k' = k + Len(a)
      BY <1>1 DEF IInv, IdleThreadsMatchCounters
    <2>3. Len(a) \in Nat /\ Len(s) \in Nat /\ Len(c) \in Nat
      BY <1>3, <1>5
    <2>4. \A i \in DOMAIN s : s[i] \notin ready_threads /\ (s[i] \in OpenCLThread <=> i <= k)
      BY DEF IInv, IdleThreadsMatchCounters
    <2>5. \A i \in DOMAIN d : d[i] \in ready_threads \/ \E j \in DOMAIN s : d[i] = s[j]
      BY <1>3, <2>1
    <2>6. ASSUME NEW i \in DOMAIN d
          PROVE  /\ blocks[d[i]] = <<>>
                 /\ pc[d[i]] \notin {"pop", "count", "report"}
                 /\ \A b \in Block : busy_threads[b] # d[i]
      <3>1. CASE d[i] \in ready_threads
        BY <1>2, <3>1, ReadyIdle
      <3>2. CASE \E j \in DOMAIN s : d[i] = s[j]
        BY <3>2 DEF IInv, IdleThreadsMatchCounters
      <3>. QED
        BY <2>5, <3>1, <3>2
    <2>7. ASSUME NEW i \in DOMAIN d
          PROVE  d[i] \in OpenCLThread <=> i <= k'
      BY <1>3, <1>5, <2>1, <2>2, <2>3, <2>4
    <2>8. ASSUME NEW i \in DOMAIN d, NEW j \in DOMAIN d, i # j
          PROVE  d[i] # d[j]
      <3>1. \A x, y \in DOMAIN s : x # y => s[x] # s[y]
        BY DEF IInv, IdleThreadsMatchCounters
      <3>2. i \in Nat /\ j \in Nat
        BY <1>3, <1>5, <2>1, <2>3
      <3>3. CASE i <= Len(a)
        BY <1>3, <2>1, <2>3, <2>4, <2>8, <3>2, <3>3
      <3>4. CASE i > Len(a) /\ i <= Len(a) + Len(s)
        BY <1>3, <2>1, <2>3, <2>4, <2>8, <3>1, <3>2, <3>4
      <3>5. CASE i > Len(a) + Len(s)
        <4>. DEFINE m == Len(a)
                    n == Len(s)
        <4>1. i - m - n \in DOMAIN c /\ d[i] = c[i - m - n]
          BY <1>5, <2>1, <2>3, <3>2, <3>5
        <4>2. \/ d[j] \in OpenCLThread /\ d[j] \in ready_threads
              \/ d[j] \notin ready_threads
              \/ j - m - n \in DOMAIN c /\ d[j] = c[j - m - n]
          BY <1>3, <2>1, <2>4
        <4>3. i - m - n # j - m - n
          BY <2>3, <2>8, <3>2
        <4>4. d[i] \in ready_threads /\ d[i] \notin OpenCLThread
          BY <1>3, <4>1
        <4>. QED
          BY <1>3, <4>1, <4>2, <4>3, <4>4
      <3>. QED
        BY <2>3, <3>2, <3>3, <3>4, <3>5
    <2>9. Len(d) = nmb_opencl_idle' + nmb_cpu_idle'
      BY <1>1, <1>5, <2>1, <2>2, <2>3
    <2>10. UNCHANGED <<blocks, pc, busy_threads>> /\ ready_threads' = {}
      BY <1>4 DEF thread_vars
    <2>. QED
      BY <2>6, <2>7, <2>8, <2>9, <2>10 DEF IdleThreadsMatchCounters
  <1>14. AssignedInv' /\ CallInv'
    BY <1>4 DEF IInv, AssignedInv, CallInv, BusyBlocks, BeingAssigned, Saves, thread_vars
  <1>. QED
    BY <1>9, <1>10, <1>11, <1>12, <1>13, <1>14 DEF IInv

-----------------------------------------------------------------------------
(* The owner: assigning a block                                            *)

\* Taking an entry off one end of the deque.
LEMMA Popped ==
    ASSUME NEW s \in Seq(Thread), s # <<>>, NEW front \in BOOLEAN
    PROVE  LET d == IF front THEN Tail(s) ELSE Front(s)
               t == IF front THEN Head(s) ELSE Last(s)
               p == IF front THEN 1 ELSE Len(s)
               k == IF front THEN 1 ELSE 0
           IN  /\ Len(s) \in Nat \ {0}
               /\ p \in DOMAIN s /\ t = s[p] /\ t \in Thread
               /\ d \in Seq(Thread)
               /\ Len(d) = Len(s) - 1
               /\ \A i \in DOMAIN d :
                    i \in Nat /\ i + k \in DOMAIN s /\ i + k # p /\ d[i] = s[i + k]
  <1>1. Len(s) \in Nat \ {0}
    OBVIOUS
  <1>2. CASE front
    BY <1>1, <1>2
  <1>3. CASE ~ front
    <2>1. Front(s) = [i \in 1 .. Len(s) - 1 |-> s[i]]
      BY <1>1 DEF Front
    <2>2. Front(s) \in Seq(Thread) /\ Len(Front(s)) = Len(s) - 1
      BY <1>1, <2>1
    <2>. QED
      BY <1>1, <1>3, <2>1, <2>2 DEF Last
  <1>. QED
    BY <1>2, <1>3

\* The thread that Dispatch takes is idle and of the kind it asks for.
LEMMA DispatchThread ==
    ASSUME IInv, Dispatch
    PROVE  \E t \in Thread :
             /\ blocks[t] = <<>>
             /\ pc[t] \notin {"pop", "count", "report"}
             /\ t \notin ready_threads
             /\ \A b \in Block : busy_threads[b] # t
             /\ busy_threads' = [busy_threads EXCEPT ![block] = t]
             /\ AssignPush(t, block)
             /\ UNCHANGED <<thrown, ready_threads, finished_blocks>>
             /\ idle_threads' \in Seq(Thread)
             /\ nmb_opencl_idle' \in Nat /\ nmb_cpu_idle' \in Nat
             /\ Len(idle_threads') = nmb_opencl_idle' + nmb_cpu_idle'
             /\ \A i \in DOMAIN idle_threads' :
                  /\ idle_threads'[i] # t
                  /\ \E m \in DOMAIN idle_threads : idle_threads'[i] = idle_threads[m]
                  /\ idle_threads'[i] \in OpenCLThread <=> i <= nmb_opencl_idle'
                  /\ \A j \in DOMAIN idle_threads' :
                       i # j => idle_threads'[i] # idle_threads'[j]
  <1>. DEFINE s == idle_threads
              k == nmb_opencl_idle
              front == k # 0
              t == IF front THEN Head(s) ELSE Last(s)
              p == IF front THEN 1 ELSE Len(s)
              o == IF front THEN 1 ELSE 0
              d == IF front THEN Tail(s) ELSE Front(s)
  <1>1. /\ s \in Seq(Thread)
        /\ k \in Nat /\ nmb_cpu_idle \in Nat
        /\ Len(s) = k + nmb_cpu_idle
        /\ k + nmb_cpu_idle # 0
    BY DEF IInv, TypeOK, ThreadPoolTypeOK, IdleThreadsMatchCounters, ControlInv, Dispatch
  <1>2. s # <<>>
    BY <1>1
  <1>3. /\ Len(s) \in Nat \ {0}
        /\ p \in DOMAIN s /\ t = s[p] /\ t \in Thread
        /\ d \in Seq(Thread)
        /\ Len(d) = Len(s) - 1
        /\ \A i \in DOMAIN d :
             i \in Nat /\ i + o \in DOMAIN s /\ i + o # p /\ d[i] = s[i + o]
    BY <1>1, <1>2, Popped
  <1>4. \A i \in DOMAIN s :
          /\ s[i] \in OpenCLThread <=> i <= k
          /\ blocks[s[i]] = <<>>
          /\ pc[s[i]] \notin {"pop", "count", "report"}
          /\ s[i] \notin ready_threads
          /\ \A b \in Block : busy_threads[b] # s[i]
          /\ \A j \in DOMAIN s : i # j => s[i] # s[j]
    BY DEF IInv, IdleThreadsMatchCounters
  <1>5. front <=> t \in OpenCLThread
    BY <1>1, <1>3, <1>4
  <1>6. /\ nmb_opencl_idle' = k - o
        /\ nmb_cpu_idle' = nmb_cpu_idle - (1 - o)
        /\ idle_threads' = d
        /\ busy_threads' = [busy_threads EXCEPT ![block] = t]
        /\ AssignPush(t, block)
        /\ UNCHANGED <<thrown, ready_threads, finished_blocks>>
    <2>1. CASE k # 0
      <3>1. /\ PoolAssign(block, TRUE)
            /\ nmb_opencl_idle' = k - 1 /\ nmb_cpu_idle' = nmb_cpu_idle
        BY <2>1 DEF Dispatch
      <3>2. TRUE = (Head(s) \in OpenCLThread)
        BY <1>5, <2>1
      <3>3. /\ idle_threads' = Tail(s)
            /\ busy_threads' = [busy_threads EXCEPT ![block] = Head(s)]
            /\ AssignPush(Head(s), block)
            /\ UNCHANGED <<thrown, ready_threads, finished_blocks>>
        BY <3>1, <3>2, Zenon DEF PoolAssign
      <3>4. d = Tail(s) /\ t = Head(s) /\ o = 1
        BY <2>1
      <3>5. nmb_opencl_idle' = k - o /\ nmb_cpu_idle' = nmb_cpu_idle - (1 - o)
        BY <1>1, <3>1, <3>4
      <3>. QED
        BY <3>3, <3>4, <3>5
    <2>2. CASE k = 0
      <3>1. /\ PoolAssign(block, FALSE)
            /\ nmb_opencl_idle' = k /\ nmb_cpu_idle' = nmb_cpu_idle - 1
        BY <2>2 DEF Dispatch
      <3>2. FALSE = (Last(s) \in OpenCLThread)
        BY <1>5, <2>2
      <3>3. /\ idle_threads' = Front(s)
            /\ busy_threads' = [busy_threads EXCEPT ![block] = Last(s)]
            /\ AssignPush(Last(s), block)
            /\ UNCHANGED <<thrown, ready_threads, finished_blocks>>
        BY <3>1, <3>2, Zenon DEF PoolAssign
      <3>4. d = Front(s) /\ t = Last(s) /\ o = 0
        BY <2>2
      <3>5. nmb_opencl_idle' = k - o /\ nmb_cpu_idle' = nmb_cpu_idle - (1 - o)
        BY <1>1, <3>1, <3>4
      <3>. QED
        BY <3>3, <3>4, <3>5
    <2>. QED
      BY <2>1, <2>2
  <1>8. /\ nmb_opencl_idle' \in Nat /\ nmb_cpu_idle' \in Nat
        /\ Len(s) - 1 = nmb_opencl_idle' + nmb_cpu_idle'
    BY <1>1, <1>6
  <1>9. ASSUME NEW i \in DOMAIN d
        PROVE  /\ d[i] # t
               /\ \E m \in DOMAIN s : d[i] = s[m]
               /\ d[i] \in OpenCLThread <=> i <= k - o
               /\ \A j \in DOMAIN d : i # j => d[i] # d[j]
    <2>1. i \in Nat /\ i + o \in DOMAIN s /\ i + o # p /\ d[i] = s[i + o]
      BY <1>3, <1>9
    <2>2. d[i] # t
      BY <1>3, <1>4, <2>1
    <2>3. d[i] \in OpenCLThread <=> i <= k - o
      BY <1>1, <1>4, <2>1
    <2>4. ASSUME NEW j \in DOMAIN d, i # j
          PROVE  d[i] # d[j]
      <3>1. j \in Nat /\ j + o \in DOMAIN s /\ d[j] = s[j + o]
        BY <1>3, <2>4
      <3>2. i + o # j + o
        BY <2>1, <2>4, <3>1
      <3>. QED
        BY <1>4, <2>1, <3>1, <3>2
    <2>. QED
      BY <2>1, <2>2, <2>3, <2>4
  <1>10. /\ blocks[t] = <<>>
         /\ pc[t] \notin {"pop", "count", "report"}
         /\ t \notin ready_threads
         /\ \A b \in Block : busy_threads[b] # t
    BY <1>3, <1>4
  <1>11. t \in Thread
    BY <1>3
  <1>12. Len(d) = nmb_opencl_idle' + nmb_cpu_idle' /\ d \in Seq(Thread)
    BY <1>3, <1>8
  <1>. HIDE DEF t, d, o, front, p
  <1>. WITNESS t \in Thread
  <1>. QED
    BY <1>6, <1>8, <1>9, <1>10, <1>12

LEMMA DispatchStep ==
    ASSUME IInv, Dispatch, UNCHANGED crashes
    PROVE  IInv'
  <1>. DEFINE j == [block |-> block, node |-> tables[call'.thread]]
  <1>1. /\ main = "dispatch" /\ main' = "notify"
        /\ UNCHANGED <<store_vars, within, node, block, assigned_blocks>>
    BY DEF Dispatch
  <1>2. /\ block \in Block /\ file_store \in Node
        /\ \A t \in Thread : tables[t] = file_store
        /\ block \notin assigned_blocks /\ block \notin finished_blocks
        /\ busy_threads[block] = Nobody
    BY <1>1, ConfigAssumption
       DEF IInv, ControlInv, Assigning, AssignedInv, BusyBlocks, BeingAssigned, TypeOK, Block
  <1>3. PICK t \in Thread :
             /\ blocks[t] = <<>>
             /\ pc[t] \notin {"pop", "count", "report"}
             /\ t \notin ready_threads
             /\ \A b \in Block : busy_threads[b] # t
             /\ busy_threads' = [busy_threads EXCEPT ![block] = t]
             /\ AssignPush(t, block)
             /\ UNCHANGED <<thrown, ready_threads, finished_blocks>>
             /\ idle_threads' \in Seq(Thread)
             /\ nmb_opencl_idle' \in Nat /\ nmb_cpu_idle' \in Nat
             /\ Len(idle_threads') = nmb_opencl_idle' + nmb_cpu_idle'
             /\ \A i \in DOMAIN idle_threads' :
                  /\ idle_threads'[i] # t
                  /\ \E m \in DOMAIN idle_threads : idle_threads'[i] = idle_threads[m]
                  /\ idle_threads'[i] \in OpenCLThread <=> i <= nmb_opencl_idle'
                  /\ \A l \in DOMAIN idle_threads' :
                       i # l => idle_threads'[i] # idle_threads'[l]
    BY DispatchThread
  <1>4. /\ call' = [at |-> "notify_one", thread |-> t]
        /\ j \in Job /\ j.block = block
        /\ blocks' = [blocks EXCEPT ![t] = <<j>>]
        /\ UNCHANGED <<shutting_down, tables, pc, job, missed>>
    BY <1>2, <1>3 DEF AssignPush, Job
  <1>. HIDE DEF j
  <1>5. ThreadTypeOK'
    BY <1>4 DEF IInv, TypeOK, ThreadTypeOK
  <1>6. ThreadPoolTypeOK'
    BY <1>2, <1>3 DEF IInv, TypeOK, ThreadPoolTypeOK
  <1>7. TypeOK'
    BY <1>1, <1>3, <1>5, <1>6 DEF IInv, TypeOK, FileStoreTypeOK, store_vars, Main
  <1>8. ControlInv'
    BY <1>1, <1>4 DEF IInv, ControlInv, Assigning, Saves, store_vars
  <1>9. QueueInv'
    BY <1>3, <1>4 DEF IInv, QueueInv, TypeOK, ThreadTypeOK
  <1>10. \A b \in Block : Holds(t, b)' <=> b = block
    BY <1>3, <1>4 DEF Holds, IInv, TypeOK, ThreadTypeOK
  <1>11. \A u \in Thread \ {t}, b \in Block : Holds(u, b)' <=> Holds(u, b)
    BY <1>4 DEF Holds, IInv, TypeOK, ThreadTypeOK
  <1>12. \A b \in Block : busy_threads'[b] = t <=> b = block
    BY <1>2, <1>3 DEF IInv, TypeOK, ThreadPoolTypeOK
  <1>13. \A u \in Thread \ {t}, b \in Block : busy_threads'[b] = u <=> busy_threads[b] = u
    BY <1>2, <1>3, ThreadAssumption DEF IInv, TypeOK, ThreadPoolTypeOK
  <1>14. OwnerInv'
    BY <1>10, <1>11, <1>12, <1>13 DEF IInv, OwnerInv
  <1>15. ReadyInv'
    BY <1>3, <1>13 DEF IInv, ReadyInv, TypeOK, ThreadPoolTypeOK
  <1>16. IdleThreadsMatchCounters'
    <2>1. ASSUME NEW i \in DOMAIN idle_threads'
          PROVE  /\ idle_threads'[i] \in Thread \ {t}
                 /\ blocks[idle_threads'[i]] = <<>>
                 /\ pc[idle_threads'[i]] \notin {"pop", "count", "report"}
                 /\ idle_threads'[i] \notin ready_threads
                 /\ \A b \in Block : busy_threads[b] # idle_threads'[i]
      BY <1>3, <2>1 DEF IInv, IdleThreadsMatchCounters
    <2>2. ASSUME NEW i \in DOMAIN idle_threads'
          PROVE  /\ blocks'[idle_threads'[i]] = <<>>
                 /\ \A b \in Block : busy_threads'[b] # idle_threads'[i]
      BY <1>4, <1>13, <2>1, <2>2 DEF IInv, TypeOK, ThreadTypeOK
    <2>. QED
      BY <1>3, <1>4, <2>1, <2>2 DEF IdleThreadsMatchCounters
  <1>17. NoThrow'
    BY <1>3 DEF IInv, NoThrow
  <1>18. BusyBlocks' = BusyBlocks \cup {block}
    BY <1>2, <1>3, ThreadAssumption DEF IInv, TypeOK, ThreadPoolTypeOK, BusyBlocks
  <1>19. AssignedInv'
    BY <1>1, <1>2, <1>3, <1>18 DEF IInv, AssignedInv, BeingAssigned, Saves
  <1>20. CallInv'
    BY <1>1, <1>4 DEF CallInv
  <1>. QED
    BY <1>7, <1>8, <1>9, <1>14, <1>15, <1>16, <1>17, <1>19, <1>20 DEF IInv

\* A notification moves a thread only out of its wait.
LEMMA WakeFrame ==
    ASSUME IInv, NEW t \in Thread, Wake(t),
           UNCHANGED <<blocks, tables, job, pool_vars, nmb_cpu_idle, nmb_opencl_idle>>
    PROVE  /\ pc' \in [Thread -> PC] /\ missed' \in [Thread -> BOOLEAN]
           /\ ThreadPoolTypeOK' /\ nmb_cpu_idle' \in Nat /\ nmb_opencl_idle' \in Nat
           /\ NoThrow' /\ QueueInv' /\ OwnerInv' /\ IdleThreadsMatchCounters' /\ ReadyInv'
           /\ BusyBlocks' = BusyBlocks
  <1>. USE DEF IInv, pool_vars
  <1>1. /\ pc' \in [Thread -> PC] /\ missed' \in [Thread -> BOOLEAN]
        /\ \A u \in Thread : pc'[u] = pc[u] \/ (pc[u] = "waiting" /\ pc'[u] = "check")
    <2>1. pc \in [Thread -> PC] /\ missed \in [Thread -> BOOLEAN]
      BY DEF TypeOK, ThreadTypeOK
    <2>2. (pc[t] = "before_wait") \in BOOLEAN
      OBVIOUS
    <2>3. missed' \in [Thread -> BOOLEAN]
      BY <2>1, <2>2 DEF Wake
    <2>4. /\ pc' \in [Thread -> PC]
          /\ \A u \in Thread : pc'[u] = pc[u] \/ (pc[u] = "waiting" /\ pc'[u] = "check")
      <3>1. pc' = IF pc[t] = "waiting" THEN [pc EXCEPT ![t] = "check"] ELSE pc
        BY DEF Wake
      <3>. QED
        BY <2>1, <3>1 DEF PC
    <2>. QED
      BY <2>3, <2>4
  <1>2. ThreadPoolTypeOK' /\ nmb_cpu_idle' \in Nat /\ nmb_opencl_idle' \in Nat
    BY DEF TypeOK, ThreadPoolTypeOK
  <1>3. NoThrow' /\ ReadyInv' /\ BusyBlocks' = BusyBlocks
    BY DEF NoThrow, ReadyInv, BusyBlocks
  <1>4. QueueInv'
    BY <1>1 DEF QueueInv
  <1>5. \A u \in Thread, b \in Block : Holds(u, b)' <=> Holds(u, b)
    BY <1>1 DEF Holds
  <1>6. OwnerInv'
    BY <1>5 DEF OwnerInv
  <1>7. IdleThreadsMatchCounters'
    <2>1. \A i \in DOMAIN idle_threads : idle_threads[i] \in Thread
      BY DEF TypeOK, ThreadPoolTypeOK
    <2>. QED
      BY <1>1, <2>1 DEF IdleThreadsMatchCounters
  <1>. QED
    BY <1>1, <1>2, <1>3, <1>4, <1>6, <1>7

LEMMA NotifyAssignedStep ==
    ASSUME IInv, NotifyAssigned, UNCHANGED crashes
    PROVE  IInv'
  <1>1. /\ main = "notify" /\ main' = "insert"
        /\ UNCHANGED <<pool_vars, store_vars, within, node, block, nmb_cpu_idle,
                       nmb_opencl_idle, assigned_blocks, shutting_down, blocks, tables, job>>
        /\ call' = Returned
        /\ Wake(call.thread)
    BY DEF NotifyAssigned, NotifyOne
  <1>2. call.thread \in Thread
    BY <1>1 DEF IInv, CallInv, TypeOK, ThreadTypeOK, Returned
  <1>3. ThreadTypeOK'
    BY <1>1, <1>2, WakeFrame DEF IInv, TypeOK, ThreadTypeOK
  <1>4. TypeOK'
    BY <1>1, <1>2, <1>3, WakeFrame DEF IInv, TypeOK, FileStoreTypeOK, store_vars, Main
  <1>5. ControlInv'
    BY <1>1 DEF IInv, ControlInv, Assigning, Saves, store_vars
  <1>6. AssignedInv'
    BY <1>1, <1>2, WakeFrame DEF IInv, AssignedInv, BeingAssigned, Saves, pool_vars
  <1>7. CallInv'
    BY <1>1 DEF CallInv
  <1>. QED
    BY <1>1, <1>2, <1>4, <1>5, <1>6, <1>7, WakeFrame DEF IInv

LEMMA InsertStep ==
    ASSUME IInv, Insert, UNCHANGED crashes
    PROVE  IInv'
  <1>1. /\ main = "insert" /\ main' = "iterate"
        /\ assigned_blocks' = assigned_blocks \cup {block}
        /\ block' = block + 1
        /\ UNCHANGED <<thread_vars, pool_vars, store_vars, within, node,
                       nmb_cpu_idle, nmb_opencl_idle>>
    BY DEF Insert
  <1>2. block \in Block
    BY <1>1 DEF IInv, ControlInv, Assigning
  <1>3. /\ block' \in 1 .. NbBlocks + 1 /\ assigned_blocks' \subseteq Block
        /\ \A b \in assigned_blocks' : b < block'
    BY <1>1, <1>2, ConfigAssumption DEF IInv, TypeOK, AssignedInv, Block
  <1>4. TypeOK'
    BY <1>1, <1>3, Frame DEF IInv, TypeOK, FileStoreTypeOK, store_vars, Main
  <1>5. ControlInv'
    BY <1>1 DEF IInv, ControlInv, Assigning, Saves, store_vars, thread_vars
  <1>6. AssignedInv'
    BY <1>1, <1>3, Frame DEF IInv, AssignedInv, BeingAssigned, Saves, pool_vars
  <1>7. CallInv'
    BY <1>1 DEF IInv, CallInv, thread_vars
  <1>. QED
    BY <1>1, <1>4, <1>5, <1>6, <1>7, Frame DEF IInv

-----------------------------------------------------------------------------
(* The owner: a new node, and the end                                      *)

LEMMA ConfigureStep ==
    ASSUME IInv, Configure, UNCHANGED crashes
    PROVE  IInv'
  <1>. USE DEF IInv, pool_vars
  <1>1. /\ main = "configure" /\ main' = "iterate" /\ block' = 1
        /\ node \in Node
        /\ tables' = [t \in Thread |-> node]
        /\ file_store' = node /\ initial_record' = Recorded(node)
        /\ call = Returned
        /\ UNCHANGED <<pool_vars, within, node, nmb_cpu_idle, nmb_opencl_idle, assigned_blocks,
                       static_record, static_store, files, saving,
                       shutting_down, blocks, pc, job, call, missed>>
    BY DEF Configure, OpenFileStore, UpdateTables, ControlInv
  <1>2. ThreadTypeOK' /\ ThreadPoolTypeOK'
    BY <1>1 DEF TypeOK, ThreadTypeOK, ThreadPoolTypeOK
  <1>3. Recorded(node) \subseteq Block
    <2>1. files[node] \in Seq(FilePair)
      BY <1>1 DEF TypeOK, FileStoreTypeOK
    <2>2. \A i \in DOMAIN files[node] : files[node][i] \in FilePair
      BY <2>1
    <2>3. \A i \in DOMAIN files[node] : files[node][i].record \subseteq Block
      BY <2>2 DEF FilePair
    <2>. QED
      BY <2>3 DEF Recorded
  <1>4. TypeOK'
    BY <1>1, <1>2, <1>3, ConfigAssumption DEF TypeOK, FileStoreTypeOK, Main
  <1>5. ControlInv'
    BY <1>1 DEF ControlInv, Assigning, Saves
  <1>6. QueueInv' /\ NoThrow' /\ ReadyInv'
    BY <1>1 DEF QueueInv, NoThrow, ReadyInv
  <1>7. OwnerInv'
    BY <1>1 DEF OwnerInv, Holds
  <1>8. IdleThreadsMatchCounters'
    BY <1>1 DEF IdleThreadsMatchCounters
  <1>9. AssignedInv' /\ CallInv'
    BY <1>1 DEF AssignedInv, CallInv, BusyBlocks, BeingAssigned, Saves
  <1>. QED
    BY <1>4, <1>5, <1>6, <1>7, <1>8, <1>9

LEMMA ShutdownStep ==
    ASSUME IInv, Shutdown, UNCHANGED crashes
    PROVE  IInv'
  <1>. DEFINE Kept ==
        /\ ThreadTypeOK' /\ ThreadPoolTypeOK'
        /\ nmb_cpu_idle' \in Nat /\ nmb_opencl_idle' \in Nat
        /\ NoThrow' /\ QueueInv' /\ OwnerInv' /\ IdleThreadsMatchCounters' /\ ReadyInv'
        /\ BusyBlocks' = BusyBlocks
  <1>1. /\ main = "shutdown" /\ main' \in {"shutdown", "exited"}
        /\ UNCHANGED <<pool_vars, store_vars, within, node, block,
                       nmb_cpu_idle, nmb_opencl_idle, assigned_blocks>>
        /\ UNCHANGED <<blocks, tables, job>>
        /\ main' = "exited" => call' = Returned
    BY DEF Shutdown, thread_vars, ShutdownFlag, NotifyAll, Join
  <1>2. Kept
    <2>1. CASE UNCHANGED thread_vars
      BY <1>1, <2>1, Frame
    <2>2. ASSUME NEW t \in Thread, NotifyAll(t)
          PROVE  Kept
      <3>1. /\ Wake(t) /\ UNCHANGED <<shutting_down, blocks, tables, job>>
            /\ call' = [at |-> "join", thread |-> t]
        BY <2>2 DEF NotifyAll
      <3>2. /\ pc' \in [Thread -> PC] /\ missed' \in [Thread -> BOOLEAN]
            /\ ThreadPoolTypeOK' /\ nmb_cpu_idle' \in Nat /\ nmb_opencl_idle' \in Nat
            /\ NoThrow' /\ QueueInv' /\ OwnerInv' /\ IdleThreadsMatchCounters' /\ ReadyInv'
            /\ BusyBlocks' = BusyBlocks
        BY <1>1, <3>1, WakeFrame
      <3>3. ThreadTypeOK'
        BY <3>1, <3>2 DEF IInv, TypeOK, ThreadTypeOK
      <3>. QED
        BY <3>2, <3>3
    <2>3. ASSUME NEW t \in Thread, ShutdownFlag(t) \/ Join(t)
          PROVE  Kept
      <3>1. UNCHANGED <<blocks, tables, pc, job, missed>>
        BY <2>3 DEF ShutdownFlag, Join
      <3>2. ThreadTypeOK'
        <4>1. shutting_down' \in [Thread -> BOOLEAN]
          BY <2>3 DEF IInv, TypeOK, ThreadTypeOK, ShutdownFlag, Join
        <4>2. call' \in [at : {"notify_one", "notify_all", "join"}, thread : Thread]
                          \cup {Returned}
          BY <2>3 DEF ShutdownFlag, Join
        <4>. QED
          BY <1>1, <3>1, <4>1, <4>2 DEF IInv, TypeOK, ThreadTypeOK
      <3>3. ThreadPoolTypeOK' /\ nmb_cpu_idle' \in Nat /\ nmb_opencl_idle' \in Nat
        BY <1>1 DEF IInv, TypeOK, ThreadPoolTypeOK, pool_vars
      <3>4. NoThrow' /\ QueueInv' /\ ReadyInv'
        BY <1>1, <3>1 DEF IInv, NoThrow, QueueInv, ReadyInv, pool_vars
      <3>5. OwnerInv'
        BY <1>1, <3>1 DEF IInv, OwnerInv, Holds, pool_vars
      <3>6. IdleThreadsMatchCounters'
        BY <1>1, <3>1 DEF IInv, IdleThreadsMatchCounters, pool_vars
      <3>. QED
        BY <1>1, <3>2, <3>3, <3>4, <3>5, <3>6 DEF BusyBlocks, pool_vars
    <2>. QED
      BY <2>1, <2>2, <2>3 DEF Shutdown
  <1>3. TypeOK'
    BY <1>1, <1>2 DEF IInv, TypeOK, FileStoreTypeOK, store_vars, Main
  <1>4. ControlInv'
    BY <1>1 DEF ControlInv, Assigning, Saves
  <1>5. AssignedInv' /\ CallInv'
    BY <1>1, <1>2 DEF IInv, AssignedInv, CallInv, BeingAssigned, Saves, pool_vars
  <1>. QED
    BY <1>2, <1>3, <1>4, <1>5 DEF IInv

-----------------------------------------------------------------------------
(* Crashes                                                                 *)

\* A crash leaves a process at its start, with files of the right shape.
LEMMA CrashStarted ==
    ASSUME IInv, Crash
    PROVE  Started'
  <1>1. files' \in [Node -> Seq(FilePair)]
    <2>1. files \in [Node -> Seq(FilePair)] /\ saving.record \subseteq Block
      BY DEF IInv, TypeOK, FileStoreTypeOK, Saving
    <2>2. CASE main # "write_record"
      BY <2>1, <2>2 DEF Crash, TornFiles
    <2>3. CASE main = "write_record"
      <3>. DEFINE old == files[file_store]
                  n == Len(old)
      <3>1. file_store \in Node /\ old # <<>> /\ old \in Seq(FilePair)
        BY <2>1, <2>3 DEF IInv, ControlInv, Saves
      <3>2. n \in 1 .. Len(old) /\ old[n] \in FilePair
        BY <3>1
      <3>3. PICK part \in SUBSET saving.record :
              files' = [files EXCEPT ![file_store] =
                          [old EXCEPT ![n] = [old[n] EXCEPT !.record = part]]]
        BY <2>1, <2>3, <3>1, <3>2 DEF Crash, TornFiles, Current
      <3>4. [old[n] EXCEPT !.record = part] \in FilePair
        BY <2>1, <3>2 DEF FilePair
      <3>5. [old EXCEPT ![n] = [old[n] EXCEPT !.record = part]] \in Seq(FilePair)
        BY <3>1, <3>2, <3>4
      <3>. QED
        BY <2>1, <3>3, <3>5
    <2>. QED
      BY <2>2, <2>3
  <1>2. crashes' \in 0 .. MaxCrashes
    BY StandaloneAssumption DEF IInv, TypeOK, Crash
  <1>. QED
    BY <1>1, <1>2 DEF Crash, IInv, NoThrow, Started, SparkThreads, ThreadInit,
                      StoreMemoryInit, MainInit

-----------------------------------------------------------------------------
(* The invariant, and what follows from it                                 *)

LEMMA MainIInv ==
    ASSUME IInv, MainStep
    PROVE  IInv'
  BY NextNodeStep, WaitForAssignedBlocksStep, SaveGlobalStoresStep, SaveStepStep,
     ConfigureStep, EndOfNodeStep, EnterAssignStep, CheckContainsStep, FillFinishedStep,
     FillReadyStep, DispatchStep, NotifyAssignedStep, InsertStep, ShutdownStep
     DEF MainStep

\* Stuttering, which Terminating is too.
LEMMA StutterIInv ==
    ASSUME IInv, UNCHANGED vars
    PROVE  IInv'
  <1>1. UNCHANGED <<thread_vars, pool_vars, store_vars, main_vars, crashes>>
    BY DEF vars
  <1>2. UNCHANGED <<nmb_cpu_idle, nmb_opencl_idle>>
    BY <1>1 DEF main_vars
  <1>3. TypeOK'
    BY <1>1, <1>2, Frame DEF IInv, TypeOK, FileStoreTypeOK, store_vars, main_vars
  <1>4. ControlInv'
    BY <1>1, OwnerFrame DEF thread_vars, store_vars
  <1>5. AssignedInv' /\ CallInv'
    BY <1>1, <1>2, Frame
       DEF IInv, AssignedInv, CallInv, BeingAssigned, thread_vars, pool_vars, main_vars
  <1>. QED
    BY <1>1, <1>2, <1>3, <1>4, <1>5, Frame DEF IInv

LEMMA NextIInv == IInv /\ [Next]_vars => IInv'
  <1>. SUFFICES ASSUME IInv, [Next]_vars PROVE IInv'
    OBVIOUS
  <1>1. CASE MainStep
    BY <1>1, MainIInv
  <1>2. ASSUME NEW t \in Thread, WorkerStep(t) \/ Wakeup(t)
        PROVE  IInv'
    BY <1>2, WorkerIInv
  <1>3. CASE Crash
    <2>1. Started'
      BY <1>3, CrashStarted
    <2>2. (Started => IInv)'
      BY StartedIInv, PTL
    <2>. QED
      BY <2>1, <2>2
  <1>4. CASE UNCHANGED vars
    BY <1>4, StutterIInv
  <1>. QED
    BY <1>1, <1>2, <1>3, <1>4 DEF Next, Terminating

\* The bookkeeping of the pool, of its threads and of their owner agree in every
\* reachable state, after any number of crashes.
THEOREM IInvAlways == Spec => []IInv
  BY InitIInv, NextIInv, PTL DEF Spec

\* Type correctness.
THEOREM TypeCorrect == Spec => []TypeOK
  <1>1. IInv => TypeOK
    BY DEF IInv
  <1>. QED
    BY <1>1, IInvAlways, PTL

\* No bare "throw;" of the pool and of its owner is ever reached
\* (thread_pool.cc 110-113 and 127-131, standalone.cc 136-142).
THEOREM NeverThrows == Spec => []NoThrow
  <1>1. IInv => NoThrow
    BY DEF IInv
  <1>. QED
    BY <1>1, IInvAlways, PTL

\* The deque idle_threads is at every time what the counters of the owner say:
\* nmb_opencl_idle OpenCL threads in front of nmb_cpu_idle others, each of them
\* once and without work (standalone.cc 88-95 and 109-113).
THEOREM CountersCorrect == Spec => []IdleThreadsMatchCounters
  <1>1. IInv => IdleThreadsMatchCounters
    BY DEF IInv
  <1>. QED
    BY <1>1, IInvAlways, PTL

\* A block that the owner waits for is with exactly one thread, the one that
\* busy_threads names, or finished, and never both.
THEOREM NoBlockIsLost == Spec => []AssignedBlocksAreOnTheirWay
  <1>1. IInv => AssignedBlocksAreOnTheirWay
    BY DEF IInv, AssignedInv, OwnerInv, AssignedBlocksAreOnTheirWay
  <1>. QED
    BY <1>1, IInvAlways, PTL

-----------------------------------------------------------------------------
(* The inductive invariant of memory and files, on top of IInv             *)

\* Blocks that a thread has been given and not yet merged.
Unmerged == {b \in BusyBlocks : pc[busy_threads[b]] # "report"}

\* The blocks in memory and the listed blocks of the node in use.
Merged == static_record \cup saving.record \cup Recorded(file_store)

\* Whatever a thread has was assigned for the node in use.
JobInv ==
    \A t \in Thread :
        /\ \A j \in Job : blocks[t] = <<j>> => j.node = file_store
        /\ pc[t] \in {"count", "report"} => job[t].node = file_store

\* What the memory holds are the counts of the blocks it lists.
MemoryInv ==
    /\ static_store = Once(file_store, static_record)
    /\ saving.store = Once(file_store, saving.record)
    /\ main \notin Saves => saving = NothingToSave
    /\ main \in {"configure", "shutdown", "exited"} => static_record = {}
    /\ main \in Saves /\ within # "assign" => static_record = {}
    /\ file_store = NoNode => BusyBlocks = {} /\ static_record = {} /\ saving.record = {}

\* A block is in one place at most: with a thread, in the static store, in the
\* save under way, or listed.
PlaceInv ==
    file_store # NoNode =>
        /\ Unmerged \cap Merged = {}
        /\ static_record \cap saving.record = {}
        /\ (static_record \cup saving.record) \cap Recorded(file_store) = {}

\* It is in one place at least, once the iterator has passed it or the pool has
\* been given it.
CoverInv ==
    file_store # NoNode =>
        \A b \in Block :
            b < block \/ b \in BusyBlocks \/ (b = block /\ main = "insert") =>
                b \in Unmerged \cup Merged

\* What the iterator has yet to pass is nowhere, unless an earlier run listed it.
FreshInv ==
    /\ Assigning =>
        /\ initial_record \subseteq Recorded(file_store)
        /\ \A b \in Block :
            b > block \/ (b = block /\ main \notin {"notify", "insert"}) =>
                b \notin static_record \cup saving.record
                           \cup (Recorded(file_store) \ initial_record)
    /\ main \in {"fill", "flush_ready", "dispatch", "notify", "insert"}
            => block \notin initial_record

\* The pair that save is working on.
CurrentInv ==
    main \in Saves \ {"create_store"} =>
        LET pair == files[file_store][Current]
        IN  /\ pair.record = {}
            /\ main = "write_store" => pair.store = NoCounts
            /\ main # "write_store" => pair.store = saving.store \/ pair.failed

\* The nodes before the one in use are complete, and the owner turns to the
\* next one only when the iterator has come to its end.
NodeInv ==
    /\ \A m \in Node : m < file_store => Recorded(m) = Block
    /\ ~ Assigning =>
        \/ file_store = NoNode /\ node = 1
        \/ file_store # NoNode /\ node = file_store + 1 /\ block = NbBlocks + 1
    /\ main \in {"shutdown", "exited"} => node \notin Node \ BadNode
    /\ main \in {"wait", "save"} \cup Saves /\ within = "destructor"
            => node \notin Node \ BadNode

\* A thread that was told to shut down has returned or is being joined.
ShutdownInv ==
    /\ \A t \in Thread :
        shutting_down[t] => \/ pc[t] = "exited"
                            \/ call \in [at : {"notify_all", "join"}, thread : {t}]
    /\ main = "exited" => call = Returned /\ \A t \in Thread : shutting_down[t]

DInv ==
    /\ JobInv
    /\ MemoryInv
    /\ PlaceInv
    /\ CoverInv
    /\ FreshInv
    /\ CurrentInv
    /\ NodeInv
    /\ ShutdownInv
    /\ FilesInv

-----------------------------------------------------------------------------
(* Helpers                                                                 *)

\* The properties of the files alone.
LEMMA FilesFrame ==
    ASSUME DInv, UNCHANGED files
    PROVE  /\ FilesInv'
           /\ \A n : Recorded(n)' = Recorded(n)
  BY FilesInvFrame DEF DInv, Recorded

\* Types that the steps below need.
LEMMA DataTypes ==
    ASSUME IInv
    PROVE  /\ files \in [Node -> Seq(FilePair)]
           /\ file_store \in Node \cup {NoNode}
           /\ static_record \subseteq Block
           /\ saving.record \subseteq Block
           /\ initial_record \subseteq Block
           /\ BusyBlocks \subseteq Block
           /\ Unmerged \subseteq BusyBlocks
           /\ \A n \in Node : Recorded(n) \subseteq Block
  <1>1. /\ files \in [Node -> Seq(FilePair)]
        /\ file_store \in Node \cup {NoNode}
        /\ static_record \subseteq Block
        /\ saving.record \subseteq Block
        /\ initial_record \subseteq Block
    BY DEF IInv, TypeOK, FileStoreTypeOK, Saving
  <1>2. ASSUME NEW n \in Node PROVE Recorded(n) \subseteq Block
    <2>1. files[n] \in Seq(FilePair)
      BY <1>1
    <2>2. \A i \in DOMAIN files[n] : files[n][i] \in FilePair
      BY <2>1
    <2>3. \A i \in DOMAIN files[n] : files[n][i].record \subseteq Block
      BY <2>2 DEF FilePair
    <2>. QED
      BY <2>3 DEF Recorded
  <1>. QED
    BY <1>1, <1>2 DEF BusyBlocks, Unmerged

\* Where a block is that a thread works on.
LEMMA AtWork ==
    ASSUME IInv, DInv, NEW t \in Thread, NEW b \in Block, Holds(t, b)
    PROVE  /\ busy_threads[b] = t /\ b \in BusyBlocks
           /\ b \in Unmerged <=> pc[t] # "report"
           /\ file_store \in Node
           /\ b < block \/ (b = block /\ main \in {"notify", "insert"})
           /\ main \notin {"configure", "shutdown", "exited"}
           /\ main \in Saves => within = "assign"
  <1>1. busy_threads[b] = t /\ b \in BusyBlocks
    BY ThreadAssumption DEF IInv, OwnerInv, BusyBlocks
  <1>2. b \in Unmerged <=> pc[t] # "report"
    BY <1>1 DEF Unmerged
  <1>3. file_store \in Node
    BY <1>1, DataTypes DEF DInv, MemoryInv
  <1>4. b \in assigned_blocks \/ (main \in {"notify", "insert"} /\ b = block)
    BY <1>1 DEF IInv, AssignedInv, BeingAssigned
  <1>. QED
    BY <1>1, <1>2, <1>3, <1>4 DEF IInv, AssignedInv, Saves

-----------------------------------------------------------------------------
(* The initial states, and crashes                                         *)

LEMMA StartedDInv ==
    Started /\ FilesInv => DInv
  <1>. SUFFICES ASSUME Started, FilesInv
PROVE  DInv
    OBVIOUS
  <1>. USE DEF Started, SparkThreads, ThreadInit, StoreMemoryInit, MainInit
  <1>1. JobInv
    BY DEF JobInv
  <1>2. BusyBlocks = {}
    BY DEF BusyBlocks
  <1>3. MemoryInv
    BY <1>2, OnceEmpty DEF MemoryInv, NothingToSave, Saves
  <1>4. PlaceInv /\ CoverInv
    BY DEF PlaceInv, CoverInv
  <1>5. FreshInv /\ CurrentInv
    BY DEF FreshInv, Assigning, CurrentInv, Saves
  <1>6. NodeInv
    BY DEF NodeInv, Node, NoNode, Saves
  <1>7. ShutdownInv
    BY DEF ShutdownInv
  <1>. QED
    BY <1>1, <1>3, <1>4, <1>5, <1>6, <1>7 DEF DInv

LEMMA InitDInv == Init => DInv
  <1>. SUFFICES ASSUME Init PROVE DInv
    OBVIOUS
  <1>1. Started
    BY StandaloneAssumption DEF Init, Started, FileStoreInit
  <1>2. \A n \in Node : DOMAIN files[n] = {}
    BY DEF Init, FileStoreInit
  <1>3. FilesInv
    BY <1>2 DEF FilesInv, RecordsDisjoint, RecordedIsStored, RecordedIsNotCountedAgain
  <1>. QED
    BY <1>1, <1>3, StartedDInv

-----------------------------------------------------------------------------
(* The worker threads                                                      *)

\* A step of a worker that merges nothing.
LEMMA WorkerFrame ==
    ASSUME IInv, DInv, UNCHANGED <<store_vars, main_vars, shutting_down, call>>,
           BusyBlocks' \subseteq BusyBlocks, Unmerged' = Unmerged, JobInv',
           \A t \in Thread : pc[t] = "exited" => pc'[t] = "exited"
    PROVE  DInv'
  <1>. USE DEF store_vars, main_vars
  <1>1. \A n : Recorded(n)' = Recorded(n)
    BY DEF Recorded
  <1>2. Merged' = Merged
    BY <1>1 DEF Merged
  <1>3. MemoryInv' /\ FreshInv' /\ CurrentInv'
    BY <1>1 DEF DInv, MemoryInv, FreshInv, Assigning, CurrentInv, Current
  <1>4. PlaceInv' /\ CoverInv'
    BY <1>1, <1>2 DEF DInv, PlaceInv, CoverInv
  <1>5. NodeInv'
    BY <1>1 DEF DInv, NodeInv, Assigning
  <1>6. ShutdownInv'
    BY DEF DInv, ShutdownInv
  <1>. QED
    BY <1>3, <1>4, <1>5, <1>6, FilesFrame DEF DInv

LEMMA IdleData ==
    ASSUME IInv, DInv, NEW t \in Thread,
           ReadState(t) \/ EnterWait(t) \/ SpuriousWakeup(t),
           UNCHANGED <<pool_vars, store_vars, main_vars, crashes>>
    PROVE  DInv'
  <1>1. /\ UNCHANGED <<shutting_down, blocks, tables, job, call>>
        /\ \A u \in Thread : u # t => pc'[u] = pc[u]
        /\ pc[t] \notin {"count", "report", "exited"}
        /\ pc'[t] \notin {"count", "report"}
    BY DEF ReadState, EnterWait, SpuriousWakeup, IInv, TypeOK, ThreadTypeOK, PC
  <1>2. BusyBlocks' = BusyBlocks
    BY DEF BusyBlocks, pool_vars
  <1>3. \A b \in BusyBlocks : busy_threads[b] \in Thread /\ busy_threads'[b] = busy_threads[b]
    BY DEF BusyBlocks, IInv, TypeOK, ThreadPoolTypeOK, pool_vars
  <1>4. Unmerged' = Unmerged
    BY <1>1, <1>2, <1>3 DEF Unmerged
  <1>5. JobInv'
    BY <1>1 DEF DInv, JobInv, store_vars
  <1>. QED
    BY <1>1, <1>2, <1>4, <1>5, WorkerFrame

LEMMA PopFrontData ==
    ASSUME IInv, DInv, NEW t \in Thread, PopFront(t),
           UNCHANGED <<pool_vars, store_vars, main_vars, crashes>>
    PROVE  DInv'
  <1>1. PICK j \in Job : blocks[t] = <<j>>
    BY DEF PopFront, IInv, QueueInv
  <1>2. /\ UNCHANGED <<shutting_down, tables, call>>
        /\ pc[t] = "pop"
        /\ job' = [job EXCEPT ![t] = j]
        /\ blocks' = [blocks EXCEPT ![t] = <<>>]
        /\ pc' = [pc EXCEPT ![t] = "count"]
    BY <1>1 DEF PopFront
  <1>3. BusyBlocks' = BusyBlocks
    BY DEF BusyBlocks, pool_vars
  <1>4. \A b \in BusyBlocks : busy_threads[b] \in Thread /\ busy_threads'[b] = busy_threads[b]
    BY DEF BusyBlocks, IInv, TypeOK, ThreadPoolTypeOK, pool_vars
  <1>5. \A u \in Thread : pc'[u] = pc[u] \/ (u = t /\ pc[u] = "pop" /\ pc'[u] = "count")
    BY <1>2 DEF IInv, TypeOK, ThreadTypeOK
  <1>6. Unmerged' = Unmerged
    BY <1>3, <1>4, <1>5 DEF Unmerged
  <1>7. j.node = file_store
    BY <1>1 DEF DInv, JobInv
  <1>8. JobInv'
    BY <1>2, <1>7 DEF DInv, JobInv, store_vars, IInv, TypeOK, ThreadTypeOK
  <1>. QED
    BY <1>2, <1>3, <1>5, <1>6, <1>8, WorkerFrame

LEMMA ReportData ==
    ASSUME IInv, DInv, NEW t \in Thread, Report(t), UNCHANGED <<main_vars, crashes>>
    PROVE  DInv'
  <1>. DEFINE b0 == job[t].block
  <1>1. pc[t] = "report" /\ b0 \in Block /\ Holds(t, b0)
    BY DEF Report, FinishedBlock, ReportBlock, IInv, QueueInv, Job, Holds
  <1>2. busy_threads[b0] = t /\ \A b \in Block : busy_threads[b] = t => b = b0
    <2>1. \A b \in Block : Holds(t, b) => b = b0
      BY <1>1, HoldsSingle DEF IInv, QueueInv
    <2>. QED
      BY <1>1, <2>1 DEF IInv, OwnerInv
  <1>3. /\ UNCHANGED <<shutting_down, blocks, tables, call, store_vars>>
        /\ job' = [job EXCEPT ![t] = NoJob]
        /\ pc' = [pc EXCEPT ![t] = "check"]
        /\ busy_threads' = [busy_threads EXCEPT ![b0] = Nobody]
    BY <1>2, ThreadAssumption DEF Report, FinishedBlock, ReportBlock
  <1>4. BusyBlocks' = BusyBlocks \ {b0}
    BY <1>1, <1>3 DEF BusyBlocks, IInv, TypeOK, ThreadPoolTypeOK
  <1>5. \A b \in BusyBlocks : /\ busy_threads[b] \in Thread
                              /\ b # b0 => busy_threads'[b] = busy_threads[b]
                              /\ b # b0 => busy_threads[b] # t
    BY <1>1, <1>2, <1>3 DEF BusyBlocks, IInv, TypeOK, ThreadPoolTypeOK
  <1>6. \A u \in Thread : u # t => pc'[u] = pc[u]
    BY <1>3 DEF IInv, TypeOK, ThreadTypeOK
  <1>7. b0 \notin Unmerged
    BY <1>1, <1>2 DEF Unmerged
  <1>8. Unmerged' = Unmerged
    <2>1. \A b \in BusyBlocks \ {b0} : pc'[busy_threads'[b]] = pc[busy_threads[b]]
      BY <1>5, <1>6
    <2>. QED
      BY <1>4, <1>7, <2>1 DEF Unmerged
  <1>9. JobInv'
    BY <1>3 DEF DInv, JobInv, store_vars, IInv, TypeOK, ThreadTypeOK
  <1>10. \A u \in Thread : pc[u] = "exited" => pc'[u] = "exited"
    BY <1>1, <1>6
  <1>. QED
    BY <1>3, <1>4, <1>8, <1>9, <1>10, WorkerFrame

\* The block moves from the thread to the static store.
LEMMA CountData ==
    ASSUME IInv, DInv, NEW t \in Thread, CountAndFlush(t), UNCHANGED <<main_vars, crashes>>
    PROVE  DInv'
  <1>. DEFINE b0 == job[t].block
  <1>. USE DEF main_vars
  <1>1. pc[t] = "count" /\ b0 \in Block /\ Holds(t, b0) /\ job[t].node = file_store
    BY DEF CountAndFlush, CountBlock, IInv, QueueInv, Job, Holds, DInv, JobInv
  <1>2. /\ busy_threads[b0] = t /\ b0 \in Unmerged
        /\ file_store \in Node
        /\ b0 < block \/ (b0 = block /\ main \in {"notify", "insert"})
        /\ main \notin {"configure", "shutdown", "exited"}
        /\ main \in Saves => within = "assign"
    BY <1>1, AtWork
  <1>3. \A b \in Block : busy_threads[b] = t => b = b0
    BY <1>1, HoldsSingle DEF IInv, OwnerInv, QueueInv
  <1>4. /\ UNCHANGED <<shutting_down, blocks, tables, job, call, pool_vars,
                       files, file_store, initial_record, saving>>
        /\ pc' = [pc EXCEPT ![t] = "report"]
        /\ static_record' = static_record \cup {b0}
        /\ static_store' = [static_store EXCEPT ![file_store][b0] = @ + 1]
    BY <1>1 DEF CountAndFlush, CountBlock, FlushToStaticStore
  <1>5. BusyBlocks' = BusyBlocks /\ Unmerged' = Unmerged \ {b0}
    <2>1. BusyBlocks' = BusyBlocks
      BY <1>4 DEF BusyBlocks, pool_vars
    <2>2. \A b \in BusyBlocks : busy_threads'[b] = busy_threads[b] /\ busy_threads[b] \in Thread
      BY <1>4 DEF BusyBlocks, pool_vars, IInv, TypeOK, ThreadPoolTypeOK
    <2>3. \A u \in Thread : pc'[u] = IF u = t THEN "report" ELSE pc[u]
      BY <1>4 DEF IInv, TypeOK, ThreadTypeOK
    <2>4. \A b \in BusyBlocks : busy_threads[b] = t <=> b = b0
      BY <1>2, <1>3 DEF BusyBlocks
    <2>. QED
      BY <2>1, <2>2, <2>3, <2>4 DEF Unmerged
  <1>6. b0 \notin Merged
    BY <1>2 DEF DInv, PlaceInv, Node, NoNode
  <1>7. \A n : Recorded(n)' = Recorded(n)
    BY <1>4 DEF Recorded
  <1>8. Merged' = Merged \cup {b0}
    BY <1>4, <1>7 DEF Merged
  <1>9. JobInv'
    BY <1>1, <1>4 DEF DInv, JobInv, IInv, TypeOK, ThreadTypeOK
  <1>10. MemoryInv'
    <2>1. static_store' = Once(file_store, static_record')
      <3>1. b0 \notin static_record /\ static_record \in SUBSET Block
        BY <1>6, DataTypes DEF Merged
      <3>. QED
        BY <1>1, <1>2, <1>4, <3>1, OnceAdd DEF DInv, MemoryInv
    <2>2. file_store # NoNode
      BY <1>2 DEF Node, NoNode
    <2>. QED
      BY <1>2, <1>4, <2>1, <2>2 DEF DInv, MemoryInv, Saves
  <1>11. PlaceInv'
    BY <1>4, <1>5, <1>6, <1>7, <1>8 DEF DInv, PlaceInv, Merged
  <1>12. CoverInv'
    BY <1>4, <1>5, <1>8 DEF DInv, CoverInv
  <1>13. FreshInv'
    <2>1. block \in Nat /\ Block \subseteq Nat
      BY ConfigAssumption DEF IInv, TypeOK, Block
    <2>2. Assigning' = Assigning
      BY DEF Assigning
    <2>. QED
      BY <1>1, <1>2, <1>4, <1>7, <2>1, <2>2 DEF DInv, FreshInv
  <1>14. CurrentInv'
    BY <1>4 DEF DInv, CurrentInv, Current
  <1>15. NodeInv'
    BY <1>4, <1>7 DEF DInv, NodeInv, Assigning
  <1>16. ShutdownInv'
    BY <1>1, <1>4 DEF DInv, ShutdownInv, IInv, TypeOK, ThreadTypeOK
  <1>. QED
    BY <1>4, <1>9, <1>10, <1>11, <1>12, <1>13, <1>14, <1>15, <1>16, FilesFrame DEF DInv

LEMMA WorkerDInv ==
    ASSUME IInv, DInv, NEW t \in Thread, WorkerStep(t) \/ Wakeup(t)
    PROVE  DInv'
  BY IdleData, PopFrontData, CountData, ReportData DEF WorkerStep, ThreadOnly, Wakeup

-----------------------------------------------------------------------------
(* The owner: steps that touch neither files nor memory                    *)

\* With the threads' blocks where they were, only the owner's position counts.
LEMMA OwnerData ==
    ASSUME IInv, DInv, UNCHANGED <<busy_threads, pc, blocks, job, store_vars, shutting_down, call>>
    PROVE  /\ BusyBlocks' = BusyBlocks /\ Unmerged' = Unmerged /\ Merged' = Merged
           /\ \A n : Recorded(n)' = Recorded(n)
           /\ JobInv' /\ PlaceInv'
           /\ FilesInv'
  <1>. USE DEF store_vars
  <1>1. BusyBlocks' = BusyBlocks /\ Unmerged' = Unmerged
    BY DEF BusyBlocks, Unmerged
  <1>2. Merged' = Merged
    BY FilesFrame DEF Merged
  <1>3. JobInv'
    BY DEF DInv, JobInv
  <1>4. PlaceInv'
    BY <1>1, <1>2, FilesFrame DEF DInv, PlaceInv
  <1>. QED
    BY <1>1, <1>2, <1>3, <1>4, FilesFrame

LEMMA NextNodeData ==
    ASSUME IInv, DInv, NextNode
    PROVE  DInv'
  <1>1. /\ UNCHANGED <<thread_vars, pool_vars, store_vars, node, block>>
        /\ main = "node" /\ main' = "wait"
        /\ within' = IF node \in Node \ BadNode THEN "update_config" ELSE "destructor"
    BY DEF NextNode
  <1>2. /\ BusyBlocks' = BusyBlocks /\ Unmerged' = Unmerged /\ Merged' = Merged
        /\ \A n : Recorded(n)' = Recorded(n)
        /\ JobInv' /\ PlaceInv'
        /\ FilesInv'
    BY <1>1, OwnerData DEF thread_vars, pool_vars
  <1>3. MemoryInv'
    BY <1>1, <1>2 DEF DInv, MemoryInv, Saves, store_vars
  <1>4. CoverInv' /\ CurrentInv'
    BY <1>1, <1>2 DEF DInv, CoverInv, CurrentInv, Saves, store_vars
  <1>5. FreshInv'
    BY <1>1 DEF FreshInv, Assigning, Saves
  <1>6. NodeInv'
    BY <1>1, <1>2 DEF DInv, NodeInv, Assigning, Saves, store_vars
  <1>7. ShutdownInv'
    BY <1>1 DEF DInv, ShutdownInv, thread_vars
  <1>. QED
    BY <1>2, <1>3, <1>4, <1>5, <1>6, <1>7 DEF DInv

\* The owner polls the pool, or counts the threads that became ready.
LEMMA PollData ==
    ASSUME IInv, IInv', DInv, WaitForAssignedBlocks \/ FillFinished \/ FillReady
    PROVE  DInv'
  <1>1. /\ UNCHANGED <<thread_vars, store_vars, busy_threads, within, node, block>>
        /\ \/ main = "wait" /\ main' \in {"wait", "save"}
           \/ main \in {"fill", "flush_ready"} /\ main' \in {"fill", "flush_ready", "dispatch"}
    BY DEF WaitForAssignedBlocks, FillFinished, FillReady, TakeFinishedBlocks,
           FlushFinishedBlocks, FlushReadyThreads
  <1>2. /\ BusyBlocks' = BusyBlocks /\ Unmerged' = Unmerged /\ Merged' = Merged
        /\ \A n : Recorded(n)' = Recorded(n)
        /\ JobInv' /\ PlaceInv'
        /\ FilesInv'
    BY <1>1, OwnerData DEF thread_vars
  <1>3. main = "wait" => within # "assign"
    BY DEF IInv, ControlInv
  <1>4. MemoryInv'
    BY <1>1, <1>2 DEF DInv, MemoryInv, Saves, store_vars
  <1>5. CoverInv' /\ CurrentInv'
    BY <1>1, <1>2 DEF DInv, CoverInv, CurrentInv, Saves, store_vars
  <1>6. FreshInv'
    BY <1>1, <1>2, <1>3 DEF DInv, FreshInv, Assigning, Saves, store_vars
  <1>7. NodeInv'
    BY <1>1, <1>2, <1>3 DEF DInv, NodeInv, Assigning, Saves, store_vars
  <1>8. ShutdownInv'
    BY <1>1 DEF DInv, ShutdownInv, thread_vars
  <1>. QED
    BY <1>2, <1>4, <1>5, <1>6, <1>7, <1>8 DEF DInv

LEMMA EndOfNodeData ==
    ASSUME IInv, DInv, EndOfNode
    PROVE  DInv'
  <1>1. /\ UNCHANGED <<thread_vars, pool_vars, store_vars, within, block>>
        /\ main = "iterate" /\ main' = "node" /\ node' = node + 1
        /\ block > NbBlocks
    BY DEF EndOfNode
  <1>2. /\ BusyBlocks' = BusyBlocks /\ Unmerged' = Unmerged /\ Merged' = Merged
        /\ \A n : Recorded(n)' = Recorded(n)
        /\ JobInv' /\ PlaceInv'
        /\ FilesInv'
    BY <1>1, OwnerData DEF thread_vars, pool_vars
  <1>3. node = file_store /\ file_store # NoNode /\ block = NbBlocks + 1
    BY <1>1, ConfigAssumption DEF IInv, ControlInv, Assigning, TypeOK, Node, NoNode
  <1>4. MemoryInv'
    BY <1>1, <1>2 DEF DInv, MemoryInv, Saves, store_vars
  <1>5. CoverInv' /\ CurrentInv'
    BY <1>1, <1>2 DEF DInv, CoverInv, CurrentInv, Saves, store_vars
  <1>6. FreshInv'
    BY <1>1 DEF FreshInv, Assigning, Saves
  <1>7. NodeInv'
    BY <1>1, <1>2, <1>3 DEF DInv, NodeInv, Assigning, Saves, store_vars
  <1>8. ShutdownInv'
    BY <1>1 DEF DInv, ShutdownInv, thread_vars
  <1>. QED
    BY <1>2, <1>4, <1>5, <1>6, <1>7, <1>8 DEF DInv

LEMMA EnterAssignData ==
    ASSUME IInv, DInv, EnterAssign
    PROVE  DInv'
  <1>1. /\ UNCHANGED <<thread_vars, pool_vars, store_vars, node, block>>
        /\ main = "iterate" /\ main' \in {"save", "contains"} /\ within' = "assign"
    BY DEF EnterAssign
  <1>2. /\ BusyBlocks' = BusyBlocks /\ Unmerged' = Unmerged /\ Merged' = Merged
        /\ \A n : Recorded(n)' = Recorded(n)
        /\ JobInv' /\ PlaceInv'
        /\ FilesInv'
    BY <1>1, OwnerData DEF thread_vars, pool_vars
  <1>3. MemoryInv'
    BY <1>1, <1>2 DEF DInv, MemoryInv, Saves, store_vars
  <1>4. CoverInv' /\ CurrentInv'
    BY <1>1, <1>2 DEF DInv, CoverInv, CurrentInv, Saves, store_vars
  <1>5. FreshInv'
    BY <1>1, <1>2 DEF DInv, FreshInv, Assigning, Saves, store_vars
  <1>6. NodeInv'
    BY <1>1, <1>2 DEF DInv, NodeInv, Assigning, Saves, store_vars
  <1>7. ShutdownInv'
    BY <1>1 DEF DInv, ShutdownInv, thread_vars
  <1>. QED
    BY <1>2, <1>3, <1>4, <1>5, <1>6, <1>7 DEF DInv

\* A block that an earlier run listed is passed over.
LEMMA CheckContainsData ==
    ASSUME IInv, DInv, CheckContains
    PROVE  DInv'
  <1>1. /\ UNCHANGED <<thread_vars, pool_vars, store_vars, within, node>>
        /\ main = "contains"
        /\ \/ block \in initial_record /\ block' = block + 1 /\ main' = "iterate"
           \/ block \notin initial_record /\ block' = block /\ main' \in {"fill", "dispatch"}
    BY DEF CheckContains
  <1>2. /\ BusyBlocks' = BusyBlocks /\ Unmerged' = Unmerged /\ Merged' = Merged
        /\ \A n : Recorded(n)' = Recorded(n)
        /\ JobInv' /\ PlaceInv'
        /\ FilesInv'
    BY <1>1, OwnerData DEF thread_vars, pool_vars
  <1>3. block \in Block /\ Block \subseteq Nat /\ file_store # NoNode /\ within = "assign"
    BY <1>1 DEF IInv, ControlInv, Assigning, Block, Node, NoNode
  <1>4. MemoryInv'
    BY <1>1, <1>2 DEF DInv, MemoryInv, Saves, store_vars
  <1>5. CoverInv'
    <2>1. block' = block + 1 => block \in Merged
      BY <1>1, <1>3 DEF DInv, FreshInv, Assigning, Merged
    <2>2. \A b \in Block : b < block' => b < block \/ (b = block /\ block' = block + 1)
      BY <1>1, <1>3
    <2>. QED
      BY <1>1, <1>2, <1>3, <2>1, <2>2 DEF DInv, CoverInv, store_vars
  <1>6. CurrentInv'
    BY <1>1 DEF CurrentInv, Saves
  <1>7. FreshInv'
    <2>1. \A b \in Block : b > block' \/ b = block' => b > block \/ b = block
      BY <1>1, <1>3
    <2>. QED
      BY <1>1, <1>2, <2>1 DEF DInv, FreshInv, Assigning, Saves, store_vars
  <1>8. NodeInv'
    BY <1>1, <1>2, <1>3 DEF DInv, NodeInv, Assigning, Saves, store_vars
  <1>9. ShutdownInv'
    BY <1>1 DEF DInv, ShutdownInv, thread_vars
  <1>. QED
    BY <1>2, <1>4, <1>5, <1>6, <1>7, <1>8, <1>9 DEF DInv

-----------------------------------------------------------------------------
(* The owner: saving                                                       *)

\* What has been merged so far moves from the static store to the save.
LEMMA SaveGlobalStoresData ==
    ASSUME IInv, DInv, SaveGlobalStores
    PROVE  DInv'
  <1>1. /\ UNCHANGED <<thread_vars, pool_vars, within, node, block>>
        /\ main = "save"
    BY DEF SaveGlobalStores
  <1>2. CASE file_store = NoNode
    <2>1. main' = AfterSave /\ UNCHANGED store_vars
      BY <1>2 DEF SaveGlobalStores
    <2>2. main' \in {"configure", "shutdown"} /\ within # "assign"
            /\ (main' = "shutdown" => within = "destructor")
      BY <1>1, <1>2, <2>1 DEF AfterSave, IInv, TypeOK, ControlInv, Assigning, Node, NoNode
    <2>3. /\ BusyBlocks' = BusyBlocks /\ Unmerged' = Unmerged /\ Merged' = Merged
          /\ \A n : Recorded(n)' = Recorded(n)
          /\ JobInv' /\ PlaceInv'
          /\ FilesInv'
      BY <1>1, <2>1, OwnerData DEF thread_vars, pool_vars
    <2>4. MemoryInv'
      BY <1>1, <1>2, <2>1, <2>2, <2>3 DEF DInv, MemoryInv, Saves, store_vars
    <2>5. CoverInv' /\ CurrentInv'
      BY <1>2, <2>1, <2>2 DEF CoverInv, CurrentInv, Saves, store_vars
    <2>6. FreshInv'
      BY <2>2 DEF FreshInv, Assigning, Saves
    <2>7. NodeInv'
      BY <1>1, <1>2, <2>1, <2>2, <2>3 DEF DInv, NodeInv, Assigning, Saves, store_vars
    <2>8. ShutdownInv'
      BY <1>1, <2>2 DEF DInv, ShutdownInv, thread_vars
    <2>. QED
      BY <2>3, <2>4, <2>5, <2>6, <2>7, <2>8 DEF DInv
  <1>3. CASE file_store # NoNode
    <2>1. /\ main' = "create_store"
          /\ saving' = [record |-> static_record, store |-> static_store]
          /\ static_record' = {} /\ static_store' = NoCounts
          /\ UNCHANGED <<files, file_store, initial_record>>
      BY <1>3 DEF SaveGlobalStores, FlushStaticStore
    <2>2. saving = NothingToSave
      BY <1>1 DEF DInv, MemoryInv, Saves
    <2>3. saving.record = {} /\ saving'.record = static_record /\ saving'.store = static_store
      BY <2>1, <2>2 DEF NothingToSave
    <2>4. BusyBlocks' = BusyBlocks /\ Unmerged' = Unmerged
      BY <1>1 DEF BusyBlocks, Unmerged, thread_vars, pool_vars
    <2>5. \A n : Recorded(n)' = Recorded(n)
      BY <2>1 DEF Recorded
    <2>6. Merged' = Merged
      BY <2>1, <2>3, <2>5 DEF Merged
    <2>7. JobInv'
      BY <1>1, <2>1 DEF DInv, JobInv, thread_vars
    <2>8. MemoryInv'
      BY <1>3, <2>1, <2>3, <2>4, OnceEmpty DEF DInv, MemoryInv, Saves
    <2>9. PlaceInv'
      BY <1>3, <2>1, <2>3, <2>4, <2>5, <2>6 DEF DInv, PlaceInv
    <2>10. CoverInv'
      BY <1>1, <1>3, <2>1, <2>4, <2>6 DEF DInv, CoverInv
    <2>11. Assigning' = Assigning
      BY <1>1, <2>1 DEF Assigning, Saves
    <2>12. FreshInv'
      BY <1>1, <2>1, <2>3, <2>5, <2>11 DEF DInv, FreshInv
    <2>13. CurrentInv'
      BY <2>1 DEF CurrentInv
    <2>14. NodeInv'
      BY <1>1, <1>3, <2>1, <2>5, <2>11 DEF DInv, NodeInv, Saves
    <2>15. ShutdownInv'
      BY <1>1, <2>1 DEF DInv, ShutdownInv, thread_vars
    <2>. QED
      BY <2>1, <2>7, <2>8, <2>9, <2>10, <2>12, <2>13, <2>14, <2>15, FilesFrame DEF DInv
  <1>. QED
    BY <1>2, <1>3

\* Save has a pair to work on, and what it is about to list is listed nowhere.
LEMMA SaveInUse ==
    ASSUME IInv, DInv, main \in Saves
    PROVE  /\ file_store \in Node /\ files \in [Node -> Seq(FilePair)]
           /\ FilesInv /\ SavingIsNew
           /\ main # "create_store" =>
                PairInUse /\ files[file_store][Current].record = {}
  <1>1. file_store \in Node /\ (main # "create_store" => files[file_store] # <<>>)
    BY DEF IInv, ControlInv, Saves
  <1>2. file_store # NoNode
    BY <1>1 DEF Node, NoNode
  <1>3. saving \in Saving
    BY DEF IInv, TypeOK, FileStoreTypeOK
  <1>4. main # "create_store" => files[file_store][Current].record = {}
    BY DEF DInv, CurrentInv
  <1>. QED
    BY <1>1, <1>2, <1>3, <1>4, DataTypes
    DEF DInv, MemoryInv, PlaceInv, FilesInv, SavingIsNew, PairInUse

\* A new pair, empty, under the path in use.
LEMMA NewPair ==
    ASSUME IInv, DInv, main = "create_store", CreateStoreFile
    PROVE  /\ \A n \in Node : Recorded(n)' = Recorded(n)
           /\ FilesInv'
           /\ files'[file_store][Len(files'[file_store])].record = {}
           /\ files'[file_store][Len(files'[file_store])].store = NoCounts
  BY SaveInUse, PairAdded, PairAddedFilesInv DEF Saves

\* A change of the last pair under the path in use that lists blocks of the save
\* under way, if any, and leaves its store or gives it the counts being saved.
LEMMA LastPair ==
    ASSUME IInv, DInv, main \in Saves \ {"create_store"}, NEW p \in FilePair, LastBecomes(p),
           p.record \subseteq saving.record,
           \A b \in p.record : p.store[file_store][b] = 1 \/ p.failed,
           p.store = files[file_store][Current].store \/ p.store = saving.store
    PROVE  /\ files'[file_store][Len(files'[file_store])] = p
           /\ \A n \in Node :
                Recorded(n)' = IF n = file_store THEN Recorded(n) \cup p.record ELSE Recorded(n)
           /\ FilesInv'
  <1>1. SavingIsNew /\ FilesInv /\ PairInUse /\ files[file_store][Current].record = {}
    BY SaveInUse
  <1>2. FilesInv'
    BY <1>1, PairReplacedFilesInv
  <1>. QED
    BY <1>1, <1>2, PairReplaced

\* A step inside save, before the record is written.
LEMMA SaveFrame ==
    ASSUME IInv, DInv, SaveStep, main \in Saves, main' \in Saves \ {"create_store"},
           UNCHANGED <<static_record, static_store, file_store, initial_record, saving>>,
           \A n \in Node : Recorded(n)' = Recorded(n),
           FilesInv', CurrentInv'
    PROVE  DInv'
  <1>1. UNCHANGED <<thread_vars, pool_vars, within, node, block>>
    BY DEF SaveStep
  <1>2. file_store \in Node
    BY DEF IInv, ControlInv
  <1>3. BusyBlocks' = BusyBlocks /\ Unmerged' = Unmerged
    BY <1>1 DEF BusyBlocks, Unmerged, thread_vars, pool_vars
  <1>4. Recorded(file_store)' = Recorded(file_store)
    BY <1>2 DEF Recorded
  <1>5. Merged' = Merged
    BY <1>4 DEF Merged
  <1>6. /\ Assigning' = Assigning
        /\ main \notin {"notify", "insert"} /\ main' \notin {"notify", "insert"}
    BY <1>1 DEF Assigning, Saves
  <1>7. JobInv'
    BY <1>1 DEF DInv, JobInv, thread_vars
  <1>8. MemoryInv'
    BY <1>1, <1>3 DEF DInv, MemoryInv, Saves
  <1>9. PlaceInv' /\ CoverInv'
    BY <1>1, <1>3, <1>4, <1>5, <1>6 DEF DInv, PlaceInv, CoverInv
  <1>10. FreshInv'
    <2>1. main' \notin {"fill", "flush_ready", "dispatch", "notify", "insert"}
      BY DEF Saves
    <2>. QED
      BY <1>1, <1>4, <1>6, <2>1 DEF DInv, FreshInv
  <1>11. NodeInv'
    BY <1>1, <1>6 DEF DInv, NodeInv, Saves
  <1>12. ShutdownInv'
    BY <1>1 DEF DInv, ShutdownInv, thread_vars, Saves
  <1>. QED
    BY <1>7, <1>8, <1>9, <1>10, <1>11, <1>12 DEF DInv

\* The pair save is working on, as the record it is.
LEMMA CurrentPair ==
    ASSUME IInv, DInv, main \in Saves \ {"create_store"}
    PROVE  /\ file_store \in Node
           /\ files[file_store] \in Seq(FilePair)
           /\ Current \in DOMAIN files[file_store]
           /\ files[file_store][Current] \in FilePair
           /\ files[file_store][Current].record = {}
           /\ saving.record \subseteq Block /\ saving.store \in Counts
  <1>1. file_store \in Node /\ files[file_store] # <<>>
    BY DEF IInv, ControlInv, Saves
  <1>2. files[file_store] \in Seq(FilePair)
    BY <1>1, DataTypes
  <1>3. Current \in DOMAIN files[file_store]
    BY <1>1, <1>2 DEF Current
  <1>4. files[file_store][Current] \in FilePair
    BY <1>2, <1>3
  <1>5. files[file_store][Current].record = {}
    BY DEF DInv, CurrentInv
  <1>. QED
    BY <1>1, <1>2, <1>3, <1>4, <1>5 DEF IInv, TypeOK, FileStoreTypeOK, Saving

LEMMA CreateStoreData ==
    ASSUME IInv, DInv, SaveStep, main = "create_store"
    PROVE  DInv' /\ \A n \in Node : Recorded(n)' = Recorded(n)
  <1>1. /\ CreateStoreFile /\ main' = "write_store"
        /\ UNCHANGED <<static_record, static_store, file_store, initial_record, saving>>
    BY DEF SaveStep, CreateStoreFile
  <1>2. CurrentInv'
    BY <1>1, NewPair DEF CurrentInv, Current
  <1>. QED
    BY <1>1, <1>2, NewPair, SaveFrame DEF Saves

\* A step that changes the last pair, and neither its record nor the save.
LEMMA LastPairData ==
    ASSUME IInv, DInv, SaveStep, main \in {"write_store", "create_record"},
           main' \in {"create_record", "write_record"}, NEW p \in FilePair,
           LastBecomes(p),
           UNCHANGED <<static_record, static_store, file_store, initial_record, saving>>,
           p.record = {},
           p.store = files[file_store][Current].store \/ p.store = saving.store,
           p.store = saving.store \/ p.failed
    PROVE  DInv' /\ \A n \in Node : Recorded(n)' = Recorded(n)
  <1>1. /\ main \in Saves \ {"create_store"} /\ main' \in Saves \ {"create_store"}
        /\ main' # "write_store"
    BY DEF Saves
  <1>2. /\ files'[file_store][Len(files'[file_store])] = p
        /\ \A n \in Node :
             Recorded(n)' = IF n = file_store THEN Recorded(n) \cup p.record ELSE Recorded(n)
        /\ FilesInv'
    BY <1>1, LastPair
  <1>3. CurrentInv'
    BY <1>1, <1>2 DEF CurrentInv, Current
  <1>4. \A n \in Node : Recorded(n)' = Recorded(n)
    BY <1>2
  <1>. QED
    BY <1>1, <1>2, <1>3, <1>4, SaveFrame

LEMMA WriteStoreData ==
    ASSUME IInv, DInv, SaveStep, main = "write_store"
    PROVE  DInv' /\ \A n \in Node : Recorded(n)' = Recorded(n)
  <1>. DEFINE old == files[file_store][Current]
  <1>1. main \in Saves \ {"create_store"}
    BY DEF Saves
  <1>2. /\ file_store \in Node /\ files[file_store] \in Seq(FilePair)
        /\ Current \in DOMAIN files[file_store]
        /\ old \in FilePair /\ old.record = {} /\ saving.store \in Counts
        /\ files \in [Node -> Seq(FilePair)]
    BY <1>1, CurrentPair, DataTypes
  <1>3. /\ main' = "create_record"
        /\ WriteStoreFile \/ FailStoreFile
    BY DEF SaveStep
  <1>4. CASE WriteStoreFile
    <2>. DEFINE p == [old EXCEPT !.store = saving.store]
    <2>1. /\ p \in FilePair /\ p.record = {} /\ p.store = saving.store
      BY <1>2 DEF FilePair
    <2>2. /\ LastBecomes(p)
          /\ UNCHANGED <<static_record, static_store, file_store, initial_record, saving>>
      BY <1>2, <1>4 DEF WriteStoreFile, LastBecomes
    <2>. HIDE DEF p
    <2>. QED
      BY <1>3, <2>1, <2>2, LastPairData
  <1>5. CASE FailStoreFile
    <2>. DEFINE p == [old EXCEPT !.failed = TRUE]
    <2>1. /\ p \in FilePair /\ p.record = {} /\ p.store = old.store /\ p.failed
      BY <1>2 DEF FilePair
    <2>2. /\ LastBecomes(p)
          /\ UNCHANGED <<static_record, static_store, file_store, initial_record, saving>>
      BY <1>2, <1>5 DEF FailStoreFile, LastBecomes
    <2>. HIDE DEF p
    <2>. QED
      BY <1>3, <2>1, <2>2, LastPairData
  <1>. QED
    BY <1>3, <1>4, <1>5

LEMMA CreateRecordData ==
    ASSUME IInv, DInv, SaveStep, main = "create_record"
    PROVE  DInv' /\ \A n \in Node : Recorded(n)' = Recorded(n)
  <1>. DEFINE old == files[file_store][Current]
              p == [old EXCEPT !.witness = TRUE]
  <1>1. main \in Saves \ {"create_store"}
    BY DEF Saves
  <1>2. /\ file_store \in Node /\ files[file_store] \in Seq(FilePair)
        /\ Current \in DOMAIN files[file_store]
        /\ old \in FilePair /\ old.record = {}
        /\ files \in [Node -> Seq(FilePair)]
    BY <1>1, CurrentPair, DataTypes
  <1>3. main' = "write_record" /\ CreateRecordFile
    BY DEF SaveStep
  <1>4. old.store = saving.store \/ old.failed
    BY <1>1 DEF DInv, CurrentInv
  <1>5. /\ p \in FilePair /\ p.record = {} /\ p.store = old.store /\ p.failed = old.failed
    BY <1>2 DEF FilePair
  <1>6. /\ LastBecomes(p)
        /\ UNCHANGED <<static_record, static_store, file_store, initial_record, saving>>
    BY <1>2, <1>3 DEF CreateRecordFile, LastBecomes
  <1>. HIDE DEF p
  <1>. QED
    BY <1>3, <1>4, <1>5, <1>6, LastPairData

\* A record of blocks of the save under way: what WriteRecordFile writes, and
\* what a crash during it leaves.
LEMMA RecordWritten ==
    ASSUME IInv, DInv, main = "write_record", NEW part \in SUBSET saving.record,
           files' = [files EXCEPT ![file_store][Current].record = part]
    PROVE  /\ \A n \in Node :
                Recorded(n)' = IF n = file_store THEN Recorded(n) \cup part ELSE Recorded(n)
           /\ FilesInv'
  <1>. DEFINE old == files[file_store][Current]
              p == [old EXCEPT !.record = part]
  <1>1. main \in Saves \ {"create_store"}
    BY DEF Saves
  <1>2. /\ file_store \in Node /\ files[file_store] \in Seq(FilePair)
        /\ Current \in DOMAIN files[file_store]
        /\ old \in FilePair /\ saving.record \subseteq Block
        /\ files \in [Node -> Seq(FilePair)]
    BY <1>1, CurrentPair, DataTypes
  <1>3. old.store = saving.store \/ old.failed
    BY <1>1 DEF DInv, CurrentInv
  <1>4. p \in FilePair /\ p.record = part /\ p.store = old.store /\ p.failed = old.failed
    BY <1>2 DEF FilePair
  <1>5. LastBecomes(p)
    BY <1>2 DEF LastBecomes
  <1>6. saving.store = Once(file_store, saving.record)
    BY DEF DInv, MemoryInv
  <1>. HIDE DEF p
  <1>7. \A b \in p.record : p.store[file_store][b] = 1 \/ p.failed
    BY <1>2, <1>3, <1>4, <1>6 DEF Once
  <1>. QED
    BY <1>1, <1>4, <1>5, <1>7, LastPair

\* The blocks of the save are listed.
LEMMA WriteRecordData ==
    ASSUME IInv, DInv, SaveStep, main = "write_record"
    PROVE  DInv'
  <1>1. /\ files' = [files EXCEPT ![file_store][Current].record = saving.record]
        /\ saving' = NothingToSave
        /\ main' = AfterSave
        /\ UNCHANGED <<static_record, static_store, file_store, initial_record>>
        /\ UNCHANGED <<thread_vars, pool_vars, within, node, block>>
    BY DEF SaveStep, WriteRecordFile
  <1>2. /\ file_store \in Node /\ file_store # NoNode /\ main \in Saves
        /\ within \in {"update_config", "assign", "destructor"}
    BY DEF IInv, TypeOK, ControlInv, Saves, Node, NoNode
  <1>3. /\ main' \in {"configure", "contains", "shutdown"}
        /\ main' = "contains" <=> within = "assign"
        /\ main' = "shutdown" <=> within = "destructor"
    BY <1>1, <1>2 DEF AfterSave
  <1>4. /\ \A n \in Node : Recorded(n)' = IF n = file_store
                                          THEN Recorded(n) \cup saving.record ELSE Recorded(n)
        /\ FilesInv'
    BY <1>1, RecordWritten
  <1>5. Recorded(file_store)' = Recorded(file_store) \cup saving.record
    BY <1>1, <1>2, <1>4 DEF Recorded
  <1>6. saving'.record = {} /\ saving'.store = NoCounts
    BY <1>1 DEF NothingToSave
  <1>7. BusyBlocks' = BusyBlocks /\ Unmerged' = Unmerged
    BY <1>1 DEF BusyBlocks, Unmerged, thread_vars, pool_vars
  <1>8. Merged' = Merged
    BY <1>1, <1>5, <1>6 DEF Merged
  <1>9. Assigning' = Assigning
    BY <1>1, <1>2, <1>3 DEF Assigning, Saves
  <1>10. JobInv'
    BY <1>1 DEF DInv, JobInv, thread_vars
  <1>11. MemoryInv'
    BY <1>1, <1>2, <1>3, <1>6, <1>7, OnceEmpty DEF DInv, MemoryInv, Saves
  <1>12. PlaceInv'
    BY <1>1, <1>2, <1>5, <1>6, <1>7, <1>8 DEF DInv, PlaceInv
  <1>13. CoverInv'
    BY <1>1, <1>2, <1>3, <1>7, <1>8 DEF DInv, CoverInv
  <1>14. FreshInv'
    BY <1>1, <1>2, <1>3, <1>5, <1>6, <1>9 DEF DInv, FreshInv, Saves
  <1>15. CurrentInv'
    BY <1>3 DEF CurrentInv, Saves
  <1>16. NodeInv'
    <2>1. \A m \in Node : m < file_store => m # file_store
      BY <1>2 DEF Node
    <2>. QED
      BY <1>1, <1>2, <1>3, <1>4, <1>9, <2>1 DEF DInv, NodeInv, Saves
  <1>17. ShutdownInv'
    BY <1>1, <1>3 DEF DInv, ShutdownInv, thread_vars
  <1>. QED
    BY <1>4, <1>10, <1>11, <1>12, <1>13, <1>14, <1>15, <1>16, <1>17 DEF DInv

-----------------------------------------------------------------------------
(* The owner: a new node, and assigning a block                            *)

\* Between two nodes and at the end no thread has a block.
LEMMA AssignedEmpty ==
    ASSUME IInv, main \notin {"notify", "insert"}, assigned_blocks = {}
    PROVE  BusyBlocks = {}
  BY DEF IInv, AssignedInv, BeingAssigned

LEMMA NoWork ==
    ASSUME IInv, BusyBlocks = {}
    PROVE  \A t \in Thread : /\ blocks[t] = <<>> /\ pc[t] \notin {"pop", "count", "report"}
                             /\ \A b \in Block : ~ Holds(t, b)
  <1>. SUFFICES ASSUME NEW t \in Thread
                PROVE  /\ blocks[t] = <<>> /\ pc[t] \notin {"pop", "count", "report"}
                       /\ \A b \in Block : ~ Holds(t, b)
    OBVIOUS
  <1>1. \A b \in Block : ~ Holds(t, b)
    BY ThreadAssumption DEF IInv, OwnerInv, BusyBlocks
  <1>2. blocks[t] = <<>>
    <2>. SUFFICES ASSUME NEW j \in Job, blocks[t] = <<j>> PROVE FALSE
      BY DEF IInv, QueueInv
    <2>1. j.block \in Block
      BY DEF Job
    <2>. QED
      BY <1>1, <2>1, HoldsSingle
  <1>3. pc[t] \notin {"pop", "count", "report"}
    <2>1. pc[t] \in {"count", "report"} => job[t].block \in Block
      BY DEF IInv, QueueInv, Job
    <2>. QED
      BY <1>1, <1>2, <2>1 DEF Holds, IInv, QueueInv
  <1>. QED
    BY <1>1, <1>2, <1>3

\* The node that was in use is complete when the next one is taken into use.
LEMMA ConfigureData ==
    ASSUME IInv, DInv, Configure
    PROVE  DInv'
  <1>1. /\ main = "configure" /\ main' = "iterate" /\ block' = 1
        /\ file_store' = node /\ initial_record' = Recorded(node)
        /\ UNCHANGED <<pool_vars, within, node, static_record, static_store, files, saving,
                       shutting_down, blocks, pc, job, call>>
    BY DEF Configure, OpenFileStore, UpdateTables
  <1>2. node \in Node /\ node # NoNode /\ Node \subseteq Nat
    BY <1>1 DEF IInv, ControlInv, Node, NoNode
  <1>3. BusyBlocks = {}
    BY <1>1, AssignedEmpty DEF IInv, AssignedInv
  <1>4. BusyBlocks' = {} /\ Unmerged' = {} /\ Unmerged = {}
    BY <1>1, <1>3 DEF BusyBlocks, Unmerged, pool_vars
  <1>5. static_record = {} /\ saving = NothingToSave /\ saving.record = {}
    BY <1>1 DEF DInv, MemoryInv, Saves, NothingToSave
  <1>6. \A n : Recorded(n)' = Recorded(n)
    BY <1>1 DEF Recorded
  <1>7. Merged' = Recorded(node)
    BY <1>1, <1>5, <1>6 DEF Merged
  <1>8. JobInv'
    <2>1. \A t \in Thread : blocks[t] = <<>> /\ pc[t] \notin {"count", "report"}
      BY <1>3, NoWork
    <2>. QED
      BY <1>1, <2>1 DEF JobInv
  <1>9. MemoryInv'
    BY <1>1, <1>2, <1>4, <1>5, OnceEmpty DEF DInv, MemoryInv, Saves, NothingToSave
  <1>10. PlaceInv'
    BY <1>1, <1>4, <1>5 DEF PlaceInv
  <1>11. CoverInv'
    BY <1>1, <1>4 DEF CoverInv, Block
  <1>12. FreshInv'
    BY <1>1, <1>5, <1>6 DEF FreshInv
  <1>13. CurrentInv'
    BY <1>1 DEF CurrentInv, Saves
  <1>14. NodeInv'
    <2>1. ASSUME NEW m \in Node, m < node
          PROVE  Recorded(m) = Block
      <3>1. /\ file_store # NoNode /\ file_store \in Node
            /\ node = file_store + 1 /\ block = NbBlocks + 1
        <4>1. ~ Assigning
          BY <1>1 DEF Assigning, Saves
        <4>2. file_store = NoNode => node = 1
          BY <4>1 DEF DInv, NodeInv, NoNode
        <4>3. file_store # NoNode
          BY <1>2, <2>1, <4>2 DEF Node
        <4>. QED
          BY <4>1, <4>3, DataTypes DEF DInv, NodeInv
      <3>2. CASE m < file_store
        BY <3>2 DEF DInv, NodeInv
      <3>3. CASE m = file_store
        <4>1. \A b \in Block : b \in Recorded(file_store)
          BY <1>4, <1>5, <3>1, ConfigAssumption DEF DInv, CoverInv, Merged, Block
        <4>. QED
          BY <3>1, <3>3, <4>1, DataTypes
      <3>. QED
        BY <1>2, <2>1, <3>1, <3>2, <3>3
    <2>2. Assigning'
      BY <1>1 DEF Assigning
    <2>. QED
      BY <1>1, <1>6, <2>1, <2>2 DEF NodeInv, Saves
  <1>15. ShutdownInv'
    BY <1>1 DEF DInv, ShutdownInv
  <1>. QED
    BY <1>1, <1>8, <1>9, <1>10, <1>11, <1>12, <1>13, <1>14, <1>15, FilesFrame DEF DInv

\* The block that the iterator stands at goes to a thread.
LEMMA DispatchData ==
    ASSUME IInv, DInv, Dispatch
    PROVE  DInv'
  <1>1. /\ main = "dispatch" /\ main' = "notify"
        /\ UNCHANGED <<store_vars, within, node, block>>
    BY DEF Dispatch
  <1>2. PICK t \in Thread :
             /\ blocks[t] = <<>>
             /\ pc[t] \notin {"pop", "count", "report"}
             /\ \A b \in Block : busy_threads[b] # t
             /\ busy_threads' = [busy_threads EXCEPT ![block] = t]
             /\ AssignPush(t, block)
    BY DispatchThread
  <1>. DEFINE j == [block |-> block, node |-> tables[t]]
  <1>3. /\ call = Returned /\ call' # Returned
        /\ blocks' = [blocks EXCEPT ![t] = <<j>>]
        /\ UNCHANGED <<shutting_down, pc, job>>
    BY <1>2 DEF AssignPush, Returned
  <1>4. /\ block \in Block /\ file_store \in Node /\ file_store # NoNode
        /\ tables[t] = file_store
        /\ t # Nobody
    BY <1>1, <1>2, ThreadAssumption DEF IInv, ControlInv, Assigning, Node, NoNode
  <1>5. j.node = file_store
    BY <1>4
  <1>. HIDE DEF j
  <1>6. /\ BusyBlocks' = BusyBlocks \cup {block}
        /\ Unmerged' = Unmerged \cup {block}
    <2>1. \A b \in Block : busy_threads'[b] = IF b = block THEN t ELSE busy_threads[b]
      BY <1>2, <1>4 DEF IInv, TypeOK, ThreadPoolTypeOK
    <2>2. BusyBlocks' = BusyBlocks \cup {block}
      BY <1>4, <2>1 DEF BusyBlocks
    <2>3. block \notin BusyBlocks \/ pc[busy_threads[block]] # "report"
      <3>1. block \notin BusyBlocks
        BY <1>1, <1>4, ConfigAssumption DEF IInv, AssignedInv, BeingAssigned, Block
      <3>. QED
        BY <3>1
    <2>. QED
      BY <1>2, <1>3, <1>4, <2>1, <2>2, <2>3 DEF Unmerged, BusyBlocks
  <1>7. \A n : Recorded(n)' = Recorded(n)
    BY <1>1 DEF Recorded, store_vars
  <1>8. Merged' = Merged
    BY <1>1, <1>7 DEF Merged, store_vars
  <1>9. block \notin Merged
    BY <1>1, <1>4 DEF DInv, FreshInv, Assigning, Merged
  <1>10. JobInv'
    <2>1. \A u \in Thread : blocks'[u] = IF u = t THEN <<j>> ELSE blocks[u]
      BY <1>3 DEF IInv, TypeOK, ThreadTypeOK
    <2>2. \A k : <<j>> = <<k>> => k = j
      OBVIOUS
    <2>. QED
      BY <1>1, <1>3, <1>5, <2>1, <2>2 DEF DInv, JobInv, store_vars
  <1>11. MemoryInv'
    BY <1>1, <1>4 DEF DInv, MemoryInv, Saves, store_vars
  <1>12. PlaceInv'
    BY <1>1, <1>4, <1>6, <1>7, <1>8, <1>9 DEF DInv, PlaceInv, store_vars
  <1>13. CoverInv'
    BY <1>1, <1>4, <1>6, <1>8 DEF DInv, CoverInv, store_vars
  <1>14. FreshInv'
    BY <1>1, <1>7 DEF DInv, FreshInv, Assigning, store_vars
  <1>15. CurrentInv'
    BY <1>1 DEF CurrentInv, Saves
  <1>16. NodeInv'
    BY <1>1, <1>7 DEF DInv, NodeInv, Assigning, Saves, store_vars
  <1>17. ShutdownInv'
    <2>1. \A u \in Thread : ~ (call \in [at : {"notify_all", "join"}, thread : {u}])
      BY <1>3 DEF Returned
    <2>. QED
      BY <1>1, <1>3, <2>1 DEF DInv, ShutdownInv
  <1>. QED
    BY <1>1, <1>10, <1>11, <1>12, <1>13, <1>14, <1>15, <1>16, <1>17, FilesFrame
       DEF DInv, store_vars

\* A notification changes no block's place.
LEMMA WakeData ==
    ASSUME IInv, NEW t \in Thread, Wake(t)
    PROVE  \A u \in Thread :
             /\ pc'[u] \in {"count", "report"} <=> pc[u] \in {"count", "report"}
             /\ pc'[u] = "report" <=> pc[u] = "report"
             /\ pc[u] = "exited" => pc'[u] = "exited"
  <1>1. pc' = IF pc[t] = "waiting" THEN [pc EXCEPT ![t] = "check"] ELSE pc
    BY DEF Wake
  <1>2. pc \in [Thread -> PC]
    BY DEF IInv, TypeOK, ThreadTypeOK
  <1>. QED
    BY <1>1, <1>2

LEMMA NotifyAssignedData ==
    ASSUME IInv, DInv, NotifyAssigned
    PROVE  DInv'
  <1>1. /\ main = "notify" /\ main' = "insert"
        /\ UNCHANGED <<pool_vars, store_vars, within, node, block, shutting_down, blocks, job>>
        /\ call' = Returned /\ call.at = "notify_one"
        /\ Wake(call.thread)
    BY DEF NotifyAssigned, NotifyOne
  <1>2. /\ call.thread \in Thread
        /\ file_store \in Node /\ file_store # NoNode
    BY <1>1 DEF IInv, TypeOK, ThreadTypeOK, Returned, ControlInv, Assigning, Node, NoNode
  <1>3. \A u \in Thread :
          /\ pc'[u] \in {"count", "report"} <=> pc[u] \in {"count", "report"}
          /\ pc'[u] = "report" <=> pc[u] = "report"
          /\ pc[u] = "exited" => pc'[u] = "exited"
    BY <1>1, <1>2, WakeData
  <1>4. BusyBlocks' = BusyBlocks /\ Unmerged' = Unmerged
    <2>1. \A b \in BusyBlocks : busy_threads[b] \in Thread /\ busy_threads'[b] = busy_threads[b]
      BY <1>1 DEF BusyBlocks, IInv, TypeOK, ThreadPoolTypeOK, pool_vars
    <2>2. BusyBlocks' = BusyBlocks
      BY <1>1 DEF BusyBlocks, pool_vars
    <2>. QED
      BY <1>3, <2>1, <2>2 DEF Unmerged
  <1>5. \A n : Recorded(n)' = Recorded(n)
    BY <1>1 DEF Recorded, store_vars
  <1>6. Merged' = Merged
    BY <1>1, <1>5 DEF Merged, store_vars
  <1>7. JobInv'
    BY <1>1, <1>3 DEF DInv, JobInv, store_vars
  <1>8. MemoryInv'
    BY <1>1, <1>4 DEF DInv, MemoryInv, Saves, store_vars
  <1>9. PlaceInv'
    BY <1>1, <1>4, <1>5, <1>6 DEF DInv, PlaceInv, store_vars
  <1>10. CoverInv'
    <2>1. block \in BusyBlocks
      BY <1>1 DEF IInv, AssignedInv
    <2>. QED
      BY <1>1, <1>2, <1>4, <1>6, <2>1 DEF DInv, CoverInv, store_vars
  <1>11. FreshInv'
    BY <1>1, <1>5 DEF DInv, FreshInv, Assigning, store_vars
  <1>12. CurrentInv'
    BY <1>1 DEF CurrentInv, Saves
  <1>13. NodeInv'
    BY <1>1, <1>5 DEF DInv, NodeInv, Assigning, Saves, store_vars
  <1>14. ShutdownInv'
    <2>1. \A u \in Thread : ~ (call \in [at : {"notify_all", "join"}, thread : {u}])
      BY <1>1
    <2>. QED
      BY <1>1, <1>3, <2>1 DEF DInv, ShutdownInv
  <1>. QED
    BY <1>1, <1>7, <1>8, <1>9, <1>10, <1>11, <1>12, <1>13, <1>14, FilesFrame
       DEF DInv, store_vars

LEMMA InsertData ==
    ASSUME IInv, DInv, Insert
    PROVE  DInv'
  <1>1. /\ main = "insert" /\ main' = "iterate" /\ block' = block + 1
        /\ UNCHANGED <<thread_vars, pool_vars, store_vars, within, node>>
    BY DEF Insert
  <1>2. /\ block \in Block /\ Block \subseteq Nat
        /\ file_store \in Node /\ file_store # NoNode
    BY <1>1 DEF IInv, ControlInv, Assigning, Node, NoNode, Block
  <1>3. BusyBlocks' = BusyBlocks /\ Unmerged' = Unmerged
    BY <1>1 DEF BusyBlocks, Unmerged, thread_vars, pool_vars
  <1>4. \A n : Recorded(n)' = Recorded(n)
    BY <1>1 DEF Recorded, store_vars
  <1>5. Merged' = Merged
    BY <1>1, <1>4 DEF Merged, store_vars
  <1>6. JobInv'
    BY <1>1 DEF DInv, JobInv, thread_vars, store_vars
  <1>7. MemoryInv'
    BY <1>1, <1>3 DEF DInv, MemoryInv, Saves, store_vars
  <1>8. PlaceInv'
    BY <1>1, <1>3, <1>4, <1>5 DEF DInv, PlaceInv, store_vars
  <1>9. CoverInv'
    <2>1. \A b \in Block : b < block' => b < block \/ b = block
      BY <1>1, <1>2
    <2>. QED
      BY <1>1, <1>2, <1>3, <1>5, <2>1 DEF DInv, CoverInv, store_vars
  <1>10. FreshInv'
    <2>1. \A b \in Block : b > block' \/ b = block' => b > block
      BY <1>1, <1>2
    <2>. QED
      BY <1>1, <1>4, <2>1 DEF DInv, FreshInv, Assigning, store_vars
  <1>11. CurrentInv'
    BY <1>1 DEF CurrentInv, Saves
  <1>12. NodeInv'
    BY <1>1, <1>4 DEF DInv, NodeInv, Assigning, Saves, store_vars
  <1>13. ShutdownInv'
    BY <1>1 DEF DInv, ShutdownInv, thread_vars
  <1>. QED
    BY <1>1, <1>6, <1>7, <1>8, <1>9, <1>10, <1>11, <1>12, <1>13, FilesFrame
       DEF DInv, store_vars

-----------------------------------------------------------------------------
(* The owner: shutdown                                                     *)

LEMMA ShutdownData ==
    ASSUME IInv, DInv, Shutdown
    PROVE  DInv'
  <1>1. /\ main = "shutdown" /\ main' \in {"shutdown", "exited"}
        /\ UNCHANGED <<pool_vars, store_vars, within, node, block, blocks, job>>
    BY DEF Shutdown, thread_vars, ShutdownFlag, NotifyAll, Join
  <1>2. BusyBlocks = {} /\ BusyBlocks' = {}
    BY <1>1, AssignedEmpty DEF IInv, AssignedInv, BusyBlocks, pool_vars
  <1>3. Unmerged' = Unmerged
    BY <1>2 DEF Unmerged
  <1>4. \A n : Recorded(n)' = Recorded(n)
    BY <1>1 DEF Recorded, store_vars
  <1>5. Merged' = Merged
    BY <1>1, <1>4 DEF Merged, store_vars
  <1>6. JobInv'
    <2>1. \A t \in Thread : blocks[t] = <<>> /\ pc[t] \notin {"count", "report"}
      BY <1>2, NoWork
    <2>2. ASSUME NEW t \in Thread PROVE pc'[t] \notin {"count", "report"}
      <3>1. CASE UNCHANGED pc
        BY <2>1, <3>1
      <3>2. ASSUME NEW u \in Thread, NotifyAll(u)
            PROVE  pc'[t] \notin {"count", "report"}
        BY <2>1, <3>2, WakeData DEF NotifyAll
      <3>. QED
        BY <3>1, <3>2 DEF Shutdown, ShutdownFlag, Join, thread_vars
    <2>. QED
      BY <1>1, <2>1, <2>2 DEF JobInv
  <1>7. MemoryInv'
    BY <1>1, <1>2 DEF DInv, MemoryInv, Saves, store_vars
  <1>8. PlaceInv'
    BY <1>1, <1>3, <1>4, <1>5 DEF DInv, PlaceInv, store_vars
  <1>9. CoverInv'
    BY <1>1, <1>2, <1>3, <1>5 DEF DInv, CoverInv, store_vars
  <1>10. FreshInv' /\ CurrentInv'
    BY <1>1 DEF FreshInv, Assigning, CurrentInv, Saves
  <1>11. NodeInv'
    BY <1>1, <1>4 DEF DInv, NodeInv, Assigning, Saves, store_vars
  <1>12. ShutdownInv'
    <2>1. ASSUME NEW t \in Thread, ShutdownFlag(t), main' = main
          PROVE  ShutdownInv'
      <3>1. call = Returned /\ pc' = pc /\ call' = [at |-> "notify_all", thread |-> t]
        BY <2>1 DEF ShutdownFlag
      <3>2. \A u \in Thread : u # t => shutting_down'[u] = shutting_down[u]
        BY <2>1 DEF ShutdownFlag, IInv, TypeOK, ThreadTypeOK
      <3>3. \A u \in Thread : shutting_down[u] => pc[u] = "exited"
        BY <3>1 DEF DInv, ShutdownInv, Returned
      <3>. QED
        BY <1>1, <2>1, <3>1, <3>2, <3>3 DEF ShutdownInv
    <2>2. ASSUME NEW t \in Thread, NotifyAll(t), main' = main
          PROVE  ShutdownInv'
      <3>1. /\ call = [at |-> "notify_all", thread |-> t] /\ Wake(t)
            /\ call' = [at |-> "join", thread |-> t] /\ UNCHANGED shutting_down
        BY <2>2 DEF NotifyAll
      <3>2. \A u \in Thread : pc[u] = "exited" => pc'[u] = "exited"
        BY <3>1, WakeData
      <3>3. \A u \in Thread : shutting_down[u] => pc[u] = "exited" \/ u = t
        BY <3>1 DEF DInv, ShutdownInv
      <3>. QED
        BY <1>1, <2>2, <3>1, <3>2, <3>3 DEF ShutdownInv
    <2>3. ASSUME NEW t \in Thread, Join(t), main' = main
          PROVE  ShutdownInv'
      <3>1. /\ call = [at |-> "join", thread |-> t] /\ pc[t] = "exited"
            /\ UNCHANGED <<pc, shutting_down>>
        BY <2>3 DEF Join
      <3>2. \A u \in Thread : shutting_down[u] => pc[u] = "exited" \/ u = t
        BY <3>1 DEF DInv, ShutdownInv
      <3>. QED
        BY <1>1, <2>3, <3>1, <3>2 DEF ShutdownInv
    <2>4. CASE /\ call = Returned /\ main' = "exited" /\ UNCHANGED thread_vars
               /\ \A t \in Thread : shutting_down[t]
      BY <2>4 DEF DInv, ShutdownInv, thread_vars
    <2>. QED
      BY <2>1, <2>2, <2>3, <2>4 DEF Shutdown
  <1>. QED
    BY <1>1, <1>6, <1>7, <1>8, <1>9, <1>10, <1>11, <1>12, FilesFrame DEF DInv, store_vars

-----------------------------------------------------------------------------
(* Crashes, and the invariant                                              *)

\* Torn or not, the files keep what they promise.
LEMMA CrashFiles ==
    ASSUME IInv, DInv, TornFiles
    PROVE  /\ FilesInv'
           /\ \/ \A n \in Node : Recorded(n)' = Recorded(n)
              \/ /\ main = "write_record" /\ file_store \in Node
                 /\ \E part \in SUBSET saving.record : \A n \in Node :
                      Recorded(n)' = IF n = file_store THEN Recorded(n) \cup part
                                                       ELSE Recorded(n)
  <1>1. CASE main # "write_record"
    BY <1>1, FilesFrame DEF TornFiles
  <1>2. CASE main = "write_record"
    <2>1. PICK part \in SUBSET saving.record :
             files' = [files EXCEPT ![file_store][Current].record = part]
      BY <1>2 DEF TornFiles
    <2>2. file_store \in Node
      BY <1>2 DEF IInv, ControlInv, Saves
    <2>. QED
      BY <1>2, <2>1, <2>2, RecordWritten
  <1>. QED
    BY <1>1, <1>2

LEMMA CrashDInv ==
    ASSUME IInv, DInv, Crash
    PROVE  DInv'
  <1>1. Started'
    BY CrashStarted
  <1>2. FilesInv'
    BY CrashFiles DEF Crash
  <1>3. (Started /\ FilesInv => DInv)'
    BY StartedDInv, PTL
  <1>. QED
    BY <1>1, <1>2, <1>3

LEMMA StutterDInv ==
    ASSUME IInv, DInv, UNCHANGED vars
    PROVE  DInv'
  <1>1. UNCHANGED <<store_vars, main_vars, shutting_down, call, blocks, pc, job, pool_vars>>
    BY DEF vars, thread_vars
  <1>2. BusyBlocks' = BusyBlocks /\ Unmerged' = Unmerged
    BY <1>1 DEF BusyBlocks, Unmerged, pool_vars
  <1>3. JobInv'
    BY <1>1 DEF DInv, JobInv, store_vars
  <1>. QED
    BY <1>1, <1>2, <1>3, WorkerFrame

LEMMA MainDInv ==
    ASSUME IInv, IInv', DInv, MainStep
    PROVE  DInv'
  <1>1. CASE SaveStep
    <2>1. main \in Saves
      BY <1>1 DEF SaveStep, Saves
    <2>. QED
      BY <1>1, <2>1, CreateStoreData, WriteStoreData, CreateRecordData, WriteRecordData
         DEF Saves
  <1>. QED
    BY <1>1, NextNodeData, PollData, SaveGlobalStoresData, ConfigureData, EndOfNodeData,
       EnterAssignData, CheckContainsData, DispatchData,
       NotifyAssignedData, InsertData, ShutdownData
       DEF MainStep

LEMMA NextDInv == IInv /\ IInv' /\ DInv /\ [Next]_vars => DInv'
  <1>. SUFFICES ASSUME IInv, IInv', DInv, [Next]_vars PROVE DInv'
    OBVIOUS
  <1>1. CASE MainStep
    BY <1>1, MainDInv
  <1>2. ASSUME NEW t \in Thread, WorkerStep(t) \/ Wakeup(t)
        PROVE  DInv'
    BY <1>2, WorkerDInv
  <1>3. CASE Crash
    BY <1>3, CrashDInv
  <1>4. CASE UNCHANGED vars
    BY <1>4, StutterDInv
  <1>. QED
    BY <1>1, <1>2, <1>3, <1>4 DEF Next, Terminating

\* The bookkeeping, the memory and the files agree in every reachable state.
THEOREM DInvAlways == Spec => [](IInv /\ DInv)
  BY InitIInv, InitDInv, NextIInv, NextDInv, PTL DEF Spec

-----------------------------------------------------------------------------
(* What follows from it                                                    *)

\* No block is listed by two records of a node, over all runs of the program, so
\* that a block that was recorded is not counted again (standalone.cc 81-83,
\* file_store.cc 37-57).
THEOREM NoBlockRecordedTwice == Spec => []RecordsDisjoint
  <1>1. DInv => RecordsDisjoint
    BY DEF DInv, FilesInv
  <1>. QED
    BY <1>1, DInvAlways, PTL

\* The counts of every listed block are in the store of the same id, once, unless
\* the write of that store had an error (file_store.cc 60-74).
THEOREM RecordsAreWitnesses == Spec => []RecordedIsStored
  <1>1. DInv => RecordedIsStored
    BY DEF DInv, FilesInv
  <1>. QED
    BY <1>1, DInvAlways, PTL

\* No store that is written after a record has listed a block has counts of it
\* (standalone.cc 81-83 and 161-171, store.cc 92-111).
THEOREM NotCountedAgain == Spec => []RecordedIsNotCountedAgain
  <1>1. DInv => RecordedIsNotCountedAgain
    BY DEF DInv, FilesInv
  <1>. QED
    BY <1>1, DInvAlways, PTL

\* When the program has ended, the records of every node that it accepted list
\* all blocks, and every thread has returned (threaded.cc 136-149 with the
\* destructor, standalone.cc 34-48).
THEOREM CompleteAtExit == Spec => []AllRecordedAtExit
  <1>1. ASSUME IInv, DInv, main = "exited"
        PROVE  (\A n \in Reached : Recorded(n) = Block) /\ \A t \in Thread : pc[t] = "exited"
    <2>1. BusyBlocks = {} /\ Unmerged = {}
      BY <1>1, AssignedEmpty DEF IInv, AssignedInv, Unmerged
    <2>2. static_record = {} /\ saving.record = {}
      BY <1>1 DEF DInv, MemoryInv, Saves, NothingToSave
    <2>3. node \in 1 .. NbNodes + 1 /\ node \notin Node \ BadNode /\ ~ Assigning
      BY <1>1 DEF IInv, TypeOK, DInv, NodeInv, Assigning, Saves
    <2>4. ASSUME NEW n \in Reached
          PROVE  Recorded(n) = Block
      <3>1. n \in Node /\ n \in 1 .. NbNodes /\ \A m \in 1 .. n : m \notin BadNode
        BY <2>4 DEF Reached, Node
      <3>2. n < node
        <4>1. node <= n => node \in Node \ BadNode
          BY <2>3, <3>1, ConfigAssumption DEF Node
        <4>. QED
          BY <2>3, <3>1, <4>1, ConfigAssumption
      <3>3. /\ file_store \in Node /\ file_store # NoNode
            /\ node = file_store + 1 /\ block = NbBlocks + 1
        <4>1. file_store # NoNode
          BY <1>1, <2>3, <3>1, <3>2 DEF DInv, NodeInv
        <4>. QED
          BY <1>1, <2>3, <4>1, DataTypes DEF DInv, NodeInv
      <3>4. CASE n < file_store
        BY <1>1, <3>1, <3>4 DEF DInv, NodeInv
      <3>5. CASE n = file_store
        <4>1. \A b \in Block : b \in Recorded(file_store)
          BY <1>1, <2>1, <2>2, <3>3, ConfigAssumption DEF DInv, CoverInv, Merged, Block
        <4>. QED
          BY <1>1, <3>3, <3>5, <4>1, DataTypes
      <3>. QED
        BY <3>1, <3>2, <3>3, <3>4, <3>5 DEF Node
    <2>5. \A t \in Thread : pc[t] = "exited"
      BY <1>1 DEF DInv, ShutdownInv, Returned
    <2>. QED
      BY <2>4, <2>5
  <1>2. IInv /\ DInv => AllRecordedAtExit
    BY <1>1 DEF AllRecordedAtExit
  <1>. QED
    BY <1>2, DInvAlways, PTL

\* Nothing is in memory where a node or the program ends.
LEMMA AtRest ==
    ASSUME IInv, DInv, main \in {"configure", "shutdown", "exited"}
    PROVE  /\ \A t \in Thread, b \in Block : ~ Holds(t, b)
           /\ static_record = {} /\ static_store = NoCounts
           /\ saving = NothingToSave
  <1>1. BusyBlocks = {}
    BY AssignedEmpty DEF IInv, AssignedInv
  <1>. QED
    BY <1>1, NoWork, OnceEmpty DEF DInv, MemoryInv, Saves

\* A FileStore is replaced, and the program ends, only when no thread holds a
\* block and everything that was merged is saved (standalone.cc 51-71).
THEOREM MemoryEmptyBetweenNodes == Spec => NothingLeftBehind
  <1>. DEFINE Leaves == file_store' \notin {file_store, NoNode} \/ main' = "exited"
              Rest == /\ \A t \in Thread, b \in Block : ~ Holds(t, b)
                      /\ static_record = {} /\ static_store = NoCounts
                      /\ saving = NothingToSave
  <1>1. ASSUME IInv, DInv, Next, Leaves
        PROVE  main \in {"configure", "shutdown", "exited"}
    <2>1. CASE UNCHANGED <<main, file_store>>
      BY <1>1, <2>1
    <2>2. CASE MainStep
      <3>1. CASE Configure \/ Shutdown
        BY <3>1 DEF Configure, Shutdown
      <3>2. CASE SaveGlobalStores \/ SaveStep
        BY <1>1, <3>2 DEF SaveGlobalStores, SaveStep, AfterSave, store_vars, FlushStaticStore,
             CreateStoreFile, WriteStoreFile, FailStoreFile, CreateRecordFile, WriteRecordFile,
             IInv, TypeOK
      <3>3. CASE \/ NextNode \/ WaitForAssignedBlocks \/ EndOfNode \/ EnterAssign
                 \/ CheckContains \/ FillFinished \/ FillReady \/ Dispatch
                 \/ NotifyAssigned \/ Insert
        BY <1>1, <3>3 DEF NextNode, WaitForAssignedBlocks, EndOfNode, EnterAssign,
             CheckContains, FillFinished, FillReady, Dispatch, NotifyAssigned, Insert, store_vars
      <3>. QED
        BY <2>2, <3>1, <3>2, <3>3 DEF MainStep
    <2>3. ASSUME NEW t \in Thread, WorkerStep(t) \/ Wakeup(t)
          PROVE  UNCHANGED <<main, file_store>>
      BY <2>3 DEF WorkerStep, ThreadOnly, CountAndFlush, FlushToStaticStore, Report, Wakeup,
                  store_vars, main_vars
    <2>4. CASE Crash
      BY <1>1, <2>4 DEF Crash
    <2>5. CASE Terminating
      BY <1>1, <2>5 DEF Terminating, vars, store_vars, main_vars
    <2>. QED
      BY <1>1, <2>1, <2>2, <2>3, <2>4, <2>5 DEF Next
  <1>2. IInv /\ DInv /\ [Next]_vars => [Leaves => Rest]_vars
    BY <1>1, AtRest
  <1>. QED
    BY <1>2, DInvAlways, PTL DEF Spec, NothingLeftBehind

-----------------------------------------------------------------------------
(* The records implement PointCount                                        *)

\* Which step lists blocks: the end of a save, and a crash during it.
LEMMA RecordedSteps ==
    ASSUME IInv, DInv, [Next]_vars
    PROVE  \/ \A n \in Node : Recorded(n)' = Recorded(n)
           \/ /\ main = "write_record" /\ file_store \in Node
              /\ \E part \in SUBSET saving.record : \A n \in Node :
                   Recorded(n)' = IF n = file_store THEN Recorded(n) \cup part
                                                    ELSE Recorded(n)
  <1>1. CASE UNCHANGED files
    BY <1>1 DEF Recorded
  <1>2. CASE SaveStep
    <2>1. CASE main = "write_record"
      <3>1. files' = [files EXCEPT ![file_store][Current].record = saving.record]
        BY <1>2, <2>1 DEF SaveStep, WriteRecordFile
      <3>2. file_store \in Node
        BY <2>1 DEF IInv, ControlInv, Saves
      <3>. QED
        BY <2>1, <3>1, <3>2, RecordWritten
    <2>. QED
      BY <1>2, <2>1, CreateStoreData, WriteStoreData, CreateRecordData DEF SaveStep
  <1>3. CASE Crash
    BY <1>3, CrashFiles DEF Crash
  <1>4. CASE \/ NextNode \/ WaitForAssignedBlocks \/ SaveGlobalStores \/ Configure
             \/ EndOfNode \/ EnterAssign \/ CheckContains \/ FillFinished \/ FillReady
             \/ Dispatch \/ NotifyAssigned \/ Insert \/ Shutdown
    <2>1. UNCHANGED files
      BY <1>4 DEF NextNode, WaitForAssignedBlocks, SaveGlobalStores, FlushStaticStore,
                  Configure, OpenFileStore, EndOfNode, EnterAssign, CheckContains, FillFinished,
                  FillReady, Dispatch, NotifyAssigned, Insert, Shutdown, store_vars
    <2>. QED
      BY <1>1, <2>1
  <1>5. ASSUME NEW t \in Thread, WorkerStep(t) \/ Wakeup(t)
        PROVE  UNCHANGED files
    BY <1>5 DEF WorkerStep, ThreadOnly, CountAndFlush, FlushToStaticStore, Report, Wakeup,
                store_vars
  <1>6. CASE UNCHANGED vars
    BY <1>1, <1>6 DEF vars, store_vars
  <1>. QED
    BY <1>1, <1>2, <1>3, <1>4, <1>5, <1>6 DEF Next, MainStep, Terminating

\* A save lists blocks that were not listed, for the first node that is not
\* complete.
LEMMA NewBatch ==
    ASSUME IInv, DInv, main = "write_record", NEW part \in SUBSET saving.record
    PROVE  /\ part \in SUBSET (Block \ Recorded(file_store))
           /\ \A m \in 1 .. file_store - 1 : Recorded(m) = Block
  <1>1. file_store \in Node /\ file_store # NoNode /\ saving.record \subseteq Block
    BY DataTypes DEF IInv, ControlInv, Saves, Node, NoNode
  <1>2. saving.record \cap Recorded(file_store) = {}
    BY <1>1 DEF DInv, PlaceInv
  <1>3. \A m \in 1 .. file_store - 1 : m \in Node /\ m < file_store
    BY <1>1, ConfigAssumption DEF Node
  <1>. QED
    BY <1>1, <1>2, <1>3 DEF DInv, NodeInv

\* The program implements what it promises of the records, with any number of
\* threads, saves at any time, crashes and torn records (standalone.cc 79-98 and
\* 161-171, file_store.cc 37-74).
THEOREM ImplementsPointCount == Spec => Promise
  <1>. DEFINE recorded == [n \in Node |-> Recorded(n)]
  <1>. Abstract!Node = Node /\ Abstract!Block = Block
    BY DEF Abstract!Node, Abstract!Block, Node, Block
  <1>1. Init => Abstract!Init
    <2>1. Init => \A n \in Node : Recorded(n) = {}
      BY DEF Init, FileStoreInit, Recorded
    <2>. QED
      BY <2>1 DEF Abstract!Init
  <1>2. IInv /\ DInv /\ [Next]_vars => [Abstract!Next]_recorded
    <2>. SUFFICES ASSUME IInv, DInv, [Next]_vars
                  PROVE  Abstract!Next \/ recorded' = recorded
      OBVIOUS
    <2>1. CASE \A n \in Node : Recorded(n)' = Recorded(n)
      BY <2>1
    <2>2. ASSUME main = "write_record", file_store \in Node, NEW part \in SUBSET saving.record,
                 \A n \in Node : Recorded(n)' = IF n = file_store THEN Recorded(n) \cup part
                                                                  ELSE Recorded(n)
          PROVE  Abstract!Next \/ recorded' = recorded
      <3>1. CASE part = {}
        BY <2>2, <3>1
      <3>2. CASE part # {}
        <4>1. /\ part \in SUBSET (Block \ recorded[file_store])
              /\ \A m \in 1 .. file_store - 1 : recorded[m] = Block
          <5>1. \A m \in 1 .. file_store - 1 : m \in Node
            BY <2>2, ConfigAssumption DEF Node
          <5>. QED
            BY <2>2, <5>1, NewBatch
        <4>2. recorded' = [recorded EXCEPT ![file_store] = @ \cup part]
          BY <2>2
        <4>3. Abstract!Record(file_store)
          BY <3>2, <4>1, <4>2 DEF Abstract!Record
        <4>. QED
          BY <2>2, <4>3 DEF Abstract!Next
      <3>. QED
        BY <3>1, <3>2
    <2>. QED
      BY <2>1, <2>2, RecordedSteps
  <1>. QED
    BY <1>1, <1>2, DInvAlways, PTL DEF Spec, Promise, Abstract!Spec

-----------------------------------------------------------------------------
(* The pairs while nothing crashes                                         *)

InHand(n, i) == main \in Saves \ {"create_store"} /\ n = file_store /\ i = Current

\* Without a crash a pair that has a record, and is not being saved, is complete, unless
\* the write of its store had an error; no write has one on a disk without errors.
PairsInv ==
    /\ crashes = 0 =>
         \A n \in Node : \A i \in DOMAIN files[n] :
            files[n][i].witness /\ ~ InHand(n, i) =>
                Complete(n, files[n][i]) \/ files[n][i].failed
    /\ ~ FaultyDisk => \A n \in Node : \A i \in DOMAIN files[n] : ~ files[n][i].failed

\* A step that is not one of save.
LEMMA PairsFrame ==
    ASSUME PairsInv, UNCHANGED <<files, crashes>>,
           UNCHANGED <<main, file_store>> \/ (main \notin Saves \ {"create_store"}
                                              /\ main' \notin Saves \ {"create_store"})
    PROVE  PairsInv'
  <1>1. \A n, i : InHand(n, i)' <=> InHand(n, i)
    BY DEF InHand, Current
  <1>. QED
    BY <1>1 DEF PairsInv, Complete

LEMMA NewPairPairs ==
    ASSUME IInv, DInv, PairsInv, SaveStep, main = "create_store", UNCHANGED crashes
    PROVE  PairsInv'
  <1>. DEFINE old == files[file_store]
              new == files'[file_store]
  <1>1. CreateStoreFile /\ main' = "write_store" /\ UNCHANGED file_store
    BY DEF SaveStep, CreateStoreFile
  <1>2. file_store \in Node /\ files \in [Node -> Seq(FilePair)]
    BY SaveInUse DEF Saves
  <1>3. /\ \A n \in Node : n # file_store => files'[n] = files[n]
        /\ DOMAIN new = 1 .. Len(old) + 1 /\ Len(new) = Len(old) + 1
        /\ DOMAIN old = 1 .. Len(old) /\ Len(old) \in Nat
        /\ \A i \in DOMAIN old : new[i] = old[i]
        /\ ~ new[Len(new)].witness /\ ~ new[Len(new)].failed
    BY <1>1, <1>2, PairAdded
  <1>4. ASSUME NEW n \in Node, NEW i \in DOMAIN files'[n]
        PROVE  \/ i \in DOMAIN files[n] /\ files'[n][i] = files[n][i] /\ ~ InHand(n, i)
               \/ ~ files'[n][i].witness /\ ~ files'[n][i].failed
    <2>1. ~ InHand(n, i)
      BY DEF InHand
    <2>2. CASE n # file_store
      BY <1>3, <2>1, <2>2
    <2>3. CASE n = file_store /\ i = Len(new)
      BY <1>3, <2>3
    <2>4. CASE n = file_store /\ i # Len(new)
      BY <1>3, <2>1, <2>4
    <2>. QED
      BY <2>2, <2>3, <2>4
  <1>. QED
    BY <1>4 DEF PairsInv, Complete

\* A change of the pair that save is working on.
LEMMA LastPairPairs ==
    ASSUME IInv, DInv, PairsInv, main \in Saves \ {"create_store"}, NEW p \in FilePair,
           LastBecomes(p),
           p.failed => FaultyDisk \/ files[file_store][Current].failed,
           \/ crashes' # 0
           \/ /\ UNCHANGED <<crashes, file_store>>
              /\ main' \in Saves \ {"create_store"} \/ Complete(file_store, p) \/ p.failed
    PROVE  PairsInv'
  <1>. DEFINE old == files[file_store]
              new == files'[file_store]
              c == Len(old)
  <1>1. PairInUse /\ files[file_store][Current].record \subseteq p.record
    BY SaveInUse
  <1>2. /\ \A n \in Node : n # file_store => files'[n] = files[n]
        /\ DOMAIN new = DOMAIN old /\ Len(new) = c /\ c \in DOMAIN old
        /\ \A i \in DOMAIN old : i # c => new[i] = old[i]
        /\ new[c] = p
    BY <1>1, PairReplaced
  <1>3. ASSUME NEW n \in Node, NEW i \in DOMAIN files'[n], ~ (n = file_store /\ i = c)
        PROVE  i \in DOMAIN files[n] /\ files'[n][i] = files[n][i] /\ ~ InHand(n, i)
    BY <1>2, <1>3 DEF InHand, Current
  <1>4. ASSUME ~ FaultyDisk, NEW n \in Node, NEW i \in DOMAIN files'[n]
        PROVE  ~ files'[n][i].failed
    <2>1. CASE n = file_store /\ i = c
      BY <1>2, <1>4, <2>1 DEF PairsInv, Current
    <2>2. CASE ~ (n = file_store /\ i = c)
      BY <1>3, <1>4, <2>2 DEF PairsInv
    <2>. QED
      BY <2>1, <2>2
  <1>5. ASSUME crashes' = 0, NEW n \in Node, NEW i \in DOMAIN files'[n], files'[n][i].witness,
               ~ InHand(n, i)'
        PROVE  Complete(n, files'[n][i]) \/ files'[n][i].failed
    <2>1. CASE n = file_store /\ i = c
      <3>1. main' \notin Saves \ {"create_store"}
        BY <1>2, <1>5, <2>1 DEF InHand, Current
      <3>. QED
        BY <1>2, <1>5, <2>1, <3>1
    <2>2. CASE ~ (n = file_store /\ i = c)
      BY <1>3, <1>5, <2>2 DEF PairsInv
    <2>. QED
      BY <2>1, <2>2
  <1>. QED
    BY <1>4, <1>5 DEF PairsInv, Complete

LEMMA SavePairs ==
    ASSUME IInv, DInv, PairsInv, SaveStep, UNCHANGED crashes
    PROVE  PairsInv'
  <1>. DEFINE old == files[file_store][Current]
  <1>1. CASE main = "create_store"
    BY <1>1, NewPairPairs
  <1>2. CASE main # "create_store"
    <2>1. main \in Saves \ {"create_store"} /\ UNCHANGED file_store
      BY <1>2 DEF SaveStep, Saves, CreateStoreFile, WriteStoreFile, FailStoreFile,
                  CreateRecordFile, WriteRecordFile
    <2>2. PairInUse /\ old.record = {} /\ SavingIsNew
      BY <2>1, SaveInUse
    <2>3. old \in FilePair
      BY <2>2, LastPairSteps
    <2>4. CASE WriteStoreFile /\ main' = "create_record"
      <3>1. PICK p : p = [old EXCEPT !.store = saving.store]
        OBVIOUS
      <3>2. p \in FilePair /\ LastBecomes(p)
        BY <2>2, <2>4, <3>1, LastPairSteps
      <3>3. p.record = old.record /\ p.failed = old.failed
        BY <2>3, <3>1 DEF FilePair
      <3>. QED
        BY <2>1, <2>4, <3>2, <3>3, LastPairPairs DEF Saves
    <2>5. CASE FaultyDisk /\ FailStoreFile /\ main' = "create_record"
      <3>1. PICK p : p = [old EXCEPT !.failed = TRUE]
        OBVIOUS
      <3>2. p \in FilePair /\ LastBecomes(p)
        BY <2>2, <2>5, <3>1, LastPairSteps
      <3>3. p.record = old.record
        BY <2>3, <3>1 DEF FilePair
      <3>. QED
        BY <2>1, <2>5, <3>2, <3>3, LastPairPairs DEF Saves
    <2>6. CASE CreateRecordFile /\ main' = "write_record"
      <3>1. PICK p : p = [old EXCEPT !.witness = TRUE]
        OBVIOUS
      <3>2. p \in FilePair /\ LastBecomes(p)
        BY <2>2, <2>6, <3>1, LastPairSteps
      <3>3. p.record = old.record /\ p.failed = old.failed
        BY <2>3, <3>1 DEF FilePair
      <3>. QED
        BY <2>1, <2>6, <3>2, <3>3, LastPairPairs DEF Saves
    <2>7. CASE main = "write_record" /\ WriteRecordFile
      <3>1. PICK p : p = [old EXCEPT !.record = saving.record]
        OBVIOUS
      <3>2. files' = [files EXCEPT ![file_store][Current].record = saving.record]
        BY <2>7 DEF WriteRecordFile
      <3>3. p \in FilePair /\ LastBecomes(p)
        BY <2>2, <3>1, <3>2, LastPairSteps
      <3>4. p.record = saving.record /\ p.failed = old.failed /\ p.store = old.store
        BY <2>3, <3>1 DEF FilePair
      <3>5. old.store = saving.store \/ old.failed
        BY <2>1, <2>7 DEF DInv, CurrentInv
      <3>6. Complete(file_store, p) \/ p.failed
        BY <2>2, <3>4, <3>5 DEF Complete, SavingIsNew
      <3>. QED
        BY <2>1, <2>2, <3>3, <3>4, <3>6, LastPairPairs
    <2>. QED
      BY <1>2, <2>4, <2>5, <2>6, <2>7 DEF SaveStep
  <1>. QED
    BY <1>1, <1>2

LEMMA CrashPairs ==
    ASSUME IInv, DInv, PairsInv, Crash
    PROVE  PairsInv'
  <1>. DEFINE old == files[file_store][Current]
  <1>1. crashes' # 0
    BY DEF Crash, IInv, TypeOK
  <1>2. CASE main # "write_record"
    <2>1. UNCHANGED files
      BY <1>2 DEF Crash, TornFiles
    <2>. QED
      BY <1>1, <2>1 DEF PairsInv
  <1>3. CASE main = "write_record"
    <2>1. PICK part \in SUBSET saving.record :
             files' = [files EXCEPT ![file_store][Current].record = part]
      BY <1>3 DEF Crash, TornFiles
    <2>2. main \in Saves \ {"create_store"}
      BY <1>3 DEF Saves
    <2>3. PairInUse /\ old.record = {}
      BY <2>2, SaveInUse
    <2>4. PICK p : p = [old EXCEPT !.record = part]
      OBVIOUS
    <2>5. p \in FilePair /\ LastBecomes(p) /\ old \in FilePair
      BY <2>1, <2>3, <2>4, LastPairSteps
    <2>6. p.failed = old.failed
      BY <2>4, <2>5 DEF FilePair
    <2>. QED
      BY <1>1, <2>2, <2>3, <2>5, <2>6, LastPairPairs
  <1>. QED
    BY <1>2, <1>3

LEMMA NextPairs == IInv /\ DInv /\ PairsInv /\ [Next]_vars => PairsInv'
  <1>. SUFFICES ASSUME IInv, DInv, PairsInv, [Next]_vars PROVE PairsInv'
    OBVIOUS
  <1>1. CASE MainStep
    <2>1. UNCHANGED crashes
      BY <1>1 DEF MainStep
    <2>2. CASE SaveStep
      BY <2>1, <2>2, SavePairs
    <2>3. CASE \/ NextNode \/ WaitForAssignedBlocks \/ SaveGlobalStores \/ Configure
               \/ EndOfNode \/ EnterAssign \/ CheckContains \/ FillFinished \/ FillReady
               \/ Dispatch \/ NotifyAssigned \/ Insert \/ Shutdown
      <3>1. UNCHANGED files
        BY <2>3 DEF NextNode, WaitForAssignedBlocks, SaveGlobalStores, FlushStaticStore,
                    Configure, OpenFileStore, EndOfNode, EnterAssign, CheckContains,
                    FillFinished, FillReady, Dispatch, NotifyAssigned, Insert, Shutdown, store_vars
      <3>2. main \notin Saves \ {"create_store"} /\ main' \notin Saves \ {"create_store"}
        BY <2>3 DEF NextNode, WaitForAssignedBlocks, SaveGlobalStores, AfterSave,
                    Configure, EndOfNode, EnterAssign, CheckContains,
                    FillFinished, FillReady, Dispatch, NotifyAssigned,
                    Insert, Shutdown, Saves, IInv, TypeOK
      <3>. QED
        BY <2>1, <3>1, <3>2, PairsFrame
    <2>. QED
      BY <1>1, <2>2, <2>3 DEF MainStep
  <1>2. ASSUME NEW t \in Thread, WorkerStep(t) \/ Wakeup(t)
        PROVE  UNCHANGED <<files, file_store, main, crashes>>
    BY <1>2 DEF WorkerStep, ThreadOnly, CountAndFlush, FlushToStaticStore, Report, Wakeup,
                store_vars, main_vars
  <1>3. CASE Crash
    BY <1>3, CrashPairs
  <1>4. CASE UNCHANGED vars
    <2>1. UNCHANGED <<files, file_store, main, crashes>>
      BY <1>4 DEF vars, store_vars, main_vars
    <2>. QED
      BY <2>1, PairsFrame
  <1>. QED
    BY <1>1, <1>2, <1>3, <1>4, PairsFrame DEF Next, Terminating

\* Until a crash, and on a disk without errors, a store that has a record holds the
\* counts of exactly the blocks of that record, each once, whatever the threads
\* merged while the saves went on (file_store.cc 60-74, store.cc 69-111).  With an error
\* of the disk it need not: the state of the stream is not looked at.
THEOREM PairsCompleteUntilCrash ==
    Spec => [](crashes = 0 /\ ~ FaultyDisk => WitnessedPairsComplete)
  <1>1. Init => PairsInv
    BY DEF Init, FileStoreInit, PairsInv
  <1>2. ASSUME PairsInv, crashes = 0, ~ FaultyDisk PROVE WitnessedPairsComplete
    <2>1. \A n, i : InHand(n, i) => BeingWritten(n, i)
      BY DEF InHand, BeingWritten
    <2>. QED
      BY <1>2, <2>1 DEF PairsInv, WitnessedPairsComplete
  <1>3. PairsInv => (crashes = 0 /\ ~ FaultyDisk => WitnessedPairsComplete)
    BY <1>2
  <1>. QED
    BY <1>1, <1>3, DInvAlways, NextPairs, PTL DEF Spec
=============================================================================
