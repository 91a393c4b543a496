------------------------------- MODULE Thread -------------------------------
(***************************************************************************)
(* The worker threads of src/src/threaded/thread.cc: the queue of a        *)
(* thread, its flag shutting_down, and the protocol on main_cond_var       *)
(* between main_thread and the methods assign and shutdown.                *)
(*                                                                         *)
(* Every section of the code that holds data_mutex is a single action: it  *)
(* contains no wait, and the state it protects is touched nowhere else     *)
(* while the thread runs.  main_mutex is held by main_thread from its      *)
(* first statement on, except inside wait, and nobody else ever locks it,  *)
(* so it excludes nothing: the test of the queue and the wait are two      *)
(* actions, and a notification can fall between them.                      *)
(*                                                                         *)
(* One caller, the thread that owns the pool, calls assign and shutdown;   *)
(* "call" is its position inside the method it is in.                      *)
(***************************************************************************)
EXTENDS Config, Sequences

CONSTANT Thread       \* the Thread objects of a pool

\* What stands for a thread that no method is running on.
Nobody == "nobody"

ASSUME ThreadAssumption == Nobody \notin Thread

\* An entry of the queue: the block with the tables current at the time of
\* assign.  The tables are those of a configuration node; they are null
\* (NoNode) until the first update_config.
Job == [block : Block, node : Node]

VARIABLES
    shutting_down,  \* Thread::shutting_down
    blocks,         \* Thread::blocks
    tables,         \* Thread::fq_table and Thread::reduction_tables, as the
                    \* node they were made for
    pc,             \* where main_thread stands
    job,            \* main_thread's block, fq_table and reduction_tables
    call,           \* the caller's position in assign or shutdown
    missed          \* history, read by no step: the last notification came
                    \* when the thread stood between its test and its wait

thread_vars == <<shutting_down, blocks, tables, pc, job, call, missed>>

(***************************************************************************)
(*  pc:   "check"        61, before the flag and the queue are read        *)
(*        "before_wait"  65-70, has read an empty queue                    *)
(*        "waiting"      70, in the wait set of main_cond_var              *)
(*        "pop"          80, has read a nonempty queue                     *)
(*        "count"        86-92, the job is local, nothing is merged yet    *)
(*        "report"       96, merged into the static store, not reported    *)
(*        "exited"       67, main_thread has returned                      *)
(***************************************************************************)
PC == {"check", "before_wait", "waiting", "pop", "count", "report", "exited"}

\* Between two jobs: the locals of the loop's body are out of scope.
NoJob == [block |-> 0, node |-> NoNode]

Returned == [at |-> "returned", thread |-> Nobody]

ThreadTypeOK ==
    /\ shutting_down \in [Thread -> BOOLEAN]
    /\ blocks \in [Thread -> Seq(Job)]
    /\ tables \in [Thread -> Node \cup {NoNode}]
    /\ pc \in [Thread -> PC]
    /\ job \in [Thread -> Job \cup {NoJob}]
    /\ call \in [at : {"notify_one", "notify_all", "join"}, thread : Thread]
                  \cup {Returned}
    /\ missed \in [Thread -> BOOLEAN]

\* spark: the flag is reset and main_thread started.
ThreadInit ==
    /\ shutting_down = [t \in Thread |-> FALSE]
    /\ blocks = [t \in Thread |-> <<>>]
    /\ tables = [t \in Thread |-> NoNode]
    /\ pc = [t \in Thread |-> "check"]
    /\ job = [t \in Thread |-> NoJob]
    /\ call = Returned
    /\ missed = [t \in Thread |-> FALSE]

-----------------------------------------------------------------------------
(* main_thread                                                             *)

\* Mutant: the flag is looked at only when there is a block to work on.
ReadState_flagLast(t) ==
    /\ pc[t] = "check"
    /\ pc' = [pc EXCEPT ![t] = IF blocks[t] = <<>> THEN "before_wait"
                               ELSE IF shutting_down[t] THEN "exited"
                               ELSE "pop"]
    /\ UNCHANGED <<shutting_down, blocks, tables, job, call, missed>>

\* 61-72: reads both under data_mutex and acts on the copies.
ReadState(t) ==
    /\ pc[t] = "check"
    /\ pc' = [pc EXCEPT ![t] = IF shutting_down[t] THEN "exited"
                               ELSE IF blocks[t] = <<>> THEN "before_wait"
                               ELSE "pop"]
    /\ UNCHANGED <<shutting_down, blocks, tables, job, call, missed>>

\* 70: wait is entered; only from here on does a notification reach the thread.
EnterWait(t) ==
    /\ pc[t] = "before_wait"
    /\ pc' = [pc EXCEPT ![t] = "waiting"]
    /\ UNCHANGED <<shutting_down, blocks, tables, job, call, missed>>

\* Mutant: "if" for the inner "while", the queue is not tested again.
SpuriousWakeup_noRetest(t) ==
    /\ pc[t] = "waiting"
    /\ pc' = [pc EXCEPT ![t] = "pop"]
    /\ missed' = [missed EXCEPT ![t] = FALSE]
    /\ UNCHANGED <<shutting_down, blocks, tables, job, call>>

\* 70: wait may return without a notification.
SpuriousWakeup(t) ==
    /\ pc[t] = "waiting"
    /\ pc' = [pc EXCEPT ![t] = "check"]
    /\ missed' = [missed EXCEPT ![t] = FALSE]
    /\ UNCHANGED <<shutting_down, blocks, tables, job, call>>

\* Mutant: counts with the tables the thread has by now, not with the queued.
PopFront_currentTables(t) ==
    /\ pc[t] = "pop"
    /\ job' = [job EXCEPT ![t] = [Head(blocks[t]) EXCEPT !.node = tables[t]]]
    /\ blocks' = [blocks EXCEPT ![t] = Tail(@)]
    /\ pc' = [pc EXCEPT ![t] = "count"]
    /\ UNCHANGED <<shutting_down, tables, call, missed>>

\* 80-84
PopFront(t) ==
    /\ pc[t] = "pop"
    /\ job' = [job EXCEPT ![t] = Head(blocks[t])]
    /\ blocks' = [blocks EXCEPT ![t] = Tail(@)]
    /\ pc' = [pc EXCEPT ![t] = "count"]
    /\ UNCHANGED <<shutting_down, tables, call, missed>>

\* 86-93 as far as the thread's own state goes: the curves of the block are
\* counted into a local store, which is then merged.
CountBlock(t) ==
    /\ pc[t] = "count"
    /\ pc' = [pc EXCEPT ![t] = "report"]
    /\ UNCHANGED <<shutting_down, blocks, tables, job, call, missed>>

\* 96-105 as far as the thread's own state goes.
ReportBlock(t) ==
    /\ pc[t] = "report"
    /\ job' = [job EXCEPT ![t] = NoJob]
    /\ pc' = [pc EXCEPT ![t] = "check"]
    /\ UNCHANGED <<shutting_down, blocks, tables, call, missed>>

-----------------------------------------------------------------------------
(* The methods, called by the owner of the pool                            *)

\* A notification moves a waiting thread on and has no effect on others: one
\* that has seen an empty queue but is not yet waiting misses it.
Wake(t) ==
    /\ pc' = IF pc[t] = "waiting" THEN [pc EXCEPT ![t] = "check"] ELSE pc
    /\ missed' = [missed EXCEPT ![t] = pc[t] = "before_wait"]

\* Mutant: the block is queued with null tables.
AssignPush_noTables(t, block) ==
    /\ call = Returned
    /\ blocks' = [blocks EXCEPT ![t] =
                    Append(@, [block |-> block, node |-> NoNode])]
    /\ call' = [at |-> "notify_one", thread |-> t]
    /\ UNCHANGED <<shutting_down, tables, pc, job, missed>>

\* assign, 127-129; the notification follows as a step of its own.
AssignPush(t, block) ==
    /\ call = Returned
    /\ blocks' = [blocks EXCEPT ![t] =
                    Append(@, [block |-> block, node |-> tables[t]])]
    /\ call' = [at |-> "notify_one", thread |-> t]
    /\ UNCHANGED <<shutting_down, tables, pc, job, missed>>

\* Mutant: assign returns without a notification.
NotifyOne_forgotten(t) ==
    /\ call = [at |-> "notify_one", thread |-> t]
    /\ call' = Returned
    /\ UNCHANGED <<shutting_down, blocks, tables, pc, job, missed>>

\* assign, 131
NotifyOne(t) ==
    /\ call = [at |-> "notify_one", thread |-> t]
    /\ Wake(t)
    /\ call' = Returned
    /\ UNCHANGED <<shutting_down, blocks, tables, job>>

\* shutdown, 42-44
ShutdownFlag(t) ==
    /\ call = Returned
    /\ shutting_down' = [shutting_down EXCEPT ![t] = TRUE]
    /\ call' = [at |-> "notify_all", thread |-> t]
    /\ UNCHANGED <<blocks, tables, pc, job, missed>>

\* shutdown, 46
NotifyAll(t) ==
    /\ call = [at |-> "notify_all", thread |-> t]
    /\ Wake(t)
    /\ call' = [at |-> "join", thread |-> t]
    /\ UNCHANGED <<shutting_down, blocks, tables, job>>

\* shutdown, 47: join blocks until main_thread has returned.
Join(t) ==
    /\ call = [at |-> "join", thread |-> t]
    /\ pc[t] = "exited"
    /\ call' = Returned
    /\ UNCHANGED <<shutting_down, blocks, tables, pc, job, missed>>

\* update_config of every thread (ThreadPool::update_config, 87-88).  It takes
\* no lock; main_thread never reads these members, assign does.
UpdateTables(node) ==
    /\ call = Returned
    /\ tables' = [t \in Thread |-> node]
    /\ UNCHANGED <<shutting_down, blocks, pc, job, call, missed>>

\* A thread sleeps on after a notification that it missed.
WakeupLost(t) == pc[t] = "waiting" /\ missed[t]
=============================================================================
