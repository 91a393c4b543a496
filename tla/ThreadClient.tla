---------------------------- MODULE ThreadClient ----------------------------
(***************************************************************************)
(* The threads of module Thread with a caller that uses them as freely as  *)
(* their interface allows: it assigns a block to any thread at any time,   *)
(* also to one that is still working (ThreadPool hands out only idle       *)
(* threads), changes the tables between two calls of assign, and in the    *)
(* end shuts the threads down one by one, as ThreadPool::shutdown_threads  *)
(* does.  "assigned" and "counted" record what the threads were given and  *)
(* what they have worked on.                                               *)
(***************************************************************************)
EXTENDS Thread, FiniteSets

CONSTANT MaxAssigned    \* bound: the jobs given to a thread

VARIABLES assigned,     \* per thread: the jobs, in the order of assign
          counted       \* per thread: the jobs, in the order of counting

vars == <<thread_vars, assigned, counted>>

Init ==
    /\ ThreadInit
    /\ assigned = [t \in Thread |-> <<>>]
    /\ counted = [t \in Thread |-> <<>>]

ThreadStep(t) ==
    \/ (ReadState(t) \/ EnterWait(t) \/ PopFront(t) \/ ReportBlock(t))
       /\ UNCHANGED <<assigned, counted>>
    \/ /\ CountBlock(t)
       /\ counted' = [counted EXCEPT ![t] = Append(@, job[t])]
       /\ UNCHANGED assigned

CallAssign ==
    \E t \in Thread, block \in Block :
        /\ \A u \in Thread : ~ shutting_down[u]
        /\ tables[t] # NoNode
        /\ Len(assigned[t]) < MaxAssigned
        /\ AssignPush(t, block)
        /\ assigned' = [assigned EXCEPT ![t] =
                          Append(@, [block |-> block, node |-> tables[t]])]
        /\ UNCHANGED counted

CallUpdateConfig ==
    \E node \in Node :
        /\ \A t \in Thread : ~ shutting_down[t] /\ tables[t] # node
        /\ UpdateTables(node)
        /\ UNCHANGED <<assigned, counted>>

CallShutdown ==
    \E t \in Thread :
        /\ ~ shutting_down[t]
        /\ ShutdownFlag(t)
        /\ UNCHANGED <<assigned, counted>>

\* The steps of the caller inside a method it has called.
CallerStep ==
    \E t \in Thread :
        /\ NotifyOne(t) \/ NotifyAll(t) \/ Join(t)
        /\ UNCHANGED <<assigned, counted>>

Wakeup ==
    \E t \in Thread : SpuriousWakeup(t) /\ UNCHANGED <<assigned, counted>>

\* Every thread has been joined.
Terminating ==
    /\ call = Returned
    /\ \A t \in Thread : shutting_down[t]
    /\ UNCHANGED vars

Next ==
    \/ \E t \in Thread : ThreadStep(t)
    \/ CallAssign
    \/ CallUpdateConfig
    \/ CallShutdown
    \/ CallerStep
    \/ Wakeup
    \/ Terminating

\* The scheduler runs every thread that is not blocked.  Nothing forces the
\* caller to call, and nothing forces a spurious wakeup.
Fairness ==
    /\ \A t \in Thread : WF_vars(ThreadStep(t))
    /\ WF_vars(CallerStep)

Spec == Init /\ [][Next]_vars /\ Fairness

-----------------------------------------------------------------------------
TypeOK ==
    /\ ThreadTypeOK
    /\ assigned \in [Thread -> Seq(Job)]
    /\ counted \in [Thread -> Seq(Job)]

InHand(t) == IF pc[t] = "count" THEN <<job[t]>> ELSE <<>>

\* The queue loses, repeats and reorders nothing: what a thread has counted,
\* what it holds and what is queued is what it was given, in order, and each
\* job with the tables that were current when it was assigned, even when
\* update_config has replaced them since (thread.cc 80-92, 121-132).
CountedInOrder ==
    \A t \in Thread : assigned[t] = counted[t] \o InHand(t) \o blocks[t]

\* main_thread acts on copies it read before it unlocked data_mutex.  The copy
\* "not empty" is never stale: the queue still has a front when it is taken
\* (80-83), otherwise front() of an empty deque is undefined.
FrontExists == \A t \in Thread : pc[t] = "pop" => blocks[t] # <<>>

\* A job that is queued is taken from the queue, unless its notification was
\* lost or the thread was told to shut down first.
PoppedUnlessWakeupLost ==
    \A t \in Thread :
        (blocks[t] # <<>>) ~> \/ blocks[t] = <<>>
                              \/ pc[t] = "exited"
                              \/ WakeupLost(t)

\* shutdown returns, unless its notification was lost (38-48).
ShutdownReturnsUnlessWakeupLost ==
    \A t \in Thread :
        (call = [at |-> "join", thread |-> t]) ~>
            \/ call = Returned
            \/ WakeupLost(t)

=============================================================================
