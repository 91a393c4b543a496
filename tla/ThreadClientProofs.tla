------------------------- MODULE ThreadClientProofs --------------------------
(***************************************************************************)
(* Proofs about ThreadClient: whatever the caller does, for any number of  *)
(* threads, jobs, blocks and nodes, the queue of a thread loses, repeats   *)
(* and reorders nothing and is not empty where its front is taken.         *)
(***************************************************************************)
EXTENDS ThreadClient, TLAPS, SequenceTheorems

\* What main_thread is about to count is a job.
JobInHand == \A t \in Thread : pc[t] = "count" => job[t] \in Job

\* The inductive invariant: a job is taken from a queue that is not empty, and
\* so what is taken is the first of what has been assigned and not counted.
IInv ==
    /\ TypeOK
    /\ JobInHand
    /\ FrontExists
    /\ CountedInOrder

-----------------------------------------------------------------------------
(* Sequences                                                               *)

\* What has been given is what is done, what is in hand and what is queued.
InOrder(given, done, hand, queue) == given = done \o hand \o queue

\* The front is taken in hand.
LEMMA TakeFront ==
    ASSUME NEW S, NEW given, NEW done \in Seq(S), NEW queue \in Seq(S), queue # <<>>,
           InOrder(given, done, <<>>, queue)
    PROVE  InOrder(given, done, <<Head(queue)>>, Tail(queue))
  <1>1. Head(queue) \in S /\ Tail(queue) \in Seq(S)
    BY HeadTailProperties
  <1>2. queue = <<Head(queue)>> \o Tail(queue)
    <2>1. Len(queue) \in Nat \ {0}
      BY EmptySeq
    <2>2. 1 \in 1 .. Len(queue) /\ Len(queue) \in 1 .. Len(queue)
      BY <2>1
    <2>3. SubSeq(queue, 1, Len(queue)) = <<queue[1]>> \o SubSeq(queue, 2, Len(queue))
      BY <2>2, SubSeqRecursiveFirst
    <2>. QED
      BY <2>3, SubSeqFull, TailIsSubSeq, HeadTailProperties
  <1>3. <<Head(queue)>> \in Seq(S)
    BY <1>1
  <1>. QED
    BY <1>1, <1>2, <1>3, ConcatEmptySeq, ConcatAssociative DEF InOrder

\* What is in hand is done.
LEMMA FinishInHand ==
    ASSUME NEW S, NEW given, NEW done \in Seq(S), NEW queue \in Seq(S), NEW e \in S,
           InOrder(given, done, <<e>>, queue)
    PROVE  InOrder(given, Append(done, e), <<>>, queue)
  <1>1. Append(done, e) \in Seq(S) /\ Append(done, e) = done \o <<e>>
    BY AppendProperties, AppendIsConcat
  <1>. QED
    BY <1>1, ConcatEmptySeq DEF InOrder

\* One more is given.
LEMMA GiveOneMore ==
    ASSUME NEW S, NEW given, NEW done \in Seq(S), NEW hand \in Seq(S), NEW queue \in Seq(S),
           NEW e \in S, InOrder(given, done, hand, queue)
    PROVE  InOrder(Append(given, e), done, hand, Append(queue, e))
  <1>1. done \o hand \in Seq(S) /\ done \o hand \o queue \in Seq(S) /\ <<e>> \in Seq(S)
    BY ConcatProperties
  <1>2. (done \o hand \o queue) \o <<e>> = (done \o hand) \o (queue \o <<e>>)
    BY <1>1, ConcatAssociative
  <1>. QED
    BY <1>1, <1>2, AppendIsConcat DEF InOrder

LEMMA CountedInOrderDef ==
    CountedInOrder <=> \A t \in Thread : InOrder(assigned[t], counted[t], InHand(t), blocks[t])
  BY DEF CountedInOrder, InOrder

-----------------------------------------------------------------------------
(* The invariant                                                           *)

LEMMA InHandType ==
    ASSUME JobInHand, NEW t \in Thread
    PROVE  InHand(t) \in Seq(Job)
  BY DEF JobInHand, InHand

\* A step that leaves the queues, the jobs in hand and both histories alone, and
\* brings no thread to where it takes or counts a job.
LEMMA Frame ==
    ASSUME IInv, ThreadTypeOK',
           UNCHANGED <<blocks, job, assigned, counted>>,
           \A t \in Thread : pc'[t] = "count" <=> pc[t] = "count",
           \A t \in Thread : pc'[t] = "pop" => pc[t] = "pop" \/ blocks[t] # <<>>
    PROVE  IInv'
  <1>1. TypeOK'
    BY DEF IInv, TypeOK
  <1>2. JobInHand' /\ FrontExists'
    BY DEF IInv, JobInHand, FrontExists
  <1>3. \A t \in Thread : InHand(t)' = InHand(t)
    BY DEF InHand
  <1>4. CountedInOrder'
    BY <1>3 DEF IInv, CountedInOrder
  <1>. QED
    BY <1>1, <1>2, <1>4 DEF IInv

LEMMA InitIInv == Init => IInv
  <1>. SUFFICES ASSUME Init PROVE IInv
    OBVIOUS
  <1>. USE DEF Init, ThreadInit
  <1>1. TypeOK
    BY DEF TypeOK, ThreadTypeOK, PC, Returned
  <1>2. JobInHand /\ FrontExists
    BY DEF JobInHand, FrontExists
  <1>3. CountedInOrder
    BY ConcatEmptySeq, EmptySeq DEF CountedInOrder, InHand
  <1>. QED
    BY <1>1, <1>2, <1>3 DEF IInv

LEMMA PopFrontIInv ==
    ASSUME IInv, NEW t \in Thread, PopFront(t), UNCHANGED <<assigned, counted>>
    PROVE  IInv'
  <1>. USE DEF PopFront
  <1>1. blocks \in [Thread -> Seq(Job)] /\ counted \in [Thread -> Seq(Job)]
    BY DEF IInv, TypeOK, ThreadTypeOK
  <1>2. blocks[t] \in Seq(Job) /\ blocks[t] # <<>>
    BY <1>1 DEF IInv, FrontExists
  <1>3. Head(blocks[t]) \in Job /\ Tail(blocks[t]) \in Seq(Job)
    BY <1>2, HeadTailProperties
  <1>4. TypeOK'
    BY <1>3 DEF IInv, TypeOK, ThreadTypeOK, PC
  <1>5. JobInHand' /\ FrontExists'
    BY <1>3 DEF IInv, TypeOK, ThreadTypeOK, JobInHand, FrontExists
  <1>6. ASSUME NEW u \in Thread
        PROVE  InOrder(assigned[u], counted[u], InHand(u), blocks[u])'
    <2>1. CASE u = t
      <3>1. InHand(u) = <<>> /\ InHand(u)' = <<Head(blocks[t])>>
        BY <2>1 DEF IInv, TypeOK, ThreadTypeOK, InHand
      <3>2. blocks'[u] = Tail(blocks[t])
        BY <2>1, <1>1
      <3>3. InOrder(assigned[t], counted[t], <<>>, blocks[t])
        BY <2>1, <3>1, CountedInOrderDef DEF IInv
      <3>4. InOrder(assigned[t], counted[t], <<Head(blocks[t])>>, Tail(blocks[t]))
        BY <1>1, <1>2, <3>3, TakeFront
      <3>. QED
        BY <2>1, <3>1, <3>2, <3>4
    <2>2. CASE u # t
      <3>1. InHand(u)' = InHand(u) /\ blocks'[u] = blocks[u]
        BY <2>2 DEF IInv, TypeOK, ThreadTypeOK, InHand
      <3>. QED
        BY <3>1, CountedInOrderDef DEF IInv
    <2>. QED
      BY <2>1, <2>2
  <1>. QED
    BY <1>4, <1>5, <1>6 DEF IInv, CountedInOrder, InOrder

LEMMA CountBlockIInv ==
    ASSUME IInv, NEW t \in Thread, CountBlock(t),
           counted' = [counted EXCEPT ![t] = Append(@, job[t])],
           UNCHANGED assigned
    PROVE  IInv'
  <1>. USE DEF CountBlock
  <1>1. blocks \in [Thread -> Seq(Job)] /\ counted \in [Thread -> Seq(Job)] /\ job[t] \in Job
    BY DEF IInv, TypeOK, ThreadTypeOK, JobInHand
  <1>2. TypeOK'
    BY <1>1, AppendProperties DEF IInv, TypeOK, ThreadTypeOK, PC
  <1>3. JobInHand' /\ FrontExists'
    BY DEF IInv, TypeOK, ThreadTypeOK, JobInHand, FrontExists
  <1>4. ASSUME NEW u \in Thread
        PROVE  InOrder(assigned[u], counted[u], InHand(u), blocks[u])'
    <2>1. CASE u = t
      <3>1. InHand(u) = <<job[t]>> /\ InHand(u)' = <<>> /\ counted'[u] = Append(counted[t], job[t])
        BY <1>1, <2>1 DEF IInv, TypeOK, ThreadTypeOK, InHand
      <3>2. InOrder(assigned[t], counted[t], <<job[t]>>, blocks[t])
        BY <2>1, <3>1, CountedInOrderDef DEF IInv
      <3>3. InOrder(assigned[t], Append(counted[t], job[t]), <<>>, blocks[t])
        BY <1>1, <3>2, FinishInHand
      <3>. QED
        BY <2>1, <3>1, <3>3
    <2>2. CASE u # t
      <3>1. InHand(u)' = InHand(u) /\ counted'[u] = counted[u]
        BY <1>1, <2>2 DEF IInv, TypeOK, ThreadTypeOK, InHand
      <3>. QED
        BY <3>1, CountedInOrderDef DEF IInv
    <2>. QED
      BY <2>1, <2>2
  <1>. QED
    BY <1>2, <1>3, <1>4 DEF IInv, CountedInOrder, InOrder

LEMMA AssignIInv == IInv /\ CallAssign => IInv'
  <1>. SUFFICES ASSUME IInv,
                       NEW t \in Thread, NEW block \in Block,
                       tables[t] # NoNode,
                       AssignPush(t, block),
                       assigned' = [assigned EXCEPT ![t] =
                                      Append(@, [block |-> block, node |-> tables[t]])],
                       UNCHANGED counted
                PROVE  IInv'
    BY DEF CallAssign
  <1>. DEFINE new == [block |-> block, node |-> tables[t]]
  <1>1. /\ blocks \in [Thread -> Seq(Job)] /\ counted \in [Thread -> Seq(Job)]
        /\ assigned \in [Thread -> Seq(Job)] /\ tables[t] \in Node
    BY DEF IInv, TypeOK, ThreadTypeOK
  <1>2. new \in Job
    BY <1>1 DEF Job
  <1>3. blocks' = [blocks EXCEPT ![t] = Append(@, new)] /\ UNCHANGED <<pc, job>>
    BY DEF AssignPush
  <1>4. assigned' = [assigned EXCEPT ![t] = Append(@, new)]
    OBVIOUS
  <1>. HIDE DEF new
  <1>5. blocks' \in [Thread -> Seq(Job)] /\ assigned' \in [Thread -> Seq(Job)]
    BY <1>1, <1>2, <1>3, <1>4, AppendProperties
  <1>6. TypeOK'
    BY <1>5 DEF IInv, TypeOK, ThreadTypeOK, AssignPush
  <1>7. JobInHand'
    BY <1>3 DEF IInv, JobInHand
  <1>8. FrontExists'
    <2>. blocks[t] \in Seq(Job)
      BY <1>1
    <2>1. Append(blocks[t], new) # <<>>
      BY <1>2, AppendProperties, Zenon
    <2>. QED
      BY <1>1, <1>3, <2>1 DEF IInv, FrontExists
  <1>9. ASSUME NEW u \in Thread
        PROVE  InOrder(assigned[u], counted[u], InHand(u), blocks[u])'
    <2>1. InHand(u)' = InHand(u) /\ InHand(u) \in Seq(Job)
      BY <1>3, InHandType DEF IInv, InHand
    <2>2. CASE u = t
      <3>1. InOrder(assigned[t], counted[t], InHand(t), blocks[t])
        BY CountedInOrderDef DEF IInv
      <3>2. InOrder(Append(assigned[t], new), counted[t], InHand(t), Append(blocks[t], new))
        BY <1>1, <1>2, <2>1, <2>2, <3>1, GiveOneMore
      <3>3. assigned'[t] = Append(assigned[t], new) /\ blocks'[t] = Append(blocks[t], new)
        BY <1>1, <1>3, <1>4
      <3>. QED
        BY <2>1, <2>2, <3>2, <3>3
    <2>3. CASE u # t
      <3>1. assigned'[u] = assigned[u] /\ blocks'[u] = blocks[u]
        BY <1>1, <1>3, <1>4, <2>3
      <3>. QED
        BY <2>1, <3>1, CountedInOrderDef DEF IInv
    <2>. QED
      BY <2>2, <2>3
  <1>. QED
    BY <1>6, <1>7, <1>8, <1>9 DEF IInv, CountedInOrder, InOrder

LEMMA ThreadStepIInv ==
    ASSUME IInv, NEW t \in Thread, ThreadStep(t)
    PROVE  IInv'
  <1>. USE DEF IInv, TypeOK, ThreadTypeOK, PC
  <1>1. CASE ReadState(t) /\ UNCHANGED <<assigned, counted>>
    BY <1>1, Frame DEF ReadState
  <1>2. CASE EnterWait(t) /\ UNCHANGED <<assigned, counted>>
    BY <1>2, Frame DEF EnterWait
  <1>3. CASE PopFront(t) /\ UNCHANGED <<assigned, counted>>
    BY <1>3, PopFrontIInv
  <1>4. CASE ReportBlock(t) /\ UNCHANGED <<assigned, counted>>
    <2>1. TypeOK' /\ JobInHand' /\ FrontExists'
      BY <1>4 DEF ReportBlock, JobInHand, FrontExists
    <2>2. \A u \in Thread : InHand(u)' = InHand(u)
      BY <1>4 DEF ReportBlock, InHand
    <2>. QED
      BY <1>4, <2>1, <2>2 DEF ReportBlock, CountedInOrder
  <1>5. CASE /\ CountBlock(t)
             /\ counted' = [counted EXCEPT ![t] = Append(@, job[t])]
             /\ UNCHANGED assigned
    BY <1>5, CountBlockIInv
  <1>. QED
    BY <1>1, <1>2, <1>3, <1>4, <1>5 DEF ThreadStep

LEMMA CallerIInv == IInv /\ (CallUpdateConfig \/ CallShutdown \/ CallerStep \/ Wakeup) => IInv'
  <1>. SUFFICES ASSUME IInv, CallUpdateConfig \/ CallShutdown \/ CallerStep \/ Wakeup
                PROVE  IInv'
    OBVIOUS
  <1>. USE DEF IInv, TypeOK, ThreadTypeOK, PC, Returned
  <1>1. CASE CallUpdateConfig
    BY <1>1, Frame DEF CallUpdateConfig, UpdateTables
  <1>2. CASE CallShutdown
    BY <1>2, Frame DEF CallShutdown, ShutdownFlag
  <1>3. CASE CallerStep
    <2>. PICK t \in Thread : /\ NotifyOne(t) \/ NotifyAll(t) \/ Join(t)
                             /\ UNCHANGED <<assigned, counted>>
      BY <1>3 DEF CallerStep
    <2>1. CASE NotifyOne(t)
      BY <2>1, Frame DEF NotifyOne, Wake
    <2>2. CASE NotifyAll(t)
      BY <2>2, Frame DEF NotifyAll, Wake
    <2>3. CASE Join(t)
      BY <2>3, Frame DEF Join
    <2>. QED
      BY <2>1, <2>2, <2>3
  <1>4. CASE Wakeup
    BY <1>4, Frame DEF Wakeup, SpuriousWakeup
  <1>. QED
    BY <1>1, <1>2, <1>3, <1>4

LEMMA NextIInv == IInv /\ [Next]_vars => IInv'
  <1>. SUFFICES ASSUME IInv, [Next]_vars PROVE IInv'
    OBVIOUS
  <1>1. CASE \E t \in Thread : ThreadStep(t)
    BY <1>1, ThreadStepIInv
  <1>2. CASE CallAssign
    BY <1>2, AssignIInv
  <1>3. CASE CallUpdateConfig \/ CallShutdown \/ CallerStep \/ Wakeup
    BY <1>3, CallerIInv
  <1>4. CASE UNCHANGED vars
    <2>1. ThreadTypeOK'
      BY <1>4 DEF vars, thread_vars, IInv, TypeOK, ThreadTypeOK
    <2>. QED
      BY <1>4, <2>1, Frame DEF vars, thread_vars
  <1>. QED
    BY <1>1, <1>2, <1>3, <1>4 DEF Next, Terminating

-----------------------------------------------------------------------------

\* The inductive invariant holds in every state.
THEOREM Invariance == Spec => []IInv
  BY InitIInv, NextIInv, PTL DEF Spec

\* Every variable keeps its type; a job always carries the tables of a node.
THEOREM ClientTypeCorrect == Spec => []TypeOK
  <1>1. IInv => TypeOK
    BY DEF IInv
  <1>. QED
    BY <1>1, Invariance, PTL

\* What a thread has counted, holds and has in its queue is what it was given, in
\* order and with the tables of the time of assign.
THEOREM QueueIsFaithful == Spec => []CountedInOrder
  <1>1. IInv => CountedInOrder
    BY DEF IInv
  <1>. QED
    BY <1>1, Invariance, PTL

\* The front of a queue is only taken where there is one.
THEOREM FrontIsThere == Spec => []FrontExists
  <1>1. IInv => FrontExists
    BY DEF IInv
  <1>. QED
    BY <1>1, Invariance, PTL
=============================================================================
