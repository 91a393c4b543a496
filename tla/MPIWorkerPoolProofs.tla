------------------------- MODULE MPIWorkerPoolProofs -------------------------
(***************************************************************************)
(* Proofs about MPIWorkerPool, for any number of workers, threads, blocks, *)
(* nodes and crashes.  First, what the master knows of the threads and the *)
(* blocks of all processes agrees with them and with the messages on their *)
(* way, so that no process throws, and every block is counted for its      *)
(* node.  Then, from that, what the files hold: what the records list,     *)
(* what the stores hold, what is left in the processes between two nodes,  *)
(* and that the records implement PointCount.                              *)
(***************************************************************************)
EXTENDS MPIWorkerPool, FileStoreProofs, FiniteSetTheorems

-----------------------------------------------------------------------------
(* Types                                                                   *)

Job == [block : Block, node : Node \cup {NoNode}, kind : Kind, merged : BOOLEAN]

Pool == [tables : Node \cup {NoNode}, idle : [Kind -> Nat], ready : [Kind -> Nat],
         busy : SUBSET Job, finished : SUBSET Block]

\* From the master to a worker, and from a worker to the master.
Message ==
    [tag : {"update_config"}, node : Node]
    \cup [tag : {"assign_block"}, kind : Kind, block : Block]
    \cup [tag : Asking \cup {"shutdown"}]

Reply ==
    [tag : {"ready"}, ready : [Kind -> Nat]]
    \cup [tag : {"save"}, stores : Saving]
    \cup [tag : {"finished"}, blocks : SUBSET Block]

Position ==
    {"options", "node", "configure", "iterate", "contains", "dispatch", "shutdown",
     "join", "exited", "rejected"} \cup Asking \cup Saves

MPITypeOK ==
    /\ FileStoreTypeOK
    /\ pool \in [Process -> Pool]
    /\ worker_record \in [Worker -> SUBSET Block]
    /\ worker_store \in [Worker -> Counts]
    /\ worker \in [Worker -> {"broadcast", "loop", "join", "exited"}]
    /\ inbox \in [Worker -> Seq(Message)]
    /\ outbox \in [Worker -> Seq(Reply)]
    /\ main \in Position
    /\ within \in {"update_config", "assign", "destructor"}
    /\ peer \in Process
    /\ asked \in BOOLEAN
    /\ node \in 1 .. NbNodes + 1
    /\ block \in 1 .. NbBlocks + 1
    /\ idle_queue \in [Kind -> Seq(Process)]
    /\ assigned_blocks \in [Process -> SUBSET Block]
    /\ thrown \in BOOLEAN
    /\ crashes \in Nat

-----------------------------------------------------------------------------
(* The inductive invariant                                                 *)

\* The master is in a call of assign or between two.
Assigning ==
    \/ main \in {"iterate", "contains", "ready", "dispatch"}
    \/ main \in {"finished", "save"} \cup Saves /\ within = "assign"

\* It has waited for all blocks of the node.
Waited == main \in {"save", "configure", "shutdown", "join", "exited"} \cup Saves /\ ~ Assigning

\* What the master is sure of at each of its positions.
ControlInv ==
    /\ main \notin Asking \cup Saves => peer = Master
    /\ asked => main \in Asking /\ peer # Master
    /\ main \in {"contains", "ready", "dispatch"} => within = "assign"
    /\ main = "configure" => within = "update_config"
    /\ main \in {"shutdown", "join", "exited"} => within = "destructor"
    /\ Assigning => /\ node \in Node \ BadNode /\ file_store = node
                    /\ main # "iterate" => block \in Block
    /\ ~ Assigning => \/ file_store = NoNode /\ node = 1
                      \/ file_store # NoNode /\ node = file_store + 1 /\ block = NbBlocks + 1
    /\ main \in {"finished", "save", "configure"} \cup Saves /\ within = "update_config"
            => node \in Node \ BadNode
    /\ main \in {"finished", "save", "shutdown", "join", "exited"} \cup Saves /\ within = "destructor"
            => node \notin Node \ BadNode
    /\ main \in {"options", "rejected"} => file_store = NoNode
    /\ main \in Saves => file_store # NoNode
    /\ main = "save" /\ file_store = NoNode => peer = Master
    /\ main \in Saves \ {"create_store"} => files[file_store] # <<>>
    /\ main = "dispatch" => \E k \in Kind : idle_queue[k] # <<>>
    /\ Waited \/ file_store = NoNode => \A p \in Process : assigned_blocks[p] = {}

\* The master waits for an answer of this worker.
Asked(w) == asked /\ peer = w

\* No question of the master among these messages.
NoQuestion(q) == \A i \in DOMAIN q : q[i].tag \notin Asking

\* A question is the last message to a worker, and answered when it is read.
AskAt(w) ==
    /\ ~ Asked(w) => outbox[w] = <<>> /\ NoQuestion(inbox[w])
    /\ Asked(w) =>
         \/ /\ outbox[w] = <<>>
            /\ inbox[w] # <<>>
            /\ inbox[w][Len(inbox[w])].tag = main
            /\ \A i \in DOMAIN inbox[w] : i # Len(inbox[w]) => inbox[w][i].tag \notin Asking
         \/ /\ inbox[w] = <<>>
            /\ Len(outbox[w]) = 1
            /\ outbox[w][1].tag = main

AskInv == \A w \in Worker : AskAt(w)

\* Whom the master has asked for finished blocks before a save has read everything.
DrainedInv ==
    \A w \in Worker : ~ Asked(w) =>
        /\ Waited /\ main \notin {"join", "exited"} => inbox[w] = <<>>
        /\ main = "finished" /\ ~ Assigning /\ w < peer => inbox[w] = <<>>

-----------------------------------------------------------------------------
(* One process                                                             *)

\* A set in four parts.
Split(whole, a, b, c, d) ==
    /\ whole = a \cup b \cup c \cup d
    /\ a \cap b = {} /\ a \cap c = {} /\ a \cap d = {}
    /\ b \cap c = {} /\ b \cap d = {} /\ c \cap d = {}

\* The blocks in these messages for threads of a kind.
SentIn(q, kind) ==
    {q[i].block : i \in {j \in DOMAIN q : q[j].tag = "assign_block" /\ q[j].kind = kind}}

SentBlocks(q) == SentIn(q, "cpu") \cup SentIn(q, "opencl")

\* No block comes twice in these messages, nor with two threads of a pool.
DistinctIn(q) ==
    \A i, j \in DOMAIN q :
        q[i].tag = "assign_block" /\ q[j].tag = "assign_block" /\ q[i].block = q[j].block => i = j
Distinct(busy) == \A j1, j2 \in busy : j1.block = j2.block => j1 = j2

BlocksOf(busy) == {job.block : job \in busy}
OfKind(busy, kind) == {job \in busy : job.kind = kind}

\* What the answer on its way says is finished, and how many threads are ready.
ToldIn(q) == IF q # <<>> /\ Head(q).tag = "finished" THEN Head(q).blocks ELSE {}
ReadyIn(q, kind) == IF q # <<>> /\ Head(q).tag = "ready" THEN Head(q).ready[kind] ELSE 0

\* The threads of a process, its messages, what the master holds of it - how often
\* it is in the queues and its assigned blocks - and the node in use agree: every
\* block that the master waits for is in one place; every thread that the process
\* believes to be idle is known, or on its way to be known, to the master, and no
\* other; the process has the tables of the node, or is told of them by the first
\* message that it will read, and counts with no others.
Agree(p, q, in, out, queued, assigned, fs) ==
    /\ q \in Pool /\ IsFiniteSet(q.busy)
    /\ in \in Seq(Message) /\ out \in Seq(Reply)
    /\ queued \in [Kind -> Nat] /\ assigned \in SUBSET Block
    /\ Split(assigned, SentBlocks(in), BlocksOf(q.busy), q.finished, ToldIn(out))
    /\ DistinctIn(in) /\ Distinct(q.busy)
    /\ \A kind \in Kind :
         /\ q.idle[kind] = queued[kind] + Cardinality(SentIn(in, kind)) + ReadyIn(out, kind)
         /\ NbThreads[p][kind] = q.idle[kind] + q.ready[kind]
                                 + Cardinality(OfKind(q.busy, kind))
    /\ \A i \in DOMAIN in : in[i].tag = "update_config" => i = 1 /\ in[i].node = fs
    /\ in = <<>> \/ Head(in).tag # "update_config" => q.tables = fs
    /\ \A job \in q.busy : job.node = fs

Inbox(p) == IF p = Master THEN <<>> ELSE inbox[p]
Outbox(p) == IF p = Master THEN <<>> ELSE outbox[p]
Queued(p) == [kind \in Kind |-> Occurrences(idle_queue[kind], p)]

AgreeAt(p) ==
    Agree(p, pool[p], Inbox(p), Outbox(p), Queued(p), assigned_blocks[p], file_store)

AgreeInv == \A p \in Process : AgreeAt(p)

\* A block is assigned to one process, and none from the one whose turn comes on.
ApartInv ==
    \A p \in Process :
        /\ \A b \in assigned_blocks[p] : b < block
        /\ \A o \in Process \ {p} : assigned_blocks[o] \cap assigned_blocks[p] = {}

IInv ==
    /\ MPITypeOK
    /\ ControlInv
    /\ AskInv
    /\ DrainedInv
    /\ AgreeInv
    /\ ApartInv
    /\ NoThrow

-----------------------------------------------------------------------------
(* Counting the elements of finite sets and sequences                      *)

LEMMA BlocksFinite == \A S \in SUBSET Block : IsFiniteSet(S) /\ Cardinality(S) \in Nat
  <1>1. NbBlocks \in Nat
    BY ConfigAssumption
  <1>2. IsFiniteSet(Block)
    BY <1>1, FS_Interval DEF Block
  <1>. QED
    BY <1>2, FS_Subset, FS_CardinalityType

LEMMA MPISets ==
    /\ Master \in Process /\ Master \notin Worker
    /\ \A w \in Worker : w \in Process /\ w # Master /\ w \in Nat
    /\ \A p \in Process : p = Master \/ p \in Worker
    /\ \A p \in Process : p \in Nat /\ p <= NbWorkers
    /\ NbWorkers \in Nat /\ NbBlocks \in Nat /\ NbNodes \in Nat
    /\ Block = 1 .. NbBlocks /\ Node = 1 .. NbNodes /\ NoNode \notin Node
    /\ "cpu" \in Kind /\ "opencl" \in Kind /\ \A k \in Kind : k = "cpu" \/ k = "opencl"
  BY MPIAssumption, ConfigAssumption
  DEF Master, Worker, Process, Block, Node, NoNode, Kind

\* An empty sequence.
LEMMA OccurrencesEmpty == \A e : Occurrences(<<>>, e) = 0
  <1>1. \A e : {i \in DOMAIN <<>> : <<>>[i] = e} = {}
    OBVIOUS
  <1>. QED
    BY <1>1, FS_EmptySet DEF Occurrences

LEMMA OccurrencesType ==
    ASSUME NEW S, NEW s \in Seq(S), NEW e
    PROVE  /\ IsFiniteSet({i \in DOMAIN s : s[i] = e})
           /\ Occurrences(s, e) \in Nat
  <1>1. DOMAIN s = 1 .. Len(s) /\ Len(s) \in Nat
    BY LenProperties
  <1>2. IsFiniteSet(1 .. Len(s))
    BY <1>1, FS_Interval
  <1>. QED
    BY <1>1, <1>2, FS_Subset, FS_CardinalityType DEF Occurrences

\* The first element is taken.
LEMMA OccurrencesTail ==
    ASSUME NEW S, NEW s \in Seq(S), s # <<>>, NEW e
    PROVE  Occurrences(s, e) = Occurrences(Tail(s), e) + (IF Head(s) = e THEN 1 ELSE 0)
  <1>. DEFINE n == Len(s)
              t == Tail(s)
              At == {i \in DOMAIN s : s[i] = e}
              Later == {i \in DOMAIN t : t[i] = e}
              Shifted == At \ {1}
              shift == [i \in Later |-> i + 1]
  <1>1. /\ n \in Nat /\ n >= 1 /\ DOMAIN s = 1 .. n
    BY LenProperties, EmptySeq
  <1>2. /\ t \in Seq(S) /\ Len(t) = n - 1
        /\ \A i \in 1 .. n - 1 : t[i] = s[i + 1]
    BY HeadTailProperties
  <1>3. DOMAIN t = 1 .. n - 1
    BY <1>2, LenProperties
  <1>4. Head(s) = s[1]
    OBVIOUS
  <1>5. IsFiniteSet(At) /\ IsFiniteSet(Later)
    BY <1>2, OccurrencesType
  <1>. HIDE DEF n, t
  <1>6. shift \in Bijection(Later, Shifted)
    <2>1. shift \in [Later -> Shifted]
      BY <1>1, <1>2, <1>3
    <2>2. \A i, j \in Later : shift[i] = shift[j] => i = j
      BY <1>1, <1>3
    <2>3. \A j \in Shifted : \E i \in Later : shift[i] = j
      <3>. SUFFICES ASSUME NEW j \in Shifted
                    PROVE  j - 1 \in Later /\ j - 1 + 1 = j
        OBVIOUS
      <3>. QED
        BY <1>1, <1>2, <1>3
    <2>. HIDE DEF shift, Later, Shifted
    <2>. QED
      BY <2>1, <2>2, <2>3 DEF Bijection, Injection, Surjection, IsInjective
  <1>7. Cardinality(Shifted) = Cardinality(Later)
    <2>. HIDE DEF shift, Later, Shifted
    <2>. QED
      BY <1>5, <1>6, FS_Bijection DEF ExistsBijection
  <1>8. 1 \in At <=> Head(s) = e
    BY <1>1, <1>4
  <1>9. Cardinality(Shifted) = IF 1 \in At THEN Cardinality(At) - 1 ELSE Cardinality(At)
    BY <1>5, FS_RemoveElement
  <1>10. Cardinality(At) \in Nat /\ Cardinality(Later) \in Nat
    BY <1>5, FS_CardinalityType
  <1>11. Occurrences(s, e) = Cardinality(At) /\ Occurrences(t, e) = Cardinality(Later)
    BY DEF Occurrences
  <1>. HIDE DEF At, Later, Shifted
  <1>. QED
    BY <1>7, <1>8, <1>9, <1>10, <1>11 DEF t

Repeated(x, m) == [i \in 1 .. m |-> x]

\* An element is appended m times.
LEMMA OccurrencesConcat ==
    ASSUME NEW S, NEW s \in Seq(S), NEW m \in Nat, NEW x \in S, NEW e
    PROVE  /\ s \o Repeated(x, m) \in Seq(S)
           /\ Occurrences(s \o Repeated(x, m), e)
                = Occurrences(s, e) + (IF x = e THEN m ELSE 0)
  <1>. DEFINE n == Len(s)
              more == Repeated(x, m)
              t == s \o more
              Before == {i \in DOMAIN s : s[i] = e}
              Added == {i \in n + 1 .. n + m : x = e}
              At == {i \in DOMAIN t : t[i] = e}
  <1>1. n \in Nat /\ DOMAIN s = 1 .. n
    BY LenProperties
  <1>2. more \in Seq(S) /\ Len(more) = m
    BY DEF Repeated
  <1>3. /\ t \in Seq(S) /\ Len(t) = n + m
        /\ \A i \in 1 .. n + m : t[i] = IF i <= n THEN s[i] ELSE more[i - n]
    BY <1>2, ConcatProperties
  <1>4. DOMAIN t = 1 .. n + m
    BY <1>3, LenProperties
  <1>5. \A i \in n + 1 .. n + m : i - n \in 1 .. m
    BY <1>1
  <1>6. \A i \in n + 1 .. n + m : more[i - n] = x
    BY <1>5 DEF Repeated
  <1>. HIDE DEF n, more, t
  <1>7. At = Before \cup Added /\ Before \cap Added = {}
    <2>1. \A i \in 1 .. n : i \in DOMAIN t /\ t[i] = s[i]
      BY <1>1, <1>3, <1>4
    <2>2. \A i \in n + 1 .. n + m : i \in DOMAIN t /\ t[i] = x
      BY <1>1, <1>3, <1>4, <1>6
    <2>3. \A i \in DOMAIN t : i \in 1 .. n \/ i \in n + 1 .. n + m
      BY <1>1, <1>4
    <2>4. \A i \in 1 .. n : i \notin n + 1 .. n + m
      BY <1>1
    <2>5. DOMAIN s = 1 .. n
      BY <1>1
    <2>. QED
      BY <2>1, <2>2, <2>3, <2>4, <2>5
  <1>8. IsFiniteSet(Before) /\ Cardinality(Before) \in Nat /\ IsFiniteSet(Added)
    <2>1. IsFiniteSet(n + 1 .. n + m)
      BY <1>1, FS_Interval
    <2>2. Added \in SUBSET (n + 1 .. n + m)
      OBVIOUS
    <2>3. IsFiniteSet(Added)
      BY <2>1, <2>2, FS_Subset
    <2>4. IsFiniteSet(Before)
      BY OccurrencesType
    <2>. QED
      BY <2>3, <2>4, FS_CardinalityType
  <1>9. Cardinality(Added) = IF x = e THEN m ELSE 0
    <2>1. CASE x = e
      <3>1. Added = n + 1 .. n + m
        BY <2>1
      <3>2. Cardinality(n + 1 .. n + m) = m
        BY <1>1, FS_Interval
      <3>. QED
        BY <2>1, <3>1, <3>2
    <2>2. CASE x # e
      BY <2>2, FS_EmptySet
    <2>. QED
      BY <2>1, <2>2
  <1>10. Cardinality(At) = Cardinality(Before) + Cardinality(Added)
    <2>. HIDE DEF Before, Added, At
    <2>1. Cardinality(At) = Cardinality(Before) + Cardinality(Added) - Cardinality(Before \cap Added)
      BY <1>7, <1>8, FS_Union
    <2>2. Cardinality(Before \cap Added) = 0
      BY <1>7, FS_EmptySet
    <2>3. Cardinality(Added) \in Nat
      BY <1>8, FS_CardinalityType
    <2>. QED
      BY <1>8, <2>1, <2>2, <2>3
  <1>11. Occurrences(s, e) = Cardinality(Before) /\ Occurrences(t, e) = Cardinality(At)
    BY DEF Occurrences
  <1>. HIDE DEF Before, Added, At
  <1>. QED
    BY <1>3, <1>9, <1>10, <1>11 DEF t, more

-----------------------------------------------------------------------------
(* Messages                                                                *)

LEMMA MessageFields ==
    \A m \in Message :
        /\ m.tag \in {"update_config", "assign_block", "shutdown"} \cup Asking
        /\ m.tag = "update_config" => m.node \in Node
        /\ m.tag = "assign_block" => m.kind \in Kind /\ m.block \in Block
  BY DEF Message, Asking

LEMMA ReplyFields ==
    \A m \in Reply :
        /\ m.tag = "ready" => m.ready \in [Kind -> Nat]
        /\ m.tag = "save" => m.stores \in Saving
        /\ m.tag = "finished" => m.blocks \in SUBSET Block
  BY DEF Reply

LEMMA MadeMessages ==
    /\ \A n \in Node : [tag |-> "update_config", node |-> n] \in Message
    /\ \A k \in Kind, b \in Block : [tag |-> "assign_block", kind |-> k, block |-> b] \in Message
    /\ \A t \in Asking \cup {"shutdown"} : [tag |-> t] \in Message
    /\ \A f \in [Kind -> Nat] : [tag |-> "ready", ready |-> f] \in Reply
    /\ \A f \in Saving : [tag |-> "save", stores |-> f] \in Reply
    /\ \A f \in SUBSET Block : [tag |-> "finished", blocks |-> f] \in Reply
  BY DEF Message, Reply

LEMMA SentInType ==
    \A q \in Seq(Message) : \A kind :
        SentIn(q, kind) \in SUBSET Block /\ Cardinality(SentIn(q, kind)) \in Nat
  <1>. TAKE q \in Seq(Message)
  <1>. TAKE kind
  <1>1. \A i \in DOMAIN q : q[i] \in Message
    BY ElementOfSeq, LenProperties
  <1>2. SentIn(q, kind) \in SUBSET Block
    BY <1>1, MessageFields DEF SentIn
  <1>. QED
    BY <1>2, BlocksFinite

LEMMA SentInEmpty == \A kind : SentIn(<<>>, kind) = {} /\ DistinctIn(<<>>)
  BY DEF SentIn, DistinctIn

\* A message is sent.
LEMMA SentInAppend ==
    ASSUME NEW q \in Seq(Message), NEW m \in Message, DistinctIn(q),
           m.tag = "assign_block" => \A kind \in Kind : m.block \notin SentIn(q, kind)
    PROVE  /\ Append(q, m) \in Seq(Message)
           /\ Append(q, m) # <<>>
           /\ DistinctIn(Append(q, m))
           /\ \A kind \in Kind :
                SentIn(Append(q, m), kind) =
                  IF m.tag = "assign_block" /\ m.kind = kind
                  THEN SentIn(q, kind) \cup {m.block} ELSE SentIn(q, kind)
  <1>. DEFINE n == Len(q)
              t == Append(q, m)
  <1>1. n \in Nat /\ DOMAIN q = 1 .. n
    BY LenProperties
  <1>2. /\ t \in Seq(Message) /\ Len(t) = n + 1 /\ t[n + 1] = m
        /\ \A i \in 1 .. n : t[i] = q[i]
    BY AppendProperties
  <1>3. DOMAIN t = 1 .. n + 1
    BY <1>2, LenProperties
  <1>4. \A i \in 1 .. n + 1 : i \in 1 .. n \/ i = n + 1
    BY <1>1
  <1>5. \A i \in DOMAIN q : i \in DOMAIN t /\ t[i] = q[i] /\ i # n + 1
    BY <1>1, <1>2, <1>3
  <1>6. \A i \in DOMAIN t : i # n + 1 => i \in DOMAIN q /\ t[i] = q[i]
    BY <1>1, <1>2, <1>3, <1>4
  <1>7. n + 1 \in DOMAIN t /\ t[n + 1] = m
    BY <1>1, <1>2, <1>3
  <1>8. t # <<>>
    BY <1>1, <1>2, EmptySeq
  <1>. HIDE DEF n, t
  <1>9. ASSUME NEW kind \in Kind
        PROVE  SentIn(t, kind) = IF m.tag = "assign_block" /\ m.kind = kind
                                 THEN SentIn(q, kind) \cup {m.block} ELSE SentIn(q, kind)
    BY <1>5, <1>6, <1>7 DEF SentIn
  <1>10. ASSUME NEW i \in DOMAIN q, q[i].tag = "assign_block"
         PROVE  q[i].kind \in Kind /\ q[i].block \in SentIn(q, q[i].kind)
    <2>1. q[i] \in Message
      BY <1>1, ElementOfSeq DEF n
    <2>. QED
      BY <1>10, <2>1, MessageFields DEF SentIn
  <1>11. DistinctIn(t)
    BY <1>5, <1>6, <1>7, <1>10 DEF DistinctIn
  <1>. QED
    BY <1>2, <1>8, <1>9, <1>11 DEF t

\* The first message is read.
LEMMA SentInTail ==
    ASSUME NEW q \in Seq(Message), q # <<>>, DistinctIn(q)
    PROVE  LET m == Head(q)
           IN  /\ m \in Message /\ m = q[1]
               /\ Tail(q) \in Seq(Message)
               /\ DistinctIn(Tail(q))
               /\ \A kind \in Kind :
                    IF m.tag = "assign_block" /\ m.kind = kind
                    THEN /\ SentIn(Tail(q), kind) = SentIn(q, kind) \ {m.block}
                         /\ m.block \in SentIn(q, kind)
                    ELSE SentIn(Tail(q), kind) = SentIn(q, kind)
               /\ m.tag = "assign_block" =>
                    \A kind \in Kind : m.block \notin SentIn(Tail(q), kind)
               /\ DOMAIN Tail(q) = 1 .. Len(q) - 1 /\ DOMAIN q = 1 .. Len(q)
               /\ Len(q) \in Nat \ {0}
               /\ \A i \in DOMAIN Tail(q) : i + 1 \in DOMAIN q /\ Tail(q)[i] = q[i + 1]
  <1>. DEFINE n == Len(q)
              t == Tail(q)
              m == Head(q)
  <1>1. n \in Nat /\ n >= 1 /\ DOMAIN q = 1 .. n
    BY LenProperties, EmptySeq
  <1>2. /\ m \in Message /\ t \in Seq(Message) /\ Len(t) = n - 1
        /\ \A i \in 1 .. n - 1 : t[i] = q[i + 1]
    BY HeadTailProperties
  <1>3. DOMAIN t = 1 .. n - 1
    BY <1>2, LenProperties
  <1>4. m = q[1]
    OBVIOUS
  <1>5. \A i \in DOMAIN t : i + 1 \in DOMAIN q /\ t[i] = q[i + 1] /\ i + 1 # 1
    BY <1>1, <1>2, <1>3
  <1>6. \A i \in DOMAIN q : i # 1 => i - 1 \in DOMAIN t /\ t[i - 1] = q[i]
    BY <1>1, <1>2, <1>3
  <1>7. 1 \in DOMAIN q
    BY <1>1
  <1>. HIDE DEF n, t, m
  <1>8. ASSUME NEW kind \in Kind
        PROVE  \A x : x \in SentIn(q, kind) <=>
                        \/ x \in SentIn(t, kind)
                        \/ m.tag = "assign_block" /\ m.kind = kind /\ x = m.block
    BY <1>4, <1>5, <1>6, <1>7 DEF SentIn
  <1>9. DistinctIn(t)
    <2>. SUFFICES ASSUME NEW i \in DOMAIN t, NEW j \in DOMAIN t, t[i].tag = "assign_block",
                         t[j].tag = "assign_block", t[i].block = t[j].block
                  PROVE  i = j
      BY DEF DistinctIn
    <2>1. i + 1 = j + 1
      BY <1>5 DEF DistinctIn
    <2>. QED
      BY <1>1, <1>3, <2>1
  <1>10. ASSUME m.tag = "assign_block", NEW kind \in Kind
         PROVE  m.block \notin SentIn(t, kind)
    BY <1>4, <1>5, <1>7, <1>10 DEF SentIn, DistinctIn
  <1>11. ASSUME NEW kind \in Kind
         PROVE  IF m.tag = "assign_block" /\ m.kind = kind
                THEN /\ SentIn(t, kind) = SentIn(q, kind) \ {m.block}
                     /\ m.block \in SentIn(q, kind)
                ELSE SentIn(t, kind) = SentIn(q, kind)
    BY <1>8, <1>10
  <1>12. n \in Nat \ {0}
    BY <1>1
  <1>. QED
    BY <1>1, <1>2, <1>3, <1>4, <1>5, <1>9, <1>10, <1>11, <1>12 DEF t, m, n

-----------------------------------------------------------------------------
(* Thread pools                                                            *)

LEMMA PoolFields ==
    ASSUME NEW q \in Pool
    PROVE  /\ q.tables \in Node \cup {NoNode}
           /\ q.idle \in [Kind -> Nat] /\ q.ready \in [Kind -> Nat]
           /\ q.busy \in SUBSET Job /\ q.finished \in SUBSET Block
           /\ \A job \in q.busy : /\ job \in Job /\ job.block \in Block
                                  /\ job.kind \in Kind /\ job.merged \in BOOLEAN
                                  /\ job.node \in Node \cup {NoNode}
  BY DEF Pool, Job

LEMMA PoolAssignFields ==
    ASSUME NEW q \in Pool, NEW b \in Block, NEW kind \in Kind, q.idle[kind] # 0
    PROVE  LET r == PoolAssign(q, b, kind)
               job == [block |-> b, node |-> q.tables, kind |-> kind, merged |-> FALSE]
           IN  /\ r \in Pool /\ job \in Job
               /\ r.tables = q.tables /\ r.ready = q.ready /\ r.finished = q.finished
               /\ r.idle = [q.idle EXCEPT ![kind] = @ - 1]
               /\ r.busy = q.busy \cup {job}
  <1>. DEFINE r == PoolAssign(q, b, kind)
              job == [block |-> b, node |-> q.tables, kind |-> kind, merged |-> FALSE]
              idle == [q.idle EXCEPT ![kind] = @ - 1]
              busy == q.busy \cup {job}
  <1>1. job \in Job
    BY DEF Pool, Job
  <1>2. r = [q EXCEPT !.idle = idle, !.busy = busy]
    BY DEF Pool, PoolAssign
  <1>3. idle \in [Kind -> Nat]
    BY PoolFields
  <1>4. busy \in SUBSET Job
    BY <1>1, PoolFields
  <1>. HIDE DEF r, job, idle, busy
  <1>5. /\ r \in Pool
        /\ r.tables = q.tables /\ r.ready = q.ready /\ r.finished = q.finished
        /\ r.idle = idle /\ r.busy = busy
    BY <1>2, <1>3, <1>4 DEF Pool
  <1>. QED
    BY <1>1, <1>5 DEF r, job, idle, busy

LEMMA ReadyFlushedFields ==
    ASSUME NEW q \in Pool
    PROVE  LET r == ReadyFlushed(q)
           IN  /\ r \in Pool
               /\ r.tables = q.tables /\ r.busy = q.busy /\ r.finished = q.finished
               /\ \A kind \in Kind :
                    r.idle[kind] = q.idle[kind] + q.ready[kind] /\ r.ready[kind] = 0
  <1>. DEFINE r == ReadyFlushed(q)
              idle == [k \in Kind |-> q.idle[k] + q.ready[k]]
              ready == [k \in Kind |-> 0]
  <1>1. r = [q EXCEPT !.idle = idle, !.ready = ready]
    BY DEF Pool, ReadyFlushed
  <1>2. idle \in [Kind -> Nat] /\ ready \in [Kind -> Nat]
    BY PoolFields
  <1>. HIDE DEF r, idle, ready
  <1>3. /\ r \in Pool
        /\ r.tables = q.tables /\ r.busy = q.busy /\ r.finished = q.finished
        /\ r.idle = idle /\ r.ready = ready
    BY <1>1, <1>2 DEF Pool
  <1>. QED
    BY <1>3 DEF r, idle, ready

LEMMA FinishedFlushedFields ==
    ASSUME NEW q \in Pool
    PROVE  LET r == FinishedFlushed(q)
           IN  /\ r \in Pool
               /\ r.tables = q.tables /\ r.busy = q.busy /\ r.finished = {}
               /\ r.idle = q.idle /\ r.ready = q.ready
  BY DEF Pool, FinishedFlushed

LEMMA ReportedFields ==
    ASSUME NEW q \in Pool, NEW job \in q.busy
    PROVE  LET r == Reported(q, job)
           IN  /\ r \in Pool
               /\ r.tables = q.tables /\ r.busy = q.busy \ {job}
               /\ r.finished = q.finished \cup {job.block}
               /\ r.idle = q.idle /\ r.ready = [q.ready EXCEPT ![job.kind] = @ + 1]
  <1>. DEFINE r == Reported(q, job)
              ready == [q.ready EXCEPT ![job.kind] = @ + 1]
              busy == q.busy \ {job}
              finished == q.finished \cup {job.block}
  <1>1. r = [q EXCEPT !.busy = busy, !.ready = ready, !.finished = finished]
    BY DEF Pool, Reported
  <1>2. ready \in [Kind -> Nat] /\ busy \in SUBSET Job /\ finished \in SUBSET Block
    BY PoolFields
  <1>. HIDE DEF r, ready, busy, finished
  <1>3. /\ r \in Pool
        /\ r.tables = q.tables /\ r.busy = busy /\ r.finished = finished
        /\ r.idle = q.idle /\ r.ready = ready
    BY <1>1, <1>2 DEF Pool
  <1>. QED
    BY <1>3 DEF r, ready, busy, finished

\* The busy threads of a kind, when a block is taken on or reported.
LEMMA OfKindType ==
    ASSUME NEW S, IsFiniteSet(S), NEW kind
    PROVE  IsFiniteSet(OfKind(S, kind)) /\ Cardinality(OfKind(S, kind)) \in Nat
  BY FS_Subset, FS_CardinalityType DEF OfKind

LEMMA OfKindAdd ==
    ASSUME NEW S, IsFiniteSet(S), NEW job, job \notin S, NEW kind
    PROVE  /\ IsFiniteSet(S \cup {job})
           /\ Cardinality(OfKind(S \cup {job}, kind)) =
                Cardinality(OfKind(S, kind)) + (IF job.kind = kind THEN 1 ELSE 0)
  <1>1. IsFiniteSet(OfKind(S, kind)) /\ Cardinality(OfKind(S, kind)) \in Nat
    BY OfKindType
  <1>2. CASE job.kind = kind
    <2>1. OfKind(S \cup {job}, kind) = OfKind(S, kind) \cup {job} /\ job \notin OfKind(S, kind)
      BY <1>2 DEF OfKind
    <2>. QED
      BY <1>1, <1>2, <2>1, FS_AddElement
  <1>3. CASE job.kind # kind
    <2>1. OfKind(S \cup {job}, kind) = OfKind(S, kind)
      BY <1>3 DEF OfKind
    <2>. QED
      BY <1>1, <1>3, <2>1, FS_AddElement
  <1>. QED
    BY <1>2, <1>3

LEMMA OfKindRemove ==
    ASSUME NEW S, IsFiniteSet(S), NEW job \in S, NEW kind
    PROVE  /\ IsFiniteSet(S \ {job})
           /\ Cardinality(OfKind(S, kind)) =
                Cardinality(OfKind(S \ {job}, kind)) + (IF job.kind = kind THEN 1 ELSE 0)
  <1>1. IsFiniteSet(S \ {job})
    BY FS_RemoveElement
  <1>2. (S \ {job}) \cup {job} = S /\ job \notin S \ {job}
    OBVIOUS
  <1>. QED
    BY <1>1, <1>2, OfKindAdd

-----------------------------------------------------------------------------
(* What a step at one process does to it                                   *)

LEMMA AnswerIn ==
    /\ ToldIn(<<>>) = {} /\ \A kind : ReadyIn(<<>>, kind) = 0
    /\ \A m : /\ ToldIn(<<m>>) = IF m.tag = "finished" THEN m.blocks ELSE {}
              /\ \A kind : ReadyIn(<<m>>, kind) = IF m.tag = "ready" THEN m.ready[kind] ELSE 0
  BY DEF ToldIn, ReadyIn

\* An element, or a part, of the four moves on, leaves, or comes in.
LEMMA SplitMoves ==
    ASSUME NEW w, NEW a, NEW b, NEW c, NEW d, Split(w, a, b, c, d)
    PROVE  /\ \A x \in a : Split(w, a \ {x}, b \cup {x}, c, d)
           /\ \A x \in b : Split(w, a, b \ {x}, c \cup {x}, d)
           /\ d = {} => Split(w, a, b, {}, c)
           /\ Split(w \ d, a, b, c, {}) /\ d \subseteq w
           /\ Split(w \ c, a, b, {}, d) /\ c \subseteq w
           /\ \A x : x \notin w => /\ Split(w \cup {x}, a \cup {x}, b, c, d)
                                 /\ Split(w \cup {x}, a, b \cup {x}, c, d)
           /\ w = {} => a = {} /\ b = {} /\ c = {} /\ d = {}
  <1>1. \A x \in a : Split(w, a \ {x}, b \cup {x}, c, d)
    BY DEF Split
  <1>2. \A x \in b : Split(w, a, b \ {x}, c \cup {x}, d)
    BY DEF Split
  <1>3. d = {} => Split(w, a, b, {}, c)
    BY DEF Split
  <1>4. Split(w \ d, a, b, c, {}) /\ d \subseteq w
    BY DEF Split
  <1>5. Split(w \ c, a, b, {}, d) /\ c \subseteq w
    BY DEF Split
  <1>6. \A x : x \notin w => Split(w \cup {x}, a \cup {x}, b, c, d)
    BY DEF Split
  <1>7. \A x : x \notin w => Split(w \cup {x}, a, b \cup {x}, c, d)
    BY DEF Split
  <1>8. w = {} => a = {} /\ b = {} /\ c = {} /\ d = {}
    BY DEF Split
  <1>. QED
    BY <1>1, <1>2, <1>3, <1>4, <1>5, <1>6, <1>7, <1>8

LEMMA AgreeTypes ==
    ASSUME NEW p \in Process, NEW q, NEW in, NEW out, NEW queued, NEW assigned, NEW fs,
           Agree(p, q, in, out, queued, assigned, fs)
    PROVE  /\ q \in Pool /\ IsFiniteSet(q.busy) /\ in \in Seq(Message) /\ out \in Seq(Reply)
           /\ DistinctIn(in)
           /\ queued \in [Kind -> Nat] /\ assigned \in SUBSET Block
           /\ BlocksOf(q.busy) \in SUBSET Block /\ SentBlocks(in) \in SUBSET Block
           /\ ToldIn(out) \in SUBSET Block
           /\ NbThreads[p] \in [Kind -> Nat]
           /\ \A kind \in Kind :
                /\ queued[kind] \in Nat /\ q.idle[kind] \in Nat /\ q.ready[kind] \in Nat
                /\ Cardinality(SentIn(in, kind)) \in Nat /\ ReadyIn(out, kind) \in Nat
                /\ Cardinality(OfKind(q.busy, kind)) \in Nat
                /\ SentIn(in, kind) \in SUBSET Block /\ SentIn(in, kind) \subseteq SentBlocks(in)
                /\ NbThreads[p][kind] \in Nat
  <1>1. /\ q \in Pool /\ IsFiniteSet(q.busy) /\ in \in Seq(Message) /\ out \in Seq(Reply)
        /\ DistinctIn(in)
        /\ queued \in [Kind -> Nat] /\ assigned \in SUBSET Block
    BY DEF Agree
  <1>2. NbThreads[p] \in [Kind -> Nat]
    BY MPIAssumption
  <1>3. \A kind \in Kind : /\ SentIn(in, kind) \in SUBSET Block
                           /\ Cardinality(SentIn(in, kind)) \in Nat
    BY <1>1, SentInType
  <1>4. \A kind \in Kind : SentIn(in, kind) \subseteq SentBlocks(in)
    BY MPISets DEF SentBlocks
  <1>5. SentBlocks(in) \in SUBSET Block
    BY <1>3, MPISets DEF SentBlocks
  <1>6. out # <<>> => Head(out) \in Reply
    BY <1>1, HeadTailProperties
  <1>7. ToldIn(out) \in SUBSET Block /\ \A kind \in Kind : ReadyIn(out, kind) \in Nat
    BY <1>6, ReplyFields DEF ToldIn, ReadyIn
  <1>8. \A kind \in Kind : Cardinality(OfKind(q.busy, kind)) \in Nat
    BY <1>1, OfKindType
  <1>9. BlocksOf(q.busy) \in SUBSET Block
    BY <1>1, PoolFields DEF BlocksOf
  <1>10. \A kind \in Kind : q.idle[kind] \in Nat /\ q.ready[kind] \in Nat
    BY <1>1, PoolFields
  <1>. QED
    BY <1>1, <1>2, <1>3, <1>4, <1>5, <1>7, <1>8, <1>9, <1>10

\* The pool that spark_threads makes.
LEMMA AgreeSparked ==
    ASSUME NEW p \in Process
    PROVE  /\ Sparked(p) \in Pool
           /\ Agree(p, Sparked(p), <<>>, <<>>, [k \in Kind |-> 0], {}, NoNode)
  <1>. DEFINE q == Sparked(p)
              none == [k \in Kind |-> 0]
  <1>1. NbThreads[p] \in [Kind -> Nat] /\ none \in [Kind -> Nat]
    BY MPIAssumption
  <1>2. /\ q \in Pool /\ q.busy = {} /\ q.finished = {} /\ q.tables = NoNode
        /\ q.ready = NbThreads[p] /\ q.idle = none
    BY <1>1 DEF Sparked, Pool
  <1>3. SentBlocks(<<>>) = {} /\ DistinctIn(<<>>) /\ \A kind : SentIn(<<>>, kind) = {}
    BY SentInEmpty DEF SentBlocks
  <1>4. \A kind : OfKind({}, kind) = {}
    BY DEF OfKind
  <1>5. BlocksOf({}) = {} /\ Distinct({})
    BY DEF BlocksOf, Distinct
  <1>6. IsFiniteSet({}) /\ Cardinality({}) = 0
    BY FS_EmptySet
  <1>7. <<>> \in Seq(Message) /\ <<>> \in Seq(Reply) /\ DOMAIN <<>> = {}
    BY EmptySeq
  <1>8. Split({}, {}, {}, {}, {})
    BY DEF Split
  <1>9. \A kind \in Kind : none[kind] = 0
    OBVIOUS
  <1>. HIDE DEF q, none
  <1>10. ASSUME NEW kind \in Kind
         PROVE  /\ q.idle[kind] = none[kind] + Cardinality(SentIn(<<>>, kind)) + ReadyIn(<<>>, kind)
                /\ NbThreads[p][kind] = q.idle[kind] + q.ready[kind]
                                        + Cardinality(OfKind(q.busy, kind))
    <2>1. Cardinality(SentIn(<<>>, kind)) = 0 /\ Cardinality(OfKind(q.busy, kind)) = 0
      BY <1>2, <1>3, <1>4, <1>6
    <2>2. q.idle[kind] = 0 /\ none[kind] = 0 /\ ReadyIn(<<>>, kind) = 0
      BY <1>2, <1>9, AnswerIn
    <2>3. q.ready[kind] = NbThreads[p][kind] /\ NbThreads[p][kind] \in Nat
      BY <1>1, <1>2
    <2>. QED
      BY <2>1, <2>2, <2>3
  <1>. QED
    BY <1>1, <1>2, <1>3, <1>5, <1>6, <1>7, <1>8, <1>10, AnswerIn DEF Agree, q, none

\* A block is merged into the static store.
LEMMA AgreeMerge ==
    ASSUME NEW p \in Process, NEW q, NEW in, NEW out, NEW queued, NEW assigned, NEW fs,
           Agree(p, q, in, out, queued, assigned, fs), NEW job \in q.busy
    PROVE  LET r == [q EXCEPT !.busy = (@ \ {job}) \cup {[job EXCEPT !.merged = TRUE]}]
           IN  r \in Pool /\ Agree(p, r, in, out, queued, assigned, fs)
  <1>. DEFINE done == [job EXCEPT !.merged = TRUE]
              rest == q.busy \ {job}
              r == [q EXCEPT !.busy = (@ \ {job}) \cup {done}]
  <1>1. q \in Pool /\ IsFiniteSet(q.busy)
    BY AgreeTypes
  <1>2. job \in Job
    BY <1>1, PoolFields
  <1>3. done \in Job /\ done.block = job.block /\ done.kind = job.kind /\ done.node = job.node
    BY <1>2 DEF Job
  <1>. HIDE DEF done
  <1>4. /\ r \in Pool /\ r.busy = rest \cup {done}
        /\ r.tables = q.tables /\ r.finished = q.finished
        /\ r.idle = q.idle /\ r.ready = q.ready
    BY <1>1, <1>3 DEF Pool
  <1>5. Distinct(q.busy) /\ \A j \in q.busy : j.node = fs
    BY DEF Agree
  <1>6. \A j \in rest : j.block # done.block
    BY <1>3, <1>5 DEF Distinct
  <1>7. Distinct(r.busy) /\ BlocksOf(r.busy) = BlocksOf(q.busy) /\ \A j \in r.busy : j.node = fs
    BY <1>3, <1>4, <1>5, <1>6 DEF Distinct, BlocksOf
  <1>8. IsFiniteSet(rest) /\ done \notin rest
    BY <1>1, <1>6, FS_RemoveElement
  <1>9. IsFiniteSet(r.busy)
    BY <1>4, <1>8, FS_AddElement
  <1>10. ASSUME NEW kind \in Kind
         PROVE  Cardinality(OfKind(r.busy, kind)) = Cardinality(OfKind(q.busy, kind))
    <2>. HIDE DEF rest, r
    <2>1. Cardinality(OfKind(r.busy, kind)) =
            Cardinality(OfKind(rest, kind)) + (IF done.kind = kind THEN 1 ELSE 0)
      BY <1>4, <1>8, OfKindAdd
    <2>2. Cardinality(OfKind(q.busy, kind)) =
            Cardinality(OfKind(rest, kind)) + (IF job.kind = kind THEN 1 ELSE 0)
      BY <1>1, OfKindRemove DEF rest
    <2>. QED
      BY <1>3, <2>1, <2>2
  <1>. HIDE DEF r, rest
  <1>. QED
    BY <1>4, <1>7, <1>9, <1>10 DEF Agree, r, done

\* A thread reports its block.
LEMMA AgreeReport ==
    ASSUME NEW p \in Process, NEW q, NEW in, NEW out, NEW queued, NEW assigned, NEW fs,
           Agree(p, q, in, out, queued, assigned, fs), NEW job \in q.busy
    PROVE  /\ Reported(q, job) \in Pool
           /\ Agree(p, Reported(q, job), in, out, queued, assigned, fs)
  <1>. DEFINE r == Reported(q, job)
  <1>1. /\ q \in Pool /\ IsFiniteSet(q.busy)
        /\ \A kind \in Kind : /\ q.idle[kind] \in Nat /\ q.ready[kind] \in Nat
                              /\ Cardinality(OfKind(q.busy, kind)) \in Nat
    BY AgreeTypes
  <1>2. /\ r \in Pool /\ r.tables = q.tables /\ r.busy = q.busy \ {job}
        /\ r.finished = q.finished \cup {job.block}
        /\ r.idle = q.idle /\ r.ready = [q.ready EXCEPT ![job.kind] = @ + 1]
        /\ q.ready \in [Kind -> Nat] /\ job.kind \in Kind
    BY <1>1, ReportedFields, PoolFields
  <1>. HIDE DEF r
  <1>3. /\ Distinct(q.busy) /\ \A j \in q.busy : j.node = fs
        /\ Split(assigned, SentBlocks(in), BlocksOf(q.busy), q.finished, ToldIn(out))
    BY DEF Agree
  <1>4. job.block \in BlocksOf(q.busy) /\ BlocksOf(r.busy) = BlocksOf(q.busy) \ {job.block}
    BY <1>2, <1>3 DEF BlocksOf, Distinct
  <1>5. Distinct(r.busy) /\ \A j \in r.busy : j.node = fs
    BY <1>2, <1>3 DEF Distinct
  <1>6. Split(assigned, SentBlocks(in), BlocksOf(r.busy), r.finished, ToldIn(out))
    <2>1. \A x \in BlocksOf(q.busy) :
            Split(assigned, SentBlocks(in), BlocksOf(q.busy) \ {x}, q.finished \cup {x}, ToldIn(out))
      <3>. DEFINE a == SentBlocks(in)
                  b == BlocksOf(q.busy)
                  c == q.finished
                  d == ToldIn(out)
      <3>1. Split(assigned, a, b, c, d)
        BY <1>3
      <3>. HIDE DEF a, b, c, d
      <3>2. \A x \in b : Split(assigned, a, b \ {x}, c \cup {x}, d)
        BY <3>1, SplitMoves
      <3>. QED
        BY <3>2 DEF a, b, c, d
    <2>. QED
      BY <1>2, <1>4, <2>1
  <1>7. IsFiniteSet(r.busy)
    BY <1>1, <1>2, FS_RemoveElement
  <1>8. ASSUME NEW kind \in Kind
        PROVE  r.ready[kind] + Cardinality(OfKind(r.busy, kind))
                 = q.ready[kind] + Cardinality(OfKind(q.busy, kind))
               /\ r.ready[kind] \in Nat /\ Cardinality(OfKind(r.busy, kind)) \in Nat
    <2>1. Cardinality(OfKind(q.busy, kind)) =
            Cardinality(OfKind(r.busy, kind)) + (IF job.kind = kind THEN 1 ELSE 0)
      BY <1>1, <1>2, OfKindRemove
    <2>2. Cardinality(OfKind(r.busy, kind)) \in Nat
      BY <1>7, OfKindType
    <2>3. r.ready[kind] = q.ready[kind] + (IF job.kind = kind THEN 1 ELSE 0)
      BY <1>1, <1>2
    <2>. QED
      BY <1>1, <2>1, <2>2, <2>3
  <1>9. ASSUME NEW kind \in Kind
        PROVE  NbThreads[p][kind] = r.idle[kind] + r.ready[kind]
                                    + Cardinality(OfKind(r.busy, kind))
    <2>1. NbThreads[p][kind] = q.idle[kind] + q.ready[kind] + Cardinality(OfKind(q.busy, kind))
      BY DEF Agree
    <2>2. /\ q.idle[kind] \in Nat /\ q.ready[kind] \in Nat /\ r.idle[kind] = q.idle[kind]
          /\ Cardinality(OfKind(q.busy, kind)) \in Nat
      BY <1>1, <1>2
    <2>. QED
      BY <1>8, <2>1, <2>2
  <1>10. \A kind \in Kind :
           r.idle[kind] = queued[kind] + Cardinality(SentIn(in, kind)) + ReadyIn(out, kind)
    BY <1>2 DEF Agree
  <1>11. Agree(p, r, in, out, queued, assigned, fs)
    BY <1>2, <1>5, <1>6, <1>7, <1>9, <1>10 DEF Agree
  <1>. QED
    BY <1>2, <1>11 DEF r

\* A message without a block is sent to the process; only one that was sent
\* nothing and has nothing to do is told of a new node.
LEMMA AgreeAppend ==
    ASSUME NEW p \in Process, NEW q, NEW in, NEW out, NEW queued, NEW assigned, NEW fs,
           Agree(p, q, in, out, queued, assigned, fs),
           NEW m \in Message, m.tag \notin {"assign_block", "update_config"}
    PROVE  /\ Append(in, m) \in Seq(Message)
           /\ Agree(p, q, Append(in, m), out, queued, assigned, fs)
  <1>. DEFINE t == Append(in, m)
              n == Len(in)
  <1>1. in \in Seq(Message) /\ DistinctIn(in)
    BY AgreeTypes
  <1>2. /\ t \in Seq(Message) /\ t # <<>> /\ DistinctIn(t)
        /\ \A kind \in Kind : SentIn(t, kind) = SentIn(in, kind)
    BY <1>1, SentInAppend
  <1>3. SentBlocks(t) = SentBlocks(in)
    BY <1>2, MPISets DEF SentBlocks
  <1>4. n \in Nat /\ DOMAIN in = 1 .. n
    BY <1>1, LenProperties
  <1>5. Len(t) = n + 1 /\ t[n + 1] = m /\ \A i \in 1 .. n : t[i] = in[i]
    BY <1>1, AppendProperties
  <1>6. DOMAIN t = 1 .. n + 1
    BY <1>2, <1>5, LenProperties
  <1>7. in # <<>> => 1 \in DOMAIN in /\ Head(t) = Head(in)
    <2>1. in # <<>> => n >= 1
      BY <1>1, <1>4, EmptySeq
    <2>2. Head(t) = t[1] /\ Head(in) = in[1]
      OBVIOUS
    <2>. QED
      BY <1>4, <1>5, <2>1, <2>2
  <1>8. \A i \in DOMAIN t : t[i].tag = "update_config" => i \in DOMAIN in /\ t[i] = in[i]
    BY <1>4, <1>5, <1>6
  <1>9. \A i \in DOMAIN t : t[i].tag = "update_config" => i = 1 /\ t[i].node = fs
    BY <1>8 DEF Agree
  <1>10. Head(t).tag # "update_config" => q.tables = fs
    BY <1>7 DEF Agree
  <1>. HIDE DEF t
  <1>11. Agree(p, q, t, out, queued, assigned, fs)
    BY <1>2, <1>3, <1>9, <1>10 DEF Agree
  <1>. QED
    BY <1>2, <1>11 DEF t

\* A message without a block, and not of a new node, is read.
LEMMA AgreeTail ==
    ASSUME NEW p \in Process, NEW q, NEW in, NEW out, NEW queued, NEW assigned, NEW fs,
           Agree(p, q, in, out, queued, assigned, fs), in # <<>>,
           Head(in).tag \notin {"assign_block", "update_config"}
    PROVE  /\ Tail(in) \in Seq(Message)
           /\ Agree(p, q, Tail(in), out, queued, assigned, fs)
  <1>. DEFINE t == Tail(in)
  <1>1. in \in Seq(Message) /\ DistinctIn(in)
    BY AgreeTypes
  <1>2. /\ t \in Seq(Message) /\ DistinctIn(t)
        /\ \A kind \in Kind : SentIn(t, kind) = SentIn(in, kind)
        /\ Len(in) \in Nat /\ DOMAIN t = 1 .. Len(in) - 1
        /\ \A i \in DOMAIN t : i + 1 \in DOMAIN in /\ t[i] = in[i + 1]
    BY <1>1, SentInTail
  <1>3. SentBlocks(t) = SentBlocks(in)
    BY <1>2, MPISets DEF SentBlocks
  <1>4. \A i \in DOMAIN t : i + 1 # 1
    BY <1>2
  <1>5. \A i \in DOMAIN t : t[i].tag # "update_config"
    BY <1>2, <1>4 DEF Agree
  <1>6. q.tables = fs
    BY DEF Agree
  <1>. HIDE DEF t
  <1>7. Agree(p, q, t, out, queued, assigned, fs)
    BY <1>2, <1>3, <1>5, <1>6 DEF Agree
  <1>. QED
    BY <1>2, <1>7 DEF t

\* The process learns of the node in use.
LEMMA AgreeConfigured ==
    ASSUME NEW p \in Process, NEW q, NEW in, NEW out, NEW queued, NEW assigned, NEW fs,
           Agree(p, q, in, out, queued, assigned, fs), in # <<>>,
           Head(in).tag = "update_config"
    PROVE  LET r == [q EXCEPT !.tables = Head(in).node]
           IN  /\ Tail(in) \in Seq(Message) /\ r \in Pool
               /\ Agree(p, r, Tail(in), out, queued, assigned, fs)
  <1>. DEFINE t == Tail(in)
              r == [q EXCEPT !.tables = Head(in).node]
  <1>1. in \in Seq(Message) /\ DistinctIn(in) /\ q \in Pool
    BY AgreeTypes
  <1>2. /\ t \in Seq(Message) /\ DistinctIn(t)
        /\ Head(in) \in Message /\ Head(in) = in[1]
        /\ \A kind \in Kind : SentIn(t, kind) = SentIn(in, kind)
        /\ Len(in) \in Nat \ {0} /\ DOMAIN t = 1 .. Len(in) - 1 /\ DOMAIN in = 1 .. Len(in)
        /\ \A i \in DOMAIN t : i + 1 \in DOMAIN in /\ t[i] = in[i + 1]
    BY <1>1, SentInTail
  <1>3. SentBlocks(t) = SentBlocks(in)
    BY <1>2, MPISets DEF SentBlocks
  <1>4. \A i \in DOMAIN t : i + 1 # 1
    BY <1>2
  <1>5. \A i \in DOMAIN t : t[i].tag # "update_config"
    BY <1>2, <1>4 DEF Agree
  <1>6. 1 \in DOMAIN in
    BY <1>2
  <1>7. Head(in).node = fs /\ Head(in).node \in Node
    BY <1>2, <1>6, MessageFields DEF Agree
  <1>8. /\ r \in Pool /\ r.tables = fs /\ r.idle = q.idle /\ r.ready = q.ready
        /\ r.busy = q.busy /\ r.finished = q.finished
    BY <1>1, <1>7 DEF Pool
  <1>. HIDE DEF t, r
  <1>9. Agree(p, r, t, out, queued, assigned, fs)
    BY <1>2, <1>3, <1>5, <1>8 DEF Agree
  <1>. QED
    BY <1>2, <1>8, <1>9 DEF t, r

\* update_config: nothing is assigned to the process, or on its way to it.
LEMMA AgreeNewNode ==
    ASSUME NEW p \in Process, NEW q, NEW out, NEW queued, NEW fs, NEW n \in Node,
           Agree(p, q, <<>>, out, queued, {}, fs)
    PROVE  /\ [q EXCEPT !.tables = n] \in Pool
           /\ Agree(p, [q EXCEPT !.tables = n], <<>>, out, queued, {}, n)
           /\ LET in == Append(<<>>, [tag |-> "update_config", node |-> n])
              IN  in \in Seq(Message) /\ Agree(p, q, in, out, queued, {}, n)
  <1>. DEFINE m == [tag |-> "update_config", node |-> n]
              in == Append(<<>>, m)
              r == [q EXCEPT !.tables = n]
  <1>1. q \in Pool /\ q.busy = {}
    <2>1. BlocksOf(q.busy) = {}
      BY SplitMoves DEF Agree
    <2>. QED
      BY <2>1 DEF BlocksOf, Agree
  <1>2. /\ r \in Pool /\ r.tables = n /\ r.idle = q.idle /\ r.ready = q.ready
        /\ r.busy = q.busy /\ r.finished = q.finished
    BY <1>1 DEF Pool
  <1>3. m \in Message
    BY MadeMessages
  <1>4. <<>> \in Seq(Message) /\ DOMAIN <<>> = {}
    BY EmptySeq
  <1>5. /\ in \in Seq(Message) /\ in # <<>> /\ DistinctIn(in)
        /\ \A kind \in Kind : SentIn(in, kind) = SentIn(<<>>, kind)
    BY <1>3, <1>4, SentInAppend, SentInEmpty
  <1>6. SentBlocks(in) = SentBlocks(<<>>)
    BY <1>5, MPISets DEF SentBlocks
  <1>7. in = <<m>>
    OBVIOUS
  <1>8. DOMAIN in = {1} /\ in[1] = m /\ Head(in) = m
    <2>1. DOMAIN in = 1 .. 1
      BY <1>7
    <2>2. \A x : x \in 1 .. 1 <=> x = 1
      OBVIOUS
    <2>. QED
      BY <1>7, <2>1, <2>2
  <1>9. m.tag = "update_config" /\ m.node = n
    OBVIOUS
  <1>. HIDE DEF m, r, in
  <1>10. Agree(p, r, <<>>, out, queued, {}, n)
    BY <1>1, <1>2, <1>4 DEF Agree
  <1>11. Agree(p, q, in, out, queued, {}, n)
    BY <1>1, <1>5, <1>6, <1>8, <1>9 DEF Agree
  <1>. QED
    BY <1>2, <1>5, <1>10, <1>11 DEF m, r, in

\* The process takes on a block: a thread for it is there.
LEMMA AgreeAssign ==
    ASSUME NEW p \in Process, NEW q, NEW in, NEW out, NEW queued, NEW assigned, NEW fs,
           Agree(p, q, in, out, queued, assigned, fs), in # <<>>,
           Head(in).tag = "assign_block"
    PROVE  LET m == Head(in)
               r == PoolAssign(q, m.block, m.kind)
           IN  /\ m.block \in Block /\ m.kind \in Kind /\ q.tables = fs
               /\ q.idle[m.kind] # 0
               /\ Tail(in) \in Seq(Message) /\ r \in Pool
               /\ Agree(p, r, Tail(in), out, queued, assigned, fs)
  <1>. DEFINE t == Tail(in)
              m == Head(in)
              r == PoolAssign(q, m.block, m.kind)
              job == [block |-> m.block, node |-> q.tables, kind |-> m.kind, merged |-> FALSE]
  <1>1. in \in Seq(Message) /\ DistinctIn(in) /\ q \in Pool /\ IsFiniteSet(q.busy)
    BY AgreeTypes
  <1>2. /\ t \in Seq(Message) /\ DistinctIn(t) /\ m \in Message
        /\ Len(in) \in Nat \ {0} /\ DOMAIN t = 1 .. Len(in) - 1
        /\ \A i \in DOMAIN t : i + 1 \in DOMAIN in /\ t[i] = in[i + 1]
    BY <1>1, SentInTail
  <1>3. m.block \in Block /\ m.kind \in Kind
    BY <1>2, MessageFields
  <1>4. /\ \A kind \in Kind : kind # m.kind => SentIn(t, kind) = SentIn(in, kind)
        /\ SentIn(t, m.kind) = SentIn(in, m.kind) \ {m.block}
        /\ m.block \in SentIn(in, m.kind)
        /\ \A kind \in Kind : m.block \notin SentIn(t, kind)
    BY <1>1, <1>3, SentInTail
  <1>5. SentBlocks(t) = SentBlocks(in) \ {m.block} /\ m.block \in SentBlocks(in)
    BY <1>3, <1>4, MPISets DEF SentBlocks
  <1>6. q.tables = fs
    BY DEF Agree
  <1>7. \A i \in DOMAIN t : t[i].tag # "update_config"
    <2>1. \A i \in DOMAIN t : i + 1 # 1
      BY <1>2
    <2>. QED
      BY <1>2, <2>1 DEF Agree
  <1>8. IsFiniteSet(SentIn(in, m.kind))
    BY <1>1, <1>3, SentInType, BlocksFinite
  <1>9. /\ Cardinality(SentIn(t, m.kind)) = Cardinality(SentIn(in, m.kind)) - 1
        /\ Cardinality(SentIn(in, m.kind)) # 0
    BY <1>4, <1>8, FS_RemoveElement, FS_EmptySet
  <1>10. /\ \A kind \in Kind :
              /\ queued[kind] \in Nat /\ q.idle[kind] \in Nat /\ q.ready[kind] \in Nat
              /\ Cardinality(SentIn(in, kind)) \in Nat /\ ReadyIn(out, kind) \in Nat
              /\ Cardinality(OfKind(q.busy, kind)) \in Nat
    BY AgreeTypes
  <1>11. \A kind \in Kind :
           /\ q.idle[kind] = queued[kind] + Cardinality(SentIn(in, kind)) + ReadyIn(out, kind)
           /\ NbThreads[p][kind] = q.idle[kind] + q.ready[kind]
                                   + Cardinality(OfKind(q.busy, kind))
    BY DEF Agree
  <1>12. q.idle[m.kind] # 0
    BY <1>3, <1>9, <1>10, <1>11
  <1>. HIDE DEF m
  <1>13. /\ r \in Pool /\ r.tables = q.tables /\ r.ready = q.ready /\ r.finished = q.finished
         /\ r.idle = [q.idle EXCEPT ![m.kind] = @ - 1]
         /\ r.busy = q.busy \cup {job}
         /\ job.block = m.block /\ job.kind = m.kind /\ job.node = fs
    <2>1. job.block = m.block /\ job.kind = m.kind /\ job.node = fs
      BY <1>6
    <2>. QED
      BY <1>1, <1>3, <1>12, <2>1, PoolAssignFields
  <1>. HIDE DEF t, r, job
  <1>14. m.block \notin BlocksOf(q.busy)
    BY <1>5 DEF Agree, Split
  <1>15. job \notin q.busy
    BY <1>13, <1>14 DEF BlocksOf
  <1>16. /\ Distinct(r.busy) /\ BlocksOf(r.busy) = BlocksOf(q.busy) \cup {m.block}
         /\ \A j \in r.busy : j.node = fs
    <2>1. Distinct(q.busy) /\ \A j \in q.busy : j.node = fs
      BY DEF Agree
    <2>. QED
      BY <1>13, <1>14, <2>1 DEF Distinct, BlocksOf
  <1>17. Split(assigned, SentBlocks(t), BlocksOf(r.busy), r.finished, ToldIn(out))
    <2>. DEFINE a == SentBlocks(in)
                b == BlocksOf(q.busy)
                c == q.finished
                d == ToldIn(out)
    <2>1. Split(assigned, a, b, c, d)
      BY DEF Agree
    <2>. HIDE DEF a, b, c, d
    <2>2. \A x \in a : Split(assigned, a \ {x}, b \cup {x}, c, d)
      BY <2>1, SplitMoves
    <2>. QED
      BY <1>5, <1>13, <1>16, <2>2 DEF a, b, c, d
  <1>18. IsFiniteSet(r.busy) /\ \A kind \in Kind :
           Cardinality(OfKind(r.busy, kind)) =
             Cardinality(OfKind(q.busy, kind)) + (IF m.kind = kind THEN 1 ELSE 0)
    <2>1. \A kind : /\ IsFiniteSet(q.busy \cup {job})
                    /\ Cardinality(OfKind(q.busy \cup {job}, kind)) =
                         Cardinality(OfKind(q.busy, kind)) + (IF job.kind = kind THEN 1 ELSE 0)
      BY <1>1, <1>15, OfKindAdd
    <2>. QED
      BY <1>13, <2>1
  <1>19. q.idle \in [Kind -> Nat]
    BY <1>1, PoolFields
  <1>20. ASSUME NEW kind \in Kind
         PROVE  /\ r.idle[kind] = queued[kind] + Cardinality(SentIn(t, kind)) + ReadyIn(out, kind)
                /\ NbThreads[p][kind] = r.idle[kind] + r.ready[kind]
                                        + Cardinality(OfKind(r.busy, kind))
    <2>1. r.idle[kind] = IF m.kind = kind THEN q.idle[kind] - 1 ELSE q.idle[kind]
      BY <1>3, <1>13, <1>19
    <2>2. Cardinality(SentIn(t, kind)) = IF m.kind = kind THEN Cardinality(SentIn(in, kind)) - 1
                                         ELSE Cardinality(SentIn(in, kind))
      BY <1>4, <1>9
    <2>3. r.ready[kind] = q.ready[kind]
      BY <1>13
    <2>4. /\ queued[kind] \in Nat /\ q.idle[kind] \in Nat /\ q.ready[kind] \in Nat
          /\ Cardinality(SentIn(in, kind)) \in Nat /\ ReadyIn(out, kind) \in Nat
          /\ Cardinality(OfKind(q.busy, kind)) \in Nat
      BY <1>10
    <2>5. /\ q.idle[kind] = queued[kind] + Cardinality(SentIn(in, kind)) + ReadyIn(out, kind)
          /\ NbThreads[p][kind] = q.idle[kind] + q.ready[kind]
                                  + Cardinality(OfKind(q.busy, kind))
      BY <1>11
    <2>6. Cardinality(OfKind(r.busy, kind)) =
            Cardinality(OfKind(q.busy, kind)) + (IF m.kind = kind THEN 1 ELSE 0)
      BY <1>18
    <2>7. CASE m.kind = kind
      <3>1. /\ r.idle[kind] = q.idle[kind] - 1
            /\ Cardinality(SentIn(t, kind)) = Cardinality(SentIn(in, kind)) - 1
            /\ Cardinality(OfKind(r.busy, kind)) = Cardinality(OfKind(q.busy, kind)) + 1
        BY <2>1, <2>2, <2>6, <2>7
      <3>. /\ r.idle[kind] \in Nat /\ Cardinality(SentIn(t, kind)) \in Nat
           /\ Cardinality(OfKind(r.busy, kind)) \in Nat /\ r.ready[kind] \in Nat
        BY <1>2, <1>13, <1>18, PoolFields, SentInType, OfKindType
      <3>2. r.idle[kind] = queued[kind] + Cardinality(SentIn(t, kind)) + ReadyIn(out, kind)
        BY <2>4, <2>5, <3>1
      <3>3. NbThreads[p][kind] = r.idle[kind] + r.ready[kind] + Cardinality(OfKind(r.busy, kind))
        <4>1. NbThreads[p][kind] \in Nat
          BY MPIAssumption
        <4>2. NbThreads[p][kind] = (r.idle[kind] + 1) + q.ready[kind]
                                   + (Cardinality(OfKind(r.busy, kind)) - 1)
          BY <2>4, <2>5, <3>1
        <4>. QED
          BY <2>3, <4>1, <4>2
      <3>. QED
        BY <3>2, <3>3
    <2>8. CASE m.kind # kind
      BY <2>1, <2>2, <2>3, <2>4, <2>5, <2>6, <2>8
    <2>. QED
      BY <2>7, <2>8
  <1>21. queued \in [Kind -> Nat] /\ assigned \in SUBSET Block /\ out \in Seq(Reply)
    BY AgreeTypes
  <1>22. Agree(p, r, t, out, queued, assigned, fs)
    BY <1>2, <1>6, <1>7, <1>13, <1>16, <1>17, <1>18, <1>20, <1>21 DEF Agree
  <1>. QED
    BY <1>2, <1>3, <1>6, <1>12, <1>13, <1>22 DEF t, m, r

\* It answers which threads have become ready.
LEMMA AgreeAnswerReady ==
    ASSUME NEW p \in Process, NEW q, NEW in, NEW queued, NEW assigned, NEW fs,
           Agree(p, q, in, <<>>, queued, assigned, fs)
    PROVE  LET m == [tag |-> "ready", ready |-> q.ready]
           IN  /\ m \in Reply /\ ReadyFlushed(q) \in Pool
               /\ Agree(p, ReadyFlushed(q), in, <<m>>, queued, assigned, fs)
  <1>. DEFINE m == [tag |-> "ready", ready |-> q.ready]
              r == ReadyFlushed(q)
  <1>1. q \in Pool /\ q.ready \in [Kind -> Nat]
    BY AgreeTypes, PoolFields
  <1>2. m \in Reply /\ m.tag = "ready" /\ m.ready = q.ready
    BY <1>1, MadeMessages
  <1>3. /\ r \in Pool /\ r.tables = q.tables /\ r.busy = q.busy /\ r.finished = q.finished
        /\ \A kind \in Kind :
             r.idle[kind] = q.idle[kind] + q.ready[kind] /\ r.ready[kind] = 0
    BY <1>1, ReadyFlushedFields
  <1>4. <<m>> \in Seq(Reply)
    BY <1>2
  <1>. HIDE DEF m, r
  <1>5. ToldIn(<<m>>) = ToldIn(<<>>) /\ \A kind : ReadyIn(<<m>>, kind) = q.ready[kind]
    BY <1>2, AnswerIn
  <1>6. ASSUME NEW kind \in Kind
        PROVE  /\ r.idle[kind] = queued[kind] + Cardinality(SentIn(in, kind)) + ReadyIn(<<m>>, kind)
               /\ NbThreads[p][kind] = r.idle[kind] + r.ready[kind]
                                       + Cardinality(OfKind(r.busy, kind))
    <2>1. /\ q.idle[kind] = queued[kind] + Cardinality(SentIn(in, kind)) + ReadyIn(<<>>, kind)
          /\ NbThreads[p][kind] = q.idle[kind] + q.ready[kind]
                                  + Cardinality(OfKind(q.busy, kind))
      BY DEF Agree
    <2>2. /\ queued[kind] \in Nat /\ q.idle[kind] \in Nat /\ q.ready[kind] \in Nat
          /\ Cardinality(SentIn(in, kind)) \in Nat /\ Cardinality(OfKind(q.busy, kind)) \in Nat
      BY AgreeTypes
    <2>. QED
      BY <1>3, <1>5, <2>1, <2>2, AnswerIn
  <1>7. Agree(p, r, in, <<m>>, queued, assigned, fs)
    BY <1>3, <1>4, <1>5, <1>6 DEF Agree
  <1>. QED
    BY <1>2, <1>3, <1>7 DEF m, r

\* It answers which blocks are finished.
LEMMA AgreeAnswerFinished ==
    ASSUME NEW p \in Process, NEW q, NEW in, NEW queued, NEW assigned, NEW fs,
           Agree(p, q, in, <<>>, queued, assigned, fs)
    PROVE  LET m == [tag |-> "finished", blocks |-> q.finished]
           IN  /\ m \in Reply /\ FinishedFlushed(q) \in Pool
               /\ Agree(p, FinishedFlushed(q), in, <<m>>, queued, assigned, fs)
  <1>. DEFINE m == [tag |-> "finished", blocks |-> q.finished]
              r == FinishedFlushed(q)
  <1>1. q \in Pool /\ q.finished \in SUBSET Block
    BY AgreeTypes, PoolFields
  <1>2. m \in Reply /\ m.tag = "finished" /\ m.blocks = q.finished
    BY <1>1, MadeMessages
  <1>3. /\ r \in Pool /\ r.tables = q.tables /\ r.busy = q.busy /\ r.finished = {}
        /\ r.idle = q.idle /\ r.ready = q.ready
    BY <1>1, FinishedFlushedFields
  <1>4. <<m>> \in Seq(Reply)
    BY <1>2
  <1>. HIDE DEF m, r
  <1>5. ToldIn(<<m>>) = q.finished /\ \A kind : ReadyIn(<<m>>, kind) = ReadyIn(<<>>, kind)
    BY <1>2, AnswerIn
  <1>6. Split(assigned, SentBlocks(in), BlocksOf(r.busy), r.finished, ToldIn(<<m>>))
    <2>. DEFINE a == SentBlocks(in)
                b == BlocksOf(q.busy)
                c == q.finished
    <2>1. Split(assigned, a, b, c, {})
      BY AnswerIn DEF Agree
    <2>. HIDE DEF a, b, c
    <2>2. Split(assigned, a, b, {}, c)
      BY <2>1, SplitMoves
    <2>. QED
      BY <1>3, <1>5, <2>2 DEF a, b, c
  <1>7. Agree(p, r, in, <<m>>, queued, assigned, fs)
    BY <1>3, <1>4, <1>5, <1>6 DEF Agree
  <1>. QED
    BY <1>2, <1>3, <1>7 DEF m, r

\* It answers with its stores.
LEMMA AgreeAnswerSave ==
    ASSUME NEW p \in Process, NEW q, NEW in, NEW queued, NEW assigned, NEW fs, NEW s \in Saving,
           Agree(p, q, in, <<>>, queued, assigned, fs)
    PROVE  LET m == [tag |-> "save", stores |-> s]
           IN  m \in Reply /\ Agree(p, q, in, <<m>>, queued, assigned, fs)
  <1>. DEFINE m == [tag |-> "save", stores |-> s]
  <1>1. m \in Reply /\ m.tag = "save"
    BY MadeMessages
  <1>2. <<m>> \in Seq(Reply)
    BY <1>1
  <1>. HIDE DEF m
  <1>3. ToldIn(<<m>>) = ToldIn(<<>>) /\ \A kind : ReadyIn(<<m>>, kind) = ReadyIn(<<>>, kind)
    BY <1>1, AnswerIn
  <1>4. Agree(p, q, in, <<m>>, queued, assigned, fs)
    BY <1>2, <1>3 DEF Agree
  <1>. QED
    BY <1>1, <1>4 DEF m

\* The master takes an answer: the finished blocks, ...
LEMMA AgreeTakeFinished ==
    ASSUME NEW p \in Process, NEW q, NEW in, NEW m, NEW queued, NEW assigned, NEW fs,
           Agree(p, q, in, <<m>>, queued, assigned, fs), m.tag = "finished"
    PROVE  /\ m.blocks \subseteq assigned
           /\ assigned \ m.blocks \in SUBSET Block
           /\ Agree(p, q, in, <<>>, queued, assigned \ m.blocks, fs)
  <1>1. ToldIn(<<m>>) = m.blocks /\ \A kind : ReadyIn(<<m>>, kind) = 0
    BY AnswerIn
  <1>2. ToldIn(<<>>) = {} /\ \A kind : ReadyIn(<<>>, kind) = 0
    BY AnswerIn
  <1>3. /\ m.blocks \subseteq assigned
        /\ Split(assigned \ m.blocks, SentBlocks(in), BlocksOf(q.busy), q.finished, {})
    <2>. DEFINE a == SentBlocks(in)
                b == BlocksOf(q.busy)
                c == q.finished
                d == m.blocks
    <2>1. Split(assigned, a, b, c, d)
      BY <1>1 DEF Agree
    <2>. HIDE DEF a, b, c, d
    <2>2. d \subseteq assigned /\ Split(assigned \ d, a, b, c, {})
      BY <2>1, SplitMoves
    <2>. QED
      BY <2>2 DEF a, b, c, d
  <1>4. assigned \ m.blocks \in SUBSET Block
    BY AgreeTypes
  <1>5. <<>> \in Seq(Reply)
    BY EmptySeq
  <1>6. Agree(p, q, in, <<>>, queued, assigned \ m.blocks, fs)
    BY <1>1, <1>2, <1>3, <1>4, <1>5 DEF Agree
  <1>. QED
    BY <1>3, <1>4, <1>6

LEMMA AgreeOwnFinished ==
    ASSUME NEW p \in Process, NEW q, NEW in, NEW out, NEW queued, NEW assigned, NEW fs,
           Agree(p, q, in, out, queued, assigned, fs)
    PROVE  /\ q.finished \subseteq assigned
           /\ assigned \ q.finished \in SUBSET Block /\ FinishedFlushed(q) \in Pool
           /\ Agree(p, FinishedFlushed(q), in, out, queued, assigned \ q.finished, fs)
  <1>. DEFINE r == FinishedFlushed(q)
  <1>1. q \in Pool
    BY AgreeTypes
  <1>2. /\ r \in Pool /\ r.tables = q.tables /\ r.busy = q.busy /\ r.finished = {}
        /\ r.idle = q.idle /\ r.ready = q.ready
    BY <1>1, FinishedFlushedFields
  <1>3. /\ q.finished \subseteq assigned
        /\ Split(assigned \ q.finished, SentBlocks(in), BlocksOf(q.busy), {}, ToldIn(out))
    <2>. DEFINE a == SentBlocks(in)
                b == BlocksOf(q.busy)
                c == q.finished
                d == ToldIn(out)
    <2>1. Split(assigned, a, b, c, d)
      BY DEF Agree
    <2>. HIDE DEF a, b, c, d
    <2>2. c \subseteq assigned /\ Split(assigned \ c, a, b, {}, d)
      BY <2>1, SplitMoves
    <2>. QED
      BY <2>2 DEF a, b, c, d
  <1>4. assigned \ q.finished \in SUBSET Block
    BY AgreeTypes
  <1>. HIDE DEF r
  <1>5. Agree(p, r, in, out, queued, assigned \ q.finished, fs)
    BY <1>2, <1>3, <1>4 DEF Agree
  <1>. QED
    BY <1>2, <1>3, <1>4, <1>5 DEF r

\* ... the threads that have become ready, ...
LEMMA AgreeTakeReady ==
    ASSUME NEW p \in Process, NEW q, NEW in, NEW m, NEW queued, NEW assigned, NEW fs,
           Agree(p, q, in, <<m>>, queued, assigned, fs), m.tag = "ready",
           NEW more \in [Kind -> Nat],
           \A kind \in Kind : more[kind] = queued[kind] + m.ready[kind]
    PROVE  Agree(p, q, in, <<>>, more, assigned, fs)
  <1>1. ToldIn(<<m>>) = ToldIn(<<>>) /\ \A kind : ReadyIn(<<m>>, kind) = m.ready[kind]
    BY AnswerIn
  <1>2. \A kind : ReadyIn(<<>>, kind) = 0
    BY AnswerIn
  <1>3. ASSUME NEW kind \in Kind
        PROVE  q.idle[kind] = more[kind] + Cardinality(SentIn(in, kind)) + ReadyIn(<<>>, kind)
    <2>1. q.idle[kind] = queued[kind] + Cardinality(SentIn(in, kind)) + m.ready[kind]
      BY <1>1 DEF Agree
    <2>2. queued[kind] \in Nat /\ Cardinality(SentIn(in, kind)) \in Nat /\ m.ready[kind] \in Nat
      <3>1. /\ queued[kind] \in Nat /\ Cardinality(SentIn(in, kind)) \in Nat
            /\ ReadyIn(<<m>>, kind) \in Nat
        BY AgreeTypes
      <3>. QED
        BY <1>1, <3>1
    <2>3. more[kind] = queued[kind] + m.ready[kind] /\ more[kind] \in Nat
      OBVIOUS
    <2>4. q.idle[kind] = more[kind] + Cardinality(SentIn(in, kind))
      BY <2>1, <2>2, <2>3
    <2>. QED
      BY <1>2, <2>2, <2>3, <2>4
  <1>4. <<>> \in Seq(Reply)
    BY EmptySeq
  <1>. QED
    BY <1>1, <1>3, <1>4 DEF Agree

LEMMA AgreeOwnReady ==
    ASSUME NEW p \in Process, NEW q, NEW in, NEW out, NEW queued, NEW assigned, NEW fs,
           Agree(p, q, in, out, queued, assigned, fs),
           NEW more \in [Kind -> Nat],
           \A kind \in Kind : more[kind] = queued[kind] + q.ready[kind]
    PROVE  /\ ReadyFlushed(q) \in Pool
           /\ Agree(p, ReadyFlushed(q), in, out, more, assigned, fs)
  <1>. DEFINE r == ReadyFlushed(q)
  <1>1. q \in Pool
    BY AgreeTypes
  <1>2. /\ r \in Pool /\ r.tables = q.tables /\ r.busy = q.busy /\ r.finished = q.finished
        /\ \A kind \in Kind :
             r.idle[kind] = q.idle[kind] + q.ready[kind] /\ r.ready[kind] = 0
    BY <1>1, ReadyFlushedFields
  <1>. HIDE DEF r
  <1>3. ASSUME NEW kind \in Kind
        PROVE  /\ r.idle[kind] = more[kind] + Cardinality(SentIn(in, kind)) + ReadyIn(out, kind)
               /\ NbThreads[p][kind] = r.idle[kind] + r.ready[kind]
                                       + Cardinality(OfKind(r.busy, kind))
    <2>1. /\ q.idle[kind] = queued[kind] + Cardinality(SentIn(in, kind)) + ReadyIn(out, kind)
          /\ NbThreads[p][kind] = q.idle[kind] + q.ready[kind]
                                  + Cardinality(OfKind(q.busy, kind))
      BY DEF Agree
    <2>2. /\ queued[kind] \in Nat /\ q.idle[kind] \in Nat /\ q.ready[kind] \in Nat
          /\ Cardinality(SentIn(in, kind)) \in Nat /\ Cardinality(OfKind(q.busy, kind)) \in Nat
          /\ ReadyIn(out, kind) \in Nat /\ NbThreads[p][kind] \in Nat
      BY AgreeTypes
    <2>3. more[kind] = queued[kind] + q.ready[kind] /\ more[kind] \in Nat
      OBVIOUS
    <2>4. r.idle[kind] = q.idle[kind] + q.ready[kind] /\ r.ready[kind] = 0 /\ r.busy = q.busy
      BY <1>2
    <2>5. r.idle[kind] = more[kind] + Cardinality(SentIn(in, kind)) + ReadyIn(out, kind)
      BY <2>1, <2>2, <2>3, <2>4
    <2>6. NbThreads[p][kind] = r.idle[kind] + r.ready[kind] + Cardinality(OfKind(r.busy, kind))
      BY <2>1, <2>2, <2>4
    <2>. QED
      BY <2>5, <2>6
  <1>4. Agree(p, r, in, out, more, assigned, fs)
    BY <1>2, <1>3 DEF Agree
  <1>. QED
    BY <1>2, <1>4 DEF r

\* ... or the stores.
LEMMA AgreeTakeSave ==
    ASSUME NEW p \in Process, NEW q, NEW in, NEW m, NEW queued, NEW assigned, NEW fs,
           Agree(p, q, in, <<m>>, queued, assigned, fs), m.tag = "save"
    PROVE  Agree(p, q, in, <<>>, queued, assigned, fs)
  <1>1. ToldIn(<<m>>) = ToldIn(<<>>) /\ \A kind : ReadyIn(<<m>>, kind) = ReadyIn(<<>>, kind)
    BY AnswerIn
  <1>2. <<>> \in Seq(Reply)
    BY EmptySeq
  <1>. QED
    BY <1>1, <1>2 DEF Agree

\* A process is taken from the queue of a kind.
OneLess(kind, queued, less) ==
    /\ less \in [Kind -> Nat]
    /\ \A k \in Kind : queued[k] = less[k] + (IF k = kind THEN 1 ELSE 0)

\* The master takes the process from a queue for a new block, and sends it there, ...
LEMMA AgreeDispatch ==
    ASSUME NEW p \in Process, NEW q, NEW in, NEW out, NEW queued, NEW assigned, NEW fs,
           Agree(p, q, in, out, queued, assigned, fs),
           NEW kind \in Kind, NEW b \in Block, b \notin assigned,
           NEW less, OneLess(kind, queued, less)
    PROVE  LET m == [tag |-> "assign_block", kind |-> kind, block |-> b]
           IN  /\ Append(in, m) \in Seq(Message)
               /\ assigned \cup {b} \in SUBSET Block
               /\ Agree(p, q, Append(in, m), out, less, assigned \cup {b}, fs)
  <1>. DEFINE m == [tag |-> "assign_block", kind |-> kind, block |-> b]
              t == Append(in, m)
              n == Len(in)
  <1>1. /\ in \in Seq(Message) /\ DistinctIn(in) /\ assigned \in SUBSET Block
        /\ \A k \in Kind : SentIn(in, k) \in SUBSET Block /\ SentIn(in, k) \subseteq SentBlocks(in)
    BY AgreeTypes
  <1>2. m \in Message /\ m.tag = "assign_block" /\ m.kind = kind /\ m.block = b
    BY MadeMessages
  <1>. HIDE DEF m
  <1>3. b \notin SentBlocks(in)
    BY DEF Agree, Split
  <1>4. \A k \in Kind : b \notin SentIn(in, k)
    BY <1>1, <1>3
  <1>5. /\ t \in Seq(Message) /\ t # <<>> /\ DistinctIn(t)
        /\ \A k \in Kind : SentIn(t, k) = IF kind = k THEN SentIn(in, k) \cup {b} ELSE SentIn(in, k)
    BY <1>1, <1>2, <1>4, SentInAppend
  <1>6. SentBlocks(t) = SentBlocks(in) \cup {b}
    BY <1>5, MPISets DEF SentBlocks
  <1>7. n \in Nat /\ DOMAIN in = 1 .. n
    BY <1>1, LenProperties
  <1>8. Len(t) = n + 1 /\ t[n + 1] = m /\ \A i \in 1 .. n : t[i] = in[i]
    BY <1>1, <1>2, AppendProperties
  <1>9. DOMAIN t = 1 .. n + 1
    BY <1>5, <1>8, LenProperties
  <1>10. in # <<>> => 1 \in DOMAIN in /\ Head(t) = Head(in)
    <2>1. in # <<>> => n >= 1
      BY <1>1, <1>7, EmptySeq
    <2>2. Head(t) = t[1] /\ Head(in) = in[1]
      OBVIOUS
    <2>. QED
      BY <1>7, <1>8, <2>1, <2>2
  <1>11. \A i \in DOMAIN t : t[i].tag = "update_config" => i \in DOMAIN in /\ t[i] = in[i]
    BY <1>2, <1>7, <1>8, <1>9
  <1>12. \A i \in DOMAIN t : t[i].tag = "update_config" => i = 1 /\ t[i].node = fs
    BY <1>11 DEF Agree
  <1>13. Head(t).tag # "update_config" => q.tables = fs
    BY <1>10 DEF Agree
  <1>. HIDE DEF t
  <1>14. ASSUME NEW k \in Kind
         PROVE  q.idle[k] = less[k] + Cardinality(SentIn(t, k)) + ReadyIn(out, k)
    <2>1. /\ q.idle[k] = queued[k] + Cardinality(SentIn(in, k)) + ReadyIn(out, k)
          /\ queued[k] = less[k] + (IF k = kind THEN 1 ELSE 0)
      BY DEF Agree, OneLess
    <2>2. /\ queued[k] \in Nat /\ q.idle[k] \in Nat /\ less[k] \in Nat
          /\ Cardinality(SentIn(in, k)) \in Nat /\ ReadyIn(out, k) \in Nat
      BY AgreeTypes DEF OneLess
    <2>3. IsFiniteSet(SentIn(in, k))
      BY <1>1, BlocksFinite
    <2>4. Cardinality(SentIn(in, k) \cup {b}) = Cardinality(SentIn(in, k)) + 1
      BY <1>4, <2>3, FS_AddElement
    <2>5. CASE k = kind
      <3>1. Cardinality(SentIn(t, k)) = Cardinality(SentIn(in, k)) + 1 /\ queued[k] = less[k] + 1
        BY <1>5, <2>1, <2>4, <2>5
      <3>. QED
        BY <2>1, <2>2, <3>1
    <2>6. CASE k # kind
      <3>1. Cardinality(SentIn(t, k)) = Cardinality(SentIn(in, k)) /\ queued[k] = less[k]
        BY <1>5, <2>1, <2>2, <2>6
      <3>. QED
        BY <2>1, <2>2, <3>1
    <2>. QED
      BY <2>5, <2>6
  <1>15. Split(assigned \cup {b}, SentBlocks(t), BlocksOf(q.busy), q.finished, ToldIn(out))
    <2>. DEFINE a == SentBlocks(in)
                c == BlocksOf(q.busy)
                d == q.finished
                e == ToldIn(out)
    <2>1. Split(assigned, a, c, d, e)
      BY DEF Agree
    <2>. HIDE DEF a, c, d, e
    <2>2. Split(assigned \cup {b}, a \cup {b}, c, d, e)
      BY <2>1, SplitMoves
    <2>. QED
      BY <1>6, <2>2 DEF a, c, d, e
  <1>16. assigned \cup {b} \in SUBSET Block
    BY <1>1
  <1>17. Agree(p, q, t, out, less, assigned \cup {b}, fs)
    BY <1>5, <1>12, <1>13, <1>14, <1>15, <1>16 DEF Agree, OneLess
  <1>. QED
    BY <1>5, <1>16, <1>17 DEF t, m

\* ... or gives it to a thread of its own, which is there.
LEMMA AgreeDispatchOwn ==
    ASSUME NEW p \in Process, NEW q, NEW queued, NEW assigned, NEW fs,
           Agree(p, q, <<>>, <<>>, queued, assigned, fs),
           NEW kind \in Kind, NEW b \in Block, b \notin assigned,
           NEW less, OneLess(kind, queued, less)
    PROVE  LET r == PoolAssign(q, b, kind)
           IN  /\ q.idle[kind] # 0 /\ q.tables = fs
               /\ r \in Pool /\ assigned \cup {b} \in SUBSET Block
               /\ Agree(p, r, <<>>, <<>>, less, assigned \cup {b}, fs)
  <1>. DEFINE m == [tag |-> "assign_block", kind |-> kind, block |-> b]
  <1>0. PICK none : none = <<>>
    OBVIOUS
  <1>. DEFINE in == Append(none, m)
  <1>1. /\ in \in Seq(Message) /\ assigned \cup {b} \in SUBSET Block
        /\ Agree(p, q, in, <<>>, less, assigned \cup {b}, fs)
    <2>1. Agree(p, q, none, <<>>, queued, assigned, fs)
      BY <1>0
    <2>. QED
      BY <2>1, AgreeDispatch
  <1>2. in = <<m>>
    BY <1>0
  <1>3. in # <<>> /\ Head(in) = m /\ Tail(in) = <<>>
    BY <1>2
  <1>4. m.tag = "assign_block" /\ m.kind = kind /\ m.block = b
    OBVIOUS
  <1>. HIDE DEF in, m
  <1>5. LET r == PoolAssign(q, b, kind)
        IN  /\ q.tables = fs /\ q.idle[kind] # 0 /\ r \in Pool
            /\ Agree(p, r, Tail(in), <<>>, less, assigned \cup {b}, fs)
    BY <1>1, <1>3, <1>4, AgreeAssign
  <1>. QED
    BY <1>1, <1>3, <1>5

-----------------------------------------------------------------------------
(* What a step leaves alone                                                *)

\* Nothing that process p has to agree with changes.
Unmoved(p) ==
    /\ pool'[p] = pool[p]
    /\ p # Master => inbox'[p] = inbox[p] /\ outbox'[p] = outbox[p]
    /\ \A kind \in Kind : Occurrences(idle_queue'[kind], p) = Occurrences(idle_queue[kind], p)
    /\ assigned_blocks'[p] = assigned_blocks[p]

LEMMA AgreeFrame ==
    ASSUME NEW p \in Process, AgreeAt(p), Unmoved(p), file_store' = file_store
    PROVE  AgreeAt(p)'
  <1>1. Inbox(p)' = Inbox(p) /\ Outbox(p)' = Outbox(p)
    BY DEF Unmoved, Inbox, Outbox
  <1>2. Queued(p)' = Queued(p)
    BY DEF Unmoved, Queued
  <1>. QED
    BY <1>1, <1>2 DEF AgreeAt, Unmoved

LEMMA AgreeAllFrame ==
    ASSUME AgreeInv, UNCHANGED <<pool, inbox, outbox, idle_queue, assigned_blocks, file_store>>
    PROVE  AgreeInv'
  <1>1. \A p \in Process : Unmoved(p)
    BY DEF Unmoved
  <1>. QED
    BY <1>1, AgreeFrame DEF AgreeInv

LEMMA ApartFrame ==
    ASSUME ApartInv, UNCHANGED assigned_blocks, MPITypeOK, block' \in Int, block' >= block
    PROVE  ApartInv'
  <1>1. \A p \in Process : \A b \in assigned_blocks[p] : b \in Int
    BY MPISets DEF MPITypeOK
  <1>2. block \in Int
    BY MPISets DEF MPITypeOK
  <1>. QED
    BY <1>1, <1>2 DEF ApartInv

\* The master does not move.
LEMMA ControlFrame ==
    ASSUME ControlInv,
           UNCHANGED <<main, position, peer, asked, idle_queue, assigned_blocks, files, file_store>>
    PROVE  ControlInv'
  <1>1. UNCHANGED <<within, node, block>>
    BY DEF position
  <1>. QED
    BY <1>1 DEF ControlInv, Waited, Assigning

LEMMA ChannelFrame ==
    ASSUME AskInv, DrainedInv, UNCHANGED <<main, within, peer, asked, inbox, outbox>>
    PROVE  AskInv' /\ DrainedInv'
  BY DEF AskInv, AskAt, Asked, NoQuestion, DrainedInv, Waited, Assigning

\* The master is at no question, before and after.
LEMMA AskFrame ==
    ASSUME AskInv, ~ asked, ~ asked', UNCHANGED <<inbox, outbox>>
    PROVE  AskInv'
  BY DEF AskInv, AskAt, Asked, NoQuestion

LEMMA TypeFrame ==
    ASSUME MPITypeOK,
           UNCHANGED <<main, position, peer, asked, idle_queue, assigned_blocks, thrown, crashes>>,
           FileStoreTypeOK', pool' \in [Process -> Pool],
           worker_record' \in [Worker -> SUBSET Block], worker_store' \in [Worker -> Counts],
           worker' \in [Worker -> {"broadcast", "loop", "join", "exited"}],
           inbox' \in [Worker -> Seq(Message)], outbox' \in [Worker -> Seq(Reply)]
    PROVE  MPITypeOK'
  <1>1. UNCHANGED <<within, node, block>>
    BY DEF position
  <1>. QED
    BY <1>1 DEF MPITypeOK

LEMMA FileTypeFrame == FileStoreTypeOK /\ UNCHANGED store_vars => FileStoreTypeOK'
  BY DEF FileStoreTypeOK, store_vars

-----------------------------------------------------------------------------
(* The threads                                                             *)

\* One pool changes.
LEMMA PoolStep ==
    ASSUME IInv, NEW p \in Process, NEW q \in Pool,
           pool' = [pool EXCEPT ![p] = q],
           Agree(p, q, Inbox(p), Outbox(p), Queued(p), assigned_blocks[p], file_store),
           UNCHANGED <<inbox, outbox, idle_queue, assigned_blocks, file_store>>
    PROVE  /\ pool' \in [Process -> Pool]
           /\ AgreeInv'
  <1>1. pool \in [Process -> Pool]
    BY DEF IInv, MPITypeOK
  <1>2. pool'[p] = q /\ \A o \in Process : o # p => pool'[o] = pool[o]
    BY <1>1
  <1>3. Inbox(p)' = Inbox(p) /\ Outbox(p)' = Outbox(p) /\ Queued(p)' = Queued(p)
    BY DEF Inbox, Outbox, Queued
  <1>4. AgreeAt(p)'
    BY <1>2, <1>3 DEF AgreeAt
  <1>5. ASSUME NEW o \in Process, o # p PROVE AgreeAt(o)'
    <2>1. Unmoved(o)
      BY <1>2, <1>5 DEF Unmoved
    <2>. QED
      BY <2>1, AgreeFrame DEF IInv, AgreeInv
  <1>. QED
    BY <1>1, <1>4, <1>5 DEF AgreeInv

\* A block is added to counts.
LEMMA CountAdded ==
    ASSUME NEW f \in Counts, NEW n, NEW b \in Block
    PROVE  [f EXCEPT ![n][b] = @ + 1] \in Counts
  <1>. DEFINE row == [f[n] EXCEPT ![b] = @ + 1]
  <1>1. [f EXCEPT ![n][b] = @ + 1] = [f EXCEPT ![n] = row]
    OBVIOUS
  <1>2. CASE n \in Node
    <2>1. f[n] \in [Block -> Nat]
      BY <1>2 DEF Counts
    <2>2. row \in [Block -> Nat]
      BY <2>1
    <2>. HIDE DEF row
    <2>. QED
      BY <1>1, <2>2 DEF Counts
  <1>3. CASE n \notin Node
    <2>. HIDE DEF row
    <2>1. [f EXCEPT ![n] = row] = f
      BY <1>3 DEF Counts
    <2>. QED
      BY <1>1, <2>1
  <1>. QED
    BY <1>2, <1>3

LEMMA ThreadStepIInv == ASSUME IInv, NEW p \in Process, ThreadStep(p) PROVE IInv'
  <1>. USE DEF ThreadStep
  <1>1. UNCHANGED <<main, position, peer, asked, idle_queue, assigned_blocks, thrown, crashes,
                    within, node, block>>
    BY DEF book_vars, position
  <1>2. AgreeAt(p) /\ pool \in [Process -> Pool] /\ pool[p] \in Pool
    BY DEF IInv, AgreeInv, MPITypeOK
  <1>3. /\ UNCHANGED <<worker, inbox, outbox, files, file_store, initial_record, saving>>
        /\ FileStoreTypeOK' /\ worker_record' \in [Worker -> SUBSET Block]
        /\ worker_store' \in [Worker -> Counts]
        /\ pool' \in [Process -> Pool] /\ AgreeInv'
    <2>1. CASE Merge(p)
      <3>1. PICK job \in pool[p].busy :
              /\ pool' = [pool EXCEPT ![p].busy = (@ \ {job}) \cup {[job EXCEPT !.merged = TRUE]}]
              /\ IF p = Master
                 THEN /\ FlushToStaticStore(job.block, job.node)
                      /\ UNCHANGED <<worker_record, worker_store>>
                 ELSE /\ worker_record' = [worker_record EXCEPT ![p] = @ \cup {job.block}]
                      /\ worker_store' = [worker_store EXCEPT ![p][job.node][job.block] = @ + 1]
                      /\ UNCHANGED store_vars
        BY <2>1 DEF Merge
      <3>2. job.block \in Block
        BY <1>2, PoolFields
      <3>3. UNCHANGED <<worker, inbox, outbox>>
        BY <2>1 DEF Merge
      <3>4. UNCHANGED <<files, file_store, initial_record, saving>>
        BY <3>1 DEF FlushToStaticStore, store_vars
      <3>. DEFINE q == [pool[p] EXCEPT !.busy = (@ \ {job}) \cup {[job EXCEPT !.merged = TRUE]}]
      <3>5. pool' = [pool EXCEPT ![p] = q]
        BY <3>1
      <3>6. /\ q \in Pool
            /\ Agree(p, q, Inbox(p), Outbox(p), Queued(p), assigned_blocks[p], file_store)
        BY <1>2, AgreeMerge DEF AgreeAt
      <3>. HIDE DEF q
      <3>7. pool' \in [Process -> Pool] /\ AgreeInv'
        BY <1>1, <3>3, <3>4, <3>5, <3>6, PoolStep
      <3>8. FileStoreTypeOK'
        <4>1. CASE p = Master
          <5>1. /\ static_record' = static_record \cup {job.block}
                /\ static_store' = [static_store EXCEPT ![job.node][job.block] = @ + 1]
            BY <3>1, <4>1 DEF FlushToStaticStore
          <5>2. static_store' \in Counts
            BY <3>2, <5>1, CountAdded DEF IInv, MPITypeOK, FileStoreTypeOK
          <5>. QED
            BY <3>2, <3>4, <5>1, <5>2 DEF IInv, MPITypeOK, FileStoreTypeOK
        <4>2. CASE p # Master
          BY <3>1, <4>2, FileTypeFrame DEF IInv, MPITypeOK
        <4>. QED
          BY <4>1, <4>2
      <3>9. worker_record' \in [Worker -> SUBSET Block] /\ worker_store' \in [Worker -> Counts]
        <4>1. CASE p = Master
          BY <3>1, <4>1 DEF IInv, MPITypeOK
        <4>2. CASE p # Master
          <5>1. /\ worker_record' = [worker_record EXCEPT ![p] = @ \cup {job.block}]
                /\ worker_store' = [worker_store EXCEPT ![p][job.node][job.block] = @ + 1]
                /\ p \in Worker
            BY <3>1, <4>2, MPISets
          <5>2. worker_record \in [Worker -> SUBSET Block] /\ worker_store \in [Worker -> Counts]
            BY DEF IInv, MPITypeOK
          <5>3. worker_record' \in [Worker -> SUBSET Block]
            BY <3>2, <5>1, <5>2
          <5>4. [worker_store[p] EXCEPT ![job.node][job.block] = @ + 1] \in Counts
            BY <3>2, <5>1, <5>2, CountAdded
          <5>5. worker_store' = [worker_store EXCEPT ![p] =
                                   [worker_store[p] EXCEPT ![job.node][job.block] = @ + 1]]
            BY <5>1
          <5>. QED
            BY <5>2, <5>3, <5>4, <5>5
        <4>. QED
          BY <4>1, <4>2
      <3>. QED
        BY <3>3, <3>4, <3>7, <3>8, <3>9
    <2>2. CASE Report(p)
      <3>1. PICK job \in pool[p].busy : pool' = [pool EXCEPT ![p] = Reported(pool[p], job)]
        BY <2>2 DEF Report
      <3>2. UNCHANGED <<store_vars, worker_vars>>
        BY <2>2 DEF Report
      <3>3. UNCHANGED <<worker, inbox, outbox, worker_record, worker_store, files, file_store,
                        initial_record, saving>>
        BY <3>2 DEF store_vars, worker_vars
      <3>4. /\ Reported(pool[p], job) \in Pool
            /\ Agree(p, Reported(pool[p], job), Inbox(p), Outbox(p), Queued(p),
                     assigned_blocks[p], file_store)
        BY <1>2, AgreeReport DEF AgreeAt
      <3>5. pool' \in [Process -> Pool] /\ AgreeInv'
        BY <1>1, <3>1, <3>3, <3>4, PoolStep
      <3>. QED
        BY <3>2, <3>3, <3>5, FileTypeFrame DEF IInv, MPITypeOK
    <2>. QED
      BY <2>1, <2>2
  <1>4. MPITypeOK'
    BY <1>1, <1>3, TypeFrame DEF IInv, MPITypeOK
  <1>5. ControlInv'
    BY <1>1, <1>3, ControlFrame DEF IInv
  <1>6. AskInv' /\ DrainedInv'
    BY <1>1, <1>3, ChannelFrame DEF IInv
  <1>7. ApartInv'
    <2>1. block \in Int /\ block <= block
      BY MPISets DEF IInv, MPITypeOK
    <2>. QED
      BY <1>1, <2>1, ApartFrame DEF IInv
  <1>. QED
    BY <1>1, <1>3, <1>4, <1>5, <1>6, <1>7 DEF IInv, NoThrow

-----------------------------------------------------------------------------
(* The workers                                                             *)

\* One worker reads a message, or answers, or does both.
LEMMA WorkerMoved ==
    ASSUME IInv, NEW w \in Worker, NEW q \in Pool, NEW in \in Seq(Message), NEW out \in Seq(Reply),
           pool' = [pool EXCEPT ![w] = q], inbox' = [inbox EXCEPT ![w] = in],
           outbox' = [outbox EXCEPT ![w] = out],
           Agree(w, q, in, out, Queued(w), assigned_blocks[w], file_store),
           UNCHANGED <<idle_queue, assigned_blocks, file_store>>
    PROVE  /\ pool' \in [Process -> Pool] /\ inbox' \in [Worker -> Seq(Message)]
           /\ outbox' \in [Worker -> Seq(Reply)]
           /\ inbox'[w] = in /\ outbox'[w] = out /\ pool'[w] = q
           /\ \A v \in Worker : v # w => inbox'[v] = inbox[v] /\ outbox'[v] = outbox[v]
           /\ AgreeInv'
  <1>1. /\ pool \in [Process -> Pool] /\ inbox \in [Worker -> Seq(Message)]
        /\ outbox \in [Worker -> Seq(Reply)] /\ w \in Process /\ w # Master
    BY MPISets DEF IInv, MPITypeOK
  <1>2. /\ pool'[w] = q /\ inbox'[w] = in /\ outbox'[w] = out
        /\ \A o \in Process : o # w => pool'[o] = pool[o]
        /\ \A v \in Worker : v # w => inbox'[v] = inbox[v] /\ outbox'[v] = outbox[v]
    BY <1>1
  <1>3. pool' \in [Process -> Pool]
    BY <1>1
  <1>4. inbox' \in [Worker -> Seq(Message)]
    BY <1>1
  <1>5. outbox' \in [Worker -> Seq(Reply)]
    BY <1>1
  <1>6. AgreeAt(w)'
    <2>1. Inbox(w)' = in /\ Outbox(w)' = out /\ Queued(w)' = Queued(w)
      BY <1>1, <1>2 DEF Inbox, Outbox, Queued
    <2>. QED
      BY <1>2, <2>1 DEF AgreeAt
  <1>7. ASSUME NEW o \in Process, o # w PROVE AgreeAt(o)'
    <2>1. Unmoved(o)
      BY <1>2, <1>7, MPISets DEF Unmoved
    <2>. QED
      BY <2>1, AgreeFrame DEF IInv, AgreeInv
  <1>. QED
    BY <1>2, <1>3, <1>4, <1>5, <1>6, <1>7 DEF AgreeInv

\* A worker's inbox and outbox, as its process has to agree with them.
LEMMA WorkerAgrees ==
    ASSUME IInv, NEW w \in Worker
    PROVE  /\ Agree(w, pool[w], inbox[w], outbox[w], Queued(w), assigned_blocks[w], file_store)
           /\ inbox[w] \in Seq(Message) /\ outbox[w] \in Seq(Reply) /\ pool[w] \in Pool
           /\ w \in Process /\ w # Master /\ DistinctIn(inbox[w])
           /\ inbox \in [Worker -> Seq(Message)] /\ outbox \in [Worker -> Seq(Reply)]
           /\ pool \in [Process -> Pool]
  <1>1. /\ pool \in [Process -> Pool] /\ inbox \in [Worker -> Seq(Message)]
        /\ outbox \in [Worker -> Seq(Reply)] /\ w \in Process /\ w # Master
    BY MPISets DEF IInv, MPITypeOK
  <1>2. Inbox(w) = inbox[w] /\ Outbox(w) = outbox[w]
    BY <1>1 DEF Inbox, Outbox
  <1>3. Agree(w, pool[w], inbox[w], outbox[w], Queued(w), assigned_blocks[w], file_store)
    BY <1>1, <1>2 DEF IInv, AgreeInv, AgreeAt
  <1>. QED
    BY <1>1, <1>3, AgreeTypes

\* A message that asks nothing is read.
LEMMA ReadAsk ==
    ASSUME IInv, NEW w \in Worker, inbox[w] # <<>>, Head(inbox[w]).tag \notin Asking,
           inbox'[w] = Tail(inbox[w]), outbox'[w] = outbox[w],
           \A v \in Worker : v # w => inbox'[v] = inbox[v] /\ outbox'[v] = outbox[v],
           UNCHANGED <<main, peer, asked>>
    PROVE  AskInv'
  <1>. DEFINE q == inbox[w]
              t == Tail(inbox[w])
              n == Len(inbox[w])
  <1>1. /\ Head(q) = q[1] /\ t \in Seq(Message)
        /\ DOMAIN t = 1 .. n - 1 /\ DOMAIN q = 1 .. n /\ n \in Nat \ {0}
        /\ \A i \in DOMAIN t : i + 1 \in DOMAIN q /\ t[i] = q[i + 1]
    BY WorkerAgrees, SentInTail
  <1>2. Len(t) = n - 1
    BY WorkerAgrees, HeadTailProperties
  <1>3. \A v \in Worker : Asked(v)' <=> Asked(v)
    BY DEF Asked
  <1>4. AskAt(w)'
    <2>1. CASE ~ Asked(w)
      <3>1. outbox[w] = <<>> /\ NoQuestion(q)
        BY <2>1 DEF IInv, AskInv, AskAt
      <3>2. NoQuestion(t)
        BY <1>1, <3>1 DEF NoQuestion
      <3>3. NoQuestion(inbox[w])'
        BY <3>2 DEF NoQuestion
      <3>. QED
        BY <1>3, <2>1, <3>1, <3>3 DEF AskAt
    <2>2. CASE Asked(w)
      <3>1. main \in Asking
        BY <2>2 DEF Asked, IInv, ControlInv
      <3>2. /\ outbox[w] = <<>> /\ q[n].tag = main
            /\ \A i \in DOMAIN q : i # n => q[i].tag \notin Asking
        BY <2>2 DEF IInv, AskInv, AskAt
      <3>3. n # 1
        BY <1>1, <3>1, <3>2
      <3>4. n - 1 \in DOMAIN t /\ t[n - 1] = q[n]
        <4>. HIDE DEF n, t, q
        <4>. QED
          BY <1>1, <3>3
      <3>5. \A i \in DOMAIN t : i # n - 1 => t[i].tag \notin Asking
        <4>. HIDE DEF n, t, q
        <4>. QED
          BY <1>1, <3>2
      <3>6. t # <<>>
        <4>1. Len(<<>>) = 0
          OBVIOUS
        <4>. HIDE DEF n, t, q
        <4>. QED
          BY <1>1, <1>2, <3>3, <4>1
      <3>7. inbox'[w] = t /\ outbox'[w] = <<>> /\ main' = main /\ Asked(w)'
        BY <1>3, <2>2, <3>2
      <3>. HIDE DEF q, t, n
      <3>. QED
        BY <1>2, <3>2, <3>4, <3>5, <3>6, <3>7 DEF AskAt
    <2>. QED
      BY <2>1, <2>2
  <1>5. ASSUME NEW v \in Worker, v # w PROVE AskAt(v)'
    BY <1>3, <1>5 DEF IInv, AskInv, AskAt, NoQuestion
  <1>. QED
    BY <1>4, <1>5 DEF AskInv

\* A question that is read is the only message, and the master waits for its answer.
LEMMA QuestionRead ==
    ASSUME IInv, NEW w \in Worker, inbox[w] # <<>>, Head(inbox[w]).tag \in Asking
    PROVE  /\ Asked(w) /\ main = Head(inbox[w]).tag
           /\ Tail(inbox[w]) = <<>> /\ outbox[w] = <<>>
  <1>. DEFINE q == inbox[w]
              n == Len(q)
  <1>1. /\ Head(q) = q[1] /\ Tail(q) \in Seq(Message)
        /\ DOMAIN q = 1 .. n /\ n \in Nat \ {0}
    BY WorkerAgrees, SentInTail
  <1>2. 1 \in DOMAIN q /\ q[1].tag \in Asking
    <2>. HIDE DEF n, q
    <2>1. 1 \in DOMAIN q
      BY <1>1
    <2>. QED
      BY <1>1, <2>1 DEF q
  <1>3. Asked(w)
    BY <1>2 DEF IInv, AskInv, AskAt, NoQuestion
  <1>4. /\ outbox[w] = <<>> /\ q[n].tag = main
        /\ \A i \in DOMAIN q : i # n => q[i].tag \notin Asking
    BY <1>3 DEF IInv, AskInv, AskAt
  <1>5. n = 1
    BY <1>2, <1>4
  <1>6. Len(Tail(q)) = 0
    BY <1>5, WorkerAgrees, HeadTailProperties
  <1>7. Tail(q) = <<>>
    BY <1>1, <1>6, EmptySeq
  <1>. QED
    BY <1>1, <1>3, <1>4, <1>5, <1>7

\* It is answered.
LEMMA AnswerAsk ==
    ASSUME IInv, NEW w \in Worker, inbox[w] # <<>>, NEW m, m.tag = Head(inbox[w]).tag, m.tag \in Asking,
           inbox'[w] = Tail(inbox[w]), outbox'[w] = <<m>>,
           \A v \in Worker : v # w => inbox'[v] = inbox[v] /\ outbox'[v] = outbox[v],
           UNCHANGED <<main, peer, asked>>
    PROVE  AskInv'
  <1>1. Asked(w) /\ main = m.tag /\ Tail(inbox[w]) = <<>>
    BY QuestionRead
  <1>2. \A v \in Worker : Asked(v)' <=> Asked(v)
    BY DEF Asked
  <1>3. Len(<<m>>) = 1 /\ <<m>>[1] = m
    OBVIOUS
  <1>4. AskAt(w)'
    BY <1>1, <1>2, <1>3 DEF AskAt
  <1>5. ASSUME NEW v \in Worker, v # w PROVE AskAt(v)'
    BY <1>2, <1>5 DEF IInv, AskInv, AskAt, NoQuestion
  <1>. QED
    BY <1>4, <1>5 DEF AskInv

\* No worker has anything to read that should have nothing.
LEMMA ReadDrained ==
    ASSUME IInv, NEW w \in Worker, inbox[w] # <<>>,
           \A v \in Worker : v # w => inbox'[v] = inbox[v],
           UNCHANGED <<main, within, peer, asked>>
    PROVE  DrainedInv'
  <1>1. \A v \in Worker : Asked(v)' <=> Asked(v)
    BY DEF Asked
  <1>2. DrainedInv
    BY DEF IInv
  <1>. QED
    BY <1>1, <1>2 DEF DrainedInv, Waited, Assigning

\* What the steps of the workers have in common.
LEMMA WorkerFrame ==
    ASSUME IInv, AgreeInv', AskInv', DrainedInv', UNCHANGED thrown,
           UNCHANGED <<store_vars, main, position, peer, asked, book_vars, crashes>>,
           pool' \in [Process -> Pool],
           worker_record' \in [Worker -> SUBSET Block], worker_store' \in [Worker -> Counts],
           worker' \in [Worker -> {"broadcast", "loop", "join", "exited"}],
           inbox' \in [Worker -> Seq(Message)], outbox' \in [Worker -> Seq(Reply)]
    PROVE  IInv'
  <1>1. UNCHANGED <<idle_queue, assigned_blocks, files, file_store, within, node, block>>
    BY DEF book_vars, store_vars, position
  <1>2. MPITypeOK'
    BY <1>1, TypeFrame, FileTypeFrame DEF IInv, MPITypeOK
  <1>3. ControlInv'
    BY <1>1, ControlFrame DEF IInv
  <1>4. ApartInv'
    <2>1. block \in Int /\ block <= block
      BY MPISets DEF IInv, MPITypeOK
    <2>. QED
      BY <1>1, <2>1, ApartFrame DEF IInv
  <1>. QED
    BY <1>2, <1>3, <1>4 DEF IInv, NoThrow

LEMMA WorkerStepIInv == ASSUME IInv, NEW w \in Worker, WorkerStep(w) PROVE IInv'
  <1>1. /\ UNCHANGED <<store_vars, main, position, peer, asked, book_vars, crashes>>
        /\ UNCHANGED <<idle_queue, assigned_blocks, files, file_store, within>>
        /\ ~ thrown
    BY DEF WorkerStep, book_vars, store_vars, position
  <1>2. /\ worker_record \in [Worker -> SUBSET Block] /\ worker_store \in [Worker -> Counts]
        /\ worker \in [Worker -> {"broadcast", "loop", "join", "exited"}]
    BY DEF IInv, MPITypeOK
  <1>3. /\ Agree(w, pool[w], inbox[w], outbox[w], Queued(w), assigned_blocks[w], file_store)
        /\ inbox[w] \in Seq(Message) /\ outbox[w] \in Seq(Reply) /\ pool[w] \in Pool
        /\ w \in Process /\ w # Master /\ DistinctIn(inbox[w])
        /\ inbox \in [Worker -> Seq(Message)] /\ outbox \in [Worker -> Seq(Reply)]
        /\ pool \in [Process -> Pool]
    BY WorkerAgrees
  <1>4. [pool EXCEPT ![w] = pool[w]] = pool /\ [outbox EXCEPT ![w] = outbox[w]] = outbox
    BY <1>3
  <1>. DEFINE m == Head(inbox[w])
  <1>5. CASE LeaveBroadcast(w)
    <2>1. /\ worker' \in [Worker -> {"broadcast", "loop", "join", "exited"}]
          /\ UNCHANGED <<pool, worker_record, worker_store, inbox, outbox, thrown>>
      BY <1>2, <1>5 DEF LeaveBroadcast
    <2>2. AgreeInv' /\ AskInv' /\ DrainedInv'
      BY <1>1, <2>1, AgreeAllFrame, ChannelFrame DEF IInv
    <2>. QED
      BY <1>1, <1>2, <1>3, <2>1, <2>2, WorkerFrame
  <1>6. CASE WorkerUpdateConfig(w)
    <2>. DEFINE q == [pool[w] EXCEPT !.tables = m.node]
    <2>1. /\ inbox[w] # <<>> /\ m.tag = "update_config"
          /\ inbox' = [inbox EXCEPT ![w] = Tail(inbox[w])]
          /\ pool' = [pool EXCEPT ![w] = q]
          /\ UNCHANGED <<worker_record, worker_store, worker, outbox, thrown>>
      BY <1>6 DEF WorkerUpdateConfig, Receive
    <2>2. /\ Tail(inbox[w]) \in Seq(Message) /\ q \in Pool
          /\ Agree(w, q, Tail(inbox[w]), outbox[w], Queued(w), assigned_blocks[w], file_store)
      BY <1>3, <2>1, AgreeConfigured
    <2>. HIDE DEF q
    <2>3. /\ pool' \in [Process -> Pool] /\ inbox' \in [Worker -> Seq(Message)]
          /\ outbox' \in [Worker -> Seq(Reply)] /\ AgreeInv'
          /\ inbox'[w] = Tail(inbox[w]) /\ outbox'[w] = outbox[w]
          /\ \A v \in Worker : v # w => inbox'[v] = inbox[v] /\ outbox'[v] = outbox[v]
      BY <1>1, <1>3, <1>4, <2>1, <2>2, WorkerMoved
    <2>4. AskInv' /\ DrainedInv'
      BY <1>1, <2>1, <2>3, ReadAsk, ReadDrained DEF Asking
    <2>. QED
      BY <1>1, <1>2, <2>1, <2>3, <2>4, WorkerFrame
  <1>7. CASE WorkerAssign(w)
    <2>. DEFINE q == PoolAssign(pool[w], m.block, m.kind)
    <2>1. /\ inbox[w] # <<>> /\ m.tag = "assign_block"
          /\ inbox' = [inbox EXCEPT ![w] = Tail(inbox[w])]
          /\ IF pool[w].idle[m.kind] = 0 THEN thrown' = TRUE /\ UNCHANGED pool
             ELSE pool' = [pool EXCEPT ![w] = q] /\ UNCHANGED thrown
          /\ UNCHANGED <<worker_record, worker_store, worker, outbox>>
      BY <1>7 DEF WorkerAssign, Receive
    <2>2. /\ Tail(inbox[w]) \in Seq(Message) /\ q \in Pool /\ pool[w].idle[m.kind] # 0
          /\ Agree(w, q, Tail(inbox[w]), outbox[w], Queued(w), assigned_blocks[w], file_store)
      BY <1>3, <2>1, AgreeAssign
    <2>. HIDE DEF q
    <2>3. /\ pool' \in [Process -> Pool] /\ inbox' \in [Worker -> Seq(Message)]
          /\ outbox' \in [Worker -> Seq(Reply)] /\ AgreeInv'
          /\ inbox'[w] = Tail(inbox[w]) /\ outbox'[w] = outbox[w]
          /\ \A v \in Worker : v # w => inbox'[v] = inbox[v] /\ outbox'[v] = outbox[v]
      BY <1>1, <1>3, <1>4, <2>1, <2>2, WorkerMoved
    <2>4. AskInv' /\ DrainedInv'
      BY <1>1, <2>1, <2>3, ReadAsk, ReadDrained DEF Asking
    <2>. QED
      BY <1>1, <1>2, <2>1, <2>2, <2>3, <2>4, WorkerFrame
  <1>8. CASE WorkerReady(w)
    <2>. DEFINE q == ReadyFlushed(pool[w])
                a == [tag |-> "ready", ready |-> pool[w].ready]
    <2>1. /\ inbox[w] # <<>> /\ m.tag = "ready"
          /\ inbox' = [inbox EXCEPT ![w] = Tail(inbox[w])]
          /\ outbox' = [outbox EXCEPT ![w] = Append(outbox[w], a)]
          /\ pool' = [pool EXCEPT ![w] = q]
          /\ UNCHANGED <<worker_record, worker_store, worker, thrown>>
      BY <1>8 DEF WorkerReady, Receive, Answer
    <2>2. m.tag \in Asking /\ a.tag = m.tag
      BY <2>1 DEF Asking
    <2>3. outbox[w] = <<>>
      BY <2>1, <2>2, QuestionRead
    <2>4. /\ Tail(inbox[w]) \in Seq(Message)
          /\ Agree(w, pool[w], Tail(inbox[w]), <<>>, Queued(w), assigned_blocks[w], file_store)
      BY <1>3, <2>1, <2>3, AgreeTail
    <2>5. /\ a \in Reply /\ q \in Pool
          /\ Agree(w, q, Tail(inbox[w]), <<a>>, Queued(w), assigned_blocks[w], file_store)
      BY <1>3, <2>4, AgreeAnswerReady
    <2>. HIDE DEF q, a
    <2>6. outbox' = [outbox EXCEPT ![w] = <<a>>] /\ <<a>> \in Seq(Reply)
      BY <2>1, <2>3, <2>5
    <2>7. /\ pool' \in [Process -> Pool] /\ inbox' \in [Worker -> Seq(Message)]
          /\ outbox' \in [Worker -> Seq(Reply)] /\ AgreeInv'
          /\ inbox'[w] = Tail(inbox[w]) /\ outbox'[w] = <<a>>
          /\ \A v \in Worker : v # w => inbox'[v] = inbox[v] /\ outbox'[v] = outbox[v]
      BY <1>1, <2>1, <2>4, <2>5, <2>6, WorkerMoved
    <2>8. AskInv' /\ DrainedInv'
      BY <1>1, <2>1, <2>2, <2>7, AnswerAsk, ReadDrained
    <2>. QED
      BY <1>1, <1>2, <2>1, <2>7, <2>8, WorkerFrame
  <1>9. CASE WorkerSave(w)
    <2>. DEFINE s == [record |-> worker_record[w], store |-> worker_store[w]]
                a == [tag |-> "save", stores |-> s]
    <2>1. /\ inbox[w] # <<>> /\ m.tag = "save"
          /\ inbox' = [inbox EXCEPT ![w] = Tail(inbox[w])]
          /\ outbox' = [outbox EXCEPT ![w] = Append(outbox[w], a)]
          /\ worker_record' = [worker_record EXCEPT ![w] = {}]
          /\ worker_store' = [worker_store EXCEPT ![w] = NoCounts]
          /\ UNCHANGED <<pool, worker, thrown>>
      BY <1>9 DEF WorkerSave, Receive, Answer
    <2>2. m.tag \in Asking /\ a.tag = m.tag
      BY <2>1 DEF Asking
    <2>3. outbox[w] = <<>>
      BY <2>1, <2>2, QuestionRead
    <2>4. /\ Tail(inbox[w]) \in Seq(Message)
          /\ Agree(w, pool[w], Tail(inbox[w]), <<>>, Queued(w), assigned_blocks[w], file_store)
      BY <1>3, <2>1, <2>3, AgreeTail
    <2>5. s \in Saving
      BY <1>2 DEF Saving
    <2>6. /\ a \in Reply
          /\ Agree(w, pool[w], Tail(inbox[w]), <<a>>, Queued(w), assigned_blocks[w], file_store)
      <3>. HIDE DEF s
      <3>. QED
        BY <1>3, <2>4, <2>5, AgreeAnswerSave
    <2>7. /\ worker_record' \in [Worker -> SUBSET Block] /\ worker_store' \in [Worker -> Counts]
      BY <1>2, <2>1, NothingToSaveType
    <2>. HIDE DEF s, a
    <2>8. outbox' = [outbox EXCEPT ![w] = <<a>>] /\ <<a>> \in Seq(Reply)
      BY <2>1, <2>3, <2>6
    <2>9. pool' = [pool EXCEPT ![w] = pool[w]]
      BY <1>4, <2>1
    <2>10. /\ pool' \in [Process -> Pool] /\ inbox' \in [Worker -> Seq(Message)]
           /\ outbox' \in [Worker -> Seq(Reply)] /\ AgreeInv'
           /\ inbox'[w] = Tail(inbox[w]) /\ outbox'[w] = <<a>>
           /\ \A v \in Worker : v # w => inbox'[v] = inbox[v] /\ outbox'[v] = outbox[v]
      BY <1>1, <1>3, <2>1, <2>4, <2>6, <2>8, <2>9, WorkerMoved
    <2>11. AskInv' /\ DrainedInv'
      BY <1>1, <2>1, <2>2, <2>10, AnswerAsk, ReadDrained
    <2>. QED
      BY <1>1, <1>2, <2>1, <2>7, <2>10, <2>11, WorkerFrame
  <1>10. CASE WorkerFinished(w)
    <2>. DEFINE q == FinishedFlushed(pool[w])
                a == [tag |-> "finished", blocks |-> pool[w].finished]
    <2>1. /\ inbox[w] # <<>> /\ m.tag = "finished"
          /\ inbox' = [inbox EXCEPT ![w] = Tail(inbox[w])]
          /\ outbox' = [outbox EXCEPT ![w] = Append(outbox[w], a)]
          /\ pool' = [pool EXCEPT ![w] = q]
          /\ UNCHANGED <<worker_record, worker_store, worker, thrown>>
      BY <1>10 DEF WorkerFinished, Receive, Answer
    <2>2. m.tag \in Asking /\ a.tag = m.tag
      BY <2>1 DEF Asking
    <2>3. outbox[w] = <<>>
      BY <2>1, <2>2, QuestionRead
    <2>4. /\ Tail(inbox[w]) \in Seq(Message)
          /\ Agree(w, pool[w], Tail(inbox[w]), <<>>, Queued(w), assigned_blocks[w], file_store)
      BY <1>3, <2>1, <2>3, AgreeTail
    <2>5. /\ a \in Reply /\ q \in Pool
          /\ Agree(w, q, Tail(inbox[w]), <<a>>, Queued(w), assigned_blocks[w], file_store)
      BY <1>3, <2>4, AgreeAnswerFinished
    <2>. HIDE DEF q, a
    <2>6. outbox' = [outbox EXCEPT ![w] = <<a>>] /\ <<a>> \in Seq(Reply)
      BY <2>1, <2>3, <2>5
    <2>7. /\ pool' \in [Process -> Pool] /\ inbox' \in [Worker -> Seq(Message)]
          /\ outbox' \in [Worker -> Seq(Reply)] /\ AgreeInv'
          /\ inbox'[w] = Tail(inbox[w]) /\ outbox'[w] = <<a>>
          /\ \A v \in Worker : v # w => inbox'[v] = inbox[v] /\ outbox'[v] = outbox[v]
      BY <1>1, <2>1, <2>4, <2>5, <2>6, WorkerMoved
    <2>8. AskInv' /\ DrainedInv'
      BY <1>1, <2>1, <2>2, <2>7, AnswerAsk, ReadDrained
    <2>. QED
      BY <1>1, <1>2, <2>1, <2>7, <2>8, WorkerFrame
  <1>11. CASE WorkerShutdown(w)
    <2>1. /\ inbox[w] # <<>> /\ m.tag = "shutdown"
          /\ inbox' = [inbox EXCEPT ![w] = Tail(inbox[w])]
          /\ worker' = [worker EXCEPT ![w] = "join"]
          /\ UNCHANGED <<pool, worker_record, worker_store, outbox, thrown>>
      BY <1>11 DEF WorkerShutdown, Receive
    <2>2. /\ Tail(inbox[w]) \in Seq(Message)
          /\ Agree(w, pool[w], Tail(inbox[w]), outbox[w], Queued(w), assigned_blocks[w], file_store)
      BY <1>3, <2>1, AgreeTail
    <2>3. /\ pool' \in [Process -> Pool] /\ inbox' \in [Worker -> Seq(Message)]
          /\ outbox' \in [Worker -> Seq(Reply)] /\ AgreeInv'
          /\ inbox'[w] = Tail(inbox[w]) /\ outbox'[w] = outbox[w]
          /\ \A v \in Worker : v # w => inbox'[v] = inbox[v] /\ outbox'[v] = outbox[v]
      BY <1>1, <1>3, <1>4, <2>1, <2>2, WorkerMoved
    <2>4. AskInv' /\ DrainedInv'
      BY <1>1, <2>1, <2>3, ReadAsk, ReadDrained DEF Asking
    <2>. QED
      BY <1>1, <1>2, <2>1, <2>3, <2>4, WorkerFrame
  <1>12. CASE WorkerJoin(w)
    <2>1. /\ worker' \in [Worker -> {"broadcast", "loop", "join", "exited"}]
          /\ UNCHANGED <<pool, worker_record, worker_store, inbox, outbox, thrown>>
      BY <1>2, <1>12 DEF WorkerJoin
    <2>2. AgreeInv' /\ AskInv' /\ DrainedInv'
      BY <1>1, <2>1, AgreeAllFrame, ChannelFrame DEF IInv
    <2>. QED
      BY <1>1, <1>2, <1>3, <2>1, <2>2, WorkerFrame
  <1>. QED
    BY <1>5, <1>6, <1>7, <1>8, <1>9, <1>10, <1>11, <1>12 DEF WorkerStep

-----------------------------------------------------------------------------
(* The master, where it looks at no other process                          *)

LEMMA WaitedNothing ==
    ASSUME IInv, main \notin Asking
    PROVE  /\ ~ asked
           /\ \A w \in Worker : /\ ~ Asked(w) /\ outbox[w] = <<>> /\ NoQuestion(inbox[w])
                                /\ Waited /\ main \notin {"join", "exited"} => inbox[w] = <<>>
  BY DEF IInv, ControlInv, Asked, AskInv, AskAt, DrainedInv

LEMMA QuietIInv ==
    ASSUME IInv, Reject \/ EnterBroadcast \/ NextNode \/ EndOfNode \/ EnterAssign \/ CheckContains,
           UNCHANGED <<worker_record, worker_store, worker, crashes>>
    PROVE  IInv'
  <1>1. /\ UNCHANGED <<store_vars, pool, inbox, outbox, peer, asked, book_vars, thrown>>
        /\ UNCHANGED <<files, file_store, initial_record, idle_queue, assigned_blocks>>
    BY DEF Reject, EnterBroadcast, NextNode, EndOfNode, EnterAssign, CheckContains,
           store_vars, book_vars
  <1>2. /\ main \in {"options", "node", "iterate", "contains"}
        /\ peer = Master /\ ~ asked /\ ~ asked' /\ peer' = Master
    BY <1>1 DEF Reject, EnterBroadcast, NextNode, EndOfNode, EnterAssign, CheckContains,
                IInv, ControlInv, Asking, Saves
  <1>3. AgreeInv' /\ AskInv'
    BY <1>1, <1>2, AgreeAllFrame, AskFrame DEF IInv
  <1>4. FileStoreTypeOK'
    BY <1>1, FileTypeFrame DEF IInv, MPITypeOK
  <1>5. /\ NbBlocks \in Nat /\ NbNodes \in Nat /\ Block = 1 .. NbBlocks /\ Node = 1 .. NbNodes
        /\ NoNode \notin Node /\ Master = 0 /\ \A w \in Worker : w \in Nat
    BY MPISets DEF Master
  <1>6. /\ main' \in Position /\ within' \in {"update_config", "assign", "destructor"}
        /\ node' \in 1 .. NbNodes + 1 /\ block' \in 1 .. NbBlocks + 1 /\ block' >= block
        /\ ControlInv'
        /\ main' \in {"node", "finished", "iterate", "save", "contains", "dispatch", "rejected"}
        /\ main' = "save" => within' = "assign"
    <2>1. /\ block \in 1 .. NbBlocks + 1 /\ node \in 1 .. NbNodes + 1
          /\ within \in {"update_config", "assign", "destructor"}
      BY DEF IInv, MPITypeOK
    <2>. USE DEF Position, Asking, Saves
    <2>2. CASE Reject
      BY <1>1, <1>2, <1>5, <2>1, <2>2 DEF Reject, position, IInv, ControlInv, Waited, Assigning
    <2>3. CASE EnterBroadcast
      BY <1>1, <1>2, <1>5, <2>1, <2>3 DEF EnterBroadcast, position, IInv, ControlInv, Waited, Assigning
    <2>4. CASE NextNode
      BY <1>1, <1>2, <1>5, <2>1, <2>4 DEF NextNode, IInv, ControlInv, Waited, Assigning
    <2>5. CASE EndOfNode
      BY <1>1, <1>2, <1>5, <2>1, <2>5 DEF EndOfNode, IInv, ControlInv, Waited, Assigning
    <2>6. CASE EnterAssign
      BY <1>1, <1>2, <1>5, <2>1, <2>6 DEF EnterAssign, IInv, ControlInv, Waited, Assigning
    <2>7. CASE CheckContains
      <3>1. /\ within' = within /\ node' = node
            /\ IF block \in initial_record THEN block' = block + 1 /\ main' = "iterate"
               ELSE /\ main' = IF idle_queue["opencl"] = <<>> THEN "finished" ELSE "dispatch"
                    /\ block' = block
            /\ main = "contains" /\ within = "assign"
        BY <2>7 DEF CheckContains, IInv, ControlInv
      <3>2. block \in Block
        BY <3>1 DEF IInv, ControlInv, Assigning
      <3>3. idle_queue["opencl"] # <<>> => \E k \in Kind : idle_queue[k] # <<>>
        BY MPISets
      <3>. QED
        BY <1>1, <1>2, <1>5, <2>1, <3>1, <3>2, <3>3 DEF IInv, ControlInv, Waited, Assigning
    <2>. QED
      BY <2>2, <2>3, <2>4, <2>5, <2>6, <2>7
  <1>7. DrainedInv'
    <2>1. ~ Waited'
      BY <1>6 DEF Waited, Assigning, Saves
    <2>2. \A w \in Worker : ~ (w < peer')
      BY <1>2, <1>5
    <2>. QED
      BY <2>1, <2>2 DEF DrainedInv
  <1>8. MPITypeOK'
    BY <1>1, <1>4, <1>6 DEF IInv, MPITypeOK
  <1>9. ApartInv'
    BY <1>1, <1>5, <1>6, ApartFrame DEF IInv
  <1>. QED
    BY <1>1, <1>3, <1>6, <1>7, <1>8, <1>9 DEF IInv, NoThrow

-----------------------------------------------------------------------------
(* The master, where it goes from process to process                       *)

LEMMA PeerTypes ==
    ASSUME IInv
    PROVE  /\ peer \in Process /\ NbWorkers \in Nat /\ Master = 0
           /\ peer # Master => peer \in Worker
           /\ peer \in 0 .. NbWorkers
           /\ \A w \in Worker : w \in 1 .. NbWorkers
           /\ main \in Position
  BY MPISets DEF IInv, MPITypeOK, Process, Worker, Master

LEMMA AskIInv ==
    ASSUME IInv, Ask, UNCHANGED <<worker_record, worker_store, worker, crashes>>
    PROVE  IInv'
  <1>. DEFINE m == [tag |-> main]
              q == inbox[peer]
              t == Append(q, m)
              n == Len(q)
  <1>1. /\ main \in Asking /\ peer # Master /\ ~ asked /\ asked' = TRUE
        /\ inbox' = [inbox EXCEPT ![peer] = t]
        /\ UNCHANGED <<store_vars, pool, outbox, main, position, peer, book_vars, thrown>>
        /\ UNCHANGED <<files, file_store, idle_queue, assigned_blocks, within, node, block>>
    BY DEF Ask, store_vars, position, book_vars
  <1>2. peer \in Worker
    BY <1>1, PeerTypes
  <1>3. /\ Agree(peer, pool[peer], q, outbox[peer], Queued(peer), assigned_blocks[peer], file_store)
        /\ q \in Seq(Message) /\ outbox[peer] \in Seq(Reply) /\ pool[peer] \in Pool
        /\ outbox \in [Worker -> Seq(Reply)] /\ pool \in [Process -> Pool]
        /\ inbox \in [Worker -> Seq(Message)]
    BY <1>2, WorkerAgrees
  <1>4. m \in Message /\ m.tag = main /\ m.tag \notin {"assign_block", "update_config"}
    BY <1>1, MadeMessages DEF Asking
  <1>. HIDE DEF m
  <1>5. /\ t \in Seq(Message)
        /\ Agree(peer, pool[peer], t, outbox[peer], Queued(peer), assigned_blocks[peer], file_store)
    BY <1>2, <1>3, <1>4, AgreeAppend, MPISets
  <1>6. pool' = [pool EXCEPT ![peer] = pool[peer]] /\ outbox' = [outbox EXCEPT ![peer] = outbox[peer]]
    BY <1>1, <1>3
  <1>7. /\ inbox' \in [Worker -> Seq(Message)] /\ AgreeInv'
        /\ inbox'[peer] = t /\ outbox'[peer] = outbox[peer]
        /\ \A v \in Worker : v # peer => inbox'[v] = inbox[v] /\ outbox'[v] = outbox[v]
    <2>. HIDE DEF t
    <2>. QED
      BY <1>1, <1>2, <1>3, <1>5, <1>6, WorkerMoved
  <1>8. MPITypeOK'
    <2>1. FileStoreTypeOK'
      BY <1>1, FileTypeFrame DEF IInv, MPITypeOK
    <2>. QED
      BY <1>1, <1>7, <2>1 DEF IInv, MPITypeOK
  <1>9. ControlInv'
    BY <1>1 DEF IInv, ControlInv, Waited, Assigning
  <1>10. AskInv'
    <2>1. \A v \in Worker : ~ Asked(v) /\ (Asked(v)' <=> v = peer)
      BY <1>1 DEF Asked
    <2>2. outbox[peer] = <<>> /\ NoQuestion(q)
      BY <1>2, <2>1 DEF IInv, AskInv, AskAt
    <2>3. n \in Nat /\ DOMAIN q = 1 .. n
      BY <1>3, LenProperties
    <2>4. Len(t) = n + 1 /\ t[n + 1] = m /\ \A i \in 1 .. n : t[i] = q[i]
      BY <1>3, <1>4, AppendProperties
    <2>5. DOMAIN t = 1 .. n + 1
      BY <1>5, <2>4, LenProperties
    <2>6. t # <<>>
      <3>1. Len(<<>>) = 0
        OBVIOUS
      <3>. HIDE DEF t, n
      <3>. QED
        BY <2>3, <2>4, <3>1
    <2>7. \A i \in DOMAIN t : i # Len(t) => t[i].tag \notin Asking
      BY <2>2, <2>3, <2>4, <2>5 DEF NoQuestion
    <2>8. ASSUME NEW v \in Worker, v = peer PROVE AskAt(v)'
      <3>. HIDE DEF t, q, n
      <3>. QED
        BY <1>1, <1>4, <1>7, <2>1, <2>2, <2>4, <2>6, <2>7, <2>8 DEF AskAt
    <2>9. ASSUME NEW v \in Worker, v # peer PROVE AskAt(v)'
      BY <1>7, <2>1, <2>9 DEF IInv, AskInv, AskAt, NoQuestion
    <2>. QED
      BY <2>8, <2>9 DEF AskInv
  <1>11. DrainedInv'
    <2>1. \A v \in Worker : ~ Asked(v) /\ (Asked(v)' <=> v = peer)
      BY <1>1 DEF Asked
    <2>. QED
      BY <1>1, <1>7, <2>1 DEF IInv, DrainedInv, Waited, Assigning
  <1>12. ApartInv'
    BY <1>1 DEF IInv, ApartInv
  <1>. QED
    BY <1>1, <1>7, <1>8, <1>9, <1>10, <1>11, <1>12 DEF IInv, NoThrow

\* The answer that the master takes, and what it leaves of the messages.
LEMMA AnswerTaken ==
    ASSUME IInv, NEW tag \in Asking, Answered(tag)
    PROVE  LET m == Head(outbox[peer])
           IN  /\ peer \in Worker /\ Asked(peer) /\ main = tag
               /\ outbox[peer] = <<m>> /\ m.tag = tag /\ m \in Reply
               /\ outbox' = [outbox EXCEPT ![peer] = <<>>] /\ outbox'[peer] = <<>>
               /\ outbox' \in [Worker -> Seq(Reply)]
               /\ asked' = FALSE /\ inbox' = inbox
               /\ inbox[peer] = <<>>
               /\ \A v \in Worker : v # peer => ~ Asked(v) /\ outbox'[v] = outbox[v]
               /\ AskInv'
  <1>. DEFINE q == outbox[peer]
              m == Head(q)
  <1>1. /\ main = tag /\ asked /\ q # <<>> /\ m.tag = tag
        /\ asked' = FALSE /\ inbox' = inbox
        /\ outbox' = [outbox EXCEPT ![peer] = Tail(q)]
    BY DEF Answered
  <1>2. peer \in Worker /\ Asked(peer) /\ \A v \in Worker : v # peer => ~ Asked(v)
    BY <1>1, PeerTypes DEF IInv, ControlInv, Asked
  <1>3. inbox[peer] = <<>> /\ Len(q) = 1
    BY <1>1, <1>2 DEF IInv, AskInv, AskAt
  <1>4. q \in Seq(Reply) /\ outbox \in [Worker -> Seq(Reply)]
    BY <1>2, WorkerAgrees
  <1>5. m \in Reply /\ Tail(q) \in Seq(Reply) /\ Len(Tail(q)) = 0
    BY <1>1, <1>3, <1>4, HeadTailProperties
  <1>6. Tail(q) = <<>>
    BY <1>5, EmptySeq
  <1>7. q = <<m>>
    <2>1. <<m>> \in Seq(Reply) /\ Len(<<m>>) = 1 /\ <<m>>[1] = m /\ m = q[1]
      BY <1>5
    <2>2. \A i \in 1 .. Len(q) : q[i] = <<m>>[i]
      BY <1>3, <2>1
    <2>. QED
      BY <1>3, <1>4, <2>1, <2>2, SeqEqual
  <1>8. outbox' = [outbox EXCEPT ![peer] = <<>>]
    BY <1>1, <1>6
  <1>9. /\ outbox'[peer] = <<>> /\ outbox' \in [Worker -> Seq(Reply)]
        /\ \A v \in Worker : v # peer => outbox'[v] = outbox[v]
    BY <1>2, <1>4, <1>8, EmptySeq
  <1>10. AskInv'
    <2>1. \A v \in Worker : ~ Asked(v)'
      BY <1>1 DEF Asked
    <2>2. NoQuestion(<<>>)
      BY DEF NoQuestion
    <2>3. ASSUME NEW v \in Worker, v = peer PROVE AskAt(v)'
      BY <1>1, <1>3, <1>9, <2>1, <2>2, <2>3 DEF AskAt
    <2>4. ASSUME NEW v \in Worker, v # peer PROVE AskAt(v)'
      BY <1>1, <1>2, <1>9, <2>1, <2>4 DEF IInv, AskInv, AskAt, NoQuestion
    <2>. QED
      BY <2>3, <2>4 DEF AskInv
  <1>. HIDE DEF q, m
  <1>. QED
    BY <1>1, <1>2, <1>3, <1>5, <1>7, <1>8, <1>9, <1>10 DEF q, m

LEMMA AgreeOne ==
    ASSUME IInv, NEW p \in Process, AgreeAt(p)', \A o \in Process : o # p => Unmoved(o),
           UNCHANGED file_store
    PROVE  AgreeInv'
  <1>1. ASSUME NEW o \in Process, o # p PROVE AgreeAt(o)'
    BY <1>1, AgreeFrame DEF IInv, AgreeInv
  <1>. QED
    BY <1>1 DEF AgreeInv

\* The master's own part.
LEMMA MasterAgrees ==
    ASSUME IInv
    PROVE  /\ Agree(Master, pool[Master], <<>>, <<>>, Queued(Master), assigned_blocks[Master], file_store)
           /\ Master \in Process /\ pool[Master] \in Pool
           /\ pool \in [Process -> Pool] /\ assigned_blocks \in [Process -> SUBSET Block]
           /\ inbox \in [Worker -> Seq(Message)] /\ outbox \in [Worker -> Seq(Reply)]
           /\ idle_queue \in [Kind -> Seq(Process)]
  <1>1. Inbox(Master) = <<>> /\ Outbox(Master) = <<>> /\ Master \in Process
    BY MPISets DEF Inbox, Outbox
  <1>. QED
    BY <1>1 DEF IInv, AgreeInv, AgreeAt, MPITypeOK

LEMMA FlushFinishedIInv ==
    ASSUME IInv, FlushFinished, UNCHANGED <<worker_record, worker_store, worker, crashes>>
    PROVE  IInv'
  <1>1. /\ main = "finished" /\ "finished" \in Asking
        /\ NextPeer("finished", IF within = "assign" THEN "ready"
                                ELSE IF \E p \in Process : assigned_blocks'[p] # {}
                                THEN "finished" ELSE "save")
        /\ UNCHANGED <<store_vars, position, idle_queue, files, file_store, within, node, block>>
    BY DEF FlushFinished, Own, Answered, store_vars, position, Asking
  <1>2. ~ thrown /\ thrown = FALSE
    BY DEF IInv, NoThrow, MPITypeOK
  <1>3. /\ pool' \in [Process -> Pool] /\ AgreeInv' /\ AskInv' /\ inbox' = inbox /\ asked' = FALSE
        /\ thrown' = thrown /\ outbox' \in [Worker -> Seq(Reply)]
        /\ assigned_blocks' \in [Process -> SUBSET Block]
        /\ \A p \in Process : assigned_blocks'[p] \subseteq assigned_blocks[p]
        /\ peer # Master => inbox[peer] = <<>>
        /\ \A v \in Worker : v # peer => ~ Asked(v)
    <2>1. CASE Own("finished")
      <3>1. peer = Master /\ UNCHANGED <<inbox, outbox, asked>>
        BY <2>1 DEF Own
      <3>2. /\ pool' = [pool EXCEPT ![Master] = FinishedFlushed(pool[Master])]
            /\ TakeFinished(pool[Master].finished)
        BY <3>1, PeerTypes DEF FlushFinished, Answered, IInv, ControlInv
      <3>. DEFINE a == assigned_blocks[Master] \ pool[Master].finished
      <3>3. /\ pool[Master].finished \subseteq assigned_blocks[Master]
            /\ a \in SUBSET Block /\ FinishedFlushed(pool[Master]) \in Pool
            /\ Agree(Master, FinishedFlushed(pool[Master]), <<>>, <<>>, Queued(Master), a, file_store)
        BY MasterAgrees, AgreeOwnFinished
      <3>4. assigned_blocks' = [assigned_blocks EXCEPT ![Master] = a] /\ UNCHANGED thrown
        BY <3>1, <3>2, <3>3 DEF TakeFinished
      <3>. HIDE DEF a
      <3>5. /\ pool' \in [Process -> Pool] /\ assigned_blocks' \in [Process -> SUBSET Block]
            /\ pool'[Master] = FinishedFlushed(pool[Master]) /\ assigned_blocks'[Master] = a
            /\ \A o \in Process : o # Master => pool'[o] = pool[o]
                                                /\ assigned_blocks'[o] = assigned_blocks[o]
        BY <3>2, <3>3, <3>4, MasterAgrees
      <3>6. AgreeAt(Master)'
        <4>1. Inbox(Master)' = <<>> /\ Outbox(Master)' = <<>> /\ Queued(Master)' = Queued(Master)
          BY <1>1 DEF Inbox, Outbox, Queued
        <4>. QED
          BY <1>1, <3>3, <3>5, <4>1 DEF AgreeAt
      <3>7. \A o \in Process : o # Master => Unmoved(o)
        BY <1>1, <3>1, <3>5 DEF Unmoved
      <3>8. AgreeInv'
        BY <1>1, <3>6, <3>7, MPISets, AgreeOne
      <3>9. asked = FALSE /\ AskInv'
        <4>1. asked = FALSE
          BY <3>1 DEF IInv, ControlInv, MPITypeOK
        <4>. QED
          BY <3>1, <4>1, AskFrame DEF IInv
      <3>10. \A v \in Worker : ~ Asked(v)
        BY <3>9 DEF Asked
      <3>11. \A p \in Process : assigned_blocks'[p] \subseteq assigned_blocks[p]
        BY <3>5 DEF a
      <3>. QED
        BY <3>1, <3>4, <3>5, <3>8, <3>9, <3>10, <3>11, MasterAgrees
    <2>2. CASE Answered("finished")
      <3>. DEFINE m == Head(outbox[peer])
                  a == assigned_blocks[peer] \ m.blocks
      <3>1. /\ peer \in Worker /\ Asked(peer) /\ outbox[peer] = <<m>> /\ m.tag = "finished"
            /\ outbox' = [outbox EXCEPT ![peer] = <<>>] /\ outbox'[peer] = <<>>
            /\ outbox' \in [Worker -> Seq(Reply)]
            /\ asked' = FALSE /\ inbox' = inbox /\ inbox[peer] = <<>>
            /\ \A v \in Worker : v # peer => ~ Asked(v) /\ outbox'[v] = outbox[v]
            /\ AskInv'
        BY <1>1, <2>2, AnswerTaken
      <3>2. peer # Master /\ peer \in Process
        BY <3>1, MPISets
      <3>3. TakeFinished(m.blocks) /\ UNCHANGED pool
        BY <3>2 DEF FlushFinished, Own
      <3>. HIDE DEF m
      <3>4. /\ m.blocks \subseteq assigned_blocks[peer] /\ a \in SUBSET Block
            /\ Agree(peer, pool[peer], inbox[peer], <<>>, Queued(peer), a, file_store)
        <4>1. Agree(peer, pool[peer], inbox[peer], <<m>>, Queued(peer), assigned_blocks[peer], file_store)
          BY <3>1, WorkerAgrees
        <4>2. ASSUME NEW w \in Process, NEW q, NEW in, NEW queued, NEW blocks, NEW fs,
                     Agree(w, q, in, <<m>>, queued, blocks, fs)
              PROVE  /\ m.blocks \subseteq blocks /\ blocks \ m.blocks \in SUBSET Block
                     /\ Agree(w, q, in, <<>>, queued, blocks \ m.blocks, fs)
          BY <3>1, <4>2, AgreeTakeFinished
        <4>. QED
          BY <3>2, <4>1, <4>2
      <3>5. assigned_blocks' = [assigned_blocks EXCEPT ![peer] = a] /\ UNCHANGED thrown
        BY <3>3, <3>4 DEF TakeFinished
      <3>. HIDE DEF a
      <3>6. /\ assigned_blocks' \in [Process -> SUBSET Block] /\ assigned_blocks'[peer] = a
            /\ \A o \in Process : o # peer => assigned_blocks'[o] = assigned_blocks[o]
        BY <3>2, <3>4, <3>5, MasterAgrees
      <3>7. ASSUME NEW p \in Process, p = peer PROVE AgreeAt(p)'
        <4>1. /\ Inbox(p)' = inbox[p] /\ Outbox(p)' = <<>> /\ Queued(p)' = Queued(p)
              /\ assigned_blocks'[p] = a
          BY <1>1, <3>1, <3>2, <3>6, <3>7 DEF Inbox, Outbox, Queued
        <4>. QED
          BY <1>1, <3>3, <3>4, <3>7, <4>1 DEF AgreeAt
      <3>8. \A o \in Process : o # peer => Unmoved(o)
        BY <1>1, <3>1, <3>3, <3>6, MPISets DEF Unmoved
      <3>9. AgreeInv'
        BY <1>1, <3>2, <3>7, <3>8, AgreeOne
      <3>10. \A p \in Process : assigned_blocks'[p] \subseteq assigned_blocks[p]
        BY <3>6 DEF a
      <3>. QED
        BY <3>1, <3>3, <3>5, <3>6, <3>9, <3>10, MasterAgrees
    <2>. QED
      BY <2>1, <2>2 DEF FlushFinished
  <1>4. CASE peer = NbWorkers
    <2>1. /\ peer' = Master /\ main' \in {"ready", "finished", "save"}
          /\ main' = "ready" <=> within = "assign"
          /\ main' = "save" => \A p \in Process : assigned_blocks'[p] = {}
      BY <1>1, <1>4 DEF NextPeer
    <2>2. MPITypeOK'
      <3>1. FileStoreTypeOK'
        BY <1>1, FileTypeFrame DEF IInv, MPITypeOK
      <3>. QED
        BY <1>1, <1>3, <2>1, <3>1, MPISets DEF IInv, MPITypeOK, Position, Asking
    <2>3. ControlInv'
      <3>1. \A p \in Process : assigned_blocks[p] = {} => assigned_blocks'[p] = {}
        BY <1>3
      <3>. QED
        BY <1>1, <1>3, <2>1, <3>1 DEF IInv, ControlInv, Waited, Assigning, Asking, Saves
    <2>4. DrainedInv'
      <3>1. ASSUME main' = "save", NEW w \in Worker PROVE inbox[w] = <<>>
        <4>1. ~ Assigning /\ main = "finished"
          BY <1>1, <2>1, <3>1 DEF Assigning, Saves
        <4>2. w = peer \/ w < peer
          BY <1>4, PeerTypes
        <4>. QED
          BY <1>3, <4>1, <4>2, MPISets DEF IInv, DrainedInv
      <3>2. \A w \in Worker : ~ (w < peer')
        BY <2>1, PeerTypes
      <3>. QED
        BY <1>1, <1>3, <2>1, <3>1, <3>2 DEF DrainedInv, Waited, Assigning, Saves
    <2>5. ApartInv'
      BY <1>1, <1>3 DEF IInv, ApartInv
    <2>. QED
      BY <1>2, <1>3, <2>2, <2>3, <2>4, <2>5 DEF IInv, NoThrow
  <1>5. CASE peer # NbWorkers
    <2>1. peer' = peer + 1 /\ main' = "finished"
      BY <1>1, <1>5 DEF NextPeer
    <2>2. peer' \in Process /\ peer' # Master
      BY <1>5, <2>1, PeerTypes DEF Process, Worker
    <2>3. MPITypeOK'
      <3>1. FileStoreTypeOK'
        BY <1>1, FileTypeFrame DEF IInv, MPITypeOK
      <3>. QED
        BY <1>1, <1>3, <2>1, <2>2, <3>1 DEF IInv, MPITypeOK, Position, Asking
    <2>4. ControlInv'
      <3>1. \A p \in Process : assigned_blocks[p] = {} => assigned_blocks'[p] = {}
        BY <1>3
      <3>. QED
        BY <1>1, <1>3, <2>1, <3>1 DEF IInv, ControlInv, Waited, Assigning, Asking, Saves
    <2>5. DrainedInv'
      <3>1. ASSUME ~ Assigning, NEW w \in Worker, w < peer + 1 PROVE inbox[w] = <<>>
        <4>1. w = peer \/ w < peer
          BY <3>1, PeerTypes
        <4>. QED
          BY <1>1, <1>3, <3>1, <4>1, MPISets DEF IInv, DrainedInv
      <3>. QED
        BY <1>1, <1>3, <2>1, <3>1 DEF DrainedInv, Waited, Assigning, Saves
    <2>6. ApartInv'
      BY <1>1, <1>3 DEF IInv, ApartInv
    <2>. QED
      BY <1>2, <1>3, <2>3, <2>4, <2>5, <2>6 DEF IInv, NoThrow
  <1>. QED
    BY <1>4, <1>5

\* The number of the process whose turn it is is pushed, once per ready thread.
LEMMA ReadyPushed ==
    ASSUME IInv, NEW ready \in [Kind -> Nat], PushReady(ready)
    PROVE  /\ idle_queue' \in [Kind -> Seq(Process)]
           /\ \A p \in Process :
                /\ Queued(p) \in [Kind -> Nat] /\ Queued(p)' \in [Kind -> Nat]
                /\ \A kind \in Kind :
                     Queued(p)'[kind] = Queued(p)[kind] + (IF peer = p THEN ready[kind] ELSE 0)
  <1>1. peer \in Process /\ idle_queue \in [Kind -> Seq(Process)]
    BY PeerTypes DEF IInv, MPITypeOK
  <1>2. ASSUME NEW kind \in Kind
        PROVE  /\ idle_queue'[kind] \in Seq(Process)
               /\ \A p \in Process :
                    /\ Occurrences(idle_queue[kind], p) \in Nat
                    /\ Occurrences(idle_queue'[kind], p)
                         = Occurrences(idle_queue[kind], p) + (IF peer = p THEN ready[kind] ELSE 0)
    <2>1. idle_queue[kind] \in Seq(Process) /\ ready[kind] \in Nat
      BY <1>1
    <2>2. idle_queue'[kind] = idle_queue[kind] \o [i \in 1 .. ready[kind] |-> peer]
      BY DEF PushReady
    <2>3. idle_queue'[kind] = idle_queue[kind] \o Repeated(peer, ready[kind])
      BY <2>2 DEF Repeated
    <2>5. ASSUME NEW p \in Process
          PROVE  /\ idle_queue'[kind] \in Seq(Process)
                 /\ Occurrences(idle_queue'[kind], p)
                      = Occurrences(idle_queue[kind], p) + (IF peer = p THEN ready[kind] ELSE 0)
      BY <1>1, <2>1, <2>3, OccurrencesConcat
    <2>6. ASSUME NEW p \in Process PROVE Occurrences(idle_queue[kind], p) \in Nat
      BY <2>1, OccurrencesType
    <2>7. idle_queue'[kind] \in Seq(Process)
      BY <1>1, <2>5
    <2>. QED
      BY <2>5, <2>6, <2>7
  <1>3. \A kind \in Kind : idle_queue'[kind] \in Seq(Process)
    BY <1>2
  <1>4. idle_queue' \in [Kind -> Seq(Process)]
    BY <1>3 DEF PushReady
  <1>5. \A p \in Process, kind \in Kind :
          /\ Queued(p)[kind] = Occurrences(idle_queue[kind], p)
          /\ Queued(p)'[kind] = Occurrences(idle_queue'[kind], p)
    BY DEF Queued
  <1>6. \A p \in Process, kind \in Kind :
          /\ Occurrences(idle_queue[kind], p) \in Nat
          /\ Occurrences(idle_queue'[kind], p) \in Nat
    <2>1. ASSUME NEW p \in Process, NEW kind \in Kind
          PROVE  Occurrences(idle_queue'[kind], p) \in Nat
      BY <1>3, OccurrencesType
    <2>. QED
      BY <1>2, <2>1
  <1>7. \A p \in Process : Queued(p) \in [Kind -> Nat] /\ Queued(p)' \in [Kind -> Nat]
    BY <1>6 DEF Queued
  <1>. QED
    BY <1>2, <1>4, <1>5, <1>7

LEMMA FillIdleQueuesIInv ==
    ASSUME IInv, FillIdleQueues, UNCHANGED <<worker_record, worker_store, worker, crashes>>
    PROVE  IInv'
  <1>1. /\ main = "ready" /\ within = "assign" /\ Assigning
        /\ NextPeer("ready", IF \A k \in Kind : idle_queue'[k] = <<>>
                             THEN "finished" ELSE "dispatch")
        /\ UNCHANGED <<store_vars, position, assigned_blocks, thrown, files, file_store,
                       within, node, block>>
    BY DEF FillIdleQueues, Own, Answered, store_vars, position, IInv, ControlInv, Assigning
  <1>2. "ready" \in Asking
    BY DEF Asking
  <1>3. /\ pool' \in [Process -> Pool] /\ AgreeInv' /\ AskInv' /\ inbox' = inbox /\ asked' = FALSE
        /\ outbox' \in [Worker -> Seq(Reply)] /\ idle_queue' \in [Kind -> Seq(Process)]
    <2>1. CASE Own("ready")
      <3>1. peer = Master /\ UNCHANGED <<inbox, outbox, asked>>
        BY <2>1 DEF Own
      <3>2. /\ pool' = [pool EXCEPT ![Master] = ReadyFlushed(pool[Master])]
            /\ PushReady(pool[Master].ready)
        BY <3>1, PeerTypes DEF FillIdleQueues, Answered, IInv, ControlInv
      <3>3. pool[Master].ready \in [Kind -> Nat]
        BY MasterAgrees, PoolFields
      <3>4. /\ idle_queue' \in [Kind -> Seq(Process)]
            /\ Queued(Master)' \in [Kind -> Nat]
            /\ \A kind \in Kind :
                 Queued(Master)'[kind] = Queued(Master)[kind] + pool[Master].ready[kind]
            /\ \A p \in Process : Queued(p) \in [Kind -> Nat]
            /\ \A p \in Process : p # Master => \A kind \in Kind :
                 Queued(p)'[kind] = Queued(p)[kind] + 0
        BY <3>1, <3>2, <3>3, MPISets, ReadyPushed
      <3>5. /\ ReadyFlushed(pool[Master]) \in Pool
            /\ Agree(Master, ReadyFlushed(pool[Master]), <<>>, <<>>, Queued(Master)',
                     assigned_blocks[Master], file_store)
        <4>1. PICK more : more = Queued(Master)'
          OBVIOUS
        <4>2. \A kind \in Kind : more[kind] = Queued(Master)[kind] + pool[Master].ready[kind]
          BY <3>4, <4>1
        <4>3. ASSUME NEW p \in Process, NEW q, NEW in, NEW out, NEW queued, NEW assigned, NEW fs,
                     Agree(p, q, in, out, queued, assigned, fs),
                     NEW some \in [Kind -> Nat],
                     \A kind \in Kind : some[kind] = queued[kind] + q.ready[kind]
              PROVE  ReadyFlushed(q) \in Pool /\ Agree(p, ReadyFlushed(q), in, out, some, assigned, fs)
          BY <4>3, AgreeOwnReady
        <4>4. Agree(Master, ReadyFlushed(pool[Master]), <<>>, <<>>, more,
                    assigned_blocks[Master], file_store) /\ ReadyFlushed(pool[Master]) \in Pool
          BY <3>4, <4>1, <4>2, <4>3, MasterAgrees
        <4>. QED
          BY <4>1, <4>4
      <3>6. /\ pool' \in [Process -> Pool] /\ pool'[Master] = ReadyFlushed(pool[Master])
            /\ \A o \in Process : o # Master => pool'[o] = pool[o]
        BY <3>2, <3>5, MasterAgrees
      <3>7. AgreeAt(Master)'
        <4>1. Inbox(Master)' = <<>> /\ Outbox(Master)' = <<>>
          BY DEF Inbox, Outbox
        <4>. QED
          BY <1>1, <3>5, <3>6, <4>1 DEF AgreeAt
      <3>8. ASSUME NEW o \in Process, o # Master PROVE Unmoved(o)
        <4>1. \A kind \in Kind : Queued(o)'[kind] = Queued(o)[kind]
          <5>1. \A kind \in Kind : Queued(o)[kind] \in Nat
            BY <3>4
          <5>. QED
            BY <3>4, <3>8, <5>1
        <4>2. \A kind \in Kind : Occurrences(idle_queue'[kind], o) = Occurrences(idle_queue[kind], o)
          BY <4>1 DEF Queued
        <4>. QED
          BY <1>1, <3>1, <3>6, <3>8, <4>2 DEF Unmoved
      <3>9. AgreeInv'
        BY <1>1, <3>7, <3>8, MPISets, AgreeOne
      <3>10. asked = FALSE /\ AskInv'
        <4>1. asked = FALSE
          BY <3>1 DEF IInv, ControlInv, MPITypeOK
        <4>. QED
          BY <3>1, <4>1, AskFrame DEF IInv
      <3>. QED
        BY <3>1, <3>4, <3>6, <3>9, <3>10, MasterAgrees
    <2>2. CASE Answered("ready")
      <3>. DEFINE m == Head(outbox[peer])
      <3>1. /\ peer \in Worker /\ outbox[peer] = <<m>> /\ m.tag = "ready" /\ m \in Reply
            /\ outbox' = [outbox EXCEPT ![peer] = <<>>] /\ outbox'[peer] = <<>>
            /\ outbox' \in [Worker -> Seq(Reply)]
            /\ asked' = FALSE /\ inbox' = inbox /\ inbox[peer] = <<>>
            /\ \A v \in Worker : v # peer => outbox'[v] = outbox[v]
            /\ AskInv'
        BY <1>2, <2>2, AnswerTaken
      <3>2. peer # Master /\ peer \in Process
        BY <3>1, MPISets
      <3>3. PushReady(m.ready) /\ UNCHANGED pool
        BY <3>2 DEF FillIdleQueues, Own
      <3>. HIDE DEF m
      <3>4. m.ready \in [Kind -> Nat]
        BY <3>1, ReplyFields
      <3>5. /\ idle_queue' \in [Kind -> Seq(Process)]
            /\ \A p \in Process :
                 /\ Queued(p) \in [Kind -> Nat] /\ Queued(p)' \in [Kind -> Nat]
                 /\ p = peer => \A kind \in Kind : Queued(p)'[kind] = Queued(p)[kind] + m.ready[kind]
                 /\ p # peer => \A kind \in Kind : Queued(p)'[kind] = Queued(p)[kind] + 0
        BY <3>3, <3>4, ReadyPushed
      <3>6. ASSUME NEW p \in Process, p = peer PROVE AgreeAt(p)'
        <4>1. Agree(p, pool[p], inbox[p], <<m>>, Queued(p), assigned_blocks[p], file_store)
          BY <3>1, <3>6, WorkerAgrees
        <4>2. PICK more : more = Queued(p)'
          OBVIOUS
        <4>3. more \in [Kind -> Nat] /\ \A kind \in Kind : more[kind] = Queued(p)[kind] + m.ready[kind]
          BY <3>5, <3>6, <4>2
        <4>4. Agree(p, pool[p], inbox[p], <<>>, more, assigned_blocks[p], file_store)
          BY <3>1, <4>1, <4>3, AgreeTakeReady
        <4>5. Inbox(p)' = inbox[p] /\ Outbox(p)' = <<>>
          BY <3>1, <3>2, <3>6 DEF Inbox, Outbox
        <4>. QED
          BY <1>1, <3>3, <4>2, <4>4, <4>5 DEF AgreeAt
      <3>7. ASSUME NEW o \in Process, o # peer PROVE Unmoved(o)
        <4>1. \A kind \in Kind : Queued(o)'[kind] = Queued(o)[kind]
          <5>1. \A kind \in Kind : Queued(o)[kind] \in Nat
            BY <3>5
          <5>. QED
            BY <3>5, <3>7, <5>1
        <4>2. \A kind \in Kind : Occurrences(idle_queue'[kind], o) = Occurrences(idle_queue[kind], o)
          BY <4>1 DEF Queued
        <4>. QED
          BY <1>1, <3>1, <3>3, <3>7, <4>2, MPISets DEF Unmoved
      <3>8. AgreeInv'
        BY <1>1, <3>2, <3>6, <3>7, AgreeOne
      <3>. QED
        BY <3>1, <3>3, <3>5, <3>8, MasterAgrees
    <2>. QED
      BY <2>1, <2>2 DEF FillIdleQueues
  <1>4. /\ main' \in {"ready", "finished", "dispatch"} /\ peer' \in Process
        /\ main' = "dispatch" => peer' = Master /\ \E k \in Kind : idle_queue'[k] # <<>>
    BY <1>1, PeerTypes, MPISets DEF NextPeer, Process, Worker
  <1>5. MPITypeOK'
    <2>1. FileStoreTypeOK'
      BY <1>1, FileTypeFrame DEF IInv, MPITypeOK
    <2>. QED
      BY <1>1, <1>3, <1>4, <2>1 DEF IInv, MPITypeOK, Position, Asking
  <1>6. Assigning' /\ ~ Waited'
    BY <1>1, <1>4 DEF Assigning, Waited
  <1>7. ControlInv'
    <2>1. file_store # NoNode /\ node \in Node \ BadNode /\ file_store = node /\ block \in Block
      BY <1>1, MPISets DEF IInv, ControlInv
    <2>. QED
      BY <1>1, <1>3, <1>4, <1>6, <2>1 DEF ControlInv, Asking, Saves
  <1>8. DrainedInv'
    BY <1>6 DEF DrainedInv
  <1>9. ApartInv'
    BY <1>1 DEF IInv, ApartInv
  <1>. QED
    BY <1>1, <1>3, <1>5, <1>7, <1>8, <1>9 DEF IInv, NoThrow

LEMMA SaveGlobalStoresIInv ==
    ASSUME IInv, SaveGlobalStores, UNCHANGED <<worker_record, worker_store, worker, crashes>>
    PROVE  IInv'
  <1>1. /\ main = "save" /\ "save" \in Asking
        /\ UNCHANGED <<pool, position, peer, book_vars, thrown, within, node, block, idle_queue,
                       assigned_blocks, files, file_store>>
    BY DEF SaveGlobalStores, Own, Answered, FlushStaticStore, store_vars, position, book_vars, Asking
  <1>2. ~ thrown /\ within \in {"update_config", "assign", "destructor"}
    BY DEF IInv, NoThrow, MPITypeOK
  <1>3. /\ FileStoreTypeOK' /\ AgreeInv' /\ AskInv' /\ inbox' = inbox /\ asked' = FALSE
        /\ outbox' \in [Worker -> Seq(Reply)]
        /\ asked => peer \in Worker /\ inbox[peer] = <<>>
        /\ \/ peer = Master /\ file_store = NoNode /\ main' = AfterSave
           \/ file_store # NoNode /\ main' = "create_store"
    <2>1. CASE Own("save")
      <3>1. peer = Master /\ UNCHANGED <<inbox, outbox, asked>>
        BY <2>1 DEF Own
      <3>2. ~ asked /\ asked = FALSE
        BY <3>1 DEF IInv, ControlInv, MPITypeOK
      <3>3. IF file_store = NoNode
            THEN main' = AfterSave /\ UNCHANGED store_vars
            ELSE main' = "create_store" /\ FlushStaticStore
        BY <3>1, PeerTypes DEF SaveGlobalStores, Answered, IInv, ControlInv
      <3>4. FileStoreTypeOK'
        <4>1. CASE file_store = NoNode
          BY <3>3, <4>1, FileTypeFrame DEF IInv, MPITypeOK
        <4>2. CASE file_store # NoNode
          BY <3>3, <4>2, NothingToSaveType
          DEF IInv, MPITypeOK, FileStoreTypeOK, FlushStaticStore, Saving
        <4>. QED
          BY <4>1, <4>2
      <3>5. AgreeInv' /\ AskInv'
        BY <1>1, <3>1, <3>2, AgreeAllFrame, AskFrame DEF IInv
      <3>. QED
        BY <3>1, <3>2, <3>3, <3>4, <3>5, MasterAgrees
    <2>2. CASE Answered("save")
      <3>. DEFINE m == Head(outbox[peer])
      <3>1. /\ peer \in Worker /\ outbox[peer] = <<m>> /\ m.tag = "save" /\ m \in Reply
            /\ outbox' = [outbox EXCEPT ![peer] = <<>>] /\ outbox'[peer] = <<>>
            /\ outbox' \in [Worker -> Seq(Reply)]
            /\ asked' = FALSE /\ inbox' = inbox /\ inbox[peer] = <<>>
            /\ \A v \in Worker : v # peer => outbox'[v] = outbox[v]
            /\ AskInv'
        BY <1>1, <2>2, AnswerTaken
      <3>2. peer # Master /\ peer \in Process /\ file_store # NoNode
        BY <1>1, <3>1, MPISets DEF IInv, ControlInv
      <3>3. /\ saving' = m.stores /\ main' = "create_store"
            /\ UNCHANGED <<static_record, static_store, files, file_store, initial_record>>
        BY <3>2 DEF SaveGlobalStores, Own
      <3>. HIDE DEF m
      <3>4. FileStoreTypeOK'
        BY <3>1, <3>3, ReplyFields DEF IInv, MPITypeOK, FileStoreTypeOK
      <3>5. ASSUME NEW p \in Process, p = peer PROVE AgreeAt(p)'
        <4>1. Agree(p, pool[p], inbox[p], <<m>>, Queued(p), assigned_blocks[p], file_store)
          BY <3>1, <3>5, WorkerAgrees
        <4>2. Agree(p, pool[p], inbox[p], <<>>, Queued(p), assigned_blocks[p], file_store)
          BY <3>1, <4>1, AgreeTakeSave
        <4>3. Inbox(p)' = inbox[p] /\ Outbox(p)' = <<>> /\ Queued(p)' = Queued(p)
          BY <1>1, <3>1, <3>2, <3>5 DEF Inbox, Outbox, Queued
        <4>. QED
          BY <1>1, <4>2, <4>3 DEF AgreeAt
      <3>6. \A o \in Process : o # peer => Unmoved(o)
        BY <1>1, <3>1, MPISets DEF Unmoved
      <3>7. AgreeInv'
        BY <1>1, <3>2, <3>5, <3>6, AgreeOne
      <3>. QED
        BY <3>1, <3>2, <3>3, <3>4, <3>7
    <2>. QED
      BY <2>1, <2>2 DEF SaveGlobalStores
  <1>4. /\ main' \in {"create_store", "configure", "shutdown"}
        /\ main' # "create_store" => peer = Master /\ ~ Assigning /\ Waited
        /\ main' = "configure" => within = "update_config"
        /\ main' = "shutdown" => within = "destructor"
        /\ main' = "create_store" => file_store # NoNode
        /\ Assigning' <=> Assigning
        /\ Waited' <=> Waited
    <2>1. file_store = NoNode => within # "assign" /\ ~ Assigning
      BY <1>1, MPISets DEF IInv, ControlInv, Assigning, Saves
    <2>2. /\ main' \in {"create_store", "configure", "shutdown"}
          /\ main' # "create_store" => peer = Master /\ file_store = NoNode
          /\ main' = "configure" => within = "update_config"
          /\ main' = "shutdown" => within = "destructor"
          /\ main' = "create_store" => file_store # NoNode
      BY <1>2, <1>3, <2>1 DEF AfterSave
    <2>. QED
      BY <1>1, <2>1, <2>2 DEF Assigning, Waited, Saves
  <1>5. MPITypeOK'
    BY <1>1, <1>3, <1>4 DEF IInv, MPITypeOK, Position, Saves
  <1>6. ControlInv'
    <2>1. /\ Assigning => node \in Node \ BadNode /\ file_store = node /\ block \in Block
          /\ ~ Assigning => \/ file_store = NoNode /\ node = 1
                            \/ file_store # NoNode /\ node = file_store + 1 /\ block = NbBlocks + 1
          /\ within = "update_config" => node \in Node \ BadNode
          /\ within = "destructor" => node \notin Node \ BadNode
          /\ Waited \/ file_store = NoNode => \A p \in Process : assigned_blocks[p] = {}
      BY <1>1 DEF IInv, ControlInv
    <2>2. /\ main' \notin Asking \cup Saves => peer' = Master
          /\ main' \in Saves => file_store' # NoNode
          /\ main' \notin {"contains", "ready", "dispatch", "options", "rejected", "save", "exited"}
          /\ main' \notin Saves \ {"create_store"}
      BY <1>1, <1>3, <1>4 DEF Asking, Saves
    <2>3. /\ (Assigning' <=> Assigning) /\ (Waited' <=> Waited)
          /\ UNCHANGED <<node, block, within, file_store, assigned_blocks, peer>>
          /\ main' \in {"create_store", "configure", "shutdown"} /\ asked' = FALSE
          /\ main' = "configure" => within = "update_config"
          /\ main' = "shutdown" => within = "destructor"
      BY <1>1, <1>3, <1>4
    <2>. HIDE DEF Assigning, Waited
    <2>. QED
      BY <2>1, <2>2, <2>3 DEF ControlInv
  <1>7. DrainedInv'
    <2>1. ASSUME Waited, NEW w \in Worker PROVE inbox[w] = <<>>
      BY <1>1, <1>3, <2>1 DEF IInv, DrainedInv, Asked
    <2>. QED
      BY <1>3, <1>4, <2>1 DEF DrainedInv
  <1>8. ApartInv'
    BY <1>1 DEF IInv, ApartInv
  <1>. QED
    BY <1>1, <1>2, <1>3, <1>5, <1>6, <1>7, <1>8 DEF IInv, NoThrow

\* The last pair of the path in use is replaced.
LEMMA PairBecomes ==
    ASSUME PairInUse, NEW p \in FilePair, LastBecomes(p)
    PROVE  files' \in [Node -> Seq(FilePair)] /\ files'[file_store] # <<>>
  <1>. DEFINE old == files[file_store]
              c == Len(old)
              new == [old EXCEPT ![c] = p]
  <1>1. old \in Seq(FilePair) /\ old # <<>> /\ file_store \in Node
    BY DEF PairInUse
  <1>2. c \in 1 .. Len(old)
    BY <1>1, EmptySeq
  <1>3. new \in Seq(FilePair) /\ Len(new) = Len(old)
    BY <1>1, <1>2, ExceptSeq
  <1>4. new # <<>>
    <2>1. Len(<<>>) = 0
      OBVIOUS
    <2>. HIDE DEF new, c
    <2>. QED
      BY <1>2, <1>3, <2>1
  <1>5. files' = [files EXCEPT ![file_store] = new]
    BY DEF LastBecomes, Current
  <1>. HIDE DEF new
  <1>. QED
    BY <1>1, <1>3, <1>4, <1>5 DEF PairInUse

\* What the steps of a save leave of the files' types.
LEMMA SaveTypes ==
    ASSUME FileStoreTypeOK, file_store # NoNode
    PROVE  /\ CreateStoreFile =>
                /\ FileStoreTypeOK' /\ files'[file_store] # <<>> /\ UNCHANGED file_store
           /\ files[file_store] # <<>> =>
                \/ ~ (\/ WriteStoreFile \/ FailStoreFile
                      \/ CreateRecordFile \/ WriteRecordFile)
                \/ FileStoreTypeOK' /\ files'[file_store] # <<>> /\ UNCHANGED file_store
  <1>1. file_store \in Node /\ files \in [Node -> Seq(FilePair)] /\ saving \in Saving
    BY DEF FileStoreTypeOK
  <1>2. ASSUME CreateStoreFile
        PROVE  FileStoreTypeOK' /\ files'[file_store] # <<>> /\ UNCHANGED file_store
    <2>. DEFINE t == files'[file_store]
                n == Len(files[file_store])
    <2>1. files' \in [Node -> Seq(FilePair)] /\ Len(t) = n + 1 /\ n \in Nat
      BY <1>1, <1>2, PairAdded
    <2>2. t # <<>>
      <3>1. Len(<<>>) = 0
        OBVIOUS
      <3>. HIDE DEF t, n
      <3>. QED
        BY <2>1, <3>1
    <2>. QED
      BY <1>2, <2>1, <2>2 DEF CreateStoreFile, FileStoreTypeOK
  <1>3. ASSUME files[file_store] # <<>>,
               WriteStoreFile \/ FailStoreFile \/ CreateRecordFile \/ WriteRecordFile
        PROVE  FileStoreTypeOK' /\ files'[file_store] # <<>> /\ UNCHANGED file_store
    <2>1. PairInUse
      BY <1>1, <1>3 DEF PairInUse
    <2>2. \E p \in FilePair : LastBecomes(p)
      <3>1. CASE WriteStoreFile
        BY <2>1, <3>1, LastPairSteps
      <3>2. CASE CreateRecordFile
        BY <2>1, <3>2, LastPairSteps
      <3>3. CASE WriteRecordFile
        <4>1. saving.record \in SUBSET saving.record
          OBVIOUS
        <4>. QED
          BY <2>1, <3>3, <4>1, LastPairSteps DEF WriteRecordFile
      <3>4. CASE FailStoreFile
        BY <2>1, <3>4, LastPairSteps
      <3>. QED
        BY <1>3, <3>1, <3>2, <3>3, <3>4
    <2>3. files' \in [Node -> Seq(FilePair)] /\ files'[file_store] # <<>>
      BY <2>1, <2>2, PairBecomes
    <2>4. /\ UNCHANGED <<static_record, static_store, file_store, initial_record>>
          /\ saving' \in Saving
      BY <1>1, <1>3, NothingToSaveType
         DEF WriteStoreFile, FailStoreFile, CreateRecordFile, WriteRecordFile
    <2>. QED
      BY <2>3, <2>4 DEF FileStoreTypeOK
  <1>. QED
    BY <1>2, <1>3

LEMMA SaveStepIInv ==
    ASSUME IInv, SaveStep, UNCHANGED <<worker_record, worker_store, worker, crashes>>
    PROVE  IInv'
  <1>1. /\ main \in Saves /\ ~ asked /\ file_store # NoNode
        /\ main # "create_store" => files[file_store] # <<>>
        /\ UNCHANGED <<pool, inbox, outbox, position, asked, book_vars, thrown, within, node, block,
                       idle_queue, assigned_blocks>>
    BY DEF SaveStep, position, book_vars, Saves, IInv, ControlInv, Asking
  <1>2. ~ thrown /\ within \in {"update_config", "assign", "destructor"} /\ asked' = FALSE
    BY <1>1 DEF IInv, NoThrow, MPITypeOK
  <1>3. FileStoreTypeOK' /\ files'[file_store] # <<>> /\ UNCHANGED file_store
    <2>1. FileStoreTypeOK
      BY DEF IInv, MPITypeOK
    <2>. QED
      BY <1>1, <2>1, SaveTypes DEF SaveStep
  <1>4. /\ main' \in {"write_store", "create_record", "write_record", "save", "configure",
                      "contains", "shutdown"}
        /\ main' \in {"configure", "contains", "shutdown"} => main' = AfterSave /\ peer' = Master
        /\ peer' \in Process
    <2>1. AfterSave \in {"configure", "contains", "shutdown"}
      BY <1>2 DEF AfterSave
    <2>2. peer \in Process /\ peer \in 0 .. NbWorkers /\ NbWorkers \in Nat /\ Master \in Process
      BY PeerTypes, MPISets
    <2>3. peer # NbWorkers => peer + 1 \in Process
      BY <2>2 DEF Process, Worker
    <2>4. CASE main # "write_record"
      <3>1. UNCHANGED peer /\ main' \in {"write_store", "create_record", "write_record"}
        BY <2>4 DEF SaveStep
      <3>. QED
        BY <2>2, <3>1
    <2>5. CASE main = "write_record"
      <3>1. NextPeer("save", AfterSave)
        BY <2>5 DEF SaveStep
      <3>. HIDE DEF AfterSave
      <3>. QED
        BY <2>1, <2>2, <2>3, <2>5, <3>1 DEF NextPeer
    <2>. QED
      BY <2>4, <2>5
  <1>5. /\ main' = "configure" => within = "update_config"
        /\ main' = "shutdown" => within = "destructor"
        /\ main' = "contains" => within = "assign"
        /\ Assigning' <=> Assigning
        /\ Waited' <=> Waited
    <2>1. /\ main' = "configure" => within = "update_config"
          /\ main' = "shutdown" => within = "destructor"
          /\ main' = "contains" => within = "assign"
          /\ main' \in {"configure", "shutdown"} => within # "assign"
      BY <1>2, <1>4 DEF AfterSave
    <2>. QED
      BY <1>1, <1>4, <2>1 DEF Assigning, Waited, Saves
  <1>6. AgreeInv' /\ AskInv'
    BY <1>1, <1>2, <1>3, AgreeAllFrame, AskFrame DEF IInv
  <1>7. MPITypeOK'
    BY <1>1, <1>2, <1>3, <1>4 DEF IInv, MPITypeOK, Position, Saves, Asking
  <1>8. ControlInv'
    <2>1. Assigning => block \in Block
      BY <1>1 DEF IInv, ControlInv, Saves
    <2>2. main' \notin Asking \cup Saves => peer' = Master
      BY <1>4 DEF Asking, Saves
    <2>. QED
      BY <1>1, <1>2, <1>3, <1>4, <1>5, <2>1, <2>2 DEF IInv, ControlInv, Asking, Saves
  <1>9. DrainedInv'
    <2>1. ASSUME Waited, NEW w \in Worker PROVE inbox[w] = <<>>
      BY <1>1, <2>1 DEF IInv, DrainedInv, Asked, Saves
    <2>2. main' # "finished"
      BY <1>4
    <2>. QED
      BY <1>1, <1>5, <2>1, <2>2 DEF DrainedInv
  <1>10. ApartInv'
    BY <1>1 DEF IInv, ApartInv
  <1>. QED
    BY <1>1, <1>2, <1>6, <1>7, <1>8, <1>9, <1>10 DEF IInv, NoThrow

-----------------------------------------------------------------------------
(* The master, where it tells the workers something                        *)

LEMMA ConfigureIInv ==
    ASSUME IInv, Configure, UNCHANGED <<worker_record, worker_store, worker, crashes>>
    PROVE  IInv'
  <1>. DEFINE m == [tag |-> "update_config", node |-> node]
  <1>1. /\ main = "configure" /\ main' = "iterate" /\ block' = 1
        /\ file_store' = node /\ initial_record' = Recorded(node)
        /\ pool' = [pool EXCEPT ![Master].tables = node]
        /\ inbox' = [w \in Worker |-> Append(inbox[w], m)]
        /\ UNCHANGED <<outbox, peer, asked, within, node, book_vars, thrown, idle_queue,
                       assigned_blocks, static_record, static_store, files, saving>>
    BY DEF Configure, OpenFileStore, SendAll, book_vars
  <1>2. /\ node \in Node \ BadNode /\ within = "update_config" /\ Waited /\ ~ asked
        /\ peer = Master /\ asked' = FALSE /\ ~ thrown
        /\ \A p \in Process : assigned_blocks[p] = {}
    BY <1>1 DEF IInv, ControlInv, Assigning, Waited, Asking, Saves, NoThrow, MPITypeOK
  <1>3. \A w \in Worker : inbox[w] = <<>> /\ outbox[w] = <<>>
    BY <1>1, <1>2, WaitedNothing DEF Asking
  <1>4. m \in Message /\ m.tag = "update_config"
    BY <1>2, MadeMessages
  <1>5. /\ \A p \in Process : pool'[p] = IF p = Master THEN [pool[p] EXCEPT !.tables = node] ELSE pool[p]
        /\ pool \in [Process -> Pool] /\ pool' = [p \in Process |-> pool'[p]]
    BY <1>1, MasterAgrees
  <1>6. \A p \in Process : Queued(p)' = Queued(p)
    BY <1>1 DEF Queued
  <1>7. ASSUME NEW p \in Process, p = Master PROVE AgreeAt(p)' /\ pool'[p] \in Pool
    <2>1. Agree(p, pool[p], <<>>, <<>>, Queued(p), {}, file_store)
      BY <1>2, <1>7, MasterAgrees
    <2>2. [pool[p] EXCEPT !.tables = node] \in Pool
          /\ Agree(p, [pool[p] EXCEPT !.tables = node], <<>>, <<>>, Queued(p), {}, node)
      BY <1>2, <2>1, AgreeNewNode
    <2>3. Inbox(p)' = <<>> /\ Outbox(p)' = <<>>
      BY <1>7 DEF Inbox, Outbox
    <2>4. pool'[p] = [pool[p] EXCEPT !.tables = node] /\ assigned_blocks'[p] = {}
      BY <1>1, <1>2, <1>5, <1>7
    <2>. QED
      BY <1>1, <1>6, <2>2, <2>3, <2>4 DEF AgreeAt
  <1>8. ASSUME NEW p \in Process, p # Master
        PROVE  /\ AgreeAt(p)' /\ pool'[p] \in Pool /\ inbox'[p] = Append(<<>>, m)
               /\ inbox'[p] \in Seq(Message)
    <2>1. p \in Worker
      BY <1>8, MPISets
    <2>2. Agree(p, pool[p], <<>>, outbox[p], Queued(p), {}, file_store) /\ pool[p] \in Pool
      BY <1>2, <1>3, <2>1, WorkerAgrees
    <2>3. LET in == Append(<<>>, [tag |-> "update_config", node |-> node])
          IN  in \in Seq(Message) /\ Agree(p, pool[p], in, outbox[p], Queued(p), {}, node)
      BY <1>2, <2>2, AgreeNewNode
    <2>4. inbox'[p] = Append(<<>>, m)
      BY <1>1, <1>3, <2>1
    <2>5. Inbox(p)' = inbox'[p] /\ Outbox(p)' = outbox[p]
      BY <1>1, <1>8 DEF Inbox, Outbox
    <2>6. pool'[p] = pool[p] /\ assigned_blocks'[p] = {}
      BY <1>1, <1>2, <1>5, <1>8
    <2>. QED
      BY <1>1, <1>6, <2>2, <2>3, <2>4, <2>5, <2>6 DEF AgreeAt
  <1>. HIDE DEF m
  <1>9. AgreeInv'
    BY <1>7, <1>8 DEF AgreeInv
  <1>10. pool' \in [Process -> Pool] /\ inbox' \in [Worker -> Seq(Message)]
    <2>1. \A p \in Process : pool'[p] \in Pool
      BY <1>7, <1>8
    <2>2. \A w \in Worker : inbox'[w] \in Seq(Message)
      BY <1>8, MPISets
    <2>. QED
      BY <1>1, <1>5, <2>1, <2>2
  <1>11. AskInv'
    <2>1. \A w \in Worker : ~ Asked(w)'
      BY <1>2 DEF Asked
    <2>2. Len(Append(<<>>, m)) = 1 /\ Append(<<>>, m)[1] = m /\ DOMAIN Append(<<>>, m) = 1 .. 1
      OBVIOUS
    <2>3. \A i \in 1 .. 1 : i = 1
      OBVIOUS
    <2>4. ASSUME NEW w \in Worker PROVE AskAt(w)'
      <3>1. w \in Process /\ w # Master
        BY MPISets
      <3>2. PICK in : in = Append(<<>>, m)
        OBVIOUS
      <3>3. inbox'[w] = in /\ outbox'[w] = <<>>
        BY <1>1, <1>3, <1>8, <3>1, <3>2
      <3>4. NoQuestion(in)
        BY <1>4, <2>2, <2>3, <3>2 DEF NoQuestion, Asking
      <3>. QED
        BY <2>1, <3>3, <3>4 DEF AskAt, NoQuestion
    <2>. QED
      BY <2>4 DEF AskInv
  <1>12. MPITypeOK'
    <2>1. FileStoreTypeOK'
      BY <1>1, <1>2, RecordedType DEF IInv, MPITypeOK, FileStoreTypeOK
    <2>2. 1 \in 1 .. NbBlocks + 1
      BY MPISets
    <2>. QED
      BY <1>1, <1>2, <1>10, <2>1, <2>2 DEF IInv, MPITypeOK, Position
  <1>13. Assigning' /\ ~ Waited'
    BY <1>1 DEF Assigning, Waited
  <1>14. ControlInv'
    BY <1>1, <1>2, <1>13, MPISets DEF ControlInv, Asking, Saves
  <1>15. DrainedInv'
    BY <1>13 DEF DrainedInv
  <1>16. ApartInv'
    BY <1>1, <1>2 DEF ApartInv
  <1>. QED
    BY <1>1, <1>2, <1>9, <1>11, <1>12, <1>14, <1>15, <1>16 DEF IInv, NoThrow

\* The first process of a queue is taken.
LEMMA QueueTaken ==
    ASSUME IInv, NEW kind \in Kind, idle_queue[kind] # <<>>,
           idle_queue' = [idle_queue EXCEPT ![kind] = Tail(idle_queue[kind])]
    PROVE  /\ Head(idle_queue[kind]) \in Process
           /\ idle_queue' \in [Kind -> Seq(Process)]
           /\ OneLess(kind, Queued(Head(idle_queue[kind])), [k \in Kind |->
                        Occurrences(idle_queue'[k], Head(idle_queue[kind]))])
           /\ \A p \in Process : p # Head(idle_queue[kind]) => \A k \in Kind :
                Occurrences(idle_queue'[k], p) = Occurrences(idle_queue[k], p)
  <1>. DEFINE s == idle_queue[kind]
              h == Head(s)
              t == Tail(s)
              less == [k \in Kind |-> Occurrences(idle_queue'[k], h)]
  <1>1. idle_queue \in [Kind -> Seq(Process)]
    BY DEF IInv, MPITypeOK
  <1>2. s \in Seq(Process) /\ s # <<>> /\ h \in Process /\ t \in Seq(Process)
    BY <1>1
  <1>3. /\ idle_queue' \in [Kind -> Seq(Process)]
        /\ \A k \in Kind : idle_queue'[k] = IF k = kind THEN t ELSE idle_queue[k]
    BY <1>1, <1>2
  <1>4. ASSUME NEW p \in Process
        PROVE  /\ Occurrences(s, p) = Occurrences(t, p) + (IF h = p THEN 1 ELSE 0)
               /\ \A k \in Kind : Occurrences(idle_queue'[k], p) \in Nat
    <2>1. Occurrences(s, p) = Occurrences(t, p) + (IF h = p THEN 1 ELSE 0)
      BY <1>2, OccurrencesTail
    <2>2. \A k \in Kind : idle_queue'[k] \in Seq(Process)
      BY <1>3
    <2>3. \A k \in Kind : Occurrences(idle_queue'[k], p) \in Nat
      BY <2>2, OccurrencesType
    <2>. QED
      BY <2>1, <2>3
  <1>5. Occurrences(s, h) = Occurrences(t, h) + 1
    BY <1>2, <1>4
  <1>6. ASSUME NEW p \in Process, p # h, NEW k \in Kind
        PROVE  Occurrences(idle_queue'[k], p) = Occurrences(idle_queue[k], p)
    <2>1. Occurrences(s, p) = Occurrences(t, p) + 0
      BY <1>4, <1>6
    <2>2. Occurrences(t, p) \in Nat
      BY <1>3, <1>4
    <2>. QED
      BY <1>3, <2>1, <2>2
  <1>7. less \in [Kind -> Nat]
    BY <1>2, <1>4
  <1>8. \A k \in Kind : Queued(h)[k] = less[k] + (IF k = kind THEN 1 ELSE 0)
    <2>1. ASSUME NEW k \in Kind
          PROVE  Queued(h)[k] = less[k] + (IF k = kind THEN 1 ELSE 0)
      <3>1. Queued(h)[k] = Occurrences(idle_queue[k], h) /\ less[k] = Occurrences(idle_queue'[k], h)
        BY DEF Queued
      <3>2. less[k] \in Nat
        BY <1>7
      <3>3. CASE k = kind
        <4>1. Queued(h)[k] = Occurrences(s, h) /\ less[k] = Occurrences(t, h)
          BY <1>3, <3>1, <3>3
        <4>. QED
          BY <1>5, <3>3, <4>1
      <3>4. CASE k # kind
        <4>1. Queued(h)[k] = less[k]
          BY <1>3, <3>1, <3>4
        <4>. QED
          BY <3>2, <3>4, <4>1
      <3>. QED
        BY <3>3, <3>4
    <2>. QED
      BY <2>1
  <1>9. OneLess(kind, Queued(h), less)
    BY <1>7, <1>8 DEF OneLess
  <1>. QED
    BY <1>2, <1>3, <1>6, <1>9

LEMMA DispatchIInv ==
    ASSUME IInv, Dispatch, UNCHANGED <<worker_record, worker_store, worker, crashes>>
    PROVE  IInv'
  <1>0. PICK kind : kind = IF idle_queue["opencl"] # <<>> THEN "opencl" ELSE "cpu"
    OBVIOUS
  <1>1. PICK p : p = Head(idle_queue[kind])
    OBVIOUS
  <1>. DEFINE m == [tag |-> "assign_block", kind |-> kind, block |-> block]
  <1>2. /\ main = "dispatch" /\ main' = "iterate" /\ block' = block + 1
        /\ idle_queue' = [idle_queue EXCEPT ![kind] = Tail(idle_queue[kind])]
        /\ IF p # Master
           THEN /\ inbox' = [inbox EXCEPT ![p] = Append(inbox[p], m)]
                /\ UNCHANGED <<pool, thrown>>
           ELSE /\ IF pool[Master].idle[kind] = 0
                   THEN thrown' = TRUE /\ UNCHANGED pool
                   ELSE /\ pool' = [pool EXCEPT ![Master] = PoolAssign(pool[Master], block, kind)]
                        /\ UNCHANGED thrown
                /\ UNCHANGED inbox
        /\ assigned_blocks' = [assigned_blocks EXCEPT ![p] = assigned_blocks[p] \cup {block}]
        /\ UNCHANGED <<store_vars, outbox, within, node, peer, asked, file_store>>
    BY <1>0, <1>1 DEF Dispatch, store_vars
  <1>3. /\ within = "assign" /\ Assigning /\ ~ asked /\ peer = Master /\ asked' = FALSE
        /\ block \in Block /\ ~ thrown /\ thrown = FALSE
        /\ \E k \in Kind : idle_queue[k] # <<>>
    BY <1>2 DEF IInv, ControlInv, Assigning, Asking, Saves, NoThrow, MPITypeOK
  <1>4. kind \in Kind /\ idle_queue[kind] # <<>>
    BY <1>0, <1>3, MPISets
  <1>5. \A w \in Worker : ~ Asked(w) /\ outbox[w] = <<>> /\ NoQuestion(inbox[w])
    BY <1>2, WaitedNothing DEF Asking
  <1>. DEFINE less == [k \in Kind |-> Occurrences(idle_queue'[k], p)]
  <1>6. /\ p \in Process /\ idle_queue' \in [Kind -> Seq(Process)]
        /\ OneLess(kind, Queued(p), less)
        /\ \A o \in Process : o # p => \A k \in Kind :
             Occurrences(idle_queue'[k], o) = Occurrences(idle_queue[k], o)
    BY <1>1, <1>2, <1>4, QueueTaken
  <1>7. block \in Nat /\ block' \in 1 .. NbBlocks + 1
    BY <1>2, <1>3, MPISets
  <1>8. \A o \in Process : block \notin assigned_blocks[o] /\ assigned_blocks[o] \in SUBSET Block
    <2>1. \A o \in Process : \A b \in assigned_blocks[o] : b < block
      BY DEF IInv, ApartInv
    <2>2. \A o \in Process : block \notin assigned_blocks[o]
      BY <1>7, <2>1
    <2>. QED
      BY <2>2, MasterAgrees
  <1>9. Queued(p)' = less
    BY DEF Queued
  <1>10. m \in Message /\ m.tag = "assign_block"
    BY <1>3, <1>4, MadeMessages
  <1>. HIDE DEF less
  <1>11. /\ assigned_blocks' \in [Process -> SUBSET Block]
         /\ assigned_blocks'[p] = assigned_blocks[p] \cup {block}
         /\ \A o \in Process : o # p => assigned_blocks'[o] = assigned_blocks[o]
    BY <1>2, <1>3, <1>6, <1>8, MasterAgrees
  <1>12. /\ pool' \in [Process -> Pool] /\ inbox' \in [Worker -> Seq(Message)] /\ AgreeInv' /\ AskInv'
         /\ thrown' = FALSE
    <2>1. CASE p = Master
      <3>1. Agree(p, pool[p], <<>>, <<>>, Queued(p), assigned_blocks[p], file_store)
        BY <2>1, MasterAgrees
      <3>2. LET r == PoolAssign(pool[p], block, kind)
            IN  /\ pool[p].idle[kind] # 0 /\ r \in Pool
                /\ Agree(p, r, <<>>, <<>>, less, assigned_blocks[p] \cup {block}, file_store)
        <4>1. ASSUME NEW o \in Process, NEW q, NEW queued, NEW assigned, NEW fs,
                     Agree(o, q, <<>>, <<>>, queued, assigned, fs),
                     NEW k \in Kind, NEW b \in Block, b \notin assigned,
                     NEW some, OneLess(k, queued, some)
              PROVE  /\ q.idle[k] # 0 /\ PoolAssign(q, b, k) \in Pool
                     /\ Agree(o, PoolAssign(q, b, k), <<>>, <<>>, some, assigned \cup {b}, fs)
          BY <4>1, AgreeDispatchOwn
        <4>. QED
          BY <1>3, <1>4, <1>6, <1>8, <3>1, <4>1
      <3>3. /\ pool' = [pool EXCEPT ![Master] = PoolAssign(pool[Master], block, kind)]
            /\ UNCHANGED <<thrown, inbox>>
        BY <1>2, <2>1, <3>2
      <3>4. /\ pool' \in [Process -> Pool] /\ pool'[p] = PoolAssign(pool[p], block, kind)
            /\ \A o \in Process : o # p => pool'[o] = pool[o]
        BY <1>6, <2>1, <3>2, <3>3, MasterAgrees
      <3>5. AgreeAt(p)'
        <4>1. Inbox(p)' = <<>> /\ Outbox(p)' = <<>>
          BY <2>1 DEF Inbox, Outbox
        <4>. QED
          BY <1>2, <1>9, <1>11, <3>2, <3>4, <4>1 DEF AgreeAt
      <3>6. \A o \in Process : o # p => Unmoved(o)
        BY <1>2, <1>6, <1>11, <3>3, <3>4 DEF Unmoved
      <3>7. AgreeInv'
        BY <1>2, <1>6, <3>5, <3>6, AgreeOne
      <3>8. AskInv'
        BY <1>2, <1>3, <3>3, AskFrame DEF IInv
      <3>. QED
        BY <1>3, <3>3, <3>4, <3>7, <3>8, MasterAgrees
    <2>2. CASE p # Master
      <3>1. p \in Worker
        BY <1>6, <2>2, MPISets
      <3>2. Agree(p, pool[p], inbox[p], outbox[p], Queued(p), assigned_blocks[p], file_store)
        BY <3>1, WorkerAgrees
      <3>3. /\ Append(inbox[p], m) \in Seq(Message)
            /\ Agree(p, pool[p], Append(inbox[p], m), outbox[p], less,
                     assigned_blocks[p] \cup {block}, file_store)
        <4>1. ASSUME NEW o \in Process, NEW q, NEW in, NEW out, NEW queued, NEW assigned, NEW fs,
                     Agree(o, q, in, out, queued, assigned, fs),
                     NEW k \in Kind, NEW b \in Block, b \notin assigned,
                     NEW some, OneLess(k, queued, some)
              PROVE  /\ Append(in, [tag |-> "assign_block", kind |-> k, block |-> b]) \in Seq(Message)
                     /\ Agree(o, q, Append(in, [tag |-> "assign_block", kind |-> k, block |-> b]),
                              out, some, assigned \cup {b}, fs)
          BY <4>1, AgreeDispatch
        <4>. QED
          BY <1>3, <1>4, <1>6, <1>8, <3>2, <4>1
      <3>. HIDE DEF m
      <3>4. inbox' = [inbox EXCEPT ![p] = Append(inbox[p], m)] /\ UNCHANGED <<pool, thrown>>
        BY <1>2, <2>2
      <3>5. /\ inbox' \in [Worker -> Seq(Message)] /\ inbox'[p] = Append(inbox[p], m)
            /\ \A v \in Worker : v # p => inbox'[v] = inbox[v]
        BY <3>1, <3>3, <3>4, MasterAgrees
      <3>6. AgreeAt(p)'
        <4>1. Inbox(p)' = Append(inbox[p], m) /\ Outbox(p)' = outbox[p]
          BY <1>2, <2>2, <3>5 DEF Inbox, Outbox
        <4>. QED
          BY <1>2, <1>9, <1>11, <3>3, <3>4, <4>1 DEF AgreeAt
      <3>7. \A o \in Process : o # p => Unmoved(o)
        BY <1>2, <1>6, <1>11, <3>4, <3>5, MPISets DEF Unmoved
      <3>8. AgreeInv'
        BY <1>2, <1>6, <3>6, <3>7, AgreeOne
      <3>9. NoQuestion(Append(inbox[p], m))
        <4>. DEFINE q == inbox[p]
                    n == Len(q)
                    t == Append(q, m)
        <4>1. NoQuestion(q) /\ q \in Seq(Message)
          BY <1>5, <3>1, WorkerAgrees
        <4>2. n \in Nat /\ DOMAIN q = 1 .. n
          BY <4>1, LenProperties
        <4>3. t \in Seq(Message) /\ Len(t) = n + 1 /\ t[n + 1] = m /\ \A i \in 1 .. n : t[i] = q[i]
          BY <1>10, <4>1, AppendProperties
        <4>4. DOMAIN t = 1 .. n + 1
          BY <4>3, LenProperties
        <4>. HIDE DEF t, n, q
        <4>5. NoQuestion(t)
          BY <1>10, <4>1, <4>2, <4>3, <4>4 DEF NoQuestion, Asking
        <4>. QED
          BY <4>5 DEF t, q
      <3>10. AskInv'
        <4>1. \A v \in Worker : ~ Asked(v)'
          BY <1>3 DEF Asked
        <4>2. ASSUME NEW v \in Worker PROVE AskAt(v)'
          <5>1. NoQuestion(inbox'[v]) /\ outbox'[v] = <<>>
            BY <1>2, <1>5, <3>5, <3>9
          <5>. QED
            BY <4>1, <5>1 DEF AskAt, NoQuestion
        <4>. QED
          BY <4>2 DEF AskInv
      <3>. QED
        BY <1>3, <3>4, <3>5, <3>8, <3>10, MasterAgrees
    <2>. QED
      BY <2>1, <2>2
  <1>13. MPITypeOK'
    <2>1. FileStoreTypeOK'
      BY <1>2, FileTypeFrame DEF IInv, MPITypeOK
    <2>. QED
      BY <1>2, <1>3, <1>6, <1>7, <1>11, <1>12, <2>1 DEF IInv, MPITypeOK, Position
  <1>14. Assigning' /\ ~ Waited'
    BY <1>2 DEF Assigning, Waited
  <1>15. ControlInv'
    <2>1. file_store # NoNode /\ node \in Node \ BadNode /\ file_store = node
      BY <1>3, MPISets DEF IInv, ControlInv
    <2>. QED
      BY <1>2, <1>3, <1>14, <2>1 DEF ControlInv, Asking, Saves
  <1>16. DrainedInv'
    BY <1>14 DEF DrainedInv
  <1>17. ApartInv'
    <2>1. \A o \in Process : \A b \in assigned_blocks'[o] : b < block'
      <3>1. \A o \in Process : \A b \in assigned_blocks[o] : b < block /\ b \in Nat
        BY <1>8, MPISets DEF IInv, ApartInv
      <3>2. block < block' /\ \A b \in Nat : b < block => b < block'
        BY <1>2, <1>7
      <3>. QED
        BY <1>6, <1>11, <3>1, <3>2
    <2>2. \A o, v \in Process : o # v => assigned_blocks'[o] \cap assigned_blocks'[v] = {}
      <3>1. \A o, v \in Process : o # v => assigned_blocks[o] \cap assigned_blocks[v] = {}
        BY DEF IInv, ApartInv
      <3>. QED
        BY <1>8, <1>11, <3>1
    <2>. QED
      BY <2>1, <2>2 DEF ApartInv
  <1>. QED
    BY <1>12, <1>13, <1>15, <1>16, <1>17 DEF IInv, NoThrow

LEMMA ShutdownIInv ==
    ASSUME IInv, Shutdown, UNCHANGED <<worker_record, worker_store, worker, crashes>>
    PROVE  IInv'
  <1>. DEFINE m == [tag |-> "shutdown"]
  <1>1. /\ main = "shutdown" /\ main' = "join"
        /\ inbox' = [w \in Worker |-> Append(inbox[w], m)]
        /\ UNCHANGED <<outbox, peer, asked, pool, within, node, block, book_vars, thrown, idle_queue,
                       assigned_blocks, store_vars, files, file_store>>
    BY DEF Shutdown, SendAll, book_vars, position, store_vars
  <1>2. /\ within = "destructor" /\ Waited /\ ~ asked /\ ~ Assigning
        /\ peer = Master /\ asked' = FALSE /\ ~ thrown
        /\ \A p \in Process : assigned_blocks[p] = {}
    BY <1>1 DEF IInv, ControlInv, Assigning, Waited, Asking, Saves, NoThrow, MPITypeOK
  <1>3. \A w \in Worker : inbox[w] = <<>> /\ outbox[w] = <<>>
    BY <1>1, <1>2, WaitedNothing DEF Asking
  <1>4. m \in Message /\ m.tag = "shutdown"
    BY MadeMessages
  <1>. HIDE DEF m
  <1>5. ASSUME NEW p \in Process
        PROVE  AgreeAt(p)' /\ (p # Master => inbox'[p] \in Seq(Message) /\ inbox'[p] = Append(<<>>, m))
    <2>1. CASE p = Master
      <3>1. Unmoved(p) /\ AgreeAt(p)
        BY <1>1, <2>1 DEF Unmoved, IInv, AgreeInv
      <3>. QED
        BY <1>1, <2>1, <3>1, AgreeFrame
    <2>2. CASE p # Master
      <3>1. p \in Worker
        BY <2>2, MPISets
      <3>2. Agree(p, pool[p], inbox[p], outbox[p], Queued(p), assigned_blocks[p], file_store)
        BY <3>1, WorkerAgrees
      <3>3. /\ Append(inbox[p], m) \in Seq(Message)
            /\ Agree(p, pool[p], Append(inbox[p], m), outbox[p], Queued(p), assigned_blocks[p],
                     file_store)
        BY <1>4, <3>2, AgreeAppend
      <3>4. inbox'[p] = Append(inbox[p], m) /\ inbox[p] = <<>>
        BY <1>1, <1>3, <3>1
      <3>5. Inbox(p)' = Append(inbox[p], m) /\ Outbox(p)' = outbox[p] /\ Queued(p)' = Queued(p)
        BY <1>1, <2>2, <3>4 DEF Inbox, Outbox, Queued
      <3>. QED
        BY <1>1, <3>3, <3>4, <3>5 DEF AgreeAt
    <2>. QED
      BY <2>1, <2>2
  <1>6. AgreeInv'
    BY <1>5 DEF AgreeInv
  <1>7. inbox' \in [Worker -> Seq(Message)]
    BY <1>1, <1>5, MPISets
  <1>8. AskInv'
    <2>1. \A w \in Worker : ~ Asked(w)'
      BY <1>2 DEF Asked
    <2>2. Append(<<>>, m)[1] = m /\ DOMAIN Append(<<>>, m) = 1 .. 1
      OBVIOUS
    <2>3. \A i \in 1 .. 1 : i = 1
      OBVIOUS
    <2>4. ASSUME NEW w \in Worker PROVE AskAt(w)'
      <3>1. w \in Process /\ w # Master
        BY MPISets
      <3>2. PICK in : in = Append(<<>>, m)
        OBVIOUS
      <3>3. inbox'[w] = in /\ outbox'[w] = <<>>
        BY <1>1, <1>3, <1>5, <3>1, <3>2
      <3>4. NoQuestion(in)
        BY <1>4, <2>2, <2>3, <3>2 DEF NoQuestion, Asking
      <3>. QED
        BY <2>1, <3>3, <3>4 DEF AskAt, NoQuestion
    <2>. QED
      BY <2>4 DEF AskInv
  <1>9. MPITypeOK'
    <2>1. FileStoreTypeOK'
      BY <1>1, FileTypeFrame DEF IInv, MPITypeOK
    <2>. QED
      BY <1>1, <1>7, <2>1 DEF IInv, MPITypeOK, Position
  <1>10. ~ Assigning'
    BY <1>1 DEF Assigning, Saves
  <1>11. ControlInv'
    BY <1>1, <1>2, <1>10 DEF IInv, ControlInv, Asking, Saves
  <1>12. DrainedInv'
    BY <1>1 DEF DrainedInv
  <1>13. ApartInv'
    BY <1>1 DEF IInv, ApartInv
  <1>. QED
    BY <1>1, <1>2, <1>6, <1>8, <1>9, <1>11, <1>12, <1>13 DEF IInv, NoThrow

LEMMA JoinIInv ==
    ASSUME IInv, JoinThreads, UNCHANGED <<worker_record, worker_store, worker, crashes>>
    PROVE  IInv'
  <1>1. /\ main = "join" /\ main' = "exited"
        /\ UNCHANGED <<store_vars, pool, inbox, outbox, position, peer, asked, book_vars, thrown>>
        /\ UNCHANGED <<within, node, block, idle_queue, assigned_blocks, files, file_store>>
    BY DEF JoinThreads, position, book_vars, store_vars
  <1>2. within = "destructor" /\ ~ asked /\ ~ asked' /\ peer = Master
    BY <1>1 DEF IInv, ControlInv, Asking, Saves
  <1>3. AgreeInv' /\ AskInv'
    BY <1>1, <1>2, AgreeAllFrame, AskFrame DEF IInv
  <1>4. MPITypeOK'
    <2>1. FileStoreTypeOK'
      BY <1>1, FileTypeFrame DEF IInv, MPITypeOK
    <2>. QED
      BY <1>1, <2>1 DEF IInv, MPITypeOK, Position
  <1>5. ~ Assigning /\ ~ Assigning' /\ Waited
    BY <1>1 DEF Assigning, Waited, Saves
  <1>6. ControlInv'
    BY <1>1, <1>2, <1>5 DEF IInv, ControlInv, Asking, Saves
  <1>7. DrainedInv'
    BY <1>1 DEF DrainedInv
  <1>8. ApartInv'
    BY <1>1 DEF IInv, ApartInv
  <1>. QED
    BY <1>1, <1>3, <1>4, <1>6, <1>7, <1>8 DEF IInv, NoThrow

-----------------------------------------------------------------------------
(* The start of the job, and its crashes                                   *)

\* Nothing but files is left of the runs before.
Restarted ==
    /\ StoreMemoryInit /\ JobInit
    /\ files \in [Node -> Seq(FilePair)]
    /\ thrown = FALSE
    /\ crashes \in Nat

LEMMA RestartedIInv == Restarted => IInv
  <1>. SUFFICES ASSUME Restarted PROVE IInv
    OBVIOUS
  <1>. USE DEF Restarted, StoreMemoryInit, JobInit
  <1>1. \A p \in Process : /\ pool[p] = Sparked(p) /\ Inbox(p) = <<>> /\ Outbox(p) = <<>>
                           /\ assigned_blocks[p] = {}
    BY MPISets DEF Inbox, Outbox
  <1>2. \A p \in Process : Queued(p) = [k \in Kind |-> 0]
    BY OccurrencesEmpty DEF Queued
  <1>3. \A p \in Process : AgreeAt(p) /\ pool[p] \in Pool
    BY <1>1, <1>2, AgreeSparked DEF AgreeAt
  <1>4. MPITypeOK
    <2>1. FileStoreTypeOK
      BY NothingToSaveType DEF FileStoreTypeOK
    <2>2. NoCounts \in Counts /\ 1 \in 1 .. NbNodes + 1 /\ 1 \in 1 .. NbBlocks + 1 /\ Master \in Process
      BY NothingToSaveType, MPISets
    <2>3. pool \in [Process -> Pool]
      BY <1>3
    <2>4. /\ inbox \in [Worker -> Seq(Message)] /\ outbox \in [Worker -> Seq(Reply)]
          /\ idle_queue \in [Kind -> Seq(Process)]
      BY EmptySeq
    <2>. QED
      BY <2>1, <2>2, <2>3, <2>4 DEF MPITypeOK, Position
  <1>5. ControlInv
    BY DEF ControlInv, Assigning, Waited, Asking, Saves
  <1>6. AskInv
    BY DEF AskInv, AskAt, Asked, NoQuestion
  <1>7. DrainedInv
    BY DEF DrainedInv
  <1>8. ApartInv
    BY <1>1 DEF ApartInv
  <1>. QED
    BY <1>3, <1>4, <1>5, <1>6, <1>7, <1>8 DEF IInv, AgreeInv, NoThrow

LEMMA InitIInv == Init => IInv
  <1>. SUFFICES ASSUME Init PROVE Restarted
    BY RestartedIInv
  <1>1. files \in [Node -> Seq(FilePair)]
    BY EmptySeq DEF Init, FileStoreInit
  <1>. QED
    BY <1>1 DEF Init, FileStoreInit, Restarted

LEMMA CrashIInv == ASSUME IInv, Crash PROVE IInv'
  <1>1. files' \in [Node -> Seq(FilePair)]
    <2>1. files \in [Node -> Seq(FilePair)]
      BY DEF IInv, MPITypeOK, FileStoreTypeOK
    <2>2. CASE main = "write_record"
      <3>1. PairInUse
        BY <2>2 DEF IInv, MPITypeOK, FileStoreTypeOK, ControlInv, Saves, PairInUse
      <3>2. \E part \in SUBSET saving.record :
              files' = [files EXCEPT ![file_store][Current].record = part]
        BY <2>2 DEF Crash
      <3>3. \E p \in FilePair : LastBecomes(p)
        BY <3>1, <3>2, LastPairSteps
      <3>. QED
        BY <3>1, <3>3, PairBecomes
    <2>3. CASE main # "write_record"
      BY <2>1, <2>3 DEF Crash
    <2>. QED
      BY <2>2, <2>3
  <1>2. crashes' \in Nat /\ thrown' = FALSE
    BY DEF Crash, IInv, MPITypeOK, NoThrow
  <1>3. StoreMemoryInit' /\ JobInit'
    BY DEF Crash, StoreMemoryInit, JobInit
  <1>4. Restarted'
    BY <1>1, <1>2, <1>3 DEF Restarted
  <1>. QED
    BY <1>4, RestartedIInv, PTL

-----------------------------------------------------------------------------
(* The theorems                                                            *)

LEMMA StutterIInv == ASSUME IInv, UNCHANGED program_vars PROVE IInv'
  <1>1. /\ UNCHANGED <<store_vars, pool, inbox, outbox, main, within, node, block, peer, asked,
                       idle_queue, assigned_blocks, files, file_store, thrown>>
        /\ UNCHANGED <<worker_record, worker_store, worker, crashes, position>>
    BY DEF program_vars, store_vars, worker_vars, position, book_vars
  <1>2. MPITypeOK'
    BY <1>1, FileTypeFrame, TypeFrame DEF IInv, MPITypeOK
  <1>3. AgreeInv' /\ ControlInv' /\ AskInv' /\ DrainedInv'
    BY <1>1, AgreeAllFrame, ControlFrame, ChannelFrame DEF IInv
  <1>. QED
    BY <1>1, <1>2, <1>3 DEF IInv, NoThrow, ApartInv

LEMMA MainStepIInv == ASSUME IInv, MainStep PROVE IInv'
  <1>1. UNCHANGED <<worker_record, worker_store, worker, crashes>>
    BY DEF MainStep
  <1>2. CASE Reject \/ EnterBroadcast \/ NextNode \/ EndOfNode \/ EnterAssign \/ CheckContains
    BY <1>1, <1>2, QuietIInv
  <1>3. CASE Ask
    BY <1>1, <1>3, AskIInv
  <1>4. CASE FlushFinished
    BY <1>1, <1>4, FlushFinishedIInv
  <1>5. CASE FillIdleQueues
    BY <1>1, <1>5, FillIdleQueuesIInv
  <1>6. CASE SaveGlobalStores
    BY <1>1, <1>6, SaveGlobalStoresIInv
  <1>7. CASE SaveStep
    BY <1>1, <1>7, SaveStepIInv
  <1>8. CASE Configure
    BY <1>1, <1>8, ConfigureIInv
  <1>9. CASE Dispatch
    BY <1>1, <1>9, DispatchIInv
  <1>10. CASE Shutdown
    BY <1>1, <1>10, ShutdownIInv
  <1>11. CASE JoinThreads
    BY <1>1, <1>11, JoinIInv
  <1>. QED
    BY <1>2, <1>3, <1>4, <1>5, <1>6, <1>7, <1>8, <1>9, <1>10, <1>11 DEF MainStep

LEMMA NextIInv == ASSUME IInv, [Next]_vars PROVE IInv'
  <1>1. CASE MainStep
    BY <1>1, MainStepIInv
  <1>2. ASSUME NEW w \in Worker, WorkerStep(w) PROVE IInv'
    BY <1>2, WorkerStepIInv
  <1>3. ASSUME NEW p \in Process, ThreadStep(p) PROVE IInv'
    BY <1>3, ThreadStepIInv
  <1>4. CASE Crash
    BY <1>4, CrashIInv
  <1>5. CASE UNCHANGED program_vars
    BY <1>5, StutterIInv
  <1>. QED
    BY <1>1, <1>2, <1>3, <1>4, <1>5 DEF Next, Terminating, SpuriousWakeup, vars

\* The invariant holds of every reachable state, for any number of workers,
\* threads, blocks, nodes and crashes.
THEOREM IInvAlways == Spec => []IInv
  <1>1. Init => IInv
    BY InitIInv
  <1>2. IInv /\ [Next]_vars => IInv'
    BY NextIInv
  <1>. QED
    BY <1>1, <1>2, PTL DEF Spec

\* No process reaches a bare throw or the front of an empty deque (mpi.cc 129-153
\* and 209-226, thread_pool.cc 110-113).
THEOREM NothingThrown == Spec => []NoThrow
  <1>1. IInv => NoThrow
    BY DEF IInv
  <1>. QED
    BY <1>1, IInvAlways, PTL

\* The answer and the messages as the properties name them.
LEMMA SentAndAnswered ==
    ASSUME NEW w \in Worker
    PROVE  /\ Inbox(w) = inbox[w] /\ Outbox(w) = outbox[w]
           /\ \A kind : SentIn(Inbox(w), kind) = Sent(w, kind)
           /\ \A kind : ReadyIn(Outbox(w), kind)
                          = IF Answering(w, "ready") THEN Head(outbox[w]).ready[kind] ELSE 0
           /\ ToldIn(Outbox(w)) = IF Answering(w, "finished") THEN Head(outbox[w]).blocks ELSE {}
  <1>1. Inbox(w) = inbox[w] /\ Outbox(w) = outbox[w]
    BY MPISets DEF Inbox, Outbox
  <1>. QED
    BY <1>1 DEF SentIn, Sent, ReadyIn, ToldIn, Answering

\* What the master knows of the threads agrees with them, when the messages on
\* their way are taken into account (mpi.cc 129-187, mpi_worker.cc 60-82): the
\* inductive invariant counts the same threads.
THEOREM QueuesMatch == Spec => []QueuesMatchPools
  <1>1. ASSUME IInv PROVE QueuesMatchPools
    <2>. SUFFICES ASSUME NEW p \in Process, NEW k \in Kind
                  PROVE  /\ pool[p].idle[k] =
                              Occurrences(idle_queue[k], p)
                              + IF p = Master THEN 0
                                ELSE Cardinality(Sent(p, k))
                                     + IF Answering(p, "ready") THEN Head(outbox[p]).ready[k] ELSE 0
                         /\ NbThreads[p][k] = pool[p].idle[k] + pool[p].ready[k]
                                              + Cardinality({job \in pool[p].busy : job.kind = k})
      BY DEF QueuesMatchPools
    <2>1. Agree(p, pool[p], Inbox(p), Outbox(p), Queued(p), assigned_blocks[p], file_store)
      BY <1>1 DEF IInv, AgreeInv, AgreeAt
    <2>2. /\ pool[p].idle[k] = Queued(p)[k] + Cardinality(SentIn(Inbox(p), k)) + ReadyIn(Outbox(p), k)
          /\ NbThreads[p][k] = pool[p].idle[k] + pool[p].ready[k]
                               + Cardinality(OfKind(pool[p].busy, k))
      BY <2>1 DEF Agree
    <2>3. /\ Queued(p)[k] \in Nat /\ Cardinality(SentIn(Inbox(p), k)) \in Nat
          /\ ReadyIn(Outbox(p), k) \in Nat
      BY <2>1, AgreeTypes
    <2>4. Queued(p)[k] = Occurrences(idle_queue[k], p)
      BY DEF Queued
    <2>5. OfKind(pool[p].busy, k) = {job \in pool[p].busy : job.kind = k}
      BY DEF OfKind
    <2>6. CASE p = Master
      <3>1. Inbox(p) = <<>> /\ Outbox(p) = <<>>
        BY <2>6 DEF Inbox, Outbox
      <3>2. Cardinality(SentIn(Inbox(p), k)) = 0 /\ ReadyIn(Outbox(p), k) = 0
        BY <3>1, SentInEmpty, AnswerIn, FS_EmptySet
      <3>. QED
        BY <2>2, <2>3, <2>4, <2>5, <2>6, <3>2
    <2>7. CASE p # Master
      <3>1. p \in Worker
        BY <2>7, MPISets
      <3>2. /\ SentIn(Inbox(p), k) = Sent(p, k)
            /\ ReadyIn(Outbox(p), k)
                 = IF Answering(p, "ready") THEN Head(outbox[p]).ready[k] ELSE 0
        BY <3>1, SentAndAnswered
      <3>. QED
        BY <2>2, <2>3, <2>4, <2>5, <2>7, <3>2
    <2>. QED
      BY <2>6, <2>7
  <1>. QED
    BY <1>1, IInvAlways, PTL

\* Jobs with different blocks are as many as their blocks.
LEMMA BlocksOfCardinality ==
    ASSUME NEW busy, IsFiniteSet(busy), Distinct(busy)
    PROVE  IsFiniteSet(BlocksOf(busy)) /\ Cardinality(BlocksOf(busy)) = Cardinality(busy)
  <1>. DEFINE f == [job \in busy |-> job.block]
  <1>1. f \in [busy -> BlocksOf(busy)]
    BY DEF BlocksOf
  <1>2. \A j1, j2 \in busy : f[j1] = f[j2] => j1 = j2
    BY DEF Distinct
  <1>3. \A b \in BlocksOf(busy) : \E job \in busy : f[job] = b
    BY DEF BlocksOf
  <1>. HIDE DEF f
  <1>4. f \in Bijection(busy, BlocksOf(busy))
    BY <1>1, <1>2, <1>3 DEF Bijection, Injection, Surjection, IsInjective
  <1>5. ExistsBijection(busy, BlocksOf(busy))
    BY <1>4 DEF ExistsBijection
  <1>. QED
    BY <1>5, FS_Bijection

LEMMA SplitCardinality ==
    ASSUME NEW w, NEW a, NEW b, NEW c, NEW d, Split(w, a, b, c, d),
           IsFiniteSet(a), IsFiniteSet(b), IsFiniteSet(c), IsFiniteSet(d)
    PROVE  Cardinality(w) = Cardinality(a) + Cardinality(b) + Cardinality(c) + Cardinality(d)
  <1>1. ASSUME NEW s, NEW t, IsFiniteSet(s), IsFiniteSet(t), s \cap t = {}
        PROVE  IsFiniteSet(s \cup t) /\ Cardinality(s \cup t) = Cardinality(s) + Cardinality(t)
    <2>1. /\ IsFiniteSet(s \cup t)
          /\ Cardinality(s \cup t) = Cardinality(s) + Cardinality(t) - Cardinality(s \cap t)
      BY <1>1, FS_Union
    <2>2. Cardinality(s \cap t) = 0
      BY <1>1, FS_EmptySet
    <2>3. Cardinality(s) \in Nat /\ Cardinality(t) \in Nat
      BY <1>1, FS_CardinalityType
    <2>. QED
      BY <2>1, <2>2, <2>3
  <1>2. PICK ab : ab = a \cup b
    OBVIOUS
  <1>3. PICK abc : abc = ab \cup c
    OBVIOUS
  <1>4. a \cap b = {} /\ ab \cap c = {} /\ abc \cap d = {} /\ w = abc \cup d
    BY <1>2, <1>3 DEF Split
  <1>5. IsFiniteSet(ab) /\ Cardinality(ab) = Cardinality(a) + Cardinality(b)
    BY <1>1, <1>2, <1>4
  <1>6. IsFiniteSet(abc) /\ Cardinality(abc) = Cardinality(ab) + Cardinality(c)
    BY <1>1, <1>3, <1>4, <1>5
  <1>7. Cardinality(w) = Cardinality(abc) + Cardinality(d)
    BY <1>1, <1>4, <1>6
  <1>. QED
    BY <1>5, <1>6, <1>7

\* A block that the master waits for is in exactly one place, at the process it was
\* assigned to or on its way from or to it (mpi.cc 129-153, 189-226, mpi_worker.cc
\* 60-72 and 93-100), so that wait_for_assigned_blocks waits for no lost block.
THEOREM AssignedBlocksOnTheirWay == Spec => []AssignedBlocksAreOnTheirWay
  <1>1. ASSUME IInv PROVE AssignedBlocksAreOnTheirWay
    <2>1. ASSUME NEW p \in Process
          PROVE  LET sent == IF p = Master THEN {} ELSE Sent(p, "cpu") \cup Sent(p, "opencl")
                     busy == {job.block : job \in pool[p].busy}
                     done == pool[p].finished
                     told == IF p # Master /\ Answering(p, "finished")
                             THEN Head(outbox[p]).blocks ELSE {}
                 IN  /\ assigned_blocks[p] = sent \cup busy \cup done \cup told
                     /\ Cardinality(assigned_blocks[p]) =
                          Cardinality(sent) + Cardinality(pool[p].busy)
                          + Cardinality(done) + Cardinality(told)
      <3>. DEFINE sent == IF p = Master THEN {} ELSE Sent(p, "cpu") \cup Sent(p, "opencl")
                  busy == {job.block : job \in pool[p].busy}
                  done == pool[p].finished
                  told == IF p # Master /\ Answering(p, "finished")
                          THEN Head(outbox[p]).blocks ELSE {}
      <3>1. Agree(p, pool[p], Inbox(p), Outbox(p), Queued(p), assigned_blocks[p], file_store)
        BY <1>1 DEF IInv, AgreeInv, AgreeAt
      <3>2. sent = SentBlocks(Inbox(p)) /\ told = ToldIn(Outbox(p)) /\ busy = BlocksOf(pool[p].busy)
        <4>1. busy = BlocksOf(pool[p].busy)
          BY DEF BlocksOf
        <4>2. CASE p = Master
          BY <4>1, <4>2, SentInEmpty, AnswerIn DEF Inbox, Outbox, SentBlocks
        <4>3. CASE p # Master
          <5>1. p \in Worker
            BY <4>3, MPISets
          <5>. QED
            BY <4>1, <4>3, <5>1, SentAndAnswered DEF SentBlocks
        <4>. QED
          BY <4>2, <4>3
      <3>. HIDE DEF sent, busy, told
      <3>3. Split(assigned_blocks[p], sent, busy, done, told)
        BY <3>1, <3>2 DEF Agree
      <3>4. /\ sent \in SUBSET Block /\ busy \in SUBSET Block /\ done \in SUBSET Block
            /\ told \in SUBSET Block
        <4>1. /\ SentBlocks(Inbox(p)) \in SUBSET Block /\ BlocksOf(pool[p].busy) \in SUBSET Block
              /\ ToldIn(Outbox(p)) \in SUBSET Block /\ pool[p] \in Pool
          BY <3>1, AgreeTypes
        <4>2. done \in SUBSET Block
          BY <4>1, PoolFields
        <4>. QED
          BY <3>2, <4>1, <4>2
      <3>5. IsFiniteSet(sent) /\ IsFiniteSet(busy) /\ IsFiniteSet(done) /\ IsFiniteSet(told)
        BY <3>4, BlocksFinite
      <3>6. Cardinality(busy) = Cardinality(pool[p].busy)
        BY <3>1, <3>2, BlocksOfCardinality DEF Agree
      <3>7. Cardinality(assigned_blocks[p]) = Cardinality(sent) + Cardinality(busy)
                                              + Cardinality(done) + Cardinality(told)
        <4>. HIDE DEF done
        <4>. QED
          BY <3>3, <3>5, SplitCardinality
      <3>. QED
        BY <3>3, <3>6, <3>7 DEF Split, sent, busy, told
    <2>2. \A p \in Process : \A o \in Process \ {p} : assigned_blocks[o] \cap assigned_blocks[p] = {}
      BY <1>1 DEF IInv, ApartInv
    <2>. QED
      BY <2>1, <2>2 DEF AssignedBlocksAreOnTheirWay
  <1>. QED
    BY <1>1, IInvAlways, PTL

\* No thread counts with tables of another node than the one under whose path its
\* counts will be saved, though no worker acknowledges update_config (mpi.cc
\* 106-111, mpi_worker.cc 53-72).
THEOREM CountedForTheNode == Spec => []CountedForTheNodeInUse
  <1>1. ASSUME IInv PROVE CountedForTheNodeInUse
    BY <1>1 DEF IInv, AgreeInv, AgreeAt, Agree, CountedForTheNodeInUse
  <1>. QED
    BY <1>1, IInvAlways, PTL

-----------------------------------------------------------------------------
(* Where the blocks of the node in use are                                 *)

\* The blocks with these threads that are not yet merged.
Unmerged(busy) == {job.block : job \in {j \in busy : ~ j.merged}}

\* The stores that the answer on its way brings.
StoresIn(q) == IF q # <<>> /\ Head(q).tag = "save" THEN Head(q).stores ELSE NothingToSave

\* A process has yet to count these blocks, holds the counts of these in its
\* static store, and has sent the counts of these to the master.
Coming(p) == SentBlocks(Inbox(p)) \cup Unmerged(pool[p].busy)
Held(p) == IF p = Master THEN static_record ELSE worker_record[p]
HeldStore(p) == IF p = Master THEN static_store ELSE worker_store[p]
Told(p) == StoresIn(Outbox(p))

At(p) == Coming(p) \cup Held(p) \cup Told(p).record

Listed == IF file_store = NoNode THEN {} ELSE Recorded(file_store)

-----------------------------------------------------------------------------
(* The inductive invariant, on top of IInv                                 *)

\* What a process holds, and what it has sent, are the counts of blocks of the node
\* in use, each once; no block is with it twice.
PieceAt(p) ==
    /\ Coming(p) \cap Held(p) = {}
    /\ Coming(p) \cap Told(p).record = {}
    /\ Held(p) \cap Told(p).record = {}
    /\ HeldStore(p) = Once(file_store, Held(p))
    /\ Told(p).store = Once(file_store, Told(p).record)
    /\ file_store = NoNode => At(p) = {}
    /\ \A b \in At(p) : b < block

PieceInv == \A p \in Process : PieceAt(p)

\* What the save under way writes.
SavingInv ==
    /\ saving.store = Once(file_store, saving.record)
    /\ main \notin Saves => saving = NothingToSave
    /\ file_store = NoNode => saving.record = {}
    /\ \A b \in saving.record : b < block

\* A block is in one place at most: at one process, in the save under way, or listed.
PlaceInv ==
    /\ \A p \in Process :
        /\ \A o \in Process \ {p} : At(p) \cap At(o) = {}
        /\ At(p) \cap (saving.record \cup Listed) = {}
    /\ saving.record \cap Listed = {}

\* It is in one place at least, once the iterator has passed it.
CoverInv ==
    file_store # NoNode =>
        \A b \in Block : b < block =>
            b \in saving.record \cup Listed \/ \E p \in Process : b \in At(p)

\* A block that is given to a process is not one that an earlier run has listed.
FreshBlock ==
    main \in {"ready", "dispatch"} \/ (main = "finished" /\ within = "assign")
        => block \notin initial_record

\* What the iterator has yet to pass was listed by an earlier run, or not at all.
FreshInv ==
    /\ file_store # NoNode => /\ initial_record \subseteq Listed
                              /\ \A b \in Listed \ initial_record : b < block
    /\ FreshBlock

\* The last save of a node has emptied the processes whose turn is over.
SavedInv ==
    Waited => \A p \in Process :
        (\/ p < peer
         \/ p = peer /\ main \in Saves
         \/ main \in {"configure", "shutdown", "join", "exited"}
         \/ Outbox(p) # <<>>) => Held(p) = {}

\* The pair that save is working on.
CurrentInv ==
    main \in Saves \ {"create_store"} =>
        LET pair == files[file_store][Current]
        IN  /\ pair.record = {}
            /\ main = "write_store" => pair.store = NoCounts
            /\ main # "write_store" => pair.store = saving.store \/ pair.failed

InHand(n, i) == main \in Saves \ {"create_store"} /\ n = file_store /\ i = Current

\* Without a crash, every other pair that has a record is complete, unless writing
\* its store had an error.
PairsInv ==
    crashes = 0 =>
        \A n \in Node : \A i \in DOMAIN files[n] :
            files[n][i].witness /\ ~ InHand(n, i)
                => Complete(n, files[n][i]) \/ files[n][i].failed

\* The nodes before the one in use are complete.
NodeInv == \A m \in Node : m < file_store => Recorded(m) = Block

DInv ==
    /\ PieceInv
    /\ SavingInv
    /\ PlaceInv
    /\ CoverInv
    /\ FreshInv
    /\ SavedInv
    /\ CurrentInv
    /\ PairsInv
    /\ NodeInv
    /\ FilesInv

-----------------------------------------------------------------------------
(* What the steps below need of the types                                  *)

LEMMA StoreTypes ==
    ASSUME IInv
    PROVE  /\ files \in [Node -> Seq(FilePair)]
           /\ file_store \in Node \cup {NoNode} /\ NoNode \notin Node
           /\ static_record \subseteq Block
           /\ saving \in Saving /\ saving.record \subseteq Block
           /\ initial_record \subseteq Block
           /\ block \in Nat /\ Block \subseteq Nat
           /\ crashes \in Nat /\ main \in Position
           /\ \A n \in Node : Recorded(n) \subseteq Block
  <1>1. /\ files \in [Node -> Seq(FilePair)]
        /\ file_store \in Node \cup {NoNode}
        /\ static_record \subseteq Block
        /\ saving \in Saving
        /\ initial_record \subseteq Block
    BY DEF IInv, MPITypeOK, FileStoreTypeOK
  <1>2. saving.record \subseteq Block
    BY <1>1 DEF Saving
  <1>3. block \in Nat /\ Block \subseteq Nat /\ NoNode \notin Node
    BY MPISets DEF IInv, MPITypeOK
  <1>4. crashes \in Nat /\ main \in Position
    BY DEF IInv, MPITypeOK
  <1>. QED
    BY <1>1, <1>2, <1>3, <1>4, RecordedType

\* What a process has to do with blocks are blocks; what is on its way to a thread is
\* not merged yet.
LEMMA PieceTypes ==
    ASSUME IInv, NEW p \in Process
    PROVE  /\ Unmerged(pool[p].busy) \subseteq BlocksOf(pool[p].busy)
           /\ Coming(p) \subseteq assigned_blocks[p]
           /\ SentBlocks(Inbox(p)) \cap Unmerged(pool[p].busy) = {}
           /\ Held(p) \subseteq Block /\ Told(p) \in Saving /\ Told(p).record \subseteq Block
           /\ Coming(p) \subseteq Block /\ At(p) \subseteq Block
  <1>1. AgreeAt(p)
    BY DEF IInv, AgreeInv
  <1>2. /\ pool[p].busy \in SUBSET Job
        /\ Outbox(p) \in Seq(Reply)
        /\ assigned_blocks[p] \subseteq Block
    <2>1. pool[p] \in Pool /\ Outbox(p) \in Seq(Reply) /\ assigned_blocks[p] \in SUBSET Block
      BY <1>1, AgreeTypes DEF AgreeAt
    <2>. QED
      BY <2>1, PoolFields
  <1>3. Split(assigned_blocks[p], SentBlocks(Inbox(p)), BlocksOf(pool[p].busy),
              pool[p].finished, ToldIn(Outbox(p)))
    BY <1>1 DEF AgreeAt, Agree
  <1>4. Unmerged(pool[p].busy) \subseteq BlocksOf(pool[p].busy)
    BY DEF Unmerged, BlocksOf
  <1>5. /\ Coming(p) \subseteq assigned_blocks[p]
        /\ SentBlocks(Inbox(p)) \cap Unmerged(pool[p].busy) = {}
    BY <1>3, <1>4 DEF Split, Coming
  <1>6. Held(p) \subseteq Block
    BY MPISets DEF IInv, MPITypeOK, FileStoreTypeOK, Held
  <1>7. Told(p) \in Saving
    <2>1. CASE Outbox(p) # <<>> /\ Head(Outbox(p)).tag = "save"
      <3>1. Head(Outbox(p)) \in Reply
        BY <1>2, <2>1, HeadTailProperties
      <3>2. Head(Outbox(p)).stores \in Saving
        BY <2>1, <3>1, ReplyFields
      <3>. QED
        BY <2>1, <3>2 DEF Told, StoresIn
    <2>2. CASE ~ (Outbox(p) # <<>> /\ Head(Outbox(p)).tag = "save")
      <3>1. Told(p) = NothingToSave
        BY <2>2 DEF Told, StoresIn
      <3>. QED
        BY <3>1, NothingToSaveType
    <2>. QED
      BY <2>1, <2>2
  <1>8. Told(p).record \subseteq Block
    BY <1>7 DEF Saving
  <1>. QED
    BY <1>2, <1>4, <1>5, <1>6, <1>7, <1>8 DEF At

-----------------------------------------------------------------------------
(* Steps that leave a part of the state alone                              *)

\* The step leaves the blocks and counts of this process where they are.
Same(p) ==
    /\ Coming(p)' = Coming(p)
    /\ Held(p)' = Held(p) /\ HeldStore(p)' = HeldStore(p)
    /\ Told(p)' = Told(p)

LEMMA PieceFrame ==
    ASSUME PieceInv, NEW p \in Process, Same(p), UNCHANGED file_store, At(p) \subseteq Nat,
           block \in Nat, block' \in Nat, block' >= block
    PROVE  PieceAt(p)' /\ At(p)' = At(p)
  <1>1. At(p)' = At(p)
    BY DEF Same, At
  <1>2. PieceAt(p)
    BY DEF PieceInv
  <1>3. \A b \in At(p) : b < block'
    BY <1>2 DEF PieceAt
  <1>. QED
    BY <1>1, <1>2, <1>3 DEF PieceAt, Same

LEMMA PiecesFrame ==
    ASSUME IInv, DInv, \A p \in Process : Same(p), UNCHANGED file_store,
           block' \in Nat, block' >= block
    PROVE  PieceInv' /\ \A p \in Process : At(p)' = At(p)
  <1>1. ASSUME NEW p \in Process PROVE PieceAt(p)' /\ At(p)' = At(p)
    <2>1. At(p) \subseteq Nat /\ block \in Nat
      BY PieceTypes, StoreTypes
    <2>2. Same(p)
      OBVIOUS
    <2>. QED
      BY <2>1, <2>2, PieceFrame DEF DInv
  <1>. QED
    BY <1>1 DEF PieceInv

\* No block changes its place.
LEMMA PlacesFrame ==
    ASSUME DInv, \A p \in Process : At(p)' = At(p),
           saving'.record \cup Listed' = saving.record \cup Listed,
           saving'.record \cap Listed' = {}
    PROVE  /\ PlaceInv'
           /\ UNCHANGED <<file_store, block>> => CoverInv'
  BY DEF DInv, PlaceInv, CoverInv

LEMMA FilesFrame ==
    ASSUME DInv, UNCHANGED files
    PROVE  /\ FilesInv' /\ \A n : Recorded(n)' = Recorded(n)
           /\ UNCHANGED file_store => Listed' = Listed /\ NodeInv'
  <1>1. FilesInv'
    BY FilesInvFrame DEF DInv
  <1>2. \A n : Recorded(n)' = Recorded(n)
    BY DEF Recorded
  <1>. QED
    BY <1>1, <1>2 DEF Listed, DInv, NodeInv

\* The master is not in a save, neither before nor after.
LEMMA RestFrame ==
    ASSUME DInv, UNCHANGED <<files, crashes>>,
           UNCHANGED main \/ (main \notin Saves \ {"create_store"}
                              /\ main' \notin Saves \ {"create_store"}),
           main \in Saves \ {"create_store"} => UNCHANGED <<saving, file_store>>
    PROVE  CurrentInv' /\ PairsInv'
  <1>1. CASE main \in Saves \ {"create_store"}
    <2>1. UNCHANGED <<main, saving, file_store>> /\ Current' = Current
      BY <1>1 DEF Current
    <2>. QED
      BY <2>1 DEF DInv, CurrentInv, PairsInv, InHand
  <1>2. CASE main \notin Saves \ {"create_store"}
    <2>1. main' \notin Saves \ {"create_store"}
      BY <1>2
    <2>2. \A n, i : ~ InHand(n, i) /\ ~ InHand(n, i)'
      BY <1>2, <2>1 DEF InHand
    <2>. QED
      BY <1>2, <2>1, <2>2 DEF DInv, CurrentInv, PairsInv
  <1>. QED
    BY <1>1, <1>2

\* A step of a thread or a worker.
LEMMA MainFrame ==
    ASSUME IInv, DInv, PieceInv', \A p \in Process : At(p)' = At(p), SavedInv',
           UNCHANGED <<main, within, saving, files, file_store, initial_record, block, crashes>>
    PROVE  DInv'
  <1>1. FilesInv' /\ Listed' = Listed /\ NodeInv'
    BY FilesFrame
  <1>2. PlaceInv' /\ CoverInv'
    BY <1>1, PlacesFrame DEF DInv, PlaceInv
  <1>3. SavingInv'
    BY DEF DInv, SavingInv
  <1>4. FreshInv'
    BY <1>1 DEF DInv, FreshInv, FreshBlock
  <1>5. CurrentInv' /\ PairsInv'
    BY RestFrame
  <1>. QED
    BY <1>1, <1>2, <1>3, <1>4, <1>5 DEF DInv

-----------------------------------------------------------------------------
(* The threads                                                             *)

\* What the steps of a pool make of the blocks that are not merged.
LEMMA UnmergedSteps ==
    ASSUME NEW busy \in SUBSET Job, Distinct(busy)
    PROVE  /\ \A job \in busy : ~ job.merged =>
                /\ job.block \in Unmerged(busy)
                /\ Unmerged((busy \ {job}) \cup {[job EXCEPT !.merged = TRUE]})
                     = Unmerged(busy) \ {job.block}
           /\ \A job \in busy : job.merged => Unmerged(busy \ {job}) = Unmerged(busy)
           /\ \A job : ~ job.merged => Unmerged(busy \cup {job}) = Unmerged(busy) \cup {job.block}
  <1>1. ASSUME NEW job \in busy, ~ job.merged
        PROVE  /\ job.block \in Unmerged(busy)
               /\ Unmerged((busy \ {job}) \cup {[job EXCEPT !.merged = TRUE]})
                    = Unmerged(busy) \ {job.block}
    <2>. DEFINE new == [job EXCEPT !.merged = TRUE]
                more == (busy \ {job}) \cup {new}
    <2>1. new.merged /\ job \in Job
      BY DEF Job
    <2>2. job.block \in Unmerged(busy)
      BY <1>1 DEF Unmerged
    <2>3. \A j \in busy : j # job => j.block # job.block
      BY DEF Distinct
    <2>4. \A j : (j \in more /\ ~ j.merged) <=> (j \in busy /\ j # job /\ ~ j.merged)
      <3>. HIDE DEF new
      <3>. QED
        BY <2>1
    <2>. HIDE DEF more
    <2>5. Unmerged(more) = Unmerged(busy) \ {job.block}
      BY <1>1, <2>3, <2>4 DEF Unmerged
    <2>. QED
      BY <2>2, <2>5 DEF more, new
  <1>2. ASSUME NEW job \in busy, job.merged
        PROVE  Unmerged(busy \ {job}) = Unmerged(busy)
    BY <1>2 DEF Unmerged
  <1>3. ASSUME NEW job, ~ job.merged
        PROVE  Unmerged(busy \cup {job}) = Unmerged(busy) \cup {job.block}
    BY <1>3 DEF Unmerged
  <1>. QED
    BY <1>1, <1>2, <1>3

LEMMA UnmergedAssign ==
    ASSUME NEW q \in Pool, Distinct(q.busy), NEW b \in Block, NEW kind \in Kind, q.idle[kind] # 0
    PROVE  Unmerged(PoolAssign(q, b, kind).busy) = Unmerged(q.busy) \cup {b}
  <1>1. PICK job : job = [block |-> b, node |-> q.tables, kind |-> kind, merged |-> FALSE]
    OBVIOUS
  <1>2. PoolAssign(q, b, kind).busy = q.busy \cup {job}
    BY <1>1, PoolAssignFields
  <1>3. job.block = b /\ ~ job.merged
    BY <1>1
  <1>4. q.busy \in SUBSET Job
    BY PoolFields
  <1>5. Unmerged(q.busy \cup {job}) = Unmerged(q.busy) \cup {job.block}
    BY <1>3, <1>4, UnmergedSteps
  <1>. QED
    BY <1>2, <1>3, <1>5

\* The pool, messages and counts of the other processes stay.
LEMMA OthersSame ==
    ASSUME NEW o \in Process,
           UNCHANGED <<pool[o].busy, Inbox(o), Outbox(o)>>,
           UNCHANGED <<Held(o), HeldStore(o)>>
    PROVE  Same(o)
  BY DEF Same, Coming, Told

\* A thread merges: the block moves from the thread to the static store.
LEMMA MergeData ==
    ASSUME IInv, DInv, NEW p \in Process, Merge(p),
           UNCHANGED <<main, position, peer, asked, book_vars, thrown, crashes>>
    PROVE  DInv'
  <1>1. PICK job \in pool[p].busy :
          /\ ~ job.merged
          /\ pool' = [pool EXCEPT ![p].busy = (@ \ {job}) \cup {[job EXCEPT !.merged = TRUE]}]
          /\ IF p = Master
             THEN /\ FlushToStaticStore(job.block, job.node)
                  /\ UNCHANGED <<worker_record, worker_store>>
             ELSE /\ worker_record' = [worker_record EXCEPT ![p] = @ \cup {job.block}]
                  /\ worker_store' = [worker_store EXCEPT ![p][job.node][job.block] = @ + 1]
                  /\ UNCHANGED store_vars
    BY DEF Merge
  <1>. DEFINE b == job.block
              busy == pool[p].busy
              new == (busy \ {job}) \cup {[job EXCEPT !.merged = TRUE]}
  <1>2. UNCHANGED <<worker, inbox, outbox, main, within, node, block, peer, crashes>>
    BY DEF Merge, position
  <1>3. UNCHANGED <<files, file_store, initial_record, saving>>
    BY <1>1 DEF FlushToStaticStore, store_vars
  <1>4. /\ AgreeAt(p) /\ pool \in [Process -> Pool] /\ pool[p] \in Pool
        /\ static_record \subseteq Block /\ static_store \in Counts
        /\ worker_record \in [Worker -> SUBSET Block] /\ worker_store \in [Worker -> Counts]
    BY DEF IInv, AgreeInv, MPITypeOK, FileStoreTypeOK
  <1>5. /\ busy \in SUBSET Job /\ Distinct(busy) /\ job.node = file_store
        /\ b \in BlocksOf(busy) /\ b \in Block
        /\ Split(assigned_blocks[p], SentBlocks(Inbox(p)), BlocksOf(busy),
                 pool[p].finished, ToldIn(Outbox(p)))
    BY <1>4, PoolFields DEF AgreeAt, Agree, BlocksOf
  <1>6. b \in assigned_blocks[p] /\ b \notin SentBlocks(Inbox(p))
    BY <1>5 DEF Split
  <1>7. file_store \in Node /\ ~ Waited
    BY <1>6, StoreTypes DEF IInv, ControlInv
  <1>8. b \in Unmerged(busy) /\ Unmerged(new) = Unmerged(busy) \ {b}
    BY <1>1, <1>5, UnmergedSteps
  <1>9. pool'[p].busy = new /\ \A o \in Process : o # p => pool'[o] = pool[o]
    BY <1>1, <1>4 DEF Pool
  <1>10. Inbox(p)' = Inbox(p) /\ \A o \in Process : Inbox(o)' = Inbox(o) /\ Outbox(o)' = Outbox(o)
    BY <1>2 DEF Inbox, Outbox
  <1>11. Coming(p)' = Coming(p) \ {b} /\ b \in Coming(p)
    <2>1. Coming(p)' = SentBlocks(Inbox(p)) \cup Unmerged(new)
      BY <1>9, <1>10 DEF Coming
    <2>. QED
      BY <1>6, <1>8, <2>1 DEF Coming
  <1>12. /\ Held(p)' = Held(p) \cup {b}
         /\ HeldStore(p)' = [HeldStore(p) EXCEPT ![file_store][b] = @ + 1]
         /\ \A o \in Process : o # p => Held(o)' = Held(o) /\ HeldStore(o)' = HeldStore(o)
    <2>1. CASE p = Master
      <3>1. /\ static_record' = static_record \cup {b}
            /\ static_store' = [static_store EXCEPT ![file_store][b] = @ + 1]
            /\ UNCHANGED <<worker_record, worker_store>>
        BY <1>1, <1>5, <2>1 DEF FlushToStaticStore
      <3>. QED
        BY <2>1, <3>1 DEF Held, HeldStore
    <2>2. CASE p # Master
      <3>1. /\ worker_record' = [worker_record EXCEPT ![p] = @ \cup {b}]
            /\ worker_store' = [worker_store EXCEPT ![p] =
                                  [worker_store[p] EXCEPT ![file_store][b] = @ + 1]]
            /\ UNCHANGED <<static_record, static_store>>
        BY <1>1, <1>5, <2>2 DEF store_vars
      <3>2. p \in Worker
        BY <2>2, MPISets
      <3>3. /\ worker_record'[p] = worker_record[p] \cup {b}
            /\ worker_store'[p] = [worker_store[p] EXCEPT ![file_store][b] = @ + 1]
        BY <1>4, <3>1, <3>2
      <3>4. \A o \in Worker : o # p => /\ worker_record'[o] = worker_record[o]
                                       /\ worker_store'[o] = worker_store[o]
        BY <1>4, <3>1
      <3>. QED
        BY <2>2, <3>1, <3>3, <3>4, MPISets DEF Held, HeldStore
    <2>. QED
      BY <2>1, <2>2
  <1>13. Told(p)' = Told(p)
    BY <1>10 DEF Told
  <1>14. PieceAt(p)
    BY DEF DInv, PieceInv
  <1>15. At(p)' = At(p)
    BY <1>11, <1>12, <1>13 DEF At
  <1>16. HeldStore(p)' = Once(file_store, Held(p)')
    <2>1. Held(p) \in SUBSET Block /\ b \notin Held(p) /\ HeldStore(p) = Once(file_store, Held(p))
      BY <1>11, <1>14, PieceTypes DEF PieceAt
    <2>2. [Once(file_store, Held(p)) EXCEPT ![file_store][b] = @ + 1] = Once(file_store, Held(p) \cup {b})
      <3>1. PICK held : held = Held(p)
        OBVIOUS
      <3>2. PICK c : c = b
        OBVIOUS
      <3>. QED
        BY <1>5, <1>7, <2>1, <3>1, <3>2, OnceAdd
    <2>. QED
      BY <1>12, <2>1, <2>2
  <1>17. PieceAt(p)'
    <2>1. (Coming(p)' \cap Held(p)') = {} /\ (Coming(p)' \cap Told(p)'.record) = {}
          /\ (Held(p)' \cap Told(p)'.record) = {}
      BY <1>11, <1>12, <1>13, <1>14 DEF PieceAt
    <2>. QED
      BY <1>2, <1>3, <1>13, <1>14, <1>15, <1>16, <2>1 DEF PieceAt
  <1>18. \A o \in Process : o # p => PieceAt(o)' /\ At(o)' = At(o)
    <2>. SUFFICES ASSUME NEW o \in Process, o # p PROVE PieceAt(o)' /\ At(o)' = At(o)
      OBVIOUS
    <2>1. Same(o)
      BY <1>9, <1>10, <1>12, OthersSame
    <2>2. At(o) \subseteq Nat /\ block \in Nat /\ block >= block
      BY PieceTypes, StoreTypes
    <2>. QED
      BY <1>2, <1>3, <2>1, <2>2, PieceFrame DEF DInv
  <1>19. SavedInv'
    BY <1>2, <1>7 DEF SavedInv, Waited, Assigning
  <1>. QED
    BY <1>2, <1>3, <1>15, <1>17, <1>18, <1>19, MainFrame DEF PieceInv

\* Nothing moves but messages that bring no counts.
LEMMA SameSaved ==
    ASSUME SavedInv, \A p \in Process : Held(p)' = Held(p) /\ (Outbox(p)' # <<>> => Outbox(p) # <<>>),
           UNCHANGED <<main, within, peer>>
    PROVE  SavedInv'
  <1>1. Waited' = Waited
    BY DEF Waited, Assigning
  <1>. QED
    BY <1>1 DEF SavedInv

LEMMA ReportData ==
    ASSUME IInv, DInv, NEW p \in Process, Report(p),
           UNCHANGED <<main, position, peer, asked, book_vars, thrown, crashes>>
    PROVE  DInv'
  <1>1. PICK job \in pool[p].busy : job.merged /\ pool' = [pool EXCEPT ![p] = Reported(pool[p], job)]
    BY DEF Report
  <1>2. /\ UNCHANGED <<worker, inbox, outbox, main, within, node, block, peer, crashes>>
        /\ UNCHANGED <<static_record, static_store, worker_record, worker_store>>
        /\ UNCHANGED <<files, file_store, initial_record, saving>>
    BY DEF Report, position, store_vars, worker_vars
  <1>3. AgreeAt(p) /\ pool \in [Process -> Pool] /\ pool[p] \in Pool
    BY DEF IInv, AgreeInv, MPITypeOK
  <1>4. pool[p].busy \in SUBSET Job /\ Distinct(pool[p].busy)
    BY <1>3, PoolFields DEF AgreeAt, Agree
  <1>5. Unmerged(pool[p].busy \ {job}) = Unmerged(pool[p].busy)
    BY <1>1, <1>4, UnmergedSteps
  <1>6. pool'[p].busy = pool[p].busy \ {job} /\ \A o \in Process : o # p => pool'[o] = pool[o]
    BY <1>1, <1>3, ReportedFields
  <1>7. \A o \in Process : /\ Inbox(o)' = Inbox(o) /\ Outbox(o)' = Outbox(o)
                           /\ Held(o)' = Held(o) /\ HeldStore(o)' = HeldStore(o)
    BY <1>2 DEF Inbox, Outbox, Held, HeldStore
  <1>8. ASSUME NEW o \in Process PROVE Same(o)
    <2>1. Unmerged(pool'[o].busy) = Unmerged(pool[o].busy)
      BY <1>5, <1>6
    <2>. QED
      BY <1>7, <2>1 DEF Same, Coming, Told
  <1>9. PieceInv' /\ \A o \in Process : At(o)' = At(o)
    <2>1. block' \in Nat /\ block' >= block
      BY <1>2, StoreTypes
    <2>. QED
      BY <1>2, <1>8, <2>1, PiecesFrame
  <1>10. SavedInv'
    BY <1>2, <1>7, SameSaved DEF DInv
  <1>. QED
    BY <1>2, <1>9, <1>10, MainFrame

LEMMA ThreadDInv == ASSUME IInv, DInv, NEW p \in Process, ThreadStep(p) PROVE DInv'
  BY MergeData, ReportData DEF ThreadStep

-----------------------------------------------------------------------------
(* The workers                                                             *)

\* A worker reads a message that moves no counts.
LEMMA QuietWorker ==
    ASSUME IInv, DInv, NEW w \in Worker,
           UNCHANGED <<store_vars, main, position, peer, crashes, worker_record, worker_store>>,
           \A v \in Process : v # w => /\ pool'[v] = pool[v]
                                       /\ Inbox(v)' = Inbox(v) /\ Outbox(v)' = Outbox(v),
           Coming(w)' = Coming(w), Told(w)' = Told(w),
           Outbox(w)' = Outbox(w) \/ ~ Waited
    PROVE  DInv'
  <1>1. UNCHANGED <<main, within, peer, block, saving, files, file_store, initial_record, crashes,
                    static_record, static_store>>
    BY DEF store_vars, position
  <1>2. \A v \in Process : Held(v)' = Held(v) /\ HeldStore(v)' = HeldStore(v)
    BY <1>1 DEF Held, HeldStore
  <1>3. ASSUME NEW v \in Process PROVE Same(v)
    <2>1. CASE v = w
      BY <1>2, <2>1 DEF Same
    <2>2. CASE v # w
      BY <1>2, <2>2, OthersSame
    <2>. QED
      BY <2>1, <2>2
  <1>4. PieceInv' /\ \A v \in Process : At(v)' = At(v)
    <2>1. block' \in Nat /\ block' >= block
      BY <1>1, StoreTypes
    <2>. QED
      BY <1>1, <1>3, <2>1, PiecesFrame
  <1>5. SavedInv'
    <2>1. CASE ~ Waited
      BY <1>1, <2>1 DEF SavedInv, Waited, Assigning
    <2>2. CASE Outbox(w)' = Outbox(w)
      <3>1. \A v \in Process : Outbox(v)' = Outbox(v)
        BY <2>2
      <3>. QED
        BY <1>1, <1>2, <3>1, SameSaved DEF DInv
    <2>. QED
      BY <2>1, <2>2
  <1>. QED
    BY <1>1, <1>4, <1>5, MainFrame

\* The first message of a worker, when it is no block.
LEMMA SentBlocksTail ==
    ASSUME NEW q \in Seq(Message), q # <<>>, DistinctIn(q)
    PROVE  /\ Head(q).tag # "assign_block" => SentBlocks(Tail(q)) = SentBlocks(q)
           /\ Head(q).tag = "assign_block" =>
                /\ Head(q).block \in SentBlocks(q)
                /\ SentBlocks(Tail(q)) = SentBlocks(q) \ {Head(q).block}
  <1>. DEFINE m == Head(q)
  <1>1. \A kind \in Kind :
          IF m.tag = "assign_block" /\ m.kind = kind
          THEN /\ SentIn(Tail(q), kind) = SentIn(q, kind) \ {m.block}
               /\ m.block \in SentIn(q, kind)
          ELSE SentIn(Tail(q), kind) = SentIn(q, kind)
    BY SentInTail
  <1>2. m.tag = "assign_block" => m.kind \in Kind /\ \A kind \in Kind : m.block \notin SentIn(Tail(q), kind)
    BY SentInTail, MessageFields
  <1>. HIDE DEF m
  <1>3. CASE m.tag # "assign_block"
    BY <1>1, <1>3, MPISets DEF SentBlocks, m
  <1>4. CASE m.tag = "assign_block"
    <2>1. CASE m.kind = "cpu"
      BY <1>1, <1>2, <1>4, <2>1, MPISets DEF SentBlocks, m
    <2>2. CASE m.kind = "opencl"
      BY <1>1, <1>2, <1>4, <2>2, MPISets DEF SentBlocks, m
    <2>. QED
      BY <1>2, <1>4, <2>1, <2>2, MPISets
  <1>. QED
    BY <1>3, <1>4 DEF m

LEMMA WorkerDInv ==
    ASSUME IInv, IInv', DInv, NEW w \in Worker, WorkerStep(w)
    PROVE  DInv'
  <1>1. UNCHANGED <<store_vars, main, position, peer, crashes>> /\ ~ thrown
    BY DEF WorkerStep
  <1>2. /\ inbox[w] \in Seq(Message) /\ pool[w] \in Pool
        /\ w \in Process /\ w # Master /\ DistinctIn(inbox[w])
        /\ inbox \in [Worker -> Seq(Message)] /\ outbox \in [Worker -> Seq(Reply)]
        /\ pool \in [Process -> Pool]
        /\ worker_record \in [Worker -> SUBSET Block] /\ worker_store \in [Worker -> Counts]
    BY WorkerAgrees DEF IInv, MPITypeOK
  <1>3. /\ Inbox(w) = inbox[w] /\ Outbox(w) = outbox[w]
        /\ Inbox(w)' = inbox'[w] /\ Outbox(w)' = outbox'[w]
        /\ Coming(w) = SentBlocks(inbox[w]) \cup Unmerged(pool[w].busy)
        /\ Coming(w)' = SentBlocks(inbox'[w]) \cup Unmerged(pool'[w].busy)
        /\ Told(w) = StoresIn(outbox[w]) /\ Told(w)' = StoresIn(outbox'[w])
    BY <1>2 DEF Inbox, Outbox, Coming, Told
  <1>4. ASSUME NEW in, NEW out, NEW q,
               inbox' = [inbox EXCEPT ![w] = in], outbox' = [outbox EXCEPT ![w] = out],
               pool' = [pool EXCEPT ![w] = q]
        PROVE  /\ inbox'[w] = in /\ outbox'[w] = out /\ pool'[w] = q
               /\ \A v \in Process : v # w => /\ pool'[v] = pool[v]
                                              /\ Inbox(v)' = Inbox(v) /\ Outbox(v)' = Outbox(v)
    BY <1>2, <1>4, MPISets DEF Inbox, Outbox
  <1>5. /\ inbox = [inbox EXCEPT ![w] = inbox[w]] /\ outbox = [outbox EXCEPT ![w] = outbox[w]]
        /\ pool = [pool EXCEPT ![w] = pool[w]]
    BY <1>2
  <1>. DEFINE m == Head(inbox[w])
  <1>6. CASE LeaveBroadcast(w)
    <2>1. UNCHANGED <<pool, worker_record, worker_store, inbox, outbox>>
      BY <1>6 DEF LeaveBroadcast
    <2>2. \A v \in Process : Inbox(v)' = Inbox(v) /\ Outbox(v)' = Outbox(v)
      BY <2>1 DEF Inbox, Outbox
    <2>. QED
      BY <1>1, <1>2, <1>3, <2>1, <2>2, QuietWorker
  <1>7. ASSUME inbox[w] # <<>>, m.tag # "assign_block", NEW q \in Pool, NEW out,
               inbox' = [inbox EXCEPT ![w] = Tail(inbox[w])],
               outbox' = [outbox EXCEPT ![w] = out], pool' = [pool EXCEPT ![w] = q],
               UNCHANGED <<worker_record, worker_store>>,
               q.busy = pool[w].busy, StoresIn(out) = StoresIn(outbox[w]),
               out = outbox[w] \/ ~ Waited
        PROVE  DInv'
    <2>1. SentBlocks(Tail(inbox[w])) = SentBlocks(inbox[w])
      BY <1>2, <1>7, SentBlocksTail
    <2>2. /\ inbox'[w] = Tail(inbox[w]) /\ outbox'[w] = out /\ pool'[w] = q
          /\ \A v \in Process : v # w => /\ pool'[v] = pool[v]
                                         /\ Inbox(v)' = Inbox(v) /\ Outbox(v)' = Outbox(v)
      BY <1>4, <1>7
    <2>3. Coming(w)' = Coming(w) /\ Told(w)' = Told(w)
      BY <1>3, <1>7, <2>1, <2>2
    <2>. QED
      BY <1>1, <1>3, <1>7, <2>2, <2>3, QuietWorker
  <1>8. CASE WorkerUpdateConfig(w)
    <2>. DEFINE q == [pool[w] EXCEPT !.tables = m.node]
    <2>1. /\ inbox[w] # <<>> /\ m.tag = "update_config"
          /\ inbox' = [inbox EXCEPT ![w] = Tail(inbox[w])]
          /\ pool' = [pool EXCEPT ![w] = q]
          /\ UNCHANGED <<worker_record, worker_store, outbox>>
      BY <1>8 DEF WorkerUpdateConfig, Receive
    <2>2. m.node \in Node
      BY <1>2, <2>1, SentInTail, MessageFields
    <2>3. q \in Pool /\ q.busy = pool[w].busy
      BY <1>2, <2>2 DEF Pool
    <2>. HIDE DEF q
    <2>. QED
      BY <1>5, <1>7, <2>1, <2>3
  <1>9. CASE WorkerReady(w)
    <2>. DEFINE q == ReadyFlushed(pool[w])
                a == [tag |-> "ready", ready |-> pool[w].ready]
    <2>1. /\ inbox[w] # <<>> /\ m.tag = "ready"
          /\ inbox' = [inbox EXCEPT ![w] = Tail(inbox[w])]
          /\ outbox' = [outbox EXCEPT ![w] = Append(outbox[w], a)]
          /\ pool' = [pool EXCEPT ![w] = q]
          /\ UNCHANGED <<worker_record, worker_store>>
      BY <1>9 DEF WorkerReady, Receive, Answer
    <2>2. outbox[w] = <<>> /\ main = "ready"
      BY <2>1, QuestionRead DEF Asking
    <2>3. ~ Waited
      BY <2>2 DEF Waited, Saves
    <2>4. q \in Pool /\ q.busy = pool[w].busy
      BY <1>2, ReadyFlushedFields
    <2>5. a.tag = "ready"
      OBVIOUS
    <2>. HIDE DEF q, a
    <2>6. outbox' = [outbox EXCEPT ![w] = <<a>>]
      BY <2>1, <2>2
    <2>7. StoresIn(<<a>>) = StoresIn(outbox[w])
      BY <2>2, <2>5 DEF StoresIn
    <2>. QED
      BY <1>7, <2>1, <2>3, <2>4, <2>6, <2>7
  <1>10. CASE WorkerFinished(w)
    <2>. DEFINE q == FinishedFlushed(pool[w])
                a == [tag |-> "finished", blocks |-> pool[w].finished]
    <2>1. /\ inbox[w] # <<>> /\ m.tag = "finished"
          /\ inbox' = [inbox EXCEPT ![w] = Tail(inbox[w])]
          /\ outbox' = [outbox EXCEPT ![w] = Append(outbox[w], a)]
          /\ pool' = [pool EXCEPT ![w] = q]
          /\ UNCHANGED <<worker_record, worker_store>>
      BY <1>10 DEF WorkerFinished, Receive, Answer
    <2>2. outbox[w] = <<>> /\ main = "finished"
      BY <2>1, QuestionRead DEF Asking
    <2>3. ~ Waited
      BY <2>2 DEF Waited, Saves
    <2>4. q \in Pool /\ q.busy = pool[w].busy
      BY <1>2, FinishedFlushedFields
    <2>5. a.tag = "finished"
      OBVIOUS
    <2>. HIDE DEF q, a
    <2>6. outbox' = [outbox EXCEPT ![w] = <<a>>]
      BY <2>1, <2>2
    <2>7. StoresIn(<<a>>) = StoresIn(outbox[w])
      BY <2>2, <2>5 DEF StoresIn
    <2>. QED
      BY <1>7, <2>1, <2>3, <2>4, <2>6, <2>7
  <1>11. CASE WorkerShutdown(w)
    <2>1. /\ inbox[w] # <<>> /\ m.tag = "shutdown"
          /\ inbox' = [inbox EXCEPT ![w] = Tail(inbox[w])]
          /\ UNCHANGED <<pool, worker_record, worker_store, outbox>>
      BY <1>11 DEF WorkerShutdown, Receive
    <2>. QED
      BY <1>2, <1>5, <1>7, <2>1
  <1>12. CASE WorkerAssign(w)
    <2>. DEFINE q == PoolAssign(pool[w], m.block, m.kind)
    <2>1. /\ inbox[w] # <<>> /\ m.tag = "assign_block"
          /\ inbox' = [inbox EXCEPT ![w] = Tail(inbox[w])]
          /\ IF pool[w].idle[m.kind] = 0 THEN thrown' = TRUE /\ UNCHANGED pool
             ELSE pool' = [pool EXCEPT ![w] = q] /\ UNCHANGED thrown
          /\ UNCHANGED <<worker_record, worker_store, outbox>>
      BY <1>12 DEF WorkerAssign, Receive
    <2>2. ~ thrown'
      BY DEF IInv, NoThrow
    <2>3. pool[w].idle[m.kind] # 0 /\ pool' = [pool EXCEPT ![w] = q]
      BY <2>1, <2>2
    <2>4. m.block \in Block /\ m.kind \in Kind
      BY <1>2, <2>1, SentInTail, MessageFields
    <2>5. Distinct(pool[w].busy)
      BY WorkerAgrees DEF Agree
    <2>6. PICK b, kind : b = m.block /\ kind = m.kind
      OBVIOUS
    <2>7. Unmerged(q.busy) = Unmerged(pool[w].busy) \cup {m.block}
      <3>1. PICK r : r = pool[w]
        OBVIOUS
      <3>2. Unmerged(PoolAssign(r, b, kind).busy) = Unmerged(r.busy) \cup {b}
        BY <1>2, <2>3, <2>4, <2>5, <2>6, <3>1, UnmergedAssign
      <3>. QED
        BY <2>6, <3>1, <3>2
    <2>. HIDE DEF q
    <2>8. /\ m.block \in SentBlocks(inbox[w])
          /\ SentBlocks(Tail(inbox[w])) = SentBlocks(inbox[w]) \ {m.block}
      BY <1>2, <2>1, SentBlocksTail
    <2>9. /\ inbox'[w] = Tail(inbox[w]) /\ outbox'[w] = outbox[w] /\ pool'[w] = q
          /\ \A v \in Process : v # w => /\ pool'[v] = pool[v]
                                         /\ Inbox(v)' = Inbox(v) /\ Outbox(v)' = Outbox(v)
      BY <1>4, <1>5, <2>1, <2>3
    <2>10. Coming(w)' = Coming(w) /\ Told(w)' = Told(w)
      BY <1>3, <2>7, <2>8, <2>9
    <2>. QED
      BY <1>1, <1>3, <2>1, <2>9, <2>10, QuietWorker
  <1>13. CASE WorkerSave(w)
    <2>. DEFINE s == [record |-> worker_record[w], store |-> worker_store[w]]
                a == [tag |-> "save", stores |-> s]
    <2>1. /\ inbox[w] # <<>> /\ m.tag = "save"
          /\ inbox' = [inbox EXCEPT ![w] = Tail(inbox[w])]
          /\ outbox' = [outbox EXCEPT ![w] = Append(outbox[w], a)]
          /\ worker_record' = [worker_record EXCEPT ![w] = {}]
          /\ worker_store' = [worker_store EXCEPT ![w] = NoCounts]
          /\ UNCHANGED pool
      BY <1>13 DEF WorkerSave, Receive, Answer
    <2>2. outbox[w] = <<>> /\ main = "save"
      BY <2>1, QuestionRead DEF Asking
    <2>3. a.tag = "save" /\ a.stores = s /\ s.record = worker_record[w] /\ s.store = worker_store[w]
      OBVIOUS
    <2>. HIDE DEF a, s
    <2>4. outbox' = [outbox EXCEPT ![w] = <<a>>]
      BY <2>1, <2>2
    <2>5. /\ inbox'[w] = Tail(inbox[w]) /\ outbox'[w] = <<a>> /\ pool'[w] = pool[w]
          /\ \A v \in Process : v # w => /\ pool'[v] = pool[v]
                                         /\ Inbox(v)' = Inbox(v) /\ Outbox(v)' = Outbox(v)
      BY <1>4, <1>5, <2>1, <2>4
    <2>6. SentBlocks(Tail(inbox[w])) = SentBlocks(inbox[w])
      BY <1>2, <2>1, SentBlocksTail
    <2>7. Coming(w)' = Coming(w)
      BY <1>3, <2>5, <2>6
    <2>8. Told(w)' = s /\ Told(w) = NothingToSave
      BY <1>3, <2>2, <2>3, <2>5 DEF StoresIn
    <2>9. /\ Held(w) = worker_record[w] /\ HeldStore(w) = worker_store[w]
          /\ Held(w)' = {} /\ HeldStore(w)' = NoCounts
          /\ \A v \in Process : v # w => Held(v)' = Held(v) /\ HeldStore(v)' = HeldStore(v)
      <3>1. UNCHANGED <<static_record, static_store>>
        BY <1>1 DEF store_vars
      <3>2. worker_record'[w] = {} /\ worker_store'[w] = NoCounts
        BY <1>2, <2>1
      <3>3. \A v \in Worker : v # w => worker_record'[v] = worker_record[v] /\ worker_store'[v] = worker_store[v]
        BY <1>2, <2>1
      <3>. QED
        BY <1>2, <3>1, <3>2, <3>3, MPISets DEF Held, HeldStore
    <2>10. UNCHANGED <<main, within, peer, block, saving, files, file_store, initial_record, crashes>>
      BY <1>1 DEF store_vars, position
    <2>11. PieceAt(w)
      BY <1>2 DEF DInv, PieceInv
    <2>12. Told(w)'.record = Held(w) /\ Told(w)'.store = HeldStore(w) /\ Told(w).record = {}
      BY <2>3, <2>8, <2>9, NothingToSaveType
    <2>13. At(w)' = At(w)
      BY <2>7, <2>9, <2>12 DEF At
    <2>14. PieceAt(w)'
      <3>1. Once(file_store, {}) = NoCounts
        BY OnceEmpty
      <3>. QED
        BY <2>7, <2>9, <2>10, <2>11, <2>12, <2>13, <3>1 DEF PieceAt
    <2>15. ASSUME NEW v \in Process, v # w PROVE PieceAt(v)' /\ At(v)' = At(v)
      <3>1. Same(v)
        BY <2>5, <2>9, <2>15, OthersSame
      <3>2. At(v) \subseteq Nat /\ block \in Nat /\ block >= block
        BY PieceTypes, StoreTypes
      <3>. QED
        BY <2>10, <3>1, <3>2, PieceFrame DEF DInv
    <2>16. SavedInv'
      <3>1. Waited' = Waited
        BY <2>10 DEF Waited, Assigning
      <3>2. \A v \in Process : v # w => Held(v)' = Held(v) /\ Outbox(v)' = Outbox(v)
        BY <2>5, <2>9
      <3>. QED
        BY <2>9, <2>10, <3>1, <3>2 DEF DInv, SavedInv
    <2>. QED
      BY <2>10, <2>13, <2>14, <2>15, <2>16, MainFrame DEF PieceInv
  <1>14. CASE WorkerJoin(w)
    <2>1. UNCHANGED <<pool, worker_record, worker_store, inbox, outbox>>
      BY <1>14 DEF WorkerJoin
    <2>. QED
      BY <1>1, <1>2, <2>1, QuietWorker DEF Coming, Told, Inbox, Outbox
  <1>. QED
    BY <1>6, <1>8, <1>9, <1>10, <1>11, <1>12, <1>13, <1>14 DEF WorkerStep

-----------------------------------------------------------------------------
(* The master, where no counts move                                        *)

LEMMA QuietMaster ==
    ASSUME IInv, DInv, \A p \in Process : Same(p), UNCHANGED <<store_vars, crashes>>,
           UNCHANGED block \/ (block' = block + 1 /\ block \in Listed),
           main \notin Saves, main' \notin Saves, FreshBlock', SavedInv'
    PROVE  DInv'
  <1>1. UNCHANGED <<saving, files, file_store, initial_record>>
    BY DEF store_vars
  <1>2. block \in Nat /\ block' \in Nat /\ block' >= block
    BY StoreTypes
  <1>3. PieceInv' /\ \A p \in Process : At(p)' = At(p)
    BY <1>1, <1>2, PiecesFrame
  <1>4. FilesInv' /\ Listed' = Listed /\ NodeInv'
    BY <1>1, FilesFrame
  <1>5. PlaceInv'
    BY <1>1, <1>3, <1>4, PlacesFrame DEF DInv, PlaceInv
  <1>6. CoverInv'
    <2>1. \A b \in Block : b < block' => b < block \/ b \in Listed
      <3>1. Block \subseteq Nat
        BY StoreTypes
      <3>. QED
        BY <1>2, <3>1
    <2>. QED
      BY <1>1, <1>3, <1>4, <2>1 DEF DInv, CoverInv
  <1>7. SavingInv'
    <2>1. saving = NothingToSave /\ \A b \in saving.record : b \in Nat /\ b < block'
      BY NothingToSaveType DEF DInv, SavingInv
    <2>. QED
      BY <1>1, <2>1 DEF DInv, SavingInv
  <1>8. FreshInv'
    <2>1. file_store # NoNode => \A b \in Listed \ initial_record : b < block'
      <3>1. file_store # NoNode => Listed \subseteq Nat
        BY StoreTypes DEF Listed
      <3>. QED
        BY <1>2, <3>1 DEF DInv, FreshInv
    <2>. QED
      BY <1>1, <1>4, <2>1 DEF DInv, FreshInv, FreshBlock
  <1>9. CurrentInv' /\ PairsInv'
    BY <1>1, RestFrame
  <1>. QED
    BY <1>3, <1>4, <1>5, <1>6, <1>7, <1>8, <1>9 DEF DInv

LEMMA MasterSame ==
    ASSUME UNCHANGED <<worker_record, worker_store, static_record, static_store>>,
           NEW p \in Process, Coming(p)' = Coming(p), Told(p)' = Told(p)
    PROVE  Same(p)
  BY DEF Same, Held, HeldStore

\* Where the master looks at no other process.
LEMMA LookData ==
    ASSUME IInv, DInv, Reject \/ EnterBroadcast \/ NextNode \/ EndOfNode \/ EnterAssign \/ CheckContains,
           UNCHANGED <<worker_record, worker_store, worker, crashes>>
    PROVE  DInv'
  <1>1. UNCHANGED <<store_vars, pool, inbox, outbox, peer>>
    BY DEF Reject, EnterBroadcast, NextNode, EndOfNode, EnterAssign, CheckContains, position
  <1>2. UNCHANGED <<static_record, static_store, initial_record>>
    BY <1>1 DEF store_vars
  <1>3. ASSUME NEW p \in Process PROVE Same(p)
    BY <1>1, <1>2, MasterSame DEF Coming, Told, Inbox, Outbox
  <1>4. UNCHANGED block \/ (block' = block + 1 /\ block \in Listed)
    <2>1. CASE CheckContains
      <3>1. main = "contains"
        BY <2>1 DEF CheckContains
      <3>2. file_store # NoNode
        BY <3>1, StoreTypes DEF IInv, ControlInv, Assigning
      <3>. QED
        BY <2>1, <3>2 DEF CheckContains, DInv, FreshInv
    <2>2. CASE Reject \/ EnterBroadcast \/ NextNode \/ EndOfNode \/ EnterAssign
      BY <2>2 DEF Reject, EnterBroadcast, NextNode, EndOfNode, EnterAssign, position
    <2>. QED
      BY <2>1, <2>2
  <1>5. main \notin Saves /\ main' \notin Saves
    BY DEF Reject, EnterBroadcast, NextNode, EndOfNode, EnterAssign, CheckContains, Saves
  <1>6. FreshBlock'
    BY <1>2 DEF Reject, EnterBroadcast, NextNode, EndOfNode, EnterAssign, CheckContains, FreshBlock
  <1>7. ~ Waited'
    <2>1. CASE EnterAssign
      BY <2>1 DEF EnterAssign, Waited, Assigning
    <2>2. CASE CheckContains
      BY <2>2 DEF CheckContains, Waited, Assigning, Saves
    <2>3. CASE Reject \/ EnterBroadcast \/ NextNode \/ EndOfNode
      BY <2>3 DEF Reject, EnterBroadcast, NextNode, EndOfNode, Waited, Saves
    <2>. QED
      BY <2>1, <2>2, <2>3
  <1>8. SavedInv'
    BY <1>7 DEF SavedInv
  <1>. QED
    BY <1>1, <1>3, <1>4, <1>5, <1>6, <1>8, QuietMaster

\* A message that is no block.
LEMMA SentBlocksAppend ==
    ASSUME NEW q \in Seq(Message), NEW m \in Message, DistinctIn(q), m.tag # "assign_block"
    PROVE  SentBlocks(Append(q, m)) = SentBlocks(q)
  <1>1. \A kind \in Kind : SentIn(Append(q, m), kind) = SentIn(q, kind)
    BY SentInAppend
  <1>. QED
    BY <1>1, MPISets DEF SentBlocks

LEMMA AskData ==
    ASSUME IInv, DInv, Ask, UNCHANGED <<worker_record, worker_store, worker, crashes>>
    PROVE  DInv'
  <1>. DEFINE m == [tag |-> main]
  <1>1. /\ main \in Asking /\ peer # Master
        /\ inbox' = [inbox EXCEPT ![peer] = Append(inbox[peer], m)]
        /\ UNCHANGED <<store_vars, pool, outbox, main, within, block, peer>>
    BY DEF Ask, position
  <1>2. UNCHANGED <<static_record, static_store, initial_record>>
    BY <1>1 DEF store_vars
  <1>3. peer \in Worker
    BY <1>1, PeerTypes
  <1>4. inbox[peer] \in Seq(Message) /\ DistinctIn(inbox[peer]) /\ inbox \in [Worker -> Seq(Message)]
    BY <1>3, WorkerAgrees
  <1>5. m \in Message /\ m.tag # "assign_block"
    BY <1>1, MadeMessages DEF Asking
  <1>. HIDE DEF m
  <1>6. SentBlocks(Append(inbox[peer], m)) = SentBlocks(inbox[peer])
    BY <1>4, <1>5, SentBlocksAppend
  <1>7. \A w \in Worker : SentBlocks(inbox'[w]) = SentBlocks(inbox[w])
    BY <1>1, <1>4, <1>6
  <1>8. ASSUME NEW p \in Process PROVE Same(p)
    <2>1. SentBlocks(Inbox(p)') = SentBlocks(Inbox(p))
      BY <1>7, MPISets DEF Inbox
    <2>2. Coming(p)' = Coming(p) /\ Told(p)' = Told(p)
      BY <1>1, <2>1 DEF Coming, Told, Outbox
    <2>. QED
      BY <1>2, <2>2, MasterSame
  <1>9. main \notin Saves /\ main' \notin Saves
    BY <1>1 DEF Asking, Saves
  <1>10. FreshBlock'
    BY <1>1, <1>2 DEF DInv, FreshInv, FreshBlock
  <1>11. SavedInv'
    BY <1>1, <1>2, SameSaved DEF DInv, Held, Outbox
  <1>. QED
    BY <1>1, <1>8, <1>9, <1>10, <1>11, QuietMaster

\* An answer that brings no counts, or the master's own turn in such a loop.
LEMMA TurnSame ==
    ASSUME IInv, UNCHANGED <<worker_record, worker_store, store_vars>>, NEW tag \in {"ready", "finished"},
           \/ Own(tag) /\ \E q \in Pool : /\ q.busy = pool[Master].busy
                                          /\ pool' = [pool EXCEPT ![Master] = q]
           \/ Answered(tag) /\ UNCHANGED pool
    PROVE  \A p \in Process : Same(p)
  <1>1. UNCHANGED <<inbox, static_record, static_store>>
    BY DEF Own, Answered, store_vars
  <1>2. \A p \in Process : pool'[p].busy = pool[p].busy
    <2>1. pool \in [Process -> Pool]
      BY MasterAgrees
    <2>. QED
      BY <2>1
  <1>3. \A p \in Process : StoresIn(Outbox(p)') = StoresIn(Outbox(p))
    <2>1. CASE Own(tag)
      BY <2>1 DEF Own, Outbox
    <2>2. CASE Answered(tag)
      <3>1. tag \in Asking
        BY DEF Asking
      <3>2. PICK m : /\ peer \in Worker /\ outbox[peer] = <<m>> /\ m.tag = tag
                     /\ outbox'[peer] = <<>>
                     /\ \A v \in Worker : v # peer => outbox'[v] = outbox[v]
        BY <2>2, <3>1, AnswerTaken
      <3>3. StoresIn(outbox'[peer]) = StoresIn(outbox[peer])
        BY <3>2 DEF StoresIn
      <3>. QED
        BY <3>2, <3>3, MPISets DEF Outbox
    <2>. QED
      BY <2>1, <2>2
  <1>4. ASSUME NEW p \in Process PROVE Same(p)
    <2>1. Coming(p)' = Coming(p) /\ Told(p)' = Told(p)
      BY <1>1, <1>2, <1>3 DEF Coming, Told, Inbox
    <2>. QED
      BY <1>1, <2>1, MasterSame
  <1>. QED
    BY <1>4

LEMMA FlushFinishedData ==
    ASSUME IInv, IInv', DInv, FlushFinished, UNCHANGED <<worker_record, worker_store, worker, crashes>>
    PROVE  DInv'
  <1>1. /\ UNCHANGED <<store_vars, within, block, initial_record>>
        /\ main = "finished" /\ main' \in {"finished", "ready", "save"}
        /\ main' = "ready" => within = "assign"
        /\ main' = "save" => peer' = Master
        /\ ~ asked'
    BY DEF FlushFinished, position, NextPeer, Own, Answered, store_vars, IInv, ControlInv
  <1>2. \A p \in Process : Same(p)
    <2>1. \/ Own("finished") /\ pool' = [pool EXCEPT ![Master] = FinishedFlushed(pool[Master])]
          \/ Answered("finished") /\ UNCHANGED pool
      BY DEF FlushFinished
    <2>2. FinishedFlushed(pool[Master]) \in Pool /\ FinishedFlushed(pool[Master]).busy = pool[Master].busy
      BY MasterAgrees, FinishedFlushedFields
    <2>. QED
      BY <1>1, <2>1, <2>2, TurnSame
  <1>3. FreshBlock'
    BY <1>1 DEF DInv, FreshInv, FreshBlock
  <1>4. SavedInv'
    <2>1. CASE main' # "save"
      BY <1>1, <2>1 DEF SavedInv, Waited, Saves
    <2>2. CASE main' = "save"
      <3>1. \A p \in Process : ~ (p < peer') /\ Outbox(p)' = <<>>
        <4>1. \A w \in Worker : outbox'[w] = <<>>
          BY <1>1 DEF IInv, AskInv, AskAt, Asked
        <4>2. \A p \in Process : ~ (p < 0)
          BY MPISets
        <4>. QED
          BY <1>1, <2>2, <4>1, <4>2, MPISets DEF Outbox, Master
      <3>. QED
        BY <2>2, <3>1 DEF SavedInv, Saves
    <2>. QED
      BY <2>1, <2>2
  <1>5. main \notin Saves /\ main' \notin Saves
    BY <1>1 DEF Saves
  <1>. QED
    BY <1>1, <1>2, <1>3, <1>4, <1>5, QuietMaster

LEMMA FillIdleQueuesData ==
    ASSUME IInv, DInv, FillIdleQueues, UNCHANGED <<worker_record, worker_store, worker, crashes>>
    PROVE  DInv'
  <1>1. /\ UNCHANGED <<store_vars, within, block, initial_record>>
        /\ main = "ready" /\ main' \in {"ready", "finished", "dispatch"}
    BY DEF FillIdleQueues, position, NextPeer, Own, Answered, store_vars
  <1>2. \A p \in Process : Same(p)
    <2>1. \/ Own("ready") /\ pool' = [pool EXCEPT ![Master] = ReadyFlushed(pool[Master])]
          \/ Answered("ready") /\ UNCHANGED pool
      BY DEF FillIdleQueues
    <2>2. ReadyFlushed(pool[Master]) \in Pool /\ ReadyFlushed(pool[Master]).busy = pool[Master].busy
      BY MasterAgrees, ReadyFlushedFields
    <2>. QED
      BY <1>1, <2>1, <2>2, TurnSame
  <1>3. FreshBlock'
    BY <1>1 DEF DInv, FreshInv, FreshBlock
  <1>4. SavedInv'
    BY <1>1 DEF SavedInv, Waited, Saves
  <1>5. main \notin Saves /\ main' \notin Saves
    BY <1>1 DEF Saves
  <1>. QED
    BY <1>1, <1>2, <1>3, <1>4, <1>5, QuietMaster

LEMMA ShutdownData ==
    ASSUME IInv, DInv, Shutdown, UNCHANGED <<worker_record, worker_store, worker, crashes>>
    PROVE  DInv'
  <1>. DEFINE m == [tag |-> "shutdown"]
  <1>1. /\ main = "shutdown" /\ main' = "join"
        /\ inbox' = [w \in Worker |-> Append(inbox[w], m)]
        /\ UNCHANGED <<store_vars, pool, outbox, within, block, peer, initial_record>>
    BY DEF Shutdown, SendAll, position, store_vars
  <1>2. UNCHANGED <<static_record, static_store>>
    BY <1>1 DEF store_vars
  <1>3. m \in Message /\ m.tag # "assign_block"
    BY MadeMessages
  <1>. HIDE DEF m
  <1>4. ASSUME NEW w \in Worker PROVE SentBlocks(inbox'[w]) = SentBlocks(inbox[w])
    <2>1. inbox[w] \in Seq(Message) /\ DistinctIn(inbox[w]) /\ inbox'[w] = Append(inbox[w], m)
      BY <1>1, WorkerAgrees
    <2>. QED
      BY <1>3, <2>1, SentBlocksAppend
  <1>5. ASSUME NEW p \in Process PROVE Same(p)
    <2>1. SentBlocks(Inbox(p)') = SentBlocks(Inbox(p))
      BY <1>4, MPISets DEF Inbox
    <2>2. Coming(p)' = Coming(p) /\ Told(p)' = Told(p)
      BY <1>1, <2>1 DEF Coming, Told, Outbox
    <2>. QED
      BY <1>2, <2>2, MasterSame
  <1>6. FreshBlock'
    BY <1>1 DEF FreshBlock
  <1>7. SavedInv'
    <2>1. Waited
      BY <1>1 DEF Waited, Assigning, Saves
    <2>2. \A p \in Process : Held(p) = {} /\ Held(p)' = Held(p)
      BY <1>1, <1>5, <2>1 DEF DInv, SavedInv, Same
    <2>. QED
      BY <2>2 DEF SavedInv
  <1>8. main \notin Saves /\ main' \notin Saves
    BY <1>1 DEF Saves
  <1>. QED
    BY <1>1, <1>5, <1>6, <1>7, <1>8, QuietMaster

LEMMA JoinData ==
    ASSUME IInv, DInv, JoinThreads, UNCHANGED <<worker_record, worker_store, worker, crashes>>
    PROVE  DInv'
  <1>1. /\ main = "join" /\ main' = "exited"
        /\ UNCHANGED <<store_vars, pool, inbox, outbox, within, block, peer, initial_record>>
        /\ UNCHANGED <<static_record, static_store>>
    BY DEF JoinThreads, position, store_vars
  <1>2. ASSUME NEW p \in Process PROVE Same(p)
    BY <1>1, MasterSame DEF Coming, Told, Inbox, Outbox
  <1>3. FreshBlock'
    BY <1>1 DEF FreshBlock
  <1>4. SavedInv'
    <2>1. Waited
      BY <1>1 DEF Waited, Assigning, Saves
    <2>2. \A p \in Process : Held(p) = {} /\ Held(p)' = Held(p)
      BY <1>1, <1>2, <2>1 DEF DInv, SavedInv, Same
    <2>. QED
      BY <2>2 DEF SavedInv
  <1>5. main \notin Saves /\ main' \notin Saves
    BY <1>1 DEF Saves
  <1>. QED
    BY <1>1, <1>2, <1>3, <1>4, <1>5, QuietMaster

-----------------------------------------------------------------------------
(* The master: saving                                                      *)

\* A save is possible only when a FileStore is in use, and lists new blocks.
LEMMA SaveInUse ==
    ASSUME IInv, DInv, main \in Saves
    PROVE  /\ file_store \in Node /\ file_store # NoNode /\ Listed = Recorded(file_store)
           /\ SavingIsNew /\ saving \in Saving
           /\ main # "create_store" =>
                /\ PairInUse /\ files[file_store][Current] \in FilePair
                /\ files[file_store][Current].record = {}
  <1>1. file_store \in Node /\ file_store # NoNode /\ saving \in Saving
    BY StoreTypes DEF IInv, ControlInv
  <1>2. Listed = Recorded(file_store)
    BY <1>1 DEF Listed
  <1>3. SavingIsNew
    BY <1>2 DEF DInv, SavingInv, PlaceInv, SavingIsNew
  <1>4. ASSUME main # "create_store"
        PROVE  /\ PairInUse /\ files[file_store][Current] \in FilePair
               /\ files[file_store][Current].record = {}
    <2>1. main \in Saves \ {"create_store"}
      BY <1>4
    <2>2. PairInUse
      BY <1>1, <2>1, StoreTypes DEF IInv, ControlInv, PairInUse
    <2>3. files[file_store][Current] \in FilePair
      BY <2>2, LastPairSteps
    <2>. QED
      BY <2>1, <2>2, <2>3 DEF DInv, CurrentInv
  <1>. QED
    BY <1>1, <1>2, <1>3, <1>4

\* What the loop over the processes begins with, and an answer: the counts go to the
\* save.
LEMMA SaveGlobalStoresData ==
    ASSUME IInv, DInv, SaveGlobalStores, UNCHANGED <<worker_record, worker_store, worker, crashes>>
    PROVE  DInv'
  <1>1. /\ main = "save"
        /\ UNCHANGED <<pool, inbox, within, node, block, peer, files, file_store, initial_record>>
    BY DEF SaveGlobalStores, position, Own, Answered, store_vars, FlushStaticStore
  <1>2. saving = NothingToSave /\ saving.record = {} /\ main \notin Saves
    BY <1>1, NothingToSaveType DEF DInv, SavingInv, Saves
  <1>3. block \in Nat /\ Block \subseteq Nat
    BY StoreTypes
  <1>4. CASE Own("save") /\ file_store = NoNode
    <2>1. main' = AfterSave /\ UNCHANGED <<store_vars, outbox>>
      BY <1>4 DEF SaveGlobalStores, Own, Answered, AskInv, IInv, ControlInv
    <2>2. main' \in {"configure", "contains", "shutdown"}
      BY <2>1 DEF AfterSave, IInv, MPITypeOK
    <2>3. \A p \in Process : Held(p) = {}
      BY <1>4 DEF DInv, PieceInv, PieceAt, At
    <2>4. UNCHANGED <<static_record, static_store>>
      BY <2>1 DEF store_vars
    <2>5. ASSUME NEW p \in Process PROVE Same(p) /\ Held(p)' = {}
      <3>1. Same(p)
        BY <1>1, <2>1, <2>4, MasterSame DEF Coming, Told, Inbox, Outbox
      <3>. QED
        BY <2>3, <2>5, <3>1 DEF Same
    <2>6. FreshBlock'
      BY <2>2 DEF FreshBlock
    <2>7. /\ \A p \in Process : Same(p)
          /\ \A p \in Process : Held(p)' = {}
      BY <2>5
    <2>8. SavedInv'
      BY <2>7 DEF SavedInv
    <2>9. main' \notin Saves
      BY <2>2 DEF Saves
    <2>. QED
      BY <1>1, <1>2, <2>1, <2>6, <2>7, <2>8, <2>9, QuietMaster
  <1>5. ASSUME NEW p \in Process, NEW s, saving' = s, main' = "create_store", file_store # NoNode,
               \A o \in Process : o # p => Same(o),
               Coming(p)' = Coming(p),
               PieceAt(p)', At(p)' \subseteq At(p), At(p) = At(p)' \cup s.record,
               At(p)' \cap s.record = {},
               s.store = Once(file_store, s.record), s.record \subseteq At(p), SavedInv'
        PROVE  DInv'
    <2>1. ASSUME NEW o \in Process, o # p PROVE PieceAt(o)' /\ At(o)' = At(o)
      <3>1. At(o) \subseteq Nat /\ block' \in Nat /\ block' >= block
        <4>1. At(o) \subseteq Block
          BY PieceTypes
        <4>2. block' = block
          BY <1>1
        <4>3. block' \in Nat /\ block' >= block
          BY <1>3, <4>2
        <4>. QED
          BY <1>3, <4>1, <4>3
      <3>2. Same(o)
        BY <1>5, <2>1
      <3>3. PieceInv /\ UNCHANGED file_store /\ block \in Nat
        BY <1>1, <1>3 DEF DInv
      <3>. QED
        BY <3>1, <3>2, <3>3, PieceFrame
    <2>2. PieceInv'
      BY <1>5, <2>1 DEF PieceInv
    <2>3. FilesInv' /\ Listed' = Listed /\ NodeInv'
      BY <1>1, FilesFrame
    <2>4. SavingInv'
      <3>1. \A b \in s.record : b < block
        BY <1>5 DEF DInv, PieceInv, PieceAt
      <3>. QED
        BY <1>1, <1>5, <3>1 DEF SavingInv, Saves
    <2>5. PlaceInv'
      <3>1. /\ \A o \in Process \ {p} : At(p) \cap At(o) = {}
            /\ At(p) \cap Listed = {}
        BY DEF DInv, PlaceInv
      <3>2. \A q \in Process : /\ \A o \in Process \ {q} : At(q)' \cap At(o)' = {}
                               /\ At(q)' \cap (s.record \cup Listed) = {}
        <4>. SUFFICES ASSUME NEW q \in Process
                      PROVE  /\ \A o \in Process \ {q} : At(q)' \cap At(o)' = {}
                             /\ At(q)' \cap (s.record \cup Listed) = {}
          OBVIOUS
        <4>1. /\ \A o \in Process \ {q} : At(q) \cap At(o) = {}
              /\ At(q) \cap Listed = {}
          BY DEF DInv, PlaceInv
        <4>2. \A o \in Process : At(o)' \subseteq At(o)
          BY <1>5, <2>1
        <4>3. \A o \in Process \ {q} : At(q)' \cap At(o)' = {}
          BY <4>1, <4>2
        <4>4. At(q)' \cap s.record = {}
          BY <1>5, <3>1, <4>2
        <4>. QED
          BY <4>1, <4>2, <4>3, <4>4
      <3>3. s.record \cap Listed = {}
        BY <1>5, <3>1
      <3>. QED
        BY <1>5, <2>3, <3>2, <3>3 DEF PlaceInv
    <2>6. CoverInv'
      <3>1. \A b \in Block : b < block => b \in Listed \/ \E o \in Process : b \in At(o)
        BY <1>2, <1>5 DEF DInv, CoverInv
      <3>2. \A b : (\E o \in Process : b \in At(o)) => b \in s.record \/ \E o \in Process : b \in At(o)'
        BY <1>5, <2>1
      <3>. QED
        BY <1>1, <1>5, <2>3, <3>1, <3>2 DEF CoverInv
    <2>7. FreshInv'
      BY <1>1, <1>5, <2>3 DEF DInv, FreshInv, FreshBlock
    <2>8. CurrentInv' /\ PairsInv'
      BY <1>1, <1>5, RestFrame DEF Saves
    <2>. QED
      BY <1>5, <2>2, <2>3, <2>4, <2>5, <2>6, <2>7, <2>8 DEF DInv
  <1>6. Waited' = Waited \/ main' # "create_store"
    BY <1>1 DEF Waited, Assigning, Saves
  <1>7. CASE Own("save") /\ file_store # NoNode
    <2>1. main' = "create_store" /\ FlushStaticStore /\ UNCHANGED outbox /\ peer = Master
      BY <1>7 DEF SaveGlobalStores, Own, Answered, IInv, ControlInv
    <2>2. /\ saving' = [record |-> static_record, store |-> static_store]
          /\ static_record' = {} /\ static_store' = NoCounts
      BY <2>1 DEF FlushStaticStore
    <2>3. PICK s : s = [record |-> static_record, store |-> static_store]
      OBVIOUS
    <2>4. s.record = Held(Master) /\ s.store = HeldStore(Master)
      BY <2>3 DEF Held, HeldStore
    <2>5. \A o \in Process : Inbox(o)' = Inbox(o) /\ Outbox(o)' = Outbox(o)
      BY <1>1, <2>1 DEF Inbox, Outbox
    <2>6. \A o \in Process : o # Master => Same(o)
      <3>1. \A o \in Process : o # Master => Held(o)' = Held(o) /\ HeldStore(o)' = HeldStore(o)
        BY DEF Held, HeldStore
      <3>. QED
        BY <1>1, <2>5, <3>1, OthersSame
    <2>7. /\ Coming(Master)' = Coming(Master) /\ Told(Master)' = Told(Master)
          /\ Held(Master)' = {} /\ HeldStore(Master)' = NoCounts
      BY <1>1, <2>2, <2>5, MPISets DEF Coming, Told, Held, HeldStore
    <2>8. Master \in Process /\ PieceAt(Master)
      BY MPISets DEF DInv, PieceInv
    <2>9. /\ At(Master)' \subseteq At(Master) /\ At(Master) = At(Master)' \cup s.record
          /\ At(Master)' \cap s.record = {} /\ s.record \subseteq At(Master)
          /\ s.store = Once(file_store, s.record)
      BY <2>4, <2>7, <2>8 DEF At, PieceAt
    <2>10. PieceAt(Master)'
      BY <1>1, <2>7, <2>8, <2>9, OnceEmpty DEF PieceAt
    <2>11. SavedInv'
      <3>1. \A p \in Process : ~ (p < Master)
        BY MPISets DEF Master
      <3>2. \A p \in Process : p # Master => Held(p)' = Held(p)
        BY <2>6 DEF Same
      <3>. QED
        BY <1>1, <1>6, <2>1, <2>5, <2>7, <3>1, <3>2 DEF DInv, SavedInv
    <2>. QED
      BY <1>5, <1>7, <2>1, <2>2, <2>3, <2>6, <2>7, <2>8, <2>9, <2>10, <2>11
  <1>8. CASE Answered("save")
    <2>1. /\ saving' = Head(outbox[peer]).stores /\ main' = "create_store"
          /\ UNCHANGED <<static_record, static_store>>
      BY <1>8 DEF SaveGlobalStores, Answered, Own, IInv, ControlInv
    <2>2. PICK m : /\ peer \in Worker /\ outbox[peer] = <<m>> /\ m.tag = "save"
                   /\ outbox'[peer] = <<>> /\ saving' = m.stores
                   /\ \A v \in Worker : v # peer => outbox'[v] = outbox[v]
      BY <1>8, <2>1, AnswerTaken DEF Asking
    <2>3. PICK p \in Process : p = peer /\ p \in Worker /\ p # Master
      BY <2>2, MPISets
    <2>4. \A o \in Process : Inbox(o)' = Inbox(o) /\ Held(o)' = Held(o) /\ HeldStore(o)' = HeldStore(o)
      BY <1>1, <2>1 DEF Inbox, Held, HeldStore
    <2>5. /\ Told(p) = m.stores /\ Told(p)' = NothingToSave
          /\ Outbox(p) # <<>> /\ Outbox(p)' = <<>>
          /\ \A o \in Process : o # p => Outbox(o)' = Outbox(o)
      <3>1. Outbox(p) = <<m>> /\ Outbox(p)' = <<>>
        BY <2>2, <2>3 DEF Outbox
      <3>2. \A o \in Process : o # p => Outbox(o)' = Outbox(o)
        BY <2>2, <2>3, MPISets DEF Outbox
      <3>. QED
        BY <2>2, <3>1, <3>2 DEF Told, StoresIn
    <2>6. \A o \in Process : o # p => Same(o)
      BY <1>1, <2>4, <2>5, OthersSame
    <2>7. Coming(p)' = Coming(p)
      BY <1>1, <2>4 DEF Coming
    <2>8. PieceAt(p)
      BY DEF DInv, PieceInv
    <2>9. Told(p)'.record = {} /\ Told(p)'.store = NoCounts
      BY <2>5, NothingToSaveType
    <2>10. PICK s : s = m.stores
      OBVIOUS
    <2>11. /\ At(p)' \subseteq At(p) /\ At(p) = At(p)' \cup s.record
           /\ At(p)' \cap s.record = {} /\ s.record \subseteq At(p)
           /\ s.store = Once(file_store, s.record)
      <3>1. Told(p) = s /\ Held(p)' = Held(p)
        BY <2>4, <2>5, <2>10
      <3>. QED
        BY <2>7, <2>8, <2>9, <3>1 DEF At, PieceAt
    <2>12. PieceAt(p)'
      <3>1. Held(p)' = Held(p) /\ HeldStore(p)' = HeldStore(p)
        BY <2>4
      <3>. QED
        BY <1>1, <2>7, <2>8, <2>9, <2>11, <3>1, OnceEmpty DEF PieceAt
    <2>13. file_store # NoNode
      BY <1>1, <2>3 DEF IInv, ControlInv
    <2>14. SavedInv'
      <3>1. Waited => Held(p) = {}
        BY <2>5 DEF DInv, SavedInv
      <3>2. Waited' = Waited
        BY <1>6, <2>1
      <3>3. ASSUME NEW o \in Process, Waited,
                   \/ o < peer \/ (o = peer /\ main' \in Saves)
                   \/ main' \in {"configure", "shutdown", "join", "exited"} \/ Outbox(o)' # <<>>
            PROVE  Held(o) = {}
        <4>1. CASE o = p
          BY <3>1, <3>3, <4>1
        <4>2. CASE o # p
          <5>1. o < peer \/ Outbox(o) # <<>>
            BY <2>1, <2>3, <2>5, <3>3, <4>2
          <5>. QED
            BY <3>3, <5>1 DEF DInv, SavedInv
        <4>. QED
          BY <4>1, <4>2
      <3>4. \A o \in Process : Held(o)' = Held(o)
        BY <2>4
      <3>. QED
        BY <1>1, <3>2, <3>3, <3>4 DEF SavedInv
    <2>15. saving' = s
      BY <2>2, <2>10
    <2>. QED
      BY <1>5, <2>1, <2>6, <2>7, <2>11, <2>12, <2>13, <2>14, <2>15
  <1>. QED
    BY <1>4, <1>7, <1>8 DEF SaveGlobalStores

-----------------------------------------------------------------------------
(* The master: the steps of FileStore::save                                *)

\* What they have in common.
LEMMA SaveFrame ==
    ASSUME IInv, DInv, SaveStep, UNCHANGED <<worker_record, worker_store, worker, crashes>>,
           \A n \in Node : n # file_store => Recorded(n)' = Recorded(n),
           Recorded(file_store)' \cup saving'.record = Recorded(file_store) \cup saving.record,
           Recorded(file_store)' \cap saving'.record = {},
           Recorded(file_store) \subseteq Recorded(file_store)',
           FilesInv', SavingInv', CurrentInv', PairsInv'
    PROVE  DInv'
  <1>1. /\ main \in Saves
        /\ UNCHANGED <<pool, inbox, outbox, within, node, block, file_store, initial_record,
                       static_record, static_store>>
    BY DEF SaveStep, Saves, position, CreateStoreFile, WriteStoreFile, FailStoreFile,
           CreateRecordFile, WriteRecordFile
  <1>2. /\ file_store \in Node /\ file_store # NoNode /\ Listed = Recorded(file_store)
    BY <1>1, SaveInUse
  <1>3. Listed' = Recorded(file_store)'
    BY <1>1, <1>2 DEF Listed, Recorded
  <1>4. ASSUME NEW p \in Process PROVE Same(p)
    BY <1>1, MasterSame DEF Coming, Told, Inbox, Outbox
  <1>5. PieceInv' /\ \A p \in Process : At(p)' = At(p)
    <2>1. block' \in Nat /\ block' >= block
      <3>1. block \in Nat /\ block' = block
        BY <1>1, StoreTypes
      <3>. QED
        BY <3>1
    <2>. QED
      BY <1>1, <1>4, <2>1, PiecesFrame
  <1>6. PlaceInv' /\ CoverInv'
    <2>1. /\ saving'.record \cup Listed' = saving.record \cup Listed
          /\ saving'.record \cap Listed' = {}
      BY <1>2, <1>3
    <2>. QED
      BY <1>1, <1>5, <2>1, PlacesFrame
  <1>7. FreshInv'
    <2>1. main' \notin {"ready", "dispatch", "finished"}
      BY DEF SaveStep, NextPeer, AfterSave, IInv, MPITypeOK
    <2>2. initial_record \subseteq Listed'
      BY <1>2, <1>3 DEF DInv, FreshInv
    <2>3. \A b \in Listed' \ initial_record : b < block
      <3>1. \A b \in saving.record : b < block
        BY DEF DInv, SavingInv
      <3>2. \A b \in Listed \ initial_record : b < block
        BY <1>2 DEF DInv, FreshInv
      <3>. QED
        BY <1>2, <1>3, <3>1, <3>2
    <2>. QED
      BY <1>1, <2>1, <2>2, <2>3 DEF FreshInv, FreshBlock
  <1>8. SavedInv'
    <2>1. peer \in 0 .. NbWorkers /\ NbWorkers \in Nat /\ \A p \in Process : p \in Nat /\ p <= NbWorkers
      BY MPISets, PeerTypes
    <2>2. \A p \in Process : Held(p)' = Held(p) /\ Outbox(p)' = Outbox(p)
      BY <1>1, <1>4 DEF Same, Outbox
    <2>3. ASSUME Waited' PROVE Waited
      <3>1. main' \in Saves \cup {"save"} \/ main' = AfterSave
        BY DEF SaveStep, Saves, NextPeer
      <3>2. within # "assign"
        BY <1>1, <2>3, <3>1 DEF Waited, Assigning, AfterSave, Saves
      <3>. QED
        BY <1>1, <3>2 DEF Waited, Assigning, Saves
    <2>4. ASSUME NEW p \in Process, Waited', Waited,
                 \/ p < peer' \/ (p = peer' /\ main' \in Saves)
                 \/ main' \in {"configure", "shutdown", "join", "exited"} \/ Outbox(p) # <<>>
          PROVE  p < peer \/ p = peer \/ Outbox(p) # <<>>
      <3>1. CASE main = "write_record" /\ peer = NbWorkers
        BY <2>1, <3>1
      <3>2. CASE main = "write_record" /\ peer # NbWorkers
        <4>1. peer' = peer + 1 /\ main' = "save"
          BY <3>2 DEF SaveStep, NextPeer
        <4>. QED
          BY <2>1, <2>4, <4>1 DEF Saves
      <3>3. CASE main # "write_record"
        <4>1. peer' = peer /\ main' \in Saves
          BY <3>3 DEF SaveStep, Saves
        <4>. QED
          BY <2>4, <4>1 DEF Saves
      <3>. QED
        BY <3>1, <3>2, <3>3
    <2>5. \A p \in Process : Waited /\ (p < peer \/ p = peer \/ Outbox(p) # <<>>) => Held(p) = {}
      BY <1>1 DEF DInv, SavedInv
    <2>6. ASSUME NEW p \in Process, Waited',
                 \/ p < peer' \/ (p = peer' /\ main' \in Saves)
                 \/ main' \in {"configure", "shutdown", "join", "exited"} \/ Outbox(p)' # <<>>
          PROVE  Held(p)' = {}
      BY <2>2, <2>3, <2>4, <2>5, <2>6
    <2>. QED
      BY <2>6 DEF SavedInv
  <1>9. NodeInv'
    <2>1. \A m \in Node : m < file_store => m # file_store
      BY <1>2, MPISets
    <2>. QED
      BY <1>1, <2>1 DEF DInv, NodeInv
  <1>. QED
    BY <1>5, <1>6, <1>7, <1>8, <1>9 DEF DInv

LEMMA CreateStoreData ==
    ASSUME IInv, DInv, SaveStep, UNCHANGED <<worker_record, worker_store, worker, crashes>>,
           main = "create_store"
    PROVE  DInv' /\ \A n \in Node : Recorded(n)' = Recorded(n)
  <1>. DEFINE old == files[file_store]
              new == files'[file_store]
              c == Len(old) + 1
  <1>1. /\ main' = "write_store" /\ CreateStoreFile
        /\ UNCHANGED <<file_store, saving, block>>
    BY DEF SaveStep, position, CreateStoreFile
  <1>2. /\ main \in Saves /\ file_store \in Node /\ Listed = Recorded(file_store) /\ SavingIsNew
    BY SaveInUse DEF Saves
  <1>3. files \in [Node -> Seq(FilePair)]
    BY StoreTypes
  <1>4. /\ \A n \in Node : n # file_store => files'[n] = files[n]
        /\ DOMAIN new = 1 .. c /\ Len(new) = c /\ c \in Nat
        /\ DOMAIN old = 1 .. c - 1
        /\ \A i \in 1 .. c : i # c => i \in DOMAIN old /\ new[i] = old[i]
        /\ new[c].record = {} /\ new[c].store = NoCounts
        /\ \A n \in Node : Recorded(n)' = Recorded(n)
    BY <1>1, <1>2, <1>3, PairAdded
  <1>. HIDE DEF c
  <1>5. FilesInv'
    BY <1>1, <1>2, <1>3, PairAddedFilesInv DEF DInv
  <1>6. SavingInv'
    BY <1>1, <1>2 DEF DInv, SavingInv, Saves
  <1>7. CurrentInv'
    BY <1>1, <1>4 DEF CurrentInv, Current
  <1>8. PairsInv'
    <2>. SUFFICES ASSUME crashes' = 0, NEW n \in Node, NEW i \in DOMAIN files'[n], files'[n][i].witness,
                         ~ InHand(n, i)'
                  PROVE  Complete(n, files'[n][i]) \/ files'[n][i].failed
      BY DEF PairsInv, Complete
    <2>1. crashes = 0 /\ \A j : ~ InHand(n, j)
      BY DEF InHand
    <2>2. CASE n # file_store
      BY <1>4, <2>1, <2>2 DEF DInv, PairsInv
    <2>3. CASE n = file_store
      <3>1. i # c
        BY <1>1, <1>4, <2>3 DEF InHand, Saves, Current
      <3>2. i \in DOMAIN old /\ files'[n][i] = files[n][i]
        BY <1>4, <2>3, <3>1
      <3>. QED
        BY <2>1, <2>3, <3>2 DEF DInv, PairsInv
    <2>. QED
      BY <2>2, <2>3
  <1>9. /\ Recorded(file_store)' = Recorded(file_store)
    BY <1>1, <1>2, <1>4 DEF Recorded
  <1>10. Recorded(file_store) \cap saving.record = {}
    BY <1>2 DEF SavingIsNew
  <1>. QED
    BY <1>1, <1>4, <1>5, <1>6, <1>7, <1>8, <1>9, <1>10, SaveFrame

\* The pair in hand is replaced, and the others stay complete.
LEMMA PairInHand ==
    ASSUME IInv, DInv, main \in Saves \ {"create_store"}, NEW p \in FilePair, LastBecomes(p),
           UNCHANGED <<file_store, crashes>>,
           p.record \subseteq saving.record,
           p.store = files[file_store][Current].store \/ p.store = saving.store,
           \A b \in p.record : p.store[file_store][b] = 1 \/ p.failed,
           main' \in Saves \ {"create_store"} \/ Complete(file_store, p) \/ p.failed
    PROVE  /\ FilesInv' /\ PairsInv'
           /\ \A n \in Node :
                Recorded(n)' = IF n = file_store THEN Recorded(n) \cup p.record ELSE Recorded(n)
           /\ files'[file_store][Current'] = p
  <1>. DEFINE old == files[file_store]
              new == files'[file_store]
              c == Len(old)
  <1>1. /\ PairInUse /\ SavingIsNew /\ file_store \in Node
        /\ files[file_store][Current].record = {}
    BY SaveInUse
  <1>2. /\ \A n \in Node : n # file_store => files'[n] = files[n]
        /\ DOMAIN new = DOMAIN old /\ Len(new) = c
        /\ \A i \in DOMAIN old : i # c => new[i] = old[i]
        /\ new[c] = p
        /\ \A n \in Node :
             Recorded(n)' = IF n = file_store THEN Recorded(n) \cup p.record ELSE Recorded(n)
    BY <1>1, PairReplaced
  <1>3. FilesInv'
    BY <1>1, PairReplacedFilesInv DEF DInv
  <1>4. PairsInv'
    <2>. SUFFICES ASSUME crashes' = 0, NEW n \in Node, NEW i \in DOMAIN files'[n], files'[n][i].witness,
                         ~ InHand(n, i)'
                  PROVE  Complete(n, files'[n][i]) \/ files'[n][i].failed
      BY DEF PairsInv, Complete
    <2>1. CASE n = file_store /\ i = c
      <3>1. main' \notin Saves \ {"create_store"}
        BY <1>2, <2>1 DEF InHand, Current
      <3>. QED
        BY <1>2, <2>1, <3>1
    <2>2. CASE ~ (n = file_store /\ i = c)
      <3>1. i \in DOMAIN files[n] /\ files'[n][i] = files[n][i]
        BY <1>2, <2>2
      <3>2. ~ InHand(n, i)
        BY <2>2 DEF InHand, Current
      <3>. QED
        BY <3>1, <3>2 DEF DInv, PairsInv
    <2>. QED
      BY <2>1, <2>2
  <1>. QED
    BY <1>2, <1>3, <1>4 DEF Current

LEMMA WriteStoreData ==
    ASSUME IInv, DInv, SaveStep, UNCHANGED <<worker_record, worker_store, worker, crashes>>,
           main = "write_store"
    PROVE  DInv' /\ \A n \in Node : Recorded(n)' = Recorded(n)
  <1>1. /\ WriteStoreFile \/ FailStoreFile
        /\ main' = "create_record"
        /\ UNCHANGED <<file_store, saving, block>> /\ main \in Saves \ {"create_store"}
    BY DEF SaveStep, position, WriteStoreFile, FailStoreFile, Saves
  <1>2. /\ PairInUse /\ SavingIsNew /\ file_store \in Node /\ saving \in Saving
        /\ files[file_store][Current].record = {} /\ files[file_store][Current] \in FilePair
    BY <1>1, SaveInUse
  <1>3. \E p \in FilePair : /\ LastBecomes(p) /\ p.record = {}
                            /\ \/ p.store = saving.store
                               \/ p.store = files[file_store][Current].store /\ p.failed
    <2>1. CASE WriteStoreFile
      <3>1. PICK p : p = [files[file_store][Current] EXCEPT !.store = saving.store]
        OBVIOUS
      <3>2. p \in FilePair /\ LastBecomes(p)
        BY <1>2, <2>1, <3>1, LastPairSteps
      <3>3. p.record = {} /\ p.store = saving.store
        BY <1>2, <3>1 DEF FilePair
      <3>. QED
        BY <3>2, <3>3
    <2>2. CASE FailStoreFile
      <3>1. PICK p : p = [files[file_store][Current] EXCEPT !.failed = TRUE]
        OBVIOUS
      <3>2. p \in FilePair /\ LastBecomes(p)
        BY <1>2, <2>2, <3>1, LastPairSteps
      <3>3. p.record = {} /\ p.store = files[file_store][Current].store /\ p.failed
        BY <1>2, <3>1 DEF FilePair
      <3>. QED
        BY <3>2, <3>3
    <2>. QED
      BY <1>1, <2>1, <2>2
  <1>4. PICK p \in FilePair : /\ LastBecomes(p) /\ p.record = {}
                             /\ \/ p.store = saving.store
                                \/ p.store = files[file_store][Current].store /\ p.failed
    BY <1>3
  <1>5. /\ p.record = {} /\ p.record \subseteq saving.record
        /\ p.store = saving.store \/ p.failed
        /\ p.store = files[file_store][Current].store \/ p.store = saving.store
        /\ \A b \in p.record : p.store[file_store][b] = 1 \/ p.failed
    BY <1>4
  <1>6. main' \in Saves \ {"create_store"}
    BY <1>1 DEF Saves
  <1>7. /\ FilesInv' /\ PairsInv'
        /\ \A n \in Node : Recorded(n)' = Recorded(n)
        /\ files'[file_store][Current'] = p
    <2>1. \A n \in Node : (IF n = file_store THEN Recorded(n) \cup p.record ELSE Recorded(n))
                          = Recorded(n)
      BY <1>5
    <2>. QED
      BY <1>1, <1>4, <1>5, <1>6, <2>1, PairInHand
  <1>8. SavingInv'
    BY <1>1, <1>6 DEF DInv, SavingInv
  <1>9. CurrentInv'
    BY <1>1, <1>5, <1>7 DEF CurrentInv
  <1>10. Recorded(file_store)' = Recorded(file_store) /\ Recorded(file_store) \cap saving.record = {}
    BY <1>1, <1>2, <1>7 DEF Recorded, SavingIsNew
  <1>. QED
    BY <1>1, <1>7, <1>8, <1>9, <1>10, SaveFrame

LEMMA CreateRecordData ==
    ASSUME IInv, DInv, SaveStep, UNCHANGED <<worker_record, worker_store, worker, crashes>>,
           main = "create_record"
    PROVE  DInv' /\ \A n \in Node : Recorded(n)' = Recorded(n)
  <1>1. /\ main' = "write_record" /\ CreateRecordFile
        /\ UNCHANGED <<file_store, saving, block>> /\ main \in Saves \ {"create_store"}
    BY DEF SaveStep, position, CreateRecordFile, Saves
  <1>2. /\ PairInUse /\ SavingIsNew /\ file_store \in Node
        /\ files[file_store][Current].record = {} /\ files[file_store][Current] \in FilePair
    BY <1>1, SaveInUse
  <1>3. PICK p : p = [files[file_store][Current] EXCEPT !.witness = TRUE]
    OBVIOUS
  <1>4. p \in FilePair /\ LastBecomes(p)
    BY <1>1, <1>2, <1>3, LastPairSteps
  <1>5. /\ p.record = {} /\ p.store = files[file_store][Current].store
        /\ p.failed = files[file_store][Current].failed
    BY <1>2, <1>3 DEF FilePair
  <1>6. main' \in Saves \ {"create_store"} /\ main # "write_store"
    BY <1>1 DEF Saves
  <1>7. /\ FilesInv' /\ PairsInv'
        /\ \A n \in Node : Recorded(n)' = Recorded(n)
        /\ files'[file_store][Current'] = p
    BY <1>1, <1>4, <1>5, <1>6, PairInHand
  <1>8. SavingInv'
    BY <1>1, <1>6 DEF DInv, SavingInv
  <1>9. CurrentInv'
    <2>1. p.store = saving.store \/ p.failed
      BY <1>1, <1>5 DEF DInv, CurrentInv
    <2>. QED
      BY <1>1, <1>5, <1>7, <2>1 DEF CurrentInv
  <1>10. Recorded(file_store)' = Recorded(file_store) /\ Recorded(file_store) \cap saving.record = {}
    BY <1>1, <1>2, <1>7 DEF Recorded, SavingIsNew
  <1>. QED
    BY <1>1, <1>7, <1>8, <1>9, <1>10, SaveFrame

\* A record of blocks of the save under way: what WriteRecordFile writes, and what a
\* crash during it leaves.
LEMMA RecordWritten ==
    ASSUME IInv, DInv, main = "write_record", NEW part \in SUBSET saving.record,
           files' = [files EXCEPT ![file_store][Current].record = part]
    PROVE  /\ FilesInv'
           /\ \A n \in Node :
                Recorded(n)' = IF n = file_store THEN Recorded(n) \cup part ELSE Recorded(n)
           /\ \E p \in FilePair :
                /\ LastBecomes(p) /\ p.record = part
                /\ p.store = files[file_store][Current].store
                /\ p.store = saving.store \/ p.failed
                /\ \A b \in part : p.store[file_store][b] = 1 \/ p.failed
  <1>1. main \in Saves \ {"create_store"}
    BY DEF Saves
  <1>2. /\ PairInUse /\ SavingIsNew /\ file_store \in Node
        /\ files[file_store][Current].record = {} /\ files[file_store][Current] \in FilePair
    BY <1>1, SaveInUse
  <1>3. PICK p : p = [files[file_store][Current] EXCEPT !.record = part]
    OBVIOUS
  <1>4. p \in FilePair /\ LastBecomes(p)
    BY <1>2, <1>3, LastPairSteps
  <1>5. \/ files[file_store][Current].store = saving.store
        \/ files[file_store][Current].failed
    BY <1>1 DEF DInv, CurrentInv
  <1>6. /\ p.record = part /\ p.store = files[file_store][Current].store
        /\ p.store = saving.store \/ p.failed
    BY <1>2, <1>3, <1>5 DEF FilePair
  <1>7. \A b \in part : p.store[file_store][b] = 1 \/ p.failed
    <2>1. saving.store = Once(file_store, saving.record) /\ saving.record \subseteq Block
      BY <1>2, StoreTypes DEF SavingIsNew
    <2>. QED
      BY <1>2, <1>6, <2>1 DEF Once
  <1>8. FilesInv'
    BY <1>2, <1>4, <1>6, <1>7, PairReplacedFilesInv DEF DInv
  <1>9. \A n \in Node :
          Recorded(n)' = IF n = file_store THEN Recorded(n) \cup p.record ELSE Recorded(n)
    BY <1>2, <1>4, PairReplaced
  <1>. QED
    BY <1>4, <1>6, <1>7, <1>8, <1>9

\* The blocks of the save are listed.
LEMMA WriteRecordData ==
    ASSUME IInv, DInv, SaveStep, UNCHANGED <<worker_record, worker_store, worker, crashes>>,
           main = "write_record"
    PROVE  DInv'
  <1>1. /\ files' = [files EXCEPT ![file_store][Current].record = saving.record]
        /\ saving' = NothingToSave
        /\ main' \in {"save", "configure", "contains", "shutdown"}
        /\ UNCHANGED <<file_store, block>> /\ main \in Saves \ {"create_store"}
    BY DEF SaveStep, position, WriteRecordFile, NextPeer, AfterSave, Saves, IInv, MPITypeOK
  <1>2. PICK p \in FilePair :
          /\ LastBecomes(p) /\ p.record = saving.record
          /\ p.store = files[file_store][Current].store
          /\ p.store = saving.store \/ p.failed
          /\ \A b \in saving.record : p.store[file_store][b] = 1 \/ p.failed
    BY <1>1, RecordWritten
  <1>3. SavingIsNew /\ file_store \in Node
    BY <1>1, SaveInUse
  <1>4. Complete(file_store, p) \/ p.failed
    BY <1>2, <1>3 DEF Complete, SavingIsNew
  <1>5. /\ FilesInv' /\ PairsInv'
        /\ \A n \in Node :
             Recorded(n)' = IF n = file_store THEN Recorded(n) \cup saving.record ELSE Recorded(n)
    BY <1>1, <1>2, <1>4, PairInHand
  <1>6. Recorded(file_store)' = Recorded(file_store) \cup saving.record
    BY <1>1, <1>3, <1>5 DEF Recorded
  <1>7. saving'.record = {} /\ saving'.store = NoCounts
    BY <1>1, NothingToSaveType
  <1>8. SavingInv'
    BY <1>1, <1>7, OnceEmpty DEF SavingInv
  <1>9. CurrentInv'
    BY <1>1 DEF CurrentInv, Saves
  <1>. QED
    BY <1>5, <1>6, <1>7, <1>8, <1>9, SaveFrame

LEMMA SaveStepData ==
    ASSUME IInv, DInv, SaveStep, UNCHANGED <<worker_record, worker_store, worker, crashes>>
    PROVE  DInv'
  <1>1. main \in Saves
    BY DEF SaveStep, Saves
  <1>. QED
    BY <1>1, CreateStoreData, WriteStoreData, CreateRecordData, WriteRecordData DEF Saves

-----------------------------------------------------------------------------
(* The master: a new node, and assigning a block                           *)

\* Nothing is left anywhere when the blocks of a node were waited for and saved.
LEMMA AtRest ==
    ASSUME IInv, DInv, main \in {"configure", "shutdown", "join", "exited"}
    PROVE  /\ \A p \in Process : /\ Coming(p) = {} /\ Held(p) = {} /\ HeldStore(p) = NoCounts
                                 /\ Outbox(p) = <<>> /\ Told(p) = NothingToSave /\ At(p) = {}
                                 /\ pool[p].busy = {} /\ SentBlocks(Inbox(p)) = {}
           /\ saving = NothingToSave
           /\ file_store # NoNode => Recorded(file_store) = Block
  <1>1. Waited /\ main \notin Asking /\ main \notin Saves /\ ~ Assigning
    BY DEF Waited, Assigning, Asking, Saves
  <1>2. ASSUME NEW p \in Process
        PROVE  /\ Coming(p) = {} /\ Held(p) = {} /\ HeldStore(p) = NoCounts
               /\ Outbox(p) = <<>> /\ Told(p) = NothingToSave /\ At(p) = {}
               /\ pool[p].busy = {} /\ SentBlocks(Inbox(p)) = {}
    <2>1. assigned_blocks[p] = {}
      BY <1>1 DEF IInv, ControlInv
    <2>2. Coming(p) = {} /\ SentBlocks(Inbox(p)) = {}
      BY <2>1, PieceTypes DEF Coming
    <2>3. pool[p].busy = {}
      <3>1. BlocksOf(pool[p].busy) = {}
        BY <2>1 DEF IInv, AgreeInv, AgreeAt, Agree, Split
      <3>. QED
        BY <3>1 DEF BlocksOf
    <2>4. Held(p) = {}
      BY <1>1 DEF DInv, SavedInv
    <2>5. HeldStore(p) = NoCounts
      BY <2>4, OnceEmpty DEF DInv, PieceInv, PieceAt
    <2>6. Outbox(p) = <<>>
      <3>1. \A w \in Worker : outbox[w] = <<>>
        BY <1>1, WaitedNothing
      <3>. QED
        BY <3>1, MPISets DEF Outbox
    <2>7. Told(p) = NothingToSave
      BY <2>6 DEF Told, StoresIn
    <2>8. At(p) = {}
      BY <2>2, <2>4, <2>7, NothingToSaveType DEF At
    <2>. QED
      BY <2>2, <2>3, <2>4, <2>5, <2>6, <2>7, <2>8
  <1>3. saving = NothingToSave /\ saving.record = {}
    BY <1>1, NothingToSaveType DEF DInv, SavingInv
  <1>4. ASSUME file_store # NoNode PROVE Recorded(file_store) = Block
    <2>1. block = NbBlocks + 1 /\ file_store \in Node
      BY <1>1, <1>4, StoreTypes DEF IInv, ControlInv
    <2>2. \A b \in Block : b < block
      BY <2>1, MPISets
    <2>3. \A b \in Block : b \in Listed
      BY <1>2, <1>3, <1>4, <2>2 DEF DInv, CoverInv
    <2>. QED
      BY <1>4, <2>1, <2>3, StoreTypes DEF Listed
  <1>. QED
    BY <1>2, <1>3, <1>4

LEMMA ConfigureData ==
    ASSUME IInv, DInv, Configure, UNCHANGED <<worker_record, worker_store, worker, crashes>>
    PROVE  DInv'
  <1>. DEFINE m == [tag |-> "update_config", node |-> node]
  <1>1. /\ main = "configure" /\ main' = "iterate" /\ block' = 1
        /\ file_store' = node /\ initial_record' = Recorded(node)
        /\ pool' = [pool EXCEPT ![Master].tables = node]
        /\ inbox' = [w \in Worker |-> Append(inbox[w], m)]
        /\ UNCHANGED <<within, node, static_record, static_store, files, saving, outbox>>
    BY DEF Configure, OpenFileStore, SendAll
  <1>2. node \in Node /\ node # NoNode /\ Node \subseteq Nat
    BY <1>1, MPISets DEF IInv, ControlInv
  <1>3. /\ \A p \in Process : /\ Coming(p) = {} /\ Held(p) = {} /\ HeldStore(p) = NoCounts
                              /\ Outbox(p) = <<>> /\ Told(p) = NothingToSave
                              /\ SentBlocks(Inbox(p)) = {} /\ pool[p].busy = {}
        /\ saving = NothingToSave
        /\ file_store # NoNode => Recorded(file_store) = Block
    BY <1>1, AtRest
  <1>4. m \in Message /\ m.tag # "assign_block"
    BY <1>2, MadeMessages
  <1>. HIDE DEF m
  <1>5. \A n : Recorded(n)' = Recorded(n)
    BY <1>1 DEF Recorded
  <1>6. Listed' = Recorded(node)
    BY <1>1, <1>2, <1>5 DEF Listed
  <1>7. ASSUME NEW p \in Process
        PROVE  /\ Coming(p)' = {} /\ Held(p)' = {} /\ HeldStore(p)' = NoCounts
               /\ Told(p)' = NothingToSave
    <2>1. pool'[p].busy = {}
      <3>1. pool \in [Process -> Pool]
        BY MasterAgrees
      <3>2. pool[p].busy = {}
        BY <1>3
      <3>3. pool'[p].busy = pool[p].busy
        BY <1>1, <3>1 DEF Pool
      <3>. QED
        BY <3>2, <3>3
    <2>2. SentBlocks(Inbox(p)') = {}
      <3>1. CASE p = Master
        BY <1>3, <3>1 DEF Inbox
      <3>2. CASE p \in Worker
        <4>1. inbox[p] \in Seq(Message) /\ DistinctIn(inbox[p])
          BY <3>2, WorkerAgrees
        <4>2. SentBlocks(Append(inbox[p], m)) = SentBlocks(inbox[p])
          BY <1>4, <4>1, SentBlocksAppend
        <4>3. p # Master
          BY <3>2, MPISets
        <4>. QED
          BY <1>1, <1>3, <3>2, <4>2, <4>3 DEF Inbox
      <3>. QED
        BY <3>1, <3>2, MPISets
    <2>3. Unmerged({}) = {}
      BY DEF Unmerged
    <2>4. Coming(p)' = {}
      BY <2>1, <2>2, <2>3 DEF Coming
    <2>5. Held(p)' = Held(p) /\ HeldStore(p)' = HeldStore(p) /\ Told(p)' = Told(p)
      BY <1>1 DEF Held, HeldStore, Told, Outbox
    <2>. QED
      BY <1>3, <2>4, <2>5
  <1>8. ASSUME NEW p \in Process PROVE PieceAt(p)' /\ At(p)' = {}
    <2>1. At(p)' = {}
      BY <1>7, NothingToSaveType DEF At
    <2>. QED
      BY <1>7, <2>1, NothingToSaveType, OnceEmpty DEF PieceAt
  <1>9. saving'.record = {} /\ saving'.store = NoCounts /\ saving' = NothingToSave
    BY <1>1, <1>3, NothingToSaveType
  <1>10. SavingInv'
    BY <1>1, <1>9, OnceEmpty DEF SavingInv
  <1>11. PlaceInv'
    BY <1>8, <1>9 DEF PlaceInv
  <1>12. CoverInv'
    BY <1>1, MPISets DEF CoverInv
  <1>13. FreshInv'
    BY <1>1, <1>6 DEF FreshInv, FreshBlock
  <1>14. SavedInv'
    BY <1>1 DEF SavedInv, Waited, Saves
  <1>15. CurrentInv' /\ PairsInv'
    BY <1>1, RestFrame DEF Saves
  <1>16. NodeInv'
    <2>. SUFFICES ASSUME NEW n \in Node, n < node PROVE Recorded(n) = Block
      BY <1>1, <1>5 DEF NodeInv
    <2>1. file_store # NoNode /\ node = file_store + 1 /\ file_store \in Node
      <3>1. ~ Assigning
        BY <1>1 DEF Assigning, Saves
      <3>2. ~ (n < 1)
        BY MPISets
      <3>. QED
        BY <3>1, <3>2, StoreTypes DEF IInv, ControlInv
    <2>2. CASE n < file_store
      BY <2>2 DEF DInv, NodeInv
    <2>3. CASE n = file_store
      BY <1>3, <2>1, <2>3
    <2>. QED
      BY <1>2, <2>1, <2>2, <2>3
  <1>17. FilesInv'
    BY <1>1, FilesFrame
  <1>. QED
    BY <1>8, <1>10, <1>11, <1>12, <1>13, <1>14, <1>15, <1>16, <1>17 DEF DInv, PieceInv

\* The block that the iterator stands at goes to a process.
LEMMA DispatchData ==
    ASSUME IInv, IInv', DInv, Dispatch, UNCHANGED <<worker_record, worker_store, worker, crashes>>
    PROVE  DInv'
  <1>0. PICK kind : kind = IF idle_queue["opencl"] # <<>> THEN "opencl" ELSE "cpu"
    OBVIOUS
  <1>1. PICK p : p = Head(idle_queue[kind])
    OBVIOUS
  <1>. DEFINE m == [tag |-> "assign_block", kind |-> kind, block |-> block]
  <1>2. /\ main = "dispatch" /\ main' = "iterate" /\ block' = block + 1
        /\ idle_queue' = [idle_queue EXCEPT ![kind] = Tail(idle_queue[kind])]
        /\ IF p # Master
           THEN /\ inbox' = [inbox EXCEPT ![p] = Append(inbox[p], m)]
                /\ UNCHANGED <<pool, thrown>>
           ELSE /\ IF pool[Master].idle[kind] = 0
                   THEN thrown' = TRUE /\ UNCHANGED pool
                   ELSE /\ pool' = [pool EXCEPT ![Master] = PoolAssign(pool[Master], block, kind)]
                        /\ UNCHANGED thrown
                /\ UNCHANGED inbox
        /\ UNCHANGED <<store_vars, outbox, within, peer>>
    BY <1>0, <1>1 DEF Dispatch
  <1>3. UNCHANGED <<static_record, static_store, files, file_store, initial_record, saving>>
    BY <1>2 DEF store_vars
  <1>4. /\ within = "assign" /\ Assigning /\ block \in Block /\ file_store \in Node /\ file_store # NoNode
        /\ \E k \in Kind : idle_queue[k] # <<>>
    BY <1>2, MPISets DEF IInv, ControlInv, Assigning
  <1>5. kind \in Kind /\ idle_queue[kind] # <<>>
    BY <1>0, <1>4, MPISets
  <1>6. p \in Process
    BY <1>1, <1>2, <1>5, QueueTaken
  <1>7. block \in Nat /\ Block \subseteq Nat /\ Listed = Recorded(file_store) /\ Listed \subseteq Block
    BY <1>4, StoreTypes DEF Listed
  <1>8. m \in Message /\ m.tag = "assign_block" /\ m.kind = kind /\ m.block = block
    BY <1>4, <1>5, MadeMessages
  <1>. HIDE DEF m
  <1>9. /\ \A o \in Process : block \notin At(o)
        /\ block \notin saving.record /\ block \notin Listed
    <2>1. \A o \in Process : \A b \in At(o) : b < block
      BY DEF DInv, PieceInv, PieceAt
    <2>2. \A b \in saving.record : b < block
      BY DEF DInv, SavingInv
    <2>3. \A b \in Listed \ initial_record : b < block
      BY <1>4 DEF DInv, FreshInv
    <2>4. block \notin initial_record
      BY <1>2 DEF DInv, FreshInv, FreshBlock
    <2>5. ~ (block < block)
      BY <1>7
    <2>. QED
      BY <2>1, <2>2, <2>3, <2>4, <2>5
  <1>10. Coming(p)' = Coming(p) \cup {block} /\ \A o \in Process : o # p => Coming(o)' = Coming(o)
    <2>1. CASE p = Master
      <3>1. ~ thrown'
        BY DEF IInv, NoThrow
      <3>2. /\ pool[Master].idle[kind] # 0 /\ UNCHANGED inbox
            /\ pool' = [pool EXCEPT ![Master] = PoolAssign(pool[Master], block, kind)]
        BY <1>2, <2>1, <3>1
      <3>3. pool[Master] \in Pool /\ Distinct(pool[Master].busy) /\ pool \in [Process -> Pool]
        BY MasterAgrees DEF Agree
      <3>4. PICK q : q = pool[Master]
        OBVIOUS
      <3>5. Unmerged(PoolAssign(q, block, kind).busy) = Unmerged(q.busy) \cup {block}
        BY <1>4, <1>5, <3>2, <3>3, <3>4, UnmergedAssign
      <3>6. pool'[p] = PoolAssign(q, block, kind) /\ \A o \in Process : o # p => pool'[o] = pool[o]
        BY <2>1, <3>2, <3>3, <3>4, MPISets
      <3>7. \A o : Inbox(o)' = Inbox(o)
        BY <3>2 DEF Inbox
      <3>. QED
        BY <2>1, <3>4, <3>5, <3>6, <3>7 DEF Coming
    <2>2. CASE p # Master
      <3>1. p \in Worker /\ inbox' = [inbox EXCEPT ![p] = Append(inbox[p], m)] /\ UNCHANGED pool
        BY <1>2, <1>6, <2>2, MPISets
      <3>2. inbox[p] \in Seq(Message) /\ DistinctIn(inbox[p]) /\ inbox \in [Worker -> Seq(Message)]
        BY <3>1, WorkerAgrees
      <3>3. \A k \in Kind : block \notin SentIn(inbox[p], k)
        <4>1. block \notin SentBlocks(inbox[p])
          BY <1>6, <1>9, <2>2 DEF At, Coming, Inbox
        <4>. QED
          BY <4>1, MPISets DEF SentBlocks
      <3>4. \A k \in Kind : SentIn(Append(inbox[p], m), k) =
                              IF kind = k THEN SentIn(inbox[p], k) \cup {block} ELSE SentIn(inbox[p], k)
        <4>1. \A k \in Kind : SentIn(Append(inbox[p], m), k) =
                                IF m.tag = "assign_block" /\ m.kind = k
                                THEN SentIn(inbox[p], k) \cup {m.block} ELSE SentIn(inbox[p], k)
          BY <1>8, <3>2, <3>3, SentInAppend
        <4>. QED
          BY <1>8, <4>1
      <3>5. SentBlocks(Append(inbox[p], m)) = SentBlocks(inbox[p]) \cup {block}
        BY <1>5, <3>4, MPISets DEF SentBlocks
      <3>6. Inbox(p) = inbox[p] /\ Inbox(p)' = Append(inbox[p], m)
        BY <2>2, <3>1, <3>2 DEF Inbox
      <3>7. \A o \in Process : o # p => Inbox(o)' = Inbox(o)
        BY <3>1, <3>2, MPISets DEF Inbox
      <3>. QED
        BY <3>1, <3>5, <3>6, <3>7 DEF Coming
    <2>. QED
      BY <2>1, <2>2
  <1>11. \A o \in Process : Held(o)' = Held(o) /\ HeldStore(o)' = HeldStore(o) /\ Told(o)' = Told(o)
    BY <1>2, <1>3 DEF Held, HeldStore, Told, Outbox
  <1>12. At(p)' = At(p) \cup {block} /\ \A o \in Process : o # p => At(o)' = At(o)
    BY <1>6, <1>10, <1>11 DEF At
  <1>13. PieceInv'
    <2>1. PieceAt(p)'
      <3>1. PieceAt(p) /\ block \notin At(p) /\ At(p) \subseteq Nat
        BY <1>6, <1>7, <1>9, PieceTypes DEF DInv, PieceInv
      <3>2. block \notin Held(p) /\ block \notin Told(p).record
        BY <3>1 DEF At
      <3>3. Held(p)' = Held(p) /\ HeldStore(p)' = HeldStore(p) /\ Told(p)' = Told(p)
        BY <1>6, <1>11
      <3>4. \A b \in At(p)' : b < block'
        BY <1>2, <1>7, <1>12, <3>1 DEF PieceAt
      <3>. QED
        BY <1>3, <1>4, <1>10, <3>1, <3>2, <3>3, <3>4 DEF PieceAt
    <2>2. ASSUME NEW o \in Process, o # p PROVE PieceAt(o)'
      <3>1. At(o) \subseteq Nat
        BY <1>7, PieceTypes
      <3>2. block' \in Nat /\ block' >= block
        BY <1>2, <1>7
      <3>3. Same(o)
        BY <1>10, <1>11, <2>2 DEF Same
      <3>. QED
        BY <1>3, <1>7, <3>1, <3>2, <3>3, PieceFrame DEF DInv
    <2>. QED
      BY <2>1, <2>2 DEF PieceInv
  <1>14. FilesInv' /\ Listed' = Listed /\ NodeInv'
    BY <1>3, FilesFrame
  <1>15. SavingInv'
    <2>1. \A b \in saving.record : b \in Nat /\ b < block
      BY <1>7, StoreTypes DEF DInv, SavingInv
    <2>2. \A b \in saving.record : b < block'
      BY <1>2, <1>7, <2>1
    <2>3. main \notin Saves
      BY <1>2 DEF Saves
    <2>. QED
      BY <1>2, <1>3, <2>2, <2>3 DEF DInv, SavingInv
  <1>16. PlaceInv'
    <2>1. ASSUME NEW q \in Process
          PROVE  /\ \A o \in Process \ {q} : At(q)' \cap At(o)' = {}
                 /\ At(q)' \cap (saving.record \cup Listed) = {}
      <3>1. /\ \A o \in Process \ {q} : At(q) \cap At(o) = {}
            /\ At(q) \cap (saving.record \cup Listed) = {}
        BY DEF DInv, PlaceInv
      <3>2. CASE q = p
        BY <1>9, <1>12, <3>1, <3>2
      <3>3. CASE q # p
        BY <1>9, <1>12, <3>1, <3>3
      <3>. QED
        BY <3>2, <3>3
    <2>. QED
      BY <1>3, <1>14, <2>1 DEF DInv, PlaceInv
  <1>17. CoverInv'
    <2>1. \A b \in Block : b < block' => b < block \/ b = block
      <3>1. block' = block + 1 /\ \A b \in Block : b \in Nat
        BY <1>2, <1>7
      <3>. QED
        BY <1>7, <3>1
    <2>2. \A o \in Process : At(o) \subseteq At(o)'
      BY <1>12
    <2>3. block \in At(p)'
      BY <1>12
    <2>. QED
      BY <1>3, <1>4, <1>6, <1>14, <2>1, <2>2, <2>3 DEF DInv, CoverInv
  <1>18. FreshInv'
    <2>1. \A b \in Listed \ initial_record : b < block'
      BY <1>2, <1>4, <1>7 DEF DInv, FreshInv
    <2>. QED
      BY <1>2, <1>3, <1>14, <2>1 DEF DInv, FreshInv, FreshBlock
  <1>19. SavedInv'
    BY <1>2 DEF SavedInv, Waited, Saves
  <1>20. CurrentInv' /\ PairsInv'
    BY <1>2, <1>3, RestFrame DEF Saves
  <1>. QED
    BY <1>13, <1>14, <1>15, <1>16, <1>17, <1>18, <1>19, <1>20 DEF DInv

LEMMA MainDInv == ASSUME IInv, IInv', DInv, MainStep PROVE DInv'
  <1>1. UNCHANGED <<worker_record, worker_store, worker, crashes>>
    BY DEF MainStep
  <1>. QED
    BY <1>1, LookData, AskData, FlushFinishedData, FillIdleQueuesData, SaveGlobalStoresData,
       SaveStepData, ConfigureData, DispatchData, ShutdownData, JoinData DEF MainStep

-----------------------------------------------------------------------------
(* Crashes, and the invariant                                              *)

\* At the start of a job nothing is anywhere but in the files.
LEMMA RestartedDInv ==
    Restarted /\ FilesInv /\ (crashes # 0 \/ \A n \in Node : DOMAIN files[n] = {}) => DInv
  <1>. SUFFICES ASSUME Restarted, FilesInv, crashes # 0 \/ \A n \in Node : DOMAIN files[n] = {}
                PROVE  DInv
    OBVIOUS
  <1>1. /\ static_record = {} /\ static_store = NoCounts /\ file_store = NoNode
        /\ saving = NothingToSave /\ initial_record = {}
        /\ main = "options" /\ within = "update_config"
    BY DEF Restarted, StoreMemoryInit, JobInit
  <1>2. saving.record = {} /\ saving.store = NoCounts
    BY <1>1, NothingToSaveType
  <1>3. Listed = {}
    BY <1>1 DEF Listed
  <1>4. ASSUME NEW p \in Process
        PROVE  /\ Coming(p) = {} /\ Held(p) = {} /\ HeldStore(p) = NoCounts
               /\ Told(p) = NothingToSave /\ At(p) = {}
    <2>1. pool[p].busy = {}
      BY DEF Restarted, JobInit, Sparked
    <2>2. Inbox(p) = <<>> /\ Outbox(p) = <<>>
      BY MPISets DEF Restarted, JobInit, Inbox, Outbox
    <2>3. Coming(p) = {}
      <3>1. SentBlocks(<<>>) = {}
        BY SentInEmpty DEF SentBlocks
      <3>. QED
        BY <2>1, <2>2, <3>1 DEF Coming, Unmerged
    <2>4. Held(p) = {} /\ HeldStore(p) = NoCounts
      BY <1>1, MPISets DEF Restarted, JobInit, Held, HeldStore
    <2>5. Told(p) = NothingToSave
      BY <2>2 DEF Told, StoresIn
    <2>. QED
      BY <2>3, <2>4, <2>5, NothingToSaveType DEF At
  <1>5. PieceInv
    <2>. SUFFICES ASSUME NEW p \in Process PROVE PieceAt(p)
      BY DEF PieceInv
    <2>. QED
      BY <1>4, OnceEmpty, NothingToSaveType DEF PieceAt
  <1>6. SavingInv
    BY <1>1, <1>2, OnceEmpty DEF SavingInv
  <1>7. PlaceInv
    BY <1>2, <1>4 DEF PlaceInv
  <1>8. CoverInv /\ FreshInv /\ SavedInv /\ CurrentInv
    BY <1>1 DEF CoverInv, FreshInv, FreshBlock, SavedInv, Waited, CurrentInv, Saves
  <1>9. PairsInv
    BY DEF PairsInv
  <1>10. NodeInv
    <2>1. \A m \in Node : ~ (m < NoNode)
      BY MPISets DEF NoNode
    <2>. QED
      BY <1>1, <2>1 DEF NodeInv
  <1>. QED
    BY <1>5, <1>6, <1>7, <1>8, <1>9, <1>10 DEF DInv

LEMMA InitDInv == Init => DInv
  <1>. SUFFICES ASSUME Init PROVE DInv
    OBVIOUS
  <1>1. files \in [Node -> Seq(FilePair)]
    BY EmptySeq DEF Init, FileStoreInit
  <1>2. \A n \in Node : DOMAIN files[n] = {}
    BY DEF Init, FileStoreInit
  <1>3. Restarted
    BY <1>1 DEF Init, FileStoreInit, Restarted
  <1>4. FilesInv
    BY <1>2 DEF FilesInv, RecordsDisjoint, RecordedIsStored, RecordedIsNotCountedAgain
  <1>. QED
    BY <1>2, <1>3, <1>4, RestartedDInv

\* Torn or not, the files keep what they promise.
LEMMA CrashFiles ==
    ASSUME IInv, DInv, Crash
    PROVE  /\ FilesInv'
           /\ \/ \A n \in Node : Recorded(n)' = Recorded(n)
              \/ /\ main = "write_record" /\ file_store \in Node
                 /\ \E part \in SUBSET saving.record : \A n \in Node :
                      Recorded(n)' = IF n = file_store THEN Recorded(n) \cup part
                                                       ELSE Recorded(n)
  <1>1. CASE main # "write_record"
    <2>1. UNCHANGED files
      BY <1>1 DEF Crash
    <2>. QED
      BY <2>1, FilesFrame
  <1>2. CASE main = "write_record"
    <2>1. PICK part \in SUBSET saving.record :
             files' = [files EXCEPT ![file_store][Current].record = part]
      BY <1>2 DEF Crash
    <2>2. file_store \in Node
      BY <1>2, SaveInUse DEF Saves
    <2>. QED
      BY <1>2, <2>1, <2>2, RecordWritten
  <1>. QED
    BY <1>1, <1>2

LEMMA CrashDInv == ASSUME IInv, IInv', DInv, Crash PROVE DInv'
  <1>1. FilesInv'
    BY CrashFiles
  <1>2. crashes' # 0
    <2>1. crashes \in Nat
      BY StoreTypes
    <2>2. crashes' = crashes + 1
      BY DEF Crash
    <2>. QED
      BY <2>1, <2>2
  <1>3. StoreMemoryInit' /\ JobInit'
    BY DEF Crash, StoreMemoryInit, JobInit
  <1>4. Restarted'
    BY <1>3 DEF Crash, Restarted, IInv, MPITypeOK, FileStoreTypeOK, NoThrow
  <1>5. (Restarted /\ FilesInv /\ (crashes # 0 \/ \A n \in Node : DOMAIN files[n] = {}) => DInv)'
    BY RestartedDInv, PTL
  <1>. QED
    BY <1>1, <1>2, <1>4, <1>5

LEMMA StutterDInv == ASSUME IInv, DInv, UNCHANGED program_vars PROVE DInv'
  <1>1. /\ UNCHANGED <<pool, inbox, outbox, worker_record, worker_store, static_record, static_store>>
        /\ UNCHANGED <<main, within, peer, saving, files, file_store, initial_record, block, crashes>>
    BY DEF program_vars, store_vars, worker_vars, position
  <1>2. block \in Nat /\ block' >= block
    BY <1>1, StoreTypes
  <1>3. ASSUME NEW p \in Process PROVE Same(p)
    BY <1>1 DEF Same, Coming, Held, HeldStore, Told, Inbox, Outbox
  <1>4. PieceInv' /\ \A p \in Process : At(p)' = At(p)
    BY <1>1, <1>2, <1>3, PiecesFrame
  <1>5. SavedInv'
    BY <1>1 DEF DInv, SavedInv, Waited, Assigning, Held, Outbox
  <1>. QED
    BY <1>1, <1>4, <1>5, MainFrame

LEMMA NextDInv == IInv /\ IInv' /\ DInv /\ [Next]_vars => DInv'
  <1>. SUFFICES ASSUME IInv, IInv', DInv, [Next]_vars PROVE DInv'
    OBVIOUS
  <1>1. CASE MainStep
    BY <1>1, MainDInv
  <1>2. ASSUME NEW w \in Worker, WorkerStep(w) PROVE DInv'
    BY <1>2, WorkerDInv
  <1>3. ASSUME NEW p \in Process, ThreadStep(p) PROVE DInv'
    BY <1>3, ThreadDInv
  <1>4. CASE Crash
    BY <1>4, CrashDInv
  <1>5. CASE UNCHANGED program_vars
    BY <1>5, StutterDInv
  <1>. QED
    BY <1>1, <1>2, <1>3, <1>4, <1>5 DEF Next, Terminating, SpuriousWakeup, vars

\* The books, the memory of all processes, the messages between them and the files
\* agree in every reachable state.
THEOREM DInvAlways == Spec => [](IInv /\ DInv)
  <1>1. Init => IInv /\ DInv
    BY InitIInv, InitDInv
  <1>2. IInv /\ DInv /\ [Next]_vars => (IInv /\ DInv)'
    BY NextIInv, NextDInv
  <1>. QED
    BY <1>1, <1>2, PTL DEF Spec

-----------------------------------------------------------------------------
(* What follows from it                                                    *)

\* No block is listed by two records of a node, whichever processes counted it in
\* whichever runs (mpi.cc 122-127 and 246-267, file_store.cc 37-57).
THEOREM NoBlockRecordedTwice == Spec => []RecordsDisjoint
  <1>1. DInv => RecordsDisjoint
    BY DEF DInv, FilesInv
  <1>. QED
    BY <1>1, DInvAlways, PTL

\* The counts of every listed block are in the store of the same id, once, from
\* whichever process they came and whatever crashed, unless writing that store had
\* an error (mpi.cc 255-265, mpi_worker.cc 84-91, file_store.cc 60-74).
THEOREM RecordsAreWitnesses == Spec => []RecordedIsStored
  <1>1. DInv => RecordedIsStored
    BY DEF DInv, FilesInv
  <1>. QED
    BY <1>1, DInvAlways, PTL

\* No store that is written after a record has listed a block has counts of it,
\* from whichever process that store came (mpi.cc 122-127 and 246-267).
THEOREM NotCountedAgain == Spec => []RecordedIsNotCountedAgain
  <1>1. DInv => RecordedIsNotCountedAgain
    BY DEF DInv, FilesInv
  <1>. QED
    BY <1>1, DInvAlways, PTL

\* Until a crash, every store that has a record, and that was written without an
\* error, holds the counts of exactly the blocks of that record, each once, though
\* threads of all processes go on merging while the stores are fetched one after the
\* other (mpi.cc 255-265).
THEOREM PairsCompleteUntilCrash == Spec => [](crashes = 0 => WitnessedPairsComplete)
  <1>1. ASSUME DInv, crashes = 0 PROVE WitnessedPairsComplete
    <2>1. \A n, i : InHand(n, i) => BeingWritten(n, i)
      BY DEF InHand, BeingWritten
    <2>. QED
      BY <1>1, <2>1 DEF DInv, PairsInv, WitnessedPairsComplete
  <1>2. DInv => (crashes = 0 => WitnessedPairsComplete)
    BY <1>1
  <1>. QED
    BY <1>2, DInvAlways, PTL

\* When the master has ended, the records of every node that it accepted list all
\* blocks, whatever crashed before (mpi.cc 144-160 and 69-79).
THEOREM CompleteAtExit == Spec => []AllRecordedAtExit
  <1>1. ASSUME IInv, DInv, main = "exited", NEW n \in Reached
        PROVE  Recorded(n) = Block
    <2>1. n \in Node /\ \A m \in 1 .. n : m \notin BadNode
      BY DEF Reached
    <2>2. /\ node \in 1 .. NbNodes + 1 /\ node \notin Node \ BadNode
          /\ \/ file_store = NoNode /\ node = 1
             \/ file_store # NoNode /\ node = file_store + 1
      <3>1. ~ Assigning /\ within = "destructor"
        BY <1>1 DEF IInv, ControlInv, Assigning, Saves
      <3>2. node \notin Node \ BadNode
        BY <1>1, <3>1 DEF IInv, ControlInv
      <3>3. \/ file_store = NoNode /\ node = 1
            \/ file_store # NoNode /\ node = file_store + 1
        BY <1>1, <3>1 DEF IInv, ControlInv
      <3>4. node \in 1 .. NbNodes + 1
        BY <1>1 DEF IInv, MPITypeOK
      <3>. QED
        BY <3>2, <3>3, <3>4
    <2>3. n < node
      <3>1. node <= n => node \in Node \ BadNode
        BY <2>1, <2>2, MPISets
      <3>2. n \in Nat /\ node \in Nat
        BY <2>1, <2>2, MPISets
      <3>. QED
        BY <2>2, <3>1, <3>2
    <2>4. file_store \in Node /\ file_store # NoNode /\ node = file_store + 1
      <3>1. file_store # NoNode
        BY <2>1, <2>2, <2>3, MPISets
      <3>. QED
        BY <1>1, <2>2, <3>1, StoreTypes
    <2>5. CASE n < file_store
      BY <1>1, <2>1, <2>5 DEF DInv, NodeInv
    <2>6. CASE n = file_store
      BY <1>1, <2>4, <2>6, AtRest
    <2>. QED
      BY <2>1, <2>3, <2>4, <2>5, <2>6, MPISets
  <1>2. IInv /\ DInv => AllRecordedAtExit
    BY <1>1 DEF AllRecordedAtExit
  <1>. QED
    BY <1>2, DInvAlways, PTL

\* Which steps replace the FileStore or end the master.
LEMMA LeavingSteps ==
    ASSUME IInv, DInv, Next, file_store' \notin {file_store, NoNode} \/ main' = "exited"
    PROVE  main \in {"configure", "shutdown", "join", "exited"}
  <1>1. CASE UNCHANGED <<main, file_store>>
    BY <1>1
  <1>2. CASE MainStep
    <2>1. CASE Configure \/ Shutdown \/ JoinThreads
      BY <2>1 DEF Configure, Shutdown, JoinThreads
    <2>2. CASE SaveGlobalStores
      <3>1. main' # "exited" /\ UNCHANGED file_store
        BY <2>2 DEF SaveGlobalStores, AfterSave, store_vars, FlushStaticStore, IInv, MPITypeOK
      <3>. QED
        BY <3>1
    <2>3. CASE SaveStep
      <3>1. main' # "exited" /\ UNCHANGED file_store
        BY <2>3 DEF SaveStep, NextPeer, AfterSave, CreateStoreFile, WriteStoreFile,
                    FailStoreFile, CreateRecordFile, WriteRecordFile, IInv, MPITypeOK
      <3>. QED
        BY <3>1
    <2>4. CASE FlushFinished \/ FillIdleQueues
      <3>1. main' # "exited" /\ UNCHANGED file_store
        BY <2>4 DEF FlushFinished, FillIdleQueues, NextPeer, store_vars
      <3>. QED
        BY <3>1
    <2>5. CASE \/ Reject \/ EnterBroadcast \/ NextNode \/ Ask
               \/ EndOfNode \/ EnterAssign \/ CheckContains \/ Dispatch
      <3>1. UNCHANGED file_store
        BY <2>5 DEF Reject, EnterBroadcast, NextNode, Ask, EndOfNode, EnterAssign,
                    CheckContains, Dispatch, store_vars
      <3>2. main' # "exited" \/ UNCHANGED main
        BY <2>5 DEF Reject, EnterBroadcast, NextNode, Ask, EndOfNode, EnterAssign,
                    CheckContains, Dispatch
      <3>. QED
        BY <1>1, <3>1, <3>2
    <2>. QED
      BY <1>2, <2>1, <2>2, <2>3, <2>4, <2>5 DEF MainStep
  <1>3. ASSUME NEW w \in Worker, WorkerStep(w) PROVE UNCHANGED <<main, file_store>>
    BY <1>3 DEF WorkerStep, store_vars
  <1>4. ASSUME NEW p \in Process, ThreadStep(p) PROVE UNCHANGED <<main, file_store>>
    <2>1. UNCHANGED main
      BY <1>4 DEF ThreadStep
    <2>2. Merge(p) \/ Report(p)
      BY <1>4 DEF ThreadStep
    <2>. QED
      BY <2>1, <2>2 DEF Merge, Report, FlushToStaticStore, store_vars
  <1>5. CASE Crash
    BY <1>5 DEF Crash
  <1>6. CASE Terminating
    BY <1>1, <1>6 DEF Terminating, vars, program_vars, store_vars
  <1>7. ASSUME NEW p \in Process, SpuriousWakeup(p) PROVE UNCHANGED <<main, file_store>>
    BY <1>7 DEF SpuriousWakeup, program_vars, store_vars
  <1>. QED
    BY <1>1, <1>2, <1>3, <1>4, <1>5, <1>6, <1>7 DEF Next

\* The FileStore is replaced, and the master ends, only when nothing of the node is
\* left: no thread at work anywhere, no counts in any process, no answer and no
\* block on its way (mpi.cc 69-79 and 97-112).
THEOREM NothingLeft == Spec => NothingLeftBehind
  <1>. DEFINE Leaves == file_store' \notin {file_store, NoNode} \/ main' = "exited"
              Rest == /\ static_record = {} /\ static_store = NoCounts
                      /\ saving = NothingToSave
                      /\ \A p \in Process : pool[p].busy = {}
                      /\ \A w \in Worker :
                           /\ worker_record[w] = {} /\ worker_store[w] = NoCounts
                           /\ outbox[w] = <<>>
                           /\ Sent(w, "cpu") = {} /\ Sent(w, "opencl") = {}
  <1>1. ASSUME IInv, DInv, main \in {"configure", "shutdown", "join", "exited"}
        PROVE  Rest
    <2>1. /\ \A p \in Process : /\ Held(p) = {} /\ HeldStore(p) = NoCounts /\ Outbox(p) = <<>>
                                /\ pool[p].busy = {} /\ SentBlocks(Inbox(p)) = {}
          /\ saving = NothingToSave
      BY <1>1, AtRest
    <2>2. static_record = {} /\ static_store = NoCounts
      BY <2>1, MPISets DEF Held, HeldStore
    <2>3. ASSUME NEW w \in Worker
          PROVE  /\ worker_record[w] = {} /\ worker_store[w] = NoCounts
                 /\ outbox[w] = <<>>
                 /\ Sent(w, "cpu") = {} /\ Sent(w, "opencl") = {}
      <3>1. w \in Process /\ w # Master
        BY MPISets
      <3>2. worker_record[w] = {} /\ worker_store[w] = NoCounts
        BY <2>1, <3>1 DEF Held, HeldStore
      <3>3. outbox[w] = <<>> /\ SentBlocks(Inbox(w)) = {}
        BY <2>1, <3>1 DEF Outbox
      <3>4. SentIn(Inbox(w), "cpu") = Sent(w, "cpu") /\ SentIn(Inbox(w), "opencl") = Sent(w, "opencl")
        BY SentAndAnswered
      <3>. QED
        BY <3>2, <3>3, <3>4 DEF SentBlocks
    <2>. QED
      BY <2>1, <2>2, <2>3
  <1>2. ASSUME IInv, DInv, Next, Leaves PROVE Rest
    BY <1>1, <1>2, LeavingSteps
  <1>3. IInv /\ DInv /\ [Next]_vars => [Leaves => Rest]_vars
    BY <1>2
  <1>. QED
    BY <1>3, DInvAlways, PTL DEF Spec, NothingLeftBehind

-----------------------------------------------------------------------------
(* The records implement PointCount                                        *)

\* Which step lists blocks: the end of a save, and a crash during it.
LEMMA RecordedSteps ==
    ASSUME IInv, DInv, [Next]_vars
    PROVE  \/ \A n \in Node : Recorded(n)' = Recorded(n)
           \/ /\ main = "write_record" /\ file_store \in Node
              /\ \E part \in SUBSET saving.record : \A n \in Node :
                   Recorded(n)' = IF n = file_store THEN Recorded(n) \cup part
                                                    ELSE Recorded(n)
  <1>1. CASE UNCHANGED files
    BY <1>1, FilesFrame
  <1>2. CASE MainStep
    <2>1. UNCHANGED <<worker_record, worker_store, worker, crashes>>
      BY <1>2 DEF MainStep
    <2>2. CASE SaveStep
      <3>1. CASE main = "write_record"
        <4>1. files' = [files EXCEPT ![file_store][Current].record = saving.record]
          BY <2>2, <3>1 DEF SaveStep, WriteRecordFile
        <4>2. file_store \in Node
          BY <3>1, SaveInUse DEF Saves
        <4>. QED
          BY <3>1, <4>1, <4>2, RecordWritten
      <3>2. CASE main # "write_record"
        <4>1. main \in {"create_store", "write_store", "create_record"}
          BY <2>2, <3>2 DEF SaveStep
        <4>. QED
          BY <2>1, <2>2, <4>1, CreateStoreData, WriteStoreData, CreateRecordData
      <3>. QED
        BY <3>1, <3>2
    <2>3. CASE \/ Reject \/ EnterBroadcast \/ NextNode \/ Ask \/ FlushFinished
               \/ FillIdleQueues \/ SaveGlobalStores \/ Configure \/ EndOfNode \/ EnterAssign
               \/ CheckContains \/ Dispatch \/ Shutdown \/ JoinThreads
      <3>1. UNCHANGED files
        BY <2>3 DEF Reject, EnterBroadcast, NextNode, Ask, FlushFinished, FillIdleQueues,
                    SaveGlobalStores, FlushStaticStore, Configure, OpenFileStore, EndOfNode,
                    EnterAssign, CheckContains, Dispatch, Shutdown, JoinThreads, store_vars
      <3>. QED
        BY <1>1, <3>1
    <2>. QED
      BY <1>2, <2>2, <2>3 DEF MainStep
  <1>3. CASE Crash
    BY <1>3, CrashFiles
  <1>4. ASSUME NEW w \in Worker, WorkerStep(w) PROVE UNCHANGED files
    BY <1>4 DEF WorkerStep, store_vars
  <1>5. ASSUME NEW p \in Process, ThreadStep(p) PROVE UNCHANGED files
    <2>1. Merge(p) \/ Report(p)
      BY <1>5 DEF ThreadStep
    <2>. QED
      BY <2>1 DEF Merge, Report, FlushToStaticStore, store_vars
  <1>6. CASE UNCHANGED program_vars
    BY <1>1, <1>6 DEF program_vars, store_vars
  <1>. QED
    BY <1>1, <1>2, <1>3, <1>4, <1>5, <1>6 DEF Next, Terminating, SpuriousWakeup, vars

\* A save lists blocks that were not listed, for the first node that is not
\* complete.
LEMMA NewBatch ==
    ASSUME IInv, DInv, main = "write_record", NEW part \in SUBSET saving.record
    PROVE  /\ part \in SUBSET (Block \ Recorded(file_store))
           /\ \A m \in 1 .. file_store - 1 : Recorded(m) = Block
  <1>1. file_store \in Node /\ SavingIsNew /\ saving.record \subseteq Block
    BY SaveInUse, StoreTypes DEF Saves
  <1>2. \A m \in 1 .. file_store - 1 : m \in Node /\ m < file_store
    BY <1>1, MPISets
  <1>. QED
    BY <1>1, <1>2 DEF DInv, NodeInv, SavingIsNew

\* The master and its workers implement what they promise of the records, with any
\* number of processes and threads, saves at any time, crashes and torn records
\* (mpi.cc 106-160 and 246-267, file_store.cc 37-74).
THEOREM ImplementsPointCount == Spec => Promise
  <1>. DEFINE recorded == [n \in Node |-> Recorded(n)]
  <1>. Abstract!Node = Node /\ Abstract!Block = Block
    BY DEF Abstract!Node, Abstract!Block, Node, Block
  <1>1. Init => Abstract!Init
    <2>1. Init => \A n \in Node : Recorded(n) = {}
      BY DEF Init, FileStoreInit, Recorded
    <2>. QED
      BY <2>1 DEF Abstract!Init
  <1>2. IInv /\ DInv /\ [Next]_vars => [Abstract!Next]_recorded
    <2>. SUFFICES ASSUME IInv, DInv, [Next]_vars
                  PROVE  Abstract!Next \/ recorded' = recorded
      OBVIOUS
    <2>1. CASE \A n \in Node : Recorded(n)' = Recorded(n)
      BY <2>1
    <2>2. ASSUME main = "write_record", file_store \in Node, NEW part \in SUBSET saving.record,
                 \A n \in Node : Recorded(n)' = IF n = file_store THEN Recorded(n) \cup part
                                                                  ELSE Recorded(n)
          PROVE  Abstract!Next \/ recorded' = recorded
      <3>1. CASE part = {}
        BY <2>2, <3>1
      <3>2. CASE part # {}
        <4>1. /\ part \in SUBSET (Block \ recorded[file_store])
              /\ \A m \in 1 .. file_store - 1 : recorded[m] = Block
          <5>1. \A m \in 1 .. file_store - 1 : m \in Node
            BY <2>2, MPISets
          <5>. QED
            BY <2>2, <5>1, NewBatch
        <4>2. recorded' = [recorded EXCEPT ![file_store] = @ \cup part]
          BY <2>2
        <4>3. Abstract!Record(file_store)
          BY <3>2, <4>1, <4>2 DEF Abstract!Record
        <4>. QED
          BY <2>2, <4>3 DEF Abstract!Next
      <3>. QED
        BY <3>1, <3>2
    <2>. QED
      BY <2>1, <2>2, RecordedSteps
  <1>. QED
    BY <1>1, <1>2, DInvAlways, PTL DEF Spec, Promise, Abstract!Spec
=============================================================================
