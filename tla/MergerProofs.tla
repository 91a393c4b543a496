---------------------------- MODULE MergerProofs -----------------------------
(***************************************************************************)
(* Proofs about Merger: for any blocks and packagings of them, any number  *)
(* of pairs and runs, killed at any point, beside any number of merges     *)
(* onto the same output, which may be killed as well.                      *)
(***************************************************************************)
EXTENDS Merger, FileStoreProofs

RunTypes ==
    /\ FileStoreTypeOK
    /\ main \in {"start", "count", "exited"} \cup Saves
    /\ blocks \subseteq Block
    /\ counted \subseteq Block
    /\ torn \in BOOLEAN /\ beside \in BOOLEAN

MergerTypes ==
    /\ merger \in {"start", "pairs", "store", "write_store", "create_record", "write_record"}
                    \cup Ended
    /\ input \subseteq DOMAIN files[1]
    /\ merged \in Saving
    /\ output \in [store : Counts, witness : BOOLEAN, record : SUBSET Block]
    /\ cut \in BOOLEAN

-----------------------------------------------------------------------------
(* The run                                                                 *)

\* What the run has counted is in its static store, in the save under way, or
\* listed, and nowhere twice; it counts nothing that an earlier run has listed.
MemoryInv ==
    /\ static_store = Once(1, static_record)
    /\ saving.store = Once(1, saving.record)
    /\ main \notin Saves => saving = NothingToSave
    /\ main \in {"start", "exited"} \cup Saves => static_record = {}
    /\ main # "start" =>
         /\ file_store = 1
         /\ initial_record \cup counted = static_record \cup saving.record \cup Recorded(1)
         /\ (static_record \cup saving.record) \cap Recorded(1) = {}

\* The pair that save is working on.
CurrentInv ==
    main \in Saves \ {"create_store"} =>
        /\ files[1] # <<>>
        /\ LET pr == files[1][Current]
           IN  /\ pr.record = {}
               /\ pr.witness <=> main = "write_record"
               /\ main # "write_store" => pr.store = saving.store

\* Is its record about to be written?
Pending(i) == main = "write_record" /\ i = Current

\* A pair that has a record holds what the record lists, but for the pair whose
\* record is about to be written and for those that a crash left without it.
PairInv ==
    \A i \in DOMAIN files[1] :
        LET pr == files[1][i]
        IN  /\ pr.record # {} => pr.witness /\ Complete(1, pr)
            /\ pr.witness /\ ~ torn /\ ~ Pending(i) => Complete(1, pr)

\* All curves of the node are in these blocks.
Covers(record) == UNION {Positions[b] : b \in record} = UNION {Positions[b] : b \in Block}

\* A run ends when every curve of the node is in a listed block.
ExitInv ==
    /\ main # "start" => blocks \in Packagings
    /\ main = "exited" => Covers(Recorded(1))

RunInv == RunTypes /\ MemoryInv /\ CurrentInv /\ PairInv /\ ExitInv /\ FilesInv

-----------------------------------------------------------------------------
(* The merger                                                              *)

Merging == {"pairs", "store", "write_store", "create_record", "write_record"}

\* The pairs whose store has been added, with those that had no record when the
\* folder was listed.
Added1 == DOMAIN files[1] \ (input \cup (IF merger = "store" THEN {pair} ELSE {}))

InputInv ==
    /\ merger \notin Merging => merged = NothingToSave /\ input = {}
    /\ \A i \in input : files[1][i].witness
    /\ merger = "store" => pair \in DOMAIN files[1] \ input /\ files[1][pair].witness
    /\ merger \in {"write_store", "create_record", "write_record"} => input = {}

\* What has been added comes from one of the pairs that have been read.
OnceInv ==
    ~ torn => \A b \in Block :
        /\ merged.store[1][b] <= 1
        /\ merged.store[1][b] = 1 =>
             \E i \in Added1 : files[1][i].witness /\ files[1][i].store[1][b] = 1

\* Every block listed so far is in the store, or in the pair whose store comes next.
ListedInv ==
    \A b \in merged.record :
        \/ merged.store[1][b] > 0
        \/ merger = "store" /\ files[1][pair].store[1][b] = 1

\* What an earlier merge has listed is listed by pairs that are read again, so that
\* its record is still right once the store has been written anew.
AgainInv ==
    /\ merged.record \subseteq Recorded(1) /\ output.record \subseteq Recorded(1)
    /\ merger \in {"pairs", "store"} =>
         \A b \in output.record :
             b \in merged.record \/ \E i \in input : b \in files[1][i].record
    /\ merger \in {"write_store", "create_record"} => output.record \subseteq merged.record

OutputInv ==
    /\ merger \in {"create_record", "write_record"} => output.store = merged.store
    /\ ListedIsStoredUnlessCut

\* With no run beside it, the merger reads what a run that has ended left behind.
CompleteInv ==
    /\ ~ beside /\ merger \in Merging =>
        /\ main = "exited"
        /\ merged.record = UNION {files[1][i].record : i \in DOMAIN files[1] \ input}
        /\ ~ torn => merged.store = Once(1, IF merger = "store"
                                            THEN merged.record \ files[1][pair].record
                                            ELSE merged.record)
    /\ ~ beside /\ merger = "done" =>
        /\ Covers(output.record)
        /\ ~ torn => output.store = Once(1, output.record)

MergerInv ==
    /\ MergerTypes /\ InputInv /\ OnceInv /\ ListedInv
    /\ AgainInv /\ OutputInv /\ CompleteInv

\* The inductive invariant.
IInv == RunInv /\ MergerInv

-----------------------------------------------------------------------------
(* Helpers                                                                 *)

LEMMA OneNode == Node = {1}
  <1>1. NbNodes = 1
    BY MergerAssumption
  <1>2. \A x : x \in 1 .. 1 <=> x = 1
    OBVIOUS
  <1>. QED
    BY <1>1, <1>2 DEF Node

LEMMA FilesTypes ==
    ASSUME RunTypes
    PROVE  /\ files \in [Node -> Seq(FilePair)] /\ files[1] \in Seq(FilePair)
           /\ DOMAIN files[1] = 1 .. Len(files[1]) /\ Len(files[1]) \in Nat
           /\ \A i \in DOMAIN files[1] : files[1][i] \in FilePair
           /\ Recorded(1) \subseteq Block
           /\ static_record \subseteq Block /\ initial_record \subseteq Block
           /\ saving \in Saving /\ saving.record \subseteq Block
  <1>1. files \in [Node -> Seq(FilePair)] /\ 1 \in Node
    BY OneNode DEF RunTypes, FileStoreTypeOK
  <1>. QED
    BY <1>1, LenProperties, RecordedType DEF RunTypes, FileStoreTypeOK, Saving

\* Save has a pair to work on, and what it is about to list is listed nowhere.
LEMMA SaveInUse ==
    ASSUME RunInv, main \in Saves
    PROVE  /\ file_store = 1 /\ 1 \in Node
           /\ SavingIsNew
           /\ main # "create_store" =>
                PairInUse /\ files[1][Current].record = {}
  <1>1. main # "start"
    BY DEF Saves
  <1>2. file_store = 1
    BY <1>1 DEF RunInv, MemoryInv
  <1>. QED
    BY <1>1, <1>2, OneNode, FilesTypes
    DEF RunInv, MemoryInv, CurrentInv, SavingIsNew, PairInUse

\* What a record lists or will list is in the store of its pair once; a block is
\* in the stores of two pairs that have a record only after a crash in between.
LEMMA StoresApart ==
    ASSUME RunInv, ~ torn, NEW i \in DOMAIN files[1], files[1][i].witness, NEW b \in Block
    PROVE  /\ files[1][i].store[1][b] \in {0, 1}
           /\ \A j \in DOMAIN files[1] :
                j # i /\ files[1][j].witness =>
                    ~ (files[1][i].store[1][b] = 1 /\ files[1][j].store[1][b] = 1)
  <1>. DEFINE Held(k) == IF Pending(k) THEN saving.record ELSE files[1][k].record
  <1>1. ASSUME NEW k \in DOMAIN files[1], files[1][k].witness
        PROVE  files[1][k].store = Once(1, Held(k))
    <2>1. CASE Pending(k)
      <3>1. main \in Saves \ {"create_store"} /\ main # "write_store" /\ k = Current
        BY <2>1 DEF Pending, Saves
      <3>. QED
        BY <2>1, <3>1 DEF RunInv, CurrentInv, MemoryInv
    <2>2. CASE ~ Pending(k)
      BY <1>1, <2>2 DEF RunInv, PairInv, Complete
    <2>. QED
      BY <2>1, <2>2
  <1>2. ASSUME NEW j \in DOMAIN files[1], NEW k \in DOMAIN files[1], j # k
        PROVE  Held(j) \cap Held(k) = {}
    <2>1. files[1][j].record \cap files[1][k].record = {}
      BY <1>2, OneNode DEF RunInv, FilesInv, RecordsDisjoint
    <2>2. ASSUME NEW m \in DOMAIN files[1], Pending(m)
          PROVE  \A l \in DOMAIN files[1] : saving.record \cap files[1][l].record = {}
      <3>1. main # "start"
        BY <2>2 DEF Pending
      <3>2. saving.record \cap Recorded(1) = {}
        BY <3>1 DEF RunInv, MemoryInv
      <3>. QED
        BY <3>2 DEF Recorded
    <2>3. ~ (Pending(j) /\ Pending(k))
      BY <1>2 DEF Pending
    <2>. QED
      BY <2>1, <2>2, <2>3
  <1>. HIDE DEF Held
  <1>3. ASSUME NEW k \in DOMAIN files[1], files[1][k].witness
        PROVE  files[1][k].store[1][b] = IF b \in Held(k) THEN 1 ELSE 0
    <2>1. files[1][k].store = Once(1, Held(k))
      BY <1>1, <1>3
    <2>. QED
      BY <2>1, OneNode DEF Once
  <1>4. files[1][i].store[1][b] \in {0, 1}
    BY <1>3
  <1>5. ASSUME NEW j \in DOMAIN files[1], j # i, files[1][j].witness,
               files[1][i].store[1][b] = 1, files[1][j].store[1][b] = 1
        PROVE  FALSE
    <2>1. b \in Held(i) /\ b \in Held(j)
      BY <1>3, <1>5
    <2>. QED
      BY <1>2, <1>5, <2>1
  <1>. QED
    BY <1>4, <1>5

-----------------------------------------------------------------------------
(* What each half of the invariant leaves to the other's steps             *)

LEMMA RunFrame ==
    ASSUME RunInv, UNCHANGED <<store_vars, main, blocks, counted, torn>>, beside' \in BOOLEAN
    PROVE  RunInv'
  <1>1. UNCHANGED <<static_record, static_store, files, file_store, initial_record, saving>>
    BY DEF store_vars
  <1>2. Recorded(1)' = Recorded(1) /\ Current' = Current
    BY <1>1 DEF Recorded, Current
  <1>3. RunTypes'
    BY <1>1 DEF RunInv, RunTypes, FileStoreTypeOK
  <1>4. MemoryInv' /\ CurrentInv' /\ ExitInv'
    BY <1>1, <1>2 DEF RunInv, MemoryInv, CurrentInv, ExitInv, Covers
  <1>5. PairInv'
    BY <1>1, <1>2 DEF RunInv, PairInv, Pending, Complete
  <1>. QED
    BY <1>1, <1>3, <1>4, <1>5, FilesInvFrame DEF RunInv

\* The run adds pairs, and leaves the stores that have a record alone.
Grown ==
    /\ DOMAIN files[1] \subseteq DOMAIN files'[1]
    /\ \A i \in DOMAIN files[1] : files[1][i].witness =>
            files'[1][i].witness /\ files'[1][i].store = files[1][i].store
    /\ \A i \in DOMAIN files[1] : files[1][i].record \subseteq files'[1][i].record
    /\ torn => torn'

\* It does not begin beside a merger unnoticed.
Noticed == ~ beside' => ~ beside /\ (merger \in Merging => UNCHANGED <<main, files, torn>>)

LEMMA MergerFrame ==
    ASSUME MergerInv, Grown, Noticed, UNCHANGED merger_vars
    PROVE  MergerInv'
  <1>1. UNCHANGED <<merger, input, pair, merged, output, cut>>
    BY DEF merger_vars, memory_vars
  <1>2. MergerTypes'
    BY <1>1 DEF MergerInv, MergerTypes, Grown
  <1>3. InputInv'
    BY <1>1 DEF MergerInv, MergerTypes, InputInv, Grown, Merging
  <1>4. Added1 \subseteq Added1'
    BY <1>1 DEF Added1, Grown
  <1>5. OnceInv'
    <2>. SUFFICES ASSUME ~ torn', NEW b \in Block
                  PROVE  /\ merged.store[1][b] <= 1
                         /\ merged.store[1][b] = 1 =>
                              \E i \in Added1' : files'[1][i].witness /\ files'[1][i].store[1][b] = 1
      BY <1>1 DEF OnceInv
    <2>1. ~ torn
      BY DEF Grown
    <2>2. /\ merged.store[1][b] <= 1
          /\ merged.store[1][b] = 1 =>
               \E i \in Added1 : files[1][i].witness /\ files[1][i].store[1][b] = 1
      BY <2>1 DEF MergerInv, OnceInv
    <2>3. Added1 \subseteq DOMAIN files[1]
      BY DEF Added1
    <2>. QED
      BY <1>4, <2>2, <2>3 DEF Grown
  <1>6. ListedInv'
    BY <1>1 DEF MergerInv, InputInv, ListedInv, Grown
  <1>7. OutputInv'
    BY <1>1 DEF MergerInv, OutputInv, ListedIsStoredUnlessCut
  <1>8. CompleteInv'
    <2>1. CASE beside'
      BY <2>1 DEF CompleteInv
    <2>2. CASE ~ beside' /\ merger \in Merging
      <3>1. ~ beside /\ UNCHANGED <<main, files, torn>> /\ merger # "done"
        BY <2>2 DEF Noticed, Merging
      <3>. QED
        BY <1>1, <2>2, <3>1 DEF MergerInv, CompleteInv
    <2>3. CASE ~ beside' /\ merger \notin Merging
      <3>1. ~ beside /\ (torn => torn')
        BY <2>3 DEF Noticed, Grown
      <3>. QED
        BY <1>1, <2>3, <3>1 DEF MergerInv, CompleteInv, Covers
    <2>. QED
      BY <2>1, <2>2, <2>3
  <1>9. AgainInv'
    <2>1. Recorded(1) \subseteq Recorded(1)'
      BY DEF Recorded, Grown
    <2>2. \A i \in input : files[1][i].record \subseteq files'[1][i].record
      BY DEF MergerInv, MergerTypes, Grown
    <2>. QED
      BY <1>1, <2>1, <2>2 DEF MergerInv, AgainInv
  <1>. QED
    BY <1>2, <1>3, <1>5, <1>6, <1>7, <1>8, <1>9 DEF MergerInv

-----------------------------------------------------------------------------
(* The steps of the run                                                    *)

\* While a run goes on, no merger that reads is without one beside it.
LEMMA RunIsNoticed ==
    ASSUME IInv, main # "exited", UNCHANGED beside
    PROVE  Noticed
  BY DEF IInv, MergerInv, CompleteInv, Noticed

LEMMA GrownFrame == UNCHANGED files /\ (torn => torn') => Grown
  BY DEF Grown

LEMMA CoversMore ==
    ASSUME NEW p \in Packagings, NEW record \in SUBSET Block, p \subseteq record
    PROVE  Covers(record)
  <1>1. UNION {Positions[b] : b \in p} = UNION {Positions[b] : b \in Block}
    BY MergerAssumption
  <1>. QED
    BY <1>1 DEF Covers

LEMMA StartIInv == ASSUME IInv, Start PROVE IInv'
  <1>. USE DEF Start, OpenFileStore
  <1>1. /\ main \notin Saves /\ main' = "count" /\ "count" \notin Saves
        /\ UNCHANGED <<static_record, static_store, files, saving, torn, merger_vars>>
    BY DEF Saves
  <1>2. static_record = {} /\ saving = NothingToSave /\ Recorded(1) \subseteq Block /\ 1 \in Node
    BY <1>1, FilesTypes, OneNode DEF IInv, RunInv, MemoryInv
  <1>3. saving.record = {}
    BY <1>2 DEF NothingToSave
  <1>4. Recorded(1)' = Recorded(1)
    BY <1>1 DEF Recorded
  <1>5. blocks' \in Packagings /\ blocks' \subseteq Block
    BY MergerAssumption
  <1>6. RunTypes'
    BY <1>1, <1>2, <1>5 DEF IInv, RunInv, RunTypes, FileStoreTypeOK
  <1>7. MemoryInv'
    BY <1>1, <1>2, <1>3, <1>4 DEF IInv, RunInv, MemoryInv
  <1>8. CurrentInv' /\ ExitInv'
    BY <1>1, <1>5 DEF CurrentInv, ExitInv
  <1>9. PairInv'
    BY <1>1 DEF IInv, RunInv, PairInv, Pending, Complete
  <1>10. RunInv'
    BY <1>1, <1>6, <1>7, <1>8, <1>9, FilesInvFrame DEF IInv, RunInv
  <1>11. Noticed
    BY DEF Noticed, Merging, Ended
  <1>. QED
    BY <1>1, <1>10, <1>11, GrownFrame, MergerFrame DEF IInv

LEMMA CountBlockIInv == ASSUME IInv, NEW b \in Block, CountBlock(b) PROVE IInv'
  <1>. USE DEF CountBlock, FlushToStaticStore
  <1>1. /\ main = "count" /\ main' = main /\ "count" \notin Saves
        /\ UNCHANGED <<files, file_store, initial_record, saving, blocks, torn, beside, merger_vars>>
        /\ static_record' = static_record \cup {b} /\ counted' = counted \cup {b}
    BY DEF Saves
  <1>2. /\ static_record \subseteq Block /\ 1 \in Node
        /\ b \notin static_record /\ b \notin Recorded(1)
    BY <1>1, FilesTypes, OneNode DEF IInv, RunInv, MemoryInv
  <1>3. static_store' = Once(1, static_record')
    BY <1>1, <1>2, OnceAdd DEF IInv, RunInv, MemoryInv
  <1>4. Recorded(1)' = Recorded(1)
    BY <1>1 DEF Recorded
  <1>. HIDE DEF CountBlock, FlushToStaticStore
  <1>5. RunTypes'
    <2>1. static_store' \in Counts
      BY <1>3, OnceType
    <2>. QED
      BY <1>1, <1>2, <2>1 DEF IInv, RunInv, RunTypes, FileStoreTypeOK
  <1>6. MemoryInv'
    BY <1>1, <1>2, <1>3, <1>4 DEF IInv, RunInv, MemoryInv
  <1>7. CurrentInv' /\ ExitInv'
    BY <1>1 DEF IInv, RunInv, CurrentInv, ExitInv
  <1>8. PairInv'
    BY <1>1 DEF IInv, RunInv, PairInv, Pending, Complete
  <1>9. RunInv'
    BY <1>1, <1>5, <1>6, <1>7, <1>8, FilesInvFrame DEF IInv, RunInv
  <1>. QED
    BY <1>1, <1>9, RunIsNoticed, GrownFrame, MergerFrame DEF IInv

LEMMA StartSaveIInv == ASSUME IInv, StartSave PROVE IInv'
  <1>. USE DEF StartSave, FlushStaticStore
  <1>1. /\ main = "count" /\ main' = "create_store" /\ "count" \notin Saves /\ main' \in Saves
        /\ UNCHANGED <<files, file_store, initial_record, counted, blocks, torn, beside, merger_vars>>
        /\ static_record' = {} /\ static_store' = NoCounts
        /\ saving'.record = static_record /\ saving'.store = static_store
    BY DEF Saves
  <1>2. Recorded(1)' = Recorded(1)
    BY <1>1 DEF Recorded
  <1>3. saving.record = {}
    BY <1>1 DEF IInv, RunInv, MemoryInv, NothingToSave
  <1>4. RunTypes'
    BY <1>1, OnceType, OnceEmpty DEF IInv, RunInv, RunTypes, FileStoreTypeOK, Saving
  <1>5. MemoryInv'
    BY <1>1, <1>2, <1>3, OnceEmpty DEF IInv, RunInv, MemoryInv
  <1>6. CurrentInv' /\ ExitInv'
    BY <1>1 DEF IInv, RunInv, CurrentInv, ExitInv
  <1>7. PairInv'
    BY <1>1 DEF IInv, RunInv, PairInv, Pending, Complete
  <1>8. RunInv'
    BY <1>1, <1>4, <1>5, <1>6, <1>7, FilesInvFrame DEF IInv, RunInv
  <1>. QED
    BY <1>1, <1>8, RunIsNoticed, GrownFrame, MergerFrame DEF IInv

\* A step inside save that lists nothing: what there is to show of the files.
LEMMA SaveFrame ==
    ASSUME IInv, main \in Saves, main' \in Saves \ {"create_store"},
           UNCHANGED <<static_record, static_store, file_store, initial_record, saving,
                       blocks, counted, torn, beside, merger_vars>>,
           files' \in [Node -> Seq(FilePair)], Recorded(1)' = Recorded(1),
           CurrentInv', PairInv', FilesInv', Grown
    PROVE  IInv'
  <1>1. main # "start" /\ main # "exited" /\ main' # "start" /\ main' # "exited"
    BY DEF Saves
  <1>2. RunTypes'
    BY DEF IInv, RunInv, RunTypes, FileStoreTypeOK
  <1>3. MemoryInv'
    BY <1>1 DEF IInv, RunInv, MemoryInv
  <1>4. ExitInv'
    BY <1>1 DEF IInv, RunInv, ExitInv
  <1>5. RunInv'
    BY <1>2, <1>3, <1>4 DEF RunInv
  <1>. QED
    BY <1>1, <1>5, RunIsNoticed, MergerFrame DEF IInv

LEMMA CreateStoreIInv ==
    ASSUME IInv, main = "create_store", CreateStoreFile, main' = "write_store",
           UNCHANGED <<blocks, counted, torn, beside, merger_vars>>
    PROVE  IInv'
  <1>. DEFINE old == files[1]
              new == files'[1]
  <1>1. /\ file_store = 1 /\ 1 \in Node /\ files \in [Node -> Seq(FilePair)]
        /\ FilesInv
        /\ UNCHANGED <<static_record, static_store, file_store, initial_record, saving>>
    BY SaveInUse, FilesTypes DEF IInv, RunInv, Saves, CreateStoreFile
  <1>2. /\ files' \in [Node -> Seq(FilePair)]
        /\ DOMAIN new = 1 .. Len(old) + 1 /\ Len(new) = Len(old) + 1
        /\ DOMAIN old = 1 .. Len(old) /\ Len(old) \in Nat
        /\ \A i \in DOMAIN old : new[i] = old[i]
        /\ new[Len(new)] = [store |-> NoCounts, witness |-> FALSE, record |-> {}, failed |-> FALSE]
        /\ Recorded(1)' = Recorded(1)
    BY <1>1, PairAdded
  <1>3. new # <<>>
    BY <1>2, EmptySeq
  <1>4. CurrentInv'
    BY <1>1, <1>2, <1>3 DEF CurrentInv, Current
  <1>5. \A i \in DOMAIN new : i \in DOMAIN old \/ i = Len(new)
    BY <1>2
  <1>6. PairInv'
    BY <1>2, <1>5 DEF IInv, RunInv, PairInv, Pending, Complete
  <1>7. Grown
    BY <1>2 DEF Grown
  <1>8. FilesInv'
    BY <1>1, PairAddedFilesInv
  <1>. QED
    BY <1>1, <1>2, <1>4, <1>6, <1>7, <1>8, SaveFrame DEF Saves

\* The last pair is replaced, and still lists nothing.
LEMMA LastPairIInv ==
    ASSUME IInv, main \in {"write_store", "create_record"},
           main' \in {"create_record", "write_record"},
           NEW p \in FilePair, LastBecomes(p), p.record = {}, p.store = saving.store,
           p.witness <=> main' = "write_record",
           UNCHANGED <<static_record, static_store, file_store, initial_record, saving>>,
           UNCHANGED <<blocks, counted, torn, beside, merger_vars>>
    PROVE  IInv'
  <1>. DEFINE old == files[1]
              new == files'[1]
  <1>1. main \in Saves /\ main # "create_store" /\ main' \in Saves \ {"create_store"}
    BY DEF Saves
  <1>2. /\ file_store = 1 /\ 1 \in Node /\ FilesInv
        /\ SavingIsNew /\ PairInUse /\ files[file_store][Current].record = {}
    BY <1>1, SaveInUse DEF IInv, RunInv
  <1>3. /\ files' \in [Node -> Seq(FilePair)]
        /\ DOMAIN new = DOMAIN old /\ Len(new) = Len(old)
        /\ Len(old) \in DOMAIN old
        /\ \A i \in DOMAIN old : i # Len(old) => new[i] = old[i]
        /\ new[Len(old)] = p
        /\ Recorded(1)' = Recorded(1)
    <2>1. files[file_store][Current].record \subseteq p.record
      BY <1>2
    <2>2. Recorded(1)' = Recorded(1) \cup p.record
      BY <1>2, <2>1, PairReplaced
    <2>3. Recorded(1) \cup p.record = Recorded(1)
      OBVIOUS
    <2>. QED
      BY <1>2, <2>1, <2>2, <2>3, PairReplaced
  <1>4. FilesInv'
    BY <1>2, PairReplacedFilesInv
  <1>5. new # <<>>
    BY <1>2, <1>3 DEF PairInUse
  <1>6. CurrentInv'
    BY <1>1, <1>2, <1>3, <1>5 DEF CurrentInv, Current
  <1>7. PairInv'
    BY <1>2, <1>3 DEF IInv, RunInv, PairInv, Pending, Complete, Current
  <1>8. ~ old[Len(old)].witness
    BY <1>1, <1>2 DEF IInv, RunInv, CurrentInv, Current
  <1>9. old[Len(old)].record = {}
    BY <1>2 DEF Current
  <1>10. Grown
    BY <1>3, <1>8, <1>9 DEF Grown
  <1>. QED
    BY <1>1, <1>3, <1>4, <1>6, <1>7, <1>10, SaveFrame

LEMMA WriteRecordIInv ==
    ASSUME IInv, main = "write_record", WriteRecordFile,
           main' \in {"count"} \cup (IF AllCounted THEN {"exited"} ELSE {}),
           UNCHANGED <<blocks, counted, torn, beside, merger_vars>>
    PROVE  IInv'
  <1>. DEFINE old == files[1]
              new == files'[1]
              pr == old[Current]
              p == [pr EXCEPT !.record = saving.record]
  <1>1. /\ main \in Saves /\ main # "create_store" /\ main # "write_store" /\ main # "exited"
        /\ main' \notin Saves /\ main' # "start"
    BY DEF Saves
  <1>2. /\ file_store = 1 /\ 1 \in Node /\ FilesInv
        /\ SavingIsNew /\ PairInUse /\ files[file_store][Current].record = {}
    BY <1>1, SaveInUse DEF IInv, RunInv
  <1>3. /\ UNCHANGED <<static_record, static_store, file_store, initial_record>>
        /\ saving' = NothingToSave
        /\ files' = [files EXCEPT ![file_store][Current].record = saving.record]
    BY DEF WriteRecordFile
  <1>4. pr \in FilePair /\ p \in FilePair /\ LastBecomes(p)
    BY <1>2, <1>3, LastPairSteps
  <1>5. p.record = saving.record /\ p.store = pr.store /\ p.witness = pr.witness
    BY <1>4 DEF FilePair
  <1>6. pr.store = saving.store /\ saving.store = Once(1, saving.record)
    BY <1>1 DEF IInv, RunInv, CurrentInv, MemoryInv
  <1>7. pr.witness
    BY <1>1 DEF IInv, RunInv, CurrentInv
  <1>. HIDE DEF p
  <1>8. /\ files' \in [Node -> Seq(FilePair)]
        /\ DOMAIN new = DOMAIN old /\ Len(new) = Len(old)
        /\ Len(old) \in DOMAIN old
        /\ \A i \in DOMAIN old : i # Len(old) => new[i] = old[i]
        /\ new[Len(old)] = p
        /\ Recorded(1)' = Recorded(1) \cup saving.record
    BY <1>2, <1>4, <1>5, PairReplaced
  <1>9. \A b \in p.record : p.store[file_store][b] = 1
    BY <1>2, <1>5, <1>6, FilesTypes DEF Once, IInv, RunInv
  <1>10. FilesInv'
    BY <1>2, <1>4, <1>5, <1>9, PairReplacedFilesInv
  <1>11. saving'.record = {} /\ saving'.store = NoCounts
    BY <1>3 DEF NothingToSave
  <1>12. NothingToSave \in Saving
    BY NothingToSaveType
  <1>13. static_record = {} /\ static_record \subseteq Block
    BY <1>1 DEF IInv, RunInv, MemoryInv
  <1>14. RunTypes'
    BY <1>1, <1>3, <1>8, <1>12 DEF IInv, RunInv, RunTypes, FileStoreTypeOK
  <1>15. MemoryInv'
    BY <1>1, <1>3, <1>8, <1>11, <1>13, OnceEmpty DEF IInv, RunInv, MemoryInv
  <1>16. CurrentInv'
    BY <1>1 DEF CurrentInv
  <1>17. PairInv'
    <2>. SUFFICES ASSUME NEW i \in DOMAIN new
                  PROVE  /\ new[i].record # {} => new[i].witness /\ Complete(1, new[i])
                         /\ new[i].witness /\ ~ torn => Complete(1, new[i])
      BY DEF PairInv, Complete
    <2>1. CASE i = Len(old)
      BY <1>5, <1>6, <1>7, <1>8, <2>1 DEF Complete
    <2>2. CASE i # Len(old)
      <3>1. ~ Pending(i)
        BY <1>2, <2>2 DEF Pending, Current
      <3>. QED
        BY <1>8, <2>2, <3>1 DEF IInv, RunInv, PairInv
    <2>. QED
      BY <2>1, <2>2
  <1>18. ExitInv'
    <2>1. blocks \in Packagings /\ blocks' = blocks
      BY <1>1 DEF IInv, RunInv, ExitInv
    <2>2. CASE main' = "exited"
      <3>1. blocks \subseteq initial_record \cup counted
        BY <2>2 DEF AllCounted
      <3>2. initial_record \cup counted = Recorded(1)'
        BY <1>1, <1>8, <1>13 DEF IInv, RunInv, MemoryInv
      <3>3. Recorded(1)' \in SUBSET Block
        BY <1>8, FilesTypes DEF IInv, RunInv
      <3>4. Covers(Recorded(1)')
        BY <2>1, <3>1, <3>2, <3>3, CoversMore
      <3>. QED
        BY <2>1, <3>4 DEF ExitInv, Covers
    <2>. QED
      BY <2>1, <2>2 DEF ExitInv
  <1>19. Grown
    BY <1>2, <1>5, <1>8 DEF Grown, Current
  <1>. QED
    BY <1>1, <1>10, <1>14, <1>15, <1>16, <1>17, <1>18, <1>19, RunIsNoticed, MergerFrame
    DEF IInv, RunInv

LEMMA SaveStepIInv == ASSUME IInv, SaveStep PROVE IInv'
  <1>1. UNCHANGED <<blocks, counted, torn, beside, merger_vars>>
    BY DEF SaveStep
  <1>2. CASE main = "create_store" /\ CreateStoreFile /\ main' = "write_store"
    BY <1>1, <1>2, CreateStoreIInv
  <1>3. CASE main = "write_store" /\ WriteStoreFile /\ main' = "create_record"
    <2>. DEFINE pr == files[1][Current]
                p == [pr EXCEPT !.store = saving.store]
    <2>1. main \in Saves /\ main # "create_store"
      BY <1>3 DEF Saves
    <2>2. file_store = 1 /\ PairInUse /\ pr.record = {}
      BY <2>1, SaveInUse DEF IInv
    <2>3. pr \in FilePair /\ p \in FilePair /\ LastBecomes(p)
      BY <1>3, <2>2, LastPairSteps
    <2>4. p.record = {} /\ p.store = saving.store /\ p.witness = pr.witness
      BY <2>2, <2>3 DEF FilePair
    <2>5. ~ pr.witness
      BY <1>3, <2>1 DEF IInv, RunInv, CurrentInv
    <2>6. UNCHANGED <<static_record, static_store, file_store, initial_record, saving>>
      BY <1>3 DEF WriteStoreFile
    <2>. HIDE DEF p
    <2>. QED
      BY <1>1, <1>3, <2>3, <2>4, <2>5, <2>6, LastPairIInv
  <1>4. CASE main = "create_record" /\ CreateRecordFile /\ main' = "write_record"
    <2>. DEFINE pr == files[1][Current]
                p == [pr EXCEPT !.witness = TRUE]
    <2>1. main \in Saves /\ main # "create_store"
      BY <1>4 DEF Saves
    <2>2. file_store = 1 /\ PairInUse /\ pr.record = {}
      BY <2>1, SaveInUse DEF IInv
    <2>3. pr \in FilePair /\ p \in FilePair /\ LastBecomes(p)
      BY <1>4, <2>2, LastPairSteps
    <2>4. p.record = {} /\ p.store = pr.store /\ p.witness
      BY <2>2, <2>3 DEF FilePair
    <2>5. pr.store = saving.store
      BY <1>4, <2>1 DEF IInv, RunInv, CurrentInv
    <2>6. UNCHANGED <<static_record, static_store, file_store, initial_record, saving>>
      BY <1>4 DEF CreateRecordFile
    <2>. HIDE DEF p
    <2>. QED
      BY <1>1, <1>4, <2>3, <2>4, <2>5, <2>6, LastPairIInv
  <1>5. CASE /\ main = "write_record" /\ WriteRecordFile
             /\ main' \in {"count"} \cup (IF AllCounted THEN {"exited"} ELSE {})
    BY <1>1, <1>5, WriteRecordIInv
  <1>. QED
    BY <1>2, <1>3, <1>4, <1>5 DEF SaveStep

LEMMA CrashIInv == ASSUME IInv, Crash PROVE IInv'
  <1>. USE DEF Crash
  <1>1. /\ main # "start" /\ main # "exited" /\ main' = "start" /\ "start" \notin Saves
        /\ UNCHANGED <<files, beside, merger_vars>>
        /\ torn' = (torn \/ (main = "write_record" /\ saving.record # {}))
        /\ static_record' = {} /\ static_store' = NoCounts /\ file_store' = NoNode
        /\ initial_record' = {} /\ saving' = NothingToSave
        /\ blocks' = {} /\ counted' = {}
    BY DEF Saves
  <1>. HIDE DEF Crash
  <1>2. saving'.record = {} /\ saving'.store = NoCounts /\ NothingToSave \in Saving
    BY <1>1, NothingToSaveType
  <1>3. NoCounts \in Counts /\ NoCounts = Once(1, {})
    BY OnceType, OnceEmpty
  <1>4. RunTypes'
    BY <1>1, <1>2, <1>3 DEF IInv, RunInv, RunTypes, FileStoreTypeOK
  <1>5. MemoryInv' /\ CurrentInv' /\ ExitInv'
    BY <1>1, <1>2, <1>3 DEF MemoryInv, CurrentInv, ExitInv
  <1>6. PairInv'
    <2>. SUFFICES ASSUME NEW i \in DOMAIN files[1], files[1][i].witness, ~ torn'
                  PROVE  Complete(1, files[1][i])
      BY <1>1 DEF IInv, RunInv, PairInv, Complete
    <2>1. CASE ~ Pending(i)
      BY <1>1, <2>1 DEF IInv, RunInv, PairInv
    <2>2. CASE Pending(i)
      <3>1. main = "write_record" /\ i = Current /\ main \in Saves \ {"create_store"}
        BY <2>2 DEF Pending, Saves
      <3>2. files[1][i].store = saving.store /\ files[1][i].record = {}
        BY <3>1 DEF IInv, RunInv, CurrentInv
      <3>3. saving.record = {} /\ saving.store = Once(1, saving.record)
        BY <1>1, <3>1 DEF IInv, RunInv, MemoryInv
      <3>. QED
        BY <3>2, <3>3 DEF Complete
    <2>. QED
      BY <2>1, <2>2
  <1>7. RunInv'
    BY <1>1, <1>4, <1>5, <1>6, FilesInvFrame DEF IInv, RunInv
  <1>. QED
    BY <1>1, <1>7, RunIsNoticed, GrownFrame, MergerFrame DEF IInv

-----------------------------------------------------------------------------
(* The steps of the merger                                                 *)

LEMMA StartMergerIInv == ASSUME IInv, StartMerger PROVE IInv'
  <1>1. /\ merger \in {"start"} \cup Ended /\ merger \notin Merging
        /\ beside' = (main # "exited") /\ beside' \in BOOLEAN
        /\ merger' \in {"pairs", "aborted", "failed"}
        /\ merger' = "pairs" => input' = {i \in DOMAIN files[1] : files[1][i].witness}
        /\ merger' # "pairs" => input' = {}
        /\ input' \subseteq {i \in DOMAIN files[1] : files[1][i].witness}
        /\ UNCHANGED <<store_vars, files, main, blocks, counted, torn, pair, merged, output, cut>>
    BY DEF StartMerger, store_vars, run_vars, Ended, Merging
  <1>2. merged = NothingToSave /\ merged.record = {} /\ merged.store = NoCounts
    BY <1>1 DEF IInv, MergerInv, InputInv, NothingToSave
  <1>3. RunInv'
    BY <1>1, RunFrame DEF IInv
  <1>4. MergerTypes'
    BY <1>1 DEF IInv, MergerInv, MergerTypes, Ended
  <1>5. InputInv' /\ ListedInv' /\ OutputInv'
    BY <1>1, <1>2
    DEF IInv, MergerInv, InputInv, ListedInv, OutputInv, ListedIsStoredUnlessCut, Merging
  <1>6. OnceInv'
    <2>1. \A b \in Block : NoCounts[1][b] = 0
      BY OneNode DEF NoCounts
    <2>. QED
      BY <1>1, <1>2, <2>1 DEF OnceInv
  <1>7. \A i \in DOMAIN files[1] : files[1][i].record # {} => files[1][i].witness
    BY DEF IInv, RunInv, PairInv
  <1>8. AgainInv'
    <2>1. Recorded(1)' = Recorded(1)
      BY <1>1 DEF Recorded
    <2>2. output.record \subseteq Recorded(1)
      BY DEF IInv, MergerInv, AgainInv
    <2>3. ASSUME merger' = "pairs", NEW b \in output.record
          PROVE  \E i \in input' : b \in files[1][i].record
      <3>1. PICK i \in DOMAIN files[1] : b \in files[1][i].record
        BY <2>2, <2>3 DEF Recorded
      <3>. QED
        BY <1>1, <1>7, <2>3, <3>1
    <2>. QED
      BY <1>1, <1>2, <2>1, <2>2, <2>3 DEF AgainInv
  <1>9. CompleteInv'
    <2>1. merger' = "pairs" =>
            UNION {files[1][i].record : i \in DOMAIN files[1] \ input'} = {}
      BY <1>1, <1>7
    <2>. QED
      BY <1>1, <1>2, <2>1, OnceEmpty DEF CompleteInv, Merging
  <1>. QED
    BY <1>3, <1>4, <1>5, <1>6, <1>8, <1>9 DEF IInv, MergerInv

\* The record of the next pair is read.
LEMMA MergeRecordIInv ==
    ASSUME IInv, MergePair, merger = "pairs"
    PROVE  IInv'
  <1>. DEFINE next == files[1][pair']
  <1>1. /\ pair' \in input /\ input' = input \ {pair'} /\ merger' = "store"
        /\ merged' = [merged EXCEPT !.record = @ \cup next.record]
        /\ UNCHANGED <<store_vars, files, main, blocks, counted, torn, beside, output, cut>>
    BY DEF MergePair, store_vars, run_vars
  <1>2. pair' \in DOMAIN files[1] /\ next.witness /\ next.record \subseteq Block
    BY <1>1, FilesTypes DEF IInv, RunInv, MergerInv, MergerTypes, InputInv, FilePair
  <1>3. /\ merged \in Saving
        /\ merged'.record = merged.record \cup next.record
        /\ merged'.store = merged.store
        /\ merged' \in Saving
    BY <1>1, <1>2 DEF IInv, MergerInv, MergerTypes, Saving
  <1>4. RunInv'
    BY <1>1, RunFrame DEF IInv, RunInv, RunTypes
  <1>5. MergerTypes'
    BY <1>1, <1>3 DEF IInv, MergerInv, MergerTypes
  <1>6. InputInv' /\ OutputInv'
    BY <1>1, <1>2
    DEF IInv, MergerInv, InputInv, OutputInv, ListedIsStoredUnlessCut, Merging
  <1>7. OnceInv'
    <2>1. Added1' = Added1
      BY <1>1 DEF Added1
    <2>. QED
      BY <1>1, <1>3, <2>1 DEF IInv, MergerInv, OnceInv
  <1>8. ListedInv'
    <2>. SUFFICES ASSUME NEW b \in merged'.record
                  PROVE  merged.store[1][b] > 0 \/ next.store[1][b] = 1
      BY <1>1, <1>3 DEF ListedInv
    <2>1. CASE b \in merged.record
      BY <2>1 DEF IInv, MergerInv, ListedInv
    <2>2. CASE b \in next.record
      <3>1. next.store = Once(1, next.record)
        BY <1>2, <2>2 DEF IInv, RunInv, PairInv, Complete
      <3>. QED
        BY <1>2, <2>2, <3>1, OneNode DEF Once
    <2>. QED
      BY <1>3, <2>1, <2>2
  <1>9. CompleteInv'
    <2>. SUFFICES ASSUME ~ beside
                  PROVE  /\ main = "exited"
                         /\ merged'.record = UNION {files[1][i].record : i \in DOMAIN files[1] \ input'}
                         /\ ~ torn => merged.store = Once(1, merged'.record \ next.record)
      BY <1>1, <1>3 DEF CompleteInv
    <2>1. /\ main = "exited"
          /\ merged.record = UNION {files[1][i].record : i \in DOMAIN files[1] \ input}
          /\ ~ torn => merged.store = Once(1, merged.record)
      BY DEF IInv, MergerInv, CompleteInv, Merging
    <2>2. DOMAIN files[1] \ input' = (DOMAIN files[1] \ input) \cup {pair'}
      BY <1>1, <1>2
    <2>3. merged'.record = UNION {files[1][i].record : i \in DOMAIN files[1] \ input'}
      BY <1>3, <2>1, <2>2
    <2>4. merged.record \cap next.record = {}
      <3>1. \A i \in DOMAIN files[1] : i # pair' => files[1][i].record \cap next.record = {}
        BY <1>2, OneNode DEF IInv, RunInv, FilesInv, RecordsDisjoint
      <3>. QED
        BY <1>1, <2>1, <3>1
    <2>5. merged'.record \ next.record = merged.record
      BY <1>3, <2>4
    <2>. QED
      BY <2>1, <2>3, <2>5
  <1>10. AgainInv'
    <2>1. Recorded(1)' = Recorded(1) /\ next.record \subseteq Recorded(1)
      BY <1>1, <1>2 DEF Recorded
    <2>2. /\ merged.record \subseteq Recorded(1) /\ output.record \subseteq Recorded(1)
          /\ \A b \in output.record :
               b \in merged.record \/ \E i \in input : b \in files[1][i].record
      BY DEF IInv, MergerInv, AgainInv
    <2>3. ASSUME NEW b \in output.record
          PROVE  b \in merged'.record \/ \E i \in input' : b \in files[1][i].record
      BY <1>1, <1>3, <2>2
    <2>. QED
      BY <1>1, <1>3, <2>1, <2>2, <2>3 DEF AgainInv
  <1>. QED
    BY <1>4, <1>5, <1>6, <1>7, <1>8, <1>9, <1>10 DEF IInv, MergerInv

LEMMA OnceSum ==
    ASSUME NEW whole \in SUBSET Block, NEW part \in SUBSET whole
    PROVE  Added(Once(1, whole \ part), Once(1, part)) = Once(1, whole)
  <1>1. ASSUME NEW n \in Node, NEW b \in Block
        PROVE  Once(1, whole \ part)[n][b] + Once(1, part)[n][b] = Once(1, whole)[n][b]
    BY <1>1 DEF Once
  <1>2. Added(Once(1, whole \ part), Once(1, part))
          = [n \in Node |-> [b \in Block |-> Once(1, whole)[n][b]]]
    BY <1>1 DEF Added
  <1>. QED
    BY <1>2 DEF Once

\* The store of the pair is added.
LEMMA MergeStoreIInv ==
    ASSUME IInv, MergePair, merger = "store"
    PROVE  IInv'
  <1>. DEFINE pr == files[1][pair]
  <1>1. /\ merged' = [merged EXCEPT !.store = Added(@, pr.store)] /\ merger' = "pairs"
        /\ UNCHANGED <<store_vars, files, main, blocks, counted, torn, beside>>
        /\ UNCHANGED <<pair, input, output, cut>>
    BY DEF MergePair, store_vars, run_vars
  <1>2. /\ pair \in DOMAIN files[1] \ input /\ pr.witness
        /\ pr \in FilePair /\ merged \in Saving /\ 1 \in Node
    BY OneNode, FilesTypes DEF IInv, RunInv, MergerInv, MergerTypes, InputInv
  <1>3. /\ pr.store \in Counts /\ merged.store \in Counts
    BY <1>2 DEF FilePair, Saving
  <1>4. /\ merged'.record = merged.record
        /\ merged'.store = Added(merged.store, pr.store)
        /\ merged' \in Saving
    <2>1. Added(merged.store, pr.store) \in Counts
      BY <1>3 DEF Added, Counts
    <2>. QED
      BY <1>1, <1>2, <2>1 DEF Saving
  <1>5. \A b \in Block : /\ merged'.store[1][b] = merged.store[1][b] + pr.store[1][b]
                         /\ merged.store[1][b] \in Nat /\ pr.store[1][b] \in Nat
    BY <1>2, <1>3, <1>4 DEF Added, Counts
  <1>6. RunInv'
    BY <1>1, RunFrame DEF IInv, RunInv, RunTypes
  <1>7. MergerTypes'
    BY <1>1, <1>4 DEF IInv, MergerInv, MergerTypes
  <1>8. InputInv' /\ OutputInv' /\ AgainInv'
    <2>1. Recorded(1)' = Recorded(1)
      BY <1>1 DEF Recorded
    <2>. QED
      BY <1>1, <1>4, <2>1
      DEF IInv, MergerInv, InputInv, OutputInv, AgainInv, ListedIsStoredUnlessCut, Merging
  <1>9. OnceInv'
    <2>. SUFFICES ASSUME ~ torn, NEW b \in Block
                  PROVE  /\ merged'.store[1][b] <= 1
                         /\ merged'.store[1][b] = 1 =>
                              \E i \in Added1' : files[1][i].witness /\ files[1][i].store[1][b] = 1
      BY <1>1 DEF OnceInv
    <2>1. Added1' = DOMAIN files[1] \ input
      BY <1>1 DEF Added1
    <2>2. Added1 = DOMAIN files[1] \ (input \cup {pair})
      BY DEF Added1
    <2>3. Added1 \subseteq Added1' /\ pair \in Added1' /\ pair \notin Added1
      BY <1>2, <2>1, <2>2
    <2>4. /\ merged.store[1][b] <= 1
          /\ merged.store[1][b] = 1 =>
               \E i \in Added1 : files[1][i].witness /\ files[1][i].store[1][b] = 1
      BY DEF IInv, MergerInv, OnceInv
    <2>5. /\ pr.store[1][b] \in {0, 1}
          /\ \A j \in DOMAIN files[1] :
               j # pair /\ files[1][j].witness =>
                   ~ (pr.store[1][b] = 1 /\ files[1][j].store[1][b] = 1)
      BY <1>2, StoresApart DEF IInv
    <2>6. CASE pr.store[1][b] = 1
      <3>1. merged.store[1][b] # 1
        BY <2>2, <2>3, <2>4, <2>5, <2>6
      <3>2. merged'.store[1][b] = 1
        BY <1>5, <2>4, <2>6, <3>1
      <3>. QED
        BY <1>2, <2>3, <2>6, <3>2
    <2>7. CASE pr.store[1][b] = 0
      <3>1. merged'.store[1][b] = merged.store[1][b]
        BY <1>5, <2>7
      <3>. QED
        BY <2>3, <2>4, <3>1
    <2>. QED
      BY <2>5, <2>6, <2>7
  <1>10. ListedInv'
    <2>. SUFFICES ASSUME NEW b \in merged.record
                  PROVE  merged'.store[1][b] > 0
      BY <1>1, <1>4 DEF ListedInv
    <2>1. b \in Block
      BY <1>2 DEF Saving
    <2>2. merged.store[1][b] > 0 \/ pr.store[1][b] = 1
      BY DEF IInv, MergerInv, ListedInv
    <2>. QED
      BY <1>5, <2>1, <2>2
  <1>11. CompleteInv'
    <2>. SUFFICES ASSUME ~ beside
                  PROVE  /\ main = "exited"
                         /\ merged.record = UNION {files[1][i].record : i \in DOMAIN files[1] \ input}
                         /\ ~ torn => merged'.store = Once(1, merged.record)
      BY <1>1, <1>4 DEF CompleteInv
    <2>1. /\ main = "exited"
          /\ merged.record = UNION {files[1][i].record : i \in DOMAIN files[1] \ input}
          /\ ~ torn => merged.store = Once(1, merged.record \ pr.record)
      BY DEF IInv, MergerInv, CompleteInv, Merging
    <2>2. pr.record \subseteq merged.record /\ merged.record \subseteq Block
      BY <1>2, <2>1 DEF Saving
    <2>3. ~ torn => pr.store = Once(1, pr.record)
      BY <1>2, <2>1 DEF IInv, RunInv, PairInv, Pending, Complete
    <2>. QED
      BY <1>4, <2>1, <2>2, <2>3, OnceSum
  <1>. QED
    BY <1>6, <1>7, <1>8, <1>9, <1>10, <1>11 DEF IInv, MergerInv

LEMMA WriteOutputIInv == ASSUME IInv, WriteOutput PROVE IInv'
  <1>1. /\ UNCHANGED <<store_vars, files, main, blocks, counted, torn, beside>>
        /\ merger \in {"pairs", "write_store", "create_record", "write_record"}
        /\ merger' \in {"write_store", "create_record", "write_record", "done"}
        /\ input = {} /\ input' = {}
    BY DEF WriteOutput, Forget, memory_vars, IInv, MergerInv, InputInv, store_vars, run_vars
  <1>2. \/ merger' # "done" /\ merged' = merged
        \/ merger' = "done" /\ merged' = NothingToSave
    BY DEF WriteOutput, Forget, memory_vars
  <1>3. /\ NothingToSave \in Saving /\ NothingToSave.record = {}
        /\ NothingToSave.store = NoCounts /\ NoCounts \in Counts
        /\ \A b \in Block : NoCounts[1][b] = 0
    BY NothingToSaveType, OneNode DEF NoCounts
  <1>4. /\ merged \in Saving
        /\ output \in [store : Counts, witness : BOOLEAN, record : SUBSET Block]
        /\ cut \in BOOLEAN
    BY DEF IInv, MergerInv, MergerTypes
  <1>5. Recorded(1)' = Recorded(1)
    BY <1>1 DEF Recorded
  <1>6. RunInv'
    BY <1>1, RunFrame DEF IInv, RunInv, RunTypes
  <1>7. output' \in [store : Counts, witness : BOOLEAN, record : SUBSET Block]
        /\ cut' \in BOOLEAN
    BY <1>3, <1>4 DEF WriteOutput, Saving
  <1>8. MergerTypes'
    BY <1>1, <1>2, <1>3, <1>4, <1>7 DEF MergerTypes, Ended
  <1>9. InputInv'
    BY <1>1, <1>2 DEF InputInv, Merging
  <1>10. \A b \in merged.record : merged.store[1][b] > 0
    BY <1>1 DEF IInv, MergerInv, ListedInv
  <1>11. ListedInv'
    BY <1>1, <1>2, <1>3, <1>10 DEF ListedInv
  <1>12. OnceInv'
    <2>1. Added1 \subseteq Added1'
      BY <1>1 DEF Added1
    <2>. QED
      BY <1>1, <1>2, <1>3, <2>1 DEF IInv, MergerInv, OnceInv
  <1>13. AgainInv'
    <2>1. merged.record \subseteq Recorded(1) /\ output.record \subseteq Recorded(1)
      BY DEF IInv, MergerInv, AgainInv
    <2>2. CASE merger = "pairs"
      <3>1. /\ output'.record = output.record /\ merged' = merged
            /\ merger' = "write_store"
        BY <1>4, <2>2 DEF WriteOutput, memory_vars
      <3>2. output.record \subseteq merged.record
        BY <1>1, <2>2 DEF IInv, MergerInv, AgainInv
      <3>. QED
        BY <1>5, <2>1, <3>1, <3>2 DEF AgainInv
    <2>3. CASE merger = "write_store"
      <3>1. /\ output'.record = output.record /\ merged' = merged
            /\ merger' = "create_record"
        BY <1>4, <2>3 DEF WriteOutput, memory_vars
      <3>2. output.record \subseteq merged.record
        BY <2>3 DEF IInv, MergerInv, AgainInv
      <3>. QED
        BY <1>5, <2>1, <3>1, <3>2 DEF AgainInv
    <2>4. CASE merger = "create_record"
      <3>1. output'.record = {} /\ merged' = merged /\ merger' = "write_record"
        BY <1>4, <2>4 DEF WriteOutput, memory_vars
      <3>. QED
        BY <1>5, <2>1, <3>1 DEF AgainInv
    <2>5. CASE merger = "write_record"
      <3>1. output'.record = merged.record /\ merged' = NothingToSave /\ merger' = "done"
        BY <1>4, <2>5 DEF WriteOutput, Forget
      <3>. QED
        BY <1>3, <1>5, <2>1, <3>1 DEF AgainInv
    <2>. QED
      BY <1>1, <2>2, <2>3, <2>4, <2>5
  <1>14. OutputInv'
    <2>1. CASE merger = "pairs"
      <3>1. cut' /\ merger' = "write_store"
        BY <2>1 DEF WriteOutput
      <3>. QED
        BY <3>1 DEF OutputInv, ListedIsStoredUnlessCut
    <2>2. CASE merger = "write_store"
      <3>1. /\ output'.record = output.record /\ output'.store = merged.store
            /\ merged' = merged /\ merger' = "create_record"
        BY <1>4, <2>2 DEF WriteOutput, memory_vars
      <3>2. output.record \subseteq merged.record
        BY <2>2 DEF IInv, MergerInv, AgainInv
      <3>. QED
        BY <1>10, <3>1, <3>2 DEF OutputInv, ListedIsStoredUnlessCut
    <2>3. CASE merger = "create_record"
      <3>1. /\ output'.record = {} /\ output'.store = output.store
            /\ merged' = merged /\ merger' = "write_record"
        BY <1>4, <2>3 DEF WriteOutput, memory_vars
      <3>2. output.store = merged.store
        BY <2>3 DEF IInv, MergerInv, OutputInv
      <3>. QED
        BY <3>1, <3>2 DEF OutputInv, ListedIsStoredUnlessCut
    <2>4. CASE merger = "write_record"
      <3>1. /\ output'.record = merged.record /\ output'.store = output.store
            /\ merger' = "done"
        BY <1>4, <2>4 DEF WriteOutput
      <3>2. output.store = merged.store
        BY <2>4 DEF IInv, MergerInv, OutputInv
      <3>. QED
        BY <1>10, <3>1, <3>2 DEF OutputInv, ListedIsStoredUnlessCut
    <2>. QED
      BY <1>1, <2>1, <2>2, <2>3, <2>4
  <1>15. CompleteInv'
    <2>. SUFFICES ASSUME ~ beside
                  PROVE  /\ merger' # "done" =>
                              /\ main = "exited"
                              /\ merged'.record = Recorded(1)
                              /\ ~ torn => merged'.store = Once(1, merged'.record)
                         /\ merger' = "done" =>
                              /\ Covers(output'.record)
                              /\ ~ torn => output'.store = Once(1, output'.record)
      BY <1>1 DEF CompleteInv, Covers, Recorded, Merging
    <2>1. /\ main = "exited"
          /\ merged.record = UNION {files[1][i].record : i \in DOMAIN files[1] \ input}
          /\ ~ torn => merged.store = Once(1, merged.record)
      BY <1>1 DEF IInv, MergerInv, CompleteInv, Merging
    <2>2. merged.record = Recorded(1)
      BY <1>1, <2>1 DEF Recorded
    <2>3. Covers(merged.record)
      BY <2>1, <2>2 DEF IInv, RunInv, ExitInv
    <2>4. merger' = "done" => output'.record = merged.record /\ output'.store = merged.store
      <3>1. merger' = "done" =>
              /\ merger = "write_record"
              /\ output'.record = merged.record /\ output'.store = output.store
        BY <1>4 DEF WriteOutput
      <3>. QED
        BY <3>1 DEF IInv, MergerInv, OutputInv
    <2>. QED
      BY <1>2, <2>1, <2>2, <2>3, <2>4
  <1>. QED
    BY <1>6, <1>8, <1>9, <1>11, <1>12, <1>13, <1>14, <1>15 DEF IInv, MergerInv

LEMMA MergerCrashIInv == ASSUME IInv, MergerCrash PROVE IInv'
  <1>1. /\ merger' = "killed"
        /\ input' = {} /\ merged' = NothingToSave
        /\ UNCHANGED <<store_vars, files, main, blocks, counted, torn, beside, output, cut>>
    BY DEF MergerCrash, Forget, store_vars, run_vars
  <1>2. /\ NothingToSave \in Saving /\ NothingToSave.record = {}
        /\ NothingToSave.store = NoCounts
        /\ \A b \in Block : NoCounts[1][b] = 0
    BY NothingToSaveType, OneNode DEF NoCounts
  <1>3. Recorded(1)' = Recorded(1)
    BY <1>1 DEF Recorded
  <1>4. RunInv'
    BY <1>1, RunFrame DEF IInv, RunInv, RunTypes
  <1>5. MergerTypes'
    BY <1>1, <1>2 DEF IInv, MergerInv, MergerTypes, Ended
  <1>6. InputInv' /\ ListedInv' /\ CompleteInv'
    BY <1>1, <1>2 DEF InputInv, ListedInv, CompleteInv, Merging
  <1>7. AgainInv' /\ OutputInv'
    BY <1>1, <1>2, <1>3
    DEF IInv, MergerInv, AgainInv, OutputInv, ListedIsStoredUnlessCut
  <1>8. OnceInv'
    BY <1>1, <1>2 DEF OnceInv
  <1>. QED
    BY <1>4, <1>5, <1>6, <1>7, <1>8 DEF IInv, MergerInv

-----------------------------------------------------------------------------
(* The invariant holds                                                     *)

LEMMA InitIInv == Init => IInv
  <1>. SUFFICES ASSUME Init PROVE IInv
    OBVIOUS
  <1>1. /\ static_record = {} /\ static_store = NoCounts /\ file_store = NoNode
        /\ initial_record = {} /\ saving = NothingToSave
        /\ files = [n \in Node |-> <<>>] /\ 1 \in Node
        /\ main = "start" /\ blocks = {} /\ counted = {} /\ torn = FALSE /\ beside = FALSE
        /\ merger = "start" /\ input = {} /\ merged = NothingToSave
        /\ output = NoOutput /\ cut = FALSE
    BY OneNode DEF Init, FileStoreInit, StoreMemoryInit
  <1>2. files \in [Node -> Seq(FilePair)] /\ \A n \in Node : DOMAIN files[n] = {}
    BY <1>1, EmptySeq
  <1>3. DOMAIN files[1] = {}
    BY <1>1, <1>2
  <1>4. RunTypes
    BY <1>1, <1>2, NothingToSaveType DEF RunTypes, FileStoreTypeOK
  <1>5. MergerTypes
    BY <1>1, NothingToSaveType DEF MergerTypes, NoOutput
  <1>6. MemoryInv /\ CurrentInv /\ PairInv /\ ExitInv
    BY <1>1, <1>3, NothingToSaveType, OnceEmpty
    DEF MemoryInv, CurrentInv, PairInv, ExitInv, Saves
  <1>7. FilesInv
    BY <1>2 DEF FilesInv, RecordsDisjoint, RecordedIsStored, RecordedIsNotCountedAgain
  <1>8. InputInv /\ ListedInv /\ AgainInv /\ OutputInv /\ CompleteInv
    BY <1>1, NothingToSaveType
    DEF InputInv, ListedInv, AgainInv, OutputInv, CompleteInv, NoOutput, Merging,
        ListedIsStoredUnlessCut
  <1>9. OnceInv
    <2>1. \A b \in Block : NoCounts[1][b] = 0
      BY <1>1 DEF NoCounts
    <2>. QED
      BY <1>1, <2>1, NothingToSaveType DEF OnceInv
  <1>. QED
    BY <1>4, <1>5, <1>6, <1>7, <1>8, <1>9 DEF IInv, RunInv, MergerInv

LEMMA StutterIInv == IInv /\ UNCHANGED vars => IInv'
  <1>. SUFFICES ASSUME IInv, UNCHANGED vars PROVE IInv'
    OBVIOUS
  <1>1. /\ UNCHANGED <<store_vars, main, blocks, counted, torn, merger_vars, beside>>
        /\ UNCHANGED <<files, main, torn>>
    BY DEF vars, run_vars, store_vars
  <1>2. RunInv'
    BY <1>1, RunFrame DEF IInv, RunInv, RunTypes
  <1>. QED
    BY <1>1, <1>2, GrownFrame, MergerFrame DEF IInv, Noticed

LEMMA NextIInv == IInv /\ [Next]_vars => IInv'
  <1>. SUFFICES ASSUME IInv, [Next]_vars PROVE IInv'
    OBVIOUS
  <1>1. CASE Run
    BY <1>1, StartIInv, CountBlockIInv, StartSaveIInv, SaveStepIInv, CrashIInv DEF Run
  <1>2. CASE Merge
    <2>1. CASE StartMerger
      BY <2>1, StartMergerIInv
    <2>2. CASE MergePair
      BY <2>2, MergeRecordIInv, MergeStoreIInv DEF MergePair
    <2>3. CASE WriteOutput
      BY <2>3, WriteOutputIInv
    <2>. QED
      BY <1>2, <2>1, <2>2, <2>3 DEF Merge
  <1>3. CASE MergerCrash
    BY <1>3, MergerCrashIInv
  <1>4. CASE UNCHANGED vars
    BY <1>4, StutterIInv
  <1>. QED
    BY <1>1, <1>2, <1>3, <1>4 DEF Next

\* The invariant of the run and of the merger holds throughout.
THEOREM IInvAlways == Spec => []IInv
  BY InitIInv, NextIInv, PTL DEF Spec

-----------------------------------------------------------------------------
(* What follows                                                            *)

\* The record of the output is a witness of its store (merger.cc 159), whatever
\* run writes the pairs that are read, whoever is killed when, and though an earlier
\* merge may have written the record; but not while the store is empty that a merger
\* has opened, to write it anew, nor after it was killed there.
THEOREM MergedIsWitness == Spec => []ListedIsStoredUnlessCut
  <1>1. IInv => ListedIsStoredUnlessCut
    BY DEF IInv, MergerInv, OutputInv
  <1>. QED
    BY <1>1, IInvAlways, PTL

\* No block is added up twice, unless a crash left a record file without its
\* record, for any number of runs and whatever package sizes they have.
THEOREM MergedOnce == Spec => []MergedOnceUnlessTorn
  <1>1. IInv => MergedOnceUnlessTorn
    BY DEF IInv, MergerInv, OnceInv, MergedOnceUnlessTorn
  <1>. QED
    BY <1>1, IInvAlways, PTL

\* After a run that ended the merger has every curve of the node, in the blocks
\* it lists and each of them once.
THEOREM MergedAll == Spec => []MergedIsComplete
  <1>1. IInv => MergedIsComplete
    BY DEF IInv, MergerInv, OutputInv, CompleteInv, MergedIsComplete, Covers
  <1>. QED
    BY <1>1, IInvAlways, PTL

\* A run keeps its promises about single pairs beside a merger, and though earlier
\* runs may have listed blocks of another package size.
THEOREM PairsKept == Spec => [](RecordsDisjoint /\ RecordedIsStored /\ RecordedIsNotCountedAgain)
  <1>1. IInv => RecordsDisjoint /\ RecordedIsStored /\ RecordedIsNotCountedAgain
    BY DEF IInv, RunInv, FilesInv
  <1>. QED
    BY <1>1, IInvAlways, PTL
=============================================================================
