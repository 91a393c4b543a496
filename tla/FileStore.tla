----------------------------- MODULE FileStore ------------------------------
(***************************************************************************)
(* What is counted and where it is kept: the static record and store that  *)
(* all threads merge into (flush_to_static_store and flush_static_store of *)
(* src/src/store/store.cc) and the pairs of files that FileStore writes    *)
(* and reads back (src/src/store/file_store.cc).                           *)
(*                                                                         *)
(* The counts of a block are abstracted to the number of times they have   *)
(* been added in, for each node whose tables they were computed with.      *)
(* Every node has a result path of its own.  The entry that the reader of  *)
(* a record adds for the end of the file is an empty block, which no node  *)
(* has; it is left out.                                                    *)
(***************************************************************************)
EXTENDS Config, Sequences

\* How often the counts of each block have been added in, per node.
Counts == [Node -> [Block -> Nat]]
NoCounts == [n \in Node |-> [b \in Block |-> 0]]

\* The counts of a set of blocks of one node, each added in once.
Once(node, record) ==
    [n \in Node |-> [b \in Block |-> IF n = node /\ b \in record THEN 1 ELSE 0]]

Saving == [record : SUBSET Block, store : Counts]
NothingToSave == [record |-> {}, store |-> NoCounts]

\* A pair of files with the same id: what the .hycu_store file holds, whether
\* there is a .hycu_record file and what it lists.  "failed" is history: a write
\* to the store file had an error.
FilePair ==
    [store : Counts, witness : BOOLEAN, record : SUBSET Block, failed : BOOLEAN]

VARIABLES
    static_record,      \* Store::static_record
    static_store,       \* Store::static_store
    files,              \* per node: the pairs under its result path
    file_store,         \* the node whose FileStore is in use, NoNode for none
    initial_record,     \* its initial_record
    saving              \* the strings that save is writing

store_vars == <<static_record, static_store, files, file_store, initial_record, saving>>

FileStoreTypeOK ==
    /\ static_record \subseteq Block
    /\ static_store \in Counts
    /\ files \in [Node -> Seq(FilePair)]
    /\ file_store \in Node \cup {NoNode}
    /\ initial_record \subseteq Block
    /\ saving \in Saving

\* The memory of the process at its start.
StoreMemoryInit ==
    /\ static_record = {}
    /\ static_store = NoCounts
    /\ file_store = NoNode
    /\ initial_record = {}
    /\ saving = NothingToSave

FileStoreInit ==
    /\ StoreMemoryInit
    /\ files = [n \in Node |-> <<>>]

\* The blocks that the record files under a node's result path list.
Recorded(n) == UNION {files[n][i].record : i \in DOMAIN files[n]}

-----------------------------------------------------------------------------
\* flush_to_static_store, 69-90: static_mutex makes it one step.
FlushToStaticStore(block, node) ==
    /\ static_record' = static_record \cup {block}
    /\ static_store' = [static_store EXCEPT ![node][block] = @ + 1]
    /\ UNCHANGED <<files, file_store, initial_record, saving>>

\* Mutant: the records of earlier runs are not read.
OpenFileStore_noRead(node) ==
    /\ file_store' = node
    /\ initial_record' = {}
    /\ UNCHANGED <<static_record, static_store, files, saving>>

\* The constructor, 37-57: every record file is read, also one without a store.
OpenFileStore(node) ==
    /\ file_store' = node
    /\ initial_record' = Recorded(node)
    /\ UNCHANGED <<static_record, static_store, files, saving>>

\* Mutant: the static store is not cleared.
FlushStaticStore_notCleared ==
    /\ saving' = [record |-> static_record, store |-> static_store]
    /\ static_record' = {}
    /\ UNCHANGED <<static_store, files, file_store, initial_record>>

\* flush_static_store, 92-111: record and store are taken under one lock.
FlushStaticStore ==
    /\ saving' = [record |-> static_record, store |-> static_store]
    /\ static_record' = {}
    /\ static_store' = NoCounts
    /\ UNCHANGED <<files, file_store, initial_record>>

\* The pair that save is writing is the last one under the path in use.
Current == Len(files[file_store])

\* Mutant: the id is not checked against the files that exist.
CreateStoreFile_sameName ==
    /\ files' = [files EXCEPT ![file_store] =
                   <<[store |-> NoCounts, witness |-> FALSE,
                      record |-> {}, failed |-> FALSE]>>]
    /\ UNCHANGED <<static_record, static_store, file_store, initial_record, saving>>

\* save, 68-72: new_filenames picks an id that no file of the path has; opening
\* the store file creates it, empty.
CreateStoreFile ==
    /\ files' = [files EXCEPT ![file_store] =
                   Append(@, [store |-> NoCounts, witness |-> FALSE,
                              record |-> {}, failed |-> FALSE])]
    /\ UNCHANGED <<static_record, static_store, file_store, initial_record, saving>>

\* save, 72: the store is written and its file closed.
WriteStoreFile ==
    /\ files' = [files EXCEPT ![file_store][Current].store = saving.store]
    /\ UNCHANGED <<static_record, static_store, file_store, initial_record, saving>>

\* save, 72: the write has an error, as on a full disk.  The state of the stream
\* is not looked at, so that save goes on.
FailStoreFile ==
    /\ files' = [files EXCEPT ![file_store][Current].failed = TRUE]
    /\ UNCHANGED <<static_record, static_store, file_store, initial_record, saving>>

\* save, 73: opening the record file creates it, empty.
CreateRecordFile ==
    /\ files' = [files EXCEPT ![file_store][Current].witness = TRUE]
    /\ UNCHANGED <<static_record, static_store, file_store, initial_record, saving>>

\* save, 73: the record is written and its file closed.
WriteRecordFile ==
    /\ files' = [files EXCEPT ![file_store][Current].record = saving.record]
    /\ saving' = NothingToSave
    /\ UNCHANGED <<static_record, static_store, file_store, initial_record>>

-----------------------------------------------------------------------------
\* A pair whose store holds what its record lists: each block once, with the
\* tables of the node of the path, and nothing else.
Complete(n, pair) == pair.store = Once(n, pair.record)

\* A block is listed by one record of its node at most, over all runs of the
\* program, so that the merged result counts no block twice on account of the
\* records (file_store.cc 37-57 and 49-57 of file_store.hh).
RecordsDisjoint ==
    \A n \in Node : \A i, j \in DOMAIN files[n] :
        i # j => files[n][i].record \cap files[n][j].record = {}

\* A listed block is never lost, crash or not: its counts are in the store of
\* the pair, unless writing that store had an error.
RecordedIsStored ==
    \A n \in Node : \A i \in DOMAIN files[n] : \A b \in files[n][i].record :
        files[n][i].store[n][b] = 1 \/ files[n][i].failed

\* Once listed, never counted again: no store that is written after a record
\* lists a block has counts of it.  The merger, which adds up the stores of all
\* pairs that have a record, counts a block twice only if the earlier of the
\* two records was torn by a crash and does not list it.
RecordedIsNotCountedAgain ==
    \A n \in Node : \A i, j \in DOMAIN files[n] : \A b \in files[n][i].record :
        i < j => files[n][j].store[n][b] = 0
=============================================================================
