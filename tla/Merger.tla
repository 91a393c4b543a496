------------------------------- MODULE Merger -------------------------------
(***************************************************************************)
(* hycu-merger (src/src/executables/merger.cc), which adds up the pairs of *)
(* files under the result path of a node, beside a run of the program that *)
(* writes them (FileStore), is killed, and started again with the same or  *)
(* with another package size.  Blocks with the same bounds are the same to *)
(* FileStore, whatever package size they come from.  The merger is started *)
(* again as well, onto the output that is there.                           *)
(*                                                                         *)
(* Of the run only what touches the files is kept: a block is counted and  *)
(* added to the static store in one step (its threads are in               *)
(* StandaloneWorkerPool).  save opens the store file before the record     *)
(* file, so that the merger's check for a missing store never fails.       *)
(***************************************************************************)
EXTENDS FileStore

CONSTANTS
    Calls,          \* of the merger, out of the ones below
    Positions,      \* per block: the curves in it
    Packagings,     \* the blocks of the node, for each package size
    MaxPairs,       \* of files written
    MaxRuns,        \* how often the run is started
    MaxMerges       \* how often the merger is

ASSUME MergerAssumption ==
    /\ NbNodes = 1
    /\ Calls \subseteq {"folder output", "type folder output", "folder", "no folder"}
    /\ DOMAIN Positions = Block
    /\ \A p \in Packagings :
         /\ p \subseteq Block
         /\ UNION {Positions[b] : b \in p} = UNION {Positions[b] : b \in Block}
    /\ MaxPairs \in Nat /\ MaxRuns \in Nat /\ MaxMerges \in Nat

VARIABLES
    main,           \* of the run: "start", "count", where it is in save, "exited"
    blocks,         \* those of its package size
    counted,        \* the blocks that it has counted
    runs,           \* how often it has been started
    torn,           \* history: a crash left an empty record file behind
    beside,         \* history: the merger has read beside a run
    merger,         \* where the merger is
    merges,         \* how often it has been started
    input, pair,    \* the pairs of input_files it has not read, and the one it reads
    merged,         \* its record and store
    output,         \* the files it writes
    cut             \* history: a merger has opened the output's store, and none has
                    \* written it since

run_vars == <<main, blocks, counted, runs, torn>>
memory_vars == <<input, pair, merged>>
merger_vars == <<merger, merges, memory_vars, output, cut>>
vars == <<store_vars, run_vars, merger_vars, beside>>

Saves == {"create_store", "write_store", "create_record", "write_record"}
Ended == {"done", "failed", "aborted", "killed"}
NoOutput == [store |-> NoCounts, witness |-> FALSE, record |-> {}]

Init ==
    /\ FileStoreInit
    /\ main = "start" /\ blocks = {} /\ counted = {} /\ runs = 0 /\ torn = FALSE
    /\ beside = FALSE
    /\ merger = "start" /\ merges = 0
    /\ input = {} /\ pair = 0 /\ merged = NothingToSave
    /\ output = NoOutput /\ cut = FALSE

-----------------------------------------------------------------------------
(* The run                                                                 *)

Start ==
    /\ main \in {"start", "exited"}
    /\ runs < MaxRuns
    /\ OpenFileStore(1)
    /\ blocks' \in Packagings
    /\ counted' = {}
    /\ runs' = runs + 1
    /\ main' = "count"
    /\ beside' = (beside \/ merger \notin {"start"} \cup Ended)
    /\ UNCHANGED <<torn, merger_vars>>

CountBlock(b) ==
    /\ main = "count"
    /\ b \in blocks \ (initial_record \cup counted)
    /\ FlushToStaticStore(b, 1)
    /\ counted' = counted \cup {b}
    /\ UNCHANGED <<main, blocks, runs, torn, beside, merger_vars>>

AllCounted == blocks \subseteq initial_record \cup counted

\* Saves are due at any time while blocks are assigned, and at the end.
StartSave ==
    /\ main = "count"
    /\ Len(files[1]) < MaxPairs
    /\ FlushStaticStore
    /\ main' = "create_store"
    /\ UNCHANGED <<blocks, counted, runs, torn, beside, merger_vars>>

\* Mutant: the record is written before the store.
SaveStep_recordFirst ==
    /\ \/ main = "create_store" /\ CreateStoreFile /\ main' = "create_record"
       \/ main = "create_record" /\ CreateRecordFile /\ main' = "write_record"
       \/ /\ main = "write_record"
          /\ files' = [files EXCEPT ![1][Current].record = saving.record]
          /\ main' = "write_store"
          /\ UNCHANGED <<static_record, static_store, file_store, initial_record, saving>>
       \/ main = "write_store" /\ WriteStoreFile
            /\ main' \in {"count"} \cup (IF AllCounted THEN {"exited"} ELSE {})
    /\ UNCHANGED <<blocks, counted, runs, torn, beside, merger_vars>>

SaveStep ==
    /\ \/ main = "create_store" /\ CreateStoreFile /\ main' = "write_store"
       \/ main = "write_store" /\ WriteStoreFile /\ main' = "create_record"
       \/ main = "create_record" /\ CreateRecordFile /\ main' = "write_record"
       \/ main = "write_record" /\ WriteRecordFile
            /\ main' \in {"count"} \cup (IF AllCounted THEN {"exited"} ELSE {})
    /\ UNCHANGED <<blocks, counted, runs, torn, beside, merger_vars>>

\* The program is killed; what it has in memory is lost.
Crash ==
    /\ main \in Saves \cup {"count"}
    /\ torn' = (torn \/ (main = "write_record" /\ saving.record # {}))
    /\ static_record' = {} /\ static_store' = NoCounts /\ file_store' = NoNode
    /\ initial_record' = {} /\ saving' = NothingToSave
    /\ blocks' = {} /\ counted' = {}
    /\ main' = "start"
    /\ UNCHANGED <<files, runs, beside, merger_vars>>

Run == Start \/ (\E b \in Block : CountBlock(b)) \/ StartSave \/ SaveStep \/ Crash

-----------------------------------------------------------------------------
(* The merger                                                              *)

\* main: there are two positional options, a third one is an exception that
\* nothing catches.  The folder is listed once.
StartMerger ==
    /\ merger \in {"start"} \cup Ended
    /\ merges < MaxMerges
    /\ merges' = merges + 1
    /\ beside' = (main # "exited")
    /\ \E call \in Calls :
         /\ merger' = CASE call = "folder output"      -> "pairs"
                        [] call = "type folder output" -> "aborted"
                        [] OTHER                       -> "failed"
         /\ input' = IF call = "folder output" THEN {i \in DOMAIN files[1] : files[1][i].witness}
                     ELSE {}
    /\ UNCHANGED <<store_vars, run_vars, pair, merged, output, cut>>

Added(s, t) == [n \in Node |-> [b \in Block |-> s[n][b] + t[n][b]]]

\* One round of the loop: the record of a pair is read, then its store.
MergePair ==
    /\ \/ /\ merger = "pairs"
          /\ pair' \in input
          /\ merged' = [merged EXCEPT !.record = @ \cup files[1][pair'].record]
          /\ input' = input \ {pair'}
          /\ merger' = "store"
       \/ /\ merger = "store"
          /\ merged' = [merged EXCEPT !.store = Added(@, files[1][pair].store)]
          /\ merger' = "pairs"
          /\ UNCHANGED <<pair, input>>
    /\ UNCHANGED <<store_vars, run_vars, beside, merges, output, cut>>

\* The memory of a merger that has ended.
Forget == input' = {} /\ pair' = 0 /\ merged' = NothingToSave

\* The store is written, then the record.  ios_base::out creates a file that is not
\* there, and empties one that is: the store at once, while the record of the merge
\* before is there until its turn comes.
WriteOutput ==
    /\ \/ /\ merger = "pairs" /\ input = {}
          /\ output' = [output EXCEPT !.store = NoCounts]
          /\ merger' = "write_store" /\ cut' = TRUE
          /\ UNCHANGED memory_vars
       \/ /\ merger = "write_store"
          /\ output' = [output EXCEPT !.store = merged.store]
          /\ merger' = "create_record" /\ cut' = FALSE
          /\ UNCHANGED memory_vars
       \/ /\ merger = "create_record"
          /\ output' = [output EXCEPT !.witness = TRUE, !.record = {}]
          /\ merger' = "write_record"
          /\ UNCHANGED <<memory_vars, cut>>
       \/ /\ merger = "write_record"
          /\ output' = [output EXCEPT !.record = merged.record]
          /\ merger' = "done"
          /\ Forget
          /\ UNCHANGED cut
    /\ UNCHANGED <<store_vars, run_vars, beside, merges>>

MergerCrash ==
    /\ merger \notin {"start"} \cup Ended
    /\ merger' = "killed"
    /\ Forget
    /\ UNCHANGED <<store_vars, run_vars, beside, merges, output, cut>>

Merge == StartMerger \/ MergePair \/ WriteOutput

Next == Run \/ Merge \/ MergerCrash

Spec == Init /\ [][Next]_vars

-----------------------------------------------------------------------------

\* "save record second as a witness to successful writing" (merger.cc:159,
\* file_store.cc:71): what the record of the output lists is in its store, though
\* the run may be writing the pair that is read, either may be killed, and the record
\* may still be that of an earlier merge; unless a merger was killed when it had
\* opened, and so emptied, the store.
ListedIsStoredUnlessCut == ~ cut => \A b \in output.record : output.store[1][b] > 0

\* No block is counted twice in the result, whenever the run was killed, saved,
\* is being read or was started with another package size, but for a record file
\* that a crash left empty.
MergedOnceUnlessTorn == ~torn => \A b \in Block : merged.store[1][b] <= 1

\* After a run that ended, the result has every curve, in the blocks that its
\* record lists and each of these once.
MergedIsComplete ==
    merger = "done" /\ ~beside /\ ~torn =>
        /\ output.store = Once(1, output.record)
        /\ UNION {Positions[b] : b \in output.record}
              = UNION {Positions[b] : b \in Block}
=============================================================================
