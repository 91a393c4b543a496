--------------------------- MODULE FileStoreProofs ---------------------------
(***************************************************************************)
(* What the steps of FileStore::save do to the pairs of files, for any     *)
(* nodes, blocks and pairs.  The proofs about the two pools and the merger *)
(* share these lemmas.                                                     *)
(***************************************************************************)
EXTENDS FileStore, TLAPS, SequenceTheorems

\* What is promised of the files whatever fails.
FilesInv == RecordsDisjoint /\ RecordedIsStored /\ RecordedIsNotCountedAgain

\* The pair that save is working on is replaced.
LastBecomes(p) ==
    files' = [files EXCEPT ![file_store] = [files[file_store] EXCEPT ![Current] = p]]

\* Save is working on a pair.
PairInUse ==
    /\ files \in [Node -> Seq(FilePair)]
    /\ file_store \in Node
    /\ files[file_store] # <<>>
    /\ saving \in Saving

\* What save is about to list are counts of blocks that no record lists.
SavingIsNew ==
    /\ saving.store = Once(file_store, saving.record)
    /\ saving.record \cap Recorded(file_store) = {}

-----------------------------------------------------------------------------
(* Counts                                                                  *)

LEMMA OnceEmpty == \A n : Once(n, {}) = NoCounts
  BY DEF Once, NoCounts

LEMMA OnceType == \A n, record : Once(n, record) \in Counts
  BY DEF Once, Counts

LEMMA NothingToSaveType ==
    /\ NoCounts \in Counts /\ NothingToSave \in Saving
    /\ NothingToSave.record = {} /\ NothingToSave.store = NoCounts
  BY DEF NoCounts, Counts, NothingToSave, Saving

\* Adding in a block that is not there yet.
LEMMA OnceAdd ==
    ASSUME NEW n \in Node, NEW record \in SUBSET Block, NEW b \in Block, b \notin record
    PROVE  [Once(n, record) EXCEPT ![n][b] = @ + 1] = Once(n, record \cup {b})
  <1>. DEFINE f == Once(n, record)
              g == [f EXCEPT ![n][b] = @ + 1]
              h == Once(n, record \cup {b})
  <1>1. g = [m \in Node |-> IF m = n THEN [f[n] EXCEPT ![b] = @ + 1] ELSE f[m]]
    BY DEF Once
  <1>2. f[n] = [c \in Block |-> IF c \in record THEN 1 ELSE 0]
    BY DEF Once
  <1>3. [f[n] EXCEPT ![b] = @ + 1] = [c \in Block |-> IF c \in record \cup {b} THEN 1 ELSE 0]
    BY <1>2
  <1>4. \A m \in Node : m # n => f[m] = h[m]
    BY DEF Once
  <1>5. h = [m \in Node |-> h[m]] /\ h[n] = [c \in Block |-> IF c \in record \cup {b} THEN 1 ELSE 0]
    BY DEF Once
  <1>. HIDE DEF f, h
  <1>6. g = [m \in Node |-> g[m]]
    BY <1>1
  <1>7. \A m \in Node : g[m] = h[m]
    BY <1>1, <1>3, <1>4, <1>5
  <1>. HIDE DEF g
  <1>8. g = h
    BY <1>5, <1>6, <1>7
  <1>. QED
    BY <1>8 DEF f, g, h

\* Records list blocks.
LEMMA RecordedType ==
    ASSUME files \in [Node -> Seq(FilePair)], NEW n \in Node
    PROVE  /\ Recorded(n) \subseteq Block
           /\ \A i \in DOMAIN files[n] :
                files[n][i] \in FilePair /\ files[n][i].record \subseteq Recorded(n)
  <1>1. \A i \in DOMAIN files[n] : files[n][i] \in FilePair
    BY ElementOfSeq
  <1>2. \A i \in DOMAIN files[n] : files[n][i].record \subseteq Block
    BY <1>1 DEF FilePair
  <1>. QED
    BY <1>1, <1>2 DEF Recorded

-----------------------------------------------------------------------------
(* The shape of the files after a step of save                             *)

\* A new pair, empty, under the path in use.
LEMMA PairAdded ==
    ASSUME files \in [Node -> Seq(FilePair)], file_store \in Node, CreateStoreFile
    PROVE  /\ files' \in [Node -> Seq(FilePair)]
           /\ \A n \in Node : n # file_store => files'[n] = files[n]
           /\ LET old == files[file_store]
                  new == files'[file_store]
              IN  /\ DOMAIN new = 1 .. Len(old) + 1 /\ Len(new) = Len(old) + 1
                  /\ DOMAIN old = 1 .. Len(old) /\ Len(old) \in Nat
                  /\ \A i \in DOMAIN old : new[i] = old[i]
                  /\ new[Len(new)] = [store |-> NoCounts, witness |-> FALSE,
                                      record |-> {}, failed |-> FALSE]
           /\ \A n \in Node : Recorded(n)' = Recorded(n)
  <1>. DEFINE pair == [store |-> NoCounts, witness |-> FALSE, record |-> {}, failed |-> FALSE]
              old == files[file_store]
              new == files'[file_store]
  <1>1. old \in Seq(FilePair) /\ Len(old) \in Nat /\ DOMAIN old = 1 .. Len(old)
    BY LenProperties
  <1>2. pair \in FilePair
    BY DEF FilePair, NoCounts, Counts
  <1>3. /\ \A n \in Node : n # file_store => files'[n] = files[n]
        /\ new = Append(old, pair)
        /\ DOMAIN files' = Node /\ files' = [n \in Node |-> files'[n]]
    BY DEF CreateStoreFile
  <1>. HIDE DEF pair
  <1>4. new \in Seq(FilePair) /\ Len(new) = Len(old) + 1 /\ new[Len(old) + 1] = pair
        /\ \A i \in 1 .. Len(old) : new[i] = old[i]
    BY <1>1, <1>2, <1>3, AppendProperties
  <1>5. DOMAIN new = 1 .. Len(old) + 1
    BY <1>4, LenProperties
  <1>6. files' \in [Node -> Seq(FilePair)]
    BY <1>3, <1>4
  <1>7. ASSUME NEW n \in Node PROVE Recorded(n)' = Recorded(n)
    <2>1. CASE n # file_store
      BY <1>3, <2>1 DEF Recorded
    <2>2. CASE n = file_store
      <3>1. pair.record = {}
        BY DEF pair
      <3>2. \A x : (\E i \in DOMAIN new : x \in new[i].record)
                   <=> (\E i \in DOMAIN old : x \in old[i].record)
        BY <1>1, <1>4, <1>5, <3>1
      <3>3. Recorded(n)' = UNION {new[i].record : i \in DOMAIN new}
        BY <2>2 DEF Recorded
      <3>4. Recorded(n) = UNION {old[i].record : i \in DOMAIN old}
        BY <2>2 DEF Recorded
      <3>. QED
        BY <3>2, <3>3, <3>4
    <2>. QED
      BY <2>1, <2>2
  <1>. QED
    BY <1>1, <1>3, <1>4, <1>5, <1>6, <1>7 DEF pair

\* The last pair under the path in use is replaced by p, which lists all that it did.
LEMMA PairReplaced ==
    ASSUME PairInUse, NEW p \in FilePair, LastBecomes(p),
           files[file_store][Current].record \subseteq p.record
    PROVE  /\ files' \in [Node -> Seq(FilePair)]
           /\ \A n \in Node : n # file_store => files'[n] = files[n]
           /\ LET old == files[file_store]
                  new == files'[file_store]
              IN  /\ DOMAIN new = DOMAIN old /\ Len(new) = Len(old)
                  /\ DOMAIN old = 1 .. Len(old) /\ Len(old) \in DOMAIN old
                  /\ \A i \in DOMAIN old : i # Len(old) => new[i] = old[i]
                  /\ new[Len(old)] = p
           /\ \A n \in Node :
                Recorded(n)' = IF n = file_store THEN Recorded(n) \cup p.record ELSE Recorded(n)
  <1>. DEFINE old == files[file_store]
              new == files'[file_store]
              c == Len(old)
  <1>1. /\ old \in Seq(FilePair) /\ old # <<>>
        /\ c \in Nat /\ DOMAIN old = 1 .. c /\ c \in DOMAIN old
    BY LenProperties, EmptySeq DEF PairInUse
  <1>2. /\ \A n \in Node : n # file_store => files'[n] = files[n]
        /\ new = [old EXCEPT ![c] = p]
        /\ files' = [n \in Node |-> files'[n]]
    BY DEF LastBecomes, Current, PairInUse
  <1>3. /\ new \in Seq(FilePair) /\ Len(new) = c /\ new[c] = p
        /\ \A i \in 1 .. c : i # c => new[i] = old[i]
    BY <1>1, <1>2, ExceptSeq
  <1>4. DOMAIN new = DOMAIN old
    BY <1>1, <1>2
  <1>5. files' \in [Node -> Seq(FilePair)]
    BY <1>2, <1>3 DEF PairInUse
  <1>6. ASSUME NEW n \in Node, n = file_store
        PROVE  Recorded(n)' = Recorded(n) \cup p.record
    <2>1. Recorded(n)' = UNION {new[i].record : i \in DOMAIN old}
      BY <1>4, <1>6 DEF Recorded
    <2>2. Recorded(n) = UNION {old[i].record : i \in DOMAIN old}
      BY <1>6 DEF Recorded
    <2>3. old[c].record \subseteq p.record
      BY DEF Current
    <2>4. \A x : (\E i \in DOMAIN old : x \in new[i].record)
                 <=> (\E i \in DOMAIN old : x \in old[i].record) \/ x \in p.record
      BY <1>1, <1>3, <2>3
    <2>. QED
      BY <2>1, <2>2, <2>4
  <1>7. ASSUME NEW n \in Node, n # file_store
        PROVE  Recorded(n)' = Recorded(n)
    BY <1>2, <1>7 DEF Recorded
  <1>. QED
    BY <1>1, <1>2, <1>3, <1>4, <1>5, <1>6, <1>7

\* What each step of save makes of the last pair.
LEMMA LastPairSteps ==
    ASSUME PairInUse
    PROVE  LET pair == files[file_store][Current]
           IN  /\ pair \in FilePair
               /\ WriteStoreFile =>
                    LET p == [pair EXCEPT !.store = saving.store]
                    IN  p \in FilePair /\ LastBecomes(p)
               /\ FailStoreFile =>
                    LET p == [pair EXCEPT !.failed = TRUE]
                    IN  p \in FilePair /\ LastBecomes(p)
               /\ CreateRecordFile =>
                    LET p == [pair EXCEPT !.witness = TRUE]
                    IN  p \in FilePair /\ LastBecomes(p)
               /\ \A part \in SUBSET saving.record :
                    files' = [files EXCEPT ![file_store][Current].record = part] =>
                       LET p == [pair EXCEPT !.record = part]
                       IN  p \in FilePair /\ LastBecomes(p)
  <1>. DEFINE pair == files[file_store][Current]
  <1>1. pair \in FilePair
    <2>1. files[file_store] \in Seq(FilePair)
      BY DEF PairInUse
    <2>2. Current \in 1 .. Len(files[file_store])
      BY <2>1, EmptySeq DEF PairInUse, Current
    <2>. QED
      BY <2>1, <2>2, ElementOfSeq
  <1>2. saving.store \in Counts /\ saving.record \subseteq Block
    BY DEF PairInUse, Saving
  <1>3. WriteStoreFile => LastBecomes([pair EXCEPT !.store = saving.store])
    BY DEF PairInUse, WriteStoreFile, LastBecomes
  <1>4. FailStoreFile => LastBecomes([pair EXCEPT !.failed = TRUE])
    BY DEF PairInUse, FailStoreFile, LastBecomes
  <1>5. CreateRecordFile => LastBecomes([pair EXCEPT !.witness = TRUE])
    BY DEF PairInUse, CreateRecordFile, LastBecomes
  <1>6. ASSUME NEW part \in SUBSET saving.record,
               files' = [files EXCEPT ![file_store][Current].record = part]
        PROVE  LastBecomes([pair EXCEPT !.record = part])
    BY <1>6 DEF PairInUse, LastBecomes
  <1>7. ASSUME NEW part \in SUBSET saving.record
        PROVE  [pair EXCEPT !.record = part] \in FilePair
    BY <1>1, <1>2 DEF FilePair
  <1>8. /\ [pair EXCEPT !.store = saving.store] \in FilePair
        /\ [pair EXCEPT !.failed = TRUE] \in FilePair
        /\ [pair EXCEPT !.witness = TRUE] \in FilePair
    BY <1>1, <1>2 DEF FilePair
  <1>. QED
    BY <1>1, <1>3, <1>4, <1>5, <1>6, <1>7, <1>8

-----------------------------------------------------------------------------
(* What is promised of the files                                           *)

LEMMA FilesInvFrame == FilesInv /\ UNCHANGED files => FilesInv'
  BY DEF FilesInv, RecordsDisjoint, RecordedIsStored, RecordedIsNotCountedAgain

LEMMA PairAddedFilesInv ==
    ASSUME files \in [Node -> Seq(FilePair)], file_store \in Node, CreateStoreFile, FilesInv
    PROVE  FilesInv'
  <1>. DEFINE old == files[file_store]
              new == files'[file_store]
              c == Len(old) + 1
  <1>1. /\ \A n \in Node : n # file_store => files'[n] = files[n]
        /\ DOMAIN new = 1 .. c /\ Len(new) = c /\ c \in Nat
        /\ DOMAIN old = 1 .. c - 1
        /\ \A i \in 1 .. c : i # c => i \in DOMAIN old /\ new[i] = old[i]
        /\ new[c].record = {} /\ new[c].store = NoCounts
    BY PairAdded
  <1>2. \A n \in Node, b \in Block : NoCounts[n][b] = 0
    BY DEF NoCounts
  <1>. HIDE DEF c
  <1>3. RecordsDisjoint'
    <2>. SUFFICES ASSUME NEW n \in Node, NEW i \in DOMAIN files'[n], NEW j \in DOMAIN files'[n],
                         i # j
                  PROVE  files'[n][i].record \cap files'[n][j].record = {}
      BY DEF RecordsDisjoint
    <2>1. CASE n # file_store
      BY <1>1, <2>1 DEF FilesInv, RecordsDisjoint
    <2>2. CASE n = file_store
      BY <1>1, <2>2 DEF FilesInv, RecordsDisjoint
    <2>. QED
      BY <2>1, <2>2
  <1>4. RecordedIsStored'
    BY <1>1 DEF FilesInv, RecordedIsStored
  <1>5. RecordedIsNotCountedAgain'
    <2>. SUFFICES ASSUME NEW n \in Node, NEW i \in DOMAIN files'[n], NEW j \in DOMAIN files'[n],
                         NEW b \in files'[n][i].record, i < j
                  PROVE  files'[n][j].store[n][b] = 0
      BY DEF RecordedIsNotCountedAgain
    <2>1. CASE n # file_store
      BY <1>1, <2>1 DEF FilesInv, RecordedIsNotCountedAgain
    <2>2. CASE n = file_store
      <3>1. i \in DOMAIN old /\ files'[n][i] = old[i] /\ i # c
        BY <1>1, <2>2
      <3>2. CASE j # c
        <4>1. j \in DOMAIN old /\ files'[n][j] = old[j]
          BY <1>1, <2>2, <3>2
        <4>2. b \in files[n][i].record /\ i \in DOMAIN files[n] /\ j \in DOMAIN files[n]
          BY <2>2, <3>1, <4>1
        <4>3. files[n][j].store[n][b] = 0
          BY <4>2 DEF FilesInv, RecordedIsNotCountedAgain
        <4>. QED
          BY <2>2, <4>1, <4>3
      <3>3. CASE j = c
        BY <1>1, <1>2, <2>2, <3>1, <3>3, RecordedType
      <3>. QED
        BY <3>2, <3>3
    <2>. QED
      BY <2>1, <2>2
  <1>. QED
    BY <1>3, <1>4, <1>5 DEF FilesInv

\* The last pair lists nothing yet.  It may come to list blocks of the save under
\* way, and may get the counts being saved.
LEMMA PairReplacedFilesInv ==
    ASSUME PairInUse, SavingIsNew, FilesInv, NEW p \in FilePair, LastBecomes(p),
           files[file_store][Current].record = {},
           p.record \subseteq saving.record,
           \A b \in p.record : p.store[file_store][b] = 1 \/ p.failed,
           p.store = files[file_store][Current].store \/ p.store = saving.store
    PROVE  FilesInv'
  <1>. DEFINE old == files[file_store]
              new == files'[file_store]
              c == Len(old)
  <1>1. /\ \A n \in Node : n # file_store => files'[n] = files[n]
        /\ DOMAIN new = DOMAIN old /\ DOMAIN old = 1 .. c /\ c \in DOMAIN old /\ c \in Nat
        /\ \A i \in DOMAIN old : i # c => new[i] = old[i]
        /\ new[c] = p
    <2>1. c \in Nat
      BY LenProperties DEF PairInUse
    <2>. QED
      BY <2>1, PairReplaced
  <1>2. old[c].record = {}
    BY DEF Current
  <1>3. /\ \A i \in DOMAIN old : old[i].record \subseteq Recorded(file_store)
        /\ Recorded(file_store) \subseteq Block
    BY RecordedType DEF PairInUse
  <1>4. saving.store = Once(file_store, saving.record)
        /\ saving.record \cap Recorded(file_store) = {}
    BY DEF SavingIsNew
  <1>5. p.store = old[c].store \/ p.store = saving.store
    BY DEF Current
  <1>6. file_store \in Node
    BY DEF PairInUse
  <1>. HIDE DEF c
  <1>7. RecordsDisjoint'
    <2>. SUFFICES ASSUME NEW n \in Node, NEW i \in DOMAIN files'[n], NEW j \in DOMAIN files'[n],
                         i # j
                  PROVE  files'[n][i].record \cap files'[n][j].record = {}
      BY DEF RecordsDisjoint
    <2>1. CASE n # file_store
      BY <1>1, <2>1 DEF FilesInv, RecordsDisjoint
    <2>2. CASE n = file_store
      <3>1. \A k \in DOMAIN old : k # c => new[k].record \cap p.record = {}
        BY <1>1, <1>3, <1>4
      <3>2. \A k, l \in DOMAIN old : k # l => old[k].record \cap old[l].record = {}
        BY <1>6 DEF FilesInv, RecordsDisjoint
      <3>. QED
        BY <1>1, <2>2, <3>1, <3>2
    <2>. QED
      BY <2>1, <2>2
  <1>8. RecordedIsStored'
    <2>. SUFFICES ASSUME NEW n \in Node, NEW i \in DOMAIN files'[n], NEW b \in files'[n][i].record
                  PROVE  files'[n][i].store[n][b] = 1 \/ files'[n][i].failed
      BY DEF RecordedIsStored
    <2>1. CASE n # file_store \/ i # c
      BY <1>1, <1>6, <2>1 DEF FilesInv, RecordedIsStored
    <2>2. CASE n = file_store /\ i = c
      BY <1>1, <2>2
    <2>. QED
      BY <2>1, <2>2
  <1>9. RecordedIsNotCountedAgain'
    <2>. SUFFICES ASSUME NEW n \in Node, NEW i \in DOMAIN files'[n], NEW j \in DOMAIN files'[n],
                         NEW b \in files'[n][i].record, i < j
                  PROVE  files'[n][j].store[n][b] = 0
      BY DEF RecordedIsNotCountedAgain
    <2>1. CASE n # file_store
      BY <1>1, <2>1 DEF FilesInv, RecordedIsNotCountedAgain
    <2>2. CASE n = file_store
      <3>1. i # c /\ i \in DOMAIN old /\ j \in DOMAIN old /\ b \in old[i].record
        BY <1>1, <2>2
      <3>2. old[j].store[n][b] = 0
        BY <1>6, <2>2, <3>1 DEF FilesInv, RecordedIsNotCountedAgain
      <3>3. saving.store[n][b] = 0
        <4>1. b \in Recorded(file_store) /\ b \notin saving.record /\ b \in Block
          BY <1>3, <1>4, <3>1
        <4>. QED
          BY <1>4, <1>6, <2>2, <4>1 DEF Once
      <3>. QED
        BY <1>1, <1>5, <2>2, <3>1, <3>2, <3>3
    <2>. QED
      BY <2>1, <2>2
  <1>. QED
    BY <1>7, <1>8, <1>9 DEF FilesInv
=============================================================================
