------------------------------- MODULE Store --------------------------------
(***************************************************************************)
(* Store of src/src/store/store.cc with the curve data of curve_data.cc    *)
(* and counts: maps from the ramification type and the Hasse-Weil offsets  *)
(* of curves to how many there are.  A map is a function; a count is a     *)
(* number of any size (that large ones are pointers is the module          *)
(* CountValue).                                                            *)
(***************************************************************************)
EXTENDS Integers, Sequences, FiniteSets, SequencesExt

EmptyStore == [key \in {} |-> 0]

\* twist: every other offset changes its sign, the first one too.
Twist(key) ==
    [key EXCEPT !.hasse_weil_offsets =
        [i \in DOMAIN key.hasse_weil_offsets |->
            IF i % 2 = 1 THEN -key.hasse_weil_offsets[i] ELSE key.hasse_weil_offsets[i]]]

\* store[key] = n and store[key] += n.
Assigned(store, key, n) ==
    [k \in DOMAIN store \cup {key} |-> IF k = key THEN n ELSE store[k]]
Increased(store, key, n) ==
    Assigned(store, key, (IF key \in DOMAIN store THEN store[key] ELSE 0) + n)

\* register_curve, 54-66: the curve and its twist.
RegisterCurve(store, key, data) ==
    IF key \in DOMAIN store THEN Increased(Increased(store, key, data), Twist(key), data)
    ELSE IF Twist(key) = key THEN Increased(Assigned(store, key, data), key, data)
    ELSE Assigned(Assigned(store, key, data), Twist(key), data)

\* flush_to_static_store, 83-88.
MergedInto(static_store, store) ==
    [k \in DOMAIN static_store \cup DOMAIN store |->
        CASE k \notin DOMAIN store        -> static_store[k]
          [] k \notin DOMAIN static_store -> store[k]
          [] OTHER                        -> static_store[k] + store[k]]

-----------------------------------------------------------------------------
(* Files                                                                   *)

\* The order of std::vector, and that of keys in a map.
LexLess(s, t) ==
    \E n \in 0..Len(s) :
        /\ n < Len(t)
        /\ SubSeq(s, 1, n) = SubSeq(t, 1, n)
        /\ n = Len(s) \/ s[n + 1] < t[n + 1]
KeyLess(k, l) ==
    \/ LexLess(k.ramification_type, l.ramification_type)
    \/ /\ k.ramification_type = l.ramification_type
       /\ LexLess(k.hasse_weil_offsets, l.hasse_weil_offsets)

\* insert: a line for each key, in their order.  The text of a key is the two
\* lists of numbers.
Inserted(store) ==
    [i \in 1..Cardinality(DOMAIN store) |->
        LET key == CHOOSE k \in DOMAIN store :
                      Cardinality({l \in DOMAIN store : KeyLess(l, k)}) = i - 1
        IN  [key |-> key, count |-> store[key]]]

\* The constructor from a string: it reads a number before it looks whether there
\* is one, and keeps the last one when there is not.
Parsed(text) ==
    IF text.ramification_type = <<>>
    THEN [ramification_type |-> <<0>>, hasse_weil_offsets |-> <<>>]
    ELSE IF text.hasse_weil_offsets = <<>>
    THEN [text EXCEPT !.hasse_weil_offsets = <<Last(text.ramification_type)>>]
    ELSE text

\* extract: the lines of a file are added to a store.
Extracted(store, lines) ==
    FoldLeft(LAMBDA s, line : Increased(s, Parsed(line.key), line.count), store, lines)

\* FileStore::insert and extract of records: the reader finds one more, empty
\* block after the last line.
RecordLines(record) == record
ExtractedRecord(record, lines) ==
    IF lines = {} THEN record ELSE record \cup lines \cup {<<>>}
=============================================================================
