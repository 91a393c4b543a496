----------------------------- MODULE PointCount -----------------------------
(***************************************************************************)
(* What hycu-threaded and hycu-mpi promise of the records they write:      *)
(* blocks are recorded in batches, no block twice, and a node is begun     *)
(* only when the nodes before it are complete.  What is recorded stays     *)
(* recorded, also over a crash of the program.                             *)
(***************************************************************************)
EXTENDS Config

VARIABLE recorded       \* per node: the blocks that some record lists

Init == recorded = [n \in Node |-> {}]

Record(n) ==
    /\ \A m \in 1 .. n - 1 : recorded[m] = Block
    /\ \E batch \in SUBSET (Block \ recorded[n]) :
        /\ batch # {}
        /\ recorded' = [recorded EXCEPT ![n] = @ \cup batch]

Next == \E n \in Node : Record(n)

Spec == Init /\ [][Next]_recorded
=============================================================================
