--------------------------- MODULE BlockIterator ----------------------------
(***************************************************************************)
(* BlockIterator of src/src/block_iterator.cc: an iterator over vectors of *)
(* length_ numbers.  A coordinate runs through an interval (blocks) in     *)
(* steps, through a list (sets), or through a list that depends on where   *)
(* another coordinate is (dependent_sets).                                 *)
(*                                                                         *)
(* An iterator is a record of the object's members.  Coordinates count     *)
(* from 0 as in the code; positions in a list count from 0, its entries,   *)
(* as in every sequence here, from 1.  The end of an interval that reaches *)
(* the width of unsigned int is left out.                                  *)
(***************************************************************************)
EXTENDS Naturals, Sequences, FiniteSets, Functions

NoSets == [ix \in {} |-> <<>>]

\* The elements of a finite set from the first to the last of a strict order.
Ordered(S, before(_, _)) ==
    [k \in 1..Cardinality(S) |->
        CHOOSE x \in S : Cardinality({y \in S : before(y, x)}) = k - 1]

\* The order of the keys of a std::map, which update_order_sets and
\* update_order_dependend_sets keep.
Ascending(S) == Ordered(S, LAMBDA x, y : x < y)

Size(bounds) == bounds[2] - bounds[1]

StepSize(package_size, size) == IF package_size >= size THEN size ELSE package_size

\* The intervals of blocks with their steps, and the order they are updated in:
\* the largest first, and of two equal ones that of the higher coordinate.
UpdateOrderBlocks(blocks) ==
    Ordered(DOMAIN blocks, LAMBDA x, y :
        \/ Size(blocks[x]) > Size(blocks[y])
        \/ Size(blocks[x]) = Size(blocks[y]) /\ x > y)

InitializeBlocks(blocks, package_size) ==
    LET order == UpdateOrderBlocks(blocks)
        left[k \in 1..Len(order)] ==
            IF k = 1 THEN package_size
            ELSE left[k - 1] \div StepSize(left[k - 1], Size(blocks[order[k - 1]]))
        rank(ix) == CHOOSE k \in 1..Len(order) : order[k] = ix
    IN  [ix \in DOMAIN blocks |->
            [lbd |-> blocks[ix][1], ubd |-> blocks[ix][2],
             step |-> StepSize(left[rank(ix)], Size(blocks[ix]))]]

\* What the constructors ask for: no empty interval (it would throw), and that
\* every coordinate is a block, a set or a dependent set.
Legal(length, blocks, package_size, sets, dependent_sets) ==
    /\ package_size > 0
    /\ \A ix \in DOMAIN blocks : blocks[ix][1] < blocks[ix][2]
    /\ \A ix \in DOMAIN sets : sets[ix] # <<>>
    /\ DOMAIN blocks \cup DOMAIN sets \cup DOMAIN dependent_sets = 0..(length - 1)

NewIterator(length, blocks, package_size, sets, dependent_sets) ==
    [length |-> length,
     blocks |-> InitializeBlocks(blocks, package_size),
     sets |-> sets,
     dependent_sets |-> dependent_sets,
     order |-> Ascending(DOMAIN dependent_sets) \o Ascending(DOMAIN sets)
                 \o UpdateOrderBlocks(blocks),
     position |-> [ix \in 0..(length - 1) |->
                      IF ix \in DOMAIN blocks THEN blocks[ix][1] ELSE 0],
     has_reached_end |-> length = 0]

\* The constructor that takes one interval per coordinate.
FromBounds(bounds) == NewIterator(Cardinality(DOMAIN bounds), bounds, 1, NoSets, NoSets)

\* The list that a dependent set runs through now: the coordinate it is coupled
\* with has not been stepped yet when the dependent sets are.
DependentSet(iter, ix) ==
    LET coupled == iter.dependent_sets[ix]
    IN  coupled.sets[iter.position[coupled.index]]

\* as_position: the vector that the raw position stands for.
AsPosition(iter) ==
    [ix \in 0..(iter.length - 1) |->
        CASE ix \in DOMAIN iter.dependent_sets -> DependentSet(iter, ix)[iter.position[ix] + 1]
          [] ix \in DOMAIN iter.sets           -> iter.sets[ix][iter.position[ix] + 1]
          [] OTHER                             -> iter.position[ix]]

\* Mutant: the last step of an interval is not cut off at its end.
Clipped_not(block, lbd) == <<lbd, lbd + block.step>>

\* The part of an interval that one step covers, from lbd.
Clipped(block, lbd) ==
    <<lbd, IF lbd + block.step > block.ubd THEN block.ubd ELSE lbd + block.step>>

\* as_block: the bounds of every coordinate up to the next step.
AsBlock(iter) ==
    LET position == AsPosition(iter)
    IN  [ix \in 0..(iter.length - 1) |->
            IF ix \in DOMAIN iter.blocks
            THEN Clipped(iter.blocks[ix], position[ix])
            ELSE <<position[ix], position[ix] + 1>>]

\* as_block_enumerator: an iterator over that block, in which a coordinate with
\* a single value is a set.
AsBlockEnumerator(iter) ==
    LET bounds == AsBlock(iter)
        blocks == {ix \in DOMAIN iter.blocks : Size(bounds[ix]) > 1}
    IN  NewIterator(iter.length, Restrict(bounds, blocks), 1,
                    [ix \in 0..(iter.length - 1) \ blocks |-> <<bounds[ix][1]>>], NoSets)

\* What stepping coordinate ix alone leads to, and whether it is past its end.
Stepped(iter, ix) ==
    iter.position[ix] + (IF ix \in DOMAIN iter.blocks THEN iter.blocks[ix].step ELSE 1)

PastEnd(iter, ix) ==
    CASE ix \in DOMAIN iter.blocks -> Stepped(iter, ix) >= iter.blocks[ix].ubd
      [] ix \in DOMAIN iter.sets   -> Stepped(iter, ix) >= Len(iter.sets[ix])
      [] OTHER                     -> Stepped(iter, ix) >= Len(DependentSet(iter, ix))

\* Where a coordinate starts over.
StartOf(iter, ix) == IF ix \in DOMAIN iter.blocks THEN iter.blocks[ix].lbd ELSE 0

\* step and step_: a carry through the coordinates in the order of their
\* update; those past their end start over and carry on to the next one.
Step(iter) ==
    LET passed(k) == \A j \in 1..k : PastEnd(iter, iter.order[j])
        rank(ix) == CHOOSE k \in 1..Len(iter.order) : iter.order[k] = ix
    IN  IF iter.has_reached_end THEN iter
        ELSE [iter EXCEPT
            !.position = [ix \in DOMAIN iter.position |->
                IF passed(rank(ix)) THEN StartOf(iter, ix)
                ELSE IF passed(rank(ix) - 1) THEN Stepped(iter, ix) ELSE iter.position[ix]],
            !.has_reached_end = passed(Len(iter.order))]
=============================================================================
