------------------------- MODULE MCCurveEnumeration -------------------------
(***************************************************************************)
(* Nodes over the field with Prime elements, and arguments of              *)
(* BlockIterator: those of src/test/block_iterator.cc, and what the test   *)
(* leaves out - dependent sets together with blocks that are split, a      *)
(* dependent set on a block, intervals that no step divides, sets only.    *)
(***************************************************************************)
EXTENDS CurveEnumeration, TLC

Text(genus, with_marked_point, package_size) ==
    [Prime |-> Prime, PrimeExponent |-> PrimeExponent, Genus |-> genus,
     WithMarkedPoint |-> with_marked_point, ResultPath |-> "results",
     PackageSize |-> package_size]

\* The prime five is greater than the degrees of genus one, a divisor of a degree
\* of genus two, and less than the other.  A size of -1 is the largest one, nodes
\* with a zero are not verified, and one without WithMarkedPoint, as those of the
\* README are, is not decoded.
MCTexts ==
    {Text(1, FALSE, n) : n \in {1, 3, 7}} \cup {Text(2, m, n) : m \in BOOLEAN, n \in {6, 50, -1}}
      \cup {Text(0, TRUE, 5), Text(1, TRUE, 0),
              Restrict(Text(1, TRUE, 5), Required)}
MCWalked == {Text(1, FALSE, n) : n \in {3, 7}}
MCCompared == {Text(1, FALSE, 3), Text(2, FALSE, 50)}

Args(length, blocks, package_size, sets, dependent_sets) ==
    [length |-> length, blocks |-> blocks, package_size |-> package_size,
     sets |-> sets, dependent_sets |-> dependent_sets]

On(index, sets) == [index |-> index, sets |-> sets]

MCArguments ==
    \* the tests blocks, blocks_sets_package_position and
    \* blocks_package_block_enumerator
    {Args(3, 0 :> <<2, 4>> @@ 1 :> <<5, 9>> @@ 2 :> <<0, 1>>, n, NoSets, NoSets) : n \in 1..9}
    \cup
    {Args(4, 0 :> <<2, 10>> @@ 1 :> <<5, 7>>, n, 2 :> <<9, 7>> @@ 3 :> <<3>>, NoSets)
        : n \in {1, 3, 5, 16}}
    \cup
    {Args(3, 0 :> <<2, 9>> @@ 1 :> <<5, 7>> @@ 2 :> <<8, 10>>, n, NoSets, NoSets)
        : n \in {2, 4, 14, 15}}
    \cup
    \* the tests sets and dependent_sets
    {Args(3, NoSets, 1, 0 :> <<5, 7>> @@ 1 :> <<3>> @@ 2 :> <<9, 13>>, NoSets),
     Args(2, NoSets, 1, 0 :> <<5, 7>>, 1 :> On(0, 0 :> <<2, 4>> @@ 1 :> <<3, 6>>))}
    \cup
    \* a set, dependent sets of different lengths on it, and split intervals
    {Args(4, 0 :> <<0, 5>> @@ 1 :> <<0, 3>>, n, 3 :> <<6, 4>>,
          2 :> On(3, 0 :> <<1, 0>> @@ 1 :> <<2>>)) : n \in {1, 2, 4, 7, 15}}
    \cup
    {Args(4, 0 :> <<1, 4>>, 2, 1 :> <<5, 8>> @@ 3 :> <<0>>,
          2 :> On(1, 0 :> <<3>> @@ 1 :> <<7, 9, 8>>))}
    \cup
    \* a dependent set on an interval, which needs steps of one
    {Args(3, 1 :> <<2, 4>> @@ 2 :> <<0, 2>>, 1, NoSets,
          0 :> On(1, 2 :> <<4, 6, 1>> @@ 3 :> <<5>>))}
=============================================================================
