-------------------------- MODULE CurveEnumeration --------------------------
(***************************************************************************)
(* The loop of hycu-threaded and hycu-mpi over the blocks of curves of one *)
(* configuration node (executables/threaded.cc, 136-147), the loop of a    *)
(* thread over the positions of a block (threaded/thread.cc, 87), and what *)
(* the multiplicities that the store adds up make of the curves.           *)
(*                                                                         *)
(* Next to nodes this is about iterators over blocks by themselves, with   *)
(* arguments that CurveIterator does not use: one such iterator stands for *)
(* a CurveIterator with a single enumerator.                               *)
(***************************************************************************)
EXTENDS CurveIterator, ConfigNode

CONSTANTS
    Texts,      \* nodes of the configuration file
    Arguments,  \* of BlockIterator
    Walked,     \* the nodes whose blocks are run through position by position
    Compared    \* the nodes whose curves are compared orbit by orbit

NoText == [key \in {} |-> 0]

ASSUME CurveEnumerationAssumption ==
    /\ Prime % 2 = 1
    /\ NoText \notin Texts
    /\ Walked \cup Compared \subseteq Texts
    /\ \A a \in Arguments :
         Legal(a.length, a.blocks, a.package_size, a.sets, a.dependent_sets)

VARIABLES
    text,           \* the node, or NoText
    curves,         \* the CurveIterator
    described,      \* history: the positions that its enumerators describe
    pc,             \* "block": a block is to be handed out; "position": a thread has it
    inner,          \* its iterator over the positions of the block
    handed_out,     \* the blocks assigned so far
    counted         \* the positions counted, in their order

vars == <<text, curves, described, pc, inner, handed_out, counted>>

\* What an iterator is to run through: each interval contributes all its
\* numbers, each set its entries, and a dependent set the entries of the list
\* that belongs to where the other coordinate is - in its set, or its interval.
Described(iter) ==
    LET indices == 0..(iter.length - 1)
        choices(ix) ==
            CASE ix \in DOMAIN iter.blocks -> iter.blocks[ix].lbd..(iter.blocks[ix].ubd - 1)
              [] ix \in DOMAIN iter.sets   -> Range(iter.sets[ix])
              [] OTHER -> UNION {Range(s) : s \in Range(iter.dependent_sets[ix].sets)}
        list(p, ix) ==
            LET on == iter.dependent_sets[ix].index
            IN  IF on \in DOMAIN iter.blocks THEN iter.dependent_sets[ix].sets[p[on]]
                ELSE iter.dependent_sets[ix].sets[
                        CHOOSE k \in 0..(Len(iter.sets[on]) - 1) : iter.sets[on][k + 1] = p[on]]
        upTo[n \in 0..iter.length] ==
            IF n = 0 THEN {<<>>}
            ELSE {Append(f, x) : f \in upTo[n - 1], x \in choices(n - 1)}
    IN  {p \in {[ix \in indices |-> f[ix + 1]] : f \in upTo[iter.length]} :
            \A ix \in DOMAIN iter.dependent_sets : p[ix] \in Range(list(p, ix))}

Walks == text \in Walked \cup {NoText}

\* The node is decoded and verified; main does not go on with it otherwise.
Init ==
    /\ \/ /\ text \in Texts
          /\ LET node == Decoded(text)
             IN  curves = IF IsDecodable(text) /\ IsVerified(node)
                          THEN NewCurveIterator(node.genus, node.with_marked_point,
                                                node.package_size)
                          ELSE <<>>
       \/ /\ text = NoText
          /\ curves \in {<<NewIterator(a.length, a.blocks, a.package_size, a.sets,
                                       a.dependent_sets)>> : a \in Arguments}
    /\ described = IF Walks THEN UNION {Described(curves[i]) : i \in DOMAIN curves} ELSE {}
    /\ pc = "block"
    /\ inner = FromBounds(NoSets)
    /\ handed_out = <<>>
    /\ counted = <<>>

\* A block is handed out, and a thread makes its own iterator of it.
OpenBlock(enumerator) ==
    /\ pc = "block"
    /\ ~IsEnd(curves)
    /\ Walks
    /\ handed_out' = Append(handed_out, AsBlock(Head(curves)))
    /\ inner' = enumerator
    /\ pc' = "position"
    /\ UNCHANGED <<text, curves, described, counted>>

\* The body of the loop over a block.
CountPosition ==
    /\ pc = "position"
    /\ ~inner.has_reached_end
    /\ counted' = Append(counted, AsPosition(inner))
    /\ inner' = Step(inner)
    /\ UNCHANGED <<text, curves, described, pc, handed_out>>

NextBlock ==
    /\ pc = "position"
    /\ inner.has_reached_end
    /\ curves' = StepCurveIterator(curves)
    /\ pc' = "block"
    /\ UNCHANGED <<text, described, inner, handed_out, counted>>

\* A block of a node whose blocks are not looked into.
PassBlock ==
    /\ pc = "block"
    /\ ~IsEnd(curves)
    /\ ~Walks
    /\ handed_out' = Append(handed_out, AsBlock(Head(curves)))
    /\ curves' = StepCurveIterator(curves)
    /\ UNCHANGED <<text, described, pc, inner, counted>>

Next ==
    \/ OpenBlock(FromBounds(AsBlock(Head(curves))))
    \/ OpenBlock(AsBlockEnumerator(Head(curves)))
    \/ CountPosition
    \/ NextBlock
    \/ PassBlock

\* Both are plain loops.
Spec == Init /\ [][Next]_vars /\ WF_vars(Next)

-----------------------------------------------------------------------------

\* Every position that the enumerators describe is counted exactly once over all
\* blocks, none in two blocks of one enumerator or of two, and the enumeration
\* comes to its end (Enumeration.Spec): the counts of a node rest on it.
Listing == INSTANCE Enumeration WITH elements <- described, listed <- counted
EachPositionOnce == Listing!Spec

DegreeOf(block) == Cardinality(DOMAIN block) - 1

\* How many vectors of a block have a certain support.
WithSupport(block, support) ==
    LET zeros(ix) == IF block[ix][2] = Order(PrimeExponent) THEN 1 ELSE 0
    IN  FoldFunction(LAMBDA n, m : n * m, 1,
            [ix \in DOMAIN block |->
                IF ix \in support THEN Size(block[ix]) - zeros(ix) ELSE zeros(ix)])

\* The curves of the blocks and their twists, with multiplicity, are as many as
\* there are polynomials of the degrees that belong to the genus in the file:
\* none of the normal forms for a prime that exceeds the degree, divides it, or
\* does neither is missing or superfluous, whatever the size of packages.
MassIsRight ==
    IsEnd(curves) /\ IsDecodable(text) /\ text.Genus > 0 /\ text.PackageSize # 0 =>
        \A degree \in DegreesOf(text.Genus, text.WithMarkedPoint) :
            LET mass(i) ==
                    MapThenSumSet(
                        LAMBDA support : 2 * Multiplicity(support)
                                           * WithSupport(handed_out[i], support),
                        {S \in SUBSET (0..degree) : degree \in S})
            IN  MapThenSumSet(mass, {i \in DOMAIN handed_out : DegreeOf(handed_out[i]) = degree})
                  = PrimePowerPred(PrimeExponent) * Order(PrimeExponent)^degree

-----------------------------------------------------------------------------

\* The polynomials of a block.
Polynomials(block) ==
    LET upTo[n \in 0..(DegreeOf(block) + 1)] ==
            IF n = 0 THEN {<<>>}
            ELSE {Append(f, FqTable[PrimeExponent][x]) :
                    f \in upTo[n - 1], x \in block[n - 1][1]..(block[n - 1][2] - 1)}
    IN  upTo[DegreeOf(block) + 1]

\* f(x + b).
Shifted(f, b) ==
    LET k == PrimeExponent
        horner[i \in 1..Len(f)] ==
            IF i = 1 THEN <<f[Len(f)]>>
            ELSE [j \in 1..i |-> Add[k, IF j = 1 THEN f[Len(f) + 1 - i] ELSE horner[i - 1][j - 1],
                                        IF j = i THEN 0 ELSE Mul[k, b, horner[i - 1][j]]]]
    IN  horner[Len(f)]

\* All e f(c x + b), for e and c that are not zero.
Orbit(f) ==
    LET k == PrimeExponent
        logarithm == 0..(PrimePowerPred(k) - 1)
        shifts == {Shifted(f, b) : b \in Element(k)}
    IN  {[j \in 1..Len(f) |->
            Mul[k, PowersOfGenerator[k][(e + (j - 1) * c) % PrimePowerPred(k)], h[j]]] :
                e \in logarithm, c \in logarithm, h \in shifts}

\* Within each class of right hand sides under substitutions of x and
\* multiplication, the multiplicities of the curves and their twists add up to
\* the size of the class: what multiplicity() says is an orbit (curve_iterator.cc,
\* 231-302) is one.
OrbitsAreRight ==
    IsEnd(curves) /\ text \in Compared =>
        LET listed == UNION {Polynomials(handed_out[i]) : i \in DOMAIN handed_out}
            support(f) == {ix \in 0..Degree(f) : f[ix + 1] # 0}
        IN  \A f \in listed :
                LET orbit == Orbit(f)
                IN  MapThenSumSet(LAMBDA g : 2 * Multiplicity(support(g)), orbit \cap listed)
                      = Cardinality(orbit)
=============================================================================
