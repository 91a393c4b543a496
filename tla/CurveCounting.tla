--------------------------- MODULE CurveCounting ----------------------------
(***************************************************************************)
(* What is done with one curve.  A thread makes the tables of the fields   *)
(* (threaded/thread.cc, 108-119) and then, for each curve (87-91), skips   *)
(* it if the right hand side has a square factor, counts its points over   *)
(* each field, the largest first, and computes the key that it is stored   *)
(* under.  hycu-single (executables/single.cc, single_curve_fp.cc) does    *)
(* the same for a curve over a prime field given by its coefficients, by   *)
(* one of four implementations.                                            *)
(***************************************************************************)
EXTENDS Curve, TableConstruction

CONSTANTS
    Position,       \* the coefficients to look at, as BlockIterator gives them
    CountExponents, \* values of ConfigNode::count_exponent
    Coefficients    \* arguments of hycu-single

ASSUME CurveCountingAssumption ==
    /\ \A n \in CountExponents : n \in Nat \ {0} /\ n * PrimeExponent <= MaxExponent
    /\ Coefficients # {} => PrimeExponent = 1
    /\ \A position \in Position : \E degree \in 1..MaxDegree :
         /\ position \in [0..degree -> 0..ZeroIndex(PrimeExponent)]
         /\ \E ix \in 1..degree : position[ix] # ZeroIndex(PrimeExponent)
    /\ \A c \in Coefficients :
         /\ c \in Seq(Nat) /\ (Len(c) - 2) \div 2 <= MaxExponent
         /\ \E ix \in 2..Len(c) : c[ix] # 0

VARIABLES
    asked,          \* the coefficients that hycu-single was called with
    ways,           \* how points may be counted
    curve,
    nmb_points,     \* Curve::nmb_points
    left,           \* the exponents of the fields still to be counted over
    key             \* what is made of the points in the end

curve_vars == <<asked, ways, curve, nmb_points, left, key>>
vars == <<table_vars, curve_vars>>

NoPointCounts == [k \in {} |-> NoPoints]
NoKey == [ramification_type |-> <<>>, hasse_weil_offsets |-> <<>>]

Init ==
    /\ TableInit
    /\ asked = <<>> /\ ways = {} /\ curve = <<>>
    /\ nmb_points = NoPointCounts
    /\ left = <<>>
    /\ key = NoKey

MakeTables == TableNext /\ UNCHANGED curve_vars

-----------------------------------------------------------------------------

\* The tables are in use.  They are right with every generator (TablesAreRight);
\* from here on they are those with the generator of the Conway polynomial, and
\* how they were made is forgotten.
UseTables ==
    /\ pc = "done"
    /\ pc' = "count"
    /\ exponent' = PrimeExponent /\ gen' = Generator(PrimeExponent) /\ gen_power' = 1
    /\ fq_elements' = <<>> /\ gen_powers' = <<>> /\ zero_drawn' = FALSE

\* main_thread, 87-89, on either device.
TakePosition(position) ==
    /\ UseTables
    /\ asked' = <<>>
    /\ ways' = {"cpu", "opencl"}
    /\ curve' = NewCurve(position)
    /\ HasSquarefreeRhs(curve')
    /\ \E n \in CountExponents : left' = TableExponents(n)
    /\ UNCHANGED <<nmb_points, key>>

\* The logarithms of the numbers below the prime, to the generator that is
\* element 1 of the table.
FpConversionMap ==
    [c \in 0..(Prime - 1) |->
        CHOOSE ex \in 0..(Prime - 1) :
            IF c = 0 THEN ex = Prime - 1 ELSE ex < Prime - 1 /\ FqTable[1][ex] = c]

\* operator[] of the map: zero for any other number.
Exponent(c) == IF c < Prime THEN FpConversionMap[c] ELSE 0

\* main of hycu-single and the begin of single_curve_fp.
TakeCoefficients(coefficients) ==
    /\ UseTables
    /\ Len(coefficients) >= 2
    /\ asked' = coefficients
    /\ \E implementation \in {"cpu", "opencl", "naivenmod", "naivezech"} :
         ways' = {implementation}
    /\ curve' = NewCurve([ix \in 0..(Len(coefficients) - 1) |-> Exponent(coefficients[ix + 1])])
    /\ left' = TableExponents(Genus(curve'))
    /\ UNCHANGED <<nmb_points, key>>

\* A round of the loop over the fields.
Count(way) ==
    /\ left # <<>>
    /\ way \in ways
    /\ LET k == Head(left)
           points == CASE way = "naivenmod" -> CountNaiveNmod(curve, k)
                       [] way = "naivezech" -> CountNaiveZech(curve, k)
                       [] OTHER             -> CountPoints(curve, k, way = "opencl")
       IN  nmb_points' = [j \in DOMAIN nmb_points \cup {k} |->
                             IF j = k THEN points ELSE nmb_points[j]]
    /\ left' = Tail(left)
    /\ UNCHANGED <<table_vars, asked, ways, curve, key>>

\* store->register_curve begins with the key; hycu-single prints the same, but
\* what it prints of a polynomial with a square factor is left out.
Register ==
    /\ pc = "count"
    /\ left = <<>>
    /\ key = NoKey
    /\ HasSquarefreeRhs(curve)
    /\ key' = KeyOf(curve, nmb_points)
    /\ UNCHANGED <<table_vars, asked, ways, curve, nmb_points, left>>

Next ==
    \/ MakeTables
    \/ \E position \in Position : TakePosition(position)
    \/ \E coefficients \in Coefficients : TakeCoefficients(coefficients)
    \/ \E way \in {"cpu", "opencl", "naivenmod", "naivezech"} : Count(way)
    \/ Register

Spec == Init /\ [][Next]_vars

-----------------------------------------------------------------------------

\* The number of solutions of y^2 = f(x) over the field of k, for f with the
\* coefficients that hycu-single was called with.
Solutions(k) ==
    LET f == [x \in Element(k) |-> ValueAt(k, asked, x)]
    IN  Cardinality({p \in Element(k) \X Element(k) : f[p[1]] = Mul[k, p[2], p[2]]})

\* Counting with logarithms, on the processor or by the OpenCL kernel, gives what
\* evaluating the polynomial at every element of the field gives, by either of
\* the naive methods that the tests compare with.  The points that hycu-single
\* counts are the solutions of the equation it was called with, and one, two or
\* none over infinity, as long as the coefficients are below the prime
\* (single_curve_fp.cc, 57).
CountsAreRight ==
    \A k \in DOMAIN nmb_points :
        /\ nmb_points[k] = CountNaiveNmod(curve, k)
        /\ nmb_points[k] = CountNaiveZech(curve, k)
        /\ asked # <<>> /\ (\A i \in DOMAIN asked : asked[i] < Prime) =>
             nmb_points[k].unramified + nmb_points[k].ramified - Solutions(k)
                \in IF Degree(curve) % 2 = 1 THEN {1} ELSE {0, 2}

\* The ramification type of a curve is that of its polynomial, whether it was
\* read off the points or found by factoring it.
RamificationIsRight ==
    key # NoKey => key.ramification_type = FactoredRamification(curve)

\* The offsets cover all fields that points were counted over, in the order of
\* the fields, and are within the bounds of Hasse and Weil.
OffsetsAreRight ==
    key # NoKey =>
        /\ Len(key.hasse_weil_offsets) = Cardinality(DOMAIN nmb_points)
        /\ \A i \in DOMAIN key.hasse_weil_offsets :
             LET k == i * PrimeExponent
                 points == CountNaiveNmod(curve, k)
             IN  /\ key.hasse_weil_offsets[i]
                      = Order(k) + 1 - points.unramified - points.ramified
                 /\ key.hasse_weil_offsets[i]^2 <= 4 * Genus(curve)^2 * Order(k)
=============================================================================
