------------------------------- MODULE Curve --------------------------------
(***************************************************************************)
(* Curve of src/src/curve.cc: the hyperelliptic curve y^2 = f(x) over the  *)
(* field with Prime^PrimeExponent elements, its numbers of points over     *)
(* extensions of that field, and what is computed from them.               *)
(*                                                                         *)
(* A curve is the sequence of the logarithms of the coefficients of f, the *)
(* constant one first (poly_coeff_exponents).  A number of points is a     *)
(* record: two points over each x where f(x) is a square, and one point    *)
(* where f(x) is zero, the ramified ones.                                  *)
(***************************************************************************)
EXTENDS FieldTables

CONSTANT MaxDegree      \* the largest degree of a right hand side

ASSUME MaxDegreeAssumption == MaxDegree \in Nat /\ MaxDegree >= 3

\* The constructor: zero coefficients at the end are dropped.
NewCurve(position) ==
    LET length == Cardinality(DOMAIN position)
        last == CHOOSE ix \in 0..(length - 1) :
                    /\ position[ix] # ZeroIndex(PrimeExponent)
                    /\ \A jx \in (ix + 1)..(length - 1) : position[jx] = ZeroIndex(PrimeExponent)
    IN  [i \in 1..(last + 1) |-> position[i - 1]]

Genus(curve) == IF Degree(curve) % 2 = 0 THEN (Degree(curve) - 2) \div 2
                                         ELSE (Degree(curve) - 1) \div 2

RhsSupport(curve) == {ix \in 0..Degree(curve) : curve[ix + 1] # ZeroIndex(PrimeExponent)}

\* f itself, for FLINT.
RhsPolynomial(curve) == [i \in 1..Len(curve) |-> FqTable[PrimeExponent][curve[i]]]

\* What FLINT knows of the polynomials of the degrees at hand.
WithSquare == SquareDivisible(PrimeExponent, 3..MaxDegree)
IrreducibleFactors == Irreducible(PrimeExponent, MaxDegree \div 2)

HasSquarefreeRhs(curve) == RhsPolynomial(curve) \notin WithSquare

\* convert_poly_coeff_exponents: the logarithms in the field of exponent k, which
\* is a multiple of PrimeExponent.
Converted(curve, k) ==
    LET factor == PrimePowerPred(k) \div PrimePowerPred(PrimeExponent)
    IN  [i \in 1..Len(curve) |->
            IF curve[i] # ZeroIndex(PrimeExponent) THEN factor * curve[i] ELSE ZeroIndex(k)]

-----------------------------------------------------------------------------
(* Counting                                                                *)

\* Mutant: equal logarithms are taken to cancel.
SumOfLogarithms_cancel(k, f, tmp) ==
    LET low == IF tmp <= f THEN tmp ELSE f
        high == IF tmp <= f THEN f ELSE tmp
        increment == ReductionTable[k].incrementation[high - low]
    IN  IF increment # ZeroIndex(k) /\ high # low
        THEN ReductionTable[k].exponent_reduction[low + increment] ELSE ZeroIndex(k)

\* The logarithm of g^f + g^tmp: g^low (1 + g^(high - low)).
SumOfLogarithms(k, f, tmp) ==
    LET low == IF tmp <= f THEN tmp ELSE f
        high == IF tmp <= f THEN f ELSE tmp
        increment == ReductionTable[k].incrementation[high - low]
    IN  IF increment # ZeroIndex(k)
        THEN ReductionTable[k].exponent_reduction[low + increment] ELSE ZeroIndex(k)

\* The loop over the coefficients, for one x given by its logarithm: the
\* logarithm of f(x).
RhsLogarithm(k, converted, x) ==
    LET reduced(i) == ReductionTable[k].exponent_reduction[i]
        xpw[dx \in 0..Degree(converted)] == IF dx = 0 THEN 0 ELSE reduced(xpw[dx - 1] + x)
        f[dx \in 0..Degree(converted)] ==
            IF dx = 0 THEN converted[1]
            ELSE IF converted[dx + 1] = ZeroIndex(k) THEN f[dx - 1]
            ELSE LET term == reduced(converted[dx + 1] + xpw[dx])
                 IN  IF f[dx - 1] = ZeroIndex(k) THEN term
                     ELSE SumOfLogarithms(k, f[dx - 1], term)
    IN  f[Degree(converted)]

\* The number of points over one x, by the logarithm of f(x).
NoPoints == [unramified |-> 0, ramified |-> 0]

PointsOver(k, logarithm) ==
    IF logarithm = ZeroIndex(k) THEN [unramified |-> 0, ramified |-> 1]
    ELSE IF logarithm % 2 = 0 THEN [unramified |-> 2, ramified |-> 0]
    ELSE NoPoints

Plus(m, n) == [unramified |-> m.unramified + n.unramified, ramified |-> m.ramified + n.ramified]
Total(points) == FoldFunction(Plus, NoPoints, points)

\* count_cpu: over x # 0, infinity; x runs up to prime_power_pred.
CountCpu(k, converted) ==
    Total([x \in 1..PrimePowerPred(k) |-> PointsOver(k, RhsLogarithm(k, converted, x))])

\* count_opencl: the kernel evaluate of opencl/evaluation.cl for each work item,
\* and the sums of what they find.
EvaluateItem(k, converted, x) == PointsOver(k, RhsLogarithm(k, converted, x))
CountOpenCL(k, converted) ==
    Total([x \in 0..(PrimePowerPred(k) - 1) |-> EvaluateItem(k, converted, x)])

\* Over infinity: a ramified point if the degree is odd.
PointsOverInfinity(curve, k, leading) ==
    IF Degree(curve) < 2 * Genus(curve) + 2 THEN [unramified |-> 0, ramified |-> 1]
    ELSE PointsOver(k, leading)

\* count: all points over the field of exponent k, by either device.
CountPoints(curve, k, opencl) ==
    LET converted == Converted(curve, k)
    IN  Plus(IF opencl THEN CountOpenCL(k, converted) ELSE CountCpu(k, converted),
        Plus(PointsOver(k, converted[1]),
             PointsOverInfinity(curve, k, converted[Len(converted)])))

\* count_naive_nmod: f is evaluated at every x, and the squares are those whose
\* power with half the order of the group is one.
CountNaiveNmod(curve, k) ==
    LET half == PrimePowerPred(k) \div 2
        factor == PrimePowerPred(k) \div PrimePowerPred(PrimeExponent)
        poly == [i \in 1..Len(curve) |->
                    IF curve[i] = ZeroIndex(PrimeExponent) THEN 0
                    ELSE PowersOfGenerator[k][factor * curve[i]]]
        over(a) == IF a = 0 THEN [unramified |-> 0, ramified |-> 1]
                   ELSE IF Powers(k, a, half)[half] = 1 THEN [unramified |-> 2, ramified |-> 0]
                   ELSE NoPoints
    IN  Plus(Total([x \in Element(k) |-> over(ValueAt(k, poly, x))]),
             IF Degree(curve) < 2 * Genus(curve) + 2 THEN over(0) ELSE over(poly[Len(poly)]))

\* The arithmetic of FLINT's fq_zech: elements are their logarithms.
ZechProduct(k, a, b) ==
    IF ZeroIndex(k) \in {a, b} THEN ZeroIndex(k) ELSE (a + b) % PrimePowerPred(k)
ZechSum(k, a, b) ==
    CHOOSE c \in 0..ZeroIndex(k) :
        FqTable[k][c] = Add[k, FqTable[k][a], FqTable[k][b]]

\* count_naive_zech: the same with that arithmetic.
CountNaiveZech(curve, k) ==
    LET half == PrimePowerPred(k) \div 2
        factor == PrimePowerPred(k) \div PrimePowerPred(PrimeExponent)
        poly == [i \in 1..Len(curve) |->
                    IF curve[i] = ZeroIndex(PrimeExponent) THEN ZeroIndex(k)
                    ELSE (factor * curve[i]) % PrimePowerPred(k)]
        xpw(x, i) == IF i = 1 THEN 0
                     ELSE IF x = ZeroIndex(k) THEN x ELSE (x * (i - 1)) % PrimePowerPred(k)
        rhs(x) == FoldLeftDomain(LAMBDA sum, i : ZechSum(k, sum, ZechProduct(k, poly[i], xpw(x, i))),
                                 ZeroIndex(k), poly)
        over(a) == IF a = ZeroIndex(k) THEN [unramified |-> 0, ramified |-> 1]
                   ELSE IF (a * half) % PrimePowerPred(k) = 0 THEN [unramified |-> 2, ramified |-> 0]
                   ELSE NoPoints
    IN  Plus(Total([x \in 0..ZeroIndex(k) |-> over(rhs(x))]),
             IF Degree(curve) < 2 * Genus(curve) + 2 THEN over(ZeroIndex(k))
             ELSE over(poly[Len(poly)]))

-----------------------------------------------------------------------------
(* What is computed from the numbers of points (nmb_points), a function of *)
(* the exponents of the fields in which points have been counted.          *)

\* max_prime_exponent: up to which multiple of PrimeExponent without a gap.
MaxPrimeExponent(nmb_points) ==
    CHOOSE m \in 0..MaxExponent :
        /\ m % PrimeExponent = 0
        /\ m + PrimeExponent \notin DOMAIN nmb_points
        /\ \A k \in 1..m : k % PrimeExponent = 0 => k \in DOMAIN nmb_points

\* Mutant: the point of the line at infinity is forgotten.
HasseWeilOffset_affine(k, points) == Order(k) - (points.unramified + points.ramified)

\* hasse_weil_offsets: how far the counts are from those of a line.
HasseWeilOffset(k, points) == Order(k) + 1 - (points.unramified + points.ramified)
HasseWeilOffsets(nmb_points, max_prime_exponent) ==
    [i \in 1..(max_prime_exponent \div PrimeExponent) |->
        HasseWeilOffset(i * PrimeExponent, nmb_points[i * PrimeExponent])]

Copies(degree, points) == [i \in 1..((points + degree - 1) \div degree) |-> degree]

\* What FLINT's factorisation gives: the degrees of the irreducible factors.
DegreesOfFactors(curve) ==
    SortSeq(FactorDegrees(PrimeExponent, RhsPolynomial(curve), IrreducibleFactors),
            LAMBDA d, e : d < e)

\* They come with a one for the point at infinity.
FactoredRamification(curve) ==
    (IF Degree(curve) % 2 = 1 THEN <<1>> ELSE <<>>) \o DegreesOfFactors(curve)

\* The ramified points that no smaller field has, for the first n fields.
NewRamified(nmb_points, n) ==
    LET new[fx \in 1..n] ==
            nmb_points[fx * PrimeExponent].ramified
              - SumFunction([gx \in {d \in 1..(fx - 1) : fx % d = 0} |-> new[gx]])
    IN  [fx \in 1..n |-> new[fx]]

\* Mutant: what remains is taken for one factor when it might be two.
OneFactorLeft_equal(difference, fx) == difference <= 2 * fx

\* Less than two factors of degree fx or more.
OneFactorLeft(difference, fx) == difference < 2 * fx

\* ramification_type: from the points if they determine it, from the factors of
\* f otherwise.
RamificationType(curve, nmb_points) ==
    LET n == CHOOSE m \in 0..(Degree(curve) - 1) :
                /\ \A fx \in 1..m : fx * PrimeExponent \in DOMAIN nmb_points
                /\ (m + 1) * PrimeExponent \notin DOMAIN nmb_points \/ m = Degree(curve) - 1
        new == NewRamified(nmb_points, n)
        difference == 2 * Genus(curve) + 2 - SumFunction(new)
    IN  IF OneFactorLeft(difference, n + 1)
        THEN FlattenSeq([fx \in 1..n |-> Copies(fx, new[fx])])
               \o (IF difference # 0 THEN <<difference>> ELSE <<>>)
        ELSE FactoredRamification(curve)

\* The constructor of ExplicitRamificationHasseWeil, the key in a store.
KeyOf(curve, nmb_points) ==
    [ramification_type |-> RamificationType(curve, nmb_points),
     hasse_weil_offsets |-> HasseWeilOffsets(nmb_points, MaxPrimeExponent(nmb_points))]

\* The fields that a thread has a table for, in the order of its tables.
TableExponents(count_exponent) ==
    [i \in 1..count_exponent |-> (count_exponent + 1 - i) * PrimeExponent]
=============================================================================
