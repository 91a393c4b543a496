--------------------------- MODULE CurveIterator ----------------------------
(***************************************************************************)
(* CurveIterator of src/src/curve_iterator.cc: an iterator over right hand *)
(* sides of the degrees that belong to a genus, one or more for each class *)
(* of them under substitutions x -> c x + b and multiplication with e, and *)
(* the multiplicity that makes up for the others (multiplicity).           *)
(*                                                                         *)
(* A CurveIterator is the sequence of the enumerators that are left, the   *)
(* one that enumerator_it points at first.                                 *)
(***************************************************************************)
EXTENDS BlockIterator, FieldTables

NonZero == BlockNonZero(PrimeExponent)
Complete == BlockComplete(PrimeExponent)
Zero == <<ZeroIndex(PrimeExponent)>>
Cosets(n) == PowerCosetRepresentatives(PrimeExponent, n)

\* The coefficients below x^n that are free to vary.
FreeBelow(n) == [kx \in 0..(n - 1) |-> Complete]

\* The same, and the coefficient of a higher power, which is not zero.
NonZeroAndFreeBelow(power, n) ==
    [kx \in {power} \cup 0..(n - 1) |-> IF kx = power THEN NonZero ELSE Complete]

\* Mutant: powers stand for the cosets.
CosetProducts_powers(set, n) ==
    [sx \in 0..(Len(set) - 1) |->
        Ascending({ReduceIndex(PrimeExponent, set[sx + 1] + n * b) : b \in Range(Cosets(n))})]

\* coset_products: for each entry of a set, its products with the cosets of the
\* n-th powers.
CosetProducts(set, n) ==
    [sx \in 0..(Len(set) - 1) |->
        Ascending({ReduceIndex(PrimeExponent, set[sx + 1] + b) : b \in Range(Cosets(n))})]

\* Prime greater than the degree: x^ix and x^jx have the second and the third
\* coefficient that is not zero, there being no third one for jx = -1.
Coupled(degree, ix, jx, package_size) ==
    NewIterator(degree + 1,
        NonZeroAndFreeBelow(degree, jx), package_size,
        [kx \in {k \in 0..(degree - 1) : k > jx} |-> IF kx = ix THEN Cosets(1) ELSE Zero],
        [kx \in {jx} \ {-1} |-> [index |-> ix, sets |-> CosetProducts(Cosets(1), ix - jx)]])

\* The case of x^degree.
OnlyLeading(degree, package_size) ==
    NewIterator(degree + 1, NoSets, package_size,
        [kx \in 0..degree |-> IF kx = degree THEN Cosets(1) ELSE Zero], NoSets)

\* Prime divides the degree, and the next to leading coefficient is not zero.
NextToLeading(degree, package_size) ==
    NewIterator(degree + 1,
        NonZeroAndFreeBelow(degree - 1, degree - 3), package_size,
        [kx \in {degree, degree - 2, degree - 3} |->
            CASE kx = degree     -> Cosets(1)
              [] kx = degree - 2 -> Zero
              [] kx = degree - 3 -> Cosets(3) \o Zero], NoSets)

\* It is zero, and the one that follows is determined up to a square.
NoNextToLeading(degree, package_size) ==
    NewIterator(degree + 1, FreeBelow(degree - 2), package_size,
        [kx \in {degree, degree - 1, degree - 2} |->
            CASE kx = degree     -> Cosets(1)
              [] kx = degree - 1 -> Zero
              [] kx = degree - 2 -> Cosets(2) \o Zero], NoSets)

\* Prime greater than the degree: the enumerators for all ix and jx, the largest
\* first, and the one for x^degree.
CoupledEnumerators(degree, package_size) ==
    FlattenSeq([i \in 1..(degree - 1) |->
        LET ix == degree - 1 - i
        IN  [j \in 1..(ix + 1) |-> Coupled(degree, ix, ix - j, package_size)]])
      \o <<OnlyLeading(degree, package_size)>>

\* Mutant: a prime that divides the degree is not told apart from other ones.
Enumerators_dividing(degree, package_size) ==
    CASE Prime > degree -> CoupledEnumerators(degree, package_size)
      [] OTHER          -> <<NoNextToLeading(degree, package_size)>>

Enumerators(degree, package_size) ==
    CASE Prime > degree       -> CoupledEnumerators(degree, package_size)
      [] degree % Prime = 0   -> <<NextToLeading(degree, package_size),
                                   NoNextToLeading(degree, package_size)>>
      [] OTHER                -> <<NoNextToLeading(degree, package_size)>>

\* With a marked point, which is put at infinity, the degree is odd.
DegreesOf(genus, with_marked_point) ==
    (2 * genus + 1)..(IF with_marked_point THEN 2 * genus + 1 ELSE 2 * genus + 2)

\* The constructor, for a genus that is positive and a prime that is odd.
NewCurveIterator(genus, with_marked_point, package_size) ==
    Enumerators(2 * genus + 1, package_size)
      \o (IF with_marked_point THEN <<>> ELSE Enumerators(2 * genus + 2, package_size))

IsEnd(curves) == curves = <<>>

\* step, when the end is not reached.
StepCurveIterator(curves) ==
    LET enumerator == Step(Head(curves))
    IN  IF enumerator.has_reached_end THEN Tail(curves) ELSE <<enumerator>> \o Tail(curves)

-----------------------------------------------------------------------------

\* multiplicity: how many right hand sides each one that comes up stands for,
\* without the twisted ones; from the exponents that occur in it.
Multiplicity(coeff_support) ==
    LET pred == PrimePowerPred(PrimeExponent)
        half == (Order(PrimeExponent) * pred) \div 2
        degree == Max(coeff_support)
        snd == Max(coeff_support \ {degree})
        trd == Max(coeff_support \ {degree, snd})
    IN  CASE Prime > degree ->
               IF Cardinality(coeff_support) <= 2 THEN half
               ELSE (half * pred) \div Gcd(pred, snd - trd)
          [] degree % Prime = 0 /\ degree - 1 \in coeff_support ->
               IF Cardinality(coeff_support) >= 3 /\ trd = degree - 3
               THEN (half * pred) \div Gcd(pred, 3) ELSE half
          [] degree % Prime = 0 /\ degree - 1 \notin coeff_support ->
               IF degree - 2 \in coeff_support THEN (pred * pred) \div 4 ELSE pred \div 2
          [] OTHER ->
               IF Cardinality(coeff_support) >= 2 /\ snd = degree - 2
               THEN (Order(PrimeExponent) * pred * pred) \div 4 ELSE half
=============================================================================
