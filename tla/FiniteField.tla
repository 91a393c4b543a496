----------------------------- MODULE FiniteField ----------------------------
(***************************************************************************)
(* The arithmetic that hycu takes from FLINT: the fields with Prime^k      *)
(* elements and the polynomials over them.  An element a_0 + a_1 T + ... is *)
(* the number with the digits a_i to the base Prime, which is how          *)
(* compute_incrementation_table of src/src/reduction_table.cc codes it     *)
(* (coeff_sum, 145-149).  A polynomial is a sequence of elements, constant *)
(* term first, whose last entry is not zero.                               *)
(***************************************************************************)
EXTENDS Integers, Sequences, FiniteSets, Functions, SequencesExt

CONSTANTS
    Prime,          \* the characteristic
    MaxExponent,    \* the largest exponent of a field in use
    Conway          \* of each field the polynomial that defines it, lower
                    \* coefficients first, without the leading one

ASSUME FieldAssumption ==
    /\ Prime \in Nat \ {0, 1} /\ Prime % 2 = 1
    /\ MaxExponent \in Nat
    /\ \A k \in 1..MaxExponent : Conway[k] \in [1..k -> 0..(Prime - 1)]

\* Some of the Conway polynomials that FLINT defines its fields with: T is a
\* generator of the multiplicative group, and the generator of a subfield is a
\* power of it.
FlintConway ==
    CASE Prime = 3 -> << <<1>>, <<2, 2>>, <<1, 2, 0>>, <<2, 0, 0, 2>> >>
      [] Prime = 5 -> << <<3>>, <<2, 4>>, <<3, 3, 0>> >>
      [] Prime = 7 -> << <<4>>, <<3, 6>> >>

Order(k) == Prime^k
Element(k) == 0..(Order(k) - 1)

Digit(a, i) == (a \div Prime^i) % Prime
Code(k, digit(_)) ==
    LET upTo[i \in 0..k] ==
            IF i = 0 THEN 0 ELSE upTo[i - 1] + (digit(i - 1) % Prime) * Prime^(i - 1)
    IN  upTo[k]

Sum(k, a, b) == Code(k, LAMBDA i : Digit(a, i) + Digit(b, i))
Scaled(k, c, a) == Code(k, LAMBDA i : c * Digit(a, i))

\* T^k is minus the lower part of the polynomial that defines the field.
TimesT(k, a) ==
    Sum(k, (a % Prime^(k - 1)) * Prime,
           Code(k, LAMBDA i : (Prime - Digit(a, k - 1)) * Conway[k][i + 1]))

Product(k, a, b) ==
    LET upTo[i \in 0..k] ==
            IF i = 0 THEN 0 ELSE Sum(k, TimesT(k, upTo[i - 1]), Scaled(k, Digit(b, k - i), a))
    IN  upTo[k]

\* The tables of both operations, for all fields.
Triple == UNION {{k} \X Element(k) \X Element(k) : k \in 1..MaxExponent}
Add == [t \in Triple |-> Sum(t[1], t[2], t[3])]
Mul == [t \in Triple |-> Product(t[1], t[2], t[3])]

ASSUME FieldsAreClosed ==
    /\ Add \in [Triple -> Element(MaxExponent)]
    /\ Mul \in [Triple -> Element(MaxExponent)]

\* What the provers do not know of powers.
ASSUME PowersOfPrime ==
    /\ Prime^0 = 1
    /\ \A k \in 0..MaxExponent : Prime^k \in Nat \ {0} /\ Prime^(k + 1) = Prime * Prime^k

\* Of what FLINT promises of a field: products are elements, one is neutral, and
\* the elements other than zero can be cancelled.
ASSUME FieldLaws ==
    \A k \in 1..MaxExponent :
        /\ \A a, b \in Element(k) : Mul[k, a, b] \in Element(k)
        /\ \A a \in Element(k) : Mul[k, 1, a] = a
        /\ \A a, b, g \in Element(k) \ {0} :
              Mul[k, a, g] # 0 /\ (Mul[k, a, g] = Mul[k, b, g] => a = b)

\* Both operations are those of a ring.
ASSUME RingLaws ==
    \A k \in 1..MaxExponent :
        /\ \A a, b \in Element(k) :
              Add[k, a, b] \in Element(k) /\ Add[k, a, b] = Add[k, b, a] /\ Mul[k, a, b] = Mul[k, b, a]
        /\ \A a \in Element(k) : Add[k, 0, a] = a /\ Mul[k, 0, a] = 0
        /\ \A a, b, c \in Element(k) :
              /\ Add[k, Add[k, a, b], c] = Add[k, a, Add[k, b, c]]
              /\ Mul[k, Mul[k, a, b], c] = Mul[k, a, Mul[k, b, c]]
              /\ Mul[k, a, Add[k, b, c]] = Add[k, Mul[k, a, b], Mul[k, a, c]]

\* g^0, ..., g^n.
Powers(k, g, n) ==
    LET power[i \in 0..n] == IF i = 0 THEN 1 ELSE Mul[k, power[i - 1], g]
    IN  [i \in 0..n |-> power[i]]

\* fq_nmod_gen of a field that is given by its Conway polynomial, and its powers.
Generator(k) == IF k = 1 THEN (Prime - Conway[1][1]) % Prime ELSE Prime
PowersOfGenerator == [k \in 1..MaxExponent |-> Powers(k, Generator(k), Order(k) - 2)]

\* What makes a polynomial a Conway polynomial: the generators generate, and that of
\* the field with Prime elements is the power of the other ones.
ASSUME GeneratorLaws ==
    \A k \in 1..MaxExponent :
        LET powers == PowersOfGenerator[k]
            factor == (Order(k) - 1) \div (Prime - 1)
        IN  /\ Generator(k) \in Element(k) \ {0}
            /\ \A i, j \in 0..(Order(k) - 2) : powers[i] = powers[j] => i = j
            /\ \A i \in 0..(Prime - 2) : powers[factor * i] = PowersOfGenerator[1][i]

-----------------------------------------------------------------------------

Degree(f) == Len(f) - 1
Coefficient(f, i) == IF i \in 0..Degree(f) THEN f[i + 1] ELSE 0

Product2(k, f, g) ==
    [n \in 1..(Len(f) + Len(g) - 1) |->
        LET term(i) == Mul[k, Coefficient(f, i), Coefficient(g, n - 1 - i)]
            upTo[i \in 0..n] ==
                IF i = 0 THEN 0 ELSE Add[k, upTo[i - 1], term(i - 1)]
        IN  upTo[n]]

\* The polynomials of degree d with leading coefficient 1.
Monic(k, d) == {Append(f, 1) : f \in [1..d -> Element(k)]}
Polynomial(k, d) == {Append(f, c) : f \in [1..d -> Element(k)], c \in Element(k) \ {0}}

\* The monic irreducible polynomials of each degree up to d.
Irreducible(k, d) ==
    LET upTo[n \in 0..d] ==
            IF n = 0 THEN {}
            ELSE upTo[n - 1] \cup
                 (Monic(k, n) \ {Product2(k, f, g) : f \in upTo[n - 1],
                                                     g \in UNION {Monic(k, e) : e \in 1..(n - 1)}})
    IN  upTo[d]

\* The remainder of f modulo a polynomial g with leading coefficient 1.
Remainder(k, f, g) ==
    LET reduce[n \in (Len(g) - 1)..Len(f)] ==   \* what is left of the first terms
            IF n = Len(f) THEN f
            ELSE LET r == reduce[n + 1]
                     factor == Scaled(k, Prime - 1, r[n + 1])
                     shift == n + 1 - Len(g)
                 IN  [i \in 1..n |->
                        IF i <= shift THEN r[i]
                        ELSE Add[k, r[i], Mul[k, factor, g[i - shift]]]]
    IN  IF Len(f) < Len(g) THEN f ELSE reduce[Len(g) - 1]

Divides(k, g, f) == \A i \in DOMAIN Remainder(k, f, g) : Remainder(k, f, g)[i] = 0

\* The degrees of the irreducible factors of a polynomial without a square
\* factor, given the irreducible polynomials of up to half its degree.
FactorDegrees(k, f, irreducible) ==
    LET factors == {g \in irreducible : 2 * Degree(g) <= Degree(f) /\ Divides(k, g, f)}
        found == FoldSet(LAMBDA g, n : Degree(g) + n, 0, factors)
        list == [i \in 1..Cardinality(factors) |->
                   Degree(SetToSeq(factors)[i])]
    IN  IF found = Degree(f) THEN list ELSE Append(list, Degree(f) - found)

\* The polynomials of degrees in a set that a square divides.
SquareDivisible(k, degrees) ==
    UNION {{Product2(k, Product2(k, g, g), h) :
                g \in Monic(k, e[2]), h \in Polynomial(k, e[1] - 2 * e[2])} :
           e \in {e \in degrees \X (1..3) : 2 * e[2] <= e[1]}}

\* f evaluated at x, both in the field of exponent k.
ValueAt(k, f, x) ==
    LET horner[i \in 0..Len(f)] ==
            IF i = 0 THEN 0
            ELSE Add[k, Mul[k, horner[i - 1], x], f[Len(f) + 1 - i]]
    IN  horner[Len(f)]
=============================================================================
