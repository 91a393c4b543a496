---------------------------- MODULE FieldTables -----------------------------
(***************************************************************************)
(* The tables of a finite field.  FqElementTable, in                       *)
(* src/src/fq_element_table.cc, lists the powers of a generator, so that   *)
(* an element is named by its logarithm, with prime_power - 1 for zero.    *)
(* ReductionTable, in src/src/reduction_table.cc, has the logarithm of     *)
(* 1 + a for each a.  How both find a generator is the module              *)
(* TableConstruction.                                                      *)
(***************************************************************************)
EXTENDS FiniteField

CONSTANT PrimeExponent      \* prime_exponent of the field of the coefficients

ASSUME PrimeExponentAssumption == PrimeExponent \in 1..MaxExponent

PrimePowerPred(k) == Order(k) - 1
ZeroIndex(k) == PrimePowerPred(k)

\* The elements by their logarithms, zero last.
FqElements(k, g) ==
    LET power == Powers(k, g, PrimePowerPred(k) - 1)
    IN  [ix \in 0..PrimePowerPred(k) |-> IF ix = ZeroIndex(k) THEN 0 ELSE power[ix]]

BlockNonZero(k) == <<0, PrimePowerPred(k)>>
BlockComplete(k) == <<0, Order(k)>>

Gcd(m, n) == CHOOSE d \in 1..(m + n) :
                /\ m % d = 0 /\ n % d = 0
                /\ \A e \in 1..(m + n) : m % e = 0 /\ n % e = 0 => e <= d

\* Logarithms that represent the cosets of the n-th powers.
PowerCosetRepresentatives(k, n) ==
    [i \in 1..Gcd(n, PrimePowerPred(k)) |-> i - 1]

ReduceIndex(k, ix) == ix % PrimePowerPred(k)

\* Two periods: enough for the sum of two logarithms.
ExponentReductionTable(k) ==
    [i \in 0..(2 * PrimePowerPred(k) - 1) |-> i % PrimePowerPred(k)]

\* gen_powers: the logarithm of each element, as far as the powers of gen that
\* have been looked at go; zero has the special index.
GenPowers(k, powers) ==
    [a \in {0} \cup Range(powers) |->
        IF a = 0 THEN ZeroIndex(k) ELSE CHOOSE ix \in DOMAIN powers : powers[ix] = a]

\* The logarithm of 1 + a by the logarithm of a: in a run of Prime numbers the
\* lowest digit counts up, and the last one goes back to the first.
IncrementationTable(k, logarithm) ==
    [ix \in 0..PrimePowerPred(k) |->
        LET a == CHOOSE b \in Element(k) : logarithm[b] = ix
            pix == (a \div Prime) * Prime
        IN  logarithm[IF a = pix + Prime - 1 THEN pix ELSE a + 1]]

\* Both tables as made with the generator of the Conway polynomial.
FqTable == [k \in 1..MaxExponent |-> FqElements(k, Generator(k))]
ReductionTable ==
    [k \in 1..MaxExponent |->
        [exponent_reduction |-> ExponentReductionTable(k),
         incrementation |-> IncrementationTable(k, GenPowers(k, PowersOfGenerator[k]))]]
=============================================================================
