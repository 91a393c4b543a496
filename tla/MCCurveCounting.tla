-------------------------- MODULE MCCurveCounting ---------------------------
(***************************************************************************)
(* Coefficients of curves for the runs of CurveCounting.                   *)
(***************************************************************************)
EXTENDS CurveCounting

\* All polynomials of a degree over the field of PrimeExponent.
OfDegree(d) ==
    {p \in [0..d -> 0..ZeroIndex(PrimeExponent)] : p[d] # ZeroIndex(PrimeExponent)}

\* Genus one, and of genus two the curves that the iterator makes: no next to
\* leading coefficient.
MCPrimeField ==
    OfDegree(3) \cup OfDegree(4) \cup
    {p \in OfDegree(5) \cup OfDegree(6) : p[Cardinality(DOMAIN p) - 2] = ZeroIndex(PrimeExponent)}

\* Arguments of hycu-single: all of degrees three and four, some with zeros at the
\* end, and some with coefficients that are not below the prime.
MCCoefficients ==
    {Append(c, d) : c \in [1..3 -> 0..2] \cup [1..4 -> 0..2], d \in {1, 2}}
      \cup {c \o <<1, 0>> : c \in [1..3 -> {0, 1}]}
      \cup {c \o <<4, 5>> : c \in [1..3 -> {0, 2}]}
=============================================================================
