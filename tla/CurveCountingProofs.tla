------------------------ MODULE CurveCountingProofs -------------------------
(***************************************************************************)
(* Proofs about the tables that a curve is counted with, and about the     *)
(* count.                                                                  *)
(*                                                                         *)
(* Whichever candidates for the generator the constructors of              *)
(* FqElementTable and ReductionTable are given, in each field, the tables  *)
(* that they end with are those of the field (TablesRight).                *)
(*                                                                         *)
(* Whichever way points are counted, they are the points of the curve      *)
(* (CountsRight).  The table of a field lists the powers of the generator, *)
(* so that sums of logarithms are those of products, and the incrementation*)
(* table gives those of sums; the loop over the coefficients then has the  *)
(* logarithm of the value.  The methods find the same values at elements   *)
(* that each of them takes in another order, so the totals are the same,   *)
(* and there are two solutions for each square that is not zero.           *)
(***************************************************************************)
EXTENDS CurveCounting, FiniteSetTheorems, FunctionTheorems, WellFoundedInduction, TLAPS

-----------------------------------------------------------------------------
(* Induction over the numbers up to a bound                                *)

\* A set that has 0, and n with n - 1, has all numbers.
LEMMA UpTo ==
    ASSUME NEW N \in Nat, NEW S, 0 \in S, \A n \in 1..N : n - 1 \in S => n \in S
    PROVE  \A n \in 0..N : n \in S
  <1>. DEFINE R == OpToRel(<, Nat)
              T == {n \in 0..N : n \notin S}
  <1>1. IsWellFoundedOn(R, Nat)
    BY NatLessThanWellFounded
  <1>. SUFFICES ASSUME T # {} PROVE FALSE
    OBVIOUS
  <1>2. T \subseteq Nat
    OBVIOUS
  <1>. HIDE DEF R, T
  <1>3. PICK x \in T : \A y \in T : ~ (<<y, x>> \in R)
    BY <1>1, <1>2, WFMin
  <1>4. x \in 1..N /\ x \notin S
    BY DEF T
  <1>5. x - 1 \in 0..N /\ x - 1 \notin S
    BY <1>4
  <1>6. <<x - 1, x>> \in R
    BY <1>4, <1>5 DEF R, OpToRel
  <1>. QED
    BY <1>3, <1>5, <1>6 DEF T

-----------------------------------------------------------------------------
(* Numbers and their digits                                                *)

LEMMA PrimeIs == Prime \in Nat /\ Prime > 1
  BY FieldAssumption

LEMMA Monotone ==
    ASSUME NEW n \in Nat, NEW x \in Nat, NEW y \in Nat, x < y
    PROVE  n * x + n <= n * y
  <1>1. PICK d \in Nat : y = x + 1 + d
    <2>1. y - x - 1 \in Nat /\ y = x + 1 + (y - x - 1)
      OBVIOUS
    <2>. QED
      BY <2>1
  <1>2. n * y = n * x + n + n * d
    BY <1>1
  <1>3. n * d >= 0 /\ n * d \in Int /\ n * x \in Int
    OBVIOUS
  <1>. QED
    BY <1>2, <1>3

LEMMA Division ==
    ASSUME NEW n \in Nat \ {0}, NEW a \in Nat
    PROVE  \E q \in Nat, r \in 0..(n - 1) : q = a \div n /\ r = a % n /\ a = n * q + r
  <1>1. PICK q \in Nat : q = a \div n
    OBVIOUS
  <1>2. PICK r \in 0..(n - 1) : r = a % n
    OBVIOUS
  <1>3. a = n * q + r
    BY <1>1, <1>2, SMTT(30)
  <1>. QED
    BY <1>1, <1>2, <1>3

LEMMA RemainderIs ==
    ASSUME NEW n \in Nat \ {0}, NEW q \in Nat, NEW r \in 0..(n - 1),
           NEW a \in Nat, a = n * q + r
    PROVE  a % n = r /\ a \div n = q
  <1>1. n * q \in Nat
    OBVIOUS
  <1>2. PICK d \in Nat, s \in 0..(n - 1) : d = a \div n /\ s = a % n /\ a = n * d + s
    BY Division
  <1>3. n * d \in Nat
    BY <1>2
  <1>4. ~(d < q)
    <2>. SUFFICES ASSUME d < q PROVE FALSE
      OBVIOUS
    <2>1. n * d + n <= n * q
      BY <1>2, Monotone
    <2>. QED
      BY <1>1, <1>2, <1>3, <2>1
  <1>5. ~(q < d)
    <2>. SUFFICES ASSUME q < d PROVE FALSE
      OBVIOUS
    <2>1. n * q + n <= n * d
      BY <1>2, Monotone
    <2>. QED
      BY <1>1, <1>2, <1>3, <2>1
  <1>6. d = q
    BY <1>2, <1>4, <1>5
  <1>7. s = r
    BY <1>1, <1>2, <1>6
  <1>. QED
    BY <1>2, <1>6, <1>7

\* One more digit.
LEMMA NextRemainder ==
    ASSUME NEW p \in Nat \ {0}, NEW m \in Nat \ {0}, NEW a \in Nat
    PROVE  /\ (a \div m) % p \in 0..(p - 1)
           /\ a % (p * m) = (a % m) + ((a \div m) % p) * m
  <1>1. PICK q \in Nat, r \in 0..(m - 1) : q = a \div m /\ r = a % m /\ a = m * q + r
    BY Division
  <1>2. PICK u \in Nat, d \in 0..(p - 1) : u = q \div p /\ d = q % p /\ q = p * u + d
    BY Division
  <1>3. a = (p * m) * u + (m * d + r)
    <2>1. m * q = m * (p * u) + m * d
      BY <1>2
    <2>2. m * (p * u) = (p * m) * u
      OBVIOUS
    <2>3. m * (p * u) \in Int /\ m * d \in Int
      OBVIOUS
    <2>. QED
      BY <1>1, <2>1, <2>2, <2>3
  <1>4. p * m \in Nat /\ p * m # 0 /\ m * d \in Nat
    <2>1. p * m \in Nat /\ m * d \in Nat
      OBVIOUS
    <2>2. p * m # 0
      OBVIOUS
    <2>. QED
      BY <2>1, <2>2
  <1>5. m * d + r \in 0..(p * m - 1)
    <2>1. m * d + m <= m * p
      BY Monotone
    <2>2. m * p = p * m
      OBVIOUS
    <2>. QED
      BY <1>4, <2>1, <2>2
  <1>6. PICK n \in Nat \ {0} : n = p * m
    BY <1>4
  <1>6a. PICK s \in 0..(n - 1) : s = m * d + r
    BY <1>5, <1>6
  <1>7. a = n * u + s
    BY <1>3, <1>6, <1>6a
  <1>8. a % n = s
    BY <1>7, RemainderIs
  <1>9. m * d + r = r + d * m
    OBVIOUS
  <1>. QED
    BY <1>1, <1>2, <1>6, <1>6a, <1>8, <1>9

LEMMA NextDigit ==
    ASSUME NEW a \in Nat, NEW i \in 0..MaxExponent
    PROVE  /\ Digit(a, i) \in 0..(Prime - 1)
           /\ a % Prime^(i + 1) = (a % Prime^i) + Digit(a, i) * Prime^i
  <1>1. PICK p \in Nat \ {0} : p = Prime
    BY PrimeIs
  <1>2. PICK m \in Nat \ {0} : m = Prime^i
    BY PowersOfPrime
  <1>3. Prime^(i + 1) = p * m
    BY <1>1, <1>2, PowersOfPrime
  <1>4. /\ (a \div m) % p \in 0..(p - 1)
        /\ a % (p * m) = (a % m) + ((a \div m) % p) * m
    BY NextRemainder
  <1>. QED
    BY <1>1, <1>2, <1>3, <1>4, Zenon DEF Digit

-----------------------------------------------------------------------------
(* Adding 1 counts the lowest digit up                                     *)

LEMMA PowerIs ==
    ASSUME NEW i \in 0..MaxExponent
    PROVE  /\ Prime^0 = 1 /\ Prime^i \in Nat \ {0}
           /\ Prime^(i + 1) = Prime * Prime^i /\ Prime^(i + 1) > 1
  <1>1. PICK p \in Nat \ {0, 1} : p = Prime
    BY PrimeIs
  <1>2. PICK m \in Nat \ {0} : m = Prime^i
    BY PowersOfPrime
  <1>3. Prime^0 = 1 /\ Prime^(i + 1) = p * m
    BY <1>1, <1>2, PowersOfPrime
  <1>4. PICK l \in Nat : m = l + 1
    <2>1. m - 1 \in Nat /\ m = m - 1 + 1
      OBVIOUS
    <2>. QED
      BY <2>1
  <1>5. p * m = p * l + p /\ p * l >= 0 /\ p * l \in Int
    BY <1>4
  <1>6. p * m > 1
    BY <1>5
  <1>. QED
    BY <1>1, <1>2, <1>3, <1>6

LEMMA DigitsOfOne ==
    ASSUME NEW i \in 1..MaxExponent
    PROVE  Digit(1, 0) = 1 /\ Digit(1, i) = 0
  <1>1. PICK p \in Nat \ {0} : p = Prime /\ p > 1
    BY PrimeIs
  <1>2. PICK m \in Nat \ {0} : m = Prime^i /\ m > 1
    <2>1. Prime^(i - 1 + 1) > 1
      <3>1. i - 1 \in 0..MaxExponent
        BY FieldAssumption
      <3>. QED
        BY <3>1, PowerIs
    <2>2. i - 1 + 1 = i
      OBVIOUS
    <2>3. Prime^i > 1
      BY <2>1, <2>2
    <2>. QED
      BY <2>3, PowersOfPrime
  <1>3. 1 \div m = 0
    BY <1>2
  <1>4. 1 \div 1 = 1 /\ 1 % p = 1 /\ 0 % p = 0
    BY <1>1
  <1>. QED
    BY <1>1, <1>2, <1>3, <1>4, PowersOfPrime DEF Digit

\* a with its lowest digit, d, counted up.
Up(a, d) == a - d + ((d + 1) % Prime)

LEMMA SumIs ==
    ASSUME NEW k \in 1..MaxExponent, NEW a \in Nat
    PROVE  Sum(k, a, 1) = Up(a % Prime^k, a % Prime)
  <1>. DEFINE Term(i) == ((Digit(a, i - 1) + Digit(1, i - 1)) % Prime) * Prime^(i - 1)
              G(f) == [i \in 0..k |-> IF i = 0 THEN 0 ELSE f[i - 1] + Term(i)]
              c == [i \in 0..k |-> IF i = 0 THEN 0 ELSE Up(a % Prime^i, a % Prime)]
              h == CHOOSE f : f = G(f)
  <1>1. ASSUME NEW i \in 1..k
        PROVE  c[i] = c[i - 1] + Term(i)
    <2>0. i - 1 \in 0..MaxExponent /\ i - 1 + 1 = i /\ i - 1 \in 0..k /\ i # 0
      BY FieldAssumption
    <2>1. PICK p \in Nat \ {0} : p = Prime
      BY PrimeIs
    <2>2. PICK r \in 0..(p - 1) : r = a % p
      BY <2>1
    <2>3. PICK s \in 0..(p - 1) : s = (r + 1) % p
      BY <2>1
    <2>3a. ASSUME NEW x \in Int
           PROVE  Up(x, r) = x - r + s
      <3>1. (r + 1) % Prime = s
        BY ONLY <2>1, <2>3, Zenon
      <3>. QED
        BY ONLY <3>1, Zenon DEF Up
    <2>4. PICK m \in Nat \ {0} : m = Prime^(i - 1)
      BY <2>0, PowerIs
    <2>5. PICK d \in 0..(p - 1) : d = Digit(a, i - 1) /\ a % Prime^i = (a % m) + d * m
      BY <2>0, <2>1, <2>4, NextDigit
    <2>6. c[i] = ((a % m) + d * m) - r + s
      <3>1. c[i] = Up(a % Prime^i, a % Prime)
        BY <2>0
      <3>2. c[i] = Up((a % m) + d * m, r)
        BY ONLY <2>1, <2>2, <2>5, <3>1, Zenon
      <3>3. Up((a % m) + d * m, r) = ((a % m) + d * m) - r + s
        BY <2>3a
      <3>. QED
        BY ONLY <3>2, <3>3, Zenon
    <2>7. CASE i = 1
      <3>1. m = 1 /\ a % m = 0
        BY <2>4, <2>7, PowersOfPrime
      <3>2. d = r
        <4>1. a \div 1 = a
          OBVIOUS
        <4>. QED
          BY <2>1, <2>2, <2>4, <2>5, <2>7, <3>1, <4>1 DEF Digit
      <3>3. Digit(1, 0) = 1
        BY DigitsOfOne, <2>7
      <3>4. Term(i) = s
        BY <2>1, <2>3, <2>4, <2>5, <2>7, <3>1, <3>2, <3>3
      <3>. QED
        BY <2>6, <2>7, <3>1, <3>2, <3>4
    <2>8. CASE i # 1
      <3>1. Digit(1, i - 1) = 0
        BY <2>0, <2>8, DigitsOfOne
      <3>2. d % p = d
        OBVIOUS
      <3>3. Term(i) = d * m
        BY <2>1, <2>4, <2>5, <3>1, <3>2
      <3>4. c[i - 1] = (a % m) - r + s
        <4>1. i - 1 # 0
          BY <2>8
        <4>2. c[i - 1] = Up(a % Prime^(i - 1), a % Prime)
          BY <2>0, <4>1
        <4>3. c[i - 1] = Up(a % m, r)
          BY ONLY <2>1, <2>2, <2>4, <4>2, Zenon
        <4>4. Up(a % m, r) = (a % m) - r + s
          BY <2>3a
        <4>. QED
          BY ONLY <4>3, <4>4, Zenon
      <3>. QED
        BY <2>6, <3>3, <3>4
    <2>. QED
      BY <2>7, <2>8
  <1>2. c[0] = 0 /\ c = [i \in 0..k |-> c[i]]
    OBVIOUS
  <1>3. c[k] = Up(a % Prime^k, a % Prime)
    OBVIOUS
  <1>4. Sum(k, a, 1) = h[k]
    BY Zenon DEF Sum, Code
  <1>. HIDE DEF c, Term
  <1>5. ASSUME NEW i \in 0..k
        PROVE  c[i] = IF i = 0 THEN 0 ELSE c[i - 1] + Term(i)
    <2>1. CASE i = 0
      BY <1>2, <2>1, Zenon
    <2>2. CASE i # 0
      <3>1. i \in 1..k
        BY <2>2
      <3>. QED
        BY <1>1, <2>2, <3>1, Zenon
    <2>. QED
      BY <2>1, <2>2
  <1>6. c = G(c)
    BY <1>2, <1>5, Zenon
  <1>7. h = G(h)
    BY <1>6, Zenon
  <1>. HIDE DEF h
  <1>8. \A i \in 0..k : h[i] = IF i = 0 THEN 0 ELSE h[i - 1] + Term(i)
    BY <1>7
  <1>. DEFINE S == {i \in 0..k : h[i] = c[i]}
  <1>9. 0 \in S
    BY <1>2, <1>8
  <1>10. ASSUME NEW i \in 1..k, i - 1 \in S
         PROVE  i \in S
    <2>1. i \in 0..k /\ i # 0 /\ h[i - 1] = c[i - 1]
      BY <1>10
    <2>2. h[i] = h[i - 1] + Term(i) /\ c[i] = c[i - 1] + Term(i)
      BY <1>1, <1>8, <2>1, Zenon
    <2>. QED
      BY <2>1, <2>2
  <1>11. k \in Nat /\ k \in 0..k
    OBVIOUS
  <1>. HIDE DEF S
  <1>12. \A i \in 0..k : i \in S
    BY <1>9, <1>10, <1>11, UpTo
  <1>13. k \in S
    BY <1>11, <1>12
  <1>14. h[k] = c[k]
    BY <1>13 DEF S
  <1>. QED
    BY <1>3, <1>4, <1>14

LEMMA OrderIs ==
    ASSUME NEW k \in 1..MaxExponent
    PROVE  \E n \in Nat \ {0, 1} : Order(k) = n /\ Element(k) = 0..(n - 1)
  <1>1. k - 1 \in 0..MaxExponent /\ k - 1 + 1 = k /\ k \in 0..MaxExponent
    BY FieldAssumption
  <1>2. PICK n \in Nat : n = Prime^k /\ n > 1
    BY <1>1, PowerIs
  <1>. QED
    BY <1>2 DEF Order, Element

\* The successor that compute_incrementation_table takes.
After(a) ==
    LET pix == (a \div Prime) * Prime IN IF a = pix + Prime - 1 THEN pix ELSE a + 1

LEMMA AfterIs ==
    ASSUME NEW k \in 1..MaxExponent, NEW a \in Element(k)
    PROVE  After(a) = Up(a, a % Prime) /\ After(a) \in Element(k)
  <1>0. k - 1 \in 0..MaxExponent /\ k - 1 + 1 = k
    BY FieldAssumption
  <1>1. PICK n \in Nat \ {0, 1} : Order(k) = n /\ Element(k) = 0..(n - 1)
    BY OrderIs
  <1>2. PICK p \in Nat \ {0, 1} : p = Prime
    BY PrimeIs
  <1>3. PICK m \in Nat \ {0} : m = Prime^(k - 1)
    BY <1>0, PowerIs
  <1>4. n = p * m
    BY <1>0, <1>1, <1>2, <1>3, PowerIs DEF Order
  <1>5. a \in Nat /\ a < n
    BY <1>1
  <1>6. PICK q \in Nat, r \in 0..(p - 1) : q = a \div p /\ r = a % p /\ a = p * q + r
    BY <1>2, <1>5, Division
  <1>7. PICK x \in Nat : x = q * p /\ a = x + r
    <2>1. q * p \in Nat /\ q * p = p * q
      OBVIOUS
    <2>. QED
      BY <1>6, <2>1
  <1>8. After(a) = IF a = x + p - 1 THEN x ELSE a + 1
    BY ONLY <1>2, <1>6, <1>7, Zenon DEF After
  <1>9. Up(a, r) = a - r + ((r + 1) % p)
    BY ONLY <1>2, Zenon DEF Up
  <1>10. CASE r = p - 1
    <2>1. (r + 1) % p = 0
      BY <1>2, <1>10
    <2>2. Up(a, r) = x
      BY <1>5, <1>7, <1>9, <2>1
    <2>3. a = x + p - 1
      BY <1>7, <1>10
    <2>4. After(a) = x
      BY <1>8, <2>3
    <2>5. x \in 0..(n - 1)
      BY <1>5, <1>7
    <2>6. r = a % Prime
      BY <1>2, <1>6
    <2>. QED
      BY <1>1, <2>2, <2>4, <2>5, <2>6
  <1>11. CASE r # p - 1
    <2>1. (r + 1) % p = r + 1
      BY <1>2, <1>11
    <2>2. Up(a, r) = a + 1
      BY <1>5, <1>9, <2>1
    <2>3. a # x + p - 1
      BY <1>7, <1>11
    <2>4. After(a) = a + 1
      BY <1>8, <2>3
    <2>5. a + 1 # n
      <3>. SUFFICES ASSUME a + 1 = n PROVE FALSE
        OBVIOUS
      <3>1. n = p * m + 0 /\ n \in Nat /\ 0 \in 0..(p - 1)
        BY <1>4
      <3>2. n % p = 0
        BY <3>1, RemainderIs
      <3>3. PICK s \in 0..(p - 1) : s = r + 1
        BY <1>11
      <3>3a. n = p * q + s
        <4>1. p * q \in Int
          OBVIOUS
        <4>. QED
          BY <1>6, <3>3, <4>1
      <3>4. n % p = r + 1
        <4>1. n \in Nat
          OBVIOUS
        <4>2. n % p = s
          BY <3>3a, <4>1, RemainderIs
        <4>. QED
          BY <3>3, <4>2
      <3>. QED
        BY <3>2, <3>4
    <2>6. a + 1 \in 0..(n - 1)
      BY <1>5, <2>5
    <2>7. r = a % Prime
      BY <1>2, <1>6
    <2>. QED
      BY <1>1, <2>2, <2>4, <2>6, <2>7
  <1>. QED
    BY <1>10, <1>11

\* Adding 1 in a field is what compute_incrementation_table does to the digits.
LEMMA AddOne ==
    ASSUME NEW k \in 1..MaxExponent, NEW a \in Element(k)
    PROVE  Add[k, a, 1] = After(a)
  <1>1. PICK n \in Nat \ {0, 1} : Order(k) = n /\ Element(k) = 0..(n - 1)
    BY OrderIs
  <1>2. a \in Nat /\ 1 \in Element(k)
    BY <1>1
  <1>. DEFINE t == <<k, a, 1>>
  <1>3. t \in Triple /\ t[1] = k /\ t[2] = a /\ t[3] = 1
    BY <1>2 DEF Triple
  <1>4. Add[k, a, 1] = Sum(k, a, 1)
    <2>1. Add[k, a, 1] = Add[t]
      BY Zenon
    <2>. HIDE DEF t
    <2>2. Add[t] = Sum(t[1], t[2], t[3])
      BY ONLY <1>3, Zenon DEF Add
    <2>. QED
      BY ONLY <1>3, <2>1, <2>2, Zenon
  <1>5. a % Prime^k = a
    <2>1. a % n = a
      BY <1>1
    <2>. QED
      BY <1>1, <2>1 DEF Order
  <1>. QED
    BY <1>2, <1>4, <1>5, SumIs, AfterIs

-----------------------------------------------------------------------------
(* The invariant                                                           *)

Times(k, a, b) == Mul[k, a, b]

\* The numbers of a sequence differ from each other and from zero.
Distinct(k, s) ==
    /\ s \in Seq(Element(k) \ {0})
    /\ \A i, j \in 1..Len(s) : s[i] = s[j] => i = j

TypeInv ==
    pc # "count" =>
        /\ pc \in {"fq", "reduction", "done"}
        /\ exponent \in 1..MaxExponent
        /\ gen \in Element(exponent) /\ gen_power \in Element(exponent)
        /\ fq_elements \in Seq(Element(exponent))

\* FqElementTable: the powers up to the one before gen_power, which do not repeat
\* as long as none but the first is 1.
FqInv ==
    pc = "fq" /\ ~zero_drawn =>
        /\ gen # 0
        /\ Distinct(exponent, fq_elements)
        /\ Len(fq_elements) \in 1..pred
        /\ fq_elements[1] = 1
        /\ \A i \in 1..(Len(fq_elements) - 1) :
              fq_elements[i + 1] = Times(exponent, fq_elements[i], gen)
        /\ gen_power = Times(exponent, fq_elements[Len(fq_elements)], gen)

\* Once zero has been drawn, it and its powers are appended.
ZeroInv ==
    pc = "fq" /\ zero_drawn =>
        /\ gen = 0 /\ gen_power = 0
        /\ Len(fq_elements) \in 1..pred
        /\ fq_elements[1] = 1
        /\ \A i \in 2..Len(fq_elements) : fq_elements[i] = 0

\* What TablesAreRight says of FqElementTable.
IsFqTable(k, s, zero) ==
    /\ Len(s) = Order(k)
    /\ s[1] = 1 /\ s[Order(k)] = 0
    /\ IF zero THEN \A i \in 2..PrimePowerPred(k) : s[i] = 0
       ELSE /\ Range(s) = Element(k)
            /\ \A i \in 2..PrimePowerPred(k) : s[i] = Mul[k, s[i - 1], s[2]]

FqDoneInv ==
    pc \in {"reduction", "done"} => IsFqTable(exponent, fq_elements, zero_drawn)

\* ReductionTable: the powers that were met begin with 1.
MetInv ==
    /\ pc = "fq" => gen_powers = <<>>
    /\ pc \in {"reduction", "done"} =>
        /\ Distinct(exponent, gen_powers)
        /\ Len(gen_powers) <= pred
        /\ IF gen_powers = <<>> THEN gen_power = 1 ELSE gen_powers[1] = 1
    /\ pc = "done" => Len(gen_powers) = pred

Inv == TypeInv /\ FqInv /\ ZeroInv /\ FqDoneInv /\ MetInv

-----------------------------------------------------------------------------
(* Lists of elements                                                       *)

LEMMA TimesIs ==
    ASSUME NEW k \in 1..MaxExponent
    PROVE  /\ \A a, b \in Element(k) : Times(k, a, b) \in Element(k)
           /\ \A a \in Element(k) : Times(k, 1, a) = a
           /\ \A a, b, g \in Element(k) \ {0} :
                 Times(k, a, g) # 0 /\ (Times(k, a, g) = Times(k, b, g) => a = b)
  BY FieldLaws, Zenon DEF Times

LEMMA One ==
    ASSUME NEW k \in 1..MaxExponent
    PROVE  /\ 0 \in Element(k) /\ 1 \in Element(k) \ {0}
           /\ Order(k) - 1 \in Nat \ {0} /\ Element(k) \ {0} = 1..(Order(k) - 1)
  <1>1. PICK n \in Nat \ {0, 1} : Order(k) = n /\ Element(k) = 0..(n - 1)
    BY OrderIs
  <1>2. (0..(n - 1)) \ {0} = 1..(n - 1)
    OBVIOUS
  <1>. QED
    BY <1>1, <1>2

LEMMA DistinctEmpty ==
    ASSUME NEW k
    PROVE  Distinct(k, <<>>) /\ Len(<<>>) = 0
  BY DEF Distinct

LEMMA DistinctSingle ==
    ASSUME NEW k, NEW x \in Element(k) \ {0}
    PROVE  Distinct(k, <<x>>) /\ Len(<<x>>) = 1 /\ <<x>>[1] = x
  BY DEF Distinct

LEMMA DistinctAppend ==
    ASSUME NEW k, NEW s, Distinct(k, s), NEW x \in Element(k) \ {0},
           \A i \in 1..Len(s) : s[i] # x
    PROVE  /\ Distinct(k, Append(s, x)) /\ Len(Append(s, x)) = Len(s) + 1
           /\ \A i \in 1..Len(s) : Append(s, x)[i] = s[i]
           /\ Append(s, x)[Len(s) + 1] = x
  <1>. DEFINE t == Append(s, x)
              n == Len(s)
  <1>1. /\ s \in Seq(Element(k) \ {0}) /\ n \in Nat
        /\ \A i, j \in 1..n : s[i] = s[j] => i = j
    BY DEF Distinct
  <1>2. t \in Seq(Element(k) \ {0}) /\ Len(t) = n + 1
    BY <1>1
  <1>3. \A i \in 1..n : t[i] = s[i]
    BY <1>1
  <1>4. t[n + 1] = x
    BY <1>1
  <1>. HIDE DEF t
  <1>5. ASSUME NEW i \in 1..(n + 1), NEW j \in 1..(n + 1), t[i] = t[j]
        PROVE  i = j
    <2>1. CASE i \in 1..n /\ j \in 1..n
      BY <1>1, <1>3, <1>5, <2>1
    <2>2. CASE i \in 1..n /\ j = n + 1
      BY <1>3, <1>4, <1>5, <2>2
    <2>3. CASE i = n + 1 /\ j \in 1..n
      BY <1>3, <1>4, <1>5, <2>3
    <2>4. CASE i = n + 1 /\ j = n + 1
      BY <2>4
    <2>. QED
      BY <1>1, <2>1, <2>2, <2>3, <2>4
  <1>6. Distinct(k, t)
    BY <1>2, <1>5 DEF Distinct
  <1>. HIDE DEF n
  <1>7. t = Append(s, x) /\ n = Len(s)
    BY DEF t, n
  <1>. QED
    BY ONLY <1>2, <1>3, <1>4, <1>6, <1>7, Zenon

\* A list without repetitions that is as long as there are nonzero elements has
\* them all.
LEMMA AllListed ==
    ASSUME NEW k \in 1..MaxExponent, NEW s, Distinct(k, s), Len(s) = Order(k) - 1
    PROVE  \A b \in Element(k) \ {0} : \E i \in 1..Len(s) : s[i] = b
  <1>. DEFINE S == 1..Len(s)
              T == Element(k) \ {0}
  <1>1. s \in [S -> T] /\ \A i, j \in S : s[i] = s[j] => i = j
    BY DEF Distinct
  <1>2. S = T /\ IsFiniteSet(T)
    <2>1. Order(k) - 1 \in Int /\ T = 1..(Order(k) - 1)
      BY One
    <2>2. IsFiniteSet(1..(Order(k) - 1))
      BY <2>1, FS_Interval
    <2>. QED
      BY <2>1, <2>2
  <1>. HIDE DEF S, T
  <1>3. s \in Injection(S, T)
    BY <1>1, Fun_IsInj
  <1>4. s \in Surjection(S, T)
    BY <1>2, <1>3, FS_Injection
  <1>5. \A b \in T : \E i \in S : s[i] = b
    BY <1>4, Fun_SurjectionProperties
  <1>. QED
    BY <1>5 DEF S, T

-----------------------------------------------------------------------------
(* The steps                                                               *)

LEMMA InitInv == Init => Inv
  <1>. SUFFICES ASSUME Init PROVE Inv
    OBVIOUS
  <1>1. /\ pc = "fq" /\ exponent \in 1..MaxExponent /\ gen \in Element(exponent) \ {0}
        /\ gen_power = gen /\ fq_elements = <<1>> /\ gen_powers = <<>>
    <2>1. FieldGenerators \subseteq Element(exponent) \ {0}
      BY Zenon DEF FieldGenerators
    <2>. QED
      BY <2>1 DEF Init, TableInit
  <1>2. 1 \in Element(exponent) \ {0} /\ pred \in Nat \ {0}
    BY <1>1, One DEF pred, PrimePowerPred
  <1>3. Distinct(exponent, fq_elements) /\ Len(fq_elements) = 1 /\ fq_elements[1] = 1
    BY <1>1, <1>2, DistinctSingle
  <1>4. Times(exponent, 1, gen) = gen
    BY <1>1, TimesIs
  <1>5. TypeInv
    BY <1>1, <1>2 DEF TypeInv
  <1>6. FqInv
    BY <1>1, <1>2, <1>3, <1>4 DEF FqInv
  <1>. QED
    <2>1. ~zero_drawn
      BY DEF Init, TableInit
    <2>. QED
      BY <1>1, <1>5, <1>6, <2>1 DEF Inv, ZeroInv, FqDoneInv, MetInv

LEMMA PushPowerInv ==
    ASSUME Inv, PushPower
    PROVE  Inv'
  <1>. DEFINE n == Len(fq_elements)
              k == exponent
  <1>1. /\ pc = "fq" /\ pc' = "fq" /\ k \in 1..MaxExponent /\ gen_powers = <<>>
        /\ gen \in Element(k) /\ gen_power \in Element(k) /\ fq_elements \in Seq(Element(k))
    BY DEF Inv, TypeInv, MetInv, PushPower
  <1>2. /\ n < pred /\ gen_power # 1 /\ fq_elements' = Append(fq_elements, gen_power)
        /\ gen_power' = Times(k, gen_power, gen)
        /\ UNCHANGED <<pc, exponent, gen, gen_powers, zero_drawn, pred>>
    BY Zenon DEF PushPower, Times, pred
  <1>3. pred \in Nat
    BY <1>1, One DEF pred, PrimePowerPred
  <1>4. Times(k, gen_power, gen) \in Element(k)
    BY <1>1, TimesIs
  <1>5. TypeInv'
    <2>1. fq_elements' \in Seq(Element(k))
      BY <1>1, <1>2
    <2>. QED
      BY <1>1, <1>2, <1>4, <2>1 DEF TypeInv
  <1>6. FqInv'
    <2>. SUFFICES ASSUME ~zero_drawn
                  PROVE  /\ Distinct(k, fq_elements')
                         /\ Len(fq_elements') \in 1..pred
                         /\ fq_elements'[1] = 1
                         /\ \A i \in 1..(Len(fq_elements') - 1) :
                               fq_elements'[i + 1] = Times(k, fq_elements'[i], gen)
                         /\ gen_power' = Times(k, fq_elements'[Len(fq_elements')], gen)
      BY <1>1, <1>2 DEF Inv, FqInv
    <2>1. /\ gen # 0 /\ Distinct(k, fq_elements) /\ n \in 1..pred /\ fq_elements[1] = 1
          /\ \A i \in 1..(n - 1) : fq_elements[i + 1] = Times(k, fq_elements[i], gen)
          /\ gen_power = Times(k, fq_elements[n], gen)
      BY <1>1 DEF Inv, FqInv
    <2>. HIDE DEF n
    <2>2. /\ \A i \in 1..n : fq_elements[i] \in Element(k) \ {0}
          /\ \A i, j \in 1..n : fq_elements[i] = fq_elements[j] => i = j
      BY <2>1 DEF Distinct, n
    <2>3. gen_power \in Element(k) \ {0}
      BY <1>1, <2>1, <2>2, TimesIs
    <2>4. ASSUME NEW i \in 1..n
          PROVE  fq_elements[i] # gen_power
      <3>1. CASE i = 1
        BY <1>2, <2>1, <3>1
      <3>2. CASE i # 1
        <4>. SUFFICES ASSUME fq_elements[i] = gen_power PROVE FALSE
          OBVIOUS
        <4>1. i - 1 \in 1..(n - 1) /\ i - 1 + 1 = i /\ i - 1 \in 1..n /\ n \in 1..n /\ i - 1 # n
          BY <1>3, <2>1, <3>2
        <4>2. fq_elements[i] = Times(k, fq_elements[i - 1], gen)
          BY <2>1, <4>1
        <4>3. Times(k, fq_elements[i - 1], gen) = Times(k, fq_elements[n], gen)
          BY <2>1, <4>2
        <4>4. /\ fq_elements[i - 1] \in Element(k) \ {0}
              /\ fq_elements[n] \in Element(k) \ {0} /\ gen \in Element(k) \ {0}
          BY <1>1, <2>1, <2>2, <4>1
        <4>5. fq_elements[i - 1] = fq_elements[n]
          BY ONLY <1>1, <4>3, <4>4, TimesIs, Zenon
        <4>. QED
          BY <2>2, <4>1, <4>5
      <3>. QED
        BY <3>1, <3>2
    <2>5. /\ Distinct(k, fq_elements') /\ Len(fq_elements') = n + 1
          /\ \A i \in 1..n : fq_elements'[i] = fq_elements[i]
          /\ fq_elements'[n + 1] = gen_power
      BY <1>2, <2>1, <2>3, <2>4, DistinctAppend DEF n
    <2>6. n + 1 \in 1..pred /\ 1 \in 1..n
      BY <1>2, <1>3, <2>1 DEF n
    <2>7. ASSUME NEW i \in 1..n
          PROVE  fq_elements'[i + 1] = Times(k, fq_elements'[i], gen)
      <3>1. CASE i = n
        BY <2>1, <2>5, <3>1
      <3>2. CASE i # n
        <4>1. i \in 1..(n - 1) /\ i + 1 \in 1..n
          BY <2>1, <3>2
        <4>. QED
          BY <2>1, <2>5, <4>1
      <3>. QED
        BY <3>1, <3>2
    <2>9. \A i \in 1..(Len(fq_elements') - 1) :
             fq_elements'[i + 1] = Times(k, fq_elements'[i], gen)
      <3>1. Len(fq_elements') - 1 = n
        BY <1>3, <2>1, <2>5
      <3>. QED
        BY ONLY <2>7, <3>1, Zenon
    <2>10. fq_elements'[1] = 1
      BY <2>1, <2>5, <2>6
    <2>. QED
      BY <1>2, <2>5, <2>6, <2>9, <2>10
  <1>7. ZeroInv'
    <2>. SUFFICES ASSUME zero_drawn
                  PROVE  /\ gen = 0 /\ gen_power' = 0
                         /\ Len(fq_elements') \in 1..pred
                         /\ fq_elements'[1] = 1
                         /\ \A i \in 2..Len(fq_elements') : fq_elements'[i] = 0
      BY <1>1, <1>2 DEF ZeroInv
    <2>1. /\ gen = 0 /\ gen_power = 0 /\ n \in 1..pred /\ fq_elements[1] = 1
          /\ \A i \in 2..n : fq_elements[i] = 0
      BY <1>1 DEF Inv, ZeroInv
    <2>2. gen_power' = 0
      <3>1. Times(k, 0, 0) = 0
        BY <1>1, <2>1, RingLaws, Zenon DEF Times
      <3>. QED
        BY <1>2, <2>1, <3>1
    <2>3. /\ Len(fq_elements') = n + 1
          /\ \A i \in 1..n : fq_elements'[i] = fq_elements[i]
          /\ fq_elements'[n + 1] = gen_power
      BY <1>1, <1>2
    <2>. HIDE DEF n
    <2>. QED
      BY <1>2, <1>3, <2>1, <2>2, <2>3
  <1>. QED
    BY <1>1, <1>2, <1>5, <1>6, <1>7 DEF Inv, FqDoneInv, MetInv

LEMMA DrawAgainInv ==
    ASSUME Inv, NEW g \in Element(exponent), DrawAgain(g)
    PROVE  Inv'
  <1>. DEFINE k == exponent
  <1>1. /\ pc = "fq" /\ pc' = "fq" /\ k \in 1..MaxExponent /\ gen_powers = <<>>
    BY DEF Inv, TypeInv, MetInv, DrawAgain
  <1>2. /\ gen' = g /\ gen_power' = g /\ fq_elements' = <<1>>
        /\ ~zero_drawn' => g # 0
        /\ UNCHANGED <<pc, exponent, gen_powers, pred>>
    BY Zenon DEF DrawAgain, pred
  <1>3. pred \in Nat \ {0} /\ 1 \in Element(k) \ {0}
    BY <1>1, One DEF pred, PrimePowerPred
  <1>4. Distinct(k, <<1>>) /\ Len(<<1>>) = 1 /\ <<1>>[1] = 1
    BY <1>3, DistinctSingle
  <1>5. Times(k, 1, g) = g
    BY <1>1, TimesIs
  <1>6. TypeInv'
    BY <1>1, <1>2, <1>3 DEF TypeInv
  <1>7. FqInv'
    BY <1>1, <1>2, <1>3, <1>4, <1>5 DEF FqInv
  <1>8. ZeroInv'
    <2>1. ~zero_drawn
      BY <1>1 DEF Inv, ZeroInv, DrawAgain
    <2>2. zero_drawn' => g = 0
      BY <2>1 DEF DrawAgain
    <2>3. Len(<<1>>) \in 1..pred /\ \A i \in 2..Len(<<1>>) : <<1>>[i] = 0
      BY <1>3, <1>4
    <2>. QED
      BY <1>2, <1>4, <2>2, <2>3 DEF ZeroInv
  <1>. QED
    BY <1>1, <1>2, <1>6, <1>7, <1>8 DEF Inv, FqDoneInv, MetInv

LEMMA FqElementTableDoneInv ==
    ASSUME Inv, NEW g \in FieldGenerators, FqElementTableDone(g)
    PROVE  Inv'
  <1>. DEFINE n == Len(fq_elements)
              k == exponent
              t == Append(fq_elements, 0)
  <1>1. /\ pc = "fq" /\ k \in 1..MaxExponent /\ gen_powers = <<>>
        /\ fq_elements \in Seq(Element(k))
    BY DEF Inv, TypeInv, MetInv, FqElementTableDone
  <1>2. /\ n >= pred /\ pc' = "reduction" /\ gen' = g /\ gen_power' = 1
        /\ fq_elements' = t /\ UNCHANGED <<exponent, gen_powers, zero_drawn, pred>>
    BY Zenon DEF FqElementTableDone, pred
  <1>3. g \in Element(k)
    BY Zenon DEF FieldGenerators
  <1>4. /\ pred = Order(k) - 1 /\ pred \in Nat \ {0}
        /\ 0 \in Element(k) /\ 1 \in Element(k) /\ Element(k) \ {0} = 1..pred
    BY <1>1, One DEF pred, PrimePowerPred
  <1>5. Order(k) \in Nat
    BY <1>1, OrderIs
  <1>6. t \in Seq(Element(k))
    BY <1>1, <1>4
  <1>7. TypeInv'
    BY <1>1, <1>2, <1>3, <1>4, <1>6 DEF TypeInv
  <1>8. n = pred /\ t[1] = 1 /\ Len(t) = Order(k) /\ t[Order(k)] = 0
    <2>1. n \in 1..pred /\ fq_elements[1] = 1
      BY <1>1 DEF Inv, FqInv, ZeroInv
    <2>2. n = pred
      BY <1>2, <1>4, <2>1
    <2>. QED
      BY <1>1, <1>4, <1>5, <2>1, <2>2
  <1>8a. \A i \in 1..n : t[i] = fq_elements[i] /\ i \in DOMAIN t
    BY <1>1
  <1>8b. ASSUME ~zero_drawn
         PROVE  /\ Range(t) = Element(k)
                /\ \A i \in 2..pred : t[i] = Mul[k, t[i - 1], t[2]]
    <2>1. /\ Distinct(k, fq_elements) /\ fq_elements[1] = 1 /\ gen \in Element(k)
          /\ \A i \in 1..(n - 1) : fq_elements[i + 1] = Times(k, fq_elements[i], gen)
      BY <1>1, <1>8b DEF Inv, FqInv, TypeInv
    <2>2. n = Order(k) - 1
      BY <1>4, <1>8
    <2>4. \A b \in Element(k) \ {0} : \E i \in 1..n : fq_elements[i] = b
      BY <1>1, <2>1, <2>2, AllListed
    <2>6. t[n + 1] = 0 /\ n + 1 \in DOMAIN t
      BY <1>1
    <2>. HIDE DEF t, n
    <2>7. ASSUME NEW b \in Element(k)
          PROVE  \E i \in DOMAIN t : t[i] = b
      <3>1. CASE b = 0
        BY <2>6, <3>1
      <3>2. CASE b # 0
        <4>1. PICK i \in 1..n : fq_elements[i] = b
          BY <2>4, <3>2
        <4>. QED
          BY <1>8a, <4>1
      <3>. QED
        BY <3>1, <3>2
    <2>8. \A i \in DOMAIN t : t[i] \in Element(k)
      BY <1>6
    <2>9. Range(t) = Element(k)
      BY <2>7, <2>8 DEF Range
    <2>10. ASSUME NEW i \in 2..pred
           PROVE  t[i] = Mul[k, t[i - 1], t[2]]
      <3>1. /\ i - 1 \in 1..(n - 1) /\ i - 1 + 1 = i /\ i - 1 \in 1..n /\ i \in 1..n
            /\ 1 \in 1..(n - 1) /\ 1 + 1 = 2 /\ 2 \in 1..n
        BY <1>4, <1>8
      <3>2. fq_elements[2] = gen
        <4>1. fq_elements[1 + 1] = Times(k, fq_elements[1], gen)
          BY ONLY <2>1, <3>1, Zenon
        <4>2. Times(k, 1, gen) = gen
          BY <1>1, <2>1, TimesIs
        <4>. QED
          BY ONLY <2>1, <3>1, <4>1, <4>2, Zenon
      <3>3. fq_elements[i - 1 + 1] = Times(k, fq_elements[i - 1], gen)
        BY ONLY <2>1, <3>1, Zenon
      <3>4. /\ t[i] = fq_elements[i] /\ t[i - 1] = fq_elements[i - 1]
            /\ t[2] = fq_elements[2]
        BY ONLY <1>8a, <3>1, Zenon
      <3>. QED
        BY ONLY <3>1, <3>2, <3>3, <3>4, Zenon DEF Times
    <2>. QED
      BY <2>9, <2>10
  <1>8c. ASSUME zero_drawn
         PROVE  \A i \in 2..pred : t[i] = 0
    <2>1. \A i \in 2..n : fq_elements[i] = 0
      BY <1>1, <1>8c DEF Inv, ZeroInv
    <2>2. \A i \in 2..n : i \in 1..n
      OBVIOUS
    <2>. HIDE DEF t, n
    <2>. QED
      BY ONLY <1>8, <1>8a, <2>1, <2>2, Zenon
  <1>9. FqDoneInv'
    <2>1. PrimePowerPred(k) = pred
      BY Zenon DEF pred
    <2>. HIDE DEF t
    <2>2. IsFqTable(k, t, zero_drawn)
      BY ONLY <1>8, <1>8b, <1>8c, <2>1, Zenon DEF IsFqTable
    <2>. QED
      BY <1>2, <2>2, Zenon DEF FqDoneInv
  <1>10. MetInv'
    <2>1. Distinct(k, <<>>) /\ Len(<<>>) = 0
      BY DistinctEmpty
    <2>. QED
      BY <1>1, <1>2, <1>4, <2>1 DEF MetInv
  <1>. QED
    BY <1>2, <1>7, <1>9, <1>10 DEF Inv, FqInv, ZeroInv

LEMMA RecordPowerInv ==
    ASSUME Inv, RecordPower
    PROVE  Inv'
  <1>. DEFINE n == Len(gen_powers)
              k == exponent
  <1>1. /\ pc = "reduction" /\ k \in 1..MaxExponent
        /\ gen \in Element(k) /\ gen_power \in Element(k)
        /\ Distinct(k, gen_powers)
        /\ IF gen_powers = <<>> THEN gen_power = 1 ELSE gen_powers[1] = 1
    BY DEF Inv, TypeInv, MetInv, RecordPower
  <1>2. /\ n < pred /\ gen_powers' = Append(gen_powers, gen_power)
        /\ gen_power' = Times(k, gen_power, gen)
        /\ UNCHANGED <<pc, exponent, gen, fq_elements, zero_drawn, pred>>
    BY Zenon DEF RecordPower, Times, pred
  <1>3. pred \in Nat /\ n \in Nat
    BY <1>1, One DEF pred, PrimePowerPred, Distinct
  <1>4. Times(k, gen_power, gen) \in Element(k)
    BY <1>1, TimesIs
  <1>5. gen_power \in Element(k) \ {0} /\ \A i \in 1..n : gen_powers[i] # gen_power
    <2>1. gen_power \notin {0} \cup Range(gen_powers)
      BY DEF RecordPower, Repeated, Met
    <2>2. gen_power # 0 /\ \A i \in DOMAIN gen_powers : gen_powers[i] # gen_power
      BY <2>1 DEF Range
    <2>3. DOMAIN gen_powers = 1..n
      BY <1>1 DEF Distinct
    <2>. QED
      BY <1>1, <2>2, <2>3
  <1>6. /\ Distinct(k, gen_powers') /\ Len(gen_powers') = n + 1
        /\ \A i \in 1..n : gen_powers'[i] = gen_powers[i]
        /\ gen_powers'[n + 1] = gen_power
    BY <1>1, <1>2, <1>5, DistinctAppend
  <1>7. gen_powers'[1] = 1
    <2>1. CASE gen_powers = <<>>
      BY <1>1, <1>6, <2>1
    <2>2. CASE gen_powers # <<>>
      <3>1. 1 \in 1..n
        BY <1>1, <2>2 DEF Distinct
      <3>. QED
        BY <1>1, <1>6, <2>2, <3>1
    <2>. QED
      BY <2>1, <2>2
  <1>8. n + 1 <= pred /\ gen_powers' # <<>>
    <2>1. n + 1 <= pred /\ n + 1 # 0
      BY <1>2, <1>3
    <2>2. Len(<<>>) = 0
      OBVIOUS
    <2>. QED
      BY <1>6, <2>1, <2>2, Zenon
  <1>9. TypeInv'
    BY <1>1, <1>2, <1>4 DEF Inv, TypeInv
  <1>. HIDE DEF n
  <1>10. MetInv'
    BY <1>1, <1>2, <1>6, <1>7, <1>8 DEF MetInv
  <1>. QED
    BY <1>1, <1>2, <1>9, <1>10 DEF Inv, FqInv, ZeroInv, FqDoneInv

LEMMA RetryCandidateInv ==
    ASSUME Inv, NEW g \in Element(exponent), RetryCandidate(g)
    PROVE  Inv'
  <1>1. /\ pc = "reduction" /\ exponent \in 1..MaxExponent
        /\ gen' = g /\ gen_power' = 1 /\ gen_powers' = <<>>
        /\ UNCHANGED <<pc, exponent, fq_elements, zero_drawn, pred>>
    BY Zenon DEF Inv, TypeInv, RetryCandidate, pred
  <1>2. pred \in Nat /\ 1 \in Element(exponent)
    BY <1>1, One DEF pred, PrimePowerPred
  <1>3. Distinct(exponent, <<>>) /\ Len(<<>>) = 0
    BY DistinctEmpty
  <1>4. TypeInv'
    BY <1>1, <1>2 DEF Inv, TypeInv
  <1>5. MetInv'
    BY <1>1, <1>2, <1>3 DEF MetInv
  <1>. QED
    BY <1>1, <1>4, <1>5 DEF Inv, FqInv, ZeroInv, FqDoneInv

LEMMA ReductionTableDoneInv ==
    ASSUME Inv, ReductionTableDone
    PROVE  Inv'
  <1>1. /\ pc = "reduction" /\ pc' = "done" /\ exponent \in 1..MaxExponent
        /\ Len(gen_powers) >= pred
        /\ UNCHANGED <<exponent, gen, gen_power, fq_elements, gen_powers, zero_drawn, pred>>
    BY Zenon DEF Inv, TypeInv, ReductionTableDone, pred
  <1>2. TypeInv' /\ FqInv' /\ ZeroInv' /\ FqDoneInv'
    BY <1>1 DEF Inv, TypeInv, FqInv, ZeroInv, FqDoneInv
  <1>3. MetInv'
    <2>1. /\ Distinct(exponent, gen_powers)
          /\ Len(gen_powers) <= pred
          /\ IF gen_powers = <<>> THEN gen_power = 1 ELSE gen_powers[1] = 1
      BY <1>1 DEF Inv, MetInv
    <2>2. Len(gen_powers) \in Nat /\ pred \in Nat
      BY <1>1, <2>1, One DEF Distinct, pred, PrimePowerPred
    <2>3. Len(gen_powers) = pred
      BY <1>1, <2>1, <2>2
    <2>. QED
      BY <1>1, <2>1, <2>3 DEF MetInv
  <1>. QED
    BY <1>2, <1>3 DEF Inv

LEMMA StepInv == Inv /\ [Next]_vars => Inv'
  <1>. SUFFICES ASSUME Inv, [Next]_vars PROVE Inv'
    OBVIOUS
  <1>1. CASE PushPower
    BY <1>1, PushPowerInv
  <1>2. ASSUME NEW g \in Element(exponent), DrawAgain(g) PROVE Inv'
    BY <1>2, DrawAgainInv
  <1>3. ASSUME NEW g \in FieldGenerators, FqElementTableDone(g) PROVE Inv'
    BY <1>3, FqElementTableDoneInv
  <1>4. CASE RecordPower
    BY <1>4, RecordPowerInv
  <1>5. ASSUME NEW g \in Element(exponent), RetryCandidate(g) PROVE Inv'
    BY <1>5, RetryCandidateInv
  <1>6. CASE ReductionTableDone
    BY <1>6, ReductionTableDoneInv
  <1>7. CASE UseTables
    <2>1. pc' = "count"
      BY <1>7, Zenon DEF UseTables
    <2>. QED
      BY <2>1 DEF Inv, TypeInv, FqInv, ZeroInv, FqDoneInv, MetInv
  <1>8. CASE UNCHANGED table_vars
    BY <1>8
    DEF table_vars, Inv, TypeInv, FqInv, ZeroInv, FqDoneInv, MetInv, pred, PrimePowerPred
  <1>9. CASE MakeTables
    BY <1>1, <1>2, <1>3, <1>4, <1>5, <1>6, <1>9, Zenon DEF MakeTables, TableNext
  <1>10. ASSUME NEW position \in Position, TakePosition(position) PROVE Inv'
    BY <1>7, <1>10, Zenon DEF TakePosition
  <1>11. ASSUME NEW coefficients \in Coefficients, TakeCoefficients(coefficients) PROVE Inv'
    BY <1>7, <1>11, Zenon DEF TakeCoefficients
  <1>12. ASSUME NEW way, Count(way) PROVE Inv'
    BY <1>8, <1>12, Zenon DEF Count
  <1>13. CASE Register
    BY <1>8, <1>13, Zenon DEF Register
  <1>14. CASE UNCHANGED vars
    BY <1>8, <1>14, Zenon DEF vars
  <1>. QED
    BY <1>9, <1>10, <1>11, <1>12, <1>13, <1>14, Zenon DEF Next

-----------------------------------------------------------------------------
(* What follows                                                            *)

\* What TablesAreRight says of the table of compute_incrementation_table, with the
\* successor as the function that it computes.
IsIncrementation(k, powers, table) ==
    /\ Range(powers) = Element(k) \ {0}
    /\ table[Order(k) - 1] = 0
    /\ \A i \in 0..(Order(k) - 2) :
          IF After(powers[i]) = 0 THEN table[i] = Order(k) - 1
          ELSE table[i] < Order(k) - 1 /\ powers[table[i]] = After(powers[i])
    /\ \A i \in 0..(Order(k) - 2) : table[i] \in 0..(Order(k) - 1)

\* The numbers from 1 to n - 1, and where they are.
Listing(n, powers) ==
    /\ powers \in [0..(n - 2) -> 1..(n - 1)] /\ powers[0] = 1
    /\ \A i, j \in 0..(n - 2) : powers[i] = powers[j] => i = j
    /\ \A b \in 1..(n - 1) : \E i \in 0..(n - 2) : powers[i] = b

IsLogarithm(n, powers, l) ==
    /\ l[0] = n - 1
    /\ \A i \in 0..(n - 2) : l[powers[i]] = i
    /\ \A b \in 1..(n - 1) : l[b] \in 0..(n - 2) /\ powers[l[b]] = b
    /\ Range(powers) = 1..(n - 1)

LEMMA LogarithmIs ==
    ASSUME NEW k \in 1..MaxExponent, NEW n \in Nat \ {0, 1}, Order(k) = n,
           Element(k) = 0..(n - 1),
           NEW powers, Listing(n, powers), NEW l, l = GenPowers(k, powers)
    PROVE  IsLogarithm(n, powers, l)
  <1>0. /\ powers \in [0..(n - 2) -> 1..(n - 1)]
        /\ \A i, j \in 0..(n - 2) : powers[i] = powers[j] => i = j
        /\ \A b \in 1..(n - 1) : \E i \in 0..(n - 2) : powers[i] = b
    BY DEF Listing
  <1>1. Range(powers) = 1..(n - 1)
    BY <1>0 DEF Range
  <1>2. DOMAIN powers = 0..(n - 2) /\ ZeroIndex(k) = n - 1
    BY <1>0 DEF ZeroIndex, PrimePowerPred
  <1>3. l[0] = n - 1
    BY <1>1, <1>2 DEF GenPowers
  <1>4. ASSUME NEW b \in 1..(n - 1)
        PROVE  l[b] \in 0..(n - 2) /\ powers[l[b]] = b
    <2>1. l[b] = CHOOSE ix \in 0..(n - 2) : powers[ix] = b
      BY <1>1, <1>2 DEF GenPowers
    <2>. QED
      BY <1>0, <2>1
  <1>5. ASSUME NEW i \in 0..(n - 2)
        PROVE  l[powers[i]] = i
    <2>1. powers[i] \in 1..(n - 1)
      BY <1>0
    <2>2. l[powers[i]] \in 0..(n - 2) /\ powers[l[powers[i]]] = powers[i]
      BY <1>4, <2>1
    <2>. QED
      BY <1>0, <2>2
  <1>. QED
    BY <1>1, <1>3, <1>4, <1>5 DEF IsLogarithm

LEMMA IncrementationIs ==
    ASSUME NEW k \in 1..MaxExponent, NEW n \in Nat \ {0, 1}, Order(k) = n,
           Element(k) = 0..(n - 1),
           NEW powers, Listing(n, powers), NEW table,
           table = IncrementationTable(k, GenPowers(k, powers))
    PROVE  IsIncrementation(k, powers, table)
  <1>. DEFINE l == GenPowers(k, powers)
  <1>0. powers \in [0..(n - 2) -> 1..(n - 1)] /\ powers[0] = 1
    BY DEF Listing
  <1>1. /\ l[0] = n - 1
        /\ \A i \in 0..(n - 2) : l[powers[i]] = i
        /\ \A b \in 1..(n - 1) : l[b] \in 0..(n - 2) /\ powers[l[b]] = b
        /\ Range(powers) = 1..(n - 1)
    <2>1. IsLogarithm(n, powers, l)
      BY LogarithmIs
    <2>. QED
      BY <2>1 DEF IsLogarithm
  <1>2. table = IncrementationTable(k, l)
    OBVIOUS
  <1>. HIDE DEF l
  <1>3. table = [ix \in 0..(n - 1) |-> l[After(CHOOSE b \in Element(k) : l[b] = ix)]]
    BY ONLY <1>2, Order(k) = n, Zenon DEF IncrementationTable, PrimePowerPred, After
  <1>4. ASSUME NEW a \in Element(k), NEW ix \in 0..(n - 1), l[a] = ix
        PROVE  table[ix] = l[After(a)]
    <2>. DEFINE c == CHOOSE b \in Element(k) : l[b] = ix
    <2>1. c \in Element(k) /\ l[c] = ix
      BY <1>4, Zenon
    <2>2. table[ix] = l[After(c)]
      BY <1>3
    <2>. HIDE DEF c
    <2>3. c = a
      <3>1. CASE a = 0
        BY <1>1, <1>4, <2>1, <3>1
      <3>2. CASE a # 0
        <4>1. a \in 1..(n - 1) /\ l[a] \in 0..(n - 2)
          BY <1>1, <3>2
        <4>2. c \in 1..(n - 1)
          BY <1>1, <1>4, <2>1, <4>1
        <4>. QED
          BY <1>1, <1>4, <2>1, <4>1, <4>2
      <3>. QED
        BY <3>1, <3>2
    <2>. QED
      BY <2>2, <2>3
  <1>5. \A a \in Element(k) : After(a) \in Element(k)
    BY AfterIs
  <1>6. table[n - 1] = 0
    <2>1. 0 \in Element(k) /\ 1 \in Element(k) /\ l[1] = 0 /\ 0 \in 0..(n - 2)
      BY <1>0, <1>1
    <2>2. After(0) = 1
      <3>1. PICK p \in Nat \ {0, 1} : p = Prime
        BY PrimeIs
      <3>2. 0 \div p = 0 /\ 0 * p = 0 /\ 0 # 0 + p - 1
        OBVIOUS
      <3>3. 0 + 1 = 1
        OBVIOUS
      <3>. QED
        BY ONLY <3>1, <3>2, <3>3, Zenon DEF After
    <2>. QED
      BY <1>1, <1>4, <2>1, <2>2
  <1>7. ASSUME NEW i \in 0..(n - 2)
        PROVE  /\ IF After(powers[i]) = 0 THEN table[i] = n - 1
                  ELSE table[i] < n - 1 /\ powers[table[i]] = After(powers[i])
               /\ table[i] \in 0..(n - 1)
    <2>1. powers[i] \in Element(k) /\ l[powers[i]] = i /\ i \in 0..(n - 1)
      BY <1>0, <1>1
    <2>2. table[i] = l[After(powers[i])]
      BY <1>4, <2>1
    <2>3. PICK b \in 0..(n - 1) : b = After(powers[i])
      BY <1>5, <2>1
    <2>4. CASE b = 0
      BY <1>1, <2>2, <2>3, <2>4
    <2>5. CASE b # 0
      <3>1. l[b] \in 0..(n - 2) /\ powers[l[b]] = b
        BY <1>1, <2>5
      <3>. QED
        BY <2>2, <2>3, <2>5, <3>1
    <2>. QED
      BY <2>4, <2>5
  <1>8. Element(k) \ {0} = 1..(n - 1)
    OBVIOUS
  <1>. QED
    BY <1>1, <1>6, <1>7, <1>8 DEF IsIncrementation

\* What TablesAreRight says of ReductionTable.
ReductionTableIsRight ==
    pc = "done" =>
        LET powers == [i \in 0..(pred - 1) |-> gen_powers[i + 1]]
            table == IncrementationTable(exponent, GenPowers(exponent, powers))
        IN  /\ Range(powers) = Element(exponent) \ {0}
            /\ table[pred] = 0
            /\ \A i \in 0..(pred - 1) :
                  IF Add[exponent, powers[i], 1] = 0 THEN table[i] = pred
                  ELSE table[i] < pred /\ powers[table[i]] = Add[exponent, powers[i], 1]

LEMMA ReductionTableRight == Inv => ReductionTableIsRight
  <1>. SUFFICES ASSUME Inv, pc = "done" PROVE ReductionTableIsRight
    BY DEF ReductionTableIsRight
  <1>1. exponent \in 1..MaxExponent
    BY DEF Inv, TypeInv
  <1>2. PICK n \in Nat \ {0, 1} : Order(exponent) = n /\ Element(exponent) = 0..(n - 1)
    BY <1>1, OrderIs
  <1>3. pred = n - 1 /\ pred - 1 = n - 2
    BY <1>2 DEF pred, PrimePowerPred
  <1>4. Distinct(exponent, gen_powers) /\ Len(gen_powers) = n - 1 /\ gen_powers[1] = 1
    <2>1. /\ Distinct(exponent, gen_powers) /\ Len(gen_powers) = n - 1
          /\ IF gen_powers = <<>> THEN gen_power = 1 ELSE gen_powers[1] = 1
      BY <1>3 DEF Inv, MetInv
    <2>2. gen_powers # <<>>
      BY <2>1
    <2>. QED
      BY <2>1, <2>2
  <1>5. /\ gen_powers \in [1..(n - 1) -> 1..(n - 1)]
        /\ \A i, j \in 1..(n - 1) : gen_powers[i] = gen_powers[j] => i = j
    <2>1. Element(exponent) \ {0} = 1..(n - 1)
      BY <1>2
    <2>. QED
      BY <1>4, <2>1 DEF Distinct
  <1>6. \A b \in 1..(n - 1) : \E i \in 1..(n - 1) : gen_powers[i] = b
    <2>1. Len(gen_powers) = Order(exponent) - 1 /\ Element(exponent) \ {0} = 1..(n - 1)
      BY <1>2, <1>4
    <2>2. \A b \in Element(exponent) \ {0} : \E i \in 1..Len(gen_powers) : gen_powers[i] = b
      BY ONLY <1>1, <1>4, <2>1, AllListed, Zenon
    <2>. QED
      BY ONLY <1>4, <2>1, <2>2, Zenon
  <1>. DEFINE powers == [i \in 0..(pred - 1) |-> gen_powers[i + 1]]
              table == IncrementationTable(exponent, GenPowers(exponent, powers))
  <1>7. Listing(n, powers)
    <2>1. powers = [i \in 0..(n - 2) |-> gen_powers[i + 1]]
      BY ONLY <1>3, Zenon
    <2>. HIDE DEF powers
    <2>2. powers \in [0..(n - 2) -> 1..(n - 1)] /\ powers[0] = 1
      BY <1>4, <1>5, <2>1
    <2>3. ASSUME NEW i \in 0..(n - 2), NEW j \in 0..(n - 2), powers[i] = powers[j]
          PROVE  i = j
      <3>1. i + 1 \in 1..(n - 1) /\ j + 1 \in 1..(n - 1)
        OBVIOUS
      <3>2. gen_powers[i + 1] = gen_powers[j + 1]
        BY <2>1, <2>3
      <3>3. i + 1 = j + 1
        BY <1>5, <3>1, <3>2
      <3>. QED
        BY <3>3
    <2>4. ASSUME NEW b \in 1..(n - 1)
          PROVE  \E i \in 0..(n - 2) : powers[i] = b
      <3>1. PICK j \in 1..(n - 1) : gen_powers[j] = b
        BY <1>6
      <3>2. j - 1 \in 0..(n - 2) /\ j - 1 + 1 = j
        OBVIOUS
      <3>3. powers[j - 1] = b
        BY <2>1, <3>1, <3>2
      <3>. QED
        BY <3>2, <3>3
    <2>. QED
      BY <2>2, <2>3, <2>4 DEF Listing
  <1>8. table = IncrementationTable(exponent, GenPowers(exponent, powers))
    OBVIOUS
  <1>9. powers = [i \in 0..(pred - 1) |-> gen_powers[i + 1]]
    OBVIOUS
  <1>. HIDE DEF powers, table
  <1>10. IsIncrementation(exponent, powers, table)
    BY <1>1, <1>2, <1>7, <1>8, IncrementationIs
  <1>11. /\ Range(powers) = Element(exponent) \ {0}
         /\ table[pred] = 0
         /\ \A i \in 0..(pred - 1) :
               IF After(powers[i]) = 0 THEN table[i] = pred
               ELSE table[i] < pred /\ powers[table[i]] = After(powers[i])
    <2>1. Order(exponent) - 1 = pred /\ Order(exponent) - 2 = pred - 1
      BY <1>2, <1>3
    <2>. QED
      BY ONLY <1>10, <2>1, Zenon DEF IsIncrementation
  <1>12. \A i \in 0..(pred - 1) : Add[exponent, powers[i], 1] = After(powers[i])
    <2>1. \A i \in 0..(pred - 1) : powers[i] \in Element(exponent)
      BY <1>2, <1>3, <1>7 DEF Listing
    <2>. QED
      BY ONLY <1>1, <2>1, AddOne, Zenon
  <1>13. \A i \in 0..(pred - 1) :
            IF Add[exponent, powers[i], 1] = 0 THEN table[i] = pred
            ELSE table[i] < pred /\ powers[table[i]] = Add[exponent, powers[i], 1]
    BY ONLY <1>11, <1>12, Zenon
  <1>. QED
    BY ONLY <1>8, <1>9, <1>11, <1>13, Zenon DEF ReductionTableIsRight

LEMMA InvIsRight == Inv => TablesAreRight
  <1>. SUFFICES ASSUME Inv PROVE TablesAreRight
    OBVIOUS
  <1>1. pc \in {"reduction", "done"} => IsFqTable(exponent, fq_elements, zero_drawn)
    BY DEF Inv, FqDoneInv
  <1>2. pred = PrimePowerPred(exponent)
    BY Zenon DEF pred
  <1>3. ReductionTableIsRight
    BY ReductionTableRight
  <1>. QED
    BY ONLY <1>1, <1>2, <1>3, Zenon DEF TablesAreRight, IsFqTable, ReductionTableIsRight

\* In every field that the assumptions of FiniteField describe, whichever elements
\* that generate the field and whichever random ones FLINT gives the two
\* constructors as candidates: FqElementTable ends with the powers of one element
\* in their order, among them every element other than zero once, and then zero;
\* but with nothing but 0 after the 1 when it was offered 0.  ReductionTable ends
\* with a generator's powers and with the logarithm of 1 + a for each a
\* (fq_element_table.cc, 28-100; reduction_table.cc, 107-167).
THEOREM TablesRight == Spec => []TablesAreRight
  <1>1. Init => Inv
    BY InitInv
  <1>2. Inv /\ [Next]_vars => Inv'
    BY StepInv
  <1>3. Inv => TablesAreRight
    BY InvIsRight
  <1>. QED
    BY <1>1, <1>2, <1>3, PTL DEF Spec

-----------------------------------------------------------------------------
(* Sums and products, and functions by recursion                           *)

\* Sums, so written that the provers take them for terms.
Plus2(k, a, b) == Add[k, a, b]

\* The laws of a ring, for sums and products so written.
LEMMA RingIs ==
    ASSUME NEW k \in 1..MaxExponent
    PROVE  /\ \A a, b \in Element(k) : Plus2(k, a, b) \in Element(k)
           /\ \A a, b \in Element(k) : Plus2(k, a, b) = Plus2(k, b, a)
           /\ \A a, b \in Element(k) : Times(k, a, b) = Times(k, b, a)
           /\ \A a \in Element(k) : Plus2(k, 0, a) = a /\ Times(k, 0, a) = 0
           /\ \A a, b, c \in Element(k) : Plus2(k, Plus2(k, a, b), c) = Plus2(k, a, Plus2(k, b, c))
           /\ \A a, b, c \in Element(k) : Times(k, Times(k, a, b), c) = Times(k, a, Times(k, b, c))
           /\ \A a, b, c \in Element(k) :
                 Times(k, a, Plus2(k, b, c)) = Plus2(k, Times(k, a, b), Times(k, a, c))
  <1>1. \A a, b \in Element(k) : Plus2(k, a, b) \in Element(k) /\ Plus2(k, a, b) = Plus2(k, b, a)
    BY RingLaws, Zenon DEF Plus2
  <1>2. \A a, b \in Element(k) : Times(k, a, b) = Times(k, b, a)
    BY RingLaws, Zenon DEF Times
  <1>3. \A a \in Element(k) : Plus2(k, 0, a) = a /\ Times(k, 0, a) = 0
    BY RingLaws, Zenon DEF Times, Plus2
  <1>4. \A a, b, c \in Element(k) : Plus2(k, Plus2(k, a, b), c) = Plus2(k, a, Plus2(k, b, c))
    BY RingLaws, Zenon DEF Plus2
  <1>5. \A a, b, c \in Element(k) : Times(k, Times(k, a, b), c) = Times(k, a, Times(k, b, c))
    BY RingLaws, Zenon DEF Times
  <1>6. ASSUME NEW a \in Element(k), NEW b \in Element(k), NEW c \in Element(k)
        PROVE  Times(k, a, Plus2(k, b, c)) = Plus2(k, Times(k, a, b), Times(k, a, c))
    <2>1. Mul[k, a, Add[k, b, c]] = Add[k, Mul[k, a, b], Mul[k, a, c]]
      BY RingLaws, Zenon
    <2>. QED
      BY <2>1, Zenon DEF Times, Plus2
  <1>. QED
    BY <1>1, <1>2, <1>3, <1>4, <1>5, <1>6

\* Zero and one on the other side, and the other distributive law.
LEMMA RightSides ==
    ASSUME NEW k \in 1..MaxExponent
    PROVE  /\ \A a \in Element(k) : Plus2(k, a, 0) = a /\ Times(k, a, 0) = 0 /\ Times(k, a, 1) = a
           /\ \A a, b, c \in Element(k) :
                 Times(k, Plus2(k, a, b), c) = Plus2(k, Times(k, a, c), Times(k, b, c))
  <1>1. /\ \A a, b \in Element(k) : Plus2(k, a, b) \in Element(k)
        /\ \A a, b \in Element(k) : Plus2(k, a, b) = Plus2(k, b, a)
        /\ \A a, b \in Element(k) : Times(k, a, b) = Times(k, b, a)
        /\ \A a \in Element(k) : Plus2(k, 0, a) = a /\ Times(k, 0, a) = 0
    BY RingIs
  <1>2. /\ \A a, b, c \in Element(k) :
                 Times(k, a, Plus2(k, b, c)) = Plus2(k, Times(k, a, b), Times(k, a, c))
    BY RingIs
  <1>3. 0 \in Element(k) /\ 1 \in Element(k)
    BY One
  <1>4. \A a \in Element(k) : Times(k, 1, a) = a
    BY TimesIs
  <1>5. \A a \in Element(k) : Plus2(k, a, 0) = a /\ Times(k, a, 0) = 0 /\ Times(k, a, 1) = a
    BY <1>1, <1>3, <1>4
  <1>6. ASSUME NEW a \in Element(k), NEW b \in Element(k), NEW c \in Element(k)
        PROVE  Times(k, Plus2(k, a, b), c) = Plus2(k, Times(k, a, c), Times(k, b, c))
    <2>1. Times(k, Plus2(k, a, b), c) = Times(k, c, Plus2(k, a, b))
      BY <1>1
    <2>2. Times(k, c, Plus2(k, a, b)) = Plus2(k, Times(k, c, a), Times(k, c, b))
      BY <1>2
    <2>. QED
      BY <1>1, <2>1, <2>2
  <1>. QED
    BY <1>5, <1>6

\* h is defined by recursion from 0 to N, with the value a at 0 and the steps G.
Recurs(h, N, V, a, G) ==
    /\ h \in [0..N -> V] /\ h[0] = a
    /\ \A n \in 1..N : h[n] = G[n][h[n - 1]]

\* A function that is defined by recursion exists.
LEMMA FromZero ==
    ASSUME NEW N \in Nat, NEW V, NEW a \in V, NEW G \in [1..N -> [V -> V]]
    PROVE  \E h : Recurs(h, N, V, a, G)
  <1>. DEFINE Solves(h, n) == /\ h \in [0..n -> V] /\ h[0] = a
                              /\ \A i \in 1..n : h[i] = G[i][h[i - 1]]
              T == {n \in 0..N : \E h : Solves(h, n)}
  <1>1. 0 \in T
    <2>. DEFINE h == [i \in 0..0 |-> a]
    <2>1. Solves(h, 0)
      OBVIOUS
    <2>2. 0 \in 0..N
      OBVIOUS
    <2>. HIDE DEF Solves, h
    <2>. QED
      BY <2>1, <2>2
  <1>2. ASSUME NEW n \in 1..N, n - 1 \in T
        PROVE  n \in T
    <2>1. PICK g : Solves(g, n - 1)
      BY <1>2
    <2>. DEFINE v == G[n][g[n - 1]]
                h == [i \in 0..n |-> IF i = n THEN v ELSE g[i]]
    <2>2. v \in V
      <3>1. n - 1 \in 0..(n - 1)
        OBVIOUS
      <3>. QED
        BY <2>1, <3>1
    <2>3. \A i \in 0..n : i # n => i \in 0..(n - 1)
      OBVIOUS
    <2>. HIDE DEF v
    <2>4. h \in [0..n -> V] /\ h[0] = a
      BY <2>1, <2>2, <2>3
    <2>5. ASSUME NEW i \in 1..n
          PROVE  h[i] = G[i][h[i - 1]]
      <3>1. CASE i = n
        <4>1. h[i] = v /\ h[n - 1] = g[n - 1]
          BY <3>1
        <4>. HIDE DEF h
        <4>. QED
          BY <4>1, <3>1, Zenon DEF v
      <3>2. CASE i # n
        <4>1. i \in 1..(n - 1) /\ h[i] = g[i] /\ h[i - 1] = g[i - 1]
          BY <2>3, <3>2
        <4>2. g[i] = G[i][g[i - 1]]
          BY <2>1, <4>1
        <4>. HIDE DEF h
        <4>. QED
          BY <4>1, <4>2, Zenon
      <3>. QED
        BY <3>1, <3>2
    <2>. HIDE DEF h
    <2>6. Solves(h, n)
      BY <2>4, <2>5
    <2>. HIDE DEF Solves
    <2>. QED
      BY <2>6
  <1>. HIDE DEF T
  <1>3. \A n \in 0..N : n \in T
    BY <1>1, <1>2, UpTo
  <1>4. N \in T
    BY <1>3
  <1>. QED
    BY <1>4 DEF T, Recurs

\* p lists the powers of g.
ArePowers(k, g, n, p) ==
    /\ p \in [0..n -> Element(k)] /\ p[0] = 1
    /\ \A i \in 1..n : p[i] = Times(k, p[i - 1], g)

\* That is what Powers does.
LEMMA PowersAre ==
    ASSUME NEW k \in 1..MaxExponent, NEW g \in Element(k), NEW n \in Nat
    PROVE  ArePowers(k, g, n, Powers(k, g, n))
  <1>. DEFINE V == Element(k)
              F(h) == [i \in 0..n |-> IF i = 0 THEN 1 ELSE Times(k, h[i - 1], g)]
              G == [i \in 1..n |-> [v \in V |-> Times(k, v, g)]]
              power == CHOOSE h : h = F(h)
  <1>1. 1 \in V /\ \A v \in V : Times(k, v, g) \in V
    <2>1. 1 \in Element(k) /\ \A a, b \in Element(k) : Times(k, a, b) \in Element(k)
      BY One, TimesIs
    <2>. QED
      BY <2>1
  <1>2. G \in [1..n -> [V -> V]]
    BY <1>1
  <1>3. PICK h : Recurs(h, n, V, 1, G)
    <2>. HIDE DEF G, V
    <2>. QED
      BY <1>1, <1>2, FromZero
  <1>4. h \in [0..n -> V] /\ h[0] = 1
    BY <1>3 DEF Recurs
  <1>5. ASSUME NEW i \in 1..n
        PROVE  h[i] = Times(k, h[i - 1], g)
    <2>1. h[i] = G[i][h[i - 1]] /\ h[i - 1] \in V
      BY <1>3 DEF Recurs
    <2>. HIDE DEF V
    <2>. QED
      BY <2>1
  <1>6. h = F(h)
    <2>1. \A i \in 0..n : i # 0 => i \in 1..n
      OBVIOUS
    <2>2. \A i \in 0..n : h[i] = IF i = 0 THEN 1 ELSE Times(k, h[i - 1], g)
      BY <1>4, <1>5, <2>1
    <2>3. h = [i \in 0..n |-> h[i]]
      BY <1>4
    <2>. QED
      BY <2>2, <2>3, Zenon
  <1>7. power = F(power)
    BY <1>6, Zenon
  <1>. HIDE DEF power
  <1>. DEFINE T == {i \in 0..n : power[i] = h[i]}
  <1>8. 0 \in T
    BY <1>4, <1>7
  <1>9. ASSUME NEW i \in 1..n, i - 1 \in T
        PROVE  i \in T
    <2>1. power[i] = Times(k, power[i - 1], g)
      BY <1>7
    <2>. QED
      BY <1>5, <1>9, <2>1
  <1>. HIDE DEF T
  <1>10. \A i \in 0..n : i \in T
    BY <1>8, <1>9, UpTo
  <1>11. power = h
    BY <1>4, <1>7, <1>10 DEF T
  <1>12. Powers(k, g, n) = h
    <2>1. Powers(k, g, n) = [i \in 0..n |-> power[i]]
      BY Zenon DEF Powers, power, Times
    <2>2. h = [i \in 0..n |-> h[i]]
      BY <1>4
    <2>. QED
      BY <1>11, <2>1, <2>2
  <1>. QED
    BY <1>4, <1>5, <1>12 DEF ArePowers
-----------------------------------------------------------------------------
(* The elements of a field by their logarithms                             *)

\* The characteristic is odd, and so is the number of elements of a field.
LEMMA OrderIsOdd ==
    ASSUME NEW k \in 1..MaxExponent
    PROVE  \E h \in Nat \ {0} : Order(k) = 2 * h + 1
  <1>1. PICK p \in Nat, q \in Nat : p = Prime /\ p = 2 * q + 1
    <2>1. PICK n \in Nat : n = Prime /\ n % 2 = 1
      BY FieldAssumption
    <2>2. n \div 2 \in Nat /\ n = 2 * (n \div 2) + 1
      BY <2>1
    <2>. QED
      BY <2>1, <2>2
  <1>. DEFINE T == {i \in 0..k : \E m \in Nat : Prime^i = 2 * m + 1}
  <1>2. 0 \in T
    <2>1. Prime^0 = 2 * 0 + 1 /\ 0 \in 0..k
      BY PowersOfPrime
    <2>. QED
      BY <2>1
  <1>3. ASSUME NEW i \in 1..k, i - 1 \in T
        PROVE  i \in T
    <2>1. PICK m \in Nat : Prime^(i - 1) = 2 * m + 1
      BY <1>3
    <2>2. i - 1 \in 0..MaxExponent /\ (i - 1) + 1 = i
      BY FieldAssumption
    <2>3. Prime^i = Prime * Prime^(i - 1)
      BY <2>2, PowersOfPrime
    <2>4. Prime^i = p * (2 * m + 1)
      BY <1>1, <2>1, <2>3
    <2>5. \E l \in Nat : p * (2 * m + 1) = 2 * l + 1
      <3>1. PICK l \in Nat : l = p * m + q
        OBVIOUS
      <3>2. p * (2 * m + 1) = 2 * (p * m) + p
        OBVIOUS
      <3>3. p * m \in Nat
        OBVIOUS
      <3>4. p * (2 * m + 1) = 2 * l + 1
        BY <1>1, <3>1, <3>2, <3>3
      <3>. QED
        BY <3>4
    <2>. QED
      BY <2>4, <2>5
  <1>4. k \in Nat
    BY FieldAssumption
  <1>. HIDE DEF T
  <1>5. k \in T
    <2>1. \A i \in 0..k : i \in T
      BY <1>2, <1>3, <1>4, UpTo
    <2>. QED
      BY <1>4, <2>1
  <1>6. PICK m \in Nat : Order(k) = 2 * m + 1
    BY <1>5 DEF T, Order
  <1>7. PICK n \in Nat \ {0, 1} : Order(k) = n
    BY OrderIs
  <1>8. m # 0
    BY <1>6, <1>7
  <1>. QED
    BY <1>6, <1>8

\* The sum of two logarithms, reduced: that takes one period away, or none.
Wrap(n, s) == IF s < n THEN s ELSE s - n

\* The remainder of such a sum.
LEMMA WrapIs ==
    ASSUME NEW n \in Nat \ {0}, NEW s \in 0..(2 * n - 1)
    PROVE  s % n = Wrap(n, s) /\ Wrap(n, s) \in 0..(n - 1)
  <1>1. CASE s < n
    <2>1. s = n * 0 + s /\ s \in 0..(n - 1)
      BY <1>1
    <2>2. s % n = s
      BY <2>1, RemainderIs
    <2>. QED
      BY <1>1, <2>1, <2>2 DEF Wrap
  <1>2. CASE ~(s < n)
    <2>1. PICK r \in 0..(n - 1) : r = s - n
      BY <1>2
    <2>2. s = n * 1 + r /\ 1 \in Nat /\ s \in Nat
      BY <2>1
    <2>3. s % n = r
      BY <2>2, RemainderIs
    <2>. QED
      BY <1>2, <2>1, <2>3 DEF Wrap
  <1>. QED
    BY <1>1, <1>2

\* The element with a logarithm.
Log(k, i) == FqTable[k][i]

\* The table of a field with n + 1 elements lists the powers of the generator, which
\* are all elements but zero, and zero last; h is half the order of the group.
Lists(k, n, h) ==
    /\ n \in Nat /\ h \in Nat \ {0} /\ n = 2 * h
    /\ PrimePowerPred(k) = n /\ ZeroIndex(k) = n /\ Order(k) = n + 1
    /\ Element(k) = 0..n /\ Element(k) \ {0} = 1..n
    /\ \A i \in 0..n : Log(k, i) \in 0..n
    /\ Log(k, n) = 0 /\ Log(k, 0) = 1
    /\ \A i \in 0..(n - 1) : Log(k, i) # 0 /\ Log(k, i) = PowersOfGenerator[k][i]
    /\ \A i, j \in 0..n : Log(k, i) = Log(k, j) => i = j
    /\ \A a \in 0..n : \E i \in 0..n : Log(k, i) = a

\* The tables of all fields do.
LEMMA TableIs ==
    ASSUME NEW k \in 1..MaxExponent
    PROVE  \E n, h : Lists(k, n, h)
  <1>1. PICK h \in Nat \ {0} : Order(k) = 2 * h + 1
    BY OrderIsOdd
  <1>2. PICK n \in Nat : n = 2 * h
    OBVIOUS
  <1>3. n >= 2 /\ Order(k) = n + 1 /\ Order(k) - 1 = n /\ Order(k) - 2 = n - 1
    BY <1>1, <1>2
  <1>4. Element(k) = 0..n /\ PrimePowerPred(k) = n /\ ZeroIndex(k) = n /\ Element(k) \ {0} = 1..n
    <2>1. Element(k) = 0..n /\ PrimePowerPred(k) = n
      BY <1>3 DEF Element, PrimePowerPred
    <2>2. (0..n) \ {0} = 1..n
      OBVIOUS
    <2>. QED
      BY <2>1, <2>2 DEF ZeroIndex
  <1>. DEFINE g == Generator(k)
              p == Powers(k, g, n - 1)
  <1>5. g \in Element(k) \ {0}
    BY GeneratorLaws, Zenon
  <1>6. PowersOfGenerator[k] = p
    BY <1>3, Zenon DEF PowersOfGenerator
  <1>7. ArePowers(k, g, n - 1, p)
    <2>1. n - 1 \in Nat
      BY <1>3
    <2>. HIDE DEF g
    <2>. QED
      BY <2>1, <1>5, PowersAre
  <1>8. \A i, j \in 0..(n - 1) : p[i] = p[j] => i = j
    <2>1. \A i, j \in 0..(Order(k) - 2) : PowersOfGenerator[k][i] = PowersOfGenerator[k][j] => i = j
      BY GeneratorLaws, Zenon
    <2>. HIDE DEF p
    <2>. QED
      BY <1>3, <1>6, <2>1
  <1>9. FqTable[k] = [ix \in 0..n |-> IF ix = n THEN 0 ELSE p[ix]]
    <2>1. FqTable[k] = FqElements(k, g)
      BY Zenon DEF FqTable
    <2>2. FqElements(k, g) = [ix \in 0..PrimePowerPred(k) |-> IF ix = ZeroIndex(k) THEN 0 ELSE Powers(k, g, PrimePowerPred(k) - 1)[ix]]
      BY Zenon DEF FqElements
    <2>. HIDE DEF g
    <2>. QED
      BY <1>4, <2>1, <2>2, Zenon
  <1>. HIDE DEF p, g
  <1>10. \A i \in 0..(n - 1) : p[i] \in Element(k) \ {0}
    <2>. DEFINE T == {i \in 0..(n - 1) : p[i] \in Element(k) \ {0}}
    <2>1. 0 \in T
      BY <1>3, <1>7, One DEF ArePowers
    <2>2. ASSUME NEW i \in 1..(n - 1), i - 1 \in T
          PROVE  i \in T
      <3>1. p[i] = Times(k, p[i - 1], g)
        BY <1>7 DEF ArePowers
      <3>2. p[i - 1] \in Element(k) \ {0}
        BY <2>2
      <3>3. p[i] \in Element(k) \ {0}
        BY <1>5, <3>1, <3>2, TimesIs
      <3>. QED
        BY <3>3
    <2>3. n - 1 \in Nat
      BY <1>3
    <2>. HIDE DEF T
    <2>4. \A i \in 0..(n - 1) : i \in T
      BY <2>1, <2>2, <2>3, UpTo
    <2>. QED
      BY <2>4 DEF T
  <1>11. /\ \A i \in 0..(n - 1) : Log(k, i) = p[i]
         /\ Log(k, n) = 0
    BY <1>9 DEF Log
  <1>12. \A i \in 0..n : i # n => i \in 0..(n - 1)
    OBVIOUS
  <1>13. \A i \in 0..n : Log(k, i) \in 0..n
    BY <1>4, <1>10, <1>11, <1>12
  <1>14. Log(k, 0) = 1
    BY <1>3, <1>7, <1>11 DEF ArePowers
  <1>15. \A i, j \in 0..n : Log(k, i) = Log(k, j) => i = j
    BY <1>8, <1>10, <1>11, <1>12
  <1>16. ASSUME NEW a \in 0..n
         PROVE  \E i \in 0..n : Log(k, i) = a
    <2>1. CASE a = 0
      BY <2>1, <1>11
    <2>2. CASE a # 0
      <3>. DEFINE s == [i \in 1..n |-> p[i - 1]]
      <3>1. \A i \in 1..n : i - 1 \in 0..(n - 1)
        OBVIOUS
      <3>2. s \in [1..n -> Element(k) \ {0}]
        BY <1>10, <3>1
      <3>3. s \in Seq(Element(k) \ {0}) /\ Len(s) = n
        BY <3>2
      <3>4. ASSUME NEW i \in 1..n, NEW j \in 1..n, s[i] = s[j]
            PROVE  i = j
        <4>1. p[i - 1] = p[j - 1]
          BY <3>4
        <4>2. i - 1 = j - 1
          BY <1>8, <3>1, <4>1
        <4>. QED
          BY <4>2
      <3>5. Distinct(k, s)
        BY <3>3, <3>4 DEF Distinct
      <3>6. \A i \in 1..n : s[i] = p[i - 1]
        OBVIOUS
      <3>. HIDE DEF s
      <3>7. \A b \in Element(k) \ {0} : \E i \in 1..Len(s) : s[i] = b
        BY <1>3, <3>3, <3>5, AllListed
      <3>8. PICK i \in 1..n : s[i] = a
        BY <1>4, <2>2, <3>3, <3>7
      <3>9. i - 1 \in 0..n /\ Log(k, i - 1) = a
        BY <1>11, <3>1, <3>6, <3>8
      <3>. QED
        BY <3>9
    <2>. QED
      BY <2>1, <2>2
  <1>17. \A i \in 0..(n - 1) : Log(k, i) # 0 /\ Log(k, i) = PowersOfGenerator[k][i]
    BY <1>6, <1>10, <1>11
  <1>18. Lists(k, n, h)
    BY <1>2, <1>3, <1>4, <1>11, <1>13, <1>14, <1>15, <1>16, <1>17 DEF Lists
  <1>. QED
    BY <1>18

\* What is needed of that, in one place.
LEMMA ListsIs ==
    ASSUME NEW k, NEW n, NEW h, Lists(k, n, h)
    PROVE  /\ n \in Nat /\ n >= 2 /\ n \in Nat \ {0} /\ h \in Nat \ {0} /\ n = 2 * h
           /\ PrimePowerPred(k) = n /\ ZeroIndex(k) = n /\ Order(k) = n + 1
           /\ Element(k) = 0..n /\ Element(k) \ {0} = 1..n
           /\ \A l \in 0..n : Log(k, l) \in 0..n
           /\ Log(k, n) = 0 /\ Log(k, 0) = 1
           /\ \A l \in 0..(n - 1) : Log(k, l) # 0 /\ Log(k, l) = PowersOfGenerator[k][l]
           /\ \A l, m \in 0..n : Log(k, l) = Log(k, m) => l = m
           /\ \A a \in 0..n : \E l \in 0..n : Log(k, l) = a
  <1>1. n \in Nat /\ h \in Nat \ {0} /\ n = 2 * h
    BY DEF Lists
  <1>2. n >= 2 /\ n \in Nat \ {0}
    BY <1>1
  <1>. QED
    BY <1>1, <1>2, Zenon DEF Lists

\* Times the generator: the next logarithm.
LEMMA NextLog ==
    ASSUME NEW k \in 1..MaxExponent, NEW n, NEW h, Lists(k, n, h), NEW i \in 0..(n - 1)
    PROVE  Times(k, Log(k, i), Log(k, 1)) = Log(k, Wrap(n, i + 1))
  <1>0. /\ n \in Nat /\ n >= 2 /\ Order(k) = n + 1
        /\ Element(k) = 0..n /\ Element(k) \ {0} = 1..n
        /\ \A l \in 0..n : Log(k, l) \in 0..n
        /\ Log(k, n) = 0 /\ Log(k, 0) = 1
        /\ \A l \in 0..(n - 1) : Log(k, l) # 0 /\ Log(k, l) = PowersOfGenerator[k][l]
        /\ \A l, m \in 0..n : Log(k, l) = Log(k, m) => l = m
        /\ \A a \in 0..n : \E l \in 0..n : Log(k, l) = a
    BY ListsIs
  <1>. DEFINE g == Generator(k)
              p == Powers(k, g, n - 1)
  <1>1. g \in Element(k) \ {0}
    BY GeneratorLaws, Zenon
  <1>2. PowersOfGenerator[k] = p
    <2>1. Order(k) - 2 = n - 1
      BY <1>0
    <2>. QED
      BY <2>1, Zenon DEF PowersOfGenerator
  <1>3. ArePowers(k, g, n - 1, p)
    <2>1. n - 1 \in Nat
      BY <1>0
    <2>. HIDE DEF g
    <2>. QED
      BY <2>1, <1>1, PowersAre
  <1>. HIDE DEF p, g
  <1>4. /\ p[0] = 1 /\ \A l \in 1..(n - 1) : p[l] = Times(k, p[l - 1], g)
        /\ \A l \in 0..(n - 1) : Log(k, l) = p[l]
    BY <1>0, <1>2, <1>3 DEF ArePowers
  <1>5. /\ \A a, b \in Element(k) : Times(k, a, b) \in Element(k)
        /\ \A a \in Element(k) : Times(k, 1, a) = a
        /\ \A a, b, c \in Element(k) \ {0} :
              Times(k, a, c) # 0 /\ (Times(k, a, c) = Times(k, b, c) => a = b)
    BY TimesIs
  <1>6. Log(k, 1) = g
    <2>1. 1 \in 1..(n - 1) /\ 1 \in 0..(n - 1) /\ 1 - 1 = 0
      BY <1>0
    <2>2. p[1] = Times(k, 1, g)
      BY <1>4, <2>1
    <2>. QED
      BY <1>1, <1>4, <1>5, <2>1, <2>2
  <1>7. \A l \in 0..(n - 2) : Times(k, Log(k, l), g) = Log(k, l + 1)
    <2>. SUFFICES ASSUME NEW l \in 0..(n - 2)
                  PROVE  Times(k, Log(k, l), g) = Log(k, l + 1)
      OBVIOUS
    <2>1. l \in 0..(n - 1) /\ l + 1 \in 1..(n - 1) /\ l + 1 \in 0..(n - 1) /\ (l + 1) - 1 = l
      BY <1>0
    <2>2. p[l + 1] = Times(k, p[(l + 1) - 1], g)
      BY <1>4, <2>1
    <2>. QED
      BY <1>4, <2>1, <2>2
  <1>8. CASE i < n - 1
    <2>1. i \in 0..(n - 2) /\ Wrap(n, i + 1) = i + 1
      BY <1>0, <1>8 DEF Wrap
    <2>. QED
      BY <1>6, <1>7, <2>1
  <1>9. CASE ~(i < n - 1)
    <2>1. i = n - 1 /\ Wrap(n, i + 1) = 0
      BY <1>0, <1>9 DEF Wrap
    <2>2. Log(k, i) \in Element(k) \ {0}
      BY <1>0
    <2>3. Times(k, Log(k, i), g) \in Element(k) \ {0}
      BY <1>1, <1>5, <2>2
    <2>4. PICK j \in 0..n : Log(k, j) = Times(k, Log(k, i), g)
      BY <1>0, <2>3
    <2>5. j # n
      BY <1>0, <2>3, <2>4
    <2>6. j = 0
      <3>. SUFFICES ASSUME j # 0
                    PROVE  FALSE
        OBVIOUS
      <3>1. j - 1 \in 0..(n - 2) /\ j - 1 \in 0..(n - 1) /\ (j - 1) + 1 = j
        <4>1. n \in Nat /\ n >= 2
          BY <1>0
        <4>. QED
          BY ONLY <4>1, <2>5, j \in 0..n, j # 0
      <3>2. Times(k, Log(k, j - 1), g) = Log(k, j)
        BY <1>7, <3>1
      <3>3. Log(k, j - 1) \in Element(k) \ {0}
        BY <1>0, <3>1
      <3>4. Log(k, j - 1) = Log(k, i)
        <4>1. Times(k, Log(k, j - 1), g) = Times(k, Log(k, i), g)
          BY <2>4, <3>2
        <4>. QED
          BY <1>1, <1>5, <2>2, <3>3, <4>1, Zenon
      <3>5. j - 1 = i
        BY <1>0, <3>1, <3>4
      <3>. QED
        BY <1>0, <2>1, <2>5, <3>5
    <2>. QED
      BY <1>6, <2>1, <2>4, <2>6
  <1>. QED
    BY <1>8, <1>9

\* The logarithm of a product is the sum of the logarithms, reduced.
LEMMA LogProduct ==
    ASSUME NEW k \in 1..MaxExponent, NEW n, NEW h, Lists(k, n, h),
           NEW i \in 0..(n - 1), NEW j \in 0..(n - 1)
    PROVE  /\ Times(k, Log(k, i), Log(k, j)) = Log(k, Wrap(n, i + j))
           /\ Wrap(n, i + j) \in 0..(n - 1) /\ (i + j) % n = Wrap(n, i + j)
  <1>0. /\ n \in Nat /\ n >= 2 /\ n \in Nat \ {0}
        /\ Element(k) = 0..n
        /\ \A l \in 0..n : Log(k, l) \in 0..n
        /\ Log(k, 0) = 1
    BY ListsIs
  <1>. DEFINE T == {m \in 0..(n - 1) : Times(k, Log(k, i), Log(k, m)) = Log(k, Wrap(n, i + m))}
  <1>1. 0 \in T
    <2>1. Times(k, Log(k, i), 1) = Log(k, i)
      BY <1>0, RightSides
    <2>2. Wrap(n, i + 0) = i
      BY <1>0 DEF Wrap
    <2>. QED
      BY <1>0, <2>1, <2>2
  <1>2. ASSUME NEW m \in 1..(n - 1), m - 1 \in T
        PROVE  m \in T
    <2>1. m - 1 \in 0..(n - 1) /\ Wrap(n, (m - 1) + 1) = m
      BY <1>0 DEF Wrap
    <2>2. Log(k, m) = Times(k, Log(k, m - 1), Log(k, 1))
      BY <2>1, NextLog
    <2>3. Times(k, Log(k, i), Log(k, m - 1)) = Log(k, Wrap(n, i + (m - 1)))
      BY <1>2
    <2>4. \A a, b, c \in Element(k) : Times(k, Times(k, a, b), c) = Times(k, a, Times(k, b, c))
      BY RingIs
    <2>5. Log(k, i) \in Element(k) /\ Log(k, m - 1) \in Element(k) /\ Log(k, 1) \in Element(k)
      <3>1. n \in Nat /\ n >= 2
        BY <1>0
      <3>2. i \in 0..n /\ m - 1 \in 0..n /\ 1 \in 0..n
        BY ONLY <3>1, i \in 0..(n - 1), m \in 1..(n - 1)
      <3>. QED
        BY <1>0, <3>2, Zenon
    <2>6. Times(k, Log(k, i), Log(k, m)) = Times(k, Log(k, Wrap(n, i + (m - 1))), Log(k, 1))
      BY <2>2, <2>3, <2>4, <2>5
    <2>7. PICK w \in 0..(n - 1) : w = Wrap(n, i + (m - 1))
      <3>1. PICK s \in 0..(2 * n - 1) : s = i + (m - 1)
        BY <1>0
      <3>2. Wrap(n, s) \in 0..(n - 1)
        BY <1>0, <3>1, WrapIs
      <3>. QED
        BY <3>1, <3>2
    <2>8. Times(k, Log(k, w), Log(k, 1)) = Log(k, Wrap(n, w + 1))
      BY NextLog
    <2>9. Wrap(n, w + 1) = Wrap(n, i + m)
      BY <1>0, <2>7 DEF Wrap
    <2>. QED
      BY <2>6, <2>7, <2>8, <2>9
  <1>3. n - 1 \in Nat
    BY <1>0
  <1>. HIDE DEF T
  <1>4. \A m \in 0..(n - 1) : m \in T
    BY <1>1, <1>2, <1>3, UpTo
  <1>5. i + j \in 0..(2 * n - 1) /\ n \in Nat \ {0}
    BY <1>0
  <1>6. PICK s \in 0..(2 * n - 1) : s = i + j
    BY <1>5
  <1>7. s % n = Wrap(n, s) /\ Wrap(n, s) \in 0..(n - 1)
    BY <1>5, WrapIs
  <1>. QED
    BY <1>4, <1>6, <1>7 DEF T

\* ReductionTable: sums of two logarithms are reduced, and the incrementation table
\* has the logarithm of 1 + a (reduction_table.cc, 107-167).
LEMMA ReductionsAre ==
    ASSUME NEW k \in 1..MaxExponent, NEW n, NEW h, Lists(k, n, h)
    PROVE  /\ \A s \in 0..(2 * n - 1) :
                ReductionTable[k].exponent_reduction[s] = Wrap(n, s) /\ Wrap(n, s) \in 0..(n - 1)
           /\ \A d \in 0..(n - 1) :
                /\ ReductionTable[k].incrementation[d] \in 0..n
                /\ Log(k, ReductionTable[k].incrementation[d]) = Plus2(k, Log(k, d), 1)
  <1>0. /\ n \in Nat /\ n >= 2 /\ n \in Nat \ {0} /\ PrimePowerPred(k) = n /\ Order(k) = n + 1
        /\ Element(k) = 0..n
        /\ \A l \in 0..n : Log(k, l) \in 0..n
        /\ Log(k, n) = 0 /\ Log(k, 0) = 1
        /\ \A l \in 0..(n - 1) : Log(k, l) # 0 /\ Log(k, l) = PowersOfGenerator[k][l]
        /\ \A l, m \in 0..n : Log(k, l) = Log(k, m) => l = m
        /\ \A a \in 0..n : \E l \in 0..n : Log(k, l) = a
    BY ListsIs
  <1>. DEFINE powers == PowersOfGenerator[k]
              table == IncrementationTable(k, GenPowers(k, powers))
              red == ExponentReductionTable(k)
  <1>1. ReductionTable[k].exponent_reduction = red /\ ReductionTable[k].incrementation = table
    BY Zenon DEF ReductionTable
  <1>2. \A s \in 0..(2 * n - 1) : red[s] = s % n
    BY <1>0 DEF ExponentReductionTable
  <1>3. \A s \in 0..(2 * n - 1) : s % n = Wrap(n, s) /\ Wrap(n, s) \in 0..(n - 1)
    BY <1>0, WrapIs
  <1>4. PICK q \in Nat \ {0, 1} : q = n + 1 /\ Order(k) = q /\ q - 1 = n /\ q - 2 = n - 1
    BY <1>0
  <1>5. Listing(q, powers)
    <2>1. DOMAIN powers = 0..(n - 1)
      <3>1. ArePowers(k, Generator(k), n - 1, Powers(k, Generator(k), n - 1))
        <4>1. n - 1 \in Nat /\ Generator(k) \in Element(k)
          <5>1. Generator(k) \in Element(k)
            BY GeneratorLaws, Zenon
          <5>. QED
            BY <1>0, <5>1
        <4>. QED
          BY <4>1, PowersAre
      <3>2. powers = Powers(k, Generator(k), n - 1)
        BY <1>4, Zenon DEF PowersOfGenerator
      <3>. QED
        BY <3>1, <3>2 DEF ArePowers
    <2>2. \A l \in 0..(n - 1) : powers[l] = Log(k, l) /\ powers[l] \in 1..n
      <3>. SUFFICES ASSUME NEW l \in 0..(n - 1)
                    PROVE  powers[l] = Log(k, l) /\ powers[l] \in 1..n
        OBVIOUS
      <3>1. l \in 0..n
        BY <1>0
      <3>2. Log(k, l) \in 0..n /\ Log(k, l) # 0 /\ Log(k, l) = powers[l]
        BY <1>0, <3>1
      <3>. QED
        BY <3>2
    <2>3. powers = [l \in 0..(n - 1) |-> powers[l]]
      <3>1. powers = Powers(k, Generator(k), n - 1)
        BY <1>4, Zenon DEF PowersOfGenerator
      <3>. QED
        BY <2>1, <3>1, Zenon DEF Powers
    <2>. HIDE DEF powers
    <2>4. powers \in [0..(n - 1) -> 1..n]
      BY <2>2, <2>3
    <2>8. 0 \in 0..(n - 1) /\ \A l \in 0..(n - 1) : l \in 0..n
      BY <1>0
    <2>5. powers[0] = 1
      BY <1>0, <2>2, <2>8, Zenon
    <2>6. ASSUME NEW i \in 0..(n - 1), NEW j \in 0..(n - 1), powers[i] = powers[j]
          PROVE  i = j
      <3>1. Log(k, i) = Log(k, j)
        BY <2>2, <2>6, Zenon
      <3>. QED
        BY <1>0, <2>8, <3>1, Zenon
    <2>7. \A b \in 1..n : \E i \in 0..(n - 1) : powers[i] = b
      <3>. SUFFICES ASSUME NEW b \in 1..n PROVE \E i \in 0..(n - 1) : powers[i] = b
        OBVIOUS
      <3>1. PICK l \in 0..n : Log(k, l) = b
        <4>1. n \in Nat
          BY <1>0
        <4>2. b \in 0..n
          BY ONLY <4>1, b \in 1..n
        <4>. QED
          BY <1>0, <4>2, Zenon
      <3>2. l # n
        BY <1>0, <3>1
      <3>3. l \in 0..(n - 1)
        BY <1>0, <3>2
      <3>. QED
        BY <2>2, <3>1, <3>3, Zenon
    <2>9. q - 1 = n /\ q - 2 = n - 1
      BY <1>4
    <2>. QED
      BY <2>4, <2>5, <2>6, <2>7, <2>9, Zenon DEF Listing
  <1>. HIDE DEF red
  <1>6. Range(powers) = Element(k) \ {0} /\ IsIncrementation(k, powers, table)
    <2>1. Element(k) = 0..(q - 1)
      BY <1>0, <1>4
    <2>2. PICK t : t = table
      OBVIOUS
    <2>3. PICK f : f = powers
      OBVIOUS
    <2>. HIDE DEF table, powers
    <2>4. t = IncrementationTable(k, GenPowers(k, f))
      BY <2>2, <2>3 DEF table
    <2>5. IsIncrementation(k, f, t)
      BY <1>4, <1>5, <2>1, <2>3, <2>4, IncrementationIs
    <2>. QED
      BY <2>2, <2>3, <2>5 DEF IsIncrementation
  <1>. HIDE DEF table
  <1>7. ASSUME NEW d \in 0..(n - 1)
        PROVE  table[d] \in 0..n /\ Log(k, table[d]) = Plus2(k, Log(k, d), 1)
    <2>1. IF After(powers[d]) = 0 THEN table[d] = n
          ELSE table[d] < n /\ powers[table[d]] = After(powers[d])
      BY <1>4, <1>6 DEF IsIncrementation
    <2>6. table[d] \in 0..n
      BY <1>4, <1>6 DEF IsIncrementation
    <2>2. powers[d] = Log(k, d) /\ Log(k, d) \in Element(k)
      <3>1. d \in 0..n
        BY <1>0
      <3>. QED
        BY <1>0, <3>1
    <2>3. Plus2(k, Log(k, d), 1) = After(powers[d])
      <3>1. \A a \in Element(k) : Plus2(k, a, 1) = After(a)
        BY AddOne, Zenon DEF Plus2
      <3>. QED
        BY <2>2, <3>1, Zenon
    <2>. HIDE DEF powers
    <2>4. CASE After(powers[d]) = 0
      <3>1. table[d] = n
        BY <2>1, <2>4, Zenon
      <3>. QED
        BY <1>0, <2>3, <2>4, <2>6, <3>1, Zenon
    <2>5. CASE After(powers[d]) # 0
      <3>3. table[d] < n /\ powers[table[d]] = After(powers[d])
        BY <2>1, <2>5, Zenon
      <3>4. PICK t \in 0..n : t = table[d]
        BY <2>6
      <3>5. t < n
        BY <3>3, <3>4
      <3>6. t \in 0..(n - 1)
        BY <1>0, <3>5
      <3>1. table[d] \in 0..(n - 1) /\ powers[table[d]] = After(powers[d])
        BY <3>3, <3>4, <3>6, Zenon
      <3>2. Log(k, table[d]) = powers[table[d]]
        BY <1>0, <3>1 DEF powers
      <3>. QED
        BY <2>3, <2>6, <3>1, <3>2
    <2>. QED
      BY <2>4, <2>5
  <1>. QED
    BY <1>1, <1>2, <1>3, <1>7
-----------------------------------------------------------------------------
(* Sums of elements, and squares, by their logarithms                      *)

\* SumOfLogarithms gives the logarithm of the sum of two elements that are not zero.
LEMMA LogSum ==
    ASSUME NEW k \in 1..MaxExponent, NEW n, NEW h, Lists(k, n, h),
           NEW f \in 0..(n - 1), NEW t \in 0..(n - 1)
    PROVE  /\ SumOfLogarithms(k, f, t) \in 0..n
           /\ Log(k, SumOfLogarithms(k, f, t)) = Plus2(k, Log(k, f), Log(k, t))
  <1>0. /\ n \in Nat /\ n >= 2 /\ ZeroIndex(k) = n /\ Element(k) = 0..n
        /\ \A l \in 0..n : Log(k, l) \in 0..n
        /\ Log(k, n) = 0 /\ Log(k, 0) = 1
    BY ListsIs
  <1>1. PICK low \in 0..(n - 1) : low = IF t <= f THEN t ELSE f
    BY <1>0
  <1>2. PICK high \in 0..(n - 1) : high = IF t <= f THEN f ELSE t
    BY <1>0
  <1>3. PICK d \in 0..(n - 1) : d = high - low
    <2>1. low <= high
      BY <1>1, <1>2
    <2>2. high - low \in 0..(n - 1)
      BY <1>0, <2>1
    <2>. QED
      BY <2>2
  <1>4. /\ \A s \in 0..(2 * n - 1) :
                ReductionTable[k].exponent_reduction[s] = Wrap(n, s) /\ Wrap(n, s) \in 0..(n - 1)
        /\ \A e \in 0..(n - 1) :
                /\ ReductionTable[k].incrementation[e] \in 0..n
                /\ Log(k, ReductionTable[k].incrementation[e]) = Plus2(k, Log(k, e), 1)
    BY ReductionsAre
  <1>5. PICK inc \in 0..n : inc = ReductionTable[k].incrementation[d]
    BY <1>4
  <1>6. SumOfLogarithms(k, f, t) = IF inc # n THEN ReductionTable[k].exponent_reduction[low + inc]
                                   ELSE n
    BY <1>0, <1>1, <1>2, <1>3, <1>5, Zenon DEF SumOfLogarithms
  <1>7. Log(k, inc) = Plus2(k, Log(k, d), 1)
    BY <1>4, <1>5
  <1>8. Times(k, Log(k, low), Log(k, d)) = Log(k, high)
    <2>1. Times(k, Log(k, low), Log(k, d)) = Log(k, Wrap(n, low + d))
      BY LogProduct
    <2>2. Wrap(n, low + d) = high
      BY <1>0, <1>3 DEF Wrap
    <2>. QED
      BY <2>1, <2>2
  <1>9. low \in 0..n /\ d \in 0..n /\ high \in 0..n /\ 1 \in Element(k)
    BY <1>0
  <1>10. PICK a \in Element(k), b \in Element(k), c \in Element(k), e \in Element(k) :
            a = Log(k, low) /\ b = Log(k, high) /\ c = Log(k, d) /\ e = Log(k, inc)
    BY <1>0, <1>9
  <1>11. Times(k, a, e) = Plus2(k, b, a)
    <2>1. Times(k, a, Plus2(k, c, 1)) = Plus2(k, Times(k, a, c), Times(k, a, 1))
      BY <1>9, RingIs
    <2>2. Times(k, a, 1) = a
      BY RightSides
    <2>. QED
      BY <1>7, <1>8, <1>10, <2>1, <2>2
  <1>12. Plus2(k, b, a) = Plus2(k, Log(k, f), Log(k, t))
    <2>1. Plus2(k, a, b) = Plus2(k, b, a)
      BY RingIs
    <2>2. CASE t <= f
      BY <1>1, <1>2, <1>10, <2>2
    <2>3. CASE ~(t <= f)
      BY <1>1, <1>2, <1>10, <2>1, <2>3
    <2>. QED
      BY <2>2, <2>3
  <1>13. CASE inc = n
    <2>1. Times(k, a, e) = 0
      <3>1. e = 0
        BY <1>0, <1>10, <1>13
      <3>. QED
        BY <3>1, RightSides
    <2>2. SumOfLogarithms(k, f, t) = n
      BY <1>6, <1>13
    <2>3. Log(k, n) = Plus2(k, Log(k, f), Log(k, t))
      BY <1>0, <1>11, <1>12, <2>1
    <2>4. n \in 0..n
      BY <1>0
    <2>. QED
      BY <2>2, <2>3, <2>4
  <1>14. CASE inc # n
    <2>1. inc \in 0..(n - 1)
      BY <1>0, <1>14
    <2>2. PICK s \in 0..(2 * n - 1) : s = low + inc
      BY <1>0, <2>1
    <2>3. SumOfLogarithms(k, f, t) = Wrap(n, s) /\ Wrap(n, s) \in 0..(n - 1)
      BY <1>4, <1>6, <1>14, <2>2
    <2>4. Times(k, Log(k, low), Log(k, inc)) = Log(k, Wrap(n, low + inc))
      BY <2>1, LogProduct
    <2>5. Log(k, Wrap(n, s)) = Plus2(k, Log(k, f), Log(k, t))
      BY <1>10, <1>11, <1>12, <2>2, <2>4
    <2>6. PICK w \in 0..(n - 1) : w = Wrap(n, s)
      BY <2>3
    <2>7. w \in 0..n
      BY <1>0
    <2>. QED
      BY <2>3, <2>5, <2>6, <2>7
  <1>. QED
    BY <1>13, <1>14

\* The remainder of a multiple, and of the next one.
LEMMA NextMultiple ==
    ASSUME NEW n \in Nat \ {0}, NEW a \in Nat, NEW l \in 0..(n - 1)
    PROVE  /\ a % n \in 0..(n - 1)
           /\ (a + l) % n = Wrap(n, (a % n) + l)
  <1>1. PICK q \in Nat, r \in 0..(n - 1) : q = a \div n /\ r = a % n /\ a = n * q + r
    BY Division
  <1>2. n * q \in Nat
    OBVIOUS
  <1>3. CASE r + l < n
    <2>1. PICK s \in 0..(n - 1) : s = r + l
      BY <1>3
    <2>2. PICK b \in Nat : b = a + l
      OBVIOUS
    <2>3. b = n * q + s
      BY <1>1, <1>2, <2>1, <2>2
    <2>4. b % n = s
      BY <2>3, RemainderIs
    <2>. QED
      BY <1>1, <1>3, <2>1, <2>2, <2>4 DEF Wrap
  <1>4. CASE ~(r + l < n)
    <2>1. PICK s \in 0..(n - 1) : s = r + l - n
      BY <1>4
    <2>2. PICK b \in Nat : b = a + l
      OBVIOUS
    <2>3. PICK p \in Nat : p = q + 1
      OBVIOUS
    <2>4. n * p = n * q + n
      BY <2>3
    <2>5. b = n * p + s
      BY <1>1, <1>2, <2>1, <2>2, <2>4
    <2>6. b % n = s
      BY <2>5, RemainderIs
    <2>. QED
      BY <1>1, <1>4, <2>1, <2>2, <2>6 DEF Wrap
  <1>. QED
    BY <1>1, <1>3, <1>4

\* l times half the order is a multiple of the order if l is even.
LEMMA HalfPower ==
    ASSUME NEW n, NEW h \in Nat \ {0}, n = 2 * h, NEW l \in 0..(n - 1)
    PROVE  (l * h) % n = 0 <=> l % 2 = 0
  <1>1. PICK q \in Nat, r \in 0..(2 - 1) : q = l \div 2 /\ r = l % 2 /\ l = 2 * q + r
    <2>1. l \in Nat /\ 2 \in Nat \ {0}
      OBVIOUS
    <2>. QED
      BY ONLY <2>1, Division
  <1>2. n \in Nat \ {0} /\ h \in 0..(n - 1) /\ 0 \in 0..(n - 1)
    OBVIOUS
  <1>3. PICK a \in Nat : a = l * h
    OBVIOUS
  <1>4. n * q = 2 * h * q
    OBVIOUS
  <1>5. CASE r = 0
    <2>1. a = n * q + 0
      <3>1. (2 * q) * h = 2 * h * q
        OBVIOUS
      <3>. QED
        BY <1>1, <1>3, <1>4, <1>5, <3>1
    <2>2. a % n = 0
      BY ONLY <1>2, <2>1, q \in Nat, a \in Nat, RemainderIs
    <2>. QED
      BY <1>1, <1>3, <1>5, <2>2
  <1>6. CASE r = 1
    <2>1. a = n * q + h
      <3>1. (2 * q + 1) * h = 2 * h * q + h
        OBVIOUS
      <3>. QED
        BY <1>1, <1>3, <1>4, <1>6, <3>1
    <2>2. a % n = h
      BY ONLY <1>2, <2>1, q \in Nat, a \in Nat, RemainderIs
    <2>. QED
      BY <1>1, <1>3, <1>6, <2>2
  <1>. QED
    BY <1>1, <1>5, <1>6

\* An element is a square, to Euler, if its logarithm is even.
LEMMA PowersOfLog ==
    ASSUME NEW k \in 1..MaxExponent, NEW n, NEW h, Lists(k, n, h), NEW l \in 0..(n - 1)
    PROVE  Powers(k, Log(k, l), h)[h] = 1 <=> l % 2 = 0
  <1>0. /\ n \in Nat /\ n >= 2 /\ n \in Nat \ {0} /\ h \in Nat \ {0} /\ n = 2 * h
        /\ Element(k) = 0..n
        /\ \A i \in 0..n : Log(k, i) \in 0..n
        /\ Log(k, 0) = 1
        /\ \A i, j \in 0..n : Log(k, i) = Log(k, j) => i = j
    BY ListsIs
  <1>. DEFINE a == Log(k, l)
              p == Powers(k, a, h)
              T == {m \in 0..h : \E w \in 0..(n - 1) : w = (l * m) % n /\ p[m] = Log(k, w)}
  <1>1. ArePowers(k, a, h, p)
    <2>1. a \in Element(k) /\ h \in Nat
      BY <1>0
    <2>. HIDE DEF a
    <2>. QED
      BY <2>1, PowersAre
  <1>. HIDE DEF p
  <1>2. p[0] = 1 /\ \A i \in 1..h : p[i] = Times(k, p[i - 1], a)
    BY <1>1 DEF ArePowers
  <1>3. 0 \in T
    <2>1. 0 = n * 0 + 0 /\ 0 \in 0..(n - 1) /\ l * 0 = 0 /\ 0 \in 0..h
      BY <1>0
    <2>2. 0 % n = 0
      BY <1>0, <2>1, RemainderIs
    <2>. QED
      BY <1>0, <1>2, <2>1, <2>2
  <1>4. ASSUME NEW m \in 1..h, m - 1 \in T
        PROVE  m \in T
    <2>1. PICK w \in 0..(n - 1) : w = (l * (m - 1)) % n /\ p[m - 1] = Log(k, w)
      BY <1>4
    <2>2. PICK b \in Nat : b = l * (m - 1)
      OBVIOUS
    <2>3. l * m = b + l
      BY <2>2
    <2>4. (b + l) % n = Wrap(n, (b % n) + l)
      BY <1>0, NextMultiple
    <2>5. (l * m) % n = Wrap(n, w + l)
      BY <2>1, <2>2, <2>3, <2>4
    <2>6. Times(k, Log(k, w), Log(k, l)) = Log(k, Wrap(n, w + l)) /\ Wrap(n, w + l) \in 0..(n - 1)
      BY LogProduct
    <2>7. p[m] = Log(k, Wrap(n, w + l))
      BY <1>2, <2>1, <2>6
    <2>. QED
      BY <2>5, <2>6, <2>7
  <1>. HIDE DEF T
  <1>5. h \in T
    <2>1. h \in Nat
      BY <1>0
    <2>2. \A m \in 0..h : m \in T
      BY <1>3, <1>4, <2>1, UpTo
    <2>. QED
      BY <2>1, <2>2
  <1>6. PICK w \in 0..(n - 1) : w = (l * h) % n /\ p[h] = Log(k, w)
    BY <1>5 DEF T
  <1>7. p[h] = 1 <=> w = 0
    <2>1. w \in 0..n /\ 0 \in 0..n
      BY <1>0
    <2>. QED
      BY <1>0, <1>6, <2>1
  <1>8. (l * h) % n = 0 <=> l % 2 = 0
    BY <1>0, HalfPower
  <1>. QED
    BY <1>6, <1>7, <1>8 DEF p
-----------------------------------------------------------------------------
(* The value of a polynomial                                               *)

\* The polynomial with the coefficients c at X: P has the powers of X, s the partial
\* sums.
Evaluates(k, c, X, m, P, s) ==
    /\ P \in [0..m -> Element(k)] /\ P[0] = 1
    /\ \A i \in 1..m : P[i] = Times(k, P[i - 1], X)
    /\ s \in [0..m -> Element(k)] /\ s[0] = 0
    /\ \A i \in 1..m : s[i] = Plus2(k, s[i - 1], Times(k, c[i], P[i - 1]))

\* They exist.
LEMMA CanEvaluate ==
    ASSUME NEW k \in 1..MaxExponent, NEW m \in Nat, NEW c \in [1..m -> Element(k)],
           NEW X \in Element(k)
    PROVE  \E P, s : Evaluates(k, c, X, m, P, s)
  <1>. DEFINE V == Element(k)
  <1>1. 0 \in V /\ 1 \in V
    BY One
  <1>2. \A a, b \in V : Times(k, a, b) \in V /\ Plus2(k, a, b) \in V
    BY TimesIs, RingIs
  <1>. HIDE DEF V
  <1>3. c \in [1..m -> V] /\ X \in V
    BY DEF V
  <1>. DEFINE G == [i \in 1..m |-> [v \in V |-> Times(k, v, X)]]
  <1>4. G \in [1..m -> [V -> V]]
    BY <1>2, <1>3
  <1>5. PICK P : Recurs(P, m, V, 1, G)
    <2>. HIDE DEF G
    <2>. QED
      BY <1>1, <1>4, FromZero
  <1>6. P \in [0..m -> V] /\ P[0] = 1
    BY <1>5 DEF Recurs
  <1>7. \A i \in 1..m : P[i] = Times(k, P[i - 1], X)
    <2>. SUFFICES ASSUME NEW i \in 1..m PROVE P[i] = Times(k, P[i - 1], X)
      OBVIOUS
    <2>1. P[i] = G[i][P[i - 1]]
      BY <1>5 DEF Recurs
    <2>2. P[i - 1] \in V
      BY <1>6
    <2>. QED
      BY <2>1, <2>2
  <1>. DEFINE H == [i \in 1..m |-> [v \in V |-> Plus2(k, v, Times(k, c[i], P[i - 1]))]]
  <1>8. H \in [1..m -> [V -> V]]
    <2>1. \A i \in 1..m : i - 1 \in 0..m
      OBVIOUS
    <2>2. \A i \in 1..m : Times(k, c[i], P[i - 1]) \in V
      BY <1>2, <1>3, <1>6, <2>1
    <2>. QED
      BY <1>2, <2>2
  <1>9. PICK s : Recurs(s, m, V, 0, H)
    <2>. HIDE DEF H
    <2>. QED
      BY <1>1, <1>8, FromZero
  <1>10. s \in [0..m -> V] /\ s[0] = 0
    BY <1>9 DEF Recurs
  <1>11. \A i \in 1..m : s[i] = Plus2(k, s[i - 1], Times(k, c[i], P[i - 1]))
    <2>. SUFFICES ASSUME NEW i \in 1..m PROVE s[i] = Plus2(k, s[i - 1], Times(k, c[i], P[i - 1]))
      OBVIOUS
    <2>1. s[i] = H[i][s[i - 1]]
      BY <1>9 DEF Recurs
    <2>2. s[i - 1] \in V
      BY <1>10
    <2>. QED
      BY <2>1, <2>2
  <1>. QED
    BY <1>6, <1>7, <1>10, <1>11, Zenon DEF Evaluates, V

\* A function that obeys a recursion.
Follows(g, N, V, a, G) ==
    g[0] = a /\ \A i \in 1..N : g[i - 1] \in V => g[i] = G[i][g[i - 1]]

\* Its values are then in the set that the steps stay in.
LEMMA AlsoRecurs ==
    ASSUME NEW N \in Nat, NEW V, NEW a \in V, NEW G \in [1..N -> [V -> V]],
           NEW g, Follows(g, N, V, a, G)
    PROVE  \A i \in 0..N : g[i] \in V
  <1>0. g[0] = a /\ \A i \in 1..N : g[i - 1] \in V => g[i] = G[i][g[i - 1]]
    BY DEF Follows
  <1>. DEFINE T == {i \in 0..N : g[i] \in V}
  <1>1. 0 \in T
    BY <1>0
  <1>2. ASSUME NEW i \in 1..N, i - 1 \in T
        PROVE  i \in T
    <2>1. g[i - 1] \in V
      BY <1>2
    <2>2. g[i] = G[i][g[i - 1]]
      BY <1>0, <2>1
    <2>3. G[i][g[i - 1]] \in V
      BY <2>1
    <2>. QED
      BY <2>2, <2>3
  <1>. HIDE DEF T
  <1>3. \A i \in 0..N : i \in T
    BY <1>1, <1>2, UpTo
  <1>. QED
    BY <1>3 DEF T

\* Horner's scheme.
IsHorner(k, f, X, m, g) ==
    /\ g[0] = 0 /\ \A i \in 0..m : g[i] \in Element(k)
    /\ \A i \in 1..m : g[i] = Plus2(k, Times(k, g[i - 1], X), f[m + 1 - i])

\* ValueAt is its last value.
LEMMA HornerIs ==
    ASSUME NEW k \in 1..MaxExponent, NEW m \in Nat, NEW f \in [1..m -> Element(k)],
           NEW X \in Element(k)
    PROVE  \E g : IsHorner(k, f, X, m, g) /\ ValueAt(k, f, X) = g[m]
  <1>. DEFINE V == Element(k)
              F(g) == [i \in 0..m |-> IF i = 0 THEN 0
                                      ELSE Plus2(k, Times(k, g[i - 1], X), f[m + 1 - i])]
              G == [i \in 1..m |-> [v \in V |-> Plus2(k, Times(k, v, X), f[m + 1 - i])]]
              horner == CHOOSE g : g = F(g)
  <1>1. 0 \in V
    BY One
  <1>2. \A a, b \in V : Times(k, a, b) \in V /\ Plus2(k, a, b) \in V
    BY TimesIs, RingIs
  <1>3. Len(f) = m
    BY ONLY m \in Nat, f \in [1..m -> Element(k)]
  <1>. HIDE DEF V
  <1>4. f \in [1..m -> V] /\ X \in V
    BY DEF V
  <1>5. G \in [1..m -> [V -> V]]
    <2>1. \A i \in 1..m : m + 1 - i \in 1..m
      OBVIOUS
    <2>. QED
      BY <1>2, <1>4, <2>1
  <1>6. PICK g : Recurs(g, m, V, 0, G)
    <2>. HIDE DEF G
    <2>. QED
      BY <1>1, <1>5, FromZero
  <1>7. g \in [0..m -> V] /\ g[0] = 0
    BY <1>6 DEF Recurs
  <1>8. \A i \in 1..m : g[i] = Plus2(k, Times(k, g[i - 1], X), f[m + 1 - i])
    <2>. SUFFICES ASSUME NEW i \in 1..m
                  PROVE  g[i] = Plus2(k, Times(k, g[i - 1], X), f[m + 1 - i])
      OBVIOUS
    <2>1. g[i] = G[i][g[i - 1]] /\ g[i - 1] \in V
      BY <1>6, <1>7 DEF Recurs
    <2>. QED
      BY <2>1
  <1>9. g = F(g)
    <2>1. \A i \in 0..m : i # 0 => i \in 1..m
      OBVIOUS
    <2>2. \A i \in 0..m : g[i] = IF i = 0 THEN 0 ELSE Plus2(k, Times(k, g[i - 1], X), f[m + 1 - i])
      BY <1>7, <1>8, <2>1
    <2>3. g = [i \in 0..m |-> g[i]]
      BY <1>7
    <2>. QED
      BY <2>2, <2>3, Zenon
  <1>10. horner = F(horner)
    BY <1>9, Zenon
  <1>. HIDE DEF horner
  <1>11. horner[0] = 0 /\ \A i \in 1..m : horner[i] = Plus2(k, Times(k, horner[i - 1], X), f[m + 1 - i])
    BY <1>10
  <1>12. \A i \in 1..m : horner[i - 1] \in V => horner[i] = G[i][horner[i - 1]]
    <2>. HIDE DEF F
    <2>. QED
      BY <1>11
  <1>13. \A i \in 0..m : horner[i] \in V
    <2>. HIDE DEF G
    <2>1. Follows(horner, m, V, 0, G)
      BY <1>11, <1>12, Zenon DEF Follows
    <2>. QED
      BY <1>1, <1>5, <2>1, AlsoRecurs
  <1>14. ValueAt(k, f, X) = horner[m]
    BY <1>3, Zenon DEF ValueAt, horner, Times, Plus2
  <1>. QED
    BY <1>11, <1>13, <1>14 DEF IsHorner, V

\* Which is the last of the partial sums: the order of evaluation is irrelevant.
LEMMA ValueIs ==
    ASSUME NEW k \in 1..MaxExponent, NEW m \in Nat, NEW f \in [1..m -> Element(k)],
           NEW X \in Element(k), NEW P, NEW s, Evaluates(k, f, X, m, P, s)
    PROVE  ValueAt(k, f, X) = s[m]
  <1>1. PICK g : IsHorner(k, f, X, m, g) /\ ValueAt(k, f, X) = g[m]
    BY HornerIs
  <1>. DEFINE T == {i \in 0..m : Plus2(k, s[m - i], Times(k, g[i], P[m - i])) = s[m]}
  <1>2. /\ g[0] = 0 /\ \A i \in 0..m : g[i] \in Element(k)
        /\ \A i \in 1..m : g[i] = Plus2(k, Times(k, g[i - 1], X), f[m + 1 - i])
    BY <1>1 DEF IsHorner
  <1>3. /\ P \in [0..m -> Element(k)] /\ P[0] = 1
        /\ \A i \in 1..m : P[i] = Times(k, P[i - 1], X)
        /\ s \in [0..m -> Element(k)] /\ s[0] = 0
        /\ \A i \in 1..m : s[i] = Plus2(k, s[i - 1], Times(k, f[i], P[i - 1]))
    BY DEF Evaluates
  <1>4. /\ \A a \in Element(k) : /\ Plus2(k, a, 0) = a /\ Plus2(k, 0, a) = a
                                 /\ Times(k, 0, a) = 0 /\ Times(k, a, 1) = a
        /\ \A a, b \in Element(k) : Times(k, a, b) \in Element(k) /\ Plus2(k, a, b) \in Element(k)
        /\ \A a, b \in Element(k) : Times(k, a, b) = Times(k, b, a) /\ Plus2(k, a, b) = Plus2(k, b, a)
    <2>1. \A a \in Element(k) : Plus2(k, a, 0) = a /\ Times(k, a, 1) = a
      BY RightSides
    <2>2. \A a \in Element(k) : Plus2(k, 0, a) = a /\ Times(k, 0, a) = 0
      BY RingIs
    <2>3. \A a, b \in Element(k) : Times(k, a, b) \in Element(k)
      BY TimesIs
    <2>4. \A a, b \in Element(k) : Plus2(k, a, b) \in Element(k)
      BY RingIs
    <2>5. \A a, b \in Element(k) : Times(k, a, b) = Times(k, b, a)
      BY RingIs
    <2>6. \A a, b \in Element(k) : Plus2(k, a, b) = Plus2(k, b, a)
      BY RingIs
    <2>. QED
      BY <2>1, <2>2, <2>3, <2>4, <2>5, <2>6, Zenon
  <1>5. 0 \in T
    <2>1. m \in 0..m /\ 0 \in 0..m /\ m - 0 = m
      OBVIOUS
    <2>2. s[m] \in Element(k) /\ P[m] \in Element(k)
      BY <1>3, <2>1
    <2>3. Times(k, g[0], P[m]) = 0 /\ Plus2(k, s[m], 0) = s[m]
      BY <1>2, <1>4, <2>2
    <2>. QED
      BY <2>1, <2>3
  <1>6. ASSUME NEW i \in 1..m, i - 1 \in T
        PROVE  i \in T
    <2>1. PICK j \in 1..m : j = m + 1 - i /\ m - (i - 1) = j /\ m - i = j - 1
      <3>1. m + 1 - i \in 1..m /\ m - (i - 1) = m + 1 - i /\ m - i = (m + 1 - i) - 1
        OBVIOUS
      <3>. QED
        BY <3>1
    <2>2. Plus2(k, s[j], Times(k, g[i - 1], P[j])) = s[m]
      BY <1>6, <2>1
    <2>3. i \in 0..m /\ i - 1 \in 0..m /\ j - 1 \in 0..m
      OBVIOUS
    <2>4. PICK a \in Element(k), b \in Element(k), p \in Element(k), e \in Element(k) :
             a = s[j - 1] /\ b = g[i - 1] /\ p = P[j - 1] /\ e = f[j]
      BY <1>2, <1>3, <2>3
    <2>5. s[j] = Plus2(k, a, Times(k, e, p)) /\ P[j] = Times(k, p, X)
      BY <1>3, <2>4
    <2>6. g[i] = Plus2(k, Times(k, b, X), e)
      BY <1>2, <2>1, <2>4
    <2>7. PICK u \in Element(k), v \in Element(k), w \in Element(k) :
             u = Times(k, e, p) /\ v = Times(k, b, Times(k, p, X)) /\ w = Times(k, b, X)
      BY <1>4
    <2>8. Plus2(k, Plus2(k, a, u), v) = s[m]
      BY <2>2, <2>4, <2>5, <2>7
    <2>9. v = Times(k, w, p)
      <3>1. Times(k, p, X) = Times(k, X, p)
        BY <1>4
      <3>2. Times(k, Times(k, b, X), p) = Times(k, b, Times(k, X, p))
        BY RingIs
      <3>. QED
        BY <2>7, <3>1, <3>2
    <2>10. Times(k, g[i], p) = Plus2(k, v, u)
      <3>1. Times(k, Plus2(k, w, e), p) = Plus2(k, Times(k, w, p), Times(k, e, p))
        BY RightSides
      <3>. QED
        BY <2>6, <2>7, <2>9, <3>1
    <2>11. Plus2(k, Plus2(k, a, u), v) = Plus2(k, a, Plus2(k, u, v))
      BY RingIs
    <2>12. Plus2(k, a, Times(k, g[i], p)) = s[m]
      BY <1>4, <2>8, <2>10, <2>11
    <2>. QED
      BY <2>1, <2>3, <2>4, <2>12
  <1>. HIDE DEF T
  <1>7. m \in T
    <2>1. \A i \in 0..m : i \in T
      BY <1>5, <1>6, UpTo
    <2>. QED
      BY <2>1
  <1>8. Plus2(k, s[0], Times(k, g[m], P[0])) = s[m]
    <2>1. m - m = 0
      OBVIOUS
    <2>. QED
      BY <1>7, <2>1 DEF T
  <1>9. g[m] \in Element(k)
    BY <1>2
  <1>. QED
    BY <1>1, <1>3, <1>4, <1>8, <1>9
-----------------------------------------------------------------------------
(* The value by logarithms, as count_cpu and the kernel find it            *)

\* The loops of RhsLogarithm: the logarithms of the powers of x, and the sums.
Reduced(k, s) == ReductionTable[k].exponent_reduction[s]

XPowers(k, D, x) ==
    CHOOSE xpw : xpw = [dx \in 0..D |-> IF dx = 0 THEN 0 ELSE Reduced(k, xpw[dx - 1] + x)]

\* P lists the powers of X as P[0], ..., P[D].
PowersUpTo(k, P, D, X) == P[0] = 1 /\ \A i \in 1..D : P[i] = Times(k, P[i - 1], X)

\* The logarithms that xpw has are those of the powers, for x other than zero.
LEMMA XPowersAre ==
    ASSUME NEW k \in 1..MaxExponent, NEW n, NEW h, Lists(k, n, h), NEW D \in Nat,
           NEW x \in 0..n, NEW xpw, xpw = XPowers(k, D, x),
           NEW X, X = Log(k, Wrap(n, x)), NEW P, PowersUpTo(k, P, D, X)
    PROVE  \A i \in 0..D : xpw[i] \in 0..(n - 1) /\ P[i] = Log(k, xpw[i])
  <1>0. /\ n \in Nat /\ n >= 2 /\ n \in Nat \ {0} /\ Log(k, 0) = 1
    BY ListsIs
  <1>20. P[0] = 1 /\ \A i \in 1..D : P[i] = Times(k, P[i - 1], X)
    BY DEF PowersUpTo
  <1>. DEFINE F(g) == [dx \in 0..D |-> IF dx = 0 THEN 0 ELSE Reduced(k, g[dx - 1] + x)]
              V == 0..(n - 1)
              G == [i \in 1..D |-> [v \in V |-> Reduced(k, v + x)]]
  <1>1. \A v \in V : Reduced(k, v + x) \in V /\ Reduced(k, v + x) = Wrap(n, v + x)
    <2>. SUFFICES ASSUME NEW v \in V
                  PROVE  Reduced(k, v + x) \in V /\ Reduced(k, v + x) = Wrap(n, v + x)
      OBVIOUS
    <2>1. PICK s \in 0..(2 * n - 1) : s = v + x
      BY <1>0
    <2>2. Reduced(k, s) = Wrap(n, s) /\ Wrap(n, s) \in 0..(n - 1)
      <3>1. \A t \in 0..(2 * n - 1) :
                ReductionTable[k].exponent_reduction[t] = Wrap(n, t) /\ Wrap(n, t) \in 0..(n - 1)
        BY ReductionsAre
      <3>. QED
        BY <3>1, Zenon DEF Reduced
    <2>. QED
      BY <2>1, <2>2
  <1>2. 0 \in V
    BY <1>0
  <1>. HIDE DEF V
  <1>3. G \in [1..D -> [V -> V]]
    BY <1>1
  <1>4. PICK g : Recurs(g, D, V, 0, G)
    <2>. HIDE DEF G
    <2>. QED
      BY <1>2, <1>3, FromZero
  <1>5. g \in [0..D -> V] /\ g[0] = 0
    BY <1>4 DEF Recurs
  <1>6. \A i \in 1..D : g[i] = Reduced(k, g[i - 1] + x)
    <2>. SUFFICES ASSUME NEW i \in 1..D PROVE g[i] = Reduced(k, g[i - 1] + x)
      OBVIOUS
    <2>1. g[i] = G[i][g[i - 1]] /\ g[i - 1] \in V
      BY <1>4, <1>5 DEF Recurs
    <2>. QED
      BY <2>1
  <1>7. g = F(g)
    <2>1. \A i \in 0..D : i # 0 => i \in 1..D
      OBVIOUS
    <2>2. \A i \in 0..D : g[i] = IF i = 0 THEN 0 ELSE Reduced(k, g[i - 1] + x)
      BY <1>5, <1>6, <2>1
    <2>3. g = [i \in 0..D |-> g[i]]
      BY <1>5
    <2>. QED
      BY <2>2, <2>3, Zenon
  <1>8. xpw = F(xpw)
    BY <1>7, Zenon DEF XPowers
  <1>9. xpw[0] = 0 /\ \A i \in 1..D : xpw[i] = Reduced(k, xpw[i - 1] + x)
    <2>1. xpw[0] = 0
      BY <1>8
    <2>2. ASSUME NEW i \in 1..D
          PROVE  xpw[i] = Reduced(k, xpw[i - 1] + x)
      <3>1. i \in 0..D /\ i # 0
        OBVIOUS
      <3>2. xpw[i] = F(xpw)[i]
        BY <1>8, Zenon
      <3>. QED
        BY <3>1, <3>2, Zenon
    <2>. QED
      BY <2>1, <2>2
  <1>. HIDE DEF G, F
  <1>. DEFINE T == {i \in 0..D : xpw[i] \in V /\ P[i] = Log(k, xpw[i])}
  <1>10. 0 \in T
    BY <1>0, <1>2, <1>9, <1>20
  <1>11. ASSUME NEW i \in 1..D, i - 1 \in T
         PROVE  i \in T
    <2>1. PICK v \in V : v = xpw[i - 1] /\ P[i - 1] = Log(k, v)
      BY <1>11
    <2>2. xpw[i] = Wrap(n, v + x) /\ xpw[i] \in V
      BY <1>1, <1>9, <2>1
    <2>3. v \in 0..(n - 1)
      BY DEF V
    <2>4. PICK w \in 0..(n - 1) : w = Wrap(n, x) /\ Wrap(n, v + w) = Wrap(n, v + x)
      <3>1. Wrap(n, x) \in 0..(n - 1)
        BY <1>0 DEF Wrap
      <3>2. Wrap(n, v + Wrap(n, x)) = Wrap(n, v + x)
        BY <1>0, <2>3 DEF Wrap
      <3>. QED
        BY <3>1, <3>2
    <2>5. Times(k, Log(k, v), Log(k, w)) = Log(k, Wrap(n, v + w))
      BY <2>3, LogProduct
    <2>6. P[i] = Log(k, xpw[i])
      BY <1>20, <2>1, <2>2, <2>4, <2>5
    <2>. QED
      BY <2>2, <2>6
  <1>. HIDE DEF T
  <1>12. \A i \in 0..D : i \in T
    BY <1>10, <1>11, UpTo
  <1>. QED
    BY <1>12 DEF T, V

\* One round: the logarithm of the sum so far, and of the sum with the next term.
NextSum(k, coefficient, power, v) ==
    IF coefficient = ZeroIndex(k) THEN v
    ELSE LET term == Reduced(k, coefficient + power)
         IN  IF v = ZeroIndex(k) THEN term ELSE SumOfLogarithms(k, v, term)

\* A round adds a term.
LEMMA NextSumIs ==
    ASSUME NEW k \in 1..MaxExponent, NEW n, NEW h, Lists(k, n, h),
           NEW e \in 0..n, NEW p \in 0..(n - 1), NEW v \in 0..n
    PROVE  /\ NextSum(k, e, p, v) \in 0..n
           /\ Log(k, NextSum(k, e, p, v)) = Plus2(k, Log(k, v), Times(k, Log(k, e), Log(k, p)))
  <1>0. /\ n \in Nat /\ n >= 2 /\ n \in Nat \ {0} /\ ZeroIndex(k) = n
        /\ Element(k) = 0..n /\ Log(k, n) = 0
        /\ \A l \in 0..n : Log(k, l) \in 0..n
    BY ListsIs
  <1>1. p \in 0..n /\ n \in 0..n
    BY <1>0
  <1>2. PICK a \in Element(k), b \in Element(k), c \in Element(k) :
           a = Log(k, e) /\ b = Log(k, p) /\ c = Log(k, v)
    BY <1>0, <1>1
  <1>3. Times(k, 0, b) = 0 /\ Plus2(k, c, 0) = c
    BY RingIs, RightSides
  <1>4. CASE e = n
    <2>1. NextSum(k, e, p, v) = v
      BY <1>0, <1>4 DEF NextSum
    <2>2. a = 0
      BY <1>0, <1>2, <1>4
    <2>. QED
      BY <1>2, <1>3, <2>1, <2>2
  <1>5. CASE e # n
    <2>1. e \in 0..(n - 1)
      BY <1>0, <1>5
    <2>2. PICK t \in 0..(2 * n - 1) : t = e + p
      BY <1>0, <2>1
    <2>3. Reduced(k, t) = Wrap(n, t) /\ Wrap(n, t) \in 0..(n - 1)
      <3>1. \A s \in 0..(2 * n - 1) :
                ReductionTable[k].exponent_reduction[s] = Wrap(n, s) /\ Wrap(n, s) \in 0..(n - 1)
        BY ReductionsAre
      <3>. QED
        BY <3>1, Zenon DEF Reduced
    <2>4. PICK term \in 0..(n - 1) : term = Reduced(k, e + p)
      BY <2>2, <2>3
    <2>5. NextSum(k, e, p, v) = IF v = n THEN term ELSE SumOfLogarithms(k, v, term)
      BY <1>0, <1>5, <2>4, Zenon DEF NextSum
    <2>6. Times(k, a, b) = Log(k, term)
      <3>1. Times(k, Log(k, e), Log(k, p)) = Log(k, Wrap(n, e + p))
        BY <2>1, LogProduct
      <3>. QED
        BY <1>2, <2>2, <2>3, <2>4, <3>1
    <2>7. CASE v = n
      <3>1. c = 0 /\ Log(k, term) \in Element(k) /\ term \in 0..n
        BY <1>0, <1>2, <2>7
      <3>2. Plus2(k, 0, Log(k, term)) = Log(k, term)
        BY <3>1, RingIs
      <3>. QED
        BY <1>2, <2>5, <2>6, <2>7, <3>1, <3>2
    <2>8. CASE v # n
      <3>1. v \in 0..(n - 1)
        BY <1>0, <2>8
      <3>2. /\ SumOfLogarithms(k, v, term) \in 0..n
            /\ Log(k, SumOfLogarithms(k, v, term)) = Plus2(k, Log(k, v), Log(k, term))
        BY <3>1, LogSum
      <3>. QED
        BY <1>2, <2>5, <2>6, <2>8, <3>2
    <2>. QED
      BY <2>7, <2>8
  <1>. QED
    BY <1>4, <1>5

\* The loop of RhsLogarithm gives the logarithm of the value at any x but zero; its x
\* runs up to the order of the group, which stands for 1 (curve.cc, 261-288).
LEMMA RhsLogarithmIs ==
    ASSUME NEW k \in 1..MaxExponent, NEW n, NEW h, Lists(k, n, h), NEW m \in Nat \ {0},
           NEW f \in [1..m -> 0..n], NEW c, \A i \in 1..m : c[i] = Log(k, f[i]),
           NEW x \in 0..n, NEW X, X = Log(k, Wrap(n, x)),
           NEW P, NEW s, Evaluates(k, c, X, m, P, s)
    PROVE  RhsLogarithm(k, f, x) \in 0..n /\ Log(k, RhsLogarithm(k, f, x)) = s[m]
  <1>0. /\ n \in Nat /\ n >= 2 /\ n \in Nat \ {0} /\ ZeroIndex(k) = n
        /\ Element(k) = 0..n
        /\ \A l \in 0..n : Log(k, l) \in 0..n
    BY ListsIs
  <1>1. /\ P[0] = 1 /\ \A i \in 1..m : P[i] = Times(k, P[i - 1], X)
        /\ s[0] = 0
        /\ \A i \in 1..m : s[i] = Plus2(k, s[i - 1], Times(k, c[i], P[i - 1]))
    BY DEF Evaluates
  <1>2. PICK D \in Nat : D = m - 1
    OBVIOUS
  <1>3. PICK xpw : xpw = XPowers(k, D, x)
    OBVIOUS
  <1>4. \A i \in 0..D : xpw[i] \in 0..(n - 1) /\ P[i] = Log(k, xpw[i])
    <2>1. PowersUpTo(k, P, D, X)
      BY <1>1, <1>2 DEF PowersUpTo
    <2>. QED
      BY <1>1, <1>3, <2>1, XPowersAre
  <1>. DEFINE F(g) == [dx \in 0..D |-> IF dx = 0 THEN f[1] ELSE NextSum(k, f[dx + 1], xpw[dx], g[dx - 1])]
              V == 0..n
              G == [i \in 1..D |-> [v \in V |-> NextSum(k, f[i + 1], xpw[i], v)]]
              r == CHOOSE g : g = F(g)
  <1>5. /\ f[1] \in V
        /\ \A i \in 1..D : /\ i + 1 \in 1..m /\ f[i + 1] \in V /\ xpw[i] \in 0..(n - 1)
                           /\ i \in 0..D
    BY <1>2, <1>4
  <1>6. \A i \in 1..D, v \in V :
           /\ NextSum(k, f[i + 1], xpw[i], v) \in V
           /\ Log(k, NextSum(k, f[i + 1], xpw[i], v))
                = Plus2(k, Log(k, v), Times(k, Log(k, f[i + 1]), Log(k, xpw[i])))
    BY <1>5, NextSumIs
  <1>. HIDE DEF V
  <1>7. G \in [1..D -> [V -> V]]
    BY <1>6
  <1>8. PICK g : Recurs(g, D, V, f[1], G)
    <2>1. PICK a \in V : a = f[1]
      BY <1>5
    <2>. HIDE DEF G
    <2>. QED
      BY <1>7, <2>1, FromZero
  <1>9. g \in [0..D -> V] /\ g[0] = f[1]
    BY <1>8 DEF Recurs
  <1>10. \A i \in 1..D : g[i] = NextSum(k, f[i + 1], xpw[i], g[i - 1])
    <2>. SUFFICES ASSUME NEW i \in 1..D PROVE g[i] = NextSum(k, f[i + 1], xpw[i], g[i - 1])
      OBVIOUS
    <2>1. g[i] = G[i][g[i - 1]] /\ g[i - 1] \in V
      BY <1>8, <1>9 DEF Recurs
    <2>. QED
      BY <2>1
  <1>11. g = F(g)
    <2>1. \A i \in 0..D : i # 0 => i \in 1..D
      OBVIOUS
    <2>2. \A i \in 0..D : g[i] = IF i = 0 THEN f[1] ELSE NextSum(k, f[i + 1], xpw[i], g[i - 1])
      BY <1>9, <1>10, <2>1
    <2>3. g = [i \in 0..D |-> g[i]]
      BY <1>9
    <2>. QED
      BY <2>2, <2>3, Zenon
  <1>12. r = F(r)
    BY <1>11, Zenon
  <1>. HIDE DEF r
  <1>13. r[0] = f[1] /\ \A i \in 1..D : r[i] = NextSum(k, f[i + 1], xpw[i], r[i - 1])
    BY <1>12
  <1>14. RhsLogarithm(k, f, x) = r[D]
    <2>1. Degree(f) = D
      <3>1. Len(f) = m
        BY ONLY f \in [1..m -> 0..n], m \in Nat \ {0}
      <3>. QED
        BY <1>2, <3>1 DEF Degree
    <2>2. RhsLogarithm(k, f, x)
             = (CHOOSE w : w = [dx \in 0..Degree(f) |->
                    IF dx = 0 THEN f[1]
                    ELSE NextSum(k, f[dx + 1], XPowers(k, Degree(f), x)[dx], w[dx - 1])])[Degree(f)]
      BY Zenon DEF RhsLogarithm, NextSum, Reduced, XPowers
    <2>3. RhsLogarithm(k, f, x)
             = (CHOOSE w : w = [dx \in 0..D |->
                    IF dx = 0 THEN f[1]
                    ELSE NextSum(k, f[dx + 1], XPowers(k, D, x)[dx], w[dx - 1])])[D]
      <3>. HIDE DEF F, r
      <3>. QED
        BY <2>1, <2>2
    <2>4. XPowers(k, D, x) = xpw
      BY <1>3
    <2>. QED
      BY <2>3, <2>4, Zenon DEF r
  <1>. DEFINE T == {i \in 0..D : r[i] \in V /\ Log(k, r[i]) = s[i + 1]}
  <1>15. 0 \in T
    <2>1. s[1] = Plus2(k, s[0], Times(k, c[1], P[0]))
      <3>1. 1 \in 1..m /\ 1 - 1 = 0
        OBVIOUS
      <3>. QED
        BY <1>1, <3>1
    <2>2. c[1] = Log(k, f[1]) /\ c[1] \in Element(k)
      <3>1. 1 \in 1..m
        OBVIOUS
      <3>2. c[1] = Log(k, f[1]) /\ f[1] \in 0..n
        BY <3>1
      <3>. QED
        BY <1>0, <3>2
    <2>3. Times(k, c[1], 1) = c[1] /\ Plus2(k, 0, c[1]) = c[1]
      BY <2>2, RingIs, RightSides
    <2>4. s[0 + 1] = Log(k, r[0])
      BY <1>1, <1>13, <2>1, <2>2, <2>3
    <2>. QED
      BY <1>5, <1>13, <2>4
  <1>16. ASSUME NEW i \in 1..D, i - 1 \in T
         PROVE  i \in T
    <2>1. PICK v \in V : v = r[i - 1] /\ Log(k, v) = s[i]
      <3>1. (i - 1) + 1 = i
        OBVIOUS
      <3>. QED
        BY <1>16, <3>1
    <2>2. r[i] \in V /\ Log(k, r[i]) = Plus2(k, s[i], Times(k, Log(k, f[i + 1]), Log(k, xpw[i])))
      BY <1>6, <1>13, <2>1
    <2>3. Log(k, f[i + 1]) = c[i + 1] /\ Log(k, xpw[i]) = P[i]
      BY <1>4, <1>5
    <2>4. s[i + 1] = Plus2(k, s[i], Times(k, c[i + 1], P[i]))
      <3>1. i + 1 \in 1..m /\ (i + 1) - 1 = i
        BY <1>5
      <3>. QED
        BY <1>1, <3>1
    <2>. QED
      BY <2>2, <2>3, <2>4
  <1>. HIDE DEF T
  <1>17. D \in T
    <2>1. \A i \in 0..D : i \in T
      BY <1>15, <1>16, UpTo
    <2>. QED
      BY <2>1
  <1>18. D + 1 = m
    BY <1>2
  <1>. QED
    BY <1>14, <1>17, <1>18 DEF T, V
-----------------------------------------------------------------------------
(* The value by the arithmetic of fq_zech                                  *)

\* Induction over the subsets of a finite set.
LEMMA SubsetInductionAll ==
    ASSUME NEW S, IsFiniteSet(S), NEW T, {} \in T,
           \A s \in SUBSET S : s # {} /\ (\A x \in s : s \ {x} \in T) => s \in T
    PROVE  \A s \in SUBSET S : s \in T
  <1>. DEFINE N == Cardinality(S)
              I == {n \in 0..N : \A s \in SUBSET S : Cardinality(s) = n => s \in T}
  <1>1. N \in Nat
    BY FS_CardinalityType
  <1>2. \A s \in SUBSET S : IsFiniteSet(s) /\ Cardinality(s) \in 0..N
    <2>. SUFFICES ASSUME NEW s \in SUBSET S
                  PROVE  IsFiniteSet(s) /\ Cardinality(s) \in 0..N
      OBVIOUS
    <2>1. IsFiniteSet(s) /\ Cardinality(s) <= N
      BY FS_Subset
    <2>. QED
      BY <2>1, <1>1, FS_CardinalityType
  <1>3. 0 \in I
    BY <1>1, <1>2, FS_EmptySet
  <1>4. ASSUME NEW n \in 1..N, n - 1 \in I
        PROVE  n \in I
    <2>. SUFFICES ASSUME NEW s \in SUBSET S, Cardinality(s) = n
                  PROVE  s \in T
      BY <1>1
    <2>1. s # {}
      BY FS_EmptySet
    <2>2. ASSUME NEW x \in s
          PROVE  s \ {x} \in T
      <3>1. Cardinality(s \ {x}) = n - 1
        BY <1>2, FS_RemoveElement
      <3>. QED
        BY <3>1, <1>4
    <2>. QED
      BY <2>1, <2>2
  <1>. HIDE DEF N, I
  <1>5. \A n \in 0..N : n \in I
    BY <1>1, <1>3, <1>4, UpTo
  <1>. QED
    BY <1>2, <1>5 DEF I

\* h folds with the function G over the elements that pick chooses.
Folds(h, S, V, a, G, pick) ==
    /\ h \in [SUBSET S -> V]
    /\ \A s \in SUBSET S : h[s] = IF s = {} THEN a ELSE G[pick[s]][h[s \ {pick[s]}]]

\* A fold has a solution, whatever elements are chosen.
LEMMA FoldSolves ==
    ASSUME NEW S, IsFiniteSet(S), NEW V, NEW a \in V, NEW G \in [S -> [V -> V]],
           NEW pick, \A s \in SUBSET S : s # {} => pick[s] \in s
    PROVE  \E h : Folds(h, S, V, a, G, pick)
  <1>. DEFINE N == Cardinality(S)
              Value(h, s) == IF s = {} THEN a ELSE G[pick[s]][h[s \ {pick[s]}]]
              Solves(h, n) == /\ h \in [SUBSET S -> V]
                              /\ \A s \in SUBSET S : Cardinality(s) <= n => h[s] = Value(h, s)
              I == {n \in 0..N : \E h : Solves(h, n)}
  <1>1. N \in Nat /\ \A s \in SUBSET S : IsFiniteSet(s) /\ Cardinality(s) \in 0..N
    <2>1. N \in Nat
      BY FS_CardinalityType
    <2>2. ASSUME NEW s \in SUBSET S
          PROVE  IsFiniteSet(s) /\ Cardinality(s) \in 0..N
      BY <2>1, FS_Subset, FS_CardinalityType
    <2>. QED
      BY <2>1, <2>2
  <1>2. 0 \in I
    <2>. DEFINE h == [s \in SUBSET S |-> a]
    <2>1. ASSUME NEW s \in SUBSET S, Cardinality(s) <= 0
          PROVE  h[s] = Value(h, s)
      <3>1. s = {}
        BY <1>1, <2>1, FS_EmptySet
      <3>. QED
        BY <3>1
    <2>2. Solves(h, 0)
      BY <2>1
    <2>3. 0 \in 0..N
      BY <1>1
    <2>. HIDE DEF Solves, h, N
    <2>. QED
      BY <2>2, <2>3
  <1>3. ASSUME NEW n \in 1..N, n - 1 \in I
        PROVE  n \in I
    <2>1. PICK g : Solves(g, n - 1)
      BY <1>3
    <2>. DEFINE h == [s \in SUBSET S |-> IF Cardinality(s) = n THEN Value(g, s) ELSE g[s]]
    <2>2. ASSUME NEW s \in SUBSET S, s # {}
          PROVE  /\ pick[s] \in S /\ s \ {pick[s]} \in SUBSET S
                 /\ Cardinality(s \ {pick[s]}) = Cardinality(s) - 1
      BY <1>1, <2>2, FS_RemoveElement
    <2>3. \A s \in SUBSET S : g[s] \in V
      BY <2>1
    <2>4. ASSUME NEW s \in SUBSET S
          PROVE  Value(g, s) \in V
      <3>1. CASE s = {}
        BY <3>1
      <3>2. CASE s # {}
        <4>1. pick[s] \in S /\ g[s \ {pick[s]}] \in V
          BY <3>2, <2>2, <2>3
        <4>. QED
          BY <4>1, <3>2
      <3>. QED
        BY <3>1, <3>2
    <2>5. h \in [SUBSET S -> V]
      BY <2>3, <2>4
    <2>6. ASSUME NEW s \in SUBSET S, Cardinality(s) <= n
          PROVE  h[s] = Value(h, s)
      <3>1. Cardinality(s) \in Int
        BY <1>1
      <3>2. CASE s = {}
        <4>1. Cardinality(s) = 0
          BY <3>2, FS_EmptySet
        <4>0. Cardinality(s) # n /\ Cardinality(s) <= n - 1
          BY <4>1, <1>1
        <4>2. h[s] = g[s] /\ g[s] = Value(g, s)
          BY <4>0, <2>1
        <4>3. Value(g, s) = a /\ Value(h, s) = a
          BY <3>2
        <4>. QED
          BY <4>2, <4>3, Zenon
      <3>3. CASE s # {}
        <4>. DEFINE t == s \ {pick[s]}
        <4>1. t \in SUBSET S /\ Cardinality(t) = Cardinality(s) - 1
          BY <3>3, <2>2
        <4>2. h[t] = g[t]
          BY <4>1, <3>1, <2>6
        <4>3. h[s] = Value(g, s)
          <5>1. CASE Cardinality(s) = n
            BY <5>1
          <5>2. CASE Cardinality(s) # n
            <6>1. Cardinality(s) <= n - 1
              BY <5>2, <2>6, <3>1
            <6>2. g[s] = Value(g, s)
              BY <6>1, <2>1
            <6>. QED
              BY <6>2, <5>2
          <5>. QED
            BY <5>1, <5>2
        <4>. QED
          BY <4>2, <4>3, <3>3
      <3>. QED
        BY <3>2, <3>3
    <2>. HIDE DEF h, Value
    <2>7. Solves(h, n)
      BY <2>5, <2>6
    <2>. HIDE DEF Solves, N
    <2>. QED
      BY <2>7
  <1>4. N \in I
    <2>. HIDE DEF I, N
    <2>1. \A n \in 0..N : n \in I
      BY <1>1, <1>2, <1>3, UpTo
    <2>. QED
      BY <2>1, <1>1
  <1>5. PICK h : Solves(h, N)
    BY <1>4
  <1>6. \A s \in SUBSET S : Cardinality(s) <= N
    BY <1>1
  <1>7. h \in [SUBSET S -> V] /\ \A s \in SUBSET S : h[s] = Value(h, s)
    BY <1>5, <1>6
  <1>. QED
    BY <1>7 DEF Folds

\* A set of numbers up to n has a largest one.
LEMMA MaxOfFinite ==
    ASSUME NEW n \in Nat
    PROVE  \A s \in SUBSET (1..n) : s # {} => Max(s) \in s
  <1>. DEFINE T == {m \in 0..n : \A s \in SUBSET (1..m) : s # {} => \E x \in s : \A y \in s : x >= y}
  <1>1. 0 \in T
    <2>1. \A s \in SUBSET (1..0) : s = {}
      OBVIOUS
    <2>2. \A s \in SUBSET (1..0) : s # {} => \E x \in s : \A y \in s : x >= y
      BY <2>1, Zenon
    <2>. QED
      BY <2>2
  <1>2. ASSUME NEW m \in 1..n, m - 1 \in T
        PROVE  m \in T
    <2>. SUFFICES ASSUME NEW s \in SUBSET (1..m), s # {}
                  PROVE  \E x \in s : \A y \in s : x >= y
      OBVIOUS
    <2>1. CASE m \in s
      BY <2>1
    <2>2. CASE m \notin s
      <3>1. s \in SUBSET (1..(m - 1))
        BY <2>2
      <3>. QED
        BY <3>1, <1>2
    <2>. QED
      BY <2>1, <2>2
  <1>. HIDE DEF T
  <1>3. \A m \in 0..n : m \in T
    BY <1>1, <1>2, UpTo
  <1>4. \A s \in SUBSET (1..n) : s # {} => \E x \in s : \A y \in s : x >= y
    BY <1>3 DEF T
  <1>. QED
    BY <1>4 DEF Max

\* It is j for the numbers from 1 to j.
LEMMA MaxOfFirst ==
    ASSUME NEW j \in Nat \ {0}
    PROVE  Max(1..j) = j /\ (1..j) \ {j} = 1..(j - 1)
  <1>. DEFINE M == CHOOSE x \in 1..j : \A y \in 1..j : x >= y
  <1>1. j \in 1..j /\ \A y \in 1..j : j >= y
    OBVIOUS
  <1>2. M \in 1..j /\ \A y \in 1..j : M >= y
    BY <1>1, Zenon
  <1>3. M = Max(1..j)
    BY Zenon DEF Max
  <1>. HIDE DEF M
  <1>4. M = j
    BY <1>1, <1>2
  <1>5. (1..j) \ {j} = 1..(j - 1)
    OBVIOUS
  <1>. QED
    BY <1>3, <1>4, <1>5

\* The sum of fq_zech is that of the elements, as logarithms go.
LEMMA ZechSumIs ==
    ASSUME NEW k \in 1..MaxExponent, NEW n, NEW h, Lists(k, n, h),
           NEW a \in 0..n, NEW b \in 0..n
    PROVE  ZechSum(k, a, b) \in 0..n /\ Log(k, ZechSum(k, a, b)) = Plus2(k, Log(k, a), Log(k, b))
  <1>0. /\ ZeroIndex(k) = n /\ Element(k) = 0..n
        /\ \A l \in 0..n : Log(k, l) \in 0..n
        /\ \A e \in 0..n : \E l \in 0..n : Log(k, l) = e
    BY ListsIs
  <1>1. Plus2(k, Log(k, a), Log(k, b)) \in 0..n
    BY <1>0, RingIs
  <1>2. \E c \in 0..n : Log(k, c) = Plus2(k, Log(k, a), Log(k, b))
    BY <1>0, <1>1
  <1>3. ZechSum(k, a, b) = CHOOSE c \in 0..n : Log(k, c) = Plus2(k, Log(k, a), Log(k, b))
    BY <1>0, Zenon DEF ZechSum, Log, Plus2
  <1>. QED
    BY <1>2, <1>3, Zenon

\* So is the product.
LEMMA ZechProductIs ==
    ASSUME NEW k \in 1..MaxExponent, NEW n, NEW h, Lists(k, n, h),
           NEW a \in 0..n, NEW b \in 0..n
    PROVE  ZechProduct(k, a, b) \in 0..n /\ Log(k, ZechProduct(k, a, b)) = Times(k, Log(k, a), Log(k, b))
  <1>0. /\ n \in Nat /\ n >= 2 /\ n \in Nat \ {0} /\ ZeroIndex(k) = n /\ PrimePowerPred(k) = n
        /\ Element(k) = 0..n /\ Log(k, n) = 0
        /\ \A l \in 0..n : Log(k, l) \in 0..n
    BY ListsIs
  <1>1. CASE a = n \/ b = n
    <2>1. ZechProduct(k, a, b) = n /\ n \in 0..n
      BY <1>0, <1>1 DEF ZechProduct
    <2>2. \A c \in Element(k) : Times(k, 0, c) = 0 /\ Times(k, c, 0) = 0
      BY RingIs, RightSides
    <2>3. Log(k, a) \in Element(k) /\ Log(k, b) \in Element(k)
      BY <1>0
    <2>4. Times(k, Log(k, a), Log(k, b)) = 0
      BY <1>0, <1>1, <2>2, <2>3
    <2>. QED
      BY <1>0, <2>1, <2>4
  <1>2. CASE a # n /\ b # n
    <2>1. a \in 0..(n - 1) /\ b \in 0..(n - 1)
      BY <1>0, <1>2
    <2>2. ZechProduct(k, a, b) = (a + b) % n
      BY <1>0, <1>2 DEF ZechProduct
    <2>3. /\ Times(k, Log(k, a), Log(k, b)) = Log(k, Wrap(n, a + b))
          /\ Wrap(n, a + b) \in 0..(n - 1) /\ (a + b) % n = Wrap(n, a + b)
      BY <2>1, LogProduct
    <2>4. PICK w \in 0..(n - 1) : w = Wrap(n, a + b)
      BY <2>3
    <2>5. w \in 0..n
      BY <1>0
    <2>. QED
      BY <2>2, <2>3, <2>4, <2>5
  <1>. QED
    BY <1>1, <1>2

\* xpw of CountNaiveZech.
ZechPower(k, x, i) ==
    IF i = 1 THEN 0
    ELSE IF x = ZeroIndex(k) THEN x ELSE (x * (i - 1)) % PrimePowerPred(k)

\* It gives the logarithms of the powers.
LEMMA ZechPowerIs ==
    ASSUME NEW k \in 1..MaxExponent, NEW n, NEW h, Lists(k, n, h), NEW m \in Nat,
           NEW x \in 0..n, NEW X, X = Log(k, x), NEW P, PowersUpTo(k, P, m, X), NEW i \in 1..m
    PROVE  ZechPower(k, x, i) \in 0..n /\ Log(k, ZechPower(k, x, i)) = P[i - 1]
  <1>0. /\ n \in Nat /\ n >= 2 /\ n \in Nat \ {0} /\ ZeroIndex(k) = n /\ PrimePowerPred(k) = n
        /\ Element(k) = 0..n /\ Log(k, n) = 0 /\ Log(k, 0) = 1
        /\ \A l \in 0..n : Log(k, l) \in 0..n
    BY ListsIs
  <1>1. P[0] = 1 /\ \A j \in 1..m : P[j] = Times(k, P[j - 1], X)
    BY DEF PowersUpTo
  <1>. DEFINE T == {j \in 0..(m - 1) :
                       \E w \in 0..n : w = ZechPower(k, x, j + 1) /\ P[j] = Log(k, w)}
  <1>2. 0 \in T
    <2>1. 0 = ZechPower(k, x, 0 + 1) /\ 0 \in 0..n /\ 0 \in 0..(m - 1)
      BY <1>0 DEF ZechPower
    <2>. QED
      BY <1>0, <1>1, <2>1
  <1>3. ASSUME NEW j \in 1..(m - 1), j - 1 \in T
        PROVE  j \in T
    <2>1. PICK v \in 0..n : v = ZechPower(k, x, j) /\ P[j - 1] = Log(k, v)
      <3>1. (j - 1) + 1 = j
        OBVIOUS
      <3>. QED
        BY <1>3, <3>1
    <2>2. P[j] = Times(k, Log(k, v), X)
      BY <1>1, <2>1
    <2>3. CASE x = n
      <3>1. ZechPower(k, x, j + 1) = n
        BY <1>0, <2>3 DEF ZechPower
      <3>2. X = 0 /\ Log(k, v) \in Element(k)
        BY <1>0, <2>3
      <3>3. P[j] = 0
        BY <2>2, <3>2, RightSides
      <3>4. n \in 0..n
        BY <1>0
      <3>. QED
        BY <1>0, <3>1, <3>3, <3>4
    <2>4. CASE x # n
      <3>1. x \in 0..(n - 1)
        BY <1>0, <2>4
      <3>2. v = (x * (j - 1)) % n
        <4>1. CASE j = 1
          <5>1. v = 0
            BY <2>1, <4>1 DEF ZechPower
          <5>2. x * (j - 1) = 0 /\ 0 = n * 0 + 0 /\ 0 \in 0..(n - 1)
            BY <1>0, <4>1
          <5>3. 0 % n = 0
            BY <1>0, <5>2, RemainderIs
          <5>. QED
            BY <5>1, <5>2, <5>3
        <4>2. CASE j # 1
          BY <1>0, <2>1, <2>4, <4>2 DEF ZechPower
        <4>. QED
          BY <4>1, <4>2
      <3>3. PICK b \in Nat : b = x * (j - 1)
        OBVIOUS
      <3>4. x * ((j + 1) - 1) = b + x
        BY <3>3
      <3>5. b % n \in 0..(n - 1) /\ (b + x) % n = Wrap(n, (b % n) + x)
        BY <1>0, <3>1, NextMultiple
      <3>6. v \in 0..(n - 1)
        BY <3>2, <3>3, <3>5
      <3>7. ZechPower(k, x, j + 1) = (x * ((j + 1) - 1)) % n
        <4>1. j + 1 # 1
          OBVIOUS
        <4>. QED
          BY <1>0, <2>4, <4>1 DEF ZechPower
      <3>8. ZechPower(k, x, j + 1) = Wrap(n, v + x)
        BY <3>2, <3>3, <3>4, <3>5, <3>7
      <3>9. Times(k, Log(k, v), Log(k, x)) = Log(k, Wrap(n, v + x)) /\ Wrap(n, v + x) \in 0..(n - 1)
        BY <3>1, <3>6, LogProduct
      <3>10. PICK w \in 0..(n - 1) : w = Wrap(n, v + x)
        BY <3>9
      <3>11. w \in 0..n
        BY <1>0
      <3>. QED
        BY <2>2, <3>8, <3>9, <3>10, <3>11
    <2>. QED
      BY <2>3, <2>4
  <1>4. m - 1 \in Nat
    OBVIOUS
  <1>. HIDE DEF T
  <1>5. \A j \in 0..(m - 1) : j \in T
    BY <1>2, <1>3, <1>4, UpTo
  <1>6. PICK j \in 0..(m - 1) : j = i - 1 /\ j + 1 = i
    OBVIOUS
  <1>. QED
    BY <1>5, <1>6 DEF T

\* The terms and the sum of CountNaiveZech.
ZechTerm(k, poly, x, i) == ZechProduct(k, poly[i], ZechPower(k, x, i))
ZechRhs(k, poly, x) ==
    FoldLeftDomain(LAMBDA sum, i : ZechSum(k, sum, ZechTerm(k, poly, x, i)), ZeroIndex(k), poly)

\* The fold as a function of sets of indices.
IsZechFold(k, poly, x, n, m, g) ==
    /\ g[{}] = n
    /\ \A s \in SUBSET (1..m) :
          s # {} => g[s] = ZechSum(k, g[s \ {Max(s)}], ZechTerm(k, poly, x, Max(s)))

FoldsTo(k, poly, x, n, m, sum) == \E g : IsZechFold(k, poly, x, n, m, g) /\ sum = g[1..m]

\* The fold of the first m terms is the sum of the first m terms.
LEMMA ZechFoldIs ==
    ASSUME NEW k \in 1..MaxExponent, NEW n, NEW h, Lists(k, n, h), NEW m \in Nat,
           NEW poly \in [1..m -> 0..n], NEW x \in 0..n,
           \A i \in 1..m : ZechPower(k, x, i) \in 0..n
    PROVE  FoldsTo(k, poly, x, n, m, ZechRhs(k, poly, x))
  <1>0. n \in Nat /\ ZeroIndex(k) = n /\ n \in 0..n
    <2>1. n \in Nat /\ ZeroIndex(k) = n
      BY ListsIs
    <2>. QED
      BY <2>1
  <1>. DEFINE S == 1..m
              V == 0..n
              t(i) == ZechTerm(k, poly, x, i)
              seq == [i \in DOMAIN poly |-> i]
              F(g) == [s \in SUBSET (DOMAIN seq) |->
                         IF s = {} THEN ZeroIndex(k) ELSE ZechSum(k, g[s \ {Max(s)}], t(seq[Max(s)]))]
              iter == CHOOSE g : g = F(g)
              G == [i \in S |-> [v \in V |-> ZechSum(k, v, t(i))]]
              pick == [s \in SUBSET S |-> Max(s)]
  <1>1. ZechRhs(k, poly, x) = iter[DOMAIN seq]
    BY DEF ZechRhs, FoldLeftDomain, FoldLeft, MapThenFoldSet
  <1>2. DOMAIN seq = S /\ \A i \in S : seq[i] = i
    OBVIOUS
  <1>3. IsFiniteSet(S) /\ \A s \in SUBSET S : s # {} => Max(s) \in s
    <2>1. IsFiniteSet(S)
      BY FS_Interval
    <2>2. \A s \in SUBSET S : s # {} => Max(s) \in s
      BY MaxOfFinite
    <2>. QED
      BY <2>1, <2>2
  <1>4. \A i \in S : t(i) \in V
    <2>. SUFFICES ASSUME NEW i \in S PROVE t(i) \in V
      OBVIOUS
    <2>1. PICK p \in 0..n : p = ZechPower(k, x, i)
      OBVIOUS
    <2>2. PICK e \in 0..n : e = poly[i]
      OBVIOUS
    <2>3. ZechProduct(k, e, p) \in 0..n
      BY ZechProductIs
    <2>. QED
      BY <2>1, <2>2, <2>3 DEF ZechTerm
  <1>. HIDE DEF t
  <1>5. \A i \in S, v \in V : ZechSum(k, v, t(i)) \in V
    BY <1>4, ZechSumIs
  <1>6. G \in [S -> [V -> V]]
    <2>. HIDE DEF S, V
    <2>. QED
      BY <1>5
  <1>7. PICK g : Folds(g, S, V, n, G, pick)
    <2>1. \A s \in SUBSET S : s # {} => pick[s] \in s
      BY <1>3
    <2>2. n \in V /\ IsFiniteSet(S)
      BY <1>0, <1>3
    <2>. HIDE DEF S, V, G, pick
    <2>. QED
      BY <1>6, <2>1, <2>2, FoldSolves
  <1>8. g \in [SUBSET S -> V] /\ g[{}] = n
    <2>1. \A s \in SUBSET S : g[s] = IF s = {} THEN n ELSE G[pick[s]][g[s \ {pick[s]}]]
      BY <1>7 DEF Folds
    <2>. HIDE DEF S, V, G, pick
    <2>2. {} \in SUBSET S
      OBVIOUS
    <2>. QED
      BY <1>7, <2>1, <2>2 DEF Folds
  <1>9. ASSUME NEW s \in SUBSET S, s # {}
        PROVE  g[s] = ZechSum(k, g[s \ {Max(s)}], t(Max(s)))
    <2>1. PICK j \in S : j = Max(s) /\ pick[s] = j
      BY <1>3, <1>9
    <2>2. g[s \ {j}] \in V
      BY <1>8
    <2>3. g[s] = G[pick[s]][g[s \ {pick[s]}]]
      BY <1>7, <1>9 DEF Folds
    <2>4. G[j][g[s \ {j}]] = ZechSum(k, g[s \ {j}], t(j))
      BY <2>2
    <2>. QED
      BY <2>1, <2>3, <2>4
  <1>10. g = [s \in SUBSET S |-> IF s = {} THEN n ELSE ZechSum(k, g[s \ {Max(s)}], t(Max(s)))]
    <2>1. g = [s \in SUBSET S |-> g[s]]
      BY <1>8
    <2>2. \A s \in SUBSET S : g[s] = IF s = {} THEN n ELSE ZechSum(k, g[s \ {Max(s)}], t(Max(s)))
      BY <1>8, <1>9
    <2>. HIDE DEF S
    <2>. QED
      BY <2>1, <2>2, Zenon
  <1>11. g = F(g)
    <2>1. \A s \in SUBSET S : s # {} => seq[Max(s)] = Max(s)
      BY <1>2, <1>3
    <2>. HIDE DEF S, seq
    <2>2. F(g) = [s \in SUBSET S |-> IF s = {} THEN n ELSE ZechSum(k, g[s \ {Max(s)}], t(Max(s)))]
      BY <1>0, <1>2, <2>1
    <2>. QED
      BY <1>10, <2>2
  <1>12. iter = F(iter)
    BY <1>11, Zenon
  <1>. HIDE DEF iter
  <1>13. IsZechFold(k, poly, x, n, m, iter)
    <2>1. \A s \in SUBSET S :
            iter[s] = IF s = {} THEN n ELSE ZechSum(k, iter[s \ {Max(s)}], t(seq[Max(s)]))
      <3>. HIDE DEF t, S, seq
      <3>. QED
        BY <1>0, <1>2, <1>12
    <2>2. \A s \in SUBSET S : s # {} => seq[Max(s)] = Max(s)
      BY <1>2, <1>3
    <2>3. {} \in SUBSET S
      OBVIOUS
    <2>4. \A s \in SUBSET S :
            s # {} => iter[s] = ZechSum(k, iter[s \ {Max(s)}], ZechTerm(k, poly, x, Max(s)))
      BY <2>1, <2>2, Zenon DEF t
    <2>5. iter[{}] = n
      BY <2>1, <2>3, Zenon
    <2>. QED
      BY <2>4, <2>5, Zenon DEF IsZechFold, S
  <1>. QED
    BY <1>1, <1>2, <1>13 DEF FoldsTo

\* Adding up with that arithmetic gives the logarithm of the value.
LEMMA ZechRhsIs ==
    ASSUME NEW k \in 1..MaxExponent, NEW n, NEW h, Lists(k, n, h), NEW m \in Nat,
           NEW f \in [1..m -> 0..n], NEW c, \A i \in 1..m : c[i] = Log(k, f[i]),
           NEW x \in 0..n, NEW X, X = Log(k, x),
           NEW P, NEW s, Evaluates(k, c, X, m, P, s)
    PROVE  ZechRhs(k, f, x) \in 0..n /\ Log(k, ZechRhs(k, f, x)) = s[m]
  <1>0. n \in Nat /\ Log(k, n) = 0 /\ n \in 0..n
    <2>1. n \in Nat /\ Log(k, n) = 0
      BY ListsIs
    <2>. QED
      BY <2>1
  <1>1. /\ P[0] = 1 /\ \A i \in 1..m : P[i] = Times(k, P[i - 1], X)
        /\ s[0] = 0
        /\ \A i \in 1..m : s[i] = Plus2(k, s[i - 1], Times(k, c[i], P[i - 1]))
    BY DEF Evaluates
  <1>2. \A i \in 1..m : ZechPower(k, x, i) \in 0..n /\ Log(k, ZechPower(k, x, i)) = P[i - 1]
    <2>1. PowersUpTo(k, P, m, X)
      BY <1>1 DEF PowersUpTo
    <2>. QED
      BY <2>1, ZechPowerIs
  <1>3. PICK g : IsZechFold(k, f, x, n, m, g) /\ ZechRhs(k, f, x) = g[1..m]
    <2>1. \A i \in 1..m : ZechPower(k, x, i) \in 0..n
      BY <1>2
    <2>2. FoldsTo(k, f, x, n, m, ZechRhs(k, f, x))
      BY <2>1, ZechFoldIs
    <2>. QED
      BY <2>2, Zenon DEF FoldsTo
  <1>4. \A i \in 1..m : ZechTerm(k, f, x, i) \in 0..n
                        /\ Log(k, ZechTerm(k, f, x, i)) = Times(k, c[i], P[i - 1])
    <2>. SUFFICES ASSUME NEW i \in 1..m
                  PROVE  ZechTerm(k, f, x, i) \in 0..n
                         /\ Log(k, ZechTerm(k, f, x, i)) = Times(k, c[i], P[i - 1])
      OBVIOUS
    <2>1. PICK p \in 0..n : p = ZechPower(k, x, i) /\ Log(k, p) = P[i - 1]
      BY <1>2
    <2>2. PICK e \in 0..n : e = f[i] /\ c[i] = Log(k, e)
      OBVIOUS
    <2>3. ZechProduct(k, e, p) \in 0..n /\ Log(k, ZechProduct(k, e, p)) = Times(k, Log(k, e), Log(k, p))
      BY ZechProductIs
    <2>. QED
      BY <2>1, <2>2, <2>3 DEF ZechTerm
  <1>. DEFINE T == {j \in 0..m : g[1..j] \in 0..n /\ Log(k, g[1..j]) = s[j]}
  <1>5. 0 \in T
    <2>1. 1..0 = {} /\ g[{}] = n
      BY <1>3 DEF IsZechFold
    <2>2. g[1..0] = n
      BY <2>1
    <2>. QED
      BY <1>0, <1>1, <2>2
  <1>6. ASSUME NEW j \in 1..m, j - 1 \in T
        PROVE  j \in T
    <2>1. Max(1..j) = j /\ (1..j) \ {j} = 1..(j - 1)
      BY MaxOfFirst
    <2>2. (1..j) \in SUBSET (1..m) /\ (1..j) # {}
      <3>1. j \in 1..j
        OBVIOUS
      <3>2. \A i \in 1..j : i \in 1..m
        OBVIOUS
      <3>. QED
        BY <3>1, <3>2, Zenon
    <2>3. g[1..j] = ZechSum(k, g[(1..j) \ {Max(1..j)}], ZechTerm(k, f, x, Max(1..j)))
      <3>1. \A q \in SUBSET (1..m) :
               q # {} => g[q] = ZechSum(k, g[q \ {Max(q)}], ZechTerm(k, f, x, Max(q)))
        BY <1>3, Zenon DEF IsZechFold
      <3>. QED
        BY <2>2, <3>1
    <2>4. g[1..j] = ZechSum(k, g[1..(j - 1)], ZechTerm(k, f, x, j))
      BY <2>1, <2>3, Zenon
    <2>5. PICK v \in 0..n : v = g[1..(j - 1)] /\ Log(k, v) = s[j - 1]
      BY <1>6
    <2>6. PICK t \in 0..n : t = ZechTerm(k, f, x, j) /\ Log(k, t) = Times(k, c[j], P[j - 1])
      BY <1>4
    <2>7. ZechSum(k, v, t) \in 0..n /\ Log(k, ZechSum(k, v, t)) = Plus2(k, Log(k, v), Log(k, t))
      BY ZechSumIs
    <2>8. s[j] = Plus2(k, s[j - 1], Times(k, c[j], P[j - 1]))
      BY <1>1
    <2>9. g[1..j] = ZechSum(k, v, t)
      BY <2>4, <2>5, <2>6, Zenon
    <2>10. g[1..j] \in 0..n /\ Log(k, g[1..j]) = s[j]
      BY <2>5, <2>6, <2>7, <2>8, <2>9, Zenon
    <2>. QED
      BY <2>10
  <1>. HIDE DEF T
  <1>7. m \in T
    <2>1. \A j \in 0..m : j \in T
      BY <1>5, <1>6, UpTo
    <2>. QED
      BY <2>1
  <1>. QED
    BY <1>3, <1>7 DEF T
-----------------------------------------------------------------------------
(* Adding up points                                                        *)

\* b maps S to T one to one.
OneToOne(b, S, T) ==
    /\ \A x \in S : b[x] \in T
    /\ \A x, y \in S : b[x] = b[y] => x = y
    /\ \A z \in T : \E x \in S : b[x] = z

\* Then the sets have as many elements.
LEMMA SameSize ==
    ASSUME NEW S, IsFiniteSet(S), NEW T, NEW b, OneToOne(b, S, T)
    PROVE  IsFiniteSet(T) /\ Cardinality(T) = Cardinality(S)
  <1>. DEFINE f == [x \in S |-> b[x]]
  <1>1. f \in Bijection(S, T)
    BY DEF OneToOne, Bijection, Injection, Surjection, IsInjective
  <1>2. ExistsBijection(S, T)
    BY <1>1 DEF ExistsBijection
  <1>. QED
    BY <1>2, FS_Bijection

\* Two points over each of u elements and one over each of r.
PointsOf(u, r) == [unramified |-> 2 * u, ramified |-> r]

\* points has two points for the elements of U and one for those of R.
CountedBy(points, D, U, R) ==
    /\ DOMAIN points = D /\ U \cap R = {}
    /\ \A x \in D : points[x] = IF x \in R THEN [unramified |-> 0, ramified |-> 1]
                                ELSE IF x \in U THEN [unramified |-> 2, ramified |-> 0]
                                ELSE NoPoints

\* One more element.
LEMMA PlusIs ==
    ASSUME NEW u \in Nat, NEW r \in Nat
    PROVE  /\ Plus([unramified |-> 2, ramified |-> 0], PointsOf(u, r)) = PointsOf(u + 1, r)
           /\ Plus([unramified |-> 0, ramified |-> 1], PointsOf(u, r)) = PointsOf(u, r + 1)
           /\ Plus(NoPoints, PointsOf(u, r)) = PointsOf(u, r)
           /\ PointsOf(0, 0) = NoPoints
  <1>1. 2 + 2 * u = 2 * (u + 1) /\ 0 + r = r /\ 1 + r = r + 1 /\ 0 + 2 * u = 2 * u /\ 2 * 0 = 0
    OBVIOUS
  <1>. QED
    BY <1>1 DEF Plus, PointsOf, NoPoints

\* What taking x out of s does to the number of elements in U.
Counts(s, x, U) ==
    /\ Cardinality(s \cap U) \in Nat /\ Cardinality((s \ {x}) \cap U) \in Nat
    /\ x \in U => Cardinality(s \cap U) = Cardinality((s \ {x}) \cap U) + 1
    /\ x \notin U => Cardinality(s \cap U) = Cardinality((s \ {x}) \cap U)

\* One element less.
LEMMA RemoveIs ==
    ASSUME NEW s, IsFiniteSet(s), NEW x \in s, NEW U
    PROVE  Counts(s, x, U)
  <1>. DEFINE t == s \cap U
              t1 == (s \ {x}) \cap U
  <1>1. IsFiniteSet(t) /\ IsFiniteSet(t1)
    BY FS_Intersection, FS_RemoveElement
  <1>2. Cardinality(t) \in Nat /\ Cardinality(t1) \in Nat
    BY <1>1, FS_CardinalityType
  <1>3. t1 = t \ {x} /\ (x \notin U => t1 = t)
    OBVIOUS
  <1>4. x \in U => Cardinality(t) = Cardinality(t1) + 1
    <2>. SUFFICES ASSUME x \in U PROVE Cardinality(t) = Cardinality(t1) + 1
      OBVIOUS
    <2>1. x \in t
      OBVIOUS
    <2>. HIDE DEF t, t1
    <2>2. Cardinality(t \ {x}) = Cardinality(t) - 1
      BY <1>1, <2>1, FS_RemoveElement
    <2>. QED
      BY <1>2, <1>3, <2>2
  <1>. QED
    BY <1>2, <1>3, <1>4 DEF Counts

\* The total is determined by the numbers of elements of the two sets.
LEMMA TotalIs ==
    ASSUME NEW D, IsFiniteSet(D), NEW points, NEW U, NEW R, CountedBy(points, D, U, R)
    PROVE  Total(points) = PointsOf(Cardinality(D \cap U), Cardinality(D \cap R))
  <1>. DEFINE pick(s) == CHOOSE x \in s : TRUE
              F(g) == [s \in SUBSET (DOMAIN points) |->
                         IF s = {} THEN NoPoints ELSE Plus(points[pick(s)], g[s \ {pick(s)}])]
              iter == CHOOSE g : g = F(g)
              value(s) == PointsOf(Cardinality(s \cap U), Cardinality(s \cap R))
              p == [s \in SUBSET D |-> value(s)]
  <1>1. Total(points) = iter[DOMAIN points]
    BY DEF Total, FoldFunction, FoldFunctionOnSet, MapThenFoldSet
  <1>2. /\ DOMAIN points = D /\ U \cap R = {}
        /\ \A x \in D : points[x] = IF x \in R THEN [unramified |-> 0, ramified |-> 1]
                                    ELSE IF x \in U THEN [unramified |-> 2, ramified |-> 0]
                                    ELSE NoPoints
    BY DEF CountedBy
  <1>3. \A s : s # {} => pick(s) \in s
    OBVIOUS
  <1>4. ASSUME NEW s \in SUBSET D, NEW x \in s
        PROVE  value(s) = Plus(points[x], value(s \ {x}))
    <2>1. IsFiniteSet(s)
      BY FS_Subset
    <2>1a. Counts(s, x, U) /\ Counts(s, x, R)
      BY <2>1, RemoveIs
    <2>2. PICK u \in Nat, r \in Nat :
             u = Cardinality((s \ {x}) \cap U) /\ r = Cardinality((s \ {x}) \cap R)
      BY <2>1a DEF Counts
    <2>3. /\ x \in U => Cardinality(s \cap U) = u + 1
          /\ x \notin U => Cardinality(s \cap U) = u
          /\ x \in R => Cardinality(s \cap R) = r + 1
          /\ x \notin R => Cardinality(s \cap R) = r
      BY <2>1a, <2>2 DEF Counts
    <2>4. value(s \ {x}) = PointsOf(u, r)
      BY <2>2
    <2>5. /\ Plus([unramified |-> 2, ramified |-> 0], PointsOf(u, r)) = PointsOf(u + 1, r)
          /\ Plus([unramified |-> 0, ramified |-> 1], PointsOf(u, r)) = PointsOf(u, r + 1)
          /\ Plus(NoPoints, PointsOf(u, r)) = PointsOf(u, r)
      BY PlusIs
    <2>6. CASE x \in R
      <3>1. x \notin U /\ points[x] = [unramified |-> 0, ramified |-> 1]
        BY <1>2, <2>6
      <3>2. value(s) = PointsOf(u, r + 1)
        BY <2>3, <2>6, <3>1, Zenon
      <3>. HIDE DEF value
      <3>. QED
        BY <2>4, <2>5, <3>1, <3>2, Zenon
    <2>7. CASE x \notin R /\ x \in U
      <3>1. points[x] = [unramified |-> 2, ramified |-> 0]
        BY <1>2, <2>7
      <3>2. value(s) = PointsOf(u + 1, r)
        BY <2>3, <2>7, Zenon
      <3>. HIDE DEF value
      <3>. QED
        BY <2>4, <2>5, <3>1, <3>2, Zenon
    <2>8. CASE x \notin R /\ x \notin U
      <3>1. points[x] = NoPoints
        BY <1>2, <2>8
      <3>2. value(s) = PointsOf(u, r)
        BY <2>3, <2>8, Zenon
      <3>. HIDE DEF value
      <3>. QED
        BY <2>4, <2>5, <3>1, <3>2, Zenon
    <2>. QED
      BY <2>6, <2>7, <2>8
  <1>5. value({}) = NoPoints
    <2>1. Cardinality({}) = 0 /\ {} \cap U = {} /\ {} \cap R = {}
      BY FS_EmptySet
    <2>. QED
      BY <2>1, PlusIs
  <1>. HIDE DEF value, pick
  <1>6. \A s \in SUBSET D : s \ {pick(s)} \in SUBSET D
    OBVIOUS
  <1>7. p = F(p)
    <2>1. \A s \in SUBSET D : p[s] = IF s = {} THEN NoPoints ELSE Plus(points[pick(s)], p[s \ {pick(s)}])
      <3>. SUFFICES ASSUME NEW s \in SUBSET D
                    PROVE  p[s] = IF s = {} THEN NoPoints ELSE Plus(points[pick(s)], p[s \ {pick(s)}])
        OBVIOUS
      <3>1. p[s] = value(s) /\ p[s \ {pick(s)}] = value(s \ {pick(s)})
        BY <1>6
      <3>2. CASE s = {}
        BY <1>5, <3>1, <3>2
      <3>3. CASE s # {}
        <4>1. pick(s) \in s
          BY <1>3, <3>3
        <4>2. value(s) = Plus(points[pick(s)], value(s \ {pick(s)}))
          BY <1>4, <4>1
        <4>. QED
          BY <3>1, <3>3, <4>2
      <3>. QED
        BY <3>2, <3>3
    <2>2. p = [s \in SUBSET D |-> p[s]]
      OBVIOUS
    <2>. HIDE DEF p
    <2>. QED
      BY <1>2, <2>1, <2>2, Zenon
  <1>8. iter = F(iter)
    BY <1>7, Zenon
  <1>. HIDE DEF iter
  <1>9. \A s \in SUBSET D : iter[s] = IF s = {} THEN NoPoints ELSE Plus(points[pick(s)], iter[s \ {pick(s)}])
    BY <1>2, <1>8
  <1>. DEFINE I == {s \in SUBSET D : iter[s] = value(s)}
  <1>10. {} \in I
    BY <1>5, <1>9
  <1>11. ASSUME NEW s \in SUBSET D, s # {}, \A x \in s : s \ {x} \in I
         PROVE  s \in I
    <2>1. pick(s) \in s
      BY <1>3, <1>11
    <2>2. iter[s] = Plus(points[pick(s)], iter[s \ {pick(s)}])
      BY <1>9, <1>11
    <2>3. iter[s \ {pick(s)}] = value(s \ {pick(s)})
      BY <1>11, <2>1
    <2>4. value(s) = Plus(points[pick(s)], value(s \ {pick(s)}))
      BY <1>4, <2>1
    <2>. QED
      BY <2>2, <2>3, <2>4
  <1>. HIDE DEF I
  <1>12. \A s \in SUBSET D : s \in I
    BY <1>10, <1>11, SubsetInductionAll
  <1>13. iter[D] = value(D)
    BY <1>12 DEF I
  <1>. QED
    BY <1>1, <1>2, <1>13 DEF value

\* The same numbers of points where the elements have other names.
Renames(points, D, b, over) ==
    DOMAIN points = D /\ \A x \in D : points[x] = over[b[x]]

\* That leaves the total.
LEMMA TotalRenamed ==
    ASSUME NEW D, IsFiniteSet(D), NEW E, NEW b, OneToOne(b, D, E),
           NEW over, NEW U, NEW R, CountedBy(over, E, U, R),
           NEW points, Renames(points, D, b, over)
    PROVE  Total(points) = PointsOf(Cardinality(E \cap U), Cardinality(E \cap R))
  <1>. DEFINE V == {x \in D : b[x] \in U}
              Q == {x \in D : b[x] \in R}
  <1>1. /\ \A x \in D : b[x] \in E
        /\ \A x, y \in D : b[x] = b[y] => x = y
        /\ \A z \in E : \E x \in D : b[x] = z
    BY DEF OneToOne
  <1>2. /\ DOMAIN over = E /\ U \cap R = {}
        /\ \A x \in E : over[x] = IF x \in R THEN [unramified |-> 0, ramified |-> 1]
                                  ELSE IF x \in U THEN [unramified |-> 2, ramified |-> 0]
                                  ELSE NoPoints
    BY DEF CountedBy
  <1>3. CountedBy(points, D, V, Q)
    <2>1. V \cap Q = {}
      BY <1>2
    <2>2. \A x \in D : points[x] = IF x \in Q THEN [unramified |-> 0, ramified |-> 1]
                                  ELSE IF x \in V THEN [unramified |-> 2, ramified |-> 0]
                                  ELSE NoPoints
      BY <1>1, <1>2 DEF Renames
    <2>3. DOMAIN points = D
      BY DEF Renames
    <2>. HIDE DEF V, Q
    <2>. QED
      BY <2>1, <2>2, <2>3, Zenon DEF CountedBy
  <1>4. OneToOne(b, D \cap V, E \cap U) /\ OneToOne(b, D \cap Q, E \cap R)
    BY <1>1 DEF OneToOne
  <1>5. IsFiniteSet(D \cap V) /\ IsFiniteSet(D \cap Q)
    BY FS_Intersection
  <1>. HIDE DEF V, Q
  <1>6. PICK dv, dq, eu, er : dv = D \cap V /\ dq = D \cap Q /\ eu = E \cap U /\ er = E \cap R
    OBVIOUS
  <1>7. Cardinality(eu) = Cardinality(dv) /\ Cardinality(er) = Cardinality(dq)
    BY <1>4, <1>5, <1>6, SameSize
  <1>8. Total(points) = PointsOf(Cardinality(D \cap V), Cardinality(D \cap Q))
    BY <1>3, TotalIs
  <1>. QED
    BY <1>6, <1>7, <1>8
-----------------------------------------------------------------------------
(* The right hand side in a larger field                                   *)

\* The polynomials of the naive methods, in a larger field: poly of CountNaiveNmod and
\* of CountNaiveZech.
NmodPoly(curve_, k) ==
    [i \in 1..Len(curve_) |->
        IF curve_[i] = ZeroIndex(PrimeExponent) THEN 0
        ELSE PowersOfGenerator[k][(PrimePowerPred(k) \div PrimePowerPred(PrimeExponent)) * curve_[i]]]
ZechPoly(curve_, k) ==
    [i \in 1..Len(curve_) |->
        IF curve_[i] = ZeroIndex(PrimeExponent) THEN ZeroIndex(k)
        ELSE ((PrimePowerPred(k) \div PrimePowerPred(PrimeExponent)) * curve_[i]) % PrimePowerPred(k)]

\* They have the same coefficients: f, by their logarithms.
SamePolynomials(f, m, n, k, nmod, zech) ==
    /\ f \in [1..m -> 0..n] /\ zech = f
    /\ nmod \in [1..m -> Element(k)] /\ \A i \in 1..m : nmod[i] = Log(k, f[i])

\* As they should, in every field.
LEMMA PolynomialsAre ==
    ASSUME NEW k \in 1..MaxExponent, NEW n, NEW h, Lists(k, n, h),
           NEW n1, NEW h1, Lists(PrimeExponent, n1, h1),
           NEW m \in Nat, NEW g \in [1..m -> 0..n1]
    PROVE  SamePolynomials(Converted(g, k), m, n, k, NmodPoly(g, k), ZechPoly(g, k))
  <1>0. /\ n \in Nat /\ n \in Nat \ {0} /\ ZeroIndex(k) = n /\ PrimePowerPred(k) = n
        /\ Element(k) = 0..n /\ Log(k, n) = 0
        /\ \A l \in 0..n : Log(k, l) \in 0..n
        /\ \A l \in 0..(n - 1) : Log(k, l) # 0 /\ Log(k, l) = PowersOfGenerator[k][l]
    BY ListsIs
  <1>1. /\ n1 \in Nat \ {0} /\ ZeroIndex(PrimeExponent) = n1 /\ PrimePowerPred(PrimeExponent) = n1
    BY ListsIs
  <1>2. Len(g) = m
    BY ONLY g \in [1..m -> 0..n1], m \in Nat
  <1>3. PICK q \in Nat, r \in 0..(n1 - 1) : q = n \div n1 /\ r = n % n1 /\ n = n1 * q + r
    BY <1>0, <1>1, Division
  <1>4. ASSUME NEW c \in 0..n1, c # n1
        PROVE  q * c \in 0..(n - 1) /\ (q * c) % n = q * c
    <2>1. c \in Nat /\ n1 \in Nat /\ c < n1
      BY <1>1, <1>4
    <2>2. q * c + q <= q * n1
      BY <2>1, Monotone
    <2>3. PICK a \in Nat, b \in Nat : a = q * c /\ b = q * n1 /\ n = b + r
      <3>1. q * c \in Nat /\ q * n1 \in Nat /\ n1 * q = q * n1
        BY <2>1
      <3>. QED
        BY <1>3, <3>1
    <2>4. a \in 0..(n - 1)
      <3>1. a + q <= b
        BY <2>2, <2>3, Zenon
      <3>2. n = b + r /\ n \in Nat \ {0}
        BY <1>0, <2>3
      <3>3. q = 0 => a = 0
        BY <2>1, <2>3
      <3>. QED
        BY ONLY <3>1, <3>2, <3>3, a \in Nat, b \in Nat, q \in Nat, r \in 0..(n1 - 1)
    <2>5. a \in 0..(2 * n - 1) /\ Wrap(n, a) = a
      BY <1>0, <2>4 DEF Wrap
    <2>6. a % n = a
      BY <1>0, <2>5, WrapIs
    <2>. QED
      BY <2>3, <2>4, <2>6
  <1>5. PICK f : f = Converted(g, k)
    OBVIOUS
  <1>6. f = [i \in 1..m |-> IF g[i] # n1 THEN q * g[i] ELSE n]
    BY <1>0, <1>1, <1>2, <1>3, <1>5 DEF Converted
  <1>7. \A i \in 1..m : f[i] = IF g[i] # n1 THEN q * g[i] ELSE n
    BY <1>6
  <1>8. f \in [1..m -> 0..n]
    <2>1. \A i \in 1..m : f[i] \in 0..n
      <3>. SUFFICES ASSUME NEW i \in 1..m PROVE f[i] \in 0..n
        OBVIOUS
      <3>1. CASE g[i] # n1
        <4>1. PICK c \in 0..n1 : c = g[i]
          OBVIOUS
        <4>2. q * c \in 0..(n - 1)
          BY <1>4, <3>1, <4>1
        <4>3. f[i] = q * c
          BY <1>7, <3>1, <4>1
        <4>. QED
          BY <1>0, <4>2, <4>3
      <3>2. CASE g[i] = n1
        BY <1>0, <1>7, <3>2
      <3>. QED
        BY <3>1, <3>2
    <2>2. f = [i \in 1..m |-> f[i]]
      BY <1>6
    <2>. QED
      BY <2>1, <2>2
  <1>9. ZechPoly(g, k) = f
    <2>1. ZechPoly(g, k) = [i \in 1..m |-> IF g[i] = n1 THEN n ELSE (q * g[i]) % n]
      BY <1>0, <1>1, <1>2, <1>3 DEF ZechPoly
    <2>2. \A i \in 1..m : (IF g[i] = n1 THEN n ELSE (q * g[i]) % n) = f[i]
      <3>. SUFFICES ASSUME NEW i \in 1..m PROVE (IF g[i] = n1 THEN n ELSE (q * g[i]) % n) = f[i]
        OBVIOUS
      <3>1. PICK c \in 0..n1 : c = g[i]
        OBVIOUS
      <3>2. c # n1 => (q * c) % n = q * c
        BY <1>4
      <3>. QED
        BY <1>7, <3>1, <3>2
    <2>3. f = [i \in 1..m |-> f[i]]
      BY <1>6
    <2>. QED
      BY <2>1, <2>2, <2>3
  <1>10. PICK p : p = NmodPoly(g, k)
    OBVIOUS
  <1>11. p = [i \in 1..m |-> IF g[i] = n1 THEN 0 ELSE PowersOfGenerator[k][q * g[i]]]
    BY <1>0, <1>1, <1>2, <1>3, <1>10 DEF NmodPoly
  <1>12. ASSUME NEW i \in 1..m
         PROVE  p[i] = Log(k, f[i]) /\ p[i] \in Element(k)
    <2>1. PICK c \in 0..n1 : c = g[i]
      OBVIOUS
    <2>2. p[i] = IF c = n1 THEN 0 ELSE PowersOfGenerator[k][q * c]
      BY <1>11, <2>1
    <2>3. f[i] = IF c # n1 THEN q * c ELSE n
      BY <1>7, <2>1
    <2>4. c # n1 => PowersOfGenerator[k][q * c] = Log(k, q * c)
      BY <1>0, <1>4
    <2>5. p[i] = Log(k, f[i])
      BY <1>0, <2>2, <2>3, <2>4
    <2>6. f[i] \in 0..n
      BY <1>8
    <2>. QED
      BY <1>0, <2>5, <2>6
  <1>13. p \in [1..m -> Element(k)]
    <2>1. p = [i \in 1..m |-> p[i]]
      BY <1>11
    <2>. QED
      BY <1>12, <2>1
  <1>. QED
    BY <1>5, <1>8, <1>9, <1>10, <1>12, <1>13 DEF SamePolynomials

\* val has the values at all x, both by their logarithms, and each method finds them.
Values(k, n, m, f, c, val) ==
    /\ val \in [0..n -> 0..n]
    /\ \A x \in 0..n : /\ Log(k, val[x]) = ValueAt(k, c, Log(k, x))
                       /\ RhsLogarithm(k, f, x) = val[Wrap(n, x)]
                       /\ ZechRhs(k, f, x) = val[x]
    /\ val[n] = f[1]

\* There are such values: all methods find the same ones.
LEMMA ValuesAre ==
    ASSUME NEW k \in 1..MaxExponent, NEW n, NEW h, Lists(k, n, h), NEW m \in Nat \ {0},
           NEW f \in [1..m -> 0..n], NEW c \in [1..m -> Element(k)],
           \A i \in 1..m : c[i] = Log(k, f[i])
    PROVE  \E val : Values(k, n, m, f, c, val)
  <1>0. /\ n \in Nat /\ n >= 2 /\ n \in Nat \ {0}
        /\ Element(k) = 0..n /\ Log(k, n) = 0
        /\ \A l \in 0..n : Log(k, l) \in 0..n
        /\ \A l, j \in 0..n : Log(k, l) = Log(k, j) => l = j
        /\ \A e \in 0..n : \E l \in 0..n : Log(k, l) = e
    BY ListsIs
  <1>. DEFINE val == [x \in 0..n |-> CHOOSE y \in 0..n : Log(k, y) = ValueAt(k, c, Log(k, x))]
  <1>1. m \in Nat
    OBVIOUS
  <1>2. ASSUME NEW x \in 0..n
        PROVE  \E P, s : Evaluates(k, c, Log(k, x), m, P, s)
    <2>1. Log(k, x) \in Element(k)
      BY <1>0
    <2>. QED
      BY <1>1, <2>1, CanEvaluate
  <1>3. ASSUME NEW x \in 0..n, NEW P, NEW s, Evaluates(k, c, Log(k, x), m, P, s)
        PROVE  s[m] \in Element(k) /\ ValueAt(k, c, Log(k, x)) = s[m]
    <2>1. Log(k, x) \in Element(k)
      BY <1>0
    <2>2. ValueAt(k, c, Log(k, x)) = s[m]
      BY <1>1, <1>3, <2>1, ValueIs
    <2>3. s \in [0..m -> Element(k)]
      BY <1>3 DEF Evaluates
    <2>. QED
      BY <2>2, <2>3
  <1>4. \A x \in 0..n : val[x] \in 0..n /\ Log(k, val[x]) = ValueAt(k, c, Log(k, x))
    <2>. SUFFICES ASSUME NEW x \in 0..n
                  PROVE  val[x] \in 0..n /\ Log(k, val[x]) = ValueAt(k, c, Log(k, x))
      OBVIOUS
    <2>1. PICK P, s : Evaluates(k, c, Log(k, x), m, P, s)
      BY <1>2
    <2>2. ValueAt(k, c, Log(k, x)) \in 0..n
      <3>1. s[m] \in Element(k) /\ ValueAt(k, c, Log(k, x)) = s[m]
        BY <1>3, <2>1
      <3>. QED
        BY <1>0, <3>1, Zenon
    <2>3. \E y \in 0..n : Log(k, y) = ValueAt(k, c, Log(k, x))
      BY <1>0, <2>2
    <2>4. val[x] = CHOOSE y \in 0..n : Log(k, y) = ValueAt(k, c, Log(k, x))
      OBVIOUS
    <2>. HIDE DEF val
    <2>. QED
      BY <2>3, <2>4, Zenon
  <1>5. val \in [0..n -> 0..n]
    BY <1>4
  <1>. HIDE DEF val
  <1>6. \A x \in 0..n : RhsLogarithm(k, f, x) = val[Wrap(n, x)]
    <2>. SUFFICES ASSUME NEW x \in 0..n PROVE RhsLogarithm(k, f, x) = val[Wrap(n, x)]
      OBVIOUS
    <2>1. PICK w \in 0..n : w = Wrap(n, x)
      <3>1. Wrap(n, x) \in 0..n
        BY <1>0 DEF Wrap
      <3>. QED
        BY <3>1
    <2>2. PICK X : X = Log(k, w)
      OBVIOUS
    <2>3. PICK P, s : Evaluates(k, c, X, m, P, s)
      BY <1>2, <2>2
    <2>4. X = Log(k, Wrap(n, x))
      BY <2>1, <2>2
    <2>5. RhsLogarithm(k, f, x) \in 0..n /\ Log(k, RhsLogarithm(k, f, x)) = s[m]
      BY <2>3, <2>4, RhsLogarithmIs
    <2>6. val[w] \in 0..n /\ Log(k, val[w]) = s[m]
      BY <1>3, <1>4, <2>2, <2>3
    <2>7. PICK u \in 0..n, v \in 0..n : u = RhsLogarithm(k, f, x) /\ v = val[w]
      BY <2>5, <2>6
    <2>8. Log(k, u) = Log(k, v)
      BY <2>5, <2>6, <2>7
    <2>. QED
      BY <1>0, <2>1, <2>7, <2>8
  <1>7. \A x \in 0..n : ZechRhs(k, f, x) = val[x]
    <2>. SUFFICES ASSUME NEW x \in 0..n PROVE ZechRhs(k, f, x) = val[x]
      OBVIOUS
    <2>2. PICK X : X = Log(k, x)
      OBVIOUS
    <2>3. PICK P, s : Evaluates(k, c, X, m, P, s)
      BY <1>2, <2>2
    <2>5. ZechRhs(k, f, x) \in 0..n /\ Log(k, ZechRhs(k, f, x)) = s[m]
      BY <1>1, <2>2, <2>3, ZechRhsIs
    <2>6. val[x] \in 0..n /\ Log(k, val[x]) = s[m]
      BY <1>3, <1>4, <2>2, <2>3
    <2>7. PICK u \in 0..n, v \in 0..n : u = ZechRhs(k, f, x) /\ v = val[x]
      BY <2>5, <2>6
    <2>8. Log(k, u) = Log(k, v)
      BY <2>5, <2>6, <2>7
    <2>. QED
      BY <1>0, <2>7, <2>8
  <1>8. val[n] = f[1]
    <2>0. n \in 0..n /\ Log(k, n) = 0
      BY <1>0
    <2>1. PICK P, s : Evaluates(k, c, 0, m, P, s)
      BY <1>2, <2>0
    <2>2. /\ P \in [0..m -> Element(k)] /\ P[0] = 1
          /\ \A i \in 1..m : P[i] = Times(k, P[i - 1], 0)
          /\ s \in [0..m -> Element(k)] /\ s[0] = 0
          /\ \A i \in 1..m : s[i] = Plus2(k, s[i - 1], Times(k, c[i], P[i - 1]))
      BY <2>1 DEF Evaluates
    <2>3. \A a \in Element(k) : Plus2(k, a, 0) = a /\ Times(k, a, 0) = 0 /\ Times(k, a, 1) = a
      BY RightSides
    <2>4. \A a \in Element(k) : Plus2(k, 0, a) = a
      BY RingIs
    <2>. DEFINE T == {i \in 0..(m - 1) : s[i + 1] = c[1]}
    <2>5. 0 \in T
      <3>1. 1 \in 1..m /\ 1 - 1 = 0 /\ 0 + 1 = 1 /\ 0 \in 0..(m - 1)
        OBVIOUS
      <3>2. c[1] \in Element(k)
        BY <3>1
      <3>3. s[1] = Plus2(k, s[0], Times(k, c[1], P[0]))
        BY <2>2, <3>1
      <3>. QED
        BY <2>2, <2>3, <2>4, <3>1, <3>2, <3>3
    <2>6. ASSUME NEW i \in 1..(m - 1), i - 1 \in T
          PROVE  i \in T
      <3>1. (i - 1) + 1 = i /\ i + 1 \in 1..m /\ (i + 1) - 1 = i /\ i \in 1..m /\ i - 1 \in 0..m /\ i \in 0..(m - 1)
        OBVIOUS
      <3>2. s[i] = c[1]
        BY <2>6, <3>1
      <3>3. P[i] = 0
        BY <2>2, <2>3, <3>1
      <3>4. s[i + 1] = Plus2(k, s[i], Times(k, c[i + 1], 0))
        BY <2>2, <3>1, <3>3
      <3>5. c[i + 1] \in Element(k) /\ s[i] \in Element(k)
        BY <2>2, <3>1
      <3>. QED
        BY <2>3, <3>1, <3>2, <3>4, <3>5
    <2>7. m - 1 \in Nat
      OBVIOUS
    <2>. HIDE DEF T
    <2>8. \A i \in 0..(m - 1) : i \in T
      BY <2>5, <2>6, <2>7, UpTo
    <2>9. s[m] = c[1]
      <3>1. m - 1 \in 0..(m - 1) /\ (m - 1) + 1 = m
        OBVIOUS
      <3>. QED
        BY <2>8, <3>1 DEF T
    <2>10. Log(k, val[n]) = c[1] /\ val[n] \in 0..n
      <3>1. Evaluates(k, c, Log(k, n), m, P, s)
        BY <2>0, <2>1
      <3>2. ValueAt(k, c, Log(k, n)) = s[m]
        BY <1>3, <2>0, <3>1
      <3>. QED
        BY <1>4, <2>0, <2>9, <3>2
    <2>11. c[1] = Log(k, f[1]) /\ f[1] \in 0..n
      <3>1. 1 \in 1..m
        OBVIOUS
      <3>. QED
        BY <3>1
    <2>12. PICK u \in 0..n, v \in 0..n : u = val[n] /\ v = f[1]
      BY <2>10, <2>11
    <2>13. Log(k, u) = Log(k, v)
      BY <2>10, <2>11, <2>12
    <2>. QED
      BY <1>0, <2>12, <2>13
  <1>9. Values(k, n, m, f, c, val)
    BY <1>4, <1>5, <1>6, <1>7, <1>8, Zenon DEF Values
  <1>. QED
    BY <1>9
-----------------------------------------------------------------------------
(* The numbers of points by each method                                    *)

\* over of CountNaiveNmod and of CountNaiveZech.
NmodOver(k, a) ==
    IF a = 0 THEN [unramified |-> 0, ramified |-> 1]
    ELSE IF Powers(k, a, PrimePowerPred(k) \div 2)[PrimePowerPred(k) \div 2] = 1
         THEN [unramified |-> 2, ramified |-> 0]
    ELSE NoPoints
ZechOver(k, a) ==
    IF a = ZeroIndex(k) THEN [unramified |-> 0, ramified |-> 1]
    ELSE IF (a * (PrimePowerPred(k) \div 2)) % PrimePowerPred(k) = 0
         THEN [unramified |-> 2, ramified |-> 0]
    ELSE NoPoints

\* Both find as many points over an element as PointsOver.
LEMMA OversAre ==
    ASSUME NEW k \in 1..MaxExponent, NEW n, NEW h, Lists(k, n, h), NEW l \in 0..n
    PROVE  /\ NmodOver(k, Log(k, l)) = PointsOver(k, l)
           /\ ZechOver(k, l) = PointsOver(k, l)
  <1>0. /\ n \in Nat /\ n >= 2 /\ ZeroIndex(k) = n /\ PrimePowerPred(k) = n
        /\ h \in Nat \ {0} /\ n = 2 * h /\ Log(k, n) = 0
        /\ \A i \in 0..(n - 1) : Log(k, i) # 0
    BY ListsIs
  <1>1. PrimePowerPred(k) \div 2 = h
    <2>1. n \div 2 = h
      BY <1>0
    <2>. QED
      BY <1>0, <2>1
  <1>2. CASE l = n
    <2>1. NmodOver(k, Log(k, l)) = [unramified |-> 0, ramified |-> 1]
      BY <1>0, <1>2, Zenon DEF NmodOver
    <2>2. ZechOver(k, l) = [unramified |-> 0, ramified |-> 1]
      BY <1>0, <1>2, Zenon DEF ZechOver
    <2>3. PointsOver(k, l) = [unramified |-> 0, ramified |-> 1]
      BY <1>0, <1>2, Zenon DEF PointsOver
    <2>. QED
      BY <2>1, <2>2, <2>3
  <1>3. CASE l # n
    <2>1. l \in 0..(n - 1) /\ Log(k, l) # 0
      BY <1>0, <1>3
    <2>2. Powers(k, Log(k, l), h)[h] = 1 <=> l % 2 = 0
      BY <2>1, PowersOfLog
    <2>3. (l * h) % n = 0 <=> l % 2 = 0
      <3>1. PICK j \in 0..(n - 1) : j = l
        BY <2>1
      <3>2. (j * h) % n = 0 <=> j % 2 = 0
        <4>1. n = 2 * h /\ h \in Nat \ {0}
          BY <1>0
        <4>. QED
          BY ONLY <4>1, j \in 0..(n - 1), HalfPower
      <3>. QED
        BY <3>1, <3>2
    <2>4. NmodOver(k, Log(k, l)) = IF l % 2 = 0 THEN [unramified |-> 2, ramified |-> 0] ELSE NoPoints
      BY <1>1, <2>1, <2>2, Zenon DEF NmodOver
    <2>5. ZechOver(k, l) = IF l % 2 = 0 THEN [unramified |-> 2, ramified |-> 0] ELSE NoPoints
      BY <1>0, <1>1, <1>3, <2>3, Zenon DEF ZechOver
    <2>6. PointsOver(k, l) = IF l % 2 = 0 THEN [unramified |-> 2, ramified |-> 0] ELSE NoPoints
      BY <1>0, <1>3, Zenon DEF PointsOver
    <2>. QED
      BY <2>4, <2>5, <2>6
  <1>. QED
    BY <1>2, <1>3

\* The x over which there are two points, and those over which there is one.
Unramified(n, val) == {x \in 0..n : val[x] # n /\ val[x] % 2 = 0}
Ramified(n, val) == {x \in 0..n : val[x] = n}

\* PointsOver puts the points there.
LEMMA OverIs ==
    ASSUME NEW k \in 1..MaxExponent, NEW n, ZeroIndex(k) = n, NEW val,
           NEW D \in SUBSET (0..n), NEW points, DOMAIN points = D,
           \A x \in D : points[x] = PointsOver(k, val[x])
    PROVE  CountedBy(points, D, Unramified(n, val), Ramified(n, val))
  <1>1. Unramified(n, val) \cap Ramified(n, val) = {}
    BY DEF Unramified, Ramified
  <1>2. \A x \in D : points[x] = IF x \in Ramified(n, val) THEN [unramified |-> 0, ramified |-> 1]
                                 ELSE IF x \in Unramified(n, val) THEN [unramified |-> 2, ramified |-> 0]
                                 ELSE NoPoints
    <2>. SUFFICES ASSUME NEW x \in D
                  PROVE  points[x] = IF x \in Ramified(n, val) THEN [unramified |-> 0, ramified |-> 1]
                                     ELSE IF x \in Unramified(n, val) THEN [unramified |-> 2, ramified |-> 0]
                                     ELSE NoPoints
      OBVIOUS
    <2>1. x \in Ramified(n, val) <=> val[x] = n
      BY DEF Ramified
    <2>2. x \in Unramified(n, val) <=> val[x] # n /\ val[x] % 2 = 0
      BY DEF Unramified
    <2>. QED
      BY <2>1, <2>2, Zenon DEF PointsOver
  <1>. QED
    BY <1>1, <1>2, Zenon DEF CountedBy

\* What a count should be: the points over these x, and those over infinity.
CountIs(g, k, n, val, points) ==
    points = Plus(PointsOf(Cardinality(Unramified(n, val)), Cardinality(Ramified(n, val))),
                  PointsOverInfinity(g, k, Converted(g, k)[Len(g)]))

\* CountNaiveZech is right.
LEMMA ZechCounts ==
    ASSUME NEW k \in 1..MaxExponent, NEW n, NEW h, Lists(k, n, h), NEW m \in Nat \ {0},
           NEW g, Len(g) = m,
           SamePolynomials(Converted(g, k), m, n, k, NmodPoly(g, k), ZechPoly(g, k)),
           NEW val, Values(k, n, m, Converted(g, k), NmodPoly(g, k), val)
    PROVE  CountIs(g, k, n, val, CountNaiveZech(g, k))
  <1>0. n \in Nat /\ ZeroIndex(k) = n /\ n \in 0..n
    <2>1. n \in Nat /\ ZeroIndex(k) = n
      BY ListsIs
    <2>. QED
      BY <2>1
  <1>. DEFINE poly == ZechPoly(g, k)
              points == [x \in 0..n |-> ZechOver(k, ZechRhs(k, poly, x))]
  <1>1. poly = Converted(g, k) /\ poly \in [1..m -> 0..n]
    BY DEF SamePolynomials
  <1>2. \A x \in 0..n : val[x] \in 0..n /\ ZechRhs(k, poly, x) = val[x]
    BY <1>1 DEF Values
  <1>3. CountedBy(points, 0..n, Unramified(n, val), Ramified(n, val))
    <2>1. \A x \in 0..n : points[x] = PointsOver(k, val[x])
      <3>. SUFFICES ASSUME NEW x \in 0..n PROVE points[x] = PointsOver(k, val[x])
        OBVIOUS
      <3>1. PICK v \in 0..n : v = val[x]
        BY <1>2
      <3>2. ZechOver(k, v) = PointsOver(k, v)
        BY OversAre
      <3>3. points[x] = ZechOver(k, ZechRhs(k, poly, x))
        OBVIOUS
      <3>. QED
        BY <1>2, <3>1, <3>2, <3>3, Zenon
    <2>2. DOMAIN points = 0..n
      OBVIOUS
    <2>3. PICK D \in SUBSET (0..n) : D = 0..n
      OBVIOUS
    <2>. HIDE DEF points
    <2>4. CountedBy(points, D, Unramified(n, val), Ramified(n, val))
      BY <1>0, <2>1, <2>2, <2>3, OverIs
    <2>. QED
      BY <2>3, <2>4
  <1>. HIDE DEF points
  <1>4. Total(points) = PointsOf(Cardinality((0..n) \cap Unramified(n, val)),
                                 Cardinality((0..n) \cap Ramified(n, val)))
    <2>1. IsFiniteSet(0..n)
      BY <1>0, FS_Interval
    <2>2. PICK D : D = 0..n
      OBVIOUS
    <2>4. CountedBy(points, D, Unramified(n, val), Ramified(n, val)) /\ IsFiniteSet(D)
      BY <1>3, <2>1, <2>2, Zenon
    <2>3. Total(points) = PointsOf(Cardinality(D \cap Unramified(n, val)), Cardinality(D \cap Ramified(n, val)))
      BY <2>4, TotalIs
    <2>. QED
      BY <2>2, <2>3
  <1>5. (0..n) \cap Unramified(n, val) = Unramified(n, val) /\ (0..n) \cap Ramified(n, val) = Ramified(n, val)
    BY DEF Unramified, Ramified
  <1>. HIDE DEF poly
  <1>6. CountNaiveZech(g, k)
          = Plus(Total([x \in 0..ZeroIndex(k) |-> ZechOver(k, ZechRhs(k, poly, x))]),
                 IF Degree(g) < 2 * Genus(g) + 2 THEN ZechOver(k, ZeroIndex(k)) ELSE ZechOver(k, poly[Len(poly)]))
    BY Zenon DEF CountNaiveZech, ZechRhs, ZechTerm, ZechPower, ZechPoly, ZechOver, poly
  <1>7. CountNaiveZech(g, k)
          = Plus(Total(points),
                 IF Degree(g) < 2 * Genus(g) + 2 THEN ZechOver(k, n) ELSE ZechOver(k, poly[m]))
    <2>1. Len(poly) = m
      BY ONLY <1>1, m \in Nat \ {0}
    <2>. QED
      BY <1>0, <1>6, <2>1, Zenon DEF points
  <1>8. (IF Degree(g) < 2 * Genus(g) + 2 THEN ZechOver(k, n) ELSE ZechOver(k, poly[m]))
          = PointsOverInfinity(g, k, Converted(g, k)[Len(g)])
    <2>1. PICK l \in 0..n : l = poly[m]
      <3>1. m \in 1..m
        OBVIOUS
      <3>. QED
        BY <1>1, <3>1
    <2>2. ZechOver(k, l) = PointsOver(k, l)
      BY OversAre
    <2>3. ZechOver(k, n) = [unramified |-> 0, ramified |-> 1]
      BY <1>0, Zenon DEF ZechOver
    <2>. QED
      BY <1>1, <2>1, <2>2, <2>3, Zenon DEF PointsOverInfinity
  <1>. QED
    BY <1>4, <1>5, <1>7, <1>8, Zenon DEF CountIs

\* The points over zero may be added last.
LEMMA PlusMoves ==
    ASSUME NEW A, NEW B, NEW C,
           A \in [unramified : Nat, ramified : Nat],
           B \in [unramified : Nat, ramified : Nat],
           C \in [unramified : Nat, ramified : Nat]
    PROVE  Plus(A, Plus(B, C)) = Plus(Plus(B, A), C)
  <1>1. PICK a \in Nat, b \in Nat, c \in Nat : a = A.unramified /\ b = B.unramified /\ c = C.unramified
    OBVIOUS
  <1>2. PICK d \in Nat, e \in Nat, f \in Nat : d = A.ramified /\ e = B.ramified /\ f = C.ramified
    OBVIOUS
  <1>3. Plus(B, C) = [unramified |-> b + c, ramified |-> e + f]
    BY <1>1, <1>2 DEF Plus
  <1>4. Plus(B, A) = [unramified |-> b + a, ramified |-> e + d]
    BY <1>1, <1>2 DEF Plus
  <1>5. Plus(A, Plus(B, C)) = [unramified |-> a + (b + c), ramified |-> d + (e + f)]
    BY <1>1, <1>2, <1>3 DEF Plus
  <1>6. Plus(Plus(B, A), C) = [unramified |-> (b + a) + c, ramified |-> (e + d) + f]
    BY <1>1, <1>2, <1>4 DEF Plus
  <1>7. a + (b + c) = (b + a) + c /\ d + (e + f) = (e + d) + f
    OBVIOUS
  <1>. QED
    BY <1>5, <1>6, <1>7

\* Numbers of points are pairs of numbers.
LEMMA PointsAreNumbers ==
    ASSUME NEW k, NEW l
    PROVE  /\ PointsOver(k, l) \in [unramified : Nat, ramified : Nat]
           /\ \A g : PointsOverInfinity(g, k, l) \in [unramified : Nat, ramified : Nat]
           /\ \A u, r \in Nat : PointsOf(u, r) \in [unramified : Nat, ramified : Nat]
  <1>1. /\ [unramified |-> 0, ramified |-> 1] \in [unramified : Nat, ramified : Nat]
        /\ [unramified |-> 2, ramified |-> 0] \in [unramified : Nat, ramified : Nat]
        /\ NoPoints \in [unramified : Nat, ramified : Nat]
    BY DEF NoPoints
  <1>2. PointsOver(k, l) \in [unramified : Nat, ramified : Nat]
    BY <1>1, Zenon DEF PointsOver
  <1>3. \A g : PointsOverInfinity(g, k, l) \in [unramified : Nat, ramified : Nat]
    BY <1>1, <1>2, Zenon DEF PointsOverInfinity
  <1>4. \A u, r \in Nat : PointsOf(u, r) \in [unramified : Nat, ramified : Nat]
    BY DEF PointsOf
  <1>. QED
    BY <1>2, <1>3, <1>4

\* The points over all x but zero, and then those over zero.
LEMMA ZeroIsLast ==
    ASSUME NEW k \in 1..MaxExponent, NEW n \in Nat \ {0}, ZeroIndex(k) = n,
           NEW val \in [0..n -> 0..n], NEW g, NEW l, NEW affine,
           affine = PointsOf(Cardinality((0..(n - 1)) \cap Unramified(n, val)),
                             Cardinality((0..(n - 1)) \cap Ramified(n, val)))
    PROVE  Plus(affine, Plus(PointsOver(k, val[n]), PointsOverInfinity(g, k, l)))
             = Plus(PointsOf(Cardinality(Unramified(n, val)), Cardinality(Ramified(n, val))),
                    PointsOverInfinity(g, k, l))
  <1>. DEFINE S == 0..n
              U == Unramified(n, val)
              R == Ramified(n, val)
  <1>1. IsFiniteSet(S) /\ n \in S /\ S \ {n} = 0..(n - 1)
    <2>1. IsFiniteSet(S)
      BY ONLY n \in Nat \ {0}, FS_Interval
    <2>2. n \in S /\ \A i \in 0..(n - 1) : i \in S /\ i # n
      BY ONLY n \in Nat \ {0}
    <2>3. \A i \in S : i # n => i \in 0..(n - 1)
      BY ONLY n \in Nat \ {0}
    <2>4. S \ {n} = 0..(n - 1)
      <3>. HIDE DEF S
      <3>. QED
        BY <2>2, <2>3, Zenon
    <2>. QED
      BY <2>1, <2>2, <2>4
  <1>2. S \cap U = U /\ S \cap R = R /\ U \cap R = {}
    BY DEF Unramified, Ramified
  <1>3. (n \in R <=> val[n] = n) /\ (n \in U <=> val[n] # n /\ val[n] % 2 = 0)
    BY <1>1 DEF Unramified, Ramified
  <1>. HIDE DEF S, U, R
  <1>4a. Counts(S, n, U) /\ Counts(S, n, R)
    BY <1>1, RemoveIs
  <1>4. PICK u \in Nat, r \in Nat :
           u = Cardinality((S \ {n}) \cap U) /\ r = Cardinality((S \ {n}) \cap R)
    BY <1>4a DEF Counts
  <1>5. /\ n \in U => Cardinality(S \cap U) = u + 1
        /\ n \notin U => Cardinality(S \cap U) = u
        /\ n \in R => Cardinality(S \cap R) = r + 1
        /\ n \notin R => Cardinality(S \cap R) = r
    BY <1>4, <1>4a DEF Counts
  <1>6. affine = PointsOf(u, r)
    BY <1>1, <1>4, Zenon DEF U, R
  <1>7. /\ Plus([unramified |-> 2, ramified |-> 0], PointsOf(u, r)) = PointsOf(u + 1, r)
        /\ Plus([unramified |-> 0, ramified |-> 1], PointsOf(u, r)) = PointsOf(u, r + 1)
        /\ Plus(NoPoints, PointsOf(u, r)) = PointsOf(u, r)
    BY PlusIs
  <1>8. Plus(PointsOver(k, val[n]), affine) = PointsOf(Cardinality(U), Cardinality(R))
    <2>1. CASE n \in R
      <3>1. PointsOver(k, val[n]) = [unramified |-> 0, ramified |-> 1]
        BY <1>3, <2>1, Zenon DEF PointsOver
      <3>2. n \notin U
        BY <1>2, <2>1
      <3>. QED
        BY <1>2, <1>5, <1>6, <1>7, <2>1, <3>1, <3>2, Zenon
    <2>2. CASE n \in U
      <3>1. PointsOver(k, val[n]) = [unramified |-> 2, ramified |-> 0]
        BY <1>3, <2>2, Zenon DEF PointsOver
      <3>2. n \notin R
        BY <1>2, <2>2
      <3>. QED
        BY <1>2, <1>5, <1>6, <1>7, <2>2, <3>1, <3>2, Zenon
    <2>3. CASE n \notin U /\ n \notin R
      <3>1. PointsOver(k, val[n]) = NoPoints
        BY <1>3, <2>3, Zenon DEF PointsOver
      <3>. QED
        BY <1>2, <1>5, <1>6, <1>7, <2>3, <3>1, Zenon
    <2>. QED
      BY <2>1, <2>2, <2>3
  <1>9. PICK A, B, C : A = affine /\ B = PointsOver(k, val[n]) /\ C = PointsOverInfinity(g, k, l)
    OBVIOUS
  <1>10. /\ A \in [unramified : Nat, ramified : Nat]
         /\ B \in [unramified : Nat, ramified : Nat]
         /\ C \in [unramified : Nat, ramified : Nat]
    <2>1. PointsOf(u, r) \in [unramified : Nat, ramified : Nat]
      BY PointsAreNumbers
    <2>2. A \in [unramified : Nat, ramified : Nat]
      BY <1>6, <1>9, <2>1, Zenon
    <2>3. PICK v : v = val[n]
      OBVIOUS
    <2>4. PointsOver(k, v) \in [unramified : Nat, ramified : Nat]
      BY PointsAreNumbers
    <2>5. PointsOverInfinity(g, k, l) \in [unramified : Nat, ramified : Nat]
      BY PointsAreNumbers
    <2>. QED
      BY <1>9, <2>2, <2>3, <2>4, <2>5, Zenon
  <1>11. Plus(A, Plus(B, C)) = Plus(Plus(B, A), C)
    BY <1>10, PlusMoves
  <1>. QED
    BY <1>8, <1>9, <1>11, Zenon DEF U, R

\* CountNaiveNmod is right.
LEMMA NmodCounts ==
    ASSUME NEW k \in 1..MaxExponent, NEW n, NEW h, Lists(k, n, h), NEW m \in Nat \ {0},
           NEW g, Len(g) = m,
           SamePolynomials(Converted(g, k), m, n, k, NmodPoly(g, k), ZechPoly(g, k)),
           NEW val, Values(k, n, m, Converted(g, k), NmodPoly(g, k), val)
    PROVE  CountIs(g, k, n, val, CountNaiveNmod(g, k))
  <1>0. /\ n \in Nat /\ ZeroIndex(k) = n /\ Element(k) = 0..n /\ Log(k, n) = 0
        /\ \A l \in 0..n : Log(k, l) \in 0..n
        /\ \A l, j \in 0..n : Log(k, l) = Log(k, j) => l = j
        /\ \A e \in 0..n : \E l \in 0..n : Log(k, l) = e
    BY ListsIs
  <1>. DEFINE poly == NmodPoly(g, k)
              points == [a \in Element(k) |-> NmodOver(k, ValueAt(k, poly, a))]
              over == [x \in 0..n |-> PointsOver(k, val[x])]
              b == [a \in 0..n |-> CHOOSE x \in 0..n : Log(k, x) = a]
  <1>1. poly \in [1..m -> Element(k)] /\ \A i \in 1..m : poly[i] = Log(k, Converted(g, k)[i])
    BY DEF SamePolynomials
  <1>2. \A x \in 0..n : val[x] \in 0..n /\ Log(k, val[x]) = ValueAt(k, poly, Log(k, x))
    BY DEF Values
  <1>. HIDE DEF poly
  <1>3. \A a \in 0..n : b[a] \in 0..n /\ Log(k, b[a]) = a
    <2>. SUFFICES ASSUME NEW a \in 0..n PROVE b[a] \in 0..n /\ Log(k, b[a]) = a
      OBVIOUS
    <2>1. \E x \in 0..n : Log(k, x) = a
      BY <1>0
    <2>2. b[a] = CHOOSE x \in 0..n : Log(k, x) = a
      OBVIOUS
    <2>. HIDE DEF b
    <2>. QED
      BY <2>1, <2>2, Zenon
  <1>. HIDE DEF b
  <1>4. OneToOne(b, 0..n, 0..n)
    <2>1. \A a, c \in 0..n : b[a] = b[c] => a = c
      BY <1>3
    <2>2. ASSUME NEW x \in 0..n
          PROVE  \E a \in 0..n : b[a] = x
      <3>1. PICK a \in 0..n : a = Log(k, x)
        BY <1>0
      <3>2. b[a] = x
        BY <1>0, <1>3, <3>1
      <3>. QED
        BY <3>2
    <2>. QED
      BY <1>3, <2>1, <2>2 DEF OneToOne
  <1>5. \A a \in 0..n : points[a] = over[b[a]]
    <2>. SUFFICES ASSUME NEW a \in 0..n PROVE points[a] = over[b[a]]
      OBVIOUS
    <2>1. PICK x \in 0..n : x = b[a] /\ Log(k, x) = a
      BY <1>3
    <2>2. PICK v \in 0..n : v = val[x] /\ Log(k, v) = ValueAt(k, poly, a)
      BY <1>2, <2>1
    <2>3. NmodOver(k, Log(k, v)) = PointsOver(k, v)
      BY OversAre
    <2>4. points[a] = NmodOver(k, ValueAt(k, poly, a))
      BY <1>0
    <2>5. over[x] = PointsOver(k, val[x])
      OBVIOUS
    <2>. HIDE DEF points, over
    <2>. QED
      BY <2>1, <2>2, <2>3, <2>4, <2>5, Zenon
  <1>6. PICK D \in SUBSET (0..n) : D = 0..n
    OBVIOUS
  <1>7. CountedBy(over, D, Unramified(n, val), Ramified(n, val))
    <2>1. \A x \in D : over[x] = PointsOver(k, val[x])
      BY <1>6
    <2>2. DOMAIN over = D
      BY <1>6
    <2>. HIDE DEF over
    <2>. QED
      BY <1>0, <2>1, <2>2, OverIs
  <1>8. Renames(points, D, b, over)
    <2>1. DOMAIN points = D
      BY <1>0, <1>6
    <2>. HIDE DEF points, over
    <2>. QED
      BY <1>5, <1>6, <2>1 DEF Renames
  <1>. HIDE DEF points, over
  <1>9. Total(points) = PointsOf(Cardinality(D \cap Unramified(n, val)), Cardinality(D \cap Ramified(n, val)))
    <2>1. IsFiniteSet(D) /\ OneToOne(b, D, D)
      <3>1. IsFiniteSet(0..n)
        BY <1>0, FS_Interval
      <3>. QED
        BY <1>4, <1>6, <3>1, Zenon
    <2>. QED
      BY <1>7, <1>8, <2>1, TotalRenamed
  <1>10. D \cap Unramified(n, val) = Unramified(n, val) /\ D \cap Ramified(n, val) = Ramified(n, val)
    BY <1>6 DEF Unramified, Ramified
  <1>11. CountNaiveNmod(g, k)
          = Plus(Total([x \in Element(k) |-> NmodOver(k, ValueAt(k, poly, x))]),
                 IF Degree(g) < 2 * Genus(g) + 2 THEN NmodOver(k, 0) ELSE NmodOver(k, poly[Len(poly)]))
    BY Zenon DEF CountNaiveNmod, NmodPoly, NmodOver, poly
  <1>12. CountNaiveNmod(g, k)
          = Plus(Total(points),
                 IF Degree(g) < 2 * Genus(g) + 2 THEN NmodOver(k, 0) ELSE NmodOver(k, poly[m]))
    <2>1. Len(poly) = m
      BY ONLY <1>1, m \in Nat \ {0}
    <2>. QED
      BY <1>11, <2>1, Zenon DEF points
  <1>13. (IF Degree(g) < 2 * Genus(g) + 2 THEN NmodOver(k, 0) ELSE NmodOver(k, poly[m]))
          = PointsOverInfinity(g, k, Converted(g, k)[Len(g)])
    <2>1. PICK l \in 0..n : l = Converted(g, k)[m] /\ poly[m] = Log(k, l)
      <3>1. m \in 1..m
        OBVIOUS
      <3>2. Converted(g, k) \in [1..m -> 0..n]
        BY DEF SamePolynomials
      <3>. QED
        BY <1>1, <3>1, <3>2
    <2>2. NmodOver(k, poly[m]) = PointsOver(k, l)
      BY <2>1, OversAre
    <2>3. NmodOver(k, 0) = [unramified |-> 0, ramified |-> 1]
      BY Zenon DEF NmodOver
    <2>. QED
      BY <2>1, <2>2, <2>3, Zenon DEF PointsOverInfinity
  <1>. QED
    BY <1>9, <1>10, <1>12, <1>13, Zenon DEF CountIs

\* count is right, on the processor, which takes the x from 1 to the order of the group,
\* and by the kernel, which takes them from 0 (curve.cc, 261-294; evaluation.cl).
LEMMA DeviceCounts ==
    ASSUME NEW k \in 1..MaxExponent, NEW n, NEW h, Lists(k, n, h), NEW m \in Nat \ {0},
           NEW g, Len(g) = m,
           SamePolynomials(Converted(g, k), m, n, k, NmodPoly(g, k), ZechPoly(g, k)),
           NEW val, Values(k, n, m, Converted(g, k), NmodPoly(g, k), val), NEW opencl \in BOOLEAN
    PROVE  CountIs(g, k, n, val, CountPoints(g, k, opencl))
  <1>0. n \in Nat /\ n \in Nat \ {0} /\ n >= 2 /\ ZeroIndex(k) = n /\ PrimePowerPred(k) = n
    BY ListsIs
  <1>. DEFINE f == Converted(g, k)
  <1>1. f \in [1..m -> 0..n]
    BY DEF SamePolynomials
  <1>2. /\ val \in [0..n -> 0..n] /\ val[n] = f[1]
        /\ \A x \in 0..n : RhsLogarithm(k, f, x) = val[Wrap(n, x)]
    BY DEF Values
  <1>. HIDE DEF f
  <1>3. PICK D \in SUBSET (0..n) : D = 0..(n - 1)
    <2>1. 0..(n - 1) \in SUBSET (0..n)
      BY <1>0
    <2>. QED
      BY <2>1
  <1>4. IsFiniteSet(D) /\ IsFiniteSet(1..n)
    <2>1. IsFiniteSet(0..(n - 1)) /\ IsFiniteSet(1..n)
      BY <1>0, FS_Interval
    <2>. QED
      BY <1>3, <2>1
  <1>. DEFINE over == [x \in 0..(n - 1) |-> EvaluateItem(k, f, x)]
              points == [x \in 1..n |-> PointsOver(k, RhsLogarithm(k, f, x))]
              b == [x \in 1..n |-> Wrap(n, x)]
  <1>5. \A x \in D : over[x] = PointsOver(k, val[x])
    <2>. SUFFICES ASSUME NEW x \in D PROVE over[x] = PointsOver(k, val[x])
      OBVIOUS
    <2>1. x \in 0..(n - 1) /\ x \in 0..n /\ Wrap(n, x) = x
      BY <1>0, <1>3 DEF Wrap
    <2>2. RhsLogarithm(k, f, x) = val[x]
      BY <1>2, <2>1
    <2>. QED
      BY <2>1, <2>2 DEF EvaluateItem
  <1>6. DOMAIN over = D
    BY <1>3
  <1>. HIDE DEF over
  <1>7. CountedBy(over, D, Unramified(n, val), Ramified(n, val))
    BY <1>0, <1>5, <1>6, OverIs
  <1>. DEFINE affine == PointsOf(Cardinality(D \cap Unramified(n, val)), Cardinality(D \cap Ramified(n, val)))
  <1>8. Total(over) = affine
    BY <1>4, <1>7, TotalIs
  <1>9. Total(points) = affine
    <2>1. OneToOne(b, 1..n, D)
      <3>1. \A x \in 1..n : b[x] = IF x = n THEN 0 ELSE x
        BY <1>0 DEF Wrap
      <3>. HIDE DEF b
      <3>2. \A x \in 1..n : b[x] \in D
        BY <1>0, <1>3, <3>1
      <3>3. \A x, y \in 1..n : b[x] = b[y] => x = y
        BY <1>0, <3>1
      <3>4. ASSUME NEW z \in D
            PROVE  \E x \in 1..n : b[x] = z
        <4>1. z \in 0..(n - 1)
          BY <1>3
        <4>2. CASE z = 0
          <5>1. n \in 1..n /\ b[n] = 0
            BY <1>0, <3>1
          <5>. QED
            BY <4>2, <5>1
        <4>3. CASE z # 0
          <5>1. z \in 1..n /\ b[z] = z
            BY <1>0, <3>1, <4>1, <4>3
          <5>. QED
            BY <5>1
        <4>. QED
          BY <4>2, <4>3
      <3>. QED
        BY <3>2, <3>3, <3>4, Zenon DEF OneToOne
    <2>2. \A x \in 1..n : points[x] = over[b[x]]
      <3>. SUFFICES ASSUME NEW x \in 1..n PROVE points[x] = over[b[x]]
        OBVIOUS
      <3>1. b[x] \in D /\ b[x] = Wrap(n, x)
        BY <2>1 DEF OneToOne
      <3>2. x \in 0..n
        BY <1>0
      <3>3. RhsLogarithm(k, f, x) = val[b[x]]
        BY <1>2, <3>1, <3>2
      <3>4. points[x] = PointsOver(k, RhsLogarithm(k, f, x))
        OBVIOUS
      <3>. HIDE DEF points, b
      <3>. QED
        BY <1>5, <3>1, <3>3, <3>4
    <2>3. Renames(points, 1..n, b, over)
      <3>1. DOMAIN points = 1..n
        OBVIOUS
      <3>. HIDE DEF points, b
      <3>. QED
        BY <2>2, <3>1 DEF Renames
    <2>4. PICK E : E = 1..n
      OBVIOUS
    <2>. HIDE DEF points, b
    <2>5. OneToOne(b, E, D) /\ Renames(points, E, b, over) /\ IsFiniteSet(E)
      BY <1>4, <2>1, <2>3, <2>4, Zenon
    <2>. QED
      BY <1>7, <2>5, TotalRenamed
  <1>10. CountOpenCL(k, f) = affine /\ CountCpu(k, f) = affine
    <2>1. CountOpenCL(k, f) = Total(over)
      BY <1>0, Zenon DEF CountOpenCL, over
    <2>2. CountCpu(k, f) = Total(points)
      BY <1>0, Zenon DEF CountCpu, points
    <2>. QED
      BY <1>8, <1>9, <2>1, <2>2, Zenon
  <1>11. CountPoints(g, k, opencl)
           = Plus(affine, Plus(PointsOver(k, val[n]), PointsOverInfinity(g, k, f[Len(f)])))
    <2>1. CountPoints(g, k, opencl)
            = Plus(IF opencl THEN CountOpenCL(k, f) ELSE CountCpu(k, f),
                   Plus(PointsOver(k, f[1]), PointsOverInfinity(g, k, f[Len(f)])))
      BY Zenon DEF CountPoints, f
    <2>. QED
      BY <1>2, <1>10, <2>1, Zenon
  <1>12. Len(f) = m
    BY ONLY <1>1, m \in Nat \ {0}
  <1>13. Plus(affine, Plus(PointsOver(k, val[n]), PointsOverInfinity(g, k, f[Len(f)])))
           = Plus(PointsOf(Cardinality(Unramified(n, val)), Cardinality(Ramified(n, val))),
                  PointsOverInfinity(g, k, f[Len(f)]))
    <2>1. PICK a, l : a = affine /\ l = f[Len(f)]
      OBVIOUS
    <2>2. a = PointsOf(Cardinality((0..(n - 1)) \cap Unramified(n, val)),
                       Cardinality((0..(n - 1)) \cap Ramified(n, val)))
      BY <1>3, <2>1, Zenon
    <2>3. Plus(a, Plus(PointsOver(k, val[n]), PointsOverInfinity(g, k, l)))
             = Plus(PointsOf(Cardinality(Unramified(n, val)), Cardinality(Ramified(n, val))),
                    PointsOverInfinity(g, k, l))
      <3>1. /\ k \in 1..MaxExponent /\ n \in Nat \ {0} /\ ZeroIndex(k) = n
            /\ val \in [0..n -> 0..n]
        BY <1>0, <1>2
      <3>. QED
        BY ONLY <3>1, <2>2, ZeroIsLast
    <2>. QED
      BY <2>1, <2>3, Zenon
  <1>. QED
    BY <1>11, <1>12, <1>13, Zenon DEF CountIs, f

\* A right hand side that the constructor gives: not constant, and led by a
\* coefficient that is not zero.
CurveIs(g, m, n1, h1) ==
    /\ Lists(PrimeExponent, n1, h1)
    /\ m \in Nat \ {0, 1} /\ g \in [1..m -> 0..n1] /\ g[m] # n1

\* The values of the right hand side in a field, as all methods find them.
ValuesIn(g, k, m, n, h, val) ==
    /\ Lists(k, n, h)
    /\ SamePolynomials(Converted(g, k), m, n, k, NmodPoly(g, k), ZechPoly(g, k))
    /\ Values(k, n, m, Converted(g, k), NmodPoly(g, k), val)

\* The numbers of points that the four methods find.
Methods(g, k) ==
    {CountNaiveNmod(g, k), CountNaiveZech(g, k), CountPoints(g, k, TRUE), CountPoints(g, k, FALSE)}

\* They are one number.
LEMMA MethodsAgree ==
    ASSUME NEW k \in 1..MaxExponent, NEW g, NEW m, NEW n1, NEW h1, CurveIs(g, m, n1, h1)
    PROVE  \E n, h, val :
              /\ ValuesIn(g, k, m, n, h, val)
              /\ \A points \in Methods(g, k) : CountIs(g, k, n, val, points)
  <1>1. Lists(PrimeExponent, n1, h1) /\ m \in Nat /\ m \in Nat \ {0} /\ g \in [1..m -> 0..n1]
    BY DEF CurveIs
  <1>2. Len(g) = m
    BY ONLY <1>1
  <1>3. PICK n, h : Lists(k, n, h)
    BY TableIs
  <1>4. SamePolynomials(Converted(g, k), m, n, k, NmodPoly(g, k), ZechPoly(g, k))
    BY <1>1, <1>3, PolynomialsAre
  <1>5. PICK f, c : f = Converted(g, k) /\ c = NmodPoly(g, k)
    OBVIOUS
  <1>6. /\ f \in [1..m -> 0..n] /\ c \in [1..m -> Element(k)]
        /\ \A i \in 1..m : c[i] = Log(k, f[i])
    BY <1>4, <1>5, Zenon DEF SamePolynomials
  <1>7. PICK val : Values(k, n, m, f, c, val)
    BY <1>1, <1>3, <1>6, ValuesAre
  <1>8. Values(k, n, m, Converted(g, k), NmodPoly(g, k), val)
    BY <1>5, <1>7, Zenon
  <1>9. ValuesIn(g, k, m, n, h, val)
    BY <1>3, <1>4, <1>8 DEF ValuesIn
  <1>10. CountIs(g, k, n, val, CountNaiveNmod(g, k))
    BY <1>1, <1>2, <1>3, <1>4, <1>8, NmodCounts
  <1>11. CountIs(g, k, n, val, CountNaiveZech(g, k))
    BY <1>1, <1>2, <1>3, <1>4, <1>8, ZechCounts
  <1>12. CountIs(g, k, n, val, CountPoints(g, k, TRUE)) /\ CountIs(g, k, n, val, CountPoints(g, k, FALSE))
    <2>1. TRUE \in BOOLEAN /\ FALSE \in BOOLEAN
      OBVIOUS
    <2>. QED
      BY <1>1, <1>2, <1>3, <1>4, <1>8, <2>1, DeviceCounts
  <1>13. \A points \in Methods(g, k) : CountIs(g, k, n, val, points)
    BY <1>10, <1>11, <1>12, Zenon DEF Methods
  <1>. QED
    BY <1>9, <1>13
-----------------------------------------------------------------------------
(* The number of solutions                                                 *)

\* The square roots of an element by their logarithms.
LEMMA RootsAre ==
    ASSUME NEW k \in 1..MaxExponent, NEW n, NEW h, Lists(k, n, h), NEW v \in 0..n, NEW y \in 0..n
    PROVE  Log(k, v) = Times(k, Log(k, y), Log(k, y))
             <=> IF v = n THEN y = n
                 ELSE v % 2 = 0 /\ (y = v \div 2 \/ y = v \div 2 + h)
  <1>0. /\ n \in Nat /\ n >= 2 /\ h \in Nat \ {0} /\ n = 2 * h /\ n \in Nat \ {0}
        /\ Element(k) = 0..n /\ Log(k, n) = 0
        /\ \A l \in 0..n : Log(k, l) \in 0..n
        /\ \A l, m \in 0..n : Log(k, l) = Log(k, m) => l = m
    BY ListsIs
  <1>1. CASE y = n
    <2>1. Times(k, 0, 0) = 0
      <3>1. 0 \in Element(k)
        BY <1>0
      <3>. QED
        BY <3>1, RingIs
    <2>2. Times(k, Log(k, y), Log(k, y)) = Log(k, n)
      BY <1>0, <1>1, <2>1, Zenon
    <2>3. n \in 0..n
      BY <1>0
    <2>4. Log(k, v) = Times(k, Log(k, y), Log(k, y)) <=> v = n
      BY <1>0, <2>2, <2>3, Zenon
    <2>5. v # n => y # v \div 2 /\ y # v \div 2 + h
      <3>1. PICK q \in Nat, r \in 0..(2 - 1) : q = v \div 2 /\ r = v % 2 /\ v = 2 * q + r
        <4>1. v \in Nat /\ 2 \in Nat \ {0}
          OBVIOUS
        <4>. QED
          BY ONLY <4>1, Division
      <3>. QED
        BY <1>0, <1>1, <3>1
    <2>. QED
      BY <1>1, <2>4, <2>5
  <1>2. CASE y # n
    <2>1. PICK z \in 0..(n - 1) : z = y
      BY <1>0, <1>2
    <2>2. PICK w \in 0..(n - 1) : w = Wrap(n, z + z) /\ Times(k, Log(k, z), Log(k, z)) = Log(k, w)
      BY LogProduct
    <2>3. w = IF z + z < n THEN z + z ELSE z + z - n
      BY <1>0, <2>2 DEF Wrap
    <2>4. w \in 0..n
      BY <1>0
    <2>5. Log(k, v) = Times(k, Log(k, y), Log(k, y)) <=> v = w
      BY <1>0, <2>1, <2>2, <2>4, Zenon
    <2>6. CASE v = n
      BY <1>0, <1>2, <2>5, <2>6
    <2>7. CASE v # n
      <3>1. PICK q \in Nat, r \in 0..(2 - 1) : q = v \div 2 /\ r = v % 2 /\ v = 2 * q + r
        <4>1. v \in Nat /\ 2 \in Nat \ {0}
          OBVIOUS
        <4>. QED
          BY ONLY <4>1, Division
      <3>2. v = w <=> r = 0 /\ (z = q \/ z = q + h)
        BY ONLY <1>0, <2>3, <2>7, <3>1, z \in 0..(n - 1), w \in 0..(n - 1), v \in 0..n
      <3>. QED
        BY <2>1, <2>5, <2>7, <3>1, <3>2, Zenon
    <2>. QED
      BY <2>6, <2>7
  <1>. QED
    BY <1>1, <1>2

\* Half a logarithm is one, and half a period more is another.
LEMMA HalfIs ==
    ASSUME NEW n, NEW h \in Nat \ {0}, n = 2 * h, NEW v \in 0..n, v # n
    PROVE  v \div 2 \in 0..n /\ v \div 2 + h \in 0..n /\ v \div 2 # v \div 2 + h
  <1>1. PICK q \in Nat, r \in 0..(2 - 1) : q = v \div 2 /\ r = v % 2 /\ v = 2 * q + r
    <2>1. v \in Nat /\ 2 \in Nat \ {0}
      OBVIOUS
    <2>. QED
      BY ONLY <2>1, Division
  <1>2. q \in 0..n /\ q + h \in 0..n /\ q # q + h
    BY <1>1
  <1>. QED
    BY <1>1, <1>2

\* One pair for each x of U.
Over(k, U, e) == {<<Log(k, x), e[x]>> : x \in U}

\* These are as many pairs as U has elements.
LEMMA OverSize ==
    ASSUME NEW k \in 1..MaxExponent, NEW n, NEW h, Lists(k, n, h), NEW U \in SUBSET (0..n), NEW e
    PROVE  /\ IsFiniteSet(Over(k, U, e)) /\ Cardinality(Over(k, U, e)) = Cardinality(U)
           /\ Cardinality(U) \in Nat
  <1>0. n \in Nat /\ \A l, m \in 0..n : Log(k, l) = Log(k, m) => l = m
    BY ListsIs
  <1>1. IsFiniteSet(U)
    <2>1. IsFiniteSet(0..n)
      BY <1>0, FS_Interval
    <2>. QED
      BY <2>1, FS_Subset
  <1>. DEFINE b == [x \in U |-> <<Log(k, x), e[x]>>]
  <1>2. PICK T : T = Over(k, U, e)
    OBVIOUS
  <1>3. OneToOne(b, U, T)
    <2>1. \A x \in U : b[x] = <<Log(k, x), e[x]>>
      OBVIOUS
    <2>. HIDE DEF b
    <2>2. \A x \in U : b[x] \in T
      BY <1>2, <2>1 DEF Over
    <2>3. ASSUME NEW x \in U, NEW y \in U, b[x] = b[y]
          PROVE  x = y
      <3>1. Log(k, x) = Log(k, y)
        BY <2>1, <2>3
      <3>. QED
        BY <1>0, <3>1
    <2>4. \A z \in T : \E x \in U : b[x] = z
      BY <1>2, <2>1 DEF Over
    <2>. QED
      BY <2>2, <2>3, <2>4, Zenon DEF OneToOne
  <1>. HIDE DEF b
  <1>4. IsFiniteSet(T) /\ Cardinality(T) = Cardinality(U)
    BY <1>1, <1>3, SameSize
  <1>. QED
    BY <1>1, <1>2, <1>4, FS_CardinalityType

\* The solutions of y^2 = F(x).
SolutionsOf(k, F) == {p \in Element(k) \X Element(k) : F[p[1]] = Times(k, p[2], p[2])}

\* There are two for each x with an even logarithm of F(x), and one where it is zero.
LEMMA SolutionsAre ==
    ASSUME NEW k \in 1..MaxExponent, NEW n, NEW h, Lists(k, n, h), NEW val \in [0..n -> 0..n], NEW F,
           \A x \in 0..n : F[Log(k, x)] = Log(k, val[x])
    PROVE  /\ Cardinality(Unramified(n, val)) \in Nat /\ Cardinality(Ramified(n, val)) \in Nat
           /\ Cardinality(SolutionsOf(k, F))
                = 2 * Cardinality(Unramified(n, val)) + Cardinality(Ramified(n, val))
  <1>0. /\ n \in Nat /\ n >= 2 /\ h \in Nat \ {0} /\ n = 2 * h
        /\ Element(k) = 0..n
        /\ \A l \in 0..n : Log(k, l) \in 0..n
        /\ \A l, m \in 0..n : Log(k, l) = Log(k, m) => l = m
        /\ \A a \in 0..n : \E l \in 0..n : Log(k, l) = a
    BY ListsIs
  <1>1. PICK U \in SUBSET (0..n), R \in SUBSET (0..n) : U = Unramified(n, val) /\ R = Ramified(n, val)
    <2>1. Unramified(n, val) \in SUBSET (0..n) /\ Ramified(n, val) \in SUBSET (0..n)
      BY DEF Unramified, Ramified
    <2>. QED
      BY <2>1
  <1>2. \A x \in 0..n : (x \in U <=> val[x] # n /\ val[x] % 2 = 0) /\ (x \in R <=> val[x] = n)
    BY <1>1 DEF Unramified, Ramified
  <1>3. ASSUME NEW x \in U
        PROVE  /\ val[x] \div 2 \in 0..n /\ val[x] \div 2 + h \in 0..n
               /\ val[x] \div 2 # val[x] \div 2 + h
    <2>1. PICK v \in 0..n : v = val[x] /\ v # n
      BY <1>2
    <2>2. n = 2 * h /\ h \in Nat \ {0}
      BY <1>0
    <2>3. v \div 2 \in 0..n /\ v \div 2 + h \in 0..n /\ v \div 2 # v \div 2 + h
      BY <2>1, <2>2, HalfIs
    <2>. QED
      BY <2>1, <2>3, Zenon
  <1>4. PICK e0, e1, e2 : /\ e0 = [x \in U |-> Log(k, val[x] \div 2)]
                          /\ e1 = [x \in U |-> Log(k, val[x] \div 2 + h)]
                          /\ e2 = [x \in R |-> Log(k, n)]
    OBVIOUS
  <1>5. PICK A, B, C : A = Over(k, U, e0) /\ B = Over(k, U, e1) /\ C = Over(k, R, e2)
    OBVIOUS
  <1>6. /\ \A p \in A : \E x \in U : p = <<Log(k, x), Log(k, val[x] \div 2)>>
        /\ \A p \in B : \E x \in U : p = <<Log(k, x), Log(k, val[x] \div 2 + h)>>
        /\ \A p \in C : \E x \in R : p = <<Log(k, x), Log(k, n)>>
    <2>1. \A p \in A : \E x \in U : p = <<Log(k, x), Log(k, val[x] \div 2)>>
      BY <1>4, <1>5 DEF Over
    <2>2. \A p \in B : \E x \in U : p = <<Log(k, x), Log(k, val[x] \div 2 + h)>>
      BY <1>4, <1>5 DEF Over
    <2>3. \A p \in C : \E x \in R : p = <<Log(k, x), Log(k, n)>>
      BY <1>4, <1>5 DEF Over
    <2>. QED
      BY <2>1, <2>2, <2>3
  <1>7. A \cap B = {} /\ A \cap C = {} /\ B \cap C = {}
    <2>1. ASSUME NEW p \in A, p \in B
          PROVE  FALSE
      <3>1. PICK x \in U : p = <<Log(k, x), Log(k, val[x] \div 2)>>
        BY <1>6
      <3>2. PICK y \in U : p = <<Log(k, y), Log(k, val[y] \div 2 + h)>>
        BY <1>6, <2>1
      <3>3. Log(k, x) = Log(k, y) /\ Log(k, val[x] \div 2) = Log(k, val[y] \div 2 + h)
        BY <3>1, <3>2
      <3>4. x = y
        BY <1>0, <3>3
      <3>5. Log(k, val[x] \div 2) = Log(k, val[x] \div 2 + h)
        BY <3>3, <3>4, Zenon
      <3>6. PICK s \in 0..n, t \in 0..n : s = val[x] \div 2 /\ t = val[x] \div 2 + h /\ s # t
        BY <1>3
      <3>7. Log(k, s) = Log(k, t)
        BY <3>5, <3>6, Zenon
      <3>. QED
        BY ONLY <1>0, <3>6, <3>7
    <2>2. ASSUME NEW p \in C, p \in A \/ p \in B
          PROVE  FALSE
      <3>1. PICK x \in R : p = <<Log(k, x), Log(k, n)>>
        BY <1>6
      <3>2. \E y \in U : \E z : p = <<Log(k, y), z>>
        <4>1. CASE p \in A
          <5>1. PICK y \in U : p = <<Log(k, y), Log(k, val[y] \div 2)>>
            BY ONLY <1>6, <4>1
          <5>. QED
            BY <5>1, Zenon
        <4>2. CASE p \in B
          <5>1. PICK y \in U : p = <<Log(k, y), Log(k, val[y] \div 2 + h)>>
            BY ONLY <1>6, <4>2
          <5>. QED
            BY <5>1, Zenon
        <4>. QED
          BY <2>2, <4>1, <4>2
      <3>2a. PICK y \in U : \E z : p = <<Log(k, y), z>>
        BY <3>2
      <3>3. Log(k, x) = Log(k, y)
        BY <3>1, <3>2a
      <3>4. x = y
        BY <1>0, <3>3
      <3>. QED
        BY <1>2, <3>4
    <2>. QED
      BY <2>1, <2>2
  <1>8. ASSUME NEW x \in 0..n, NEW y \in 0..n
        PROVE  <<Log(k, x), Log(k, y)>> \in A \cup B \cup C
                 <=> F[Log(k, x)] = Times(k, Log(k, y), Log(k, y))
    <2>1. PICK v \in 0..n : v = val[x]
      OBVIOUS
    <2>2. F[Log(k, x)] = Log(k, v)
      BY <2>1
    <2>3. F[Log(k, x)] = Times(k, Log(k, y), Log(k, y))
             <=> IF v = n THEN y = n
                 ELSE v % 2 = 0 /\ (y = v \div 2 \/ y = v \div 2 + h)
      BY <2>2, RootsAre
    <2>4. <<Log(k, x), Log(k, y)>> \in A <=> x \in U /\ y = v \div 2
      <3>1. <<Log(k, x), Log(k, y)>> \in A
              <=> \E z \in U : Log(k, x) = Log(k, z) /\ Log(k, y) = Log(k, val[z] \div 2)
        BY <1>4, <1>5 DEF Over
      <3>2. \A z \in U : (Log(k, x) = Log(k, z) /\ Log(k, y) = Log(k, val[z] \div 2))
                            <=> (x = z /\ y = val[z] \div 2)
        BY <1>0, <1>3
      <3>. QED
        BY <2>1, <3>1, <3>2
    <2>5. <<Log(k, x), Log(k, y)>> \in B <=> x \in U /\ y = v \div 2 + h
      <3>1. <<Log(k, x), Log(k, y)>> \in B
              <=> \E z \in U : Log(k, x) = Log(k, z) /\ Log(k, y) = Log(k, val[z] \div 2 + h)
        BY <1>4, <1>5 DEF Over
      <3>2. \A z \in U : (Log(k, x) = Log(k, z) /\ Log(k, y) = Log(k, val[z] \div 2 + h))
                            <=> (x = z /\ y = val[z] \div 2 + h)
        BY <1>0, <1>3
      <3>. QED
        BY <2>1, <3>1, <3>2
    <2>6. <<Log(k, x), Log(k, y)>> \in C <=> x \in R /\ y = n
      <3>1. <<Log(k, x), Log(k, y)>> \in C
              <=> \E z \in R : Log(k, x) = Log(k, z) /\ Log(k, y) = Log(k, n)
        BY <1>4, <1>5 DEF Over
      <3>2. n \in 0..n
        BY <1>0
      <3>3. \A z \in R : (Log(k, x) = Log(k, z) /\ Log(k, y) = Log(k, n)) <=> (x = z /\ y = n)
        BY <1>0, <3>2
      <3>. QED
        BY <3>1, <3>3
    <2>7. (x \in U <=> v # n /\ v % 2 = 0) /\ (x \in R <=> v = n)
      BY <1>2, <2>1
    <2>. QED
      BY <2>3, <2>4, <2>5, <2>6, <2>7, Zenon
  <1>9. SolutionsOf(k, F) = A \cup B \cup C
    <2>1. ASSUME NEW p \in SolutionsOf(k, F)
          PROVE  p \in A \cup B \cup C
      <3>1. PICK a \in 0..n, b \in 0..n : p = <<a, b>> /\ F[a] = Times(k, b, b)
        <4>1. p \in Element(k) \X Element(k) /\ F[p[1]] = Times(k, p[2], p[2])
          BY DEF SolutionsOf
        <4>2. PICK a \in 0..n, b \in 0..n : p = <<a, b>>
          <5>1. PICK D : D = 0..n
            OBVIOUS
          <5>2. p \in D \X D
            BY <1>0, <4>1, <5>1, Zenon
          <5>3. \E a \in D, b \in D : p = <<a, b>>
            BY <5>2
          <5>. QED
            BY <5>1, <5>3
        <4>3. p[1] = a /\ p[2] = b
          BY <4>2
        <4>4. F[a] = Times(k, b, b)
          BY <4>1, <4>3, Zenon
        <4>. QED
          BY <4>2, <4>4
      <3>2. PICK x \in 0..n, y \in 0..n : Log(k, x) = a /\ Log(k, y) = b
        <4>1. PICK x \in 0..n : Log(k, x) = a
          BY <1>0
        <4>2. PICK y \in 0..n : Log(k, y) = b
          BY <1>0
        <4>. QED
          BY <4>1, <4>2
      <3>3. F[Log(k, x)] = Times(k, Log(k, y), Log(k, y)) /\ p = <<Log(k, x), Log(k, y)>>
        BY <3>1, <3>2, Zenon
      <3>. QED
        BY <1>8, <3>3, Zenon
    <2>2. ASSUME NEW p \in A \cup B \cup C
          PROVE  p \in SolutionsOf(k, F)
      <3>1. PICK x \in 0..n, y \in 0..n : p = <<Log(k, x), Log(k, y)>>
        <4>4. n \in 0..n
          BY <1>0
        <4>. QED
          BY <1>3, <1>6, <4>4
      <3>2. F[Log(k, x)] = Times(k, Log(k, y), Log(k, y))
        BY <1>8, <3>1
      <3>3. Log(k, x) \in Element(k) /\ Log(k, y) \in Element(k)
        BY <1>0
      <3>. QED
        BY <3>1, <3>2, <3>3 DEF SolutionsOf
    <2>. QED
      BY <2>1, <2>2, Zenon
  <1>10. /\ IsFiniteSet(A) /\ IsFiniteSet(B) /\ IsFiniteSet(C)
         /\ Cardinality(A) = Cardinality(U) /\ Cardinality(B) = Cardinality(U)
         /\ Cardinality(C) = Cardinality(R) /\ Cardinality(U) \in Nat /\ Cardinality(R) \in Nat
    BY <1>5, OverSize
  <1>11. IsFiniteSet(A \cup B) /\ Cardinality(A \cup B) = Cardinality(A) + Cardinality(B)
    <2>1. Cardinality(A \cap B) = 0
      BY <1>7, FS_EmptySet
    <2>2. IsFiniteSet(A \cup B) /\ Cardinality(A \cup B) = Cardinality(A) + Cardinality(B) - 0
      <3>1. Cardinality(A \cup B) = Cardinality(A) + Cardinality(B) - Cardinality(A \cap B)
        BY <1>10, FS_Union
      <3>2. IsFiniteSet(A \cup B)
        BY <1>10, FS_Union
      <3>. QED
        BY <2>1, <3>1, <3>2, Zenon
    <2>3. PICK a \in Nat, b \in Nat : a = Cardinality(A) /\ b = Cardinality(B)
      BY <1>10
    <2>4. a + b - 0 = a + b
      OBVIOUS
    <2>. QED
      BY <2>2, <2>3, <2>4, Zenon
  <1>12. Cardinality(A \cup B \cup C) = Cardinality(A) + Cardinality(B) + Cardinality(C)
    <2>1. PICK D : D = A \cup B
      OBVIOUS
    <2>2. Cardinality(D \cap C) = 0
      <3>1. D \cap C = {}
        BY <1>7, <2>1
      <3>. QED
        BY <3>1, FS_EmptySet
    <2>3. IsFiniteSet(D) /\ Cardinality(D) = Cardinality(A) + Cardinality(B)
      BY <1>11, <2>1
    <2>4. Cardinality(D \cup C) = Cardinality(D) + Cardinality(C) - 0
      BY <1>10, <2>2, <2>3, FS_Union
    <2>. QED
      BY <1>10, <2>1, <2>3, <2>4
  <1>. QED
    BY <1>1, <1>9, <1>10, <1>12
-----------------------------------------------------------------------------
(* The coefficients that hycu-single is called with                        *)

\* Zero coefficients at the end do not change the values.
LEMMA TrailingZeros ==
    ASSUME NEW k \in 1..MaxExponent, NEW L \in Nat, NEW m \in 1..L,
           NEW c \in [1..L -> Element(k)], \A i \in (m + 1)..L : c[i] = 0,
           NEW d \in [1..m -> Element(k)], \A i \in 1..m : d[i] = c[i],
           NEW X \in Element(k)
    PROVE  ValueAt(k, c, X) = ValueAt(k, d, X)
  <1>1. PICK P, s : Evaluates(k, c, X, L, P, s)
    BY CanEvaluate
  <1>2. ValueAt(k, c, X) = s[L]
    BY <1>1, ValueIs
  <1>3. /\ P \in [0..L -> Element(k)] /\ P[0] = 1
        /\ \A i \in 1..L : P[i] = Times(k, P[i - 1], X)
        /\ s \in [0..L -> Element(k)] /\ s[0] = 0
        /\ \A i \in 1..L : s[i] = Plus2(k, s[i - 1], Times(k, c[i], P[i - 1]))
    BY <1>1 DEF Evaluates
  <1>. DEFINE Q == [i \in 0..m |-> P[i]]
              t == [i \in 0..m |-> s[i]]
  <1>4. m \in Nat /\ m \in 0..m /\ 0 \in 0..m /\ \A i \in 0..m : i \in 0..L
    OBVIOUS
  <1>5. \A i \in 0..m : Q[i] = P[i] /\ t[i] = s[i]
    OBVIOUS
  <1>6. Q \in [0..m -> Element(k)] /\ t \in [0..m -> Element(k)]
    BY <1>3, <1>4
  <1>. HIDE DEF Q, t
  <1>7. ASSUME NEW i \in 1..m
        PROVE  Q[i] = Times(k, Q[i - 1], X) /\ t[i] = Plus2(k, t[i - 1], Times(k, d[i], Q[i - 1]))
    <2>1. i \in 1..L /\ i \in 0..m /\ i - 1 \in 0..m
      OBVIOUS
    <2>2. Q[i] = P[i] /\ t[i] = s[i] /\ Q[i - 1] = P[i - 1] /\ t[i - 1] = s[i - 1]
      BY <1>5, <2>1
    <2>. QED
      BY <1>3, <2>1, <2>2, Zenon
  <1>8. Evaluates(k, d, X, m, Q, t)
    BY <1>3, <1>4, <1>5, <1>6, <1>7, Zenon DEF Evaluates
  <1>9. ValueAt(k, d, X) = s[m]
    <2>1. ValueAt(k, d, X) = t[m]
      BY ONLY <1>4, <1>8, ValueIs, d \in [1..m -> Element(k)], X \in Element(k), k \in 1..MaxExponent
    <2>. QED
      BY <1>4, <1>5, <2>1
  <1>. DEFINE T == {i \in 0..L : i >= m => s[i] = s[m]}
  <1>10. 0 \in T
    OBVIOUS
  <1>11. ASSUME NEW i \in 1..L, i - 1 \in T
         PROVE  i \in T
    <2>1. CASE i <= m
      BY <2>1
    <2>2. CASE ~(i <= m)
      <3>1. i - 1 \in 0..L /\ i - 1 >= m /\ i \in (m + 1)..L /\ i \in 0..L
        BY <2>2
      <3>2. s[i - 1] = s[m] /\ c[i] = 0
        BY <1>11, <3>1
      <3>3. P[i - 1] \in Element(k) /\ s[i - 1] \in Element(k)
        BY <1>3, <3>1
      <3>4. Times(k, 0, P[i - 1]) = 0
        BY <3>3, RingIs
      <3>5. Plus2(k, s[i - 1], 0) = s[i - 1]
        BY <3>3, RightSides
      <3>6. s[i] = Plus2(k, s[i - 1], Times(k, c[i], P[i - 1]))
        BY <1>3
      <3>7. s[i] = s[m]
        BY <3>2, <3>4, <3>5, <3>6, Zenon
      <3>. QED
        BY <3>1, <3>7
    <2>. QED
      BY <2>1, <2>2
  <1>. HIDE DEF T
  <1>12. \A i \in 0..L : i \in T
    BY <1>10, <1>11, UpTo
  <1>13. s[L] = s[m]
    <2>1. L \in 0..L /\ L >= m
      OBVIOUS
    <2>. QED
      BY <1>12, <2>1 DEF T
  <1>. QED
    BY <1>2, <1>9, <1>13

\* The constructor drops them.
MakesCurve(position, d, n1, h1) ==
    \E m \in 2..(d + 1) :
        /\ CurveIs(NewCurve(position), m, n1, h1)
        /\ \A i \in 1..m : NewCurve(position)[i] = position[i - 1]
        /\ \A i \in (m + 1)..(d + 1) : position[i - 1] = n1

\* It does so unless nothing but the constant coefficient is left.
LEMMA NewCurveIs ==
    ASSUME NEW n1, NEW h1, Lists(PrimeExponent, n1, h1), NEW d \in Nat,
           NEW position \in [0..d -> 0..n1], \E ix \in 1..d : position[ix] # n1
    PROVE  MakesCurve(position, d, n1, h1)
  <1>0. n1 \in Nat /\ ZeroIndex(PrimeExponent) = n1
    BY ListsIs
  <1>1. Cardinality(DOMAIN position) - 1 = d
    <2>1. Cardinality(0..d) = d + 1
      BY FS_Interval
    <2>2. DOMAIN position = 0..d
      OBVIOUS
    <2>. QED
      BY <2>1, <2>2
  <1>. DEFINE IsLast(ix) == /\ position[ix] # n1
                            /\ \A jx \in (ix + 1)..d : position[jx] = n1
  <1>2. \E ix \in 1..d : IsLast(ix)
    <2>. SUFFICES ASSUME ~ \E ix \in 1..d : IsLast(ix) PROVE FALSE
      OBVIOUS
    <2>. DEFINE S == {i \in 0..d : \A ix \in (d - i + 1)..d : ix >= 1 => position[ix] = n1}
    <2>1. 0 \in S
      OBVIOUS
    <2>2. ASSUME NEW i \in 1..d, i - 1 \in S
          PROVE  i \in S
      <3>1. PICK y \in 1..d : y = d - i + 1
        OBVIOUS
      <3>2. \A jx \in (y + 1)..d : position[jx] = n1
        BY <2>2, <3>1
      <3>3. position[y] = n1
        BY <3>1, <3>2
      <3>4. \A ix \in (d - i + 1)..d : ix = y \/ ix \in (y + 1)..d
        BY <3>1
      <3>5. \A ix \in (d - i + 1)..d : position[ix] = n1
        BY <3>2, <3>3, <3>4
      <3>. QED
        BY <3>5
    <2>3. \A i \in 0..d : i \in S
      <3>. HIDE DEF S
      <3>. QED
        BY <2>1, <2>2, UpTo
    <2>4. d \in S
      <3>1. d \in 0..d
        OBVIOUS
      <3>. HIDE DEF S
      <3>. QED
        BY <2>3, <3>1
    <2>5. \A ix \in 1..d : position[ix] = n1
      <3>1. \A ix \in (d - d + 1)..d : ix >= 1 => position[ix] = n1
        BY <2>4
      <3>2. d - d + 1 = 1
        OBVIOUS
      <3>. QED
        BY <3>1, <3>2
    <2>. QED
      BY <2>5
  <1>. DEFINE last == CHOOSE ix \in 0..d : IsLast(ix)
  <1>3. \A x, y \in 0..d : IsLast(x) /\ IsLast(y) => x = y
    OBVIOUS
  <1>4. last \in 1..d /\ IsLast(last)
    <2>1. PICK x \in 1..d : IsLast(x)
      BY <1>2
    <2>2. x \in 0..d
      OBVIOUS
    <2>. HIDE DEF IsLast
    <2>3. last \in 0..d /\ IsLast(last)
      BY <2>1, <2>2
    <2>4. last = x
      BY <1>3, <2>1, <2>2, <2>3
    <2>. QED
      BY <2>1, <2>4
  <1>5. NewCurve(position) = [i \in 1..(last + 1) |-> position[i - 1]]
    BY <1>0, <1>1, Zenon DEF NewCurve
  <1>6. PICK l \in 1..d : l = last /\ position[l] # n1 /\ \A jx \in (l + 1)..d : position[jx] = n1
    BY <1>4
  <1>. HIDE DEF last
  <1>7. PICK m \in 2..(d + 1) : m = l + 1 /\ m - 1 = l /\ m \in Nat \ {0, 1}
    BY <1>6
  <1>8. PICK g : g = NewCurve(position) /\ g = [i \in 1..m |-> position[i - 1]]
    BY <1>5, <1>6, <1>7
  <1>9. \A i \in 1..m : g[i] = position[i - 1] /\ g[i] \in 0..n1
    BY <1>8
  <1>10. g \in [1..m -> 0..n1]
    BY <1>8
  <1>11. g[m] # n1
    BY <1>6, <1>7, <1>9
  <1>12. CurveIs(g, m, n1, h1)
    BY <1>7, <1>10, <1>11 DEF CurveIs
  <1>13. \A i \in (m + 1)..(d + 1) : position[i - 1] = n1
    BY <1>6, <1>7
  <1>. QED
    BY <1>8, <1>9, <1>12, <1>13 DEF MakesCurve

\* FpConversionMap has the logarithms of the numbers below the prime.
LEMMA ExponentIs ==
    ASSUME NEW n1, NEW h1, Lists(1, n1, h1), NEW c \in Nat
    PROVE  /\ n1 = Prime - 1 /\ Exponent(c) \in 0..n1
           /\ c < Prime => Log(1, Exponent(c)) = c
           /\ c # 0 => Exponent(c) # n1
  <1>0. /\ n1 \in Nat /\ n1 >= 2 /\ Order(1) = n1 + 1
        /\ Element(1) = 0..n1 /\ Log(1, n1) = 0
        /\ \A i \in 0..(n1 - 1) : Log(1, i) # 0 /\ Log(1, i) = PowersOfGenerator[1][i]
        /\ \A a \in 0..n1 : \E i \in 0..n1 : Log(1, i) = a
    BY ListsIs
  <1>1. n1 = Prime - 1
    <2>1. PICK p \in Nat \ {0} : p = Prime
      BY PrimeIs
    <2>2. Prime^1 = Prime * Prime^0 /\ Prime^0 = 1
      <3>1. 0 \in 0..MaxExponent /\ 0 + 1 = 1
        BY FieldAssumption
      <3>. QED
        BY <3>1, PowersOfPrime
    <2>3. Prime^1 = p
      <3>1. p * 1 = p
        OBVIOUS
      <3>. QED
        BY <2>1, <2>2, <3>1, Zenon
    <2>4. Order(1) = p
      BY <2>3 DEF Order
    <2>. QED
      BY <1>0, <2>1, <2>4
  <1>2. CASE ~(c < Prime)
    <2>1. Exponent(c) = 0
      BY <1>2, Zenon DEF Exponent
    <2>. QED
      BY <1>0, <1>1, <1>2, <2>1
  <1>3. CASE c < Prime
    <2>0. c \in 0..(Prime - 1) /\ c \in 0..n1
      BY <1>0, <1>1, <1>3, PrimeIs
    <2>. DEFINE P(ex) == IF c = 0 THEN ex = n1 ELSE ex < n1 /\ Log(1, ex) = c
    <2>1. Exponent(c) = CHOOSE ex \in 0..n1 : P(ex)
      <3>1. Exponent(c) = CHOOSE ex \in 0..(Prime - 1) :
                             IF c = 0 THEN ex = Prime - 1 ELSE ex < Prime - 1 /\ FqTable[1][ex] = c
        BY <1>3, <2>0, Zenon DEF Exponent, FpConversionMap
      <3>2. \A ex : FqTable[1][ex] = Log(1, ex)
        BY Zenon DEF Log
      <3>. QED
        BY <1>1, <3>1, Zenon DEF Log
    <2>2. \E ex \in 0..n1 : P(ex)
      <3>1. PICK i \in 0..n1 : Log(1, i) = c
        BY <1>0, <2>0
      <3>2. CASE c = 0
        <4>1. n1 \in 0..n1
          BY <1>0
        <4>. QED
          BY <3>2, <4>1
      <3>3. CASE c # 0
        <4>1. i # n1
          BY <1>0, <3>1, <3>3, Zenon
        <4>2. i < n1
          BY <1>0, <4>1
        <4>. QED
          BY <3>1, <3>3, <4>2
      <3>. QED
        BY <3>2, <3>3
    <2>3. Exponent(c) \in 0..n1 /\ P(Exponent(c))
      <3>. HIDE DEF P
      <3>. QED
        BY <2>1, <2>2, Zenon
    <2>4. CASE c = 0
      BY <1>0, <1>1, <2>3, <2>4
    <2>5. CASE c # 0
      <3>1. PICK e \in 0..n1 : e = Exponent(c) /\ e < n1 /\ Log(1, e) = c
        BY <2>3, <2>5
      <3>. QED
        BY <1>0, <1>1, <3>1
    <2>. QED
      BY <2>4, <2>5
  <1>. QED
    BY <1>2, <1>3

\* The sequence a stands for the polynomial whose coefficients have the logarithms g.
Stands(a, g, m, L) ==
    /\ \A i \in 1..m : a[i] = Log(1, g[i])
    /\ \A i \in (m + 1)..L : a[i] = 0

\* The curve that hycu-single makes of its arguments.
AskedCurve(a) == NewCurve([ix \in 0..(Len(a) - 1) |-> Exponent(a[ix + 1])])

\* It is that of the polynomial with these coefficients, if they are below the prime.
LEMMA AskedCurveIs ==
    ASSUME PrimeExponent = 1, NEW n1, NEW h1, Lists(1, n1, h1), NEW a \in Seq(Nat),
           \E ix \in 2..Len(a) : a[ix] # 0
    PROVE  \E m \in 2..Len(a) :
              /\ CurveIs(AskedCurve(a), m, n1, h1)
              /\ (\A i \in 1..Len(a) : a[i] < Prime) => Stands(a, AskedCurve(a), m, Len(a))
  <1>0. n1 \in Nat /\ Log(1, n1) = 0
    BY ListsIs
  <1>1. PICK L \in Nat : L = Len(a)
    OBVIOUS
  <1>2. PICK jx \in 2..L : a[jx] # 0
    BY <1>1
  <1>3. PICK d \in Nat : d = L - 1 /\ d + 1 = L
    BY <1>2
  <1>4. \A i \in 1..L : a[i] \in Nat
    BY <1>1
  <1>5. \A i \in 1..L : /\ Exponent(a[i]) \in 0..n1
                        /\ a[i] < Prime => Log(1, Exponent(a[i])) = a[i]
                        /\ a[i] # 0 => Exponent(a[i]) # n1
    <2>. SUFFICES ASSUME NEW i \in 1..L
         PROVE  /\ Exponent(a[i]) \in 0..n1
                /\ a[i] < Prime => Log(1, Exponent(a[i])) = a[i]
                /\ a[i] # 0 => Exponent(a[i]) # n1
      OBVIOUS
    <2>1. PICK c \in Nat : c = a[i]
      BY <1>4
    <2>2. /\ Exponent(c) \in 0..n1
          /\ c < Prime => Log(1, Exponent(c)) = c
          /\ c # 0 => Exponent(c) # n1
      BY ExponentIs
    <2>. QED
      BY <2>1, <2>2, Zenon
  <1>6. PICK position : position = [ix \in 0..d |-> Exponent(a[ix + 1])]
    OBVIOUS
  <1>7. \A ix \in 0..d : position[ix] = Exponent(a[ix + 1]) /\ ix + 1 \in 1..L
    BY <1>3, <1>6
  <1>8. position \in [0..d -> 0..n1]
    BY <1>5, <1>6, <1>7
  <1>9. \E ix \in 1..d : position[ix] # n1
    <2>1. PICK x \in 1..d : x = jx - 1 /\ x + 1 = jx /\ x \in 0..d
      BY <1>3
    <2>2. jx \in 1..L
      OBVIOUS
    <2>. QED
      BY <1>2, <1>5, <1>7, <2>1, <2>2
  <1>10. PICK m \in 2..L :
              /\ CurveIs(NewCurve(position), m, n1, h1)
              /\ \A i \in 1..m : NewCurve(position)[i] = position[i - 1]
              /\ \A i \in (m + 1)..L : position[i - 1] = n1
    <2>1. Lists(PrimeExponent, n1, h1)
      BY Zenon
    <2>2. PICK m \in 2..(d + 1) :
              /\ CurveIs(NewCurve(position), m, n1, h1)
              /\ \A i \in 1..m : NewCurve(position)[i] = position[i - 1]
              /\ \A i \in (m + 1)..(d + 1) : position[i - 1] = n1
      <3>1. MakesCurve(position, d, n1, h1)
        BY <1>8, <1>9, <2>1, NewCurveIs
      <3>. QED
        BY <3>1 DEF MakesCurve
    <2>3. d + 1 = L
      BY <1>3
    <2>. QED
      BY <2>2, <2>3
  <1>11. PICK g : g = NewCurve(position) /\ g = AskedCurve(a)
    BY <1>1, <1>3, <1>6, Zenon DEF AskedCurve
  <1>12. ASSUME \A i \in 1..L : a[i] < Prime
         PROVE  Stands(a, g, m, L)
    <2>1. ASSUME NEW i \in 1..m
          PROVE  a[i] = Log(1, g[i])
      <3>1. i - 1 \in 0..d /\ i - 1 + 1 = i /\ i \in 1..L
        BY <1>3
      <3>2. g[i] = position[i - 1]
        BY <1>10, <1>11
      <3>3. position[i - 1] = Exponent(a[i])
        BY <1>7, <3>1
      <3>4. Log(1, Exponent(a[i])) = a[i]
        BY <1>5, <1>12, <3>1
      <3>. QED
        BY <3>2, <3>3, <3>4, Zenon
    <2>2. ASSUME NEW i \in (m + 1)..L
          PROVE  a[i] = 0
      <3>1. i - 1 \in 0..d /\ i - 1 + 1 = i /\ i \in 1..L
        BY <1>3
      <3>2. position[i - 1] = n1
        BY <1>10
      <3>3. position[i - 1] = Exponent(a[i])
        BY <1>7, <3>1
      <3>4. Log(1, Exponent(a[i])) = a[i]
        BY <1>5, <1>12, <3>1
      <3>. QED
        BY <1>0, <3>2, <3>3, <3>4, Zenon
    <2>. QED
      BY <2>1, <2>2 DEF Stands
  <1>. QED
    BY <1>1, <1>10, <1>11, <1>12, Zenon

\* The values of the polynomial asked for are those of the curve.
LEMMA AskedValuesAre ==
    ASSUME PrimeExponent = 1, NEW k \in 1..MaxExponent, NEW g, NEW m, NEW n1, NEW h1,
           CurveIs(g, m, n1, h1), NEW n, NEW h, NEW val, ValuesIn(g, k, m, n, h, val),
           NEW L \in Nat, m \in 1..L, NEW a \in [1..L -> Nat], Stands(a, g, m, L)
    PROVE  /\ \A x \in 0..n : ValueAt(k, a, Log(k, x)) = Log(k, val[x])
           /\ Converted(g, k)[m] \in 0..n /\ Converted(g, k)[m] # n
  <1>0. /\ Lists(k, n, h) /\ Lists(1, n1, h1) /\ m \in Nat \ {0, 1}
        /\ g \in [1..m -> 0..n1] /\ g[m] # n1
    BY Zenon DEF CurveIs, ValuesIn
  <1>1. /\ n \in Nat /\ PrimePowerPred(k) = n /\ Element(k) = 0..n
        /\ Log(k, n) = 0 /\ \A l \in 0..n : Log(k, l) \in 0..n
    BY <1>0, ListsIs
  <1>2. /\ n1 \in Nat /\ PrimePowerPred(1) = n1 /\ ZeroIndex(1) = n1 /\ Log(1, n1) = 0
        /\ \A l \in 0..(n1 - 1) : Log(1, l) # 0 /\ Log(1, l) = PowersOfGenerator[1][l]
    BY <1>0, ListsIs
  <1>3. n1 = Prime - 1 /\ Prime - 2 = n1 - 1
    <2>1. PICK c \in Nat : c = 0
      OBVIOUS
    <2>2. n1 = Prime - 1
      BY <1>0, ExponentIs, <2>1
    <2>. QED
      BY <2>2, PrimeIs
  <1>4. PICK f, c : f = Converted(g, k) /\ c = NmodPoly(g, k)
    OBVIOUS
  <1>5. /\ f \in [1..m -> 0..n] /\ c \in [1..m -> Element(k)]
        /\ \A i \in 1..m : c[i] = Log(k, f[i])
    BY <1>4, Zenon DEF ValuesIn, SamePolynomials
  <1>6. \A x \in 0..n : Log(k, val[x]) = ValueAt(k, c, Log(k, x))
    BY <1>4, Zenon DEF ValuesIn, Values
  <1>7. Len(g) = m
    BY ONLY <1>0
  <1>8. \A i \in 1..m : c[i] = IF g[i] = n1 THEN 0
                               ELSE PowersOfGenerator[k][(n \div n1) * g[i]]
    BY <1>1, <1>2, <1>4, <1>7, Zenon DEF NmodPoly
  <1>9. \A i \in 0..(n1 - 1) : PowersOfGenerator[k][(n \div n1) * i] = PowersOfGenerator[1][i]
    <2>1. n = Order(k) - 1
      BY <1>1 DEF PrimePowerPred
    <2>2. \A i \in 0..(Prime - 2) :
             PowersOfGenerator[k][((Order(k) - 1) \div (Prime - 1)) * i] = PowersOfGenerator[1][i]
      BY GeneratorLaws, Zenon
    <2>. QED
      BY <1>3, <2>1, <2>2, Zenon
  <1>10. ASSUME NEW i \in 1..m
         PROVE  c[i] = a[i]
    <2>1. PICK l \in 0..n1 : l = g[i]
      BY <1>0
    <2>2. a[i] = Log(1, l)
      BY <2>1 DEF Stands
    <2>3. c[i] = IF l = n1 THEN 0 ELSE PowersOfGenerator[k][(n \div n1) * l]
      BY <1>8, <2>1, Zenon
    <2>4. CASE l = n1
      BY <1>2, <2>2, <2>3, <2>4, Zenon
    <2>5. CASE l # n1
      <3>1. l \in 0..(n1 - 1)
        BY <1>2, <2>5
      <3>. QED
        BY <1>2, <1>9, <2>2, <2>3, <2>5, <3>1, Zenon
    <2>. QED
      BY <2>4, <2>5
  <1>11. 0 \in 0..n /\ \A i \in 1..m : c[i] \in 0..n
    <2>1. 0 \in 0..n
      BY <1>1
    <2>2. c \in [1..m -> 0..n]
      BY <1>1, <1>5, Zenon
    <2>. QED
      BY ONLY <2>1, <2>2
  <1>12. \A i \in (m + 1)..L : a[i] = 0
    BY DEF Stands
  <1>13. a \in [1..L -> Element(k)]
    <2>1. ASSUME NEW i \in 1..L
          PROVE  a[i] \in Element(k)
      <3>1. i \in 1..m \/ i \in (m + 1)..L
        BY <1>0
      <3>. QED
        BY <1>1, <1>10, <1>11, <1>12, <3>1
    <2>. QED
      BY <2>1
  <1>14. ASSUME NEW x \in 0..n
         PROVE  ValueAt(k, a, Log(k, x)) = Log(k, val[x])
    <2>1. PICK X \in Element(k) : X = Log(k, x)
      BY <1>1
    <2>2. ValueAt(k, a, X) = ValueAt(k, c, X)
      <3>1. \A i \in 1..m : c[i] = a[i]
        BY <1>10
      <3>. QED
        BY <1>5, <1>12, <1>13, <3>1, TrailingZeros
    <2>. QED
      BY <1>6, <2>1, <2>2, Zenon
  <1>15. f[m] \in 0..n /\ f[m] # n
    <2>1. m \in 1..m
      BY <1>0
    <2>2. PICK l \in 0..(n1 - 1) : l = g[m]
      BY <1>0, <1>2, <2>1
    <2>3. c[m] = Log(1, l)
      BY <1>10, <2>1, <2>2 DEF Stands
    <2>4. c[m] # 0
      BY <1>2, <2>3
    <2>. QED
      BY <1>1, <1>5, <2>1, <2>4
  <1>. QED
    BY <1>4, <1>14, <1>15, Zenon
-----------------------------------------------------------------------------
(* The points are the solutions                                            *)

\* Over infinity there is one point if the degree is odd, and two or none if it is even.
LEMMA InfinityIs ==
    ASSUME NEW k, NEW n, ZeroIndex(k) = n, NEW g, Len(g) \in Nat \ {0, 1},
           NEW leading \in Nat, leading # n
    PROVE  \E u, r \in Nat : /\ PointsOverInfinity(g, k, leading) = [unramified |-> u, ramified |-> r]
                             /\ u + r \in IF Degree(g) % 2 = 1 THEN {1} ELSE {0, 2}
  <1>1. PICK d \in Nat \ {0} : d = Degree(g)
    <2>1. Len(g) - 1 \in Nat \ {0}
      OBVIOUS
    <2>. QED
      BY <2>1 DEF Degree
  <1>2. PICK q \in Nat, r \in 0..(2 - 1) : r = d % 2 /\ d = 2 * q + r
    <2>1. d \in Nat /\ 2 \in Nat \ {0}
      OBVIOUS
    <2>. QED
      BY ONLY <2>1, Division
  <1>3. CASE r = 0
    <2>1. Genus(g) = (d - 2) \div 2
      BY <1>1, <1>2, <1>3, Zenon DEF Genus
    <2>2. (d - 2) \div 2 = q - 1
      BY <1>2, <1>3
    <2>3. ~(Degree(g) < 2 * Genus(g) + 2)
      BY <1>1, <1>2, <1>3, <2>1, <2>2
    <2>4. PointsOverInfinity(g, k, leading) = PointsOver(k, leading)
      BY <2>3, Zenon DEF PointsOverInfinity
    <2>5. PointsOver(k, leading) = [unramified |-> 2, ramified |-> 0] \/ PointsOver(k, leading) = NoPoints
      BY Zenon DEF PointsOver
    <2>6. Degree(g) % 2 # 1
      BY <1>1, <1>2, <1>3
    <2>7. CASE PointsOver(k, leading) = [unramified |-> 2, ramified |-> 0]
      <3>1. 2 + 0 = 2 /\ 2 \in Nat /\ 0 \in Nat
        OBVIOUS
      <3>. QED
        BY <2>4, <2>6, <2>7, <3>1
    <2>8. CASE PointsOver(k, leading) = NoPoints
      <3>1. PointsOver(k, leading) = [unramified |-> 0, ramified |-> 0]
        BY <2>8 DEF NoPoints
      <3>2. 0 + 0 = 0 /\ 0 \in Nat
        OBVIOUS
      <3>. QED
        BY <2>4, <2>6, <3>1, <3>2
    <2>. QED
      BY <2>5, <2>7, <2>8
  <1>4. CASE r = 1
    <2>1. Genus(g) = (d - 1) \div 2
      BY <1>1, <1>2, <1>4 DEF Genus
    <2>2. (d - 1) \div 2 = q
      BY <1>2, <1>4
    <2>3. Degree(g) < 2 * Genus(g) + 2
      BY <1>1, <1>2, <1>4, <2>1, <2>2
    <2>4. PointsOverInfinity(g, k, leading) = [unramified |-> 0, ramified |-> 1]
      BY <2>3, Zenon DEF PointsOverInfinity
    <2>5. Degree(g) % 2 = 1 /\ 0 + 1 = 1 /\ 0 \in Nat /\ 1 \in Nat
      BY <1>1, <1>2, <1>4
    <2>. QED
      BY <2>4, <2>5
  <1>. QED
    BY <1>2, <1>3, <1>4

\* The points of a curve asked for are the solutions, and those over infinity.
LEMMA PointsAreSolutions ==
    ASSUME PrimeExponent = 1, NEW k \in 1..MaxExponent, NEW a \in Seq(Nat),
           \E ix \in 2..Len(a) : a[ix] # 0, \A i \in 1..Len(a) : a[i] < Prime,
           NEW points \in Methods(AskedCurve(a), k)
    PROVE  points.unramified + points.ramified
              - Cardinality(SolutionsOf(k, [x \in Element(k) |-> ValueAt(k, a, x)]))
             \in IF Degree(AskedCurve(a)) % 2 = 1 THEN {1} ELSE {0, 2}
  <1>1. PICK L \in Nat : L = Len(a) /\ a \in [1..L -> Nat]
    OBVIOUS
  <1>2. PICK n1, h1 : Lists(1, n1, h1)
    <2>1. 1 \in 1..MaxExponent
      BY PrimeExponentAssumption
    <2>. QED
      BY <2>1, TableIs
  <1>3. PICK g : g = AskedCurve(a)
    OBVIOUS
  <1>4. PICK m \in 2..L : CurveIs(g, m, n1, h1) /\ Stands(a, g, m, L)
    BY <1>1, <1>2, <1>3, AskedCurveIs
  <1>5. PICK n, h, val :
              /\ ValuesIn(g, k, m, n, h, val)
              /\ \A p \in Methods(g, k) : CountIs(g, k, n, val, p)
    BY <1>4, MethodsAgree
  <1>6. m \in 1..L /\ m \in Nat \ {0, 1} /\ Len(g) = m
    <2>1. m \in 1..L /\ m \in Nat \ {0, 1}
      OBVIOUS
    <2>2. g \in [1..m -> 0..n1]
      BY <1>4 DEF CurveIs
    <2>. QED
      BY <2>1, <2>2
  <1>7. /\ \A x \in 0..n : ValueAt(k, a, Log(k, x)) = Log(k, val[x])
        /\ Converted(g, k)[m] \in 0..n /\ Converted(g, k)[m] # n
    BY <1>1, <1>4, <1>5, <1>6, AskedValuesAre
  <1>8. Lists(k, n, h) /\ val \in [0..n -> 0..n]
    BY <1>5, Zenon DEF ValuesIn, Values
  <1>9. ZeroIndex(k) = n /\ n \in Nat /\ Element(k) = 0..n /\ \A l \in 0..n : Log(k, l) \in 0..n
    BY <1>8, ListsIs
  <1>10. PICK F : F = [x \in Element(k) |-> ValueAt(k, a, x)]
    OBVIOUS
  <1>11. \A x \in 0..n : F[Log(k, x)] = Log(k, val[x])
    BY <1>7, <1>9, <1>10
  <1>12. PICK u \in Nat, r \in Nat :
            /\ u = Cardinality(Unramified(n, val)) /\ r = Cardinality(Ramified(n, val))
            /\ Cardinality(SolutionsOf(k, F)) = 2 * u + r
    <2>1. /\ Cardinality(Unramified(n, val)) \in Nat /\ Cardinality(Ramified(n, val)) \in Nat
          /\ Cardinality(SolutionsOf(k, F))
               = 2 * Cardinality(Unramified(n, val)) + Cardinality(Ramified(n, val))
      BY <1>8, <1>11, SolutionsAre
    <2>. QED
      BY <2>1
  <1>13. PICK leading \in Nat : leading = Converted(g, k)[m] /\ leading # n
    BY <1>7
  <1>14. PICK v \in Nat, s \in Nat :
            /\ PointsOverInfinity(g, k, leading) = [unramified |-> v, ramified |-> s]
            /\ v + s \in IF Degree(g) % 2 = 1 THEN {1} ELSE {0, 2}
    <2>1. Len(g) \in Nat \ {0, 1} /\ ZeroIndex(k) = n /\ leading \in Nat /\ leading # n
      BY <1>6, <1>9, <1>13
    <2>. QED
      BY ONLY <2>1, InfinityIs
  <1>15. points = Plus(PointsOf(u, r), [unramified |-> v, ramified |-> s])
    <2>1. CountIs(g, k, n, val, points)
      BY <1>3, <1>5
    <2>. QED
      BY <1>6, <1>12, <1>13, <1>14, <2>1, Zenon DEF CountIs
  <1>16. points.unramified = 2 * u + v /\ points.ramified = r + s
    BY <1>15 DEF Plus, PointsOf
  <1>17. (2 * u + v) + (r + s) - (2 * u + r) = v + s
    OBVIOUS
  <1>. QED
    BY <1>3, <1>10, <1>12, <1>14, <1>16, <1>17, Zenon

-----------------------------------------------------------------------------
(* The invariant of the count                                              *)

\* The curve is the one that was asked for.
AskedInv ==
    /\ PrimeExponent = 1 /\ asked \in Coefficients
    /\ curve = AskedCurve(asked)

\* Points have been counted by one of the four methods, in fields that have tables.
PointsInv ==
    \A k \in DOMAIN nmb_points : k \in 1..MaxExponent /\ nmb_points[k] \in Methods(curve, k)

\* Nothing is counted before there is a curve, and it is one that can be counted.
CountInv ==
    /\ left \in Seq(1..MaxExponent)
    /\ pc # "count" => left = <<>> /\ DOMAIN nmb_points = {}
    /\ pc = "count" =>
         /\ \E m, n1, h1 : CurveIs(curve, m, n1, h1)
         /\ asked # <<>> => AskedInv
    /\ PointsInv

\* The invariant is enough.
LEMMA CountInvIsRight == CountInv => CountsAreRight
  <1>. SUFFICES ASSUME CountInv PROVE CountsAreRight
    OBVIOUS
  <1>. SUFFICES ASSUME NEW k \in DOMAIN nmb_points
       PROVE  /\ nmb_points[k] = CountNaiveNmod(curve, k)
              /\ nmb_points[k] = CountNaiveZech(curve, k)
              /\ asked # <<>> /\ (\A i \in DOMAIN asked : asked[i] < Prime) =>
                   nmb_points[k].unramified + nmb_points[k].ramified - Solutions(k)
                      \in IF Degree(curve) % 2 = 1 THEN {1} ELSE {0, 2}
    BY Zenon DEF CountsAreRight
  <1>1. pc = "count"
    BY DEF CountInv
  <1>2. PICK m, n1, h1 : CurveIs(curve, m, n1, h1)
    BY <1>1 DEF CountInv
  <1>3. k \in 1..MaxExponent /\ nmb_points[k] \in Methods(curve, k)
    BY DEF CountInv, PointsInv
  <1>4. PICK g, points : g = curve /\ points = nmb_points[k]
    OBVIOUS
  <1>5. PICK n, h, val : \A p \in Methods(g, k) : CountIs(g, k, n, val, p)
    BY <1>2, <1>3, <1>4, MethodsAgree
  <1>6. points = CountNaiveNmod(g, k) /\ points = CountNaiveZech(g, k)
    <2>1. \A p, q \in Methods(g, k) : p = q
      BY <1>5, Zenon DEF CountIs
    <2>2. CountNaiveNmod(g, k) \in Methods(g, k) /\ CountNaiveZech(g, k) \in Methods(g, k)
      BY DEF Methods
    <2>. QED
      BY <1>3, <1>4, <2>1, <2>2, Zenon
  <1>7. ASSUME asked # <<>>, \A i \in DOMAIN asked : asked[i] < Prime
        PROVE  nmb_points[k].unramified + nmb_points[k].ramified - Solutions(k)
                      \in IF Degree(curve) % 2 = 1 THEN {1} ELSE {0, 2}
    <2>1. PrimeExponent = 1 /\ asked \in Coefficients /\ g = AskedCurve(asked)
      BY <1>1, <1>4, <1>7 DEF CountInv, AskedInv
    <2>2. PICK a \in Seq(Nat) : a = asked /\ \E ix \in 2..Len(a) : a[ix] # 0
      BY <2>1, CurveCountingAssumption
    <2>3. \A i \in 1..Len(a) : a[i] < Prime
      BY <1>7, <2>2
    <2>4. points \in Methods(AskedCurve(a), k)
      BY <1>3, <1>4, <2>1, <2>2, Zenon
    <2>5. points.unramified + points.ramified
              - Cardinality(SolutionsOf(k, [x \in Element(k) |-> ValueAt(k, a, x)]))
             \in IF Degree(AskedCurve(a)) % 2 = 1 THEN {1} ELSE {0, 2}
      BY <1>3, <2>1, <2>2, <2>3, <2>4, PointsAreSolutions
    <2>6. Solutions(k) = Cardinality(SolutionsOf(k, [x \in Element(k) |-> ValueAt(k, asked, x)]))
      BY Zenon DEF Solutions, SolutionsOf, Times
    <2>. QED
      BY <1>4, <2>1, <2>2, <2>5, <2>6, Zenon
  <1>. QED
    BY <1>4, <1>6, <1>7, Zenon

\* The fields that points are counted over have tables.
LEMMA TableExponentsAre ==
    ASSUME NEW n \in Nat, n * PrimeExponent <= MaxExponent
    PROVE  TableExponents(n) \in Seq(1..MaxExponent)
  <1>1. PICK e \in Nat \ {0}, M \in Nat : e = PrimeExponent /\ M = MaxExponent
    BY FieldAssumption, PrimeExponentAssumption
  <1>2. ASSUME NEW i \in 1..n
        PROVE  (n + 1 - i) * PrimeExponent \in 1..MaxExponent
    <2>1. PICK x \in Nat : n + 1 - i = x + 1 /\ n = x + 1 + (i - 1)
      <3>1. n - i \in Nat /\ n + 1 - i = (n - i) + 1 /\ n = (n - i) + 1 + (i - 1)
        OBVIOUS
      <3>. QED
        BY <3>1
    <2>2. PICK j \in Nat : j = i - 1
      OBVIOUS
    <2>3. n * e = (x + 1) * e + j * e /\ (x + 1) * e = x * e + e
      BY <2>1, <2>2
    <2>4. x * e \in Nat /\ j * e \in Nat
      OBVIOUS
    <2>5. (x + 1) * e \in 1..M
      BY <1>1, <2>3, <2>4
    <2>. QED
      BY <1>1, <2>1, <2>5, Zenon
  <1>. QED
    BY <1>2 DEF TableExponents

\* So have those of hycu-single, whose count goes up to the genus.
LEMMA GenusIs ==
    ASSUME NEW g, NEW L \in Nat, NEW m \in 2..L, Len(g) = m, (L - 2) \div 2 <= MaxExponent
    PROVE  Genus(g) \in Nat /\ Genus(g) <= MaxExponent
  <1>1. PICK d \in Nat \ {0} : d = Degree(g) /\ d + 1 <= L
    <2>1. m - 1 \in Nat \ {0} /\ (m - 1) + 1 <= L
      OBVIOUS
    <2>. QED
      BY <2>1 DEF Degree
  <1>2. PICK M \in Nat : M = MaxExponent
    BY FieldAssumption
  <1>3. CASE d % 2 = 0
    <2>1. Genus(g) = (d - 2) \div 2
      BY <1>1, <1>3 DEF Genus
    <2>2. (d - 2) \div 2 \in Nat /\ (d - 2) \div 2 <= (L - 2) \div 2
      BY <1>1, <1>3
    <2>. QED
      BY <1>2, <2>1, <2>2
  <1>4. CASE d % 2 # 0
    <2>1. Genus(g) = (d - 1) \div 2
      BY <1>1, <1>4 DEF Genus
    <2>2. (d - 1) \div 2 \in Nat /\ (d - 1) \div 2 <= (L - 2) \div 2
      <3>1. PICK x \in Nat, y \in Nat : x = d - 1 /\ y = L - 2 /\ x <= y
        <4>1. d - 1 \in Nat /\ L - 2 \in Nat /\ d - 1 <= L - 2
          BY <1>1
        <4>. QED
          BY <4>1
      <3>2. x \div 2 \in Nat /\ x \div 2 <= y \div 2
        BY ONLY <3>1, x \in Nat, y \in Nat
      <3>. QED
        BY <3>1, <3>2, Zenon
    <2>. QED
      BY <1>2, <2>1, <2>2
  <1>. QED
    BY <1>3, <1>4

\* The invariant holds at first, and each step keeps it.
LEMMA CountInit == Init => CountInv
  <1>. SUFFICES ASSUME Init PROVE CountInv
    OBVIOUS
  <1>1. pc = "fq" /\ left = <<>> /\ nmb_points = [j \in {} |-> NoPoints]
    BY DEF Init, TableInit, NoPointCounts
  <1>2. DOMAIN nmb_points = {} /\ left \in Seq(1..MaxExponent) /\ pc # "count"
    BY <1>1
  <1>. QED
    BY <1>1, <1>2 DEF CountInv, PointsInv

LEMMA TakePositionInv ==
    ASSUME CountInv, NEW position \in Position, TakePosition(position)
    PROVE  CountInv'
  <1>1. pc = "done" /\ pc' = "count" /\ asked' = <<>> /\ curve' = NewCurve(position) /\ nmb_points' = nmb_points
    BY DEF TakePosition, UseTables
  <1>2. PICK n \in CountExponents : left' = TableExponents(n)
    BY DEF TakePosition
  <1>3. left' \in Seq(1..MaxExponent)
    <2>1. n \in Nat /\ n * PrimeExponent <= MaxExponent
      BY CurveCountingAssumption
    <2>. QED
      BY <1>2, <2>1, TableExponentsAre
  <1>4. DOMAIN nmb_points' = {}
    BY <1>1 DEF CountInv
  <1>5. PICK n1, h1 : Lists(PrimeExponent, n1, h1)
    BY PrimeExponentAssumption, TableIs
  <1>6. PICK d \in 1..MaxDegree :
           /\ position \in [0..d -> 0..ZeroIndex(PrimeExponent)]
           /\ \E ix \in 1..d : position[ix] # ZeroIndex(PrimeExponent)
    BY CurveCountingAssumption, Zenon
  <1>7. ZeroIndex(PrimeExponent) = n1
    BY <1>5, ListsIs
  <1>8. d \in Nat /\ position \in [0..d -> 0..n1] /\ \E ix \in 1..d : position[ix] # n1
    <2>1. d \in Nat
      BY MaxDegreeAssumption
    <2>. QED
      BY <1>6, <1>7, <2>1, Zenon
  <1>9. MakesCurve(position, d, n1, h1)
    BY <1>5, <1>8, NewCurveIs
  <1>10. \E m : CurveIs(curve', m, n1, h1)
    BY <1>1, <1>9, Zenon DEF MakesCurve
  <1>. QED
    BY <1>1, <1>3, <1>4, <1>10 DEF CountInv, PointsInv

LEMMA TakeCoefficientsInv ==
    ASSUME CountInv, NEW coefficients \in Coefficients, TakeCoefficients(coefficients)
    PROVE  CountInv'
  <1>1. /\ pc = "done" /\ pc' = "count" /\ asked' = coefficients
        /\ left' = TableExponents(Genus(curve')) /\ nmb_points' = nmb_points
    BY DEF TakeCoefficients, UseTables
  <1>2. curve' = AskedCurve(coefficients)
    BY Zenon DEF TakeCoefficients, AskedCurve
  <1>3. PrimeExponent = 1
    BY CurveCountingAssumption
  <1>4. PICK a \in Seq(Nat) : /\ a = coefficients /\ (Len(a) - 2) \div 2 <= MaxExponent
                              /\ \E ix \in 2..Len(a) : a[ix] # 0
    BY CurveCountingAssumption
  <1>5. PICK n1, h1 : Lists(1, n1, h1)
    <2>1. 1 \in 1..MaxExponent
      BY <1>3, PrimeExponentAssumption
    <2>. QED
      BY <2>1, TableIs
  <1>6a. PICK L \in Nat : L = Len(a)
    OBVIOUS
  <1>6b. PICK g : g = AskedCurve(a)
    OBVIOUS
  <1>7. PICK m \in 2..L : CurveIs(g, m, n1, h1)
    <2>1. \E m \in 2..Len(a) :
              /\ CurveIs(AskedCurve(a), m, n1, h1)
              /\ (\A i \in 1..Len(a) : a[i] < Prime) => Stands(a, AskedCurve(a), m, Len(a))
      BY <1>3, <1>4, <1>5, AskedCurveIs
    <2>. QED
      BY <1>6a, <1>6b, <2>1, Zenon
  <1>8. curve' = g
    BY <1>2, <1>4, <1>6b, Zenon
  <1>9. left' \in Seq(1..MaxExponent)
    <2>1. Len(g) = m
      <3>1. g \in [1..m -> 0..n1] /\ m \in Nat
        BY <1>7 DEF CurveIs
      <3>. QED
        BY ONLY <3>1
    <2>2. PICK n \in Nat : n = Genus(g) /\ n <= MaxExponent
      BY <1>4, <1>6a, <2>1, GenusIs
    <2>3. n * PrimeExponent <= MaxExponent
      BY <1>3, <2>2
    <2>4. TableExponents(n) \in Seq(1..MaxExponent)
      BY <2>3, TableExponentsAre
    <2>. QED
      BY <1>1, <1>8, <2>2, <2>4, Zenon
  <1>10. DOMAIN nmb_points' = {}
    BY <1>1 DEF CountInv
  <1>11. AskedInv'
    BY <1>1, <1>2, <1>3 DEF AskedInv
  <1>. QED
    BY <1>1, <1>7, <1>8, <1>9, <1>10, <1>11, Zenon DEF CountInv, PointsInv

LEMMA CountStepInv ==
    ASSUME CountInv, NEW way \in {"cpu", "opencl", "naivenmod", "naivezech"}, Count(way)
    PROVE  CountInv'
  <1>1. /\ left # <<>> /\ left' = Tail(left) /\ pc' = pc /\ asked' = asked /\ curve' = curve
    BY DEF Count, table_vars
  <1>2. PICK k : k = Head(left)
    OBVIOUS
  <1>3. k \in 1..MaxExponent /\ left' \in Seq(1..MaxExponent) /\ pc = "count"
    <2>1. left \in Seq(1..MaxExponent) /\ pc = "count"
      BY <1>1 DEF CountInv
    <2>2. Head(left) \in 1..MaxExponent /\ Tail(left) \in Seq(1..MaxExponent)
      <3>1. PICK V, s : V = 1..MaxExponent /\ s = left
        OBVIOUS
      <3>2. s \in Seq(V) /\ s # <<>>
        BY <1>1, <2>1, <3>1, Zenon
      <3>3. Head(s) \in V /\ Tail(s) \in Seq(V)
        BY ONLY <3>2
      <3>. QED
        BY <3>1, <3>3, Zenon
    <2>. QED
      BY <1>1, <1>2, <2>1, <2>2
  <1>4. PICK points : points = CASE way = "naivenmod" -> CountNaiveNmod(curve, k)
                                 [] way = "naivezech" -> CountNaiveZech(curve, k)
                                 [] OTHER             -> CountPoints(curve, k, way = "opencl")
    OBVIOUS
  <1>5. nmb_points' = [j \in DOMAIN nmb_points \cup {k} |->
                          IF j = k THEN points ELSE nmb_points[j]]
    BY <1>2, <1>4, Zenon DEF Count
  <1>6. points \in Methods(curve, k)
    <2>1. CASE way = "naivenmod"
      BY <1>4, <2>1 DEF Methods
    <2>2. CASE way = "naivezech"
      BY <1>4, <2>2 DEF Methods
    <2>3. CASE way = "opencl"
      <3>1. points = CountPoints(curve, k, way = "opencl")
        BY <1>4, <2>3
      <3>2. (way = "opencl") = TRUE
        BY <2>3
      <3>3. points = CountPoints(curve, k, TRUE)
        BY <3>1, <3>2, Zenon
      <3>. QED
        BY <3>3, Zenon DEF Methods
    <2>4. CASE way = "cpu"
      <3>1. points = CountPoints(curve, k, way = "opencl")
        BY <1>4, <2>4
      <3>2. (way = "opencl") = FALSE
        BY <2>4
      <3>3. points = CountPoints(curve, k, FALSE)
        BY <3>1, <3>2, Zenon
      <3>. QED
        BY <3>3, Zenon DEF Methods
    <2>. QED
      BY <2>1, <2>2, <2>3, <2>4
  <1>7. PointsInv'
    <2>1. DOMAIN nmb_points' = DOMAIN nmb_points \cup {k}
      BY <1>5
    <2>2. ASSUME NEW j \in DOMAIN nmb_points'
          PROVE  j \in 1..MaxExponent /\ nmb_points'[j] \in Methods(curve, j)
      <3>1. CASE j = k
        BY <1>3, <1>5, <1>6, <2>1, <3>1
      <3>2. CASE j # k
        <4>1. nmb_points'[j] = nmb_points[j] /\ j \in DOMAIN nmb_points
          BY <1>5, <2>1, <3>2
        <4>. QED
          BY <4>1 DEF CountInv, PointsInv
      <3>. QED
        BY <3>1, <3>2
    <2>. QED
      BY <1>1, <2>2 DEF PointsInv
  <1>8. asked # <<>> => AskedInv'
    BY <1>1, <1>3 DEF CountInv, AskedInv
  <1>. QED
    BY <1>1, <1>3, <1>7, <1>8 DEF CountInv

LEMMA CountNext == CountInv /\ [Next]_vars => CountInv'
  <1>. SUFFICES ASSUME CountInv, [Next]_vars PROVE CountInv'
    OBVIOUS
  <1>1. ASSUME NEW position \in Position, TakePosition(position)
        PROVE  CountInv'
    BY <1>1, TakePositionInv
  <1>2. ASSUME NEW coefficients \in Coefficients, TakeCoefficients(coefficients)
        PROVE  CountInv'
    BY <1>2, TakeCoefficientsInv
  <1>3. ASSUME NEW way \in {"cpu", "opencl", "naivenmod", "naivezech"}, Count(way)
        PROVE  CountInv'
    BY <1>3, CountStepInv
  <1>4. CASE MakeTables
    <2>1. pc # "count" /\ pc' # "count"
      BY <1>4 DEF MakeTables, TableNext, PushPower, DrawAgain, FqElementTableDone,
                  RecordPower, RetryCandidate, ReductionTableDone
    <2>2. UNCHANGED <<asked, ways, curve, nmb_points, left, key>>
      BY <1>4 DEF MakeTables, curve_vars
    <2>. QED
      BY <2>1, <2>2 DEF CountInv, PointsInv
  <1>5. CASE Register
    <2>1. UNCHANGED <<pc, asked, curve, nmb_points, left>>
      BY <1>5 DEF Register, table_vars
    <2>. QED
      BY <2>1 DEF CountInv, PointsInv, AskedInv
  <1>6. CASE UNCHANGED vars
    <2>1. UNCHANGED <<pc, asked, curve, nmb_points, left>>
      BY <1>6 DEF vars, table_vars, curve_vars
    <2>. QED
      BY <2>1 DEF CountInv, PointsInv, AskedInv
  <1>. QED
    BY <1>1, <1>2, <1>3, <1>4, <1>5, <1>6 DEF Next

\* Over each field, the logarithms on the processor and in the kernel give what
\* evaluating the polynomial in each of the two arithmetics of FLINT gives; and
\* for hycu-single that is the number of solutions of the equation asked for, and
\* one, two or none over infinity (curve.cc, 250-480; single_curve_fp.cc, 57).
THEOREM CountsRight == Spec => []CountsAreRight
  <1>1. Init => CountInv
    BY CountInit
  <1>2. CountInv /\ [Next]_vars => CountInv'
    BY CountNext
  <1>3. CountInv => CountsAreRight
    BY CountInvIsRight
  <1>. QED
    BY <1>1, <1>2, <1>3, PTL DEF Spec
=============================================================================
