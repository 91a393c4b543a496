------------------------- MODULE TableConstruction --------------------------
(***************************************************************************)
(* How the tables of a field find a generator.  FLINT's fq_nmod_gen need   *)
(* not generate the multiplicative group when the field is not given by a  *)
(* Conway polynomial (reduction_table.cc, 125), so the constructors of     *)
(* FqElementTable and ReductionTable list the powers of a candidate and,   *)
(* when these repeat too early, start over with one from fq_nmod_randtest. *)
(* The fields of this model are given by Conway polynomials; that          *)
(* fq_nmod_gen may return any element that generates the field stands for  *)
(* the other ones.                                                         *)
(***************************************************************************)
EXTENDS FieldTables

VARIABLES
    pc,             \* "fq", "reduction": the loop that runs; "done"
    exponent,       \* of the field
    gen,            \* the candidate
    gen_power,      \* the power of gen reached
    fq_elements,    \* FqElementTable::fq_elements
    gen_powers,     \* compute_incrementation_table: the powers that were met
    zero_drawn      \* history: FqElementTable was offered 0 as a generator

table_vars == <<pc, exponent, gen, gen_power, fq_elements, gen_powers, zero_drawn>>

pred == PrimePowerPred(exponent)

\* What fq_nmod_gen may return: elements that lie in no smaller field.
FieldGenerators ==
    {g \in Element(exponent) \ {0} :
        \A k \in 1..(exponent - 1) : Powers(exponent, g, Order(k) - 1)[Order(k) - 1] # 1}

TableInit ==
    /\ pc = "fq"
    /\ exponent \in 1..MaxExponent
    /\ gen \in FieldGenerators
    /\ gen_power = gen
    /\ fq_elements = <<1>>
    /\ gen_powers = <<>>
    /\ zero_drawn = FALSE

-----------------------------------------------------------------------------
(* FqElementTable                                                          *)

\* One round of the inner loop: a power that is not 1 is appended.
PushPower ==
    /\ pc = "fq"
    /\ Len(fq_elements) < pred
    /\ gen_power # 1
    /\ fq_elements' = Append(fq_elements, gen_power)
    /\ gen_power' = Mul[exponent, gen_power, gen]
    /\ UNCHANGED <<pc, exponent, gen, gen_powers, zero_drawn>>

\* The powers came back to 1 too early; fq_nmod_randtest gives the next
\* candidate, whose first power is 1 again.
DrawAgain(g) ==
    /\ pc = "fq"
    /\ Len(fq_elements) < pred
    /\ gen_power = 1
    /\ gen' = g
    /\ gen_power' = g
    /\ fq_elements' = <<1>>
    /\ zero_drawn' = (zero_drawn \/ g = 0)
    /\ UNCHANGED <<pc, exponent, gen_powers>>

\* The list is complete and gets zero as its last entry.  The loop has drawn
\* once more, to no effect.  ReductionTable starts.
FqElementTableDone(g) ==
    /\ pc = "fq"
    /\ Len(fq_elements) >= pred
    /\ fq_elements' = Append(fq_elements, 0)
    /\ pc' = "reduction"
    /\ gen' = g
    /\ gen_power' = 1
    /\ UNCHANGED <<exponent, gen_powers, zero_drawn>>

-----------------------------------------------------------------------------
(* ReductionTable::compute_incrementation_table                            *)

Met == {0} \cup Range(gen_powers)

\* Mutant: only a repetition of the first power is noticed.
Repeated_first == gen_power = 1 /\ gen_powers # <<>>

Repeated == gen_power \in Met

\* One round of the inner loop: gen_powers[a] = ix, unless a was met before.
RecordPower ==
    /\ pc = "reduction"
    /\ Len(gen_powers) < pred
    /\ ~Repeated
    /\ gen_powers' = Append(gen_powers, gen_power)
    /\ gen_power' = Mul[exponent, gen_power, gen]
    /\ UNCHANGED <<pc, exponent, gen, fq_elements, zero_drawn>>

RetryCandidate(g) ==
    /\ pc = "reduction"
    /\ Len(gen_powers) < pred
    /\ Repeated
    /\ gen' = g
    /\ gen_power' = 1
    /\ gen_powers' = <<>>
    /\ UNCHANGED <<pc, exponent, fq_elements, zero_drawn>>

ReductionTableDone ==
    /\ pc = "reduction"
    /\ Len(gen_powers) >= pred
    /\ pc' = "done"
    /\ UNCHANGED <<exponent, gen, gen_power, fq_elements, gen_powers, zero_drawn>>

TableNext ==
    \/ PushPower
    \/ \E g \in Element(exponent) : DrawAgain(g)
    \/ \E g \in FieldGenerators : FqElementTableDone(g)
    \/ RecordPower
    \/ \E g \in Element(exponent) : RetryCandidate(g)
    \/ ReductionTableDone

-----------------------------------------------------------------------------

\* FqElementTable lists every element once, the powers of one in their order and
\* then zero, whichever candidates it has met, unless 0 was among them: the powers
\* of 0 never come back to 1, is_gen (fq_element_table.cc, 62-93) stays true, and
\* the table is of no use.  When the loop of ReductionTable ends,
\* incrementation_table has the j with gen^j = 1 + gen^i for given gen^i, or q - 1
\* if there is none (reduction_table.hh, 76-77), for every candidate that the loop
\* may end with.
TablesAreRight ==
    /\ pc \in {"reduction", "done"} =>
         /\ Len(fq_elements) = Order(exponent)
         /\ fq_elements[1] = 1 /\ fq_elements[Order(exponent)] = 0
         /\ IF zero_drawn THEN \A i \in 2..pred : fq_elements[i] = 0
            ELSE /\ Range(fq_elements) = Element(exponent)
                 /\ \A i \in 2..pred : fq_elements[i]
                                          = Mul[exponent, fq_elements[i - 1], fq_elements[2]]
    /\ pc = "done" =>
         LET powers == [i \in 0..(pred - 1) |-> gen_powers[i + 1]]
             table == IncrementationTable(exponent, GenPowers(exponent, powers))
         IN  /\ Range(powers) = Element(exponent) \ {0}
             /\ table[pred] = 0
             /\ \A i \in 0..(pred - 1) :
                   IF Add[exponent, powers[i], 1] = 0 THEN table[i] = pred
                   ELSE table[i] < pred /\ powers[table[i]] = Add[exponent, powers[i], 1]
=============================================================================
