----------------------------- MODULE ConfigNode -----------------------------
(***************************************************************************)
(* ConfigNode of src/src/config: what the program makes of a node of the   *)
(* configuration file, a record of the keys that the node has.  Numbers    *)
(* are read as int and kept as unsigned int, which has UIntSize values.    *)
(***************************************************************************)
EXTENDS Integers

CONSTANT UIntSize

ASSUME UIntSizeAssumption == UIntSize \in Nat \ {0}

Required == {"Prime", "PrimeExponent", "Genus", "ResultPath", "PackageSize"}

\* decode returns false when a required key is missing, and as<bool> throws when
\* WithMarkedPoint is; as<ConfigNode> throws in the first case.
IsDecodable(text) == Required \cup {"WithMarkedPoint"} \subseteq DOMAIN text

Unsigned(n) == n % UIntSize

\* decode, but for the result path.
Decoded(text) ==
    [prime |-> Unsigned(text.Prime), prime_exponent |-> Unsigned(text.PrimeExponent),
     genus |-> Unsigned(text.Genus), with_marked_point |-> text.WithMarkedPoint,
     count_exponent |-> Unsigned(IF "CountExponent" \in DOMAIN text THEN text.CountExponent
                                 ELSE text.Genus),
     package_size |-> Unsigned(text.PackageSize)]

\* verify, but for the result path.
IsVerified(node) ==
    0 \notin {node.prime, node.prime_exponent, node.genus, node.count_exponent,
              node.package_size}
=============================================================================
