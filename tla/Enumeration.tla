---------------------------- MODULE Enumeration -----------------------------
(***************************************************************************)
(* What running through a set promises: every element comes up, none of    *)
(* them twice, nothing else does.                                          *)
(***************************************************************************)
EXTENDS Sequences, Functions

VARIABLES
    elements,   \* what is to be run through
    listed      \* what has come up, in its order

Init == listed = <<>>

List(x) ==
    /\ x \notin Range(listed)
    /\ listed' = Append(listed, x)
    /\ UNCHANGED elements

Next == \E x \in elements : List(x)

Spec == Init /\ [][Next]_<<elements, listed>> /\ WF_<<elements, listed>>(Next)
=============================================================================
