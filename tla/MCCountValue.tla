---------------------------- MODULE MCCountValue ----------------------------
(* CountValue with a pair of twisted keys and one that is its own.         *)
EXTENDS CountValue

MCTwin == <<2, 1, 3>>
=============================================================================
