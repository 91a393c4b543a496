------------------------------- MODULE Config -------------------------------
(***************************************************************************)
(* The work of a run, as the configuration file gives it: the nodes of the *)
(* section Moduli, in their order, and the blocks of curves that           *)
(* CurveIterator yields for a node, in its order.                          *)
(***************************************************************************)
EXTENDS Naturals

CONSTANTS NbNodes,    \* number of configuration nodes
          NbBlocks    \* number of blocks of each node

ASSUME ConfigAssumption == NbNodes \in Nat /\ NbBlocks \in Nat

Node == 1 .. NbNodes
Block == 1 .. NbBlocks

\* No node: the state before the first update_config.
NoNode == 0
=============================================================================
