------------------------------ MODULE MCMerger ------------------------------
(***************************************************************************)
(* Five curves in packages of two or of four: the last block is the same   *)
(* in both.                                                                *)
(***************************************************************************)
EXTENDS Merger

MCPositions == << {0, 1}, {2, 3}, {4}, {0, 1, 2, 3} >>
MCPackagings == {{1, 2, 3}, {3, 4}}
=============================================================================
