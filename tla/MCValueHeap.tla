---------------------------- MODULE MCValueHeap ----------------------------
(***************************************************************************)
(* Small instances of ValueHeap.                                           *)
(***************************************************************************)
EXTENDS ValueHeap, TLC

Symmetry == Permutations(Vars) \cup Permutations(Cells)
=============================================================================
