------------------------------ MODULE MCHashRing ------------------------------
(***************************************************************************)
(* HashRing for TLC: every placement of the virtual nodes on a small hash  *)
(* range, up to a renaming of the nodes.                                   *)
(***************************************************************************)
EXTENDS HashRing, TLC

MCHash == 0 .. 7

Symmetry == Permutations(Node)

=============================================================================
