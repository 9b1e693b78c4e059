----------------------------- MODULE MCRingThreads -----------------------------
(***************************************************************************)
(* RingThreads for TLC: every placement of the virtual nodes on a small    *)
(* hash range, up to a renaming of the nodes.                              *)
(***************************************************************************)
EXTENDS RingThreads, TLC

MCHash == 0 .. 5

Symmetry == Permutations(Node)

=============================================================================
