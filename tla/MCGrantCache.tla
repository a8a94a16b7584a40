---------------------------- MODULE MCGrantCache ----------------------------
(* GrantCache on a cache of four pages that evicts two at a time. *)
EXTENDS GrantCache

Symmetry == Permutations(Frame) \cup Permutations(Addr)
=============================================================================
