----------------------------- MODULE MCDiskImage -----------------------------
(* DiskImage on a file of three sectors. *)
EXTENDS DiskImage, TLC

(* The contents that are not Zero are alike. *)
Symmetry == Permutations(Content \ {Zero})
=============================================================================
