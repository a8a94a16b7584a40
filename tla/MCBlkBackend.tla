----------------------------- MODULE MCBlkBackend -----------------------------
(* Three frontends in a backend for two; two of them share an image. *)
EXTENDS BlkBackend

CONSTANTS f1, f2, f3, disk1, disk2

MCParams == [f \in Frontend |-> IF f = f1 THEN disk1 ELSE disk2]
=============================================================================
