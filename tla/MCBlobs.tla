------------------------------ MODULE MCBlobs ------------------------------
(* Small instances of Blobs: x and z are gone, y is to be had. *)
EXTENDS Blobs

CONSTANTS x, y, z, p, q, e1, e2

MCEvent == {e1, e2}

MCMedia == [e \in MCEvent |-> IF e = e1 THEN <<x, y>> ELSE <<z>>]
=============================================================================
