------------------------------ MODULE MCClient ------------------------------
(* A paired peer of two routes and a link to the second, one peer that     *)
(* dials us, and room for two routes.                                      *)
EXTENDS Client

CONSTANTS ann, ben, ann1, ann2, ben1

MCPeerOf == [r \in {ann1, ann2, ben1} |-> IF r \in {ann1, ann2} THEN ann ELSE ben]
MCPaired == <<ann1>>
=============================================================================
