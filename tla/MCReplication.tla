--------------------------- MODULE MCReplication ---------------------------
(* Small networks: one call between two peers, or a chain of three. *)
EXTENDS Replication

CONSTANTS pc, phone, tablet, alice, bob

MCHome == [a \in Author |-> IF a = alice THEN pc ELSE phone]

MCOneCall == {<<pc, phone>>}

\* The ends never meet: both dial the phone.
MCChainCalls == {<<pc, phone>>, <<tablet, phone>>}
=============================================================================
