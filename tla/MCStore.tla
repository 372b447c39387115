------------------------------ MODULE MCStore ------------------------------
(***************************************************************************)
(* Small instances of Store.  Own events: p1 and q1 both claim position 1, *)
(* p2 deletes p1 and continues it.  Bob: a chain b1 b2 b3 and a fork x2 of *)
(* b2, with y3 on top of the fork.  b2 tries to delete p1, b3 deletes b1.  *)
(* Carol: c2 and c3, whose first event never comes.                        *)
(***************************************************************************)
EXTENDS Store

CONSTANTS me, bob, carol,
          p1, q1, p2, b1, b2, b3, x2, y3, c2, c3, bad

MCAuthor == {me, bob, carol}

Mine == {p1, q1, p2}
Bobs == {b1, b2, b3, x2, y3, bad}
Carols == {c2, c3}
MCEvent == Mine \cup Bobs \cup Carols

MCAuthorOf == [e \in MCEvent |->
    CASE e \in Mine -> me [] e \in Bobs -> bob [] e \in Carols -> carol]

MCSeqOf == [e \in MCEvent |->
    CASE e \in {p1, q1, b1} -> 1
      [] e \in {p2, b2, x2, bad, c2} -> 2
      [] e \in {b3, y3, c3} -> 3]

MCPrevOf == [e \in MCEvent |->
    CASE e = p2 -> p1 [] e \in {b2, x2, bad} -> b1
      [] e = b3 -> b2 [] e = y3 -> x2
      [] e = c2 -> p1 [] e = c3 -> c2
      [] OTHER -> None]

MCTargetOf == [e \in MCEvent |->
    CASE e = p2 -> p1 [] e = b2 -> p1 [] e = b3 -> b1 [] OTHER -> None]

MCValid == MCEvent \ {bad}
=============================================================================
