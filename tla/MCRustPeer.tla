----------------------------- MODULE MCRustPeer -----------------------------
(***************************************************************************)
(* The peer's own p1 or q1; Bob's b1, b2 with a fork x2, b3 on top of b2;  *)
(* Carol's c2, whose first event never comes.  A picture in b1 and b2, a clip in b3.  *)
(***************************************************************************)
EXTENDS RustPeer

CONSTANTS me, bob, carol, p1, q1, b1, b2, b3, x2, c2, pic, clip

MCAuthor == {me, bob, carol}
MCEvent == {p1, q1, b1, b2, b3, x2, c2}
MCAuthorOf == [e \in MCEvent |->
    CASE e \in {p1, q1} -> me [] e = c2 -> carol [] OTHER -> bob]
MCSeqOf == [e \in MCEvent |->
    CASE e \in {p1, q1, b1} -> 1 [] e = b3 -> 3 [] OTHER -> 2]
MCPrevOf == [e \in MCEvent |->
    CASE e \in {b2, x2} -> b1 [] e = b3 -> b2 [] e = c2 -> p1 [] OTHER -> None]
MCTargetOf == [e \in MCEvent |-> IF e = b3 THEN b1 ELSE None]
MCMediaOf == [e \in MCEvent |-> 
    CASE e \in {b1, b2} -> {pic} [] e = b3 -> {clip} [] OTHER -> {}]
=============================================================================
