------------------------------ MODULE MCViews ------------------------------
(***************************************************************************)
(* Me: a post, a follow of Bob, a block of Carol and its end, a vote.      *)
(* Bob: a thread, a repost of Carol's picture, a reply of a later time, a  *)
(* vote and its opposite, a deletion he may not make.                      *)
(* Carol: a reply, a picture, which she deletes, a profile and another one *)
(* from a device whose clock is behind.                                    *)
(***************************************************************************)
EXTENDS Views

CONSTANTS me, bob, carol,
          m1, m2, m3, m4, m5, b1, b2, b3, b4, b5, b6, c1, c2, c3, c4, c5, none

MCMine == <<m1, m2, m3, m4, m5>>
MCBobs == <<b1, b2, b3, b4, b5, b6>>
MCCarols == <<c1, c2, c3, c4, c5>>
MCEvent == Range(MCMine \o MCBobs \o MCCarols)

MCAuthorOf == [e \in MCEvent |->
    CASE e \in Range(MCMine) -> me [] e \in Range(MCBobs) -> bob [] OTHER -> carol]
MCSeqOf == [e \in MCEvent |->
    CHOOSE i \in 1..6 : \E q \in {MCMine, MCBobs, MCCarols} : i <= Len(q) /\ q[i] = e]
MCIdOrder == [e \in MCEvent |->
    MCSeqOf[e] + (CASE MCAuthorOf[e] = bob -> 0 [] MCAuthorOf[e] = me -> 7 [] OTHER -> 14)]

Plain(kind, target, ts) ==
    [kind |-> kind, target |-> target, root |-> none, board |-> none, ts |-> ts,
     value |-> 0, media |-> FALSE]

MCBody == [e \in MCEvent |->
    CASE e = m1 -> Plain("post", none, 3)
      [] e = m2 -> Plain("follow", bob, 3)
      [] e = m3 -> Plain("block", carol, 3)
      [] e = m4 -> Plain("unblock", carol, 3)
      [] e = m5 -> [Plain("like", b1, 3) EXCEPT !.value = 1]
      [] e = b1 -> [Plain("thread", none, 2) EXCEPT !.board = "misc"]
      [] e = b2 -> Plain("repost", c2, 3)
      [] e = b3 -> [Plain("reply", b1, 5) EXCEPT !.root = b1]
      [] e = b4 -> [Plain("like", m1, 3) EXCEPT !.value = 1]
      [] e = b5 -> [Plain("like", m1, 3) EXCEPT !.value = 2]
      [] e = b6 -> Plain("delete", m1, 3)
      [] e = c1 -> [Plain("reply", m1, 4) EXCEPT !.root = b1]
      [] e = c2 -> [Plain("post", none, 1) EXCEPT !.media = TRUE]
      [] e = c3 -> Plain("delete", c2, 5)
      [] e = c4 -> Plain("profile", none, 5)
      [] e = c5 -> Plain("profile", none, 4)]

MCHides == {carol, b3}
MCLists == {{bob, c1}, {c2}}
MCQuery == {{b1, b2, c2}}
=============================================================================
