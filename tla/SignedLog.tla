----------------------------- MODULE SignedLog -----------------------------
(***************************************************************************)
(* What a replica promises about the logs it keeps, whatever is between    *)
(* the network and its disk: on disk every author's log only ever grows,   *)
(* by the event that continues it; what the replica shows (its views and   *)
(* the vector it advertises) is a prefix of what is on disk, and is lost   *)
(* only as a whole, when the process stops.                                *)
(***************************************************************************)
EXTENDS Events

VARIABLES
    durable,    \* events that survive a restart
    visible     \* events the running replica shows and serves

vars == <<durable, visible>>

\* e is the event that continues its author's log in S.
Continues(e, S) ==
    /\ \A f \in Of(S, AuthorOf[e]) : SeqOf[f] < SeqOf[e]
    /\ SeqOf[e] # 1 => /\ PrevOf[e] \in S
                       /\ AuthorOf[PrevOf[e]] = AuthorOf[e]
                       /\ SeqOf[PrevOf[e]] + 1 = SeqOf[e]

Init == durable = {} /\ visible = {}

Record(e) ==
    /\ Continues(e, durable)
    /\ durable' = durable \cup {e}
    /\ UNCHANGED visible

Show(e) ==
    /\ e \in durable
    /\ Continues(e, visible)
    /\ visible' = visible \cup {e}
    /\ UNCHANGED durable

Stop ==
    /\ visible' = {}
    /\ UNCHANGED durable

Next ==
    \/ \E e \in Event : Record(e)
    \/ \E e \in Event : Show(e)
    \/ Stop

Spec == Init /\ [][Next]_vars
=============================================================================
