------------------------------- MODULE Events -------------------------------
(***************************************************************************)
(* Signed events, as every s2s peer sees them.                             *)
(*                                                                         *)
(* An event's id is the hash of its signed body (event.js idBytes), so the *)
(* id and the event are one thing here: a member of Event.  The functions  *)
(* below are the members of the body the protocol's control depends on;    *)
(* text, media and timestamps are abstracted away.                         *)
(***************************************************************************)
EXTENDS Naturals, FiniteSets

CONSTANTS
    Author,     \* public keys
    Event,      \* every event some author has signed or may sign
    None,       \* the absence of an event (prev = null, no head, no target)
    AuthorOf,   \* who signed it
    SeqOf,      \* its position in the author's log, from 1
    PrevOf,     \* the id of the event before it, None at position 1
    TargetOf,   \* what a 'delete' event names; None for the other kinds
    Valid       \* the events verifyEvent accepts

(***************************************************************************)
(* validateShape: seq is an integer from 1, prev is null exactly at seq 1. *)
(* A hash cannot contain itself, so no event names itself as its prev or   *)
(* as its target.                                                          *)
(***************************************************************************)
ASSUME EventAssumption ==
    /\ None \notin Event
    /\ AuthorOf \in [Event -> Author]
    /\ SeqOf \in [Event -> Nat \ {0}]
    /\ PrevOf \in [Event -> Event \cup {None}]
    /\ TargetOf \in [Event -> Event \cup {None}]
    /\ Valid \subseteq Event
    /\ \A e \in Event : /\ SeqOf[e] = 1 <=> PrevOf[e] = None
                        /\ TargetOf[e] # e
                        /\ PrevOf[e] # e

\* The position of a head: 0 when the author has none yet.
TipSeq(h) == IF h = None THEN 0 ELSE SeqOf[h]

\* The events of one author in a set.
Of(S, a) == {e \in S : AuthorOf[e] = a}

(***************************************************************************)
(* A set of events is a chain for every author: one event per position, no *)
(* gap below any event, and every prev is the event one position before.   *)
(***************************************************************************)
OnePerSlot(S) ==
    \A e, f \in S : AuthorOf[e] = AuthorOf[f] /\ SeqOf[e] = SeqOf[f] => e = f

Linked(S) ==
    \A e \in S : SeqOf[e] # 1 =>
        /\ PrevOf[e] \in S
        /\ AuthorOf[PrevOf[e]] = AuthorOf[e]
        /\ SeqOf[PrevOf[e]] + 1 = SeqOf[e]

IsChain(S) == OnePerSlot(S) /\ Linked(S)
=============================================================================
