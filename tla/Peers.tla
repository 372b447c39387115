------------------------------- MODULE Peers -------------------------------
(***************************************************************************)
(* What one node does about the peers it is connected to (packages/net/    *)
(* src/network.js): whom it syncs with and when, who counts as a           *)
(* participant, whose account is known to be there.                        *)
(*                                                                         *)
(* Replication says what a session does; here a session is a call of       *)
(* syncPeer that ends some time, well or badly, perhaps long after its     *)
(* connection is gone.  libp2p opens, identifies and loses connections as  *)
(* it likes.  Timers fire after any delay: 800 ms, 1.5 s, 4 s, 10 s and    *)
(* 30 s are not compared, except that a connection is superseded or not.   *)
(***************************************************************************)
EXTENDS Naturals, FiniteSets

CONSTANTS
    Peer,
    Syncers,        \* the peers that speak SYNC_PROTOCOL
    MaxConn,        \* bound: peer -> connections it ever has
    MaxNews         \* bound: events learnt or written

ASSUME PeersAssumption ==
    /\ Syncers \subseteq Peer
    /\ MaxConn \in [Peer -> Nat] /\ MaxNews \in Nat

VARIABLES
    public,         \* opts.publicRouting
    opened,         \* peer -> connections it has had; the last is the newest
    conns,          \* peer -> those that are open
    unknown,        \* peer -> those that are open and not identified yet
    settle,         \* peer -> 800 ms timers running
    prune,          \* peers with a prune timer running
    checked,        \* peer -> connections a ping of checkPeers is testing
    sync,           \* peer -> the token in the map, its again, the calls running
    forward,        \* the forward timer is running
    participants, accounts, asking,
    news,           \* events learnt so far
    owed            \* peers nobody has offered the latest news yet (no code)

connVars == <<opened, conns, unknown, settle, prune, checked>>
whoVars == <<participants, accounts, asking>>
vars == <<public, connVars, sync, forward, whoVars, news, owed>>

NoToken == 0
Connected == {p \in Peer : conns[p] # {}}

\* participantPeers, and the first guard of syncPeer
Counts(p, who) == ~public \/ p \in who
ParticipantPeers == {p \in Connected : Counts(p, participants)}

-----------------------------------------------------------------------------
(* syncPeer *)

Token(s) == CHOOSE t \in 1..(Cardinality(s.runs) + 1) : t \notin s.runs

\* A second call while one runs only marks the first.
Begin(s) ==
    IF s.token # NoToken THEN [s EXCEPT !.again = TRUE]
    ELSE [token |-> Token(s), again |-> FALSE, runs |-> s.runs \cup {Token(s)}]

Started(Q) == {p \in Q : sync[p].token = NoToken}

\* syncPeer is called for each of Q, as far as it counts among who.
CallSync(Q, who) ==
    LET called == {p \in Q : Counts(p, who)}
    IN  /\ sync' = [p \in Peer |-> IF p \in called THEN Begin(sync[p]) ELSE sync[p]]
        /\ owed' = owed \ Started(called)

ForgetIfLast(s, t) ==
    IF s.token = t THEN [token |-> NoToken, again |-> FALSE, runs |-> s.runs \ {t}]
    ELSE [s EXCEPT !.runs = @ \ {t}]

ForgetAlways(s, t) == [token |-> NoToken, again |-> FALSE, runs |-> s.runs \ {t}]

ForgetNever(s, t) == [s EXCEPT !.runs = @ \ {t}]

\* The finally block: only the call whose token is still there clears it.
Forget(s, t) == ForgetIfLast(s, t)

EndCall(p, t) ==
    LET s    == sync[p]
        redo == s.token = t /\ s.again /\ p \in Connected /\ Counts(p, participants')
    IN  /\ t \in s.runs
        /\ sync' = [sync EXCEPT ![p] = IF redo THEN Begin(Forget(s, t)) ELSE Forget(s, t)]
        /\ owed' = IF redo THEN owed \ {p} ELSE owed

\* peer:connect and peer:disconnect delete the token; the call runs on.
Dropped(s) == [s EXCEPT !.token = NoToken, !.again = FALSE]

-----------------------------------------------------------------------------
(* Presence *)

AskPresence(Q) == asking' = asking \cup Q

\* markSynced, for a peer that may be gone by now
MarkSynced(p) ==
    /\ participants' = participants \cup {p}
    /\ AskPresence({p})
    /\ UNCHANGED accounts

PresenceUnguarded(p) ==
    /\ p \in asking /\ p \in Syncers
    /\ asking' = asking \ {p}
    /\ accounts' = accounts \cup {p}
    /\ participants' = participants \cup {p}
    /\ UNCHANGED <<public, connVars, sync, forward, news, owed>>

\* A proof counts only while the peer is connected.
Presence(p) ==
    /\ p \in asking /\ p \in Syncers
    /\ asking' = asking \ {p}
    /\ IF p \in Connected
       THEN accounts' = accounts \cup {p} /\ participants' = participants \cup {p}
       ELSE UNCHANGED <<accounts, participants>>
    /\ UNCHANGED <<public, connVars, sync, forward, news, owed>>

PresenceFails(p) ==
    /\ p \in asking
    /\ asking' = asking \ {p}
    /\ UNCHANGED <<public, connVars, sync, forward, participants, accounts, news, owed>>

PresenceTimer ==
    /\ AskPresence(ParticipantPeers)
    /\ UNCHANGED <<public, connVars, sync, forward, participants, accounts, news, owed>>

-----------------------------------------------------------------------------
(* Connections *)

\* Of the older connections those of at least 10 s are closed: any of them here.
Open(p) ==
    /\ opened[p] < MaxConn[p]
    /\ opened' = [opened EXCEPT ![p] = @ + 1]
    /\ \E old \in SUBSET conns[p] :
           /\ conns' = [conns EXCEPT ![p] = (@ \ old) \cup {opened'[p]}]
           /\ unknown' = [unknown EXCEPT ![p] = (@ \ old) \cup {opened'[p]}]
    /\ IF p \in Connected
       THEN UNCHANGED <<sync, settle, owed>>
       ELSE /\ sync' = [sync EXCEPT ![p] = Dropped(@)]
            /\ settle' = [settle EXCEPT ![p] = @ + 1]
            /\ owed' = owed \cup {p}
    /\ UNCHANGED <<public, prune, checked, forward, whoVars, news>>

\* The connections C of p close; with the last one p is disconnected.
CloseConns(p, C) ==
    /\ conns' = [conns EXCEPT ![p] = @ \ C]
    /\ unknown' = [unknown EXCEPT ![p] = @ \ C]
    /\ IF p \in Connected /\ conns[p] \subseteq C
       THEN /\ sync' = [sync EXCEPT ![p] = Dropped(@)]
            /\ participants' = participants \ {p}
            /\ accounts' = accounts \ {p}
            /\ owed' = owed \ {p}
       ELSE UNCHANGED <<sync, participants, accounts, owed>>
    /\ UNCHANGED <<public, opened, settle, forward, asking, news>>

Lose(p, c) ==
    /\ c \in conns[p]
    /\ CloseConns(p, {c})
    /\ UNCHANGED <<prune, checked>>

\* peer:identify of an S2S peer, and of any other
Identify(p, c) ==
    /\ c \in unknown[p]
    /\ unknown' = [unknown EXCEPT ![p] = @ \ {c}]
    /\ IF p \in Syncers
       THEN /\ participants' = participants \cup {p}
            /\ AskPresence({p})
            /\ CallSync({p}, participants')
            /\ UNCHANGED prune
       ELSE /\ prune' = IF public THEN prune \cup {p} ELSE prune
            /\ UNCHANGED <<participants, asking, sync, owed>>
    /\ UNCHANGED <<public, opened, conns, settle, checked, forward, accounts, news>>

\* The 4 s timer; another use of the peer, as a relay say, spares it too.
Prune(p) ==
    /\ p \in prune
    /\ prune' = prune \ {p}
    /\ \E needed \in BOOLEAN :
           CloseConns(p, IF needed \/ p \in participants THEN {} ELSE conns[p])
    /\ UNCHANGED checked

\* checkPeers pings every peer, and closes the connections it had when asked.
Check ==
    /\ checked' = conns
    /\ UNCHANGED <<public, opened, conns, unknown, settle, prune, sync, forward,
                   whoVars, news, owed>>

NoAnswer(p) ==
    /\ checked[p] # {}
    /\ CloseConns(p, checked[p])
    /\ checked' = [checked EXCEPT ![p] = {}]
    /\ UNCHANGED prune

Answer(p) ==
    /\ checked[p] # {}
    /\ checked' = [checked EXCEPT ![p] = {}]
    /\ UNCHANGED <<public, opened, conns, unknown, settle, prune, sync, forward,
                   whoVars, news, owed>>

-----------------------------------------------------------------------------
(* Sessions *)

Settle(p) ==
    /\ settle[p] > 0
    /\ settle' = [settle EXCEPT ![p] = @ - 1]
    /\ CallSync({p}, participants)
    /\ UNCHANGED <<public, opened, conns, unknown, prune, checked, forward, whoVars, news>>

SyncDone(p, t) ==
    /\ p \in Syncers
    /\ MarkSynced(p)
    /\ EndCall(p, t)
    /\ UNCHANGED <<public, connVars, forward, news>>

SyncFails(p, t) ==
    /\ UNCHANGED participants
    /\ EndCall(p, t)
    /\ UNCHANGED <<public, connVars, forward, accounts, asking, news>>

\* A session that p began ends well on our side (onSync).
Served(p) ==
    /\ p \in Syncers /\ opened[p] > 0
    /\ MarkSynced(p)
    /\ UNCHANGED <<public, connVars, sync, forward, news, owed>>

\* The timer calls syncAll.
Forward ==
    /\ forward
    /\ forward' = FALSE
    /\ CallSync(Connected, participants)
    /\ UNCHANGED <<public, connVars, whoVars, news>>

\* resyncTimer, and the "sync" action of the application
SyncAll ==
    /\ CallSync(Connected, participants)
    /\ UNCHANGED <<public, connVars, forward, whoVars, news>>

\* An event is stored or written, or gossip shows that we are behind.
Learn ==
    /\ news < MaxNews
    /\ news' = news + 1
    /\ forward' = TRUE
    /\ owed' = owed \cup ParticipantPeers
    /\ UNCHANGED <<public, connVars, sync, whoVars>>

-----------------------------------------------------------------------------

Init ==
    /\ public \in BOOLEAN
    /\ opened = [p \in Peer |-> 0]
    /\ conns = [p \in Peer |-> {}]
    /\ unknown = [p \in Peer |-> {}]
    /\ settle = [p \in Peer |-> 0]
    /\ prune = {}
    /\ checked = [p \in Peer |-> {}]
    /\ sync = [p \in Peer |-> [token |-> NoToken, again |-> FALSE, runs |-> {}]]
    /\ forward = FALSE
    /\ participants = {} /\ accounts = {} /\ asking = {}
    /\ news = 0
    /\ owed = {}

Next ==
    \/ \E p \in Peer :
        \/ Open(p) \/ Prune(p) \/ NoAnswer(p) \/ Answer(p)
        \/ Settle(p) \/ Served(p) \/ Presence(p) \/ PresenceFails(p)
        \/ \E c \in conns[p] : Lose(p, c) \/ Identify(p, c)
        \/ \E t \in sync[p].runs : SyncDone(p, t) \/ SyncFails(p, t)
    \/ Check \/ PresenceTimer \/ Forward \/ SyncAll \/ Learn

Spec == Init /\ [][Next]_vars

-----------------------------------------------------------------------------
(* Properties *)

\* The range of every variable.
TypeOK ==
    /\ public \in BOOLEAN /\ forward \in BOOLEAN
    /\ opened \in [Peer -> Nat]
    /\ {conns, unknown, checked} \subseteq [Peer -> SUBSET Nat]
    /\ \A p \in Peer : conns[p] \cup checked[p] \subseteq 1..opened[p]
    /\ \A p \in Peer : unknown[p] \subseteq conns[p]
    /\ settle \in [Peer -> Nat]
    /\ sync \in [Peer -> [token : Nat, again : BOOLEAN, runs : SUBSET (Nat \ {0})]]
    /\ prune \subseteq Peer
    /\ participants \subseteq Peer /\ accounts \subseteq Peer
    /\ asking \subseteq Peer /\ owed \subseteq Peer
    /\ news \in Nat

(***************************************************************************)
(* The entry that makes other calls wait is always that of a call still    *)
(* running, however calls of dead connections end among those of live      *)
(* ones: no peer is left with an entry that nobody will ever clear         *)
(* (network.js:262-264, 361).                                              *)
(***************************************************************************)
GuardHasOwner ==
    \A p \in Peer : sync[p].token # NoToken => sync[p].token \in sync[p].runs

Reached(p) ==
    \/ forward \/ settle[p] > 0 \/ unknown[p] # {}
    \/ sync[p].token # NoToken /\ sync[p].again

(***************************************************************************)
(* Store and forward (network.js:322-331): whatever was learnt, a          *)
(* connected participant that has not been offered a session since then    *)
(* has one coming without the 30 s timer - although its calls may be       *)
(* folded into a running one, whose connection may be dead.                *)
(***************************************************************************)
NewsReachesEveryone ==
    \A p \in owed : p \in ParticipantPeers => Reached(p)

(***************************************************************************)
(* An account is shown for a peer only while that peer is connected,       *)
(* however late its answer arrives (network.js:518).                       *)
(***************************************************************************)
AccountsConnected == accounts \subseteq Connected
=============================================================================
