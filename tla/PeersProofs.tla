---------------------------- MODULE PeersProofs -----------------------------
(***************************************************************************)
(* Theorems about Peers, for any peers, any of them speaking               *)
(* SYNC_PROTOCOL, and any number of connections and of news.               *)
(***************************************************************************)
EXTENDS Peers, FiniteSetTheorems, TLAPS

Entry == [token : Nat, again : BOOLEAN, runs : SUBSET (Nat \ {0})]

\* The calls of a peer that run are finitely many, so that a token is free.
FewRuns == \A p \in Peer : IsFiniteSet(sync[p].runs)

Typed == TypeOK /\ FewRuns

-----------------------------------------------------------------------------
(* Tokens and entries *)

\* Symbol() in syncPeer: the token of a new call is that of no other.
LEMMA TokenIsFresh ==
    ASSUME NEW s, IsFiniteSet(s.runs)
    PROVE  Token(s) \in Nat \ {0} /\ Token(s) \notin s.runs
<1> DEFINE n == Cardinality(s.runs)
           T == 1..(n + 1)
<1>1. n \in Nat
  BY FS_CardinalityType
<1>2. IsFiniteSet(T) /\ Cardinality(T) = n + 1
  BY <1>1, FS_Interval
<1>3. ~(T \subseteq s.runs)
  BY <1>1, <1>2, FS_Subset
<1>4. \E t \in T : t \notin s.runs
  BY <1>3
<1>5. Token(s) \in T /\ Token(s) \notin s.runs
  BY <1>4 DEF Token
<1>6. QED
  BY <1>1, <1>5

LEMMA BeginTypes ==
    ASSUME NEW s \in Entry, IsFiniteSet(s.runs)
    PROVE  Begin(s) \in Entry /\ IsFiniteSet(Begin(s).runs)
<1>1. CASE s.token # NoToken
  BY <1>1 DEF Begin, Entry
<1>2. CASE s.token = NoToken
  <2>1. Token(s) \in Nat \ {0}
    BY TokenIsFresh
  <2>2. Begin(s) = [token |-> Token(s), again |-> FALSE, runs |-> s.runs \cup {Token(s)}]
    BY <1>2 DEF Begin
  <2>3. IsFiniteSet(s.runs \cup {Token(s)})
    BY FS_AddElement
  <2>4. QED
    BY <2>1, <2>2, <2>3 DEF Entry
<1>3. QED
  BY <1>1, <1>2

LEMMA ForgetTypes ==
    ASSUME NEW s \in Entry, NEW t, IsFiniteSet(s.runs)
    PROVE  Forget(s, t) \in Entry /\ IsFiniteSet(Forget(s, t).runs)
<1>1. IsFiniteSet(s.runs \ {t})
  BY FS_Subset
<1>2. Forget(s, t).runs = s.runs \ {t} /\ Forget(s, t) \in Entry
  BY DEF Forget, ForgetIfLast, Entry, NoToken
<1>3. QED
  BY <1>1, <1>2

LEMMA DroppedTypes ==
    ASSUME NEW s \in Entry
    PROVE  Dropped(s) \in Entry /\ Dropped(s).runs = s.runs
BY DEF Dropped, Entry, NoToken

-----------------------------------------------------------------------------
(* What each handler may do to the variables it shares with others *)

SyncTyped == sync \in [Peer -> Entry] /\ FewRuns /\ owed \subseteq Peer

LEMMA CallSyncTypes ==
    ASSUME SyncTyped, NEW Q \in SUBSET Peer, NEW who, CallSync(Q, who)
    PROVE  SyncTyped'
<1>1. sync' \in [Peer -> Entry] /\ \A p \in Peer : IsFiniteSet(sync'[p].runs)
  BY BeginTypes DEF SyncTyped, FewRuns, CallSync
<1>2. QED
  BY <1>1 DEF SyncTyped, FewRuns, CallSync

LEMMA EndCallTypes ==
    ASSUME SyncTyped, NEW p \in Peer, NEW t, EndCall(p, t)
    PROVE  SyncTyped'
<1>1. sync[p] \in Entry /\ IsFiniteSet(sync[p].runs)
  BY DEF SyncTyped, FewRuns
<1>2. Forget(sync[p], t) \in Entry /\ IsFiniteSet(Forget(sync[p], t).runs)
  BY <1>1, ForgetTypes
<1>3. Begin(Forget(sync[p], t)) \in Entry /\ IsFiniteSet(Begin(Forget(sync[p], t)).runs)
  BY <1>2, BeginTypes
<1>4. QED
  BY <1>2, <1>3 DEF SyncTyped, FewRuns, EndCall

LEMMA DroppedKeepsTypes ==
    ASSUME SyncTyped, NEW p \in Peer, sync' = [sync EXCEPT ![p] = Dropped(@)],
           owed' \subseteq Peer
    PROVE  SyncTyped'
<1>1. Dropped(sync[p]) \in Entry /\ Dropped(sync[p]).runs = sync[p].runs
  BY DroppedTypes DEF SyncTyped
<1>2. QED
  BY <1>1 DEF SyncTyped, FewRuns

ConnTyped ==
    /\ opened \in [Peer -> Nat]
    /\ {conns, unknown, checked} \subseteq [Peer -> SUBSET Nat]
    /\ \A p \in Peer : conns[p] \cup checked[p] \subseteq 1..opened[p]
    /\ \A p \in Peer : unknown[p] \subseteq conns[p]
    /\ settle \in [Peer -> Nat]
    /\ prune \subseteq Peer

WhoTyped ==
    /\ public \in BOOLEAN /\ forward \in BOOLEAN
    /\ participants \subseteq Peer /\ accounts \subseteq Peer /\ asking \subseteq Peer
    /\ news \in Nat

LEMMA TypedParts == Typed <=> SyncTyped /\ ConnTyped /\ WhoTyped
BY DEF Typed, TypeOK, SyncTyped, ConnTyped, WhoTyped, Entry

LEMMA CloseConnsTypes ==
    ASSUME SyncTyped, ConnTyped, WhoTyped, NEW p \in Peer, NEW C, CloseConns(p, C),
           prune' \subseteq Peer,
           checked' \in [Peer -> SUBSET Nat], \A q \in Peer : checked'[q] \subseteq checked[q]
    PROVE  SyncTyped' /\ ConnTyped' /\ WhoTyped'
<1>1. SyncTyped'
  <2>1. CASE p \in Connected /\ conns[p] \subseteq C
    <3>1. owed' \subseteq Peer
      BY <2>1 DEF CloseConns, SyncTyped
    <3>2. sync' = [sync EXCEPT ![p] = Dropped(@)]
      BY <2>1 DEF CloseConns
    <3>3. QED
      BY <3>1, <3>2, DroppedKeepsTypes
  <2>2. CASE ~(p \in Connected /\ conns[p] \subseteq C)
    BY <2>2 DEF CloseConns, SyncTyped, FewRuns
  <2>3. QED
    BY <2>1, <2>2
<1>2. ConnTyped'
  <2>1. /\ conns' \in [Peer -> SUBSET Nat] /\ unknown' \in [Peer -> SUBSET Nat]
        /\ \A q \in Peer : conns'[q] \subseteq conns[q]
        /\ \A q \in Peer : unknown'[q] \subseteq conns'[q]
    BY DEF CloseConns, ConnTyped
  <2>2. opened' = opened /\ settle' = settle
    BY DEF CloseConns
  <2>3. QED
    BY <2>1, <2>2 DEF ConnTyped
<1>3. WhoTyped'
  BY DEF CloseConns, WhoTyped
<1>4. QED
  BY <1>1, <1>2, <1>3

-----------------------------------------------------------------------------
(* Types *)

LEMMA TypedInit == Init => Typed
<1> SUFFICES ASSUME Init PROVE Typed
  OBVIOUS
<1>1. IsFiniteSet({})
  BY FS_EmptySet
<1>2. SyncTyped
  BY <1>1 DEF Init, SyncTyped, FewRuns, Entry, NoToken
<1>3. ConnTyped /\ WhoTyped
  BY DEF Init, ConnTyped, WhoTyped
<1>4. QED
  BY <1>2, <1>3, TypedParts

\* One step per action; a session's end splits in its two outcomes.
LEMMA TypedNext == Typed /\ [Next]_vars => Typed'
<1> SUFFICES ASSUME Typed, [Next]_vars PROVE SyncTyped' /\ ConnTyped' /\ WhoTyped'
  BY TypedParts DEF Typed, TypeOK, FewRuns, SyncTyped, ConnTyped, WhoTyped, Entry
<1>0. SyncTyped /\ ConnTyped /\ WhoTyped
  BY TypedParts
<1> USE DEF connVars, whoVars
<1>1. ASSUME NEW p \in Peer, Open(p) PROVE SyncTyped' /\ ConnTyped' /\ WhoTyped'
  <2>1. SyncTyped'
    <3>1. CASE p \in Connected
      BY <1>0, <1>1, <3>1 DEF Open, SyncTyped, FewRuns
    <3>2. CASE p \notin Connected
      <4>1. sync' = [sync EXCEPT ![p] = Dropped(@)] /\ owed' \subseteq Peer
        BY <1>0, <1>1, <3>2 DEF Open, SyncTyped
      <4>2. QED
        BY <1>0, <4>1, DroppedKeepsTypes
    <3>3. QED
      BY <3>1, <3>2
  <2>2. ConnTyped'
    <3>1. PICK old \in SUBSET conns[p] :
              /\ conns' = [conns EXCEPT ![p] = (@ \ old) \cup {opened'[p]}]
              /\ unknown' = [unknown EXCEPT ![p] = (@ \ old) \cup {opened'[p]}]
      BY <1>1 DEF Open
    <3>2. opened' = [opened EXCEPT ![p] = @ + 1] /\ opened'[p] \in Nat \ {0}
      BY <1>0, <1>1 DEF Open, ConnTyped
    <3>3. conns' \in [Peer -> SUBSET Nat] /\ unknown' \in [Peer -> SUBSET Nat]
      BY <1>0, <3>1, <3>2 DEF ConnTyped
    <3>4. settle' \in [Peer -> Nat] /\ prune' = prune /\ checked' = checked
      BY <1>0, <1>1 DEF Open, ConnTyped
    <3>5. \A q \in Peer : conns'[q] \cup checked'[q] \subseteq 1..opened'[q]
      BY <1>0, <3>1, <3>2, <3>4 DEF ConnTyped
    <3>6. \A q \in Peer : unknown'[q] \subseteq conns'[q]
      BY <1>0, <3>1 DEF ConnTyped
    <3>7. opened' \in [Peer -> Nat]
      BY <1>0, <3>2 DEF ConnTyped
    <3>8. QED
      BY <1>0, <3>3, <3>4, <3>5, <3>6, <3>7 DEF ConnTyped
  <2>3. WhoTyped'
    BY <1>0, <1>1 DEF Open, WhoTyped
  <2>4. QED
    BY <2>1, <2>2, <2>3
<1>2. ASSUME NEW p \in Peer, NEW c \in conns[p], Lose(p, c)
      PROVE  SyncTyped' /\ ConnTyped' /\ WhoTyped'
  <2>1. checked' = checked /\ prune' = prune /\ CloseConns(p, {c})
    BY <1>2 DEF Lose
  <2>2. QED
    BY <1>0, <2>1, CloseConnsTypes DEF ConnTyped
<1>3. ASSUME NEW p \in Peer, NEW c \in conns[p], Identify(p, c)
      PROVE  SyncTyped' /\ ConnTyped' /\ WhoTyped'
  <2>1. SyncTyped'
    <3>1. CASE p \in Syncers
      BY <1>0, <1>3, <3>1, CallSyncTypes DEF Identify
    <3>2. CASE p \notin Syncers
      BY <1>0, <1>3, <3>2 DEF Identify, SyncTyped, FewRuns
    <3>3. QED
      BY <3>1, <3>2
  <2>2. unknown' \in [Peer -> SUBSET Nat] /\ \A q \in Peer : unknown'[q] \subseteq unknown[q]
    BY <1>0, <1>3 DEF Identify, ConnTyped
  <2>3. prune' \subseteq Peer /\ UNCHANGED <<opened, conns, settle, checked>>
    BY <1>0, <1>3 DEF Identify, ConnTyped
  <2>4. ConnTyped'
    BY <1>0, <2>2, <2>3 DEF ConnTyped
  <2>5. WhoTyped'
    BY <1>0, <1>3 DEF Identify, AskPresence, WhoTyped
  <2>6. QED
    BY <2>1, <2>4, <2>5
<1>4. ASSUME NEW p \in Peer, Prune(p) PROVE SyncTyped' /\ ConnTyped' /\ WhoTyped'
  <2>1. PICK C : CloseConns(p, C)
    BY <1>4 DEF Prune
  <2>2. checked' = checked /\ prune' \subseteq Peer
    BY <1>0, <1>4 DEF Prune, ConnTyped
  <2>3. QED
    BY <1>0, <2>1, <2>2, CloseConnsTypes DEF ConnTyped
<1>5. ASSUME NEW p \in Peer, NoAnswer(p) PROVE SyncTyped' /\ ConnTyped' /\ WhoTyped'
  <2>1. /\ CloseConns(p, checked[p]) /\ prune' \subseteq Peer
        /\ checked' \in [Peer -> SUBSET Nat] /\ \A q \in Peer : checked'[q] \subseteq checked[q]
    BY <1>0, <1>5 DEF NoAnswer, ConnTyped
  <2>2. QED
    BY <1>0, <2>1, CloseConnsTypes
<1>6. ASSUME Check \/ \E p \in Peer : Answer(p) PROVE SyncTyped' /\ ConnTyped' /\ WhoTyped'
  <2>1. CASE Check
    BY <1>0, <2>1 DEF Check, SyncTyped, FewRuns, ConnTyped, WhoTyped
  <2>2. ASSUME NEW p \in Peer, Answer(p) PROVE SyncTyped' /\ ConnTyped' /\ WhoTyped'
    BY <1>0, <2>2 DEF Answer, SyncTyped, FewRuns, ConnTyped, WhoTyped
  <2>3. QED
    BY <1>6, <2>1, <2>2
<1>7. ASSUME NEW p \in Peer, Settle(p) PROVE SyncTyped' /\ ConnTyped' /\ WhoTyped'
  <2>1. SyncTyped'
    BY <1>0, <1>7, CallSyncTypes DEF Settle
  <2>2. ConnTyped' /\ WhoTyped'
    BY <1>0, <1>7 DEF Settle, ConnTyped, WhoTyped
  <2>3. QED
    BY <2>1, <2>2
<1>8. ASSUME NEW p \in Peer, NEW t, SyncDone(p, t) \/ SyncFails(p, t)
      PROVE  SyncTyped' /\ ConnTyped' /\ WhoTyped'
  <2>1. SyncTyped'
    BY <1>0, <1>8, EndCallTypes DEF SyncDone, SyncFails
  <2>2. ConnTyped' /\ WhoTyped'
    BY <1>0, <1>8 DEF SyncDone, SyncFails, MarkSynced, AskPresence, ConnTyped, WhoTyped
  <2>3. QED
    BY <2>1, <2>2
<1>9. ASSUME Forward \/ SyncAll PROVE SyncTyped' /\ ConnTyped' /\ WhoTyped'
  <2>1. SyncTyped'
    BY <1>0, <1>9, CallSyncTypes DEF Forward, SyncAll, Connected
  <2>2. ConnTyped' /\ WhoTyped'
    BY <1>0, <1>9 DEF Forward, SyncAll, ConnTyped, WhoTyped
  <2>3. QED
    BY <2>1, <2>2
<1>10. ASSUME NEW p \in Peer, Served(p) \/ Presence(p) \/ PresenceFails(p)
       PROVE  SyncTyped' /\ ConnTyped' /\ WhoTyped'
  <2>1. UNCHANGED <<public, connVars, sync, forward, news, owed>>
    BY <1>10 DEF Served, Presence, PresenceFails
  <2>2. participants' \subseteq Peer /\ accounts' \subseteq Peer /\ asking' \subseteq Peer
    BY <1>0, <1>10
       DEF Served, Presence, PresenceFails, MarkSynced, AskPresence, WhoTyped
  <2>3. QED
    BY <1>0, <2>1, <2>2 DEF SyncTyped, FewRuns, ConnTyped, WhoTyped
<1>11. ASSUME PresenceTimer \/ Learn PROVE SyncTyped' /\ ConnTyped' /\ WhoTyped'
  <2>1. ParticipantPeers \subseteq Peer
    BY DEF ParticipantPeers, Connected
  <2>2. CASE PresenceTimer
    BY <1>0, <2>1, <2>2 DEF PresenceTimer, AskPresence, SyncTyped, FewRuns, ConnTyped, WhoTyped
  <2>3. CASE Learn
    <3>1. UNCHANGED <<public, connVars, sync, whoVars>> /\ forward' = TRUE
      BY <2>3 DEF Learn
    <3>2. news' \in Nat /\ owed' \subseteq Peer
      BY <1>0, <2>1, <2>3 DEF Learn, SyncTyped, WhoTyped
    <3>3. SyncTyped' /\ ConnTyped'
      BY <1>0, <3>1, <3>2 DEF SyncTyped, FewRuns, ConnTyped
    <3>4. WhoTyped'
      BY <1>0, <3>1, <3>2 DEF WhoTyped
    <3>5. QED
      BY <3>3, <3>4
  <2>4. QED
    BY <1>11, <2>2, <2>3
<1>12. ASSUME UNCHANGED vars PROVE SyncTyped' /\ ConnTyped' /\ WhoTyped'
  BY <1>0, <1>12 DEF vars, SyncTyped, FewRuns, ConnTyped, WhoTyped
<1>13. QED
  BY <1>1, <1>2, <1>3, <1>4, <1>5, <1>6, <1>7, <1>8, <1>9, <1>10, <1>11, <1>12 DEF Next

(***************************************************************************)
(* Every variable keeps its range; a new call always finds a token no      *)
(* running call has (network.js:360-366).                                  *)
(***************************************************************************)
THEOREM TypeCorrect == Spec => []TypeOK
<1>1. Spec => []Typed
  BY TypedInit, TypedNext, PTL DEF Spec
<1>2. Typed => TypeOK
  BY DEF Typed
<1>3. QED
  BY <1>1, <1>2, PTL

-----------------------------------------------------------------------------
(* The entry of a peer is that of a call under way *)

Owned(s) == s.token # NoToken => s.token \in s.runs

LEMMA OwnedKept ==
    ASSUME NEW s \in Entry, Owned(s), NEW t
    PROVE  /\ Owned(Begin(s)) /\ Owned(Dropped(s)) /\ Owned(Forget(s, t))
           /\ Owned(Begin(Forget(s, t)))
<1>1. ASSUME NEW r \in Entry, Owned(r) PROVE Owned(Begin(r))
  <2>1. CASE r.token = NoToken
    BY <2>1 DEF Owned, Begin
  <2>2. CASE r.token # NoToken
    BY <1>1, <2>2 DEF Owned, Begin, Entry
  <2>3. QED
    BY <2>1, <2>2
<1>2. Owned(Dropped(s))
  BY DEF Owned, Dropped, Entry
<1>3. Forget(s, t) \in Entry /\ Owned(Forget(s, t))
  BY DEF Owned, Forget, ForgetIfLast, Entry, NoToken
<1>4. QED
  BY <1>1, <1>2, <1>3

\* sync changes only by these four.
LEMMA SyncSteps ==
    ASSUME Typed, [Next]_vars, NEW p \in Peer
    PROVE  \/ sync'[p] \in {sync[p], Begin(sync[p]), Dropped(sync[p])}
           \/ \E t : sync'[p] \in {Forget(sync[p], t), Begin(Forget(sync[p], t))}
<1>0. sync \in [Peer -> Entry]
  BY TypedParts DEF SyncTyped
<1>1. ASSUME NEW q \in Peer, Open(q) \/ \E C : CloseConns(q, C)
      PROVE  sync'[p] \in {sync[p], Dropped(sync[p])}
  BY <1>0, <1>1 DEF Open, CloseConns
<1>2. ASSUME NEW Q, NEW who, CallSync(Q, who) PROVE sync'[p] \in {sync[p], Begin(sync[p])}
  BY <1>2 DEF CallSync
<1>3. ASSUME NEW q \in Peer, NEW t, EndCall(q, t)
      PROVE  sync'[p] \in {sync[p], Forget(sync[p], t), Begin(Forget(sync[p], t))}
  BY <1>0, <1>3 DEF EndCall
<1>4. \/ sync' = sync
      \/ \E q \in Peer : Open(q) \/ \E C : CloseConns(q, C)
      \/ \E Q, who : CallSync(Q, who)
      \/ \E q \in Peer : \E t : EndCall(q, t)
  <2>1. ASSUME NEW q \in Peer,
               \/ Prune(q) \/ NoAnswer(q) \/ \E c \in conns[q] : Lose(q, c)
        PROVE  \E C : CloseConns(q, C)
    BY <2>1 DEF Prune, NoAnswer, Lose
  <2>2. ASSUME NEW q \in Peer, NEW c, Identify(q, c)
        PROVE  sync' = sync \/ \E Q, who : CallSync(Q, who)
    BY <2>2 DEF Identify
  <2>3. ASSUME \/ Forward \/ SyncAll \/ \E q \in Peer : Settle(q)
        PROVE  \E Q, who : CallSync(Q, who)
    BY <2>3 DEF Forward, SyncAll, Settle
  <2>4. ASSUME NEW q \in Peer, NEW t, SyncDone(q, t) \/ SyncFails(q, t)
        PROVE  EndCall(q, t)
    BY <2>4 DEF SyncDone, SyncFails
  <2>5. ASSUME \/ Check \/ PresenceTimer \/ Learn \/ UNCHANGED vars
               \/ \E q \in Peer : Answer(q) \/ Served(q) \/ Presence(q) \/ PresenceFails(q)
        PROVE  sync' = sync
    BY <2>5 DEF Check, PresenceTimer, Learn, vars, Answer, Served, Presence, PresenceFails
  <2>6. QED
    BY <2>1, <2>2, <2>3, <2>4, <2>5 DEF Next
<1>5. QED
  BY <1>1, <1>2, <1>3, <1>4

(***************************************************************************)
(* No peer is left with an entry that nobody will clear, however calls of  *)
(* dead connections end among those of live ones (network.js:262-264,      *)
(* 361, 382-388).                                                          *)
(***************************************************************************)
THEOREM EntriesAreOwned == Spec => []GuardHasOwner
<1> DEFINE Inv == Typed /\ \A p \in Peer : Owned(sync[p])
<1>1. Init => Inv
  BY TypedInit DEF Init, Owned
<1>2. Inv /\ [Next]_vars => Inv'
  <2> SUFFICES ASSUME Inv, [Next]_vars PROVE Inv'
    OBVIOUS
  <2>1. Typed'
    BY TypedNext
  <2>2. ASSUME NEW p \in Peer PROVE Owned(sync'[p])
    <3>1. sync[p] \in Entry /\ Owned(sync[p])
      BY TypedParts DEF SyncTyped
    <3>2. QED
      BY <3>1, OwnedKept, SyncSteps
  <2>3. QED
    BY <2>1, <2>2
<1>3. Inv => GuardHasOwner
  BY DEF GuardHasOwner, Owned
<1> HIDE DEF Inv
<1>4. QED
  BY <1>1, <1>2, <1>3, PTL DEF Spec

-----------------------------------------------------------------------------
(* An account belongs to a connected peer *)

(***************************************************************************)
(* A proof of presence that arrives when its peer is gone names nobody,    *)
(* and who disconnects takes the account along (network.js:270, 518).      *)
(***************************************************************************)
THEOREM AccountsOfTheConnected == Spec => []AccountsConnected
<1> DEFINE Inv == Typed /\ AccountsConnected
<1>1. Init => Inv
  BY TypedInit DEF Init, AccountsConnected
<1>2. Inv /\ [Next]_vars => Inv'
  <2> SUFFICES ASSUME Inv, [Next]_vars PROVE AccountsConnected'
    BY TypedNext
  <2> USE DEF AccountsConnected, Connected, connVars, whoVars
  <2>0. conns \in [Peer -> SUBSET Nat]
    BY TypedParts DEF ConnTyped
  <2>1. ASSUME NEW p \in Peer, Open(p) PROVE AccountsConnected'
    BY <2>0, <2>1 DEF Open
  <2>2. ASSUME NEW p \in Peer, NEW C, CloseConns(p, C) PROVE AccountsConnected'
    <3>1. conns' = [conns EXCEPT ![p] = @ \ C]
      BY <2>2 DEF CloseConns
    <3>2. CASE p \in Connected /\ conns[p] \subseteq C
      BY <2>0, <2>2, <3>1, <3>2 DEF CloseConns
    <3>3. CASE ~(p \in Connected /\ conns[p] \subseteq C)
      BY <2>0, <2>2, <3>1, <3>3 DEF CloseConns
    <3>4. QED
      BY <3>2, <3>3
  <2>3. ASSUME NEW p \in Peer,
               \/ Prune(p) \/ NoAnswer(p) \/ \E c \in conns[p] : Lose(p, c)
        PROVE  AccountsConnected'
    BY <2>2, <2>3 DEF Prune, NoAnswer, Lose
  <2>4. ASSUME NEW p \in Peer, Presence(p) PROVE AccountsConnected'
    BY <2>4 DEF Presence
  <2>5. ASSUME conns' = conns, accounts' = accounts PROVE AccountsConnected'
    BY <2>5
  <2>6. ASSUME NEW p \in Peer,
               \/ Answer(p) \/ Settle(p) \/ Served(p) \/ PresenceFails(p)
               \/ \E c \in conns[p] : Identify(p, c)
               \/ \E t \in sync[p].runs : SyncDone(p, t) \/ SyncFails(p, t)
        PROVE  conns' = conns /\ accounts' = accounts
    BY <2>6 DEF Answer, Settle, Served, PresenceFails, Identify, SyncDone, SyncFails, MarkSynced
  <2>7. ASSUME Check \/ PresenceTimer \/ Forward \/ SyncAll \/ Learn \/ UNCHANGED vars
        PROVE  conns' = conns /\ accounts' = accounts
    BY <2>7 DEF Check, PresenceTimer, Forward, SyncAll, Learn, vars
  <2>8. QED
    BY <2>1, <2>3, <2>4, <2>5, <2>6, <2>7 DEF Next
<1>3. QED
  BY <1>1, <1>2, PTL DEF Spec

-----------------------------------------------------------------------------
(* News reaches everyone *)

\* A session of p comes without its identification.
Soon(p) ==
    \/ forward \/ settle[p] > 0
    \/ sync[p].token # NoToken /\ sync[p].again

\* A peer that syncs counts as soon as one of its connections is identified.
Recognised ==
    /\ participants \subseteq Syncers
    /\ \A p \in Syncers : unknown[p] # conns[p] => p \in participants

Hopeless(p) == public /\ (p \in Syncers => unknown[p] = conns[p])

\* An owed peer has a session coming, or does not count until identified.
OwedSoon == \A p \in owed \cap Connected : Soon(p) \/ Hopeless(p)

NewsInv == Typed /\ Recognised /\ OwedSoon

LEMMA RecognisedNext == Typed /\ Recognised /\ [Next]_vars => Recognised'
<1> SUFFICES ASSUME Typed, Recognised, [Next]_vars PROVE Recognised'
  OBVIOUS
<1> USE PeersAssumption DEF Recognised, Connected, connVars, whoVars
<1>0. /\ conns \in [Peer -> SUBSET Nat] /\ unknown \in [Peer -> SUBSET Nat]
      /\ \A p \in Peer : unknown[p] \subseteq conns[p]
  BY TypedParts DEF ConnTyped
<1>1. ASSUME NEW p \in Peer, Open(p) PROVE Recognised'
  <2>1. PICK old \in SUBSET conns[p] :
            /\ conns' = [conns EXCEPT ![p] = (@ \ old) \cup {opened'[p]}]
            /\ unknown' = [unknown EXCEPT ![p] = (@ \ old) \cup {opened'[p]}]
    BY <1>1 DEF Open
  <2>2. \A q \in Peer : unknown[q] = conns[q] => unknown'[q] = conns'[q]
    BY <1>0, <2>1
  <2>3. participants' = participants
    BY <1>1 DEF Open
  <2>4. QED
    BY <2>2, <2>3
<1>2. ASSUME NEW p \in Peer, NEW C, CloseConns(p, C) PROVE Recognised'
  <2>1. /\ conns' = [conns EXCEPT ![p] = @ \ C] /\ unknown' = [unknown EXCEPT ![p] = @ \ C]
    BY <1>2 DEF CloseConns
  <2>2. \A q \in Peer : unknown[q] = conns[q] => unknown'[q] = conns'[q]
    BY <1>0, <2>1
  <2>3. CASE p \in Connected /\ conns[p] \subseteq C
    <3>1. participants' = participants \ {p}
      BY <1>2, <2>3 DEF CloseConns
    <3>2. conns'[p] = {} /\ unknown'[p] = {}
      BY <1>0, <2>1, <2>3
    <3>3. QED
      BY <2>2, <3>1, <3>2
  <2>4. CASE ~(p \in Connected /\ conns[p] \subseteq C)
    BY <1>2, <2>2, <2>4 DEF CloseConns
  <2>5. QED
    BY <2>3, <2>4
<1>3. ASSUME NEW p \in Peer, NEW c \in conns[p], Identify(p, c) PROVE Recognised'
  BY <1>0, <1>3 DEF Identify
<1>4. ASSUME UNCHANGED <<conns, unknown>>, participants \subseteq participants',
             participants' \subseteq participants \cup Syncers
      PROVE  Recognised'
  BY <1>4
<1>5. ASSUME NEW p \in Peer,
             \/ Prune(p) \/ NoAnswer(p) \/ \E c \in conns[p] : Lose(p, c)
      PROVE  Recognised'
  BY <1>2, <1>5 DEF Prune, NoAnswer, Lose
<1>6. ASSUME NEW p \in Peer,
             \/ Answer(p) \/ Settle(p) \/ Served(p) \/ Presence(p) \/ PresenceFails(p)
             \/ \E t \in sync[p].runs : SyncDone(p, t) \/ SyncFails(p, t)
      PROVE  Recognised'
  BY <1>4, <1>6
     DEF Answer, Settle, Served, Presence, PresenceFails, SyncDone, SyncFails, MarkSynced
<1>7. ASSUME Check \/ PresenceTimer \/ Forward \/ SyncAll \/ Learn \/ UNCHANGED vars
      PROVE  Recognised'
  BY <1>4, <1>7 DEF Check, PresenceTimer, Forward, SyncAll, Learn, vars
<1>8. QED
  BY <1>1, <1>3, <1>5, <1>6, <1>7 DEF Next

\* Whoever counts and is called is owed nothing, or has one more call coming.
LEMMA CallSyncPays ==
    ASSUME Typed, NEW Q \in SUBSET Peer, NEW who, CallSync(Q, who), NEW p \in Q, Counts(p, who)
    PROVE  p \notin owed' \/ (sync'[p].token # NoToken /\ sync'[p].again)
<1>1. sync[p] \in Entry
  BY TypedParts DEF SyncTyped
<1>2. CASE sync[p].token = NoToken
  BY <1>2 DEF CallSync, Started
<1>3. CASE sync[p].token # NoToken
  BY <1>1, <1>3 DEF CallSync, Begin, Entry
<1>4. QED
  BY <1>2, <1>3

\* A call never takes away what another is to do again, nor owes anything.
LEMMA CallSyncKeeps ==
    ASSUME Typed, NEW Q, NEW who, CallSync(Q, who), NEW p \in Peer
    PROVE  /\ p \in owed' => p \in owed
           /\ sync[p].token # NoToken /\ sync[p].again
              => sync'[p].token # NoToken /\ sync'[p].again
<1>1. sync[p] \in Entry
  BY TypedParts DEF SyncTyped
<1>2. sync'[p] \in {sync[p], Begin(sync[p])}
  BY DEF CallSync
<1>3. QED
  BY <1>1, <1>2 DEF CallSync, Begin, Entry

Pledged(q) == Soon(q) \/ Hopeless(q)

\* One step per way of changing who is owed, who is connected and what comes.
LEMMA OwedSoonNext == NewsInv /\ [Next]_vars => OwedSoon'
<1> SUFFICES ASSUME NewsInv, [Next]_vars,
                    NEW q \in Peer, q \in owed', conns'[q] # {}
             PROVE  Pledged(q)'
  BY DEF OwedSoon, Connected, Pledged
<1> USE PeersAssumption DEF connVars, whoVars
<1>0. /\ conns \in [Peer -> SUBSET Nat] /\ unknown \in [Peer -> SUBSET Nat]
      /\ \A p \in Peer : unknown[p] \subseteq conns[p]
      /\ settle \in [Peer -> Nat] /\ sync \in [Peer -> Entry]
      /\ Recognised /\ Recognised'
  BY TypedParts, RecognisedNext DEF ConnTyped, SyncTyped, NewsInv
<1>1. ASSUME q \in owed, conns[q] # {} PROVE Pledged(q)
  BY <1>1 DEF NewsInv, OwedSoon, Connected, Pledged
<1>2. ASSUME public' = public, ~Counts(q, participants') PROVE Hopeless(q)'
  BY <1>0, <1>2 DEF Counts, Recognised, Hopeless
<1>3. ASSUME public' = public, q \in owed, conns[q] # {},
             Hopeless(q), unknown[q] = conns[q] => unknown'[q] = conns'[q]
      PROVE  Hopeless(q)'
  BY <1>3 DEF Hopeless
<1>4. ASSUME UNCHANGED <<public, conns, unknown, settle, sync, forward, owed>>
      PROVE  Pledged(q)'
  BY <1>1, <1>4 DEF Pledged, Soon, Hopeless
<1>5. ASSUME NEW p \in Peer, Open(p) PROVE Pledged(q)'
  <2>1. PICK old \in SUBSET conns[p] :
            /\ conns' = [conns EXCEPT ![p] = (@ \ old) \cup {opened'[p]}]
            /\ unknown' = [unknown EXCEPT ![p] = (@ \ old) \cup {opened'[p]}]
    BY <1>5 DEF Open
  <2>2. unknown[q] = conns[q] => unknown'[q] = conns'[q]
    BY <1>0, <2>1
  <2>3. public' = public /\ forward' = forward
    BY <1>5 DEF Open
  <2>4. CASE p \notin Connected /\ q = p
    <3>1. settle' = [settle EXCEPT ![p] = @ + 1]
      BY <1>5, <2>4 DEF Open
    <3>2. settle'[q] > 0
      BY <1>0, <2>4, <3>1
    <3>3. QED
      BY <3>2 DEF Pledged, Soon
  <2>5. CASE p \in Connected \/ q # p
    <3>1. sync'[q] = sync[q] /\ settle'[q] = settle[q] /\ q \in owed
      BY <1>0, <1>5, <2>5 DEF Open
    <3>2. conns[q] # {}
      BY <1>0, <2>1, <2>5 DEF Connected
    <3>3. QED
      BY <1>1, <1>3, <2>2, <2>3, <3>1, <3>2 DEF Pledged, Soon
  <2>6. QED
    BY <2>4, <2>5
<1>6. ASSUME NEW p \in Peer, NEW C, CloseConns(p, C) PROVE Pledged(q)'
  <2>1. /\ conns' = [conns EXCEPT ![p] = @ \ C] /\ unknown' = [unknown EXCEPT ![p] = @ \ C]
        /\ UNCHANGED <<public, settle, forward>>
    BY <1>6 DEF CloseConns
  <2>2. conns[q] # {} /\ (unknown[q] = conns[q] => unknown'[q] = conns'[q])
    BY <1>0, <2>1
  <2>3. ~(q = p /\ conns[p] \subseteq C)
    BY <1>0, <2>1
  <2>4. sync'[q] = sync[q] /\ q \in owed
    BY <1>0, <1>6, <2>3 DEF CloseConns
  <2>5. QED
    BY <1>1, <1>3, <2>1, <2>2, <2>4 DEF Pledged, Soon
<1>7. ASSUME NEW p \in Peer,
             \/ Prune(p) \/ NoAnswer(p) \/ \E c \in conns[p] : Lose(p, c)
      PROVE  Pledged(q)'
  BY <1>6, <1>7 DEF Prune, NoAnswer, Lose
<1>8. ASSUME NEW Q \in SUBSET Peer, CallSync(Q, participants'), public' = public,
             UNCHANGED conns,
             q \in Q \/ (settle'[q] = settle[q] /\ forward' = forward),
             q \in Q \/ unknown'[q] = unknown[q]
      PROVE  Pledged(q)'
  <2>1. Typed /\ q \in owed /\ conns[q] # {}
    BY <1>8, CallSyncKeeps DEF NewsInv
  <2>2. CASE q \in Q
    <3>1. CASE Counts(q, participants')
      BY <1>8, <2>1, <2>2, <3>1, CallSyncPays DEF Pledged, Soon
    <3>2. CASE ~Counts(q, participants')
      BY <1>2, <1>8, <3>2 DEF Pledged
    <3>3. QED
      BY <3>1, <3>2
  <2>3. CASE q \notin Q
    <3>1. sync[q].token # NoToken /\ sync[q].again
          => sync'[q].token # NoToken /\ sync'[q].again
      BY <1>8, <2>1, CallSyncKeeps
    <3>2. QED
      BY <1>1, <1>8, <2>1, <2>3, <3>1 DEF Pledged, Soon, Hopeless
  <2>4. QED
    BY <2>2, <2>3
<1>9. ASSUME NEW p \in Peer, NEW c \in conns[p], Identify(p, c) PROVE Pledged(q)'
  <2>1. /\ UNCHANGED <<public, conns, settle, forward>>
        /\ unknown' = [unknown EXCEPT ![p] = @ \ {c}]
    BY <1>9 DEF Identify
  <2>2. q # p => unknown'[q] = unknown[q]
    BY <1>0, <2>1
  <2>3. CASE p \in Syncers
    <3>1. CallSync({p}, participants')
      BY <1>9, <2>3 DEF Identify
    <3>2. QED
      BY <1>8, <2>1, <2>2, <3>1
  <2>4. CASE p \notin Syncers
    <3>1. sync' = sync /\ owed' = owed
      BY <1>9, <2>4 DEF Identify
    <3>2. QED
      BY <1>1, <2>1, <2>2, <2>4, <3>1 DEF Pledged, Soon, Hopeless
  <2>5. QED
    BY <2>3, <2>4
<1>10. ASSUME NEW p \in Peer, Settle(p) PROVE Pledged(q)'
  <2>1. /\ CallSync({p}, participants') /\ UNCHANGED <<public, conns, unknown, forward>>
        /\ (q # p => settle'[q] = settle[q])
    BY <1>0, <1>10 DEF Settle
  <2>2. QED
    BY <1>8, <2>1
<1>11. ASSUME Forward \/ SyncAll PROVE Pledged(q)'
  <2>1. CallSync(Connected, participants') /\ UNCHANGED <<public, conns>>
    BY <1>11 DEF Forward, SyncAll
  <2>2. q \in Connected /\ Connected \in SUBSET Peer
    BY <2>1 DEF Connected
  <2>3. QED
    BY <1>8, <2>1, <2>2
<1>12. ASSUME NEW p \in Peer, NEW t, SyncDone(p, t) \/ SyncFails(p, t) PROVE Pledged(q)'
  <2>1. EndCall(p, t) /\ UNCHANGED <<public, conns, unknown, settle, forward>>
    BY <1>12 DEF SyncDone, SyncFails
  <2>2. q \in owed /\ conns[q] # {}
    BY <2>1 DEF EndCall
  <2>3. CASE q # p
    <3>1. sync'[q] = sync[q]
      BY <1>0, <2>1, <2>3 DEF EndCall
    <3>2. QED
      BY <1>1, <2>1, <2>2, <3>1 DEF Pledged, Soon, Hopeless
  <2>4. CASE q = p /\ Counts(q, participants')
    <3> DEFINE s == sync[p]
               redo == s.token = t /\ s.again
    <3>1. ~redo
      BY <2>1, <2>2, <2>4 DEF EndCall, Connected
    <3>2. sync'[p] = Forget(s, t)
      BY <1>0, <2>1, <3>1 DEF EndCall
    <3>3. s.token # NoToken /\ s.again => sync'[p].token # NoToken /\ sync'[p].again
      BY <1>0, <3>1, <3>2 DEF Forget, ForgetIfLast, Entry
    <3>4. QED
      BY <1>1, <2>1, <2>2, <2>4, <3>3 DEF Pledged, Soon, Hopeless
  <2>5. CASE ~Counts(q, participants')
    BY <1>2, <2>1, <2>5 DEF Pledged
  <2>6. QED
    BY <2>3, <2>4, <2>5
<1>13. ASSUME \/ Check \/ PresenceTimer \/ UNCHANGED vars
              \/ \E p \in Peer : Answer(p) \/ Served(p) \/ Presence(p) \/ PresenceFails(p)
       PROVE  Pledged(q)'
  BY <1>4, <1>13
     DEF Check, PresenceTimer, vars, Answer, Served, Presence, PresenceFails
<1>14. ASSUME Learn PROVE Pledged(q)'
  BY <1>14 DEF Learn, Pledged, Soon
<1>15. QED
  BY <1>5, <1>7, <1>9, <1>10, <1>11, <1>12, <1>13, <1>14 DEF Next

(***************************************************************************)
(* Whatever was learnt, a connected participant that nobody offered it to  *)
(* has a session coming without the 30 s timer, although its calls may be  *)
(* folded into one whose connection is dead (network.js:322-331).          *)
(***************************************************************************)
THEOREM NewsComes == Spec => []NewsReachesEveryone
<1>1. Init => NewsInv
  BY TypedInit DEF Init, NewsInv, Recognised, OwedSoon
<1>2. NewsInv /\ [Next]_vars => NewsInv'
  BY TypedNext, RecognisedNext, OwedSoonNext DEF NewsInv
<1>3. NewsInv => NewsReachesEveryone
  <2> SUFFICES ASSUME NewsInv, NEW p \in owed, p \in ParticipantPeers PROVE Reached(p)
    BY DEF NewsReachesEveryone
  <2>1. p \in Connected /\ Counts(p, participants)
    BY DEF ParticipantPeers
  <2>2. CASE Soon(p)
    BY <2>2 DEF Soon, Reached
  <2>3. CASE Hopeless(p)
    BY <2>1, <2>3 DEF Hopeless, Counts, NewsInv, Recognised, Reached, Connected
  <2>4. QED
    BY <2>1, <2>2, <2>3 DEF NewsInv, OwedSoon
<1>4. QED
  BY <1>1, <1>2, <1>3, PTL DEF Spec
=============================================================================
