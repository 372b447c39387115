--------------------------- MODULE RustPeerProofs ---------------------------
(***************************************************************************)
(* Theorems about RustPeer, for any events, any caps, any media and any    *)
(* number of rounds, crashes and torn lines.                               *)
(***************************************************************************)
EXTENDS RustPeer, FiniteSetTheorems, TLAPS

Typed ==
    /\ mode \in {"loading", "posting", "up", "broken"}
    /\ loading \in Seq(Event)
    /\ logs \in [Author -> Seq(Event)] /\ heads \in [Author -> Nat]
    /\ pending \subseteq Event /\ IsFiniteSet(pending)
    /\ draining \subseteq Author
    /\ disk \subseteq Event /\ IsFiniteSet(disk)
    /\ openEnd \in Event \cup {None, Torn, Cut}
    /\ tears \in Nat
    /\ wanted \subseteq Blob /\ failed \in [Blob -> Nat] /\ held \subseteq Blob
    /\ rounds \in [Round -> (SUBSET Blob) \cup {None}]
    /\ shown \subseteq Event /\ asked \subseteq Event

-----------------------------------------------------------------------------
(* The operators the actions are built from *)

LEMMA StoredAreEvents == ASSUME Typed PROVE Stored \subseteq Event
<1>1. \A a \in Author : \A i \in DOMAIN logs[a] : logs[a][i] \in Event
  BY DEF Typed
<1>2. QED
  BY <1>1 DEF Stored, SX!Range

LEMMA ApplyTypes ==
    ASSUME Typed, NEW e \in Event, Apply(e)
    PROVE  /\ logs' \in [Author -> Seq(Event)]
           /\ heads' \in [Author -> Nat]
<1>1. AuthorOf[e] \in Author /\ SeqOf[e] \in Nat
  BY EventAssumption
<1>2. Append(logs[AuthorOf[e]], e) \in Seq(Event)
  BY <1>1 DEF Typed
<1>3. QED
  BY <1>1, <1>2 DEF Typed, Apply

LEMMA AppendLineTypes ==
    ASSUME Typed, NEW e \in Event, AppendLine(e)
    PROVE  /\ disk' \subseteq Event /\ IsFiniteSet(disk')
           /\ openEnd' \in Event \cup {None, Torn, Cut} /\ tears' \in Nat
<1>1. IsFiniteSet(disk \cup {e})
  BY FS_AddElement DEF Typed
<1>2. QED
  BY <1>1 DEF Typed, AppendLine

LEMMA TearTypes ==
    ASSUME Typed, NEW e \in Event, Tear(e)
    PROVE  /\ disk' \subseteq Event /\ IsFiniteSet(disk')
           /\ openEnd' \in Event \cup {None, Torn, Cut} /\ tears' \in Nat
  BY DEF Typed, Tear

LEMMA HoldTypes ==
    ASSUME Typed, NEW e \in Event, Hold(e)
    PROVE  pending' \subseteq Event /\ IsFiniteSet(pending')
<1>1. PICK gone : pending' = (pending \ gone) \cup {e}
  BY DEF Hold
<1>2. IsFiniteSet(pending \ gone)
  BY FS_Subset DEF Typed
<1>3. IsFiniteSet((pending \ gone) \cup {e})
  BY <1>2, FS_AddElement
<1>4. QED
  BY <1>1, <1>3 DEF Typed

LEMMA TakeTypes ==
    ASSUME Typed, NEW f, Take(f)
    PROVE  pending' \subseteq Event /\ IsFiniteSet(pending')
  BY FS_RemoveElement DEF Typed, Take

\* What load gives to put_verified are lines of the file.
LEMMA SortedAreLines ==
    ASSUME NEW S, S \subseteq Event, IsFiniteSet(S), NEW q \in Sorted(S)
    PROVE  q \in Seq(Event) /\ SX!Range(q) \subseteq S
<1>0. SX!Cardinality(S) = Cardinality(S)
  BY DEF SX!Cardinality, Cardinality, SX!IsFiniteSet, IsFiniteSet
<1>1. q \in [1..Cardinality(S) -> S]
  BY <1>0 DEF Sorted, SX!SetToSeqs
<1>2. Cardinality(S) \in Nat
  BY FS_CardinalityType
<1>3. q \in Seq(S)
  BY <1>1, <1>2
<1>4. QED
  BY <1>1, <1>3 DEF SX!Range

LEMMA TailKeeps ==
    ASSUME NEW q \in Seq(Event), q # <<>>
    PROVE  /\ Head(q) \in Event /\ Tail(q) \in Seq(Event)
           /\ Head(q) \in SX!Range(q)
           /\ SX!Range(Tail(q)) \subseteq SX!Range(q)
  BY DEF SX!Range

LEMMA RecoverableIsFinite ==
    ASSUME Typed PROVE IsFiniteSet(Recoverable) /\ Recoverable \subseteq Event
<1>1. IsFiniteSet({openEnd})
  BY FS_Singleton
<1>2. IsFiniteSet({openEnd} \cap Event)
  BY <1>1, FS_Subset
<1>3. IsFiniteSet(disk \cup {openEnd})
  BY FS_AddElement DEF Typed
<1>4. Recoverable \subseteq disk \cup {openEnd}
  BY DEF Recoverable
<1>5. QED
  BY <1>3, <1>4, FS_Subset, FS_EmptySet DEF Typed, Recoverable

-----------------------------------------------------------------------------
(* Types *)

LEMMA TypedInit == Init => Typed
<1> SUFFICES ASSUME Init PROVE Typed
  OBVIOUS
<1>1. IsFiniteSet({})
  BY FS_EmptySet
<1>3. logs \in [Author -> Seq(Event)] /\ heads \in [Author -> Nat] /\ failed \in [Blob -> Nat]
  BY DEF Init
<1>4. rounds \in [Round -> (SUBSET Blob) \cup {None}]
  BY DEF Init
<1>5. QED
  BY <1>1, <1>3, <1>4 DEF Init, Typed

LEMMA LoadTyped == Typed /\ (LoadNext \/ LoadDone \/ Begin) => Typed'
<1>1. ASSUME Typed, LoadNext PROVE Typed'
  <2> DEFINE e == Head(loading)
  <2>1. e \in Event /\ loading' \in Seq(Event)
    BY <1>1, TailKeeps DEF LoadNext, Typed
  <2>2. UNCHANGED <<mode, fileVars, mediaVars, ownVars, asked>>
    BY <1>1 DEF LoadNext
  <2>3. CASE Apply(e) /\ draining' = {AuthorOf[e]} /\ UNCHANGED pendingVars
    <3>1. AuthorOf[e] \in Author
      BY <2>1, EventAssumption
    <3>2. logs' \in [Author -> Seq(Event)] /\ heads' \in [Author -> Nat]
      BY <1>1, <2>1, <2>3, ApplyTypes
    <3>3. QED
      BY <1>1, <2>1, <2>2, <2>3, <3>1, <3>2
         DEF Typed, fileVars, mediaVars, ownVars, pendingVars
  <2>4. CASE Hold(e) /\ UNCHANGED <<logVars, draining>>
    <3>1. pending' \subseteq Event /\ IsFiniteSet(pending')
      BY <1>1, <2>1, <2>4, HoldTypes
    <3>2. QED
      BY <1>1, <2>1, <2>2, <2>4, <3>1 DEF Typed, fileVars, mediaVars, ownVars, logVars
  <2>5. CASE UNCHANGED <<logVars, pendingVars, draining>>
    BY <1>1, <2>1, <2>2, <2>5
       DEF Typed, fileVars, mediaVars, ownVars, logVars, pendingVars
  <2>6. QED
    BY <1>1, <2>3, <2>4, <2>5 DEF LoadNext
<1>2. ASSUME Typed, LoadDone PROVE Typed'
  <2>1. \A f \in pending : AuthorOf[f] \in Author
    BY <1>2, EventAssumption DEF Typed
  <2>2. QED
    BY <1>2, <2>1 DEF Typed, LoadDone, fileVars, mediaVars, ownVars, logVars, pendingVars
<1>3. ASSUME Typed, Begin PROVE Typed'
  <2>1. Stored \subseteq Event
    BY <1>3, StoredAreEvents
  <2>2. Missing(Stored) \subseteq Blob
    BY <2>1, RustAssumption DEF Missing
  <2>3. Of(Stored, Me) \subseteq Event
    BY <2>1 DEF Of
  <2>4. QED
    BY <1>3, <2>1, <2>2, <2>3 DEF Typed, Begin, fileVars, logVars, pendingVars
<1>4. QED
  BY <1>1, <1>2, <1>3

\* What a put of e does, whatever it comes to.
Puts(e) == PutEarly(e) \/ PutStored(e) \/ PutUnwritten(e)

LEMMA PutTyped ==
    ASSUME Typed, NEW e \in Event, Puts(e)
    PROVE  /\ logs' \in [Author -> Seq(Event)] /\ heads' \in [Author -> Nat]
           /\ pending' \subseteq Event /\ IsFiniteSet(pending')
           /\ draining' \subseteq Author
           /\ disk' \subseteq Event /\ IsFiniteSet(disk')
           /\ openEnd' \in Event \cup {None, Torn, Cut} /\ tears' \in Nat
<1>1. AuthorOf[e] \in Author
  BY EventAssumption
<1>2. CASE PutEarly(e)
  BY <1>2, HoldTypes DEF PutEarly, Typed, logVars, fileVars
<1>3. CASE PutStored(e)
  <2>1. logs' \in [Author -> Seq(Event)] /\ heads' \in [Author -> Nat]
    BY <1>3, ApplyTypes DEF PutStored
  <2>2. /\ disk' \subseteq Event /\ IsFiniteSet(disk')
        /\ openEnd' \in Event \cup {None, Torn, Cut} /\ tears' \in Nat
    BY <1>3, AppendLineTypes DEF PutStored
  <2>3. QED
    BY <1>1, <1>3, <2>1, <2>2 DEF PutStored, Typed, pendingVars
<1>4. CASE PutUnwritten(e)
  <2>1. /\ disk' \subseteq Event /\ IsFiniteSet(disk')
        /\ openEnd' \in Event \cup {None, Torn, Cut} /\ tears' \in Nat
    BY <1>4, TearTypes DEF PutUnwritten
  <2>2. QED
    BY <1>4, <2>1 DEF PutUnwritten, Typed, logVars, pendingVars
<1>5. QED
  BY <1>2, <1>3, <1>4 DEF Puts

LEMMA EventTyped ==
    ASSUME Typed, NEW e \in Event, Post(e) \/ Synced(e) \/ Gossip(e)
    PROVE  Typed'
<1>1. Puts(e)
  BY DEF Puts, Post, Synced, Gossip
<1>2. UNCHANGED <<mode, loading, failed, held, rounds, shown>>
  BY DEF Post, Synced, Gossip, Offer, mediaVars, ownVars
<1>3. wanted' \subseteq Blob /\ asked' \subseteq Event
  <2>1. Missing({e}) \subseteq Blob
    BY RustAssumption DEF Missing
  <2>2. CASE Post(e) \/ Synced(e)
    BY <2>2 DEF Post, Synced, Typed, mediaVars
  <2>3. CASE Gossip(e)
    BY <2>1, <2>3 DEF Gossip, Typed
  <2>4. QED
    BY <2>2, <2>3
<1>4. QED
  BY <1>1, <1>2, <1>3, PutTyped DEF Typed

LEMMA DrainTyped ==
    ASSUME Typed, NEW a \in Author, Drain(a)
    PROVE  Typed'
<1>1. UNCHANGED <<mode, loading, mediaVars, ownVars, asked>>
  BY DEF Drain
<1>2. \A f \in Next1(a) : f \in Event
  BY DEF Next1, Of, Typed
<1>3. CASE DrainEnds(a)
  <2>1. logs' \in [Author -> Seq(Event)] /\ heads' \in [Author -> Nat]
            /\ draining' \subseteq Author
    BY <1>3 DEF DrainEnds, Typed, logVars
  <2>2. CASE UNCHANGED <<pendingVars, fileVars>>
    BY <1>1, <2>1, <2>2 DEF Typed, mediaVars, ownVars, pendingVars, fileVars
  <2>3. ASSUME NEW f \in Next1(a), Take(f), UNCHANGED fileVars \/ Tear(f)
        PROVE  Typed'
    <3>1. pending' \subseteq Event /\ IsFiniteSet(pending')
      BY <2>3, TakeTypes
    <3>2. /\ disk' \subseteq Event /\ IsFiniteSet(disk')
          /\ openEnd' \in Event \cup {None, Torn, Cut} /\ tears' \in Nat
      BY <1>2, <2>3, TearTypes DEF Typed, fileVars
    <3>3. QED
      BY <1>1, <2>1, <3>1, <3>2 DEF Typed, mediaVars, ownVars
  <2>4. QED
    BY <1>3, <2>2, <2>3 DEF DrainEnds
<1>4. CASE DrainStores(a)
  <2>1. PICK f \in Next1(a) : Take(f) /\ AppendLine(f) /\ Apply(f)
    BY <1>4 DEF DrainStores
  <2>2. logs' \in [Author -> Seq(Event)] /\ heads' \in [Author -> Nat]
    BY <1>2, <2>1, ApplyTypes
  <2>3. pending' \subseteq Event /\ IsFiniteSet(pending')
    BY <2>1, TakeTypes
  <2>4. /\ disk' \subseteq Event /\ IsFiniteSet(disk')
        /\ openEnd' \in Event \cup {None, Torn, Cut} /\ tears' \in Nat
    BY <1>2, <2>1, AppendLineTypes
  <2>5. QED
    BY <1>1, <1>4, <2>2, <2>3, <2>4 DEF DrainStores, Typed, mediaVars, ownVars
<1>5. QED
  BY <1>3, <1>4 DEF Drain

LEMMA CrashTyped == Typed /\ Crash => Typed'
<1> SUFFICES ASSUME Typed, Crash PROVE Typed'
  OBVIOUS
<1>1. /\ disk' \subseteq Event /\ IsFiniteSet(disk')
      /\ openEnd' \in Event \cup {None, Torn, Cut} /\ tears' \in Nat
  <2>1. CASE UNCHANGED fileVars
    BY <2>1 DEF Typed, fileVars
  <2>2. CASE \E e \in Event : Tear(e)
    BY <2>2, TearTypes
  <2>3. QED
    BY <2>1, <2>2 DEF Crash
<1>2. loading' \in Seq(Event)
  <2> DEFINE S == Recoverable'
  <2>1. IsFiniteSet(S) /\ S \subseteq Event
    <3>1. IsFiniteSet(disk' \cup {openEnd'})
      BY <1>1, FS_AddElement
    <3>2. S \subseteq Event /\ S \subseteq disk' \cup {openEnd'}
      BY <1>1 DEF Recoverable
    <3>3. QED
      BY <3>1, <3>2, FS_Subset
  <2>2. loading' \in Sorted(S)
    BY DEF Crash
  <2> HIDE DEF S
  <2>3. QED
    BY <2>1, <2>2, SortedAreLines
<1>3. /\ logs' = [a \in Author |-> <<>>] /\ heads' = [a \in Author |-> 0]
      /\ mode' \in {"loading", "broken"} /\ pending' = {} /\ draining' = {} /\ wanted' = {}
      /\ failed' = [b \in Blob |-> 0] /\ rounds' = [r \in Round |-> None]
      /\ asked' = {} /\ held' = held /\ shown' = shown
  BY DEF Crash
<1>4. logs' \in [Author -> Seq(Event)] /\ heads' \in [Author -> Nat] /\ failed' \in [Blob -> Nat]
          /\ rounds' \in [Round -> (SUBSET Blob) \cup {None}]
  BY <1>3
<1>5. IsFiniteSet(pending')
  BY <1>3, FS_EmptySet
<1>6. QED
  BY <1>1, <1>2, <1>3, <1>4, <1>5 DEF Typed

LEMMA FetchTyped ==
    ASSUME Typed, NEW r \in Round, BlobTick(r) \/ FetchStep(r)
    PROVE  Typed'
<1>1. /\ UNCHANGED <<mode, loading, logVars, pendingVars, draining, fileVars, ownVars, asked>>
  BY DEF BlobTick, FetchStep, Fetched, NotFetched, Media
<1>2. CASE BlobTick(r)
  BY <1>1, <1>2 DEF BlobTick, Typed, logVars, pendingVars, fileVars, ownVars
<1>3. CASE FetchStep(r)
  <2>1. PICK b \in rounds[r] : Fetched(r, b) \/ NotFetched(r, b)
    BY <1>3 DEF FetchStep
  <2>2. rounds[r] \in SUBSET Blob
    BY <1>3 DEF FetchStep, Typed
  <2>3. b \in Blob
    BY <2>2
  <2>4. rounds' \in [Round -> (SUBSET Blob) \cup {None}]
    <3>1. rounds' = [rounds EXCEPT ![r] = IF @ = {b} THEN None ELSE @ \ {b}]
      BY <2>1 DEF Fetched, NotFetched, Tried
    <3>2. rounds[r] \ {b} \in SUBSET Blob
      BY <2>2
    <3>3. QED
      BY <3>1, <3>2 DEF Typed
  <2>5. wanted' \subseteq Blob /\ failed' \in [Blob -> Nat] /\ held' \subseteq Blob
    <3>1. CASE Fetched(r, b)
      BY <2>3, <3>1 DEF Fetched, Typed
    <3>2. CASE NotFetched(r, b)
      <4>1. failed[b] \in Nat
        BY <2>3 DEF Typed
      <4>2. /\ failed[b] < MaxAttempts => failed' = [failed EXCEPT ![b] = failed[b] + 1]
            /\ ~(failed[b] < MaxAttempts) => failed' = [failed EXCEPT ![b] = failed[b]]
        BY <3>2 DEF NotFetched
      <4>3. failed' \in [Blob -> Nat]
        BY <2>3, <4>1, <4>2 DEF Typed
      <4>4. QED
        BY <3>2, <4>3 DEF NotFetched, Typed
    <3>3. QED
      BY <2>1, <3>1, <3>2
  <2>6. QED
    BY <1>1, <2>4, <2>5 DEF Typed, logVars, pendingVars, fileVars, ownVars
<1>4. QED
  BY <1>2, <1>3

LEMMA TypedStep == Typed /\ [Next]_vars => Typed'
<1> SUFFICES ASSUME Typed, [Next]_vars PROVE Typed'
  OBVIOUS
<1>1. CASE UNCHANGED vars
  BY <1>1 DEF vars, Typed, logVars, pendingVars, fileVars, mediaVars, ownVars
<1>2. CASE Next
  BY <1>2, LoadTyped, CrashTyped, EventTyped, DrainTyped, FetchTyped DEF Next
<1>3. QED
  BY <1>1, <1>2

(***************************************************************************)
(* The types the rest relies on are kept by every action of store.rs and   *)
(* main.rs, whatever is torn, drained or crashes.                          *)
(***************************************************************************)
THEOREM RustPeerTypes == Spec => []Typed
<1>1. QED
  BY TypedInit, TypedStep, PTL DEF Spec

-----------------------------------------------------------------------------
(* What a step does to the logs and to the buffer *)

Emptied ==
    /\ logs' = [a \in Author |-> <<>>] /\ heads' = [a \in Author |-> 0]
    /\ pending' = {} /\ pendingCount' = 0 /\ draining' = {}

Stores(e) ==
    /\ Fits(e) /\ Apply(e)
    /\ draining = {} /\ draining' = {AuthorOf[e]}
    /\ UNCHANGED pendingVars

Holds(e) == Hold(e) /\ UNCHANGED <<logs, heads, draining>>

DrainBegins ==
    /\ draining' = {AuthorOf[f] : f \in pending}
    /\ draining = {}
    /\ UNCHANGED <<logs, heads, pendingVars>>

LEMMA StepCases ==
    ASSUME Typed, [Next]_vars
    PROVE  \/ UNCHANGED <<logs, heads, pendingVars, draining>>
           \/ Emptied \/ DrainBegins
           \/ \E e \in Event : Stores(e) \/ Holds(e)
           \/ \E a \in draining : DrainEnds(a) \/ DrainStores(a)
<1>1. CASE UNCHANGED vars
  BY <1>1 DEF vars, logVars, pendingVars
<1>2. CASE LoadNext
  <2>1. Head(loading) \in Event
    BY <1>2, TailKeeps DEF LoadNext, Typed
  <2>2. QED
    BY <1>2, <2>1 DEF LoadNext, Stores, Holds, logVars
<1>3. CASE LoadDone
  BY <1>3 DEF LoadDone, DrainBegins, logVars
<1>4. CASE Begin
  BY <1>4 DEF Begin, logVars
<1>5. CASE Crash
  BY <1>5 DEF Crash, Emptied
<1>6. ASSUME NEW e \in Event, Post(e) \/ Synced(e) \/ Gossip(e)
      PROVE  \/ UNCHANGED <<logs, heads, pendingVars, draining>>
             \/ Stores(e) \/ Holds(e)
  <2>1. PutEarly(e) \/ PutStored(e) \/ PutUnwritten(e)
    BY <1>6 DEF Post, Synced, Gossip
  <2>2. draining = {}
    BY <1>6 DEF Post, Synced, Gossip, Offer
  <2>3. QED
    BY <2>1, <2>2 DEF PutEarly, PutStored, PutUnwritten, Stores, Holds, logVars
<1>7. ASSUME NEW a \in Author, Drain(a)
      PROVE  a \in draining /\ (DrainEnds(a) \/ DrainStores(a))
  BY <1>7 DEF Drain
<1>8. ASSUME NEW r \in Round, BlobTick(r) \/ FetchStep(r)
      PROVE  UNCHANGED <<logs, heads, pendingVars, draining>>
  BY <1>8 DEF BlobTick, FetchStep, Fetched, NotFetched, Media, logVars
<1>9. QED
  BY <1>1, <1>2, <1>3, <1>4, <1>5, <1>6, <1>7, <1>8 DEF Next

\* What drains fits: it is at the next position and names the head.
LEMMA DrainFits ==
    ASSUME Typed, NEW a \in draining, DrainStores(a)
    PROVE  \E f \in Next1(a) :
               /\ f \in Event /\ AuthorOf[f] = a
               /\ Fits(f) /\ Take(f) /\ AppendLine(f) /\ Apply(f)
               /\ draining' = draining
<1>1. PICK f \in Next1(a) : PrevOf[f] = HeadId(a) /\ Take(f) /\ AppendLine(f) /\ Apply(f)
  BY DEF DrainStores
<1>2. f \in Event /\ AuthorOf[f] = a /\ SeqOf[f] = heads[a] + 1
  BY <1>1 DEF Next1, Of, Typed
<1>3. QED
  BY <1>1, <1>2 DEF DrainStores, Fits

-----------------------------------------------------------------------------
(* Position and sequence *)

LEMMA ApplyKeepsPositions ==
    ASSUME Typed, PositionIsSeq, NEW e \in Event, Fits(e), Apply(e)
    PROVE  PositionIsSeq'
<1> DEFINE a == AuthorOf[e]
           l == logs[a]
<1>1. a \in Author /\ SeqOf[e] \in Nat \ {0}
  BY EventAssumption
<1>2. logs' = [logs EXCEPT ![a] = Append(l, e)] /\ heads' = [heads EXCEPT ![a] = SeqOf[e]]
  BY DEF Apply
<1>3. l \in Seq(Event) /\ heads[a] = Len(l) /\ SeqOf[e] = Len(l) + 1
  BY <1>1 DEF Typed, PositionIsSeq, Fits
<1>4. Len(l) # 0 => PrevOf[e] = l[Len(l)]
  BY <1>3 DEF Fits, HeadId
<1>5. ASSUME NEW b \in Author, b # a
      PROVE  logs'[b] = logs[b] /\ heads'[b] = heads[b]
  BY <1>2, <1>5 DEF Typed
<1>6. logs'[a] = Append(l, e) /\ heads'[a] = Len(l) + 1
  BY <1>1, <1>2, <1>3 DEF Typed
<1>7. ASSUME NEW i \in DOMAIN Append(l, e)
      PROVE  /\ SeqOf[Append(l, e)[i]] = i /\ AuthorOf[Append(l, e)[i]] = a
             /\ i > 1 => PrevOf[Append(l, e)[i]] = Append(l, e)[i - 1]
  <2>0. l \in Seq(Event) /\ Len(l) \in Nat /\ i \in 1..(Len(l) + 1)
    BY <1>3, <1>7
  <2>1. CASE i = Len(l) + 1
    <3>1. Append(l, e)[i] = e
      BY <1>3, <2>1
    <3>2. i > 1 => Append(l, e)[i - 1] = l[Len(l)]
      BY <1>3, <2>0, <2>1
    <3>3. QED
      BY <1>3, <1>4, <2>0, <2>1, <3>1, <3>2
  <2>2. CASE i # Len(l) + 1
    <3>1. i \in DOMAIN l /\ Append(l, e)[i] = l[i]
      BY <1>3, <2>0, <2>2
    <3>2. i > 1 => Append(l, e)[i - 1] = l[i - 1]
      BY <1>3, <2>0, <2>2
    <3>3. QED
      BY <1>1, <3>1, <3>2 DEF PositionIsSeq
  <2>3. QED
    BY <2>1, <2>2
<1>8. Len(Append(l, e)) = Len(l) + 1
  BY <1>3
<1> HIDE DEF l, a
<1>9. ASSUME NEW b \in Author
      PROVE  /\ heads'[b] = Len(logs'[b])
             /\ \A i \in DOMAIN logs'[b] :
                    /\ SeqOf[logs'[b][i]] = i /\ AuthorOf[logs'[b][i]] = b
                    /\ i > 1 => PrevOf[logs'[b][i]] = logs'[b][i - 1]
  <2>1. CASE b = a
    BY <1>6, <1>7, <1>8, <2>1
  <2>2. CASE b # a
    BY <1>5, <2>2 DEF PositionIsSeq
  <2>3. QED
    BY <2>1, <2>2
<1>10. QED
  BY <1>9 DEF PositionIsSeq

LEMMA PositionStep == Typed /\ PositionIsSeq /\ [Next]_vars => PositionIsSeq'
<1> SUFFICES ASSUME Typed, PositionIsSeq, [Next]_vars PROVE PositionIsSeq'
  OBVIOUS
<1>1. CASE UNCHANGED <<logs, heads>>
  BY <1>1 DEF PositionIsSeq
<1>2. CASE logs' = [a \in Author |-> <<>>] /\ heads' = [a \in Author |-> 0]
  BY <1>2 DEF PositionIsSeq
<1>3. CASE \E e \in Event : Fits(e) /\ Apply(e)
  BY <1>3, ApplyKeepsPositions
<1>4. QED
  BY <1>1, <1>2, <1>3, StepCases, DrainFits
     DEF Emptied, DrainBegins, Stores, Holds, DrainEnds, logVars

(***************************************************************************)
(* "Position and sequence never drift": for any file, put_verified, the    *)
(* drain and load put the event with seq n + 1 at index n, on top of the   *)
(* event it names (store.rs:293, 444-480).                                 *)
(***************************************************************************)
THEOREM RustPositionIsSeq == Spec => []PositionIsSeq
<1>1. Init => PositionIsSeq
  BY DEF Init, PositionIsSeq
<1>2. QED
  BY <1>1, TypedInit, TypedStep, PositionStep, PTL DEF Spec

-----------------------------------------------------------------------------
(* The buffer *)

\* Nothing held is below the next position of its log, and what is at that
\* position is about to be drained.
BufferAhead ==
    \A f \in pending :
        /\ SeqOf[f] > heads[AuthorOf[f]]
        /\ SeqOf[f] = heads[AuthorOf[f]] + 1 => AuthorOf[f] \in draining

Counted ==
    /\ pendingCount = Cardinality(pending) /\ pendingCount <= MaxPending
    /\ \A a \in Author : Cardinality(Of(pending, a)) <= MaxPendingPerAuthor

\* One event per position, so that a drained position is left empty.
BufferOK == Counted /\ OnePerSlot(pending) /\ BufferAhead

LEMMA BufferShows == Typed /\ BufferOK => HeldCountExact
<1> SUFFICES ASSUME Typed, BufferOK, draining = {}, NEW f \in pending
             PROVE  Early(f)
  BY DEF BufferOK, Counted, HeldCountExact
<1>1. f \in Event
  BY DEF Typed
<1>2. SeqOf[f] \in Nat /\ heads[AuthorOf[f]] \in Nat
  BY <1>1, EventAssumption DEF Typed
<1>3. SeqOf[f] > heads[AuthorOf[f]] /\ SeqOf[f] # heads[AuthorOf[f]] + 1
  BY DEF BufferOK, BufferAhead
<1>4. QED
  BY <1>2, <1>3 DEF Early

LEMMA OfIsFinite ==
    ASSUME Typed, NEW a
    PROVE  IsFiniteSet(Of(pending, a)) /\ Cardinality(Of(pending, a)) \in Nat
<1>1. Of(pending, a) \subseteq pending
  BY DEF Of
<1>2. QED
  BY <1>1, FS_Subset, FS_CardinalityType DEF Typed

LEMMA HoldsKeepsCounts ==
    ASSUME Typed, BufferOK, NEW e \in Event, Hold(e)
    PROVE  Counted'
<1>1. PICK gone \in {{}} \cup {Evicted(a) : a \in Author} :
          /\ gone = {} <=> pendingCount < MaxPending
          /\ pending' = (pending \ gone) \cup {e}
          /\ pendingCount' = pendingCount - Cardinality(gone) + 1
  BY DEF Hold
<1>2. gone \subseteq pending /\ IsFiniteSet(pending)
  BY <1>1 DEF Evicted, Of, Typed
<1>3. IsFiniteSet(gone) /\ IsFiniteSet(pending \ gone)
  BY <1>2, FS_Subset
<1>4. Cardinality(pending \ gone) = Cardinality(pending) - Cardinality(gone)
  <2>1. Cardinality(pending) \in Nat /\ Cardinality(gone) \in Nat
            /\ Cardinality(pending \ gone) \in Nat
    BY <1>2, <1>3, FS_CardinalityType
  <2>2. pending \cap gone = gone
    BY <1>2
  <2>3. Cardinality(pending \ gone) = Cardinality(pending) - Cardinality(pending \cap gone)
    BY <1>2, FS_Difference
  <2>4. QED
    BY <2>2, <2>3
<1>5. e \notin pending
  BY EventAssumption DEF Hold, CanHold, Slot, Of
<1>6. Cardinality(pending') = Cardinality(pending) - Cardinality(gone) + 1
  <2>1. e \notin pending \ gone
    BY <1>5
  <2>2. QED
    BY <1>1, <1>3, <1>4, <2>1, FS_AddElement
<1>7. Cardinality(pending) \in Nat /\ Cardinality(gone) \in Nat /\ MaxPending \in Nat \ {0}
  BY <1>2, <1>3, FS_CardinalityType, RustAssumption
<1>8. gone # {} => Cardinality(gone) # 0
  BY <1>3, FS_EmptySet
<1>9. gone = {} => Cardinality(gone) = 0
  BY FS_EmptySet
<1>10. pendingCount' = Cardinality(pending') /\ pendingCount' <= MaxPending
  BY <1>1, <1>6, <1>7, <1>8, <1>9 DEF BufferOK, Counted
<1>11. ASSUME NEW a \in Author
       PROVE  Cardinality(Of(pending', a)) <= MaxPendingPerAuthor
  <2>1. IsFiniteSet(Of(pending, a)) /\ Cardinality(Of(pending, a)) \in Nat
    BY OfIsFinite
  <2>2. Cardinality(Of(pending, a)) <= MaxPendingPerAuthor /\ MaxPendingPerAuthor \in Nat
    BY RustAssumption DEF BufferOK, Counted
  <2>3. CASE a = AuthorOf[e]
    <3>1. Cardinality(Of(pending, a)) < MaxPendingPerAuthor
      BY <2>3 DEF Hold, CanHold
    <3>2. IsFiniteSet(Of(pending, a) \cup {e})
              /\ Cardinality(Of(pending, a) \cup {e}) <= Cardinality(Of(pending, a)) + 1
      BY <2>1, FS_AddElement
    <3>3. Of(pending', a) \subseteq Of(pending, a) \cup {e}
      BY <1>1 DEF Of
    <3>4. Cardinality(Of(pending', a)) <= Cardinality(Of(pending, a) \cup {e})
              /\ IsFiniteSet(Of(pending', a))
      BY <3>2, <3>3, FS_Subset
    <3>5. Cardinality(Of(pending', a)) \in Nat /\ Cardinality(Of(pending, a) \cup {e}) \in Nat
      BY <3>2, <3>4, FS_CardinalityType
    <3>6. QED
      BY <2>1, <2>2, <3>1, <3>2, <3>4, <3>5
  <2>4. CASE a # AuthorOf[e]
    <3>1. Of(pending', a) \subseteq Of(pending, a)
      BY <1>1, <2>4 DEF Of
    <3>2. Cardinality(Of(pending', a)) <= Cardinality(Of(pending, a))
              /\ IsFiniteSet(Of(pending', a))
      BY <2>1, <3>1, FS_Subset
    <3>3. Cardinality(Of(pending', a)) \in Nat
      BY <3>2, FS_CardinalityType
    <3>4. QED
      BY <2>1, <2>2, <3>2, <3>3
  <2>5. QED
    BY <2>3, <2>4
<1>12. QED
  BY <1>10, <1>11 DEF Counted

LEMMA HoldsKeepsBuffer ==
    ASSUME Typed, BufferOK, NEW e \in Event, Holds(e)
    PROVE  BufferOK'
<1>1. Counted'
  BY HoldsKeepsCounts DEF Holds
<1>2. Hold(e) /\ UNCHANGED <<heads, draining>>
  BY DEF Holds
<1>3. pending' \subseteq pending \cup {e}
  BY <1>2 DEF Hold
<1>4. OnePerSlot(pending')
  <2>1. \A f \in pending : AuthorOf[f] = AuthorOf[e] => SeqOf[f] # SeqOf[e]
    BY <1>2 DEF Hold, CanHold, Slot, Of
  <2>2. QED
    BY <1>3, <2>1 DEF BufferOK, OnePerSlot
<1>5. BufferAhead'
  <2>1. SeqOf[e] > heads[AuthorOf[e]] + 1
    BY <1>2 DEF Hold, CanHold, Early
  <2>2. SeqOf[e] \in Nat /\ heads[AuthorOf[e]] \in Nat
    BY EventAssumption DEF Typed
  <2>3. ASSUME NEW f \in pending'
        PROVE  /\ SeqOf[f] > heads'[AuthorOf[f]]
               /\ SeqOf[f] = heads'[AuthorOf[f]] + 1 => AuthorOf[f] \in draining'
    <3>1. CASE f = e
      BY <1>2, <2>1, <2>2, <3>1
    <3>2. CASE f \in pending
      BY <1>2, <3>2 DEF BufferOK, BufferAhead
    <3>3. QED
      BY <1>3, <3>1, <3>2
  <2>4. QED
    BY <2>3 DEF BufferAhead
<1>6. QED
  BY <1>1, <1>4, <1>5 DEF BufferOK

\* When nothing is being drained, what an event that fits leaves behind is
\* above it; what is right above it is drained next.
LEMMA StoresKeepsBuffer ==
    ASSUME Typed, BufferOK, NEW e \in Event, Stores(e)
    PROVE  BufferOK'
<1> DEFINE a == AuthorOf[e]
<1>1. a \in Author /\ SeqOf[e] = heads[a] + 1 /\ heads[a] \in Nat
  BY EventAssumption DEF Typed, Stores, Fits
<1>2. heads' = [heads EXCEPT ![a] = heads[a] + 1]
  BY <1>1 DEF Stores, Apply
<1>3. pending' = pending /\ pendingCount' = pendingCount /\ draining = {} /\ draining' = {a}
  BY DEF Stores, pendingVars
<1>4. ASSUME NEW f \in pending
      PROVE  /\ SeqOf[f] > heads'[AuthorOf[f]]
             /\ SeqOf[f] = heads'[AuthorOf[f]] + 1 => AuthorOf[f] \in draining'
  <2>1. f \in Event
    BY DEF Typed
  <2>2. AuthorOf[f] \in Author /\ SeqOf[f] \in Nat /\ heads[AuthorOf[f]] \in Nat
    BY <2>1, EventAssumption DEF Typed
  <2>3. SeqOf[f] > heads[AuthorOf[f]] + 1
    BY <1>3, <2>2 DEF BufferOK, BufferAhead
  <2>4. heads'[AuthorOf[f]] = IF AuthorOf[f] = a THEN heads[a] + 1 ELSE heads[AuthorOf[f]]
    BY <1>1, <1>2, <2>2 DEF Typed
  <2>5. QED
    BY <1>3, <2>2, <2>3, <2>4
<1>5. BufferAhead'
  BY <1>3, <1>4 DEF BufferAhead
<1>6. QED
  BY <1>3, <1>5 DEF BufferOK, Counted, OnePerSlot

LEMMA TakeKeepsCounts ==
    ASSUME Typed, BufferOK, NEW f \in pending, Take(f)
    PROVE  Counted' /\ OnePerSlot(pending')
<1>1. pending' = pending \ {f} /\ pendingCount' = pendingCount - 1
  BY DEF Take
<1>2. Cardinality(pending \ {f}) = Cardinality(pending) - 1
  BY FS_RemoveElement DEF Typed
<1>3. Cardinality(pending) \in Nat /\ MaxPending \in Nat /\ MaxPendingPerAuthor \in Nat
  BY FS_CardinalityType, RustAssumption DEF Typed
<1>4. ASSUME NEW a \in Author
      PROVE  Cardinality(Of(pending', a)) <= MaxPendingPerAuthor
  <2>1. IsFiniteSet(Of(pending, a)) /\ Cardinality(Of(pending, a)) \in Nat
    BY OfIsFinite
  <2>2. Of(pending', a) \subseteq Of(pending, a)
    BY <1>1 DEF Of
  <2>3. Cardinality(Of(pending', a)) <= Cardinality(Of(pending, a))
            /\ IsFiniteSet(Of(pending', a))
    BY <2>1, <2>2, FS_Subset
  <2>4. Cardinality(Of(pending', a)) \in Nat
    BY <2>3, FS_CardinalityType
  <2>5. QED
    BY <1>3, <2>1, <2>3, <2>4 DEF BufferOK, Counted
<1>5. QED
  BY <1>1, <1>2, <1>3, <1>4 DEF BufferOK, Counted, OnePerSlot

\* The drain of an author ends with nothing of its left at the next position.
LEMMA DrainEndsKeepsBuffer ==
    ASSUME Typed, BufferOK, NEW a \in draining, DrainEnds(a)
    PROVE  BufferOK'
<1>1. UNCHANGED <<logs, heads>> /\ draining' = draining \ {a}
  BY DEF DrainEnds, logVars
<1>2. ASSUME NEW f \in pending
      PROVE  f \in Event /\ SeqOf[f] > heads[AuthorOf[f]]
  BY DEF BufferOK, BufferAhead, Typed
<1>3. CASE Next1(a) = {} /\ UNCHANGED <<pendingVars, fileVars>>
  <2>1. pending' = pending /\ pendingCount' = pendingCount
    BY <1>3 DEF pendingVars
  <2>2. \A f \in pending : AuthorOf[f] = a => SeqOf[f] # heads[a] + 1
    BY <1>3 DEF Next1, Of
  <2>3. BufferAhead'
    BY <1>1, <1>2, <2>1, <2>2 DEF BufferOK, BufferAhead
  <2>4. QED
    BY <2>1, <2>3 DEF BufferOK, Counted, OnePerSlot
<1>4. CASE \E f \in Next1(a) : Take(f)
  <2>1. PICK f \in Next1(a) : Take(f)
    BY <1>4
  <2>2. f \in pending /\ AuthorOf[f] = a /\ SeqOf[f] = heads[a] + 1
    BY DEF Next1, Of
  <2>3. Counted' /\ OnePerSlot(pending')
    BY <2>1, <2>2, TakeKeepsCounts
  <2>4. pending' = pending \ {f}
    BY <2>1 DEF Take
  <2>5. \A g \in pending' : AuthorOf[g] = a => SeqOf[g] # heads[a] + 1
    BY <2>2, <2>4 DEF BufferOK, OnePerSlot
  <2>6. BufferAhead'
    BY <1>1, <1>2, <2>4, <2>5 DEF BufferOK, BufferAhead
  <2>7. QED
    BY <2>3, <2>6 DEF BufferOK
<1>5. QED
  BY <1>3, <1>4 DEF DrainEnds

LEMMA DrainStoresKeepsBuffer ==
    ASSUME Typed, BufferOK, NEW a \in draining, DrainStores(a)
    PROVE  BufferOK'
<1>1. PICK f \in Next1(a) :
          /\ f \in Event /\ AuthorOf[f] = a
          /\ Fits(f) /\ Take(f) /\ AppendLine(f) /\ Apply(f)
          /\ draining' = draining
  BY DrainFits
<1>2. f \in pending /\ SeqOf[f] = heads[a] + 1 /\ a \in Author
  BY <1>1 DEF Next1, Of, Typed
<1>3. Counted' /\ OnePerSlot(pending')
  BY <1>1, <1>2, TakeKeepsCounts
<1>4. pending' = pending \ {f} /\ heads' = [heads EXCEPT ![a] = heads[a] + 1]
  BY <1>1, <1>2 DEF Take, Apply
<1>5. ASSUME NEW g \in pending'
      PROVE  /\ SeqOf[g] > heads'[AuthorOf[g]]
             /\ SeqOf[g] = heads'[AuthorOf[g]] + 1 => AuthorOf[g] \in draining'
  <2>1. g \in Event /\ g \in pending /\ g # f
    BY <1>4 DEF Typed
  <2>2. AuthorOf[g] \in Author /\ SeqOf[g] \in Nat /\ heads[AuthorOf[g]] \in Nat
    BY <2>1, EventAssumption DEF Typed
  <2>3. SeqOf[g] > heads[AuthorOf[g]]
            /\ (SeqOf[g] = heads[AuthorOf[g]] + 1 => AuthorOf[g] \in draining)
    BY <2>1 DEF BufferOK, BufferAhead
  <2>4. AuthorOf[g] = a => SeqOf[g] # heads[a] + 1
    BY <1>1, <1>2, <2>1 DEF BufferOK, OnePerSlot
  <2>5. heads'[AuthorOf[g]] = IF AuthorOf[g] = a THEN heads[a] + 1 ELSE heads[AuthorOf[g]]
    BY <1>2, <1>4, <2>2 DEF Typed
  <2>6. QED
    BY <1>1, <2>2, <2>3, <2>4, <2>5
<1>6. QED
  BY <1>3, <1>5 DEF BufferOK, BufferAhead

LEMMA NothingIsFew ==
    /\ Cardinality({}) = 0 /\ 0 <= MaxPending
    /\ \A a \in Author : Cardinality(Of({}, a)) <= MaxPendingPerAuthor
<1>1. \A a \in Author : Of({}, a) = {}
  BY DEF Of
<1>2. Cardinality({}) = 0
  BY FS_EmptySet
<1>3. QED
  BY <1>1, <1>2, RustAssumption

LEMMA BufferStep == Typed /\ BufferOK /\ [Next]_vars => BufferOK'
<1> SUFFICES ASSUME Typed, BufferOK, [Next]_vars PROVE BufferOK'
  OBVIOUS
<1>1. CASE UNCHANGED <<logs, heads, pendingVars, draining>>
  BY <1>1 DEF BufferOK, Counted, OnePerSlot, BufferAhead, pendingVars
<1>2. CASE Emptied
  <2>1. pending' = {} /\ pendingCount' = 0
    BY <1>2 DEF Emptied
  <2>2. Counted'
    BY <2>1, NothingIsFew DEF Counted
  <2>3. QED
    BY <2>1, <2>2 DEF BufferOK, OnePerSlot, BufferAhead
<1>3. CASE DrainBegins
  <2>1. \A f \in pending : AuthorOf[f] \in draining'
    BY <1>3 DEF DrainBegins
  <2>2. QED
    BY <1>3, <2>1 DEF DrainBegins, BufferOK, Counted, OnePerSlot, BufferAhead, pendingVars
<1>4. QED
  BY <1>1, <1>2, <1>3, StepCases, HoldsKeepsBuffer, StoresKeepsBuffer,
     DrainEndsKeepsBuffer, DrainStoresKeepsBuffer

(***************************************************************************)
(* The counter of hold, evict_pending and drain_pending_for is exact       *)
(* whatever is held, evicted, forked or lost, stays within its caps, and   *)
(* nothing stays in the buffer that could have been drained                *)
(* (store.rs:482-534).                                                     *)
(***************************************************************************)
THEOREM RustHeldCountExact == Spec => []HeldCountExact
<1>1. Init => BufferOK
  <2>1. Init => Counted
    BY NothingIsFew DEF Init, Counted
  <2>2. QED
    BY <2>1 DEF Init, BufferOK, OnePerSlot, BufferAhead
<1>2. QED
  BY <1>1, TypedInit, TypedStep, BufferStep, BufferShows, PTL DEF Spec

-----------------------------------------------------------------------------
(* Wanted media *)

LEMMA NotFetchedSettles ==
    ASSUME Typed, NEW r \in Round, NEW b \in Blob, NotFetched(r, b)
    PROVE  wanted \cup GivenUp \subseteq (wanted \cup GivenUp)'
<1>1. failed[b] \in Nat /\ MaxAttempts \in Nat \ {0}
  BY RustAssumption DEF Typed
<1>2. /\ failed[b] < MaxAttempts => failed' = [failed EXCEPT ![b] = failed[b] + 1]
      /\ ~(failed[b] < MaxAttempts) => failed' = failed
      /\ wanted' = IF failed[b] + 1 >= MaxAttempts THEN wanted \ {b} ELSE wanted
  <2>1. failed = [failed EXCEPT ![b] = failed[b]]
    BY DEF Typed
  <2>2. QED
    BY <2>1 DEF NotFetched
<1>3. ASSUME NEW c \in Blob, failed[c] >= MaxAttempts
      PROVE  failed'[c] >= MaxAttempts
  <2>1. failed'[c] = failed[c] \/ (c = b /\ failed'[c] = failed[b] + 1)
    BY <1>2 DEF Typed
  <2>2. QED
    BY <1>1, <1>3, <2>1
<1>4. failed[b] + 1 >= MaxAttempts => failed'[b] >= MaxAttempts
  <2>1. CASE failed[b] < MaxAttempts
    <3>1. failed'[b] = failed[b] + 1
      BY <1>2, <2>1 DEF Typed
    <3>2. QED
      BY <1>1, <3>1
  <2>2. CASE ~(failed[b] < MaxAttempts)
    BY <1>1, <1>2, <2>2
  <2>3. QED
    BY <2>1, <2>2
<1>5. wanted \subseteq Blob
  BY DEF Typed
<1>6. QED
  BY <1>2, <1>3, <1>4, <1>5 DEF GivenUp

LEMMA FetchedSettles ==
    ASSUME Typed, NEW r \in Round, NEW b \in Blob, Fetched(r, b)
    PROVE  held' = held \cup {b} /\ (wanted \cup GivenUp) \ {b} \subseteq (wanted \cup GivenUp)'
<1>1. failed' = [failed EXCEPT ![b] = 0] /\ wanted' = wanted \ {b} /\ held' = held \cup {b}
  BY DEF Fetched
<1>2. \A c \in Blob : c # b => failed'[c] = failed[c]
  BY <1>1 DEF Typed
<1>3. QED
  BY <1>1, <1>2 DEF GivenUp

LEMMA WantStep == Typed /\ WantedUntilSettled /\ [Next]_vars => WantedUntilSettled'
<1> SUFFICES ASSUME Typed, WantedUntilSettled, [Next]_vars, mode' = "up"
             PROVE  Missing(asked)' \subseteq (wanted \cup GivenUp)'
  BY DEF WantedUntilSettled
<1>1. CASE UNCHANGED <<mode, asked, mediaVars>>
  BY <1>1 DEF mediaVars, WantedUntilSettled, Missing, GivenUp
<1>2. CASE LoadNext \/ LoadDone \/ Crash
  BY <1>2 DEF LoadNext, LoadDone, Crash
<1>3. CASE Begin
  <2>1. wanted' = Missing(Stored) /\ asked' = Stored /\ held' = held
    BY <1>3 DEF Begin
  <2>2. QED
    BY <2>1 DEF Missing
<1>4. ASSUME NEW e \in Event, Post(e) \/ Synced(e)
      PROVE  UNCHANGED <<mode, asked, mediaVars>>
  BY <1>4 DEF Post, Synced, Offer, mediaVars
<1>5. ASSUME NEW e \in Event, Gossip(e)
      PROVE  Missing(asked)' \subseteq (wanted \cup GivenUp)'
  <2>1. UNCHANGED <<mode, failed, held>>
    BY <1>5 DEF Gossip, Offer
  <2>2. CASE wanted' = wanted \cup Missing({e}) /\ asked' = asked \cup {e}
    BY <2>1, <2>2 DEF WantedUntilSettled, Missing, GivenUp
  <2>3. CASE UNCHANGED <<wanted, asked>>
    BY <2>1, <2>3 DEF WantedUntilSettled, Missing, GivenUp
  <2>4. QED
    BY <1>5, <2>2, <2>3 DEF Gossip
<1>6. ASSUME NEW a \in Author, Drain(a)
      PROVE  UNCHANGED <<mode, asked, mediaVars>>
  BY <1>6 DEF Drain
<1>7. ASSUME NEW r \in Round, BlobTick(r)
      PROVE  Missing(asked)' \subseteq (wanted \cup GivenUp)'
  BY <1>7 DEF BlobTick, Media, WantedUntilSettled, Missing, GivenUp
<1>8. ASSUME NEW r \in Round, FetchStep(r)
      PROVE  Missing(asked)' \subseteq (wanted \cup GivenUp)'
  <2>1. PICK b \in rounds[r] : Fetched(r, b) \/ NotFetched(r, b)
    BY <1>8 DEF FetchStep
  <2>2. rounds[r] \in SUBSET Blob
    BY <1>8 DEF FetchStep, Typed
  <2>3. b \in Blob
    BY <2>2
  <2>4. UNCHANGED <<mode, asked>>
    BY <2>1 DEF Fetched, NotFetched, Media
  <2>5. CASE Fetched(r, b)
    <3>1. held' = held \cup {b}
              /\ (wanted \cup GivenUp) \ {b} \subseteq (wanted \cup GivenUp)'
      BY <2>3, <2>5, FetchedSettles
    <3>2. Missing(asked)' = Missing(asked) \ {b}
      BY <2>4, <3>1 DEF Missing
    <3>3. QED
      BY <2>4, <3>1, <3>2 DEF WantedUntilSettled
  <2>6. CASE NotFetched(r, b)
    <3>1. held' = held
      BY <2>6 DEF NotFetched
    <3>2. Missing(asked)' = Missing(asked)
      BY <2>4, <3>1 DEF Missing
    <3>3. QED
      BY <2>3, <2>4, <2>6, <3>2, NotFetchedSettles DEF WantedUntilSettled
  <2>7. QED
    BY <2>1, <2>5, <2>6
<1>9. CASE UNCHANGED vars
  BY <1>1, <1>9 DEF vars
<1>10. QED
  BY <1>1, <1>2, <1>3, <1>4, <1>5, <1>6, <1>7, <1>8, <1>9 DEF Next

(***************************************************************************)
(* ingest_gossip and fetch_wanted_blobs lose sight of no medium they were  *)
(* to get, for any number of overlapping rounds and any sharing of blobs   *)
(* between posts (main.rs:252-264, 376-426).                               *)
(***************************************************************************)
THEOREM RustWantedUntilSettled == Spec => []WantedUntilSettled
<1>1. Init => WantedUntilSettled
  BY DEF Init, WantedUntilSettled
<1>2. QED
  BY <1>1, TypedInit, TypedStep, WantStep, PTL DEF Spec

-----------------------------------------------------------------------------
(* What torn lines cost *)

\* What a line that is lost may take with it.  While the file is loaded, what
\* was read and is not applied yet counts as well: the drain of load appends
\* lines, which may run on in an open one.
Losable == Stored \cup IF mode = "loading" THEN pending \cup SX!Range(loading) ELSE {}
Lost == Losable \ Recoverable

\* What the open end of the file will cost when the next line is appended.
Cost == CASE openEnd = None -> 0 [] openEnd = Torn -> 1 [] OTHER -> 2

Paid == IsFiniteSet(Lost) /\ Cardinality(Lost) + Cost <= 2 * tears

LossPaid == openEnd # Cut => Paid

\* A file with a cut character stays one, and is read by no load.
ReadableStays == openEnd # Cut /\ openEnd' # Cut

LEMMA EndsDiffer ==
    /\ Torn # Cut /\ Torn # None /\ Cut # None
    /\ Torn \notin Event /\ Cut \notin Event /\ None \notin Event
  BY EventAssumption, RustAssumption

LEMMA CutStays ==
    ASSUME \/ UNCHANGED fileVars \/ Crash
           \/ \E e \in Event : AppendLine(e) \/ Tear(e)
    PROVE  openEnd = Cut => openEnd' = Cut
  BY DEF fileVars, AppendLine, Tear, Crash

LEMMA CostValues ==
    ASSUME Typed
    PROVE  /\ Cost \in {0, 1, 2}
           /\ openEnd = None => Cost = 0
           /\ openEnd = Torn => Cost = 1
           /\ openEnd \in Event => Cost = 2
  BY EventAssumption, RustAssumption DEF Typed, Cost

LEMMA LossShows == Typed /\ LossPaid => LossBounded
<1> SUFFICES ASSUME Typed, Paid, mode = "up"
             PROVE  Cardinality(Stored \ Recoverable) <= 2 * tears
  BY DEF LossBounded, LossPaid
<1>1. Lost = Stored \ Recoverable
  BY DEF Lost, Losable
<1>2. Cardinality(Lost) \in Nat /\ Cost \in {0, 1, 2} /\ tears \in Nat
  BY FS_CardinalityType, CostValues DEF Paid, Typed
<1>3. QED
  BY <1>1, <1>2 DEF Paid

LEMMA ApplyGrowsStored ==
    ASSUME Typed, NEW e \in Event, Apply(e)
    PROVE  Stored' = Stored \cup {e}
<1> DEFINE a == AuthorOf[e]
<1>1. a \in Author /\ logs' = [logs EXCEPT ![a] = Append(logs[a], e)]
  BY EventAssumption DEF Apply
<1>2. \A b \in Author : b # a => logs'[b] = logs[b]
  BY <1>1 DEF Typed
<1>3. logs'[a] = Append(logs[a], e) /\ logs[a] \in Seq(Event)
  BY <1>1 DEF Typed
<1>4. SX!Range(Append(logs[a], e)) = SX!Range(logs[a]) \cup {e}
  <2> DEFINE l == logs[a]
             m == Append(l, e)
  <2>0. l \in Seq(Event) /\ Len(l) \in Nat /\ DOMAIN l = 1..Len(l)
    BY <1>3
  <2>1. DOMAIN m = 1..(Len(l) + 1) /\ m[Len(l) + 1] = e
    BY <2>0
  <2>2. \A i \in DOMAIN l : m[i] = l[i]
    BY <2>0
  <2>3. DOMAIN m = DOMAIN l \cup {Len(l) + 1}
    BY <2>0, <2>1
  <2> HIDE DEF l, m
  <2>4. SX!Range(m) = SX!Range(l) \cup {e}
    BY <2>1, <2>2, <2>3 DEF SX!Range
  <2>5. QED
    BY <2>4 DEF l, m
<1> HIDE DEF a
<1>5. QED
  BY <1>1, <1>2, <1>3, <1>4 DEF Stored

\* Steps that lose nothing more.
LEMMA NothingMoreLost ==
    ASSUME Typed, Paid, ReadableStays, UNCHANGED fileVars, Losable' \subseteq Losable
    PROVE  Paid'
<1>1. Recoverable' = Recoverable /\ Cost' = Cost /\ tears' = tears
  BY DEF fileVars, Recoverable, Cost
<1>2. Lost' \subseteq Lost
  BY <1>1 DEF Lost
<1>3. IsFiniteSet(Lost') /\ Cardinality(Lost') <= Cardinality(Lost)
  BY <1>2, FS_Subset DEF Paid
<1>4. Cardinality(Lost') \in Nat /\ Cardinality(Lost) \in Nat
  BY <1>3, FS_CardinalityType DEF Paid
<1>5. Cost \in {0, 1, 2} /\ tears \in Nat
  BY CostValues DEF Typed
<1>6. QED
  BY <1>1, <1>3, <1>4, <1>5 DEF Paid

LEMMA OneMore ==
    ASSUME NEW S, NEW x, IsFiniteSet(S)
    PROVE  /\ IsFiniteSet(S \cup {x})
           /\ Cardinality(S) \in Nat /\ Cardinality(S \cup {x}) \in Nat
           /\ Cardinality(S \cup {x}) <= Cardinality(S) + 1
<1>1. Cardinality(S) \in Nat
  BY FS_CardinalityType
<1>2. IsFiniteSet(S \cup {x})
  BY FS_AddElement
<1>3. Cardinality(S \cup {x}) \in Nat
  BY <1>2, FS_CardinalityType
<1>4. QED
  BY <1>1, <1>2, <1>3, FS_AddElement

LEMMA Fewer ==
    ASSUME NEW S, NEW T, IsFiniteSet(S), T \subseteq S
    PROVE  /\ IsFiniteSet(T)
           /\ Cardinality(S) \in Nat /\ Cardinality(T) \in Nat
           /\ Cardinality(T) <= Cardinality(S)
<1>1. IsFiniteSet(T) /\ Cardinality(T) <= Cardinality(S)
  BY FS_Subset
<1>2. QED
  BY <1>1, FS_CardinalityType

\* The events one append may lose are two at most.
LEMMA TwoMore ==
    ASSUME NEW S, NEW x, NEW y, NEW T, IsFiniteSet(S), T \subseteq (S \cup {x}) \cup {y}
    PROVE  /\ IsFiniteSet(T)
           /\ Cardinality(S) \in Nat /\ Cardinality(T) \in Nat
           /\ Cardinality(T) <= Cardinality(S) + 2
<1>1. PICK R : R = S \cup {x}
  OBVIOUS
<1>2. IsFiniteSet(R) /\ Cardinality(S) \in Nat /\ Cardinality(R) \in Nat
          /\ Cardinality(R) <= Cardinality(S) + 1
  BY <1>1, OneMore
<1>3. IsFiniteSet(R \cup {y}) /\ Cardinality(R \cup {y}) \in Nat
          /\ Cardinality(R \cup {y}) <= Cardinality(R) + 1
  BY <1>2, OneMore
<1>4. IsFiniteSet(T) /\ Cardinality(T) \in Nat /\ Cardinality(T) <= Cardinality(R \cup {y})
  BY <1>1, <1>3, Fewer
<1>5. QED
  BY <1>2, <1>3, <1>4

LEMMA OneMoreAtMost ==
    ASSUME NEW S, NEW x, NEW T, IsFiniteSet(S), T \subseteq S \cup {x}
    PROVE  /\ IsFiniteSet(T)
           /\ Cardinality(S) \in Nat /\ Cardinality(T) \in Nat
           /\ Cardinality(T) <= Cardinality(S) + 1
<1>1. IsFiniteSet(S \cup {x}) /\ Cardinality(S) \in Nat /\ Cardinality(S \cup {x}) \in Nat
          /\ Cardinality(S \cup {x}) <= Cardinality(S) + 1
  BY OneMore
<1>2. IsFiniteSet(T) /\ Cardinality(T) \in Nat /\ Cardinality(T) <= Cardinality(S \cup {x})
  BY <1>1, Fewer
<1>3. QED
  BY <1>1, <1>2

\* A line that goes on in an open one is lost with it.
LEMMA AppendPaid ==
    ASSUME Typed, Paid, ReadableStays, NEW e \in Event, AppendLine(e), Typed',
           Losable' \subseteq Losable \cup {e}
    PROVE  Paid'
<1>1. /\ disk' = IF openEnd = None THEN disk \cup {e} ELSE disk
      /\ openEnd' = None /\ tears' = tears
  BY DEF AppendLine, ReadableStays
<1>2. Cost' = 0 /\ Recoverable' = disk'
  BY <1>1, EndsDiffer DEF Cost, Recoverable
<1>3. IsFiniteSet(Lost) /\ Cardinality(Lost) + Cost <= 2 * tears /\ tears \in Nat
  BY DEF Paid, Typed
<1>4. CASE openEnd = None
  <2>1. Recoverable = disk /\ disk' = disk \cup {e} /\ Cost = 0
    BY <1>1, <1>4, EndsDiffer, CostValues DEF Recoverable
  <2>2. Lost' \subseteq Lost
    BY <1>2, <2>1 DEF Lost
  <2>3. /\ IsFiniteSet(Lost') /\ Cardinality(Lost) \in Nat /\ Cardinality(Lost') \in Nat
        /\ Cardinality(Lost') <= Cardinality(Lost)
    BY <1>3, <2>2, Fewer
  <2>4. QED
    BY <1>1, <1>2, <1>3, <2>1, <2>2, <2>3 DEF Paid
<1>5. CASE openEnd = Torn
  <2>1. Recoverable = disk /\ disk' = disk /\ Cost = 1
    BY <1>1, <1>5, EndsDiffer, CostValues DEF Recoverable
  <2>2. Lost' \subseteq Lost \cup {e}
    BY <1>2, <2>1 DEF Lost
  <2>3. /\ IsFiniteSet(Lost') /\ Cardinality(Lost) \in Nat /\ Cardinality(Lost') \in Nat
        /\ Cardinality(Lost') <= Cardinality(Lost) + 1
    BY <1>3, <2>2, OneMoreAtMost
  <2>4. QED
    BY <1>1, <1>2, <1>3, <2>1, <2>2, <2>3 DEF Paid
<1>6. CASE openEnd \in Event
  <2>1. Recoverable = disk \cup {openEnd} /\ disk' = disk /\ Cost = 2
    BY <1>1, <1>6, EndsDiffer, CostValues DEF Recoverable
  <2>2. Lost' \subseteq (Lost \cup {e}) \cup {openEnd}
    BY <1>2, <2>1 DEF Lost
  <2>3. /\ IsFiniteSet(Lost') /\ Cardinality(Lost) \in Nat /\ Cardinality(Lost') \in Nat
        /\ Cardinality(Lost') <= Cardinality(Lost) + 2
    BY <1>3, <2>2, TwoMore
  <2>4. QED
    BY <1>1, <1>2, <1>3, <2>1, <2>2, <2>3 DEF Paid
<1>7. QED
  BY <1>4, <1>5, <1>6 DEF Typed, ReadableStays

\* An append that is cut short pays for two events.
LEMMA TearPaid ==
    ASSUME Typed, Paid, ReadableStays, NEW e \in Event, Tear(e), Typed',
           Losable' \subseteq Losable
    PROVE  Paid'
<1>1. disk' = disk /\ tears' = tears + 1 /\ openEnd' \in {Torn} \cup {f \in {e} : openEnd = None}
  BY DEF Tear, ReadableStays
<1>2. Cost' \in {0, 1, 2} /\ (openEnd' = Torn => Cost' = 1)
  BY EndsDiffer DEF Cost
<1>3. IsFiniteSet(Lost) /\ Cardinality(Lost) + Cost <= 2 * tears /\ tears \in Nat
  BY DEF Paid, Typed
<1>4. CASE openEnd = None \/ openEnd = Torn
  <2>1. Recoverable = disk /\ Cost \in {0, 1, 2}
    BY <1>4, EndsDiffer, CostValues DEF Recoverable
  <2>2. Lost' \subseteq Lost
    BY <1>1, <2>1 DEF Lost, Recoverable, ReadableStays
  <2>3. /\ IsFiniteSet(Lost') /\ Cardinality(Lost) \in Nat /\ Cardinality(Lost') \in Nat
        /\ Cardinality(Lost') <= Cardinality(Lost)
    BY <1>3, <2>2, Fewer
  <2>4. QED
    BY <1>1, <1>2, <1>3, <2>1, <2>2, <2>3 DEF Paid
<1>5. CASE openEnd \in Event
  <2>1. Recoverable = disk \cup {openEnd} /\ Cost = 2
    BY <1>5, EndsDiffer, CostValues DEF Recoverable
  <2>2. openEnd' = Torn
    BY <1>1, <1>5, EndsDiffer
  <2>3. Lost' \subseteq Lost \cup {openEnd}
    BY <1>1, <2>1 DEF Lost, Recoverable, ReadableStays
  <2>4. /\ IsFiniteSet(Lost') /\ Cardinality(Lost) \in Nat /\ Cardinality(Lost') \in Nat
        /\ Cardinality(Lost') <= Cardinality(Lost) + 1
    BY <1>3, <2>3, OneMoreAtMost
  <2>5. QED
    BY <1>1, <1>2, <1>3, <2>1, <2>2, <2>3, <2>4 DEF Paid
<1>6. QED
  BY <1>4, <1>5 DEF Typed, ReadableStays

LEMMA NothingAdded ==
    ASSUME NEW n, NEW c \in {0, 1, 2}, NEW t \in Nat, n = 0, c <= 2 * t
    PROVE  n + c <= 2 * t
  OBVIOUS

LEMMA CrashPaid ==
    ASSUME Typed, Paid, ReadableStays, Crash, Typed'
    PROVE  Paid'
<1>1. Stored' = {} /\ pending' = {}
  <2>1. \A a \in Author : logs'[a] = <<>>
    BY DEF Crash
  <2>2. SX!Range(<<>>) = {}
    BY DEF SX!Range
  <2>3. Stored' = {}
    BY <2>1, <2>2 DEF Stored
  <2>4. QED
    BY <2>3 DEF Crash
<1>2. SX!Range(loading') \subseteq Recoverable'
  <2>1. IsFiniteSet(Recoverable') /\ Recoverable' \subseteq Event
    <3>1. IsFiniteSet(disk') /\ disk' \subseteq Event
      BY DEF Typed
    <3>2. IsFiniteSet(disk' \cup {openEnd'})
      BY <3>1, FS_AddElement
    <3>3. Recoverable' \subseteq disk' \cup {openEnd'}
      BY DEF Recoverable
    <3>4. QED
      BY <3>1, <3>2, <3>3, FS_Subset DEF Recoverable
  <2>2. loading' \in Sorted(Recoverable')
    BY DEF Crash, Recoverable
  <2>3. QED
    BY <2>1, <2>2, SortedAreLines
<1>3. Lost' = {}
  BY <1>1, <1>2 DEF Lost, Losable
<1>4. IsFiniteSet({}) /\ Cardinality({}) = 0
  BY FS_EmptySet
<1>5. Cost' <= 2 * tears'
  <2>1. Cost \in {0, 1, 2} /\ tears \in Nat /\ Cardinality(Lost) \in Nat
            /\ Cardinality(Lost) + Cost <= 2 * tears
    BY CostValues, FS_CardinalityType DEF Typed, Paid
  <2>2. CASE UNCHANGED fileVars
    BY <2>1, <2>2 DEF fileVars, Cost
  <2>3. CASE \E e \in Event : Tear(e)
    <3>1. tears' = tears + 1
      BY <2>3 DEF Tear
    <3>2. Cost' \in {0, 1, 2}
      BY EventAssumption, RustAssumption DEF Typed, Cost
    <3>3. QED
      BY <2>1, <3>1, <3>2
  <2>4. QED
    BY <2>2, <2>3 DEF Crash
<1>6. Cost' \in {0, 1, 2} /\ tears' \in Nat
  BY EventAssumption, RustAssumption DEF Typed, Cost
<1>7. IsFiniteSet(Lost') /\ Cardinality(Lost') = 0
  BY <1>3, <1>4
<1>8. Cardinality(Lost') + Cost' <= 2 * tears'
  BY <1>5, <1>6, <1>7, NothingAdded, Zenon
<1>9. QED
  BY <1>7, <1>8 DEF Paid

LEMMA LossCases ==
    ASSUME Typed, [Next]_vars
    PROVE  \/ UNCHANGED fileVars /\ Losable' \subseteq Losable
           \/ \E e \in Event : AppendLine(e) /\ Losable' \subseteq Losable \cup {e}
           \/ \E e \in Event : Tear(e) /\ Losable' \subseteq Losable
           \/ Crash
<1>1. ASSUME UNCHANGED <<mode, loading, logVars, pendingVars>>
      PROVE  Losable' = Losable
  BY <1>1 DEF Losable, Stored, logVars, pendingVars
<1>2. CASE UNCHANGED vars
  BY <1>1, <1>2 DEF vars
<1>3. CASE LoadNext
  <2> DEFINE e == Head(loading)
  <2>1. e \in Event /\ e \in SX!Range(loading) /\ SX!Range(loading') \subseteq SX!Range(loading)
    BY <1>3, TailKeeps DEF LoadNext, Typed
  <2>2. mode = "loading" /\ mode' = "loading" /\ UNCHANGED fileVars
    BY <1>3 DEF LoadNext
  <2>3. Stored' \subseteq Stored \cup {e} /\ pending' \subseteq pending \cup {e}
    <3>1. CASE Apply(e) /\ UNCHANGED pendingVars
      BY <2>1, <3>1, ApplyGrowsStored DEF pendingVars
    <3>2. CASE Hold(e) /\ UNCHANGED logVars
      BY <3>2 DEF Hold, Stored, logVars
    <3>3. CASE UNCHANGED <<logVars, pendingVars>>
      BY <3>3 DEF Stored, logVars, pendingVars
    <3>4. QED
      BY <1>3, <3>1, <3>2, <3>3 DEF LoadNext
  <2>4. QED
    BY <2>1, <2>2, <2>3 DEF Losable
<1>4. CASE LoadDone \/ Begin
  <2>1. UNCHANGED <<logVars, fileVars>> /\ mode' # "loading"
    BY <1>4 DEF LoadDone, Begin
  <2>2. QED
    BY <2>1 DEF Losable, Stored, logVars
<1>5. ASSUME NEW e \in Event, Post(e) \/ Synced(e) \/ Gossip(e)
      PROVE  \/ UNCHANGED fileVars /\ Losable' \subseteq Losable
             \/ AppendLine(e) /\ Losable' \subseteq Losable \cup {e}
             \/ Tear(e) /\ Losable' \subseteq Losable
  <2>1. mode # "loading" /\ mode' = mode /\ Puts(e)
    BY <1>5 DEF Post, Synced, Gossip, Offer, Puts
  <2>2. Losable = Stored /\ Losable' = Stored'
    BY <2>1 DEF Losable
  <2>3. CASE PutEarly(e)
    BY <2>2, <2>3 DEF PutEarly, Stored, logVars
  <2>4. CASE PutStored(e)
    BY <2>2, <2>4, ApplyGrowsStored DEF PutStored
  <2>5. CASE PutUnwritten(e)
    BY <2>2, <2>5 DEF PutUnwritten, Stored, logVars
  <2>6. QED
    BY <2>1, <2>3, <2>4, <2>5 DEF Puts
<1>6. ASSUME NEW a \in Author, Drain(a)
      PROVE  \/ UNCHANGED fileVars /\ Losable' \subseteq Losable
             \/ \E e \in Event : AppendLine(e) /\ Losable' \subseteq Losable \cup {e}
             \/ \E e \in Event : Tear(e) /\ Losable' \subseteq Losable
  <2>1. a \in draining /\ UNCHANGED <<mode, loading>>
    BY <1>6 DEF Drain
  <2>2. \A f \in Next1(a) : f \in Event
    BY DEF Next1, Of, Typed
  <2>3. CASE DrainEnds(a)
    <3>1. pending' \subseteq pending /\ Stored' = Stored
      BY <2>3 DEF DrainEnds, Take, Stored, logVars, pendingVars
    <3>2. Losable' \subseteq Losable
      BY <2>1, <3>1 DEF Losable
    <3>3. UNCHANGED fileVars \/ \E e \in Event : Tear(e)
      BY <2>2, <2>3 DEF DrainEnds
    <3>4. QED
      BY <3>2, <3>3
  <2>4. CASE DrainStores(a)
    <3>1. PICK f \in Next1(a) : f \in Event /\ Take(f) /\ AppendLine(f) /\ Apply(f)
      BY <2>1, <2>4, DrainFits
    <3>2. Stored' = Stored \cup {f} /\ pending' \subseteq pending
      BY <3>1, ApplyGrowsStored DEF Take
    <3>3. Losable' \subseteq Losable \cup {f}
      BY <2>1, <3>2 DEF Losable
    <3>4. QED
      BY <3>1, <3>3
  <2>5. QED
    BY <1>6, <2>3, <2>4 DEF Drain
<1>7. ASSUME NEW r \in Round, BlobTick(r) \/ FetchStep(r)
      PROVE  UNCHANGED fileVars /\ Losable' = Losable
  BY <1>1, <1>7 DEF BlobTick, FetchStep, Fetched, NotFetched, Media
<1>8. QED
  BY <1>1, <1>2, <1>3, <1>4, <1>5, <1>6, <1>7 DEF Next, vars

LEMMA LossStep == Typed /\ LossPaid /\ [Next]_vars => LossPaid'
<1> SUFFICES ASSUME Typed, LossPaid, [Next]_vars PROVE LossPaid'
  OBVIOUS
<1>1. Typed'
  BY TypedStep
<1>2. CASE openEnd' = Cut
  BY <1>2 DEF LossPaid
<1>3. CASE openEnd' # Cut
  <2>1. ReadableStays
    BY <1>3, LossCases, CutStays DEF ReadableStays
  <2>2. Paid
    BY <2>1 DEF LossPaid, ReadableStays
  <2>3. Paid'
    BY <1>1, <2>1, <2>2, LossCases, NothingMoreLost, AppendPaid, TearPaid, CrashPaid
  <2>4. QED
    BY <2>3 DEF LossPaid
<1>4. QED
  BY <1>2, <1>3

(***************************************************************************)
(* Each append cut short costs the file two of the events peers were shown *)
(* at most, for any number of torn lines and of crashes, also while load   *)
(* drains what was held, as long as none was cut within a character        *)
(* (store.rs:330-367, 430-437).                                            *)
(***************************************************************************)
THEOREM RustLossBounded == Spec => []LossBounded
<1>1. Init => LossPaid
  <2> SUFFICES ASSUME Init PROVE LossPaid
    OBVIOUS
  <2>1. SX!Range(<<>>) = {}
    BY DEF SX!Range
  <2>2. Stored = {}
    BY <2>1 DEF Init, Stored
  <2>3. Lost = {}
    BY <2>1, <2>2 DEF Init, Lost, Losable
  <2>4. Cost = 0 /\ tears = 0
    BY RustAssumption DEF Init, Cost
  <2>5. QED
    BY <2>3, <2>4, FS_EmptySet DEF Paid, LossPaid
<1>2. QED
  BY <1>1, TypedInit, TypedStep, LossStep, LossShows, PTL DEF Spec
=============================================================================
