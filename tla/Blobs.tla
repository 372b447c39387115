------------------------------- MODULE Blobs -------------------------------
(***************************************************************************)
(* Media: how one peer gets the blobs its events refer to                  *)
(* (packages/net/src/blobs.js, putBlob and getBlob of the store).          *)
(*                                                                         *)
(* A blob's name is the hash of its bytes, so bytes that do not match      *)
(* their name are a miss like any other.  Other peers run the same code;   *)
(* which blobs they hold is the environment here.                          *)
(*                                                                         *)
(* consider and rescan await the store between two blobs: the calls that   *)
(* are under way are the entries of scans.                                 *)
(***************************************************************************)
EXTENDS Naturals, Sequences, FiniteSets, SequencesExt

CONSTANTS
    Blob, Peer, Event, None,
    Media,          \* event -> the blobs it refers to, in order
    Gone,           \* blobs nobody keeps any more, here or elsewhere
    PublicRouting,  \* only participants are asked, not every connection
    MaxWanted,      \* opts.maxWanted (2 000)
    MaxConcurrent,  \* opts.maxConcurrent (4)
    \* Bounds of the model
    MaxScans,       \* calls of consider and rescan under way at once
    MaxFaults       \* requests and writes that fail, connections that go

ASSUME BlobsAssumption ==
    /\ None \notin Blob
    /\ Media \in [Event -> Seq(Blob)] /\ \A e \in Event : Media[e] # <<>>
    /\ Gone \subseteq Blob
    /\ PublicRouting \in BOOLEAN
    /\ {MaxWanted, MaxConcurrent} \subseteq Nat \ {0}
    /\ {MaxScans, MaxFaults} \subseteq Nat

VARIABLES
    known,          \* the store's events that refer to media, in Map order
    held,           \* blobs in the backend
    cache,          \* blobs in the store's memory
    connected, participants,
    nearby,         \* <<peer, blob>>: who could serve what
    wanted,         \* the keys of the Map, in order
    resting,        \* wanted blobs whose next attempt is not due yet
    fetch,          \* blob -> is a #tryFetch under way, and where is it
    asked,          \* blob -> peers whose answer it still waits for
    timer,          \* "off", "soon" (a retry is due), or "later"
    looked,         \* history: whom the last drain could ask, while connected
    scans,          \* 1..MaxScans -> a call of consider or rescan, or NoCall
    dropped,        \* media left out because wanted was full
    faults

storeVars == <<known, held, cache>>
peerVars == <<connected, participants, nearby>>
fetchVars == <<fetch, asked>>
vars == <<storeVars, peerVars, wanted, resting, fetchVars, timer, looked, scans,
          dropped, faults>>

InFlight == {b \in Blob : fetch[b] # "no"}
Found == held \cup cache

\* this.peers(): getPeers, or participantPeers under public routing.
Askable(conn, part) == IF PublicRouting THEN conn \cap part ELSE conn

\* A call under way: at is the next event of a rescan (0: a single consider),
\* refs what is left of its event, blob the one the store is asked for.
Scan == [at : Nat, refs : Seq(Blob), blob : Blob \cup {None}, found : BOOLEAN]

Calls == 1..MaxScans
Between(at) == [at |-> at, refs |-> <<>>, blob |-> None, found |-> FALSE]
NoCall == Between(0)

\* The entry the next call gets.
Free(i) == i \in Calls /\ scans[i] = NoCall /\ \A j \in 1..(i - 1) : scans[j] # NoCall

-----------------------------------------------------------------------------
(* drain and #schedule *)

\* Positions in w of what may be tried now.
Due(w, r) == {i \in DOMAIN w : fetch[w[i]] = "no" /\ w[i] \notin r}

Room == MaxConcurrent - Cardinality(InFlight)

(***************************************************************************)
(* Starts what is due, in order, while there is room.  The walk stops at   *)
(* the first due blob there is no room for; the timer is set for the       *)
(* resting ones met before.                                                *)
(***************************************************************************)
Drain(w, r, peers) ==
    LET due == Due(w, r)
        Ahead(i) == Cardinality({j \in due : j < i})
        start == {w[i] : i \in {j \in due : Ahead(j) < Room}}
        walked == {w[i] : i \in {j \in DOMAIN w : Ahead(j) <= Room}}
    IN  /\ looked' = peers
        /\ \/ /\ w = <<>> \/ peers = {}
              /\ timer' = "off"
              /\ UNCHANGED fetchVars
           \/ /\ w # <<>> /\ peers # {}
              /\ timer' = IF (walked \cap r) \ InFlight # {} THEN "later" ELSE "off"
              /\ fetch' = [b \in Blob |-> IF b \in start THEN "asking" ELSE fetch[b]]
              /\ asked' = [b \in Blob |-> IF b \in start THEN peers ELSE asked[b]]

ScheduleNothing(w, r, busy) == UNCHANGED timer

\* After a fetch ended: unless a timer is set, set one for what is wanted.
Schedule(w, r, busy) ==
    LET idle == ToSet(w) \ busy
    IN  timer' = IF timer # "off" \/ idle = {} THEN timer
                 ELSE IF idle \subseteq r THEN "later" ELSE "soon"

-----------------------------------------------------------------------------
(* consider and rescan *)

\* The first reference the loop has to ask the store about.
Look(at, refs, w, found) ==
    LET i == CHOOSE k \in DOMAIN refs :
                 refs[k] \notin ToSet(w) /\ \A j \in 1..(k - 1) : refs[j] \in ToSet(w)
    IN  [at |-> at, refs |-> SubSeq(refs, i + 1, Len(refs)),
         blob |-> refs[i], found |-> refs[i] \in found]

ConsiderUnbounded(i, at, refs, w, r, conn) ==
    LET new == ToSet(refs) \ ToSet(w)
    IN  /\ wanted' = w /\ resting' = r
        /\ \/ /\ new # {}
              /\ scans' = [scans EXCEPT ![i] = Look(at, refs, w, Found)]
              /\ UNCHANGED <<fetchVars, timer, looked, dropped>>
           \/ /\ new = {}
              /\ scans' = [scans EXCEPT ![i] = Between(at)]
              /\ UNCHANGED dropped
              /\ Drain(w, r, Askable(conn, participants))

(***************************************************************************)
(* Call i of consider up to its next await: it asks the store about a      *)
(* blob, or has come to its end - also when wanted is full - and drains.   *)
(* A rescan goes on to the next event after that.                          *)
(***************************************************************************)
Consider(i, at, refs, w, r, conn) ==
    LET new == ToSet(refs) \ ToSet(w)
    IN  /\ wanted' = w /\ resting' = r
        /\ \/ /\ new # {} /\ Len(w) < MaxWanted
              /\ scans' = [scans EXCEPT ![i] = Look(at, refs, w, Found)]
              /\ UNCHANGED <<fetchVars, timer, looked, dropped>>
           \/ /\ new = {} \/ Len(w) >= MaxWanted
              /\ scans' = [scans EXCEPT ![i] = Between(at)]
              /\ dropped' = dropped \cup new
              /\ Drain(w, r, Askable(conn, participants))

WantAnyway(b) == IF b \in ToSet(wanted) THEN wanted ELSE Append(wanted, b)

\* getBlob answered; what it saw may be older than what is held now.
Considered(i) ==
    LET s == scans[i]
    IN  /\ s.blob # None
        /\ \/ /\ s.found \/ s.blob \in Found
              /\ cache' = cache \cup {s.blob}
              /\ Consider(i, s.at, s.refs, wanted, resting, connected)
           \/ /\ ~s.found
              /\ Consider(i, s.at, s.refs,
                          WantAnyway(s.blob), resting \ {s.blob}, connected)
              /\ UNCHANGED cache
        /\ UNCHANGED <<known, held, peerVars, faults>>

RescanNext(i) ==
    LET s == scans[i]
    IN  /\ s.blob = None /\ s.at # 0
        /\ \/ /\ s.at <= Len(known)
              /\ Consider(i, s.at + 1, Media[known[s.at]],
                          wanted, resting, connected)
           \/ /\ s.at > Len(known)
              /\ scans' = [scans EXCEPT ![i] = NoCall]
              /\ Drain(wanted, resting, Askable(connected, participants))
              /\ UNCHANGED <<wanted, resting, dropped>>
        /\ UNCHANGED <<storeVars, peerVars, faults>>

\* The store dispatches a new event, from a peer or our own.
EventStored(e) ==
    /\ e \notin ToSet(known)
    /\ known' = Append(known, e)
    /\ \E i \in Calls : Free(i) /\ Consider(i, 0, Media[e], wanted, resting, connected)
    /\ UNCHANGED <<held, cache, peerVars, faults>>

\* putBlob of a backend: under another name first, so all of a blob is there or nothing.
Persist(b) == held' = held \cup {b}

\* putBlob of the store fills its cache and may fail then.
PutBlob(b) ==
    /\ cache' = cache \cup {b}
    /\ \/ Persist(b) /\ UNCHANGED faults
       \/ faults < MaxFaults /\ faults' = faults + 1 /\ UNCHANGED held

\* The user attaches media.
Attach(b) ==
    /\ b \notin held \cup Gone
    /\ PutBlob(b)
    /\ UNCHANGED <<known, peerVars, wanted, resting, fetchVars, timer, looked,
                   scans, dropped>>

-----------------------------------------------------------------------------
(* Connections *)

\* peer:connect: every miss may be tried again at once.
Connect(p) ==
    /\ p \notin connected
    /\ connected' = connected \cup {p}
    /\ \E i \in Calls : Free(i) /\ scans' = [scans EXCEPT ![i] = Between(1)]
    /\ resting' = {}
    /\ UNCHANGED <<storeVars, participants, nearby, wanted, fetchVars, timer,
                   looked, dropped, faults>>

\* peer:identify, a finished sync or a presence proof.
Identify(p) ==
    /\ p \in connected \ participants
    /\ participants' = participants \cup {p}
    /\ UNCHANGED <<storeVars, connected, nearby, wanted, resting, fetchVars,
                   timer, looked, scans, dropped, faults>>

Disconnect(p) ==
    /\ p \in connected
    /\ faults < MaxFaults
    /\ faults' = faults + 1
    /\ connected' = connected \ {p}
    /\ participants' = participants \ {p}
    /\ looked' = looked \ {p}
    /\ UNCHANGED <<storeVars, nearby, wanted, resting, fetchVars, timer, scans,
                   dropped>>

\* A sync that brought something drains.
SyncReceived ==
    /\ known # <<>> /\ Askable(connected, participants) # {}
    /\ Drain(wanted, resting, Askable(connected, participants))
    /\ UNCHANGED <<storeVars, peerVars, wanted, resting, scans, dropped, faults>>

\* Another peer comes by a blob (it runs this code, too).
Gains(p, b) ==
    /\ b \notin Gone
    /\ nearby' = nearby \cup {<<p, b>>}
    /\ UNCHANGED <<storeVars, connected, participants, wanted, resting,
                   fetchVars, timer, looked, scans, dropped, faults>>

-----------------------------------------------------------------------------
(* #tryFetch: every peer is asked, the first good answer wins *)

FetchStep == UNCHANGED <<known, peerVars, looked, scans, dropped>>

Delivered(b, p) ==
    /\ fetch[b] = "asking" /\ p \in asked[b]
    /\ p \in connected /\ <<p, b>> \in nearby
    /\ fetch' = [fetch EXCEPT ![b] = "storing"]
    /\ asked' = [asked EXCEPT ![b] = {}]
    /\ cache' = cache \cup {b}
    /\ UNCHANGED <<held, wanted, resting, timer, faults>> /\ FetchStep

\* The peer has nothing, is gone, or its answer is lost, late or wrong.
Missed(b, p) ==
    /\ fetch[b] = "asking" /\ p \in asked[b]
    /\ \/ (p \notin connected \/ <<p, b>> \notin nearby) /\ UNCHANGED faults
       \/ faults < MaxFaults /\ faults' = faults + 1
    /\ asked' = [asked EXCEPT ![b] = @ \ {p}]
    /\ UNCHANGED <<held, cache, wanted, resting, fetch, timer>> /\ FetchStep

Without(q, b) == RemoveAt(q, CHOOSE i \in DOMAIN q : q[i] = b)

\* The attempt is over: its slot is free, and the timer is looked after.
Over(b, w, r) ==
    /\ fetch' = [fetch EXCEPT ![b] = "no"]
    /\ wanted' = w /\ resting' = r
    /\ Schedule(w, r, InFlight \ {b})

Stored(b) ==
    /\ fetch[b] = "storing"
    /\ Persist(b)
    /\ Over(b, Without(wanted, b), resting \ {b})
    /\ UNCHANGED <<cache, asked, faults>> /\ FetchStep

NotStoredGivenUp(b) ==
    /\ fetch[b] = "asking" /\ asked[b] = {}
    /\ Over(b, Without(wanted, b), resting \ {b})
    /\ UNCHANGED <<asked, faults, held, cache>> /\ FetchStep

NotStoredAtOnce(b) ==
    /\ fetch[b] = "asking" /\ asked[b] = {}
    /\ Over(b, wanted, resting)
    /\ UNCHANGED <<asked, faults, held, cache>> /\ FetchStep

\* Nobody had it, or the write failed: it rests and is tried again.
NotStored(b) ==
    /\ \/ /\ fetch[b] = "asking" /\ asked[b] = {}
          /\ UNCHANGED <<asked, faults>>
       \/ /\ fetch[b] = "storing" /\ faults < MaxFaults
          /\ faults' = faults + 1
          /\ UNCHANGED asked
    /\ Over(b, wanted, resting \cup {b})
    /\ UNCHANGED <<held, cache>> /\ FetchStep

(***************************************************************************)
(* Time.  A backoff takes 1.5 s or more, a timer for what is due 200 ms:   *)
(* no backoff that started with such a timer ends before it.               *)
(***************************************************************************)
BackoffOver(b) ==
    /\ b \in resting \ InFlight /\ timer # "soon"
    /\ resting' = resting \ {b}
    /\ UNCHANGED <<storeVars, peerVars, wanted, fetchVars, timer, looked, scans,
                   dropped, faults>>

TimerFires ==
    /\ \/ timer = "soon"
       \/ timer = "later" /\ Due(wanted, resting) # {}
    /\ Drain(wanted, resting, Askable(connected, participants))
    /\ UNCHANGED <<storeVars, peerVars, wanted, resting, scans, dropped, faults>>

-----------------------------------------------------------------------------

\* start does not await: every event's consider is at its first blob.
StartScans(events, found) ==
    [i \in Calls |-> IF i \in DOMAIN events THEN Look(0, Media[events[i]], <<>>, found)
                     ELSE NoCall]

\* A peer starts with the events and blobs it stored before it stopped.
Init ==
    /\ \E n \in 0..MaxScans : known \in [1..n -> Event]
    /\ IsInjective(known)
    /\ held \in SUBSET (Blob \ Gone)
    /\ cache = {}
    /\ connected = {} /\ participants = {} /\ nearby = {}
    /\ wanted = <<>> /\ resting = {} /\ timer = "off" /\ looked = {}
    /\ fetch = [b \in Blob |-> "no"] /\ asked = [b \in Blob |-> {}]
    /\ scans = StartScans(known, held) /\ dropped = {}
    /\ faults = 0

ScanStep == \E i \in Calls : Considered(i) \/ RescanNext(i)

FetchEnds(b) == Stored(b) \/ NotStored(b)

Answered(b, p) == Delivered(b, p) \/ Missed(b, p)

FetchGoesOn(b) == FetchEnds(b) \/ \E p \in Peer : Answered(b, p)

Next ==
    \/ \E e \in Event : EventStored(e)
    \/ \E b \in Blob : Attach(b)
    \/ ScanStep
    \/ \E p \in Peer : Connect(p) \/ Identify(p) \/ Disconnect(p)
    \/ SyncReceived
    \/ \E p \in Peer, b \in Blob : Gains(p, b)
    \/ \E p \in Peer, b \in Blob : Answered(b, p)
    \/ \E b \in Blob : FetchEnds(b)
    \/ \E b \in Blob : BackoffOver(b)
    \/ TimerFires

Spec == Init /\ [][Next]_vars

\* The event loop, the timers, and requests that end at their timeout.  A
\* backoff ends at the time set when it began, whatever else happens: SF.
FairSpec ==
    /\ Spec
    /\ WF_vars(ScanStep)
    /\ WF_vars(TimerFires)
    /\ \A b \in Blob : WF_vars(FetchGoesOn(b)) /\ SF_vars(BackoffOver(b))

-----------------------------------------------------------------------------
(* Properties *)

\* The range of every variable; no more fetches than slots.
TypeOK ==
    /\ known \in Seq(Event)
    /\ held \subseteq Blob /\ cache \subseteq Blob /\ dropped \subseteq Blob
    /\ connected \subseteq Peer /\ participants \subseteq connected
    /\ nearby \subseteq Peer \X (Blob \ Gone)
    /\ wanted \in Seq(Blob) /\ IsInjective(wanted)
    /\ resting \subseteq ToSet(wanted)
    /\ fetch \in [Blob -> {"no", "asking", "storing"}]
    /\ asked \in [Blob -> SUBSET Peer]
    /\ InFlight \subseteq ToSet(wanted)
    /\ Cardinality(InFlight) <= MaxConcurrent
    /\ timer \in {"off", "soon", "later"}
    /\ looked \subseteq Peer
    /\ scans \in [Calls -> Scan]

Asking == {i \in Calls : scans[i].blob # None}

(***************************************************************************)
(* The ceiling is tested before an await and the entry added after it: it  *)
(* may be passed, but by no more than the calls that were under way.       *)
(***************************************************************************)
CeilingHoldsButForScans == Len(wanted) + Cardinality(Asking) < MaxWanted + MaxScans

Asleep ==
    /\ wanted # <<>> /\ timer = "off" /\ InFlight = {}
    /\ \A i \in Calls : scans[i] = NoCall

(***************************************************************************)
(* Whom it has once looked at, the fetcher never forgets: with something   *)
(* wanted it sleeps - no timer, no fetch whose end will set one, no scan   *)
(* whose end will drain - only if the last drain found nobody to ask, and  *)
(* where no identification is waited for only while nobody is connected    *)
(* (blobs.js:120-153).  Under public routing that is less than the comment *)
(* at blobs.js:125 says: ConnectionLandsBackHere, below.                   *)
(***************************************************************************)
AlwaysRetried == Asleep => looked = {} /\ (PublicRouting \/ connected = {})

Coming(s) ==
    ({s.blob} \cup ToSet(s.refs) \cup
        UNION {ToSet(Media[known[j]]) : j \in {k \in DOMAIN known : s.at # 0 /\ k >= s.at}}) \ {None}

(***************************************************************************)
(* No medium of a stored event is lost sight of: it is found here, wanted, *)
(* still to be looked at, or was left out at the ceiling.                  *)
(***************************************************************************)
NothingForgotten ==
    \A e \in ToSet(known) : ToSet(Media[e]) \subseteq
        Found \cup ToSet(wanted) \cup dropped
            \cup UNION {Coming(scans[i]) : i \in Calls}

\* No more entries come before b than there are slots.
InReach(b) == \E i \in DOMAIN wanted : wanted[i] = b /\ i <= MaxConcurrent + 1

(***************************************************************************)
(* A wanted blob that a peer holds which the fetcher has looked at is      *)
(* fetched, unless that peer goes, however often it was missed before      *)
(* (replication.test.js:205, "missing media is retried when its connected  *)
(* holder receives it later") - if no more entries are ahead of it in the  *)
(* Map than there are slots.                                               *)
(***************************************************************************)
FetchedFromNeighbour ==
    \A b \in Blob \ Gone, p \in Peer :
        InReach(b) /\ p \in looked /\ <<p, b>> \in nearby
            ~> b \in held \/ p \notin connected

-----------------------------------------------------------------------------
(* Claims that do not hold *)

\* blobs.js:125, "Nobody to ask; a new connection calls rescan(), which
\* lands back here": whoever can be asked now is asked in the end.
ConnectionLandsBackHere == Asleep => Askable(connected, participants) = {}

\* blobs.js:72-73: a fetcher that will "ask every connected peer for it until
\* someone has it", however many entries are ahead.
AskedUntilSomeoneHasIt ==
    \A b \in Blob \ Gone, p \in Peer :
        b \in ToSet(wanted) /\ p \in looked /\ <<p, b>> \in nearby
            ~> b \in held \/ p \notin connected
=============================================================================
