------------------------------- MODULE Client -------------------------------
(***************************************************************************)
(* A device that runs in a page: how it starts and stops its node          *)
(* (ui/src/adapter/local.js), remembers where its peers are (local.js,     *)
(* App.jsx, net/src/peer-routes.js) and finds them again when they move    *)
(* (App.jsx, Network#connect and #resolvePeer).                            *)
(*                                                                         *)
(* A route is the public address of one peer.  Of the libp2p node only     *)
(* what these functions ask of it is here: it starts or fails to, a dial   *)
(* reaches a peer when one of its routes is where the peer is, and the     *)
(* public DHT gives the route that was published last, or nothing.  What   *)
(* happens once the user has asked to stop, but for the stop, is left out. *)
(***************************************************************************)
EXTENDS Naturals, FiniteSets, Sequences, SequencesExt

CONSTANTS
    Route, PeerOf,          \* the routes, and whose each is (getPeerId)
    None,
    Paired,                 \* what s2s.bootstrap holds when the app opens
    Link,                   \* the route in the link it is opened with, or None
    Limit,                  \* routes kept (20)
    MaxLearned,             \* routes kept in IndexedDB (200)
    \* Bounds of the model
    MaxHeard,               \* addresses the peers announce at once
    MaxFails,               \* starts of the node that fail
    MaxMoves, MaxDrops      \* peers that change route, connections that end

Peer == {PeerOf[r] : r \in Route}

ASSUME ClientAssumption ==
    /\ None \notin Route /\ Limit \in Nat \ {0}
    /\ IsFiniteSet(Peer)       \* a peer's id is a hash
    /\ Paired \in Seq(Route) /\ Link \in Route \cup {None}
    /\ {MaxLearned, MaxHeard, MaxFails, MaxMoves, MaxDrops} \subseteq Nat

VARIABLES
    net,            \* "off", "starting", "up": of the node in use
    stop,           \* "no", then "asked": waits for the start under way, "done"
    saved,          \* the bootstrap list of App.jsx
    learned,        \* learnedRoutes of local.js, as IndexedDB has it
    link,           \* #peer=... of the address bar, or None
    inFlight,       \* a pass of tryReconnect has not settled
    dial,           \* peer -> "none", "saved", "waiting", "fresh": its entry in connecting
    tried,          \* peer -> the routes of that dial
    lookup,         \* peer -> <<>>, <<"pending">>, or <<the route found or None>>
    conn,           \* peers we are connected to
    at,             \* peer -> where it can be reached
    published,      \* peer -> the route the DHT has for it
    fails, moves, drops

adapterVars == <<net, stop, fails>>
routeVars == <<saved, learned, link>>
dialVars == <<inFlight, dial, tried, lookup>>
worldVars == <<at, published, moves, drops>>
vars == <<adapterVars, routeVars, dialVars, worldVars, conn>>
----------------------------------------------------------------------------
(* peer-routes.js *)

\* Where r stands in s first.
First(s, r) == CHOOSE i \in DOMAIN s : s[i] = r /\ \A j \in 1..(i - 1) : s[j] # r

\* The elements of R by their places, which no two share.
Ahead(R, place, r) == {q \in R : place[q] < place[r]}
Ranked(R, place) ==
    [k \in 1..Cardinality(R) |-> CHOOSE r \in R : Cardinality(Ahead(R, place, r)) = k - 1]

InOrder(R, s) == Ranked(R, [r \in R |-> First(s, r)])

\* new Set: every element once, where it stood first
Unique(s) == InOrder(ToSet(s), s)
Cut(s, n) == SubSeq(s, 1, IF Len(s) < n THEN Len(s) ELSE n)
PeersOf(s) == {PeerOf[s[i]] : i \in DOMAIN s}

\* publicPeerRoutes: of the peers in known, and at most Limit of them
PublicPeerRoutes(s, known) ==
    Cut(InOrder({r \in ToSet(s) : PeerOf[r] \in PeersOf(known)}, s), Limit)

\* groupPeerRoutes: the groups stand as their first routes do, a route in its group behind
\* those of the same peer before it
Group(s, r) == First([i \in DOMAIN s |-> PeerOf[s[i]]], PeerOf[r])
Index(s, r) ==
    Cardinality({q \in ToSet(s) : PeerOf[q] = PeerOf[r] /\ First(s, q) < First(s, r)})

\* The bug of filling the list with whatever comes first.
MergeInOrder(fresh, old) == Cut(Unique(fresh \o old), Limit)

\* mergePeerRoutes: the first route of each group, then the second of each...
MergePeerRoutes(fresh, old) ==
    LET all == fresh \o old
    IN  Cut(Ranked(ToSet(all), [r \in ToSet(all) |-> Index(all, r) * Len(all) + Group(all, r)]),
            Limit)
----------------------------------------------------------------------------
(* local.js: the node. *)

\* ensureNetwork, at creation and every five seconds
EnsureNetwork ==
    /\ net = "off" /\ stop = "no"
    /\ net' = "starting"
    /\ UNCHANGED <<stop, fails, routeVars, dialVars, worldVars, conn>>

StartOk ==
    /\ net = "starting" /\ net' = "up"
    /\ UNCHANGED <<stop, fails, routeVars, dialVars, worldVars, conn>>

\* The node that did not start is stopped and another put in its place.  A pairing link,
\* which waited for that start, is lost with it.
StartFails ==
    /\ net = "starting" /\ fails < MaxFails
    /\ net' = "off" /\ fails' = fails + 1
    /\ link' = None
    /\ UNCHANGED <<stop, saved, learned, dialVars, worldVars, conn>>

\* stop and wipe, until they wait for the start that is under way
StopAsked ==
    /\ stop = "no" /\ stop' = "asked"
    /\ UNCHANGED <<net, fails, routeVars, dialVars, worldVars, conn>>

NodeStopped ==
    /\ stop' = "done"
    /\ net' = IF net = "up" THEN "off" ELSE net     \* a node half started finishes its start
    /\ conn' = {} /\ inFlight' = FALSE
    /\ dial' = [p \in Peer |-> "none"] /\ tried' = [p \in Peer |-> {}]
    /\ lookup' = [p \in Peer |-> <<>>]
    /\ UNCHANGED <<fails, routeVars, worldVars>>

\* The bug of a stop that does not wait for the start.
StopAtOnce == stop = "asked" /\ NodeStopped

StopNode ==
    /\ stop = "asked" /\ net # "starting"
    /\ NodeStopped
----------------------------------------------------------------------------
(***************************************************************************)
(* status() and the effect of App.jsx on what it returns.  peerAddresses   *)
(* has, for one connected peer after the other, where the peer is now and  *)
(* older routes its entry in the peer store has still, in any order.       *)
(***************************************************************************)
Announced(s) ==
    /\ PeersOf(s) \subseteq conn /\ {at[p] : p \in conn} \subseteq ToSet(s)
    /\ \A i, j, k \in DOMAIN s :
        i <= j /\ j <= k /\ PeerOf[s[i]] = PeerOf[s[k]] => PeerOf[s[j]] = PeerOf[s[i]]

Known(heard) == Cut(Unique(PublicPeerRoutes(heard, heard) \o learned), MaxLearned)

Restored(next) ==
    IF next = <<>> THEN saved
    ELSE MergePeerRoutes(PublicPeerRoutes(next, saved \o next), saved)

\* The effect that dials depends on the list: it is set up again.
SetSaved(list) ==
    /\ saved' = list
    /\ inFlight' = IF list = saved THEN inFlight ELSE FALSE

Poll ==
    /\ net = "up" /\ stop = "no"
    /\ \E n \in 0..MaxHeard : \E heard \in [1..n -> {r \in Route : PeerOf[r] \in conn}] :
        /\ Announced(heard)
        /\ learned' = Known(heard)
        /\ SetSaved(Restored(Known(heard)))
    /\ <<learned', saved'>> # <<learned, saved>>
    /\ UNCHANGED <<link, adapterVars, dial, tried, lookup, worldVars, conn>>

\* act "connect" waits for a start that is under way, and needs the node up.
CanConnect == net = "up" /\ stop = "no"

(***************************************************************************)
(* The pairing link is used up at once.  Its dial is one like those below, *)
(* in one step here; what it reached goes to the head of the list, which   *)
(* nothing cuts.                                                           *)
(***************************************************************************)
OpenLink ==
    /\ link # None /\ CanConnect
    /\ link' = None
    /\ LET p == PeerOf[link]
       IN  \/ /\ p \in conn \/ at[p] \in {link, published[p]}
              /\ conn' = conn \cup {p}
              /\ SetSaved(Unique(<<link>> \o saved))
           \/ UNCHANGED <<conn, saved, inFlight>>
    /\ UNCHANGED <<learned, adapterVars, dial, tried, lookup, worldVars>>
----------------------------------------------------------------------------
(* tryReconnect: a dial to every saved peer that is not connected. *)

Starts(p) == p \in PeersOf(saved) \ conn /\ dial[p] = "none"

\* connect: resolvePeer looks up the peer beside the dial, unless it did within 15 s.
TryReconnect ==
    /\ CanConnect /\ ~inFlight
    /\ PeersOf(saved) \ conn # {}
    /\ inFlight' = TRUE
    /\ dial' = [p \in Peer |-> IF Starts(p) THEN "saved" ELSE dial[p]]
    /\ tried' = [p \in Peer |-> IF Starts(p) THEN {r \in ToSet(saved) : PeerOf[r] = p}
                                ELSE tried[p]]
    /\ lookup' = [p \in Peer |-> IF Starts(p) /\ lookup[p] = <<>> THEN <<"pending">>
                                 ELSE lookup[p]]
    /\ UNCHANGED <<adapterVars, routeVars, worldVars, conn>>

\* allSettled
EndPass ==
    /\ inFlight /\ \A p \in Peer : dial[p] = "none"
    /\ inFlight' = FALSE
    /\ UNCHANGED <<adapterVars, routeVars, dial, tried, lookup, worldVars, conn>>

Settle(p, connected) ==
    /\ dial' = [dial EXCEPT ![p] = "none"]
    /\ tried' = [tried EXCEPT ![p] = {}]
    /\ conn' = IF connected THEN conn \cup {p} ELSE conn
    /\ UNCHANGED <<adapterVars, routeVars, inFlight, lookup, worldVars>>

Reached(p) ==
    /\ dial[p] \in {"saved", "fresh"} /\ (p \in conn \/ at[p] \in tried[p])
    /\ Settle(p, TRUE)

\* The saved routes fail: the dial waits for the lookup.
NotReached(p) ==
    /\ dial[p] = "saved" /\ p \notin conn /\ at[p] \notin tried[p]
    /\ dial' = [dial EXCEPT ![p] = "waiting"]
    /\ tried' = [tried EXCEPT ![p] = {}]
    /\ UNCHANGED <<adapterVars, routeVars, inFlight, lookup, worldVars, conn>>

Resolved(p) == lookup[p] \notin {<<>>, <<"pending">>}

DialFresh(p) ==
    /\ dial[p] = "waiting" /\ lookup[p] \notin {<<>>, <<"pending">>, <<None>>}
    /\ dial' = [dial EXCEPT ![p] = "fresh"]
    /\ tried' = [tried EXCEPT ![p] = {lookup[p][1]}]
    /\ UNCHANGED <<adapterVars, routeVars, inFlight, lookup, worldVars, conn>>

Fails(p) ==
    /\ \/ dial[p] = "waiting" /\ lookup[p] = <<None>>
       \/ dial[p] = "fresh" /\ p \notin conn /\ at[p] \notin tried[p]
    /\ Settle(p, FALSE)

\* lookupPeerRoutes: the entry peers know a route of the peer, or none within six seconds.
LookupFinds(p) ==
    /\ lookup[p] = <<"pending">>
    /\ lookup' = [lookup EXCEPT ![p] = <<published[p]>>]
    /\ UNCHANGED <<adapterVars, routeVars, inFlight, dial, tried, worldVars, conn>>

LookupFails(p) ==
    /\ lookup[p] = <<"pending">>
    /\ lookup' = [lookup EXCEPT ![p] = <<None>>]
    /\ UNCHANGED <<adapterVars, routeVars, inFlight, dial, tried, worldVars, conn>>

\* The bug of a cache that keeps what it found.
ExpireOnlyFailures(p) ==
    /\ lookup[p] = <<None>> /\ dial[p] = "none"
    /\ lookup' = [lookup EXCEPT ![p] = <<>>]
    /\ UNCHANGED <<adapterVars, routeVars, inFlight, dial, tried, worldVars, conn>>

\* Fifteen seconds later the next dial asks again.  A dial holds the promise it has, and only
\* a dial reads the cache, so what expires during one might as well expire after it.
Expire(p) ==
    /\ Resolved(p) /\ dial[p] = "none"
    /\ lookup' = [lookup EXCEPT ![p] = <<>>]
    /\ UNCHANGED <<adapterVars, routeVars, inFlight, dial, tried, worldVars, conn>>
----------------------------------------------------------------------------
(* The others. *)

\* A peer gets another relay or network, and its connection to us ends.
Move(p) ==
    /\ moves < MaxMoves /\ stop = "no"
    /\ \E r \in Route : PeerOf[r] = p /\ r # at[p] /\ at' = [at EXCEPT ![p] = r]
    /\ conn' = conn \ {p} /\ moves' = moves + 1
    /\ UNCHANGED <<adapterVars, routeVars, dialVars, published, drops>>

Publish(p) ==
    /\ published[p] # at[p] /\ stop = "no" /\ published' = [published EXCEPT ![p] = at[p]]
    /\ UNCHANGED <<adapterVars, routeVars, dialVars, at, moves, drops, conn>>

Drop(p) ==
    /\ p \in conn /\ drops < MaxDrops /\ stop = "no"
    /\ conn' = conn \ {p} /\ drops' = drops + 1
    /\ UNCHANGED <<adapterVars, routeVars, dialVars, at, published, moves>>

\* A peer dials us.
Inbound(p) ==
    /\ net = "up" /\ stop = "no" /\ p \notin conn
    /\ conn' = conn \cup {p}
    /\ UNCHANGED <<adapterVars, routeVars, dialVars, worldVars>>
----------------------------------------------------------------------------
Init ==
    /\ net = "off" /\ stop = "no" /\ fails = 0
    /\ saved = Paired /\ learned = <<>> /\ link = Link
    /\ inFlight = FALSE
    /\ dial = [p \in Peer |-> "none"] /\ tried = [p \in Peer |-> {}]
    /\ lookup = [p \in Peer |-> <<>>]
    /\ conn = {}
    /\ at \in {f \in [Peer -> Route] : \A p \in Peer : PeerOf[f[p]] = p}
    /\ published = at
    /\ moves = 0 /\ drops = 0

Dialling(p) == Reached(p) \/ NotReached(p) \/ DialFresh(p) \/ Fails(p)

Next ==
    \/ EnsureNetwork \/ StartOk \/ StartFails \/ StopAsked \/ StopNode
    \/ Poll \/ OpenLink \/ TryReconnect \/ EndPass
    \/ \E p \in Peer :
        \/ Reached(p) \/ NotReached(p) \/ DialFresh(p) \/ Fails(p)
        \/ LookupFinds(p) \/ LookupFails(p) \/ Expire(p)
        \/ Move(p) \/ Publish(p) \/ Drop(p) \/ Inbound(p)

Spec == Init /\ [][Next]_vars

(***************************************************************************)
(* The two timers of five seconds fire, a start and a dial come to an end  *)
(* (both have timeouts), and the cache ages whatever dials do meanwhile.    *)
(* Of the DHT: a peer's new route is published at last, and not every      *)
(* lookup of it fails.                                                     *)
(***************************************************************************)
FairSpec ==
    /\ Spec
    /\ WF_vars(EnsureNetwork) /\ WF_vars(StartOk) /\ WF_vars(StopNode)
    /\ WF_vars(TryReconnect) /\ WF_vars(EndPass)
    /\ \A p \in Peer :
        /\ WF_vars(Dialling(p)) /\ SF_vars(Expire(p)) /\ WF_vars(Publish(p))
        /\ WF_vars(LookupFinds(p) \/ LookupFails(p)) /\ SF_vars(LookupFinds(p))
----------------------------------------------------------------------------
\* The range of every variable; where a peer is and is said to be are routes of its own.
TypeOK ==
    /\ net \in {"off", "starting", "up"} /\ stop \in {"no", "asked", "done"}
    /\ saved \in Seq(Route) /\ learned \in Seq(Route) /\ link \in Route \cup {None}
    /\ inFlight \in BOOLEAN
    /\ dial \in [Peer -> {"none", "saved", "waiting", "fresh"}]
    /\ tried \in [Peer -> SUBSET Route]
    /\ lookup \in [Peer -> {<<>>, <<"pending">>} \cup {<<r>> : r \in Route \cup {None}}]
    /\ conn \subseteq Peer
    /\ at \in [Peer -> Route] /\ published \in [Peer -> Route]
    /\ \A p \in Peer : PeerOf[at[p]] = p /\ PeerOf[published[p]] = p

(***************************************************************************)
(* A paired peer that moved is found again, whatever routes were saved,    *)
(* lookups failed or were cached meanwhile (App.jsx:148-199,               *)
(* network.js:434-481), unless the user stops the app.                     *)
(***************************************************************************)
Reconnects == \A p \in PeersOf(Paired) : <>[](p \in conn \/ stop # "no")

(***************************************************************************)
(* As many peers as the list has room for keep a route in it each, however *)
(* many routes one of them announces (peer-routes.js:39 "Reserve slots for *)
(* each saved peer instead of one relay's many addresses").                *)
(***************************************************************************)
NoPeerForgotten ==
    [][Cardinality(Peer) <= Limit => PeersOf(saved) \subseteq PeersOf(saved')]_vars

(***************************************************************************)
(* Once stop or wipe is over the node stays down, though a start was under *)
(* way when it was asked for (local.js:51-61, 156-173).                    *)
(***************************************************************************)
StoppedStaysDown == stop = "done" => net = "off"
=============================================================================
