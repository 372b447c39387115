# A TLA+ model of s2s

s2s is a peer-to-peer social network: every account keeps its own signed,
hash-chained log of events; peers copy each other's logs by gossip and by sync
sessions, fetch media by content hash, and derive every timeline from the logs
they hold.  There is no server, so whatever consistency the network has comes
from the code modelled here.  The modules below are translated from the source
under `packages/` and `rust/`, and named after it.

- [The system](#the-system)
- [Modules](#modules)
- [Store](#store) · [FileStore](#filestore) · [Replication](#replication) · [Blobs](#blobs)
  · [Peers](#peers) · [RustPeer](#rustpeer) · [EventFormat](#eventformat) · [Views](#views) · [Client](#client)
- [Runs and bounds](#runs-and-bounds) · [Fairness](#fairness)
- [What is proved](#what-is-proved)
- [Where the code and its documentation disagree](#where-the-code-and-its-documentation-disagree)
- [Not modelled](#not-modelled) · [Plan](#plan)

## The system

| Component | State it keeps | Operations | Talks to |
|---|---|---|---|
| **Local replica** `core/src/store.js` | `events`, `logs`, `heads`, `pending` (early events), `tombstonePending`, `deleted`, views, blob cache, `writeQueue` | `load`, `put`, `nextHead`, `haveVector`, `logRange`, `putBlob`, `getBlob` | a backend (awaited calls); listeners of `event`, `change`, `blob` |
| **Append path** `core/src/s2s.js` | the identity | `append` and one wrapper per kind | store; `local` event to the network |
| **Backends** `store-idb.js`, `store-node.js` | the database; `events.jsonl`, blob files, a write queue | `loadEvents`, `appendEvent`, `putBlob`, `getBlob` | the disk |
| **Event format** `event.js`, `codec.js`, `identity.js` | none | create, validate, verify, canonical bytes | everyone |
| **Timeline views** `timeline.js` | a device-local filter | home, global, media, boards, board, thread, people, search, notifications | store |
| **Sync** `net/src/sync.js`, `protocol.js` | per session: stream, the peer's vector | `syncWith` (dialer), `handleSync` (responder), `diff` | both stores, a libp2p stream |
| **Peer network** `net/src/network.js` | `syncing`, `participants`, `peerHealth`, `peerAccounts`, `presenceRequests`, `connecting`, `dialRelays`, timers | gossip in and out, `syncPeer`, `syncAll`, `checkPeers`, `connect`, presence refresh, pruning | libp2p events, sync, presence, blobs |
| **Media transfer** `net/src/blobs.js` | `wanted`, `inFlight`, a retry timer | `consider`, `rescan`, `drain`, `#tryFetch`, the blob handler | store, peers |
| **Presence** `net/src/presence.js` | none | challenge and signed proof | peers |
| **Routes** `peer-routes.js`, `public-dht.js`, `relay-transport.js` | `routeLookups` cache | merge, group, look up | DHT, App |
| **Adapters** `ui/src/adapter/*`, `apps/desktop/main.cjs` | `netReady`, `starting`, `stopped`, learned routes | `ensureNetwork`, `status`, `act`, `wipe`, `stop` | network, store, UI |
| **Application shell** `ui/src/App.jsx` | saved peers, `inFlight`, `recovering`, the pairing link | `tryReconnect`, `recover`, status poll, hourly sync of the hide list | adapter |
| **Hide lists** `ui/src/moderation.js`, `safety.jsx`, `safety-settings.jsx` | three keys of `localStorage` | hide, reset, follow a list, `refreshList`, `applyFilter` | the list's server; the filter of the replica |
| **Rust peer** `rust/s2s-peer` | the same log, `wanted` media | a second implementation of store and sync | the same wire protocols |

What makes them hard:

- **Interleaving.** JavaScript is single threaded, but every `await` lets other
  work run: a put between its head check and its write, an append that signed
  before its turn in the queue, a session whose vectors are old by the time its
  events are sent, a scan for media that awaited the disk.
- **Order.** Gossip repeats, reorders and loses events; sync sends the rest in
  order.  Events wait for predecessors, deletes wait for their targets.
- **Failure.** A write may fail or be cut short, the process may die between
  two steps, a stream may die in the middle of a range.
- **Bounds.** The buffer of early events is capped twice and evicts; a session
  stops at 10 000 messages; streams push back on their writer.
- **Progress.** What one author posts must reach peers the author never meets.

What makes each correct:

| Component | Properties |
|---|---|
| Local replica | logs are chains in memory and on disk; the have vector is honest; nothing is stuck behind a filled gap; caps hold; tombstones do not depend on order; what was acknowledged is durable; our own log never forks in front of peers |
| File backend | a torn line costs a bounded amount and never mixes branches |
| Sync | the diff is exact; a complete session covers what was announced; turns never block; no copy goes beyond its author; peers converge, also after restarts that lost something |
| Peer network | a request to sync is never lost; the entry of a call never outlives it; an account is shown only for a connected peer |
| Media transfer | the fetcher sleeps only if it last found nobody to ask; no medium is lost sight of; the ceiling is passed by no more than the scans under way; what a neighbour it looked at holds is fetched |
| Views | what is shown is a function of the events held; what is hidden is shown nowhere; threads are numbered alike everywhere |
| Routes, adapter, shell | no saved peer loses its last route; a peer that moved is found again; a stopped node stays down |
| Event format | two implementations accept the same events |
| Rust peer | position and sequence agree whatever the file holds; counters are exact; wanted media is fetched or given up |

## Modules

| Module | What it is |
|---|---|
| `Events` | The constants every module shares: events as atoms with author, position, predecessor and target; the shape rules of `validateShape` as assumptions; the predicate "is a chain". |
| `SignedLog` | Abstract: what a replica promises about its logs - durable logs grow by the event that continues them, what is visible is a prefix of what is durable. |
| `Store` | `S2SStore` and `S2S.append` over a backend whose append is all or nothing. |
| `FileStore` | `Store` composed with `FileBackend`: the log file, torn lines, the poisoned queue. |
| `Replication` | Sync sessions and gossip between replicas known by their have vectors. |
| `Blobs` | `BlobFetcher` and the blob side of the store at one peer; the others are its environment. |
| `Peers` | What one node does about its connections: `syncPeer`, participants, presence, pruning. |
| `Moderation` | What this device hides: reports, the list the user follows, its refresh, the filter pushed to the replica. |
| `Views` | The indexes of `#apply` and the queries of `timeline.js`, under the filter of `Moderation`, which it extends. |
| `Client` | The node in a page: start and stop, the pairing link, saved routes, reconnecting, route lookup. |
| `RustPeer` | `store.rs` and the media wants of `main.rs`. |
| `EventFormat` | What an event must look like, as `event.js` and as `store.rs` have it. |
| `StoreProofs` | Theorems about `Store`: types, caps, chains, durability; then the refinement of `SignedLog`, the buffer, tombstones. |
| `ReplicationProofs` | Theorems about `Replication`: types and turns; copies, order and completeness. |
| `FileStoreProofs`, `BlobsProofs`, `PeersProofs`, `RustPeerProofs`, `ViewsProofs`, `ClientProofs` | Theorems about the module each is named after. |
| `MCStore`, `MCFileStore`, `MCReplication`, `MCBlobs`, `MCPeers`, `MCViews`, `MCClient`, `MCRustPeer` | Small instances for TLC. |

`SignedLog` is the interface between the layers: `Store` is proved to implement
it, and `Replication` uses it - a replica there is the length of each log, which
is all there is to say of a chain when no author signs two events at one
position.

## Store

An event is a model value; its id is the hash of its body and signature, so the
id and the event are one thing.  Text, media and timestamps are left out; the
members that control what happens (`author`, `seq`, `prev`, a delete's `target`)
are functions of `Events`.

| Code | Model |
|---|---|
| `events`, `logs` | `applied` (the position of an event in its log is its `seq`) |
| `heads` | `heads` |
| `pending`, its key order, `pendingCount` | `pending`, `pendingOrder`, `pendingCount` |
| `deleted`, `tombstonePending` | the same names |
| `writeQueue` (store) | `queue`: puts not started; `phase`, `ev`, `put`: the one running |
| the backend | `disk` |
| return values, exceptions, events dispatched | `acked`, `refused`, `heard` |
| own events peers may have seen | `published`: everything of ours that was ever applied |

A put is cut into the pieces between its awaits.  `Enqueue` waits on the queue;
one of the `Put...` actions is the synchronous part of `#put` for each return
path; `Persist`, `Fail` or `Crash` is what may happen to `appendEvent`;
`ResumeDone` and `ResumeDrain` are the part after the await, which applies the
event and either ends the put or takes the next event from the buffer and awaits
again.  `Sign` is `append` up to its put.  `Crash` keeps the disk only, and
`LoadApply` replays it author by author.

`#hold` is modelled with its quirk: the buffer of the event's author is taken
before `#evictPending` may throw that very buffer away (`HoldEvicting`).  The
event is then counted and not held, so `pendingCount` is an upper bound of what
is held (`HeldWithinCaps`) and not, as `store.js:56` says, the total.

## FileStore

`disk` is here what `loadEvents` would return, and `openEnd` what follows the
last newline.  `Tear` leaves an open end, `AppendLine` continues it and loses
both.  The other actions are those of `Store`.  That appends can be cut short is
the reason `loadEvents` skips lines that do not parse.

## Replication

A call is an ordered pair of peers and has two ends, each with a phase, the
messages on their way to it, the vector it was told, the ranges it has to send
and what is left to put of the message it reads.  The phases follow `syncWith`
and `handleSync` line by line; `writeEvents` and `readEvents` are shared by both
ends as in the code.  Every event of a message is a step of its own, since
`store.put` is awaited between them.  `Gossip` delivers any published event to
anyone at any time, or never: that covers loss, repetition, reordering and
forwarding through the mesh.

`Window` stands for the flow control of the stream muxer: a write waits while
that many messages are unread.  `Cut` is a dead connection or the 60 s timeout.
The two ends notice at their next read or write, after finishing the puts of the
message they hold.

`Crash` ends the sessions of a peer (`Stop`) and starts it again with what its
file gives back: any part of the ends of the logs it copied may be gone, what it
acknowledged included (`FileLosesAcked`, below).  A session of the others that
still runs goes by what the peer announced before.  Three things a restart can do
are left to other modules.  A hole in the middle of a log, which no vector shows, is
`FileLeavesHole`; with one `Converges` fails.  A peer that does not start again
is `RustCutCharacter`.  And the peer's own log is whole here: if it lost its own last
event its author would sign another at that position, which lengths do not tell
apart - the finding of `FileLosesAcked`.

A peer may be the Rust one (`rust`): it takes the messages of a session one put
after the other under its mutex, counts the final message as well, and gives the
session up at the limit where JavaScript stops reading (`RustGivesUp`).

## Blobs

| Code | Model |
|---|---|
| `store.events` (those with media) | `known`, in the order of the Map |
| backend blobs, `store.blobs` | `held`, `cache` |
| `wanted` | `wanted` (its keys in order), `resting` (entries whose `next` is in the future) |
| `inFlight`, the promises of `#tryFetch` | `fetch`, `asked` |
| `timer` | `"off"`, `"soon"` (the 200 ms minimum) or `"later"` |
| - | `looked`: whom the last `drain` could ask, as long as they are connected |
| calls of `consider` and `rescan` that await the store | `scans` |
| `getPeers()`, `participants` | `connected`, `participants` |

`Consider` is the synchronous part of `consider` up to its next await: it asks
the store about the first blob that is not wanted, or ends - at the last
reference or at the ceiling - and drains.  The answer a scan acts upon is the
one at its question or a later one, so it may be old (`Considered`).  `Drain`
walks the Map in order and stops at the first due entry without a slot, as the
code does.  `Promise.any` is the set of peers whose answers are still awaited.
A bad hash, a timeout and a lost stream are all misses.

Time is abstracted to two facts: a backoff takes 1.5 s or more and a timer for
what is due 200 ms, so no backoff that begins with such a timer ends before it.

The ceiling `maxWanted` is tested before an await and the entry added after it.
`start` calls `consider` for every stored event without awaiting, so each of
them passes the test on an empty Map; `CeilingHoldsButForScans` says what is
left of the ceiling.

`PublicRouting` is on in the run, as it is by default in every entry point
(`platform-node.js:60`, `platform-browser.js:38`): a connection may be asked only
once it is a participant, which it becomes when it is identified.  That splits
what the comments promise from what holds.

- `AlwaysRetried`: the fetcher sleeps, with something wanted, only if its last
  walk found nobody to ask.  `looked` is in the model for this property alone.
  The comment at `blobs.js:125` promises more, that whoever connects is asked;
  but `rescan` runs when the connection opens and nothing runs when it is
  identified, so a fetcher that went to sleep before stays asleep until an event
  is stored, a sync brings something, or another connection opens
  (`MediaAsleep`).  Without public routing the two are the same, which
  `AlwaysRetried` also says.
- `FetchedFromNeighbour`: a blob is fetched from a neighbour that the fetcher has
  looked at, if no more entries come before it than there are slots.  Beyond
  that it may starve: the walk serves due entries in the order of the Map, and
  when a peer lets requests run into their 45 s timeout every backoff (30 s at
  most) is over before a slot is free, so the lost blobs at the front take every
  slot again (`MediaStarved`).

## Peers

| Code | Model |
|---|---|
| libp2p's connections | `opened`, `conns`, `unknown` (not identified yet) |
| `syncing` and the calls of `syncPeer` | `sync[p]`: the token in the map, its `again`, the tokens of the calls that have not returned |
| `participants`, `peerAccounts`, `presenceRequests` | `participants`, `accounts`, `asking` |
| timers | `settle` (800 ms), `prune` (4 s), `forward` (1.5 s) |
| the connections a ping of `checkPeers` is about | `checked` |
| - | `news`, `owed`: peers nobody has offered the latest news |

A session is here one call of `syncPeer`, which may return long after its
connection is gone (`SyncDone`, `SyncFails`, `EndCall`); what happens in it is
`Replication`'s.  `Open` covers `connection:open`, which may close any older
connections, and `peer:connect` when the peer had none.  `owed` is what the
property needs and the code does not have: a peer is in it from the moment
something is learnt until a call of `syncPeer` starts for it.
`NewsReachesEveryone` says that for every such participant something that
starts one is under way - the forward timer, the settle timer, an identify, or
the `again` of a running call - so the 30 s resync is never what it waits for.

## RustPeer

`logs` are sequences, as in the code, since the point of `PositionIsSeq` is that
index and `seq` agree.  A put and the drain it starts run under one mutex, but
between two appended lines the process may end or the disk be full, so the drain
is a step per line (`draining`).  `openEnd` is what follows the last newline:
nothing, a line that does not parse, or a whole event without its newline, which
is loaded and then lost when the next line is appended to it.  `Crash` sorts
what parses, as `load` does, and `LoadNext` puts it through the checks of
`put_verified` without writing.

A line may also be cut inside a character of several bytes.  Then it is no UTF-8,
`lines()` gives an error where `load` skips what does not parse, and `main` ends
with it (`store.rs:338`, `main.rs:97`).  `openEnd` is `Cut` from then on, for
whatever is appended leaves those bytes in the file, and the next start ends in
the mode `"broken"` (`RustCutCharacter`, below).  The JavaScript backend decodes
such bytes to replacement characters and skips the line, so `FileStore` needs no
such case.  `LossBounded` is about a file that can be read.

`BlobTick` starts a round every time, whether the last one is over or not, so
rounds share `wanted` and the failure counters.  `asked` are the events whose
media `main.rs` looks at: those at the start and those gossip stored.  Media of
events that come by sync, or that a drain stores, is not wanted until a restart
(`AllMediaWanted`, below).

## EventFormat

An event is a function from its members to forms, the classes of values that a
check of either side tells apart: absent, null, a number, text that is empty,
blank, fits, fits in UTF-16 units but not in bytes, and so on.  Every event
that differs from a plain one of its kind in at most two members is offered to
both sides.  `Gaps` adds the forms on which they disagree.  Without them the
two agree on all 10 558 events; each of them alone splits them:

| Form | JavaScript | Rust |
|---|---|---|
| `integral`: 1.0 for a number | an integer | refused for `seq`, `ts`, `w`, `h` and a vote |
| `null`: where `??` gives a default | as if absent | refused |
| `bom`: text of U+FEFF only | blank | not blank |
| `nel`: text of U+0085 only | not blank | blank |
| `lone`: an unpaired surrogate | kept | serde refuses it, and with it the whole message |
| `unsaid`: no `prev` at seq 1 | refused | read as null |

## Views

`Apply` is `#apply` for every kind but what `Store` already has; events of one
author come in order, which `Store` shows, and authors in any order.
`IndexesFollowTheLogs` restates each index as a function of the set of events.
The queries are operators.  A feed is a set of places in `posts`, which the code
walks from its end: the newest places whose events are visible, less those that
give no card (`Feed`).  A thread is its replies ranked by claimed time and id
(`Sorted`).  `NothingHiddenShown` is stated of the logs, not of the indexes the
queries read (`MayBeShown`).  `LastTs` is what a board sorts its threads by: the
time of the reply that *arrived* last (`timeline.js:131`), which is not a
function of the events (`BoardOrder`, below).  Two statements about order are
not what the code does, and the properties follow the code: the profile shown
is the last by `seq` and not by `ts` (`ProfileByTime`), and a thread is numbered
by claimed time and not as its replies arrived (`NumberedAsArrived`).  A vote cast again is the opposite vote
(`s2s.js:64`, though its comment says it is cleared), so `Act` never repeats one.
Feeds drop reposts without a subject after they are cut to their length, so a
feed may be shorter than what there is to show; notifications do not look at
deletions.  Both are as in the code.

The filter of the device is the last that `Moderation` pushed.  There `hidden`,
`following`, `list` and `fresh` are what `localStorage` holds (`fresh` that
`fetchedAt` is under six hours old), and `refreshing` counts the calls of
`refreshList` that wait for the network: one handler of the settings and one of
the hourly effect may overlap, and hiding, resetting or leaving the list may come
between.  Every change pushes what is to be hidden *then*, so an answer that
comes late does no harm.  `wished` is no variable of the code: it is what the
user asked to hide, and `NothingHiddenShown` is about it (`WantedHidden`), not
about what was stored.  A list just switched on counts when it has been asked
for, come or not.  `Storing` says whether `localStorage` takes writes.

## Client

A route is the public address of one peer.  `Poll` is one call of `status` and
what `App.jsx` does with its answer; a dial is the entry of its peer in
`connecting`: first the saved routes, then - when they fail - it waits for the
lookup that was started beside it, or one at most 15 s old, and tries what that
found.  `inFlight` belongs to the effect of `App.jsx`, which is set up again
when the list changes, so passes may overlap; dials of one peer do not.
`OpenLink` is the pairing link of the address bar: used up at once, lost with a
start that fails, and put at the head of the list, which nothing cuts then, when
the peer is reached.
`StopAsked` and `StopNode` are the two halves of `stop` and `wipe` around the
wait for the start under way.

`NoPeerForgotten` holds while there are no more peers than slots.  With more,
`mergePeerRoutes` gives the slots to the fresh routes first and saved peers fall
out, though its comment (`peer-routes.js:54`) promises each of them a slot.

## Runs and bounds

Every bound is a constant of the module and named in it.

| Run | Asks | Instance |
|---|---|---|
| `StoreOrder` | Do chains, the have vector, the caps, tombstones and announcements survive every order of puts? | our p1, q1, p2; Bob's b1, b2, b3, the fork x2, y3 and an invalid event; Carol's c2, whose predecessor never comes; caps of 2, so that both caps and self-eviction are reached; 2 waiting puts |
| `StoreCrash` | And crashes and a failing write?  Is it a `SignedLog`?  Is every append answered? | our three events, b1, b2; 2 crashes, 1 failure; fair event loop and disk |
| `FileTorn` | What survives torn lines? | 2 crashes, 1 failure, 2 torn appends |
| `SyncSessions` | Is a session exact and complete while logs grow, a stream is cut, a peer restarts and the message limit is hit? | one call, two authors of 2 events each, one event per message, a limit and a stream of one message; one cut, one restart that may lose the ends of the logs |
| `SyncConverges` | Does a chain of three converge? | the middle is dialled by both ends, one event each; one cut, one restart that may lose it |
| `PeersSessions` | Is a request to sync ever lost, or an entry left behind, among connections that come and go? | a phone with two connections, a relay with one, one piece of news; public routing or not |
| `RustPeer` | Do position, counters and wants survive torn lines, forks, evictions and overlapping rounds? | our p1 or q1; Bob's b1, b2, b3 and the fork x2; Carol's c2; caps of 2; two blobs, two rounds, two attempts; one crash, one append cut short, in a character or not |
| `Views` | Are the indexes functions of the events, and is nothing hidden shown? | three authors with 5, 6 and 5 events, among them two profiles, the later one with the older time; two things to hide, two lists, two refreshes that wait at once; feeds of 3, searches of 2 |
| `ClientReconnects` | Is a peer that moved found again, and does a stopped node stay down? | two peers, one with two routes and a link to the second; two slots, two learned routes; two addresses announced at once; one failed start, one move, one drop |
| `MediaFetch` | Does the fetcher keep its wants, wake up and get what a neighbour has, under public routing? | one peer, to be identified; two lost blobs and one to be had, two of them in one event; two wanted at most, a slot of one, two scans at once; one fault or disconnect |

Why these are enough to be interesting: three events of one author are needed
for a gap that is filled while another event waits behind it, and a fork with a
successor for a branch that is held and must be dropped.  Two positions with two
candidates (p1, q1) are needed for own appends that race.  Caps of two make one
author hit the per-author cap and two authors the global one.  A stream of one
message makes every wait of a writer happen.

`StoreOrder` sets `CHECK_DEADLOCK FALSE`: receiving stops when `pendingCount`
passes `MaxCount`, a bound of the model and not of the code.  So do
`PeersSessions` (no connections are left to open), `RustPeer` (the process ended
for good) and `ClientReconnects` (the node was stopped).

The runs that expect a violation are listed
[below](#where-the-code-and-its-documentation-disagree).

## Fairness

`Store!FairSpec` is weakly fair to what the process does by itself: the next put
of the queue, the write of an append, the resumption after it, loading.  The
event loop runs every job that is ready and a disk answers, with success or
failure.  Nothing is assumed of users, peers, failures or crashes.

`Blobs!FairSpec` is weakly fair to scans (the store answers), to the timer and to
every fetch until it ends (each request has a timeout).  It is strongly fair to
the end of a backoff: its time is set when it begins and passes whatever else
happens, also while the blob is for a moment not resting because of a new
connection.  Identification, peers, users and syncs get none.

`Replication!FairSpec` is weakly fair to each end of each session and to
dialling: `syncAll` runs every 30 seconds for every connected peer
(`network.js:318`).  Gossip, cuts and restarts get no fairness; the bounds on
cuts and restarts say that a connection eventually lasts for one session.

`RustPeer!FairSpec` is weakly fair to the timer of fetch rounds and to their
steps, each of which has a timeout.

`Client!FairSpec` is weakly fair to the two timers of five seconds, to a start,
a stop and a dial, which all come to an end.  Of the public DHT it assumes that
a peer's new route is published at last and that not every lookup fails (strong
fairness of `LookupFinds`), and of time that a cached lookup ages between dials.
`Peers` and `Views` need no fairness: their properties are safety.

## What is proved

The proofs hold for every value of the constants that satisfies the assumption
of the module (`EventAssumption`, `StoreAssumption`, `FileAssumption`,
`ReplicationAssumption`, `BlobsAssumption`, `PeersAssumption`, `RustAssumption`,
`ViewsAssumption`, `ModerationAssumption`, `ClientAssumption`): any events, peers, caps, windows and
bounds.  Every safety invariant and every action property of the runs that pass
is a theorem, with the exception of the comparison in `EventFormat`.

`StoreProofs` builds the inductive invariant in four layers:

1. `FlowOK` - ranges, and that a put in flight has an event (`phase = "idle"`
   exactly when `ev` and `put` are `None`).
2. `HeldOK` - the keys of the buffer are exactly the authors with held events,
   without repetition (`OrderOK`); counts are within the caps and below
   `pendingCount` (`CapsOK`).  `HeldWithinCaps` alone is not inductive: eviction
   removes the first key's events, so the order must be known to name them.
3. `ChainOK` - the log in memory is closed downwards with the head on top
   (`LogOK`), the disk is memory plus the event in flight, and that event fits
   on the head (`DiskOK`, `Fits`).  `ChainIntact`, `HaveVectorHonest` and
   `MemoryMatchesDisk` follow.
4. `SeenOK` - every own event waiting or in flight was signed, and what was
   published or acknowledged is on disk.  `AckedDurable` and `NoPublishedFork`
   follow: two published events at one position would be two events at one
   position on disk.

The second half of `StoreProofs` uses these for what relates two states or two modules:
the refinement of `SignedLog` (one step lemma: each action is a `Record`, a
`Show`, a `Stop` or a stutter), `HeadsOnlyExtend`, `PendingBeyondGap` (with the
shape of the buffer: one event per position), `TombstonesExact` (with what
`tombstonePending` waits for), and `EveryStoredEventHeard` under
`MaxFailures = 0` - the configuration `StoreDrainFails`, run by hand, shows that
the assumption is needed.

`FileStoreProofs` does without chains, which a lost line breaks, and so without
`ChainOK`.  `SlotOK` says instead that while the process may write it knows every
event of the file (`NothingUnknown`): what it appends stands after the head, so
at a position of its own.  A poisoned queue is what makes this true - after a
failed append the process may not know the last line, and writes no more.
`FileTombstonesOfWhatIsLeft` needs only that an event is applied once.
`FileLossBounded` is carried by `LossPaid`: what was acknowledged, or will be
without another write (`Promised`; for local puts that is `LocalOK`), less the
lines nothing can be appended to any more, plus one while the file has an open
end, is at most the number of appends cut short.

`PeersProofs`: a token is free for every new call because finitely many calls
run at once (`FewRuns`); with it `GuardHasOwner` and `AccountsConnected` are
inductive.  `NewsReachesEveryone` needs that a peer that syncs counts as soon as
one of its connections is identified (`Recognised`), and says of every connected
peer what the property says of participants: it has a session coming, or does
not count until it is identified (`OwedSoon`).

`ReplicationProofs` has the types and `Turns`: what the phases of the two ends of
a session may be together, and what is in each stream then.  `TurnsNeverBlock`
follows, since two ends that both write have one that stopped reading at its
limit.  The second half adds three layers:

1. `CopyInv` - no vector announces more than its sender has, no range goes
   beyond the author's log; with it `CopiesOfHome` is inductive.
2. `OrderInv` - a range on its way, or still to be sent, starts where the reader
   is or where an earlier range of the stream ends; of the range being read that
   is `SyncInOrder`.
3. `PromiseInv` - while an end reads, what it was told is in its log, in the range
   it reads, on its way or still to be sent, unless a limit or a cut took it;
   when it has read the end of the stream only its log is left, which is
   `SessionsComplete`.

What a replica reaches when an event fills a gap (`Reach`) is the least position
that is not held; the proofs use that a nonempty set of naturals has a least
member, and that the set of authors is finite.

`RustPeerProofs`: `PositionIsSeq` is inductive with the types.  `HeldCountExact`
needs that the buffer has one event per position, since `store.rs` counts keys
(`BufferOK`), and that outside a drain all of it lies beyond a gap.
`LossBounded` is carried by `LossPaid`: what a load could lose, and what the open
end of the file may still cost, is at most twice the appends cut short, as long
as no character was cut; a file where one was stays so (`CutStays`).

`BlobsProofs` has the types first: `wanted` never names a blob twice, every fetch
is of a wanted blob, and there are no more fetches than slots - which `Drain`
keeps because the blobs it starts are the first due ones, counted (`FirstFew`).
With them

- `CeilingHoldsButForScans` is inductive: an entry added after an await is paid
  for by the call that asked, which is no longer among those that ask.
- `AlwaysRetried` needs, for every state, that a walk which cannot start a fetch
  sets the timer (`DrainAwake`, `WatchedAfterDrain`), and that a connection
  nobody has looked at yet has a scan under way that will (`Watched`), unless it
  waits to be identified.
- `NothingForgotten` needs that a call between two events has no references left
  (`BetweenIsEmpty`): with both, what a call drops from its list has gone to
  `wanted`, was found, or is counted as dropped at the ceiling.

`ViewsProofs`: `IndexesFollowTheLogs` is not inductive alone.  `ViewsInv` adds
that an author's events are numbered by how many of them are applied
(`Numbered`), so the event that comes is its author's last and overrules what
stood; that `tombstonePending` is what the deletes without their targets name
(`Waiting`), so a target that comes late is taken back; and that the posts are
by time (`InTime`), so that the place `InsertPost` counts - the one the binary
search of `#insertPost` ends at - keeps them so.  From it `SameOrderEverywhere`
follows with a lemma about ranking: under an order that is total on a finite
set, every number of predecessors below the size of the set is had by exactly
one member (`SortedIs`).  `NothingHiddenShown` compares the queries, which read
the indexes, with `MayBeShown`, which reads the logs; that the filter is the one
wanted is `Pushed`: while no refresh waits it is `EffectiveFilter`, while one does
it still has what the user hid.  The theorem has a hypothesis on a constant,
`Storing`; `HidingLost` (below) is the same run without it.

`ClientProofs`: `StoppedStaysDown` is inductive with the types.
`NoPeerForgotten` is an action property about `MergePeerRoutes`, for any routes
and any number of peers up to the slots: the rank of a route is its place in its
group first and the place of its group second, so the first routes of all groups
come before any second route, and as many groups as there are slots each keep
one (`MergeIs`).

Only model-checked: liveness (`AppendsAnswered`, `Converges`,
`FetchedFromNeighbour`, `NothingAskedForever`, `Reconnects`), which is out of reach
of the provers used, as is `ENABLED`.  `EventFormat` is a finite comparison of
two definitions.  Recursion and `SelectSeq`, whose facts need an induction over
data that the provers cannot do, are avoided in what is proved about: an order is
a ranking by the number of predecessors, a walk is a count, and what
`BoardByActivity` says with `SelectSeq` is left to its run.

## Where the code and its documentation disagree

Two runs expect a violation:

| Run | Claim | What the code does |
|---|---|---|
| `FileLosesAcked` | `docs/LIMITS.md:120`: the log is append-only and does not disappear | the append after a torn line is acknowledged and unreadable |
| `ValidatorsSplit` | `store.rs:6-10`, `codec.rs:39-44`, `docs/PROTOCOL.md:60-63`: both validators keep the same events, 1.0 included | serde refuses 1.0 for `seq` and `ts`, `as_u64` and `as_i64` for a size and a vote |

The configurations below show others in the same way.  They are not part of the
listed runs; each is run by hand, `tlc -config <Name>.cfg <module>`, and ends in
a counterexample.

| Configuration | Claim | What the code does |
|---|---|---|
| `StoreDrainFails` (`MCStore`) | `store.js:299-301`: watchers must hear about drained events as any other | a failing write in the drain ends the put before it announces its own stored event |
| `StoreTwoAppends` (`MCStore`) | `docs/LIMITS.md:160`, `store.js:61-66`: writes to one log are serialised | `append` reads the head outside the queue; of two appends at once the second throws |
| `FileLeavesHole` (`MCFileStore`) | `docs/PROTOCOL.md:95`, `ARCHITECTURE.md:51`, `sync.js:4-8`: no gaps, so one integer says it all | `load` applies what is above a lost line and advertises it |
| `SyncLimitStuck` (`MCReplication`) | `sync.js:12`: turn-taking makes deadlock impossible | past the message limit both ends write and neither reads, until the timeout |
| `MediaAsleep` (`MCBlobs`) | `blobs.js:125`: a new connection calls `rescan`, which drains | under public routing the connection cannot be asked yet when it does, and nothing drains when it can |
| `MediaStarved` (`MCBlobs`) | `blobs.js:72-73`: every connected peer is asked until someone has it | with more lost media than slots ahead of it, a blob that a neighbour has may never be asked for |
| `RustMediaNotWanted` (`MCRustPeer`) | `main.rs:250`: wanted is the media of events we hold but have not fetched | media of events that came by sync or from the buffer is not wanted |
| `RustCutCharacter` (`MCRustPeer`) | `store.rs:326-344`: a file that is short after a crash is replayed, "skipping corrupt line" | a line cut inside a character makes `load` fail, and the peer does not start again |
| `ProfileByTime` (`MCViews`) | `docs/LIMITS.md:125`: of two profiles the one with the newer `ts` is taken | the last by `seq` is (`store.js:213`), whatever its time |
| `NumberedAsArrived` (`MCViews`) | `timeline.js:9-10`: replies are numbered in arrival order | by claimed time, then id (`timeline.js:146-158`, whose own comment says so) |
| `BoardOrder` (`MCViews`) | `timeline.js:124`: threads on a board, most recently active first | they are sorted by the reply that arrived last |
| `HidingLost` (`MCViews`) | `moderation.js:34`: with private browsing or full storage "the filter still applies this session" | `effectiveFilter` reads what to hide from `localStorage` alone, so what could not be written is not hidden |

Seen while reading, and not modelled: a failed start leaves the listeners the
old network put on `s2s` (`network.js:141`, `local.js:54-58`); `wipe` resolves
when deleting the database is blocked (`local.js:164`); on macOS closing the
window stops the peer while `status` still says online (`main.cjs:320-323`); an
integer past the safe range makes `canonical` throw inside `verifyEvent`, which
ends the whole session (`event.js:254`, `sync.js`).

## Not modelled

- **Cryptography and encoding**: signatures, hashes and canonical bytes are
  assumed to do what they are for; `Valid` is the set of events that verify.
  The clock test of `verifyEvent` is part of `Valid`.
- **libp2p**: connection establishment, relays, gossipsub's mesh.  Streams are
  reliable and ordered until they die.
- **Two devices with one key**: documented as unsupported (`LIMITS.md:128-131`).
- **Rendering, styling, packaging, service worker**: no state a property is
  about.  Of the screens only what hides and un-hides is in `Moderation`.
- **The Electron main process**: windows and IPC around the same store and
  network, which it starts once.
- **Connection budget and relay tags** (`denyOutboundConnection`,
  `#protectRelays`, `dialRelays`): advice to libp2p; `Prune` lets any of them
  spare a connection.
- **Framing** (`wire.rs`, `jsonStream`) and the message sizes it bounds.

## Plan

What is left, in this order:

1. `recover` of `App.jsx` with `checkPeers`, composed with `Peers`; the connection
   budget of `denyOutboundConnection`; the peer list of the settings screen.
2. The main process: boot, IPC before the peer is ready, wipe and relaunch.
3. `EventFormat`: that the two validators agree on every event without the forms
   in `Gaps`, as a theorem.
