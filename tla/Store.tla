------------------------------- MODULE Store -------------------------------
(***************************************************************************)
(* The local replica of one peer: S2SStore (packages/core/src/store.js)    *)
(* and the append path of S2S (s2s.js), over a backend whose appendEvent   *)
(* is all or nothing (IndexedDB).                                          *)
(*                                                                         *)
(* The process is single threaded; what interleaves is what the code puts  *)
(* behind an await.  A put waits its turn in the write queue; its turn     *)
(* runs to the await of appendEvent; the write reaches the disk or fails;  *)
(* then the put resumes, and may await again while it drains the events    *)
(* it unblocked.  Local appends read the head between any two of these.    *)
(***************************************************************************)
EXTENDS Events, Sequences

CONSTANTS
    Me,                     \* the local identity
    Remote,                 \* the events other peers hand us
    MaxPending,             \* maxPending: held events in all (20 000)
    MaxPendingPerAuthor,    \* maxPendingPerAuthor (2 000)
    \* Bounds of the model
    MaxQueue,               \* puts waiting at one time
    MaxCount,               \* stop receiving when pendingCount exceeds it
    MaxCrashes,             \* crashes of the process
    MaxFailures             \* appendEvent calls that reject

ASSUME StoreAssumption ==
    /\ Me \in Author
    /\ Remote \subseteq Event
    /\ MaxPending \in Nat \ {0}
    /\ MaxPendingPerAuthor \in Nat \ {0}
    /\ {MaxQueue, MaxCount, MaxCrashes, MaxFailures} \subseteq Nat

VARIABLES
    mode,               \* "loading" until load() returns, then "up"
    applied,            \* events (and logs: the same events by position)
    heads,              \* author -> head, None before the first event
    pending,            \* events held because their predecessor is missing
    pendingOrder,       \* the keys of the pending Map, oldest first
    pendingCount,       \* the counter the cap is tested against
    deleted,            \* tombstoned events
    tombstonePending,   \* <<target, author>>: tombstones for unseen targets
    queue,              \* puts behind writeQueue, not started
    phase,              \* of the put whose turn it is
    ev,                 \* the event it is appending
    put,                \* the put itself
    disk,               \* what the backend holds
    \* What the rest of the program and the other peers have seen
    signed,             \* own events that were created and signed
    published,          \* own events that became visible to peers
    acked,              \* own appends that returned
    refused,            \* own appends that threw
    heard,              \* events announced by 'event', or present at load
    crashes, failures

pendingVars == <<pending, pendingOrder, pendingCount>>
viewVars == <<applied, heads, deleted, tombstonePending, published>>
workVars == <<phase, ev, put>>
answerVars == <<acked, refused>>
vars == <<mode, viewVars, pendingVars, queue, workVars, disk, signed,
          answerVars, heard, crashes, failures>>

\* A call of put: trusted is set for our own freshly signed events only.
Put == [event : Event, local : BOOLEAN]

\* An event in flight, or nothing.
OrNone(S) == S \cup {None}

-----------------------------------------------------------------------------
(* #apply *)

\* The event of an author's log at a position.
Slot(a, s) == {f \in Of(applied, a) : SeqOf[f] = s}

\* A tombstone counts only when its author wrote the target.
DeletedByAnyone(e) ==
    {t \in {e} : \E a \in Author : <<e, a>> \in tombstonePending}
        \cup {t \in applied : t = TargetOf[e]}

Deleted(e) ==
    {t \in {e} : <<e, AuthorOf[e]>> \in tombstonePending}
        \cup {t \in applied : t = TargetOf[e] /\ AuthorOf[t] = AuthorOf[e]}

Tombstones(e) ==
    {p \in tombstonePending : p[1] # e}
        \cup {<<t, AuthorOf[e]>> : t \in {TargetOf[e]} \ (applied \cup {e, None})}

Apply(e) ==
    /\ applied' = applied \cup {e}
    /\ heads' = [heads EXCEPT ![AuthorOf[e]] = e]
    /\ deleted' = deleted \cup Deleted(e)
    /\ tombstonePending' = Tombstones(e)
    /\ published' = published \cup Of({e}, Me)

-----------------------------------------------------------------------------
(* #hold, #evictPending, #forget *)

Held(e) == \E f \in Of(pending, AuthorOf[e]) : SeqOf[f] = SeqOf[e]

AuthorFull(a) == Cardinality(Of(pending, a)) >= MaxPendingPerAuthor

\* #hold creates the author's buffer before it looks at the caps.
OrderWith(a) ==
    IF Of(pending, a) = {} THEN Append(pendingOrder, a) ELSE pendingOrder

HoldRoomUncounted(e) ==
    /\ pendingCount < MaxPending
    /\ pending' = pending \cup {e}
    /\ pendingOrder' = OrderWith(AuthorOf[e])
    /\ UNCHANGED pendingCount

HoldRoomOffByOne(e) ==
    /\ pendingCount <= MaxPending
    /\ pending' = pending \cup {e}
    /\ pendingOrder' = OrderWith(AuthorOf[e])
    /\ pendingCount' = pendingCount + 1

HoldRoom(e) ==
    /\ pendingCount < MaxPending
    /\ pending' = pending \cup {e}
    /\ pendingOrder' = OrderWith(AuthorOf[e])
    /\ pendingCount' = pendingCount + 1

(***************************************************************************)
(* At the cap the oldest author's whole buffer goes.  When that author is  *)
(* e's own, #hold goes on to insert into the buffer that was just thrown   *)
(* away: e is not held, and the counter still counts it.                   *)
(***************************************************************************)
HoldEvicting(e) ==
    LET victim == Head(OrderWith(AuthorOf[e]))
        gone   == Of(pending, victim)
    IN  /\ pendingCount >= MaxPending
        /\ pending' = (pending \ gone)
                          \cup {f \in {e} : AuthorOf[f] # victim}
        /\ pendingOrder' = Tail(OrderWith(AuthorOf[e]))
        /\ pendingCount' = pendingCount - Cardinality(gone) + 1

Hold(e) ==
    \/ /\ Held(e) \/ AuthorFull(AuthorOf[e])
       /\ UNCHANGED pendingVars
    \/ /\ ~Held(e) /\ ~AuthorFull(AuthorOf[e])
       /\ HoldRoom(e) \/ HoldEvicting(e)

\* The order of the Map's keys once the i-th is deleted.
WithoutKey(order, i) == SubSeq(order, 1, i - 1) \o SubSeq(order, i + 1, Len(order))

\* The key of an author goes with the last event held for it.
Forget(f) ==
    /\ pending' = pending \ {f}
    /\ pendingCount' = pendingCount - 1
    /\ \/ Of(pending, AuthorOf[f]) # {f} /\ UNCHANGED pendingOrder
       \/ /\ Of(pending, AuthorOf[f]) = {f}
          /\ \E i \in DOMAIN pendingOrder :
                 /\ pendingOrder[i] = AuthorOf[f]
                 /\ pendingOrder' = WithoutKey(pendingOrder, i)

-----------------------------------------------------------------------------
(* put *)

Idle == phase' = "idle" /\ ev' = None /\ put' = None

Appending(e, p) == phase' = "appending" /\ ev' = e /\ put' = p

\* append returns to its caller, or throws.
Answer(p, ok) ==
    /\ acked' = acked \cup {e \in {p.event} : p.local /\ ok}
    /\ refused' = refused \cup {e \in {p.event} : p.local /\ ~ok}

Enqueue(p) ==
    /\ mode = "up"
    /\ Len(queue) < MaxQueue
    /\ queue' = Append(queue, p)
    /\ UNCHANGED <<mode, viewVars, pendingVars, workVars, disk, answerVars,
                   heard, crashes, failures>>

(***************************************************************************)
(* S2S.append: the head is read and the event signed before the put gets   *)
(* its turn in the queue.  Its ts and content make every signature fresh.  *)
(***************************************************************************)
Sign(e) ==
    /\ AuthorOf[e] = Me
    /\ e \notin signed
    /\ SeqOf[e] = TipSeq(heads[Me]) + 1
    /\ PrevOf[e] = heads[Me]
    /\ signed' = signed \cup {e}
    /\ Enqueue([event |-> e, local |-> TRUE])

\* Gossip or a sync session hands us an event; our own come back too.
Receive(e) ==
    /\ e \in Remote \cup published
    /\ pendingCount <= MaxCount
    /\ Enqueue([event |-> e, local |-> FALSE])
    /\ UNCHANGED signed

(***************************************************************************)
(* The turn of the first put in the queue.  Expected is where the author's *)
(* log goes on.                                                            *)
(***************************************************************************)
ExpectedLate(a) == TipSeq(heads[a]) + 2

Expected(a) == TipSeq(heads[a]) + 1

Acceptable(p) == p.event \notin applied /\ (p.local \/ p.event \in Valid)

Turn(p) ==
    /\ mode = "up" /\ phase = "idle"
    /\ queue # <<>> /\ p = Head(queue)
    /\ queue' = Tail(queue)
    /\ UNCHANGED <<mode, viewVars, disk, signed, heard, crashes, failures>>

PutDuplicate(p) ==
    /\ Turn(p)
    /\ p.event \in applied
    /\ Answer(p, TRUE)
    /\ UNCHANGED <<pendingVars, workVars>>

PutInvalid(p) ==
    /\ Turn(p)
    /\ p.event \notin applied /\ ~Acceptable(p)
    /\ Answer(p, FALSE)
    /\ UNCHANGED <<pendingVars, workVars>>

PutEarly(p) ==
    /\ Turn(p)
    /\ Acceptable(p)
    /\ SeqOf[p.event] > Expected(AuthorOf[p.event])
    /\ Hold(p.event)
    /\ Answer(p, TRUE)
    /\ UNCHANGED workVars

PutStale(p) ==
    /\ Turn(p)
    /\ Acceptable(p)
    /\ SeqOf[p.event] < Expected(AuthorOf[p.event])
    /\ Answer(p, Slot(AuthorOf[p.event], SeqOf[p.event]) = {})
    /\ UNCHANGED <<pendingVars, workVars>>

LinksToAnything(e, h) == TRUE

Links(e, h) == h # None => PrevOf[e] = h

PutUnlinked(p) ==
    /\ Turn(p)
    /\ Acceptable(p)
    /\ SeqOf[p.event] = Expected(AuthorOf[p.event])
    /\ ~Links(p.event, heads[AuthorOf[p.event]])
    /\ Answer(p, FALSE)
    /\ UNCHANGED <<pendingVars, workVars>>

PutAppendUnchecked(p) ==
    /\ Turn(p)
    /\ Acceptable(p)
    /\ Appending(p.event, p)
    /\ UNCHANGED <<pendingVars, answerVars>>

PutAppend(p) ==
    /\ Turn(p)
    /\ Acceptable(p)
    /\ SeqOf[p.event] = Expected(AuthorOf[p.event])
    /\ Links(p.event, heads[AuthorOf[p.event]])
    /\ Appending(p.event, p)
    /\ UNCHANGED <<pendingVars, answerVars>>

PutTurn(p) ==
    \/ PutDuplicate(p) \/ PutInvalid(p) \/ PutEarly(p)
    \/ PutStale(p) \/ PutUnlinked(p) \/ PutAppend(p)

-----------------------------------------------------------------------------
(* The backend, and the put that awaits it *)

Persist ==
    /\ phase = "appending"
    /\ disk' = disk \cup {ev}
    /\ phase' = "written"
    /\ UNCHANGED <<mode, viewVars, pendingVars, queue, ev, put, signed,
                   answerVars, heard, crashes, failures>>

FailStuck ==
    /\ phase = "appending"
    /\ failures < MaxFailures
    /\ failures' = failures + 1
    /\ phase' = "failed"
    /\ UNCHANGED <<mode, viewVars, pendingVars, queue, ev, put, disk, signed,
                   answerVars, heard, crashes>>

\* appendEvent rejects: so does the put, whatever it had already stored.
Rejected ==
    /\ phase = "appending"
    /\ Answer(put, FALSE)
    /\ Idle
    /\ UNCHANGED <<mode, viewVars, pendingVars, queue, signed, heard, crashes>>

Fail ==
    /\ failures < MaxFailures
    /\ failures' = failures + 1
    /\ Rejected
    /\ UNCHANGED disk

\* What the drain finds waiting behind the event just applied.
UnblockedNever == {}

Unblocked == {f \in Of(pending, AuthorOf[ev]) : SeqOf[f] = SeqOf[ev] + 1}

\* Drained events are announced as they are applied, the put's own at the end.
DrainedSilently == {}

Drained == {ev} \ {put.event}

AppendNotAwaited == phase # "idle"

AppendReturned == phase = "written"

Resume ==
    /\ AppendReturned
    /\ Apply(ev)
    /\ UNCHANGED <<mode, queue, disk, signed, crashes, failures>>

ResumeDone ==
    /\ Resume
    /\ \/ Unblocked = {} /\ UNCHANGED pendingVars
       \/ \E f \in Unblocked : ~Links(f, ev) /\ Forget(f)
    /\ heard' = heard \cup {ev, put.event}
    /\ Answer(put, TRUE)
    /\ Idle

ResumeDrain ==
    /\ Resume
    /\ \E f \in Unblocked : Links(f, ev) /\ Forget(f) /\ Appending(f, put)
    /\ heard' = heard \cup Drained
    /\ UNCHANGED answerVars

-----------------------------------------------------------------------------
(* Crash and load *)

\* The process ends; a new one has only the disk.
Restart ==
    /\ crashes < MaxCrashes
    /\ crashes' = crashes + 1
    /\ mode' = "loading"
    /\ applied' = {} /\ deleted' = {} /\ tombstonePending' = {} /\ heard' = {}
    /\ heads' = [a \in Author |-> None]
    /\ pending' = {} /\ pendingOrder' = <<>> /\ pendingCount' = 0
    /\ queue' = <<>>
    /\ Idle
    /\ UNCHANGED <<signed, published, answerVars, failures>>

Crash == Restart /\ UNCHANGED disk

\* load applies what is stored author by author, each log in order of seq.
NextToLoadUnsorted(e) == e \in disk \ applied

NextToLoad(e) ==
    /\ e \in disk \ applied
    /\ \A f \in disk \ applied :
           AuthorOf[f] = AuthorOf[e] => SeqOf[e] <= SeqOf[f]
    /\ \A a \in Author \ {AuthorOf[e]} :
           Of(applied, a) # {} => Of(disk, a) \subseteq applied

LoadApply(e) ==
    /\ mode = "loading"
    /\ NextToLoad(e)
    /\ Apply(e)
    /\ heard' = heard \cup {e}
    /\ UNCHANGED <<mode, pendingVars, queue, workVars, disk, signed,
                   answerVars, crashes, failures>>

LoadDone ==
    /\ mode = "loading"
    /\ disk \subseteq applied
    /\ mode' = "up"
    /\ UNCHANGED <<viewVars, pendingVars, queue, workVars, disk, signed,
                   answerVars, heard, crashes, failures>>

-----------------------------------------------------------------------------

Init ==
    /\ mode = "loading"
    /\ applied = {} /\ deleted = {} /\ tombstonePending = {}
    /\ heads = [a \in Author |-> None]
    /\ pending = {} /\ pendingOrder = <<>> /\ pendingCount = 0
    /\ queue = <<>> /\ phase = "idle" /\ ev = None /\ put = None
    /\ disk = {}
    /\ signed = {} /\ published = {} /\ acked = {} /\ refused = {} /\ heard = {}
    /\ crashes = 0 /\ failures = 0

\* What the process and its disk do by themselves, once asked.
Work ==
    \/ \E p \in Put : PutTurn(p)
    \/ Persist \/ ResumeDone \/ ResumeDrain
    \/ \E e \in Event : LoadApply(e)
    \/ LoadDone

Next ==
    \/ \E e \in Event : Sign(e)
    \/ \E e \in Event : Receive(e)
    \/ Work
    \/ Fail
    \/ Crash

Spec == Init /\ [][Next]_vars

\* The event loop keeps running the jobs it has; the disk answers.
FairSpec == Spec /\ WF_vars(Work)

-----------------------------------------------------------------------------
(* Properties *)

\* The range of every variable (the fields of S2SStore, store.js:48-84).
TypeOK ==
    /\ mode \in {"loading", "up"}
    /\ applied \subseteq Event
    /\ heads \in [Author -> OrNone(Event)]
    /\ pending \subseteq Event
    /\ pendingOrder \in Seq(Author)
    /\ pendingCount \in Nat
    /\ deleted \subseteq Event
    /\ tombstonePending \subseteq Event \X Author
    /\ queue \in Seq(Put)
    /\ phase \in {"idle", "appending", "written"}
    /\ ev \in OrNone(Event)
    /\ put \in OrNone(Put)
    /\ disk \subseteq Event
    /\ signed \subseteq Event /\ published \subseteq Event
    /\ acked \subseteq Event /\ refused \subseteq Event /\ heard \subseteq Event
    /\ crashes \in Nat /\ failures \in Nat

(***************************************************************************)
(* No interleaving of puts, appends, drains, failures and restarts ever    *)
(* leaves two events at one position of a log, a gap in it, or a prev that *)
(* is not the event before - in memory or on disk.                         *)
(***************************************************************************)
ChainIntact == IsChain(applied) /\ IsChain(disk)

(***************************************************************************)
(* The have vector is honest: an author's head is the last event of a log  *)
(* that holds every position up to it, so a peer that is told "seq n" may  *)
(* conclude that nothing below n is missing here.                          *)
(***************************************************************************)
HaveVectorHonest ==
    \A a \in Author :
        /\ heads[a] # None => heads[a] \in Of(applied, a)
        /\ \A f \in Of(applied, a) : SeqOf[f] <= TipSeq(heads[a])
        /\ \A s \in 1..TipSeq(heads[a]) : Slot(a, s) # {}

(***************************************************************************)
(* What is still held is held for a reason: the event before it is missing *)
(* even when every put, drain and failed append in between is counted.  So *)
(* filling a gap never leaves an event stuck behind it.                    *)
(***************************************************************************)
PendingBeyondGap ==
    \A f \in pending : SeqOf[f] > TipSeq(heads[AuthorOf[f]]) + 1

(***************************************************************************)
(* The two caps on held events are never exceeded, whatever the eviction   *)
(* order, and the counter the cap is tested against never falls below the  *)
(* number of events really held.                                           *)
(***************************************************************************)
HeldWithinCaps ==
    /\ Cardinality(pending) <= MaxPending
    /\ Cardinality(pending) <= pendingCount
    /\ \A a \in Author : Cardinality(Of(pending, a)) <= MaxPendingPerAuthor

(***************************************************************************)
(* Which events are hidden by tombstones depends on the set of events      *)
(* stored, not on the order they arrived in or were loaded in: exactly the *)
(* stored events whose own author stored a delete naming them.             *)
(***************************************************************************)
TombstonesExact ==
    deleted = {t \in applied : \E d \in Of(applied, AuthorOf[t]) : TargetOf[d] = t}

(***************************************************************************)
(* An append that returned to the user is on disk, and stays there through *)
(* any crash.                                                              *)
(***************************************************************************)
AckedDurable == acked \subseteq disk

(***************************************************************************)
(* Our own log never forks in front of other peers: over all restarts, no  *)
(* two own events that were visible to a peer share a position.            *)
(***************************************************************************)
NoPublishedFork == OnePerSlot(published)

(***************************************************************************)
(* Once loaded, memory and disk agree except for the one write that has    *)
(* reached the disk and whose put has not resumed.                         *)
(***************************************************************************)
MemoryMatchesDisk ==
    /\ applied \subseteq disk
    /\ mode = "up" => disk \subseteq applied \cup {ev}

(***************************************************************************)
(* Whatever watches for new events (media fetcher, store-and-forward) has  *)
(* heard of every stored event by the time the put that stored it is over. *)
(***************************************************************************)
EveryStoredEventHeard == phase = "idle" => applied \subseteq heard

(***************************************************************************)
(* A running replica never goes back on a head: it moves one position at a *)
(* time to an event that names the old head as its prev.                   *)
(***************************************************************************)
HeadsOnlyExtend ==
    [][mode' = "loading" \/ \A a \in Author : heads'[a] # heads[a] =>
           /\ heads'[a] # None
           /\ heads[a] # None => PrevOf[heads'[a]] = heads[a]
           /\ SeqOf[heads'[a]] = TipSeq(heads[a]) + 1]_vars

Waiting == {queue[i] : i \in DOMAIN queue} \cup ({put} \ {None})

Asked == {e \in Event : [event |-> e, local |-> TRUE] \in Waiting}

(***************************************************************************)
(* A user's append is never left hanging: while the process lives it       *)
(* returns or throws, whatever fails before it in the queue.               *)
(***************************************************************************)
AppendsAnswered ==
    \A e \in Of(Event, Me) : e \in Asked ~> e \in acked \cup refused \/ mode = "loading"

\* The store implements the log a replica promises.
Log == INSTANCE SignedLog WITH durable <- disk, visible <- applied

\* Every step of the store is a step of that log, or changes nothing of it.
ImplementsSignedLog == Log!Spec

-----------------------------------------------------------------------------
(* A claim that does not hold *)

(***************************************************************************)
(* LIMITS.md and store.js:61-66: writes to one log go through one queue.   *)
(* An own append with a healthy disk and nobody else using the key is then *)
(* never refused.                                                          *)
(***************************************************************************)
OwnAppendsSerialised == refused = {}
=============================================================================
