------------------------------ MODULE RustPeer ------------------------------
(***************************************************************************)
(* The always-on peer written in Rust (rust/s2s-peer): its store           *)
(* (store.rs) and what main.rs does with the media of the events it gets.  *)
(*                                                                         *)
(* A put holds the store's mutex from its checks to the end of the drain   *)
(* it starts, so puts do not interleave; but the process may end, and a    *)
(* write may fail, between any two lines it appends.  draining holds the   *)
(* authors whose buffer the holder of the mutex has still to look at.      *)
(* Fetch rounds run beside it, and beside each other.                      *)
(***************************************************************************)
EXTENDS Events, Sequences

SX == INSTANCE SequencesExt

CONSTANTS
    Me,                     \* the account
    Remote,                 \* the events other peers hand us
    Blob, MediaOf,          \* event -> the blobs media_refs finds in it
    Torn,                   \* a last line that does not parse
    Cut,                    \* bytes that are no text: a character cut in two
    MaxPending,             \* MAX_PENDING_TOTAL (20 000)
    MaxPendingPerAuthor,    \* MAX_PENDING_PER_AUTHOR (2 000)
    MaxAttempts,            \* MAX_BLOB_ATTEMPTS (6)
    \* Bounds of the model
    Round,                  \* fetch rounds that run at one time
    MaxCrashes,             \* ends of the process
    MaxTears                \* appends cut short

ASSUME RustAssumption ==
    /\ Me \in Author /\ Remote \subseteq Event
    /\ MediaOf \in [Event -> SUBSET Blob]
    /\ {Torn, Cut} \cap (Event \cup {None}) = {} /\ Torn # Cut
    /\ {MaxPending, MaxPendingPerAuthor, MaxAttempts} \subseteq Nat \ {0}
    /\ {MaxCrashes, MaxTears} \subseteq Nat

VARIABLES
    mode,           \* "loading", "posting" before the swarm runs, then "up";
                    \* "broken" when load returns an error, and so does main
    loading,        \* what is left of the file, sorted
    logs,           \* author -> Vec of events, indexed by seq - 1
    heads,          \* author -> seq of the last one
    deleted, tombstonePending,
    pending, pendingCount,
    draining,
    disk,           \* events of the lines that are ended and parse
    openEnd,        \* what is after the last newline: None, Torn, or one event;
                    \* Cut for good once there is such a byte on any line
    wanted, failed, \* blobs to fetch; blob -> rounds that did not get it
    held,           \* blobs in the blob directory
    rounds,         \* round -> blobs it has still to try, None when over
    signed, shown,  \* own events; those other peers may have got
    asked,          \* events that came by gossip or were there at the start
    crashes, tears

logVars == <<logs, heads, deleted, tombstonePending>>
pendingVars == <<pending, pendingCount>>
fileVars == <<disk, openEnd, tears>>
mediaVars == <<wanted, failed, held, rounds>>
ownVars == <<signed, shown>>
vars == <<mode, loading, logVars, pendingVars, draining, fileVars, mediaVars,
          ownVars, asked, crashes>>

Stored == UNION {SX!Range(logs[a]) : a \in Author}
HeadId(a) == IF heads[a] = 0 THEN None ELSE logs[a][heads[a]]

\* What load gets out of the file.  A line that does not parse is skipped; one
\* that is not UTF-8 ends it with an error (the ? of store.rs:338).
Recoverable == IF openEnd = Cut THEN {} ELSE disk \cup ({openEnd} \cap Event)
Missing(S) == (UNION {MediaOf[e] : e \in S}) \ held

-----------------------------------------------------------------------------
(* append_to_disk: the line, then its newline *)

AppendLineTruncating(e) ==
    /\ disk' = {e}
    /\ openEnd' = None
    /\ UNCHANGED tears

AppendLine(e) ==
    /\ disk' = IF openEnd = None THEN disk \cup {e} ELSE disk
    /\ openEnd' = IF openEnd = Cut THEN Cut ELSE None
    /\ UNCHANGED tears

\* The process ends, or the disk is full, before the newline is there: within
\* the line, within a character of it, or right after its last brace.
Tear(e) ==
    /\ tears < MaxTears
    /\ tears' = tears + 1
    /\ openEnd' \in IF openEnd = Cut THEN {Cut}
                    ELSE {Torn, Cut} \cup {f \in {e} : openEnd = None}
    /\ UNCHANGED disk

\* apply; the tombstones are as in the JavaScript store.
Apply(e) ==
    LET a == AuthorOf[e]
        t == TargetOf[e]
    IN  /\ logs' = [logs EXCEPT ![a] = Append(@, e)]
        /\ heads' = [heads EXCEPT ![a] = SeqOf[e]]
        /\ deleted' = deleted \cup {f \in Stored : f = t /\ AuthorOf[f] = a}
                          \cup {f \in {e} : <<e, a>> \in tombstonePending}
        /\ tombstonePending' = {w \in tombstonePending : w[1] # e}
               \cup {<<f, a>> : f \in {t} \ (Stored \cup {None})}

-----------------------------------------------------------------------------
(* hold and evict_pending *)

Early(e) == SeqOf[e] > heads[AuthorOf[e]] + 1
Slot(e) == {f \in Of(pending, AuthorOf[e]) : SeqOf[f] = SeqOf[e]}

\* Some author's whole buffer goes: the keys of a HashMap have no order.
Evicted(author) == Of(pending, author)

CanHold(e) ==
    Early(e) /\ Slot(e) = {}
        /\ Cardinality(Of(pending, AuthorOf[e])) < MaxPendingPerAuthor

HoldMiscounting(e) ==
    /\ CanHold(e)
    /\ \E gone \in {{}} \cup {Evicted(a) : a \in Author} :
           /\ gone = {} <=> pendingCount < MaxPending
           /\ pending' = (pending \ gone) \cup {e}
           /\ pendingCount' = pendingCount + 1

\* A filled slot is left alone, a full buffer takes nothing: no step.
Hold(e) ==
    /\ CanHold(e)
    /\ \E gone \in {{}} \cup {Evicted(a) : a \in Author} :
           /\ gone = {} <=> pendingCount < MaxPending
           /\ pending' = (pending \ gone) \cup {e}
           /\ pendingCount' = pendingCount - Cardinality(gone) + 1

-----------------------------------------------------------------------------
(* put_verified.  A duplicate, a fork or an event that does not link is    *)
(* turned away and changes nothing.                                        *)

FitsAnything(e) == e \notin Stored /\ ~Early(e)

Fits(e) ==
    /\ SeqOf[e] = heads[AuthorOf[e]] + 1
    /\ heads[AuthorOf[e]] # 0 => PrevOf[e] = HeadId(AuthorOf[e])

PutEarly(e) ==
    /\ Hold(e)
    /\ UNCHANGED <<logVars, draining, fileVars>>

PutStored(e) ==
    /\ Fits(e)
    /\ AppendLine(e)
    /\ Apply(e)
    /\ draining' = {AuthorOf[e]}
    /\ UNCHANGED pendingVars

\* The write fails, and the process goes on.
PutUnwritten(e) ==
    /\ Fits(e)
    /\ Tear(e)
    /\ UNCHANGED <<logVars, pendingVars, draining>>

(* drain_pending_for, one turn of its loop.  Whatever it finds leaves the  *)
(* buffer before anything is checked or written.                           *)
Next1(a) == {f \in Of(pending, a) : SeqOf[f] = heads[a] + 1}

Take(f) == pending' = pending \ {f} /\ pendingCount' = pendingCount - 1

DrainEnds(a) ==
    /\ \/ Next1(a) = {} /\ UNCHANGED <<pendingVars, fileVars>>
       \/ \E f \in Next1(a) :
              /\ Take(f)
              /\ \/ PrevOf[f] # HeadId(a) /\ UNCHANGED fileVars
                 \/ PrevOf[f] = HeadId(a) /\ Tear(f)
    /\ draining' = draining \ {a}
    /\ UNCHANGED logVars

DrainStores(a) ==
    /\ \E f \in Next1(a) :
           PrevOf[f] = HeadId(a) /\ Take(f) /\ AppendLine(f) /\ Apply(f)
    /\ UNCHANGED draining

Drain(a) ==
    /\ a \in draining
    /\ DrainEnds(a) \/ DrainStores(a)
    /\ UNCHANGED <<mode, loading, mediaVars, ownVars, asked, crashes>>

-----------------------------------------------------------------------------
(* open, load, append_local, and main up to its loop *)

Sorted(S) ==
    {q \in SX!SetToSeqs(S) : \A i, j \in DOMAIN q : i < j =>
         /\ AuthorOf[q[i]] = AuthorOf[q[j]] => SeqOf[q[i]] <= SeqOf[q[j]]
         /\ \A k \in i..j : AuthorOf[q[i]] = AuthorOf[q[j]]
                                => AuthorOf[q[k]] = AuthorOf[q[i]]}

LoadNext ==
    /\ mode = "loading" /\ draining = {} /\ loading # <<>>
    /\ LET e == Head(loading)
       IN  \/ /\ Fits(e)
              /\ Apply(e)
              /\ draining' = {AuthorOf[e]}
              /\ UNCHANGED pendingVars
           \/ Hold(e) /\ UNCHANGED <<logVars, draining>>
           \/ /\ ~Fits(e) /\ ~CanHold(e)
              /\ UNCHANGED <<logVars, pendingVars, draining>>
    /\ loading' = Tail(loading)
    /\ UNCHANGED <<mode, fileVars, mediaVars, ownVars, asked, crashes>>

\* drain_all_pending
LoadDone ==
    /\ mode = "loading" /\ draining = {} /\ loading = <<>>
    /\ mode' = "posting"
    /\ draining' = {AuthorOf[f] : f \in pending}
    /\ UNCHANGED <<loading, logVars, pendingVars, fileVars, mediaVars, ownVars,
                   asked, crashes>>

\* --name and --post; the timestamp makes every signature a new event.
Post(e) ==
    /\ mode = "posting" /\ draining = {}
    /\ AuthorOf[e] = Me /\ e \notin signed
    /\ PrevOf[e] = HeadId(Me) /\ PutStored(e)
    /\ signed' = signed \cup {e}
    /\ UNCHANGED <<mode, loading, mediaVars, shown, asked, crashes>>

\* What is wanted from the start: the media of every event, bytes not held.
Begin ==
    /\ mode = "posting" /\ draining = {}
    /\ mode' = "up"
    /\ wanted' = Missing(Stored)
    /\ shown' = shown \cup Of(Stored, Me)
    /\ asked' = Stored
    /\ UNCHANGED <<loading, logVars, pendingVars, draining, fileVars, failed,
                   held, rounds, signed, crashes>>

\* The process ends anywhere, also in the middle of a line.
Writing(e) ==
    \/ mode = "posting" /\ AuthorOf[e] = Me /\ e \notin signed /\ Fits(e)
    \/ mode = "up" /\ draining = {} /\ e \in Remote \cap Valid /\ Fits(e)
    \/ \E a \in draining : e \in Next1(a) /\ PrevOf[e] = HeadId(a)

Crash ==
    /\ crashes < MaxCrashes
    /\ crashes' = crashes + 1
    /\ \/ UNCHANGED <<fileVars, signed>>
       \/ \E e \in Event : /\ Writing(e) /\ Tear(e)
                           /\ signed' = signed \cup Of({e}, Me)
    /\ mode' = IF openEnd' = Cut THEN "broken" ELSE "loading"
    /\ loading' \in Sorted(Recoverable')
    /\ logs' = [a \in Author |-> <<>>] /\ heads' = [a \in Author |-> 0]
    /\ deleted' = {} /\ tombstonePending' = {}
    /\ pending' = {} /\ pendingCount' = 0 /\ draining' = {}
    /\ wanted' = {} /\ failed' = [b \in Blob |-> 0]
    /\ rounds' = [r \in Round |-> None] /\ asked' = {}
    /\ UNCHANGED <<held, shown>>

-----------------------------------------------------------------------------
(* Events that come in, and their media *)

\* Store::put: known and invalid events change nothing either.
Offer(e) ==
    /\ mode = "up" /\ draining = {}
    /\ e \in (Remote \cap Valid) \cup shown
    /\ e \notin Stored
    /\ UNCHANGED <<mode, loading, failed, held, rounds, ownVars, crashes>>

\* read_until_end: an event of a sync session.
Synced(e) ==
    /\ Offer(e)
    /\ PutEarly(e) \/ PutStored(e) \/ PutUnwritten(e)
    /\ UNCHANGED <<wanted, asked>>

\* ingest_gossip also wants the media of what it stored.
Gossip(e) ==
    /\ Offer(e)
    /\ \/ PutStored(e) /\ wanted' = wanted \cup Missing({e})
          /\ asked' = asked \cup {e}
       \/ (PutEarly(e) \/ PutUnwritten(e)) /\ UNCHANGED <<wanted, asked>>

-----------------------------------------------------------------------------
(* fetch_wanted_blobs.  A round starts every 10 seconds with somebody      *)
(* connected, whether the last one is over or not.                         *)

Media == UNCHANGED <<mode, loading, logVars, pendingVars, draining, fileVars,
                     ownVars, asked, crashes>>

BlobTick(r) ==
    /\ mode = "up" /\ rounds[r] = None
    /\ wanted # {}
    /\ rounds' = [rounds EXCEPT ![r] = wanted]
    /\ UNCHANGED <<wanted, failed, held>> /\ Media

\* The round goes on without b.
Tried(r, b) ==
    rounds' = [rounds EXCEPT ![r] = IF @ = {b} THEN None ELSE @ \ {b}]

Fetched(r, b) ==
    /\ draining = {}
    /\ held' = held \cup {b}
    /\ wanted' = wanted \ {b}
    /\ failed' = [failed EXCEPT ![b] = 0]
    /\ Tried(r, b) /\ Media

NotFetchedOnce(r, b) ==
    /\ failed' = [failed EXCEPT ![b] = IF @ < MaxAttempts THEN @ + 1 ELSE @]
    /\ wanted' = wanted \ {b}
    /\ Tried(r, b)
    /\ UNCHANGED held /\ Media

NotFetchedForever(r, b) ==
    /\ failed' = [failed EXCEPT ![b] = IF @ < MaxAttempts THEN @ + 1 ELSE @]
    /\ Tried(r, b)
    /\ UNCHANGED <<wanted, held>> /\ Media

\* Nobody has it, or no answer came, or it could not be written.  The counter
\* stays where it is once it has reached its limit (no bound in the code).
NotFetched(r, b) ==
    /\ failed' = [failed EXCEPT ![b] = IF @ < MaxAttempts THEN @ + 1 ELSE @]
    /\ wanted' = IF failed[b] + 1 >= MaxAttempts THEN wanted \ {b} ELSE wanted
    /\ Tried(r, b)
    /\ UNCHANGED held /\ Media

FetchStep(r) ==
    /\ rounds[r] # None
    /\ \E b \in rounds[r] : Fetched(r, b) \/ NotFetched(r, b)

-----------------------------------------------------------------------------

Init ==
    /\ mode = "loading" /\ loading = <<>>
    /\ logs = [a \in Author |-> <<>>] /\ heads = [a \in Author |-> 0]
    /\ deleted = {} /\ tombstonePending = {}
    /\ pending = {} /\ pendingCount = 0 /\ draining = {}
    /\ disk = {} /\ openEnd = None
    /\ wanted = {} /\ failed = [b \in Blob |-> 0] /\ held = {}
    /\ rounds = [r \in Round |-> None]
    /\ signed = {} /\ shown = {} /\ asked = {}
    /\ crashes = 0 /\ tears = 0

Next ==
    \/ LoadNext \/ LoadDone \/ Begin \/ Crash
    \/ \E e \in Event : Post(e) \/ Synced(e) \/ Gossip(e)
    \/ \E a \in Author : Drain(a)
    \/ \E r \in Round : BlobTick(r) \/ FetchStep(r)

Spec == Init /\ [][Next]_vars

\* The timer ticks; every request of a round has a timeout.
FairSpec ==
    /\ Spec
    /\ \A r \in Round : WF_vars(BlobTick(r)) /\ WF_vars(FetchStep(r))

-----------------------------------------------------------------------------
(* Properties *)

(***************************************************************************)
(* "Position and sequence never drift" (store.rs:293, 444): whatever was   *)
(* torn, lost, duplicated or held, the event at index n of a log has       *)
(* seq n + 1, and names the one before it.                                 *)
(***************************************************************************)
PositionIsSeq ==
    \A a \in Author :
        /\ heads[a] = Len(logs[a])
        /\ \A i \in DOMAIN logs[a] :
               /\ SeqOf[logs[a][i]] = i /\ AuthorOf[logs[a][i]] = a
               /\ i > 1 => PrevOf[logs[a][i]] = logs[a][i - 1]

(***************************************************************************)
(* The counter of held events is exact through holds, evictions, forks,    *)
(* drains and failed writes, and within its caps (store.rs:482-534).       *)
(***************************************************************************)
HeldCountExact ==
    /\ pendingCount = Cardinality(pending) /\ pendingCount <= MaxPending
    /\ \A a \in Author : Cardinality(Of(pending, a)) <= MaxPendingPerAuthor
    /\ draining = {} => \A f \in pending : Early(f)

(***************************************************************************)
(* What a cut append costs of the events shown to other peers, a cut in    *)
(* the middle of a character apart, which costs them all: two at most, the *)
(* one that seemed whole and the one that went on in its line              *)
(* (store.rs:338-345, 430-437).                                            *)
(***************************************************************************)
LossBounded ==
    mode = "up" /\ openEnd # Cut
        => Cardinality(Stored \ Recoverable) <= 2 * tears

GivenUp == {b \in Blob : failed[b] >= MaxAttempts}

(***************************************************************************)
(* The media of an event that came by gossip or was there at the start is  *)
(* wanted until it is here or was given up, although rounds overlap and    *)
(* two posts may name one blob (main.rs:252-264, 376-426).                 *)
(***************************************************************************)
WantedUntilSettled ==
    mode = "up" => Missing(asked) \subseteq wanted \cup GivenUp

(***************************************************************************)
(* Nothing is asked for forever (main.rs:413-415): a wanted blob is        *)
(* fetched or given up, or the process ends.                               *)
(***************************************************************************)
NothingAskedForever == \A b \in Blob : b \in wanted ~> b \notin wanted

-----------------------------------------------------------------------------
(* Claims that do not hold *)

\* store.rs:326-344: a file that is "a line short after a crash" is replayed
\* all the same, by "skipping corrupt line".
StartsAgain == mode # "broken"

\* main.rs:250: "Media referenced by events we hold but whose bytes we have
\* not fetched" is what wanted holds; those given up apart.
AllMediaWanted ==
    mode = "up" /\ draining = {} => Missing(Stored) \subseteq wanted \cup GivenUp
=============================================================================
