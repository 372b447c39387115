---------------------------- MODULE Replication ----------------------------
(***************************************************************************)
(* How replicas fill each other in: sync sessions (packages/net/src/       *)
(* sync.js) over connections that may be cut, and gossip that may lose,    *)
(* repeat and reorder what it carries (network.js).                        *)
(*                                                                         *)
(* Store shows that a replica keeps a chain per author.  When nobody signs *)
(* two events at one position, a log is then known by its length, and this *)
(* module says no more of one: event s of author a is the pair <<a, s>>.   *)
(*                                                                         *)
(* A call is a pair <<dialer, responder>> of peers; it has two ends, each  *)
(* running its half of the session, with the messages sent to it in inbox. *)
(* Every await of the code is a point where the other steps interleave.    *)
(* A peer may also be the Rust one (rust/s2s-peer/src/sync.rs), whose      *)
(* session is the same but for what it does at the message limit.          *)
(***************************************************************************)
EXTENDS Naturals, Sequences, FiniteSets, SequencesExt

CONSTANTS
    Peer, Author,
    Home,           \* author -> the peer that writes the author's log
    Call,           \* who dials whom, <<dialer, responder>>
    None,
    Batch,          \* MAX_EVENTS_PER_MESSAGE (200)
    MaxMessages,    \* MAX_MESSAGES_PER_SYNC (10 000)
    Window,         \* messages a stream takes before a write waits
    \* Bounds of the model
    MaxLen,         \* events in one log
    MaxCuts,        \* sessions that are cut, or time out
    MaxCrashes,     \* peers that stop and start again
    RustChoices     \* sets of peers that run the Rust implementation

ASSUME ReplicationAssumption ==
    /\ IsFiniteSet(Author)
    /\ Home \in [Author -> Peer]
    /\ Call \subseteq {c \in Peer \X Peer : c[1] # c[2]}
    /\ None \notin [author : Author, from : Nat, to : Nat]
    /\ {Batch, MaxMessages, Window} \subseteq Nat \ {0}
    /\ {MaxLen, MaxCuts, MaxCrashes} \subseteq Nat
    /\ RustChoices \subseteq SUBSET Peer

VARIABLES
    have,       \* peer -> the have vector: author -> length of the log held
    held,       \* peer -> events held because the one before is missing
    at,         \* end -> where its half of the session is
    inbox,      \* end -> messages on their way to it
    theirs,     \* end -> the vector the other end announced
    todo,       \* end -> ranges of events still to be sent
    batch,      \* end -> what is left to put of the message being read
    read,       \* end -> event messages read in this session
    cut,        \* call -> its stream is dead
    rust,       \* the peers that are s2s-peer, written in Rust
    cuts, crashes

replicaVars == <<have, held>>
endVars == <<at, inbox, theirs, todo, batch, read>>
vars == <<replicaVars, endVars, cut, cuts, crashes, rust>>

Role == {"dialer", "responder"}
End == Call \X Role

Self(x) == IF x[2] = "dialer" THEN x[1][1] ELSE x[1][2]
Far(x) == <<x[1], IF x[2] = "dialer" THEN "responder" ELSE "dialer">>

Vector == [Author -> Nat]
Nothing == [a \in Author |-> 0]
Span(a, from, to) == [author |-> a, from |-> from, to |-> to]
Have(v) == [type |-> "have", vector |-> v]
Events(r) == [type |-> "events", range |-> r]
EndOfEvents == [type |-> "end"]

Spans == {s \in [author : Author, from : Nat, to : Nat] : 1 <= s.from /\ s.from <= s.to}
Message == [type : {"have"}, vector : Vector] \cup [type : {"events"}, range : Spans]
               \cup [type : {"end"}]

Over == {"idle", "done", "failed"}

-----------------------------------------------------------------------------
(* A replica takes an event: the store's put *)

\* How far the log of a reaches at p once s is in: the drain of held events.
Reach(p, a, s) ==
    CHOOSE n \in s..(s + Cardinality(held[p])) :
        /\ \A k \in (s + 1)..n : <<a, k>> \in held[p]
        /\ <<a, n + 1>> \notin held[p]

PutNextKeepingHeld(p, a, s) ==
    /\ s = have[p][a] + 1
    /\ have' = [have EXCEPT ![p][a] = Reach(p, a, s)]
    /\ UNCHANGED held

PutNextInLog(p, a, s) ==
    /\ s = have[p][a] + 1
    /\ have' = [have EXCEPT ![p][a] = Reach(p, a, s)]
    /\ held' = [held EXCEPT ![p] =
                   {h \in @ : h[1] # a \/ h[2] > Reach(p, a, s)}]

\* A full buffer drops what arrives early.
PutEarly(p, a, s) ==
    /\ s > have[p][a] + 1
    /\ held' = [held EXCEPT ![p] = @ \cup {<<a, s>>}] \/ UNCHANGED held
    /\ UNCHANGED have

PutDuplicate(p, a, s) ==
    /\ s <= have[p][a]
    /\ UNCHANGED replicaVars

PutEvent(p, a, s) ==
    PutNextInLog(p, a, s) \/ PutEarly(p, a, s) \/ PutDuplicate(p, a, s)

\* An author posts.
Write(a) ==
    /\ have[Home[a]][a] < MaxLen
    /\ have' = [have EXCEPT ![Home[a]][a] = @ + 1]
    /\ UNCHANGED <<held, endVars, cut, cuts, crashes, rust>>

\* publish: the author's own peer sends out every event it wrote.
Published(a) == 1..have[Home[a]][a]

\* Gossip delivers anything that was ever published, or never does.
Gossip(p, a, s) ==
    /\ s \in Published(a)
    /\ p # Home[a]
    /\ PutEvent(p, a, s)
    /\ UNCHANGED <<endVars, cut, cuts, crashes, rust>>

-----------------------------------------------------------------------------
(* syncWith and handleSync *)

Quiet == UNCHANGED <<replicaVars, cut, cuts, crashes, rust>>

DiffBothWays(mine, other) ==
    {Span(a, other[a] + 1, mine[a]) : a \in {b \in Author : mine[b] # other[b]}}

DiffOffByOne(mine, other) ==
    {Span(a, other[a] + 2, mine[a]) : a \in {b \in Author : mine[b] > other[b] + 1}}

\* diff: the ranges one side can send the other.
Diff(mine, other) ==
    {Span(a, other[a] + 1, mine[a]) : a \in {b \in Author : mine[b] > other[b]}}

DialUnlessFailed(c) ==
    /\ at[<<c, "dialer">>] \in {"idle", "done"}
    /\ at[<<c, "responder">>] \in {"idle", "done"}
    /\ at' = [at EXCEPT ![<<c, "dialer">>] = "greeting",
                       ![<<c, "responder">>] = "greeting"]
    /\ inbox' = [inbox EXCEPT ![<<c, "responder">>] = <<Have(have[c[1]])>>]
    /\ read' = [read EXCEPT ![<<c, "dialer">>] = 0, ![<<c, "responder">>] = 0]
    /\ UNCHANGED <<replicaVars, theirs, todo, batch, cut, cuts, crashes, rust>>

Dial(c) ==
    LET d == <<c, "dialer">>
        r == <<c, "responder">>
    IN  /\ at[d] \in Over /\ at[r] \in Over
        /\ at' = [at EXCEPT ![d] = "greeting", ![r] = "greeting"]
        /\ inbox' = [inbox EXCEPT ![d] = <<>>, ![r] = <<Have(have[c[1]])>>]
        /\ theirs' = [theirs EXCEPT ![d] = Nothing, ![r] = Nothing]
        /\ todo' = [todo EXCEPT ![d] = <<>>, ![r] = <<>>]
        /\ batch' = [batch EXCEPT ![d] = None, ![r] = None]
        /\ read' = [read EXCEPT ![d] = 0, ![r] = 0]
        /\ cut' = [cut EXCEPT ![c] = FALSE]
        /\ UNCHANGED <<replicaVars, cuts, crashes, rust>>

\* writeEvents starts: the ranges are those of our vector now.
StartWriting(x, other) ==
    \E s \in SetToSeqs(Diff(have[Self(x)], other)) : todo' = [todo EXCEPT ![x] = s]

\* The responder answers a have vector with its own, then reads.
GreetWritingFirst(x) ==
    /\ at[x] = "greeting" /\ x[2] = "responder" /\ inbox[x] # <<>>
    /\ at' = [at EXCEPT ![x] = "writing"]
    /\ theirs' = [theirs EXCEPT ![x] = Head(inbox[x]).vector]
    /\ StartWriting(x, Head(inbox[x]).vector)
    /\ inbox' = [inbox EXCEPT ![x] = Tail(@),
                              ![Far(x)] = Append(@, Have(have[Self(x)]))]
    /\ UNCHANGED <<batch, read>> /\ Quiet

Greet(x) ==
    /\ at[x] = "greeting" /\ x[2] = "responder" /\ inbox[x] # <<>>
    /\ at' = [at EXCEPT ![x] = "reading"]
    /\ theirs' = [theirs EXCEPT ![x] = Head(inbox[x]).vector]
    /\ inbox' = [inbox EXCEPT ![x] = Tail(@),
                              ![Far(x)] = Append(@, Have(have[Self(x)]))]
    /\ UNCHANGED <<todo, batch, read>> /\ Quiet

\* The dialer learns what the responder has, and writes first.
Greeted(x) ==
    /\ at[x] = "greeting" /\ x[2] = "dialer" /\ inbox[x] # <<>>
    /\ at' = [at EXCEPT ![x] = "writing"]
    /\ theirs' = [theirs EXCEPT ![x] = Head(inbox[x]).vector]
    /\ inbox' = [inbox EXCEPT ![x] = Tail(@)]
    /\ StartWriting(x, Head(inbox[x]).vector)
    /\ UNCHANGED <<batch, read>> /\ Quiet

\* A stream that is full keeps its writer waiting; a dead one loses the message.
Send(x, m) ==
    \/ /\ ~cut[x[1]]
       /\ Len(inbox[Far(x)]) < Window
       /\ inbox' = [inbox EXCEPT ![Far(x)] = Append(@, m)]
    \/ cut[x[1]] /\ UNCHANGED inbox

SendEvents(x) ==
    LET r    == Head(todo[x])
        last == IF r.from + Batch - 1 < r.to THEN r.from + Batch - 1 ELSE r.to
    IN  /\ at[x] = "writing" /\ todo[x] # <<>>
        /\ Send(x, Events(Span(r.author, r.from, last)))
        /\ todo' = [todo EXCEPT ![x] =
                       IF last = r.to THEN Tail(@)
                       ELSE <<Span(r.author, last + 1, r.to)>> \o Tail(@)]
        /\ UNCHANGED <<at, theirs, batch, read>> /\ Quiet

SendEnd(x) ==
    /\ at[x] = "writing" /\ todo[x] = <<>>
    /\ Send(x, EndOfEvents)
    /\ at' = [at EXCEPT ![x] = IF x[2] = "dialer" THEN "reading" ELSE "done"]
    /\ UNCHANGED <<theirs, todo, batch, read>> /\ Quiet

\* readEvents returns: the dialer is done, the responder writes in its turn.
DoneReading(x) ==
    \/ /\ x[2] = "dialer"
       /\ at' = [at EXCEPT ![x] = "done"]
       /\ UNCHANGED todo
    \/ /\ x[2] = "responder"
       /\ at' = [at EXCEPT ![x] = "writing"]
       /\ StartWriting(x, theirs[x])

ReadingAhead(x, type) ==
    /\ at[x] = "reading"
    /\ inbox[x] # <<>> /\ Head(inbox[x]).type = type
    /\ inbox' = [inbox EXCEPT ![x] = Tail(@)]

Reading(x, type) ==
    /\ at[x] = "reading" /\ batch[x] = None
    /\ inbox[x] # <<>> /\ Head(inbox[x]).type = type
    /\ inbox' = [inbox EXCEPT ![x] = Tail(@)]

ReadEnd(x) ==
    /\ Reading(x, "end")
    /\ Self(x) \in rust => read[x] < MaxMessages
    /\ DoneReading(x)
    /\ UNCHANGED <<theirs, batch, read>> /\ Quiet

ReadEvents(x) ==
    /\ Reading(x, "events")
    /\ read[x] < MaxMessages
    /\ read' = [read EXCEPT ![x] = @ + 1]
    /\ batch' = [batch EXCEPT ![x] = Head(inbox[x]).range]
    /\ UNCHANGED <<at, theirs, todo>> /\ Quiet

\* One message too many: it is thrown away and reading stops there.
StopReading(x) ==
    /\ Reading(x, "events")
    /\ Self(x) \notin rust
    /\ read[x] >= MaxMessages
    /\ read' = [read EXCEPT ![x] = @ + 1]
    /\ DoneReading(x)
    /\ UNCHANGED <<theirs, batch>> /\ Quiet

\* The Rust peer counts the end as well, and ends the session at the limit.
RustGivesUp(x) ==
    /\ at[x] = "reading" /\ batch[x] = None
    /\ Self(x) \in rust
    /\ read[x] >= MaxMessages
    /\ at' = [at EXCEPT ![x] = "failed"]
    /\ UNCHANGED <<inbox, theirs, todo, batch, read>> /\ Quiet

\* One event of the message, in order; the next waits for its put (the Rust
\* peer puts the whole message under one lock, which allows less).
PutRead(x) ==
    LET b == batch[x]
    IN  /\ b # None
        /\ PutEvent(Self(x), b.author, b.from)
        /\ batch' = [batch EXCEPT ![x] =
                        IF b.from = b.to THEN None
                        ELSE Span(b.author, b.from + 1, b.to)]
        /\ UNCHANGED <<at, inbox, theirs, todo, read, cut, cuts, crashes, rust>>

-----------------------------------------------------------------------------
(* Streams that die, peers that stop *)

\* The connection goes, or the session's timeout aborts it.
Cut(c) ==
    /\ cuts < MaxCuts /\ ~cut[c]
    /\ ~(at[<<c, "dialer">>] \in Over /\ at[<<c, "responder">>] \in Over)
    /\ cuts' = cuts + 1
    /\ cut' = [cut EXCEPT ![c] = TRUE]
    /\ inbox' = [x \in End |-> IF x[1] = c THEN <<>> ELSE inbox[x]]
    /\ UNCHANGED <<replicaVars, at, theirs, todo, batch, read, crashes, rust>>

\* The next read or write of an end whose stream is dead, or closed, throws.
Broken(x) ==
    \/ cut[x[1]]
    \/ /\ at[Far(x)] \in {"done", "failed"}
       /\ at[x] = "writing" \/ inbox[x] = <<>>

Fail(x) ==
    /\ at[x] \notin Over /\ batch[x] = None
    /\ Broken(x)
    /\ at' = [at EXCEPT ![x] = "failed"]
    /\ todo' = [todo EXCEPT ![x] = <<>>]
    /\ UNCHANGED <<inbox, theirs, batch, read>> /\ Quiet

\* What a stop takes with it: the buffer, and every session of p.
Stop(p) ==
    /\ crashes < MaxCrashes
    /\ crashes' = crashes + 1
    /\ held' = [held EXCEPT ![p] = {}]
    /\ cut' = [c \in Call |-> cut[c] \/ p \in {c[1], c[2]}]
    /\ at' = [x \in End |-> IF Self(x) = p THEN "idle" ELSE at[x]]
    /\ batch' = [x \in End |-> IF Self(x) = p THEN None ELSE batch[x]]
    /\ todo' = [x \in End |-> IF Self(x) = p THEN <<>> ELSE todo[x]]
    /\ theirs' = [x \in End |-> IF Self(x) = p THEN Nothing ELSE theirs[x]]
    /\ read' = [x \in End |-> IF Self(x) = p THEN 0 ELSE read[x]]
    /\ inbox' = [x \in End |-> IF p \in {x[1][1], x[1][2]} THEN <<>> ELSE inbox[x]]
    /\ UNCHANGED <<cuts, rust>>

(***************************************************************************)
(* p starts again with what its file gives back: of the logs it copies,    *)
(* the last events may be gone, those it acknowledged included (FileStore: *)
(* AckedDurable).  Its own log is whole: an author that goes on from an    *)
(* event it lost signs another one at its position, and lengths do not     *)
(* tell the two apart.                                                     *)
(***************************************************************************)
Crash(p) ==
    /\ Stop(p)
    /\ \E left \in [Author -> 0..MaxLen] :
          /\ \A a \in Author : /\ left[a] <= have[p][a]
                               /\ Home[a] = p => left[a] = have[p][a]
          /\ have' = [have EXCEPT ![p] = left]

-----------------------------------------------------------------------------

Init ==
    /\ have = [p \in Peer |-> Nothing]
    /\ held = [p \in Peer |-> {}]
    /\ at = [x \in End |-> "idle"]
    /\ inbox = [x \in End |-> <<>>]
    /\ theirs = [x \in End |-> Nothing]
    /\ todo = [x \in End |-> <<>>]
    /\ batch = [x \in End |-> None]
    /\ read = [x \in End |-> 0]
    /\ cut = [c \in Call |-> FALSE]
    /\ cuts = 0 /\ crashes = 0
    /\ rust \in RustChoices

Step(x) ==
    \/ Greet(x) \/ Greeted(x)
    \/ SendEvents(x) \/ SendEnd(x)
    \/ ReadEvents(x) \/ StopReading(x) \/ RustGivesUp(x) \/ ReadEnd(x)
    \/ PutRead(x)
    \/ Fail(x)

Next ==
    \/ \E a \in Author : Write(a)
    \/ \E p \in Peer, a \in Author, s \in 1..MaxLen : Gossip(p, a, s)
    \/ \E c \in Call : Dial(c)
    \/ \E x \in End : Step(x)
    \/ \E c \in Call : Cut(c)
    \/ \E p \in Peer : Crash(p)

Spec == Init /\ [][Next]_vars

\* syncAll runs every 30 seconds; both ends keep running their halves.
FairSpec ==
    /\ Spec
    /\ \A c \in Call : WF_vars(Dial(c))
    /\ \A x \in End : WF_vars(Step(x))

-----------------------------------------------------------------------------
(* Properties *)

\* The range of every variable.
TypeOK ==
    /\ have \in [Peer -> Vector]
    /\ held \in [Peer -> SUBSET (Author \X Nat)]
    /\ at \in [End -> Over \cup {"greeting", "writing", "reading"}]
    /\ inbox \in [End -> Seq(Message)]
    /\ theirs \in [End -> Vector]
    /\ todo \in [End -> Seq(Spans)]
    /\ batch \in [End -> Spans \cup {None}]
    /\ read \in [End -> Nat]
    /\ cut \in [Call -> BOOLEAN]
    /\ cuts \in 0..MaxCuts /\ crashes \in 0..MaxCrashes
    /\ rust \subseteq Peer

(***************************************************************************)
(* The diff is exact (sync.js:4-8): whatever gossip, other sessions and    *)
(* crashes do between the two vectors and the events, no event of a        *)
(* session ever arrives ahead of its predecessor.                          *)
(***************************************************************************)
SyncInOrder ==
    \A x \in End : batch[x] # None =>
        batch[x].from <= have[Self(x)][batch[x].author] + 1

Covers(x) == \A a \in Author : have[Self(x)][a] >= theirs[x][a]

(***************************************************************************)
(* A session that ran to its end brought each side up to everything the    *)
(* other announced, and the responder already before it writes - unless    *)
(* the message limit cut the reading short.                                *)
(***************************************************************************)
SessionsComplete ==
    \A c \in Call :
        LET d == <<c, "dialer">>
            r == <<c, "responder">>
        IN  /\ at[d] = "done" /\ read[d] <= MaxMessages => Covers(d)
            /\ at[r] \in {"writing", "done"} /\ read[r] <= MaxMessages => Covers(r)

Waiting(x) == at[x] = "writing" /\ Len(inbox[Far(x)]) >= Window

Stuck(c) == ~cut[c] /\ \A x \in {c} \X Role : Waiting(x)

(***************************************************************************)
(* Strict turns: both ends wait for room in full streams, which nobody     *)
(* then reads, only if one of them gave up reading at the message limit -  *)
(* a JavaScript peer: a Rust one ends the session there.                   *)
(***************************************************************************)
TurnsNeverBlock ==
    \A c \in Call : Stuck(c) =>
        \E x \in {c} \X Role : Self(x) \notin rust /\ read[x] > MaxMessages

(***************************************************************************)
(* No replica is ahead of the author it copies, and what it buffers is     *)
(* beyond a gap.                                                           *)
(***************************************************************************)
CopiesOfHome ==
    \A p \in Peer, a \in Author :
        /\ have[p][a] <= have[Home[a]][a]
        /\ \A h \in held[p] : h[1] = a => /\ h[2] > have[p][a] + 1
                                          /\ h[2] <= have[Home[a]][a]

(***************************************************************************)
(* Store and forward (network.js:322-331): what an author posts reaches    *)
(* every peer, through peers in the middle, whatever gossip loses, while   *)
(* sessions are cut and peers restart - and again, if a restart lost it.   *)
(***************************************************************************)
Converges ==
    \A q \in Peer, a \in Author, n \in 1..MaxLen :
        have[Home[a]][a] >= n ~> have[q][a] >= n

-----------------------------------------------------------------------------
(* A claim that does not hold *)

\* sync.js:12: "strictly turn-taking, which makes it impossible to deadlock".
ImpossibleToDeadlock == \A c \in Call : ~Stuck(c)
=============================================================================
