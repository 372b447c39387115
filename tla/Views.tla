------------------------------- MODULE Views -------------------------------
(***************************************************************************)
(* What the user is shown: the indexes S2SStore keeps as events are        *)
(* applied (#apply, packages/core/src/store.js) and the queries over them  *)
(* (timeline.js, s2s.js).                                                  *)
(*                                                                         *)
(* Store shows that each author's events are applied in order of seq.      *)
(* Events of different authors are applied in any order: gossip, sync and  *)
(* a restart, which reads author by author, all give another one.          *)
(***************************************************************************)
EXTENDS Naturals, Sequences, FiniteSets, Functions, Moderation

SX == INSTANCE SequencesExt

CONSTANTS
    AuthorOf, SeqOf,
    Body,       \* event -> kind, target, root, board, ts, value, media
    IdOrder,    \* event -> place of its id among all ids
    Viewer,     \* the local user
    Limit,      \* items in a feed (200)
    MediaLimit, \* items media looks through (1000)
    SearchLimit,    \* items search finds (100)
    Query       \* what may be searched for: the events whose text has it

ASSUME ViewsAssumption ==
    /\ Viewer \in Author /\ {Limit, MediaLimit, SearchLimit} \subseteq Nat \ {0}
    /\ AuthorOf \in [Event -> Author] /\ SeqOf \in [Event -> Nat \ {0}]
    \* validateShape checks ts; ids are hashes: they differ, and name no event inside itself
    /\ \A e \in Event : Body[e].ts \in Nat /\ Body[e].target # e
    /\ IdOrder \in [Event -> Nat] /\ IsInjective(IdOrder)

VARIABLES
    events,             \* those applied
    deleted, tombstonePending,
    posts,              \* post-like events by timestamp
    boards, replies,    \* threads, replies by root, in order of arrival
    likes,              \* <<target, author, value>>
    follows, followers, \* <<who, whom>>, and the other way round
    blocks,             \* <<who, whom>>
    profiles            \* the profile event shown for an author

socialVars == <<likes, follows, followers, blocks, profiles>>
listVars == <<posts, boards, replies>>
logVars == <<events, deleted, tombstonePending, listVars, socialVars>>
vars == <<logVars, deviceVars>>

Kind(e) == Body[e].kind
Target(e) == Body[e].target
Ts(e) == Body[e].ts
IsPostish(e) == Kind(e) \in {"post", "repost", "thread"}

-----------------------------------------------------------------------------
(* #apply *)

\* #insertPost: behind the posts that are not newer.
InsertPost(e) ==
    SX!InsertAt(posts, Cardinality({i \in DOMAIN posts : Ts(posts[i]) <= Ts(e)}) + 1, e)

Index(e) ==
    /\ posts' = IF IsPostish(e) THEN InsertPost(e) ELSE posts
    /\ boards' = IF Kind(e) = "thread" THEN Append(boards, e) ELSE boards
    /\ replies' = IF Kind(e) = "reply" THEN Append(replies, e) ELSE replies

\* A pair is in the set, or out of it, by the last event about it.
SetUnless(S, pair, e, yes, no) ==
    (S \cup {p \in {pair} : Kind(e) = yes}) \ {p \in {pair} : Kind(e) = no}

LikeOnce(e) ==
    likes \cup {l \in {<<Target(e), AuthorOf[e], Body[e].value>>} : Kind(e) = "like"}

Like(e) ==
    {l \in likes : ~(Kind(e) = "like" /\ l[1] = Target(e) /\ l[2] = AuthorOf[e])}
        \cup {l \in {<<Target(e), AuthorOf[e], Body[e].value>>} : Kind(e) = "like"}

Relate(e) ==
    LET a == AuthorOf[e]
        t == Target(e)
    IN  /\ likes' = Like(e)
        /\ follows' = SetUnless(follows, <<a, t>>, e, "follow", "unfollow")
        /\ followers' = SetUnless(followers, <<t, a>>, e, "follow", "unfollow")
        /\ blocks' = SetUnless(blocks, <<a, t>>, e, "block", "unblock")
        /\ profiles' = {p \in profiles : ~(Kind(e) = "profile" /\ AuthorOf[p] = a)}
                           \cup {p \in {e} : Kind(e) = "profile"}

Tombstone(e) ==
    LET a == AuthorOf[e]
        named == {t \in {Target(e)} : Kind(e) = "delete"}
    IN  /\ deleted' = deleted \cup {t \in events \cap named : AuthorOf[t] = a}
                          \cup {t \in {e} : <<e, a>> \in tombstonePending}
        /\ tombstonePending' = {w \in tombstonePending : w[1] # e}
                                   \cup {<<t, a>> : t \in named \ (events \cup {e})}

Apply(e) ==
    /\ e \notin events
    /\ Cardinality({f \in events : AuthorOf[f] = AuthorOf[e]}) + 1 = SeqOf[e]
    /\ events' = events \cup {e}
    /\ Index(e) /\ Relate(e) /\ Tombstone(e)
    /\ UNCHANGED deviceVars

MyLike(t) == {l[3] : l \in {k \in likes : k[1] = t /\ k[2] = Viewer}}

\* Of the local user's own events: like never repeats the vote that stands, remove refuses
\* the events of others.
Allowed(e) ==
    /\ Kind(e) = "like" => Body[e].value \notin MyLike(Target(e))
    /\ Kind(e) = "delete" /\ Target(e) \in events => AuthorOf[Target(e)] = Viewer

\* runAction; deleting all of one's own is many of them.
Act(e) == AuthorOf[e] = Viewer /\ Allowed(e) /\ Apply(e)

Arrive(e) == AuthorOf[e] # Viewer /\ Apply(e)

Init ==
    /\ events = {} /\ deleted = {} /\ tombstonePending = {}
    /\ posts = <<>> /\ boards = <<>> /\ replies = <<>>
    /\ likes = {} /\ follows = {} /\ followers = {} /\ blocks = {} /\ profiles = {}
    /\ DeviceInit

Next ==
    \/ \E e \in Event : Act(e) \/ Arrive(e)
    \/ DeviceNext /\ UNCHANGED logVars

Spec == Init /\ [][Next]_vars

-----------------------------------------------------------------------------
(* The queries of timeline.js *)

Hidden(a) ==
    <<Viewer, a>> \in blocks \/ (a # Viewer /\ a \in filter)

Visible(e) ==
    e \in events /\ e \notin deleted /\ e \notin filter /\ ~Hidden(AuthorOf[e])

\* What a card shows: of a repost, the event it points at.
Subject(e) == IF Kind(e) = "repost" THEN Target(e) ELSE e

HydrateAnything(e) == TRUE

\* There is a card for e, unless it is a repost of what may not be shown.
Hydrate(e) == Kind(e) # "repost" \/ Visible(Target(e))

(***************************************************************************)
(* A feed is the set of its places in posts: it is listed from the end.    *)
(* Newest are the n of P it comes to first.                                *)
(***************************************************************************)
Newest(P, n) == {i \in P : Cardinality({j \in P : j > i}) < n}

\* The newest n visible posts of S; then those that give no card drop out.
Feed(S, n) ==
    {i \in Newest({j \in DOMAIN posts : posts[j] \in S /\ Visible(posts[j])}, n) :
        Hydrate(posts[i])}

By(A) == {e \in Event : AuthorOf[e] \in A}
Circle == By({Viewer} \cup {a \in Author : <<Viewer, a>> \in follows})
Global(n) == Feed(Event, n)
Home(n) == Feed(Circle, n)
ByAuthor(a) == Feed(By({a}), Limit)

\* media: the cards with a picture, of a longer feed
Media(feed) == Newest({i \in feed : Body[Subject(posts[i])].media}, Limit)

\* search: as a feed, over the posts that match
Search(q) == Feed(q, SearchLimit)

\* The events some screen has a card for (buildSnapshot).
Shown ==
    {posts[i] : i \in UNION ({Global(Limit), Home(Limit), Media(Global(MediaLimit)),
                              Media(Home(MediaLimit))}
                                 \cup {ByAuthor(a) : a \in Author} \cup {Search(q) : q \in Query})}

Arrived(r) == SelectSeq(replies, LAMBDA e : Body[e].root = r /\ Visible(e))

RepliesTo(r) == {e \in Range(replies) : Body[e].root = r /\ Visible(e)}

\* Replies by claimed time, ids breaking ties: the numbers >>2, >>3 ...
Before(e, f) == Ts(e) < Ts(f) \/ (Ts(e) = Ts(f) /\ IdOrder[e] < IdOrder[f])
Ahead(R, e) == {f \in R : Before(f, e)}
Sorted(R) ==
    [k \in 1..Cardinality(R) |-> CHOOSE e \in R : Cardinality(Ahead(R, e)) = k - 1]

ThreadAsArrived(r) == IF Visible(r) THEN Arrived(r) ELSE <<>>

Thread(r) == IF Visible(r) THEN Sorted(RepliesTo(r)) ELSE <<>>

\* board and boards: the threads of a board, and when each was last active
Threads(b) == SelectSeq(boards, LAMBDA e : Body[e].board = b /\ Visible(e))

LastTs(e) ==
    LET q == Arrived(e) IN IF q = <<>> THEN Ts(e) ELSE Ts(q[Len(q)])

LastActivity(b) ==
    LET live == Range(Threads(b))
        all == live \cup {e \in Range(replies) : Body[e].root \in live}
    IN  CHOOSE t \in {Ts(e) : e \in all} : \A e \in all : Ts(e) <= t

\* people: everyone known and not hidden, the user first.
People == {a \in Author : a = Viewer \/ (By({a}) \cap events # {} /\ ~Hidden(a))}

Mine(t) == t \in events /\ AuthorOf[t] = Viewer

Notifications ==
    {e \in events : AuthorOf[e] # Viewer /\ ~Hidden(AuthorOf[e]) /\
        \/ Kind(e) = "reply" /\ (Mine(Target(e)) \/ Mine(Body[e].root))
        \/ Kind(e) \in {"like", "repost"} /\ Mine(Target(e))
        \/ Kind(e) = "follow" /\ Target(e) = Viewer}

-----------------------------------------------------------------------------
(* Properties *)

\* What the lists hold are events that were applied; the hide lists are the device's.
TypeOK ==
    /\ events \subseteq Event /\ IsFiniteSet(events)
    /\ {posts, boards, replies} \subseteq Seq(events)
    /\ deleted \subseteq events /\ profiles \subseteq events
    /\ DeviceTypeOK

\* The last event of an author that passes a test.
LastOf(a, S) ==
    {e \in S \cap events : AuthorOf[e] = a /\
        \A f \in S \cap events : AuthorOf[f] = a => SeqOf[f] <= SeqOf[e]}

About(kinds, t) == {e \in Event : Kind(e) \in kinds /\ Target(e) = t}

\* The pairs about which an author's last word is yes.
Standing(yes, no) ==
    {<<AuthorOf[e], Target(e)>> : e \in
        {f \in events : Kind(f) = yes /\ f \in LastOf(AuthorOf[f], About({yes, no}, Target(f)))}}

\* Its author has taken t back.
TakenBack(t) ==
    \E d \in events : Kind(d) = "delete" /\ Target(d) = t /\ AuthorOf[d] = AuthorOf[t]

(***************************************************************************)
(* The indexes are functions of the set of events: a vote, a follow, a     *)
(* block and a profile is the author's last one by seq, whatever their     *)
(* times, and a deletion its author's, whatever order authors were heard   *)
(* in - so a restart, which reads them in another order, shows the same    *)
(* (store.js:167-231).                                                     *)
(***************************************************************************)
IndexesFollowTheLogs ==
    /\ Range(posts) = {e \in events : IsPostish(e)}
    /\ Range(boards) = {e \in events : Kind(e) = "thread"}
    /\ Range(replies) = {e \in events : Kind(e) = "reply"}
    /\ likes = {<<Target(e), AuthorOf[e], Body[e].value>> : e \in
                   {f \in events : Kind(f) = "like" /\
                        f \in LastOf(AuthorOf[f], About({"like"}, Target(f)))}}
    /\ follows = Standing("follow", "unfollow")
    /\ followers = {<<p[2], p[1]>> : p \in follows}
    /\ blocks = Standing("block", "unblock")
    /\ profiles = UNION {LastOf(a, {e \in Event : Kind(e) = "profile"}) : a \in Author}
    /\ deleted = {t \in events : TakenBack(t)}

\* By the logs and by what is wanted hidden on this device, e may be shown.
MayBeShown(e) ==
    /\ e \in events \ WantedHidden /\ ~TakenBack(e)
    /\ \A f \in LastOf(Viewer, About({"block", "unblock"}, AuthorOf[e])) : Kind(f) = "unblock"
    /\ AuthorOf[e] = Viewer \/ AuthorOf[e] \notin WantedHidden

(***************************************************************************)
(* No feed, thread or list shows, directly or through a repost, an event   *)
(* its author has taken back, one hidden on this device, or one of a       *)
(* person the user hides, whichever of the deletion or block and the event *)
(* arrives first; and whoever is seen or heard of is among the people      *)
(* (timeline.js:25-46, 201-233).                                           *)
(***************************************************************************)
NothingHiddenShown ==
    /\ \A e \in Shown :
           /\ MayBeShown(e) /\ MayBeShown(Subject(e))
           /\ {AuthorOf[e], AuthorOf[Subject(e)]} \subseteq People
    /\ \A e \in Notifications : AuthorOf[e] \in People
    /\ \A r \in events : \A i \in DOMAIN Thread(r) :
           MayBeShown(r) /\ MayBeShown(Thread(r)[i])

(***************************************************************************)
(* Two replicas with the same events number a thread alike, by claimed     *)
(* time and not as the replies came (timeline.js:146-157), and list the    *)
(* posts by time.                                                          *)
(***************************************************************************)
SameOrderEverywhere ==
    /\ \A i \in 1..(Len(posts) - 1) : Ts(posts[i]) <= Ts(posts[i + 1])
    /\ \A r \in events : Visible(r) =>
           \A i \in DOMAIN Thread(r) : i = 1 +
               Cardinality({e \in events : /\ Kind(e) = "reply" /\ Body[e].root = r
                                           /\ Visible(e) /\ Before(e, Thread(r)[i])})

-----------------------------------------------------------------------------
(* Claims that do not hold *)

\* docs/LIMITS.md:125: of two profiles of an author the one with the newer ts
\* is taken.
ProfileByTime ==
    \A e \in events, p \in profiles :
        Kind(e) = "profile" /\ AuthorOf[e] = AuthorOf[p] => Ts(e) <= Ts(p)

\* timeline.js:9-10: the replies of a thread are "numbered in arrival order".
NumberedAsArrived ==
    \A r \in Range(boards) : Visible(r) => Thread(r) = Arrived(r)


(***************************************************************************)
(* "Threads on one board, most recently active first" (timeline.js:124):   *)
(* the time a board with one thread sorts it by is the board's own last    *)
(* activity, as the list of boards computes it (timeline.js:114-117).      *)
(***************************************************************************)
BoardByActivity ==
    \A e \in Range(boards) :
        Visible(e) /\ Threads(Body[e].board) = <<e>> /\ Arrived(e) =
                SelectSeq(replies, LAMBDA f : Body[f].root = e)
            => LastTs(e) = LastActivity(Body[e].board)
=============================================================================
