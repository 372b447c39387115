------------------------- MODULE ReplicationProofs --------------------------
(***************************************************************************)
(* Theorems about Replication, for any peers, calls, finite set of         *)
(* authors, batch size, message limit, window and bounds: the turns of a   *)
(* session first; then what sync sessions bring: that replicas are copies  *)
(* of their authors' logs, that events come in order, and that a session   *)
(* which ran to its end brought all that was announced.                    *)
(***************************************************************************)
EXTENDS Replication, FiniteSetTheorems, SequenceTheorems, WellFoundedInduction, TLAPS

\* Buffers are finite, so that a drain comes to an end.
Typed == TypeOK /\ \A p \in Peer : IsFiniteSet(held[p])

-----------------------------------------------------------------------------
(* Ends, messages and ranges *)

LEMMA EndFacts ==
    ASSUME NEW x \in End
    PROVE  /\ Self(x) \in Peer /\ x[1] \in Call /\ x[2] \in Role
           /\ Far(x) \in End /\ Far(x) # x /\ Far(Far(x)) = x /\ Far(x)[1] = x[1]
           /\ \A y \in End : y[1] = x[1] => y = x \/ y = Far(x)
BY ReplicationAssumption DEF End, Role, Self, Far

LEMMA CallFacts ==
    ASSUME NEW c \in Call
    PROVE  LET d == <<c, "dialer">>
               r == <<c, "responder">>
           IN  /\ d \in End /\ r \in End /\ Far(d) = r /\ Far(r) = d
               /\ Self(d) = c[1] /\ Self(r) = c[2] /\ c[1] \in Peer /\ c[2] \in Peer
BY ReplicationAssumption DEF End, Role, Self, Far

LEMMA MessageFacts ==
    ASSUME NEW m \in Message
    PROVE  /\ m.type = "have" => m.vector \in Vector
           /\ m.type = "events" => m.range \in Spans
           /\ m.type \in {"have", "events", "end"}
BY DEF Message

LEMMA MessagesMade ==
    /\ \A v \in Vector : Have(v) \in Message
    /\ \A r \in Spans : Events(r) \in Message
    /\ EndOfEvents \in Message
    /\ Nothing \in Vector
BY DEF Message, Have, Events, EndOfEvents, Nothing, Vector

LEMMA SpanFacts ==
    /\ \A a \in Author, from \in Nat, to \in Nat :
           1 <= from /\ from <= to => Span(a, from, to) \in Spans
    /\ \A r \in Spans : /\ r.author \in Author /\ r.from \in Nat /\ r.to \in Nat
                        /\ 1 <= r.from /\ r.from <= r.to
BY DEF Span, Spans

LEMMA DiffFacts ==
    ASSUME NEW mine \in Vector, NEW other \in Vector
    PROVE  Diff(mine, other) \subseteq Spans /\ IsFiniteSet(Diff(mine, other))
<1> DEFINE A == {b \in Author : mine[b] > other[b]}
           f == [a \in A |-> Span(a, other[a] + 1, mine[a])]
<1>1. Diff(mine, other) \subseteq Spans
  <2>1. ASSUME NEW a \in A PROVE Span(a, other[a] + 1, mine[a]) \in Spans
    <3>1. mine[a] \in Nat /\ other[a] \in Nat /\ mine[a] > other[a]
      BY DEF Vector
    <3>2. QED
      BY <3>1, SpanFacts
  <2>2. QED
    BY <2>1 DEF Diff
<1>2. IsFiniteSet(A)
  BY ReplicationAssumption, FS_Subset
<1>3. f \in Surjection(A, Diff(mine, other))
  BY DEF Surjection, Diff
<1>4. QED
  BY <1>1, <1>2, <1>3, FS_Surjection

LEMMA StartWritingTypes ==
    ASSUME Typed, NEW x \in End, NEW other \in Vector, StartWriting(x, other)
    PROVE  /\ \E s \in Seq(Spans) :
                  /\ todo' = [todo EXCEPT ![x] = s]
                  /\ \A i \in DOMAIN s : s[i] \in Diff(have[Self(x)], other)
           /\ todo' \in [End -> Seq(Spans)]
<1> DEFINE D == Diff(have[Self(x)], other)
<1>1. D \subseteq Spans /\ IsFiniteSet(D)
  BY DiffFacts, EndFacts DEF Typed, TypeOK
<1>2. Cardinality(D) \in Nat
  BY <1>1, FS_CardinalityType
<1>3. PICK s \in SetToSeqs(D) : todo' = [todo EXCEPT ![x] = s]
  BY DEF StartWriting
<1>4. s \in [1..Cardinality(D) -> D]
  BY <1>3 DEF SetToSeqs
<1>5. s \in Seq(D) /\ DOMAIN s = 1..Cardinality(D)
  BY <1>2, <1>4, SeqDef
<1>6. s \in Seq(Spans) /\ \A i \in DOMAIN s : s[i] \in D
  BY <1>1, <1>4, <1>5, SeqMonotonic
<1>7. QED
  BY <1>3, <1>6 DEF Typed, TypeOK

-----------------------------------------------------------------------------
(* Puts *)

LEMMA LeastNumber ==
    ASSUME NEW T, T \subseteq Nat, T # {}
    PROVE  \E x \in T : \A y \in T : x <= y
<1> DEFINE R == OpToRel(<, Nat)
<1>1. IsWellFoundedOn(R, Nat)
  BY NatLessThanWellFounded
<1> HIDE DEF R
<1>2. \E x \in T : \A y \in T : ~(<<y, x>> \in R)
  BY <1>1, WFMin
<1>3. \A x, y \in Nat : x < y => <<x, y>> \in R
  BY DEF R, OpToRel
<1>4. PICK x \in T : \A y \in T : ~(<<y, x>> \in R)
  BY <1>2
<1>5. ASSUME NEW y \in T PROVE x <= y
  <2>1. x \in Nat /\ y \in Nat
    OBVIOUS
  <2>2. ~(y < x)
    BY <1>3, <1>4, <2>1
  <2>3. QED
    BY <2>1, <2>2
<1>6. QED
  BY <1>5

\* The drain ends where the next event is missing: the choice in Reach exists.
LEMMA ReachFacts ==
    ASSUME NEW p, NEW a, NEW s \in Nat, IsFiniteSet(held[p])
    PROVE  /\ Reach(p, a, s) \in Nat /\ Reach(p, a, s) >= s
           /\ \A k \in (s + 1)..Reach(p, a, s) : <<a, k>> \in held[p]
           /\ <<a, Reach(p, a, s) + 1>> \notin held[p]
<1> DEFINE c == Cardinality(held[p])
           T == {n \in s..(s + c) : <<a, n + 1>> \notin held[p]}
           f == [k \in 1..(c + 1) |-> <<a, s + k>>]
<1>1. c \in Nat
  BY FS_CardinalityType
<1> HIDE DEF c
<1>2. T # {}
  <2>1. SUFFICES ASSUME T = {} PROVE FALSE
    OBVIOUS
  <2>2. ASSUME NEW k \in 1..(c + 1) PROVE f[k] \in held[p]
    <3>1. s + k - 1 \in s..(s + c) /\ (s + k - 1) + 1 = s + k
      BY <1>1
    <3>2. <<a, (s + k - 1) + 1>> \in held[p]
      BY <2>1, <3>1
    <3>3. QED
      BY <3>1, <3>2
  <2>3. \A j, k \in 1..(c + 1) : f[j] = f[k] => j = k
    BY <1>1
  <2>4. f \in Injection(1..(c + 1), held[p])
    BY <2>2, <2>3 DEF Injection, IsInjective
  <2>5. Cardinality(1..(c + 1)) = c + 1
    BY <1>1, FS_Interval
  <2>6. c + 1 <= c
    BY <2>4, <2>5, FS_Injection DEF c
  <2>7. QED
    BY <1>1, <2>6
<1>3. T \subseteq Nat
  BY <1>1
<1>4. PICK n \in T : \A m \in T : n <= m
  BY <1>2, <1>3, LeastNumber
<1>5. ASSUME NEW k \in (s + 1)..n PROVE <<a, k>> \in held[p]
  <2>1. n \in s..(s + c) /\ k - 1 \in s..(s + c) /\ ~(n <= k - 1) /\ (k - 1) + 1 = k
    BY <1>1, <1>3
  <2>2. k - 1 \notin T
    BY <1>4, <2>1
  <2>3. QED
    BY <2>1, <2>2
<1>6. /\ n \in s..(s + c) /\ \A k \in (s + 1)..n : <<a, k>> \in held[p]
      /\ <<a, n + 1>> \notin held[p]
  BY <1>5
<1>7. /\ Reach(p, a, s) \in s..(s + c)
      /\ \A k \in (s + 1)..Reach(p, a, s) : <<a, k>> \in held[p]
      /\ <<a, Reach(p, a, s) + 1>> \notin held[p]
  BY <1>6 DEF Reach, c
<1>8. QED
  BY <1>1, <1>7

ReplicaTyped ==
    /\ have \in [Peer -> Vector]
    /\ held \in [Peer -> SUBSET (Author \X Nat)]
    /\ \A p \in Peer : IsFiniteSet(held[p])

LEMMA PutTypes ==
    ASSUME ReplicaTyped, NEW p \in Peer, NEW a \in Author, NEW s \in Nat, PutEvent(p, a, s)
    PROVE  ReplicaTyped'
<1>1. have[p] \in Vector /\ IsFiniteSet(held[p])
  BY DEF ReplicaTyped
<1>2. CASE PutNextInLog(p, a, s)
  <2>1. Reach(p, a, s) \in Nat
    BY <1>1, ReachFacts
  <2>2. have' \in [Peer -> Vector]
    BY <1>2, <2>1 DEF ReplicaTyped, PutNextInLog, Vector
  <2>3. /\ held' \in [Peer -> SUBSET (Author \X Nat)]
        /\ \A q \in Peer : held'[q] \subseteq held[q]
    BY <1>2 DEF ReplicaTyped, PutNextInLog
  <2>4. \A q \in Peer : IsFiniteSet(held'[q])
    BY <2>3, FS_Subset DEF ReplicaTyped
  <2>5. QED
    BY <2>2, <2>3, <2>4 DEF ReplicaTyped
<1>3. CASE PutEarly(p, a, s)
  <2>1. IsFiniteSet(held[p] \cup {<<a, s>>})
    BY <1>1, FS_AddElement
  <2>2. QED
    BY <1>3, <2>1 DEF ReplicaTyped, PutEarly
<1>4. CASE PutDuplicate(p, a, s)
  BY <1>4 DEF ReplicaTyped, PutDuplicate, replicaVars
<1>5. QED
  BY <1>2, <1>3, <1>4 DEF PutEvent

\* A put moves a head forward only, and past the event when it was not early.
LEMMA PutGrows ==
    ASSUME ReplicaTyped, NEW p \in Peer, NEW a \in Author, NEW s \in Nat, PutEvent(p, a, s)
    PROVE  /\ \A q \in Peer, b \in Author : have'[q][b] >= have[q][b]
           /\ s <= have[p][a] + 1 => have'[p][a] >= s
<1>1. have[p] \in Vector /\ IsFiniteSet(held[p])
  BY DEF ReplicaTyped
<1>2. CASE PutNextInLog(p, a, s)
  <2>1. Reach(p, a, s) \in Nat /\ Reach(p, a, s) >= s
    BY <1>1, ReachFacts
  <2>2. QED
    BY <1>2, <2>1 DEF ReplicaTyped, PutNextInLog, Vector
<1>3. CASE PutEarly(p, a, s) \/ PutDuplicate(p, a, s)
  BY <1>3 DEF ReplicaTyped, PutEarly, PutDuplicate, replicaVars, Vector
<1>4. QED
  BY <1>2, <1>3 DEF PutEvent

\* What is in the log of its author when it is put leaves no replica ahead.
LEMMA PutCopies ==
    ASSUME ReplicaTyped, CopiesOfHome,
           NEW p \in Peer, NEW a \in Author, NEW s \in Nat, PutEvent(p, a, s),
           s <= have[Home[a]][a]
    PROVE  CopiesOfHome'
<1>1. have[p] \in Vector /\ IsFiniteSet(held[p]) /\ held[p] \subseteq Author \X Nat
  BY DEF ReplicaTyped
<1>2. CASE PutNextInLog(p, a, s)
  <2> DEFINE n == Reach(p, a, s)
  <2>1. /\ n \in Nat /\ n >= s
        /\ \A k \in (s + 1)..n : <<a, k>> \in held[p]
        /\ <<a, n + 1>> \notin held[p]
    BY <1>1, ReachFacts
  <2> HIDE DEF n
  <2>2. n <= have[Home[a]][a]
    <3>1. CASE n = s
      BY <3>1
    <3>2. CASE n # s
      <4>1. <<a, n>> \in held[p]
        BY <2>1, <3>2
      <4>2. QED
        BY <4>1 DEF CopiesOfHome
    <3>3. QED
      BY <3>1, <3>2
  <2>3. p # Home[a]
    BY <1>1, <1>2 DEF PutNextInLog, Vector
  <2>4. /\ have' = [have EXCEPT ![p][a] = n]
        /\ held' = [held EXCEPT ![p] = {h \in @ : h[1] # a \/ h[2] > n}]
    BY <1>2 DEF PutNextInLog, n
  <2>5. ASSUME NEW q \in Peer, NEW b \in Author
        PROVE  /\ have'[q][b] <= have'[Home[b]][b]
               /\ \A h \in held'[q] : h[1] = b => /\ h[2] > have'[q][b] + 1
                                                  /\ h[2] <= have'[Home[b]][b]
    <3>1. Home[b] \in Peer /\ have'[Home[b]][b] = have[Home[b]][b]
      BY <2>3, <2>4, ReplicationAssumption DEF ReplicaTyped, Vector
    <3>2. CASE q = p /\ b = a
      <4>1. have'[q][b] = n
        BY <1>1, <2>4, <3>2 DEF ReplicaTyped, Vector
      <4>2. ASSUME NEW h \in held'[q], h[1] = b PROVE h[2] > n + 1 /\ h[2] <= have[Home[b]][b]
        <5>1. h \in held[p] /\ h[2] > n /\ h = <<a, h[2]>> /\ h[2] \in Nat
          BY <1>1, <2>4, <3>2, <4>2 DEF ReplicaTyped
        <5>2. h[2] # n + 1
          BY <2>1, <5>1
        <5>3. QED
          BY <2>1, <3>2, <5>1, <5>2 DEF CopiesOfHome
      <4>3. QED
        BY <2>2, <3>1, <3>2, <4>1, <4>2
    <3>3. CASE q = p /\ b # a
      <4>1. have'[q][b] = have[q][b] /\ held'[q] \subseteq held[q]
        BY <2>4, <3>3 DEF ReplicaTyped, Vector
      <4>2. QED
        BY <3>1, <4>1 DEF CopiesOfHome
    <3>4. CASE q # p
      <4>1. have'[q] = have[q] /\ held'[q] = held[q]
        BY <2>4, <3>4 DEF ReplicaTyped
      <4>2. QED
        BY <3>1, <4>1 DEF CopiesOfHome
    <3>5. QED
      BY <3>2, <3>3, <3>4
  <2>6. QED
    BY <2>5 DEF CopiesOfHome
<1>3. CASE PutEarly(p, a, s)
  <2>1. have' = have /\ s > have[p][a] + 1
    BY <1>3 DEF PutEarly
  <2>2. ASSUME NEW q \in Peer, NEW h \in held'[q]
        PROVE  h \in held[q] \/ (q = p /\ h = <<a, s>>)
    BY <1>3, <2>2 DEF PutEarly, ReplicaTyped
  <2>3. QED
    BY <2>1, <2>2 DEF CopiesOfHome
<1>4. CASE PutDuplicate(p, a, s)
  BY <1>4 DEF CopiesOfHome, PutDuplicate, replicaVars
<1>5. QED
  BY <1>2, <1>3, <1>4 DEF PutEvent

-----------------------------------------------------------------------------
(* Types *)

EndTyped ==
    /\ at \in [End -> Over \cup {"greeting", "writing", "reading"}]
    /\ inbox \in [End -> Seq(Message)]
    /\ theirs \in [End -> Vector]
    /\ todo \in [End -> Seq(Spans)]
    /\ batch \in [End -> Spans \cup {None}]
    /\ read \in [End -> Nat]

RestTyped ==
    /\ cut \in [Call -> BOOLEAN]
    /\ cuts \in 0..MaxCuts /\ crashes \in 0..MaxCrashes
    /\ rust \subseteq Peer

LEMMA TypedParts == Typed <=> ReplicaTyped /\ EndTyped /\ RestTyped
BY DEF Typed, TypeOK, ReplicaTyped, EndTyped, RestTyped

\* A message read is in Message, and so is all that stays in the inbox.
LEMMA HeadFacts ==
    ASSUME EndTyped, NEW x \in End, inbox[x] # <<>>
    PROVE  /\ Head(inbox[x]) \in Message
           /\ Head(inbox[x]) = inbox[x][1] /\ Len(inbox[x]) \in Nat /\ Len(inbox[x]) >= 1
           /\ Tail(inbox[x]) \in Seq(Message) /\ Len(Tail(inbox[x])) = Len(inbox[x]) - 1
           /\ \A i \in 1..(Len(inbox[x]) - 1) : Tail(inbox[x])[i] = inbox[x][i + 1]
<1>1. inbox[x] \in Seq(Message)
  BY DEF EndTyped
<1>2. QED
  BY <1>1, HeadTailProperties, EmptySeq

LEMMA SentFacts ==
    ASSUME EndTyped, NEW x \in End, NEW m \in Message
    PROVE  /\ Append(inbox[x], m) \in Seq(Message)
           /\ Len(Append(inbox[x], m)) = Len(inbox[x]) + 1 /\ Len(inbox[x]) \in Nat
           /\ \A i \in 1..Len(inbox[x]) : Append(inbox[x], m)[i] = inbox[x][i]
           /\ Append(inbox[x], m)[Len(inbox[x]) + 1] = m
<1>1. inbox[x] \in Seq(Message)
  BY DEF EndTyped
<1>2. QED
  BY <1>1, AppendProperties, LenProperties

LEMMA SendTypes ==
    ASSUME EndTyped, NEW x \in End, NEW m \in Message, Send(x, m)
    PROVE  inbox' \in [End -> Seq(Message)]
<1>1. Far(x) \in End
  BY EndFacts
<1>2. Append(inbox[Far(x)], m) \in Seq(Message)
  BY <1>1, SentFacts
<1>3. QED
  BY <1>1, <1>2 DEF EndTyped, Send

\* What is left to write after the first message of the first range.
LEMMA TodoFacts ==
    ASSUME EndTyped, NEW x \in End, todo[x] # <<>>
    PROVE  /\ Head(todo[x]) \in Spans /\ Head(todo[x]) = todo[x][1]
           /\ Tail(todo[x]) \in Seq(Spans)
           /\ Len(todo[x]) \in Nat /\ Len(todo[x]) >= 1
           /\ Len(Tail(todo[x])) = Len(todo[x]) - 1
           /\ \A i \in 1..(Len(todo[x]) - 1) : Tail(todo[x])[i] = todo[x][i + 1]
<1>1. todo[x] \in Seq(Spans)
  BY DEF EndTyped
<1>2. QED
  BY <1>1, HeadTailProperties, EmptySeq

LEMMA PushFacts ==
    ASSUME NEW S, NEW e \in S, NEW s \in Seq(S)
    PROVE  /\ <<e>> \o s \in Seq(S) /\ (<<e>> \o s)[1] = e
           /\ Len(s) \in Nat /\ Len(<<e>> \o s) = Len(s) + 1
           /\ \A i \in 1..Len(s) : (<<e>> \o s)[i + 1] = s[i]
<1>1. <<e>> \in Seq(S) /\ Len(<<e>>) = 1 /\ <<e>>[1] = e
  OBVIOUS
<1>2. Len(s) \in Nat
  BY LenProperties
<1>3. /\ <<e>> \o s \in Seq(S) /\ Len(<<e>> \o s) = 1 + Len(s)
      /\ \A i \in 1..(1 + Len(s)) : (<<e>> \o s)[i] = IF i <= 1 THEN <<e>>[i] ELSE s[i - 1]
  BY <1>1, ConcatProperties
<1>4. QED
  BY <1>1, <1>2, <1>3

\* A message ends at last; rest replaces its range and those after it.
Sent(x, r, last, rest) ==
    /\ r \in Spans /\ r = Head(todo[x]) /\ r = todo[x][1] /\ 1 \in DOMAIN todo[x]
    /\ last \in Nat /\ r.from <= last /\ last <= r.to
    /\ Span(r.author, r.from, last) \in Spans
    /\ Send(x, Events(Span(r.author, r.from, last)))
    /\ rest \in Seq(Spans)
    /\ todo' = [todo EXCEPT ![x] = rest]
    /\ \A i \in DOMAIN rest :
           \/ rest[i] = Span(r.author, last + 1, r.to) /\ last < r.to
           \/ \E j \in DOMAIN todo[x] : rest[i] = todo[x][j]
    /\ last < r.to => \E i \in DOMAIN rest : rest[i] = Span(r.author, last + 1, r.to)
    /\ \A j \in 2..Len(todo[x]) : \E i \in DOMAIN rest : rest[i] = todo[x][j]

LEMMA SendEventsFacts ==
    ASSUME EndTyped, NEW x \in End, SendEvents(x)
    PROVE  \E r, last, rest : Sent(x, r, last, rest)
<1> DEFINE r == Head(todo[x])
           last == IF r.from + Batch - 1 < r.to THEN r.from + Batch - 1 ELSE r.to
           tail == Tail(todo[x])
           more == Span(r.author, last + 1, r.to)
           rest == IF last = r.to THEN tail ELSE <<more>> \o tail
<1>1. todo[x] # <<>>
  BY DEF SendEvents
<1>2. /\ r \in Spans /\ tail \in Seq(Spans)
      /\ Len(todo[x]) \in Nat /\ Len(todo[x]) >= 1
      /\ Len(tail) = Len(todo[x]) - 1
      /\ \A i \in 1..(Len(todo[x]) - 1) : tail[i] = todo[x][i + 1]
  BY <1>1, TodoFacts
<1>3. /\ r.author \in Author /\ r.from \in Nat /\ r.to \in Nat
      /\ 1 <= r.from /\ r.from <= r.to
  BY <1>2, SpanFacts
<1>4. last \in Nat /\ r.from <= last /\ last <= r.to
  BY <1>3, ReplicationAssumption
<1>5. Send(x, Events(Span(r.author, r.from, last))) /\ todo' = [todo EXCEPT ![x] = rest]
  BY DEF SendEvents
<1>6. DOMAIN todo[x] = 1..Len(todo[x]) /\ DOMAIN tail = 1..Len(tail)
  BY <1>2, LenProperties DEF EndTyped
<1> HIDE DEF r, last, tail
<1>7. Span(r.author, r.from, last) \in Spans
  BY <1>3, <1>4, SpanFacts
<1>8. \A i \in DOMAIN tail : i + 1 \in DOMAIN todo[x] /\ tail[i] = todo[x][i + 1]
  BY <1>2, <1>6
<1>9. ASSUME NEW j \in 2..Len(todo[x])
      PROVE  j - 1 \in DOMAIN tail /\ tail[j - 1] = todo[x][j]
  <2>1. j - 1 \in 1..(Len(todo[x]) - 1) /\ (j - 1) + 1 = j
    BY <1>2
  <2>2. QED
    BY <1>2, <1>6, <2>1
<1>10. /\ rest \in Seq(Spans)
       /\ \A i \in DOMAIN rest :
              \/ rest[i] = more /\ last < r.to
              \/ \E j \in DOMAIN todo[x] : rest[i] = todo[x][j]
       /\ last < r.to => \E i \in DOMAIN rest : rest[i] = more
       /\ \A j \in 2..Len(todo[x]) : \E i \in DOMAIN rest : rest[i] = todo[x][j]
  <2>1. CASE last = r.to
    <3>1. rest = tail /\ ~(last < r.to)
      BY <1>3, <2>1
    <3> HIDE DEF rest
    <3>2. QED
      BY <1>2, <1>8, <1>9, <3>1
  <2>2. CASE last # r.to
    <3>0. last < r.to /\ last + 1 \in Nat /\ 1 <= last + 1 /\ last + 1 <= r.to
      BY <1>3, <1>4, <2>2
    <3>1. more \in Spans /\ last < r.to
      BY <1>3, <3>0, SpanFacts
    <3>2. rest = <<more>> \o tail
      BY <2>2
    <3> HIDE DEF more, rest
    <3>3. /\ rest \in Seq(Spans) /\ rest[1] = more
          /\ Len(tail) \in Nat /\ Len(rest) = Len(tail) + 1
          /\ \A i \in 1..Len(tail) : rest[i + 1] = tail[i]
      BY <1>2, <3>1, <3>2, PushFacts
    <3>4. DOMAIN rest = 1..(Len(tail) + 1) /\ 1 \in DOMAIN rest
      BY <3>3, LenProperties
    <3>5. ASSUME NEW i \in DOMAIN rest, i # 1
          PROVE  \E j \in DOMAIN todo[x] : rest[i] = todo[x][j]
      <4>1. i - 1 \in 1..Len(tail) /\ (i - 1) + 1 = i
        BY <3>3, <3>4, <3>5
      <4>2. rest[i] = tail[i - 1]
        BY <3>3, <4>1
      <4>3. QED
        BY <1>6, <1>8, <4>1, <4>2
    <3>6. ASSUME NEW j \in 2..Len(todo[x])
          PROVE  \E i \in DOMAIN rest : rest[i] = todo[x][j]
      <4>1. j - 1 \in 1..Len(tail) /\ tail[j - 1] = todo[x][j]
        BY <1>6, <1>9
      <4>2. (j - 1) + 1 = j /\ j \in DOMAIN rest
        BY <3>3, <3>4, <4>1
      <4>3. rest[j] = todo[x][j]
        BY <3>3, <4>1, <4>2
      <4>4. QED
        BY <4>2, <4>3
    <3>7. QED
      BY <3>1, <3>3, <3>4, <3>5, <3>6
  <2>3. QED
    BY <2>1, <2>2
<1> HIDE DEF rest
<1>11. r = Head(todo[x]) /\ r = todo[x][1] /\ 1 \in DOMAIN todo[x]
  BY <1>1, <1>2, <1>6, TodoFacts DEF r
<1>12. Sent(x, r, last, rest)
  BY <1>2, <1>4, <1>5, <1>7, <1>10, <1>11 DEF Sent, more
<1>13. QED
  BY <1>12

LEMMA TypedInit == Init => Typed
<1> SUFFICES ASSUME Init PROVE ReplicaTyped /\ EndTyped /\ RestTyped
  BY TypedParts
<1>1. Nothing \in Vector
  BY MessagesMade
<1>2. ReplicaTyped
  BY <1>1, FS_EmptySet DEF Init, ReplicaTyped
<1>3. EndTyped /\ RestTyped
  BY <1>1, ReplicationAssumption DEF Init, EndTyped, RestTyped, Over
<1>4. QED
  BY <1>2, <1>3

-----------------------------------------------------------------------------
(* Turns, which the types need too: the first message is a vector *)

\* x may still read a message of this session.
WillRead(x) == at[x] \in {"greeting", "reading"} \/ (x[2] = "dialer" /\ at[x] = "writing")

\* Greetings come first and alone.
Greets(x) ==
    LET y == Far(x)
    IN  /\ cut[x[1]] => inbox[x] = <<>>
        /\ at[x] = "greeting" =>
              inbox[x] = <<>> \/ (Len(inbox[x]) = 1 /\ inbox[x][1].type = "have")
        /\ at[x] = "greeting" /\ x[2] = "responder" =>
              at[y] \in {"greeting", "failed", "idle"} /\ inbox[y] = <<>>
        /\ at[x] = "greeting" /\ x[2] = "dialer" /\ at[y] # "greeting" =>
              at[y] \in {"reading", "failed", "idle"} /\ inbox[y] = <<>>

\* The end of events comes last, from an end that writes no more.
Written(y) == at[y] \in {"done", "failed"} \/ (y[2] = "dialer" /\ at[y] = "reading")

EndLast(x) ==
    \A i \in DOMAIN inbox[x] : inbox[x][i].type = "end" =>
        i = Len(inbox[x]) /\ Written(Far(x))

\* Only a writer has ranges left, and both write only at the message limit.
OneWriter(x) ==
    /\ at[x] # "writing" => todo[x] = <<>>
    /\ at[x] = "writing" /\ x[2] = "responder" =>
          at[Far(x)] # "writing" \/ (Self(x) \notin rust /\ read[x] > MaxMessages)

Turns(x) == Greets(x) /\ EndLast(x) /\ OneWriter(x)

LEMMA Greeting ==
    ASSUME EndTyped, NEW x \in End, Turns(x), at[x] = "greeting", inbox[x] # <<>>
    PROVE  /\ Head(inbox[x]) \in Message /\ Head(inbox[x]).vector \in Vector
           /\ Head(inbox[x]) = inbox[x][1] /\ inbox[x][1].type = "have" /\ 1 \in DOMAIN inbox[x]
           /\ Tail(inbox[x]) = <<>>
<1>1. /\ Len(inbox[x]) = 1 /\ inbox[x][1].type = "have"
  BY DEF Turns, Greets
<1>2. /\ Head(inbox[x]) \in Message /\ Head(inbox[x]) = inbox[x][1]
      /\ Tail(inbox[x]) \in Seq(Message) /\ Len(Tail(inbox[x])) = Len(inbox[x]) - 1
  BY HeadFacts
<1>3. Len(Tail(inbox[x])) = 0
  BY <1>1, <1>2
<1>4. Tail(inbox[x]) = <<>>
  BY <1>2, <1>3, EmptySeq
<1>5. inbox[x] \in Seq(Message)
  BY DEF EndTyped
<1>6. 1 \in DOMAIN inbox[x]
  BY <1>1, <1>5, LenProperties
<1>7. QED
  BY <1>1, <1>2, <1>4, <1>6, MessageFacts

\* The steps of an end; what they do not touch is in Quiet.
LEMMA StepTypes ==
    ASSUME Typed, NEW x \in End, Turns(x), Step(x)
    PROVE  ReplicaTyped' /\ EndTyped' /\ RestTyped'
<1>0. ReplicaTyped /\ EndTyped /\ RestTyped
  BY TypedParts
<1>1. ASSUME Quiet PROVE ReplicaTyped' /\ RestTyped'
  BY <1>0, <1>1 DEF Quiet, replicaVars, ReplicaTyped, RestTyped
<1>2. Self(x) \in Peer /\ Far(x) \in End /\ Far(x) # x
  BY EndFacts
<1>3. CASE Greet(x)
  <2> DEFINE answer == Have(have[Self(x)])
  <2>1. Head(inbox[x]).vector \in Vector /\ Tail(inbox[x]) \in Seq(Message)
    BY <1>0, <1>3, Greeting, HeadFacts DEF Greet
  <2>2. answer \in Message
    BY <1>0, <1>2, MessagesMade DEF ReplicaTyped
  <2>3. Append(inbox[Far(x)], answer) \in Seq(Message)
    BY <1>0, <1>2, <2>2, SentFacts
  <2> HIDE DEF answer
  <2>4. inbox' = [inbox EXCEPT ![x] = Tail(@), ![Far(x)] = Append(@, answer)]
    BY <1>3 DEF Greet, answer
  <2>5. inbox' \in [End -> Seq(Message)]
    BY <1>0, <1>2, <2>1, <2>3, <2>4 DEF EndTyped
  <2>6. EndTyped'
    BY <1>0, <1>3, <2>1, <2>5 DEF Greet, EndTyped
  <2>7. QED
    BY <1>1, <1>3, <2>6 DEF Greet
<1>4. CASE Greeted(x)
  <2>1. Head(inbox[x]).vector \in Vector /\ Tail(inbox[x]) \in Seq(Message)
    BY <1>0, <1>4, Greeting, HeadFacts DEF Greeted
  <2>2. todo' \in [End -> Seq(Spans)]
    BY <1>4, <2>1, StartWritingTypes DEF Greeted
  <2>3. EndTyped'
    BY <1>0, <1>4, <2>1, <2>2 DEF Greeted, EndTyped
  <2>4. QED
    BY <1>1, <1>4, <2>3 DEF Greeted
<1>5. CASE SendEvents(x)
  <2>1. PICK r, last, rest : Sent(x, r, last, rest)
    BY <1>0, <1>5, SendEventsFacts
  <2>2. Events(Span(r.author, r.from, last)) \in Message
    BY <2>1, MessagesMade DEF Sent
  <2>3. inbox' \in [End -> Seq(Message)]
    BY <1>0, <2>1, <2>2, SendTypes DEF Sent
  <2>4. todo' \in [End -> Seq(Spans)]
    BY <1>0, <2>1 DEF Sent, EndTyped
  <2>5. EndTyped'
    BY <1>0, <1>5, <2>3, <2>4 DEF SendEvents, EndTyped
  <2>6. QED
    BY <1>1, <1>5, <2>5 DEF SendEvents
<1>6. CASE SendEnd(x)
  <2>1. inbox' \in [End -> Seq(Message)]
    BY <1>0, <1>6, MessagesMade, SendTypes DEF SendEnd
  <2>2. EndTyped'
    BY <1>0, <1>6, <2>1 DEF SendEnd, EndTyped, Over
  <2>3. QED
    BY <1>1, <1>6, <2>2 DEF SendEnd
<1>7. ASSUME NEW type, Reading(x, type) PROVE inbox' \in [End -> Seq(Message)]
  <2>1. Tail(inbox[x]) \in Seq(Message)
    BY <1>0, <1>7, HeadFacts DEF Reading
  <2>2. QED
    BY <1>0, <1>7, <2>1 DEF Reading, EndTyped
<1>8. ASSUME DoneReading(x)
      PROVE  /\ at' \in [End -> Over \cup {"greeting", "writing", "reading"}]
             /\ todo' \in [End -> Seq(Spans)]
  <2>1. theirs[x] \in Vector
    BY <1>0 DEF EndTyped
  <2>2. QED
    BY <1>0, <1>8, <2>1, StartWritingTypes DEF DoneReading, EndTyped, Over
<1>9. CASE ReadEvents(x)
  <2>1. Head(inbox[x]).range \in Spans
    BY <1>0, <1>9, HeadFacts, MessageFacts DEF ReadEvents, Reading
  <2>2. EndTyped'
    BY <1>0, <1>7, <1>9, <2>1 DEF ReadEvents, EndTyped
  <2>3. QED
    BY <1>1, <1>9, <2>2 DEF ReadEvents
<1>10. CASE StopReading(x)
  <2>1. EndTyped'
    BY <1>0, <1>7, <1>8, <1>10 DEF StopReading, EndTyped
  <2>2. QED
    BY <1>1, <1>10, <2>1 DEF StopReading
<1>11. CASE RustGivesUp(x)
  BY <1>0, <1>1, <1>11 DEF RustGivesUp, EndTyped, Over
<1>12. CASE ReadEnd(x)
  <2>1. EndTyped'
    BY <1>0, <1>7, <1>8, <1>12 DEF ReadEnd, EndTyped
  <2>2. QED
    BY <1>1, <1>12, <2>1 DEF ReadEnd
<1>13. CASE PutRead(x)
  <2> DEFINE b == batch[x]
  <2>1. b \in Spans
    BY <1>0, <1>13 DEF PutRead, EndTyped
  <2>2. b.author \in Author /\ b.from \in Nat /\ b.to \in Nat /\ b.from <= b.to
    BY <2>1, SpanFacts
  <2>3. b.from = b.to \/ Span(b.author, b.from + 1, b.to) \in Spans
    <3>1. CASE b.from # b.to
      <4>1. b.from + 1 \in Nat /\ 1 <= b.from + 1 /\ b.from + 1 <= b.to
        BY <2>2, <3>1
      <4>2. QED
        BY <2>2, <4>1, SpanFacts
    <3>2. QED
      BY <3>1
  <2>4. ReplicaTyped'
    BY <1>0, <1>2, <1>13, <2>2, PutTypes DEF PutRead
  <2>5. EndTyped' /\ RestTyped'
    BY <1>0, <1>13, <2>3 DEF PutRead, EndTyped, RestTyped
  <2>6. QED
    BY <2>4, <2>5
<1>14. CASE Fail(x)
  <2>1. EndTyped'
    BY <1>0, <1>14 DEF Fail, EndTyped, Over
  <2>2. QED
    BY <1>1, <1>14, <2>1 DEF Fail
<1>15. QED
  BY <1>3, <1>4, <1>5, <1>6, <1>9, <1>10, <1>11, <1>12, <1>13, <1>14 DEF Step

LEMMA TypedNext == Typed /\ (\A x \in End : Turns(x)) /\ [Next]_vars => Typed'
<1> SUFFICES ASSUME Typed, \A x \in End : Turns(x), [Next]_vars
             PROVE  ReplicaTyped' /\ EndTyped' /\ RestTyped'
  BY TypedParts DEF Typed, TypeOK, ReplicaTyped, EndTyped, RestTyped
<1>0. ReplicaTyped /\ EndTyped /\ RestTyped
  BY TypedParts
<1> USE DEF endVars, replicaVars
<1>1. ASSUME NEW a \in Author, Write(a) PROVE ReplicaTyped' /\ EndTyped' /\ RestTyped'
  <2>1. Home[a] \in Peer /\ have \in [Peer -> [Author -> Nat]]
    BY <1>0, ReplicationAssumption DEF ReplicaTyped, Vector
  <2>2. have' \in [Peer -> [Author -> Nat]]
    BY <1>1, <2>1 DEF Write
  <2>3. ReplicaTyped'
    BY <1>0, <1>1, <2>2 DEF Write, ReplicaTyped, Vector
  <2>4. EndTyped'
    BY <1>0, <1>1 DEF Write, EndTyped
  <2>5. RestTyped'
    BY <1>0, <1>1 DEF Write, RestTyped
  <2>6. QED
    BY <2>3, <2>4, <2>5
<1>2. ASSUME NEW p \in Peer, NEW a \in Author, NEW s \in 1..MaxLen, Gossip(p, a, s)
      PROVE  ReplicaTyped' /\ EndTyped' /\ RestTyped'
  <2>1. ReplicaTyped'
    BY <1>0, <1>2, PutTypes DEF Gossip, Published
  <2>2. QED
    BY <1>0, <1>2, <2>1 DEF Gossip, Published, EndTyped, RestTyped
<1>3. ASSUME NEW c \in Call, Dial(c) PROVE ReplicaTyped' /\ EndTyped' /\ RestTyped'
  <2> DEFINE d == <<c, "dialer">>
             r == <<c, "responder">>
  <2>1. d \in End /\ r \in End /\ c[1] \in Peer
    BY CallFacts
  <2>2. Have(have[c[1]]) \in Message /\ Nothing \in Vector
    BY <1>0, <2>1, MessagesMade DEF ReplicaTyped
  <2>3. <<>> \in Seq(Message) /\ <<Have(have[c[1]])>> \in Seq(Message) /\ <<>> \in Seq(Spans)
    BY <2>2
  <2>4. EndTyped'
    BY <1>0, <1>3, <2>2, <2>3 DEF Dial, EndTyped
  <2>5. QED
    BY <1>0, <1>3, <2>4 DEF Dial, ReplicaTyped, RestTyped
<1>4. ASSUME NEW x \in End, Step(x) PROVE ReplicaTyped' /\ EndTyped' /\ RestTyped'
  BY <1>4, StepTypes
<1>5. ASSUME NEW c \in Call, Cut(c) PROVE ReplicaTyped' /\ EndTyped' /\ RestTyped'
  <2>1. <<>> \in Seq(Message)
    OBVIOUS
  <2>2. QED
    BY <1>0, <1>5, <2>1, ReplicationAssumption
       DEF Cut, ReplicaTyped, EndTyped, RestTyped
<1>6. ASSUME NEW p \in Peer, Crash(p) PROVE ReplicaTyped' /\ EndTyped' /\ RestTyped'
  <2>1. ReplicaTyped'
    <3>1. PICK left \in [Author -> 0..MaxLen] : have' = [have EXCEPT ![p] = left]
      BY <1>6 DEF Crash
    <3>2. left \in Vector
      BY ReplicationAssumption DEF Vector
    <3>3. have' \in [Peer -> Vector]
      BY <1>0, <3>1, <3>2 DEF ReplicaTyped
    <3>4. held' = [held EXCEPT ![p] = {}]
      BY <1>6 DEF Crash, Stop
    <3>5. QED
      BY <1>0, <3>3, <3>4, FS_EmptySet DEF ReplicaTyped
  <2>2. <<>> \in Seq(Message) /\ <<>> \in Seq(Spans) /\ Nothing \in Vector
    BY MessagesMade
  <2>3. EndTyped'
    BY <1>0, <1>6, <2>2 DEF Crash, Stop, EndTyped, Over
  <2>4. RestTyped'
    BY <1>0, <1>6, ReplicationAssumption DEF Crash, Stop, RestTyped
  <2>5. QED
    BY <2>1, <2>3, <2>4
<1>7. ASSUME UNCHANGED vars PROVE ReplicaTyped' /\ EndTyped' /\ RestTyped'
  BY <1>0, <1>7 DEF vars, ReplicaTyped, EndTyped, RestTyped
<1>8. QED
  BY <1>1, <1>2, <1>3, <1>4, <1>5, <1>6, <1>7 DEF Next

-----------------------------------------------------------------------------
(* Turns are kept *)

\* A step of x leaves the other ends alone, but for what it sends.
LEMMA StepFrame ==
    ASSUME Typed, NEW x \in End, Step(x)
    PROVE  /\ \A z \in End \ {x} : /\ at'[z] = at[z] /\ theirs'[z] = theirs[z]
                                   /\ todo'[z] = todo[z] /\ batch'[z] = batch[z]
                                   /\ read'[z] = read[z]
           /\ \A z \in End \ {x, Far(x)} : inbox'[z] = inbox[z]
           /\ cut' = cut /\ rust' = rust /\ crashes' = crashes
           /\ have' = have \/ PutRead(x)
<1>0. EndTyped
  BY TypedParts
<1>1. ASSUME NEW other, StartWriting(x, other)
      PROVE  \A z \in End \ {x} : todo'[z] = todo[z]
  BY <1>0, <1>1 DEF StartWriting, EndTyped
<1>2. CASE Greet(x) \/ Greeted(x)
  BY <1>0, <1>1, <1>2 DEF Greet, Greeted, Quiet, replicaVars, EndTyped
<1>3. CASE SendEvents(x) \/ SendEnd(x)
  BY <1>0, <1>3 DEF SendEvents, SendEnd, Send, Quiet, replicaVars, EndTyped
<1>4. CASE ReadEvents(x) \/ StopReading(x) \/ ReadEnd(x)
  BY <1>0, <1>1, <1>4
     DEF ReadEvents, StopReading, ReadEnd, Reading, DoneReading, Quiet, replicaVars, EndTyped
<1>5. CASE RustGivesUp(x) \/ Fail(x) \/ PutRead(x)
  BY <1>0, <1>5 DEF RustGivesUp, Fail, PutRead, Quiet, replicaVars, EndTyped
<1>6. QED
  BY <1>2, <1>3, <1>4, <1>5 DEF Step

LEMMA TailKeepsEndLast ==
    ASSUME EndTyped, NEW x \in End, EndLast(x), inbox[x] # <<>>,
           inbox'[x] = Tail(inbox[x]), Written(Far(x)) => Written(Far(x))'
    PROVE  EndLast(x)'
<1> DEFINE n == Len(inbox[x])
<1>1. /\ n \in Nat /\ n >= 1 /\ Len(inbox'[x]) = n - 1
      /\ \A i \in 1..(n - 1) : inbox'[x][i] = inbox[x][i + 1]
  BY HeadFacts
<1>2. DOMAIN inbox'[x] = 1..(n - 1) /\ DOMAIN inbox[x] = 1..n
  <2>1. inbox'[x] \in Seq(Message)
    BY HeadFacts
  <2>2. QED
    BY <1>1, <2>1, LenProperties DEF EndTyped
<1>3. ASSUME NEW i \in 1..(n - 1), inbox'[x][i].type = "end"
      PROVE  i = n - 1 /\ Written(Far(x))
  <2>1. i + 1 \in DOMAIN inbox[x] /\ inbox[x][i + 1].type = "end"
    BY <1>1, <1>2, <1>3
  <2>2. i + 1 = n /\ Written(Far(x))
    BY <2>1 DEF EndLast
  <2>3. QED
    BY <1>1, <2>2
<1> HIDE DEF n
<1>4. QED
  BY <1>1, <1>2, <1>3 DEF EndLast, Far

\* m comes at the end of what is on its way to x; no end of events was there.
LEMMA SendKeepsEndLast ==
    ASSUME EndTyped, NEW x \in End, EndLast(x), ~Written(Far(x)), NEW m \in Message,
           inbox'[x] = Append(inbox[x], m), m.type = "end" => Written(Far(x))'
    PROVE  EndLast(x)'
<1> DEFINE n == Len(inbox[x])
<1>1. /\ n \in Nat /\ Len(inbox'[x]) = n + 1 /\ inbox'[x] \in Seq(Message)
      /\ \A i \in 1..n : inbox'[x][i] = inbox[x][i]
      /\ inbox'[x][n + 1] = m
  BY SentFacts
<1>2. DOMAIN inbox'[x] = 1..(n + 1) /\ DOMAIN inbox[x] = 1..n
  BY <1>1, LenProperties DEF EndTyped
<1>3. \A i \in 1..n : inbox'[x][i].type # "end"
  BY <1>1, <1>2 DEF EndLast
<1> HIDE DEF n
<1>4. \A i \in 1..(n + 1) : i \in 1..n \/ i = n + 1
  BY <1>1
<1>5. QED
  BY <1>1, <1>2, <1>3, <1>4 DEF EndLast, Far

LEMMA TurnsStep ==
    ASSUME Typed, \A z \in End : Turns(z), NEW x \in End, Step(x)
    PROVE  Turns(x)' /\ Turns(Far(x))'
<1> DEFINE y == Far(x)
<1>0. EndTyped
  BY TypedParts
<1>1. /\ y \in End /\ y # x /\ Far(y) = x /\ y[1] = x[1] /\ x[1] \in Call
      /\ (x[2] = "dialer" /\ y[2] = "responder") \/ (x[2] = "responder" /\ y[2] = "dialer")
  BY EndFacts DEF Far, Role
<1>2. /\ at'[y] = at[y] /\ todo'[y] = todo[y] /\ read'[y] = read[y]
      /\ cut' = cut /\ rust' = rust
  BY <1>1, StepFrame
<1>3. Turns(x) /\ Turns(y)
  BY <1>1
<1> HIDE DEF y
<1>4. /\ Greets(x)' <=>
            /\ cut[x[1]] => inbox'[x] = <<>>
            /\ at'[x] = "greeting" =>
                  inbox'[x] = <<>> \/ (Len(inbox'[x]) = 1 /\ inbox'[x][1].type = "have")
            /\ at'[x] = "greeting" /\ x[2] = "responder" =>
                  at[y] \in {"greeting", "failed", "idle"} /\ inbox'[y] = <<>>
            /\ at'[x] = "greeting" /\ x[2] = "dialer" /\ at[y] # "greeting" =>
                  at[y] \in {"reading", "failed", "idle"} /\ inbox'[y] = <<>>
      /\ Greets(y)' <=>
            /\ cut[x[1]] => inbox'[y] = <<>>
            /\ at[y] = "greeting" =>
                  inbox'[y] = <<>> \/ (Len(inbox'[y]) = 1 /\ inbox'[y][1].type = "have")
            /\ at[y] = "greeting" /\ y[2] = "responder" =>
                  at'[x] \in {"greeting", "failed", "idle"} /\ inbox'[x] = <<>>
            /\ at[y] = "greeting" /\ y[2] = "dialer" /\ at'[x] # "greeting" =>
                  at'[x] \in {"reading", "failed", "idle"} /\ inbox'[x] = <<>>
      /\ OneWriter(x)' <=>
            /\ at'[x] # "writing" => todo'[x] = <<>>
            /\ at'[x] = "writing" /\ x[2] = "responder" =>
                  at[y] # "writing" \/ (Self(x) \notin rust /\ read'[x] > MaxMessages)
      /\ OneWriter(y)' <=>
            /\ at[y] # "writing" => todo[y] = <<>>
            /\ at[y] = "writing" /\ y[2] = "responder" =>
                  at'[x] # "writing" \/ (Self(y) \notin rust /\ read[y] > MaxMessages)
  BY <1>1, <1>2 DEF Greets, OneWriter, y, Self, Far
<1>5. /\ Written(x)' <=> at'[x] \in {"done", "failed"} \/ (x[2] = "dialer" /\ at'[x] = "reading")
      /\ Written(y)' <=> Written(y)
  BY <1>2 DEF Written
<1>6. /\ at[x] \in Over \cup {"greeting", "writing", "reading"}
      /\ at[y] \in Over \cup {"greeting", "writing", "reading"}
  BY <1>0, <1>1 DEF EndTyped
<1>7. ASSUME inbox'[x] = inbox[x] PROVE EndLast(x)'
  BY <1>1, <1>3, <1>5, <1>7 DEF Turns, EndLast, y
<1>8. ASSUME inbox[x] # <<>>, inbox'[x] = Tail(inbox[x]) PROVE EndLast(x)'
  BY <1>0, <1>3, <1>5, <1>8, TailKeepsEndLast DEF Turns, y
<1>9. ASSUME inbox'[y] = inbox[y], Written(x) => Written(x)' PROVE EndLast(y)'
  BY <1>1, <1>3, <1>9 DEF Turns, EndLast, y, Far
<1>10. CASE Greet(x)
  <2> DEFINE m == Have(have[Self(x)])
  <2>1. /\ at[x] = "greeting" /\ x[2] = "responder" /\ inbox[x] # <<>>
        /\ at' = [at EXCEPT ![x] = "reading"]
        /\ inbox' = [inbox EXCEPT ![x] = Tail(@), ![y] = Append(@, m)]
        /\ todo' = todo /\ read' = read
    BY <1>10 DEF Greet, y
  <2>2. Tail(inbox[x]) = <<>> /\ m \in Message /\ m.type = "have"
    <3>1. have[Self(x)] \in Vector
      BY TypedParts, EndFacts DEF ReplicaTyped
    <3>2. QED
      BY <1>0, <1>3, <2>1, <3>1, Greeting, MessagesMade DEF Have
  <2> HIDE DEF m
  <2>3. /\ at'[x] = "reading" /\ inbox'[x] = <<>> /\ inbox'[y] = Append(inbox[y], m)
        /\ todo'[x] = todo[x] /\ read'[x] = read[x]
    BY <1>0, <1>1, <2>1, <2>2 DEF EndTyped
  <2>4. at[y] \in {"greeting", "failed", "idle"} /\ inbox[y] = <<>> /\ ~cut[x[1]]
    BY <1>3, <2>1 DEF Turns, Greets, y
  <2>5. inbox'[y] = <<m>> /\ Len(inbox'[y]) = 1 /\ inbox'[y][1].type = "have"
    BY <2>2, <2>3, <2>4
  <2>6. Greets(x)' /\ Greets(y)'
    <3>1. y[2] = "dialer" /\ at'[x] # "greeting"
      BY <1>1, <2>1, <2>3
    <3>2. Greets(x)'
      BY <1>4, <2>3, <2>4, <3>1
    <3>3. Greets(y)'
      BY <1>4, <2>3, <2>4, <2>5, <3>1
    <3>4. QED
      BY <3>2, <3>3
  <2>7. OneWriter(x)' /\ OneWriter(y)'
    BY <1>1, <1>3, <1>4, <2>1, <2>3 DEF Turns, OneWriter
  <2>8. EndLast(x)' /\ EndLast(y)'
    BY <1>8, <2>1, <2>2, <2>3, <2>5 DEF EndLast
  <2>9. QED
    BY <2>6, <2>7, <2>8 DEF Turns, y
<1>11. CASE Greeted(x)
  <2>1. /\ at[x] = "greeting" /\ x[2] = "dialer" /\ inbox[x] # <<>>
        /\ at' = [at EXCEPT ![x] = "writing"]
        /\ inbox' = [inbox EXCEPT ![x] = Tail(@)]
        /\ read' = read
    BY <1>11 DEF Greeted
  <2>2. Tail(inbox[x]) = <<>>
    BY <1>0, <1>3, <2>1, Greeting
  <2>3. /\ at'[x] = "writing" /\ inbox'[x] = <<>> /\ inbox'[y] = inbox[y]
        /\ read'[x] = read[x]
    BY <1>0, <1>1, <2>1, <2>2 DEF EndTyped
  <2>4. at[y] \in {"reading", "failed", "idle"} /\ inbox[y] = <<>>
    BY <1>1, <1>3, <2>1 DEF Turns, Greets, y, Far
  <2>5. Greets(x)' /\ Greets(y)'
    BY <1>1, <1>4, <2>1, <2>3, <2>4
  <2>6. OneWriter(x)' /\ OneWriter(y)'
    BY <1>1, <1>3, <1>4, <2>1, <2>3, <2>4 DEF Turns, OneWriter
  <2>7. EndLast(x)' /\ EndLast(y)'
    BY <1>8, <2>1, <2>2, <2>3, <2>4 DEF EndLast
  <2>8. QED
    BY <2>5, <2>6, <2>7 DEF Turns, y
<1>12. CASE SendEvents(x) \/ SendEnd(x)
  <2>1. PICK m \in Message :
            /\ Send(x, m)
            /\ \/ m.type = "events" /\ at' = at
               \/ /\ m.type = "end" /\ todo[x] = <<>>
                  /\ at' = [at EXCEPT ![x] = IF x[2] = "dialer" THEN "reading" ELSE "done"]
                  /\ todo' = todo
    <3>1. CASE SendEvents(x)
      <4>1. PICK r, last, rest : Sent(x, r, last, rest)
        BY <1>0, <3>1, SendEventsFacts
      <4>2. /\ Events(Span(r.author, r.from, last)) \in Message
            /\ Events(Span(r.author, r.from, last)).type = "events"
        BY <4>1, MessagesMade DEF Sent, Events
      <4>3. QED
        BY <3>1, <4>1, <4>2 DEF Sent, SendEvents
    <3>2. CASE SendEnd(x)
      BY <3>2, MessagesMade DEF SendEnd, EndOfEvents
    <3>3. QED
      BY <1>12, <3>1, <3>2
  <2>2. at[x] = "writing" /\ read' = read
    BY <1>12 DEF SendEvents, SendEnd
  <2>3. /\ at'[x] = "writing" \/ (at'[x] = "reading" /\ x[2] = "dialer" /\ todo'[x] = <<>>)
                              \/ (at'[x] = "done" /\ x[2] = "responder" /\ todo'[x] = <<>>)
        /\ read'[x] = read[x] /\ inbox'[x] = inbox[x]
    BY <1>0, <1>1, <2>1, <2>2 DEF EndTyped, Send, y
  <2>4. at[y] # "greeting" /\ ~Written(x)
    BY <1>1, <1>3, <2>2 DEF Turns, Greets, Written, Far
  <2>5. /\ inbox'[y] = Append(inbox[y], m) /\ ~cut[x[1]]
        \/ inbox'[y] = inbox[y]
    BY <1>0, <1>1, <2>1 DEF Send, EndTyped, y
  <2>6. Greets(x)' /\ Greets(y)'
    BY <1>1, <1>3, <1>4, <2>2, <2>3, <2>4, <2>5 DEF Turns, Greets, y
  <2>7. OneWriter(x)' /\ OneWriter(y)'
    BY <1>1, <1>3, <1>4, <2>2, <2>3 DEF Turns, OneWriter, y
  <2>8. EndLast(x)'
    BY <1>7, <2>3
  <2>9. EndLast(y)'
    <3>1. CASE inbox'[y] = inbox[y]
      BY <1>9, <2>4, <3>1
    <3>2. CASE inbox'[y] = Append(inbox[y], m)
      <4>1. m.type = "end" => Written(x)'
        BY <1>0, <1>1, <1>5, <2>1 DEF EndTyped
      <4>2. QED
        BY <1>0, <1>1, <1>3, <2>4, <3>2, <4>1, SendKeepsEndLast DEF Turns
    <3>3. QED
      BY <2>5, <3>1, <3>2
  <2>10. QED
    BY <2>6, <2>7, <2>8, <2>9 DEF Turns, y
<1>13. CASE ReadEvents(x) \/ StopReading(x) \/ ReadEnd(x)
  <2>1. /\ at[x] = "reading" /\ inbox[x] # <<>> /\ inbox' = [inbox EXCEPT ![x] = Tail(@)]
    BY <1>13 DEF ReadEvents, StopReading, ReadEnd, Reading
  <2>2. inbox'[x] = Tail(inbox[x]) /\ inbox'[y] = inbox[y] /\ ~cut[x[1]]
    BY <1>0, <1>1, <1>3, <2>1 DEF EndTyped, Turns, Greets
  <2>3. \/ /\ at'[x] = "reading" /\ todo'[x] = todo[x]
        \/ /\ x[2] = "dialer" /\ at'[x] = "done" /\ todo'[x] = todo[x]
        \/ /\ x[2] = "responder" /\ at'[x] = "writing"
           /\ at[y] # "writing" \/ (Self(x) \notin rust /\ read'[x] > MaxMessages)
    <3>1. CASE ReadEvents(x)
      BY <3>1, <2>1 DEF ReadEvents
    <3>2. CASE StopReading(x)
      <4>1. read'[x] > MaxMessages /\ Self(x) \notin rust
        BY <1>0, <3>2, ReplicationAssumption DEF StopReading, EndTyped
      <4>2. QED
        BY <1>0, <3>2, <4>1 DEF StopReading, DoneReading, EndTyped
    <3>3. CASE ReadEnd(x)
      <4>1. 1 \in DOMAIN inbox[x] /\ inbox[x][1].type = "end"
        <5>1. Len(inbox[x]) \in Nat /\ Len(inbox[x]) >= 1 /\ Head(inbox[x]) = inbox[x][1]
          BY <1>0, <2>1, HeadFacts
        <5>2. DOMAIN inbox[x] = 1..Len(inbox[x])
          BY <1>0, LenProperties DEF EndTyped
        <5>3. QED
          BY <3>3, <5>1, <5>2 DEF ReadEnd, Reading
      <4>2. at[y] # "writing"
        BY <1>3, <4>1 DEF Turns, EndLast, Written, y
      <4>3. QED
        BY <1>0, <3>3, <4>2 DEF ReadEnd, DoneReading, EndTyped
    <3>4. QED
      BY <1>13, <3>1, <3>2, <3>3
  <2>4. at[y] # "greeting" \/ inbox[x] = <<>>
    BY <1>1, <1>3, <2>1 DEF Turns, Greets
  <2>5. Greets(x)' /\ Greets(y)'
    BY <1>1, <1>3, <1>4, <2>1, <2>2, <2>3, <2>4 DEF Turns, Greets
  <2>6. OneWriter(x)' /\ OneWriter(y)'
    BY <1>1, <1>3, <1>4, <2>1, <2>3 DEF Turns, OneWriter
  <2>7. EndLast(x)'
    BY <1>8, <2>1, <2>2
  <2>8. EndLast(y)'
    BY <1>5, <1>9, <2>1, <2>2, <2>3 DEF Written
  <2>9. QED
    BY <2>5, <2>6, <2>7, <2>8 DEF Turns, y
<1>14. CASE RustGivesUp(x) \/ Fail(x)
  <2>1. at'[x] = "failed" /\ inbox' = inbox /\ todo'[x] = <<>>
    BY <1>0, <1>3, <1>14 DEF RustGivesUp, Fail, EndTyped, Turns, OneWriter
  <2>2. Greets(x)' /\ Greets(y)'
    <3>1. /\ cut[x[1]] => inbox[x] = <<>> /\ inbox[y] = <<>>
          /\ at[y] = "greeting" =>
                inbox[y] = <<>> \/ (Len(inbox[y]) = 1 /\ inbox[y][1].type = "have")
          /\ at[y] = "greeting" /\ y[2] = "responder" => inbox[x] = <<>>
          /\ at[y] = "greeting" /\ y[2] = "dialer" /\ at[x] # "greeting" => inbox[x] = <<>>
      BY <1>1, <1>3 DEF Turns, Greets
    <3>2. at[y] = "greeting" => at[x] # "greeting" \/ cut[x[1]]
      BY <1>14 DEF RustGivesUp, Fail, Broken, y
    <3>3. QED
      BY <1>4, <2>1, <3>1, <3>2
  <2>3. OneWriter(x)' /\ OneWriter(y)'
    <3>1. at[y] # "writing" => todo[y] = <<>>
      BY <1>3 DEF Turns, OneWriter
    <3>2. QED
      BY <1>4, <2>1, <3>1
  <2>4. EndLast(x)' /\ EndLast(y)'
    BY <1>5, <1>7, <1>9, <2>1
  <2>5. QED
    BY <2>2, <2>3, <2>4 DEF Turns, y
<1>15. CASE PutRead(x)
  <2>1. at' = at /\ inbox' = inbox /\ todo' = todo /\ read' = read
    BY <1>15 DEF PutRead
  <2>2. QED
    BY <1>1, <1>2, <1>3, <2>1 DEF Turns, Greets, EndLast, OneWriter, Written, y, Self, Far
<1>16. QED
  BY <1>10, <1>11, <1>12, <1>13, <1>14, <1>15 DEF Step

TurnsInv == Typed /\ \A x \in End : Turns(x)

\* Of a call nobody acts on, nothing changes.
LEMMA TurnsElsewhere ==
    ASSUME NEW z \in End, Turns(z), rust' = rust, cut'[z[1]] = cut[z[1]],
           \A w \in {z, Far(z)} : /\ at'[w] = at[w] /\ inbox'[w] = inbox[w]
                                  /\ todo'[w] = todo[w] /\ read'[w] = read[w]
    PROVE  Turns(z)'
BY EndFacts DEF Turns, Greets, EndLast, OneWriter, Written, Self, Far

LEMMA TurnsNext == TurnsInv /\ [Next]_vars => TurnsInv'
<1> SUFFICES ASSUME TurnsInv, [Next]_vars, NEW z \in End PROVE Turns(z)'
  BY TypedNext DEF TurnsInv
<1>0. Typed /\ EndTyped /\ RestTyped /\ Turns(z) /\ \A x \in End : Turns(x)
  BY TypedParts DEF TurnsInv
<1>1. Far(z) \in End /\ Far(z) # z /\ Far(z)[1] = z[1] /\ z[1] \in Call /\ Far(Far(z)) = z
  BY EndFacts
<1>2. ASSUME NEW x \in End, Step(x) PROVE Turns(z)'
  <2>1. CASE z \in {x, Far(x)}
    BY <1>0, <1>2, <2>1, TurnsStep
  <2>2. CASE z \notin {x, Far(x)}
    <3>1. z[1] # x[1]
      BY <2>2, EndFacts
    <3>2. Far(x)[1] = x[1]
      BY EndFacts
    <3>3. Far(z) \notin {x, Far(x)}
      BY <1>1, <3>1, <3>2
    <3>4. QED
      BY <1>0, <1>1, <1>2, <2>2, <3>3, StepFrame, TurnsElsewhere
  <2>3. QED
    BY <2>1, <2>2
<1>3. ASSUME UNCHANGED <<endVars, cut, rust>> PROVE Turns(z)'
  BY <1>0, <1>3, TurnsElsewhere DEF endVars
<1>4. ASSUME NEW c \in Call, Dial(c) PROVE Turns(z)'
  <2> DEFINE d == <<c, "dialer">>
             r == <<c, "responder">>
             m == Have(have[c[1]])
  <2>1. d \in End /\ r \in End /\ d # r /\ Far(d) = r /\ Far(r) = d
    BY CallFacts
  <2>2. /\ at'[d] = "greeting" /\ at'[r] = "greeting" /\ inbox'[d] = <<>> /\ inbox'[r] = <<m>>
        /\ todo'[d] = <<>> /\ todo'[r] = <<>> /\ cut'[c] = FALSE
    BY <1>0, <1>4, <2>1 DEF Dial, EndTyped, RestTyped
  <2>3. /\ \A w \in End \ {d, r} : /\ at'[w] = at[w] /\ inbox'[w] = inbox[w]
                                   /\ todo'[w] = todo[w] /\ read'[w] = read[w]
        /\ \A b \in Call \ {c} : cut'[b] = cut[b]
        /\ rust' = rust
    BY <1>0, <1>4 DEF Dial, EndTyped, RestTyped
  <2>4. m.type = "have"
    BY DEF Have
  <2> HIDE DEF m
  <2>5. Len(<<m>>) = 1 /\ <<m>>[1] = m /\ DOMAIN <<m>> = {1} /\ Len(<<>>) = 0
        /\ DOMAIN <<>> = {}
    OBVIOUS
  <2>6. Greets(d)' /\ OneWriter(d)' /\ EndLast(d)'
    <3>1. Greets(d)'
      BY <2>1, <2>2 DEF Greets, Far
    <3>2. OneWriter(d)' /\ EndLast(d)'
      BY <2>1, <2>2, <2>5 DEF OneWriter, EndLast
    <3>3. QED
      BY <3>1, <3>2
  <2>7. Greets(r)' /\ OneWriter(r)' /\ EndLast(r)'
    <3>1. Greets(r)'
      BY <2>1, <2>2, <2>4, <2>5 DEF Greets, Far
    <3>2. OneWriter(r)' /\ EndLast(r)'
      BY <2>1, <2>2, <2>4, <2>5 DEF OneWriter, EndLast
    <3>3. QED
      BY <3>1, <3>2
  <2>8. CASE z \in {d, r}
    BY <2>6, <2>7, <2>8 DEF Turns
  <2>9. CASE z \notin {d, r}
    <3>1. z[1] # c /\ Far(z) \notin {d, r}
      <4>1. z = <<z[1], z[2]>> /\ z[2] \in Role /\ Far(z)[1] = z[1]
        BY DEF End, Far, Role
      <4>2. z[1] # c
        BY <2>9, <4>1 DEF Role
      <4>3. QED
        BY <4>1, <4>2
    <3>2. QED
      BY <1>0, <1>1, <2>3, <2>9, <3>1, TurnsElsewhere
  <2>10. QED
    BY <2>8, <2>9
<1>5. ASSUME NEW c \in Call, Cut(c) PROVE Turns(z)'
  <2>1. /\ at' = at /\ todo' = todo /\ read' = read /\ rust' = rust
        /\ \A w \in End : inbox'[w] = IF w[1] = c THEN <<>> ELSE inbox[w]
        /\ \A b \in Call : cut'[b] = (cut[b] \/ b = c)
    BY <1>0, <1>5 DEF Cut, RestTyped
  <2>2. CASE z[1] = c
    <3>1. inbox'[z] = <<>> /\ inbox'[Far(z)] = <<>>
      BY <1>1, <2>1, <2>2
    <3>2. Greets(z)'
      BY <1>0, <2>1, <3>1 DEF Turns, Greets, Far
    <3>3. EndLast(z)'
      BY <3>1 DEF EndLast
    <3>4. OneWriter(z)'
      BY <1>0, <2>1 DEF Turns, OneWriter, Far, Self
    <3>5. QED
      BY <3>2, <3>3, <3>4 DEF Turns
  <2>3. CASE z[1] # c
    <3>1. \A w \in {z, Far(z)} : inbox'[w] = inbox[w]
      BY <1>1, <2>1, <2>3
    <3>2. cut'[z[1]] = cut[z[1]]
      BY <1>0, <1>1, <2>1, <2>3 DEF RestTyped
    <3>3. QED
      BY <1>0, <2>1, <3>1, <3>2, TurnsElsewhere
  <2>4. QED
    BY <2>2, <2>3
<1>6. ASSUME NEW p \in Peer, Crash(p) PROVE Turns(z)'
  <2>1. /\ rust' = rust
        /\ \A w \in End :
              /\ at'[w] = IF Self(w) = p THEN "idle" ELSE at[w]
              /\ todo'[w] = IF Self(w) = p THEN <<>> ELSE todo[w]
              /\ read'[w] = IF Self(w) = p THEN 0 ELSE read[w]
              /\ inbox'[w] = IF p \in {w[1][1], w[1][2]} THEN <<>> ELSE inbox[w]
        /\ \A b \in Call : cut'[b] = (cut[b] \/ p \in {b[1], b[2]})
    BY <1>6 DEF Crash, Stop
  <2>2. Self(z) \in {z[1][1], z[1][2]} /\ Self(Far(z)) \in {z[1][1], z[1][2]}
    BY DEF Self, Far
  <2>3. CASE p \in {z[1][1], z[1][2]}
    <3>1. inbox'[z] = <<>> /\ inbox'[Far(z)] = <<>>
      BY <1>1, <2>1, <2>3
    <3>2. /\ at'[z] = at[z] \/ at'[z] = "idle"
          /\ at'[Far(z)] = at[Far(z)] \/ at'[Far(z)] = "idle"
      BY <1>1, <2>1
    <3>3. Greets(z)'
      BY <1>0, <3>1, <3>2 DEF Turns, Greets, Far
    <3>4. EndLast(z)'
      BY <3>1 DEF EndLast
    <3>5. OneWriter(z)'
      <4>1. at'[z] # "writing" => todo'[z] = <<>>
        BY <1>0, <2>1 DEF Turns, OneWriter, Over
      <4>2. at'[z] = "writing" => at[z] = "writing" /\ read'[z] = read[z]
        BY <2>1
      <4>3. QED
        BY <1>0, <2>1, <3>2, <4>1, <4>2 DEF Turns, OneWriter, Far, Self
    <3>6. QED
      BY <3>3, <3>4, <3>5 DEF Turns
  <2>4. CASE p \notin {z[1][1], z[1][2]}
    <3>1. \A w \in {z, Far(z)} : w \in End /\ Self(w) # p /\ p \notin {w[1][1], w[1][2]}
      BY <1>1, <2>2, <2>4
    <3>2. \A w \in {z, Far(z)} : /\ at'[w] = at[w] /\ inbox'[w] = inbox[w]
                                /\ todo'[w] = todo[w] /\ read'[w] = read[w]
      BY <2>1, <3>1
    <3>3. cut'[z[1]] = cut[z[1]]
      BY <1>0, <1>1, <2>1, <2>4 DEF RestTyped
    <3>4. QED
      BY <1>0, <2>1, <3>2, <3>3, TurnsElsewhere
  <2>5. QED
    BY <2>3, <2>4
<1>7. QED
  BY <1>2, <1>3, <1>4, <1>5, <1>6 DEF Next, Write, Gossip, Published, vars

LEMMA TurnsInit == Init => TurnsInv
<1> SUFFICES ASSUME Init, NEW x \in End PROVE Turns(x)
  BY TypedInit DEF TurnsInv
<1>1. Far(x) \in End /\ x[1] \in Call
  BY EndFacts
<1>2. at[x] = "idle" /\ inbox[x] = <<>> /\ todo[x] = <<>>
  BY <1>1 DEF Init
<1>3. DOMAIN <<>> = {}
  OBVIOUS
<1>4. QED
  BY <1>2, <1>3 DEF Turns, Greets, EndLast, OneWriter

(***************************************************************************)
(* Every variable keeps its range: what an end takes for a vector, a range *)
(* or the end of events is one (sync.js:196-198, 240-250).                 *)
(***************************************************************************)
THEOREM ReplicationTypes == Spec => []TypeOK
<1>1. TurnsInv => TypeOK
  BY DEF TurnsInv, Typed
<1>2. QED
  BY <1>1, TurnsInit, TurnsNext, PTL DEF Spec

(***************************************************************************)
(* Strict turns: both ends wait for room in full streams only if a         *)
(* JavaScript one gave up reading at the message limit (sync.js:12).       *)
(***************************************************************************)
THEOREM TurnsDoNotBlock == Spec => []TurnsNeverBlock
<1>1. TurnsInv => TurnsNeverBlock
  <2> SUFFICES ASSUME TurnsInv, NEW c \in Call, Stuck(c)
               PROVE  \E x \in {c} \X Role : Self(x) \notin rust /\ read[x] > MaxMessages
    BY DEF TurnsNeverBlock
  <2> DEFINE r == <<c, "responder">>
             d == <<c, "dialer">>
  <2>1. r \in End /\ Far(r) = d /\ r \in {c} \X Role /\ d \in {c} \X Role
    BY CallFacts DEF Role
  <2>2. at[r] = "writing" /\ at[d] = "writing"
    BY <2>1 DEF Stuck, Waiting
  <2>3. Self(r) \notin rust /\ read[r] > MaxMessages
    BY <2>1, <2>2 DEF TurnsInv, Turns, OneWriter
  <2>4. QED
    BY <2>1, <2>3
<1>2. QED
  BY <1>1, TurnsInit, TurnsNext, PTL DEF Spec

-----------------------------------------------------------------------------
(* What a step moves *)

\* The other end of the same stream.
LEMMA PairFacts ==
    ASSUME NEW x \in End
    PROVE  /\ Far(x) \in End /\ Far(x) # x /\ Far(Far(x)) = x /\ Far(x)[1] = x[1]
           /\ x[1] \in Call /\ Self(x) \in Peer /\ Self(Far(x)) \in Peer
           /\ \/ x[2] = "dialer" /\ Far(x)[2] = "responder"
              \/ x[2] = "responder" /\ Far(x)[2] = "dialer"
BY EndFacts DEF Far, Role

LEMMA MessagesTyped ==
    ASSUME EndTyped, NEW x \in End
    PROVE  /\ inbox[x] \in Seq(Message) /\ todo[x] \in Seq(Spans)
           /\ Len(inbox[x]) \in Nat /\ DOMAIN inbox[x] = 1..Len(inbox[x])
           /\ \A i \in DOMAIN inbox[x] :
                  /\ i \in Nat /\ inbox[x][i] \in Message
                  /\ inbox[x][i].type = "have" => inbox[x][i].vector \in Vector
                  /\ inbox[x][i].type = "events" => inbox[x][i].range \in Spans
           /\ \A i \in DOMAIN todo[x] : todo[x][i] \in Spans
           /\ batch[x] # None => batch[x] \in Spans
           /\ theirs[x] \in Vector /\ read[x] \in Nat
<1>1. inbox[x] \in Seq(Message) /\ todo[x] \in Seq(Spans)
  BY DEF EndTyped
<1>2. Len(inbox[x]) \in Nat /\ DOMAIN inbox[x] = 1..Len(inbox[x])
  BY <1>1, LenProperties
<1>3. \A i \in DOMAIN inbox[x] : i \in Nat /\ inbox[x][i] \in Message
  BY <1>1, <1>2, ElementOfSeq
<1>4. \A i \in DOMAIN todo[x] : todo[x][i] \in Spans
  BY <1>1, LenProperties, ElementOfSeq
<1>5. batch[x] # None => batch[x] \in Spans
  BY DEF EndTyped
<1>6. theirs[x] \in Vector /\ read[x] \in Nat
  BY DEF EndTyped
<1>7. QED
  BY <1>1, <1>2, <1>3, <1>4, <1>5, <1>6, MessageFacts

LEMMA TailMessages ==
    ASSUME EndTyped, NEW x \in End, inbox[x] # <<>>, inbox'[x] = Tail(inbox[x])
    PROVE  /\ 1 \in DOMAIN inbox[x] /\ Head(inbox[x]) = inbox[x][1]
           /\ \A i \in DOMAIN inbox'[x] : /\ i \in Nat /\ i + 1 \in DOMAIN inbox[x]
                                          /\ inbox'[x][i] = inbox[x][i + 1]
           /\ \A i \in DOMAIN inbox[x] :
                  i = 1 \/ (i - 1 \in DOMAIN inbox'[x] /\ inbox'[x][i - 1] = inbox[x][i])
<1> DEFINE n == Len(inbox[x])
<1>1. /\ n \in Nat /\ n >= 1 /\ Len(inbox'[x]) = n - 1 /\ Head(inbox[x]) = inbox[x][1]
      /\ inbox'[x] \in Seq(Message)
      /\ \A i \in 1..(n - 1) : inbox'[x][i] = inbox[x][i + 1]
  BY HeadFacts
<1>2. DOMAIN inbox[x] = 1..n /\ DOMAIN inbox'[x] = 1..(n - 1)
  BY <1>1, LenProperties, MessagesTyped
<1> HIDE DEF n
<1>3. ASSUME NEW i \in 1..n, i # 1
      PROVE  i - 1 \in 1..(n - 1) /\ inbox'[x][i - 1] = inbox[x][i]
  <2>1. i - 1 \in 1..(n - 1) /\ (i - 1) + 1 = i
    BY <1>1, <1>3
  <2>2. QED
    BY <1>1, <2>1
<1>4. \A i \in 1..(n - 1) : i \in Nat /\ i + 1 \in 1..n
  BY <1>1
<1>5. 1 \in 1..n
  BY <1>1
<1>6. QED
  BY <1>1, <1>2, <1>3, <1>4, <1>5

LEMMA AppendMessages ==
    ASSUME EndTyped, NEW x \in End, NEW m \in Message, inbox'[x] = Append(inbox[x], m)
    PROVE  LET n == Len(inbox[x])
           IN  /\ n \in Nat /\ DOMAIN inbox[x] = 1..n
               /\ DOMAIN inbox'[x] = 1..(n + 1) /\ n + 1 \in DOMAIN inbox'[x]
               /\ \A i \in DOMAIN inbox[x] :
                      i \in DOMAIN inbox'[x] /\ inbox'[x][i] = inbox[x][i]
               /\ inbox'[x][n + 1] = m
               /\ \A i \in DOMAIN inbox'[x] : i \in DOMAIN inbox[x] \/ i = n + 1
<1> DEFINE n == Len(inbox[x])
<1>1. /\ n \in Nat /\ Len(inbox'[x]) = n + 1 /\ inbox'[x] \in Seq(Message)
      /\ \A i \in 1..n : inbox'[x][i] = inbox[x][i]
      /\ inbox'[x][n + 1] = m
  BY SentFacts
<1>2. DOMAIN inbox[x] = 1..n /\ DOMAIN inbox'[x] = 1..(n + 1)
  BY <1>1, LenProperties, MessagesTyped
<1> HIDE DEF n
<1>3. n + 1 \in 1..(n + 1) /\ \A i \in 1..n : i \in 1..(n + 1)
  BY <1>1
<1>4. \A i \in 1..(n + 1) : i \in 1..n \/ i = n + 1
  BY <1>1
<1>5. QED
  BY <1>1, <1>2, <1>3, <1>4 DEF n

LEMMA SpanNotNone == \A b \in Spans : b # None
BY ReplicationAssumption DEF Spans

\* The ranges an end sets out to write: what it holds and the other does not.
Planned(x, other) ==
    /\ \A i \in DOMAIN todo'[x] : \E a \in Author :
           /\ todo'[x][i].author = a /\ todo'[x][i].from = other[a] + 1
           /\ todo'[x][i].to = have[Self(x)][a]
    /\ \A a \in Author : have[Self(x)][a] > other[a] =>
           \E i \in DOMAIN todo'[x] : /\ todo'[x][i].author = a
                                      /\ todo'[x][i].to = have[Self(x)][a]

LEMMA WritingStarts ==
    ASSUME Typed, NEW x \in End, NEW other \in Vector, StartWriting(x, other)
    PROVE  Planned(x, other) /\ \A z \in End \ {x} : todo'[z] = todo[z]
<1> DEFINE D == Diff(have[Self(x)], other)
<1>1. D \subseteq Spans /\ IsFiniteSet(D)
  BY DiffFacts, EndFacts DEF Typed, TypeOK
<1>2. Cardinality(D) \in Nat
  BY <1>1, FS_CardinalityType
<1>3. PICK s \in SetToSeqs(D) : todo' = [todo EXCEPT ![x] = s]
  BY DEF StartWriting
<1>4. todo'[x] = s /\ \A z \in End \ {x} : todo'[z] = todo[z]
  BY <1>3 DEF Typed, TypeOK
<1> DEFINE N == 1..Cardinality(D)
<1>5. s \in [N -> D] /\ \A i, j \in N : i # j => s[i] # s[j]
  BY <1>3 DEF SetToSeqs
<1> HIDE DEF D
<1>6. Cardinality(N) = Cardinality(D)
  BY <1>2, FS_Interval
<1> HIDE DEF N
<1>7. s \in Surjection(N, D)
  <2>1. s \in Injection(N, D)
    BY <1>5 DEF Injection, IsInjective
  <2>2. QED
    BY <1>1, <1>6, <2>1, FS_Injection
<1>8. DOMAIN s = N /\ (\A i \in N : s[i] \in D) /\ (\A d \in D : \E i \in N : s[i] = d)
  BY <1>5, <1>7 DEF Surjection
<1>9. \A i \in DOMAIN s : \E a \in Author : s[i] = Span(a, other[a] + 1, have[Self(x)][a])
  BY <1>8 DEF D, Diff
<1>10. \A a \in Author : have[Self(x)][a] > other[a] =>
           \E i \in DOMAIN s : s[i] = Span(a, other[a] + 1, have[Self(x)][a])
  BY <1>8 DEF D, Diff
<1>11. QED
  BY <1>4, <1>9, <1>10 DEF Planned, Span

-----------------------------------------------------------------------------
(* The steps of an end, seen from its call *)

Pending(x) == inbox[x] # <<>> /\ inbox'[x] = Tail(inbox[x])
StillHave == have' = have /\ held' = held /\ cut' = cut

\* Greet: the responder has the dialer's vector and sends its own.
Answers(x) ==
    LET y == Far(x)
    IN  /\ x[2] = "responder" /\ at[x] = "greeting" /\ at'[x] = "reading"
        /\ at[y] \in {"greeting", "failed", "idle"}
        /\ 1 \in DOMAIN inbox[x] /\ inbox[x][1].type = "have"
        /\ theirs'[x] = inbox[x][1].vector
        /\ inbox'[x] = <<>> /\ inbox'[y] = <<Have(have[Self(x)])>>
        /\ todo'[x] = <<>> /\ todo[y] = <<>>
        /\ batch'[x] = batch[x] /\ read'[x] = read[x] /\ StillHave

\* Greeted: the dialer has the responder's vector and starts to write.
Opens(x) ==
    LET y == Far(x)
    IN  /\ x[2] = "dialer" /\ at[x] = "greeting" /\ at'[x] = "writing"
        /\ at[y] \in {"reading", "failed", "idle"}
        /\ 1 \in DOMAIN inbox[x] /\ inbox[x][1].type = "have"
        /\ theirs'[x] = inbox[x][1].vector /\ Planned(x, theirs'[x])
        /\ inbox'[x] = <<>> /\ inbox'[y] = <<>>
        /\ todo[y] = <<>>
        /\ batch'[x] = batch[x] /\ read'[x] = read[x] /\ StillHave

\* Send: the message is appended to the other inbox, or lost with the stream.
Delivers(x, m) ==
    /\ m \in Message
    /\ at[x] = "writing"
    /\ \/ ~cut[x[1]] /\ inbox'[Far(x)] = Append(inbox[Far(x)], m)
       \/ cut[x[1]] /\ inbox'[Far(x)] = inbox[Far(x)] /\ inbox[Far(x)] = <<>>
    /\ inbox'[x] = inbox[x] /\ theirs'[x] = theirs[x]
    /\ batch'[x] = batch[x] /\ read'[x] = read[x] /\ StillHave

SendsEvents(x, r, last) ==
    /\ r \in Spans /\ 1 \in DOMAIN todo[x] /\ r = todo[x][1]
    /\ last \in Nat /\ r.from <= last /\ last <= r.to
    /\ Delivers(x, Events(Span(r.author, r.from, last)))
    /\ at'[x] = at[x]
    /\ \A i \in DOMAIN todo'[x] :
           \/ todo'[x][i] = Span(r.author, last + 1, r.to)
           \/ \E j \in DOMAIN todo[x] : todo'[x][i] = todo[x][j]
    /\ last < r.to => \E i \in DOMAIN todo'[x] : todo'[x][i] = Span(r.author, last + 1, r.to)
    /\ \A j \in DOMAIN todo[x] : j = 1 \/ \E i \in DOMAIN todo'[x] : todo'[x][i] = todo[x][j]

Ends(x) ==
    /\ todo[x] = <<>> /\ todo'[x] = <<>>
    /\ Delivers(x, EndOfEvents)
    /\ at'[x] = IF x[2] = "dialer" THEN "reading" ELSE "done"

\* A message is read: events for the batch, or what ends the reading.
Reads(x) ==
    /\ at[x] = "reading" /\ batch[x] = None /\ Pending(x)
    /\ todo[x] = <<>>
    /\ inbox'[Far(x)] = inbox[Far(x)] /\ theirs'[x] = theirs[x] /\ StillHave

Takes(x) ==
    /\ Reads(x) /\ inbox[x][1].type = "events"
    /\ at'[x] = "reading" /\ todo'[x] = <<>>
    /\ batch'[x] = inbox[x][1].range /\ read'[x] = read[x] + 1

Finishes(x) ==
    /\ Reads(x) /\ batch'[x] = None
    /\ \/ x[2] = "dialer" /\ at'[x] = "done" /\ todo'[x] = <<>>
       \/ x[2] = "responder" /\ at'[x] = "writing" /\ Planned(x, theirs[x])
    /\ \/ inbox[x][1].type = "end" /\ read'[x] = read[x]
       \/ read'[x] > MaxMessages

\* Fail, RustGivesUp.
Breaks(x) ==
    /\ at[x] \notin Over /\ at'[x] = "failed" /\ todo'[x] = <<>>
    /\ inbox'[x] = inbox[x] /\ inbox'[Far(x)] = inbox[Far(x)] /\ theirs'[x] = theirs[x]
    /\ batch'[x] = batch[x] /\ read'[x] = read[x] /\ StillHave

\* PutRead: one event of the batch is put.
Puts(x) ==
    LET b == batch[x]
    IN  /\ b # None /\ b \in Spans /\ PutEvent(Self(x), b.author, b.from)
        /\ at'[x] = at[x] /\ todo'[x] = todo[x] /\ inbox'[x] = inbox[x]
        /\ inbox'[Far(x)] = inbox[Far(x)] /\ theirs'[x] = theirs[x] /\ read'[x] = read[x]
        /\ cut' = cut
        /\ \/ b.from = b.to /\ batch'[x] = None
           \/ b.from < b.to /\ batch'[x] = Span(b.author, b.from + 1, b.to)

LEMMA GreetAnswers ==
    ASSUME TurnsInv, NEW x \in End, Greet(x)
    PROVE  Answers(x)
<1> DEFINE y == Far(x)
           m == Have(have[Self(x)])
<1>0. Typed /\ ReplicaTyped /\ EndTyped /\ Turns(x) /\ Turns(y) /\ y \in End /\ y # x
      /\ x[2] = "responder" /\ y[2] = "dialer" /\ Far(y) = x
  BY TypedParts, PairFacts DEF TurnsInv, Greet
<1> HIDE DEF y, m
<1>1. /\ at[x] = "greeting" /\ inbox[x] # <<>> /\ at' = [at EXCEPT ![x] = "reading"]
      /\ theirs' = [theirs EXCEPT ![x] = Head(inbox[x]).vector]
      /\ inbox' = [inbox EXCEPT ![x] = Tail(@), ![y] = Append(@, m)]
      /\ todo' = todo /\ batch' = batch /\ read' = read /\ StillHave
  BY DEF Greet, Quiet, replicaVars, StillHave, y, m
<1>2. /\ Head(inbox[x]) = inbox[x][1] /\ inbox[x][1].type = "have" /\ 1 \in DOMAIN inbox[x]
      /\ Tail(inbox[x]) = <<>>
  BY <1>0, <1>1, Greeting
<1>3. at[y] \in {"greeting", "failed", "idle"} /\ inbox[y] = <<>> /\ todo[x] = <<>> /\ todo[y] = <<>>
  BY <1>0, <1>1 DEF Turns, Greets, OneWriter, y
<1>4. /\ at'[x] = "reading" /\ theirs'[x] = inbox[x][1].vector
      /\ inbox'[x] = <<>> /\ inbox'[y] = Append(inbox[y], m)
      /\ todo'[x] = <<>> /\ batch'[x] = batch[x] /\ read'[x] = read[x]
  BY <1>0, <1>1, <1>2, <1>3 DEF EndTyped
<1>5. inbox'[y] = <<m>>
  BY <1>3, <1>4
<1>6. QED
  BY <1>0, <1>1, <1>2, <1>3, <1>4, <1>5 DEF Answers, y, m

LEMMA GreetedOpens ==
    ASSUME TurnsInv, NEW x \in End, Greeted(x)
    PROVE  Opens(x)
<1> DEFINE y == Far(x)
<1>0. Typed /\ EndTyped /\ Turns(x) /\ Turns(y) /\ y \in End /\ y # x
      /\ x[2] = "dialer" /\ y[2] = "responder" /\ Far(y) = x
  BY TypedParts, PairFacts DEF TurnsInv, Greeted
<1> HIDE DEF y
<1>1. /\ at[x] = "greeting" /\ inbox[x] # <<>> /\ at' = [at EXCEPT ![x] = "writing"]
      /\ theirs' = [theirs EXCEPT ![x] = Head(inbox[x]).vector]
      /\ inbox' = [inbox EXCEPT ![x] = Tail(@)]
      /\ StartWriting(x, Head(inbox[x]).vector)
      /\ batch' = batch /\ read' = read /\ StillHave
  BY DEF Greeted, Quiet, replicaVars, StillHave
<1>2. /\ Head(inbox[x]) = inbox[x][1] /\ inbox[x][1].type = "have" /\ 1 \in DOMAIN inbox[x]
      /\ Tail(inbox[x]) = <<>> /\ Head(inbox[x]).vector \in Vector
  BY <1>0, <1>1, Greeting
<1>3. Planned(x, Head(inbox[x]).vector)
  BY <1>0, <1>1, <1>2, WritingStarts
<1>4. at[y] \in {"reading", "failed", "idle"} /\ inbox[y] = <<>> /\ todo[y] = <<>>
  <2>1. at[y] # "greeting"
    BY <1>0, <1>1 DEF Turns, Greets
  <2>2. QED
    BY <1>0, <1>1, <2>1 DEF Turns, Greets, OneWriter, y
<1>5. /\ at'[x] = "writing" /\ theirs'[x] = inbox[x][1].vector
      /\ inbox'[x] = <<>> /\ inbox'[y] = <<>>
      /\ batch'[x] = batch[x] /\ read'[x] = read[x]
  BY <1>0, <1>1, <1>2, <1>4 DEF EndTyped
<1>6. QED
  BY <1>0, <1>1, <1>2, <1>3, <1>4, <1>5 DEF Opens, y

LEMMA SendDelivers ==
    ASSUME TurnsInv, NEW x \in End, NEW m \in Message, Send(x, m), at[x] = "writing",
           theirs' = theirs, batch' = batch, read' = read, Quiet
    PROVE  Delivers(x, m)
<1> DEFINE y == Far(x)
<1>0. EndTyped /\ Turns(y) /\ y \in End /\ y # x /\ y[1] = x[1]
  BY TypedParts, PairFacts DEF TurnsInv
<1> HIDE DEF y
<1>1. cut[x[1]] => inbox[y] = <<>>
  BY <1>0 DEF Turns, Greets
<1>2. /\ \/ ~cut[x[1]] /\ inbox'[y] = Append(inbox[y], m)
         \/ cut[x[1]] /\ inbox'[y] = inbox[y]
      /\ inbox'[x] = inbox[x]
  BY <1>0 DEF Send, EndTyped, y
<1>3. QED
  BY <1>1, <1>2 DEF Delivers, StillHave, Quiet, replicaVars, y

LEMMA WriterSends ==
    ASSUME TurnsInv, NEW x \in End, SendEvents(x)
    PROVE  \E r, last : SendsEvents(x, r, last)
<1>0. EndTyped
  BY TypedParts DEF TurnsInv
<1>1. PICK r, last, rest : Sent(x, r, last, rest)
  BY <1>0, SendEventsFacts
<1>2. /\ at[x] = "writing" /\ at' = at /\ theirs' = theirs /\ batch' = batch /\ read' = read
      /\ Quiet
  BY DEF SendEvents
<1>3. Events(Span(r.author, r.from, last)) \in Message
  BY <1>1, MessagesMade DEF Sent
<1>4. Delivers(x, Events(Span(r.author, r.from, last)))
  BY <1>1, <1>2, <1>3, SendDelivers DEF Sent
<1>5. todo'[x] = rest
  BY <1>0, <1>1 DEF Sent, EndTyped
<1>6. \A j \in DOMAIN todo[x] : j = 1 \/ j \in 2..Len(todo[x])
  BY <1>0, LenProperties DEF EndTyped
<1>7. QED
  BY <1>1, <1>2, <1>4, <1>5, <1>6 DEF SendsEvents, Sent

LEMMA WriterEnds ==
    ASSUME TurnsInv, NEW x \in End, SendEnd(x)
    PROVE  Ends(x)
<1>0. EndTyped
  BY TypedParts DEF TurnsInv
<1>1. /\ at[x] = "writing" /\ todo[x] = <<>> /\ Send(x, EndOfEvents)
      /\ at' = [at EXCEPT ![x] = IF x[2] = "dialer" THEN "reading" ELSE "done"]
      /\ theirs' = theirs /\ todo' = todo /\ batch' = batch /\ read' = read /\ Quiet
  BY DEF SendEnd
<1>2. Delivers(x, EndOfEvents)
  BY <1>1, MessagesMade, SendDelivers
<1>3. QED
  BY <1>0, <1>1, <1>2 DEF Ends, EndTyped

LEMMA ReaderReads ==
    ASSUME TurnsInv, NEW x \in End, NEW type, Reading(x, type), theirs' = theirs, Quiet
    PROVE  Reads(x) /\ inbox[x][1].type = type
<1> DEFINE y == Far(x)
<1>0. EndTyped /\ Turns(x) /\ y \in End /\ y # x
  BY TypedParts, PairFacts DEF TurnsInv
<1> HIDE DEF y
<1>1. /\ at[x] = "reading" /\ batch[x] = None /\ inbox[x] # <<>>
      /\ Head(inbox[x]).type = type /\ inbox' = [inbox EXCEPT ![x] = Tail(@)]
  BY DEF Reading
<1>2. inbox'[x] = Tail(inbox[x]) /\ inbox'[y] = inbox[y]
  BY <1>0, <1>1 DEF EndTyped
<1>3. Head(inbox[x]) = inbox[x][1]
  BY <1>0, <1>1, HeadFacts
<1>4. todo[x] = <<>>
  BY <1>0, <1>1 DEF Turns, OneWriter
<1>5. QED
  BY <1>1, <1>2, <1>3, <1>4 DEF Reads, Pending, StillHave, Quiet, replicaVars, y

LEMMA ReaderTakes ==
    ASSUME TurnsInv, NEW x \in End, ReadEvents(x)
    PROVE  Takes(x)
<1>0. EndTyped
  BY TypedParts DEF TurnsInv
<1>1. /\ Reading(x, "events") /\ read' = [read EXCEPT ![x] = @ + 1]
      /\ batch' = [batch EXCEPT ![x] = Head(inbox[x]).range]
      /\ at' = at /\ theirs' = theirs /\ todo' = todo /\ Quiet
  BY DEF ReadEvents
<1>2. Reads(x) /\ inbox[x][1].type = "events"
  BY <1>1, ReaderReads
<1>3. Head(inbox[x]) = inbox[x][1]
  BY <1>0, <1>1, HeadFacts DEF Reading
<1>4. QED
  BY <1>0, <1>1, <1>2, <1>3 DEF Takes, Reads, EndTyped

LEMMA ReaderFinishes ==
    ASSUME TurnsInv, NEW x \in End, StopReading(x) \/ ReadEnd(x)
    PROVE  Finishes(x)
<1>0. Typed /\ EndTyped
  BY TypedParts DEF TurnsInv
<1>1. /\ DoneReading(x) /\ theirs' = theirs /\ batch' = batch /\ Quiet
      /\ \/ Reading(x, "end") /\ read' = read
         \/ /\ Reading(x, "events") /\ read[x] >= MaxMessages
            /\ read' = [read EXCEPT ![x] = @ + 1]
  BY DEF StopReading, ReadEnd
<1>2. Reads(x) /\ ((inbox[x][1].type = "end" /\ read'[x] = read[x]) \/ read'[x] > MaxMessages)
  <2>1. CASE Reading(x, "end") /\ read' = read
    BY <1>1, <2>1, ReaderReads
  <2>2. CASE /\ Reading(x, "events") /\ read[x] >= MaxMessages
             /\ read' = [read EXCEPT ![x] = @ + 1]
    <3>1. read[x] \in Nat /\ MaxMessages \in Nat /\ read'[x] = read[x] + 1
      BY <1>0, <2>2, ReplicationAssumption DEF EndTyped
    <3>2. read'[x] > MaxMessages
      BY <2>2, <3>1
    <3>3. QED
      BY <1>1, <2>2, <3>2, ReaderReads
  <2>3. QED
    BY <1>1, <2>1, <2>2
<1>3. \/ x[2] = "dialer" /\ at'[x] = "done" /\ todo'[x] = <<>>
      \/ x[2] = "responder" /\ at'[x] = "writing" /\ Planned(x, theirs[x])
  <2>1. theirs[x] \in Vector /\ todo[x] = <<>>
    BY <1>0, <1>2 DEF EndTyped, Reads
  <2>2. QED
    BY <1>0, <1>1, <2>1, WritingStarts DEF DoneReading, EndTyped
<1>4. QED
  BY <1>1, <1>2, <1>3 DEF Finishes, Reads

LEMMA EndBreaks ==
    ASSUME TurnsInv, NEW x \in End, Fail(x) \/ RustGivesUp(x)
    PROVE  Breaks(x)
<1>0. EndTyped /\ Turns(x)
  BY TypedParts DEF TurnsInv
<1>1. /\ at[x] \notin Over /\ at' = [at EXCEPT ![x] = "failed"]
      /\ inbox' = inbox /\ theirs' = theirs /\ batch' = batch /\ read' = read /\ Quiet
      /\ \/ todo' = [todo EXCEPT ![x] = <<>>]
         \/ todo' = todo /\ at[x] = "reading"
  BY DEF Fail, RustGivesUp, Over
<1>2. todo'[x] = <<>>
  BY <1>0, <1>1 DEF EndTyped, Turns, OneWriter
<1>3. QED
  BY <1>0, <1>1, <1>2 DEF Breaks, EndTyped, StillHave, Quiet, replicaVars

LEMMA ReaderPuts ==
    ASSUME TurnsInv, NEW x \in End, PutRead(x)
    PROVE  Puts(x)
<1> DEFINE b == batch[x]
<1>0. EndTyped
  BY TypedParts DEF TurnsInv
<1>1. /\ b # None /\ PutEvent(Self(x), b.author, b.from)
      /\ batch' = [batch EXCEPT ![x] = IF b.from = b.to THEN None
                                       ELSE Span(b.author, b.from + 1, b.to)]
      /\ at' = at /\ inbox' = inbox /\ theirs' = theirs /\ todo' = todo /\ read' = read
      /\ cut' = cut
  BY DEF PutRead
<1>2. b \in Spans
  BY <1>0, <1>1 DEF EndTyped
<1>3. b.from \in Nat /\ b.to \in Nat /\ b.from <= b.to
  BY <1>2, SpanFacts
<1>4. batch'[x] = IF b.from = b.to THEN None ELSE Span(b.author, b.from + 1, b.to)
  BY <1>0, <1>1 DEF EndTyped
<1>5. QED
  BY <1>1, <1>2, <1>3, <1>4 DEF Puts

LEMMA StepCases ==
    ASSUME TurnsInv, NEW x \in End, Step(x)
    PROVE  \/ Answers(x) \/ Opens(x) \/ (\E r, last : SendsEvents(x, r, last)) \/ Ends(x)
           \/ Takes(x) \/ Finishes(x) \/ Breaks(x) \/ Puts(x)
BY GreetAnswers, GreetedOpens, WriterSends, WriterEnds, ReaderTakes, ReaderFinishes,
   EndBreaks, ReaderPuts DEF Step

-----------------------------------------------------------------------------
(* Only a restart makes a log shorter, and never its author's own *)

LEMMA HaveGrows ==
    ASSUME TurnsInv, [Next]_vars
    PROVE  \A p \in Peer, a \in Author :
               /\ have'[p][a] \in Nat /\ have[p][a] \in Nat
               /\ ~Crash(p) \/ Home[a] = p => have'[p][a] >= have[p][a]
<1>0. ReplicaTyped /\ EndTyped /\ Typed'
  BY TypedParts, TypedNext DEF TurnsInv
<1>1. /\ \A p \in Peer, a \in Author : have'[p][a] \in Nat /\ have[p][a] \in Nat
  BY <1>0 DEF Typed, TypeOK, ReplicaTyped, Vector
<1>2. ASSUME have' = have PROVE \A p \in Peer, a \in Author : have'[p][a] >= have[p][a]
  BY <1>1, <1>2
<1>3. ASSUME NEW a \in Author, Write(a)
      PROVE  \A p \in Peer, b \in Author : have'[p][b] >= have[p][b]
  BY <1>0, <1>3 DEF Write, ReplicaTyped, Vector
<1>4. ASSUME NEW p \in Peer, NEW a \in Author, NEW s \in 1..MaxLen, Gossip(p, a, s)
      PROVE  \A q \in Peer, b \in Author : have'[q][b] >= have[q][b]
  BY <1>0, <1>4, PutGrows DEF Gossip, Published
<1>5. ASSUME NEW x \in End, PutRead(x)
      PROVE  \A q \in Peer, b \in Author : have'[q][b] >= have[q][b]
  <2>1. batch[x] \in Spans /\ PutEvent(Self(x), batch[x].author, batch[x].from)
    BY <1>5, ReaderPuts DEF Puts
  <2>2. batch[x].author \in Author /\ batch[x].from \in Nat /\ Self(x) \in Peer
    BY <2>1, SpanFacts, EndFacts
  <2>3. QED
    BY <1>0, <2>1, <2>2, PutGrows
<1>6. ASSUME NEW x \in End, Step(x), ~PutRead(x) PROVE have' = have
  BY <1>6, StepFrame DEF TurnsInv
<1>7. ASSUME NEW c \in Call, Dial(c) \/ Cut(c) PROVE have' = have
  BY <1>7 DEF Dial, Cut, replicaVars
<1>8. ASSUME NEW p \in Peer, Crash(p), NEW q \in Peer, NEW a \in Author, q # p \/ Home[a] = q
      PROVE  have'[q][a] >= have[q][a]
  <2>1. PICK left \in [Author -> 0..MaxLen] :
            /\ \A b \in Author : Home[b] = p => left[b] = have[p][b]
            /\ have' = [have EXCEPT ![p] = left]
    BY <1>8 DEF Crash
  <2>2. have'[q][a] = have[q][a]
    BY <1>0, <1>8, <2>1 DEF ReplicaTyped
  <2>3. QED
    BY <1>1, <2>2
<1>9. ASSUME UNCHANGED vars PROVE have' = have
  BY <1>9 DEF vars, replicaVars
<1>10. QED
  BY <1>1, <1>2, <1>3, <1>4, <1>5, <1>6, <1>7, <1>8, <1>9 DEF Next

\* A step of an end is no restart.
LEMMA StepIsNoCrash == ASSUME TurnsInv, NEW x \in End, Step(x), NEW p PROVE ~Crash(p)
<1>1. crashes \in Nat
  BY TypedParts, ReplicationAssumption DEF TurnsInv, RestTyped
<1>2. crashes' = crashes
  BY StepFrame DEF TurnsInv
<1>3. QED
  BY <1>1, <1>2 DEF Crash, Stop

-----------------------------------------------------------------------------
(* What is on its way is in the log of its author *)

\* While they can talk, no vector announces more than its sender holds.
Vectors(x) == ~cut[x[1]] =>
    \A a \in Author :
        /\ theirs[x][a] <= have[Self(Far(x))][a]
        /\ \A i \in DOMAIN inbox[x] : inbox[x][i].type = "have" =>
              inbox[x][i].vector[a] <= have[Self(Far(x))][a]

InLog(r) == r.to <= have[Home[r.author]][r.author]

Bounded(x) ==
    /\ batch[x] # None => InLog(batch[x])
    /\ \A i \in DOMAIN inbox[x] : inbox[x][i].type = "events" => InLog(inbox[x][i].range)
    /\ \A i \in DOMAIN todo[x] : InLog(todo[x][i])

CopyInv == TurnsInv /\ CopiesOfHome /\ \A x \in End : Vectors(x) /\ Bounded(x)

\* Vectors come from inboxes, or are what the sender has.
VectorsMove(z) ==
    /\ \/ theirs'[z] = theirs[z] \/ theirs'[z] = Nothing
       \/ \E j \in DOMAIN inbox[z] : /\ inbox[z][j].type = "have"
                                     /\ theirs'[z] = inbox[z][j].vector
    /\ \A i \in DOMAIN inbox'[z] : inbox'[z][i].type = "have" =>
          \/ \E j \in DOMAIN inbox[z] : inbox'[z][i] = inbox[z][j]
          \/ inbox'[z][i].vector = have[Self(Far(z))]

Shortens(r, s) == r.author = s.author /\ r.to <= s.to

\* Ranges come from ranges, or from what the writer has.
RangesMove(z) ==
    /\ batch'[z] # None =>
          \/ batch[z] # None /\ Shortens(batch'[z], batch[z])
          \/ \E j \in DOMAIN inbox[z] : /\ inbox[z][j].type = "events"
                                        /\ batch'[z] = inbox[z][j].range
    /\ \A i \in DOMAIN inbox'[z] : inbox'[z][i].type = "events" =>
          \/ \E j \in DOMAIN inbox[z] : inbox'[z][i] = inbox[z][j]
          \/ \E j \in DOMAIN todo[Far(z)] : Shortens(inbox'[z][i].range, todo[Far(z)][j])
    /\ \A i \in DOMAIN todo'[z] :
          \/ \E j \in DOMAIN todo[z] : Shortens(todo'[z][i], todo[z][j])
          \/ \E a \in Author : todo'[z][i].author = a /\ todo'[z][i].to = have[Self(z)][a]

Moves(z) == VectorsMove(z) /\ RangesMove(z)

LEMMA Still ==
    ASSUME EndTyped, NEW z \in End,
           \/ theirs'[z] = theirs[z] \/ theirs'[z] = Nothing,
           \/ batch'[z] = batch[z] \/ batch'[z] = None,
           \/ inbox'[z] = inbox[z] \/ inbox'[z] = <<>>,
           \/ todo'[z] = todo[z] \/ todo'[z] = <<>>
    PROVE  Moves(z)
<1>1. DOMAIN <<>> = {}
  OBVIOUS
<1>2. /\ \A i \in DOMAIN todo[z] : Shortens(todo[z][i], todo[z][i])
      /\ batch[z] # None => Shortens(batch[z], batch[z])
  BY MessagesTyped, SpanFacts DEF Shortens
<1>3. VectorsMove(z)
  BY <1>1 DEF VectorsMove
<1>4. RangesMove(z)
  BY <1>1, <1>2 DEF RangesMove
<1>5. QED
  BY <1>3, <1>4 DEF Moves

LEMMA StepMoves ==
    ASSUME TurnsInv, NEW x \in End, Step(x)
    PROVE  Moves(x) /\ Moves(Far(x))
<1> DEFINE y == Far(x)
<1>0. EndTyped /\ y \in End /\ y # x /\ Far(y) = x
  BY TypedParts, PairFacts DEF TurnsInv
<1>1. at'[y] = at[y] /\ theirs'[y] = theirs[y] /\ todo'[y] = todo[y] /\ batch'[y] = batch[y]
  BY <1>0, StepFrame DEF TurnsInv
<1> HIDE DEF y
<1>2. DOMAIN <<>> = {}
  OBVIOUS
<1>3. /\ \A i \in DOMAIN todo[y] : Shortens(todo[y][i], todo[y][i])
      /\ \A i \in DOMAIN todo[x] : Shortens(todo[x][i], todo[x][i])
      /\ batch[x] # None => Shortens(batch[x], batch[x])
      /\ batch[y] # None => Shortens(batch[y], batch[y])
  BY <1>0, MessagesTyped, SpanFacts DEF Shortens
<1>4. ASSUME inbox'[y] = inbox[y] PROVE Moves(y)
  BY <1>0, <1>1, <1>4, Still
<1>5. CASE Answers(x)
  <2>1. Moves(x)
    BY <1>2, <1>3, <1>5 DEF Answers, Moves, VectorsMove, RangesMove
  <2>2. Have(have[Self(x)]).type = "have" /\ Have(have[Self(x)]).vector = have[Self(x)]
    BY DEF Have
  <2>3. inbox'[y] = <<Have(have[Self(x)])>>
    BY <1>5 DEF Answers, y
  <2>4. \A i \in DOMAIN inbox'[y] : inbox'[y][i].type = "have"
                                    /\ inbox'[y][i].vector = have[Self(Far(y))]
    BY <1>0, <2>2, <2>3
  <2>5. Moves(y)
    BY <1>1, <1>3, <2>4 DEF Moves, VectorsMove, RangesMove
  <2>6. QED
    BY <2>1, <2>5 DEF y
<1>6. CASE Opens(x)
  <2>1. VectorsMove(x)
    BY <1>2, <1>6 DEF Opens, VectorsMove
  <2>2. RangesMove(x)
    BY <1>2, <1>3, <1>6 DEF Opens, Planned, RangesMove
  <2>3. Moves(y)
    BY <1>0, <1>1, <1>6, Still DEF Opens, y
  <2>4. QED
    BY <2>1, <2>2, <2>3 DEF Moves, y
<1>7. ASSUME NEW m, Delivers(x, m), m.type # "have",
             m.type = "events" => \E j \in DOMAIN todo[x] : Shortens(m.range, todo[x][j])
      PROVE  Moves(y)
  <2>1. CASE inbox'[y] = inbox[y]
    BY <1>4, <2>1
  <2>2. CASE inbox'[y] = Append(inbox[y], m)
    <3>1. \A i \in DOMAIN inbox'[y] :
              (i \in DOMAIN inbox[y] /\ inbox'[y][i] = inbox[y][i]) \/ inbox'[y][i] = m
      BY <1>0, <1>7, <2>2, AppendMessages DEF Delivers
    <3>2. VectorsMove(y)
      BY <1>1, <1>7, <3>1 DEF VectorsMove
    <3>3. RangesMove(y)
      BY <1>0, <1>1, <1>3, <1>7, <3>1 DEF RangesMove
    <3>4. QED
      BY <3>2, <3>3 DEF Moves
  <2>3. QED
    BY <1>7, <2>1, <2>2 DEF Delivers, y
<1>8. ASSUME NEW r, NEW last, SendsEvents(x, r, last) PROVE Moves(x) /\ Moves(y)
  <2> DEFINE m == Events(Span(r.author, r.from, last))
  <2>1. /\ r.from \in Nat /\ r.to \in Nat /\ last \in Nat /\ last <= r.to
        /\ 1 \in DOMAIN todo[x] /\ todo[x][1] = r
    BY <1>8, SpanFacts DEF SendsEvents
  <2>2. /\ m.type = "events" /\ m.range.author = r.author /\ m.range.to = last
    BY DEF Events, Span
  <2>3. /\ Span(r.author, last + 1, r.to).author = r.author
        /\ Span(r.author, last + 1, r.to).to = r.to
    BY DEF Span
  <2> HIDE DEF m
  <2>4. Shortens(m.range, r) /\ Shortens(Span(r.author, last + 1, r.to), r)
    BY <2>1, <2>2, <2>3 DEF Shortens
  <2>5. Moves(y)
    BY <1>7, <1>8, <2>1, <2>2, <2>4 DEF SendsEvents, m
  <2>6. \A i \in DOMAIN todo'[x] : \E j \in DOMAIN todo[x] : Shortens(todo'[x][i], todo[x][j])
    BY <1>3, <1>8, <2>1, <2>4 DEF SendsEvents
  <2>7. Moves(x)
    BY <1>3, <1>8, <2>6 DEF SendsEvents, Delivers, Moves, VectorsMove, RangesMove
  <2>8. QED
    BY <2>5, <2>7
<1>9. CASE Ends(x)
  <2>1. Moves(y)
    BY <1>7, <1>9 DEF Ends, EndOfEvents
  <2>2. Moves(x)
    BY <1>0, <1>9, Still DEF Ends, Delivers
  <2>3. QED
    BY <2>1, <2>2 DEF y
<1>10. CASE Takes(x) \/ Finishes(x)
  <2>1. /\ 1 \in DOMAIN inbox[x]
        /\ \A i \in DOMAIN inbox'[x] : \E j \in DOMAIN inbox[x] : inbox'[x][i] = inbox[x][j]
    BY <1>0, <1>10, TailMessages DEF Takes, Finishes, Reads, Pending
  <2>2. VectorsMove(x)
    BY <1>10, <2>1 DEF Takes, Finishes, Reads, VectorsMove
  <2>3. RangesMove(x)
    BY <1>2, <1>10, <2>1 DEF Takes, Finishes, Reads, Planned, RangesMove
  <2>4. Moves(y)
    BY <1>4, <1>10 DEF Takes, Finishes, Reads, y
  <2>5. QED
    BY <2>2, <2>3, <2>4 DEF Moves, y
<1>11. CASE Breaks(x)
  BY <1>0, <1>4, <1>11, Still DEF Breaks, y
<1>12. CASE Puts(x)
  <2>1. Moves(y)
    BY <1>4, <1>12 DEF Puts, y
  <2>2. batch'[x] # None => Shortens(batch'[x], batch[x])
    BY <1>12, SpanFacts DEF Puts, Span, Shortens
  <2>3. Moves(x)
    BY <1>3, <1>12, <2>2 DEF Puts, Moves, VectorsMove, RangesMove
  <2>4. QED
    BY <2>1, <2>3 DEF y
<1>13. QED
  BY <1>5, <1>6, <1>8, <1>9, <1>10, <1>11, <1>12, StepCases DEF y

LEMMA NextMoves ==
    ASSUME TurnsInv, [Next]_vars, NEW z \in End
    PROVE  Moves(z)
<1>0. EndTyped
  BY TypedParts DEF TurnsInv
<1>1. ASSUME NEW x \in End, Step(x) PROVE Moves(z)
  <2>1. CASE z \in {x, Far(x)}
    BY <1>1, <2>1, StepMoves
  <2>2. CASE z \notin {x, Far(x)}
    BY <1>0, <1>1, <2>2, StepFrame, Still DEF TurnsInv
  <2>3. QED
    BY <2>1, <2>2
<1>2. ASSUME UNCHANGED endVars PROVE Moves(z)
  BY <1>0, <1>2, Still DEF endVars
<1>3. ASSUME NEW c \in Call, Dial(c) PROVE Moves(z)
  <2> DEFINE r == <<c, "responder">>
             m == Have(have[c[1]])
  <2>1. r \in End /\ Self(Far(r)) = c[1]
    BY CallFacts
  <2> HIDE DEF r
  <2>2. m.type = "have" /\ m.vector = have[c[1]]
    BY DEF Have
  <2> HIDE DEF m
  <2>3. /\ \/ theirs'[z] = theirs[z] \/ theirs'[z] = Nothing
        /\ \/ batch'[z] = batch[z] \/ batch'[z] = None
        /\ \/ todo'[z] = todo[z] \/ todo'[z] = <<>>
        /\ \/ inbox'[z] = inbox[z] \/ inbox'[z] = <<>> \/ (z = r /\ inbox'[z] = <<m>>)
    BY <1>0, <1>3 DEF Dial, EndTyped, r, m
  <2>4. CASE z = r /\ inbox'[z] = <<m>>
    <3>1. \A i \in DOMAIN inbox'[z] : inbox'[z][i] = m
      BY <2>4
    <3>2. VectorsMove(z)
      BY <2>1, <2>2, <2>3, <2>4, <3>1 DEF VectorsMove
    <3>3. /\ \A i \in DOMAIN todo[z] : Shortens(todo[z][i], todo[z][i])
          /\ batch[z] # None => Shortens(batch[z], batch[z])
      BY <1>0, MessagesTyped, SpanFacts DEF Shortens
    <3>4. DOMAIN <<>> = {}
      OBVIOUS
    <3>5. RangesMove(z)
      BY <2>2, <2>3, <3>1, <3>3, <3>4 DEF RangesMove
    <3>6. QED
      BY <3>2, <3>5 DEF Moves
  <2>5. QED
    BY <1>0, <2>3, <2>4, Still
<1>4. ASSUME NEW c \in Call, Cut(c) PROVE Moves(z)
  BY <1>0, <1>4, Still DEF Cut
<1>5. ASSUME NEW p \in Peer, Crash(p) PROVE Moves(z)
  BY <1>0, <1>5, Still DEF Crash, Stop
<1>6. QED
  BY <1>1, <1>2, <1>3, <1>4, <1>5 DEF Next, Write, Gossip, Published, vars

LEMMA CopiesNext ==
    ASSUME CopyInv, [Next]_vars
    PROVE  CopiesOfHome'
<1>0. ReplicaTyped /\ EndTyped /\ CopiesOfHome /\ TurnsInv
  BY TypedParts DEF CopyInv, TurnsInv
<1>1. ASSUME UNCHANGED replicaVars PROVE CopiesOfHome'
  BY <1>0, <1>1 DEF CopiesOfHome, replicaVars
<1>2. ASSUME NEW a \in Author, Write(a) PROVE CopiesOfHome'
  <2> DEFINE w == Home[a]
  <2>1. /\ w \in Peer /\ held' = held
        /\ have' = [have EXCEPT ![w][a] = @ + 1]
    BY <1>2, ReplicationAssumption DEF Write
  <2>2. \A p \in Peer, b \in Author :
            /\ have[p][b] \in Nat
            /\ have'[p][b] = IF p = w /\ b = a THEN have[p][b] + 1 ELSE have[p][b]
            /\ Home[b] \in Peer
    BY <1>0, <2>1, ReplicationAssumption DEF ReplicaTyped, Vector
  <2> HIDE DEF w
  <2>3. ASSUME NEW p \in Peer, NEW b \in Author
        PROVE  /\ have'[p][b] <= have'[Home[b]][b]
               /\ \A h \in held'[p] : h[1] = b => /\ h[2] > have'[p][b] + 1
                                                  /\ h[2] <= have'[Home[b]][b]
    <3>1. \A h \in held[p] : h[2] \in Nat
      BY <1>0 DEF ReplicaTyped
    <3>2. /\ have[p][b] <= have[Home[b]][b]
          /\ \A h \in held[p] : h[1] = b => /\ h[2] > have[p][b] + 1
                                            /\ h[2] <= have[Home[b]][b]
      BY <1>0 DEF CopiesOfHome
    <3>3. \A h \in held[p] : h[1] = b => p # Home[b]
      BY <2>2, <3>1, <3>2
    <3>4. QED
      BY <2>1, <2>2, <3>1, <3>2, <3>3 DEF w
  <2>4. QED
    BY <2>3 DEF CopiesOfHome
<1>3. ASSUME NEW p \in Peer, NEW a \in Author, NEW s \in 1..MaxLen, Gossip(p, a, s)
      PROVE  CopiesOfHome'
  <2>1. s <= have[Home[a]][a] /\ PutEvent(p, a, s) /\ s \in Nat
    BY <1>3 DEF Gossip, Published
  <2>2. QED
    BY <1>0, <2>1, PutCopies
<1>4. ASSUME NEW x \in End, PutRead(x) PROVE CopiesOfHome'
  <2> DEFINE b == batch[x]
  <2>1. b # None /\ b \in Spans /\ PutEvent(Self(x), b.author, b.from)
    BY <1>0, <1>4, ReaderPuts DEF Puts
  <2>2. b.author \in Author /\ b.from \in Nat /\ b.to \in Nat /\ b.from <= b.to
    BY <2>1, SpanFacts
  <2>3. b.to <= have[Home[b.author]][b.author]
    BY <2>1 DEF CopyInv, Bounded, InLog
  <2>4. have[Home[b.author]][b.author] \in Nat
    BY <1>0, <2>2, ReplicationAssumption DEF ReplicaTyped, Vector
  <2>5. b.from <= have[Home[b.author]][b.author] /\ Self(x) \in Peer
    BY <2>2, <2>3, <2>4, EndFacts
  <2>6. QED
    BY <1>0, <2>1, <2>2, <2>5, PutCopies
<1>5. ASSUME NEW x \in End, Step(x), ~PutRead(x) PROVE UNCHANGED replicaVars
  BY <1>0, <1>5 DEF Step, Greet, Greeted, SendEvents, SendEnd, ReadEvents, StopReading,
                    RustGivesUp, ReadEnd, Fail, Quiet
<1>6. ASSUME NEW p \in Peer, Crash(p) PROVE CopiesOfHome'
  <2>1. PICK left \in [Author -> 0..MaxLen] :
            /\ \A a \in Author : /\ left[a] <= have[p][a]
                                 /\ Home[a] = p => left[a] = have[p][a]
            /\ have' = [have EXCEPT ![p] = left]
    BY <1>6 DEF Crash
  <2>2. held' = [held EXCEPT ![p] = {}]
    BY <1>6 DEF Crash, Stop
  <2>3. \A q \in Peer, a \in Author :
            /\ Home[a] \in Peer /\ have[q][a] \in Nat /\ left[a] \in Nat
            /\ have'[q][a] = IF q = p THEN left[a] ELSE have[q][a]
            /\ held'[q] = IF q = p THEN {} ELSE held[q]
    BY <1>0, <2>1, <2>2, ReplicationAssumption DEF ReplicaTyped, Vector
  <2>4. \A a \in Author : have'[Home[a]][a] = have[Home[a]][a]
    BY <2>1, <2>3
  <2>5. \A q \in Peer, a \in Author : have'[q][a] <= have[q][a]
    BY <2>1, <2>3
  <2>6. \A q \in Peer, a \in Author : have'[q][a] \in Nat /\ have[Home[a]][a] \in Nat
    BY <2>3
  <2>7. ASSUME NEW q \in Peer, NEW a \in Author
        PROVE  /\ have'[q][a] <= have'[Home[a]][a]
               /\ \A h \in held'[q] : h[1] = a => /\ h[2] > have'[q][a] + 1
                                                  /\ h[2] <= have'[Home[a]][a]
    <3>1. /\ have[q][a] <= have[Home[a]][a]
          /\ \A h \in held[q] : h[1] = a => /\ h[2] > have[q][a] + 1
                                            /\ h[2] <= have[Home[a]][a]
      BY <1>0 DEF CopiesOfHome
    <3>2. have'[q][a] <= have'[Home[a]][a]
      BY <2>3, <2>4, <2>5, <2>6, <3>1
    <3>3. q = p => held'[q] = {}
      BY <2>3
    <3>4. q # p => held'[q] = held[q] /\ have'[q][a] = have[q][a]
      BY <2>3
    <3>5. QED
      BY <2>4, <3>1, <3>2, <3>3, <3>4
  <2>8. QED
    BY <2>7 DEF CopiesOfHome
<1>7. ASSUME NEW c \in Call, Dial(c) \/ Cut(c) PROVE UNCHANGED replicaVars
  BY <1>7 DEF Dial, Cut
<1>8. ASSUME UNCHANGED vars PROVE UNCHANGED replicaVars
  BY <1>8 DEF vars
<1>9. QED
  BY <1>1, <1>2, <1>3, <1>4, <1>5, <1>6, <1>7, <1>8 DEF Next

\* A call that is up was up before, and its peers did not restart, or is new.
LEMMA LiveCalls ==
    ASSUME TurnsInv, [Next]_vars, NEW z \in End, ~cut'[z[1]]
    PROVE  Dial(z[1]) \/ (~cut[z[1]] /\ ~Crash(Self(Far(z))))
<1>0. RestTyped /\ Typed /\ z[1] \in Call /\ Self(Far(z)) \in {z[1][1], z[1][2]}
  BY TypedParts, PairFacts DEF TurnsInv, Self, Far
<1>1. ASSUME NEW p, Crash(p)
      PROVE  (cut[z[1]] => cut'[z[1]]) /\ (p \in {z[1][1], z[1][2]} => cut'[z[1]])
  BY <1>0, <1>1 DEF Crash, Stop
<1>2. ASSUME NEW c \in Call, Cut(c) PROVE cut[z[1]] => cut'[z[1]]
  BY <1>0, <1>2 DEF Cut, RestTyped
<1>3. ASSUME NEW c \in Call, Dial(c), c # z[1] PROVE cut'[z[1]] = cut[z[1]]
  BY <1>0, <1>3 DEF Dial, RestTyped
<1>4. ASSUME NEW x \in End, Step(x) PROVE cut' = cut
  BY <1>0, <1>4, StepFrame
<1>5. ~Dial(z[1]) => ~cut[z[1]]
  BY <1>0, <1>1, <1>2, <1>3, <1>4 DEF Next, Write, Gossip, Published, vars
<1>6. QED
  BY <1>0, <1>1, <1>5

\* Both ends of a new call start from nothing but what the dialer says it has.
LEMMA DialedVectors ==
    ASSUME CopyInv, NEW z \in End, Dial(z[1])
    PROVE  Vectors(z)'
<1> DEFINE d == <<z[1], "dialer">>
           r == <<z[1], "responder">>
           m == Have(have[z[1][1]])
<1>1. /\ z \in {d, r} /\ d \in End /\ r \in End /\ Self(Far(r)) = z[1][1] /\ z[1] \in Call
  BY PairFacts, CallFacts, EndFacts
<1>2. EndTyped /\ ReplicaTyped
  BY TypedParts DEF CopyInv, TurnsInv
<1>3. /\ theirs'[z] = Nothing /\ inbox'[d] = <<>> /\ inbox'[r] = <<m>> /\ have' = have
  BY <1>1, <1>2 DEF Dial, EndTyped, replicaVars
<1>4. m.type = "have" /\ m.vector = have[z[1][1]]
  BY DEF Have
<1> HIDE DEF d, r, m
<1>5. DOMAIN <<>> = {} /\ \A i \in DOMAIN <<m>> : <<m>>[i] = m
  OBVIOUS
<1>6. Self(Far(z)) \in Peer /\ Self(Far(z))' = Self(Far(z))
  BY PairFacts DEF Self, Far
<1>7. \A a \in Author : /\ have[Self(Far(z))][a] \in Nat /\ Nothing[a] = 0
                        /\ have[Self(Far(z))][a] <= have[Self(Far(z))][a]
  BY <1>2, <1>6 DEF ReplicaTyped, Vector, Nothing
<1>8. \A i \in DOMAIN inbox'[z] : inbox'[z][i].vector = have[Self(Far(z))]
  BY <1>1, <1>3, <1>4, <1>5
<1>9. QED
  BY <1>3, <1>6, <1>7, <1>8 DEF Vectors

LEMMA VectorsNext ==
    ASSUME CopyInv, [Next]_vars, NEW z \in End
    PROVE  Vectors(z)'
<1>0. /\ TurnsInv /\ EndTyped /\ EndTyped' /\ ReplicaTyped /\ Vectors(z) /\ Moves(z)
      /\ Far(z) \in End /\ Self(Far(z)) \in Peer
  BY TypedParts, TypedNext, NextMoves, PairFacts
     DEF CopyInv, TurnsInv, Typed, TypeOK, EndTyped
<1> SUFFICES ASSUME ~cut'[z[1]], ~Dial(z[1]) PROVE Vectors(z)'
  BY DialedVectors DEF Vectors
<1>a. ~cut[z[1]] /\ ~Crash(Self(Far(z)))
  BY <1>0, LiveCalls
<1> DEFINE p == Self(Far(z))
<1>1. p' = p
  BY DEF Self, Far
<1>2. \A a \in Author : /\ have[p][a] \in Nat /\ have'[p][a] \in Nat
                        /\ have[p][a] <= have'[p][a]
  BY <1>0, <1>a, HaveGrows
<1>3. ASSUME NEW a \in Author PROVE theirs'[z][a] <= have'[p][a]
  <2>1. theirs[z][a] \in Nat /\ Nothing[a] = 0
    BY <1>0 DEF EndTyped, Vector, Nothing
  <2>2. CASE theirs'[z] = theirs[z] \/ theirs'[z] = Nothing
    BY <1>0, <1>a, <1>2, <2>1, <2>2 DEF Vectors
  <2>3. ASSUME NEW j \in DOMAIN inbox[z], inbox[z][j].type = "have",
               theirs'[z] = inbox[z][j].vector
        PROVE  theirs'[z][a] <= have'[p][a]
    <3>1. inbox[z][j].vector \in Vector
      BY <1>0, <2>3, MessagesTyped
    <3>2. inbox[z][j].vector[a] \in Nat /\ inbox[z][j].vector[a] <= have[p][a]
      BY <1>0, <1>a, <2>3, <3>1 DEF Vectors, Vector
    <3>3. QED
      BY <1>2, <2>3, <3>2
  <2>4. QED
    BY <1>0, <2>2, <2>3 DEF Moves, VectorsMove
<1>4. ASSUME NEW a \in Author, NEW i \in DOMAIN inbox'[z], inbox'[z][i].type = "have"
      PROVE  inbox'[z][i].vector[a] <= have'[p][a]
  <2>1. CASE inbox'[z][i].vector = have[p]
    BY <1>2, <2>1
  <2>2. ASSUME NEW j \in DOMAIN inbox[z], inbox'[z][i] = inbox[z][j]
        PROVE  inbox'[z][i].vector[a] <= have'[p][a]
    <3>1. inbox[z][j].vector \in Vector
      BY <1>0, <1>4, <2>2, MessagesTyped
    <3>2. inbox[z][j].vector[a] \in Nat /\ inbox[z][j].vector[a] <= have[p][a]
      BY <1>0, <1>a, <1>4, <2>2, <3>1 DEF Vectors, Vector
    <3>3. QED
      BY <1>2, <2>2, <3>2
  <2>3. QED
    BY <1>0, <1>4, <2>1, <2>2 DEF Moves, VectorsMove
<1>5. QED
  BY <1>1, <1>3, <1>4 DEF Vectors

LEMMA BoundedNext ==
    ASSUME CopyInv, [Next]_vars, NEW z \in End
    PROVE  Bounded(z)'
<1>0. /\ TurnsInv /\ EndTyped /\ EndTyped' /\ Bounded(z) /\ Bounded(Far(z)) /\ Moves(z)
      /\ Far(z) \in End /\ Self(z) \in Peer /\ CopiesOfHome
  BY TypedParts, TypedNext, NextMoves, PairFacts
     DEF CopyInv, TurnsInv, Typed, TypeOK, EndTyped
<1>1. \A a \in Author : /\ have[Home[a]][a] \in Nat /\ have'[Home[a]][a] \in Nat
                        /\ have[Home[a]][a] <= have'[Home[a]][a]
                        /\ have[Self(z)][a] <= have[Home[a]][a]
                        /\ have[Self(z)][a] \in Nat
  BY <1>0, HaveGrows, ReplicationAssumption DEF CopiesOfHome
<1> DEFINE Fits(r) == r.to <= have'[Home[r.author]][r.author]
<1>2. ASSUME NEW r \in Spans, NEW s \in Spans, Shortens(r, s), InLog(s) PROVE Fits(r)
  <2>1. r.author \in Author /\ r.to \in Nat /\ s.to \in Nat
    BY SpanFacts
  <2>2. QED
    BY <1>1, <1>2, <2>1 DEF Shortens, InLog
<1>3. ASSUME NEW r \in Spans, InLog(r) PROVE Fits(r)
  BY <1>1, <1>3, SpanFacts DEF InLog
<1>4. /\ \A i \in DOMAIN inbox[z] : inbox[z][i].type = "events" => inbox[z][i].range \in Spans
      /\ \A i \in DOMAIN todo[z] : todo[z][i] \in Spans
      /\ \A i \in DOMAIN todo[Far(z)] : todo[Far(z)][i] \in Spans
      /\ batch[z] # None => batch[z] \in Spans
  BY <1>0, MessagesTyped
<1>5. /\ \A i \in DOMAIN inbox'[z] : inbox'[z][i].type = "events" => inbox'[z][i].range \in Spans
      /\ \A i \in DOMAIN todo'[z] : todo'[z][i] \in Spans
      /\ batch'[z] # None => batch'[z] \in Spans
  <2>1. inbox'[z] \in Seq(Message) /\ todo'[z] \in Seq(Spans)
    BY <1>0 DEF EndTyped
  <2>2. \A i \in DOMAIN inbox'[z] : inbox'[z][i] \in Message
    BY <2>1, LenProperties, ElementOfSeq
  <2>3. \A i \in DOMAIN todo'[z] : todo'[z][i] \in Spans
    BY <2>1, LenProperties, ElementOfSeq
  <2>4. QED
    BY <1>0, <2>2, <2>3, MessageFacts DEF EndTyped
<1>6. ASSUME batch'[z] # None PROVE Fits(batch'[z])
  <2>1. \/ batch[z] # None /\ Shortens(batch'[z], batch[z])
        \/ \E j \in DOMAIN inbox[z] : /\ inbox[z][j].type = "events"
                                      /\ batch'[z] = inbox[z][j].range
    BY <1>0, <1>6 DEF Moves, RangesMove
  <2>2. QED
    BY <1>0, <1>2, <1>3, <1>4, <1>5, <1>6, <2>1 DEF Bounded
<1>7. ASSUME NEW i \in DOMAIN inbox'[z], inbox'[z][i].type = "events"
      PROVE  Fits(inbox'[z][i].range)
  <2>1. \/ \E j \in DOMAIN inbox[z] : inbox'[z][i] = inbox[z][j]
        \/ \E j \in DOMAIN todo[Far(z)] : Shortens(inbox'[z][i].range, todo[Far(z)][j])
    BY <1>0, <1>7 DEF Moves, RangesMove
  <2>2. QED
    BY <1>0, <1>2, <1>3, <1>4, <1>5, <1>7, <2>1 DEF Bounded
<1>8. ASSUME NEW i \in DOMAIN todo'[z] PROVE Fits(todo'[z][i])
  <2>1. CASE \E j \in DOMAIN todo[z] : Shortens(todo'[z][i], todo[z][j])
    BY <1>0, <1>2, <1>4, <1>5, <2>1 DEF Bounded
  <2>2. CASE \E a \in Author : todo'[z][i].author = a /\ todo'[z][i].to = have[Self(z)][a]
    <3>1. PICK a \in Author : todo'[z][i].author = a /\ todo'[z][i].to = have[Self(z)][a]
      BY <2>2
    <3>2. QED
      BY <1>1, <3>1
  <2>3. QED
    BY <1>0, <2>1, <2>2 DEF Moves, RangesMove
<1>9. QED
  BY <1>6, <1>7, <1>8 DEF Bounded, InLog

LEMMA CopyInvInit == Init => CopyInv
<1> SUFFICES ASSUME Init PROVE CopyInv
  OBVIOUS
<1>1. DOMAIN <<>> = {}
  OBVIOUS
<1>2. CopiesOfHome
  BY ReplicationAssumption DEF Init, CopiesOfHome, Nothing
<1>3. ASSUME NEW x \in End PROVE Vectors(x) /\ Bounded(x)
  <2>1. theirs[x] = Nothing /\ inbox[x] = <<>> /\ todo[x] = <<>> /\ batch[x] = None
        /\ have[Self(Far(x))] = Nothing
    BY PairFacts DEF Init
  <2>2. QED
    BY <1>1, <2>1 DEF Vectors, Bounded, Nothing
<1>4. QED
  BY <1>2, <1>3, TurnsInit DEF CopyInv

LEMMA CopyInvNext == CopyInv /\ [Next]_vars => CopyInv'
<1> SUFFICES ASSUME CopyInv, [Next]_vars PROVE CopyInv'
  OBVIOUS
<1>1. TurnsInv'
  BY TurnsNext DEF CopyInv
<1>2. \A x \in End : Vectors(x)' /\ Bounded(x)'
  BY VectorsNext, BoundedNext
<1>3. QED
  BY <1>1, <1>2, CopiesNext DEF CopyInv

(***************************************************************************)
(* No replica is ahead of the author it copies, and what it buffers lies   *)
(* beyond a gap (store.js:113-152, 286-306): whatever gossip loses or      *)
(* repeats, sessions interleave and crashes forget.                        *)
(***************************************************************************)
THEOREM ReplicasAreCopies == Spec => []CopiesOfHome
<1>1. CopyInv => CopiesOfHome
  BY DEF CopyInv
<1>2. QED
  BY <1>1, CopyInvInit, CopyInvNext, PTL DEF Spec

-----------------------------------------------------------------------------
(* Nothing arrives ahead of its predecessor *)

\* r continues the log of a replica that will have put s.
Follows(r, s) == s.author = r.author /\ r.from <= s.to + 1

\* v is the vector of the reader, b its batch.
Ready(v, b, r) ==
    r.from <= v[r.author] + 1 \/ (b # None /\ Follows(r, b))

BatchNext(v, b) == b # None => b.from <= v[b.author] + 1

InboxNext(v, b, in) ==
    \A i \in DOMAIN in : in[i].type = "events" =>
        \/ Ready(v, b, in[i].range)
        \/ \E j \in DOMAIN in : /\ j < i /\ in[j].type = "events"
                                /\ Follows(in[i].range, in[j].range)

TodoNext(v, b, in, t) ==
    \A i \in DOMAIN t :
        \/ Ready(v, b, t[i])
        \/ \E j \in DOMAIN in : in[j].type = "events" /\ Follows(t[i], in[j].range)

Ordered(x) ==
    /\ BatchNext(have[Self(x)], batch[x])
    /\ WillRead(x) => InboxNext(have[Self(x)], batch[x], inbox[x])
    /\ WillRead(x) /\ ~cut[x[1]] =>
          TodoNext(have[Self(x)], batch[x], inbox[x], todo[Far(x)])

OrderInv == CopyInv /\ \A x \in End : Ordered(x)

LEMMA OrderedLater ==
    ASSUME NEW z \in End
    PROVE  /\ Ordered(z)' <=>
                /\ BatchNext(have'[Self(z)], batch'[z])
                /\ WillRead(z)' => InboxNext(have'[Self(z)], batch'[z], inbox'[z])
                /\ WillRead(z)' /\ ~cut'[z[1]] =>
                      TodoNext(have'[Self(z)], batch'[z], inbox'[z], todo'[Far(z)])
           /\ WillRead(z)' <=> \/ at'[z] \in {"greeting", "reading"}
                               \/ z[2] = "dialer" /\ at'[z] = "writing"
BY DEF Ordered, WillRead, BatchNext, InboxNext, TodoNext, Ready, Follows, Self, Far

\* A vector that grows leaves what is ready ready.
Messages(in) == \A i \in DOMAIN in : in[i].type = "events" => in[i].range \in Spans
Ranges(t) == \A i \in DOMAIN t : t[i] \in Spans

LEMMA NextGrows ==
    ASSUME NEW v \in Vector, NEW w \in Vector, \A a \in Author : v[a] <= w[a],
           NEW b, b # None => b \in Spans, NEW in, Messages(in), NEW t, Ranges(t)
    PROVE  /\ BatchNext(v, b) => BatchNext(w, b)
           /\ InboxNext(v, b, in) => InboxNext(w, b, in)
           /\ TodoNext(v, b, in, t) => TodoNext(w, b, in, t)
<1>1. \A a \in Author : v[a] \in Nat /\ w[a] \in Nat
  BY DEF Vector
<1>2. ASSUME NEW r \in Spans, r.from <= v[r.author] + 1 PROVE r.from <= w[r.author] + 1
  BY <1>1, <1>2, SpanFacts
<1>3. \A r \in Spans : Ready(v, b, r) => Ready(w, b, r)
  BY <1>2 DEF Ready
<1>4. BatchNext(v, b) => BatchNext(w, b)
  BY <1>2 DEF BatchNext
<1>5. InboxNext(v, b, in) => InboxNext(w, b, in)
  BY <1>3 DEF InboxNext, Messages
<1>6. TodoNext(v, b, in, t) => TodoNext(w, b, in, t)
  BY <1>3 DEF TodoNext, Ranges
<1>7. QED
  BY <1>4, <1>5, <1>6

\* What a step may do to an end and keep its order, but for reads and sends.
Calm(z) ==
    /\ batch'[z] = batch[z] \/ batch'[z] = None
    /\ \/ ~WillRead(z)'
       \/ inbox'[z] = <<>> /\ (cut'[z[1]] \/ todo'[Far(z)] = <<>>)
       \/ /\ WillRead(z) /\ cut'[z[1]] = cut[z[1]] /\ batch'[z] = batch[z]
          /\ inbox'[z] = inbox[z]
          /\ todo'[Far(z)] = todo[Far(z)] \/ todo'[Far(z)] = <<>>

LEMMA TypesOfNext ==
    ASSUME OrderInv, [Next]_vars, NEW z \in End
    PROVE  /\ have[Self(z)] \in Vector /\ have'[Self(z)] \in Vector
           /\ ~Crash(Self(z)) => \A a \in Author : have[Self(z)][a] <= have'[Self(z)][a]
           /\ batch[z] # None => batch[z] \in Spans
           /\ Messages(inbox[z]) /\ Ranges(todo[z]) /\ Ranges(todo[Far(z)])
           /\ Ranges(todo'[z]) /\ Ranges(todo'[Far(z)])
           /\ EndTyped /\ TurnsInv /\ Ordered(z)
<1>1. /\ TurnsInv /\ Typed /\ Typed' /\ EndTyped /\ Ordered(z)
      /\ Far(z) \in End /\ Self(z) \in Peer
  BY TypedParts, TypedNext, PairFacts DEF OrderInv, CopyInv, TurnsInv
<1>2. todo'[z] \in Seq(Spans) /\ todo'[Far(z)] \in Seq(Spans)
  BY <1>1 DEF Typed, TypeOK
<1>3. Ranges(todo'[z]) /\ Ranges(todo'[Far(z)])
  BY <1>2, LenProperties, ElementOfSeq DEF Ranges
<1>4. have[Self(z)] \in Vector /\ have'[Self(z)] \in Vector
  BY <1>1 DEF Typed, TypeOK
<1>5. ~Crash(Self(z)) => \A a \in Author : have[Self(z)][a] <= have'[Self(z)][a]
  BY <1>1, HaveGrows
<1>6. QED
  BY <1>1, <1>3, <1>4, <1>5, MessagesTyped DEF Messages, Ranges

LEMMA OrderedCalm ==
    ASSUME OrderInv, [Next]_vars, NEW z \in End, Calm(z), ~Crash(Self(z))
    PROVE  Ordered(z)'
<1> DEFINE v == have[Self(z)]
           w == have'[Self(z)]
           t == todo[Far(z)]
<1>1. /\ v \in Vector /\ w \in Vector /\ \A a \in Author : v[a] <= w[a]
      /\ batch[z] # None => batch[z] \in Spans
      /\ Messages(inbox[z]) /\ Ranges(t) /\ Ordered(z)
  BY TypesOfNext
<1>2. DOMAIN <<>> = {}
  OBVIOUS
<1>3. BatchNext(w, batch'[z])
  <2>1. BatchNext(v, batch[z])
    BY <1>1 DEF Ordered
  <2>2. BatchNext(w, batch[z])
    BY <1>1, <2>1, NextGrows
  <2>3. QED
    BY <2>2 DEF Calm, BatchNext
<1>4. ASSUME WillRead(z)', inbox'[z] = <<>>, cut'[z[1]] \/ todo'[Far(z)] = <<>>
      PROVE  Ordered(z)'
  BY <1>2, <1>3, <1>4, OrderedLater DEF InboxNext, TodoNext
<1>5. ASSUME WillRead(z), cut'[z[1]] = cut[z[1]], batch'[z] = batch[z], inbox'[z] = inbox[z],
             todo'[Far(z)] = t \/ todo'[Far(z)] = <<>>
      PROVE  Ordered(z)'
  <2>1. /\ InboxNext(v, batch[z], inbox[z])
        /\ ~cut[z[1]] => TodoNext(v, batch[z], inbox[z], t)
    BY <1>1, <1>5 DEF Ordered
  <2>2. /\ InboxNext(w, batch[z], inbox[z])
        /\ ~cut[z[1]] => TodoNext(w, batch[z], inbox[z], t)
    BY <1>1, <2>1, NextGrows
  <2>3. TodoNext(w, batch[z], inbox[z], <<>>)
    BY <1>2 DEF TodoNext
  <2>4. QED
    BY <1>3, <1>5, <2>2, <2>3, OrderedLater
<1>6. QED
  BY <1>3, <1>4, <1>5, OrderedLater DEF Calm

\* A writer sets out from the vector it was told, which is behind the reader's.
LEMMA PlannedFits ==
    ASSUME OrderInv, [Next]_vars, NEW z \in End, ~Crash(Self(z)), NEW other \in Vector,
           Planned(Far(z), other), \A a \in Author : other[a] <= have[Self(z)][a], NEW in
    PROVE  TodoNext(have'[Self(z)], batch'[z], in, todo'[Far(z)])
<1>1. /\ have[Self(z)] \in Vector /\ have'[Self(z)] \in Vector
      /\ \A a \in Author : have[Self(z)][a] <= have'[Self(z)][a]
  BY TypesOfNext
<1>2. \A i \in DOMAIN todo'[Far(z)] : \E a \in Author :
          todo'[Far(z)][i].author = a /\ todo'[Far(z)][i].from = other[a] + 1
  BY DEF Planned
<1>3. \A a \in Author : /\ other[a] \in Nat /\ have'[Self(z)][a] \in Nat
                        /\ have[Self(z)][a] \in Nat
  BY <1>1 DEF Vector
<1>4. \A a \in Author : other[a] + 1 <= have'[Self(z)][a] + 1
  BY <1>1, <1>3
<1>5. QED
  BY <1>2, <1>4 DEF TodoNext, Ready

LEMMA OrderedTakes ==
    ASSUME OrderInv, [Next]_vars, NEW x \in End, Takes(x), todo'[Far(x)] = todo[Far(x)]
    PROVE  Ordered(x)'
<1> DEFINE v == have[Self(x)]
           b == inbox[x][1].range
           t == todo[Far(x)]
           in == inbox'[x]
<1>1. /\ v \in Vector /\ have'[Self(x)] = v /\ batch[x] = None /\ batch'[x] = b
      /\ inbox[x][1].type = "events" /\ cut' = cut /\ WillRead(x)
      /\ EndTyped /\ Messages(inbox[x]) /\ Ordered(x)
  BY TypesOfNext DEF Takes, Reads, StillHave, WillRead
<1>2. /\ 1 \in DOMAIN inbox[x]
      /\ \A i \in DOMAIN inbox[x] : i \in Nat /\ i >= 1
      /\ \A i \in DOMAIN in : /\ i \in Nat /\ i + 1 \in DOMAIN inbox[x]
                              /\ in[i] = inbox[x][i + 1]
      /\ \A i \in DOMAIN inbox[x] :
             i = 1 \/ (i - 1 \in DOMAIN in /\ in[i - 1] = inbox[x][i])
  <2>1. Len(inbox[x]) \in Nat /\ DOMAIN inbox[x] = 1..Len(inbox[x])
    BY <1>1, MessagesTyped
  <2>2. QED
    BY <1>1, <2>1, TailMessages DEF Takes, Reads, Pending
<1>3. /\ InboxNext(v, None, inbox[x])
      /\ ~cut[x[1]] => TodoNext(v, None, inbox[x], t)
  BY <1>1 DEF Ordered
<1>4. b \in Spans
  BY <1>1, <1>2 DEF Messages
<1> HIDE DEF v, b, t, in
<1>5. BatchNext(v, b)
  <2>1. \/ Ready(v, None, b)
        \/ \E j \in DOMAIN inbox[x] : j < 1
    BY <1>1, <1>2, <1>3 DEF InboxNext, b
  <2>2. \A j \in DOMAIN inbox[x] : ~(j < 1)
    BY <1>2
  <2>3. QED
    BY <2>1, <2>2 DEF Ready, BatchNext
<1>6. \A r : \/ Ready(v, None, r)
             \/ \E j \in DOMAIN inbox[x] :
                    inbox[x][j].type = "events" /\ Follows(r, inbox[x][j].range)
             => \/ Ready(v, b, r)
                \/ \E j \in DOMAIN in : in[j].type = "events" /\ Follows(r, in[j].range)
  <2>1. ASSUME NEW r, Ready(v, None, r) PROVE Ready(v, b, r)
    BY <2>1 DEF Ready
  <2>2. ASSUME NEW r, Follows(r, inbox[x][1].range) PROVE Ready(v, b, r) \/ b = None
    BY <2>2 DEF Ready, b
  <2>3. b # None
    BY <1>4, SpanNotNone
  <2>4. QED
    BY <1>2, <2>1, <2>2, <2>3
<1>7. InboxNext(v, b, in)
  <2> SUFFICES ASSUME NEW i \in DOMAIN in, in[i].type = "events"
               PROVE  \/ Ready(v, b, in[i].range)
                      \/ \E j \in DOMAIN in : /\ j < i /\ in[j].type = "events"
                                              /\ Follows(in[i].range, in[j].range)
    BY DEF InboxNext
  <2>1. i \in Nat /\ i + 1 \in DOMAIN inbox[x] /\ in[i] = inbox[x][i + 1]
    BY <1>2
  <2>2. \/ Ready(v, None, in[i].range)
        \/ \E j \in DOMAIN inbox[x] : /\ j < i + 1 /\ inbox[x][j].type = "events"
                                      /\ Follows(in[i].range, inbox[x][j].range)
    BY <1>3, <2>1 DEF InboxNext
  <2>3. CASE Ready(v, None, in[i].range)
    BY <1>6, <2>3 DEF Ready
  <2>4. ASSUME NEW j \in DOMAIN inbox[x], j < i + 1, inbox[x][j].type = "events",
               Follows(in[i].range, inbox[x][j].range)
        PROVE  \/ Ready(v, b, in[i].range)
               \/ \E k \in DOMAIN in : /\ k < i /\ in[k].type = "events"
                                       /\ Follows(in[i].range, in[k].range)
    <3>1. CASE j = 1
      BY <2>4, <3>1, <1>4, SpanNotNone DEF Ready, b
    <3>2. CASE j # 1
      <4>1. j \in Nat /\ j - 1 \in DOMAIN in /\ in[j - 1] = inbox[x][j]
        BY <1>2, <3>2
      <4>2. j - 1 < i
        BY <2>1, <2>4, <4>1
      <4>3. QED
        BY <2>4, <4>1, <4>2
    <3>3. QED
      BY <3>1, <3>2
  <2>5. QED
    BY <2>2, <2>3, <2>4
<1>8. ~cut[x[1]] => TodoNext(v, b, in, t)
  BY <1>3, <1>6 DEF TodoNext
<1>9. QED
  BY <1>1, <1>5, <1>7, <1>8, OrderedLater DEF v, b, t, in

LEMMA OrderedPuts ==
    ASSUME OrderInv, [Next]_vars, NEW x \in End, Puts(x), ~Crash(Self(x)),
           todo'[Far(x)] = todo[Far(x)]
    PROVE  Ordered(x)'
<1> DEFINE v == have[Self(x)]
           w == have'[Self(x)]
           b == batch[x]
           c == batch'[x]
           t == todo[Far(x)]
<1>1. /\ v \in Vector /\ w \in Vector /\ \A a \in Author : v[a] <= w[a]
      /\ b \in Spans /\ b # None /\ PutEvent(Self(x), b.author, b.from)
      /\ at'[x] = at[x] /\ inbox'[x] = inbox[x] /\ cut' = cut
      /\ \/ b.from = b.to /\ c = None
         \/ b.from < b.to /\ c = Span(b.author, b.from + 1, b.to)
      /\ Messages(inbox[x]) /\ Ranges(t) /\ Ordered(x)
  BY TypesOfNext DEF Puts
<1>2. /\ b.author \in Author /\ b.from \in Nat /\ b.to \in Nat
      /\ v[b.author] \in Nat /\ w[b.author] \in Nat
  BY <1>1, SpanFacts DEF Vector
<1>3. b.from <= v[b.author] + 1
  BY <1>1 DEF Ordered, BatchNext
<1>4. w[b.author] >= b.from
  <2>1. ReplicaTyped /\ Self(x) \in Peer
    BY TypedParts, PairFacts DEF OrderInv, CopyInv, TurnsInv
  <2>2. QED
    BY <1>1, <1>2, <1>3, <2>1, PutGrows
<1> HIDE DEF v, w, b, c, t
<1>5. BatchNext(w, c)
  BY <1>1, <1>2, <1>4 DEF BatchNext, Span
<1>6. ASSUME NEW r \in Spans, Ready(v, b, r) PROVE Ready(w, c, r)
  <2>1. r.author \in Author /\ r.from \in Nat
    BY SpanFacts
  <2>2. CASE r.from <= v[r.author] + 1
    <3>1. v[r.author] \in Nat /\ w[r.author] \in Nat
      BY <1>1, <2>1 DEF Vector
    <3>2. QED
      BY <1>1, <2>1, <2>2, <3>1 DEF Ready
  <2>3. CASE Follows(r, b)
    <3>1. CASE b.from = b.to
      BY <1>2, <1>4, <2>1, <2>3, <3>1 DEF Follows, Ready
    <3>2. CASE b.from < b.to /\ c = Span(b.author, b.from + 1, b.to)
      <4>1. c.author = b.author /\ c.to = b.to /\ c \in Spans
        <5>1. b.from + 1 \in Nat /\ 1 <= b.from + 1 /\ b.from + 1 <= b.to
          BY <1>2, <3>2
        <5>2. QED
          BY <1>2, <3>2, <5>1, SpanFacts DEF Span
      <4>2. QED
        BY <2>3, <4>1, SpanNotNone DEF Follows, Ready
    <3>3. QED
      BY <1>1, <3>1, <3>2
  <2>4. QED
    BY <1>6, <2>2, <2>3 DEF Ready
<1>7. InboxNext(v, b, inbox[x]) => InboxNext(w, c, inbox[x])
  BY <1>1, <1>6 DEF InboxNext, Messages
<1>8. TodoNext(v, b, inbox[x], t) => TodoNext(w, c, inbox[x], t)
  BY <1>1, <1>6 DEF TodoNext, Ranges
<1>9. /\ WillRead(x) => InboxNext(v, b, inbox[x])
      /\ WillRead(x) /\ ~cut[x[1]] => TodoNext(v, b, inbox[x], t)
  BY <1>1 DEF Ordered, v, b, t
<1>10. WillRead(x)' <=> WillRead(x)
  BY <1>1, OrderedLater DEF WillRead
<1>11. QED
  BY <1>1, <1>5, <1>7, <1>8, <1>9, <1>10, OrderedLater DEF v, w, b, c, t

\* A message ready when it is sent is ready, or follows, wherever it is read.
LEMMA OrderedSends ==
    ASSUME OrderInv, [Next]_vars, NEW x \in End, NEW r, NEW last, SendsEvents(x, r, last),
           NEW z \in End, z = Far(x), at'[z] = at[z], batch'[z] = batch[z]
    PROVE  Ordered(z)'
<1> DEFINE v == have[Self(z)]
           b == batch[z]
           s == Span(r.author, r.from, last)
           more == Span(r.author, last + 1, r.to)
           m == Events(s)
           in == inbox'[z]
<1>0. Far(z) = x /\ z[1] = x[1]
  BY PairFacts
<1>1. /\ v \in Vector /\ have' = have /\ cut' = cut /\ at'[z] = at[z] /\ batch'[z] = b
      /\ EndTyped /\ Ordered(z)
      /\ 1 \in DOMAIN todo[x] /\ r = todo[x][1]
      /\ last \in Nat /\ m \in Message
  BY <1>0, TypesOfNext DEF SendsEvents, Delivers, StillHave
<1>2. WillRead(z)' <=> WillRead(z)
  BY <1>0, <1>1, OrderedLater DEF WillRead
<1>3. BatchNext(v, b)
  BY <1>1 DEF Ordered
<1>4. CASE cut[x[1]] /\ inbox'[z] = inbox[z]
  BY <1>0, <1>1, <1>2, <1>3, <1>4, OrderedLater DEF Ordered
<1>5. CASE ~cut[x[1]] /\ inbox'[z] = Append(inbox[z], m) /\ WillRead(z)
  <2> DEFINE n == Len(inbox[z])
  <2>1. /\ n \in Nat /\ DOMAIN inbox[z] = 1..n
        /\ n + 1 \in DOMAIN in
        /\ \A i \in DOMAIN inbox[z] : i \in DOMAIN in /\ in[i] = inbox[z][i]
        /\ in[n + 1] = m
        /\ \A i \in DOMAIN in : i \in DOMAIN inbox[z] \/ i = n + 1
    BY <1>0, <1>1, <1>5, AppendMessages
  <2> HIDE DEF n, in
  <2>2. m.type = "events" /\ m.range = s /\ s.author = r.author /\ s.from = r.from
        /\ s.to = last /\ more.author = r.author /\ more.from = last + 1
    BY DEF Events, Span
  <2>3. InboxNext(v, b, inbox[z]) /\ TodoNext(v, b, inbox[z], todo[x])
    BY <1>0, <1>1, <1>5 DEF Ordered
  <2>4. Follows(more, s)
    BY <1>1, <2>2 DEF Follows
  <2> HIDE DEF s, more, m
  <2>5. InboxNext(v, b, in)
    <3> SUFFICES ASSUME NEW i \in DOMAIN in, in[i].type = "events"
                 PROVE  \/ Ready(v, b, in[i].range)
                        \/ \E j \in DOMAIN in : /\ j < i /\ in[j].type = "events"
                                                /\ Follows(in[i].range, in[j].range)
      BY DEF InboxNext
    <3>1. CASE i \in DOMAIN inbox[z]
      BY <2>1, <2>3, <3>1 DEF InboxNext
    <3>2. CASE i = n + 1
      <4>1. \/ Ready(v, b, r)
            \/ \E j \in DOMAIN inbox[z] : /\ inbox[z][j].type = "events"
                                          /\ Follows(r, inbox[z][j].range)
        BY <1>1, <2>3 DEF TodoNext
      <4>2. (Ready(v, b, r) => Ready(v, b, s)) /\ \A q : Follows(r, q) => Follows(s, q)
        BY <2>2 DEF Ready, Follows
      <4>3. \A j \in DOMAIN inbox[z] : j < n + 1
        BY <2>1
      <4>4. QED
        BY <2>1, <2>2, <3>2, <4>1, <4>2, <4>3
    <3>3. QED
      BY <2>1, <3>1, <3>2
  <2>6. TodoNext(v, b, in, todo'[x])
    <3> SUFFICES ASSUME NEW i \in DOMAIN todo'[x]
                 PROVE  \/ Ready(v, b, todo'[x][i])
                        \/ \E j \in DOMAIN in : /\ in[j].type = "events"
                                                /\ Follows(todo'[x][i], in[j].range)
      BY DEF TodoNext
    <3>1. CASE todo'[x][i] = more
      BY <2>1, <2>2, <2>4, <3>1
    <3>2. CASE \E j \in DOMAIN todo[x] : todo'[x][i] = todo[x][j]
      BY <2>1, <2>3, <3>2 DEF TodoNext
    <3>3. QED
      BY <3>1, <3>2 DEF SendsEvents, more
  <2>7. QED
    BY <1>0, <1>1, <1>3, <2>5, <2>6, OrderedLater DEF in
<1>6. CASE ~WillRead(z)
  BY <1>0, <1>1, <1>2, <1>3, <1>6, OrderedLater
<1>7. QED
  BY <1>4, <1>5, <1>6 DEF SendsEvents, Delivers, m, s

LEMMA OrderedEnds ==
    ASSUME OrderInv, [Next]_vars, NEW x \in End, Ends(x),
           NEW z \in End, z = Far(x), at'[z] = at[z], batch'[z] = batch[z]
    PROVE  Ordered(z)'
<1> DEFINE v == have[Self(z)]
           b == batch[z]
           m == EndOfEvents
           in == inbox'[z]
<1>0. Far(z) = x /\ z[1] = x[1]
  BY PairFacts
<1>1. /\ v \in Vector /\ have' = have /\ cut' = cut /\ at'[z] = at[z] /\ batch'[z] = b
      /\ EndTyped /\ Ordered(z) /\ m \in Message /\ m.type # "events" /\ todo'[x] = <<>>
  BY <1>0, TypesOfNext DEF Ends, Delivers, StillHave, EndOfEvents
<1> HIDE DEF m
<1>2. WillRead(z)' <=> WillRead(z)
  BY <1>0, <1>1, OrderedLater DEF WillRead
<1>3. BatchNext(v, b) /\ (WillRead(z) => InboxNext(v, b, inbox[z]))
  BY <1>1 DEF Ordered
<1>4. TodoNext(v, b, in, <<>>)
  BY DEF TodoNext
<1>5. InboxNext(v, b, inbox[z]) => InboxNext(v, b, in)
  <2>1. CASE in = inbox[z]
    BY <2>1
  <2>2. CASE in = Append(inbox[z], m)
    <3>1. /\ \A i \in DOMAIN inbox[z] : i \in DOMAIN in /\ in[i] = inbox[z][i]
          /\ \A i \in DOMAIN in : i \in DOMAIN inbox[z] \/ in[i] = m
      BY <1>0, <1>1, <2>2, AppendMessages
    <3> HIDE DEF in
    <3>2. QED
      BY <1>1, <3>1 DEF InboxNext
  <2>3. QED
    BY <2>1, <2>2 DEF Ends, Delivers, m
<1>6. QED
  BY <1>0, <1>1, <1>2, <1>3, <1>4, <1>5, OrderedLater

LEMMA OrderedStep ==
    ASSUME OrderInv, [Next]_vars, NEW x \in End, Step(x), NEW y \in End, y = Far(x)
    PROVE  Ordered(x)' /\ Ordered(y)'
<1>a. ~Crash(Self(x)) /\ ~Crash(Self(y))
  BY StepIsNoCrash DEF OrderInv, CopyInv
<1>0. /\ EndTyped /\ TurnsInv /\ Turns(x) /\ Turns(y)
      /\ y # x /\ Far(y) = x /\ y[1] = x[1]
      /\ (x[2] = "dialer" /\ y[2] = "responder") \/ (x[2] = "responder" /\ y[2] = "dialer")
  BY TypedParts, PairFacts DEF OrderInv, CopyInv, TurnsInv
<1>1. /\ at'[y] = at[y] /\ theirs'[y] = theirs[y] /\ todo'[y] = todo[y] /\ batch'[y] = batch[y]
      /\ cut' = cut
  BY <1>0, StepFrame DEF TurnsInv
<1>2. WillRead(y)' <=> WillRead(y)
  BY <1>0, <1>1, OrderedLater DEF WillRead
<1>3. ASSUME ~WillRead(x)', batch'[x] = batch[x] \/ batch'[x] = None PROVE Ordered(x)'
  BY <1>a, <1>3, OrderedCalm DEF Calm
<1>4. ASSUME inbox'[x] = inbox[x], batch'[x] = batch[x], WillRead(x)' => WillRead(x)
      PROVE  Ordered(x)'
  BY <1>a, <1>0, <1>1, <1>4, OrderedCalm DEF Calm
<1>5. ASSUME inbox'[y] = inbox[y], todo'[x] = todo[x] \/ todo'[x] = <<>> PROVE Ordered(y)'
  BY <1>a, <1>0, <1>1, <1>2, <1>5, OrderedCalm DEF Calm
<1>6. ASSUME NEW other \in Vector, Planned(x, other), inbox'[y] = inbox[y],
             \A a \in Author : other[a] <= have[Self(y)][a]
      PROVE  Ordered(y)'
  <2>1. TodoNext(have'[Self(y)], batch'[y], inbox'[y], todo'[x])
    BY <1>a, <1>0, <1>6, PlannedFits
  <2>2. /\ have[Self(y)] \in Vector /\ have'[Self(y)] \in Vector
        /\ \A a \in Author : have[Self(y)][a] <= have'[Self(y)][a]
        /\ batch[y] # None => batch[y] \in Spans
        /\ Messages(inbox[y]) /\ Ranges(todo[x]) /\ Ordered(y)
    BY <1>a, <1>0, TypesOfNext
  <2>3. /\ BatchNext(have[Self(y)], batch[y])
        /\ WillRead(y) => InboxNext(have[Self(y)], batch[y], inbox[y])
    BY <2>2 DEF Ordered
  <2>4. /\ BatchNext(have'[Self(y)], batch[y])
        /\ WillRead(y) => InboxNext(have'[Self(y)], batch[y], inbox[y])
    BY <2>2, <2>3, NextGrows
  <2>5. QED
    BY <1>0, <1>1, <1>2, <1>6, <2>1, <2>4, OrderedLater
<1>7. inbox[x] # <<>> =>
          /\ \A a \in Author : theirs[x][a] <= have[Self(y)][a]
          /\ \A i \in DOMAIN inbox[x], a \in Author :
                inbox[x][i].type = "have" => inbox[x][i].vector[a] <= have[Self(y)][a]
  BY <1>0 DEF OrderInv, CopyInv, Vectors, Turns, Greets
<1>8. CASE Answers(x)
  <2>1. /\ inbox'[x] = <<>> /\ todo'[y] = <<>> /\ batch'[x] = batch[x] /\ todo'[x] = <<>>
        /\ inbox'[y] = <<Have(have[Self(x)])>>
    BY <1>1, <1>8 DEF Answers
  <2>2. Ordered(x)'
    BY <1>a, <2>1, OrderedCalm DEF Calm
  <2>3. BatchNext(have'[Self(y)], batch'[y])
    <3>1. have' = have /\ Ordered(y)
      BY <1>0, <1>8, TypesOfNext DEF Answers, StillHave
    <3>2. QED
      BY <1>1, <3>1 DEF Ordered
  <2>4. \A i \in DOMAIN inbox'[y] : inbox'[y][i].type = "have"
    BY <2>1 DEF Have
  <2>5. InboxNext(have'[Self(y)], batch'[y], inbox'[y])
    BY <2>4 DEF InboxNext
  <2>6. TodoNext(have'[Self(y)], batch'[y], inbox'[y], todo'[x])
    BY <2>1 DEF TodoNext
  <2>7. QED
    BY <1>0, <2>2, <2>3, <2>5, <2>6, OrderedLater
<1>9. CASE Opens(x)
  <2>1. /\ inbox'[x] = <<>> /\ todo'[y] = <<>> /\ batch'[x] = batch[x]
        /\ 1 \in DOMAIN inbox[x] /\ inbox[x][1].type = "have"
        /\ theirs'[x] = inbox[x][1].vector /\ Planned(x, theirs'[x])
        /\ inbox'[y] = <<>> /\ at[y] \in {"reading", "failed", "idle"}
    BY <1>1, <1>9 DEF Opens
  <2>2. Ordered(x)'
    BY <1>a, <2>1, OrderedCalm DEF Calm
  <2>3. theirs'[x] \in Vector /\ \A a \in Author : theirs'[x][a] <= have[Self(y)][a]
    BY <1>0, <1>7, <2>1, MessagesTyped
  <2>4. inbox[y] = <<>>
    BY <1>0, <1>9 DEF Opens, Turns, Greets
  <2>5. Ordered(y)'
    BY <1>6, <2>1, <2>3, <2>4
  <2>6. QED
    BY <2>2, <2>5
<1>10. ASSUME NEW r, NEW last, SendsEvents(x, r, last) PROVE Ordered(x)' /\ Ordered(y)'
  <2>1. inbox'[x] = inbox[x] /\ batch'[x] = batch[x] /\ at'[x] = at[x]
    BY <1>10 DEF SendsEvents, Delivers
  <2>2. WillRead(x)' => WillRead(x)
    BY <2>1, OrderedLater DEF WillRead
  <2>3. Ordered(y)'
    BY <1>1, <1>10, OrderedSends
  <2>4. QED
    BY <1>4, <2>1, <2>2, <2>3
<1>11. CASE Ends(x)
  <2>1. /\ inbox'[x] = inbox[x] /\ batch'[x] = batch[x] /\ at[x] = "writing"
        /\ at'[x] = IF x[2] = "dialer" THEN "reading" ELSE "done"
    BY <1>11 DEF Ends, Delivers
  <2>2. WillRead(x)' => WillRead(x)
    BY <2>1, OrderedLater DEF WillRead
  <2>3. Ordered(y)'
    BY <1>1, <1>11, OrderedEnds
  <2>4. QED
    BY <1>4, <2>1, <2>2, <2>3
<1>12. CASE Takes(x)
  <2>1. Ordered(x)'
    BY <1>1, <1>12, OrderedTakes
  <2>2. Ordered(y)'
    BY <1>5, <1>12 DEF Takes, Reads
  <2>3. QED
    BY <2>1, <2>2
<1>13. CASE Finishes(x)
  <2>1. /\ ~WillRead(x)' /\ batch'[x] = None /\ inbox'[y] = inbox[y] /\ todo[x] = <<>>
        /\ inbox[x] # <<>>
    BY <1>13, OrderedLater DEF Finishes, Reads, Pending
  <2>2. theirs[x] \in Vector
    BY <1>0, MessagesTyped
  <2>3. Ordered(y)'
    BY <1>5, <1>6, <1>7, <1>13, <2>1, <2>2 DEF Finishes
  <2>4. QED
    BY <1>3, <2>1, <2>3
<1>14. CASE Breaks(x)
  <2>1. ~WillRead(x)' /\ batch'[x] = batch[x] /\ inbox'[y] = inbox[y] /\ todo'[x] = <<>>
    BY <1>14, OrderedLater DEF Breaks
  <2>2. QED
    BY <1>3, <1>5, <2>1
<1>15. CASE Puts(x)
  <2>1. Ordered(x)'
    BY <1>a, <1>1, <1>15, OrderedPuts
  <2>2. Ordered(y)'
    BY <1>5, <1>15 DEF Puts
  <2>3. QED
    BY <2>1, <2>2
<1>16. QED
  BY <1>0, <1>8, <1>9, <1>10, <1>11, <1>12, <1>13, <1>14, <1>15, StepCases

LEMMA OrderedInit == Init => OrderInv
<1> SUFFICES ASSUME Init, NEW x \in End PROVE Ordered(x)
  BY CopyInvInit DEF OrderInv
<1>1. Far(x) \in End
  BY PairFacts
<1>2. inbox[x] = <<>> /\ todo[Far(x)] = <<>> /\ batch[x] = None
  BY <1>1 DEF Init
<1>3. DOMAIN <<>> = {}
  OBVIOUS
<1>4. QED
  BY <1>2, <1>3 DEF Ordered, BatchNext, InboxNext, TodoNext

LEMMA OrderedNext == OrderInv /\ [Next]_vars => OrderInv'
<1> SUFFICES ASSUME OrderInv, [Next]_vars, NEW z \in End PROVE Ordered(z)'
  BY CopyInvNext DEF OrderInv
<1>a. CASE Crash(Self(z))
  <2>1. at'[z] = "idle" /\ batch'[z] = None
    BY <1>a DEF Crash, Stop
  <2>2. QED
    BY <2>1, OrderedLater DEF BatchNext
<1> SUFFICES ASSUME ~Crash(Self(z)) PROVE Ordered(z)'
  BY <1>a
<1>0. /\ EndTyped /\ RestTyped /\ TurnsInv
      /\ Far(z) \in End /\ Far(z) # z /\ Far(z)[1] = z[1] /\ z[1] \in Call /\ Far(Far(z)) = z
  BY TypedParts, PairFacts DEF OrderInv, CopyInv, TurnsInv
<1>1. ASSUME at'[z] = at[z], batch'[z] = batch[z], cut'[z[1]] = cut[z[1]],
             inbox'[z] = inbox[z], todo'[Far(z)] = todo[Far(z)]
      PROVE  Ordered(z)'
  <2>1. WillRead(z)' <=> WillRead(z)
    BY <1>1, OrderedLater DEF WillRead
  <2>2. Calm(z)
    BY <1>1, <2>1 DEF Calm
  <2>3. QED
    BY <2>2, OrderedCalm
<1>2. ASSUME NEW x \in End, Step(x) PROVE Ordered(z)'
  <2>1. CASE z \in {x, Far(x)}
    <3>1. PICK y \in End : y = Far(x)
      BY PairFacts
    <3>2. Ordered(x)' /\ Ordered(y)'
      BY <1>2, <3>1, OrderedStep
    <3>3. QED
      BY <2>1, <3>1, <3>2
  <2>2. CASE z \notin {x, Far(x)}
    <3>1. z[1] # x[1]
      BY <2>2, EndFacts
    <3>2. Far(z) \notin {x, Far(x)}
      BY <1>0, <3>1, EndFacts
    <3>3. QED
      BY <1>0, <1>1, <1>2, <2>2, <3>2, StepFrame DEF TurnsInv
  <2>3. QED
    BY <2>1, <2>2
<1>3. ASSUME UNCHANGED <<endVars, cut>> PROVE Ordered(z)'
  BY <1>1, <1>3 DEF endVars
<1>4. ASSUME NEW c \in Call, Dial(c) PROVE Ordered(z)'
  <2> DEFINE d == <<c, "dialer">>
             r == <<c, "responder">>
             m == Have(have[c[1]])
  <2>1. /\ d \in End /\ r \in End /\ Far(d) = r /\ Far(r) = d
    BY CallFacts
  <2>2. \A w \in End : w[1] = c => w \in {d, r}
    BY <2>1, EndFacts
  <2> HIDE DEF d, r
  <2>3. /\ todo'[d] = <<>> /\ todo'[r] = <<>> /\ batch'[d] = None /\ batch'[r] = None
        /\ inbox'[d] = <<>> /\ inbox'[r] = <<m>>
        /\ \A w \in End \ {d, r} : /\ at'[w] = at[w] /\ inbox'[w] = inbox[w]
                                   /\ todo'[w] = todo[w] /\ batch'[w] = batch[w]
        /\ \A b \in Call \ {c} : cut'[b] = cut[b]
    BY <1>0, <1>4, <2>1 DEF Dial, EndTyped, RestTyped, d, r, m
  <2>4. m.type = "have"
    BY DEF Have
  <2> HIDE DEF m
  <2>5. CASE z \in {d, r}
    <3>1. batch'[z] = None /\ todo'[Far(z)] = <<>>
      BY <2>1, <2>3, <2>5
    <3>2. \A i \in DOMAIN inbox'[z] : inbox'[z][i].type = "have"
      <4>1. DOMAIN <<>> = {} /\ \A i \in DOMAIN <<m>> : <<m>>[i] = m
        OBVIOUS
      <4>2. QED
        BY <2>3, <2>4, <2>5, <4>1
    <3>3. DOMAIN <<>> = {}
      OBVIOUS
    <3>4. QED
      BY <3>1, <3>2, <3>3, OrderedLater DEF BatchNext, InboxNext, TodoNext
  <2>6. CASE z \notin {d, r}
    <3>1. Far(z) \notin {d, r}
      BY <1>0, <2>1, <2>6
    <3>2. z[1] # c
      BY <2>2, <2>6
    <3>3. QED
      BY <1>0, <1>1, <2>3, <2>6, <3>1, <3>2
  <2>7. QED
    BY <2>5, <2>6
<1>5. ASSUME NEW c \in Call, Cut(c) PROVE Ordered(z)'
  <2>1. /\ at' = at /\ todo' = todo /\ batch' = batch
        /\ inbox'[z] = IF z[1] = c THEN <<>> ELSE inbox[z]
        /\ cut'[z[1]] = (cut[z[1]] \/ z[1] = c)
    BY <1>0, <1>5 DEF Cut, RestTyped
  <2>2. CASE z[1] = c
    <3>1. Calm(z)
      BY <2>1, <2>2 DEF Calm
    <3>2. QED
      BY <3>1, OrderedCalm
  <2>3. CASE z[1] # c
    <3>1. cut'[z[1]] = cut[z[1]]
      BY <1>0, <2>1, <2>3 DEF RestTyped
    <3>2. QED
      BY <1>1, <2>1, <2>3, <3>1
  <2>4. QED
    BY <2>2, <2>3
<1>6. ASSUME NEW p \in Peer, Crash(p) PROVE Ordered(z)'
  <2>1. /\ \A w \in End :
              /\ at'[w] = IF Self(w) = p THEN "idle" ELSE at[w]
              /\ todo'[w] = IF Self(w) = p THEN <<>> ELSE todo[w]
              /\ batch'[w] = IF Self(w) = p THEN None ELSE batch[w]
              /\ inbox'[w] = IF p \in {w[1][1], w[1][2]} THEN <<>> ELSE inbox[w]
        /\ \A b \in Call : cut'[b] = (cut[b] \/ p \in {b[1], b[2]})
    BY <1>6 DEF Crash, Stop
  <2>2. Self(z) \in {z[1][1], z[1][2]} /\ Self(Far(z)) \in {z[1][1], z[1][2]}
    BY DEF Self, Far
  <2>3. CASE p \in {z[1][1], z[1][2]}
    <3>1. /\ inbox'[z] = <<>> /\ cut'[z[1]]
          /\ batch'[z] = batch[z] \/ batch'[z] = None
      BY <1>0, <2>1, <2>3
    <3>2. Calm(z)
      BY <3>1 DEF Calm
    <3>3. QED
      BY <3>2, OrderedCalm
  <2>4. CASE p \notin {z[1][1], z[1][2]}
    <3>1. Self(z) # p /\ Self(Far(z)) # p
      BY <2>2, <2>4
    <3>2. cut'[z[1]] = cut[z[1]]
      BY <1>0, <2>1, <2>4 DEF RestTyped
    <3>3. QED
      BY <1>0, <1>1, <2>1, <2>4, <3>1, <3>2
  <2>5. QED
    BY <2>3, <2>4
<1>7. QED
  BY <1>2, <1>3, <1>4, <1>5, <1>6 DEF Next, Write, Gossip, Published, vars

(***************************************************************************)
(* The diff is exact (sync.js:4-8, 57-66): no event of a session arrives   *)
(* ahead of its predecessor, whatever gossip, other sessions and crashes   *)
(* do between the vectors and the events.                                  *)
(***************************************************************************)
THEOREM SyncComesInOrder == Spec => []SyncInOrder
<1>1. OrderInv => SyncInOrder
  BY DEF OrderInv, Ordered, BatchNext, SyncInOrder
<1>2. QED
  BY <1>1, OrderedInit, OrderedNext, PTL DEF Spec

-----------------------------------------------------------------------------
(* A session that ran to its end brought all that was announced *)

Reaches(r, a, n) == r.author = a /\ r.to >= n

\* Events up to n are held, being put, on their way, or still to be sent.
Carried(v, b, in, t, a, n) ==
    \/ v[a] >= n
    \/ b # None /\ Reaches(b, a, n)
    \/ \E i \in DOMAIN in : in[i].type = "events" /\ Reaches(in[i].range, a, n)
    \/ \E i \in DOMAIN t : Reaches(t[i], a, n)

AllCarried(v, b, in, t, announced) ==
    \A a \in Author : Carried(v, b, in, t, a, announced[a])

EndSent(in) == \E i \in DOMAIN in : in[i].type = "end"

\* x reads on, and the other end has set out to write all it has.
Expects(x) ==
    /\ WillRead(x) /\ at[x] # "greeting" /\ read[x] <= MaxMessages
    /\ EndSent(inbox[x]) \/ (~cut[x[1]] /\ at[Far(x)] = "writing")

\* x has read the end of what the other wrote.
Finished(x) ==
    read[x] <= MaxMessages /\ (at[x] = "done" \/ (x[2] = "responder" /\ at[x] = "writing"))

Promised(x) ==
    /\ Expects(x) =>
          AllCarried(have[Self(x)], batch[x], inbox[x], todo[Far(x)], theirs[x])
    /\ Finished(x) => Covers(x)

PromiseInv == OrderInv /\ \A x \in End : Promised(x)

LEMMA PromisedLater ==
    ASSUME NEW z \in End
    PROVE  /\ Promised(z)' <=>
                /\ Expects(z)' =>
                      AllCarried(have'[Self(z)], batch'[z], inbox'[z], todo'[Far(z)], theirs'[z])
                /\ Finished(z)' => \A a \in Author : have'[Self(z)][a] >= theirs'[z][a]
           /\ Expects(z)' <=>
                /\ \/ at'[z] = "reading"
                   \/ z[2] = "dialer" /\ at'[z] = "writing"
                /\ read'[z] <= MaxMessages
                /\ EndSent(inbox'[z]) \/ (~cut'[z[1]] /\ at'[Far(z)] = "writing")
           /\ Finished(z)' <=>
                /\ read'[z] <= MaxMessages
                /\ at'[z] = "done" \/ (z[2] = "responder" /\ at'[z] = "writing")
<1>1. Promised(z)' <=>
          /\ Expects(z)' =>
                AllCarried(have'[Self(z)], batch'[z], inbox'[z], todo'[Far(z)], theirs'[z])
          /\ Finished(z)' => \A a \in Author : have'[Self(z)][a] >= theirs'[z][a]
  BY DEF Promised, Covers, AllCarried, Carried, Reaches, Self, Far
<1>2. Expects(z)' <=>
          /\ WillRead(z)' /\ at'[z] # "greeting" /\ read'[z] <= MaxMessages
          /\ EndSent(inbox'[z]) \/ (~cut'[z[1]] /\ at'[Far(z)] = "writing")
  BY DEF Expects, EndSent, Far
<1>3. Finished(z)' <=>
          /\ read'[z] <= MaxMessages
          /\ at'[z] = "done" \/ (z[2] = "responder" /\ at'[z] = "writing")
  BY DEF Finished
<1>4. QED
  BY <1>1, <1>2, <1>3, OrderedLater

LEMMA CarriedGrows ==
    ASSUME NEW v \in Vector, NEW w \in Vector, \A a \in Author : v[a] <= w[a],
           NEW announced \in Vector, NEW b, NEW in, NEW t,
           AllCarried(v, b, in, t, announced)
    PROVE  AllCarried(w, b, in, t, announced)
<1>1. \A a \in Author : /\ v[a] \in Nat /\ w[a] \in Nat /\ announced[a] \in Nat
  BY DEF Vector
<1>2. \A a \in Author : v[a] >= announced[a] => w[a] >= announced[a]
  BY <1>1
<1>3. QED
  BY <1>2 DEF AllCarried, Carried

LEMMA PromisedSame ==
    ASSUME PromiseInv, [Next]_vars, NEW z \in End, ~Crash(Self(z)),
           theirs'[z] = theirs[z], Finished(z)' => Finished(z),
           \/ ~Expects(z)'
           \/ /\ Expects(z) /\ batch'[z] = batch[z] /\ inbox'[z] = inbox[z]
              /\ todo'[Far(z)] = todo[Far(z)]
    PROVE  Promised(z)'
<1>1. /\ have[Self(z)] \in Vector /\ have'[Self(z)] \in Vector
      /\ \A a \in Author : have[Self(z)][a] <= have'[Self(z)][a]
      /\ theirs[z] \in Vector /\ Promised(z)
  BY TypesOfNext, MessagesTyped DEF PromiseInv
<1>2. ASSUME Finished(z) PROVE \A a \in Author : have'[Self(z)][a] >= theirs[z][a]
  <2>1. \A a \in Author : /\ have[Self(z)][a] \in Nat /\ have'[Self(z)][a] \in Nat
                          /\ theirs[z][a] \in Nat /\ have[Self(z)][a] >= theirs[z][a]
    BY <1>1, <1>2 DEF Promised, Covers, Vector
  <2>2. QED
    BY <1>1, <2>1
<1>3. ASSUME Expects(z)
      PROVE  AllCarried(have'[Self(z)], batch[z], inbox[z], todo[Far(z)], theirs[z])
  BY <1>1, <1>3, CarriedGrows DEF Promised
<1>4. QED
  BY <1>2, <1>3, PromisedLater

\* All that a writer announced and the reader lacks is in the writer's plan.
LEMMA PlannedCarries ==
    ASSUME PromiseInv, [Next]_vars, NEW z \in End, NEW other \in Vector,
           have' = have, theirs'[z] = theirs[z], ~cut[z[1]],
           Planned(Far(z), other), \A a \in Author : other[a] <= have[Self(z)][a],
           NEW b, NEW in
    PROVE  AllCarried(have'[Self(z)], b, in, todo'[Far(z)], theirs'[z])
<1> DEFINE v == have[Self(z)]
           u == have[Self(Far(z))]
           t == todo'[Far(z)]
<1>1. /\ v \in Vector /\ theirs[z] \in Vector /\ u \in Vector
      /\ \A a \in Author : theirs[z][a] <= u[a]
  <2>1. Vectors(z) /\ Far(z) \in End
    BY PairFacts DEF PromiseInv, OrderInv, CopyInv
  <2>2. QED
    BY <2>1, TypesOfNext, MessagesTyped DEF PromiseInv, Vectors
<1>2. \A a \in Author : u[a] > other[a] =>
          \E i \in DOMAIN t : t[i].author = a /\ t[i].to = u[a]
  BY DEF Planned
<1> HIDE DEF v, u, t
<1>3. ASSUME NEW a \in Author PROVE Carried(v, b, in, t, a, theirs[z][a])
  <2>1. v[a] \in Nat /\ u[a] \in Nat /\ theirs[z][a] \in Nat /\ other[a] \in Nat
        /\ theirs[z][a] <= u[a]
    BY <1>1 DEF Vector
  <2>2. CASE u[a] > other[a]
    <3>1. PICK i \in DOMAIN t : t[i].author = a /\ t[i].to = u[a]
      BY <1>2, <2>2
    <3>2. Reaches(t[i], a, theirs[z][a])
      BY <2>1, <3>1 DEF Reaches
    <3>3. QED
      BY <3>2 DEF Carried
  <2>3. CASE ~(u[a] > other[a])
    <3>1. other[a] <= v[a]
      BY DEF v
    <3>2. v[a] >= theirs[z][a]
      BY <2>1, <2>3, <3>1
    <3>3. QED
      BY <3>2 DEF Carried
  <2>4. QED
    BY <2>2, <2>3
<1>4. QED
  BY <1>3 DEF AllCarried, v, t

LEMMA PromisedTakes ==
    ASSUME PromiseInv, [Next]_vars, NEW x \in End, NEW y \in End, y = Far(x), Takes(x),
           at'[y] = at[y], todo'[y] = todo[y]
    PROVE  Promised(x)'
<1> DEFINE v == have[Self(x)]
           b == inbox[x][1].range
           in == inbox'[x]
<1>1. /\ have' = have /\ cut' = cut /\ at[x] = "reading" /\ at'[x] = "reading"
      /\ batch[x] = None /\ batch'[x] = b /\ theirs'[x] = theirs[x] /\ read'[x] = read[x] + 1
      /\ inbox[x][1].type = "events" /\ EndTyped /\ Messages(inbox[x]) /\ Promised(x)
      /\ read[x] \in Nat /\ MaxMessages \in Nat
  BY TypesOfNext, MessagesTyped, ReplicationAssumption
     DEF Takes, Reads, StillHave, PromiseInv
<1>2. /\ 1 \in DOMAIN inbox[x]
      /\ \A i \in DOMAIN in : i + 1 \in DOMAIN inbox[x] /\ in[i] = inbox[x][i + 1]
      /\ \A i \in DOMAIN inbox[x] :
             i = 1 \/ (i - 1 \in DOMAIN in /\ in[i - 1] = inbox[x][i])
  BY <1>1, TailMessages DEF Takes, Reads, Pending
<1>3. b \in Spans /\ b # None
  BY <1>1, <1>2, SpanNotNone DEF Messages
<1> HIDE DEF v, b, in
<1>4. EndSent(in) => EndSent(inbox[x])
  BY <1>2 DEF EndSent
<1>5. ASSUME Expects(x)' PROVE Expects(x)
  <2>1. read[x] <= MaxMessages
    BY <1>1, <1>5, PromisedLater
  <2>2. EndSent(inbox[x]) \/ (~cut[x[1]] /\ at[y] = "writing")
    BY <1>1, <1>4, <1>5, PromisedLater DEF in
  <2>3. QED
    BY <1>1, <2>1, <2>2 DEF Expects, WillRead
<1>6. ASSUME AllCarried(v, None, inbox[x], todo[y], theirs[x])
      PROVE  AllCarried(v, b, in, todo[y], theirs[x])
  <2>1. ASSUME NEW a \in Author, NEW n, Carried(v, None, inbox[x], todo[y], a, n)
        PROVE  Carried(v, b, in, todo[y], a, n)
    <3>1. ASSUME NEW i \in DOMAIN inbox[x], inbox[x][i].type = "events",
                 Reaches(inbox[x][i].range, a, n)
          PROVE  Carried(v, b, in, todo[y], a, n)
      <4>1. CASE i = 1
        BY <1>3, <3>1, <4>1 DEF Carried, b
      <4>2. CASE i # 1
        BY <1>2, <3>1, <4>2 DEF Carried
      <4>3. QED
        BY <4>1, <4>2
    <3>2. QED
      BY <2>1, <3>1 DEF Carried
  <2>2. QED
    BY <1>6, <2>1 DEF AllCarried
<1>7. Expects(x)' => AllCarried(v, b, in, todo[y], theirs[x])
  BY <1>1, <1>5, <1>6 DEF Promised, v
<1>8. ~Finished(x)'
  BY <1>1, PromisedLater
<1>9. QED
  BY <1>1, <1>7, <1>8, PromisedLater DEF v, in

LEMMA PromisedPuts ==
    ASSUME PromiseInv, [Next]_vars, NEW x \in End, NEW y \in End, y = Far(x), Puts(x),
           ~Crash(Self(x)),
           at'[y] = at[y], todo'[y] = todo[y]
    PROVE  Promised(x)'
<1> DEFINE v == have[Self(x)]
           w == have'[Self(x)]
           b == batch[x]
           c == batch'[x]
           t == todo[y]
<1>1. /\ v \in Vector /\ w \in Vector /\ \A a \in Author : v[a] <= w[a]
      /\ b \in Spans /\ b # None /\ PutEvent(Self(x), b.author, b.from)
      /\ at'[x] = at[x] /\ inbox'[x] = inbox[x] /\ cut' = cut
      /\ theirs'[x] = theirs[x] /\ read'[x] = read[x] /\ theirs[x] \in Vector
      /\ \/ b.from = b.to /\ c = None
         \/ b.from < b.to /\ c = Span(b.author, b.from + 1, b.to)
      /\ Ordered(x) /\ Promised(x)
  BY TypesOfNext, MessagesTyped DEF Puts, PromiseInv
<1>2. /\ b.author \in Author /\ b.from \in Nat /\ b.to \in Nat
      /\ v[b.author] \in Nat /\ w[b.author] \in Nat
  BY <1>1, SpanFacts DEF Vector
<1>3. w[b.author] >= b.from
  <2>1. b.from <= v[b.author] + 1
    BY <1>1 DEF Ordered, BatchNext
  <2>2. ReplicaTyped /\ Self(x) \in Peer
    BY TypedParts, PairFacts DEF PromiseInv, OrderInv, CopyInv, TurnsInv
  <2>3. QED
    BY <1>1, <1>2, <2>1, <2>2, PutGrows
<1> HIDE DEF v, w, b, c, t
<1>4. ASSUME NEW a \in Author, Carried(v, b, inbox[x], t, a, theirs[x][a])
      PROVE  Carried(w, c, inbox[x], t, a, theirs[x][a])
  <2>1. theirs[x][a] \in Nat /\ v[a] \in Nat /\ w[a] \in Nat /\ v[a] <= w[a]
    BY <1>1 DEF Vector
  <2>2. CASE v[a] >= theirs[x][a]
    BY <2>1, <2>2 DEF Carried
  <2>3. CASE Reaches(b, a, theirs[x][a])
    <3>1. CASE b.from = b.to
      <4>1. w[a] >= theirs[x][a]
        BY <1>2, <1>3, <2>1, <2>3, <3>1 DEF Reaches
      <4>2. QED
        BY <4>1 DEF Carried
    <3>2. CASE b.from < b.to /\ c = Span(b.author, b.from + 1, b.to)
      <4>1. b.from + 1 \in Nat /\ 1 <= b.from + 1 /\ b.from + 1 <= b.to
        BY <1>2, <3>2
      <4>2. c \in Spans /\ c # None /\ Reaches(c, a, theirs[x][a])
        BY <1>2, <2>3, <3>2, <4>1, SpanFacts, SpanNotNone DEF Reaches, Span
      <4>3. QED
        BY <4>2 DEF Carried
    <3>3. QED
      BY <1>1, <3>1, <3>2
  <2>4. QED
    BY <1>4, <2>2, <2>3 DEF Carried
<1>5. (Expects(x)' => Expects(x)) /\ (Finished(x)' => Finished(x))
  BY <1>1, PromisedLater DEF Expects, Finished, WillRead
<1>6. Expects(x)' => AllCarried(w, c, inbox[x], t, theirs[x])
  BY <1>1, <1>4, <1>5 DEF Promised, AllCarried, v, b, t
<1>7. ASSUME Finished(x) PROVE \A a \in Author : w[a] >= theirs[x][a]
  <2>1. \A a \in Author : v[a] \in Nat /\ w[a] \in Nat /\ theirs[x][a] \in Nat
                          /\ v[a] >= theirs[x][a]
    BY <1>1, <1>7 DEF Promised, Covers, Vector, v
  <2>2. QED
    BY <1>1, <2>1
<1>8. QED
  BY <1>1, <1>5, <1>6, <1>7, PromisedLater DEF w, c, t

\* A message sent carries what the range it is taken from did.
LEMMA PromisedSends ==
    ASSUME PromiseInv, [Next]_vars, NEW x \in End, NEW y \in End, y = Far(x),
           ~Crash(Self(y)), NEW m, Delivers(x, m), theirs'[y] = theirs[y], at'[y] = at[y],
           batch'[y] = batch[y], read'[y] = read[y],
           \A a \in Author, n \in Nat : \A j \in DOMAIN todo[x] :
               Reaches(todo[x][j], a, n) =>
                   \/ m.type = "events" /\ Reaches(m.range, a, n)
                   \/ \E i \in DOMAIN todo'[x] : Reaches(todo'[x][i], a, n)
    PROVE  Promised(y)'
<1> DEFINE v == have[Self(y)]
           b == batch[y]
           in == inbox'[y]
<1>0. Far(y) = x /\ y[1] = x[1]
  BY PairFacts
<1>1. /\ have' = have /\ cut' = cut /\ at[x] = "writing" /\ m \in Message
      /\ EndTyped /\ theirs[y] \in Vector /\ Promised(y)
  BY TypesOfNext, MessagesTyped DEF Delivers, StillHave, PromiseInv
<1>2. Finished(y)' => Finished(y)
  BY <1>1, PromisedLater DEF Finished
<1>3. CASE cut[x[1]] /\ in = inbox[y] /\ inbox[y] = <<>>
  <2>1. ~EndSent(in)
    BY <1>3 DEF EndSent
  <2>2. ~Expects(y)'
    BY <1>0, <1>1, <1>3, <2>1, PromisedLater
  <2>3. QED
    BY <1>2, <2>2, PromisedSame
<1>4. CASE ~cut[x[1]] /\ in = Append(inbox[y], m)
  <2>1. Expects(y)' => Expects(y)
    BY <1>0, <1>1, <1>4, PromisedLater DEF Expects, WillRead
  <2>2. /\ \A i \in DOMAIN inbox[y] : i \in DOMAIN in /\ in[i] = inbox[y][i]
        /\ Len(inbox[y]) + 1 \in DOMAIN in /\ in[Len(inbox[y]) + 1] = m
    BY <1>1, <1>4, AppendMessages
  <2> HIDE DEF in
  <2>3. ASSUME NEW a \in Author, Carried(v, b, inbox[y], todo[x], a, theirs[y][a])
        PROVE  Carried(v, b, in, todo'[x], a, theirs[y][a])
    <3>1. theirs[y][a] \in Nat
      BY <1>1 DEF Vector
    <3>2. QED
      BY <2>2, <2>3, <3>1 DEF Carried
  <2>4. Expects(y)' => AllCarried(v, b, in, todo'[x], theirs[y])
    BY <1>0, <1>1, <2>1, <2>3 DEF Promised, AllCarried
  <2>5. Finished(y)' => \A a \in Author : v[a] >= theirs[y][a]
    BY <1>1, <1>2 DEF Promised, Covers
  <2>6. QED
    BY <1>0, <1>1, <2>4, <2>5, PromisedLater DEF in
<1>5. QED
  BY <1>3, <1>4 DEF Delivers

LEMMA PromisedStep ==
    ASSUME PromiseInv, [Next]_vars, NEW x \in End, Step(x), NEW y \in End, y = Far(x)
    PROVE  Promised(x)' /\ Promised(y)'
<1>a. ~Crash(Self(x)) /\ ~Crash(Self(y))
  BY StepIsNoCrash DEF PromiseInv, OrderInv, CopyInv
<1>0. /\ EndTyped /\ TurnsInv /\ OrderInv /\ Turns(x) /\ Turns(y)
      /\ y # x /\ Far(y) = x /\ y[1] = x[1]
      /\ (x[2] = "dialer" /\ y[2] = "responder") \/ (x[2] = "responder" /\ y[2] = "dialer")
  BY TypedParts, PairFacts DEF PromiseInv, OrderInv, CopyInv, TurnsInv
<1>1. /\ at'[y] = at[y] /\ theirs'[y] = theirs[y] /\ todo'[y] = todo[y] /\ batch'[y] = batch[y]
      /\ read'[y] = read[y] /\ cut' = cut
  BY <1>0, StepFrame DEF TurnsInv
<1>2. Finished(y)' <=> Finished(y)
  BY <1>0, <1>1, PromisedLater DEF Finished
<1>3. ASSUME NEW z \in End, ~Expects(z)', ~Finished(z)' PROVE Promised(z)'
  BY <1>3, PromisedLater
<1>4. ASSUME ~Expects(y)' PROVE Promised(y)'
  BY <1>a, <1>0, <1>1, <1>2, <1>4, PromisedSame
<1>5. ASSUME inbox'[y] = inbox[y], todo'[x] = todo[x], at'[x] = "writing" => at[x] = "writing"
      PROVE  Promised(y)'
  <2>1. Expects(y)' => Expects(y)
    BY <1>0, <1>1, <1>5, PromisedLater DEF Expects, WillRead
  <2>2. QED
    BY <1>a, <1>0, <1>1, <1>2, <1>5, <2>1, PromisedSame
<1>6. inbox[x] # <<>> =>
          /\ ~cut[y[1]] /\ \A a \in Author : theirs[x][a] <= have[Self(y)][a]
          /\ \A i \in DOMAIN inbox[x], a \in Author :
                inbox[x][i].type = "have" => inbox[x][i].vector[a] <= have[Self(y)][a]
  BY <1>0 DEF OrderInv, CopyInv, Vectors, Turns, Greets
<1>7. ASSUME NEW other \in Vector, Planned(x, other), have' = have, inbox[x] # <<>>,
             \A a \in Author : other[a] <= have[Self(y)][a]
      PROVE  Promised(y)'
  <2>1. AllCarried(have'[Self(y)], batch'[y], inbox'[y], todo'[x], theirs'[y])
    BY <1>0, <1>1, <1>6, <1>7, PlannedCarries
  <2>2. Finished(y)' => \A a \in Author : have'[Self(y)][a] >= theirs'[y][a]
    BY <1>1, <1>2, <1>7 DEF PromiseInv, Promised, Covers
  <2>3. QED
    BY <1>0, <2>1, <2>2, PromisedLater
<1>8. CASE Answers(x)
  <2>1. /\ at'[x] = "reading" /\ at[y] \in {"greeting", "failed", "idle"} /\ inbox'[x] = <<>>
        /\ x[2] = "responder"
    BY <1>8 DEF Answers
  <2>2. ~EndSent(inbox'[x])
    BY <2>1 DEF EndSent
  <2>3. ~Expects(x)' /\ ~Finished(x)'
    BY <1>1, <2>1, <2>2, PromisedLater
  <2>4. ~Expects(y)'
    BY <1>1, <2>1, PromisedLater
  <2>5. QED
    BY <1>3, <1>4, <2>3, <2>4
<1>9. CASE Opens(x)
  <2>1. /\ at'[x] = "writing" /\ at[y] \in {"reading", "failed", "idle"} /\ inbox'[x] = <<>>
        /\ x[2] = "dialer" /\ have' = have
        /\ 1 \in DOMAIN inbox[x] /\ inbox[x][1].type = "have"
        /\ theirs'[x] = inbox[x][1].vector /\ Planned(x, theirs'[x])
    BY <1>9 DEF Opens, StillHave
  <2>2. ~EndSent(inbox'[x])
    BY <2>1 DEF EndSent
  <2>3. ~Expects(x)' /\ ~Finished(x)'
    BY <1>1, <2>1, <2>2, PromisedLater
  <2>4. theirs'[x] \in Vector /\ \A a \in Author : theirs'[x][a] <= have[Self(y)][a]
    BY <1>0, <1>6, <2>1, MessagesTyped
  <2>5. QED
    BY <1>3, <1>7, <2>1, <2>3, <2>4
<1>10. ASSUME NEW m, Delivers(x, m), at'[x] \in {"writing", "reading", "done"},
              at'[x] = "reading" => x[2] = "dialer", at'[x] = "done" => x[2] = "responder"
       PROVE  Promised(x)'
  <2>1. /\ inbox'[x] = inbox[x] /\ theirs'[x] = theirs[x] /\ batch'[x] = batch[x]
        /\ read'[x] = read[x] /\ at[x] = "writing"
    BY <1>10 DEF Delivers
  <2>2. (Expects(x)' => Expects(x)) /\ (Finished(x)' => Finished(x))
    BY <1>0, <1>1, <1>10, <2>1, PromisedLater DEF Expects, Finished, WillRead
  <2>3. QED
    BY <1>a, <1>1, <2>1, <2>2, PromisedSame
<1>11. ASSUME NEW r, NEW last, SendsEvents(x, r, last) PROVE Promised(x)' /\ Promised(y)'
  <2> DEFINE s == Span(r.author, r.from, last)
             m == Events(s)
             more == Span(r.author, last + 1, r.to)
  <2>1. /\ Delivers(x, m) /\ at'[x] = "writing"
        /\ last \in Nat /\ r.to \in Nat /\ last <= r.to /\ r = todo[x][1]
        /\ last < r.to => \E i \in DOMAIN todo'[x] : todo'[x][i] = more
        /\ \A j \in DOMAIN todo[x] : j = 1 \/ \E i \in DOMAIN todo'[x] : todo'[x][i] = todo[x][j]
    BY <1>11, SpanFacts DEF SendsEvents, Delivers
  <2>2. /\ m.type = "events" /\ m.range.author = r.author /\ m.range.to = last
        /\ more.author = r.author /\ more.to = r.to
    BY DEF Events, Span
  <2> HIDE DEF s, m, more
  <2>3. ASSUME NEW a \in Author, NEW n \in Nat, NEW j \in DOMAIN todo[x],
               Reaches(todo[x][j], a, n)
        PROVE  \/ m.type = "events" /\ Reaches(m.range, a, n)
               \/ \E i \in DOMAIN todo'[x] : Reaches(todo'[x][i], a, n)
    <3>1. CASE j = 1
      <4>1. CASE last < r.to
        BY <2>1, <2>2, <2>3, <3>1, <4>1 DEF Reaches
      <4>2. CASE ~(last < r.to)
        <5>1. last = r.to
          BY <2>1, <4>2
        <5>2. QED
          BY <2>1, <2>2, <2>3, <3>1, <5>1 DEF Reaches
      <4>3. QED
        BY <4>1, <4>2
    <3>2. CASE j # 1
      BY <2>1, <2>3, <3>2
    <3>3. QED
      BY <3>1, <3>2
  <2>4. Promised(y)'
    BY <1>a, <1>1, <2>1, <2>3, PromisedSends
  <2>5. QED
    BY <1>10, <2>1, <2>4
<1>12. CASE Ends(x)
  <2>1. /\ Delivers(x, EndOfEvents) /\ todo[x] = <<>>
        /\ at'[x] = IF x[2] = "dialer" THEN "reading" ELSE "done"
    BY <1>12 DEF Ends
  <2>2. Promised(x)'
    BY <1>0, <1>10, <2>1
  <2>3. DOMAIN todo[x] = {}
    BY <2>1
  <2>4. Promised(y)'
    BY <1>a, <1>1, <2>1, <2>3, PromisedSends
  <2>5. QED
    BY <2>2, <2>4
<1>13. CASE Takes(x)
  <2>1. Promised(x)'
    BY <1>1, <1>13, PromisedTakes
  <2>2. Promised(y)'
    BY <1>5, <1>13 DEF Takes, Reads
  <2>3. QED
    BY <2>1, <2>2
<1>14. CASE Finishes(x)
  <2>1. /\ have' = have /\ at[x] = "reading" /\ batch[x] = None /\ theirs'[x] = theirs[x]
        /\ inbox[x] # <<>> /\ inbox'[y] = inbox[y] /\ todo[x] = <<>> /\ theirs[x] \in Vector
        /\ \/ inbox[x][1].type = "end" /\ read'[x] = read[x]
           \/ read'[x] > MaxMessages
        /\ \/ x[2] = "dialer" /\ at'[x] = "done" /\ todo'[x] = <<>>
           \/ x[2] = "responder" /\ at'[x] = "writing" /\ Planned(x, theirs[x])
    BY <1>0, <1>14, MessagesTyped DEF Finishes, Reads, Pending, StillHave
  <2>2. ~Expects(x)'
    BY <2>1, PromisedLater
  <2>3. ASSUME Finished(x)' PROVE \A a \in Author : have[Self(x)][a] >= theirs[x][a]
    <3>0. read[x] \in Nat /\ read'[x] \in Nat /\ MaxMessages \in Nat
      <4>1. EndTyped'
        BY <1>0, TypedParts, TypedNext DEF TurnsInv, Typed, TypeOK, EndTyped
      <4>2. QED
        BY <1>0, <4>1, ReplicationAssumption DEF EndTyped
    <3>1. inbox[x][1].type = "end" /\ read[x] <= MaxMessages
      BY <2>1, <2>3, <3>0, PromisedLater
    <3>2. /\ Len(inbox[x]) \in Nat /\ DOMAIN inbox[x] = 1..Len(inbox[x])
          /\ 1 \in DOMAIN inbox[x]
      BY <1>0, <2>1, HeadFacts, MessagesTyped
    <3>3. 1 = Len(inbox[x]) /\ Written(y)
      BY <1>0, <3>1, <3>2 DEF Turns, EndLast
    <3>4. \A i \in DOMAIN inbox[x] : inbox[x][i].type # "events"
      BY <3>1, <3>2, <3>3
    <3>5. todo[y] = <<>>
      BY <1>0, <3>3 DEF Turns, OneWriter, Written
    <3>6. Expects(x)
      BY <2>1, <3>1, <3>2 DEF Expects, WillRead, EndSent
    <3>7. AllCarried(have[Self(x)], None, inbox[x], <<>>, theirs[x])
      BY <2>1, <3>5, <3>6 DEF PromiseInv, Promised
    <3>8. DOMAIN <<>> = {}
      OBVIOUS
    <3>9. QED
      BY <3>4, <3>7, <3>8 DEF AllCarried, Carried
  <2>4. Promised(x)'
    BY <2>1, <2>2, <2>3, PromisedLater
  <2>5. Promised(y)'
    BY <1>5, <1>6, <1>7, <2>1
  <2>6. QED
    BY <2>4, <2>5
<1>15. CASE Breaks(x)
  <2>1. /\ at[x] \notin Over /\ at'[x] = "failed" /\ todo'[x] = <<>>
        /\ inbox'[y] = inbox[y] /\ theirs'[x] = theirs[x]
    BY <1>15 DEF Breaks
  <2>2. ~Expects(x)' /\ ~Finished(x)'
    BY <2>1, PromisedLater
  <2>3. ASSUME Expects(y)' PROVE Expects(y) /\ todo[x] = <<>>
    <3>1. EndSent(inbox[y])
      BY <1>0, <2>1, <2>3, PromisedLater
    <3>2. Written(x)
      BY <1>0, <3>1 DEF EndSent, Turns, EndLast
    <3>3. todo[x] = <<>>
      BY <1>0, <3>2 DEF Turns, OneWriter, Written
    <3>4. QED
      BY <1>0, <1>1, <2>3, <3>1, <3>3, PromisedLater DEF Expects, WillRead
  <2>4. Promised(y)'
    BY <1>a, <1>0, <1>1, <1>2, <2>1, <2>3, PromisedSame
  <2>5. QED
    BY <1>3, <2>2, <2>4
<1>16. CASE Puts(x)
  <2>1. Promised(x)'
    BY <1>a, <1>1, <1>16, PromisedPuts
  <2>2. Promised(y)'
    BY <1>5, <1>16 DEF Puts
  <2>3. QED
    BY <2>1, <2>2
<1>17. QED
  BY <1>0, <1>8, <1>9, <1>11, <1>12, <1>13, <1>14, <1>15, <1>16, StepCases

LEMMA PromisedInit == Init => PromiseInv
<1> SUFFICES ASSUME Init, NEW x \in End PROVE Promised(x)
  BY OrderedInit DEF PromiseInv
<1>1. at[x] = "idle"
  BY DEF Init
<1>2. QED
  BY <1>1 DEF Promised, Expects, Finished, WillRead

LEMMA PromisedNext == PromiseInv /\ [Next]_vars => PromiseInv'
<1> SUFFICES ASSUME PromiseInv, [Next]_vars, NEW z \in End PROVE Promised(z)'
  BY OrderedNext DEF PromiseInv
<1>a. CASE Crash(Self(z))
  <2>1. at'[z] = "idle" /\ batch'[z] = None
    BY <1>a DEF Crash, Stop
  <2>2. QED
    BY <2>1, PromisedLater
<1> SUFFICES ASSUME ~Crash(Self(z)) PROVE Promised(z)'
  BY <1>a
<1>0. /\ EndTyped /\ RestTyped /\ TurnsInv /\ OrderInv
      /\ Far(z) \in End /\ Far(z) # z /\ Far(z)[1] = z[1] /\ z[1] \in Call /\ Far(Far(z)) = z
  BY TypedParts, PairFacts DEF PromiseInv, OrderInv, CopyInv, TurnsInv
<1>1. ASSUME at'[z] = at[z], at'[Far(z)] = at[Far(z)], batch'[z] = batch[z],
             cut'[z[1]] = cut[z[1]], read'[z] = read[z], theirs'[z] = theirs[z],
             inbox'[z] = inbox[z], todo'[Far(z)] = todo[Far(z)]
      PROVE  Promised(z)'
  <2>1. (Expects(z)' => Expects(z)) /\ (Finished(z)' => Finished(z))
    BY <1>1, PromisedLater DEF Expects, Finished, WillRead
  <2>2. QED
    BY <1>1, <2>1, PromisedSame
<1>2. ASSUME NEW x \in End, Step(x) PROVE Promised(z)'
  <2>1. CASE z \in {x, Far(x)}
    <3>1. PICK y \in End : y = Far(x)
      BY PairFacts
    <3>2. Promised(x)' /\ Promised(y)'
      BY <1>2, <3>1, PromisedStep
    <3>3. QED
      BY <2>1, <3>1, <3>2
  <2>2. CASE z \notin {x, Far(x)}
    <3>1. z[1] # x[1]
      BY <2>2, EndFacts
    <3>2. Far(z) \notin {x, Far(x)}
      BY <1>0, <3>1, EndFacts
    <3>3. QED
      BY <1>0, <1>1, <1>2, <2>2, <3>2, StepFrame DEF TurnsInv
  <2>3. QED
    BY <2>1, <2>2
<1>3. ASSUME UNCHANGED <<endVars, cut>> PROVE Promised(z)'
  BY <1>1, <1>3 DEF endVars
<1>4. ASSUME NEW c \in Call, Dial(c) PROVE Promised(z)'
  <2> DEFINE d == <<c, "dialer">>
             r == <<c, "responder">>
  <2>1. /\ d \in End /\ r \in End /\ Far(d) = r /\ Far(r) = d
    BY CallFacts
  <2>2. \A w \in End : w[1] = c => w \in {d, r}
    BY <2>1, EndFacts
  <2> HIDE DEF d, r
  <2>3. /\ at'[d] = "greeting" /\ at'[r] = "greeting"
        /\ \A w \in End \ {d, r} : /\ at'[w] = at[w] /\ inbox'[w] = inbox[w]
                                   /\ todo'[w] = todo[w] /\ batch'[w] = batch[w]
                                   /\ read'[w] = read[w] /\ theirs'[w] = theirs[w]
        /\ \A b \in Call \ {c} : cut'[b] = cut[b]
    BY <1>0, <1>4, <2>1 DEF Dial, EndTyped, RestTyped, d, r
  <2>4. CASE z \in {d, r}
    BY <2>3, <2>4, PromisedLater
  <2>5. CASE z \notin {d, r}
    <3>1. Far(z) \notin {d, r}
      BY <1>0, <2>1, <2>5
    <3>2. z[1] # c
      BY <2>2, <2>5
    <3>3. QED
      BY <1>0, <1>1, <2>3, <2>5, <3>1, <3>2
  <2>6. QED
    BY <2>4, <2>5
<1>5. ASSUME inbox'[z] = <<>>, cut'[z[1]], theirs'[z] = theirs[z], read'[z] = read[z],
             at'[z] = at[z] \/ at'[z] = "failed"
      PROVE  Promised(z)'
  <2>1. ~EndSent(inbox'[z])
    BY <1>5 DEF EndSent
  <2>2. ~Expects(z)' /\ (Finished(z)' => Finished(z))
    BY <1>5, <2>1, PromisedLater DEF Finished
  <2>3. QED
    BY <1>5, <2>2, PromisedSame
<1>6. ASSUME NEW c \in Call, Cut(c) PROVE Promised(z)'
  <2>1. /\ at' = at /\ todo' = todo /\ batch' = batch /\ theirs' = theirs /\ read' = read
        /\ inbox'[z] = IF z[1] = c THEN <<>> ELSE inbox[z]
        /\ cut'[z[1]] = (cut[z[1]] \/ z[1] = c)
    BY <1>0, <1>6 DEF Cut, RestTyped
  <2>2. CASE z[1] = c
    BY <1>5, <2>1, <2>2
  <2>3. CASE z[1] # c
    <3>1. cut'[z[1]] = cut[z[1]]
      BY <1>0, <2>1, <2>3 DEF RestTyped
    <3>2. QED
      BY <1>1, <2>1, <2>3, <3>1
  <2>4. QED
    BY <2>2, <2>3
<1>7. ASSUME NEW p \in Peer, Crash(p) PROVE Promised(z)'
  <2>1. /\ \A w \in End :
              /\ at'[w] = IF Self(w) = p THEN "idle" ELSE at[w]
              /\ theirs'[w] = IF Self(w) = p THEN Nothing ELSE theirs[w]
              /\ read'[w] = IF Self(w) = p THEN 0 ELSE read[w]
              /\ todo'[w] = IF Self(w) = p THEN <<>> ELSE todo[w]
              /\ batch'[w] = IF Self(w) = p THEN None ELSE batch[w]
              /\ inbox'[w] = IF p \in {w[1][1], w[1][2]} THEN <<>> ELSE inbox[w]
        /\ \A b \in Call : cut'[b] = (cut[b] \/ p \in {b[1], b[2]})
    BY <1>7 DEF Crash, Stop
  <2>2. Self(z) \in {z[1][1], z[1][2]} /\ Self(Far(z)) \in {z[1][1], z[1][2]}
    BY DEF Self, Far
  <2>3. CASE p \in {z[1][1], z[1][2]}
    <3>1. Self(z) # p
      BY <1>7
    <3>2. QED
      BY <1>0, <1>5, <2>1, <2>3, <3>1
  <2>4. CASE p \notin {z[1][1], z[1][2]}
    <3>1. Self(z) # p /\ Self(Far(z)) # p
      BY <2>2, <2>4
    <3>2. cut'[z[1]] = cut[z[1]]
      BY <1>0, <2>1, <2>4 DEF RestTyped
    <3>3. QED
      BY <1>0, <1>1, <2>1, <2>4, <3>1, <3>2
  <2>5. QED
    BY <2>3, <2>4
<1>8. QED
  BY <1>2, <1>3, <1>4, <1>6, <1>7 DEF Next, Write, Gossip, Published, vars

(***************************************************************************)
(* A session that ran to its end brought each side up to all the other     *)
(* announced, and the responder already before it writes, unless the       *)
(* message limit cut its reading short (sync.js:67-168).                  *)
(***************************************************************************)
THEOREM SyncCompletes == Spec => []SessionsComplete
<1>1. PromiseInv => SessionsComplete
  <2> SUFFICES ASSUME PromiseInv, NEW c \in Call
               PROVE  LET d == <<c, "dialer">>
                          r == <<c, "responder">>
                      IN  /\ at[d] = "done" /\ read[d] <= MaxMessages => Covers(d)
                          /\ at[r] \in {"writing", "done"} /\ read[r] <= MaxMessages => Covers(r)
    BY DEF SessionsComplete
  <2>1. <<c, "dialer">> \in End /\ <<c, "responder">> \in End
    BY CallFacts
  <2>2. QED
    BY <2>1 DEF PromiseInv, Promised, Finished
<1>2. QED
  BY <1>1, PromisedInit, PromisedNext, PTL DEF Spec
=============================================================================
