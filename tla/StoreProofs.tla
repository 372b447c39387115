---------------------------- MODULE StoreProofs ----------------------------
(***************************************************************************)
(* Theorems about Store, for any authors, events, caps and bounds: its     *)
(* types and bounds; then that it implements SignedLog, never goes back on *)
(* a head, leaves no event stuck behind a filled gap, and hides exactly    *)
(* the tombstoned ones.                                                    *)
(***************************************************************************)
EXTENDS Store, FiniteSetTheorems, SequenceTheorems, TLAPS

-----------------------------------------------------------------------------
(* The types of everything but the pending Map's order and counter *)

FlowOK ==
    /\ mode \in {"loading", "up"}
    /\ applied \subseteq Event
    /\ heads \in [Author -> OrNone(Event)]
    /\ pending \subseteq Event
    /\ deleted \subseteq Event
    /\ tombstonePending \subseteq Event \X Author
    /\ queue \in Seq(Put)
    /\ phase \in {"idle", "appending", "written"}
    /\ phase = "idle" => ev = None /\ put = None
    /\ phase # "idle" => ev \in Event /\ put \in Put
    /\ disk \subseteq Event
    /\ signed \subseteq Event /\ published \subseteq Event
    /\ acked \subseteq Event /\ refused \subseteq Event /\ heard \subseteq Event
    /\ crashes \in Nat /\ failures \in Nat

\* Applying an event keeps the views in their ranges.
LEMMA ApplyTypes ==
    ASSUME FlowOK, NEW e \in Event, Apply(e)
    PROVE  /\ applied' \subseteq Event
           /\ heads' \in [Author -> OrNone(Event)]
           /\ deleted' \subseteq Event
           /\ tombstonePending' \subseteq Event \X Author
           /\ published' \subseteq Event
<1>1. AuthorOf[e] \in Author /\ TargetOf[e] \in OrNone(Event)
  BY EventAssumption DEF OrNone
<1>2. applied' \subseteq Event /\ published' \subseteq Event /\ deleted' \subseteq Event
  BY DEF FlowOK, Apply, Of, Deleted
<1>3. heads' \in [Author -> OrNone(Event)]
  BY <1>1 DEF FlowOK, Apply, OrNone
<1>4. tombstonePending' \subseteq Event \X Author
  BY <1>1 DEF FlowOK, Apply, Tombstones, OrNone
<1>5. QED
  BY <1>2, <1>3, <1>4

\* Holding and forgetting only ever leave events in the buffer.
LEMMA HoldTypes ==
    ASSUME FlowOK, NEW e \in Event, Hold(e)
    PROVE  pending' \subseteq Event
BY DEF FlowOK, Hold, HoldRoom, HoldEvicting, pendingVars, Of

\* The queue hands out puts, and what is left of it is a queue.
LEMMA TurnTypes ==
    ASSUME FlowOK, NEW p, Turn(p)
    PROVE  p \in Put /\ p.event \in Event /\ queue' \in Seq(Put)
<1>1. queue \in Seq(Put) /\ queue # <<>> /\ p = Head(queue) /\ queue' = Tail(queue)
  BY DEF FlowOK, Turn
<1>2. p \in Put /\ queue' \in Seq(Put)
  BY <1>1, HeadTailProperties
<1>3. QED
  BY <1>2 DEF Put

\* An answered put changes nothing but the two sets of answers.
LEMMA AnswerTypes ==
    ASSUME FlowOK, NEW p \in Put, NEW ok \in BOOLEAN, Answer(p, ok)
    PROVE  acked' \subseteq Event /\ refused' \subseteq Event
<1>1. p.event \in Event
  BY DEF Put
<1>2. QED
  BY <1>1 DEF FlowOK, Answer

LEMMA FlowInit == Init => FlowOK
BY StoreAssumption DEF Init, FlowOK, OrNone

LEMMA FlowNext == FlowOK /\ [Next]_vars => FlowOK'
<1> SUFFICES ASSUME FlowOK, [Next]_vars PROVE FlowOK'
  OBVIOUS
<1> USE DEF viewVars, pendingVars, workVars, answerVars
<1>1. ASSUME NEW e \in Event, Sign(e) PROVE FlowOK'
  BY <1>1, AppendProperties DEF FlowOK, Sign, Enqueue, Put
<1>2. ASSUME NEW e \in Event, Receive(e) PROVE FlowOK'
  BY <1>2, AppendProperties DEF FlowOK, Receive, Enqueue, Put
<1>3. ASSUME NEW p \in Put, PutTurn(p) PROVE FlowOK'
  <2> Turn(p) /\ p.event \in Event /\ queue' \in Seq(Put)
    BY <1>3, TurnTypes DEF PutTurn, PutDuplicate, PutInvalid, PutEarly,
                           PutStale, PutUnlinked, PutAppend
  <2>1. CASE \/ PutDuplicate(p) \/ PutInvalid(p) \/ PutStale(p) \/ PutUnlinked(p)
    <3>1. acked' \subseteq Event /\ refused' \subseteq Event
      BY <2>1, AnswerTypes DEF PutDuplicate, PutInvalid, PutStale, PutUnlinked
    <3>2. UNCHANGED <<pendingVars, workVars>>
      BY <2>1 DEF PutDuplicate, PutInvalid, PutStale, PutUnlinked
    <3>3. QED
      BY <3>1, <3>2 DEF FlowOK, Turn
  <2>2. CASE PutEarly(p)
    <3>1. acked' \subseteq Event /\ refused' \subseteq Event
      BY <2>2, AnswerTypes DEF PutEarly
    <3>2. pending' \subseteq Event /\ UNCHANGED workVars
      BY <2>2, HoldTypes DEF PutEarly
    <3>3. QED
      BY <3>1, <3>2 DEF FlowOK, Turn
  <2>3. CASE PutAppend(p)
    BY <2>3 DEF FlowOK, PutAppend, Turn, Appending
  <2>4. QED
    BY <1>3, <2>1, <2>2, <2>3 DEF PutTurn
<1>4. CASE Persist
  BY <1>4 DEF FlowOK, Persist
<1>5. CASE Fail
  <2>1. acked' \subseteq Event /\ refused' \subseteq Event
    BY <1>5, AnswerTypes DEF Fail, Rejected, FlowOK
  <2>2. QED
    BY <1>5, <2>1 DEF FlowOK, Fail, Rejected, Idle
<1>6. CASE ResumeDone
  <2>1. ev \in Event /\ put \in Put /\ Apply(ev) /\ put.event \in Event
    BY <1>6 DEF ResumeDone, Resume, AppendReturned, FlowOK, Put
  <2>2. acked' \subseteq Event /\ refused' \subseteq Event
    BY <1>6, <2>1, AnswerTypes DEF ResumeDone
  <2>3. pending' \subseteq Event
    BY <1>6 DEF ResumeDone, Forget, FlowOK
  <2>4. heard' \subseteq Event
    BY <1>6, <2>1 DEF ResumeDone, FlowOK
  <2>5. QED
    BY <1>6, <2>1, <2>2, <2>3, <2>4, ApplyTypes
       DEF FlowOK, ResumeDone, Resume, Idle
<1>7. CASE ResumeDrain
  <2>1. ev \in Event /\ put \in Put /\ Apply(ev)
    BY <1>7 DEF ResumeDrain, Resume, AppendReturned, FlowOK
  <2>2. /\ pending' \subseteq Event
        /\ phase' = "appending" /\ ev' \in Event /\ put' = put
    BY <1>7 DEF ResumeDrain, Forget, Appending, Unblocked, Of, FlowOK
  <2>3. heard' \subseteq Event
    BY <1>7, <2>1 DEF ResumeDrain, Drained, FlowOK
  <2>4. QED
    BY <1>7, <2>1, <2>2, <2>3, ApplyTypes DEF FlowOK, ResumeDrain, Resume
<1>8. ASSUME NEW e \in Event, LoadApply(e) PROVE FlowOK'
  BY <1>8, ApplyTypes DEF FlowOK, LoadApply
<1>9. CASE LoadDone
  BY <1>9 DEF FlowOK, LoadDone
<1>10. CASE Crash
  BY <1>10 DEF FlowOK, Crash, Restart, Idle, OrNone
<1>11. CASE UNCHANGED vars
  BY <1>11 DEF FlowOK, vars
<1>12. QED
  BY <1>1, <1>2, <1>3, <1>4, <1>5, <1>6, <1>7, <1>8, <1>9, <1>10, <1>11
     DEF Next, Work

LEMMA FlowInvariant == Spec => []FlowOK
BY FlowInit, FlowNext, PTL DEF Spec

-----------------------------------------------------------------------------
(* The pending buffer *)

(***************************************************************************)
(* The caps need the order to list exactly the authors with held events,   *)
(* once each: then evicting the oldest author always makes room.           *)
(***************************************************************************)
OrderOK(S, order) ==
    /\ order \in Seq(Author)
    /\ \A f \in S : \E i \in 1..Len(order) : order[i] = AuthorOf[f]
    /\ \A i \in 1..Len(order) : Of(S, order[i]) # {}
    /\ \A i, j \in 1..Len(order) : order[i] = order[j] => i = j

CapsOK(S, n) ==
    /\ IsFiniteSet(S)
    /\ n \in Nat
    /\ Cardinality(S) <= MaxPending
    /\ Cardinality(S) <= n
    /\ \A a \in Author : Cardinality(Of(S, a)) <= MaxPendingPerAuthor

HeldOK == OrderOK(pending, pendingOrder) /\ CapsOK(pending, pendingCount)

LEMMA OrderAdd ==
    ASSUME NEW S \in SUBSET Event, NEW order, OrderOK(S, order),
           NEW e \in Event, Of(S, AuthorOf[e]) # {}
    PROVE  OrderOK(S \cup {e}, order)
BY EventAssumption DEF OrderOK, Of

LEMMA OrderAppend ==
    ASSUME NEW S \in SUBSET Event, NEW order, OrderOK(S, order),
           NEW e \in Event, Of(S, AuthorOf[e]) = {}
    PROVE  OrderOK(S \cup {e}, Append(order, AuthorOf[e]))
<1> DEFINE o == Append(order, AuthorOf[e])
<1>1. order \in Seq(Author) /\ AuthorOf[e] \in Author
  BY EventAssumption DEF OrderOK
<1>2. /\ o \in Seq(Author)
      /\ Len(o) = Len(order) + 1
      /\ \A i \in 1..Len(order) : o[i] = order[i]
      /\ o[Len(order) + 1] = AuthorOf[e]
      /\ Len(order) \in Nat
  BY <1>1, AppendProperties
<1> HIDE DEF o
<1>3. \A f \in S \cup {e} : \E i \in 1..Len(o) : o[i] = AuthorOf[f]
  BY <1>2 DEF OrderOK
<1>4. \A i \in 1..Len(order) : order[i] # AuthorOf[e]
  BY DEF OrderOK
<1>5. \A i \in 1..Len(o) : Of(S \cup {e}, o[i]) # {}
  <2> SUFFICES ASSUME NEW i \in 1..Len(o) PROVE Of(S \cup {e}, o[i]) # {}
    OBVIOUS
  <2>1. CASE i = Len(order) + 1
    BY <2>1, <1>2 DEF Of
  <2>2. CASE i \in 1..Len(order)
    BY <2>2, <1>2 DEF Of, OrderOK
  <2>3. i = Len(order) + 1 \/ i \in 1..Len(order)
    BY <1>2
  <2>4. QED
    BY <2>1, <2>2, <2>3
<1>6. \A i, j \in 1..Len(o) : o[i] = o[j] => i = j
  BY <1>2, <1>4 DEF OrderOK
<1>7. QED
  BY <1>2, <1>3, <1>5, <1>6 DEF OrderOK, o

\* Deleting a key from the Map removes all events of its author, and only those.
LEMMA OrderTail ==
    ASSUME NEW S \in SUBSET Event, NEW order, OrderOK(S, order), order # <<>>
    PROVE  OrderOK(S \ Of(S, Head(order)), Tail(order))
<1> DEFINE o == Tail(order)
           R == S \ Of(S, Head(order))
<1>1. order \in Seq(Author)
  BY DEF OrderOK
<1>2. /\ o \in Seq(Author)
      /\ Len(o) = Len(order) - 1
      /\ \A i \in 1..Len(o) : o[i] = order[i + 1]
      /\ Len(order) \in Nat \ {0}
      /\ Head(order) = order[1]
  BY <1>1, HeadTailProperties, EmptySeq, LenProperties
<1> HIDE DEF o
<1>3. \A f \in R : \E i \in 1..Len(o) : o[i] = AuthorOf[f]
  <2> SUFFICES ASSUME NEW f \in R PROVE \E i \in 1..Len(o) : o[i] = AuthorOf[f]
    OBVIOUS
  <2>1. f \in S /\ AuthorOf[f] # order[1]
    BY <1>2 DEF Of
  <2>2. PICK i \in 1..Len(order) : order[i] = AuthorOf[f]
    BY <2>1 DEF OrderOK
  <2>3. i - 1 \in 1..Len(o) /\ o[i - 1] = order[i]
    BY <2>1, <2>2, <1>2
  <2>4. QED
    BY <2>2, <2>3
<1>4. \A i \in 1..Len(o) : Of(R, o[i]) # {}
  <2> SUFFICES ASSUME NEW i \in 1..Len(o) PROVE Of(R, o[i]) # {}
    OBVIOUS
  <2>1. i + 1 \in 1..Len(order) /\ o[i] = order[i + 1] /\ 1 \in 1..Len(order)
    BY <1>2
  <2>2. order[i + 1] # order[1]
    BY <2>1, <1>2 DEF OrderOK
  <2>3. Of(S, order[i + 1]) # {}
    BY <2>1 DEF OrderOK
  <2>4. QED
    BY <2>1, <2>2, <2>3, <1>2 DEF Of
<1>5. \A i, j \in 1..Len(o) : o[i] = o[j] => i = j
  <2> SUFFICES ASSUME NEW i \in 1..Len(o), NEW j \in 1..Len(o), o[i] = o[j]
               PROVE  i = j
    OBVIOUS
  <2>1. /\ i + 1 \in 1..Len(order) /\ j + 1 \in 1..Len(order)
        /\ order[i + 1] = order[j + 1]
    BY <1>2
  <2>2. i + 1 = j + 1
    BY <2>1 DEF OrderOK
  <2>3. QED
    BY <2>2, <1>2
<1>6. QED
  BY <1>2, <1>3, <1>4, <1>5 DEF OrderOK, o

LEMMA OrderWithoutKey ==
    ASSUME NEW S \in SUBSET Event, NEW order, OrderOK(S, order),
           NEW k \in 1..Len(order), NEW R \in SUBSET S,
           \A f \in S : f \in R <=> AuthorOf[f] # order[k]
    PROVE  OrderOK(R, WithoutKey(order, k))
<1> DEFINE n == Len(order)
           o == WithoutKey(order, k)
           old(i) == IF i < k THEN i ELSE i + 1
<1>1. order \in Seq(Author) /\ n \in Nat
  BY LenProperties DEF OrderOK
<1>2. /\ SubSeq(order, 1, k - 1) \in Seq(Author)
      /\ Len(SubSeq(order, 1, k - 1)) = k - 1
      /\ \A i \in 1..(k - 1) : SubSeq(order, 1, k - 1)[i] = order[i]
  BY <1>1, SubSeqProperties
<1>3. /\ SubSeq(order, k + 1, n) \in Seq(Author)
      /\ Len(SubSeq(order, k + 1, n)) = n - k
      /\ \A i \in 1..(n - k) : SubSeq(order, k + 1, n)[i] = order[i + k]
  BY <1>1, SubSeqProperties
<1>4. /\ o \in Seq(Author)
      /\ Len(o) = n - 1
      /\ \A i \in 1..Len(o) : old(i) \in 1..n /\ old(i) # k /\ o[i] = order[old(i)]
  <2> DEFINE l == SubSeq(order, 1, k - 1)
             r == SubSeq(order, k + 1, n)
  <2>1. /\ o \in Seq(Author)
        /\ Len(o) = Len(l) + Len(r)
        /\ \A i \in 1..(Len(l) + Len(r)) :
               o[i] = IF i <= Len(l) THEN l[i] ELSE r[i - Len(l)]
    BY <1>2, <1>3, ConcatProperties DEF WithoutKey
  <2>2. /\ Len(l) = k - 1 /\ \A i \in 1..(k - 1) : l[i] = order[i]
        /\ Len(r) = n - k /\ \A i \in 1..(n - k) : r[i] = order[i + k]
    BY <1>2, <1>3
  <2> HIDE DEF l, r, o, n
  <2>3. Len(o) = n - 1 /\ k \in 1..n
    BY <2>1, <2>2, <1>1 DEF n
  <2>4. ASSUME NEW i \in 1..(n - 1)
        PROVE  old(i) \in 1..n /\ old(i) # k /\ o[i] = order[old(i)]
    <3>1. CASE i < k
      <4>1. old(i) = i /\ i \in 1..n /\ i # k
        BY <3>1, <2>3, <1>1
      <4>2. i <= Len(l) /\ i \in 1..(Len(l) + Len(r)) /\ i \in 1..(k - 1)
        BY <3>1, <2>2, <2>3, <1>1
      <4>3. o[i] = l[i] /\ l[i] = order[i]
        BY <4>2, <2>1, <2>2
      <4>4. QED
        BY <4>1, <4>3
    <3>2. CASE i >= k
      <4>1. o[i] = r[i - (k - 1)] /\ i - (k - 1) \in 1..(n - k)
        BY <3>2, <2>1, <2>2, <2>3, <1>1
      <4>2. r[i - (k - 1)] = order[i - (k - 1) + k] /\ i - (k - 1) + k = i + 1
        BY <4>1, <2>2, <2>3, <1>1
      <4>3. QED
        BY <4>1, <4>2, <3>2, <2>3, <1>1
    <3>3. QED
      BY <3>1, <3>2, <2>3, <1>1
  <2>5. QED
    BY <2>1, <2>3, <2>4
<1>5. \A f \in R : \E i \in 1..Len(o) : o[i] = AuthorOf[f]
  <2> SUFFICES ASSUME NEW f \in R PROVE \E i \in 1..Len(o) : o[i] = AuthorOf[f]
    OBVIOUS
  <2>1. PICK j \in 1..n : order[j] = AuthorOf[f]
    BY DEF OrderOK
  <2>2. j # k
    BY <2>1
  <2>3. CASE j < k
    <3>1. j \in 1..Len(o) /\ old(j) = j
      BY <2>3, <1>1, <1>4
    <3>2. QED
      BY <3>1, <1>4, <2>1
  <2>4. CASE j > k
    <3>1. j - 1 \in 1..Len(o) /\ old(j - 1) = j
      BY <2>4, <1>1, <1>4
    <3>2. QED
      BY <3>1, <1>4, <2>1
  <2>5. QED
    BY <2>2, <2>3, <2>4, <1>1
<1> HIDE DEF o
<1>6. \A i \in 1..Len(o) : Of(R, o[i]) # {}
  <2> SUFFICES ASSUME NEW i \in 1..Len(o) PROVE Of(R, o[i]) # {}
    OBVIOUS
  <2>1. old(i) \in 1..n /\ o[i] = order[old(i)] /\ order[old(i)] # order[k]
    BY <1>4 DEF OrderOK
  <2>2. Of(S, order[old(i)]) # {}
    BY <2>1 DEF OrderOK
  <2>3. QED
    BY <2>1, <2>2 DEF Of
<1>7. \A i, j \in 1..Len(o) : o[i] = o[j] => i = j
  <2> SUFFICES ASSUME NEW i \in 1..Len(o), NEW j \in 1..Len(o), o[i] = o[j]
               PROVE  i = j
    OBVIOUS
  <2>1. /\ old(i) \in 1..n /\ old(j) \in 1..n
        /\ order[old(i)] = order[old(j)]
    BY <1>4
  <2>2. old(i) = old(j)
    BY <2>1 DEF OrderOK
  <2>3. QED
    BY <2>2, <1>1, <1>4
<1>8. QED
  BY <1>4, <1>5, <1>6, <1>7 DEF OrderOK, o

\* A sub-buffer of a buffer within the caps is within the caps.
LEMMA CapsSubset ==
    ASSUME NEW S \in SUBSET Event, NEW n \in Nat, CapsOK(S, n),
           NEW R \in SUBSET S, NEW m \in Nat, Cardinality(R) <= m
    PROVE  CapsOK(R, m)
<1>1. IsFiniteSet(R) /\ Cardinality(R) <= Cardinality(S)
  BY FS_Subset DEF CapsOK
<1>2. Cardinality(R) \in Nat /\ Cardinality(S) \in Nat
  BY <1>1, FS_CardinalityType DEF CapsOK
<1>3. ASSUME NEW a \in Author
      PROVE  Cardinality(Of(R, a)) <= MaxPendingPerAuthor
  <2>1. /\ Of(R, a) \subseteq Of(S, a)
        /\ Of(S, a) \subseteq S
    BY DEF Of
  <2>2. IsFiniteSet(Of(S, a))
    BY <2>1, FS_Subset DEF CapsOK
  <2>3. Cardinality(Of(R, a)) <= Cardinality(Of(S, a)) /\ IsFiniteSet(Of(R, a))
    BY <2>1, <2>2, FS_Subset
  <2>4. Cardinality(Of(R, a)) \in Nat /\ Cardinality(Of(S, a)) \in Nat
    BY <2>2, <2>3, FS_CardinalityType
  <2>5. QED
    BY <2>3, <2>4, StoreAssumption DEF CapsOK
<1>4. QED
  BY <1>1, <1>2, <1>3, StoreAssumption DEF CapsOK

\* Room in the whole buffer and in the author's keeps it within the caps.
LEMMA CapsAdd ==
    ASSUME NEW S \in SUBSET Event, NEW n \in Nat, CapsOK(S, n),
           NEW e \in Event \ S, Cardinality(S) < MaxPending,
           Cardinality(Of(S, AuthorOf[e])) < MaxPendingPerAuthor
    PROVE  CapsOK(S \cup {e}, n + 1)
<1>1. /\ IsFiniteSet(S \cup {e})
      /\ Cardinality(S \cup {e}) = Cardinality(S) + 1
      /\ Cardinality(S) \in Nat
  BY FS_AddElement, FS_CardinalityType DEF CapsOK
<1>2. ASSUME NEW a \in Author
      PROVE  Cardinality(Of(S \cup {e}, a)) <= MaxPendingPerAuthor
  <2>1. IsFiniteSet(Of(S, a)) /\ Cardinality(Of(S, a)) \in Nat
    BY FS_Subset, FS_CardinalityType DEF CapsOK, Of
  <2>2. CASE a # AuthorOf[e]
    <3>1. Of(S \cup {e}, a) = Of(S, a)
      BY <2>2 DEF Of
    <3>2. QED
      BY <3>1 DEF CapsOK
  <2>3. CASE a = AuthorOf[e]
    <3>1. Of(S \cup {e}, a) = Of(S, a) \cup {e} /\ e \notin Of(S, a)
      BY <2>3 DEF Of
    <3>2. Cardinality(Of(S \cup {e}, a)) = Cardinality(Of(S, a)) + 1
      BY <2>1, <3>1, FS_AddElement
    <3>3. QED
      BY <2>1, <2>3, <3>2, StoreAssumption
  <2>4. QED
    BY <2>2, <2>3
<1>3. QED
  BY <1>1, <1>2, StoreAssumption DEF CapsOK

LEMMA HoldKeepsHeld ==
    ASSUME FlowOK, HeldOK, NEW e \in Event, Hold(e)
    PROVE  HeldOK'
<1> DEFINE a == AuthorOf[e]
<1>0. a \in Author /\ pending \in SUBSET Event
  BY EventAssumption DEF FlowOK
<1>1. /\ IsFiniteSet(pending) /\ pendingCount \in Nat
      /\ Cardinality(pending) \in Nat
      /\ Cardinality(pending) <= pendingCount
      /\ Cardinality(pending) <= MaxPending /\ MaxPending \in Nat
  BY FS_CardinalityType, StoreAssumption DEF HeldOK, CapsOK
<1>2. OrderOK(pending \cup {e}, OrderWith(a)) \/ e \in pending
  BY <1>0, OrderAdd, OrderAppend DEF OrderWith, HeldOK
<1>3. CASE UNCHANGED pendingVars
  BY <1>3 DEF HeldOK, pendingVars
<1>4. ASSUME ~Held(e), ~AuthorFull(a) PROVE e \notin pending /\ Cardinality(Of(pending, a)) < MaxPendingPerAuthor
  <2>1. e \notin pending
    BY <1>4 DEF Held, Of
  <2>2. Cardinality(Of(pending, a)) \in Nat
    BY <1>1, FS_Subset, FS_CardinalityType DEF Of
  <2>3. QED
    BY <1>4, <2>1, <2>2, StoreAssumption DEF AuthorFull
<1>5. CASE ~Held(e) /\ ~AuthorFull(a) /\ HoldRoom(e)
  <2>1. /\ pending' = pending \cup {e} /\ pendingOrder' = OrderWith(a)
        /\ pendingCount' = pendingCount + 1 /\ pendingCount < MaxPending
    BY <1>5 DEF HoldRoom
  <2>2. CapsOK(pending', pendingCount')
    BY <2>1, <1>0, <1>1, <1>4, <1>5, CapsAdd DEF HeldOK
  <2>3. QED
    BY <2>1, <2>2, <1>2, <1>4, <1>5 DEF HeldOK
<1>6. CASE ~Held(e) /\ ~AuthorFull(a) /\ HoldEvicting(e)
  <2> DEFINE order  == OrderWith(a)
             victim == Head(order)
             gone   == Of(pending, victim)
             left   == pending \ gone
             kept   == {f \in {e} : AuthorOf[f] # victim}
             next   == left \cup kept
             count  == pendingCount - Cardinality(gone) + 1
  <2>1. /\ pending' = next /\ pendingOrder' = Tail(order)
        /\ pendingCount' = count
    BY <1>6 DEF HoldEvicting
  <2>2. OrderOK(pending \cup {e}, order) /\ order # <<>>
    <3>1. e \notin pending
      BY <1>4, <1>6
    <3>2. OrderOK(pending \cup {e}, order)
      BY <3>1, <1>2
    <3>3. \E i \in 1..Len(order) : order[i] = a
      BY <3>2 DEF OrderOK
    <3>4. order # <<>>
      BY <3>3
    <3>5. QED
      BY <3>2, <3>4
  <2>3. (pending \cup {e}) \ Of(pending \cup {e}, victim) = next
    BY DEF Of
  <2>4. OrderOK(next, Tail(order))
    <3>1. pending \cup {e} \in SUBSET Event
      BY <1>0
    <3>2. OrderOK((pending \cup {e}) \ Of(pending \cup {e}, victim), Tail(order))
      BY <3>1, <2>2, OrderTail
    <3>3. QED
      BY <3>2, <2>3
  <2>5. /\ IsFiniteSet(gone) /\ Cardinality(gone) \in Nat
        /\ gone \subseteq pending /\ Cardinality(gone) <= Cardinality(pending)
        /\ Cardinality(left) = Cardinality(pending) - Cardinality(gone)
        /\ Cardinality(left) \in Nat
    <3>1. gone \subseteq pending /\ pending \cap gone = gone
      BY DEF Of
    <3>2. IsFiniteSet(gone) /\ Cardinality(gone) <= Cardinality(pending)
      BY <3>1, <1>1, FS_Subset
    <3>3. IsFiniteSet(left) /\ Cardinality(left) = Cardinality(pending) - Cardinality(gone)
      BY <3>1, <1>1, FS_Difference
    <3>4. QED
      BY <3>1, <3>2, <3>3, FS_CardinalityType
  <2> HIDE DEF order, victim, gone
  <2>6. count \in Nat
    BY <1>1, <2>5
  <2>7. CASE AuthorOf[e] = victim
    <3>1. next = left
      BY <2>7
    <3>2. CapsOK(left, count)
      BY <1>0, <1>1, <2>5, <2>6, CapsSubset DEF HeldOK
    <3>3. QED
      BY <2>1, <2>4, <3>1, <3>2 DEF HeldOK
  <2>8. CASE AuthorOf[e] # victim
    <3>1. gone # {}
      <4>1. OrderOK(pending \cup {e}, order) /\ 1 \in 1..Len(order) /\ victim = order[1]
        <5>1. order \in Seq(Author) /\ order # <<>>
          BY <2>2 DEF OrderOK
        <5>2. QED
          BY <5>1, <2>2, EmptySeq, LenProperties DEF victim
      <4>2. Of(pending \cup {e}, victim) # {}
        BY <4>1 DEF OrderOK
      <4>3. QED
        BY <4>2, <2>8 DEF Of, gone
    <3>2. Cardinality(gone) >= 1
      BY <3>1, <2>5, FS_EmptySet
    <3>3. Cardinality(left) < MaxPending /\ pendingCount - Cardinality(gone) \in Nat
      BY <3>2, <2>5, <1>1
    <3>4. CapsOK(left, pendingCount - Cardinality(gone))
      BY <1>0, <1>1, <2>5, <3>3, CapsSubset DEF HeldOK
    <3>5. Cardinality(Of(left, a)) < MaxPendingPerAuthor
      <4>1. Of(left, a) = Of(pending, a)
        BY <2>8 DEF Of, gone
      <4>2. QED
        BY <4>1, <1>4, <1>6
    <3>6. CapsOK(left \cup {e}, pendingCount - Cardinality(gone) + 1)
      <4>1. e \notin left /\ left \in SUBSET Event
        BY <1>0, <1>4, <1>6
      <4>2. QED
        BY <4>1, <3>3, <3>4, <3>5, CapsAdd
    <3>7. next = left \cup {e}
      BY <2>8
    <3>8. QED
      BY <2>1, <2>4, <3>6, <3>7 DEF HeldOK
  <2>9. QED
    BY <2>7, <2>8
<1>7. QED
  BY <1>3, <1>5, <1>6 DEF Hold

LEMMA ForgetKeepsHeld ==
    ASSUME FlowOK, HeldOK, NEW f \in pending, Forget(f)
    PROVE  HeldOK'
<1> DEFINE a == AuthorOf[f]
<1>1. /\ pending \in SUBSET Event /\ IsFiniteSet(pending)
      /\ pendingCount \in Nat /\ Cardinality(pending) \in Nat
      /\ Cardinality(pending) <= pendingCount
      /\ pending' = pending \ {f} /\ pendingCount' = pendingCount - 1
  BY FS_CardinalityType DEF FlowOK, HeldOK, CapsOK, Forget
<1>2. Cardinality(pending') = Cardinality(pending) - 1 /\ Cardinality(pending') \in Nat
  BY <1>1, FS_RemoveElement, FS_CardinalityType
<1>3. CapsOK(pending', pendingCount')
  <2>1. pendingCount' \in Nat /\ Cardinality(pending') <= pendingCount'
    BY <1>1, <1>2
  <2>2. QED
    BY <1>1, <2>1, CapsSubset DEF HeldOK
<1>4. OrderOK(pending', pendingOrder')
  <2>1. CASE Of(pending, a) # {f} /\ UNCHANGED pendingOrder
    <3>1. \A b \in Author : Of(pending, b) # {} => Of(pending \ {f}, b) # {}
      BY <2>1 DEF Of
    <3>2. \A i \in 1..Len(pendingOrder) : pendingOrder[i] \in Author
      BY ElementOfSeq DEF HeldOK, OrderOK
    <3>3. \A i \in 1..Len(pendingOrder) : Of(pending \ {f}, pendingOrder[i]) # {}
      BY <3>1, <3>2 DEF HeldOK, OrderOK
    <3>4. QED
      BY <1>1, <2>1, <3>3 DEF HeldOK, OrderOK
  <2>2. ASSUME Of(pending, a) = {f}, NEW i \in DOMAIN pendingOrder,
               pendingOrder[i] = a, pendingOrder' = WithoutKey(pendingOrder, i)
        PROVE  OrderOK(pending', pendingOrder')
    <3>1. i \in 1..Len(pendingOrder)
      BY <2>2, LenProperties DEF HeldOK, OrderOK
    <3>2. \A g \in pending : g \in pending \ {f} <=> AuthorOf[g] # pendingOrder[i]
      BY <2>2 DEF Of
    <3>3. QED
      BY <1>1, <2>2, <3>1, <3>2, OrderWithoutKey DEF HeldOK
  <2>3. QED
    BY <2>1, <2>2 DEF Forget
<1>5. QED
  BY <1>3, <1>4 DEF HeldOK

\* The buffer of a process that has just started.
LEMMA EmptyHeld == OrderOK({}, <<>>) /\ CapsOK({}, 0)
<1>1. IsFiniteSet({}) /\ Cardinality({}) = 0
  BY FS_EmptySet
<1>2. \A a : Of({}, a) = {}
  BY DEF Of
<1>3. \A a : Cardinality(Of({}, a)) = 0
  BY <1>1, <1>2, Zenon
<1>4. CapsOK({}, 0)
  BY <1>1, <1>3, StoreAssumption DEF CapsOK
<1>5. QED
  BY <1>4, EmptySeq DEF OrderOK

LEMMA HeldInit == Init => HeldOK
BY EmptyHeld DEF Init, HeldOK

LEMMA HeldNext == FlowOK /\ HeldOK /\ [Next]_vars => HeldOK'
<1> SUFFICES ASSUME FlowOK, HeldOK, [Next]_vars PROVE HeldOK'
  OBVIOUS
<1>1. CASE UNCHANGED pendingVars
  BY <1>1 DEF HeldOK, pendingVars
<1>2. ASSUME NEW p \in Put, PutEarly(p) PROVE HeldOK'
  BY <1>2, HoldKeepsHeld DEF PutEarly, Put
<1>3. CASE ResumeDone
  BY <1>1, <1>3, ForgetKeepsHeld DEF ResumeDone, Unblocked, Of
<1>4. CASE ResumeDrain
  BY <1>4, ForgetKeepsHeld DEF ResumeDrain, Unblocked, Of
<1>5. CASE Crash
  BY <1>5, EmptyHeld DEF Crash, Restart, HeldOK
<1>6. QED
  BY <1>1, <1>2, <1>3, <1>4, <1>5
     DEF Next, Work, PutTurn, Sign, Receive, Enqueue, PutDuplicate, PutInvalid,
         PutStale, PutUnlinked, PutAppend, Persist, Fail, Rejected, LoadApply, LoadDone,
         vars, pendingVars

(***************************************************************************)
(* Every variable stays in its range; in particular the pending counter is *)
(* never driven below zero by an eviction or a drain.                      *)
(***************************************************************************)
THEOREM StoreTypeOK == Spec => []TypeOK
<1>1. FlowOK /\ HeldOK => TypeOK
  BY DEF FlowOK, HeldOK, OrderOK, CapsOK, TypeOK, OrNone
<1>2. Spec => []HeldOK
  BY FlowInvariant, HeldInit, HeldNext, PTL DEF Spec
<1>3. QED
  BY <1>1, <1>2, FlowInvariant, PTL

(***************************************************************************)
(* The caps of #hold hold for every choice of caps, authors and arrival    *)
(* order, although the counter they are tested against drifts upwards.     *)
(***************************************************************************)
THEOREM StoreHeldWithinCaps == Spec => []HeldWithinCaps
<1>1. HeldOK => HeldWithinCaps
  BY DEF HeldOK, CapsOK, HeldWithinCaps
<1>2. Spec => []HeldOK
  BY FlowInvariant, HeldInit, HeldNext, PTL DEF Spec
<1>3. QED
  BY <1>1, <1>2, PTL

-----------------------------------------------------------------------------
(* The chains *)

\* e is what the author's log is waiting for.
Fits(e) ==
    /\ e \notin applied
    /\ SeqOf[e] = TipSeq(heads[AuthorOf[e]]) + 1
    /\ Links(e, heads[AuthorOf[e]])

LogOK == IsChain(applied) /\ HaveVectorHonest

(***************************************************************************)
(* Between the check in #put and the resumption after appendEvent the head *)
(* must not move, or the event checked against the old head would be       *)
(* applied on top of a new one.  The write queue is what guarantees it:    *)
(* the event in flight fits at every moment of its flight.                 *)
(***************************************************************************)
DiskOK ==
    /\ IsChain(disk)
    /\ applied \subseteq disk
    /\ mode = "up" => disk = applied \cup {e \in {ev} : phase = "written"}
    /\ phase # "idle" => mode = "up" /\ Fits(ev)
    /\ \A e \in applied, f \in disk :
           AuthorOf[f] = AuthorOf[e] /\ SeqOf[f] < SeqOf[e] => f \in applied

LEMMA FitsExtends ==
    ASSUME FlowOK, LogOK, NEW e \in Event, Fits(e)
    PROVE  /\ IsChain(applied \cup {e})
           /\ \A f \in Of(applied, AuthorOf[e]) : SeqOf[f] < SeqOf[e]
           /\ SeqOf[e] # 1 => /\ PrevOf[e] \in applied
                              /\ AuthorOf[PrevOf[e]] = AuthorOf[e]
                              /\ SeqOf[PrevOf[e]] + 1 = SeqOf[e]
<1> DEFINE a == AuthorOf[e]
           h == heads[a]
<1>1. /\ a \in Author /\ h \in Event \cup {None} /\ SeqOf[e] \in Nat
      /\ applied \subseteq Event
      /\ \A f \in Event : SeqOf[f] \in Nat \ {0}
  BY EventAssumption DEF FlowOK, OrNone
<1>2. \A f \in Of(applied, a) : SeqOf[f] < SeqOf[e]
  <2> SUFFICES ASSUME NEW f \in Of(applied, a) PROVE SeqOf[f] < SeqOf[e]
    OBVIOUS
  <2>1. SeqOf[f] <= TipSeq(h) /\ SeqOf[f] \in Nat
    BY <1>1 DEF LogOK, HaveVectorHonest, Of
  <2>2. TipSeq(h) \in Nat
    BY <1>1 DEF TipSeq
  <2>3. QED
    BY <2>1, <2>2 DEF Fits
<1>3. SeqOf[e] # 1 => /\ PrevOf[e] \in applied
                      /\ AuthorOf[PrevOf[e]] = a
                      /\ SeqOf[PrevOf[e]] + 1 = SeqOf[e]
  <2> SUFFICES ASSUME SeqOf[e] # 1
               PROVE  /\ PrevOf[e] \in applied
                      /\ AuthorOf[PrevOf[e]] = a
                      /\ SeqOf[PrevOf[e]] + 1 = SeqOf[e]
    OBVIOUS
  <2>1. h # None
    BY DEF Fits, TipSeq
  <2>2. PrevOf[e] = h /\ SeqOf[h] + 1 = SeqOf[e]
    BY <2>1 DEF Fits, TipSeq, Links
  <2>3. h \in applied /\ AuthorOf[h] = a
    BY <1>1, <2>1 DEF LogOK, HaveVectorHonest, Of
  <2>4. QED
    BY <2>2, <2>3
<1>4. OnePerSlot(applied \cup {e})
  <2>1. OnePerSlot(applied)
    BY DEF LogOK, IsChain
  <2>2. \A f \in applied : AuthorOf[f] = a => SeqOf[f] # SeqOf[e]
    BY <1>1, <1>2 DEF Of
  <2>3. QED
    BY <2>1, <2>2 DEF OnePerSlot
<1>5. Linked(applied \cup {e})
  <2>1. Linked(applied)
    BY DEF LogOK, IsChain
  <2>2. QED
    BY <2>1, <1>3 DEF Linked
<1>6. QED
  BY <1>2, <1>3, <1>4, <1>5 DEF IsChain

LEMMA ApplyKeepsLog ==
    ASSUME FlowOK, LogOK, NEW e \in Event, Fits(e), Apply(e)
    PROVE  LogOK'
<1> DEFINE a == AuthorOf[e]
<1>1. /\ a \in Author /\ applied \subseteq Event /\ e # None
      /\ \A f \in Event : SeqOf[f] \in Nat \ {0}
      /\ heads \in [Author -> Event \cup {None}]
  BY EventAssumption DEF FlowOK, OrNone
<1>2. /\ applied' = applied \cup {e}
      /\ heads' = [heads EXCEPT ![a] = e]
  BY DEF Apply
<1>3. IsChain(applied)'
  BY <1>2, FitsExtends DEF IsChain, OnePerSlot, Linked
<1>4. ASSUME NEW b \in Author
      PROVE  /\ heads'[b] # None => heads'[b] \in Of(applied', b)
             /\ \A f \in Of(applied', b) : SeqOf[f] <= TipSeq(heads'[b])
             /\ \A s \in 1..TipSeq(heads'[b]) : {f \in Of(applied', b) : SeqOf[f] = s} # {}
  <2>0. /\ heads[b] # None => heads[b] \in Of(applied, b)
        /\ \A f \in Of(applied, b) : SeqOf[f] <= TipSeq(heads[b])
        /\ \A s \in 1..TipSeq(heads[b]) : {f \in Of(applied, b) : SeqOf[f] = s} # {}
    BY DEF LogOK, HaveVectorHonest, Slot
  <2>1. CASE b # a
    <3>1. Of(applied', b) = Of(applied, b) /\ heads'[b] = heads[b]
      BY <1>1, <1>2, <2>1 DEF Of
    <3>2. QED
      BY <2>0, <3>1
  <2>2. CASE b = a
    <3>1. heads'[b] = e /\ e \in Of(applied', b) /\ TipSeq(heads'[b]) = SeqOf[e]
      BY <1>1, <1>2, <2>2 DEF Of, TipSeq
    <3>2. \A f \in Of(applied', b) : SeqOf[f] <= SeqOf[e]
      <4>1. \A f \in Of(applied, a) : SeqOf[f] < SeqOf[e]
        BY FitsExtends
      <4>2. SeqOf[e] \in Nat /\ \A f \in applied : SeqOf[f] \in Nat
        BY <1>1
      <4>3. QED
        BY <1>2, <2>2, <4>1, <4>2 DEF Of
    <3>3. ASSUME NEW s \in 1..SeqOf[e]
          PROVE  {f \in Of(applied', b) : SeqOf[f] = s} # {}
      <4>1. CASE s = SeqOf[e]
        BY <3>1, <4>1
      <4>2. CASE s # SeqOf[e]
        <5>1. s \in 1..TipSeq(heads[b])
          <6>1. TipSeq(heads[b]) \in Nat /\ SeqOf[e] = TipSeq(heads[b]) + 1
            BY <1>1, <2>2 DEF TipSeq, Fits
          <6>2. QED
            BY <6>1, <4>2
        <5>2. {f \in Of(applied, b) : SeqOf[f] = s} # {}
          BY <5>1, <2>0
        <5>3. Of(applied, b) \subseteq Of(applied', b)
          BY <1>2 DEF Of
        <5>4. QED
          BY <5>2, <5>3
      <4>3. QED
        BY <4>1, <4>2
    <3>4. QED
      BY <3>1, <3>2, <3>3
  <2>3. QED
    BY <2>1, <2>2
<1>5. HaveVectorHonest'
  BY <1>4 DEF HaveVectorHonest, Slot, Of
<1>6. QED
  BY <1>3, <1>5 DEF LogOK

\* What load applies next is what the log rebuilt so far is waiting for.
LEMMA LoadFits ==
    ASSUME FlowOK, LogOK, DiskOK, NEW e \in Event, NextToLoad(e)
    PROVE  Fits(e)
<1> DEFINE a == AuthorOf[e]
           h == heads[a]
           p == PrevOf[e]
<1>1. /\ a \in Author /\ applied \subseteq Event /\ disk \subseteq Event
      /\ h \in Event \cup {None} /\ None \notin Event
      /\ \A f \in Event : SeqOf[f] \in Nat \ {0}
      /\ e \in disk /\ e \notin applied
  BY EventAssumption DEF FlowOK, OrNone, NextToLoad
<1>2. ASSUME NEW f \in applied, AuthorOf[f] = a
      PROVE  SeqOf[f] < SeqOf[e]
  <2>1. SeqOf[f] # SeqOf[e]
    BY <1>1, <1>2 DEF DiskOK, IsChain, OnePerSlot
  <2>2. ~(SeqOf[e] < SeqOf[f])
    BY <1>1, <1>2 DEF DiskOK
  <2>3. QED
    BY <2>1, <2>2, <1>1
<1>3. h # None => h \in applied /\ AuthorOf[h] = a
  BY <1>1 DEF LogOK, HaveVectorHonest, Of
<1>4. CASE SeqOf[e] = 1
  <2>1. h = None
    BY <1>1, <1>2, <1>3, <1>4
  <2>2. QED
    BY <2>1, <1>1, <1>4 DEF Fits, TipSeq, Links
<1>5. CASE SeqOf[e] # 1
  <2>1. p \in disk /\ AuthorOf[p] = a /\ SeqOf[p] + 1 = SeqOf[e]
    BY <1>1, <1>5 DEF DiskOK, IsChain, Linked
  <2>2. p \in applied
    BY <2>1, <1>1 DEF NextToLoad
  <2>3. SeqOf[p] <= TipSeq(h)
    BY <2>1, <2>2, <1>1 DEF LogOK, HaveVectorHonest, Of
  <2>4. h # None /\ SeqOf[p] <= SeqOf[h]
    BY <2>1, <2>3, <1>1, <2>2 DEF TipSeq
  <2>5. SeqOf[h] < SeqOf[e]
    BY <1>2, <1>3, <2>4
  <2>6. SeqOf[h] = SeqOf[p] /\ SeqOf[e] = SeqOf[h] + 1
    BY <2>1, <2>2, <2>4, <2>5, <1>1, <1>3
  <2>7. h = p
    BY <2>1, <2>2, <2>4, <2>6, <1>3 DEF LogOK, IsChain, OnePerSlot
  <2>8. QED
    BY <2>4, <2>6, <2>7, <1>1 DEF Fits, TipSeq, Links
<1>6. QED
  BY <1>4, <1>5

ChainOK == LogOK /\ DiskOK

LEMMA ChainInit == Init => ChainOK
BY DEF Init, ChainOK, LogOK, DiskOK, IsChain, OnePerSlot, Linked,
       HaveVectorHonest, Of, TipSeq

\* Steps that leave memory, disk and the put in flight alone.
LEMMA ChainQuiet ==
    ASSUME ChainOK, UNCHANGED <<mode, applied, heads, disk, workVars>>
    PROVE  ChainOK'
BY DEF ChainOK, LogOK, DiskOK, IsChain, OnePerSlot, Linked, HaveVectorHonest,
       Of, TipSeq, Fits, Links, Slot, workVars

LEMMA ResumeKeepsChain ==
    ASSUME FlowOK, ChainOK, Resume
    PROVE  /\ LogOK'
           /\ disk' = applied' /\ IsChain(disk') /\ mode' = "up"
<1>1. phase = "written" /\ ev \in Event /\ Fits(ev) /\ Apply(ev)
  BY DEF Resume, AppendReturned, FlowOK, ChainOK, DiskOK
<1>2. LogOK'
  BY <1>1, ApplyKeepsLog DEF ChainOK
<1>3. disk' = applied' /\ mode' = "up"
  BY <1>1 DEF Resume, Apply, ChainOK, DiskOK
<1>4. QED
  BY <1>2, <1>3 DEF LogOK

LEMMA ChainNext == FlowOK /\ ChainOK /\ [Next]_vars => ChainOK'
<1> SUFFICES ASSUME FlowOK, ChainOK, [Next]_vars PROVE ChainOK'
  OBVIOUS
<1>1. CASE UNCHANGED <<mode, applied, heads, disk, workVars>>
  BY <1>1, ChainQuiet
<1>2. ASSUME NEW p \in Put, PutAppend(p) PROVE ChainOK'
  <2>1. /\ phase = "idle" /\ mode = "up" /\ phase' = "appending" /\ ev' = p.event
        /\ UNCHANGED <<mode, applied, heads, disk>>
    BY <1>2 DEF PutAppend, Turn, Appending, viewVars
  <2>2. Fits(p.event)
    BY <1>2 DEF PutAppend, Fits, Acceptable, Expected
  <2>3. LogOK'
    BY <2>1 DEF ChainOK, LogOK, IsChain, OnePerSlot, Linked, HaveVectorHonest,
                Of, TipSeq, Slot
  <2>4. DiskOK'
    BY <2>1, <2>2 DEF ChainOK, DiskOK, IsChain, OnePerSlot, Linked, Fits,
                      Links, TipSeq
  <2>5. QED
    BY <2>3, <2>4 DEF ChainOK
<1>3. CASE Persist
  <2>1. /\ phase = "appending" /\ mode = "up" /\ ev \in Event /\ Fits(ev)
        /\ disk = applied /\ disk' = applied \cup {ev} /\ phase' = "written"
        /\ UNCHANGED <<mode, applied, heads, ev>>
    BY <1>3 DEF Persist, viewVars, ChainOK, DiskOK, FlowOK
  <2>2. LogOK'
    BY <2>1 DEF ChainOK, LogOK, IsChain, OnePerSlot, Linked, HaveVectorHonest,
                Of, TipSeq, Slot
  <2>3. IsChain(disk)'
    BY <2>1, FitsExtends DEF ChainOK, IsChain, OnePerSlot, Linked
  <2>4. \A e \in applied : AuthorOf[ev] = AuthorOf[e] => ~(SeqOf[ev] < SeqOf[e])
    <3>1. \A e \in applied : AuthorOf[ev] = AuthorOf[e] => SeqOf[e] < SeqOf[ev]
      BY <2>1, FitsExtends DEF ChainOK, Of
    <3>2. \A e \in applied : SeqOf[e] \in Nat /\ SeqOf[ev] \in Nat
      BY <2>1, EventAssumption DEF FlowOK
    <3>3. QED
      BY <3>1, <3>2
  <2>5. DiskOK'
    BY <2>1, <2>3, <2>4 DEF ChainOK, DiskOK, Fits, Links, TipSeq
  <2>6. QED
    BY <2>2, <2>5 DEF ChainOK
<1>4. CASE Fail
  <2>1. /\ phase = "appending" /\ phase' = "idle"
        /\ UNCHANGED <<mode, applied, heads, disk>>
    BY <1>4 DEF Fail, Rejected, Idle, viewVars
  <2>2. LogOK'
    BY <2>1 DEF ChainOK, LogOK, IsChain, OnePerSlot, Linked, HaveVectorHonest,
                Of, TipSeq, Slot
  <2>3. DiskOK'
    BY <2>1 DEF ChainOK, DiskOK, IsChain, OnePerSlot, Linked
  <2>4. QED
    BY <2>2, <2>3 DEF ChainOK
<1>5. CASE ResumeDone
  <2>1. /\ LogOK' /\ disk' = applied' /\ IsChain(disk') /\ mode' = "up"
        /\ phase' = "idle"
    BY <1>5, ResumeKeepsChain DEF ResumeDone, Idle
  <2>2. DiskOK'
    BY <2>1 DEF DiskOK, IsChain, OnePerSlot, Linked
  <2>3. QED
    BY <2>1, <2>2 DEF ChainOK
<1>6. CASE ResumeDrain
  <2>1. Resume
    BY <1>6 DEF ResumeDrain
  <2>2. PICK f \in Unblocked : Links(f, ev) /\ Appending(f, put)
    BY <1>6 DEF ResumeDrain
  <2>3. /\ LogOK' /\ disk' = applied' /\ IsChain(disk') /\ mode' = "up"
        /\ phase' = "appending" /\ ev' = f
    BY <2>1, <2>2, ResumeKeepsChain DEF Appending
  <2>4. /\ f \in Event /\ AuthorOf[f] = AuthorOf[ev] /\ SeqOf[f] = SeqOf[ev] + 1
        /\ ev \in Event /\ AuthorOf[ev] \in Author
        /\ heads' = [heads EXCEPT ![AuthorOf[ev]] = ev]
        /\ heads \in [Author -> OrNone(Event)]
        /\ phase = "written" /\ Fits(ev) /\ applied' = applied \cup {ev}
    BY <2>1, <2>2, EventAssumption
       DEF Unblocked, Of, FlowOK, Resume, AppendReturned, Apply, ChainOK, DiskOK
  <2>5. heads'[AuthorOf[f]] = ev /\ ev # None
    BY <2>4, EventAssumption
  <2>6. f \notin applied'
    <3>1. \A g \in Of(applied, AuthorOf[ev]) : SeqOf[g] < SeqOf[ev]
      BY <2>4, FitsExtends DEF ChainOK
    <3>2. SeqOf[ev] \in Nat /\ SeqOf[f] = SeqOf[ev] + 1
      BY <2>4, EventAssumption
    <3>3. f \notin applied /\ f # ev
      BY <3>1, <3>2, <2>4 DEF Of
    <3>4. QED
      BY <3>3, <2>4
  <2>7. Fits(ev)'
    BY <2>2, <2>3, <2>4, <2>5, <2>6 DEF Fits, TipSeq, Links
  <2>8. DiskOK'
    BY <2>3, <2>7 DEF DiskOK, IsChain, OnePerSlot, Linked
  <2>9. QED
    BY <2>3, <2>8 DEF ChainOK
<1>7. ASSUME NEW e \in Event, LoadApply(e) PROVE ChainOK'
  <2>1. /\ mode = "loading" /\ phase = "idle" /\ NextToLoad(e) /\ Apply(e)
        /\ applied' = applied \cup {e}
        /\ UNCHANGED <<mode, disk, phase, ev>>
    BY <1>7 DEF LoadApply, Apply, workVars, ChainOK, DiskOK, FlowOK
  <2>2. Fits(e)
    BY <2>1, LoadFits DEF ChainOK
  <2>3. LogOK'
    BY <2>1, <2>2, ApplyKeepsLog DEF ChainOK
  <2>4. \A f \in disk : AuthorOf[f] = AuthorOf[e] /\ SeqOf[f] < SeqOf[e] => f \in applied
    <3>1. \A f \in disk : SeqOf[f] \in Nat /\ SeqOf[e] \in Nat
      BY EventAssumption DEF FlowOK
    <3>2. QED
      BY <3>1, <2>1 DEF NextToLoad
  <2>5. DiskOK'
    <3>1. IsChain(disk)'
      BY <2>1 DEF ChainOK, DiskOK, IsChain, OnePerSlot, Linked
    <3>2. e \in disk /\ applied \subseteq disk
      BY <2>1 DEF NextToLoad, ChainOK, DiskOK
    <3>3. \A g \in applied, f \in disk :
              AuthorOf[f] = AuthorOf[g] /\ SeqOf[f] < SeqOf[g] => f \in applied
      BY DEF ChainOK, DiskOK
    <3>4. \A g \in applied', f \in disk' :
              AuthorOf[f] = AuthorOf[g] /\ SeqOf[f] < SeqOf[g] => f \in applied'
      BY <2>1, <2>4, <3>3
    <3>5. QED
      BY <2>1, <3>1, <3>2, <3>4 DEF DiskOK
  <2>6. QED
    BY <2>3, <2>5 DEF ChainOK
<1>8. CASE LoadDone
  <2>1. /\ mode = "loading" /\ phase = "idle" /\ disk \subseteq applied
        /\ UNCHANGED <<applied, heads, disk, phase, ev>>
    BY <1>8 DEF LoadDone, viewVars, workVars, ChainOK, DiskOK, FlowOK
  <2>2. LogOK'
    BY <2>1 DEF ChainOK, LogOK, IsChain, OnePerSlot, Linked, HaveVectorHonest,
                Of, TipSeq, Slot
  <2>3. DiskOK'
    BY <2>1 DEF ChainOK, DiskOK, IsChain, OnePerSlot, Linked
  <2>4. QED
    BY <2>2, <2>3 DEF ChainOK
<1>9. CASE Crash
  <2>1. /\ applied' = {} /\ heads' = [a \in Author |-> None]
        /\ mode' = "loading" /\ phase' = "idle" /\ disk' = disk
    BY <1>9 DEF Crash, Restart, Idle
  <2>2. LogOK'
    BY <2>1 DEF LogOK, IsChain, OnePerSlot, Linked, HaveVectorHonest, Of, TipSeq
  <2>3. DiskOK'
    BY <2>1 DEF ChainOK, DiskOK, IsChain, OnePerSlot, Linked
  <2>4. QED
    BY <2>2, <2>3 DEF ChainOK
<1>10. QED
  BY <1>1, <1>2, <1>3, <1>4, <1>5, <1>6, <1>7, <1>8, <1>9
     DEF Next, Work, PutTurn, Sign, Receive, Enqueue, PutDuplicate, PutInvalid,
         PutEarly, PutStale, PutUnlinked, Turn, vars, viewVars, workVars

LEMMA ChainInvariant == Spec => []ChainOK
BY FlowInvariant, ChainInit, ChainNext, PTL DEF Spec

(***************************************************************************)
(* Every stored log is a gap-free hash chain without forks, in memory and  *)
(* on disk, under any interleaving of puts, drains, failed appends,        *)
(* crashes and reloads.                                                    *)
(***************************************************************************)
THEOREM StoreChainIntact == Spec => []ChainIntact
<1>1. ChainOK => ChainIntact
  BY DEF ChainOK, LogOK, DiskOK, ChainIntact
<1>2. QED
  BY <1>1, ChainInvariant, PTL

\* The have vector never claims a position that is not there.
THEOREM StoreHaveVectorHonest == Spec => []HaveVectorHonest
<1>1. ChainOK => HaveVectorHonest
  BY DEF ChainOK, LogOK
<1>2. QED
  BY <1>1, ChainInvariant, PTL

\* Memory is what is on disk, but for the one write whose put has not resumed.
THEOREM StoreMemoryMatchesDisk == Spec => []MemoryMatchesDisk
<1>1. ChainOK => MemoryMatchesDisk
  BY DEF ChainOK, DiskOK, MemoryMatchesDisk
<1>2. QED
  BY <1>1, ChainInvariant, PTL

-----------------------------------------------------------------------------
(* What users and peers have seen *)

(***************************************************************************)
(* An append that returns has its event on disk because a local put can    *)
(* only be told "ok" as a duplicate or after its own write: its position   *)
(* was the one after the head when it was signed, and the head has not     *)
(* gone back since, so it is never put aside as early.                     *)
(***************************************************************************)
SeenOK ==
    /\ acked \subseteq disk
    /\ published \subseteq disk
    /\ phase # "idle" => put.event \in disk \cup {ev}
    /\ \A i \in 1..Len(queue) : queue[i].local =>
           /\ AuthorOf[queue[i].event] = Me
           /\ SeqOf[queue[i].event] <= TipSeq(heads[Me]) + 1

LEMMA SeenInit == Init => SeenOK
BY DEF Init, SeenOK

\* Taking a put off the queue leaves puts that were on it.
LEMMA TurnKeepsQueue ==
    ASSUME FlowOK, SeenOK, NEW p, Turn(p), heads' = heads
    PROVE  /\ \A i \in 1..Len(queue') : queue'[i].local =>
                  /\ AuthorOf[queue'[i].event] = Me
                  /\ SeqOf[queue'[i].event] <= TipSeq(heads'[Me]) + 1
           /\ p.local => /\ AuthorOf[p.event] = Me
                         /\ SeqOf[p.event] <= TipSeq(heads[Me]) + 1
<1>1. /\ queue \in Seq(Put) /\ queue # <<>>
      /\ p = Head(queue) /\ queue' = Tail(queue)
  BY DEF FlowOK, Turn
<1>2. /\ Len(queue') = Len(queue) - 1
      /\ \A i \in 1..Len(queue') : queue'[i] = queue[i + 1]
      /\ Len(queue) \in Nat \ {0}
      /\ p = queue[1]
  BY <1>1, HeadTailProperties, EmptySeq, LenProperties
<1>3. \A i \in 1..Len(queue') : i + 1 \in 1..Len(queue)
  BY <1>2
<1>4. 1 \in 1..Len(queue)
  BY <1>2
<1>5. QED
  BY <1>2, <1>3, <1>4 DEF SeenOK

\* A put at the end of the queue.
LEMMA EnqueueKeepsQueue ==
    ASSUME FlowOK, SeenOK, NEW p \in Put, Enqueue(p),
           p.local => /\ AuthorOf[p.event] = Me
                      /\ SeqOf[p.event] <= TipSeq(heads[Me]) + 1
    PROVE  SeenOK'
<1>1. /\ queue \in Seq(Put) /\ queue' = Append(queue, p)
      /\ heads' = heads /\ acked' = acked /\ disk' = disk
      /\ published' = published /\ phase' = phase /\ ev' = ev /\ put' = put
  BY DEF FlowOK, Enqueue, viewVars, workVars, answerVars
<1>2. /\ Len(queue') = Len(queue) + 1 /\ Len(queue) \in Nat
      /\ \A i \in 1..Len(queue) : queue'[i] = queue[i]
      /\ queue'[Len(queue) + 1] = p
  BY <1>1, AppendProperties
<1>3. \A i \in 1..Len(queue') : i \in 1..Len(queue) \/ i = Len(queue) + 1
  BY <1>2
<1>4. \A i \in 1..Len(queue') : queue'[i].local =>
          /\ AuthorOf[queue'[i].event] = Me
          /\ SeqOf[queue'[i].event] <= TipSeq(heads'[Me]) + 1
  BY <1>1, <1>2, <1>3 DEF SeenOK
<1>5. QED
  BY <1>1, <1>4 DEF SeenOK

\* A head that moves to an event that fits it moves forward.
LEMMA ApplyMovesForward ==
    ASSUME FlowOK, NEW e \in Event, Fits(e), Apply(e)
    PROVE  TipSeq(heads[Me]) <= TipSeq(heads'[Me])
<1>1. /\ \A h \in Event \cup {None} : TipSeq(h) \in Nat
      /\ e # None /\ AuthorOf[e] \in Author /\ Me \in Author
      /\ heads \in [Author -> Event \cup {None}]
      /\ heads' = [heads EXCEPT ![AuthorOf[e]] = e]
      /\ SeqOf[e] \in Nat
  BY EventAssumption, StoreAssumption DEF FlowOK, OrNone, TipSeq, Apply
<1>2. CASE AuthorOf[e] = Me
  <2>1. TipSeq(heads'[Me]) = TipSeq(heads[Me]) + 1
    BY <1>1, <1>2 DEF Fits, TipSeq
  <2>2. QED
    BY <2>1, <1>1
<1>3. CASE AuthorOf[e] # Me
  <2>1. heads'[Me] = heads[Me]
    BY <1>1, <1>3
  <2>2. QED
    BY <2>1, <1>1
<1>4. QED
  BY <1>2, <1>3

LEMMA QueueSurvives ==
    ASSUME FlowOK, SeenOK, FlowOK', queue' = queue,
           TipSeq(heads[Me]) <= TipSeq(heads'[Me])
    PROVE  \A i \in 1..Len(queue') : queue'[i].local =>
               /\ AuthorOf[queue'[i].event] = Me
               /\ SeqOf[queue'[i].event] <= TipSeq(heads'[Me]) + 1
<1>1. \A i \in 1..Len(queue) : queue[i].event \in Event
  <2>1. \A i \in 1..Len(queue) : queue[i] \in Put
    BY ElementOfSeq DEF FlowOK
  <2>2. \A p \in Put : p.event \in Event
    BY DEF Put
  <2>3. QED
    BY <2>1, <2>2
<1>2. /\ \A e \in Event : SeqOf[e] \in Nat
      /\ TipSeq(heads[Me]) \in Nat /\ TipSeq(heads'[Me]) \in Nat
  BY EventAssumption, StoreAssumption DEF FlowOK, OrNone, TipSeq
<1>3. QED
  BY <1>1, <1>2 DEF SeenOK

LEMMA SeenNext == FlowOK /\ FlowOK' /\ ChainOK /\ ChainOK' /\ SeenOK /\ [Next]_vars => SeenOK'
<1> SUFFICES ASSUME FlowOK, FlowOK', ChainOK, ChainOK', SeenOK, [Next]_vars
             PROVE  SeenOK'
  OBVIOUS
<1> USE DEF viewVars, workVars, answerVars
<1>1. ASSUME NEW e \in Event, Sign(e) PROVE SeenOK'
  <2>1. /\ AuthorOf[e] = Me /\ SeqOf[e] <= TipSeq(heads[Me]) + 1
        /\ [event |-> e, local |-> TRUE] \in Put
    BY <1>1, EventAssumption DEF Sign, Put
  <2>2. QED
    BY <1>1, <2>1, EnqueueKeepsQueue DEF Sign
<1>2. ASSUME NEW e \in Event, Receive(e) PROVE SeenOK'
  <2>1. [event |-> e, local |-> FALSE] \in Put
    BY <1>2 DEF Put
  <2>2. QED
    BY <1>2, <2>1, EnqueueKeepsQueue DEF Receive
<1>3. ASSUME NEW p \in Put, PutTurn(p) PROVE SeenOK'
  <2> Turn(p) /\ phase = "idle" /\ UNCHANGED <<heads, disk, published>>
    BY <1>3 DEF PutTurn, PutDuplicate, PutInvalid, PutEarly,
                PutStale, PutUnlinked, PutAppend, Turn
  <2>1. \A i \in 1..Len(queue') : queue'[i].local =>
               /\ AuthorOf[queue'[i].event] = Me
               /\ SeqOf[queue'[i].event] <= TipSeq(heads'[Me]) + 1
    BY TurnKeepsQueue
  <2>2. p.local => /\ AuthorOf[p.event] = Me
                   /\ SeqOf[p.event] <= TipSeq(heads[Me]) + 1
    BY TurnKeepsQueue
  <2>3. p.event \in Event /\ SeqOf[p.event] \in Nat \ {0}
        /\ TipSeq(heads[Me]) \in Nat /\ Me \in Author
    BY EventAssumption, StoreAssumption DEF FlowOK, OrNone, TipSeq, Put
  <2>4. CASE PutAppend(p)
    BY <2>4, <2>1 DEF PutAppend, Appending, SeenOK
  <2>5. CASE PutDuplicate(p)
    <3>1. acked' \subseteq acked \cup applied /\ UNCHANGED workVars
      BY <2>5 DEF PutDuplicate, Answer
    <3>2. applied \subseteq disk
      BY DEF ChainOK, DiskOK
    <3>3. QED
      BY <3>1, <3>2, <2>1 DEF SeenOK
  <2>6. CASE PutInvalid(p) \/ PutUnlinked(p)
    <3>1. acked' = acked /\ UNCHANGED workVars
      BY <2>6 DEF PutInvalid, PutUnlinked, Answer
    <3>2. QED
      BY <3>1, <2>1 DEF SeenOK
  <2>7. CASE PutEarly(p)
    <3>1. ~p.local
      BY <2>7, <2>2, <2>3 DEF PutEarly, Expected
    <3>2. acked' = acked /\ UNCHANGED workVars
      BY <2>7, <3>1 DEF PutEarly, Answer
    <3>3. QED
      BY <3>2, <2>1 DEF SeenOK
  <2>8. CASE PutStale(p)
    <3>1. p.local => Slot(AuthorOf[p.event], SeqOf[p.event]) # {}
      <4>1. SeqOf[p.event] < TipSeq(heads[AuthorOf[p.event]]) + 1
        BY <2>8 DEF PutStale, Expected
      <4>2. AuthorOf[p.event] \in Author
        BY <2>3, EventAssumption
      <4>3. TipSeq(heads[AuthorOf[p.event]]) \in Nat
        BY <4>2, EventAssumption DEF FlowOK, OrNone, TipSeq
      <4>4. SeqOf[p.event] \in 1..TipSeq(heads[AuthorOf[p.event]])
        BY <4>1, <4>3, <2>3
      <4>5. QED
        BY <4>2, <4>4 DEF ChainOK, LogOK, HaveVectorHonest
    <3>2. acked' = acked /\ UNCHANGED workVars
      BY <2>8, <3>1 DEF PutStale, Answer
    <3>3. QED
      BY <3>2, <2>1 DEF SeenOK
  <2>9. QED
    BY <1>3, <2>4, <2>5, <2>6, <2>7, <2>8 DEF PutTurn
<1>4. CASE Persist
  BY <1>4 DEF Persist, SeenOK
<1>5. CASE Fail
  <2>1. acked' = acked
    BY <1>5 DEF Fail, Rejected, Answer
  <2>2. QED
    BY <1>5, <2>1 DEF Fail, Rejected, Idle, SeenOK
<1>6. CASE ResumeDone \/ ResumeDrain
  <2>1. /\ Resume /\ Apply(ev) /\ phase = "written" /\ ev \in Event /\ Fits(ev)
        /\ disk = applied \cup {ev} /\ disk' = disk /\ queue' = queue
    BY <1>6 DEF ResumeDone, ResumeDrain, Resume, AppendReturned, FlowOK, ChainOK, DiskOK
  <2>2. published' \subseteq disk'
    BY <2>1 DEF Apply, Of, SeenOK
  <2>3. put.event \in disk /\ acked' \subseteq disk'
    BY <1>6, <2>1 DEF SeenOK, ResumeDone, ResumeDrain, Answer
  <2>4. phase' # "idle" => put' = put
    BY <1>6 DEF ResumeDone, ResumeDrain, Idle, Appending
  <2>5. QED
    BY <2>1, <2>2, <2>3, <2>4, ApplyMovesForward, QueueSurvives DEF SeenOK
<1>7. ASSUME NEW e \in Event, LoadApply(e) PROVE SeenOK'
  <2>1. /\ Apply(e) /\ Fits(e) /\ e \in disk /\ disk' = disk /\ queue' = queue
        /\ acked' = acked /\ UNCHANGED workVars
    BY <1>7, LoadFits DEF LoadApply, ChainOK, NextToLoad
  <2>2. published' \subseteq disk'
    BY <2>1 DEF Apply, Of, SeenOK
  <2>3. QED
    BY <2>1, <2>2, ApplyMovesForward, QueueSurvives DEF SeenOK
<1>8. CASE LoadDone
  BY <1>8 DEF LoadDone, SeenOK
<1>9. CASE Crash
  <2>1. Len(queue') = 0
    BY <1>9 DEF Crash, Restart
  <2>2. QED
    BY <1>9, <2>1 DEF Crash, Restart, Idle, SeenOK
<1>10. CASE UNCHANGED vars
  BY <1>10 DEF vars, SeenOK
<1>11. QED
  BY <1>1, <1>2, <1>3, <1>4, <1>5, <1>6, <1>7, <1>8, <1>9, <1>10 DEF Next, Work

LEMMA SeenInvariant == Spec => []SeenOK
BY FlowInvariant, ChainInvariant, SeenInit, SeenNext, PTL DEF Spec

\* An append that returned to the user is on disk, through any crash.
THEOREM StoreAckedDurable == Spec => []AckedDurable
<1>1. SeenOK => AckedDurable
  BY DEF SeenOK, AckedDurable
<1>2. QED
  BY <1>1, SeenInvariant, PTL

(***************************************************************************)
(* Own events any peer has ever seen are all on one chain, over all        *)
(* restarts: the local user never forks in front of others.                *)
(***************************************************************************)
THEOREM StoreNoPublishedFork == Spec => []NoPublishedFork
<1>1. ChainOK /\ SeenOK => NoPublishedFork
  BY DEF ChainOK, DiskOK, SeenOK, IsChain, OnePerSlot, NoPublishedFork
<1>2. QED
  BY <1>1, ChainInvariant, SeenInvariant, PTL

-----------------------------------------------------------------------------
(* Refinement *)

LEMMA RefinementStep ==
    FlowOK /\ ChainOK /\ ChainOK' /\ [Next]_vars => [Log!Next]_(Log!vars)
<1> SUFFICES ASSUME FlowOK, ChainOK, ChainOK', [Next]_vars
             PROVE  [Log!Next]_(Log!vars)
  OBVIOUS
<1>1. CASE UNCHANGED <<disk, applied>>
  BY <1>1 DEF Log!vars
<1>2. CASE Persist
  <2>1. /\ ev \in Event /\ Fits(ev) /\ disk = applied /\ LogOK
        /\ disk' = disk \cup {ev} /\ applied' = applied
    BY <1>2 DEF Persist, viewVars, ChainOK, DiskOK, FlowOK
  <2>2. Log!Continues(ev, disk)
    BY <2>1, FitsExtends DEF Log!Continues, Log!Of, Of, ChainOK
  <2>3. QED
    BY <2>1, <2>2 DEF Log!Next, Log!Record
<1>3. ASSUME NEW e \in Event, e \in disk, Fits(e), Apply(e), UNCHANGED disk
      PROVE  Log!Next
  <2>1. Log!Continues(e, applied)
    BY <1>3, FitsExtends DEF Log!Continues, Log!Of, Of, ChainOK
  <2>2. QED
    BY <1>3, <2>1 DEF Log!Next, Log!Show, Apply
<1>4. CASE Resume
  <2>1. ev \in disk /\ ev \in Event /\ Fits(ev) /\ Apply(ev) /\ UNCHANGED disk
    BY <1>4 DEF Resume, AppendReturned, ChainOK, DiskOK, FlowOK
  <2>2. QED
    BY <2>1, <1>3
<1>5. ASSUME NEW e \in Event, LoadApply(e) PROVE Log!Next
  BY <1>3, <1>5, LoadFits DEF LoadApply, NextToLoad, ChainOK
<1>6. CASE Crash
  BY <1>6 DEF Crash, Restart, Log!Next, Log!Stop
<1>7. QED
  BY <1>1, <1>2, <1>4, <1>5, <1>6
     DEF Next, Work, PutTurn, Sign, Receive, Enqueue, PutDuplicate, PutInvalid,
         PutEarly, PutStale, PutUnlinked, PutAppend, Turn, Fail, Rejected, ResumeDone,
         ResumeDrain, LoadDone, vars, viewVars

(***************************************************************************)
(* The store, with its write queue, drains, failures and restarts, is an   *)
(* implementation of the append-only log of SignedLog.                     *)
(***************************************************************************)
THEOREM StoreImplementsSignedLog == Spec => ImplementsSignedLog
<1>1. Init => Log!Init
  BY DEF Init, Log!Init
<1>2. Spec => [][Log!Next]_(Log!vars)
  BY RefinementStep, FlowInvariant, ChainInvariant, PTL DEF Spec
<1>3. QED
  BY <1>1, <1>2, PTL DEF Spec, ImplementsSignedLog, Log!Spec

-----------------------------------------------------------------------------
(* Heads *)

Extending ==
    mode' = "loading" \/ \A a \in Author : heads'[a] # heads[a] =>
        /\ heads'[a] # None
        /\ heads[a] # None => PrevOf[heads'[a]] = heads[a]
        /\ SeqOf[heads'[a]] = TipSeq(heads[a]) + 1

LEMMA HeadStep == FlowOK /\ ChainOK /\ [Next]_vars => [Extending]_vars
<1> SUFFICES ASSUME FlowOK, ChainOK, [Next]_vars PROVE [Extending]_vars
  OBVIOUS
<1>1. CASE UNCHANGED heads
  BY <1>1 DEF Extending
<1>2. CASE Resume
  <2>1. /\ ev \in Event /\ Fits(ev) /\ AuthorOf[ev] \in Author /\ ev # None
        /\ heads' = [heads EXCEPT ![AuthorOf[ev]] = ev]
        /\ heads \in [Author -> OrNone(Event)]
    BY <1>2, EventAssumption
       DEF Resume, AppendReturned, ChainOK, DiskOK, FlowOK, Apply
  <2>2. QED
    BY <2>1 DEF Extending, Fits, Links
<1>3. ASSUME NEW e \in Event, LoadApply(e) PROVE mode' = "loading"
  BY <1>3 DEF LoadApply
<1>4. CASE Crash
  BY <1>4 DEF Crash, Restart, Extending
<1>5. QED
  BY <1>1, <1>2, <1>3, <1>4
     DEF Next, Work, PutTurn, Sign, Receive, Enqueue, PutDuplicate, PutInvalid,
         PutEarly, PutStale, PutUnlinked, PutAppend, Turn, Fail, Rejected, ResumeDone,
         ResumeDrain, LoadDone, Persist, vars, viewVars, Extending

\* A running replica's heads move one position at a time along prev.
THEOREM StoreHeadsOnlyExtend == Spec => HeadsOnlyExtend
BY HeadStep, FlowInvariant, ChainInvariant, PTL
   DEF Spec, HeadsOnlyExtend, Extending

-----------------------------------------------------------------------------
(* Held events *)

\* A head that advances by one, once the event now next is forgotten.
LEMMA AdvanceKeepsGap ==
    ASSUME FlowOK, PendingBeyondGap, NEW e \in Event, Fits(e), Apply(e),
           pending' \subseteq pending,
           \A f \in Of(pending', AuthorOf[e]) : SeqOf[f] # SeqOf[e] + 1
    PROVE  PendingBeyondGap'
<1> SUFFICES ASSUME NEW f \in pending'
             PROVE  SeqOf[f] > TipSeq(heads'[AuthorOf[f]]) + 1
  BY DEF PendingBeyondGap
<1>1. /\ f \in Event /\ f \in pending /\ SeqOf[f] \in Nat /\ SeqOf[e] \in Nat
      /\ AuthorOf[e] \in Author /\ AuthorOf[f] \in Author /\ e # None
      /\ heads \in [Author -> OrNone(Event)]
      /\ heads' = [heads EXCEPT ![AuthorOf[e]] = e]
      /\ SeqOf[f] > TipSeq(heads[AuthorOf[f]]) + 1
  BY EventAssumption DEF FlowOK, Apply, PendingBeyondGap
<1>2. CASE AuthorOf[f] = AuthorOf[e]
  <2>1. SeqOf[f] > SeqOf[e] /\ SeqOf[f] # SeqOf[e] + 1
    BY <1>1, <1>2 DEF Fits, Of
  <2>2. TipSeq(heads'[AuthorOf[f]]) = SeqOf[e]
    BY <1>1, <1>2 DEF TipSeq
  <2>3. QED
    BY <1>1, <2>1, <2>2
<1>3. CASE AuthorOf[f] # AuthorOf[e]
  BY <1>1, <1>3
<1>4. QED
  BY <1>2, <1>3

(***************************************************************************)
(* One held event per position: what a drain forgets was the only one      *)
(* there.  And nothing is held before load is over.                        *)
(***************************************************************************)
PendingShape ==
    /\ OnePerSlot(pending)
    /\ mode = "loading" => pending = {}

LEMMA GapInit == Init => PendingBeyondGap /\ PendingShape
BY DEF Init, PendingBeyondGap, PendingShape, OnePerSlot

LEMMA ShapeNext == FlowOK /\ ChainOK /\ PendingShape /\ [Next]_vars => PendingShape'
<1> SUFFICES ASSUME FlowOK, ChainOK, PendingShape, [Next]_vars
             PROVE  PendingShape'
  OBVIOUS
<1>1. CASE pending' \subseteq pending /\ (mode' = mode \/ mode' = "up" \/ pending' = {})
  BY <1>1 DEF PendingShape, OnePerSlot
<1>2. ASSUME NEW p \in Put, PutEarly(p), ~(pending' \subseteq pending)
      PROVE  PendingShape'
  <2>1. ~Held(p.event) /\ pending' \subseteq pending \cup {p.event}
    BY <1>2 DEF PutEarly, Hold, HoldRoom, HoldEvicting, pendingVars
  <2>2. mode' = "up"
    BY <1>2 DEF PutEarly, Turn
  <2>3. QED
    BY <2>1, <2>2 DEF Held, Of, PendingShape, OnePerSlot
<1>3. ASSUME NEW p \in Put, PutTurn(p) PROVE PendingShape'
  BY <1>1, <1>2, <1>3
     DEF PutTurn, PutDuplicate, PutInvalid, PutStale, PutUnlinked, PutAppend,
         PutEarly, Turn, pendingVars
<1>4. CASE Crash
  BY <1>1, <1>4 DEF Crash, Restart
<1>5. CASE ResumeDone \/ ResumeDrain
  BY <1>1, <1>5 DEF ResumeDone, ResumeDrain, Resume, Forget, pendingVars
<1>6. CASE UNCHANGED vars
  BY <1>1, <1>6 DEF vars, pendingVars
<1>7. ASSUME ~(\E p \in Put : PutTurn(p)), ~Crash, ~(ResumeDone \/ ResumeDrain),
             ~UNCHANGED vars
      PROVE  UNCHANGED pending /\ (mode' = mode \/ mode' = "up")
  BY <1>7 DEF Next, Work, Sign, Receive, Enqueue, Persist, Fail, Rejected, LoadApply,
              LoadDone, pendingVars
<1>8. QED
  BY <1>1, <1>3, <1>4, <1>5, <1>6, <1>7

LEMMA GapNext ==
    FlowOK /\ ChainOK /\ PendingShape /\ PendingBeyondGap /\ [Next]_vars
        => PendingBeyondGap'
<1> SUFFICES ASSUME FlowOK, ChainOK, PendingShape, PendingBeyondGap,
                    [Next]_vars
             PROVE  PendingBeyondGap'
  OBVIOUS
<1>1. CASE UNCHANGED <<heads, pending>>
  BY <1>1 DEF PendingBeyondGap
<1>2. ASSUME NEW p \in Put, PutEarly(p) PROVE PendingBeyondGap'
  <2>1. /\ heads' = heads /\ pending' \subseteq pending \cup {p.event}
        /\ SeqOf[p.event] > TipSeq(heads[AuthorOf[p.event]]) + 1
    BY <1>2 DEF PutEarly, Hold, HoldRoom, HoldEvicting, pendingVars, Turn,
                viewVars, Expected
  <2>2. QED
    BY <2>1 DEF PendingBeyondGap
<1>3. CASE ResumeDone \/ ResumeDrain
  <2>1. /\ ev \in Event /\ Fits(ev) /\ Apply(ev)
    BY <1>3 DEF ResumeDone, ResumeDrain, Resume, AppendReturned, ChainOK,
                DiskOK, FlowOK
  <2>2. \/ Unblocked = {} /\ pending' = pending
        \/ \E f \in Unblocked : pending' = pending \ {f}
    BY <1>3 DEF ResumeDone, ResumeDrain, Forget, pendingVars
  <2>3. \A f, g \in Unblocked : f = g
    BY DEF Unblocked, Of, PendingShape, OnePerSlot
  <2>4. /\ pending' \subseteq pending
        /\ \A f \in Of(pending', AuthorOf[ev]) : SeqOf[f] # SeqOf[ev] + 1
    BY <2>2, <2>3 DEF Unblocked, Of
  <2>5. QED
    BY <2>1, <2>4, AdvanceKeepsGap
<1>4. CASE Crash
  BY <1>4 DEF Crash, Restart, PendingBeyondGap
<1>5. ASSUME NEW e \in Event, LoadApply(e) PROVE PendingBeyondGap'
  BY <1>5 DEF LoadApply, pendingVars, PendingShape, PendingBeyondGap
<1>6. QED
  BY <1>1, <1>2, <1>3, <1>4, <1>5
     DEF Next, Work, PutTurn, Sign, Receive, Enqueue, PutDuplicate, PutInvalid,
         PutStale, PutUnlinked, PutAppend, Turn, Persist, Fail, Rejected, LoadDone,
         vars, viewVars, pendingVars

(***************************************************************************)
(* However puts, drains and failed appends interleave, an event is never   *)
(* left held when the event before it has been stored.                     *)
(***************************************************************************)
THEOREM StorePendingBeyondGap == Spec => []PendingBeyondGap
<1>1. Spec => []PendingShape
  BY GapInit, ShapeNext, FlowInvariant, ChainInvariant, PTL DEF Spec
<1>2. QED
  BY <1>1, GapInit, GapNext, FlowInvariant, ChainInvariant, PTL DEF Spec

-----------------------------------------------------------------------------
(* Tombstones *)

(***************************************************************************)
(* A tombstone waits exactly while its target is missing; with that, the   *)
(* set of deleted events follows from the set of stored ones.              *)
(***************************************************************************)
TombstonesWait ==
    tombstonePending =
        {p \in Event \X Author :
            p[1] \notin applied /\ \E d \in Of(applied, p[2]) : TargetOf[d] = p[1]}

LEMMA ApplyKeepsTombstones ==
    ASSUME FlowOK, TombstonesExact, TombstonesWait,
           NEW e \in Event, e \notin applied, Apply(e)
    PROVE  TombstonesExact' /\ TombstonesWait'
<1>1. /\ AuthorOf[e] \in Author /\ TargetOf[e] \in Event \cup {None}
      /\ TargetOf[e] # e /\ None \notin Event
      /\ applied \subseteq Event
      /\ \A f \in Event : AuthorOf[f] \in Author
  BY EventAssumption DEF FlowOK
<1>2. applied' = applied \cup {e}
  BY DEF Apply
<1>3. TombstonesExact'
  <2>1. ASSUME NEW t \in applied'
        PROVE  t \in deleted' <=> \E d \in Of(applied', AuthorOf[t]) : TargetOf[d] = t
    <3>1. CASE t = e
      <4>1. t \notin deleted
        BY <3>1 DEF TombstonesExact
      <4>2. t \in deleted' <=> <<e, AuthorOf[e]>> \in tombstonePending
        BY <3>1, <4>1 DEF Apply, Deleted
      <4>3. <<e, AuthorOf[e]>> \in tombstonePending
                <=> \E d \in Of(applied, AuthorOf[e]) : TargetOf[d] = e
        BY <1>1 DEF TombstonesWait
      <4>4. QED
        BY <3>1, <4>2, <4>3, <1>1, <1>2 DEF Of
    <3>2. CASE t # e
      <4>1. t \in deleted' <=> t \in deleted \/ (t = TargetOf[e] /\ AuthorOf[t] = AuthorOf[e])
        BY <3>2, <1>2 DEF Apply, Deleted
      <4>2. t \in deleted <=> \E d \in Of(applied, AuthorOf[t]) : TargetOf[d] = t
        BY <3>2, <1>2 DEF TombstonesExact
      <4>3. QED
        BY <4>1, <4>2, <1>2 DEF Of
    <3>3. QED
      BY <3>1, <3>2
  <2>2. deleted' \subseteq applied'
    BY <1>2 DEF Apply, Deleted, TombstonesExact
  <2>3. QED
    BY <2>1, <2>2 DEF TombstonesExact, Of
<1>4. TombstonesWait'
  <2>1. ASSUME NEW p \in Event \X Author
        PROVE  p \in tombstonePending' <=>
                   p[1] \notin applied' /\ \E d \in Of(applied', p[2]) : TargetOf[d] = p[1]
    <3>1. p = <<p[1], p[2]>> /\ p[1] \in Event /\ p[2] \in Author
      OBVIOUS
    <3>2. p \in tombstonePending <=>
              p[1] \notin applied /\ \E d \in Of(applied, p[2]) : TargetOf[d] = p[1]
      BY DEF TombstonesWait
    <3>3. p \in tombstonePending' <=>
              \/ p \in tombstonePending /\ p[1] # e
              \/ /\ p[1] = TargetOf[e] /\ p[2] = AuthorOf[e]
                 /\ p[1] \notin applied /\ p[1] # e
      BY <3>1, <1>1 DEF Apply, Tombstones
    <3>4. QED
      BY <3>2, <3>3, <1>2 DEF Of
  <2>2. tombstonePending' \subseteq Event \X Author
    BY ApplyTypes
  <2>3. QED
    BY <2>1, <2>2, Zenon DEF TombstonesWait, Of
<1>5. QED
  BY <1>3, <1>4

LEMMA TombstonesInit == Init => TombstonesExact /\ TombstonesWait
BY DEF Init, TombstonesExact, TombstonesWait, Of

LEMMA TombstonesNext ==
    FlowOK /\ ChainOK /\ TombstonesExact /\ TombstonesWait /\ [Next]_vars
        => TombstonesExact' /\ TombstonesWait'
<1> SUFFICES ASSUME FlowOK, ChainOK, TombstonesExact, TombstonesWait, [Next]_vars
             PROVE  TombstonesExact' /\ TombstonesWait'
  OBVIOUS
<1>1. CASE UNCHANGED <<applied, deleted, tombstonePending>>
  BY <1>1 DEF TombstonesExact, TombstonesWait, Of
<1>2. CASE Resume
  <2>1. ev \in Event /\ ev \notin applied /\ Apply(ev)
    BY <1>2 DEF Resume, AppendReturned, ChainOK, DiskOK, FlowOK, Fits
  <2>2. QED
    BY <2>1, ApplyKeepsTombstones
<1>3. ASSUME NEW e \in Event, LoadApply(e)
      PROVE  TombstonesExact' /\ TombstonesWait'
  BY <1>3, ApplyKeepsTombstones DEF LoadApply, NextToLoad
<1>4. CASE Crash
  BY <1>4 DEF Crash, Restart, TombstonesExact, TombstonesWait, Of
<1>5. QED
  BY <1>1, <1>2, <1>3, <1>4
     DEF Next, Work, PutTurn, Sign, Receive, Enqueue, PutDuplicate, PutInvalid,
         PutEarly, PutStale, PutUnlinked, PutAppend, Turn, Fail, Rejected, ResumeDone,
         ResumeDrain, LoadDone, Persist, vars, viewVars

(***************************************************************************)
(* The tombstoned events are a function of the stored events: arrival      *)
(* order, restarts and other people's tombstones make no difference.       *)
(***************************************************************************)
THEOREM StoreTombstonesExact == Spec => []TombstonesExact
BY TombstonesInit, TombstonesNext, FlowInvariant, ChainInvariant, PTL DEF Spec

-----------------------------------------------------------------------------
(* Announcements *)

\* With a disk that never fails, only the event in flight is yet to be heard.
HeardOK ==
    /\ failures = 0
    /\ phase = "idle" => applied \subseteq heard
    /\ phase # "idle" => applied \subseteq heard \cup {put.event}
    /\ phase # "idle" => put.event \in applied \cup {ev}

LEMMA HeardNext ==
    ASSUME MaxFailures = 0
    PROVE  FlowOK /\ HeardOK /\ [Next]_vars => HeardOK'
<1> SUFFICES ASSUME FlowOK, HeardOK, [Next]_vars PROVE HeardOK'
  OBVIOUS
<1>1. CASE UNCHANGED <<applied, heard, failures, phase, ev, put>>
  BY <1>1 DEF HeardOK
<1>2. ASSUME NEW p \in Put, PutAppend(p) PROVE HeardOK'
  BY <1>2 DEF PutAppend, Turn, Appending, viewVars, HeardOK
<1>3. CASE Persist
  BY <1>3 DEF Persist, viewVars, HeardOK
<1>4. CASE Fail
  BY <1>4 DEF Fail, Rejected, HeardOK
<1>5. CASE ResumeDone
  BY <1>5 DEF ResumeDone, Resume, AppendReturned, Apply, Idle, HeardOK
<1>6. CASE ResumeDrain
  BY <1>6 DEF ResumeDrain, Resume, AppendReturned, Apply, Appending, Drained, HeardOK
<1>7. ASSUME NEW e \in Event, LoadApply(e) PROVE HeardOK'
  BY <1>7 DEF LoadApply, Apply, workVars, HeardOK
<1>8. CASE Crash
  BY <1>8 DEF Crash, Restart, Idle, HeardOK
<1>9. QED
  BY <1>1, <1>2, <1>3, <1>4, <1>5, <1>6, <1>7, <1>8
     DEF Next, Work, PutTurn, Sign, Receive, Enqueue, PutDuplicate, PutInvalid,
         PutEarly, PutStale, PutUnlinked, Turn, LoadDone, vars, viewVars, workVars

(***************************************************************************)
(* While the disk works, no stored event escapes those who watch for new   *)
(* events, drained or not.  (With failures it can: see the README.)        *)
(***************************************************************************)
THEOREM StoreEveryStoredEventHeard ==
    ASSUME MaxFailures = 0
    PROVE  Spec => []EveryStoredEventHeard
<1>1. Init => HeardOK
  BY DEF Init, HeardOK
<1>2. HeardOK => EveryStoredEventHeard
  BY DEF HeardOK, EveryStoredEventHeard
<1>3. QED
  BY <1>1, <1>2, HeardNext, FlowInvariant, PTL DEF Spec
=============================================================================
