---------------------------- MODULE ViewsProofs ----------------------------
(***************************************************************************)
(* Theorems about Views, for any events of any authors, in any order that  *)
(* keeps each author's, and any lists of the device.                       *)
(***************************************************************************)
EXTENDS Views, FiniteSetTheorems, TLAPS

-----------------------------------------------------------------------------
(* The inductive invariant *)

\* As many events of an author are applied as the latest of them counts.
Numbered ==
    \A e \in events : SeqOf[e] <= Cardinality({f \in events : AuthorOf[f] = AuthorOf[e]})

\* What waits for the event it names.
Waiting ==
    tombstonePending = {<<Target(d), AuthorOf[d]>> : d \in
                           {f \in events : Kind(f) = "delete" /\ Target(f) \notin events}}

InTime(q) == \A i, j \in DOMAIN q : i <= j => Ts(q[i]) <= Ts(q[j])

\* Every change of the lists is pushed, but for a list that is being asked for.
Pushed ==
    /\ hidden \subseteq filter
    /\ refreshing = 0 => filter = EffectiveFilter
    /\ Storing => wished \subseteq hidden

ViewsInv ==
    TypeOK /\ Numbered /\ Waiting /\ InTime(posts) /\ IndexesFollowTheLogs /\ Pushed

-----------------------------------------------------------------------------
(* Sequences *)

LEMMA AppendIs ==
    ASSUME NEW S, NEW q \in Seq(S), NEW e
    PROVE  /\ Append(q, e) \in Seq(S \cup {e})
           /\ Range(Append(q, e)) = Range(q) \cup {e}
<1> DEFINE w == Append(q, e)
<1>1. q \in Seq(S \cup {e})
  OBVIOUS
<1>2. /\ w \in Seq(S \cup {e}) /\ Len(w) = Len(q) + 1 /\ w[Len(q) + 1] = e
      /\ \A i \in 1..Len(q) : w[i] = q[i]
  BY <1>1
<1> HIDE DEF w
<1>3. DOMAIN w = 1..(Len(q) + 1) /\ DOMAIN q = 1..Len(q)
  BY <1>2
<1>4. /\ \A i \in 1..(Len(q) + 1) : i \in 1..Len(q) \/ i = Len(q) + 1
      /\ 1..Len(q) \subseteq 1..(Len(q) + 1) /\ Len(q) + 1 \in 1..(Len(q) + 1)
  OBVIOUS
<1>5. Range(w) = Range(q) \cup {e}
  BY <1>2, <1>3, <1>4 DEF Range
<1>6. QED
  BY <1>2, <1>5 DEF w

\* w is q with e at place k.
Inserted(w, q, k, e) ==
    /\ DOMAIN w = 1..(Len(q) + 1)
    /\ \A i \in 1..(Len(q) + 1) :
          /\ i < k => w[i] = q[i]
          /\ i = k => w[i] = e
          /\ k < i => w[i] = q[i - 1]

LEMMA InsertIs ==
    ASSUME NEW S, NEW q \in Seq(S), NEW k \in 1..(Len(q) + 1), NEW e
    PROVE  /\ SX!InsertAt(q, k, e) \in Seq(S \cup {e})
           /\ Len(SX!InsertAt(q, k, e)) = Len(q) + 1
           /\ Inserted(SX!InsertAt(q, k, e), q, k, e)
<1> DEFINE l == SubSeq(q, 1, k - 1)
           r == SubSeq(q, k, Len(q))
           w == l \o <<e>> \o r
           m == l \o <<e>>
<1>0. k \in Nat /\ k >= 1 /\ k <= Len(q) + 1 /\ Len(q) \in Nat /\ q \in Seq(S \cup {e})
  OBVIOUS
<1>1. l \in Seq(S \cup {e}) /\ Len(l) = k - 1 /\ \A i \in 1..(k - 1) : l[i] = q[i]
  BY <1>0
<1>2. /\ r \in Seq(S \cup {e}) /\ Len(r) = Len(q) - k + 1
      /\ \A i \in 1..(Len(q) - k + 1) : r[i] = q[k + i - 1]
  BY <1>0
<1> HIDE DEF l, r
<1>3. m \in Seq(S \cup {e}) /\ Len(m) = k /\ m[k] = e /\ \A i \in 1..(k - 1) : m[i] = q[i]
  BY <1>0, <1>1
<1> HIDE DEF m
<1>4. w = m \o r
  BY DEF m
<1> HIDE DEF w
<1>5. w \in Seq(S \cup {e}) /\ Len(w) = Len(q) + 1
  <2> DEFINE T == S \cup {e}
  <2>1. m \in Seq(T) /\ r \in Seq(T)
    BY <1>2, <1>3
  <2> HIDE DEF T
  <2>2. m \o r \in Seq(T) /\ Len(m \o r) = Len(m) + Len(r)
    BY <2>1
  <2>3. w \in Seq(T) /\ Len(w) = Len(q) + 1
    BY <1>0, <1>2, <1>3, <1>4, <2>2
  <2> USE DEF T
  <2>4. QED
    BY <2>3
<1>6. ASSUME NEW i \in 1..(Len(q) + 1)
      PROVE  (i < k => w[i] = q[i]) /\ (i = k => w[i] = e) /\ (k < i => w[i] = q[i - 1])
  <2>1. CASE i <= k
    <3>1. w[i] = m[i]
      BY <1>0, <1>2, <1>3, <1>4, <2>1
    <3>2. i < k => i \in 1..(k - 1)
      BY <1>0
    <3>3. QED
      BY <1>0, <1>3, <2>1, <3>1, <3>2
  <2>2. CASE k < i
    <3>1. i - k \in 1..(Len(q) - k + 1) /\ k + (i - k) - 1 = i - 1
      BY <1>0, <2>2
    <3>2. w[i] = r[i - k]
      BY <1>0, <1>2, <1>3, <1>4, <2>2
    <3>3. r[i - k] = q[i - 1]
      BY <1>2, <3>1
    <3>4. QED
      BY <1>0, <2>2, <3>2, <3>3
  <2>3. i <= k \/ k < i
    BY <1>0
  <2>4. QED
    BY <2>1, <2>2, <2>3
<1>7. Inserted(w, q, k, e)
  BY <1>5, <1>6 DEF Inserted
<1>8. SX!InsertAt(q, k, e) = w
  BY DEF SX!InsertAt, w, l, r
<1>9. QED
  BY <1>5, <1>7, <1>8

LEMMA InsertRange ==
    ASSUME NEW S, NEW q \in Seq(S), NEW k \in 1..(Len(q) + 1), NEW e,
           NEW w, Inserted(w, q, k, e)
    PROVE  Range(w) = Range(q) \cup {e}
<1>0. k \in Nat /\ k >= 1 /\ k <= Len(q) + 1 /\ Len(q) \in Nat /\ DOMAIN q = 1..Len(q)
  OBVIOUS
<1>1. /\ DOMAIN w = 1..(Len(q) + 1)
      /\ \A i \in 1..(Len(q) + 1) :
            (i < k => w[i] = q[i]) /\ (i = k => w[i] = e) /\ (k < i => w[i] = q[i - 1])
  BY DEF Inserted
<1>2. \A i \in DOMAIN w : w[i] \in Range(q) \cup {e}
  <2> SUFFICES ASSUME NEW i \in 1..(Len(q) + 1) PROVE w[i] \in Range(q) \cup {e}
    BY <1>1
  <2>1. i < k => i \in 1..Len(q)
    BY <1>0
  <2>2. ~(i < k) /\ i # k => i - 1 \in 1..Len(q)
    BY <1>0
  <2>3. QED
    BY <1>0, <1>1, <2>1, <2>2 DEF Range
<1>3. \A i \in DOMAIN q : \E j \in DOMAIN w : w[j] = q[i]
  <2> SUFFICES ASSUME NEW i \in 1..Len(q) PROVE \E j \in 1..(Len(q) + 1) : w[j] = q[i]
    BY <1>0, <1>1
  <2>1. CASE i < k
    <3>1. i \in 1..(Len(q) + 1)
      BY <1>0
    <3>2. QED
      BY <1>1, <2>1, <3>1
  <2>2. CASE ~(i < k)
    <3>1. i + 1 \in 1..(Len(q) + 1) /\ ~(i + 1 < k) /\ i + 1 # k /\ (i + 1) - 1 = i
      BY <1>0, <2>2
    <3>2. w[i + 1] = q[i]
      BY <1>1, <3>1
    <3>3. QED
      BY <3>1, <3>2
  <2>3. QED
    BY <2>1, <2>2
<1>4. \E j \in DOMAIN w : w[j] = e
  <2>1. k \in 1..(Len(q) + 1) /\ ~(k < k)
    BY <1>0
  <2>2. w[k] = e
    BY <1>1, <2>1
  <2>3. QED
    BY <1>1, <2>1, <2>2
<1>5. QED
  BY <1>2, <1>3, <1>4 DEF Range

\* A set of places with every place before one of its own is a prefix.
LEMMA PrefixIs ==
    ASSUME NEW n \in Nat, NEW P \in SUBSET (1..n),
           \A i \in P : \A j \in 1..n : j <= i => j \in P
    PROVE  /\ Cardinality(P) \in 0..n
           /\ \A i \in 1..n : i \in P <=> i <= Cardinality(P)
<1>1. IsFiniteSet(1..n) /\ Cardinality(1..n) = n
  BY FS_Interval
<1>2. IsFiniteSet(P) /\ Cardinality(P) \in Nat /\ Cardinality(P) <= n
  BY <1>1, FS_Subset, FS_CardinalityType
<1>3. ASSUME NEW i \in P
      PROVE  i <= Cardinality(P)
  <2>1. 1..i \subseteq P /\ i \in Nat
    OBVIOUS
  <2>2. IsFiniteSet(1..i) /\ Cardinality(1..i) = i
    BY <2>1, FS_Interval
  <2>3. Cardinality(1..i) <= Cardinality(P)
    BY <1>2, <2>1, FS_Subset
  <2>4. QED
    BY <2>2, <2>3
<1>4. ASSUME NEW i \in 1..n, i \notin P
      PROVE  Cardinality(P) < i
  <2>1. i - 1 \in Nat /\ P \subseteq 1..(i - 1)
    <3>1. i \in Nat /\ i >= 1
      OBVIOUS
    <3>2. ASSUME NEW j \in P
          PROVE  j \in 1..(i - 1)
      <4>1. j \in Nat /\ j >= 1 /\ ~(i <= j)
        BY <1>4
      <4>2. QED
        BY <3>1, <4>1
    <3>3. QED
      BY <3>1, <3>2
  <2>2. IsFiniteSet(1..(i - 1)) /\ Cardinality(1..(i - 1)) = i - 1
    <3> DEFINE m == i - 1
    <3>1. m \in Nat
      BY <2>1
    <3> HIDE DEF m
    <3>2. IsFiniteSet(1..m) /\ Cardinality(1..m) = m
      <4>1. 1 \in Int /\ m \in Int
        BY <3>1
      <4>2. IsFiniteSet(1..m) /\ Cardinality(1..m) = IF 1 > m THEN 0 ELSE m - 1 + 1
        BY <4>1, FS_Interval
      <4>3. QED
        BY <3>1, <4>2
    <3> USE DEF m
    <3>3. QED
      BY <3>2
  <2>3. Cardinality(P) <= Cardinality(1..(i - 1))
    BY <2>1, <2>2, FS_Subset
  <2>4. QED
    BY <1>2, <2>2, <2>3
<1>5. QED
  BY <1>2, <1>3, <1>4

\* The places whose events are not newer than e.
NotNewer(q, e) == {i \in DOMAIN q : Ts(q[i]) <= Ts(e)}

\* In a list by time they are its first ones.
LEMMA NotNewerIs ==
    ASSUME NEW q \in Seq(Event), NEW e \in Event, InTime(q)
    PROVE  /\ Cardinality(NotNewer(q, e)) \in 0..Len(q)
           /\ \A i \in 1..Len(q) : Ts(q[i]) <= Ts(e) <=> i <= Cardinality(NotNewer(q, e))
<1> DEFINE P == NotNewer(q, e)
<1>1. DOMAIN q = 1..Len(q) /\ Len(q) \in Nat /\ \A i \in 1..Len(q) : q[i] \in Event
  OBVIOUS
<1>2. \A f \in Event : Ts(f) \in Nat
  BY ViewsAssumption DEF Ts
<1>3. P \in SUBSET (1..Len(q)) /\ \A i \in 1..Len(q) : i \in P <=> Ts(q[i]) <= Ts(e)
  BY <1>1 DEF NotNewer
<1>4. \A i \in P : \A j \in 1..Len(q) : j <= i => j \in P
  <2> SUFFICES ASSUME NEW i \in P, NEW j \in 1..Len(q), j <= i
               PROVE  Ts(q[j]) <= Ts(e)
    BY <1>3
  <2>1. Ts(q[j]) <= Ts(q[i]) /\ Ts(q[i]) <= Ts(e)
    BY <1>1, <1>3 DEF InTime
  <2>2. q[i] \in Event /\ q[j] \in Event
    BY <1>1, <1>3
  <2>3. QED
    BY <1>2, <2>1, <2>2
<1> HIDE DEF P
<1>5. Cardinality(P) \in 0..Len(q) /\ \A i \in 1..Len(q) : i \in P <=> i <= Cardinality(P)
  BY <1>1, <1>3, <1>4, PrefixIs
<1>6. QED
  BY <1>3, <1>5 DEF P

\* An event inserted behind those that are not newer leaves the list by time.
LEMMA InsertInTime ==
    ASSUME NEW q \in Seq(Event), NEW e \in Event, InTime(q), NEW w,
           Inserted(w, q, Cardinality(NotNewer(q, e)) + 1, e)
    PROVE  InTime(w)
<1> DEFINE n == Cardinality(NotNewer(q, e))
           k == n + 1
<1>1. DOMAIN q = 1..Len(q) /\ Len(q) \in Nat /\ \A i \in 1..Len(q) : q[i] \in Event
  OBVIOUS
<1>2. \A f \in Event : Ts(f) \in Nat
  BY ViewsAssumption DEF Ts
<1>3. n \in 0..Len(q) /\ \A i \in 1..Len(q) : Ts(q[i]) <= Ts(e) <=> i <= n
  BY NotNewerIs
<1>4. Inserted(w, q, k, e)
  OBVIOUS
<1> HIDE DEF n
<1>5. k \in Nat /\ k >= 1 /\ k <= Len(q) + 1
  BY <1>1, <1>3
<1>6. \A i \in 1..Len(q) : Ts(q[i]) <= Ts(e) <=> i < k
  BY <1>3
<1> HIDE DEF k
<1>7. /\ DOMAIN w = 1..(Len(q) + 1)
       /\ \A i \in 1..(Len(q) + 1) :
             (i < k => w[i] = q[i]) /\ (i = k => w[i] = e) /\ (k < i => w[i] = q[i - 1])
  BY <1>4 DEF Inserted
<1>8. ASSUME NEW i \in 1..(Len(q) + 1), NEW j \in 1..(Len(q) + 1), i <= j
       PROVE  Ts(w[i]) <= Ts(w[j])
  <2>1. i \in Nat /\ j \in Nat /\ i >= 1 /\ j >= 1
    OBVIOUS
  <2>2. \A a, b \in 1..Len(q) : a <= b => Ts(q[a]) <= Ts(q[b])
    BY <1>1 DEF InTime
  <2>3. CASE j < k
    <3>1. i < k /\ i \in 1..Len(q) /\ j \in 1..Len(q)
      BY <1>5, <1>8, <2>1, <2>3
    <3>2. w[i] = q[i] /\ w[j] = q[j]
      BY <1>7, <2>3, <3>1
    <3>3. QED
      BY <1>8, <2>2, <3>1, <3>2
  <2>4. CASE i = k /\ j = k
    <3>1. w[i] = w[j] /\ w[i] = e
      BY <1>7, <2>4
    <3>2. QED
      BY <1>2, <3>1
  <2>5. CASE i < k /\ j = k
    <3>1. i \in 1..Len(q)
      BY <1>5, <2>1, <2>5
    <3>2. w[i] = q[i] /\ w[j] = e
      BY <1>7, <2>5
    <3>3. QED
      BY <1>6, <2>5, <3>1, <3>2
  <2>6. CASE k < j
    <3>1. j - 1 \in 1..Len(q) /\ ~(j - 1 < k)
      BY <1>1, <1>5, <2>1, <2>6
    <3>2. w[j] = q[j - 1]
      BY <1>7, <2>6
    <3>3. CASE i < k
      <4>1. i \in 1..Len(q) /\ i <= j - 1
        BY <1>5, <2>1, <2>6, <3>3
      <4>2. w[i] = q[i]
        BY <1>7, <3>3
      <4>3. QED
        BY <2>2, <3>1, <3>2, <4>1, <4>2
    <3>4. CASE i = k
      <4>1. w[i] = e
        BY <1>7, <3>4
      <4>2. ~(Ts(q[j - 1]) <= Ts(e)) /\ q[j - 1] \in Event
        BY <1>1, <1>6, <3>1
      <4>3. QED
        BY <1>2, <3>2, <4>1, <4>2
    <3>5. CASE k < i
      <4>1. i - 1 \in 1..Len(q) /\ i - 1 <= j - 1
        BY <1>1, <1>5, <1>8, <2>1, <3>5
      <4>2. w[i] = q[i - 1]
        BY <1>7, <3>5
      <4>3. QED
        BY <2>2, <3>1, <3>2, <4>1, <4>2
    <3>6. QED
      BY <1>5, <2>1, <3>3, <3>4, <3>5
  <2>7. QED
    BY <1>5, <1>8, <2>1, <2>3, <2>4, <2>5, <2>6
<1>9. QED
  BY <1>7, <1>8 DEF InTime

-----------------------------------------------------------------------------
(* The last word of an author, as a function of the set of events *)

LastIn(E, a, S) ==
    {e \in S \cap E : AuthorOf[e] = a /\
        \A f \in S \cap E : AuthorOf[f] = a => SeqOf[f] <= SeqOf[e]}

StandingIn(E, yes, no) ==
    {<<AuthorOf[e], Target(e)>> : e \in
        {f \in E : Kind(f) = yes /\ f \in LastIn(E, AuthorOf[f], About({yes, no}, Target(f)))}}

LikesIn(E) ==
    {<<Target(e), AuthorOf[e], Body[e].value>> : e \in
        {f \in E : Kind(f) = "like" /\
                      f \in LastIn(E, AuthorOf[f], About({"like"}, Target(f)))}}

Profiles == {e \in Event : Kind(e) = "profile"}

ProfilesIn(E) == UNION {LastIn(E, a, Profiles) : a \in Author}

\* e continues its author's log in E.
IsNext(E, e) ==
    /\ E \subseteq Event /\ e \in Event \ E
    /\ \A f \in E : AuthorOf[f] = AuthorOf[e] => SeqOf[f] < SeqOf[e]

LEMMA LastInStep ==
    ASSUME NEW E, NEW e, IsNext(E, e), NEW a, NEW S,
           NEW F, F = E \cup {e}
    PROVE  /\ e \in S /\ AuthorOf[e] = a => LastIn(F, a, S) = {e}
           /\ ~(e \in S /\ AuthorOf[e] = a) => LastIn(F, a, S) = LastIn(E, a, S)
<1>1. /\ \A f \in E : AuthorOf[f] = AuthorOf[e] => SeqOf[f] < SeqOf[e]
      /\ e \notin E /\ \A f \in E \cup {e} : SeqOf[f] \in Nat
  BY ViewsAssumption DEF IsNext
<1>2. ASSUME e \in S, AuthorOf[e] = a
      PROVE  LastIn(F, a, S) = {e}
  <2>1. e \in LastIn(F, a, S)
    BY <1>1, <1>2 DEF LastIn
  <2>2. ASSUME NEW f \in LastIn(F, a, S)
        PROVE  f = e
    <3>1. f \in E \cup {e} /\ AuthorOf[f] = a /\ SeqOf[e] <= SeqOf[f]
      BY <1>2 DEF LastIn
    <3>2. QED
      BY <1>1, <1>2, <3>1
  <2>3. QED
    BY <2>1, <2>2
<1>3. ASSUME ~(e \in S /\ AuthorOf[e] = a)
      PROVE  LastIn(F, a, S) = LastIn(E, a, S)
  BY <1>3 DEF LastIn
<1>4. QED
  BY <1>2, <1>3

LEMMA StandingStep ==
    ASSUME NEW E, NEW e, IsNext(E, e), NEW yes, NEW no, yes # no
    PROVE  StandingIn(E \cup {e}, yes, no) =
               SetUnless(StandingIn(E, yes, no), <<AuthorOf[e], Target(e)>>, e, yes, no)
<1> DEFINE L(F, f) == LastIn(F, AuthorOf[f], About({yes, no}, Target(f)))
           pair(f) == <<AuthorOf[f], Target(f)>>
           old == StandingIn(E, yes, no)
           new == StandingIn(E \cup {e}, yes, no)
           F == E \cup {e}
<1>0. E \subseteq Event /\ e \in Event /\ e \notin E
  BY DEF IsNext
<1>1. ASSUME NEW f \in F
      PROVE  /\ pair(e) = pair(f) /\ Kind(e) \in {yes, no} => L(F, f) = {e}
             /\ ~(pair(e) = pair(f) /\ Kind(e) \in {yes, no}) => L(F, f) = L(E, f)
  <2> DEFINE T == About({yes, no}, Target(f))
  <2>1. e \in T <=> Kind(e) \in {yes, no} /\ Target(e) = Target(f)
    BY <1>0 DEF About
  <2>2. pair(e) = pair(f) <=> AuthorOf[e] = AuthorOf[f] /\ Target(e) = Target(f)
    OBVIOUS
  <2>3. F = E \cup {e}
    OBVIOUS
  <2> HIDE DEF T, pair, F
  <2>4. /\ e \in T /\ AuthorOf[e] = AuthorOf[f] => LastIn(F, AuthorOf[f], T) = {e}
        /\ ~(e \in T /\ AuthorOf[e] = AuthorOf[f]) =>
              LastIn(F, AuthorOf[f], T) = LastIn(E, AuthorOf[f], T)
    BY <2>3, LastInStep
  <2>5. QED
    BY <2>1, <2>2, <2>4 DEF T
<1>2. /\ \A p : p \in old <=> \E f \in E : Kind(f) = yes /\ f \in L(E, f) /\ p = pair(f)
      /\ \A p : p \in new <=> \E f \in F : Kind(f) = yes /\ f \in L(F, f) /\ p = pair(f)
  BY DEF StandingIn
<1>3. \A f \in F : f \in L(E, f) => f \in E
  BY DEF LastIn
<1>4. \A p : p \in SetUnless(old, pair(e), e, yes, no) <=>
          (p \in old \/ (p = pair(e) /\ Kind(e) = yes)) /\ ~(p = pair(e) /\ Kind(e) = no)
  BY DEF SetUnless
<1> HIDE DEF L, pair, old, new, F
<1>5. ASSUME NEW p \in new
      PROVE  (p \in old \/ (p = pair(e) /\ Kind(e) = yes)) /\ ~(p = pair(e) /\ Kind(e) = no)
  <2>1. PICK f \in F : Kind(f) = yes /\ f \in L(F, f) /\ p = pair(f)
    BY <1>2
  <2>2. CASE pair(e) = pair(f) /\ Kind(e) \in {yes, no}
    BY <1>1, <2>1, <2>2
  <2>3. CASE ~(pair(e) = pair(f) /\ Kind(e) \in {yes, no})
    BY <1>1, <1>2, <1>3, <2>1, <2>3
  <2>4. QED
    BY <2>2, <2>3
<1>6. ASSUME NEW p, p \in old \/ (p = pair(e) /\ Kind(e) = yes), ~(p = pair(e) /\ Kind(e) = no)
      PROVE  p \in new
  <2>1. CASE p = pair(e) /\ Kind(e) = yes
    BY <1>1, <1>2, <2>1 DEF F
  <2>2. CASE p \in old /\ ~(p = pair(e) /\ Kind(e) = yes)
    <3>1. PICK f \in E : Kind(f) = yes /\ f \in L(E, f) /\ p = pair(f)
      BY <1>2, <2>2
    <3>2. f \in F /\ ~(pair(e) = pair(f) /\ Kind(e) \in {yes, no})
      BY <1>6, <2>2, <3>1 DEF F
    <3>3. QED
      BY <1>1, <1>2, <3>1, <3>2
  <2>3. QED
    BY <1>6, <2>1, <2>2
<1>7. new = SetUnless(old, pair(e), e, yes, no)
  BY <1>4, <1>5, <1>6
<1>8. QED
  BY <1>7 DEF new, old, pair, F

LEMMA LikesStep ==
    ASSUME NEW E, NEW e, IsNext(E, e)
    PROVE  LikesIn(E \cup {e}) =
             {l \in LikesIn(E) : ~(Kind(e) = "like" /\ l[1] = Target(e) /\ l[2] = AuthorOf[e])}
                 \cup {l \in {<<Target(e), AuthorOf[e], Body[e].value>>} : Kind(e) = "like"}
<1> DEFINE L(F, f) == LastIn(F, AuthorOf[f], About({"like"}, Target(f)))
           vote(f) == <<Target(f), AuthorOf[f], Body[f].value>>
           same(f) == Target(e) = Target(f) /\ AuthorOf[e] = AuthorOf[f]
           old == LikesIn(E)
           new == LikesIn(E \cup {e})
           F == E \cup {e}
<1>0. E \subseteq Event /\ e \in Event /\ e \notin E
  BY DEF IsNext
<1>1. ASSUME NEW f \in F
      PROVE  /\ same(f) /\ Kind(e) = "like" => L(F, f) = {e}
             /\ ~(same(f) /\ Kind(e) = "like") => L(F, f) = L(E, f)
  <2> DEFINE T == About({"like"}, Target(f))
  <2>1. e \in T <=> Kind(e) = "like" /\ Target(e) = Target(f)
    BY <1>0 DEF About
  <2>2. F = E \cup {e}
    OBVIOUS
  <2> HIDE DEF T, F
  <2>3. /\ e \in T /\ AuthorOf[e] = AuthorOf[f] => LastIn(F, AuthorOf[f], T) = {e}
        /\ ~(e \in T /\ AuthorOf[e] = AuthorOf[f]) =>
              LastIn(F, AuthorOf[f], T) = LastIn(E, AuthorOf[f], T)
    BY <2>2, LastInStep
  <2>4. QED
    BY <2>1, <2>3 DEF T
<1>2. /\ \A p : p \in old <=> \E f \in E : Kind(f) = "like" /\ f \in L(E, f) /\ p = vote(f)
      /\ \A p : p \in new <=> \E f \in F : Kind(f) = "like" /\ f \in L(F, f) /\ p = vote(f)
  BY DEF LikesIn
<1>3. \A f \in F : f \in L(E, f) => f \in E
  BY DEF LastIn
<1>4. \A f : vote(f)[1] = Target(f) /\ vote(f)[2] = AuthorOf[f]
  OBVIOUS
<1>5. \A f : same(f) <=> vote(f)[1] = Target(e) /\ vote(f)[2] = AuthorOf[e]
  BY <1>4
<1>6. same(e)
  OBVIOUS
<1> HIDE DEF L, vote, same, old, new, F
<1>7. ASSUME NEW p \in new
      PROVE  \/ p \in old /\ ~(Kind(e) = "like" /\ p[1] = Target(e) /\ p[2] = AuthorOf[e])
             \/ p = vote(e) /\ Kind(e) = "like"
  <2>1. PICK f \in F : Kind(f) = "like" /\ f \in L(F, f) /\ p = vote(f)
    BY <1>2
  <2>2. CASE same(f) /\ Kind(e) = "like"
    BY <1>1, <2>1, <2>2
  <2>3. CASE ~(same(f) /\ Kind(e) = "like")
    BY <1>1, <1>2, <1>3, <1>5, <2>1, <2>3
  <2>4. QED
    BY <2>2, <2>3
<1>8. ASSUME NEW p \in old, ~(Kind(e) = "like" /\ p[1] = Target(e) /\ p[2] = AuthorOf[e])
      PROVE  p \in new
  <2>1. PICK f \in E : Kind(f) = "like" /\ f \in L(E, f) /\ p = vote(f)
    BY <1>2
  <2>2. f \in F /\ ~(same(f) /\ Kind(e) = "like")
    BY <1>5, <1>8, <2>1 DEF F
  <2>3. QED
    BY <1>1, <1>2, <2>1, <2>2
<1>9. Kind(e) = "like" => vote(e) \in new
  BY <1>1, <1>2, <1>6 DEF F
<1>10. new = {l \in old : ~(Kind(e) = "like" /\ l[1] = Target(e) /\ l[2] = AuthorOf[e])}
                 \cup {l \in {vote(e)} : Kind(e) = "like"}
  BY <1>7, <1>8, <1>9
<1>11. QED
  BY <1>10 DEF new, old, vote, F

LEMMA ProfilesStep ==
    ASSUME NEW E, NEW e, IsNext(E, e)
    PROVE  ProfilesIn(E \cup {e}) =
             {p \in ProfilesIn(E) : ~(Kind(e) = "profile" /\ AuthorOf[p] = AuthorOf[e])}
                 \cup {p \in {e} : Kind(e) = "profile"}
<1> DEFINE L(F, a) == LastIn(F, a, Profiles)
           F == E \cup {e}
<1>0. E \subseteq Event /\ e \in Event /\ AuthorOf[e] \in Author /\ (e \in Profiles <=> Kind(e) = "profile")
  BY ViewsAssumption DEF IsNext, Profiles
<1>1. ASSUME NEW a
      PROVE  /\ Kind(e) = "profile" /\ AuthorOf[e] = a => L(F, a) = {e}
             /\ ~(Kind(e) = "profile" /\ AuthorOf[e] = a) => L(F, a) = L(E, a)
  <2>1. F = E \cup {e}
    OBVIOUS
  <2> HIDE DEF F
  <2>2. /\ e \in Profiles /\ AuthorOf[e] = a => LastIn(F, a, Profiles) = {e}
        /\ ~(e \in Profiles /\ AuthorOf[e] = a) =>
              LastIn(F, a, Profiles) = LastIn(E, a, Profiles)
    BY <2>1, LastInStep
  <2>3. QED
    BY <1>0, <2>2
<1>2. /\ \A p : p \in ProfilesIn(E) <=> \E a \in Author : p \in L(E, a)
      /\ \A p : p \in ProfilesIn(F) <=> \E a \in Author : p \in L(F, a)
  BY DEF ProfilesIn
<1>3. \A a : \A p \in L(E, a) : AuthorOf[p] = a
  BY DEF LastIn
<1> HIDE DEF L, F
<1>4. ProfilesIn(F) =
             {p \in ProfilesIn(E) : ~(Kind(e) = "profile" /\ AuthorOf[p] = AuthorOf[e])}
                 \cup {p \in {e} : Kind(e) = "profile"}
  <2>1. CASE Kind(e) = "profile"
    <3>1. \A a : a # AuthorOf[e] => L(F, a) = L(E, a)
      BY <1>1, <2>1
    <3>2. L(F, AuthorOf[e]) = {e}
      BY <1>1, <2>1
    <3>3. QED
      BY <1>0, <1>2, <1>3, <2>1, <3>1, <3>2
  <2>2. CASE Kind(e) # "profile"
    <3>1. \A a : L(F, a) = L(E, a)
      BY <1>1, <2>2
    <3>2. QED
      BY <1>2, <2>2, <3>1
  <2>3. QED
    BY <2>1, <2>2
<1>5. QED
  BY <1>4 DEF F

-----------------------------------------------------------------------------
(* The steps *)

\* IndexesFollowTheLogs, with the sets as functions of events.
ByTheLogs ==
    /\ Range(posts) = {e \in events : IsPostish(e)}
    /\ Range(boards) = {e \in events : Kind(e) = "thread"}
    /\ Range(replies) = {e \in events : Kind(e) = "reply"}
    /\ likes = LikesIn(events)
    /\ follows = StandingIn(events, "follow", "unfollow")
    /\ followers = {<<p[2], p[1]>> : p \in follows}
    /\ blocks = StandingIn(events, "block", "unblock")
    /\ profiles = ProfilesIn(events)
    /\ deleted = {t \in events : TakenBack(t)}

LEMMA IndexesAre == IndexesFollowTheLogs <=> ByTheLogs
<1>1. \A a, S : LastOf(a, S) = LastIn(events, a, S)
  BY DEF LastOf, LastIn
<1>2. \A yes, no : Standing(yes, no) = StandingIn(events, yes, no)
  BY <1>1 DEF Standing, StandingIn
<1>3. LikesIn(events) = {<<Target(e), AuthorOf[e], Body[e].value>> : e \in
                   {f \in events : Kind(f) = "like" /\
                        f \in LastOf(AuthorOf[f], About({"like"}, Target(f)))}}
  BY <1>1 DEF LikesIn
<1>4. ProfilesIn(events) = UNION {LastOf(a, {e \in Event : Kind(e) = "profile"}) : a \in Author}
  BY <1>1 DEF ProfilesIn, Profiles
<1>5. QED
  BY <1>2, <1>3, <1>4 DEF IndexesFollowTheLogs, ByTheLogs

LEMMA NextOne ==
    ASSUME TypeOK, Numbered, NEW e \in Event, Apply(e)
    PROVE  IsNext(events, e) /\ Numbered'
<1> DEFINE Log(E, a) == {f \in E : AuthorOf[f] = a}
<1>1. events \subseteq Event /\ IsFiniteSet(events) /\ events' = events \cup {e} /\ e \notin events
  BY DEF TypeOK, Apply
<1>2. Cardinality(Log(events, AuthorOf[e])) + 1 = SeqOf[e]
  BY DEF Apply
<1>3. \A f \in events : SeqOf[f] <= Cardinality(Log(events, AuthorOf[f]))
  BY DEF Numbered
<1>4. \A f \in events' : SeqOf[f] \in Nat
  BY <1>1, ViewsAssumption
<1>5. \A a : IsFiniteSet(Log(events, a)) /\ Cardinality(Log(events, a)) \in Nat
  <2> SUFFICES ASSUME NEW a
               PROVE  IsFiniteSet(Log(events, a)) /\ Cardinality(Log(events, a)) \in Nat
    OBVIOUS
  <2>1. Log(events, a) \subseteq events
    OBVIOUS
  <2> HIDE DEF Log
  <2>2. QED
    BY <1>1, <2>1, FS_Subset, FS_CardinalityType
<1>6. /\ Log(events', AuthorOf[e]) = Log(events, AuthorOf[e]) \cup {e}
      /\ \A a : a # AuthorOf[e] => Log(events', a) = Log(events, a)
      /\ e \notin Log(events, AuthorOf[e])
  BY <1>1
<1> HIDE DEF Log
<1>7. Cardinality(Log(events', AuthorOf[e])) = Cardinality(Log(events, AuthorOf[e])) + 1
  BY <1>5, <1>6, FS_AddElement
<1>8. \A f \in events : AuthorOf[f] = AuthorOf[e] => SeqOf[f] < SeqOf[e]
  BY <1>1, <1>2, <1>3, <1>4, <1>5
<1>9. ASSUME NEW f \in events'
      PROVE  SeqOf[f] <= Cardinality(Log(events', AuthorOf[f]))
  <2>1. CASE AuthorOf[f] = AuthorOf[e]
    <3>1. SeqOf[f] <= SeqOf[e]
      BY <1>1, <1>4, <1>8, <2>1
    <3>2. QED
      BY <1>1, <1>2, <1>5, <1>7, <2>1, <3>1
  <2>2. CASE AuthorOf[f] # AuthorOf[e]
    <3>1. f \in events
      BY <1>1, <2>2
    <3>2. QED
      BY <1>3, <1>6, <2>2, <3>1
  <2>3. QED
    BY <2>1, <2>2
<1>10. Numbered'
  BY <1>9 DEF Numbered, Log
<1>11. QED
  BY <1>1, <1>8, <1>10 DEF IsNext

\* The lists of posts, boards and replies.
LEMMA IndexKeeps ==
    ASSUME TypeOK, InTime(posts), NEW e \in Event, Apply(e)
    PROVE  /\ {posts, boards, replies}' \subseteq Seq(events')
           /\ InTime(posts)'
           /\ Range(posts)' = Range(posts) \cup {p \in {e} : IsPostish(e)}
           /\ Range(boards)' = Range(boards) \cup {p \in {e} : Kind(e) = "thread"}
           /\ Range(replies)' = Range(replies) \cup {p \in {e} : Kind(e) = "reply"}
<1>1. /\ events' = events \cup {e} /\ events \subseteq Event
      /\ posts \in Seq(events) /\ boards \in Seq(events) /\ replies \in Seq(events)
      /\ posts' = IF IsPostish(e) THEN InsertPost(e) ELSE posts
      /\ boards' = IF Kind(e) = "thread" THEN Append(boards, e) ELSE boards
      /\ replies' = IF Kind(e) = "reply" THEN Append(replies, e) ELSE replies
  BY DEF TypeOK, Apply, Index
<1>2. \A q \in Seq(events) : q \in Seq(events') /\ q \in Seq(Event)
  BY <1>1
<1>3. \A q \in Seq(events) : Append(q, e) \in Seq(events') /\ Range(Append(q, e)) = Range(q) \cup {e}
  BY <1>1, AppendIs
<1>4. ASSUME IsPostish(e)
      PROVE  posts' \in Seq(events') /\ InTime(posts') /\ Range(posts') = Range(posts) \cup {e}
  <2> DEFINE n == Cardinality(NotNewer(posts, e))
             k == n + 1
             w == SX!InsertAt(posts, k, e)
  <2>1. posts \in Seq(events) /\ posts \in Seq(Event) /\ Len(posts) \in Nat
    BY <1>1, <1>2
  <2>2. n \in 0..Len(posts)
    BY <2>1, NotNewerIs
  <2> HIDE DEF n
  <2>3. k \in 1..(Len(posts) + 1)
    BY <2>1, <2>2
  <2> HIDE DEF k
  <2>4. w \in Seq(events \cup {e}) /\ Inserted(w, posts, k, e)
    BY <2>1, <2>3, InsertIs
  <2> HIDE DEF w
  <2>5. Range(w) = Range(posts) \cup {e}
    BY <2>1, <2>3, <2>4, InsertRange
  <2>6. InTime(w)
    BY <2>1, <2>4, InsertInTime DEF k, n
  <2>7. posts' = w
    BY <1>1, <1>4 DEF InsertPost, NotNewer, w, k, n
  <2>8. QED
    BY <1>1, <2>4, <2>5, <2>6, <2>7
<1>5. /\ posts' \in Seq(events') /\ InTime(posts')
      /\ Range(posts') = Range(posts) \cup {p \in {e} : IsPostish(e)}
  BY <1>1, <1>2, <1>4
<1>6. /\ boards' \in Seq(events')
      /\ Range(boards') = Range(boards) \cup {p \in {e} : Kind(e) = "thread"}
  BY <1>1, <1>2, <1>3
<1>7. /\ replies' \in Seq(events')
      /\ Range(replies') = Range(replies) \cup {p \in {e} : Kind(e) = "reply"}
  BY <1>1, <1>2, <1>3
<1>8. InTime(posts)' <=> InTime(posts')
  BY DEF InTime
<1>9. Range(posts)' = Range(posts') /\ Range(boards)' = Range(boards') /\ Range(replies)' = Range(replies')
  BY DEF Range
<1>10. QED
  BY <1>5, <1>6, <1>7, <1>8, <1>9

\* A deletion takes effect when the later of it and what it names is applied.
LEMMA TombstoneKeeps ==
    ASSUME TypeOK, Waiting, deleted = {t \in events : TakenBack(t)}, NEW e \in Event, Apply(e)
    PROVE  /\ Waiting'
           /\ deleted' = {t \in events : TakenBack(t)}'
<1> DEFINE a == AuthorOf[e]
           dels(E, t) == {d \in E : Kind(d) = "delete" /\ Target(d) = t}
<1>1. events' = events \cup {e} /\ e \notin events /\ Target(e) # e
  BY ViewsAssumption DEF Apply, Target
<1>2. /\ \A t : t \in deleted' <=>
            \/ t \in deleted
            \/ t \in events /\ t = Target(e) /\ Kind(e) = "delete" /\ AuthorOf[t] = a
            \/ t = e /\ <<e, a>> \in tombstonePending
      /\ \A w : w \in tombstonePending' <=>
            \/ w \in tombstonePending /\ w[1] # e
            \/ /\ Kind(e) = "delete" /\ Target(e) \notin events \cup {e}
               /\ w = <<Target(e), a>>
  BY DEF Apply, Tombstone
<1>3. \A w : w \in tombstonePending <=>
          \E d \in events : /\ Kind(d) = "delete" /\ Target(d) \notin events
                            /\ w = <<Target(d), AuthorOf[d]>>
  BY DEF Waiting
<1>4. ASSUME NEW w
      PROVE  w \in tombstonePending' <=>
                 \E d \in events' : /\ Kind(d) = "delete" /\ Target(d) \notin events'
                                    /\ w = <<Target(d), AuthorOf[d]>>
  <2>1. \A d : <<Target(d), AuthorOf[d]>>[1] = Target(d)
    OBVIOUS
  <2>2. ASSUME w \in tombstonePending'
        PROVE  \E d \in events' : /\ Kind(d) = "delete" /\ Target(d) \notin events'
                                  /\ w = <<Target(d), AuthorOf[d]>>
    <3>1. CASE w \in tombstonePending /\ w[1] # e
      <4>1. PICK d \in events : /\ Kind(d) = "delete" /\ Target(d) \notin events
                                /\ w = <<Target(d), AuthorOf[d]>>
        BY <1>3, <3>1
      <4>2. Target(d) # e
        BY <2>1, <3>1, <4>1
      <4>3. QED
        BY <1>1, <4>1, <4>2
    <3>2. CASE /\ Kind(e) = "delete" /\ Target(e) \notin events \cup {e}
               /\ w = <<Target(e), a>>
      BY <1>1, <3>2
    <3>3. QED
      BY <1>2, <2>2, <3>1, <3>2
  <2>3. ASSUME NEW d \in events', Kind(d) = "delete", Target(d) \notin events',
               w = <<Target(d), AuthorOf[d]>>
        PROVE  w \in tombstonePending'
    <3>1. CASE d = e
      BY <1>1, <1>2, <2>3, <3>1
    <3>2. CASE d \in events
      BY <1>1, <1>2, <1>3, <2>1, <2>3, <3>2
    <3>3. QED
      BY <1>1, <3>1, <3>2
  <2>4. QED
    BY <2>2, <2>3
<1>5. Waiting'
  BY <1>4 DEF Waiting
<1>6. \A t : t \in deleted <=>
          t \in events /\ \E d \in events : /\ Kind(d) = "delete" /\ Target(d) = t
                                            /\ AuthorOf[d] = AuthorOf[t]
  BY DEF TakenBack
<1>7. <<e, a>> \in tombstonePending <=>
          \E d \in events : Kind(d) = "delete" /\ Target(d) = e /\ AuthorOf[d] = a
  <2>1. \A d : <<e, a>> = <<Target(d), AuthorOf[d]>> <=> e = Target(d) /\ a = AuthorOf[d]
    OBVIOUS
  <2>2. QED
    BY <1>1, <1>3, <2>1
<1>8. ASSUME NEW t
      PROVE  t \in deleted' <=>
                 t \in events' /\ \E d \in events' : /\ Kind(d) = "delete" /\ Target(d) = t
                                                     /\ AuthorOf[d] = AuthorOf[t]
  <2>1. CASE t = e
    <3>1. ~(Target(e) = t)
      BY <1>1, <2>1
    <3>2. t \in deleted' <=> <<e, a>> \in tombstonePending
      BY <1>1, <1>2, <1>6, <2>1
    <3>3. QED
      BY <1>1, <1>7, <2>1, <3>1, <3>2
  <2>2. CASE t # e
    BY <1>1, <1>2, <1>6, <2>2
  <2>3. QED
    BY <2>1, <2>2
<1>9. deleted' = {t \in events : TakenBack(t)}'
  BY <1>8 DEF TakenBack
<1>10. QED
  BY <1>5, <1>9

\* The sets about people and posts.
LEMMA RelateKeeps ==
    ASSUME TypeOK, Numbered, IndexesFollowTheLogs, NEW e \in Event, Apply(e)
    PROVE  /\ likes' = LikesIn(events')
           /\ follows' = StandingIn(events', "follow", "unfollow")
           /\ followers' = {<<p[2], p[1]>> : p \in follows'}
           /\ blocks' = StandingIn(events', "block", "unblock")
           /\ profiles' = ProfilesIn(events')
           /\ profiles' \subseteq events'
<1> DEFINE a == AuthorOf[e]
           t == Target(e)
<1>1. IsNext(events, e) /\ events' = events \cup {e}
  BY NextOne DEF Apply
<1>2. /\ likes = LikesIn(events)
      /\ follows = StandingIn(events, "follow", "unfollow")
      /\ followers = {<<p[2], p[1]>> : p \in follows}
      /\ blocks = StandingIn(events, "block", "unblock")
      /\ profiles = ProfilesIn(events)
  BY IndexesAre DEF ByTheLogs
<1>3. /\ likes' = Like(e)
      /\ follows' = SetUnless(follows, <<a, t>>, e, "follow", "unfollow")
      /\ followers' = SetUnless(followers, <<t, a>>, e, "follow", "unfollow")
      /\ blocks' = SetUnless(blocks, <<a, t>>, e, "block", "unblock")
      /\ profiles' = {p \in profiles : ~(Kind(e) = "profile" /\ AuthorOf[p] = a)}
                         \cup {p \in {e} : Kind(e) = "profile"}
  BY DEF Apply, Relate
<1>4. likes' = LikesIn(events')
  BY <1>1, <1>2, <1>3, LikesStep DEF Like
<1>5. follows' = StandingIn(events', "follow", "unfollow")
  BY <1>1, <1>2, <1>3, StandingStep
<1>6. blocks' = StandingIn(events', "block", "unblock")
  BY <1>1, <1>2, <1>3, StandingStep
<1>7. profiles' = ProfilesIn(events')
  BY <1>1, <1>2, <1>3, ProfilesStep
<1>8. profiles' \subseteq events'
  BY <1>1, <1>3 DEF TypeOK
<1>9. followers' = {<<p[2], p[1]>> : p \in follows'}
  <2> DEFINE flip(p) == <<p[2], p[1]>>
             Both(S) == \A p \in S : p = <<p[1], p[2]>>
  <2>1. \A p \in follows : p = <<p[1], p[2]>>
    BY <1>2 DEF StandingIn
  <2>2. \A p : p \in follows' <=>
            (p \in follows \/ (p = <<a, t>> /\ Kind(e) = "follow"))
                /\ ~(p = <<a, t>> /\ Kind(e) = "unfollow")
    BY <1>3 DEF SetUnless
  <2>3. \A p : p \in followers' <=>
            (p \in followers \/ (p = <<t, a>> /\ Kind(e) = "follow"))
                /\ ~(p = <<t, a>> /\ Kind(e) = "unfollow")
    BY <1>3 DEF SetUnless
  <2>4. \A p : p \in followers <=> \E q \in follows : p = flip(q)
    BY <1>2
  <2>5. flip(<<a, t>>) = <<t, a>>
    OBVIOUS
  <2>6. \A p \in follows : flip(p) = <<t, a>> <=> p = <<a, t>>
    BY <2>1
  <2> HIDE DEF flip
  <2>7. \A p : p \in followers' <=> \E q \in follows' : p = flip(q)
    <3> SUFFICES ASSUME NEW p
                 PROVE  p \in followers' <=> \E q \in follows' : p = flip(q)
      OBVIOUS
    <3>1. ASSUME p \in followers'
          PROVE  \E q \in follows' : p = flip(q)
      <4>1. CASE p \in followers /\ ~(p = <<t, a>> /\ Kind(e) = "unfollow")
        <5>1. PICK q \in follows : p = flip(q)
          BY <2>4, <4>1
        <5>2. q \in follows'
          BY <2>2, <2>6, <4>1, <5>1
        <5>3. QED
          BY <5>1, <5>2
      <4>2. CASE p = <<t, a>> /\ Kind(e) = "follow"
        <5>1. <<a, t>> \in follows'
          BY <2>2, <4>2
        <5>2. QED
          BY <2>5, <4>2, <5>1
      <4>3. QED
        BY <2>3, <3>1, <4>1, <4>2
    <3>2. ASSUME NEW q \in follows', p = flip(q)
          PROVE  p \in followers'
      <4>1. CASE q \in follows /\ ~(q = <<a, t>> /\ Kind(e) = "unfollow")
        BY <2>3, <2>4, <2>6, <3>2, <4>1
      <4>2. CASE q = <<a, t>> /\ Kind(e) = "follow"
        BY <2>3, <2>5, <3>2, <4>2
      <4>3. QED
        BY <2>2, <4>1, <4>2
    <3>3. QED
      BY <3>1, <3>2
  <2>8. QED
    BY <2>7 DEF flip
<1>10. QED
  BY <1>4, <1>5, <1>6, <1>7, <1>8, <1>9

LEMMA ApplyKeeps ==
    ASSUME ViewsInv, NEW e \in Event, Apply(e)
    PROVE  ViewsInv'
<1> USE DEF ViewsInv
<1>1. /\ events' = events \cup {e} /\ UNCHANGED deviceVars
      /\ events' \subseteq Event /\ IsFiniteSet(events')
  BY FS_AddElement DEF Apply, TypeOK
<1>2. Numbered'
  BY NextOne
<1>3. /\ {posts, boards, replies}' \subseteq Seq(events') /\ InTime(posts)'
      /\ Range(posts)' = Range(posts) \cup {p \in {e} : IsPostish(e)}
      /\ Range(boards)' = Range(boards) \cup {p \in {e} : Kind(e) = "thread"}
      /\ Range(replies)' = Range(replies) \cup {p \in {e} : Kind(e) = "reply"}
  BY IndexKeeps
<1>4. /\ Range(posts) = {f \in events : IsPostish(f)}
      /\ Range(boards) = {f \in events : Kind(f) = "thread"}
      /\ Range(replies) = {f \in events : Kind(f) = "reply"}
      /\ deleted = {f \in events : TakenBack(f)}
  BY IndexesAre DEF ByTheLogs
<1>5. Waiting' /\ deleted' = {f \in events : TakenBack(f)}'
  BY <1>4, TombstoneKeeps
<1>6. /\ likes' = LikesIn(events')
      /\ follows' = StandingIn(events', "follow", "unfollow")
      /\ followers' = {<<p[2], p[1]>> : p \in follows'}
      /\ blocks' = StandingIn(events', "block", "unblock")
      /\ profiles' = ProfilesIn(events')
      /\ profiles' \subseteq events'
  BY RelateKeeps
<1>7. /\ Range(posts)' = {f \in events' : IsPostish(f)}
      /\ Range(boards)' = {f \in events' : Kind(f) = "thread"}
      /\ Range(replies)' = {f \in events' : Kind(f) = "reply"}
  BY <1>1, <1>3, <1>4
<1>8. IndexesFollowTheLogs'
  <2>1. (ByTheLogs => IndexesFollowTheLogs)'
    BY IndexesAre, PTL
  <2>2. /\ LikesIn(events)' = LikesIn(events') /\ ProfilesIn(events)' = ProfilesIn(events')
        /\ StandingIn(events, "follow", "unfollow")' = StandingIn(events', "follow", "unfollow")
        /\ StandingIn(events, "block", "unblock")' = StandingIn(events', "block", "unblock")
    BY DEF LikesIn, ProfilesIn, StandingIn, LastIn
  <2>3. QED
    BY <1>5, <1>6, <1>7, <2>1, <2>2 DEF ByTheLogs
<1>9. TypeOK'
  BY <1>1, <1>3, <1>5, <1>6 DEF TypeOK, DeviceTypeOK, deviceVars
<1>10. Pushed'
  BY <1>1 DEF Pushed, EffectiveFilter, deviceVars
<1>11. QED
  BY <1>2, <1>3, <1>5, <1>8, <1>9, <1>10

-----------------------------------------------------------------------------
(* The lists of the device *)

LEMMA DeviceStart == DeviceInit => DeviceTypeOK /\ Pushed
BY ModerationAssumption DEF DeviceInit, DeviceTypeOK, Pushed, EffectiveFilter, Name

LEMMA DeviceStep ==
    ASSUME DeviceTypeOK, Pushed, DeviceNext
    PROVE  DeviceTypeOK' /\ Pushed'
<1> USE DEF EffectiveFilter, ApplyFilter, Write
<1>1. /\ wished \subseteq Name /\ hidden \subseteq Name /\ list \subseteq Name /\ filter \subseteq Name
      /\ following \in BOOLEAN /\ fresh \in BOOLEAN /\ refreshing \in Nat
      /\ Hides \subseteq Name /\ \A l \in Lists : l \subseteq Name
      /\ Storing \in BOOLEAN
  BY ModerationAssumption DEF DeviceTypeOK
<1>2. ASSUME wished' \subseteq Name, hidden' \subseteq Name, list' \subseteq Name,
             filter' \subseteq Name, following' \in BOOLEAN, fresh' \in BOOLEAN,
             refreshing' \in Nat
      PROVE  DeviceTypeOK'
  BY <1>2 DEF DeviceTypeOK
<1>3. ASSUME NEW n \in Hides, HideLocally(n)
      PROVE  DeviceTypeOK' /\ Pushed'
  BY <1>1, <1>2, <1>3 DEF HideLocally, Pushed
<1>4. CASE ClearHiddenLocally
  BY <1>1, <1>2, <1>4 DEF ClearHiddenLocally, Pushed
<1>5. CASE Unfollow
  BY <1>1, <1>2, <1>5 DEF Unfollow, Pushed
<1>6. CASE Follow
  <2>1. /\ refreshing' = refreshing + 1 /\ wished' = wished /\ hidden' = hidden
        /\ list' = list /\ fresh' = fresh /\ filter' = filter
        /\ following' \in BOOLEAN
    BY <1>1, <1>6 DEF Follow
  <2>2. refreshing' \in Nat /\ refreshing' # 0
    BY <1>1, <2>1
  <2>3. DeviceTypeOK'
    BY <1>1, <1>2, <2>1, <2>2
  <2>4. Pushed'
    BY <2>1, <2>2 DEF Pushed
  <2>5. QED
    BY <2>3, <2>4
<1>7. CASE HourlySync
  BY <1>1, <1>2, <1>7 DEF HourlySync, Pushed
<1>8. CASE Refreshed
  <2>1. list' \subseteq Name /\ fresh' \in BOOLEAN
    BY <1>1, <1>8 DEF Refreshed
  <2>2. QED
    BY <1>1, <1>2, <1>8, <2>1 DEF Refreshed, Pushed
<1>9. CASE ListAges
  BY <1>1, <1>2, <1>9 DEF ListAges, Pushed
<1>10. QED
  BY <1>3, <1>4, <1>5, <1>6, <1>7, <1>8, <1>9 DEF DeviceNext

LEMMA ViewsStart == Init => ViewsInv
<1> SUFFICES ASSUME Init PROVE ViewsInv
  OBVIOUS
<1> USE DEF Init
<1>1. IsFiniteSet(events)
  BY FS_EmptySet
<1>2. TypeOK /\ Numbered /\ Waiting /\ InTime(posts) /\ Pushed
  BY <1>1, DeviceStart DEF TypeOK, Numbered, Waiting, InTime
<1>3. Range(<<>>) = {}
  BY DEF Range
<1>4. LikesIn({}) = {} /\ ProfilesIn({}) = {} /\ \A yes, no : StandingIn({}, yes, no) = {}
  BY DEF LikesIn, ProfilesIn, StandingIn, LastIn
<1>5. {<<p[2], p[1]>> : p \in {}} = {}
  OBVIOUS
<1>6. IndexesFollowTheLogs
  BY <1>3, <1>4, <1>5, IndexesAre DEF ByTheLogs
<1>7. QED
  BY <1>2, <1>6 DEF ViewsInv

LEMMA ViewsStep == ViewsInv /\ [Next]_vars => ViewsInv'
<1> SUFFICES ASSUME ViewsInv, [Next]_vars PROVE ViewsInv'
  OBVIOUS
<1>1. ASSUME NEW e \in Event, Act(e) \/ Arrive(e)
      PROVE  ViewsInv'
  BY <1>1, ApplyKeeps DEF Act, Arrive
<1>2. ASSUME UNCHANGED logVars, DeviceTypeOK', Pushed'
      PROVE  ViewsInv'
  <2>1. TypeOK' /\ Numbered' /\ Waiting' /\ InTime(posts)'
    BY <1>2 DEF ViewsInv, TypeOK, Numbered, Waiting, InTime, logVars, listVars, socialVars
  <2>2. IndexesFollowTheLogs'
    BY <1>2 DEF ViewsInv, IndexesFollowTheLogs, TakenBack, Standing, LastOf, logVars, listVars,
                socialVars
  <2>3. QED
    BY <1>2, <2>1, <2>2 DEF ViewsInv
<1>3. CASE DeviceNext /\ UNCHANGED logVars
  BY <1>2, <1>3, DeviceStep DEF ViewsInv, TypeOK
<1>4. CASE UNCHANGED vars
  <2>1. DeviceTypeOK' /\ Pushed'
    BY <1>4 DEF ViewsInv, TypeOK, DeviceTypeOK, Pushed, EffectiveFilter, vars, deviceVars
  <2>2. QED
    BY <1>2, <1>4, <2>1 DEF vars
<1>5. QED
  BY <1>1, <1>3, <1>4 DEF Next

LEMMA ViewsAlways == Spec => []ViewsInv
<1>1. QED
  BY ViewsStart, ViewsStep, PTL DEF Spec

-----------------------------------------------------------------------------
(* The order of a thread *)

LEMMA BeforeOrders ==
    /\ \A e \in Event : ~Before(e, e)
    /\ \A e, f, g \in Event : Before(e, f) /\ Before(f, g) => Before(e, g)
    /\ \A e, f \in Event : e # f => Before(e, f) \/ Before(f, e)
<1>1. \A e \in Event : Ts(e) \in Nat /\ IdOrder[e] \in Nat
  BY ViewsAssumption DEF Ts
<1>2. \A e, f \in Event : IdOrder[e] = IdOrder[f] => e = f
  BY ViewsAssumption DEF IsInjective
<1>3. \A e \in Event : ~Before(e, e)
  BY <1>1 DEF Before
<1>4. \A e, f, g \in Event : Before(e, f) /\ Before(f, g) => Before(e, g)
  BY <1>1 DEF Before
<1>5. \A e, f \in Event : e # f => Before(e, f) \/ Before(f, e)
  BY <1>1, <1>2 DEF Before
<1>6. QED
  BY <1>3, <1>4, <1>5

\* Each event of R stands behind those that are before it.
LEMMA SortedIs ==
    ASSUME NEW R \in SUBSET Event, IsFiniteSet(R)
    PROVE  /\ DOMAIN Sorted(R) = 1..Cardinality(R)
           /\ \A k \in 1..Cardinality(R) :
                 Sorted(R)[k] \in R /\ Cardinality(Ahead(R, Sorted(R)[k])) = k - 1
<1> DEFINE n == Cardinality(R)
           f == [e \in R |-> Cardinality(Ahead(R, e)) + 1]
<1>1. n \in Nat
  BY FS_CardinalityType
<1>2. ASSUME NEW e \in R
      PROVE  IsFiniteSet(Ahead(R, e)) /\ Cardinality(Ahead(R, e)) \in Nat /\ f[e] \in 1..n
  <2>1. Ahead(R, e) \in SUBSET R /\ e \notin Ahead(R, e)
    BY BeforeOrders DEF Ahead
  <2>2. /\ IsFiniteSet(Ahead(R, e)) /\ Cardinality(Ahead(R, e)) \in Nat
        /\ Cardinality(Ahead(R, e)) <= n /\ Cardinality(Ahead(R, e)) # n
    BY <2>1, FS_Subset, FS_CardinalityType
  <2>3. f[e] = Cardinality(Ahead(R, e)) + 1
    OBVIOUS
  <2> HIDE DEF f, n
  <2>4. QED
    BY <1>1, <2>2, <2>3
<1>3. ASSUME NEW d \in R, NEW e \in R, Before(d, e)
      PROVE  f[d] # f[e]
  <2>1. Ahead(R, d) \in SUBSET Ahead(R, e)
    BY <1>3, BeforeOrders DEF Ahead
  <2>2. d \in Ahead(R, e) /\ d \notin Ahead(R, d)
    BY <1>3, BeforeOrders DEF Ahead
  <2>3. Cardinality(Ahead(R, d)) # Cardinality(Ahead(R, e))
    BY <1>2, <2>1, <2>2, FS_Subset
  <2>4. QED
    BY <1>2, <2>3
<1>4. \A d, e \in R : f[d] = f[e] => d = e
  <2> SUFFICES ASSUME NEW d \in R, NEW e \in R, d # e PROVE f[d] # f[e]
    OBVIOUS
  <2> HIDE DEF f
  <2>1. QED
    BY <1>3, BeforeOrders
<1>5. \A k \in 1..n : \E e \in R : f[e] = k
  <2>1. f \in [R -> 1..n]
    BY <1>2
  <2>2. f \in Injection(R, 1..n)
    BY <1>4, <2>1 DEF Injection, IsInjective
  <2>3. IsFiniteSet(1..n) /\ Cardinality(1..n) = n
    BY <1>1, FS_Interval
  <2>4. f \in Surjection(R, 1..n)
    BY <2>2, <2>3, FS_Injection
  <2>5. QED
    BY <2>4 DEF Surjection
<1>6. \A e \in R : f[e] = Cardinality(Ahead(R, e)) + 1
  OBVIOUS
<1> HIDE DEF f
<1>7. \A k \in 1..n : \E e \in R : Cardinality(Ahead(R, e)) = k - 1
  <2> SUFFICES ASSUME NEW k \in 1..n PROVE \E e \in R : Cardinality(Ahead(R, e)) = k - 1
    OBVIOUS
  <2>1. PICK e \in R : f[e] = k
    BY <1>5
  <2> HIDE DEF n
  <2>2. Cardinality(Ahead(R, e)) = k - 1
    BY <1>1, <1>2, <1>6, <2>1
  <2>3. QED
    BY <2>2
<1>8. Sorted(R) = [k \in 1..n |-> CHOOSE e \in R : Cardinality(Ahead(R, e)) = k - 1]
  BY DEF Sorted
<1> HIDE DEF n
<1>9. \A k \in 1..n : Sorted(R)[k] \in R /\ Cardinality(Ahead(R, Sorted(R)[k])) = k - 1
  BY <1>7, <1>8
<1>10. DOMAIN Sorted(R) = 1..n
  BY <1>8
<1>11. QED
  BY <1>9, <1>10 DEF n

\* A thread lists the replies there are, each with its number.
LEMMA ThreadIs ==
    ASSUME ViewsInv, NEW r, NEW i \in DOMAIN Thread(r)
    PROVE  /\ Visible(r)
           /\ Thread(r)[i] \in RepliesTo(r)
           /\ i \in Nat /\ Cardinality(Ahead(RepliesTo(r), Thread(r)[i])) = i - 1
<1>1. DOMAIN <<>> = {}
  OBVIOUS
<1>2. Visible(r) /\ Thread(r) = Sorted(RepliesTo(r))
  BY <1>1 DEF Thread
<1>3. Range(replies) = {e \in events : Kind(e) = "reply"} /\ events \subseteq Event /\ IsFiniteSet(events)
  BY IndexesAre DEF ViewsInv, TypeOK, ByTheLogs
<1>4. RepliesTo(r) \in SUBSET Event /\ IsFiniteSet(RepliesTo(r))
  <2>1. RepliesTo(r) \subseteq events
    BY <1>3 DEF RepliesTo
  <2>2. QED
    BY <1>3, <2>1, FS_Subset
<1>5. /\ DOMAIN Sorted(RepliesTo(r)) = 1..Cardinality(RepliesTo(r))
      /\ \A k \in 1..Cardinality(RepliesTo(r)) :
            /\ Sorted(RepliesTo(r))[k] \in RepliesTo(r)
            /\ Cardinality(Ahead(RepliesTo(r), Sorted(RepliesTo(r))[k])) = k - 1
  BY <1>4, SortedIs
<1>6. QED
  BY <1>2, <1>5

-----------------------------------------------------------------------------
(* What may be shown *)

LEMMA VisibleMayBeShown ==
    ASSUME Storing, ViewsInv, NEW e, Visible(e)
    PROVE  MayBeShown(e) /\ AuthorOf[e] \in People
<1>1. /\ events \subseteq Event
      /\ deleted = {t \in events : TakenBack(t)}
      /\ blocks = Standing("block", "unblock")
  BY DEF ViewsInv, TypeOK, IndexesFollowTheLogs
<1>2. /\ e \in events /\ e \notin deleted /\ e \notin filter
      /\ <<Viewer, AuthorOf[e]>> \notin blocks
      /\ AuthorOf[e] = Viewer \/ AuthorOf[e] \notin filter
  BY DEF Visible, Hidden
<1>3. ASSUME NEW f \in LastOf(Viewer, About({"block", "unblock"}, AuthorOf[e])), Kind(f) # "unblock"
      PROVE  FALSE
  <2>1. /\ f \in events /\ AuthorOf[f] = Viewer /\ Target(f) = AuthorOf[e]
        /\ Kind(f) = "block"
    BY <1>3 DEF LastOf, About
  <2>2. f \in LastOf(AuthorOf[f], About({"block", "unblock"}, Target(f)))
    BY <2>1
  <2>3. <<AuthorOf[f], Target(f)>> \in Standing("block", "unblock")
    BY <2>1, <2>2 DEF Standing
  <2>4. QED
    BY <1>1, <1>2, <2>1, <2>3
<1>4. WantedHidden \subseteq filter
  BY DEF ViewsInv, Pushed, WantedHidden, EffectiveFilter
<1>5. MayBeShown(e)
  BY <1>1, <1>2, <1>3, <1>4 DEF MayBeShown
<1>6. AuthorOf[e] \in Author /\ e \in By({AuthorOf[e]})
  BY <1>1, <1>2, ViewsAssumption DEF By
<1>7. AuthorOf[e] \in People
  BY <1>2, <1>6 DEF People, Visible
<1>8. QED
  BY <1>5, <1>7

LEMMA FeedShows ==
    ASSUME NEW S, NEW n, NEW i \in Feed(S, n)
    PROVE  Visible(posts[i]) /\ Visible(Subject(posts[i]))
<1>1. Visible(posts[i]) /\ Hydrate(posts[i])
  BY DEF Feed, Newest
<1>2. QED
  BY <1>1 DEF Hydrate, Subject

LEMMA ShownVisible == \A e \in Shown : Visible(e) /\ Visible(Subject(e))
<1> SUFFICES ASSUME NEW e \in Shown PROVE Visible(e) /\ Visible(Subject(e))
  OBVIOUS
<1>1. \A S, n : \A i \in Feed(S, n) : Visible(posts[i]) /\ Visible(Subject(posts[i]))
  BY FeedShows
<1>2. \A P : Media(P) \subseteq P
  BY DEF Media, Newest
<1>3. PICK i \in UNION ({Global(Limit), Home(Limit), Media(Global(MediaLimit)),
                          Media(Home(MediaLimit))}
                             \cup {ByAuthor(a) : a \in Author} \cup {Search(q) : q \in Query}) :
          e = posts[i]
  BY DEF Shown
<1>4. \E S, n : i \in Feed(S, n)
  <2>1. ASSUME NEW a \in Author, i \in ByAuthor(a)
        PROVE  \E S, n : i \in Feed(S, n)
    BY <2>1 DEF ByAuthor
  <2>2. ASSUME NEW q \in Query, i \in Search(q)
        PROVE  \E S, n : i \in Feed(S, n)
    BY <2>2 DEF Search
  <2>3. CASE i \in Global(Limit) \cup Home(Limit) \cup Global(MediaLimit) \cup Home(MediaLimit)
    BY <2>3 DEF Global, Home
  <2>4. QED
    BY <1>2, <1>3, <2>1, <2>2, <2>3
<1>5. QED
  BY <1>1, <1>3, <1>4

LEMMA HidesWhatItShould == Storing /\ ViewsInv => NothingHiddenShown
<1> SUFFICES ASSUME Storing, ViewsInv PROVE NothingHiddenShown
  OBVIOUS
<1>1. ASSUME NEW e \in Shown
      PROVE  /\ MayBeShown(e) /\ MayBeShown(Subject(e))
             /\ {AuthorOf[e], AuthorOf[Subject(e)]} \subseteq People
  BY ShownVisible, VisibleMayBeShown
<1>2. ASSUME NEW e \in Notifications
      PROVE  AuthorOf[e] \in People
  <2>1. e \in events /\ ~Hidden(AuthorOf[e]) /\ e \in Event
    BY DEF Notifications, ViewsInv, TypeOK
  <2>2. QED
    BY <2>1, ViewsAssumption DEF People, By
<1>3. ASSUME NEW r \in events, NEW i \in DOMAIN Thread(r)
      PROVE  MayBeShown(r) /\ MayBeShown(Thread(r)[i])
  <2>1. Visible(r) /\ Visible(Thread(r)[i])
    BY ThreadIs DEF RepliesTo
  <2>2. QED
    BY <2>1, VisibleMayBeShown
<1>4. QED
  BY <1>1, <1>2, <1>3 DEF NothingHiddenShown

LEMMA OneOrder == ViewsInv => SameOrderEverywhere
<1> SUFFICES ASSUME ViewsInv PROVE SameOrderEverywhere
  OBVIOUS
<1>1. ASSUME NEW i \in 1..(Len(posts) - 1)
      PROVE  Ts(posts[i]) <= Ts(posts[i + 1])
  <2>1. posts \in Seq(events) /\ InTime(posts)
    BY DEF ViewsInv, TypeOK
  <2>2. i \in DOMAIN posts /\ i + 1 \in DOMAIN posts /\ i <= i + 1
    BY <2>1
  <2>3. QED
    BY <2>1, <2>2 DEF InTime
<1>2. ASSUME NEW r \in events, NEW i \in DOMAIN Thread(r)
      PROVE  i = 1 +
               Cardinality({e \in events : /\ Kind(e) = "reply" /\ Body[e].root = r
                                           /\ Visible(e) /\ Before(e, Thread(r)[i])})
  <2>1. Range(replies) = {e \in events : Kind(e) = "reply"}
    BY DEF ViewsInv, IndexesFollowTheLogs
  <2> DEFINE earlier == {e \in events : /\ Kind(e) = "reply" /\ Body[e].root = r
                                         /\ Visible(e) /\ Before(e, Thread(r)[i])}
  <2>2. earlier = Ahead(RepliesTo(r), Thread(r)[i])
    BY <2>1 DEF Ahead, RepliesTo
  <2>3. i \in Nat /\ Cardinality(Ahead(RepliesTo(r), Thread(r)[i])) = i - 1
    BY ThreadIs
  <2> HIDE DEF earlier
  <2>4. i = 1 + Cardinality(earlier)
    BY <2>2, <2>3
  <2>5. QED
    BY <2>4 DEF earlier
<1>3. QED
  BY <1>1, <1>2 DEF SameOrderEverywhere

-----------------------------------------------------------------------------
(* The theorems *)

(***************************************************************************)
(* The lists of posts, threads and replies only hold events that were      *)
(* applied, and so do the tombstones and the profiles: #apply records an   *)
(* event before it indexes it (store.js:166-231).                          *)
(***************************************************************************)
THEOREM ViewsTypes == Spec => []TypeOK
<1>1. ViewsInv => TypeOK
  BY DEF ViewsInv
<1>2. QED
  BY <1>1, ViewsAlways, PTL

(***************************************************************************)
(* Whatever order the authors are heard in, the indexes are functions of   *)
(* the set of events: the last word of an author about a vote, a follow,   *)
(* a block or a profile stands, and a deletion holds when it is its        *)
(* author's, before or after what it names (store.js:166-249).  Two        *)
(* replicas with the same events, and one replica before and after a       *)
(* restart, have the same.                                                 *)
(***************************************************************************)
THEOREM ViewsFollowTheLogs == Spec => []IndexesFollowTheLogs
<1>1. ViewsInv => IndexesFollowTheLogs
  BY DEF ViewsInv
<1>2. QED
  BY <1>1, ViewsAlways, PTL

(***************************************************************************)
(* While localStorage takes writes, no feed, search or thread has a card   *)
(* for an event its author has taken back, one the user hid or the list    *)
(* the user follows names, or one of a person hidden, blocked or listed,   *)
(* by itself or through a repost, for feeds of any length - however        *)
(* reports, resets and refreshes of the list overlap; and no notification  *)
(* comes from someone who is not among the people                          *)
(* (timeline.js:25-46, 74-99, 151-158, 185-233, moderation.js:50-111).     *)
(***************************************************************************)
THEOREM HiddenStaysHidden == Storing /\ Spec => []NothingHiddenShown
<1> SUFFICES ASSUME Storing PROVE Spec => []NothingHiddenShown
  OBVIOUS
<1>1. ViewsInv => NothingHiddenShown
  BY HidesWhatItShould
<1>2. QED
  BY <1>1, ViewsAlways, PTL

(***************************************************************************)
(* The posts are by time, though they are inserted one by one in any order *)
(* (store.js:239-249), and a reply's number in its thread is the number of *)
(* visible replies before it, on every replica (timeline.js:151-158).      *)
(***************************************************************************)
THEOREM OrderIsShared == Spec => []SameOrderEverywhere
<1>1. QED
  BY OneOrder, ViewsAlways, PTL
=============================================================================
