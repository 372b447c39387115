---------------------------- MODULE BlobsProofs ----------------------------
(***************************************************************************)
(* Theorems about Blobs, for any media, any peers, any ceilings and any    *)
(* number of calls, faults and dropped connections.                        *)
(***************************************************************************)
EXTENDS Blobs, FiniteSetTheorems, WellFoundedInduction, TLAPS

-----------------------------------------------------------------------------
(* The first of some positions, and the first n of them *)

LEMMA LeastExists ==
    ASSUME NEW D, D \subseteq Nat, D # {}
    PROVE  \E i \in D : \A j \in D : i <= j
<1>1. IsWellFoundedOn(OpToRel(<, Nat), Nat)
  BY NatLessThanWellFounded
<1>2. PICK i \in D : \A j \in D : ~(<<j, i>> \in OpToRel(<, Nat))
  BY <1>1, WFMin
<1>3. \A j \in D : ~(j < i)
  BY <1>2 DEF OpToRel
<1>4. QED
  BY <1>3

LEMMA FirstFew ==
    ASSUME NEW D, D \subseteq Nat, IsFiniteSet(D), NEW n \in Nat
    PROVE  LET few == {j \in D : Cardinality({k \in D : k < j}) < n}
           IN  IsFiniteSet(few) /\ Cardinality(few) <= n
<1> DEFINE Ahead(j) == {k \in D : k < j}
           few == {j \in D : Cardinality(Ahead(j)) < n}
           f == [j \in few |-> Cardinality(Ahead(j))]
<1>1. \A j \in D : IsFiniteSet(Ahead(j)) /\ Cardinality(Ahead(j)) \in Nat
  <2>1. \A j \in D : Ahead(j) \in SUBSET D
    OBVIOUS
  <2> HIDE DEF Ahead
  <2>2. QED
    BY <2>1, FS_Subset, FS_CardinalityType
<1>2. ASSUME NEW i \in few, NEW j \in few, i < j PROVE Cardinality(Ahead(i)) # Cardinality(Ahead(j))
  <2>0. {i, j} \subseteq Nat
    OBVIOUS
  <2>1. Ahead(i) \in SUBSET Ahead(j)
    <3> SUFFICES ASSUME NEW k \in D, k < i PROVE k < j
      OBVIOUS
    <3>1. k \in Nat
      OBVIOUS
    <3> HIDE DEF few
    <3>2. QED
      BY <1>2, <2>0, <3>1
  <2>2. i \in Ahead(j) /\ i \notin Ahead(i)
    BY <1>2
  <2>3. IsFiniteSet(Ahead(j))
    BY <1>1
  <2> HIDE DEF Ahead
  <2>4. QED
    BY <2>1, <2>2, <2>3, FS_Subset
<1>3. few \subseteq Nat
  OBVIOUS
<1>4. \A i, j \in few : f[i] = f[j] => i = j
  <2> SUFFICES ASSUME NEW i \in few, NEW j \in few, i # j PROVE f[i] # f[j]
    OBVIOUS
  <2>1. CASE i < j
    BY <1>2, <2>1
  <2>2. CASE j < i
    BY <1>2, <2>2
  <2>3. i < j \/ j < i
    BY <1>3
  <2>4. QED
    BY <2>1, <2>2, <2>3
<1>5. f \in [few -> 0..(n - 1)]
  <2>1. \A j \in few : j \in D /\ Cardinality(Ahead(j)) < n
    OBVIOUS
  <2>2. \A j \in few : Cardinality(Ahead(j)) \in 0..(n - 1)
    <3> SUFFICES ASSUME NEW j \in few PROVE Cardinality(Ahead(j)) \in 0..(n - 1)
      OBVIOUS
    <3>1. j \in D /\ Cardinality(Ahead(j)) < n
      BY <2>1
    <3>2. Cardinality(Ahead(j)) \in Nat
      BY <1>1, <3>1
    <3> HIDE DEF Ahead, few
    <3>3. QED
      BY <3>1, <3>2
  <2>3. QED
    BY <2>2
<1>6. f \in Injection(few, 0..(n - 1))
  BY <1>4, <1>5 DEF Injection, IsInjective
<1>7. IsFiniteSet(0..(n - 1)) /\ Cardinality(0..(n - 1)) = n
  BY FS_Interval
<1>8. IsFiniteSet(few) /\ Cardinality(few) <= Cardinality(0..(n - 1))
  BY <1>6, <1>7, FS_Injection
<1>9. QED
  BY <1>7, <1>8

LEMMA ElementsAreFinite ==
    ASSUME NEW S, NEW q \in Seq(S)
    PROVE  /\ IsFiniteSet(DOMAIN q) /\ DOMAIN q \subseteq Nat
           /\ IsFiniteSet(ToSet(q)) /\ ToSet(q) \subseteq S
<1>1. DOMAIN q = 1..Len(q) /\ IsFiniteSet(1..Len(q))
  BY FS_Interval
<1>2. q \in Surjection(DOMAIN q, ToSet(q))
  BY DEF Surjection, ToSet
<1>3. IsFiniteSet(ToSet(q))
  BY <1>1, <1>2, FS_Surjection
<1>4. QED
  BY <1>1, <1>3 DEF ToSet

LEMMA ImageOfFew ==
    ASSUME NEW q, NEW I, I \subseteq DOMAIN q, IsFiniteSet(I)
    PROVE  LET T == {q[i] : i \in I}
           IN  IsFiniteSet(T) /\ Cardinality(T) <= Cardinality(I)
<1> DEFINE T == {q[i] : i \in I}
           f == [i \in I |-> q[i]]
<1>1. f \in Surjection(I, T)
  BY DEF Surjection
<1>2. QED
  BY <1>1, FS_Surjection

-----------------------------------------------------------------------------
(* The operators the actions are built from *)

LEMMA WithoutIs ==
    ASSUME NEW q \in Seq(Blob), IsInjective(q), NEW b \in ToSet(q)
    PROVE  /\ Without(q, b) \in Seq(Blob) /\ IsInjective(Without(q, b))
           /\ ToSet(Without(q, b)) = ToSet(q) \ {b}
           /\ Len(Without(q, b)) <= Len(q)
<1> DEFINE i == CHOOSE k \in DOMAIN q : q[k] = b
           l == SubSeq(q, 1, i - 1)
           r == SubSeq(q, i + 1, Len(q))
           s == l \o r
<1>1. i \in 1..Len(q) /\ q[i] = b /\ Len(q) \in Nat
  BY DEF ToSet
<1>2. Without(q, b) = s
  BY DEF Without, RemoveAt
<1> HIDE DEF i
<1>3. l \in Seq(Blob) /\ Len(l) = i - 1 /\ \A k \in 1..(i - 1) : l[k] = q[k]
  BY <1>1
<1>4. r \in Seq(Blob) /\ Len(r) = Len(q) - i /\ \A k \in 1..(Len(q) - i) : r[k] = q[i + k]
  BY <1>1
<1> HIDE DEF l, r
<1>5. s \in Seq(Blob) /\ Len(s) = Len(q) - 1 /\ DOMAIN s = 1..(Len(q) - 1)
  <2>1. s \in Seq(Blob) /\ Len(s) = Len(l) + Len(r)
    BY <1>3, <1>4
  <2>2. Len(l) + Len(r) = Len(q) - 1
    BY <1>1, <1>3, <1>4
  <2>3. QED
    BY <2>1, <2>2
<1>6. ASSUME NEW k \in DOMAIN s
      PROVE  /\ k \in DOMAIN q /\ k + 1 \in DOMAIN q
             /\ s[k] = IF k < i THEN q[k] ELSE q[k + 1]
  <2>0. k \in 1..(Len(q) - 1)
    BY <1>5
  <2>1. k \in DOMAIN q /\ k + 1 \in DOMAIN q
    BY <1>1, <2>0
  <2>2. CASE k < i
    BY <1>1, <1>3, <1>4, <2>0, <2>1, <2>2
  <2>3. CASE ~(k < i)
    <3>0. i \in Nat /\ Len(q) \in Nat /\ k \in Nat /\ i <= k /\ k <= Len(q) - 1
      BY <1>1, <2>0, <2>3
    <3>1. k - (i - 1) \in 1..(Len(q) - i) /\ i + (k - (i - 1)) = k + 1
      BY <3>0
    <3>2. s[k] = r[k - Len(l)]
      <4>1. k \in 1..(Len(l) + Len(r)) /\ ~(k <= Len(l))
        BY <1>3, <1>4, <3>0
      <4>2. QED
        BY <1>3, <1>4, <4>1
    <3>3. s[k] = q[k + 1]
      BY <1>3, <1>4, <3>1, <3>2
    <3>4. QED
      BY <2>1, <2>3, <3>3
  <2>4. QED
    BY <2>2, <2>3
<1> HIDE DEF s
<1>7. IsInjective(s)
  <2> SUFFICES ASSUME NEW j \in DOMAIN s, NEW k \in DOMAIN s, s[j] = s[k] PROVE j = k
    BY DEF IsInjective
  <2>1. j \in Nat /\ k \in Nat
    BY <1>5
  <2>2. QED
    BY <1>1, <1>6, <2>1 DEF IsInjective
<1>8. ToSet(s) \subseteq ToSet(q) \ {b}
  <2> SUFFICES ASSUME NEW k \in DOMAIN s PROVE s[k] \in ToSet(q) \ {b}
    BY DEF ToSet
  <2>1. k \in Nat /\ i \in DOMAIN q
    BY <1>1, <1>5
  <2>2. PICK j \in DOMAIN q : s[k] = q[j] /\ j # i
    BY <1>1, <1>6, <2>1
  <2>3. q[j] # q[i]
    BY <2>1, <2>2 DEF IsInjective
  <2>4. QED
    BY <1>1, <2>2, <2>3 DEF ToSet
<1>9. ToSet(q) \ {b} \subseteq ToSet(s)
  <2> SUFFICES ASSUME NEW k \in 1..Len(q), k # i PROVE \E j \in DOMAIN s : s[j] = q[k]
    BY <1>1 DEF ToSet
  <2>1. CASE k < i
    <3>1. k \in DOMAIN s
      BY <1>1, <1>5, <2>1
    <3>2. QED
      BY <1>6, <2>1, <3>1
  <2>2. CASE i < k
    <3>1. k - 1 \in DOMAIN s /\ ~(k - 1 < i) /\ (k - 1) + 1 = k
      BY <1>1, <1>5, <2>2
    <3>2. QED
      BY <1>6, <3>1
  <2>3. k < i \/ i < k
    BY <1>1
  <2>4. QED
    BY <2>1, <2>2, <2>3
<1>10. QED
  BY <1>1, <1>2, <1>5, <1>7, <1>8, <1>9

LEMMA WantAnywayIs ==
    ASSUME NEW b \in Blob, wanted \in Seq(Blob), IsInjective(wanted)
    PROVE  /\ WantAnyway(b) \in Seq(Blob) /\ IsInjective(WantAnyway(b))
           /\ ToSet(WantAnyway(b)) = ToSet(wanted) \cup {b}
           /\ Len(WantAnyway(b)) <= Len(wanted) + 1
<1>1. CASE b \in ToSet(wanted)
  BY <1>1 DEF WantAnyway
<1>2. CASE b \notin ToSet(wanted)
  <2> DEFINE w == Append(wanted, b)
  <2>1. /\ w \in Seq(Blob) /\ Len(w) = Len(wanted) + 1 /\ w[Len(wanted) + 1] = b
        /\ \A i \in 1..Len(wanted) : w[i] = wanted[i]
    OBVIOUS
  <2> HIDE DEF w
  <2>2. \A i \in 1..Len(wanted) : wanted[i] # b
    BY <1>2 DEF ToSet
  <2>3. IsInjective(w)
    BY <2>1, <2>2 DEF IsInjective
  <2>4. ToSet(w) = ToSet(wanted) \cup {b}
    <3>1. \A i \in 1..(Len(wanted) + 1) : i \in 1..Len(wanted) \/ i = Len(wanted) + 1
      OBVIOUS
    <3>2. DOMAIN w = 1..(Len(wanted) + 1) /\ DOMAIN wanted = 1..Len(wanted)
      BY <2>1
    <3>3. 1..Len(wanted) \subseteq 1..(Len(wanted) + 1) /\ Len(wanted) + 1 \in 1..(Len(wanted) + 1)
      OBVIOUS
    <3>4. QED
      BY <2>1, <3>1, <3>2, <3>3 DEF ToSet
  <2>5. QED
    BY <1>2, <2>1, <2>3, <2>4 DEF WantAnyway, w
<1>3. QED
  BY <1>1, <1>2

LEMMA LookIs ==
    ASSUME NEW at \in Nat, NEW refs \in Seq(Blob), NEW w, NEW found,
           ToSet(refs) \ ToSet(w) # {}
    PROVE  /\ Look(at, refs, w, found) \in Scan
           /\ Look(at, refs, w, found).blob \in Blob
           /\ Look(at, refs, w, found).at = at
           /\ ToSet(refs) \subseteq ToSet(w) \cup {Look(at, refs, w, found).blob}
                                    \cup ToSet(Look(at, refs, w, found).refs)
           /\ Look(at, refs, w, found).found => Look(at, refs, w, found).blob \in found
<1> DEFINE P(k) == refs[k] \notin ToSet(w) /\ \A j \in 1..(k - 1) : refs[j] \in ToSet(w)
           i == CHOOSE k \in DOMAIN refs : P(k)
           rest == SubSeq(refs, i + 1, Len(refs))
<1>1. \E k \in DOMAIN refs : P(k)
  <2> DEFINE D == {k \in DOMAIN refs : refs[k] \notin ToSet(w)}
  <2>1. D \subseteq Nat /\ D # {}
    BY DEF ToSet
  <2>2. PICK k \in D : \A j \in D : k <= j
    BY <2>1, LeastExists
  <2>3. \A j \in 1..(k - 1) : j \in DOMAIN refs /\ ~(k <= j)
    BY <2>1, <2>2
  <2>4. \A j \in 1..(k - 1) : refs[j] \in ToSet(w)
    BY <2>2, <2>3
  <2>5. QED
    BY <2>2, <2>4
<1>2. i \in 1..Len(refs) /\ P(i)
  BY <1>1
<1>3. Look(at, refs, w, found) =
        [at |-> at, refs |-> rest, blob |-> refs[i], found |-> refs[i] \in found]
  BY DEF Look
<1> HIDE DEF i
<1>4. rest \in Seq(Blob) /\ refs[i] \in Blob
  BY <1>2
<1>5. \A k \in DOMAIN refs : refs[k] \in ToSet(w) \cup {refs[i]} \cup ToSet(rest)
  <2> SUFFICES ASSUME NEW k \in 1..Len(refs), i < k PROVE refs[k] \in ToSet(rest)
    BY <1>2
  <2>1. /\ Len(rest) = Len(refs) - i
        /\ \A j \in 1..(Len(refs) - i) : rest[j] = refs[i + j]
    BY <1>2
  <2>2. k - i \in 1..(Len(refs) - i) /\ i + (k - i) = k
    BY <1>2
  <2> HIDE DEF rest
  <2>3. k - i \in DOMAIN rest /\ rest[k - i] = refs[k]
    BY <1>4, <2>1, <2>2
  <2>4. QED
    BY <2>3 DEF ToSet
<1> HIDE DEF rest
<1>6. ToSet(refs) \subseteq ToSet(w) \cup {refs[i]} \cup ToSet(rest)
  <2> SUFFICES ASSUME NEW x \in ToSet(refs) PROVE x \in ToSet(w) \cup {refs[i]} \cup ToSet(rest)
    OBVIOUS
  <2>1. PICK k \in DOMAIN refs : x = refs[k]
    BY DEF ToSet
  <2>2. QED
    BY <1>5, <2>1
<1> DEFINE s == [at |-> at, refs |-> rest, blob |-> refs[i], found |-> refs[i] \in found]
<1>7. s \in Scan
  BY <1>4 DEF Scan
<1>8. s.at = at /\ s.refs = rest /\ s.blob = refs[i] /\ (s.found => refs[i] \in found)
  OBVIOUS
<1> HIDE DEF s
<1>9. Look(at, refs, w, found) = s
  BY <1>3 DEF s
<1>10. QED
  BY <1>4, <1>6, <1>7, <1>8, <1>9

\* What has a slot, and what there is room for.
LEMMA SlotsAreFew ==
    ASSUME TypeOK
    PROVE  /\ IsFiniteSet(InFlight) /\ Cardinality(InFlight) \in Nat
           /\ Room \in Nat /\ Room = MaxConcurrent - Cardinality(InFlight)
           /\ MaxConcurrent \in Nat \ {0}
<1>1. IsFiniteSet(ToSet(wanted))
  BY ElementsAreFinite DEF TypeOK
<1>2. IsFiniteSet(InFlight)
  BY <1>1, FS_Subset DEF TypeOK
<1>3. Cardinality(InFlight) \in Nat /\ MaxConcurrent \in Nat \ {0}
  BY <1>2, FS_CardinalityType, BlobsAssumption
<1>4. QED
  BY <1>2, <1>3 DEF TypeOK, Room

LEMMA DueAreFinite ==
    ASSUME NEW w \in Seq(Blob), NEW r
    PROVE  Due(w, r) \subseteq DOMAIN w /\ Due(w, r) \subseteq Nat /\ IsFiniteSet(Due(w, r))
<1>1. Due(w, r) \in SUBSET DOMAIN w
  BY DEF Due
<1>2. QED
  BY <1>1, ElementsAreFinite, FS_Subset

LEMMA DrainTypes ==
    ASSUME TypeOK, NEW w \in Seq(Blob), InFlight \subseteq ToSet(w), NEW r,
           NEW peers \in SUBSET Peer, Drain(w, r, peers)
    PROVE  /\ fetch' \in [Blob -> {"no", "asking", "storing"}]
           /\ asked' \in [Blob -> SUBSET Peer]
           /\ InFlight' \subseteq ToSet(w)
           /\ Cardinality(InFlight') <= MaxConcurrent
           /\ timer' \in {"off", "later"} /\ looked' \subseteq Peer
<1> DEFINE few == {j \in Due(w, r) : Cardinality({k \in Due(w, r) : k < j}) < Room}
           start == {w[i] : i \in few}
<1>0. looked' \subseteq Peer
  BY DEF Drain
<1>1. CASE UNCHANGED fetchVars /\ timer' = "off"
  <2>1. InFlight' = InFlight
    BY <1>1 DEF InFlight, fetchVars
  <2>2. QED
    BY <1>0, <1>1, <2>1 DEF TypeOK, fetchVars
<1>2. CASE /\ fetch' = [b \in Blob |-> IF b \in start THEN "asking" ELSE fetch[b]]
           /\ asked' = [b \in Blob |-> IF b \in start THEN peers ELSE asked[b]]
           /\ timer' \in {"off", "later"}
  <2>1. IsFiniteSet(few) /\ Cardinality(few) <= Room /\ few \subseteq DOMAIN w
    BY DueAreFinite, SlotsAreFew, FirstFew
  <2>2. IsFiniteSet(start) /\ Cardinality(start) <= Cardinality(few) /\ start \subseteq ToSet(w)
    BY <2>1, ImageOfFew DEF ToSet
  <2>3. ToSet(w) \subseteq Blob
    BY ElementsAreFinite
  <2> HIDE DEF start, few
  <2>4. InFlight' = InFlight \cup start
    BY <1>2, <2>2, <2>3 DEF InFlight
  <2>5. Cardinality(InFlight \cup start) <= MaxConcurrent
    <3>1. /\ IsFiniteSet(InFlight \cap start)
          /\ Cardinality(InFlight \cup start)
               = Cardinality(InFlight) + Cardinality(start) - Cardinality(InFlight \cap start)
      BY <2>2, SlotsAreFew, FS_Union, FS_Intersection
    <3>2. /\ Cardinality(InFlight \cap start) \in Nat /\ Cardinality(start) \in Nat
          /\ Cardinality(few) \in Nat
      BY <2>1, <2>2, <3>1, FS_CardinalityType
    <3>3. QED
      BY <2>1, <2>2, <3>1, <3>2, SlotsAreFew
  <2>6. QED
    BY <1>0, <1>2, <2>2, <2>4, <2>5 DEF TypeOK
<1>3. QED
  BY <1>1, <1>2 DEF Drain

\* With something wanted and somebody to ask, drain leaves a timer or a fetch.
LEMMA DrainAwake ==
    ASSUME TypeOK, NEW w \in Seq(Blob), w # <<>>, NEW r, NEW peers, peers # {},
           Drain(w, r, peers)
    PROVE  timer' # "off" \/ InFlight' # {}
<1> DEFINE Ahead(i) == Cardinality({j \in Due(w, r) : j < i})
           start == {w[i] : i \in {j \in Due(w, r) : Ahead(j) < Room}}
           walked == {w[i] : i \in {j \in DOMAIN w : Ahead(j) <= Room}}
<1>1. /\ timer' = IF (walked \cap r) \ InFlight # {} THEN "later" ELSE "off"
      /\ fetch' = [b \in Blob |-> IF b \in start THEN "asking" ELSE fetch[b]]
  BY DEF Drain
<1>2. Cardinality({}) = 0
  BY FS_EmptySet
<1>3. \A i \in DOMAIN w : w[i] \in Blob
  OBVIOUS
<1>4. CASE InFlight # {}
  <2>1. PICK b \in Blob : fetch[b] # "no"
    BY <1>4 DEF InFlight
  <2>2. fetch'[b] # "no"
    BY <1>1, <2>1
  <2>3. QED
    BY <2>2 DEF InFlight
<1>5. CASE InFlight = {} /\ Due(w, r) # {}
  <2>1. PICK i \in Due(w, r) : \A j \in Due(w, r) : i <= j
    BY <1>5, DueAreFinite, LeastExists
  <2>2. {j \in Due(w, r) : j < i} = {}
    BY <2>1, DueAreFinite
  <2>3. Room > 0
    BY <1>2, <1>5, SlotsAreFew
  <2>4. w[i] \in start
    BY <1>2, <2>2, <2>3
  <2>5. w[i] \in Blob
    BY <1>3, DueAreFinite
  <2> HIDE DEF start
  <2>6. fetch'[w[i]] # "no"
    BY <1>1, <2>4, <2>5
  <2>7. QED
    BY <2>5, <2>6 DEF InFlight
<1>6. CASE InFlight = {} /\ Due(w, r) = {}
  <2>1. 1 \in DOMAIN w
    OBVIOUS
  <2>2. fetch[w[1]] = "no"
    BY <1>3, <1>6, <2>1 DEF InFlight
  <2>3. w[1] \in r
    BY <1>6, <2>1, <2>2 DEF Due
  <2>4. {j \in Due(w, r) : j < 1} = {}
    BY <1>6
  <2>5. w[1] \in walked
    <3>1. Ahead(1) = 0
      BY <1>2, <2>4
    <3>2. Room \in Nat
      BY SlotsAreFew
    <3> HIDE DEF Ahead
    <3>3. QED
      BY <2>1, <3>1, <3>2
  <2> HIDE DEF walked
  <2>6. QED
    BY <1>1, <1>6, <2>3, <2>5
<1>7. QED
  BY <1>4, <1>5, <1>6

FetcherOK ==
    /\ wanted \in Seq(Blob) /\ IsInjective(wanted) /\ resting \subseteq ToSet(wanted)
    /\ fetch \in [Blob -> {"no", "asking", "storing"}] /\ asked \in [Blob -> SUBSET Peer]
    /\ InFlight \subseteq ToSet(wanted) /\ Cardinality(InFlight) <= MaxConcurrent
    /\ timer \in {"off", "soon", "later"} /\ looked \subseteq Peer
    /\ scans \in [Calls -> Scan] /\ dropped \subseteq Blob

LEMMA ConsiderTypes ==
    ASSUME TypeOK, NEW i \in Calls, NEW at \in Nat, NEW refs \in Seq(Blob),
           NEW w \in Seq(Blob), IsInjective(w), ToSet(wanted) \subseteq ToSet(w),
           NEW r, r \subseteq ToSet(w), Consider(i, at, refs, w, r, connected)
    PROVE  FetcherOK'
<1>1. wanted' = w /\ resting' = r
  BY DEF Consider
<1>2. InFlight \subseteq ToSet(w)
  BY DEF TypeOK
<1>3. CASE /\ ToSet(refs) \ ToSet(w) # {}
           /\ scans' = [scans EXCEPT ![i] = Look(at, refs, w, Found)]
           /\ UNCHANGED <<fetchVars, timer, looked, dropped>>
  <2>1. Look(at, refs, w, Found) \in Scan
    BY <1>3, LookIs
  <2>2. scans' \in [Calls -> Scan]
    BY <1>3, <2>1 DEF TypeOK
  <2>3. InFlight' = InFlight
    BY <1>3 DEF InFlight, fetchVars
  <2>4. QED
    BY <1>1, <1>2, <1>3, <2>2, <2>3 DEF TypeOK, FetcherOK, fetchVars
<1>4. CASE /\ scans' = [scans EXCEPT ![i] = Between(at)]
           /\ dropped' = dropped \cup (ToSet(refs) \ ToSet(w))
           /\ Drain(w, r, Askable(connected, participants))
  <2>1. Between(at) \in Scan
    BY DEF Between, Scan
  <2>2. Askable(connected, participants) \in SUBSET Peer
    BY DEF Askable, TypeOK
  <2>3. ToSet(refs) \subseteq Blob
    BY ElementsAreFinite
  <2>4. scans' \in [Calls -> Scan] /\ dropped' \subseteq Blob
    BY <1>4, <2>1, <2>3 DEF TypeOK
  <2>5. /\ fetch' \in [Blob -> {"no", "asking", "storing"}]
        /\ asked' \in [Blob -> SUBSET Peer]
        /\ InFlight' \subseteq ToSet(w) /\ Cardinality(InFlight') <= MaxConcurrent
        /\ timer' \in {"off", "later"} /\ looked' \subseteq Peer
    BY <1>2, <1>4, <2>2, DrainTypes
  <2>6. QED
    BY <1>1, <2>4, <2>5 DEF FetcherOK
<1>5. QED
  BY <1>3, <1>4 DEF Consider

-----------------------------------------------------------------------------
(* Types *)

LEMMA TypesInit == Init => TypeOK
<1> SUFFICES ASSUME Init PROVE TypeOK
  OBVIOUS
<1>1. known \in Seq(Event) /\ Len(known) <= MaxScans
  <2>1. PICK n \in 0..MaxScans : known \in [1..n -> Event]
    BY DEF Init
  <2>2. QED
    BY <2>1, BlobsAssumption
<1>2. wanted \in Seq(Blob) /\ IsInjective(wanted)
  BY DEF Init, IsInjective
<1>3. InFlight = {}
  BY DEF Init, InFlight
<1>4. Cardinality(InFlight) <= MaxConcurrent
  BY <1>3, FS_EmptySet, BlobsAssumption
<1>5. scans \in [Calls -> Scan]
  <2>1. NoCall \in Scan
    BY DEF NoCall, Between, Scan
  <2>2. ASSUME NEW i \in DOMAIN known PROVE Look(0, Media[known[i]], <<>>, held) \in Scan
    <3>1. known[i] \in Event /\ Media[known[i]] \in Seq(Blob) /\ Media[known[i]] # <<>>
      BY <1>1, BlobsAssumption
    <3>2. Media[known[i]][1] \in ToSet(Media[known[i]])
      BY <3>1 DEF ToSet
    <3>3. ToSet(<<>>) = {}
      BY DEF ToSet
    <3>4. QED
      BY <3>1, <3>2, <3>3, LookIs
  <2>3. QED
    BY <2>1, <2>2 DEF Init, StartScans
<1>6. held \subseteq Blob /\ cache \subseteq Blob /\ dropped \subseteq Blob
  BY DEF Init
<1>7. QED
  BY <1>1, <1>2, <1>3, <1>4, <1>5, <1>6 DEF Init, TypeOK

LEMMA TypesNext == TypeOK /\ [Next]_vars => TypeOK'
<1> SUFFICES ASSUME TypeOK, [Next]_vars PROVE TypeOK'
  OBVIOUS
<1> USE BlobsAssumption
<1>1. ASSUME NEW e \in Event, EventStored(e) PROVE TypeOK'
  <2>1. PICK i \in Calls : Consider(i, 0, Media[e], wanted, resting, connected)
    BY <1>1 DEF EventStored
  <2>2. Media[e] \in Seq(Blob) /\ known' \in Seq(Event)
    BY <1>1 DEF EventStored, TypeOK
  <2>3. UNCHANGED <<held, cache, peerVars>>
    BY <1>1 DEF EventStored
  <2>4. FetcherOK'
    BY <2>1, <2>2, ConsiderTypes DEF TypeOK
  <2>5. QED
    BY <2>2, <2>3, <2>4 DEF TypeOK, FetcherOK, peerVars
<1>2. ASSUME NEW b \in Blob, Attach(b) PROVE TypeOK'
  <2>1. held' \subseteq Blob /\ cache' \subseteq Blob
    BY <1>2 DEF Attach, PutBlob, Persist, TypeOK
  <2>2. UNCHANGED <<known, peerVars, wanted, resting, fetchVars, timer, looked, scans, dropped>>
    BY <1>2 DEF Attach, PutBlob, Persist
  <2>3. InFlight' = InFlight
    BY <2>2 DEF InFlight, fetchVars
  <2>4. QED
    BY <2>1, <2>2, <2>3 DEF TypeOK, FetcherOK, peerVars, fetchVars
<1>3. ASSUME NEW i \in Calls, Considered(i) PROVE TypeOK'
  <2> DEFINE s == scans[i]
  <2>1. s \in Scan /\ s.at \in Nat /\ s.refs \in Seq(Blob) /\ s.blob \in Blob
    BY <1>3 DEF Considered, TypeOK, Scan
  <2>2. UNCHANGED <<known, held, peerVars>>
    BY <1>3 DEF Considered
  <2>3. CASE cache' = cache \cup {s.blob} /\ Consider(i, s.at, s.refs, wanted, resting, connected)
    <3>1. FetcherOK'
      BY <2>1, <2>3, ConsiderTypes DEF TypeOK
    <3>2. cache' \subseteq Blob
      BY <2>1, <2>3 DEF TypeOK
    <3>3. QED
      BY <2>2, <3>1, <3>2 DEF TypeOK, FetcherOK, peerVars
  <2>4. CASE /\ Consider(i, s.at, s.refs, WantAnyway(s.blob), resting \ {s.blob}, connected)
             /\ UNCHANGED cache
    <3>1. /\ WantAnyway(s.blob) \in Seq(Blob) /\ IsInjective(WantAnyway(s.blob))
          /\ ToSet(WantAnyway(s.blob)) = ToSet(wanted) \cup {s.blob}
      BY <2>1, WantAnywayIs DEF TypeOK
    <3>2. FetcherOK'
      <4> DEFINE w == WantAnyway(s.blob)
                 r == resting \ {s.blob}
      <4>1. /\ w \in Seq(Blob) /\ IsInjective(w) /\ r \subseteq ToSet(w)
            /\ ToSet(wanted) \subseteq ToSet(w)
        BY <3>1 DEF TypeOK
      <4>2. Consider(i, s.at, s.refs, w, r, connected)
        BY <2>4
      <4> HIDE DEF w, r, s
      <4>3. QED
        BY <2>1, <4>1, <4>2, ConsiderTypes
    <3>3. QED
      BY <2>2, <2>4, <3>2 DEF TypeOK, FetcherOK, peerVars
  <2>5. QED
    BY <1>3, <2>3, <2>4 DEF Considered
<1>4. ASSUME NEW i \in Calls, RescanNext(i) PROVE TypeOK'
  <2> DEFINE s == scans[i]
  <2>1. s \in Scan /\ s.at \in Nat \ {0}
    BY <1>4 DEF RescanNext, TypeOK, Scan
  <2>2. UNCHANGED <<storeVars, peerVars>>
    BY <1>4 DEF RescanNext
  <2>3. CASE s.at <= Len(known) /\ Consider(i, s.at + 1, Media[known[s.at]], wanted, resting, connected)
    <3>1. known[s.at] \in Event /\ Media[known[s.at]] \in Seq(Blob) /\ s.at + 1 \in Nat
      BY <2>1, <2>3 DEF TypeOK
    <3>2. FetcherOK'
      <4>1. /\ wanted \in Seq(Blob) /\ IsInjective(wanted) /\ resting \subseteq ToSet(wanted)
            /\ ToSet(wanted) \subseteq ToSet(wanted)
        BY DEF TypeOK
      <4> DEFINE at == s.at + 1
                 refs == Media[known[s.at]]
      <4>2. at \in Nat /\ refs \in Seq(Blob) /\ Consider(i, at, refs, wanted, resting, connected)
        BY <2>3, <3>1
      <4> HIDE DEF at, refs, s
      <4>3. QED
        BY <4>1, <4>2, ConsiderTypes
    <3>3. QED
      BY <2>2, <3>2 DEF TypeOK, FetcherOK, storeVars, peerVars
  <2>4. CASE /\ scans' = [scans EXCEPT ![i] = NoCall]
             /\ Drain(wanted, resting, Askable(connected, participants))
             /\ UNCHANGED <<wanted, resting, dropped>>
    <3>1. Askable(connected, participants) \in SUBSET Peer
      BY DEF Askable, TypeOK
    <3>2. /\ fetch' \in [Blob -> {"no", "asking", "storing"}]
          /\ asked' \in [Blob -> SUBSET Peer]
          /\ InFlight' \subseteq ToSet(wanted) /\ Cardinality(InFlight') <= MaxConcurrent
          /\ timer' \in {"off", "later"} /\ looked' \subseteq Peer
      BY <2>4, <3>1, DrainTypes DEF TypeOK
    <3>3. scans' \in [Calls -> Scan]
      BY <2>4 DEF TypeOK, NoCall, Between, Scan
    <3>4. QED
      BY <2>2, <2>4, <3>2, <3>3 DEF TypeOK, FetcherOK, storeVars, peerVars
  <2>5. QED
    BY <1>4, <2>3, <2>4 DEF RescanNext
<1>5. ASSUME NEW p \in Peer, Connect(p) \/ Identify(p) \/ Disconnect(p) PROVE TypeOK'
  <2>1. InFlight' = InFlight
    BY <1>5 DEF Connect, Identify, Disconnect, InFlight, fetchVars
  <2>2. scans' \in [Calls -> Scan]
    <3>1. Between(1) \in Scan
      BY DEF Between, Scan
    <3>2. CASE Connect(p)
      <4>1. PICK i \in Calls : scans' = [scans EXCEPT ![i] = Between(1)]
        BY <3>2 DEF Connect
      <4>2. QED
        BY <3>1, <4>1 DEF TypeOK
    <3>3. CASE Identify(p) \/ Disconnect(p)
      BY <3>3 DEF Identify, Disconnect, TypeOK
    <3>4. QED
      BY <1>5, <3>2, <3>3
  <2>3. resting' \subseteq ToSet(wanted)
    BY <1>5 DEF Connect, Identify, Disconnect, TypeOK
  <2>4. connected' \subseteq Peer /\ participants' \subseteq connected'
    BY <1>5 DEF Connect, Identify, Disconnect, TypeOK
  <2>5. UNCHANGED <<storeVars, nearby, wanted, fetchVars, timer, dropped>> /\ looked' \subseteq Peer
    BY <1>5 DEF Connect, Identify, Disconnect, TypeOK
  <2>6. QED
    BY <2>1, <2>2, <2>3, <2>4, <2>5 DEF TypeOK, storeVars, fetchVars
<1>6. CASE SyncReceived \/ TimerFires
  <2>1. Drain(wanted, resting, Askable(connected, participants))
    BY <1>6 DEF SyncReceived, TimerFires
  <2>2. Askable(connected, participants) \in SUBSET Peer
    BY DEF Askable, TypeOK
  <2>3. /\ fetch' \in [Blob -> {"no", "asking", "storing"}]
        /\ asked' \in [Blob -> SUBSET Peer]
        /\ InFlight' \subseteq ToSet(wanted) /\ Cardinality(InFlight') <= MaxConcurrent
        /\ timer' \in {"off", "later"} /\ looked' \subseteq Peer
    BY <2>1, <2>2, DrainTypes DEF TypeOK
  <2>4. UNCHANGED <<storeVars, peerVars, wanted, resting, scans, dropped>>
    BY <1>6 DEF SyncReceived, TimerFires
  <2>5. QED
    BY <2>3, <2>4 DEF TypeOK, storeVars, peerVars
<1>7. ASSUME NEW p \in Peer, NEW b \in Blob, Gains(p, b) PROVE TypeOK'
  <2>1. UNCHANGED <<storeVars, connected, participants, wanted, resting, fetchVars, timer, looked, scans, dropped>>
    BY <1>7 DEF Gains
  <2>2. nearby' \subseteq Peer \X (Blob \ Gone)
    BY <1>7 DEF Gains, TypeOK
  <2>3. InFlight' = InFlight
    BY <2>1 DEF InFlight, fetchVars
  <2>4. QED
    BY <2>1, <2>2, <2>3 DEF TypeOK, storeVars, fetchVars
<1>8. ASSUME NEW p \in Peer, NEW b \in Blob, Answered(b, p) PROVE TypeOK'
  <2>1. UNCHANGED <<known, peerVars, scans, dropped, held, wanted, resting, timer, looked>>
    BY <1>8 DEF Answered, Delivered, Missed, FetchStep
  <2>2. /\ cache' \subseteq Blob
        /\ fetch' \in [Blob -> {"no", "asking", "storing"}]
        /\ asked' \in [Blob -> SUBSET Peer]
    BY <1>8 DEF Answered, Delivered, Missed, TypeOK
  <2>3. InFlight' = InFlight
    BY <1>8 DEF Answered, Delivered, Missed, TypeOK, InFlight
  <2>4. QED
    BY <2>1, <2>2, <2>3 DEF TypeOK, peerVars
<1>9. ASSUME NEW b \in Blob, FetchEnds(b) PROVE TypeOK'
  <2>1. UNCHANGED <<known, peerVars, looked, scans, dropped, cache>> /\ held' \subseteq Blob
    BY <1>9 DEF FetchEnds, Stored, Persist, NotStored, FetchStep, TypeOK
  <2>2. b \in InFlight /\ b \in ToSet(wanted)
    BY <1>9 DEF FetchEnds, Stored, Persist, NotStored, InFlight, TypeOK
  <2>3. fetch' = [fetch EXCEPT ![b] = "no"] /\ asked' = asked
    BY <1>9 DEF FetchEnds, Stored, Persist, NotStored, Over
  <2>4. InFlight' = InFlight \ {b}
    BY <2>3 DEF InFlight, TypeOK
  <2>5. Cardinality(InFlight \ {b}) <= MaxConcurrent
    <3>1. Cardinality(InFlight \ {b}) = Cardinality(InFlight) - 1
      BY <2>2, SlotsAreFew, FS_RemoveElement
    <3>2. QED
      BY <3>1, SlotsAreFew DEF TypeOK
  <2>6. timer' \in {"off", "soon", "later"}
    BY <1>9 DEF FetchEnds, Stored, Persist, NotStored, Over, Schedule, TypeOK
  <2>7. /\ wanted' \in Seq(Blob) /\ IsInjective(wanted')
        /\ resting' \subseteq ToSet(wanted') /\ InFlight' \subseteq ToSet(wanted')
    <3>1. CASE wanted' = Without(wanted, b) /\ resting' = resting \ {b}
      <4>1. /\ Without(wanted, b) \in Seq(Blob) /\ IsInjective(Without(wanted, b))
            /\ ToSet(Without(wanted, b)) = ToSet(wanted) \ {b}
        BY <2>2, WithoutIs DEF TypeOK
      <4>2. QED
        BY <2>4, <3>1, <4>1 DEF TypeOK
    <3>2. CASE wanted' = wanted /\ resting' = resting \cup {b}
      BY <2>2, <2>4, <3>2 DEF TypeOK
    <3>3. QED
      BY <1>9, <3>1, <3>2 DEF FetchEnds, Stored, Persist, NotStored, Over
  <2>8. QED
    BY <2>1, <2>3, <2>4, <2>5, <2>6, <2>7 DEF TypeOK, peerVars
<1>10. ASSUME NEW b \in Blob, BackoffOver(b) PROVE TypeOK'
  <2>1. UNCHANGED <<storeVars, peerVars, wanted, fetchVars, timer, looked, scans, dropped>>
    BY <1>10 DEF BackoffOver
  <2>2. resting' \subseteq resting
    BY <1>10 DEF BackoffOver
  <2>3. InFlight' = InFlight
    BY <2>1 DEF InFlight, fetchVars
  <2>4. QED
    BY <2>1, <2>2, <2>3 DEF TypeOK, storeVars, peerVars, fetchVars
<1>11. CASE UNCHANGED vars
  <2>1. InFlight' = InFlight
    BY <1>11 DEF InFlight, vars, fetchVars
  <2>2. QED
    BY <1>11, <2>1 DEF TypeOK, vars, storeVars, peerVars, fetchVars
<1>12. QED
  BY <1>1, <1>2, <1>3, <1>4, <1>5, <1>6, <1>7, <1>8, <1>9, <1>10, <1>11
     DEF Next, ScanStep

(***************************************************************************)
(* Every variable keeps to its range: a blob is wanted once, only wanted   *)
(* blobs rest or have a slot, and no more than maxConcurrent are fetched   *)
(* at once (blobs.js:84-95, 133).                                          *)
(***************************************************************************)
THEOREM BlobsTypes == Spec => []TypeOK
<1>1. QED
  BY TypesInit, TypesNext, PTL DEF Spec

-----------------------------------------------------------------------------
(* The ceiling *)

LEMMA CallsAreFew ==
    /\ MaxWanted \in Nat \ {0} /\ MaxScans \in Nat
    /\ IsFiniteSet(Calls) /\ Cardinality(Calls) = MaxScans
<1>1. MaxWanted \in Nat \ {0} /\ MaxScans \in Nat
  BY BlobsAssumption
<1>2. QED
  BY <1>1, FS_Interval DEF Calls

LEMMA ConsiderCeiling ==
    ASSUME TypeOK, NEW i \in Calls, NEW at \in Nat, NEW refs \in Seq(Blob),
           NEW w \in Seq(Blob), NEW r, Consider(i, at, refs, w, r, connected),
           Len(w) + Cardinality(Asking \ {i}) < MaxWanted + MaxScans
    PROVE  CeilingHoldsButForScans'
<1> DEFINE now == {j \in Calls : scans'[j].blob # None}
<1>0. /\ MaxWanted \in Nat /\ MaxScans \in Nat /\ Len(w) \in Nat
      /\ IsFiniteSet(Calls) /\ Cardinality(Calls) = MaxScans
  BY CallsAreFew
<1>1. wanted' = w /\ Asking' = now
  BY DEF Consider, Asking
<1>2. IsFiniteSet(now) /\ Cardinality(now) <= MaxScans /\ Cardinality(now) \in Nat
  <2>1. now \in SUBSET Calls
    OBVIOUS
  <2>2. QED
    BY <1>0, <2>1, FS_Subset, FS_CardinalityType
<1>3. CASE Len(w) < MaxWanted
  <2> HIDE DEF now
  <2>1. QED
    BY <1>0, <1>1, <1>2, <1>3 DEF CeilingHoldsButForScans
<1>4. CASE scans' = [scans EXCEPT ![i] = Between(at)]
  <2>1. now = Asking \ {i}
    BY <1>4 DEF TypeOK, Asking, Between
  <2>2. QED
    BY <1>1, <2>1 DEF CeilingHoldsButForScans
<1>5. QED
  BY <1>3, <1>4 DEF Consider

LEMMA CeilingInit == Init => CeilingHoldsButForScans
<1> SUFFICES ASSUME Init PROVE CeilingHoldsButForScans
  OBVIOUS
<1>2. Asking \in SUBSET Calls
  BY DEF Asking
<1>3. Cardinality(Asking) \in Nat /\ Cardinality(Asking) <= MaxScans
  BY <1>2, CallsAreFew, FS_Subset, FS_CardinalityType
<1>4. Len(wanted) = 0
  BY DEF Init
<1>5. QED
  BY <1>3, <1>4, CallsAreFew DEF CeilingHoldsButForScans

\* Nothing more is wanted, and no other call asks.
LEMMA CeilingKept ==
    ASSUME TypeOK, CeilingHoldsButForScans,
           wanted' \in Seq(Blob), Len(wanted') <= Len(wanted),
           \A j \in Calls : scans'[j].blob # None => scans[j].blob # None
    PROVE  CeilingHoldsButForScans'
<1>2. Asking' \in SUBSET Asking /\ Asking \in SUBSET Calls
  BY DEF Asking
<1>3. /\ Cardinality(Asking') <= Cardinality(Asking)
      /\ Cardinality(Asking') \in Nat /\ Cardinality(Asking) \in Nat
  BY <1>2, CallsAreFew, FS_Subset, FS_CardinalityType
<1>4. Len(wanted') \in Nat /\ Len(wanted) \in Nat
  BY DEF TypeOK
<1>5. QED
  BY <1>3, <1>4, CallsAreFew DEF CeilingHoldsButForScans

LEMMA CeilingNext ==
    TypeOK /\ TypeOK' /\ CeilingHoldsButForScans /\ [Next]_vars => CeilingHoldsButForScans'
<1> SUFFICES ASSUME TypeOK, TypeOK', CeilingHoldsButForScans, [Next]_vars
             PROVE  CeilingHoldsButForScans'
  OBVIOUS
<1>0. /\ IsFiniteSet(Calls) /\ MaxWanted \in Nat /\ MaxScans \in Nat /\ Len(wanted) \in Nat
      /\ IsFiniteSet(Asking) /\ Cardinality(Asking) \in Nat
      /\ Len(wanted) + Cardinality(Asking) < MaxWanted + MaxScans
  <2>1. Asking \in SUBSET Calls
    BY DEF Asking
  <2>2. QED
    BY <2>1, CallsAreFew, FS_Subset, FS_CardinalityType DEF TypeOK, CeilingHoldsButForScans
<1>1. ASSUME NEW e \in Event, EventStored(e) PROVE CeilingHoldsButForScans'
  <2>1. PICK i \in Calls : Free(i) /\ Consider(i, 0, Media[e], wanted, resting, connected)
    BY <1>1 DEF EventStored
  <2>2. Asking \ {i} = Asking
    BY <2>1 DEF Free, Asking, NoCall, Between
  <2>3. Media[e] \in Seq(Blob) /\ wanted \in Seq(Blob)
    BY BlobsAssumption DEF TypeOK
  <2>4. QED
    BY <1>0, <2>1, <2>2, <2>3, ConsiderCeiling
<1>2. ASSUME NEW i \in Calls, Considered(i) PROVE CeilingHoldsButForScans'
  <2> DEFINE s == scans[i]
  <2>1. s.at \in Nat /\ s.refs \in Seq(Blob) /\ s.blob \in Blob /\ i \in Asking
    BY <1>2 DEF Considered, TypeOK, Scan, Asking
  <2>2. /\ Cardinality(Asking \ {i}) = Cardinality(Asking) - 1
        /\ Cardinality(Asking \ {i}) \in Nat
    BY <1>0, <2>1, FS_RemoveElement, FS_CardinalityType
  <2>3. CASE Consider(i, s.at, s.refs, wanted, resting, connected)
    <3>1. Len(wanted) + Cardinality(Asking \ {i}) < MaxWanted + MaxScans
      BY <1>0, <2>2
    <3>2. wanted \in Seq(Blob)
      BY DEF TypeOK
    <3> HIDE DEF s
    <3>3. QED
      BY <2>1, <2>3, <3>1, <3>2, ConsiderCeiling
  <2>4. CASE Consider(i, s.at, s.refs, WantAnyway(s.blob), resting \ {s.blob}, connected)
    <3>1. WantAnyway(s.blob) \in Seq(Blob) /\ Len(WantAnyway(s.blob)) <= Len(wanted) + 1
      BY <2>1, WantAnywayIs DEF TypeOK
    <3> DEFINE w == WantAnyway(s.blob)
               r == resting \ {s.blob}
    <3>2. w \in Seq(Blob) /\ Len(w) \in Nat /\ Len(w) <= Len(wanted) + 1
      BY <3>1
    <3>3. Consider(i, s.at, s.refs, w, r, connected)
      BY <2>4
    <3> HIDE DEF w, r, s
    <3>4. Len(w) + Cardinality(Asking \ {i}) < MaxWanted + MaxScans
      BY <1>0, <2>2, <3>2
    <3>5. QED
      BY <2>1, <3>2, <3>3, <3>4, ConsiderCeiling
  <2>5. QED
    BY <1>2, <2>3, <2>4 DEF Considered
<1>3. ASSUME NEW i \in Calls, RescanNext(i) PROVE CeilingHoldsButForScans'
  <2> DEFINE s == scans[i]
             at == s.at + 1
             refs == Media[known[s.at]]
  <2>1. s.at \in Nat \ {0} /\ at \in Nat /\ s.blob = None /\ wanted \in Seq(Blob)
    BY <1>3 DEF RescanNext, TypeOK, Scan
  <2>2. CASE s.at <= Len(known) /\ Consider(i, at, refs, wanted, resting, connected)
    <3>1. refs \in Seq(Blob)
      BY <2>1, <2>2, BlobsAssumption DEF TypeOK
    <3>2. Asking \ {i} = Asking
      BY <2>1 DEF Asking
    <3> HIDE DEF at, refs, s
    <3>3. QED
      BY <1>0, <2>1, <2>2, <3>1, <3>2, ConsiderCeiling
  <2>3. CASE scans' = [scans EXCEPT ![i] = NoCall] /\ UNCHANGED wanted
    <3>1. \A j \in Calls : scans'[j].blob # None => scans[j].blob # None
      BY <2>3 DEF TypeOK, NoCall, Between
    <3>2. wanted' \in Seq(Blob) /\ Len(wanted') <= Len(wanted)
      BY <2>1, <2>3
    <3>3. QED
      BY <3>1, <3>2, CeilingKept
  <2>4. QED
    BY <1>3, <2>2, <2>3 DEF RescanNext
<1>4. ASSUME NEW p \in Peer, Connect(p) PROVE CeilingHoldsButForScans'
  <2>1. PICK i \in Calls : scans' = [scans EXCEPT ![i] = Between(1)]
    BY <1>4 DEF Connect
  <2>2. \A j \in Calls : scans'[j].blob # None => scans[j].blob # None
    BY <2>1 DEF TypeOK, Between
  <2>3. wanted' \in Seq(Blob) /\ Len(wanted') <= Len(wanted)
    BY <1>4 DEF Connect, TypeOK
  <2>4. QED
    BY <2>2, <2>3, CeilingKept
<1>5. ASSUME NEW b \in Blob, FetchEnds(b) PROVE CeilingHoldsButForScans'
  <2>1. scans' = scans
    BY <1>5 DEF FetchEnds, Stored, Persist, NotStored, FetchStep
  <2>2. b \in ToSet(wanted)
    BY <1>5 DEF FetchEnds, Stored, Persist, NotStored, InFlight, TypeOK
  <2>3. Without(wanted, b) \in Seq(Blob) /\ Len(Without(wanted, b)) <= Len(wanted)
    BY <2>2, WithoutIs DEF TypeOK
  <2>4. wanted' = wanted \/ wanted' = Without(wanted, b)
    BY <1>5 DEF FetchEnds, Stored, Persist, NotStored, Over
  <2>5. wanted' \in Seq(Blob) /\ Len(wanted') <= Len(wanted)
    BY <2>3, <2>4 DEF TypeOK
  <2>6. QED
    BY <2>1, <2>5, CeilingKept
<1>6. CASE UNCHANGED <<wanted, scans>>
  BY <1>6 DEF CeilingHoldsButForScans, Asking
<1>7. CASE UNCHANGED vars
  BY <1>6, <1>7 DEF vars
<1>8. ASSUME NEW b \in Blob, Attach(b) \/ BackoffOver(b) PROVE UNCHANGED <<wanted, scans>>
  BY <1>8 DEF Attach, PutBlob, Persist, BackoffOver
<1>9. ASSUME NEW p \in Peer, Identify(p) \/ Disconnect(p) PROVE UNCHANGED <<wanted, scans>>
  BY <1>9 DEF Identify, Disconnect
<1>10. ASSUME NEW p \in Peer, NEW b \in Blob, Gains(p, b) \/ Answered(b, p)
       PROVE  UNCHANGED <<wanted, scans>>
  BY <1>10 DEF Gains, Answered, Delivered, Missed, FetchStep
<1>11. CASE SyncReceived \/ TimerFires
  BY <1>6, <1>11 DEF SyncReceived, TimerFires
<1>12. QED
  BY <1>1, <1>2, <1>3, <1>4, <1>5, <1>6, <1>7, <1>8, <1>9, <1>10, <1>11 DEF Next, ScanStep

(***************************************************************************)
(* The list of wanted blobs may pass maxWanted, as the test and the        *)
(* insertion have an await between them, but by no more than the calls     *)
(* that were under way: less than MaxScans (blobs.js:104-108).             *)
(***************************************************************************)
THEOREM MediaCeiling == Spec => []CeilingHoldsButForScans
<1>1. TypeOK /\ CeilingHoldsButForScans /\ [Next]_vars => CeilingHoldsButForScans'
  BY TypesNext, CeilingNext
<1>2. QED
  BY TypesInit, TypesNext, CeilingInit, <1>1, PTL DEF Spec

-----------------------------------------------------------------------------
(* Never asleep for good *)

\* Whom the fetcher has looked at: where every connection may be asked, all of them.
Watched == looked \cup (IF PublicRouting THEN {} ELSE connected)

\* After a drain those are the peers that were there to ask.
LEMMA WatchedAfterDrain ==
    ASSUME NEW w, NEW r, Drain(w, r, Askable(connected, participants)), UNCHANGED peerVars
    PROVE  Watched' = Askable(connected, participants)
BY BlobsAssumption DEF Drain, Watched, Askable, peerVars

LEMMA ConsiderAwake ==
    ASSUME TypeOK, NEW i \in Calls, NEW at \in Nat, NEW refs \in Seq(Blob),
           NEW w \in Seq(Blob), NEW r, Consider(i, at, refs, w, r, connected),
           UNCHANGED peerVars
    PROVE  AlwaysRetried'
<1>1. CASE /\ ToSet(refs) \ ToSet(w) # {}
           /\ scans' = [scans EXCEPT ![i] = Look(at, refs, w, Found)]
  <2>1. Look(at, refs, w, Found).blob # None
    <3>1. Look(at, refs, w, Found).blob \in Blob
      BY <1>1, LookIs
    <3>2. QED
      BY <3>1, BlobsAssumption
  <2>2. scans'[i] # NoCall
    BY <1>1, <2>1 DEF TypeOK, NoCall, Between
  <2>3. QED
    BY <2>2 DEF AlwaysRetried, Asleep
<1>2. CASE wanted' = w /\ Drain(w, r, Askable(connected, participants))
  <2>1. Watched' = Askable(connected, participants)
    BY <1>2, WatchedAfterDrain
  <2>2. CASE w # <<>> /\ Askable(connected, participants) # {}
    BY <1>2, <2>2, DrainAwake DEF AlwaysRetried, Asleep
  <2>3. CASE w = <<>>
    BY <1>2, <2>3 DEF AlwaysRetried, Asleep
  <2>4. CASE Watched' = {}
    BY <2>4, BlobsAssumption DEF AlwaysRetried, Watched
  <2>5. QED
    BY <2>1, <2>2, <2>3, <2>4
<1>3. QED
  BY <1>1, <1>2 DEF Consider

LEMMA DrainsAwake ==
    ASSUME TypeOK, Drain(wanted, resting, Askable(connected, participants)),
           UNCHANGED <<wanted, peerVars>>
    PROVE  AlwaysRetried'
<1>1. Watched' = Askable(connected, participants)
  BY WatchedAfterDrain
<1>2. wanted \in Seq(Blob)
  BY DEF TypeOK
<1>3. CASE wanted # <<>> /\ Askable(connected, participants) # {}
  BY <1>2, <1>3, DrainAwake DEF AlwaysRetried, Asleep
<1>4. CASE wanted = <<>>
  BY <1>4 DEF AlwaysRetried, Asleep
<1>5. CASE Watched' = {}
  BY <1>5, BlobsAssumption DEF AlwaysRetried, Watched
<1>6. QED
  BY <1>1, <1>3, <1>4, <1>5

LEMMA RetriedNext == TypeOK /\ AlwaysRetried /\ [Next]_vars => AlwaysRetried'
<1> SUFFICES ASSUME TypeOK, AlwaysRetried, [Next]_vars PROVE AlwaysRetried'
  OBVIOUS
<1>1. ASSUME NEW e \in Event, EventStored(e) PROVE AlwaysRetried'
  <2>1. PICK i \in Calls : Consider(i, 0, Media[e], wanted, resting, connected)
    BY <1>1 DEF EventStored
  <2>2. Media[e] \in Seq(Blob) /\ wanted \in Seq(Blob) /\ UNCHANGED peerVars
    BY <1>1, BlobsAssumption DEF TypeOK, EventStored
  <2>3. QED
    BY <2>1, <2>2, ConsiderAwake
<1>2. ASSUME NEW i \in Calls, Considered(i) PROVE AlwaysRetried'
  <2> DEFINE s == scans[i]
  <2>1. /\ s.at \in Nat /\ s.refs \in Seq(Blob) /\ s.blob \in Blob
        /\ wanted \in Seq(Blob) /\ UNCHANGED peerVars
    BY <1>2 DEF Considered, TypeOK, Scan
  <2>2. WantAnyway(s.blob) \in Seq(Blob)
    BY <2>1, WantAnywayIs DEF TypeOK
  <2>3. PICK w \in {wanted, WantAnyway(s.blob)}, r \in {resting, resting \ {s.blob}} :
            Consider(i, s.at, s.refs, w, r, connected)
    BY <1>2 DEF Considered
  <2> HIDE DEF s
  <2>4. QED
    BY <2>1, <2>2, <2>3, ConsiderAwake
<1>3. ASSUME NEW i \in Calls, RescanNext(i) PROVE AlwaysRetried'
  <2> DEFINE s == scans[i]
             at == s.at + 1
             refs == Media[known[s.at]]
  <2>1. /\ s.at \in Nat \ {0} /\ at \in Nat
        /\ wanted \in Seq(Blob) /\ UNCHANGED peerVars
    BY <1>3 DEF RescanNext, TypeOK, Scan
  <2>2. CASE s.at <= Len(known) /\ Consider(i, at, refs, wanted, resting, connected)
    <3>1. refs \in Seq(Blob)
      BY <2>1, <2>2, BlobsAssumption DEF TypeOK
    <3> HIDE DEF at, refs, s
    <3>2. QED
      BY <2>1, <2>2, <3>1, ConsiderAwake
  <2>3. CASE Drain(wanted, resting, Askable(connected, participants)) /\ UNCHANGED wanted
    BY <2>1, <2>3, DrainsAwake
  <2>4. QED
    BY <1>3, <2>2, <2>3 DEF RescanNext
<1>4. ASSUME NEW p \in Peer, Connect(p) PROVE AlwaysRetried'
  <2>1. PICK i \in Calls : scans' = [scans EXCEPT ![i] = Between(1)]
    BY <1>4 DEF Connect
  <2>2. Between(1).at # NoCall.at
    BY DEF NoCall, Between
  <2>3. scans'[i] # NoCall
    BY <2>1, <2>2 DEF TypeOK
  <2>4. QED
    BY <2>3 DEF AlwaysRetried, Asleep
<1>5. ASSUME NEW b \in Blob, FetchEnds(b) PROVE AlwaysRetried'
  <2> DEFINE busy == InFlight \ {b}
  <2>1. PICK w, r : wanted' = w /\ Schedule(w, r, busy) /\ fetch' = [fetch EXCEPT ![b] = "no"]
    BY <1>5 DEF FetchEnds, Stored, Persist, NotStored, Over
  <2>2. InFlight' = busy
    BY <2>1 DEF InFlight, TypeOK
  <2>3. wanted' \in Seq(Blob)
    <3>1. b \in ToSet(wanted)
      BY <1>5 DEF FetchEnds, Stored, Persist, NotStored, InFlight, TypeOK
    <3>2. wanted' = wanted \/ wanted' = Without(wanted, b)
      BY <1>5 DEF FetchEnds, Stored, Persist, NotStored, Over
    <3>3. QED
      BY <3>1, <3>2, WithoutIs DEF TypeOK
  <2>4. CASE timer' # "off"
    BY <2>4 DEF AlwaysRetried, Asleep
  <2>5. CASE timer' = "off"
    <3>1. ToSet(w) \ busy = {}
      BY <2>1, <2>5 DEF Schedule
    <3>2. wanted' # <<>> => wanted'[1] \in ToSet(wanted')
      BY <2>3 DEF ToSet
    <3> HIDE DEF busy
    <3>3. wanted' # <<>> => InFlight' # {}
      BY <2>1, <2>2, <3>1, <3>2
    <3>4. QED
      BY <3>3 DEF AlwaysRetried, Asleep
  <2>6. QED
    BY <2>4, <2>5
<1>6. ASSUME UNCHANGED <<wanted, timer, scans>>,
             connected' \subseteq connected, looked' \subseteq looked,
             \A b \in Blob : fetch[b] # "no" => fetch'[b] # "no"
      PROVE  AlwaysRetried'
  <2>1. InFlight # {} => InFlight' # {}
    BY <1>6 DEF InFlight
  <2>2. QED
    BY <1>6, <2>1 DEF AlwaysRetried, Asleep
<1>7. CASE UNCHANGED <<wanted, timer, scans, connected, fetch, looked>>
  BY <1>6, <1>7
<1>8. CASE UNCHANGED vars
  BY <1>7, <1>8 DEF vars, peerVars, fetchVars
<1>9. ASSUME NEW b \in Blob, Attach(b) \/ BackoffOver(b)
      PROVE  UNCHANGED <<wanted, timer, scans, connected, fetch, looked>>
  BY <1>9 DEF Attach, PutBlob, Persist, BackoffOver, peerVars, fetchVars
<1>10. ASSUME NEW p \in Peer, Identify(p)
       PROVE  UNCHANGED <<wanted, timer, scans, connected, fetch, looked>>
  BY <1>10 DEF Identify, fetchVars
<1>11. ASSUME NEW p \in Peer, Disconnect(p) PROVE AlwaysRetried'
  BY <1>6, <1>11 DEF Disconnect, fetchVars
<1>12. ASSUME NEW p \in Peer, NEW b \in Blob, Gains(p, b)
       PROVE  UNCHANGED <<wanted, timer, scans, connected, fetch, looked>>
  BY <1>12 DEF Gains, fetchVars
<1>13. ASSUME NEW p \in Peer, NEW b \in Blob, Answered(b, p) PROVE AlwaysRetried'
  <2>1. UNCHANGED <<wanted, timer, scans, connected, looked>>
    BY <1>13 DEF Answered, Delivered, Missed, FetchStep, peerVars
  <2>2. \A c \in Blob : fetch[c] # "no" => fetch'[c] # "no"
    BY <1>13 DEF Answered, Delivered, Missed, TypeOK
  <2>3. QED
    BY <1>6, <2>1, <2>2
<1>14. CASE SyncReceived \/ TimerFires
  BY <1>14, DrainsAwake DEF SyncReceived, TimerFires
<1>15. QED
  BY <1>1, <1>2, <1>3, <1>4, <1>5, <1>7, <1>8, <1>9, <1>10, <1>11, <1>12, <1>13, <1>14
     DEF Next, ScanStep

(***************************************************************************)
(* With something wanted the fetcher sleeps - no timer, no fetch, no scan  *)
(* that will drain - only when whoever the last drain could ask is gone,   *)
(* and, where every connection may be asked, only when nobody is connected *)
(* (blobs.js:120-153).                                                     *)
(***************************************************************************)
THEOREM MediaRetried == Spec => []AlwaysRetried
<1>1. Init => AlwaysRetried
  BY DEF Init, AlwaysRetried, Asleep
<1>2. TypeOK /\ AlwaysRetried /\ [Next]_vars => AlwaysRetried'
  BY RetriedNext
<1>3. QED
  BY TypesInit, TypesNext, <1>1, <1>2, PTL DEF Spec

-----------------------------------------------------------------------------
(* Nothing forgotten *)

\* Between two events a call has nothing left of the one before.
BetweenIsEmpty == \A i \in Calls : scans[i].blob = None => scans[i].refs = <<>>

\* x is of an event the rescan s has yet to come to.
Later(s, x) == s.at # 0 /\ \E j \in DOMAIN known : j >= s.at /\ x \in ToSet(Media[known[j]])

InHand(s, x) == x = s.blob \/ x \in ToSet(s.refs)

Cared(x) ==
    \/ x \in Found \/ x \in ToSet(wanted) \/ x \in dropped
    \/ \E i \in Calls : InHand(scans[i], x) \/ Later(scans[i], x)

LEMMA ComingIs ==
    ASSUME NEW s, NEW x \in Blob
    PROVE  x \in Coming(s) <=> InHand(s, x) \/ Later(s, x)
BY BlobsAssumption DEF Coming, InHand, Later

AllCared == \A e \in ToSet(known) : \A x \in ToSet(Media[e]) : Cared(x)

LEMMA CaredIs == TypeOK => (NothingForgotten <=> AllCared)
<1> SUFFICES ASSUME TypeOK PROVE NothingForgotten <=> AllCared
  OBVIOUS
<1>1. \A e \in ToSet(known) : ToSet(Media[e]) \subseteq Blob
  BY ElementsAreFinite, BlobsAssumption DEF TypeOK
<1>2. ASSUME NEW x \in Blob
      PROVE  Cared(x) <=> x \in Found \cup ToSet(wanted) \cup dropped
                                \cup UNION {Coming(scans[i]) : i \in Calls}
  BY ComingIs DEF Cared
<1>3. QED
  BY <1>1, <1>2 DEF NothingForgotten, AllCared

LEMMA NoCallIs == NoCall.blob = None /\ NoCall.refs = <<>> /\ NoCall.at = 0
BY DEF NoCall, Between

LEMMA ConsiderKeeps ==
    ASSUME TypeOK, NEW i \in Calls, NEW at \in Nat, NEW refs \in Seq(Blob),
           NEW w \in Seq(Blob), NEW r, Consider(i, at, refs, w, r, connected)
    PROVE  /\ wanted' = w /\ dropped \subseteq dropped'
           /\ \A j \in Calls : j # i => scans'[j] = scans[j]
           /\ scans'[i].at = at
           /\ \A x \in ToSet(refs) : x \in ToSet(w) \/ x \in dropped' \/ InHand(scans'[i], x)
           /\ scans'[i].blob = None => scans'[i].refs = <<>>
<1>1. wanted' = w
  BY DEF Consider
<1>2. CASE /\ ToSet(refs) \ ToSet(w) # {}
           /\ scans' = [scans EXCEPT ![i] = Look(at, refs, w, Found)]
           /\ dropped' = dropped
  <2>1. scans'[i] = Look(at, refs, w, Found) /\ \A j \in Calls : j # i => scans'[j] = scans[j]
    BY <1>2 DEF TypeOK
  <2>2. /\ Look(at, refs, w, Found).blob # None
        /\ Look(at, refs, w, Found).at = at
        /\ ToSet(refs) \subseteq ToSet(w) \cup {Look(at, refs, w, Found).blob}
                                 \cup ToSet(Look(at, refs, w, Found).refs)
    BY <1>2, LookIs, BlobsAssumption
  <2>3. QED
    BY <1>1, <1>2, <2>1, <2>2 DEF InHand
<1>3. CASE /\ scans' = [scans EXCEPT ![i] = Between(at)]
           /\ dropped' = dropped \cup (ToSet(refs) \ ToSet(w))
  BY <1>1, <1>3 DEF TypeOK, Between
<1>4. QED
  BY <1>2, <1>3 DEF Consider

\* An event that comes to the store later is behind every rescan under way.
LEMMA LaterKept ==
    ASSUME TypeOK, NEW s, NEW x, Later(s, x),
           \/ known' = known
           \/ \E e \in Event : known' = Append(known, e)
    PROVE  Later(s, x)'
<1>1. PICK j \in DOMAIN known : s.at # 0 /\ j >= s.at /\ x \in ToSet(Media[known[j]])
  BY DEF Later
<1>2. known \in Seq(Event)
  BY DEF TypeOK
<1>3. CASE \E e \in Event : known' = Append(known, e)
  <2>1. PICK e \in Event : known' = Append(known, e)
    BY <1>3
  <2>2. j \in DOMAIN known' /\ known'[j] = known[j]
    BY <1>2, <2>1
  <2>3. QED
    BY <1>1, <2>2 DEF Later
<1>4. QED
  BY <1>1, <1>3 DEF Later

\* Nothing taken from what is found, wanted, dropped, or with a call.
LEMMA CaredKept ==
    ASSUME TypeOK, NEW x \in Blob, Cared(x), Found \subseteq Found', dropped \subseteq dropped',
           \A y \in ToSet(wanted) : y \in ToSet(wanted') \/ y \in Found',
           \A i \in Calls : scans[i] # NoCall => scans'[i] = scans[i],
           known' = known \/ \E e \in Event : known' = Append(known, e)
    PROVE  Cared(x)'
<1>1. CASE x \in Found \/ x \in ToSet(wanted) \/ x \in dropped
  BY <1>1 DEF Cared
<1>2. ASSUME NEW i \in Calls, InHand(scans[i], x) \/ Later(scans[i], x)
      PROVE  Cared(x)'
  <2>1. scans[i] # NoCall
    BY <1>2, NoCallIs, BlobsAssumption DEF InHand, Later, ToSet
  <2>2. PICK s : s = scans[i]
    OBVIOUS
  <2>3. s = scans'[i]
    BY <2>1, <2>2
  <2>4. InHand(s, x) \/ Later(s, x)'
    BY <1>2, <2>2, LaterKept
  <2>5. QED
    BY <2>3, <2>4 DEF Cared
<1>3. QED
  BY <1>1, <1>2 DEF Cared

LEMMA BetweenInit == Init => BetweenIsEmpty
<1> SUFFICES ASSUME Init, NEW i \in Calls, scans[i].blob = None PROVE scans[i].refs = <<>>
  BY DEF BetweenIsEmpty
<1>1. PICK n \in 0..MaxScans : known \in [1..n -> Event]
  BY DEF Init
<1>2. CASE i \in DOMAIN known
  <2>1. known[i] \in Event /\ Media[known[i]] \in Seq(Blob) /\ Media[known[i]] # <<>>
    BY <1>1, <1>2, BlobsAssumption
  <2>2. Media[known[i]][1] \in ToSet(Media[known[i]]) /\ ToSet(<<>>) = {}
    BY <2>1 DEF ToSet
  <2>3. Look(0, Media[known[i]], <<>>, held).blob # None
    BY <2>1, <2>2, LookIs, BlobsAssumption
  <2>4. scans[i] = Look(0, Media[known[i]], <<>>, held)
    BY <1>2 DEF Init, StartScans
  <2>5. QED
    BY <2>3, <2>4
<1>3. CASE i \notin DOMAIN known
  BY <1>3, NoCallIs DEF Init, StartScans
<1>4. QED
  BY <1>2, <1>3

LEMMA ForgottenInit == Init => NothingForgotten
<1> SUFFICES ASSUME Init PROVE NothingForgotten
  OBVIOUS
<1>1. PICK n \in 0..MaxScans : known \in [1..n -> Event]
  BY DEF Init
<1>2. TypeOK
  BY TypesInit
<1>3. ASSUME NEW i \in DOMAIN known, NEW x \in ToSet(Media[known[i]]) PROVE Cared(x)
  <2>1. i \in Calls /\ known[i] \in Event /\ Media[known[i]] \in Seq(Blob)
    BY <1>1, BlobsAssumption DEF Calls
  <2>2. ToSet(<<>>) = {}
    BY DEF ToSet
  <2>3. ToSet(Media[known[i]]) \ ToSet(<<>>) # {}
    BY <2>2
  <2>4. InHand(Look(0, Media[known[i]], <<>>, held), x)
    BY <2>1, <2>2, <2>3, LookIs DEF InHand
  <2>5. scans[i] = Look(0, Media[known[i]], <<>>, held)
    BY <2>1 DEF Init, StartScans
  <2>6. QED
    BY <2>1, <2>4, <2>5 DEF Cared
<1>4. \A e \in ToSet(known) : \E i \in DOMAIN known : e = known[i]
  BY DEF ToSet
<1>5. QED
  BY <1>2, <1>3, <1>4, CaredIs DEF AllCared

\* What Consider leaves the call with, for the event it goes through.
LEMMA ConsiderCares ==
    ASSUME TypeOK, NEW i \in Calls, NEW at \in Nat, NEW refs \in Seq(Blob),
           NEW w \in Seq(Blob), NEW r, Consider(i, at, refs, w, r, connected),
           NEW x \in Blob, Found \subseteq Found', ToSet(wanted) \subseteq ToSet(w),
           known' = known \/ \E e \in Event : known' = Append(known, e),
           \/ Cared(x) /\ ~ (InHand(scans[i], x) \/ Later(scans[i], x))
           \/ x \in ToSet(refs) \/ x \in ToSet(w) \/ x \in Found'
           \/ at # 0 /\ \E j \in DOMAIN known : j >= at /\ x \in ToSet(Media[known[j]])
    PROVE  Cared(x)'
<1> USE ConsiderKeeps
<1>1. CASE x \in ToSet(refs) \/ x \in ToSet(w) \/ x \in Found'
  <2>1. x \in ToSet(wanted') \/ x \in dropped' \/ InHand(scans'[i], x) \/ x \in Found'
    BY <1>1
  <2>2. QED
    BY <2>1 DEF Cared, InHand
<1>2. CASE at # 0 /\ \E j \in DOMAIN known : j >= at /\ x \in ToSet(Media[known[j]])
  <2>1. PICK s : s = scans'[i]
    OBVIOUS
  <2>2. Later(s, x)
    BY <1>2, <2>1 DEF Later
  <2>3. Later(s, x)'
    BY <2>2, LaterKept
  <2>4. QED
    BY <2>1, <2>3 DEF Cared
<1>3. CASE Cared(x) /\ ~ (InHand(scans[i], x) \/ Later(scans[i], x))
  <2>1. CASE x \in Found \/ x \in ToSet(wanted) \/ x \in dropped
    BY <2>1 DEF Cared
  <2>2. CASE \E j \in Calls : InHand(scans[j], x) \/ Later(scans[j], x)
    <3>1. PICK j \in Calls : InHand(scans[j], x) \/ Later(scans[j], x)
      BY <2>2
    <3>2. PICK s : s = scans[j]
      OBVIOUS
    <3>3. j # i
      BY <1>3, <3>1
    <3>4. s = scans'[j]
      BY <3>2, <3>3
    <3>5. InHand(s, x) \/ Later(s, x)'
      BY <3>1, <3>2, LaterKept
    <3>6. QED
      BY <3>4, <3>5 DEF Cared
  <2>3. QED
    BY <1>3, <2>1, <2>2 DEF Cared
<1>4. QED
  BY <1>1, <1>2, <1>3

ForgottenInv == TypeOK /\ BetweenIsEmpty /\ NothingForgotten

LEMMA BetweenNext == ForgottenInv /\ [Next]_vars => BetweenIsEmpty'
<1> SUFFICES ASSUME ForgottenInv, [Next]_vars, NEW j \in Calls, scans'[j].blob = None
             PROVE  scans'[j].refs = <<>>
  BY DEF BetweenIsEmpty
<1>0. TypeOK /\ (scans[j].blob = None => scans[j].refs = <<>>)
  BY DEF ForgottenInv, BetweenIsEmpty
<1>1. ASSUME NEW i \in Calls, NEW at \in Nat, NEW refs \in Seq(Blob),
             NEW w \in Seq(Blob), NEW r, Consider(i, at, refs, w, r, connected)
      PROVE  scans'[j].refs = <<>>
  BY <1>0, <1>1, ConsiderKeeps
<1>2. ASSUME NEW e \in Event, EventStored(e) PROVE scans'[j].refs = <<>>
  <2>1. PICK i \in Calls : Consider(i, 0, Media[e], wanted, resting, connected)
    BY <1>2 DEF EventStored
  <2>2. Media[e] \in Seq(Blob) /\ wanted \in Seq(Blob)
    BY <1>0, BlobsAssumption DEF TypeOK
  <2>3. QED
    BY <1>1, <2>1, <2>2
<1>3. ASSUME NEW i \in Calls, Considered(i) PROVE scans'[j].refs = <<>>
  <2> DEFINE s == scans[i]
  <2>1. s.at \in Nat /\ s.refs \in Seq(Blob) /\ s.blob \in Blob /\ wanted \in Seq(Blob)
    BY <1>0, <1>3 DEF Considered, TypeOK, Scan
  <2>2. WantAnyway(s.blob) \in Seq(Blob)
    BY <1>0, <2>1, WantAnywayIs DEF TypeOK
  <2>3. PICK w \in {wanted, WantAnyway(s.blob)}, r \in {resting, resting \ {s.blob}} :
            Consider(i, s.at, s.refs, w, r, connected)
    BY <1>3 DEF Considered
  <2> HIDE DEF s
  <2>4. QED
    BY <1>1, <2>1, <2>2, <2>3
<1>4. ASSUME NEW i \in Calls, RescanNext(i) PROVE scans'[j].refs = <<>>
  <2> DEFINE s == scans[i]
             at == s.at + 1
             refs == Media[known[s.at]]
  <2>1. s.at \in Nat \ {0} /\ at \in Nat /\ wanted \in Seq(Blob)
    BY <1>0, <1>4 DEF RescanNext, TypeOK, Scan
  <2>2. CASE s.at <= Len(known) /\ Consider(i, at, refs, wanted, resting, connected)
    <3>1. refs \in Seq(Blob)
      BY <1>0, <2>1, <2>2, BlobsAssumption DEF TypeOK
    <3> HIDE DEF at, refs, s
    <3>2. QED
      BY <1>1, <2>1, <2>2, <3>1
  <2>3. CASE scans' = [scans EXCEPT ![i] = NoCall]
    BY <1>0, <2>3, NoCallIs DEF TypeOK
  <2>4. QED
    BY <1>4, <2>2, <2>3 DEF RescanNext
<1>5. ASSUME NEW p \in Peer, Connect(p) PROVE scans'[j].refs = <<>>
  BY <1>0, <1>5 DEF Connect, Between, TypeOK
<1>6. CASE UNCHANGED scans
  BY <1>0, <1>6
<1>7. ASSUME NEW b \in Blob, Attach(b) \/ BackoffOver(b) \/ FetchEnds(b) PROVE UNCHANGED scans
  BY <1>7 DEF Attach, PutBlob, Persist, BackoffOver, FetchEnds, Stored, NotStored, FetchStep
<1>8. ASSUME NEW p \in Peer, Identify(p) \/ Disconnect(p) PROVE UNCHANGED scans
  BY <1>8 DEF Identify, Disconnect
<1>9. ASSUME NEW p \in Peer, NEW b \in Blob, Gains(p, b) \/ Answered(b, p) PROVE UNCHANGED scans
  BY <1>9 DEF Gains, Answered, Delivered, Missed, FetchStep
<1>10. CASE SyncReceived \/ TimerFires
  BY <1>6, <1>10 DEF SyncReceived, TimerFires
<1>11. QED
  BY <1>2, <1>3, <1>4, <1>5, <1>6, <1>7, <1>8, <1>9, <1>10 DEF Next, ScanStep, vars

LEMMA CaredNext ==
    ASSUME ForgottenInv, [Next]_vars, NEW x \in Blob, Cared(x)
    PROVE  Cared(x)'
<1>0. TypeOK /\ BetweenIsEmpty
  BY DEF ForgottenInv
<1>1. ASSUME NEW e \in Event, EventStored(e) PROVE Cared(x)'
  <2>1. PICK i \in Calls : Free(i) /\ Consider(i, 0, Media[e], wanted, resting, connected)
    BY <1>1 DEF EventStored
  <2>2. Media[e] \in Seq(Blob) /\ wanted \in Seq(Blob)
    BY <1>0, BlobsAssumption DEF TypeOK
  <2>3. Found \subseteq Found' /\ known' = Append(known, e)
    BY <1>1 DEF EventStored, Found
  <2>4. ~ (InHand(scans[i], x) \/ Later(scans[i], x))
    BY <2>1, NoCallIs, BlobsAssumption DEF Free, InHand, Later, ToSet
  <2>5. QED
    BY <1>0, <2>1, <2>2, <2>3, <2>4, ConsiderCares
<1>2. ASSUME NEW i \in Calls, Considered(i) PROVE Cared(x)'
  <2> DEFINE s == scans[i]
  <2>1. s.at \in Nat /\ s.refs \in Seq(Blob) /\ s.blob \in Blob /\ wanted \in Seq(Blob)
    BY <1>0, <1>2 DEF Considered, TypeOK, Scan
  <2>2. known' = known /\ held' = held /\ cache \subseteq cache'
    BY <1>2 DEF Considered
  <2>3. Found \subseteq Found'
    BY <2>2 DEF Found
  <2>4. CASE s.blob \in cache' /\ Consider(i, s.at, s.refs, wanted, resting, connected)
    <3>1. s.blob \in Found'
      BY <2>4 DEF Found
    <3>2. \/ Cared(x) /\ ~ (InHand(s, x) \/ Later(s, x))
          \/ x \in ToSet(s.refs) \/ x \in Found'
          \/ s.at # 0 /\ \E j \in DOMAIN known : j >= s.at /\ x \in ToSet(Media[known[j]])
      BY <3>1 DEF InHand, Later
    <3>3. QED
      BY <1>0, <2>1, <2>2, <2>3, <2>4, <3>2, ConsiderCares
  <2>5. CASE Consider(i, s.at, s.refs, WantAnyway(s.blob), resting \ {s.blob}, connected)
    <3> DEFINE w == WantAnyway(s.blob)
               r == resting \ {s.blob}
    <3>1. w \in Seq(Blob) /\ ToSet(w) = ToSet(wanted) \cup {s.blob}
      BY <1>0, <2>1, WantAnywayIs DEF TypeOK
    <3>2. \/ Cared(x) /\ ~ (InHand(s, x) \/ Later(s, x))
          \/ x \in ToSet(s.refs) \/ x \in ToSet(w)
          \/ s.at # 0 /\ \E j \in DOMAIN known : j >= s.at /\ x \in ToSet(Media[known[j]])
      BY <3>1 DEF InHand, Later
    <3>3. Consider(i, s.at, s.refs, w, r, connected) /\ ToSet(wanted) \subseteq ToSet(w)
      BY <2>5, <3>1
    <3> HIDE DEF w, r
    <3>4. QED
      BY <1>0, <2>1, <2>2, <2>3, <3>1, <3>2, <3>3, ConsiderCares
  <2>6. QED
    BY <1>2, <2>4, <2>5 DEF Considered
<1>3. ASSUME NEW i \in Calls, RescanNext(i) PROVE Cared(x)'
  <2> DEFINE s == scans[i]
             at == s.at + 1
             refs == Media[known[s.at]]
  <2>1. /\ s.at \in Nat \ {0} /\ at \in Nat /\ at # 0 /\ s.blob = None
        /\ wanted \in Seq(Blob) /\ known \in Seq(Event)
    BY <1>0, <1>3 DEF RescanNext, TypeOK, Scan
  <2>2. UNCHANGED storeVars
    BY <1>3 DEF RescanNext
  <2>3. known' = known /\ Found' = Found
    BY <2>2 DEF storeVars, Found
  <2>4. ~ InHand(s, x)
    BY <1>0, <2>1, BlobsAssumption DEF BetweenIsEmpty, InHand, ToSet
  <2>5. CASE s.at <= Len(known) /\ Consider(i, at, refs, wanted, resting, connected)
    <3>1. refs \in Seq(Blob)
      BY <2>1, <2>5, BlobsAssumption
    <3>2. \/ Cared(x) /\ ~ (InHand(s, x) \/ Later(s, x))
          \/ x \in ToSet(refs)
          \/ at # 0 /\ \E j \in DOMAIN known : j >= at /\ x \in ToSet(Media[known[j]])
      <4>1. CASE Later(s, x)
        <5>1. PICK j \in DOMAIN known : j >= s.at /\ x \in ToSet(Media[known[j]])
          BY <4>1 DEF Later
        <5>2. j \in Nat
          BY <2>1
        <5>3. CASE j = s.at
          BY <5>1, <5>3
        <5>4. CASE j # s.at
          <6>1. j >= at
            BY <2>1, <5>1, <5>2, <5>4
          <6>2. QED
            BY <2>1, <5>1, <6>1
        <5>5. QED
          BY <5>3, <5>4
      <4>2. QED
        BY <2>4, <4>1
    <3> HIDE DEF at, refs
    <3>3. QED
      BY <1>0, <2>1, <2>3, <2>5, <3>1, <3>2, ConsiderCares
  <2>6. CASE s.at > Len(known) /\ scans' = [scans EXCEPT ![i] = NoCall] /\ UNCHANGED <<wanted, dropped>>
    <3>1. ~ Later(s, x)
      BY <2>1, <2>6 DEF Later
    <3>2. CASE x \in Found \/ x \in ToSet(wanted) \/ x \in dropped
      BY <2>3, <2>6, <3>2 DEF Cared
    <3>3. CASE \E j \in Calls : InHand(scans[j], x) \/ Later(scans[j], x)
      <4>1. PICK j \in Calls : InHand(scans[j], x) \/ Later(scans[j], x)
        BY <3>3
      <4>2. j # i
        BY <2>4, <3>1, <4>1
      <4>3. scans'[j] = scans[j]
        BY <2>6, <4>2 DEF TypeOK
      <4>4. QED
        BY <2>3, <4>1, <4>3 DEF Cared, InHand, Later
    <3>4. QED
      BY <3>2, <3>3 DEF Cared
  <2>7. QED
    BY <1>3, <2>5, <2>6 DEF RescanNext
<1>4. ASSUME UNCHANGED <<known, dropped>>, held \subseteq held', cache \subseteq cache',
             \A i \in Calls : scans[i] # NoCall => scans'[i] = scans[i],
             \A y \in ToSet(wanted) : y \in ToSet(wanted') \/ y \in Found'
      PROVE  Cared(x)'
  <2>1. Found \subseteq Found'
    BY <1>4 DEF Found
  <2>2. QED
    BY <1>0, <1>4, <2>1, CaredKept
<1>5. ASSUME NEW p \in Peer, Connect(p) PROVE Cared(x)'
  <2>1. PICK i \in Calls : scans[i] = NoCall /\ scans' = [scans EXCEPT ![i] = Between(1)]
    BY <1>5 DEF Connect, Free
  <2>2. \A j \in Calls : scans[j] # NoCall => scans'[j] = scans[j]
    BY <1>0, <2>1 DEF TypeOK
  <2>3. UNCHANGED <<known, dropped, held, cache, wanted>>
    BY <1>5 DEF Connect, storeVars
  <2>4. QED
    BY <1>4, <2>2, <2>3
<1>6. ASSUME NEW b \in Blob, FetchEnds(b) PROVE Cared(x)'
  <2>1. UNCHANGED <<known, dropped, cache, scans>>
    BY <1>6 DEF FetchEnds, Stored, Persist, NotStored, FetchStep
  <2>2. b \in ToSet(wanted)
    BY <1>0, <1>6 DEF FetchEnds, Stored, Persist, NotStored, InFlight, TypeOK
  <2>3. CASE wanted' = Without(wanted, b) /\ held' = held \cup {b}
    <3>1. ToSet(wanted') = ToSet(wanted) \ {b}
      BY <1>0, <2>2, <2>3, WithoutIs DEF TypeOK
    <3>2. b \in Found' /\ held \subseteq held'
      BY <2>3 DEF Found
    <3>3. QED
      BY <1>4, <2>1, <3>1, <3>2
  <2>4. CASE wanted' = wanted /\ held' = held
    BY <1>4, <2>1, <2>4
  <2>5. QED
    BY <1>6, <2>3, <2>4 DEF FetchEnds, Stored, Persist, NotStored, Over
<1>7. ASSUME NEW b \in Blob, Attach(b) PROVE Cared(x)'
  <2>1. UNCHANGED <<known, dropped, wanted, scans>> /\ held \subseteq held' /\ cache \subseteq cache'
    BY <1>7 DEF Attach, PutBlob, Persist
  <2>2. QED
    BY <1>4, <2>1
<1>8. ASSUME NEW p \in Peer, NEW b \in Blob, Answered(b, p) PROVE Cared(x)'
  <2>1. UNCHANGED <<known, dropped, wanted, scans, held>> /\ cache \subseteq cache'
    BY <1>8 DEF Answered, Delivered, Missed, FetchStep
  <2>2. QED
    BY <1>4, <2>1
<1>9. CASE UNCHANGED <<storeVars, wanted, dropped, scans>>
  BY <1>4, <1>9 DEF storeVars
<1>10. CASE UNCHANGED vars
  BY <1>9, <1>10 DEF vars
<1>11. CASE \/ \E b \in Blob : BackoffOver(b)
            \/ \E p \in Peer : Identify(p) \/ Disconnect(p)
            \/ \E p \in Peer, b \in Blob : Gains(p, b)
            \/ SyncReceived \/ TimerFires
  BY <1>9, <1>11 DEF BackoffOver, Identify, Disconnect, Gains, SyncReceived, TimerFires
<1>12. QED
  BY <1>1, <1>2, <1>3, <1>5, <1>6, <1>7, <1>8, <1>10, <1>11 DEF Next, ScanStep

LEMMA ForgottenNext == ForgottenInv /\ TypeOK' /\ [Next]_vars => NothingForgotten'
<1> SUFFICES ASSUME ForgottenInv, TypeOK', [Next]_vars PROVE NothingForgotten'
  OBVIOUS
<1>1. TypeOK /\ NothingForgotten
  BY DEF ForgottenInv
<1>2. ASSUME NEW e \in ToSet(known'), NEW x \in ToSet(Media[e]) PROVE Cared(x)'
  <2>1. e \in Event /\ Media[e] \in Seq(Blob) /\ x \in Blob
    <3>1. known' \in Seq(Event)
      BY DEF TypeOK
    <3>2. e \in Event /\ Media[e] \in Seq(Blob)
      BY <3>1, ElementsAreFinite, BlobsAssumption
    <3>3. QED
      BY <3>2, ElementsAreFinite
  <2>2. CASE e \in ToSet(known)
    BY <1>1, <2>1, <2>2, CaredIs, CaredNext DEF AllCared
  <2>3. CASE e \notin ToSet(known)
    <3>1. known' # known
      BY <2>3
    <3>2. PICK f \in Event : EventStored(f)
      BY <3>1 DEF Next, vars, storeVars, Attach, PutBlob, Persist, ScanStep, Considered,
                  RescanNext, Connect,
                  Identify, Disconnect, SyncReceived, Gains, Answered, Delivered, Missed,
                  FetchStep, FetchEnds, Stored, NotStored, BackoffOver, TimerFires
    <3>3. known \in Seq(Event) /\ known' = Append(known, f)
      BY <1>1, <3>2 DEF EventStored, TypeOK
    <3>4. e = f
      BY <2>3, <3>3 DEF ToSet
    <3>5. PICK i \in Calls : Consider(i, 0, Media[e], wanted, resting, connected)
      BY <3>2, <3>4 DEF EventStored
    <3>6. wanted \in Seq(Blob) /\ Found' = Found
      BY <1>1, <3>2 DEF TypeOK, EventStored, Found
    <3>7. QED
      BY <1>1, <2>1, <3>3, <3>5, <3>6, ConsiderCares
  <2>4. QED
    BY <2>2, <2>3
<1>3. (TypeOK => (NothingForgotten <=> AllCared))'
  BY CaredIs, PTL
<1>4. QED
  BY <1>2, <1>3 DEF AllCared

(***************************************************************************)
(* No medium of a stored event is lost sight of, whatever the peers, the   *)
(* calls and the user do at the same time: it is found here, wanted, still *)
(* to be looked at by a call under way, or was left out at the ceiling     *)
(* (blobs.js:98-118, 158-167).                                             *)
(***************************************************************************)
THEOREM MediaNotForgotten == Spec => []NothingForgotten
<1>1. Init => ForgottenInv
  BY TypesInit, BetweenInit, ForgottenInit DEF ForgottenInv
<1>2. ForgottenInv /\ [Next]_vars => ForgottenInv'
  BY TypesNext, BetweenNext, ForgottenNext DEF ForgottenInv
<1>3. ForgottenInv => NothingForgotten
  BY DEF ForgottenInv
<1>4. QED
  BY <1>1, <1>2, <1>3, PTL DEF Spec
=============================================================================
