---------------------------- MODULE ClientProofs ----------------------------
(***************************************************************************)
(* Theorems about Client, for any routes, any finite set of peers, any     *)
(* limits and any number of failures, moves and dropped connections.       *)
(***************************************************************************)
EXTENDS Client, FiniteSetTheorems, SequenceTheorems, WellFoundedInduction, TLAPS

-----------------------------------------------------------------------------
(* Sequences *)

LEMMA LeastExists ==
    ASSUME NEW D, D \subseteq Nat, D # {}
    PROVE  \E i \in D : \A j \in D : i <= j
<1>1. IsWellFoundedOn(OpToRel(<, Nat), Nat)
  BY NatLessThanWellFounded
<1>2. PICK i \in D : \A j \in D : ~(<<j, i>> \in OpToRel(<, Nat))
  BY <1>1, WFMin
<1>3. \A j \in D : ~(j < i)
  BY <1>2 DEF OpToRel
<1>4. QED
  BY <1>3

LEMMA ElementsAre ==
    ASSUME NEW S, NEW s \in Seq(S)
    PROVE  /\ IsFiniteSet(ToSet(s)) /\ ToSet(s) \subseteq S
           /\ \A i \in 1..Len(s) : s[i] \in ToSet(s)
           /\ \A r \in ToSet(s) : \E i \in 1..Len(s) : s[i] = r
<1>1. DOMAIN s = 1..Len(s) /\ IsFiniteSet(1..Len(s))
  BY FS_Interval
<1>2. s \in Surjection(1..Len(s), ToSet(s))
  BY <1>1 DEF Surjection, ToSet
<1>3. IsFiniteSet(ToSet(s))
  BY <1>1, <1>2, FS_Surjection
<1>4. QED
  BY <1>1, <1>3 DEF ToSet

LEMMA FirstIs ==
    ASSUME NEW S, NEW s \in Seq(S), NEW r, \E i \in 1..Len(s) : s[i] = r
    PROVE  /\ First(s, r) \in 1..Len(s) /\ First(s, r) \in Nat /\ s[First(s, r)] = r
           /\ \A i \in 1..Len(s) : s[i] = r => First(s, r) <= i
<1> DEFINE D == {i \in 1..Len(s) : s[i] = r}
<1>1. PICK i \in D : \A j \in D : i <= j
  <2>1. D \subseteq Nat /\ D # {}
    OBVIOUS
  <2> HIDE DEF D
  <2>2. QED
    BY <2>1, LeastExists
<1>2. \E k \in DOMAIN s : s[k] = r /\ \A j \in 1..(k - 1) : s[j] # r
  <2>1. \A j \in 1..(i - 1) : j \in 1..Len(s) /\ ~(i <= j)
    OBVIOUS
  <2>2. \A j \in 1..(i - 1) : s[j] # r
    BY <1>1, <2>1
  <2>3. QED
    BY <2>2
<1> DEFINE f == First(s, r)
<1>3. f \in DOMAIN s /\ s[f] = r /\ \A j \in 1..(f - 1) : s[j] # r
  BY <1>2 DEF First
<1> HIDE DEF f
<1>4. \A k \in 1..Len(s) : s[k] = r => f <= k
  <2> SUFFICES ASSUME NEW k \in 1..Len(s), s[k] = r, ~(f <= k) PROVE FALSE
    OBVIOUS
  <2>1. k \in 1..(f - 1)
    BY <1>3
  <2>2. QED
    BY <1>3, <2>1
<1>5. QED
  BY <1>3, <1>4 DEF f

LEMMA CutIs ==
    ASSUME NEW S, NEW s \in Seq(S), NEW n \in Nat
    PROVE  /\ Cut(s, n) \in Seq(S)
           /\ \A i \in 1..Len(s) : i <= n => s[i] \in ToSet(Cut(s, n))
<1> DEFINE m == IF Len(s) < n THEN Len(s) ELSE n
           c == SubSeq(s, 1, m)
<1>1. m \in 0..Len(s) /\ \A i \in 1..Len(s) : i <= n => i \in 1..m
  OBVIOUS
<1> HIDE DEF m
<1>2. c \in Seq(S) /\ Len(c) = m /\ DOMAIN c = 1..m /\ \A i \in 1..m : c[i] = s[i]
  BY <1>1
<1>3. \A i \in 1..m : s[i] \in ToSet(c)
  BY <1>2 DEF ToSet
<1>4. QED
  BY <1>1, <1>2, <1>3 DEF Cut, m

(***************************************************************************)
(* Ranked puts every element of R where as many stand before it as have a  *)
(* smaller place.                                                          *)
(***************************************************************************)
LEMMA RankedIs ==
    ASSUME NEW R, IsFiniteSet(R), NEW place \in [R -> Nat],
           \A q, r \in R : place[q] = place[r] => q = r
    PROVE  /\ Ranked(R, place) \in Seq(R) /\ Len(Ranked(R, place)) = Cardinality(R)
           /\ \A r \in R : LET i == Cardinality(Ahead(R, place, r)) + 1
                           IN  i \in 1..Cardinality(R) /\ Ranked(R, place)[i] = r
<1> DEFINE n == Cardinality(R)
           f == [r \in R |-> Cardinality(Ahead(R, place, r)) + 1]
<1>0. n \in Nat
  BY FS_CardinalityType
<1>1. ASSUME NEW r \in R
      PROVE  IsFiniteSet(Ahead(R, place, r)) /\ Cardinality(Ahead(R, place, r)) \in Nat /\ f[r] \in 1..n
  <2>1. Ahead(R, place, r) \in SUBSET R /\ r \notin Ahead(R, place, r)
    BY DEF Ahead
  <2>2. /\ IsFiniteSet(Ahead(R, place, r)) /\ Cardinality(Ahead(R, place, r)) <= n /\ Cardinality(Ahead(R, place, r)) # n
        /\ Cardinality(Ahead(R, place, r)) \in Nat
    BY <2>1, FS_Subset, FS_CardinalityType
  <2>3. f[r] = Cardinality(Ahead(R, place, r)) + 1
    OBVIOUS
  <2> HIDE DEF f, n
  <2>4. QED
    BY <1>0, <2>2, <2>3
<1>2. ASSUME NEW q \in R, NEW r \in R, place[q] < place[r] PROVE f[q] # f[r]
  <2>1. Ahead(R, place, q) \in SUBSET Ahead(R, place, r)
    <3>1. \A t \in R : place[t] \in Nat
      OBVIOUS
    <3>2. QED
      BY <1>2, <3>1 DEF Ahead
  <2>2. q \in Ahead(R, place, r) /\ q \notin Ahead(R, place, q)
    BY <1>2 DEF Ahead
  <2>3. Cardinality(Ahead(R, place, q)) # Cardinality(Ahead(R, place, r))
    BY <1>1, <2>1, <2>2, FS_Subset
  <2>4. QED
    BY <1>1, <2>3
<1>3. \A q, r \in R : f[q] = f[r] => q = r
  <2> SUFFICES ASSUME NEW q \in R, NEW r \in R, q # r PROVE f[q] # f[r]
    OBVIOUS
  <2> HIDE DEF f
  <2>1. place[q] < place[r] \/ place[r] < place[q]
    <3>1. place[q] \in Nat /\ place[r] \in Nat /\ place[q] # place[r]
      OBVIOUS
    <3>2. QED
      BY <3>1
  <2>2. QED
    BY <1>2, <2>1
<1>4. \A k \in 1..n : \E r \in R : f[r] = k
  <2>1. f \in [R -> 1..n]
    BY <1>1
  <2>2. f \in Injection(R, 1..n)
    BY <1>3, <2>1 DEF Injection, IsInjective
  <2>3. IsFiniteSet(1..n) /\ Cardinality(1..n) = n
    BY <1>0, FS_Interval
  <2>4. f \in Surjection(R, 1..n)
    BY <2>2, <2>3, FS_Injection
  <2>5. QED
    BY <2>4 DEF Surjection
<1>5. ASSUME NEW k \in 1..n, NEW r \in R, f[r] = k
      PROVE  (CHOOSE t \in R : Cardinality(Ahead(R, place, t)) = k - 1) = r
  <2>1. Cardinality(Ahead(R, place, r)) = k - 1
    <3>1. f[r] = Cardinality(Ahead(R, place, r)) + 1 /\ Cardinality(Ahead(R, place, r)) \in Nat
      BY <1>1
    <3> HIDE DEF f
    <3>2. QED
      BY <1>5, <3>1
  <2>2. ASSUME NEW t \in R, Cardinality(Ahead(R, place, t)) = k - 1 PROVE t = r
    <3>1. f[t] = k
      BY <1>1, <2>2
    <3> HIDE DEF f
    <3>2. QED
      BY <1>3, <1>5, <3>1
  <2>3. QED
    BY <2>1, <2>2
<1> DEFINE s == Ranked(R, place)
<1>6. s = [k \in 1..n |-> CHOOSE t \in R : Cardinality(Ahead(R, place, t)) = k - 1]
  BY DEF Ranked
<1>7. \A r \in R : f[r] \in 1..n /\ s[f[r]] = r
  <2> HIDE DEF f
  <2>1. QED
    BY <1>1, <1>5, <1>6
<1>8. \A k \in 1..n : s[k] \in R
  <2> SUFFICES ASSUME NEW k \in 1..n PROVE s[k] \in R
    OBVIOUS
  <2>1. PICK r \in R : f[r] = k
    BY <1>4
  <2> HIDE DEF f, s
  <2>2. QED
    BY <1>7, <2>1
<1>9. s \in Seq(R) /\ Len(s) = n
  <2> HIDE DEF n
  <2>1. s \in [1..n -> R]
    BY <1>6, <1>8
  <2> HIDE DEF s
  <2>2. QED
    BY <1>0, <2>1
<1>10. \A r \in R : f[r] = Cardinality(Ahead(R, place, r)) + 1
  OBVIOUS
<1> HIDE DEF s, f, n
<1>11. QED
  BY <1>7, <1>9, <1>10 DEF s, n

-----------------------------------------------------------------------------
(* The lists of routes *)

LEMMA InOrderIs ==
    ASSUME NEW s \in Seq(Route), NEW R \in SUBSET ToSet(s)
    PROVE  /\ InOrder(R, s) \in Seq(Route)
           /\ \A r \in R : \E i \in DOMAIN InOrder(R, s) : InOrder(R, s)[i] = r
<1> DEFINE place == [r \in R |-> First(s, r)]
<1>1. IsFiniteSet(R) /\ R \subseteq Route
  BY ElementsAre, FS_Subset
<1>2. \A r \in R : First(s, r) \in Nat /\ s[First(s, r)] = r
  BY ElementsAre, FirstIs
<1>3. place \in [R -> Nat] /\ \A q, r \in R : place[q] = place[r] => q = r
  BY <1>2
<1> HIDE DEF place
<1>4. /\ Ranked(R, place) \in Seq(R) /\ Len(Ranked(R, place)) = Cardinality(R)
      /\ \A r \in R : LET i == Cardinality(Ahead(R, place, r)) + 1
                      IN  i \in 1..Cardinality(R) /\ Ranked(R, place)[i] = r
  BY <1>1, <1>3, RankedIs
<1>5. DOMAIN Ranked(R, place) = 1..Cardinality(R) /\ Ranked(R, place) \in Seq(Route)
  BY <1>1, <1>4
<1>6. \A r \in R : \E i \in DOMAIN Ranked(R, place) : Ranked(R, place)[i] = r
  BY <1>4, <1>5
<1>7. QED
  BY <1>5, <1>6 DEF InOrder, place

\* new Set of a list of routes leaves no route out.
LEMMA UniqueIs ==
    ASSUME NEW s \in Seq(Route)
    PROVE  /\ Unique(s) \in Seq(Route)
           /\ \A i \in 1..Len(s) : \E j \in DOMAIN Unique(s) : Unique(s)[j] = s[i]
<1>1. \A i \in 1..Len(s) : s[i] \in ToSet(s)
  BY ElementsAre
<1> DEFINE R == ToSet(s)
<1>2. R \in SUBSET ToSet(s) /\ Unique(s) = InOrder(R, s)
  BY DEF Unique
<1> HIDE DEF R
<1>3. /\ InOrder(R, s) \in Seq(Route)
      /\ \A r \in R : \E i \in DOMAIN InOrder(R, s) : InOrder(R, s)[i] = r
  BY <1>2, InOrderIs
<1>4. QED
  BY <1>1, <1>2, <1>3 DEF R

LEMMA PublicPeerRoutesTypes ==
    ASSUME NEW s \in Seq(Route), NEW known
    PROVE  PublicPeerRoutes(s, known) \in Seq(Route)
<1> DEFINE R == {r \in ToSet(s) : PeerOf[r] \in PeersOf(known)}
<1>1. InOrder(R, s) \in Seq(Route)
  BY InOrderIs
<1>2. QED
  BY <1>1, CutIs, ClientAssumption DEF PublicPeerRoutes

\* Places of mergePeerRoutes: by the index in its group first, then by the group.
LEMMA PlacesDiffer ==
    ASSUME NEW s \in Seq(Route)
    PROVE  \A r \in ToSet(s) :
             /\ Group(s, r) \in 1..Len(s)
             /\ PeerOf[s[Group(s, r)]] = PeerOf[r]
             /\ \A i \in 1..Len(s) : PeerOf[s[i]] = PeerOf[r] => Group(s, r) <= i
             /\ First(s, r) \in 1..Len(s) /\ s[First(s, r)] = r
             /\ Index(s, r) \in Nat
             /\ Index(s, r) = 0 => First(s, r) = Group(s, r)
<1> SUFFICES ASSUME NEW r \in ToSet(s)
             PROVE  /\ Group(s, r) \in 1..Len(s)
                    /\ PeerOf[s[Group(s, r)]] = PeerOf[r]
                    /\ \A i \in 1..Len(s) : PeerOf[s[i]] = PeerOf[r] => Group(s, r) <= i
                    /\ First(s, r) \in 1..Len(s) /\ s[First(s, r)] = r
                    /\ Index(s, r) \in Nat
                    /\ Index(s, r) = 0 => First(s, r) = Group(s, r)
  OBVIOUS
<1> DEFINE peers == [i \in DOMAIN s |-> PeerOf[s[i]]]
           before == {q \in ToSet(s) : PeerOf[q] = PeerOf[r] /\ First(s, q) < First(s, r)}
<1>1. peers \in Seq(Peer) /\ Len(peers) = Len(s) /\ \A i \in 1..Len(s) : peers[i] = PeerOf[s[i]]
  BY DEF Peer
<1>2. First(s, r) \in 1..Len(s) /\ s[First(s, r)] = r
  BY ElementsAre, FirstIs
<1>3. /\ Group(s, r) \in 1..Len(s) /\ PeerOf[s[Group(s, r)]] = PeerOf[r]
      /\ \A i \in 1..Len(s) : PeerOf[s[i]] = PeerOf[r] => Group(s, r) <= i
  <2> HIDE DEF peers
  <2>1. peers[First(s, r)] = PeerOf[r]
    BY <1>1, <1>2
  <2>2. /\ First(peers, PeerOf[r]) \in 1..Len(peers)
        /\ peers[First(peers, PeerOf[r])] = PeerOf[r]
        /\ \A i \in 1..Len(peers) : peers[i] = PeerOf[r] => First(peers, PeerOf[r]) <= i
    BY <1>1, <1>2, <2>1, FirstIs
  <2>3. Group(s, r) = First(peers, PeerOf[r])
    BY DEF Group, peers
  <2>4. QED
    BY <1>1, <2>2, <2>3
<1>4. before \in SUBSET ToSet(s) /\ Index(s, r) = Cardinality(before)
  BY DEF Index
<1>5. IsFiniteSet(before) /\ Index(s, r) \in Nat
  <2> HIDE DEF before
  <2>1. QED
    BY <1>4, ElementsAre, FS_Subset, FS_CardinalityType
<1>6. ASSUME Index(s, r) = 0 PROVE First(s, r) = Group(s, r)
  <2>1. before = {}
    <3> HIDE DEF before
    <3>1. QED
      BY <1>4, <1>5, <1>6, FS_EmptySet
  <2> DEFINE q == s[Group(s, r)]
  <2>2. q \in ToSet(s) /\ PeerOf[q] = PeerOf[r]
    BY <1>3, ElementsAre
  <2>3. First(s, q) \in 1..Len(s) /\ First(s, q) <= Group(s, r)
    BY <1>3, <2>2, FirstIs
  <2>4. ~(First(s, q) < First(s, r))
    BY <2>1, <2>2
  <2>5. Group(s, r) <= First(s, r)
    BY <1>2, <1>3
  <2> HIDE DEF q
  <2>6. QED
    BY <1>2, <1>3, <2>3, <2>4, <2>5
<1>7. QED
  BY <1>2, <1>3, <1>5, <1>6

LEMMA Lexicographic ==
    ASSUME NEW a \in Nat, NEW b \in Nat, NEW n \in Nat, NEW g \in 1..n, NEW h \in 1..n, a < b
    PROVE  a * n + g < b * n + h
<1> DEFINE d == b - a - 1
<1>1. d \in Nat /\ b = a + 1 + d
  OBVIOUS
<1> HIDE DEF d
<1>2. b * n = a * n + n + d * n
  BY <1>1
<1>3. d * n \in Nat /\ a * n \in Nat
  BY <1>1
<1>4. QED
  BY <1>2, <1>3

(***************************************************************************)
(* mergePeerRoutes of lists of routes is one, and no peer of either is     *)
(* left out while there are no more peers than the list has room for: the  *)
(* first route of a peer stands behind first routes of other peers only.   *)
(***************************************************************************)
LEMMA MergeIs ==
    ASSUME NEW fresh \in Seq(Route), NEW old \in Seq(Route)
    PROVE  /\ MergePeerRoutes(fresh, old) \in Seq(Route)
           /\ Cardinality(Peer) <= Limit =>
                PeersOf(old) \subseteq PeersOf(MergePeerRoutes(fresh, old))
<1> DEFINE s == fresh \o old
           R == ToSet(s)
           n == Len(s)
           place == [r \in R |-> Index(s, r) * n + Group(s, r)]
           ranked == Ranked(R, place)
<1>1. /\ s \in Seq(Route) /\ n \in Nat
      /\ \A p \in PeersOf(old) : \E i \in 1..n : PeerOf[s[i]] = p
  <2>1. s \in Seq(Route) /\ Len(s) = Len(fresh) + Len(old)
    OBVIOUS
  <2>2. \A i \in 1..Len(old) : Len(fresh) + i \in 1..n /\ s[Len(fresh) + i] = old[i]
    OBVIOUS
  <2>3. DOMAIN old = 1..Len(old)
    OBVIOUS
  <2> HIDE DEF s
  <2>4. QED
    BY <2>1, <2>2, <2>3 DEF PeersOf
<1> HIDE DEF s
<1>2. /\ IsFiniteSet(R) /\ R \subseteq Route
      /\ \A i \in 1..n : s[i] \in R
  BY <1>1, ElementsAre
<1>3. \A r \in R : /\ Group(s, r) \in 1..n /\ PeerOf[s[Group(s, r)]] = PeerOf[r]
                   /\ \A i \in 1..n : PeerOf[s[i]] = PeerOf[r] => Group(s, r) <= i
                   /\ First(s, r) \in 1..n /\ s[First(s, r)] = r
                   /\ Index(s, r) \in Nat
                   /\ Index(s, r) = 0 => First(s, r) = Group(s, r)
  BY <1>1, PlacesDiffer
<1>4. \A r \in R : place[r] = Index(s, r) * n + Group(s, r) /\ place[r] \in Nat
  <2> SUFFICES ASSUME NEW r \in R PROVE Index(s, r) * n + Group(s, r) \in Nat
    OBVIOUS
  <2>1. Index(s, r) \in Nat /\ Group(s, r) \in Nat
    BY <1>3
  <2> HIDE DEF n
  <2>2. QED
    BY <1>1, <2>1
<1>5. place \in [R -> Nat]
  BY <1>4
<1> HIDE DEF place, R, n
<1>6. ASSUME NEW q \in R, NEW r \in R, Index(s, q) < Index(s, r) PROVE place[q] < place[r]
  <2> DEFINE a == Index(s, q)
             b == Index(s, r)
             g == Group(s, q)
             h == Group(s, r)
  <2>1. a \in Nat /\ b \in Nat /\ g \in 1..n /\ h \in 1..n /\ a < b
    BY <1>3, <1>6
  <2>2. place[q] = a * n + g /\ place[r] = b * n + h
    BY <1>4
  <2> HIDE DEF a, b, g, h
  <2>3. a * n + g < b * n + h
    BY <1>1, <2>1, Lexicographic
  <2>4. QED
    BY <2>2, <2>3
<1>7. ASSUME NEW q \in R, NEW r \in R, Index(s, q) = Index(s, r), PeerOf[q] = PeerOf[r]
      PROVE  q = r
  <2>1. ASSUME NEW x \in R, NEW y \in R, PeerOf[x] = PeerOf[y], First(s, x) < First(s, y)
        PROVE  Index(s, x) # Index(s, y)
    <3> DEFINE X == {t \in R : PeerOf[t] = PeerOf[x] /\ First(s, t) < First(s, x)}
               Y == {t \in R : PeerOf[t] = PeerOf[y] /\ First(s, t) < First(s, y)}
    <3>0. \A t \in R : First(s, t) \in Nat
      BY <1>3
    <3>1. X \in SUBSET Y /\ x \in Y /\ x \notin X /\ Y \in SUBSET R
      BY <2>1, <3>0
    <3>2. Index(s, x) = Cardinality(X) /\ Index(s, y) = Cardinality(Y)
      BY DEF Index, R
    <3> HIDE DEF X, Y
    <3>3. QED
      BY <1>2, <3>1, <3>2, FS_Subset
  <2>2. ~(First(s, q) < First(s, r)) /\ ~(First(s, r) < First(s, q))
    BY <1>7, <2>1
  <2>3. First(s, q) = First(s, r)
    BY <1>3, <2>2
  <2>4. QED
    BY <1>3, <2>3
<1>8. \A q, r \in R : place[q] = place[r] => q = r
  <2> SUFFICES ASSUME NEW q \in R, NEW r \in R, place[q] = place[r] PROVE q = r
    OBVIOUS
  <2>1. Index(s, q) = Index(s, r)
    <3>1. place[q] \in Nat /\ place[r] \in Nat /\ Index(s, q) \in Nat /\ Index(s, r) \in Nat
      BY <1>3, <1>4
    <3>2. ~(Index(s, q) < Index(s, r)) /\ ~(Index(s, r) < Index(s, q))
      BY <1>6, <3>1
    <3>3. QED
      BY <3>1, <3>2
  <2>2. Group(s, q) = Group(s, r)
    <3> DEFINE m == Index(s, r) * n
    <3>1. m \in Nat /\ m + Group(s, q) = m + Group(s, r)
      BY <1>1, <1>3, <1>4, <2>1
    <3>2. Group(s, q) \in Nat /\ Group(s, r) \in Nat
      BY <1>3
    <3> HIDE DEF m
    <3>3. QED
      BY <3>1, <3>2
  <2>3. PeerOf[q] = PeerOf[r]
    BY <1>3, <2>2
  <2>4. QED
    BY <1>7, <2>1, <2>3
<1>9. /\ ranked \in Seq(R) /\ Len(ranked) = Cardinality(R)
      /\ \A r \in R : LET i == Cardinality(Ahead(R, place, r)) + 1
                      IN  i \in 1..Cardinality(R) /\ ranked[i] = r
  <2>1. \A q, r \in R : place[q] = place[r] => q = r
    BY <1>8
  <2>2. /\ Ranked(R, place) \in Seq(R) /\ Len(Ranked(R, place)) = Cardinality(R)
        /\ \A r \in R : LET i == Cardinality(Ahead(R, place, r)) + 1
                        IN  i \in 1..Cardinality(R) /\ Ranked(R, place)[i] = r
    BY <1>2, <1>5, <2>1, RankedIs
  <2>3. QED
    BY <2>2
<1>10. ranked \in Seq(Route)
  <2> HIDE DEF ranked
  <2>1. QED
    BY <1>2, <1>9
<1>11. MergePeerRoutes(fresh, old) = Cut(ranked, Limit) /\ Limit \in Nat
  BY ClientAssumption DEF MergePeerRoutes, s, R, place, n
<1>12. ASSUME NEW p \in PeersOf(old), Cardinality(Peer) <= Limit
       PROVE  p \in PeersOf(Cut(ranked, Limit))
  <2>1. PICK i \in 1..n : PeerOf[s[i]] = p
    BY <1>1
  <2> DEFINE g == Group(s, s[i])
             r == s[g]
  <2>2. g \in 1..n /\ r \in R /\ PeerOf[r] = p
    BY <1>2, <1>3, <2>1
  <2>3. Group(s, r) = g
    <3>1. s[i] \in R
      BY <1>2
    <3>2. \A j \in 1..n : PeerOf[s[j]] = p => g <= j
      BY <1>3, <2>1, <3>1
    <3> HIDE DEF g, r
    <3>3. Group(s, r) \in 1..n /\ PeerOf[s[Group(s, r)]] = p
      BY <1>3, <2>2
    <3>4. g <= Group(s, r)
      BY <3>2, <3>3
    <3>5. Group(s, r) <= g
      BY <1>3, <2>2 DEF r
    <3>6. QED
      BY <1>1, <2>2, <3>3, <3>4, <3>5
  <2>4. First(s, r) = g
    <3>1. First(s, r) <= g
      BY <1>1, <2>2, FirstIs DEF n
    <3>2. g <= First(s, r)
      BY <1>3, <2>2, <2>3
    <3>3. QED
      BY <1>3, <2>2, <3>1, <3>2
  <2> HIDE DEF g, r
  <2>5. Index(s, r) = 0
    <3> DEFINE B == {t \in ToSet(s) : PeerOf[t] = PeerOf[r] /\ First(s, t) < First(s, r)}
    <3>1. \A t \in R : PeerOf[t] = PeerOf[r] => g <= First(s, t)
      BY <1>3, <2>2, <2>3
    <3>2. \A t \in R : First(s, t) \in Nat
      BY <1>3
    <3>3. B = {}
      BY <2>2, <2>4, <3>1, <3>2 DEF R
    <3>4. QED
      BY <3>3, FS_EmptySet DEF Index
  <2>6. \A q \in Ahead(R, place, r) : q \in R /\ Index(s, q) = 0 /\ q # r
    <3> SUFFICES ASSUME NEW q \in Ahead(R, place, r) PROVE q \in R /\ Index(s, q) = 0 /\ q # r
      OBVIOUS
    <3>1. q \in R /\ place[q] < place[r]
      BY DEF Ahead
    <3>2. place[q] \in Nat /\ place[r] \in Nat /\ Index(s, q) \in Nat
      BY <1>3, <1>4, <2>2, <3>1
    <3>3. ~(Index(s, r) < Index(s, q))
      BY <1>6, <2>2, <3>1, <3>2
    <3>4. QED
      BY <2>5, <3>1, <3>2, <3>3
  <2> DEFINE h == [q \in Ahead(R, place, r) |-> PeerOf[q]]
  <2>7. h \in Injection(Ahead(R, place, r), Peer \ {p})
    <3>1. \A q \in Ahead(R, place, r) : PeerOf[q] \in Peer
      BY <1>2, <2>6 DEF Peer
    <3>2. \A q \in Ahead(R, place, r) : PeerOf[q] # p
      BY <1>7, <2>2, <2>5, <2>6
    <3>3. \A q, t \in Ahead(R, place, r) : PeerOf[q] = PeerOf[t] => q = t
      BY <1>7, <2>6
    <3>4. QED
      BY <3>1, <3>2, <3>3 DEF Injection, IsInjective
  <2>8. p \in Peer
    BY <1>2, <2>2 DEF Peer
  <2>9. IsFiniteSet(Peer \ {p}) /\ Cardinality(Peer \ {p}) = Cardinality(Peer) - 1
        /\ Cardinality(Peer) \in Nat
    BY <2>8, FS_RemoveElement, FS_CardinalityType, ClientAssumption
  <2>10. Cardinality(Ahead(R, place, r)) + 1 <= Limit
    <3>1. IsFiniteSet(Ahead(R, place, r)) /\ Cardinality(Ahead(R, place, r)) <= Cardinality(Peer \ {p})
      BY <2>7, <2>9, FS_Injection
    <3>2. Cardinality(Ahead(R, place, r)) \in Nat
      BY <3>1, FS_CardinalityType
    <3>3. QED
      BY <1>11, <1>12, <2>9, <3>1, <3>2
  <2>11. r \in ToSet(Cut(ranked, Limit))
    <3> DEFINE k == Cardinality(Ahead(R, place, r)) + 1
    <3>1. k \in 1..Len(ranked) /\ ranked[k] = r /\ k <= Limit
      BY <1>9, <2>2, <2>10
    <3> HIDE DEF k, ranked
    <3>2. QED
      BY <1>10, <1>11, <3>1, CutIs
  <2>12. QED
    BY <2>2, <2>11 DEF PeersOf, ToSet
<1>13. QED
  BY <1>10, <1>11, <1>12, CutIs

-----------------------------------------------------------------------------
(* Types *)

LEMMA TypesInit == Init => TypeOK
<1> SUFFICES ASSUME Init PROVE TypeOK
  OBVIOUS
<1>1. saved \in Seq(Route) /\ learned \in Seq(Route)
  BY ClientAssumption DEF Init
<1>2. /\ at \in [Peer -> Route] /\ published = at
      /\ \A p \in Peer : PeerOf[at[p]] = p
  BY DEF Init
<1>3. /\ dial \in [Peer -> {"none", "saved", "waiting", "fresh"}]
      /\ tried \in [Peer -> SUBSET Route]
      /\ lookup \in [Peer -> {<<>>, <<"pending">>} \cup {<<r>> : r \in Route \cup {None}}]
  BY DEF Init
<1>4. /\ net \in {"off", "starting", "up"} /\ stop \in {"no", "asked", "done"}
      /\ inFlight \in BOOLEAN /\ conn \subseteq Peer
  BY DEF Init
<1>5. link \in Route \cup {None}
  BY ClientAssumption DEF Init
<1>6. QED
  BY <1>1, <1>2, <1>3, <1>4, <1>5 DEF TypeOK

LEMMA PollIs ==
    ASSUME TypeOK, Poll
    PROVE  /\ saved' \in Seq(Route) /\ learned' \in Seq(Route) /\ inFlight' \in BOOLEAN
           /\ Cardinality(Peer) <= Limit => PeersOf(saved) \subseteq PeersOf(saved')
<1>1. PICK n \in 0..MaxHeard : \E heard \in [1..n -> {r \in Route : PeerOf[r] \in conn}] :
        learned' = Known(heard) /\ SetSaved(Restored(Known(heard)))
  BY DEF Poll
<1>2. PICK heard \in [1..n -> {r \in Route : PeerOf[r] \in conn}] :
        learned' = Known(heard) /\ SetSaved(Restored(Known(heard)))
  BY <1>1
<1>3. n \in Nat /\ heard \in Seq(Route) /\ MaxLearned \in Nat
  BY ClientAssumption
<1> DEFINE all == PublicPeerRoutes(heard, heard) \o learned
           next == Known(heard)
           fresh == PublicPeerRoutes(next, saved \o next)
<1>4. all \in Seq(Route)
  <2>1. PublicPeerRoutes(heard, heard) \in Seq(Route)
    BY <1>3, PublicPeerRoutesTypes
  <2>2. QED
    BY <2>1 DEF TypeOK
<1>5. next = Cut(Unique(all), MaxLearned)
  BY DEF Known
<1> HIDE DEF all, next
<1>6. next \in Seq(Route)
  BY <1>3, <1>4, <1>5, UniqueIs, CutIs
<1>7. fresh \in Seq(Route)
  BY <1>6, PublicPeerRoutesTypes
<1>8. Restored(next) = saved \/ Restored(next) = MergePeerRoutes(fresh, saved)
  BY DEF Restored
<1> HIDE DEF fresh
<1>9. /\ MergePeerRoutes(fresh, saved) \in Seq(Route)
      /\ Cardinality(Peer) <= Limit =>
           PeersOf(saved) \subseteq PeersOf(MergePeerRoutes(fresh, saved))
  BY <1>7, MergeIs DEF TypeOK
<1>10. learned' = next /\ saved' = Restored(next) /\ inFlight' \in {inFlight, FALSE}
  BY <1>2 DEF next, SetSaved
<1>11. QED
  BY <1>6, <1>8, <1>9, <1>10 DEF TypeOK

\* What the link leads to goes in front of the list, and nothing falls out behind.
LEMMA OpenLinkIs ==
    ASSUME TypeOK, OpenLink
    PROVE  /\ saved' \in Seq(Route) /\ inFlight' \in BOOLEAN /\ conn' \subseteq Peer
           /\ PeersOf(saved) \subseteq PeersOf(saved')
<1>1. link \in Route /\ PeerOf[link] \in Peer /\ saved \in Seq(Route)
  BY DEF OpenLink, TypeOK, Peer
<1>2. CASE UNCHANGED <<conn, saved, inFlight>>
  BY <1>2 DEF TypeOK, PeersOf
<1>3. CASE conn' = conn \cup {PeerOf[link]} /\ SetSaved(Unique(<<link>> \o saved))
  <2> DEFINE s == <<link>> \o saved
  <2>1. s \in Seq(Route) /\ \A i \in 1..Len(saved) : i + 1 \in 1..Len(s) /\ s[i + 1] = saved[i]
    BY <1>1
  <2>2. saved' = Unique(s) /\ inFlight' \in {inFlight, FALSE}
    BY <1>3 DEF SetSaved
  <2> HIDE DEF s
  <2>3. /\ Unique(s) \in Seq(Route)
        /\ \A i \in 1..Len(s) : \E j \in DOMAIN Unique(s) : Unique(s)[j] = s[i]
    BY <2>1, UniqueIs
  <2>4. \A i \in 1..Len(saved) : \E j \in DOMAIN saved' : saved'[j] = saved[i]
    BY <2>1, <2>2, <2>3
  <2>5. DOMAIN saved = 1..Len(saved)
    BY <1>1
  <2>6. PeersOf(saved) \subseteq PeersOf(saved')
    BY <2>4, <2>5 DEF PeersOf
  <2>7. QED
    BY <1>1, <1>3, <2>2, <2>3, <2>6 DEF TypeOK
<1>4. QED
  BY <1>2, <1>3 DEF OpenLink

LEMMA TypesNext == TypeOK /\ [Next]_vars => TypeOK'
<1> SUFFICES ASSUME TypeOK, [Next]_vars PROVE TypeOK'
  OBVIOUS
<1>1. CASE EnsureNetwork \/ StartOk \/ StartFails \/ StopAsked
  BY <1>1 DEF EnsureNetwork, StartOk, StartFails, StopAsked, TypeOK, routeVars, dialVars, worldVars
<1>2. CASE StopNode
  BY <1>2 DEF StopNode, NodeStopped, TypeOK, routeVars, worldVars
<1>3. CASE Poll
  <2>1. UNCHANGED <<link, adapterVars, dial, tried, lookup, worldVars, conn>>
    BY <1>3 DEF Poll
  <2>2. saved' \in Seq(Route) /\ learned' \in Seq(Route) /\ inFlight' \in BOOLEAN
    BY <1>3, PollIs
  <2>3. QED
    BY <2>1, <2>2 DEF TypeOK, adapterVars, worldVars
<1>4. CASE OpenLink
  <2>1. UNCHANGED <<learned, adapterVars, dial, tried, lookup, worldVars>> /\ link' = None
    BY <1>4 DEF OpenLink
  <2>2. saved' \in Seq(Route) /\ inFlight' \in BOOLEAN /\ conn' \subseteq Peer
    BY <1>4, OpenLinkIs
  <2>3. QED
    BY <2>1, <2>2 DEF TypeOK, adapterVars, worldVars
<1>5. CASE TryReconnect
  <2>1. {r \in ToSet(saved) : TRUE} \subseteq Route
    BY ElementsAre DEF TypeOK
  <2>2. /\ dial' \in [Peer -> {"none", "saved", "waiting", "fresh"}]
        /\ tried' \in [Peer -> SUBSET Route]
        /\ lookup' \in [Peer -> {<<>>, <<"pending">>} \cup {<<r>> : r \in Route \cup {None}}]
        /\ inFlight' \in BOOLEAN
    BY <1>5, <2>1 DEF TryReconnect, TypeOK
  <2>3. UNCHANGED <<adapterVars, routeVars, worldVars, conn>>
    BY <1>5 DEF TryReconnect
  <2>4. QED
    BY <2>2, <2>3 DEF TypeOK, adapterVars, routeVars, worldVars
<1>6. CASE EndPass
  BY <1>6 DEF EndPass, TypeOK, adapterVars, routeVars, worldVars
<1>7. ASSUME NEW p \in Peer, Reached(p) \/ NotReached(p) \/ Fails(p) PROVE TypeOK'
  BY <1>7 DEF Reached, NotReached, Fails, Settle, TypeOK, adapterVars, routeVars, worldVars
<1>8. ASSUME NEW p \in Peer, DialFresh(p) PROVE TypeOK'
  <2>1. lookup[p][1] \in Route
    BY <1>8 DEF DialFresh, TypeOK
  <2>2. QED
    BY <1>8, <2>1 DEF DialFresh, TypeOK, adapterVars, routeVars, worldVars
<1>9. ASSUME NEW p \in Peer, LookupFinds(p) \/ LookupFails(p) \/ Expire(p) PROVE TypeOK'
  <2>1. lookup' \in [Peer -> {<<>>, <<"pending">>} \cup {<<r>> : r \in Route \cup {None}}]
    BY <1>9 DEF LookupFinds, LookupFails, Expire, TypeOK
  <2>2. UNCHANGED <<adapterVars, routeVars, inFlight, dial, tried, worldVars, conn>>
    BY <1>9 DEF LookupFinds, LookupFails, Expire
  <2>3. QED
    BY <2>1, <2>2 DEF TypeOK, adapterVars, routeVars, worldVars
<1>10. ASSUME NEW p \in Peer, Move(p) PROVE TypeOK'
  BY <1>10 DEF Move, TypeOK, adapterVars, routeVars, dialVars
<1>11. ASSUME NEW p \in Peer, Publish(p) PROVE TypeOK'
  BY <1>11 DEF Publish, TypeOK, adapterVars, routeVars, dialVars
<1>12. ASSUME NEW p \in Peer, Drop(p) \/ Inbound(p) PROVE TypeOK'
  BY <1>12 DEF Drop, Inbound, TypeOK, adapterVars, routeVars, dialVars, worldVars
<1>13. CASE UNCHANGED vars
  BY <1>13 DEF vars, TypeOK, adapterVars, routeVars, dialVars, worldVars
<1>14. QED
  BY <1>1, <1>2, <1>3, <1>4, <1>5, <1>6, <1>7, <1>8, <1>9, <1>10, <1>11, <1>12, <1>13 DEF Next

(***************************************************************************)
(* Every variable keeps to its range: what is kept of the routes is again  *)
(* a list of routes, and a dial has routes to try (local.js, App.jsx).     *)
(***************************************************************************)
THEOREM ClientTypes == Spec => []TypeOK
<1>1. QED
  BY TypesInit, TypesNext, PTL DEF Spec

-----------------------------------------------------------------------------
(* What is kept of the routes, and of a stopped node *)

(***************************************************************************)
(* No step loses a peer: while there are no more peers than the list has   *)
(* room for, whoever had a route in the saved list has one in it after     *)
(* every step, whatever the others announce (peer-routes.js:54-69,         *)
(* App.jsx:126-135).                                                       *)
(***************************************************************************)
THEOREM RoutesKept == Spec => NoPeerForgotten
<1>1. TypeOK /\ [Next]_vars =>
        [Cardinality(Peer) <= Limit => PeersOf(saved) \subseteq PeersOf(saved')]_vars
  <2> SUFFICES ASSUME TypeOK, [Next]_vars, Cardinality(Peer) <= Limit
               PROVE  PeersOf(saved) \subseteq PeersOf(saved')
    OBVIOUS
  <2>1. CASE saved' = saved
    BY <2>1
  <2>2. CASE Poll
    BY <2>2, PollIs
  <2>3. CASE OpenLink
    BY <2>3, OpenLinkIs
  <2>4. ~Poll /\ ~OpenLink => saved' = saved
    BY DEF Next, vars, routeVars, EnsureNetwork, StartOk, StartFails, StopAsked, StopNode,
           NodeStopped, TryReconnect, EndPass, Reached, NotReached, DialFresh, Fails, Settle,
           LookupFinds, LookupFails, Expire, Move, Publish, Drop, Inbound
  <2>5. QED
    BY <2>1, <2>2, <2>3, <2>4
<1>2. QED
  BY ClientTypes, <1>1, PTL DEF Spec, NoPeerForgotten

(***************************************************************************)
(* Once stop or wipe is over no node is up or starting: stop waits for the *)
(* start that is under way, and none begins after it was asked for         *)
(* (local.js:51-61, 156-173).                                              *)
(***************************************************************************)
THEOREM StopIsFinal == Spec => []StoppedStaysDown
<1>1. Init => StoppedStaysDown
  BY DEF Init, StoppedStaysDown
<1>2. StoppedStaysDown /\ TypeOK /\ [Next]_vars => StoppedStaysDown'
  <2> SUFFICES ASSUME StoppedStaysDown, TypeOK, [Next]_vars PROVE StoppedStaysDown'
    OBVIOUS
  <2>1. CASE EnsureNetwork \/ StartOk \/ StartFails \/ StopAsked
    BY <2>1 DEF StoppedStaysDown, EnsureNetwork, StartOk, StartFails, StopAsked
  <2>2. CASE StopNode
    BY <2>2 DEF StoppedStaysDown, TypeOK, StopNode, NodeStopped
  <2>3. CASE UNCHANGED adapterVars
    BY <2>3 DEF StoppedStaysDown, adapterVars
  <2>4. CASE UNCHANGED vars
    BY <2>3, <2>4 DEF vars
  <2>5. CASE Poll \/ OpenLink \/ TryReconnect \/ EndPass
    BY <2>3, <2>5 DEF Poll, OpenLink, TryReconnect, EndPass
  <2>6. ASSUME NEW p \in Peer,
               \/ Reached(p) \/ NotReached(p) \/ DialFresh(p) \/ Fails(p)
               \/ LookupFinds(p) \/ LookupFails(p) \/ Expire(p)
               \/ Move(p) \/ Publish(p) \/ Drop(p) \/ Inbound(p)
        PROVE  UNCHANGED adapterVars
    BY <2>6 DEF Reached, NotReached, DialFresh, Fails, Settle, LookupFinds, LookupFails, Expire,
                Move, Publish, Drop, Inbound
  <2>7. QED
    BY <2>1, <2>2, <2>3, <2>4, <2>5, <2>6 DEF Next
<1>3. QED
  BY ClientTypes, <1>1, <1>2, PTL DEF Spec
=============================================================================
