---------------------------- MODULE Catalog_proofs ----------------------------
(* Proofs about Catalog and the functions of EpgLinking and Lineup it is     *)
(* made of: for every set of accounts and playlists, whatever they list, and *)
(* every configuration.                                                      *)
EXTENDS Catalog, FiniteSetTheorems, SequenceTheorems, WellFoundedInduction, TLAPS

-----------------------------------------------------------------------------
(* Induction and recursion.                                                  *)

(* What holds of 0 and of each number after one it holds of holds up to any  *)
(* bound: a least counterexample has no place.                               *)
LEMMA UpTo ==
  ASSUME NEW L \in Nat, NEW P, 0 \in P, \A n \in 1 .. L : n - 1 \in P => n \in P
  PROVE  \A n \in 0 .. L : n \in P
<1> DEFINE B == {n \in 0 .. L : n \notin P}
<1> SUFFICES ASSUME B # {} PROVE FALSE
  OBVIOUS
<1>1. B \subseteq Nat
  OBVIOUS
<1>2. PICK m \in B : \A k \in B : ~(<<k, m>> \in OpToRel(<, Nat))
  <2> HIDE DEF B
  <2> QED
    BY <1>1, WFMin, NatLessThanWellFounded, Zenon
<1>3. m \in 1 .. L /\ m - 1 \in 0 .. L /\ m - 1 \in Nat /\ m \in Nat /\ m - 1 < m
  OBVIOUS
<1>4. m - 1 \notin B
  BY <1>2, <1>3, Zenon DEF OpToRel
<1> QED
  BY <1>3, <1>4

(* A step function can be iterated from any start.                           *)
IsIteration(g, S, a, L, h) ==
  g \in [0 .. L -> S] /\ g[0] = a /\ \A n \in 1 .. L : g[n] = h[<<g[n - 1], n>>]

LEMMA Iterates ==
  ASSUME NEW S, NEW a \in S, NEW L \in Nat, NEW h \in [S \X Nat -> S]
  PROVE  \E g : IsIteration(g, S, a, L, h)
<1> DEFINE Upto(m, g) == g[0] = a /\ \A n \in 1 .. m : g[n] = h[<<g[n - 1], n>>]
           P == {m \in 0 .. L : \E g \in [0 .. m -> S] : Upto(m, g)}
<1>1. 0 \in P
  <2>1. [n \in 0 .. 0 |-> a] \in [0 .. 0 -> S] /\ Upto(0, [n \in 0 .. 0 |-> a])
    OBVIOUS
  <2>2. \E g \in [0 .. 0 -> S] : Upto(0, g)
    BY <2>1, Zenon
  <2> HIDE DEF Upto
  <2> QED
    BY <2>2
<1>2. ASSUME NEW m \in 1 .. L, m - 1 \in P
      PROVE  m \in P
  <2>1. PICK g \in [0 .. m - 1 -> S] : Upto(m - 1, g)
    BY <1>2
  <2> DEFINE e == [n \in 0 .. m |-> IF n < m THEN g[n] ELSE h[<<g[m - 1], m>>]]
  <2>2. e \in [0 .. m -> S]
    <3>1. <<g[m - 1], m>> \in S \X Nat
      OBVIOUS
    <3>2. h[<<g[m - 1], m>>] \in S
      BY <3>1
    <3> QED
      BY <3>2
  <2>3. Upto(m, e)
    <3>1. e[0] = a
      BY <2>1
    <3>2. ASSUME NEW n \in 1 .. m PROVE e[n] = h[<<e[n - 1], n>>]
      <4>1. CASE n < m
        <5>1. n \in 1 .. m - 1 /\ e[n] = g[n] /\ e[n - 1] = g[n - 1]
          BY <4>1
        <5> QED
          BY <5>1, <2>1
      <4>2. CASE n = m
        <5>1. e[m - 1] = g[m - 1] /\ e[m] = h[<<g[m - 1], m>>]
          OBVIOUS
        <5> QED
          BY <5>1, <4>2
      <4> QED
        BY <4>1, <4>2
    <3> QED
      BY <3>1, <3>2
  <2>4. m \in 0 .. L
    OBVIOUS
  <2> QED
    BY <2>2, <2>3, <2>4
<1>3. L \in P
  <2> HIDE DEF P
  <2>1. \A n \in 0 .. L : n \in P
    BY <1>1, <1>2, UpTo
  <2> QED
    BY <2>1
<1> QED
  BY <1>3 DEF IsIteration

-----------------------------------------------------------------------------
(* Places in an order.                                                       *)

(* below[i] is what an order has before i.                                   *)
IsOrder(I, below) ==
  /\ below \in [I -> SUBSET I]
  /\ \A i \in I : i \notin below[i]
  /\ \A i, j \in I : j \in below[i] => below[j] \subseteq below[i]
  /\ \A i, j \in I : i # j => i \in below[j] \/ j \in below[i]

(* Each element has a place of its own, and every place is taken.            *)
IsRanking(I, below, place) ==
  /\ place \in [I -> 1 .. Cardinality(I)]
  /\ \A i \in I : place[i] = 1 + Cardinality(below[i])
  /\ \A i, j \in I : place[i] = place[j] => i = j
  /\ \A k \in 1 .. Cardinality(I) : \E i \in I : place[i] = k

(* In a finite set, places can be found by counting what comes before.       *)
LEMMA Ranking ==
  ASSUME NEW I, IsFiniteSet(I), NEW below, IsOrder(I, below)
  PROVE  Cardinality(I) \in Nat /\ \E place : IsRanking(I, below, place)
<1> DEFINE n == Cardinality(I)
           place == [i \in I |-> 1 + Cardinality(below[i])]
<1> USE DEF IsOrder
<1>1. n \in Nat
  BY FS_CardinalityType
<1>2. ASSUME NEW i \in I
      PROVE  IsFiniteSet(below[i]) /\ Cardinality(below[i]) \in Nat /\ Cardinality(below[i]) < n
  <2>1. below[i] \subseteq I /\ i \notin below[i]
    OBVIOUS
  <2>2. Cardinality(below[i]) <= n /\ (n = Cardinality(below[i]) => below[i] = I)
        /\ IsFiniteSet(below[i])
    BY <2>1, FS_Subset
  <2> QED
    BY <2>1, <2>2, <1>1, FS_CardinalityType
<1>3. ASSUME NEW i \in I, NEW j \in I, j \in below[i]
      PROVE  Cardinality(below[j]) < Cardinality(below[i])
  <2>1. below[j] \subseteq below[i] /\ j \notin below[j]
    BY <1>3
  <2>2. IsFiniteSet(below[i]) /\ Cardinality(below[i]) \in Nat /\ Cardinality(below[j]) \in Nat
    BY <1>2
  <2>3. Cardinality(below[j]) <= Cardinality(below[i])
        /\ (Cardinality(below[i]) = Cardinality(below[j]) => below[i] = below[j])
    BY <2>1, <2>2, FS_Subset
  <2> QED
    BY <1>3, <2>1, <2>2, <2>3
<1>4. \A i \in I : 1 + Cardinality(below[i]) \in 1 .. n
  <2> SUFFICES ASSUME NEW i \in I PROVE 1 + Cardinality(below[i]) \in 1 .. n
    OBVIOUS
  <2> HIDE DEF n
  <2> QED
    BY <1>1, <1>2
<1>5. ASSUME NEW i \in I, NEW j \in I, place[i] = place[j]
      PROVE  i = j
  <2> SUFFICES ASSUME i # j PROVE FALSE
    OBVIOUS
  <2>1. i \in below[j] \/ j \in below[i]
    OBVIOUS
  <2>2. Cardinality(below[i]) < Cardinality(below[j]) \/ Cardinality(below[j]) < Cardinality(below[i])
    BY <1>3, <2>1
  <2> QED
    BY <1>2, <1>5, <2>2
<1>6. place \in [I -> 1 .. n] /\ \A i \in I : place[i] = 1 + Cardinality(below[i])
  BY <1>4
<1> HIDE DEF place
<1>7. \A k \in 1 .. n : \E i \in I : place[i] = k
  <2>1. place \in Injection(I, 1 .. n)
    BY <1>5, <1>6 DEF Injection, IsInjective
  <2>2. IsFiniteSet(1 .. n) /\ Cardinality(1 .. n) = n
    BY <1>1, FS_Interval
  <2>3. place \in Surjection(I, 1 .. n)
    BY <2>1, <2>2, FS_Injection
  <2> QED
    BY <2>3 DEF Surjection
<1> QED
  BY <1>1, <1>5, <1>6, <1>7 DEF IsRanking

-----------------------------------------------------------------------------
(* Lineup's sequences.                                                       *)

LEMMA FirstElement ==
  /\ Elements(<<>>) = {}
  /\ \A T : \A seq \in Seq(T) : seq # <<>> => Len(seq) >= 1 /\ seq[1] \in Elements(seq)
<1>1. Elements(<<>>) = {}
  BY DEF Elements
<1>2. ASSUME NEW T, NEW seq \in Seq(T), seq # <<>>
      PROVE  Len(seq) >= 1 /\ seq[1] \in Elements(seq)
  <2>1. Len(seq) \in Nat \ {0} /\ DOMAIN seq = 1 .. Len(seq)
    BY <1>2, EmptySeq
  <2>2. 1 \in DOMAIN seq
    BY <2>1
  <2> QED
    BY <2>1, <2>2 DEF Elements
<1> QED
  BY <1>1, <1>2

(* What is kept is what is in the set, each element from a place of its own. *)
LEMMA KeptPlaces ==
  ASSUME NEW T, NEW seq \in Seq(T), NEW S
  PROVE  /\ Kept(seq, S) \in Seq(T)
         /\ \E pos \in [1 .. Len(Kept(seq, S)) -> 1 .. Len(seq)] :
              /\ \A k \in 1 .. Len(Kept(seq, S)) :
                   Kept(seq, S)[k] = seq[pos[k]] /\ seq[pos[k]] \in S
              /\ \A i \in 1 .. Len(seq) :
                   seq[i] \in S => \E k \in 1 .. Len(Kept(seq, S)) : pos[k] = i
              /\ \A k, l \in 1 .. Len(Kept(seq, S)) : pos[k] = pos[l] => k = l
<1> DEFINE at == {i \in DOMAIN seq : seq[i] \in S}
           Place(i) == 1 + Cardinality({j \in at : j < i})
           below == [i \in at |-> {j \in at : j < i}]
           n == Cardinality(at)
           pos == [k \in 1 .. n |-> CHOOSE i \in at : Place(i) = k]
<1>1. Len(seq) \in Nat /\ DOMAIN seq = 1 .. Len(seq) /\ \A i \in 1 .. Len(seq) : seq[i] \in T
  OBVIOUS
<1>2. at \subseteq 1 .. Len(seq) /\ IsFiniteSet(at)
  <2>1. 1 \in Int /\ Len(seq) \in Int
    BY <1>1
  <2>2. IsFiniteSet(1 .. Len(seq)) /\ at \subseteq 1 .. Len(seq)
    BY <1>1, <2>1, FS_Interval
  <2> HIDE DEF at
  <2> QED
    BY <2>2, FS_Subset
<1>3. PICK place \in [at -> 1 .. n] :
        /\ \A i \in at : place[i] = Place(i)
        /\ \A i, j \in at : place[i] = place[j] => i = j
        /\ \A k \in 1 .. n : \E i \in at : place[i] = k
  <2>1. at \subseteq Nat
    BY <1>2
  <2>2. \A i \in at : Place(i) = 1 + Cardinality(below[i])
    OBVIOUS
  <2> HIDE DEF at, Place
  <2>3. below \in [at -> SUBSET at] /\ \A i, j \in at : j \in below[i] <=> j < i
    OBVIOUS
  <2> HIDE DEF below
  <2>4. \A i \in at : i \notin below[i]
    BY <2>1, <2>3
  <2>5. \A i, j \in at : i # j => i \in below[j] \/ j \in below[i]
    BY <2>1, <2>3
  <2>6. ASSUME NEW i \in at, NEW j \in at, j \in below[i], NEW k \in below[j]
        PROVE  k \in below[i]
    <3>1. k \in at /\ k < j /\ j < i
      BY <2>3, <2>6
    <3> QED
      BY <2>1, <2>3, <3>1
  <2>7. \A i, j \in at : j \in below[i] => below[j] \subseteq below[i]
    BY <2>6
  <2>8. IsOrder(at, below)
    BY <2>3, <2>4, <2>5, <2>7 DEF IsOrder
  <2>9. PICK place : IsRanking(at, below, place)
    BY <1>2, <2>8, Ranking
  <2> QED
    BY <2>2, <2>9 DEF IsRanking
<1>4. n \in Nat
  BY <1>2, FS_CardinalityType
<1>5. Kept(seq, S) = [k \in 1 .. n |-> seq[pos[k]]]
  BY DEF Kept
<1>6. ASSUME NEW k \in 1 .. n
      PROVE  pos[k] \in at /\ place[pos[k]] = k
  <2> HIDE DEF Place, at, n
  <2>1. \E i \in at : Place(i) = k
    BY <1>3
  <2>2. pos[k] \in at /\ Place(pos[k]) = k
    BY <2>1
  <2> QED
    BY <1>3, <2>2
<1> HIDE DEF pos, Place, below, n
<1>7. ASSUME NEW k \in 1 .. n
      PROVE  pos[k] \in 1 .. Len(seq) /\ seq[pos[k]] \in S /\ seq[pos[k]] \in T
  <2>1. pos[k] \in at
    BY <1>6
  <2> QED
    BY <1>1, <2>1
<1>8. Kept(seq, S) \in Seq(T) /\ Len(Kept(seq, S)) = n
  <2>1. n \in Nat /\ \A k \in 1 .. n : seq[pos[k]] \in T
    BY <1>4, <1>7
  <2> HIDE DEF at
  <2> QED
    BY <1>5, <2>1
<1>9. ASSUME NEW i \in 1 .. Len(seq), seq[i] \in S
      PROVE  \E k \in 1 .. n : pos[k] = i
  <2>1. i \in at
    BY <1>1, <1>9
  <2> HIDE DEF at
  <2>2. place[i] \in 1 .. n /\ pos[place[i]] = i
    BY <1>3, <1>6, <2>1
  <2> QED
    BY <2>2
<1>10. \A k, l \in 1 .. n : pos[k] = pos[l] => k = l
  BY <1>6
<1>11. pos \in [1 .. n -> 1 .. Len(seq)]
  BY <1>7 DEF pos
<1> QED
  BY <1>5, <1>7, <1>8, <1>9, <1>10, <1>11

LEMMA KeptElements ==
  ASSUME NEW T, NEW seq \in Seq(T), NEW S
  PROVE  /\ Kept(seq, S) \in Seq(T)
         /\ Elements(Kept(seq, S)) = Elements(seq) \cap S
<1>1. Kept(seq, S) \in Seq(T)
  BY KeptPlaces
<1>2. PICK pos \in [1 .. Len(Kept(seq, S)) -> 1 .. Len(seq)] :
        /\ \A k \in 1 .. Len(Kept(seq, S)) :
             Kept(seq, S)[k] = seq[pos[k]] /\ seq[pos[k]] \in S
        /\ \A i \in 1 .. Len(seq) :
             seq[i] \in S => \E k \in 1 .. Len(Kept(seq, S)) : pos[k] = i
  BY KeptPlaces
<1>3. /\ DOMAIN Kept(seq, S) = 1 .. Len(Kept(seq, S))
      /\ DOMAIN seq = 1 .. Len(seq)
  BY <1>1
<1>4. \A k \in DOMAIN Kept(seq, S) : Kept(seq, S)[k] \in Elements(seq) \cap S
  BY <1>2, <1>3 DEF Elements
<1>5. \A i \in DOMAIN seq : seq[i] \in S => seq[i] \in Elements(Kept(seq, S))
  BY <1>2, <1>3 DEF Elements
<1> QED
  BY <1>1, <1>4, <1>5 DEF Elements

(* Above orders tuples of integers of one length.                            *)
LEMMA AboveOrders ==
  ASSUME NEW m \in Nat, NEW a \in [1 .. m -> Int], NEW b \in [1 .. m -> Int],
         NEW c \in [1 .. m -> Int]
  PROVE  /\ ~Above(a, a)
         /\ Above(a, b) /\ Above(b, c) => Above(a, c)
         /\ a # b => Above(a, b) \/ Above(b, a)
<1> USE DEF Above
<1>1. ~Above(a, a)
  OBVIOUS
<1>2. ASSUME Above(a, b), Above(b, c)
      PROVE  Above(a, c)
  <2>1. PICK k \in 1 .. m : a[k] > b[k] /\ \A j \in 1 .. k - 1 : a[j] = b[j]
    BY <1>2
  <2>2. PICK l \in 1 .. m : b[l] > c[l] /\ \A j \in 1 .. l - 1 : b[j] = c[j]
    BY <1>2
  <2>3. CASE k <= l
    <3>1. a[k] > c[k]
      <4>1. CASE k = l
        BY <2>1, <2>2, <4>1
      <4>2. CASE k < l
        <5>1. b[k] = c[k]
          BY <2>2, <4>2
        <5> QED
          BY <2>1, <5>1
      <4> QED
        BY <2>3, <4>1, <4>2
    <3>2. \A j \in 1 .. k - 1 : a[j] = c[j]
      BY <2>1, <2>2, <2>3
    <3> QED
      BY <3>1, <3>2
  <2>4. CASE l < k
    <3>1. a[l] = b[l]
      BY <2>1, <2>4
    <3>2. \A j \in 1 .. l - 1 : a[j] = c[j]
      BY <2>1, <2>2, <2>4
    <3> QED
      BY <2>2, <3>1, <3>2
  <2> QED
    BY <2>3, <2>4
<1>3. ASSUME a # b
      PROVE  Above(a, b) \/ Above(b, a)
  <2> DEFINE D == {k \in 1 .. m : a[k] # b[k]}
  <2>1. D # {} /\ D \subseteq Nat
    <3>1. (\A k \in 1 .. m : a[k] = b[k]) => a = b
      OBVIOUS
    <3>2. \E k \in 1 .. m : a[k] # b[k]
      BY <1>3, <3>1
    <3>3. D \subseteq Nat
      OBVIOUS
    <3>4. D # {}
      BY <3>2
    <3> QED
      BY <3>3, <3>4
  <2>2. PICK k \in D : \A j \in D : ~(<<j, k>> \in OpToRel(<, Nat))
    <3> HIDE DEF D
    <3> QED
      BY <2>1, WFMin, NatLessThanWellFounded, Zenon
  <2>3. ASSUME NEW j \in 1 .. k - 1
        PROVE  a[j] = b[j]
    <3>1. j \in Nat /\ k \in Nat /\ j < k /\ j \in 1 .. m
      OBVIOUS
    <3>2. j \notin D
      BY <2>2, <3>1, Zenon DEF OpToRel
    <3> QED
      BY <3>1, <3>2
  <2>4. a[k] > b[k] \/ b[k] > a[k]
    OBVIOUS
  <2> QED
    BY <2>3, <2>4
<1> QED
  BY <1>1, <1>2, <1>3

(* Sorting keeps every element.                                              *)
LEMMA SortedElements ==
  ASSUME NEW T, NEW live \in Seq(T), NEW m \in Nat,
         NEW keys, \A i \in 1 .. Len(live) : keys[i] \in [1 .. m -> Int]
  PROVE  /\ Sorted(live, keys) \in Seq(T)
         /\ Len(Sorted(live, keys)) = Len(live)
         /\ Elements(Sorted(live, keys)) = Elements(live)
<1> DEFINE I == 1 .. Len(live)
           Before(i, j) == Above(keys[i], keys[j]) \/ (keys[i] = keys[j] /\ i < j)
           Place(i) == 1 + Cardinality({j \in I : Before(j, i)})
           below == [i \in I |-> {j \in I : Before(j, i)}]
           pos == [k \in I |-> CHOOSE i \in I : Place(i) = k]
<1>1. Len(live) \in Nat /\ DOMAIN live = I /\ \A i \in I : live[i] \in T
  OBVIOUS
<1>2. IsFiniteSet(I) /\ Cardinality(I) = Len(live)
  <2>1. IsFiniteSet(I) /\ Cardinality(I) = IF 1 > Len(live) THEN 0 ELSE Len(live) - 1 + 1
    BY <1>1, FS_Interval
  <2> HIDE DEF I
  <2> QED
    BY <1>1, <2>1
<1>3. PICK place \in [I -> I] :
        /\ \A i \in I : place[i] = Place(i)
        /\ \A i, j \in I : place[i] = place[j] => i = j
        /\ \A k \in I : \E i \in I : place[i] = k
  <2>1. \A i \in I : Place(i) = 1 + Cardinality(below[i])
    OBVIOUS
  <2>2. below \in [I -> SUBSET I] /\ \A i, j \in I : j \in below[i] <=> Before(j, i)
    OBVIOUS
  <2> HIDE DEF Place, below
  <2>3. \A i \in I : i \notin below[i]
    <3> SUFFICES ASSUME NEW i \in I PROVE ~Before(i, i)
      BY <2>2
    <3>1. ~Above(keys[i], keys[i])
      BY AboveOrders
    <3> QED
      BY <3>1
  <2>4. \A i, j \in I : i # j => i \in below[j] \/ j \in below[i]
    <3> SUFFICES ASSUME NEW i \in I, NEW j \in I, i # j PROVE Before(i, j) \/ Before(j, i)
      BY <2>2
    <3>1. keys[i] # keys[j] => Above(keys[i], keys[j]) \/ Above(keys[j], keys[i])
      BY AboveOrders
    <3> QED
      BY <3>1
  <2>5. ASSUME NEW i \in I, NEW j \in I, j \in below[i], NEW k \in below[j]
        PROVE  k \in below[i]
    <3>1. k \in I /\ Before(k, j) /\ Before(j, i)
      BY <2>2, <2>5
    <3>2. Above(keys[k], keys[j]) /\ Above(keys[j], keys[i]) => Above(keys[k], keys[i])
      BY <3>1, AboveOrders
    <3>3. Before(k, i)
      BY <3>1, <3>2
    <3> QED
      BY <2>2, <3>1, <3>3
  <2>6. \A i, j \in I : j \in below[i] => below[j] \subseteq below[i]
    BY <2>5
  <2> HIDE DEF I, Before
  <2>7. IsOrder(I, below)
    BY <2>2, <2>3, <2>4, <2>6 DEF IsOrder
  <2>8. PICK place : IsRanking(I, below, place)
    BY <1>2, <2>7, Ranking
  <2>9. 1 .. Cardinality(I) = I
    BY <1>2 DEF I
  <2> QED
    BY <2>1, <2>8, <2>9 DEF IsRanking
<1>4. Sorted(live, keys) = [k \in I |-> live[pos[k]]]
  BY <1>1 DEF Sorted
<1>5. ASSUME NEW k \in I
      PROVE  pos[k] \in I /\ place[pos[k]] = k
  <2> HIDE DEF Place, I
  <2>1. \E i \in I : Place(i) = k
    BY <1>3
  <2>2. pos[k] \in I /\ Place(pos[k]) = k
    BY <2>1
  <2> QED
    BY <1>3, <2>2
<1>6. ASSUME NEW i \in I
      PROVE  place[i] \in I /\ pos[place[i]] = i
  BY <1>3, <1>5
<1> HIDE DEF pos, Place, below
<1>7. Sorted(live, keys) \in Seq(T) /\ Len(Sorted(live, keys)) = Len(live)
      /\ DOMAIN Sorted(live, keys) = I
  <2>1. \A k \in I : live[pos[k]] \in T
    BY <1>1, <1>5
  <2> QED
    BY <1>1, <1>4, <2>1
<1>8. Elements(Sorted(live, keys)) \subseteq Elements(live)
  BY <1>1, <1>4, <1>5, <1>7 DEF Elements
<1>9. Elements(live) \subseteq Elements(Sorted(live, keys))
  <2> SUFFICES ASSUME NEW i \in I PROVE live[i] \in Elements(Sorted(live, keys))
    BY <1>1 DEF Elements
  <2>1. place[i] \in I /\ Sorted(live, keys)[place[i]] = live[i]
    BY <1>4, <1>6
  <2> QED
    BY <1>7, <2>1 DEF Elements
<1> QED
  BY <1>7, <1>8, <1>9

-----------------------------------------------------------------------------
(* What the functions on channel lists return.                               *)

URLs == [host : Hosts, account : Origins]
(* Strings; of a literal the provers cannot tell that it is one.             *)
TVGIds == STRING \cup {NoTVG}
Ids == ({"list"} \cup Origins) \X (TVGIds \cup Channels)
DNAs == {NoDNA} \cup ({"tvgid"} \X TVGIds) \cup ({"name-guide"} \X STRING \X Channels)
Listings == [ch : Channels, id : Ids, tvg : TVGIds, linked : BOOLEAN, urls : Seq(URLs),
             primary : Hosts, dna : DNAs]

(* The streams of a are streams of b: what repairs and filters keep.         *)
StreamsOf(a, b) ==
  \A c \in Elements(a) : \E d \in Elements(b) : c.ch = d.ch /\ c.id = d.id /\ c.urls = d.urls

(* No channel without a URL.                                                 *)
AllHaveURLs(live) == \A c \in Elements(live) : c.urls # <<>>

(* Nor with one on a stripped host.                                          *)
NoneStripped(live, hosts) ==
  \A c \in Elements(live) : c.urls # <<>> /\ \A u \in Elements(c.urls) : u.host \notin hosts

(* What a guide knows by name has an id from there, or an alias's.           *)
LinkedBy(live, guide) ==
  \A c \in Elements(live) :
    UniqueIdOf(Name[c.ch], guide) # NoTVG => c.tvg \in {g.id : g \in guide \cup Aliases}

LEMMA ChannelType ==
  ASSUME NEW ch \in Channels, NEW id \in Ids, NEW tvg \in TVGIds, NEW url \in URLs
  PROVE  Channel(ch, id, tvg, <<url>>) \in Listings
<1>1. NoDNA \in DNAs
  BY DEF DNAs
<1>2. <<url>> \in Seq(URLs) /\ <<url>>[1].host \in Hosts
  BY DEF URLs
<1> QED
  BY <1>1, <1>2 DEF Channel, Listings

(* A channel stays one with other URLs, by whichever of them it is known.    *)
LEMMA WithURLsType ==
  ASSUME NEW c \in Listings, NEW urls \in Seq(URLs)
  PROVE  WithURLs(c, urls) \in Listings /\ WithURLs(c, urls).urls = urls
<1> DEFINE host == IF config.strip = {} \/ urls = <<>> THEN c.primary ELSE urls[1].host
<1>1. WithURLs(c, urls) = [c EXCEPT !.urls = urls, !.primary = host]
  BY DEF WithURLs
<1>2. urls # <<>> => urls[1] \in URLs
  BY EmptySeq, ElementOfSeq
<1>3. host \in Hosts
  BY <1>2 DEF URLs, Listings
<1> HIDE DEF host
<1> QED
  BY <1>1, <1>3 DEF Listings

LEMMA RowType ==
  ASSUME NEW o \in Origins, NEW i \in DOMAIN Feed[o]
  PROVE  Feed[o][i].ch \in Channels /\ Feed[o][i].tvg \in TVGIds
<1>1. Feed[o] \in Seq([ch : Channels, tvg : STRING])
  BY CatalogAssumption
<1> DEFINE Rows == [ch : Channels, tvg : STRING]
<1>2. Feed[o] \in Seq(Rows) /\ i \in DOMAIN Feed[o]
  BY <1>1
<1>3. Feed[o][i] \in Rows
  <2> HIDE DEF Rows
  <2> QED
    BY <1>2, LenProperties, ElementOfSeq
<1> QED
  BY <1>3 DEF TVGIds

LEMMA FeedLength == \A o \in Origins : Len(Feed[o]) \in Nat /\ DOMAIN Feed[o] = 1 .. Len(Feed[o])
<1>1. \A o \in Origins : Feed[o] \in Seq([ch : Channels, tvg : STRING])
  BY CatalogAssumption
<1> QED
  BY <1>1

(* A list maps to a list.                                                    *)
LEMMA URLType ==
  ASSUME NEW h \in Hosts, NEW o \in Origins
  PROVE  URL(h, o) \in URLs /\ <<URL(h, o)>> \in Seq(URLs) /\ Elements(<<URL(h, o)>>) = {URL(h, o)}
<1>1. URL(h, o) \in URLs
  BY DEF URL, URLs
<1>2. <<URL(h, o)>> \in Seq(URLs) /\ DOMAIN <<URL(h, o)>> = 1 .. 1
  BY <1>1
<1>3. Elements(<<URL(h, o)>>) = {URL(h, o)}
  BY <1>2 DEF Elements
<1> QED
  BY <1>1, <1>2, <1>3

LEMMA PlaylistType ==
  ASSUME NEW o \in Origins
  PROVE  /\ ListedInPlaylist(o) \in Seq(Listings)
         /\ \A c \in Elements(ListedInPlaylist(o)) : c.urls = <<URL(o, o)>>
<1> DEFINE row(i) == Feed[o][i]
           id(i) == <<"list", IF row(i).tvg # NoTVG THEN row(i).tvg ELSE row(i).ch>>
           entry1(i) == Channel(row(i).ch, id(i), row(i).tvg, <<URL(o, o)>>)
<1>1. ASSUME NEW i \in DOMAIN Feed[o]
      PROVE  entry1(i) \in Listings /\ entry1(i).urls = <<URL(o, o)>>
  <2>1. row(i).ch \in Channels /\ row(i).tvg \in TVGIds
    BY RowType
  <2>2. id(i) \in Ids
    BY <2>1 DEF Ids
  <2>3. URL(o, o) \in URLs
    BY URLType DEF Hosts
  <2>4. entry1(i) \in Listings
    BY <2>1, <2>2, <2>3, ChannelType
  <2> QED
    BY <2>4 DEF Channel
<1>2. ListedInPlaylist(o) = [i \in 1 .. Len(Feed[o]) |-> entry1(i)] /\ Len(Feed[o]) \in Nat
  BY FeedLength DEF ListedInPlaylist
<1>3. \A i \in 1 .. Len(Feed[o]) : entry1(i) \in Listings /\ entry1(i).urls = <<URL(o, o)>>
  BY <1>1, FeedLength
<1> HIDE DEF entry1
<1>4. ListedInPlaylist(o) \in Seq(Listings)
  BY <1>2, <1>3
<1> QED
  BY <1>2, <1>3, <1>4 DEF Elements

LEMMA APIType ==
  ASSUME NEW o \in Origins, NEW h \in Hosts
  PROVE  /\ ListedByAPI(o, h) \in Seq(Listings)
         /\ \A c \in Elements(ListedByAPI(o, h)) : c.urls = <<URL(h, o)>>
<1> DEFINE row(i) == Feed[o][i]
           entry1(i) == Channel(row(i).ch, <<o, row(i).ch>>, row(i).tvg, <<URL(h, o)>>)
<1>1. ASSUME NEW i \in DOMAIN Feed[o]
      PROVE  entry1(i) \in Listings /\ entry1(i).urls = <<URL(h, o)>>
  <2>1. row(i).ch \in Channels /\ row(i).tvg \in TVGIds
    BY RowType
  <2>2. <<o, row(i).ch>> \in Ids
    BY <2>1 DEF Ids
  <2>3. URL(h, o) \in URLs
    BY URLType
  <2>4. entry1(i) \in Listings
    BY <2>1, <2>2, <2>3, ChannelType
  <2> QED
    BY <2>4 DEF Channel
<1>2. ListedByAPI(o, h) = [i \in 1 .. Len(Feed[o]) |-> entry1(i)] /\ Len(Feed[o]) \in Nat
  BY FeedLength DEF ListedByAPI
<1>3. \A i \in 1 .. Len(Feed[o]) : entry1(i) \in Listings /\ entry1(i).urls = <<URL(h, o)>>
  BY <1>1, FeedLength
<1> HIDE DEF entry1
<1>4. ListedByAPI(o, h) \in Seq(Listings)
  BY <1>2, <1>3
<1> QED
  BY <1>2, <1>3, <1>4 DEF Elements

LEMMA AppendNewType ==
  ASSUME NEW urls \in Seq(URLs), NEW more \in Seq(URLs)
  PROVE  AppendNew(urls, more) \in Seq(URLs) /\ (urls # <<>> => AppendNew(urls, more) # <<>>)
<1> DEFINE new == Kept(more, Elements(more) \ Elements(urls))
<1>1. new \in Seq(URLs)
  BY KeptElements
<1> HIDE DEF new
<1>2. urls \o new \in Seq(URLs) /\ (urls # <<>> => urls \o new # <<>>)
  BY <1>1, ConcatProperties, ConcatSimplifications
<1> QED
  BY <1>2 DEF AppendNew, new

(* Lists of listings that all have a URL.                                    *)
Playable == {live \in Seq(Listings) : AllHaveURLs(live)}

LEMMA PlayableIs ==
  \A live : live \in Playable <=>
    live \in Seq(Listings) /\ \A i \in 1 .. Len(live) : live[i] \in Listings /\ live[i].urls # <<>>
<1>1. \A live \in Seq(Listings) : DOMAIN live = 1 .. Len(live)
        /\ \A i \in 1 .. Len(live) : live[i] \in Listings
  OBVIOUS
<1> QED
  BY <1>1 DEF Playable, AllHaveURLs, Elements

LEMMA MergedPlayable ==
  ASSUME NEW out \in Playable, NEW c \in Listings, c.urls # <<>>
  PROVE  Merged(out, c) \in Playable
<1>1. /\ out \in Seq(Listings) /\ Len(out) \in Nat /\ DOMAIN out = 1 .. Len(out)
      /\ \A i \in 1 .. Len(out) : out[i] \in Listings /\ out[i].urls # <<>>
  BY PlayableIs
<1>2. CASE c.tvg = NoTVG \/ \A i \in DOMAIN out : out[i].tvg # c.tvg
  <2>1. Merged(out, c) = Append(out, c)
    BY <1>2 DEF Merged
  <2>2. Append(out, c) \in Seq(Listings) /\ Len(Append(out, c)) = Len(out) + 1
        /\ \A i \in 1 .. Len(out) + 1 : Append(out, c)[i] = IF i = Len(out) + 1 THEN c ELSE out[i]
    BY <1>1
  <2>3. ASSUME NEW i \in 1 .. Len(Append(out, c))
        PROVE  Append(out, c)[i] \in Listings /\ Append(out, c)[i].urls # <<>>
    BY <1>1, <2>2
  <2> QED
    BY <2>1, <2>2, <2>3, PlayableIs
<1>3. CASE ~(c.tvg = NoTVG \/ \A i \in DOMAIN out : out[i].tvg # c.tvg)
  <2> DEFINE new(i) == IF out[i].tvg = c.tvg
                       THEN [out[i] EXCEPT !.urls = AppendNew(out[i].urls, c.urls)] ELSE out[i]
  <2>1. Merged(out, c) = [i \in 1 .. Len(out) |-> new(i)]
    BY <1>1, <1>3 DEF Merged
  <2>2. ASSUME NEW i \in 1 .. Len(out)
        PROVE  new(i) \in Listings /\ new(i).urls # <<>>
    <3>1. out[i] \in Listings /\ out[i].urls \in Seq(URLs) /\ out[i].urls # <<>>
          /\ c.urls \in Seq(URLs)
      BY <1>1 DEF Listings
    <3>2. AppendNew(out[i].urls, c.urls) \in Seq(URLs) /\ AppendNew(out[i].urls, c.urls) # <<>>
      BY <3>1, AppendNewType
    <3> QED
      BY <3>1, <3>2 DEF Listings
  <2> HIDE DEF new
  <2>3. [i \in 1 .. Len(out) |-> new(i)] \in Seq(Listings)
    BY <1>1, <2>2
  <2> QED
    BY <1>1, <2>1, <2>2, <2>3, PlayableIs
<1> QED
  BY <1>2, <1>3

LEMMA DeduplicatedPlayable ==
  ASSUME NEW live \in Playable
  PROVE  Deduplicated(live) \in Playable
<1> DEFINE L == Len(live)
           Is(f) == f = [i \in 0 .. L |-> IF i = 0 THEN <<>> ELSE Merged(f[i - 1], live[i])]
           out == CHOOSE f : Is(f)
           last(c) == WithURLs(c, Kept(c.urls, Elements(c.urls) \ OnStrippedHost(c.urls)) \o
                                  Kept(c.urls, OnStrippedHost(c.urls)))
           h == [p \in Playable \X Nat |-> IF p[2] \in 1 .. L THEN Merged(p[1], live[p[2]]) ELSE p[1]]
<1>1. /\ L \in Nat /\ DOMAIN live = 1 .. L
      /\ \A i \in 1 .. L : live[i] \in Listings /\ live[i].urls # <<>>
  BY PlayableIs
<1> HIDE DEF L
<1>2. <<>> \in Playable
  <2>1. <<>> \in Seq(Listings)
    BY EmptySeq
  <2> QED
    BY <2>1, FirstElement DEF Playable, AllHaveURLs
<1>3. h \in [Playable \X Nat -> Playable]
  BY <1>1, MergedPlayable
<1>4. \E f : Is(f)
  <2>1. PICK g : IsIteration(g, Playable, <<>>, L, h)
    <3> HIDE DEF h
    <3> QED
      BY <1>1, <1>2, <1>3, Iterates
  <2>2. ASSUME NEW n \in 1 .. L
        PROVE  g[n] = Merged(g[n - 1], live[n])
    <3>1. n - 1 \in 0 .. L /\ g[n - 1] \in Playable /\ n \in Nat
      BY <1>1, <2>1 DEF IsIteration
    <3> QED
      BY <2>1, <3>1 DEF IsIteration
  <2>3. Is(g)
    <3>1. \A i \in 0 .. L : g[i] = IF i = 0 THEN <<>> ELSE Merged(g[i - 1], live[i])
      BY <2>1, <2>2, <1>1 DEF IsIteration
    <3> QED
      BY <2>1, <3>1 DEF IsIteration
  <2> QED
    BY <2>3
<1>5. Is(out)
  BY <1>4
<1>6. Deduplicated(live) = [i \in DOMAIN out[L] |-> last(out[L][i])]
  BY DEF Deduplicated, L
<1>7. out[L] \in Playable
  <2> HIDE DEF out
  <2> DEFINE P == {n \in 0 .. L : out[n] \in Playable}
  <2>1. 0 \in P
    BY <1>1, <1>2, <1>5
  <2>2. ASSUME NEW n \in 1 .. L, n - 1 \in P
        PROVE  n \in P
    <3>1. out[n] = Merged(out[n - 1], live[n]) /\ out[n - 1] \in Playable
      BY <1>1, <1>5, <2>2
    <3> QED
      BY <1>1, <3>1, MergedPlayable
  <2> HIDE DEF P
  <2>3. \A n \in 0 .. L : n \in P
    BY <1>1, <2>1, <2>2, UpTo
  <2> QED
    BY <1>1, <2>3 DEF P
<1> HIDE DEF out
<1>8. ASSUME NEW c \in Listings, c.urls # <<>>
      PROVE  last(c) \in Listings /\ last(c).urls # <<>>
  <2> DEFINE slow == OnStrippedHost(c.urls)
             a == Kept(c.urls, Elements(c.urls) \ slow)
             b == Kept(c.urls, slow)
  <2>1. c.urls \in Seq(URLs)
    BY DEF Listings
  <2>2. a \in Seq(URLs) /\ b \in Seq(URLs) /\ Elements(a) = Elements(c.urls) \ slow
        /\ Elements(b) = Elements(c.urls) \cap slow
    BY <2>1, KeptElements
  <2>3. a \o b # <<>>
    <3>1. Elements(c.urls) # {}
      BY <1>8, <2>1, FirstElement
    <3>2. Elements(<<>>) = {}
      BY FirstElement
    <3>3. a # <<>> \/ b # <<>>
      <4> HIDE DEF a, b, slow
      <4> QED
        BY <2>2, <3>1, <3>2
    <3> HIDE DEF a, b
    <3> QED
      BY <2>2, <3>3, ConcatSimplifications
  <2>4. a \o b \in Seq(URLs) /\ last(c) = WithURLs(c, a \o b)
    <3>1. last(c) = WithURLs(c, a \o b)
      OBVIOUS
    <3> HIDE DEF a, b, last
    <3> QED
      BY <2>2, <3>1, ConcatProperties
  <2> HIDE DEF a, b, last
  <2> QED
    BY <2>3, <2>4, WithURLsType
<1> HIDE DEF last
<1>9. [i \in DOMAIN out[L] |-> last(out[L][i])] \in Playable
  <2> DEFINE merged == out[L]
             new == [i \in DOMAIN merged |-> last(merged[i])]
  <2>1. merged \in Seq(Listings) /\ Len(merged) \in Nat /\ DOMAIN merged = 1 .. Len(merged)
        /\ \A i \in 1 .. Len(merged) : merged[i] \in Listings /\ merged[i].urls # <<>>
    BY <1>7, PlayableIs
  <2> HIDE DEF merged
  <2>2. \A i \in 1 .. Len(merged) : last(merged[i]) \in Listings /\ last(merged[i]).urls # <<>>
    BY <1>8, <2>1
  <2>3. new \in Seq(Listings) /\ Len(new) = Len(merged)
    BY <2>1, <2>2
  <2>4. new \in Playable
    BY <2>1, <2>2, <2>3, PlayableIs
  <2> QED
    BY <2>4 DEF merged
<1> QED
  BY <1>6, <1>9

LEMMA ConfigType == config \in CatalogConfigs => config \in Configs
BY CatalogAssumption

LEMMA JoinedPlayable ==
  ASSUME config \in CatalogConfigs, NEW ok
  PROVE  Joined(ok) \in Playable
<1> DEFINE L == Len(Lists)
           More(i) == IF i \in ok THEN ListedInPlaylist(Lists[i]) ELSE <<>>
           Is(f) == f = [i \in 0 .. L |-> IF i = 0 THEN <<>> ELSE f[i - 1] \o More(i)]
           joined == CHOOSE f : Is(f)
           h == [p \in Playable \X Nat |-> IF p[2] \in 1 .. L THEN p[1] \o More(p[2]) ELSE p[1]]
<1>1. Lists \in Seq(Origins) /\ L \in Nat
  BY ConfigType DEF Configs, Lists
<1>2. <<>> \in Playable
  <2>1. <<>> \in Seq(Listings)
    BY EmptySeq
  <2> QED
    BY <2>1, FirstElement DEF Playable, AllHaveURLs
<1>3. ASSUME NEW i \in 1 .. L
      PROVE  More(i) \in Playable
  <2>1. Lists[i] \in Origins
    BY <1>1
  <2>2. ListedInPlaylist(Lists[i]) \in Seq(Listings)
        /\ \A c \in Elements(ListedInPlaylist(Lists[i])) : c.urls = <<URL(Lists[i], Lists[i])>>
    BY <2>1, PlaylistType
  <2>3. \A u : <<u>> # <<>>
    OBVIOUS
  <2>4. AllHaveURLs(ListedInPlaylist(Lists[i]))
    BY <2>2, <2>3 DEF AllHaveURLs
  <2> QED
    BY <1>2, <2>2, <2>4 DEF Playable
<1> HIDE DEF L, More
<1>4. ASSUME NEW a \in Playable, NEW b \in Playable
      PROVE  a \o b \in Playable
  <2>1. /\ a \in Seq(Listings) /\ \A i \in 1 .. Len(a) : a[i] \in Listings /\ a[i].urls # <<>>
        /\ b \in Seq(Listings) /\ \A i \in 1 .. Len(b) : b[i] \in Listings /\ b[i].urls # <<>>
        /\ Len(a) \in Nat /\ Len(b) \in Nat
    BY PlayableIs
  <2>2. a \o b \in Seq(Listings) /\ Len(a \o b) = Len(a) + Len(b)
        /\ \A i \in 1 .. Len(a) + Len(b) :
             (a \o b)[i] = IF i <= Len(a) THEN a[i] ELSE b[i - Len(a)]
    BY <2>1, ConcatProperties
  <2>3. ASSUME NEW i \in 1 .. Len(a \o b)
        PROVE  (a \o b)[i] \in Listings /\ (a \o b)[i].urls # <<>>
    <3>1. CASE i <= Len(a)
      BY <2>1, <2>2, <3>1
    <3>2. CASE i > Len(a)
      <4>1. i - Len(a) \in 1 .. Len(b) /\ (a \o b)[i] = b[i - Len(a)]
        BY <2>1, <2>2, <3>2
      <4> QED
        BY <2>1, <4>1
    <3> QED
      BY <2>1, <2>2, <3>1, <3>2
  <2> QED
    BY <2>2, <2>3, PlayableIs
<1>5. h \in [Playable \X Nat -> Playable]
  BY <1>3, <1>4
<1>6. \E f : Is(f)
  <2>1. PICK g : IsIteration(g, Playable, <<>>, L, h)
    <3> HIDE DEF h
    <3> QED
      BY <1>1, <1>2, <1>5, Iterates
  <2>2. ASSUME NEW n \in 1 .. L
        PROVE  g[n] = g[n - 1] \o More(n)
    <3>1. n - 1 \in 0 .. L /\ g[n - 1] \in Playable /\ n \in Nat
      BY <1>1, <2>1 DEF IsIteration
    <3> QED
      BY <2>1, <3>1 DEF IsIteration
  <2>3. Is(g)
    <3>1. \A i \in 0 .. L : g[i] = IF i = 0 THEN <<>> ELSE g[i - 1] \o More(i)
      BY <2>1, <2>2, <1>1 DEF IsIteration
    <3> QED
      BY <2>1, <3>1 DEF IsIteration
  <2> QED
    BY <2>3
<1>7. Is(joined)
  BY <1>6
<1>8. Joined(ok) = joined[L]
  BY DEF Joined, L, More
<1> HIDE DEF joined
<1> DEFINE P == {n \in 0 .. L : joined[n] \in Playable}
<1>9. 0 \in P
  BY <1>1, <1>2, <1>7
<1>10. ASSUME NEW n \in 1 .. L, n - 1 \in P
       PROVE  n \in P
  <2>1. n \in 0 .. L /\ n # 0
    BY <1>1
  <2>2. joined[n] = joined[n - 1] \o More(n)
    BY <1>7, <2>1
  <2>3. joined[n - 1] \in Playable
    BY <1>10
  <2>4. joined[n] \in Playable
    BY <1>3, <1>4, <2>2, <2>3
  <2> QED
    BY <2>1, <2>4
<1> HIDE DEF P
<1>11. \A n \in 0 .. L : n \in P
  BY <1>1, <1>9, <1>10, UpTo
<1> QED
  BY <1>1, <1>8, <1>11 DEF P

LEMMA ProviderHostsType ==
  ASSUME NEW live \in Playable, NEW r \in Seq(Origins)
  PROVE  OnProviderHostsToo(live, r) \in Seq(Listings)
<1> DEFINE more(c) == [k \in DOMAIN r |-> URL(r[k], c.urls[1].account)]
           new(c) == [c EXCEPT !.urls = AppendNew(c.urls, more(c))]
<1>1. /\ live \in Seq(Listings) /\ Len(live) \in Nat /\ DOMAIN live = 1 .. Len(live)
      /\ \A i \in 1 .. Len(live) : live[i] \in Listings /\ live[i].urls # <<>>
  BY PlayableIs
<1>2. ASSUME NEW c \in Listings, c.urls # <<>>
      PROVE  new(c) \in Listings
  <2>1. c.urls \in Seq(URLs)
    BY DEF Listings
  <2>2. c.urls[1] \in URLs
    BY <1>2, <2>1, EmptySeq, ElementOfSeq
  <2>3. \A k \in 1 .. Len(r) : URL(r[k], c.urls[1].account) \in URLs
    BY <2>2 DEF URL, URLs, Hosts
  <2>4. more(c) \in Seq(URLs)
    <3>1. more(c) = [k \in 1 .. Len(r) |-> URL(r[k], c.urls[1].account)] /\ Len(r) \in Nat
      OBVIOUS
    <3> QED
      BY <2>3, <3>1
  <2> HIDE DEF more
  <2>5. AppendNew(c.urls, more(c)) \in Seq(URLs)
    BY <2>1, <2>4, AppendNewType
  <2> QED
    BY <2>5 DEF Listings
<1>3. OnProviderHostsToo(live, r) = [i \in 1 .. Len(live) |-> new(live[i])]
  BY <1>1 DEF OnProviderHostsToo
<1> HIDE DEF new
<1> QED
  BY <1>1, <1>2, <1>3

(* Stripping leaves channels with URLs on hosts that are not stripped.       *)
LEMMA StrippedIs ==
  ASSUME NEW live \in Seq(Listings)
  PROVE  /\ Stripped(live) \in Seq(Listings)
         /\ NoneStripped(Stripped(live), config.strip)
         /\ \A c \in Elements(Stripped(live)) : \E d \in Elements(live) :
              Elements(c.urls) \subseteq Elements(d.urls)
<1> DEFINE left(c) == WithURLs(c, Kept(c.urls, Elements(c.urls) \ OnStrippedHost(c.urls)))
           rest == [i \in DOMAIN live |-> left(live[i])]
<1>1. Len(live) \in Nat /\ DOMAIN live = 1 .. Len(live) /\ \A i \in 1 .. Len(live) : live[i] \in Listings
  OBVIOUS
<1>2. ASSUME NEW c \in Listings
      PROVE  /\ left(c) \in Listings
             /\ Elements(left(c).urls) \subseteq Elements(c.urls)
             /\ \A u \in Elements(left(c).urls) : u.host \notin config.strip
  <2> DEFINE kept == Kept(c.urls, Elements(c.urls) \ OnStrippedHost(c.urls))
  <2>1. c.urls \in Seq(URLs)
    BY DEF Listings
  <2>2. kept \in Seq(URLs) /\ Elements(kept) = Elements(c.urls) \ OnStrippedHost(c.urls)
    BY <2>1, KeptElements
  <2> HIDE DEF kept
  <2>3. left(c) \in Listings /\ left(c).urls = kept
    BY <2>2, WithURLsType DEF kept
  <2>4. \A u \in Elements(kept) : u.host \notin config.strip
    BY <2>2 DEF OnStrippedHost
  <2> HIDE DEF left
  <2> QED
    BY <2>2, <2>3, <2>4
<1> HIDE DEF left
<1>3. rest \in Seq(Listings) /\ DOMAIN rest = 1 .. Len(live)
      /\ \A i \in 1 .. Len(live) : rest[i] = left(live[i])
  BY <1>1, <1>2
<1>4. Stripped(live) = Kept(rest, {c \in Elements(rest) : c.urls # <<>>})
  BY DEF Stripped, left
<1> HIDE DEF rest
<1>5. Stripped(live) \in Seq(Listings)
      /\ Elements(Stripped(live)) = {c \in Elements(rest) : c.urls # <<>>}
  BY <1>3, <1>4, KeptElements
<1>6. ASSUME NEW c \in Elements(Stripped(live))
      PROVE  /\ c.urls # <<>>
             /\ \A u \in Elements(c.urls) : u.host \notin config.strip
             /\ \E d \in Elements(live) : Elements(c.urls) \subseteq Elements(d.urls)
  <2>1. PICK i \in 1 .. Len(live) : c = left(live[i])
    BY <1>3, <1>5 DEF Elements
  <2>2. live[i] \in Elements(live) /\ live[i] \in Listings
    BY <1>1 DEF Elements
  <2> QED
    BY <1>2, <1>5, <2>1, <2>2
<1> QED
  BY <1>5, <1>6 DEF NoneStripped

-----------------------------------------------------------------------------
(* Repairs.                                                                  *)

LEMMA NoIdIsId == NoTVG \in TVGIds
BY DEF TVGIds

(* A channel is matched to an id of the guide or of an alias, and one whose  *)
(* name the guide has once is matched.                                       *)
LEMMA UniqueIdIs ==
  ASSUME NEW name, NEW guide \in SUBSET GuideEntries
  PROVE  /\ UniqueIdOf(name, guide) \in TVGIds
         /\ UniqueIdOf(name, guide) # NoTVG => UniqueIdOf(name, guide) \in {g.id : g \in guide}
<1> DEFINE ids == {g.id : g \in {h \in guide : h.name = name}}
<1>1. CASE Cardinality(ids) = 1
  <2>1. ids # {}
    BY <1>1, FS_EmptySet
  <2>2. (CHOOSE id \in ids : TRUE) \in ids
    BY <2>1
  <2>3. UniqueIdOf(name, guide) = CHOOSE id \in ids : TRUE
    BY <1>1 DEF UniqueIdOf
  <2>4. ids \subseteq TVGIds /\ ids \subseteq {g.id : g \in guide}
    BY DEF GuideEntries, TVGIds
  <2> HIDE DEF ids
  <2> QED
    BY <2>2, <2>3, <2>4
<1>2. CASE Cardinality(ids) # 1
  <2>1. UniqueIdOf(name, guide) = NoTVG
    BY <1>2 DEF UniqueIdOf
  <2> QED
    BY <2>1, NoIdIsId
<1> QED
  BY <1>1, <1>2

LEMMA AliasIs ==
  ASSUME NEW name
  PROVE  /\ AliasOf(name) \in TVGIds
         /\ AliasOf(name) # NoTVG => AliasOf(name) \in {a.id : a \in Aliases}
<1>1. CASE \E a \in Aliases : a.name = name
  <2> DEFINE a == CHOOSE a \in Aliases : a.name = name
  <2>1. a \in Aliases /\ AliasOf(name) = a.id
    BY <1>1 DEF AliasOf
  <2> HIDE DEF a
  <2>2. a.id \in TVGIds
    BY <2>1, EpgLinkingAssumption DEF GuideEntries, TVGIds
  <2> QED
    BY <2>1, <2>2
<1>2. CASE ~\E a \in Aliases : a.name = name
  BY <1>2, NoIdIsId DEF AliasOf
<1> QED
  BY <1>1, <1>2

LEMMA MatchIs ==
  ASSUME NEW c \in Listings, NEW guide \in SUBSET GuideEntries
  PROVE  /\ Match(c, guide) \in TVGIds
         /\ Match(c, guide) # NoTVG => Match(c, guide) \in {g.id : g \in guide \cup Aliases}
         /\ UniqueIdOf(Name[c.ch], guide) # NoTVG => Match(c, guide) # NoTVG
<1> DEFINE name == Name[c.ch]
<1>1. c.tvg \in TVGIds
  BY DEF Listings
<1>2. CASE \E g \in guide : g.id = c.tvg
  <2>1. Match(c, guide) = c.tvg
    BY <1>2 DEF Match
  <2>2. c.tvg # NoTVG /\ c.tvg \in {g.id : g \in guide \cup Aliases}
    BY <1>2 DEF GuideEntries
  <2> QED
    BY <1>1, <2>1, <2>2
<1>3. CASE ~(\E g \in guide : g.id = c.tvg) /\ AliasOf(name) # NoTVG
  <2>1. Match(c, guide) = AliasOf(name)
    BY <1>3 DEF Match
  <2>2. AliasOf(name) \in {a.id : a \in Aliases} /\ AliasOf(name) \in TVGIds
    BY <1>3, AliasIs
  <2> QED
    BY <1>3, <2>1, <2>2
<1>4. CASE ~(\E g \in guide : g.id = c.tvg) /\ AliasOf(name) = NoTVG
  <2>1. Match(c, guide) = UniqueIdOf(name, guide)
    BY <1>4 DEF Match
  <2> QED
    BY <2>1, UniqueIdIs
<1> QED
  BY <1>2, <1>3, <1>4

(* Of the matched listings of one id one decides.                            *)
LEMMA TargetIs ==
  ASSUME NEW candidates \in Seq(Listings), NEW guide \in SUBSET GuideEntries, NEW id
  PROVE  /\ Target(id, candidates, guide) \in TVGIds
         /\ Target(id, candidates, guide) # NoTVG =>
              Target(id, candidates, guide) \in {g.id : g \in guide \cup Aliases}
         /\ Target(id, candidates, guide) # NoTVG <=>
              \E c \in Elements(candidates) : c.id = id /\ Match(c, guide) # NoTVG
<1> DEFINE matched == {c \in Elements(candidates) : c.id = id /\ Match(c, guide) # NoTVG}
           rows == Kept(candidates, matched)
<1>1. rows \in Seq(Listings) /\ Elements(rows) = matched
  BY KeptElements
<1>2. Target(id, candidates, guide) = IF rows = <<>> THEN NoTVG ELSE Match(rows[Len(rows)], guide)
  BY DEF Target
<1> HIDE DEF rows
<1>3. CASE rows = <<>>
  BY <1>1, <1>2, <1>3, NoIdIsId, FirstElement
<1>4. CASE rows # <<>>
  <2> DEFINE r == rows[Len(rows)]
  <2>1. Len(rows) \in 1 .. Len(rows) /\ DOMAIN rows = 1 .. Len(rows)
    BY <1>1, <1>4, EmptySeq
  <2>2. r \in Elements(rows) /\ r \in Listings
    BY <1>1, <2>1 DEF Elements
  <2>3. r \in matched
    BY <1>1, <2>2
  <2>4. Target(id, candidates, guide) = Match(r, guide) /\ Match(r, guide) # NoTVG
    BY <1>2, <1>4, <2>3
  <2> HIDE DEF r
  <2> QED
    BY <2>2, <2>3, <2>4, MatchIs
<1> QED
  BY <1>3, <1>4

(* Channels and the ids that are settled.                                    *)
Repairs == [live : Seq(Listings), protected : SUBSET Ids]

(* The same listings, but for their tvg-ids.                                 *)
SameStreams(a, b) ==
  /\ Len(a) = Len(b)
  /\ \A i \in 1 .. Len(a) : a[i].ch = b[i].ch /\ a[i].id = b[i].id /\ a[i].urls = b[i].urls

(* What a guide knows by name has its id from there, for good.               *)
SettledBy(r, guide) ==
  \A i \in 1 .. Len(r.live) :
    UniqueIdOf(Name[r.live[i].ch], guide) # NoTVG =>
      /\ r.live[i].tvg \in {g.id : g \in guide \cup Aliases}
      /\ r.live[i].id \in r.protected

LEMMA RepairedFromIs ==
  ASSUME NEW r \in Repairs, NEW guide \in SUBSET GuideEntries
  PROVE  /\ RepairedFrom(r, guide) \in Repairs
         /\ SameStreams(RepairedFrom(r, guide).live, r.live)
         /\ r.protected = {} => SettledBy(RepairedFrom(r, guide), guide)
         /\ \A first : SettledBy(r, first) => SettledBy(RepairedFrom(r, guide), first)
<1> DEFINE live == r.live
           candidates == Unresolved(r.live, r.protected)
           target(c) == Target(c.id, candidates, guide)
           new(c) == IF target(c) = NoTVG THEN c ELSE [c EXCEPT !.tvg = target(c), !.linked = TRUE]
           settled == {c.id : c \in {d \in Elements(candidates) : Match(d, guide) # NoTVG}}
           s == RepairedFrom(r, guide)
<1>1. live \in Seq(Listings) /\ Len(live) \in Nat /\ DOMAIN live = 1 .. Len(live)
      /\ r.protected \in SUBSET Ids /\ \A i \in 1 .. Len(live) : live[i] \in Listings
  BY DEF Repairs
<1>2. candidates \in Seq(Listings)
      /\ Elements(candidates) = {c \in Elements(live) : c.id \notin r.protected}
  <2> DEFINE open == {c \in Elements(live) : c.id \notin r.protected}
  <2>1. candidates = Kept(live, open)
    BY DEF Unresolved
  <2>2. Elements(live) \cap open = open
    OBVIOUS
  <2> HIDE DEF open, candidates
  <2>3. candidates \in Seq(Listings) /\ Elements(candidates) = Elements(live) \cap open
    BY <1>1, <2>1, KeptElements
  <2> QED
    BY <2>2, <2>3 DEF open
<1>3. s = [live |-> [i \in 1 .. Len(live) |-> new(live[i])], protected |-> r.protected \cup settled]
  BY <1>1 DEF RepairedFrom
<1> HIDE DEF candidates, s
<1>4. ASSUME NEW c \in Listings
      PROVE  /\ new(c) \in Listings
             /\ new(c).ch = c.ch /\ new(c).id = c.id /\ new(c).urls = c.urls
             /\ new(c).tvg = IF target(c) = NoTVG THEN c.tvg ELSE target(c)
  <2>1. target(c) \in TVGIds
    BY <1>2, TargetIs
  <2> HIDE DEF target
  <2> QED
    BY <2>1 DEF Listings
<1>5. settled \subseteq Ids
  <2>1. \A c \in Elements(candidates) : c.id \in Ids
    <3>1. \A c \in Elements(live) : c \in Listings
      BY <1>1 DEF Elements
    <3> QED
      BY <1>2, <3>1 DEF Listings
  <2> QED
    BY <2>1
<1> HIDE DEF new, settled, live
<1>6. s.live = [i \in 1 .. Len(live) |-> new(live[i])] /\ s.protected = r.protected \cup settled
  BY <1>3
<1>7. s.live \in Seq(Listings) /\ Len(s.live) = Len(live)
      /\ \A i \in 1 .. Len(live) : s.live[i] = new(live[i])
  BY <1>1, <1>4, <1>6
<1>8. s \in Repairs
  BY <1>1, <1>3, <1>5, <1>6, <1>7 DEF Repairs
<1>9. SameStreams(s.live, r.live)
  BY <1>1, <1>4, <1>7 DEF SameStreams, live
<1>10. ASSUME r.protected = {}
       PROVE  SettledBy(s, guide)
  <2>1. ASSUME NEW i \in 1 .. Len(live), UniqueIdOf(Name[s.live[i].ch], guide) # NoTVG
        PROVE  s.live[i].tvg \in {g.id : g \in guide \cup Aliases} /\ s.live[i].id \in s.protected
    <3>1. live[i] \in Listings /\ live[i] \in Elements(candidates)
          /\ s.live[i] = new(live[i])
          /\ UniqueIdOf(Name[live[i].ch], guide) # NoTVG
      <4>1. live[i] \in Elements(live)
        BY <1>1 DEF Elements
      <4> QED
        BY <1>1, <1>2, <1>4, <1>7, <1>10, <2>1, <4>1
    <3>2. Match(live[i], guide) # NoTVG
      BY <3>1, MatchIs
    <3>3. target(live[i]) # NoTVG /\ target(live[i]) \in {g.id : g \in guide \cup Aliases}
      BY <1>2, <3>1, <3>2, TargetIs
    <3>4. live[i].id \in settled
      BY <3>1, <3>2 DEF settled
    <3> HIDE DEF target
    <3> QED
      BY <1>4, <1>6, <3>1, <3>3, <3>4
  <2> QED
    BY <1>7, <2>1 DEF SettledBy
<1>11. ASSUME NEW first, SettledBy(r, first)
       PROVE  SettledBy(s, first)
  <2>1. ASSUME NEW i \in 1 .. Len(live), UniqueIdOf(Name[s.live[i].ch], first) # NoTVG
        PROVE  s.live[i].tvg \in {g.id : g \in first \cup Aliases} /\ s.live[i].id \in s.protected
    <3>1. live[i] \in Listings /\ s.live[i] = new(live[i])
          /\ live[i].tvg \in {g.id : g \in first \cup Aliases} /\ live[i].id \in r.protected
      BY <1>1, <1>4, <1>7, <1>11, <2>1 DEF SettledBy, live
    <3>2. target(live[i]) = NoTVG
      <4>1. ~\E c \in Elements(candidates) : c.id = live[i].id /\ Match(c, guide) # NoTVG
        BY <1>2, <3>1
      <4> QED
        BY <1>2, <4>1, TargetIs
    <3> HIDE DEF target
    <3> QED
      BY <1>4, <1>6, <3>1, <3>2
  <2> QED
    BY <1>7, <2>1 DEF SettledBy
<1> QED
  BY <1>8, <1>9, <1>10, <1>11 DEF s

(* Whatever the guides: the listings keep their streams, and what the first  *)
(* guide knows by name has its id from there.                                *)
LEMMA RepairedIs ==
  ASSUME NEW live \in Seq(Listings), NEW guides \in Seq(SUBSET GuideEntries)
  PROVE  /\ Repaired(live, guides) \in Seq(Listings)
         /\ SameStreams(Repaired(live, guides), live)
         /\ guides # <<>> =>
              \E r \in Repairs : r.live = Repaired(live, guides) /\ SettledBy(r, guides[1])
<1> DEFINE L == Len(guides)
           Is(f) == f = [n \in 0 .. L |-> IF n = 0 THEN [live |-> live, protected |-> {}]
                                          ELSE RepairedFrom(f[n - 1], guides[n])]
           pass == CHOOSE f : Is(f)
           start == [live |-> live, protected |-> {}]
           h == [p \in Repairs \X Nat |->
                   IF p[2] \in 1 .. L THEN RepairedFrom(p[1], guides[p[2]]) ELSE p[1]]
<1>1. L \in Nat /\ \A n \in 1 .. L : guides[n] \in SUBSET GuideEntries
  OBVIOUS
<1>2. start \in Repairs
  BY DEF Repairs
<1>3. h \in [Repairs \X Nat -> Repairs]
  BY <1>1, RepairedFromIs
<1> HIDE DEF L
<1>4. \E f : Is(f)
  <2>1. PICK g : IsIteration(g, Repairs, start, L, h)
    <3> HIDE DEF h, start
    <3> QED
      BY <1>1, <1>2, <1>3, Iterates
  <2>2. ASSUME NEW n \in 1 .. L
        PROVE  g[n] = RepairedFrom(g[n - 1], guides[n])
    <3>1. n - 1 \in 0 .. L /\ g[n - 1] \in Repairs /\ n \in Nat
      BY <1>1, <2>1 DEF IsIteration
    <3> QED
      BY <2>1, <3>1 DEF IsIteration
  <2>3. Is(g)
    <3>1. \A n \in 0 .. L : g[n] = IF n = 0 THEN start ELSE RepairedFrom(g[n - 1], guides[n])
      BY <2>1, <2>2, <1>1 DEF IsIteration
    <3> QED
      BY <2>1, <3>1 DEF IsIteration
  <2> QED
    BY <2>3
<1>5. Is(pass)
  BY <1>4
<1>6. Repaired(live, guides) = pass[L].live
  BY DEF Repaired, L
<1> HIDE DEF pass
<1>7. pass[0] = start /\ \A n \in 1 .. L : pass[n] = RepairedFrom(pass[n - 1], guides[n])
  <2>1. pass[0] = start
    BY <1>1, <1>5
  <2>2. ASSUME NEW n \in 1 .. L
        PROVE  pass[n] = RepairedFrom(pass[n - 1], guides[n])
    <3>1. n \in 0 .. L /\ n # 0
      BY <1>1
    <3> QED
      BY <1>5, <3>1
  <2> QED
    BY <2>1, <2>2
<1> HIDE DEF Is, h
<1> DEFINE P == {n \in 0 .. L : pass[n] \in Repairs /\ SameStreams(pass[n].live, live)}
<1>8. \A n \in 0 .. L : n \in P
  <2>1. 0 \in P
    <3>1. SameStreams(start.live, live)
      BY DEF SameStreams
    <3> QED
      BY <1>1, <1>2, <1>7, <3>1
  <2>2. ASSUME NEW n \in 1 .. L, n - 1 \in P
        PROVE  n \in P
    <3> DEFINE r == pass[n - 1]
               s == pass[n]
    <3>1. r \in Repairs /\ SameStreams(r.live, live)
      BY <2>2
    <3>2. s = RepairedFrom(r, guides[n]) /\ guides[n] \in SUBSET GuideEntries /\ n \in 0 .. L
      BY <1>1, <1>7
    <3> HIDE DEF r, s
    <3>3. s \in Repairs /\ SameStreams(s.live, r.live)
      BY <3>1, <3>2, RepairedFromIs
    <3>4. SameStreams(s.live, live)
      BY <3>1, <3>3 DEF SameStreams
    <3> QED
      BY <3>2, <3>3, <3>4 DEF s
  <2> HIDE DEF P
  <2> QED
    BY <1>1, <2>1, <2>2, UpTo
<1> DEFINE Q == {n \in 0 .. L : n # 0 => SettledBy(pass[n], guides[1])}
<1>9. \A n \in 0 .. L : n \in Q
  <2>1. 0 \in Q
    BY <1>1
  <2>2. ASSUME NEW n \in 1 .. L, n - 1 \in Q
        PROVE  n \in Q
    <3>1. pass[n - 1] \in Repairs /\ n - 1 \in 0 .. L /\ n \in 0 .. L
      BY <1>1, <1>8
    <3>2. pass[n] = RepairedFrom(pass[n - 1], guides[n]) /\ guides[n] \in SUBSET GuideEntries
      BY <1>1, <1>7
    <3>3. CASE n = 1
      <4>1. pass[n - 1].protected = {}
        BY <1>7, <3>3
      <4> QED
        BY <3>1, <3>2, <3>3, <4>1, RepairedFromIs
    <3>4. CASE n # 1
      <4>1. SettledBy(pass[n - 1], guides[1])
        BY <2>2, <3>1, <3>4
      <4> HIDE DEF Q
      <4>2. SettledBy(pass[n], guides[1])
        BY <3>1, <3>2, <4>1, RepairedFromIs
      <4> QED
        BY <3>1, <4>2 DEF Q
    <3> QED
      BY <3>3, <3>4
  <2> HIDE DEF Q
  <2> QED
    BY <1>1, <2>1, <2>2, UpTo
<1>10. L \in 0 .. L /\ (guides # <<>> => L # 0)
  BY <1>1, EmptySeq DEF L
<1>11. pass[L] \in Repairs /\ SameStreams(pass[L].live, live)
       /\ (guides # <<>> => SettledBy(pass[L], guides[1]))
  BY <1>8, <1>9, <1>10
<1>12. pass[L].live \in Seq(Listings)
  BY <1>11 DEF Repairs
<1> QED
  BY <1>6, <1>11, <1>12

(* Knowing channels by a DNA changes nothing else of them.                   *)
LEMMA AssignedIs ==
  ASSUME NEW live \in Seq(Listings)
  PROVE  /\ Assigned(live) \in Seq(Listings)
         /\ SameStreams(Assigned(live), live)
         /\ \A i \in 1 .. Len(live) : Assigned(live)[i].tvg = live[i].tvg
<1> DEFINE new(c) == [c EXCEPT !.dna = DNA(c)]
<1>1. Len(live) \in Nat /\ DOMAIN live = 1 .. Len(live) /\ \A i \in 1 .. Len(live) : live[i] \in Listings
  OBVIOUS
<1>2. ASSUME NEW c \in Listings
      PROVE  /\ new(c) \in Listings
             /\ new(c).ch = c.ch /\ new(c).id = c.id /\ new(c).urls = c.urls /\ new(c).tvg = c.tvg
  <2>1. c.tvg \in TVGIds /\ c.ch \in Channels /\ c.dna \in DNAs
    BY DEF Listings
  <2>2. Name[c.ch] \in STRING
    BY <2>1, LineupAssumption
  <2>3. <<"tvgid", c.tvg>> \in DNAs
    BY <2>1 DEF DNAs
  <2>4. <<"name-guide", Name[c.ch], c.ch>> \in DNAs
    BY <2>1, <2>2 DEF DNAs
  <2>5. DNA(c) \in DNAs
    BY <2>1, <2>3, <2>4 DEF DNA, IdentityKey
  <2> QED
    BY <2>5 DEF Listings
<1>3. Assigned(live) = [i \in 1 .. Len(live) |-> new(live[i])]
  BY <1>1 DEF Assigned
<1> HIDE DEF new
<1>4. Assigned(live) \in Seq(Listings) /\ Len(Assigned(live)) = Len(live)
  BY <1>1, <1>2, <1>3
<1> QED
  BY <1>1, <1>2, <1>3, <1>4 DEF SameStreams

LEMMA RepairIs ==
  ASSUME NEW live \in Seq(Listings), NEW guides \in Seq(Origins \cup {External})
  PROVE  /\ Repair(live, guides) \in Seq(Listings)
         /\ SameStreams(Repair(live, guides), live)
         /\ guides # <<>> => LinkedBy(Repair(live, guides), GuideOf[guides[1]])
<1> DEFINE sets == [i \in DOMAIN guides |-> GuideOf[guides[i]]]
           repaired == Repaired(live, sets)
<1>1. /\ sets \in Seq(SUBSET GuideEntries)
      /\ guides # <<>> => sets # <<>> /\ sets[1] = GuideOf[guides[1]]
  <2>1. \A i \in 1 .. Len(guides) : GuideOf[guides[i]] \in SUBSET GuideEntries
    BY CatalogAssumption
  <2>2. sets = [i \in 1 .. Len(guides) |-> GuideOf[guides[i]]] /\ Len(guides) \in Nat
    OBVIOUS
  <2> HIDE DEF sets
  <2>3. sets \in Seq(SUBSET GuideEntries) /\ Len(sets) = Len(guides)
    BY <2>1, <2>2
  <2>4. guides # <<>> => Len(guides) # 0
    BY EmptySeq
  <2>5. guides # <<>> => 1 \in 1 .. Len(guides)
    BY <2>2, <2>4
  <2>6. guides # <<>> => sets # <<>>
    BY <2>3, <2>4
  <2> QED
    BY <2>2, <2>3, <2>5, <2>6
<1>2. Repair(live, guides) = Assigned(repaired)
  BY DEF Repair
<1> HIDE DEF sets
<1>3. /\ repaired \in Seq(Listings)
      /\ SameStreams(repaired, live)
      /\ guides # <<>> => \E r \in Repairs : r.live = repaired /\ SettledBy(r, sets[1])
  BY <1>1, RepairedIs
<1> HIDE DEF repaired
<1>4. Repair(live, guides) \in Seq(Listings) /\ SameStreams(Repair(live, guides), repaired)
      /\ \A i \in 1 .. Len(repaired) : Repair(live, guides)[i].tvg = repaired[i].tvg
  BY <1>2, <1>3, AssignedIs
<1> DEFINE out == Repair(live, guides)
<1> HIDE DEF out
<1>5. out = Repair(live, guides)
  BY DEF out
<1>6. SameStreams(out, live)
  BY <1>3, <1>4, <1>5 DEF SameStreams
<1>7. ASSUME guides # <<>>, NEW c \in Elements(out), UniqueIdOf(Name[c.ch], sets[1]) # NoTVG
      PROVE  c.tvg \in {g.id : g \in sets[1] \cup Aliases}
  <2>1. PICK r \in Repairs : r.live = repaired /\ SettledBy(r, sets[1])
    BY <1>3, <1>7
  <2>2. PICK i \in 1 .. Len(repaired) : c = out[i]
    BY <1>4, <1>5, <1>7 DEF Elements, SameStreams
  <2>3. c.ch = repaired[i].ch /\ c.tvg = repaired[i].tvg
    BY <1>4, <1>5, <2>2 DEF SameStreams
  <2> QED
    BY <1>7, <2>1, <2>2, <2>3 DEF SettledBy
<1> QED
  BY <1>1, <1>4, <1>5, <1>6, <1>7 DEF LinkedBy

-----------------------------------------------------------------------------
(* The lineup.                                                               *)

LEMMA KeyTypes ==
  ASSUME NEW c \in Listings, NEW recipe
  PROVE  /\ GuideConfidence(c) \in Int /\ StreamResilience(c) \in Int /\ Score(c) \in Int
         /\ <<Affinity[c.ch]>> \in [1 .. 1 -> Int]
         /\ RecipeKey(c, recipe) \in
              [1 .. IF recipe \in {"resilient", "guide_first", "locals_first"} THEN 2 ELSE 1 -> Int]
<1>1. GuideConfidence(c) \in Int /\ StreamResilience(c) \in Int
  BY DEF GuideConfidence, StreamResilience
<1>2. Score(c) \in Int
  BY <1>1 DEF Score
<1>3. Affinity[c.ch] \in Int
  BY LineupAssumption DEF Listings
<1>4. ASSUME NEW a \in Int, NEW b \in Int
      PROVE  <<a, b>> \in [1 .. 2 -> Int] /\ <<a>> \in [1 .. 1 -> Int]
  OBVIOUS
<1>5. CASE recipe \in {"resilient", "guide_first", "locals_first"}
  <2>1. RecipeKey(c, recipe) \in [1 .. 2 -> Int]
    <3> HIDE DEF GuideConfidence, StreamResilience, Score
    <3> QED
      BY <1>1, <1>2, <1>3, <1>4, <1>5 DEF RecipeKey
  <2> QED
    BY <1>1, <1>2, <1>3, <1>4, <1>5, <2>1
<1>6. CASE recipe \notin {"resilient", "guide_first", "locals_first"}
  <2>1. RecipeKey(c, recipe) = <<Score(c)>>
    BY <1>6 DEF RecipeKey
  <2> QED
    BY <1>1, <1>2, <1>3, <1>4, <1>6, <2>1
<1> QED
  BY <1>5, <1>6

LEMMA CookedElements ==
  ASSUME NEW live \in Seq(Listings), NEW recipe
  PROVE  Cooked(live, recipe) \in Seq(Listings) /\ Elements(Cooked(live, recipe)) \subseteq Elements(live)
<1> DEFINE kept == Kept(live, {c \in Elements(live) : RecipeKeeps(c, recipe)})
           used == IF kept # <<>> THEN kept ELSE live
           keys == [i \in DOMAIN used |-> RecipeKey(used[i], recipe)]
           m == IF recipe \in {"resilient", "guide_first", "locals_first"} THEN 2 ELSE 1
<1>1. kept \in Seq(Listings) /\ Elements(kept) \subseteq Elements(live)
  BY KeptElements
<1> HIDE DEF kept
<1>2. used \in Seq(Listings) /\ Elements(used) \subseteq Elements(live)
  BY <1>1
<1>3. Cooked(live, recipe) = IF recipe \notin Recipes THEN live ELSE Sorted(used, keys)
  BY DEF Cooked, kept
<1> HIDE DEF used
<1>4. DOMAIN used = 1 .. Len(used) /\ \A i \in 1 .. Len(used) : used[i] \in Listings
  BY <1>2
<1>5. \A i \in 1 .. Len(used) : keys[i] \in [1 .. m -> Int]
  BY <1>4, KeyTypes
<1>6. m \in Nat
  OBVIOUS
<1> HIDE DEF keys, m
<1>7. Sorted(used, keys) \in Seq(Listings) /\ Elements(Sorted(used, keys)) = Elements(used)
  BY <1>2, <1>5, <1>6, SortedElements
<1> QED
  BY <1>2, <1>3, <1>7

LEMMA ShapedElements ==
  ASSUME NEW live \in Seq(Listings), NEW s
  PROVE  Shaped(live, s) \in Seq(Listings) /\ Elements(Shaped(live, s)) \subseteq Elements(live)
<1> DEFINE keys == [i \in DOMAIN live |-> <<Affinity[live[i].ch]>>]
<1>1. DOMAIN live = 1 .. Len(live) /\ \A i \in 1 .. Len(live) : live[i] \in Listings
  OBVIOUS
<1>2. \A i \in 1 .. Len(live) : keys[i] \in [1 .. 1 -> Int]
  BY <1>1, KeyTypes
<1>3. Shaped(live, s) = IF s.shape THEN Sorted(live, keys) ELSE live
  BY DEF Shaped
<1> HIDE DEF keys
<1>4. Sorted(live, keys) \in Seq(Listings) /\ Elements(Sorted(live, keys)) = Elements(live)
  <2>1. 1 \in Nat
    OBVIOUS
  <2> QED
    BY <1>2, <2>1, SortedElements
<1> QED
  BY <1>3, <1>4

LEMMA PieceElements ==
  ASSUME NEW T, NEW live \in Seq(T), NEW m \in Nat, NEW n \in Nat, n <= Len(live)
  PROVE  /\ SubSeq(live, m + 1, n) \in Seq(T)
         /\ Elements(SubSeq(live, m + 1, n)) \subseteq Elements(live)
         /\ Len(SubSeq(live, m + 1, n)) = IF m < n THEN n - m ELSE 0
         /\ \A i \in 1 .. n - m : SubSeq(live, m + 1, n)[i] = live[m + i]
<1>1. SubSeq(live, m + 1, n) \in Seq(T)
      /\ Len(SubSeq(live, m + 1, n)) = (IF m < n THEN n - m ELSE 0)
      /\ \A i \in 1 .. n - m : SubSeq(live, m + 1, n)[i] = live[m + i]
  OBVIOUS
<1>2. DOMAIN SubSeq(live, m + 1, n) = 1 .. Len(SubSeq(live, m + 1, n)) /\ DOMAIN live = 1 .. Len(live)
  BY <1>1
<1>3. ASSUME NEW i \in 1 .. Len(SubSeq(live, m + 1, n))
      PROVE  i \in 1 .. n - m /\ m + i \in 1 .. Len(live)
  BY <1>1
<1> QED
  BY <1>1, <1>2, <1>3 DEF Elements

LEMMA PreCapElements ==
  ASSUME NEW live \in Seq(Listings), NEW s \in LineupSettings
  PROVE  PreCap(live, s) \in Seq(Listings) /\ Elements(PreCap(live, s)) \subseteq Elements(live)
<1> DEFINE a == Filtered(live, s)
           b == Cooked(a, s.recipe)
           c == Shaped(b, s)
           last == IF s.take > 0 /\ s.skip + s.take < Len(c) THEN s.skip + s.take ELSE Len(c)
<1>1. a \in Seq(Listings) /\ Elements(a) \subseteq Elements(live)
  BY KeptElements DEF Filtered
<1> HIDE DEF a
<1>2. b \in Seq(Listings) /\ Elements(b) \subseteq Elements(a)
  BY <1>1, CookedElements
<1> HIDE DEF b
<1>3. c \in Seq(Listings) /\ Elements(c) \subseteq Elements(b)
  BY <1>2, ShapedElements
<1>4. PreCap(live, s) = SubSeq(c, s.skip + 1, last)
  BY DEF PreCap, Shard, a, b
<1> HIDE DEF c
<1>5. s.skip \in Nat /\ s.take \in Nat
  BY DEF LineupSettings
<1>6. last \in Nat /\ last <= Len(c)
  BY <1>3, <1>5
<1> HIDE DEF last
<1>7. SubSeq(c, s.skip + 1, last) \in Seq(Listings)
      /\ Elements(SubSeq(c, s.skip + 1, last)) \subseteq Elements(c)
  BY <1>3, <1>5, <1>6, PieceElements
<1> QED
  BY <1>1, <1>2, <1>3, <1>4, <1>7

LEMMA CappedIs ==
  ASSUME NEW live \in Seq(Listings), NEW cap \in Nat
  PROVE  /\ Capped(live, cap) \in Seq(Listings)
         /\ Elements(Capped(live, cap)) \subseteq Elements(live)
         /\ Len(Capped(live, cap)) <= Len(live)
         /\ \A i \in 1 .. Len(Capped(live, cap)) : Capped(live, cap)[i] = live[i]
         /\ Capped(live, cap) = live \/ Len(Capped(live, cap)) = cap
<1>1. Len(live) \in Nat
  OBVIOUS
<1>2. CASE Len(live) > cap
  <2> DEFINE top == SubSeq(live, 0 + 1, cap)
  <2>1. Capped(live, cap) = top
    BY <1>2 DEF Capped
  <2>2. 0 \in Nat /\ cap <= Len(live)
    BY <1>1, <1>2
  <2>3. /\ top \in Seq(Listings) /\ Elements(top) \subseteq Elements(live)
        /\ Len(top) = IF 0 < cap THEN cap - 0 ELSE 0
        /\ \A i \in 1 .. cap - 0 : top[i] = live[0 + i]
    <3> HIDE DEF top
    <3> QED
      BY <2>2, PieceElements DEF top
  <2> HIDE DEF top
  <2>4. Len(top) = cap /\ \A i \in 1 .. cap : top[i] = live[i]
    BY <2>3
  <2> QED
    BY <1>1, <1>2, <2>1, <2>3, <2>4
<1>3. CASE ~(Len(live) > cap)
  BY <1>1, <1>3 DEF Capped
<1> QED
  BY <1>2, <1>3

LEMMA PreferredHostType ==
  ASSUME NEW c, NEW s \in LineupSettings
  PROVE  PreferredHost(c, s.preferred) \in Int
<1> DEFINE hosts == s.preferred
           at == {i \in DOMAIN hosts : hosts[i] = c.primary}
<1>1. hosts \in Seq(Hosts)
  BY DEF LineupSettings
<1>2. at \subseteq Nat /\ Len(hosts) \in Nat
  <2>1. DOMAIN hosts = 1 .. Len(hosts) /\ Len(hosts) \in Nat
    BY <1>1
  <2> HIDE DEF hosts
  <2> QED
    BY <2>1
<1>3. PreferredHost(c, hosts) =
        IF at = {} THEN 0 ELSE 1 + Len(hosts) - CHOOSE i \in at : \A j \in at : i <= j
  BY DEF PreferredHost
<1> HIDE DEF at, hosts
<1>4. CASE at # {}
  <2>1. PICK k \in at : \A j \in at : ~(<<j, k>> \in OpToRel(<, Nat))
    BY <1>2, <1>4, WFMin, NatLessThanWellFounded, Zenon
  <2>2. ASSUME NEW j \in at
        PROVE  k <= j
    <3>1. j \in Nat /\ k \in Nat
      BY <1>2
    <3>2. ~(j < k)
      BY <2>1, <3>1, Zenon DEF OpToRel
    <3> QED
      BY <3>1, <3>2
  <2> DEFINE first == CHOOSE i \in at : \A j \in at : i <= j
  <2>3. first \in at
    BY <2>2
  <2> HIDE DEF first
  <2>4. PreferredHost(c, hosts) = 1 + Len(hosts) - first /\ first \in Nat
    BY <1>2, <1>3, <1>4, <2>3 DEF first
  <2>5. PreferredHost(c, hosts) \in Int
    BY <1>2, <2>4
  <2> QED
    BY <2>5 DEF hosts
<1> QED
  BY <1>3, <1>4 DEF hosts

LEMMA PolicyKeyType ==
  ASSUME NEW c \in Listings, NEW s \in LineupSettings
  PROVE  PolicyKey(c, s) \in [1 .. 5 -> Int]
<1>1. ASSUME NEW S, NEW p \in S, NEW a \in S, NEW b \in S, NEW d \in S, NEW e \in S
      PROVE  <<p>> \o <<a, b, d, e>> \in [1 .. 5 -> S]
  <2> DEFINE x == <<p>>
             y == <<a, b, d, e>>
  <2>1. x \in Seq(S) /\ y \in Seq(S) /\ Len(x) = 1 /\ Len(y) = 4
    OBVIOUS
  <2> HIDE DEF x, y
  <2>2. x \o y \in Seq(S) /\ Len(x \o y) = Len(x) + Len(y)
    BY <2>1, ConcatProperties
  <2>3. Len(x \o y) = 5
    BY <2>1, <2>2
  <2> DEFINE z == x \o y
  <2>4. z \in Seq(S) /\ Len(z) = 5
    BY <2>2, <2>3
  <2> HIDE DEF z
  <2>5. z \in [1 .. 5 -> S]
    BY <2>4, LenProperties
  <2> QED
    BY <2>5 DEF x, y, z
<1>2. GuideConfidence(c) \in Int /\ StreamResilience(c) \in Int /\ Score(c) \in Int
  BY KeyTypes
<1>3. Len(c.urls) \in Int
  BY DEF Listings
<1>4. PreferredHost(c, s.preferred) \in Int
  BY PreferredHostType
<1>5. CASE s.dna = "prefer_resilient"
  <2>1. PolicyKey(c, s) = <<PreferredHost(c, s.preferred)>> \o
                          <<StreamResilience(c), Score(c), GuideConfidence(c), Len(c.urls)>>
    BY <1>5 DEF PolicyKey
  <2> QED
    BY <1>1, <1>2, <1>3, <1>4, <2>1
<1>6. CASE s.dna # "prefer_resilient"
  <2>1. PolicyKey(c, s) = <<PreferredHost(c, s.preferred)>> \o
                          <<Score(c), StreamResilience(c), GuideConfidence(c), Len(c.urls)>>
    BY <1>6 DEF PolicyKey
  <2> QED
    BY <1>1, <1>2, <1>3, <1>4, <2>1
<1> QED
  BY <1>5, <1>6

(* The winner is of the DNA, and nothing of it is above the winner.          *)
LEMMA WinnerIs ==
  ASSUME NEW live \in Seq(Listings), NEW dna, NEW s \in LineupSettings,
         NEW a \in 1 .. Len(live), DNA(live[a]) = dna
  PROVE  /\ Winner(live, dna, s) \in 1 .. Len(live)
         /\ DNA(live[Winner(live, dna, s)]) = dna
         /\ ~Above(PolicyKey(live[a], s), PolicyKey(live[Winner(live, dna, s)], s))
<1> DEFINE L == Len(live)
           Takes(n, b) == DNA(live[n]) = dna /\ (b # 0 => Better(live[n], live[b], s))
           Is(f) == f = [i \in 0 .. L |-> IF i = 0 THEN 0 ELSE IF Takes(i, f[i - 1]) THEN i ELSE f[i - 1]]
           best == CHOOSE f : Is(f)
           h == [p \in Nat \X Nat |-> IF Takes(p[2], p[1]) THEN p[2] ELSE p[1]]
           Key(i) == PolicyKey(live[i], s)
<1>1. L \in Nat /\ \A i \in 1 .. L : live[i] \in Listings
  OBVIOUS
<1>2. h \in [Nat \X Nat -> Nat]
  OBVIOUS
<1> HIDE DEF L, Takes
<1>3. \E f : Is(f)
  <2>1. PICK g : IsIteration(g, Nat, 0, L, h)
    <3> HIDE DEF h
    <3>1. 0 \in Nat
      OBVIOUS
    <3> QED
      BY <1>1, <1>2, <3>1, Iterates
  <2>2. ASSUME NEW n \in 1 .. L
        PROVE  g[n] = IF Takes(n, g[n - 1]) THEN n ELSE g[n - 1]
    <3>1. n - 1 \in 0 .. L /\ g[n - 1] \in Nat /\ n \in Nat
      BY <1>1, <2>1 DEF IsIteration
    <3> QED
      BY <2>1, <3>1 DEF IsIteration
  <2>3. Is(g)
    <3>1. \A i \in 0 .. L : g[i] = IF i = 0 THEN 0 ELSE IF Takes(i, g[i - 1]) THEN i ELSE g[i - 1]
      BY <2>1, <2>2, <1>1 DEF IsIteration
    <3> QED
      BY <2>1, <3>1 DEF IsIteration
  <2> QED
    BY <2>3
<1>4. Is(best)
  BY <1>3
<1>5. Winner(live, dna, s) = best[L]
  BY DEF Winner, L, Takes
<1> HIDE DEF best
<1>6. best[0] = 0
  BY <1>1, <1>4
<1>7. ASSUME NEW n \in 1 .. L
      PROVE  best[n] = IF Takes(n, best[n - 1]) THEN n ELSE best[n - 1]
  <2>1. n \in 0 .. L /\ n # 0
    BY <1>1
  <2> QED
    BY <1>4, <2>1
<1> HIDE DEF Is, h
<1> DEFINE Good(b, n) ==
             /\ b \in 0 .. n
             /\ b # 0 => DNA(live[b]) = dna
             /\ \A i \in 1 .. n : DNA(live[i]) = dna => b # 0 /\ ~Above(Key(i), Key(b))
           P == {n \in 0 .. L : Good(best[n], n)}
<1>8. \A i \in 1 .. L : Key(i) \in [1 .. 5 -> Int]
  BY <1>1, PolicyKeyType
<1> HIDE DEF Key
<1>9. ASSUME NEW n \in 1 .. L, NEW b \in 0 .. n - 1, Good(b, n - 1)
      PROVE  Good(IF Takes(n, b) THEN n ELSE b, n)
  <2>1. n \in 1 .. L /\ b \in 0 .. n /\ n \in 0 .. n /\ n # 0
    BY <1>1
  <2>2. CASE Takes(n, b)
    <3>1. DNA(live[n]) = dna
      BY <2>2 DEF Takes
    <3>2. ASSUME NEW i \in 1 .. n, DNA(live[i]) = dna
          PROVE  ~Above(Key(i), Key(n))
      <4>1. CASE i = n
        BY <1>8, <4>1, AboveOrders
      <4>2. CASE i # n
        <5>1. i \in 1 .. n - 1 /\ i \in 1 .. L
          BY <1>1, <4>2
        <5>2. b # 0 /\ ~Above(Key(i), Key(b))
          BY <1>9, <3>2, <5>1
        <5>3. b \in 1 .. L
          BY <1>1, <2>1, <5>2
        <5>4. Above(Key(n), Key(b)) \/ Key(n) = Key(b)
          BY <2>2, <5>2 DEF Takes, Better, Key
        <5>5. Above(Key(i), Key(n)) /\ Above(Key(n), Key(b)) => Above(Key(i), Key(b))
          BY <1>8, <2>1, <5>1, <5>3, AboveOrders
        <5> QED
          BY <5>2, <5>4, <5>5
      <4> QED
        BY <4>1, <4>2
    <3>3. Good(n, n)
      BY <2>1, <3>1, <3>2
    <3> QED
      BY <2>2, <3>3
  <2>3. CASE ~Takes(n, b)
    <3>1. ASSUME NEW i \in 1 .. n, DNA(live[i]) = dna
          PROVE  b # 0 /\ ~Above(Key(i), Key(b))
      <4>1. CASE i = n
        <5>1. b # 0 /\ ~Better(live[n], live[b], s)
          BY <2>3, <3>1, <4>1 DEF Takes
        <5> QED
          BY <4>1, <5>1 DEF Better, Key
      <4>2. CASE i # n
        <5>1. i \in 1 .. n - 1
          BY <4>2
        <5> QED
          BY <1>9, <3>1, <5>1
      <4> QED
        BY <4>1, <4>2
    <3>2. Good(b, n)
      BY <1>9, <2>1, <3>1
    <3> QED
      BY <2>3, <3>2
  <2> QED
    BY <2>2, <2>3
<1>10. 0 \in P
  BY <1>1, <1>6
<1>11. ASSUME NEW n \in 1 .. L, n - 1 \in P
       PROVE  n \in P
  <2>1. Good(best[n - 1], n - 1) /\ best[n - 1] \in 0 .. n - 1
    BY <1>11
  <2> HIDE DEF Good
  <2>2. Good(best[n], n)
    BY <1>7, <1>9, <2>1
  <2>3. n \in 0 .. L
    BY <1>1
  <2> QED
    BY <2>2, <2>3
<1>12. Good(best[L], L)
  <2> HIDE DEF P
  <2>1. \A n \in 0 .. L : n \in P
    BY <1>1, <1>10, <1>11, UpTo
  <2>2. L \in P
    BY <1>1, <2>1
  <2> QED
    BY <2>2 DEF P
<1>13. a \in 1 .. L /\ DNA(live[a]) = dna
  BY DEF L
<1>14. best[L] \in 1 .. L /\ DNA(live[best[L]]) = dna /\ ~Above(Key(a), Key(best[L]))
  BY <1>1, <1>12, <1>13
<1> QED
  BY <1>5, <1>14 DEF L, Key

(* One listing of each DNA is kept, and no listing of it is above that one.  *)
LEMMA OnePerDNAIs ==
  ASSUME NEW live \in Seq(Listings), NEW s \in LineupSettings
  PROVE  /\ OnePerDNA(live, s) \in Seq(Listings)
         /\ Elements(OnePerDNA(live, s)) \subseteq Elements(live)
         /\ s.dna = "off" => OnePerDNA(live, s) = live
         /\ s.dna # "off" =>
              /\ \A k, l \in 1 .. Len(OnePerDNA(live, s)) :
                   k # l => DNA(OnePerDNA(live, s)[k]) # DNA(OnePerDNA(live, s)[l])
              /\ \A c \in Elements(live) \ Elements(OnePerDNA(live, s)) :
                   \E d \in Elements(OnePerDNA(live, s)) :
                     DNA(d) = DNA(c) /\ ~Above(PolicyKey(c, s), PolicyKey(d, s))
<1> DEFINE I == 1 .. Len(live)
           ids == [i \in DOMAIN live |-> i]
           best == {i \in DOMAIN live : Winner(live, DNA(live[i]), s) = i}
           kept == Kept(ids, best)
           out == [k \in DOMAIN kept |-> live[kept[k]]]
<1>1. Len(live) \in Nat /\ DOMAIN live = I /\ \A i \in I : live[i] \in Listings
  OBVIOUS
<1>2. OnePerDNA(live, s) = IF s.dna = "off" THEN live ELSE out
  BY DEF OnePerDNA
<1>3. ids \in Seq(I) /\ Len(ids) = Len(live) /\ \A i \in I : ids[i] = i
  BY <1>1
<1>4. best = {i \in I : Winner(live, DNA(live[i]), s) = i}
  BY <1>1
<1> HIDE DEF ids, best
<1>5. Kept(ids, best) \in Seq(I)
  BY <1>3, KeptPlaces
<1>6. /\ \A k \in 1 .. Len(kept) : kept[k] \in best
      /\ \A i \in best : \E k \in 1 .. Len(kept) : kept[k] = i
      /\ \A k, l \in 1 .. Len(kept) : kept[k] = kept[l] => k = l
  <2> HIDE DEF I
  <2>1. PICK pos \in [1 .. Len(Kept(ids, best)) -> 1 .. Len(ids)] :
          /\ \A k \in 1 .. Len(Kept(ids, best)) :
               Kept(ids, best)[k] = ids[pos[k]] /\ ids[pos[k]] \in best
          /\ \A i \in 1 .. Len(ids) :
               ids[i] \in best => \E k \in 1 .. Len(Kept(ids, best)) : pos[k] = i
          /\ \A k, l \in 1 .. Len(Kept(ids, best)) : pos[k] = pos[l] => k = l
    BY <1>3, KeptPlaces
  <2>2. 1 .. Len(ids) = I
    BY <1>3 DEF I
  <2>3. \A k \in 1 .. Len(kept) : kept[k] = pos[k]
    BY <1>3, <2>1, <2>2
  <2>4. best \subseteq I
    BY <1>4
  <2> HIDE DEF kept
  <2> QED
    BY <1>3, <2>1, <2>2, <2>3, <2>4 DEF kept
<1> HIDE DEF kept
<1>7. Len(kept) \in Nat /\ DOMAIN kept = 1 .. Len(kept) /\ \A k \in 1 .. Len(kept) : kept[k] \in I
  <2>1. kept \in Seq(I)
    BY <1>5 DEF kept
  <2> HIDE DEF I
  <2> QED
    BY <2>1
<1>8. out \in Seq(Listings) /\ Len(out) = Len(kept) /\ DOMAIN out = 1 .. Len(kept)
      /\ \A k \in 1 .. Len(kept) : out[k] = live[kept[k]]
  BY <1>1, <1>7
<1>9. Elements(out) \subseteq Elements(live)
  BY <1>1, <1>7, <1>8 DEF Elements
<1>10. \A i \in best : live[i] \in Elements(out)
  BY <1>6, <1>8 DEF Elements
<1> HIDE DEF out
<1>11. ASSUME NEW k \in 1 .. Len(kept), NEW l \in 1 .. Len(kept), DNA(out[k]) = DNA(out[l])
       PROVE  k = l
  <2>1. kept[k] \in best /\ kept[l] \in best
    BY <1>6
  <2>2. Winner(live, DNA(out[k]), s) = kept[k] /\ Winner(live, DNA(out[l]), s) = kept[l]
    BY <1>4, <1>8, <2>1
  <2>3. kept[k] = kept[l]
    BY <1>11, <2>2
  <2> QED
    BY <1>6, <2>3
<1>12. ASSUME NEW c \in Elements(live) \ Elements(out)
       PROVE  \E d \in Elements(out) :
                DNA(d) = DNA(c) /\ ~Above(PolicyKey(c, s), PolicyKey(d, s))
  <2>1. PICK i \in I : c = live[i]
    BY <1>1 DEF Elements
  <2> DEFINE w == Winner(live, DNA(c), s)
  <2>2. w \in I /\ DNA(live[w]) = DNA(c) /\ ~Above(PolicyKey(c, s), PolicyKey(live[w], s))
    BY <2>1, WinnerIs
  <2>3. w \in best
    BY <1>4, <2>2
  <2>4. live[w] \in Elements(out)
    BY <1>10, <2>3
  <2> QED
    BY <2>2, <2>4
<1>13. CASE s.dna = "off"
  BY <1>2, <1>13
<1>14. CASE s.dna # "off"
  <2>1. OnePerDNA(live, s) = out
    BY <1>2, <1>14
  <2> QED
    BY <1>8, <1>9, <1>11, <1>12, <1>14, <2>1
<1> QED
  BY <1>13, <1>14

LEMMA LineupElements ==
  ASSUME NEW live \in Seq(Listings), NEW s \in LineupSettings
  PROVE  /\ LineupOf(live, s) \in Seq(Listings)
         /\ Elements(LineupOf(live, s)) \subseteq Elements(live)
<1> DEFINE pool == PreCap(live, s)
           one == OnePerDNA(pool, s)
<1>1. pool \in Seq(Listings) /\ Elements(pool) \subseteq Elements(live)
  BY PreCapElements
<1>2. LineupOf(live, s) = Capped(one, s.cap)
  BY DEF LineupOf
<1> HIDE DEF pool
<1>3. one \in Seq(Listings) /\ Elements(one) \subseteq Elements(pool)
  BY <1>1, OnePerDNAIs
<1> HIDE DEF one
<1>4. s.cap \in Nat
  BY DEF LineupSettings
<1>5. Capped(one, s.cap) \in Seq(Listings) /\ Elements(Capped(one, s.cap)) \subseteq Elements(one)
  BY <1>3, <1>4, CappedIs
<1> QED
  BY <1>1, <1>2, <1>3, <1>5

LEMMA NothingLost ==
  ASSUME NEW live \in Seq(Listings), NEW s \in LineupSettings
  PROVE  NothingLostBut(live, s)
<1> DEFINE pool == PreCap(live, s)
           one == OnePerDNA(pool, s)
           lineup1 == LineupOf(live, s)
           Variant(c, list) == \E d \in Elements(list) :
                                  DNA(d) = DNA(c) /\ ~Above(PolicyKey(c, s), PolicyKey(d, s))
<1>1. pool \in Seq(Listings)
  BY PreCapElements
<1>2. lineup1 = Capped(one, s.cap)
  BY DEF LineupOf
<1>3. Elements(lineup1) \subseteq Elements(live) /\ lineup1 \in Seq(Listings)
  BY LineupElements
<1>4. s.cap \in Nat
  BY DEF LineupSettings
<1>5. NothingLostBut(live, s) <=>
        /\ Elements(lineup1) \subseteq Elements(live)
        /\ s.dna # "off" =>
             \A i, j \in DOMAIN lineup1 : i # j => DNA(lineup1[i]) # DNA(lineup1[j])
        /\ \A c \in Elements(pool) \ Elements(lineup1) :
             (s.dna # "off" /\ Variant(c, lineup1)) \/ Len(lineup1) = s.cap
  BY DEF NothingLostBut
<1> HIDE DEF pool, lineup1
<1>6. /\ one \in Seq(Listings)
      /\ s.dna = "off" => one = pool
      /\ s.dna # "off" =>
           /\ \A k, l \in 1 .. Len(one) : k # l => DNA(one[k]) # DNA(one[l])
           /\ \A c \in Elements(pool) \ Elements(one) : Variant(c, one)
  BY <1>1, OnePerDNAIs
<1> HIDE DEF one, Variant
<1>7. /\ Len(lineup1) <= Len(one)
      /\ \A i \in 1 .. Len(lineup1) : lineup1[i] = one[i]
      /\ lineup1 = one \/ Len(lineup1) = s.cap
  BY <1>2, <1>4, <1>6, CappedIs
<1>8. DOMAIN lineup1 = 1 .. Len(lineup1) /\ Len(lineup1) \in Nat /\ Len(one) \in Nat
  BY <1>3, <1>6
<1>9. ASSUME s.dna # "off", NEW i \in DOMAIN lineup1, NEW j \in DOMAIN lineup1, i # j
      PROVE  DNA(lineup1[i]) # DNA(lineup1[j])
  <2>1. i \in 1 .. Len(one) /\ j \in 1 .. Len(one)
    BY <1>7, <1>8
  <2> QED
    BY <1>6, <1>7, <1>8, <1>9, <2>1
<1>10. ASSUME NEW c \in Elements(pool) \ Elements(lineup1)
       PROVE  (s.dna # "off" /\ Variant(c, lineup1)) \/ Len(lineup1) = s.cap
  <2>1. CASE lineup1 = one
    BY <1>6, <1>10, <2>1
  <2> QED
    BY <1>7, <2>1
<1> QED
  BY <1>3, <1>5, <1>9, <1>10

(* So many shards of size n that they reach the end.                         *)
LEMMA EnoughShards ==
  ASSUME NEW L \in Nat, NEW n \in 1 .. L
  PROVE  (L + n - 1) \div n \in 0 .. L /\ ((L + n - 1) \div n) * n >= L
<1> DEFINE K == (L + n - 1) \div n
           rest == (L + n - 1) % n
<1>1. L + n - 1 \in Int /\ n \in Int /\ n > 0
  OBVIOUS
<1>2. K \in Int /\ rest \in 0 .. n - 1 /\ L + n - 1 = n * K + rest
  BY <1>1
<1> HIDE DEF K, rest
<1>3. n * K >= L
  BY <1>2
<1>4. K >= 0
  <2> SUFFICES ASSUME K <= -1 PROVE FALSE
    BY <1>2
  <2>1. n * K <= 0 /\ n * K \in Int /\ L > 0
    BY <1>2
  <2> QED
    BY <1>3, <2>1
<1>5. K <= L
  <2> SUFFICES ASSUME K >= L + 1 PROVE FALSE
    BY <1>2
  <2>1. n * K >= n * (L + 1)
    BY <1>2
  <2>2. n * (L + 1) >= L + n
    <3>1. n * (L + 1) = n * L + n /\ n * L >= L
      OBVIOUS
    <3> QED
      BY <3>1
  <2>3. n * K <= L + n - 1
    BY <1>2
  <2> QED
    BY <1>2, <2>1, <2>2, <2>3
<1>6. n * K = K * n
  BY <1>2
<1> QED
  BY <1>2, <1>3, <1>4, <1>5, <1>6 DEF K

LEMMA ShardsAreAll ==
  ASSUME NEW T, NEW live \in Seq(T)
  PROVE  ShardsPartition(live)
<1> SUFFICES ASSUME NEW n \in 1 .. Len(live)
             PROVE  LET shard(k) == Shard(live, k * n, n)
                        all[k \in 0 .. Len(live)] ==
                          IF k = 0 THEN <<>> ELSE all[k - 1] \o shard(k - 1)
                    IN  all[(Len(live) + n - 1) \div n] = live
  BY DEF ShardsPartition
<1> DEFINE L == Len(live)
           Is(f) == f = [k \in 0 .. L |-> IF k = 0 THEN <<>>
                                          ELSE f[k - 1] \o Shard(live, (k - 1) * n, n)]
           all1 == CHOOSE f : Is(f)
           Upto(k) == IF k * n < L THEN k * n ELSE L
           g == [k \in 0 .. L |-> SubSeq(live, 1, Upto(k))]
<1>1. L \in Nat /\ n \in 1 .. L /\ n \in Nat
  OBVIOUS
<1>2. SubSeq(live, 1, 0) = <<>> /\ SubSeq(live, 1, L) = live
  BY SubSeqEmpty, SubSeqFull
<1> HIDE DEF L
<1>3. ASSUME NEW k \in 1 .. L
      PROVE  SubSeq(live, 1, Upto(k)) = SubSeq(live, 1, Upto(k - 1)) \o Shard(live, (k - 1) * n, n)
  <2> DEFINE a == (k - 1) * n
  <2>1. a \in Nat /\ k * n = a + n
    BY <1>1
  <2> HIDE DEF a
  <2>2. Shard(live, a, n) = SubSeq(live, a + 1, IF a + n < L THEN a + n ELSE L)
    <3>1. n > 0 /\ L = Len(live)
      BY <1>1 DEF L
    <3>2. (IF n > 0 /\ a + n < Len(live) THEN a + n ELSE Len(live)) =
          IF a + n < L THEN a + n ELSE L
      BY <3>1
    <3> QED
      BY <3>2 DEF Shard
  <2>3. Upto(k) = (IF a + n < L THEN a + n ELSE L) /\ Upto(k - 1) = IF a < L THEN a ELSE L
    BY <2>1 DEF a
  <2> HIDE DEF Upto
  <2>4. CASE a < L
    <3>1. 1 \in 1 .. L + 1 /\ a \in 1 - 1 .. L /\ Upto(k) \in a .. L
      BY <1>1, <2>1, <2>3, <2>4
    <3>2. SubSeq(live, 1, a) \o SubSeq(live, a + 1, Upto(k)) = SubSeq(live, 1, Upto(k))
      BY <3>1, ConcatAdjacentSubSeq DEF L
    <3> QED
      BY <2>2, <2>3, <2>4, <3>2 DEF a
  <2>5. CASE a >= L
    <3>1. Upto(k) = L /\ Upto(k - 1) = L /\ ~(a + n < L)
      BY <1>1, <2>1, <2>3, <2>5
    <3>2. Shard(live, a, n) = <<>>
      <4>1. a + 1 \in Int /\ L \in Int /\ L < a + 1
        BY <1>1, <2>1, <2>5
      <4> QED
        BY <2>2, <3>1, <4>1, SubSeqEmpty
    <3>3. live \o <<>> = live
      BY ConcatSimplifications
    <3> QED
      BY <1>2, <3>1, <3>2, <3>3 DEF a
  <2>6. a < L \/ a >= L
    BY <1>1, <2>1
  <2> QED
    BY <2>4, <2>5, <2>6
<1>4. Upto(0) = 0
  BY <1>1
<1> HIDE DEF Upto
<1>5. Is(g)
  <2>1. ASSUME NEW k \in 0 .. L
        PROVE  g[k] = IF k = 0 THEN <<>> ELSE g[k - 1] \o Shard(live, (k - 1) * n, n)
    <3>1. CASE k = 0
      BY <1>2, <1>4, <3>1
    <3>2. CASE k # 0
      <4>1. k \in 1 .. L /\ k - 1 \in 0 .. L
        BY <1>1, <3>2
      <4> QED
        BY <1>3, <3>2, <4>1
    <3> QED
      BY <3>1, <3>2
  <2> HIDE DEF g
  <2>2. g = [k \in 0 .. L |-> g[k]]
    BY DEF g
  <2> QED
    BY <2>1, <2>2
<1>6. Is(all1)
  BY <1>5
<1> HIDE DEF all1, g
<1> DEFINE P == {k \in 0 .. L : all1[k] = SubSeq(live, 1, Upto(k))}
<1>7. 0 \in P
  BY <1>1, <1>2, <1>4, <1>6
<1>8. ASSUME NEW k \in 1 .. L, k - 1 \in P
      PROVE  k \in P
  <2>1. k \in 0 .. L /\ k # 0
    BY <1>1
  <2>2. all1[k] = all1[k - 1] \o Shard(live, (k - 1) * n, n)
    BY <1>6, <2>1
  <2> QED
    BY <1>3, <1>8, <2>1, <2>2
<1>9. \A k \in 0 .. L : k \in P
  <2> HIDE DEF P
  <2> QED
    BY <1>1, <1>7, <1>8, UpTo
<1>10. (L + n - 1) \div n \in 0 .. L /\ Upto((L + n - 1) \div n) = L
  <2> DEFINE K == (L + n - 1) \div n
  <2>1. K \in 0 .. L /\ K * n >= L
    BY <1>1, EnoughShards
  <2> HIDE DEF K
  <2>2. K * n \in Int
    BY <1>1, <2>1
  <2>3. ~(K * n < L)
    BY <1>1, <2>1, <2>2
  <2>4. Upto(K) = L
    BY <2>3 DEF Upto
  <2> QED
    BY <2>1, <2>4 DEF K
<1>11. all1[(L + n - 1) \div n] = live
  BY <1>2, <1>9, <1>10
<1> QED
  BY <1>11 DEF all1, L

-----------------------------------------------------------------------------
(* The invariant of the run.                                                 *)

Results == [live : Seq(Listings), films : Origins \cup {NoOrigin}, shows : SUBSET Shows,
            owner : Origins \cup {NoOrigin}, api : BOOLEAN]
Files == [live : Seq(Listings), films : Origins \cup {NoOrigin, "no file"}, shows : SUBSET Shows]

CatalogTypeInv ==
  /\ config \in CatalogConfigs
  /\ step \in Steps
  /\ entry \in Nat
  /\ ranked \in Seq(Origins)
  /\ res \in Results
  /\ file \in Files
  /\ lineup \in Seq(Listings)
  /\ serving \in BOOLEAN

(* What is at hand at each step.                                             *)
StepInv ==
  /\ step \in {"down", "lists", "probe", "index", "direct", "idle"} => res = NoResult
  /\ step \in {"lists", "enrich"} => Lists # <<>>
  /\ step = "enrich" => AllHaveURLs(res.live)
  /\ step \in {"probe", "index"} => entry = 1
  /\ step = "index" => ranked # <<>>
  /\ step \in {"index", "direct", "getphp"} => entry \in 1 .. Len(Entries)

(* The account known is that of the channels, and from what was fetched to   *)
(* what is loaded it is the file's too.                                      *)
AccountInv ==
  Lists = <<>> =>
    /\ res.owner # NoOrigin => AccountsOf(res.live) \subseteq {res.owner}
    /\ step \in {"build", "smoke", "save"} =>
         res.owner # NoOrigin /\ res.films \in {NoOrigin, res.owner}
    /\ step \in {"check", "load"} /\ res.owner # NoOrigin =>
         AccountsOf(file.live) \subseteq {res.owner}
    /\ \E o \in Origins \cup {NoOrigin} : AccountsOf(file.live) \subseteq {o}
    /\ file.films \in Origins => AccountsOf(file.live) \subseteq {file.films}

StripInv ==
  /\ step \in {"smoke", "save", "publish"} => NoneStripped(res.live, config.strip)
  /\ NoneStripped(file.live, config.strip)
  /\ NoneStripped(lineup, config.strip)

(* What is about to be served, or is served, was saved.                      *)
SavedInv ==
  /\ step = "publish" => StreamsOf(res.live, file.live)
  /\ step # "publish" => StreamsOf(lineup, file.live)
  /\ ~serving => lineup = NoChannels

(* ProviderGuideWins.                                                        *)
WinsInv ==
  step \in {"smoke", "save", "check", "publish"} /\ answered # <<>> /\ answered[1] \in Origins =>
    LinkedBy(res.live, GuideOf[answered[1]])

CatalogInv ==
  CatalogTypeInv /\ StepInv /\ AccountInv /\ StripInv /\ SavedInv /\ WinsInv

(* What the operator's settings are.                                         *)
LEMMA Settings ==
  ASSUME config \in CatalogConfigs
  PROVE  /\ Lists \in Seq(Origins) /\ Entries \in Seq(Origins)
         /\ config.lineup \in LineupSettings
         /\ DOMAIN Entries = 1 .. Len(Entries) /\ Len(Entries) \in Nat
         /\ \A i \in 1 .. Len(Entries) : Entries[i] \in Origins
<1>1. config \in Configs
  BY ConfigType
<1>2. Lists \in Seq(Origins) /\ Entries \in Seq(Origins) /\ config.lineup \in LineupSettings
  BY <1>1 DEF Configs, Lists, Entries
<1> QED
  BY <1>2

LEMMA EmptyList == <<>> \in Seq(Listings) /\ <<>> \in Seq(Origins) /\ NoChannels \in Seq(Listings)
BY EmptySeq DEF NoChannels

LEMMA ResultType ==
  /\ NoResult \in Results
  /\ NoResult.live = NoChannels /\ NoResult.owner = NoOrigin /\ NoResult.films = NoOrigin
  /\ \A r \in Results : /\ r.live \in Seq(Listings)
                        /\ r.owner \in Origins \cup {NoOrigin}
                        /\ Saved(r) \in Files
                        /\ Saved(r).live = r.live /\ Saved(r).films = r.films
  /\ \A r \in Results : \A live \in Seq(Listings) :
       /\ [r EXCEPT !.live = live] \in Results
       /\ [r EXCEPT !.live = live].live = live
       /\ [r EXCEPT !.live = live].owner = r.owner
       /\ [r EXCEPT !.live = live].films = r.films
<1>1. NoResult \in Results
  BY EmptyList DEF NoResult, Results
<1>2. NoResult.live = NoChannels /\ NoResult.owner = NoOrigin /\ NoResult.films = NoOrigin
  BY DEF NoResult
<1>3. ASSUME NEW r \in Results
      PROVE  /\ r.live \in Seq(Listings)
             /\ r.owner \in Origins \cup {NoOrigin}
             /\ Saved(r) \in Files
             /\ Saved(r).live = r.live /\ Saved(r).films = r.films
  BY DEF Results, Saved, Files
<1>4. ASSUME NEW r \in Results, NEW live \in Seq(Listings)
      PROVE  /\ [r EXCEPT !.live = live] \in Results
             /\ [r EXCEPT !.live = live].live = live
             /\ [r EXCEPT !.live = live].owner = r.owner
             /\ [r EXCEPT !.live = live].films = r.films
  BY DEF Results
<1> QED
  BY <1>1, <1>2, <1>3, <1>4

LEMMA FewerElements ==
  ASSUME NEW a \in Seq(Listings), NEW b \in Seq(Listings), Elements(a) \subseteq Elements(b)
  PROVE  /\ AccountsOf(a) \subseteq AccountsOf(b)
         /\ \A hosts : NoneStripped(b, hosts) => NoneStripped(a, hosts)
         /\ \A c : StreamsOf(b, c) => StreamsOf(a, c)
         /\ \A guide : LinkedBy(b, guide) => LinkedBy(a, guide)
BY DEF AccountsOf, NoneStripped, StreamsOf, LinkedBy

LEMMA SameElements ==
  ASSUME NEW a \in Seq(Listings), NEW b \in Seq(Listings), SameStreams(a, b)
  PROVE  /\ AccountsOf(a) \subseteq AccountsOf(b)
         /\ \A hosts : NoneStripped(b, hosts) => NoneStripped(a, hosts)
         /\ StreamsOf(a, b)
<1>1. Len(a) \in Nat /\ Len(b) \in Nat /\ DOMAIN a = 1 .. Len(a) /\ DOMAIN b = 1 .. Len(b)
  OBVIOUS
<1>2. ASSUME NEW c \in Elements(a)
      PROVE  \E d \in Elements(b) : c.ch = d.ch /\ c.id = d.id /\ c.urls = d.urls
  <2>1. PICK i \in 1 .. Len(a) : c = a[i]
    BY <1>1 DEF Elements
  <2>2. i \in DOMAIN b /\ b[i] \in Elements(b)
    BY <1>1 DEF SameStreams, Elements
  <2>3. c.ch = b[i].ch /\ c.id = b[i].id /\ c.urls = b[i].urls
    BY <2>1 DEF SameStreams
  <2> QED
    BY <2>2, <2>3
<1> QED
  BY <1>2 DEF AccountsOf, NoneStripped, StreamsOf

LEMMA AnswersType ==
  ASSUME NEW owner \in Origins \cup {NoOrigin}, NEW guides \in Answers(owner)
  PROVE  guides \in Seq(Origins \cup {External})
<1> DEFINE G == Origins \cup {External}
           own == IF owner # NoOrigin /\ GuideOf[owner] # {} THEN <<owner>> ELSE <<>>
           ext == IF config.external /\ GuideOf[External] # {} THEN <<External>> ELSE <<>>
<1>1. own \in Seq(G) /\ ext \in Seq(G)
  <2>1. <<>> \in Seq(G) /\ <<External>> \in Seq(G) /\ (owner # NoOrigin => <<owner>> \in Seq(G))
    OBVIOUS
  <2> HIDE DEF G
  <2> QED
    BY <2>1
<1>2. Guides(owner) = own \o ext
  BY DEF Guides
<1>3. PICK had : guides = Kept(Guides(owner), had)
  BY DEF Answers
<1> HIDE DEF own, ext, G
<1>4. Guides(owner) \in Seq(G)
  BY <1>1, <1>2, ConcatProperties
<1>5. guides \in Seq(G)
  BY <1>3, <1>4, KeptPlaces
<1> QED
  BY <1>5 DEF G

LEMMA FiniteElements ==
  ASSUME NEW T, NEW seq \in Seq(T)
  PROVE  IsFiniteSet(Elements(seq))
<1>1. DOMAIN seq = 1 .. Len(seq) /\ IsFiniteSet(1 .. Len(seq))
  <2>1. DOMAIN seq = 1 .. Len(seq) /\ 1 \in Int /\ Len(seq) \in Int
    OBVIOUS
  <2> QED
    BY <2>1, FS_Interval
<1> DEFINE E == {seq[i] : i \in DOMAIN seq}
<1>2. seq \in Surjection(1 .. Len(seq), E)
  BY <1>1 DEF Surjection
<1> HIDE DEF E
<1>3. IsFiniteSet(E)
  BY <1>1, <1>2, FS_Surjection
<1> QED
  BY <1>3 DEF E, Elements

LEMMA OrdersType ==
  ASSUME NEW T, NEW S, S \subseteq T, IsFiniteSet(S), NEW r \in Orders(S)
  PROVE  r \in Seq(T) /\ Elements(r) \subseteq S
<1>1. Cardinality(S) \in Nat
  BY FS_CardinalityType
<1>2. r \in [1 .. Cardinality(S) -> S]
  BY DEF Orders
<1> QED
  BY <1>1, <1>2 DEF Elements

LEMMA RankingsType ==
  ASSUME config \in CatalogConfigs, NEW ok \in SUBSET DOMAIN Entries, NEW r \in Rankings(ok)
  PROVE  r \in Seq(Origins) /\ (r # <<>> => 1 \in 1 .. Len(Entries) /\ r[1] \in Origins)
<1>1. DOMAIN Entries = 1 .. Len(Entries) /\ Len(Entries) \in Nat
      /\ \A i \in 1 .. Len(Entries) : Entries[i] \in Origins
  BY Settings
<1>2. IsFiniteSet(ok) /\ ok \subseteq 1 .. Len(Entries)
  <2>1. 1 \in Int /\ Len(Entries) \in Int
    BY <1>1
  <2>2. IsFiniteSet(1 .. Len(Entries))
    BY <2>1, FS_Interval
  <2> QED
    BY <1>1, <2>2, FS_Subset
<1>3. PICK o \in Orders(ok) : r = [i \in DOMAIN o |-> Entries[o[i]]]
  BY DEF Rankings
<1> DEFINE I == 1 .. Len(Entries)
<1> HIDE DEF I
<1>4. o \in Seq(I)
  BY <1>2, OrdersType DEF I
<1>5. Len(o) \in Nat /\ DOMAIN o = 1 .. Len(o) /\ \A i \in 1 .. Len(o) : o[i] \in I
  BY <1>4
<1>6. \A i \in 1 .. Len(o) : Entries[o[i]] \in Origins
  BY <1>1, <1>5 DEF I
<1>7. r \in Seq(Origins) /\ Len(r) = Len(o)
  BY <1>3, <1>5, <1>6
<1>8. r # <<>> => 1 \in 1 .. Len(o) /\ r[1] \in Origins
  <2>1. r # <<>> => Len(r) # 0
    BY <1>7, EmptySeq
  <2> QED
    BY <1>5, <1>7, <2>1
<1>9. r # <<>> => 1 \in 1 .. Len(Entries)
  <2>1. r # <<>> => o[1] \in I
    BY <1>5, <1>8
  <2> QED
    BY <1>1, <2>1 DEF I
<1> QED
  BY <1>7, <1>8, <1>9

LEMMA IndexedType ==
  ASSUME NEW o \in Origins, NEW live \in Seq(Listings), NEW shows \in SUBSET Shows
  PROVE  /\ Indexed(o, live, shows) \in Results
         /\ Indexed(o, live, shows).live = live
         /\ Indexed(o, live, shows).owner = o
         /\ Indexed(o, live, shows).films \in {NoOrigin, o}
BY DEF Indexed, Results

(* What the ranked index lists is of the account indexed.                    *)
LEMMA RankedHostsIs ==
  ASSUME NEW o \in Origins, NEW h \in Hosts, ranked \in Seq(Origins)
  PROVE  LET listed == ListedByAPI(o, h)
             live == [i \in DOMAIN listed |-> [listed[i] EXCEPT !.urls = OnRankedHosts(@[1])]]
         IN  live \in Seq(Listings) /\ AccountsOf(live) \subseteq {o}
<1> DEFINE listed == ListedByAPI(o, h)
           live == [i \in DOMAIN listed |-> [listed[i] EXCEPT !.urls = OnRankedHosts(listed[i].urls[1])]]
           urls == [i \in DOMAIN ranked |-> URL(ranked[i], o)]
<1>1. listed \in Seq(Listings) /\ \A c \in Elements(listed) : c.urls = <<URL(h, o)>>
  BY APIType
<1> HIDE DEF listed
<1>2. Len(listed) \in Nat /\ DOMAIN listed = 1 .. Len(listed)
      /\ \A i \in 1 .. Len(listed) : listed[i] \in Listings /\ listed[i].urls = <<URL(h, o)>>
  BY <1>1 DEF Elements
<1>3. \A i \in 1 .. Len(listed) : OnRankedHosts(listed[i].urls[1]) = urls
  <2>1. URL(h, o).account = o
    BY DEF URL
  <2>2. \A u : <<u>>[1] = u
    OBVIOUS
  <2> QED
    BY <1>2, <2>1, <2>2 DEF OnRankedHosts
<1>4. urls \in Seq(URLs) /\ \A u \in Elements(urls) : u.account = o
  <2>1. Len(ranked) \in Nat /\ DOMAIN ranked = 1 .. Len(ranked)
        /\ \A i \in 1 .. Len(ranked) : ranked[i] \in Origins
    OBVIOUS
  <2>2. \A i \in 1 .. Len(ranked) : URL(ranked[i], o) \in URLs /\ URL(ranked[i], o).account = o
    BY <2>1 DEF URL, URLs, Hosts
  <2>3. urls = [i \in 1 .. Len(ranked) |-> URL(ranked[i], o)]
    BY <2>1
  <2> HIDE DEF urls
  <2>4. urls \in Seq(URLs) /\ DOMAIN urls = 1 .. Len(ranked)
    BY <2>1, <2>2, <2>3
  <2> QED
    BY <2>2, <2>3, <2>4 DEF Elements
<1> HIDE DEF urls
<1>5. live = [i \in 1 .. Len(listed) |-> [listed[i] EXCEPT !.urls = urls]]
  BY <1>2, <1>3
<1>6. \A i \in 1 .. Len(listed) : [listed[i] EXCEPT !.urls = urls] \in Listings
                                  /\ [listed[i] EXCEPT !.urls = urls].urls = urls
  BY <1>2, <1>4 DEF Listings
<1>7. live \in Seq(Listings) /\ \A c \in Elements(live) : c.urls = urls
  <2> HIDE DEF live
  <2>1. live \in Seq(Listings) /\ DOMAIN live = 1 .. Len(listed)
    BY <1>2, <1>5, <1>6
  <2> QED
    BY <1>5, <1>6, <2>1 DEF Elements
<1>8. AccountsOf(live) \subseteq {o}
  <2> HIDE DEF live
  <2> QED
    BY <1>4, <1>7 DEF AccountsOf
<1> QED
  BY <1>7, <1>8 DEF listed

(* The channels after the smoke test were there before it.                   *)
LEMMA SmokedIs ==
  ASSUME NEW live \in Seq(Listings), NEW good,
         NEW passed, passed \subseteq Elements(live), NEW order \in Orders(passed)
  PROVE  /\ Kept(live, good) \o order \in Seq(Listings)
         /\ Elements(Kept(live, good) \o order) \subseteq Elements(live)
<1> DEFINE a == Kept(live, good)
<1>1. a \in Seq(Listings) /\ Elements(a) \subseteq Elements(live)
  BY KeptElements
<1>2. IsFiniteSet(passed) /\ passed \subseteq Listings
  <2>1. DOMAIN live = 1 .. Len(live) /\ \A i \in 1 .. Len(live) : live[i] \in Listings
    OBVIOUS
  <2>2. Elements(live) \subseteq Listings
    BY <2>1 DEF Elements
  <2>3. IsFiniteSet(Elements(live))
    BY FiniteElements
  <2> QED
    BY <2>2, <2>3, FS_Subset
<1>3. order \in Seq(Listings) /\ Elements(order) \subseteq Elements(live)
  BY <1>2, OrdersType
<1> HIDE DEF a
<1>4. a \o order \in Seq(Listings) /\ Len(a \o order) = Len(a) + Len(order)
      /\ \A i \in 1 .. Len(a) + Len(order) :
           (a \o order)[i] = IF i <= Len(a) THEN a[i] ELSE order[i - Len(a)]
  BY <1>1, <1>3, ConcatProperties
<1>5. DOMAIN a = 1 .. Len(a) /\ DOMAIN order = 1 .. Len(order) /\ Len(a) \in Nat /\ Len(order) \in Nat
  BY <1>1, <1>3
<1> DEFINE out == a \o order
<1> HIDE DEF out
<1>6. ASSUME NEW i \in 1 .. Len(a) + Len(order)
      PROVE  out[i] \in Elements(live)
  <2>1. CASE i <= Len(a)
    <3>1. i \in DOMAIN a /\ out[i] = a[i]
      BY <1>4, <1>5, <2>1 DEF out
    <3> QED
      BY <1>1, <3>1 DEF Elements
  <2>2. CASE i > Len(a)
    <3>1. i - Len(a) \in DOMAIN order /\ out[i] = order[i - Len(a)]
      BY <1>4, <1>5, <2>2 DEF out
    <3> QED
      BY <1>3, <3>1 DEF Elements
  <2> QED
    BY <1>5, <2>1, <2>2
<1>7. DOMAIN out = 1 .. Len(a) + Len(order)
  BY <1>4 DEF out
<1> QED
  BY <1>4, <1>6, <1>7 DEF out, a, Elements

LEMMA LinkedOnlyIs ==
  ASSUME NEW live \in Seq(Listings)
  PROVE  LinkedOnly(live) \in Seq(Listings) /\ Elements(LinkedOnly(live)) \subseteq Elements(live)
BY KeptElements DEF LinkedOnly

(* What Build makes of a list, with any guides.                              *)
LEMMA BuiltIs ==
  ASSUME config \in CatalogConfigs, NEW live \in Seq(Listings),
         NEW guides \in Seq(Origins \cup {External})
  PROVE  LET repaired == Repair(Stripped(live), guides)
             built == IF config.epgOnly THEN LinkedOnly(repaired) ELSE repaired
         IN  /\ built \in Seq(Listings)
             /\ NoneStripped(built, config.strip)
             /\ AccountsOf(built) \subseteq AccountsOf(live)
             /\ guides # <<>> => LinkedBy(built, GuideOf[guides[1]])
<1> DEFINE bare == Stripped(live)
           repaired == Repair(bare, guides)
           built == IF config.epgOnly THEN LinkedOnly(repaired) ELSE repaired
<1>1. bare \in Seq(Listings) /\ NoneStripped(bare, config.strip)
      /\ \A c \in Elements(bare) : \E d \in Elements(live) : Elements(c.urls) \subseteq Elements(d.urls)
  BY StrippedIs
<1>2. AccountsOf(bare) \subseteq AccountsOf(live)
  BY <1>1 DEF AccountsOf
<1> HIDE DEF bare
<1>3. repaired \in Seq(Listings) /\ SameStreams(repaired, bare)
      /\ (guides # <<>> => LinkedBy(repaired, GuideOf[guides[1]]))
  BY <1>1, RepairIs
<1> HIDE DEF repaired
<1>4. NoneStripped(repaired, config.strip) /\ AccountsOf(repaired) \subseteq AccountsOf(live)
  BY <1>1, <1>2, <1>3, SameElements
<1>5. built \in Seq(Listings) /\ Elements(built) \subseteq Elements(repaired)
  BY <1>3, LinkedOnlyIs
<1> HIDE DEF built
<1>6. /\ NoneStripped(built, config.strip)
      /\ AccountsOf(built) \subseteq AccountsOf(live)
      /\ guides # <<>> => LinkedBy(built, GuideOf[guides[1]])
  BY <1>3, <1>4, <1>5, FewerElements
<1> QED
  BY <1>3, <1>5, <1>6 DEF built, repaired, bare

(* A step of the run that leaves what is saved and served alone.             *)
Within ==
  /\ UNCHANGED <<config, file, lineup, serving>>
  /\ step # "publish" /\ step' \in Steps \ {"publish"}
  /\ entry' \in Nat
  /\ ranked' \in Seq(Origins)
  /\ res' \in Results

LEMMA WithinPreserves ==
  ASSUME CatalogInv, Within
  PROVE  /\ CatalogTypeInv'
         /\ SavedInv'
         /\ Lists' = Lists /\ Entries' = Entries
         /\ step' \notin {"smoke", "save"} => StripInv'
         /\ NoneStripped(res'.live, config.strip) => StripInv'
<1> USE DEF Within
<1>1. CatalogTypeInv'
  BY DEF CatalogInv, CatalogTypeInv
<1>2. SavedInv'
  BY DEF CatalogInv, SavedInv
<1>3. Lists' = Lists /\ Entries' = Entries
  BY DEF Lists, Entries
<1>4. step' \notin {"smoke", "save"} => StripInv'
  BY DEF CatalogInv, StripInv
<1>5. NoneStripped(res'.live, config.strip) => StripInv'
  BY DEF CatalogInv, StripInv
<1> QED
  BY <1>1, <1>2, <1>3, <1>4, <1>5

LEMMA NoAccounts == AccountsOf(NoChannels) = {}
BY FirstElement DEF AccountsOf, NoChannels

(* A fetch that gives up has nothing at hand.                                *)
LEMMA GiveUpPreserves ==
  ASSUME CatalogInv, GiveUp, UNCHANGED <<config, file, lineup, serving>>, step # "publish"
  PROVE  CatalogInv'
<1>1. step' \in {"down", "idle"} /\ res' = NoResult /\ ranked' = <<>> /\ entry' = 1
  BY DEF GiveUp
<1>2. Within
  BY <1>1, ResultType, EmptyList DEF Within, Steps
<1>3. CatalogTypeInv' /\ SavedInv' /\ Lists' = Lists /\ StripInv'
  BY <1>1, <1>2, WithinPreserves
<1>4. StepInv'
  BY <1>1 DEF StepInv
<1>5. AccountInv'
  BY <1>1, <1>3, ResultType DEF CatalogInv, AccountInv
<1>6. WinsInv'
  BY <1>1 DEF WinsInv
<1> QED
  BY <1>3, <1>4, <1>5, <1>6 DEF CatalogInv

(* So a step within a fetch preserves the invariant if it keeps what is at   *)
(* hand of one account.                                                      *)
LEMMA FetchPreserves ==
  ASSUME CatalogInv, Within, step' \notin {"smoke", "save", "check", "load"},
         StepInv',
         Lists = <<>> /\ res'.owner # NoOrigin => AccountsOf(res'.live) \subseteq {res'.owner},
         Lists = <<>> /\ step' = "build" =>
           res'.owner # NoOrigin /\ res'.films \in {NoOrigin, res'.owner}
  PROVE  CatalogInv'
<1>1. CatalogTypeInv' /\ SavedInv' /\ Lists' = Lists /\ StripInv'
  BY WithinPreserves
<1>2. file' = file /\ step' # "publish"
  BY DEF Within
<1>3. AccountInv'
  BY <1>1, <1>2 DEF CatalogInv, AccountInv
<1>4. WinsInv'
  BY <1>2 DEF WinsInv
<1> QED
  BY <1>1, <1>3, <1>4 DEF CatalogInv

LEMMA FetchListsPreserves == CatalogInv /\ FetchLists => CatalogInv'
<1> SUFFICES ASSUME CatalogInv, FetchLists PROVE CatalogInv'
  OBVIOUS
<1>1. step = "lists" /\ UNCHANGED <<config, file, lineup, serving>> /\ Lists # <<>> /\ res = NoResult
  BY DEF FetchLists, CatalogInv, StepInv
<1>2. PICK ok \in SUBSET DOMAIN Lists :
        IF ok = {} THEN GiveUp
        ELSE /\ res' = [NoResult EXCEPT !.live = Deduplicated(Joined(ok))]
             /\ step' = IF Entries = <<>> THEN "build" ELSE "enrich"
             /\ UNCHANGED <<entry, ranked>>
  BY DEF FetchLists
<1>3. CASE ok = {}
  <2>1. GiveUp
    BY <1>2, <1>3
  <2> QED
    BY <1>1, <2>1, GiveUpPreserves
<1>4. CASE ok # {}
  <2> DEFINE live == Deduplicated(Joined(ok))
  <2>1. live \in Playable
    <3>1. Joined(ok) \in Playable
      BY JoinedPlayable DEF CatalogInv, CatalogTypeInv
    <3> QED
      BY <3>1, DeduplicatedPlayable
  <2>2. res' = [NoResult EXCEPT !.live = live] /\ step' \in {"build", "enrich"}
        /\ UNCHANGED <<entry, ranked>>
    BY <1>2, <1>4
  <2> HIDE DEF live
  <2>3. live \in Seq(Listings) /\ AllHaveURLs(live)
    BY <2>1 DEF Playable
  <2>4. res' \in Results /\ res'.live = live /\ res'.owner = NoOrigin
    BY <2>2, <2>3, ResultType
  <2>5. Within
    BY <1>1, <2>2, <2>4 DEF Within, Steps, CatalogInv, CatalogTypeInv
  <2>6. StepInv'
    <3>1. Lists' # <<>>
      BY <1>1, <2>5, WithinPreserves
    <3> QED
      BY <2>2, <2>3, <2>4, <3>1 DEF StepInv
  <2> QED
    BY <1>1, <2>2, <2>5, <2>6, FetchPreserves
<1> QED
  BY <1>3, <1>4

LEMMA EnrichListsPreserves == CatalogInv /\ EnrichLists => CatalogInv'
<1> SUFFICES ASSUME CatalogInv, EnrichLists PROVE CatalogInv'
  OBVIOUS
<1>1. step = "enrich" /\ step' = "build" /\ UNCHANGED <<config, entry, file, lineup, serving>>
      /\ Lists # <<>> /\ AllHaveURLs(res.live)
  BY DEF EnrichLists, CatalogInv, StepInv
<1>2. PICK ok \in SUBSET Answering : \E r \in Rankings(ok) :
        ranked' = r /\ res' = [res EXCEPT !.live = OnProviderHostsToo(res.live, r)]
  BY DEF EnrichLists
<1>3. PICK r \in Rankings(ok) :
        ranked' = r /\ res' = [res EXCEPT !.live = OnProviderHostsToo(res.live, r)]
  BY <1>2
<1>4. r \in Seq(Origins)
  <2>1. ok \in SUBSET DOMAIN Entries
    BY DEF Answering
  <2> QED
    BY <2>1, RankingsType DEF CatalogInv, CatalogTypeInv
<1>5. OnProviderHostsToo(res.live, r) \in Seq(Listings)
  <2>1. res.live \in Playable
    BY <1>1, ResultType DEF Playable, CatalogInv, CatalogTypeInv
  <2> QED
    BY <1>4, <2>1, ProviderHostsType
<1>6. res' \in Results
  BY <1>3, <1>5, ResultType DEF CatalogInv, CatalogTypeInv
<1>7. Within
  BY <1>1, <1>3, <1>4, <1>6 DEF Within, Steps, CatalogInv, CatalogTypeInv
<1>8. StepInv'
  BY <1>1 DEF StepInv
<1> QED
  BY <1>1, <1>7, <1>8, FetchPreserves

LEMMA ProbeProvidersPreserves == CatalogInv /\ ProbeProviders => CatalogInv'
<1> SUFFICES ASSUME CatalogInv, ProbeProviders PROVE CatalogInv'
  OBVIOUS
<1>1. step = "probe" /\ UNCHANGED <<config, file, lineup, serving>> /\ res = NoResult /\ entry = 1
  BY DEF ProbeProviders, CatalogInv, StepInv
<1>2. PICK ok \in SUBSET Answering : \E r \in Rankings(ok) :
        IF r = <<>> /\ (config.blockCF \/ Entries = <<>>)
        THEN GiveUp
        ELSE ranked' = r /\ step' = (IF r = <<>> THEN "direct" ELSE "index") /\ UNCHANGED <<entry, res>>
  BY DEF ProbeProviders
<1>3. PICK r \in Rankings(ok) :
        IF r = <<>> /\ (config.blockCF \/ Entries = <<>>)
        THEN GiveUp
        ELSE ranked' = r /\ step' = (IF r = <<>> THEN "direct" ELSE "index") /\ UNCHANGED <<entry, res>>
  BY <1>2
<1>4. CASE r = <<>> /\ (config.blockCF \/ Entries = <<>>)
  <2>1. GiveUp
    BY <1>3, <1>4
  <2> QED
    BY <1>1, <2>1, GiveUpPreserves
<1>5. CASE ~(r = <<>> /\ (config.blockCF \/ Entries = <<>>))
  <2>1. ranked' = r /\ step' = (IF r = <<>> THEN "direct" ELSE "index") /\ UNCHANGED <<entry, res>>
    BY <1>3, <1>5
  <2>2. r \in Seq(Origins) /\ (r # <<>> => 1 \in 1 .. Len(Entries))
    <3>1. ok \in SUBSET DOMAIN Entries
      BY DEF Answering
    <3> QED
      BY <3>1, RankingsType DEF CatalogInv, CatalogTypeInv
  <2>3. 1 \in 1 .. Len(Entries)
    <3>1. Entries \in Seq(Origins)
      BY Settings DEF CatalogInv, CatalogTypeInv
    <3>2. Entries # <<>> => 1 \in 1 .. Len(Entries)
      BY <3>1, EmptySeq
    <3> QED
      BY <1>5, <2>2, <3>2
  <2>4. Within
    BY <1>1, <2>1, <2>2 DEF Within, Steps, CatalogInv, CatalogTypeInv
  <2>5. StepInv'
    <3>1. Entries' = Entries
      BY <2>4, WithinPreserves
    <3> QED
      BY <1>1, <2>1, <2>3, <3>1 DEF StepInv
  <2>6. step' \in {"direct", "index"} /\ res'.owner = NoOrigin
    BY <1>1, <2>1, ResultType
  <2> QED
    BY <2>4, <2>5, <2>6, FetchPreserves
<1> QED
  BY <1>4, <1>5

LEMMA IndexBestPreserves == CatalogInv /\ IndexBest => CatalogInv'
<1> SUFFICES ASSUME CatalogInv, IndexBest PROVE CatalogInv'
  OBVIOUS
<1>1. step = "index" /\ UNCHANGED <<config, entry, ranked, file, lineup, serving>>
      /\ ranked # <<>> /\ ranked \in Seq(Origins) /\ entry \in 1 .. Len(Entries)
  BY DEF IndexBest, CatalogInv, StepInv, CatalogTypeInv
<1>2. ranked[1] \in Origins
  BY <1>1, EmptySeq, ElementOfSeq
<1> DEFINE best == ranked[1]
           listed(h) == ListedByAPI(best, h)
           live(h) == [i \in DOMAIN listed(h) |->
                         [listed(h)[i] EXCEPT !.urls = OnRankedHosts(listed(h)[i].urls[1])]]
           Took(h, shows) == res' = Indexed(best, live(h), shows) /\ step' = "build"
<1>3. \A h \in Hosts : live(h) \in Seq(Listings) /\ AccountsOf(live(h)) \subseteq {best}
  BY <1>1, <1>2, RankedHostsIs
<1>4. \/ \E h \in {best, Panel}, shows \in SUBSET Shows : Took(h, shows)
      \/ res' = [NoResult EXCEPT !.owner = best] /\ step' = "getphp"
  BY DEF IndexBest
<1>5. {best, Panel} \subseteq Hosts
  BY <1>2 DEF Hosts
<1> HIDE DEF live, best
<1>6. CASE \E h \in {best, Panel}, shows \in SUBSET Shows : Took(h, shows)
  <2>1. PICK h \in Hosts, shows \in SUBSET Shows :
          res' = Indexed(best, live(h), shows) /\ step' = "build"
    BY <1>6, <1>5
  <2>2. res' \in Results /\ res'.live = live(h) /\ res'.owner = best /\ res'.films \in {NoOrigin, best}
    BY <1>2, <1>3, <2>1, IndexedType DEF best
  <2>3. Within
    BY <1>1, <2>1, <2>2 DEF Within, Steps, CatalogInv, CatalogTypeInv
  <2>4. StepInv'
    BY <2>1 DEF StepInv
  <2>5. best # NoOrigin
    BY <1>2, CatalogAssumption DEF best
  <2> QED
    BY <1>3, <2>1, <2>2, <2>3, <2>4, <2>5, FetchPreserves
<1>7. CASE res' = [NoResult EXCEPT !.owner = best] /\ step' = "getphp"
  <2>1. res' \in Results /\ res'.live = NoChannels
    BY <1>2, <1>7, ResultType DEF Results, NoResult, best
  <2>2. Within
    BY <1>1, <1>7, <2>1 DEF Within, Steps, CatalogInv, CatalogTypeInv
  <2>3. StepInv'
    <3>1. Entries' = Entries
      BY <2>2, WithinPreserves
    <3> QED
      BY <1>1, <1>7, <3>1 DEF StepInv
  <2>4. AccountsOf(res'.live) = {}
    BY <2>1, NoAccounts
  <2> QED
    BY <1>7, <2>2, <2>3, <2>4, FetchPreserves
<1> QED
  BY <1>4, <1>6, <1>7

(* What the API of an account lists on one host is of the account.           *)
LEMMA ListedAccounts ==
  ASSUME NEW o \in Origins, NEW h \in Hosts
  PROVE  /\ AccountsOf(ListedByAPI(o, h)) \subseteq {o}
         /\ AccountsOf(ListedInPlaylist(o)) \subseteq {o}
<1>1. \A x \in Hosts : URL(x, o).account = o /\ Elements(<<URL(x, o)>>) = {URL(x, o)}
  BY URLType DEF URL
<1>2. AccountsOf(ListedByAPI(o, h)) \subseteq {o}
  <2>1. \A c \in Elements(ListedByAPI(o, h)) : c.urls = <<URL(h, o)>>
    BY APIType
  <2>2. \A c \in Elements(ListedByAPI(o, h)) : \A u \in Elements(c.urls) : u.account = o
    BY <1>1, <2>1
  <2> QED
    BY <2>2 DEF AccountsOf
<1>3. o \in Hosts
  BY DEF Hosts
<1>4. AccountsOf(ListedInPlaylist(o)) \subseteq {o}
  <2>1. \A c \in Elements(ListedInPlaylist(o)) : c.urls = <<URL(o, o)>>
    BY PlaylistType
  <2>2. \A c \in Elements(ListedInPlaylist(o)) : \A u \in Elements(c.urls) : u.account = o
    BY <1>1, <1>3, <2>1
  <2> QED
    BY <2>2 DEF AccountsOf
<1> QED
  BY <1>2, <1>4

LEMMA IndexDirectPreserves == CatalogInv /\ IndexDirect => CatalogInv'
<1> SUFFICES ASSUME CatalogInv, IndexDirect PROVE CatalogInv'
  OBVIOUS
<1>1. step = "direct" /\ UNCHANGED <<config, ranked, file, lineup, serving>>
      /\ ranked \in Seq(Origins) /\ entry \in 1 .. Len(Entries) /\ entry \in Nat
  BY DEF IndexDirect, CatalogInv, StepInv, CatalogTypeInv
<1>2. Entries[entry] \in Origins /\ Len(Entries) \in Nat
  BY <1>1, Settings DEF CatalogInv, CatalogTypeInv
<1> DEFINE o == Entries[entry]
<1>3. \/ \E host \in {o, Panel} : /\ res' = Indexed(o, ListedByAPI(o, host), Shows)
                                  /\ step' = "build" /\ entry' = entry
      \/ res' = NoResult /\ NextEntry("getphp")
  BY DEF IndexDirect
<1> HIDE DEF o
<1>4. CASE \E host \in {o, Panel} : /\ res' = Indexed(o, ListedByAPI(o, host), Shows)
                                    /\ step' = "build" /\ entry' = entry
  <2>1. PICK host \in {o, Panel} : /\ res' = Indexed(o, ListedByAPI(o, host), Shows)
                                   /\ step' = "build" /\ entry' = entry
    BY <1>4
  <2> DEFINE live == ListedByAPI(o, host)
  <2>2. host \in Hosts /\ o \in Origins
    BY <1>2 DEF Hosts, o
  <2>3. live \in Seq(Listings) /\ AccountsOf(live) \subseteq {o}
    BY <2>2, APIType, ListedAccounts
  <2> HIDE DEF live
  <2>4. res' \in Results /\ res'.live = live /\ res'.owner = o /\ res'.films \in {NoOrigin, o}
    BY <2>1, <2>2, <2>3, IndexedType DEF live
  <2>5. Within
    BY <1>1, <2>1, <2>4 DEF Within, Steps
  <2>6. StepInv'
    BY <2>1 DEF StepInv
  <2>7. o # NoOrigin
    BY <2>2, CatalogAssumption
  <2> QED
    BY <2>1, <2>3, <2>4, <2>5, <2>6, <2>7, FetchPreserves
<1>5. CASE res' = NoResult /\ NextEntry("getphp")
  <2>1. step' \in {"direct", "getphp"} /\ entry' \in 1 .. Len(Entries) /\ entry' \in Nat
    BY <1>1, <1>2, <1>5 DEF NextEntry
  <2>2. Within
    BY <1>1, <1>5, <2>1, ResultType DEF Within, Steps
  <2>3. StepInv'
    <3>1. Entries' = Entries
      BY <2>2, WithinPreserves
    <3> QED
      BY <1>5, <2>1, <3>1 DEF StepInv
  <2>4. res'.owner = NoOrigin
    BY <1>5, ResultType
  <2> QED
    BY <2>1, <2>2, <2>3, <2>4, FetchPreserves
<1> QED
  BY <1>3, <1>4, <1>5

LEMMA FetchPlaylistPreserves == CatalogInv /\ FetchPlaylist => CatalogInv'
<1> SUFFICES ASSUME CatalogInv, FetchPlaylist PROVE CatalogInv'
  OBVIOUS
<1>1. step = "getphp" /\ UNCHANGED <<config, file, lineup, serving>> /\ res \in Results
      /\ ranked \in Seq(Origins) /\ entry \in 1 .. Len(Entries) /\ entry \in Nat
  BY DEF FetchPlaylist, CatalogInv, StepInv, CatalogTypeInv
<1>2. Entries[entry] \in Origins /\ Len(Entries) \in Nat
  BY <1>1, Settings DEF CatalogInv, CatalogTypeInv
<1> DEFINE o == Entries[entry]
           live == ListedInPlaylist(o)
<1>3. \/ /\ res' = [NoResult EXCEPT !.live = live, !.owner = o]
         /\ step' = "build" /\ UNCHANGED <<entry, ranked>>
      \/ /\ entry < Len(Entries) /\ entry' = entry + 1 /\ UNCHANGED <<step, res, ranked>>
      \/ GiveUp
  BY DEF FetchPlaylist
<1>4. live \in Seq(Listings) /\ AccountsOf(live) \subseteq {o} /\ o \in Origins
  <2>1. o \in Hosts
    BY <1>2 DEF Hosts
  <2> QED
    BY <1>2, <2>1, PlaylistType, ListedAccounts
<1> HIDE DEF live, o
<1>5. CASE /\ res' = [NoResult EXCEPT !.live = live, !.owner = o]
           /\ step' = "build" /\ UNCHANGED <<entry, ranked>>
  <2>1. res' \in Results /\ res'.live = live /\ res'.owner = o /\ res'.films = NoOrigin
    BY <1>4, <1>5, ResultType DEF Results, NoResult
  <2>2. Within
    BY <1>1, <1>5, <2>1 DEF Within, Steps
  <2>3. StepInv'
    BY <1>5 DEF StepInv
  <2>4. o # NoOrigin
    BY <1>4, CatalogAssumption
  <2> QED
    BY <1>4, <1>5, <2>1, <2>2, <2>3, <2>4, FetchPreserves
<1>6. CASE entry < Len(Entries) /\ entry' = entry + 1 /\ UNCHANGED <<step, res, ranked>>
  <2>1. entry' \in 1 .. Len(Entries) /\ entry' \in Nat
    BY <1>1, <1>2, <1>6
  <2>2. Within
    BY <1>1, <1>6, <2>1 DEF Within, Steps
  <2>3. StepInv'
    <3>1. Entries' = Entries
      BY <2>2, WithinPreserves
    <3> QED
      BY <1>1, <1>6, <2>1, <3>1 DEF StepInv
  <2>4. Lists = <<>> /\ res'.owner # NoOrigin => AccountsOf(res'.live) \subseteq {res'.owner}
    BY <1>6 DEF CatalogInv, AccountInv
  <2> QED
    BY <1>1, <1>6, <2>2, <2>3, <2>4, FetchPreserves
<1>7. CASE GiveUp
  BY <1>1, <1>7, GiveUpPreserves
<1> QED
  BY <1>3, <1>5, <1>6, <1>7

LEMMA BuildPreserves == CatalogInv /\ Build => CatalogInv'
<1> SUFFICES ASSUME CatalogInv, Build PROVE CatalogInv'
  OBVIOUS
<1>1. step = "build" /\ UNCHANGED <<config, entry, ranked, file, lineup, serving>>
      /\ step' \in {"smoke", "save"} /\ res \in Results
  BY DEF Build, CatalogInv, CatalogTypeInv
<1>2. PICK guides \in Answers(res.owner) :
        /\ answered' = guides
        /\ LET live == Repair(Stripped(res.live), guides)
           IN  res' = [res EXCEPT !.live = IF config.epgOnly THEN LinkedOnly(live) ELSE live]
  BY DEF Build, Answer
<1> DEFINE live == Repair(Stripped(res.live), guides)
           built == IF config.epgOnly THEN LinkedOnly(live) ELSE live
<1>3. res.live \in Seq(Listings) /\ guides \in Seq(Origins \cup {External})
  BY <1>1, ResultType, AnswersType
<1>4. /\ built \in Seq(Listings)
      /\ NoneStripped(built, config.strip)
      /\ AccountsOf(built) \subseteq AccountsOf(res.live)
      /\ guides # <<>> => LinkedBy(built, GuideOf[guides[1]])
  <2>1. config \in CatalogConfigs
    BY DEF CatalogInv, CatalogTypeInv
  <2> QED
    BY <1>3, <2>1, BuiltIs
<1>5. res' = [res EXCEPT !.live = built]
  BY <1>2
<1> HIDE DEF built
<1>6. res' \in Results /\ res'.live = built /\ res'.owner = res.owner /\ res'.films = res.films
  BY <1>1, <1>4, <1>5, ResultType
<1>7. Within
  BY <1>1, <1>6 DEF Within, Steps, CatalogInv, CatalogTypeInv
<1>8. CatalogTypeInv' /\ SavedInv' /\ Lists' = Lists /\ StripInv'
  BY <1>4, <1>6, <1>7, WithinPreserves
<1>9. StepInv'
  BY <1>1 DEF StepInv
<1>10. AccountInv'
  <2>1. Lists = <<>> => /\ res.owner # NoOrigin /\ res.films \in {NoOrigin, res.owner}
                        /\ AccountsOf(res.live) \subseteq {res.owner}
    BY <1>1 DEF CatalogInv, AccountInv
  <2> QED
    BY <1>1, <1>4, <1>6, <1>8, <2>1 DEF CatalogInv, AccountInv
<1>11. WinsInv'
  BY <1>2, <1>4, <1>6 DEF WinsInv
<1> QED
  BY <1>8, <1>9, <1>10, <1>11 DEF CatalogInv

LEMMA SmokeTestPreserves == CatalogInv /\ SmokeTest => CatalogInv'
<1> SUFFICES ASSUME CatalogInv, SmokeTest PROVE CatalogInv'
  OBVIOUS
<1>1. step = "smoke" /\ UNCHANGED <<config, entry, ranked, file, answered, lineup, serving>>
      /\ step' = "save" /\ res \in Results
  BY DEF SmokeTest, CatalogInv, CatalogTypeInv
<1>2. \E good : \E passed \in SUBSET Elements(res.live) : \E order \in Orders(passed) :
        res' = [res EXCEPT !.live = Kept(res.live, good) \o order]
  <2> DEFINE good == {c \in Elements(res.live) : KnownGood(c)}
             untested == {c \in Elements(res.live) : ~Known(c)}
  <2>1. \E tested \in SUBSET untested : \E passed \in SUBSET tested :
          \E order \in Orders(passed) : res' = [res EXCEPT !.live = Kept(res.live, good) \o order]
    BY DEF SmokeTest
  <2> HIDE DEF good
  <2>2. untested \subseteq Elements(res.live)
    OBVIOUS
  <2> HIDE DEF untested
  <2> QED
    BY <2>1, <2>2
<1>3. PICK good : \E passed \in SUBSET Elements(res.live) : \E order \in Orders(passed) :
        res' = [res EXCEPT !.live = Kept(res.live, good) \o order]
  BY <1>2
<1>4. PICK passed \in SUBSET Elements(res.live) : \E order \in Orders(passed) :
        res' = [res EXCEPT !.live = Kept(res.live, good) \o order]
  BY <1>3
<1>5. PICK order \in Orders(passed) : res' = [res EXCEPT !.live = Kept(res.live, good) \o order]
  BY <1>4
<1> DEFINE live == Kept(res.live, good) \o order
<1>6. live \in Seq(Listings) /\ Elements(live) \subseteq Elements(res.live) /\ res.live \in Seq(Listings)
  BY <1>1, ResultType, SmokedIs
<1> HIDE DEF live
<1>7. res' \in Results /\ res'.live = live /\ res'.owner = res.owner /\ res'.films = res.films
  BY <1>1, <1>5, <1>6, ResultType DEF live
<1>8. /\ AccountsOf(live) \subseteq AccountsOf(res.live)
      /\ NoneStripped(res.live, config.strip) => NoneStripped(live, config.strip)
      /\ \A guide : LinkedBy(res.live, guide) => LinkedBy(live, guide)
  BY <1>6, FewerElements
<1>9. Within
  BY <1>1, <1>7 DEF Within, Steps, CatalogInv, CatalogTypeInv
<1>10. CatalogTypeInv' /\ SavedInv' /\ Lists' = Lists /\ StripInv'
  <2>1. NoneStripped(res'.live, config.strip)
    BY <1>1, <1>7, <1>8 DEF CatalogInv, StripInv
  <2> QED
    BY <1>9, <2>1, WithinPreserves
<1>11. StepInv'
  BY <1>1 DEF StepInv
<1>12. AccountInv'
  <2>1. Lists = <<>> => /\ res.owner # NoOrigin /\ res.films \in {NoOrigin, res.owner}
                        /\ AccountsOf(res.live) \subseteq {res.owner}
    BY <1>1 DEF CatalogInv, AccountInv
  <2> QED
    BY <1>1, <1>7, <1>8, <1>10, <2>1 DEF CatalogInv, AccountInv
<1>13. WinsInv'
  BY <1>1, <1>7, <1>8 DEF CatalogInv, WinsInv
<1> QED
  BY <1>10, <1>11, <1>12, <1>13 DEF CatalogInv

LEMMA SavePreserves == CatalogInv /\ Save => CatalogInv'
<1> SUFFICES ASSUME CatalogInv, Save PROVE CatalogInv'
  OBVIOUS
<1>1. step = "save" /\ UNCHANGED <<config, answered, lineup, serving>> /\ res \in Results
      /\ NoneStripped(res.live, config.strip)
  BY DEF Save, CatalogInv, CatalogTypeInv, StripInv
<1>2. \/ /\ file' = Saved(res) /\ UNCHANGED <<res, ranked, entry>>
         /\ step' = IF serving THEN "publish" ELSE "check"
      \/ GiveUp /\ UNCHANGED file
  BY DEF Save
<1>3. CASE /\ file' = Saved(res) /\ UNCHANGED <<res, ranked, entry>>
           /\ step' = IF serving THEN "publish" ELSE "check"
  <2>1. file' \in Files /\ file'.live = res.live /\ file'.films = res.films
    BY <1>1, <1>3, ResultType
  <2>2. CatalogTypeInv'
    BY <1>1, <1>3, <2>1 DEF CatalogInv, CatalogTypeInv, Steps
  <2>3. StepInv'
    BY <1>3 DEF StepInv
  <2>4. AccountInv'
    <3>1. Lists' = Lists
      BY <1>1 DEF Lists
    <3>2. Lists = <<>> => /\ res.owner # NoOrigin /\ res.films \in {NoOrigin, res.owner}
                          /\ AccountsOf(res.live) \subseteq {res.owner}
                          /\ res.owner \in Origins \cup {NoOrigin}
      BY <1>1, ResultType DEF CatalogInv, AccountInv
    <3>3. NoOrigin \notin Origins
      BY CatalogAssumption
    <3> QED
      BY <1>3, <2>1, <3>1, <3>2, <3>3 DEF AccountInv
  <2>5. StripInv'
    BY <1>1, <1>3, <2>1 DEF CatalogInv, StripInv
  <2>6. SavedInv'
    <3>1. StreamsOf(res.live, res.live) /\ \A live : StreamsOf(NoChannels, live)
      BY FirstElement DEF StreamsOf, NoChannels
    <3> QED
      BY <1>1, <1>3, <2>1, <3>1 DEF CatalogInv, SavedInv
  <2>7. WinsInv'
    BY <1>1, <1>3 DEF CatalogInv, WinsInv
  <2> QED
    BY <2>2, <2>3, <2>4, <2>5, <2>6, <2>7 DEF CatalogInv
<1>4. CASE GiveUp /\ UNCHANGED file
  BY <1>1, <1>4, GiveUpPreserves
<1> QED
  BY <1>2, <1>3, <1>4

LEMMA CheckProviderPreserves == CatalogInv /\ CheckProvider => CatalogInv'
<1> SUFFICES ASSUME CatalogInv, CheckProvider PROVE CatalogInv'
  OBVIOUS
<1>1. step = "check" /\ UNCHANGED <<config, file, answered, lineup, serving>>
  BY DEF CheckProvider
<1>2. \/ step' = "load" /\ UNCHANGED <<res, ranked, entry>>
      \/ GiveUp
  BY DEF CheckProvider
<1>3. CASE step' = "load" /\ UNCHANGED <<res, ranked, entry>>
  <2>1. Within
    BY <1>1, <1>3 DEF Within, Steps, CatalogInv, CatalogTypeInv
  <2>2. CatalogTypeInv' /\ SavedInv' /\ Lists' = Lists /\ StripInv'
    BY <1>3, <2>1, WithinPreserves
  <2>3. StepInv'
    BY <1>3 DEF StepInv
  <2>4. AccountInv'
    BY <1>1, <1>3, <2>2 DEF CatalogInv, AccountInv
  <2>5. WinsInv'
    BY <1>3 DEF WinsInv
  <2> QED
    BY <2>2, <2>3, <2>4, <2>5 DEF CatalogInv
<1>4. CASE GiveUp
  BY <1>1, <1>4, GiveUpPreserves
<1> QED
  BY <1>2, <1>3, <1>4

LEMMA LoadPreserves == CatalogInv /\ Load => CatalogInv'
<1> SUFFICES ASSUME CatalogInv, Load PROVE CatalogInv'
  OBVIOUS
<1> DEFINE owner == IF res.owner # NoOrigin THEN res.owner
                    ELSE IF Entries # <<>> THEN Entries[1] ELSE NoOrigin
<1>1. step = "load" /\ step' = "publish" /\ UNCHANGED <<config, entry, ranked, file, lineup, serving>>
      /\ res \in Results /\ file \in Files
  BY DEF Load, CatalogInv, CatalogTypeInv
<1>2. owner \in Origins \cup {NoOrigin}
  <2>1. res.owner \in Origins \cup {NoOrigin}
    BY <1>1, ResultType
  <2>2. Entries # <<>> => Entries[1] \in Origins
    <3>1. Entries \in Seq(Origins)
      BY Settings DEF CatalogInv, CatalogTypeInv
    <3> QED
      BY <3>1, EmptySeq, ElementOfSeq
  <2> QED
    BY <2>1, <2>2
<1>3. PICK guides \in Answers(owner) :
        answered' = guides /\ res' = [res EXCEPT !.live = Repair(file.live, guides)]
  BY DEF Load, Answer
<1> HIDE DEF owner
<1> DEFINE live == Repair(file.live, guides)
<1>4. file.live \in Seq(Listings) /\ guides \in Seq(Origins \cup {External})
  BY <1>1, <1>2, AnswersType DEF Files
<1>5. live \in Seq(Listings) /\ SameStreams(live, file.live)
      /\ (guides # <<>> => LinkedBy(live, GuideOf[guides[1]]))
  BY <1>4, RepairIs
<1> HIDE DEF live
<1>6. /\ AccountsOf(live) \subseteq AccountsOf(file.live)
      /\ \A hosts : NoneStripped(file.live, hosts) => NoneStripped(live, hosts)
      /\ StreamsOf(live, file.live)
  BY <1>4, <1>5, SameElements
<1>7. res' \in Results /\ res'.live = live /\ res'.owner = res.owner
  BY <1>1, <1>3, <1>5, ResultType DEF live
<1>8. CatalogTypeInv'
  BY <1>1, <1>7 DEF CatalogInv, CatalogTypeInv, Steps
<1>9. StepInv'
  BY <1>1 DEF StepInv
<1>10. AccountInv'
  <2>1. Lists' = Lists
    BY <1>1 DEF Lists
  <2> QED
    BY <1>1, <1>6, <1>7, <2>1 DEF CatalogInv, AccountInv
<1>11. StripInv'
  BY <1>1, <1>6, <1>7 DEF CatalogInv, StripInv
<1>12. SavedInv'
  BY <1>1, <1>6, <1>7 DEF CatalogInv, SavedInv
<1>13. WinsInv'
  BY <1>3, <1>5, <1>7 DEF WinsInv
<1> QED
  BY <1>8, <1>9, <1>10, <1>11, <1>12, <1>13 DEF CatalogInv

LEMMA PublishPreserves == CatalogInv /\ Publish => CatalogInv'
<1> SUFFICES ASSUME CatalogInv, Publish PROVE CatalogInv'
  OBVIOUS
<1>1. /\ step = "publish" /\ step' = "idle" /\ UNCHANGED <<config, entry, file>>
      /\ lineup' = LineupOf(res.live, config.lineup)
      /\ serving' = TRUE /\ res' = NoResult /\ ranked' = <<>>
      /\ res \in Results
  BY DEF Publish, CatalogInv, CatalogTypeInv
<1>2. res.live \in Seq(Listings) /\ config.lineup \in LineupSettings
  BY <1>1, ResultType, Settings DEF CatalogInv, CatalogTypeInv
<1>3. lineup' \in Seq(Listings) /\ Elements(lineup') \subseteq Elements(res.live)
  BY <1>1, <1>2, LineupElements
<1>4. /\ \A hosts : NoneStripped(res.live, hosts) => NoneStripped(lineup', hosts)
      /\ \A live : StreamsOf(res.live, live) => StreamsOf(lineup', live)
  BY <1>2, <1>3, FewerElements
<1>5. CatalogTypeInv'
  BY <1>1, <1>3, ResultType, EmptyList DEF CatalogInv, CatalogTypeInv, Steps
<1>6. StepInv'
  BY <1>1 DEF StepInv
<1>7. AccountInv'
  <2>1. Lists' = Lists
    BY <1>1 DEF Lists
  <2> QED
    BY <1>1, <2>1, ResultType DEF CatalogInv, AccountInv
<1>8. StripInv'
  BY <1>1, <1>4 DEF CatalogInv, StripInv
<1>9. SavedInv'
  BY <1>1, <1>4 DEF CatalogInv, SavedInv
<1>10. WinsInv'
  BY <1>1 DEF WinsInv
<1> QED
  BY <1>5, <1>6, <1>7, <1>8, <1>9, <1>10 DEF CatalogInv

(* Starting, or fetching again, begins with nothing at hand.                 *)
LEMMA BeginPreserves ==
  ASSUME CatalogInv, step \in {"down", "idle"}, BeginFetch,
         UNCHANGED <<config, file, lineup, serving>>
  PROVE  CatalogInv'
<1>1. step' = (IF Lists # <<>> THEN "lists" ELSE "probe") /\ res' = NoResult /\ entry' = 1
      /\ ranked' = <<>>
  BY DEF BeginFetch
<1>2. Within
  BY <1>1, ResultType, EmptyList DEF Within, Steps
<1>3. StepInv'
  <2>1. Lists' = Lists
    BY <1>2, WithinPreserves
  <2> QED
    BY <1>1, <2>1 DEF StepInv
<1>4. step' \in {"lists", "probe"} /\ res'.owner = NoOrigin
  BY <1>1, ResultType
<1> QED
  BY <1>2, <1>3, <1>4, FetchPreserves

LEMMA StartPreserves == CatalogInv /\ Start => CatalogInv'
<1> SUFFICES ASSUME CatalogInv, Start PROVE CatalogInv'
  OBVIOUS
<1>1. step = "down" /\ UNCHANGED <<config, file, answered, lineup, serving>> /\ res = NoResult
      /\ (BeginFetch \/ (step' = "check" /\ UNCHANGED <<res, entry, ranked>>))
  <2>1. step = "down" /\ UNCHANGED <<config, file, answered, lineup, serving>>
        /\ (BeginFetch \/ (step' = "check" /\ UNCHANGED <<res, entry, ranked>>))
    BY DEF Start
  <2> QED
    BY <2>1 DEF CatalogInv, StepInv
<1>2. CASE BeginFetch
  BY <1>1, <1>2, BeginPreserves
<1>3. CASE step' = "check" /\ UNCHANGED <<res, entry, ranked>>
  <2>1. Within
    BY <1>1, <1>3 DEF Within, Steps, CatalogInv, CatalogTypeInv
  <2>2. CatalogTypeInv' /\ SavedInv' /\ Lists' = Lists /\ StripInv'
    BY <1>3, <2>1, WithinPreserves
  <2>3. StepInv'
    BY <1>3 DEF StepInv
  <2>4. AccountInv'
    BY <1>1, <1>3, <2>2, ResultType DEF CatalogInv, AccountInv
  <2>5. WinsInv'
    <3>1. \A guide : LinkedBy(NoChannels, guide)
      BY FirstElement DEF LinkedBy, NoChannels
    <3> QED
      BY <1>1, <1>3, <3>1, ResultType DEF WinsInv
  <2> QED
    BY <2>2, <2>3, <2>4, <2>5 DEF CatalogInv
<1> QED
  BY <1>1, <1>2, <1>3

LEMMA CrashPreserves == CatalogInv /\ Crash => CatalogInv'
<1> SUFFICES ASSUME CatalogInv, Crash PROVE CatalogInv'
  OBVIOUS
<1>1. /\ step' = "down" /\ res' = NoResult /\ ranked' = <<>> /\ entry' = 1
      /\ serving' = FALSE /\ lineup' = NoChannels
      /\ UNCHANGED <<config, file>>
  BY DEF Crash, CatalogKilled
<1>2. CatalogTypeInv'
  BY <1>1, ResultType, EmptyList DEF CatalogInv, CatalogTypeInv, Steps
<1>3. StepInv'
  BY <1>1 DEF StepInv
<1>4. AccountInv'
  <2>1. Lists' = Lists
    BY <1>1 DEF Lists
  <2> QED
    BY <1>1, <2>1, ResultType DEF CatalogInv, AccountInv
<1>5. (\A hosts : NoneStripped(NoChannels, hosts)) /\ \A live : StreamsOf(NoChannels, live)
  BY FirstElement DEF NoneStripped, StreamsOf, NoChannels
<1>6. StripInv'
  BY <1>1, <1>5 DEF CatalogInv, StripInv
<1>7. SavedInv'
  BY <1>1, <1>5 DEF SavedInv
<1>8. WinsInv'
  BY <1>1 DEF WinsInv
<1> QED
  BY <1>2, <1>3, <1>4, <1>6, <1>7, <1>8 DEF CatalogInv

(* No step of the run breaks the invariant: each is one of the lemmas above. *)
LEMMA CatalogStep == CatalogInv /\ [CatalogNext \/ Crash]_catalogVars => CatalogInv'
<1> SUFFICES ASSUME CatalogInv, [CatalogNext \/ Crash]_catalogVars PROVE CatalogInv'
  OBVIOUS
<1>1. CASE Start
  BY <1>1, StartPreserves
<1>2. CASE Fetch
  BY <1>2, FetchListsPreserves, EnrichListsPreserves, ProbeProvidersPreserves, IndexBestPreserves,
     IndexDirectPreserves, FetchPlaylistPreserves, BuildPreserves, SmokeTestPreserves DEF Fetch
<1>3. CASE Save \/ CheckProvider \/ Load \/ Publish
  BY <1>3, SavePreserves, CheckProviderPreserves, LoadPreserves, PublishPreserves
<1>4. CASE Tick
  <2>1. step = "idle" /\ BeginFetch /\ UNCHANGED <<config, file, lineup, serving>>
    BY <1>4 DEF Tick
  <2> QED
    BY <2>1, BeginPreserves
<1>5. ASSUME UNCHANGED <<config, step, entry, ranked, res, file, answered, serving, lineup>>
      PROVE  CatalogInv'
  <2>1. Lists' = Lists /\ Entries' = Entries
    BY <1>5 DEF Lists, Entries
  <2>2. CatalogTypeInv'
    BY <1>5 DEF CatalogInv, CatalogTypeInv
  <2>3. StepInv'
    BY <1>5, <2>1 DEF CatalogInv, StepInv
  <2>4. AccountInv'
    BY <1>5, <2>1 DEF CatalogInv, AccountInv
  <2>5. StripInv' /\ SavedInv' /\ WinsInv'
    BY <1>5 DEF CatalogInv, StripInv, SavedInv, WinsInv
  <2> QED
    BY <2>2, <2>3, <2>4, <2>5 DEF CatalogInv
<1>6. CASE \E c \in Channels : Expire(c)
  BY <1>5, <1>6 DEF Expire
<1>7. CASE Crash
  BY <1>7, CrashPreserves
<1>8. CASE UNCHANGED catalogVars
  BY <1>5, <1>8 DEF catalogVars
<1> QED
  BY <1>1, <1>2, <1>3, <1>4, <1>6, <1>7, <1>8 DEF CatalogNext, Run

LEMMA CatalogInitially == CatalogInit => CatalogInv
<1> SUFFICES ASSUME CatalogInit PROVE CatalogInv
  OBVIOUS
<1>1. /\ config \in CatalogConfigs /\ step = "down" /\ entry = 1 /\ ranked = <<>>
      /\ res = NoResult /\ file = NoFile /\ serving = FALSE /\ lineup = NoChannels
  BY DEF CatalogInit
<1>2. NoFile \in Files /\ NoFile.live = NoChannels
  BY EmptyList DEF NoFile, Files
<1>3. CatalogTypeInv
  BY <1>1, <1>2, ResultType, EmptyList DEF CatalogTypeInv, Steps
<1>4. StepInv
  BY <1>1 DEF StepInv
<1>5. AccountInv
  BY <1>1, <1>2, ResultType, NoAccounts DEF AccountInv
<1>6. (\A hosts : NoneStripped(NoChannels, hosts)) /\ \A live : StreamsOf(NoChannels, live)
  BY FirstElement DEF NoneStripped, StreamsOf, NoChannels
<1>7. StripInv
  BY <1>1, <1>2, <1>6 DEF StripInv
<1>8. SavedInv
  BY <1>1, <1>6 DEF SavedInv
<1>9. WinsInv
  BY <1>1 DEF WinsInv
<1> QED
  BY <1>3, <1>4, <1>5, <1>7, <1>8, <1>9 DEF CatalogInv

LEMMA CatalogInvariant == CatalogSpec => []CatalogInv
BY CatalogInitially, CatalogStep, PTL DEF CatalogSpec

-----------------------------------------------------------------------------
(* What follows from it.                                                     *)

(* Every catalog fetched from providers, in memory and on disk, is of one    *)
(* account, and what is known of that account is true of it: after any       *)
(* number of failed indexes and playlists, restarts and refreshes.           *)
THEOREM CatalogOneAccount == CatalogSpec => []OneAccount
<1>1. CatalogInv => OneAccount
  <2> SUFFICES ASSUME CatalogInv, Lists = <<>>
               PROVE  /\ Cardinality(AccountsOf(file.live)) <= 1
                      /\ file.films \in Origins => AccountsOf(file.live) \subseteq {file.films}
                      /\ res.owner # NoOrigin => AccountsOf(res.live) \subseteq {res.owner}
    BY DEF OneAccount
  <2>1. PICK o \in Origins \cup {NoOrigin} : AccountsOf(file.live) \subseteq {o}
    BY DEF CatalogInv, AccountInv
  <2>2. IsFiniteSet({o}) /\ Cardinality({o}) = 1
    BY FS_Singleton
  <2>3. Cardinality(AccountsOf(file.live)) <= 1
    BY <2>1, <2>2, FS_Subset
  <2> QED
    BY <2>3 DEF CatalogInv, AccountInv
<1> QED
  BY <1>1, CatalogInvariant, PTL

(* No URL on a stripped host and no channel without a URL is ever saved or   *)
(* served, whatever is listed and however it was fetched.                    *)
THEOREM CatalogNoStrippedHost == CatalogSpec => []NoStrippedHost
<1>1. CatalogInv => NoStrippedHost
  BY DEF CatalogInv, StripInv, NoneStripped, NoStrippedHost
<1> QED
  BY <1>1, CatalogInvariant, PTL

(* What is served is saved, except between the save and the update after it: *)
(* no failed fetch or save and no crash leaves the tuner serving a stream    *)
(* that the file does not have.                                              *)
THEOREM CatalogSavedIsServed == CatalogSpec => []SavedIsServed
<1>1. CatalogInv => SavedIsServed
  <2> SUFFICES ASSUME CatalogInv, step # "publish", NEW c \in Elements(lineup)
               PROVE  \E f \in Elements(file.live) : f.ch = c.ch /\ f.id = c.id /\ f.urls = c.urls
    BY DEF SavedIsServed
  <2>1. StreamsOf(lineup, file.live)
    BY DEF CatalogInv, SavedInv
  <2> QED
    BY <2>1 DEF StreamsOf
<1> QED
  BY <1>1, CatalogInvariant, PTL

(* No later guide takes a channel from the guide of its provider, for any    *)
(* guides, whatever channels share an id.                                    *)
THEOREM CatalogProviderGuideWins == CatalogSpec => []ProviderGuideWins
<1>1. CatalogInv => ProviderGuideWins
  BY DEF CatalogInv, WinsInv, LinkedBy, ProviderGuideWins
<1> QED
  BY <1>1, CatalogInvariant, PTL

(* For every catalog and every lineup setting: what the lineup leaves out of *)
(* its shard is filtered, has a variant no worse in the lineup, or meets a   *)
(* full lineup; and shards of any size are together the catalog.             *)
THEOREM CatalogLineupIsBest == CatalogSpec => []LineupIsBest
<1>1. CatalogInv => LineupIsBest
  <2> SUFFICES ASSUME CatalogInv
               PROVE  NothingLostBut(res.live, config.lineup) /\ ShardsPartition(res.live)
    BY DEF LineupIsBest
  <2>1. res.live \in Seq(Listings) /\ config.lineup \in LineupSettings
    BY ResultType, Settings DEF CatalogInv, CatalogTypeInv
  <2> QED
    BY <2>1, NothingLost, ShardsAreAll
<1> QED
  BY <1>1, CatalogInvariant, PTL
=============================================================================
