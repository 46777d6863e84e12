---------------------------- MODULE RankingProofs ----------------------------
(***************************************************************************)
(* What one insertion into a ranking does, for rankings of any length over *)
(* any set V of scores: lemmas for the proofs about ScoreManager.          *)
(***************************************************************************)
EXTENDS Ranking, TLAPS, SequenceTheorems, FiniteSetTheorems, WellFoundedInduction,
        NaturalsInduction

(* A set of naturals that is not empty has a least element. *)
LEMMA LeastNatural ==
    ASSUME NEW T \in SUBSET Nat, T # {}
    PROVE  \E n \in T : \A m \in T : n <= m
<1>1. IsWellFoundedOn(OpToRel(<, Nat), Nat)
  BY NatLessThanWellFounded
<1>2. PICK n \in T : \A m \in T : ~(<<m, n>> \in OpToRel(<, Nat))
  BY <1>1, WFMin
<1>3. \A m \in T : ~(m < n)
  BY <1>2 DEF OpToRel
<1> QED BY <1>3

(* UpperBound is well defined: the first position s may stand at, which is
   past the end when s may stand in front of no element. *)
LEMMA UpperBoundIsFirst ==
    ASSUME NEW V, NEW r \in Seq(V), NEW s \in V
    PROVE  /\ UpperBound(r, s) \in 1 .. Len(r) + 1
           /\ UpperBound(r, s) <= Len(r) => CompareScore(s, r[UpperBound(r, s)])
           /\ \A q \in 1 .. UpperBound(r, s) - 1 : ~CompareScore(s, r[q])
<1> DEFINE T == {p \in 1 .. Len(r) + 1 : p <= Len(r) => CompareScore(s, r[p])}
<1>1. Len(r) \in Nat
  BY LenProperties
<1>2. T \in SUBSET Nat /\ Len(r) + 1 \in T
  BY <1>1
<1>3. PICK n \in T : \A m \in T : n <= m
  BY <1>2, LeastNatural
<1>4. \A q \in 1 .. n - 1 : ~CompareScore(s, r[q])
  <2> SUFFICES ASSUME NEW q \in 1 .. n - 1 PROVE ~CompareScore(s, r[q])
    OBVIOUS
  <2>1. q < n /\ q \in 1 .. Len(r) + 1
    BY <1>1
  <2>2. q \notin T
    BY <2>1, <1>3
  <2> QED BY <2>1, <2>2
<1>5. \E p \in 1 .. Len(r) + 1 :
        /\ p <= Len(r) => CompareScore(s, r[p])
        /\ \A q \in 1 .. p - 1 : ~CompareScore(s, r[q])
  BY <1>3, <1>4
<1> QED BY <1>5 DEF UpperBound

(* Element i of r with s put in at p. *)
Shifted(r, p, s, i) == IF i < p THEN r[i] ELSE IF i = p THEN s ELSE r[i - 1]

(* insert(pos, s) shifts the elements from pos on by one place. *)
LEMMA InsertAtElements ==
    ASSUME NEW V, NEW r \in Seq(V), NEW s \in V, NEW p \in 1 .. Len(r) + 1
    PROVE  /\ InsertAt(r, p, s) \in Seq(V)
           /\ Len(InsertAt(r, p, s)) = Len(r) + 1
           /\ \A i \in 1 .. Len(r) + 1 :
                InsertAt(r, p, s)[i] = Shifted(r, p, s, i)
<1>1. Len(r) \in Nat
  BY LenProperties
<1> DEFINE front == SubSeq(r, 1, p - 1)
           back  == SubSeq(r, p, Len(r))
<1>2. /\ front \in Seq(V) /\ Len(front) = p - 1
      /\ \A i \in 1 .. p - 1 : front[i] = r[i]
  BY <1>1, SubSeqProperties
<1>3. /\ back \in Seq(V) /\ Len(back) = Len(r) - p + 1
      /\ \A i \in 1 .. Len(r) - p + 1 : back[i] = r[p + i - 1]
  BY <1>1, SubSeqProperties
<1>4. <<s>> \in Seq(V) /\ Len(<<s>>) = 1 /\ <<s>>[1] = s
  OBVIOUS
<1> DEFINE head == front \o <<s>>
<1>5. /\ head \in Seq(V) /\ Len(head) = p
      /\ \A i \in 1 .. p : head[i] = IF i <= p - 1 THEN r[i] ELSE s
  BY <1>2, <1>4, ConcatProperties
<1> HIDE DEF front, back, head
<1>6. /\ head \o back \in Seq(V) /\ Len(head \o back) = Len(r) + 1
      /\ \A i \in 1 .. Len(r) + 1 :
            (head \o back)[i] = IF i <= p THEN head[i] ELSE back[i - p]
  BY <1>1, <1>3, <1>5, ConcatProperties
<1>7. InsertAt(r, p, s) = head \o back
  BY DEF InsertAt, head, front, back
<1>8. \A i \in 1 .. Len(r) + 1 :
        (head \o back)[i] = IF i < p THEN r[i] ELSE IF i = p THEN s ELSE r[i - 1]
  <2> SUFFICES ASSUME NEW i \in 1 .. Len(r) + 1
               PROVE  (head \o back)[i] =
                        IF i < p THEN r[i] ELSE IF i = p THEN s ELSE r[i - 1]
    OBVIOUS
  <2>1. CASE i <= p
    BY <2>1, <1>1, <1>5, <1>6
  <2>2. CASE i > p
    <3>1. i - p \in 1 .. Len(r) - p + 1
      BY <2>2, <1>1
    <3>2. back[i - p] = r[i - 1]
      BY <3>1, <1>1, <1>3, <2>2
    <3> QED BY <3>2, <2>2, <1>1, <1>6
  <2>3. i <= p \/ i > p
    BY <1>1
  <2> QED BY <2>1, <2>2, <2>3, Zenon
<1> QED BY <1>6, <1>7, <1>8 DEF Shifted

(* What new_score stores: for a ranking that is not oversized, the new one is
   the old one with s in front of its equals, without the last element when
   the board was full. *)
LEMMA InsertedElements ==
    ASSUME NEW V, NEW r \in Seq(V), NEW s \in V, NEW k \in Nat, Len(r) <= k
    PROVE  /\ UpperBound(r, s) \in 1 .. Len(r) + 1
           /\ Inserted(r, s, k) \in Seq(V)
           /\ Len(Inserted(r, s, k)) = IF Len(r) = k THEN k ELSE Len(r) + 1
           /\ \A i \in 1 .. Len(Inserted(r, s, k)) :
                Inserted(r, s, k)[i] = Shifted(r, UpperBound(r, s), s, i)
<1> DEFINE p == UpperBound(r, s)
           longer == InsertAt(r, p, s)
<1>1. Len(r) \in Nat /\ p \in 1 .. Len(r) + 1
  BY LenProperties, UpperBoundIsFirst
<1>0. p \in 1 .. Len(r) + 1
  BY <1>1
<1>2. /\ longer \in Seq(V) /\ Len(longer) = Len(r) + 1
      /\ \A i \in 1 .. Len(r) + 1 :
            longer[i] = Shifted(r, p, s, i)
  BY <1>0, InsertAtElements, Zenon
<1>3. Inserted(r, s, k) = IF Len(r) = k THEN Front(longer) ELSE longer
  BY DEF Inserted, IsFull
<1> HIDE DEF longer, p
<1>4. CASE Len(r) = k
  <2>1. /\ Front(longer) \in Seq(V) /\ Len(Front(longer)) = Len(r)
        /\ \A i \in 1 .. Len(r) : Front(longer)[i] = longer[i]
    BY <1>1, <1>2, SubSeqProperties DEF Front
  <2> QED BY <1>1, <1>2, <1>3, <1>4, <2>1 DEF p
<1>5. CASE Len(r) # k
  BY <1>1, <1>2, <1>3, <1>5 DEF p
<1> QED BY <1>4, <1>5

(* The board stays ordered: best score first. *)
LEMMA InsertedIsRanking ==
    ASSUME NEW V, \A v \in V : v.score \in Int,
           NEW r \in Seq(V), NEW s \in V, NEW k \in Nat, Len(r) <= k,
           IsRanking(r)
    PROVE  IsRanking(Inserted(r, s, k))
<1> DEFINE p == UpperBound(r, s)
           new == Inserted(r, s, k)
<1>1. Len(r) \in Nat /\ \A i \in 1 .. Len(r) : r[i] \in V
  BY LenProperties, ElementOfSeq
<1>2. /\ p \in 1 .. Len(r) + 1
      /\ p <= Len(r) => s.score >= r[p].score
      /\ \A q \in 1 .. p - 1 : ~(s.score >= r[q].score)
  BY UpperBoundIsFirst DEF CompareScore
<1>0. /\ Len(new) = IF Len(r) = k THEN k ELSE Len(r) + 1
      /\ \A i \in 1 .. Len(new) : new[i] = Shifted(r, p, s, i)
  BY InsertedElements
<1> HIDE DEF p, new
<1>3. /\ Len(new) \in Nat /\ Len(new) <= Len(r) + 1
      /\ \A i \in 1 .. Len(new) :
            new[i] = IF i < p THEN r[i] ELSE IF i = p THEN s ELSE r[i - 1]
  <2>1. Len(new) \in Nat /\ Len(new) <= Len(r) + 1
    BY <1>0, <1>1
  <2> QED BY <2>1, <1>0 DEF Shifted
<1>4. ASSUME NEW i \in 1 .. Len(new), NEW j \in 1 .. Len(new), i < j
      PROVE  new[i].score >= new[j].score
  <2>1. CASE j < p
    BY <2>1, <1>1, <1>2, <1>3, <1>4 DEF IsRanking
  <2>2. CASE j = p
    <3>1. r[i].score \in Int /\ s.score \in Int
      BY <2>2, <1>1, <1>2, <1>4
    <3> QED BY <3>1, <2>2, <1>1, <1>2, <1>3, <1>4
  <2>3. CASE i < p /\ j > p
    <3>1. i \in 1 .. Len(r) /\ j - 1 \in 1 .. Len(r) /\ i < j - 1
      BY <2>3, <1>1, <1>2, <1>3
    <3>2. /\ ~(j < p) /\ j # p
      BY <2>3, <1>2, <1>3
    <3>4. new[i] = r[i] /\ new[j] = r[j - 1]
      BY <3>2, <2>3, <1>3
    <3>3. r[i].score >= r[j - 1].score
      BY <3>1 DEF IsRanking
    <3> QED BY <3>3, <3>4
  <2>4. CASE i = p
    <3>1. p \in 1 .. Len(r) /\ j - 1 \in 1 .. Len(r) /\ p <= j - 1
      BY <2>4, <1>1, <1>2, <1>3, <1>4
    <3>2. r[p].score \in Int /\ r[j - 1].score \in Int /\ s.score \in Int
      BY <3>1, <1>1
    <3>3. r[p].score >= r[j - 1].score
      BY <3>1, <3>2 DEF IsRanking
    <3>4. new[i] = s /\ new[j] = r[j - 1]
      BY <2>4, <1>2, <1>3, <1>4
    <3> QED BY <3>1, <3>2, <3>3, <3>4, <1>2
  <2>5. CASE i > p
    <3>1. i - 1 \in 1 .. Len(r) /\ j - 1 \in 1 .. Len(r) /\ i - 1 < j - 1
      BY <2>5, <1>1, <1>2, <1>3, <1>4
    <3>2. new[i] = r[i - 1] /\ new[j] = r[j - 1]
      BY <2>5, <1>2, <1>3, <1>4
    <3>3. r[i - 1].score >= r[j - 1].score
      BY <3>1 DEF IsRanking
    <3> QED BY <3>2, <3>3
  <2> QED BY <2>1, <2>2, <2>3, <2>4, <2>5, <1>2, <1>4
<1> QED BY <1>4 DEF IsRanking, new

(* The insertion drops nothing, except from a full board its last entry, when
   all that stay are at least as good. *)
LEMMA InsertedLosesNothing ==
    ASSUME NEW V, \A v \in V : v.score \in Int,
           NEW r \in Seq(V), NEW s \in V, NEW k \in Nat, Len(r) <= k,
           IsRanking(r), Enters(r, s, k)
    PROVE  NothingLost(Inserted(r, s, k), r, Len(r))
<1> DEFINE p == UpperBound(r, s)
           new == Inserted(r, s, k)
<1>1. Len(r) \in Nat /\ \A i \in 1 .. Len(r) : r[i] \in V
  BY LenProperties, ElementOfSeq
<1>2. p \in 1 .. Len(r) + 1 /\ (p <= Len(r) => s.score >= r[p].score)
  BY UpperBoundIsFirst DEF CompareScore
<1>0. /\ Len(new) = IF Len(r) = k THEN k ELSE Len(r) + 1
      /\ \A i \in 1 .. Len(new) : new[i] = Shifted(r, p, s, i)
  BY InsertedElements
<1>3. /\ Len(new) = IF Len(r) = k THEN k ELSE Len(r) + 1
      /\ \A i \in 1 .. Len(new) :
            new[i] = IF i < p THEN r[i] ELSE IF i = p THEN s ELSE r[i - 1]
  BY <1>0 DEF Shifted
<1>4. Len(r) = k => p <= Len(r)
  BY DEF Enters, IsFull
<1> HIDE DEF p, new
<1>5. ASSUME NEW i \in 1 .. Len(r)
      PROVE  \/ \E q \in 1 .. Len(new) : new[q] = r[i]
             \/ /\ Len(new) = Len(r)
                /\ \A q \in 1 .. Len(new) : new[q].score >= r[i].score
  <2>1. CASE i < p
    <3>1. i \in 1 .. Len(new) /\ new[i] = r[i]
      BY <2>1, <1>1, <1>2, <1>3
    <3> QED BY <3>1
  <2>2. CASE i >= p /\ i + 1 <= Len(new)
    <3>1. i + 1 \in 1 .. Len(new) /\ new[i + 1] = r[i]
      BY <2>2, <1>1, <1>2, <1>3
    <3> QED BY <3>1
  <2>3. CASE i >= p /\ i + 1 > Len(new)
    <3>1. Len(new) = Len(r) /\ i = Len(r) /\ p <= Len(r)
      BY <2>3, <1>1, <1>2, <1>3, <1>4
    <3>2. ASSUME NEW q \in 1 .. Len(new)
          PROVE  new[q].score >= r[i].score
      <4>0. r[i].score \in Int /\ s.score \in Int /\ r[p].score \in Int
        BY <3>1, <1>1, <1>2
      <4>1. CASE q < p
        BY <4>0, <4>1, <3>1, <1>1, <1>2, <1>3 DEF IsRanking
      <4>2. CASE q = p
        <5>1. r[p].score >= r[i].score
          BY <4>0, <3>1, <1>1, <1>2 DEF IsRanking
        <5> QED BY <5>1, <4>0, <4>2, <3>1, <1>2, <1>3
      <4>3. CASE q > p
        <5>1. q - 1 \in 1 .. Len(r) /\ q - 1 < i /\ new[q] = r[q - 1]
          BY <4>3, <3>1, <1>1, <1>2, <1>3
        <5> QED BY <5>1, <3>1 DEF IsRanking
      <4>4. q \in Nat /\ p \in Nat
        BY <1>1, <1>2
      <4>5. q < p \/ q = p \/ q > p
        BY <4>4
      <4> QED BY <4>1, <4>2, <4>3, <4>5
    <3> QED BY <3>1, <3>2
  <2> QED BY <2>1, <2>2, <2>3, <1>1, <1>2, <1>3
<1> QED BY <1>5 DEF NothingLost, new

(* The score that was inserted is on the board. *)
LEMMA InsertedHasNewScore ==
    ASSUME NEW V, NEW r \in Seq(V), NEW s \in V, NEW k \in Nat, Len(r) <= k,
           Enters(r, s, k)
    PROVE  \E q \in 1 .. Len(Inserted(r, s, k)) : Inserted(r, s, k)[q] = s
<1> DEFINE p == UpperBound(r, s)
           new == Inserted(r, s, k)
<1>1. Len(r) \in Nat /\ p \in 1 .. Len(r) + 1
  BY LenProperties, UpperBoundIsFirst
<1>0. /\ Len(new) = IF Len(r) = k THEN k ELSE Len(r) + 1
      /\ \A i \in 1 .. Len(new) : new[i] = Shifted(r, p, s, i)
  BY InsertedElements
<1>2. /\ Len(new) = IF Len(r) = k THEN k ELSE Len(r) + 1
      /\ \A i \in 1 .. Len(new) :
            new[i] = IF i < p THEN r[i] ELSE IF i = p THEN s ELSE r[i - 1]
  BY <1>0 DEF Shifted
<1>3. Len(r) = k => p <= Len(r)
  BY DEF Enters, IsFull
<1> HIDE DEF p, new
<1>4. p \in 1 .. Len(new) /\ new[p] = s
  BY <1>1, <1>2, <1>3
<1> QED BY <1>4 DEF new

(* The new board holds the new score and scores of the old board. *)
LEMMA InsertedMembers ==
    ASSUME NEW V, NEW r \in Seq(V), NEW s \in V, NEW k \in Nat, Len(r) <= k,
           NEW i \in 1 .. Len(Inserted(r, s, k))
    PROVE  Inserted(r, s, k)[i] = s \/ \E q \in 1 .. Len(r) : Inserted(r, s, k)[i] = r[q]
<1> DEFINE p == UpperBound(r, s)
           new == Inserted(r, s, k)
<1>0. Len(r) \in Nat
  BY LenProperties
<1>1. /\ p \in 1 .. Len(r) + 1
      /\ Len(new) = IF Len(r) = k THEN k ELSE Len(r) + 1
      /\ \A j \in 1 .. Len(new) :
            new[j] = Shifted(r, p, s, j)
  BY InsertedElements
<1> HIDE DEF p, new
<1>2. i \in 1 .. Len(new)
  BY DEF new
<1>3. CASE i < p
  BY <1>0, <1>1, <1>2, <1>3 DEF new, Shifted
<1>4. CASE i = p
  BY <1>1, <1>2, <1>4 DEF new, Shifted
<1>5. CASE i > p
  <2>1. i - 1 \in 1 .. Len(r) /\ new[i] = r[i - 1]
    BY <1>0, <1>1, <1>2, <1>5 DEF Shifted
  <2> QED BY <2>1 DEF new
<1> QED BY <1>0, <1>1, <1>2, <1>3, <1>4, <1>5

------------------------------------------------------------------------------
(* The reference definition: the places of a history of scores. *)

Before(h, i) == {j \in 1 .. Len(h) : Precedes(h, j, i)}

LEMMA BeforeIsFinite ==
    ASSUME NEW V, NEW h \in Seq(V), NEW i
    PROVE  /\ IsFiniteSet(Before(h, i)) /\ Cardinality(Before(h, i)) \in Nat
           /\ Place(h, i) = 1 + Cardinality(Before(h, i))
<1>1. IsFiniteSet(1 .. Len(h))
  BY LenProperties, FS_Interval
<1>2. Before(h, i) \in SUBSET (1 .. Len(h))
  BY DEF Before
<1>3. IsFiniteSet(Before(h, i))
  BY <1>1, <1>2, FS_Subset
<1> QED BY <1>3, FS_CardinalityType DEF Place, Before

(* Places order the scores as Precedes does. *)
LEMMA PlacesFollowOrder ==
    ASSUME NEW V, \A v \in V : v.score \in Int, NEW h \in Seq(V),
           NEW i \in 1 .. Len(h), NEW j \in 1 .. Len(h), Precedes(h, i, j)
    PROVE  Place(h, i) < Place(h, j)
<1>1. \A q \in 1 .. Len(h) : h[q].score \in Int
  BY ElementOfSeq
<1>2. i \in Before(h, j) /\ i \notin Before(h, i)
  BY <1>1 DEF Before, Precedes
<1>3. Before(h, i) \in SUBSET Before(h, j)
  <2> SUFFICES ASSUME NEW q \in 1 .. Len(h), Precedes(h, q, i) PROVE Precedes(h, q, j)
    BY DEF Before
  <2> QED BY <1>1 DEF Precedes
<1>4. Cardinality(Before(h, i)) <= Cardinality(Before(h, j))
      /\ Cardinality(Before(h, i)) # Cardinality(Before(h, j))
  BY <1>2, <1>3, BeforeIsFinite, FS_Subset
<1> QED BY <1>4, BeforeIsFinite

(* Every place is taken by exactly one score. *)
LEMMA PlacesAreTaken ==
    ASSUME NEW V, \A v \in V : v.score \in Int, NEW h \in Seq(V)
    PROVE  /\ \A i \in 1 .. Len(h) : Place(h, i) \in 1 .. Len(h)
           /\ \A i, j \in 1 .. Len(h) : Place(h, i) = Place(h, j) => i = j
           /\ \A i, j \in 1 .. Len(h) : Precedes(h, i, j) <=> Place(h, i) < Place(h, j)
           /\ \A p \in 1 .. Len(h) : \E i \in 1 .. Len(h) : Place(h, i) = p
<1> DEFINE n == Len(h)
           I == 1 .. n
           place == [i \in I |-> Place(h, i)]
<1>0. n \in Nat /\ IsFiniteSet(I) /\ Cardinality(I) = n
  <2>1. n \in Nat
    BY LenProperties
  <2>2. IsFiniteSet(1 .. n) /\ Cardinality(1 .. n) = IF 1 > n THEN 0 ELSE n - 1 + 1
    BY <2>1, FS_Interval
  <2> HIDE DEF n
  <2>3. (IF 1 > n THEN 0 ELSE n - 1 + 1) = n
    BY <2>1
  <2> QED BY <2>1, <2>2, <2>3
<1>1. ASSUME NEW i \in I
      PROVE  Place(h, i) \in I
  <2>1. Before(h, i) \in SUBSET (I \ {i})
    <3>1. h[i].score \in Int
      BY ElementOfSeq
    <3> QED BY <3>1 DEF Before, Precedes
  <2>2. IsFiniteSet(I \ {i}) /\ Cardinality(I \ {i}) = n - 1
    BY <1>0, FS_RemoveElement
  <2>3. Cardinality(Before(h, i)) <= n - 1
    BY <2>1, <2>2, FS_Subset
  <2> QED BY <1>0, <2>3, BeforeIsFinite
<1>2. ASSUME NEW i \in I, NEW j \in I, i # j
      PROVE  Precedes(h, i, j) \/ Precedes(h, j, i)
  <2>1. h[i].score \in Int /\ h[j].score \in Int
    BY ElementOfSeq
  <2> QED BY <1>2, <2>1 DEF Precedes
<1>3. \A i \in I : Place(h, i) \in Int
  BY <1>1
<1>4. \A i, j \in I : Place(h, i) = Place(h, j) => i = j
  BY <1>2, <1>3, PlacesFollowOrder
<1>5. \A i, j \in I : Precedes(h, i, j) <=> Place(h, i) < Place(h, j)
  BY <1>2, <1>3, PlacesFollowOrder
<1>6. place \in [I -> I] /\ \A i \in I : place[i] = Place(h, i)
  BY <1>1
<1>7. place \in Injection(I, I)
  BY <1>4, <1>6 DEF Injection, IsInjective
<1>8. place \in Surjection(I, I)
  BY <1>0, <1>7, FS_Injection
<1>9. \A p \in I : \E i \in I : Place(h, i) = p
  BY <1>6, <1>8 DEF Surjection
<1> QED BY <1>1, <1>4, <1>5, <1>9

(* What TopOf holds at each place. *)
LEMMA TopOfElements ==
    ASSUME NEW V, \A v \in V : v.score \in Int, NEW h \in Seq(V), NEW k \in Nat
    PROVE  /\ TopOf(h, k) \in Seq(V)
           /\ Len(TopOf(h, k)) = IF k < Len(h) THEN k ELSE Len(h)
           /\ \A i \in 1 .. Len(h) :
                Place(h, i) <= Len(TopOf(h, k)) => TopOf(h, k)[Place(h, i)] = h[i]
<1> DEFINE n == Len(h)
           m == IF k < n THEN k ELSE n
           at(p) == CHOOSE i \in 1 .. n : Place(h, i) = p
<1>0. n \in Nat /\ m \in Nat /\ m <= n
  BY LenProperties
<1>1. ASSUME NEW p \in 1 .. m
      PROVE  at(p) \in 1 .. n /\ Place(h, at(p)) = p
  <2>1. p \in 1 .. n
    BY <1>0
  <2>2. \E i \in 1 .. n : Place(h, i) = p
    BY <2>1, PlacesAreTaken
  <2> QED BY <2>2
<1>2. TopOf(h, k) = [p \in 1 .. m |-> h[at(p)]]
  BY DEF TopOf
<1> HIDE DEF at, m
<1>3. ASSUME NEW p \in 1 .. m
      PROVE  h[at(p)] \in V
  BY <1>1, ElementOfSeq
<1>4. TopOf(h, k) \in Seq(V) /\ Len(TopOf(h, k)) = m
  BY <1>0, <1>2, <1>3, IsASeq
<1>5. ASSUME NEW i \in 1 .. n, Place(h, i) <= m
      PROVE  TopOf(h, k)[Place(h, i)] = h[i]
  <2>1. Place(h, i) \in 1 .. m
    BY <1>0, <1>5, PlacesAreTaken
  <2>2. at(Place(h, i)) = i
    BY <1>1, <2>1, PlacesAreTaken
  <2> QED BY <1>2, <2>1, <2>2
<1> QED BY <1>4, <1>5 DEF m

(* The place of a score that comes last, and of the others then. *)
LEMMA PlacesAfterAppend ==
    ASSUME NEW V, \A v \in V : v.score \in Int, NEW h \in Seq(V), NEW s \in V
    PROVE  LET n == Len(h)
               g == Append(h, s)
               P == Place(g, n + 1)
           IN  /\ P \in 1 .. n + 1
               /\ \A i \in 1 .. n :
                    /\ CompareScore(s, h[i]) <=> P <= Place(h, i)
                    /\ Place(h, i) < P => Place(g, i) = Place(h, i)
                    /\ P <= Place(h, i) => Place(g, i) = Place(h, i) + 1
<1> DEFINE n == Len(h)
           g == Append(h, s)
           P == Place(g, n + 1)
           Better == {j \in 1 .. n : h[j].score > s.score}
<1>0. /\ n \in Nat /\ g \in Seq(V) /\ Len(g) = n + 1 /\ g[n + 1] = s
      /\ \A i \in 1 .. n : g[i] = h[i]
      /\ \A i \in 1 .. n : h[i].score \in Int
      /\ s.score \in Int
  BY LenProperties, AppendProperties, ElementOfSeq
<1> HIDE DEF g, n
<1>1. Before(g, n + 1) = Better
  BY <1>0 DEF Before, Precedes
<1>2. IsFiniteSet(Better) /\ Cardinality(Better) \in Nat /\ P = 1 + Cardinality(Better)
  BY <1>0, <1>1, BeforeIsFinite
<1>3. P \in 1 .. n + 1
  BY <1>0, PlacesAreTaken
<1>4. ASSUME NEW i \in 1 .. n
      PROVE  /\ CompareScore(s, h[i]) <=> P <= Place(h, i)
             /\ Place(h, i) < P => Place(g, i) = Place(h, i)
             /\ P <= Place(h, i) => Place(g, i) = Place(h, i) + 1
  <2>1. /\ IsFiniteSet(Before(h, i)) /\ Cardinality(Before(h, i)) \in Nat
        /\ Place(h, i) = 1 + Cardinality(Before(h, i))
        /\ Place(g, i) = 1 + Cardinality(Before(g, i))
    BY <1>0, BeforeIsFinite
  <2>2. CASE CompareScore(s, h[i])
    <3>1. Better \in SUBSET Before(h, i)
      BY <1>0, <2>2 DEF Before, Precedes, CompareScore, n
    <3>2. Cardinality(Better) <= Cardinality(Before(h, i))
      BY <2>1, <3>1, FS_Subset
    <3>3. Before(g, i) = Before(h, i) \cup {n + 1} /\ n + 1 \notin Before(h, i)
      <4>1. \A j \in 1 .. n : Precedes(g, j, i) <=> Precedes(h, j, i)
        BY <1>0 DEF Precedes
      <4>2. Precedes(g, n + 1, i)
        BY <1>0, <2>2 DEF Precedes, CompareScore
      <4>3. 1 .. n + 1 = (1 .. n) \cup {n + 1} /\ n + 1 \notin 1 .. n
        <5>1. n \in Nat
          BY <1>0
        <5>2. \A j : j \in 1 .. n + 1 <=> j \in 1 .. n \/ j = n + 1
          BY <5>1
        <5> QED BY <5>1, <5>2
      <4>4. /\ Before(g, i) = {j \in 1 .. n + 1 : Precedes(g, j, i)}
            /\ Before(h, i) = {j \in 1 .. n : Precedes(h, j, i)}
        BY <1>0 DEF Before, n
      <4> QED BY <4>1, <4>2, <4>3, <4>4
    <3>4. Cardinality(Before(g, i)) = Cardinality(Before(h, i)) + 1
      BY <2>1, <3>3, FS_AddElement
    <3> QED BY <1>2, <2>1, <2>2, <3>2, <3>4
  <2>3. CASE ~CompareScore(s, h[i])
    <3>1. Before(h, i) \in SUBSET Better /\ i \in Better /\ i \notin Before(h, i)
      BY <1>0, <2>3 DEF Before, Precedes, CompareScore, n
    <3>2. Cardinality(Before(h, i)) <= Cardinality(Better)
          /\ Cardinality(Before(h, i)) # Cardinality(Better)
      BY <1>2, <3>1, FS_Subset
    <3>3. Before(g, i) = Before(h, i)
      BY <1>0, <2>3 DEF Before, Precedes, CompareScore, n
    <3> QED BY <1>2, <2>1, <2>3, <3>2, <3>3
  <2> QED BY <2>2, <2>3
<1> QED BY <1>3, <1>4 DEF g, n

(* The insertion is right: from the best k of a history it makes the best k of
   the history and the new score. *)
LEMMA TopOfAppend ==
    ASSUME NEW V, \A v \in V : v.score \in Int, NEW h \in Seq(V), NEW s \in V, NEW k \in Nat
    PROVE  LET r == TopOf(h, k)
           IN  /\ Len(r) <= k
               /\ Enters(r, s, k) => Inserted(r, s, k) = TopOf(Append(h, s), k)
               /\ ~Enters(r, s, k) => r = TopOf(Append(h, s), k)
<1> DEFINE n == Len(h)
           r == TopOf(h, k)
           g == Append(h, s)
           P == Place(g, n + 1)
           t == TopOf(g, k)
           u == UpperBound(r, s)
<1>0. /\ n \in Nat /\ g \in Seq(V) /\ Len(g) = n + 1 /\ g[n + 1] = s
      /\ \A i \in 1 .. n : g[i] = h[i]
  BY LenProperties, AppendProperties
<1>1. /\ P \in 1 .. n + 1
      /\ \A i \in 1 .. n :
            /\ CompareScore(s, h[i]) <=> P <= Place(h, i)
            /\ Place(h, i) < P => Place(g, i) = Place(h, i)
            /\ P <= Place(h, i) => Place(g, i) = Place(h, i) + 1
  BY PlacesAfterAppend
<1>2. /\ r \in Seq(V) /\ Len(r) = IF k < n THEN k ELSE n
      /\ \A i \in 1 .. n : Place(h, i) <= Len(r) => r[Place(h, i)] = h[i]
  BY TopOfElements
<1>3. /\ t \in Seq(V) /\ Len(t) = IF k < n + 1 THEN k ELSE n + 1
      /\ \A i \in 1 .. n + 1 : Place(g, i) <= Len(t) => t[Place(g, i)] = g[i]
  BY <1>0, TopOfElements
<1>4. /\ u \in 1 .. Len(r) + 1
      /\ u <= Len(r) => CompareScore(s, r[u])
      /\ \A q \in 1 .. u - 1 : ~CompareScore(s, r[q])
  BY <1>2, UpperBoundIsFirst
<1>5. \A p \in 1 .. n : \E i \in 1 .. n : Place(h, i) = p
  BY PlacesAreTaken
<1> HIDE DEF n, r, g, P, t, u
<1>6. Len(r) \in Nat /\ Len(r) <= n /\ Len(r) <= k /\ Len(t) <= Len(r) + 1
      /\ Len(r) <= Len(t) /\ Len(t) <= k
  BY <1>0, <1>2, <1>3
(* The first position s may stand at is its place, as far as r goes. *)
<1>7. u = IF P <= Len(r) THEN P ELSE Len(r) + 1
  <2>1. \A p \in 1 .. Len(r) : CompareScore(s, r[p]) <=> P <= p
    <3> TAKE p \in 1 .. Len(r)
    <3>0. p \in 1 .. n
      BY <1>0, <1>6
    <3>1. PICK i \in 1 .. n : Place(h, i) = p
      BY <1>5, <3>0
    <3>2. r[p] = h[i]
      BY <1>2, <3>1
    <3> QED BY <1>1, <3>1, <3>2
  <2> QED BY <1>0, <1>1, <1>4, <1>6, <2>1
(* t is r with s at P. *)
<1>8. ASSUME NEW p \in 1 .. Len(t)
      PROVE  t[p] = Shifted(r, P, s, p)
  <2>1. CASE p < P
    <3>1. p \in 1 .. n /\ p <= Len(r)
      BY <1>0, <1>1, <1>2, <1>3, <2>1
    <3>2. PICK i \in 1 .. n : Place(h, i) = p
      BY <1>5, <3>1
    <3>3. Place(g, i) = p
      BY <1>1, <2>1, <3>2
    <3>4. t[p] = g[i] /\ r[p] = h[i]
      BY <1>0, <1>2, <1>3, <3>1, <3>2, <3>3
    <3> QED BY <1>0, <2>1, <3>4 DEF Shifted
  <2>2. CASE p = P
    <3>1. t[P] = g[n + 1]
      BY <1>0, <1>3, <2>2 DEF P
    <3> QED BY <1>0, <1>1, <2>2, <3>1 DEF Shifted
  <2>3. CASE p > P
    <3>1. p - 1 \in 1 .. n /\ p - 1 <= Len(r)
      BY <1>0, <1>1, <1>3, <1>6, <2>3
    <3>2. PICK i \in 1 .. n : Place(h, i) = p - 1
      BY <1>5, <3>1
    <3>3. Place(g, i) = p
      BY <1>0, <1>1, <2>3, <3>2
    <3>4. t[p] = g[i] /\ r[p - 1] = h[i]
      BY <1>0, <1>2, <1>3, <3>1, <3>2, <3>3
    <3> QED BY <1>0, <1>1, <2>3, <3>4 DEF Shifted
  <2> QED BY <1>0, <1>1, <2>1, <2>2, <2>3
<1>9. ASSUME Enters(r, s, k)
      PROVE  Inserted(r, s, k) = t
  <2>1. /\ Inserted(r, s, k) \in Seq(V)
        /\ Len(Inserted(r, s, k)) = IF Len(r) = k THEN k ELSE Len(r) + 1
        /\ \A i \in 1 .. Len(Inserted(r, s, k)) : Inserted(r, s, k)[i] = Shifted(r, u, s, i)
    <3>1. r \in Seq(V) /\ Len(r) <= k
      BY <1>2, <1>6
    <3>2. k \in Nat /\ s \in V
      OBVIOUS
    <3>3. /\ Inserted(r, s, k) \in Seq(V)
          /\ Len(Inserted(r, s, k)) = IF Len(r) = k THEN k ELSE Len(r) + 1
          /\ \A i \in 1 .. Len(Inserted(r, s, k)) :
                Inserted(r, s, k)[i] = Shifted(r, UpperBound(r, s), s, i)
      BY <3>1, <3>2, InsertedElements
    <3> QED BY <3>3 DEF u
  <2>2. Len(Inserted(r, s, k)) = Len(t)
    BY <1>0, <1>2, <1>3, <2>1
  <2>3. u = P
    <3>1. Len(r) # k \/ u <= Len(r)
      BY <1>9 DEF Enters, IsFull, u
    <3> QED BY <1>0, <1>1, <1>2, <1>7, <3>1
  <2>4. \A p \in 1 .. Len(t) : Inserted(r, s, k)[p] = t[p]
    BY <1>8, <2>1, <2>2, <2>3
  <2> QED BY <1>3, <2>1, <2>2, <2>4, SeqEqual
<1>10. ASSUME ~Enters(r, s, k)
       PROVE  r = t
  <2>1. Len(r) = k /\ Len(r) < P /\ Len(t) = Len(r)
    BY <1>1, <1>3, <1>6, <1>7, <1>10 DEF Enters, IsFull, u
  <2>2. \A p \in 1 .. Len(t) : t[p] = r[p]
    BY <1>1, <1>6, <1>8, <2>1 DEF Shifted
  <2> QED BY <1>2, <1>3, <2>1, <2>2, SeqEqual
<1> QED BY <1>6, <1>9, <1>10 DEF r, t, g

(* A board that is in order is the best of its scores, the last one oldest. *)
LEMMA TopOfReversed ==
    ASSUME NEW V, \A v \in V : v.score \in Int, NEW b \in Seq(V), NEW k \in Nat,
           IsRanking(b), Len(b) <= k
    PROVE  Reverse(b) \in Seq(V) /\ TopOf(Reverse(b), k) = b
<1> DEFINE n == Len(b)
           h == Reverse(b)
           t == TopOf(h, k)
<1>1. n \in Nat /\ \A p \in 1 .. n : b[p] \in V /\ b[p].score \in Int
  BY LenProperties, ElementOfSeq
<1>2. h = [i \in 1 .. n |-> b[n - i + 1]]
  BY DEF Reverse
<1>3. \A i \in 1 .. n : n - i + 1 \in 1 .. n
  BY <1>1
<1> HIDE DEF h
<1>4. /\ h \in Seq(V) /\ Len(h) = n
      /\ \A i \in 1 .. n : h[i] = b[n - i + 1]
  BY <1>1, <1>2, <1>3, IsASeq
<1>5. /\ t \in Seq(V) /\ Len(t) = n
      /\ \A i \in 1 .. n : Place(h, i) <= n => t[Place(h, i)] = h[i]
  BY <1>1, <1>4, TopOfElements
<1> HIDE DEF n, t
<1>6. ASSUME NEW i \in 1 .. n
      PROVE  Place(h, i) = n - i + 1
  <2>1. ASSUME NEW j \in 1 .. n
        PROVE  Precedes(h, j, i) <=> j > i
    <3>1. /\ n - i + 1 \in 1 .. n /\ n - j + 1 \in 1 .. n
          /\ h[i] = b[n - i + 1] /\ h[j] = b[n - j + 1]
          /\ h[i].score \in Int /\ h[j].score \in Int
      BY <1>1, <1>3, <1>4
    <3>2. CASE j > i
      <4>1. n - j + 1 < n - i + 1
        BY <1>1, <3>2
      <4>2. h[j].score >= h[i].score
        BY <3>1, <4>1 DEF IsRanking, n
      <4> QED BY <3>1, <3>2, <4>2 DEF Precedes
    <3>3. CASE j < i
      <4>1. n - i + 1 < n - j + 1
        BY <1>1, <3>3
      <4>2. h[i].score >= h[j].score
        BY <3>1, <4>1 DEF IsRanking, n
      <4> QED BY <3>1, <3>3, <4>2 DEF Precedes
    <3>4. CASE j = i
      BY <3>1, <3>4 DEF Precedes
    <3> QED BY <3>2, <3>3, <3>4
  <2>2. Before(h, i) = i + 1 .. n
    BY <1>1, <1>4, <2>1 DEF Before
  <2>3. Cardinality(i + 1 .. n) = n - i
    BY <1>1, FS_Interval
  <2> QED BY <1>1, <1>4, <2>2, <2>3, BeforeIsFinite
<1>7. ASSUME NEW p \in 1 .. n
      PROVE  t[p] = b[p]
  <2>1. n - p + 1 \in 1 .. n /\ n - (n - p + 1) + 1 = p
    BY <1>1
  <2>2. Place(h, n - p + 1) = p
    BY <1>6, <2>1
  <2>3. t[p] = h[n - p + 1]
    BY <1>1, <1>5, <2>1, <2>2
  <2> QED BY <1>4, <2>1, <2>3
<1>8. t = b
  BY <1>5, <1>7, SeqEqual DEF n
<1> QED BY <1>4, <1>8 DEF h, t
==============================================================================
