--------------------------- MODULE SequentialProofs --------------------------
(***************************************************************************)
(* Theorems about the parts of the server that run with nobody else        *)
(* around: the ranking of RankingFold, the way from a configuration to the *)
(* handlers of Startup and the answers of Responses, for every set of      *)
(* names, scores, statements, path texts and requests, and every bound.    *)
(***************************************************************************)
EXTENDS RankingFold, Responses, RankingProofs

------------------------------------------------------------------------------
(* The ranking.                                                            *)

(* The best of a history are in order. *)
LEMMA TopOfIsRanking ==
    ASSUME NEW V, \A v \in V : v.score \in Int, NEW h \in Seq(V), NEW k \in Nat
    PROVE  IsRanking(TopOf(h, k))
<1> DEFINE t == TopOf(h, k)
           n == Len(h)
<1>1. /\ n \in Nat /\ \A i \in 1 .. n : h[i].score \in Int
  BY LenProperties, ElementOfSeq
<1>2. /\ Len(t) = IF k < n THEN k ELSE n
      /\ \A i \in 1 .. n : Place(h, i) <= Len(t) => t[Place(h, i)] = h[i]
  BY TopOfElements
<1>3. Len(t) \in Nat /\ Len(t) <= n
  BY <1>1, <1>2
<1> SUFFICES ASSUME NEW p \in 1 .. Len(t), NEW q \in 1 .. Len(t), p < q
             PROVE  t[p].score >= t[q].score
  BY DEF IsRanking
<1> HIDE DEF t
<1>4. p \in 1 .. n /\ q \in 1 .. n
  BY <1>1, <1>3
<1> HIDE DEF n
<1>5. PICK i \in 1 .. n : Place(h, i) = p
  BY <1>4, PlacesAreTaken DEF n
<1>6. PICK j \in 1 .. n : Place(h, j) = q
  BY <1>4, PlacesAreTaken DEF n
<1>7. Precedes(h, i, j)
  BY <1>5, <1>6, PlacesAreTaken DEF n
<1>8. t[p] = h[i] /\ t[q] = h[j]
  BY <1>2, <1>3, <1>5, <1>6
<1> QED BY <1>1, <1>5, <1>6, <1>7, <1>8 DEF Precedes

(* The binary search ends where the linear one does, if the ranking is in order. *)
LEMMA BinaryIsLinear ==
    ASSUME NEW V, \A v \in V : v.score \in Int, NEW r \in Seq(V), NEW s \in V, IsRanking(r)
    PROVE  BinaryUpperBound(r, s) = UpperBound(r, s)
<1> DEFINE n == Len(r)
           U == UpperBound(r, s)
           D == Ranges(r)
           Step(f) == [range \in D |->
                          IF range.len = 0 THEN range.first
                          ELSE LET half == range.len \div 2
                                   middle == range.first + half
                               IN  IF CompareScore(s, r[middle])
                                   THEN f[[range EXCEPT !.len = half]]
                                   ELSE f[[first |-> middle + 1, len |-> range.len - half - 1]]]
           Within(range) == IF U < range.first THEN range.first
                            ELSE IF U > range.first + range.len THEN range.first + range.len
                            ELSE U
           within == [range \in D |-> Within(range)]
           f == CHOOSE g : g = Step(g)
           whole == [first |-> 1, len |-> n]
<1>0. /\ n \in Nat /\ s.score \in Int /\ \A p \in 1 .. n : r[p].score \in Int
  BY LenProperties, ElementOfSeq
<1>1. U \in 1 .. n + 1 /\ \A p \in 1 .. n : CompareScore(s, r[p]) <=> U <= p
  <2>1. /\ U \in 1 .. n + 1
        /\ U <= n => CompareScore(s, r[U])
        /\ \A p \in 1 .. U - 1 : ~CompareScore(s, r[p])
    BY UpperBoundIsFirst
  <2> HIDE DEF U
  <2>2. ASSUME NEW p \in 1 .. n PROVE CompareScore(s, r[p]) <=> U <= p
    <3>1. CASE U <= p
      <4>1. U \in 1 .. n /\ CompareScore(s, r[U])
        BY <1>0, <2>1, <3>1
      <4>2. U = p \/ r[U].score >= r[p].score
        BY <1>0, <3>1, <4>1 DEF IsRanking
      <4> QED BY <1>0, <3>1, <4>1, <4>2 DEF CompareScore
    <3>2. CASE ~(U <= p)
      <4>1. p \in 1 .. U - 1
        BY <1>0, <2>1, <3>2
      <4> QED BY <2>1, <3>2, <4>1
    <3> QED BY <3>1, <3>2
  <2> QED BY <2>1, <2>2
<1> HIDE DEF U
<1>2. ASSUME NEW range \in D
      PROVE  /\ range.first \in 1 .. n + 1 /\ range.len \in 0 .. n
             /\ range.first + range.len <= n + 1
             /\ range = [first |-> range.first, len |-> range.len]
  BY DEF Ranges
<1>3. ASSUME NEW a \in 1 .. n + 1, NEW b \in 0 .. n, a + b <= n + 1
      PROVE  [first |-> a, len |-> b] \in D
  BY <1>3 DEF Ranges
<1> HIDE DEF n, D
(* Where the halves of a range are, and what lies within them. *)
<1>4. ASSUME NEW range \in D, range.len # 0
      PROVE  LET half == range.len \div 2
                 middle == range.first + half
                 left == [range EXCEPT !.len = half]
                 right == [first |-> middle + 1, len |-> range.len - half - 1]
             IN  /\ middle \in 1 .. n
                 /\ left \in D /\ left.len < range.len /\ right \in D /\ right.len < range.len
                 /\ U <= middle => Within(range) = Within(left)
                 /\ ~(U <= middle) => Within(range) = Within(right)
  <2> DEFINE a == range.first
             b == range.len
             half == b \div 2
             middle == a + half
             left == [range EXCEPT !.len = half]
             right == [first |-> middle + 1, len |-> b - half - 1]
  <2>1. /\ a \in 1 .. n + 1 /\ b \in 1 .. n /\ a + b <= n + 1
        /\ range = [first |-> a, len |-> b]
    BY <1>0, <1>2, <1>4
  <2>2. left = [first |-> a, len |-> half] /\ left.first = a /\ left.len = half
        /\ right.first = middle + 1 /\ right.len = b - half - 1
    BY <1>2
  <2> HIDE DEF a, b, left, right
  <2>3. half \in 0 .. b - 1
    BY <1>0, <2>1
  <2> HIDE DEF half
  <2>4. middle \in 1 .. n /\ b - half - 1 \in 0 .. b - 1 /\ (middle + 1) + (b - half - 1) = a + b
    BY <1>0, <2>1, <2>3
  <2>5. left \in D /\ left.len < b
    <3>1. half \in 0 .. n /\ a + half <= n + 1
      BY <1>0, <2>1, <2>3
    <3> QED BY <1>0, <1>3, <2>1, <2>2, <2>3, <3>1
  <2>6. right \in D /\ right.len < b
    <3>1. middle + 1 \in 1 .. n + 1 /\ b - half - 1 \in 0 .. n
      <4>1. b \in Nat /\ b <= n /\ half \in Nat /\ half <= b - 1
        BY <1>0, <2>1, <2>3
      <4>2. b - half - 1 \in 0 .. n
        BY <1>0, <4>1
      <4>3. middle + 1 \in 1 .. n + 1
        <5> HIDE DEF middle
        <5> QED BY <1>0, <2>4
      <4> QED BY <4>2, <4>3
    <3>2. [first |-> middle + 1, len |-> b - half - 1] \in D
      BY <1>3, <2>1, <2>4, <3>1
    <3> QED BY <1>0, <2>1, <2>2, <2>3, <3>2 DEF right
  <2>7. U <= middle => Within(range) = Within(left)
    BY <1>0, <1>1, <2>1, <2>2, <2>3, <2>4
  <2>8. ~(U <= middle) => Within(range) = Within(right)
    BY <1>0, <1>1, <2>1, <2>2, <2>3, <2>4
  <2> QED BY <2>4, <2>5, <2>6, <2>7, <2>8 DEF a, b, half, left, right
<1>5. within = Step(within)
  <2>1. ASSUME NEW range \in D PROVE within[range] = Step(within)[range]
    <3>1. CASE range.len = 0
      <4>1. Within(range) = range.first
        BY <1>0, <1>1, <1>2, <3>1
      <4>2. within[range] = Within(range)
        OBVIOUS
      <4> HIDE DEF within, Within
      <4>3. Step(within)[range] = range.first
        BY <3>1
      <4> QED BY <4>1, <4>2, <4>3
    <3>2. CASE range.len # 0
      <4> DEFINE half == range.len \div 2
                 middle == range.first + half
                 left == [range EXCEPT !.len = half]
                 right == [first |-> middle + 1, len |-> range.len - half - 1]
      <4>1. /\ middle \in 1 .. n /\ left \in D /\ right \in D
            /\ U <= middle => Within(range) = Within(left)
            /\ ~(U <= middle) => Within(range) = Within(right)
        BY <1>4, <3>2
      <4>2. CompareScore(s, r[middle]) <=> U <= middle
        BY <1>1, <4>1
      <4> HIDE DEF half, Within
      <4>3. /\ within[range] = Within(range) /\ within[left] = Within(left)
            /\ within[right] = Within(right)
        BY <4>1
      <4>4. Step(within)[range] = IF CompareScore(s, r[middle]) THEN within[left] ELSE within[right]
        <5> HIDE DEF within
        <5> QED BY <3>2 DEF half
      <4> QED BY <4>1, <4>2, <4>3, <4>4
    <3> QED BY <3>1, <3>2
  <2>2. within = [range \in D |-> within[range]]
    OBVIOUS
  <2> HIDE DEF within
  <2> QED BY <2>1, <2>2
<1>6. f = Step(f)
  BY <1>5
<1>7. BinaryUpperBound(r, s) = f[whole]
  BY DEF BinaryUpperBound, D, n
<1> HIDE DEF f, Within
(* By induction on the length of a range, which is that there is no shortest
   range for which the search ends elsewhere. *)
<1>8. \A range \in D : f[range] = within[range]
  <2> DEFINE Bad == {len \in 0 .. n : \E range \in D : range.len = len /\ f[range] # within[range]}
  <2>1. CASE Bad = {}
    BY <1>2, <2>1
  <2>2. CASE Bad # {}
    <3>1. Bad \in SUBSET Nat
      BY <1>0
    <3>2. PICK len \in Bad : \A m \in Bad : len <= m
      <4> HIDE DEF Bad
      <4> QED BY <2>2, <3>1, LeastNatural
    <3>3. PICK range \in D : range.len = len /\ f[range] # within[range]
      BY <3>2
    <3>4. \A other \in D : other.len < len => f[other] = within[other]
      <4> SUFFICES ASSUME NEW other \in D, other.len < len PROVE f[other] = within[other]
        OBVIOUS
      <4>1. other.len \in 0 .. n /\ len \in Nat /\ ~(len <= other.len)
        BY <1>0, <1>2, <3>1, <3>2
      <4>2. other.len \notin Bad
        BY <3>2, <4>1
      <4> QED BY <4>1, <4>2
    <3>5. f[range] = Step(f)[range] /\ within[range] = Step(within)[range]
      BY <1>5, <1>6
    <3> HIDE DEF within, Bad
    <3>6. Step(f)[range] = Step(within)[range]
      <4>1. CASE range.len = 0
        BY <4>1
      <4>2. CASE range.len # 0
        <5> DEFINE half == range.len \div 2
                   middle == range.first + half
                   left == [range EXCEPT !.len = half]
                   right == [first |-> middle + 1, len |-> range.len - half - 1]
        <5>1. left \in D /\ left.len < len /\ right \in D /\ right.len < len
          BY <1>4, <3>3, <4>2
        <5> HIDE DEF half
        <5>2. f[left] = within[left] /\ f[right] = within[right]
          BY <3>4, <5>1
        <5>3. /\ Step(f)[range] = IF CompareScore(s, r[middle]) THEN f[left] ELSE f[right]
              /\ Step(within)[range] = IF CompareScore(s, r[middle]) THEN within[left] ELSE within[right]
          BY <4>2 DEF half
        <5> QED BY <5>2, <5>3
      <4> QED BY <4>1, <4>2
    <3> QED BY <3>3, <3>5, <3>6
  <2> QED BY <2>1, <2>2
<1>9. whole \in D /\ whole.first = 1 /\ whole.len = n
  BY <1>0, <1>3
<1> HIDE DEF whole
<1>10. within[whole] = U
  BY <1>0, <1>1, <1>9 DEF Within
<1> QED BY <1>7, <1>8, <1>9, <1>10 DEF U

FoldInv ==
    /\ size \in Nat
    /\ history \in Seq(ScoreRecord(Usernames, ScoreValues))
    /\ board = TopOf(history, size)

(* After every score the board is the best of all, newer ones first, and the
   binary search of std::upper_bound finds where the next one goes
   (new_score, CompareScore). *)
THEOREM RankingStaysRight == FoldSpec => []RankingIsRight
<1> DEFINE V == ScoreRecord(Usernames, ScoreValues)
<1>0. \A v \in V : v.score \in Int
  BY FoldAssumption DEF ScoreRecord
<1>1. FoldInit => FoldInv
  <2> SUFFICES ASSUME FoldInit PROVE FoldInv
    OBVIOUS
  <2>1. size \in Nat /\ history = <<>> /\ board = <<>>
    BY FoldAssumption DEF FoldInit
  <2>2. <<>> \in Seq(V) /\ Len(<<>>) = 0
    BY EmptySeq
  <2> HIDE DEF V
  <2>3. TopOf(<<>>, size) \in Seq(V) /\ Len(TopOf(<<>>, size)) = 0
    <3> DEFINE none == <<>>
    <3>1. none \in Seq(V) /\ Len(none) = 0
      BY <2>2
    <3> HIDE DEF none
    <3>2. /\ TopOf(none, size) \in Seq(V)
          /\ Len(TopOf(none, size)) = IF size < Len(none) THEN size ELSE Len(none)
      BY <1>0, <2>1, <3>1, TopOfElements
    <3>3. Len(TopOf(none, size)) = 0
      BY <2>1, <3>1, <3>2
    <3> QED BY <3>2, <3>3 DEF none
  <2>4. TopOf(<<>>, size) = <<>>
    BY <2>3, EmptySeq
  <2> QED BY <2>1, <2>2, <2>4 DEF FoldInv, V
<1>2. FoldInv /\ [FoldNext]_foldVars => FoldInv'
  <2> SUFFICES ASSUME FoldInv, [FoldNext]_foldVars PROVE FoldInv'
    OBVIOUS
  <2>1. ASSUME NEW s \in V, NewScore(s) PROVE FoldInv'
    <3>1. /\ history \in Seq(V) /\ size \in Nat /\ board = TopOf(history, size)
          /\ size' = size /\ history' = Append(history, s)
      BY <2>1 DEF NewScore, FoldInv
    <3>2. board' = IF Enters(board, s, size) THEN Inserted(board, s, size) ELSE board
      BY <2>1 DEF NewScore
    <3> HIDE DEF V
    <3>3. history' \in Seq(V)
      BY <3>1, AppendProperties
    <3>4. board' = TopOf(Append(history, s), size)
      BY <1>0, <3>1, <3>2, TopOfAppend
    <3> QED BY <3>1, <3>3, <3>4 DEF FoldInv, V
  <2>2. CASE UNCHANGED foldVars
    BY <2>2 DEF foldVars, FoldInv
  <2> QED BY <2>1, <2>2 DEF FoldNext
<1>3. FoldInv => RankingIsRight
  <2> SUFFICES ASSUME FoldInv PROVE RankingIsRight
    OBVIOUS
  <2>1. history \in Seq(V) /\ size \in Nat /\ board = TopOf(history, size)
    BY DEF FoldInv
  <2>2. board \in Seq(V) /\ IsRanking(board)
    <3> HIDE DEF V
    <3> QED BY <1>0, <2>1, TopOfElements, TopOfIsRanking
  <2>3. \A s \in V : BinaryUpperBound(board, s) = UpperBound(board, s)
    <3> HIDE DEF V
    <3> QED BY <1>0, <2>2, BinaryIsLinear
  <2> QED BY <2>1, <2>3 DEF RankingIsRight, BoardIsTopOfHistory, BinarySearchFindsPosition
<1> QED BY <1>1, <1>2, <1>3, PTL DEF FoldSpec

------------------------------------------------------------------------------
(* The climb of Dispatcher::match.                                         *)

(* Max is well defined for the places in a sequence. *)
LEMMA LastOne ==
    ASSUME NEW n \in Nat, NEW T \in SUBSET (1 .. n), T # {}
    PROVE  Max(T) \in T /\ \A m \in T : m <= Max(T)
<1> DEFINE Left == {n - m : m \in T}
<1>0. \A m \in T : m \in Nat /\ n - m \in Nat
  <2> TAKE m \in T
  <2>1. m \in 1 .. n
    OBVIOUS
  <2> QED BY <2>1
<1>1. Left \in SUBSET Nat /\ Left # {}
  BY <1>0
<1>2. PICK k \in Left : \A l \in Left : k <= l
  <2> HIDE DEF Left
  <2> QED BY <1>1, LeastNatural
<1>3. PICK x \in T : k = n - x
  BY <1>2
<1>4. \A m \in T : x >= m
  <2> TAKE m \in T
  <2>1. n - m \in Left
    OBVIOUS
  <2>2. n - x <= n - m
    BY <1>2, <1>3, <2>1
  <2>3. x \in Nat /\ m \in Nat
    BY <1>0
  <2> QED BY <2>2, <2>3
<1>5. Max(T) \in T /\ \A m \in T : Max(T) >= m
  BY <1>3, <1>4 DEF Max
<1>6. Max(T) \in Nat
  BY <1>0, <1>5
<1>7. \A m \in T : m <= Max(T)
  <2> TAKE m \in T
  <2> QED BY <1>0, <1>5, <1>6
<1> QED BY <1>5, <1>7

(* The paths of locations and what can be asked for. *)
Targeted == Seq(Texts)
Paths == Seq(Texts) \ {<<>>, <<"">>}

(* How long the ancestors of a path are that have a route, other than "/". *)
Routed(r, path) ==
    {l \in 1 .. Len(path) : SubSeq(path, 1, l) \in DOMAIN r /\ SubSeq(path, 1, l) # Root}

AtRoot(r) == IF Root \in DOMAIN r THEN {r[Root]} ELSE {}

Nearest(r, path) ==
    IF Routed(r, path) = {} THEN AtRoot(r) ELSE {r[SubSeq(path, 1, Max(Routed(r, path)))]}

LEMMA ShortPaths ==
    ASSUME NEW x \in Texts
    PROVE  /\ <<x>> \in Targeted /\ Len(<<x>>) = 1
           /\ <<x, x>> \in Targeted /\ Len(<<x, x>>) = 2
           /\ SubSeq(<<x, x>>, 1, 1) = <<x>> /\ SubSeq(<<x, x>>, 1, 2) = <<x, x>>
<1> DEFINE a == <<x>>
           b == <<x, x>>
           c == SubSeq(b, 1, 1)
<1>1. a \in Seq(Texts) /\ Len(a) = 1 /\ a[1] = x
  OBVIOUS
<1>2. b \in Seq(Texts) /\ Len(b) = 2 /\ b[1] = x /\ b[2] = x
  OBVIOUS
<1> HIDE DEF a, b
<1>3. SubSeq(b, 1, 2) = b
  BY <1>2, SubSeqFull
<1>4. c \in Seq(Texts) /\ Len(c) = 1 /\ c[1] = x
  <2>1. \A i \in 1 .. 1 : b[i] \in Texts
    BY <1>2
  <2>2. /\ c \in Seq(Texts)
        /\ Len(c) = IF 1 <= 1 THEN 1 - 1 + 1 ELSE 0
        /\ \A i \in 1 .. 1 - 1 + 1 : c[i] = b[1 + i - 1]
    BY <2>1, SubSeqProperties
  <2>3. Len(c) = 1 /\ \A i \in {1} : c[i] = b[1 + i - 1]
    BY <2>2
  <2> HIDE DEF c
  <2>4. c[1] = b[1]
    BY <2>3
  <2> QED BY <1>2, <2>2, <2>3, <2>4
<1>5. c = a
  <2> HIDE DEF c
  <2>1. Len(a) = Len(c) /\ \A i \in 1 .. Len(a) : a[i] = c[i]
    BY <1>1, <1>4
  <2> QED BY <1>1, <1>4, <2>1, SeqEqual
<1> QED BY <1>1, <1>2, <1>3, <1>5 DEF a, b, Targeted

LEMMA RootParts ==
    /\ <<"">> \in Targeted /\ Len(<<"">>) = 1
    /\ Root \in Targeted /\ Len(Root) = 2
    /\ SubSeq(Root, 1, 1) = <<"">> /\ SubSeq(Root, 1, 2) = Root
<1>1. PICK x \in Texts : x = ""
  BY StartupAssumption
<1>2. Root = <<x, x>> /\ <<"">> = <<x>>
  BY <1>1 DEF Root
<1> QED BY <1>2, ShortPaths

(* Below a number is at most its predecessor. *)
LEMMA JustBelow ==
    ASSUME NEW n \in Nat, NEW l \in 1 .. n, l # n
    PROVE  /\ l \in 1 .. n - 1 /\ l \in 0 .. n - 1 /\ n - 1 \in 0 .. n
           /\ n - 1 = 0 \/ n - 1 = 1 => l = 1 /\ n - 1 = 1
OBVIOUS

LEMMA PrefixOf ==
    ASSUME NEW path \in Targeted, NEW l \in 0 .. Len(path)
    PROVE  /\ SubSeq(path, 1, l) \in Targeted /\ Len(SubSeq(path, 1, l)) = l
           /\ \A i \in 1 .. l : SubSeq(path, 1, l)[i] = path[i]
<1>1. Len(path) \in Nat /\ \A i \in 1 .. Len(path) : path[i] \in Texts
  BY LenProperties, ElementOfSeq DEF Targeted
<1>2. \A i \in 1 .. l : path[i] \in Texts
  BY <1>1
<1>3. /\ SubSeq(path, 1, l) \in Seq(Texts)
      /\ Len(SubSeq(path, 1, l)) = IF 1 <= l THEN l - 1 + 1 ELSE 0
      /\ \A i \in 1 .. l - 1 + 1 : SubSeq(path, 1, l)[i] = path[1 + i - 1]
  BY <1>1, <1>2, SubSeqProperties
<1>4. l \in Nat /\ l - 1 + 1 = l /\ \A i \in 1 .. l : 1 + i - 1 = i
  BY <1>1
<1> QED BY <1>3, <1>4 DEF Targeted

LEMMA PrefixOfPrefix ==
    ASSUME NEW path \in Targeted, NEW k \in 0 .. Len(path), NEW l \in 0 .. k
    PROVE  SubSeq(SubSeq(path, 1, k), 1, l) = SubSeq(path, 1, l)
<1> DEFINE p == SubSeq(path, 1, k)
<1>1. Len(path) \in Nat
  BY LenProperties DEF Targeted
<1>2. p \in Targeted /\ Len(p) = k /\ \A i \in 1 .. k : p[i] = path[i]
  BY PrefixOf
<1>3. l \in 0 .. Len(path) /\ \A i \in 1 .. l : i \in 1 .. k
  BY <1>1
<1>4. /\ SubSeq(path, 1, l) \in Targeted /\ Len(SubSeq(path, 1, l)) = l
      /\ \A i \in 1 .. l : SubSeq(path, 1, l)[i] = path[i]
  BY <1>3, PrefixOf
<1> HIDE DEF p
<1>5. /\ SubSeq(p, 1, l) \in Targeted /\ Len(SubSeq(p, 1, l)) = l
      /\ \A i \in 1 .. l : SubSeq(p, 1, l)[i] = p[i]
  BY <1>2, PrefixOf
<1>6. SubSeq(p, 1, l) = SubSeq(path, 1, l)
  <2> DEFINE a == SubSeq(p, 1, l)
             b == SubSeq(path, 1, l)
  <2>1. /\ a \in Seq(Texts) /\ b \in Seq(Texts) /\ Len(a) = l /\ Len(b) = l
        /\ \A i \in 1 .. l : a[i] = b[i]
    BY <1>2, <1>3, <1>4, <1>5 DEF Targeted
  <2> HIDE DEF a, b
  <2>2. a = b
    BY <2>1, SeqEqual
  <2> QED BY <2>2 DEF a, b
<1> QED BY <1>6 DEF p

LEMMA NotBelow ==
    ASSUME NEW n \in Nat, NEW l \in 1 .. n, n <= l
    PROVE  l = n
OBVIOUS

LEMMA NothingAboveRoot ==
    ASSUME NEW r, DOMAIN r \subseteq Paths
    PROVE  Routed(r, Root) = {}
<1> SUFFICES ASSUME NEW l \in Routed(r, Root) PROVE FALSE
  OBVIOUS
<1>1. l \in 1 .. 2 /\ SubSeq(Root, 1, l) \in DOMAIN r /\ SubSeq(Root, 1, l) # Root
  BY RootParts DEF Routed
<1>2. l = 1 \/ l = 2
  BY <1>1
<1>3. SubSeq(Root, 1, l) = <<"">> \/ SubSeq(Root, 1, l) = Root
  BY <1>2, RootParts
<1> QED BY <1>1, <1>3 DEF Paths

(* What Parent cuts off. *)
LEMMA ParentIsAbove ==
    ASSUME NEW path \in Targeted, path # Root
    PROVE  /\ Parent(path) \in Targeted
           /\ Parent(path) = Root \/ Len(Parent(path)) < Len(path)
           /\ Front(path) \notin {<<>>, <<"">>} =>
                 /\ Len(path) # 0 /\ Parent(path) = Front(path)
                 /\ Len(Front(path)) = Len(path) - 1
<1>1. Len(path) \in Nat
  BY LenProperties DEF Targeted
<1>2. CASE Front(path) \in {<<>>, <<"">>}
  BY <1>2, RootParts DEF Parent
<1>3. CASE Front(path) \notin {<<>>, <<"">>}
  <2>1. Parent(path) = Front(path)
    BY <1>3 DEF Parent
  <2>2. Len(path) # 0
    <3> SUFFICES ASSUME Len(path) = 0 PROVE FALSE
      OBVIOUS
    <3>1. Front(path) = <<>>
      BY SubSeqEmpty DEF Front
    <3> QED BY <1>3, <3>1
  <2>3. Len(path) - 1 \in 0 .. Len(path) /\ Len(path) - 1 < Len(path)
    BY <1>1, <2>2
  <2>4. Front(path) \in Targeted /\ Len(Front(path)) = Len(path) - 1
    BY <2>3, PrefixOf DEF Front
  <2> QED BY <2>1, <2>2, <2>3, <2>4
<1> QED BY <1>2, <1>3

(* What is cut off by Parent is nothing that has a route. *)
LEMMA ParentIsNearer ==
    ASSUME NEW r, DOMAIN r \subseteq Paths, NEW path \in Targeted, path # Root
    PROVE  /\ path \in DOMAIN r => Nearest(r, path) = {r[path]}
           /\ path \notin DOMAIN r => Nearest(r, path) = Nearest(r, Parent(path))
<1>1. Len(path) \in Nat /\ (path # <<>> => Len(path) > 0) /\ SubSeq(path, 1, Len(path)) = path
  BY LenProperties, EmptySeq, SubSeqFull DEF Targeted
<1>2. Routed(r, path) \in SUBSET (1 .. Len(path))
  BY DEF Routed
<1>3. ASSUME path \in DOMAIN r PROVE Nearest(r, path) = {r[path]}
  <2>1. path # <<>>
    BY <1>3 DEF Paths
  <2>2. Len(path) \in 1 .. Len(path)
    BY <1>1, <2>1
  <2>3. Len(path) \in Routed(r, path)
    BY <1>1, <1>3, <2>2 DEF Routed
  <2> DEFINE max == Max(Routed(r, path))
  <2>4. max \in Routed(r, path) /\ Len(path) <= max
    BY <1>1, <1>2, <2>3, LastOne
  <2>5. max \in 1 .. Len(path)
    BY <1>2, <2>4
  <2>6. max = Len(path)
    <3> HIDE DEF max
    <3> QED BY <1>1, <2>4, <2>5, NotBelow
  <2> QED BY <1>1, <2>3, <2>6 DEF Nearest
<1>4. ASSUME path \notin DOMAIN r PROVE Nearest(r, path) = Nearest(r, Parent(path))
  <2> DEFINE n == Len(path) - 1
  <2>0. Front(path) = SubSeq(path, 1, n)
    BY DEF Front
  <2>1. \A l \in Routed(r, path) :
           /\ l \in 1 .. n /\ l \in 0 .. n /\ n \in 0 .. Len(path)
           /\ n = 0 \/ n = 1 => l = 1 /\ n = 1
    <3> TAKE l \in Routed(r, path)
    <3>1. l \in 1 .. Len(path) /\ l # Len(path)
      BY <1>1, <1>4 DEF Routed
    <3> QED BY <1>1, <3>1, JustBelow
  <2>2. Len(path) # 0 => /\ n \in Nat /\ n \in 0 .. Len(path)
                         /\ \A l \in 1 .. n : l \in 0 .. n /\ l \in 1 .. Len(path)
    BY <1>1
  <2>3. Front(path) \notin {<<>>, <<"">>} =>
           Len(path) # 0 /\ Parent(path) = Front(path) /\ Len(Front(path)) = n
    BY ParentIsAbove
  <2> HIDE DEF n
  <2>4. CASE Front(path) \in {<<>>, <<"">>}
    <3>1. Parent(path) = Root
      BY <2>4 DEF Parent
    <3>2. ASSUME NEW l \in Routed(r, path) PROVE FALSE
      <4>1. Len(Front(path)) = n
        BY <2>0, <2>1, PrefixOf
      <4>2. Front(path) = <<>> \/ Front(path) = <<"">>
        BY <2>4
      <4>3. /\ Front(path) = <<>> => Len(Front(path)) = 0
            /\ Front(path) = <<"">> => Len(Front(path)) = 1
        <5>1. Len(<<>>) = 0
          BY EmptySeq
        <5> QED BY <5>1, RootParts
      <4>4. l = n /\ n = 1
        BY <2>1, <4>1, <4>2, <4>3
      <4>5. Front(path) = <<"">>
        <5>1. Len(Front(path)) # 0
          BY <4>1, <4>4
        <5> QED BY <4>2, <4>3, <5>1, Zenon
      <4>6. SubSeq(path, 1, l) = <<"">>
        BY <2>0, <4>4, <4>5
      <4> QED BY <4>6 DEF Routed, Paths
    <3> QED BY <3>1, <3>2, NothingAboveRoot DEF Nearest
  <2>5. CASE Front(path) \notin {<<>>, <<"">>}
    <3>1. \A l \in 1 .. n : SubSeq(Front(path), 1, l) = SubSeq(path, 1, l)
      <4> TAKE l \in 1 .. n
      <4> QED BY <2>0, <2>2, <2>3, <2>5, PrefixOfPrefix
    <3>2. Routed(r, path) = Routed(r, Front(path))
      <4> DEFINE Has(p, l) == SubSeq(p, 1, l) \in DOMAIN r /\ SubSeq(p, 1, l) # Root
      <4>1. Routed(r, path) = {l \in 1 .. Len(path) : Has(path, l)}
        BY DEF Routed
      <4>2. Routed(r, Front(path)) = {l \in 1 .. n : Has(Front(path), l)}
        BY <2>3, <2>5 DEF Routed
      <4>3. \A l \in 1 .. n : Has(Front(path), l) <=> Has(path, l)
        BY <3>1
      <4> HIDE DEF Has
      <4>4. \A l \in Routed(r, path) : l \in Routed(r, Front(path))
        <5> TAKE l \in Routed(r, path)
        <5>1. l \in 1 .. n /\ Has(path, l)
          BY <2>1, <4>1
        <5> QED BY <4>2, <4>3, <5>1
      <4>5. \A l \in Routed(r, Front(path)) : l \in Routed(r, path)
        BY <2>2, <2>3, <2>5, <4>1, <4>2, <4>3
      <4> QED BY <4>4, <4>5
    <3>3. CASE Routed(r, path) = {}
      BY <2>3, <2>5, <3>2, <3>3 DEF Nearest
    <3>4. CASE Routed(r, path) # {}
      <4> DEFINE max == Max(Routed(r, path))
      <4>1. max \in Routed(r, path)
        BY <1>1, <1>2, <3>4, LastOne
      <4>2. SubSeq(Front(path), 1, max) = SubSeq(path, 1, max)
        <5> HIDE DEF max
        <5> QED BY <2>1, <3>1, <4>1
      <4> QED BY <2>3, <2>5, <3>2, <3>4, <4>2 DEF Nearest
    <3> QED BY <3>3, <3>4
  <2> QED BY <2>4, <2>5
<1> QED BY <1>3, <1>4

(* The climb from a target towards "/" ends at the nearest route. *)
LEMMA MatchIsNearest ==
    ASSUME NEW r, DOMAIN r \subseteq Paths, NEW target \in Targeted
    PROVE  Match(r, target) = Nearest(r, target)
<1> DEFINE Step(f) == [path \in Targeted |->
                         IF path \in DOMAIN r THEN {r[path]}
                         ELSE IF path = Root THEN {} ELSE f[Parent(path)]]
           nearest == [path \in Targeted |-> Nearest(r, path)]
           f == CHOOSE g : g = Step(g)
           Depth(path) == IF path = Root THEN 0 ELSE Len(path) + 1
<1>1. Nearest(r, Root) = AtRoot(r)
  BY NothingAboveRoot DEF Nearest
<1>2. nearest = Step(nearest)
  <2>1. ASSUME NEW path \in Targeted PROVE nearest[path] = Step(nearest)[path]
    <3>1. CASE path = Root
      <4>1. nearest[path] = AtRoot(r)
        BY <1>1, <3>1
      <4> HIDE DEF nearest
      <4> QED BY <3>1, <4>1 DEF AtRoot
    <3>2. CASE path # Root
      <4>1. /\ Parent(path) \in Targeted
            /\ path \in DOMAIN r => Nearest(r, path) = {r[path]}
            /\ path \notin DOMAIN r => Nearest(r, path) = Nearest(r, Parent(path))
        BY <3>2, ParentIsAbove, ParentIsNearer
      <4>2. nearest[path] = Nearest(r, path) /\ nearest[Parent(path)] = Nearest(r, Parent(path))
        BY <4>1
      <4> HIDE DEF nearest
      <4> QED BY <3>2, <4>1, <4>2
    <3> QED BY <3>1, <3>2
  <2>2. nearest = [path \in Targeted |-> nearest[path]]
    OBVIOUS
  <2> HIDE DEF nearest
  <2> QED BY <2>1, <2>2
<1>3. f = Step(f)
  BY <1>2
<1>4. Match(r, target) = f[target]
  BY DEF Match, Targeted
<1> HIDE DEF f
<1>5. \A path \in Targeted : Depth(path) \in Nat
  BY LenProperties DEF Targeted
<1>6. \A path \in Targeted : f[path] = nearest[path]
  <2> DEFINE Bad == {n \in Nat : \E path \in Targeted : Depth(path) = n /\ f[path] # nearest[path]}
  <2>1. CASE Bad = {}
    BY <1>5, <2>1
  <2>2. CASE Bad # {}
    <3>1. PICK n \in Bad : \A m \in Bad : n <= m
      <4>1. Bad \in SUBSET Nat
        OBVIOUS
      <4> HIDE DEF Bad
      <4> QED BY <2>2, <4>1, LeastNatural
    <3>2. PICK path \in Targeted : Depth(path) = n /\ f[path] # nearest[path]
      BY <3>1
    <3>3. f[path] = Step(f)[path] /\ nearest[path] = Step(nearest)[path]
      BY <1>2, <1>3
    <3>4. path # Root => f[Parent(path)] = nearest[Parent(path)]
      <4> SUFFICES ASSUME path # Root PROVE f[Parent(path)] = nearest[Parent(path)]
        OBVIOUS
      <4>1. Parent(path) \in Targeted /\ (Parent(path) = Root \/ Len(Parent(path)) < Len(path))
        BY ParentIsAbove
      <4>2. Depth(Parent(path)) \in Nat /\ n \in Nat /\ ~(n <= Depth(Parent(path)))
        <5>1. Len(path) \in Nat /\ Len(Parent(path)) \in Nat
          BY <4>1, LenProperties DEF Targeted
        <5> QED BY <3>2, <4>1, <5>1
      <4>3. Depth(Parent(path)) \notin Bad
        BY <3>1, <4>2
      <4> HIDE DEF Depth, nearest
      <4> QED BY <4>1, <4>2, <4>3
    <3> HIDE DEF nearest, Bad
    <3>5. Step(f)[path] = Step(nearest)[path]
      BY <3>4
    <3> QED BY <3>2, <3>3, <3>5
  <2> QED BY <2>1, <2>2
<1> QED BY <1>4, <1>6

------------------------------------------------------------------------------
(* From a configuration to the handlers.                                   *)

(* What MapConfig makes of a configuration that validateConfig has let through. *)
LEMMA MapOfValid ==
    ASSUME NEW c, c.locations \in Seq(LocationStatements), ValidateConfig(c)
    PROVE  /\ \A i \in DOMAIN c.locations :
                 /\ c.locations[i].path \in Paths
                 /\ c.locations[i].type \in HandlerTypes
           /\ DOMAIN MapConfig(c) = {c.locations[i].path : i \in DOMAIN c.locations}
           /\ \A path \in DOMAIN MapConfig(c) :
                 MapConfig(c)[path] =
                     c.locations[Max({i \in DOMAIN c.locations : c.locations[i].path = path})]
           /\ DOMAIN MapConfig(c) \subseteq Paths
<1> DEFINE L == c.locations
<1>1. \A i \in DOMAIN L : L[i] \in LocationStatements
  BY LenProperties, ElementOfSeq
<1>2. \A i \in DOMAIN L : L[i].path \in Paths
  BY <1>1, StartupAssumption DEF Paths
<1>3. \A i \in DOMAIN L : L[i].whole /\ L[i].type \in HandlerTypes
  BY DEF ValidateConfig
<1>4. DispatcherEntries(c) = DOMAIN L
  BY <1>3 DEF DispatcherEntries
<1>5. MapConfig(c) = [path \in {L[i].path : i \in DOMAIN L} |->
                         L[Max({i \in DOMAIN L : L[i].path = path})]]
  BY <1>4 DEF MapConfig
<1> HIDE DEF L
<1>6. /\ DOMAIN MapConfig(c) = {L[i].path : i \in DOMAIN L}
      /\ \A path \in DOMAIN MapConfig(c) :
            MapConfig(c)[path] = L[Max({i \in DOMAIN L : L[i].path = path})]
  BY <1>5
<1>7. DOMAIN MapConfig(c) \subseteq Paths
  BY <1>2, <1>6
<1> QED BY <1>2, <1>3, <1>6, <1>7 DEF L

(* The nearest route leads to the location that the file means. *)
LEMMA MeantIsNearest ==
    ASSUME NEW c, c.locations \in Seq(LocationStatements), ValidateConfig(c),
           NEW target \in Targeted
    PROVE  Meant(c, target) = Nearest(MapConfig(c), target)
<1> DEFINE L == c.locations
           Path(i) == L[i].path
           r == MapConfig(c)
           Having(path) == {i \in DOMAIN L : Path(i) = path}
           here == {i \in DOMAIN L : Path(i) \in Above(target)}
           below == {i \in here : Path(i) # Root \/ target = Root}
           longest == {i \in below : \A j \in below : Len(Path(j)) <= Len(Path(i))}
           near == SubSeq(target, 1, Max(Routed(r, target)))
<1>1. \A i \in DOMAIN L : Path(i) \in Paths
  BY MapOfValid
<1>2. /\ DOMAIN r = {Path(i) : i \in DOMAIN L}
      /\ \A path \in DOMAIN r : r[path] = L[Max(Having(path))]
      /\ DOMAIN r \subseteq Paths
  BY MapOfValid
<1>3. Meant(c, target) = IF here = {} THEN {} ELSE {L[Max(IF below = {} THEN here ELSE longest)]}
  BY DEF Meant
<1>4. Nearest(r, target) = IF Routed(r, target) = {} THEN AtRoot(r) ELSE {r[near]}
  BY DEF Nearest
<1>5. Len(target) \in Nat
  BY LenProperties DEF Targeted
<1> HIDE DEF L, r
<1>6. \A path \in Paths :
         path \in Above(target) <=>
             path = Root \/ \E l \in 1 .. Len(target) : path = SubSeq(target, 1, l)
  <2> SUFFICES ASSUME NEW path \in Paths
               PROVE  path \in Above(target) <=>
                          path = Root \/ \E l \in 1 .. Len(target) : path = SubSeq(target, 1, l)
    OBVIOUS
  <2>1. path \in Above(target) <=>
            path = Root \/ \E l \in 0 .. Len(target) : path = SubSeq(target, 1, l)
    BY DEF Above, Prefixes, Paths
  <2>2. SubSeq(target, 1, 0) = <<>>
    BY SubSeqEmpty
  <2>3. \A l \in 0 .. Len(target) : l = 0 \/ l \in 1 .. Len(target)
    BY <1>5
  <2>4. \A l \in 1 .. Len(target) : l \in 0 .. Len(target)
    BY <1>5
  <2>5. path # <<>>
    BY DEF Paths
  <2> QED BY <2>1, <2>2, <2>3, <2>4, <2>5
<1>7. AtRoot(r) = IF Having(Root) = {} THEN {} ELSE {L[Max(Having(Root))]}
  <2>1. Root \in DOMAIN r <=> Having(Root) # {}
    BY <1>2
  <2> QED BY <1>2, <2>1 DEF AtRoot
<1>8. CASE target = Root
  <2>1. Routed(r, target) = {}
    BY <1>2, <1>8, NothingAboveRoot
  <2>2. \A i \in DOMAIN L : Path(i) \in Above(target) <=> Path(i) = Root
    <3> TAKE i \in DOMAIN L
    <3>1. SubSeq(target, 1, 1) = <<"">> /\ SubSeq(target, 1, 2) = Root /\ Len(target) = 2
      BY <1>8, RootParts
    <3>2. \A l \in 1 .. Len(target) : l = 1 \/ l = 2
      <4>1. \A l \in 1 .. 2 : l = 1 \/ l = 2
        OBVIOUS
      <4> QED BY <3>1, <4>1, Zenon
    <3>3. \A l \in 1 .. Len(target) : SubSeq(target, 1, l) \in {<<"">>, Root}
      BY <3>1, <3>2
    <3>4. Path(i) \in Paths /\ Path(i) # <<"">>
      BY <1>1 DEF Paths
    <3> HIDE DEF Path
    <3> QED BY <1>6, <3>3, <3>4
  <2>3. here = Having(Root) /\ below = here
    BY <1>8, <2>2
  <2>4. longest = here
    <3>1. Len(Root) <= Len(Root)
      <4>1. Len(Root) = 2
        BY RootParts
      <4>2. 2 <= 2
        OBVIOUS
      <4> QED BY <4>1, <4>2, Zenon
    <3> QED BY <2>3, <3>1
  <2>5. Meant(c, target) = AtRoot(r)
    <3> HIDE DEF here, below, longest, Having
    <3> QED BY <1>3, <1>7, <2>3, <2>4
  <2> QED BY <1>4, <2>1, <2>5 DEF r
<1>9. CASE target # Root
  <2>1. \A i \in DOMAIN L :
           i \in below <=> \E l \in Routed(r, target) : Path(i) = SubSeq(target, 1, l)
    <3> TAKE i \in DOMAIN L
    <3>1. Path(i) \in DOMAIN r /\ Path(i) \in Paths
      BY <1>1, <1>2
    <3>2. i \in below <=> Path(i) \in Above(target) /\ Path(i) # Root
      BY <1>9
    <3>3. i \in below <=> /\ Path(i) # Root
                          /\ \E l \in 1 .. Len(target) : Path(i) = SubSeq(target, 1, l)
      <4> HIDE DEF below, Path
      <4> QED BY <1>6, <3>1, <3>2
    <3> HIDE DEF below, Path
    <3> QED BY <3>1, <3>3 DEF Routed
  <2>2. CASE Routed(r, target) = {}
    <3>1. below = {}
      <4>1. below \subseteq DOMAIN L
        OBVIOUS
      <4> HIDE DEF below
      <4> QED BY <2>1, <2>2, <4>1
    <3>2. \A i \in DOMAIN L : Path(i) \in Above(target) <=> Path(i) = Root
      <4> TAKE i \in DOMAIN L
      <4>1. Root \in Above(target)
        BY DEF Above
      <4>2. Path(i) \in Above(target) => Path(i) = Root
        BY <3>1
      <4> QED BY <4>1, <4>2
    <3>3. here = Having(Root)
      BY <3>2
    <3> HIDE DEF here, below, longest, Having
    <3>4. Meant(c, target) = AtRoot(r)
      BY <1>3, <1>7, <3>1, <3>3
    <3> QED BY <1>4, <2>2, <3>4 DEF r
  <2>3. CASE Routed(r, target) # {}
    <3> DEFINE max == Max(Routed(r, target))
    <3>1. max \in Routed(r, target) /\ \A l \in Routed(r, target) : l <= max
      <4>1. Routed(r, target) \in SUBSET (1 .. Len(target))
        BY DEF Routed
      <4> QED BY <1>5, <2>3, <4>1, LastOne
    <3>2. \A l \in Routed(r, target) : l \in Nat /\ Len(SubSeq(target, 1, l)) = l
      <4> TAKE l \in Routed(r, target)
      <4>1. l \in 1 .. Len(target)
        BY DEF Routed
      <4>2. l \in Nat /\ l \in 0 .. Len(target)
        BY <1>5, <4>1
      <4> QED BY <4>2, PrefixOf
    <3>3. near \in DOMAIN r
      BY <3>1 DEF Routed
    <3>4. PICK k \in DOMAIN L : Path(k) = near
      BY <1>2, <3>3
    <3>5. Len(near) = max /\ max \in Nat
      BY <3>1, <3>2
    <3>6. k \in below
      BY <2>1, <3>1, <3>4
    <3>7. \A j \in below : Len(Path(j)) <= max /\ (max <= Len(Path(j)) => Path(j) = near)
      <4> TAKE j \in below
      <4>1. j \in DOMAIN L
        OBVIOUS
      <4>2. PICK l \in Routed(r, target) : Path(j) = SubSeq(target, 1, l)
        BY <2>1, <4>1
      <4>3. Len(Path(j)) = l /\ l \in Nat /\ l <= max
        BY <3>1, <3>2, <4>2
      <4>4. max <= l => l = max
        <5> HIDE DEF max
        <5> QED BY <3>5, <4>3
      <4> QED BY <4>2, <4>3, <4>4
    <3>8. longest = Having(near)
      <4>1. \A i \in longest : i \in Having(near)
        <5> TAKE i \in longest
        <5>1. i \in DOMAIN L /\ i \in below /\ Len(Path(k)) <= Len(Path(i))
          BY <3>6
        <5> HIDE DEF below
        <5>2. Path(i) = near
          <6> HIDE DEF near, max, Path
          <6> QED BY <3>4, <3>5, <3>7, <5>1
        <5> QED BY <5>1, <5>2
      <4>2. \A i \in Having(near) : i \in longest
        <5> TAKE i \in Having(near)
        <5>1. i \in DOMAIN L /\ Path(i) = near
          OBVIOUS
        <5>2. i \in below
          BY <2>1, <3>1, <5>1
        <5>3. \A j \in below : Len(Path(j)) <= Len(Path(i))
          <6> HIDE DEF near, max, below, Path
          <6> QED BY <3>5, <3>7, <5>1
        <5> QED BY <5>2, <5>3
      <4> HIDE DEF longest, Having, near
      <4>3. longest \subseteq Having(near) /\ Having(near) \subseteq longest
        BY <4>1, <4>2
      <4> QED BY <4>3
    <3>9. here # {} /\ below # {}
      BY <3>6
    <3> HIDE DEF here, below, longest, Having, near, max
    <3>10. Meant(c, target) = {L[Max(Having(near))]}
      BY <1>3, <3>8, <3>9
    <3>11. Nearest(r, target) = {L[Max(Having(near))]}
      BY <1>2, <1>4, <2>3, <3>3
    <3> QED BY <3>10, <3>11 DEF r
  <2> QED BY <2>2, <2>3
<1> QED BY <1>8, <1>9

(* What a server that serves has been configured with. *)
Configured ==
    /\ config.locations \in Seq(LocationStatements)
    /\ stage = "serving" => ValidateConfig(config) /\ routes = MapConfig(config)

LEMMA ConfiguredInductive ==
    /\ StartupInit => Configured
    /\ Configured /\ [StartupNext]_startupVars => Configured'
<1>1. StartupInit => Configured
  <2> SUFFICES ASSUME StartupInit PROVE Configured
    OBVIOUS
  <2>1. config.locations = <<>> /\ stage = "off"
    BY DEF StartupInit, Off
  <2> QED BY <2>1, EmptySeq DEF Configured
<1>2. ASSUME Configured, [StartupNext]_startupVars PROVE Configured'
  <2>1. ASSUME NEW s \in LocationStatements, Locate(s) PROVE Configured'
    <3>1. /\ stage' = "off"
          /\ config' = [config EXCEPT !.locations = Append(config.locations, s)]
      BY <2>1 DEF Locate
    <3>2. Append(config.locations, s) \in Seq(LocationStatements)
      BY <1>2, AppendProperties DEF Configured
    <3> QED BY <1>2, <3>1, <3>2 DEF Configured
  <2>2. ASSUME NEW available \in BOOLEAN, Main(available) PROVE Configured'
    <3>1. CASE Run /\ ValidateConfig(config)
      BY <1>2, <3>1 DEF Run, Configured
    <3>2. CASE Refuse
      BY <1>2, <3>2 DEF Refuse, Configured
    <3> QED BY <2>2, <3>1, <3>2 DEF Main
  <2>3. CASE UNCHANGED startupVars
    BY <1>2, <2>3 DEF Configured, startupVars
  <2> QED BY <1>2, <2>1, <2>2, <2>3 DEF StartupNext
<1> QED BY <1>1, <1>2

(* In a server that serves, the route of a target is the location meant. *)
LEMMA RouteOfConfigured ==
    ASSUME Configured, stage = "serving", NEW target \in Targeted
    PROVE  Match(routes, target) = Meant(config, target)
BY MatchIsNearest, MeantIsNearest, MapOfValid DEF Configured

(* Whatever statements a file is made of, and whatever is asked for, a server
   that serves hands a request to the location that its file means
   (RequestsFindTheirLocation in Startup, of validateConfig,
   map_config_to_handler_factory and Dispatcher::match). *)
THEOREM RequestsAreRouted == StartupSpec => []RequestsFindTheirLocation
<1>1. ASSUME Configured PROVE RequestsFindTheirLocation
  <2>1. Targets \subseteq Targeted
    <3> SUFFICES ASSUME NEW target \in Targets PROVE target \in Targeted
      OBVIOUS
    <3>1. PICK n \in 0 .. MaxSegments : target \in [1 .. n -> Segments]
      BY DEF Targets, SeqOf
    <3>2. MaxSegments \in Nat /\ Segments \subseteq Texts
      BY StartupAssumption
    <3>3. n \in Nat
      BY <3>2
    <3>4. target \in [1 .. n -> Texts]
      BY <3>1, <3>2
    <3> QED BY <3>3, <3>4, SeqDef DEF Targeted
  <2> QED BY <1>1, <2>1, RouteOfConfigured DEF RequestsFindTheirLocation
<1> QED BY <1>1, ConfiguredInductive, PTL DEF StartupSpec

------------------------------------------------------------------------------
(* The answers of a connection.                                            *)

(* A response with these parts. *)
Res(result, body, length) == [result |-> result, body |-> body, length |-> length]

(* What a handler may leave: nothing, or the body made for this request, and
   the Content-Length of it. *)
Fits(r) == \E result : r = Res(result, 0, 0) \/ r = Res(result, answered', answered')

LEMMA Calls ==
    ASSUME NEW x, NEW y, NEW b, NEW l
    PROVE  /\ Result(Res(x, b, l), y) = Res(y, b, l)
           /\ Cleared(Res(x, b, l)) = Res(x, b, NoLength)
           /\ Prepared(Res(x, b, l)) = Res(x, b, b)
           /\ Body(Res(x, b, l), y) = Res(y, answered', l)
           /\ Whole(Res(x, b, l), y) = Res(y, answered', answered')
<1>1. \A k : Result(Res(x, b, k), y) = Res(y, b, k)
  BY DEF Res, Result
<1>2. Cleared(Res(x, b, l)) = Res(x, b, NoLength)
  BY DEF Res, Cleared
<1>3. \A k, z : Prepared(Res(z, k, l)) = Res(z, k, k)
  BY DEF Res, Prepared
<1>4. Body(Res(x, b, l), y) = Res(y, answered', l)
  <2>1. Body(Res(x, b, l), y) = [Res(y, b, l) EXCEPT !.body = answered']
    BY <1>1 DEF Body
  <2> QED BY <2>1 DEF Res
<1>5. Whole(Res(x, b, l), y) = Res(y, answered', answered')
  BY <1>3, <1>4 DEF Whole
<1> QED BY <1>1, <1>2, <1>3, <1>4, <1>5

LEMMA FitsAnyResult ==
    ASSUME NEW r, NEW y, Fits(r)
    PROVE  Fits(Result(r, y))
<1>1. PICK x : r = Res(x, 0, 0) \/ r = Res(x, answered', answered')
  BY DEF Fits
<1>2. Result(r, y) = Res(y, 0, 0) \/ Result(r, y) = Res(y, answered', answered')
  BY <1>1, Calls
<1> QED BY <1>2 DEF Fits

LEMMA AnswersAre ==
    ASSUME NEW R, NEW a \in Answers(R)
    PROVE  a.response \in R
BY DEF Answers

(* Every branch of the CRUD API's handler, on a response that was reset. *)
LEMMA CrudFits ==
    ASSUME NEW x, NEW method, NEW n, NEW a \in Crud(Res(x, 0, NoLength), method, n)
    PROVE  Fits(a.response)
<1> DEFINE r == Res(x, 0, NoLength)
           cleared == Cleared(r)
           say(results) == {Result(cleared, result) : result \in results}
           tell(results) == {Body(cleared, result) : result \in results}
           done(responses) == Answers({Prepared(s) : s \in responses})
           failed == [response |-> Prepared(Result(cleared, "500")), true |-> FALSE]
<1>1. cleared = r
  BY Calls
<1>2. ASSUME NEW results, NEW s \in say(results) PROVE Fits(Prepared(s))
  <2>1. PICK result \in results : s = Result(cleared, result)
    OBVIOUS
  <2>2. s = Res(result, 0, NoLength)
    BY <1>1, <2>1, Calls
  <2>3. Prepared(s) = Res(result, 0, 0)
    BY <2>2, Calls
  <2> QED BY <2>3 DEF Fits
<1>3. ASSUME NEW results, NEW s \in tell(results) PROVE Fits(Prepared(s))
  <2>1. PICK result \in results : s = Body(cleared, result)
    OBVIOUS
  <2>2. s = Res(result, answered', NoLength)
    BY <1>1, <2>1, Calls
  <2>3. Prepared(s) = Res(result, answered', answered')
    BY <2>2, Calls
  <2> QED BY <2>3 DEF Fits
<1>4. Fits(failed.response)
  <2>1. failed.response = Prepared(Result(cleared, "500"))
    OBVIOUS
  <2>2. Result(cleared, "500") = Res("500", 0, NoLength)
    BY <1>1, Calls
  <2>3. failed.response = Res("500", 0, 0)
    BY <2>1, <2>2, Calls
  <2> QED BY <2>3 DEF Fits
<1>5. PICK one, two :
         a = failed \/ a \in done(say(one)) \/ a \in done(tell(two)) \/ a \in done(tell(two) \cup say(one))
  <2> DEFINE Branch(one, two) ==
        \/ a = failed \/ a \in done(say(one)) \/ a \in done(tell(two))
        \/ a \in done(tell(two) \cup say(one))
  <2>1. a \in CASE method = "get" -> done(IF n \in {1, 2} THEN tell({"200"}) \cup say({"404"})
                                          ELSE tell({"400"}))
                [] method = "post" -> IF n = 1 THEN done(tell({"200"})) \cup {failed}
                                      ELSE done(say({"400"}))
                [] method = "put" -> done(say(IF n = 2 THEN {"200", "404", "500"} ELSE {"400"}))
                [] method = "delete" -> done(say(IF n = 2 THEN {"204", "404", "500"} ELSE {"400"}))
                [] OTHER -> done(tell({"501"}))
    BY DEF Crud
  <2> HIDE DEF say, tell, done, failed
  <2>2. CASE method = "get"
    BY <2>1, <2>2
  <2>3. CASE method = "post"
    BY <2>1, <2>3
  <2>4. CASE method = "put"
    BY <2>1, <2>4
  <2>5. CASE method = "delete"
    BY <2>1, <2>5
  <2>6. CASE method \notin {"get", "post", "put", "delete"}
    BY <2>1, <2>6
  <2> QED BY <2>2, <2>3, <2>4, <2>5, <2>6
<1>6. ASSUME NEW S, a \in done(S), \A s \in S : Fits(Prepared(s)) PROVE Fits(a.response)
  <2>1. a.response \in {Prepared(s) : s \in S}
    BY <1>6, AnswersAre
  <2> QED BY <1>6, <2>1
<1> HIDE DEF say, tell, done, failed
<1>7. CASE a = failed
  BY <1>4, <1>7
<1>8. CASE a \in done(say(one))
  BY <1>2, <1>6, <1>8
<1>9. CASE a \in done(tell(two))
  BY <1>3, <1>6, <1>9
<1>10. CASE a \in done(tell(two) \cup say(one))
  BY <1>2, <1>3, <1>6, <1>10
<1> QED BY <1>5, <1>7, <1>8, <1>9, <1>10

(* Every branch of the score handler. *)
LEMMA ScoreFits ==
    ASSUME NEW x, NEW method, NEW tokens, NEW a \in Score(Res(x, 0, NoLength), method, tokens)
    PROVE  Fits(a.response)
<1> DEFINE r == Res(x, 0, NoLength)
           cleared == Cleared(r)
           posted == {Whole(cleared, "400"), Whole(cleared, "500"),
                      Prepared(Result(cleared, "200"))}
           shown == {Whole(cleared, "500"), Whole(cleared, "200")}
<1>1. cleared = r
  BY Calls
<1>2. \A y : Fits(Whole(r, y)) /\ Fits(Prepared(Result(r, y)))
  <2> TAKE y
  <2>1. Whole(r, y) = Res(y, answered', answered') /\ Result(r, y) = Res(y, 0, NoLength)
    BY Calls
  <2>2. Prepared(Result(r, y)) = Res(y, 0, 0)
    BY <2>1, Calls
  <2> QED BY <2>1, <2>2 DEF Fits
<1>3. \A q \in BadRequest(r) : q.response = Whole(r, "400")
  BY DEF BadRequest
<1>4. a \in BadRequest(r) \/ a \in Answers(posted) \/ a \in Answers(shown)
  <2>1. a \in CASE Len(tokens) # 1 -> BadRequest(r)
                [] tokens = <<"newscore">> /\ method = "post" -> Answers(posted)
                [] tokens = <<"scoreboard">> /\ method = "get" -> Answers(shown)
                [] OTHER -> BadRequest(cleared)
    BY DEF Score
  <2> HIDE DEF posted, shown, cleared
  <2> DEFINE newscore == tokens = <<"newscore">> /\ method = "post"
             scoreboard == tokens = <<"scoreboard">> /\ method = "get"
             one == Len(tokens) = 1
  <2>2. a \in CASE ~one -> BadRequest(r)
                [] newscore -> Answers(posted)
                [] scoreboard -> Answers(shown)
                [] OTHER -> BadRequest(cleared)
    BY <2>1
  <2> HIDE DEF newscore, scoreboard, one
  <2> QED BY <1>1, <2>2
<1>5. \A s \in posted \cup shown : Fits(s)
  BY <1>1, <1>2
<1> HIDE DEF posted, shown, r
<1>6. CASE a \in BadRequest(r)
  BY <1>2, <1>3, <1>6
<1>7. CASE a \in Answers(posted)
  BY <1>5, <1>7, AnswersAre
<1>8. CASE a \in Answers(shown)
  BY <1>5, <1>8, AnswersAre
<1> QED BY <1>4, <1>6, <1>7, <1>8

(* Every handler there is. *)
LEMMA HandleFits ==
    ASSUME NEW x, NEW location, location.type \in HandlerTypes, NEW req,
           NEW a \in Handle(location, req, Res(x, 0, NoLength))
    PROVE  Fits(a.response)
<1> DEFINE r == Res(x, 0, NoLength)
           tokens == ParseURL(Below(location.path, req.target))
           type == location.type
           found == Answers({Whole(r, "200"), Whole(r, "403"), Whole(r, "404")})
           missing == Answers({Whole(r, "404")})
           fine == Answers({Whole(r, "200")})
<1>1. a \in CASE type = "Static" -> found
              [] type = "NotFound" -> missing
              [] type \in {"Echo", "Health", "Block"} -> fine
              [] type = "CRUDApi" -> Crud(r, req.method, Len(tokens))
              [] type = "Score" -> Score(r, req.method, tokens)
  BY DEF Handle
<1>2. a \in found \/ a \in missing \/ a \in fine
      \/ a \in Crud(r, req.method, Len(tokens)) \/ a \in Score(r, req.method, tokens)
  <2> HIDE DEF found, missing, fine, r, tokens
  <2>1. type \in {"Echo", "Static", "NotFound", "CRUDApi", "Health", "Block", "Score"}
    BY DEF HandlerTypes
  <2>2. CASE type = "Static"
    BY <1>1, <2>2
  <2>3. CASE type = "NotFound"
    BY <1>1, <2>3
  <2>4. CASE type \in {"Echo", "Health", "Block"}
    BY <1>1, <2>4
  <2>5. CASE type = "CRUDApi"
    BY <1>1, <2>5
  <2>6. CASE type = "Score"
    BY <1>1, <2>6
  <2> QED BY <2>1, <2>2, <2>3, <2>4, <2>5, <2>6
<1>3. \A y : Fits(Whole(r, y))
  BY Calls DEF Fits
<1>4. CASE a \in found \/ a \in missing \/ a \in fine
  <2>1. a.response \in {Whole(r, "200"), Whole(r, "403"), Whole(r, "404")}
    BY <1>4, AnswersAre
  <2> HIDE DEF r
  <2> QED BY <1>3, <2>1
<1>5. CASE a \in Crud(r, req.method, Len(tokens))
  BY <1>5, CrudFits
<1>6. CASE a \in Score(r, req.method, tokens)
  BY <1>6, ScoreFits
<1> QED BY <1>2, <1>4, <1>5, <1>6

(* A location that a server that serves finds has a handler. *)
LEMMA FoundHasHandler ==
    ASSUME Configured, stage = "serving", NEW target \in Targeted,
           NEW location \in Match(routes, target)
    PROVE  location.type \in HandlerTypes
<1> DEFINE L == config.locations
           Path(i) == L[i].path
           here == {i \in DOMAIN L : Path(i) \in Above(target)}
           below == {i \in here : Path(i) # Root \/ target = Root}
           longest == {i \in below : \A j \in below : Len(Path(j)) <= Len(Path(i))}
           r == MapConfig(config)
<1>1. L \in Seq(LocationStatements) /\ ValidateConfig(config) /\ routes = r
  BY DEF Configured
<1>2. /\ \A i \in DOMAIN L : L[i].type \in HandlerTypes
      /\ DOMAIN r = {L[i].path : i \in DOMAIN L} /\ DOMAIN r \subseteq Paths
      /\ \A path \in DOMAIN r : r[path] = L[Max({i \in DOMAIN L : L[i].path = path})]
  BY <1>1, MapOfValid
<1> HIDE DEF r
<1>3. location \in Nearest(r, target)
  BY <1>1, <1>2, MatchIsNearest
<1>4. PICK path \in DOMAIN r : location = r[path]
  <2>1. CASE Routed(r, target) = {}
    BY <1>3, <2>1 DEF Nearest, AtRoot
  <2>2. CASE Routed(r, target) # {}
    <3>1. Max(Routed(r, target)) \in Routed(r, target)
      <4>1. Len(target) \in Nat /\ Routed(r, target) \in SUBSET (1 .. Len(target))
        BY LenProperties DEF Targeted, Routed
      <4> QED BY <2>2, <4>1, LastOne
    <3> QED BY <1>3, <2>2, <3>1 DEF Nearest, Routed
  <2> QED BY <2>1, <2>2
<1>5. PICK i \in DOMAIN L : location = L[i]
  <2> DEFINE having == {i \in DOMAIN L : L[i].path = path}
  <2>1. having # {} /\ having \in SUBSET (1 .. Len(L)) /\ Len(L) \in Nat
    BY <1>1, <1>2, LenProperties
  <2>2. Max(having) \in having
    <3> HIDE DEF having
    <3> QED BY <2>1, LastOne
  <2>3. location = L[Max(having)]
    BY <1>2, <1>4
  <2> QED BY <2>2, <2>3
<1> QED BY <1>2, <1>5

(* The one response of the connection: as it was made while nothing is answered,
   and what was written for the request while one is. *)
Clean ==
    /\ request = {} \/ \E req \in Requests : request = {req}
    /\ request # {} => stage = "serving"
    /\ request = {} => \E result : response = Res(result, 0, NoLength)
    /\ \A req \in request :
          IF Match(routes, req.target) = {} THEN response = Res("500", 0, NoLength)
          ELSE \E result : response = Res(result, 0, 0) \/ response = Res(result, answered, answered)

LEMMA CleanAfterAnswer ==
    ASSUME Configured, Clean, NEW req \in Requests, Answer(req), UNCHANGED startupVars
    PROVE  Clean'
<1>1. /\ stage = "serving" /\ request = {} /\ request' = {req}
      /\ stage' = stage /\ routes' = routes
  BY DEF Answer, startupVars
<1>2. PICK x : response = Res(x, 0, NoLength)
  BY <1>1 DEF Clean
<1>3. PICK a \in AssignRequest(req, response) :
         response' = IF a.true THEN a.response ELSE Result(a.response, "500")
  BY DEF Answer
<1> DEFINE matched == Match(routes, req.target)
<1>4. matched' = matched
  BY <1>1 DEF Match
<1>5. CASE matched = {}
  <2>1. a = [response |-> response, true |-> FALSE]
    BY <1>3, <1>5 DEF AssignRequest
  <2>2. response' = Result(response, "500")
    BY <1>3, <2>1
  <2>3. response' = Res("500", 0, NoLength)
    BY <1>2, <2>2, Calls
  <2> HIDE DEF matched
  <2> QED BY <1>1, <1>4, <1>5, <2>3 DEF Clean, matched
<1>6. CASE matched # {}
  <2>1. PICK location \in matched : a \in Handle(location, req, response)
    BY <1>3, <1>6 DEF AssignRequest
  <2>2. location.type \in HandlerTypes
    BY <1>1, <2>1, FoundHasHandler, ResponsesAssumption DEF Targeted
  <2>3. Fits(a.response)
    BY <1>2, <2>1, <2>2, HandleFits
  <2>4. Fits(response')
    BY <1>3, <2>3, FitsAnyResult
  <2>5. \E result : response' = Res(result, 0, 0) \/ response' = Res(result, answered', answered')
    BY <2>4 DEF Fits
  <2> HIDE DEF matched
  <2> QED BY <1>1, <1>4, <1>6, <2>5 DEF Clean, matched
<1> QED BY <1>5, <1>6

LEMMA CleanInductive ==
    /\ ConnectionInit => Configured /\ Clean
    /\ Configured /\ Clean /\ [ConnectionNext]_<<startupVars, responseVars>>
          => Configured' /\ Clean'
<1>1. ConnectionInit => Configured /\ Clean
  <2> SUFFICES ASSUME ConnectionInit PROVE Configured /\ Clean
    OBVIOUS
  <2>1. Configured
    BY ConfiguredInductive DEF ConnectionInit
  <2>2. request = {} /\ response = Res("200", 0, NoLength)
    BY DEF ConnectionInit, ResponsesInit, Res
  <2> QED BY <2>1, <2>2 DEF Clean
<1>2. ASSUME Configured, Clean, [ConnectionNext]_<<startupVars, responseVars>>
      PROVE  Configured' /\ Clean'
  <2>1. CASE StartupNext /\ UNCHANGED responseVars
    <3>1. Configured'
      BY <1>2, <2>1, ConfiguredInductive
    <3>2. stage = "off"
      BY <2>1 DEF StartupNext, Locate, Main
    <3>3. request = {}
      BY <1>2, <3>2 DEF Clean
    <3>4. request' = {} /\ response' = response
      BY <2>1, <3>3 DEF responseVars
    <3> QED BY <1>2, <3>1, <3>3, <3>4 DEF Clean
  <2>2. ASSUME NEW req \in Requests, Answer(req), UNCHANGED startupVars
        PROVE  Configured' /\ Clean'
    <3>1. Configured'
      BY <1>2, <2>2, ConfiguredInductive
    <3> QED BY <1>2, <2>2, <3>1, CleanAfterAnswer
  <2>3. CASE Reset /\ UNCHANGED startupVars
    <3>1. Configured'
      BY <1>2, <2>3, ConfiguredInductive
    <3>2. request' = {}
      BY <2>3 DEF Reset
    <3>3. \E x, b, l : response = Res(x, b, l)
      BY <1>2, <2>3 DEF Clean, Reset
    <3>4. PICK x, b, l : response = Res(x, b, l)
      BY <3>3
    <3>5. response' = [Res(x, b, NoLength) EXCEPT !.body = 0]
      BY <2>3, <3>4, Calls DEF Reset
    <3>6. response' = Res(x, 0, NoLength)
      BY <3>5 DEF Res
    <3> QED BY <3>1, <3>2, <3>6 DEF Clean
  <2>4. CASE UNCHANGED <<startupVars, responseVars>>
    <3>1. Configured'
      BY <1>2, <2>4, ConfiguredInductive
    <3>2. /\ request' = request /\ response' = response /\ answered' = answered
          /\ stage' = stage /\ routes' = routes
      BY <2>4 DEF startupVars, responseVars
    <3>3. \A req \in request : Match(routes', req.target) = Match(routes, req.target)
      BY <3>2
    <3> QED BY <1>2, <3>1, <3>2, <3>3 DEF Clean
  <2> QED BY <1>2, <2>1, <2>2, <2>3, <2>4 DEF ConnectionNext, ResponsesNext
<1> QED BY <1>1, <1>2

(* Whatever a server is configured with, and whatever the requests of one
   connection ask for and come to, no answer has the body of an earlier one or
   a Content-Length that is not its own (ResponsesAreWhole in Responses, of the
   response_ that session::read_request, reset and all handlers share). *)
THEOREM AnswersStayWhole == ConnectionSpec => []ResponsesAreWhole
<1>1. ASSUME Clean PROVE ResponsesAreWhole
  <2> SUFFICES ASSUME NEW req \in request
               PROVE  IF Match(routes, req.target) = {}
                      THEN response = [result |-> "500", body |-> 0, length |-> NoLength]
                      ELSE response.length = response.body /\ response.body \in {0, answered}
    BY DEF ResponsesAreWhole
  <2> QED BY <1>1 DEF Clean, Res
<1> QED BY <1>1, CleanInductive, PTL DEF ConnectionSpec
==============================================================================
