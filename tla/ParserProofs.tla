------------------------------ MODULE ParserProofs -----------------------------
(***************************************************************************)
(* What Parse does with every sequence of tokens: the recursive grammar of *)
(* ConfigParser holds of a sequence exactly if each of its tokens may      *)
(* follow the one before it and its braces are balanced, which is what     *)
(* last_token_type and the height of config_stack tell the parser.         *)
(***************************************************************************)
EXTENDS Integers, ConfigParser, FiniteSetTheorems, SequenceTheorems, WellFoundedInduction, TLAPS

(* How often the token is among the first i, and how many blocks are open after them. *)
Count(s, i, token) == Cardinality({j \in 1 .. i : s[j] = token})
Height(s, i) == Count(s, i, "START_BLOCK") - Count(s, i, "END_BLOCK")

Lifts(token) == IF token = "START_BLOCK" THEN 1 ELSE IF token = "END_BLOCK" THEN -1 ELSE 0

(* Each token of s may follow the one before it. *)
Before(s, i) == IF i = 1 THEN "START" ELSE s[i - 1]
Follows(s) == \A i \in 1 .. Len(s) : MayFollow(s[i], Before(s, i))

(* The tokens that something may still be added to, and those that are a whole. *)
Open(s) == Follows(s) /\ \A i \in 0 .. Len(s) : Height(s, i) >= 0
Whole(s) ==
    /\ Open(s) /\ Height(s, Len(s)) = 0
    /\ Len(s) > 0 => s[Len(s)] \in {"STATEMENT_END", "END_BLOCK"}

(* What Whole says of the tokens of s behind the first a, up to the b-th. *)
WholePart(s, a, b) ==
    /\ a < b => MayFollow(s[a + 1], "START") /\ s[b] \in {"STATEMENT_END", "END_BLOCK"}
    /\ \A i \in a + 2 .. b : MayFollow(s[i], s[i - 1])
    /\ \A i \in a .. b : Height(s, i) >= Height(s, a)
    /\ Height(s, b) = Height(s, a)

------------------------------------------------------------------------------
(* Heights.                                                                *)

LEMMA LeastOne ==
    ASSUME NEW T \in SUBSET Nat, T # {}
    PROVE  \E n \in T : \A m \in T : n <= m
<1>1. IsWellFoundedOn(OpToRel(<, Nat), Nat)
  BY NatLessThanWellFounded
<1>2. PICK n \in T : \A m \in T : ~(<<m, n>> \in OpToRel(<, Nat))
  BY <1>1, WFMin
<1>3. \A m \in T : ~(m < n)
  BY <1>2 DEF OpToRel
<1> QED BY <1>3

LEMMA CountStep ==
    ASSUME NEW s, NEW i \in Nat, NEW token
    PROVE  /\ Count(s, i, token) \in 0 .. i
           /\ Count(s, i + 1, token) = Count(s, i, token) + (IF s[i + 1] = token THEN 1 ELSE 0)
<1> DEFINE T == {j \in 1 .. i : s[j] = token}
           U == {j \in 1 .. i + 1 : s[j] = token}
<1>1. IsFiniteSet(1 .. i) /\ Cardinality(1 .. i) = i
  BY FS_Interval
<1>2. IsFiniteSet(T) /\ Cardinality(T) <= i
  <2>1. T \in SUBSET (1 .. i)
    OBVIOUS
  <2> QED BY <1>1, <2>1, FS_Subset
<1>3. Cardinality(T) \in Nat
  BY <1>2, FS_CardinalityType
<1>4. U = IF s[i + 1] = token THEN T \cup {i + 1} ELSE T
  <2>1. \A j : j \in 1 .. i + 1 <=> j \in 1 .. i \/ j = i + 1
    OBVIOUS
  <2> QED BY <2>1
<1>5. i + 1 \notin T
  OBVIOUS
<1>6. Cardinality(U) = Cardinality(T) + (IF s[i + 1] = token THEN 1 ELSE 0)
  <2> HIDE DEF T, U
  <2>1. Cardinality(T \cup {i + 1}) = Cardinality(T) + 1
    BY <1>2, <1>5, FS_AddElement
  <2> QED BY <1>3, <1>4, <2>1
<1>7. Count(s, i, token) = Cardinality(T) /\ Count(s, i + 1, token) = Cardinality(U)
  BY DEF Count
<1> HIDE DEF T, U
<1> QED BY <1>2, <1>3, <1>6, <1>7

LEMMA HeightStep ==
    ASSUME NEW s
    PROVE  /\ Height(s, 0) = 0
           /\ \A i \in Nat : /\ Height(s, i) \in Int /\ Height(s, i) <= i
                             /\ Height(s, i + 1) = Height(s, i) + Lifts(s[i + 1])
<1>1. \A i \in Nat : /\ Count(s, i, "START_BLOCK") \in 0 .. i /\ Count(s, i, "END_BLOCK") \in 0 .. i
                     /\ Count(s, i + 1, "START_BLOCK")
                          = Count(s, i, "START_BLOCK") + (IF s[i + 1] = "START_BLOCK" THEN 1 ELSE 0)
                     /\ Count(s, i + 1, "END_BLOCK")
                          = Count(s, i, "END_BLOCK") + (IF s[i + 1] = "END_BLOCK" THEN 1 ELSE 0)
  BY CountStep
<1>2. Count(s, 0, "START_BLOCK") \in 0 .. 0 /\ Count(s, 0, "END_BLOCK") \in 0 .. 0
  BY <1>1
<1>3. Height(s, 0) = 0
  BY <1>2 DEF Height
<1>4. ASSUME NEW i \in Nat
      PROVE  /\ Height(s, i) \in Int /\ Height(s, i) <= i
             /\ Height(s, i + 1) = Height(s, i) + Lifts(s[i + 1])
  <2>1. i + 1 \in Nat
    OBVIOUS
  <2> QED BY <1>1, <1>4, <2>1 DEF Height, Lifts
<1> QED BY <1>3, <1>4

(* The same, looked at from the later token. *)
LEMMA HeightBefore ==
    ASSUME NEW s, NEW i \in Nat, i # 0
    PROVE  /\ Height(s, i) \in Int /\ Height(s, i - 1) \in Int
           /\ Height(s, i) = Height(s, i - 1) + Lifts(s[i])
           /\ Lifts(s[i]) \in {-1, 0, 1}
           /\ Lifts(s[i]) = 1 <=> s[i] = "START_BLOCK"
           /\ Lifts(s[i]) = -1 <=> s[i] = "END_BLOCK"
<1>1. i - 1 \in Nat /\ (i - 1) + 1 = i
  OBVIOUS
<1>2. Height(s, i) \in Int /\ Height(s, i - 1) \in Int
  BY <1>1, HeightStep
<1>3. Height(s, i) = Height(s, i - 1) + Lifts(s[i])
  BY <1>1, HeightStep
<1>4. /\ Lifts(s[i]) \in {-1, 0, 1}
      /\ Lifts(s[i]) = 1 <=> s[i] = "START_BLOCK"
      /\ Lifts(s[i]) = -1 <=> s[i] = "END_BLOCK"
  BY DEF Lifts
<1> QED BY <1>2, <1>3, <1>4

(* The same tokens move the height in the same way. *)
LEMMA HeightShift ==
    ASSUME NEW s, NEW t, NEW m \in Nat, NEW k \in Nat, \A j \in 1 .. k : t[j] = s[m + j]
    PROVE  \A j \in 0 .. k : Height(t, j) = Height(s, m + j) - Height(s, m)
<1> DEFINE Bad == {j \in 0 .. k : Height(t, j) # Height(s, m + j) - Height(s, m)}
<1>1. SUFFICES ASSUME Bad # {} PROVE FALSE
  OBVIOUS
<1>2. PICK j \in Bad : \A i \in Bad : j <= i
  <2>1. Bad \in SUBSET Nat
    OBVIOUS
  <2> HIDE DEF Bad
  <2> QED BY <1>1, <2>1, LeastOne
<1>3. CASE j = 0
  <2>1. Height(t, 0) = 0 /\ Height(s, m) \in Int /\ m + 0 = m
    BY HeightStep
  <2> QED BY <1>2, <1>3, <2>1
<1>4. CASE j # 0
  <2>1. j \in 1 .. k /\ j - 1 \in 0 .. k /\ m + j \in Nat /\ m + j # 0 /\ (m + j) - 1 = m + (j - 1)
    BY <1>4
  <2>2. Height(t, j - 1) = Height(s, m + (j - 1)) - Height(s, m)
    <3>1. j - 1 \notin Bad
      BY <1>2, <2>1
    <3> QED BY <2>1, <3>1
  <2>3. Height(t, j) = Height(t, j - 1) + Lifts(t[j])
    BY <2>1, HeightBefore
  <2>4. Height(s, m + j) = Height(s, m + (j - 1)) + Lifts(s[m + j])
    BY <2>1, HeightBefore
  <2>5. Lifts(s[m + j]) \in Int /\ Height(s, m + (j - 1)) \in Int /\ Height(s, m) \in Int
    <3>1. Lifts(s[m + j]) \in Int
      BY DEF Lifts
    <3> QED BY <2>1, <3>1, HeightBefore, HeightStep
  <2>6. t[j] = s[m + j]
    BY <2>1
  <2>7. Height(t, j) = Height(s, m + j) - Height(s, m)
    BY <2>2, <2>3, <2>4, <2>5, <2>6
  <2> QED BY <1>2, <2>7
<1> QED BY <1>3, <1>4

(* Words and semicolons leave the height alone, *)
LEMMA HeightFlat ==
    ASSUME NEW s, NEW lo \in Nat, NEW hi \in Nat, \A i \in lo + 1 .. hi : s[i] \in {"NORMAL", "STATEMENT_END"}
    PROVE  \A i \in lo .. hi : Height(s, i) = Height(s, lo)
<1> DEFINE Bad == {i \in Nat : lo <= i /\ i <= hi /\ Height(s, i) # Height(s, lo)}
<1>1. SUFFICES ASSUME Bad # {} PROVE FALSE
  OBVIOUS
<1>2. PICK i \in Bad : \A j \in Bad : i <= j
  <2>1. Bad \in SUBSET Nat
    OBVIOUS
  <2> HIDE DEF Bad
  <2> QED BY <1>1, <2>1, LeastOne
<1>3. i # lo
  BY <1>2
<1>4. /\ i \in lo + 1 .. hi /\ i \in Nat /\ i # 0
      /\ i - 1 \in Nat /\ lo <= i - 1 /\ i - 1 <= hi /\ ~(i <= i - 1)
  <2>1. i \in Nat /\ lo <= i /\ i <= hi
    BY <1>2
  <2> QED BY <1>3, <2>1
<1>5. Height(s, i - 1) = Height(s, lo)
  <2>1. i - 1 \notin Bad
    <3> HIDE DEF Bad
    <3> QED BY <1>2, <1>4
  <2> QED BY <1>4, <2>1
<1>6. Height(s, i) = Height(s, i - 1) + Lifts(s[i]) /\ Height(s, i - 1) \in Int
  BY <1>4, HeightBefore
<1>7. Lifts(s[i]) = 0
  BY <1>4 DEF Lifts
<1> QED BY <1>2, <1>5, <1>6, <1>7

(* and every closing brace lowers it. *)
LEMMA HeightFalls ==
    ASSUME NEW s, NEW lo \in Nat, NEW hi \in Nat, \A i \in lo + 1 .. hi : s[i] = "END_BLOCK"
    PROVE  \A i \in lo .. hi : Height(s, i) = Height(s, lo) - (i - lo)
<1> DEFINE Bad == {i \in Nat : lo <= i /\ i <= hi /\ Height(s, i) # Height(s, lo) - (i - lo)}
<1>1. SUFFICES ASSUME Bad # {} PROVE FALSE
  OBVIOUS
<1>2. PICK i \in Bad : \A j \in Bad : i <= j
  <2>1. Bad \in SUBSET Nat
    OBVIOUS
  <2> HIDE DEF Bad
  <2> QED BY <1>1, <2>1, LeastOne
<1>0. Height(s, lo) \in Int
  BY HeightStep
<1>3. i # lo
  BY <1>0, <1>2
<1>4. /\ i \in lo + 1 .. hi /\ i \in Nat /\ i # 0
      /\ i - 1 \in Nat /\ lo <= i - 1 /\ i - 1 <= hi /\ ~(i <= i - 1)
  <2>1. i \in Nat /\ lo <= i /\ i <= hi
    BY <1>2
  <2> QED BY <1>3, <2>1
<1>5. Height(s, i - 1) = Height(s, lo) - ((i - 1) - lo)
  <2>1. i - 1 \notin Bad
    <3> HIDE DEF Bad
    <3> QED BY <1>2, <1>4
  <2> QED BY <1>4, <2>1
<1>6. Height(s, i) = Height(s, i - 1) + Lifts(s[i]) /\ Height(s, i - 1) \in Int
  BY <1>4, HeightBefore
<1>7. Lifts(s[i]) = -1
  BY <1>4 DEF Lifts
<1>8. Height(s, i) = Height(s, lo) - (i - lo)
  BY <1>0, <1>4, <1>5, <1>6, <1>7
<1> QED BY <1>2, <1>8

------------------------------------------------------------------------------
(* Whole, of the parts of a sequence.                                      *)

LEMMA AfterStart ==
    ASSUME NEW token \in Tokens
    PROVE  /\ MayFollow(token, "START") <=> token = "NORMAL"
           /\ MayFollow(token, "END_BLOCK") <=> token \in {"NORMAL", "END_BLOCK"}
           /\ MayFollow(token, "STATEMENT_END") <=> token \in {"NORMAL", "END_BLOCK"}
           /\ MayFollow(token, "START_BLOCK") <=> token \in {"NORMAL", "END_BLOCK"}
           /\ MayFollow(token, "NORMAL") <=> token # "END_BLOCK"
BY DEF MayFollow, Tokens

LEMMA PartIsWhole ==
    ASSUME NEW s \in Seq(Tokens), NEW b \in 0 .. Len(s), NEW a \in 0 .. b
    PROVE  /\ SubSeq(s, a + 1, b) \in Seq(Tokens)
           /\ Len(SubSeq(s, a + 1, b)) = b - a
           /\ Whole(SubSeq(s, a + 1, b)) <=> WholePart(s, a, b)
<1> DEFINE t == SubSeq(s, a + 1, b)
<1>0. Len(s) \in Nat /\ b \in Nat /\ a \in Nat /\ a <= b /\ b <= Len(s)
  BY LenProperties
<1>1. /\ t \in Seq(Tokens) /\ Len(t) = b - a
      /\ \A i \in 1 .. b - a : t[i] = s[a + i]
  <2>1. \A i \in a + 1 .. b : s[i] \in Tokens
    BY <1>0, ElementOfSeq
  <2>2. /\ t \in Seq(Tokens) /\ Len(t) = IF a + 1 <= b THEN b - (a + 1) + 1 ELSE 0
        /\ \A i \in 1 .. b - (a + 1) + 1 : t[i] = s[(a + 1) + i - 1]
    BY <1>0, <2>1, SubSeqProperties
  <2> HIDE DEF t
  <2>3. \A i \in 1 .. b - a : t[i] = s[a + i]
    <3>1. \A i \in 1 .. b - a : i \in 1 .. b - (a + 1) + 1 /\ (a + 1) + i - 1 = a + i
      BY <1>0
    <3> QED BY <2>2, <3>1
  <2> QED BY <1>0, <2>2, <2>3
<1> HIDE DEF t
<1>2. \A j \in 0 .. b - a : Height(t, j) = Height(s, a + j) - Height(s, a)
  <2>1. b - a \in Nat
    BY <1>0
  <2>2. \A i \in 1 .. b - a : t[i] = s[a + i]
    BY <1>1
  <2> DEFINE k == b - a
  <2>3. k \in Nat /\ \A i \in 1 .. k : t[i] = s[a + i]
    BY <2>1, <2>2
  <2> HIDE DEF k
  <2>4. \A j \in 0 .. k : Height(t, j) = Height(s, a + j) - Height(s, a)
    BY <1>0, <2>3, HeightShift
  <2> QED BY <2>4 DEF k
<1>3. \A i \in a .. b : Height(s, i) \in Int
  BY <1>0, HeightStep
<1>4. Follows(t) <=> /\ a < b => MayFollow(s[a + 1], "START")
                     /\ \A i \in a + 2 .. b : MayFollow(s[i], s[i - 1])
  <2>1. ASSUME Follows(t)
        PROVE  /\ a < b => MayFollow(s[a + 1], "START")
               /\ \A i \in a + 2 .. b : MayFollow(s[i], s[i - 1])
    <3>1. ASSUME a < b PROVE MayFollow(s[a + 1], "START")
      <4>1. 1 \in 1 .. b - a
        BY <1>0, <3>1
      <4>2. MayFollow(t[1], Before(t, 1)) /\ t[1] = s[a + 1]
        BY <1>1, <2>1, <4>1 DEF Follows
      <4> QED BY <4>2 DEF Before
    <3>2. ASSUME NEW i \in a + 2 .. b PROVE MayFollow(s[i], s[i - 1])
      <4>1. i - a \in 1 .. b - a /\ (i - a) - 1 \in 1 .. b - a /\ i - a # 1
            /\ a + (i - a) = i /\ a + ((i - a) - 1) = i - 1
        BY <1>0, <3>2
      <4>2. MayFollow(t[i - a], Before(t, i - a))
        BY <1>1, <2>1, <4>1 DEF Follows
      <4>3. t[i - a] = s[i] /\ t[(i - a) - 1] = s[i - 1]
        BY <1>1, <4>1
      <4> QED BY <4>1, <4>2, <4>3 DEF Before
    <3> QED BY <3>1, <3>2
  <2>2. ASSUME a < b => MayFollow(s[a + 1], "START"),
               \A i \in a + 2 .. b : MayFollow(s[i], s[i - 1])
        PROVE  Follows(t)
    <3>1. ASSUME NEW i \in 1 .. b - a PROVE MayFollow(t[i], Before(t, i))
      <4>1. CASE i = 1
        <5>1. t[1] = s[a + 1] /\ a < b
          BY <1>0, <1>1, <3>1, <4>1
        <5> QED BY <2>2, <4>1, <5>1 DEF Before
      <4>2. CASE i # 1
        <5>1. a + i \in a + 2 .. b /\ i - 1 \in 1 .. b - a /\ a + (i - 1) = (a + i) - 1
          BY <1>0, <3>1, <4>2
        <5>2. MayFollow(s[a + i], s[(a + i) - 1])
          BY <2>2, <5>1
        <5>3. t[i] = s[a + i] /\ t[i - 1] = s[(a + i) - 1]
          BY <1>1, <3>1, <5>1
        <5> QED BY <4>2, <5>2, <5>3 DEF Before
      <4> QED BY <4>1, <4>2
    <3> QED BY <1>1, <3>1 DEF Follows
  <2> QED BY <2>1, <2>2
<1>5. (\A i \in 0 .. Len(t) : Height(t, i) >= 0)
        <=> \A i \in a .. b : Height(s, i) >= Height(s, a)
  <2>1. ASSUME \A i \in 0 .. Len(t) : Height(t, i) >= 0, NEW i \in a .. b
        PROVE  Height(s, i) >= Height(s, a)
    <3>1. i - a \in 0 .. b - a /\ a + (i - a) = i
      BY <1>0
    <3>2. Height(t, i - a) >= 0 /\ Height(t, i - a) = Height(s, i) - Height(s, a)
      BY <1>1, <1>2, <2>1, <3>1
    <3>3. Height(s, i) \in Int /\ Height(s, a) \in Int
      BY <1>0, <1>3
    <3> QED BY <3>2, <3>3
  <2>2. ASSUME \A i \in a .. b : Height(s, i) >= Height(s, a), NEW i \in 0 .. Len(t)
        PROVE  Height(t, i) >= 0
    <3>1. a + i \in a .. b /\ i \in 0 .. b - a
      BY <1>0, <1>1
    <3>2. Height(s, a + i) >= Height(s, a) /\ Height(t, i) = Height(s, a + i) - Height(s, a)
      BY <1>2, <2>2, <3>1
    <3>3. Height(s, a + i) \in Int /\ Height(s, a) \in Int
      BY <1>0, <1>3, <3>1
    <3> QED BY <3>2, <3>3
  <2> QED BY <2>1, <2>2
<1>6. Height(t, Len(t)) = 0 <=> Height(s, b) = Height(s, a)
  <2>1. b - a \in 0 .. b - a /\ a + (b - a) = b
    BY <1>0
  <2>2. Height(t, Len(t)) = Height(s, b) - Height(s, a)
    BY <1>1, <1>2, <2>1
  <2>3. Height(s, a) \in Int /\ Height(s, b) \in Int
    BY <1>0, HeightStep
  <2> QED BY <2>2, <2>3
<1>7. Len(t) > 0 <=> a < b
  BY <1>0, <1>1
<1>8. a < b => t[Len(t)] = s[b]
  <2>1. a < b => b - a \in 1 .. b - a /\ a + (b - a) = b
    BY <1>0
  <2> QED BY <1>1, <2>1
<1>9. Whole(t) <=> WholePart(s, a, b)
  BY <1>4, <1>5, <1>6, <1>7, <1>8 DEF Whole, Open, WholePart
<1> QED BY <1>1, <1>9 DEF t

(* A statement of w words ends at n, and what is behind it is a whole as well. *)
FirstStatement(s, w, n) ==
    /\ w < n /\ \A i \in 1 .. w : s[i] = "NORMAL"
    /\ \/ n = w + 1 /\ s[n] = "STATEMENT_END"
       \/ /\ n > w + 1 /\ s[w + 1] = "START_BLOCK" /\ s[n] = "END_BLOCK"
          /\ WholePart(s, w + 1, n - 1)
    /\ WholePart(s, n, Len(s))

(* Behind a place of height 0, a whole goes on as a whole. *)
LEMMA WholeGoesOn ==
    ASSUME NEW s \in Seq(Tokens), WholePart(s, 0, Len(s)), NEW n \in 1 .. Len(s),
           Height(s, n) = 0, s[n] \in {"STATEMENT_END", "END_BLOCK"}
    PROVE  WholePart(s, n, Len(s))
<1> DEFINE L == Len(s)
<1>1. L \in Nat /\ \A i \in 1 .. L : s[i] \in Tokens
  BY LenProperties, ElementOfSeq
<1>2. /\ s[L] \in {"STATEMENT_END", "END_BLOCK"}
      /\ \A i \in 2 .. L : MayFollow(s[i], s[i - 1])
      /\ \A i \in 0 .. L : Height(s, i) >= 0
      /\ Height(s, L) = 0
  <2>1. Height(s, 0) = 0 /\ 0 < L
    BY <1>1, HeightStep
  <2> QED BY <2>1 DEF WholePart
<1> HIDE DEF L
<1>3. n \in 1 .. L
  BY DEF L
<1>4. ASSUME n < L PROVE MayFollow(s[n + 1], "START")
  <2>1. n + 1 \in 2 .. L /\ n + 1 \in 1 .. L /\ n + 1 \in 0 .. L /\ (n + 1) - 1 = n
        /\ n \in Nat
    BY <1>1, <1>3, <1>4
  <2>2. MayFollow(s[n + 1], s[n]) /\ s[n + 1] \in Tokens /\ Height(s, n + 1) >= 0
    BY <1>1, <1>2, <2>1
  <2>3. s[n + 1] # "END_BLOCK"
    <3>1. Height(s, n + 1) = Height(s, n) + Lifts(s[n + 1])
      BY <2>1, HeightStep
    <3>2. s[n + 1] = "END_BLOCK" => Lifts(s[n + 1]) = -1
      BY DEF Lifts
    <3> QED BY <2>2, <3>1, <3>2
  <2> QED BY <2>2, <2>3, AfterStart
<1>5. \A i \in n + 2 .. L : i \in 2 .. L
  BY <1>3
<1>6. \A i \in n .. L : i \in 0 .. L
  BY <1>3
<1> QED BY <1>2, <1>4, <1>5, <1>6 DEF WholePart, L

LEMMA WholeBegins ==
    ASSUME NEW s \in Seq(Tokens), Len(s) > 0, WholePart(s, 0, Len(s))
    PROVE  \E n \in 2 .. Len(s), w \in 1 .. Len(s) : FirstStatement(s, w, n)
<1> DEFINE L == Len(s)
<1>1. L \in Nat /\ L > 0 /\ \A i \in 1 .. L : s[i] \in Tokens
  BY LenProperties, ElementOfSeq
<1>2. /\ MayFollow(s[1], "START")
      /\ s[L] \in {"STATEMENT_END", "END_BLOCK"}
      /\ \A i \in 2 .. L : MayFollow(s[i], s[i - 1])
      /\ \A i \in 0 .. L : Height(s, i) >= 0 /\ Height(s, i) \in Int
      /\ Height(s, 0) = 0 /\ Height(s, L) = 0
  <2>1. Height(s, 0) = 0 /\ 0 < L /\ 0 + 1 = 1 /\ \A i \in 0 .. L : Height(s, i) \in Int
    BY <1>1, HeightStep
  <2> QED BY <2>1 DEF WholePart
<1>0. \A n \in 1 .. L : Height(s, n) = 0 /\ s[n] \in {"STATEMENT_END", "END_BLOCK"}
                          => WholePart(s, n, L)
  BY WholeGoesOn
<1> HIDE DEF L
<1>3. s[1] = "NORMAL"
  <2>1. 1 \in 1 .. L
    BY <1>1
  <2> QED BY <1>1, <1>2, <2>1, AfterStart
(* p is the first place of another token than a word. *)
<1>4. PICK p \in 2 .. L : s[p] # "NORMAL" /\ \A i \in 1 .. p - 1 : s[i] = "NORMAL"
  <2> DEFINE T == {i \in Nat : i \in 1 .. L /\ s[i] # "NORMAL"}
  <2>1. L \in T
    BY <1>1, <1>2
  <2>2. PICK p \in T : \A i \in T : p <= i
    <3>1. T \in SUBSET Nat
      OBVIOUS
    <3> HIDE DEF T
    <3> QED BY <2>1, <3>1, LeastOne
  <2>3. p \in 1 .. L /\ s[p] # "NORMAL" /\ p # 1 /\ p \in Nat
    BY <1>3, <2>2
  <2>4. ASSUME NEW i \in 1 .. p - 1 PROVE s[i] = "NORMAL"
    <3>1. i \in Nat /\ i \in 1 .. L /\ ~(p <= i)
      BY <1>1, <2>3
    <3> QED BY <2>2, <3>1
  <2>5. p \in 2 .. L
    BY <2>3
  <2> QED BY <2>3, <2>4, <2>5
<1> DEFINE w == p - 1
<1>5. /\ p \in Nat /\ w \in Nat /\ w \in 1 .. L /\ w < p /\ p = w + 1 /\ p - 1 = w
      /\ p \in 1 .. L /\ p \in 0 .. L
  BY <1>1
<1>6. s[w] = "NORMAL" /\ \A i \in 1 .. w : s[i] = "NORMAL"
  BY <1>4, <1>5
<1>7. Height(s, w) = 0
  <2>1. \A i \in 0 + 1 .. w : s[i] \in {"NORMAL", "STATEMENT_END"}
    BY <1>6
  <2>2. w \in 0 .. w
    BY <1>5
  <2> HIDE DEF w
  <2>3. \A i \in 0 .. w : Height(s, i) = Height(s, 0)
    BY <1>5, <2>1, HeightFlat
  <2> QED BY <1>2, <2>2, <2>3
<1>8. Height(s, p) = Lifts(s[p]) /\ s[p] \in {"STATEMENT_END", "START_BLOCK"}
  <2>1. Height(s, w + 1) = Height(s, w) + Lifts(s[w + 1]) /\ Lifts(s[p]) \in Int
    <3>1. Lifts(s[p]) \in Int
      BY DEF Lifts
    <3> HIDE DEF w
    <3> QED BY <1>5, <3>1, HeightStep
  <2>2. MayFollow(s[p], s[w]) /\ s[p] \in Tokens
    BY <1>1, <1>2, <1>4, <1>5
  <2>3. s[p] # "END_BLOCK"
    BY <1>6, <2>2, AfterStart
  <2>4. s[p] \in {"STATEMENT_END", "START_BLOCK"}
    BY <1>4, <2>2, <2>3 DEF Tokens
  <2> QED BY <1>5, <1>7, <2>1, <2>4
<1> HIDE DEF w
<1>9. CASE s[p] = "STATEMENT_END"
  <2>1. Height(s, p) = 0
    BY <1>8, <1>9 DEF Lifts
  <2>2. FirstStatement(s, w, p)
    BY <1>0, <1>5, <1>6, <1>9, <2>1 DEF FirstStatement, L
  <2> QED BY <1>4, <1>5, <2>2 DEF L
<1>10. CASE s[p] = "START_BLOCK"
  <2>1. Height(s, p) = 1
    BY <1>8, <1>10 DEF Lifts
  (* The block that is opened at p is closed at n. *)
  <2>2. PICK n \in p + 1 .. L : Height(s, n) = 0 /\ \A i \in p .. n - 1 : Height(s, i) >= 1
    <3> DEFINE T == {i \in Nat : p < i /\ i <= L /\ Height(s, i) = 0}
    <3>1. L \in T
      <4>1. p # L
        BY <1>2, <2>1
      <4> QED BY <1>1, <1>2, <1>5, <4>1
    <3>2. PICK n \in T : \A i \in T : n <= i
      <4>1. T \in SUBSET Nat
        OBVIOUS
      <4> HIDE DEF T
      <4> QED BY <3>1, <4>1, LeastOne
    <3>3. n \in Nat /\ p < n /\ n <= L /\ Height(s, n) = 0
      BY <3>2
    <3>4. ASSUME NEW i \in p .. n - 1 PROVE Height(s, i) >= 1
      <4>1. i \in Nat /\ i \in 0 .. L /\ ~(n <= i) /\ i <= L /\ (i = p \/ p < i)
        BY <1>1, <1>5, <3>3
      <4>2. Height(s, i) >= 0 /\ Height(s, i) \in Int
        BY <1>2, <4>1
      <4>3. Height(s, i) # 0
        <5>1. CASE i = p
          BY <2>1, <5>1
        <5>2. CASE p < i
          BY <3>2, <4>1, <5>2
        <5> QED BY <4>1, <5>1, <5>2
      <4> QED BY <4>2, <4>3
    <3>5. n \in p + 1 .. L
      BY <1>1, <1>5, <3>3
    <3> QED BY <3>3, <3>4, <3>5
  <2>3. /\ n \in Nat /\ n # 0 /\ n - 1 \in Nat /\ n - 1 \in p .. n - 1
        /\ n \in 1 .. L /\ n \in 2 .. L /\ n > w + 1
    BY <1>1, <1>5
  <2>4. Height(s, n - 1) = 1 /\ s[n] = "END_BLOCK"
    <3>1. /\ Height(s, n) = Height(s, n - 1) + Lifts(s[n]) /\ Height(s, n - 1) \in Int
          /\ Lifts(s[n]) \in {-1, 0, 1} /\ (Lifts(s[n]) = -1 <=> s[n] = "END_BLOCK")
      BY <2>3, HeightBefore
    <3>2. Height(s, n - 1) >= 1
      BY <2>2, <2>3
    <3> QED BY <2>2, <3>1, <3>2
  <2>5. WholePart(s, p, n - 1)
    <3>1. ASSUME p < n - 1
          PROVE  MayFollow(s[p + 1], "START") /\ s[n - 1] \in {"STATEMENT_END", "END_BLOCK"}
      <4>1. /\ p + 1 \in p .. n - 1 /\ p + 1 \in 2 .. L /\ p + 1 \in 1 .. L /\ (p + 1) - 1 = p
            /\ (n - 1) - 1 \in p .. n - 1 /\ (n - 1) - 1 \in Nat /\ n - 1 # 0 /\ n - 1 \in 1 .. L
            /\ n \in 2 .. L
        BY <1>1, <1>5, <2>3, <3>1
      <4>2. MayFollow(s[p + 1], "START")
        <5>1. MayFollow(s[p + 1], s[p]) /\ s[p + 1] \in Tokens /\ Height(s, p + 1) >= 1
          BY <1>1, <1>2, <2>2, <4>1
        <5>2. Height(s, p + 1) = Height(s, p) + Lifts(s[p + 1])
          BY <1>5, HeightStep
        <5>3. s[p + 1] # "END_BLOCK"
          BY <2>1, <5>1, <5>2 DEF Lifts
        <5> QED BY <1>10, <5>1, <5>3, AfterStart
      <4>3. s[n - 1] \in {"STATEMENT_END", "END_BLOCK"}
        <5>1. MayFollow(s[n], s[n - 1])
          BY <1>2, <4>1
        <5>2. s[n - 1] \in {"STATEMENT_END", "END_BLOCK", "START_BLOCK"}
          BY <2>4, <5>1 DEF MayFollow
        <5>3. /\ Height(s, n - 1) = Height(s, (n - 1) - 1) + Lifts(s[n - 1])
              /\ Height(s, (n - 1) - 1) \in Int
              /\ (Lifts(s[n - 1]) = 1 <=> s[n - 1] = "START_BLOCK")
          BY <2>3, <4>1, HeightBefore
        <5>4. Height(s, (n - 1) - 1) >= 1
          BY <2>2, <4>1
        <5>5. s[n - 1] # "START_BLOCK"
          BY <2>4, <5>3, <5>4
        <5> QED BY <5>2, <5>5
      <4> QED BY <4>2, <4>3
    <3>2. ASSUME NEW i \in p + 2 .. n - 1 PROVE MayFollow(s[i], s[i - 1])
      <4>1. i \in 2 .. L
        BY <1>1, <1>5, <2>3
      <4> QED BY <1>2, <4>1
    <3>3. \A i \in p .. n - 1 : Height(s, i) >= Height(s, p)
      BY <2>1, <2>2
    <3> QED BY <2>1, <2>4, <3>1, <3>2, <3>3 DEF WholePart
  <2>6. WholePart(s, n, L)
    BY <1>0, <2>2, <2>3, <2>4
  <2>7. FirstStatement(s, w, n)
    <3>1. w < n
      BY <1>5, <2>3
    <3> QED BY <1>5, <1>6, <1>10, <2>3, <2>4, <2>5, <2>6, <3>1 DEF FirstStatement, L
  <2> QED BY <1>5, <2>3, <2>7 DEF L
<1> QED BY <1>8, <1>9, <1>10

LEMMA WholeEnds ==
    ASSUME NEW s \in Seq(Tokens), NEW n \in 2 .. Len(s), NEW w \in 1 .. Len(s),
           FirstStatement(s, w, n)
    PROVE  WholePart(s, 0, Len(s))
<1> DEFINE L == Len(s)
<1>1. /\ L \in Nat /\ n \in Nat /\ w \in Nat /\ 1 <= w /\ w < n /\ n <= L
      /\ \A i \in 1 .. L : s[i] \in Tokens
  <2>1. Len(s) \in Nat /\ \A i \in 1 .. Len(s) : s[i] \in Tokens
    BY LenProperties, ElementOfSeq
  <2> QED BY <2>1 DEF FirstStatement
<1>2. /\ \A i \in 1 .. w : s[i] = "NORMAL"
      /\ WholePart(s, n, L)
      /\ \/ n = w + 1 /\ s[n] = "STATEMENT_END"
         \/ /\ n > w + 1 /\ s[w + 1] = "START_BLOCK" /\ s[n] = "END_BLOCK"
            /\ WholePart(s, w + 1, n - 1)
  BY DEF FirstStatement
<1> HIDE DEF L
<1>0. Height(s, 0) = 0 /\ \A i \in 0 .. L : Height(s, i) \in Int
  BY <1>1, HeightStep
<1>3. \A i \in 0 .. w : Height(s, i) = 0
  <2>1. \A i \in 0 + 1 .. w : s[i] \in {"NORMAL", "STATEMENT_END"}
    BY <1>2
  <2>2. \A i \in 0 .. w : Height(s, i) = Height(s, 0)
    BY <1>1, <2>1, HeightFlat
  <2> QED BY <1>0, <2>2
<1>4. ASSUME NEW i \in 2 .. w + 1 PROVE MayFollow(s[i], s[i - 1])
  <2>1. i - 1 \in 1 .. w /\ (i \in 1 .. w \/ i = w + 1)
    BY <1>1
  <2>2. s[i - 1] = "NORMAL"
    BY <1>2, <2>1
  <2>3. s[i] \in {"NORMAL", "STATEMENT_END", "START_BLOCK"}
    BY <1>2, <2>1
  <2> QED BY <2>2, <2>3 DEF MayFollow
(* The first statement ends with the height it began with. *)
<1>5. /\ \A i \in 2 .. n : MayFollow(s[i], s[i - 1])
      /\ \A i \in 0 .. n : Height(s, i) >= 0
      /\ Height(s, n) = 0 /\ s[n] \in {"STATEMENT_END", "END_BLOCK"}
  <2>1. Height(s, w + 1) = Height(s, w) + Lifts(s[w + 1]) /\ Height(s, w) = 0
    <3>1. Height(s, w) = 0
      BY <1>1, <1>3
    <3> QED BY <1>1, <3>1, HeightStep
  <2>2. CASE n = w + 1 /\ s[n] = "STATEMENT_END"
    <3>1. Height(s, n) = 0
      BY <2>1, <2>2 DEF Lifts
    <3>2. \A i \in 2 .. n : MayFollow(s[i], s[i - 1])
      BY <1>4, <2>2
    <3>3. ASSUME NEW i \in 0 .. n PROVE Height(s, i) >= 0
      <4>1. i \in 0 .. w \/ i = n
        BY <1>1, <2>2
      <4> QED BY <1>3, <3>1, <4>1
    <3> QED BY <2>2, <3>1, <3>2, <3>3
  <2>3. CASE n > w + 1 /\ s[w + 1] = "START_BLOCK" /\ s[n] = "END_BLOCK"
             /\ WholePart(s, w + 1, n - 1)
    <3>1. Height(s, w + 1) = 1
      BY <2>1, <2>3 DEF Lifts
    <3>2. /\ w + 1 < n - 1 => /\ MayFollow(s[(w + 1) + 1], "START")
                              /\ s[n - 1] \in {"STATEMENT_END", "END_BLOCK"}
          /\ \A i \in (w + 1) + 2 .. n - 1 : MayFollow(s[i], s[i - 1])
          /\ \A i \in w + 1 .. n - 1 : Height(s, i) >= 1
          /\ Height(s, n - 1) = 1
      BY <2>3, <3>1 DEF WholePart
    <3>3. Height(s, n) = 0
      <4>1. n # 0 /\ n \in Nat
        BY <1>1
      <4>2. Height(s, n) = Height(s, n - 1) + Lifts(s[n])
        BY <4>1, HeightBefore
      <4> QED BY <2>3, <3>2, <4>2 DEF Lifts
    <3>4. MayFollow(s[n], s[n - 1])
      <4>1. s[n - 1] \in {"STATEMENT_END", "END_BLOCK", "START_BLOCK"}
        <5>1. CASE w + 1 < n - 1
          BY <3>2, <5>1
        <5>2. CASE ~(w + 1 < n - 1)
          <6>1. n - 1 = w + 1
            BY <1>1, <2>3, <5>2
          <6> QED BY <2>3, <6>1
        <5> QED BY <5>1, <5>2
      <4> QED BY <2>3, <4>1 DEF MayFollow
    <3>5. w + 1 < n - 1 => MayFollow(s[w + 2], s[w + 1])
      <4>1. ASSUME w + 1 < n - 1 PROVE MayFollow(s[w + 2], s[w + 1])
        <5>1. w + 2 \in 1 .. L /\ (w + 1) + 1 = w + 2
          BY <1>1, <4>1
        <5>2. MayFollow(s[w + 2], "START") /\ s[w + 2] \in Tokens
          BY <1>1, <3>2, <4>1, <5>1
        <5> QED BY <2>3, <5>2, AfterStart
      <4> QED BY <4>1
    <3>6. ASSUME NEW i \in 2 .. n PROVE MayFollow(s[i], s[i - 1])
      <4>1. \/ i \in 2 .. w + 1 \/ i = n
            \/ i = w + 2 /\ w + 1 < n - 1 /\ i - 1 = w + 1
            \/ i \in (w + 1) + 2 .. n - 1
        BY <1>1, <2>3
      <4> QED BY <1>4, <3>2, <3>4, <3>5, <4>1
    <3>7. ASSUME NEW i \in 0 .. n PROVE Height(s, i) >= 0
      <4>1. i \in 0 .. w \/ i \in w + 1 .. n - 1 \/ i = n
        BY <1>1, <2>3
      <4>2. i \in 0 .. L
        BY <1>1
      <4>3. Height(s, i) \in Int
        BY <1>0, <4>2
      <4>4. i \in 0 .. w \/ i = n => Height(s, i) = 0
        BY <1>3, <3>3
      <4>5. i \in w + 1 .. n - 1 => Height(s, i) >= 1
        BY <3>2
      <4> QED BY <4>1, <4>3, <4>4, <4>5
    <3> QED BY <2>3, <3>3, <3>6, <3>7
  <2> QED BY <1>2, <2>2, <2>3
<1>6. /\ n < L => MayFollow(s[n + 1], "START") /\ s[L] \in {"STATEMENT_END", "END_BLOCK"}
      /\ \A i \in n + 2 .. L : MayFollow(s[i], s[i - 1])
      /\ \A i \in n .. L : Height(s, i) >= 0
      /\ Height(s, L) = 0
  BY <1>2, <1>5 DEF WholePart
<1>7. MayFollow(s[0 + 1], "START") /\ s[L] \in {"STATEMENT_END", "END_BLOCK"}
  <2>1. 1 \in 1 .. L /\ 1 \in 1 .. w /\ 0 + 1 = 1 /\ (n < L \/ n = L)
    BY <1>1
  <2>2. s[1] = "NORMAL"
    BY <1>2, <2>1
  <2> QED BY <1>5, <1>6, <2>1, <2>2 DEF MayFollow
<1>8. ASSUME NEW i \in 0 + 2 .. L PROVE MayFollow(s[i], s[i - 1])
  <2>1. i \in 2 .. n \/ (i = n + 1 /\ n < L) \/ i \in n + 2 .. L
    BY <1>1
  <2>2. CASE i = n + 1 /\ n < L
    <3>1. i - 1 = n /\ i \in 1 .. L
      BY <1>1, <2>2
    <3>2. MayFollow(s[i], "START") /\ s[i] \in Tokens
      BY <1>1, <1>6, <2>2, <3>1
    <3> QED BY <1>5, <3>1, <3>2, AfterStart
  <2> QED BY <1>5, <1>6, <2>1, <2>2
<1>9. ASSUME NEW i \in 0 .. L PROVE Height(s, i) >= Height(s, 0)
  <2>1. i \in 0 .. n \/ i \in n .. L
    BY <1>1
  <2>2. Height(s, i) >= 0
    BY <1>5, <1>6, <2>1
  <2> QED BY <1>0, <2>2
<1> QED BY <1>0, <1>6, <1>7, <1>8, <1>9 DEF WholePart, L

------------------------------------------------------------------------------
(* The grammar.                                                            *)

(* What the recursion of Configs says of s, if f says it of what is shorter. *)
Grammar(f, s) ==
    s = <<>> \/ \E n \in 2 .. Len(s), w \in 1 .. Len(s) :
        /\ w < n /\ \A i \in 1 .. w : s[i] = "NORMAL"
        /\ \/ n = w + 1 /\ s[n] = "STATEMENT_END"
           \/ /\ n > w + 1 /\ s[w + 1] = "START_BLOCK" /\ s[n] = "END_BLOCK"
              /\ f[SubSeq(s, w + 2, n - 1)]
        /\ f[SubSeq(s, n + 1, Len(s))]

Wholes == [s \in Seq(Tokens) |-> Whole(s)]

(* The parts that Grammar asks f about: tokens, and fewer than s has. *)
LEMMA GrammarParts ==
    ASSUME NEW s \in Seq(Tokens), NEW n \in 2 .. Len(s), NEW w \in 1 .. Len(s), w < n
    PROVE  /\ SubSeq(s, n + 1, Len(s)) \in Seq(Tokens)
           /\ Len(SubSeq(s, n + 1, Len(s))) < Len(s)
           /\ Whole(SubSeq(s, n + 1, Len(s))) <=> WholePart(s, n, Len(s))
           /\ n > w + 1 => /\ SubSeq(s, w + 2, n - 1) \in Seq(Tokens)
                           /\ Len(SubSeq(s, w + 2, n - 1)) < Len(s)
                           /\ Whole(SubSeq(s, w + 2, n - 1)) <=> WholePart(s, w + 1, n - 1)
<1> DEFINE L == Len(s)
<1>1. L \in Nat
  BY LenProperties
<1> HIDE DEF L
<1>2. n \in 0 .. L /\ L \in 0 .. L /\ L - n < L
  BY <1>1 DEF L
<1>3. /\ SubSeq(s, n + 1, L) \in Seq(Tokens) /\ Len(SubSeq(s, n + 1, L)) = L - n
      /\ Whole(SubSeq(s, n + 1, L)) <=> WholePart(s, n, L)
  BY <1>2, PartIsWhole DEF L
<1>4. ASSUME n > w + 1
      PROVE  /\ SubSeq(s, w + 2, n - 1) \in Seq(Tokens) /\ Len(SubSeq(s, w + 2, n - 1)) < L
             /\ Whole(SubSeq(s, w + 2, n - 1)) <=> WholePart(s, w + 1, n - 1)
  <2>1. /\ n - 1 \in 0 .. L /\ w + 1 \in 0 .. n - 1 /\ (w + 1) + 1 = w + 2
        /\ (n - 1) - (w + 1) < L
    BY <1>1, <1>2, <1>4 DEF L
  <2>2. /\ SubSeq(s, (w + 1) + 1, n - 1) \in Seq(Tokens)
        /\ Len(SubSeq(s, (w + 1) + 1, n - 1)) = (n - 1) - (w + 1)
        /\ Whole(SubSeq(s, (w + 1) + 1, n - 1)) <=> WholePart(s, w + 1, n - 1)
    BY <2>1, PartIsWhole DEF L
  <2> QED BY <2>1, <2>2
<1> QED BY <1>2, <1>3, <1>4 DEF L

(* Whole satisfies the recursion. *)
LEMMA WholesAreGrammar ==
    ASSUME NEW s \in Seq(Tokens)
    PROVE  Whole(s) <=> Grammar(Wholes, s)
<1>1. Len(s) \in Nat
  BY LenProperties
<1>2. CASE s = <<>>
  <2>1. Len(s) = 0
    BY <1>2
  <2>2. Whole(s)
    BY <2>1, HeightStep DEF Whole, Open, Follows
  <2> QED BY <1>2, <2>2 DEF Grammar
<1>3. CASE s # <<>>
  <2>1. Len(s) > 0 /\ 0 \in 0 .. Len(s) /\ Len(s) \in 0 .. Len(s) /\ 0 + 1 = 1
    BY <1>1, <1>3, EmptySeq
  <2>2. Whole(s) <=> WholePart(s, 0, Len(s))
    <3>1. Whole(SubSeq(s, 0 + 1, Len(s))) <=> WholePart(s, 0, Len(s))
      BY <2>1, PartIsWhole
    <3>2. SubSeq(s, 1, Len(s)) = s
      BY SubSeqFull
    <3> QED BY <2>1, <3>1, <3>2
  <2>3. WholePart(s, 0, Len(s))
          <=> \E n \in 2 .. Len(s), w \in 1 .. Len(s) : FirstStatement(s, w, n)
    BY <2>1, WholeBegins, WholeEnds
  <2>4. ASSUME NEW n \in 2 .. Len(s), NEW w \in 1 .. Len(s), w < n
        PROVE  /\ Wholes[SubSeq(s, n + 1, Len(s))] <=> WholePart(s, n, Len(s))
               /\ n > w + 1 => (Wholes[SubSeq(s, w + 2, n - 1)] <=> WholePart(s, w + 1, n - 1))
    BY <2>4, GrammarParts DEF Wholes
  <2>5. ASSUME NEW n \in 2 .. Len(s), NEW w \in 1 .. Len(s)
        PROVE  FirstStatement(s, w, n) <=>
                  /\ w < n /\ \A i \in 1 .. w : s[i] = "NORMAL"
                  /\ \/ n = w + 1 /\ s[n] = "STATEMENT_END"
                     \/ /\ n > w + 1 /\ s[w + 1] = "START_BLOCK" /\ s[n] = "END_BLOCK"
                        /\ Wholes[SubSeq(s, w + 2, n - 1)]
                  /\ Wholes[SubSeq(s, n + 1, Len(s))]
    BY <2>4 DEF FirstStatement
  <2> QED BY <1>3, <2>2, <2>3, <2>5 DEF Grammar
<1> QED BY <1>2, <1>3

(* Nothing else does. *)
LEMMA GrammarIsUnique ==
    ASSUME NEW f, NEW g,
           f = [s \in Seq(Tokens) |-> Grammar(f, s)], g = [s \in Seq(Tokens) |-> Grammar(g, s)]
    PROVE  \A s \in Seq(Tokens) : f[s] <=> g[s]
<1> DEFINE Bad == {k \in Nat : \E s \in Seq(Tokens) : Len(s) = k /\ ~(f[s] <=> g[s])}
<1>1. SUFFICES ASSUME Bad # {} PROVE FALSE
  BY LenProperties
<1>2. PICK k \in Bad : \A j \in Bad : k <= j
  <2>1. Bad \in SUBSET Nat
    OBVIOUS
  <2> HIDE DEF Bad
  <2> QED BY <1>1, <2>1, LeastOne
<1>3. PICK s \in Seq(Tokens) : Len(s) = k /\ ~(f[s] <=> g[s])
  BY <1>2
<1>4. ASSUME NEW t \in Seq(Tokens), Len(t) < Len(s) PROVE f[t] <=> g[t]
  <2>1. Len(t) \in Nat /\ ~(k <= Len(t))
    BY <1>2, <1>3, <1>4, LenProperties
  <2>2. Len(t) \notin Bad
    <3> HIDE DEF Bad
    <3> QED BY <1>2, <2>1
  <2> QED BY <2>1, <2>2
<1>5. ASSUME NEW n \in 2 .. Len(s), NEW w \in 1 .. Len(s), w < n
      PROVE  /\ f[SubSeq(s, n + 1, Len(s))] <=> g[SubSeq(s, n + 1, Len(s))]
             /\ n > w + 1 => (f[SubSeq(s, w + 2, n - 1)] <=> g[SubSeq(s, w + 2, n - 1)])
  BY <1>4, <1>5, GrammarParts
<1>6. Grammar(f, s) <=> Grammar(g, s)
  BY <1>5 DEF Grammar
<1>7. (f[s] <=> Grammar(f, s)) /\ (g[s] <=> Grammar(g, s))
  <2>1. f[s] = Grammar(f, s)
    OBVIOUS
  <2>2. g[s] = Grammar(g, s)
    OBVIOUS
  <2> QED BY <2>1, <2>2
<1> QED BY <1>3, <1>6, <1>7

(* The recursive grammar holds exactly of the wholes. *)
LEMMA ConfigsAreWholes ==
    ASSUME NEW s \in Seq(Tokens)
    PROVE  Configs[s] <=> Whole(s)
<1> DEFINE f == CHOOSE f : f = [t \in Seq(Tokens) |-> Grammar(f, t)]
<1>1. Wholes = [t \in Seq(Tokens) |-> Grammar(Wholes, t)]
  <2>1. ASSUME NEW t \in Seq(Tokens) PROVE Whole(t) = Grammar(Wholes, t)
    <3>1. Whole(t) <=> Grammar(Wholes, t)
      BY WholesAreGrammar
    <3>2. Whole(t) \in BOOLEAN /\ Grammar(Wholes, t) \in BOOLEAN
      BY DEF Whole, Grammar
    <3> QED BY <3>1, <3>2
  <2>2. [t \in Seq(Tokens) |-> Whole(t)] = [t \in Seq(Tokens) |-> Grammar(Wholes, t)]
    BY <2>1, Zenon
  <2> QED BY <2>2 DEF Wholes
<1>2. f = [t \in Seq(Tokens) |-> Grammar(f, t)]
  BY <1>1
<1>3. Configs = f
  BY DEF Configs, Grammar
<1> HIDE DEF f
<1>4. f[s] <=> Wholes[s]
  BY <1>1, <1>2, GrammarIsUnique
<1> QED BY <1>3, <1>4 DEF Wholes

(* The tokens that a file may be completed with. *)
Ends == {<<>>, <<"STATEMENT_END">>}
Completed(s, end, depth) == s \o end \o [i \in 1 .. depth |-> "END_BLOCK"]

LEMMA CompletedElements ==
    ASSUME NEW s \in Seq(Tokens), NEW end \in Ends, NEW depth \in Nat
    PROVE  LET t == Completed(s, end, depth)
               k == Len(s) + Len(end)
           IN  /\ t \in Seq(Tokens) /\ Len(t) = k + depth
               /\ Len(end) = IF end = <<>> THEN 0 ELSE 1
               /\ \A i \in 1 .. Len(s) : t[i] = s[i]
               /\ \A i \in Len(s) + 1 .. k : t[i] = "STATEMENT_END"
               /\ \A i \in k + 1 .. k + depth : t[i] = "END_BLOCK"
<1> DEFINE close == [i \in 1 .. depth |-> "END_BLOCK"]
           u == s \o end
           k == Len(s) + Len(end)
<1>1. "END_BLOCK" \in Tokens /\ "STATEMENT_END" \in Tokens
  BY DEF Tokens
<1>2. /\ end \in Seq(Tokens) /\ Len(end) = IF end = <<>> THEN 0 ELSE 1
      /\ \A i \in 1 .. Len(end) : end[i] = "STATEMENT_END"
  <2>1. CASE end = <<>>
    BY <2>1
  <2>2. CASE end = <<"STATEMENT_END">>
    BY <1>1, <2>2
  <2> QED BY <2>1, <2>2 DEF Ends
<1>3. close \in Seq(Tokens) /\ Len(close) = depth
  BY <1>1, SeqDef
<1>4. Len(s) \in Nat /\ Len(end) \in Nat /\ k \in Nat
  BY <1>2, LenProperties
<1>5. /\ u \in Seq(Tokens) /\ Len(u) = k
      /\ \A i \in 1 .. k : u[i] = IF i <= Len(s) THEN s[i] ELSE end[i - Len(s)]
  BY <1>2, ConcatProperties
<1> DEFINE t == u \o close
<1> HIDE DEF close, u
<1>6. /\ t \in Seq(Tokens) /\ Len(t) = k + depth
      /\ \A i \in 1 .. k + depth : t[i] = IF i <= k THEN u[i] ELSE close[i - k]
  <2>1. /\ t \in Seq(Tokens) /\ Len(t) = Len(u) + Len(close)
        /\ \A i \in 1 .. Len(u) + Len(close) :
              t[i] = IF i <= Len(u) THEN u[i] ELSE close[i - Len(u)]
    <3>1. u \in Seq(Tokens) /\ close \in Seq(Tokens)
      BY <1>3, <1>5
    <3> QED BY <3>1, ConcatProperties
  <2> HIDE DEF t, k
  <2> QED BY <1>3, <1>5, <2>1
<1>7. t = Completed(s, end, depth)
  BY DEF close, u, Completed
<1> HIDE DEF t, k
<1>0. k = Len(s) + Len(end)
  BY DEF k
<1>8. ASSUME NEW i \in 1 .. Len(s) PROVE t[i] = s[i]
  <2>1. i \in 1 .. k /\ i \in 1 .. k + depth /\ i <= k /\ i <= Len(s)
    BY <1>0, <1>4
  <2> QED BY <1>5, <1>6, <2>1
<1>9. ASSUME NEW i \in Len(s) + 1 .. k PROVE t[i] = "STATEMENT_END"
  <2>1. i \in 1 .. k /\ i \in 1 .. k + depth /\ i <= k /\ ~(i <= Len(s)) /\ i - Len(s) \in 1 .. Len(end)
    BY <1>0, <1>4
  <2> QED BY <1>2, <1>5, <1>6, <2>1
<1>10. ASSUME NEW i \in k + 1 .. k + depth PROVE t[i] = "END_BLOCK"
  <2>1. i \in 1 .. k + depth /\ ~(i <= k) /\ i - k \in 1 .. depth
    BY <1>4
  <2> QED BY <1>6, <2>1 DEF close
<1> QED BY <1>0, <1>2, <1>6, <1>7, <1>8, <1>9, <1>10

(* What a file begins with is open. *)
LEMMA ViableIsOpen ==
    ASSUME NEW s \in Seq(Tokens), Viable(s)
    PROVE  Open(s)
<1>1. PICK depth \in 0 .. Len(s), end \in Ends : Configs[Completed(s, end, depth)]
  BY DEF Viable, Completed, Ends
<1> DEFINE t == Completed(s, end, depth)
<1>2. Len(s) \in Nat /\ depth \in Nat
  BY <1>1, LenProperties
<1>3. /\ t \in Seq(Tokens) /\ Len(t) \in Nat /\ Len(s) <= Len(t)
      /\ \A i \in 1 .. Len(s) : t[i] = s[i]
  <2>1. /\ t \in Seq(Tokens) /\ Len(t) = (Len(s) + Len(end)) + depth
        /\ Len(end) = IF end = <<>> THEN 0 ELSE 1
        /\ \A i \in 1 .. Len(s) : t[i] = s[i]
    BY <1>2, CompletedElements
  <2> HIDE DEF t
  <2> QED BY <1>2, <2>1
<1>4. Open(t)
  BY <1>1, <1>3, ConfigsAreWholes DEF Whole
<1> HIDE DEF t
<1>5. ASSUME NEW i \in 1 .. Len(s) PROVE MayFollow(s[i], Before(s, i))
  <2>1. i \in 1 .. Len(t) /\ (i # 1 => i - 1 \in 1 .. Len(s))
    BY <1>2, <1>3
  <2>2. MayFollow(t[i], Before(t, i))
    BY <1>4, <2>1 DEF Open, Follows
  <2>3. t[i] = s[i] /\ Before(t, i) = Before(s, i)
    BY <1>3, <2>1 DEF Before
  <2> QED BY <2>2, <2>3
<1>6. ASSUME NEW i \in 0 .. Len(s) PROVE Height(s, i) >= 0
  <2>1. \A j \in 0 .. Len(s) : Height(t, j) = Height(s, 0 + j) - Height(s, 0)
    <3> DEFINE L == Len(s)
    <3>1. 0 \in Nat /\ L \in Nat /\ \A j \in 1 .. L : t[j] = s[0 + j]
      BY <1>2, <1>3
    <3> HIDE DEF L
    <3>2. \A j \in 0 .. L : Height(t, j) = Height(s, 0 + j) - Height(s, 0)
      BY <3>1, HeightShift
    <3> QED BY <3>2 DEF L
  <2>2. /\ i \in Nat /\ i \in 0 .. Len(t) /\ 0 + i = i /\ Height(s, 0) = 0
        /\ Height(s, i) \in Int
    BY <1>2, <1>3, HeightStep
  <2>3. Height(t, i) >= 0
    BY <1>4, <2>2 DEF Open
  <2> QED BY <2>1, <2>2, <2>3
<1> QED BY <1>5, <1>6 DEF Open, Follows

(* What is open can be completed: a word is ended, and every block is closed. *)
LEMMA OpenIsViable ==
    ASSUME NEW s \in Seq(Tokens), Open(s)
    PROVE  Viable(s)
<1> DEFINE L == Len(s)
<1>1. L \in Nat /\ \A i \in 1 .. L : s[i] \in Tokens
  BY LenProperties, ElementOfSeq
<1>2. PICK depth \in 0 .. L : depth = Height(s, L) /\ depth \in Nat
  <2>1. L \in 0 .. L
    BY <1>1
  <2>2. Height(s, L) >= 0 /\ Height(s, L) \in Int /\ Height(s, L) <= L
    BY <1>1, <2>1, HeightStep DEF Open
  <2> QED BY <1>1, <2>2
<1>3. PICK end \in Ends : end = <<>> <=> ~(L > 0 /\ s[L] = "NORMAL")
  BY DEF Ends
<1> DEFINE k == L + Len(end)
           t == Completed(s, end, depth)
<1>4. /\ t \in Seq(Tokens) /\ Len(t) = k + depth
      /\ Len(end) = IF end = <<>> THEN 0 ELSE 1
      /\ \A i \in 1 .. L : t[i] = s[i]
      /\ \A i \in L + 1 .. k : t[i] = "STATEMENT_END"
      /\ \A i \in k + 1 .. k + depth : t[i] = "END_BLOCK"
  <2>1. depth \in Nat
    BY <1>2
  <2> HIDE DEF L
  <2>2. /\ t \in Seq(Tokens) /\ Len(t) = (Len(s) + Len(end)) + depth
        /\ Len(end) = IF end = <<>> THEN 0 ELSE 1
        /\ \A i \in 1 .. Len(s) : t[i] = s[i]
    BY <2>1, CompletedElements
  <2>3. \A i \in Len(s) + 1 .. Len(s) + Len(end) : t[i] = "STATEMENT_END"
    BY <2>1, CompletedElements
  <2>4. \A i \in (Len(s) + Len(end)) + 1 .. (Len(s) + Len(end)) + depth : t[i] = "END_BLOCK"
    BY <2>1, CompletedElements
  <2> HIDE DEF t
  <2> QED BY <2>2, <2>3, <2>4 DEF L
<1> HIDE DEF t
<1>5. \A i \in 0 .. L : Height(t, i) = Height(s, i) /\ Height(s, i) >= 0
  <2>1. \A j \in 0 .. L : Height(t, j) = Height(s, 0 + j) - Height(s, 0)
    <3>1. 0 \in Nat /\ \A j \in 1 .. L : t[j] = s[0 + j]
      BY <1>1, <1>4
    <3> HIDE DEF L
    <3> QED BY <1>1, <3>1, HeightShift
  <2>2. \A j \in 0 .. L : 0 + j = j /\ Height(s, 0) = 0 /\ Height(s, j) \in Int
    BY <1>1, HeightStep
  <2> QED BY <2>1, <2>2 DEF Open
<1>0. Follows(s)
  BY DEF Open
<1> HIDE DEF L
<1>6. k \in Nat /\ (k = L \/ k = L + 1) /\ (k = L <=> end = <<>>) /\ L + Len(end) = k
  BY <1>1, <1>4
<1> HIDE DEF k
<1>7. Height(t, L) = depth
  <2>1. L \in 0 .. L
    BY <1>1
  <2> QED BY <1>2, <1>5, <2>1
<1>8. \A i \in L .. k : Height(t, i) = depth
  <2>1. \A i \in L + 1 .. k : t[i] \in {"NORMAL", "STATEMENT_END"}
    BY <1>4
  <2>2. \A i \in L .. k : Height(t, i) = Height(t, L)
    BY <1>1, <1>6, <2>1, HeightFlat
  <2> QED BY <1>7, <2>2
<1>9. \A i \in k .. k + depth : Height(t, i) = depth - (i - k)
  <2>1. k + depth \in Nat /\ k \in L .. k
    BY <1>1, <1>2, <1>6
  <2> DEFINE m == k + depth
  <2>2. m \in Nat /\ \A i \in k + 1 .. m : t[i] = "END_BLOCK"
    BY <1>4, <2>1
  <2> HIDE DEF m
  <2>3. \A i \in k .. m : Height(t, i) = Height(t, k) - (i - k)
    BY <1>6, <2>2, HeightFalls
  <2> QED BY <1>8, <2>1, <2>3 DEF m
<1>10. ASSUME NEW i \in 1 .. k + depth PROVE MayFollow(t[i], Before(t, i))
  <2>1. i \in 1 .. L \/ (i = L + 1 /\ i = k) \/ i \in k + 1 .. k + depth
    BY <1>1, <1>2, <1>6
  <2>2. CASE i \in 1 .. L
    <3>1. i # 1 => i - 1 \in 1 .. L
      BY <1>1, <2>2
    <3>2. t[i] = s[i] /\ Before(t, i) = Before(s, i)
      BY <1>4, <2>2, <3>1 DEF Before
    <3> QED BY <1>0, <2>2, <3>2 DEF Follows, L
  <2>3. CASE i = L + 1 /\ i = k
    <3>1. end # <<>> /\ i - 1 = L /\ i \in L + 1 .. k
      BY <1>1, <1>6, <2>3
    <3>2. L \in 1 .. L /\ s[L] = "NORMAL" /\ i # 1
      BY <1>1, <1>3, <2>3, <3>1
    <3>3. t[i] = "STATEMENT_END" /\ Before(t, i) = "NORMAL"
      BY <1>4, <3>1, <3>2 DEF Before
    <3> QED BY <3>3 DEF MayFollow
  <2>4. CASE i \in k + 1 .. k + depth
    <3>1. t[i] = "END_BLOCK" /\ depth > 0
      BY <1>2, <1>4, <1>6, <2>4
    <3>2. L > 0
      <4>1. L = 0 => depth = 0
        BY <1>2, HeightStep
      <4> QED BY <1>1, <3>1, <4>1
    <3>3. i # 1 /\ \/ i - 1 \in k + 1 .. k + depth
                   \/ i - 1 = k /\ k = L + 1 /\ i - 1 \in L + 1 .. k
                   \/ i - 1 = k /\ k = L /\ i - 1 \in 1 .. L /\ end = <<>>
      BY <1>1, <1>2, <1>6, <2>4, <3>2
    <3>4. t[i - 1] \in {"STATEMENT_END", "END_BLOCK", "START_BLOCK"}
      <4>1. CASE i - 1 \in k + 1 .. k + depth
        BY <1>4, <4>1
      <4>2. CASE i - 1 \in L + 1 .. k
        BY <1>4, <4>2
      <4>3. CASE i - 1 = L /\ i - 1 \in 1 .. L /\ end = <<>>
        <5>1. t[L] = s[L] /\ s[L] \in Tokens /\ s[L] # "NORMAL"
          BY <1>1, <1>3, <1>4, <3>2, <4>3
        <5> QED BY <4>3, <5>1 DEF Tokens
      <4> QED BY <3>3, <4>1, <4>2, <4>3
    <3> QED BY <3>1, <3>3, <3>4 DEF MayFollow, Before
  <2> QED BY <2>1, <2>2, <2>3, <2>4
<1>11. ASSUME NEW i \in 0 .. k + depth PROVE Height(t, i) >= 0
  <2>1. i \in 0 .. L \/ i \in L .. k \/ i \in k .. k + depth
    BY <1>1, <1>2, <1>6
  <2>2. i \in k .. k + depth => depth - (i - k) >= 0
    BY <1>2, <1>6
  <2>3. depth >= 0
    BY <1>2
  <2>4. i \in 0 .. L => Height(t, i) >= 0
    BY <1>5
  <2> QED BY <1>8, <1>9, <2>1, <2>2, <2>3, <2>4
<1>12. Height(t, k + depth) = 0
  <2>1. k + depth \in k .. k + depth /\ depth - ((k + depth) - k) = 0
    BY <1>2, <1>6
  <2> QED BY <1>9, <2>1
<1>13. k + depth > 0 => t[k + depth] \in {"STATEMENT_END", "END_BLOCK"}
  <2>1. CASE depth > 0
    <3>1. k + depth \in k + 1 .. k + depth
      BY <1>2, <1>6, <2>1
    <3> QED BY <1>4, <3>1
  <2>2. CASE depth = 0 /\ k = L + 1
    <3>1. k + depth \in L + 1 .. k
      BY <1>1, <2>2
    <3> QED BY <1>4, <3>1
  <2>3. CASE depth = 0 /\ k = L /\ L > 0
    <3>1. k + depth = L /\ L \in 1 .. L /\ L # 0 /\ L - 1 \in 0 .. L
      BY <1>1, <2>3
    <3>2. t[L] = s[L] /\ s[L] \in Tokens /\ s[L] # "NORMAL"
      BY <1>1, <1>3, <1>4, <1>6, <2>3, <3>1
    <3>3. s[L] # "START_BLOCK"
      <4>1. /\ Height(s, L) = Height(s, L - 1) + Lifts(s[L]) /\ Height(s, L - 1) \in Int
            /\ (Lifts(s[L]) = 1 <=> s[L] = "START_BLOCK")
        BY <1>1, <3>1, HeightBefore
      <4>2. Height(s, L - 1) >= 0 /\ Height(s, L) = 0
        BY <1>2, <1>5, <2>3, <3>1
      <4> QED BY <4>1, <4>2
    <3> QED BY <3>1, <3>2, <3>3 DEF Tokens
  <2> QED BY <1>1, <1>2, <1>6, <2>1, <2>2, <2>3
<1>14. Whole(t)
  BY <1>4, <1>10, <1>11, <1>12, <1>13 DEF Whole, Open, Follows
<1>15. Configs[t]
  BY <1>4, <1>14, ConfigsAreWholes
<1> QED BY <1>2, <1>3, <1>15 DEF Viable, Completed, Ends, t, L

------------------------------------------------------------------------------
(* The parser.                                                             *)

LastOf(s) == IF s = <<>> THEN "START" ELSE s[Len(s)]
IsSeq(f) == Len(f) \in Nat /\ f = [i \in 1 .. Len(f) |-> f[i]]

(* What Parse knows of the tokens it was given: last_token_type is the last of
   them, config_stack has one more block than are open, and nothing was wrong
   with them so far, except that the last of them may have closed the file's own
   block; and what is wrong with them when it gives up. *)
Knows(p) ==
    /\ p.tokens \in Seq(Tokens)
    /\ p.outcome \in {"parsing", "true", "false", "undefined"}
    /\ p.outcome = "parsing" =>
          /\ p.last = LastOf(p.tokens) /\ Follows(p.tokens)
          /\ \A i \in 0 .. Len(p.tokens) - 1 : Height(p.tokens, i) >= 0
          /\ IsSeq(p.stack) /\ Len(p.stack) = Height(p.tokens, Len(p.tokens)) + 1
    /\ p.outcome = "true" => Whole(p.tokens)
    /\ p.outcome = "undefined" => ~Open(p.tokens)
    /\ p.outcome = "false" => \/ p.fault = "syntax" /\ ~Follows(p.tokens)
                              \/ p.fault = "end" /\ ~Whole(p.tokens)
                              \/ p.fault = "token"

IsParser(p) == p = [last |-> p.last, stack |-> p.stack, outcome |-> p.outcome,
                    tokens |-> p.tokens, fault |-> p.fault]

LEMMA IsSeqAgrees ==
    /\ \A S : \A f \in Seq(S) : IsSeq(f)
    /\ \A f : IsSeq(f) => \E S : f \in Seq(S)
<1>1. ASSUME NEW S, NEW f \in Seq(S) PROVE IsSeq(f)
  <2>1. Len(f) \in Nat /\ f \in [1 .. Len(f) -> S]
    BY LenProperties
  <2> QED BY <2>1 DEF IsSeq
<1>2. ASSUME NEW f, IsSeq(f) PROVE \E S : f \in Seq(S)
  <2> DEFINE S == {f[i] : i \in 1 .. Len(f)}
  <2>1. Len(f) \in Nat /\ f \in [1 .. Len(f) -> S]
    BY <1>2 DEF IsSeq
  <2>2. f \in Seq(S)
    BY <2>1, SeqDef
  <2> QED BY <2>2
<1> QED BY <1>1, <1>2

(* A change of some elements keeps the length. *)
LEMMA SameDomain ==
    ASSUME NEW f, IsSeq(f), NEW g, g = [i \in DOMAIN f |-> g[i]]
    PROVE  IsSeq(g) /\ Len(g) = Len(f)
<1>1. Len(f) \in Nat /\ DOMAIN f = 1 .. Len(f)
  BY DEF IsSeq
<1> DEFINE n == Len(f)
           S == {g[i] : i \in 1 .. n}
<1>2. g \in [1 .. n -> S]
  BY <1>1
<1>3. g \in Seq(S)
  BY <1>1, <1>2, SeqDef
<1>4. Len(g) \in Nat /\ DOMAIN g = 1 .. Len(g) /\ DOMAIN g = 1 .. n
  BY <1>2, <1>3, LenProperties
<1>5. Len(g) = n
  BY <1>1, <1>4
<1> QED BY <1>3, <1>5, IsSeqAgrees

(* What a new token does to what Parse knows. *)
LEMMA AppendToken ==
    ASSUME NEW s \in Seq(Tokens), NEW token \in Tokens
    PROVE  LET t == Append(s, token)
           IN  /\ t \in Seq(Tokens) /\ Len(t) = Len(s) + 1 /\ LastOf(t) = token
               /\ Follows(t) <=> Follows(s) /\ MayFollow(token, LastOf(s))
               /\ \A i \in 0 .. Len(s) : Height(t, i) = Height(s, i)
               /\ Height(t, Len(t)) = Height(s, Len(s)) + Lifts(token)
<1> DEFINE t == Append(s, token)
           n == Len(s)
<1>1. /\ n \in Nat /\ t \in Seq(Tokens) /\ Len(t) = n + 1 /\ t # <<>>
      /\ t[n + 1] = token /\ \A i \in 1 .. n : t[i] = s[i]
      /\ s = <<>> <=> n = 0
  BY LenProperties, AppendProperties, EmptySeq
<1> HIDE DEF t, n
<1>2. LastOf(t) = token
  BY <1>1 DEF LastOf
<1>3. Before(t, n + 1) = LastOf(s)
  <2>1. CASE n = 0
    BY <1>1, <2>1 DEF Before, LastOf
  <2>2. CASE n # 0
    <3>1. n + 1 # 1 /\ (n + 1) - 1 = n /\ n \in 1 .. n
      BY <1>1, <2>2
    <3> QED BY <1>1, <2>2, <3>1 DEF Before, LastOf, n
  <2> QED BY <2>1, <2>2
<1>4. ASSUME NEW i \in 1 .. n PROVE t[i] = s[i] /\ Before(t, i) = Before(s, i)
  <2>1. i # 1 => i - 1 \in 1 .. n
    BY <1>1
  <2> QED BY <1>1, <2>1 DEF Before
<1>5. Follows(t) <=> Follows(s) /\ MayFollow(token, LastOf(s))
  <2>1. \A i : i \in 1 .. n + 1 <=> i \in 1 .. n \/ i = n + 1
    BY <1>1
  <2> QED BY <1>1, <1>3, <1>4, <2>1 DEF Follows, n
<1>6. \A i \in 0 .. n : Height(t, i) = Height(s, i)
  <2>1. 0 \in Nat /\ n \in Nat /\ \A j \in 1 .. n : t[j] = s[0 + j]
    BY <1>1
  <2>2. \A j \in 0 .. n : Height(t, j) = Height(s, 0 + j) - Height(s, 0)
    BY <2>1, HeightShift
  <2>3. \A j \in 0 .. n : 0 + j = j /\ Height(s, 0) = 0 /\ Height(s, j) \in Int
    BY <1>1, HeightStep
  <2> QED BY <2>2, <2>3
<1>7. Height(t, n + 1) = Height(s, n) + Lifts(token)
  <2>1. Height(t, n + 1) = Height(t, n) + Lifts(t[n + 1])
    BY <1>1, HeightStep
  <2>2. n \in 0 .. n
    BY <1>1
  <2> QED BY <1>1, <1>6, <2>1, <2>2
<1> QED BY <1>1, <1>2, <1>5, <1>6, <1>7 DEF t, n

(* Where the file's own block has been closed, that was the last token. *)
LEMMA EmptyStack ==
    ASSUME NEW p, Knows(p), p.outcome = "parsing"
    PROVE  /\ Len(p.tokens) \in Nat /\ Height(p.tokens, Len(p.tokens)) \in Int
           /\ p.stack = <<>> <=> Height(p.tokens, Len(p.tokens)) < 0
           /\ p.stack = <<>> => p.last = "END_BLOCK"
           /\ p.stack # <<>> => Open(p.tokens)
<1> DEFINE s == p.tokens
           n == Len(s)
<1>1. /\ s \in Seq(Tokens) /\ n \in Nat /\ p.last = LastOf(s) /\ Follows(s)
      /\ \A i \in 0 .. n - 1 : Height(s, i) >= 0
      /\ IsSeq(p.stack) /\ Len(p.stack) = Height(s, n) + 1
      /\ Height(s, n) \in Int
  BY LenProperties, HeightStep DEF Knows
<1> HIDE DEF s, n
<1>2. Len(p.stack) \in Nat /\ (p.stack = <<>> <=> Len(p.stack) = 0)
  BY <1>1, IsSeqAgrees, LenProperties, EmptySeq
<1>3. p.stack = <<>> <=> Height(s, n) < 0
  BY <1>1, <1>2
<1>4. ASSUME Height(s, n) < 0 PROVE p.last = "END_BLOCK"
  <2>1. n # 0
    BY <1>4, HeightStep
  <2>2. /\ Height(s, n) = Height(s, n - 1) + Lifts(s[n]) /\ Lifts(s[n]) \in {-1, 0, 1}
        /\ Height(s, n - 1) \in Int /\ (Lifts(s[n]) = -1 <=> s[n] = "END_BLOCK")
    BY <1>1, <2>1, HeightBefore
  <2>3. Height(s, n - 1) >= 0
    <3>1. n - 1 \in 0 .. n - 1
      BY <1>1, <2>1
    <3> QED BY <1>1, <3>1
  <2>4. s[n] = "END_BLOCK"
    BY <1>4, <2>2, <2>3
  <2>5. s # <<>>
    BY <2>1 DEF n
  <2> QED BY <1>1, <2>4, <2>5 DEF LastOf, n
<1>5. ASSUME ~(Height(s, n) < 0) PROVE Open(s)
  <2>1. ASSUME NEW i \in 0 .. n PROVE Height(s, i) >= 0
    <3>1. i \in 0 .. n - 1 \/ i = n
      BY <1>1
    <3> QED BY <1>1, <1>5, <3>1
  <2> QED BY <1>1, <2>1 DEF Open, n
<1> QED BY <1>1, <1>3, <1>4, <1>5 DEF s, n

(* A field is given another value. *)
LEMMA FieldChange ==
    ASSUME NEW p, IsParser(p), NEW x, NEW y
    PROVE  /\ y = [p EXCEPT !.stack = x] =>
                 /\ IsParser(y) /\ y.tokens = p.tokens /\ y.outcome = p.outcome
                 /\ y.last = p.last /\ y.stack = x
           /\ y = [p EXCEPT !.tokens = x] =>
                 /\ IsParser(y) /\ y.tokens = x /\ y.outcome = p.outcome
                 /\ y.last = p.last /\ y.stack = p.stack
           /\ y = [p EXCEPT !.last = x] =>
                 /\ IsParser(y) /\ y.tokens = p.tokens /\ y.outcome = p.outcome
                 /\ y.last = x /\ y.stack = p.stack
<1>1. ASSUME y = [p EXCEPT !.stack = x]
      PROVE  /\ IsParser(y) /\ y.tokens = p.tokens /\ y.outcome = p.outcome
             /\ y.last = p.last /\ y.stack = x
  BY <1>1 DEF IsParser
<1>2. ASSUME y = [p EXCEPT !.tokens = x]
      PROVE  /\ IsParser(y) /\ y.tokens = x /\ y.outcome = p.outcome
             /\ y.last = p.last /\ y.stack = p.stack
  BY <1>2 DEF IsParser
<1>3. ASSUME y = [p EXCEPT !.last = x]
      PROVE  /\ IsParser(y) /\ y.tokens = p.tokens /\ y.outcome = p.outcome
             /\ y.last = x /\ y.stack = p.stack
  BY <1>3 DEF IsParser
<1> QED BY <1>1, <1>2, <1>3

(* One block is put on the stack or taken off it, or the top one is changed. *)
LEMMA StackChanges ==
    ASSUME NEW p, IsParser(p), IsSeq(p.stack), p.stack # <<>>
    PROVE  LET n == Len(p.stack)
               q == AddWord(p)
               r == OpenBlock(p)
               u == CloseBlock(p)
           IN  /\ IsParser(q) /\ q.tokens = p.tokens /\ q.outcome = p.outcome
               /\ IsSeq(q.stack) /\ Len(q.stack) = n
               /\ IsParser(r) /\ r.tokens = p.tokens /\ r.outcome = p.outcome /\ r.last = p.last
               /\ IsSeq(r.stack) /\ Len(r.stack) = n + 1
               /\ IsParser(u) /\ u.tokens = p.tokens /\ u.outcome = p.outcome /\ u.last = p.last
               /\ IsSeq(u.stack) /\ Len(u.stack) = n - 1
<1> DEFINE n == Len(p.stack)
<1>1. n \in Nat /\ n # 0
  BY IsSeqAgrees, LenProperties, EmptySeq
<1>2. PICK S : p.stack \in Seq(S)
  BY IsSeqAgrees
<1>3. LET q == AddWord(p)
      IN  /\ IsParser(q) /\ q.tokens = p.tokens /\ q.outcome = p.outcome
          /\ IsSeq(q.stack) /\ Len(q.stack) = n
  <2> DEFINE q == AddWord(p)
  <2>1. IsParser(q) /\ q.tokens = p.tokens /\ q.outcome = p.outcome
    BY DEF AddWord, IsParser
  <2>2. q.stack = [i \in DOMAIN p.stack |-> q.stack[i]]
    BY DEF AddWord, IsParser
  <2> HIDE DEF q
  <2>3. IsSeq(q.stack) /\ Len(q.stack) = n
    BY <2>2, SameDomain
  <2> QED BY <2>1, <2>3 DEF q
<1>4. LET r == OpenBlock(p)
      IN  /\ IsParser(r) /\ r.tokens = p.tokens /\ r.outcome = p.outcome /\ r.last = p.last
          /\ IsSeq(r.stack) /\ Len(r.stack) = n + 1
  <2> DEFINE r == OpenBlock(p)
  <2> DEFINE x == Append(p.stack, <<>>)
             y == [p EXCEPT !.stack = x]
  <2>0. r = y
    BY DEF OpenBlock
  <2> HIDE DEF r, x
  <2>1. /\ IsParser(y) /\ y.tokens = p.tokens /\ y.outcome = p.outcome /\ y.last = p.last
        /\ y.stack = x
    BY FieldChange
  <2>2. /\ IsParser(r) /\ r.tokens = p.tokens /\ r.outcome = p.outcome /\ r.last = p.last
        /\ r.stack = x
    <3> HIDE DEF y
    <3> QED BY <2>0, <2>1
  <2>3. r.stack \in Seq(S \cup {<<>>}) /\ Len(r.stack) = n + 1
    <3>1. p.stack \in Seq(S \cup {<<>>})
      BY <1>2, SeqMonotonic
    <3> QED BY <2>2, <3>1, AppendProperties DEF x
  <2> QED BY <2>2, <2>3, IsSeqAgrees DEF r
<1>5. LET u == CloseBlock(p)
      IN  /\ IsParser(u) /\ u.tokens = p.tokens /\ u.outcome = p.outcome /\ u.last = p.last
          /\ IsSeq(u.stack) /\ Len(u.stack) = n - 1
  <2> DEFINE u == CloseBlock(p)
             outer == Front(p.stack)
  <2>1. outer \in Seq(S) /\ Len(outer) = n - 1
    <3>1. \A i \in 1 .. n - 1 : p.stack[i] \in S
      BY <1>1, <1>2, ElementOfSeq
    <3>2. outer \in Seq(S) /\ Len(outer) = IF 1 <= n - 1 THEN (n - 1) - 1 + 1 ELSE 0
      BY <1>1, <3>1, SubSeqProperties DEF Front
    <3> HIDE DEF outer
    <3> QED BY <1>1, <3>2
  <2>2. IsParser(u) /\ u.tokens = p.tokens /\ u.outcome = p.outcome /\ u.last = p.last
    BY DEF CloseBlock, IsParser
  <2>3. CASE outer = <<>>
    <3>1. u.stack = outer
      BY <2>3 DEF CloseBlock, IsParser
    <3> HIDE DEF u, outer
    <3>2. IsSeq(u.stack) /\ Len(u.stack) = n - 1
      BY <2>1, <3>1, IsSeqAgrees
    <3> QED BY <2>2, <3>2 DEF u
  <2>4. CASE outer # <<>>
    <3>1. u.stack = [i \in DOMAIN outer |-> u.stack[i]]
      BY <2>4 DEF CloseBlock, IsParser
    <3> HIDE DEF u, outer
    <3>2. IsSeq(outer)
      BY <2>1, IsSeqAgrees
    <3>3. IsSeq(u.stack) /\ Len(u.stack) = n - 1
      BY <2>1, <3>1, <3>2, SameDomain
    <3> QED BY <2>2, <3>3 DEF u
  <2> QED BY <2>3, <2>4
<1> QED BY <1>3, <1>4, <1>5

(* A turn of the loop keeps what Parse knows. *)
LEMMA TakeKeeps ==
    ASSUME NEW p, IsParser(p), Knows(p), NEW token \in Tokens
    PROVE  IsParser(Take(p, token)) /\ Knows(Take(p, token))
<1> DEFINE s == p.tokens
           t == Append(s, token)
           given == [p EXCEPT !.tokens = t]
           done == [given EXCEPT !.last = token]
           q == Take(p, token)
           n == Len(s)
<1>1. CASE p.outcome # "parsing"
  <2>1. q = p
    BY <1>1 DEF Take
  <2> HIDE DEF q
  <2>2. IsParser(q) /\ Knows(q)
    BY <2>1
  <2> QED BY <2>2 DEF q
<1>2. CASE p.outcome = "parsing"
  <2>1. /\ t \in Seq(Tokens) /\ Len(t) = n + 1 /\ LastOf(t) = token
        /\ Follows(t) <=> MayFollow(token, p.last)
        /\ \A i \in 0 .. n : Height(t, i) = Height(s, i)
        /\ Height(t, n + 1) = Height(s, n) + Lifts(token)
        /\ n \in Nat /\ Height(s, n) \in Int
        /\ IsSeq(p.stack) /\ Len(p.stack) = Height(s, n) + 1
        /\ \A i \in 0 .. n - 1 : Height(s, i) >= 0
    <3>1. s \in Seq(Tokens) /\ Follows(s) /\ p.last = LastOf(s)
          /\ IsSeq(p.stack) /\ Len(p.stack) = Height(s, n) + 1
          /\ \A i \in 0 .. n - 1 : Height(s, i) >= 0
      BY <1>2 DEF Knows
    <3>2. n \in Nat /\ Height(s, n) \in Int
      BY <1>2, EmptyStack
    <3> HIDE DEF s, n
    <3>3. /\ t \in Seq(Tokens) /\ Len(t) = Len(s) + 1 /\ LastOf(t) = token
          /\ Follows(t) <=> Follows(s) /\ MayFollow(token, LastOf(s))
          /\ \A i \in 0 .. Len(s) : Height(t, i) = Height(s, i)
          /\ Height(t, Len(t)) = Height(s, Len(s)) + Lifts(token)
      BY <3>1, AppendToken
    <3> HIDE DEF t
    <3> QED BY <3>1, <3>2, <3>3 DEF n
  <2>2. /\ p.stack = <<>> <=> Height(s, n) < 0
        /\ p.stack = <<>> => p.last = "END_BLOCK"
    BY <1>2, EmptyStack
  <2>3. /\ IsParser(given) /\ given.tokens = t /\ given.outcome = "parsing"
        /\ given.last = p.last /\ given.stack = p.stack
        /\ IsParser(done) /\ done.tokens = t /\ done.outcome = "parsing"
        /\ done.last = token /\ done.stack = p.stack
    <3> HIDE DEF t
    <3>1. /\ IsParser(given) /\ given.tokens = t /\ given.outcome = p.outcome
          /\ given.last = p.last /\ given.stack = p.stack
      BY FieldChange
    <3> HIDE DEF given
    <3>2. /\ IsParser(done) /\ done.tokens = t /\ done.outcome = p.outcome
          /\ done.last = token /\ done.stack = p.stack
      BY <3>1, FieldChange
    <3> QED BY <1>2, <3>1, <3>2
  (* What is left to say of a turn that goes on. *)
  <2>4. ASSUME NEW y, IsParser(y), y.tokens = t, y.outcome = "parsing", y.last = token,
               IsSeq(y.stack), Len(y.stack) = Len(p.stack) + Lifts(token),
               MayFollow(token, p.last), Height(s, n) >= 0
        PROVE  Knows(y)
    <3>1. Len(y.stack) = Height(y.tokens, Len(y.tokens)) + 1
      <4>1. Lifts(token) \in Int
        BY DEF Lifts
      <4> HIDE DEF t, s, n
      <4> QED BY <2>1, <2>4, <4>1
    <3>2. ASSUME NEW i \in 0 .. Len(y.tokens) - 1 PROVE Height(y.tokens, i) >= 0
      <4> HIDE DEF t, s, n
      <4>1. i \in 0 .. n /\ (i \in 0 .. n - 1 \/ i = n)
        BY <2>1, <2>4
      <4> QED BY <2>1, <2>4, <4>1
    <3> HIDE DEF t, s, n
    <3> QED BY <2>1, <2>4, <3>1, <3>2 DEF Knows
  <2>5. CASE ~MayFollow(token, p.last)
    <3>1. q = Failed(given, "syntax")
      BY <1>2, <2>5 DEF Take
    <3> HIDE DEF q, given, t, done
    <3>2. IsParser(q) /\ q.tokens = t /\ q.outcome = "false" /\ q.fault = "syntax"
      BY <2>3, <3>1 DEF Failed, IsParser
    <3>3. Knows(q)
      BY <2>1, <2>5, <3>2 DEF Knows
    <3> QED BY <3>2, <3>3 DEF q
  <2>6. CASE MayFollow(token, p.last) /\ token = "STATEMENT_END"
    <3>1. q = done
      BY <1>2, <2>6 DEF Take
    <3>2. p.last = "NORMAL" /\ Lifts(token) = 0
      BY <2>6 DEF MayFollow, Lifts
    <3>3. Height(s, n) >= 0
      BY <2>1, <2>2, <3>2
    <3> HIDE DEF q, given, done, t, s, n
    <3>4. Len(done.stack) = Len(p.stack) + Lifts(token)
      BY <2>1, <2>3, <3>2
    <3>5. IsParser(q) /\ Knows(q)
      BY <2>1, <2>3, <2>4, <2>6, <3>1, <3>3, <3>4
    <3> QED BY <3>5 DEF q
  <2>7. CASE MayFollow(token, p.last) /\ token # "STATEMENT_END" /\ p.stack = <<>>
    <3>1. q = Undefined(given)
      BY <1>2, <2>7 DEF Take
    <3> HIDE DEF q, given, done, t
    <3>2. IsParser(q) /\ q.tokens = t /\ q.outcome = "undefined"
      BY <2>3, <3>1 DEF Undefined, IsParser
    <3> HIDE DEF s, n
    <3>3. ~Open(t)
      <4>1. Height(t, n) < 0 /\ n \in 0 .. Len(t)
        BY <2>1, <2>2, <2>7
      <4>2. Height(t, n) \in Int
        BY <2>1
      <4> QED BY <4>1, <4>2 DEF Open
    <3>4. Knows(q)
      BY <2>1, <3>2, <3>3 DEF Knows
    <3> QED BY <3>2, <3>4 DEF q
  <2>8. CASE MayFollow(token, p.last) /\ token = "NORMAL" /\ p.stack # <<>>
    <3> DEFINE added == AddWord(given)
    <3>1. q = [added EXCEPT !.last = token]
      BY <1>2, <2>8 DEF Take
    <3> HIDE DEF q, given, done, t, s, n, added
    <3>2. /\ IsParser(added) /\ added.tokens = t /\ added.outcome = "parsing"
          /\ IsSeq(added.stack) /\ Len(added.stack) = Len(p.stack)
      BY <2>1, <2>3, <2>8, StackChanges DEF added
    <3>3. /\ IsParser(q) /\ q.tokens = t /\ q.outcome = "parsing" /\ q.last = token
          /\ q.stack = added.stack
      BY <3>1, <3>2 DEF IsParser
    <3>4. Len(q.stack) = Len(p.stack) + Lifts(token) /\ Height(s, n) >= 0
      BY <2>1, <2>2, <2>8, <3>2, <3>3 DEF Lifts
    <3>5. Knows(q)
      BY <2>4, <2>8, <3>2, <3>3, <3>4
    <3> QED BY <3>3, <3>5 DEF q
  <2>9. CASE MayFollow(token, p.last) /\ token = "START_BLOCK" /\ p.stack # <<>>
    <3>1. q = OpenBlock(done)
      BY <1>2, <2>9 DEF Take
    <3> HIDE DEF q, given, done, t, s, n
    <3>2. /\ IsParser(q) /\ q.tokens = t /\ q.outcome = "parsing" /\ q.last = token
          /\ IsSeq(q.stack) /\ Len(q.stack) = Len(p.stack) + 1
      BY <2>1, <2>3, <2>9, <3>1, StackChanges
    <3>3. Len(q.stack) = Len(p.stack) + Lifts(token) /\ Height(s, n) >= 0
      BY <2>1, <2>2, <2>9, <3>2 DEF Lifts
    <3>4. Knows(q)
      BY <2>4, <2>9, <3>2, <3>3
    <3> QED BY <3>2, <3>4 DEF q
  <2>10. CASE MayFollow(token, p.last) /\ token = "END_BLOCK" /\ p.stack # <<>>
    <3>1. q = CloseBlock(done)
      BY <1>2, <2>10 DEF Take
    <3> HIDE DEF q, given, done, t, s, n
    <3>2. /\ IsParser(q) /\ q.tokens = t /\ q.outcome = "parsing" /\ q.last = token
          /\ IsSeq(q.stack) /\ Len(q.stack) = Len(p.stack) - 1
      BY <2>1, <2>3, <2>10, <3>1, StackChanges
    <3>3. Len(q.stack) = Len(p.stack) + Lifts(token) /\ Height(s, n) >= 0
      BY <2>1, <2>2, <2>10, <3>2 DEF Lifts
    <3>4. Knows(q)
      BY <2>4, <2>10, <3>2, <3>3
    <3> QED BY <3>2, <3>4 DEF q
  <2> QED BY <2>5, <2>6, <2>7, <2>8, <2>9, <2>10 DEF Tokens
<1> QED BY <1>1, <1>2

LEMMA TypeOfToken ==
    ASSUME NEW c \in Structural
    PROVE  TypeOf(c) \in Tokens
<1>1. c = "{" \/ c = "}" \/ c = ";"
  BY Zenon DEF Structural
<1>2. "{" # "}" /\ "{" # ";" /\ "}" # ";"
  OBVIOUS
<1>3. TypeOf(c) \in {"START_BLOCK", "END_BLOCK", "STATEMENT_END"}
  BY <1>1, <1>2, Zenon DEF TypeOf
<1> QED BY <1>3 DEF Tokens

LEMMA ParserIsParser == IsParser(Parser)
BY DEF Parser, IsParser

(* What a step makes of the parser is the parser it goes on with. *)
LEMMA BecomesParser ==
    ASSUME NEW q, IsParser(q), Becomes(q)
    PROVE  Parser' = q
BY DEF Becomes, Parser, IsParser

LEMMA KnowsFirst == ParserInit => Knows(Parser)
<1> SUFFICES ASSUME ParserInit PROVE Knows(Parser)
  OBVIOUS
<1>1. /\ Parser.tokens = <<>> /\ Parser.outcome = "parsing" /\ Parser.last = "START"
      /\ Parser.stack = << <<>> >>
  BY DEF ParserInit, Parser
<1>2. <<>> \in Seq(Tokens) /\ Len(<<>>) = 0 /\ Height(<<>>, 0) = 0
  BY HeightStep
<1>3. << <<>> >> \in Seq({<<>>}) /\ Len(<< <<>> >>) = 1
  OBVIOUS
<1>4. IsSeq(<< <<>> >>)
  BY <1>3, IsSeqAgrees
<1> DEFINE p == Parser
<1> HIDE DEF p
<1>5. /\ p.tokens = <<>> /\ p.outcome = "parsing" /\ p.last = "START"
      /\ p.stack = << <<>> >>
  BY <1>1 DEF p
<1>6. /\ p.last = LastOf(p.tokens) /\ Follows(p.tokens)
      /\ \A i \in 0 .. Len(p.tokens) - 1 : Height(p.tokens, i) >= 0
  BY <1>2, <1>5 DEF LastOf, Follows
<1>7. IsSeq(p.stack) /\ Len(p.stack) = Height(p.tokens, Len(p.tokens)) + 1
  BY <1>2, <1>3, <1>4, <1>5
<1>8. Knows(p)
  BY <1>2, <1>5, <1>6, <1>7 DEF Knows
<1> QED BY <1>8 DEF p

LEMMA FailedKnows ==
    ASSUME NEW p, IsParser(p), Knows(p), NEW why, why = "token" \/ (why = "end" /\ ~Whole(p.tokens))
    PROVE  IsParser(Failed(p, why)) /\ Knows(Failed(p, why))
<1> DEFINE q == Failed(p, why)
<1>1. IsParser(q) /\ q.tokens = p.tokens /\ q.outcome = "false" /\ q.fault = why
  <2> DEFINE z == [p EXCEPT !.outcome = "false"]
             y == [z EXCEPT !.fault = why]
  <2>1. q = y
    BY DEF Failed
  <2>2. IsParser(z) /\ z.tokens = p.tokens /\ z.outcome = "false"
    BY DEF IsParser
  <2> HIDE DEF z, q
  <2>3. IsParser(y) /\ y.tokens = z.tokens /\ y.outcome = z.outcome /\ y.fault = why
    BY <2>2 DEF IsParser
  <2> HIDE DEF y
  <2> QED BY <2>1, <2>2, <2>3
<1> HIDE DEF q
<1>2. p.tokens \in Seq(Tokens)
  BY DEF Knows
<1>3. Knows(q)
  BY <1>1, <1>2 DEF Knows
<1> QED BY <1>1, <1>3 DEF q

(* The end of the file finds a whole exactly if last_token_type and the height
   of the stack are what Parse asks for. *)
LEMMA EndIsWhole ==
    ASSUME NEW p, Knows(p), p.outcome = "parsing"
    PROVE  p.last \in {"STATEMENT_END", "END_BLOCK", "START"} /\ Len(p.stack) = 1
             <=> Whole(p.tokens)
<1> DEFINE s == p.tokens
           n == Len(s)
<1>1. /\ s \in Seq(Tokens) /\ n \in Nat /\ p.last = LastOf(s) /\ Height(s, n) \in Int
      /\ Len(p.stack) = Height(s, n) + 1
      /\ IsSeq(p.stack) /\ s = <<>> <=> n = 0
  <2>1. /\ s \in Seq(Tokens) /\ p.last = LastOf(s)
        /\ Len(p.stack) = Height(s, n) + 1 /\ IsSeq(p.stack)
    BY DEF Knows
  <2>2. n \in Nat /\ Height(s, n) \in Int
    BY EmptyStack
  <2>3. s = <<>> <=> n = 0
    BY <2>1, EmptySeq
  <2> QED BY <2>1, <2>2, <2>3
<1>2. /\ p.stack = <<>> <=> Height(s, n) < 0
      /\ p.stack # <<>> => Open(s)
  BY EmptyStack
<1> HIDE DEF s, n
<1>3. Len(p.stack) = 1 <=> Height(s, n) = 0
  BY <1>1
<1>4. Height(s, n) = 0 => Open(s)
  BY <1>1, <1>2
<1>5. n # 0 => s[n] \in Tokens
  <2>1. n # 0 => n \in 1 .. Len(s)
    BY <1>1 DEF n
  <2> QED BY <1>1, <2>1, ElementOfSeq
<1>6. p.last \in {"STATEMENT_END", "END_BLOCK", "START"}
        <=> (n > 0 => s[n] \in {"STATEMENT_END", "END_BLOCK"})
  <2>1. p.last = IF n = 0 THEN "START" ELSE s[n]
    BY <1>1 DEF LastOf, n
  <2>2. n # 0 => s[n] # "START"
    BY <1>5 DEF Tokens
  <2> QED BY <1>1, <2>1, <2>2
<1> QED BY <1>3, <1>4, <1>6 DEF Whole, s, n

LEMMA KnowsNext == Knows(Parser) /\ [ParserNext]_parserVars => Knows(Parser)'
<1> SUFFICES ASSUME Knows(Parser), [ParserNext]_parserVars PROVE Knows(Parser)'
  OBVIOUS
<1> DEFINE p == Parser
<1>0. IsParser(p) /\ Knows(p) /\ p.outcome = outcome /\ p.last = last /\ p.stack = stack
  BY ParserIsParser DEF Parser
(* It is enough to know what the step makes of the parser. *)
<1>1. ASSUME NEW q, IsParser(q), Knows(q), Becomes(q) PROVE Knows(Parser)'
  <2>1. Parser' = q
    BY <1>1, BecomesParser
  <2>2. Knows(Parser)' <=> Knows(Parser')
    BY DEF Knows
  <2> QED BY <1>1, <2>1, <2>2
<1>2. ASSUME NEW c \in Chars, ReadChar(c) PROVE Knows(Parser)'
  <2> DEFINE q == Given(p, EndsWord(c), "NORMAL")
             r == Given(q, IsToken(c), TypeOf(c))
  <2>1. CASE Fits(c)
    <3>1. Becomes(r)
      BY <1>2, <2>1 DEF ReadChar
    <3>2. IsParser(q) /\ Knows(q)
      <4>1. "NORMAL" \in Tokens
        BY DEF Tokens
      <4> HIDE DEF p
      <4> QED BY <1>0, <4>1, TakeKeeps DEF Given
    <3> HIDE DEF q
    <3>3. IsParser(r) /\ Knows(r)
      <4>1. IsToken(c) => TypeOf(c) \in Tokens
        BY TypeOfToken DEF IsToken
      <4> QED BY <3>2, <4>1, TakeKeeps DEF Given
    <3> HIDE DEF r
    <3> QED BY <1>1, <3>1, <3>3
  <2>2. CASE ~Fits(c)
    <3>1. Becomes(Failed(p, "token"))
      BY <1>2, <2>2 DEF ReadChar
    <3>2. IsParser(Failed(p, "token")) /\ Knows(Failed(p, "token"))
      BY <1>0, FailedKnows
    <3> QED BY <1>1, <3>1, <3>2
  <2> QED BY <2>1, <2>2
<1>3. ASSUME EndOfFile PROVE Knows(Parser)'
  <2>1. outcome = "parsing"
    BY <1>3 DEF EndOfFile
  <2> DEFINE complete == last \in {"STATEMENT_END", "END_BLOCK", "START"} /\ Len(stack) = 1
             accepted == [p EXCEPT !.outcome = "true"]
  <2>2. complete <=> Whole(p.tokens)
    BY <1>0, <2>1, EndIsWhole
  <2>3. \/ Becomes(Failed(p, "token"))
        \/ complete /\ Becomes(accepted)
        \/ ~complete /\ Becomes(Failed(p, "end"))
    BY <1>3 DEF EndOfFile
  <2> HIDE DEF complete
  <2>4. CASE Becomes(Failed(p, "token"))
    <3>1. IsParser(Failed(p, "token")) /\ Knows(Failed(p, "token"))
      BY <1>0, FailedKnows
    <3> QED BY <1>1, <2>4, <3>1
  <2>5. CASE ~complete /\ Becomes(Failed(p, "end"))
    <3>1. IsParser(Failed(p, "end")) /\ Knows(Failed(p, "end"))
      BY <1>0, <2>2, <2>5, FailedKnows
    <3> QED BY <1>1, <2>5, <3>1
  <2>6. CASE complete /\ Becomes(accepted)
    <3>1. IsParser(accepted) /\ accepted.tokens = p.tokens /\ accepted.outcome = "true"
      <4> HIDE DEF p
      <4> QED BY <1>0 DEF IsParser
    <3>2. p.tokens \in Seq(Tokens)
      BY <1>0 DEF Knows
    <3> HIDE DEF accepted, p
    <3>3. Knows(accepted)
      BY <2>2, <2>6, <3>1, <3>2 DEF Knows
    <3> QED BY <1>1, <2>6, <3>1, <3>3
  <2> QED BY <2>3, <2>4, <2>5, <2>6
<1>4. CASE UNCHANGED parserVars
  <2>1. Parser' = Parser
    BY <1>4 DEF parserVars, Parser
  <2>2. Knows(Parser)' <=> Knows(Parser')
    BY DEF Knows
  <2> QED BY <2>1, <2>2
<1> QED BY <1>2, <1>3, <1>4 DEF ParserNext

LEMMA KnowsParses == Knows(Parser) => ParsesConfigs
<1> SUFFICES ASSUME Knows(Parser) PROVE ParsesConfigs
  OBVIOUS
<1>1. /\ Parser.tokens = tokens /\ Parser.outcome = outcome /\ Parser.fault = fault
      /\ Parser.stack = stack
  BY DEF Parser
<1>2. tokens \in Seq(Tokens)
  BY <1>1 DEF Knows
<1>3. /\ Configs[tokens] <=> Whole(tokens)
      /\ Viable(tokens) <=> Open(tokens)
  BY <1>2, ConfigsAreWholes, ViableIsOpen, OpenIsViable
<1>4. outcome = "true" => Whole(tokens)
  BY <1>1 DEF Knows
<1>5. outcome = "undefined" => ~Open(tokens)
  BY <1>1 DEF Knows
<1>6. outcome = "parsing" /\ stack # <<>> => Open(tokens)
  BY <1>1, EmptyStack
<1>7. outcome = "false" => \/ fault = "syntax" /\ ~Open(tokens)
                           \/ fault = "end" /\ ~Whole(tokens)
                           \/ fault = "token"
  BY <1>1 DEF Knows, Open
<1> QED BY <1>3, <1>4, <1>5, <1>6, <1>7 DEF ParsesConfigs

(* Parse accepts exactly the configurations of the grammar, gives up only where
   no configuration can follow any more, and uses the empty stack only where a
   block was closed that nobody had opened: for files of every length. *)
THEOREM FilesAreParsed == ParserSpec => []ParsesConfigs
<1>1. Knows(Parser) /\ [ParserNext]_parserVars => Knows(Parser)'
  BY KnowsNext
<1>2. ParserInit => Knows(Parser)
  BY KnowsFirst
<1>3. Knows(Parser) => ParsesConfigs
  BY KnowsParses
<1> QED BY <1>1, <1>2, <1>3, PTL DEF ParserSpec
==============================================================================
